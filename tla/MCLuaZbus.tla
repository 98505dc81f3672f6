----------------------------- MODULE MCLuaZbus -----------------------------
\* A small firmware for TLC: a channel with two observers, a larger one that
\* shares one of them, a channel without a descriptor, and a pool that runs
\* out before both observers hold two messages.
EXTENDS LuaZbus, TLC

CONSTANTS t1, t2, acc, aux, bare, o1, o2, x

MCObserversOf == [c \in Channels |-> CASE c = acc -> <<o1, o2>> [] c = aux -> <<o2>> [] c = bare -> <<>>]
MCMsgSize     == [c \in Channels |-> IF c = aux THEN 2 ELSE 1]
MCInitBody    == [f \in Fields |-> 0]

\* Threads differ only in name.
SymmetricThreads == Permutations(Threads)
=============================================================================
