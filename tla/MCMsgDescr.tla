----------------------------- MODULE MCMsgDescr -----------------------------
(* A small instance of MsgDescr: integers of 1 to 4 bits, and structs shaped *)
(* like those of samples/producer_consumer/proto/channels.proto.            *)
EXTENDS MsgDescr

CONSTANT a

MCPatterns == [s \in {1, 2, 4, 8} |-> CASE s = 1 -> 2 [] s = 2 -> 4 [] s = 4 -> 8 [] s = 8 -> 16]
MCLetters == {a}
MCNumbers == {Integer(n) : n \in {-4, -2, -1, 0, 1, 3}}
               \cup {Float(q) : q \in {2, 4, 16}}
MCDoubles == {-2, 0, 1, 2}
MCTexts == {String(s) : s \in {<<a>>, <<a, a, a>>, <<a, NUL, a>>, <<Integer(1)>>}}

Pb(name, ltype, size) == Leaf(name, NanopbType(ltype), size)

MCDescrs ==
  {Pb("x", "INT64", s) : s \in {1, 2, 4, 8}} \cup
  {Pb("x", "UINT64", s) : s \in {1, 2, 4, 8}} \cup
  { Pb("x", "UINT32", 1) @@ Pb("y", "STRING", 3),
    Pb("x", "FLOAT", 4), Pb("x", "DOUBLE", 8),
    Pb("x", "BOOL", 1) @@ Object("y", Pb("x", "INT32", 2)) }
=============================================================================
