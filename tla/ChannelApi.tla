------------------------------ MODULE ChannelApi ------------------------------
(***************************************************************************)
(* What channel:pub, channel:read and observer:wait_msg promise to scripts *)
(* that call them at the same time (src/luaz_apis.lua:7-27).  A channel is *)
(* the sequence of messages stored in it, an observer has an inbox.        *)
(*                                                                         *)
(*  - pub stores its message once, then hands it to each observer of the   *)
(*    channel, each after the messages it was handed before.  It answers   *)
(*    0 only if all have it, and -EAGAIN only if it was not stored.        *)
(*  - read sees, at one moment of the call, the last message stored.       *)
(*  - wait_msg takes the oldest message of the inbox; nobody else removes  *)
(*    one, so what was handed over is neither lost nor seen twice.         *)
(*                                                                         *)
(* No semaphore, buffer, heap or struct is left: this is what the binding  *)
(* and zbus implement together.                                            *)
(***************************************************************************)
EXTENDS Naturals, Sequences

CONSTANTS
  Threads, Channels, Observers,
  Followers,         \* the observers of a channel
  Described,         \* the channels whose messages scripts can see
  Fields, Values, Junk, InitBody,
  Nil

VARIABLES
  log,     \* log[c]: the tables published on c, in the order stored
  inbox,   \* inbox[o]: the messages o was handed and has not taken
  handed,  \* handed[o][c]: the last message of c that o was handed
  call,    \* call[t]: the call t's script is in
  result   \* result[t]: what its last call returned

vars == <<log, inbox, handed, call, result>>

Tables == UNION {[S -> Values] : S \in SUBSET Fields}
Bodies == [Fields -> Values \cup {Junk}]

\* n is the message the call is about, left the observers it has still to be
\* handed to, err "open" until it is decided how the call ends.
Request(op, c, o, tab) ==
  [op |-> op, chan |-> c, obs |-> o, tab |-> tab, n |-> 0, err |-> "open", left |-> {}]

Idle == Request("none", Nil, Nil, Nil)

Result(op, e, c, tab, n) == [op |-> op, err |-> e, chan |-> c, tab |-> tab, n |-> n]
NoResult == Result("none", "OK", Nil, Nil, 0)
Raised   == Result("raised", "OK", Nil, Nil, 0)

Init ==
  /\ log = [c \in Channels |-> <<>>]
  /\ inbox = [o \in Observers |-> <<>>]
  /\ handed = [o \in Observers |-> [c \in Channels |-> 0]]
  /\ call = [t \in Threads |-> Idle]
  /\ result = [t \in Threads |-> NoResult]

Goes(t, next) == call' = [call EXCEPT ![t] = next]

\* The same call, now about message n of c.
GoesOn(t, c, n, e, left) ==
  Goes(t, [op |-> call[t].op, chan |-> c, obs |-> call[t].obs, tab |-> call[t].tab,
           n |-> n, err |-> e, left |-> left])

\* A call begins, or is refused: bad arguments, no memory, no descriptor.
Requests ==
  {Request("pub", c, Nil, tab) : c \in Described, tab \in Tables}
    \cup {Request("read", c, Nil, Nil) : c \in Channels}
    \cup {Request("wait", Nil, o, Nil) : o \in Observers}

Refusals ==
  {Raised} \cup {Result("pub", "EINVAL", c, Nil, 0) : c \in Channels}
           \cup {Result(op, "ENOMEM", Nil, Nil, 0) : op \in {"pub", "read", "wait"}}

Calls(t) ==
  /\ call[t] = Idle
  /\ UNCHANGED <<log, handed>>
  /\ \/ /\ result' = [result EXCEPT ![t] = NoResult]
        /\ \E request \in Requests : Goes(t, request)
     \/ /\ \E r \in Refusals : result' = [result EXCEPT ![t] = r]
        /\ UNCHANGED call
  /\ UNCHANGED inbox

-----------------------------------------------------------------------------
(* pub                                                                     *)

Store(t) ==
  /\ call[t].n = 0
  /\ LET c == call[t].chan
     IN  /\ log' = [log EXCEPT ![c] = Append(@, call[t].tab)]
         /\ GoesOn(t, c, Len(log[c]) + 1, "open", Followers[c])
  /\ UNCHANGED <<inbox, handed>>

Hand(t, o) ==
  /\ o \in call[t].left
  /\ LET c == call[t].chan
         n == call[t].n
     IN  /\ handed[o][c] < n
         /\ handed' = [handed EXCEPT ![o][c] = n]
         /\ inbox' = [inbox EXCEPT ![o] = Append(@, [chan |-> c, n |-> n])]
         /\ GoesOn(t, c, n, "open", call[t].left \ {o})
  /\ UNCHANGED log

Decide(t, e) ==
  /\ CASE e = "OK"     -> call[t].n # 0 /\ call[t].left = {}
       [] e = "ENOMEM" -> call[t].n # 0
       [] e = "EAGAIN" -> call[t].n = 0
  /\ UNCHANGED <<log, inbox, handed>>
  /\ GoesOn(t, call[t].chan, call[t].n, e, {})

Publishes(t) ==
  /\ UNCHANGED result
  /\ call[t].op = "pub" /\ call[t].err = "open"
  /\ \/ Store(t)
     \/ \E o \in Observers : Hand(t, o)
     \/ \E e \in {"OK", "ENOMEM", "EAGAIN"} : Decide(t, e)

-----------------------------------------------------------------------------
(* read and wait_msg                                                       *)

Reads(t) ==
  /\ UNCHANGED <<log, handed, result>>
  /\ call[t].op = "read" /\ call[t].err = "open"
  /\ LET c == call[t].chan
     IN  \/ GoesOn(t, c, Len(log[c]), "OK", {})
         \/ GoesOn(t, c, call[t].n, "EAGAIN", {})
  /\ UNCHANGED inbox

Takes(t) ==
  LET o == call[t].obs
      m == Head(inbox[o])
  IN  /\ inbox[o] # <<>>
      /\ inbox' = [inbox EXCEPT ![o] = Tail(@)]
      /\ GoesOn(t, m.chan, m.n, "OK", {})

TakesNothing(t) ==
  /\ inbox[call[t].obs] = <<>>
  /\ GoesOn(t, call[t].chan, call[t].n, "ENOMSG", {})
  /\ UNCHANGED inbox

Waits(t) ==
  /\ UNCHANGED <<log, handed, result>>
  /\ call[t].op = "wait" /\ call[t].err = "open"
  /\ Takes(t) \/ TakesNothing(t)

-----------------------------------------------------------------------------
(* The end of a call                                                       *)

\* What message n of c may look like: what was published of it and anything in
\* the fields the table lacked.
Shows(c, n, body) ==
  IF n = 0 THEN body = InitBody
  ELSE n <= Len(log[c]) /\ \A f \in DOMAIN log[c][n] : body[f] = log[c][n][f]

\* The table that goes with the answer.  A read that failed is documented to
\* give nil and gives what the buffer held: nothing is promised of it.
TableOf(k) ==
  CASE k.op = "read" /\ k.err # "OK" -> Bodies \cup {Nil}
    [] k.op \in {"read", "wait"} /\ k.err = "OK" /\ k.chan \in Described ->
         {b \in Bodies : Shows(k.chan, k.n, b)}
    [] OTHER -> {Nil}

\* A Lua error while a table is built raises; what wait_msg took is gone.
CanRaise(k) == k.op = "read" \/ (k.op = "wait" /\ k.err = "OK")

Answers(t) ==
  /\ call[t].err # "open"
  /\ UNCHANGED <<log, handed>>
  /\ LET k == call[t]
     IN  \/ \E tab \in TableOf(k) :
              result' = [result EXCEPT ![t] = Result(k.op, k.err, k.chan, tab, k.n)]
         \/ CanRaise(k) /\ result' = [result EXCEPT ![t] = Raised]
  /\ Goes(t, Idle)
  /\ UNCHANGED inbox

Next == \E t \in Threads : Calls(t) \/ Publishes(t) \/ Reads(t) \/ Waits(t) \/ Answers(t)

Spec == Init /\ [][Next]_vars
=============================================================================
