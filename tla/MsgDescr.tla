------------------------------ MODULE MsgDescr ------------------------------
(***************************************************************************)
(* Message descriptors (src/luaz_msg_descr.c and the macros of its two     *)
(* headers): a channel's message struct and the Lua table a script builds, *)
(* publishes, reads back, edits and publishes again, while C code          *)
(* publishes structs of its own on the same channel.                       *)
(*                                                                         *)
(* Structs and tables nest.  Here a member is reached by its path, the     *)
(* sequence of names from the outside in, which is what the recursion of   *)
(* the two conversions walks: a descriptor maps each path to its field, a  *)
(* message each path of a leaf to its C value, and a table each path that  *)
(* leads to a value other than nil to that value.                          *)
(***************************************************************************)
EXTENDS MsgField, FiniteSets

CONSTANTS
  Descrs,   \* the descriptors
  Numbers,  \* the Lua numbers a script assigns
  Doubles,  \* the numbers C code stores, in quarters
  Texts     \* the Lua strings a script assigns

Objects(d) == {p \in DOMAIN d : d[p].type = "OBJECT"}
Leaves(d)  == DOMAIN d \ Objects(d)

\* The objects of d that member p is in.
Above(d, p) == {q \in DOMAIN d : IsStrictPrefix(q, p)}

ASSUME DescrsAssumption ==
  \A d \in Descrs :
    /\ DOMAIN d \subseteq Seq(STRING) \ {<<>>}
    /\ \A p \in Leaves(d) : d[p] \in Fields
    /\ \A p \in DOMAIN d : Above(d, p) \subseteq Objects(d)
ASSUME NumbersAssumption ==
  \A x \in Numbers :
    /\ IsNumber(x)
    /\ x = IF x.lua = "integer" THEN Integer(x.v) ELSE Float(x.v)
    /\ IF x.lua = "integer" THEN x.v \in LuaInteger ELSE x.v \in Int /\ Exact(x.v, LuaSize)
ASSUME DoublesAssumption == Doubles \subseteq Int
ASSUME TextsAssumption ==
  \A x \in Texts : x = String(x.v) /\ x.v \in Seq(Letters \cup {NUL} \cup Numbers)

VARIABLES
  descr,   \* the channel's descriptor, which never changes
  memory,  \* the channel's message
  table    \* the script's table

vars == <<descr, memory, table>>

-----------------------------------------------------------------------------
(* Descriptors: LUA_MSG_FIELD, LUA_MSG_FIELD_OBJECT, and what a nanopb     *)
(* logical type becomes.                                                   *)

Leaf(name, type, size) == <<name>> :> [type |-> type, size |-> size]

Object(name, sub) ==
  (<<name>> :> [type |-> "OBJECT", size |-> 0])
    @@ [p \in {<<name>> \o q : q \in DOMAIN sub} |-> sub[Tail(p)]]

NanopbType(ltype) ==
  CASE ltype \in {"INT32", "SINT32", "SFIXED32", "INT64", "SINT64", "SFIXED64", "ENUM"} -> "INT"
    [] ltype \in {"UINT32", "FIXED32", "UINT64", "FIXED64", "UENUM"} -> "UINT"
    [] ltype \in {"FLOAT", "DOUBLE"} -> "NUMBER"
    [] ltype = "STRING" -> "STRING_BUF"
    [] ltype = "BOOL" -> "BOOL"

-----------------------------------------------------------------------------
(* Messages.                                                               *)

RawOf(f) ==
  CASE f.type \in {"INT", "UINT"} -> 0 .. Patterns[f.size] - 1
    [] f.type = "NUMBER" -> {q \in Doubles : Exact(q, f.size)}
    [] f.type = "STRING_BUF" -> [1 .. f.size -> Letters \cup {NUL}]
    [] f.type = "BOOL" -> BOOLEAN

\* The leaves of some types, with every value each of them can have.
Part(d, types) ==
  LET P == {p \in Leaves(d) : d[p].type \in types}
  IN  {m \in [P -> UNION {RawOf(d[p]) : p \in P}] : \A p \in P : m[p] \in RawOf(d[p])}

Messages(d) ==
  {[p \in Leaves(d) |-> CASE d[p].type = "STRING_BUF" -> s[p]
                           [] d[p].type = "BOOL" -> b[p]
                           [] OTHER -> n[p]] :
     n \in Part(d, {"INT", "UINT", "NUMBER"}), s \in Part(d, {"STRING_BUF"}), b \in Part(d, {"BOOL"})}

MessagesOf == [d \in Descrs |-> Messages(d)]

\* What C code publishes: its strings end within their arrays.
WellFormedOf ==
  [d \in Descrs |->
     {m \in Messages(d) : \A p \in Leaves(d) : d[p].type = "STRING_BUF" => Ends(m[p])}]

-----------------------------------------------------------------------------
(* Tables.                                                                 *)

\* lua_msg_descr_to_table
ToTable(d, m, beyond) ==
  [p \in DOMAIN d |-> IF p \in Objects(d) THEN Table ELSE Load(d[p], m[p], beyond)]

\* lua_getfield on an object's value: a string has no field of that name,
\* any other value but a table raises an error.
Indexable(d, tab) ==
  \A p \in Objects(d) \cap DOMAIN tab : tab[p].lua \in {"table", "string"}

\* lua_msg_descr_from_table: a nil leaves the field as it is.
FromTable(d, tab, m) ==
  [p \in Leaves(d) |-> IF p \in DOMAIN tab THEN Store(d[p], tab[p], m[p]) ELSE m[p]]

Values == Numbers \cup Texts \cup {Boolean(b) : b \in BOOLEAN} \cup {Table}
Beyond == {<<>>} \cup {<<c>> : c \in Letters}

\* The tables that differ from tab in the value at p, which may become nil.
\* What was inside it is gone, and the objects that p is in are tables.
Edits(d, tab, p) ==
  LET kept == Above(d, p) \cup {q \in DOMAIN tab : ~ IsPrefix(p, q)}
      rest == [q \in kept |-> IF q \in Above(d, p) THEN Table ELSE tab[q]]
  IN  {rest} \cup {[q \in kept \cup {p} |-> IF q = p THEN x ELSE rest[q]] : x \in Values}

-----------------------------------------------------------------------------
Init ==
  /\ descr \in Descrs
  /\ memory \in WellFormedOf[descr]
  /\ table = <<>>

\* channel:read
Read ==
  /\ \E beyond \in Beyond : table' = ToTable(descr, memory, beyond)
  /\ UNCHANGED <<descr, memory>>

\* The script assigns a field, or nil.
Edit ==
  /\ \E p \in DOMAIN descr : table' \in Edits(descr, table, p)
  /\ UNCHANGED <<descr, memory>>

\* channel:pub, whose buffer nobody initialised.
Publish ==
  /\ Indexable(descr, table)
  /\ UNCHANGED <<descr, table>>
  /\ memory' \in {FromTable(descr, table, junk) : junk \in MessagesOf[descr]}

\* zbus_chan_pub by C code
CPublish ==
  /\ memory' \in WellFormedOf[descr]
  /\ UNCHANGED <<descr, table>>

Next == Read \/ Edit \/ Publish \/ CPublish

Spec == Init /\ [][Next]_vars

-----------------------------------------------------------------------------
(* Properties.                                                             *)

\* The characters of a stored text may be a number's.
IsRaw(f, r) ==
  CASE f.type = "STRING_BUF" -> r \in [1 .. f.size -> Letters \cup {NUL} \cup Numbers]
    [] f.type = "NUMBER" -> r \in Int /\ Exact(r, f.size)
    [] OTHER -> r \in RawOf(f)

\* Every field of the struct holds a value of its C type, whatever a script
\* assigned to the key; and the paths describe a nested table.
TypeOK ==
  /\ descr \in Descrs
  /\ DOMAIN memory = Leaves(descr)
  /\ \A p \in Leaves(descr) : IsRaw(descr[p], memory[p])
  /\ DOMAIN table \subseteq DOMAIN descr
  /\ \A p \in DOMAIN table : \A q \in Above(descr, p) : q \in DOMAIN table /\ table[q] = Table

\* The leaves for which the script's table has a value.
Given == Leaves(descr) \cap DOMAIN table

\* What a script publishes is what channel:read then returns, for every value
\* its field can represent, at any depth, whatever the other keys hold and
\* whatever was in the buffer: the two conversions of luaz_msg_descr.c agree
\* on the width, the sign and the layout of every type.
WhatFitsComesBack ==
  [][Publish => \A p \in Given, beyond \in Beyond :
       Fits(descr[p], table[p]) => ToTable(descr, memory', beyond)[p] = table[p]]_vars

\* The same C value: of an array, the text that C code sees in it.
SameRaw(f, r, s) ==
  IF f.type = "STRING_BUF" THEN CString(s) = CString(r) ELSE s = r

\* Read, change some fields, publish: a field the script did not change keeps
\* its C value exactly when Lua can hold that value.  No integer of Lua's width
\* or less is harmed, also one that Lua shows as another (an unsigned integer
\* above Lua's largest reads as a negative number); a wider integer, or a double
\* where Lua's floats are C floats, is stored back changed, silently.
WhatWasReadSurvives ==
  [][Publish => \A p \in Given :
       table[p] = Load(descr[p], memory[p], <<>>) =>
         (SameRaw(descr[p], memory[p], memory'[p]) <=> LuaHolds(descr[p], memory[p]))]_vars

\* A text too long for its array is cut, and ends inside the array: a later
\* read sees a prefix of it and nothing of the memory beyond.
LongTextsAreCut ==
  [][Publish => \A p \in Given, beyond \in Beyond :
       descr[p].type = "STRING_BUF" /\ HasText(table[p]) =>
         LET back == ToTable(descr, memory', beyond)[p].v
         IN  Len(back) < descr[p].size /\ IsPrefix(back, ToText(table[p]))]_vars
=============================================================================
