------------------------------ MODULE MsgField ------------------------------
(***************************************************************************)
(* One field of a message struct and the Lua value it is converted from    *)
(* and to: the switches of src/luaz_msg_descr.c, and the Lua API functions *)
(* they call (lua_tointeger, lua_tonumber, lua_tostring, lua_toboolean),   *)
(* whose conversions decide what is stored.                                *)
(*                                                                         *)
(* Lua's integers and floats have LuaSize bytes each: 4 with LUA_32BITS,   *)
(* which CMakeLists.txt and luaz.cmake define, else 8.  An integer         *)
(* of s bytes is one of Patterns[s] bit patterns, a double a number of     *)
(* quarters of which a float holds the even ones (one bit of precision     *)
(* less), and the text of a number one character, the number itself; every *)
(* other character is one of Letters or NUL.                               *)
(***************************************************************************)
EXTENDS Integers, Sequences, SequencesExt

CONSTANTS
  Patterns,  \* Patterns[s]: bit patterns of an integer of s bytes, 256^s
  LuaSize,   \* sizeof(lua_Integer) and sizeof(lua_Number)
  Letters,   \* characters that are no number's text
  NUL        \* the character that ends a C string

Sizes == {1, 2, 4, 8}

\* sizeof(float)
FloatSize == 4

ASSUME PatternsAssumption ==
  /\ Patterns \in [Sizes -> Nat \ {0}]
  /\ \A s \in Sizes : Patterns[s] % 2 = 0
  /\ \A s, t \in Sizes : s < t => Patterns[t] % (2 * Patterns[s]) = 0
ASSUME LuaSizeAssumption == LuaSize \in {4, 8}

-----------------------------------------------------------------------------
(* Numbers.                                                                *)

\* Mutant: a field is stored with the width of Lua's integers.
Overlong(n, s) == n % Patterns[LuaSize]

\* The conversion of an integer to s bytes keeps the low ones.
Wrap(n, s) == n % Patterns[s]

\* Mutant: every bit pattern is taken as unsigned.
Unsigned(r, s) == r

\* The integer that a bit pattern of s bytes stands for.
Signed(r, s) == IF 2 * r < Patterns[s] THEN r ELSE r - Patterns[s]

\* (float) rounds to the nearest, ties to even.
Narrow(q) == CASE q % 4 = 1 -> q - 1 [] q % 4 = 3 -> q + 1 [] OTHER -> q

\* What a floating-point number of s bytes becomes of q, and those it can be.
Round(q, s) == IF s = FloatSize THEN Narrow(q) ELSE q
Exact(q, s) == s = FloatSize => q % 2 = 0

-----------------------------------------------------------------------------
(* Lua values.                                                             *)

Integer(n) == [lua |-> "integer", v |-> n]
Float(q)   == [lua |-> "float", v |-> q]
String(s)  == [lua |-> "string", v |-> s]
Boolean(b) == [lua |-> "boolean", v |-> b]

\* A table; what it holds is kept elsewhere.
Table == [lua |-> "table", v |-> <<>>]

\* The values of lua_Integer.
LuaInteger == -(Patterns[LuaSize] \div 2) .. Patterns[LuaSize] \div 2 - 1

\* Mutant: what is above Lua's largest integer becomes that one.
Saturated(n) ==
  IF n > Patterns[LuaSize] \div 2 - 1
  THEN Patterns[LuaSize] \div 2 - 1 ELSE Signed(Wrap(n, LuaSize), LuaSize)

\* (lua_Integer) of a C integer.
ToLua(n) == Signed(Wrap(n, LuaSize), LuaSize)

IsNumber(x) == x.lua \in {"integer", "float"}

\* A string that reads as a number is taken as that number.
IsNumeral(x) == x.lua = "string" /\ Len(x.v) = 1 /\ x.v[1] \notin Letters \cup {NUL}
AsNumber(x) == IF IsNumeral(x) THEN x.v[1] ELSE x

\* lua_tointeger: a float must be an integer that fits; what cannot be
\* converted is 0.
ToInteger(x) ==
  LET n == AsNumber(x)
  IN  CASE n.lua = "integer" -> n.v
        [] n.lua = "float" /\ n.v % 4 = 0 /\ n.v \div 4 \in LuaInteger -> n.v \div 4
        [] OTHER -> 0

\* lua_tonumber, in quarters, of which those of an integer are exact.
ToNumber(x) ==
  LET n == AsNumber(x)
  IN  CASE n.lua = "integer" -> 4 * n.v
        [] n.lua = "float" -> n.v
        [] OTHER -> 0

\* lua_tostring: a number becomes its text; other values have none (NULL).
HasText(x) == x.lua = "string" \/ IsNumber(x)
ToText(x) == IF IsNumber(x) THEN <<x>> ELSE x.v

Ends(r) == \E k \in DOMAIN r : r[k] = NUL

\* What a C string function sees of a Lua string.
CString(s) ==
  IF Ends(s)
  THEN SubSeq(s, 1, SelectInSeq(s, LAMBDA c : c = NUL) - 1) ELSE s

\* Mutant: the copy fills the whole array and nothing ends it.
Unterminated(s, size) ==
  [k \in 1 .. size |-> IF k <= Len(s) THEN s[k] ELSE NUL]

\* strncpy of size - 1 bytes, which pads with NUL, and the final NUL.
Terminated(s, size) ==
  [k \in 1 .. size |-> IF k < size /\ k <= Len(s) THEN s[k] ELSE NUL]

-----------------------------------------------------------------------------
(* A field f of a descriptor has a type and a size.  Load is its case of   *)
(* lua_msg_descr_to_table, Store its case of lua_msg_descr_from_table; an  *)
(* object is neither: its members are fields themselves.                   *)

LeafTypes == {"INT", "UINT", "NUMBER", "STRING_BUF", "BOOL"}

\* The fields LUA_MSG_FIELD makes of a struct's members; a size is a uint8_t.
Fields == {f \in [type : LeafTypes, size : Nat] :
             /\ f.type \in {"INT", "UINT"} => f.size \in Sizes
             /\ f.type = "STRING_BUF" => f.size \in 1 .. 255}

\* The Lua value of a field that holds r.  A string ends at the first NUL, be
\* it in the memory beyond the field.
Load(f, r, beyond) ==
  CASE f.type = "INT" -> Integer(ToLua(Signed(r, f.size)))
    [] f.type = "UINT" -> Integer(ToLua(r))
    [] f.type = "NUMBER" -> Float(Round(r, LuaSize))
    [] f.type = "STRING_BUF" -> String(CString(r \o beyond))
    [] f.type = "BOOL" -> Boolean(r)

\* What a field that held r holds once x was stored in it.
Store(f, x, r) ==
  CASE f.type \in {"INT", "UINT"} -> Wrap(ToInteger(x), f.size)
    [] f.type = "NUMBER" -> Round(ToNumber(x), f.size)
    [] f.type = "STRING_BUF" -> IF HasText(x) THEN Terminated(CString(ToText(x)), f.size) ELSE r
    [] f.type = "BOOL" -> x # Boolean(FALSE)

\* The Lua values a field can represent, by its C type.
Fits(f, x) ==
  CASE f.type = "INT" -> x.lua = "integer" /\ x.v \in -(Patterns[f.size] \div 2) .. Patterns[f.size] \div 2 - 1
    [] f.type = "UINT" -> x.lua = "integer" /\ x.v \in 0 .. Patterns[f.size] - 1
    [] f.type = "NUMBER" -> x.lua = "float" /\ Exact(x.v, f.size)
    [] f.type = "STRING_BUF" -> x.lua = "string" /\ ~ Ends(x.v) /\ Len(x.v) < f.size
    [] f.type = "BOOL" -> x.lua = "boolean"

\* The C values r of a field that Lua can represent: all but the integers and
\* doubles wider than its own, and a text that fills its array.
LuaHolds(f, r) ==
  CASE f.type \in {"INT", "UINT"} -> Signed(r, f.size) \in LuaInteger
    [] f.type = "NUMBER" -> Exact(r, LuaSize)
    [] f.type = "STRING_BUF" -> Ends(r)
    [] f.type = "BOOL" -> TRUE
=============================================================================
