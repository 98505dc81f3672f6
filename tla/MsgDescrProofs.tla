--------------------------- MODULE MsgDescrProofs ---------------------------
(***************************************************************************)
(* When a field's two conversions are inverse to each other, for every     *)
(* width of its integers and of Lua's and every size of a string array;    *)
(* and what that makes of a whole message, of any descriptor, on its way   *)
(* from a table into the channel and back.                                 *)
(***************************************************************************)
EXTENDS MsgDescr, SequenceTheorems, WellFoundedInduction, TLAPS

-----------------------------------------------------------------------------
(* Integers.                                                               *)

\* The low bytes of an integer, by cases: what % does within one turn.
LEMMA ModWithin ==
  ASSUME NEW p \in Nat \ {0}, NEW n \in 0 .. p - 1
  PROVE  n % p = n
  OBVIOUS

LEMMA ModBelow ==
  ASSUME NEW p \in Nat \ {0}, NEW n \in -p .. -1
  PROVE  n % p = n + p
  OBVIOUS

LEMMA Halves ==
  ASSUME NEW s \in Sizes
  PROVE  /\ Patterns[s] \in Nat \ {0}
         /\ Patterns[s] \div 2 \in Nat
         /\ 2 * (Patterns[s] \div 2) = Patterns[s]
  BY PatternsAssumption DEF Sizes

\* Adding a multiple of p leaves the remainder as it is.
LEMMA ModOfMultiple ==
  ASSUME NEW p \in Nat \ {0}, NEW k \in Nat, NEW n \in Int
  PROVE  (n + k * p) % p = n % p
<1> DEFINE a == n + k * p
<1>1. PICK q \in Int, m \in 0 .. p - 1 : n = p * q + m /\ m = n % p
  <2>1. n = p * (n \div p) + (n % p) /\ n % p \in 0 .. p - 1 /\ n \div p \in Int
    OBVIOUS
  <2> QED BY <2>1
<1>2. PICK b \in Int, c \in 0 .. p - 1 : a = p * b + c /\ c = a % p
  <2>1. a \in Int
    OBVIOUS
  <2>2. a = p * (a \div p) + (a % p) /\ a % p \in 0 .. p - 1 /\ a \div p \in Int
    BY <2>1
  <2> QED BY <2>2
<1>3. PICK e \in Int : e = b - (q + k)
  OBVIOUS
<1>4. p * e = m - c
  <2>1. p * b + c = p * q + m + k * p
    BY <1>1, <1>2
  <2>2. p * (b - (q + k)) = p * b - p * q - k * p
    OBVIOUS
  <2> QED BY <1>3, <2>1, <2>2
<1>5. e = 0
  <2>1. e >= 1 => p * e >= p
    OBVIOUS
  <2>2. e <= -1 => p * e <= -p
    OBVIOUS
  <2> QED BY <1>4, <2>1, <2>2
<1>6. p * 0 = 0
  OBVIOUS
<1>7. m = c
  BY <1>4, <1>5, <1>6
<1> QED BY <1>1, <1>2, <1>7

LEMMA Wider ==
  ASSUME NEW s \in Sizes, NEW t \in Sizes, s < t
  PROVE  /\ 2 * Patterns[s] <= Patterns[t]
         /\ \E k \in Nat : Patterns[t] = k * Patterns[s]
<1>1. PICK p, q : p = Patterns[s] /\ q = Patterns[t]
  OBVIOUS
<1>2. p \in Nat \ {0} /\ q \in Nat \ {0} /\ q % (2 * p) = 0
  BY <1>1, PatternsAssumption
<1>3. PICK d \in Nat \ {0} : d = 2 * p
  BY <1>2
<1>4. q = d * (q \div d) /\ q \div d \in Nat
  BY <1>2, <1>3
<1>5. PICK k \in Nat : q = d * k
  BY <1>4
<1>6. k >= 1
  BY <1>2, <1>5
<1>7. q = (2 * k) * p /\ 2 * k \in Nat
  BY <1>2, <1>3, <1>5
<1>8. 2 * p <= q
  <2>1. d * k >= d
    BY <1>6
  <2> QED BY <1>2, <1>3, <1>5, <2>1
<1> QED BY <1>1, <1>7, <1>8

\* A signed field gives back every integer of its range.
LEMMA SignedOfWrap ==
  ASSUME NEW s \in Sizes,
         NEW n \in -(Patterns[s] \div 2) .. Patterns[s] \div 2 - 1
  PROVE  Signed(Wrap(n, s), s) = n
<1> DEFINE p == Patterns[s]
           h == Patterns[s] \div 2
<1>1. p \in Nat \ {0} /\ h \in Nat /\ 2 * h = p
  BY Halves
<1>2. n \in Int /\ -h <= n /\ n <= h - 1
  BY <1>1
<1>3. CASE 0 <= n
  <2>1. n % p = n
    <3>1. n \in 0 .. p - 1
      BY <1>1, <1>2, <1>3
    <3> QED BY <1>1, <3>1, ModWithin
  <2>2. 2 * n < p
    BY <1>1, <1>2
  <2> QED BY <2>1, <2>2 DEF Wrap, Signed
<1>4. CASE n < 0
  <2>1. n % p = n + p
    <3>1. n \in -p .. -1
      BY <1>1, <1>2, <1>4
    <3> QED BY <1>1, <3>1, ModBelow
  <2>2. ~ (2 * (n + p) < p)
    BY <1>1, <1>2
  <2>3. (n + p) - p = n
    BY <1>1, <1>2
  <2> QED BY <2>1, <2>2, <2>3 DEF Wrap, Signed
<1> QED BY <1>2, <1>3, <1>4

\* Storing what was read of a bit pattern, signed or not, gives the pattern.
LEMMA WrapOfSigned ==
  ASSUME NEW s \in Sizes, NEW r \in 0 .. Patterns[s] - 1
  PROVE  Wrap(Signed(r, s), s) = r /\ Wrap(r, s) = r
<1> DEFINE p == Patterns[s]
<1>1. p \in Nat \ {0} /\ r \in 0 .. p - 1
  BY Halves
<1>2. Wrap(r, s) = r
  BY <1>1, ModWithin DEF Wrap
<1>3. CASE 2 * r < p
  BY <1>2, <1>3 DEF Signed
<1>4. CASE ~ (2 * r < p)
  <2>1. r - p \in -p .. -1
    BY <1>1
  <2>2. (r - p) % p = (r - p) + p
    BY <1>1, <2>1, ModBelow
  <2>3. (r - p) + p = r
    BY <1>1
  <2> QED BY <1>2, <1>4, <2>2, <2>3 DEF Signed, Wrap
<1> QED BY <1>3, <1>4

\* The integers of s bytes.
SignedRange(s) == -(Patterns[s] \div 2) .. Patterns[s] \div 2 - 1

LEMMA SignedInRange ==
  ASSUME NEW s \in Sizes, NEW r \in 0 .. Patterns[s] - 1
  PROVE  Signed(r, s) \in SignedRange(s)
<1>1. PICK p, h : p = Patterns[s] /\ h = Patterns[s] \div 2
  OBVIOUS
<1>2. p \in Nat \ {0} /\ h \in Nat /\ 2 * h = p /\ r \in 0 .. p - 1
  BY <1>1, Halves
<1>3. (IF 2 * r < p THEN r ELSE r - p) \in -h .. h - 1
  BY <1>2
<1> QED BY <1>1, <1>3 DEF Signed, SignedRange

\* Wider integers include the narrower ones, the unsigned among them.
LEMMA RangesNest ==
  ASSUME NEW s \in Sizes, NEW t \in Sizes
  PROVE  /\ s <= t => SignedRange(s) \subseteq SignedRange(t)
         /\ s < t => 0 .. Patterns[s] - 1 \subseteq SignedRange(t)
<1>1. PICK p, h, q, g : /\ p = Patterns[s] /\ h = Patterns[s] \div 2
                        /\ q = Patterns[t] /\ g = Patterns[t] \div 2
  OBVIOUS
<1>2. h \in Nat /\ g \in Nat /\ p = 2 * h /\ q = 2 * g
  BY <1>1, Halves
<1>3. s < t => 2 * p <= q
  BY <1>1, Wider
<1>4. s <= t => s < t \/ s = t
  BY DEF Sizes
<1>5. s < t => -h .. h - 1 \subseteq -g .. g - 1 /\ 0 .. p - 1 \subseteq -g .. g - 1
  BY <1>2, <1>3
<1> QED BY <1>1, <1>4, <1>5 DEF SignedRange

LEMMA LuaSizeIsSize == LuaSize \in Sizes /\ LuaInteger = SignedRange(LuaSize)
  BY LuaSizeAssumption DEF Sizes, LuaInteger, SignedRange

\* (lua_Integer) keeps an integer that Lua can hold, and makes one of any other.
LEMMA ToLuaIsLua ==
  ASSUME NEW n \in Int
  PROVE  ToLua(n) \in LuaInteger /\ (n \in LuaInteger => ToLua(n) = n)
<1>1. PICK p : p = Patterns[LuaSize] /\ p \in Nat \ {0}
  BY LuaSizeIsSize, Halves
<1>2. n % p \in 0 .. p - 1
  BY <1>1
<1>3. Wrap(n, LuaSize) \in 0 .. Patterns[LuaSize] - 1
  BY <1>1, <1>2 DEF Wrap
<1>4. ToLua(n) \in LuaInteger
  BY <1>3, LuaSizeIsSize, SignedInRange DEF ToLua
<1>5. n \in LuaInteger => ToLua(n) = n
  BY LuaSizeIsSize, SignedOfWrap DEF ToLua, SignedRange
<1> QED BY <1>4, <1>5

\* The low bytes do not tell a bit pattern from the integer it stands for.
LEMMA WrapOfPattern ==
  ASSUME NEW s \in Sizes, NEW t \in Sizes, s <= t, NEW r \in 0 .. Patterns[t] - 1
  PROVE  Wrap(Signed(r, t), s) = Wrap(r, s)
<1>1. PICK p, q : p = Patterns[s] /\ q = Patterns[t]
  OBVIOUS
<1>2. p \in Nat \ {0} /\ q \in Nat \ {0} /\ r \in Int
  BY <1>1, Halves
<1>3. PICK k \in Nat : q = k * p
  <2>1. CASE s < t
    BY <1>1, <2>1, Wider
  <2>2. CASE s = t
    <3>1. q = 1 * p
      BY <1>1, <1>2, <2>2
    <3> QED BY <3>1
  <2> QED BY <2>1, <2>2 DEF Sizes
<1>4. (r - q) % p = r % p
  <2>1. PICK n \in Int : n = r - q
    BY <1>2
  <2>2. r = n + k * p
    BY <1>2, <1>3, <2>1
  <2> QED BY <1>2, <2>1, <2>2, ModOfMultiple
<1> QED BY <1>1, <1>4 DEF Wrap, Signed

-----------------------------------------------------------------------------
(* C strings.                                                              *)

\* A nonempty set of numbers has a least one, which Min finds.
LEMMA MinOfIndices ==
  ASSUME NEW I, I \subseteq Nat, I # {}
  PROVE  Min(I) \in I /\ \A i \in I : Min(I) <= i
<1> DEFINE R == {ss \in Nat \X Nat : ss[1] < ss[2]}
<1>1. IsWellFoundedOn(R, Nat)
  BY NatLessThanWellFounded DEF OpToRel
<1>2. PICK m \in I : \A i \in I : <<i, m>> \notin R
  <2> HIDE DEF R
  <2> QED BY <1>1, WFMin
<1>3. ASSUME NEW i \in I PROVE m <= i
  <2>1. i \in Nat /\ m \in Nat
    OBVIOUS
  <2>2. <<i, m>> \notin R
    BY <1>2
  <2>3. ~ (i < m)
    BY <2>1, <2>2
  <2> QED BY <2>1, <2>3
<1> QED BY <1>3 DEF Min

\* A C string ends before the first NUL, and with the sequence if it has none.
LEMMA CStringEnds ==
  ASSUME NEW S, NEW s \in Seq(S), NEW n \in 0 .. Len(s),
         \A i \in 1 .. n : s[i] # NUL, n < Len(s) => s[n + 1] = NUL
  PROVE  CString(s) = SubSeq(s, 1, n)
<1> DEFINE I == {i \in 1 .. Len(s) : s[i] = NUL}
<1>1. CASE n < Len(s)
  <2>1. n + 1 \in I /\ \A i \in I : n + 1 <= i
    BY <1>1
  <2>2. I # {} /\ Ends(s)
    BY <2>1 DEF Ends
  <2>3. Min(I) \in I /\ \A i \in I : Min(I) <= i
    <3>1. I \subseteq Nat
      OBVIOUS
    <3> HIDE DEF I
    <3> QED BY <2>2, <3>1, MinOfIndices
  <2>4. Min(I) - 1 = n
    BY <2>1, <2>3
  <2> QED BY <2>2, <2>4 DEF CString, SelectInSeq
<1>2. CASE n = Len(s)
  <2>1. ~ Ends(s)
    BY <1>2 DEF Ends
  <2>2. SubSeq(s, 1, Len(s)) = s
    OBVIOUS
  <2> QED BY <1>2, <2>1, <2>2 DEF CString
<1> QED BY <1>1, <1>2

LEMMA CStringLength ==
  ASSUME NEW S, NEW s \in Seq(S)
  PROVE  \E n \in 0 .. Len(s) : /\ \A i \in 1 .. n : s[i] # NUL
                                /\ n < Len(s) => s[n + 1] = NUL
                                /\ n = Len(s) <=> ~ Ends(s)
<1> DEFINE I == {i \in 1 .. Len(s) : s[i] = NUL}
<1>1. CASE I = {}
  <2>1. \A i \in 1 .. Len(s) : s[i] # NUL
    BY <1>1
  <2>2. ~ Ends(s)
    BY <2>1 DEF Ends
  <2> QED BY <2>1, <2>2
<1>2. CASE I # {}
  <2> DEFINE m == Min(I)
  <2>1. m \in I /\ \A i \in I : m <= i
    <3>1. I \subseteq Nat
      OBVIOUS
    <3> HIDE DEF I
    <3> QED BY <1>2, <3>1, MinOfIndices
  <2> HIDE DEF m
  <2>2. m - 1 \in 0 .. Len(s) /\ m - 1 < Len(s) /\ (m - 1) + 1 = m
    BY <2>1
  <2>3. \A i \in 1 .. m - 1 : s[i] # NUL
    BY <2>1
  <2>4. Ends(s) /\ s[m] = NUL
    BY <2>1 DEF Ends
  <2>5. m - 1 < Len(s) => s[(m - 1) + 1] = NUL
    BY <2>2, <2>4
  <2>6. m - 1 = Len(s) <=> ~ Ends(s)
    BY <2>2, <2>4
  <2> QED BY <2>2, <2>3, <2>5, <2>6
<1> QED BY <1>1, <1>2

\* What a C string function sees of a string has no NUL, and all of it is seen
\* again.
LEMMA CStringHasNoEnd ==
  ASSUME NEW S, NEW s \in Seq(S)
  PROVE  /\ CString(s) \in Seq(S)
         /\ ~ Ends(CString(s))
         /\ IsPrefix(CString(s), s)
         /\ CString(CString(s)) = CString(s)
         /\ Ends(s) => Len(CString(s)) < Len(s)
<1>1. PICK n \in 0 .. Len(s) : /\ \A i \in 1 .. n : s[i] # NUL
                               /\ n < Len(s) => s[n + 1] = NUL
                               /\ n = Len(s) <=> ~ Ends(s)
  BY CStringLength
<1>2. CString(s) = SubSeq(s, 1, n)
  BY <1>1, CStringEnds, Zenon
<1>3. PICK t : t = SubSeq(s, 1, n)
  OBVIOUS
<1>4. t \in Seq(S) /\ Len(t) = n /\ \A i \in 1 .. n : t[i] = s[i]
  BY <1>3
<1>5. ~ Ends(t)
  <2>1. DOMAIN t = 1 .. n /\ \A i \in 1 .. n : t[i] # NUL
    BY <1>1, <1>4
  <2> QED BY <2>1 DEF Ends
<1>6. IsPrefix(t, s)
  <2>1. SubSeq(t, 1, Len(t)) = t
    BY <1>4
  <2> QED BY <1>3, <1>4, <2>1 DEF IsPrefix
<1>7. CString(t) = t
  BY <1>5 DEF CString
<1>8. Ends(s) => Len(t) < Len(s)
  BY <1>1, <1>4
<1> QED BY <1>2, <1>3, <1>4, <1>5, <1>6, <1>7, <1>8

\* strncpy into an array of size characters, read with whatever follows the
\* array: the text, cut to size - 1 characters.
LEMMA TerminatedString ==
  ASSUME NEW S, NUL \in S, NEW s \in Seq(S), ~ Ends(s), NEW size \in Nat \ {0},
         NEW beyond \in Seq(S), NEW k \in Nat, k = IF Len(s) < size THEN Len(s) ELSE size - 1
  PROVE  CString(Terminated(s, size) \o beyond) = SubSeq(s, 1, k)
<1>1. Len(s) \in Nat /\ k <= Len(s) /\ k + 1 \in 1 .. size
  OBVIOUS
<1>2. PICK t : t = Terminated(s, size)
  OBVIOUS
<1>3. t \in Seq(S) /\ Len(t) = size
  <2>1. t \in [1 .. size -> S]
    BY <1>2 DEF Terminated
  <2> QED BY <2>1
<1>4. (\A i \in 1 .. k : t[i] = s[i]) /\ t[k + 1] = NUL
  <2>1. \A i \in 1 .. size : t[i] = IF i < size /\ i <= Len(s) THEN s[i] ELSE NUL
    BY <1>2 DEF Terminated
  <2> QED BY <1>1, <2>1
<1>5. PICK c : c = t \o beyond
  OBVIOUS
<1>6. /\ c \in Seq(S) /\ Len(c) \in Nat /\ k + 1 <= Len(c)
      /\ \A i \in 1 .. k : c[i] = s[i]
      /\ c[k + 1] = NUL
  BY <1>1, <1>3, <1>4, <1>5
<1>7. \A i \in 1 .. k : s[i] # NUL
  BY <1>1 DEF Ends
<1>8. CString(c) = SubSeq(c, 1, k)
  <2>1. k \in 0 .. Len(c)
    BY <1>1, <1>6
  <2>2. \A i \in 1 .. k : c[i] # NUL
    BY <1>6, <1>7
  <2>3. k < Len(c) => c[k + 1] = NUL
    BY <1>6
  <2> QED BY <1>6, <2>1, <2>2, <2>3, CStringEnds, Zenon
<1>9. SubSeq(c, 1, k) = SubSeq(s, 1, k)
  BY <1>1, <1>6
<1> QED BY <1>2, <1>5, <1>8, <1>9

-----------------------------------------------------------------------------
(* Fields.                                                                 *)

LEMMA ArraySize ==
  ASSUME NEW f \in Fields, f.type = "STRING_BUF"
  PROVE  f.size \in Nat \ {0}
<1>1. f.size \in 1 .. 255
  BY DEF Fields
<1> QED BY <1>1

\* The characters and the values of a script's table.
Chars == Letters \cup {NUL} \cup Numbers

LuaValues ==
  {Integer(n) : n \in LuaInteger} \cup {Float(q) : q \in {i \in Int : Exact(i, LuaSize)}}
    \cup {String(s) : s \in Seq(Chars)} \cup {Boolean(b) : b \in BOOLEAN} \cup {Table}

LEMMA LuaIsInt == LuaInteger \subseteq Int
  BY LuaSizeIsSize, Halves DEF SignedRange

LEMMA NarrowIsEven ==
  ASSUME NEW q \in Int
  PROVE  Narrow(q) \in Int /\ Narrow(q) % 2 = 0
<1>1. CASE q % 4 = 1
  <2>1. q - 1 \in Int /\ (q - 1) % 2 = 0
    BY <1>1
  <2> QED BY <1>1, <2>1 DEF Narrow
<1>2. CASE q % 4 = 3
  <2>1. q + 1 \in Int /\ (q + 1) % 2 = 0
    BY <1>2
  <2>2. q % 4 # 1
    BY <1>2
  <2> QED BY <1>2, <2>1, <2>2 DEF Narrow
<1>3. CASE q % 4 # 1 /\ q % 4 # 3
  <2>1. q % 2 = 0
    BY <1>3
  <2> QED BY <1>3, <2>1 DEF Narrow
<1> QED BY <1>1, <1>2, <1>3

\* Rounding makes a number that can be held, and keeps just those.
LEMMA RoundIsExact ==
  ASSUME NEW q \in Int, NEW s
  PROVE  /\ Round(q, s) \in Int
         /\ Exact(Round(q, s), s)
         /\ Exact(q, s) <=> Round(q, s) = q
<1>1. Narrow(q) \in Int /\ Narrow(q) % 2 = 0
  BY NarrowIsEven
<1>2. q % 2 = 0 => Narrow(q) = q
  <2>1. q % 2 = 0 => q % 4 # 1 /\ q % 4 # 3
    OBVIOUS
  <2> QED BY <2>1 DEF Narrow
<1> QED BY <1>1, <1>2 DEF Round, Exact

\* What lua_msg_descr_from_table stores for a value the field's C type can
\* represent, lua_msg_descr_to_table gives back, whatever the field held (r)
\* and whatever follows it in memory.
LEMMA FieldComesBack ==
  ASSUME NEW f \in Fields, NEW x \in LuaValues, Fits(f, x),
         NEW r, NEW beyond \in Seq(Chars)
  PROVE  Load(f, Store(f, x, r), beyond) = x
<1>1. CASE f.type = "INT"
  <2>1. PICK n \in LuaInteger : x = Integer(n)
    BY <1>1 DEF Fits, LuaValues, Table, Integer, Float, String, Boolean
  <2>2. n \in -(Patterns[f.size] \div 2) .. Patterns[f.size] \div 2 - 1 /\ f.size \in Sizes
    BY <1>1, <2>1 DEF Fits, Integer, Fields
  <2>3. Store(f, x, r) = Wrap(n, f.size)
    BY <1>1, <2>1 DEF Store, ToInteger, AsNumber, IsNumeral, Integer
  <2>4. Load(f, Store(f, x, r), beyond) = Integer(ToLua(Signed(Wrap(n, f.size), f.size)))
    BY <1>1, <2>3 DEF Load
  <2>5. Signed(Wrap(n, f.size), f.size) = n
    BY <2>2, SignedOfWrap
  <2>6. ToLua(n) = n
    BY LuaIsInt, ToLuaIsLua
  <2> QED BY <2>1, <2>4, <2>5, <2>6
<1>2. CASE f.type = "UINT"
  <2>1. PICK n \in LuaInteger : x = Integer(n)
    BY <1>2 DEF Fits, LuaValues, Table, Integer, Float, String, Boolean
  <2>2. n \in 0 .. Patterns[f.size] - 1 /\ f.size \in Sizes
    BY <1>2, <2>1 DEF Fits, Integer, Fields
  <2>3. Store(f, x, r) = Wrap(n, f.size)
    BY <1>2, <2>1 DEF Store, ToInteger, AsNumber, IsNumeral, Integer
  <2>4. Wrap(n, f.size) = n
    BY <2>2, Halves, ModWithin DEF Wrap
  <2>5. ToLua(n) = n
    BY LuaIsInt, ToLuaIsLua
  <2> QED BY <1>2, <2>1, <2>3, <2>4, <2>5 DEF Load
<1>3. CASE f.type = "NUMBER"
  <2>1. PICK q \in Int : x = Float(q) /\ Exact(q, LuaSize)
    BY <1>3 DEF Fits, LuaValues, Table, Integer, Float, String, Boolean
  <2>2. ToNumber(x) = q
    BY <2>1 DEF ToNumber, AsNumber, IsNumeral, Float
  <2>3. Exact(q, f.size)
    BY <1>3, <2>1 DEF Fits, Float
  <2>4. Round(q, f.size) = q /\ Round(q, LuaSize) = q
    BY <2>1, <2>3, RoundIsExact
  <2> QED BY <1>3, <2>1, <2>2, <2>4 DEF Load, Store
<1>4. CASE f.type = "STRING_BUF"
  <2>1. PICK s \in Seq(Chars) : x = String(s)
    BY <1>4 DEF Fits, LuaValues, Table, Integer, Float, String, Boolean
  <2>2. ~ Ends(s) /\ Len(s) < f.size /\ f.size \in Nat \ {0}
    BY <1>4, <2>1 DEF Fits, String, Fields
  <2>3. Store(f, x, r) = Terminated(s, f.size)
    BY <1>4, <2>1, <2>2 DEF Store, HasText, ToText, IsNumber, String, CString
  <2>4. CString(Terminated(s, f.size) \o beyond) = s
    <3>1. CString(Terminated(s, f.size) \o beyond) = SubSeq(s, 1, Len(s))
      BY <2>2, TerminatedString DEF Chars
    <3> QED BY <3>1
  <2> QED BY <1>4, <2>1, <2>3, <2>4 DEF Load
<1>5. CASE f.type = "BOOL"
  <2>1. PICK b \in BOOLEAN : x = Boolean(b)
    BY <1>5 DEF Fits, LuaValues, Table, Integer, Float, String, Boolean
  <2>2. Store(f, x, r) = b
    BY <1>5, <2>1 DEF Store, Boolean
  <2> QED BY <1>5, <2>1, <2>2 DEF Load
<1> QED BY <1>1, <1>2, <1>3, <1>4, <1>5 DEF Fields, LeafTypes

\* An integer field that is stored what was read of it keeps its bit pattern
\* just when Lua holds the integer: no integer of Lua's width or less loses a
\* bit, and every wider one that Lua cannot hold does.
LEMMA IntegerIsStoredBack ==
  ASSUME NEW f \in Fields, f.type \in {"INT", "UINT"}, NEW r, IsRaw(f, r), NEW old, NEW beyond
  PROVE  Store(f, Load(f, r, beyond), old) = r <=> Signed(r, f.size) \in LuaInteger
<1>1. PICK s \in Sizes : s = f.size
  BY DEF Fields
<1>2. r \in 0 .. Patterns[s] - 1 /\ r \in Int
  BY <1>1, Halves DEF IsRaw, RawOf
<1>3. PICK c \in {r, Signed(r, s)} : Load(f, r, beyond) = Integer(ToLua(c))
  BY <1>1 DEF Load
<1>4. Store(f, Integer(ToLua(c)), old) = Wrap(ToLua(c), s)
  BY <1>1 DEF Store, ToInteger, AsNumber, IsNumeral, Integer
<1>5. Signed(r, s) \in SignedRange(s) /\ SignedRange(s) \subseteq Int
  BY <1>2, SignedInRange, Halves DEF SignedRange
<1>6. Wrap(Signed(r, s), s) = r /\ Wrap(r, s) = r
  BY <1>2, WrapOfSigned
<1>7. LuaSize \in Sizes /\ LuaInteger = SignedRange(LuaSize)
  BY LuaSizeIsSize
<1>8. c \in Int
  BY <1>2, <1>5
<1>9. CASE s < LuaSize
  <2>1. r \in LuaInteger /\ Signed(r, s) \in LuaInteger
    BY <1>2, <1>5, <1>7, <1>9, RangesNest DEF Sizes
  <2>2. ToLua(c) = c
    BY <1>8, <2>1, ToLuaIsLua
  <2> QED BY <1>1, <1>3, <1>4, <1>6, <2>1, <2>2
<1>10. CASE LuaSize <= s
  <2>1. ToLua(r) = ToLua(Signed(r, s))
    BY <1>2, <1>7, <1>10, WrapOfPattern DEF ToLua
  <2>2. PICK m \in LuaInteger : m = ToLua(c) /\ m = ToLua(Signed(r, s))
    BY <1>8, <2>1, ToLuaIsLua
  <2>3. Signed(Wrap(m, s), s) = m
    BY <1>7, <1>10, RangesNest, SignedOfWrap DEF SignedRange
  <2>4. Wrap(m, s) = r => Signed(r, s) \in LuaInteger
    BY <2>3
  <2>5. Signed(r, s) \in LuaInteger => Wrap(m, s) = r
    BY <1>5, <1>6, <2>2, ToLuaIsLua
  <2> QED BY <1>1, <1>3, <1>4, <2>2, <2>4, <2>5
<1> QED BY <1>7, <1>9, <1>10 DEF Sizes

\* The same of a float or double, and of a boolean, which is always kept.
LEMMA ReadValueIsStoredBack ==
  ASSUME NEW f \in Fields, f.type \in {"NUMBER", "BOOL"}, NEW r, IsRaw(f, r), NEW old, NEW beyond
  PROVE  Store(f, Load(f, r, beyond), old) = r <=> LuaHolds(f, r)
<1>2. CASE f.type = "NUMBER"
  <2>1. r \in Int /\ Exact(r, f.size)
    BY <1>2 DEF IsRaw
  <2>2. PICK q : q = Round(r, LuaSize)
    OBVIOUS
  <2>3. q \in Int /\ (Exact(r, LuaSize) <=> q = r) /\ Exact(q, LuaSize)
    BY <2>1, <2>2, RoundIsExact
  <2>4. ToNumber(Load(f, r, beyond)) = q
    BY <1>2, <2>2 DEF Load, ToNumber, AsNumber, IsNumeral, Float
  <2>5. Store(f, Load(f, r, beyond), old) = Round(q, f.size)
    BY <1>2, <2>4 DEF Store
  <2>6. Round(q, f.size) = q
    <3>1. CASE LuaSize = FloatSize
      <4>1. Exact(q, f.size)
        BY <2>3, <3>1 DEF Exact
      <4> QED BY <2>3, <4>1, RoundIsExact
    <3>2. CASE LuaSize # FloatSize
      <4>1. q = r
        BY <2>2, <3>2 DEF Round
      <4> QED BY <2>1, <4>1, RoundIsExact
    <3> QED BY <3>1, <3>2
  <2> QED BY <1>2, <2>3, <2>5, <2>6 DEF LuaHolds
<1>3. CASE f.type = "BOOL"
  <2>1. Load(f, r, beyond) = Boolean(r)
    BY <1>3 DEF Load
  <2>2. Boolean(TRUE) # Boolean(FALSE)
    BY DEF Boolean
  <2>3. (Boolean(r) # Boolean(FALSE)) = r
    <3>1. r \in BOOLEAN
      BY <1>3 DEF IsRaw, RawOf
    <3> QED BY <2>2, <3>1
  <2>4. Store(f, Boolean(r), old) = (Boolean(r) # Boolean(FALSE))
    BY <1>3 DEF Store
  <2> QED BY <1>3, <2>1, <2>3, <2>4 DEF LuaHolds
<1> QED BY <1>2, <1>3

\* A number is an integer or a float, and so is what reads as one.
LEMMA NumbersAreLua ==
  ASSUME NEW x \in Numbers
  PROVE  /\ x \in LuaValues
         /\ \/ x.lua = "integer" /\ x.v \in LuaInteger
            \/ x.lua = "float" /\ x.v \in Int /\ Exact(x.v, LuaSize)
<1>1. CASE x.lua = "integer"
  <2>1. x = Integer(x.v) /\ x.v \in LuaInteger
    BY <1>1, NumbersAssumption
  <2>2. x \in {Integer(n) : n \in LuaInteger}
    BY <2>1, Zenon
  <2> QED BY <1>1, <2>1, <2>2 DEF LuaValues
<1>2. CASE x.lua = "float"
  <2>1. x = Float(x.v) /\ x.v \in Int /\ Exact(x.v, LuaSize)
    BY <1>2, NumbersAssumption
  <2>2. x.v \in {i \in Int : Exact(i, LuaSize)}
    BY <2>1
  <2> QED BY <1>2, <2>1, <2>2, Zenon DEF LuaValues
<1>3. x.lua \in {"integer", "float"}
  BY NumbersAssumption DEF IsNumber
<1> QED BY <1>1, <1>2, <1>3

LEMMA NumberOfValue ==
  ASSUME NEW x \in LuaValues, (AsNumber(x)).lua \in {"integer", "float"}
  PROVE  (AsNumber(x)).v \in Int
<1>1. LuaInteger \subseteq Int
  BY LuaIsInt
<1>2. CASE IsNumeral(x)
  <2>1. PICK s \in Seq(Chars) : x = String(s)
    BY <1>2 DEF IsNumeral, LuaValues, Integer, Float, String, Boolean, Table
  <2>2. Len(s) = 1 /\ s[1] \notin Letters \cup {NUL}
    BY <1>2, <2>1 DEF IsNumeral, String
  <2>3. s[1] \in Numbers
    <3>1. \A c \in Chars : c \notin Letters \cup {NUL} => c \in Numbers
      BY DEF Chars
    <3>2. s[1] \in Chars
      BY <2>2
    <3> QED BY <2>2, <3>1, <3>2, Zenon
  <2>4. AsNumber(x) = s[1]
    BY <1>2, <2>1 DEF AsNumber, String
  <2> QED BY <1>1, <2>3, <2>4, NumbersAreLua
<1>3. CASE ~ IsNumeral(x)
  <2>1. AsNumber(x) = x
    BY <1>3 DEF AsNumber
  <2>2. CASE \E n \in LuaInteger : x = Integer(n)
    BY <1>1, <2>1, <2>2 DEF Integer
  <2>3. CASE \E q \in Int : x = Float(q)
    BY <2>1, <2>3 DEF Float
  <2> QED BY <2>1, <2>2, <2>3 DEF LuaValues, String, Boolean, Table
<1> QED BY <1>2, <1>3

LEMMA Conversions ==
  ASSUME NEW x \in LuaValues
  PROVE  ToInteger(x) \in Int /\ ToNumber(x) \in Int
<1> DEFINE n == AsNumber(x)
<1>1. n.lua \in {"integer", "float"} => n.v \in Int
  BY NumberOfValue
<1>2. PICK t, v : t = n.lua /\ v = n.v
  OBVIOUS
<1>3. v % 4 = 0 /\ v \in Int => v \div 4 \in Int
  OBVIOUS
<1>4. ToInteger(x) = CASE t = "integer" -> v
                       [] t = "float" /\ v % 4 = 0 /\ v \div 4 \in LuaInteger -> v \div 4
                       [] OTHER -> 0
  BY <1>2 DEF ToInteger
<1>5. ToNumber(x) = CASE t = "integer" -> 4 * v [] t = "float" -> v [] OTHER -> 0
  BY <1>2 DEF ToNumber
<1>6. t \in {"integer", "float"} => v \in Int
  BY <1>1, <1>2
<1> HIDE DEF n
<1>7. ToInteger(x) \in Int
  BY <1>3, <1>4, <1>6
<1>8. ToNumber(x) \in Int
  BY <1>5, <1>6
<1> QED BY <1>7, <1>8

\* What channel:read makes of a field is a Lua value.
LEMMA LoadIsLua ==
  ASSUME NEW f \in Fields, NEW r, IsRaw(f, r), NEW beyond \in Seq(Chars)
  PROVE  /\ Load(f, r, beyond) \in LuaValues
         /\ f.type = "STRING_BUF" => ~ IsNumber(Load(f, r, beyond))
<1>1. CASE f.type \in {"INT", "UINT"}
  <2>1. f.size \in Sizes /\ r \in 0 .. Patterns[f.size] - 1
    BY <1>1 DEF Fields, IsRaw, RawOf
  <2>2. Signed(r, f.size) \in Int /\ r \in Int
    BY <2>1, SignedInRange, Halves DEF SignedRange
  <2>3. \E n \in LuaInteger : Load(f, r, beyond) = Integer(n)
    BY <1>1, <2>2, ToLuaIsLua DEF Load
  <2> QED BY <1>1, <2>3 DEF LuaValues
<1>2. CASE f.type = "NUMBER"
  <2>1. r \in Int /\ Load(f, r, beyond) = Float(Round(r, LuaSize))
    BY <1>2 DEF Load, IsRaw
  <2>2. PICK q \in {i \in Int : Exact(i, LuaSize)} : q = Round(r, LuaSize)
    BY <2>1, RoundIsExact
  <2>3. Float(q) \in LuaValues
    BY Zenon DEF LuaValues
  <2> QED BY <1>2, <2>1, <2>2, <2>3
<1>3. CASE f.type = "STRING_BUF"
  <2>1. r \in Seq(Chars)
    <3>1. f.size \in Nat /\ r \in [1 .. f.size -> Chars]
      BY <1>3 DEF Fields, IsRaw, Chars
    <3> QED BY <3>1
  <2>2. r \o beyond \in Seq(Chars)
    BY <2>1
  <2>3. PICK s : s = CString(r \o beyond)
    OBVIOUS
  <2>4. s \in Seq(Chars)
    BY <2>2, <2>3, CStringHasNoEnd
  <2>5. Load(f, r, beyond) = String(s)
    BY <1>3, <2>3 DEF Load
  <2>6. ~ IsNumber(String(s))
    BY DEF IsNumber, String
  <2> QED BY <2>4, <2>5, <2>6 DEF LuaValues
<1>4. CASE f.type = "BOOL"
  <2>1. r \in BOOLEAN /\ Load(f, r, beyond) = Boolean(r)
    BY <1>4 DEF Load, IsRaw, RawOf
  <2> QED BY <1>4, <2>1, Zenon DEF LuaValues
<1> QED BY <1>1, <1>2, <1>3, <1>4 DEF Fields, LeafTypes

\* The value of a key whose field is an array of characters.
LEMMA TextOfValue ==
  ASSUME NEW x \in LuaValues, HasText(x), IsNumber(x) => x \in Numbers
  PROVE  ToText(x) \in Seq(Chars)
<1>1. CASE IsNumber(x)
  <2>1. x \in Chars
    BY <1>1 DEF Chars
  <2> QED BY <1>1, <2>1 DEF ToText
<1>2. CASE ~ IsNumber(x)
  <2>1. PICK s \in Seq(Chars) : x = String(s)
    BY <1>2 DEF HasText, LuaValues, Integer, Float, String, Boolean, Table
  <2> QED BY <1>2, <2>1 DEF ToText, String
<1> QED BY <1>1, <1>2

\* Whatever the script assigned, a field is stored a value of its C type.
LEMMA StoreIsRaw ==
  ASSUME NEW f \in Fields, NEW x \in LuaValues, NEW r, IsRaw(f, r),
         f.type = "STRING_BUF" /\ IsNumber(x) => x \in Numbers
  PROVE  IsRaw(f, Store(f, x, r))
<1>1. CASE f.type \in {"INT", "UINT"}
  <2>1. PICK p, n : p = Patterns[f.size] /\ n = ToInteger(x)
    OBVIOUS
  <2>2. p \in Nat \ {0} /\ n \in Int
    BY <1>1, <2>1, Halves, Conversions DEF Fields
  <2>3. n % p \in 0 .. p - 1
    BY <2>2
  <2>4. Store(f, x, r) = n % p
    BY <1>1, <2>1 DEF Store, Wrap
  <2> QED BY <1>1, <2>1, <2>3, <2>4 DEF IsRaw, RawOf
<1>2. CASE f.type = "NUMBER"
  <2>1. PICK q : q = ToNumber(x)
    OBVIOUS
  <2>2. Round(q, f.size) \in Int /\ Exact(Round(q, f.size), f.size)
    BY <2>1, Conversions, RoundIsExact
  <2>3. Store(f, x, r) = Round(q, f.size)
    BY <1>2, <2>1 DEF Store
  <2> QED BY <1>2, <2>2, <2>3 DEF IsRaw
<1>3. CASE f.type = "STRING_BUF"
  <2>1. CASE HasText(x)
    <3>1. PICK s : s = CString(ToText(x))
      OBVIOUS
    <3>2. s \in Seq(Chars)
      BY <1>3, <2>1, <3>1, TextOfValue, CStringHasNoEnd
    <3>3. f.size \in Nat /\ NUL \in Chars
      BY DEF Fields, Chars
    <3>4. Terminated(s, f.size) \in [1 .. f.size -> Chars]
      BY <3>2, <3>3 DEF Terminated
    <3>5. Store(f, x, r) = Terminated(s, f.size)
      BY <1>3, <2>1, <3>1 DEF Store
    <3> QED BY <1>3, <3>4, <3>5 DEF IsRaw, Chars
  <2>2. CASE ~ HasText(x)
    BY <1>3, <2>2 DEF Store
  <2> QED BY <2>1, <2>2
<1>4. CASE f.type = "BOOL"
  <2>1. Store(f, x, r) = (x # Boolean(FALSE))
    BY <1>4 DEF Store
  <2>2. (x # Boolean(FALSE)) \in BOOLEAN
    OBVIOUS
  <2> QED BY <1>4, <2>1, <2>2 DEF IsRaw, RawOf
<1> QED BY <1>1, <1>2, <1>3, <1>4 DEF Fields, LeafTypes

\* A stored text is read as a prefix of it that its array can hold, and as all
\* of it when there is room.
LEMMA TextIsCut ==
  ASSUME NEW f \in Fields, f.type = "STRING_BUF", NEW x \in LuaValues, HasText(x),
         IsNumber(x) => x \in Numbers, NEW r, NEW beyond \in Seq(Chars),
         NEW back, back = (Load(f, Store(f, x, r), beyond)).v
  PROVE  /\ Len(back) < f.size /\ IsPrefix(back, ToText(x))
         /\ Len(CString(ToText(x))) < f.size => back = CString(ToText(x))
<1>1. PICK text : text = ToText(x)
  OBVIOUS
<1>2. text \in Seq(Chars)
  BY <1>1, TextOfValue
<1>3. PICK s : s = CString(text)
  OBVIOUS
<1>4. s \in Seq(Chars) /\ ~ Ends(s) /\ IsPrefix(s, text)
  BY <1>2, <1>3, CStringHasNoEnd
<1>5. PICK size : size = f.size
  OBVIOUS
<1>6. size \in Nat \ {0}
  BY <1>5, ArraySize
<1>7. PICK k : k = IF Len(s) < size THEN Len(s) ELSE size - 1
  OBVIOUS
<1>8. k \in Nat /\ k < size /\ k <= Len(s)
  BY <1>4, <1>6, <1>7
<1>9. back = SubSeq(s, 1, k)
  <2>1. CString(Terminated(s, size) \o beyond) = SubSeq(s, 1, k)
    <3>1. NUL \in Chars
      BY DEF Chars
    <3> QED BY <1>4, <1>6, <1>7, <1>8, <3>1, TerminatedString, ZenonT(40)
  <2>2. Store(f, x, r) = Terminated(s, size)
    BY <1>1, <1>3, <1>5 DEF Store
  <2>3. Load(f, Store(f, x, r), beyond) = String(CString(Terminated(s, size) \o beyond))
    BY <2>2 DEF Load
  <2>4. \A c : (String(c)).v = c
    BY DEF String
  <2> QED BY <2>1, <2>3, <2>4
<1>10. Len(back) = k /\ back = SubSeq(text, 1, k)
  <2>1. SubSeq(s, 1, Len(s)) = s
    BY <1>4
  <2>2. s = SubSeq(text, 1, Len(s)) /\ Len(s) <= Len(text)
    BY <1>4, <2>1 DEF IsPrefix
  <2>3. \A i \in 1 .. Len(s) : s[i] = text[i]
    BY <1>2, <1>4, <2>2
  <2>4. SubSeq(s, 1, k) = SubSeq(text, 1, k)
    BY <1>2, <1>4, <1>8, <2>2, <2>3
  <2> QED BY <1>4, <1>8, <1>9, <2>4
<1>11. IsPrefix(back, text)
  <2>1. Len(s) <= Len(text)
    BY <1>4 DEF IsPrefix
  <2>2. SubSeq(back, 1, k) = back
    BY <1>4, <1>8, <1>9
  <2> QED BY <1>2, <1>4, <1>8, <1>10, <2>1, <2>2 DEF IsPrefix
<1>12. Len(s) < size => back = s
  BY <1>4, <1>7, <1>9
<1> QED BY <1>1, <1>3, <1>5, <1>8, <1>10, <1>11, <1>12

\* A field that is stored what was read of it keeps its C value just when Lua
\* can hold that value.
LEMMA FieldSurvives ==
  ASSUME NEW f \in Fields, NEW r, IsRaw(f, r), NEW old
  PROVE  SameRaw(f, r, Store(f, Load(f, r, <<>>), old)) <=> LuaHolds(f, r)
<1>1. CASE f.type \in {"INT", "UINT"}
  <2>1. Store(f, Load(f, r, <<>>), old) = r <=> Signed(r, f.size) \in LuaInteger
    BY <1>1, IntegerIsStoredBack, Zenon
  <2>2. LuaHolds(f, r) <=> Signed(r, f.size) \in LuaInteger
    BY <1>1 DEF LuaHolds
  <2> QED BY <1>1, <2>1, <2>2 DEF SameRaw
<1>2. CASE f.type \in {"NUMBER", "BOOL"}
  BY <1>2, ReadValueIsStoredBack DEF SameRaw
<1>3. CASE f.type = "STRING_BUF"
  <2>1. f.size \in Nat \ {0} /\ r \in [1 .. f.size -> Chars]
    BY <1>3, ArraySize DEF IsRaw, Chars
  <2>2. r \in Seq(Chars) /\ Len(r) = f.size /\ r \o <<>> = r
    BY <2>1
  <2>3. PICK s : s = CString(r)
    OBVIOUS
  <2>4. s \in Seq(Chars) /\ ~ Ends(s) /\ (Ends(r) => Len(s) < f.size)
    BY <2>2, <2>3, CStringHasNoEnd
  <2>5. ~ Ends(r) => Len(s) = f.size
    BY <2>2, <2>3 DEF CString
  <2>6. Load(f, r, <<>>) = String(s)
    BY <1>3, <2>2, <2>3 DEF Load
  <2>7. HasText(String(s)) /\ ToText(String(s)) = s /\ CString(s) = s
    BY <2>4 DEF HasText, ToText, IsNumber, String, CString
  <2>8. PICK t : t = Store(f, String(s), old)
    OBVIOUS
  <2>9. t = Terminated(s, f.size)
    BY <1>3, <2>7, <2>8 DEF Store
  <2>10. t \o <<>> = t
    <3>1. t \in [1 .. f.size -> Chars]
      BY <2>1, <2>4, <2>9 DEF Terminated, Chars
    <3> QED BY <2>1, <3>1
  <2>11. PICK k \in Nat : k = IF Len(s) < f.size THEN Len(s) ELSE f.size - 1
    BY <2>1, <2>4
  <2>12. CString(t \o <<>>) = SubSeq(s, 1, k)
    <3>1. NUL \in Chars /\ <<>> \in Seq(Chars)
      BY DEF Chars
    <3> QED BY <2>1, <2>4, <2>9, <2>11, <3>1, TerminatedString, ZenonT(40)
  <2>13. Ends(r) => SubSeq(s, 1, k) = s
    BY <2>4, <2>11
  <2>14. ~ Ends(r) => SubSeq(s, 1, k) # s
    <3>1. ~ Ends(r) => k = Len(s) - 1 /\ Len(s) \in Nat \ {0}
      BY <2>1, <2>5, <2>11
    <3>2. ~ Ends(r) => Len(SubSeq(s, 1, k)) = k
      BY <2>4, <3>1
    <3> QED BY <3>1, <3>2
  <2> QED BY <1>3, <2>3, <2>6, <2>8, <2>10, <2>12, <2>13, <2>14 DEF SameRaw, LuaHolds
<1> QED BY <1>1, <1>2, <1>3 DEF Fields, LeafTypes

-----------------------------------------------------------------------------
(* Paths.                                                                  *)

LEMMA PrefixOrder ==
  ASSUME NEW S, NEW s \in Seq(S), NEW t \in Seq(S), IsPrefix(s, t)
  PROVE  /\ IsPrefix(t, s) => s = t
         /\ \A u \in Seq(S) : IsPrefix(t, u) => IsPrefix(s, u)
<1>1. SubSeq(s, 1, Len(s)) = s /\ SubSeq(t, 1, Len(t)) = t
  OBVIOUS
<1>2. Len(s) <= Len(t) /\ s = SubSeq(t, 1, Len(s))
  BY <1>1 DEF IsPrefix
<1>3. \A i \in 1 .. Len(s) : s[i] = t[i]
  BY <1>2
<1>4. IsPrefix(t, s) => s = t
  <2>1. IsPrefix(t, s) => Len(s) = Len(t)
    BY <1>2 DEF IsPrefix
  <2>2. Len(s) = Len(t) => s = t
    BY <1>1, <1>2
  <2> QED BY <2>1, <2>2
<1>5. ASSUME NEW u \in Seq(S), IsPrefix(t, u)
      PROVE  IsPrefix(s, u)
  <2>1. Len(t) <= Len(u) /\ t = SubSeq(u, 1, Len(t))
    BY <1>1, <1>5 DEF IsPrefix
  <2>2. \A i \in 1 .. Len(t) : t[i] = u[i]
    BY <2>1
  <2>3. SubSeq(u, 1, Len(s)) = SubSeq(t, 1, Len(s))
    BY <1>2, <2>1, <2>2
  <2> QED BY <1>1, <1>2, <2>1, <2>3 DEF IsPrefix
<1> QED BY <1>4, <1>5

\* A member is inside what is above it, and above what is inside it.
LEMMA AboveIsTransitive ==
  ASSUME NEW d \in Descrs, NEW p \in DOMAIN d, NEW r \in DOMAIN d, NEW q \in Above(d, r)
  PROVE  /\ q \in Objects(d)
         /\ r \in Above(d, p) => q \in Above(d, p) /\ q # p
         /\ ~ IsPrefix(p, r) => ~ IsPrefix(p, q) /\ q # p
<1>1. q \in Objects(d)
  BY DescrsAssumption
<1>2. p \in Seq(STRING) /\ q \in Seq(STRING) /\ r \in Seq(STRING)
  BY <1>1, DescrsAssumption DEF Objects
<1>3. IsPrefix(q, r) /\ q # r
  BY DEF Above, IsStrictPrefix
<1>4. ASSUME r \in Above(d, p)
      PROVE  q \in Above(d, p) /\ q # p
  <2>1. IsPrefix(r, p) /\ r # p
    BY <1>4 DEF Above, IsStrictPrefix
  <2>2. IsPrefix(q, p)
    BY <1>2, <1>3, <2>1, PrefixOrder
  <2>3. q # p
    BY <1>2, <1>3, <2>1, PrefixOrder
  <2> QED BY <2>2, <2>3, <1>1 DEF Above, IsStrictPrefix, Objects
<1>5. ASSUME ~ IsPrefix(p, r)
      PROVE  ~ IsPrefix(p, q) /\ q # p
  BY <1>2, <1>3, <1>5, PrefixOrder
<1> QED BY <1>1, <1>4, <1>5

-----------------------------------------------------------------------------
(* Messages and tables.                                                    *)

\* A message has a value of its C type for every leaf.
LEMMA MessagesAreRaw ==
  ASSUME NEW d \in Descrs, NEW m \in Messages(d)
  PROVE  DOMAIN m = Leaves(d) /\ \A p \in Leaves(d) : IsRaw(d[p], m[p])
<1> DEFINE N == {p \in Leaves(d) : d[p].type \in {"INT", "UINT", "NUMBER"}}
           T == {p \in Leaves(d) : d[p].type \in {"STRING_BUF"}}
           B == {p \in Leaves(d) : d[p].type \in {"BOOL"}}
<1>1. PICK n \in Part(d, {"INT", "UINT", "NUMBER"}), s \in Part(d, {"STRING_BUF"}),
           b \in Part(d, {"BOOL"}) :
               m = [p \in Leaves(d) |-> CASE d[p].type = "STRING_BUF" -> s[p]
                                          [] d[p].type = "BOOL" -> b[p]
                                          [] OTHER -> n[p]]
  BY DEF Messages
<1>2. DOMAIN n = N /\ \A p \in N : n[p] \in RawOf(d[p])
  BY DEF Part
<1>3. DOMAIN s = T /\ \A p \in T : s[p] \in RawOf(d[p])
  BY DEF Part
<1>4. DOMAIN b = B /\ \A p \in B : b[p] \in RawOf(d[p])
  BY DEF Part
<1>5. \A p \in Leaves(d) : d[p].type \in LeafTypes
  BY DescrsAssumption DEF Fields
<1>6. DOMAIN m = Leaves(d)
  BY <1>1
<1>7. ASSUME NEW p \in Leaves(d) PROVE m[p] \in RawOf(d[p])
  <2>1. CASE d[p].type = "STRING_BUF"
    <3>1. m[p] = s[p] /\ p \in T
      BY <1>1, <2>1
    <3> QED BY <1>3, <3>1
  <2>2. CASE d[p].type = "BOOL"
    <3>1. m[p] = b[p] /\ p \in B
      BY <1>1, <2>2
    <3> QED BY <1>4, <3>1
  <2>3. CASE d[p].type \in {"INT", "UINT", "NUMBER"}
    <3>1. m[p] = n[p] /\ p \in N
      BY <1>1, <2>3
    <3> QED BY <1>2, <3>1
  <2> QED BY <1>5, <2>1, <2>2, <2>3 DEF LeafTypes
<1>8. ASSUME NEW f, NEW r \in RawOf(f) PROVE IsRaw(f, r)
  <2>1. CASE f.type = "STRING_BUF"
    <3>1. r \in [1 .. f.size -> Letters \cup {NUL}]
      BY <2>1 DEF RawOf
    <3>2. r \in [1 .. f.size -> Letters \cup {NUL} \cup Numbers]
      BY <3>1
    <3> QED BY <2>1, <3>2 DEF IsRaw
  <2>2. CASE f.type = "NUMBER"
    <3>1. r \in Doubles /\ Exact(r, f.size)
      BY <2>2 DEF RawOf
    <3> QED BY <2>2, <3>1, DoublesAssumption DEF IsRaw
  <2>3. CASE f.type \notin {"STRING_BUF", "NUMBER"}
    BY <2>3 DEF IsRaw
  <2> QED BY <2>1, <2>2, <2>3
<1> QED BY <1>6, <1>7, <1>8

\* A value of the script's table at a leaf.
Holds(f, x) == x \in LuaValues /\ (f.type = "STRING_BUF" /\ IsNumber(x) => x \in Numbers)

LEMMA ValuesHold ==
  ASSUME NEW f, NEW x \in Values
  PROVE  Holds(f, x)
<1>1. CASE x \in Numbers
  BY <1>1, NumbersAreLua DEF Holds
<1>2. CASE x \in Texts
  <2>1. x = String(x.v) /\ x.v \in Seq(Chars)
    BY <1>2, TextsAssumption DEF Chars
  <2>2. x \in LuaValues
    BY <2>1, Zenon DEF LuaValues
  <2>3. ~ IsNumber(x)
    BY <2>1 DEF IsNumber, String
  <2> QED BY <2>2, <2>3 DEF Holds
<1>3. CASE x \in {Boolean(b) : b \in BOOLEAN} \cup {Table}
  <2>1. x \in LuaValues
    BY <1>3, Zenon DEF LuaValues
  <2>2. ~ IsNumber(x)
    BY <1>3 DEF IsNumber, Boolean, Table
  <2> QED BY <2>1, <2>2 DEF Holds
<1> QED BY <1>1, <1>2, <1>3 DEF Values

-----------------------------------------------------------------------------
(* The inductive invariant: the channel's message and the script's table   *)
(* hold what their fields can be stored and have been read.                *)

TableOK == \A p \in Leaves(descr) \cap DOMAIN table : Holds(descr[p], table[p])

IInv == TypeOK /\ TableOK

LEMMA BeyondIsText == Beyond \subseteq Seq(Chars)
<1>1. \A c \in Letters : <<c>> \in Seq(Chars)
  BY DEF Chars
<1>2. {<<c>> : c \in Letters} \subseteq Seq(Chars)
  BY <1>1, Zenon
<1>3. <<>> \in Seq(Chars)
  OBVIOUS
<1> QED BY <1>2, <1>3 DEF Beyond

LEMMA WellFormedIsRaw ==
  ASSUME NEW d \in Descrs, NEW m \in WellFormedOf[d]
  PROVE  DOMAIN m = Leaves(d) /\ \A p \in Leaves(d) : IsRaw(d[p], m[p])
<1>1. m \in Messages(d)
  BY DEF WellFormedOf
<1> QED BY <1>1, MessagesAreRaw

\* channel:pub stores every key the table has and leaves the others as the
\* buffer had them.
LEMMA PublishStores ==
  ASSUME descr \in Descrs, Publish
  PROVE  \E junk : /\ DOMAIN memory' = Leaves(descr)
                   /\ \A p \in Leaves(descr) :
                        /\ IsRaw(descr[p], junk[p])
                        /\ memory'[p] = IF p \in DOMAIN table
                                        THEN Store(descr[p], table[p], junk[p]) ELSE junk[p]
<1>1. PICK junk \in MessagesOf[descr] : memory' = FromTable(descr, table, junk)
  BY DEF Publish
<1>2. junk \in Messages(descr)
  BY DEF MessagesOf
<1>3. \A p \in Leaves(descr) : IsRaw(descr[p], junk[p])
  BY <1>2, MessagesAreRaw
<1>4. DOMAIN memory' = Leaves(descr)
  BY <1>1 DEF FromTable
<1>5. \A p \in Leaves(descr) :
         memory'[p] = IF p \in DOMAIN table
                      THEN Store(descr[p], table[p], junk[p]) ELSE junk[p]
  BY <1>1, Zenon DEF FromTable
<1> QED BY <1>3, <1>4, <1>5

LEMMA InitInv == Init => IInv
<1> SUFFICES ASSUME Init PROVE IInv
  OBVIOUS
<1>1. descr \in Descrs /\ DOMAIN table = {}
  BY DEF Init
<1>2. DOMAIN memory = Leaves(descr) /\ \A p \in Leaves(descr) : IsRaw(descr[p], memory[p])
  BY <1>1, WellFormedIsRaw DEF Init
<1> QED BY <1>1, <1>2 DEF IInv, TypeOK, TableOK

LEMMA ReadInv ==
  ASSUME IInv, Read
  PROVE  IInv'
<1>1. descr \in Descrs /\ descr' = descr /\ memory' = memory
  BY DEF IInv, TypeOK, Read
<1>2. PICK beyond \in Beyond : table' = ToTable(descr, memory, beyond)
  BY DEF Read
<1>3. /\ DOMAIN table' = DOMAIN descr
      /\ \A p \in Objects(descr) : table'[p] = Table
      /\ \A p \in Leaves(descr) : table'[p] = Load(descr[p], memory[p], beyond)
  BY <1>2 DEF ToTable, Objects, Leaves
<1>4. \A p \in DOMAIN descr : \A q \in Above(descr, p) : q \in DOMAIN descr /\ table'[q] = Table
  BY <1>1, <1>3, DescrsAssumption DEF Objects
<1>5. \A p \in Leaves(descr) : descr[p] \in Fields
  BY <1>1, DescrsAssumption
<1>6. \A p \in Leaves(descr) : Holds(descr[p], table'[p])
  <2> SUFFICES ASSUME NEW p \in Leaves(descr) PROVE Holds(descr[p], table'[p])
    OBVIOUS
  <2>1. IsRaw(descr[p], memory[p]) /\ beyond \in Seq(Chars)
    BY BeyondIsText DEF IInv, TypeOK
  <2> QED BY <1>3, <1>5, <2>1, LoadIsLua DEF Holds
<1>7. TypeOK'
  BY <1>1, <1>3, <1>4 DEF IInv, TypeOK
<1>8. TableOK'
  BY <1>1, <1>6 DEF TableOK
<1> QED BY <1>7, <1>8 DEF IInv

LEMMA EditInv ==
  ASSUME IInv, Edit
  PROVE  IInv'
<1>1. descr \in Descrs /\ descr' = descr /\ memory' = memory
  BY DEF IInv, TypeOK, Edit
<1>2. PICK p \in DOMAIN descr : table' \in Edits(descr, table, p)
  BY DEF Edit
<1> DEFINE kept == Above(descr, p) \cup {q \in DOMAIN table : ~ IsPrefix(p, q)}
           rest == [q \in kept |-> IF q \in Above(descr, p) THEN Table ELSE table[q]]
<1>3. /\ DOMAIN table \subseteq DOMAIN descr
      /\ \A r \in DOMAIN table : \A q \in Above(descr, r) : q \in DOMAIN table /\ table[q] = Table
      /\ TableOK
  BY DEF IInv, TypeOK
<1>4. kept \subseteq DOMAIN descr /\ DOMAIN rest = kept
  BY <1>3 DEF Above
<1>5. \A q \in Above(descr, p) : q \in kept /\ q # p /\ rest[q] = Table
  BY DEF Above, IsStrictPrefix
<1>6. ASSUME NEW r \in kept, NEW q \in Above(descr, r)
      PROVE  q \in kept /\ q # p /\ rest[q] = Table
  <2>1. r \in DOMAIN descr
    BY <1>4
  <2>2. CASE r \in Above(descr, p)
    BY <1>1, <1>5, <2>1, <2>2, AboveIsTransitive
  <2>3. CASE r \in DOMAIN table /\ ~ IsPrefix(p, r)
    <3>1. ~ IsPrefix(p, q) /\ q # p
      BY <1>1, <2>1, <2>3, AboveIsTransitive
    <3>2. q \in DOMAIN table /\ table[q] = Table
      BY <1>3, <2>3
    <3> QED BY <3>1, <3>2
  <2> QED BY <2>2, <2>3
<1>7. ASSUME NEW r \in kept, r \in Leaves(descr)
      PROVE  Holds(descr[r], rest[r])
  <2>1. r \notin Above(descr, p)
    BY <1>1, <1>7, DescrsAssumption DEF Leaves
  <2>2. r \in DOMAIN table /\ rest[r] = table[r]
    BY <2>1
  <2> QED BY <1>3, <1>7, <2>2 DEF TableOK
<1>8. \/ table' = rest
      \/ \E x \in Values : table' = [q \in kept \cup {p} |-> IF q = p THEN x ELSE rest[q]]
  BY <1>2 DEF Edits
<1> HIDE DEF kept, rest
<1>9. CASE table' = rest
  <2>1. TypeOK'
    BY <1>1, <1>4, <1>6, <1>9 DEF IInv, TypeOK
  <2>2. TableOK'
    BY <1>1, <1>4, <1>7, <1>9 DEF TableOK
  <2> QED BY <2>1, <2>2 DEF IInv
<1>10. ASSUME NEW x \in Values, table' = [q \in kept \cup {p} |-> IF q = p THEN x ELSE rest[q]]
       PROVE  IInv'
  <2>1. /\ DOMAIN table' = kept \cup {p}
        /\ table'[p] = x
        /\ \A q \in kept : q # p => table'[q] = rest[q]
    BY <1>10
  <2>2. \A r \in DOMAIN table' : \A q \in Above(descr, r) : q \in DOMAIN table' /\ table'[q] = Table
    BY <1>5, <1>6, <2>1
  <2>3. TypeOK'
    BY <1>1, <1>2, <1>4, <2>1, <2>2 DEF IInv, TypeOK
  <2>4. \A r \in DOMAIN table' : r \in Leaves(descr) => Holds(descr[r], table'[r])
    BY <1>7, <2>1, ValuesHold
  <2>5. TableOK'
    BY <1>1, <2>4 DEF TableOK
  <2> QED BY <2>3, <2>5 DEF IInv
<1> QED BY <1>8, <1>9, <1>10

LEMMA PublishInv ==
  ASSUME IInv, Publish
  PROVE  IInv'
<1>1. descr \in Descrs /\ descr' = descr /\ table' = table
  BY DEF IInv, TypeOK, Publish
<1>2. PICK junk : /\ DOMAIN memory' = Leaves(descr)
                  /\ \A p \in Leaves(descr) :
                       /\ IsRaw(descr[p], junk[p])
                       /\ memory'[p] = IF p \in DOMAIN table
                                       THEN Store(descr[p], table[p], junk[p]) ELSE junk[p]
  BY <1>1, PublishStores
<1>3. ASSUME NEW p \in Leaves(descr) PROVE IsRaw(descr[p], memory'[p])
  <2>1. CASE p \in DOMAIN table
    <3>1. Holds(descr[p], table[p]) /\ descr[p] \in Fields
      BY <1>1, <2>1, DescrsAssumption DEF IInv, TableOK
    <3> QED BY <1>2, <2>1, <3>1, StoreIsRaw DEF Holds
  <2>2. CASE p \notin DOMAIN table
    BY <1>2, <2>2
  <2> QED BY <2>1, <2>2
<1> QED BY <1>1, <1>2, <1>3 DEF IInv, TypeOK, TableOK

LEMMA NextInv == IInv /\ [Next]_vars => IInv'
<1> SUFFICES ASSUME IInv, [Next]_vars PROVE IInv'
  OBVIOUS
<1>1. CASE Read
  BY <1>1, ReadInv
<1>2. CASE Edit
  BY <1>2, EditInv
<1>3. CASE Publish
  BY <1>3, PublishInv
<1>4. CASE CPublish
  <2>1. descr \in Descrs /\ descr' = descr /\ table' = table /\ memory' \in WellFormedOf[descr]
    BY <1>4 DEF IInv, TypeOK, CPublish
  <2>2. DOMAIN memory' = Leaves(descr) /\ \A p \in Leaves(descr) : IsRaw(descr[p], memory'[p])
    BY <2>1, WellFormedIsRaw
  <2> QED BY <2>1, <2>2 DEF IInv, TypeOK, TableOK
<1>5. CASE UNCHANGED vars
  BY <1>5 DEF vars, IInv, TypeOK, TableOK
<1> QED BY <1>1, <1>2, <1>3, <1>4, <1>5 DEF Next

LEMMA InvHolds == Spec => []IInv
<1> QED BY InitInv, NextInv, PTL DEF Spec

-----------------------------------------------------------------------------
\* Whatever a script assigns to a key and publishes, every field of the
\* channel's message holds a value of its C type, for any descriptor.
THEOREM MessagesKeepTheirTypes == Spec => []TypeOK
<1>1. IInv => TypeOK
  BY DEF IInv
<1> QED BY <1>1, InvHolds, PTL

LEMMA PublishedComesBack ==
  ASSUME IInv, Publish, NEW p \in Given, NEW beyond \in Beyond, Fits(descr[p], table[p])
  PROVE  (ToTable(descr, memory', beyond))[p] = table[p]
<1>1. descr \in Descrs /\ p \in Leaves(descr) /\ p \in DOMAIN table
  BY DEF IInv, TypeOK, Given
<1>2. PICK junk : memory'[p] = Store(descr[p], table[p], junk[p])
  BY <1>1, PublishStores
<1>3. descr[p] \in Fields /\ table[p] \in LuaValues
  BY <1>1, DescrsAssumption DEF IInv, TableOK, Holds
<1>4. Load(descr[p], memory'[p], beyond) = table[p]
  BY <1>2, <1>3, BeyondIsText, FieldComesBack
<1>5. (ToTable(descr, memory', beyond))[p] = Load(descr[p], memory'[p], beyond)
  BY <1>1 DEF ToTable, Leaves
<1> QED BY <1>4, <1>5

\* What channel:pub stores of a table, channel:read gives back, for every
\* Lua value its field can represent, with Lua numbers of 4 bytes as with those
\* of 8: of any descriptor, at any depth, whatever the buffer held and whatever
\* follows the message in memory.
THEOREM MessagesComeBack == Spec => WhatFitsComesBack
<1>1. IInv => (Publish => \A p \in Given, beyond \in Beyond :
                 Fits(descr[p], table[p]) => (ToTable(descr, memory', beyond))[p] = table[p])
  BY PublishedComesBack
<1> QED BY <1>1, InvHolds, PTL DEF WhatFitsComesBack

LEMMA PublishedSurvives ==
  ASSUME IInv, Publish, NEW p \in Given, table[p] = Load(descr[p], memory[p], <<>>)
  PROVE  SameRaw(descr[p], memory[p], memory'[p]) <=> LuaHolds(descr[p], memory[p])
<1>1. descr \in Descrs /\ p \in Leaves(descr) /\ p \in DOMAIN table
  BY DEF IInv, TypeOK, Given
<1>2. PICK junk : memory'[p] = Store(descr[p], table[p], junk[p])
  BY <1>1, PublishStores
<1>3. descr[p] \in Fields /\ IsRaw(descr[p], memory[p])
  BY <1>1, DescrsAssumption DEF IInv, TypeOK
<1> QED BY <1>2, <1>3, FieldSurvives

\* Reading a message, changing some keys and publishing it leaves the C value
\* of another field as it was if and only if Lua can hold that value, whichever
\* of the two widths its numbers have: in any descriptor and at any depth.
THEOREM UnchangedFieldsSurvive == Spec => WhatWasReadSurvives
<1>1. IInv => (Publish => \A p \in Given :
                 table[p] = Load(descr[p], memory[p], <<>>) =>
                   (SameRaw(descr[p], memory[p], memory'[p]) <=> LuaHolds(descr[p], memory[p])))
  BY PublishedSurvives
<1> QED BY <1>1, InvHolds, PTL DEF WhatWasReadSurvives

LEMMA PublishedIsCut ==
  ASSUME IInv, Publish, NEW p \in Given, NEW beyond \in Beyond,
         descr[p].type = "STRING_BUF", HasText(table[p]),
         NEW back, back = ((ToTable(descr, memory', beyond))[p]).v
  PROVE  Len(back) < descr[p].size /\ IsPrefix(back, ToText(table[p]))
<1>1. descr \in Descrs /\ p \in Leaves(descr) /\ p \in DOMAIN table
  BY DEF IInv, TypeOK, Given
<1>2. PICK junk : memory'[p] = Store(descr[p], table[p], junk[p])
  BY <1>1, PublishStores
<1>3. descr[p] \in Fields /\ table[p] \in LuaValues /\ (IsNumber(table[p]) => table[p] \in Numbers)
  BY <1>1, DescrsAssumption DEF IInv, TableOK, Holds
<1>4. back = (Load(descr[p], memory'[p], beyond)).v
  BY <1>1 DEF ToTable, Leaves
<1> QED BY <1>2, <1>3, <1>4, BeyondIsText, TextIsCut

\* A text that does not fit its array is read back as a prefix of it that does:
\* for every size, every text and every descriptor, nothing beyond the array is
\* ever read.
THEOREM TextsStayInTheirArrays == Spec => LongTextsAreCut
<1>1. IInv => (Publish => \A p \in Given, beyond \in Beyond :
                 descr[p].type = "STRING_BUF" /\ HasText(table[p]) =>
                   LET back == ((ToTable(descr, memory', beyond))[p]).v
                   IN  Len(back) < descr[p].size /\ IsPrefix(back, ToText(table[p])))
  BY PublishedIsCut
<1> QED BY <1>1, InvHolds, PTL DEF LongTextsAreCut
=============================================================================
