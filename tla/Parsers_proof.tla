--------------------------- MODULE Parsers_proof ---------------------------
(***************************************************************************)
(* What the parsers read, for texts of any length: the four properties of  *)
(* Parsers, from an invariant that says at every character what has been   *)
(* read so far. The numbers a text spells are a recursive function, of     *)
(* which the proofs use its equations (ValuesFacts); the reduction modulo  *)
(* 2^64 at every digit is one at the end by RestStep.                      *)
(***************************************************************************)
EXTENDS Parsers, SequenceTheorems, WellFoundedInduction, TLAPS

---------------------------------------------------------------------------
(* The invariant.                                                          *)

Parsing == {"parseHex", "hex", "swap"}

Types ==
  /\ parser \in {"ecid", "nonce", "generator", "drawn"}
  /\ argument \in Seq(Chars)
  /\ text \in Seq(Chars)
  /\ pos \in 1 .. Len(text) + 1
  /\ ret \in Nat
  /\ next \in BOOLEAN
  /\ tmp \in 0 .. 255
  /\ bytes \in Seq(0 .. 255)

(* Where each parser may be, and what it reads there.                      *)
Places ==
  /\ parser = "ecid" => at \in {"decimal", "hexadecimal", "done"} /\ text = argument
  /\ parser = "nonce" => at \in {"parseHex", "hex", "failed", "done"} /\ text = argument
  /\ parser = "generator" =>
       \/ at = "generator" /\ text = argument
       \/ at = "refused"
       \/ /\ at \in Parsing \cup {"done"}
          /\ Len(argument) >= 2 => /\ Len(argument) >= GenLen + 2
                                   /\ text = SubSeq(argument, 3, GenLen + 2)
  /\ parser = "drawn" => at \in {"makegen"} \cup Parsing \cup {"done"}
  /\ parser \in {"generator", "drawn"} /\ at \in Parsing =>
       Len(text) = GenLen /\ text \in Seq(HexDigits)
  /\ at \in {"generator", "makegen", "parseHex"} => pos = 1 /\ bytes = <<>>
  /\ at = "swap" \/ (parser = "nonce" /\ at = "done") => pos = Len(text) + 1

(* The digits of an ECID, and how many characters stand before them.       *)
Prefix == IF IsHexText(argument) THEN 2 ELSE 0
EcidDigits == IF IsHexText(argument) THEN SubSeq(argument, 3, Len(argument)) ELSE argument

(* ret is what the digits read so far spell. A text once read as decimal   *)
(* is read again from its start.                                           *)
EcidRead ==
  parser = "ecid" =>
    /\ at = "decimal" =>
         /\ ~IsHexText(argument)
         /\ \A k \in 1 .. pos - 1 : argument[k] \in Digits
         /\ ret = ValuesOf(argument, 10)[pos - 1] % EcidModulus
    /\ at = "hexadecimal" =>
         /\ pos - 1 >= Prefix
         /\ IsHexText(argument) \/ argument \notin Seq(Digits)
         /\ \A k \in 1 .. pos - 1 - Prefix : EcidDigits[k] \in HexDigits
         /\ ret = ValuesOf(EcidDigits, 16)[pos - 1 - Prefix] % EcidModulus

(* With the digits read so far the bytes spell the same number; of a byte  *)
(* half read tmp has the first digit.                                      *)
HexRead ==
  at \in {"hex", "swap"} \/ (parser = "nonce" /\ at = "done") =>
    /\ pos - 1 + (Len(text) % 2) = 2 * Len(bytes) + (IF next THEN 0 ELSE 1)
    /\ tmp \in IF next THEN {0} ELSE HexDigits
    /\ \A k \in 1 .. pos - 1 : text[k] \in HexDigits
    /\ ValuesOf(text, 16)[pos - 1] =
         IF next THEN NumberOf(bytes, 256) ELSE NumberOf(bytes, 256) * 16 + tmp

(* The bytes drawn come back, last one first.                              *)
DrawnRead ==
  parser = "drawn" /\ at # "makegen" =>
    /\ zz \in [1 .. GenLen \div 2 -> 0 .. 255]
    /\ at \in Parsing =>
         \A k \in 1 .. GenLen \div 2 : /\ text[2 * k - 1] = SwapBytes(zz)[k] \div 16
                                       /\ text[2 * k] = SwapBytes(zz)[k] % 16
    /\ at \in {"hex", "swap"} =>
         /\ \A k \in 1 .. Len(bytes) : bytes[k] = SwapBytes(zz)[k]
         /\ ~next => tmp = SwapBytes(zz)[Len(bytes) + 1] \div 16

Inv ==
  /\ Types
  /\ Places
  /\ EcidRead
  /\ HexRead
  /\ DrawnRead
  /\ EcidMeant
  /\ HexMeansValue
  /\ GeneratorRead
  /\ GeneratorReproduces

---------------------------------------------------------------------------
(* The number a text spells.                                               *)

LEMMA NatMin ==
  ASSUME NEW S \in SUBSET Nat, S # {}
  PROVE  \E x \in S : \A y \in S : x <= y
<1> DEFINE R == {ss \in Nat \X Nat : ss[1] < ss[2]}
<1>1. IsWellFoundedOn(R, Nat)
  BY NatLessThanWellFounded DEF OpToRel
<1>2. \A x, y \in Nat : y < x => <<y, x>> \in R
  OBVIOUS
<1> HIDE DEF R
<1>3. PICK x \in S : \A y \in S : ~(<<y, x>> \in R)
  BY <1>1, WFMin, Zenon
<1>4. ASSUME NEW y \in S PROVE x <= y
  <2>1. ~(y < x)
    BY <1>2, <1>3, Zenon
  <2> QED
    BY <2>1
<1> QED
  BY <1>4

Shift(n, base, d) == n * base + d

LEMMA ShiftNat == ASSUME NEW n \in Nat, NEW base \in Nat, NEW d \in Nat
                  PROVE Shift(n, base, d) \in Nat
BY DEF Shift

(* f holds the numbers the first 0, 1, ... n digits spell.                 *)
Steps(f, s, base, n) ==
  /\ f[0] = 0
  /\ \A k \in 1 .. n : f[k] = Shift(f[k - 1], base, s[k])

Spells(f, s, base, n) == f \in [0 .. n -> Nat] /\ Steps(f, s, base, n)

LEMMA SpellsExists ==
  ASSUME NEW s \in Seq(Nat), NEW base \in Nat
  PROVE  \A n \in 0 .. Len(s) : \E f : Spells(f, s, base, n)
<1> DEFINE Bad == {n \in 0 .. Len(s) : ~\E f : Spells(f, s, base, n)}
<1> SUFFICES ASSUME Bad # {} PROVE FALSE
  OBVIOUS
<1>0. Len(s) \in Nat
  OBVIOUS
<1>1. Bad \in SUBSET Nat
  BY <1>0
<1>2. PICK n \in Bad : \A m \in Bad : n <= m
  <2> HIDE DEF Bad
  <2> QED
    BY <1>1, NatMin
<1>3. n \in 0 .. Len(s) /\ ~\E f : Spells(f, s, base, n)
  BY <1>2
<1>4. CASE n = 0
  <2>1. Spells([k \in 0 .. 0 |-> 0], s, base, 0)
    BY DEF Spells, Steps
  <2> QED
    BY <1>3, <1>4, <2>1
<1>5. CASE n # 0
  <2>1. n - 1 \in 0 .. Len(s) /\ ~(n <= n - 1) /\ n \in Nat
    BY <1>0, <1>3, <1>5
  <2>2. n - 1 \notin Bad
    <3> HIDE DEF Bad
    <3> QED
      BY <1>2, <2>1
  <2>3. PICK f : Spells(f, s, base, n - 1)
    BY <2>1, <2>2
  <2> DEFINE g == [k \in 0 .. n |-> IF k = n THEN Shift(f[n - 1], base, s[n]) ELSE f[k]]
  <2>4. /\ \A k \in 0 .. n - 1 : g[k] = f[k] /\ f[k] \in Nat
        /\ g[n] = Shift(f[n - 1], base, s[n])
        /\ s[n] \in Nat /\ f[n - 1] \in Nat /\ f[0] = 0
        /\ \A k \in 1 .. n - 1 : f[k] = Shift(f[k - 1], base, s[k])
        /\ DOMAIN g = 0 .. n
    BY <1>0, <1>3, <2>1, <2>3 DEF Spells, Steps
  <2>5. g[n] \in Nat
    <3>1. f[n - 1] \in Nat /\ s[n] \in Nat /\ g[n] = Shift(f[n - 1], base, s[n])
      BY <2>4
    <3> HIDE DEF g
    <3> QED
      BY <3>1, ShiftNat, Zenon
  <2>6. g \in [0 .. n -> Nat]
    BY <2>1, <2>3, <2>4, <2>5 DEF Spells, Steps
  <2> HIDE DEF g
  <2>7. \A k \in 1 .. n : g[k] = Shift(g[k - 1], base, s[k])
    <3> TAKE k \in 1 .. n
    <3>1. k - 1 \in 0 .. n - 1
      BY <2>1
    <3>2. CASE k = n
      BY <2>4, <3>1, <3>2
    <3>3. CASE k # n
      <4>1. k \in 1 .. n - 1 /\ k \in 0 .. n - 1
        BY <2>1, <3>3
      <4> QED
        BY <2>4, <3>1, <4>1
    <3> QED
      BY <3>2, <3>3
  <2>8. g[0] = 0
    BY <1>5, <2>1, <2>4
  <2>9. Spells(g, s, base, n)
    BY <2>6, <2>7, <2>8 DEF Spells, Steps
  <2> QED
    BY <1>3, <2>9
<1> QED
  BY <1>4, <1>5

(* No two functions can do so.                                             *)
LEMMA SpellsOne ==
  ASSUME NEW s, NEW base, NEW n \in Nat, NEW f, NEW g,
         Steps(f, s, base, n), Steps(g, s, base, n)
  PROVE  \A k \in 0 .. n : f[k] = g[k]
<1> DEFINE Bad == {k \in 0 .. n : f[k] # g[k]}
<1> SUFFICES ASSUME Bad # {} PROVE FALSE
  OBVIOUS
<1>1. Bad \in SUBSET Nat
  OBVIOUS
<1>2. PICK m \in Bad : \A k \in Bad : m <= k
  <2> HIDE DEF Bad
  <2> QED
    BY <1>1, NatMin
<1>3. m \in 0 .. n /\ f[m] # g[m]
  BY <1>2
<1>4. m # 0
  BY <1>3 DEF Steps
<1>5. m - 1 \in 0 .. n /\ ~(m <= m - 1) /\ m \in 1 .. n
  BY <1>3, <1>4
<1>6. m - 1 \notin Bad
  <2> HIDE DEF Bad
  <2> QED
    BY <1>2, <1>5
<1>7. f[m - 1] = g[m - 1]
  BY <1>5, <1>6
<1> QED
  BY <1>3, <1>5, <1>7 DEF Steps

LEMMA ValuesSpell ==
  ASSUME NEW s \in Seq(Nat), NEW base \in Nat
  PROVE  Spells(ValuesOf(s, base), s, base, Len(s))
<1>0. Len(s) \in Nat
  OBVIOUS
<1> DEFINE Is(f) == f = [k \in 0 .. Len(s) |-> IF k = 0 THEN 0 ELSE f[k - 1] * base + s[k]]
<1>1. PICK f : Spells(f, s, base, Len(s))
  BY <1>0, SpellsExists
<1>2. Is(f)
  BY <1>0, <1>1 DEF Spells, Steps, Shift
<1>3. ValuesOf(s, base) = CHOOSE g : Is(g)
  BY DEF ValuesOf
<1>4. Is(ValuesOf(s, base))
  <2> HIDE DEF Is
  <2> QED
    BY <1>2, <1>3, Zenon
<1>5. PICK v : v = ValuesOf(s, base)
  OBVIOUS
<1>6. Is(v)
  BY <1>4, <1>5
<1>7. DOMAIN v = 0 .. Len(s) /\ Steps(v, s, base, Len(s))
  BY <1>0, <1>6 DEF Steps, Shift
<1>8. \A k \in 0 .. Len(s) : f[k] = v[k]
  <2>1. Steps(f, s, base, Len(s))
    BY <1>1 DEF Spells
  <2> QED
    BY <1>0, <1>7, <2>1, SpellsOne
<1>9. v = [k \in DOMAIN v |-> v[k]]
  BY <1>6, Zenon
<1>10. v \in [0 .. Len(s) -> Nat]
  <2>1. \A k \in 0 .. Len(s) : v[k] \in Nat
    BY <1>1, <1>8 DEF Spells, Steps
  <2> QED
    BY <1>7, <1>9, <2>1, Zenon
<1> QED
  BY <1>5, <1>7, <1>10 DEF Spells, Steps

(* The equations of ValuesOf.                                              *)
LEMMA ValuesFacts ==
  ASSUME NEW s \in Seq(Nat), NEW base \in Nat
  PROVE  /\ ValuesOf(s, base)[0] = 0
         /\ \A k \in 1 .. Len(s) :
              ValuesOf(s, base)[k] = ValuesOf(s, base)[k - 1] * base + s[k]
         /\ \A k \in 0 .. Len(s) : ValuesOf(s, base)[k] \in Nat
BY ValuesSpell DEF Spells, Steps, Shift

LEMMA NumberOfNone == ASSUME NEW base \in Nat PROVE NumberOf(<<>>, base) = 0
<1>1. <<>> \in Seq(Nat) /\ Len(<<>>) = 0
  OBVIOUS
<1> QED
  BY <1>1, ValuesSpell DEF Spells, Steps, NumberOf

LEMMA NumberOfAppend ==
  ASSUME NEW s \in Seq(Nat), NEW d \in Nat, NEW base \in Nat
  PROVE  NumberOf(Append(s, d), base) = NumberOf(s, base) * base + d
<1> DEFINE t == Append(s, d)
<1>1. /\ t \in Seq(Nat) /\ Len(t) = Len(s) + 1 /\ Len(s) \in Nat
      /\ t[Len(s) + 1] = d
      /\ \A k \in 1 .. Len(s) : s[k] = t[k]
  OBVIOUS
<1> HIDE DEF t
<1> DEFINE f == ValuesOf(s, base)
           g == ValuesOf(t, base)
<1>2. Spells(f, s, base, Len(s)) /\ Spells(g, t, base, Len(s) + 1)
  BY <1>1, ValuesSpell
<1> HIDE DEF f, g
<1>3. Steps(f, s, base, Len(s)) /\ Steps(g, s, base, Len(s))
  <2>1. \A k \in 1 .. Len(s) : k \in 1 .. Len(s) + 1 /\ s[k] = t[k]
    BY <1>1
  <2> QED
    BY <1>2, <2>1 DEF Spells, Steps
<1>4. Len(s) \in Nat
  BY <1>1
<1>5. \A k \in 0 .. Len(s) : f[k] = g[k]
  BY <1>3, <1>4, SpellsOne
<1>6. g[Len(s) + 1] = Shift(g[Len(s)], base, d)
  <2>1. Len(s) + 1 \in 1 .. Len(s) + 1 /\ (Len(s) + 1) - 1 = Len(s)
    BY <1>1
  <2> QED
    BY <1>1, <1>2, <2>1 DEF Spells, Steps
<1>7. g[Len(s) + 1] = Shift(f[Len(s)], base, d)
  BY <1>1, <1>5, <1>6
<1> QED
  BY <1>1, <1>7 DEF NumberOf, Shift, f, g, t

---------------------------------------------------------------------------
(* Arithmetic that wraps around.                                           *)

LEMMA RestUnique ==
  ASSUME NEW m \in Nat \ {0}, NEW a \in Int, NEW b \in Int,
         NEW x \in 0 .. m - 1, NEW y \in 0 .. m - 1, a * m + x = b * m + y
  PROVE  x = y
<1>1. (a - b) * m = y - x
  OBVIOUS
<1>2. CASE a - b >= 1
  <2>1. (a - b) * m >= m
    BY <1>2
  <2> QED
    BY <1>1, <2>1
<1>3. CASE b - a >= 1
  <2>1. (b - a) * m >= m
    BY <1>3
  <2>2. (b - a) * m = x - y
    OBVIOUS
  <2> QED
    BY <2>1, <2>2
<1>4. CASE a = b
  BY <1>1, <1>4
<1> QED
  BY <1>2, <1>3, <1>4

LEMMA DivRest ==
  ASSUME NEW m \in Nat \ {0}, NEW n \in Nat
  PROVE  n % m = n - m * (n \div m)
BY SMTT(30)

LEMMA Rest ==
  ASSUME NEW m \in Nat \ {0}, NEW n \in Nat
  PROVE  \E q \in Int, r \in 0 .. m - 1 : n = q * m + r /\ r = n % m
<1>1. n % m = n - m * (n \div m)
  BY DivRest
<1>2. n \div m \in Int
  OBVIOUS
<1>3. n % m \in 0 .. m - 1
  OBVIOUS
<1>4. PICK q \in Int, r \in 0 .. m - 1 : q = n \div m /\ r = n % m
  BY <1>2, <1>3, Zenon
<1>5. r = n - m * q
  BY <1>1, <1>4, Zenon
<1>6. n = q * m + r
  <2> HIDE <1>1, <1>4
  <2> QED
    BY <1>5
<1> QED
  BY <1>4, <1>6, Zenon

(* Reducing at every digit is reducing at the end.                         *)
LEMMA RestStep ==
  ASSUME NEW m \in Nat \ {0}, NEW n \in Nat, NEW base \in Nat, NEW d \in Nat
  PROVE  ((n % m) * base + d) % m = (n * base + d) % m
<1>1. PICK q \in Int, r \in 0 .. m - 1 : n = q * m + r /\ r = n % m
  BY Rest
<1>2. PICK p \in Nat, w \in Nat : p = r * base + d /\ w = n * base + d
  OBVIOUS
<1>3. w = (q * base) * m + p
  <2>1. n = q * m + r
    BY <1>1
  <2> QED
    BY <1>2, <2>1
<1>4. PICK a \in Int, x \in 0 .. m - 1 : p = a * m + x /\ x = p % m
  BY Rest
<1>5. PICK b \in Int, y \in 0 .. m - 1 : w = b * m + y /\ y = w % m
  BY Rest
<1>6. PICK c \in Int : c = q * base + a
  OBVIOUS
<1>7. c * m + x = b * m + y
  BY <1>3, <1>4, <1>5, <1>6
<1>8. x = y
  BY <1>7, RestUnique
<1> QED
  BY <1>1, <1>2, <1>4, <1>5, <1>8, Zenon

---------------------------------------------------------------------------
(* Texts.                                                                  *)

LEMMA CharsAreNumbers ==
  /\ \A s \in Seq(Chars) : s \in Seq(Nat)
  /\ \A s \in Seq(0 .. 255) : s \in Seq(Nat)
<1>1. Chars \subseteq Nat /\ 0 .. 255 \subseteq Nat
  BY DEF Chars, Other
<1>2. ASSUME NEW S \in SUBSET Nat, NEW s \in Seq(S) PROVE s \in Seq(Nat)
  <2>1. s \in [1 .. Len(s) -> S] /\ Len(s) \in Nat
    OBVIOUS
  <2>2. s \in [1 .. Len(s) -> Nat]
    BY <2>1
  <2> QED
    BY <2>1, <2>2
<1> QED
  BY <1>1, <1>2

(* What stands behind the first two characters, up to the n-th.            *)
LEMMA CutFacts ==
  ASSUME NEW S, NEW s, NEW n \in Nat, n >= 2, \A i \in 3 .. n : s[i] \in S
  PROVE  /\ SubSeq(s, 3, n) \in Seq(S)
         /\ Len(SubSeq(s, 3, n)) = n - 2
         /\ \A k \in 1 .. n - 2 : SubSeq(s, 3, n)[k] = s[k + 2]
<1>1. SubSeq(s, 3, n) = [k \in 1 .. n - 2 |-> s[k + 2]]
  OBVIOUS
<1>2. PICK m \in Nat : m = n - 2
  OBVIOUS
<1>3. \A k \in 1 .. m : k + 2 \in 3 .. n
  BY <1>2
<1>4. [k \in 1 .. m |-> s[k + 2]] \in [1 .. m -> S]
  BY <1>3
<1>5. [k \in 1 .. m |-> s[k + 2]] \in Seq(S) /\ Len([k \in 1 .. m |-> s[k + 2]]) = m
  BY <1>4
<1> QED
  BY <1>1, <1>2, <1>5

LEMMA EcidDigitsFacts ==
  ASSUME argument \in Seq(Chars)
  PROVE  /\ Prefix \in 0 .. Len(argument)
         /\ EcidDigits \in Seq(Chars)
         /\ Len(EcidDigits) = Len(argument) - Prefix
         /\ \A k \in 1 .. Len(argument) - Prefix : EcidDigits[k] = argument[k + Prefix]
<1>1. CASE IsHexText(argument)
  <2>1. Len(argument) >= 2
    <3>1. Len(<<0, X>>) = 2
      OBVIOUS
    <3> QED
      BY <1>1, <3>1 DEF IsHexText, IsPrefix
  <2>2. Prefix = 2 /\ EcidDigits = SubSeq(argument, 3, Len(argument))
    BY <1>1 DEF Prefix, EcidDigits
  <2> DEFINE digits == SubSeq(argument, 3, Len(argument))
  <2>3. Len(argument) \in Nat /\ \A i \in 3 .. Len(argument) : argument[i] \in Chars
    OBVIOUS
  <2>4. /\ digits \in Seq(Chars)
        /\ Len(digits) = Len(argument) - 2
        /\ \A k \in 1 .. Len(argument) - 2 : digits[k] = argument[k + 2]
    <3>1. PICK n \in Nat : n = Len(argument) /\ n >= 2
      BY <2>1, <2>3
    <3>2. \A i \in 3 .. n : argument[i] \in Chars
      BY <2>3, <3>1
    <3> HIDE DEF digits
    <3>3. /\ SubSeq(argument, 3, n) \in Seq(Chars)
          /\ Len(SubSeq(argument, 3, n)) = n - 2
          /\ \A k \in 1 .. n - 2 : SubSeq(argument, 3, n)[k] = argument[k + 2]
      <4>1. n \in Nat /\ n >= 2
        BY <3>1
      <4>2. PICK S : S = Chars
        OBVIOUS
      <4>3. \A i \in 3 .. n : argument[i] \in S
        BY <3>2, <4>2
      <4> QED
        BY <4>1, <4>2, <4>3, CutFacts, SMTT(30)
    <3> QED
      BY <3>1, <3>3, Zenon DEF digits
  <2> HIDE DEF digits
  <2> QED
    BY <2>1, <2>2, <2>3, <2>4 DEF digits
<1>2. CASE ~IsHexText(argument)
  BY <1>2 DEF Prefix, EcidDigits
<1> QED
  BY <1>1, <1>2

LEMMA SameEcid ==
  ASSUME UNCHANGED argument
  PROVE  /\ Prefix' = Prefix /\ EcidDigits' = EcidDigits
         /\ IsHexText(argument)' = IsHexText(argument)
BY DEF Prefix, EcidDigits, IsHexText, IsPrefix

---------------------------------------------------------------------------
(* Bytes.                                                                  *)

LEMMA TwoDigits ==
  ASSUME NEW x \in 0 .. 255
  PROVE  /\ x \div 16 \in HexDigits /\ x % 16 \in HexDigits
         /\ (x \div 16) * 16 + (x % 16) = x
<1>1. x \div 16 \in HexDigits /\ x % 16 \in HexDigits
  BY DEF HexDigits
<1>2. x % 16 = x - 16 * (x \div 16)
  <2>1. 16 \in Nat \ {0} /\ x \in Nat
    OBVIOUS
  <2> QED
    BY <2>1, DivRest, Zenon
<1> QED
  BY <1>1, <1>2

LEMMA HalfGenLen == \E h \in Nat : h = GenLen \div 2 /\ GenLen = 2 * h /\ GenLen \in Nat
<1>1. GenLen \in Nat /\ GenLen % 2 = 0 /\ 2 \in Nat \ {0}
  BY ParserAssumption
<1>2. GenLen % 2 = GenLen - 2 * (GenLen \div 2)
  BY <1>1, DivRest, Zenon
<1>3. GenLen \div 2 \in Nat
  BY <1>1
<1>4. GenLen = 2 * (GenLen \div 2)
  BY <1>1, <1>2, <1>3
<1> QED
  BY <1>1, <1>3, <1>4

(* Swapped twice, the bytes are as they were.                              *)
LEMMA SwapFacts ==
  ASSUME NEW S, NEW s \in Seq(S)
  PROVE  /\ SwapBytes(s) \in Seq(S)
         /\ Len(SwapBytes(s)) = Len(s)
         /\ SwapBytes(SwapBytes(s)) = s
<1> DEFINE t == SwapBytes(s)
<1>1. /\ Len(s) \in Nat /\ DOMAIN s = 1 .. Len(s)
      /\ \A k \in 1 .. Len(s) : Len(s) + 1 - k \in 1 .. Len(s) /\ s[k] \in S
      /\ s = [k \in 1 .. Len(s) |-> s[k]]
  OBVIOUS
<1>2. t = [k \in 1 .. Len(s) |-> s[Len(s) + 1 - k]]
  BY <1>1 DEF SwapBytes
<1> HIDE DEF t
<1>3. t \in [1 .. Len(s) -> S]
  BY <1>1, <1>2
<1>4. t \in Seq(S) /\ Len(t) = Len(s) /\ DOMAIN t = 1 .. Len(s)
  BY <1>1, <1>3
<1>5. SwapBytes(t) = [k \in 1 .. Len(s) |-> t[Len(s) + 1 - k]]
  BY <1>4 DEF SwapBytes
<1>6. \A k \in 1 .. Len(s) : t[Len(s) + 1 - k] = s[k]
  <2> TAKE k \in 1 .. Len(s)
  <2>1. Len(s) + 1 - (Len(s) + 1 - k) = k
    BY <1>1
  <2> QED
    BY <1>1, <1>2, <2>1
<1>7. SwapBytes(t) = s
  BY <1>1, <1>5, <1>6
<1> QED
  BY <1>4, <1>7 DEF t

(* With the text at its end no byte is half read.                          *)
LEMMA HexAtEnd ==
  ASSUME Types, HexRead, at \in {"hex", "swap"}, pos = Len(text) + 1
  PROVE  /\ next
         /\ Len(bytes) = Length
         /\ text \in Seq(HexDigits)
         /\ NumberOf(bytes, 256) = NumberOf(text, 16)
<1>1. /\ Len(text) \in Nat /\ Len(bytes) \in Nat /\ pos - 1 = Len(text)
      /\ Len(text) % 2 \in {0, 1} /\ Len(text) \div 2 \in Int
      /\ Len(text) % 2 = Len(text) - 2 * (Len(text) \div 2)
  <2>1. Len(text) \in Nat /\ Len(bytes) \in Nat
    BY DEF Types
  <2>2. 2 \in Nat \ {0}
    OBVIOUS
  <2>3. Len(text) % 2 = Len(text) - 2 * (Len(text) \div 2)
    BY <2>1, <2>2, DivRest, Zenon
  <2> QED
    BY <2>1, <2>3
<1>2. Len(text) + (Len(text) % 2) = 2 * Len(bytes) + (IF next THEN 0 ELSE 1)
  BY <1>1 DEF HexRead
<1>3. CASE next
  <2>1. Len(text) + (Len(text) % 2) = 2 * Len(bytes)
    BY <1>2, <1>3
  <2>2. Len(bytes) = Length
    BY <1>1, <2>1 DEF Length
  <2>3. text \in Seq(HexDigits)
    BY <1>1 DEF HexRead, Types
  <2>4. NumberOf(bytes, 256) = ValuesOf(text, 16)[Len(text)]
    BY <1>1, <1>3 DEF HexRead
  <2> QED
    BY <1>3, <2>2, <2>3, <2>4 DEF NumberOf
<1>4. CASE ~next
  <2>1. Len(text) + (Len(text) % 2) = 2 * Len(bytes) + 1
    BY <1>2, <1>4
  <2> QED
    BY <1>1, <2>1
<1> QED
  BY <1>3, <1>4

---------------------------------------------------------------------------
(* The steps.                                                              *)

LEMMA InitInv == Init => Inv
<1> SUFFICES ASSUME Init PROVE Inv
  OBVIOUS
<1>1. argument \in Seq(Chars)
  <2>1. <<>> \in Seq(Chars)
    OBVIOUS
  <2>2. argument \in Texts \cup GeneratorTexts \cup {<<>>}
    BY DEF Init
  <2> QED
    BY <2>1, <2>2, ParserAssumption
<1>2. Types
  <2>1. pos \in 1 .. Len(text) + 1
    <3>1. CASE at = "hexadecimal"
      <4>1. IsHexText(argument) /\ pos = 3 /\ text = argument
        BY <3>1 DEF Init
      <4>2. Len(argument) >= 2
        BY <1>1, <4>1, EcidDigitsFacts DEF Prefix
      <4> QED
        BY <1>1, <4>1, <4>2
    <3>2. CASE at # "hexadecimal"
      BY <1>1, <3>2 DEF Init
    <3> QED
      BY <3>1, <3>2
  <2>2. <<>> \in Seq(0 .. 255)
    OBVIOUS
  <2>3. /\ parser \in {"ecid", "nonce", "generator", "drawn"}
        /\ text = argument /\ ret = 0 /\ next = FALSE /\ tmp = 0 /\ bytes = <<>>
    BY DEF Init
  <2>4. next \in BOOLEAN
    BY <2>3, Zenon
  <2> QED
    BY <1>1, <2>1, <2>2, <2>3, <2>4 DEF Types
<1>3. Places
  BY ParserAssumption DEF Init, Places, Parsing
<1>4. EcidRead
  <2> SUFFICES ASSUME parser = "ecid" PROVE EcidRead
    BY DEF EcidRead
  <2>1. argument \in Seq(Nat) /\ EcidDigits \in Seq(Nat)
    BY <1>1, CharsAreNumbers, EcidDigitsFacts
  <2>2. ValuesOf(argument, 10)[0] = 0 /\ ValuesOf(EcidDigits, 16)[0] = 0
    BY <2>1, ValuesFacts
  <2>3. 0 % EcidModulus = 0
    BY ParserAssumption
  <2>4. CASE IsHexText(argument)
    <3>1. Prefix = 2 /\ at = "hexadecimal" /\ pos = 3 /\ ret = 0
      BY <2>4 DEF Prefix, Init
    <3> QED
      BY <2>2, <2>3, <2>4, <3>1 DEF EcidRead
  <2>5. CASE ~IsHexText(argument)
    <3>1. at = "decimal" /\ pos = 1 /\ ret = 0
      BY <2>5 DEF Init
    <3> QED
      BY <2>2, <2>3, <2>5, <3>1 DEF EcidRead
  <2> QED
    BY <2>4, <2>5
<1>5. /\ HexRead /\ DrawnRead /\ EcidMeant
      /\ GeneratorRead /\ GeneratorReproduces
  BY DEF Init, HexRead, DrawnRead, EcidMeant, GeneratorRead, GeneratorReproduces
<1>6. HexMeansValue
  BY <1>1 DEF Init, HexMeansValue, Length
<1> QED
  BY <1>2, <1>3, <1>4, <1>5, <1>6 DEF Inv

LEMMA DecimalInv == ASSUME Inv, Decimal PROVE Inv'
<1> USE DEF Inv
<1>1. /\ parser = "ecid" /\ at = "decimal" /\ text = argument
      /\ UNCHANGED <<parser, argument, at, text, hexVars, zz>>
  BY DEF Decimal, Types, Places, Parsing, given
<1>2. /\ pos \in 1 .. Len(argument) /\ argument[pos] \in Digits /\ pos' = pos + 1
      /\ ret' = (ret * 10 + argument[pos]) % EcidModulus
      /\ argument \in Seq(Chars) /\ Len(argument) \in Nat
  BY <1>1 DEF Decimal, More, Types
<1>3. argument[pos] \in Nat /\ EcidModulus \in Nat \ {0}
  BY <1>2, ParserAssumption DEF Digits
<1>4. Types'
  <2>1. ret' \in Nat
    BY <1>2, <1>3 DEF Types
  <2> QED
    BY <1>1, <1>2, <2>1 DEF Types, hexVars
<1>5. Places'
  BY <1>1 DEF Places, Parsing
<1>6. EcidRead'
  <2> DEFINE v == ValuesOf(argument, 10)
  <2>1. v[pos - 1] \in Nat /\ v[pos] = v[pos - 1] * 10 + argument[pos]
    <3>1. argument \in Seq(Nat) /\ pos - 1 \in 0 .. Len(argument)
      BY <1>2, CharsAreNumbers
    <3> QED
      BY <1>2, <3>1, ValuesFacts
  <2>2. /\ ret = v[pos - 1] % EcidModulus
        /\ ~IsHexText(argument)
        /\ \A k \in 1 .. pos - 1 : argument[k] \in Digits
    BY <1>1 DEF EcidRead
  <2>3. ret' = v[pos] % EcidModulus
    <3> HIDE DEF v
    <3>1. PICK n \in Nat, d \in Nat : n = v[pos - 1] /\ d = argument[pos]
      BY <1>3, <2>1
    <3>2. ((n % EcidModulus) * 10 + d) % EcidModulus = (n * 10 + d) % EcidModulus
      <4>1. PICK base \in Nat : base = 10
        OBVIOUS
      <4>2. EcidModulus \in Nat \ {0}
        BY <1>3
      <4>3. ((n % EcidModulus) * base + d) % EcidModulus = (n * base + d) % EcidModulus
        BY <4>2, RestStep, Zenon
      <4> QED
        BY <4>1, <4>3
    <3>3. ret' = ((n % EcidModulus) * 10 + d) % EcidModulus
      BY <1>2, <2>2, <3>1
    <3> QED
      BY <2>1, <3>1, <3>2, <3>3
  <2>4. (pos + 1) - 1 = pos /\ \A k \in 1 .. pos : k = pos \/ k \in 1 .. pos - 1
    BY <1>2
  <2> QED
    BY <1>1, <1>2, <2>2, <2>3, <2>4, SameEcid DEF EcidRead
<1>7. /\ HexRead' /\ DrawnRead' /\ EcidMeant' /\ HexMeansValue'
      /\ GeneratorRead' /\ GeneratorReproduces'
  BY <1>1 DEF HexRead, DrawnRead, EcidMeant, HexMeansValue, GeneratorRead, GeneratorReproduces
<1> QED
  BY <1>4, <1>5, <1>6, <1>7

LEMMA StartHexadecimalInv == ASSUME Inv, StartHexadecimal PROVE Inv'
<1> USE DEF Inv
<1>1. /\ parser = "ecid" /\ at = "decimal" /\ text = argument
      /\ at' = "hexadecimal" /\ ret' = 0 /\ pos' = 1
      /\ UNCHANGED <<parser, argument, text, hexVars, zz>>
  BY DEF StartHexadecimal, Types, Places, Parsing, given
<1>2. /\ argument \in Seq(Chars) /\ Len(argument) \in Nat
      /\ pos \in 1 .. Len(argument) /\ argument[pos] \notin Digits
  BY <1>1 DEF StartHexadecimal, More, Types
<1>3. ~IsHexText(argument) /\ Prefix = 0
  BY <1>1 DEF EcidRead, Prefix
<1>4. argument \notin Seq(Digits)
  BY <1>2
<1>5. EcidDigits \in Seq(Nat)
  BY <1>2, CharsAreNumbers, EcidDigitsFacts
<1>6. 0 = ValuesOf(EcidDigits, 16)[0] % EcidModulus
  <2>1. ValuesOf(EcidDigits, 16)[0] = 0
    BY <1>5, ValuesFacts
  <2> QED
    BY <2>1, ParserAssumption
<1>7. Types'
  BY <1>1, <1>2 DEF Types, hexVars
<1>8. Places'
  BY <1>1 DEF Places, Parsing
<1>9. EcidRead'
  BY <1>1, <1>3, <1>4, <1>6, SameEcid DEF EcidRead
<1>10. /\ HexRead' /\ DrawnRead' /\ EcidMeant' /\ HexMeansValue'
       /\ GeneratorRead' /\ GeneratorReproduces'
  BY <1>1 DEF HexRead, DrawnRead, EcidMeant, HexMeansValue, GeneratorRead, GeneratorReproduces
<1> QED
  BY <1>7, <1>8, <1>9, <1>10

LEMMA HexadecimalInv == ASSUME Inv, Hexadecimal PROVE Inv'
<1> USE DEF Inv
<1>1. /\ parser = "ecid" /\ at = "hexadecimal" /\ text = argument /\ pos' = pos + 1
      /\ UNCHANGED <<parser, argument, text, hexVars, zz>>
  BY DEF Hexadecimal, Types, Places, Parsing, given
<1>2. /\ argument \in Seq(Chars) /\ Len(argument) \in Nat
      /\ pos \in 1 .. Len(argument)
  BY <1>1 DEF Hexadecimal, More, Types
<1> DEFINE v == ValuesOf(EcidDigits, 16)
<1>3. /\ pos - 1 >= Prefix
      /\ IsHexText(argument) \/ argument \notin Seq(Digits)
      /\ \A k \in 1 .. pos - 1 - Prefix : EcidDigits[k] \in HexDigits
      /\ ret = v[pos - 1 - Prefix] % EcidModulus
  BY <1>1 DEF EcidRead
<1>4. /\ Prefix \in Nat /\ EcidDigits \in Seq(Nat)
      /\ Len(EcidDigits) = Len(argument) - Prefix
      /\ \A k \in 1 .. Len(argument) - Prefix : EcidDigits[k] = argument[k + Prefix]
  BY <1>2, EcidDigitsFacts, CharsAreNumbers
<1>5. PICK j \in 1 .. Len(EcidDigits) : j = pos - Prefix
  BY <1>2, <1>3, <1>4
<1>6. argument[pos] = EcidDigits[j]
  <2>1. j \in 1 .. Len(argument) - Prefix /\ j + Prefix = pos
    BY <1>2, <1>4, <1>5
  <2> QED
    BY <1>4, <2>1
<1>7. EcidModulus \in Nat \ {0} /\ HexDigits \subseteq Nat
  BY ParserAssumption DEF HexDigits
<1>8. CASE argument[pos] \in HexDigits
  <2>1. ret' = (ret * 16 + argument[pos]) % EcidModulus /\ at' = at
    BY <1>1, <1>8 DEF Hexadecimal
  <2>2. Types'
    <3>1. PICK w \in Nat : w = ret * 16 + argument[pos]
      <4>1. ret \in Nat /\ argument[pos] \in Nat
        BY <1>7, <1>8 DEF Types
      <4> QED
        BY <4>1
    <3>2. ret' \in Nat
      BY <1>7, <2>1, <3>1
    <3> QED
      BY <1>1, <1>2, <3>2 DEF Types, hexVars
  <2>3. Places'
    BY <1>1, <2>1 DEF Places, Parsing
  <2>4. EcidRead'
    <3>1. v[j - 1] \in Nat /\ v[j] = v[j - 1] * 16 + EcidDigits[j]
      <4>1. PICK base \in Nat : base = 16
        OBVIOUS
      <4>2. /\ \A k \in 1 .. Len(EcidDigits) :
                 ValuesOf(EcidDigits, base)[k]
                   = ValuesOf(EcidDigits, base)[k - 1] * base + EcidDigits[k]
            /\ \A k \in 0 .. Len(EcidDigits) : ValuesOf(EcidDigits, base)[k] \in Nat
        BY <1>4, ValuesFacts, Zenon
      <4>3. j - 1 \in 0 .. Len(EcidDigits)
        BY <1>5
      <4> QED
        BY <1>5, <4>1, <4>2, <4>3, Zenon
    <3>2. ret' = v[j] % EcidModulus
      <4> HIDE DEF v
      <4>1. PICK n \in Nat, d \in Nat : n = v[j - 1] /\ d = argument[pos]
        BY <1>7, <1>8, <3>1
      <4>2. ((n % EcidModulus) * 16 + d) % EcidModulus = (n * 16 + d) % EcidModulus
        <5>1. PICK base \in Nat : base = 16
          OBVIOUS
        <5>2. ((n % EcidModulus) * base + d) % EcidModulus = (n * base + d) % EcidModulus
          BY <1>7, RestStep, Zenon
        <5> QED
          BY <5>1, <5>2
      <4>3. pos - 1 - Prefix = j - 1
        BY <1>2, <1>4, <1>5
      <4>4. ret' = ((n % EcidModulus) * 16 + d) % EcidModulus
        BY <1>3, <2>1, <4>1, <4>3
      <4>5. v[j] = n * 16 + d
        BY <1>6, <3>1, <4>1
      <4> QED
        BY <4>2, <4>4, <4>5, Zenon
    <3>3. \A k \in 1 .. j : EcidDigits[k] \in HexDigits
      <4>1. pos - 1 - Prefix = j - 1
        BY <1>2, <1>4, <1>5
      <4>2. \A k \in 1 .. j : k = j \/ k \in 1 .. j - 1
        OBVIOUS
      <4> QED
        BY <1>3, <1>6, <1>8, <4>1, <4>2
    <3>4. (pos + 1) - 1 - Prefix = j /\ (pos + 1) - 1 >= Prefix
      BY <1>2, <1>3, <1>4, <1>5
    <3> QED
      BY <1>1, <1>3, <2>1, <3>2, <3>3, <3>4, SameEcid DEF EcidRead
  <2>5. /\ HexRead' /\ DrawnRead' /\ EcidMeant' /\ HexMeansValue'
        /\ GeneratorRead' /\ GeneratorReproduces'
    BY <1>1, <2>1
       DEF HexRead, DrawnRead, EcidMeant, HexMeansValue, GeneratorRead, GeneratorReproduces
  <2> QED
    BY <2>2, <2>3, <2>4, <2>5
<1>9. CASE argument[pos] \notin HexDigits
  <2>1. ret' = 0 /\ at' = "done"
    BY <1>1, <1>9 DEF Hexadecimal
  <2>2. Types'
    BY <1>1, <1>2, <2>1 DEF Types, hexVars
  <2>3. Places'
    BY <1>1, <2>1 DEF Places, Parsing
  <2>4. EcidMeant'
    <3>1. EcidDigits \notin Seq(HexDigits)
      BY <1>5, <1>6, <1>9
    <3>2. ~(EcidDigits \in Seq(Digits) /\ ~IsHexText(argument))
      BY <1>3 DEF EcidDigits
    <3> QED
      BY <1>1, <2>1, <3>1, <3>2 DEF EcidMeant, EcidDigits, IsHexText, IsPrefix
  <2>5. /\ EcidRead' /\ HexRead' /\ DrawnRead' /\ HexMeansValue'
        /\ GeneratorRead' /\ GeneratorReproduces'
    BY <1>1, <2>1
       DEF EcidRead, HexRead, DrawnRead, HexMeansValue, GeneratorRead, GeneratorReproduces
  <2> QED
    BY <2>2, <2>3, <2>4, <2>5
<1> QED
  BY <1>8, <1>9

LEMMA ReturnEcidInv == ASSUME Inv, ReturnEcid PROVE Inv'
<1> USE DEF Inv
<1>1. /\ parser = "ecid" /\ at \in {"decimal", "hexadecimal"} /\ text = argument
      /\ at' = "done" /\ UNCHANGED <<parser, argument, text, pos, ret, hexVars, zz>>
  BY DEF ReturnEcid, Types, Places, Parsing, given
<1>2. argument \in Seq(Chars) /\ Len(argument) \in Nat /\ pos = Len(argument) + 1
  BY <1>1 DEF ReturnEcid, More, Types
<1>3. EcidMeant'
  <2>1. CASE at = "decimal"
    <3>1. /\ ~IsHexText(argument)
          /\ \A k \in 1 .. Len(argument) : argument[k] \in Digits
          /\ ret = ValuesOf(argument, 10)[Len(argument)] % EcidModulus
      <4>1. pos - 1 = Len(argument)
        BY <1>2
      <4> QED
        BY <1>1, <2>1, <4>1 DEF EcidRead
    <3>2. argument \in Seq(Digits)
      BY <1>2, <3>1
    <3>3. EcidDigits = argument
      BY <3>1 DEF EcidDigits
    <3> QED
      BY <1>1, <3>1, <3>2, <3>3, SameEcid DEF EcidMeant, EcidDigits, NumberOf
  <2>2. CASE at = "hexadecimal"
    <3>1. /\ EcidDigits \in Seq(Chars) /\ Prefix \in Nat
          /\ Len(EcidDigits) = pos - 1 - Prefix
      BY <1>2, EcidDigitsFacts
    <3>2. /\ IsHexText(argument) \/ argument \notin Seq(Digits)
          /\ \A k \in 1 .. Len(EcidDigits) : EcidDigits[k] \in HexDigits
          /\ ret = NumberOf(EcidDigits, 16) % EcidModulus
      BY <1>1, <2>2, <3>1 DEF EcidRead, NumberOf
    <3>3. EcidDigits \in Seq(HexDigits)
      BY <3>1, <3>2
    <3>4. ~(EcidDigits \in Seq(Digits) /\ ~IsHexText(argument))
      BY <3>2 DEF EcidDigits
    <3> QED
      BY <1>1, <3>2, <3>3, <3>4, SameEcid DEF EcidMeant, EcidDigits
  <2> QED
    BY <1>1, <2>1, <2>2
<1>4. Types'
  BY <1>1, <1>2 DEF Types, hexVars
<1>5. Places'
  BY <1>1 DEF Places, Parsing
<1>6. /\ EcidRead' /\ HexRead' /\ DrawnRead' /\ HexMeansValue'
      /\ GeneratorRead' /\ GeneratorReproduces'
  BY <1>1 DEF EcidRead, HexRead, DrawnRead, HexMeansValue, GeneratorRead, GeneratorReproduces
<1> QED
  BY <1>3, <1>4, <1>5, <1>6

LEMMA StartHexInv == ASSUME Inv, StartHex PROVE Inv'
<1> USE DEF Inv
<1>1. /\ at = "parseHex" /\ at' = "hex" /\ pos = 1
      /\ tmp' = 0 /\ bytes' = <<>>
      /\ UNCHANGED <<parser, argument, text, pos, ret, zz>>
  BY DEF StartHex, Places, given
<1>2. next' <=> Len(text) % 2 = 0
  BY DEF StartHex
<1>3. next' \in BOOLEAN
  BY DEF StartHex
<1>4. /\ text \in Seq(Chars) /\ text \in Seq(Nat) /\ Len(text) \in Nat
      /\ Len(text) % 2 \in {0, 1}
  BY CharsAreNumbers DEF Types
<1>5. parser \in {"nonce", "generator", "drawn"}
  BY <1>1 DEF Types, Places
<1>6. Types'
  BY <1>1, <1>3 DEF Types
<1>7. Places'
  BY <1>1, <1>5 DEF Places, Parsing
<1>8. HexRead'
  <2>1. Len(<<>>) = 0 /\ pos - 1 = 0
    BY <1>1
  <2>2. NumberOf(<<>>, 256) = 0 /\ ValuesOf(text, 16)[0] = 0
    BY <1>4, NumberOfNone, ValuesFacts
  <2>3. CASE next'
    BY <1>1, <1>2, <1>4, <2>1, <2>2, <2>3 DEF HexRead
  <2>4. CASE ~next'
    <3>1. 0 \in HexDigits
      BY DEF HexDigits
    <3> QED
      BY <1>1, <1>2, <1>4, <2>1, <2>2, <2>4, <3>1 DEF HexRead
  <2> QED
    BY <2>3, <2>4
<1>9. DrawnRead'
  <2>1. CASE parser = "drawn"
    <3>1. next'
      BY <1>1, <1>2, <2>1, ParserAssumption DEF Places, Parsing
    <3> QED
      BY <1>1, <2>1, <3>1 DEF DrawnRead, Parsing
  <2> QED
    BY <1>1, <2>1 DEF DrawnRead
<1>10. HexMeansValue'
  BY <1>1, <1>4 DEF HexMeansValue, Length
<1>11. EcidRead' /\ EcidMeant' /\ GeneratorRead' /\ GeneratorReproduces'
  BY <1>1, <1>5 DEF EcidRead, EcidMeant, GeneratorRead, GeneratorReproduces
<1> QED
  BY <1>6, <1>7, <1>8, <1>9, <1>10, <1>11

LEMMA ReturnHexInv == ASSUME Inv, ReturnHex PROVE Inv'
<1> USE DEF Inv
<1>1. /\ at = "hex" /\ at' = IF parser = "nonce" THEN "done" ELSE "swap"
      /\ UNCHANGED <<parser, argument, text, pos, ret, hexVars, zz>>
  BY DEF ReturnHex, given
<1>2. parser \in {"nonce", "generator", "drawn"}
  BY <1>1 DEF Types, Places
<1>3. pos = Len(text) + 1
  BY <1>1 DEF ReturnHex, More, Types
<1>4. /\ next /\ Len(bytes) = Length
      /\ text \in Seq(HexDigits)
      /\ NumberOf(bytes, 256) = NumberOf(text, 16)
  BY <1>1, <1>3, HexAtEnd
<1>5. Types'
  BY <1>1 DEF Types, hexVars
<1>6. Places'
  BY <1>1, <1>2, <1>3 DEF Places, Parsing
<1>7. UNCHANGED <<next, tmp, bytes>>
  BY <1>1 DEF hexVars
<1>8. HexRead'
  BY <1>1, <1>7 DEF HexRead
<1>9. DrawnRead'
  BY <1>1, <1>7 DEF DrawnRead, Parsing
<1>10. HexMeansValue'
  <2>1. CASE parser = "nonce"
    <3>1. text = argument
      BY <2>1 DEF Places
    <3> QED
      BY <1>1, <1>4, <1>7, <2>1, <3>1 DEF HexMeansValue, Length, Types
  <2> QED
    BY <1>1, <2>1 DEF HexMeansValue
<1>11. EcidRead' /\ EcidMeant' /\ GeneratorRead' /\ GeneratorReproduces'
  BY <1>1, <1>2 DEF EcidRead, EcidMeant, GeneratorRead, GeneratorReproduces
<1> QED
  BY <1>5, <1>6, <1>8, <1>9, <1>10, <1>11

(* A character that is no digit ends parseHex; a generator has none.       *)
LEMMA HexFails == ASSUME Inv, Hex, text[pos] \notin HexDigits PROVE Inv'
<1> USE DEF Inv
<1>1. /\ at = "hex" /\ pos \in 1 .. Len(text) /\ at' = "failed" /\ pos' = pos + 1
      /\ UNCHANGED <<parser, argument, text, ret, hexVars, zz>>
  BY DEF Hex, More, Types, given
<1>2. text \notin Seq(HexDigits)
  BY <1>1
<1>3. parser = "nonce" /\ text = argument
  BY <1>1, <1>2 DEF Types, Places, Parsing
<1>4. Types'
  BY <1>1 DEF Types, hexVars
<1>5. Places'
  BY <1>1, <1>3 DEF Places, Parsing
<1>6. HexMeansValue'
  BY <1>1, <1>2, <1>3 DEF HexMeansValue, Length, hexVars
<1>7. /\ EcidRead' /\ HexRead' /\ DrawnRead' /\ EcidMeant'
      /\ GeneratorRead' /\ GeneratorReproduces'
  BY <1>1, <1>3 DEF EcidRead, HexRead, DrawnRead, EcidMeant, GeneratorRead, GeneratorReproduces
<1> QED
  BY <1>4, <1>5, <1>6, <1>7

(* The first digit of a byte waits in tmp.                                 *)
LEMMA HexFirst == ASSUME Inv, Hex, text[pos] \in HexDigits, next PROVE Inv'
<1> USE DEF Inv
<1>1. /\ at = "hex" /\ at' = "hex" /\ pos \in 1 .. Len(text) /\ pos' = pos + 1
      /\ UNCHANGED <<parser, argument, text, ret, zz>>
  BY DEF Hex, More, Types, given
<1>2. tmp = 0 /\ text[pos] \in 0 .. 15
  BY <1>1 DEF HexRead, HexDigits
<1>3. ~next' /\ next' \in BOOLEAN
  BY DEF Hex
<1>4. bytes' = bytes /\ tmp' = text[pos]
  <2>1. bytes' = bytes /\ tmp' = (tmp * 16 + text[pos]) % 256
    BY <1>3 DEF Hex
  <2>2. PICK d \in 0 .. 15 : d = text[pos]
    BY <1>2
  <2>3. (0 * 16 + d) % 256 = d
    OBVIOUS
  <2> QED
    BY <1>2, <2>1, <2>2, <2>3
<1>5. parser \in {"nonce", "generator", "drawn"}
  BY <1>1 DEF Types, Places
<1>6. Types'
  BY <1>1, <1>2, <1>3, <1>4 DEF Types
<1>7. Places'
  BY <1>1, <1>4, <1>5 DEF Places, Parsing
<1>8. /\ Len(text) \in Nat /\ Len(bytes) \in Nat /\ Len(text) % 2 \in Nat
      /\ text \in Seq(Nat) /\ bytes \in Seq(Nat)
  BY CharsAreNumbers DEF Types
<1>9. HexRead'
  <2>1. pos - 1 + (Len(text) % 2) = 2 * Len(bytes)
    BY <1>1, <1>8 DEF HexRead
  <2>2. (pos + 1) - 1 + (Len(text) % 2) = 2 * Len(bytes) + 1
    BY <1>1, <1>8, <2>1
  <2>3. \A k \in 1 .. pos : text[k] \in HexDigits
    <3>1. \A k \in 1 .. pos : k = pos \/ k \in 1 .. pos - 1
      BY <1>1
    <3> QED
      BY <1>1, <3>1 DEF HexRead
  <2>4. ValuesOf(text, 16)[pos] = NumberOf(bytes, 256) * 16 + text[pos]
    <3>1. ValuesOf(text, 16)[pos - 1] = NumberOf(bytes, 256)
      BY <1>1 DEF HexRead
    <3> QED
      BY <1>1, <1>8, <3>1, ValuesFacts
  <2>5. (pos + 1) - 1 = pos
    BY <1>1
  <2> QED
    BY <1>1, <1>3, <1>4, <2>2, <2>3, <2>4, <2>5 DEF HexRead
<1>10. DrawnRead'
  <2>1. CASE parser = "drawn"
    <3>1. Len(text) = GenLen /\ GenLen % 2 = 0 /\ GenLen \in Nat
      BY <1>1, <2>1, ParserAssumption DEF Places, Parsing
    <3>2. pos - 1 = 2 * Len(bytes)
      BY <1>1, <1>8, <3>1 DEF HexRead
    <3>3. PICK k \in 1 .. GenLen \div 2 : k = Len(bytes) + 1
      BY <1>1, <1>8, <3>1, <3>2
    <3>4. 2 * k - 1 = pos
      BY <1>1, <1>8, <3>2, <3>3
    <3>5. text[pos] = SwapBytes(zz)[Len(bytes) + 1] \div 16
      BY <1>1, <2>1, <3>3, <3>4 DEF DrawnRead, Parsing
    <3> QED
      BY <1>1, <1>4, <2>1, <3>5 DEF DrawnRead, Parsing
  <2> QED
    BY <1>1, <2>1 DEF DrawnRead
<1>11. HexMeansValue'
  BY <1>1, <1>4 DEF HexMeansValue, Length
<1>12. EcidRead' /\ EcidMeant' /\ GeneratorRead' /\ GeneratorReproduces'
  BY <1>1, <1>5 DEF EcidRead, EcidMeant, GeneratorRead, GeneratorReproduces
<1> QED
  BY <1>6, <1>7, <1>9, <1>10, <1>11, <1>12

(* The second digit writes the byte, for which there is room.              *)
LEMMA HexSecond == ASSUME Inv, Hex, text[pos] \in HexDigits, ~next PROVE Inv'
<1> USE DEF Inv
<1>1. /\ at = "hex" /\ at' = "hex" /\ pos \in 1 .. Len(text) /\ pos' = pos + 1
      /\ UNCHANGED <<parser, argument, text, ret, zz>>
  BY DEF Hex, More, Types, given
<1>2. /\ tmp \in 0 .. 15 /\ text[pos] \in 0 .. 15
      /\ pos - 1 + (Len(text) % 2) = 2 * Len(bytes) + 1
  BY <1>1 DEF HexRead, HexDigits
<1>3. next' /\ next' \in BOOLEAN
  BY DEF Hex
<1>4. /\ Len(text) \in Nat /\ Len(bytes) \in Nat /\ Len(text) % 2 \in {0, 1}
      /\ text \in Seq(Nat) /\ bytes \in Seq(Nat) /\ bytes \in Seq(0 .. 255)
  <2>1. Len(text) \in Nat /\ Len(bytes) \in Nat
    BY DEF Types
  <2>2. Len(text) % 2 \in {0, 1}
    BY <2>1
  <2> QED
    BY <2>1, <2>2, CharsAreNumbers DEF Types
<1>5. Len(bytes) < Length
  <2>1. PICK l \in Nat, b \in Nat, r \in {0, 1} :
          l = Len(text) /\ b = Len(bytes) /\ r = Len(text) % 2
    BY <1>4
  <2>2. 2 * b + 2 <= l + 1
    BY <1>1, <1>2, <2>1
  <2>3. b < (l + 1) \div 2
    BY <2>2
  <2> QED
    BY <2>1, <2>3 DEF Length
<1>6. PICK t \in 0 .. 255 : t = tmp * 16 + text[pos]
  <2>1. PICK a \in 0 .. 15, d \in 0 .. 15 : a = tmp /\ d = text[pos]
    BY <1>2
  <2>2. a * 16 + d \in 0 .. 255
    OBVIOUS
  <2> QED
    BY <2>1, <2>2
<1>7. bytes' = Append(bytes, t) /\ tmp' = 0
  <2>1. t % 256 = t
    OBVIOUS
  <2> QED
    BY <1>3, <1>5, <1>6, <2>1 DEF Hex
<1>8. bytes' \in Seq(0 .. 255) /\ Len(bytes') = Len(bytes) + 1
  BY <1>4, <1>7
<1>9. parser \in {"nonce", "generator", "drawn"}
  BY <1>1 DEF Types, Places
<1>10. Types'
  BY <1>1, <1>3, <1>7, <1>8 DEF Types
<1>11. Places'
  BY <1>1, <1>9 DEF Places, Parsing
<1>12. HexRead'
  <2>1. (pos + 1) - 1 + (Len(text) % 2) = 2 * Len(bytes')
    BY <1>1, <1>2, <1>4, <1>8
  <2>2. \A k \in 1 .. pos : text[k] \in HexDigits
    <3>1. \A k \in 1 .. pos : k = pos \/ k \in 1 .. pos - 1
      BY <1>1
    <3> QED
      BY <1>1, <3>1 DEF HexRead
  <2>3. ValuesOf(text, 16)[pos] = NumberOf(bytes', 256)
    <3>1. PICK n \in Nat : n = NumberOf(bytes, 256)
      <4>1. ValuesOf(bytes, 256)[Len(bytes)] \in Nat
        BY <1>4, ValuesFacts
      <4> QED
        BY <4>1 DEF NumberOf
    <3>2. ValuesOf(text, 16)[pos - 1] = n * 16 + tmp
      BY <1>1, <3>1 DEF HexRead
    <3>3. ValuesOf(text, 16)[pos] = (n * 16 + tmp) * 16 + text[pos]
      <4>1. ValuesOf(text, 16)[pos] = ValuesOf(text, 16)[pos - 1] * 16 + text[pos]
        <5>1. 16 \in Nat
          OBVIOUS
        <5> QED
          BY <1>1, <1>4, <5>1, ValuesFacts, Zenon
      <4> QED
        BY <3>2, <4>1
    <3>4. NumberOf(bytes', 256) = n * 256 + t
      <4>1. PICK base \in Nat, d \in Nat : base = 256 /\ d = t
        OBVIOUS
      <4>2. NumberOf(Append(bytes, d), base) = NumberOf(bytes, base) * base + d
        BY <1>4, NumberOfAppend, Zenon
      <4> QED
        BY <1>7, <3>1, <4>1, <4>2
    <3>5. (n * 16 + tmp) * 16 + text[pos] = n * 256 + t
      <4>1. PICK a \in 0 .. 15, d \in 0 .. 15 : a = tmp /\ d = text[pos]
        BY <1>2
      <4>2. (n * 16 + a) * 16 + d = n * 256 + (a * 16 + d)
        OBVIOUS
      <4> QED
        BY <1>6, <4>1, <4>2
    <3> QED
      BY <3>3, <3>4, <3>5
  <2>4. (pos + 1) - 1 = pos
    BY <1>1
  <2> QED
    BY <1>1, <1>3, <1>4, <1>7, <1>8, <2>1, <2>2, <2>3, <2>4 DEF HexRead
<1>13. DrawnRead'
  <2>1. CASE parser = "drawn"
    <3>1. Len(text) = GenLen /\ GenLen % 2 = 0 /\ GenLen \in Nat
      BY <1>1, <2>1, ParserAssumption DEF Places, Parsing
    <3>2. pos = 2 * (Len(bytes) + 1)
      BY <1>1, <1>2, <1>4, <3>1
    <3>3. PICK k \in 1 .. GenLen \div 2 : k = Len(bytes) + 1
      BY <1>1, <1>4, <3>1, <3>2
    <3>4. zz \in [1 .. GenLen \div 2 -> 0 .. 255]
      BY <1>1, <2>1 DEF DrawnRead
    <3>5. PICK x \in 0 .. 255 : x = SwapBytes(zz)[k]
      <4>1. /\ Len(zz) = GenLen \div 2 /\ DOMAIN zz = 1 .. GenLen \div 2
            /\ Len(zz) + 1 - k \in 1 .. GenLen \div 2
        BY <3>1, <3>4
      <4> QED
        BY <3>4, <4>1 DEF SwapBytes
    <3>6. tmp = x \div 16 /\ text[pos] = x % 16
      BY <1>1, <2>1, <3>2, <3>3, <3>5 DEF DrawnRead, Parsing
    <3>7. t = x
      BY <1>6, <3>6, TwoDigits
    <3>8. \A j \in 1 .. Len(bytes') : bytes'[j] = SwapBytes(zz)[j]
      <4> TAKE j \in 1 .. Len(bytes')
      <4>1. CASE j = Len(bytes) + 1
        BY <1>4, <1>7, <3>3, <3>5, <3>7, <4>1
      <4>2. CASE j # Len(bytes) + 1
        <5>1. j \in 1 .. Len(bytes)
          BY <1>4, <1>8, <4>2
        <5> QED
          BY <1>1, <1>4, <1>7, <2>1, <5>1 DEF DrawnRead
      <4> QED
        BY <4>1, <4>2
    <3>9. UNCHANGED SwapBytes(zz)
      BY <1>1 DEF SwapBytes
    <3> QED
      BY <1>1, <1>3, <2>1, <3>8, <3>9 DEF DrawnRead, Parsing
  <2> QED
    BY <1>1, <2>1 DEF DrawnRead
<1>14. HexMeansValue'
  BY <1>1, <1>4, <1>5, <1>8 DEF HexMeansValue, Length
<1>15. EcidRead' /\ EcidMeant' /\ GeneratorRead' /\ GeneratorReproduces'
  BY <1>1, <1>9 DEF EcidRead, EcidMeant, GeneratorRead, GeneratorReproduces
<1> QED
  BY <1>10, <1>11, <1>12, <1>13, <1>14, <1>15

LEMMA HexInv == ASSUME Inv, Hex PROVE Inv'
BY HexFails, HexFirst, HexSecond

(* What main reads from the argument's start: the argument, a zero, and    *)
(* enough behind it.                                                       *)
LEMMA MemoryFacts ==
  ASSUME argument \in Seq(Chars), NEW behind \in Behinds
  PROVE  /\ Memory(behind) \in Seq(Chars)
         /\ Len(Memory(behind)) >= GenLen + 2
         /\ \A k \in 1 .. Len(argument) : Memory(behind)[k] = argument[k]
         /\ Memory(behind)[Len(argument) + 1] = Other
<1>1. /\ GenLen \in Nat /\ behind \in Seq(Chars) /\ Len(behind) >= GenLen + 1
      /\ <<Other>> \in Seq(Chars) /\ Len(<<Other>>) = 1
  BY ParserAssumption DEF Chars, Other
<1> DEFINE start == argument \o <<Other>>
<1>2. /\ start \in Seq(Chars) /\ Len(start) = Len(argument) + 1
      /\ \A k \in 1 .. Len(argument) : start[k] = argument[k]
      /\ start[Len(argument) + 1] = Other
  BY <1>1
<1>3. Memory(behind) = start \o behind
  BY DEF Memory
<1> HIDE DEF start
<1>4. /\ start \o behind \in Seq(Chars)
      /\ Len(start \o behind) = Len(start) + Len(behind)
      /\ \A k \in 1 .. Len(start) + Len(behind) :
           (start \o behind)[k] = IF k <= Len(start) THEN start[k] ELSE behind[k - Len(start)]
  <2>1. start \in Seq(Chars) /\ behind \in Seq(Chars)
    BY <1>1, <1>2
  <2> HIDE DEF Chars
  <2> QED
    BY <2>1, ConcatProperties, Zenon
<1>5. Len(start) \in Nat /\ Len(behind) \in Nat /\ Len(argument) \in Nat
  BY <1>1, <1>2
<1>6. \A k \in 1 .. Len(start) : (start \o behind)[k] = start[k]
  BY <1>4, <1>5
<1> QED
  BY <1>1, <1>2, <1>3, <1>4, <1>5, <1>6

LEMMA CheckGeneratorInv == ASSUME Inv, CheckGenerator PROVE Inv'
<1> USE DEF Inv
<1>1. /\ at = "generator" /\ parser = "generator" /\ text = argument /\ pos = 1
      /\ bytes = <<>>
      /\ UNCHANGED <<parser, argument, pos, ret, hexVars, zz>>
  BY DEF CheckGenerator, Types, Places, Parsing, given
<1>2. argument \in Seq(Chars) /\ GenLen \in Nat \ {0}
  BY ParserAssumption DEF Types
<1>3. CASE at' = "refused" /\ UNCHANGED text
  <2>1. Types'
    BY <1>1, <1>3 DEF Types, hexVars
  <2>2. Places'
    BY <1>1, <1>3 DEF Places, Parsing
  <2> QED
    BY <1>1, <1>3, <2>1, <2>2
       DEF EcidRead, HexRead, DrawnRead, EcidMeant, HexMeansValue,
           GeneratorRead, GeneratorReproduces
<1>4. ASSUME NEW behind \in Behinds,
             \A k \in 3 .. GenLen + 2 : Checked(Memory(behind), k),
             at' = "parseHex", text' = SubSeq(Memory(behind), 3, GenLen + 2)
      PROVE  Inv'
  <2>1. PICK n \in Nat : n = GenLen + 2 /\ n >= 2 /\ n - 2 = GenLen
    BY <1>2
  <2>2. PICK m \in Seq(Chars) : m = Memory(behind)
    BY <1>2, MemoryFacts
  <2>3. /\ Len(m) >= n
        /\ \A k \in 1 .. Len(argument) : m[k] = argument[k]
        /\ m[Len(argument) + 1] = Other
    BY <1>2, <2>1, <2>2, MemoryFacts
  <2>4. \A i \in 3 .. n : m[i] \in HexDigits
    BY <1>4, <2>1, <2>2 DEF Checked
  <2>5. /\ text' \in Seq(HexDigits) /\ Len(text') = GenLen
    <3>1. PICK S : S = HexDigits
      OBVIOUS
    <3>2. \A i \in 3 .. n : m[i] \in S
      BY <2>4, <3>1
    <3>3. SubSeq(m, 3, n) \in Seq(S) /\ Len(SubSeq(m, 3, n)) = n - 2
      BY <2>1, <3>2, CutFacts, SMTT(30)
    <3> QED
      BY <1>4, <2>1, <2>2, <3>1, <3>3
  <2>6. text' \in Seq(Chars)
    BY <2>5 DEF HexDigits, Chars, Other
  <2>7. ASSUME Len(argument) >= 2
        PROVE  Len(argument) >= n /\ text' = SubSeq(argument, 3, n)
    <3>1. Len(argument) \in Nat
      BY <1>2
    <3>2. Len(argument) >= n
      <4>1. Len(argument) + 1 \notin 3 .. n
        BY <2>3, <2>4 DEF HexDigits, Other
      <4> QED
        BY <2>1, <2>7, <3>1, <4>1
    <3>3. \A i \in 3 .. n : m[i] = argument[i]
      BY <2>1, <2>3, <3>1, <3>2
    <3>4. SubSeq(m, 3, n) = SubSeq(argument, 3, n)
      BY <1>2, <2>1, <2>3, <3>2, <3>3
    <3> QED
      BY <1>4, <2>1, <2>2, <3>2, <3>4
  <2>8. Types'
    BY <1>1, <1>2, <2>5, <2>6 DEF Types, hexVars
  <2>9. Places'
    BY <1>1, <1>4, <2>1, <2>5, <2>7 DEF Places, Parsing, hexVars
  <2> QED
    BY <1>1, <1>4, <2>8, <2>9
       DEF EcidRead, HexRead, DrawnRead, EcidMeant, HexMeansValue,
           GeneratorRead, GeneratorReproduces
<1> QED
  BY <1>3, <1>4 DEF CheckGenerator

LEMMA MakeGeneratorInv == ASSUME Inv, MakeGenerator PROVE Inv'
<1> USE DEF Inv
<1>1. /\ at = "makegen" /\ parser = "drawn" /\ at' = "parseHex" /\ pos = 1
      /\ bytes = <<>>
      /\ UNCHANGED <<parser, argument, pos, ret, hexVars>>
  BY DEF MakeGenerator, Types, Places, Parsing, given
<1>2. PICK r \in [1 .. GenLen \div 2 -> DrawnBytes] :
        /\ zz' = r
        /\ text' = [k \in 1 .. GenLen |->
                      LET byte == SwapBytes(r)[(k + 1) \div 2]
                      IN IF k % 2 = 1 THEN byte \div 16 ELSE byte % 16]
  BY DEF MakeGenerator
<1>3. PICK h \in Nat : h = GenLen \div 2 /\ GenLen = 2 * h /\ GenLen \in Nat
  BY HalfGenLen
<1>4. r \in Seq(0 .. 255) /\ Len(r) = h
  <2>1. r \in [1 .. h -> 0 .. 255]
    BY <1>2, <1>3, ParserAssumption
  <2> QED
    BY <2>1
<1> DEFINE s == SwapBytes(r)
<1>5. s \in Seq(0 .. 255) /\ Len(s) = h
  BY <1>4, SwapFacts
<1> HIDE DEF s
<1>6. \A k \in 1 .. h : s[k] \in 0 .. 255
  <2>1. \A k \in 1 .. Len(s) : s[k] \in 0 .. 255
    BY <1>5, ElementOfSeq, Zenon
  <2> QED
    BY <1>5, <2>1
<1>7. \A k \in 1 .. h : s[k] \div 16 \in HexDigits /\ s[k] % 16 \in HexDigits
  BY <1>6, TwoDigits
<1>8. text' = [k \in 1 .. GenLen |->
                 IF k % 2 = 1 THEN s[(k + 1) \div 2] \div 16 ELSE s[(k + 1) \div 2] % 16]
  BY <1>2 DEF s
<1>9. \A k \in 1 .. GenLen : (k + 1) \div 2 \in 1 .. h
  BY <1>3
<1>10. text' \in [1 .. GenLen -> HexDigits]
  BY <1>7, <1>8, <1>9
<1>11. text' \in Seq(HexDigits) /\ Len(text') = GenLen
  BY <1>3, <1>10
<1>12. text' \in Seq(Chars)
  BY <1>11 DEF HexDigits, Chars, Other
<1>13. Types'
  BY <1>1, <1>3, <1>11, <1>12 DEF Types, hexVars
<1>14. Places'
  BY <1>1, <1>11 DEF Places, Parsing, hexVars
<1>15. DrawnRead'
  <2>1. zz' \in [1 .. h -> 0 .. 255]
    BY <1>2, <1>3, ParserAssumption
  <2>2. ASSUME NEW k \in 1 .. h
        PROVE  text'[2 * k - 1] = s[k] \div 16 /\ text'[2 * k] = s[k] % 16
    <3>1. /\ 2 * k - 1 \in 1 .. GenLen /\ 2 * k \in 1 .. GenLen
          /\ (2 * k - 1) % 2 = 1 /\ (2 * k) % 2 = 0
          /\ ((2 * k - 1) + 1) \div 2 = k /\ (2 * k + 1) \div 2 = k
      BY <1>3
    <3> QED
      BY <1>8, <3>1
  <2>3. SwapBytes(zz)' = s
    BY <1>2 DEF s, SwapBytes
  <2> QED
    BY <1>1, <1>3, <2>1, <2>2, <2>3 DEF DrawnRead, Parsing
<1>16. /\ EcidRead' /\ HexRead' /\ EcidMeant' /\ HexMeansValue'
       /\ GeneratorRead' /\ GeneratorReproduces'
  BY <1>1
     DEF EcidRead, HexRead, EcidMeant, HexMeansValue, GeneratorRead, GeneratorReproduces
<1> QED
  BY <1>13, <1>14, <1>15, <1>16

LEMMA SwapInv == ASSUME Inv, Swap PROVE Inv'
<1> USE DEF Inv
<1>1. /\ at = "swap" /\ parser \in {"generator", "drawn"} /\ at' = "done"
      /\ bytes' = SwapBytes(bytes) /\ pos = Len(text) + 1
      /\ UNCHANGED <<parser, argument, text, pos, ret, next, tmp, zz>>
  BY DEF Swap, Types, Places, given
<1>2. bytes \in Seq(0 .. 255)
  BY DEF Types
<1>3. /\ bytes' \in Seq(0 .. 255) /\ SwapBytes(bytes)' = bytes
  <2>1. SwapBytes(bytes) \in Seq(0 .. 255) /\ SwapBytes(SwapBytes(bytes)) = bytes
    BY <1>2, SwapFacts
  <2>2. SwapBytes(bytes)' = SwapBytes(SwapBytes(bytes))
    BY <1>1 DEF SwapBytes
  <2> QED
    BY <1>1, <2>1, <2>2
<1>4. Len(bytes) = Length /\ NumberOf(bytes, 256) = NumberOf(text, 16)
  BY <1>1, HexAtEnd
<1>5. Types'
  BY <1>1, <1>3 DEF Types
<1>6. Places'
  BY <1>1 DEF Places, Parsing
<1>7. DrawnRead'
  BY <1>1 DEF DrawnRead, Parsing
<1>8. GeneratorRead'
  <2>1. CASE parser = "generator"
    <3>1. Len(argument) >= 2 => /\ Len(argument) >= GenLen + 2
                                /\ text = SubSeq(argument, 3, GenLen + 2)
      BY <1>1, <2>1 DEF Places
    <3> QED
      BY <1>1, <1>3, <1>4, <2>1, <3>1 DEF GeneratorRead
  <2> QED
    BY <1>1, <2>1 DEF GeneratorRead
<1>9. GeneratorReproduces'
  <2>1. CASE parser = "drawn"
    <3>1. PICK h \in Nat : h = GenLen \div 2 /\ GenLen = 2 * h /\ GenLen \in Nat
      BY HalfGenLen
    <3>2. Len(bytes) = h
      <4>1. Len(text) = GenLen
        BY <1>1, <2>1 DEF Places, Parsing
      <4> QED
        BY <1>4, <3>1, <4>1 DEF Length
    <3>3. zz \in Seq(0 .. 255) /\ Len(zz) = h
      <4>1. zz \in [1 .. h -> 0 .. 255]
        BY <1>1, <2>1, <3>1 DEF DrawnRead
      <4> QED
        BY <3>1, <4>1
    <3>4. SwapBytes(zz) \in Seq(0 .. 255) /\ Len(SwapBytes(zz)) = h
          /\ SwapBytes(SwapBytes(zz)) = zz
      BY <3>3, SwapFacts
    <3>5. bytes = SwapBytes(zz)
      <4>1. \A k \in 1 .. h : bytes[k] = SwapBytes(zz)[k]
        BY <1>1, <2>1, <3>2 DEF DrawnRead
      <4> QED
        BY <1>2, <3>2, <3>4, <4>1
    <3> QED
      BY <1>1, <3>4, <3>5 DEF GeneratorReproduces
  <2> QED
    BY <1>1, <2>1 DEF GeneratorReproduces
<1>10. EcidRead' /\ HexRead' /\ EcidMeant' /\ HexMeansValue'
  BY <1>1 DEF EcidRead, HexRead, EcidMeant, HexMeansValue
<1> QED
  BY <1>5, <1>6, <1>7, <1>8, <1>9, <1>10

LEMMA StutterInv == ASSUME Inv, UNCHANGED vars PROVE Inv'
<1>1. UNCHANGED <<parser, argument, at, text, pos, ret, next, tmp, bytes, zz>>
  BY DEF vars, given, hexVars
<1>2. Types' /\ Places'
  BY <1>1 DEF Inv, Types, Places
<1>3. EcidRead' /\ EcidMeant'
  BY <1>1, SameEcid DEF Inv, EcidRead, EcidMeant
<1>4. HexRead' /\ DrawnRead'
  BY <1>1 DEF Inv, HexRead, DrawnRead, SwapBytes
<1>5. HexMeansValue' /\ GeneratorRead' /\ GeneratorReproduces'
  BY <1>1 DEF Inv, HexMeansValue, Length, GeneratorRead, GeneratorReproduces, SwapBytes
<1> QED
  BY <1>2, <1>3, <1>4, <1>5 DEF Inv

LEMMA NextInv == ASSUME Inv, [Next]_vars PROVE Inv'
BY DecimalInv, StartHexadecimalInv, HexadecimalInv, ReturnEcidInv, StartHexInv, HexInv,
   ReturnHexInv, CheckGeneratorInv, MakeGeneratorInv, SwapInv, StutterInv DEF Next

LEMMA Invariance == Spec => []Inv
<1>1. Inv /\ [Next]_vars => Inv'
  BY NextInv
<1> QED
  BY InitInv, <1>1, PTL DEF Spec

---------------------------------------------------------------------------
(* The theorems.                                                           *)

(* Whatever is given for -e, parseECID yields the value main.c promises:   *)
(* the decimal or the hexadecimal number modulo 2^64, or the error.        *)
THEOREM EcidIsRead == Spec => []EcidMeant
<1>1. Inv => EcidMeant
  BY DEF Inv
<1> QED
  BY Invariance, <1>1, PTL

(* parseHex reads a nonce of any length whole or refuses it, and stays in  *)
(* the memory its caller was told to allocate.                             *)
THEOREM NonceIsRead == Spec => []HexMeansValue
<1>1. Inv => HexMeansValue
  BY DEF Inv
<1> QED
  BY Invariance, <1>1, PTL

(* No generator main accepts fails in parseHex, whose result is not looked *)
(* at there. Of a text of two characters and more its bytes are the number *)
(* the GenLen digits behind the two spell, and there are that many; what   *)
(* follows them is cut off.                                                *)
THEOREM GeneratorIsRead == Spec => []GeneratorRead
<1>1. Inv => GeneratorRead
  BY DEF Inv
<1> QED
  BY Invariance, <1>1, PTL

(* Whatever bytes are drawn, the generator written for them gives the same *)
(* bytes to the run that reads it.                                         *)
THEOREM SavedGeneratorWorks == Spec => []GeneratorReproduces
<1>1. Inv => GeneratorReproduces
  BY DEF Inv
<1> QED
  BY Invariance, <1>1, PTL

---------------------------------------------------------------------------
(* Every parser ends.                                                      *)

CharsLeft == Len(text) + 1 - pos

(* How many steps can still be taken. The decimal loop may hand the whole  *)
(* text to the hexadecimal one.                                            *)
StepsLeft ==
  CASE at = "decimal"                -> CharsLeft + Len(text) + 3
    [] at = "hexadecimal"            -> CharsLeft + 1
    [] at \in {"generator", "makegen"} -> GenLen + 5
    [] at = "parseHex"               -> CharsLeft + 3
    [] at = "hex"                    -> CharsLeft + 2
    [] at = "swap"                   -> 1
    [] OTHER                         -> 0

(* No text makes a parser run on, or return to decimal digits: each takes  *)
(* a number of steps bounded by the length of its text.                    *)
THEOREM StepsAreBounded == Spec => [](StepsLeft \in Nat) /\ [][StepsLeft' < StepsLeft]_vars
<1>1. Inv => StepsLeft \in Nat
  <2> SUFFICES ASSUME Inv PROVE StepsLeft \in Nat
    OBVIOUS
  <2>1. Len(text) \in Nat /\ pos \in 1 .. Len(text) + 1 /\ GenLen \in Nat
    BY ParserAssumption DEF Inv, Types
  <2>2. CharsLeft \in Nat
    BY <2>1 DEF CharsLeft
  <2> QED
    BY <2>1, <2>2 DEF StepsLeft
<1>2. Inv /\ [Next]_vars => [StepsLeft' < StepsLeft]_vars
  <2> SUFFICES ASSUME Inv, Next PROVE StepsLeft' < StepsLeft
    OBVIOUS
  <2>1. /\ Len(text) \in Nat /\ pos \in 1 .. Len(text) + 1 /\ GenLen \in Nat
        /\ at \in {"generator", "makegen", "parseHex"} => pos = 1
    BY ParserAssumption DEF Inv, Types, Places
  <2>2. Inv'
    BY NextInv
  <2> USE DEF StepsLeft, CharsLeft
  <2>3. CASE Decimal \/ StartHexadecimal
    BY <2>1, <2>3 DEF Decimal, StartHexadecimal, More
  <2>4. CASE Hexadecimal
    <3>1. at = "hexadecimal" /\ at' \in {"hexadecimal", "done"} /\ pos' = pos + 1
          /\ text' = text /\ pos <= Len(text)
      BY <2>4 DEF Hexadecimal, More
    <3> QED
      BY <2>1, <3>1
  <2>5. CASE ReturnEcid
    BY <2>1, <2>5 DEF ReturnEcid
  <2>6. CASE StartHex
    BY <2>1, <2>6 DEF StartHex
  <2>7. CASE Hex
    <3>1. at = "hex" /\ at' \in {"hex", "failed"} /\ pos' = pos + 1
          /\ text' = text /\ pos <= Len(text)
      BY <2>7 DEF Hex, More
    <3> QED
      BY <2>1, <3>1
  <2>8. CASE ReturnHex
    BY <2>1, <2>8 DEF ReturnHex
  <2>9. CASE CheckGenerator \/ MakeGenerator
    <3>1. /\ at \in {"generator", "makegen"} /\ pos' = pos /\ pos = 1
          /\ at' \in {"refused", "parseHex"}
      BY <2>1, <2>9 DEF CheckGenerator, MakeGenerator
    <3>2. at' = "parseHex" => Len(text') = GenLen
      <4>1. parser \in {"generator", "drawn"} /\ UNCHANGED parser
        BY <2>9, <3>1 DEF CheckGenerator, MakeGenerator, Inv, Types, Places, Parsing, given
      <4> QED
        BY <2>2, <4>1 DEF Inv, Places, Parsing
    <3> QED
      BY <2>1, <3>1, <3>2
  <2>10. CASE Swap
    BY <2>1, <2>10 DEF Swap
  <2> QED
    BY <2>3, <2>4, <2>5, <2>6, <2>7, <2>8, <2>9, <2>10 DEF Next
<1> QED
  BY <1>1, <1>2, Invariance, PTL DEF Spec
=============================================================================
