-------------------------- MODULE VersionOrder_proof --------------------------
(***************************************************************************)
(* Proofs about VersionOrder, for versions and listings of every length:   *)
(* -l picks a version none is later than, and -2 prints each version once, *)
(* in falling order.                                                       *)
(*                                                                         *)
(* Both rest on what cmpfunc decides: CmpLater and CmpDecides tie it to    *)
(* the order Later, which is defined without it.                           *)
(***************************************************************************)
EXTENDS VersionOrder, NaturalsInduction, WellFoundedInduction, TLAPS

VersionsOf(s) == {s[k].version : k \in DOMAIN s}

(* "noPublic" is not among the places: no listing takes main there.        *)
Types ==
  /\ at \in {"list", "walk", "print", "picked", "empty", "printed", "crashed"}
  /\ firmwares \in Seq(Entries)
  /\ purpose \in {"latest", "print"}
  /\ versions \in Seq(Texts)
  /\ printed \in Seq(Texts)
  /\ at = "walk" => purpose = "latest"
  /\ at \in {"print", "printed"} => purpose = "print"

(* What -l walks over is the whole list, sorted; marked texts are wanted.  *)
WalksAll ==
  at = "walk" =>
    /\ versions # <<>>
    /\ Sorted(versions)
    /\ VersionsOf(versions) = VersionsOf(firmwares)
    /\ \A k \in DOMAIN versions : versions[k].marked => useBeta

(* What is printed comes before what is left, but for a text equal to the  *)
(* last one printed.                                                       *)
PrintsOn ==
  at \in {"print", "printed"} =>
    /\ Sorted(versions)
    /\ VersionsOf(printed) \cup VersionsOf(versions) = VersionsOf(firmwares)
    /\ \A k \in DOMAIN versions : ~versions[k].marked
    /\ \A k \in DOMAIN printed : ~printed[k].marked
    /\ version = IF printed = <<>> THEN NoText ELSE printed[Len(printed)]
    /\ \A j \in DOMAIN printed : \A k \in 1 .. j - 1 :
         Later(printed[k].version, printed[j].version)
    /\ \A k \in DOMAIN printed : \A j \in DOMAIN versions :
         \/ k = Len(printed) /\ versions[j] = printed[k]
         \/ Later(printed[k].version, versions[j].version)
    /\ at = "printed" => versions = <<>>

(* Before the list nothing is printed or picked.                           *)
Reset == at = "list" => printed = <<>> /\ version = NoText

Inv ==
  /\ Types
  /\ Reset
  /\ WalksAll
  /\ PrintsOn
  /\ NewestPicked

---------------------------------------------------------------------------
(* cmpfunc against the order of versions.                                  *)

LEMMA NatMin ==
  ASSUME NEW S \in SUBSET Nat, S # {}
  PROVE  Min(S) \in S /\ \A y \in S : Min(S) <= y
<1> DEFINE R == {ss \in Nat \X Nat : ss[1] < ss[2]}
<1>1. IsWellFoundedOn(R, Nat)
  BY NatLessThanWellFounded DEF OpToRel
<1>2. \A x, y \in Nat : y < x => <<y, x>> \in R
  OBVIOUS
<1> HIDE DEF R
<1>3. PICK x \in S : \A y \in S : ~(<<y, x>> \in R)
  BY <1>1, WFMin, Zenon
<1>4. ASSUME NEW y \in S PROVE x <= y
  <2>1. ~(y < x)
    BY <1>2, <1>3, Zenon
  <2> QED
    BY <2>1
<1> QED
  BY <1>4 DEF Min

(* The first place where two versions part, which cmpfunc looks for.       *)
Parts(v, w) == {k \in DOMAIN v \cap DOMAIN w : v[k] # w[k]}

LEMMA FirstPart ==
  ASSUME NEW v \in Seq(Nat), NEW w \in Seq(Nat), Parts(v, w) # {}
  PROVE  /\ Min(Parts(v, w)) \in DOMAIN v \cap DOMAIN w
         /\ v[Min(Parts(v, w))] # w[Min(Parts(v, w))]
         /\ \A j \in 1 .. Min(Parts(v, w)) - 1 : v[j] = w[j]
<1> DEFINE m == Min(Parts(v, w))
<1>1. Parts(v, w) \in SUBSET Nat
  BY DEF Parts
<1>2. m \in Parts(v, w) /\ \A y \in Parts(v, w) : m <= y
  BY <1>1, NatMin
<1> HIDE DEF m
<1>3. m \in DOMAIN v \cap DOMAIN w /\ v[m] # w[m]
  BY <1>2 DEF Parts
<1>4. ASSUME NEW j \in 1 .. m - 1 PROVE v[j] = w[j]
  <2>1. j \in DOMAIN v \cap DOMAIN w /\ ~(m <= j)
    BY <1>3
  <2> QED
    BY <1>2, <2>1 DEF Parts
<1> QED
  BY <1>3, <1>4 DEF m

(* Three cases of cmpfunc, without the mark.                               *)
LEMMA CmpCases ==
  ASSUME NEW a \in [version : Seq(Nat), marked : BOOLEAN],
         NEW b \in [version : Seq(Nat), marked : BOOLEAN]
  PROVE  LET v == a.version
             w == b.version
             m == Min(Parts(v, w))
         IN /\ Parts(v, w) # {} => Cmp(a, b) = w[m] - v[m]
            /\ Parts(v, w) = {} /\ Len(v) < Len(w) => Cmp(a, b) = 1
            /\ Parts(v, w) = {} /\ Len(v) > Len(w) => Cmp(a, b) = -1
BY DEF Cmp, Parts

(* A text with a later version is never placed behind.                     *)
LEMMA CmpLater ==
  ASSUME NEW a \in [version : Seq(Nat), marked : BOOLEAN],
         NEW b \in [version : Seq(Nat), marked : BOOLEAN],
         Later(a.version, b.version)
  PROVE  ~(Cmp(a, b) >= 0)
<1> DEFINE v == a.version
           w == b.version
           m == Min(Parts(v, w))
<1>0. v \in Seq(Nat) /\ w \in Seq(Nat)
  OBVIOUS
<1>1. CASE \E k \in DOMAIN v \cap DOMAIN w : v[k] > w[k] /\ \A j \in 1 .. k - 1 : v[j] = w[j]
  <2>1. PICK k \in DOMAIN v \cap DOMAIN w : v[k] > w[k] /\ \A j \in 1 .. k - 1 : v[j] = w[j]
    BY <1>1
  <2>2. k \in Parts(v, w)
    BY <1>0, <2>1 DEF Parts
  <2>3. /\ m \in DOMAIN v \cap DOMAIN w
        /\ v[m] # w[m]
        /\ \A j \in 1 .. m - 1 : v[j] = w[j]
    BY <1>0, <2>2, FirstPart
  <2>4. Cmp(a, b) = w[m] - v[m]
    BY <2>2, CmpCases
  <2> HIDE DEF m, v, w
  <2>5. m = k
    <3>1. m \in Nat /\ k \in Nat /\ m > 0 /\ k > 0
      BY <1>0, <2>1, <2>3
    <3>2. ~(m < k)
      BY <2>1, <2>3, <3>1
    <3>3. v[k] # w[k]
      BY <1>0, <2>1
    <3>4. ~(k < m)
      BY <2>3, <3>1, <3>3
    <3> QED
      BY <3>1, <3>2, <3>4
  <2>6. v[k] \in Nat /\ w[k] \in Nat
    BY <1>0, <2>1
  <2> QED
    BY <2>1, <2>4, <2>5, <2>6
<1>2. CASE Len(v) > Len(w) /\ \A j \in DOMAIN w : v[j] = w[j]
  <2>1. Parts(v, w) = {}
    BY <1>2 DEF Parts
  <2>2. Cmp(a, b) = -1
    BY <1>2, <2>1, CmpCases
  <2> QED
    BY <2>2
<1> QED
  BY <1>1, <1>2 DEF Later

(* Of two unmarked texts the one placed first is later, or they are equal. *)
LEMMA CmpDecides ==
  ASSUME NEW a \in [version : Seq(Nat), marked : BOOLEAN],
         NEW b \in [version : Seq(Nat), marked : BOOLEAN],
         Cmp(a, b) >= 0
  PROVE  a.version = b.version \/ Later(b.version, a.version)
<1> DEFINE v == a.version
           w == b.version
           m == Min(Parts(v, w))
<1>0. v \in Seq(Nat) /\ w \in Seq(Nat)
  OBVIOUS
<1>1. CASE Parts(v, w) # {}
  <2>1. /\ m \in DOMAIN v \cap DOMAIN w
        /\ v[m] # w[m]
        /\ \A j \in 1 .. m - 1 : v[j] = w[j]
    BY <1>0, <1>1, FirstPart
  <2>2. Cmp(a, b) = w[m] - v[m]
    BY <1>1, CmpCases
  <2> HIDE DEF m, v, w
  <2>3. v[m] \in Nat /\ w[m] \in Nat
    BY <1>0, <2>1
  <2>4. w[m] > v[m]
    BY <2>1, <2>2, <2>3
  <2>5. Later(w, v)
    BY <2>1, <2>4 DEF Later
  <2> QED
    BY <2>5 DEF v, w
<1>2. CASE Parts(v, w) = {}
  <2>1. \A j \in DOMAIN v \cap DOMAIN w : v[j] = w[j]
    BY <1>2 DEF Parts
  <2>2. ~(Len(v) > Len(w))
    <3> SUFFICES ASSUME Len(v) > Len(w) PROVE FALSE
      OBVIOUS
    <3>1. Cmp(a, b) = -1
      BY <1>2, CmpCases
    <3> QED
      BY <3>1
  <2>3. CASE Len(v) < Len(w)
    <3>1. \A j \in DOMAIN v : w[j] = v[j]
      BY <1>0, <2>1, <2>3
    <3> QED
      BY <1>0, <2>3, <3>1 DEF Later
  <2>4. CASE Len(v) = Len(w)
    <3>1. v = w
      BY <1>0, <2>1, <2>4
    <3> QED
      BY <3>1
  <2> QED
    BY <1>0, <2>2, <2>3, <2>4
<1> QED
  BY <1>1, <1>2

LEMMA TextsFit == ASSUME NEW t \in Texts
                  PROVE  /\ t \in [version : Seq(Nat), marked : BOOLEAN]
                         /\ t.version \in Versions /\ t # NoText
BY VersionAssumption DEF Texts, NoText

LEMMA SameText ==
  ASSUME NEW a \in Texts, NEW b \in Texts, ~a.marked, ~b.marked, a.version = b.version
  PROVE  a = b
BY DEF Texts

(* A text ahead in a sorted list is no earlier than one behind.            *)
LEMMA SortedFalls ==
  ASSUME NEW s \in Seq(Texts), Sorted(s), NEW j \in DOMAIN s, NEW k \in 1 .. j
  PROVE  ~Later(s[j].version, s[k].version)
<1>1. k \in DOMAIN s /\ s[j] \in Texts /\ s[k] \in Texts
  OBVIOUS
<1>2. CASE k = j
  <2>1. s[j].version \in Seq(Nat)
    BY <1>1, TextsFit
  <2> QED
    BY <1>2, <2>1 DEF Later
<1>3. CASE k # j
  <2>1. Cmp(s[j], s[k]) >= 0
    BY <1>3 DEF Sorted
  <2> QED
    BY <1>1, <2>1, CmpLater, TextsFit
<1> QED
  BY <1>2, <1>3

LEMMA TailSorted ==
  ASSUME NEW s \in Seq(Texts), s # <<>>, Sorted(s) PROVE Sorted(Tail(s))
<1>1. \A j \in DOMAIN Tail(s) : j + 1 \in DOMAIN s /\ Tail(s)[j] = s[j + 1] /\ j \in Nat
  OBVIOUS
<1>2. ASSUME NEW j \in DOMAIN Tail(s), NEW k \in 1 .. j - 1
      PROVE  Cmp(Tail(s)[j], Tail(s)[k]) >= 0
  <2>1. k \in DOMAIN Tail(s) /\ k + 1 \in 1 .. (j + 1) - 1
    BY <1>1
  <2>2. Cmp(s[j + 1], s[k + 1]) >= 0
    BY <1>1, <2>1 DEF Sorted
  <2> QED
    BY <1>1, <2>1, <2>2
<1> QED
  BY <1>2 DEF Sorted

---------------------------------------------------------------------------
(* The steps.                                                              *)

LEMMA InitInv == Init => Inv
BY VersionAssumption DEF Init, Inv, Types, Reset, WalksAll, PrintsOn, NewestPicked

LEMMA TextOf ==
  ASSUME NEW e \in Entries, purpose \in {"latest", "print"}
  PROVE  /\ Text(e) \in Texts /\ Text(e).version = e.version
         /\ Text(e).marked => purpose = "latest" /\ useBeta
BY DEF Text, Texts, Entries, ParamBeta

LEMMA ListVersionsInv == ASSUME Inv, ListVersions PROVE Inv'
<1> USE DEF Inv
<1>1. PICK p \in Bijection(DOMAIN firmwares, DOMAIN firmwares) :
        versions' = [k \in DOMAIN firmwares |-> Text(firmwares[p[k]])]
  BY DEF ListVersions
<1>2. /\ at = "list" /\ Sorted(versions)' /\ UNCHANGED <<given, version, printed>>
      /\ at' = IF firmwares # <<>> THEN IF purpose = "latest" THEN "walk" ELSE "print"
               ELSE IF purpose = "latest" THEN "empty" ELSE "crashed"
  BY DEF ListVersions
<1>3. /\ p \in [DOMAIN firmwares -> DOMAIN firmwares]
      /\ \A k \in DOMAIN firmwares : \E i \in DOMAIN firmwares : p[i] = k
  BY DEF Bijection, Injection, Surjection
<1>4. firmwares \in Seq(Entries) /\ DOMAIN firmwares = 1 .. Len(firmwares)
  BY DEF Types
<1>5. \A k \in DOMAIN firmwares :
        /\ firmwares[k] \in Entries
        /\ Text(firmwares[k]) \in Texts
        /\ Text(firmwares[k]).version = firmwares[k].version
        /\ Text(firmwares[k]).marked => purpose = "latest" /\ useBeta
  BY <1>4, TextOf DEF Types
<1>6. /\ versions' \in Seq(Texts)
      /\ DOMAIN versions' = DOMAIN firmwares
      /\ \A k \in DOMAIN versions' : versions'[k].marked => purpose = "latest" /\ useBeta
  <2>1. \A k \in DOMAIN firmwares : p[k] \in DOMAIN firmwares
    BY <1>3
  <2>2. \A k \in DOMAIN firmwares :
          /\ Text(firmwares[p[k]]) \in Texts
          /\ Text(firmwares[p[k]]).marked => purpose = "latest" /\ useBeta
    BY <1>5, <2>1, Zenon
  <2>3. versions' \in [DOMAIN firmwares -> Texts] /\ DOMAIN versions' = DOMAIN firmwares
    BY <1>1, <2>2, Zenon
  <2>4. versions' \in Seq(Texts)
    <3>1. Len(firmwares) \in Nat /\ versions' \in [1 .. Len(firmwares) -> Texts]
      BY <1>4, <2>3
    <3> QED
      BY <3>1
  <2>5. \A k \in DOMAIN firmwares : versions'[k] = Text(firmwares[p[k]])
    BY <1>1, Zenon
  <2> QED
    BY <2>2, <2>3, <2>4, <2>5
<1>7. VersionsOf(versions') = VersionsOf(firmwares)
  <2>1. \A k \in DOMAIN firmwares :
          p[k] \in DOMAIN firmwares /\ versions'[k].version = firmwares[p[k]].version
    <3> TAKE k \in DOMAIN firmwares
    <3>1. p[k] \in DOMAIN firmwares
      BY <1>3
    <3>2. versions'[k] = Text(firmwares[p[k]])
      BY <1>1, Zenon
    <3> QED
      BY <1>5, <3>1, <3>2, Zenon
  <2>2. \A k \in DOMAIN firmwares :
          \E i \in DOMAIN firmwares : versions'[i].version = firmwares[k].version
    <3> TAKE k \in DOMAIN firmwares
    <3>1. PICK i \in DOMAIN firmwares : p[i] = k
      BY <1>3
    <3>2. versions'[i].version = firmwares[k].version
      BY <2>1, <3>1
    <3> QED
      BY <3>2
  <2>3. ASSUME NEW w \in VersionsOf(versions') PROVE w \in VersionsOf(firmwares)
    <3>1. PICK k \in DOMAIN versions' : w = versions'[k].version
      BY <2>3, Zenon DEF VersionsOf
    <3>2. p[k] \in DOMAIN firmwares /\ w = firmwares[p[k]].version
      BY <1>6, <2>1, <3>1, Zenon
    <3> QED
      BY <3>2, Zenon DEF VersionsOf
  <2>4. ASSUME NEW w \in VersionsOf(firmwares) PROVE w \in VersionsOf(versions')
    <3>1. PICK k \in DOMAIN firmwares : w = firmwares[k].version
      BY <2>4, Zenon DEF VersionsOf
    <3>2. PICK i \in DOMAIN versions' : versions'[i].version = w
      BY <1>6, <2>2, <3>1, Zenon
    <3> QED
      BY <3>2, Zenon DEF VersionsOf
  <2> QED
    BY <2>3, <2>4
<1>8. Types' /\ Reset'
  BY <1>2, <1>6 DEF Types, Reset, given
<1>9. WalksAll'
  <2> SUFFICES ASSUME at' = "walk"
               PROVE  /\ versions' # <<>>
                      /\ Sorted(versions)'
                      /\ VersionsOf(versions') = VersionsOf(firmwares)
                      /\ \A k \in DOMAIN versions' : versions'[k].marked => useBeta
    BY <1>2 DEF WalksAll, given
  <2>1. firmwares # <<>>
    BY <1>2
  <2> QED
    BY <1>2, <1>4, <1>6, <1>7, <2>1
<1>10. PrintsOn'
  <2> SUFFICES ASSUME at' \in {"print", "printed"} PROVE PrintsOn'
    BY DEF PrintsOn
  <2>1. at' = "print" /\ purpose = "print"
    BY <1>2 DEF Types
  <2>2. printed' = <<>> /\ version' = NoText
    BY <1>2 DEF Reset
  <2>3. firmwares' = firmwares /\ VersionsOf(printed') = {}
    BY <1>2, <2>2 DEF given, VersionsOf
  <2>4. VersionsOf(printed') \cup VersionsOf(versions') = VersionsOf(firmwares')
    BY <1>7, <2>3
  <2>5. \A k \in DOMAIN versions' : ~versions'[k].marked
    BY <1>6, <2>1
  <2> QED
    BY <1>2, <2>1, <2>2, <2>4, <2>5 DEF PrintsOn
<1>11. NewestPicked'
  BY <1>2 DEF NewestPicked
<1> QED
  BY <1>8, <1>9, <1>10, <1>11

(* A marked text is in the list only if betas are wanted: the first text   *)
(* is taken, and nothing behind it is later.                               *)
LEMMA WalkInv == ASSUME Inv, Walk PROVE Inv'
<1> USE DEF Inv
<1>1. /\ at = "walk" /\ purpose = "latest" /\ versions \in Seq(Texts)
      /\ versions # <<>> /\ Sorted(versions)
      /\ VersionsOf(versions) = VersionsOf(firmwares)
      /\ \A k \in DOMAIN versions : versions[k].marked => useBeta
  BY DEF Walk, Types, WalksAll
<1>2. 1 \in DOMAIN versions /\ Head(versions) = versions[1] /\ versions[1] \in Texts
  BY <1>1
<1>3. /\ version' = [versions[1] EXCEPT !.marked = FALSE] /\ at' = "picked"
      /\ UNCHANGED <<versions, given, printed>>
  BY <1>1, <1>2 DEF Walk
<1>4. Types' /\ Reset' /\ WalksAll' /\ PrintsOn'
  BY <1>3 DEF Types, Reset, WalksAll, PrintsOn, given
<1>5. /\ version'.version = versions[1].version
      /\ version' = [version |-> versions[1].version, marked |-> FALSE]
  BY <1>2, <1>3 DEF Texts
<1>6. versions[1].version \in VersionsOf(firmwares)
  BY <1>1, <1>2 DEF VersionsOf
<1>7. PICK i \in DOMAIN firmwares : firmwares[i].version = versions[1].version
  BY <1>6 DEF VersionsOf
<1>8. ASSUME NEW e \in Listed PROVE ~Later(e.version, versions[1].version)
  <2>1. PICK k \in DOMAIN firmwares : e = firmwares[k]
    BY DEF Listed
  <2>2. e.version \in VersionsOf(versions)
    BY <1>1, <2>1 DEF VersionsOf
  <2>3. PICK j \in DOMAIN versions : e.version = versions[j].version
    BY <2>2 DEF VersionsOf
  <2>4. 1 \in 1 .. j
    BY <1>1, <2>3
  <2> QED
    BY <1>1, <2>3, <2>4, SortedFalls
<1>9. NewestPicked'
  <2>1. Listed' = Listed
    BY <1>3 DEF Listed, given
  <2>2. firmwares[i] \in Listed
    BY DEF Listed
  <2> QED
    BY <1>5, <1>7, <1>8, <2>1, <2>2 DEF NewestPicked
<1> QED
  BY <1>4, <1>9

(* The text taken off the list is equal to the last one printed or earlier *)
(* than all of them, and no earlier than what is left.                     *)
LEMMA PrintOneInv == ASSUME Inv, PrintOne PROVE Inv'
<1> DEFINE t == Head(versions)
           n == Len(printed)
<1> USE DEF Inv
<1>1. /\ at = "print" /\ at' = "print" /\ versions # <<>>
      /\ printed' = IF t = version THEN printed ELSE Append(printed, t)
      /\ version' = t /\ versions' = Tail(versions)
      /\ purpose = "print" /\ UNCHANGED given
  BY DEF PrintOne, Types
<1>2. /\ versions \in Seq(Texts) /\ printed \in Seq(Texts) /\ Sorted(versions)
      /\ VersionsOf(printed) \cup VersionsOf(versions) = VersionsOf(firmwares)
      /\ \A k \in DOMAIN versions : ~versions[k].marked
      /\ \A k \in DOMAIN printed : ~printed[k].marked
      /\ version = IF printed = <<>> THEN NoText ELSE printed[n]
      /\ \A j \in DOMAIN printed : \A k \in 1 .. j - 1 :
           Later(printed[k].version, printed[j].version)
      /\ \A k \in DOMAIN printed : \A j \in DOMAIN versions :
           \/ k = n /\ versions[j] = printed[k]
           \/ Later(printed[k].version, versions[j].version)
  BY <1>1 DEF Types, PrintsOn
<1>3. /\ 1 \in DOMAIN versions /\ t = versions[1] /\ t \in Texts /\ ~t.marked
      /\ versions' \in Seq(Texts) /\ n \in Nat
      /\ \A j \in DOMAIN versions' :
           /\ j + 1 \in DOMAIN versions /\ j \in Nat \ {0}
           /\ versions'[j] = versions[j + 1]
      /\ \A i \in DOMAIN versions : i = 1 \/ (i - 1 \in DOMAIN versions' /\ i = (i - 1) + 1)
  BY <1>1, <1>2
<1>4. Sorted(versions)'
  BY <1>1, <1>2, TailSorted
<1>5. \A j \in DOMAIN versions' : ~versions'[j].marked
  BY <1>2, <1>3
<1> HIDE DEF t
<1>6. ASSUME NEW j \in DOMAIN versions'
      PROVE  versions'[j] = t \/ Later(t.version, versions'[j].version)
  <2>1. Cmp(versions[j + 1], versions[1]) >= 0
    <3>1. j + 1 \in DOMAIN versions /\ 1 \in 1 .. (j + 1) - 1
      BY <1>3
    <3> QED
      BY <1>2, <3>1 DEF Sorted
  <2>2. versions[j + 1] \in Texts /\ ~versions[j + 1].marked
    BY <1>2, <1>3
  <2> QED
    BY <1>3, <2>1, <2>2, CmpDecides, TextsFit, SameText
<1>7. VersionsOf(versions) = VersionsOf(versions') \cup {t.version}
  BY <1>3 DEF VersionsOf
<1>8. CASE t = version
  <2>1. printed' = printed /\ printed # <<>> /\ n > 0 /\ t = printed[n] /\ n \in DOMAIN printed
    BY <1>1, <1>2, <1>3, <1>8, TextsFit
  <2>2. VersionsOf(printed') \cup VersionsOf(versions') = VersionsOf(firmwares)
    BY <1>2, <1>7, <2>1 DEF VersionsOf
  <2>3. \A k \in DOMAIN printed' : \A j \in DOMAIN versions' :
           \/ k = n /\ versions'[j] = printed'[k]
           \/ Later(printed'[k].version, versions'[j].version)
    BY <1>2, <1>3, <2>1
  <2> QED
    BY <1>1, <1>2, <1>3, <1>4, <1>5, <1>8, <2>1, <2>2, <2>3
    DEF Types, Reset, WalksAll, PrintsOn, NewestPicked, given
<1>9. CASE t # version
  <2>1. /\ printed' = Append(printed, t) /\ printed' \in Seq(Texts)
        /\ Len(printed') = n + 1 /\ printed'[n + 1] = t /\ printed' # <<>>
        /\ \A k \in DOMAIN printed : printed'[k] = printed[k] /\ k \in DOMAIN printed'
        /\ \A k \in DOMAIN printed' : k = n + 1 \/ k \in DOMAIN printed
        /\ DOMAIN printed = 1 .. n /\ DOMAIN printed' = 1 .. n + 1
    BY <1>1, <1>2, <1>3, <1>9
  <2>2. VersionsOf(printed') = VersionsOf(printed) \cup {t.version}
    BY <2>1 DEF VersionsOf
  <2>3. VersionsOf(printed') \cup VersionsOf(versions') = VersionsOf(firmwares)
    BY <1>2, <1>7, <2>2
  <2>4. \A k \in DOMAIN printed : Later(printed[k].version, t.version)
    <3>1. ASSUME NEW k \in DOMAIN printed, k = n, versions[1] = printed[k] PROVE FALSE
      BY <1>2, <1>3, <1>9, <3>1, <2>1
    <3> QED
      BY <1>2, <1>3, <3>1
  <2>5. \A j \in DOMAIN printed' : \A k \in 1 .. j - 1 :
           Later(printed'[k].version, printed'[j].version)
    <3> SUFFICES ASSUME NEW j \in DOMAIN printed', NEW k \in 1 .. j - 1
                 PROVE  Later(printed'[k].version, printed'[j].version)
      OBVIOUS
    <3>1. k \in DOMAIN printed
      BY <1>3, <2>1
    <3>2. CASE j = n + 1
      BY <2>1, <2>4, <3>1, <3>2
    <3>3. CASE j \in DOMAIN printed
      BY <1>2, <2>1, <3>1, <3>3
    <3> QED
      BY <2>1, <3>2, <3>3
  <2>6. \A k \in DOMAIN printed' : \A j \in DOMAIN versions' :
           \/ k = n + 1 /\ versions'[j] = printed'[k]
           \/ Later(printed'[k].version, versions'[j].version)
    <3> SUFFICES ASSUME NEW k \in DOMAIN printed', NEW j \in DOMAIN versions'
                 PROVE  \/ k = n + 1 /\ versions'[j] = printed'[k]
                        \/ Later(printed'[k].version, versions'[j].version)
      OBVIOUS
    <3>1. CASE k = n + 1
      BY <1>6, <2>1, <3>1
    <3>2. CASE k \in DOMAIN printed
      <4>1. Later(printed[k].version, t.version)
        BY <2>4, <3>2
      <4>2. versions'[j] # printed[k]
        <5> SUFFICES ASSUME versions'[j] = printed[k] PROVE FALSE
          OBVIOUS
        <5>1. Later(versions[j + 1].version, versions[1].version)
          BY <1>3, <4>1
        <5>2. j + 1 \in DOMAIN versions /\ 1 \in 1 .. j + 1
          BY <1>3
        <5> QED
          BY <1>2, <5>1, <5>2, SortedFalls
      <4>3. \/ k = n /\ versions[j + 1] = printed[k]
            \/ Later(printed[k].version, versions[j + 1].version)
        BY <1>2, <1>3, <3>2
      <4> QED
        BY <1>3, <2>1, <3>2, <4>2, <4>3
    <3> QED
      BY <2>1, <3>1, <3>2
  <2>7. \A k \in DOMAIN printed' : ~printed'[k].marked
    BY <1>2, <1>3, <2>1
  <2>8. PrintsOn'
    BY <1>1, <1>4, <1>5, <2>1, <2>3, <2>5, <2>6, <2>7 DEF PrintsOn, given
  <2> QED
    BY <1>1, <1>3, <2>1, <2>8 DEF Types, Reset, WalksAll, NewestPicked, given
<1> QED
  BY <1>8, <1>9

LEMMA PrintDoneInv == ASSUME Inv, PrintDone PROVE Inv'
BY DEF PrintDone, Inv, Types, Reset, WalksAll, PrintsOn, NewestPicked, given

LEMMA StutterInv == ASSUME Inv, UNCHANGED vars PROVE Inv'
BY DEF vars, given, Inv, Types, Reset, WalksAll, PrintsOn, NewestPicked, Listed

LEMMA Invariance == Spec => []Inv
<1>1. Inv /\ [Next]_vars => Inv'
  BY ListVersionsInv, WalkInv, PrintOneInv, PrintDoneInv, StutterInv DEF Next
<1> QED
  BY InitInv, <1>1, PTL DEF Spec

---------------------------------------------------------------------------
(* The theorems.                                                           *)

(* -l takes a version of the listing, without "[B]", that no entry is      *)
(* later than: 10.0 after 9.3, whatever the order of the listing (cmpfunc, *)
(* main's walk).                                                           *)
THEOREM PicksNewest == Spec => []NewestPicked
<1>1. Inv => NewestPicked
  BY DEF Inv
<1> QED
  BY <1>1, Invariance, PTL

(* -2 prints every version of the listing once, in falling order, though   *)
(* only neighbours are compared (printListOfiOSForDevice).                 *)
THEOREM EachPrintedOnce == Spec => []PrintsEachOnce
<1>1. Inv => PrintsEachOnce
  <2> SUFFICES ASSUME Inv, at = "printed"
               PROVE  /\ {t.version : t \in Range(printed)} = {e.version : e \in Listed}
                      /\ \A j \in DOMAIN printed : \A k \in 1 .. j - 1 :
                           Later(printed[k].version, printed[j].version)
    BY DEF PrintsEachOnce
  <2>1. VersionsOf(printed) = VersionsOf(firmwares)
    <3>1. /\ versions = <<>>
          /\ VersionsOf(printed) \cup VersionsOf(versions) = VersionsOf(firmwares)
      BY DEF Inv, PrintsOn
    <3>2. VersionsOf(versions) = {}
      BY <3>1 DEF VersionsOf
    <3> QED
      BY <3>1, <3>2
  <2>2. {t.version : t \in Range(printed)} = VersionsOf(printed)
    BY DEF Range, VersionsOf
  <2>3. {e.version : e \in Listed} = VersionsOf(firmwares)
    BY DEF Listed, VersionsOf
  <2>4. \A j \in DOMAIN printed : \A k \in 1 .. j - 1 :
          Later(printed[k].version, printed[j].version)
    BY DEF Inv, PrintsOn
  <2> QED
    BY <2>1, <2>2, <2>3, <2>4
<1> QED
  BY <1>1, Invariance, PTL

---------------------------------------------------------------------------
(* The loops end.                                                          *)

StepsLeft ==
  CASE at = "list"             -> Len(firmwares) + 2
    [] at \in {"walk", "print"} -> Len(versions) + 1
    [] OTHER                   -> 0

(* Both loops take each text of the list at most once.                     *)
THEOREM StepsAreBounded == Spec => [](StepsLeft \in Nat) /\ [][StepsLeft' < StepsLeft]_vars
<1>1. Inv => StepsLeft \in Nat
  <2> SUFFICES ASSUME Inv PROVE StepsLeft \in Nat
    OBVIOUS
  <2>1. Len(firmwares) \in Nat /\ Len(versions) \in Nat
    BY DEF Inv, Types
  <2> QED
    BY <2>1 DEF StepsLeft
<1>2. Inv /\ [Next]_vars => [StepsLeft' < StepsLeft]_vars
  <2> SUFFICES ASSUME Inv, Next PROVE StepsLeft' < StepsLeft
    OBVIOUS
  <2>0. /\ Len(firmwares) \in Nat /\ versions \in Seq(Texts)
        /\ at = "walk" => versions # <<>>
    BY DEF Inv, Types, WalksAll
  <2>1. CASE ListVersions
    <3>1. at = "list" /\ at' \in {"walk", "print", "empty", "crashed"}
      BY <2>1 DEF ListVersions
    <3>2. PICK text : versions' = [k \in DOMAIN firmwares |-> text[k]]
      <4>1. PICK p : versions' = [k \in DOMAIN firmwares |-> Text(firmwares[p[k]])]
        BY <2>1 DEF ListVersions
      <4> QED
        BY <4>1
    <3>3. Len(versions') = Len(firmwares)
      <4>1. firmwares \in Seq(Entries)
        BY DEF Inv, Types
      <4> QED
        BY <2>0, <3>2, <4>1
    <3> QED
      BY <2>0, <3>1, <3>3 DEF StepsLeft
  <2>2. CASE Walk
    <3>1. /\ at = "walk" /\ at' \in {"walk", "noPublic", "picked"}
          /\ at' = "walk" => versions' = Tail(versions)
      BY <2>2 DEF Walk
    <3>2. Len(Tail(versions)) = Len(versions) - 1 /\ Len(versions) \in Nat \ {0}
      BY <2>0, <3>1
    <3> QED
      BY <3>1, <3>2 DEF StepsLeft
  <2>3. CASE PrintOne
    <3>1. at = "print" /\ at' = at /\ versions # <<>> /\ versions' = Tail(versions)
      BY <2>3 DEF PrintOne
    <3>2. Len(Tail(versions)) = Len(versions) - 1 /\ Len(versions) \in Nat \ {0}
      BY <2>0, <3>1
    <3> QED
      BY <3>1, <3>2 DEF StepsLeft
  <2>4. CASE PrintDone
    <3>1. at = "print" /\ at' = "printed" /\ Len(versions) \in Nat
      BY <2>0, <2>4 DEF PrintDone
    <3> QED
      BY <3>1 DEF StepsLeft
  <2> QED
    BY <2>1, <2>2, <2>3, <2>4 DEF Next
<1> QED
  BY <1>1, <1>2, Invariance, PTL DEF Spec
=============================================================================
