------------------------- MODULE VersionCheck_proof -------------------------
(***************************************************************************)
(* Proofs about VersionCheck, for URL arrays of every length: its          *)
(* invariants, and that it implements SigningVerdict.                      *)
(*                                                                         *)
(* The invariants are consequences of Inv, which adds what the loop keeps  *)
(* between the array position, the history and the two result variables.   *)
(***************************************************************************)
EXTENDS VersionCheck, TLAPS

(* What the loop has done: everything before u, nothing after.             *)
Position ==
  /\ pc = "entry" => u = 1 /\ cursigned = 0 /\ isSigned = -1
  /\ pc \in {"loop", "check"} => ~exempt
  /\ pc = "check" => u <= Len(urls)
  /\ pc = "done" /\ ~exempt => u = Len(urls) + 1
  /\ \A j \in 1 .. Len(urls) : (j < u) <=> (outcome[j] # "pending")

(* The two result variables against the outcomes so far.                   *)
Answer ==
  /\ ~(pc = "done" /\ exempt) => isSigned = Verdict!VerdictOf(outcome)
  /\ cursigned = 1 => isSigned = 1
  /\ pc = "check" /\ cursigned = 1 => urls[u].isDupulicate

(* Manifests are in hand up to u only, and the cache is closed by then.    *)
Cache ==
  /\ \A j \in 1 .. Len(urls) : origin[j] # "none" =>
       j < u \/ (j = u /\ pc = "check")
  /\ \A j \in 1 .. Len(urls) : origin[j] # "none" => nocache = 1 \/ pc = "done"

Inv ==
  /\ TypeOK
  /\ Position
  /\ Answer
  /\ Cache
  /\ SkipsAreHarmless
  /\ OneCachedManifest
  /\ NocacheRestored

---------------------------------------------------------------------------
(* The answer after outcome e of the history is settled as r.              *)
LEMMA VerdictOfSettled ==
  ASSUME NEW D, NEW o \in [D -> Outcomes], NEW e \in D, NEW r, NEW p,
         o[e] = "pending", p = [o EXCEPT ![e] = r]
  PROVE  Verdict!VerdictOf(p) =
           IF r = "signed" THEN 1
           ELSE IF r = "unsigned" /\ Verdict!VerdictOf(o) = -1 THEN 0
           ELSE Verdict!VerdictOf(o)
<1>1. DOMAIN o = D /\ DOMAIN p = D
  OBVIOUS
<1>2. /\ p[e] = r
      /\ \A d \in D : d # e => p[d] = o[d]
  OBVIOUS
<1>3. (\E d \in DOMAIN p : p[d] = "signed")
        <=> (r = "signed" \/ \E d \in DOMAIN o : o[d] = "signed")
  BY <1>1, <1>2
<1>4. (\E d \in DOMAIN p : p[d] = "unsigned")
        <=> (r = "unsigned" \/ \E d \in DOMAIN o : o[d] = "unsigned")
  BY <1>1, <1>2
<1> QED
  BY <1>3, <1>4 DEF Verdict!VerdictOf

LEMMA InitInv == Init => Inv
<1> SUFFICES ASSUME Init PROVE Inv
  OBVIOUS
<1>1. urls \in Seq([isDupulicate : BOOLEAN])
  BY UrlListsAssumption DEF Init
<1>2. Len(urls) \in Nat
  BY <1>1
<1>3. TypeOK
  BY <1>1, <1>2 DEF Init, TypeOK, Outcomes, Origins
<1>4. Position
  BY <1>2 DEF Init, Position
<1>5. Answer
  BY <1>2 DEF Init, Answer, Verdict!VerdictOf
<1> QED
  BY <1>3, <1>4, <1>5 DEF Init, Inv, Cache, SkipsAreHarmless, OneCachedManifest, NocacheRestored

---------------------------------------------------------------------------
(* The invariant is kept. The three ways an iteration ends write one       *)
(* outcome and move on; they share this lemma.                             *)

LEMMA SettledPosition ==
  ASSUME Inv, pc \in {"loop", "check"}, u <= Len(urls),
         NEW r \in Outcomes, r # "pending",
         outcome' = [outcome EXCEPT ![u] = r], u' = u + 1, pc' = "loop",
         UNCHANGED <<urls, exempt>>
  PROVE  /\ Position'
         /\ outcome' \in [1 .. Len(urls) -> Outcomes]
         /\ u' \in 1 .. Len(urls') + 1
         /\ outcome[u] = "pending"
         /\ u \in 1 .. Len(urls)
<1> USE DEF Inv, TypeOK
<1>1. Len(urls) \in Nat /\ u \in 1 .. Len(urls)
  OBVIOUS
<1>2. outcome[u] = "pending"
  BY <1>1 DEF Position
<1>3. Position'
  BY <1>1 DEF Position
<1> QED
  BY <1>1, <1>2, <1>3

LEMMA SettledAnswer ==
  ASSUME Inv, NEW r, u \in 1 .. Len(urls), outcome[u] = "pending",
         outcome' = [outcome EXCEPT ![u] = r]
  PROVE  Verdict!VerdictOf(outcome') =
           IF r = "signed" THEN 1
           ELSE IF r = "unsigned" /\ Verdict!VerdictOf(outcome) = -1 THEN 0
           ELSE Verdict!VerdictOf(outcome)
<1>1. outcome \in [1 .. Len(urls) -> Outcomes]
  BY DEF Inv, TypeOK
<1>2. outcome' = [outcome EXCEPT ![u] = r]
  OBVIOUS
<1> QED
  BY <1>1, <1>2, VerdictOfSettled, ZenonT(60)

LEMMA NextInv == Inv /\ [Next]_vars => Inv'
<1> SUFFICES ASSUME Inv, [Next]_vars PROVE Inv'
  OBVIOUS
<1>0. Len(urls) \in Nat
  BY DEF Inv, TypeOK
<1>1. CASE ReturnExempt
  BY <1>1 DEF ReturnExempt, Inv, TypeOK, Position, Answer, Cache, SkipsAreHarmless,
              OneCachedManifest, NocacheRestored
<1>2. CASE NoUrls
  BY <1>0, <1>2 DEF NoUrls, Inv, TypeOK, Position, Answer, Cache, SkipsAreHarmless,
                    OneCachedManifest, NocacheRestored
<1>3. CASE EnterLoop
  BY <1>0, <1>3 DEF EnterLoop, Inv, TypeOK, Position, Answer, Cache, SkipsAreHarmless,
                    OneCachedManifest, NocacheRestored
<1>4. CASE FetchFails
  <2> USE <1>4 DEF FetchFails
  <2>1. /\ Position'
        /\ outcome' \in [1 .. Len(urls) -> Outcomes]
        /\ u' \in 1 .. Len(urls') + 1
        /\ outcome[u] = "pending"
        /\ u \in 1 .. Len(urls)
    BY SettledPosition DEF Outcomes
  <2>2. TypeOK'
    BY <2>1 DEF Inv, TypeOK
  <2>3. Answer'
    <3>1. outcome' = [outcome EXCEPT ![u] = "unfetched"]
      OBVIOUS
    <3>2. Verdict!VerdictOf(outcome') = Verdict!VerdictOf(outcome)
      BY <2>1, <3>1, SettledAnswer
    <3> QED
      BY <3>2 DEF Inv, Answer, TypeOK
  <2>4. Cache' /\ OneCachedManifest' /\ NocacheRestored'
    BY <2>1 DEF Inv, Cache, OneCachedManifest, NocacheRestored, TypeOK
  <2>5. SkipsAreHarmless'
    BY <2>1 DEF Inv, SkipsAreHarmless, TypeOK
  <2> QED
    BY <2>1, <2>2, <2>3, <2>4, <2>5 DEF Inv
<1>5. ASSUME NEW from \in {"cache", "network"}, FetchManifest(from) PROVE Inv'
  <2> USE <1>5 DEF FetchManifest, ForbidCache
  <2>1. u \in 1 .. Len(urls)
    BY <1>0 DEF Inv, TypeOK
  <2>2. TypeOK'
    BY <2>1 DEF Inv, TypeOK, Origins
  <2>3. Position'
    BY <1>0, <2>1 DEF Inv, Position, TypeOK
  <2>4. Answer'
    BY <2>1 DEF Inv, Answer, TypeOK
  <2>5. Cache'
    BY <2>1 DEF Inv, Cache, TypeOK
  <2>6. OneCachedManifest'
    <3> SUFFICES ASSUME NEW i \in 1 .. Len(urls), NEW j \in 1 .. Len(urls),
                        i < j, origin'[i] # "none"
                 PROVE  origin'[j] # "cache"
      BY DEF OneCachedManifest
    <3>1. CASE j = u
      <4>1. origin[i] # "none" /\ nocache = 1
        BY <2>1, <3>1 DEF Inv, TypeOK, Cache
      <4> QED
        BY <2>1, <3>1, <4>1 DEF Inv, TypeOK
    <3>2. CASE j # u
      BY <2>1, <3>2, <1>0 DEF Inv, TypeOK, Cache, OneCachedManifest
    <3> QED
      BY <3>1, <3>2
  <2>7. SkipsAreHarmless' /\ NocacheRestored'
    BY DEF Inv, SkipsAreHarmless, NocacheRestored
  <2> QED
    BY <2>2, <2>3, <2>4, <2>5, <2>6, <2>7 DEF Inv
<1>6. CASE SkipDuplicate
  <2> USE <1>6 DEF SkipDuplicate
  <2>1. /\ Position'
        /\ outcome' \in [1 .. Len(urls) -> Outcomes]
        /\ u' \in 1 .. Len(urls') + 1
        /\ outcome[u] = "pending"
        /\ u \in 1 .. Len(urls)
    BY SettledPosition DEF Outcomes, Inv, Position
  <2>2. TypeOK'
    BY <2>1 DEF Inv, TypeOK
  <2>3. Answer'
    <3>1. outcome' = [outcome EXCEPT ![u] = "skipped"]
      OBVIOUS
    <3>2. Verdict!VerdictOf(outcome') = Verdict!VerdictOf(outcome)
      BY <2>1, <3>1, SettledAnswer
    <3> QED
      BY <3>2 DEF Inv, Answer, TypeOK
  <2>4. Cache' /\ OneCachedManifest' /\ NocacheRestored'
    BY <2>1 DEF Inv, Cache, OneCachedManifest, NocacheRestored, TypeOK
  <2>5. SkipsAreHarmless'
    <3>1. urls[u].isDupulicate /\ Verdict!VerdictOf(outcome) = 1
      BY DEF Inv, Answer, TypeOK, Position
    <3>2. PICK k \in 1 .. Len(urls) : outcome[k] = "signed"
      BY <3>1 DEF Verdict!VerdictOf, Inv, TypeOK
    <3>3. k \in 1 .. u - 1
      BY <3>2, <2>1, <1>0 DEF Inv, Position
    <3> QED
      BY <2>1, <3>1, <3>2, <3>3 DEF Inv, SkipsAreHarmless, TypeOK
  <2> QED
    BY <2>1, <2>2, <2>3, <2>4, <2>5 DEF Inv
<1>7. ASSUME NEW one \in {-1, 0, 1}, CheckManifest(one) PROVE Inv'
  <2> DEFINE r == IF one < 0 THEN "failed" ELSE IF one > 0 THEN "signed" ELSE "unsigned"
  <2> USE <1>7 DEF CheckManifest, SettleUrl
  <2>0. outcome' = [outcome EXCEPT ![u] = r] /\ r \in Outcomes \ {"pending"}
    BY DEF Outcomes
  <2>1. /\ Position'
        /\ outcome' \in [1 .. Len(urls) -> Outcomes]
        /\ u' \in 1 .. Len(urls') + 1
        /\ outcome[u] = "pending"
        /\ u \in 1 .. Len(urls)
    BY <2>0, SettledPosition DEF Inv, Position
  <2>2. TypeOK'
    BY <2>1 DEF Inv, TypeOK
  <2>3. Answer'
    <3>1. Verdict!VerdictOf(outcome') =
            IF one > 0 THEN 1
            ELSE IF one = 0 /\ Verdict!VerdictOf(outcome) = -1 THEN 0
            ELSE Verdict!VerdictOf(outcome)
      <4>1. Verdict!VerdictOf(outcome') =
              IF r = "signed" THEN 1
              ELSE IF r = "unsigned" /\ Verdict!VerdictOf(outcome) = -1 THEN 0
              ELSE Verdict!VerdictOf(outcome)
        BY <2>0, <2>1, SettledAnswer
      <4> QED
        BY <4>1
    <3>2. isSigned = Verdict!VerdictOf(outcome)
      BY DEF Inv, Answer
    <3>3. isSigned' = Verdict!VerdictOf(outcome')
      BY <3>1, <3>2 DEF Inv, TypeOK
    <3>4. cursigned' = 1 => isSigned' = 1
      BY DEF Inv, TypeOK
    <3> QED
      BY <3>3, <3>4 DEF Answer
  <2>4. Cache' /\ OneCachedManifest' /\ NocacheRestored'
    BY <2>1 DEF Inv, Cache, OneCachedManifest, NocacheRestored, TypeOK
  <2>5. SkipsAreHarmless'
    BY <2>0, <2>1 DEF Inv, SkipsAreHarmless, TypeOK
  <2> QED
    BY <2>1, <2>2, <2>3, <2>4, <2>5 DEF Inv
<1>8. CASE Finish
  BY <1>0, <1>8 DEF Finish, Inv, TypeOK, Position, Answer, Cache, SkipsAreHarmless,
                    OneCachedManifest, NocacheRestored
<1>9. CASE UNCHANGED vars
  BY <1>9 DEF vars, Inv, TypeOK, Position, Answer, Cache, SkipsAreHarmless,
              OneCachedManifest, NocacheRestored
<1> QED
  BY <1>1, <1>2, <1>3, <1>4, <1>5, <1>6, <1>7, <1>8, <1>9 DEF Next

---------------------------------------------------------------------------
(* The theorems.                                                           *)

LEMMA Invariance == Spec => []Inv
<1>1. Init => Inv
  BY InitInv
<1>2. Inv /\ [Next]_vars => Inv'
  BY NextInv
<1> QED
  BY <1>1, <1>2, PTL DEF Spec

(* Every variable keeps its type, for arrays of every length.              *)
THEOREM TypeCorrect == Spec => []TypeOK
BY Invariance, PTL DEF Inv

(* A URL is only skipped when an earlier one was found signed.             *)
THEOREM SkipsHarmless == Spec => []SkipsAreHarmless
BY Invariance, PTL DEF Inv

(* Only the first manifest of a run may come from the cache.               *)
THEOREM CacheOnce == Spec => []OneCachedManifest
BY Invariance, PTL DEF Inv

(* The caller's nocache survives the call.                                 *)
THEOREM NocacheKept == Spec => []NocacheRestored
BY Invariance, PTL DEF Inv

(* A later URL never takes back an answer.                                 *)
THEOREM AnswerMonotone == Spec => AnswerOnlyImproves
<1>1. Inv /\ [Next]_vars => [isSigned' >= isSigned]_vars
  <2> SUFFICES ASSUME Inv, Next PROVE isSigned' >= isSigned
    OBVIOUS
  <2>1. isSigned \in {-1, 0, 1}
    BY DEF Inv, TypeOK
  <2> QED
    BY <2>1 DEF Next, ReturnExempt, NoUrls, EnterLoop, FetchFails, FetchManifest,
                SkipDuplicate, CheckManifest, SettleUrl, Finish
<1> QED
  BY <1>1, Invariance, PTL DEF Spec, AnswerOnlyImproves

(* Each step of the loop settles one manifest, announces the answer, or    *)
(* changes nothing the abstract check can see.                             *)
THEOREM Implementation == Spec => ImplementsVerdict
<1> DEFINE verdict == IF pc = "done" THEN isSigned ELSE -2
<1>1. Init => Verdict!Init
  BY DEF Init, Verdict!Init, Verdict!Undecided
<1>2. Inv /\ [Next]_vars => [Verdict!Next]_(Verdict!vars)
  <2> SUFFICES ASSUME Inv, [Next]_vars
               PROVE  Verdict!Next \/ UNCHANGED <<outcome, exempt, verdict>>
    BY DEF Verdict!vars
  <2>0. Len(urls) \in Nat /\ DOMAIN outcome = 1 .. Len(urls)
    BY DEF Inv, TypeOK
  <2>1. CASE ReturnExempt
    BY <2>1 DEF ReturnExempt, Verdict!Next, Verdict!AnnounceExempt, Verdict!Undecided
  <2>2. CASE NoUrls \/ Finish
    <3>1. \A e \in DOMAIN outcome : outcome[e] # "pending"
      BY <2>0, <2>2 DEF NoUrls, Finish, Inv, TypeOK, Position
    <3>2. isSigned = Verdict!VerdictOf(outcome) /\ ~exempt
      BY <2>2 DEF NoUrls, Finish, Inv, Answer, Position
    <3>3. Verdict!Announce
      BY <2>2, <3>1, <3>2 DEF NoUrls, Finish, Verdict!Announce, Verdict!Undecided
    <3> QED
      BY <3>3 DEF Verdict!Next
  <2>3. CASE EnterLoop
    BY <2>3 DEF EnterLoop
  <2>4. ASSUME NEW r \in Outcomes, r # "pending", u <= Len(urls),
               pc \in {"loop", "check"}, pc' = "loop",
               outcome' = [outcome EXCEPT ![u] = r], UNCHANGED exempt,
               r = "skipped" => isSigned = 1
        PROVE  Verdict!Next
    <3>1. u \in DOMAIN outcome /\ outcome[u] = "pending"
      BY <2>0, <2>4 DEF Inv, TypeOK, Position
    <3>2. ~exempt /\ isSigned = Verdict!VerdictOf(outcome)
      BY <2>4 DEF Inv, Position, Answer
    <3>3. r \in Verdict!Results
      BY <2>4 DEF Outcomes, Verdict!Results
    <3>4. Verdict!Settle(u)
      BY <2>4, <3>1, <3>2, <3>3 DEF Verdict!Settle, Verdict!Undecided
    <3> QED
      BY <3>1, <3>4 DEF Verdict!Next
  <2>5. CASE FetchFails
    BY <2>4, <2>5 DEF FetchFails, Outcomes
  <2>6. ASSUME NEW from \in {"cache", "network"}, FetchManifest(from)
        PROVE  UNCHANGED <<outcome, exempt, verdict>>
    BY <2>6 DEF FetchManifest
  <2>7. CASE SkipDuplicate
    <3>1. isSigned = 1 /\ u <= Len(urls)
      BY <2>7 DEF SkipDuplicate, Inv, TypeOK, Answer, Position
    <3> QED
      BY <2>4, <2>7, <3>1 DEF SkipDuplicate, Outcomes
  <2>8. ASSUME NEW one \in {-1, 0, 1}, CheckManifest(one) PROVE Verdict!Next
    <3> DEFINE r == IF one < 0 THEN "failed" ELSE IF one > 0 THEN "signed" ELSE "unsigned"
    <3>1. /\ pc = "check" /\ pc' = "loop"
          /\ outcome' = [outcome EXCEPT ![u] = r]
          /\ UNCHANGED exempt
      BY <2>8 DEF CheckManifest
    <3>2. u <= Len(urls)
      BY <3>1 DEF Inv, Position
    <3>3. r \in Outcomes /\ r # "pending" /\ r # "skipped"
      BY DEF Outcomes
    <3> HIDE DEF r
    <3> QED
      BY <2>4, <3>1, <3>2, <3>3
  <2>9. CASE UNCHANGED vars
    BY <2>9 DEF vars
  <2> QED
    BY <2>1, <2>2, <2>3, <2>5, <2>6, <2>7, <2>8, <2>9 DEF Next
<1> QED
  BY <1>1, <1>2, Invariance, PTL DEF Spec, ImplementsVerdict, Verdict!Spec

---------------------------------------------------------------------------
(* The loop ends.                                                          *)

(* How many steps it can still take.                                       *)
StepsLeft ==
  CASE pc = "entry" -> 2 * Len(urls) + 2
    [] pc = "loop"  -> 2 * (Len(urls) + 1 - u) + 1
    [] pc = "check" -> 2 * (Len(urls) + 1 - u)
    [] pc = "done"  -> 0

(* Whatever the downloads and the server answer, a call takes at most two  *)
(* steps for each URL and two more.                                        *)
THEOREM StepsAreBounded == Spec => [](StepsLeft \in Nat) /\ [][StepsLeft' < StepsLeft]_vars
<1>1. Inv => StepsLeft \in Nat
  <2> SUFFICES ASSUME Inv PROVE StepsLeft \in Nat
    OBVIOUS
  <2>1. Len(urls) \in Nat /\ u \in 1 .. Len(urls) + 1 /\ pc \in {"entry", "loop", "check", "done"}
    BY DEF Inv, TypeOK
  <2> QED
    BY <2>1 DEF StepsLeft
<1>2. Inv /\ [Next]_vars => [StepsLeft' < StepsLeft]_vars
  <2> SUFFICES ASSUME Inv, Next PROVE StepsLeft' < StepsLeft
    OBVIOUS
  <2>1. /\ Len(urls) \in Nat /\ u \in 1 .. Len(urls) + 1
        /\ pc = "entry" => u = 1
        /\ pc = "check" => u <= Len(urls)
    BY DEF Inv, TypeOK, Position
  <2>2. CASE ReturnExempt \/ NoUrls \/ EnterLoop
    BY <2>1, <2>2 DEF ReturnExempt, NoUrls, EnterLoop, StepsLeft
  <2>3. CASE FetchFails
    BY <2>1, <2>3 DEF FetchFails, StepsLeft
  <2>4. ASSUME NEW from \in {"cache", "network"}, FetchManifest(from)
        PROVE  StepsLeft' < StepsLeft
    BY <2>1, <2>4 DEF FetchManifest, StepsLeft
  <2>5. CASE SkipDuplicate
    BY <2>1, <2>5 DEF SkipDuplicate, StepsLeft
  <2>6. ASSUME NEW one \in {-1, 0, 1}, CheckManifest(one) PROVE StepsLeft' < StepsLeft
    <3>1. pc = "check" /\ pc' = "loop" /\ u' = u + 1 /\ urls' = urls
      BY <2>6 DEF CheckManifest
    <3> QED
      BY <2>1, <3>1 DEF StepsLeft
  <2>7. CASE Finish
    BY <2>1, <2>7 DEF Finish, StepsLeft
  <2> QED
    BY <2>2, <2>3, <2>4, <2>5, <2>6, <2>7 DEF Next
<1> QED
  BY <1>1, <1>2, Invariance, PTL DEF Spec
=============================================================================
