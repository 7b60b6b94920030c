------------------------ MODULE ManifestCache_proof ------------------------
(***************************************************************************)
(* Proofs about ManifestCache, for any builds and URL arrays of every      *)
(* length: each URL is asked about with its own manifest, no manifest is   *)
(* used for another build, the cache keeps the last one of each build, and *)
(* with the downloads hidden this is the loop of VersionCheck.             *)
(*                                                                         *)
(* Nothing of VersionCheck's own invariant can be cited through its        *)
(* instance: Place restates what is needed of it.                          *)
(***************************************************************************)
EXTENDS ManifestCache, TLAPS

(* The manifests that belong to build b.                                   *)
Own(b) == {Absent, Broken, Old(b)} \cup {Of(i) : i \in {k \in DOMAIN builds : builds[k] = b}}

Types ==
  /\ builds \in Seq(Builds)
  /\ Len(urls) = Len(builds)
  /\ fetch \in {"idle", "cached", "plain", "archive", "fresh"}
  /\ u \in 1 .. Len(builds) + 1
  /\ DOMAIN cache = Builds
  /\ DOMAIN got = DOMAIN builds
  /\ DOMAIN origin = DOMAIN builds

(* Where the loop stands while getBuildManifest runs, what it has in hand  *)
(* by then, and that the cache is read only while nothing is in hand.      *)
Place ==
  /\ fetch # "idle" => pc = "loop" /\ u <= Len(builds)
  /\ pc = "check" => u <= Len(builds)
  /\ pc \in {"entry", "loop"} => \A j \in u .. Len(builds) : got[j] = Absent
  /\ pc = "check" => \A j \in u + 1 .. Len(builds) : got[j] = Absent
  /\ pc \in {"loop", "check"} /\ nocache = 0 => \A j \in DOMAIN got : got[j] = Absent
  /\ pc = "entry" => u = 1
  /\ fetch = "cached" => nocache = 0

(* A download that succeeded is what the file holds.                       *)
Fetched == fetch = "fresh" => cache[File] = Of(u) \/ File \in touched

(* CacheHoldsLast, at every moment.                                        *)
HoldsLast ==
  \A j \in DOMAIN got :
    got[j] # Absent /\ builds[j] \notin touched
      /\ (\A k \in j + 1 .. Len(builds) : builds[k] # builds[j]) =>
        cache[builds[j]] = got[j]

Inv ==
  /\ Types
  /\ Place
  /\ Fetched
  /\ HoldsLast
  /\ RightBuild
  /\ OwnManifest
---------------------------------------------------------------------------
(* The values are told apart.                                              *)

LEMMA Tags ==
  /\ Broken # Absent
  /\ \A b : Old(b) # Absent /\ Old(b) # Broken
  /\ \A i : Of(i) # Absent /\ Of(i) # Broken
BY DEF Absent, Broken, Old, Of

LEMMA MarkedLength == ASSUME NEW bs \in Seq(Builds) PROVE Len(Marked(bs)) = Len(bs)
<1> DEFINE marks == [isDupulicate : BOOLEAN]
<1>1. Marked(bs) \in [1 .. Len(bs) -> marks]
  BY DEF Marked
<1> HIDE DEF marks
<1>2. Len(bs) \in Nat
  OBVIOUS
<1> QED
  BY <1>1, <1>2

LEMMA InitInv == Init => Inv
<1> SUFFICES ASSUME Init PROVE Inv
  OBVIOUS
<1>1. builds \in Seq(Builds) /\ Len(urls) = Len(builds)
  BY BuildListsAssumption, MarkedLength DEF Init
<1>2. Types
  BY <1>1 DEF Types, Init, Loop!Init
<1>3. Place /\ Fetched
  BY <1>1 DEF Place, Fetched, Init, Loop!Init
<1>4. HoldsLast /\ OwnManifest /\ RightBuild
  BY <1>1 DEF HoldsLast, OwnManifest, RightBuild, Init
<1> QED
  BY <1>2, <1>3, <1>4 DEF Inv
---------------------------------------------------------------------------
(* The steps of getBuildManifest.                                          *)

(* Steps that read the files or write none.                                *)
LEMMA QuietInv ==
  ASSUME Inv, OpenCached \/ StartOta \/ PlainFails PROVE Inv'
<1> USE DEF Inv, OpenCached, StartOta, PlainFails, Calling, loopVars
<1>1. Types' /\ Place'
  BY DEF Types, Place, MayUseCache
<1>2. Fetched'
  BY DEF Fetched
<1>3. HoldsLast' /\ OwnManifest' /\ RightBuild'
  BY DEF HoldsLast, OwnManifest, RightBuild
<1> QED
  BY <1>1, <1>2, <1>3

(* The file of the current URL is written: no earlier URL is the last of   *)
(* its build, and nothing is in hand for this one or a later one.          *)
LEMMA WriteKeeps ==
  ASSUME Inv, pc = "loop", u <= Len(builds),
         NEW v \in {Broken, Of(u)}, cache' = [cache EXCEPT ![File] = v],
         UNCHANGED <<builds, got, touched, origin>>
  PROVE  HoldsLast' /\ OwnManifest' /\ RightBuild'
<1> USE DEF Inv
<1>1. /\ File \in Builds
      /\ u \in DOMAIN builds
      /\ cache'[File] = v
      /\ \A b \in Builds \ {File} : cache'[b] = cache[b]
  BY DEF Types, File
<1>2. OwnManifest'
  BY DEF OwnManifest
<1>3. RightBuild'
  BY <1>1 DEF RightBuild, File, Types
<1>4. HoldsLast'
  BY <1>1 DEF HoldsLast, Place, Types, File
<1> QED
  BY <1>2, <1>3, <1>4

LEMMA StartPlainInv == ASSUME Inv, StartPlain PROVE Inv'
<1> USE DEF Inv, StartPlain, Calling, loopVars
<1>1. Types' /\ Place' /\ Fetched'
  BY DEF Types, Place, Fetched
<1>2. HoldsLast' /\ OwnManifest' /\ RightBuild'
  BY WriteKeeps DEF Types
<1> QED
  BY <1>1, <1>2

LEMMA CompleteInv ==
  ASSUME Inv, Complete("plain") \/ Complete("archive") PROVE Inv'
<1> USE DEF Inv, Complete, loopVars
<1>1. Types' /\ Place'
  BY DEF Types, Place
<1>2. Fetched'
  BY DEF Types, Place, Fetched, File
<1>3. HoldsLast' /\ OwnManifest' /\ RightBuild'
  BY WriteKeeps DEF Place
<1> QED
  BY <1>1, <1>2, <1>3

LEMMA ArchiveFailsInv == ASSUME Inv, ArchiveFails PROVE Inv'
<1> USE DEF Inv, ArchiveFails, Loop!FetchFails
<1>1. Types' /\ Place' /\ Fetched'
  BY DEF Types, Place, Fetched
<1>2. CASE cache' = cache
  BY <1>1, <1>2 DEF HoldsLast, OwnManifest, RightBuild
<1>3. CASE cache' # cache
  BY <1>1, <1>3, WriteKeeps DEF Place
<1> QED
  BY <1>2, <1>3

(* What is read is of the right build; from a fresh file it is the URL's   *)
(* own, from a cached one it is the first manifest in hand.                *)
LEMMA LoadInv == ASSUME Inv, Load PROVE Inv'
<1> DEFINE from == IF fetch = "cached" THEN "cache" ELSE "network"
<1> USE DEF Inv
<1>1. /\ fetch \in {"cached", "fresh"} /\ fetch' = "idle"
      /\ got' = [got EXCEPT ![u] = cache[File]]
      /\ origin' = [origin EXCEPT ![u] = from]
      /\ nocache' = 1 /\ pc' = "check"
      /\ UNCHANGED <<builds, touched, cache, u, urls>>
  BY DEF Load, Loop!FetchManifest, Loop!ForbidCache
<1> HIDE DEF from
<1>2. /\ u \in DOMAIN got /\ u \in DOMAIN origin
      /\ got'[u] = cache[File] /\ origin'[u] = from
      /\ \A j \in DOMAIN got \ {u} : got'[j] = got[j] /\ origin'[j] = origin[j]
      /\ \A j \in DOMAIN got : j > u => got[j] = Absent
      /\ File = builds[u] /\ File \in Builds
  BY <1>1 DEF Types, Place, File
<1>3. Types' /\ Place' /\ Fetched'
  BY <1>1, <1>2 DEF Types, Place, Fetched
<1>4. HoldsLast'
  BY <1>1, <1>2 DEF HoldsLast, Types
<1>5. RightBuild'
  BY <1>1, <1>2 DEF RightBuild, Types
<1>6. OwnManifest'
  <2> SUFFICES ASSUME NEW j \in DOMAIN got, got'[j] \notin {Absent, Of(j)}
               PROVE  \/ origin'[j] = "cache" /\ \A i \in 1 .. j - 1 : got'[i] = Absent
                      \/ builds[j] \in touched
    BY <1>1 DEF OwnManifest
  <2>1. CASE j # u
    BY <1>2, <2>1 DEF OwnManifest, Types
  <2>2. CASE j = u /\ fetch = "fresh"
    BY <1>2, <2>2 DEF Fetched
  <2>3. CASE j = u /\ fetch = "cached"
    <3>1. origin'[j] = "cache"
      BY <1>2, <2>3 DEF from
    <3>2. \A i \in 1 .. j - 1 : got'[i] = Absent
      BY <1>2, <2>3 DEF Place, Types
    <3> QED
      BY <3>1, <3>2
  <2> QED
    BY <1>1, <2>1, <2>2, <2>3
<1> QED
  BY <1>3, <1>4, <1>5, <1>6

---------------------------------------------------------------------------
(* The loop around it, and other runs.                                     *)

LEMMA LoopStepInv == ASSUME Inv, LoopStep PROVE Inv'
<1> USE DEF Inv, LoopStep
<1>1. UNCHANGED <<builds, cache, got, touched, urls, origin, fetch>>
  BY DEF Loop!ReturnExempt, Loop!NoUrls, Loop!EnterLoop, Loop!SkipDuplicate,
         Loop!CheckManifest, Loop!Finish
<1>2. Types' /\ Place'
  <2>1. CASE Loop!ReturnExempt \/ Loop!NoUrls \/ Loop!EnterLoop \/ Loop!Finish
    BY <1>1, <2>1
    DEF Types, Place, Loop!ReturnExempt, Loop!NoUrls, Loop!EnterLoop, Loop!Finish
  <2>2. CASE Loop!SkipDuplicate \/ \E one \in {-1, 0, 1} : Loop!CheckManifest(one)
    <3>1. pc = "check" /\ pc' = "loop" /\ u' = u + 1 /\ nocache' = nocache
      BY <2>2 DEF Loop!SkipDuplicate, Loop!CheckManifest
    <3> QED
      BY <1>1, <3>1 DEF Types, Place
  <2> QED
    BY <2>1, <2>2
<1>3. Fetched' /\ HoldsLast' /\ RightBuild' /\ OwnManifest'
  BY <1>1 DEF Fetched, HoldsLast, RightBuild, OwnManifest
<1> QED
  BY <1>2, <1>3

(* Another run's step is excused by touched.                               *)
LEMMA OtherRunInv == ASSUME Inv, NEW b \in Builds, OtherRun(b) PROVE Inv'
<1> USE DEF Inv, OtherRun, loopVars
<1>1. Types' /\ Place'
  BY DEF Types, Place
<1>2. DOMAIN cache = Builds /\ \A c \in Builds \ {b} : cache'[c] = cache[c]
  BY DEF Types
<1>3. fetch = "fresh" => File \in Builds
  BY DEF Place, Types, File
<1>4. Fetched'
  BY <1>2, <1>3 DEF Fetched, File
<1>5. HoldsLast' /\ OwnManifest'
  BY <1>2 DEF HoldsLast, OwnManifest, Types
<1>6. RightBuild'
  BY <1>2 DEF RightBuild, Types
<1> QED
  BY <1>1, <1>4, <1>5, <1>6

LEMMA StutterInv == ASSUME Inv, UNCHANGED vars PROVE Inv'
BY DEF vars, loopVars, Inv, Types, Place, Fetched, HoldsLast, RightBuild,
       OwnManifest, File

LEMMA Invariance == Spec => []Inv
<1>1. Inv /\ [Next]_vars => Inv'
  BY QuietInv, StartPlainInv, CompleteInv, ArchiveFailsInv, LoadInv,
     LoopStepInv, OtherRunInv, StutterInv
  DEF Next, Program
<1> QED
  BY InitInv, <1>1, PTL DEF Spec

---------------------------------------------------------------------------
(* The theorems.                                                           *)

(* Every URL is asked about with the whole manifest of that URL; only the  *)
(* first one in hand may be what the cache held, and only another run can  *)
(* put a foreign one there (getBuildManifest).                             *)
THEOREM EachItsOwn == Spec => []OwnManifest
<1>1. Inv => OwnManifest
  BY DEF Inv
<1> QED
  BY <1>1, Invariance, PTL

(* No cache file and no buffer ever holds a manifest of another build,     *)
(* whatever other runs do: the file name carries the build.                *)
THEOREM BuildsKeptApart == Spec => []RightBuild
<1>1. Inv => RightBuild
  BY DEF Inv
<1> QED
  BY <1>1, Invariance, PTL

(* After the loop the cache holds, for each build nobody else wrote, the   *)
(* last manifest in hand whenever the last URL of the build had one.       *)
THEOREM LastOneStays == Spec => []CacheHoldsLast
<1>1. Inv => CacheHoldsLast
  BY DEF Inv, HoldsLast, CacheHoldsLast
<1> QED
  BY <1>1, Invariance, PTL

(* With the downloads hidden the steps are those of the loop or stutters:  *)
(* what VersionCheck_proof shows of the loop's safety holds here.          *)
THEOREM CacheIsLoop == Spec => Loop!Init /\ [][Loop!Next]_(Loop!vars)
<1>1. Init => Loop!Init
  BY DEF Init
<1>2. [Next]_vars => [Loop!Next]_(Loop!vars)
  <2> SUFFICES ASSUME [Next]_vars PROVE Loop!Next \/ UNCHANGED Loop!vars
    OBVIOUS
  <2>1. CASE UNCHANGED loopVars
    BY <2>1 DEF loopVars, Loop!vars
  <2>2. CASE ArchiveFails
    BY <2>2 DEF ArchiveFails, Loop!Next
  <2>3. CASE Load
    BY <2>3 DEF Load, Loop!Next
  <2>4. CASE LoopStep
    BY <2>4 DEF LoopStep, Loop!Next
  <2> QED
    BY <2>1, <2>2, <2>3, <2>4
    DEF Next, Program, OtherRun, OpenCached, StartPlain, StartOta, Complete,
        PlainFails, vars
<1> QED
  BY <1>1, <1>2, PTL DEF Spec

---------------------------------------------------------------------------
(* The loop ends, with its downloads.                                      *)

(* How many steps getBuildManifest can still take for this URL.            *)
FetchLeft ==
  CASE fetch = "idle"    -> 5
    [] fetch = "plain"   -> 4
    [] fetch = "archive" -> 3
    [] OTHER             -> 2

StepsLeft ==
  CASE pc = "entry" -> 8 * (Len(urls) + 1)
    [] pc = "loop"  -> 8 * (Len(urls) + 1 - u) + FetchLeft
    [] pc = "check" -> 8 * (Len(urls) + 1 - u) + 1
    [] OTHER        -> 0

(* A run tries at most two downloads for each URL and ends, and nothing    *)
(* that other runs do to the files makes it try once more.                 *)
THEOREM StepsAreBounded ==
  Spec => /\ [](StepsLeft \in Nat)
          /\ [][IF Program THEN StepsLeft' < StepsLeft ELSE StepsLeft' = StepsLeft]_vars
<1>0. Inv => /\ Len(urls) \in Nat /\ u \in 1 .. Len(urls) + 1
             /\ pc = "check" \/ fetch # "idle" => u <= Len(urls)
             /\ fetch # "idle" => pc = "loop"
             /\ pc = "entry" => u = 1
  BY DEF Inv, Types, Place
<1>1. Inv => StepsLeft \in Nat
  BY <1>0 DEF StepsLeft, FetchLeft
<1>2. Inv /\ [Next]_vars =>
        [IF Program THEN StepsLeft' < StepsLeft ELSE StepsLeft' = StepsLeft]_vars
  <2> SUFFICES ASSUME Inv, Next
               PROVE  /\ Program => StepsLeft' < StepsLeft
                      /\ ~Program => StepsLeft' = StepsLeft
    OBVIOUS
  <2>1. ASSUME ~Program PROVE StepsLeft' = StepsLeft
    <3>1. UNCHANGED <<fetch, urls, pc, u>>
      BY <2>1 DEF Next, OtherRun, loopVars
    <3> QED
      BY <3>1 DEF StepsLeft, FetchLeft
  <2>2. ASSUME Program PROVE StepsLeft' < StepsLeft
    <3>0. /\ Len(urls) \in Nat /\ u \in 1 .. Len(urls) + 1
          /\ pc = "check" \/ fetch # "idle" => u <= Len(urls)
          /\ fetch # "idle" => pc = "loop"
          /\ pc = "entry" => u = 1
      BY <1>0
    <3> USE DEF StepsLeft, FetchLeft
    <3>1. CASE OpenCached \/ StartPlain \/ StartOta
      <4>1. /\ pc = "loop" /\ fetch = "idle" /\ fetch' \in {"cached", "plain", "archive"}
            /\ UNCHANGED <<urls, pc, u>>
        BY <3>1 DEF OpenCached, StartPlain, StartOta, Calling, loopVars
      <4> QED
        BY <3>0, <4>1
    <3>2. CASE Complete("plain") \/ Complete("archive") \/ PlainFails
      <4>1. /\ \/ fetch = "plain" /\ fetch' \in {"fresh", "archive"}
               \/ fetch = "archive" /\ fetch' = "fresh"
            /\ UNCHANGED <<urls, pc, u>>
        BY <3>2 DEF Complete, PlainFails, loopVars
      <4> QED
        BY <3>0, <4>1
    <3>3. CASE ArchiveFails
      <4>1. fetch = "archive" /\ fetch' = "idle" /\ u' = u + 1 /\ urls' = urls /\ pc' = pc
        BY <3>3 DEF ArchiveFails, Loop!FetchFails
      <4> QED
        BY <3>0, <4>1
    <3>4. CASE Load
      <4>1. /\ fetch \in {"cached", "fresh"} /\ pc' = "check"
            /\ UNCHANGED <<urls, u>>
        BY <3>4 DEF Load, Loop!FetchManifest
      <4> QED
        BY <3>0, <4>1
    <3>5. CASE LoopStep
      <4>0. fetch = "idle" /\ fetch' = "idle"
        BY <3>5 DEF LoopStep
      <4>1. \/ /\ pc = "entry" /\ UNCHANGED <<urls, u>> /\ pc' \in {"loop", "done"}
            \/ pc = "check" /\ pc' = "loop" /\ u' = u + 1 /\ urls' = urls
            \/ pc = "loop" /\ pc' = "done" /\ UNCHANGED <<urls, u>>
        <5>1. CASE Loop!ReturnExempt \/ Loop!NoUrls \/ Loop!EnterLoop
          BY <5>1 DEF Loop!ReturnExempt, Loop!NoUrls, Loop!EnterLoop
        <5>2. CASE Loop!SkipDuplicate
          BY <5>2 DEF Loop!SkipDuplicate
        <5>3. ASSUME NEW one \in {-1, 0, 1}, Loop!CheckManifest(one)
              PROVE  pc = "check" /\ pc' = "loop" /\ u' = u + 1 /\ urls' = urls
          BY <5>3 DEF Loop!CheckManifest
        <5>4. CASE Loop!Finish
          BY <5>4 DEF Loop!Finish
        <5> QED
          BY <3>5, <5>1, <5>2, <5>3, <5>4 DEF LoopStep
      <4> QED
        BY <3>0, <4>0, <4>1
    <3> QED
      BY <2>2, <3>1, <3>2, <3>3, <3>4, <3>5 DEF Program
  <2> QED
    BY <2>1, <2>2
<1> QED
  BY <1>1, <1>2, Invariance, PTL DEF Spec
=============================================================================
