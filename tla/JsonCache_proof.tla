--------------------------- MODULE JsonCache_proof ---------------------------
(***************************************************************************)
(* Proof about JsonCache, for any number of processes and listings of any  *)
(* length: no process gives up over what it found in the cache.            *)
(*                                                                         *)
(* A process whose download nobody disturbed is alone with the file: what  *)
(* it wrote is what it reads.                                              *)
(***************************************************************************)
EXTENDS JsonCache, TLAPS

States == {"open", "write", "size", "read", "parse", "parsed", "failed", "killed"}

Types ==
  /\ exists \in BOOLEAN
  /\ file \in Seq({"data", "hole"})
  /\ pc \in [Procs -> States]
  /\ nocache \in [Procs -> BOOLEAN]
  /\ offset \in [Procs -> 0 .. Pieces]
  /\ size \in [Procs -> Nat]
  /\ DOMAIN buffer = Procs
  /\ downloads \in [Procs -> Nat]
  /\ failed \in [Procs -> BOOLEAN]
  /\ disturbed \in [Procs -> BOOLEAN]
  /\ dirty \in [Procs -> BOOLEAN]

(* A process past opening the file that may not use the cache downloaded.  *)
Downloaded(p) ==
  nocache[p] /\ pc[p] \notin {"open", "killed"} => downloads[p] > 0

Undisturbed(p) == downloads[p] > 0 /\ ~disturbed[p]

(* Nobody else writes, and the file is what p wrote into it.               *)
Alone(p) ==
  Undisturbed(p) =>
    /\ \A q \in Others(p) : ~Writing(q)
    /\ Writing(p) => /\ Len(file) = offset[p]
                     /\ \A k \in 1 .. offset[p] : file[k] = "data"
    /\ ~Writing(p) /\ pc[p] # "killed" /\ ~failed[p] => file = Whole

(* So p reads back a whole listing.                                        *)
ReadsBack(p) ==
  Undisturbed(p) /\ ~failed[p] =>
    /\ pc[p] = "read" => size[p] = Pieces
    /\ pc[p] = "parse" => buffer[p] = Whole

Caused(p) ==
  pc[p] = "failed" =>
    /\ downloads[p] > 0
    /\ failed[p] \/ disturbed[p] \/ dirty[p]

Inv ==
  /\ Types
  /\ \A p \in Procs : Downloaded(p) /\ Alone(p) /\ ReadsBack(p) /\ Caused(p)

---------------------------------------------------------------------------
(* The file as a sequence.                                                 *)

LEMMA WholeIsListing == Whole \in Seq({"data", "hole"}) /\ Len(Whole) = Pieces
BY CacheAssumption DEF Whole

LEMMA InitInv == Init => Inv
<1> SUFFICES ASSUME Init PROVE Inv
  OBVIOUS
<1>1. file \in Seq({"data", "hole"})
  <2>1. CASE exists
    <3>1. PICK n \in 0 .. Pieces : file = SubSeq(Whole, 1, n)
      BY <2>1 DEF Init
    <3> QED
      BY <3>1, WholeIsListing, CacheAssumption
  <2>2. CASE ~exists
    BY <2>2 DEF Init
  <2> QED
    BY <2>1, <2>2
<1>2. Types
  BY <1>1, CacheAssumption DEF Init, Types, States
<1>3. ASSUME NEW p \in Procs
      PROVE  Downloaded(p) /\ Alone(p) /\ ReadsBack(p) /\ Caused(p)
  BY <1>3 DEF Init, Downloaded, Alone, ReadsBack, Caused, Undisturbed
<1> QED
  BY <1>2, <1>3 DEF Inv
---------------------------------------------------------------------------
(* The steps.                                                              *)

LEMMA OpenCachedInv == ASSUME Inv, NEW p \in Procs, OpenCached(p) PROVE Inv'
<1> USE DEF OpenCached, Inv, history
<1>1. Types'
  BY DEF Types, States, MayUseCache
<1>2. ASSUME NEW q \in Procs
      PROVE  Downloaded(q)' /\ Alone(q)' /\ ReadsBack(q)' /\ Caused(q)'
  <2>1. Downloaded(q) /\ Alone(q) /\ ReadsBack(q) /\ Caused(q) /\ Downloaded(p)
    OBVIOUS
  <2> QED
    BY <2>1 DEF Types, Downloaded, Alone, ReadsBack, Caused, Undisturbed, Others, Writing, MayUseCache
<1> QED
  BY <1>1, <1>2

(* Truncating disturbs everyone else.                                      *)
LEMMA StartDownloadInv == ASSUME Inv, NEW p \in Procs, StartDownload(p) PROVE Inv'
<1> USE DEF StartDownload, Inv
<1>1. Types'
  BY CacheAssumption DEF Types, States
<1>2. ASSUME NEW q \in Procs
      PROVE  Downloaded(q)' /\ Alone(q)' /\ ReadsBack(q)' /\ Caused(q)'
  <2>1. Downloaded(q) /\ Caused(q)
    OBVIOUS
  <2>2. CASE q = p
    BY <2>1, <2>2
    DEF Types, Downloaded, Alone, ReadsBack, Caused, Undisturbed, Others, Writing
  <2>3. CASE q # p
    BY <2>1, <2>3
    DEF Types, Downloaded, Alone, ReadsBack, Caused, Undisturbed, Others, Writing
  <2> QED
    BY <2>2, <2>3
<1> QED
  BY <1>1, <1>2

(* Writing leaves alone who is not disturbed: nobody but the writer is.    *)
LEMMA WritePieceInv == ASSUME Inv, NEW p \in Procs, WritePiece(p) PROVE Inv'
<1> USE DEF WritePiece, Inv, history
<1>1. offset[p] \in 0 .. Pieces /\ Pieces \in Nat /\ Len(file) \in Nat
  BY CacheAssumption DEF Types
<1>2. /\ file' \in Seq({"data", "hole"})
      /\ Len(file') = IF Len(file) > offset[p] THEN Len(file) ELSE offset[p] + 1
      /\ \A k \in 1 .. Len(file') :
           file'[k] = IF k = offset[p] + 1 THEN "data"
                      ELSE IF k <= Len(file) THEN file[k] ELSE "hole"
  <2> DEFINE n == IF Len(file) > offset[p] THEN Len(file) ELSE offset[p] + 1
             f == [k \in 1 .. n |-> IF k = offset[p] + 1 THEN "data"
                                    ELSE IF k <= Len(file) THEN file[k] ELSE "hole"]
  <2>1. n \in Nat /\ f \in [1 .. n -> {"data", "hole"}]
    BY <1>1 DEF Types
  <2>2. f \in Seq({"data", "hole"}) /\ Len(f) = n
    BY <2>1
  <2> QED
    BY <2>2
<1>3. Types'
  BY <1>1, <1>2 DEF Types
<1>4. ASSUME NEW q \in Procs
      PROVE  Downloaded(q)' /\ Alone(q)' /\ ReadsBack(q)' /\ Caused(q)'
  <2>1. Downloaded(q)' /\ ReadsBack(q)' /\ Caused(q)'
    BY DEF Downloaded, ReadsBack, Caused, Undisturbed
  <2>2. Undisturbed(q) => q = p
    BY DEF Alone, Others
  <2>3. /\ Undisturbed(q)' <=> Undisturbed(q)
        /\ \A r : Writing(r)' <=> Writing(r)
        /\ Writing(p)
    BY DEF Undisturbed, Writing
  <2>4. CASE q = p
    <3>1. ASSUME Undisturbed(p)
          PROVE  /\ Len(file) = offset[p]
                 /\ \A k \in 1 .. offset[p] : file[k] = "data"
                 /\ \A r \in Others(p) : ~Writing(r)
      BY <3>1 DEF Alone
    <3>2. offset'[p] = offset[p] + 1
      BY DEF Types
    <3>3. ASSUME Undisturbed(p)
          PROVE  /\ Len(file') = offset'[p]
                 /\ \A k \in 1 .. offset'[p] : file'[k] = "data"
      BY <1>1, <1>2, <3>1, <3>2, <3>3
    <3> HIDE DEF WritePiece
    <3> QED
      BY <2>1, <2>3, <2>4, <3>1, <3>3 DEF Alone, Others
  <2>5. CASE q # p
    BY <2>1, <2>2, <2>3, <2>5 DEF Alone
  <2> QED
    BY <2>4, <2>5
<1> QED
  BY <1>3, <1>4

(* A download that did not fail wrote every piece.                         *)
LEMMA EndDownloadInv == ASSUME Inv, NEW p \in Procs, EndDownload(p) PROVE Inv'
<1> USE DEF EndDownload, Inv
<1>1. Types'
  BY DEF Types, States
<1>2. ASSUME Undisturbed(p), ~failed'[p] PROVE file = Whole
  <2>1. Len(file) = offset[p] /\ \A k \in 1 .. offset[p] : file[k] = "data"
    BY <1>2 DEF Alone
  <2>2. offset[p] = Pieces
    <3>1. failed'[p] = (offset[p] < Pieces)
      BY DEF Types
    <3>2. ~(offset[p] < Pieces)
      BY <1>2, <3>1, Zenon
    <3> QED
      BY <3>2, CacheAssumption DEF Types
  <2>3. file \in Seq({"data", "hole"})
    BY DEF Types
  <2> QED
    BY <2>1, <2>2, <2>3 DEF Whole
<1>3. ASSUME NEW q \in Procs
      PROVE  Downloaded(q)' /\ Alone(q)' /\ ReadsBack(q)' /\ Caused(q)'
  <2>1. Downloaded(q) /\ Alone(q) /\ ReadsBack(q) /\ Caused(q)
    OBVIOUS
  <2> QED
    BY <1>2, <2>1
    DEF Types, Downloaded, Alone, ReadsBack, Caused, Undisturbed, Others, Writing
<1> QED
  BY <1>1, <1>3

LEMMA TakeSizeInv == ASSUME Inv, NEW p \in Procs, TakeSize(p) PROVE Inv'
<1> USE DEF TakeSize, Inv, history
<1>1. Types'
  BY DEF Types, States, Size
<1>2. ASSUME NEW q \in Procs
      PROVE  Downloaded(q)' /\ Alone(q)' /\ ReadsBack(q)' /\ Caused(q)'
  <2>1. Downloaded(q) /\ Alone(q) /\ ReadsBack(q) /\ Caused(q) /\ Downloaded(p)
    OBVIOUS
  <2> QED
    BY <2>1, WholeIsListing DEF Types, Downloaded, Alone, ReadsBack, Caused, Undisturbed, Others, Writing, Size
<1> QED
  BY <1>1, <1>2

LEMMA ReadInv == ASSUME Inv, NEW p \in Procs, Read(p) PROVE Inv'
<1> USE DEF Read, Inv
<1>1. Types'
  BY DEF Types, States
<1>2. ASSUME Undisturbed(p), ~failed[p] PROVE buffer'[p] = Whole
  <2>1. size[p] = Pieces /\ file = Whole
    BY <1>2 DEF ReadsBack, Alone, Writing
  <2> QED
    BY <2>1, WholeIsListing DEF Types, Whole
<1>3. ASSUME NEW q \in Procs
      PROVE  Downloaded(q)' /\ Alone(q)' /\ ReadsBack(q)' /\ Caused(q)'
  <2>1. Downloaded(q) /\ Alone(q) /\ ReadsBack(q) /\ Caused(q)
    OBVIOUS
  <2> QED
    BY <1>2, <2>1
    DEF Types, Downloaded, Alone, ReadsBack, Caused, Undisturbed, Others, Writing
<1> QED
  BY <1>1, <1>3

LEMMA ParseOkInv == ASSUME Inv, NEW p \in Procs, ParseOk(p) PROVE Inv'
<1> USE DEF ParseOk, Inv, history
<1>1. Types'
  BY DEF Types, States
<1>2. ASSUME NEW q \in Procs
      PROVE  Downloaded(q)' /\ Alone(q)' /\ ReadsBack(q)' /\ Caused(q)'
  <2>1. Downloaded(q) /\ Alone(q) /\ ReadsBack(q) /\ Caused(q) /\ Downloaded(p)
    OBVIOUS
  <2> QED
    BY <2>1 DEF Types, Downloaded, Alone, ReadsBack, Caused, Undisturbed, Others, Writing
<1> QED
  BY <1>1, <1>2

LEMMA ReparseInv == ASSUME Inv, NEW p \in Procs, Reparse(p) PROVE Inv'
<1> USE DEF Reparse, Inv, history
<1>1. Types'
  BY DEF Types, States, ParseFails, ForbidCache
<1>2. ASSUME NEW q \in Procs
      PROVE  Downloaded(q)' /\ Alone(q)' /\ ReadsBack(q)' /\ Caused(q)'
  <2>1. Downloaded(q) /\ Alone(q) /\ ReadsBack(q) /\ Caused(q) /\ Downloaded(p)
    OBVIOUS
  <2> QED
    BY <2>1 DEF Types, Downloaded, Alone, ReadsBack, Caused, Undisturbed, Others, Writing, ParseFails, ForbidCache
<1> QED
  BY <1>1, <1>2

LEMMA GiveUpInv == ASSUME Inv, NEW p \in Procs, GiveUp(p) PROVE Inv'
<1> USE DEF GiveUp, Inv, history
<1>1. Types'
  BY DEF Types, States, ParseFails, MayGiveUp
<1>2. ASSUME NEW q \in Procs
      PROVE  Downloaded(q)' /\ Alone(q)' /\ ReadsBack(q)' /\ Caused(q)'
  <2>1. Downloaded(q) /\ Alone(q) /\ ReadsBack(q) /\ Caused(q) /\ Downloaded(p)
    OBVIOUS
  <2> QED
    BY <2>1 DEF Types, Downloaded, Alone, ReadsBack, Caused, Undisturbed, Others, Writing, ParseFails, MayGiveUp
<1> QED
  BY <1>1, <1>2

LEMMA KillInv == ASSUME Inv, NEW p \in Procs, Kill(p) PROVE Inv'
<1> USE DEF Kill, Inv, history
<1>1. Types'
  BY DEF Types, States
<1>2. ASSUME NEW q \in Procs
      PROVE  Downloaded(q)' /\ Alone(q)' /\ ReadsBack(q)' /\ Caused(q)'
  <2>1. Downloaded(q) /\ Alone(q) /\ ReadsBack(q) /\ Caused(q) /\ Downloaded(p)
    OBVIOUS
  <2> QED
    BY <2>1 DEF Types, Downloaded, Alone, ReadsBack, Caused, Undisturbed, Others, Writing
<1> QED
  BY <1>1, <1>2

LEMMA NextInv == Inv /\ [Next]_vars => Inv'
<1> SUFFICES ASSUME Inv, [Next]_vars PROVE Inv'
  OBVIOUS
<1>1. ASSUME NEW p \in Procs, Step(p) PROVE Inv'
  BY <1>1, OpenCachedInv, StartDownloadInv, WritePieceInv, EndDownloadInv, TakeSizeInv,
     ReadInv, ParseOkInv, ReparseInv, GiveUpInv
  DEF Step
<1>2. ASSUME NEW p \in Procs, Kill(p) PROVE Inv'
  BY <1>2, KillInv
<1>3. CASE UNCHANGED vars
  BY <1>3
  DEF vars, Inv, Types, Downloaded, Alone, ReadsBack, Caused, Undisturbed, Others, Writing
<1> QED
  BY <1>1, <1>2, <1>3 DEF Next

(* "try to redownload and reparse one more time": whoever gives up has     *)
(* downloaded, and failed at it, was disturbed, or parsed a buffer without *)
(* its terminator.                                                         *)
THEOREM NobodyGivesUpOnCache == Spec => []GivesUpForCause
<1>1. Inv => GivesUpForCause
  BY DEF Inv, Caused, GivesUpForCause
<1> QED
  BY <1>1, InitInv, NextInv, PTL DEF Spec

---------------------------------------------------------------------------
(* Every process ends.                                                     *)

Ended(p) == pc[p] \in {"parsed", "failed", "killed"}

(* From where it stands to the end of this attempt.                        *)
AttemptLeft(p) ==
  CASE pc[p] = "open"  -> Pieces + 5
    [] pc[p] = "write" -> Pieces - offset[p] + 4
    [] pc[p] = "size"  -> 3
    [] pc[p] = "read"  -> 2
    [] pc[p] = "parse" -> 1
    [] OTHER           -> 0

(* A process that has not yet forbidden itself the cache may try again.    *)
StepsLeft(p) == AttemptLeft(p) + (IF nocache[p] \/ Ended(p) THEN 0 ELSE Pieces + 5)

LEMMA StepsLeftNat == ASSUME Inv, NEW p \in Procs PROVE StepsLeft(p) \in Nat
<1>1. Pieces \in Nat /\ offset[p] \in 0 .. Pieces
  BY CacheAssumption DEF Inv, Types
<1>2. AttemptLeft(p) \in Nat
  BY <1>1 DEF AttemptLeft
<1> QED
  BY <1>1, <1>2 DEF StepsLeft

(* A step of p leaves what other processes have before them as it was.     *)
LEMMA OthersKeep ==
  ASSUME Inv, NEW p \in Procs, Step(p) \/ Kill(p), NEW q \in Others(p)
  PROVE  StepsLeft(q)' = StepsLeft(q)
<1>1. q \in Procs /\ q # p
  BY DEF Others
<1>2. pc'[q] = pc[q] /\ nocache'[q] = nocache[q] /\ offset'[q] = offset[q]
  BY <1>1
  DEF Step, Kill, OpenCached, StartDownload, WritePiece, EndDownload, TakeSize, Read, ParseOk,
      Reparse, ForbidCache, GiveUp, Inv, Types
<1> QED
  BY <1>2 DEF StepsLeft, AttemptLeft, Ended

LEMMA StepCounts ==
  ASSUME Inv, NEW p \in Procs, Step(p) \/ Kill(p)
  PROVE  StepsLeft(p)' < StepsLeft(p)
<1>0. /\ Pieces \in Nat /\ offset[p] \in 0 .. Pieces /\ nocache[p] \in BOOLEAN
      /\ pc \in [Procs -> States] /\ nocache \in [Procs -> BOOLEAN]
      /\ offset \in [Procs -> 0 .. Pieces]
  BY CacheAssumption DEF Inv, Types
<1> USE DEF StepsLeft, AttemptLeft, Ended
<1>1. CASE OpenCached(p)
  BY <1>0, <1>1 DEF OpenCached
<1>2. CASE StartDownload(p)
  BY <1>0, <1>2 DEF StartDownload
<1>3. CASE WritePiece(p)
  BY <1>0, <1>3 DEF WritePiece, Writing, history
<1>4. CASE EndDownload(p)
  BY <1>0, <1>4 DEF EndDownload, Writing
<1>5. CASE TakeSize(p)
  BY <1>0, <1>5 DEF TakeSize
<1>6. CASE Read(p)
  BY <1>0, <1>6 DEF Read
<1>7. CASE ParseOk(p)
  BY <1>0, <1>7 DEF ParseOk
<1>8. CASE Reparse(p)
  BY <1>0, <1>8 DEF Reparse, ParseFails, ForbidCache
<1>9. CASE GiveUp(p)
  BY <1>0, <1>9 DEF GiveUp, ParseFails
<1>10. CASE Kill(p)
  BY <1>0, <1>10 DEF Kill, States
<1> QED
  BY <1>1, <1>2, <1>3, <1>4, <1>5, <1>6, <1>7, <1>8, <1>9, <1>10 DEF Step

(* However processes disturb each other's downloads, each tries once or    *)
(* twice and ends: none is sent back by what another does to the file.     *)
THEOREM StepsAreBounded ==
  Spec => /\ [](\A p \in Procs : StepsLeft(p) \in Nat)
          /\ [][\E p \in Procs : /\ StepsLeft(p)' < StepsLeft(p)
                                 /\ \A q \in Others(p) : StepsLeft(q)' = StepsLeft(q)]_vars
<1> DEFINE Progress == \E p \in Procs : /\ StepsLeft(p)' < StepsLeft(p)
                                        /\ \A q \in Others(p) : StepsLeft(q)' = StepsLeft(q)
<1>1. Inv => \A p \in Procs : StepsLeft(p) \in Nat
  BY StepsLeftNat
<1>2. Inv /\ [Next]_vars => [Progress]_vars
  BY StepCounts, OthersKeep DEF Next
<1> QED
  BY <1>1, <1>2, InitInv, NextInv, PTL DEF Spec
=============================================================================
