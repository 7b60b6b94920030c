--------------------------- MODULE SigningVerdict ---------------------------
(***************************************************************************)
(* What a signing check of one firmware version promises, whatever the     *)
(* order in which the manifests of that version are fetched and asked      *)
(* about: every manifest ends with one outcome, and the answer reported is *)
(* a function of the outcomes alone.                                       *)
(*                                                                         *)
(* This is the abstract specification VersionCheck (the loop of            *)
(* isVersionSignedForDevice, tsschecker.c) is shown to implement.          *)
(***************************************************************************)
EXTENDS Integers

VARIABLES
  outcome,   \* outcome[e]: what became of manifest e
  exempt,    \* the version predates personalised signing (iOS 3 and lower)
  verdict    \* the answer: 1 signed, 0 not signed, -1 check failed

vars == <<outcome, exempt, verdict>>

Undecided == -2

Results == {"unfetched", "failed", "unsigned", "signed", "skipped"}

(***************************************************************************)
(* One signed manifest makes the version signed; an answer "not signed"    *)
(* needs at least one manifest the server actually refused; otherwise the  *)
(* check failed.                                                           *)
(***************************************************************************)
VerdictOf(o) ==
  IF \E e \in DOMAIN o : o[e] = "signed" THEN 1
  ELSE IF \E e \in DOMAIN o : o[e] = "unsigned" THEN 0
  ELSE -1

Init ==
  /\ \A e \in DOMAIN outcome : outcome[e] = "pending"
  /\ exempt \in BOOLEAN
  /\ verdict = Undecided

(***************************************************************************)
(* Manifest e gets its outcome. Leaving a manifest out is harmless only    *)
(* when the answer is already known to be "signed".                        *)
(***************************************************************************)
Settle(e) ==
  /\ outcome[e] = "pending"
  /\ verdict = Undecided
  /\ ~exempt
  /\ \E r \in Results :
       /\ r = "skipped" => VerdictOf(outcome) = 1
       /\ outcome' = [outcome EXCEPT ![e] = r]
  /\ UNCHANGED <<exempt, verdict>>

Announce ==
  /\ verdict = Undecided
  /\ ~exempt
  /\ \A e \in DOMAIN outcome : outcome[e] # "pending"
  /\ verdict' = VerdictOf(outcome)
  /\ UNCHANGED <<outcome, exempt>>

AnnounceExempt ==
  /\ verdict = Undecided
  /\ exempt
  /\ verdict' = 1
  /\ UNCHANGED <<outcome, exempt>>

Next ==
  \/ \E e \in DOMAIN outcome : Settle(e)
  \/ Announce
  \/ AnnounceExempt

Spec == Init /\ [][Next]_vars
=============================================================================
