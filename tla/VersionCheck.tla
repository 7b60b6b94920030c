---------------------------- MODULE VersionCheck ----------------------------
(***************************************************************************)
(* isVersionSignedForDevice (tsschecker.c): the loop that asks about every *)
(* firmware URL of one version. A URL's manifest is fetched; a URL marked  *)
(* as a duplicate may be skipped; the others are handed to                 *)
(* isManifestBufSignedForDevice, whose result is here any of -1, 0, 1      *)
(* (TicketSession models it, SigningRun composes the two).                 *)
(***************************************************************************)
EXTENDS Integers, Sequences

CONSTANT
  UrlLists   \* the arrays getFirmwareUrls may return; <<>> stands for NULL

ASSUME UrlListsAssumption == UrlLists \subseteq Seq([isDupulicate : BOOLEAN])

VARIABLES
  urls,         \* t_versionURL array
  exempt,       \* versVals->version is set and atoi(version) <= 3
  pc,           \* where the function stands
  u,            \* index of the current URL
  nocache,      \* the global: 1 ignores cached manifests
  nocacheorig,  \* its value on entry
  isSigned,     \* the function's result so far
  cursigned,    \* "the current build is signed": lets duplicates be skipped
  outcome,      \* history: what became of each URL
  origin        \* history: where each URL's manifest came from

vars == <<urls, exempt, pc, u, nocache, nocacheorig, isSigned, cursigned,
          outcome, origin>>

Origins == {"none", "cache", "network"}
Outcomes == {"pending", "unfetched", "failed", "unsigned", "signed", "skipped"}

Verdict == INSTANCE SigningVerdict WITH
             verdict <- IF pc = "done" THEN isSigned ELSE -2

Init ==
  /\ urls \in UrlLists
  /\ exempt \in BOOLEAN
  /\ pc = "entry"
  /\ u = 1
  /\ nocache \in {0, 1}
  /\ nocacheorig = 0
  /\ isSigned = -1
  /\ cursigned = 0
  /\ outcome = [i \in 1 .. Len(urls) |-> "pending"]
  /\ origin = [i \in 1 .. Len(urls) |-> "none"]

---------------------------------------------------------------------------
(* Mutations of the loop, used to test that the properties below bite.     *)

SettleUrlLastAnswer(i, one) ==
  /\ isSigned' = one
  /\ cursigned' = IF isSigned > 0 THEN 1 ELSE cursigned

SettleUrlEagerSkip(i, one) ==
  /\ isSigned' = IF one > 0 \/ isSigned > 0 THEN 1 ELSE 0
  /\ cursigned' = 1

FinishKeepsNocache ==
  /\ pc = "loop"
  /\ u > Len(urls)
  /\ pc' = "done"
  /\ UNCHANGED <<urls, exempt, u, nocache, nocacheorig, isSigned, cursigned,
                 outcome, origin>>

ForbidCacheTooLate(fetched) == UNCHANGED nocache

ForbidCacheCounts(fetched) == nocache' = nocache + 1

SkipDuplicateStays ==
  /\ pc = "check"
  /\ cursigned # 0
  /\ outcome' = [outcome EXCEPT ![u] = "skipped"]
  /\ pc' = "loop"
  /\ UNCHANGED <<urls, exempt, u, nocache, nocacheorig, isSigned, cursigned, origin>>

---------------------------------------------------------------------------
(* Entering: the version test, then getFirmwareUrls.                       *)

(* iOS 3 or lower: returns 1 before anything else is touched.              *)
ReturnExempt ==
  /\ pc = "entry"
  /\ exempt
  /\ nocacheorig' = nocache
  /\ isSigned' = 1
  /\ pc' = "done"
  /\ UNCHANGED <<urls, exempt, u, nocache, cursigned, outcome, origin>>

NoUrls ==
  /\ pc = "entry"
  /\ ~exempt
  /\ urls = <<>>
  /\ nocacheorig' = nocache
  /\ pc' = "done"
  /\ UNCHANGED <<urls, exempt, u, nocache, isSigned, cursigned, outcome, origin>>

EnterLoop ==
  /\ pc = "entry"
  /\ ~exempt
  /\ urls # <<>>
  /\ nocacheorig' = nocache
  /\ pc' = "loop"
  /\ UNCHANGED <<urls, exempt, u, nocache, isSigned, cursigned, outcome, origin>>

---------------------------------------------------------------------------
(* One iteration: fetch the manifest, then skip the URL or ask about it.   *)

(* nocache = 1 once a manifest is in hand: the next ones are downloaded.   *)
ForbidCache(fetched) == nocache' = 1

(* getBuildManifest returned NULL: nothing else happens for this URL.      *)
FetchFails ==
  /\ pc = "loop"
  /\ u <= Len(urls)
  /\ outcome' = [outcome EXCEPT ![u] = "unfetched"]
  /\ u' = u + 1
  /\ UNCHANGED <<urls, exempt, pc, nocache, nocacheorig, isSigned, cursigned, origin>>

(* The manifest comes from the cache only while the cache may be used. A   *)
(* URL that is not a duplicate starts a new build.                         *)
FetchManifest(from) ==
  /\ pc = "loop"
  /\ u <= Len(urls)
  /\ from = "cache" => nocache = 0
  /\ origin' = [origin EXCEPT ![u] = from]
  /\ cursigned' = IF urls[u].isDupulicate THEN cursigned ELSE 0
  /\ ForbidCache(from)
  /\ pc' = "check"
  /\ UNCHANGED <<urls, exempt, u, nocacheorig, isSigned, outcome>>

SkipDuplicate ==
  /\ pc = "check"
  /\ cursigned # 0
  /\ outcome' = [outcome EXCEPT ![u] = "skipped"]
  /\ u' = u + 1
  /\ pc' = "loop"
  /\ UNCHANGED <<urls, exempt, nocache, nocacheorig, isSigned, cursigned, origin>>

(* cursigned is raised by the result of the EARLIER URLs, then the result  *)
(* of this one is added.                                                   *)
SettleUrl(i, one) ==
  /\ cursigned' = IF isSigned > 0 THEN 1 ELSE cursigned
  /\ isSigned' = IF one > 0 \/ isSigned > 0 THEN 1 ELSE 0

(* isManifestBufSignedForDevice returned one: -1 leaves everything as is.  *)
CheckManifest(one) ==
  /\ pc = "check"
  /\ cursigned = 0
  /\ IF one >= 0 THEN SettleUrl(u, one) ELSE UNCHANGED <<isSigned, cursigned>>
  /\ outcome' = [outcome EXCEPT ![u] = IF one < 0 THEN "failed"
                                       ELSE IF one > 0 THEN "signed"
                                       ELSE "unsigned"]
  /\ u' = u + 1
  /\ pc' = "loop"
  /\ UNCHANGED <<urls, exempt, nocache, nocacheorig, origin>>

Finish ==
  /\ pc = "loop"
  /\ u > Len(urls)
  /\ nocache' = nocacheorig
  /\ pc' = "done"
  /\ UNCHANGED <<urls, exempt, u, nocacheorig, isSigned, cursigned, outcome, origin>>

Next ==
  \/ ReturnExempt
  \/ NoUrls
  \/ EnterLoop
  \/ FetchFails
  \/ \E from \in {"cache", "network"} : FetchManifest(from)
  \/ SkipDuplicate
  \/ \E one \in {-1, 0, 1} : CheckManifest(one)
  \/ Finish

(* The function is sequential code: it keeps running until it returns.     *)
Spec == Init /\ [][Next]_vars /\ WF_vars(Next)

---------------------------------------------------------------------------
(* Properties                                                              *)

TypeOK ==
  /\ urls \in Seq([isDupulicate : BOOLEAN])
  /\ exempt \in BOOLEAN
  /\ pc \in {"entry", "loop", "check", "done"}
  /\ u \in 1 .. Len(urls) + 1
  /\ nocache \in {0, 1}
  /\ nocacheorig \in {0, 1}
  /\ isSigned \in {-1, 0, 1}
  /\ cursigned \in {0, 1}
  /\ outcome \in [1 .. Len(urls) -> Outcomes]
  /\ origin \in [1 .. Len(urls) -> Origins]

(* A URL is left out only if it is marked a duplicate and the version has  *)
(* already been found signed by an earlier URL, so that leaving it out     *)
(* cannot change the answer (the skip of isVersionSignedForDevice).        *)
SkipsAreHarmless ==
  \A i \in 1 .. Len(urls) :
    outcome[i] = "skipped" =>
      /\ urls[i].isDupulicate
      /\ \E j \in 1 .. i - 1 : outcome[j] = "signed"

(* After the first manifest of a run is in hand no later manifest of that  *)
(* run is read from the cache, where a duplicate build's file name is the  *)
(* same and would hand back the manifest of another URL.                   *)
OneCachedManifest ==
  \A i, j \in 1 .. Len(urls) :
    i < j /\ origin[i] # "none" => origin[j] # "cache"

(* Whatever path the function takes, the caller finds nocache as it was:   *)
(* the function's own nocache = 1 does not leak.                           *)
NocacheRestored == pc = "done" => nocache = nocacheorig

(* A later refusal or failure never takes back an earlier answer.          *)
AnswerOnlyImproves == [][isSigned' >= isSigned]_vars

(* The loop implements the abstract check: the answer is the function      *)
(* VerdictOf of the outcomes, with skipping allowed only once signed.      *)
ImplementsVerdict == Verdict!Spec

(* The loop ends: every iteration moves to the next URL.                   *)
Terminates == <>(pc = "done")
=============================================================================
