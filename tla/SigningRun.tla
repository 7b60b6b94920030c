----------------------------- MODULE SigningRun -----------------------------
(***************************************************************************)
(* isVersionSignedForDevice with the calls it makes: the loop over the     *)
(* URLs of a version (VersionCheck) and, for every manifest it asks about, *)
(* one call of isManifestBufSignedForDevice (TicketSession). What a call   *)
(* leaves in *devVals is what the next one starts from.                    *)
(***************************************************************************)
EXTENDS TicketSession

CONSTANT UrlLists   \* the arrays getFirmwareUrls may return

VARIABLES
  urls, exempt, pc, u, nocache, nocacheorig, cursigned, outcome, origin,
  answer,      \* the loop's isSigned; the session's keeps its name
  start,       \* history: *devVals when the run started
  asked,       \* history: the main requests, see Asked
  blobs        \* history: the files written

Loop == INSTANCE VersionCheck WITH isSigned <- answer

ASSUME RunAssumption == UrlLists \subseteq Seq([isDupulicate : BOOLEAN])

loopVars == <<urls, exempt, pc, u, nocache, nocacheorig, cursigned, outcome,
              origin, answer>>
locals == <<frame, isSigned, request, ticket, blob>>
runVars == <<loopVars, vars, start, asked, blobs>>

HasErase(m) == SelectIdentity(m, device.board, "Default") # NoIdentity

RunInit ==
  /\ Loop!Init
  /\ CallInit
  /\ LocalsInit
  /\ at = "idle"
  /\ now = 1
  /\ entry = devVals
  /\ start = devVals
  /\ asked = {}
  /\ blobs = {}

---------------------------------------------------------------------------
(* Mutations, used to test that the properties below bite.                 *)

CallSessionAfresh ==
  /\ pc = "check"
  /\ cursigned = 0
  /\ at = "idle"
  /\ at' = "build"
  /\ devVals' = start
  /\ entry' = start
  /\ UNCHANGED <<loopVars, locals, device, manifest, basebandMode, save, typeFlag,
                 now, start, asked, blobs>>

CallSessionAsUpdate ==
  /\ pc = "check"
  /\ cursigned = 0
  /\ at = "idle"
  /\ at' = "build"
  /\ devVals' = [devVals EXCEPT !.installType = IF @ = "Default" THEN "Update" ELSE @]
  /\ entry' = devVals'
  /\ UNCHANGED <<loopVars, locals, device, manifest, basebandMode, save, typeFlag,
                 now, start, asked, blobs>>

ResultStored == IF blob = NoBlob THEN isSigned ELSE 0

---------------------------------------------------------------------------
(* The loop's own steps. A manifest, cached or downloaded, may be any.     *)

LoopStep ==
  /\ at = "idle"
  /\ \/ Loop!ReturnExempt
     \/ Loop!NoUrls
     \/ Loop!EnterLoop
     \/ Loop!FetchFails
     \/ Loop!SkipDuplicate
     \/ Loop!Finish
  /\ UNCHANGED <<vars, start, asked, blobs>>

FetchManifest ==
  /\ at = "idle"
  /\ \E from \in {"cache", "network"} : Loop!FetchManifest(from)
  /\ manifest' \in Manifests
  /\ UNCHANGED <<device, basebandMode, save, typeFlag, devVals, at, frame, isSigned,
                 request, ticket, blob, now, entry, start, asked, blobs>>

(* Calling isManifestBufSignedForDevice, with *devVals as it stands.       *)
CallSession ==
  /\ pc = "check"
  /\ cursigned = 0
  /\ at = "idle"
  /\ at' = "build"
  /\ entry' = devVals
  /\ UNCHANGED <<loopVars, locals, device, manifest, basebandMode, save, typeFlag,
                 devVals, now, start, asked, blobs>>

SessionStep ==
  /\ Next
  /\ UNCHANGED <<loopVars, start, asked, blobs>>

(* What the loop is told; the value isManifestBufSignedForDevice returns.  *)
Result == isSigned

Asked ==
  [type |-> request["main"].type, granted |-> ticket["main"],
   hasErase |-> HasErase(manifest), startType |-> start.installType]

(* A mutation: a check that fails ends the run with an error.              *)
ReturnFromSessionGivesUp ==
  /\ at = "returned"
  /\ IF Result < 0
     THEN /\ pc' = "done"
          /\ answer' = -1
          /\ UNCHANGED <<urls, exempt, u, nocache, nocacheorig, cursigned, outcome, origin>>
     ELSE Loop!CheckManifest(Result)
  /\ at' = "idle"
  /\ asked' = asked \cup {Asked}
  /\ UNCHANGED <<locals, device, manifest, basebandMode, save, typeFlag, devVals, now,
                 entry, start, blobs>>

(* The session's locals are gone when it returns, *devVals is not.         *)
ReturnFromSession ==
  /\ at = "returned"
  /\ Loop!CheckManifest(Result)
  /\ at' = "idle"
  /\ asked' = asked \cup {Asked}
  /\ blobs' = blobs \cup ({blob} \ {NoBlob})
  /\ frame' = NoFrame
  /\ isSigned' = 0
  /\ request' = [k \in Kinds |-> NoRequest]
  /\ ticket' = [k \in Kinds |-> FALSE]
  /\ blob' = NoBlob
  /\ entry' = devVals
  /\ UNCHANGED <<device, manifest, basebandMode, save, typeFlag, devVals, now, start>>

RunNext ==
  \/ LoopStep
  \/ FetchManifest
  \/ CallSession
  \/ SessionStep
  \/ ReturnFromSession

(* One thread: it runs until the function returns.                         *)
RunSpec == RunInit /\ [][RunNext]_runVars /\ WF_runVars(RunNext)

---------------------------------------------------------------------------
(* Properties                                                              *)

(* With the session's steps hidden the run is exactly the loop, whose      *)
(* isManifestBufSignedForDevice may return anything; fairness included.    *)
ImplementsLoop == Loop!Spec

(* The answer is about what the server said, whatever failed on the way:   *)
(* "signed" iff it granted some main request of the run, "not signed" iff  *)
(* it only refused, and an error iff no request reached it.                *)
AnswerIsTheServers ==
  pc = "done" /\ ~exempt =>
    answer = IF \E a \in asked : a.granted THEN 1
             ELSE IF \E a \in asked : a.type # "none" THEN 0 ELSE -1

(* All blobs of a run are for one ECID and one ApNonce with one generator, *)
(* so drawn values serve the whole run and the user needs one of each. An  *)
(* ApNonce given as "" is left out.                                        *)
BlobsShareNonce ==
  start.apnonce # UserNonce(0) =>
    \A b, c \in blobs :
      b.ecid = c.ecid /\ b.nonce = c.nonce /\ b.generator = c.generator

(* Without -u, -E or -o, a main ticket is for an update install only when  *)
(* this manifest or an earlier one of the run had no erase identity.       *)
UpdateOnlyAsFallback ==
  \A a \in asked :
    start.installType = "Default" /\ a.type = "Update" =>
      \E b \in asked : ~b.hasErase

(* tsschecker.h line 56 says of kInstallTypeDefault: "default is always    *)
(* erase install". Then a manifest with an erase identity is asked about   *)
(* with that one.                                                          *)
DefaultIsEraseInstall ==
  \A a \in asked :
    start.installType = "Default" /\ a.hasErase /\ a.type # "none" => a.type = "Erase"
=============================================================================
