---------------------------- MODULE FirmwareUrls ----------------------------
(***************************************************************************)
(* getFirmwareUrls (tsschecker.c): two passes of one loop over a device's  *)
(* firmwares. The first counts the entries that match, the second writes   *)
(* them into an array of exactly one slot more, whose last slot stays zero *)
(* and ends it. A build met again is marked as a duplicate, by strncmp     *)
(* over the length of the new name.                                        *)
(***************************************************************************)
EXTENDS Integers, Sequences, FiniteSets, SequencesExt

CONSTANTS
  BuildIDs,       \* build names, as sequences of characters
  Versions,       \* version names, likewise
  Urls,
  FirmwareLists   \* the firmwares a device may have

NoName == <<>>        \* an option not given
ReleaseTypes == {"absent", "Beta", "other"}
Entries == [url : Urls, version : Versions, buildID : BuildIDs, releasetype : ReleaseTypes]

ASSUME UrlsAssumption ==
  /\ FirmwareLists \subseteq Seq(Entries)
  /\ BuildIDs \subseteq Seq(STRING)
  /\ Versions \subseteq Seq(STRING)
  /\ NoName \notin BuildIDs \cup Versions

VARIABLES
  found,       \* getFirmwaresForDevice found the device
  firmwares,   \* its entries
  buildID,     \* versVals->buildID
  version,     \* versVals->version, set by the first match when not given
  isOta, useBeta,
  pass,        \* "count", "fill", "done" or "null"
  i,           \* index of the next entry
  retcounter,  \* entries counted
  rets,        \* entries written
  versstring   \* what entries are compared with

vars == <<found, firmwares, buildID, version, isOta, useBeta, pass, i, retcounter,
          rets, versstring>>
query == <<found, firmwares, buildID, isOta, useBeta, versstring>>

(* main refuses a call that names neither a version nor a build.           *)
Init ==
  /\ found \in BOOLEAN
  /\ firmwares \in FirmwareLists
  /\ buildID \in BuildIDs \cup {NoName}
  /\ version \in Versions \cup {NoName}
  /\ buildID # NoName \/ version # NoName
  /\ isOta \in BOOLEAN
  /\ useBeta \in BOOLEAN
  /\ pass = "count"
  /\ i = 1
  /\ retcounter = 0
  /\ rets = <<>>
  /\ versstring = IF buildID # NoName THEN buildID ELSE version

---------------------------------------------------------------------------
(* Mutations, used to test that the properties below bite.                 *)

MatchesRereadsOptions(e) ==
  IF version # NoName THEN e.version = version ELSE e.buildID = buildID

DuplicateOfLastOnly(new) ==
  rets # <<>> /\ rets[Len(rets)].buildID = new

StartFillStays ==
  /\ pass = "count"
  /\ i > Len(firmwares)
  /\ retcounter > 0
  /\ pass' = "fill"
  /\ UNCHANGED <<query, version, i, retcounter, rets>>

StartFillAtZero ==
  /\ pass = "count"
  /\ found
  /\ i > Len(firmwares)
  /\ retcounter > 0
  /\ pass' = "fill"
  /\ i' = 0
  /\ UNCHANGED <<query, version, retcounter, rets>>

---------------------------------------------------------------------------
(* Which entries are taken: the same test in both passes.                  *)

Matches(e) ==
  IF buildID # NoName THEN e.buildID = versstring ELSE e.version = versstring

(* With --ota and --beta only entries whose release type is Beta. Without  *)
(* --beta nothing is left out, and lists other than OTA's are not looked   *)
(* at: the parameter beta is always false.                                 *)
PassesReleaseType(e) == isOta /\ useBeta => e.releasetype = "Beta"

Selected(e) == Matches(e) /\ PassesReleaseType(e)

(* strncmp(earlier, new, length of new) = 0 for some entry written before. *)
IsDuplicate(new) == \E k \in 1 .. Len(rets) : IsPrefix(new, rets[k].buildID)

(* The first selected entry gives its version when none was given.         *)
Label(e) == version' = IF version = NoName THEN e.version ELSE version

---------------------------------------------------------------------------
DeviceUnknown ==
  /\ pass = "count"
  /\ ~found
  /\ pass' = "null"
  /\ UNCHANGED <<query, version, i, retcounter, rets>>

Scanning == found /\ pass \in {"count", "fill"} /\ i <= Len(firmwares)

PassOver ==
  /\ Scanning
  /\ ~Selected(firmwares[i])
  /\ i' = i + 1
  /\ UNCHANGED <<query, version, pass, retcounter, rets>>

Count ==
  /\ Scanning
  /\ pass = "count"
  /\ Selected(firmwares[i])
  /\ Label(firmwares[i])
  /\ retcounter' = retcounter + 1
  /\ i' = i + 1
  /\ UNCHANGED <<query, pass, rets>>

Fill ==
  /\ Scanning
  /\ pass = "fill"
  /\ Selected(firmwares[i])
  /\ Label(firmwares[i])
  /\ LET e == firmwares[i]
     IN rets' = Append(rets, [url |-> e.url, version |-> e.version, buildID |-> e.buildID,
                              isDupulicate |-> IsDuplicate(e.buildID)])
  /\ i' = i + 1
  /\ UNCHANGED <<query, pass, retcounter>>

(* goto malloc_rets: room for the entries counted and a terminator.        *)
StartFill ==
  /\ pass = "count"
  /\ found
  /\ i > Len(firmwares)
  /\ retcounter > 0
  /\ pass' = "fill"
  /\ i' = 1
  /\ UNCHANGED <<query, version, retcounter, rets>>

NothingFound ==
  /\ pass = "count"
  /\ found
  /\ i > Len(firmwares)
  /\ retcounter = 0
  /\ pass' = "null"
  /\ UNCHANGED <<query, version, i, retcounter, rets>>

Return ==
  /\ pass = "fill"
  /\ i > Len(firmwares)
  /\ pass' = "done"
  /\ UNCHANGED <<query, version, i, retcounter, rets>>

Next ==
  \/ DeviceUnknown
  \/ PassOver \/ Count \/ Fill
  \/ StartFill \/ NothingFound
  \/ Return

Spec == Init /\ [][Next]_vars /\ WF_vars(Next)

---------------------------------------------------------------------------
(* Properties                                                              *)

TypeOK ==
  /\ found \in BOOLEAN
  /\ firmwares \in FirmwareLists
  /\ buildID \in BuildIDs \cup {NoName}
  /\ version \in Versions \cup {NoName}
  /\ versstring \in BuildIDs \cup Versions
  /\ isOta \in BOOLEAN
  /\ useBeta \in BOOLEAN
  /\ pass \in {"count", "fill", "done", "null"}
  /\ i \in 1 .. Len(firmwares) + 1
  /\ retcounter \in Nat
  /\ rets \in Seq([url : Urls, version : Versions, buildID : BuildIDs,
                   isDupulicate : BOOLEAN])

(* The second pass never writes past the slots the first one counted, so   *)
(* the array allocated between them always keeps its zeroed terminator,    *)
(* which the duplicate scan and the callers stop at; and it fills them all.*)
FitsAllocation ==
  /\ Len(rets) <= retcounter
  /\ pass = "done" => Len(rets) = retcounter /\ retcounter > 0

(* The array is the selection of the listing, in its order; NULL stands    *)
(* for an empty one. A selected entry's slot is the number of those up to  *)
(* it.                                                                     *)
ResultIsSelection ==
  LET wanted  == {k \in DOMAIN firmwares : Selected(firmwares[k])}
      slot(k) == Cardinality({j \in wanted : j <= k})
  IN /\ pass = "done" => /\ Len(rets) = Cardinality(wanted)
                         /\ wanted # {}
                         /\ \A k \in wanted : rets[slot(k)].url = firmwares[k].url
     /\ pass = "null" => ~found \/ wanted = {}

(* Every build met again is marked, so the caller may skip it. A mark is   *)
(* never on the first entry, and only on a build some earlier name begins  *)
(* with: where no build name is a prefix of another, only on true repeats. *)
MarksRepeats ==
  \A j \in 1 .. Len(rets) :
    LET earlier == {rets[k].buildID : k \in 1 .. j - 1} IN
    /\ rets[j].buildID \in earlier => rets[j].isDupulicate
    /\ rets[j].isDupulicate => \E b \in earlier : IsPrefix(rets[j].buildID, b)
=============================================================================
