---------------------------- MODULE ManifestCache ----------------------------
(***************************************************************************)
(* getBuildManifest (tsschecker.c) inside the loop that calls it: the      *)
(* cache file of a build, the download next to the firmware, and the       *)
(* download out of the archive when that fails. The file is named after    *)
(* device, version and build, not after the URL, so all URLs of one build  *)
(* share it. A run may be killed at any step: what it leaves in the cache  *)
(* is among what Init lets the next run start with. Other runs may work on *)
(* the same files at the same time.                                        *)
(***************************************************************************)
EXTENDS Integers, Sequences

CONSTANTS
  Builds,     \* the builds of the version
  BuildLists  \* the builds of the URLs getFirmwareUrls may return, in order

ASSUME BuildListsAssumption == BuildLists \subseteq Seq(Builds)

(* What a cache file, or a buffer, may hold: tuples tell them apart.       *)
Absent == <<>>
Broken == <<"broken">>       \* no whole manifest, possibly empty
Old(b) == <<"old", b>>       \* a manifest another run saved for build b
Of(i)  == <<"url", i>>       \* the manifest of URL i

VARIABLES
  builds,   \* u->buildID of each URL
  isOta,    \* versVals->isOta
  cache,    \* cache[b]: the file of build b
  fetch,    \* where getBuildManifest stands, "idle" outside
  got,      \* history: got[i] is the buffer returned for URL i
  touched,  \* history: the builds whose files another run wrote meanwhile
  urls, exempt, pc, u, nocache, nocacheorig, isSigned, cursigned, outcome, origin

loopVars == <<urls, exempt, pc, u, nocache, nocacheorig, isSigned, cursigned,
              outcome, origin>>
vars == <<builds, isOta, cache, fetch, got, touched, loopVars>>

(* getFirmwareUrls' marks, for builds none of which begins another.        *)
Marked(bs) ==
  [k \in DOMAIN bs |-> [isDupulicate |-> \E j \in 1 .. k - 1 : bs[j] = bs[k]]]

Loop == INSTANCE VersionCheck WITH UrlLists <- {Marked(bs) : bs \in BuildLists}

Init ==
  /\ builds \in BuildLists
  /\ isOta \in BOOLEAN
  /\ cache \in [Builds -> {Absent, Broken} \cup {Old(b) : b \in Builds}]
  /\ \A b \in Builds : cache[b] \in {Absent, Broken, Old(b)}
  /\ fetch = "idle"
  /\ got = [i \in DOMAIN builds |-> Absent]
  /\ touched = {}
  /\ Loop!Init
  /\ urls = Marked(builds)

---------------------------------------------------------------------------
(* Mutations, used to test that the properties below bite.                 *)

MayUseCacheAlways == cache[builds[u]] # Absent

FileOfVersion == builds[1]

PlainFailsUnnoticed ==
  /\ fetch = "plain"
  /\ fetch' = "fresh"
  /\ UNCHANGED <<builds, isOta, touched, cache, got, loopVars>>

---------------------------------------------------------------------------
(* getBuildManifest                                                        *)

(* The file name carries the build.                                        *)
File == builds[u]

(* if (!f || nocache)                                                      *)
MayUseCache == cache[File] # Absent /\ nocache = 0

Calling == pc = "loop" /\ u <= Len(urls) /\ fetch = "idle"

OpenCached ==
  /\ Calling
  /\ MayUseCache
  /\ fetch' = "cached"
  /\ UNCHANGED <<builds, isOta, touched, cache, got, loopVars>>

(* downloadFile opens the cache file "wb", which empties it; over OTA only *)
(* the archive has a manifest. A file that cannot be opened ends the run   *)
(* in a crash (CommandLine): what it leaves, RightBuild says of any step.  *)
StartPlain ==
  /\ Calling
  /\ ~MayUseCache
  /\ ~isOta
  /\ cache' = [cache EXCEPT ![File] = Broken]
  /\ fetch' = "plain"
  /\ UNCHANGED <<builds, isOta, touched, got, loopVars>>

StartOta ==
  /\ Calling
  /\ ~MayUseCache
  /\ isOta
  /\ fetch' = "archive"
  /\ UNCHANGED <<builds, isOta, touched, cache, got, loopVars>>

Complete(at) ==
  /\ fetch = at
  /\ cache' = [cache EXCEPT ![File] = Of(u)]
  /\ fetch' = "fresh"
  /\ UNCHANGED <<builds, isOta, touched, got, loopVars>>

PlainFails ==
  /\ fetch = "plain"
  /\ fetch' = "archive"
  /\ UNCHANGED <<builds, isOta, touched, cache, got, loopVars>>

(* return NULL. What the library leaves of the file is not known: as it    *)
(* was, or emptied. The next call may find it.                             *)
ArchiveFails ==
  /\ fetch = "archive"
  /\ cache' \in {cache, [cache EXCEPT ![File] = Broken]}
  /\ fetch' = "idle"
  /\ Loop!FetchFails
  /\ UNCHANGED <<builds, isOta, touched, got>>

(* The file, cached or fresh, is read whole and returned.                  *)
Load ==
  /\ fetch \in {"cached", "fresh"}
  /\ got' = [got EXCEPT ![u] = cache[File]]
  /\ fetch' = "idle"
  /\ Loop!FetchManifest(IF fetch = "cached" THEN "cache" ELSE "network")
  /\ UNCHANGED <<builds, isOta, touched, cache>>

---------------------------------------------------------------------------
(* The rest of the loop. No request can be built from a broken manifest.   *)

LoopStep ==
  /\ fetch = "idle"
  /\ \/ Loop!ReturnExempt
     \/ Loop!NoUrls
     \/ Loop!EnterLoop
     \/ Loop!SkipDuplicate
     \/ \E one \in {-1, 0, 1} :
          /\ pc = "check" /\ got[u] = Broken => one = -1
          /\ Loop!CheckManifest(one)
     \/ Loop!Finish
  /\ UNCHANGED <<builds, isOta, touched, cache, fetch, got>>

(* The step of another run, with -d, -i and -Z alike.                       *)
OtherRun(b) ==
  /\ pc # "done"
  /\ cache' \in {[cache EXCEPT ![b] = Broken], [cache EXCEPT ![b] = Old(b)]}
  /\ touched' = touched \cup {b}
  /\ UNCHANGED <<builds, isOta, fetch, got, loopVars>>

Program ==
  \/ OpenCached
  \/ StartPlain \/ StartOta
  \/ Complete("plain") \/ Complete("archive")
  \/ PlainFails \/ ArchiveFails
  \/ Load
  \/ LoopStep

Next == Program \/ \E b \in Builds : OtherRun(b)

(* One thread, downloads have a timeout: it runs until it returns, and the *)
(* other runs do not keep it from running.                                 *)
Spec == Init /\ [][Next]_vars /\ WF_vars(Program)

---------------------------------------------------------------------------
(* Properties                                                              *)

(* Every manifest asked about is the whole manifest of its own URL, except *)
(* that the first one in hand may be what the cache held. A failed         *)
(* download is never taken for a manifest, and a duplicate build is asked  *)
(* about with its own manifest though it shares the file: unless another   *)
(* run wrote that file meanwhile.                                          *)
OwnManifest ==
  \A j \in DOMAIN got :
    got[j] \notin {Absent, Of(j)} =>
      \/ origin[j] = "cache" /\ \A i \in 1 .. j - 1 : got[i] = Absent
      \/ builds[j] \in touched

(* A manifest is only ever used for the build it was fetched for, by this  *)
(* run or by any other, and the cache left behind keeps them apart.        *)
RightBuild ==
  /\ \A b \in Builds :
       cache[b] \in {Absent, Broken, Old(b)} \cup {Of(i) : i \in {k \in DOMAIN builds : builds[k] = b}}
  /\ \A j \in DOMAIN got :
       got[j] \in {Absent, Broken, Old(builds[j])}
                    \cup {Of(i) : i \in {k \in DOMAIN builds : builds[k] = builds[j]}}

(* What a run leaves for the next one: the file of a build is the manifest *)
(* of the last URL of that build, and a failed download of that URL alone  *)
(* costs the cache a good file; a later failure of another build does not. *)
CacheHoldsLast ==
  pc = "done" =>
    \A j \in DOMAIN got :
      got[j] # Absent /\ builds[j] \notin touched
        /\ (\A k \in j + 1 .. Len(builds) : builds[k] # builds[j]) =>
          cache[builds[j]] = got[j]

(* With the downloads hidden this is the loop of VersionCheck, fairness    *)
(* included: its manifests come from the cache only while nocache is 0.    *)
ImplementsLoop == Loop!Spec
=============================================================================
