---------------------------- MODULE VersionOrder ----------------------------
(***************************************************************************)
(* The versions of a device: getListOfiOSForDevice lists them as texts and *)
(* sorts them with cmpfunc; main's -l walks over the list and picks one,   *)
(* printListOfiOSForDevice prints it (-2). A version is the sequence of    *)
(* its numbers; a text is a version and whether "[B]" follows it.          *)
(***************************************************************************)
EXTENDS Integers, Sequences, FiniteSets, FiniteSetsExt, Functions

CONSTANTS
  Versions,  \* sequences of numbers, 7.1.2 is <<7, 1, 2>>
  Listings   \* the firmwares a device may have

ReleaseTypes == {"absent", "Beta", "other"}
Entries == [version : Versions, releasetype : ReleaseTypes]
Texts == [version : Versions, marked : BOOLEAN]

ASSUME VersionAssumption ==
  /\ Versions \subseteq Seq(Nat) \ {<<>>}
  /\ Listings \subseteq Seq(Entries)

VARIABLES
  at,          \* "list", "walk", "print" or how it ended
  firmwares,   \* getFirmwaresForDevice
  purpose,     \* "latest" for -l, "print" for -2
  useBeta,     \* --beta
  versions,    \* the texts not walked over yet
  versionCnt,  \* main's, or the length of versions
  version,     \* versVals.version: a text, or NoText
  printed      \* output: the texts printed

given == <<firmwares, purpose, useBeta>>
vars == <<at, given, versions, versionCnt, version, printed>>

NoText == [version |-> <<>>, marked |-> FALSE]

Init ==
  /\ at = "list"
  /\ firmwares \in Listings
  /\ purpose \in {"latest", "print"}
  /\ useBeta \in BOOLEAN
  /\ versions = <<>>
  /\ versionCnt = 0
  /\ version = NoText
  /\ printed = <<>>

---------------------------------------------------------------------------
(* Mutations, used to test that the properties below bite.                 *)

CmpMajorOnly(a, b) == b.version[1] - a.version[1]

WalkKeepsMark ==
  /\ at = "walk"
  /\ version' = Head(versions)
  /\ at' = "picked"
  /\ UNCHANGED <<given, versions, versionCnt, printed>>

---------------------------------------------------------------------------
(* cmpfunc: the first numbers that differ decide, the larger comes first;  *)
(* else the longer version; else the one without a mark. Of two marked     *)
(* texts each comes after the other.                                       *)
Cmp(a, b) ==
  LET differ == {k \in DOMAIN a.version \cap DOMAIN b.version : a.version[k] # b.version[k]}
  IN IF differ # {} THEN b.version[Min(differ)] - a.version[Min(differ)]
     ELSE IF Len(a.version) # Len(b.version)
          THEN IF Len(a.version) < Len(b.version) THEN 1 ELSE -1
     ELSE IF ~a.marked THEN IF b.marked THEN -1 ELSE 0
     ELSE 1

(* What qsort leaves: no text stands after one that it comes before. The   *)
(* answers that contradict each other are about equal texts, whose order   *)
(* makes no difference.                                                    *)
Sorted(s) == \A j \in DOMAIN s : \A k \in 1 .. j - 1 : Cmp(s[j], s[k]) >= 0

(* printListOfiOSForDevice does not pass --beta on.                        *)
ParamBeta == purpose = "latest" /\ useBeta

Text(e) == [version |-> e.version, marked |-> e.releasetype = "Beta" /\ ParamBeta]

(* getListOfiOSForDevice                                                   *)
ListVersions ==
  /\ at = "list"
  /\ \E p \in Bijection(DOMAIN firmwares, DOMAIN firmwares) :
       versions' = [k \in DOMAIN firmwares |-> Text(firmwares[p[k]])]
  /\ Sorted(versions')
  /\ versionCnt' = Len(firmwares)
  /\ at' = IF firmwares # <<>> THEN IF purpose = "latest" THEN "walk" ELSE "print"
           ELSE IF purpose = "latest" THEN "empty"
           ELSE "crashed"                        \* free(versions[-1])
  /\ UNCHANGED <<given, version, printed>>

(* The walk of -l. It would pass over texts marked "[B]" without --beta,   *)
(* but without --beta the list has none: ParamBeta. Otherwise it takes the *)
(* text and cuts the mark off.                                             *)
Walk ==
  /\ at = "walk"
  /\ IF Head(versions).marked /\ ~useBeta
     THEN /\ versionCnt' = versionCnt - 1
          /\ versions' = Tail(versions)
          /\ at' = IF versionCnt' = 0 THEN "noPublic" ELSE "walk"
          /\ UNCHANGED version
     ELSE /\ version' = [Head(versions) EXCEPT !.marked = FALSE]
          /\ at' = "picked"
          /\ UNCHANGED <<versions, versionCnt>>
  /\ UNCHANGED <<given, printed>>

(* One round of the loop of printListOfiOSForDevice: nothing is printed    *)
(* for a text equal to the one before, which version keeps here.           *)
PrintOne ==
  /\ at = "print"
  /\ versions # <<>>
  /\ printed' = IF Head(versions) = version THEN printed ELSE Append(printed, Head(versions))
  /\ version' = Head(versions)
  /\ versions' = Tail(versions)
  /\ UNCHANGED <<at, given, versionCnt>>

PrintDone ==
  /\ at = "print"
  /\ versions = <<>>
  /\ at' = "printed"
  /\ UNCHANGED <<given, versions, versionCnt, version, printed>>

Next == ListVersions \/ Walk \/ PrintOne \/ PrintDone

Spec == Init /\ [][Next]_vars /\ WF_vars(Next)

---------------------------------------------------------------------------
(* Properties                                                              *)

(* The release order a reader expects: 10 after 9, 7.1.2 after 7.1, and    *)
(* defined without cmpfunc: later means a larger number where they first   *)
(* part, or further numbers.                                               *)
Later(v, w) ==
  \/ \E k \in DOMAIN v \cap DOMAIN w : v[k] > w[k] /\ \A j \in 1 .. k - 1 : v[j] = w[j]
  \/ Len(v) > Len(w) /\ \A j \in DOMAIN w : v[j] = w[j]

Listed == {firmwares[k] : k \in DOMAIN firmwares}

(* -l picks a version of the listing, without "[B]", that no entry of the  *)
(* listing is later than, wherever in the listing it stands.               *)
NewestPicked ==
  at = "picked" =>
    /\ version \in {[version |-> e.version, marked |-> FALSE] : e \in Listed}
    /\ \A e \in Listed : ~Later(e.version, version.version)

(* The list printed is in falling order and has each version once: cmpfunc *)
(* brings equal texts together, and only neighbours are compared when the  *)
(* list is printed.                                                        *)
PrintsEachOnce ==
  at = "printed" =>
    /\ {t.version : t \in Range(printed)} = {e.version : e \in Listed}
    /\ \A j \in DOMAIN printed : \A k \in 1 .. j - 1 :
         Later(printed[k].version, printed[j].version)

(* main.c line 89 and README.md say of -l: "use the latest public firmware *)
(* version". Then, unless --beta is given, it picks the newest version     *)
(* that is not a beta when there is one.                                   *)
LatestIsPublic ==
  at = "picked" /\ ~useBeta =>
    LET public == {e.version : e \in {f \in Listed : f.releasetype # "Beta"}}
    IN public # {} =>
         /\ version.version \in public
         /\ \A v \in public : ~Later(v, version.version)
=============================================================================
