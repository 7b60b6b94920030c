---------------------------- MODULE CommandLine ----------------------------
(***************************************************************************)
(* main (main.c) with isManifestSignedForDevice: one run of the program.   *)
(* The options are read one after the other, then values are parsed,       *)
(* conflicts refused, a listing is loaded, the latest version picked, and  *)
(* the run ends with a list or with a check. Null pointers are followed    *)
(* where main and the functions that load its files do not test them: the  *)
(* run ends in a crash. Inside a session no pointers are modelled.         *)
(***************************************************************************)
EXTENDS Integers, Sequences, FiniteSets, FiniteSetsExt

CONSTANTS
  Devices,     \* the models -d and libirecovery may name, "none" excluded
  ListedDevices,  \* by Given("o"): those with firmwares in the listing
  irecvDevices,   \* libirecovery's table: product_type and hardware_model
  bbdevices,      \* deviceModel and the bytes of its baseband's serial number
  Serials,     \* the arguments of -c: see SerialLength
  Options,     \* the pairs of an option and its argument that may be given
  MaxOptions   \* bound: options on the command line

Names == {"d", "B", "i", "Z", "e", "8", "9", "t", "g", "x", "b", "c", "m", "r", "u", "E",
          "o", "l", "1", "2", "7"}

(* "none" stands for an option that is not given, "bad" for a value that   *)
(* parseECID, parseNonce or parseHex refuses.                              *)
ASSUME CommandAssumption ==
  /\ "none" \notin Devices
  /\ ListedDevices \in [BOOLEAN -> SUBSET Devices]
  /\ irecvDevices \in Seq([product_type : Devices, hardware_model : STRING])
  /\ bbdevices \in Seq([deviceModel : Devices, bbsnumSize : Nat])
  /\ \A s \in DOMAIN Serials : Serials[s] \in [hex : Nat \cup {-1}, base64 : Nat]
  /\ Options \subseteq Names \X STRING
  /\ \A o \in Options :
       /\ o[2] # "none"
       /\ o[2] = "bad" => o[1] \in {"e", "8", "9", "t", "g", "x"}
       /\ o[1] = "d" => o[2] \in Devices
       /\ o[1] = "c" => o[2] \in DOMAIN Serials
  /\ MaxOptions \in Nat

VARIABLES
  at,           \* where main stands
  arg,          \* arg[o]: the last argument of option o, "none" if not given
  count,        \* options read
  installType,  \* devVals.installType
  nocache,      \* the global
  model,        \* devVals.deviceModel
  serial,       \* devVals.bbsnumSize
  version,      \* versVals.version: "none", "old" (iOS 3 or lower) or "new"
  tokens,       \* firmwareTokens: "null", "broken" or "parsed"
  err,          \* main's err
  isSigned,     \* main's isSigned
  asked,        \* history: what became of the request for tickets
  unstored      \* history: the file that could not be created or opened again,
                \* "no", the "listing" or a "manifest"

data == <<arg, count, installType, nocache, model, serial, version, tokens, isSigned,
          asked, unstored>>
vars == <<at, err, data>>

Given(o) == arg[o] # "none"

Listed == model \in ListedDevices[Given("o")]

Init ==
  /\ at = "options"
  /\ arg = [o \in Names |-> "none"]
  /\ count = 0
  /\ installType = "Default"
  /\ nocache = FALSE
  /\ model = "none"
  /\ serial = 0
  /\ version = "none"
  /\ tokens = "null"
  /\ err = 0
  /\ isSigned = 0
  /\ asked = "no"
  /\ unstored = "no"

(* reterror, and the returns without clean-up.                             *)
Exit(code) == at' = "done" /\ err' = code
Crash == at' = "crashed" /\ UNCHANGED err
Continue(next) == at' = next /\ UNCHANGED err

---------------------------------------------------------------------------
(* Mutations, used to test that the properties below bite.                 *)

CryptexPairOneWay == Given("t") => Given("x")

UpdateOverOtaAlways == IF Given("o") THEN "Update" ELSE "Default"

ExitStatusOfError == err % 256

DispatchListsAnyDevice ==
  /\ at = "dispatch"
  /\ Given("2") /\ ~Given("1")
  /\ IF tokens = "parsed" /\ Listed THEN Continue("done") ELSE Crash
  /\ UNCHANGED data

---------------------------------------------------------------------------
(* The options (getopt_long).                                              *)

unread == <<model, serial, version, tokens, isSigned, asked, unstored>>

(* argc == 1, or an option that does not exist.                            *)
Usage ==
  /\ at = "options"
  /\ Exit(-1)
  /\ UNCHANGED <<arg, count, installType, nocache, unread>>

Help ==
  /\ at = "options"
  /\ at' = "helped"
  /\ UNCHANGED <<err, arg, count, installType, nocache, unread>>

(* The last of several wins, but for a second -i; -g and -x are parsed at  *)
(* once; -u and -E also write the install type.                            *)
Option(o, a) ==
  /\ at = "options"
  /\ count < MaxOptions
  /\ count' = count + 1
  /\ CASE o = "i" /\ Given("i")            -> Exit(-9)
       [] o \in {"g", "x"} /\ a = "bad"    -> Exit(-10)
       [] OTHER                            -> Continue("options")
  /\ arg' = [arg EXCEPT ![o] = a]
  /\ installType' = CASE o = "u" -> "Update" [] o = "E" -> "Erase" [] OTHER -> installType
  /\ nocache' = (nocache \/ o = "7")
  /\ UNCHANGED unread

---------------------------------------------------------------------------
(* From the arguments to devVals and versVals.                             *)

(* A row of libirecovery's table, unless another one matches as well.      *)
UniqueRow(rows) == IF Cardinality(rows) = 1 THEN irecvDevices[Min(rows)]
                   ELSE [product_type |-> "none", hardware_model |-> "none"]

ModelFromBoardconfig(boardconfig) ==
  UniqueRow({k \in DOMAIN irecvDevices : irecvDevices[k].hardware_model = boardconfig}).product_type

BoardconfigFromModel(m) ==
  UniqueRow({k \in DOMAIN irecvDevices : irecvDevices[k].product_type = m}).hardware_model

(* -r is not supported. The model comes from -d or from the board's.       *)
ResolveDevice ==
  /\ at = "options"
  /\ version' = arg["i"]
  /\ model' = IF ~Given("d") /\ Given("B") THEN ModelFromBoardconfig(arg["B"]) ELSE arg["d"]
  /\ IF Given("r") THEN Exit(1)
     ELSE IF Given("B") /\ model' = "none" THEN Exit(-25)
     ELSE Continue("values")
  /\ UNCHANGED <<arg, count, installType, nocache, serial, tokens, isSigned, asked, unstored>>

CryptexPair == Given("t") <=> Given("x")

(* parseECID and parseNonce; a cryptex seed and nonce go together.         *)
ParseValues ==
  /\ at = "values"
  /\ IF (\E o \in {"e", "8", "9", "t"} : arg[o] = "bad") \/ ~CryptexPair
     THEN Exit(-7)
     ELSE Continue("serial")
  /\ UNCHANGED data

(* getBBDeviceInfo: the first row, or the zeroed one that ends the table.  *)
BbsnumSize(m) ==
  LET rows == {k \in DOMAIN bbdevices : bbdevices[k].deviceModel = m}
  IN IF rows = {} THEN 0 ELSE bbdevices[Min(rows)].bbsnumSize

(* The serial number's length: its bytes as base64 if there are some and   *)
(* no more than the device's, else as hexadecimal digits, which may be     *)
(* none, -1 if parseNonce refuses the text.                                *)
SerialLength(text, size) ==
  LET s == Serials[text]
  IN IF s.base64 \in 1 .. size THEN s.base64 ELSE s.hex

CheckSerial ==
  /\ at = "serial"
  /\ Given("c")
  /\ serial' = IF model = "none" THEN 0 ELSE SerialLength(arg["c"], BbsnumSize(model))
  /\ IF model = "none" THEN Crash                   \* getBBDeviceInfo(NULL)
     ELSE IF BbsnumSize(model) = 0 THEN Exit(-8)
     ELSE IF serial' = -1 THEN Exit(-7)
     ELSE IF serial' # BbsnumSize(model) THEN Exit(-8)
     ELSE Continue("listing")
  /\ UNCHANGED <<arg, count, installType, nocache, model, version, tokens, isSigned, asked,
                 unstored>>

(* kBasebandModeWithBaseband is 0, so it is the mode without -b.           *)
BasebandMode == IF Given("b") THEN arg["b"] ELSE "With"

NeedsSerial == BasebandMode \in {"With", "Only"}

CheckNoSerial ==
  /\ at = "serial"
  /\ ~Given("c")
  /\ IF NeedsSerial THEN Exit(-7) ELSE Continue("listing")
  /\ UNCHANGED data

---------------------------------------------------------------------------
(* The listing, not loaded for a manifest file. JsonCache has its details. *)

SkipListing ==
  /\ at = "listing"
  /\ Given("m")
  /\ Continue("latest")
  /\ UNCHANGED data

(* downloadFile writes into a file it may not have been able to create,    *)
(* and its callers read the file without a look whether it was opened.     *)
UseUnopened(file) ==
  /\ unstored' = file
  /\ Crash

(* "there are no erase installs over OTA"; an install type given stays.    *)
TypeForListing ==
  IF installType = "Default" /\ Given("o") THEN "Update" ELSE installType

(* getFirmwareJson or getOtaJson, before the install type is written.      *)
LoadListing ==
  /\ at = "listing"
  /\ ~Given("m")
  /\ \/ /\ installType' = TypeForListing
        /\ tokens' \in {"broken", "parsed"}
        /\ Continue("parsed")
        /\ UNCHANGED unstored
     \/ /\ UseUnopened("listing")
        /\ UNCHANGED <<installType, tokens>>
  /\ UNCHANGED <<arg, count, nocache, model, serial, version, isSigned, asked>>

ForbidCache == nocache' = TRUE

Reparse ==
  /\ at = "parsed"
  /\ tokens = "broken"
  /\ ~nocache
  /\ ForbidCache
  /\ Continue("listing")
  /\ UNCHANGED <<arg, count, installType, model, serial, version, tokens, isSigned, asked,
                 unstored>>

ListingDone ==
  /\ at = "parsed"
  /\ tokens = "broken" => nocache
  /\ IF tokens = "broken" THEN Exit(-2) ELSE Continue("latest")
  /\ UNCHANGED data

---------------------------------------------------------------------------
WantsLatest == Given("l") /\ version = "none"

(* getListOfiOSForDevice compares a null device with those of the listing, *)
(* which has some; for -m the listing is null, which it tests for OTA and  *)
(* hands to jssy otherwise. VersionOrder has the choice of the version.    *)
PickLatest ==
  /\ at = "latest"
  /\ WantsLatest
  /\ \/ /\ tokens = "parsed" /\ Listed
        /\ version' \in {"old", "new"}
        /\ Continue("dispatch")
     \/ /\ tokens = "parsed" => model # "none" /\ ~Listed
        /\ Exit(-8)
        /\ UNCHANGED version
     \/ /\ IF tokens = "parsed" THEN model = "none" ELSE ~Given("o")
        /\ Crash
        /\ UNCHANGED version
  /\ UNCHANGED <<arg, count, installType, nocache, model, serial, tokens, isSigned, asked,
                 unstored>>

KeepVersion ==
  /\ at = "latest"
  /\ ~WantsLatest
  /\ Continue("dispatch")
  /\ UNCHANGED data

(* printListOfDevices.                                                     *)
ListDevices ==
  /\ at = "dispatch"
  /\ Given("1")
  /\ IF tokens = "parsed" THEN Continue("done") ELSE Crash
  /\ UNCHANGED data

(* printListOfiOSForDevice does not look whether the device was found and  *)
(* has a version.                                                          *)
ListVersions ==
  /\ at = "dispatch"
  /\ Given("2") /\ ~Given("1")
  /\ IF model = "none" THEN Exit(-3)
     ELSE IF tokens = "parsed" /\ Listed THEN Continue("done")
     ELSE Crash
  /\ UNCHANGED data

Checking == at = "dispatch" /\ ~Given("1") /\ ~Given("2")

(* The result of a check: an error, "is not signed" or "is signed".        *)
Verdict(answer) ==
  /\ asked' = answer
  /\ isSigned' = CASE answer = "failed" -> -1 [] answer = "refused" -> 0 [] OTHER -> 1
  /\ IF answer = "failed" THEN Exit(-69) ELSE Continue("done")

(* What the signing session looks identities up with.                      *)
Board == IF Given("B") THEN arg["B"] ELSE BoardconfigFromModel(model)

(* Without a board no request can be built. TicketSession has the session. *)
Answers == IF Board = "none" THEN {"failed"} ELSE {"failed", "refused", "granted"}

(* isManifestSignedForDevice: the file's device list decides, and when it  *)
(* does not name the device, any product id at all will do.                *)
CheckManifestFile ==
  /\ Checking
  /\ Given("m")
  /\ version' = IF arg["m"] # "missing" /\ version = "none" THEN "new" ELSE version
  /\ IF model = "none" \/ arg["m"] \notin {"namesDevice", "hasIds"}
     THEN asked' = asked /\ isSigned' = -1 /\ Exit(-69)
     ELSE \E a \in Answers : Verdict(a)
  /\ UNCHANGED <<arg, count, installType, nocache, model, serial, tokens, unstored>>

(* isVersionSignedForDevice answers for iOS 3 by itself; VersionCheck has  *)
(* the rest. A listed device may have URLs whose manifests are stored, by  *)
(* downloadFile or by libfragmentzip, and opened again.                    *)
CheckVersion ==
  /\ Checking
  /\ ~Given("m")
  /\ \/ /\ IF model = "none" THEN Exit(-3) /\ UNCHANGED <<asked, isSigned>>
           ELSE IF version = "none" /\ ~Given("Z") THEN Exit(-5) /\ UNCHANGED <<asked, isSigned>>
           ELSE \E a \in IF version = "old" THEN {"exempt"} ELSE Answers : Verdict(a)
        /\ UNCHANGED unstored
     \/ /\ Listed
        /\ version # "old"
        /\ version # "none" \/ Given("Z")
        /\ UseUnopened("manifest")
        /\ UNCHANGED <<asked, isSigned>>
  /\ UNCHANGED <<arg, count, installType, nocache, model, serial, version, tokens>>

(* What the shell sees: err ? err : !isSigned, in eight bits.              *)
ExitStatus ==
  IF at = "helped" THEN 0 ELSE IF err # 0 THEN err % 256 ELSE IF isSigned # 0 THEN 0 ELSE 1

Next ==
  \/ Usage \/ Help
  \/ \E o \in Options : Option(o[1], o[2])
  \/ ResolveDevice \/ ParseValues \/ CheckSerial \/ CheckNoSerial
  \/ SkipListing \/ LoadListing \/ Reparse \/ ListingDone
  \/ PickLatest \/ KeepVersion
  \/ ListDevices \/ ListVersions
  \/ CheckManifestFile \/ CheckVersion

(* Sequential code: it runs until the process ends.                        *)
Spec == Init /\ [][Next]_vars /\ WF_vars(Next)

---------------------------------------------------------------------------
(* Properties                                                              *)

(* Scripts read the exit status: it is 0 for -h and otherwise exactly when *)
(* the server granted the ticket, or none is needed for iOS 3 and lower.   *)
(* No error, refusal, list or usage message is taken for "signed".         *)
ExitTellsAnswer ==
  at \in {"done", "helped"} =>
    (ExitStatus = 0 <=> at = "helped" \/ asked \in {"granted", "exempt"})

(* Whatever the order of the options, the server is asked only when every  *)
(* value was understood, a cryptex seed and nonce came together, and no    *)
(* baseband ticket can be asked for with a serial number that is missing   *)
(* or not of the device's length. A session relies on all of it.           *)
AsksOnlyConsistently ==
  asked # "no" =>
    /\ \A o \in Names : arg[o] # "bad"
    /\ Given("t") <=> Given("x")
    /\ model \in Devices
    /\ NeedsSerial \/ Given("c") => serial = BbsnumSize(model) /\ serial > 0

(* What TicketSession's Init assumes of the install type: with -u or -E it *)
(* is one of those given; over OTA it is Update unless -E or -m is given;  *)
(* otherwise it is the default. A reparse changes nothing.                 *)
InstallTypeAsSaid ==
  asked # "no" =>
    installType \in IF Given("u") \/ Given("E")
                    THEN {t \in {"Update", "Erase"} :
                            (t = "Update" => Given("u")) /\ (t = "Erase" => Given("E"))}
                    ELSE IF Given("o") /\ ~Given("m") THEN {"Update"} ELSE {"Default"}

(* Where main and the functions that load its files follow a null pointer: *)
(* -c or -l without a device, -2 for a device the listing does not have,   *)
(* -m with a list or -l, and, without -m, a listing or a listed device's   *)
(* manifest whose file could not be created or opened again. With its      *)
(* files stored and none of these given, a command line ends with an exit  *)
(* status, unless the session itself does not return.                      *)
CrashCauses ==
  at = "crashed" =>
    \/ unstored = "listing" /\ ~Given("m")
    \/ unstored = "manifest" /\ ~Given("m") /\ Listed /\ version # "old"
    \/ model = "none" /\ (Given("c") \/ Given("l"))
    \/ Given("m") /\ (Given("1") \/ Given("2") \/ Given("l"))
    \/ Given("2") /\ model # "none" /\ ~Listed

(* main.c line 98 and README.md say of -c: "not required for saving        *)
(* blobs". Then leaving it out is no reason to refuse a command line.      *)
SerialNotRequired ==
  at = "done" /\ err = -7 =>
    \/ \E o \in Names : arg[o] = "bad"
    \/ ~CryptexPair
    \/ Given("c")
=============================================================================
