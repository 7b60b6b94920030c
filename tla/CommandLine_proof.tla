-------------------------- MODULE CommandLine_proof --------------------------
(***************************************************************************)
(* Proofs about CommandLine, for command lines of every length and tables  *)
(* of every size: what the exit status tells, with what arguments the      *)
(* server is asked, which install type it is asked for, and where main     *)
(* crashes.                                                                *)
(*                                                                         *)
(* The places where main, or the functions that load its files, follow a   *)
(* null pointer are its own; a session is one step here, and no pointer in *)
(* it is modelled.                                                         *)
(*                                                                         *)
(* What each test of main has established is known at every place behind   *)
(* it: Understood, SerialFits, TypeFollows and Loaded say from where on.   *)
(***************************************************************************)
EXTENDS CommandLine, FiniteSetTheorems, TLAPS

Ended == {"done", "helped", "crashed"}
BehindListing == {"parsed", "latest", "dispatch"}
BehindSerial == {"listing"} \cup BehindListing
BehindValues == {"serial"} \cup BehindSerial

Types ==
  /\ at \in {"options", "values"} \cup BehindValues \cup Ended
  /\ DOMAIN arg = Names
  /\ tokens \in {"null", "broken", "parsed"}
  /\ model \in Devices \cup {"none"}
  /\ asked \in {"no", "failed", "refused", "granted", "exempt"}
  /\ Given("c") => arg["c"] \in DOMAIN Serials
  /\ Given("d") => arg["d"] \in Devices
  /\ \A o \in Names : arg[o] = "bad" => o \in {"e", "8", "9", "t", "g", "x"}

(* Only a check sets the answer, and a run that ends otherwise has an error *)
(* that the shell sees. Nothing is asked without a device.                 *)
Answered ==
  /\ at # "done" => asked = "no" /\ err = 0 /\ isSigned = 0
  /\ err \in {0, 1, -1, -2, -3, -5, -7, -8, -9, -10, -25, -69}
  /\ err = 0 => isSigned \in {0, 1} /\ (isSigned = 1 <=> asked \in {"granted", "exempt"})
  /\ err # 0 => asked \in {"no", "failed"}
  /\ asked # "no" => model \in Devices

(* A value of -g or -x that is refused ends the run at once, the others    *)
(* are parsed together; afterwards the arguments do not change.            *)
Understood ==
  /\ at \notin Ended => arg["g"] # "bad" /\ arg["x"] # "bad"
  /\ at \in BehindValues \/ asked # "no" =>
       CryptexPair /\ \A o \in Names : arg[o] # "bad"

SerialFits ==
  (at \in BehindSerial \/ asked # "no") /\ (NeedsSerial \/ Given("c")) =>
    serial = BbsnumSize(model) /\ serial > 0

TypesGiven ==
  {t \in {"Update", "Erase"} : (t = "Update" => Given("u")) /\ (t = "Erase" => Given("E"))}

(* Without -u and -E the default stays until a listing is loaded over OTA. *)
TypeFollows ==
  IF Given("u") \/ Given("E") THEN installType \in TypesGiven
  ELSE IF Given("o") /\ ~Given("m")
       THEN /\ installType \in {"Default", "Update"}
            /\ at \in {"options", "values", "serial"} => installType = "Default"
            /\ at \in BehindListing \/ asked # "no" => installType = "Update"
       ELSE installType = "Default"

(* Only -m comes this far without a listing.                               *)
Loaded ==
  /\ at = "parsed" => tokens # "null"
  /\ at \in {"latest", "dispatch"} => tokens = "parsed" \/ Given("m")

Inv ==
  /\ Types
  /\ Answered
  /\ Understood
  /\ SerialFits
  /\ TypeFollows
  /\ Loaded
  /\ CrashCauses

---------------------------------------------------------------------------
(* Tables.                                                                 *)

(* The model found for a board is one of the table's.                      *)
LEMMA ModelFound ==
  ASSUME NEW boardconfig
  PROVE  ModelFromBoardconfig(boardconfig) \in Devices \cup {"none"}
<1> DEFINE Row == [product_type : Devices, hardware_model : STRING]
           rows == {k \in DOMAIN irecvDevices : irecvDevices[k].hardware_model = boardconfig}
<1>1. IsFiniteSet(rows)
  <2>1. DOMAIN irecvDevices = 1 .. Len(irecvDevices) /\ Len(irecvDevices) \in Nat
    BY CommandAssumption
  <2>2. IsFiniteSet(1 .. Len(irecvDevices))
    BY <2>1, FS_Interval
  <2> QED
    BY <2>1, <2>2, FS_Subset
<1>2. CASE Cardinality(rows) = 1
  <2>1. PICK k : rows = {k}
    BY <1>1, <1>2, FS_Singleton
  <2>2. Min(rows) = k
    BY <2>1 DEF Min
  <2>3. irecvDevices \in Seq(Row) /\ k \in DOMAIN irecvDevices
    BY <2>1, CommandAssumption
  <2>4. irecvDevices[k] \in Row
    <3> HIDE DEF Row
    <3> QED
      BY <2>3
  <2> QED
    BY <1>2, <2>2, <2>4 DEF ModelFromBoardconfig, UniqueRow
<1>3. CASE Cardinality(rows) # 1
  BY <1>3 DEF ModelFromBoardconfig, UniqueRow
<1> QED
  BY <1>2, <1>3

LEMMA SerialLengthIn ==
  ASSUME NEW text \in DOMAIN Serials, NEW size
  PROVE  SerialLength(text, size) \in Nat \cup {-1}
BY CommandAssumption DEF SerialLength

LEMMA InitInv == Init => Inv
BY DEF Init, Inv, Types, Answered, Understood, SerialFits, TypeFollows, Loaded,
       CrashCauses, Given, BehindValues, BehindSerial, BehindListing, Ended, Names

---------------------------------------------------------------------------
(* The options.                                                            *)

LEMMA StopInv == ASSUME Inv, Usage \/ Help PROVE Inv'
<1> USE DEF Inv
<1>1. /\ at = "options" /\ at' \in {"done", "helped"}
      /\ at' = "done" => err' = -1
      /\ at' = "helped" => err' = err
      /\ UNCHANGED <<arg, installType, model, serial, tokens, isSigned, asked>>
  BY DEF Usage, Help, Exit, unread
<1>2. Types'
  BY <1>1 DEF Types, Given, Ended
<1>3. Answered' /\ Understood' /\ SerialFits' /\ TypeFollows' /\ Loaded' /\ CrashCauses'
  BY <1>1
  DEF Answered, Understood, SerialFits, TypeFollows, TypesGiven, Loaded, CrashCauses,
      Given, Ended, BehindListing, BehindSerial, BehindValues
<1> QED
  BY <1>2, <1>3

LEMMA OptionInv ==
  ASSUME Inv, NEW o \in Options, Option(o[1], o[2]) PROVE Inv'
<1> USE DEF Inv
<1>1. /\ o[1] \in Names /\ o[2] # "none"
      /\ o[2] = "bad" => o[1] \in {"e", "8", "9", "t", "g", "x"}
      /\ o[1] = "d" => o[2] \in Devices
      /\ o[1] = "c" => o[2] \in DOMAIN Serials
  BY CommandAssumption
<1>2. /\ at = "options"
      /\ \/ at' = "options" /\ err' = err /\ ~(o[1] \in {"g", "x"} /\ o[2] = "bad")
         \/ at' = "done" /\ err' \in {-9, -10}
      /\ arg' = [arg EXCEPT ![o[1]] = o[2]]
      /\ o[1] = "u" => installType' = "Update"
      /\ o[1] = "E" => installType' = "Erase"
      /\ o[1] \notin {"u", "E"} => installType' = installType
      /\ UNCHANGED unread
  BY DEF Option, Exit, Continue
<1>3. arg'[o[1]] = o[2] /\ \A n \in Names \ {o[1]} : arg'[n] = arg[n]
  BY <1>1, <1>2 DEF Types
<1>4. Types'
  BY <1>1, <1>2, <1>3 DEF Types, Given, unread, Ended, Names
<1>5. Answered' /\ Loaded' /\ CrashCauses'
  BY <1>2 DEF Answered, Loaded, CrashCauses, unread
<1>6. Understood'
  BY <1>1, <1>2, <1>3
  DEF Understood, Answered, unread, Ended, Names, BehindListing, BehindSerial, BehindValues
<1>7. SerialFits'
  BY <1>2 DEF SerialFits, Answered, unread, BehindListing, BehindSerial
<1>8. TypeFollows'
  <2>1. /\ \A n \in Names : Given(n) => Given(n)'
        /\ Given(o[1])'
        /\ \A n \in Names \ {o[1]} : Given(n)' => Given(n)
    BY <1>1, <1>3 DEF Given
  <2>2. at' \notin BehindListing /\ asked' = "no" /\ at \notin BehindListing /\ asked = "no"
    BY <1>2 DEF Answered, unread, BehindListing
  <2>3. CASE o[1] = "u"
    BY <1>2, <2>1, <2>3 DEF TypeFollows, TypesGiven, Names
  <2>4. CASE o[1] = "E"
    BY <1>2, <2>1, <2>4 DEF TypeFollows, TypesGiven, Names
  <2>5. CASE o[1] \notin {"u", "E"}
    <3>1. (Given("u") <=> Given("u")') /\ (Given("E") <=> Given("E")')
      BY <2>1, <2>5 DEF Names
    <3>2. installType' = installType /\ at = "options" /\ at' \in {"options", "done"}
      BY <1>2, <2>5
    <3> QED
      BY <2>2, <3>1, <3>2 DEF TypeFollows, TypesGiven
  <2> QED
    BY <2>3, <2>4, <2>5
<1> QED
  BY <1>4, <1>5, <1>6, <1>7, <1>8

---------------------------------------------------------------------------
(* From the arguments to the listing. The arguments stay, so does what is  *)
(* known of them.                                                          *)

LEMMA ResolveDeviceInv == ASSUME Inv, ResolveDevice PROVE Inv'
<1> USE DEF Inv
<1>1. /\ at = "options" /\ at' \in {"done", "values"}
      /\ at' = "done" => err' \in {1, -25}
      /\ at' = "values" => err' = err
      /\ model' = IF ~Given("d") /\ Given("B") THEN ModelFromBoardconfig(arg["B"]) ELSE arg["d"]
      /\ UNCHANGED <<arg, installType, serial, tokens, isSigned, asked>>
  BY DEF ResolveDevice, Exit, Continue
<1>2. model' \in Devices \cup {"none"}
  BY <1>1, ModelFound DEF Types, Given
<1>3. Types'
  BY <1>1, <1>2 DEF Types, Given, Ended
<1>4. Answered' /\ Understood' /\ SerialFits' /\ TypeFollows' /\ Loaded' /\ CrashCauses'
  BY <1>1
  DEF Answered, Understood, SerialFits, TypeFollows, TypesGiven, Loaded, CrashCauses,
      Given, Ended, BehindListing, BehindSerial, BehindValues
<1> QED
  BY <1>3, <1>4

(* A bad argument is one of those tested here or was refused when read.    *)
LEMMA ParseValuesInv == ASSUME Inv, ParseValues PROVE Inv'
<1> USE DEF Inv
<1>1. /\ at = "values" /\ at' \in {"done", "serial"}
      /\ at' = "done" => err' = -7
      /\ at' = "serial" => /\ err' = err /\ CryptexPair
                           /\ \A o \in {"e", "8", "9", "t"} : arg[o] # "bad"
      /\ UNCHANGED data
  BY DEF ParseValues, Exit, Continue
<1>2. Types' /\ Answered' /\ Loaded' /\ CrashCauses'
  BY <1>1 DEF Types, Answered, Loaded, CrashCauses, Given, Ended, BehindValues, data
<1>3. Understood'
  BY <1>1
  DEF Types, Answered, Understood, CryptexPair, Given, data, Ended, BehindListing, BehindSerial, BehindValues
<1>4. SerialFits' /\ TypeFollows'
  BY <1>1
  DEF Answered, SerialFits, TypeFollows, TypesGiven, Given, data, BehindListing, BehindSerial
<1> QED
  BY <1>2, <1>3, <1>4

LEMMA CheckSerialInv == ASSUME Inv, CheckSerial PROVE Inv'
<1> USE DEF Inv
<1>1. /\ at = "serial" /\ at' \in {"done", "crashed", "listing"}
      /\ at' = "done" => err' \in {-7, -8}
      /\ at' # "done" => err' = err
      /\ at' = "crashed" => model = "none" /\ Given("c")
      /\ at' = "listing" => serial' = BbsnumSize(model) /\ serial' \notin {0, -1}
      /\ serial' = IF model = "none" THEN 0 ELSE SerialLength(arg["c"], BbsnumSize(model))
      /\ UNCHANGED <<arg, count, installType, nocache, model, version, tokens, isSigned, asked>>
  BY DEF CheckSerial, Exit, Continue, Crash
<1>2. serial' \in Nat \cup {-1}
  BY <1>1, SerialLengthIn DEF Types, CheckSerial
<1>3. BbsnumSize(model)' = BbsnumSize(model)
  BY <1>1 DEF BbsnumSize
<1>4. Types' /\ Answered' /\ Loaded' /\ CrashCauses'
  BY <1>1 DEF Types, Answered, Loaded, CrashCauses, Given, Ended, BehindSerial, BehindValues
<1>5. Understood' /\ TypeFollows'
  BY <1>1
  DEF Answered, Understood, CryptexPair, TypeFollows, TypesGiven, Given, Ended, BehindListing, BehindSerial, BehindValues
<1>6. SerialFits'
  BY <1>1, <1>2, <1>3 DEF Answered, SerialFits, BehindListing, BehindSerial
<1> QED
  BY <1>4, <1>5, <1>6

LEMMA CheckNoSerialInv == ASSUME Inv, CheckNoSerial PROVE Inv'
<1> USE DEF Inv
<1>1. /\ at = "serial" /\ at' \in {"done", "listing"} /\ ~Given("c")
      /\ at' = "done" => err' = -7
      /\ at' = "listing" => err' = err /\ ~NeedsSerial
      /\ UNCHANGED data
  BY DEF CheckNoSerial, Exit, Continue
<1>2. Types' /\ Answered' /\ Loaded' /\ CrashCauses'
  BY <1>1 DEF Types, Answered, Loaded, CrashCauses, Given, Ended, BehindSerial, BehindValues, data
<1>3. Understood' /\ TypeFollows'
  BY <1>1
  DEF Answered, Understood, CryptexPair, TypeFollows, TypesGiven, Given, data, Ended, BehindListing, BehindSerial, BehindValues
<1>4. SerialFits'
  BY <1>1
  DEF Answered, SerialFits, NeedsSerial, BasebandMode, Given, data, BehindListing, BehindSerial
<1> QED
  BY <1>2, <1>3, <1>4

---------------------------------------------------------------------------
(* From the listing to the end. What is known from here on is known of     *)
(* data that does not change any more.                                     *)

(* What the tests of the arguments have established stays.                 *)
LEMMA TestedStays ==
  ASSUME Inv, at \in BehindSerial, at' \in BehindSerial \cup Ended,
         UNCHANGED <<arg, model, serial>>
  PROVE  Understood' /\ SerialFits'
<1> USE DEF Inv
<1>1. Understood'
  BY DEF Understood, CryptexPair, Given, Ended, BehindListing, BehindSerial, BehindValues
<1>2. BbsnumSize(model)' = BbsnumSize(model)
  BY DEF BbsnumSize
<1>3. SerialFits'
  BY <1>2 DEF SerialFits, NeedsSerial, BasebandMode, Given
<1> QED
  BY <1>1, <1>3

LEMMA ListingInv ==
  ASSUME Inv, SkipListing \/ LoadListing \/ Reparse \/ ListingDone PROVE Inv'
<1> USE DEF Inv
<1>1. /\ at \in {"listing", "parsed"}
      /\ at' \in {"listing", "parsed", "latest", "done", "crashed"}
      /\ at' = "crashed" => unstored' = "listing" /\ ~Given("m")
      /\ at' = "done" => err' = -2
      /\ at' # "done" => err' = err
      /\ at' = "latest" => tokens' = "parsed" \/ Given("m")
      /\ at' = "parsed" => tokens' # "null"
      /\ tokens' \in {"null", "broken", "parsed"}
      /\ UNCHANGED <<arg, model, serial, isSigned, asked>>
  BY DEF SkipListing, LoadListing, UseUnopened, Reparse, ListingDone, Exit, Crash, Continue,
         data, Types, Loaded
<1>2. Understood' /\ SerialFits'
  BY <1>1, TestedStays DEF BehindListing, BehindSerial, Ended
<1>3. Types' /\ Answered' /\ Loaded' /\ CrashCauses'
  BY <1>1
  DEF Types, Answered, Loaded, CrashCauses, Given, Ended, BehindListing, BehindSerial, BehindValues
<1>4. TypeFollows'
  <2>1. CASE LoadListing
    <3>1. /\ at = "listing" /\ ~Given("m") /\ asked = "no"
          /\ \/ at' = "parsed" /\ installType' = TypeForListing
             \/ at' = "crashed" /\ installType' = installType
      BY <2>1 DEF LoadListing, UseUnopened, Crash, Continue, Answered
    <3> QED
      BY <1>1, <3>1 DEF TypeFollows, TypesGiven, TypeForListing, Given, BehindListing
  <2>2. CASE SkipListing
    BY <1>1, <2>2
    DEF SkipListing, Continue, data, TypeFollows, TypesGiven, Answered, Given, BehindListing
  <2>3. CASE Reparse \/ ListingDone
    <3>1. at = "parsed" /\ installType' = installType
      BY <2>3 DEF Reparse, ListingDone, data
    <3> QED
      BY <1>1, <3>1
      DEF TypeFollows, TypesGiven, Answered, Given, BehindListing
  <2> QED
    BY <2>1, <2>2, <2>3
<1> QED
  BY <1>2, <1>3, <1>4

(* A crash here is for want of a listing, or of the device in it.          *)
LEMMA LatestInv ==
  ASSUME Inv, PickLatest \/ KeepVersion \/ ListDevices \/ ListVersions PROVE Inv'
<1> USE DEF Inv
<1>1. /\ at \in {"latest", "dispatch"} /\ at' \in {"dispatch", "done", "crashed"}
      /\ at' = "done" => err' \in {-8, -3, err} /\ (err' = err => at = "dispatch")
      /\ at' # "done" => err' = err
      /\ UNCHANGED <<arg, installType, model, serial, tokens, isSigned, asked, unstored>>
  BY DEF PickLatest, KeepVersion, ListDevices, ListVersions, Exit, Continue, Crash, data,
         Answered
<1>2. at' = "dispatch" => at = "latest"
  BY DEF PickLatest, KeepVersion, ListDevices, ListVersions, Exit, Continue, Crash
<1>3. Understood' /\ SerialFits'
  BY <1>1, TestedStays DEF BehindListing, BehindSerial, Ended
<1>4. Types' /\ Answered' /\ Loaded'
  BY <1>1, <1>2
  DEF Types, Answered, Loaded, Given, Ended, BehindListing, BehindSerial, BehindValues
<1>5. TypeFollows'
  BY <1>1 DEF TypeFollows, TypesGiven, Answered, Given, BehindListing
<1>6. CrashCauses'
  <2>1. Listed' = Listed /\ \A o : Given(o)' = Given(o)
    BY <1>1 DEF Listed, Given
  <2>2. CASE PickLatest
    BY <1>1, <2>1, <2>2
    DEF PickLatest, WantsLatest, Exit, Continue, Crash, Loaded, CrashCauses
  <2>3. CASE KeepVersion
    BY <2>3 DEF KeepVersion, Continue, CrashCauses
  <2>4. CASE ListDevices
    BY <1>1, <2>1, <2>4 DEF ListDevices, Exit, Continue, Crash, Loaded, CrashCauses
  <2>5. CASE ListVersions
    BY <1>1, <2>1, <2>5 DEF ListVersions, Exit, Continue, Crash, Loaded, CrashCauses
  <2> QED
    BY <2>2, <2>3, <2>4, <2>5
<1> QED
  BY <1>3, <1>4, <1>5, <1>6

(* The check: only with a device; its result is the only answer given.     *)
LEMMA VerdictTells ==
  ASSUME NEW answer, Verdict(answer)
  PROVE  /\ at' = "done" /\ asked' = answer
         /\ answer = "failed" => err' = -69 /\ isSigned' = -1
         /\ answer # "failed" => err' = err
         /\ answer = "refused" => isSigned' = 0
         /\ answer \notin {"failed", "refused"} => isSigned' = 1
<1>1. at' = "done" /\ asked' = answer
  BY DEF Verdict, Exit, Continue
<1>2. isSigned' = CASE answer = "failed" -> -1 [] answer = "refused" -> 0 [] OTHER -> 1
  BY DEF Verdict
<1>3. /\ answer = "failed" => isSigned' = -1
      /\ answer = "refused" => isSigned' = 0
      /\ answer \notin {"failed", "refused"} => isSigned' = 1
  BY <1>2
<1>4. /\ answer = "failed" => err' = -69
      /\ answer # "failed" => err' = err
  BY DEF Verdict, Exit, Continue
<1> QED
  BY <1>1, <1>3, <1>4

LEMMA CheckInv == ASSUME Inv, CheckManifestFile \/ CheckVersion PROVE Inv'
<1> USE DEF Inv
<1>1. at = "dispatch" /\ UNCHANGED <<arg, installType, model, serial, tokens>>
  BY DEF CheckManifestFile, CheckVersion, Checking
<1>2. asked = "no" /\ err = 0 /\ isSigned = 0
  BY <1>1 DEF Answered
<1>3. \/ /\ at' = "done" /\ asked' = "no" /\ err' \in {-69, -3, -5}
      \/ /\ at' = "crashed" /\ unstored' = "manifest" /\ ~Given("m")
         /\ Listed /\ version # "old"
         /\ UNCHANGED <<err, isSigned, asked, version>>
      \/ model # "none" /\ \E a \in {"failed", "refused", "granted", "exempt"} : Verdict(a)
  BY <1>2 DEF CheckManifestFile, CheckVersion, UseUnopened, Answers, Exit, Crash
<1>4. /\ at' \in {"done", "crashed"}
      /\ at' = "crashed" => /\ unstored' = "manifest" /\ ~Given("m")
                            /\ Listed /\ version' # "old"
      /\ asked' # "no" => model # "none"
      /\ \/ asked' \in {"no", "failed"} /\ err' \in {-69, -3, -5} /\ at' = "done"
         \/ asked' = "no" /\ err' = 0 /\ isSigned' = 0 /\ at' = "crashed"
         \/ asked' = "refused" /\ err' = 0 /\ isSigned' = 0 /\ at' = "done"
         \/ asked' \in {"granted", "exempt"} /\ err' = 0 /\ isSigned' = 1 /\ at' = "done"
  BY <1>2, <1>3, VerdictTells
<1>5. Understood' /\ SerialFits'
  BY <1>1, <1>4, TestedStays DEF BehindListing, BehindSerial, Ended
<1>6. Types' /\ Answered' /\ Loaded' /\ CrashCauses'
  BY <1>1, <1>4 DEF Types, Answered, Loaded, CrashCauses, Listed, Given, Ended
<1>7. TypeFollows'
  BY <1>1, <1>4 DEF TypeFollows, TypesGiven, Given, BehindListing
<1> QED
  BY <1>5, <1>6, <1>7

LEMMA StutterInv == ASSUME Inv, UNCHANGED vars PROVE Inv'
BY DEF vars, data, Inv, Types, Answered, Understood, CryptexPair, SerialFits, NeedsSerial,
       BasebandMode, BbsnumSize, TypeFollows, TypesGiven, Loaded, CrashCauses, Listed, Given

LEMMA Invariance == Spec => []Inv
<1>1. Inv /\ [Next]_vars => Inv'
  BY StopInv, OptionInv, ResolveDeviceInv, ParseValuesInv, CheckSerialInv,
     CheckNoSerialInv, ListingInv, LatestInv, CheckInv, StutterInv
  DEF Next
<1> QED
  BY InitInv, <1>1, PTL DEF Spec

---------------------------------------------------------------------------
(* The theorems.                                                           *)

(* The exit status is 0 for -h and otherwise exactly when the server       *)
(* granted the ticket or iOS 3 needs none: every error code of main is     *)
(* still an error in the eight bits the shell gets.                        *)
THEOREM StatusIsAnswer == Spec => []ExitTellsAnswer
<1>1. \A n \in {1, -1, -2, -3, -5, -7, -8, -9, -10, -25, -69} : n % 256 # 0
  OBVIOUS
<1>2. Inv => ExitTellsAnswer
  <2> SUFFICES ASSUME Inv, at \in {"done", "helped"}
               PROVE  ExitStatus = 0 <=> at = "helped" \/ asked \in {"granted", "exempt"}
    BY DEF ExitTellsAnswer
  <2>1. CASE at = "helped"
    BY <2>1 DEF ExitStatus
  <2>2. CASE at = "done" /\ err # 0
    <3>1. err % 256 # 0 /\ asked \notin {"granted", "exempt"}
      BY <1>1, <2>2 DEF Inv, Answered
    <3> QED
      BY <2>2, <3>1 DEF ExitStatus
  <2>3. CASE at = "done" /\ err = 0
    BY <2>3 DEF ExitStatus, Inv, Answered
  <2> QED
    BY <2>1, <2>2, <2>3
<1> QED
  BY <1>2, Invariance, PTL

(* Whatever the order of the options, the server is asked only with values *)
(* that were understood, a cryptex seed and nonce together or neither, a   *)
(* device, and a serial number of its length where one is needed (main).   *)
THEOREM AsksWithGoodValues == Spec => []AsksOnlyConsistently
<1>1. Inv => AsksOnlyConsistently
  BY DEF Inv, Answered, Understood, CryptexPair, SerialFits, AsksOnlyConsistently
<1> QED
  BY <1>1, Invariance, PTL

(* The install type a session starts with is the one said, through every   *)
(* order of -u and -E and through the reparse of an OTA listing (main).    *)
THEOREM TypeAsSaid == Spec => []InstallTypeAsSaid
<1>1. Inv => InstallTypeAsSaid
  BY DEF Inv, TypeFollows, TypesGiven, InstallTypeAsSaid
<1> QED
  BY <1>1, Invariance, PTL

(* main and the functions that load its files follow a null pointer only   *)
(* on the command lines named, or when the file of a listing or manifest   *)
(* they wanted could not be created or opened again: nowhere else does a   *)
(* step of main want an exit status.                                       *)
THEOREM CrashesOnlyHere == Spec => []CrashCauses
<1>1. Inv => CrashCauses
  BY DEF Inv
<1> QED
  BY <1>1, Invariance, PTL

---------------------------------------------------------------------------
(* main comes to its end.                                                  *)

OptionsFit == count \in 0 .. MaxOptions

(* How many steps it can still take: an option is read once, and a listing *)
(* that cannot be parsed is loaded again only while nocache is 0.          *)
StepsLeft ==
  CASE at = "options"  -> 9 + MaxOptions - count
    [] at = "values"   -> 8
    [] at = "serial"   -> 7
    [] at = "listing"  -> IF nocache THEN 4 ELSE 6
    [] at = "parsed"   -> IF nocache THEN 3 ELSE 5
    [] at = "latest"   -> 2
    [] at = "dispatch" -> 1
    [] OTHER           -> 0

LEMMA StepCounts ==
  ASSUME OptionsFit, Next
  PROVE  OptionsFit' /\ StepsLeft' < StepsLeft
<1>0. MaxOptions \in Nat
  BY CommandAssumption
<1> USE DEF OptionsFit, StepsLeft, Exit, Crash, UseUnopened, Continue
<1>1. CASE Usage \/ Help
  <2>1. at = "options" /\ at' \in {"done", "helped"} /\ count' = count
    BY <1>1 DEF Usage, Help
  <2> QED
    BY <1>0, <2>1
<1>2. ASSUME NEW o \in Options, Option(o[1], o[2])
      PROVE  OptionsFit' /\ StepsLeft' < StepsLeft
  <2>1. /\ at = "options" /\ at' \in {"options", "done"}
        /\ count < MaxOptions /\ count' = count + 1
    BY <1>2 DEF Option
  <2> QED
    BY <1>0, <2>1
<1>3. CASE ResolveDevice
  <2>1. at = "options" /\ at' \in {"values", "done"} /\ count' = count
    BY <1>3 DEF ResolveDevice
  <2> QED
    BY <1>0, <2>1
<1>4. CASE ParseValues
  BY <1>4 DEF ParseValues, data
<1>5. CASE CheckSerial \/ CheckNoSerial
  BY <1>5 DEF CheckSerial, CheckNoSerial, data
<1>6. CASE SkipListing \/ LoadListing
  BY <1>6 DEF SkipListing, LoadListing, data
<1>7. CASE Reparse
  BY <1>7 DEF Reparse, ForbidCache
<1>8. CASE ListingDone
  BY <1>8 DEF ListingDone, data
<1>9. CASE PickLatest \/ KeepVersion
  BY <1>9 DEF PickLatest, KeepVersion, data
<1>10. CASE ListDevices \/ ListVersions
  BY <1>10 DEF ListDevices, ListVersions, data
<1>11. CASE CheckManifestFile \/ CheckVersion
  <2>1. at = "dispatch" /\ at' \in {"done", "crashed"} /\ count' = count
    BY <1>11 DEF CheckManifestFile, CheckVersion, Checking, Verdict
  <2> QED
    BY <2>1
<1> QED
  BY <1>1, <1>2, <1>3, <1>4, <1>5, <1>6, <1>7, <1>8, <1>9, <1>10, <1>11 DEF Next

(* Whatever listings it finds or downloads, main reads each option once,   *)
(* jumps back to reparse at most once and takes no other step twice.       *)
THEOREM StepsAreBounded == Spec => [](StepsLeft \in Nat) /\ [][StepsLeft' < StepsLeft]_vars
<1>0. MaxOptions \in Nat
  BY CommandAssumption
<1>1. Init => OptionsFit
  BY <1>0 DEF Init, OptionsFit
<1>2. OptionsFit /\ [Next]_vars => OptionsFit'
  BY StepCounts DEF vars, data, OptionsFit
<1>3. OptionsFit /\ [Next]_vars => [StepsLeft' < StepsLeft]_vars
  BY StepCounts
<1>4. OptionsFit => StepsLeft \in Nat
  BY <1>0 DEF OptionsFit, StepsLeft
<1> QED
  BY <1>1, <1>2, <1>3, <1>4, PTL DEF Spec
=============================================================================
