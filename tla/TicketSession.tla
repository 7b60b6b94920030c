---------------------------- MODULE TicketSession ----------------------------
(***************************************************************************)
(* isManifestBufSignedForDevice (tsschecker.c) with what it calls:         *)
(* tssrequest, tss_populate_random, cryptextssrequest. One call asks the   *)
(* signing server for the main ticket of a manifest and, when it was       *)
(* granted and blobs are saved, for up to three more: the same request for *)
(* an update install, an erase install without a nonce, and a cryptex one. *)
(* All of them read and write the same t_devicevals, and the saved blob    *)
(* puts their answers in one file.                                         *)
(***************************************************************************)
EXTENDS BuildIdentity

CONSTANTS
  Devices,     \* what the code knows of a device, see DeviceRecords
  Manifests,   \* the manifests a caller may pass
  DevVals0,    \* t_devicevals as main leaves them
  BasebandModes,  \* values -b gives; 3 stands for any value but 0, 1 and 2
  MaxNow       \* bound: seconds of the clock that seeds every random draw

NONCELEN_SEP_Terminated == 21   \* a mutation: the terminator counted
NONCELEN_SEP == 20

Null   == <<>>            \* a null nonce pointer
User   == -1              \* a value the user gave
Unset  == 0               \* ecid 0, empty generator, null sepnonce
Poison == <<"0x1337">>    \* the pointer the no-nonce request installs
UserNonce(len) == <<"user", len>>
NonceOf(g) == <<"hash", g>>   \* sha1 or sha384 of generator g

NonceLens == {0, 16, 20, 32}

Draws == 1 .. MaxNow
Values == {User, Unset} \cup Draws
Nonces == {Null, Poison} \cup {UserNonce(l) : l \in NonceLens}
                         \cup {NonceOf(g) : g \in {User} \cup Draws}

DeviceRecords ==
  [board : STRING,         \* board matched against the identities, "NULL" unknown
   nonceLen : {20, 32},
   hardSEP : BOOLEAN,      \* Mac, ADP, iMac: SEP whatever the manifest says
   bbgcid : Int,           \* baseband certificate: 0 none, -1 unknown
   apticket3 : BOOLEAN]    \* not listed as refused tickets without a nonce

DevVals ==
  [ecid : Values, generator : Values,
   apnonce : Nonces, parsedApnonceLen : NonceLens,
   sepnonce : Values, parsedSepnonceLen : NonceLens,
   parsedCryptexnonceLen : NonceLens, installType : InstallTypes]

ASSUME SessionAssumption ==
  /\ Devices \subseteq DeviceRecords
  /\ Manifests \subseteq Seq(Identities)
  /\ DevVals0 \subseteq DevVals
  /\ \A d \in DevVals0 :       \* parseNonce sets pointer and length together
       \/ d.apnonce = Null /\ d.parsedApnonceLen = 0
       \/ \E l \in NonceLens : d.apnonce = UserNonce(l) /\ d.parsedApnonceLen = l
  /\ BasebandModes \subseteq 0 .. 3
  /\ MaxNow \in Nat \ {0}

Kinds == {"main", "update", "noNonce", "cryptex"}
NoRequest == [type |-> "none"]
NoBlob == [ecid |-> Unset]

VARIABLES
  device, manifest, basebandMode,   \* the call's arguments
  save,        \* the global save_shshblobs
  typeFlag,    \* the globals update_install or erase_install
  devVals,     \* *devVals
  at,          \* where the function stands
  frame,       \* its locals apnonce, apnonceLen, installType
  isSigned,    \* its result
  request,     \* request[k]: the request built for ticket k
  ticket,      \* ticket[k]: the server granted it
  blob,        \* the file written
  now,         \* time(NULL)
  entry        \* history: *devVals on entry

vars == <<device, manifest, basebandMode, save, typeFlag, devVals, at, frame,
          isSigned, request, ticket, blob, now, entry>>
call == <<device, manifest, basebandMode, save, typeFlag, entry>>

NoFrame == [apnonce |-> Null, len |-> 0, installType |-> "Default"]

CallInit ==
  /\ device \in Devices
  /\ manifest \in Manifests
  /\ basebandMode \in BasebandModes
  /\ save \in BOOLEAN
  /\ typeFlag \in BOOLEAN
  /\ devVals \in DevVals0
  /\ typeFlag => devVals.installType # "Default"
  /\ ~typeFlag => devVals.installType # "Erase"

LocalsInit ==
  /\ frame = NoFrame
  /\ isSigned = 0
  /\ request = [k \in Kinds |-> NoRequest]
  /\ ticket = [k \in Kinds |-> FALSE]
  /\ blob = NoBlob

Init ==
  /\ CallInit
  /\ LocalsInit
  /\ at = "build"
  /\ entry = devVals
  /\ now = 1

---------------------------------------------------------------------------
(* Mutations, used to test that the properties below bite.                 *)

ChooseApnonceTrustsPointer(d, n, t) ==
  IF d.apnonce # Null
  THEN [ok |-> d.parsedApnonceLen \in {0, n}, vals |-> d]
  ELSE LET g == IF d.generator = Unset THEN t ELSE d.generator
       IN [ok |-> TRUE, vals |-> [d EXCEPT !.generator = g, !.apnonce = NonceOf(g),
                                           !.parsedApnonceLen = n]]

ChooseApnonceIgnoresGenerator(d, n, t) ==
  IF d.apnonce # Null
  THEN IF d.parsedApnonceLen = 0 THEN [ok |-> TRUE, vals |-> [d EXCEPT !.apnonce = Null]]
       ELSE [ok |-> d.parsedApnonceLen = n, vals |-> d]
  ELSE [ok |-> TRUE,
        vals |-> [d EXCEPT !.generator = IF @ = Unset THEN t ELSE @,
                           !.apnonce = NonceOf(t), !.parsedApnonceLen = n]]

ChooseSepnonceEveryTime(d, t) ==
  [ok |-> TRUE, vals |-> [d EXCEPT !.sepnonce = t, !.parsedSepnonceLen = NONCELEN_SEP]]

IdentityAndTypeAlwaysFallsBack(d) ==
  LET type == IF SelectIdentity(manifest, device.board, d.installType) = NoIdentity
              THEN "Update" ELSE d.installType
  IN [id |-> SelectIdentity(manifest, device.board, type), type |-> type]

RestoreFrameForgetsNonce ==
  devVals' = [devVals EXCEPT !.installType = frame.installType]

RestoreFrameForgetsType ==
  devVals' = [devVals EXCEPT !.apnonce = frame.apnonce, !.parsedApnonceLen = frame.len]

RestoreFrameForgetsLen ==
  devVals' = [devVals EXCEPT !.apnonce = frame.apnonce, !.installType = frame.installType]

SaveBlobFailureIsError ==
  /\ at = "save"
  /\ blob' = NoBlob
  /\ isSigned' = -1
  /\ at' = "returned"
  /\ UNCHANGED <<call, devVals, frame, request, ticket, now>>

---------------------------------------------------------------------------
(* tss_populate_random: each part takes the device values and returns      *)
(* whether it succeeded and the values it leaves behind.                   *)

ChooseEcid(d, t) == IF d.ecid = Unset THEN [d EXCEPT !.ecid = t] ELSE d

(* A pointer with length 0 asks for a request without a nonce.             *)
ChooseApnonce(d, n, t) ==
  IF d.apnonce # Null
  THEN IF d.parsedApnonceLen = 0 THEN [ok |-> TRUE, vals |-> [d EXCEPT !.apnonce = Null]]
       ELSE [ok |-> d.parsedApnonceLen = n, vals |-> d]
  ELSE LET g == IF d.generator = Unset THEN t ELSE d.generator
       IN [ok |-> TRUE, vals |-> [d EXCEPT !.generator = g, !.apnonce = NonceOf(g),
                                           !.parsedApnonceLen = n]]

ChooseSepnonce(d, t) ==
  IF d.sepnonce # Unset
  THEN [ok |-> d.parsedSepnonceLen = NONCELEN_SEP, vals |-> d]
  ELSE [ok |-> TRUE, vals |-> [d EXCEPT !.sepnonce = t, !.parsedSepnonceLen = NONCELEN_SEP]]

PopulateRandom(d, hasSEP, t) ==
  LET ap == ChooseApnonce(ChooseEcid(d, t), device.nonceLen, t)
  IN IF ap.ok /\ hasSEP THEN ChooseSepnonce(ap.vals, t) ELSE ap

---------------------------------------------------------------------------
(* tssrequest and cryptextssrequest                                        *)

(* getID0: without an identity for an erase install, and when no type was  *)
(* asked for, the install type becomes Update for good.                    *)
IdentityAndType(d) ==
  LET first == SelectIdentity(manifest, device.board, d.installType)
      type  == IF first = NoIdentity /\ d.installType = "Default"
               THEN "Update" ELSE d.installType
  IN [id |-> SelectIdentity(manifest, device.board, type), type |-> type]

HasSEP(id) == SepUnlessVirtual(id, id.sep \/ device.hardSEP)

WantsBaseband(mode) == mode # 1 /\ device.bbgcid \notin {0, -1}

(* The request for identity id with the device values v.                   *)
RequestFor(id, v, mode) ==
  [type |-> IF IsErase(id.behavior) THEN "Erase" ELSE "Update",
   ecid |-> v.ecid,
   apnonce |-> v.apnonce,
   apnonceLen |-> IF v.apnonce = Null THEN 0 ELSE v.parsedApnonceLen,
   sepnonce |-> IF HasSEP(id) THEN v.sepnonce ELSE Unset,
   aptickets |-> mode # 2,
   baseband |-> WantsBaseband(mode)]

(* What the caller gets: success, the device values and the request. tags  *)
(* is whether libtatsu could add its tags.                                 *)
TssRequest(d, mode, t, tags) ==
  LET sel == IdentityAndType(d)
      d1  == [d EXCEPT !.installType = sel.type]
      pop == PopulateRandom(d1, HasSEP(sel.id), t)
  IN IF sel.id = NoIdentity \/ ~sel.id.hasManifest
     THEN [ok |-> FALSE, vals |-> d1, request |-> NoRequest]
     ELSE IF ~(pop.ok /\ tags /\ ~(mode = 2 /\ device.bbgcid = -1))
     THEN [ok |-> FALSE, vals |-> pop.vals, request |-> NoRequest]
     ELSE [ok |-> TRUE, vals |-> pop.vals, request |-> RequestFor(sel.id, pop.vals, mode)]

(* The cryptex nonce must have its length; Cryptex and Rap entries of the  *)
(* manifest and libtatsu's own tags must be usable.                        *)
PopulateCryptexvals(d, tags) == d.parsedCryptexnonceLen = 32 /\ tags

(* A device without SEP is taken for a 32-bit one and refused.             *)
CryptexTssRequest(d, tags) ==
  LET sel == IdentityAndType(d)
      d1  == [d EXCEPT !.installType = sel.type]
  IN IF /\ sel.id # NoIdentity
        /\ sel.id.hasManifest
        /\ SepUnlessVirtual(sel.id, sel.id.sep)
        /\ PopulateCryptexvals(d, tags)
     THEN [ok |-> TRUE, vals |-> d1,
           request |-> [type |-> IF IsErase(sel.id.behavior) THEN "Erase" ELSE "Update",
                        ecid |-> d.ecid,
                        cryptexnonce |-> User]]
     ELSE [ok |-> FALSE, vals |-> d1, request |-> NoRequest]

---------------------------------------------------------------------------
(* The steps of isManifestBufSignedForDevice                               *)

AfterMain == IF devVals.installType = "Default" THEN "update" ELSE "side"

(* Build request k, then send it or go where the code goes without it.     *)
Build(k, d, mode, sendAt, elseAt) ==
  \E t \in now .. MaxNow, tags \in BOOLEAN :
    LET r == TssRequest(d, mode, t, tags) IN
    /\ now' = t
    /\ devVals' = r.vals
    /\ request' = [request EXCEPT ![k] = r.request]
    /\ at' = IF r.ok THEN sendAt ELSE elseAt

(* tss_request_send: the server, or the network, decides.                  *)
Send(k, thenAt) ==
  /\ \E granted \in BOOLEAN : ticket' = [ticket EXCEPT ![k] = granted]
  /\ at' = thenAt

BuildMain ==
  /\ at = "build"
  /\ Build("main", devVals, basebandMode, "send", "returned")
  /\ isSigned' = IF at' = "returned" THEN -1 ELSE 0
  /\ UNCHANGED <<call, frame, ticket, blob>>

SendMain ==
  /\ at = "send"
  /\ Send("main", IF ticket'["main"] /\ save THEN AfterMain ELSE "returned")
  /\ isSigned' = IF ticket'["main"] THEN 1 ELSE 0
  /\ UNCHANGED <<call, devVals, frame, request, blob, now>>

(* installType is Update for this request only.                            *)
BuildUpdate ==
  /\ at = "update"
  /\ Build("update", [devVals EXCEPT !.installType = "Update"], basebandMode,
           "sendUpdate", "leaveUpdate")
  /\ UNCHANGED <<call, frame, isSigned, ticket, blob>>

SendUpdate ==
  /\ at = "sendUpdate"
  /\ Send("update", "leaveUpdate")
  /\ UNCHANGED <<call, devVals, frame, isSigned, request, blob, now>>

LeaveUpdate ==
  /\ at = "leaveUpdate"
  /\ devVals' = [devVals EXCEPT !.installType = "Default"]
  /\ at' = "side"
  /\ UNCHANGED <<call, frame, isSigned, request, ticket, blob, now>>

(* -u and -E leave the no-nonce request out.                               *)
SkipNoNonce ==
  /\ at = "side"
  /\ typeFlag
  /\ at' = "cryptex"
  /\ UNCHANGED <<call, devVals, frame, isSigned, request, ticket, blob, now>>

(* The nonce is put aside and an invalid pointer of length 0 installed.    *)
EnterNoNonce ==
  /\ at = "side"
  /\ ~typeFlag
  /\ frame' = [apnonce |-> devVals.apnonce, len |-> devVals.parsedApnonceLen,
               installType |-> devVals.installType]
  /\ devVals' = [devVals EXCEPT !.apnonce = Poison, !.parsedApnonceLen = 0,
                                !.installType = "Erase"]
  /\ at' = IF device.apticket3 THEN "noNonce" ELSE "leaveNoNonce"
  /\ UNCHANGED <<call, isSigned, request, ticket, blob, now>>

BuildNoNonce ==
  /\ at = "noNonce"
  /\ Build("noNonce", devVals, 1, "sendNoNonce", "leaveNoNonce")
  /\ UNCHANGED <<call, frame, isSigned, ticket, blob>>

SendNoNonce ==
  /\ at = "sendNoNonce"
  /\ Send("noNonce", "leaveNoNonce")
  /\ UNCHANGED <<call, devVals, frame, isSigned, request, blob, now>>

RestoreFrame ==
  devVals' = [devVals EXCEPT !.apnonce = frame.apnonce, !.parsedApnonceLen = frame.len,
                             !.installType = frame.installType]

LeaveNoNonce ==
  /\ at = "leaveNoNonce"
  /\ RestoreFrame
  /\ at' = "cryptex"
  /\ UNCHANGED <<call, frame, isSigned, request, ticket, blob, now>>

SkipCryptex ==
  /\ at = "cryptex"
  /\ devVals.parsedCryptexnonceLen = 0
  /\ at' = "save"
  /\ UNCHANGED <<call, devVals, frame, isSigned, request, ticket, blob, now>>

BuildCryptex ==
  /\ at = "cryptex"
  /\ devVals.parsedCryptexnonceLen # 0
  /\ \E tags \in BOOLEAN :
       LET r == CryptexTssRequest(devVals, tags) IN
       /\ devVals' = r.vals
       /\ request' = [request EXCEPT !["cryptex"] = r.request]
       /\ at' = IF r.ok THEN "sendCryptex" ELSE "save"
  /\ UNCHANGED <<call, frame, isSigned, ticket, blob, now>>

SendCryptex ==
  /\ at = "sendCryptex"
  /\ Send("cryptex", "save")
  /\ UNCHANGED <<call, devVals, frame, isSigned, request, blob, now>>

(* The file is named after the ECID and the ApNonce; the generator goes in *)
(* with every granted ticket. When the file cannot be opened the function  *)
(* says so and returns the same result.                                    *)
SaveBlob ==
  /\ at = "save"
  /\ devVals' = [devVals EXCEPT !.ecid = request["main"].ecid]
  /\ \E opened \in BOOLEAN :
       blob' = IF ~opened THEN NoBlob
               ELSE [ecid |-> devVals'.ecid,
                     nonce |-> IF devVals.parsedApnonceLen = 0 THEN Null
                               ELSE devVals.apnonce,
                     generator |-> devVals.generator,
                     tickets |-> {k \in Kinds : ticket[k]}]
  /\ at' = "returned"
  /\ UNCHANGED <<call, frame, isSigned, request, ticket, now>>

Next ==
  \/ BuildMain \/ SendMain
  \/ BuildUpdate \/ SendUpdate \/ LeaveUpdate
  \/ SkipNoNonce \/ EnterNoNonce \/ BuildNoNonce \/ SendNoNonce \/ LeaveNoNonce
  \/ SkipCryptex \/ BuildCryptex \/ SendCryptex
  \/ SaveBlob

(* Sequential code: it runs until it returns.                              *)
Spec == Init /\ [][Next]_vars /\ WF_vars(Next)

---------------------------------------------------------------------------
(* Properties                                                              *)

TypeOK ==
  /\ device \in Devices
  /\ manifest \in Manifests
  /\ basebandMode \in BasebandModes
  /\ save \in BOOLEAN
  /\ typeFlag \in BOOLEAN
  /\ devVals \in DevVals
  /\ entry \in DevVals
  /\ at \in {"build", "send", "update", "sendUpdate", "leaveUpdate", "side", "noNonce",
            "sendNoNonce", "leaveNoNonce", "cryptex", "sendCryptex", "save", "returned"}
  /\ frame \in [apnonce : Nonces, len : NonceLens, installType : InstallTypes]
  /\ isSigned \in {-1, 0, 1}
  /\ DOMAIN request = Kinds
  /\ ticket \in [Kinds -> BOOLEAN]
  /\ now \in 1 .. MaxNow

(* The invalid pointer 0x1337 the no-nonce request installs is never       *)
(* copied into a request, and never left in *devVals: it is there only     *)
(* while that request is being built (lines 1556 to 1616).                 *)
PoisonContained ==
  /\ devVals.apnonce = Poison => at \in {"noNonce", "leaveNoNonce"}
  /\ \A k \in {"main", "update", "noNonce"} :
       request[k] # NoRequest => request[k].apnonce # Poison

BytesBehind(nonce) ==
  CASE nonce \in {Null, Poison} -> 0
    [] nonce \in {UserNonce(l) : l \in NonceLens} -> nonce[2]
    [] OTHER -> device.nonceLen

(* parsedApnonceLen is always the number of bytes apnonce points to: the   *)
(* request and the file name read that many, across the swap of pointer    *)
(* and length around the no-nonce request.                                 *)
NonceLengthMatches == devVals.parsedApnonceLen = BytesBehind(devVals.apnonce)

(* One blob holds tickets for one ECID and one ApNonce, those of its file  *)
(* name, except for the ticket without a nonce, which has none; and those  *)
(* with a SEP nonce share it. An ApNonce given as "" is left out: its main *)
(* ticket has no nonce and the next request draws one.                     *)
TicketsBelongTogether ==
  blob # NoBlob /\ request["main"].apnonce # Null =>
    /\ \A k \in blob.tickets : request[k].ecid = blob.ecid
    /\ \A k \in blob.tickets \cap {"main", "update"} : request[k].apnonce = blob.nonce
    /\ "noNonce" \in blob.tickets => request["noNonce"].apnonce = Null
    /\ \A j, k \in blob.tickets \ {"cryptex"} :
         request[j].sepnonce = request[k].sepnonce
           \/ Unset \in {request[j].sepnonce, request[k].sepnonce}

(* The generator saved in a blob is the one its ApNonce was derived from,  *)
(* unless the user gave the ApNonce: otherwise the blob cannot be used.    *)
GeneratorExplainsNonce ==
  blob # NoBlob /\ entry.apnonce = Null => blob.nonce = NonceOf(blob.generator)

(* -u and -E: "only request tickets for" that install type. No request of  *)
(* the call, side requests included, is built from an identity of the      *)
(* other one.                                                              *)
OnlyRequestedType ==
  typeFlag => \A k \in Kinds :
                request[k] # NoRequest => request[k].type = entry.installType

(* An install type forced for a side request never outlives it. What does  *)
(* stay is the fallback to Update, when no erase identity exists.          *)
InstallTypeRestored ==
  at = "returned" =>
    \/ devVals.installType = entry.installType
    \/ /\ entry.installType = "Default"
       /\ devVals.installType = "Update"
       /\ SelectIdentity(manifest, device.board, "Default") = NoIdentity

(* The result is what became of the main request. Whatever happens to the  *)
(* side requests or to the file, the answer stays "signed"; and only a     *)
(* signed manifest leaves a blob.                                          *)
VerdictIsMainTicket ==
  at = "returned" =>
    /\ isSigned = IF request["main"] = NoRequest THEN -1
                  ELSE IF ticket["main"] THEN 1 ELSE 0
    /\ blob # NoBlob => "main" \in blob.tickets

(* ECID, generator and SEP nonce, given or drawn, are not drawn again: all *)
(* later requests, of this manifest and of the next ones, carry the same.  *)
ChosenOnce ==
  [][/\ devVals.ecid # Unset => devVals'.ecid = devVals.ecid
     /\ devVals.generator # Unset => devVals'.generator = devVals.generator
     /\ devVals.sepnonce # Unset => devVals'.sepnonce = devVals.sepnonce]_vars
=============================================================================
