-------------------------- MODULE SigningRun_proof --------------------------
(***************************************************************************)
(* Proofs about one signing call (TicketSession), for every set of devices,*)
(* manifests and command lines, and about a run of them (SigningRun), for  *)
(* URL arrays of every length and any number of calls: what the run        *)
(* answers, that its blobs share one nonce, and that with the calls hidden *)
(* it is the loop of VersionCheck.                                         *)
(*                                                                         *)
(* The invariant of a call, Inv, is stated for a call that starts from any *)
(* *devVals another call may have left behind, so every call of a run      *)
(* keeps it.                                                               *)
(***************************************************************************)
EXTENDS SigningRun, WellFoundedInduction, TLAPS

---------------------------------------------------------------------------
(* The first identity that qualifies.                                      *)

(* Min is what its name says, for sets of natural numbers.                 *)
LEMMA NatMin ==
  ASSUME NEW S \in SUBSET Nat, S # {}
  PROVE  Min(S) \in S /\ \A y \in S : Min(S) <= y
<1> DEFINE R == {ss \in Nat \X Nat : ss[1] < ss[2]}
<1>1. IsWellFoundedOn(R, Nat)
  BY NatLessThanWellFounded DEF OpToRel
<1>2. \A x, y \in Nat : y < x => <<y, x>> \in R
  OBVIOUS
<1> HIDE DEF R
<1>3. PICK x \in S : \A y \in S : ~(<<y, x>> \in R)
  BY <1>1, WFMin, Zenon
<1>4. ASSUME NEW y \in S PROVE x <= y
  <2>1. ~(y < x)
    BY <1>2, <1>3, Zenon
  <2> QED
    BY <2>1
<1> QED
  BY <1>4 DEF Min

(* What SelectIdentity finds is an identity for the board and the type.    *)
LEMMA SelectedQualifies ==
  ASSUME NEW m \in Seq(Identities), NEW board, NEW type,
         SelectIdentity(m, board, type) # NoIdentity
  PROVE  /\ SelectIdentity(m, board, type) \in Identities
         /\ Qualifies(SelectIdentity(m, board, type), board, type)
<1> DEFINE matching == {i \in DOMAIN m : Qualifies(m[i], board, type)}
<1>1. matching # {} /\ SelectIdentity(m, board, type) = m[Min(matching)]
  BY DEF SelectIdentity
<1>2. matching \in SUBSET Nat
  OBVIOUS
<1>3. Min(matching) \in matching
  <2> HIDE DEF matching
  <2> QED
    BY <1>1, <1>2, NatMin
<1> QED
  BY <1>1, <1>3

---------------------------------------------------------------------------
(* Nonces and what they point to.                                          *)

LEMMA NoncesDiffer ==
  /\ Null # Poison
  /\ \A l \in NonceLens : UserNonce(l) \notin {Null, Poison}
  /\ \A g : NonceOf(g) \notin {Null, Poison}
  /\ \A l \in NonceLens : \A g : UserNonce(l) # NonceOf(g)
BY DEF Null, Poison, UserNonce, NonceOf

LEMMA BytesBehindNonces ==
  /\ BytesBehind(Null) = 0
  /\ BytesBehind(Poison) = 0
  /\ \A l \in NonceLens : BytesBehind(UserNonce(l)) = l
  /\ \A g : BytesBehind(NonceOf(g)) = device.nonceLen
<1>1. \A l \in NonceLens : UserNonce(l)[2] = l
  BY DEF UserNonce
<1> QED
  BY <1>1, NoncesDiffer DEF BytesBehind

---------------------------------------------------------------------------
(* What building a request does to *devVals.                               *)

LenMatches(d) == d.parsedApnonceLen = BytesBehind(d.apnonce)

(* Values in hand are not drawn again.                                     *)
Keeps(d, v) ==
  /\ d.ecid # Unset => v.ecid = d.ecid
  /\ d.generator # Unset => v.generator = d.generator
  /\ d.sepnonce # Unset => v.sepnonce = d.sepnonce

(* The ApNonce stays, is dropped when its length is 0, or is drawn; the    *)
(* generator is drawn with it only.                                        *)
NonceStep(d, v) ==
  \/ v.generator = d.generator /\ v.apnonce = d.apnonce
  \/ /\ v.generator = d.generator
     /\ d.apnonce # Null /\ d.parsedApnonceLen = 0 /\ v.apnonce = Null
  \/ d.apnonce = Null /\ v.apnonce = NonceOf(v.generator) /\ v.generator # Unset

(* What no part of tss_populate_random writes.                             *)
Untouched(d, v) ==
  v.installType = d.installType /\ v.parsedCryptexnonceLen = d.parsedCryptexnonceLen

LEMMA EcidFacts ==
  ASSUME NEW d \in DevVals, NEW t \in Draws
  PROVE  LET v == ChooseEcid(d, t)
         IN /\ v \in DevVals
            /\ Untouched(d, v)
            /\ v.ecid # Unset
            /\ d.ecid # Unset => v.ecid = d.ecid
            /\ v.generator = d.generator /\ v.sepnonce = d.sepnonce
            /\ v.apnonce = d.apnonce /\ v.parsedApnonceLen = d.parsedApnonceLen
<1>1. t \in Values /\ t # Unset
  BY SessionAssumption DEF Draws, Values, Unset
<1> QED
  BY <1>1 DEF ChooseEcid, DevVals, Untouched

LEMMA ApnonceFacts ==
  ASSUME NEW d \in DevVals, LenMatches(d), NEW t \in Draws, device \in DeviceRecords
  PROVE  LET r == ChooseApnonce(d, device.nonceLen, t)
             v == r.vals
         IN /\ r.ok \in BOOLEAN
            /\ v \in DevVals
            /\ Untouched(d, v)
            /\ v.ecid = d.ecid /\ v.sepnonce = d.sepnonce
            /\ d.generator # Unset => v.generator = d.generator
            /\ LenMatches(v)
            /\ NonceStep(d, v)
            /\ r.ok => /\ v.apnonce # Poison
                       /\ v.apnonce # Null => v.parsedApnonceLen # 0
                       /\ d.apnonce = Null => v.apnonce # Null
<1> DEFINE n == device.nonceLen
<1>1. n \in NonceLens \ {0}
  BY DEF DeviceRecords, NonceLens
<1>2. CASE d.apnonce # Null /\ d.parsedApnonceLen = 0
  <2> DEFINE v == [d EXCEPT !.apnonce = Null]
  <2>1. ChooseApnonce(d, n, t) = [ok |-> TRUE, vals |-> v]
    BY <1>2 DEF ChooseApnonce
  <2>2. /\ v \in DevVals /\ Untouched(d, v)
        /\ v.ecid = d.ecid /\ v.sepnonce = d.sepnonce /\ v.generator = d.generator
        /\ v.apnonce = Null /\ v.parsedApnonceLen = 0
    BY <1>2 DEF DevVals, Nonces, Untouched
  <2> HIDE DEF v
  <2> QED
    BY <1>2, <2>1, <2>2, NoncesDiffer, BytesBehindNonces DEF LenMatches, NonceStep
<1>3. CASE d.apnonce # Null /\ d.parsedApnonceLen # 0
  <2>1. ChooseApnonce(d, n, t) = [ok |-> d.parsedApnonceLen = n, vals |-> d]
    BY <1>3 DEF ChooseApnonce
  <2>2. d.apnonce # Poison
    BY <1>3, BytesBehindNonces DEF LenMatches
  <2> QED
    BY <1>3, <2>1, <2>2 DEF NonceStep, Untouched
<1>4. CASE d.apnonce = Null
  <2> DEFINE g == IF d.generator = Unset THEN t ELSE d.generator
             v == [d EXCEPT !.generator = g, !.apnonce = NonceOf(g), !.parsedApnonceLen = n]
  <2>1. ChooseApnonce(d, n, t) = [ok |-> TRUE, vals |-> v]
    BY <1>4 DEF ChooseApnonce
  <2>2. g \in {User} \cup Draws /\ g # Unset
    BY SessionAssumption DEF DevVals, Values, Draws, User, Unset
  <2>3. NonceOf(g) \in Nonces
    BY <2>2 DEF Nonces
  <2>4. v \in DevVals
    BY <1>1, <2>2, <2>3 DEF DevVals, Values
  <2>5. /\ v.generator = g /\ v.apnonce = NonceOf(g) /\ v.parsedApnonceLen = n
        /\ v.ecid = d.ecid /\ v.sepnonce = d.sepnonce /\ Untouched(d, v)
    BY DEF DevVals, Untouched
  <2>6. LenMatches(v) /\ NonceStep(d, v) /\ v.apnonce \notin {Null, Poison}
    BY <1>4, <2>2, <2>5, NoncesDiffer, BytesBehindNonces DEF LenMatches, NonceStep
  <2> HIDE DEF v
  <2> QED
    BY <1>1, <1>4, <2>1, <2>2, <2>4, <2>5, <2>6
<1> QED
  BY <1>2, <1>3, <1>4

LEMMA SepnonceFacts ==
  ASSUME NEW d \in DevVals, NEW t \in Draws
  PROVE  LET r == ChooseSepnonce(d, t)
             v == r.vals
         IN /\ r.ok \in BOOLEAN
            /\ v \in DevVals
            /\ Untouched(d, v)
            /\ v.ecid = d.ecid /\ v.generator = d.generator
            /\ v.apnonce = d.apnonce /\ v.parsedApnonceLen = d.parsedApnonceLen
            /\ v.sepnonce # Unset
            /\ d.sepnonce # Unset => v.sepnonce = d.sepnonce
<1>1. t \in Values /\ t # Unset
  BY SessionAssumption DEF Draws, Values, Unset
<1>2. NONCELEN_SEP \in NonceLens
  BY DEF NONCELEN_SEP, NonceLens
<1> QED
  BY <1>1, <1>2 DEF ChooseSepnonce, DevVals, Untouched

(* tss_populate_random as a whole.                                         *)
LEMMA PopulateFacts ==
  ASSUME NEW d \in DevVals, LenMatches(d), NEW t \in Draws, device \in DeviceRecords,
         NEW hasSEP \in BOOLEAN
  PROVE  LET r == PopulateRandom(d, hasSEP, t)
             v == r.vals
         IN /\ r.ok \in BOOLEAN
            /\ v \in DevVals
            /\ Untouched(d, v)
            /\ Keeps(d, v)
            /\ LenMatches(v)
            /\ NonceStep(d, v)
            /\ v.ecid # Unset
            /\ r.ok => /\ v.apnonce # Poison
                       /\ v.apnonce # Null => v.parsedApnonceLen # 0
                       /\ d.apnonce = Null => v.apnonce # Null
<1> DEFINE e  == ChooseEcid(d, t)
           ap == ChooseApnonce(e, device.nonceLen, t)
           sn == ChooseSepnonce(ap.vals, t)
<1>1. /\ e \in DevVals /\ Untouched(d, e) /\ Keeps(d, e) /\ e.ecid # Unset
      /\ e.sepnonce = d.sepnonce /\ e.generator = d.generator
      /\ e.apnonce = d.apnonce /\ e.parsedApnonceLen = d.parsedApnonceLen
  BY EcidFacts DEF Keeps
<1>2. LenMatches(e)
  BY <1>1 DEF LenMatches
<1> HIDE DEF e
<1>3. /\ ap.ok \in BOOLEAN /\ ap.vals \in DevVals
      /\ Untouched(e, ap.vals) /\ Keeps(e, ap.vals)
      /\ LenMatches(ap.vals) /\ NonceStep(e, ap.vals)
      /\ ap.vals.ecid = e.ecid
      /\ ap.ok => /\ ap.vals.apnonce # Poison
                  /\ ap.vals.apnonce # Null => ap.vals.parsedApnonceLen # 0
                  /\ e.apnonce = Null => ap.vals.apnonce # Null
  BY <1>1, <1>2, ApnonceFacts DEF Keeps
<1>4. PopulateRandom(d, hasSEP, t) = IF ap.ok /\ hasSEP THEN sn ELSE ap
  BY DEF PopulateRandom, e
<1> HIDE DEF ap
<1>5. CASE ap.ok /\ hasSEP
  <2>1. /\ sn.ok \in BOOLEAN /\ sn.vals \in DevVals
        /\ Untouched(ap.vals, sn.vals) /\ Keeps(ap.vals, sn.vals)
        /\ sn.vals.ecid = ap.vals.ecid /\ sn.vals.generator = ap.vals.generator
        /\ sn.vals.apnonce = ap.vals.apnonce
        /\ sn.vals.parsedApnonceLen = ap.vals.parsedApnonceLen
    BY <1>3, SepnonceFacts DEF Keeps
  <2> HIDE DEF sn
  <2> QED
    BY <1>1, <1>3, <1>4, <1>5, <2>1 DEF Untouched, Keeps, LenMatches, NonceStep
<1>6. CASE ~(ap.ok /\ hasSEP)
  BY <1>1, <1>3, <1>4, <1>6 DEF Untouched, Keeps, LenMatches, NonceStep
<1> QED
  BY <1>5, <1>6

---------------------------------------------------------------------------
(* What the caller of tssrequest gets.                                     *)

(* The install type stays, or falls back to Update for good.               *)
TypeStep(type, new) ==
  \/ new = type
  \/ /\ type = "Default" /\ new = "Update"
     /\ SelectIdentity(manifest, device.board, "Default") = NoIdentity

LEMMA IdentityFacts ==
  ASSUME NEW d \in DevVals, manifest \in Seq(Identities)
  PROVE  LET sel == IdentityAndType(d)
         IN /\ sel.type \in InstallTypes
            /\ TypeStep(d.installType, sel.type)
            /\ sel.id # NoIdentity =>
                 /\ sel.id \in Identities
                 /\ IsErase(sel.id.behavior) <=> sel.type # "Update"
<1> DEFINE sel == IdentityAndType(d)
<1>1. /\ sel.id = SelectIdentity(manifest, device.board, sel.type)
      /\ sel.type \in InstallTypes
      /\ TypeStep(d.installType, sel.type)
  BY DEF IdentityAndType, DevVals, TypeStep, InstallTypes
<1> HIDE DEF sel
<1>2. ASSUME sel.id # NoIdentity
      PROVE  /\ sel.id \in Identities
             /\ IsErase(sel.id.behavior) <=> sel.type # "Update"
  <2>1. sel.id \in Identities /\ Qualifies(sel.id, device.board, sel.type)
    BY <1>1, <1>2, SelectedQualifies
  <2>2. IsErase(sel.id.behavior) \in BOOLEAN
    BY DEF IsErase
  <2> QED
    BY <2>1, <2>2 DEF Qualifies, IsUpdateInstall
<1> QED
  BY <1>1, <1>2 DEF sel

(* A request for ticket k: where it stands to the values left behind.      *)
RequestFits(r, v) ==
  /\ r.type = (IF v.installType = "Update" THEN "Update" ELSE "Erase")
  /\ r.ecid = v.ecid

NonceFits(r, v) ==
  /\ r.apnonce = v.apnonce
  /\ r.apnonce # Poison
  /\ r.apnonce # Null => v.parsedApnonceLen # 0
  /\ r.sepnonce \in {Unset, v.sepnonce}

LEMMA RequestIsSome ==
  ASSUME NEW r, r.type \in {"Erase", "Update"}
  PROVE  r # NoRequest
BY DEF NoRequest

LEMMA TssRequestFacts ==
  ASSUME NEW d \in DevVals, LenMatches(d), NEW mode, NEW t \in Draws, NEW tags \in BOOLEAN,
         device \in DeviceRecords, manifest \in Seq(Identities)
  PROVE  LET r == TssRequest(d, mode, t, tags)
             v == r.vals
         IN /\ r.ok \in BOOLEAN
            /\ v \in DevVals
            /\ TypeStep(d.installType, v.installType)
            /\ v.parsedCryptexnonceLen = d.parsedCryptexnonceLen
            /\ Keeps(d, v)
            /\ LenMatches(v)
            /\ NonceStep(d, v)
            /\ ~r.ok => r.request = NoRequest
            /\ r.ok => /\ RequestFits(r.request, v)
                       /\ NonceFits(r.request, v)
                       /\ v.ecid # Unset
                       /\ d.apnonce = Null => v.apnonce # Null
<1> DEFINE sel == IdentityAndType(d)
           d1  == [d EXCEPT !.installType = sel.type]
           pop == PopulateRandom(d1, HasSEP(sel.id), t)
           r   == TssRequest(d, mode, t, tags)
           req == RequestFor(sel.id, pop.vals, mode)
<1>1. /\ sel.type \in InstallTypes /\ TypeStep(d.installType, sel.type)
      /\ sel.id # NoIdentity => /\ sel.id \in Identities
                                /\ IsErase(sel.id.behavior) <=> sel.type # "Update"
  BY IdentityFacts
<1>2. \/ r = [ok |-> FALSE, vals |-> d1, request |-> NoRequest]
      \/ /\ sel.id # NoIdentity
         /\ r = [ok |-> FALSE, vals |-> pop.vals, request |-> NoRequest]
      \/ /\ sel.id # NoIdentity /\ pop.ok
         /\ r = [ok |-> TRUE, vals |-> pop.vals, request |-> req]
  BY DEF TssRequest
<1>3. /\ req.type = (IF IsErase(sel.id.behavior) THEN "Erase" ELSE "Update")
      /\ req.ecid = pop.vals.ecid
      /\ req.apnonce = pop.vals.apnonce
      /\ req.sepnonce \in {Unset, pop.vals.sepnonce}
  BY DEF RequestFor
<1> HIDE DEF sel, req
<1>4. /\ d1 \in DevVals /\ d1.installType = sel.type
      /\ d1.ecid = d.ecid /\ d1.generator = d.generator /\ d1.sepnonce = d.sepnonce
      /\ d1.apnonce = d.apnonce /\ d1.parsedApnonceLen = d.parsedApnonceLen
      /\ d1.parsedCryptexnonceLen = d.parsedCryptexnonceLen
  BY <1>1 DEF DevVals
<1> HIDE DEF d1
<1>5. LenMatches(d1) /\ Keeps(d, d1) /\ NonceStep(d, d1)
  BY <1>4 DEF LenMatches, Keeps, NonceStep
<1>6. ASSUME sel.id # NoIdentity
      PROVE  /\ pop.ok \in BOOLEAN
             /\ pop.vals \in DevVals
             /\ Untouched(d1, pop.vals)
             /\ Keeps(d1, pop.vals)
             /\ LenMatches(pop.vals)
             /\ NonceStep(d1, pop.vals)
             /\ pop.vals.ecid # Unset
             /\ pop.ok => /\ pop.vals.apnonce # Poison
                          /\ pop.vals.apnonce # Null => pop.vals.parsedApnonceLen # 0
                          /\ d1.apnonce = Null => pop.vals.apnonce # Null
  <2>1. HasSEP(sel.id) \in BOOLEAN
    BY <1>1, <1>6 DEF HasSEP, SepUnlessVirtual, Identities, DeviceRecords
  <2> QED
    BY <1>4, <1>5, <2>1, PopulateFacts
<1> HIDE DEF pop
<1>7. CASE r = [ok |-> FALSE, vals |-> d1, request |-> NoRequest]
  BY <1>1, <1>4, <1>5, <1>7
<1>8. CASE sel.id # NoIdentity /\ r = [ok |-> FALSE, vals |-> pop.vals, request |-> NoRequest]
  BY <1>1, <1>4, <1>6, <1>8 DEF Untouched, Keeps, NonceStep
<1>9. CASE /\ sel.id # NoIdentity /\ pop.ok
           /\ r = [ok |-> TRUE, vals |-> pop.vals, request |-> req]
  <2>1. RequestFits(req, pop.vals) /\ NonceFits(req, pop.vals)
    BY <1>1, <1>3, <1>4, <1>6, <1>9 DEF RequestFits, NonceFits, Untouched
  <2> QED
    BY <1>1, <1>4, <1>6, <1>9, <2>1 DEF Untouched, Keeps, NonceStep
<1> QED
  BY <1>2, <1>7, <1>8, <1>9

LEMMA CryptexFacts ==
  ASSUME NEW d \in DevVals, NEW tags \in BOOLEAN, manifest \in Seq(Identities)
  PROVE  LET r == CryptexTssRequest(d, tags)
             v == r.vals
         IN /\ r.ok \in BOOLEAN
            /\ v \in DevVals
            /\ TypeStep(d.installType, v.installType)
            /\ v.ecid = d.ecid /\ v.generator = d.generator /\ v.sepnonce = d.sepnonce
            /\ v.apnonce = d.apnonce /\ v.parsedApnonceLen = d.parsedApnonceLen
            /\ ~r.ok => r.request = NoRequest
            /\ r.ok => RequestFits(r.request, v)
<1> DEFINE sel == IdentityAndType(d)
           d1  == [d EXCEPT !.installType = sel.type]
           r   == CryptexTssRequest(d, tags)
           req == [type |-> IF IsErase(sel.id.behavior) THEN "Erase" ELSE "Update",
                   ecid |-> d.ecid,
                   cryptexnonce |-> User]
<1>1. /\ sel.type \in InstallTypes /\ TypeStep(d.installType, sel.type)
      /\ sel.id # NoIdentity => (IsErase(sel.id.behavior) <=> sel.type # "Update")
  BY IdentityFacts
<1>2. \/ r = [ok |-> FALSE, vals |-> d1, request |-> NoRequest]
      \/ sel.id # NoIdentity /\ r = [ok |-> TRUE, vals |-> d1, request |-> req]
  BY DEF CryptexTssRequest
<1>3. /\ req.type = (IF IsErase(sel.id.behavior) THEN "Erase" ELSE "Update")
      /\ req.ecid = d.ecid
  OBVIOUS
<1> HIDE DEF sel, req
<1>4. /\ d1 \in DevVals /\ d1.installType = sel.type
      /\ d1.ecid = d.ecid /\ d1.generator = d.generator /\ d1.sepnonce = d.sepnonce
      /\ d1.apnonce = d.apnonce /\ d1.parsedApnonceLen = d.parsedApnonceLen
  BY <1>1 DEF DevVals
<1> HIDE DEF d1
<1>5. CASE r = [ok |-> FALSE, vals |-> d1, request |-> NoRequest]
  BY <1>1, <1>4, <1>5
<1>6. CASE sel.id # NoIdentity /\ r = [ok |-> TRUE, vals |-> d1, request |-> req]
  <2>1. RequestFits(req, d1)
    BY <1>1, <1>3, <1>4, <1>6 DEF RequestFits
  <2> QED
    BY <1>1, <1>4, <1>6, <2>1
<1> QED
  BY <1>2, <1>5, <1>6

---------------------------------------------------------------------------
(* One call: the invariant.                                                *)

(* What any call starts from, the first of a run or a later one.           *)
EntryFits ==
  /\ entry \in DevVals
  /\ LenMatches(entry)
  /\ entry.apnonce # Poison
  /\ typeFlag => entry.installType # "Default"

InNoNonce == at \in {"noNonce", "sendNoNonce", "leaveNoNonce"}

(* The invalid pointer is in devVals while the real one is in the frame.   *)
Swapped ==
  /\ LenMatches(devVals)
  /\ at = "noNonce" => devVals.apnonce = Poison
  /\ at \notin {"noNonce", "leaveNoNonce"} => devVals.apnonce # Poison
  /\ InNoNonce => frame.apnonce # Poison /\ frame.len = BytesBehind(frame.apnonce)

(* The install type the caller will find, wherever it is kept meanwhile.   *)
TypeKept ==
  /\ at = "build" => devVals = entry
  /\ at \in {"send", "side", "cryptex", "sendCryptex", "save", "returned"} =>
       TypeStep(entry.installType, devVals.installType)
  /\ at \in {"update", "sendUpdate", "leaveUpdate"} => entry.installType = "Default"
  /\ InNoNonce => TypeStep(entry.installType, frame.installType) /\ ~typeFlag
  /\ request["main"] # NoRequest /\ request["main"].type = "Update" =>
       TypeStep(entry.installType, "Update")

(* How far the call is, told by its requests, tickets and result.          *)
Progress ==
  /\ \A k \in Kinds : ticket[k] => request[k] # NoRequest
  /\ ticket["main"] => at \notin {"build", "send"}
  /\ ticket["update"] => at \notin {"build", "send", "update", "sendUpdate"}
  /\ ticket["noNonce"] => at \in {"leaveNoNonce", "cryptex", "sendCryptex", "save", "returned"}
  /\ ticket["cryptex"] => at \in {"save", "returned"}
  /\ at = "build" => isSigned = 0 /\ \A k \in Kinds : request[k] = NoRequest
  /\ at = "send" => request["main"] # NoRequest /\ isSigned = 0
  /\ at = "sendUpdate" => request["update"] # NoRequest
  /\ at = "sendNoNonce" => request["noNonce"] # NoRequest
  /\ at = "sendCryptex" => request["cryptex"] # NoRequest
  /\ at \notin {"build", "send", "returned"} => ticket["main"] /\ isSigned = 1
  /\ at = "returned" =>
       isSigned = IF request["main"] = NoRequest THEN -1 ELSE IF ticket["main"] THEN 1 ELSE 0

(* All requests agree with what devVals holds by now.                      *)
RequestsAgree ==
  /\ \A k \in Kinds : request[k] # NoRequest =>
       /\ request[k].ecid = devVals.ecid
       /\ devVals.ecid # Unset
       /\ request[k].type \in {"Erase", "Update"}
       /\ typeFlag => request[k].type = entry.installType
  /\ \A k \in Kinds \ {"cryptex"} : request[k] # NoRequest =>
       request[k].sepnonce \in {Unset, devVals.sepnonce}
  /\ \A k \in {"main", "update"} : request[k] # NoRequest => request[k].apnonce # Poison
  /\ request["noNonce"] # NoRequest => request["noNonce"].apnonce = Null

(* The ApNonce of the call, wherever it is kept meanwhile.                 *)
Nonce == IF InNoNonce THEN frame.apnonce ELSE devVals.apnonce
NonceLength == IF InNoNonce THEN frame.len ELSE devVals.parsedApnonceLen

OneNonce ==
  /\ request["main"] # NoRequest /\ request["main"].apnonce # Null =>
       /\ Nonce = request["main"].apnonce
       /\ NonceLength # 0
       /\ request["update"] # NoRequest => request["update"].apnonce = Nonce
  /\ entry.apnonce = Null =>
       /\ \/ Nonce = Null
          \/ Nonce = NonceOf(devVals.generator) /\ devVals.generator # Unset
       /\ request["main"] # NoRequest => request["main"].apnonce # Null

(* What the call was given, or had from an earlier one, it still has.      *)
EntryKept ==
  /\ Keeps(entry, devVals)
  /\ entry.apnonce # Null /\ entry.parsedApnonceLen # 0 =>
       Nonce = entry.apnonce /\ devVals.generator = entry.generator

BlobFits ==
  blob # NoBlob =>
    /\ at = "returned" /\ ticket["main"]
    /\ blob.ecid = devVals.ecid
    /\ blob.nonce = IF devVals.parsedApnonceLen = 0 THEN Null ELSE devVals.apnonce
    /\ blob.generator = devVals.generator
    /\ blob.tickets = {k \in Kinds : ticket[k]}

Inv ==
  /\ TypeOK
  /\ EntryFits
  /\ Swapped
  /\ TypeKept
  /\ Progress
  /\ RequestsAgree
  /\ OneNonce
  /\ EntryKept
  /\ BlobFits
---------------------------------------------------------------------------
(* Its steps.                                                              *)

(* What is said of the call's arguments stays true of them.                *)
LEMMA SameDevice ==
  ASSUME device' = device
  PROVE  \A n : BytesBehind(n)' = BytesBehind(n)
BY Zenon DEF BytesBehind

LEMMA SameCall ==
  ASSUME UNCHANGED call
  PROVE  /\ \A n : BytesBehind(n)' = BytesBehind(n)
         /\ \A a, b : TypeStep(a, b)' <=> TypeStep(a, b)
<1>1. device' = device /\ manifest' = manifest
  BY DEF call
<1>2. \A a, b : TypeStep(a, b)' <=> TypeStep(a, b)
  BY <1>1 DEF TypeStep, SelectIdentity
<1> QED
  BY <1>1, <1>2, SameDevice

LEMMA ArgumentFacts ==
  ASSUME TypeOK
  PROVE  device \in DeviceRecords /\ manifest \in Seq(Identities)
BY SessionAssumption DEF TypeOK

(* One of the three uses of tssrequest, in the state it leaves behind.     *)
BuiltFrom(k, d, ok) ==
  /\ devVals' \in DevVals
  /\ now' \in 1 .. MaxNow
  /\ TypeStep(d.installType, devVals'.installType)
  /\ Keeps(d, devVals')
  /\ LenMatches(devVals')
  /\ NonceStep(d, devVals')
  /\ DOMAIN request' = Kinds
  /\ \A j \in Kinds \ {k} : request'[j] = request[j]
  /\ ~ok => request'[k] = NoRequest
  /\ ok => /\ request'[k] # NoRequest
           /\ RequestFits(request'[k], devVals')
           /\ NonceFits(request'[k], devVals')
           /\ devVals'.ecid # Unset
           /\ d.apnonce = Null => devVals'.apnonce # Null

LEMMA BuildFacts ==
  ASSUME TypeOK, NEW k \in Kinds, NEW d \in DevVals, LenMatches(d), NEW mode,
         NEW sendAt, NEW elseAt, Build(k, d, mode, sendAt, elseAt)
  PROVE  \E ok \in BOOLEAN : /\ at' = IF ok THEN sendAt ELSE elseAt
                             /\ BuiltFrom(k, d, ok)
<1>1. PICK t \in now .. MaxNow, tags \in BOOLEAN :
         LET r == TssRequest(d, mode, t, tags)
         IN /\ now' = t
            /\ devVals' = r.vals
            /\ request' = [request EXCEPT ![k] = r.request]
            /\ at' = IF r.ok THEN sendAt ELSE elseAt
  BY DEF Build
<1> DEFINE r == TssRequest(d, mode, t, tags)
<1>2. t \in 1 .. MaxNow
  BY SessionAssumption DEF TypeOK
<1>3. /\ r.ok \in BOOLEAN
      /\ r.vals \in DevVals
      /\ TypeStep(d.installType, r.vals.installType)
      /\ Keeps(d, r.vals) /\ LenMatches(r.vals) /\ NonceStep(d, r.vals)
      /\ ~r.ok => r.request = NoRequest
      /\ r.ok => /\ RequestFits(r.request, r.vals) /\ NonceFits(r.request, r.vals)
                 /\ r.vals.ecid # Unset
                 /\ d.apnonce = Null => r.vals.apnonce # Null
  BY <1>2, ArgumentFacts, TssRequestFacts DEF Draws
<1>4. /\ devVals' = r.vals /\ now' = t
      /\ at' = IF r.ok THEN sendAt ELSE elseAt
      /\ DOMAIN request' = Kinds /\ request'[k] = r.request
      /\ \A j \in Kinds \ {k} : request'[j] = request[j]
  BY <1>1 DEF TypeOK
<1> HIDE DEF r
<1>5. r.ok => r.request # NoRequest
  BY <1>3, RequestIsSome DEF RequestFits
<1> QED
  BY <1>2, <1>3, <1>4, <1>5 DEF BuiltFrom

(* What a call finds when it starts, the first of a run or a later one.    *)
Ready ==
  /\ device \in Devices /\ manifest \in Manifests
  /\ basebandMode \in BasebandModes
  /\ save \in BOOLEAN /\ typeFlag \in BOOLEAN
  /\ now \in 1 .. MaxNow
  /\ EntryFits
  /\ devVals = entry
  /\ LocalsInit

LEMMA ReadyInv == Ready /\ at = "build" => Inv
<1> SUFFICES ASSUME Ready, at = "build" PROVE Inv
  OBVIOUS
<1> USE DEF Ready, LocalsInit
<1>1. TypeOK
  BY DEF TypeOK, EntryFits, NoFrame, Nonces, NonceLens, InstallTypes
<1>2. Swapped /\ TypeKept
  BY DEF EntryFits, Swapped, TypeKept, InNoNonce, Kinds
<1>3. Progress /\ RequestsAgree
  BY DEF Progress, RequestsAgree, Kinds
<1>4. OneNonce /\ EntryKept /\ BlobFits
  BY DEF OneNonce, EntryKept, Keeps, Nonce, InNoNonce, BlobFits, Kinds
<1> QED
  BY <1>1, <1>2, <1>3, <1>4 DEF Inv

(* What main leaves is fit to start from.                                  *)
LEMMA CallInitFits == CallInit /\ entry = devVals => EntryFits
<1> SUFFICES ASSUME CallInit, entry = devVals PROVE EntryFits
  OBVIOUS
<1>1. LenMatches(devVals) /\ devVals.apnonce # Poison
  BY SessionAssumption, NoncesDiffer, BytesBehindNonces DEF CallInit, LenMatches
<1> QED
  BY <1>1, SessionAssumption DEF CallInit, EntryFits

LEMMA InitInv == Init => Inv
BY SessionAssumption, CallInitFits, ReadyInv DEF Init, CallInit, Ready

(* The main request.                                                       *)
LEMMA BuildMainInv == ASSUME Inv, BuildMain PROVE Inv'
<1> USE DEF Inv, BuildMain, call
<1>1. LenMatches(devVals) /\ devVals = entry /\ devVals \in DevVals
  BY DEF Swapped, TypeKept, TypeOK
<1>2. PICK ok \in BOOLEAN : /\ at' = IF ok THEN "send" ELSE "returned"
                            /\ BuiltFrom("main", devVals, ok)
  BY <1>1, BuildFacts DEF Kinds
<1>3. TypeOK'
  BY <1>2 DEF TypeOK, BuiltFrom
<1>4. EntryFits' /\ UNCHANGED call
  BY SameCall DEF EntryFits, LenMatches
<1>5. devVals'.apnonce # Poison
  BY <1>1, <1>2, NoncesDiffer DEF BuiltFrom, NonceStep, EntryFits
<1>6. Swapped'
  BY <1>2, <1>4, <1>5, SameCall DEF Swapped, InNoNonce, LenMatches, BuiltFrom
<1>7. TypeKept'
  BY <1>1, <1>2, <1>4, SameCall DEF TypeKept, InNoNonce, BuiltFrom, RequestFits
<1>8. \A k \in Kinds \ {"main"} : request'[k] = NoRequest
  BY <1>2 DEF BuiltFrom, Progress
<1>9. Progress'
  BY <1>2, <1>8 DEF Progress, BuiltFrom, Kinds
<1>10. RequestsAgree'
  <2>1. ASSUME ok, typeFlag PROVE request'["main"].type = entry.installType
    BY <1>1, <1>2, <2>1
    DEF BuiltFrom, RequestFits, TypeStep, EntryFits, DevVals, InstallTypes
  <2> QED
    BY <1>2, <1>8, <2>1 DEF RequestsAgree, BuiltFrom, RequestFits, NonceFits, Kinds
<1>11. OneNonce'
  BY <1>1, <1>2, <1>8, BytesBehindNonces
  DEF OneNonce, Nonce, NonceLength, InNoNonce, BuiltFrom, NonceFits, NonceStep, Kinds
<1>12. EntryKept' /\ BlobFits'
  BY <1>1, <1>2 DEF EntryKept, Nonce, InNoNonce, BuiltFrom, NonceStep, BlobFits
<1> QED
  BY <1>3, <1>4, <1>6, <1>7, <1>9, <1>10, <1>11, <1>12

LEMMA SendMainInv == ASSUME Inv, SendMain PROVE Inv'
<1> USE DEF Inv, SendMain, call
<1>1. PICK granted \in BOOLEAN : ticket' = [ticket EXCEPT !["main"] = granted]
  BY DEF Send
<1>2. /\ at' = IF granted /\ save THEN AfterMain ELSE "returned"
      /\ isSigned' = IF granted THEN 1 ELSE 0
      /\ ticket'["main"] = granted
      /\ \A k \in Kinds \ {"main"} : ticket'[k] = ticket[k]
  BY <1>1 DEF Send, TypeOK, Kinds
<1>3. TypeOK'
  BY <1>1, <1>2 DEF TypeOK, Kinds, AfterMain
<1>4. EntryFits' /\ UNCHANGED call
  BY SameCall DEF EntryFits, LenMatches
<1>5. Swapped'
  BY <1>2, <1>4, SameCall DEF Swapped, InNoNonce, LenMatches, AfterMain
<1>6. TypeKept'
  <2>1. devVals.installType = "Default" => entry.installType = "Default"
    BY DEF TypeKept, TypeStep
  <2> QED
    BY <1>2, <1>4, <2>1, SameCall DEF TypeKept, InNoNonce, AfterMain
<1>7. Progress'
  BY <1>2 DEF Progress, AfterMain, Kinds
<1>8. RequestsAgree'
  BY DEF RequestsAgree
<1>9. OneNonce' /\ EntryKept'
  BY <1>2 DEF OneNonce, EntryKept, Keeps, Nonce, NonceLength, InNoNonce, AfterMain
<1>10. BlobFits'
  BY DEF BlobFits
<1> QED
  BY <1>3, <1>4, <1>5, <1>6, <1>7, <1>8, <1>9, <1>10

(* The request for an update install.                                      *)
LEMMA BuildUpdateInv == ASSUME Inv, BuildUpdate PROVE Inv'
<1> USE DEF Inv, BuildUpdate, call
<1> DEFINE d == [devVals EXCEPT !.installType = "Update"]
<1>1. /\ d \in DevVals /\ d.installType = "Update"
      /\ d.ecid = devVals.ecid /\ d.generator = devVals.generator
      /\ d.sepnonce = devVals.sepnonce
      /\ d.apnonce = devVals.apnonce /\ d.parsedApnonceLen = devVals.parsedApnonceLen
  BY DEF TypeOK, DevVals, InstallTypes
<1> HIDE DEF d
<1>2. LenMatches(d)
  BY <1>1 DEF Swapped, LenMatches
<1>3. PICK ok \in BOOLEAN : /\ at' = IF ok THEN "sendUpdate" ELSE "leaveUpdate"
                            /\ BuiltFrom("update", d, ok)
  BY <1>1, <1>2, BuildFacts DEF Kinds, d
<1>4. TypeOK'
  BY <1>3 DEF TypeOK, BuiltFrom
<1>5. EntryFits' /\ UNCHANGED call
  BY SameCall DEF EntryFits, LenMatches
<1>6. devVals'.apnonce # Poison
  BY <1>1, <1>3, NoncesDiffer DEF BuiltFrom, NonceStep, Swapped
<1>7. Swapped'
  BY <1>3, <1>5, <1>6, SameCall DEF Swapped, InNoNonce, LenMatches, BuiltFrom
<1>8. TypeKept'
  BY <1>3, <1>5, SameCall DEF TypeKept, InNoNonce, BuiltFrom, Kinds
<1>9. Progress'
  BY <1>3 DEF Progress, BuiltFrom, Kinds
<1>10. devVals.ecid # Unset /\ ~typeFlag
  BY DEF Progress, RequestsAgree, TypeKept, EntryFits, Kinds
<1>11. RequestsAgree'
  BY <1>1, <1>3, <1>10
  DEF RequestsAgree, BuiltFrom, RequestFits, NonceFits, Keeps, Kinds
<1>12. OneNonce'
  BY <1>1, <1>2, <1>3
  DEF OneNonce, Nonce, NonceLength, InNoNonce, LenMatches, BuiltFrom, NonceFits, NonceStep,
      Keeps, Kinds
<1>13. EntryKept' /\ BlobFits'
  BY <1>1, <1>2, <1>3
  DEF EntryKept, Keeps, Nonce, InNoNonce, BuiltFrom, LenMatches, NonceStep, BlobFits,
      Swapped, EntryFits
<1> QED
  BY <1>4, <1>5, <1>7, <1>8, <1>9, <1>11, <1>12, <1>13

LEMMA SendUpdateInv == ASSUME Inv, SendUpdate PROVE Inv'
<1> USE DEF Inv, SendUpdate, Send, call
<1>1. /\ at' = "leaveUpdate" /\ ticket' \in [Kinds -> BOOLEAN]
      /\ \A k \in Kinds \ {"update"} : ticket'[k] = ticket[k]
  BY DEF TypeOK, Kinds
<1>2. TypeOK'
  BY <1>1 DEF TypeOK
<1>3. EntryFits' /\ Swapped' /\ TypeKept'
  BY <1>1, SameCall DEF EntryFits, Swapped, TypeKept, InNoNonce, LenMatches
<1>4. Progress'
  BY <1>1 DEF Progress, Kinds
<1>5. RequestsAgree' /\ OneNonce' /\ EntryKept' /\ BlobFits'
  BY <1>1 DEF RequestsAgree, OneNonce, EntryKept, Keeps, Nonce, NonceLength, InNoNonce, BlobFits
<1> QED
  BY <1>2, <1>3, <1>4, <1>5

LEMMA LeaveUpdateInv == ASSUME Inv, LeaveUpdate PROVE Inv'
<1> USE DEF Inv, LeaveUpdate, call
<1>1. /\ devVals' \in DevVals /\ devVals'.installType = "Default"
      /\ devVals'.ecid = devVals.ecid /\ devVals'.generator = devVals.generator
      /\ devVals'.sepnonce = devVals.sepnonce
      /\ devVals'.apnonce = devVals.apnonce
      /\ devVals'.parsedApnonceLen = devVals.parsedApnonceLen
  BY DEF TypeOK, DevVals, InstallTypes
<1>2. TypeOK'
  BY <1>1 DEF TypeOK
<1>3. EntryFits' /\ Swapped' /\ TypeKept'
  BY <1>1, SameCall DEF EntryFits, Swapped, TypeKept, TypeStep, InNoNonce, LenMatches
<1>4. Progress'
  BY DEF Progress, Kinds
<1>5. RequestsAgree'
  BY <1>1 DEF RequestsAgree, Kinds
<1>6. OneNonce' /\ EntryKept' /\ BlobFits'
  BY <1>1 DEF OneNonce, EntryKept, Keeps, Nonce, NonceLength, InNoNonce, BlobFits
<1> QED
  BY <1>2, <1>3, <1>4, <1>5, <1>6

(* The request without a nonce.                                            *)
LEMMA SkipNoNonceInv == ASSUME Inv, SkipNoNonce PROVE Inv'
<1> USE DEF Inv, SkipNoNonce, call
<1>1. TypeOK'
  BY DEF TypeOK
<1>2. EntryFits' /\ Swapped' /\ TypeKept'
  BY SameCall DEF EntryFits, Swapped, TypeKept, InNoNonce, LenMatches
<1>3. Progress'
  BY DEF Progress, Kinds
<1>4. RequestsAgree' /\ OneNonce' /\ EntryKept' /\ BlobFits'
  BY DEF RequestsAgree, OneNonce, EntryKept, Keeps, Nonce, NonceLength, InNoNonce, BlobFits
<1> QED
  BY <1>1, <1>2, <1>3, <1>4

LEMMA EnterNoNonceInv == ASSUME Inv, EnterNoNonce PROVE Inv'
<1> USE DEF Inv, EnterNoNonce, call
<1>1. /\ devVals' \in DevVals
      /\ devVals'.ecid = devVals.ecid /\ devVals'.generator = devVals.generator
      /\ devVals'.sepnonce = devVals.sepnonce
      /\ devVals'.apnonce = Poison /\ devVals'.parsedApnonceLen = 0
  BY DEF TypeOK, DevVals, InstallTypes, Nonces, NonceLens
<1>2. /\ frame' \in [apnonce : Nonces, len : NonceLens, installType : InstallTypes]
      /\ frame'.apnonce = devVals.apnonce /\ frame'.len = devVals.parsedApnonceLen
      /\ frame'.installType = devVals.installType
  BY DEF TypeOK, DevVals
<1>3. at' \in {"noNonce", "leaveNoNonce"}
  OBVIOUS
<1>4. TypeOK'
  BY <1>1, <1>2, <1>3 DEF TypeOK
<1>5. EntryFits' /\ Swapped' /\ TypeKept'
  BY <1>1, <1>2, <1>3, SameCall, BytesBehindNonces
  DEF EntryFits, Swapped, TypeKept, InNoNonce, LenMatches
<1>6. Progress'
  BY <1>3 DEF Progress, Kinds
<1>7. RequestsAgree'
  BY <1>1 DEF RequestsAgree, Kinds
<1>8. OneNonce' /\ EntryKept' /\ BlobFits'
  BY <1>1, <1>2, <1>3 DEF OneNonce, EntryKept, Keeps, Nonce, NonceLength, InNoNonce, BlobFits
<1> QED
  BY <1>4, <1>5, <1>6, <1>7, <1>8

LEMMA BuildNoNonceInv == ASSUME Inv, BuildNoNonce PROVE Inv'
<1> USE DEF Inv, BuildNoNonce, call
<1>1. devVals \in DevVals /\ LenMatches(devVals) /\ devVals.apnonce = Poison
  BY DEF TypeOK, Swapped
<1>2. PICK ok \in BOOLEAN : /\ at' = IF ok THEN "sendNoNonce" ELSE "leaveNoNonce"
                            /\ BuiltFrom("noNonce", devVals, ok)
  BY <1>1, BuildFacts DEF Kinds
<1>3. TypeOK'
  BY <1>2 DEF TypeOK, BuiltFrom
<1>4. EntryFits' /\ UNCHANGED call
  BY SameCall DEF EntryFits, LenMatches
<1>5. ok => request'["noNonce"].apnonce = Null /\ devVals'.apnonce = Null
  BY <1>1, <1>2, NoncesDiffer DEF BuiltFrom, NonceStep, NonceFits
<1>6. Swapped'
  BY <1>2, <1>4, <1>5, SameCall, NoncesDiffer DEF Swapped, InNoNonce, LenMatches, BuiltFrom
<1>7. TypeKept'
  BY <1>2, <1>4, SameCall DEF TypeKept, InNoNonce, BuiltFrom, Kinds
<1>8. Progress'
  BY <1>2 DEF Progress, BuiltFrom, Kinds
<1>9. devVals.ecid # Unset /\ ~typeFlag
  BY DEF Progress, RequestsAgree, TypeKept, InNoNonce, Kinds
<1>10. RequestsAgree'
  BY <1>2, <1>5, <1>9 DEF RequestsAgree, BuiltFrom, RequestFits, NonceFits, Keeps, Kinds
<1>11. Keeps(devVals, devVals') /\ devVals'.generator = devVals.generator
  BY <1>1, <1>2, NoncesDiffer DEF BuiltFrom, NonceStep
<1>12. OneNonce' /\ BlobFits'
  BY <1>2, <1>11
  DEF OneNonce, Nonce, NonceLength, InNoNonce, BuiltFrom, BlobFits, Kinds
<1>13. EntryKept'
  BY <1>2, <1>11 DEF EntryKept, Keeps, Nonce, InNoNonce
<1> QED
  BY <1>3, <1>4, <1>6, <1>7, <1>8, <1>10, <1>12, <1>13

LEMMA SendNoNonceInv == ASSUME Inv, SendNoNonce PROVE Inv'
<1> USE DEF Inv, SendNoNonce, Send, call
<1>1. /\ at' = "leaveNoNonce" /\ ticket' \in [Kinds -> BOOLEAN]
      /\ \A k \in Kinds \ {"noNonce"} : ticket'[k] = ticket[k]
  BY DEF TypeOK, Kinds
<1>2. TypeOK'
  BY <1>1 DEF TypeOK
<1>3. EntryFits' /\ Swapped' /\ TypeKept'
  BY <1>1, SameCall DEF EntryFits, Swapped, TypeKept, InNoNonce, LenMatches
<1>4. Progress'
  BY <1>1 DEF Progress, Kinds
<1>5. RequestsAgree' /\ OneNonce' /\ EntryKept' /\ BlobFits'
  BY <1>1 DEF RequestsAgree, OneNonce, EntryKept, Keeps, Nonce, NonceLength, InNoNonce, BlobFits
<1> QED
  BY <1>2, <1>3, <1>4, <1>5

LEMMA LeaveNoNonceInv == ASSUME Inv, LeaveNoNonce PROVE Inv'
<1> USE DEF Inv, LeaveNoNonce, RestoreFrame, call
<1>1. /\ devVals' \in DevVals
      /\ devVals'.ecid = devVals.ecid /\ devVals'.generator = devVals.generator
      /\ devVals'.sepnonce = devVals.sepnonce
      /\ devVals'.apnonce = frame.apnonce /\ devVals'.parsedApnonceLen = frame.len
      /\ devVals'.installType = frame.installType
  BY DEF TypeOK, DevVals
<1>2. TypeOK'
  BY <1>1 DEF TypeOK
<1>3. EntryFits' /\ Swapped' /\ TypeKept'
  BY <1>1, SameCall DEF EntryFits, Swapped, TypeKept, InNoNonce, LenMatches
<1>4. Progress'
  BY DEF Progress, Kinds
<1>5. RequestsAgree'
  BY <1>1 DEF RequestsAgree, Kinds
<1>6. OneNonce' /\ EntryKept' /\ BlobFits'
  BY <1>1 DEF OneNonce, EntryKept, Keeps, Nonce, NonceLength, InNoNonce, BlobFits
<1> QED
  BY <1>2, <1>3, <1>4, <1>5, <1>6

(* The cryptex request, and the file.                                      *)
LEMMA SkipCryptexInv == ASSUME Inv, SkipCryptex PROVE Inv'
<1> USE DEF Inv, SkipCryptex, call
<1>1. TypeOK'
  BY DEF TypeOK
<1>2. EntryFits' /\ Swapped' /\ TypeKept'
  BY SameCall DEF EntryFits, Swapped, TypeKept, InNoNonce, LenMatches
<1>3. Progress'
  BY DEF Progress, Kinds
<1>4. RequestsAgree' /\ OneNonce' /\ EntryKept' /\ BlobFits'
  BY DEF RequestsAgree, OneNonce, EntryKept, Keeps, Nonce, NonceLength, InNoNonce, BlobFits
<1> QED
  BY <1>1, <1>2, <1>3, <1>4

LEMMA BuildCryptexInv == ASSUME Inv, BuildCryptex PROVE Inv'
<1> USE DEF Inv, BuildCryptex, call
<1>1. PICK tags \in BOOLEAN :
         LET r == CryptexTssRequest(devVals, tags)
         IN /\ devVals' = r.vals
            /\ request' = [request EXCEPT !["cryptex"] = r.request]
            /\ at' = IF r.ok THEN "sendCryptex" ELSE "save"
  OBVIOUS
<1> DEFINE r == CryptexTssRequest(devVals, tags)
<1>2. /\ r.ok \in BOOLEAN
      /\ r.vals \in DevVals
      /\ TypeStep(devVals.installType, r.vals.installType)
      /\ r.vals.ecid = devVals.ecid /\ r.vals.generator = devVals.generator
      /\ r.vals.sepnonce = devVals.sepnonce
      /\ r.vals.apnonce = devVals.apnonce
      /\ r.vals.parsedApnonceLen = devVals.parsedApnonceLen
      /\ ~r.ok => r.request = NoRequest
      /\ r.ok => RequestFits(r.request, r.vals)
  BY ArgumentFacts, CryptexFacts DEF TypeOK
<1>3. /\ devVals' = r.vals
      /\ at' = IF r.ok THEN "sendCryptex" ELSE "save"
      /\ DOMAIN request' = Kinds /\ request'["cryptex"] = r.request
      /\ \A j \in Kinds \ {"cryptex"} : request'[j] = request[j]
  BY <1>1 DEF TypeOK, Kinds
<1> HIDE DEF r
<1>4. r.ok => r.request # NoRequest
  BY <1>2, RequestIsSome DEF RequestFits
<1>5. TypeOK'
  BY <1>2, <1>3 DEF TypeOK
<1>6. TypeStep(entry.installType, devVals'.installType)
  BY <1>2, <1>3 DEF TypeKept, TypeStep
<1>7. EntryFits' /\ Swapped' /\ TypeKept' /\ UNCHANGED call
  BY <1>2, <1>3, <1>6, SameCall DEF EntryFits, Swapped, TypeKept, InNoNonce, LenMatches
<1>8. Progress'
  BY <1>2, <1>3, <1>4 DEF Progress, Kinds
<1>9. devVals.ecid # Unset
  BY DEF Progress, RequestsAgree, Kinds
<1>10. ASSUME r.ok, typeFlag PROVE r.request.type = entry.installType
  BY <1>2, <1>3, <1>6, <1>10
  DEF RequestFits, TypeStep, EntryFits, DevVals, InstallTypes
<1>11. RequestsAgree'
  BY <1>2, <1>3, <1>9, <1>10 DEF RequestsAgree, RequestFits, Kinds
<1>12. OneNonce' /\ EntryKept' /\ BlobFits'
  BY <1>2, <1>3 DEF OneNonce, EntryKept, Keeps, Nonce, NonceLength, InNoNonce, BlobFits, Kinds
<1> QED
  BY <1>5, <1>7, <1>8, <1>11, <1>12

LEMMA SendCryptexInv == ASSUME Inv, SendCryptex PROVE Inv'
<1> USE DEF Inv, SendCryptex, Send, call
<1>1. /\ at' = "save" /\ ticket' \in [Kinds -> BOOLEAN]
      /\ \A k \in Kinds \ {"cryptex"} : ticket'[k] = ticket[k]
  BY DEF TypeOK, Kinds
<1>2. TypeOK'
  BY <1>1 DEF TypeOK
<1>3. EntryFits' /\ Swapped' /\ TypeKept'
  BY <1>1, SameCall DEF EntryFits, Swapped, TypeKept, InNoNonce, LenMatches
<1>4. Progress'
  BY <1>1 DEF Progress, Kinds
<1>5. RequestsAgree' /\ OneNonce' /\ EntryKept' /\ BlobFits'
  BY <1>1 DEF RequestsAgree, OneNonce, EntryKept, Keeps, Nonce, NonceLength, InNoNonce, BlobFits
<1> QED
  BY <1>2, <1>3, <1>4, <1>5

LEMMA SaveBlobInv == ASSUME Inv, SaveBlob PROVE Inv'
<1> USE DEF Inv, SaveBlob, call
<1>1. request["main"] # NoRequest /\ request["main"].ecid = devVals.ecid
  BY DEF Progress, RequestsAgree, Kinds
<1>2. /\ devVals' \in DevVals
      /\ devVals'.ecid = devVals.ecid /\ devVals'.generator = devVals.generator
      /\ devVals'.sepnonce = devVals.sepnonce
      /\ devVals'.apnonce = devVals.apnonce
      /\ devVals'.parsedApnonceLen = devVals.parsedApnonceLen
      /\ devVals'.installType = devVals.installType
  BY <1>1 DEF TypeOK, DevVals
<1>3. TypeOK'
  BY <1>2 DEF TypeOK
<1>4. EntryFits' /\ Swapped' /\ TypeKept'
  BY <1>2, SameCall DEF EntryFits, Swapped, TypeKept, InNoNonce, LenMatches
<1>5. Progress'
  BY <1>1 DEF Progress, Kinds
<1>6. RequestsAgree'
  BY <1>2 DEF RequestsAgree, Kinds
<1>7. OneNonce' /\ EntryKept'
  BY <1>2 DEF OneNonce, EntryKept, Keeps, Nonce, NonceLength, InNoNonce
<1>8. BlobFits'
  BY <1>2 DEF BlobFits, Progress
<1> QED
  BY <1>3, <1>4, <1>5, <1>6, <1>7, <1>8

LEMMA StutterInv == ASSUME Inv, UNCHANGED vars PROVE Inv'
<1> USE DEF Inv, vars
<1>1. UNCHANGED call
  BY DEF call
<1>2. TypeOK'
  BY DEF TypeOK
<1>3. EntryFits' /\ Swapped' /\ TypeKept'
  BY <1>1, SameCall DEF EntryFits, Swapped, TypeKept, InNoNonce, LenMatches
<1>4. Progress' /\ RequestsAgree'
  BY DEF Progress, RequestsAgree
<1>5. OneNonce' /\ EntryKept' /\ BlobFits'
  BY DEF OneNonce, EntryKept, Keeps, Nonce, NonceLength, InNoNonce, BlobFits
<1> QED
  BY <1>2, <1>3, <1>4, <1>5

LEMMA NextInv == Inv /\ [Next]_vars => Inv'
BY BuildMainInv, SendMainInv, BuildUpdateInv, SendUpdateInv, LeaveUpdateInv,
   SkipNoNonceInv, EnterNoNonceInv, BuildNoNonceInv, SendNoNonceInv, LeaveNoNonceInv,
   SkipCryptexInv, BuildCryptexInv, SendCryptexInv, SaveBlobInv, StutterInv
DEF Next

---------------------------------------------------------------------------
(* Between two calls of a run, which SigningRun composes.                  *)

LEMMA NextFacts == Next => UNCHANGED call /\ at # "idle"
BY DEF Next, BuildMain, SendMain, BuildUpdate, SendUpdate, LeaveUpdate, SkipNoNonce,
       EnterNoNonce, BuildNoNonce, SendNoNonce, LeaveNoNonce, SkipCryptex, BuildCryptex,
       SendCryptex, SaveBlob, call

(* A caller waiting with what a call needs, whatever manifest it fetches.  *)
LEMMA ReadyStays ==
  ASSUME Ready, manifest' \in Manifests,
         UNCHANGED <<device, basebandMode, save, typeFlag, devVals, entry, now,
                     frame, isSigned, request, ticket, blob>>
  PROVE  Ready'
<1>1. EntryFits'
  BY SameDevice DEF Ready, EntryFits, LenMatches
<1> QED
  BY <1>1 DEF Ready, LocalsInit

(* What a call leaves is fit for the next one.                             *)
LEMMA ReturnReady ==
  ASSUME Inv, at = "returned", entry' = devVals, LocalsInit',
         UNCHANGED <<device, manifest, basebandMode, save, typeFlag, devVals, now>>
  PROVE  Ready'
<1> USE DEF Inv
<1>1. typeFlag => devVals.installType # "Default"
  BY DEF EntryFits, TypeKept, TypeStep
<1>2. devVals \in DevVals /\ LenMatches(devVals) /\ devVals.apnonce # Poison
  BY DEF TypeOK, Swapped
<1>3. EntryFits'
  BY <1>1, <1>2, SameDevice DEF EntryFits, LenMatches
<1> QED
  BY <1>3 DEF Ready, TypeOK

(* What a call that returns has done, seen from outside.                   *)
LEMMA EndOfCall ==
  ASSUME Inv, at = "returned"
  PROVE  /\ isSigned \in {-1, 0, 1}
         /\ isSigned = 1 <=> ticket["main"]
         /\ isSigned = -1 <=> request["main"].type = "none"
         /\ TypeStep(entry.installType, devVals.installType)
         /\ request["main"].type = "Update" => TypeStep(entry.installType, "Update")
         /\ Keeps(entry, devVals)
         /\ entry.apnonce # Null /\ entry.parsedApnonceLen # 0 =>
              devVals.apnonce = entry.apnonce /\ devVals.generator = entry.generator
         /\ (entry.apnonce # Null => entry.parsedApnonceLen # 0) =>
              /\ devVals.apnonce # Null => devVals.parsedApnonceLen # 0
              /\ blob # NoBlob =>
                   /\ devVals.ecid # Unset /\ devVals.apnonce # Null
                   /\ blob.ecid = devVals.ecid /\ blob.nonce = devVals.apnonce
                   /\ blob.generator = devVals.generator
<1> USE DEF Inv
<1>1. request["main"] # NoRequest <=> request["main"].type # "none"
  BY DEF RequestsAgree, Kinds, NoRequest
<1>2. /\ isSigned = IF request["main"] = NoRequest THEN -1 ELSE IF ticket["main"] THEN 1 ELSE 0
      /\ ticket["main"] => request["main"] # NoRequest
  BY DEF Progress, Kinds
<1>3. /\ isSigned \in {-1, 0, 1}
      /\ isSigned = 1 <=> ticket["main"]
      /\ isSigned = -1 <=> request["main"].type = "none"
  BY <1>1, <1>2
<1>4. /\ TypeStep(entry.installType, devVals.installType)
      /\ request["main"].type = "Update" => TypeStep(entry.installType, "Update")
  BY <1>1 DEF TypeKept
<1>5. /\ Keeps(entry, devVals)
      /\ entry.apnonce # Null /\ entry.parsedApnonceLen # 0 =>
           devVals.apnonce = entry.apnonce /\ devVals.generator = entry.generator
  BY DEF EntryKept, Nonce, InNoNonce
<1>6. ASSUME entry.apnonce # Null => entry.parsedApnonceLen # 0, devVals.apnonce # Null
      PROVE  devVals.parsedApnonceLen # 0
  <2>1. CASE entry.apnonce # Null
    BY <1>5, <1>6, <2>1 DEF EntryFits, Swapped, LenMatches
  <2>2. CASE entry.apnonce = Null
    <3>1. devVals.apnonce = NonceOf(devVals.generator)
      BY <1>6, <2>2 DEF OneNonce, Nonce, InNoNonce
    <3>2. device.nonceLen # 0
      BY ArgumentFacts DEF DeviceRecords
    <3> QED
      BY <3>1, <3>2, BytesBehindNonces DEF Swapped, LenMatches
  <2> QED
    BY <2>1, <2>2
<1>7. ASSUME entry.apnonce # Null => entry.parsedApnonceLen # 0, blob # NoBlob
      PROVE  /\ devVals.ecid # Unset /\ devVals.apnonce # Null
             /\ blob.ecid = devVals.ecid /\ blob.nonce = devVals.apnonce
             /\ blob.generator = devVals.generator
  <2>1. request["main"] # NoRequest
    BY <1>2, <1>7 DEF BlobFits
  <2>2. devVals.apnonce # Null
    BY <1>5, <1>7, <2>1 DEF OneNonce, Nonce, InNoNonce
  <2>3. devVals.ecid # Unset
    BY <2>1 DEF RequestsAgree, Kinds
  <2> QED
    BY <1>6, <1>7, <2>2, <2>3 DEF BlobFits
<1> QED
  BY <1>3, <1>4, <1>5, <1>6, <1>7

---------------------------------------------------------------------------
(* What follows.                                                           *)

(* Inv holds in every state of every call.                                 *)
LEMMA Invariance == Spec => []Inv
BY InitInv, NextInv, PTL DEF Spec

(* Every variable stays in its type, whatever the call is given: *devVals  *)
(* holds no length but those parseNonce lets through and those drawn.      *)
THEOREM TypeCorrect == Spec => []TypeOK
BY Invariance, PTL DEF Inv

LEMMA PoisonFacts == Inv => PoisonContained
BY NoncesDiffer DEF Inv, Swapped, RequestsAgree, InNoNonce, PoisonContained, Kinds

(* The pointer 0x1337 reaches no request, and *devVals is rid of it before *)
(* any other request is built.                                             *)
THEOREM PoisonStaysInside == Spec => []PoisonContained
BY Invariance, PoisonFacts, PTL

LEMMA LengthFacts == Inv => NonceLengthMatches
BY DEF Inv, Swapped, LenMatches, NonceLengthMatches

(* Nobody reads past the ApNonce: parsedApnonceLen is what is behind it.   *)
THEOREM LengthAlwaysMatches == Spec => []NonceLengthMatches
BY Invariance, LengthFacts, PTL

LEMMA BlobFacts == Inv => TicketsBelongTogether
<1> SUFFICES ASSUME Inv, blob # NoBlob, request["main"].apnonce # Null
             PROVE  /\ \A k \in blob.tickets : request[k].ecid = blob.ecid
                    /\ \A k \in blob.tickets \cap {"main", "update"} :
                         request[k].apnonce = blob.nonce
                    /\ "noNonce" \in blob.tickets => request["noNonce"].apnonce = Null
                    /\ \A j, k \in blob.tickets \ {"cryptex"} :
                         request[j].sepnonce = request[k].sepnonce
                           \/ Unset \in {request[j].sepnonce, request[k].sepnonce}
  BY DEF TicketsBelongTogether
<1> USE DEF Inv
<1>1. /\ at = "returned" /\ ticket["main"]
      /\ blob.ecid = devVals.ecid
      /\ blob.nonce = IF devVals.parsedApnonceLen = 0 THEN Null ELSE devVals.apnonce
      /\ blob.tickets = {k \in Kinds : ticket[k]}
  BY DEF BlobFits
<1>2. \A k \in blob.tickets : k \in Kinds /\ request[k] # NoRequest
  BY <1>1 DEF Progress
<1>3. request["main"] # NoRequest
  BY <1>1, <1>2 DEF Kinds
<1>4. /\ blob.nonce = request["main"].apnonce
      /\ request["update"] # NoRequest => request["update"].apnonce = blob.nonce
  BY <1>1, <1>3 DEF OneNonce, Nonce, NonceLength, InNoNonce
<1> QED
  BY <1>1, <1>2, <1>4 DEF RequestsAgree

(* The tickets of one blob are for one ECID, one ApNonce, one SEP nonce.   *)
THEOREM OneBlobOneNonce == Spec => []TicketsBelongTogether
BY Invariance, BlobFacts, PTL

LEMMA GeneratorFacts == Inv => GeneratorExplainsNonce
<1> SUFFICES ASSUME Inv, blob # NoBlob, entry.apnonce = Null
             PROVE  blob.nonce = NonceOf(blob.generator)
  BY DEF GeneratorExplainsNonce
<1> USE DEF Inv
<1>1. /\ at = "returned" /\ ticket["main"]
      /\ blob.nonce = IF devVals.parsedApnonceLen = 0 THEN Null ELSE devVals.apnonce
      /\ blob.generator = devVals.generator
  BY DEF BlobFits
<1>2. request["main"] # NoRequest
  BY <1>1 DEF Progress, Kinds
<1> QED
  BY <1>1, <1>2 DEF OneNonce, Nonce, NonceLength, InNoNonce

(* A blob whose ApNonce was drawn holds the generator it came from.        *)
THEOREM GeneratorAlwaysExplains == Spec => []GeneratorExplainsNonce
BY Invariance, GeneratorFacts, PTL

LEMMA TypeFacts == Inv => OnlyRequestedType /\ InstallTypeRestored
BY DEF Inv, RequestsAgree, TypeKept, TypeStep, OnlyRequestedType, InstallTypeRestored

(* -u and -E never ask for a ticket of the other install type.             *)
THEOREM OneTypeOnly == Spec => []OnlyRequestedType
BY Invariance, TypeFacts, PTL

(* The install type a call forces is gone when it returns.                 *)
THEOREM TypeGivenBack == Spec => []InstallTypeRestored
BY Invariance, TypeFacts, PTL

LEMMA VerdictFacts == Inv => VerdictIsMainTicket
<1> SUFFICES ASSUME Inv, at = "returned"
             PROVE  /\ isSigned = IF request["main"] = NoRequest THEN -1
                                  ELSE IF ticket["main"] THEN 1 ELSE 0
                    /\ blob # NoBlob => "main" \in blob.tickets
  BY DEF VerdictIsMainTicket
<1> QED
  BY DEF Inv, Progress, BlobFits, Kinds

(* The result tells what became of the main request and nothing else.      *)
THEOREM VerdictAlwaysMain == Spec => []VerdictIsMainTicket
BY Invariance, VerdictFacts, PTL

(* No step draws a second ECID, generator or SEP nonce.                    *)
LEMMA KeepsStep == Inv /\ [Next]_vars => Keeps(devVals, devVals')
<1> SUFFICES ASSUME Inv, [Next]_vars PROVE Keeps(devVals, devVals')
  OBVIOUS
<1>1. TypeOK /\ devVals \in DevVals /\ LenMatches(devVals)
  BY DEF Inv, TypeOK, Swapped
<1>2. CASE BuildMain \/ BuildNoNonce
  BY <1>1, <1>2, BuildFacts DEF BuildMain, BuildNoNonce, BuiltFrom, Kinds
<1>3. CASE BuildUpdate
  <2> DEFINE d == [devVals EXCEPT !.installType = "Update"]
  <2>1. /\ d \in DevVals /\ LenMatches(d)
        /\ d.ecid = devVals.ecid /\ d.generator = devVals.generator
        /\ d.sepnonce = devVals.sepnonce
    BY <1>1 DEF DevVals, InstallTypes, LenMatches
  <2> HIDE DEF d
  <2>2. Keeps(d, devVals')
    BY <1>1, <1>3, <2>1, BuildFacts DEF BuildUpdate, BuiltFrom, Kinds, d
  <2> QED
    BY <2>1, <2>2 DEF Keeps
<1>4. CASE BuildCryptex
  BY <1>1, <1>4, ArgumentFacts, CryptexFacts DEF BuildCryptex, Keeps
<1>5. CASE LeaveUpdate \/ EnterNoNonce \/ LeaveNoNonce
  BY <1>1, <1>5 DEF LeaveUpdate, EnterNoNonce, LeaveNoNonce, RestoreFrame, Keeps, DevVals
<1>6. CASE SaveBlob
  <2>1. request["main"].ecid = devVals.ecid
    BY <1>6 DEF Inv, SaveBlob, Progress, RequestsAgree, Kinds
  <2> QED
    BY <1>1, <1>6, <2>1 DEF SaveBlob, Keeps, DevVals
<1>7. CASE UNCHANGED devVals
  BY <1>7 DEF Keeps
<1> QED
  BY <1>2, <1>3, <1>4, <1>5, <1>6, <1>7
  DEF Next, SendMain, SendUpdate, SkipNoNonce, SendNoNonce, SkipCryptex, SendCryptex, vars

(* Later requests carry the values of the first one.                       *)
THEOREM DrawnOnce == Spec => ChosenOnce
<1>1. Inv /\ [Next]_vars =>
        [/\ devVals.ecid # Unset => devVals'.ecid = devVals.ecid
         /\ devVals.generator # Unset => devVals'.generator = devVals.generator
         /\ devVals.sepnonce # Unset => devVals'.sepnonce = devVals.sepnonce]_vars
  BY KeepsStep DEF Keeps
<1> QED
  BY <1>1, Invariance, PTL DEF Spec, ChosenOnce

---------------------------------------------------------------------------
(* A run: the invariant.                                                   *)

(* A call keeps its own invariant; between calls everything is ready.      *)
Calls == IF at = "idle" THEN Ready ELSE Inv

(* The answer so far against the main requests so far.                     *)
Told ==
  /\ answer \in {-1, 0, 1}
  /\ ~(pc = "done" /\ exempt) =>
       answer = IF \E a \in asked : a.granted THEN 1
                ELSE IF \E a \in asked : a.type # "none" THEN 0 ELSE -1

(* Only a manifest without an erase identity makes the run ask for updates. *)
Fallback ==
  start.installType = "Default" =>
    /\ entry.installType = "Default" \/ \E b \in asked : ~b.hasErase
    /\ \A a \in asked : a.type = "Update" => \E b \in asked : ~b.hasErase

(* What the first blob holds is what every later call starts from.         *)
Shared ==
  start.apnonce # UserNonce(0) =>
    /\ entry.apnonce # Null => entry.parsedApnonceLen # 0
    /\ \A b \in blobs :
         /\ entry.ecid # Unset /\ entry.apnonce # Null
         /\ b.ecid = entry.ecid /\ b.nonce = entry.apnonce
         /\ b.generator = entry.generator

RunInv ==
  /\ Calls
  /\ Told
  /\ Fallback
  /\ Shared

LEMMA RunInitInv == RunInit => RunInv
<1> SUFFICES ASSUME RunInit PROVE RunInv
  OBVIOUS
<1>1. CallInit /\ LocalsInit
  BY DEF RunInit
<1>2. EntryFits
  BY <1>1, CallInitFits DEF RunInit
<1>3. Calls
  BY <1>1, <1>2, SessionAssumption DEF RunInit, Calls, Ready, CallInit
<1>4. Told /\ Fallback
  BY DEF RunInit, Loop!Init, Told, Fallback
<1>5. Shared
  <2>1. devVals \in DevVals0
    BY <1>1 DEF CallInit
  <2> QED
    BY <2>1, SessionAssumption DEF RunInit, Shared
<1> QED
  BY <1>3, <1>4, <1>5 DEF RunInv

LEMMA LoopStepInv == ASSUME RunInv, LoopStep PROVE RunInv'
<1> USE DEF RunInv, LoopStep, vars, locals
<1>1. Calls'
  <2>1. Ready
    BY DEF Calls
  <2>2. Ready'
    BY <2>1, ReadyStays DEF Ready
  <2> QED
    BY <2>2 DEF Calls
<1>2. Told'
  BY DEF Told, Loop!ReturnExempt, Loop!NoUrls, Loop!EnterLoop, Loop!FetchFails,
         Loop!SkipDuplicate, Loop!Finish
<1>3. Fallback' /\ Shared'
  BY DEF Fallback, Shared
<1> QED
  BY <1>1, <1>2, <1>3

LEMMA FetchInv == ASSUME RunInv, FetchManifest PROVE RunInv'
<1> USE DEF RunInv, FetchManifest
<1>1. Calls'
  BY ReadyStays DEF Calls
<1>2. Told'
  BY DEF Told, Loop!FetchManifest
<1>3. Fallback' /\ Shared'
  BY DEF Fallback, Shared
<1> QED
  BY <1>1, <1>2, <1>3

(* A call starts with its invariant.                                       *)
LEMMA CallInv == ASSUME RunInv, CallSession PROVE RunInv'
<1> USE DEF RunInv, CallSession, loopVars, locals
<1>1. Ready /\ devVals = entry
  BY DEF Calls, Ready
<1>2. Ready'
  BY <1>1, ReadyStays DEF Ready
<1>3. (Ready /\ at = "build" => Inv)'
  BY ReadyInv, PTL
<1>4. Calls'
  BY <1>2, <1>3 DEF Calls
<1>5. Told' /\ Fallback' /\ Shared'
  BY <1>1 DEF Told, Fallback, Shared
<1> QED
  BY <1>4, <1>5

LEMMA SessionInv == ASSUME RunInv, SessionStep PROVE RunInv'
<1> USE DEF RunInv, SessionStep, loopVars
<1>1. Next
  OBVIOUS
<1>2. UNCHANGED call /\ at # "idle"
  BY <1>1, NextFacts
<1>3. Inv'
  BY <1>1, <1>2, NextInv DEF Calls
<1>4. Calls'
  BY <1>3 DEF Calls, Inv, TypeOK
<1>5. Told' /\ Fallback' /\ Shared'
  BY <1>2 DEF Told, Fallback, Shared, call
<1> QED
  BY <1>4, <1>5

(* A call returns: its result, its request and its blob are added.         *)
LEMMA ReturnInv == ASSUME RunInv, ReturnFromSession PROVE RunInv'
<1> USE DEF RunInv, ReturnFromSession
<1>1. Inv /\ at = "returned"
  BY DEF Calls
<1>2. Calls'
  BY <1>1, ReturnReady DEF Calls, LocalsInit
<1>3. Told'
  <2>1. /\ answer \in {-1, 0, 1}
        /\ answer = IF \E a \in asked : a.granted THEN 1
                    ELSE IF \E a \in asked : a.type # "none" THEN 0 ELSE -1
    BY DEF Told, Loop!CheckManifest
  <2>2. /\ isSigned \in {-1, 0, 1}
        /\ isSigned = 1 <=> Asked.granted
        /\ isSigned = -1 <=> Asked.type = "none"
    BY <1>1, EndOfCall DEF Asked
  <2>3. answer' = IF isSigned = -1 THEN answer
                  ELSE IF isSigned = 1 \/ answer = 1 THEN 1 ELSE 0
    BY <2>1, <2>2 DEF Loop!CheckManifest, Loop!SettleUrl, Result
  <2>4. /\ (\E a \in asked' : a.granted) <=> Asked.granted \/ \E a \in asked : a.granted
        /\ (\E a \in asked' : a.type # "none")
             <=> Asked.type # "none" \/ \E a \in asked : a.type # "none"
    OBVIOUS
  <2> QED
    BY <2>1, <2>2, <2>3, <2>4 DEF Told
<1>4. Fallback'
  <2> SUFFICES ASSUME start.installType = "Default"
               PROVE  /\ devVals.installType = "Default" \/ \E b \in asked' : ~b.hasErase
                      /\ \A a \in asked' : a.type = "Update" => \E b \in asked' : ~b.hasErase
    BY DEF Fallback
  <2>1. Asked \in asked' /\ asked \subseteq asked'
    OBVIOUS
  <2>2. \A type \in {"Update", devVals.installType} :
          TypeStep(entry.installType, type) =>
            type = "Default" \/ (\E b \in asked : ~b.hasErase) \/ ~Asked.hasErase
    BY DEF Fallback, TypeStep, Asked, HasErase
  <2>3. /\ TypeStep(entry.installType, devVals.installType)
        /\ Asked.type = "Update" => TypeStep(entry.installType, "Update")
    BY <1>1, EndOfCall DEF Asked
  <2>4. \A a \in asked' : a = Asked \/ a \in asked
    OBVIOUS
  <2> QED
    BY <2>1, <2>2, <2>3, <2>4 DEF Fallback
<1>5. Shared'
  <2> SUFFICES ASSUME start.apnonce # UserNonce(0)
               PROVE  /\ devVals.apnonce # Null => devVals.parsedApnonceLen # 0
                      /\ \A b \in blobs \cup ({blob} \ {NoBlob}) :
                           /\ devVals.ecid # Unset /\ devVals.apnonce # Null
                           /\ b.ecid = devVals.ecid /\ b.nonce = devVals.apnonce
                           /\ b.generator = devVals.generator
    BY DEF Shared
  <2>1. entry.apnonce # Null => entry.parsedApnonceLen # 0
    BY DEF Shared
  <2>2. ASSUME NEW b \in blobs
        PROVE  /\ devVals.ecid # Unset /\ devVals.apnonce # Null
               /\ b.ecid = devVals.ecid /\ b.nonce = devVals.apnonce
               /\ b.generator = devVals.generator
    <3>1. /\ entry.ecid # Unset /\ entry.apnonce # Null
          /\ b.ecid = entry.ecid /\ b.nonce = entry.apnonce
          /\ b.generator = entry.generator
      BY DEF Shared
    <3>2. /\ devVals.ecid = entry.ecid
          /\ devVals.apnonce = entry.apnonce /\ devVals.generator = entry.generator
      BY <1>1, <2>1, <3>1, EndOfCall DEF Keeps
    <3> QED
      BY <3>1, <3>2
  <2>3. /\ devVals.apnonce # Null => devVals.parsedApnonceLen # 0
        /\ blob # NoBlob =>
             /\ devVals.ecid # Unset /\ devVals.apnonce # Null
             /\ blob.ecid = devVals.ecid /\ blob.nonce = devVals.apnonce
             /\ blob.generator = devVals.generator
    BY <1>1, <2>1, EndOfCall
  <2> QED
    BY <2>2, <2>3
<1> QED
  BY <1>2, <1>3, <1>4, <1>5

LEMMA RunStutterInv == ASSUME RunInv, UNCHANGED runVars PROVE RunInv'
<1> USE DEF RunInv, runVars, loopVars
<1>1. UNCHANGED vars
  OBVIOUS
<1>2. Calls'
  BY <1>1, StutterInv, ReadyStays DEF Calls, Ready, vars
<1>3. Told' /\ Fallback' /\ Shared'
  BY <1>1 DEF Told, Fallback, Shared, vars
<1> QED
  BY <1>2, <1>3

LEMMA RunInvariance == RunSpec => []RunInv
<1>1. RunInv /\ [RunNext]_runVars => RunInv'
  BY LoopStepInv, FetchInv, CallInv, SessionInv, ReturnInv, RunStutterInv DEF RunNext
<1> QED
  BY <1>1, RunInitInv, PTL DEF RunSpec

---------------------------------------------------------------------------
(* What follows.                                                           *)

(* The run answers what the server said of its main requests, whatever     *)
(* failed on the way.                                                      *)
THEOREM AnswerFromServer == RunSpec => []AnswerIsTheServers
<1>1. RunInv => AnswerIsTheServers
  BY DEF RunInv, Told, AnswerIsTheServers
<1> QED
  BY <1>1, RunInvariance, PTL

(* One run writes blobs for one ECID and one ApNonce, with one generator.  *)
THEOREM OneNonceForAllBlobs == RunSpec => []BlobsShareNonce
<1>1. RunInv => BlobsShareNonce
  BY DEF RunInv, Shared, BlobsShareNonce
<1> QED
  BY <1>1, RunInvariance, PTL

(* The fallback to an update install needs a manifest without erase        *)
(* identity, this one or an earlier one.                                   *)
THEOREM FallbackHasCause == RunSpec => []UpdateOnlyAsFallback
<1>1. RunInv => UpdateOnlyAsFallback
  BY DEF RunInv, Fallback, UpdateOnlyAsFallback
<1> QED
  BY <1>1, RunInvariance, PTL

(* What is shown above of one call holds in every call of a run, whatever  *)
(* the calls before it left in *devVals.                                   *)
THEOREM EveryCallCorrect ==
  RunSpec => [](at # "idle" => /\ PoisonContained
                               /\ NonceLengthMatches
                               /\ TicketsBelongTogether
                               /\ GeneratorExplainsNonce
                               /\ OnlyRequestedType
                               /\ InstallTypeRestored
                               /\ VerdictIsMainTicket)
<1>1. RunInv => (at # "idle" => /\ PoisonContained
                                /\ NonceLengthMatches
                                /\ TicketsBelongTogether
                                /\ GeneratorExplainsNonce
                                /\ OnlyRequestedType
                                /\ InstallTypeRestored
                                /\ VerdictIsMainTicket)
  BY PoisonFacts, LengthFacts, BlobFacts, GeneratorFacts, TypeFacts, VerdictFacts
  DEF RunInv, Calls
<1> QED
  BY <1>1, RunInvariance, PTL

(* With the calls hidden every step of a run is a step of the loop, or     *)
(* none: VersionCheck leaves no result a call can have out. This is        *)
(* ImplementsLoop without its fairness.                                    *)
THEOREM RunIsLoop == RunSpec => Loop!Init /\ [][Loop!Next]_(Loop!vars)
<1>1. RunInit => Loop!Init
  BY DEF RunInit
<1>2. RunInv /\ [RunNext]_runVars => [Loop!Next]_(Loop!vars)
  <2> SUFFICES ASSUME RunInv, [RunNext]_runVars
               PROVE  Loop!Next \/ UNCHANGED loopVars
    BY DEF Loop!vars, loopVars
  <2>1. CASE LoopStep
    BY <2>1 DEF LoopStep, Loop!Next
  <2>2. CASE FetchManifest
    BY <2>2 DEF FetchManifest, Loop!Next
  <2>3. CASE CallSession \/ SessionStep
    BY <2>3 DEF CallSession, SessionStep
  <2>4. CASE ReturnFromSession
    <3>1. isSigned \in {-1, 0, 1}
      BY <2>4, EndOfCall DEF ReturnFromSession, RunInv, Calls
    <3> QED
      BY <2>4, <3>1 DEF ReturnFromSession, Result, Loop!Next
  <2>5. CASE UNCHANGED runVars
    BY <2>5 DEF runVars
  <2> QED
    BY <2>1, <2>2, <2>3, <2>4, <2>5 DEF RunNext
<1> QED
  BY <1>1, <1>2, RunInvariance, PTL DEF RunSpec

---------------------------------------------------------------------------
(* A run ends.                                                             *)

(* Where the loop stands; its module's invariant is about other variables. *)
LoopPlace ==
  /\ urls \in Seq([isDupulicate : BOOLEAN])
  /\ u \in 1 .. Len(urls) + 1
  /\ pc = "check" => u <= Len(urls)
  /\ pc = "entry" => u = 1

LoopLeft ==
  CASE pc = "entry" -> 2 * Len(urls) + 2
    [] pc = "loop"  -> 2 * (Len(urls) + 1 - u) + 1
    [] pc = "check" -> 2 * (Len(urls) + 1 - u)
    [] OTHER        -> 0

CallLeft ==
  CASE at = "idle"         -> 14
    [] at = "build"        -> 13
    [] at = "send"         -> 12
    [] at = "update"       -> 11
    [] at = "sendUpdate"   -> 10
    [] at = "leaveUpdate"  -> 9
    [] at = "side"         -> 8
    [] at = "noNonce"      -> 7
    [] at = "sendNoNonce"  -> 6
    [] at = "leaveNoNonce" -> 5
    [] at = "cryptex"      -> 4
    [] at = "sendCryptex"  -> 3
    [] at = "save"         -> 2
    [] OTHER               -> 1

(* A round of the loop may take a whole call.                              *)
StepsLeft == 16 * LoopLeft + CallLeft

LEMMA LoopPlaceInit == RunInit => LoopPlace
<1>1. RunInit => urls \in Seq([isDupulicate : BOOLEAN]) /\ u = 1 /\ pc = "entry"
  BY RunAssumption DEF RunInit, Loop!Init
<1> QED
  BY <1>1 DEF LoopPlace

LEMMA LoopLeftNat == LoopPlace => LoopLeft \in Nat
BY DEF LoopPlace, LoopLeft

(* The steps of the loop itself.                                           *)
LEMMA LoopCounts ==
  ASSUME LoopPlace,
         \/ Loop!ReturnExempt \/ Loop!NoUrls \/ Loop!EnterLoop \/ Loop!FetchFails
         \/ Loop!SkipDuplicate \/ Loop!Finish
         \/ \E from \in {"cache", "network"} : Loop!FetchManifest(from)
         \/ Loop!CheckManifest(isSigned)
  PROVE  LoopPlace' /\ LoopLeft' \in Nat /\ LoopLeft' < LoopLeft
<1> USE DEF LoopPlace, LoopLeft
<1>0. Len(urls) \in Nat
  OBVIOUS
<1>1. CASE Loop!ReturnExempt \/ Loop!NoUrls \/ Loop!EnterLoop
  <2>1. /\ pc = "entry" /\ UNCHANGED <<urls, u>>
        /\ pc' = "done" \/ (pc' = "loop" /\ urls # <<>>)
    BY <1>1 DEF Loop!ReturnExempt, Loop!NoUrls, Loop!EnterLoop
  <2> QED
    BY <1>0, <2>1
<1>2. CASE Loop!FetchFails
  <2>1. pc = "loop" /\ pc' = "loop" /\ u <= Len(urls) /\ u' = u + 1 /\ urls' = urls
    BY <1>2 DEF Loop!FetchFails
  <2> QED
    BY <1>0, <2>1
<1>3. CASE Loop!SkipDuplicate \/ Loop!CheckManifest(isSigned)
  <2>1. pc = "check" /\ pc' = "loop" /\ u' = u + 1 /\ urls' = urls
    BY <1>3 DEF Loop!SkipDuplicate, Loop!CheckManifest
  <2> QED
    BY <1>0, <2>1
<1>4. CASE Loop!Finish
  <2>1. pc = "loop" /\ pc' = "done" /\ UNCHANGED <<urls, u>>
    BY <1>4 DEF Loop!Finish
  <2> QED
    BY <1>0, <2>1
<1>5. CASE \E from \in {"cache", "network"} : Loop!FetchManifest(from)
  <2>1. pc = "loop" /\ u <= Len(urls) /\ pc' = "check" /\ UNCHANGED <<urls, u>>
    BY <1>5 DEF Loop!FetchManifest
  <2> QED
    BY <1>0, <2>1
<1> QED
  BY <1>1, <1>2, <1>3, <1>4, <1>5

(* Every step of a call goes on to a later place.                          *)
LEMMA CallCounts == ASSUME Inv, Next PROVE CallLeft' < CallLeft
<1> USE DEF CallLeft, Build, Send
<1>1. CASE BuildMain \/ SendMain
  BY <1>1 DEF BuildMain, SendMain, AfterMain
<1>2. CASE BuildUpdate \/ SendUpdate \/ LeaveUpdate
  BY <1>2 DEF BuildUpdate, SendUpdate, LeaveUpdate
<1>3. CASE SkipNoNonce \/ EnterNoNonce
  BY <1>3 DEF SkipNoNonce, EnterNoNonce
<1>4. CASE BuildNoNonce \/ SendNoNonce \/ LeaveNoNonce
  BY <1>4 DEF BuildNoNonce, SendNoNonce, LeaveNoNonce
<1>5. CASE SkipCryptex \/ BuildCryptex \/ SendCryptex
  BY <1>5 DEF SkipCryptex, BuildCryptex, SendCryptex
<1>6. CASE SaveBlob
  BY <1>6 DEF SaveBlob
<1> QED
  BY <1>1, <1>2, <1>3, <1>4, <1>5, <1>6 DEF Next

LEMMA Weigh ==
  ASSUME NEW a \in Nat, NEW b \in Nat, NEW c \in 1 .. 14, NEW d \in 1 .. 14,
         a < b \/ (a = b /\ c < d)
  PROVE  16 * a + c < 16 * b + d
<1>1. CASE a < b
  BY <1>1, Z3
<1>2. CASE a = b
  BY <1>2
<1> QED
  BY <1>1, <1>2

LEMMA WeighLess ==
  ASSUME LoopLeft \in Nat, LoopLeft' \in Nat, LoopLeft' < LoopLeft,
         CallLeft \in 1 .. 14, CallLeft' \in 1 .. 14
  PROVE  StepsLeft' < StepsLeft
<1> SUFFICES ASSUME NEW a \in Nat, NEW b \in Nat, a < b, NEW c \in 1 .. 14, NEW d \in 1 .. 14,
                    a = LoopLeft', b = LoopLeft, c = CallLeft', d = CallLeft
             PROVE  StepsLeft' < StepsLeft
  OBVIOUS
<1>1. StepsLeft' = 16 * a + c /\ StepsLeft = 16 * b + d
  BY DEF StepsLeft
<1>2. 16 * a + c < 16 * b + d
  BY Weigh
<1> QED
  BY <1>1, <1>2

LEMMA WeighSame ==
  ASSUME LoopLeft \in Nat, LoopLeft' = LoopLeft,
         CallLeft \in 1 .. 14, CallLeft' \in 1 .. 14, CallLeft' < CallLeft
  PROVE  StepsLeft' < StepsLeft
<1> SUFFICES ASSUME NEW b \in Nat, NEW c \in 1 .. 14, NEW d \in 1 .. 14, c < d,
                    b = LoopLeft', b = LoopLeft, c = CallLeft', d = CallLeft
             PROVE  StepsLeft' < StepsLeft
  OBVIOUS
<1>1. StepsLeft' = 16 * b + c /\ StepsLeft = 16 * b + d
  BY DEF StepsLeft
<1>2. 16 * b + c < 16 * b + d
  BY Weigh
<1> QED
  BY <1>1, <1>2

LEMMA RunStepCounts ==
  ASSUME RunInv, LoopPlace, RunNext
  PROVE  LoopPlace' /\ StepsLeft' < StepsLeft
<1>0. LoopLeft \in Nat /\ CallLeft \in 1 .. 14
  BY LoopLeftNat DEF CallLeft
<1>1. CASE LoopStep \/ FetchManifest
  <2>1. LoopPlace' /\ LoopLeft' \in Nat /\ LoopLeft' < LoopLeft
    BY <1>1, LoopCounts DEF LoopStep, FetchManifest
  <2>2. CallLeft' \in 1 .. 14
    BY <1>1 DEF LoopStep, FetchManifest, CallLeft, vars
  <2> QED
    BY <1>0, <2>1, <2>2, WeighLess
<1>2. CASE CallSession \/ SessionStep
  <2>1. UNCHANGED <<urls, u, pc>>
    BY <1>2 DEF CallSession, SessionStep, loopVars
  <2>2. CallLeft' < CallLeft /\ CallLeft' \in 1 .. 14
    <3>1. CASE CallSession
      BY <3>1 DEF CallSession, CallLeft
    <3>2. CASE SessionStep
      <4>1. at # "idle"
        BY <3>2 DEF SessionStep, Next, BuildMain, SendMain, BuildUpdate, SendUpdate,
             LeaveUpdate, SkipNoNonce, EnterNoNonce, BuildNoNonce, SendNoNonce, LeaveNoNonce,
             SkipCryptex, BuildCryptex, SendCryptex, SaveBlob
      <4>2. Inv /\ Next
        BY <3>2, <4>1 DEF SessionStep, RunInv, Calls
      <4> QED
        BY <4>2, CallCounts DEF CallLeft
    <3> QED
      BY <1>2, <3>1, <3>2
  <2>3. LoopPlace' /\ LoopLeft' = LoopLeft
    BY <2>1 DEF LoopPlace, LoopLeft
  <2> QED
    BY <1>0, <2>2, <2>3, WeighSame
<1>3. CASE ReturnFromSession
  <2>1. LoopPlace' /\ LoopLeft' \in Nat /\ LoopLeft' < LoopLeft
    BY <1>3, LoopCounts DEF ReturnFromSession, Result
  <2>2. CallLeft' \in 1 .. 14
    BY <1>3 DEF ReturnFromSession, CallLeft
  <2> QED
    BY <1>0, <2>1, <2>2, WeighLess
<1> QED
  BY <1>1, <1>2, <1>3 DEF RunNext

(* A run ends whatever the server answers and however its calls fail: a    *)
(* call never goes back to an earlier request, the loop never to a URL.    *)
THEOREM RunStepsAreBounded ==
  RunSpec => [](StepsLeft \in Nat) /\ [][StepsLeft' < StepsLeft]_runVars
<1>1. RunInv /\ LoopPlace /\ [RunNext]_runVars => LoopPlace'
  BY RunStepCounts DEF runVars, loopVars, LoopPlace
<1>2. RunInv /\ LoopPlace /\ [RunNext]_runVars => [StepsLeft' < StepsLeft]_runVars
  BY RunStepCounts
<1>3. LoopPlace => StepsLeft \in Nat
  <2>1. CallLeft \in Nat
    BY DEF CallLeft
  <2> QED
    BY <2>1, LoopLeftNat DEF StepsLeft
<1> QED
  BY <1>1, <1>2, <1>3, LoopPlaceInit, RunInvariance, PTL DEF RunSpec
=============================================================================
