---------------------------- MODULE MCSigningRun ----------------------------
(* SigningRun on URL arrays of at most MaxUrls entries, one device and     *)
(* three manifests: with both install types, update only, none at all.     *)
EXTENDS SigningRun, SequencesExt

CONSTANT MaxUrls

MCUrlLists ==
  {s \in BoundedSeq([isDupulicate : BOOLEAN], MaxUrls) :
     s # <<>> => ~s[1].isDupulicate}

MCDevices ==
  {[board |-> "board", nonceLen |-> 32, hardSEP |-> FALSE, bbgcid |-> 0, apticket3 |-> TRUE]}

Identity(behavior) ==
  [info |-> TRUE, behavior |-> behavior, class |-> "board", hasManifest |-> TRUE,
   sep |-> TRUE, virt |-> "absent"]

MCManifests ==
  {<<>>, <<Identity("Update")>>, <<Identity("Erase"), Identity("Update")>>}

(* Nothing given (0 and <<>> are TicketSession's Unset and Null) or an     *)
(* ApNonce given as "", with and without an install type.                  *)
MCDevVals0 ==
  {[ecid |-> 0, generator |-> 0, apnonce |-> a, parsedApnonceLen |-> 0,
    sepnonce |-> 0, parsedSepnonceLen |-> 0,
    parsedCryptexnonceLen |-> 0, installType |-> i] :
     a \in {<<>>, <<"user", 0>>}, i \in {"Default", "Update"}}
=============================================================================
