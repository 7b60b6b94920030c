-------------------------- MODULE MCTicketSession --------------------------
(* TicketSession on a few devices, manifests and command lines.            *)
EXTENDS TicketSession

MCDevices ==
  {[board |-> "board", nonceLen |-> 20, hardSEP |-> FALSE, bbgcid |-> 1, apticket3 |-> TRUE],
   [board |-> "board", nonceLen |-> 32, hardSEP |-> TRUE, bbgcid |-> 0, apticket3 |-> FALSE],
   [board |-> "NULL", nonceLen |-> 20, hardSEP |-> FALSE, bbgcid |-> 0, apticket3 |-> TRUE]}

Identity(behavior, class, sep) ==
  [info |-> TRUE, behavior |-> behavior, class |-> class, hasManifest |-> TRUE,
   sep |-> sep, virt |-> "absent"]

(* Not a manifest; only an erase identity of no class; update only; both   *)
(* types, for two boards; a virtual machine's; one without Manifest.       *)
MCManifests ==
  {<<>>,
   <<Identity("Erase", "absent", TRUE)>>,
   <<Identity("Update", "board", TRUE)>>,
   <<Identity("Erase", "other", TRUE), Identity("Update", "board", TRUE),
     Identity("Erase", "board", FALSE)>>,
   <<Identity("Erase", "board", TRUE), Identity("Update", "board", TRUE)>>,
   <<[Identity("Erase", "board", TRUE) EXCEPT !.virt = "other"],
     [Identity("Update", "board", FALSE) EXCEPT !.virt = "string"]>>,
   <<[Identity("Erase", "board", TRUE) EXCEPT !.hasManifest = FALSE]>>}

(* Every combination of given and missing values for the ECID, generator,  *)
(* ApNonce (absent, "", right and wrong length) and SEP nonce.             *)
MCDevVals0 ==
  {[ecid |-> e, generator |-> g, apnonce |-> a[1], parsedApnonceLen |-> a[2],
    sepnonce |-> s[1], parsedSepnonceLen |-> s[2],
    parsedCryptexnonceLen |-> c, installType |-> i] :
     e \in {Unset, User}, g \in {Unset, User},
     a \in {<<Null, 0>>, <<UserNonce(0), 0>>, <<UserNonce(20), 20>>},
     s \in {<<Unset, 0>>, <<User, 16>>, <<User, 20>>},
     c \in {0, 16, 32}, i \in InstallTypes}
=============================================================================
