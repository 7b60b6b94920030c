--------------------------- MODULE MCFirmwareUrls ---------------------------
(* FirmwareUrls on lists of at most MaxEntries firmwares, the k-th         *)
(* with the k-th URL. One build name is a prefix of another.               *)
EXTENDS FirmwareUrls

CONSTANT MaxEntries

MCBuildIDs == {<<"A">>, <<"A", "1">>}
MCVersions == {<<"v">>, <<"w">>}
MCUrls == 1 .. MaxEntries

(* Five kinds of entry: both builds under one version, a build under two   *)
(* versions, every release type.                                           *)
Kind(b, v, r) == [buildID |-> b, version |-> v, releasetype |-> r]
MCKinds ==
  {Kind(<<"A">>, <<"v">>, "Beta"), Kind(<<"A", "1">>, <<"v">>, "absent"),
   Kind(<<"A">>, <<"w">>, "other"), Kind(<<"A", "1">>, <<"w">>, "Beta"),
   Kind(<<"A", "1">>, <<"v">>, "Beta")}

MCFirmwareLists ==
  {[k \in DOMAIN s |-> [url |-> k, version |-> s[k].version, buildID |-> s[k].buildID,
                        releasetype |-> s[k].releasetype]] : s \in BoundedSeq(MCKinds, MaxEntries)}
=============================================================================
