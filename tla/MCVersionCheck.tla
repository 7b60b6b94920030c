--------------------------- MODULE MCVersionCheck ---------------------------
(* VersionCheck on every URL array of at most MaxUrls entries. As in       *)
(* getFirmwareUrls, the first entry is never a duplicate.                  *)
EXTENDS VersionCheck, SequencesExt

CONSTANT MaxUrls

MCUrlLists ==
  {s \in BoundedSeq([isDupulicate : BOOLEAN], MaxUrls) :
     s # <<>> => ~s[1].isDupulicate}
=============================================================================
