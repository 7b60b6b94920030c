--------------------------- MODULE MCVersionOrder ---------------------------
(* VersionOrder on listings of at most MaxEntries firmwares. The versions  *)
(* part at the first, the second and the third number, one is the          *)
(* beginning of two others, and 10 is larger than 9.                       *)
EXTENDS VersionOrder, SequencesExt

CONSTANT MaxEntries

MCVersions == {<<9, 3>>, <<10>>, <<10, 1>>, <<10, 1, 2>>}

MCListings ==
  BoundedSeq([version : MCVersions, releasetype : ReleaseTypes \ {"absent"}], MaxEntries)
=============================================================================
