--------------------------- MODULE MCManifestCache ---------------------------
(* ManifestCache on every array of at most MaxUrls URLs of a few builds.   *)
EXTENDS ManifestCache, SequencesExt

CONSTANT MaxUrls

MCBuildLists == BoundedSeq(Builds, MaxUrls)
=============================================================================
