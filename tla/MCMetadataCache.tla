--------------------------- MODULE MCMetadataCache ---------------------------
(***************************************************************************)
(* Three requests and three objects, one too large for the cache: room for *)
(* two elements, but not in bytes for the two others with their metadata.  *)
(***************************************************************************)
EXTENDS MetadataCache, TLC

CONSTANTS Small, Other, Large

MCSize == Small :> 2 @@ Other :> 3 @@ Large :> 5 @@ None :> 1
=============================================================================
