-------------------------- MODULE MCChunkDownload --------------------------
(* ChunkDownload as TLC checks it: the bounds are in the configurations.   *)
EXTENDS ChunkDownload
=============================================================================
