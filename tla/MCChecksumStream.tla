-------------------------- MODULE MCChecksumStream --------------------------
(* Small instances of ChecksumStream for TLC. *)
EXTENDS ChecksumStream, TLC

CONSTANTS p1, p2

MCOne == (p1 :> 1) @@ (p2 :> 1)
MCReorder == (p1 :> 2) @@ (p2 :> 1)
=============================================================================
