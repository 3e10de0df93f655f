------------------------ MODULE MCMulticastTransfer ------------------------
(* Instances of MulticastTransfer for TLC. *)
EXTENDS MulticastTransfer, TLC

CONSTANTS near, far

\* More symbols are trimmed on the way to one receiver than to the other.
TrimsMore == (near :> 1) @@ (far :> 2)
============================================================================
