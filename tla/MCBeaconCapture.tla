--------------------------- MODULE MCBeaconCapture ---------------------------
(* Instances of BeaconCapture for TLC. *)
EXTENDS BeaconCapture, TLC

\* Addresses and readings are only ever compared with each other.
Symmetry == Permutations(Bssids) \union Permutations(Addrs) \union Permutations(Readings \ {Absent})
=============================================================================
