--------------------------- MODULE MCUsageLedger ---------------------------
(***************************************************************************)
(* Symmetry for the safety run of UsageLedger: requests and addresses are   *)
(* only compared.                                                            *)
(***************************************************************************)
EXTENDS UsageLedger, TLC

Symmetry == Permutations(Clients) \cup Permutations(Addresses)
=============================================================================
