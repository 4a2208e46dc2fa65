---------------------------- MODULE MCEmbeddings ----------------------------
(***************************************************************************)
(* Two servers starting, dying and serving one base: an empty one, or one   *)
(* older than the record of its age.  Widths differ for the older model, as *)
(* they may where it was chosen by an older release.                        *)
(***************************************************************************)
EXTENDS Embeddings, TLC

CONSTANTS Older, Default

\* Servers differ in nothing but their names.
Symmetry == Permutations(Servers)

MCDim == [m \in Models |-> IF m = Older THEN 1 ELSE 2]
=============================================================================
