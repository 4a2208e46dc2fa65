---------------------------- MODULE MCBlobStore ----------------------------
(* Bounds for TLC: requests, paths and contents are interchangeable.        *)
EXTENDS BlobStore, TLC

Symmetry ==
  Permutations(Clients) \cup Permutations(Paths) \cup Permutations(Blobs)
=============================================================================
