---------------------------- MODULE BundlePaths ----------------------------
(***************************************************************************)
(* Bundle paths (internal/domain): a path is the sequence of its segments,  *)
(* the empty sequence being the root.  Segments are opaque.                 *)
(***************************************************************************)
EXTENDS Integers, Sequences

Root == <<>>

\* id sits at or beneath prefix, matched on segment boundaries.
Under(id, prefix) ==
  /\ Len(prefix) <= Len(id)
  /\ \A i \in 1..Len(prefix) : id[i] = prefix[i]

UnderAny(id, prefixes) == \E p \in prefixes : Under(id, p)

\* Mutant: the granted prefixes under a wider request are forgotten.
IntersectRequested(requested, granted) ==
  {want \in requested : UnderAny(want, granted)}

\* Two prefixes overlap when one contains the other: the narrower is kept.
Intersect(requested, granted) ==
  {want \in requested : UnderAny(want, granted)}
    \cup {have \in granted : UnderAny(have, requested)}

\* The objects in a directory: not the one that shares its name.
Beneath(id, prefix) == Under(id, prefix) /\ id # prefix

\* The path with one prefix cut and another in its place.
Rebase(id, from, to) == to \o SubSeq(id, Len(from) + 1, Len(id))
=============================================================================
