----------------------------- MODULE FileStore -----------------------------
(* What the bundle promises of its files: a path holds the bytes last put    *)
(* there until they are replaced or removed.  Nobody erases a file's bytes   *)
(* from under it.                                                           *)
CONSTANTS Paths, Blobs, None

VARIABLE contents   \* what a read of each path answers

Init == contents \in [Paths -> Blobs \cup {None}]

Put(p, b) == contents' = [contents EXCEPT ![p] = b]

\* DELETE of a file, and a purge of everything under a concept.
Remove(ps) == contents' = [p \in Paths |-> IF p \in ps THEN None ELSE contents[p]]

Next ==
  \/ \E p \in Paths, b \in Blobs : Put(p, b)
  \/ \E ps \in SUBSET Paths : Remove(ps)

Spec == Init /\ [][Next]_contents
=============================================================================
