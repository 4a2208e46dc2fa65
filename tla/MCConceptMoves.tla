--------------------------- MODULE MCConceptMoves ---------------------------
(* Bounds for TLC: two documents that may cite each other in one directory,  *)
(* a third row free, an empty directory to move to, and a file in the        *)
(* namespace of the first.                                                   *)
EXTENDS ConceptMoves, TLC

A == <<"d", "a">>
B == <<"d", "b">>
C == <<"e", "a">>
D == <<"e", "b">>
Picture == <<"d", "a", "p.png">>

Ref(field, doc, abs, up, path) ==
  [field |-> field, doc |-> doc, abs |-> abs, up |-> up, path |-> path]
Beside(name) == Ref(FALSE, TRUE, FALSE, 0, <<name>>)
Link(id) == Ref(FALSE, TRUE, TRUE, 0, id)
Shows(dir) == Ref(FALSE, FALSE, FALSE, 0, <<dir, "p.png">>)
Computation(id) == Ref(TRUE, TRUE, TRUE, 0, id)

MCCollation == <<A, B, C, D>>
MCDirectories == {<<"d">>, <<"e">>}
MCTexts == {{Beside("a")}, {Beside("b"), Computation(A), Shows("a")}}
MCUploads == {Picture}

Document(id, refs) ==
  [id |-> id, live |-> TRUE, refs |-> refs, mark |-> 0,
   links |-> LinksFromBody(id, refs), files |-> FilesFromBody(id, refs)]

\* Both cite the other: one beside it, one from the root.
MCStarts ==
  {[c \in Rows |-> CASE c = "r1" -> Document(A, {Beside("b"), Shows("a")})
                     [] c = "r2" -> Document(B, {Link(A), Computation(A)})
                     [] OTHER -> Absent]}
\* Section 12: a link that climbs out of the bundle, and a directory deep enough
\* to lead it back in.
DeepCollation == <<A, B, C, <<"e", "f", "b">>>>
ClimbingTexts == {{Ref(FALSE, TRUE, FALSE, 2, <<"a">>)}}
MCScopes == {{Root}, {A, <<"e">>}}
=============================================================================
