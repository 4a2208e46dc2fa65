-------------------------- MODULE MCConceptLedger --------------------------
(* Small instances of ConceptLedger for TLC.                                *)
EXTENDS ConceptLedger, TLC

Doc(t, s, f) == [text |-> t, status |-> s, form |-> f]

\* A draft, its revision, and a deprecation of the second text.
MCPayloads == {Doc("a", "draft", 1), Doc("b", "stable", 1),
               Doc("b", "deprecated", 1)}
\* With a second layout of the stable document, for reformats.
MCFormPayloads == {Doc("a", "draft", 1), Doc("b", "stable", 1),
                   Doc("b", "stable", 2)}

\* Behaviours in which no write is under way beside a verification.
ApartSpec == Init /\ [][Next /\ RulingsApart']_vars

=============================================================================
