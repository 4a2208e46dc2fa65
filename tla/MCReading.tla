----------------------------- MODULE MCReading -----------------------------
(***************************************************************************)
(* Walks over three concepts in every mix of a few histories, and searches  *)
(* over bases whose titles are every short text.                            *)
(***************************************************************************)
EXTENDS Reading

Path3 == (1 :> <<"d", "a">>) @@ (2 :> <<"d", "b">>) @@ (3 :> <<"d", "s", "c">>)
         @@ (8 :> <<"d", "f">>) @@ (9 :> <<"d", "g">>)

Plain == [state |-> "live", status |-> "draft", human |-> None, machine |-> None,
          changed |-> 0, stale |-> None, created |-> 0, fetched |-> << >>,
          failed |-> << >>, worked |-> 0, refers |-> {}]
AbsentRow == [Plain EXCEPT !.state = "absent"]
Overdue == [Plain EXCEPT !.stale = 2, !.human = 1, !.fetched = <<1, 3>>, !.failed = <<2>>,
                         !.refers = {"source", "links_to"}]
Edited == [Overdue EXCEPT !.changed = 2, !.machine = 1, !.human = None,
                          !.fetched = <<2>>, !.refers = {"links_to"}]
Untouched == [Plain EXCEPT !.failed = <<3>>, !.worked = 1, !.refers = {"source"}]

All == [statuses |-> {}, trust |-> {}, refers |-> {}, prefixes |-> {}]
MCFilters == {All,
              [All EXCEPT !.trust = {"unverified", "human-reviewed"}, !.prefixes = {<<"d">>}],
              [All EXCEPT !.refers = {"source"}],
              [All EXCEPT !.refers = {"links_to"}, !.trust = {"machine-confirmed"}]}
MCGrants == {{Root}, {<<"d", "s">>, <<"d", "a">>}, {}}

Silent == [title |-> << >>, name |-> <<"w">>, heads |-> << >>, prose |-> << >>]
Walked(x, y, z, g) ==
  [reader |-> "walks", stored |-> {8, 9}, scope |-> g, text |-> [id \in Ids |-> Silent],
   row |-> (1 :> x) @@ (2 :> y) @@ (3 :> z), writes |-> MaxWrites - 1]
WalkBases == {Walked(Overdue, Overdue, Edited, {Root}), Walked(Edited, Untouched, AbsentRow, {<<"d">>}),
              Walked(Overdue, Untouched, Edited, {<<"d">>}), Walked(Edited, Overdue, AbsentRow, {Root})}

\* Every text of at most three glyphs, no two words side by side.
Glyphs == {"K", "h", "o", "T", "-", "w", "_", " "}
Texts == {t \in UNION {[1..n -> Glyphs] : n \in 1..3} :
           \A i \in 1..Len(t) - 1 : ~(t[i] = "w" /\ t[i + 1] = "w")}
         \cup {<<"the">>, <<"the", " ", "w">>, <<"w", "_", "n", ".", "w">>, <<"w", "~", "n">>, <<"W">>, <<"W", " ", "K">>,
               <<"K", "L", "K", "L", "h">>, <<"K", "T", "-", "T", "K">>, <<"T", "T", "T", "K">>}
Titled(t) == [title |-> t, name |-> <<"n">>, heads |-> << >>, prose |-> << >>]
Saying(h, p) == [title |-> <<"o">>, name |-> <<"n">>, heads |-> h, prose |-> p]
Asker(r, t, w) == [reader |-> "asks", stored |-> {}, scope |-> {<<"d">>}, row |-> r,
                   text |-> t, writes |-> w]
\* What a name is asked for by, beside a body that says it: nobody writes.
NameBases ==
  {Asker((1 :> AbsentRow) @@ (2 :> Overdue) @@ (3 :> Plain),
         (1 :> Silent) @@ (2 :> [Saying(t, t) EXCEPT !.title = << >>]) @@ (3 :> Titled(t)), MaxWrites) : t \in Texts}
\* Three concepts and a writer.
BusyBases ==
  {Asker((1 :> AbsentRow) @@ (2 :> Overdue) @@ (3 :> Plain),
         (1 :> Saying(<<"w">>, t)) @@ (2 :> Saying(t, <<"K", "L">>)) @@ (3 :> Titled(t)), MaxWrites - 1) :
     t \in {<<"K", "L", "h">>}}
\* Two concepts that say what is asked, one of which another request may create
\* while an administrator replaces the grants.
RegrantedBases ==
  {Asker((1 :> AbsentRow) @@ (2 :> AbsentRow) @@ (3 :> x),
         (1 :> Saying(<<"w">>, <<"w">>)) @@ (2 :> Silent) @@ (3 :> Titled(<<"w">>)), 0) :
     x \in {Plain, AbsentRow}}
MCBases == WalkBases \cup NameBases \cup BusyBases \cup RegrantedBases

\* Two concepts past an expiry declared to half a second.
HalfSeconds == [Plain EXCEPT !.stale = 3]
StaleBases == {Walked(HalfSeconds, HalfSeconds, AbsentRow, {Root})}

MCDirectories == {<<"d">>, Root}
AllOnly == {All}
FullWidth == "W" :> "w"

\* ln(1 + total / df), in thousandths.
MCRarity == <<<<693>>, <<1099, 693>>, <<1386, 916, 693>>>>
=============================================================================
