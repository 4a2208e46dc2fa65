---------------------------- MODULE MCTransfer ----------------------------
(***************************************************************************)
(* A base of two concepts and the file one of them shows, and bundles from  *)
(* elsewhere over the same addresses.                                       *)
(***************************************************************************)
EXTENDS Transfer

D == << <<"d">> >>
A == Append(D, <<"a", "md">>)
B == Append(D, <<"b", "md">>)
Pic == Append(D, <<"p", "png">>)
Seed == Append(Append(D, <<"a">>), <<"s", "csv">>)
Typeless == Append(D, <<"t", "md">>)
Taken == Append(D, <<"t", "markdown">>)
Unheard == Append(D, <<"u", "png">>)
Git == << <<"", "git">>, <<"k">> >>
RootIndex == << <<"index", "md">> >>
RootLog == << <<"log", "md">> >>
Sub == Append(D, <<"s">>)
C == Append(Sub, <<"c", "md">>)

Foreign == [by |-> "other", at |-> 1, confirmed |-> TRUE]
Mine == [by |-> "them", at |-> 1, confirmed |-> FALSE]
Doc(x, links, trust, claim) ==
  [typed |-> TRUE, says |-> x, links |-> links, trust |-> trust, claim |-> claim,
   fit |-> "ok", lines |-> << >>]
File(x) == [Doc(x, << >>, None, None) EXCEPT !.typed = FALSE]
Listing(lines) == [File("listing") EXCEPT !.lines = lines]
Row(x, links, claim) ==
  [says |-> x, links |-> links, claim |-> claim, by |-> "them", at |-> 1, confirmed |-> FALSE]

Full == (A :> [Row("x", <<Pic>>, None) EXCEPT !.confirmed = TRUE]) @@ (C :> Row("y", << >>, Foreign))
        @@ (Pic :> FileRow("bytes"))
Small == (A :> Row("x", << >>, None))
Base(h, desc, s) == [held |-> h, described |-> desc, site |-> s]
Everyone == [reads |-> {Root}, scope |-> {Root}, files |-> TRUE,
             bundles |-> {}, subtrees |-> {}, contested |-> {}]

\* Concepts of every verdict, and the files around them.
Mixed == (A :> Doc("x", <<Pic>>, Mine, None)) @@ (B :> [Doc("n", <<Seed>>, Foreign, None) EXCEPT !.fit = "refused"])
         @@ (Pic :> File("bytes2")) @@ (Seed :> File("seed")) @@ (RootIndex :> Listing(D :> "described"))
Loosened == (Typeless :> File("t")) @@ (Taken :> File("u")) @@ (Git :> File("g")) @@ (Unheard :> File("u"))
            @@ (B :> [Doc("n", <<Git>>, Foreign, Foreign) EXCEPT !.fit = "reread"]) @@ (RootLog :> Log)
            @@ (Pic :> [File("") EXCEPT !.fit = "empty"])
Outside == (A :> Doc("z", << >>, Foreign, None)) @@ (<< <<"e", "md">> >> :> Doc("e", << >>, None, None))

\* An archive and its way back; bundles over a base; callers with one
\* directory; a deployment without a bucket.
MCBases ==
  {Base(Full, D :> "what d is for", [Everyone EXCEPT !.subtrees = {Root, D}, !.contested = {A, Pic}]),
   Base(Small, << >>, [Everyone EXCEPT !.bundles = {Mixed}, !.contested = {A}]),
   Base(Small, << >>, [Everyone EXCEPT !.bundles = {Loosened}, !.contested = {B}]),
   Base(Small, << >>, [Everyone EXCEPT !.bundles = {Outside}, !.scope = {D}]),
   Base(Small, << >>, [Everyone EXCEPT !.bundles = {Outside, Mixed}, !.subtrees = {Root, D},
                                       !.reads = {D}, !.scope = {D}]),
   Base(Small, << >>, [Everyone EXCEPT !.bundles = {Mixed}, !.files = FALSE])}
MCUnaddressable == {Unheard}
\* Three names that trade into two.
Traded == (Typeless :> File("t")) @@ (Taken :> File("u"))
          @@ (Append(D, <<"t", "markdown", "md">>) :> File("v"))
MCTraded == {Base(Small, << >>, [Everyone EXCEPT !.bundles = {Traded}])}
MCRoundTrip == {Base(Small, << >>, [Everyone EXCEPT !.subtrees = {Root}, !.contested = {A}])}
=============================================================================
