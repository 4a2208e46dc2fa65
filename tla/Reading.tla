------------------------------ MODULE Reading ------------------------------
(***************************************************************************)
(* Walks and searches over the same rows, while others write: SearchOrList  *)
(* (internal/service/list.go) and the browsing of the bundle.  One reader,  *)
(* who walks or asks.                                                       *)
(***************************************************************************)
EXTENDS Listings, Search

ASSUME BasesAssumption ==
  \A b \in Bases : /\ b.row \in [Ids -> ConceptRow] /\ b.stored \subseteq Files
                  /\ b.text \in [Ids -> ConceptText]
                  /\ b.scope \in SUBSET Seq(STRING) /\ b.reader \in {"walks", "asks"}

VARIABLES
  reader,  \* what the reader does: "walks" or "asks"
  granted, \* history: the prefixes the request under way is drawn by
  steady,  \* history: the objects whose part in the request has not changed
  open     \* history: the objects readable at some instant since it began

vars == <<rowVars, walkVars, searchVars, reader, granted, steady, open>>

Here(a) == /\ IF a \in Ids THEN row[a].state = "live" ELSE a \in stored
           /\ UnderAny(Path[a], granted)
HereNow == {a \in Objects : Here(a)}

\* Where an object stands in the walk, or what a search may read of it.
Part(a) ==
  IF reader = "asks" THEN <<IF a \in Ids THEN row[a] ELSE None, Here(a)>>
  ELSE IF walk.sort = Level THEN <<Here(a)>>
  ELSE IF a \in Ids /\ Narrow(walk.filter) # None
  THEN <<Matches(a, Narrow(walk.filter)) /\ InFeed(walk.sort, a), Values(walk.sort, a)>>
  ELSE <<FALSE>>

\* The objects a new request is about.
About ==
  IF reader = "asks"
  THEN {a \in Ids : ask.filter # None /\ Matches(a, ask.filter)}
  ELSE IF walk.sort = Level THEN {a \in HereNow : Directly(a, walk.dir)}
  ELSE {a \in Ids : Part(a)[1]}

\* A search resolves its scope as it begins; each page of a walk is a request
\* of its own.
Started == granted' = scope /\ steady' = About' /\ open' = HereNow'
Goes == UNCHANGED <<granted, steady, open>>
Meanwhile ==
  /\ granted' = IF reader = "walks" THEN scope' ELSE granted
  /\ steady' = {a \in steady : Part(a)' = Part(a)}
  /\ open' = open \cup HereNow'

Init ==
  \E b \in Bases :
    /\ row = b.row /\ stored = b.stored /\ scope = b.scope /\ text = b.text
    /\ now = Start /\ writes = b.writes /\ failures = 0
    /\ walk = NoWalk /\ stray = NoCursor /\ ask = NoAsk
    /\ reader = b.reader /\ granted = b.scope /\ steady = {} /\ open = {}

Walks == reader = "walks" /\ UNCHANGED <<rowVars, searchVars, reader>>
Asks == reader = "asks" /\ UNCHANGED <<rowVars, walkVars, reader>>
Others == UNCHANGED <<walkVars, searchVars, reader>>

Next ==
  \/ StartFeed /\ Walks /\ Started
  \/ StartLevel /\ Walks /\ Started
  \/ NextPage /\ Walks /\ Goes
  \/ WrongPage /\ Walks /\ Goes
  \/ Ask /\ Asks /\ Started
  \/ RankWords /\ Asks /\ Goes
  \/ Embed /\ Asks /\ Goes
  \/ EmbedFails /\ Asks /\ Goes
  \/ RankVectors /\ Asks /\ Goes
  \/ Fails /\ Asks /\ Goes
  \/ Answer /\ Asks /\ Goes
  \/ Write /\ Others /\ Meanwhile
  \/ Tick /\ Others /\ Meanwhile

Spec == Init /\ [][Next]_vars
FairSpec == Spec /\ WF_vars(NextPage /\ Walks /\ Goes)

-----------------------------------------------------------------------------
(* An object that stood still through a walk is on exactly one of its pages *)
(* by the end, and never on two; and a level names no subdirectory twice.   *)
(* The cursor is all that carries the walk over the writes between pages.    *)
GivenOnce ==
  /\ \A a \in steady : walk.given[a] <= 1
  /\ walk.state = "ended" => \A a \in steady : walk.given[a] = 1
  /\ \A d \in AllDirectories : walk.told[d] <= 1

(* No page and no answer holds an object that was at no instant since the   *)
(* walk or the search began live and inside what the reader may read,       *)
(* whatever the filter asked for: what may be read at that instant for a    *)
(* page, and for a search, which resolves its scope once, as it began.       *)
OnlyReadable ==
  /\ \A a \in Objects : walk.given[a] > 0 => a \in open
  /\ ToSet(ask.hits) \subseteq open

\* A question some word of which the index could hold.
Searchable(query) ==
  \E g \in ToSet(QueryFragments(query)) : ClassOf(g[1]) # "break" /\ g[1] \notin Stops

(* A concept asked for by its own name is in the answer, behind nothing the *)
(* question does not name: it is missing only from an answer full of named  *)
(* ones.  This holds of the words' ranking alone and of the fused one.      *)
NamedFirst ==
  ask.state = "answered" =>
    \A a \in steady :
      (Fold(ask.query) = ask.query /\ Searchable(ask.query) /\ ask.query \in Called(a)) =>
        LET others == {i \in DOMAIN ask.hits :
                         Called(ask.hits[i]) \cap AskedNames(ask.query) = {}} IN
        \/ \E i \in DOMAIN ask.hits : ask.hits[i] = a /\ \A j \in others : i < j
        \/ Len(ask.hits) = ask.limit /\ others = {}

\* What a text says of a fragment: two characters side by side, a word the
\* dictionary keeps, a name written whole however it is joined, or the one
\* character asked for at the start of a run.
Says(t, g) ==
  \/ ClassOf(g[1]) = "script" /\ Len(g) > 1 /\ Occurs(g, t)
  \/ ClassOf(g[1]) = "script" /\ Len(g) = 1 /\ \E run \in ScriptRuns(t) : run[1] = g[1]
  \/ ClassOf(g[1]) = "word" /\ Len(g) = 1 /\ g[1] \notin Stops /\ Occurs(g, t)
  \/ /\ ClassOf(g[1]) = "word" /\ Len(g) > 1
     /\ \E p \in NamesIn(t) : p[2] - p[1] < MaxIdentifier /\ Lexeme(Said(t, p)) = Lexeme(g)

(* A question is counted as a miss only when no concept it could have been  *)
(* answered with says any of it.                                            *)
MissMeansAbsent ==
  ask.missed =>
    \A a \in steady, g \in ToSet(QueryFragments(ask.query)) : ~Says(Haystack(a), g)

(* Every walk ends: the reader walks past the cap instead of stopping at it. *)
WalksEnd == walk.state = "walking" ~> walk.state = "ended"
=============================================================================
