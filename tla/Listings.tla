------------------------------ MODULE Listings ------------------------------
(***************************************************************************)
(* The listings, walked page by page with a cursor: the four review feeds,  *)
(* the reverse lookups and the enumeration (internal/service/list.go,       *)
(* cursor.go, internal/store/list.go), and the levels of the bundle         *)
(* (internal/service/browse.go, internal/store/browse.go).                  *)
(*                                                                         *)
(* One reader walks; each page is a request of its own, and others write    *)
(* between two of them.  A cursor is a value the reader hands back: the     *)
(* server keeps nothing of a walk.                                          *)
(***************************************************************************)
EXTENDS ReadRows

CONSTANTS
  Feeds,             \* the listings walked
  Filters,           \* what they may be narrowed by
  Limits,            \* page lengths asked for
  Directories,       \* the levels walked
  MaxBrowseEntries,  \* store.MaxBrowseEntries
  Second             \* the smallest step a rendered stale_after can tell apart

ASSUME ListingsAssumption ==
  /\ Filters \subseteq FilterType /\ Limits \subseteq Nat \ {0}
  /\ MaxBrowseEntries \in Nat \ {0} /\ Second \in Nat \ {0}

VARIABLES
  walk,  \* the walk under way
  stray  \* a cursor another walk was given, still in the reader's hands

walkVars == <<walk, stray>>

Level == "bundle"
Objects == Ids \cup Files

-----------------------------------------------------------------------------
(* Orders.  The columns of each ORDER BY, and a row's values in them.       *)
Ascending == [desc |-> FALSE, null |-> FALSE]
Descending == [desc |-> TRUE, null |-> FALSE]
NullsLast == [desc |-> FALSE, null |-> TRUE]

Columns(sort) ==
  CASE sort = "verified_at" -> <<NullsLast>>
    [] sort = "stale_after" -> <<Ascending>>
    [] sort = "usage" -> <<Descending, Descending, Ascending>>
    [] sort = "failed" -> <<Descending, Descending, Ascending, NullsLast>>
    [] OTHER -> << >>

Values(sort, id) ==
  LET r == row[id] IN
  CASE sort = "verified_at" -> <<LastVerified(r)>>
    [] sort = "stale_after" -> <<r.stale>>
    [] sort = "usage" -> <<Recent(r.fetched), Len(r.fetched), r.created>>
    [] sort = "failed" -> <<Recent(r.failed), Len(r.failed), r.worked, LastVerified(r)>>
    [] OTHER -> << >>

Sooner(c, x, y) ==
  IF c.desc THEN x > y ELSE x # None /\ (y = None \/ x < y)

\* ORDER BY the columns, then the id.
Precedes(sort, a, b) ==
  LET c == Columns(sort)  x == Values(sort, a)  y == Values(sort, b) IN
  \E i \in 1..Len(c) + 1 :
    /\ \A j \in 1..i - 1 : x[j] = y[j]
    /\ IF i > Len(c) THEN a < b ELSE Sooner(c[i], x[i], y[i])

\* Mutant: no value sorts after a NULL, and no NULL after a value.
KeysetAfterValues(sort, keys, last, id) ==
  LET c == Columns(sort)  v == Values(sort, id) IN
  \E i \in 1..Len(c) + 1 :
    /\ \A j \in 1..i - 1 : v[j] = keys[j]
    /\ IF i > Len(c) THEN id > last
       ELSE /\ keys[i] # None /\ v[i] # None
            /\ IF c[i].desc THEN v[i] < keys[i] ELSE v[i] > keys[i]
\* keysetAfter: the predicate the cursor becomes.
KeysetAfter(sort, keys, last, id) ==
  LET c == Columns(sort)  v == Values(sort, id) IN
  \E i \in 1..Len(c) + 1 :
    /\ \A j \in 1..i - 1 : v[j] = keys[j]
    /\ IF i > Len(c) THEN id > last
       ELSE /\ keys[i] # None
            /\ IF c[i].desc THEN v[i] < keys[i]
               ELSE IF v[i] = None THEN c[i].null ELSE v[i] > keys[i]

InFeed(sort, id) ==
  CASE sort = "stale_after" -> PastExpiry(row[id])
    [] sort = "failed" -> UnansweredFailure(row[id])
    [] OTHER -> TRUE

-----------------------------------------------------------------------------
(* Cursors: the listing, its ordering values as they were rendered, the id.  *)
NoCursor == [sort |-> "", keys |-> << >>, id |-> None]

\* cursorKeys.  A stale_after comes off the hit as the hit spells it.
Rendered(sort, keys) ==
  IF sort = "stale_after" THEN <<(keys[1] \div Second) * Second>> ELSE keys

\* decodeCursor: whether a cursor is a position in this listing.
Accepts(cursor, sort, keys) ==
  cursor = NoCursor \/ (cursor.sort = sort /\ Len(cursor.keys) = keys)

\* The first n of a set in an order.
First(S, n, Before(_, _)) == {a \in S : Cardinality({b \in S : Before(b, a)}) < n}
LastOf(S, Before(_, _)) == CHOOSE a \in S : \A b \in S \ {a} : Before(b, a)

\* list: one row more than the page is read, to tell a full page from the last.
List(sort, f, cursor, limit) ==
  LET Before(a, b) == Precedes(sort, a, b)
      rows == {id \in Ids : /\ Matches(id, f) /\ InFeed(sort, id)
                            /\ \/ cursor = NoCursor
                               \/ KeysetAfter(sort, cursor.keys, cursor.id, id)}
      read == First(rows, limit + 1, Before)
      page == First(read, limit, Before)
      last == LastOf(page, Before)
  IN [given |-> page, dirs |-> {},
      cursor |-> IF Cardinality(read) <= limit THEN NoCursor
                 ELSE [sort |-> sort, keys |-> Rendered(sort, Values(sort, last)), id |-> last]]

-----------------------------------------------------------------------------
(* Levels: two runs, concepts and files, each with its own end.             *)
Readable(a) == UnderAny(Path[a], scope)

Directly(a, dir) == Len(Path[a]) = Len(dir) + 1 /\ Under(Path[a], dir)

\* The concepts, and the files, directly in a directory.
Run(kind, dir) ==
  {a \in IF kind = "concepts" THEN {id \in Ids : row[id].state = "live"} ELSE stored :
    Directly(a, dir) /\ Readable(a)}

\* The subdirectories of a level, of which the first page tells.
Subdirectories(dir) ==
  {SubSeq(Path[id], 1, Len(dir) + 1) :
    id \in {i \in Ids : /\ row[i].state = "live" /\ Readable(i)
                        /\ Under(Path[i], dir) /\ Len(Path[i]) > Len(dir) + 1}}

\* One run's page: nothing of a run the cursor marks finished.
RunPage(kind, dir, resumed, after) ==
  LET rest == {a \in Run(kind, dir) : after # None => a > after}
      read == First(rest, MaxBrowseEntries + 1, <)
      page == First(read, MaxBrowseEntries, <)
  IN IF resumed /\ after = None THEN [given |-> {}, next |-> None]
     ELSE [given |-> page,
           next |-> IF Cardinality(read) <= MaxBrowseEntries THEN None
                    ELSE LastOf(page, <)]

Browse(dir, cursor) ==
  LET resumed == cursor # NoCursor
      c == RunPage("concepts", dir, resumed, IF resumed THEN cursor.keys[1] ELSE None)
      f == RunPage("files", dir, resumed, IF resumed THEN cursor.keys[2] ELSE None)
  IN [given |-> c.given \cup f.given,
      dirs |-> IF resumed THEN {} ELSE Subdirectories(dir),
      cursor |-> IF c.next = None /\ f.next = None THEN NoCursor
                 ELSE [sort |-> Level, keys |-> <<c.next, f.next>>, id |-> dir]]

-----------------------------------------------------------------------------
(* A walk.                                                                  *)
AllDirectories == UNION {{SubSeq(Path[id], 1, n) : n \in 1..Len(Path[id]) - 1} : id \in Ids}
NoWalk == [state |-> "none", sort |-> "", filter |-> None, limit |-> 0, dir |-> Root,
           cursor |-> NoCursor, given |-> [a \in Objects |-> 0],
           told |-> [d \in AllDirectories |-> 0]]

\* A walk may be left for another, its cursor still in hand.
Begin(w) ==
  /\ walk.state = "none" \/ (walk.state = "walking" /\ walk.cursor # NoCursor /\ stray = NoCursor)
  /\ walk' = w /\ stray' = walk.cursor

\* SearchOrList without a query: a feed that is named; otherwise a reverse
\* lookup when the filter is one, and the enumeration when it is not.
Mode(sort, f) ==
  CASE sort # "" -> sort
    [] sort = "" /\ "source" \in f.refers -> "source"
    [] sort = "" /\ f.refers = {"links_to"} -> "links_to"
    [] OTHER -> "address"

StartFeed ==
  \E sort \in Feeds \ {Level}, f \in Filters, n \in Limits :
    Begin([NoWalk EXCEPT !.state = "walking", !.sort = Mode(sort, f),
                            !.filter = f, !.limit = n])

StartLevel ==
  \E dir \in Directories :
    /\ Level \in Feeds
    /\ Begin([NoWalk EXCEPT !.state = "walking", !.sort = Level, !.dir = dir])

Nothing == [given |-> {}, dirs |-> {}, cursor |-> NoCursor]

\* The answer to one page.
Took(page) ==
  walk' = [walk EXCEPT
    !.state = IF page.cursor = NoCursor THEN "ended" ELSE @,
    !.cursor = page.cursor,
    !.given = [a \in Objects |-> IF a \in page.given /\ @[a] < 2 THEN @[a] + 1 ELSE @[a]],
    !.told = [d \in AllDirectories |->
                IF d \in page.dirs /\ @[d] < 2 THEN @[d] + 1 ELSE @[d]]]

\* A refused request answers nothing, and is no step.
FeedPage(cursor) ==
  LET f == Narrow(walk.filter) IN
  /\ walk.sort # Level
  /\ IF f = None THEN Took(Nothing)
     ELSE /\ Accepts(cursor, walk.sort, Len(Columns(walk.sort)))
          /\ Took(List(walk.sort, f, cursor, walk.limit))

LevelPage(cursor) ==
  /\ walk.sort = Level
  /\ Accepts(cursor, Level, 2) /\ (cursor # NoCursor => cursor.id = walk.dir)
  /\ Took(IF scope = {} THEN Nothing ELSE Browse(walk.dir, cursor))

PageWith(cursor) ==
  /\ walk.state = "walking"
  /\ FeedPage(cursor) \/ LevelPage(cursor)
  /\ UNCHANGED stray

NextPage == PageWith(walk.cursor)

\* The reader hands back a cursor another listing gave it.
WrongPage ==
  /\ stray # NoCursor
  /\ IF stray.sort = walk.sort THEN walk.sort = Level /\ stray.id # walk.dir ELSE TRUE
  /\ PageWith(stray)
=============================================================================
