------------------------------- MODULE Search -------------------------------
(***************************************************************************)
(* The hybrid search (internal/service/search.go, SearchLexical and the     *)
(* vector searches of internal/store/search.go): the words' ranking beside  *)
(* the chain that embeds the question and asks two vector lists, fused.     *)
(*                                                                         *)
(* Each list is a statement of its own over the rows as they are then.  A   *)
(* vector list is any ranking of rows the filter admits: distances are not  *)
(* modelled.                                                                *)
(***************************************************************************)
EXTENDS ReadRows, QueryText

CONSTANTS
  Questions,   \* what may be asked of a base, besides its titles
  AskFilters,  \* what a search may be narrowed by
  AskLimits,   \* answer lengths
  Embeds,      \* whether the deployment embeds: a set of BOOLEANs
  Rarity,      \* ln(1 + total / df), in thousandths
  RrfK,        \* rrfK
  MaxFailures  \* bound: statements and embeddings that fail

ASSUME SearchAssumption ==
  /\ Questions \subseteq Text
  /\ AskFilters \subseteq FilterType /\ AskLimits \subseteq Nat \ {0}
  /\ \A total \in 1..Cardinality(Ids) : \A df \in 1..total :
       Rarity[total][df] \in Nat \ {0} /\ \A few \in 1..df : Rarity[total][few] >= Rarity[total][df]
  /\ RrfK \in Nat

VARIABLES
  text,     \* what each concept says: its title, its file's name, its body
  ask,      \* the search under way
  failures

searchVars == <<text, ask, failures>>

ConceptText == [title : Text, name : Text, heads : Text, prose : Text]

-----------------------------------------------------------------------------
(* Names.                                                                   *)
Called(id) == {Fold(text[id].title), Fold(text[id].name)}

\* The names a question asks for, as the statement compares them.
AskedNames(query) == {Fold(query)} \cup ToSet(QueryTerms(query))

\* ... and as the fusion does: the question as it was typed.
FusedNames(query) == {query} \cup ToSet(QueryTerms(query))

NameText(id) == Fold(text[id].title) \o <<Space>> \o Fold(text[id].name)
\* A body: what its headings and first cells hold, and its sentences.
Haystack(id) == NameText(id) \o <<Space>> \o Fold(text[id].heads) \o <<Space>> \o Fold(text[id].prose)

-----------------------------------------------------------------------------
(* The words' ranking.                                                      *)
StandingAt(r) == LET at(k) == IF Standing(r, {k}) THEN r[k] ELSE None
                 IN Later(at("human"), at("machine"))

\* A hit carries the row as its own statement saw it.
Hit(id, score) == [id |-> id, score |-> score, checked |-> Standing(row[id], Anyone),
                   at |-> LastVerified(row[id])]

\* x before y, NULLs last.
NewerFirst(x, y) == x # None /\ (y = None \/ x > y)

Total(values) ==
  LET sum[i \in 0..Len(values)] == IF i = 0 THEN 0 ELSE sum[i - 1] + values[i]
  IN sum[Len(values)]

\* Equal scores: where the words stand, then the newest standing verification.
WordsBefore(x, y) ==
  \/ x.score > y.score
  \/ x.score = y.score /\ x.placed > y.placed
  \/ /\ x.score = y.score /\ x.placed = y.placed
     /\ \/ NewerFirst(x.standing, y.standing)
        \/ x.standing = y.standing /\ x.id < y.id

\* What each fragment is worth: how rare it is among the concepts found.
DocumentFrequency(found, g) == Cardinality({x \in found : g \in x.held})
WeightOf(g, df, total) == IF df = 0 THEN 0 ELSE Stands(g) * Rarity[total][df]
Weighted(frags, found) ==
  [i \in DOMAIN frags |->
    [frag |-> frags[i],
     weight |-> WeightOf(frags[i], DocumentFrequency(found, frags[i]), Cardinality(found))]]
Weight(weighted, S) ==
  Total([i \in DOMAIN weighted |-> IF weighted[i].frag \in S THEN weighted[i].weight ELSE 0])

\* Twentieths of the score, times the weight of everything asked for.
Score(query, x, weighted) ==
  20 * Weight(weighted, x.held)
  + 10 * Weight(weighted, {g \in x.asked : Occurs(g, NameText(x.id))})
  + Weight(weighted, x.asked)
    * ((IF Occurs(Fold(query), x.says) THEN 6 ELSE 0)
       + (IF Called(x.id) \cap AskedNames(query) # {} THEN 20 ELSE 0)
       + (IF Standing(row[x.id], Anyone) THEN 1 ELSE 0))
Placed(x, weighted) ==
  Weight(weighted, {g \in x.held : Occurs(g, Fold(text[x.id].heads))})
Scored(query, found, weighted) ==
  {[id |-> x.id, score |-> Score(query, x, weighted), placed |-> Placed(x, weighted),
    standing |-> StandingAt(row[x.id])] : x \in found}

Holding(id, frags, says) ==
  [id |-> id, says |-> says, asked |-> ToSet(frags),
   held |-> {g \in ToSet(frags) : Finds(g, Lexemes(says))}]
Found(frags, f) ==
  {x \in {Holding(id, frags, Haystack(id)) : id \in {i \in Ids : Matches(i, f)}} : x.held # {}}

BestByWords(S) == Arranged(S, {xy \in S \X S : WordsBefore(xy[1], xy[2])})
Ranked(query, depth, found, weighted) ==
  LET best == Capped(BestByWords(Scored(query, found, weighted)), depth)
  IN [i \in DOMAIN best |-> Hit(best[i].id, best[i].score)]
RankedOf(query, depth, frags, found) == Ranked(query, depth, found, Weighted(frags, found))
LexicalOf(query, f, depth, frags) == RankedOf(query, depth, frags, Found(frags, f))
Lexical(query, f, depth) == LexicalOf(query, f, depth, QueryFragments(query))

\* Any ranking a vector list may come to.
Rankings(rows, depth) ==
  UNION {{p \in [1..n -> rows] : IsInjective(p)} : n \in 0..Min({Cardinality(rows), depth})}
Nearest(f, depth) ==
  {[i \in DOMAIN p |-> Hit(p[i], 0)] : p \in Rankings({id \in Ids : Matches(id, f)}, depth)}

-----------------------------------------------------------------------------
(* Fusion, in fractions of one denominator.                                 *)
Denominator ==
  LET product[r \in 0..Cardinality(Ids)] == IF r = 0 THEN 1 ELSE product[r - 1] * (RrfK + r)
  IN product[Cardinality(Ids)]
Share(rank) == Denominator \div (RrfK + rank)
Boost == Share(1) - Share(2)

\* Mutant: a name is worth no more than its score.
FusedBeforeByScore(x, y) ==
  \/ x.score > y.score
  \/ x.score = y.score /\ x.words > y.words
  \/ x.score = y.score /\ x.words = y.words /\ x.id < y.id
\* How the fusion orders: names, score, the words' score, the verification.
FusedBefore(x, y) ==
  \/ x.named /\ ~y.named
  \/ /\ x.named = y.named
     /\ \/ x.score > y.score
        \/ x.score = y.score /\ x.words > y.words
        \/ /\ x.score = y.score /\ x.words = y.words
           /\ \/ NewerFirst(x.at, y.at)
              \/ x.at = y.at /\ x.id < y.id

\* Each list gives a hit a share by its place; the hit itself is the first
\* list's that has it.
In(list, id) == \E h \in ToSet(list) : h.id = id
FirstWith(lists, id) ==
  CHOOSE k \in DOMAIN lists : In(lists[k], id) /\ \A j \in 1..k - 1 : ~In(lists[j], id)
HitIn(lists, id) == CHOOSE h \in ToSet(lists[FirstWith(lists, id)]) : h.id = id
ShareIn(list, id) == Total([i \in DOMAIN list |-> IF list[i].id = id THEN Share(i) ELSE 0])
WordsScore(list, id) == Total([i \in DOMAIN list |-> IF list[i].id = id THEN list[i].score ELSE 0])
Shares(lists, id) == Total([k \in DOMAIN lists |-> ShareIn(lists[k], id)])
Fused(query, lists, id, hit) ==
  [id |-> id, at |-> hit.at, named |-> Called(id) \cap FusedNames(query) # {},
   words |-> WordsScore(lists[1], id),
   score |-> (IF hit.checked THEN Boost ELSE 0) + Shares(lists, id)]
BestFused(S) == Arranged(S, {xy \in S \X S : FusedBefore(xy[1], xy[2])})
Fuse(query, limit, lists) ==
  LET best == Capped(BestFused({Fused(query, lists, id, HitIn(lists, id)) :
                                  id \in {i \in Ids : \E l \in ToSet(lists) : In(l, i)}}), limit)
  IN [i \in DOMAIN best |-> best[i].id]

-----------------------------------------------------------------------------
(* A search.  pending: the statements still out.                            *)
NoAsk == [state |-> "none", query |-> << >>, filter |-> None, limit |-> 0,
          pending |-> {}, lexical |-> << >>, vector |-> << >>, files |-> << >>,
          embedded |-> TRUE, worded |-> FALSE, hits |-> << >>,
          degraded |-> FALSE, missed |-> FALSE]

\* A filter that leaves nothing of the scope is answered with nothing, and
\* records nothing.
Ask ==
  \E q \in Questions \cup {text[id].title : id \in Ids}, f \in AskFilters, n \in AskLimits, embeds \in Embeds :
    /\ ask.state = "none" /\ q # << >>
    /\ ask' = IF Narrow(f) = None THEN [NoAsk EXCEPT !.state = "answered", !.query = q, !.limit = n]
              ELSE [NoAsk EXCEPT !.state = "asking", !.query = q, !.filter = Narrow(f),
                                 !.limit = n, !.embedded = embeds,
                                 !.pending = {"lexical"} \cup IF embeds THEN {"embed"} ELSE {}]
    /\ UNCHANGED <<text, failures>>

Pending(step) == ask.state = "asking" /\ step \in ask.pending

RankWords ==
  /\ Pending("lexical")
  /\ LET list == Lexical(ask.query, ask.filter, 2 * ask.limit) IN
     ask' = [ask EXCEPT !.pending = @ \ {"lexical"}, !.lexical = list, !.worded = list # << >>]
  /\ UNCHANGED <<text, failures>>

\* The embedding arrives, and both vector lists are asked for.
Embed ==
  /\ Pending("embed")
  /\ ask' = [ask EXCEPT !.pending = (@ \ {"embed"}) \cup {"vector", "files"}]
  /\ UNCHANGED <<text, failures>>

\* It fails, or is not there by the deadline: the answer degrades.
EmbedFails ==
  /\ Pending("embed") /\ failures < MaxFailures
  /\ failures' = failures + 1
  /\ ask' = [ask EXCEPT !.pending = @ \ {"embed"}, !.embedded = FALSE, !.degraded = TRUE]
  /\ UNCHANGED text

RankVectors ==
  \E kind \in {"vector", "files"} :
    /\ Pending(kind)
    /\ \E list \in Nearest(ask.filter, 2 * ask.limit) :
         ask' = [ask EXCEPT !.pending = @ \ {kind}, ![kind] = list]
    /\ UNCHANGED <<text, failures>>

\* Any other statement's failure is the search's.
Fails ==
  /\ ask.state = "asking" /\ ask.pending # {} /\ failures < MaxFailures
  /\ failures' = failures + 1
  /\ ask' = [NoAsk EXCEPT !.state = "failed"]
  /\ UNCHANGED text

\* The lists are dropped with the request; the hits go to the usage counters,
\* and a question no word of the base matched to the misses.
Answer ==
  /\ ask.state = "asking" /\ ask.pending = {}
  /\ LET ids == IF ask.embedded
                THEN Fuse(ask.query, ask.limit, <<ask.lexical, ask.vector, ask.files>>)
                ELSE [i \in DOMAIN Capped(ask.lexical, ask.limit) |-> ask.lexical[i].id]
     IN ask' = [NoAsk EXCEPT !.state = "answered", !.query = ask.query, !.limit = ask.limit,
                             !.hits = ids, !.degraded = ask.degraded, !.missed = ~ask.worded]
  /\ UNCHANGED <<text, failures>>
=============================================================================
