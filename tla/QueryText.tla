----------------------------- MODULE QueryText -----------------------------
(***************************************************************************)
(* What a question is cut into and what the index holds of a text           *)
(* (internal/store/search.go; migrations 0036, 0043, 0051): the fragments   *)
(* asked for, the lexemes stored, and when one finds the other.             *)
(*                                                                         *)
(* A text is a sequence of glyphs.  A glyph of a space-less script is a     *)
(* character; one of any other script is a whole word, so no two words      *)
(* stand side by side (Text).                                               *)
(***************************************************************************)
EXTENDS Naturals, FiniteSets, SequencesExt

CONSTANTS
  Kanji, Hiragana, Katakana, Marks,  \* characters; Marks are the joining marks
  Honorifics,                        \* the hiragana that may begin a word
  Words, Stops,                      \* words, and those the dictionary drops
  Underscore, Hyphen, Dot, Space,    \* everything else
  Folded,                            \* NFKC: the glyphs it changes, and to what
  MinLoanword, MaxFragments, MaxIdentifier

Script == Kanji \cup Hiragana \cup Katakana \cup Marks
ContentChars == Kanji \cup Katakana
Joins == {Underscore, Hyphen, Dot}
ClassOf(g) == IF g \in Script THEN "script" ELSE IF g \in Words THEN "word" ELSE "break"

\* NFKC is idempotent, and leaves a space a space.
ASSUME TextAssumption ==
  /\ Honorifics \subseteq Hiragana /\ Stops \subseteq Words
  /\ MinLoanword \in Nat \ 0..2 /\ MaxFragments \in Nat \ {0} /\ MaxIdentifier \in Nat
  /\ Script \cap Words = {} /\ (Joins \cup {Space}) \cap (Script \cup Words) = {}
  /\ Space \in STRING /\ Space \notin Joins \cup DOMAIN Folded
  /\ \A g \in DOMAIN Folded : Folded[g] \in STRING \ DOMAIN Folded

Fold(text) == [i \in DOMAIN text |-> IF text[i] \in DOMAIN Folded THEN Folded[text[i]] ELSE text[i]]

\* A run of word characters is one member of Words: two never stand side by side.
Text ==
  {t \in Seq(STRING) : \A i \in 1..Len(t) - 1 : ~(Fold(t)[i] \in Words /\ Fold(t)[i + 1] \in Words)}

-----------------------------------------------------------------------------
(* Sets in an order, and the stretches of a text: pairs of its positions.    *)

\* The members of S as R has them.
Arranged(S, R) ==
  [k \in 1..Cardinality(S) |-> CHOOSE x \in S : Cardinality({y \in S : <<y, x>> \in R}) = k - 1]
Capped(s, n) == [k \in {i \in DOMAIN s : i <= n} |-> s[k]]

\* Where p begins before q, or there and is longer.
ReadFirst(S) == {pq \in S \X S : \/ pq[1][1] < pq[2][1]
                                 \/ pq[1][1] = pq[2][1] /\ pq[1][2] > pq[2][2]}
Said(t, p) == SubSeq(t, p[1], p[2])
InReadingOrder(t, S) ==
  LET s == Arranged(S, ReadFirst(S)) IN [k \in DOMAIN s |-> Said(t, s[k])]
\* The stretches that say what none before them says.
FirstSaid(t, S) == {q \in S : \A p \in S : <<p, q>> \in ReadFirst(S) => Said(t, p) # Said(t, q)}

\* Where a text is cut: wherever the class of its positions changes.
Pieces(class) ==
  {p \in (DOMAIN class) \X (DOMAIN class) :
     /\ p[1] <= p[2] /\ \A k \in p[1]..p[2] : class[k] = class[p[1]]
     /\ p[1] = 1 \/ class[p[1] - 1] # class[p[1]]
     /\ p[2] = Len(class) \/ class[p[2] + 1] # class[p[1]]}

Occurs(part, s) ==
  \E i \in 0..Len(s) - Len(part) : \A j \in DOMAIN part : s[i + j] = part[j]

Windows(run) == {SubSeq(run, i, i + 1) : i \in 1..Len(run) - 1}
OrAll(some, all) == IF some = {} THEN all ELSE some

-----------------------------------------------------------------------------
(* Identifiers: words joined by . _ or -.                                   *)

\* identifierLexeme
Lexeme(id) == [i \in DOMAIN id |-> IF id[i] = Hyphen THEN Underscore ELSE id[i]]

Joined(t, i, j) ==
  /\ j > i /\ (j - i) % 2 = 0
  /\ \A k \in i..j : IF (k - i) % 2 = 0 THEN t[k] \in Words ELSE t[k] \in Joins

\* The names written whole in a text.
Whole(t, i, j) ==
  Joined(t, i, j) /\ ~(i > 2 /\ Joined(t, i - 2, j)) /\ ~(j + 2 <= Len(t) /\ Joined(t, i, j + 2))
NamesIn(t) == {p \in (DOMAIN t) \X (DOMAIN t) : Whole(t, p[1], p[2])}

\* What stands between two dots of a name, if joined itself.
Qualifiers(t, p) ==
  {q \in (p[1]..p[2]) \X (p[1]..p[2]) :
     /\ q[1] = p[1] \/ t[q[1] - 1] = Dot
     /\ q[2] = p[2] \/ t[q[2] + 1] = Dot
     /\ \A k \in q[1]..q[2] : t[k] # Dot
     /\ \E k \in q[1]..q[2] : t[k] \in {Underscore, Hyphen}}
Identifying(t) ==
  {q \in UNION {{p} \cup Qualifiers(t, p) : p \in NamesIn(t)} : q[2] - q[1] < MaxIdentifier}
Identifiers(t) == InReadingOrder(t, FirstSaid(Lexeme(t), Identifying(t)))

IsIdentifier(frag) == Len(frag) > 1 /\ Joined(frag, 1, Len(frag))

-----------------------------------------------------------------------------
(* What a question is cut into.                                             *)
ScriptRuns(t) ==
  {Said(t, p) : p \in {p \in Pieces([i \in DOMAIN t |-> ClassOf(t[i])]) : ClassOf(t[p[1]]) # "break"}}

KatakanaRun(run) == \A i \in DOMAIN run : run[i] \in Katakana \cup Marks

\* A stretch of katakana long enough is a word of its own.
InLoanword(t, i) ==
  \E a \in 1..i, b \in i..Len(t) : b - a + 1 >= MinLoanword /\ KatakanaRun(SubSeq(t, a, b))
Runs(t) ==
  {p \in Pieces([i \in DOMAIN t |-> <<ClassOf(t[i]), InLoanword(t, i)>>]) : ClassOf(t[p[1]]) # "break"}

Honorific(a, b) == a \in Honorifics /\ b \in ContentChars

ContentWindows(run) ==
  LET all == {<<i, i + 1>> : i \in 1..Len(run) - 1}
      content == {w \in all : run[w[1]] \in ContentChars \/ Honorific(run[w[1]], run[w[2]])}
  IN InReadingOrder(run, OrAll(content, all))

Short(run) == ClassOf(run[1]) = "script" /\ Len(run) <= 2
HoldsContent(run) == \E i \in DOMAIN run : run[i] \in ContentChars

\* What one run is asked for as.
Cut(run) ==
  IF ClassOf(run[1]) # "script" \/ Short(run) \/ KatakanaRun(run)
  THEN <<run>> ELSE ContentWindows(run)

Grammar(run) == Short(run) /\ ~HoldsContent(run)

\* A short run of nothing but grammar is asked for when nothing else is.
Asked(t) == InReadingOrder(t, OrAll({p \in Runs(t) : ~Grammar(Said(t, p))}, Runs(t)))

\* One fragment of every run in turn, so that the bound falls evenly; a turn
\* is a round and a run, and takes what no turn before it took.
Takes(cuts, turn) == cuts[turn[2]][turn[1]]
TurnsFirst(S) == {xy \in S \X S : \/ xy[1][1] < xy[2][1]
                                  \/ xy[1][1] = xy[2][1] /\ xy[1][2] < xy[2][2]}
InTurn(cuts) ==
  LET turns == UNION {{<<n, k>> : n \in DOMAIN cuts[k]} : k \in DOMAIN cuts}
      fresh == {y \in turns : \A x \in turns :
                  <<x, y>> \in TurnsFirst(turns) => Takes(cuts, x) # Takes(cuts, y)}
      s == Arranged(fresh, TurnsFirst(fresh))
  IN [m \in DOMAIN s |-> Takes(cuts, s[m])]

\* Identifiers first, then what every run is asked for as.
CutsOf(ids, runs) ==
  [k \in 1..Len(ids) + Len(runs) |-> IF k <= Len(ids) THEN <<ids[k]>> ELSE Cut(runs[k - Len(ids)])]
FragmentsOf(q) == InTurn(CutsOf(Identifiers(q), Asked(q)))
OrWhole(frags, q) == IF frags = << >> THEN <<q>> ELSE frags
QueryFragments(query) == Capped(OrWhole(FragmentsOf(Fold(query)), Fold(query)), MaxFragments)

\* QueryTerms: the names a question might call concepts by.
TermsOf(q) ==
  FirstSaid(q, {p \in Pieces([i \in DOMAIN q |-> ClassOf(q[i]) # "break" /\ q[i] \notin Hiragana]) :
                  HoldsContent(Said(q, p))})
QueryTerms(query) == Capped(InReadingOrder(Fold(query), TermsOf(Fold(query))), MaxFragments)

-----------------------------------------------------------------------------
(* What the index holds of a text, and what a fragment finds in it.          *)

\* Of a run of the space-less scripts: its windows.
\* Mutant: a run of one character is not stored.
StoredOfPairs(run) == IF ClassOf(run[1]) = "script" THEN Windows(run) ELSE {}
Stored(run) ==
  IF ClassOf(run[1]) # "script" THEN {} ELSE IF Len(run) = 1 THEN {run} ELSE Windows(run)

\* ochakai_search_tsv: words stemmed, two-character windows (a run of one stays
\* as it is), and whole identifiers.
LexemesOf(t) ==
  (UNION {Stored(r) : r \in ScriptRuns(t)})
    \cup {<<w>> : w \in (ToSet(t) \cap Words) \ Stops}
    \cup {Lexeme(Said(t, p)) : p \in Identifying(t)}
Lexemes(text) == LexemesOf(Fold(text))

\* The tsquery of a fragment against a text's lexemes (fragmentQuery, fragmentTerm).
Finds(frag, lexemes) ==
  CASE IsIdentifier(frag) -> Lexeme(frag) \in lexemes
    [] ~IsIdentifier(frag) /\ ClassOf(frag[1]) # "script" -> frag \in lexemes
    [] ClassOf(frag[1]) = "script" /\ Len(frag) = 1 -> \E l \in lexemes : l[1] = frag[1]
    [] OTHER -> Windows(frag) \subseteq lexemes

\* How many windows a fragment stands for (fragmentWindows).
Stands(frag) == IF Len(frag) > 2 /\ KatakanaRun(frag) THEN Len(frag) - 1 ELSE 1
=============================================================================
