----------------------------- MODULE OkfBundle -----------------------------
(***************************************************************************)
(* What a bundle is read as (internal/okf: FromBundle, resolveFiles,         *)
(* BundleIndexes) and what an archive writes (Document, Indexes).            *)
(*                                                                           *)
(* A bundle is a function from clean paths to documents.  A segment of a     *)
(* path is the sequence of its dotted parts, so that a suffix can be traded; *)
(* a name that starts with a dot has an empty first part.  A document says   *)
(* one thing: its bytes stand for nothing else.                              *)
(***************************************************************************)
EXTENDS BundlePaths, FiniteSets, SequencesExt

CONSTANT Unaddressable   \* paths validSegment refuses for their bytes

\* The trust family of a document: who it says wrote it, when, and whether
\* it says somebody confirmed that.
None == [by |-> "nobody", at |-> 0, confirmed |-> FALSE]

NoWords == ""

Name(p) == Last(p)
Renamed(p, name) == Append(Front(p), name)
IsMarkdown(p) == Len(Name(p)) > 1 /\ Last(Name(p)) = "md"
IdOf(p) == Renamed(p, Front(Name(p)))
IsIndex(p) == Name(p) = <<"index", "md">>
IsLog(p) == Name(p) = <<"log", "md">>
Dotted(segment) == Head(segment) = NoWords
Hidden(p) == \E i \in DOMAIN p : Dotted(p[i])
Addressable(p) == ~Hidden(p) /\ ~IsIndex(p) /\ ~IsLog(p) /\ p \notin Unaddressable
IsAddress(p) == p \in Seq(Seq(STRING)) /\ Addressable(p)

----------------------------------------------------------------------------
(* Reading a bundle.                                                         *)

ConceptsOf(b) == {p \in DOMAIN b : IsMarkdown(p) /\ Addressable(p) /\ b[p].typed}

Attachable(b, p) ==
  /\ p \in DOMAIN b /\ ~IsMarkdown(p) /\ ~Dotted(Name(p))
  /\ b[p].fit \notin {"empty", "too large"}

\* The files a body points at, one for each name: the first spelled.
LinkedFiles(b, c) ==
  LET links == b[c].links IN
  {links[i] : i \in {i \in DOMAIN links :
     /\ Attachable(b, links[i])
     /\ \A j \in 1..i - 1 : ~(Attachable(b, links[j]) /\ Name(links[j]) = Name(links[i]))}}

\* Whatever nobody points at belongs to the concept it lies under.
FilesBeneath(b, c) ==
  LET linked == UNION {LinkedFiles(b, d) : d \in ConceptsOf(b)} IN
  {p \in DOMAIN b \ linked :
     /\ Attachable(b, p) /\ Front(p) = IdOf(c)
     /\ \A q \in LinkedFiles(b, c) : Name(q) # Name(p)}

Attributions(b) ==
  UNION {{[op |-> "attributed", path |-> p, of |-> c] :
             p \in LinkedFiles(b, c) \cup FilesBeneath(b, c)} : c \in ConceptsOf(b)}

\* What is neither a concept, nor attributed, nor generated.
Rest(b) ==
  {p \in DOMAIN b : ~Hidden(p) /\ ~IsIndex(p) /\ ~IsLog(p)}
    \ (ConceptsOf(b) \cup {a.path : a \in Attributions(b)})

LooseOf(b) == {p \in Rest(b) : Addressable(p) /\ b[p].fit \notin {"empty", "too large"}}
ParseSkips(b) == Rest(b) \ LooseOf(b)

\* A mutant: the suffix is traded without asking whose name that is.
UnclaimedAnyway(b, p) ==
  IF IsMarkdown(p) THEN Renamed(p, Append(Front(Name(p)), "markdown")) ELSE p

\* Where a markdown file with no type is kept: not at a concept's address.
Unclaimed(b, p) ==
  LET At(n) == Renamed(p, Front(Name(p)) \o [i \in 1..n |-> "markdown"]) IN
  IF ~IsMarkdown(p) THEN p
  ELSE At(CHOOSE n \in 1..Cardinality(DOMAIN b) + 1 :
            At(n) \notin DOMAIN b /\ \A m \in 1..n - 1 : At(m) \in DOMAIN b)

IndexesOf(b) == {p \in DOMAIN b : IsIndex(p) /\ ~Hidden(p) /\ b[p].fit # "empty"}

\* Each a field or a file read differently than it was written.
ParseNotes(b) ==
  {p \in DOMAIN b : IsLog(p) /\ ~Hidden(p)} \cup {p \in LooseOf(b) : Unclaimed(b, p) # p}
    \cup {p \in ConceptsOf(b) : b[p].fit = "reread"}

----------------------------------------------------------------------------
(* A document's own trust family is a claim.                                 *)

\* A mutant: what the archive says was seen replaces what was claimed.
ClaimInOfTrust(doc) == IF doc.trust # None THEN doc.trust ELSE doc.claim

\* A claim the document already carries stays; what rides beside it is the
\* observation of the instance it was exported from.
ClaimIn(doc) == IF doc.claim # None THEN doc.claim ELSE doc.trust
Claims(doc) == doc.claim = None /\ doc.trust # None
Sent(doc) == [says |-> doc.says, links |-> doc.links, claim |-> ClaimIn(doc)]

\* What this instance saw of a concept it stores.
Observed(k) == [by |-> k.by, at |-> k.at, confirmed |-> k.confirmed]
IsObservation(claim, k) == claim # None /\ claim = Observed(k)

\* A mutant: a merge settles every claim.
SettledOutright(k, old) == [k EXCEPT !.claim = None]

\* The document a write would leave over the one that is there.
Settled(k, old) == IF IsObservation(k.claim, old) THEN [k EXCEPT !.claim = None] ELSE k
SameDocument(k, old) == k.says = old.says /\ k.links = old.links /\ k.claim = old.claim

----------------------------------------------------------------------------
(* Writing an archive.                                                       *)

Document(k) ==
  [typed |-> TRUE, says |-> k.says, links |-> k.links, trust |-> Observed(k),
   claim |-> k.claim, fit |-> "ok", lines |-> << >>]
FileDocument(f) ==
  [typed |-> FALSE, says |-> f.says, links |-> << >>, trust |-> None,
   claim |-> None, fit |-> "ok", lines |-> << >>]

\* What a subtree's archive carries of a base: its concepts, the files in
\* it, and those its concepts show from elsewhere.
ConceptsUnder(base, prefix) == {p \in DOMAIN base : IsMarkdown(p) /\ Under(IdOf(p), prefix)}
FilesUnder(base, prefix) ==
  {p \in DOMAIN base : /\ ~IsMarkdown(p)
                       /\ \/ Beneath(p, prefix)
                          \/ \E c \in ConceptsUnder(base, prefix) :
                               Front(p) = IdOf(c) \/ p \in Range(base[c].links)}

\* The directories that hold a concept, and the root.
Directories(paths) == {Root} \cup UNION {{SubSeq(p, 1, n) : n \in 1..Len(p) - 1} : p \in paths}
Within(paths, dir) == {d \in Directories(paths) : Len(d) = Len(dir) + 1 /\ Under(d, dir)}

\* A generated listing says how many concepts each subdirectory holds.
Index(paths, dir) ==
  [typed |-> FALSE, says |-> "listing", links |-> << >>, trust |-> None, claim |-> None,
   fit |-> "ok", lines |-> [d \in Within(paths, dir) |-> "counted"]]
Log == [typed |-> FALSE, says |-> "history", links |-> << >>, trust |-> None,
        claim |-> None, fit |-> "ok", lines |-> << >>]
Generated == {<<"index", "md">>, <<"log", "md">>}
Listings(paths) ==
  [p \in {Append(d, name) : d \in Directories(paths), name \in Generated} |->
     IF IsIndex(p) THEN Index(paths, Front(p)) ELSE Log]

\* What a listing handed back says each subdirectory is for: a count, or
\* nothing, says it is for nothing in particular.
Wanted(dir, lines) ==
  [d \in {d \in DOMAIN lines : Len(d) = Len(dir) + 1 /\ Under(d, dir)} |->
     IF lines[d] = "counted" THEN NoWords ELSE lines[d]]
=============================================================================
