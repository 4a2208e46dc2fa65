----------------------------- MODULE Transfer -----------------------------
(***************************************************************************)
(* A base handed out and handed back: GET of an archive (writeBundleArchive *)
(* over store.ExportSnapshot) and `ochakai import`, dry run and real, of a   *)
(* bundle or of the base's own archive, a few requests in flight at a time,  *)
(* while others write.                                                       *)
(***************************************************************************)
EXTENDS OkfBundle

CONSTANTS Bases,      \* where a base starts, and what is asked of it
          Workers,    \* importWorkers
          Batch,      \* exportBatch
          Stricts,    \* whether --strict may be given
          MaxRuns,    \* bound: imports and dry runs
          MaxWrites   \* bound: writes of others

\* The row of a concept, or of a file.
Trusts == [by: STRING, at: Nat, confirmed: BOOLEAN]
Rows == [says: STRING, links: Seq(Seq(Seq(STRING))), claim: Trusts,
         by: STRING, at: Nat, confirmed: BOOLEAN]
FileRow(x) == [says |-> x, links |-> << >>, claim |-> None, by |-> "nobody", at |-> 0,
               confirmed |-> FALSE]

\* What a base holds, and what others write meanwhile, sits at paths the server
\* accepts; files are rows of files.  Bundles come as they are.
ASSUME TransferAssumption ==
  /\ Workers \in Nat \ {0} /\ Batch \in Nat \ {0}
  /\ \A b \in Bases :
       /\ b.held \in [DOMAIN b.held -> Rows] /\ IsFiniteSet(DOMAIN b.held)
       /\ \A p \in DOMAIN b.held \cup b.site.contested : IsAddress(p)
       /\ \A p \in DOMAIN b.held :
            IF IsMarkdown(p) THEN b.held[p].at <= 1 ELSE b.held[p] = FileRow(b.held[p].says)
       /\ \A bundle \in b.site.bundles :
            IsFiniteSet(DOMAIN bundle) /\ DOMAIN bundle \subseteq Seq(Seq(STRING))

VARIABLES held,       \* what lives at each path
          blobs,      \* the bytes in the blob store
          described,  \* directory_description
          site,       \* what the caller may read and write, whether files are kept,
                      \* and what there is to import, to archive and to write meanwhile
          clock, writes,
          out,        \* the archive being written
          imp,        \* the import, or the dry run
          calls,      \* its requests in flight
          foretold,   \* what the last dry run said
          runs
base == <<held, blobs, described, clock>>
vars == <<held, blobs, described, site, clock, writes, out, imp, calls, foretold, runs>>

NoArchive == [phase |-> "none", prefix |-> Root, snap |-> << >>, left |-> {},
              files |-> {}, archive |-> << >>]
NoTally == [created |-> 0, updated |-> 0, unchanged |-> 0, attributed |-> 0,
            loose |-> 0, skipped |-> 0, notes |-> 0]
NoImport == [phase |-> "none", dry |-> FALSE, strict |-> FALSE, bundle |-> << >>,
             from |-> << >>, left |-> {}, tally |-> NoTally, skipped |-> {},
             refused |-> {}, noted |-> {}, touched |-> {}, failed |-> FALSE, lost |-> FALSE]
NoForecast == [phase |-> "none", bundle |-> << >>, from |-> << >>, skipped |-> {},
               tally |-> NoTally]

TypeOK ==
  /\ \A p \in DOMAIN held :
       /\ DOMAIN held[p] = {"says", "links", "claim", "by", "at", "confirmed"}
       /\ held[p].at \in 0..clock
  /\ out.phase \in {"none", "snapshot", "listed", "complete", "truncated"}
  /\ imp.phase \in {"none", "concepts", "attributed", "loose", "indexes", "done", "refused", "aborted"}
  /\ Cardinality(calls) <= Workers

Init ==
  /\ \E b \in Bases : /\ held = b.held /\ described = b.described
                      /\ site = b.site
                      /\ blobs = {b.held[p].says : p \in {p \in DOMAIN b.held : ~IsMarkdown(p)}}
                      /\ clock = 1
  /\ writes = 0 /\ runs = 0 /\ calls = {}
  /\ out = NoArchive /\ imp = NoImport /\ foretold = NoForecast

Without(f, p) == [q \in DOMAIN f \ {p} |-> f[q]]
With(f, p, v) == [q \in DOMAIN f \cup {p} |-> IF q = p THEN v ELSE f[q]]
Here(p) == p \in DOMAIN held

----------------------------------------------------------------------------
(* Everybody else.                                                           *)

Theirs(p) ==
  /\ writes < MaxWrites /\ writes' = writes + 1
  /\ imp' = [imp EXCEPT !.touched = @ \cup {p}]
  /\ UNCHANGED <<described, site, out, calls, foretold, runs>>

Stamped(p, k, who) ==
  /\ held' = With(held, p, [says |-> k.says, links |-> k.links, claim |-> k.claim,
                            by |-> who, at |-> clock + 1, confirmed |-> FALSE])
  /\ clock' = clock + 1

Edit(p) ==
  /\ Theirs(p) /\ IsMarkdown(p)
  /\ Stamped(p, [says |-> "theirs", links |-> IF Here(p) THEN held[p].links ELSE << >>,
                 claim |-> None], "them")
  /\ UNCHANGED blobs
Confirm(p) ==
  /\ Theirs(p) /\ IsMarkdown(p) /\ Here(p)
  /\ held' = [held EXCEPT ![p].confirmed = TRUE]
  /\ UNCHANGED <<blobs, clock>>
Delete(p) ==
  /\ Theirs(p) /\ Here(p) /\ held' = Without(held, p)
  /\ UNCHANGED <<blobs, clock>>

Upload(p) ==
  /\ Theirs(p) /\ ~IsMarkdown(p) /\ site.files
  /\ held' = With(held, p, FileRow("theirs")) /\ blobs' = blobs \cup {"theirs"}
  /\ UNCHANGED clock

\* Bytes no file names any more.
Sweep(x) ==
  /\ out.phase = "listed" /\ x \in blobs
  /\ \A p \in DOMAIN held : IsMarkdown(p) \/ held[p].says # x
  /\ blobs' = blobs \ {x}
  /\ UNCHANGED <<held, described, site, clock, writes, out, imp, calls, foretold, runs>>

----------------------------------------------------------------------------
(* The archive.                                                              *)

OutOnly == UNCHANGED <<base, site, writes, imp, calls, foretold, runs>>

\* Everything is an administrator's, or no policy's: a scope of the root here.
MayArchive(prefix) ==
  site.scope = {Root} \/ (prefix # Root /\ UnderAny(prefix, site.reads))

\* BeginExport and the two listings: one snapshot, fixed by the first read.
Snapshot(prefix, withFiles) ==
  /\ out.phase = "none" /\ MayArchive(prefix) /\ OutOnly
  /\ LET files == IF withFiles THEN FilesUnder(held, prefix) ELSE {} IN
     /\ files = {} \/ site.files
     /\ out' = [NoArchive EXCEPT !.phase = "snapshot", !.prefix = prefix, !.snap = held,
                                 !.left = ConceptsUnder(held, prefix), !.files = files]

WriteListings ==
  /\ out.phase = "snapshot" /\ OutOnly
  /\ out' = [out EXCEPT !.phase = "listed", !.archive = Listings(out.left)]

\* A mutant: the rows are read when their turn comes.
RowNow(p) == IF Here(p) THEN held[p] ELSE out.snap[p]

RowOf(p) == out.snap[p]

\* ListByIDs reads the snapshot: whatever happened since, the rows are there.
WriteConcepts ==
  /\ out.phase = "listed" /\ out.left # {} /\ OutOnly
  /\ \E ps \in SUBSET out.left :
       /\ Cardinality(ps) = IF Cardinality(out.left) < Batch THEN Cardinality(out.left) ELSE Batch
       /\ out' = [out EXCEPT !.left = @ \ ps, !.archive =
                     [p \in DOMAIN out.archive \cup ps |->
                        IF p \in ps THEN Document(RowOf(p)) ELSE out.archive[p]]]

\* The bytes live outside the snapshot, under their hash.
WriteFile(p) ==
  /\ out.phase = "listed" /\ out.left = {} /\ p \in out.files /\ OutOnly
  /\ out' = IF p \in DOMAIN out.archive THEN [out EXCEPT !.files = @ \ {p}]
            ELSE IF out.snap[p].says \in blobs
            THEN [out EXCEPT !.files = @ \ {p},
                             !.archive = With(@, p, FileDocument(out.snap[p]))]
            ELSE [out EXCEPT !.phase = "truncated"]

CloseArchive ==
  /\ out.phase = "listed" /\ out.left = {} /\ out.files = {} /\ OutOnly
  /\ out' = [out EXCEPT !.phase = "complete"]

\* Past the first byte a failure can only cut the stream short.
Cut ==
  /\ out.phase \in {"snapshot", "listed"} /\ OutOnly
  /\ out' = [out EXCEPT !.phase = "truncated"]

----------------------------------------------------------------------------
(* The import.                                                               *)

ImpOnly == UNCHANGED <<base, site, writes, out, runs>>
Concepts(b) == {[op |-> "concept", path |-> p, of |-> p] : p \in ConceptsOf(b)}
Loose(b) == {[op |-> "loose", path |-> p, of |-> p] : p \in LooseOf(b)}
Indexes(b) == {[op |-> "index", path |-> p, of |-> p] : p \in IndexesOf(b)}

\* What there is to import: a bundle, or the archive if it was read to its
\* end; one cut short is no gzip stream, and nothing is sent of it.
Sources == site.bundles \cup (IF out.phase = "complete" THEN {out.archive} ELSE {})

ParseTally(b) ==
  [NoTally EXCEPT !.notes = Cardinality(ParseNotes(b)), !.skipped = Cardinality(ParseSkips(b))]

\* --strict refuses what the parse reinterpreted before the first write.
Begin(b, dry, strict) ==
  /\ imp.phase \in {"none", "done", "refused", "aborted"}
  /\ runs < MaxRuns /\ runs' = runs + 1
  /\ LET tally == ParseTally(b) IN
     imp' = [NoImport EXCEPT
       !.phase = IF strict /\ tally # NoTally THEN "refused" ELSE "concepts",
       !.dry = dry, !.strict = strict, !.bundle = b, !.from = held, !.tally = tally,
       !.skipped = ParseSkips(b),
       !.left = IF strict /\ tally # NoTally THEN {} ELSE Concepts(b)]
  /\ UNCHANGED <<base, site, writes, out, calls, foretold>>

\* eachConcurrently: Workers at a time, and none once one has failed.  The
\* indexes go one after another.
Send(t) ==
  /\ t \in imp.left /\ ~imp.failed
  /\ Cardinality(calls) < IF imp.phase = "indexes" THEN 1 ELSE Workers
  /\ imp' = [imp EXCEPT !.left = @ \ {t}]
  /\ calls' = calls \cup {[task |-> t, step |-> "sent", k |-> Sent(imp.bundle[t.path]),
                           claim |-> None]}
  /\ ImpOnly /\ UNCHANGED foretold

Answers(c, verdict, claim) ==
  calls' = (calls \ {c}) \cup {[c EXCEPT !.step = verdict, !.claim = claim]}
Answer(c, verdict) == Answers(c, verdict, None)
Goes(c, step, k) == calls' = (calls \ {c}) \cup {[c EXCEPT !.step = step, !.k = k]}
Verdicts == {"created", "updated", "unchanged", "stored", "too large", "invalid",
             "forbidden", "missing", "unsupported"}

\* mayWrite, and the refusal a scope spells as an absence.
Barred(p) == IF UnderAny(p, site.scope) THEN "none"
             ELSE IF UnderAny(p, site.reads) THEN "forbidden" ELSE "missing"

\* What a document is refused for before anything is read.
Refusal(c) ==
  LET fit == imp.bundle[c.task.path].fit
      barred == Barred(IdOf(c.task.path))
  IN IF fit = "too large" THEN "too large"
     ELSE IF barred # "none" THEN barred
     ELSE IF fit = "refused" THEN "invalid" ELSE "none"

Serve == UNCHANGED <<described, site, writes, out, imp, foretold, runs>>

\* Update's settleUpdate: the read a write is decided from.  A missing
\* concept is created the first time; on the retry it is the answer.
Look(c) ==
  /\ c.task.op = "concept" /\ c.step \in {"sent", "again"} /\ ~imp.dry
  /\ LET p == c.task.path
         refusal == Refusal(c)
     IN IF refusal \in {"too large", "forbidden", "invalid"} THEN Answer(c, refusal)
        ELSE IF refusal = "missing" \/ ~Here(p)
        THEN IF c.step = "sent" THEN Goes(c, "create", c.k) ELSE Answer(c, "missing")
        ELSE LET k == Settled(c.k, held[p]) IN
             IF SameDocument(k, held[p]) THEN Answers(c, "unchanged", held[p].claim)
             ELSE Goes(c, IF c.step = "sent" THEN "write" ELSE "rewrite", k)
  /\ Serve /\ UNCHANGED <<held, blobs, clock>>

\* Store.Update, with no precondition.
Write(c) ==
  /\ c.step \in {"write", "rewrite"}
  /\ LET p == c.task.path IN
     IF Here(p)
     THEN Stamped(p, c.k, "me") /\ Answers(c, "updated", c.k.claim)
     ELSE /\ IF c.step = "write" THEN Goes(c, "create", c.k) ELSE Answer(c, "missing")
          /\ UNCHANGED <<held, clock>>
  /\ Serve /\ UNCHANGED blobs

\* Store.Create; an address taken meanwhile is an update after all.
Create(c) ==
  /\ c.step = "create"
  /\ LET p == c.task.path IN
     IF Refusal(c) # "none" THEN Answer(c, Refusal(c)) /\ UNCHANGED <<held, clock>>
     ELSE IF Here(p) THEN Goes(c, "again", c.k) /\ UNCHANGED <<held, clock>>
     ELSE Stamped(p, c.k, "me") /\ Answers(c, "created", c.k.claim)
  /\ Serve /\ UNCHANGED blobs

\* A mutant: an absence a scope spells is read as a free address.
PlanRefusalOfText(c) ==
  CASE imp.bundle[c.task.path].fit = "too large" -> "too large"
    [] imp.bundle[c.task.path].fit = "refused" -> "invalid" [] OTHER -> "none"

PlanRefusal(c) == Refusal(c)

\* Put with the write withheld.
Plan(c) ==
  /\ c.task.op = "concept" /\ c.step = "sent" /\ imp.dry
  /\ LET p == c.task.path
         refusal == PlanRefusal(c)
         k == IF Here(p) THEN Settled(c.k, held[p]) ELSE c.k
     IN IF refusal # "none" THEN Answer(c, refusal)
        ELSE IF ~Here(p) THEN Answers(c, "created", k.claim)
        ELSE Answers(c, IF SameDocument(k, held[p]) THEN "unchanged" ELSE "updated", k.claim)
  /\ Serve /\ UNCHANGED <<held, blobs, clock>>

\* settleFile and mayWrite, then the bytes and the row.
FileRefusal(p) ==
  IF ~site.files THEN "unsupported"
  ELSE IF ~Addressable(p) \/ IsMarkdown(p) THEN "invalid" ELSE Barred(p)
PutFile(c) ==
  /\ c.task.op \in {"attributed", "loose"} /\ c.step = "sent"
  /\ LET p == Unclaimed(imp.bundle, c.task.path) IN
     IF FileRefusal(p) # "none" THEN Answer(c, FileRefusal(p)) /\ UNCHANGED <<held, blobs>>
     ELSE /\ Answer(c, "stored")
          /\ IF imp.dry THEN UNCHANGED <<held, blobs>>
             ELSE held' = With(held, p, FileRow(c.k.says)) /\ blobs' = blobs \cup {c.k.says}
  /\ Serve /\ UNCHANGED clock

\* What an index says of the directories it lists, and of no other.
Describe(c) ==
  /\ c.task.op = "index" /\ c.step = "sent"
  /\ LET dir == Front(c.task.path)
         want == Wanted(dir, imp.bundle[c.task.path].lines)
         said(d) == IF d \in DOMAIN described THEN described[d] ELSE NoWords
         changes == {d \in DOMAIN want : want[d] # said(d)}
         after == [d \in {d \in DOMAIN described \cup changes :
                            IF d \in changes THEN want[d] # NoWords ELSE TRUE} |->
                     IF d \in changes THEN want[d] ELSE described[d]]
         refusal == IF imp.bundle[c.task.path].fit = "too large" THEN "too large" ELSE Barred(dir)
     IN IF refusal # "none" THEN Answer(c, refusal) /\ UNCHANGED described
        ELSE /\ Answer(c, IF changes = {} THEN "unchanged" ELSE "updated")
             /\ described' = IF imp.dry THEN described ELSE after
  /\ UNCHANGED <<held, blobs, clock, site, writes, out, imp, foretold, runs>>

----------------------------------------------------------------------------
(* What the command makes of an answer.                                      *)

Tallied(c, counter) == [imp EXCEPT !.tally[counter] = @ + 1]
Skipped(c) ==
  [imp EXCEPT !.tally.skipped = @ + 1, !.skipped = @ \cup {c.task.path},
              !.refused = IF c.task.op = "concept" THEN @ \cup {c.task.path} ELSE @]
Failed == [imp EXCEPT !.failed = TRUE]

\* A verdict on one document is a skip; anything else ends the run.
AfterConcept(c) ==
  IF c.step \in {"created", "updated", "unchanged"}
  THEN LET doc == imp.bundle[c.task.path]
           kept == Claims(doc) /\ c.claim # None
           reread == doc.fit = "reread"
       IN [imp EXCEPT !.tally[c.step] = @ + 1,
             !.tally.notes = @ + (IF kept THEN 1 ELSE 0) + (IF reread THEN 1 ELSE 0),
             !.noted = IF kept THEN @ \cup {c.task.path} ELSE @]
  ELSE IF c.step = "invalid" THEN Skipped(c) ELSE Failed

AfterFile(c) ==
  IF c.step = "stored"
  THEN Tallied(c, IF c.task.op = "attributed" /\ c.task.of \notin imp.refused
                  THEN "attributed" ELSE "loose")
  ELSE IF c.step \in {"invalid", "unsupported"} THEN Skipped(c) ELSE Failed

AfterIndex(c) == IF c.step \in {"unchanged", "updated"} THEN imp ELSE Skipped(c)

Hear(c) ==
  /\ c.step \in Verdicts
  /\ calls' = calls \ {c}
  /\ imp' = CASE c.task.op = "concept" -> AfterConcept(c)
              [] c.task.op = "index" -> AfterIndex(c)
              [] OTHER -> AfterFile(c)
  /\ ImpOnly /\ UNCHANGED foretold

\* The answer never arrives, whatever was done, or the run was cancelled.
Lose(c) ==
  /\ calls' = calls \ {c}
  /\ imp' = [imp EXCEPT !.failed = TRUE, !.lost = TRUE]
  /\ ImpOnly /\ UNCHANGED foretold

Over == imp.left = {} /\ calls = {} /\ ~imp.failed
NextOf(phase) == CASE phase = "concepts" -> "attributed" [] phase = "attributed" -> "loose"
                   [] phase = "loose" -> "indexes" [] OTHER -> "done"
TasksOf(phase, b) == CASE phase = "attributed" -> Attributions(b) [] phase = "loose" -> Loose(b)
                       [] phase = "indexes" -> Indexes(b) [] OTHER -> {}

Foretell(phase) ==
  foretold' = IF imp.dry /\ ~imp.lost /\ imp.touched = {}
              THEN [phase |-> phase, bundle |-> imp.bundle, from |-> imp.from,
                    skipped |-> imp.skipped, tally |-> imp.tally]
              ELSE foretold

NextPhase ==
  /\ imp.phase \in {"concepts", "attributed", "loose", "indexes"} /\ Over
  /\ imp' = [imp EXCEPT !.phase = NextOf(imp.phase),
                        !.left = TasksOf(NextOf(imp.phase), imp.bundle)]
  /\ IF imp.phase = "indexes" THEN Foretell("done") ELSE UNCHANGED foretold
  /\ ImpOnly /\ UNCHANGED calls

Abort ==
  /\ imp.failed /\ calls = {} /\ imp.phase # "aborted"
  /\ imp' = [imp EXCEPT !.phase = "aborted", !.left = {}]
  /\ Foretell("aborted")
  /\ ImpOnly /\ UNCHANGED calls

Others == \/ \E p \in site.contested :
               Edit(p) \/ Confirm(p) \/ Delete(p) \/ Upload(p)
          \/ \E x \in blobs : Sweep(x)
Exports == \/ \E prefix \in site.subtrees, withFiles \in BOOLEAN : Snapshot(prefix, withFiles)
           \/ WriteListings \/ WriteConcepts \/ CloseArchive \/ Cut
           \/ \E p \in out.files : WriteFile(p)
Imports == \/ \E b \in Sources, dry \in BOOLEAN, strict \in Stricts : Begin(b, dry, strict)
           \/ \E t \in imp.left : Send(t)
           \/ \E c \in calls : \/ Look(c) \/ Write(c) \/ Create(c) \/ Plan(c)
                               \/ PutFile(c) \/ Describe(c) \/ Hear(c) \/ Lose(c)
           \/ NextPhase \/ Abort
Next == Others \/ Exports \/ Imports
Spec == Init /\ [][Next]_vars

----------------------------------------------------------------------------
(* Properties.                                                               *)

Imported == imp.phase = "done" /\ ~imp.dry

\* A dry run answers what the import would: when nobody wrote between or
\* since, the import of the bundle ends the same way, with the same counts
\* and the same skips (dryRunImport: "the ones the import itself would
\* meet").
DryRunForesees ==
  (/\ imp.phase \in {"done", "aborted"} /\ ~imp.dry /\ ~imp.lost /\ imp.touched = {}
   /\ foretold.phase # "none" /\ foretold.bundle = imp.bundle /\ foretold.from = imp.from)
  => /\ imp.phase = foretold.phase
     /\ imp.phase = "done" => imp.tally = foretold.tally /\ imp.skipped = foretold.skipped

\* An archive read to its end is the base at one instant, whatever was
\* written while it streamed: every concept and file it should carry as it
\* was then, nothing else, and no listing of what it does not carry
\* (ExportSnapshot: "an index.md entry pointing at a file the archive does
\* not contain").
ArchiveIsOneInstant ==
  out.phase = "complete" =>
    LET concepts == ConceptsUnder(out.snap, out.prefix)
        carried == {p \in DOMAIN out.archive : ~IsIndex(p) /\ ~IsLog(p)}
    IN /\ concepts \subseteq carried
       /\ \A p \in carried :
            out.archive[p] = IF IsMarkdown(p) THEN Document(out.snap[p]) ELSE FileDocument(out.snap[p])
       /\ \A p \in DOMAIN out.archive \ carried :
            \A d \in DOMAIN out.archive[p].lines : \E q \in carried : IsMarkdown(q) /\ Under(q, d)

\* What enters the bundle is in the base or is named in a skip: every
\* object an import read, after lost answers and reruns and whoever else
\* wrote elsewhere (FromBundle: "What enters the bundle leaves it").
EntersOrIsNamed ==
  Imported =>
    \A p \in DOMAIN imp.bundle :
      LET at == Unclaimed(imp.bundle, p) IN
      IF Hidden(p) \/ IsIndex(p) \/ IsLog(p) THEN TRUE
      ELSE IF p \in ConceptsOf(imp.bundle)
      THEN \/ p \in imp.skipped \cup imp.touched
           \/ Here(p) /\ held[p].says = imp.bundle[p].says /\ held[p].links = imp.bundle[p].links
      ELSE \/ p \in imp.skipped \/ at \in imp.touched
           \/ Here(at) /\ held[at].says = imp.bundle[p].says

\* What a document claims about itself is kept as its claim and reported,
\* unless it is what this instance observed of the concept it replaced: a
\* merge is not a verify, and no claim is dropped for resembling one.
ClaimsAreKept ==
  Imported =>
    \A p \in ConceptsOf(imp.bundle) \ (imp.refused \cup imp.touched) :
      LET doc == imp.bundle[p]
          own == p \in DOMAIN imp.from /\ IsObservation(ClaimIn(doc), imp.from[p])
      IN /\ ~own => held[p].claim = ClaimIn(doc)
         /\ p \in imp.noted <=> Claims(doc) /\ ~own

\* The base's own archive, handed back to the base as it was archived,
\* writes no concept, changes no file and raises no claim.
OwnArchiveIsUnchanged ==
  (/\ Imported /\ imp.touched = {} /\ out.phase = "complete"
   /\ imp.bundle = out.archive /\ imp.from = out.snap)
  => /\ held = out.snap
     /\ imp.tally.created = 0 /\ imp.tally.updated = 0
     /\ imp.noted = {} /\ imp.skipped \cap DOMAIN held = {}

\* A round trip moves no concept nobody changed (docs/guides/git-review.md):
\* one whose content is what was exported is left as it is, confirmations
\* and all.
RoundTripMovesNoConcept ==
  (Imported /\ out.phase = "complete" /\ imp.bundle = out.archive)
  => \A p \in (ConceptsOf(out.archive) \cap DOMAIN imp.from) \ imp.touched :
       [imp.from[p] EXCEPT !.confirmed = FALSE] = [out.snap[p] EXCEPT !.confirmed = FALSE]
         => Here(p) /\ held[p] = imp.from[p]
=============================================================================
