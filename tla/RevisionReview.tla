--------------------------- MODULE RevisionReview ---------------------------
(***************************************************************************)
(* What a new version of a document does to a BRD that is already live     *)
(* (backend/ingest/revise.py) and to the cached vectors it relies on       *)
(* (backend/ingest/jobs.py).  A run of the ingestion queue makes sure that *)
(* the owner's cache holds a vector for every requirement of the uploaded  *)
(* file.  The first version is stored at once; a later one is aligned with *)
(* the live requirements and staged as a review, which the user applies or *)
(* discards while he, or someone else, goes on editing the live BRD.       *)
(* Cached vectors that nothing refers to are collected when another BRD is *)
(* deleted and by a periodic sweep; both spare what was used lately.       *)
(*                                                                         *)
(* A requirement is a text (it stands for its content hash), a requirement *)
(* id and a section; its vector is that of the text in its section.  One   *)
(* document is modelled, with a second BRD of the same owner that shares   *)
(* texts with it.  Who holds the claim of a run is in IngestJobs.          *)
(***************************************************************************)
EXTENDS Naturals, FiniteSets, Sequences, SequencesExt, FiniteSetsExt

CONSTANTS ReqTexts, Sections, ReqIds, None,
          Files,         \* the documents uploaded: sequences of rows
          Similarity,    \* [ReqTexts \X ReqTexts -> percentages], of the words
          OtherRows,     \* rows of another BRD of this owner
          EditTexts,     \* what an edit or an added requirement says
          MinLive,       \* _REPLACE_MIN_LIVE
          MaxAttempts,   \* attempts of one ingestion job
          MaxEdits,      \* bound: edits of the live BRD
          MaxSubmits     \* bound: uploads

SimMin == 45        \* _SIM_MIN, a percentage
SectionBonus == 5
MinRatio == 20      \* _REPLACE_MIN_RATIO, a percentage
PurgeAge == 2       \* an age of at least _PURGE_GRACE_SECONDS
SweepAge == 3       \* an age of at least _VECTOR_GC_MIN_AGE

VARIABLES live,      \* the live requirements in order
          archive,   \* retired requirements
          nextId,
          cache,     \* age of every cached vector: 0 = not cached, 1 = fresh
          rev,       \* at most one open review: [rows, items]
          other,     \* vectors the other BRD refers to, until it is deleted
          purge,     \* vectors the delete of that BRD has still to collect
          run,       \* the ingestion job and how far its run has come
          edits, submits

reviewVars == <<live, archive, nextId, cache, rev, other, purge, run, edits, submits>>

Rows == [text : ReqTexts, req : ReqIds \cup {None}, sec : Sections]
Keys == ReqTexts \X Sections

ASSUME RevisionAssumption ==
  /\ Files \subseteq Seq(Rows) /\ OtherRows \subseteq Rows
  /\ Similarity \in [ReqTexts \X ReqTexts -> 0..100]
  /\ EditTexts \subseteq ReqTexts /\ None \notin ReqIds
  /\ {MinLive, MaxAttempts, MaxEdits, MaxSubmits} \subseteq Nat

EmbedHash(r) == <<r.text, r.sec>>
KeysOf(rows) == {EmbedHash(r) : r \in Range(rows)}
IdsIn(rows) == {r.id : r \in Range(rows)}
RowOf(id) == CHOOSE r \in Range(live) : r.id = id
Requirement(id, r) == [id |-> id, text |-> r.text, req |-> r.req, sec |-> r.sec, vec |-> EmbedHash(r)]

NoRun == [pc |-> "idle", file |-> <<>>, todo |-> {}, have |-> {}, seen |-> <<>>, attempts |-> 0]

ReviewInit ==
  /\ live = <<>> /\ archive = {} /\ nextId = 1
  /\ other = {EmbedHash(r) : r \in OtherRows}
  /\ cache = [k \in Keys |-> IF k \in other THEN SweepAge ELSE 0]
  /\ rev = {} /\ purge = {} /\ run = NoRun
  /\ edits = 0 /\ submits = 0

ReviewTypeOK ==
  /\ \A r \in Range(live) \cup archive :
       r.id \in 1..(nextId - 1) /\ [text |-> r.text, req |-> r.req, sec |-> r.sec] \in Rows /\ r.vec \in Keys
  /\ cache \in [Keys -> 0..SweepAge]
  /\ Cardinality(rev) <= 1 /\ other \subseteq Keys /\ purge \subseteq Keys
  /\ run.pc \in {"idle", "queued", "bump", "embed", "ready", "stage"}

-----------------------------------------------------------------------------
(* Aligning a new version with the live requirements: pairs <<new, live>>  *)
(* of positions, found in three rounds.                                    *)

Occurrence(rows, k) == Cardinality({m \in 1..(k - 1) : rows[m].text = rows[k].text})

Identical(old, new) ==
  {p \in (DOMAIN new) \X (DOMAIN old) :
     new[p[1]].text = old[p[2]].text /\ Occurrence(new, p[1]) = Occurrence(old, p[2])}

UniqueAmong(rows, free, k) ==
  rows[k].req # None /\ \A m \in free \ {k} : rows[m].req # rows[k].req

SameReqId(old, new, freeNew, freeOld) ==
  {p \in freeNew \X freeOld :
     /\ new[p[1]].req = old[p[2]].req
     /\ UniqueAmong(new, freeNew, p[1]) /\ UniqueAmong(old, freeOld, p[2])}

\* The words that two requirements share; of a row of a table, those of its data alone.
Likeness(a, b) == Similarity[<<a, b>>]

Score(l, n) ==
  Likeness(l.text, n.text) + (IF l.sec = n.sec THEN SectionBonus ELSE 0)

Better(old, new, c, d) ==
  LET s == Score(old[c[2]], new[c[1]])  t == Score(old[d[2]], new[d[1]])
  IN  s > t \/ (s = t /\ (c[1] > d[1] \/ (c[1] = d[1] /\ c[2] > d[2])))

\* The best candidates first, each position used once.
Similar(old, new, freeNew, freeOld) ==
  LET cand == {p \in freeNew \X freeOld : Likeness(old[p[2]].text, new[p[1]].text) >= SimMin}
  IN  CHOOSE m \in SUBSET cand : \A c \in cand :
        c \in m <=> ~\E d \in m : (d[1] = c[1] \/ d[2] = c[2]) /\ Better(old, new, d, c)

FreeNew(new, pairs) == DOMAIN new \ {p[1] : p \in pairs}
FreeOld(old, pairs) == DOMAIN old \ {p[2] : p \in pairs}

\* Mutant: requirement ids before identical texts.
AlignIdsFirst(old, new) ==
  LET byId == SameReqId(old, new, DOMAIN new, DOMAIN old)
      same == {p \in Identical(old, new) : \A q \in byId : q[1] # p[1] /\ q[2] # p[2]}
      both == byId \cup same
  IN  both \cup Similar(old, new, FreeNew(new, both), FreeOld(old, both))

align(old, new) ==
  LET same == Identical(old, new)
      byId == same \cup SameReqId(old, new, FreeNew(new, same), FreeOld(old, same))
  IN  byId \cup Similar(old, new, FreeNew(new, byId), FreeOld(old, byId))

\* One item per new row and one per live row that nothing matched.
classify(old, new) ==
  LET pairs == align(old, new)
  IN  {[change |-> IF old[p[2]].text = new[p[1]].text THEN "same" ELSE "modified",
        ord |-> p[1], id |-> old[p[2]].id, hash |-> old[p[2]].text] : p \in pairs}
      \cup {[change |-> "added", ord |-> j, id |-> 0, hash |-> None] : j \in FreeNew(new, pairs)}
      \cup {[change |-> "removed", ord |-> 0, id |-> old[i].id, hash |-> old[i].text] : i \in FreeOld(old, pairs)}

\* Mutant: the ids alone.
FingerprintOfIds(rows) == IdsIn(rows)
Fingerprint(rows) == {<<r.id, r.text, r.req, r.sec>> : r \in Range(rows)}

\* Mutant: only the rows that the items refer to are looked at.
IsStaleByReference(items, rows) ==
  \E it \in items : it.id # 0 /\ ~\E r \in Range(rows) : r.id = it.id /\ r.text = it.hash

IsStale(items, rows) ==
  \/ {it.id : it \in items} \ {0} # IdsIn(rows)
  \/ \E it \in items, r \in Range(rows) : it.id = r.id /\ it.hash # r.text

-----------------------------------------------------------------------------
(* The run of an ingestion job.                                            *)

Used(keys) == [k \in Keys |-> IF k \in keys THEN 1 ELSE cache[k]]
Cached == {k \in Keys : cache[k] > 0}
Store == <<live, archive, nextId, rev>>
World == <<other, purge, edits, submits>>

Submit(file) ==
  /\ submits < MaxSubmits /\ run.pc = "idle"
  /\ submits' = submits + 1
  /\ run' = [NoRun EXCEPT !.pc = "queued", !.file = file]
  /\ UNCHANGED <<Store, cache, other, purge, edits>>

\* _embed looks up what the cache has ...
ReadCache ==
  /\ run.pc = "queued"
  /\ LET have == KeysOf(run.file) \cap Cached
     IN  run' = [run EXCEPT !.pc = "bump", !.attempts = @ + 1, !.have = have,
                            !.todo = KeysOf(run.file) \ have]
  /\ UNCHANGED <<Store, cache, World>>

\* ... and marks it as used in a statement of its own.
Bump ==
  /\ run.pc = "bump"
  /\ cache' = Used(run.have \cap Cached)
  /\ run' = [run EXCEPT !.pc = IF run.todo = {} THEN "ready" ELSE "embed", !.have = {}]
  /\ UNCHANGED <<Store, World>>

EmbedBatch(keys) ==
  /\ run.pc = "embed" /\ keys # {}
  /\ cache' = Used(keys)
  /\ run' = [run EXCEPT !.todo = @ \ keys, !.pc = IF run.todo = keys THEN "ready" ELSE "embed"]
  /\ UNCHANGED <<Store, World>>

\* A first version is stored only if every vector is there to be copied.
StoreNew ==
  /\ run.pc = "ready" /\ nextId = 1
  /\ KeysOf(run.file) \subseteq Cached
  /\ live' = [i \in DOMAIN run.file |-> Requirement(i, run.file[i])]
  /\ nextId' = Len(run.file) + 1
  /\ run' = NoRun
  /\ UNCHANGED <<archive, rev, cache, World>>

\* compare reads the live requirements without a lock and aligns them ...
ReadLive ==
  /\ run.pc = "ready" /\ nextId > 1
  /\ run' = [run EXCEPT !.pc = "stage", !.seen = live]
  /\ UNCHANGED <<Store, cache, World>>

\* ... and does so again under the lock if they have changed meanwhile.
Basis == IF Fingerprint(live) = Fingerprint(run.seen) THEN run.seen ELSE live
Stage ==
  /\ run.pc = "stage"
  /\ rev' = {[rows |-> run.file, items |-> classify(Basis, run.file)]}
  /\ run' = NoRun
  /\ UNCHANGED <<live, archive, nextId, cache, World>>

\* A failure: to be tried again, or the end of the job (failed, canceled).
RunFails ==
  /\ run.pc \notin {"idle", "queued"}
  /\ run' \in {NoRun} \cup (IF run.attempts < MaxAttempts
                           THEN {[NoRun EXCEPT !.pc = "queued", !.file = run.file, !.attempts = run.attempts]}
                           ELSE {})
  /\ UNCHANGED <<Store, cache, World>>

-----------------------------------------------------------------------------
(* The user edits the live BRD; every edit mirrors its vector in the cache.*)

Edit(texts, rows, retired, added) ==
  /\ nextId > 1 /\ edits < MaxEdits
  /\ edits' = edits + 1
  /\ live' = rows /\ archive' = archive \cup retired /\ nextId' = nextId + added
  /\ cache' = Used(texts)
  /\ UNCHANGED <<rev, other, purge, run, submits>>

EditRow(i, t) ==
  /\ live[i].text # t
  /\ LET r == Requirement(live[i].id, [live[i] EXCEPT !.text = t])
     IN  Edit({r.vec}, [live EXCEPT ![i] = r], {}, 0)

AddRow(t) ==
  \E s \in Sections :
    LET r == Requirement(nextId, [text |-> t, req |-> None, sec |-> s])
    IN  Edit({r.vec}, Append(live, r), {}, 1)

RemoveRow(i) == Edit({}, RemoveAt(live, i), {live[i]}, 0)

-----------------------------------------------------------------------------
(* Resolving the review.                                                   *)

Recompare ==
  /\ \E r \in rev : rev' = {[r EXCEPT !.items = classify(live, r.rows)]}
  /\ UNCHANGED <<live, archive, nextId, cache, World, run>>

Discard ==
  /\ rev # {} /\ rev' = {}
  /\ UNCHANGED <<live, archive, nextId, cache, World, run>>

Changed(items, c) == {it \in items : it.change = c}

NeedsConfirmation(items, keep) ==
  LET matched == Cardinality(Changed(items, "same") \cup Changed(items, "modified")) + Cardinality(keep)
  IN  /\ Len(live) >= MinLive
      /\ Changed(items, "removed") # keep
      /\ 100 * matched < MinRatio * Len(live)

\* A row that merely moved to another section keeps its old vector when the
\* cache has lost the new one; nothing else may be applied without its vector.
NeedsVector(it, row) == it.change # "same" \/ RowOf(it.id).vec # EmbedHash(row)
\* Mutant: a missing vector is no reason to refuse.
VectorsThereOrNot(r, skip) == TRUE
VectorsThere(r, skip) ==
  \A it \in r.items : it.change \in {"modified", "added"} /\ it \notin skip
                        => EmbedHash(r.rows[it.ord]) \in Cached

\* The requirement an item leaves behind; an added one gets its id later.
Target(it, row, skip) ==
  IF it.change = "modified" /\ it \in skip THEN RowOf(it.id)
  ELSE LET t == Requirement(it.id, row)
       IN  IF it.id = 0 \/ (NeedsVector(it, row) /\ t.vec \in Cached)
             THEN t ELSE [t EXCEPT !.vec = RowOf(it.id).vec]

Targets(r, skip) ==
  LET taken == {it \in r.items : it.ord > 0 /\ ~(it.change = "added" /\ it \in skip)}
      nth(k) == CHOOSE it \in taken : Cardinality({x \in taken : x.ord < it.ord}) = k - 1
  IN  [k \in 1 .. Cardinality(taken) |-> Target(nth(k), r.rows[nth(k).ord], skip)]

\* A kept requirement goes after the last of those that preceded it.
InsertKept(targets, n) ==
  LET before == {live[m].id : m \in 1..(n - 1)}
      pos == SelectLastInSeq(targets, LAMBDA t : t.id \in before)
  IN  InsertAt(targets, pos + 1, live[n])

WithKept(targets, keep) ==
  LET merged[n \in 0..Len(live)] ==
        IF n = 0 THEN targets
        ELSE IF \E it \in keep : it.id = live[n].id THEN InsertKept(merged[n - 1], n)
        ELSE merged[n - 1]
  IN  merged[Len(live)]

\* Targets without a live row are inserted under new ids.
Numbered(targets) ==
  [k \in DOMAIN targets |->
     IF targets[k].id # 0 THEN targets[k]
     ELSE [targets[k] EXCEPT !.id = nextId + Cardinality({m \in 1..(k - 1) : targets[m].id = 0})]]

reconcile(targets) ==
  /\ live' = Numbered(targets)
  /\ nextId' = nextId + Cardinality({k \in DOMAIN targets : targets[k].id = 0})
  /\ archive' = archive \cup {r \in Range(live) : r.id \notin IdsIn(targets)}

Apply(skip, keep, confirm) ==
  /\ \E r \in rev :
       /\ skip \subseteq Changed(r.items, "modified") \cup Changed(r.items, "added")
       /\ keep \subseteq Changed(r.items, "removed")
       /\ ~IsStale(r.items, live)
       /\ confirm \/ ~NeedsConfirmation(r.items, keep)
       /\ VectorsThere(r, skip)
       /\ reconcile(WithKept(Targets(r, skip), keep))
  /\ rev' = {}
  /\ UNCHANGED <<cache, World, run>>

-----------------------------------------------------------------------------
(* Cached vectors are collected.                                           *)

\* Mutant: open reviews refer to nothing.
ReferencedByRows == {r.vec : r \in Range(live) \cup archive} \cup other
Referenced ==
  {r.vec : r \in Range(live) \cup archive} \cup other \cup UNION {KeysOf(r.rows) : r \in rev}

Collect(keys, age) ==
  cache' = [k \in Keys |-> IF k \in keys \ Referenced /\ cache[k] >= age THEN 0 ELSE cache[k]]

DeleteOther ==
  /\ other # {} /\ other' = {} /\ purge' = other
  /\ UNCHANGED <<Store, cache, run, edits, submits>>

PurgeDeleted ==
  /\ purge # {} /\ purge' = {}
  /\ Collect(purge, PurgeAge)
  /\ UNCHANGED <<Store, other, run, edits, submits>>

Sweep ==
  /\ Collect(Keys, SweepAge)
  /\ UNCHANGED <<Store, World, run>>

Tick ==
  /\ cache' = [k \in Keys |-> IF cache[k] \in 1..(SweepAge - 1) THEN cache[k] + 1 ELSE cache[k]]
  /\ UNCHANGED <<Store, World, run>>

ReviewNext ==
  \/ \E f \in Files : Submit(f)
  \/ ReadCache \/ Bump \/ StoreNew \/ ReadLive \/ Stage \/ RunFails
  \/ \E ks \in SUBSET run.todo : EmbedBatch(ks)
  \/ \E i \in DOMAIN live, t \in EditTexts : EditRow(i, t)
  \/ \E t \in EditTexts : AddRow(t)
  \/ \E i \in DOMAIN live : RemoveRow(i)
  \/ Recompare \/ Discard
  \/ \E items \in {r.items : r \in rev} :
       \E skip, keep \in SUBSET items, confirm \in BOOLEAN : Apply(skip, keep, confirm)
  \/ DeleteOther \/ PurgeDeleted \/ Sweep \/ Tick

ReviewSpec == ReviewInit /\ [][ReviewNext]_reviewVars

-----------------------------------------------------------------------------
(* Properties.                                                             *)

Applied == rev # {} /\ rev' = {} /\ live' # live
Staged == rev' # {} /\ rev' # rev

\* What a review changes or retires is what it showed: a requirement that
\* was edited or added after the comparison is never overwritten or archived
\* by applying it (_is_stale compares whole sets for that reason).
AppliesWhatItShowed ==
  [][Applied =>
       \A l \in Range(live) :
         \/ \E n \in Range(live') : n.id = l.id /\ n.text = l.text
         \/ \E r \in rev : \E it \in r.items : it.id = l.id /\ it.hash = l.text]_reviewVars

\* A requirement whose text is still in the new version stays the same
\* requirement, so that the use cases and answers that cite it still do
\* (align pairs identical rows before it looks at ids or similarity).
UnchangedKeepsItsId ==
  [][Applied =>
       \A l \in Range(live), r \in rev :
         Cardinality({k \in DOMAIN r.rows : r.rows[k].text = l.text})
           >= Cardinality({k \in DOMAIN live : live[k].text = l.text})
         => \E n \in Range(live') : n.id = l.id /\ n.text = l.text]_reviewVars

\* A live requirement is found by what it says: its vector is that of its
\* own text, however stale or incomplete the cache was when it changed.
FoundByItsText == \A r \in Range(live) : r.vec[1] = r.text

\* No collection takes a vector away from a review that is open: what could
\* be applied when it was staged can be applied when the user gets to it.
ReviewKeepsItsVectors ==
  [][\A r \in rev :
       rev' = rev => \A k \in KeysOf(r.rows) : cache[k] > 0 => cache'[k] > 0]_reviewVars

\* A comparison is current when the user first sees it, although the rows
\* were aligned before the document was locked.
StagedReviewIsCurrent ==
  [][Staged => \A r \in rev' : ~IsStale(r.items, live')]_reviewVars

\* Requirements that the user keeps stay behind the ones they followed.
KeptStayInOrder ==
  [][Applied =>
       \A i, j \in DOMAIN live :
         i < j /\ (\E r \in rev : \E it \in r.items : it.change = "removed" /\ it.id = live[j].id)
           /\ {live[i].id, live[j].id} \subseteq IdsIn(live')
         => SelectInSeq(live', LAMBDA n : n.id = live[i].id) < SelectInSeq(live', LAMBDA n : n.id = live[j].id)]_reviewVars

\* A requirement leaves a BRD only for the archive: whatever a use case or a
\* message ever cited can still be looked up, in one place only.
NothingIsLost ==
  /\ \A id \in 1..(nextId - 1) : id \in IdsIn(live) \cup {r.id : r \in archive}
  /\ IdsIn(live) \cap {r.id : r \in archive} = {}
  /\ IsInjective([k \in DOMAIN live |-> live[k].id])
=============================================================================
