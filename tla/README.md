# Verification of brd-engine

brd-engine turns business requirement documents (BRDs) into requirements one can
search, ask about, edit and test. Its server is a FastAPI process (`backend/api.py`)
over PostgreSQL and an object store, with background threads for ingestion, mail,
answers and use-case generation. Everything durable is a row or an object; what
requests and the threads of several processes may do to the same rows, and in which
order, is what this project checks.

Source references are `file:line` under `src/backend/` unless they start with
`migrations/` or `docs/`.

## 1. The system

### Components

| Component | State it keeps | Operations | Talks to | What makes it correct | Module |
|---|---|---|---|---|---|
| Ingestion queue (`ingest/jobs.py`, `ingest/revise.py`) | `brd_document`, `ingest_job`, `brd_revision`; each worker's claimed job | submit, reprocess, claim, heartbeat, store, compare, retry, cancel, apply, discard, recompare, BRD delete, startup | object store, Voyage, requirements | a document is published once and whole; an overtaken worker does no harm; every job ends | `IngestJobs` |
| Revisions and embedding cache (`ingest/revise.py`, `archive.py`, `jobs.py` 460-560) | live rows, archive, items of a review, `brd_embedding_cache` | look up, embed, align, stage, recompare, apply, discard, collect vectors | edits, Voyage | an apply changes what the review showed; an unchanged requirement keeps its id; vectors follow texts | `RevisionReview` |
| Requirement edits (`requirements/edit.py`, `structure.py`, `change_agent.py`) | `brd_chunk`, `requirement_change`, `change_request` | edit, add, delete, split, revert, apply a plan, replay | Voyage, caches, approval | a plan is applied wholly or not, once; a text and its vector agree | `Requirements` |
| Requirement approval (`requirements/versioning.py`) | `review_status`, `brd_snapshot` | baseline, snapshot, approve, restore, discard | edits, revisions | what was approved can be gone back to | `Requirements` |
| RAG cache (`core/cache.py`) and retrieval (`retrieve/*`) | `cache_kv` | search, store, replay, bust, expire | Voyage, edits | an answer is not older than the last change | `RagCache` |
| Use-case generation (`use_cases/generation.py`, `incremental.py`) | `use_case`, folders, `use_case_req_basis`; the job of each BRD in memory | status, generate (update or replace), edit, delete, units of a run | requirements, models, history | no case is left behind its requirement; codes are unique; a failed unit is redone | `UseCases` |
| Use-case history and suites (`use_cases/versioning.py`, `suites.py`) | `use_case_version`, `use_case_suite_version` and members | record, restore, review, publish, restore a version | generation, testing | no definition is lost; a version is what was reviewed and differs from the one before | `UseCases` |
| Use-case testing (`use_cases/testing.py`) | timeline of events, proofs, cycles and their members, a cached status per case | record, amend, undo, bulk, scope, stage and delete proofs, cycles, carry passes | suites, audit, object store | the cached status is the timeline's; a pass belongs to the definition it was given for | `UseCaseTesting` |
| Chat (`chat/*`, `api.py` 225-300, 2290-2400) | conversations, messages; the registry of live answers in memory | ask, subscribe, stop, save, delete | retrieval, models | one live turn per conversation; streams are complete; a stopped turn is not saved | `ChatTurns` |
| Stored files (`core/storage.py`, `ingest/jobs.py` 695-821, `testing.py` 60-190) | objects, `brd_source`, `use_case_test_proof` | put, move, purge after a delete, sweep | ingestion, testing | nothing referenced is deleted, the rest goes | `SourceStore` |
| Voyage budget (`core/voyage.py`) | a sliding window per process | acquire, back off, retry | embedding, reranking | never over the limits; neither questions nor uploads wait for ever | `VoyageBudget` |
| Model providers (`llm/*`) | the free catalogue and its cooldowns per process | choose, try, fall back, retry | chat, generation | one model per answer; a pool that failed is not gone through again | `ModelRouter` |
| Email outbox (`accounts/email_outbox.py`, `email_send.py`) | `email_outbox`; threads that hold a row | enqueue, immediate send, sweep, finish, reclaim | mail provider | no mail lost; repeats and extra attempts only through faults or rows freed under their sender | `EmailOutbox` |
| Users' model keys (`accounts/llm_keys.py`) | keys, one active | add, activate, delete | models | at most one active key, and one if there are any | - |
| Accounts (`accounts/auth.py`, `otp.py`, `service_auth.py`) | users, codes, tokens | request-scoped lookups | outbox | - | - |
| Extraction, chunking (`ingest/extract.py`, `parser.py`, `chunker.py`) | none | text to chunks | ingestion | deterministic pieces | - |
| Audit, database access, settings, evaluation, legacy pipeline, frontend | none of their own beyond rows | - | all | - | - |

### What is hard here

* Several processes run the same background threads over one database: a rolling deploy
  overlaps two of them, and a thread whose lease ran out is not told so.
* Long work (extraction, embedding, model calls, mail) runs between transactions, on what
  was read before it; the result is written after others have changed it.
* One user operation is sometimes several transactions or statements (READ COMMITTED):
  others commit in between.
* Objects and rows are changed by separate calls, in both orders.
* A crash loses threads and in-memory registries and keeps rows and objects.
* Retries, repeated requests, undo and restores of old versions are normal use.

`PROJECT.json` lists each such place as a hazard with its line and the properties that
would catch it.

## 2. The modules

| Module | What it is |
|---|---|
| `BrdPublication` | Abstract: which BRDs exist, the version that is live, and what the revision under review was compared with. |
| `IngestJobs` | The queue: rows of documents, jobs and revisions, and worker threads. Implements `BrdPublication`. |
| `RevisionReview` | What a review does to the requirements: alignment, items, apply, and the cached vectors it needs. |
| `Requirements` | The rows of one BRD, its snapshots, change sets and approval. |
| `RagCache` | Extends `Requirements` with the readers and their two caches. |
| `UseCases` | Requirements as a generation sees them, cases, history, basis, one generation job, versions, one publish or restore request. |
| `UseCaseTesting` | Timelines, evidence, cycles and carried passes of the cases of one BRD. |
| `ChatTurns` | The turns of one conversation: registry, thread, readers, messages. |
| `SourceStore` | Objects beside the rows that refer to them. |
| `VoyageBudget` | The sliding window and its callers. |
| `ModelRouter` | What happens to a prompt, from its candidates to its answer. |
| `EmailOutbox` | The outbox, its threads and the transport. |
| `IngestJobsProofs`, `EmailOutboxProofs`, `UseCasesProofs`, `UseCaseTestingProofs`, `RagCacheProofs`, `ChatTurnsProofs`, `SourceStoreProofs`, `ModelRouterProofs` | Theorems about the module of the name; `RagCacheProofs` also about `RevisionReview` and `ModelRouterProofs` also about `VoyageBudget`. |
| `MC...` | Symmetry sets and constant values for TLC. |

`PROJECT.json` maps every definition to the lines it models. A definition whose name is that
of another with a variant (`RetryUnchecked`, `WriteUnrecorded`, `SubscribeTorn`, ...) sits
beside the one it varies and is used by no behaviour: it is the bug that a property must
notice.

Modules compose by `EXTENDS` where one writes what the other reads (`RagCache` over
`Requirements`) and by refinement (`IngestJobs` to `BrdPublication`). Elsewhere they meet at
one free choice: `IngestJobs` leaves open what an applied revision does to the rows and
`RevisionReview` leaves open who claims the run; `UseCases` changes requirements freely and
`Requirements` says how; `UseCaseTesting` publishes versions of any definitions and
`UseCases` says which; proofs are rows in `UseCaseTesting` and files in `SourceStore`.

### IngestJobs

A document row has its status and the number of its live version; a job its status,
mode, attempts (the fencing token) and whether its lease is fresh; a revision its
status, its job and the version it was compared with. A worker is a program counter,
the claimed job and the token and limit it read. An action is one transaction of
`jobs.py` or `revise.py`, or the in-memory step between two: `_run` is `Claim`,
`Begin`, `Heartbeat`, then `StoreNew` or `Compare` followed by `RecordReview` (two
transactions), or `BadDocument` / `Outage`, then `CanceledHandler` and
`MarkDocFailed`. `LeaseExpires`, `Crash`, `Abandon` (the end of a run cannot be
written) and `Boot` are the environment. Reading, chunking and embedding a document
is one phase with a free outcome. Progress counters shown to the user are left out.

### RevisionReview

A requirement has an id, a text, a requirement id, a section and the key of the vector it is
found by; a key is a text with its section. `align` is the three rounds of the code (identical
rows by occurrence, unique requirement ids, then the most similar pairs first) over sequences
of rows; the similarity of two texts is a constant function, and the prefilter that only saves
comparisons is left out. A run is one upload: it reads the cache, marks what it found as used,
embeds the rest in batches of any size, then stores a first version or reads the live rows
(`ReadLive`) and stages its comparison under the lock (`Stage`). `Apply` takes the items to
skip and to keep as sets of items. Cached vectors have an age; `Tick`, `PurgeDeleted` and
`Sweep` are the two collections. Snapshots and approval are in `Requirements`.

### Requirements and RagCache

`brd` holds the order of the live ids, each row's text, vector and text before its last
change; an id that was used and is not live is archived. A request is read first and commits
later: `Begin...` fixes its operations, `Open` starts the transaction of an edit, `Commit` applies
them one after another or refuses them all (a stale base, a missing row, a key used before), and
`Bust` follows in a step of its own. `Open` is a step because `now()`, and so the `created_at` of a
baseline (`migrations/016:17`), is the start of the transaction, before it waits for the document's
lock (`edit.py:276-279`): `clock` counts those starts and `at` is the stamp of a snapshot. `approve`
takes no lock, so it is three steps: `BeginApprove` stamps it, `CaptureApproved` takes the snapshot,
`CommitApprove` shows it to others. `BeginDiscard` picks the `Latest` approved snapshot, by stamp,
and `CommitRestore` restores it in another transaction, with any alignment the similarity could
give. `overtaken` remembers that the last baseline got a stamp older than that of a snapshot
approved before it. `Long` is a text that is split on entry. Plans are what a
model may propose: an added text, or an edit with a deletion, and one more requirement that
the user aligns. A key derived from a plan is the plan.

A reader asks over the BRD or over all BRDs, finds rows or a stored result, stores what it
found, and replays an answer with the same ids or stores its own. What was found is kept for each
scope; the key of an answer has neither owner nor project (`session.py:119`), so one row serves both
scopes (`SameKey`). Storing it again replaces its value and keeps the project it was first stored
with (`cache.py:110-115`), and a bust deletes the rows of the project only. An expired answer stays
as a row that is passed over (`fresh`). `owed` remembers that a change has not been followed by a
bust, `skipped` that a request ended before its own. Rows of other projects do not matter.

### UseCases

A requirement is its section and text, live or archived; a case is a body (an
opaque value) and the requirements it cites. `gen` is the generation job: what it
read, the units left, the cases it lost, the next code. A unit's answer is free: any of
its cases kept, updated or removed, and at most one new. `api` is a publish or a
restore request between its check and its act. `DeleteFolder` takes any set of cases and
records any subset of them, since cases move in while it works. Two history variables
serve properties only: `seen`, the texts a run last judged each case against, and `spoiled`.

Transactions of several statements are atomic, except `publish`, whose two reads are
two actions, and `delete_folder`. This hides that `restore_version` and `clear` read several
times under READ COMMITTED. Requests of two users at once, folders as a tree, titles, labels
and the wording of prompts are left out. The client is assumed to send the fingerprint it
reviewed (`expect`), as the frontend does. The order of units is left open, which covers the
code's order.

### UseCaseTesting

A request takes its timestamp when it begins, locks its cases one by one (`Lock`) and commits
(`CommitEvents`, `CommitUndo`, `CommitDrop`); the window for amending and undoing ends by an
action. `create_cycle` locks nothing before it reads, so `Plan`, each carried pass and the
commit are steps, and a carried pass may queue behind a tester's row lock with what it computed
before (`queued`). A test basis stands for a definition with the texts it cites, so that
"stale" is inequality. `given` and `revived` remember the verdicts that testers gave and that an
undo brought back; `overtaken` remembers the caches written by a cycle from before it held the
row.

### ChatTurns

A turn is a `/ask` request and its thread; `live` is the registry's slot. The request is
`Ask`, `Register`, then `Start`, or `Leak` where it fails with its slot taken, or
`StartFails`. The thread emits tokens, polls for a Stop, saves two messages in two
transactions, reports its end under the generation's lock (`Finish`) and frees its slot.
Readers hold what they have seen and the queue they were given. `late`, `dropped` and
`failed` remember the turns whose Stop came after the last poll, whose slot a delete emptied, and
whose saving failed. Scope, model, prompts and grounding are left out.

### SourceStore

An object has an age in three steps, because the code distinguishes ten minutes and an hour.
An upload is a put followed by its row (`InsertSource`, `InsertProof`) or, for a mover, by a
switch of the row from the database to the store. A cleaner reads the rows, lists the
objects and removes one at a time; `PurgeProofs` and `DropProofs` delete rows first. Every
call may fail. Keys of sources are the hash of the content and come back; keys of proofs are
new. `raced` holds the keys that were put, or are about to be referred to, after a cleaner had
listed them for deletion.

### VoyageBudget

The window is a sequence of calls with their age in ticks; a caller waits, calls, or sleeps
before a retry. A tick waits for callers that may go, as `acquire` is notified of every change
and sleeps until the next call leaves the window (`_wait_hint`). `active` and `stall` measure
for how long chat has been recent and for how long questions were passed over.

### ModelRouter

A prompt is a program counter with the list of models left to try. A call comes to an answer, to
nothing, to a moderation verdict, or to a status with what the provider's text says, whosever fault
that is: `AccountError`, `CooldownFor` and `Retried` classify it as the code does, by status and text,
a 404 over one account's settings and a 400 for one user's long prompt included. The catalogue is
refreshed by any asker, or by several at once; cooldowns have the five lengths of the code and end by
an action. `tried` remembers how many models a prompt has given up since the account's limit per
minute was last met.

### EmailOutbox

A row has its status, its attempts, and three bits that time flips: due, stale (the
lease is over) and cooling (the cooldown of a recipient). A thread belongs to a process
and to the message it was started for, or is the process's sweeper. Processes may overlap: one that
starts runs `reclaim_stuck` on the rows of all (`Start`), and a lease may end while its sender is still
at it. `SendFailed` may have been accepted all the same (a lost answer). A fault is a crash, a failed
statement or a lost answer; `FaultBound` counts them all. `rearmed` remembers how often a row was freed
under a sender that still owned it, which is no fault of anything: the properties say what each
fault and each freed row buys.

## 3. The runs

Times are of one two-worker TLC process.

| Run | Instance | States, time | What it shows |
|---|---|---|---|
| `ingest_jobs` | 1 BRD, 2 jobs, 2 revisions, 2 workers, 2 attempts, 3 claims, 1 crash | 2.1 M, 81 s | `OneClaimHolder` (the fence), `FirstVersionCanMove` (a first version never gets stuck), `OvertakenWorkerIsHarmless`, `PublishedWithItsJob`, and the refinement of `BrdPublication` (`ImplementsPromise`) |
| `ingest_live` | as above with 1 revision and 2 claims, no symmetry | 0.4 M, 63 s | `JobsSettle`: every job ends, through crashes and lost leases |
| `revisions` | 3 texts, 2 sections, 2 files, 2 edits, 2 uploads, 2 attempts | 450 k, 27 s | `AppliesWhatItShowed`, `UnchangedKeepsItsId`, `FoundByItsText`, `ReviewKeepsItsVectors`, `StagedReviewIsCurrent` |
| `requirements` | `MCRagCache`: 2 tabs, 1 reader, 2 texts and a long one, 3 ids, 3 snapshots, 3 requests of which up to 2 questions | 2.9 M, 112 s | `VectorsMatchText`, `DiscardFindsReviewed`, `AppliedOnce`, `ServesCurrent` (a cache is stale only between a commit and its bust, after a late store, or from a row without a project) |
| `usecases` | 1 requirement, 2 texts, 2 cases, 2 bodies, 3 edits, 2 runs, 2 versions | 1.3 M, 22 s | `HistoryComplete`, `CodesNeverReused`, `VersionsDiffer` |
| `usecases_stale` | 2 requirements, 2 sections, 2 texts, 1 case, 4 edits, 2 runs | 4.6 M, 78 s | `StaleCasesAreOffered`: a case behind its requirement stays due; `CleanRunCompletes`: a clean run leaves nothing to do |
| `testing` | 1 case, 2 testers, 2 bases, 1 cycle, 1 proof, 2 statuses, 3 transactions, 2 other changes, 1 version | 3.5 M, 97 s | `CacheFollowsTimeline`, `VerdictsWereGiven`, `CycleTestsItsVersion`, `EvidenceLocked` |
| `chat` | 1 reader, 2 turns, 1 token, 1 fault | 0.9 M, 106 s | `ReadersSeeAll`, `SavedAsTold`, `HistoryIsPairs`, `ReadersEnd` |
| `stored_files` | 1 source, 2 proof keys, 2 BRDs, 1 proof, 2 uploads, 2 cleaners, 2 puts, 1 fault | 145 k, 77 s | `SourcesKept`, `ProofsKept`, `OrphansGo` |
| `voyage` | 2 questions, 1 document, calls of 1 or 4 tokens, limits of 3 and 3, reserve 1, window 2 | 352 k, 20 s | `WithinLimits`, `QuestionsMoveOn`, `IngestResumes` |
| `models` | 2 prompts, 3 models of which 2 preferred, 2 models tried, 2 retries | 110 k, 83 s | `NeverSwitched`, `PoolTriedOnce`, `PromptsEnd` |
| `email_outbox` | 2 processes, 1 message, 2 attempts, 2 faults | 675 k, 60 s | `SentWasDelivered`, `RepeatsNeedAFault`, `EveryMessageSettles` |

Every property has a mutant in `PROJECT.json`: a plausible bug of the code that the run then
finds. Other properties that hold are stated and not run with the rest: `OneActiveTurn`,
`CooldownsStand`, `HolderOwnsRow`, `ClaimsNeedAFault`, `SentIsFinal`, `ProofsApart`,
`OneActiveJob`, `OneOpenRevision`, `FinalStatusKept`, `HistoryGrows`, `ApprovedIsReviewed`, `RestoresText`, `EvidenceHasResult`,
`ReportsAgree`, `ChatKeepsRoom`, `NothingIsLost`, `KeptStayInOrder` and the type invariants are
proved (section 4); they hold on the instances above as well: add them to a `.cfg` to see it.

### Why the bounds suffice

* Ingestion: rows of two BRDs interact nowhere, so one BRD is general. Two workers
  and three claims let a worker be overtaken, and overtaken again after a retry, with one
  crash on top. Two revisions are needed for one to supersede the other, two jobs for a
  retry to meet an upload.
* Revisions: the first file has one text twice and one requirement id; the second drops that
  text, gives the id to another and adds a row that is similar to one of them, so that all three
  rounds of the alignment compete; two edits let a row be added and another changed after the
  comparison; `MinLive` is 3, so that a near-total replacement needs to be confirmed. Another
  BRD shares two of the vectors and is deleted.
* Requirements: two tabs let any request come between another's steps, and an edit be overtaken
  by an approval. Three ids are one or two rows with a split or an addition (the run with four, 4.5 M
  states, passes too); three writes let an approval be edited past, discarded, and approved again.
  A plan has at most three operations, the last of which may be refused.
* Use cases: two cases make codes and rows of a version meet; one requirement with two
  texts makes it stale. Staleness across units needs two sections and one case that cites
  both; four edits let a requirement be changed, changed back, moved and archived around
  two runs.
* Testing: timelines meet in one case only, and `Planned` of several cases is a set. Three
  transactions let two testers and a cycle write on one case; two bases are a draft and its
  change; "not_tested" and "passed" are the statuses with rules of their own.
* Chat: two turns meet when a stopped one winds down beside its successor or a delete empties
  the slot. One token suffices for a subscription before, between and after what is said (the
  proof covers any number).
* Stored files: two BRDs share one source, two cleaners a listing; a second put is the
  identical upload that comes back.
* Voyage: a call of 4 tokens is larger than the window, three of 1 fill it; two questions, so
  that one may starve the other; the window of 2 ticks is less than the 3 of a recent chat, as in
  the code.
* Models: two tried of three leave one out; two prompts share a cooldown and a catalogue; two
  attempts of `complete_chat` would let a prompt go through the pool a second time.
* Outbox: two processes are what a deploy overlaps; a third would only free a row once more. Rows
  meet nowhere but in the cooldown that keeps a recipient's next message from being queued, so
  one message (the proofs are for any number of both). Two attempts make a retry and a dead letter;
  two faults let a crash, a lost answer and a failed statement meet in pairs.

Every action fires in at least one passing run. `CHECK_DEADLOCK FALSE` is stated everywhere but in
`VoyageBudget.cfg` and `RevisionReview.cfg`: a system whose bounded requests, claims and
faults are used up and whose users ask for nothing more is quiescent, not stuck. Where
being stuck would be wrong, liveness is checked instead. In the two others time always goes on.

### Fairness

* `IngestJobs`: weak fairness of each worker's steps on its job (a document has finitely
  many batches), of claiming by an idle worker (the loop polls every 10 s, `jobs.py:238`
  onwards), of the restart of a crashed process (the platform restarts it) and of the end of
  a lease nobody holds (time passes). No user step is fair.
* `EmailOutbox`: weak fairness of a checked request's insert, of claims (the sweeper wakes
  by itself), of the transport's answer and the finish (each socket operation has a
  timeout), of starting a process when none runs, and of time. Faults are not fair and are
  finitely many.
* `ChatTurns`: weak fairness of the request and the thread of a turn (provider calls and
  statements have timeouts) and of a client that reads what it is sent. Asking, Stop and
  delete are not fair.
* `SourceStore`: weak fairness of an upload's second step and of each step of a cleaner, which
  is code running to its end; strong fairness of starting the sweep of sources, because the
  cleaner that would start it is at times busy with something else and the loop comes round
  every six hours, and of the ageing of an object, which waits for uploads and listings that
  take less than ten minutes. Starting a delete is not fair.
* `VoyageBudget`: weak fairness of time, of a caller that may go (`acquire` waits on a
  condition that every change notifies), of waking after a sleep, and of the end of a call
  (the client's timeout).
* `ModelRouter`: weak fairness of going on with a prompt (every HTTP call has a timeout);
  neither asking nor the end of a cooldown is fair.
* `UseCases`, `UseCaseTesting`, `RagCache` and `RevisionReview` have no liveness property: a
  run ends when the model answers, and only a user starts the next.

## 4. What is proved

The TLA+ proof system checks the following for every value of the constants. No
assumption is made beyond the named ones on the constants (`BudgetAssumption`,
`KeyAssumption`, `RouterAssumption`, ...), which TLC also evaluates.

**IngestJobs** (`IngestJobsProofs`, no hypothesis). `IInv` is `TypeOK`, the safety
invariants and two facts they rest on: `RowsAgree` (a job's BRD exists, an open revision's
job is a revision of the same BRD) and `ClaimsHeld` (a busy worker's token is at most the
job's attempts). The fence alone is not inductive: two workers of one job differ in token
only because a token is never from the future, so that a new claim is above them all. Most
steps are *quiet*: they change no reference, make no job active and open no revision, and
one lemma per conjunct shows that a quiet step keeps it; the six others (submissions,
retry, delete, claim, compare) are proved one by one. From `IInv`: each invariant,
`FinalStatusKept`, `OvertakenWorkerIsHarmless`, `PublishedWithItsJob`, and `KeepsPromise`,
that every behaviour implements `BrdPublication` (each step maps to a step of it or a
stutter).

**EmailOutbox** (`EmailOutboxProofs`, no hypothesis: any number of processes that overlap and start
at any time, and sends that outlast their lease). The invariant is proved per message (`MsgInv`).
`DeliveriesCounted` adds to the deliveries the threads that may still add one (`Senders`) and the row
if it may be claimed by another (`Open`); all together are at most 1 plus the faults plus how often
the row was freed under its sender. `RepeatsNeedAFault` alone is not inductive: it does not know how
many deliveries are still to come. `AttemptsCounted` does the same for attempts, where `Strays`, the
threads whose claim the row no longer shows, may each make it pending again. Both rest on
`ClaimsDiffer`: no two claims have one number. `HolderOwnsRow` and `SentIsFinal` say what is left of
the docstring's race-freedom: one sender, and a final 'sent', as long as no row was freed under its
sender. Steps on one message leave the others' parts alone (`Elsewhere`, `Untouched`).

**UseCases** (`UseCasesProofs`, no hypothesis). `IInv` is `TypeOK`, `HistoryComplete`,
`VersionsDiffer` and `CodesInv`: codes are unique because there is a highest one and a run
in its units hands out codes above it (`RunIsAhead`), which is inductive while uniqueness
is not. `HistoryGrows` follows step by step.

`StaleCasesAreOffered` and `CleanRunCompletes` rest on a second invariant, `RunInv`, which says
for each phase of a run what it still owes. `DatedOK` of a case and a requirement that it cites is
the heart of it: the text that the case was judged against is the one in the basis, or the one that
the run read, or a unit will still look at the case, or the run is about to drop the citation.
`BasisOK` says that what the run read is in the basis or in a unit to come, `PlanOK` that what a
plan removes was not among what it read (so that no unit can show it to a model), `QuietOK` that
without changes from outside the plan is still about the requirements of now. None of the four is
inductive alone: when the last unit commits, `DatedOK` holds of the new basis only because of
`BasisOK`, and a unit that keeps a case drops just the right citations only because of `PlanOK`.
`UnitsCover` is the lemma about the units: each pending requirement and each affected case has one.

**UseCaseTesting** (`UseCaseTestingProofs`, no hypothesis). `IInv` is `TypeOK` with four of the
properties and what requests under way are worth. `RequestOK`: a case that a request holds is
there, a stamp is from the past, and a pass that `create_cycle` carries was given on the definition
in its version. `StampsOK` and `RowsOK`: a timestamp belongs to one request or to one event of each
case, so that "the newest event" is one. `PinsOK`: a cycle is pinned to a version, and the events of
a deleted cycle name none. `DropOK`: while the event that a delete of evidence read is there, the
proof is bound to it. `VerdictsWereGiven` needs the carried passes, `CacheFollowsTimeline` that a
row that changes is held or overtaken, `EvidenceLocked` (an action property) `DropOK` and the one
newest event. `MembersHeld` is inductive beside it: what a cycle or a request plans is in its
version; `ReportsAgree` follows.

**Requirements and RagCache** (`RagCacheProofs`, no hypothesis). `IInv` has the rows (`BrdOK`: the
ids of the document are apart and were issued, and every requirement ever stored, live or archived,
has the vector of its text), the snapshots, the requests between their read and their commit, the
keys, the review and the caches. A request commits all its operations or none, so the lemmas are
about one operation first (`InsertedOK`, `AuditedOK`, `RewrittenOK`), then about a plan of any length
by induction (`StatesOK`), and about the rows of a restored snapshot by another (`ReconciledOK`).
That archived rows are included is what makes it inductive: a restore revives them with the vector
they have. While the BRD is a draft no approved snapshot appears, so `DiscardFindsReviewed` is decided when it
becomes one (`ReviewBaseline`): the baseline taken then is the newest by stamp, unless an approved
snapshot has a later one and it is marked as overtaken (`LatestOK`: there is a newest one, as stamps
are numbers up to `clock`). `ServesCurrent` is kept because a step that leaves the BRD alone only keeps
rows, expires them or stores them with the truth about being late (`Kept`, `CurrentKept`), and one
that changes it owes a bust (`Due`). `VectorsMatchText`, `AppliedOnce`, `ApprovedIsReviewed`,
`DiscardFindsReviewed`, `ServesCurrent` and `RestoresText` follow.

**ChatTurns** (`ChatTurnsProofs`, no hypothesis). `PhasesOK` says what the program counter tells
of a turn (one whose outcome is told is past its end, the slot belongs to a turn in its thread or
to a leaked one, a turn that saves after a Stop is late), `OneSlot` relates active turns to the
slot, and `SavedOK` the messages to the program counter. `HistoryIsPairs` needs all three:
between the two messages of a turn no other turn can save unless one of them is late or its slot
was dropped. `Following` and `ReadersSeeAll` go together: what a reader has seen and what is in its
queue is what was said.

**SourceStore** (`SourceStoreProofs`, no hypothesis). A key is wanted if a row refers to it or an
upload is about to. `Kept`: what is wanted is present or raced. `Doomed`: what is to be removed is
not wanted, or raced. Neither is inductive alone, because a cleaner reads the rows before it lists
the objects: `CameLate` says that a key wanted in spite of that reading was put after it, and
`StillNew` that such a key is fresh, so that the listing passes over it. `Apart`: no two proofs and
uploads share a proof's key, and a key in use was generated. `SourcesKept`, `ProofsKept` and
`ProofsApart` follow.

**ModelRouter** (`ModelRouterProofs`, no hypothesis). `PromptsOK`: a prompt that is under way and not
being shown has shown nothing, what was shown is of one model, and (`CandidatesOK`) the models it has
given up and those it has left are `MaxAttempts` at most, while a prompt that is to choose its
candidates has given up none. `PoolTriedOnce` follows from it and is not inductive without what is
left. That the candidates are a sequence of free models, of `MaxAttempts` at most, is proved of
`InOrder`, a recursion over the models, by induction. `NeverSwitched` and `CooldownsStand` follow, and
the types of the pool, the catalogue and the prompts (`TypeOK`).

**RevisionReview** (`RagCacheProofs`, its second half; no hypothesis but `RevisionAssumption`). Every
theorem is for any texts, sections, files, similarity of texts and bounds. It goes from the inside
out:

* *The matching.* `align` is three rounds of pairs. `Pairing` says that no row of either side is used
  twice. For the round of identical texts it follows from the occurrences (`OccurrencesGrow`,
  `OccurrencesDiffer`). The last round takes the best candidates first: the model writes it as the
  set in which a pair is chosen exactly if no better chosen pair shares a row with it (`Greedy`), and
  `ChoiceExists` shows that there is such a set whenever the candidates are finite and the order is
  strict, by taking the worst candidate away. `Classified` then says what items tell of both sides:
  each live row is in one item, each new row in one, under the id and the text it had.
* *The stale check.* `_is_stale` compares a set of ids with texts. `NotStale` and `SayTheSame` show that
  if it finds nothing, the live rows are those that were compared, text by text.
* *The apply.* `GoodTargets`: no two targets have an id in common, and each has the vector of its
  text. `TargetsOK` is where `VectorsThere` is needed, and that a live row has the vector of its text
  already. Kept rows are put back by a recursion over the live rows; `Merged` is its invariant (all
  targets are still there, what was added is kept, and stands behind the live rows before it), and
  `WithKeptOK` finds the function that the recursion defines. `NumberedOK`: the new ids are above all
  others and apart.
* *The state.* `ReviewInv`: the live rows have different ids below `nextId` and the vectors of their
  texts, a job is of its types, and an open review is a comparison of its rows with some live document
  (`OpenReview`), which need not be the present one. That is why `FoundByItsText`, which alone says
  nothing of reviews, is not inductive: an apply would find anything in them. From it follow
  `FoundByItsText`, `AppliesWhatItShowed`, `ReviewKeepsItsVectors`, `StagedReviewIsCurrent`,
  `UnchangedKeepsItsId` and `KeptStayInOrder`. `RecordsInv` adds that each id ever given is in
  the document or the archive, in one of them only (`Accounted`), and gives `NothingIsLost` and
  `ReviewTypeOK`.

`UnchangedKeepsItsId` is the longest way: a text that the revision repeats at least as often as the
live document has, for each of its live rows, a partner of the same occurrence (`PlacesCounted`), so
the first round pairs them, the item is one that cannot be skipped or kept, and its row comes out of
recursion and numbering under the id it had.

**VoyageBudget** (`ModelRouterProofs`, its second half; no hypothesis but `LimitAssumption`: limits and
sizes are positive, the callers that answer users are finitely many, and chat counts as recent for no
less than a window). The tokens in the window are a recursive sum. `TokensAreTheirSum` shows that it
is the one function with `SumsUp`, from which follow what it is after another call
and that it falls by what leaves. Only the oldest calls leave (`PruneKeepsTheYoung`), because the
window is in the order of age (`OldestFirst`). `VoyageInv` adds to `WithinLimits`: `CallersInv` (the
count of waiting questions is their number), `RoomInv` (the documents' calls of the last `active`
ticks leave the reserve, whatever is older) and `HeldUpInv` (while questions are held up, every call in
the window is at least as old as that). `RoomInv` and `HeldUpInv` say for every number of ticks what
`ChatKeepsRoom` and `QuestionsMoveOn` say at its end, and only so are they inductive:
when a question has waited for `Window` ticks the window is empty, and then it may go.

**How inductions are done.** The library's induction theorems take an operator as a parameter and
cannot be used here. Where a proof needs one, the statement is put as a set of naturals: the least
number it fails for, which exists because `<` on them is well founded (`NatLessThanWellFounded`,
`WFMin`), leads to a contradiction. `Newest` of a timeline and the folds over the operations of a
plan are treated so.

**Only model-checked.** Liveness under fairness (`JobsSettle`, `EveryMessageSettles`,
`ReadersEnd`, `OrphansGo`, `IngestResumes`, `PromptsEnd`) is out of the prover's reach. Every
invariant and every action property without fairness that a run checks is also a theorem.
Whether the similarity of two texts is what the code computes is outside the model: it is a constant.

## 5. Where the code and its documents differ

What a comment or a docstring promises and the model, like the code, does not keep. Each is stated
as a property of its module that no run checks, because it does not hold; put it into the run's
`.cfg` to see the steps. Where a property that is checked has an exception, it is one of these.

| Property | Says | Steps |
|---|---|---|
| `IngestJobs!ReviewJobHasRevision` | a job is not left in 'review' (`revise.py:407`) | the revision is resolved between the commit of `compare` and the update of its job (`jobs.py:384-388`) |
| `IngestJobs!ProcessingCanMove` | a BRD left 'processing' has a job (`api.py:187-189`) | a revision is applied to a BRD whose first upload failed, then that upload is retried: its BRD is set to 'processing' (`jobs.py:598`) and `_store_new`, finding requirements, only ends the job |
| `IngestJobs!NotFailedUnderActiveJob` | a worker does not fail a BRD another is processing (`jobs.py:397-399`) | a job fails, is retried between the two transactions of `_fail`, and its BRD is marked failed under it |
| `EmailOutbox!AttemptsWithinLimit` | `max_attempts` holds through crashes (`email_outbox.py:11-12`) | the process dies in each send: the claim never compares attempts |
| `EmailOutbox!NeverDoubleSends` | several workers "can never double-send" (`email_outbox.py:17-19`); `reclaim_stuck` is "safe at startup because no worker is mid-send yet" (`email_outbox.py:172`) | a process sends, a second one starts (`api.py:211`) and re-arms its row, and a sweeper claims it and sends too |
| `UseCases!PublishedIsReviewed` | "exactly what publish freezes" (`suites.py:6`) | a case, or a requirement it cites, is edited between the two reads of `publish` |
| `UseCases!RestoredStaleIsPending` | old cases are offered after a restore (`generation.py:748`) | a version remembers texts at publish time, not those its cases were generated from: change, publish, update, restore |
| `UseCases!FailedUnitStaysPending` | "stays pending" (`generation.py:675`) | a failed unit held only affected cases, and another unit commits the requirement they cite |
| `UseCaseTesting!UndoRestoresGiven` | "reverts to what it replaced" (`testing.py:612`) | pass, edit the case, amend to fail, undo: the pass is now pinned to the new definition |
| `UseCaseTesting!CacheNeverDrifts` | "can never drift" (`testing.py:36`) | a cycle's carried pass waits behind a tester's verdict and then writes the cache it had computed before |
| `ChatTurns!SlotFreed` | the slot is not leaked (`api.py:2378`) | a check after the registration raises (`api.py:2328` onwards): 409 until a Stop or a restart; a client that attached to that turn gets no end |
| `ChatTurns!StoppedNotSaved` | "NOT persisted" (`api.py:2393`) | the Stop comes after the last poll |
| `SourceStore!UploadWins` | a purge "can never win" (`jobs.py:153-156`) | the purge lists the old object (or fails to list, and takes all), the identical upload puts it again, the purge deletes it |
| `VoyageBudget!UploadNeverStalls` | an upload "never stalls anyone's questions" (`voyage.py:11-12`) | the reserve is of requests only: batches fill the tokens of the window |
| `Requirements!RestoreIsExact` | "restore is exact" (`versioning.py:4`) | edit a requirement, delete it, restore the snapshot from before: it is revived with the text it was archived with |
| `Requirements!RestoreKeepsIds` | "same id first" (`versioning.py:55`) | the requirement is archived, and a live one of the same or a similar text takes its place before archived ones are looked at |
| `Requirements!DiscardRestoresBaseline` | "Discards (restores the baseline)" (`versioning.py:6`) | an edit's transaction starts and waits for the lock that a restore holds; an approval starts later and commits; the restore commits, then the edit adds its baseline, whose `created_at` is the older: `discard` (`versioning.py:209`) takes the approval's snapshot |
| `RagCache!BustsSuffice` | "correctness ... comes from bust_project() being called on every ingest/delete" (`core/cache.py:23-24`) | a reader that began before an edit stores after its bust; or a question over all BRDs stores an answer first, without a project, the BRD is edited in place and busted, and a question within the BRD finds the same ids and gets the old answer until it expires |

Three more that no property states:

* `apply_revision` "honours the user's intent" (`revise.py:555-557`) by ids of items, and
  `recompare` from another tab deletes and rewrites the items (`revise.py:493`): an apply from
  the first tab then keeps and skips nothing. In `RevisionReview` it is an `Apply` with empty sets.
* Of two requests, `set_active` that has seen a key and `delete_key` that deletes it
  (`llm_keys.py:84-125`) leave the user keys of which none is active.
* A failure that is one user's own (a 404 over the settings of an account, a 400 for a prompt that is
  too long) keeps the model out of everybody's pool: `free_router.py:119-143` tells an account's fault
  by its status and text only.

Smaller exceptions are in the properties themselves: `EvidenceLocked` (a delete that saw its proof
staged does not look again, `testing.py:752`), `ProofsKept` (the sweep of a starting process
between another's put and row, `testing.py:141`), `DiscardFindsReviewed` (an edit while an
approve is under way, and the overtaken baseline above), `HistoryIsPairs` (a late Stop, or a delete that fails after it emptied the
slot), `ServesCurrent` (a reader that stores what it read before a bust, an answer first stored over all
BRDs, and a request that dies between its commit and its bust).

## 6. What is left

In the order of its worth:

1. `UseCases` and `UseCaseTesting` over one state: definitions, versions and the restore of a
   definition that resynchronises the cached status, which now are free choices of each.
2. The keys of users, beside the prompts that read them.
3. Two publish or restore requests at once, and folders as a tree.

## 7. Not modelled

* Extraction, parsing and chunking: text without state; their result is a free choice in
  `IngestJobs` and a constant in `RevisionReview`.
* Retrieval and fusion, grounding, prompts, titles: read-only, or wording. `RagCache` has what
  they leave behind.
* Users' model keys, accounts, one-time codes, service tokens: lookups and one-row updates of a
  request, without a protocol between actors other than the one in section 5.
* The second, strict question to the model after an answer without citations (`session.py:153-162`) and
  the verification behind it: in `ModelRouter` each is a prompt of its own, so that `NeverSwitched`
  is about one prompt's answer. A draft that was shown may be replaced by another model's answer.
* The audit log: one insert in the transaction of what it records; a trigger refuses changes.
* The HTTP layer: routing and validation. Its handlers that change state are actions of the
  module of that state.
* Settings, the connection pool, migrations: PostgreSQL is assumed to keep committed rows, to
  hold row and advisory locks to the end of a transaction and to enforce unique indexes. The
  object store, the mail provider, Voyage and the model providers are modelled from how the code
  uses them, as free outcomes.
* Evaluation scripts, the legacy pipeline and the frontend are not part of the running server.

Of modelled parts are left out: folders as a tree, labels and diffs (`UseCases`); notes, defects,
captions and the comparison of cycles (`UseCaseTesting`); a conversation's scope and model
(`ChatTurns`); the backends of the object store (`SourceStore`); progress counters (`IngestJobs`).
Each leaves the state the properties are about alone.
