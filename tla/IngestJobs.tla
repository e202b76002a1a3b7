----------------------------- MODULE IngestJobs -----------------------------
(***************************************************************************)
(* The durable ingestion queue of backend/ingest/jobs.py: uploads queue a   *)
(* job, worker threads of any number of server processes claim it under a   *)
(* lease, and a job either publishes a new BRD or stages a revision that    *)
(* the user applies or discards (backend/ingest/revise.py).                 *)
(*                                                                         *)
(* Every action is one database transaction, or the in-memory step between  *)
(* two.  A worker that lost its lease keeps running: nothing tells it.      *)
(* Extraction, chunking and embedding are one "work" phase whose outcome is *)
(* a nondeterministic choice; a BRD's requirements are the number of the    *)
(* version that is live (0: none stored yet).                               *)
(***************************************************************************)
EXTENDS Naturals

CONSTANTS
    Docs,          \* BRDs: one brd_document row and its project id
    Jobs,          \* ids of ingest_job rows
    Revs,          \* ids of brd_revision rows
    Workers,       \* ingest-worker threads, one per server process
    Null,          \* no BRD, no job
    Budget,        \* settings.ingest_max_attempts
    ClaimBound,    \* bound: no premature lease loss and no retry past this many claims
    CrashBound     \* bound: crashes of server processes and abandoned runs

ASSUME BudgetAssumption == Budget \in Nat \ {0}
ASSUME BoundsAssumption == ClaimBound \in Nat /\ CrashBound \in Nat
ASSUME NullAssumption == Null \notin Docs \cup Jobs

VARIABLES
    doc,           \* brd_document rows
    job,           \* ingest_job rows
    rev,           \* brd_revision rows
    wk,            \* the worker threads' local state
    crashes        \* crashes and abandoned runs so far (bounded by CrashBound)

vars == <<doc, job, rev, wk, crashes>>

-----------------------------------------------------------------------------
(* Rows.  "none" is a row not inserted yet, "gone" one deleted with its BRD. *)

DocStatus == {"none", "processing", "ready", "failed", "gone"}
JobStatus == {"none", "queued", "running", "review", "done", "failed", "canceled", "gone"}
RevStatus == {"none", "review", "applied", "discarded", "superseded", "gone"}

Doc == [status : DocStatus, live : Nat]
Job == [status : JobStatus, mode : {"new", "revision"}, doc : Docs \cup {Null},
        attempts : Nat, max : Nat, fresh : BOOLEAN]     \* fresh: locked_at is within the lease
Rev == [status : RevStatus, doc : Docs \cup {Null}, job : Jobs \cup {Null}, base : Nat]

(* pc of a worker: "work" covers extract .. embed, "staged" is the gap between *)
(* compare's commit and the job update, "handler" the except-Canceled branch,  *)
(* "mark" the gap before _mark_doc_failed, "down" a crashed process.           *)
PC == {"idle", "claimed", "work", "staged", "handler", "mark", "down"}
Worker == [pc : PC, job : Jobs \cup {Null}, token : Nat, max : Nat]

Idle == [pc |-> "idle", job |-> Null, token |-> 0, max |-> 0]

Exists(d)   == doc[d].status \notin {"none", "gone"}
Active(j)   == job[j].status \in {"queued", "running"}
Open(r)     == rev[r].status = "review"
ActiveOn(d) == {j \in Jobs : Active(j) /\ job[j].doc = d}

Init ==
    /\ doc = [d \in Docs |-> [status |-> "none", live |-> 0]]
    /\ job = [j \in Jobs |-> [status |-> "none", mode |-> "new", doc |-> Null,
                              attempts |-> 0, max |-> 0, fresh |-> FALSE]]
    /\ rev = [r \in Revs |-> [status |-> "none", doc |-> Null, job |-> Null, base |-> 0]]
    /\ wk = [w \in Workers |-> Idle]
    /\ crashes = 0

-----------------------------------------------------------------------------
(* Users.  The partial unique index ingest_job_active_uk makes every insert or *)
(* update that would give a BRD a second active job fail (the 409 paths).      *)

NewJob(j, d, m) ==
    /\ job[j].status = "none"
    /\ ActiveOn(d) = {}
    /\ job' = [job EXCEPT ![j] = [status |-> "queued", mode |-> m, doc |-> d,
                                  attempts |-> 0, max |-> Budget, fresh |-> FALSE]]

(* An upload under a new title: the BRD row and its job in one transaction. *)
SubmitNew(d, j) ==
    /\ doc[d].status = "none"
    /\ NewJob(j, d, "new")
    /\ doc' = [doc EXCEPT ![d].status = "processing"]
    /\ UNCHANGED <<rev, wk, crashes>>

(* A new version of an existing BRD, uploaded or re-run from its stored file. *)
SubmitRevision(d, j) ==
    /\ Exists(d)
    /\ NewJob(j, d, "revision")
    /\ UNCHANGED <<doc, rev, wk, crashes>>

(* Plausible bugs: the attempt counter restarts with the budget; a status the  *)
(* schema does not know; the active-job index is not relied on.                *)
RetriedJobAfresh(j) == [job[j] EXCEPT !.status = "queued", !.attempts = 0, !.max = Budget]


(* A failed job is queued again with a fresh budget; attempts is never reset. *)
RetriedJob(j) == [job[j] EXCEPT !.status = "queued", !.max = job[j].attempts + Budget]

Retry(j) ==
    /\ job[j].status = "failed" /\ job[j].attempts < ClaimBound
    /\ ActiveOn(job[j].doc) = {}
    /\ job' = [job EXCEPT ![j] = RetriedJob(j)]
    /\ doc' = IF job[j].mode = "new"
              THEN [doc EXCEPT ![job[j].doc].status = "processing"] ELSE doc
    /\ UNCHANGED <<rev, wk, crashes>>

(* What _mark_doc_failed and cancel write: only a 'processing' BRD can fail. *)
DocFailed(d) ==
    IF doc[d].status = "processing" THEN [doc EXCEPT ![d].status = "failed"] ELSE doc

(* Plausible bug: the BRD of a canceled upload stays 'processing'.             *)
CancelJobOnly(j) ==
    /\ Active(j)
    /\ job' = [job EXCEPT ![j].status = "canceled"]
    /\ UNCHANGED <<doc, rev, wk, crashes>>

Cancel(j) ==
    /\ Active(j)
    /\ job' = [job EXCEPT ![j].status = "canceled"]
    /\ doc' = IF job[j].mode = "new" THEN DocFailed(job[j].doc) ELSE doc
    /\ UNCHANGED <<rev, wk, crashes>>

(* Resolving a revision ends its job only where the job is already in 'review'. *)
ReviewEnds(r, status) ==
    LET j == rev[r].job IN
    IF job[j].status = "review" THEN [job EXCEPT ![j].status = status] ELSE job

(* Plausible bug: the revision is applied whatever it was compared with.       *)
ApplyStale(r) ==
    /\ Open(r)
    /\ doc' = [doc EXCEPT ![rev[r].doc] = [status |-> "ready", live |-> @.live + 1]]
    /\ rev' = [rev EXCEPT ![r].status = "applied"]
    /\ job' = ReviewEnds(r, "done")
    /\ UNCHANGED <<wk, crashes>>

Apply(r) ==
    /\ Open(r)
    /\ rev[r].base = doc[rev[r].doc].live            \* otherwise: Stale
    /\ doc' = [doc EXCEPT ![rev[r].doc] = [status |-> "ready", live |-> @.live + 1]]
    /\ rev' = [rev EXCEPT ![r].status = "applied"]
    /\ job' = ReviewEnds(r, "done")
    /\ UNCHANGED <<wk, crashes>>

Discard(r) ==
    /\ Open(r)
    /\ rev' = [rev EXCEPT ![r].status = "discarded"]
    /\ job' = ReviewEnds(r, "done")
    /\ UNCHANGED <<doc, wk, crashes>>

Recompare(r) ==
    /\ Open(r)
    /\ rev' = [rev EXCEPT ![r].base = doc[rev[r].doc].live]
    /\ UNCHANGED <<doc, job, wk, crashes>>

(* One transaction removes the BRD with its jobs and revisions. *)
DeleteBrd(d) ==
    /\ Exists(d)
    /\ doc' = [doc EXCEPT ![d] = [status |-> "gone", live |-> 0]]
    /\ job' = [j \in Jobs |-> IF job[j].doc = d THEN [job[j] EXCEPT !.status = "gone"] ELSE job[j]]
    /\ rev' = [r \in Revs |-> IF rev[r].doc = d THEN [rev[r] EXCEPT !.status = "gone"] ELSE rev[r]]
    /\ UNCHANGED <<wk, crashes>>

-----------------------------------------------------------------------------
(* Workers. *)

(* The fence: the job is still running under the claim this worker holds. *)
Fenced(w) ==
    /\ job[wk[w].job].status = "running"
    /\ job[wk[w].job].attempts = wk[w].token

Goto(w, pc) == wk' = [wk EXCEPT ![w].pc = pc]
Done(w)     == wk' = [wk EXCEPT ![w] = Idle]

(* Plausible bug: a running job is never reclaimed.                            *)
ClaimableQueued(j) == job[j].status = "queued"

Claimable(j) ==
    \/ job[j].status = "queued"                         \* its backoff has passed
    \/ job[j].status = "running" /\ ~job[j].fresh

(* Plausible bug: a reclaim is the same attempt.                               *)

(* Claiming (or reclaiming) bumps attempts, which is also the fencing token. *)
ClaimedJob(j) == [job[j] EXCEPT !.status = "running", !.attempts = @ + 1, !.fresh = TRUE]

Claim(w, j) ==
    /\ wk[w].pc = "idle"
    /\ Claimable(j)
    /\ job' = [job EXCEPT ![j] = ClaimedJob(j)]
    /\ wk' = [wk EXCEPT ![w] = [pc |-> "claimed", job |-> j,
                                token |-> job[j].attempts + 1, max |-> job[j].max]]
    /\ UNCHANGED <<doc, rev, crashes>>

(* Plausible bug: a failure is recorded without the fence.                     *)

(* _fail, terminal: a fenced update, then (another transaction) the BRD row. *)
FailTerminal(w) ==
    /\ IF Fenced(w)
       THEN job' = [job EXCEPT ![wk[w].job].status = "failed"] /\ Goto(w, "mark")
       ELSE job' = job /\ Done(w)
    /\ UNCHANGED <<doc, rev, crashes>>

(* _fail, retry: back to the queue, if the claim still holds. *)
FailRetry(w) ==
    IF wk[w].token < wk[w].max
    THEN /\ job' = IF Fenced(w)
                   THEN [job EXCEPT ![wk[w].job].status = "queued", ![wk[w].job].fresh = FALSE]
                   ELSE job
         /\ Done(w)
         /\ UNCHANGED <<doc, rev, crashes>>
    ELSE FailTerminal(w)

(* The claim was one too many: earlier runs kept dying. *)
GiveUp(w) ==
    /\ wk[w].pc = "claimed"
    /\ wk[w].token > wk[w].max
    /\ FailTerminal(w)

(* The run starts by reading the source and the BRD; both are gone with the BRD. *)
Begin(w) ==
    /\ wk[w].pc = "claimed"
    /\ wk[w].token <= wk[w].max
    /\ Goto(w, IF Exists(job[wk[w].job].doc) THEN "work" ELSE "handler")
    /\ UNCHANGED <<doc, job, rev, crashes>>

(* _check_live between embedding batches: renew the lease, or learn it is lost. *)
Heartbeat(w) ==
    /\ wk[w].pc = "work"
    /\ IF Fenced(w)
       THEN job' = [job EXCEPT ![wk[w].job].fresh = TRUE] /\ wk' = wk
       ELSE job' = job /\ Goto(w, "handler")
    /\ UNCHANGED <<doc, rev, crashes>>

BadDocument(w) ==
    /\ wk[w].pc = "work"
    /\ FailTerminal(w)

(* Voyage, storage or database outage, or any unexpected exception. *)
Outage(w) ==
    /\ wk[w].pc \in {"claimed", "work", "staged"}
    /\ wk[w].token <= wk[w].max
    /\ FailRetry(w)

(* Plausible bug: no check that the BRD has requirements already.              *)
StoreNewAgain(w) ==
    LET j == wk[w].job
        d == job[j].doc IN
    /\ wk[w].pc = "work" /\ job[j].mode = "new"
    /\ Fenced(w) /\ Exists(d)
    /\ job' = [job EXCEPT ![j].status = "done"]
    /\ doc' = [doc EXCEPT ![d] = [status |-> "ready", live |-> @.live + 1]]
    /\ Done(w)
    /\ UNCHANGED <<rev, crashes>>

(* _store_new: fence, idempotence check, publication and 'done' in one transaction. *)
StoreNew(w) ==
    LET j == wk[w].job
        d == job[j].doc
        stored == doc[d].status = "ready" \/ doc[d].live # 0 IN
    /\ wk[w].pc = "work" /\ job[j].mode = "new"
    /\ IF Fenced(w) /\ Exists(d)
       THEN /\ job' = [job EXCEPT ![j].status = "done"]
            /\ doc' = IF stored THEN doc
                       ELSE [doc EXCEPT ![d] = [status |-> "ready", live |-> @.live + 1]]
            /\ Done(w)
       ELSE /\ Goto(w, "handler")
            /\ UNCHANGED <<doc, job>>
    /\ UNCHANGED <<rev, crashes>>

(* Plausible bug: the older revision stays open.                               *)

(* Staging supersedes the BRD's open revision and cancels its job if in 'review'. *)
Superseded(d) == {q \in Revs : Open(q) /\ rev[q].doc = d}

Staged(d, j, r) ==
    [q \in Revs |-> IF q = r THEN [status |-> "review", doc |-> d, job |-> j, base |-> doc[d].live]
                    ELSE IF q \in Superseded(d) THEN [rev[q] EXCEPT !.status = "superseded"]
                    ELSE rev[q]]

Compare(w, r) ==
    LET j == wk[w].job
        d == job[j].doc
        old == {i \in Jobs : job[i].status = "review" /\ \E q \in Superseded(d) : rev[q].job = i} IN
    /\ wk[w].pc = "work" /\ job[j].mode = "revision"
    /\ rev[r].status = "none"
    /\ Exists(d)                                     \* a deleted BRD raises: an Outage
    /\ IF Fenced(w)
       THEN /\ rev' = Staged(d, j, r)
            /\ job' = [i \in Jobs |-> IF i \in old THEN [job[i] EXCEPT !.status = "canceled"] ELSE job[i]]
            /\ Goto(w, "staged")
       ELSE /\ Goto(w, "handler")
            /\ UNCHANGED <<job, rev>>
    /\ UNCHANGED <<doc, crashes>>

(* Plausible bugs: the job's end is recorded without the fence, or as 'done'.  *)
RecordReviewUnfenced(w) ==
    /\ wk[w].pc = "staged"
    /\ job' = [job EXCEPT ![wk[w].job].status = "review"]
    /\ Done(w)
    /\ UNCHANGED <<doc, rev, crashes>>


(* The second transaction of a revision job: record that it awaits review. *)
RecordReview(w) ==
    /\ wk[w].pc = "staged"
    /\ job' = IF Fenced(w) THEN [job EXCEPT ![wk[w].job].status = "review"] ELSE job
    /\ Done(w)
    /\ UNCHANGED <<doc, rev, crashes>>

(* except Canceled: only the user's cancel, not a lost lease, fails the BRD. *)
CanceledHandler(w) ==
    /\ wk[w].pc = "handler"
    /\ IF job[wk[w].job].status = "canceled" THEN Goto(w, "mark") ELSE Done(w)
    /\ UNCHANGED <<doc, job, rev, crashes>>

MarkDocFailed(w) ==
    /\ wk[w].pc = "mark"
    /\ doc' = IF job[wk[w].job].mode = "new" THEN DocFailed(job[wk[w].job].doc) ELSE doc
    /\ Done(w)
    /\ UNCHANGED <<job, rev, crashes>>

-----------------------------------------------------------------------------
(* The environment. *)

Held(j) == \E w \in Workers : wk[w].job = j /\ wk[w].token = job[j].attempts

(* The lease runs out under a crashed worker, or under one slower than its lease. *)
LeaseExpires(j) ==
    /\ job[j].status = "running" /\ job[j].fresh
    /\ Held(j) => job[j].attempts < ClaimBound
    /\ job' = [job EXCEPT ![j].fresh = FALSE]
    /\ UNCHANGED <<doc, rev, wk, crashes>>

Crash(w) ==
    /\ wk[w].pc # "down" /\ crashes < CrashBound
    /\ wk' = [wk EXCEPT ![w] = [Idle EXCEPT !.pc = "down"]]
    /\ crashes' = crashes + 1
    /\ UNCHANGED <<doc, job, rev>>

(* The database fails while the end of a run is being recorded: _loop logs it *)
(* and claims again; the job row stays as it was.                             *)
Abandon(w) ==
    /\ wk[w].pc \notin {"idle", "down"} /\ crashes < CrashBound
    /\ Done(w)
    /\ crashes' = crashes + 1
    /\ UNCHANGED <<doc, job, rev>>

(* A process starts: _fail_stuck_processing runs before its worker thread does. *)
Boot(w) ==
    /\ wk[w].pc = "down"
    /\ doc' = [d \in Docs |-> IF doc[d].status = "processing" /\ ActiveOn(d) = {}
                              THEN [doc[d] EXCEPT !.status = "failed"] ELSE doc[d]]
    /\ Done(w)
    /\ UNCHANGED <<job, rev, crashes>>

-----------------------------------------------------------------------------
UserStep ==
    \/ \E d \in Docs, j \in Jobs : SubmitNew(d, j) \/ SubmitRevision(d, j)
    \/ \E j \in Jobs : Retry(j) \/ Cancel(j)
    \/ \E r \in Revs : Apply(r) \/ Discard(r) \/ Recompare(r)
    \/ \E d \in Docs : DeleteBrd(d)

(* The steps one worker thread takes on the job it claimed, heartbeats apart. *)
Progress(w) ==
    \/ GiveUp(w) \/ Begin(w) \/ BadDocument(w) \/ Outage(w)
    \/ StoreNew(w) \/ (\E r \in Revs : Compare(w, r)) \/ RecordReview(w)
    \/ CanceledHandler(w) \/ MarkDocFailed(w)

Next ==
    \/ UserStep
    \/ \E w \in Workers : Progress(w) \/ Heartbeat(w) \/ Crash(w) \/ Abandon(w) \/ Boot(w) \/ \E j \in Jobs : Claim(w, j)
    \/ \E j \in Jobs : LeaseExpires(j)

Spec == Init /\ [][Next]_vars
(* A document has finitely many batches, so a run gets past its heartbeats; a  *)
(* crashed process is restarted; an idle worker polls; and the lease of a job  *)
(* nobody works on runs out as time passes.  Nothing obliges a user.           *)
Fairness ==
    /\ \A w \in Workers : WF_vars(Progress(w)) /\ WF_vars(Boot(w)) /\ WF_vars(\E j \in Jobs : Claim(w, j))
    /\ \A j \in Jobs : WF_vars(~Held(j) /\ LeaseExpires(j))

FairSpec == Spec /\ Fairness

-----------------------------------------------------------------------------
(* Properties. *)

(* The rows and the workers' local state have the types the schema gives them. *)
TypeOK ==
    /\ doc \in [Docs -> Doc]
    /\ job \in [Jobs -> Job]
    /\ rev \in [Revs -> Rev]
    /\ wk \in [Workers -> Worker]
    /\ crashes \in Nat

(* attempts is a fencing token: of two workers that believe they run the same  *)
(* job, whatever was reclaimed, canceled or retried in between, at most one    *)
(* holds the job's current claim (jobs.py:272-283, 582-588).                   *)
Busy(w) == wk[w].pc \in {"claimed", "work", "staged", "handler", "mark"}

OneClaimHolder ==
    \A v, w \in Workers : v # w /\ Busy(v) /\ Busy(w) /\ wk[v].job = wk[w].job
                           => wk[v].token # wk[w].token

(* A BRD has at most one job that is queued or running, retries included. *)
OneActiveJob ==
    \A i, j \in Jobs : Active(i) /\ Active(j) /\ job[i].doc = job[j].doc => i = j

(* A BRD has at most one revision awaiting review. *)
OneOpenRevision == \A q, r \in Revs : Open(q) /\ Open(r) /\ rev[q].doc = rev[r].doc => q = r

(* A job that is done left no revision of its own open. *)
DoneLeavesNothingOpen == \A r \in Revs : Open(r) => job[rev[r].job].status # "done"

(* A BRD still 'processing' its first version can get somewhere: its upload's  *)
(* job is active, or failed and the user can retry it.                         *)
FirstVersionCanMove ==
    \A d \in Docs : doc[d].status = "processing" /\ doc[d].live = 0
        => \E j \in Jobs : /\ job[j].doc = d /\ job[j].mode = "new"
                         /\ job[j].status \in {"queued", "running", "failed"}

(* How the rows refer to each other, which the schema's foreign keys and the   *)
(* one-transaction delete maintain.                                            *)
RowsAgree ==
    /\ \A j \in Jobs : job[j].status # "none" => job[j].doc \in Docs
    /\ \A j \in Jobs : job[j].status \notin {"none", "gone"} => Exists(job[j].doc)
    /\ \A r \in Revs : Open(r) =>
          /\ rev[r].doc \in Docs /\ rev[r].job \in Jobs
          /\ job[rev[r].job].doc = rev[r].doc
          /\ job[rev[r].job].mode = "revision"
          /\ job[rev[r].job].status \notin {"none", "gone"}
    /\ \A d \in Docs : ~Exists(d) => doc[d].live = 0

(* A busy worker's claim was once the job's: its token is not from the future. *)
ClaimsHeld ==
    \A w \in Workers : Busy(w) =>
        /\ wk[w].job \in Jobs
        /\ job[wk[w].job].status # "none"
        /\ wk[w].token <= job[wk[w].job].attempts
        /\ wk[w].pc = "staged" => job[wk[w].job].mode = "revision"

(* The inductive invariant: each safety property above, with what they rest on. *)
IInv ==
    /\ TypeOK /\ RowsAgree /\ ClaimsHeld /\ OneClaimHolder
    /\ OneActiveJob /\ OneOpenRevision /\ DoneLeavesNothingOpen /\ FirstVersionCanMove

(* A job that is done or canceled keeps that status: a late failure, retry or  *)
(* review of a worker that was overtaken never reopens it (jobs.py:419-424).   *)
FinalStatusKept ==
    [][\A j \in Jobs : job[j].status \in {"done", "canceled"}
            => job'[j].status \in {job[j].status, "gone"}]_vars

(* A worker that no longer holds its claim changes no job, no revision and no  *)
(* live requirement, whatever step of the run it is in (jobs.py:299-306).      *)
OvertakenWorkerIsHarmless ==
    [][\A w \in Workers : Busy(w) /\ ~Fenced(w) /\ wk'[w] # wk[w]
            => job' = job /\ rev' = rev /\ \A d \in Docs : doc'[d].live = doc[d].live]_vars

(* A BRD gets requirements only together with the end of the job that stored   *)
(* them, so a cancel never falls between the two, or by an applied revision;   *)
(* and storing never replaces requirements that are live (jobs.py:366, 525).   *)
PublishedWithItsJob ==
    [][\A d \in Docs : doc'[d].live > doc[d].live
            => \/ /\ doc[d].live = 0
                  /\ \E j \in Jobs : job[j].doc = d /\ job[j].status = "running" /\ job'[j].status = "done"
               \/ \E r \in Revs : Open(r) /\ rev[r].doc = d /\ rev'[r].status = "applied"]_vars

(* Every queued or running job stops being so, through crashes, lost leases    *)
(* and retries of transient failures: no job is stuck in the queue.            *)
JobsSettle == \A j \in Jobs : Active(j) ~> ~Active(j)

-----------------------------------------------------------------------------
(* Statements of the code's comments that the code does not keep. *)

(* revise.py:407: no job is left in 'review' without the revision it staged.   *)
ReviewJobHasRevision ==
    \A j \in Jobs : job[j].status = "review" => \E r \in Revs : Open(r) /\ rev[r].job = j

(* api.py:187-189: a BRD left 'processing' has a job that will finish it.      *)
ProcessingCanMove ==
    \A d \in Docs : doc[d].status = "processing"
        => \E j \in Jobs : job[j].doc = d /\ job[j].status \in {"queued", "running", "failed"}

(* jobs.py:397-399: no worker marks a BRD failed while its job is being run.   *)
NotFailedUnderActiveJob ==
    [][\A d \in Docs : doc[d].status = "processing" /\ doc'[d].status = "failed"
            => \A j \in ActiveOn(d) : job[j].mode = "new" => job'[j].status = "canceled"]_vars

-----------------------------------------------------------------------------
(* What the queue promises about a BRD's requirements: BrdPublication.         *)
Promise == INSTANCE BrdPublication
    WITH Brds <- Docs,
         exists <- {d \in Docs : Exists(d)},
         version <- [d \in Docs |-> doc[d].live],
         open <- [d \in Docs |-> {rev[r].base : r \in {q \in Revs : Open(q) /\ rev[q].doc = d}}]

ImplementsPromise == Promise!Spec
=============================================================================
