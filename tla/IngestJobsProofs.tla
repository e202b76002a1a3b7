-------------------------- MODULE IngestJobsProofs --------------------------
(* Proofs about IngestJobs for any set of BRDs, jobs, revisions and workers, *)
(* any attempt budget and any bounds.                                        *)
EXTENDS IngestJobs, TLAPS

-----------------------------------------------------------------------------
(* Type correctness. *)

LEMMA TypeInit == Init => TypeOK
  <1> SUFFICES ASSUME Init PROVE TypeOK
    OBVIOUS
  <1>1. doc \in [Docs -> Doc]
    BY DEF Init, Doc, DocStatus
  <1>2. job \in [Jobs -> Job]
    BY DEF Init, Job, JobStatus
  <1>3. rev \in [Revs -> Rev]
    BY DEF Init, Rev, RevStatus
  <1>4. wk \in [Workers -> Worker]
    BY DEF Init, Worker, PC, Idle
  <1>5. QED
    BY <1>1, <1>2, <1>3, <1>4 DEF Init, TypeOK

(* What the users' transactions write is well typed. *)
LEMMA UserTypes ==
  ASSUME TypeOK, RowsAgree, UserStep
  PROVE  TypeOK'
  <1>1. ASSUME NEW d \in Docs, NEW j \in Jobs, SubmitNew(d, j) PROVE TypeOK'
    <2>1. job' \in [Jobs -> Job]
      BY <1>1, BudgetAssumption DEF SubmitNew, NewJob, TypeOK, Job, JobStatus
    <2>2. doc' \in [Docs -> Doc]
      BY <1>1 DEF SubmitNew, TypeOK, Doc, DocStatus
    <2>3. QED
      BY <1>1, <2>1, <2>2 DEF SubmitNew, TypeOK
  <1>2. ASSUME NEW d \in Docs, NEW j \in Jobs, SubmitRevision(d, j) PROVE TypeOK'
    <2>1. job' \in [Jobs -> Job]
      BY <1>2, BudgetAssumption DEF SubmitRevision, NewJob, TypeOK, Job, JobStatus
    <2>2. QED
      BY <1>2, <2>1 DEF SubmitRevision, TypeOK
  <1>3. ASSUME NEW j \in Jobs, Retry(j) PROVE TypeOK'
    <2>1. job[j] \in Job /\ job[j].attempts + Budget \in Nat
      BY BudgetAssumption DEF TypeOK, Job
    <2>2. RetriedJob(j) \in Job
      BY <2>1 DEF RetriedJob, Job, JobStatus
    <2>3. job' \in [Jobs -> Job]
      BY <1>3, <2>2 DEF Retry, TypeOK
    <2>4. doc' \in [Docs -> Doc]
      BY <1>3 DEF Retry, TypeOK, Doc, DocStatus
    <2>5. QED
      BY <1>3, <2>3, <2>4 DEF Retry, TypeOK
  <1>4. ASSUME NEW j \in Jobs, Cancel(j) PROVE TypeOK'
    <2>1. job' \in [Jobs -> Job]
      BY <1>4 DEF Cancel, TypeOK, Job, JobStatus
    <2>2. doc' \in [Docs -> Doc]
      BY <1>4 DEF Cancel, DocFailed, TypeOK, Doc, DocStatus
    <2>3. QED
      BY <1>4, <2>1, <2>2 DEF Cancel, TypeOK
  <1>5. ASSUME NEW r \in Revs, NEW s \in {"done"} PROVE ReviewEnds(r, s) \in [Jobs -> Job]
    <2>1. CASE job[rev[r].job].status = "review" /\ rev[r].job \in Jobs
      BY <2>1 DEF ReviewEnds, TypeOK, Job, JobStatus
    <2>2. CASE rev[r].job \notin Jobs
      BY <2>2 DEF ReviewEnds, TypeOK
    <2>3. CASE job[rev[r].job].status # "review"
      BY <2>3 DEF ReviewEnds, TypeOK
    <2>4. QED
      BY <2>1, <2>2, <2>3
  <1>6. ASSUME NEW r \in Revs, Open(r) PROVE rev[r].doc \in Docs /\ doc[rev[r].doc].live \in Nat
    BY <1>6 DEF RowsAgree, TypeOK, Doc
  <1>7. ASSUME NEW r \in Revs, Apply(r) PROVE TypeOK'
    <2>1. doc' \in [Docs -> Doc]
      BY <1>6, <1>7 DEF Apply, TypeOK, Doc, DocStatus
    <2>2. rev' \in [Revs -> Rev]
      BY <1>7 DEF Apply, TypeOK, Rev, RevStatus
    <2>3. QED
      BY <1>5, <1>7, <2>1, <2>2 DEF Apply, TypeOK
  <1>8. ASSUME NEW r \in Revs, Discard(r) PROVE TypeOK'
    <2>1. rev' \in [Revs -> Rev]
      BY <1>8 DEF Discard, TypeOK, Rev, RevStatus
    <2>2. QED
      BY <1>5, <1>8, <2>1 DEF Discard, TypeOK
  <1>9. ASSUME NEW r \in Revs, Recompare(r) PROVE TypeOK'
    <2>1. rev' \in [Revs -> Rev]
      BY <1>6, <1>9 DEF Recompare, TypeOK, Rev
    <2>2. QED
      BY <1>9, <2>1 DEF Recompare, TypeOK
  <1>10. ASSUME NEW d \in Docs, DeleteBrd(d) PROVE TypeOK'
    <2>1. doc' \in [Docs -> Doc]
      BY <1>10 DEF DeleteBrd, TypeOK, Doc, DocStatus
    <2>2. job' \in [Jobs -> Job]
      BY <1>10 DEF DeleteBrd, TypeOK, Job, JobStatus
    <2>3. rev' \in [Revs -> Rev]
      BY <1>10 DEF DeleteBrd, TypeOK, Rev, RevStatus
    <2>4. QED
      BY <1>10, <2>1, <2>2, <2>3 DEF DeleteBrd, TypeOK
  <1>11. QED
    BY <1>1, <1>2, <1>3, <1>4, <1>7, <1>8, <1>9, <1>10 DEF UserStep

(* A worker's steps only write well typed rows and local state. *)
LEMMA GotoType ==
  ASSUME TypeOK, NEW w \in Workers, NEW pc \in PC, Goto(w, pc)
  PROVE  wk' \in [Workers -> Worker]
  BY DEF Goto, TypeOK, Worker

LEMMA DoneType ==
  ASSUME TypeOK, NEW w \in Workers, Done(w)
  PROVE  wk' \in [Workers -> Worker]
  BY DEF Done, Idle, TypeOK, Worker, PC

LEMMA StatusType ==
  ASSUME TypeOK, NEW j \in Jobs, NEW s \in JobStatus
  PROVE  [job EXCEPT ![j].status = s] \in [Jobs -> Job]
  BY DEF TypeOK, Job, JobStatus

LEMMA FreshType ==
  ASSUME TypeOK, NEW j \in Jobs, NEW b \in BOOLEAN
  PROVE  [job EXCEPT ![j].fresh = b] \in [Jobs -> Job]
  BY DEF TypeOK, Job

LEMMA ClaimedType ==
  ASSUME NEW row \in Job, NEW n \in Nat
  PROVE  [row EXCEPT !.status = "running", !.attempts = n, !.fresh = TRUE] \in Job
  BY DEF Job, JobStatus

LEMMA FailTerminalType ==
  ASSUME TypeOK, ClaimsHeld, NEW w \in Workers, Busy(w), FailTerminal(w)
  PROVE  TypeOK'
  <1>1. wk[w].job \in Jobs
    BY DEF ClaimsHeld
  <1>2. "failed" \in JobStatus /\ "mark" \in PC
    BY DEF JobStatus, PC
  <1>3. CASE Fenced(w)
    <2>1. job' = [job EXCEPT ![wk[w].job].status = "failed"] /\ Goto(w, "mark")
      BY <1>3 DEF FailTerminal
    <2>2. job' \in [Jobs -> Job] /\ wk' \in [Workers -> Worker]
      BY <1>1, <1>2, <2>1, StatusType, GotoType
    <2>3. QED
      BY <2>2 DEF FailTerminal, TypeOK
  <1>4. CASE ~Fenced(w)
    BY <1>4, DoneType DEF FailTerminal, TypeOK
  <1>5. QED
    BY <1>3, <1>4

LEMMA FailRetryType ==
  ASSUME TypeOK, ClaimsHeld, NEW w \in Workers, Busy(w), FailRetry(w)
  PROVE  TypeOK'
  <1>1. CASE wk[w].token < wk[w].max
    <2>1. wk[w].job \in Jobs
      BY DEF ClaimsHeld
    <2>2. job' \in [Jobs -> Job]
      BY <1>1, <2>1 DEF FailRetry, TypeOK, Job, JobStatus
    <2>3. wk' \in [Workers -> Worker]
      BY <1>1, DoneType DEF FailRetry
    <2>4. QED
      BY <1>1, <2>2, <2>3 DEF FailRetry, TypeOK
  <1>2. CASE ~(wk[w].token < wk[w].max)
    BY <1>2, FailTerminalType DEF FailRetry
  <1>3. QED
    BY <1>1, <1>2

LEMMA StagedType ==
  ASSUME TypeOK, NEW d \in Docs, NEW j \in Jobs, NEW r \in Revs
  PROVE  Staged(d, j, r) \in [Revs -> Rev]
  <1>1. doc[d].live \in Nat
    BY DEF TypeOK, Doc
  <1>2. QED
    BY <1>1 DEF Staged, TypeOK, Rev, RevStatus

LEMMA ProgressTypes ==
  ASSUME TypeOK, RowsAgree, ClaimsHeld, NEW w \in Workers, Progress(w)
  PROVE  TypeOK'
  <1>1. Busy(w)
    BY DEF Progress, GiveUp, Begin, BadDocument, Outage, StoreNew, Compare, RecordReview,
           CanceledHandler, MarkDocFailed, Busy
  <1>2. wk[w].job \in Jobs /\ job[wk[w].job].doc \in Docs
    BY <1>1 DEF ClaimsHeld, RowsAgree
  <1> DEFINE j == wk[w].job
             d == job[j].doc
  <1>3. CASE GiveUp(w) \/ BadDocument(w) \/ Outage(w)
    BY <1>1, <1>3, FailTerminalType, FailRetryType DEF GiveUp, BadDocument, Outage
  <1>4. CASE Begin(w)
    <2>1. wk' \in [Workers -> Worker]
      BY <1>4 DEF Begin, Goto, TypeOK, Worker, PC
    <2>2. QED
      BY <1>4, <2>1 DEF Begin, TypeOK
  <1>5. CASE StoreNew(w)
    <2>1. job' \in [Jobs -> Job]
      BY <1>2, <1>5, StatusType DEF StoreNew, JobStatus, TypeOK
    <2>2. doc' \in [Docs -> Doc]
      BY <1>2, <1>5 DEF StoreNew, TypeOK, Doc, DocStatus
    <2>3. wk' \in [Workers -> Worker]
      BY <1>5, DoneType, GotoType DEF StoreNew, PC
    <2>4. QED
      BY <1>5, <2>1, <2>2, <2>3 DEF StoreNew, TypeOK
  <1>6. ASSUME NEW r \in Revs, Compare(w, r) PROVE TypeOK'
    <2>1. job' \in [Jobs -> Job]
      BY <1>6 DEF Compare, TypeOK, Job, JobStatus
    <2>2. rev' \in [Revs -> Rev]
      BY <1>2, <1>6, StagedType DEF Compare, TypeOK
    <2>3. wk' \in [Workers -> Worker]
      BY <1>6, GotoType DEF Compare, PC
    <2>4. QED
      BY <1>6, <2>1, <2>2, <2>3 DEF Compare, TypeOK
  <1>7. CASE RecordReview(w)
    <2>1. job' \in [Jobs -> Job]
      BY <1>2, <1>7, StatusType DEF RecordReview, JobStatus, TypeOK
    <2>2. QED
      BY <1>7, <2>1, DoneType DEF RecordReview, TypeOK
  <1>8. CASE CanceledHandler(w)
    <2>1. wk' \in [Workers -> Worker]
      BY <1>8, DoneType, GotoType DEF CanceledHandler, PC
    <2>2. QED
      BY <1>8, <2>1 DEF CanceledHandler, TypeOK
  <1>9. CASE MarkDocFailed(w)
    <2>1. doc' \in [Docs -> Doc]
      BY <1>2, <1>9 DEF MarkDocFailed, DocFailed, TypeOK, Doc, DocStatus
    <2>2. QED
      BY <1>9, <2>1, DoneType DEF MarkDocFailed, TypeOK
  <1>10. QED
    BY <1>3, <1>4, <1>5, <1>6, <1>7, <1>8, <1>9 DEF Progress

LEMMA TypeStep ==
  ASSUME TypeOK, RowsAgree, ClaimsHeld, [Next]_vars
  PROVE  TypeOK'
  <1>1. ASSUME NEW w \in Workers, NEW j \in Jobs, Claim(w, j) PROVE TypeOK'
    <2>1. job[j] \in Job /\ job[j].attempts + 1 \in Nat
      BY DEF TypeOK, Job
    <2>2. ClaimedJob(j) \in Job
      BY <2>1, ClaimedType DEF ClaimedJob
    <2>3. job' \in [Jobs -> Job]
      BY <1>1, <2>2 DEF Claim, TypeOK
    <2>4. wk' \in [Workers -> Worker]
      BY <1>1, <2>1 DEF Claim, TypeOK, Worker, PC, Job
    <2>5. QED
      BY <1>1, <2>3, <2>4 DEF Claim, TypeOK
  <1>2. ASSUME NEW w \in Workers, Heartbeat(w) PROVE TypeOK'
    <2>1. wk[w].job \in Jobs
      BY <1>2 DEF Heartbeat, Busy, ClaimsHeld
    <2>2. job' \in [Jobs -> Job]
      <3>1. CASE Fenced(w)
        BY <1>2, <2>1, <3>1, FreshType DEF Heartbeat
      <3>2. CASE ~Fenced(w)
        BY <1>2, <3>2 DEF Heartbeat, TypeOK
      <3>3. QED
        BY <3>1, <3>2
    <2>3. wk' \in [Workers -> Worker]
      BY <1>2, GotoType DEF Heartbeat, PC, TypeOK
    <2>4. QED
      BY <1>2, <2>2, <2>3 DEF Heartbeat, TypeOK
  <1>3. ASSUME NEW w \in Workers, Crash(w) \/ Abandon(w) PROVE TypeOK'
    <2>1. wk' \in [Workers -> Worker]
      BY <1>3 DEF Crash, Abandon, Done, Idle, TypeOK, Worker, PC
    <2>2. QED
      BY <1>3, <2>1 DEF Crash, Abandon, TypeOK
  <1>4. ASSUME NEW w \in Workers, Boot(w) PROVE TypeOK'
    <2>1. doc' \in [Docs -> Doc]
      BY <1>4 DEF Boot, TypeOK, Doc, DocStatus
    <2>2. QED
      BY <1>4, <2>1, DoneType DEF Boot, TypeOK
  <1>5. ASSUME NEW j \in Jobs, LeaseExpires(j) PROVE TypeOK'
    <2>1. job' \in [Jobs -> Job]
      BY <1>5 DEF LeaseExpires, TypeOK, Job
    <2>2. QED
      BY <1>5, <2>1 DEF LeaseExpires, TypeOK
  <1>6. CASE UNCHANGED vars
    BY <1>6 DEF vars, TypeOK
  <1>7. QED
    BY <1>1, <1>2, <1>3, <1>4, <1>5, <1>6, UserTypes, ProgressTypes DEF Next

-----------------------------------------------------------------------------
(* Most steps leave in place what the invariants rest on; these say what.      *)

KeepsJobs ==
    \A j \in Jobs : /\ job'[j].doc = job[j].doc
                    /\ job'[j].mode = job[j].mode
                    /\ job'[j].attempts >= job[j].attempts
                    /\ job'[j].status = "none" <=> job[j].status = "none"
                    /\ job'[j].status = "gone" <=> job[j].status = "gone"
                    /\ job[j].status \in {"done", "canceled"} => job'[j].status = job[j].status
StartsNoJob == \A j \in Jobs : Active(j)' => Active(j)
EndsCleanly ==
    \A j \in Jobs : job'[j].status = "done" /\ job[j].status # "done"
        => job[j].mode = "new" \/ \A r \in Revs : Open(r)' => rev'[r].job # j

Unstored(d) == doc[d].status = "processing" /\ doc[d].live = 0
Movable(j)  == job[j].mode = "new" /\ job[j].status \in {"queued", "running", "failed"}
KeepsMoving == \A j \in Jobs : Movable(j) => Movable(j)' \/ ~Unstored(job[j].doc)'
JobsQuiet   == KeepsJobs /\ StartsNoJob /\ EndsCleanly /\ KeepsMoving

KeepsDocs ==
    \A d \in Docs : /\ Exists(d)' <=> Exists(d)
                    /\ ~Exists(d) => doc'[d].live = doc[d].live
                    /\ Unstored(d)' => Unstored(d)
OpensNoRev  == \A r \in Revs : Open(r)' => Open(r) /\ rev'[r].doc = rev[r].doc /\ rev'[r].job = rev[r].job
KeepsClaims ==
    \A w \in Workers : Busy(w)' => /\ Busy(w)
                                   /\ wk'[w].job = wk[w].job
                                   /\ wk'[w].token = wk[w].token
                                   /\ wk'[w].pc = "staged" => wk[w].pc = "staged"
Quiet == JobsQuiet /\ KeepsDocs /\ OpensNoRev /\ KeepsClaims

(* Ending a job's run, or writing its lease, is quiet for the job rows.          *)
LEMMA StatusKeeps ==
  ASSUME TypeOK, NEW j \in Jobs, NEW s \in {"review", "done", "failed", "canceled"},
         job[j].status \in {"queued", "running", "review"},
         job' = [job EXCEPT ![j].status = s]
  PROVE  KeepsJobs /\ StartsNoJob
  BY DEF KeepsJobs, StartsNoJob, Active, TypeOK, Job

LEMMA FailedKeeps ==
  ASSUME TypeOK, NEW j \in Jobs, job[j].status = "running",
         job' = [job EXCEPT ![j].status = "failed"]
  PROVE  JobsQuiet
  <1>1. EndsCleanly /\ KeepsMoving
    BY DEF EndsCleanly, KeepsMoving, Movable, TypeOK, Job
  <1>2. QED
    BY <1>1, StatusKeeps DEF JobsQuiet

LEMMA FreshKeeps ==
  ASSUME TypeOK, NEW j \in Jobs, NEW b, job' = [job EXCEPT ![j].fresh = b]
  PROVE  JobsQuiet
  BY DEF JobsQuiet, KeepsJobs, StartsNoJob, EndsCleanly, KeepsMoving, Movable, Active, TypeOK, Job

LEMMA SameJobsKeep ==
  ASSUME TypeOK, job' = job
  PROVE  JobsQuiet
  BY DEF JobsQuiet, KeepsJobs, StartsNoJob, EndsCleanly, KeepsMoving, Movable, Active, TypeOK, Job

LEMMA StoredKeeps ==
  ASSUME TypeOK, NEW j \in Jobs, NEW d \in Docs, job[j].mode = "new", job[j].doc = d, ~Unstored(d)',
         job' = [job EXCEPT ![j].status = "done"]
  PROVE  EndsCleanly /\ KeepsMoving
  <1>1. \A i \in Jobs : i # j => job'[i] = job[i]
    BY DEF TypeOK
  <1>2. job'[j].doc = d
    BY DEF TypeOK, Job
  <1>3. QED
    BY <1>1, <1>2 DEF EndsCleanly, KeepsMoving, Movable

(* Moving a worker on, or ending its run, takes no new claim.                   *)
LEMMA GotoKeeps ==
  ASSUME TypeOK, NEW w \in Workers, NEW pc \in PC \ {"staged"}, Busy(w), Goto(w, pc)
  PROVE  KeepsClaims
  BY DEF KeepsClaims, Goto, Busy, TypeOK, Worker

LEMMA DoneKeeps ==
  ASSUME TypeOK, NEW w \in Workers, Done(w)
  PROVE  KeepsClaims
  BY DEF KeepsClaims, Done, Idle, Busy, TypeOK, Worker

LEMMA SameClaims ==
  ASSUME TypeOK, wk' = wk
  PROVE  KeepsClaims
  BY DEF KeepsClaims, Busy

LEMMA SameRevs ==
  ASSUME rev' = rev
  PROVE  OpensNoRev
  BY DEF OpensNoRev, Open

LEMMA SameDocs ==
  ASSUME doc' = doc
  PROVE  KeepsDocs
  BY DEF KeepsDocs, Exists, Unstored

LEMMA DocFailedKeeps ==
  ASSUME TypeOK, NEW d \in Docs, doc' = DocFailed(d)
  PROVE  KeepsDocs
  BY DEF KeepsDocs, Exists, Unstored, DocFailed, TypeOK, Doc

LEMMA FailTerminalQuiet ==
  ASSUME TypeOK, ClaimsHeld, NEW w \in Workers, Busy(w), FailTerminal(w)
  PROVE  Quiet
  <1>1. wk[w].job \in Jobs
    BY DEF ClaimsHeld
  <1>2. JobsQuiet
    <2>1. CASE Fenced(w)
      BY <1>1, <2>1, FailedKeeps DEF FailTerminal, Fenced
    <2>2. CASE ~Fenced(w)
      BY <2>2, SameJobsKeep DEF FailTerminal
    <2>3. QED
      BY <2>1, <2>2
  <1>3. KeepsClaims
    <2>1. "mark" \in PC \ {"staged"}
      BY DEF PC
    <2>2. QED
      BY <2>1, GotoKeeps, DoneKeeps DEF FailTerminal
  <1>4. QED
    BY <1>2, <1>3, SameDocs, SameRevs DEF FailTerminal, Quiet

LEMMA FailRetryQuiet ==
  ASSUME TypeOK, ClaimsHeld, NEW w \in Workers, Busy(w), FailRetry(w)
  PROVE  Quiet
  <1>1. CASE wk[w].token < wk[w].max
    <2>1. wk[w].job \in Jobs
      BY DEF ClaimsHeld
    <2>2. JobsQuiet
      <3>1. CASE Fenced(w)
        <4>1. job' = [job EXCEPT ![wk[w].job].status = "queued", ![wk[w].job].fresh = FALSE]
          BY <1>1, <3>1 DEF FailRetry
        <4>2. KeepsJobs /\ StartsNoJob
          BY <2>1, <3>1, <4>1 DEF Fenced, KeepsJobs, StartsNoJob, Active, TypeOK, Job
        <4>3. EndsCleanly /\ KeepsMoving
          BY <2>1, <4>1 DEF EndsCleanly, KeepsMoving, Movable, TypeOK, Job
        <4>4. QED
          BY <4>2, <4>3 DEF JobsQuiet
      <3>2. CASE ~Fenced(w)
        BY <1>1, <3>2, SameJobsKeep DEF FailRetry
      <3>3. QED
        BY <3>1, <3>2
    <2>3. QED
      BY <1>1, <2>2, DoneKeeps, SameDocs, SameRevs DEF FailRetry, Quiet
  <1>2. CASE ~(wk[w].token < wk[w].max)
    BY <1>2, FailTerminalQuiet DEF FailRetry
  <1>3. QED
    BY <1>1, <1>2

LEMMA StoreNewQuiet ==
  ASSUME TypeOK, RowsAgree, ClaimsHeld, NEW w \in Workers, StoreNew(w)
  PROVE  Quiet
  <1>1. Busy(w)
    BY DEF StoreNew, Busy
  <1>2. wk[w].job \in Jobs /\ job[wk[w].job].doc \in Docs
    BY <1>1 DEF ClaimsHeld, RowsAgree
  <1>3. CASE Fenced(w) /\ Exists(job[wk[w].job].doc)
    <2>1. job' = [job EXCEPT ![wk[w].job].status = "done"] /\ Done(w) /\ rev' = rev
      BY <1>3 DEF StoreNew
    <2>2. KeepsJobs /\ StartsNoJob
      BY <1>2, <1>3, <2>1, StatusKeeps DEF Fenced
    <2>3. PICK d \in Docs : d = job[wk[w].job].doc
      BY <1>2
    <2>4. KeepsDocs /\ ~Unstored(d)'
      <3>1. CASE doc[d].status = "ready" \/ doc[d].live # 0
        BY <1>3, <2>3, <3>1, SameDocs DEF StoreNew, Unstored
      <3>2. CASE ~(doc[d].status = "ready" \/ doc[d].live # 0)
        <4>1. doc' = [doc EXCEPT ![d] = [status |-> "ready", live |-> @.live + 1]]
          BY <1>3, <2>3, <3>2 DEF StoreNew
        <4>2. QED
          BY <1>3, <2>3, <4>1 DEF KeepsDocs, Exists, Unstored, TypeOK, Doc
      <3>3. QED
        BY <3>1, <3>2
    <2>5. EndsCleanly /\ KeepsMoving
      <3>1. job[wk[w].job].mode = "new"
        BY DEF StoreNew
      <3>2. QED
        BY <1>2, <2>1, <2>3, <2>4, <3>1, StoredKeeps
    <2>6. QED
      BY <2>1, <2>2, <2>4, <2>5, DoneKeeps, SameRevs DEF Quiet, JobsQuiet
  <1>4. CASE ~(Fenced(w) /\ Exists(job[wk[w].job].doc))
    <2>1. Goto(w, "handler") /\ doc' = doc /\ job' = job /\ rev' = rev
      BY <1>4 DEF StoreNew
    <2>2. "handler" \in PC \ {"staged"}
      BY DEF PC
    <2>3. KeepsClaims
      BY <1>1, <2>1, <2>2, GotoKeeps
    <2>4. QED
      BY <2>1, <2>3, SameJobsKeep, SameDocs, SameRevs DEF Quiet
  <1>5. QED
    BY <1>3, <1>4

(* Every step of a run but the one that stages a revision.                     *)
LEMMA ProgressQuiet ==
  ASSUME TypeOK, RowsAgree, ClaimsHeld, NEW w \in Workers, Progress(w), \A r \in Revs : ~Compare(w, r)
  PROVE  Quiet
  <1>1. Busy(w)
    BY DEF Progress, GiveUp, Begin, BadDocument, Outage, StoreNew, RecordReview,
           CanceledHandler, MarkDocFailed, Busy
  <1>2. wk[w].job \in Jobs /\ job[wk[w].job].doc \in Docs
    BY <1>1 DEF ClaimsHeld, RowsAgree
  <1>3. {"work", "handler", "mark"} \subseteq PC \ {"staged"}
    BY DEF PC
  <1>4. CASE GiveUp(w) \/ BadDocument(w) \/ Outage(w)
    BY <1>1, <1>4, FailTerminalQuiet, FailRetryQuiet DEF GiveUp, BadDocument, Outage
  <1>5. CASE Begin(w)
    <2>1. KeepsClaims
      BY <1>1, <1>3, <1>5, GotoKeeps DEF Begin
    <2>2. QED
      BY <1>5, <2>1, SameJobsKeep, SameDocs, SameRevs DEF Begin, Quiet
  <1>6. CASE StoreNew(w)
    BY <1>6, StoreNewQuiet
  <1>7. CASE RecordReview(w)
    <2>1. JobsQuiet
      <3>1. CASE Fenced(w)
        <4>1. job' = [job EXCEPT ![wk[w].job].status = "review"]
          BY <1>7, <3>1 DEF RecordReview
        <4>2. job[wk[w].job].mode = "revision"
          BY <1>1, <1>7 DEF RecordReview, ClaimsHeld
        <4>3. EndsCleanly /\ KeepsMoving
          BY <1>2, <4>1, <4>2 DEF EndsCleanly, KeepsMoving, Movable, TypeOK, Job
        <4>4. QED
          BY <1>2, <3>1, <4>1, <4>3, StatusKeeps DEF Fenced, JobsQuiet
      <3>2. CASE ~Fenced(w)
        BY <1>7, <3>2, SameJobsKeep DEF RecordReview
      <3>3. QED
        BY <3>1, <3>2
    <2>2. QED
      BY <1>7, <2>1, DoneKeeps, SameDocs, SameRevs DEF RecordReview, Quiet
  <1>8. CASE CanceledHandler(w)
    <2>1. KeepsClaims
      BY <1>1, <1>3, <1>8, GotoKeeps, DoneKeeps DEF CanceledHandler
    <2>2. QED
      BY <1>8, <2>1, SameJobsKeep, SameDocs, SameRevs DEF CanceledHandler, Quiet
  <1>9. CASE MarkDocFailed(w)
    <2>1. KeepsDocs
      BY <1>2, <1>9, DocFailedKeeps, SameDocs DEF MarkDocFailed
    <2>2. QED
      BY <1>9, <2>1, DoneKeeps, SameJobsKeep, SameRevs DEF MarkDocFailed, Quiet
  <1>10. QED
    BY <1>4, <1>5, <1>6, <1>7, <1>8, <1>9 DEF Progress

LEMMA HeartbeatQuiet ==
  ASSUME TypeOK, ClaimsHeld, NEW w \in Workers, Heartbeat(w)
  PROVE  Quiet
  <1>1. Busy(w) /\ wk[w].job \in Jobs
    BY DEF Heartbeat, Busy, ClaimsHeld
  <1>2. CASE Fenced(w)
    BY <1>1, <1>2, FreshKeeps, SameClaims, SameDocs, SameRevs DEF Heartbeat, Quiet
  <1>3. CASE ~Fenced(w)
    <2>1. "handler" \in PC \ {"staged"}
      BY DEF PC
    <2>2. KeepsClaims
      BY <1>1, <1>3, <2>1, GotoKeeps DEF Heartbeat
    <2>3. QED
      BY <1>3, <2>2, SameJobsKeep, SameDocs, SameRevs DEF Heartbeat, Quiet
  <1>4. QED
    BY <1>2, <1>3

LEMMA EnvironmentQuiet ==
  ASSUME TypeOK, NEW w \in Workers, Crash(w) \/ Abandon(w) \/ Boot(w)
  PROVE  Quiet
  <1>1. CASE Crash(w)
    <2>1. KeepsClaims
      BY <1>1 DEF Crash, KeepsClaims, Busy, TypeOK, Worker, Idle
    <2>2. QED
      BY <1>1, <2>1, SameJobsKeep, SameDocs, SameRevs DEF Crash, Quiet
  <1>2. CASE Abandon(w)
    BY <1>2, DoneKeeps, SameJobsKeep, SameDocs, SameRevs DEF Abandon, Quiet
  <1>3. CASE Boot(w)
    <2>1. KeepsDocs
      BY <1>3 DEF Boot, KeepsDocs, Exists, Unstored, TypeOK, Doc
    <2>2. QED
      BY <1>3, <2>1, DoneKeeps, SameJobsKeep, SameRevs DEF Boot, Quiet
  <1>4. QED
    BY <1>1, <1>2, <1>3

LEMMA LeaseExpiresQuiet ==
  ASSUME TypeOK, NEW j \in Jobs, LeaseExpires(j)
  PROVE  Quiet
  BY FreshKeeps, SameClaims, SameDocs, SameRevs DEF LeaseExpires, Quiet

LEMMA ReviewEndsKeeps ==
  ASSUME TypeOK, RowsAgree, OneOpenRevision, NEW r \in Revs, Open(r),
         job' = ReviewEnds(r, "done"), OpensNoRev, ~Open(r)'
  PROVE  JobsQuiet
  <1>1. rev[r].job \in Jobs /\ job[rev[r].job].doc = rev[r].doc
    BY DEF RowsAgree
  <1>2. CASE job[rev[r].job].status = "review"
    <2>1. job' = [job EXCEPT ![rev[r].job].status = "done"]
      BY <1>2 DEF ReviewEnds
    <2>2. ASSUME NEW q \in Revs, Open(q)' PROVE rev'[q].job # rev[r].job
      <3>1. Open(q) /\ q # r /\ rev'[q].job = rev[q].job
        BY <2>2 DEF OpensNoRev
      <3>2. rev[q].doc # rev[r].doc /\ job[rev[q].job].doc = rev[q].doc
        BY <3>1 DEF OneOpenRevision, RowsAgree
      <3>3. QED
        BY <1>1, <3>1, <3>2
    <2>3. EndsCleanly
      BY <1>1, <2>1, <2>2 DEF EndsCleanly, TypeOK, Job
    <2>4. KeepsMoving
      BY <1>1, <1>2, <2>1 DEF KeepsMoving, Movable, TypeOK, Job
    <2>5. QED
      BY <1>1, <1>2, <2>1, <2>3, <2>4, StatusKeeps DEF JobsQuiet
  <1>3. CASE job[rev[r].job].status # "review"
    BY <1>3, SameJobsKeep DEF ReviewEnds
  <1>4. QED
    BY <1>2, <1>3

LEMMA CancelQuiet ==
  ASSUME TypeOK, RowsAgree, NEW j \in Jobs, Cancel(j)
  PROVE  Quiet
  <1>1. KeepsJobs /\ StartsNoJob
    BY StatusKeeps DEF Cancel, Active
  <1>2. job[j].doc \in Docs
    BY DEF Cancel, Active, RowsAgree
  <1>3. KeepsDocs
    BY <1>2, DocFailedKeeps, SameDocs DEF Cancel
  <1>4. job[j].mode = "new" => ~Unstored(job[j].doc)'
    BY <1>2 DEF Cancel, DocFailed, Unstored, TypeOK, Doc
  <1>5. EndsCleanly /\ KeepsMoving
    BY <1>4 DEF Cancel, EndsCleanly, KeepsMoving, Movable, TypeOK, Job
  <1>6. QED
    BY <1>1, <1>3, <1>5, SameRevs, SameClaims DEF Cancel, Quiet, JobsQuiet

LEMMA RevisionQuiet ==
  ASSUME TypeOK, RowsAgree, OneOpenRevision, NEW r \in Revs, Apply(r) \/ Discard(r) \/ Recompare(r)
  PROVE  Quiet
  <1>1. Open(r) /\ rev[r].doc \in Docs /\ rev[r].job \in Jobs /\ Exists(rev[r].doc)
    BY DEF Apply, Discard, Recompare, RowsAgree
  <1>2. OpensNoRev /\ (~Recompare(r) => ~Open(r)')
    BY <1>1 DEF Apply, Discard, Recompare, OpensNoRev, Open, TypeOK, Rev
  <1>3. JobsQuiet
    BY <1>1, <1>2, ReviewEndsKeeps, SameJobsKeep DEF Apply, Discard, Recompare
  <1>4. KeepsDocs
    <2>1. CASE Apply(r)
      BY <1>1, <2>1 DEF Apply, KeepsDocs, Exists, Unstored, TypeOK, Doc
    <2>2. CASE Discard(r) \/ Recompare(r)
      BY <2>2, SameDocs DEF Discard, Recompare
    <2>3. QED
      BY <2>1, <2>2
  <1>5. QED
    BY <1>2, <1>3, <1>4, SameClaims DEF Apply, Discard, Recompare, Quiet

LEMMA StutterQuiet ==
  ASSUME TypeOK, UNCHANGED vars
  PROVE  Quiet
  BY SameJobsKeep, SameDocs, SameRevs, SameClaims DEF vars, Quiet

(* Every step inserts a job or a row's "gone", claims a job or stages a        *)
(* revision, or is quiet.                                                      *)
LEMMA StepCases ==
  ASSUME TypeOK, RowsAgree, ClaimsHeld, OneOpenRevision, [Next]_vars
  PROVE  \/ \E d \in Docs, j \in Jobs : SubmitNew(d, j) \/ SubmitRevision(d, j)
         \/ \E j \in Jobs : Retry(j)
         \/ \E d \in Docs : DeleteBrd(d)
         \/ \E w \in Workers, j \in Jobs : Claim(w, j)
         \/ \E w \in Workers, r \in Revs : Compare(w, r)
         \/ Quiet
  <1>1. CASE UNCHANGED vars
    BY <1>1, StutterQuiet
  <1>2. CASE UserStep
    BY <1>2, CancelQuiet, RevisionQuiet DEF UserStep
  <1>3. ASSUME NEW w \in Workers, Progress(w) PROVE Quiet \/ \E r \in Revs : Compare(w, r)
    BY <1>3, ProgressQuiet
  <1>4. ASSUME NEW w \in Workers, Heartbeat(w) PROVE Quiet
    BY <1>4, HeartbeatQuiet
  <1>5. ASSUME NEW w \in Workers, Crash(w) \/ Abandon(w) \/ Boot(w) PROVE Quiet
    BY <1>5, EnvironmentQuiet
  <1>6. ASSUME NEW j \in Jobs, LeaseExpires(j) PROVE Quiet
    BY <1>6, LeaseExpiresQuiet
  <1>7. QED
    BY <1>1, <1>2, <1>3, <1>4, <1>5, <1>6 DEF Next

-----------------------------------------------------------------------------
(* Quiet steps preserve the structural invariants. *)

LEMMA QuietRows ==
  ASSUME TypeOK, RowsAgree, Quiet
  PROVE  RowsAgree'
  BY DEF RowsAgree, Quiet, JobsQuiet, KeepsJobs, KeepsDocs, OpensNoRev

LEMMA QuietClaims ==
  ASSUME TypeOK, TypeOK', RowsAgree, ClaimsHeld, OneClaimHolder, Quiet
  PROVE  ClaimsHeld' /\ OneClaimHolder'
  <1>1. ClaimsHeld'
    <2> SUFFICES ASSUME NEW w \in Workers, Busy(w)'
                 PROVE  /\ wk'[w].job \in Jobs
                        /\ job'[wk'[w].job].status # "none"
                        /\ wk'[w].token <= job'[wk'[w].job].attempts
                        /\ wk'[w].pc = "staged" => job'[wk'[w].job].mode = "revision"
      BY DEF ClaimsHeld
    <2>1. /\ Busy(w) /\ wk'[w].job = wk[w].job /\ wk'[w].token = wk[w].token
          /\ wk'[w].pc = "staged" => wk[w].pc = "staged"
      BY DEF Quiet, KeepsClaims
    <2>2. /\ wk[w].job \in Jobs /\ job[wk[w].job].status # "none"
          /\ wk[w].token <= job[wk[w].job].attempts
          /\ wk[w].pc = "staged" => job[wk[w].job].mode = "revision"
      BY <2>1 DEF ClaimsHeld
    <2>3. /\ job'[wk[w].job].attempts >= job[wk[w].job].attempts
          /\ job'[wk[w].job].mode = job[wk[w].job].mode
          /\ job'[wk[w].job].status # "none"
      BY <2>2 DEF Quiet, JobsQuiet, KeepsJobs
    <2>4. wk[w].token \in Nat /\ job[wk[w].job].attempts \in Nat /\ job'[wk[w].job].attempts \in Nat
      BY <2>2 DEF TypeOK, Job, Worker
    <2>5. QED
      BY <2>1, <2>2, <2>3, <2>4
  <1>2. OneClaimHolder'
    BY DEF OneClaimHolder, Quiet, KeepsClaims
  <1>3. QED
    BY <1>1, <1>2

LEMMA QuietOneActive ==
  ASSUME OneActiveJob, Quiet
  PROVE  OneActiveJob'
  BY DEF OneActiveJob, Quiet, JobsQuiet, KeepsJobs, StartsNoJob

LEMMA QuietOneOpen ==
  ASSUME OneOpenRevision, Quiet
  PROVE  OneOpenRevision'
  BY DEF OneOpenRevision, Quiet, OpensNoRev

LEMMA QuietDone ==
  ASSUME RowsAgree, DoneLeavesNothingOpen, Quiet
  PROVE  DoneLeavesNothingOpen'
  BY DEF DoneLeavesNothingOpen, RowsAgree, Quiet, JobsQuiet, KeepsJobs, EndsCleanly, OpensNoRev

LEMMA QuietFirst ==
  ASSUME FirstVersionCanMove, Quiet
  PROVE  FirstVersionCanMove'
  BY DEF FirstVersionCanMove, Unstored, Movable, Quiet, JobsQuiet, KeepsJobs, KeepsMoving, KeepsDocs

LEMMA QuietStep ==
  ASSUME IInv, TypeOK', Quiet
  PROVE  IInv'
  BY QuietRows, QuietClaims, QuietOneActive, QuietOneOpen, QuietDone, QuietFirst DEF IInv

-----------------------------------------------------------------------------
(* The other steps: they insert, claim, stage or delete. *)

(* Inserting a job leaves the other jobs alone and is the BRD's only active one. *)
LEMMA NewJobRows ==
  ASSUME TypeOK, NEW d \in Docs, NEW j \in Jobs, NEW m, NewJob(j, d, m)
  PROVE  /\ job'[j].status = "queued" /\ job'[j].mode = m /\ job'[j].doc = d /\ job'[j].attempts = 0
         /\ \A i \in Jobs : i # j => job'[i] = job[i]
         /\ job[j].status = "none"
  BY DEF NewJob, TypeOK

LEMMA NewJobActive ==
  ASSUME TypeOK, OneActiveJob, NEW d \in Docs, NEW j \in Jobs, NEW m, NewJob(j, d, m)
  PROVE  OneActiveJob'
  <1>1. \A i \in Jobs : i # j /\ Active(i)' => job'[i] = job[i] /\ Active(i) /\ job'[i].doc # d
    BY NewJobRows DEF NewJob, ActiveOn, Active
  <1>2. job'[j].doc = d
    BY NewJobRows
  <1>3. QED
    BY <1>1, <1>2 DEF OneActiveJob

LEMMA NewJobClaims ==
  ASSUME TypeOK, ClaimsHeld, OneClaimHolder, NEW d \in Docs, NEW j \in Jobs, NEW m, NewJob(j, d, m), wk' = wk
  PROVE  ClaimsHeld' /\ OneClaimHolder'
  <1>1. \A w \in Workers : Busy(w) => wk[w].job # j
    BY NewJobRows DEF ClaimsHeld
  <1>2. ClaimsHeld'
    BY <1>1, NewJobRows DEF ClaimsHeld, Busy
  <1>3. OneClaimHolder'
    BY DEF OneClaimHolder, Busy
  <1>4. QED
    BY <1>2, <1>3

LEMMA NewJobRevs ==
  ASSUME TypeOK, RowsAgree, OneOpenRevision, DoneLeavesNothingOpen,
         NEW d \in Docs, NEW j \in Jobs, NEW m, NewJob(j, d, m), rev' = rev
  PROVE  OneOpenRevision' /\ DoneLeavesNothingOpen'
  <1>1. OneOpenRevision'
    BY DEF OneOpenRevision, Open
  <1>2. \A r \in Revs : Open(r) => rev[r].job # j /\ rev[r].job \in Jobs
    BY NewJobRows DEF RowsAgree
  <1>3. DoneLeavesNothingOpen'
    BY <1>2, NewJobRows DEF DoneLeavesNothingOpen, Open
  <1>4. QED
    BY <1>1, <1>3

LEMMA SubmitNewStep ==
  ASSUME IInv, TypeOK', NEW d \in Docs, NEW j \in Jobs, SubmitNew(d, j)
  PROVE  IInv'
  <1>1. NewJob(j, d, "new") /\ wk' = wk /\ rev' = rev /\ doc[d].status = "none"
    BY DEF SubmitNew
  <1>2. /\ doc'[d].status = "processing" /\ doc'[d].live = doc[d].live
        /\ \A e \in Docs : e # d => doc'[e] = doc[e]
    BY DEF SubmitNew, IInv, TypeOK, Doc
  <1>3. Exists(d)' /\ \A e \in Docs : Exists(e) => Exists(e)'
    BY <1>1, <1>2 DEF Exists
  <1>4. RowsAgree'
    <2>1. \A i \in Jobs : job'[i].status # "none" => job'[i].doc \in Docs
      BY <1>1, NewJobRows DEF IInv, RowsAgree
    <2>2. \A i \in Jobs : job'[i].status \notin {"none", "gone"} => doc'[job'[i].doc].status \notin {"none", "gone"}
      <3>1. \A i \in Jobs : i # j /\ job'[i].status \notin {"none", "gone"}
                => job'[i].doc \in Docs /\ Exists(job'[i].doc)
        BY <1>1, NewJobRows DEF IInv, RowsAgree
      <3>2. job'[j].doc = d
        BY <1>1, NewJobRows DEF IInv
      <3>3. QED
        BY <1>3, <3>1, <3>2 DEF Exists
    <2>3. \A r \in Revs : Open(r) => rev[r].job # j /\ job'[rev[r].job] = job[rev[r].job]
      BY <1>1, NewJobRows DEF IInv, RowsAgree
    <2>4. \A e \in Docs : ~Exists(e)' => doc'[e].live = 0
      BY <1>2, <1>3 DEF IInv, RowsAgree, Exists
    <2>5. QED
      BY <1>1, <2>1, <2>2, <2>3, <2>4 DEF IInv, RowsAgree, Open, Exists
  <1>5. FirstVersionCanMove'
    <2>1. \A e \in Docs : e # d /\ Unstored(e)' => Unstored(e)
      BY <1>2 DEF Unstored
    <2>2. \A i \in Jobs : Movable(i) => i # j /\ job'[i] = job[i]
      BY <1>1, NewJobRows DEF IInv, Movable
    <2>3. Movable(j)' /\ job'[j].doc = d
      BY <1>1, NewJobRows DEF IInv, Movable
    <2>4. QED
      BY <2>1, <2>2, <2>3 DEF IInv, FirstVersionCanMove, Unstored, Movable
  <1>6. QED
    BY <1>1, <1>4, <1>5, NewJobActive, NewJobClaims, NewJobRevs DEF IInv

LEMMA SubmitRevisionStep ==
  ASSUME IInv, TypeOK', NEW d \in Docs, NEW j \in Jobs, SubmitRevision(d, j)
  PROVE  IInv'
  <1>1. NewJob(j, d, "revision") /\ wk' = wk /\ rev' = rev /\ doc' = doc /\ Exists(d)
    BY DEF SubmitRevision
  <1>2. RowsAgree'
    <2>1. \A r \in Revs : Open(r) => rev[r].job # j
      BY <1>1, NewJobRows DEF IInv, RowsAgree
    <2>2. \A i \in Jobs : i # j => job'[i] = job[i]
      BY <1>1, NewJobRows DEF IInv
    <2>3. job'[j].doc = d
      BY <1>1, NewJobRows DEF IInv
    <2>4. QED
      BY <1>1, <2>1, <2>2, <2>3 DEF IInv, RowsAgree, Open, Exists
  <1>3. FirstVersionCanMove'
    <2>1. \A i \in Jobs : Movable(i) => i # j /\ job'[i] = job[i]
      BY <1>1, NewJobRows DEF IInv, Movable
    <2>2. QED
      BY <1>1, <2>1 DEF IInv, FirstVersionCanMove, Movable
  <1>4. QED
    BY <1>1, <1>2, <1>3, NewJobActive, NewJobClaims, NewJobRevs DEF IInv

LEMMA RetryStep ==
  ASSUME IInv, TypeOK', NEW j \in Jobs, Retry(j)
  PROVE  IInv'
  <1>1. PICK d \in Docs : d = job[j].doc /\ Exists(d)
    BY DEF Retry, IInv, RowsAgree
  <1>2. /\ job'[j].status = "queued" /\ job'[j].mode = job[j].mode /\ job'[j].doc = d
        /\ job'[j].attempts = job[j].attempts /\ job[j].status = "failed"
        /\ \A i \in Jobs : i # j => job'[i] = job[i]
    BY <1>1 DEF Retry, RetriedJob, IInv, TypeOK, Job
  <1>3. wk' = wk /\ rev' = rev
    BY DEF Retry
  <1>4. /\ \A e \in Docs : e # d => doc'[e] = doc[e]
        /\ doc'[d].live = doc[d].live /\ Exists(d)'
        /\ job[j].mode # "new" => doc' = doc
    BY <1>1 DEF Retry, Exists, IInv, TypeOK, Doc
  <1>5. RowsAgree'
    <2>1. \A i \in Jobs : job'[i].doc = job[i].doc /\ job'[i].mode = job[i].mode
                          /\ (job'[i].status \notin {"none", "gone"} <=> job[i].status \notin {"none", "gone"})
                          /\ (job'[i].status # "none" <=> job[i].status # "none")
      BY <1>1, <1>2
    <2>2. \A e \in Docs : (Exists(e)' <=> Exists(e)) /\ doc'[e].live = doc[e].live
      BY <1>1, <1>4 DEF Exists
    <2>3. QED
      BY <1>3, <2>1, <2>2 DEF IInv, RowsAgree, Open, Exists
  <1>6. ClaimsHeld' /\ OneClaimHolder'
    <2>1. ClaimsHeld'
      BY <1>2, <1>3 DEF IInv, ClaimsHeld, Busy
    <2>2. OneClaimHolder'
      BY <1>3 DEF IInv, OneClaimHolder, Busy
    <2>3. QED
      BY <2>1, <2>2
  <1>7. OneActiveJob'
    <2>1. \A i \in Jobs : i # j /\ Active(i)' => Active(i) /\ job'[i].doc = job[i].doc /\ job[i].doc # d
      BY <1>1, <1>2 DEF Retry, ActiveOn, Active
    <2>2. QED
      BY <1>2, <2>1 DEF IInv, OneActiveJob
  <1>8. OneOpenRevision' /\ DoneLeavesNothingOpen'
    BY <1>2, <1>3 DEF IInv, OneOpenRevision, DoneLeavesNothingOpen, RowsAgree, Open
  <1>9. FirstVersionCanMove'
    <2>1. \A e \in Docs : e # d /\ Unstored(e)' => Unstored(e)
      BY <1>4 DEF Unstored
    <2>2. \A i \in Jobs : Movable(i) => Movable(i)' /\ job'[i].doc = job[i].doc
      BY <1>1, <1>2 DEF Movable
    <2>3. Unstored(d)' => (job[j].mode = "new" \/ Unstored(d))
      BY <1>4 DEF Unstored
    <2>4. job[j].mode = "new" => Movable(j)' /\ job'[j].doc = d
      BY <1>2 DEF Movable
    <2>5. QED
      BY <2>1, <2>2, <2>3, <2>4 DEF IInv, FirstVersionCanMove, Unstored, Movable
  <1>10. QED
    BY <1>5, <1>6, <1>7, <1>8, <1>9 DEF IInv

LEMMA DeleteStep ==
  ASSUME IInv, TypeOK', NEW d \in Docs, DeleteBrd(d)
  PROVE  IInv'
  <1>1. \A i \in Jobs : /\ job[i].doc # d => job'[i] = job[i]
                        /\ job[i].doc = d => job'[i].status = "gone"
                        /\ job'[i].doc = job[i].doc /\ job'[i].mode = job[i].mode
                        /\ job'[i].attempts = job[i].attempts
    BY DEF DeleteBrd, IInv, TypeOK, Job
  <1>2. \A r \in Revs : Open(r)' => rev'[r] = rev[r] /\ rev[r].doc # d
    BY DEF DeleteBrd, Open, IInv, TypeOK, Rev
  <1>3. /\ \A e \in Docs : e # d => doc'[e] = doc[e]
        /\ ~Exists(d)' /\ doc'[d].live = 0 /\ ~Unstored(d)'
    BY DEF DeleteBrd, Exists, Unstored, IInv, TypeOK
  <1>4. wk' = wk
    BY DEF DeleteBrd
  <1>5. RowsAgree'
    <2>1. \A i \in Jobs : job'[i].status # "none" => job'[i].doc \in Docs
      <3>1. \A i \in Jobs : job[i].status = "none" /\ job[i].doc # d => job'[i].status = "none"
        BY <1>1
      <3>2. QED
        BY <1>1, <3>1 DEF IInv, RowsAgree
    <2>2. \A i \in Jobs : job'[i].status \notin {"none", "gone"}
              => job'[i].doc # d /\ job'[i] = job[i]
      BY <1>1
    <2>3. \A r \in Revs : Open(r)' => Open(r) /\ rev'[r] = rev[r] /\ job[rev[r].job].doc # d
                                      /\ job'[rev[r].job] = job[rev[r].job]
      BY <1>1, <1>2 DEF IInv, RowsAgree, Open
    <2>4. \A e \in Docs : ~Exists(e)' => doc'[e].live = 0
      BY <1>3 DEF IInv, RowsAgree, Exists
    <2>5. QED
      BY <1>3, <2>1, <2>2, <2>3, <2>4 DEF IInv, RowsAgree, Exists
  <1>6. ClaimsHeld' /\ OneClaimHolder'
    <2>1. \A i \in Jobs : job[i].status # "none" => job'[i].status # "none"
      BY <1>1
    <2>2. ClaimsHeld'
      BY <1>1, <1>4, <2>1 DEF IInv, ClaimsHeld, Busy
    <2>3. OneClaimHolder'
      BY <1>4 DEF IInv, OneClaimHolder, Busy
    <2>4. QED
      BY <2>2, <2>3
  <1>7. OneActiveJob'
    <2>1. \A i \in Jobs : Active(i)' => Active(i) /\ job'[i].doc = job[i].doc
      BY <1>1 DEF Active
    <2>2. QED
      BY <2>1 DEF IInv, OneActiveJob
  <1>8. OneOpenRevision' /\ DoneLeavesNothingOpen'
    <2>1. \A r \in Revs : Open(r)' => Open(r) /\ rev'[r] = rev[r] /\ job'[rev[r].job] = job[rev[r].job]
      BY <1>1, <1>2 DEF IInv, RowsAgree, Open
    <2>2. QED
      BY <2>1 DEF IInv, OneOpenRevision, DoneLeavesNothingOpen
  <1>9. FirstVersionCanMove'
    <2>1. \A e \in Docs : Unstored(e)' => e # d /\ Unstored(e)
      BY <1>3 DEF Unstored
    <2>2. QED
      BY <1>1, <2>1 DEF IInv, FirstVersionCanMove, Unstored
  <1>10. QED
    BY <1>5, <1>6, <1>7, <1>8, <1>9 DEF IInv

LEMMA ClaimStep ==
  ASSUME IInv, TypeOK', NEW w \in Workers, NEW j \in Jobs, Claim(w, j)
  PROVE  IInv'
  <1>1. /\ job'[j].status = "running" /\ job'[j].mode = job[j].mode /\ job'[j].doc = job[j].doc
        /\ job'[j].attempts = job[j].attempts + 1
        /\ \A i \in Jobs : i # j => job'[i] = job[i]
    BY DEF Claim, ClaimedJob, IInv, TypeOK, Job
  <1>2. Active(j) /\ Active(j)' /\ doc' = doc /\ rev' = rev
    BY <1>1 DEF Claim, Claimable, Active
  <1>3. /\ wk'[w].pc = "claimed" /\ wk'[w].job = j /\ wk'[w].token = job[j].attempts + 1
        /\ \A v \in Workers : v # w => wk'[v] = wk[v]
    BY DEF Claim, IInv, TypeOK
  <1>4. \A i \in Jobs : /\ job'[i].doc = job[i].doc /\ job'[i].mode = job[i].mode
                        /\ Active(i)' <=> Active(i)
                        /\ ~Active(i) => job'[i].status = job[i].status
                        /\ job[i].attempts \in Nat
    BY <1>1, <1>2 DEF Active, IInv, TypeOK, Job
  <1>5. \A i \in Jobs : /\ job'[i].status = "none" <=> job[i].status = "none"
                        /\ job'[i].status = "gone" <=> job[i].status = "gone"
                        /\ job'[i].status = "done" <=> job[i].status = "done"
    BY <1>1, <1>2 DEF Active
  <1>6. RowsAgree'
    BY <1>2, <1>4, <1>5 DEF IInv, RowsAgree, Open, Exists
  <1>7. ClaimsHeld' /\ OneClaimHolder'
    <2>1. \A v \in Workers : v # w /\ Busy(v)' =>
              /\ Busy(v) /\ wk'[v] = wk[v] /\ wk[v].job \in Jobs
              /\ wk[v].token <= job[wk[v].job].attempts /\ wk[v].token \in Nat
              /\ job[wk[v].job].status # "none"
              /\ wk[v].pc = "staged" => job[wk[v].job].mode = "revision"
      BY <1>3 DEF IInv, ClaimsHeld, Busy, TypeOK, Worker
    <2>2. ClaimsHeld'
      <3>1. \A v \in Workers : v # w /\ Busy(v)' => wk'[v].token <= job'[wk'[v].job].attempts
        BY <1>1, <1>4, <2>1
      <3>2. QED
        BY <1>1, <1>3, <1>4, <1>5, <2>1, <3>1 DEF ClaimsHeld
    <2>3. \A v \in Workers : v # w /\ Busy(v)' /\ wk'[v].job = j => wk'[v].token # wk'[w].token
      BY <1>3, <1>4, <2>1
    <2>4. OneClaimHolder'
      BY <1>3, <2>1, <2>3 DEF IInv, OneClaimHolder
    <2>5. QED
      BY <2>2, <2>4
  <1>8. OneActiveJob'
    BY <1>4 DEF IInv, OneActiveJob
  <1>9. OneOpenRevision' /\ DoneLeavesNothingOpen'
    BY <1>2, <1>5 DEF IInv, OneOpenRevision, DoneLeavesNothingOpen, RowsAgree, Open
  <1>10. FirstVersionCanMove'
    <2>1. \A i \in Jobs : Movable(i) => Movable(i)' /\ job'[i].doc = job[i].doc
      BY <1>1, <1>4 DEF Movable
    <2>2. QED
      BY <1>2, <2>1 DEF IInv, FirstVersionCanMove, Movable
  <1>11. QED
    BY <1>6, <1>7, <1>8, <1>9, <1>10 DEF IInv

LEMMA CompareStep ==
  ASSUME IInv, TypeOK', NEW w \in Workers, NEW r \in Revs, Compare(w, r)
  PROVE  IInv'
  <1>1. Busy(w) /\ wk[w].pc = "work" /\ doc' = doc
    BY DEF Compare, Busy
  <1>2. PICK j \in Jobs, d \in Docs : /\ j = wk[w].job /\ d = job[j].doc /\ job[j].mode = "revision"
                                      /\ Exists(d) /\ rev[r].status = "none"
    BY <1>1 DEF Compare, IInv, ClaimsHeld, RowsAgree
  <1>3. CASE ~Fenced(w)
    <2>1. Goto(w, "handler") /\ job' = job /\ rev' = rev
      BY <1>3 DEF Compare
    <2>2. "handler" \in PC \ {"staged"}
      BY DEF PC
    <2>3. KeepsClaims
      BY <1>1, <2>1, <2>2, GotoKeeps DEF IInv
    <2>4. Quiet
      BY <1>1, <2>1, <2>3, SameJobsKeep, SameDocs, SameRevs DEF Quiet, IInv
    <2>5. QED
      BY <2>4, QuietStep
  <1>4. CASE Fenced(w)
    <2>1. rev' = Staged(d, j, r) /\ Goto(w, "staged") /\ job[j].status = "running"
      BY <1>2, <1>4 DEF Compare, Fenced
    <2>2. \A i \in Jobs : \/ job'[i] = job[i]
                          \/ job[i].status = "review" /\ job'[i] = [job[i] EXCEPT !.status = "canceled"]
      BY <1>4 DEF Compare
    <2>3. \A i \in Jobs : /\ job'[i].doc = job[i].doc /\ job'[i].mode = job[i].mode
                          /\ job'[i].attempts = job[i].attempts
                          /\ job[i].status # "review" => job'[i].status = job[i].status
                          /\ job[i].status = "review" => job'[i].status \in {"review", "canceled"}
      BY <2>2 DEF IInv, TypeOK, Job
    <2>4. /\ rev'[r].doc = d /\ rev'[r].job = j
          /\ \A q \in Revs : q # r /\ Open(q)' => Open(q) /\ rev'[q] = rev[q] /\ rev[q].doc # d
      BY <1>2, <2>1 DEF Staged, Superseded, Open, IInv, TypeOK, Rev
    <2>5. \A i \in Jobs : /\ Active(i)' <=> Active(i)
                          /\ job'[i].status = "none" <=> job[i].status = "none"
                          /\ job'[i].status = "gone" <=> job[i].status = "gone"
                          /\ job'[i].status = "done" <=> job[i].status = "done"
                          /\ Movable(i) => Movable(i)'
      BY <2>3 DEF Active, Movable
    <2>6. RowsAgree'
      <3>1. \A q \in Revs : Open(q)' =>
              /\ rev'[q].doc \in Docs /\ rev'[q].job \in Jobs
              /\ job[rev'[q].job].doc = rev'[q].doc
              /\ job[rev'[q].job].mode = "revision"
              /\ job[rev'[q].job].status \notin {"none", "gone"}
        BY <1>2, <2>1, <2>4, SMTT(30) DEF IInv, RowsAgree
      <3>2. QED
        BY <1>1, <2>3, <2>5, <3>1 DEF IInv, RowsAgree, Exists
    <2>7. ClaimsHeld' /\ OneClaimHolder'
      <3>1. /\ \A v \in Workers : v # w => wk'[v] = wk[v]
            /\ wk'[w].job = j /\ wk'[w].token = wk[w].token
        BY <1>2, <2>1 DEF Goto, IInv, TypeOK, Worker
      <3>2. ClaimsHeld'
        BY <1>1, <1>2, <2>3, <2>5, <3>1 DEF IInv, ClaimsHeld, Busy
      <3>3. OneClaimHolder'
        BY <1>1, <1>2, <3>1 DEF IInv, OneClaimHolder, Busy
      <3>4. QED
        BY <3>2, <3>3
    <2>8. OneActiveJob'
      BY <2>3, <2>5 DEF IInv, OneActiveJob
    <2>9. OneOpenRevision'
      BY <2>4 DEF IInv, OneOpenRevision
    <2>10. DoneLeavesNothingOpen'
      <3>1. \A q \in Revs : Open(q)' => rev'[q].job \in Jobs /\ job[rev'[q].job].status # "done"
        BY <2>1, <2>4 DEF IInv, DoneLeavesNothingOpen, RowsAgree
      <3>2. QED
        BY <2>5, <3>1 DEF DoneLeavesNothingOpen
    <2>11. FirstVersionCanMove'
      BY <1>1, <2>3, <2>5 DEF IInv, FirstVersionCanMove, Movable
    <2>12. QED
      BY <2>6, <2>7, <2>8, <2>9, <2>10, <2>11 DEF IInv
  <1>5. QED
    BY <1>3, <1>4

-----------------------------------------------------------------------------
LEMMA InitInv == Init => IInv
  <1> SUFFICES ASSUME Init PROVE IInv
    OBVIOUS
  <1>1. RowsAgree /\ FirstVersionCanMove
    BY DEF Init, RowsAgree, FirstVersionCanMove, Exists, Open
  <1>2. ClaimsHeld /\ OneClaimHolder
    BY DEF Init, ClaimsHeld, OneClaimHolder, Busy, Idle
  <1>3. OneActiveJob /\ OneOpenRevision /\ DoneLeavesNothingOpen
    BY DEF Init, OneActiveJob, OneOpenRevision, DoneLeavesNothingOpen, Active, Open
  <1>4. QED
    BY <1>1, <1>2, <1>3, TypeInit DEF IInv

LEMMA StepInv ==
  ASSUME IInv, [Next]_vars
  PROVE  IInv'
  <1>1. TypeOK /\ RowsAgree /\ ClaimsHeld /\ OneOpenRevision
    BY DEF IInv
  <1>2. TypeOK'
    BY <1>1, TypeStep
  <1>3. CASE Quiet
    BY <1>2, <1>3, QuietStep
  <1>4. QED
    BY <1>1, <1>2, <1>3, StepCases, SubmitNewStep, SubmitRevisionStep, RetryStep, DeleteStep, ClaimStep, CompareStep

(* The inductive invariant holds of every reachable state: with it the type    *)
(* correctness and each of the safety properties of the queue.                 *)
THEOREM Invariance == Spec => []IInv
  <1>1. IInv /\ [Next]_vars => IInv'
    BY StepInv
  <1>2. QED
    BY <1>1, InitInv, PTL DEF Spec

THEOREM TypeCorrect == Spec => []TypeOK
  <1>1. IInv => TypeOK
    BY DEF IInv
  <1>2. QED
    BY <1>1, Invariance, PTL

(* attempts is a fencing token: no two busy workers hold the same claim.       *)
THEOREM ClaimHolderUnique == Spec => []OneClaimHolder
  <1>1. IInv => OneClaimHolder
    BY DEF IInv
  <1>2. QED
    BY <1>1, Invariance, PTL

(* A BRD never has two active jobs, nor two revisions under review, and a done *)
(* job left no revision open.                                                  *)
THEOREM OneOfEach == Spec => [](OneActiveJob /\ OneOpenRevision /\ DoneLeavesNothingOpen)
  <1>1. IInv => OneActiveJob /\ OneOpenRevision /\ DoneLeavesNothingOpen
    BY DEF IInv
  <1>2. QED
    BY <1>1, Invariance, PTL

(* A first version is never stuck: its job is active or can be retried.        *)
THEOREM FirstVersionMoves == Spec => []FirstVersionCanMove
  <1>1. IInv => FirstVersionCanMove
    BY DEF IInv
  <1>2. QED
    BY <1>1, Invariance, PTL

-----------------------------------------------------------------------------
(* What a step may never do. *)

(* A job that is done or canceled stays so until its BRD is deleted.           *)
LEMMA FinalStep ==
  ASSUME IInv, [Next]_vars, NEW j \in Jobs, job[j].status \in {"done", "canceled"}
  PROVE  job'[j].status \in {job[j].status, "gone"}
  <1>1. TypeOK /\ RowsAgree /\ ClaimsHeld /\ OneOpenRevision
    BY DEF IInv
  <1>2. CASE Quiet
    BY <1>2 DEF Quiet, JobsQuiet, KeepsJobs
  <1>3. ASSUME NEW d \in Docs, NEW i \in Jobs, SubmitNew(d, i) \/ SubmitRevision(d, i)
        PROVE  job'[j].status = job[j].status
    BY <1>1, <1>3, NewJobRows DEF SubmitNew, SubmitRevision
  <1>4. ASSUME NEW i \in Jobs, Retry(i) PROVE job'[j].status = job[j].status
    BY <1>1, <1>4 DEF Retry, TypeOK
  <1>5. ASSUME NEW d \in Docs, DeleteBrd(d) PROVE job'[j].status \in {job[j].status, "gone"}
    BY <1>1, <1>5 DEF DeleteBrd, TypeOK, Job
  <1>6. ASSUME NEW w \in Workers, NEW i \in Jobs, Claim(w, i) PROVE job'[j].status = job[j].status
    BY <1>1, <1>6 DEF Claim, Claimable, TypeOK
  <1>7. ASSUME NEW w \in Workers, NEW r \in Revs, Compare(w, r) PROVE job'[j].status = job[j].status
    BY <1>1, <1>7 DEF Compare, TypeOK
  <1>8. QED
    BY <1>1, <1>2, <1>3, <1>4, <1>5, <1>6, <1>7, StepCases

THEOREM FinalStatus == Spec => FinalStatusKept
  <1>1. IInv /\ [Next]_vars =>
          [\A j \in Jobs : job[j].status \in {"done", "canceled"}
             => job'[j].status \in {job[j].status, "gone"}]_vars
    BY FinalStep
  <1>2. QED
    BY <1>1, Invariance, PTL DEF Spec, FinalStatusKept

(* A step that moves a busy worker is one of that worker's.                    *)
LEMMA OwnStep ==
  ASSUME TypeOK, [Next]_vars, NEW w \in Workers, Busy(w), wk'[w] # wk[w]
  PROVE  Progress(w) \/ Heartbeat(w) \/ Crash(w) \/ Abandon(w)
  <1>1. CASE UNCHANGED vars \/ UserStep \/ \E j \in Jobs : LeaseExpires(j)
    BY <1>1 DEF vars, UserStep, SubmitNew, SubmitRevision, Retry, Cancel, Apply, Discard, Recompare,
                DeleteBrd, LeaseExpires
  <1>2. ASSUME NEW v \in Workers, Progress(v) \/ Heartbeat(v) \/ Crash(v) \/ Abandon(v) PROVE v = w
    <2> SUFFICES ASSUME v # w PROVE FALSE
      OBVIOUS
    <2>1. \A pc : (Goto(v, pc) \/ Done(v)) => wk'[w] = wk[w]
      BY DEF Goto, Done, TypeOK
    <2>2. FailTerminal(v) \/ FailRetry(v) => wk'[w] = wk[w]
      BY <2>1 DEF FailTerminal, FailRetry
    <2>3. Progress(v) => wk'[w] = wk[w]
      BY <2>1, <2>2 DEF Progress, GiveUp, Begin, BadDocument, Outage, StoreNew, Compare, RecordReview,
                        CanceledHandler, MarkDocFailed
    <2>4. Heartbeat(v) \/ Abandon(v) => wk'[w] = wk[w]
      BY <2>1 DEF Heartbeat, Abandon
    <2>5. Crash(v) => wk'[w] = wk[w]
      BY DEF Crash, TypeOK
    <2>6. QED
      BY <1>2, <2>3, <2>4, <2>5
  <1>3. ASSUME NEW v \in Workers, Boot(v) PROVE FALSE
    BY <1>3 DEF Boot, Done, Busy, TypeOK
  <1>4. ASSUME NEW v \in Workers, NEW j \in Jobs, Claim(v, j) PROVE FALSE
    BY <1>4 DEF Claim, Busy, TypeOK
  <1>5. QED
    BY <1>1, <1>2, <1>3, <1>4 DEF Next

(* An overtaken worker leaves jobs, revisions and live requirements alone.     *)
LEMMA OvertakenStep ==
  ASSUME IInv, [Next]_vars, NEW w \in Workers, Busy(w), ~Fenced(w), wk'[w] # wk[w]
  PROVE  job' = job /\ rev' = rev /\ \A d \in Docs : doc'[d].live = doc[d].live
  <1>1. TypeOK /\ RowsAgree /\ ClaimsHeld
    BY DEF IInv
  <1>2. CASE doc' = doc
    <2>1. FailTerminal(w) \/ FailRetry(w) => job' = job /\ rev' = rev
      BY DEF FailTerminal, FailRetry
    <2>2. Progress(w) => job' = job /\ rev' = rev
      BY <2>1 DEF Progress, GiveUp, Begin, BadDocument, Outage, StoreNew, Compare, RecordReview,
                  CanceledHandler, MarkDocFailed
    <2>3. QED
      BY <1>1, <1>2, <2>2, OwnStep DEF Heartbeat, Crash, Abandon
  <1>3. CASE doc' # doc
    <2>1. Progress(w)
      BY <1>1, <1>3, OwnStep DEF Heartbeat, Crash, Abandon
    <2>2. MarkDocFailed(w)
      BY <1>3, <2>1 DEF Progress, GiveUp, Begin, BadDocument, Outage, StoreNew, Compare, RecordReview,
                  CanceledHandler, MarkDocFailed, FailTerminal, FailRetry
    <2>3. job[wk[w].job].doc \in Docs
      BY <1>1 DEF ClaimsHeld, RowsAgree
    <2>4. QED
      BY <1>1, <2>2, <2>3 DEF MarkDocFailed, DocFailed, TypeOK, Doc
  <1>4. QED
    BY <1>2, <1>3

THEOREM OvertakenHarmless == Spec => OvertakenWorkerIsHarmless
  <1>1. IInv /\ [Next]_vars =>
          [\A w \in Workers : Busy(w) /\ ~Fenced(w) /\ wk'[w] # wk[w]
             => job' = job /\ rev' = rev /\ \A d \in Docs : doc'[d].live = doc[d].live]_vars
    BY OvertakenStep
  <1>2. QED
    BY <1>1, Invariance, PTL DEF Spec, OvertakenWorkerIsHarmless

(* Requirements go live only with the job that stored them, or by an applied   *)
(* revision.                                                                   *)
LEMMA PublishStep ==
  ASSUME IInv, [Next]_vars, NEW d \in Docs, doc'[d].live > doc[d].live
  PROVE  \/ /\ doc[d].live = 0
            /\ \E j \in Jobs : job[j].doc = d /\ job[j].status = "running" /\ job'[j].status = "done"
         \/ \E r \in Revs : Open(r) /\ rev[r].doc = d /\ rev'[r].status = "applied"
  <1>1. TypeOK /\ RowsAgree /\ ClaimsHeld
    BY DEF IInv
  <1>2. doc[d].live \in Nat /\ ~(doc[d].live > doc[d].live)
    BY <1>1 DEF TypeOK, Doc
  <1>3. doc' # doc
    BY <1>2
  <1>4. ASSUME NEW e \in Docs, doc' = DocFailed(e) PROVE FALSE
    BY <1>1, <1>2, <1>4 DEF DocFailed, TypeOK, Doc
  <1>5. ASSUME NEW w \in Workers, NEW j \in Jobs, j = wk[w].job, StoreNew(w)
        PROVE  doc[d].live = 0 /\ job[j].doc = d /\ job[j].status = "running" /\ job'[j].status = "done"
    <2>1. Fenced(w) /\ job' = [job EXCEPT ![j].status = "done"]
      BY <1>3, <1>5 DEF StoreNew
    <2>2. doc[job[j].doc].live = 0
      BY <1>3, <1>5 DEF StoreNew
    <2>3. doc' = [doc EXCEPT ![job[j].doc] = [status |-> "ready", live |-> @.live + 1]]
      BY <1>3, <1>5 DEF StoreNew
    <2>4. job[j].doc = d
      BY <1>1, <1>2, <2>3 DEF TypeOK
    <2>5. job'[j].status = "done"
      BY <1>1, <2>1 DEF TypeOK, Job
    <2>6. QED
      BY <1>5, <2>1, <2>2, <2>4, <2>5 DEF Fenced
  <1>6. ASSUME NEW w \in Workers, Progress(w)
        PROVE  \E j \in Jobs : j = wk[w].job /\ StoreNew(w)
    <2>1. Busy(w)
      BY <1>6 DEF Progress, GiveUp, Begin, BadDocument, Outage, StoreNew, Compare, RecordReview,
                  CanceledHandler, MarkDocFailed, Busy
    <2>2. wk[w].job \in Jobs /\ job[wk[w].job].doc \in Docs
      BY <1>1, <2>1 DEF ClaimsHeld, RowsAgree
    <2>3. ~MarkDocFailed(w)
      BY <1>3, <1>4, <2>2 DEF MarkDocFailed
    <2>4. StoreNew(w)
      BY <1>3, <1>6, <2>3 DEF Progress, GiveUp, Begin, BadDocument, Outage, Compare, RecordReview,
                              CanceledHandler, FailTerminal, FailRetry
    <2>5. QED
      BY <2>2, <2>4
  <1>7. ASSUME NEW r \in Revs, Apply(r)
        PROVE  Open(r) /\ rev[r].doc = d /\ rev'[r].status = "applied"
    <2>1. rev[r].doc = d
      BY <1>1, <1>2, <1>7 DEF Apply, TypeOK
    <2>2. QED
      BY <1>1, <1>7, <2>1 DEF Apply, TypeOK, Rev
  <1>8. ASSUME NEW e \in Docs, NEW j \in Jobs, SubmitNew(e, j) PROVE FALSE
    BY <1>1, <1>2, <1>8 DEF SubmitNew, TypeOK, Doc
  <1>9. ASSUME NEW j \in Jobs, Retry(j) \/ Cancel(j) PROVE FALSE
    <2>1. job[j].doc \in Docs
      BY <1>1, <1>9 DEF Retry, Cancel, Active, RowsAgree
    <2>2. CASE Cancel(j)
      BY <1>3, <1>4, <2>1, <2>2 DEF Cancel
    <2>3. CASE Retry(j)
      BY <1>1, <1>2, <2>1, <2>3 DEF Retry, TypeOK, Doc
    <2>4. QED
      BY <1>9, <2>2, <2>3
  <1>10. ASSUME NEW e \in Docs, DeleteBrd(e) PROVE FALSE
    BY <1>1, <1>2, <1>10 DEF DeleteBrd, TypeOK, Doc
  <1>11. ASSUME NEW w \in Workers, Boot(w) PROVE FALSE
    BY <1>1, <1>2, <1>11 DEF Boot, TypeOK, Doc
  <1>12. UserStep => \E r \in Revs : Apply(r)
    BY <1>3, <1>8, <1>9, <1>10 DEF UserStep, SubmitRevision, Discard, Recompare
  <1>13. Next
    BY <1>3 DEF vars
  <1>14. CASE UserStep
    BY <1>7, <1>12, <1>14
  <1>15. CASE \E w \in Workers : Progress(w)
    BY <1>5, <1>6, <1>15
  <1>16. QED
    BY <1>3, <1>11, <1>13, <1>14, <1>15 DEF Next, Heartbeat, Crash, Abandon, Claim, LeaseExpires

THEOREM Publication == Spec => PublishedWithItsJob
  <1>1. IInv /\ [Next]_vars =>
          [\A d \in Docs : doc'[d].live > doc[d].live
             => \/ /\ doc[d].live = 0
                   /\ \E j \in Jobs : job[j].doc = d /\ job[j].status = "running" /\ job'[j].status = "done"
                \/ \E r \in Revs : Open(r) /\ rev[r].doc = d /\ rev'[r].status = "applied"]_vars
    BY PublishStep
  <1>2. QED
    BY <1>1, Invariance, PTL DEF Spec, PublishedWithItsJob

-----------------------------------------------------------------------------
(* The queue implements what it promises about requirements: each step maps to *)
(* a step of BrdPublication or to none.                                        *)

Shown     == {d \in Docs : Exists(d)}
Version   == [d \in Docs |-> doc[d].live]
OpenOn(d) == {r \in Revs : Open(r) /\ rev[r].doc = d}
Compared  == [d \in Docs |-> {rev[r].base : r \in OpenOn(d)}]

LEMMA SameVersion ==
  ASSUME \A d \in Docs : (Exists(d)' <=> Exists(d)) /\ doc'[d].live = doc[d].live
  PROVE  Shown' = Shown /\ Version' = Version
  BY DEF Shown, Version

LEMMA SameCompared ==
  ASSUME \A r \in Revs : /\ Open(r)' <=> Open(r)
                         /\ Open(r) => rev'[r].base = rev[r].base /\ rev'[r].doc = rev[r].doc
  PROVE  Compared' = Compared
  <1>1. \A d \in Docs : OpenOn(d)' = OpenOn(d)
    BY DEF OpenOn
  <1>2. \A d \in Docs : {rev'[r].base : r \in OpenOn(d)'} = {rev[r].base : r \in OpenOn(d)}
    BY <1>1 DEF OpenOn
  <1>3. QED
    BY <1>2 DEF Compared

(* Only this BRD's revisions changed, and this is what they were compared with. *)
LEMMA OneCompared ==
  ASSUME NEW d \in Docs, NEW S,
         {rev'[r].base : r \in OpenOn(d)'} = S,
         \A r \in Revs : \/ rev'[r] = rev[r]
                         \/ (Open(r) => rev[r].doc = d) /\ (Open(r)' => rev'[r].doc = d)
  PROVE  Compared' = [Compared EXCEPT ![d] = S]
  <1>1. ASSUME NEW e \in Docs, e # d PROVE {rev'[r].base : r \in OpenOn(e)'} = {rev[r].base : r \in OpenOn(e)}
    <2>1. OpenOn(e)' = OpenOn(e) /\ \A r \in OpenOn(e) : rev'[r] = rev[r]
      BY <1>1 DEF OpenOn, Open
    <2>2. QED
      BY <2>1
  <1>2. QED
    BY <1>1 DEF Compared

LEMMA OneOpen ==
  ASSUME OneOpenRevision, NEW r \in Revs, Open(r)
  PROVE  OpenOn(rev[r].doc) = {r} /\ {rev[q].base : q \in OpenOn(rev[r].doc)} = {rev[r].base}
  BY DEF OneOpenRevision, OpenOn

LEMMA PromiseInit == Init => Promise!Init
  <1> SUFFICES ASSUME Init PROVE Promise!Init
    OBVIOUS
  <1>1. Shown = {} /\ Version = [d \in Docs |-> 0]
    BY DEF Init, Shown, Version, Exists
  <1>2. \A d \in Docs : OpenOn(d) = {}
    BY DEF Init, OpenOn, Open
  <1>3. Compared = [d \in Docs |-> {}]
    BY <1>2 DEF Compared
  <1>4. QED
    BY <1>1, <1>3 DEF Promise!Init, Shown, Version, Compared, OpenOn

(* What the rows do, in the abstract variables.                                *)
Creates(d)   == d \notin Shown /\ Shown' = Shown \cup {d} /\ Version' = Version /\ Compared' = Compared
Publishes(d) == /\ d \in Shown /\ Version[d] = 0 /\ Version' = [Version EXCEPT ![d] = 1]
                /\ Shown' = Shown /\ Compared' = Compared
Stages(d)    == /\ d \in Shown /\ Compared' = [Compared EXCEPT ![d] = {Version[d]}]
                /\ Shown' = Shown /\ Version' = Version
Applies(d)   == /\ d \in Shown /\ Compared[d] = {Version[d]}
                /\ Version' = [Version EXCEPT ![d] = @ + 1]
                /\ Compared' = [Compared EXCEPT ![d] = {}] /\ Shown' = Shown
Discards(d)  == /\ Compared[d] # {} /\ Compared' = [Compared EXCEPT ![d] = {}]
                /\ Shown' = Shown /\ Version' = Version
Deletes(d)   == /\ d \in Shown /\ Shown' = Shown \ {d}
                /\ Version' = [Version EXCEPT ![d] = 0] /\ Compared' = [Compared EXCEPT ![d] = {}]
Stutters     == Shown' = Shown /\ Version' = Version /\ Compared' = Compared

PromiseStep ==
    \/ Stutters
    \/ \E d \in Docs : Creates(d) \/ Publishes(d) \/ Stages(d) \/ Applies(d) \/ Discards(d) \/ Deletes(d)

LEMMA PromiseSteps ==
  ASSUME PromiseStep
  PROVE  [Promise!Next]_(Promise!pvars)
  <1>1. CASE Stutters
    BY <1>1 DEF Stutters, Promise!pvars, Shown, Version, Compared, OpenOn
  <1>2. ASSUME NEW d \in Docs, Creates(d) PROVE Promise!Create(d)
    BY <1>2 DEF Creates, Promise!Create, Shown, Version, Compared, OpenOn
  <1>3. ASSUME NEW d \in Docs, Publishes(d) PROVE Promise!Publish(d)
    BY <1>3 DEF Publishes, Promise!Publish, Shown, Version, Compared, OpenOn
  <1>4. ASSUME NEW d \in Docs, Stages(d) PROVE Promise!Stage(d)
    BY <1>4 DEF Stages, Promise!Stage, Shown, Version, Compared, OpenOn
  <1>5. ASSUME NEW d \in Docs, Applies(d) PROVE Promise!Apply(d)
    BY <1>5 DEF Applies, Promise!Apply, Shown, Version, Compared, OpenOn
  <1>6. ASSUME NEW d \in Docs, Discards(d) PROVE Promise!Discard(d)
    BY <1>6 DEF Discards, Promise!Discard, Shown, Version, Compared, OpenOn
  <1>7. ASSUME NEW d \in Docs, Deletes(d) PROVE Promise!Delete(d)
    BY <1>7 DEF Deletes, Promise!Delete, Shown, Version, Compared, OpenOn
  <1>8. QED
    BY <1>1, <1>2, <1>3, <1>4, <1>5, <1>6, <1>7 DEF PromiseStep, Promise!Next

(* The users' steps.                                                           *)
LEMMA UserPromise ==
  ASSUME IInv, UserStep
  PROVE  PromiseStep
  <1> USE DEF IInv
  <1>1. rev' = rev => Compared' = Compared
    BY SameCompared DEF Open
  <1>2. ASSUME NEW d \in Docs, NEW j \in Jobs, SubmitNew(d, j) PROVE Creates(d)
    <2>1. /\ doc[d].status = "none" /\ doc'[d].status = "processing"
          /\ \A e \in Docs : doc'[e].live = doc[e].live /\ (e # d => doc'[e] = doc[e])
      BY <1>2 DEF SubmitNew, TypeOK, Doc
    <2>2. d \notin Shown /\ Shown' = Shown \cup {d} /\ Version' = Version
      BY <2>1 DEF Shown, Version, Exists
    <2>3. QED
      BY <1>1, <1>2, <2>2 DEF SubmitNew, Creates
  <1>3. ASSUME NEW d \in Docs, NEW j \in Jobs, SubmitRevision(d, j) PROVE Stutters
    BY <1>1, <1>3, SameVersion DEF SubmitRevision, Stutters, Exists
  <1>4. ASSUME NEW j \in Jobs, Retry(j) \/ Cancel(j) PROVE Stutters
    <2>1. job[j].doc \in Docs /\ Exists(job[j].doc)
      BY <1>4 DEF Retry, Cancel, Active, RowsAgree
    <2>2. \A d \in Docs : (Exists(d)' <=> Exists(d)) /\ doc'[d].live = doc[d].live
      BY <1>4, <2>1 DEF Retry, Cancel, DocFailed, Exists, TypeOK, Doc
    <2>3. QED
      BY <1>1, <1>4, <2>2, SameVersion DEF Retry, Cancel, Stutters
  <1>5. ASSUME NEW r \in Revs, Open(r)
        PROVE  /\ rev[r].doc \in Docs /\ Exists(rev[r].doc)
               /\ Compared[rev[r].doc] = {rev[r].base}
    BY <1>5, OneOpen DEF RowsAgree, Compared
  <1>6. ASSUME NEW r \in Revs, Apply(r) \/ Discard(r) PROVE Compared' = [Compared EXCEPT ![rev[r].doc] = {}]
    <2>1. Open(r) /\ ~Open(r)' /\ \A q \in Revs : q # r => rev'[q] = rev[q]
      BY <1>6 DEF Apply, Discard, Open, TypeOK, Rev
    <2>2. PICK d \in Docs : d = rev[r].doc
      BY <1>5, <2>1
    <2>3. OpenOn(d)' = {}
      BY <2>1, <2>2 DEF OpenOn, Open, OneOpenRevision
    <2>4. {rev'[q].base : q \in OpenOn(d)'} = {}
      BY <2>3
    <2>5. QED
      BY <2>1, <2>2, <2>4, OneCompared
  <1>7. ASSUME NEW r \in Revs, Apply(r) PROVE Applies(rev[r].doc)
    <2>1. Open(r) /\ rev[r].base = doc[rev[r].doc].live
      BY <1>7 DEF Apply
    <2>2. /\ doc' = [doc EXCEPT ![rev[r].doc] = [status |-> "ready", live |-> @.live + 1]]
      BY <1>7 DEF Apply
    <2>3. Shown' = Shown /\ Version' = [Version EXCEPT ![rev[r].doc] = @ + 1]
      BY <1>5, <2>1, <2>2 DEF Shown, Version, Exists, TypeOK, Doc
    <2>4. QED
      BY <1>5, <1>6, <1>7, <2>1, <2>3 DEF Applies, Shown, Version
  <1>8. ASSUME NEW r \in Revs, Discard(r) PROVE Discards(rev[r].doc)
    BY <1>5, <1>6, <1>8, SameVersion DEF Discard, Discards, Exists
  <1>9. ASSUME NEW r \in Revs, Recompare(r) PROVE Stages(rev[r].doc)
    <2>1. PICK d \in Docs : d = rev[r].doc /\ Exists(d) /\ Open(r) /\ doc' = doc
      BY <1>5, <1>9 DEF Recompare
    <2>2. /\ rev'[r].base = doc[d].live /\ rev'[r].doc = d
          /\ \A q \in Revs : (Open(q)' <=> Open(q)) /\ (q # r => rev'[q] = rev[q])
      BY <1>9, <2>1 DEF Recompare, Open, TypeOK, Rev
    <2>3. OpenOn(d)' = {r}
      BY <2>1, <2>2 DEF OpenOn, OneOpenRevision
    <2>4. {rev'[q].base : q \in OpenOn(d)'} = {doc[d].live}
      BY <2>2, <2>3
    <2>5. Compared' = [Compared EXCEPT ![d] = {doc[d].live}]
      BY <2>1, <2>2, <2>4, OneCompared
    <2>6. QED
      BY <2>1, <2>5, SameVersion DEF Stages, Shown, Version, Exists
  <1>10. ASSUME NEW d \in Docs, DeleteBrd(d) PROVE Deletes(d)
    <2>1. \A q \in Revs : \/ rev'[q] = rev[q] /\ rev[q].doc # d
                          \/ rev[q].doc = d /\ ~Open(q)'
      BY <1>10 DEF DeleteBrd, Open, TypeOK, Rev
    <2>2. OpenOn(d)' = {}
      BY <2>1 DEF OpenOn
    <2>3. Compared' = [Compared EXCEPT ![d] = {}]
      <3>1. {rev'[q].base : q \in OpenOn(d)'} = {}
        BY <2>2
      <3>2. QED
        BY <2>1, <3>1, OneCompared
    <2>4. d \in Shown /\ Shown' = Shown \ {d} /\ Version' = [Version EXCEPT ![d] = 0]
      BY <1>10 DEF DeleteBrd, Shown, Version, Exists, TypeOK
    <2>5. QED
      BY <2>3, <2>4 DEF Deletes
  <1>11. \A r \in Revs : Apply(r) \/ Discard(r) \/ Recompare(r) => rev[r].doc \in Docs
    BY <1>5 DEF Apply, Discard, Recompare
  <1>12. QED
    BY <1>2, <1>3, <1>4, <1>7, <1>8, <1>9, <1>10, <1>11 DEF UserStep, PromiseStep

(* The workers' and the environment's steps.                                   *)
LEMMA ProgressPromise ==
  ASSUME IInv, NEW w \in Workers, Progress(w)
  PROVE  PromiseStep
  <1> USE DEF IInv
  <1>1. Busy(w)
    BY DEF Progress, GiveUp, Begin, BadDocument, Outage, StoreNew, Compare, RecordReview,
           CanceledHandler, MarkDocFailed, Busy
  <1>2. PICK j \in Jobs, d \in Docs : j = wk[w].job /\ d = job[j].doc
    BY <1>1 DEF ClaimsHeld, RowsAgree
  <1>3. rev' = rev => Compared' = Compared
    BY SameCompared DEF Open
  <1>4. doc' = doc => Shown' = Shown /\ Version' = Version
    BY SameVersion DEF Exists
  <1>5. CASE GiveUp(w) \/ BadDocument(w) \/ Outage(w) \/ Begin(w) \/ RecordReview(w) \/ CanceledHandler(w)
    <2>1. doc' = doc /\ rev' = rev
      BY <1>5 DEF GiveUp, BadDocument, Outage, Begin, RecordReview, CanceledHandler, FailTerminal, FailRetry
    <2>2. QED
      BY <1>3, <1>4, <2>1 DEF Stutters, PromiseStep
  <1>6. CASE MarkDocFailed(w)
    <2>1. \A e \in Docs : (Exists(e)' <=> Exists(e)) /\ doc'[e].live = doc[e].live
      BY <1>2, <1>6 DEF MarkDocFailed, DocFailed, Exists, TypeOK, Doc
    <2>2. QED
      BY <1>3, <1>6, <2>1, SameVersion DEF MarkDocFailed, Stutters, PromiseStep
  <1>7. CASE StoreNew(w)
    <2>1. rev' = rev
      BY <1>7 DEF StoreNew
    <2>2. CASE doc' = doc
      BY <1>3, <1>4, <2>1, <2>2 DEF Stutters, PromiseStep
    <2>3. CASE doc' # doc
      <3>1. /\ Exists(d) /\ doc[d].live = 0
            /\ doc' = [doc EXCEPT ![d] = [status |-> "ready", live |-> @.live + 1]]
        BY <1>2, <1>7, <2>3 DEF StoreNew
      <3>2. d \in Shown /\ Shown' = Shown /\ Version[d] = 0 /\ Version' = [Version EXCEPT ![d] = 1]
        <4>1. /\ doc'[d] = [status |-> "ready", live |-> 1]
              /\ \A e \in Docs : e # d => doc'[e] = doc[e]
          BY <3>1 DEF TypeOK
        <4>2. \A e \in Docs : Exists(e)' <=> Exists(e)
          BY <3>1, <4>1 DEF Exists
        <4>3. d \in Shown /\ Shown' = Shown
          BY <3>1, <4>2 DEF Shown
        <4>4. Version[d] = 0 /\ Version' = [Version EXCEPT ![d] = 1]
          <5>1. \A e \in Docs : doc'[e].live = IF e = d THEN 1 ELSE doc[e].live
            BY <4>1
          <5>2. Version' = [e \in Docs |-> IF e = d THEN 1 ELSE doc[e].live]
            BY <5>1 DEF Version
          <5>3. QED
            BY <3>1, <5>2 DEF Version
        <4>5. QED
          BY <4>3, <4>4
      <3>3. QED
        BY <1>3, <2>1, <3>2 DEF Publishes, PromiseStep
    <2>4. QED
      BY <2>2, <2>3
  <1>8. ASSUME NEW r \in Revs, Compare(w, r) PROVE PromiseStep
    <2>1. doc' = doc /\ Exists(d) /\ rev[r].status = "none"
      BY <1>2, <1>8 DEF Compare
    <2>2. CASE rev' = rev
      BY <1>3, <1>4, <2>1, <2>2 DEF Stutters, PromiseStep
    <2>3. CASE rev' # rev
      <3>1. rev' = Staged(d, j, r)
        BY <1>2, <1>8, <2>3 DEF Compare
      <3>2. \A q \in Revs : /\ q = r => Open(q)' /\ rev'[q].doc = d /\ rev'[q].base = doc[d].live
                            /\ q # r /\ q \in Superseded(d) => rev[q].doc = d /\ ~Open(q)'
                            /\ q # r /\ q \notin Superseded(d) => rev'[q] = rev[q]
        BY <3>1 DEF Staged, Superseded, Open, TypeOK, Rev
      <3>3. OpenOn(d)' = {r}
        BY <3>2 DEF OpenOn, Superseded, Open
      <3>4. {rev'[q].base : q \in OpenOn(d)'} = {doc[d].live}
        BY <3>2, <3>3
      <3>5. \A q \in Revs : \/ rev'[q] = rev[q]
                            \/ (Open(q) => rev[q].doc = d) /\ (Open(q)' => rev'[q].doc = d)
        BY <2>1, <3>2 DEF Open
      <3>6. Compared' = [Compared EXCEPT ![d] = {doc[d].live}]
        BY <3>4, <3>5, OneCompared
      <3>7. QED
        BY <1>4, <2>1, <3>6 DEF Stages, Shown, Version, PromiseStep
    <2>4. QED
      BY <2>2, <2>3
  <1>9. QED
    BY <1>5, <1>6, <1>7, <1>8 DEF Progress

LEMMA NextPromise ==
  ASSUME IInv, [Next]_vars
  PROVE  PromiseStep
  <1>1. rev' = rev => Compared' = Compared
    BY SameCompared DEF Open
  <1>2. doc' = doc => Shown' = Shown /\ Version' = Version
    BY SameVersion DEF Exists
  <1>3. doc' = doc /\ rev' = rev => PromiseStep
    BY <1>1, <1>2 DEF Stutters, PromiseStep
  <1>4. ASSUME NEW w \in Workers, Boot(w) PROVE PromiseStep
    <2>1. \A d \in Docs : (Exists(d)' <=> Exists(d)) /\ doc'[d].live = doc[d].live
      BY <1>4 DEF Boot, Exists, IInv, TypeOK, Doc
    <2>2. QED
      BY <1>1, <1>4, <2>1, SameVersion DEF Boot, Stutters, PromiseStep
  <1>5. QED
    BY <1>3, <1>4, UserPromise, ProgressPromise
    DEF Next, vars, Heartbeat, Crash, Abandon, Claim, LeaseExpires

(* Every behaviour of the queue is one of BrdPublication.                      *)
THEOREM KeepsPromise == Spec => ImplementsPromise
  <1>1. IInv /\ [Next]_vars => [Promise!Next]_(Promise!pvars)
    BY NextPromise, PromiseSteps
  <1>2. QED
    BY <1>1, PromiseInit, Invariance, PTL DEF Spec, ImplementsPromise, Promise!Spec
=============================================================================
