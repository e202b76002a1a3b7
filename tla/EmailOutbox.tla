---------------------------- MODULE EmailOutbox ----------------------------
(***************************************************************************)
(* The durable email outbox of backend/accounts/email_outbox.py.  A request *)
(* writes a row and starts a thread that tries it at once; one sweeper per  *)
(* server process retries rows that are due or whose sender's lease ran     *)
(* out.  Every action is one database statement, one call of the transport, *)
(* or the passing of time that a statement's condition reads.               *)
(*                                                                         *)
(* A thread is named by its process and the message it was started for, or *)
(* Sweep for the sweeper.  The order in which due rows are picked           *)
(* (next_attempt_at) is left open.  Processes may overlap, as in a rolling  *)
(* deploy, and a send may outlast its lease; rearmed only records for the   *)
(* properties when a row was taken from a thread that was still at it.      *)
(***************************************************************************)
EXTENDS Naturals, FiniteSets

CONSTANTS
    Procs,         \* server processes
    Msgs,          \* ids of email_outbox rows
    Addrs,         \* recipients
    To,            \* the recipient of each message
    Sweep,         \* the sweeper's name among a process's threads
    Null,          \* no message
    MaxAttempts,   \* settings.email_max_attempts
    FaultBound     \* bound: crashes, statements that fail and accepted sends reported as failed

ASSUME AttemptsAssumption == MaxAttempts \in Nat \ {0}
ASSUME FiniteAssumption == IsFiniteSet(Procs) /\ IsFiniteSet(Msgs)
ASSUME BoundAssumption == FaultBound \in Nat
ASSUME ToAssumption == To \in [Msgs -> Addrs]
ASSUME NameAssumption == Sweep \notin Msgs /\ Null \notin Msgs

VARIABLES
    row,           \* email_outbox rows
    thread,        \* what each thread holds
    up,            \* processes that are running
    delivered,     \* external: how often the provider accepted each message
    faults,        \* faults so far (bounded by FaultBound)
    rearmed        \* history: how often a row was freed under the thread that had claimed it

vars == <<row, thread, up, delivered, faults, rearmed>>

-----------------------------------------------------------------------------

\* "none" is a row not inserted yet, "gone" one that clear_failed deleted
Status == {"none", "pending", "sending", "sent", "failed", "gone"}

\* due: next_attempt_at <= now;  stale: the lease is over;  cooling: within the cooldown
Row == [status : Status, attempts : Nat, due : BOOLEAN, stale : BOOLEAN, cooling : BOOLEAN]

Threads == Procs \X (Msgs \cup {Sweep})

\* "checked" is between enqueue's cooldown query and its insert, "start" the
\* thread just launched, "sweep" the sweeper between rows, "send" before the
\* transport answers, "finish" after it
PC == {"off", "checked", "start", "sweep", "send", "finish"}
Thread == [pc : PC, msg : Msgs \cup {Null}, attempts : Nat, ok : BOOLEAN]

At(pc) == [pc |-> pc, msg |-> Null, attempts |-> 0, ok |-> FALSE]

GoTo(t, pc) == thread' = [thread EXCEPT ![t] = At(pc)]

Holds(t, m) == thread[t].pc \in {"send", "finish"} /\ thread[t].msg = m

\* the thread whose claim the row still shows
Owns(t, m) == /\ Holds(t, m)
              /\ row[m].status = "sending" /\ ~row[m].stale
              /\ row[m].attempts = thread[t].attempts
Owned(m) == \E t \in Threads : Owns(t, m)

\* what a thread goes back to once its row is dealt with
After(t) == IF t[2] = Sweep THEN "sweep" ELSE "off"

Fault == faults < FaultBound /\ faults' = faults + 1

-----------------------------------------------------------------------------
(* enqueue: the cooldown query, then the insert and the thread's start.      *)

Suppressed(a) == \E m \in Msgs : To[m] = a /\ row[m].status = "failed" /\ row[m].cooling

EnqueueCheck(p, m) ==
    /\ p \in up
    /\ row[m].status = "none"
    /\ \A q \in Procs : thread[<<q, m>>].pc = "off"
    /\ ~Suppressed(To[m])
    /\ GoTo(<<p, m>>, "checked")
    /\ UNCHANGED <<row, up, delivered, faults, rearmed>>

EnqueueInsert(p, m) ==
    LET t == <<p, m>> IN
    /\ thread[t].pc = "checked"
    /\ row[m].status = "none"           \* the id is a fresh one
    /\ row' = [row EXCEPT ![m].status = "pending", ![m].due = TRUE]
    /\ GoTo(t, "start")
    /\ UNCHANGED <<up, delivered, faults, rearmed>>

-----------------------------------------------------------------------------
(* Claims.                                                                   *)

ClaimableNow(m) == row[m].status = "pending" /\ row[m].due
ClaimablePending(m) == ClaimableNow(m)
ClaimableNext(m) == ClaimableNow(m) \/ (row[m].status = "sending" /\ row[m].stale)

ClaimedStillPending(r) == [r EXCEPT !.attempts = @ + 1, !.stale = FALSE]
ClaimedRow(r) == [r EXCEPT !.status = "sending", !.attempts = @ + 1, !.stale = FALSE]

\* the row as the claim returned it
Take(t, m) == /\ row' = [row EXCEPT ![m] = ClaimedRow(@)]
              /\ thread' = [thread EXCEPT ![t].pc = "send", ![t].msg = m,
                                          ![t].attempts = row'[m].attempts]

ClaimSpecific(p, m) ==
    LET t == <<p, m>> IN
    /\ thread[t].pc = "start"
    /\ IF ClaimableNow(m) THEN Take(t, m) ELSE GoTo(t, "off") /\ UNCHANGED row
    /\ UNCHANGED <<up, delivered, faults, rearmed>>

ClaimNextDue(p, m) ==
    /\ thread[<<p, Sweep>>].pc = "sweep"
    /\ ClaimableNext(m)
    /\ Take(<<p, Sweep>>, m)
    /\ UNCHANGED <<up, delivered, faults, rearmed>>

-----------------------------------------------------------------------------
(* The transport: it accepts the message or not; the answer of one that      *)
(* accepted may be lost (a timeout), which send_email reports as a failure.  *)

SendAccepted(t) ==
    /\ thread[t].pc = "send"
    /\ thread' = [thread EXCEPT ![t].pc = "finish", ![t].ok = TRUE]
    /\ delivered' = [delivered EXCEPT ![thread[t].msg] = @ + 1]
    /\ UNCHANGED <<row, up, faults, rearmed>>

SendFailed(t) ==
    /\ thread[t].pc = "send"
    /\ thread' = [thread EXCEPT ![t].pc = "finish", ![t].ok = FALSE]
    /\ \/ UNCHANGED <<delivered, faults>>
       \/ Fault /\ delivered' = [delivered EXCEPT ![thread[t].msg] = @ + 1]
    /\ UNCHANGED <<row, up, rearmed>>

-----------------------------------------------------------------------------
(* _finish: by row id alone, with the attempt count read at the claim.       *)

LastAttemptSent(r, ok, attempts) ==
    IF ok \/ attempts >= MaxAttempts
    THEN [r EXCEPT !.status = "sent", !.stale = FALSE]
    ELSE [r EXCEPT !.status = "pending", !.due = FALSE, !.stale = FALSE]
FinishedRow(r, ok, attempts) ==
    IF ok THEN [r EXCEPT !.status = "sent", !.stale = FALSE]
    ELSE IF attempts >= MaxAttempts
         THEN [r EXCEPT !.status = "failed", !.cooling = TRUE, !.stale = FALSE]
         ELSE [r EXCEPT !.status = "pending", !.due = FALSE, !.stale = FALSE]

Finish(t) ==
    LET m == thread[t].msg IN
    /\ thread[t].pc = "finish"
    /\ row' = [row EXCEPT ![m] = IF @.status = "gone" THEN @
                                 ELSE FinishedRow(@, thread[t].ok, thread[t].attempts)]
    /\ GoTo(t, After(t))
    /\ UNCHANGED <<up, delivered, faults, rearmed>>

\* a statement of enqueue, of the claim or of _finish raises: logged, nothing written
StatementFails(t) ==
    /\ thread[t].pc \in {"checked", "start", "finish"}
    /\ Fault
    /\ GoTo(t, After(t))
    /\ UNCHANGED <<row, up, delivered, rearmed>>

\* clear_failed: the dead letters of one recipient go
ClearFailed(a) ==
    /\ \E m \in Msgs : To[m] = a /\ row[m].status = "failed"
    /\ row' = [m \in Msgs |-> IF To[m] = a /\ row[m].status = "failed"
                              THEN [row[m] EXCEPT !.status = "gone", !.cooling = FALSE]
                              ELSE row[m]]
    /\ UNCHANGED <<thread, up, delivered, faults, rearmed>>

-----------------------------------------------------------------------------
(* Processes.  Starting one runs reclaim_stuck, which resets every 'sending' *)
(* row, those of a process that runs beside it too, then starts its sweeper. *)

Reclaimed(r) == IF r.status = "sending" THEN [r EXCEPT !.status = "pending", !.stale = FALSE] ELSE r

Start(p) ==
    /\ p \notin up
    /\ up' = up \cup {p}
    /\ GoTo(<<p, Sweep>>, "sweep")
    /\ \/ /\ row' = [m \in Msgs |-> Reclaimed(row[m])]
          /\ rearmed' = [m \in Msgs |-> IF Owned(m) THEN rearmed[m] + 1 ELSE rearmed[m]]
          /\ UNCHANGED faults
       \/ Fault /\ UNCHANGED <<row, rearmed>>
    /\ UNCHANGED delivered

\* a crash, or the stop of a deploy: the threads are daemons and die with it
Crash(p) ==
    /\ p \in up
    /\ Fault
    /\ up' = up \ {p}
    /\ thread' = [t \in Threads |-> IF t[1] = p THEN At("off") ELSE thread[t]]
    /\ UNCHANGED <<row, delivered, rearmed>>

-----------------------------------------------------------------------------
(* Time.                                                                     *)

BecomesDue(m) ==
    /\ row[m].status = "pending" /\ ~row[m].due
    /\ row' = [row EXCEPT ![m].due = TRUE]
    /\ UNCHANGED <<thread, up, delivered, faults, rearmed>>

LeaseEnds(m) ==
    /\ row[m].status = "sending" /\ ~row[m].stale
    /\ row' = [row EXCEPT ![m].stale = TRUE]
    /\ rearmed' = [rearmed EXCEPT ![m] = IF Owned(m) THEN @ + 1 ELSE @]
    /\ UNCHANGED <<thread, up, delivered, faults>>

CooldownEnds(m) ==
    /\ row[m].cooling
    /\ row' = [row EXCEPT ![m].cooling = FALSE]
    /\ UNCHANGED <<thread, up, delivered, faults, rearmed>>

-----------------------------------------------------------------------------

Init ==
    /\ row = [m \in Msgs |-> [status |-> "none", attempts |-> 0,
                              due |-> FALSE, stale |-> FALSE, cooling |-> FALSE]]
    /\ thread = [t \in Threads |-> At("off")]
    /\ up = {}
    /\ delivered = [m \in Msgs |-> 0]
    /\ faults = 0
    /\ rearmed = [m \in Msgs |-> 0]

Request(p, m) == EnqueueCheck(p, m) \/ EnqueueInsert(p, m)
Claim(p, m) == ClaimSpecific(p, m) \/ ClaimNextDue(p, m)
Send(t) == SendAccepted(t) \/ SendFailed(t)
Time(m) == BecomesDue(m) \/ LeaseEnds(m)

Next ==
    \/ \E p \in Procs, m \in Msgs : Request(p, m) \/ Claim(p, m)
    \/ \E t \in Threads : Send(t) \/ Finish(t) \/ StatementFails(t)
    \/ \E a \in Addrs : ClearFailed(a)
    \/ \E p \in Procs : Start(p) \/ Crash(p)
    \/ \E m \in Msgs : Time(m) \/ CooldownEnds(m)

\* A request that was checked inserts, threads run, the transport answers (it
\* has timeouts), time passes, and when no process is left one is started.  Nothing
\* makes a user ask for mail, an operator clear rows, or a fault happen.
Fairness ==
    /\ \A p \in Procs : WF_vars(\E m \in Msgs : EnqueueInsert(p, m))
    /\ \A p \in Procs : WF_vars(\E m \in Msgs : Claim(p, m))
    /\ \A t \in Threads : WF_vars(Send(t) \/ Finish(t))
    /\ WF_vars(up = {} /\ \E p \in Procs : Start(p))
    /\ \A m \in Msgs : WF_vars(Time(m))

Spec == Init /\ [][Next]_vars /\ Fairness

-----------------------------------------------------------------------------
(* The inductive invariant.                                                  *)

\* only processes that run have threads, and a thread names a message exactly
\* while it holds it
ThreadsLive ==
    /\ \A t \in Threads : thread[t].pc # "off" => t[1] \in up
    /\ \A t \in Threads : thread[t].pc \in {"send", "finish"} => thread[t].msg \in Msgs
    /\ \A t \in Threads : thread[t].ok = TRUE => thread[t].pc = "finish"

\* every claim has a number of its own, the row's at most
ClaimsDiffer ==
    \A t \in Threads, m \in Msgs : Holds(t, m) =>
        /\ row[m].status # "none"
        /\ thread[t].attempts <= row[m].attempts
        /\ \A u \in Threads : Holds(u, m) /\ thread[u].attempts = thread[t].attempts => u = t

\* a row that no claim stands behind and that is still to be sent
Open(m) == row[m].status \in {"none", "pending", "sending"} /\ ~Owned(m)

\* the threads that may still add a delivery, or leave it to the row
Senders(m) == {t \in Threads : Holds(t, m) /\ thread[t].ok = FALSE}

\* the threads whose claim the row no longer shows and whose failed send would
\* make it pending again
Strays(m) == {t \in Threads : Holds(t, m) /\ ~Owns(t, m) /\ thread[t].attempts < MaxAttempts}

One(b) == IF b THEN 1 ELSE 0

DeliveriesCounted ==
    \A m \in Msgs :
        delivered[m] + Cardinality(Senders(m)) + One(Open(m)) <= 1 + faults + rearmed[m]

AttemptsCounted ==
    \A m \in Msgs :
        /\ row[m].attempts + One(Open(m)) + Cardinality(Strays(m)) <= MaxAttempts + faults + rearmed[m]
        /\ Cardinality(Strays(m)) <= faults + rearmed[m]

AcceptedIsDelivered ==
    \A m \in Msgs :
        row[m].status = "sent" \/ (\E t \in Threads : Holds(t, m) /\ thread[t].ok = TRUE)
            => delivered[m] > 0

-----------------------------------------------------------------------------
(* Properties, of any number of processes that overlap and sends that last   *)
(* as long as they like.                                                     *)

TypeOK ==
    /\ row \in [Msgs -> Row]
    /\ thread \in [Threads -> Thread]
    /\ up \subseteq Procs
    /\ delivered \in [Msgs -> Nat]
    /\ faults \in Nat
    /\ rearmed \in [Msgs -> Nat]

\* The race-freedom that the module's docstring claims, where it holds: unless
\* a starting process or the end of the lease freed a row under its sender, the
\* immediate attempts and the sweepers of all processes never send one message
\* at the same time, and the sender's row stays 'sending' under its own claim.
HolderOwnsRow ==
    \A t \in Threads, m \in Msgs : Holds(t, m) /\ rearmed[m] = 0 =>
        /\ Owns(t, m)
        /\ \A u \in Threads : Holds(u, m) => u = t

\* A row marked 'sent' was accepted by the provider at least once, whichever
\* thread's _finish wrote it.
SentWasDelivered == \A m \in Msgs : row[m].status = "sent" => delivered[m] > 0

\* A row is dead-lettered, and so silences its recipient, only after all its
\* attempts were claimed.
FailedAfterAllAttempts == \A m \in Msgs : row[m].status = "failed" => row[m].attempts >= MaxAttempts

\* "Rare": a recipient gets a message again only through a crash, a lost
\* answer, a failed statement, or a row freed under its sender by a starting
\* process or the end of the lease, and at most once for each of them.
RepeatsNeedAFault == \A m \in Msgs : delivered[m] <= 1 + faults + rearmed[m]

\* Attempts past max_attempts are possible (see AttemptsWithinLimit), but each
\* needs a fault, or a row freed under its sender, of its own.
ClaimsNeedAFault == \A m \in Msgs : row[m].attempts <= MaxAttempts + faults + rearmed[m]

\* _finish writes by id with no check of status or claim; still no message
\* recorded as sent is re-armed or dead-lettered by a late answer, unless its
\* row was freed under a sender.
SentIsFinal ==
    [][\A m \in Msgs : row[m].status = "sent" /\ rearmed[m] = 0 => row'[m].status = "sent"]_vars

\* Every queued message ends, sent or dead-lettered, through crashes, expired
\* leases and lost answers.
EveryMessageSettles ==
    \A m \in Msgs : row[m].status = "pending" ~> row[m].status \in {"sent", "failed", "gone"}

\* All of it: what the proofs carry from step to step.
IInv == /\ TypeOK
        /\ ThreadsLive
        /\ ClaimsDiffer
        /\ HolderOwnsRow
        /\ AttemptsCounted
        /\ DeliveriesCounted
        /\ AcceptedIsDelivered
        /\ FailedAfterAllAttempts

\* What email_outbox.py:11-12 states: max_attempts is a limit that a crash
\* cannot lift, as attempts are counted when claimed.
AttemptsWithinLimit == \A m \in Msgs : row[m].attempts <= MaxAttempts

\* What email_outbox.py:17-19 states: several workers "can never double-send".
\* A process that starts beside another one frees the rows that one is sending.
NeverDoubleSends == \A m \in Msgs : faults = 0 => delivered[m] <= 1
=============================================================================
