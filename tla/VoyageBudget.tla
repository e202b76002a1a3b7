----------------------------- MODULE VoyageBudget -----------------------------
(***************************************************************************)
(* The calls to the embedding service (core/voyage.py): every call goes     *)
(* through guarded, which takes from one budget of requests and of tokens   *)
(* in a sliding window.  Queries of users go before the embedding of         *)
(* documents, for which the loop of _embed (ingest/jobs.py) calls; a call    *)
(* that meets the service's own limit makes everybody wait.                  *)
(*                                                                         *)
(* Time passes in ticks, and what the code keeps as times of a clock are      *)
(* ages here.  A tick waits for the callers that may go: acquire sleeps        *)
(* until the next call leaves the window or the pause ends (_wait_hint), and   *)
(* every change of the budget notifies all.                                  *)
(***************************************************************************)
EXTENDS Integers, Sequences, FiniteSets

CONSTANTS
    Queries,         \* callers that answer users: a question, a rerank, an edit
    Ingests,         \* callers that embed documents
    Sizes,           \* estimated tokens of a call
    Rpm, Tpm,        \* the limits on requests and tokens in a window
    Reserve,         \* requests that ingestion leaves to a recent chat
    Window, Recent,  \* ticks: of the window, and for which chat counts as recent
    Attempts,        \* attempts of one call
    Transients       \* failures of the service after which a call is given up

ASSUME LimitAssumption ==
    /\ Rpm \in Nat \ {0} /\ Tpm \in Nat \ {0} /\ Reserve \in Nat /\ Sizes \subseteq Nat \ {0}
    /\ Window \in Nat \ {0} /\ Recent \in Nat /\ Recent >= Window
    /\ Attempts \in Nat \ {0} /\ Transients \in Nat \ {0}
    /\ IsFiniteSet(Queries) /\ Queries \cap Ingests = {}

VARIABLES
    calls,     \* the window: the calls made, oldest first, with their age
    caller,    \* what each caller is doing
    waiting,   \* queries_waiting
    quiet,     \* ticks since the last query was let through
    blocked,   \* ticks until the pause after a refused call ends
    active,    \* history variable: ticks for which chat has been recent
    stall      \* history variable: ticks in which queries waited and none got through
budgetVars == <<calls, caller, waiting, quiet, blocked, active, stall>>

Callers == Queries \cup Ingests
AtMost(n, bound) == IF n > bound THEN bound ELSE n
AtLeast(n, bound) == IF n < bound THEN bound ELSE n
Idle == [at |-> "idle", tokens |-> 0, attempt |-> 0, failed |-> 0]
UsedTokens ==
    LET used[n \in 0 .. Len(calls)] == IF n = 0 THEN 0 ELSE used[n - 1] + calls[n].tokens
    IN  used[Len(calls)]

\* at least one request is left to ingestion
Slots(c) ==
    IF c \in Ingests /\ quiet < Recent THEN AtLeast(Rpm - Reserve, 1) ELSE Rpm
FitsAnyTokens(c) == UsedTokens + caller[c].tokens <= Tpm \/ caller[c].tokens > Tpm
\* what is too large for the window goes when it is alone
FitsTokens(c) == UsedTokens + caller[c].tokens <= Tpm \/ calls = <<>>
\* _admissible
AdmissibleRude(c) == blocked = 0 /\ Len(calls) < Slots(c) /\ FitsTokens(c)
Admissible(c) ==
    /\ blocked = 0
    /\ c \in Ingests => waiting = 0
    /\ Len(calls) < Slots(c)
    /\ FitsTokens(c)
Waits(c) == caller[c].at = "wait"
-----------------------------------------------------------------------------
\* a caller enters acquire, the first time or again
Enter(c, record) ==
    /\ caller' = [caller EXCEPT ![c] = [record EXCEPT !.at = "wait"]]
    /\ waiting' = IF c \in Queries THEN waiting + 1 ELSE waiting
\* guarded
Begin(c, size) ==
    /\ caller[c].at = "idle"
    /\ Enter(c, [Idle EXCEPT !.tokens = size])
    /\ UNCHANGED <<calls, quiet, blocked, active, stall>>
\* a question that is not in the cache of embeddings, a rerank or an edited requirement,
BeginQuery(q, size) == q \in Queries /\ Begin(q, size)
\* and the next batch of a document
BeginBatch(i, size) == i \in Ingests /\ Begin(i, size)
\* the end of acquire, with its finally
LeaveUncounted(c) == waiting' = waiting
Leave(c) == waiting' = IF c \in Queries THEN waiting - 1 ELSE waiting
Admit(c) ==
    /\ Waits(c) /\ Admissible(c)
    /\ calls' = Append(calls, [age |-> 0, tokens |-> caller[c].tokens, query |-> c \in Queries])
    /\ caller' = [caller EXCEPT ![c].at = "call"]
    /\ quiet' = IF c \in Queries THEN 0 ELSE quiet
    /\ stall' = IF c \in Queries THEN 0 ELSE stall
    /\ Leave(c)
    /\ UNCHANGED <<blocked, active>>
\* an answer, or an error of the caller's own
Return(c) ==
    /\ caller[c].at = "call"
    /\ caller' = [caller EXCEPT ![c] = Idle]
    /\ UNCHANGED <<calls, waiting, quiet, blocked, active, stall>>
\* the service's own limit was met: everybody pauses, the longer the more often; the sixth time
\* the call is given up
RateLimited(c) ==
    /\ caller[c].at = "call"
    /\ blocked' = AtLeast(blocked, caller[c].attempt + 1)
    /\ IF caller[c].attempt + 1 = Attempts
       THEN caller' = [caller EXCEPT ![c] = Idle] /\ UNCHANGED waiting
       ELSE Enter(c, [caller[c] EXCEPT !.attempt = caller[c].attempt + 1])
    /\ UNCHANGED <<calls, quiet, active, stall>>
\* the service failed: the fourth time the call is given up, before it is tried again after a sleep
Transient(c) ==
    /\ caller[c].at = "call"
    /\ LET attempt == caller[c].attempt + 1  failed == caller[c].failed + 1
       IN  caller' = [caller EXCEPT ![c] =
              IF failed >= Transients \/ attempt = Attempts
              THEN Idle
              ELSE [caller[c] EXCEPT !.at = "sleep", !.attempt = attempt, !.failed = failed]]
    /\ UNCHANGED <<calls, waiting, quiet, blocked, active, stall>>
Wake(c) ==
    /\ caller[c].at = "sleep"
    /\ Enter(c, caller[c])
    /\ UNCHANGED <<calls, quiet, blocked, active, stall>>
\* _prune: the oldest calls leave the window when they are as old as the window
Prune(window) ==
    LET gone == {i \in DOMAIN window : \A j \in 1 .. i : window[j].age >= Window}
    IN  SubSeq(window, Cardinality(gone) + 1, Len(window))
Tick ==
    /\ \A c \in Callers : Waits(c) => ~Admissible(c)
    /\ calls' = Prune([i \in DOMAIN calls |-> [calls[i] EXCEPT !.age = calls[i].age + 1]])
    /\ quiet' = AtMost(quiet + 1, Recent)
    /\ blocked' = AtLeast(blocked - 1, 0)
    /\ active' = IF quiet + 1 < Recent THEN AtMost(active + 1, Window) ELSE 0
    /\ stall' = IF \A q \in Queries : ~Waits(q) THEN 0
                ELSE IF blocked > 0 THEN stall ELSE AtMost(stall + 1, Window + 1)
    /\ UNCHANGED <<caller, waiting>>
-----------------------------------------------------------------------------
BudgetInit ==
    /\ calls = <<>> /\ caller = [c \in Callers |-> Idle] /\ waiting = 0
    /\ quiet = Recent /\ blocked = 0 /\ active = 0 /\ stall = 0
Step(c) == Admit(c) \/ Return(c) \/ Wake(c)
BudgetNext ==
    \/ \E c \in Callers :
          \/ \E size \in Sizes : BeginQuery(c, size) \/ BeginBatch(c, size)
          \/ Step(c) \/ RateLimited(c) \/ Transient(c)
    \/ Tick
BudgetSpec == BudgetInit /\ [][BudgetNext]_budgetVars
\* Time passes; a caller that may go goes (acquire is woken), and a call comes to an end (the
\* client's timeout).
FairBudgetSpec ==
    /\ BudgetSpec /\ WF_budgetVars(Tick)
    /\ \A c \in Callers :
          /\ WF_budgetVars(Admit(c)) /\ WF_budgetVars(Wake(c))
          /\ WF_budgetVars(Return(c) \/ RateLimited(c) \/ Transient(c))
-----------------------------------------------------------------------------
BudgetTypeOK ==
    /\ \A i \in DOMAIN calls : calls[i] \in [age : 0 .. Window - 1, tokens : Sizes, query : BOOLEAN]
    /\ caller \in [Callers -> [at : {"idle", "wait", "call", "sleep"}, tokens : Sizes \cup {0},
                               attempt : 0 .. Attempts - 1, failed : 0 .. Transients - 1]]
    /\ waiting \in 0 .. Cardinality(Queries) /\ quiet \in 0 .. Recent
    /\ blocked \in 0 .. Attempts /\ active \in 0 .. Window /\ stall \in 0 .. Window + 1

\* In no window are there more requests or more tokens than the limits, but for a call that is
\* larger than the window by itself and alone in it.
WithinLimits == Len(calls) <= Rpm /\ (UsedTokens <= Tpm \/ Len(calls) = 1)

\* Once chat has been active for a whole window, documents fill at most what is not reserved.
ChatKeepsRoom ==
    active = Window =>
        Cardinality({i \in DOMAIN calls : ~calls[i].query}) <= AtLeast(Rpm - Reserve, 1)

\* While questions wait, one of them gets through within a window of time, however much is being
\* ingested and however large the calls are; a pause is not counted.
QuestionsMoveOn == stall <= Window

\* The embedding of a document goes on when the questions cease: its call ends, or some question
\* is under way.
IngestResumes ==
    \A i \in Ingests :
        Waits(i) ~> (caller[i].at = "idle" \/ \E q \in Queries : caller[q].at # "idle")

\* "it leaves VOYAGE_QUERY_RESERVE_RPM request slots free -- so uploading a BRD never stalls
\* anyone's questions" (voyage.py:11-12): in an active chat, a question waits for other questions
\* only.
UploadNeverStalls ==
    \A q \in Queries :
        Waits(q) /\ active = Window /\ blocked = 0 /\ (\A i \in DOMAIN calls : ~calls[i].query)
            => Admissible(q)
=============================================================================
