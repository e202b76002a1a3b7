------------------------------- MODULE ChatTurns -------------------------------
(***************************************************************************)
(* The turns of one conversation (api.py ask, ask_cancel, conversation_stream, *)
(* _delete; chat/session.py; chat/history_store.py): the registry of the live *)
(* answer, the thread that writes it, the clients that read it while it is     *)
(* written or come back to it, Stop, delete, and the messages that are saved.  *)
(*                                                                         *)
(* A turn is a /ask request and its thread.  A lock is held for one action.    *)
(* What is asked, found and generated is left out: a token is its number.      *)
(***************************************************************************)
EXTENDS Integers, Sequences, FiniteSets

CONSTANTS
    Readers,      \* clients that follow an answer
    TurnBound,    \* bound: turns asked
    TokenBound,   \* bound: tokens of an answer
    FaultBound    \* bound: crashes, failed statements

ASSUME BoundAssumption == TurnBound \in Nat /\ TokenBound \in Nat /\ FaultBound \in Nat

VARIABLES
    live,      \* _live[cid]: the registered turn, 0: none
    pc,        \* where each turn's request or thread is
    gen,       \* its _LiveGen: tokens, status, canceled
    verdict,   \* what its thread is about to report
    reader,    \* a client: the turn it follows, what it has seen, its queue
    conv,      \* the conversation: whether its row exists, its messages
    popped,    \* a delete is between the registry and the row
    faults,    \* bounded counter
    late,      \* history variable: turns stopped after the last poll before they save
    dropped,   \* history variable: turns whose slot a delete emptied
    failed     \* history variable: turns whose saving failed
vars == <<live, pc, gen, verdict, reader, conv, popped, faults, late, dropped, failed>>

Turns == 1 .. TurnBound
Outcomes == {"done", "canceled", "error"}
\* a turn whose request was accepted and whose thread is not over
InThread == {"setup", "asking", "saveUser", "saveAnswer", "finish", "release"}
Token(n) == [kind |-> "token", n |-> n]
Final(status) == [kind |-> status, n |-> 0]
NewGen == [tokens |-> 0, status |-> "running", canceled |-> FALSE]
NoReader == [step |-> "idle", turn |-> 0, seen |-> <<>>, queue |-> <<>>]
\* all that a reader of turn t should get, by now
Said(t) == [n \in 1 .. gen[t].tokens |-> Token(n)]
Log(t) == IF gen[t].status = "running" THEN Said(t) ELSE Append(Said(t), Final(gen[t].status))
Message(t, role) == [turn |-> t, role |-> role]
Messages == {conv.messages[n] : n \in DOMAIN conv.messages}

-----------------------------------------------------------------------------
(* The request: check the conversation, register, prepare, start the thread. *)

Goto(t, step) == pc' = [pc EXCEPT ![t] = step]
\* ask: the conversation is the user's
Ask(t) ==
    /\ pc[t] = "none" /\ \A u \in 1 .. t - 1 : pc[u] # "none"
    /\ conv.exists
    /\ Goto(t, "owned")
    /\ UNCHANGED <<live, gen, verdict, reader, conv, popped, faults, late, dropped, failed>>
RegisterAnyway(t) ==
    /\ pc[t] = "owned"
    /\ Goto(t, "setup") /\ live' = t
    /\ UNCHANGED <<gen, verdict, reader, conv, popped, faults, late, dropped, failed>>
\* one active turn; a canceled one counts as free
Register(t) ==
    /\ pc[t] = "owned"
    /\ LET busy == live # 0 /\ ~gen[live].canceled
       IN  IF busy THEN Goto(t, "refused") /\ UNCHANGED live
           ELSE Goto(t, "setup") /\ live' = t
    /\ UNCHANGED <<gen, verdict, reader, conv, popped, faults, late, dropped, failed>>
\* the session, scope, key and model are read, and the thread starts
Start(t) ==
    /\ pc[t] = "setup"
    /\ Goto(t, "asking")
    /\ UNCHANGED <<live, gen, verdict, reader, conv, popped, faults, late, dropped, failed>>
\* a refused scope or a failed statement: the request ends and keeps its slot
Leak(t) ==
    /\ pc[t] = "setup" /\ faults < FaultBound
    /\ faults' = faults + 1
    /\ Goto(t, "leaked")
    /\ UNCHANGED <<live, gen, verdict, reader, conv, popped, late, dropped, failed>>
\* no thread can be started: the request frees its slot and ends
StartFails(t) ==
    /\ pc[t] = "setup" /\ faults < FaultBound
    /\ faults' = faults + 1
    /\ live' = IF live = t THEN 0 ELSE live
    /\ Goto(t, "refused")
    /\ UNCHANGED <<gen, verdict, reader, conv, popped, late, dropped, failed>>
-----------------------------------------------------------------------------
(* The thread: ChatSession.ask with its polls of canceled. *)

\* put an item in the queues of the readers that subscribed to t
Fan(t, item) ==
    [r \in Readers |-> IF reader[r].turn = t /\ reader[r].step = "reading"
                       THEN [reader[r] EXCEPT !.queue = Append(@, item)] ELSE reader[r]]
\* emit
Emit(t) ==
    /\ gen[t].tokens < TokenBound
    /\ gen' = [gen EXCEPT ![t].tokens = @ + 1]
    /\ reader' = Fan(t, Token(gen[t].tokens + 1))
\* a piece of the answer
Generate(t) ==
    /\ pc[t] = "asking" /\ Emit(t)
    /\ UNCHANGED <<live, pc, verdict, conv, popped, faults, late, dropped, failed>>
\* small talk, which no poll precedes, an early abstention or a cached answer: said at once and
\* saved without another poll
Quick(t) ==
    /\ pc[t] = "asking"
    /\ Emit(t) \/ (gen[t].tokens = TokenBound /\ UNCHANGED <<gen, reader>>)
    /\ Goto(t, "saveUser")
    /\ late' = IF gen[t].canceled THEN late \cup {t} ELSE late
    /\ UNCHANGED <<live, verdict, conv, popped, faults, dropped, failed>>
Report(t, outcome) ==
    /\ verdict' = [verdict EXCEPT ![t] = outcome]
    /\ Goto(t, "finish")
\* any poll that sees the Stop
Bail(t) ==
    /\ pc[t] = "asking" /\ gen[t].canceled
    /\ Report(t, "canceled")
    /\ UNCHANGED <<live, gen, reader, conv, popped, faults, late, dropped, failed>>
\* a provider or the database gives an error
GenerateFails(t) ==
    /\ pc[t] = "asking"
    /\ Report(t, "error")
    /\ UNCHANGED <<live, gen, reader, conv, popped, faults, late, dropped, failed>>
LastPollUnchecked(t) ==
    /\ pc[t] = "asking"
    /\ Goto(t, "saveUser")
    /\ UNCHANGED <<live, gen, verdict, reader, conv, popped, faults, late, dropped, failed>>
LastPoll(t) ==
    /\ pc[t] = "asking" /\ ~gen[t].canceled
    /\ Goto(t, "saveUser")
    /\ UNCHANGED <<live, gen, verdict, reader, conv, popped, faults, late, dropped, failed>>
\* _finish: two messages in two transactions
SaveUser(t) ==
    /\ pc[t] = "saveUser" /\ conv.exists
    /\ conv' = [conv EXCEPT !.messages = Append(@, Message(t, "user"))]
    /\ Goto(t, "saveAnswer")
    /\ UNCHANGED <<live, gen, verdict, reader, popped, faults, late, dropped, failed>>
SaveAnswer(t) ==
    /\ pc[t] = "saveAnswer" /\ conv.exists
    /\ conv' = [conv EXCEPT !.messages = Append(@, Message(t, "assistant"))]
    /\ Report(t, "done")
    /\ UNCHANGED <<live, gen, reader, popped, faults, late, dropped, failed>>
\* the conversation is gone, or a statement fails: "persistence must never break the chat"
SaveFails(t) ==
    /\ pc[t] \in {"saveUser", "saveAnswer"}
    /\ (conv.exists => faults < FaultBound)
    /\ faults' = IF conv.exists THEN faults + 1 ELSE faults
    /\ failed' = failed \cup {t}
    /\ Report(t, "done")
    /\ UNCHANGED <<live, gen, reader, conv, popped, late, dropped>>
FinishQuiet(t) ==
    /\ pc[t] = "finish"
    /\ gen' = [gen EXCEPT ![t].status = IF gen[t].canceled THEN "canceled" ELSE verdict[t]]
    /\ Goto(t, "release")
    /\ UNCHANGED <<live, verdict, reader, conv, popped, faults, late, dropped, failed>>
\* finish; a Stop that came meanwhile wins over any other outcome
Finish(t) ==
    LET status == IF gen[t].canceled THEN "canceled" ELSE verdict[t]
    IN  /\ pc[t] = "finish"
        /\ gen' = [gen EXCEPT ![t].status = status]
        /\ reader' = Fan(t, Final(status))
        /\ verdict' = [verdict EXCEPT ![t] = "done"]
        /\ Goto(t, "release")
        /\ UNCHANGED <<live, conv, popped, faults, late, dropped, failed>>
\* _release: only its own slot
Release(t) ==
    /\ pc[t] = "release"
    /\ live' = IF live = t THEN 0 ELSE live
    /\ Goto(t, "over")
    /\ UNCHANGED <<gen, verdict, reader, conv, popped, faults, late, dropped, failed>>
-----------------------------------------------------------------------------
(* Clients. *)

\* ask_cancel
Stop ==
    /\ live # 0 /\ ~gen[live].canceled
    /\ gen' = [gen EXCEPT ![live].canceled = TRUE]
    /\ late' = IF pc[live] \in {"saveUser", "saveAnswer", "finish", "release"}
               THEN late \cup {live} ELSE late
    /\ UNCHANGED <<live, pc, verdict, reader, conv, popped, faults, dropped, failed>>
Registered(t) == pc[t] \notin {"none", "owned", "refused", "lost"}
\* subscribe without its lock: the queue is registered, and what was said is read before
SubscribeTorn(r, t) ==
    /\ reader[r].step = "idle" /\ Registered(t)
    /\ reader' = [reader EXCEPT ![r] = [NoReader EXCEPT !.step = "reading", !.turn = t]]
    /\ UNCHANGED <<live, pc, gen, verdict, conv, popped, faults, late, dropped, failed>>
\* subscribe: the tokens so far, and a queue while the turn runs.  The requester follows its own
\* turn, another client or a reloaded page (conversation_stream) the turn it found registered,
\* which may be over by now
Subscribe(r, t) ==
    /\ reader[r].step = "idle" /\ Registered(t)
    /\ reader' = [reader EXCEPT ![r] =
          [step |-> IF gen[t].status = "running" THEN "reading" ELSE "ended",
           turn |-> t, seen |-> Log(t), queue |-> <<>>]]
    /\ UNCHANGED <<live, pc, gen, verdict, conv, popped, faults, late, dropped, failed>>
\* the next item of the queue; the stream ends with the outcome
Read(r) ==
    LET item == Head(reader[r].queue)
    IN  /\ reader[r].step = "reading" /\ reader[r].queue # <<>>
        /\ reader' = [reader EXCEPT ![r].seen = Append(@, item), ![r].queue = Tail(@),
                         ![r].step = IF item.kind = "token" THEN @ ELSE "ended"]
        /\ UNCHANGED <<live, pc, gen, verdict, conv, popped, faults, late, dropped, failed>>
\* the client is done with the stream, or gone (unsubscribe)
Leave(r) ==
    /\ reader[r].step # "idle"
    /\ reader' = [reader EXCEPT ![r] = NoReader]
    /\ UNCHANGED <<live, pc, gen, verdict, conv, popped, faults, late, dropped, failed>>
\* _delete: the slot, then the row with its messages
Pop ==
    /\ conv.exists /\ ~popped
    /\ popped' = TRUE /\ live' = 0
    /\ dropped' = IF live = 0 THEN dropped ELSE dropped \cup {live}
    /\ UNCHANGED <<pc, gen, verdict, reader, conv, faults, late, failed>>
DeleteRow ==
    /\ popped /\ popped' = FALSE
    /\ conv' = [exists |-> FALSE, messages |-> <<>>]
    /\ UNCHANGED <<live, pc, gen, verdict, reader, faults, late, dropped, failed>>
\* the conversations of a BRD go with it, whatever is registered
DeleteBrd ==
    /\ conv.exists
    /\ conv' = [exists |-> FALSE, messages |-> <<>>]
    /\ UNCHANGED <<live, pc, gen, verdict, reader, popped, faults, late, dropped, failed>>
DeleteFails ==
    /\ popped /\ popped' = FALSE
    /\ faults < FaultBound /\ faults' = faults + 1
    /\ UNCHANGED <<live, pc, gen, verdict, reader, conv, late, dropped, failed>>
\* a restart keeps rows only
Crash ==
    /\ faults < FaultBound /\ faults' = faults + 1
    /\ live' = 0 /\ popped' = FALSE
    /\ pc' = [t \in Turns |-> IF pc[t] = "none" THEN "none" ELSE "lost"]
    /\ verdict' = [t \in Turns |-> "done"]
    /\ failed' = failed \cup {t \in Turns : pc[t] = "saveAnswer"}
    /\ reader' = [r \in Readers |-> NoReader]
    /\ UNCHANGED <<gen, conv, late, dropped>>
-----------------------------------------------------------------------------
Init ==
    /\ live = 0 /\ popped = FALSE /\ faults = 0
    /\ pc = [t \in Turns |-> "none"] /\ gen = [t \in Turns |-> NewGen]
    /\ verdict = [t \in Turns |-> "done"]
    /\ reader = [r \in Readers |-> NoReader]
    /\ conv = [exists |-> TRUE, messages |-> <<>>]
    /\ late = {} /\ dropped = {} /\ failed = {}
Thread(t) ==
    \/ Generate(t) \/ Quick(t) \/ Bail(t) \/ GenerateFails(t) \/ LastPoll(t)
    \/ SaveUser(t) \/ SaveAnswer(t) \/ SaveFails(t) \/ Finish(t) \/ Release(t)
Client(r) == (\E t \in Turns : Subscribe(r, t)) \/ Read(r) \/ Leave(r)
Next ==
    \/ \E t \in Turns : Ask(t) \/ Register(t) \/ Start(t) \/ Leak(t) \/ StartFails(t) \/ Thread(t)
    \/ \E r \in Readers : Client(r)
    \/ Stop \/ Pop \/ DeleteRow \/ DeleteBrd \/ DeleteFails \/ Crash
Spec == Init /\ [][Next]_vars
\* A request and its thread go on: provider calls and statements have timeouts.  A client reads
\* what is sent to it, or is disconnected.
FairSpec ==
    /\ Spec
    /\ \A t \in Turns : WF_vars(Start(t)) /\ WF_vars(Thread(t))
    /\ \A r \in Readers : WF_vars(Read(r))

-----------------------------------------------------------------------------
Items == [kind : {"token"} \cup Outcomes, n : 0 .. TokenBound]
TypeOK ==
    /\ live \in 0 .. TurnBound /\ popped \in BOOLEAN /\ faults \in 0 .. FaultBound
    /\ pc \in [Turns -> InThread \cup {"none", "owned", "refused", "leaked", "over", "lost"}]
    /\ gen \in [Turns -> [tokens : 0 .. TokenBound, status : Outcomes \cup {"running"},
                          canceled : BOOLEAN]]
    /\ verdict \in [Turns -> Outcomes]
    /\ reader \in [Readers -> [step : {"idle", "reading", "ended"},
                               turn : 0 .. TurnBound, seen : Seq(Items), queue : Seq(Items)]]
    /\ conv \in [exists : BOOLEAN,
                 messages : Seq([turn : Turns, role : {"user", "assistant"}])]
    /\ late \subseteq Turns /\ dropped \subseteq Turns /\ failed \subseteq Turns

\* However clients come and go, each gets every token of its answer once and in order, then the
\* outcome, and nothing after it (_LiveGen.subscribe: "atomically snapshot").
ReadersSeeAll ==
    \A r \in Readers :
        LET c == reader[r]
        IN  /\ c.step = "reading" => c.seen \o c.queue = Log(c.turn)
            /\ c.step = "ended" => c.queue = <<>> /\ c.seen = Log(c.turn)
                                   /\ gen[c.turn].status # "running"

Active(t) == pc[t] \in InThread /\ ~gen[t].canceled
\* "One ACTIVE turn per conversation" (api.py:2308), also when a stopped turn winds down beside
\* its successor; only a delete that does not delete lets a second one in.
OneActiveTurn ==
    /\ \A t \in Turns : Active(t) => live = t \/ t \in dropped
    /\ \A t, u \in Turns : Active(t) /\ Active(u) /\ t # u => {t, u} \cap dropped # {}

Saved(t) == Message(t, "user") \in Messages
\* A stopped turn is not saved unless the Stop came after the last poll, and an answer that was
\* reported as done is saved unless the database or a delete prevented it.
SavedAsTold ==
    \A t \in Turns :
        /\ Saved(t) /\ gen[t].canceled => t \in late
        /\ gen[t].status = "done" /\ conv.exists
              => t \in failed \/ {Message(t, "user"), Message(t, "assistant")} \subseteq Messages

\* The history that the next question is read with is made of questions, each followed by its
\* answer, unless a late Stop or a failed delete let two turns save at once.
HistoryIsPairs ==
    \A n \in DOMAIN conv.messages :
        LET m == conv.messages[n]
            overlap == late \cup dropped
        IN  m.role = "user" =>
              \/ m.turn \in failed \cup overlap
              \/ n = Len(conv.messages) /\ pc[m.turn] = "saveAnswer"
              \/ n < Len(conv.messages)
                    /\ (conv.messages[n + 1] = Message(m.turn, "assistant")
                          \/ conv.messages[n + 1].turn \in overlap)

\* A client that follows an answer gets its end, but for a turn whose request failed after it
\* was registered.
ReadersEnd ==
    \A r \in Readers, t \in Turns :
        (reader[r].step = "reading" /\ reader[r].turn = t)
            ~> (reader[r].step # "reading" \/ pc[t] \in {"leaked", "refused"})
\* "the turn is NOT persisted, so a canceled answer never reappears" (api.py:2393)
StoppedNotSaved == \A t \in Turns : gen[t].status = "canceled" => ~Saved(t)
\* "don't leak the registry slot" (api.py:2378): a slot is freed in the end
SlotFreed == \A t \in Turns : (live = t) ~> (live # t)
=============================================================================
