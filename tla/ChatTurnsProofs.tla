---------------------------- MODULE ChatTurnsProofs ----------------------------
(***************************************************************************)
(* Proofs about ChatTurns, for any clients and bounds.                       *)
(***************************************************************************)
EXTENDS ChatTurns, SequenceTheorems, TLAPS

Saving == {"saveUser", "saveAnswer"}
Past == {"release", "over", "lost"}

\* what is known of a turn by where it is
PhasesOK ==
    \A t \in Turns :
        /\ gen[t].status # "running" => pc[t] \in Past
        /\ live = t => pc[t] \in InThread \cup {"leaked"}
        /\ pc[t] \in Saving /\ gen[t].canceled => t \in late
\* what is saved of a turn by where it is
SavedOK ==
    \A t \in Turns :
        /\ Saved(t) => pc[t] \in {"saveAnswer", "finish"} \cup Past
        /\ pc[t] = "saveAnswer" /\ conv.exists => Saved(t)
        /\ pc[t] = "finish" /\ verdict[t] = "done" /\ conv.exists
              => t \in failed \/ {Message(t, "user"), Message(t, "assistant")} \subseteq Messages
OneSlot == \A t \in Turns : Active(t) => live = t \/ t \in dropped
\* a reader follows a turn
Following == \A r \in Readers : reader[r].step # "idle" => reader[r].turn \in Turns
IInv ==
    /\ TypeOK /\ PhasesOK /\ OneSlot /\ SavedOK /\ SavedAsTold /\ HistoryIsPairs
    /\ Following /\ ReadersSeeAll

-----------------------------------------------------------------------------
(* Types.                                                                    *)

LEMMA FanTyped ==
    ASSUME TypeOK, NEW t \in Turns, NEW item \in Items, reader' = Fan(t, item)
    PROVE  reader' \in [Readers -> [step : {"idle", "reading", "ended"}, turn : 0 .. TurnBound,
                                    seen : Seq(Items), queue : Seq(Items)]]
<1> SUFFICES ASSUME NEW r \in Readers
             PROVE  Fan(t, item)[r] \in [step : {"idle", "reading", "ended"}, turn : 0 .. TurnBound,
                                         seen : Seq(Items), queue : Seq(Items)]
  BY DEF Fan
<1>1. reader[r].queue \in Seq(Items)
  BY DEF TypeOK
<1>2. Append(reader[r].queue, item) \in Seq(Items)
  BY <1>1, AppendProperties
<1> QED
  BY <1>2 DEF Fan, TypeOK

LEMMA EmitTyped ==
    ASSUME TypeOK, NEW t \in Turns, Emit(t)
    PROVE  /\ gen' \in [Turns -> [tokens : 0 .. TokenBound, status : Outcomes \cup {"running"},
                                  canceled : BOOLEAN]]
           /\ reader' \in [Readers -> [step : {"idle", "reading", "ended"}, turn : 0 .. TurnBound,
                                       seen : Seq(Items), queue : Seq(Items)]]
<1>1. gen[t].tokens + 1 \in 0 .. TokenBound
  BY BoundAssumption DEF TypeOK, Emit
<1>2. Token(gen[t].tokens + 1) \in Items
  BY <1>1 DEF Token, Items
<1> QED
  BY <1>1, <1>2, FanTyped, ZenonT(30) DEF TypeOK, Emit

LEMMA LogTyped ==
    ASSUME TypeOK, NEW t \in Turns
    PROVE  /\ Said(t) \in Seq(Items) /\ Len(Said(t)) = gen[t].tokens
           /\ Log(t) \in Seq(Items)
<1>1. gen[t].tokens \in 0 .. TokenBound /\ gen[t].status \in Outcomes \cup {"running"}
  BY DEF TypeOK
<1>2. \A n \in 1 .. gen[t].tokens : Token(n) \in Items
  BY <1>1, BoundAssumption DEF Token, Items
<1>3. Said(t) \in Seq(Items) /\ Len(Said(t)) = gen[t].tokens
  BY <1>1, <1>2, BoundAssumption DEF Said
<1>4. gen[t].status # "running" => Final(gen[t].status) \in Items
  BY <1>1, BoundAssumption DEF Final, Items
<1> QED
  BY <1>3, <1>4, AppendProperties DEF Log

LEMMA GotoTyped ==
    ASSUME TypeOK, NEW t \in Turns,
           NEW step \in InThread \cup {"none", "owned", "refused", "leaked", "over", "lost"}, Goto(t, step)
    PROVE  pc' \in [Turns -> InThread \cup {"none", "owned", "refused", "leaked", "over", "lost"}]
  BY DEF TypeOK, Goto

LEMMA ReportTyped ==
    ASSUME TypeOK, NEW t \in Turns, NEW outcome \in Outcomes, Report(t, outcome)
    PROVE  /\ pc' \in [Turns -> InThread \cup {"none", "owned", "refused", "leaked", "over", "lost"}]
           /\ verdict' \in [Turns -> Outcomes]
<1>1. "finish" \in InThread
  BY DEF InThread
<1> QED
  BY <1>1, GotoTyped DEF Report, TypeOK

LEMMA RequestTyped ==
    ASSUME TypeOK, NEW t \in Turns,
           Ask(t) \/ Register(t) \/ Start(t) \/ Leak(t) \/ StartFails(t)
    PROVE  TypeOK'
<1>1. pc' \in [Turns -> InThread \cup {"none", "owned", "refused", "leaked", "over", "lost"}]
  BY GotoTyped DEF Ask, Register, Start, Leak, StartFails, InThread
<1>2. live' \in 0 .. TurnBound /\ faults' \in 0 .. FaultBound
  BY BoundAssumption DEF TypeOK, Ask, Register, Start, Leak, StartFails, Turns
<1>3. UNCHANGED <<gen, verdict, reader, conv, popped, late, dropped, failed>>
  BY DEF Ask, Register, Start, Leak, StartFails
<1> QED
  BY <1>1, <1>2, <1>3 DEF TypeOK

LEMMA ThreadTyped ==
    ASSUME TypeOK, NEW t \in Turns, Thread(t)
    PROVE  TypeOK'
<1>1. CASE Generate(t)
  BY <1>1, EmitTyped DEF Generate, TypeOK
<1>2. CASE Quick(t)
  <2>1. pc' \in [Turns -> InThread \cup {"none", "owned", "refused", "leaked", "over", "lost"}]
    BY <1>2, GotoTyped DEF Quick, InThread
  <2>2. late' \subseteq Turns
    BY <1>2 DEF Quick, TypeOK
  <2> QED
    BY <1>2, <2>1, <2>2, EmitTyped DEF Quick, TypeOK
<1>3. CASE Bail(t) \/ GenerateFails(t)
  BY <1>3, ReportTyped DEF Bail, GenerateFails, TypeOK, Outcomes
<1>4. CASE LastPoll(t)
  BY <1>4, GotoTyped DEF LastPoll, TypeOK, InThread
<1>5. CASE SaveUser(t)
  <2>1. Append(conv.messages, Message(t, "user")) \in Seq([turn : Turns, role : {"user", "assistant"}])
    BY AppendProperties DEF Message, TypeOK
  <2>2. conv' \in [exists : BOOLEAN, messages : Seq([turn : Turns, role : {"user", "assistant"}])]
    BY <1>5, <2>1 DEF SaveUser, TypeOK
  <2>3. pc' \in [Turns -> InThread \cup {"none", "owned", "refused", "leaked", "over", "lost"}]
    BY <1>5, GotoTyped DEF SaveUser, InThread
  <2> QED
    BY <1>5, <2>2, <2>3 DEF SaveUser, TypeOK
<1>6. CASE SaveAnswer(t)
  <2>1. Append(conv.messages, Message(t, "assistant"))
           \in Seq([turn : Turns, role : {"user", "assistant"}])
    BY AppendProperties DEF Message, TypeOK
  <2>2. conv' \in [exists : BOOLEAN, messages : Seq([turn : Turns, role : {"user", "assistant"}])]
    BY <1>6, <2>1 DEF SaveAnswer, TypeOK
  <2> QED
    BY <1>6, <2>2, ReportTyped DEF SaveAnswer, TypeOK, Outcomes
<1>7. CASE SaveFails(t)
  <2>1. faults' \in 0 .. FaultBound
    BY <1>7, BoundAssumption DEF SaveFails, TypeOK
  <2>2. failed' \subseteq Turns
    BY <1>7 DEF SaveFails, TypeOK
  <2>3. "done" \in Outcomes
    BY DEF Outcomes
  <2> QED
    BY <1>7, <2>1, <2>2, <2>3, ReportTyped DEF SaveFails, TypeOK
<1>8. CASE Finish(t)
  <2> DEFINE status == IF gen[t].canceled THEN "canceled" ELSE verdict[t]
  <2>1. status \in Outcomes
    BY DEF Outcomes, TypeOK
  <2>2. Final(status) \in Items
    BY <2>1, BoundAssumption DEF Final, Items
  <2>3. reader' \in [Readers -> [step : {"idle", "reading", "ended"}, turn : 0 .. TurnBound,
                                 seen : Seq(Items), queue : Seq(Items)]]
    BY <1>8, <2>2, FanTyped DEF Finish
  <2>4. gen' \in [Turns -> [tokens : 0 .. TokenBound, status : Outcomes \cup {"running"},
                            canceled : BOOLEAN]]
    BY <1>8, <2>1, ZenonT(30) DEF Finish, TypeOK
  <2>5. pc' \in [Turns -> InThread \cup {"none", "owned", "refused", "leaked", "over", "lost"}]
    BY <1>8, GotoTyped DEF Finish, InThread
  <2>6. verdict' \in [Turns -> Outcomes]
    BY <1>8 DEF Finish, TypeOK, Outcomes
  <2> QED
    BY <1>8, <2>3, <2>4, <2>5, <2>6 DEF Finish, TypeOK
<1>9. CASE Release(t)
  <2>1. live' \in 0 .. TurnBound
    BY <1>9, BoundAssumption DEF Release, TypeOK
  <2> QED
    BY <1>9, <2>1, GotoTyped DEF Release, TypeOK
<1> QED
  BY <1>1, <1>2, <1>3, <1>4, <1>5, <1>6, <1>7, <1>8, <1>9 DEF Thread

LEMMA ClientTyped ==
    ASSUME TypeOK, NEW r \in Readers, Client(r)
    PROVE  TypeOK'
<1> DEFINE R == [step : {"idle", "reading", "ended"}, turn : 0 .. TurnBound,
                 seen : Seq(Items), queue : Seq(Items)]
<1>1. <<>> \in Seq(Items)
  OBVIOUS
<1>2. ASSUME NEW t \in Turns, Subscribe(r, t)
      PROVE  reader' \in [Readers -> R]
  <2>1. Log(t) \in Seq(Items) /\ t \in 0 .. TurnBound
    BY LogTyped, BoundAssumption DEF Turns
  <2> QED
    BY <1>1, <1>2, <2>1 DEF Subscribe, TypeOK
<1>3. ASSUME Read(r)
      PROVE  reader' \in [Readers -> R]
  <2>1. reader[r].queue \in Seq(Items) /\ reader[r].queue # <<>> /\ reader[r].seen \in Seq(Items)
    BY <1>3 DEF Read, TypeOK
  <2>2. Head(reader[r].queue) \in Items /\ Tail(reader[r].queue) \in Seq(Items)
    BY <2>1, HeadTailProperties
  <2>3. Append(reader[r].seen, Head(reader[r].queue)) \in Seq(Items)
    BY <2>1, <2>2, AppendProperties
  <2> QED
    BY <1>3, <2>2, <2>3 DEF Read, TypeOK
<1>4. ASSUME Leave(r)
      PROVE  reader' \in [Readers -> R]
  <2>1. NoReader \in R
    BY <1>1, BoundAssumption DEF NoReader
  <2> QED
    BY <1>4, <2>1 DEF Leave, TypeOK
<1>5. reader' \in [Readers -> R]
  BY <1>2, <1>3, <1>4 DEF Client
<1>6. UNCHANGED <<live, pc, gen, verdict, conv, popped, faults, late, dropped, failed>>
  BY DEF Client, Subscribe, Read, Leave
<1> QED
  BY <1>5, <1>6 DEF TypeOK

LEMMA CrashTyped ==
    ASSUME TypeOK, Crash
    PROVE  TypeOK'
<1>1. reader' \in [Readers -> [step : {"idle", "reading", "ended"}, turn : 0 .. TurnBound,
                               seen : Seq(Items), queue : Seq(Items)]]
  BY BoundAssumption DEF Crash, NoReader
<1>2. pc' \in [Turns -> InThread \cup {"none", "owned", "refused", "leaked", "over", "lost"}]
  BY DEF Crash
<1>3. verdict' \in [Turns -> Outcomes] /\ failed' \subseteq Turns
  BY DEF Crash, Outcomes, TypeOK
<1>4. live' \in 0 .. TurnBound
  BY BoundAssumption DEF Crash
<1>6. popped' \in BOOLEAN
  BY DEF Crash
<1>5. faults' \in 0 .. FaultBound
  BY BoundAssumption DEF Crash, TypeOK
<1> QED
  BY <1>1, <1>2, <1>3, <1>4, <1>5, <1>6 DEF Crash, TypeOK

LEMMA TypeStep ==
    ASSUME TypeOK, [Next]_vars
    PROVE  TypeOK'
<1>1. CASE Stop
  <2>1. live \in Turns
    BY <1>1, BoundAssumption DEF Stop, TypeOK, Turns
  <2>2. gen' \in [Turns -> [tokens : 0 .. TokenBound, status : Outcomes \cup {"running"},
                            canceled : BOOLEAN]]
    BY <1>1, <2>1, ZenonT(30) DEF Stop, TypeOK
  <2>3. late' \subseteq Turns
    BY <1>1, <2>1 DEF Stop, TypeOK
  <2> QED
    BY <1>1, <2>2, <2>3 DEF Stop, TypeOK
<1>2. CASE Pop
  <2>1. live' \in 0 .. TurnBound /\ dropped' \subseteq Turns /\ popped' \in BOOLEAN
    BY <1>2, BoundAssumption DEF Pop, TypeOK, Turns
  <2> QED
    BY <1>2, <2>1 DEF Pop, TypeOK
<1>3. CASE DeleteRow \/ DeleteBrd
  <2>1. conv' \in [exists : BOOLEAN, messages : Seq([turn : Turns, role : {"user", "assistant"}])]
    <3>1. <<>> \in Seq([turn : Turns, role : {"user", "assistant"}])
      OBVIOUS
    <3>2. conv' = [exists |-> FALSE, messages |-> <<>>]
      BY <1>3 DEF DeleteRow, DeleteBrd
    <3> DEFINE gone == [exists |-> FALSE, messages |-> <<>>]
    <3>3. gone \in [exists : BOOLEAN, messages : Seq([turn : Turns, role : {"user", "assistant"}])]
      BY <3>1
    <3> QED
      BY <3>2, <3>3
  <2>2. popped' \in BOOLEAN
    BY <1>3 DEF DeleteRow, DeleteBrd, TypeOK
  <2> QED
    BY <1>3, <2>1, <2>2 DEF DeleteRow, DeleteBrd, TypeOK
<1>4. CASE DeleteFails
  <2>1. faults' \in 0 .. FaultBound
    BY <1>4, BoundAssumption DEF DeleteFails, TypeOK
  <2> QED
    BY <1>4, <2>1 DEF DeleteFails, TypeOK
<1>5. CASE UNCHANGED vars
  BY <1>5 DEF vars, TypeOK
<1> QED
  BY <1>1, <1>2, <1>3, <1>4, <1>5, RequestTyped, ThreadTyped, ClientTyped, CrashTyped DEF Next

-----------------------------------------------------------------------------
(* Where turns are, and the one slot.                                        *)

LEMMA OneOfTwo ==
    ASSUME TypeOK, PhasesOK, OneSlot, NEW t \in Turns, NEW u \in Turns, t # u,
           pc[t] \in Saving, pc[u] \in Saving
    PROVE  t \in late \cup dropped \/ u \in late \cup dropped
<1>1. pc[t] \in InThread /\ pc[u] \in InThread
  BY DEF Saving, InThread
<1>2. (Active(t) \/ t \in late) /\ (Active(u) \/ u \in late)
  BY <1>1 DEF PhasesOK, Active, TypeOK
<1> QED
  BY <1>2 DEF OneSlot

LEMMA EmitKeeps ==
    ASSUME TypeOK, NEW t \in Turns, Emit(t)
    PROVE  \A u \in Turns : gen'[u].status = gen[u].status /\ gen'[u].canceled = gen[u].canceled
<1> DEFINE G == [tokens : 0 .. TokenBound, status : Outcomes \cup {"running"}, canceled : BOOLEAN]
           k == gen[t].tokens + 1
<1>1. gen \in [Turns -> G]
  BY DEF TypeOK
<1>2. gen' = [gen EXCEPT ![t].tokens = k]
  BY DEF Emit
<1> HIDE DEF k
<1> QED
  BY <1>1, <1>2

LEMMA RequestPhases ==
    ASSUME TypeOK, PhasesOK, OneSlot, NEW t \in Turns,
           Ask(t) \/ Register(t) \/ Start(t) \/ Leak(t) \/ StartFails(t)
    PROVE  PhasesOK' /\ OneSlot'
<1>1. CASE Ask(t)
  BY <1>1 DEF Ask, Goto, PhasesOK, OneSlot, Active, InThread, Saving, Past, TypeOK
<1>2. CASE Register(t)
  <2>1. CASE live # 0 /\ ~gen[live].canceled
    BY <1>2, <2>1 DEF Register, Goto, PhasesOK, OneSlot, Active, InThread, Saving, Past, TypeOK
  <2>2. CASE ~(live # 0 /\ ~gen[live].canceled)
    <3>1. live' = t /\ pc' = [pc EXCEPT ![t] = "setup"]
             /\ UNCHANGED <<gen, late, dropped>>
      BY <1>2, <2>2 DEF Register, Goto
    <3>2. PhasesOK'
      BY <1>2, <3>1 DEF Register, PhasesOK, InThread, Saving, Past, TypeOK
    <3>3. \A u \in Turns : live = u => ~Active(u)
      BY <2>2 DEF Active, Turns
    <3>4. OneSlot'
      BY <1>2, <3>1, <3>3 DEF OneSlot, Active, TypeOK
    <3> QED
      BY <3>2, <3>4
  <2> QED
    BY <2>1, <2>2
<1>3. CASE Start(t)
  BY <1>3 DEF Start, Goto, PhasesOK, OneSlot, Active, InThread, Saving, Past, TypeOK
<1>4. CASE Leak(t)
  BY <1>4 DEF Leak, Goto, PhasesOK, OneSlot, Active, InThread, Saving, Past, TypeOK
<1>5. CASE StartFails(t)
  <2>1. \A u \in Turns : u # 0
    BY DEF Turns
  <2>2. /\ pc[t] = "setup" /\ pc' = [pc EXCEPT ![t] = "refused"]
        /\ live' = (IF live = t THEN 0 ELSE live)
        /\ UNCHANGED <<gen, late, dropped>>
    BY <1>5 DEF StartFails, Goto
  <2>3. PhasesOK'
    BY <2>1, <2>2 DEF PhasesOK, InThread, Saving, Past, TypeOK
  <2>4. OneSlot'
    BY <2>2 DEF OneSlot, Active, InThread, TypeOK
  <2> QED
    BY <2>3, <2>4
<1> QED
  BY <1>1, <1>2, <1>3, <1>4, <1>5

LEMMA ThreadPhases ==
    ASSUME TypeOK, PhasesOK, OneSlot, NEW t \in Turns, Thread(t)
    PROVE  PhasesOK' /\ OneSlot'
<1>1. CASE Generate(t)
  BY <1>1 DEF Generate, Emit, PhasesOK, OneSlot, Active, TypeOK
<1>2. CASE Quick(t)
  <2>0. \A u \in Turns : gen'[u].status = gen[u].status /\ gen'[u].canceled = gen[u].canceled
    BY <1>2, EmitKeeps DEF Quick
  <2>1. /\ pc[t] = "asking" /\ pc' = [pc EXCEPT ![t] = "saveUser"]
        /\ late \subseteq late' /\ (gen[t].canceled => t \in late')
        /\ UNCHANGED <<live, dropped>>
    BY <1>2 DEF Quick, Goto
  <2> QED
    BY <2>0, <2>1 DEF PhasesOK, OneSlot, Active, InThread, Saving, Past, TypeOK
<1>3. CASE Bail(t) \/ GenerateFails(t)
  BY <1>3 DEF Bail, GenerateFails, Report, Goto, PhasesOK, OneSlot, Active, InThread, Saving, Past,
              TypeOK
<1>4. CASE LastPoll(t)
  BY <1>4 DEF LastPoll, Goto, PhasesOK, OneSlot, Active, InThread, Saving, Past, TypeOK
<1>5. CASE SaveUser(t)
  BY <1>5 DEF SaveUser, Goto, PhasesOK, OneSlot, Active, InThread, Saving, Past, TypeOK
<1>6. CASE SaveAnswer(t) \/ SaveFails(t)
  BY <1>6 DEF SaveAnswer, SaveFails, Report, Goto, PhasesOK, OneSlot, Active, InThread, Saving,
              Past, TypeOK
<1>7. CASE Finish(t)
  BY <1>7 DEF Finish, Goto, PhasesOK, OneSlot, Active, InThread, Saving, Past, TypeOK
<1>8. CASE Release(t)
  <2>1. \A u \in Turns : u # 0
    BY DEF Turns
  <2>2. /\ pc[t] = "release" /\ pc' = [pc EXCEPT ![t] = "over"]
        /\ live' = (IF live = t THEN 0 ELSE live)
        /\ UNCHANGED <<gen, late, dropped>>
    BY <1>8 DEF Release, Goto
  <2>3. PhasesOK'
    BY <2>1, <2>2 DEF PhasesOK, InThread, Saving, Past, TypeOK
  <2>4. OneSlot'
    BY <2>2 DEF OneSlot, Active, InThread, TypeOK
  <2> QED
    BY <2>3, <2>4
<1> QED
  BY <1>1, <1>2, <1>3, <1>4, <1>5, <1>6, <1>7, <1>8 DEF Thread

LEMMA PhasesStep ==
    ASSUME TypeOK, PhasesOK, OneSlot, [Next]_vars
    PROVE  PhasesOK' /\ OneSlot'
<1>1. ASSUME NEW r \in Readers, Client(r)
      PROVE  PhasesOK' /\ OneSlot'
  BY <1>1 DEF Client, Subscribe, Read, Leave, PhasesOK, OneSlot, Active
<1>2. CASE Stop
  <2>1. live \in Turns
    BY <1>2, BoundAssumption DEF Stop, TypeOK, Turns
  <2>2. /\ \A u \in Turns : /\ gen'[u].status = gen[u].status
                            /\ gen'[u].canceled = (gen[u].canceled \/ u = live)
        /\ late \subseteq late' /\ (pc[live] \in Saving => live \in late')
        /\ UNCHANGED <<live, pc, dropped>>
    BY <1>2, <2>1 DEF Stop, TypeOK, Saving
  <2> QED
    BY <2>1, <2>2 DEF PhasesOK, OneSlot, Active
<1>3. CASE Pop
  <2>1. \A u \in Turns : live = u => u \in dropped'
    BY <1>3 DEF Pop, Turns
  <2>2. /\ dropped \subseteq dropped' /\ live' = 0
        /\ UNCHANGED <<pc, gen, late>>
    BY <1>3 DEF Pop
  <2>3. \A u \in Turns : u # 0
    BY DEF Turns
  <2> QED
    BY <2>1, <2>2, <2>3 DEF PhasesOK, OneSlot, Active
<1>4. CASE DeleteRow \/ DeleteBrd \/ DeleteFails \/ UNCHANGED vars
  BY <1>4 DEF DeleteRow, DeleteBrd, DeleteFails, vars, PhasesOK, OneSlot, Active
<1>5. CASE Crash
  <2>1. \A u \in Turns : pc'[u] \in {"none", "lost"} /\ (pc'[u] = "none" => pc[u] = "none")
    BY <1>5 DEF Crash
  <2>2. live' = 0 /\ UNCHANGED <<gen, late>> /\ \A u \in Turns : u # 0
    BY <1>5 DEF Crash, Turns
  <2> QED
    BY <2>1, <2>2 DEF PhasesOK, OneSlot, Active, InThread, Saving, Past
<1> QED
  BY <1>1, <1>2, <1>3, <1>4, <1>5, RequestPhases, ThreadPhases DEF Next

-----------------------------------------------------------------------------
(* What is saved.                                                            *)

MessageRow == [turn : Turns, role : {"user", "assistant"}]

\* a saved message is added to those there are
LEMMA MessageAdded ==
    ASSUME TypeOK, NEW m \in MessageRow,
           conv' = [conv EXCEPT !.messages = Append(@, m)]
    PROVE  /\ Messages' = Messages \cup {m}
           /\ conv'.exists = conv.exists
           /\ Len(conv'.messages) = Len(conv.messages) + 1
           /\ \A n \in 1 .. Len(conv.messages) : conv'.messages[n] = conv.messages[n]
           /\ conv'.messages[Len(conv.messages) + 1] = m
<1>1. conv.messages \in Seq(MessageRow)
  BY DEF TypeOK, MessageRow
<1>2. conv'.messages = Append(conv.messages, m) /\ conv'.exists = conv.exists
  BY DEF TypeOK
<1>3. /\ Len(conv'.messages) = Len(conv.messages) + 1
      /\ DOMAIN conv'.messages = 1 .. Len(conv.messages) + 1
      /\ \A n \in 1 .. Len(conv.messages) : conv'.messages[n] = conv.messages[n]
      /\ conv'.messages[Len(conv.messages) + 1] = m
  BY <1>1, <1>2, AppendProperties
<1>4. DOMAIN conv.messages = 1 .. Len(conv.messages) /\ Len(conv.messages) \in Nat
  BY <1>1
<1>5. Messages' = Messages \cup {m}
  BY <1>3, <1>4 DEF Messages
<1> QED
  BY <1>2, <1>3, <1>5

\* a step that neither saves, ends nor stops a turn
LEMMA SavedStays ==
    ASSUME SavedOK, SavedAsTold, conv' = conv, UNCHANGED <<verdict, gen>>,
           failed \subseteq failed', late \subseteq late',
           \A t \in Turns : \/ pc'[t] = pc[t]
                           \/ /\ pc[t] \notin {"saveAnswer", "finish"} \cup Past
                              /\ pc'[t] \notin {"saveAnswer", "finish"}
                           \/ pc'[t] \in Past
    PROVE  SavedOK' /\ SavedAsTold'
<1>1. Messages' = Messages
  BY DEF Messages
<1>2. SavedOK'
  BY <1>1 DEF SavedOK, Saved, Message, Past
<1>3. SavedAsTold'
  BY <1>1 DEF SavedAsTold, Saved, Message
<1> QED
  BY <1>2, <1>3

LEMMA ThreadSaved ==
    ASSUME TypeOK, PhasesOK, SavedOK, SavedAsTold, NEW t \in Turns, Thread(t)
    PROVE  SavedOK' /\ SavedAsTold'
<1> DEFINE u == Message(t, "user")
           a == Message(t, "assistant")
<1>0. u \in MessageRow /\ a \in MessageRow
  BY DEF Message, MessageRow
<1>1. CASE Generate(t) \/ Quick(t) \/ Bail(t) \/ GenerateFails(t) \/ LastPoll(t)
  <2>1. Messages' = Messages /\ UNCHANGED <<conv, failed>> /\ late \subseteq late'
    BY <1>1 DEF Generate, Quick, Bail, GenerateFails, LastPoll, Messages
  <2>2. \A w \in Turns : gen'[w].status = gen[w].status /\ gen'[w].canceled = gen[w].canceled
    <3>1. CASE Generate(t) \/ Quick(t)
      BY <3>1, EmitKeeps DEF Generate, Quick
    <3>2. CASE Bail(t) \/ GenerateFails(t) \/ LastPoll(t)
      BY <3>2 DEF Bail, GenerateFails, LastPoll
    <3> QED
      BY <1>1, <3>1, <3>2
  <2>3. /\ pc[t] = "asking"
        /\ \A w \in Turns : w # t => pc'[w] = pc[w] /\ verdict'[w] = verdict[w]
        /\ \/ pc'[t] \in {"asking", "saveUser"}
           \/ pc'[t] = "finish" /\ verdict'[t] # "done"
    <3>1. CASE Generate(t) \/ Quick(t) \/ LastPoll(t)
      <4>1. /\ pc[t] = "asking" /\ verdict' = verdict
            /\ (pc' = pc \/ pc' = [pc EXCEPT ![t] = "saveUser"])
        BY <3>1 DEF Generate, Quick, LastPoll, Goto
      <4>2. \A w \in Turns : w # t => pc'[w] = pc[w]
        BY <4>1 DEF TypeOK
      <4>3. pc'[t] \in {"asking", "saveUser"}
        BY <4>1 DEF TypeOK
      <4>4. \A w \in Turns : w # t => verdict'[w] = verdict[w]
        BY <4>1
      <4> QED
        BY <4>1, <4>2, <4>3, <4>4
    <3>2. CASE Bail(t) \/ GenerateFails(t)
      <4>1. PICK o \in {"canceled", "error"} : Report(t, o)
        BY <3>2 DEF Bail, GenerateFails
      <4>2. pc[t] = "asking"
        BY <3>2 DEF Bail, GenerateFails
      <4> QED
        BY <4>1, <4>2 DEF Report, Goto, TypeOK
    <3> QED
      BY <1>1, <3>1, <3>2
  <2>4. SavedOK'
    BY <2>1, <2>3 DEF SavedOK, Saved, Message, Past
  <2>5. SavedAsTold'
    BY <2>1, <2>2 DEF SavedAsTold, Saved, Message
  <2> QED
    BY <2>4, <2>5
<1>2. CASE SaveUser(t)
  <2>1. Messages' = Messages \cup {u} /\ conv'.exists = conv.exists
    BY <1>0, <1>2, MessageAdded DEF SaveUser
  <2>2. /\ pc[t] = "saveUser" /\ pc' = [pc EXCEPT ![t] = "saveAnswer"]
        /\ UNCHANGED <<gen, verdict, failed, late>>
    BY <1>2 DEF SaveUser, Goto
  <2>3. \A w \in Turns : Saved(w)' <=> Saved(w) \/ w = t
    BY <2>1 DEF Saved, Message
  <2>4. SavedOK'
    BY <2>1, <2>2, <2>3 DEF SavedOK, Past, TypeOK
  <2>5. SavedAsTold'
    BY <2>1, <2>2, <2>3 DEF SavedAsTold, PhasesOK, Saving
  <2> QED
    BY <2>4, <2>5
<1>3. CASE SaveAnswer(t)
  <2>1. Messages' = Messages \cup {a} /\ conv'.exists = conv.exists
    BY <1>0, <1>3, MessageAdded DEF SaveAnswer
  <2>2. /\ pc[t] = "saveAnswer" /\ conv.exists /\ pc' = [pc EXCEPT ![t] = "finish"]
        /\ verdict' = [verdict EXCEPT ![t] = "done"]
        /\ UNCHANGED <<gen, failed, late>>
    BY <1>3 DEF SaveAnswer, Report, Goto
  <2>3. \A w \in Turns : Saved(w)' <=> Saved(w)
    BY <2>1 DEF Saved, Message
  <2>4. Saved(t)
    BY <2>2 DEF SavedOK
  <2>5. SavedOK'
    BY <2>1, <2>2, <2>3, <2>4 DEF SavedOK, Saved, Past, TypeOK
  <2>6. SavedAsTold'
    BY <2>1, <2>2, <2>3 DEF SavedAsTold
  <2> QED
    BY <2>5, <2>6
<1>4. CASE SaveFails(t)
  <2>1. /\ Messages' = Messages /\ pc[t] \in {"saveUser", "saveAnswer"}
        /\ pc' = [pc EXCEPT ![t] = "finish"] /\ verdict' = [verdict EXCEPT ![t] = "done"]
        /\ failed' = failed \cup {t} /\ UNCHANGED <<gen, conv, late>>
    BY <1>4 DEF SaveFails, Report, Goto, Messages
  <2>2. SavedOK'
    BY <2>1 DEF SavedOK, Saved, Message, Past, TypeOK
  <2>3. SavedAsTold'
    BY <2>1 DEF SavedAsTold, Saved, Message
  <2> QED
    BY <2>2, <2>3
<1>5. CASE Finish(t)
  <2>1. /\ Messages' = Messages /\ pc[t] = "finish"
        /\ pc' = [pc EXCEPT ![t] = "release"] /\ verdict' = [verdict EXCEPT ![t] = "done"]
        /\ gen' = [gen EXCEPT ![t].status = IF gen[t].canceled THEN "canceled" ELSE verdict[t]]
        /\ UNCHANGED <<conv, failed, late>>
    BY <1>5 DEF Finish, Goto, Messages
  <2>2. SavedOK'
    BY <2>1 DEF SavedOK, Saved, Message, Past, TypeOK
  <2>3. /\ \A w \in Turns : gen'[w].canceled = gen[w].canceled
        /\ \A w \in Turns : w # t => gen'[w].status = gen[w].status
        /\ gen'[t].status = "done" => verdict[t] = "done"
    BY <2>1 DEF TypeOK
  <2>4. SavedAsTold'
    BY <2>1, <2>3 DEF SavedAsTold, SavedOK, Saved, Message
  <2> QED
    BY <2>2, <2>4
<1>6. CASE Release(t)
  <2>1. /\ UNCHANGED <<conv, verdict, gen, failed, late>>
        /\ \A w \in Turns : pc'[w] = pc[w] \/ pc'[w] \in Past
    BY <1>6 DEF Release, Goto, Past, TypeOK
  <2> QED
    BY <2>1, SavedStays
<1> QED
  BY <1>1, <1>2, <1>3, <1>4, <1>5, <1>6 DEF Thread

LEMMA SavedStep ==
    ASSUME TypeOK, PhasesOK, SavedOK, SavedAsTold, [Next]_vars
    PROVE  SavedOK' /\ SavedAsTold'
<1>1. ASSUME NEW t \in Turns, Ask(t) \/ Register(t) \/ Start(t) \/ Leak(t) \/ StartFails(t)
      PROVE  SavedOK' /\ SavedAsTold'
  <2>1. UNCHANGED <<conv, verdict, gen, failed, late>>
    BY <1>1 DEF Ask, Register, Start, Leak, StartFails
  <2>2. \A w \in Turns : \/ pc'[w] = pc[w]
                         \/ /\ pc[w] \in {"none", "owned", "setup"}
                            /\ pc'[w] \in {"owned", "refused", "setup", "asking", "leaked"}
    BY <1>1 DEF Ask, Register, Start, Leak, StartFails, Goto, TypeOK
  <2> QED
    BY <2>1, <2>2, SavedStays DEF Past
<1>2. ASSUME NEW r \in Readers, Client(r)
      PROVE  SavedOK' /\ SavedAsTold'
  BY <1>2, SavedStays DEF Client, Subscribe, Read, Leave
<1>3. CASE Stop
  <2>1. live \in Turns
    BY <1>3, BoundAssumption DEF Stop, TypeOK, Turns
  <2>2. /\ \A u \in Turns : /\ gen'[u].status = gen[u].status
                            /\ gen'[u].canceled = (gen[u].canceled \/ u = live)
        /\ late \subseteq late'
        /\ pc[live] \in {"saveUser", "saveAnswer", "finish", "release"} => live \in late'
        /\ UNCHANGED <<live, pc, verdict, conv, failed>> /\ Messages' = Messages
    BY <1>3, <2>1 DEF Stop, TypeOK, Messages
  <2>3. pc[live] \in InThread \cup {"leaked"}
    BY <2>1 DEF PhasesOK
  <2>4. SavedOK'
    BY <2>2 DEF SavedOK, Saved, Message
  <2>5. Saved(live) => live \in late'
    BY <2>1, <2>2, <2>3 DEF SavedOK, InThread, Past
  <2>6. SavedAsTold'
    BY <2>2, <2>5 DEF SavedAsTold, Saved, Message
  <2> QED
    BY <2>4, <2>6
<1>4. CASE Pop \/ DeleteFails \/ UNCHANGED vars
  BY <1>4, SavedStays DEF Pop, DeleteFails, vars
<1>5. CASE DeleteRow \/ DeleteBrd
  <2>1. conv' = [exists |-> FALSE, messages |-> <<>>]
    BY <1>5 DEF DeleteRow, DeleteBrd
  <2>2. conv'.exists = FALSE /\ Messages' = {}
    BY <2>1 DEF Messages
  <2>3. UNCHANGED pc
    BY <1>5 DEF DeleteRow, DeleteBrd
  <2> QED
    BY <2>2 DEF SavedOK, SavedAsTold, Saved
<1>6. CASE Crash
  <2>1. /\ Messages' = Messages /\ UNCHANGED <<conv, gen, late>> /\ failed \subseteq failed'
        /\ \A w \in Turns : IF pc[w] = "none" THEN pc'[w] = "none" ELSE pc'[w] = "lost"
    BY <1>6 DEF Crash, Messages
  <2>2. SavedOK'
    BY <2>1 DEF SavedOK, Saved, Message, Past
  <2>3. SavedAsTold'
    BY <2>1 DEF SavedAsTold, Saved, Message
  <2> QED
    BY <2>2, <2>3
<1> QED
  BY <1>1, <1>2, <1>3, <1>4, <1>5, <1>6, ThreadSaved DEF Next

-----------------------------------------------------------------------------
(* Questions and their answers.                                              *)

\* a step that saves nothing and ends the saving of no turn without failing it
LEMMA PairsStay ==
    ASSUME TypeOK, HistoryIsPairs, conv' = conv,
           failed \subseteq failed', late \subseteq late', dropped \subseteq dropped',
           \A t \in Turns : pc[t] = "saveAnswer" => pc'[t] = "saveAnswer" \/ t \in failed'
    PROVE  HistoryIsPairs'
<1> SUFFICES ASSUME NEW n \in DOMAIN conv.messages, conv.messages[n].role = "user"
             PROVE  LET m == conv.messages[n]
                    IN  \/ m.turn \in failed' \cup (late \cup dropped)'
                        \/ n = Len(conv.messages) /\ pc'[m.turn] = "saveAnswer"
                        \/ n < Len(conv.messages)
                              /\ (conv.messages[n + 1] = Message(m.turn, "assistant")
                                    \/ conv.messages[n + 1].turn \in (late \cup dropped)')
  BY DEF HistoryIsPairs, Message
<1>1. conv.messages[n].turn \in Turns
  <2>1. conv.messages \in Seq(MessageRow)
    BY DEF TypeOK, MessageRow
  <2>2. conv.messages[n] \in MessageRow
    BY <2>1
  <2> QED
    BY <2>2 DEF MessageRow
<1> QED
  BY <1>1 DEF HistoryIsPairs

\* a message of a turn that saves
LEMMA PairsGrow ==
    ASSUME TypeOK, PhasesOK, OneSlot, HistoryIsPairs, NEW t \in Turns, NEW m \in MessageRow,
           conv' = [conv EXCEPT !.messages = Append(@, m)], m.turn = t, pc[t] \in Saving,
           \/ m.role = "user" /\ pc[t] = "saveUser" /\ pc'[t] = "saveAnswer"
           \/ m = Message(t, "assistant") /\ pc[t] = "saveAnswer",
           UNCHANGED <<failed, late, dropped>>
    PROVE  HistoryIsPairs'
<1> DEFINE l == Len(conv.messages)
           overlap == late \cup dropped
<1>1. /\ Len(conv'.messages) = l + 1
      /\ \A n \in 1 .. l : conv'.messages[n] = conv.messages[n]
      /\ conv'.messages[l + 1] = m
  BY MessageAdded
<1>2. conv.messages \in Seq(MessageRow) /\ l \in Nat
  BY DEF TypeOK, MessageRow
<1>3. conv'.messages = Append(conv.messages, m)
  BY DEF TypeOK
<1>4. DOMAIN conv'.messages = 1 .. l + 1 /\ DOMAIN conv.messages = 1 .. l
  BY <1>2, <1>3, AppendProperties
<1> SUFFICES ASSUME NEW n \in 1 .. l + 1, conv'.messages[n].role = "user"
             PROVE  LET q == conv'.messages[n]
                    IN  \/ q.turn \in failed \cup overlap
                        \/ n = l + 1 /\ pc'[q.turn] = "saveAnswer"
                        \/ n < l + 1
                              /\ (conv'.messages[n + 1] = Message(q.turn, "assistant")
                                    \/ conv'.messages[n + 1].turn \in overlap)
  BY <1>1, <1>4 DEF HistoryIsPairs, Message
<1>5. CASE n = l + 1
  BY <1>1, <1>5 DEF Message
<1>6. CASE n \in 1 .. l - 1
  <2>1. n \in 1 .. l /\ n + 1 \in 1 .. l /\ n < l + 1 /\ n # l /\ n < l
    BY <1>2, <1>6
  <2>2. conv'.messages[n] = conv.messages[n] /\ conv'.messages[n + 1] = conv.messages[n + 1]
    BY <1>1, <2>1
  <2> QED
    BY <1>4, <2>1, <2>2 DEF HistoryIsPairs
<1>7. CASE n = l /\ n # l + 1
  <2>1. n \in 1 .. l /\ n < l + 1 /\ ~(n < l)
    BY <1>2, <1>7
  <2>2. conv'.messages[n] = conv.messages[n] /\ conv'.messages[n + 1] = m
    BY <1>1, <1>7, <2>1
  <2> DEFINE q == conv.messages[n]
  <2>3. q \in MessageRow
    BY <1>2, <2>1
  <2>4. q.turn \in Turns
    BY <2>3 DEF MessageRow
  <2>5. q.turn \in failed \cup overlap \/ pc[q.turn] = "saveAnswer"
    BY <1>4, <2>1, <2>2 DEF HistoryIsPairs
  <2>6. CASE q.turn \in failed \cup overlap
    BY <2>2, <2>6
  <2>7. CASE pc[q.turn] = "saveAnswer" /\ q.turn = t
    BY <2>1, <2>2, <2>7
  <2>8. CASE pc[q.turn] = "saveAnswer" /\ q.turn # t
    <3>1. q.turn \in overlap \/ t \in overlap
      BY <2>4, <2>8, OneOfTwo DEF Saving
    <3> QED
      BY <2>1, <2>2, <3>1
  <2> QED
    BY <2>5, <2>6, <2>7, <2>8
<1>8. n = l + 1 \/ n \in 1 .. l - 1 \/ (n = l /\ n # l + 1)
  BY <1>2
<1> QED
  BY <1>5, <1>6, <1>7, <1>8

LEMMA PairsStep ==
    ASSUME TypeOK, PhasesOK, OneSlot, HistoryIsPairs, [Next]_vars
    PROVE  HistoryIsPairs'
<1>1. ASSUME NEW t \in Turns, SaveUser(t)
      PROVE  HistoryIsPairs'
  <2>1. Message(t, "user") \in MessageRow /\ Message(t, "user").turn = t
           /\ Message(t, "user").role = "user"
    BY DEF Message, MessageRow
  <2>2. pc[t] = "saveUser" /\ pc'[t] = "saveAnswer"
    BY <1>1 DEF SaveUser, Goto, TypeOK
  <2> QED
    BY <1>1, <2>1, <2>2, PairsGrow DEF SaveUser, Saving
<1>2. ASSUME NEW t \in Turns, SaveAnswer(t)
      PROVE  HistoryIsPairs'
  <2>1. Message(t, "assistant") \in MessageRow /\ Message(t, "assistant").turn = t
    BY DEF Message, MessageRow
  <2> QED
    BY <1>2, <2>1, PairsGrow DEF SaveAnswer, Saving
<1>3. ASSUME NEW t \in Turns,
             \/ Ask(t) \/ Register(t) \/ Start(t) \/ Leak(t) \/ StartFails(t) \/ Generate(t)
             \/ Quick(t) \/ Bail(t) \/ GenerateFails(t) \/ LastPoll(t) \/ Finish(t) \/ Release(t)
      PROVE  HistoryIsPairs'
  <2>1. UNCHANGED <<conv, failed, dropped>> /\ late \subseteq late'
    BY <1>3 DEF Ask, Register, Start, Leak, StartFails, Generate, Quick, Bail, GenerateFails, LastPoll,
                Finish, Release
  <2>2. pc[t] # "saveAnswer" /\ \A u \in Turns : u # t => pc'[u] = pc[u]
    BY <1>3 DEF Ask, Register, Start, Leak, StartFails, Generate, Quick, Bail, GenerateFails, LastPoll,
                Finish, Release, Report, Goto, TypeOK
  <2> QED
    BY <2>1, <2>2, PairsStay
<1>4. ASSUME NEW t \in Turns, SaveFails(t)
      PROVE  HistoryIsPairs'
  <2>1. failed' = failed \cup {t} /\ pc' = [pc EXCEPT ![t] = "finish"]
           /\ UNCHANGED <<conv, late, dropped>>
    BY <1>4 DEF SaveFails, Report, Goto
  <2>2. \A u \in Turns : pc[u] = "saveAnswer" => pc'[u] = "saveAnswer" \/ u \in failed'
    BY <2>1 DEF TypeOK
  <2> QED
    BY <2>1, <2>2, PairsStay
<1>5. ASSUME NEW r \in Readers, Client(r)
      PROVE  HistoryIsPairs'
  BY <1>5, PairsStay DEF Client, Subscribe, Read, Leave
<1>6. CASE Stop \/ Pop \/ DeleteFails \/ UNCHANGED vars
  <2>1. conv' = conv /\ UNCHANGED <<pc, failed>>
    BY <1>6 DEF Stop, Pop, DeleteFails, vars
  <2>2. late \subseteq late' /\ dropped \subseteq dropped'
    BY <1>6 DEF Stop, Pop, DeleteFails, vars
  <2> QED
    BY <2>1, <2>2, PairsStay
<1>7. CASE DeleteRow \/ DeleteBrd
  <2>1. conv' = [exists |-> FALSE, messages |-> <<>>]
    BY <1>7 DEF DeleteRow, DeleteBrd
  <2>2. DOMAIN conv'.messages = {}
    BY <2>1
  <2> QED
    BY <2>2 DEF HistoryIsPairs
<1>8. CASE Crash
  <2>1. conv' = conv /\ UNCHANGED <<late, dropped>>
           /\ failed' = failed \cup {t \in Turns : pc[t] = "saveAnswer"}
    BY <1>8 DEF Crash
  <2> QED
    BY <2>1, PairsStay
<1> QED
  BY <1>1, <1>2, <1>3, <1>4, <1>5, <1>6, <1>7, <1>8 DEF Next, Thread

-----------------------------------------------------------------------------
(* What readers see.                                                         *)

LEMMA ConcatAppend ==
    ASSUME NEW S, NEW p \in Seq(S), NEW q \in Seq(S), NEW e \in S
    PROVE  p \o Append(q, e) = Append(p \o q, e)
<1>1. <<e>> \in Seq(S) /\ p \o q \in Seq(S)
  BY ConcatProperties
<1>2. Append(q, e) = q \o <<e>> /\ Append(p \o q, e) = (p \o q) \o <<e>>
  BY <1>1, AppendIsConcat
<1>3. (p \o q) \o <<e>> = p \o (q \o <<e>>)
  BY <1>1, ConcatAssociative
<1> QED
  BY <1>2, <1>3

\* the first item of q moved to the end of p
LEMMA MoveOne ==
    ASSUME NEW S, NEW p \in Seq(S), NEW q \in Seq(S), q # <<>>
    PROVE  /\ Append(p, Head(q)) \o Tail(q) = p \o q
           /\ (p \o q)[Len(p) + 1] = Head(q)
           /\ Len(p \o q) = Len(p) + 1 + Len(Tail(q))
<1>1. Head(q) \in S /\ Tail(q) \in Seq(S) /\ <<Head(q)>> \in Seq(S)
  BY HeadTailProperties
<1>2. q = <<Head(q)>> \o Tail(q)
  BY <1>1
<1>3. Append(p, Head(q)) = p \o <<Head(q)>>
  BY <1>1, AppendIsConcat
<1>4. (p \o <<Head(q)>>) \o Tail(q) = p \o (<<Head(q)>> \o Tail(q))
  BY <1>1, ConcatAssociative
<1>5. Append(p, Head(q)) \o Tail(q) = p \o q
  BY <1>2, <1>3, <1>4
<1> DEFINE a == Append(p, Head(q))
<1>6. a \in Seq(S) /\ Len(a) = Len(p) + 1 /\ a[Len(p) + 1] = Head(q)
  BY <1>1, AppendProperties
<1>7. Len(p) \in Nat /\ Len(Tail(q)) \in Nat
  BY <1>1, LenProperties
<1> HIDE DEF a
<1>8. /\ Len(a \o Tail(q)) = Len(p) + 1 + Len(Tail(q))
      /\ (a \o Tail(q))[Len(p) + 1] = a[Len(p) + 1]
  <2>1. Len(a \o Tail(q)) = Len(a) + Len(Tail(q))
    BY <1>1, <1>6, ConcatProperties
  <2>2. \A i \in 1 .. Len(a) + Len(Tail(q)) : i <= Len(a) => (a \o Tail(q))[i] = a[i]
    BY <1>1, <1>6, ConcatProperties
  <2>3. Len(a) \in 1 .. Len(a) + Len(Tail(q)) /\ Len(a) <= Len(a)
    BY <1>6, <1>7
  <2> QED
    BY <1>6, <2>1, <2>2, <2>3
<1> QED
  BY <1>5, <1>6, <1>8 DEF a

\* where that item is, and when it is the last
LEMMA LastMoved ==
    ASSUME NEW S, NEW p \in Seq(S), NEW q \in Seq(S), q # <<>>, NEW log, log = p \o q
    PROVE  /\ Len(p) + 1 \in 1 .. Len(log)
           /\ log[Len(p) + 1] = Head(q)
           /\ Len(p) + 1 = Len(log) => Tail(q) = <<>>
<1>1. Tail(q) \in Seq(S)
  BY HeadTailProperties
<1> DEFINE a == Len(p)
           b == Len(Tail(q))
<1>2. a \in Nat /\ b \in Nat
  BY <1>1, LenProperties
<1>3. Len(log) = a + 1 + b /\ log[a + 1] = Head(q)
  BY MoveOne
<1>4. b = 0 => Tail(q) = <<>>
  BY <1>1, EmptySeq
<1> HIDE DEF a, b
<1>5. a + 1 \in 1 .. Len(log) /\ (a + 1 = Len(log) => b = 0)
  BY <1>2, <1>3
<1> QED
  BY <1>3, <1>4, <1>5 DEF a

\* one more item in the log of a turn that runs, put in the queues of its readers
LEMMA ItemSeen ==
    ASSUME TypeOK, TypeOK', Following, ReadersSeeAll, NEW t \in Turns, NEW item \in Items,
           gen[t].status = "running", reader' = Fan(t, item),
           Log(t)' = Append(Log(t), item),
           \A u \in Turns : u # t => gen'[u] = gen[u]
    PROVE  Following' /\ ReadersSeeAll'
<1>1. \A u \in Turns : u # t => Log(u)' = Log(u)
  BY DEF Log, Said
<1>2. ASSUME NEW r \in Readers, reader[r].turn = t, reader[r].step = "reading"
      PROVE  /\ reader'[r].turn = t /\ reader'[r].step = "reading"
             /\ reader'[r].seen \o reader'[r].queue = Log(t)'
  <2> DEFINE p == reader[r].seen
             q == reader[r].queue
  <2>1. p \in Seq(Items) /\ q \in Seq(Items)
    BY DEF TypeOK
  <2>2. reader'[r] = [reader[r] EXCEPT !.queue = Append(@, item)]
    BY <1>2 DEF Fan
  <2>3. /\ reader'[r].turn = t /\ reader'[r].step = "reading"
        /\ reader'[r].seen = reader[r].seen /\ reader'[r].queue = Append(reader[r].queue, item)
    BY <1>2, <2>2 DEF TypeOK
  <2>4. p \o Append(q, item) = Append(p \o q, item)
    <3> HIDE DEF p, q
    <3> QED
      BY <2>1, ConcatAppend
  <2>5. reader[r].seen \o reader[r].queue = Log(t)
    BY <1>2 DEF ReadersSeeAll
  <2> QED
    BY <2>3, <2>4, <2>5
<1>3. ASSUME NEW r \in Readers, ~(reader[r].turn = t /\ reader[r].step = "reading")
      PROVE  reader'[r] = reader[r]
  BY <1>3 DEF Fan
<1>4. \A r \in Readers : reader[r].step = "ended" => reader[r].turn # t
  BY DEF ReadersSeeAll
<1>5. Following'
  BY <1>2, <1>3 DEF Following
<1>6. ReadersSeeAll'
  <2> SUFFICES ASSUME NEW r \in Readers
               PROVE  /\ reader'[r].step = "reading"
                            => reader'[r].seen \o reader'[r].queue = Log(reader[r].turn)'
                      /\ reader'[r].turn = reader[r].turn
                      /\ reader'[r].step = "ended"
                            => /\ reader'[r].queue = <<>> /\ reader'[r].seen = Log(reader[r].turn)'
                               /\ gen'[reader[r].turn].status # "running"
    BY DEF ReadersSeeAll, Log, Said
  <2>1. CASE reader[r].turn = t /\ reader[r].step = "reading"
    BY <1>2, <2>1
  <2>2. CASE ~(reader[r].turn = t /\ reader[r].step = "reading")
    BY <1>1, <1>3, <1>4, <2>2, ZenonT(30) DEF Following, ReadersSeeAll
  <2> QED
    BY <2>1, <2>2
<1> QED
  BY <1>5, <1>6

LEMMA EmitSeen ==
    ASSUME TypeOK, TypeOK', Following, ReadersSeeAll, NEW t \in Turns, Emit(t),
           gen[t].status = "running"
    PROVE  Following' /\ ReadersSeeAll'
<1> DEFINE k == gen[t].tokens
<1>1. k \in Nat /\ k + 1 \in 0 .. TokenBound
  BY BoundAssumption DEF TypeOK, Emit
<1>2. Token(k + 1) \in Items
  BY <1>1 DEF Token, Items
<1>3. /\ gen'[t].tokens = k + 1 /\ gen'[t].status = "running"
      /\ \A u \in Turns : u # t => gen'[u] = gen[u]
  <2>1. gen' = [gen EXCEPT ![t].tokens = k + 1]
    BY DEF Emit
  <2>2. gen'[t].tokens = k + 1
    BY <2>1 DEF TypeOK
  <2>3. \A u \in Turns : u # t => gen'[u] = gen[u]
    BY <2>1 DEF TypeOK
  <2> QED
    BY <2>2, <2>3, EmitKeeps
<1>4. Log(t) = Said(t) /\ Log(t)' = Said(t)'
  BY <1>3 DEF Log
<1>5. Said(t)' = Append(Said(t), Token(k + 1))
  <2>1. Said(t) = [n \in 1 .. k |-> Token(n)] /\ Said(t)' = [n \in 1 .. k + 1 |-> Token(n)]
    BY <1>3 DEF Said, Token
  <2>2. Said(t) \in Seq(Items) /\ Len(Said(t)) = k
    BY LogTyped
  <2>3. Append(Said(t), Token(k + 1)) = [n \in 1 .. k + 1 |-> Token(n)]
    <3> DEFINE a == Append(Said(t), Token(k + 1))
    <3>1. /\ a \in Seq(Items) /\ Len(a) = k + 1
          /\ \A n \in 1 .. k : a[n] = Said(t)[n]
          /\ a[k + 1] = Token(k + 1)
      BY <1>2, <2>2, AppendProperties
    <3>2. \A n \in 1 .. k + 1 : a[n] = Token(n)
      <4>1. \A n \in 1 .. k : Said(t)[n] = Token(n)
        BY <2>1
      <4>2. \A n \in 1 .. k + 1 : n \in 1 .. k \/ n = k + 1
        BY <1>1
      <4> QED
        BY <3>1, <4>1, <4>2
    <3>3. a = [n \in 1 .. Len(a) |-> a[n]]
      BY <3>1
    <3> HIDE DEF a
    <3>4. a = [n \in 1 .. k + 1 |-> Token(n)]
      BY <3>1, <3>2, <3>3
    <3> QED
      BY <3>4 DEF a
  <2> QED
    BY <2>1, <2>3
<1>6. reader' = Fan(t, Token(k + 1))
  BY DEF Emit
<1> HIDE DEF k
<1> QED
  BY <1>2, <1>3, <1>4, <1>5, <1>6, ItemSeen

LEMMA FinishSeen ==
    ASSUME TypeOK, TypeOK', PhasesOK, Following, ReadersSeeAll, NEW t \in Turns, Finish(t)
    PROVE  Following' /\ ReadersSeeAll'
<1> DEFINE status == IF gen[t].canceled THEN "canceled" ELSE verdict[t]
<1>1. status \in Outcomes
  BY DEF Outcomes, TypeOK
<1>2. Final(status) \in Items
  BY <1>1, BoundAssumption DEF Final, Items
<1>3. gen[t].status = "running"
  BY DEF Finish, PhasesOK, Past
<1>4. /\ gen'[t].tokens = gen[t].tokens /\ gen'[t].status = status
      /\ \A u \in Turns : u # t => gen'[u] = gen[u]
  BY DEF Finish, TypeOK
<1>5. status # "running"
  BY <1>1 DEF Outcomes
<1>6. Log(t)' = Append(Log(t), Final(status))
  BY <1>3, <1>4, <1>5 DEF Log, Said, Final
<1>7. reader' = Fan(t, Final(status))
  BY DEF Finish
<1> HIDE DEF status
<1> QED
  BY <1>2, <1>3, <1>4, <1>6, <1>7, ItemSeen

\* in a log, an item that is no token is the last one and the turn is over
LEMMA FinalIsLast ==
    ASSUME TypeOK, NEW t \in Turns, NEW n \in 1 .. Len(Log(t)), Log(t)[n].kind # "token"
    PROVE  n = Len(Log(t)) /\ gen[t].status # "running"
<1> DEFINE k == gen[t].tokens
<1>1. Said(t) \in Seq(Items) /\ Len(Said(t)) = k /\ k \in Nat
  BY LogTyped, BoundAssumption DEF TypeOK
<1>2. \A i \in 1 .. k : Said(t)[i].kind = "token"
  BY DEF Said, Token
<1>3. CASE gen[t].status = "running"
  BY <1>1, <1>2, <1>3 DEF Log
<1>4. CASE gen[t].status # "running"
  <2> DEFINE f == Final(gen[t].status)
  <2>1. f \in Items
    BY <1>4, BoundAssumption DEF TypeOK, Final, Items
  <2>2. Log(t) = Append(Said(t), f)
    BY <1>4 DEF Log
  <2>3. Len(Log(t)) = k + 1 /\ \A i \in 1 .. k : Log(t)[i] = Said(t)[i]
    BY <1>1, <2>1, <2>2, AppendProperties
  <2>4. \A i \in 1 .. k + 1 : i \in 1 .. k \/ i = k + 1
    BY <1>1
  <2>5. n \notin 1 .. k
    BY <1>2, <2>3
  <2> QED
    BY <1>4, <2>3, <2>4, <2>5
<1> QED
  BY <1>3, <1>4

LEMMA ReadSeen ==
    ASSUME TypeOK, TypeOK', Following, ReadersSeeAll, NEW r \in Readers, Read(r)
    PROVE  Following' /\ ReadersSeeAll'
<1> DEFINE c == reader[r]
           item == Head(c.queue)
           t == c.turn
<1>1. /\ c.seen \in Seq(Items) /\ c.queue \in Seq(Items) /\ c.queue # <<>> /\ c.step = "reading"
  BY DEF Read, TypeOK
<1>2. t \in Turns /\ c.seen \o c.queue = Log(t)
  BY <1>1 DEF Following, ReadersSeeAll
<1>3. /\ reader'[r].turn = t /\ reader'[r].seen = Append(c.seen, item)
      /\ reader'[r].queue = Tail(c.queue)
      /\ reader'[r].step = IF item.kind = "token" THEN "reading" ELSE "ended"
      /\ \A s \in Readers : s # r => reader'[s] = reader[s]
      /\ gen' = gen
  BY <1>1 DEF Read, TypeOK
<1>4. /\ Append(c.seen, item) \o Tail(c.queue) = c.seen \o c.queue
      /\ (c.seen \o c.queue)[Len(c.seen) + 1] = item
      /\ Len(c.seen \o c.queue) = Len(c.seen) + 1 + Len(Tail(c.queue))
  BY <1>1, MoveOne
<1>5. \A u : Log(u)' = Log(u)
  BY <1>3 DEF Log, Said
<1>6. ASSUME item.kind # "token"
      PROVE  Tail(c.queue) = <<>> /\ Append(c.seen, item) = Log(t) /\ gen[t].status # "running"
  <2> DEFINE n == Len(c.seen) + 1
  <2>1. /\ n \in 1 .. Len(Log(t)) /\ Log(t)[n] = item
        /\ n = Len(Log(t)) => Tail(c.queue) = <<>>
    <3> DEFINE p == c.seen
               q == c.queue
               log == Log(t)
    <3>1. p \in Seq(Items) /\ q \in Seq(Items) /\ q # <<>> /\ log = p \o q
      BY <1>1, <1>2
    <3> HIDE DEF p, q, log
    <3>2. /\ Len(p) + 1 \in 1 .. Len(log) /\ log[Len(p) + 1] = Head(q)
          /\ Len(p) + 1 = Len(log) => Tail(q) = <<>>
      BY <3>1, LastMoved
    <3> QED
      BY <3>2 DEF p, q, log
  <2>3. n = Len(Log(t)) /\ gen[t].status # "running"
    BY <1>2, <1>6, <2>1, FinalIsLast
  <2>4. Tail(c.queue) = <<>>
    BY <2>1, <2>3
  <2>5. Append(c.seen, item) \o <<>> = Append(c.seen, item)
    BY <1>1, HeadTailProperties, AppendProperties, ConcatEmptySeq
  <2> QED
    BY <1>2, <1>4, <2>3, <2>4, <2>5
<1>7. Following'
  BY <1>2, <1>3 DEF Following
<1>8. ReadersSeeAll'
  <2> SUFFICES ASSUME NEW s \in Readers
               PROVE  /\ reader'[s].step = "reading"
                            => reader'[s].seen \o reader'[s].queue = Log(reader[s].turn)
                      /\ reader'[s].turn = reader[s].turn
                      /\ reader'[s].step = "ended"
                            => /\ reader'[s].queue = <<>> /\ reader'[s].seen = Log(reader[s].turn)
                               /\ gen[reader[s].turn].status # "running"
    BY <1>3, <1>5 DEF ReadersSeeAll
  <2>1. CASE s # r
    BY <1>3, <2>1 DEF ReadersSeeAll
  <2>2. CASE s = r /\ item.kind = "token"
    BY <1>2, <1>3, <1>4, <2>2
  <2>3. CASE s = r /\ item.kind # "token"
    BY <1>3, <1>6, <2>3
  <2> QED
    BY <2>1, <2>2, <2>3
<1> QED
  BY <1>7, <1>8

LEMMA SubscribeSeen ==
    ASSUME TypeOK, Following, ReadersSeeAll, NEW r \in Readers, NEW t \in Turns, Subscribe(r, t)
    PROVE  Following' /\ ReadersSeeAll'
<1>1. /\ \A s \in Readers : s # r => reader'[s] = reader[s]
      /\ reader'[r] = [step |-> IF gen[t].status = "running" THEN "reading" ELSE "ended",
                       turn |-> t, seen |-> Log(t), queue |-> <<>>]
      /\ gen' = gen
  BY DEF Subscribe, TypeOK
<1>2. \A u : Log(u)' = Log(u)
  BY <1>1 DEF Log, Said
<1>3. Log(t) \o <<>> = Log(t)
  BY LogTyped, ConcatEmptySeq
<1>4. Following'
  BY <1>1 DEF Following
<1>5. ReadersSeeAll'
  <2>1. \A s \in Readers : /\ reader'[s].turn = (IF s = r THEN t ELSE reader[s].turn)
                           /\ s # r => reader'[s] = reader[s]
    BY <1>1
  <2>2. /\ reader'[r].step = "reading" => reader'[r].seen \o reader'[r].queue = Log(t)
        /\ reader'[r].step = "ended" => /\ reader'[r].queue = <<>> /\ reader'[r].seen = Log(t)
                                       /\ gen'[t].status # "running"
    BY <1>1, <1>3
  <2> QED
    BY <1>1, <1>2, <2>1, <2>2 DEF ReadersSeeAll
<1> QED
  BY <1>4, <1>5

\* a step that says nothing and moves no reader, or lets some go
LEMMA SeenStays ==
    ASSUME Following, ReadersSeeAll,
           \A u \in Turns : gen'[u].tokens = gen[u].tokens /\ gen'[u].status = gen[u].status,
           \A r \in Readers : reader'[r] = reader[r] \/ reader'[r] = NoReader
    PROVE  Following' /\ ReadersSeeAll'
<1>1. \A u \in Turns : Log(u)' = Log(u)
  BY DEF Log, Said
<1>2. NoReader.step = "idle"
  BY DEF NoReader
<1>3. Following'
  BY <1>2 DEF Following
<1>4. ReadersSeeAll'
  BY <1>1, <1>2 DEF ReadersSeeAll, Following
<1> QED
  BY <1>3, <1>4

LEMMA SeenStep ==
    ASSUME TypeOK, TypeOK', PhasesOK, Following, ReadersSeeAll, [Next]_vars
    PROVE  Following' /\ ReadersSeeAll'
<1>1. ASSUME NEW t \in Turns, Generate(t) \/ Quick(t)
      PROVE  Following' /\ ReadersSeeAll'
  <2>1. gen[t].status = "running"
    BY <1>1 DEF Generate, Quick, PhasesOK, Past
  <2>2. Emit(t) \/ UNCHANGED <<gen, reader>>
    BY <1>1 DEF Generate, Quick
  <2> QED
    BY <2>1, <2>2, EmitSeen, SeenStays
<1>2. ASSUME NEW t \in Turns,
             \/ Ask(t) \/ Register(t) \/ Start(t) \/ Leak(t) \/ StartFails(t) \/ Bail(t)
             \/ GenerateFails(t) \/ LastPoll(t) \/ SaveUser(t) \/ SaveAnswer(t) \/ SaveFails(t) \/ Release(t)
      PROVE  Following' /\ ReadersSeeAll'
  <2>1. UNCHANGED <<gen, reader>>
    BY <1>2 DEF Ask, Register, Start, Leak, StartFails, Bail, GenerateFails, LastPoll, SaveUser, SaveAnswer,
                SaveFails, Release
  <2> QED
    BY <2>1, SeenStays
<1>3. ASSUME NEW r \in Readers, Leave(r)
      PROVE  Following' /\ ReadersSeeAll'
  <2>1. /\ gen' = gen
        /\ \A s \in Readers : reader'[s] = reader[s] \/ reader'[s] = NoReader
    BY <1>3 DEF Leave, TypeOK
  <2> QED
    BY <2>1, SeenStays
<1>4. CASE Stop
  <2>1. live \in Turns
    BY <1>4, BoundAssumption DEF Stop, TypeOK, Turns
  <2>2. /\ \A u \in Turns : gen'[u].tokens = gen[u].tokens /\ gen'[u].status = gen[u].status
        /\ reader' = reader
    BY <1>4, <2>1 DEF Stop, TypeOK
  <2> QED
    BY <2>2, SeenStays
<1>5. CASE Pop \/ DeleteRow \/ DeleteBrd \/ DeleteFails \/ UNCHANGED vars
  BY <1>5, SeenStays DEF Pop, DeleteRow, DeleteBrd, DeleteFails, vars
<1>6. CASE Crash
  BY <1>6, SeenStays DEF Crash
<1> QED
  BY <1>1, <1>2, <1>3, <1>4, <1>5, <1>6, FinishSeen, ReadSeen, SubscribeSeen DEF Next, Thread, Client

-----------------------------------------------------------------------------
(* The theorems.                                                             *)

LEMMA InitInv == Init => IInv
<1> SUFFICES ASSUME Init PROVE IInv
  OBVIOUS
<1>1. <<>> \in Seq(Items) /\ <<>> \in Seq(MessageRow)
  OBVIOUS
<1>2. NoReader \in [step : {"idle", "reading", "ended"}, turn : 0 .. TurnBound,
                    seen : Seq(Items), queue : Seq(Items)]
  BY <1>1, BoundAssumption DEF NoReader
<1>3. TypeOK
  <2>0. popped \in BOOLEAN
    BY DEF Init
  <2>1. live \in 0 .. TurnBound /\ faults \in 0 .. FaultBound
    BY BoundAssumption DEF Init
  <2>2. NewGen \in [tokens : 0 .. TokenBound, status : Outcomes \cup {"running"}, canceled : BOOLEAN]
    BY BoundAssumption DEF NewGen
  <2> DEFINE empty == [exists |-> TRUE, messages |-> <<>>]
  <2>3. empty \in [exists : BOOLEAN, messages : Seq(MessageRow)]
    BY <1>1
  <2>4. conv = empty
    BY DEF Init
  <2> HIDE DEF empty
  <2>5. conv \in [exists : BOOLEAN, messages : Seq([turn : Turns, role : {"user", "assistant"}])]
    BY <2>3, <2>4 DEF MessageRow
  <2>6. verdict \in [Turns -> Outcomes]
    BY DEF Init, Outcomes
  <2>7. /\ gen \in [Turns -> [tokens : 0 .. TokenBound, status : Outcomes \cup {"running"},
                             canceled : BOOLEAN]]
        /\ reader \in [Readers -> [step : {"idle", "reading", "ended"}, turn : 0 .. TurnBound,
                                   seen : Seq(Items), queue : Seq(Items)]]
    BY <1>2, <2>2 DEF Init
  <2>8. /\ pc \in [Turns -> InThread \cup {"none", "owned", "refused", "leaked", "over", "lost"}]
        /\ late \subseteq Turns /\ dropped \subseteq Turns /\ failed \subseteq Turns
    BY DEF Init
  <2> QED
    BY <2>0, <2>1, <2>5, <2>6, <2>7, <2>8 DEF TypeOK
<1>4. Messages = {} /\ DOMAIN conv.messages = {}
  BY DEF Init, Messages
<1>5. PhasesOK /\ OneSlot
  BY DEF Init, PhasesOK, OneSlot, Active, NewGen, InThread, Saving, Turns
<1>6. SavedOK /\ SavedAsTold
  BY <1>4 DEF Init, SavedOK, SavedAsTold, Saved, NewGen
<1>7. HistoryIsPairs
  BY <1>4 DEF HistoryIsPairs
<1>8. Following /\ ReadersSeeAll
  BY DEF Init, Following, ReadersSeeAll, NoReader
<1> QED
  BY <1>3, <1>5, <1>6, <1>7, <1>8 DEF IInv

LEMMA NextInv == IInv /\ [Next]_vars => IInv'
<1> SUFFICES ASSUME IInv, [Next]_vars PROVE IInv'
  OBVIOUS
<1>1. TypeOK'
  BY TypeStep DEF IInv
<1>2. PhasesOK' /\ OneSlot'
  BY PhasesStep DEF IInv
<1>3. SavedOK' /\ SavedAsTold'
  BY SavedStep DEF IInv
<1>4. HistoryIsPairs'
  BY PairsStep DEF IInv
<1>5. Following' /\ ReadersSeeAll'
  BY <1>1, SeenStep DEF IInv
<1> QED
  BY <1>1, <1>2, <1>3, <1>4, <1>5 DEF IInv

\* The inductive invariant: where turns are, what is saved and what readers have seen.
THEOREM Invariance == Spec => []IInv
  BY InitInv, NextInv, PTL DEF Spec

\* Every state is of its type (api.py _live, chat_messages).
THEOREM TypeCorrect == Spec => []TypeOK
<1>1. IInv => TypeOK
  BY DEF IInv
<1> QED
  BY <1>1, Invariance, PTL

\* One turn is active, whatever was stopped before (api.py:2308), until a delete that
\* empties the slot of a turn that goes on.
THEOREM OneActive == Spec => []OneActiveTurn
<1>1. IInv => OneActiveTurn
  <2> SUFFICES ASSUME IInv, NEW t \in Turns, NEW u \in Turns, Active(t), Active(u), t # u
               PROVE  {t, u} \cap dropped # {}
    BY DEF IInv, OneSlot, OneActiveTurn
  <2>1. t \in dropped \/ u \in dropped
    BY DEF IInv, OneSlot
  <2> QED
    BY <2>1
<1> QED
  BY <1>1, Invariance, PTL

\* A stopped turn is saved only after a late Stop, and a turn that is reported as done is saved
\* unless its saving failed (chat/session.py _finish).
THEOREM SavedTold == Spec => []SavedAsTold
<1>1. IInv => SavedAsTold
  BY DEF IInv
<1> QED
  BY <1>1, Invariance, PTL

\* Every saved question is followed by its answer but for failed savings and turns that saved at
\* once after a late Stop or a delete (chat/history_store.py).
THEOREM PairsKept == Spec => []HistoryIsPairs
<1>1. IInv => HistoryIsPairs
  BY DEF IInv
<1> QED
  BY <1>1, Invariance, PTL

\* A client of an answer gets all its tokens once and in order, then its outcome, whenever it
\* subscribed (api.py _LiveGen).
THEOREM AllSeen == Spec => []ReadersSeeAll
<1>1. IInv => ReadersSeeAll
  BY DEF IInv
<1> QED
  BY <1>1, Invariance, PTL
=============================================================================
