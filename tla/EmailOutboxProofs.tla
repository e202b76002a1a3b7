------------------------- MODULE EmailOutboxProofs -------------------------
(* Proofs about EmailOutbox, for any messages, recipients, limit, number of  *)
(* faults and number of processes, however they overlap.                     *)
EXTENDS EmailOutbox, FiniteSetTheorems, TLAPS

-----------------------------------------------------------------------------
(* Type correctness. *)

LEMMA GoToType ==
  ASSUME TypeOK, NEW t \in Threads, NEW pc \in PC, GoTo(t, pc)
  PROVE  thread' \in [Threads -> Thread]
  BY DEF GoTo, At, TypeOK, Thread

LEMMA AfterType == ASSUME NEW t \in Threads PROVE After(t) \in PC
  BY DEF After, PC

LEMMA FaultType == ASSUME TypeOK, Fault PROVE faults' \in Nat
  BY DEF Fault, TypeOK

(* Every helper that writes a row writes a row. *)
LEMMA RowTypes ==
  ASSUME NEW r \in Row
  PROVE  /\ ClaimedRow(r) \in Row
         /\ Reclaimed(r) \in Row
         /\ \A ok \in BOOLEAN, n \in Nat : FinishedRow(r, ok, n) \in Row
  <1>1. ClaimedRow(r) \in Row
    <2>1. r.attempts + 1 \in Nat
      BY DEF Row
    <2>2. ASSUME NEW n \in Nat
          PROVE  [r EXCEPT !.status = "sending", !.attempts = n, !.stale = FALSE] \in Row
      BY DEF Row, Status
    <2>3. QED
      BY <2>1, <2>2 DEF ClaimedRow
  <1>2. Reclaimed(r) \in Row
    <2>1. CASE r.status = "sending"
      BY <2>1 DEF Row, Status, Reclaimed
    <2>2. CASE r.status # "sending"
      BY <2>2 DEF Reclaimed
    <2>3. QED
      BY <2>1, <2>2
  <1>3. ASSUME NEW ok \in BOOLEAN, NEW n \in Nat PROVE FinishedRow(r, ok, n) \in Row
    <2>1. CASE ok
      BY <2>1 DEF Row, Status, FinishedRow
    <2>2. CASE ~ok /\ n >= MaxAttempts
      BY <2>2 DEF Row, Status, FinishedRow
    <2>3. CASE ~ok /\ ~(n >= MaxAttempts)
      BY <2>3 DEF Row, Status, FinishedRow
    <2>4. QED
      BY <2>1, <2>2, <2>3
  <1>4. QED
    BY <1>1, <1>2, <1>3

(* What the threads' records become. *)
LEMMA ThreadTypes ==
  ASSUME NEW h \in Thread
  PROVE  /\ \A m \in Msgs, n \in Nat :
              [h EXCEPT !.pc = "send", !.msg = m, !.attempts = n] \in Thread
         /\ \A b \in BOOLEAN : [h EXCEPT !.pc = "finish", !.ok = b] \in Thread
  BY DEF Thread, PC

LEMMA TakeType ==
  ASSUME TypeOK, NEW t \in Threads, NEW m \in Msgs, Take(t, m)
  PROVE  row' \in [Msgs -> Row] /\ thread' \in [Threads -> Thread]
  <1>1. row[m] \in Row
    BY DEF TypeOK
  <1>2. row' \in [Msgs -> Row] /\ row'[m] \in Row
    BY <1>1, RowTypes DEF Take, TypeOK
  <1>3. row'[m].attempts \in Nat
    BY <1>2 DEF Row
  <1>4. thread' \in [Threads -> Thread]
    <2> DEFINE n == row'[m].attempts
    <2>1. thread' = [thread EXCEPT ![t] = [thread[t] EXCEPT !.pc = "send", !.msg = m, !.attempts = n]]
      BY DEF Take, TypeOK, Thread
    <2>2. thread[t] \in Thread /\ n \in Nat
      BY <1>3 DEF TypeOK
    <2> HIDE DEF n
    <2>3. QED
      BY <2>1, <2>2, ThreadTypes DEF TypeOK
  <1>5. QED
    BY <1>2, <1>4

LEMMA TypeInit == Init => TypeOK
  BY DEF Init, TypeOK, Row, Status, Thread, PC, At

LEMMA TypeNext ==
  ASSUME TypeOK, ThreadsLive, [Next]_vars
  PROVE  TypeOK'
  <1>0. \A p \in Procs : \A x \in Msgs \cup {Sweep} : <<p, x>> \in Threads
    BY DEF Threads
  <1>1. ASSUME NEW p \in Procs, NEW m \in Msgs, EnqueueCheck(p, m) PROVE TypeOK'
    BY <1>0, <1>1, GoToType DEF EnqueueCheck, TypeOK, PC
  <1>2. ASSUME NEW p \in Procs, NEW m \in Msgs, EnqueueInsert(p, m) PROVE TypeOK'
    <2>1. thread' \in [Threads -> Thread]
      BY <1>0, <1>2, GoToType DEF EnqueueInsert, PC
    <2>2. row' \in [Msgs -> Row]
      BY <1>2, ZenonT(30) DEF EnqueueInsert, TypeOK, Row, Status
    <2>3. QED
      BY <1>2, <2>1, <2>2 DEF EnqueueInsert, TypeOK
  <1>3. ASSUME NEW p \in Procs, NEW m \in Msgs, ClaimSpecific(p, m) PROVE TypeOK'
    <2>1. CASE ClaimableNow(m)
      BY <1>0, <1>3, <2>1, TakeType DEF ClaimSpecific, TypeOK
    <2>2. CASE ~ClaimableNow(m)
      BY <1>0, <1>3, <2>2, GoToType DEF ClaimSpecific, TypeOK, PC
    <2>3. QED
      BY <2>1, <2>2
  <1>4. ASSUME NEW p \in Procs, NEW m \in Msgs, ClaimNextDue(p, m) PROVE TypeOK'
    BY <1>0, <1>4, TakeType DEF ClaimNextDue, TypeOK
  <1>5. ASSUME NEW t \in Threads, thread[t].pc \in {"send", "finish"} PROVE thread[t].msg \in Msgs
    BY <1>5 DEF ThreadsLive
  <1>6. ASSUME NEW t \in Threads, SendAccepted(t) PROVE TypeOK'
    <2>1. thread' \in [Threads -> Thread]
      BY <1>6, ThreadTypes DEF SendAccepted, TypeOK
    <2>2. delivered' \in [Msgs -> Nat]
      BY <1>5, <1>6 DEF SendAccepted, TypeOK
    <2>3. QED
      BY <1>6, <2>1, <2>2 DEF SendAccepted, TypeOK
  <1>7. ASSUME NEW t \in Threads, SendFailed(t) PROVE TypeOK'
    <2>1. thread' \in [Threads -> Thread]
      BY <1>7, ThreadTypes DEF SendFailed, TypeOK
    <2>2. delivered' \in [Msgs -> Nat]
      BY <1>5, <1>7 DEF SendFailed, TypeOK
    <2>3. faults' \in Nat
      BY <1>7, FaultType DEF SendFailed, TypeOK
    <2>4. QED
      BY <1>7, <2>1, <2>2, <2>3 DEF SendFailed, TypeOK
  <1>8. ASSUME NEW t \in Threads, Finish(t) PROVE TypeOK'
    <2>1. thread' \in [Threads -> Thread]
      BY <1>8, GoToType, AfterType DEF Finish
    <2>2. PICK m \in Msgs : m = thread[t].msg
      BY <1>5, <1>8 DEF Finish
    <2>3. row[m] \in Row /\ thread[t].ok \in BOOLEAN /\ thread[t].attempts \in Nat
      BY <2>2 DEF TypeOK, Thread
    <2>4. row' \in [Msgs -> Row]
      BY <1>8, <2>2, <2>3, RowTypes DEF Finish, TypeOK
    <2>5. QED
      BY <1>8, <2>1, <2>4 DEF Finish, TypeOK
  <1>9. ASSUME NEW t \in Threads, StatementFails(t) PROVE TypeOK'
    BY <1>9, GoToType, AfterType, FaultType DEF StatementFails, TypeOK
  <1>10. ASSUME NEW a \in Addrs, ClearFailed(a) PROVE TypeOK'
    BY <1>10 DEF ClearFailed, TypeOK, Row, Status
  <1>11. ASSUME NEW p \in Procs, Start(p) PROVE TypeOK'
    <2>1. thread' \in [Threads -> Thread]
      BY <1>0, <1>11, GoToType DEF Start, PC
    <2>2. row' \in [Msgs -> Row]
      BY <1>11, RowTypes DEF Start, TypeOK
    <2>3. faults' \in Nat /\ rearmed' \in [Msgs -> Nat]
      BY <1>11, FaultType DEF Start, TypeOK
    <2>4. QED
      BY <1>11, <2>1, <2>2, <2>3 DEF Start, TypeOK
  <1>12. ASSUME NEW p \in Procs, Crash(p) PROVE TypeOK'
    BY <1>12, FaultType DEF Crash, TypeOK, Thread, PC, At
  <1>13. ASSUME NEW m \in Msgs, BecomesDue(m) \/ CooldownEnds(m) PROVE TypeOK'
    BY <1>13, ZenonT(30) DEF BecomesDue, CooldownEnds, TypeOK, Row
  <1>16. ASSUME NEW m \in Msgs, LeaseEnds(m) PROVE TypeOK'
    <2>1. row' \in [Msgs -> Row]
      BY <1>16, ZenonT(30) DEF LeaseEnds, TypeOK, Row
    <2>2. rearmed' \in [Msgs -> Nat]
      BY <1>16 DEF LeaseEnds, TypeOK
    <2>3. QED
      BY <1>16, <2>1, <2>2 DEF LeaseEnds, TypeOK
  <1>14. CASE UNCHANGED vars
    BY <1>14 DEF vars, TypeOK
  <1>15. QED
    BY <1>1, <1>2, <1>3, <1>4, <1>6, <1>7, <1>8, <1>9, <1>10, <1>11, <1>12, <1>13, <1>14, <1>16
    DEF Next, Request, Claim, Send, Time

-----------------------------------------------------------------------------
(* Counting threads. *)

LEMMA ThreadsFinite == IsFiniteSet(Threads)
  <1>1. IsFiniteSet(Msgs \cup {Sweep})
    BY FiniteAssumption, FS_AddElement
  <1>2. QED
    BY <1>1, FiniteAssumption, FS_Product DEF Threads

(* What a set of threads loses or gains in a step, and its size. *)
LEMMA Sizes ==
  ASSUME NEW S \in SUBSET Threads, NEW T \in SUBSET Threads
  PROVE  /\ Cardinality(S) \in Nat /\ Cardinality(T) \in Nat
         /\ T \subseteq S => Cardinality(T) <= Cardinality(S)
         /\ \A x : T \subseteq S \cup {x} => Cardinality(T) <= Cardinality(S) + 1
         /\ \A x \in S : T \subseteq S \ {x} => Cardinality(T) + 1 <= Cardinality(S)
         /\ \A x \in S : \A y : T \subseteq (S \ {x}) \cup {y} => Cardinality(T) <= Cardinality(S)
  <1>1. IsFiniteSet(S) /\ IsFiniteSet(T)
    BY ThreadsFinite, FS_Subset
  <1>2. Cardinality(S) \in Nat /\ Cardinality(T) \in Nat
    BY <1>1, FS_CardinalityType
  <1>3. T \subseteq S => Cardinality(T) <= Cardinality(S)
    BY <1>1, FS_Subset
  <1>4. ASSUME NEW R, IsFiniteSet(R), NEW x, T \subseteq R \cup {x}
        PROVE  Cardinality(T) <= Cardinality(R) + 1
    <2>1. /\ IsFiniteSet(R \cup {x})
          /\ Cardinality(R \cup {x}) = IF x \in R THEN Cardinality(R) ELSE Cardinality(R) + 1
      BY <1>4, FS_AddElement
    <2>2. Cardinality(T) <= Cardinality(R \cup {x})
      BY <1>4, <2>1, FS_Subset
    <2>3. Cardinality(R) \in Nat
      BY <1>4, FS_CardinalityType
    <2>4. QED
      BY <1>2, <2>1, <2>2, <2>3
  <1>5. ASSUME NEW x \in S
        PROVE  /\ IsFiniteSet(S \ {x})
               /\ Cardinality(S \ {x}) = Cardinality(S) - 1
    BY <1>1, FS_RemoveElement
  <1>6. ASSUME NEW x \in S, T \subseteq S \ {x} PROVE Cardinality(T) + 1 <= Cardinality(S)
    <2>1. Cardinality(T) <= Cardinality(S \ {x})
      BY <1>5, <1>6, FS_Subset
    <2>2. QED
      BY <1>2, <1>5, <2>1
  <1>7. ASSUME NEW x \in S, NEW y, T \subseteq (S \ {x}) \cup {y}
        PROVE  Cardinality(T) <= Cardinality(S)
    <2>1. Cardinality(T) <= Cardinality(S \ {x}) + 1
      BY <1>4, <1>5, <1>7
    <2>2. QED
      BY <1>2, <1>5, <2>1
  <1>8. QED
    BY <1>1, <1>2, <1>3, <1>4, <1>6, <1>7

-----------------------------------------------------------------------------
(* The inductive invariant, message by message. *)

Accepted(m) == \E t \in Threads : Holds(t, m) /\ thread[t].ok = TRUE

Distinct(m) ==
    \A t \in Threads : Holds(t, m) =>
        /\ row[m].status # "none"
        /\ thread[t].attempts <= row[m].attempts
        /\ \A u \in Threads : Holds(u, m) /\ thread[u].attempts = thread[t].attempts => u = t
Owning(m) == \A t \in Threads : Holds(t, m) /\ rearmed[m] = 0 => Owns(t, m)
Delivered(m) ==
    delivered[m] + Cardinality(Senders(m)) + One(Open(m)) <= 1 + faults + rearmed[m]
Attempted(m) ==
    row[m].attempts + One(Open(m)) + Cardinality(Strays(m)) <= MaxAttempts + faults + rearmed[m]
Strayed(m) == Cardinality(Strays(m)) <= faults + rearmed[m]
Reached(m) == row[m].status = "sent" \/ Accepted(m) => delivered[m] > 0
Exhausted(m) == row[m].status = "failed" => row[m].attempts >= MaxAttempts

MsgInv(m) == /\ Distinct(m) /\ Owning(m) /\ Delivered(m) /\ Attempted(m)
             /\ Strayed(m) /\ Reached(m) /\ Exhausted(m)

(* A row shows one claim. *)
LEMMA OneOwner ==
  ASSUME NEW m \in Msgs, Distinct(m), NEW t \in Threads, Owns(t, m), NEW u \in Threads, Owns(u, m)
  PROVE  u = t
  <1>1. Holds(t, m) /\ Holds(u, m) /\ thread[u].attempts = thread[t].attempts
    BY DEF Owns
  <1>2. QED
    BY <1>1 DEF Distinct

LEMMA InvParts == IInv <=> TypeOK /\ ThreadsLive /\ \A m \in Msgs : MsgInv(m)
  <1>1. ClaimsDiffer <=> \A m \in Msgs : Distinct(m)
    BY DEF ClaimsDiffer, Distinct
  <1>2. ClaimsDiffer => (HolderOwnsRow <=> \A m \in Msgs : Owning(m))
    <2> SUFFICES ASSUME ClaimsDiffer PROVE HolderOwnsRow <=> \A m \in Msgs : Owning(m)
      OBVIOUS
    <2>1. HolderOwnsRow => \A m \in Msgs : Owning(m)
      BY DEF HolderOwnsRow, Owning
    <2>2. ASSUME \A m \in Msgs : Owning(m), NEW t \in Threads, NEW m \in Msgs, Holds(t, m), rearmed[m] = 0
          PROVE  Owns(t, m) /\ \A u \in Threads : Holds(u, m) => u = t
      <3>1. \A u \in Threads : Holds(u, m) => Owns(u, m)
        BY <2>2 DEF Owning
      <3>2. QED
        BY <1>1, <2>2, <3>1, OneOwner
    <2>3. QED
      BY <2>1, <2>2 DEF HolderOwnsRow
  <1>3. AttemptsCounted <=> \A m \in Msgs : Attempted(m) /\ Strayed(m)
    BY DEF AttemptsCounted, Attempted, Strayed
  <1>4. DeliveriesCounted <=> \A m \in Msgs : Delivered(m)
    BY DEF DeliveriesCounted, Delivered
  <1>5. AcceptedIsDelivered <=> \A m \in Msgs : Reached(m)
    BY DEF AcceptedIsDelivered, Reached, Accepted
  <1>6. FailedAfterAllAttempts <=> \A m \in Msgs : Exhausted(m)
    BY DEF FailedAfterAllAttempts, Exhausted
  <1>7. QED
    BY <1>1, <1>2, <1>3, <1>4, <1>5, <1>6 DEF IInv, MsgInv

LEMMA Numbers ==
  ASSUME TypeOK, NEW m \in Msgs
  PROVE  /\ row[m] \in Row /\ row[m].attempts \in Nat
         /\ delivered[m] \in Nat /\ faults \in Nat /\ rearmed[m] \in Nat
         /\ MaxAttempts \in Nat /\ MaxAttempts > 0
         /\ \A t \in Threads : thread[t].attempts \in Nat /\ thread[t].ok \in BOOLEAN
         /\ Cardinality(Senders(m)) \in Nat /\ Cardinality(Strays(m)) \in Nat
         /\ One(Open(m)) \in {0, 1}
         /\ Open(m) => One(Open(m)) = 1
         /\ ~Open(m) => One(Open(m)) = 0
  <1>1. Senders(m) \in SUBSET Threads /\ Strays(m) \in SUBSET Threads
    BY DEF Senders, Strays
  <1>2. /\ Cardinality(Senders(m)) \in Nat /\ Cardinality(Strays(m)) \in Nat
    BY <1>1, Sizes
  <1>3. /\ One(Open(m)) \in {0, 1}
        /\ Open(m) => One(Open(m)) = 1
        /\ ~Open(m) => One(Open(m)) = 0
    BY DEF One
  <1>4. /\ row[m] \in Row /\ row[m].attempts \in Nat
        /\ delivered[m] \in Nat /\ faults \in Nat /\ rearmed[m] \in Nat
        /\ MaxAttempts \in Nat /\ MaxAttempts > 0
    BY AttemptsAssumption DEF TypeOK, Row
  <1>5. \A t \in Threads : thread[t].attempts \in Nat /\ thread[t].ok \in BOOLEAN
    BY DEF TypeOK, Thread
  <1>6. QED
    BY <1>2, <1>3, <1>4, <1>5

(* The same facts of the state a step leads to. *)
LEMMA NumbersNext ==
  ASSUME TypeOK', NEW m \in Msgs
  PROVE  /\ row'[m] \in Row /\ row'[m].attempts \in Nat
         /\ delivered'[m] \in Nat /\ faults' \in Nat /\ rearmed'[m] \in Nat
         /\ \A t \in Threads : thread'[t].attempts \in Nat /\ thread'[t].ok \in BOOLEAN
         /\ Cardinality(Senders(m)') \in Nat /\ Cardinality(Strays(m)') \in Nat
         /\ Senders(m)' \in SUBSET Threads /\ Strays(m)' \in SUBSET Threads
         /\ One(Open(m))' \in {0, 1}
         /\ Open(m)' => One(Open(m))' = 1
         /\ ~Open(m)' => One(Open(m))' = 0
  <1>1. Senders(m)' \in SUBSET Threads /\ Strays(m)' \in SUBSET Threads
    BY DEF Senders, Strays
  <1>2. /\ Cardinality(Senders(m)') \in Nat /\ Cardinality(Strays(m)') \in Nat
    BY <1>1, Sizes
  <1>3. /\ One(Open(m))' \in {0, 1}
        /\ Open(m)' => One(Open(m))' = 1
        /\ ~Open(m)' => One(Open(m))' = 0
    BY DEF One
  <1>4. /\ row'[m] \in Row /\ row'[m].attempts \in Nat
        /\ delivered'[m] \in Nat /\ faults' \in Nat /\ rearmed'[m] \in Nat
    BY DEF TypeOK, Row
  <1>5. \A t \in Threads : thread'[t].attempts \in Nat /\ thread'[t].ok \in BOOLEAN
    BY DEF TypeOK, Thread
  <1>6. QED
    BY <1>1, <1>2, <1>3, <1>4, <1>5

LEMMA InvInit == Init => IInv
  <1> SUFFICES ASSUME Init PROVE IInv
    OBVIOUS
  <1>1. TypeOK
    BY TypeInit
  <1>2. \A t \in Threads : thread[t] = At("off")
    BY DEF Init
  <1>3. \A t \in Threads : thread[t].pc = "off" /\ thread[t].ok = FALSE
    BY <1>2 DEF At
  <1>4. ThreadsLive
    BY <1>3 DEF ThreadsLive
  <1>5. ASSUME NEW m \in Msgs PROVE MsgInv(m)
    <2>1. \A t \in Threads : ~Holds(t, m)
      BY <1>3 DEF Holds
    <2>2. Senders(m) = {} /\ Strays(m) = {}
      BY <2>1 DEF Senders, Strays
    <2>3. Cardinality(Senders(m)) = 0 /\ Cardinality(Strays(m)) = 0
      BY <2>2, FS_EmptySet
    <2>4. /\ row[m].status = "none" /\ row[m].attempts = 0
          /\ delivered[m] = 0 /\ faults = 0 /\ rearmed[m] = 0
      BY DEF Init
    <2>5. Delivered(m) /\ Attempted(m) /\ Strayed(m)
      BY <1>1, <2>3, <2>4, Numbers DEF Delivered, Attempted, Strayed
    <2>6. Distinct(m) /\ Owning(m) /\ Reached(m) /\ Exhausted(m)
      BY <2>1, <2>4 DEF Distinct, Owning, Reached, Accepted, Exhausted
    <2>7. QED
      BY <2>5, <2>6 DEF MsgInv
  <1>6. QED
    BY <1>1, <1>4, <1>5, InvParts

LEMMA FaultCounts == ASSUME TypeOK, Fault PROVE faults' = faults + 1 /\ faults' \in Nat
  BY DEF Fault, TypeOK

(* A step that changes neither a message's holders nor what was counted of it. *)
LEMMA Untouched ==
  ASSUME TypeOK, TypeOK', NEW m \in Msgs, MsgInv(m),
         row'[m].status = row[m].status, row'[m].attempts = row[m].attempts,
         row'[m].stale = row[m].stale,
         delivered'[m] = delivered[m], faults' >= faults, rearmed'[m] = rearmed[m],
         \A t \in Threads : Holds(t, m)' <=> Holds(t, m),
         \A t \in Threads : Holds(t, m) => /\ thread'[t].attempts = thread[t].attempts
                                         /\ thread'[t].ok = thread[t].ok
  PROVE  MsgInv(m)'
  <1>1. \A t \in Threads : Owns(t, m)' <=> Owns(t, m)
    BY DEF Owns
  <1>2. Owned(m)' <=> Owned(m)
    BY <1>1 DEF Owned
  <1>3. (Open(m)' <=> Open(m)) /\ Senders(m)' = Senders(m) /\ Strays(m)' = Strays(m)
    BY <1>1, <1>2 DEF Open, Senders, Strays
  <1>4. One(Open(m))' = One(Open(m))
    BY <1>3, Numbers, NumbersNext
  <1>5. Delivered(m)' /\ Attempted(m)' /\ Strayed(m)'
    BY <1>3, <1>4, Numbers, NumbersNext DEF MsgInv, Delivered, Attempted, Strayed
  <1>6. Distinct(m)' /\ Owning(m)' /\ Reached(m)' /\ Exhausted(m)'
    BY <1>1 DEF MsgInv, Distinct, Owning, Reached, Accepted, Exhausted
  <1>7. QED
    BY <1>5, <1>6 DEF MsgInv

(* A step of one thread leaves the messages it holds neither before nor after *)
(* with their holders.                                                        *)
LEMMA Elsewhere ==
  ASSUME TypeOK, TypeOK', NEW m \in Msgs, MsgInv(m), NEW t \in Threads,
         \A u \in Threads : u # t => thread'[u] = thread[u],
         ~Holds(t, m), ~Holds(t, m)',
         row'[m] = row[m], delivered'[m] = delivered[m], faults' >= faults,
         rearmed'[m] = rearmed[m]
  PROVE  MsgInv(m)'
  <1>1. \A u \in Threads : Holds(u, m)' <=> Holds(u, m)
    BY DEF Holds
  <1>2. \A u \in Threads : Holds(u, m) => thread'[u] = thread[u]
    OBVIOUS
  <1>3. QED
    BY <1>1, <1>2, Untouched

(* Threads that lose what they hold, when a fault is counted for it. *)
LEMMA Lost ==
  ASSUME TypeOK, TypeOK', NEW m \in Msgs, MsgInv(m),
         row'[m] = row[m], delivered'[m] = delivered[m], faults' = faults + 1,
         rearmed'[m] = rearmed[m],
         \A t \in Threads : Holds(t, m)' => Holds(t, m) /\ thread'[t] = thread[t]
  PROVE  MsgInv(m)'
  <1>1. \A t \in Threads : Holds(t, m)' => (Owns(t, m)' <=> Owns(t, m))
    BY DEF Owns
  <1>2. Senders(m)' \subseteq Senders(m) /\ Strays(m)' \subseteq Strays(m)
    BY <1>1 DEF Senders, Strays
  <1>3. /\ Cardinality(Senders(m)') <= Cardinality(Senders(m))
        /\ Cardinality(Strays(m)') <= Cardinality(Strays(m))
    <2>1. Senders(m) \in SUBSET Threads /\ Strays(m) \in SUBSET Threads
      BY DEF Senders, Strays
    <2>2. QED
      BY <1>2, <2>1, NumbersNext, Sizes
  <1>4. Delivered(m)' /\ Attempted(m)' /\ Strayed(m)'
    BY <1>3, Numbers, NumbersNext DEF MsgInv, Delivered, Attempted, Strayed
  <1>5. Distinct(m)' /\ Owning(m)'
    BY <1>1 DEF MsgInv, Distinct, Owning
  <1>6. Reached(m)' /\ Exhausted(m)'
    BY DEF MsgInv, Reached, Accepted, Exhausted
  <1>7. QED
    BY <1>4, <1>5, <1>6 DEF MsgInv

(* A 'sending' row freed under whatever thread holds it. *)
LEMMA Freed ==
  ASSUME TypeOK, TypeOK', NEW m \in Msgs, MsgInv(m), row[m].status = "sending",
         row'[m].attempts = row[m].attempts,
         \/ row'[m].status = "pending"
         \/ row'[m].status = "sending" /\ row'[m].stale = TRUE,
         delivered'[m] = delivered[m], faults' = faults,
         rearmed'[m] = IF Owned(m) THEN rearmed[m] + 1 ELSE rearmed[m],
         \A t \in Threads : Holds(t, m)' <=> Holds(t, m),
         \A t \in Threads : Holds(t, m) => thread'[t] = thread[t]
  PROVE  MsgInv(m)'
  <1>1. \A t \in Threads : ~Owns(t, m)'
    BY DEF Owns
  <1>2. Open(m)' /\ (Open(m) <=> ~Owned(m))
    BY <1>1 DEF Open, Owned
  <1>3. Senders(m)' = Senders(m) /\ Strays(m) \subseteq Strays(m)'
    BY <1>1 DEF Senders, Strays
  <1>4. Strays(m) \in SUBSET Threads
    BY DEF Strays
  <1>5. Distinct(m)' /\ Reached(m)' /\ Exhausted(m)'
    BY DEF MsgInv, Distinct, Reached, Accepted, Exhausted
  <1>6. CASE Owned(m)
    <2>1. PICK h \in Threads : Owns(h, m)
      BY <1>6 DEF Owned
    <2>2. \A u \in Threads : Owns(u, m) => u = h
      BY <2>1, OneOwner DEF MsgInv
    <2>3. Strays(m)' \subseteq Strays(m) \cup {h}
      BY <2>2 DEF Strays
    <2>4. row[m].attempts >= MaxAttempts => Strays(m)' \subseteq Strays(m)
      <3>1. Holds(h, m) /\ thread'[h].attempts = row[m].attempts
        BY <2>1 DEF Owns
      <3>2. h \in Strays(m)' => thread'[h].attempts < MaxAttempts
        BY DEF Strays
      <3>4. row[m].attempts >= MaxAttempts => h \notin Strays(m)'
        BY <3>1, <3>2, Numbers
      <3>3. QED
        BY <2>3, <3>4
    <2>5. Cardinality(Strays(m)') <= Cardinality(Strays(m)) + 1
      BY <1>4, <2>3, NumbersNext, Sizes
    <2>6. row[m].attempts >= MaxAttempts => Cardinality(Strays(m)') <= Cardinality(Strays(m))
      BY <1>4, <2>4, NumbersNext, Sizes
    <2>7. rearmed'[m] = rearmed[m] + 1 /\ One(Open(m))' = 1 /\ One(Open(m)) = 0
      BY <1>2, <1>6, Numbers, NumbersNext
    <2>8. Delivered(m)'
      BY <1>3, <2>7, Numbers DEF MsgInv, Delivered
    <2>9. Strayed(m)'
      BY <2>5, <2>7, Numbers, NumbersNext DEF MsgInv, Strayed
    <2>10. Attempted(m)'
      <3>1. CASE row[m].attempts >= MaxAttempts
        BY <2>6, <2>7, <3>1, Numbers, NumbersNext DEF MsgInv, Attempted
      <3>2. CASE ~(row[m].attempts >= MaxAttempts)
        BY <2>7, <2>9, <3>2, Numbers, NumbersNext DEF Strayed, Attempted
      <3>3. QED
        BY <3>1, <3>2
    <2>11. Owning(m)'
      BY <2>7, Numbers DEF Owning
    <2>12. QED
      BY <1>5, <2>8, <2>9, <2>10, <2>11 DEF MsgInv
  <1>7. CASE ~Owned(m)
    <2>1. \A t \in Threads : ~Owns(t, m)
      BY <1>7 DEF Owned
    <2>2. Strays(m)' = Strays(m)
      BY <1>1, <2>1 DEF Strays
    <2>3. rearmed'[m] = rearmed[m] /\ One(Open(m))' = 1 /\ One(Open(m)) = 1
      BY <1>2, <1>7, Numbers, NumbersNext
    <2>4. Delivered(m)' /\ Attempted(m)' /\ Strayed(m)'
      BY <1>3, <2>2, <2>3 DEF MsgInv, Delivered, Attempted, Strayed
    <2>5. Owning(m)'
      BY <2>1, <2>3 DEF MsgInv, Owning
    <2>6. QED
      BY <1>5, <2>4, <2>5 DEF MsgInv
  <1>8. QED
    BY <1>6, <1>7

-----------------------------------------------------------------------------
(* Steps. *)

LEMMA InProcs == \A p \in Procs, x \in Msgs \cup {Sweep} :
                    <<p, x>> \in Threads /\ <<p, x>>[1] = p
  BY DEF Threads

(* A thread that goes somewhere else. *)
LEMMA GoToFacts ==
  ASSUME TypeOK, NEW t \in Threads, NEW pc, GoTo(t, pc)
  PROVE  /\ thread'[t] = At(pc) /\ thread'[t].pc = pc /\ thread'[t].ok = FALSE
         /\ \A u \in Threads : u # t => thread'[u] = thread[u]
  BY DEF GoTo, At, TypeOK

LEMMA TakeFacts ==
  ASSUME TypeOK, NEW t \in Threads, NEW m \in Msgs, Take(t, m)
  PROVE  /\ thread'[t].pc = "send" /\ thread'[t].msg = m /\ thread'[t].ok = thread[t].ok
         /\ thread'[t].attempts = row[m].attempts + 1
         /\ row'[m].status = "sending" /\ row'[m].attempts = row[m].attempts + 1
         /\ row'[m].stale = FALSE
         /\ \A n \in Msgs : n # m => row'[n] = row[n]
         /\ \A u \in Threads : u # t => thread'[u] = thread[u]
  <1>1. row[m] \in Row /\ thread[t] \in Thread
    BY DEF TypeOK
  <1>2. row'[m] = ClaimedRow(row[m]) /\ \A n \in Msgs : n # m => row'[n] = row[n]
    BY DEF Take, TypeOK
  <1>3. row'[m].status = "sending" /\ row'[m].attempts = row[m].attempts + 1 /\ row'[m].stale = FALSE
    BY <1>1, <1>2 DEF ClaimedRow, Row
  <1> DEFINE n == row'[m].attempts
  <1>4. /\ thread' = [thread EXCEPT ![t] = [thread[t] EXCEPT !.pc = "send", !.msg = m, !.attempts = n]]
    BY DEF Take, TypeOK, Thread
  <1> HIDE DEF n
  <1>5. /\ thread'[t].pc = "send" /\ thread'[t].msg = m /\ thread'[t].ok = thread[t].ok
        /\ thread'[t].attempts = n
        /\ \A u \in Threads : u # t => thread'[u] = thread[u]
    BY <1>1, <1>4 DEF TypeOK, Thread
  <1>6. QED
    BY <1>2, <1>3, <1>5 DEF n

(* Only processes that run have threads, and what a thread holds is a message. *)
LEMMA LiveNext ==
  ASSUME TypeOK, ThreadsLive, [Next]_vars
  PROVE  ThreadsLive'
  <1>1. ASSUME NEW t \in Threads, NEW pc \in {"off", "checked", "start", "sweep"}, GoTo(t, pc),
               pc # "off" => t[1] \in up', up \subseteq up'
        PROVE  ThreadsLive'
    <2>1. /\ thread'[t].pc = pc /\ thread'[t].ok = FALSE
          /\ \A u \in Threads : u # t => thread'[u] = thread[u]
      BY <1>1, GoToFacts
    <2>2. \A u \in Threads : thread'[u].pc # "off" => u[1] \in up'
      BY <1>1, <2>1 DEF ThreadsLive
    <2>3. \A u \in Threads : thread'[u].pc \in {"send", "finish"} => thread'[u].msg \in Msgs
      BY <1>1, <2>1 DEF ThreadsLive
    <2>4. \A u \in Threads : thread'[u].ok = TRUE => thread'[u].pc = "finish"
      BY <2>1 DEF ThreadsLive
    <2>5. QED
      BY <1>1, <2>2, <2>3, <2>4 DEF ThreadsLive
  <1>2. \A t \in Threads : thread[t].pc # "off" => t[1] \in up
    BY DEF ThreadsLive
  <1>4. \A t \in Threads : After(t) \in {"off", "sweep"}
    BY DEF After
  <1>5. ASSUME NEW p \in Procs, NEW m \in Msgs, Request(p, m) PROVE ThreadsLive'
    <2>1. <<p, m>> \in Threads /\ <<p, m>>[1] = p
      BY InProcs
    <2>2. p \in up /\ UNCHANGED up
      BY <1>2, <1>5, <2>1 DEF Request, EnqueueCheck, EnqueueInsert
    <2>3. GoTo(<<p, m>>, "checked") \/ GoTo(<<p, m>>, "start")
      BY <1>5 DEF Request, EnqueueCheck, EnqueueInsert
    <2>4. QED
      BY <1>1, <2>1, <2>2, <2>3
  <1>6. ASSUME NEW t \in Threads, NEW m \in Msgs, Take(t, m), thread[t].pc \in {"start", "sweep"},
               UNCHANGED up
        PROVE  ThreadsLive'
    <2>1. /\ thread'[t].pc = "send" /\ thread'[t].msg = m /\ thread'[t].ok = thread[t].ok
          /\ \A u \in Threads : u # t => thread'[u] = thread[u]
      BY <1>6, TakeFacts
    <2>2. \A u \in Threads : thread'[u].pc # "off" => u[1] \in up'
      BY <1>6, <2>1 DEF ThreadsLive
    <2>3. \A u \in Threads : thread'[u].pc \in {"send", "finish"} => thread'[u].msg \in Msgs
      BY <1>6, <2>1 DEF ThreadsLive
    <2>4. \A u \in Threads : thread'[u].ok = TRUE => thread'[u].pc = "finish"
      BY <1>6, <2>1 DEF ThreadsLive
    <2>5. QED
      BY <1>6, <2>2, <2>3, <2>4 DEF ThreadsLive
  <1>7. ASSUME NEW p \in Procs, NEW m \in Msgs, Claim(p, m) PROVE ThreadsLive'
    <2>1. <<p, m>> \in Threads /\ <<p, Sweep>> \in Threads /\ UNCHANGED up
      BY <1>7, InProcs DEF Claim, ClaimSpecific, ClaimNextDue
    <2>2. CASE ClaimNextDue(p, m)
      BY <1>6, <2>1, <2>2 DEF ClaimNextDue
    <2>3. CASE ClaimSpecific(p, m) /\ ClaimableNow(m)
      BY <1>6, <2>1, <2>3 DEF ClaimSpecific
    <2>4. CASE ClaimSpecific(p, m) /\ ~ClaimableNow(m)
      BY <1>1, <2>1, <2>4 DEF ClaimSpecific
    <2>5. QED
      BY <1>7, <2>2, <2>3, <2>4 DEF Claim
  <1>8. ASSUME NEW t \in Threads, Send(t) PROVE ThreadsLive'
    <2>1. /\ thread[t].pc = "send" /\ thread'[t].pc = "finish" /\ thread'[t].msg = thread[t].msg
          /\ \A u \in Threads : u # t => thread'[u] = thread[u]
          /\ UNCHANGED up
      BY <1>8 DEF Send, SendAccepted, SendFailed, TypeOK, Thread
    <2>2. \A u \in Threads : thread'[u].pc # "off" => u[1] \in up'
      BY <2>1 DEF ThreadsLive
    <2>3. \A u \in Threads : thread'[u].pc \in {"send", "finish"} => thread'[u].msg \in Msgs
      BY <2>1 DEF ThreadsLive
    <2>4. \A u \in Threads : thread'[u].ok = TRUE => thread'[u].pc = "finish"
      BY <2>1 DEF ThreadsLive
    <2>5. QED
      BY <2>1, <2>2, <2>3, <2>4 DEF ThreadsLive
  <1>9. ASSUME NEW t \in Threads, Finish(t) \/ StatementFails(t) PROVE ThreadsLive'
    <2>1. GoTo(t, After(t)) /\ UNCHANGED up /\ thread[t].pc # "off"
      BY <1>9 DEF Finish, StatementFails
    <2>2. QED
      BY <1>1, <1>2, <1>4, <2>1
  <1>10. ASSUME NEW p \in Procs, Start(p) PROVE ThreadsLive'
    <2>1. <<p, Sweep>> \in Threads /\ <<p, Sweep>>[1] = p
      BY InProcs
    <2>2. p \in up' /\ up \subseteq up'
      BY <1>10 DEF Start
    <2>3. GoTo(<<p, Sweep>>, "sweep")
      BY <1>10 DEF Start
    <2>4. QED
      BY <1>1, <2>1, <2>2, <2>3
  <1>11. ASSUME NEW p \in Procs, Crash(p) PROVE ThreadsLive'
    <2>1. \A t \in Threads : thread'[t] = IF t[1] = p THEN At("off") ELSE thread[t]
      BY <1>11 DEF Crash
    <2>2. At("off").pc = "off" /\ At("off").ok = FALSE
      BY DEF At
    <2>3. ASSUME NEW t \in Threads
          PROVE  /\ thread'[t].pc # "off" => t[1] \in up'
                 /\ thread'[t].pc \in {"send", "finish"} => thread'[t].msg \in Msgs
                 /\ thread'[t].ok = TRUE => thread'[t].pc = "finish"
      <3>1. CASE t[1] = p
        BY <2>1, <2>2, <3>1
      <3>2. CASE t[1] # p
        <4>1. thread'[t] = thread[t] /\ (t[1] \in up => t[1] \in up')
          BY <1>11, <2>1, <3>2 DEF Crash
        <4>2. QED
          BY <4>1 DEF ThreadsLive
      <3>3. QED
        BY <3>1, <3>2
    <2>4. QED
      BY <2>3 DEF ThreadsLive
  <1>12. CASE UNCHANGED <<thread, up>>
    BY <1>12 DEF ThreadsLive
  <1>13. ASSUME NEW a \in Addrs, ClearFailed(a) PROVE ThreadsLive'
    BY <1>12, <1>13 DEF ClearFailed
  <1>14. ASSUME NEW m \in Msgs, Time(m) \/ CooldownEnds(m) PROVE ThreadsLive'
    BY <1>12, <1>14 DEF Time, BecomesDue, LeaseEnds, CooldownEnds
  <1>15. QED
    BY <1>5, <1>7, <1>8, <1>9, <1>10, <1>11, <1>12, <1>13, <1>14 DEF Next, vars

(* A claim takes a message that no thread owns. *)
LEMMA TakeInv ==
  ASSUME TypeOK, TypeOK', NEW t \in Threads, NEW n \in Msgs, Take(t, n), ClaimableNext(n),
         thread[t].pc \in {"start", "sweep"}, thread[t].ok = FALSE,
         UNCHANGED <<delivered, faults, rearmed>>, NEW m \in Msgs, MsgInv(m)
  PROVE  MsgInv(m)'
  <1>1. /\ thread'[t].pc = "send" /\ thread'[t].msg = n /\ thread'[t].ok = FALSE
        /\ thread'[t].attempts = row[n].attempts + 1
        /\ row'[n].status = "sending" /\ row'[n].attempts = row[n].attempts + 1
        /\ row'[n].stale = FALSE
        /\ \A k \in Msgs : k # n => row'[k] = row[k]
        /\ \A u \in Threads : u # t => thread'[u] = thread[u]
    BY TakeFacts
  <1>2. ~Holds(t, m)
    BY DEF Holds
  <1>3. CASE m # n
    <2>1. ~Holds(t, m)'
      BY <1>1, <1>3 DEF Holds
    <2>2. faults' >= faults
      BY Numbers
    <2>3. QED
      BY <1>1, <1>2, <1>3, <2>1, <2>2, Elsewhere
  <1>4. CASE m = n
    <2>1. Holds(t, m)' /\ \A u \in Threads : u # t => (Holds(u, m)' <=> Holds(u, m))
      BY <1>1, <1>4 DEF Holds
    <2>2. \A u \in Threads : ~Owns(u, m)
      BY <1>4 DEF ClaimableNext, ClaimableNow, Owns
    <2>3. Open(m)
      BY <1>4, <2>2 DEF ClaimableNext, ClaimableNow, Open, Owned
    <2>4. Owns(t, m)'
      BY <1>1, <1>4, <2>1 DEF Owns
    <2>5. ~Open(m)'
      BY <2>4 DEF Open, Owned
    <2>6. Senders(m)' \subseteq Senders(m) \cup {t} /\ Strays(m)' \subseteq Strays(m)
      BY <1>1, <2>1, <2>2, <2>4 DEF Senders, Strays
    <2>7. /\ Cardinality(Senders(m)') <= Cardinality(Senders(m)) + 1
          /\ Cardinality(Strays(m)') <= Cardinality(Strays(m))
      <3>1. Senders(m) \in SUBSET Threads /\ Strays(m) \in SUBSET Threads
        BY DEF Senders, Strays
      <3>2. QED
        BY <2>6, <3>1, NumbersNext, Sizes
    <2>8. One(Open(m)) = 1 /\ One(Open(m))' = 0
      BY <2>3, <2>5, Numbers, NumbersNext
    <2>9. Delivered(m)'
      BY <2>7, <2>8, Numbers, NumbersNext DEF MsgInv, Delivered
    <2>10. Attempted(m)' /\ Strayed(m)'
      BY <1>1, <1>4, <2>7, <2>8, Numbers, NumbersNext DEF MsgInv, Attempted, Strayed
    <2>11. Distinct(m)'
      <3>1. \A u \in Threads : u # t /\ Holds(u, m)' =>
               thread'[u].attempts = thread[u].attempts /\ thread[u].attempts <= row[m].attempts
        BY <1>1, <2>1 DEF MsgInv, Distinct
      <3>2. \A u \in Threads : u # t /\ Holds(u, m)' => thread'[u].attempts < row'[m].attempts
        BY <1>1, <1>4, <3>1, Numbers
      <3>3. \A u, v \in Threads :
              u # t /\ v # t /\ Holds(u, m)' /\ Holds(v, m)' /\ thread'[u].attempts = thread'[v].attempts
                => u = v
        <4>1. \A u, v \in Threads :
                Holds(u, m) /\ Holds(v, m) /\ thread[u].attempts = thread[v].attempts => u = v
          BY DEF MsgInv, Distinct
        <4>2. QED
          BY <2>1, <3>1, <4>1
      <3>4. thread'[t].attempts = row'[m].attempts /\ row'[m].status # "none"
        BY <1>1, <1>4
      <3>5. ASSUME NEW u \in Threads, Holds(u, m)'
            PROVE  /\ thread'[u].attempts <= row'[m].attempts
                   /\ \A v \in Threads : Holds(v, m)' /\ thread'[v].attempts = thread'[u].attempts => v = u
        BY <3>2, <3>3, <3>4, <3>5, NumbersNext
      <3>6. QED
        BY <3>4, <3>5 DEF Distinct
    <2>12. Owning(m)'
      <3>1. rearmed[m] = 0 => \A u \in Threads : ~Holds(u, m)
        BY <2>2 DEF MsgInv, Owning
      <3>2. QED
        BY <2>1, <2>4, <3>1 DEF Owning
    <2>13. Reached(m)' /\ Exhausted(m)'
      <3>1. Accepted(m)' => Accepted(m)
        BY <1>1, <2>1 DEF Accepted
      <3>2. QED
        BY <1>1, <1>4, <3>1 DEF MsgInv, Reached, Exhausted
    <2>14. QED
      BY <2>9, <2>10, <2>11, <2>12, <2>13 DEF MsgInv
  <1>5. QED
    BY <1>3, <1>4

(* The transport's answer. *)
LEMMA SendInv ==
  ASSUME TypeOK, TypeOK', ThreadsLive, NEW t \in Threads, Send(t), NEW m \in Msgs, MsgInv(m)
  PROVE  MsgInv(m)'
  <1> DEFINE n == thread[t].msg
  <1>1. thread[t].pc = "send" /\ n \in Msgs /\ thread[t].ok # TRUE
    BY DEF Send, SendAccepted, SendFailed, ThreadsLive
  <1>2. /\ thread'[t].pc = "finish" /\ thread'[t].msg = n
        /\ thread'[t].attempts = thread[t].attempts
        /\ \A u \in Threads : u # t => thread'[u] = thread[u]
        /\ UNCHANGED <<row, rearmed>>
    BY DEF Send, SendAccepted, SendFailed, TypeOK, Thread
  <1>3. \/ thread'[t].ok = TRUE /\ delivered' = [delivered EXCEPT ![n] = @ + 1] /\ UNCHANGED faults
        \/ thread'[t].ok = FALSE /\ UNCHANGED <<delivered, faults>>
        \/ thread'[t].ok = FALSE /\ Fault /\ delivered' = [delivered EXCEPT ![n] = @ + 1]
    BY DEF Send, SendAccepted, SendFailed, TypeOK, Thread
  <1>4. faults' >= faults /\ faults' \in Nat /\ (Fault => faults' = faults + 1)
    BY <1>3, Numbers, FaultCounts DEF TypeOK
  <1>5. \A k \in Msgs : /\ k # n => delivered'[k] = delivered[k]
                        /\ delivered' = [delivered EXCEPT ![n] = @ + 1] => delivered'[n] = delivered[n] + 1
    BY <1>1, <1>3 DEF TypeOK
  <1>6. thread[t].ok = FALSE
    BY <1>1, Numbers
  <1> HIDE DEF n
  <1>7. CASE m # n
    <2>1. ~Holds(t, m) /\ ~Holds(t, m)'
      BY <1>2, <1>7 DEF Holds, n
    <2>2. QED
      BY <1>2, <1>4, <1>5, <1>7, <2>1, Elsewhere
  <1>8. CASE m = n
    <2>1. Holds(t, m) /\ Holds(t, m)'
      BY <1>1, <1>2, <1>8 DEF Holds, n
    <2>2. \A u \in Threads : /\ Holds(u, m)' <=> Holds(u, m)
                             /\ thread'[u].attempts = thread[u].attempts
                             /\ u # t => thread'[u].ok = thread[u].ok
      BY <1>2, <2>1 DEF Holds
    <2>3. \A u \in Threads : Owns(u, m)' <=> Owns(u, m)
      BY <1>2, <2>2 DEF Owns
    <2>4. (Open(m)' <=> Open(m)) /\ Strays(m)' = Strays(m)
      BY <1>2, <2>2, <2>3 DEF Open, Owned, Strays
    <2>5. t \in Senders(m) /\ Senders(m)' \subseteq Senders(m)
      BY <1>6, <2>1, <2>2 DEF Senders
    <2>6. thread'[t].ok = TRUE => Senders(m)' \subseteq Senders(m) \ {t}
      BY <2>2 DEF Senders
    <2>7. /\ Cardinality(Senders(m)') <= Cardinality(Senders(m))
          /\ thread'[t].ok = TRUE => Cardinality(Senders(m)') + 1 <= Cardinality(Senders(m))
      <3>1. Senders(m) \in SUBSET Threads
        BY DEF Senders
      <3>2. QED
        BY <2>5, <2>6, <3>1, NumbersNext, Sizes
    <2>8. One(Open(m))' = One(Open(m))
      BY <2>4, Numbers, NumbersNext
    <2>9. Delivered(m)'
      BY <1>2, <1>3, <1>4, <1>5, <1>8, <2>7, <2>8, Numbers, NumbersNext DEF MsgInv, Delivered
    <2>10. Attempted(m)' /\ Strayed(m)'
      BY <1>2, <1>4, <2>4, <2>8, Numbers, NumbersNext DEF MsgInv, Attempted, Strayed
    <2>11. Distinct(m)' /\ Owning(m)' /\ Exhausted(m)'
      BY <1>2, <2>2, <2>3 DEF MsgInv, Distinct, Owning, Exhausted
    <2>12. Reached(m)'
      <3>1. delivered'[m] >= delivered[m] /\ (thread'[t].ok = TRUE => delivered'[m] > 0)
        BY <1>3, <1>5, <1>8, Numbers
      <3>2. Accepted(m)' /\ thread'[t].ok # TRUE => Accepted(m)
        BY <2>2 DEF Accepted
      <3>3. QED
        <4>1. row[m].status = "sent" \/ Accepted(m) => delivered'[m] > 0
          BY <3>1, Numbers, NumbersNext DEF MsgInv, Reached
        <4>2. QED
          BY <1>2, <3>1, <3>2, <4>1 DEF Reached
    <2>13. QED
      BY <2>9, <2>10, <2>11, <2>12 DEF MsgInv
  <1>9. QED
    BY <1>7, <1>8

(* What _finish makes of a row: its claims stay as counted. *)
LEMMA FinishedFacts ==
  ASSUME NEW r \in Row, NEW ok \in BOOLEAN, NEW n \in Nat
  PROVE  /\ FinishedRow(r, ok, n).attempts = r.attempts
         /\ FinishedRow(r, ok, n).status = IF ok THEN "sent"
                                           ELSE IF n >= MaxAttempts THEN "failed" ELSE "pending"
  <1>1. CASE ok
    BY <1>1 DEF FinishedRow, Row
  <1>2. CASE ~ok /\ n >= MaxAttempts
    BY <1>2 DEF FinishedRow, Row
  <1>3. CASE ~ok /\ ~(n >= MaxAttempts)
    BY <1>3 DEF FinishedRow, Row
  <1>4. QED
    BY <1>1, <1>2, <1>3

(* When a thread is done with a row, its owner, if it is another one, becomes *)
(* a stray in its place.                                                      *)
LEMMA StraysAfter ==
  ASSUME TypeOK, TypeOK', NEW m \in Msgs, Distinct(m), NEW t \in Threads, Holds(t, m),
         \A u \in Threads : u # t => thread'[u] = thread[u], ~Holds(t, m)'
  PROVE  /\ Cardinality(Strays(m)') <= Cardinality(Strays(m))
         /\ row[m].attempts >= MaxAttempts /\ thread[t].attempts < MaxAttempts
              => Cardinality(Strays(m)') + 1 <= Cardinality(Strays(m))
  <1>1. \A u \in Threads : Holds(u, m)' => u # t /\ Holds(u, m) /\ thread'[u] = thread[u]
    BY DEF Holds
  <1>2. Strays(m) \in SUBSET Threads /\ Strays(m)' \in SUBSET Threads
    BY DEF Strays
  <1>3. \A u \in Threads : Owns(u, m) => thread[u].attempts = row[m].attempts
    BY DEF Owns
  <1>4. \A u \in Strays(m)' : u \in Threads /\ u # t /\ Holds(u, m) /\ thread[u].attempts < MaxAttempts
    BY <1>1 DEF Strays
  <1>5. \A u \in Strays(m)' : u \in Strays(m) \/ Owns(u, m)
    BY <1>4 DEF Strays
  <1>6. CASE row[m].attempts >= MaxAttempts
    <2>1. Strays(m)' \subseteq Strays(m) \ {t}
      BY <1>3, <1>4, <1>5, <1>6, Numbers
    <2>2. thread[t].attempts < MaxAttempts => t \in Strays(m)
      <3>1. thread[t].attempts < MaxAttempts => ~Owns(t, m)
        BY <1>3, <1>6, Numbers
      <3>2. QED
        BY <3>1 DEF Strays
    <2>3. Strays(m)' \subseteq Strays(m)
      BY <2>1
    <2>4. QED
      BY <1>2, <2>1, <2>2, <2>3, Sizes
  <1>7. CASE ~(row[m].attempts >= MaxAttempts)
    <2>1. CASE \E h \in Threads : Owns(h, m) /\ h # t
      <3>1. PICK h \in Threads : Owns(h, m) /\ h # t
        BY <2>1
      <3>2. \A u \in Threads : Owns(u, m) => u = h
        BY <3>1, OneOwner
      <3>3. t \in Strays(m)
        <4>1. ~Owns(t, m) /\ thread[t].attempts <= row[m].attempts
          BY <3>1, <3>2 DEF Distinct
        <4>2. thread[t].attempts < MaxAttempts
          BY <1>7, <4>1, Numbers
        <4>3. QED
          BY <4>1, <4>2 DEF Strays
      <3>4. Strays(m)' \subseteq (Strays(m) \ {t}) \cup {h}
        BY <1>4, <1>5, <3>2
      <3>5. QED
        BY <1>2, <1>7, <3>3, <3>4, Sizes
    <2>2. CASE ~\E h \in Threads : Owns(h, m) /\ h # t
      <3>1. Strays(m)' \subseteq Strays(m)
        BY <1>4, <1>5, <2>2
      <3>2. QED
        BY <1>2, <1>7, <3>1, Sizes
    <2>3. QED
      BY <2>1, <2>2
  <1>8. QED
    BY <1>6, <1>7

(* Recording the outcome, whoever owns the row by now. *)
LEMMA FinishInv ==
  ASSUME TypeOK, TypeOK', ThreadsLive, NEW t \in Threads, Finish(t), NEW m \in Msgs, MsgInv(m)
  PROVE  MsgInv(m)'
  <1> DEFINE n == thread[t].msg
  <1> DEFINE ok == thread[t].ok
  <1> DEFINE a == thread[t].attempts
  <1>1. thread[t].pc = "finish" /\ n \in Msgs /\ ok \in BOOLEAN /\ a \in Nat
    BY Numbers DEF Finish, ThreadsLive
  <1>2. /\ thread'[t].pc = After(t) /\ After(t) \in {"off", "sweep"}
        /\ \A u \in Threads : u # t => thread'[u] = thread[u]
        /\ UNCHANGED <<delivered, faults, rearmed>>
    BY GoToFacts DEF Finish, After
  <1>3. ~Holds(t, m)'
    BY <1>2 DEF Holds
  <1>4. \A k \in Msgs : /\ k # n => row'[k] = row[k]
                        /\ row'[n] = IF row[n].status = "gone" THEN row[n] ELSE FinishedRow(row[n], ok, a)
    BY <1>1 DEF Finish, TypeOK
  <1>5. faults' >= faults
    BY <1>2, Numbers
  <1> HIDE DEF n, ok, a
  <1>6. CASE m # n
    <2>1. ~Holds(t, m)
      BY <1>6 DEF Holds, n
    <2>2. QED
      BY <1>2, <1>3, <1>4, <1>5, <1>6, <2>1, Elsewhere
  <1>7. CASE m = n
    <2>1. Holds(t, m)
      BY <1>1, <1>7 DEF Holds, n
    <2>2. \A u \in Threads : Holds(u, m)' <=> u # t /\ Holds(u, m)
      BY <1>2, <1>3 DEF Holds
    <2>3. row'[m].attempts = row[m].attempts
      BY <1>1, <1>4, <1>7, Numbers, FinishedFacts
    <2>4. row'[m].status = IF row[m].status = "gone" THEN "gone" ELSE IF ok THEN "sent"
                           ELSE IF a >= MaxAttempts THEN "failed" ELSE "pending"
      BY <1>1, <1>4, <1>7, Numbers, FinishedFacts
    <2>5. a <= row[m].attempts
      BY <2>1 DEF MsgInv, Distinct, a
    <2>6. \A u \in Threads : ~Owns(u, m)'
      BY <2>4 DEF Owns
    <2>7. Open(m)' <=> row'[m].status = "pending"
      BY <2>4, <2>6 DEF Open, Owned
    <2>8. Senders(m)' \subseteq Senders(m)
      BY <1>2, <2>2 DEF Senders
    <2>9. row'[m].status = "pending" => t \in Senders(m) /\ Senders(m)' \subseteq Senders(m) \ {t}
      BY <1>1, <2>1, <2>2, <2>4, <2>8 DEF Senders, ok
    <2>10. /\ Cardinality(Senders(m)') <= Cardinality(Senders(m))
           /\ row'[m].status = "pending" => Cardinality(Senders(m)') + 1 <= Cardinality(Senders(m))
      <3>1. Senders(m) \in SUBSET Threads
        BY DEF Senders
      <3>2. QED
        BY <2>8, <2>9, <3>1, NumbersNext, Sizes
    <2>11. One(Open(m))' = IF row'[m].status = "pending" THEN 1 ELSE 0
      BY <2>7, NumbersNext
    <2>12. Delivered(m)'
      BY <1>2, <2>10, <2>11, Numbers, NumbersNext DEF MsgInv, Delivered
    <2>13. /\ Cardinality(Strays(m)') <= Cardinality(Strays(m))
           /\ row[m].attempts >= MaxAttempts /\ a < MaxAttempts
                => Cardinality(Strays(m)') + 1 <= Cardinality(Strays(m))
      BY <1>2, <1>3, <2>1, StraysAfter DEF MsgInv, a
    <2>14. Strayed(m)'
      BY <1>2, <2>13, Numbers, NumbersNext DEF MsgInv, Strayed
    <2>15. Attempted(m)'
      <3>1. CASE row'[m].status # "pending"
        BY <1>2, <2>3, <2>11, <2>13, <3>1, Numbers, NumbersNext DEF MsgInv, Attempted
      <3>2. CASE row'[m].status = "pending" /\ row[m].attempts >= MaxAttempts
        <4>1. a < MaxAttempts
          BY <1>1, <2>4, <3>2, Numbers
        <4>2. QED
          BY <1>2, <2>3, <2>11, <2>13, <3>2, <4>1, Numbers, NumbersNext DEF MsgInv, Attempted
      <3>3. CASE row'[m].status = "pending" /\ ~(row[m].attempts >= MaxAttempts)
        BY <1>2, <2>3, <2>11, <2>14, <3>3, Numbers, NumbersNext DEF Strayed, Attempted
      <3>4. QED
        BY <3>1, <3>2, <3>3
    <2>16. Distinct(m)'
      BY <1>2, <2>2, <2>3, <2>4 DEF MsgInv, Distinct
    <2>17. Owning(m)'
      <3>1. rearmed[m] = 0 => \A u \in Threads : Holds(u, m) => u = t
        BY <2>1, OneOwner DEF MsgInv, Owning
      <3>2. QED
        BY <1>2, <2>2, <3>1 DEF Owning
    <2>18. Reached(m)'
      <3>1. Accepted(m)' => Accepted(m)
        BY <1>2, <2>2 DEF Accepted
      <3>2. row'[m].status = "sent" => Accepted(m)
        BY <1>1, <2>1, <2>4 DEF Accepted, ok
      <3>3. QED
        BY <1>2, <3>1, <3>2 DEF MsgInv, Reached
    <2>19. Exhausted(m)'
      BY <1>1, <2>3, <2>4, <2>5, Numbers DEF Exhausted
    <2>20. QED
      BY <2>12, <2>14, <2>15, <2>16, <2>17, <2>18, <2>19 DEF MsgInv
  <1>8. QED
    BY <1>6, <1>7

(* A statement that fails: whatever the thread held is left 'sending'. *)
LEMMA FailsInv ==
  ASSUME TypeOK, TypeOK', NEW t \in Threads, StatementFails(t), NEW m \in Msgs, MsgInv(m)
  PROVE  MsgInv(m)'
  <1>1. /\ thread'[t].pc = After(t) /\ After(t) \in {"off", "sweep"}
        /\ \A u \in Threads : u # t => thread'[u] = thread[u]
        /\ UNCHANGED <<row, delivered, rearmed>> /\ Fault
    BY GoToFacts DEF StatementFails, After
  <1>2. \A u \in Threads : Holds(u, m)' => Holds(u, m) /\ thread'[u] = thread[u]
    BY <1>1 DEF Holds
  <1>3. QED
    BY <1>1, <1>2, FaultCounts, Lost

(* A process that starts, beside others or not: its own threads hold nothing. *)
LEMMA StartInv ==
  ASSUME TypeOK, TypeOK', ThreadsLive, NEW p \in Procs, Start(p), NEW m \in Msgs, MsgInv(m)
  PROVE  MsgInv(m)'
  <1> DEFINE s == <<p, Sweep>>
  <1>1. s \in Threads /\ s[1] = p
    BY InProcs
  <1>2. /\ thread[s].pc = "off" /\ thread'[s].pc = "sweep"
        /\ \A t \in Threads : t # s => thread'[t] = thread[t]
    BY <1>1, GoToFacts DEF Start, ThreadsLive
  <1> HIDE DEF s
  <1>3. /\ \A t \in Threads : Holds(t, m)' <=> Holds(t, m)
        /\ \A t \in Threads : Holds(t, m) => thread'[t] = thread[t]
    BY <1>1, <1>2 DEF Holds
  <1>4. CASE row' = [k \in Msgs |-> Reclaimed(row[k])] /\ UNCHANGED faults
    <2>1. /\ row'[m] = Reclaimed(row[m]) /\ delivered'[m] = delivered[m] /\ faults' = faults
          /\ row[m] \in Row
      BY <1>4 DEF TypeOK, Start
    <2>2. CASE row[m].status = "sending"
      <3>1. row'[m].status = "pending" /\ row'[m].attempts = row[m].attempts
        BY <2>1, <2>2 DEF Reclaimed, Row
      <3>2. rearmed'[m] = IF Owned(m) THEN rearmed[m] + 1 ELSE rearmed[m]
        <4>1. rearmed' = [k \in Msgs |-> IF Owned(k) THEN rearmed[k] + 1 ELSE rearmed[k]] \/ Fault
          BY DEF Start
        <4>2. ~Fault
          BY <2>1 DEF Fault, TypeOK
        <4>3. QED
          BY <4>1, <4>2
      <3>3. QED
        BY <1>3, <2>1, <2>2, <3>1, <3>2, Freed
    <2>3. CASE row[m].status # "sending"
      <3>1. row'[m] = row[m]
        BY <2>1, <2>3 DEF Reclaimed
      <3>2. ~Owned(m)
        BY <2>3 DEF Owned, Owns
      <3>3. rearmed'[m] = rearmed[m]
        BY <3>2 DEF Start, TypeOK
      <3>4. QED
        BY <1>3, <2>1, <3>1, <3>3, Untouched, Numbers
    <2>4. QED
      BY <2>2, <2>3
  <1>5. CASE Fault /\ UNCHANGED <<row, rearmed>>
    BY <1>3, <1>5, FaultCounts, Lost DEF Start
  <1>6. QED
    BY <1>4, <1>5 DEF Start

(* The end of a process: its threads are gone. *)
LEMMA CrashInv ==
  ASSUME TypeOK, TypeOK', NEW p \in Procs, Crash(p), NEW m \in Msgs, MsgInv(m)
  PROVE  MsgInv(m)'
  <1>1. \A t \in Threads : thread'[t] = IF t[1] = p THEN At("off") ELSE thread[t]
    BY DEF Crash
  <1>2. At("off").pc = "off"
    BY DEF At
  <1>3. \A t \in Threads : Holds(t, m)' => Holds(t, m) /\ thread'[t] = thread[t]
    BY <1>1, <1>2 DEF Holds
  <1>4. QED
    BY <1>3, FaultCounts, Lost DEF Crash

(* A request, and a claim that finds the row taken, hold nothing. *)
LEMMA RequestInv ==
  ASSUME TypeOK, TypeOK', NEW p \in Procs, NEW n \in Msgs, Request(p, n), NEW m \in Msgs, MsgInv(m)
  PROVE  MsgInv(m)'
  <1> DEFINE t == <<p, n>>
  <1>1. t \in Threads
    BY InProcs
  <1>2. /\ thread[t].pc \in {"off", "checked"} /\ thread'[t].pc \in {"checked", "start"}
        /\ \A u \in Threads : u # t => thread'[u] = thread[u]
        /\ UNCHANGED <<delivered, faults, rearmed>>
    <2>1. CASE EnqueueCheck(p, n)
      <3>1. thread[t].pc = "off" /\ GoTo(t, "checked")
        BY <2>1 DEF EnqueueCheck
      <3>2. QED
        BY <1>1, <2>1, <3>1, GoToFacts DEF EnqueueCheck
    <2>2. CASE EnqueueInsert(p, n)
      <3>1. thread[t].pc = "checked" /\ GoTo(t, "start")
        BY <2>2 DEF EnqueueInsert
      <3>2. QED
        BY <1>1, <2>2, <3>1, GoToFacts DEF EnqueueInsert
    <2>3. QED
      BY <2>1, <2>2 DEF Request
  <1>3. ~Holds(t, m) /\ ~Holds(t, m)'
    BY <1>2 DEF Holds
  <1>4. faults' >= faults
    BY <1>2, Numbers
  <1>5. CASE row'[m] = row[m]
    BY <1>1, <1>2, <1>3, <1>4, <1>5, Elsewhere
  <1>6. CASE row'[m] # row[m]
    <2>1. m = n /\ row[m].status = "none" /\ row' = [row EXCEPT ![m].status = "pending", ![m].due = TRUE]
      BY <1>6 DEF Request, EnqueueCheck, EnqueueInsert, TypeOK
    <2>2. row'[m].status = "pending" /\ row'[m].attempts = row[m].attempts
      BY <2>1 DEF TypeOK, Row
    <2>3. \A u \in Threads : ~Holds(u, m)
      BY <2>1 DEF MsgInv, Distinct
    <2>4. \A u \in Threads : ~Holds(u, m)'
      BY <1>2, <1>3, <2>3 DEF Holds
    <2>5. Senders(m)' = Senders(m) /\ Strays(m)' = Strays(m)
      BY <2>3, <2>4 DEF Senders, Strays
    <2>6. Open(m)
      BY <2>1, <2>3 DEF Open, Owned, Owns
    <2>7. One(Open(m)) = 1
      BY <2>6, Numbers
    <2>8. Delivered(m)' /\ Attempted(m)' /\ Strayed(m)'
      BY <1>2, <2>2, <2>5, <2>7, Numbers, NumbersNext DEF MsgInv, Delivered, Attempted, Strayed
    <2>9. Distinct(m)' /\ Owning(m)' /\ Reached(m)' /\ Exhausted(m)'
      BY <2>2, <2>4 DEF Distinct, Owning, Reached, Accepted, Exhausted
    <2>10. QED
      BY <2>8, <2>9 DEF MsgInv
  <1>7. QED
    BY <1>5, <1>6

LEMMA ClaimInv ==
  ASSUME TypeOK, TypeOK', ThreadsLive, NEW p \in Procs, NEW n \in Msgs, Claim(p, n),
         NEW m \in Msgs, MsgInv(m)
  PROVE  MsgInv(m)'
  <1>1. <<p, n>> \in Threads /\ <<p, Sweep>> \in Threads
    BY InProcs
  <1>2. \A t \in Threads : thread[t].pc \in {"start", "sweep"} => thread[t].ok = FALSE
    BY DEF ThreadsLive, TypeOK, Thread
  <1>3. UNCHANGED <<delivered, faults, rearmed>>
    BY DEF Claim, ClaimSpecific, ClaimNextDue
  <1>4. CASE ClaimNextDue(p, n)
    BY <1>1, <1>2, <1>3, <1>4, TakeInv DEF ClaimNextDue
  <1>5. CASE ClaimSpecific(p, n) /\ ClaimableNow(n)
    BY <1>1, <1>2, <1>3, <1>5, TakeInv DEF ClaimSpecific, ClaimableNext
  <1>6. CASE ClaimSpecific(p, n) /\ ~ClaimableNow(n)
    <2>1. /\ thread[<<p, n>>].pc = "start" /\ thread'[<<p, n>>].pc = "off" /\ UNCHANGED row
          /\ \A u \in Threads : u # <<p, n>> => thread'[u] = thread[u]
      BY <1>1, <1>6, GoToFacts DEF ClaimSpecific
    <2>2. ~Holds(<<p, n>>, m) /\ ~Holds(<<p, n>>, m)'
      BY <2>1 DEF Holds
    <2>3. faults' >= faults
      BY <1>3, Numbers
    <2>4. QED
      BY <1>1, <1>3, <2>1, <2>2, <2>3, Elsewhere
  <1>7. QED
    BY <1>4, <1>5, <1>6 DEF Claim

(* Dead letters that go. *)
LEMMA ClearInv ==
  ASSUME TypeOK, TypeOK', NEW a \in Addrs, ClearFailed(a), NEW m \in Msgs, MsgInv(m)
  PROVE  MsgInv(m)'
  <1>1. UNCHANGED <<thread, delivered, faults, rearmed>>
    BY DEF ClearFailed
  <1>2. \A t \in Threads : Holds(t, m)' <=> Holds(t, m)
    BY <1>1 DEF Holds
  <1>3. CASE row[m].status = "failed" /\ To[m] = a
    <2>1. row'[m].status = "gone" /\ row'[m].attempts = row[m].attempts
      BY <1>3, Numbers DEF ClearFailed, TypeOK, Row
    <2>2. \A t \in Threads : ~Owns(t, m) /\ ~Owns(t, m)'
      BY <1>3, <2>1 DEF Owns
    <2>3. Senders(m)' = Senders(m) /\ Strays(m)' = Strays(m) /\ ~Open(m) /\ ~Open(m)'
      BY <1>1, <1>2, <1>3, <2>1, <2>2 DEF Senders, Strays, Open
    <2>4. One(Open(m)) = 0 /\ One(Open(m))' = 0
      BY <2>3, Numbers, NumbersNext
    <2>5. Delivered(m)' /\ Attempted(m)' /\ Strayed(m)'
      BY <1>1, <2>1, <2>3, <2>4 DEF MsgInv, Delivered, Attempted, Strayed
    <2>6. Distinct(m)' /\ Owning(m)'
      BY <1>1, <1>2, <2>1, <2>2 DEF MsgInv, Distinct, Owning
    <2>7. Reached(m)' /\ Exhausted(m)'
      BY <1>1, <1>2, <2>1 DEF MsgInv, Reached, Accepted, Exhausted
    <2>8. QED
      BY <2>5, <2>6, <2>7 DEF MsgInv
  <1>4. CASE ~(row[m].status = "failed" /\ To[m] = a)
    <2>1. row'[m] = row[m]
      BY <1>4 DEF ClearFailed
    <2>2. QED
      BY <1>1, <1>2, <2>1, Untouched, Numbers
  <1>5. QED
    BY <1>3, <1>4

(* Time. *)
LEMMA TimeInv ==
  ASSUME TypeOK, TypeOK', NEW n \in Msgs, Time(n) \/ CooldownEnds(n), NEW m \in Msgs, MsgInv(m)
  PROVE  MsgInv(m)'
  <1>1. UNCHANGED <<thread, delivered, faults>>
    BY DEF Time, BecomesDue, LeaseEnds, CooldownEnds
  <1>2. \A t \in Threads : (Holds(t, m)' <=> Holds(t, m)) /\ thread'[t] = thread[t]
    BY <1>1 DEF Holds
  <1>3. row[m] \in Row /\ faults' >= faults
    BY <1>1, Numbers
  <1>4. CASE BecomesDue(n) \/ CooldownEnds(n)
    <2>1. /\ row'[m].status = row[m].status /\ row'[m].attempts = row[m].attempts
          /\ row'[m].stale = row[m].stale
      BY <1>3, <1>4 DEF BecomesDue, CooldownEnds, TypeOK, Row
    <2>2. rearmed'[m] = rearmed[m]
      BY <1>4 DEF BecomesDue, CooldownEnds
    <2>3. QED
      BY <1>1, <1>2, <1>3, <2>1, <2>2, Untouched
  <1>5. CASE LeaseEnds(n) /\ m # n
    <2>1. row'[m] = row[m] /\ rearmed'[m] = rearmed[m]
      BY <1>5 DEF LeaseEnds, TypeOK
    <2>2. QED
      BY <1>1, <1>2, <1>3, <2>1, Untouched
  <1>6. CASE LeaseEnds(n) /\ m = n
    <2>1. /\ row[m].status = "sending" /\ row'[m].status = "sending" /\ row'[m].stale = TRUE
          /\ row'[m].attempts = row[m].attempts
      BY <1>3, <1>6 DEF LeaseEnds, TypeOK, Row
    <2>2. rearmed'[m] = IF Owned(m) THEN rearmed[m] + 1 ELSE rearmed[m]
      BY <1>6 DEF LeaseEnds, TypeOK
    <2>3. QED
      BY <1>1, <1>2, <2>1, <2>2, Freed
  <1>7. QED
    BY <1>4, <1>5, <1>6 DEF Time

LEMMA InvNext ==
  ASSUME IInv, [Next]_vars
  PROVE  IInv'
  <1>1. TypeOK /\ ThreadsLive /\ \A m \in Msgs : MsgInv(m)
    BY InvParts
  <1>2. TypeOK' /\ ThreadsLive'
    BY <1>1, TypeNext, LiveNext
  <1>3. ASSUME NEW m \in Msgs PROVE MsgInv(m)'
    <2> USE <1>1, <1>2
    <2>1. CASE \E p \in Procs, n \in Msgs : Request(p, n) \/ Claim(p, n)
      BY <2>1, RequestInv, ClaimInv
    <2>2. CASE \E t \in Threads : Send(t) \/ Finish(t) \/ StatementFails(t)
      BY <2>2, SendInv, FinishInv, FailsInv
    <2>3. CASE \E p \in Procs : Start(p) \/ Crash(p)
      BY <2>3, StartInv, CrashInv
    <2>4. CASE (\E a \in Addrs : ClearFailed(a)) \/ (\E n \in Msgs : Time(n) \/ CooldownEnds(n))
      BY <2>4, ClearInv, TimeInv
    <2>5. CASE UNCHANGED vars
      <3>1. /\ row'[m].status = row[m].status /\ row'[m].attempts = row[m].attempts
            /\ row'[m].stale = row[m].stale /\ delivered'[m] = delivered[m]
            /\ rearmed'[m] = rearmed[m] /\ faults' >= faults
        BY <2>5, Numbers DEF vars
      <3>2. \A t \in Threads : (Holds(t, m)' <=> Holds(t, m)) /\ thread'[t] = thread[t]
        BY <2>5 DEF vars, Holds
      <3>3. QED
        BY <3>1, <3>2, Untouched
    <2>6. QED
      BY <2>1, <2>2, <2>3, <2>4, <2>5 DEF Next
  <1>4. (IInv <=> TypeOK /\ ThreadsLive /\ \A m \in Msgs : MsgInv(m))'
    BY InvParts, PTL
  <1>5. QED
    BY <1>2, <1>3, <1>4

-----------------------------------------------------------------------------
(* Theorems. *)

(* However processes overlap and however long a send takes, the whole         *)
(* invariant of email_outbox.py's rows and threads holds for ever.            *)
THEOREM Invariance == Spec => []IInv
  <1>1. Init => IInv
    BY InvInit
  <1>2. IInv /\ [Next]_vars => IInv'
    BY InvNext
  <1>3. QED
    BY <1>1, <1>2, PTL DEF Spec

(* Rows and threads keep their types (_COLS and the status constants). *)
THEOREM TypeCorrect == Spec => []TypeOK
  <1>1. IInv => TypeOK
    BY DEF IInv
  <1>2. QED
    BY <1>1, Invariance, PTL

(* Until a starting process or a lease's end frees a row under its sender, no *)
(* two threads of any processes send one message, and a sender's claim is the *)
(* row's (_claim_specific, _claim_next_due, reclaim_stuck).                   *)
THEOREM OneSender == Spec => []HolderOwnsRow
  <1>1. IInv => HolderOwnsRow
    BY DEF IInv
  <1>2. QED
    BY <1>1, Invariance, PTL

(* 'sent' means accepted by the provider (_finish). *)
THEOREM SentDelivered == Spec => []SentWasDelivered
  <1>1. IInv => SentWasDelivered
    BY DEF IInv, AcceptedIsDelivered, SentWasDelivered
  <1>2. QED
    BY <1>1, Invariance, PTL

(* A dead letter used up its attempts (_finish). *)
THEOREM FailedExhausted == Spec => []FailedAfterAllAttempts
  <1>1. IInv => FailedAfterAllAttempts
    BY DEF IInv
  <1>2. QED
    BY <1>1, Invariance, PTL

(* Every repeated delivery has a crash, a lost answer, a failed statement, or *)
(* a row freed under its sender, of its own (at-least-once delivery).         *)
THEOREM RepeatsRare == Spec => []RepeatsNeedAFault
  <1>1. IInv => RepeatsNeedAFault
    <2> SUFFICES ASSUME IInv, NEW m \in Msgs PROVE delivered[m] <= 1 + faults + rearmed[m]
      BY DEF RepeatsNeedAFault
    <2>1. TypeOK /\ Delivered(m)
      BY InvParts DEF MsgInv
    <2>2. QED
      BY <2>1, Numbers DEF Delivered
  <1>2. QED
    BY <1>1, Invariance, PTL

(* So has every attempt past max_attempts (_claim_next_due, reclaim_stuck). *)
THEOREM ClaimsRare == Spec => []ClaimsNeedAFault
  <1>1. IInv => ClaimsNeedAFault
    <2> SUFFICES ASSUME IInv, NEW m \in Msgs
                 PROVE  row[m].attempts <= MaxAttempts + faults + rearmed[m]
      BY DEF ClaimsNeedAFault
    <2>1. TypeOK /\ Attempted(m)
      BY InvParts DEF MsgInv
    <2>2. QED
      BY <2>1, Numbers DEF Attempted
  <1>2. QED
    BY <1>1, Invariance, PTL

(* A late _finish, which checks neither status nor claim, never moves a row   *)
(* out of 'sent' unless the row was freed under a sender.                     *)
THEOREM SentFinal == Spec => SentIsFinal
  <1> DEFINE Kept == \A m \in Msgs : row[m].status = "sent" /\ rearmed[m] = 0 => row'[m].status = "sent"
  <1>1. ASSUME IInv, [Next]_vars PROVE Kept
    <2> SUFFICES ASSUME NEW m \in Msgs, row[m].status = "sent", rearmed[m] = 0
                 PROVE  row'[m].status = "sent"
      OBVIOUS
    <2>1. TypeOK /\ ThreadsLive /\ MsgInv(m)
      BY <1>1, InvParts
    <2>2. \A t \in Threads : ~Holds(t, m)
      BY <2>1 DEF MsgInv, Owning, Owns
    <2>3. ASSUME NEW p \in Procs, NEW n \in Msgs, Request(p, n) PROVE row'[m] = row[m]
      BY <2>1, <2>3 DEF Request, EnqueueCheck, EnqueueInsert, TypeOK
    <2>4. ASSUME NEW p \in Procs, NEW n \in Msgs, Claim(p, n) PROVE row'[m] = row[m]
      <3>1. \A t \in Threads : Take(t, n) /\ n # m => row'[m] = row[m]
        BY <2>1 DEF Take, TypeOK
      <3>2. ~ClaimableNext(m)
        BY DEF ClaimableNext, ClaimableNow
      <3>3. QED
        BY <2>4, <3>1, <3>2, InProcs DEF Claim, ClaimSpecific, ClaimNextDue, ClaimableNext
    <2>5. ASSUME NEW t \in Threads, Send(t) \/ StatementFails(t) PROVE row'[m] = row[m]
      BY <2>5 DEF Send, SendAccepted, SendFailed, StatementFails
    <2>6. ASSUME NEW t \in Threads, Finish(t) PROVE row'[m] = row[m]
      <3>1. thread[t].msg # m
        BY <2>2, <2>6 DEF Finish, Holds
      <3>2. QED
        BY <2>1, <2>6, <3>1 DEF Finish, TypeOK
    <2>7. ASSUME NEW a \in Addrs, ClearFailed(a) PROVE row'[m] = row[m]
      BY <2>7 DEF ClearFailed
    <2>8. ASSUME NEW p \in Procs, Start(p) \/ Crash(p) PROVE row'[m] = row[m]
      BY <2>8 DEF Start, Crash, Reclaimed
    <2>9. ASSUME NEW n \in Msgs, Time(n) \/ CooldownEnds(n) PROVE row'[m].status = row[m].status
      <3>1. CASE n # m
        BY <2>1, <2>9, <3>1 DEF Time, BecomesDue, LeaseEnds, CooldownEnds, TypeOK
      <3>2. CASE n = m /\ CooldownEnds(m)
        BY <2>1, <3>2 DEF CooldownEnds, TypeOK, Row
      <3>3. ~Time(m)
        BY DEF Time, BecomesDue, LeaseEnds
      <3>4. QED
        BY <2>9, <3>1, <3>2, <3>3
    <2>10. QED
      BY <1>1, <2>3, <2>4, <2>5, <2>6, <2>7, <2>8, <2>9 DEF Next, vars
  <1>2. IInv /\ [Next]_vars => [Kept]_vars
    BY <1>1
  <1>3. QED
    BY <1>2, Invariance, PTL DEF Spec, SentIsFinal
=============================================================================
