-------------------------- MODULE UseCaseTestingProofs --------------------------
(***************************************************************************)
(* Proofs about UseCaseTesting, for any cases, testers, cycles, proofs and     *)
(* bounds: whose verdicts the timelines hold, which definition they are about,  *)
(* what the cached status is worth, and which evidence may still change.       *)
(***************************************************************************)
EXTENDS UseCaseTesting, WellFoundedInduction, SequenceTheorems, TLAPS

-----------------------------------------------------------------------------
(* The invariant.                                                           *)

Stamped == {"record", "bulk", "note", "scope", "plan"}
Times(u) == {e.at : e \in timeline[u]}
\* the timestamps of the requests under way
Ats == {req[p].at : p \in {q \in Testers : req[q].op \in Stamped}}

\* what the passes that request r carries are worth, B: the verdicts given, V: the versions
CarryOK(r, V, B) ==
    /\ \A u \in Cards : r.carry[u] # 0
          => r.op = "plan" /\ r.version # 0 /\ <<u, "passed", V[r.version][u]>> \in B
    /\ \A u \in Cards : r.op = "plan" /\ (u \in r.held \/ r.old[u] # None) => r.carry[u] # 0
    /\ r.next # None => r.carry[r.next] # 0
    /\ r.queued # None => r.next # None
\* a request on its own, with draft D and clock C: the cases it holds are there
RequestOK(r, V, D, C, B) ==
    /\ r \in Request
    /\ r.version <= Len(V)
    /\ \A u \in r.held : D[u] # None
    /\ r.op \in Stamped => r.at \in 1 .. C
    /\ r.op = "plan" /\ r.todo # {} => r.version # 0
    /\ r.op = "drop" => r.proof \in Proofs
    /\ CarryOK(r, V, B)
RequestsOK == \A p \in Testers : RequestOK(req[p], versions, draft, clock, given \cup revived)

\* a timestamp belongs to one request or to one event of each case
StampsOK ==
    /\ \A u \in Cards : \A t \in Times(u) : t \notin Ats /\ t <= clock
    /\ \A p, q \in Testers :
          p # q /\ req[p].op \in Stamped /\ req[q].op \in Stamped => req[p].at # req[q].at
Apart(S) == \A e, f \in S : e.at = f.at => e = f
RowsOK == \A u \in Cards : Apart(timeline[u])

\* a cycle is pinned to a version, and events belong to cycles that exist
PinsOK ==
    /\ \A k \in Cycles : cycle[k].state \in {"open", "closed"} => cycle[k].version \in 1 .. Len(versions)
    /\ \A u \in Cards : \A e \in timeline[u] : e.cycle # None => cycle[e.cycle].state \in {"open", "closed"}

\* a delete of bound evidence: while its event is there the proof is bound to it, and a new
\* event is never taken for it
DropOK(r) ==
    r.op = "drop" /\ r.item # 0
      => /\ r.item <= clock /\ r.item \notin Ats
         /\ \A u \in Cards : proof[r.proof].card = u /\ r.item \in Times(u)
                               => proof[r.proof].at = r.item
DropsOK == \A p \in Testers : DropOK(req[p])

IInv ==
    /\ TypeOK /\ RequestsOK /\ StampsOK /\ RowsOK /\ PinsOK /\ DropsOK
    /\ CacheFollowsTimeline /\ VerdictsWereGiven /\ CycleTestsItsVersion /\ EvidenceHasResult

-----------------------------------------------------------------------------
(* The newest event of a set, and what a timeline says.                      *)

LEMMA NewestOK ==
    ASSUME NEW S \in SUBSET Event, S # {}
    PROVE  Newest(S) \in S /\ \A f \in S : f.at <= Newest(S).at
<1> DEFINE Less == OpToRel(<, Nat)
           ages == {TxBound - e.at : e \in S}
<1>1. \A e \in S : e.at \in 1 .. TxBound
  BY DEF Event
<1>2. ages \subseteq Nat /\ ages # {}
  BY <1>1, BoundAssumption
<1>3. IsWellFoundedOn(Less, Nat)
  BY NatLessThanWellFounded
<1>4. \A a, b \in Nat : <<a, b>> \in Less <=> a < b
  BY DEF OpToRel
<1> HIDE DEF Less
<1>5. PICK a \in ages : \A b \in ages : <<b, a>> \notin Less
  <2> HIDE DEF ages
  <2> QED
    BY <1>2, <1>3, WFMin
<1>6. \A b \in ages : a <= b
  <2> TAKE b \in ages
  <2>1. a \in Nat /\ b \in Nat /\ ~(b < a)
    BY <1>2, <1>4, <1>5
  <2> QED
    BY ONLY <2>1
<1>7. PICK e \in S : a = TxBound - e.at
  BY <1>5
<1>8. \A f \in S : f.at <= e.at
  <2> TAKE f \in S
  <2>1. TxBound - e.at <= TxBound - f.at
    BY <1>6, <1>7
  <2>2. TxBound \in Int /\ e.at \in Int /\ f.at \in Int
    BY <1>1, BoundAssumption
  <2> QED
    BY ONLY <2>1, <2>2
<1>9. \E n \in S : \A f \in S : f.at <= n.at
  BY <1>8
<1> QED
  BY <1>9 DEF Newest

\* there is one newest event
LEMMA NewestIs ==
    ASSUME NEW S \in SUBSET Event, Apart(S), NEW n \in S, \A f \in S : f.at <= n.at
    PROVE  Newest(S) = n
<1>1. Newest(S) \in S /\ n.at <= Newest(S).at
  BY NewestOK
<1>2. Newest(S).at <= n.at /\ Newest(S).at \in Int /\ n.at \in Int
  BY <1>1 DEF Event
<1>3. Newest(S).at = n.at
  BY <1>1, <1>2
<1> QED
  BY <1>1, <1>3 DEF Apart

LEMMA DerivedTyped ==
    ASSUME NEW S \in SUBSET Event
    PROVE  Derived(S) \in Cached
<1>1. \A k : OfKind(S, k) \in SUBSET Event
  BY DEF OfKind
<1>2. OfKind(S, "status") # {} => /\ Newest(OfKind(S, "status")).status \in Statuses
                                  /\ Newest(OfKind(S, "status")).basis \in Basis
  BY <1>1, NewestOK DEF Event
<1>3. OfKind(S, "scope") # {} => Newest(OfKind(S, "scope")).scope \in BOOLEAN
  BY <1>1, NewestOK DEF Event
<1> QED
  BY <1>2, <1>3, StatusAssumption DEF Derived, Cached

\* g changes the events of S only in what the cached status does not show
Spares(g, S) ==
    \A e \in S : /\ g[e] \in Event /\ g[e].at = e.at /\ g[e].kind = e.kind
                 /\ g[e].status = e.status /\ g[e].scope = e.scope /\ g[e].basis = e.basis

LEMMA SparedApart ==
    ASSUME NEW S \in SUBSET Event, Apart(S), NEW g, Spares(g, S)
    PROVE  LET T == {g[e] : e \in S}
           IN  T \in SUBSET Event /\ Apart(T) /\ {f.at : f \in T} = {e.at : e \in S}
<1> DEFINE T == {g[e] : e \in S}
<1>1. T \in SUBSET Event
  BY DEF Spares
<1>2. Apart(T)
  BY DEF Spares, Apart
<1>3. {f.at : f \in T} = {e.at : e \in S}
  BY DEF Spares
<1> QED
  BY <1>1, <1>2, <1>3

LEMMA SparedNewest ==
    ASSUME NEW S \in SUBSET Event, Apart(S), NEW g, Spares(g, S), S # {}
    PROVE  Newest({g[e] : e \in S}) = g[Newest(S)]
<1> DEFINE T == {g[e] : e \in S}
           m == Newest(S)
<1>1. m \in S /\ \A f \in S : f.at <= m.at
  BY NewestOK
<1>2. T \in SUBSET Event /\ Apart(T)
  BY SparedApart
<1> HIDE DEF m
<1>3. g[m] \in T /\ \A f \in T : f.at <= g[m].at
  BY <1>1 DEF Spares
<1> HIDE DEF T
<1>4. Newest(T) = g[m]
  BY <1>2, <1>3, NewestIs
<1> QED
  BY <1>4 DEF T, m

LEMMA SparedDerived ==
    ASSUME NEW S \in SUBSET Event, Apart(S), NEW g, Spares(g, S)
    PROVE  Derived({g[e] : e \in S}) = Derived(S)
<1> DEFINE T == {g[e] : e \in S}
<1>1. ASSUME NEW k \in Kinds
      PROVE  /\ OfKind(T, k) = {} <=> OfKind(S, k) = {}
             /\ OfKind(S, k) # {} => /\ Newest(OfKind(T, k)).status = Newest(OfKind(S, k)).status
                                     /\ Newest(OfKind(T, k)).basis = Newest(OfKind(S, k)).basis
                                     /\ Newest(OfKind(T, k)).scope = Newest(OfKind(S, k)).scope
  <2> DEFINE R == OfKind(S, k)
  <2>1. R \in SUBSET Event /\ Apart(R) /\ Spares(g, R)
    BY DEF OfKind, Apart, Spares
  <2>2. OfKind(T, k) = {g[e] : e \in R}
    BY DEF OfKind, Spares
  <2> HIDE DEF R
  <2>3. OfKind(T, k) = {} <=> R = {}
    BY <2>2
  <2>4. R # {} => Newest(OfKind(T, k)) = g[Newest(R)] /\ Newest(R) \in R
    BY <2>1, <2>2, SparedNewest, NewestOK
  <2> QED
    BY <2>1, <2>3, <2>4 DEF R, Spares
<1>2. "status" \in Kinds /\ "scope" \in Kinds
  BY DEF Kinds
<1> HIDE DEF T
<1>3. Derived(T) = Derived(S)
  BY <1>1, <1>2 DEF Derived
<1> QED
  BY <1>3 DEF T

-----------------------------------------------------------------------------
(* Requests.                                                                 *)

\* a request stays what it is while versions, clock and verdicts grow and its cases stay
LEMMA RequestStays ==
    ASSUME NEW r, NEW V, NEW D, NEW C \in Int, NEW B, NEW W, NEW E, NEW Z \in Int, NEW F,
           RequestOK(r, V, D, C, B), Len(V) \in Nat, Len(W) \in Nat, Len(V) <= Len(W), C <= Z,
           B \subseteq F, \A v \in 1 .. Len(V) : W[v] = V[v], \A u \in r.held : E[u] # None
    PROVE  RequestOK(r, W, E, Z, F)
<1>1. r \in Request /\ r.version \in Nat /\ r.version <= Len(V) /\ CarryOK(r, V, B)
  BY BoundAssumption DEF RequestOK, Request
<1>2. r.version # 0 => W[r.version] = V[r.version]
  BY <1>1
<1>3. CarryOK(r, W, F)
  BY <1>1, <1>2 DEF CarryOK
<1>4. r.op \in Stamped => r.at \in 1 .. Z
  BY DEF RequestOK
<1> QED
  BY <1>1, <1>3, <1>4 DEF RequestOK

LEMMA IdleOK ==
    ASSUME NEW V, NEW D, NEW C, NEW B, Len(V) \in Nat
    PROVE  RequestOK(Idle, V, D, C, B) /\ Idle.op = "idle"
<1>1. Idle \in Request
  BY StatusAssumption, BoundAssumption DEF Idle, Request, Ops
<1>2. CarryOK(Idle, V, B)
  BY DEF Idle, CarryOK
<1> QED
  BY <1>1, <1>2 DEF Idle, RequestOK, Stamped

Grown == /\ versions' \in Seq([Cards -> Basis \cup {None}]) /\ Len(versions) <= Len(versions')
         /\ \A v \in 1 .. Len(versions) : versions'[v] = versions[v]
         /\ clock' \in Int /\ clock <= clock'
         /\ given \cup revived \subseteq given' \cup revived'

LEMMA GrownSame == 
    ASSUME TypeOK, UNCHANGED <<versions, clock, given, revived>>
    PROVE  Grown
BY DEF TypeOK, Grown

LEMMA RequestsKept ==
    ASSUME TypeOK, RequestsOK, Grown,
           \A p \in Testers : \A u \in req[p].held : draft'[u] # None,
           \A p \in Testers : \/ req'[p] = req[p]
                              \/ RequestOK(req'[p], versions', draft', clock', given' \cup revived')
    PROVE  RequestsOK'
<1>1. Len(versions) \in Nat /\ Len(versions') \in Nat /\ clock \in Int
  BY DEF TypeOK, Grown
<1>2. ASSUME NEW p \in Testers
      PROVE  RequestOK(req[p], versions', draft', clock', given' \cup revived')
  BY <1>1, RequestStays DEF RequestsOK, Grown
<1> QED
  BY <1>2 DEF RequestsOK

\* the stamps under way are those from before, or fewer
LEMMA StampsKept ==
    ASSUME StampsOK, \A u \in Cards : Times(u)' = Times(u), clock' = clock,
           \A p \in Testers : req'[p].op \in Stamped => req[p].op \in Stamped /\ req'[p].at = req[p].at
    PROVE  StampsOK' /\ Ats' \subseteq Ats
<1>1. Ats' \subseteq Ats
  BY DEF Ats
<1>2. \A u \in Cards : \A t \in Times(u)' : t \notin Ats' /\ t <= clock'
  BY <1>1 DEF StampsOK
<1>3. \A p, q \in Testers :
          p # q /\ req'[p].op \in Stamped /\ req'[q].op \in Stamped => req'[p].at # req'[q].at
  BY DEF StampsOK
<1> QED
  BY <1>1, <1>2, <1>3 DEF StampsOK

\* nothing but a request
LEMMA RequestStep ==
    ASSUME IInv, NEW p \in Testers, NEW r, req' = [req EXCEPT ![p] = r],
           UNCHANGED <<world, cycle, timeline, proof, cache, clock, ghosts>>,
           changes' \in 0 .. ChangeBound,
           RequestOK(r, versions, draft, clock, given \cup revived),
           r.op \in Stamped => req[p].op \in Stamped /\ r.at = req[p].at,
           DropOK(r)
    PROVE  IInv'
<1>1. TypeOK /\ req \in [Testers -> Request] /\ r \in Request
  BY DEF IInv, TypeOK, RequestOK
<1>2. UNCHANGED <<draft, versions, given, revived, overtaken>>
  BY DEF world, ghosts
<1>3. TypeOK'
  <2>1. req' \in [Testers -> Request]
    BY <1>1
  <2> QED
    BY <2>1, <1>1, <1>2 DEF TypeOK
<1>4. \A q \in Testers : req'[q] = IF q = p THEN r ELSE req[q]
  BY <1>1
<1>5. RequestsOK'
  <2>1. \A q \in Testers : \A u \in req[q].held : draft'[u] # None
    BY <1>2 DEF IInv, RequestsOK, RequestOK
  <2> QED
    BY <2>1, <1>1, <1>2, <1>4, GrownSame, RequestsKept DEF IInv
<1>6. \A u : Times(u)' = Times(u)
  BY DEF Times
<1>7. StampsOK' /\ Ats' \subseteq Ats
  BY <1>4, <1>6, StampsKept DEF IInv
<1>8. DropsOK'
  <2> SUFFICES ASSUME NEW q \in Testers PROVE DropOK(req[q])'
    BY DEF DropsOK
  <2>1. DropOK(req'[q])
    BY <1>4 DEF IInv, DropsOK
  <2> QED
    BY <2>1, <1>6, <1>7 DEF DropOK
<1>9. RowsOK' /\ PinsOK'
  BY <1>2 DEF IInv, RowsOK, PinsOK
<1>10. CacheFollowsTimeline' /\ VerdictsWereGiven' /\ CycleTestsItsVersion' /\ EvidenceHasResult'
  BY <1>2 DEF IInv, CacheFollowsTimeline, VerdictsWereGiven, CycleTestsItsVersion,
              EvidenceHasResult, VersionBasis
<1> QED
  BY <1>3, <1>5, <1>7, <1>8, <1>9, <1>10 DEF IInv

\* a request with less to do, or with one more case that is there
LEMMA LessToDo ==
    ASSUME NEW r, NEW V, NEW D, NEW C, NEW B, RequestOK(r, V, D, C, B), NEW u
    PROVE  LET s == [r EXCEPT !.todo = @ \ {u}]
           IN  RequestOK(s, V, D, C, B) /\ s.op = r.op /\ s.at = r.at /\ s.item = r.item /\ s.proof = r.proof
<1> DEFINE s == [r EXCEPT !.todo = @ \ {u}]
<1>1. r \in Request
  BY DEF RequestOK
<1>2. s \in Request
  BY <1>1 DEF Request
<1>3. /\ s.op = r.op /\ s.at = r.at /\ s.held = r.held /\ s.version = r.version /\ s.carry = r.carry
      /\ s.next = r.next /\ s.queued = r.queued /\ s.old = r.old /\ s.proof = r.proof
      /\ s.item = r.item /\ s.todo = r.todo \ {u}
  BY <1>1 DEF Request
<1> HIDE DEF s
<1>4. CarryOK(s, V, B)
  BY <1>3 DEF RequestOK, CarryOK
<1>5. RequestOK(s, V, D, C, B)
  BY <1>2, <1>3, <1>4 DEF RequestOK
<1> QED
  BY <1>3, <1>5 DEF s

LEMMA HoldsOneMore ==
    ASSUME NEW r, NEW V, NEW D, NEW C, NEW B, RequestOK(r, V, D, C, B), NEW u \in Cards,
           D[u] # None, r.op = "plan" => r.carry[u] # 0
    PROVE  LET s == [r EXCEPT !.held = @ \cup {u}]
           IN  RequestOK(s, V, D, C, B) /\ s.op = r.op /\ s.at = r.at /\ s.item = r.item /\ s.proof = r.proof
<1> DEFINE s == [r EXCEPT !.held = @ \cup {u}]
<1>1. r \in Request
  BY DEF RequestOK
<1>2. s \in Request
  BY <1>1 DEF Request
<1>3. /\ s.op = r.op /\ s.at = r.at /\ s.held = r.held \cup {u} /\ s.version = r.version
      /\ s.carry = r.carry /\ s.next = r.next /\ s.queued = r.queued /\ s.old = r.old
      /\ s.proof = r.proof /\ s.item = r.item /\ s.todo = r.todo
  BY <1>1 DEF Request
<1> HIDE DEF s
<1>4. CarryOK(s, V, B)
  BY <1>3 DEF RequestOK, CarryOK
<1>5. RequestOK(s, V, D, C, B)
  BY <1>2, <1>3, <1>4 DEF RequestOK
<1> QED
  BY <1>3, <1>5 DEF s

LEMMA DropKept ==
    ASSUME NEW r, NEW s, DropOK(r), s.op = r.op, s.item = r.item, s.proof = r.proof
    PROVE  DropOK(s)
BY DEF DropOK

LEMMA LockStep ==
    ASSUME IInv, NEW p \in Testers, NEW u \in Cards, Lock(p, u)
    PROVE  IInv'
<1> DEFINE a == [req[p] EXCEPT !.todo = @ \ {u}]
           r == [a EXCEPT !.held = @ \cup {u}]
<1>1. req \in [Testers -> Request] /\ changes \in 0 .. ChangeBound
  BY DEF IInv, TypeOK
<1>2. req' = [req EXCEPT ![p] = r]
  BY <1>1 DEF Lock, Request
<1>3. /\ RequestOK(a, versions, draft, clock, given \cup revived) /\ a.op = req[p].op
      /\ a.at = req[p].at /\ a.item = req[p].item /\ a.proof = req[p].proof
  BY LessToDo DEF IInv, RequestsOK
<1>4. draft[u] # None /\ a.op # "plan"
  BY <1>3 DEF Lock, Live
<1> HIDE DEF a
<1>5. /\ RequestOK(r, versions, draft, clock, given \cup revived) /\ r.op = a.op
      /\ r.at = a.at /\ r.item = a.item /\ r.proof = a.proof
  BY <1>3, <1>4, HoldsOneMore
<1> HIDE DEF r
<1>6. DropOK(r)
  BY <1>3, <1>5, DropKept DEF IInv, DropsOK
<1> QED
  BY <1>1, <1>2, <1>3, <1>5, <1>6, RequestStep DEF Lock

LEMMA SkipMissingStep ==
    ASSUME IInv, NEW p \in Testers, NEW u \in Cards, SkipMissing(p, u)
    PROVE  IInv'
<1> DEFINE r == [req[p] EXCEPT !.todo = @ \ {u}]
<1>1. req \in [Testers -> Request] /\ changes \in 0 .. ChangeBound
  BY DEF IInv, TypeOK
<1>2. req' = [req EXCEPT ![p] = r]
  BY <1>1 DEF SkipMissing, Request
<1>3. /\ RequestOK(r, versions, draft, clock, given \cup revived) /\ r.op = req[p].op
      /\ r.at = req[p].at /\ r.item = req[p].item /\ r.proof = req[p].proof
  BY LessToDo DEF IInv, RequestsOK
<1> HIDE DEF r
<1>4. DropOK(r)
  BY <1>3, DropKept DEF IInv, DropsOK
<1> QED
  BY <1>1, <1>2, <1>3, <1>4, RequestStep DEF SkipMissing

LEMMA IdleDrop == DropOK(Idle)
BY DEF DropOK, Idle

LEMMA AbortStep ==
    ASSUME IInv, NEW p \in Testers, Abort(p)
    PROVE  IInv'
<1>1. Len(versions) \in Nat /\ changes \in 0 .. ChangeBound
  BY DEF IInv, TypeOK
<1>2. RequestOK(Idle, versions, draft, clock, given \cup revived) /\ Idle.op = "idle"
  BY <1>1, IdleOK
<1> QED
  BY <1>1, <1>2, IdleDrop, RequestStep DEF Abort, Stamped

\* create_cycle plans on the last published version
LEMMA PlanStep ==
    ASSUME IInv, NEW p \in Testers, NEW source, NEW prior, NEW carry \in BOOLEAN,
           Plan(p, source, prior, carry)
    PROVE  IInv'
<1> DEFINE v == Len(versions)
           members == Planned(source, v, prior)
           r == [req[p] EXCEPT !.version = v, !.plan = members, !.todo = IF carry THEN members ELSE {}]
<1>1. req \in [Testers -> Request] /\ changes \in 0 .. ChangeBound /\ v \in 0 .. VersionBound
  BY BoundAssumption DEF IInv, TypeOK
<1>2. v # 0 /\ req[p].version = 0 /\ req[p].op = "plan"
  BY <1>1 DEF Plan
<1>3. members \in SUBSET Cards
  BY DEF Planned
<1> HIDE DEF members
<1>4. req' = [req EXCEPT ![p] = r]
  BY <1>1 DEF Plan, Request, members
<1>5. RequestOK(req[p], versions, draft, clock, given \cup revived)
  BY DEF IInv, RequestsOK
<1>6. /\ r \in Request /\ r.op = "plan" /\ r.at = req[p].at /\ r.held = req[p].held /\ r.version = v
      /\ r.carry = req[p].carry /\ r.next = req[p].next /\ r.queued = req[p].queued
      /\ r.old = req[p].old
  <2>1. req[p] \in Request
    BY <1>5 DEF RequestOK
  <2>2. (IF carry THEN members ELSE {}) \in SUBSET Cards
    BY <1>3
  <2> DEFINE todo == IF carry THEN members ELSE {}
  <2> HIDE DEF v, todo
  <2>3. \A T \in SUBSET Cards : LET s == [req[p] EXCEPT !.version = v, !.plan = members, !.todo = T]
        IN  /\ s \in Request /\ s.op = req[p].op /\ s.at = req[p].at /\ s.held = req[p].held
            /\ s.version = v /\ s.carry = req[p].carry /\ s.next = req[p].next
            /\ s.queued = req[p].queued /\ s.old = req[p].old
    BY <1>1, <1>3, <2>1 DEF Request
  <2> QED
    BY <1>2, <2>2, <2>3 DEF todo
<1> HIDE DEF r
<1>7. CarryOK(r, versions, given \cup revived)
  BY <1>2, <1>5, <1>6 DEF RequestOK, CarryOK
<1>8. RequestOK(r, versions, draft, clock, given \cup revived)
  BY <1>1, <1>2, <1>5, <1>6, <1>7 DEF RequestOK, Stamped
<1>9. DropOK(r)
  BY <1>6 DEF DropOK
<1> QED
  BY <1>1, <1>2, <1>4, <1>6, <1>8, <1>9, RequestStep DEF Plan, Stamped

\* a carried pass is a verdict that somebody gave on that definition
LEMMA DecideStep ==
    ASSUME IInv, NEW p \in Testers, NEW u \in Cards, Decide(p, u)
    PROVE  IInv'
<1> DEFINE r == req[p]
           B == given \cup revived
           verdicts == OfKind(timeline[u], "status")
           e == Newest(verdicts)
           a == [r EXCEPT !.todo = @ \ {u}]
<1>1. /\ req \in [Testers -> Request] /\ changes \in 0 .. ChangeBound /\ r \in Request
      /\ RequestOK(r, versions, draft, clock, B)
  BY DEF IInv, TypeOK, RequestsOK
<1>2. /\ RequestOK(a, versions, draft, clock, B) /\ a.op = r.op
      /\ a.at = r.at /\ a.item = r.item /\ a.proof = r.proof
  BY <1>1, LessToDo
<1>3. r.op = "plan" /\ r.version # 0 /\ r.next = None /\ r.queued = None
  BY <1>1 DEF Decide, RequestOK, CarryOK
<1>4. CASE ~Carries(verdicts, versions[r.version][u])
  <2>1. req' = [req EXCEPT ![p] = a]
    BY <1>1, <1>4 DEF Decide, Request
  <2> HIDE DEF a
  <2>2. DropOK(a)
    BY <1>2, <1>3 DEF DropOK
  <2> QED
    BY <1>1, <1>2, <2>1, <2>2, RequestStep DEF Decide
<1>5. CASE Carries(verdicts, versions[r.version][u])
  <2> DEFINE b == [a EXCEPT !.next = u, !.carry[u] = e.at]
  <2>1. req' = [req EXCEPT ![p] = b]
    BY <1>1, <1>5 DEF Decide, Request
  <2>2. verdicts \in SUBSET Event /\ verdicts # {}
    BY <1>5 DEF IInv, TypeOK, OfKind, Carries
  <2>3. e \in verdicts /\ e \in Event
    BY <2>2, NewestOK
  <2>4. e.at \in 1 .. TxBound
    BY <2>3 DEF Event
  <2>5. <<u, e.status, e.basis>> \in B
    BY <2>3 DEF IInv, VerdictsWereGiven
  <2>6. <<u, "passed", versions[r.version][u]>> \in B
    BY <1>5, <2>5 DEF Carries
  <2>7. a \in Request /\ a.version = r.version /\ a.next = None /\ a.queued = None /\ a.held = r.held
    BY <1>1, <1>2, <1>3 DEF RequestOK, Request
  <2> HIDE DEF a, e, verdicts, r
  <2>8. /\ b \in Request /\ b.op = a.op /\ b.at = a.at /\ b.item = a.item /\ b.proof = a.proof
        /\ b.todo = a.todo /\ b.held = a.held /\ b.version = a.version /\ b.next = u
        /\ b.queued = a.queued /\ b.old = a.old /\ b.carry = [a.carry EXCEPT ![u] = e.at]
    <3> DEFINE c == [a.carry EXCEPT ![u] = e.at]
               d == [a EXCEPT !.next = u, !.carry = c]
    <3>1. c \in [Cards -> 0 .. TxBound]
      BY <2>4, <2>7 DEF Request
    <3>2. b = d
      BY <2>7 DEF Request
    <3> HIDE DEF b, c
    <3>3. d \in Request
      BY <2>7, <3>1 DEF Request
    <3>4. /\ d.op = a.op /\ d.at = a.at /\ d.item = a.item /\ d.proof = a.proof
          /\ d.todo = a.todo /\ d.held = a.held /\ d.version = a.version /\ d.next = u
          /\ d.queued = a.queued /\ d.old = a.old /\ d.carry = c
      BY <2>7 DEF Request
    <3> QED
      BY <3>2, <3>3, <3>4 DEF c
  <2>9. a.carry \in [Cards -> 0 .. TxBound]
    BY <2>7 DEF Request
  <2> HIDE DEF b
  <2>10. \A w \in Cards : b.carry[w] = IF w = u THEN e.at ELSE a.carry[w]
    BY <2>8, <2>9
  <2>11. e.at # 0
    BY <2>4
  <2>12. CarryOK(b, versions, B)
    BY <1>2, <1>3, <2>6, <2>7, <2>8, <2>10, <2>11 DEF RequestOK, CarryOK
  <2>13. RequestOK(b, versions, draft, clock, B)
    BY <1>2, <2>8, <2>12 DEF RequestOK
  <2>14. DropOK(b)
    BY <1>2, <1>3, <2>8 DEF DropOK
  <2>15. b.op \in Stamped => req[p].op \in Stamped /\ b.at = req[p].at
    BY <1>2, <2>8 DEF r
  <2> QED
    BY <1>1, <2>1, <2>13, <2>14, <2>15, RequestStep DEF Decide
<1> QED
  BY <1>4, <1>5

\* one case less to lock, and one more that is held if it is still there
Carried(r, D, old) ==
    [r EXCEPT !.next = None, !.queued = None,
              !.held = IF D[r.next] # None THEN @ \cup {r.next} ELSE @, !.old[r.next] = old]
LEMMA CarryDone ==
    ASSUME NEW r, NEW V, NEW D, NEW C, NEW B, RequestOK(r, V, D, C, B), r.next # None,
           NEW old \in Cached \cup {None}
    PROVE  LET s == Carried(r, D, old)
           IN  RequestOK(s, V, D, C, B) /\ s.op = r.op /\ s.at = r.at /\ s.item = r.item /\ s.proof = r.proof
<1> DEFINE held == IF D[r.next] # None THEN r.held \cup {r.next} ELSE r.held
           s == [r EXCEPT !.next = None, !.queued = None, !.held = held, !.old[r.next] = old]
<1>1. r \in Request /\ r.next \in Cards /\ r.carry[r.next] # 0
  BY DEF RequestOK, CarryOK, Request
<1>2. held \in SUBSET Cards
  BY <1>1 DEF Request
<1>3. \A u \in held : u \in r.held \/ (u = r.next /\ D[u] # None)
  OBVIOUS
<1> HIDE DEF held
<1>4. s \in Request
  BY <1>1, <1>2 DEF Request
<1>5. /\ s.op = r.op /\ s.at = r.at /\ s.held = held /\ s.version = r.version
      /\ s.carry = r.carry /\ s.next = None /\ s.queued = None /\ s.old = [r.old EXCEPT ![r.next] = old]
      /\ s.proof = r.proof /\ s.item = r.item /\ s.todo = r.todo
  BY <1>1 DEF Request
<1>6. r.old \in [Cards -> Cached \cup {None}]
  BY <1>1 DEF Request
<1> HIDE DEF s
<1>7. \A u \in Cards : s.old[u] = IF u = r.next THEN old ELSE r.old[u]
  BY <1>5, <1>6
<1>8. CarryOK(s, V, B)
  BY <1>1, <1>3, <1>5, <1>7 DEF RequestOK, CarryOK
<1>9. RequestOK(s, V, D, C, B)
  BY <1>3, <1>4, <1>5, <1>8 DEF RequestOK
<1> QED
  BY <1>5, <1>9 DEF s, held, Carried

LEMMA CarryResumeStep ==
    ASSUME IInv, NEW p \in Testers, CarryResume(p)
    PROVE  IInv'
<1> DEFINE u == req[p].next
           r == Carried(req[p], draft, req[p].queued)
<1>1. /\ req \in [Testers -> Request] /\ changes \in 0 .. ChangeBound /\ req[p] \in Request
      /\ RequestOK(req[p], versions, draft, clock, given \cup revived)
  BY DEF IInv, TypeOK, RequestsOK
<1>2. u # None /\ req[p].queued \in Cached \cup {None}
  BY <1>1 DEF CarryResume, RequestOK, CarryOK, Request
<1>3. req' = [req EXCEPT ![p] = r]
  BY <1>1 DEF CarryResume, Request, Live, Carried
<1>4. /\ RequestOK(r, versions, draft, clock, given \cup revived) /\ r.op = req[p].op
      /\ r.at = req[p].at /\ r.item = req[p].item /\ r.proof = req[p].proof
  BY <1>1, <1>2, CarryDone
<1> HIDE DEF r
<1>5. DropOK(r)
  BY <1>4, DropKept DEF IInv, DropsOK
<1> QED
  BY <1>1, <1>3, <1>4, <1>5, RequestStep DEF CarryResume

LEMMA CarryLockStep ==
    ASSUME IInv, NEW p \in Testers, CarryLock(p)
    PROVE  IInv'
<1> DEFINE u == req[p].next
           r == Carried(req[p], draft, req[p].old[u])
<1>1. /\ req \in [Testers -> Request] /\ changes \in 0 .. ChangeBound /\ req[p] \in Request
      /\ RequestOK(req[p], versions, draft, clock, given \cup revived)
  BY DEF IInv, TypeOK, RequestsOK
<1>2. u # None /\ u \in Cards /\ req[p].queued = None /\ req[p].old[u] \in Cached \cup {None}
  BY <1>1 DEF CarryLock, Request
<1>3. r = [req[p] EXCEPT !.next = None, !.held = IF draft[u] # None THEN @ \cup {u} ELSE @]
  BY <1>1, <1>2 DEF Request, Carried
<1>4. req' = [req EXCEPT ![p] = [req[p] EXCEPT !.next = None,
                                               !.held = IF draft[u] # None THEN @ \cup {u} ELSE @]]
  BY <1>1 DEF CarryLock, Request, Live
<1>5. /\ RequestOK(r, versions, draft, clock, given \cup revived) /\ r.op = req[p].op
      /\ r.at = req[p].at /\ r.item = req[p].item /\ r.proof = req[p].proof
  BY <1>1, <1>2, CarryDone
<1>6. req' = [req EXCEPT ![p] = r]
  BY <1>3, <1>4
<1> HIDE DEF r
<1>7. DropOK(r)
  BY <1>5, DropKept DEF IInv, DropsOK
<1> QED
  BY <1>1, <1>5, <1>6, <1>7, RequestStep DEF CarryLock

\* what waits for the row was computed from what was read
LEMMA CarryWaitStep ==
    ASSUME IInv, NEW p \in Testers, CarryWait(p)
    PROVE  IInv'
<1> DEFINE u == req[p].next
           d == Derived(timeline[u] \cup {CarriedEvent(p, u, None)})
           r == [req[p] EXCEPT !.queued = d]
<1>1. /\ req \in [Testers -> Request] /\ changes \in 0 .. ChangeBound /\ req[p] \in Request
      /\ RequestOK(req[p], versions, draft, clock, given \cup revived)
      /\ given \cup revived \in SUBSET (Cards \X Statuses \X Basis)
      /\ clock \in 0 .. TxBound /\ timeline \in [Cards -> SUBSET Event]
  BY DEF IInv, TypeOK, RequestsOK
<1>2. u \in Cards /\ req[p].carry[u] # 0 /\ req[p].carry[u] \in 0 .. TxBound /\ u # None
  BY <1>1 DEF CarryWait, Request, RequestOK, CarryOK
<1>3. req[p].op = "plan" /\ <<u, "passed", versions[req[p].version][u]>> \in given \cup revived
  BY <1>1, <1>2 DEF RequestOK, CarryOK
<1>4. versions[req[p].version][u] \in Basis
  BY <1>1, <1>3
<1>5. req[p].at \in 1 .. TxBound
  BY <1>1, <1>3, BoundAssumption DEF RequestOK, Stamped
<1>6. CarriedEvent(p, u, None) \in Event
  BY <1>2, <1>4, <1>5, StatusAssumption DEF CarriedEvent, Event, Kinds
<1>7. d \in Cached
  BY <1>1, <1>2, <1>6, DerivedTyped
<1> HIDE DEF d
<1>8. req' = [req EXCEPT ![p] = r]
  BY <1>1 DEF CarryWait, d
<1>9. /\ r \in Request /\ r.op = req[p].op /\ r.at = req[p].at /\ r.held = req[p].held
      /\ r.version = req[p].version /\ r.carry = req[p].carry /\ r.next = u /\ r.old = req[p].old
      /\ r.proof = req[p].proof /\ r.item = req[p].item /\ r.todo = req[p].todo
  BY <1>1, <1>7 DEF Request
<1> HIDE DEF r
<1>10. CarryOK(r, versions, given \cup revived)
  BY <1>1, <1>2, <1>9 DEF RequestOK, CarryOK
<1>11. RequestOK(r, versions, draft, clock, given \cup revived)
  BY <1>1, <1>9, <1>10 DEF RequestOK
<1>12. DropOK(r)
  BY <1>9, DropKept DEF IInv, DropsOK
<1> QED
  BY <1>1, <1>8, <1>9, <1>11, <1>12, RequestStep DEF CarryWait

\* a request that has just begun
Fresh(r) ==
    /\ r \in Request
    /\ r.held = {} /\ r.version = 0 /\ r.next = None /\ r.queued = None
    /\ \A u \in Cards : r.carry[u] = 0 /\ r.old[u] = None
    /\ r.op = "plan" => r.todo = {}
    /\ r.op = "drop" => r.proof \in Proofs

LEMMA FreshOK ==
    ASSUME NEW r, Fresh(r), NEW V, Len(V) \in Nat, NEW D, NEW C, NEW B, r.op \in Stamped => r.at \in 1 .. C
    PROVE  RequestOK(r, V, D, C, B)
<1>1. CarryOK(r, V, B)
  BY DEF Fresh, CarryOK
<1> QED
  BY <1>1 DEF Fresh, RequestOK

\* a new timestamp is later than all events and all requests
LEMMA BeginStep ==
    ASSUME IInv, NEW p \in Testers, NEW s, Begin(p, s), s \in Request,
           LET r == [s EXCEPT !.at = clock + 1]
           IN  r.at \in 1 .. TxBound => Fresh(r) /\ r.op \in Stamped /\ r.at = clock + 1
    PROVE  IInv'
<1> DEFINE r == [s EXCEPT !.at = clock + 1]
<1>1. /\ TypeOK /\ req \in [Testers -> Request] /\ clock \in 0 .. TxBound /\ TxBound \in Nat
      /\ Len(versions) \in Nat
  BY BoundAssumption DEF IInv, TypeOK
<1>2. clock < TxBound /\ clock' = clock + 1 /\ req' = [req EXCEPT ![p] = r]
  BY DEF Begin
<1>3. clock + 1 \in 1 .. TxBound /\ clock' \in 0 .. TxBound
  BY <1>1, <1>2
<1>4. r.at = clock + 1
  BY DEF Request
<1>5. Fresh(r) /\ r.op \in Stamped /\ r.at = clock + 1 /\ r \in Request
  BY <1>3, <1>4 DEF Fresh
<1> HIDE DEF r
<1>6. UNCHANGED <<draft, versions, cycle, timeline, proof, cache, changes, given, revived, overtaken>>
  BY DEF Begin, world, ghosts
<1>7. TypeOK'
  <2>1. req' \in [Testers -> Request]
    BY <1>1, <1>2, <1>5
  <2> QED
    BY <2>1, <1>1, <1>3, <1>6 DEF TypeOK
<1>8. \A q \in Testers : req'[q] = IF q = p THEN r ELSE req[q]
  BY <1>1, <1>2
<1>9. RequestsOK'
  <2>1. \A q \in Testers : \A u \in req[q].held : draft'[u] # None
    BY <1>6 DEF IInv, RequestsOK, RequestOK
  <2>2. Grown
    BY <1>1, <1>2, <1>6 DEF Grown, TypeOK
  <2>3. r.at \in 1 .. clock'
    BY <1>1, <1>2, <1>5
  <2>4. RequestOK(r, versions', draft', clock', given' \cup revived')
    BY <2>3, <1>1, <1>5, <1>6, FreshOK
  <2> QED
    BY <2>1, <2>2, <2>4, <1>1, <1>8, RequestsKept DEF IInv
<1>10. \A u : Times(u)' = Times(u)
  BY <1>6 DEF Times
<1>11. Ats' \subseteq Ats \cup {clock + 1}
  BY <1>5, <1>8 DEF Ats
<1>12. \A q \in Testers : req[q].op \in Stamped => req[q].at <= clock
  BY <1>1 DEF IInv, RequestsOK, RequestOK
<1>13. StampsOK'
  <2>1. \A u \in Cards : \A t \in Times(u) : t \in Int /\ t <= clock /\ t \notin Ats
    BY <1>1 DEF IInv, StampsOK, Times, TypeOK, Event
  <2>2. \A u \in Cards : \A t \in Times(u) : t <= clock' /\ t # clock + 1
    BY <2>1, <1>1, <1>2
  <2>3. \A u \in Cards : \A t \in Times(u)' : t \notin Ats' /\ t <= clock'
    BY <2>1, <2>2, <1>10, <1>11
  <2>4. \A q \in Testers : req[q].op \in Stamped => req[q].at # clock + 1
    BY <1>1, <1>12
  <2>5. \A q, w \in Testers :
           q # w /\ req'[q].op \in Stamped /\ req'[w].op \in Stamped => req'[q].at # req'[w].at
    BY <2>4, <1>5, <1>8 DEF IInv, StampsOK
  <2> QED
    BY <2>3, <2>5 DEF StampsOK
<1>14. DropsOK'
  <2> SUFFICES ASSUME NEW q \in Testers PROVE DropOK(req[q])'
    BY DEF DropsOK
  <2>1. CASE q = p
    BY <2>1, <1>5, <1>8 DEF DropOK, Stamped
  <2>2. CASE q # p
    <3>1. req'[q] = req[q] /\ DropOK(req[q]) /\ req[q].item \in Nat
      BY <2>2, <1>1, <1>8 DEF IInv, DropsOK, Request
    <3>2. req[q].item <= clock => req[q].item <= clock' /\ req[q].item # clock + 1
      BY <3>1, <1>1, <1>2
    <3> QED
      BY <3>1, <3>2, <1>6, <1>10, <1>11 DEF DropOK
  <2> QED
    BY <2>1, <2>2
<1>15. RowsOK' /\ PinsOK'
  BY <1>6 DEF IInv, RowsOK, PinsOK
<1>16. CacheFollowsTimeline' /\ VerdictsWereGiven' /\ CycleTestsItsVersion' /\ EvidenceHasResult'
  BY <1>6 DEF IInv, CacheFollowsTimeline, VerdictsWereGiven, CycleTestsItsVersion,
              EvidenceHasResult, VersionBasis
<1> QED
  BY <1>7, <1>9, <1>13, <1>14, <1>15, <1>16 DEF IInv

LEMMA IdleFresh == Fresh(Idle) /\ Idle.op = "idle" /\ Idle.todo = {} /\ Idle.item = 0
<1>1. Idle \in Request
  BY StatusAssumption, BoundAssumption DEF Idle, Request, Ops
<1> QED
  BY <1>1 DEF Idle, Fresh

\* a request is Idle but for what it asks
AsIdle(r) ==
    /\ r \in Request
    /\ r.held = Idle.held /\ r.version = Idle.version /\ r.next = Idle.next
    /\ r.queued = Idle.queued /\ r.carry = Idle.carry /\ r.old = Idle.old
LEMMA AskedFresh ==
    ASSUME NEW r, AsIdle(r), r.op = "plan" => r.todo = {}, r.op = "drop" => r.proof \in Proofs
    PROVE  Fresh(r)
BY IdleFresh DEF AsIdle, Fresh

LEMMA BeginFresh ==
    ASSUME IInv, NEW p \in Testers, NEW s, Begin(p, s), Fresh(s), s.op \in Stamped
    PROVE  IInv'
<1> DEFINE r == [s EXCEPT !.at = clock + 1]
<1>1. s \in Request
  BY DEF Fresh
<1>2. ASSUME r.at \in 1 .. TxBound
      PROVE  Fresh(r) /\ r.op \in Stamped /\ r.at = clock + 1
  <2>1. r.at = clock + 1 /\ clock + 1 \in 0 .. TxBound
    BY <1>1, <1>2, BoundAssumption DEF Request
  <2>2. r \in Request
    BY <1>1, <2>1 DEF Request
  <2>3. /\ r.op = s.op /\ r.held = s.held /\ r.version = s.version /\ r.next = s.next /\ r.todo = s.todo
        /\ r.queued = s.queued /\ r.carry = s.carry /\ r.old = s.old /\ r.proof = s.proof
    BY <1>1 DEF Request
  <2> HIDE DEF r
  <2> QED
    BY <2>1, <2>2, <2>3 DEF Fresh
<1> QED
  BY <1>1, <1>2, BeginStep

LEMMA BeginsStep ==
    ASSUME IInv, NEW p \in Testers,
           \/ \E u \in Cards, s \in Statuses, k \in Known : BeginVerdict(p, u, s, k)
           \/ \E S \in (SUBSET Cards) \ {{}}, s \in Statuses, k \in Known : BeginBulk(p, S, s, k)
           \/ \E u \in Cards, k \in Known : BeginNote(p, u, k)
           \/ \E u \in Cards : BeginScope(p, u)
           \/ BeginPlan(p)
    PROVE  IInv'
<1>1. Known \subseteq Cycles \cup {None}
  BY DEF Known
<1>2. \A op \in {"record", "bulk", "note", "scope"} : op \in Ops /\ op \in Stamped
  BY DEF Ops, Stamped
<1>3. ASSUME NEW u \in Cards, NEW s \in Statuses, NEW k \in Known, BeginVerdict(p, u, s, k)
      PROVE  IInv'
  <2> DEFINE r == [Idle EXCEPT !.op = "record", !.todo = {u}, !.status = s, !.cycle = k]
  <2>1. Fresh(r) /\ r.op = "record"
    <3>1. Idle \in Request /\ "record" \in Ops
      BY <1>2, IdleFresh DEF Fresh
    <3>2. AsIdle(r) /\ r.op = "record"
      BY <1>1, <3>1 DEF Request, AsIdle
    <3> QED
      BY <3>2, AskedFresh
  <2> QED
    BY <1>2, <1>3, <2>1, BeginFresh DEF BeginVerdict
<1>4. ASSUME NEW S \in (SUBSET Cards) \ {{}}, NEW s \in Statuses, NEW k \in Known, BeginBulk(p, S, s, k)
      PROVE  IInv'
  <2> DEFINE r == [Idle EXCEPT !.op = "bulk", !.todo = S, !.status = s, !.cycle = k]
  <2>1. Fresh(r) /\ r.op = "bulk"
    <3>1. Idle \in Request /\ "bulk" \in Ops
      BY <1>2, IdleFresh DEF Fresh
    <3>2. AsIdle(r) /\ r.op = "bulk"
      BY <1>1, <3>1 DEF Request, AsIdle
    <3> QED
      BY <3>2, AskedFresh
  <2> QED
    BY <1>2, <1>4, <2>1, BeginFresh DEF BeginBulk
<1>5. ASSUME NEW u \in Cards, NEW k \in Known, BeginNote(p, u, k)
      PROVE  IInv'
  <2> DEFINE r == [Idle EXCEPT !.op = "note", !.todo = {u}, !.cycle = k]
  <2>1. Fresh(r) /\ r.op = "note"
    <3>1. Idle \in Request /\ "note" \in Ops
      BY <1>2, IdleFresh DEF Fresh
    <3>2. AsIdle(r) /\ r.op = "note"
      BY <1>1, <3>1 DEF Request, AsIdle
    <3> QED
      BY <3>2, AskedFresh
  <2> QED
    BY <1>2, <1>5, <2>1, BeginFresh DEF BeginNote
<1>6. ASSUME NEW u \in Cards, BeginScope(p, u)
      PROVE  IInv'
  <2> DEFINE b == ~cache[u].scope
             r == [Idle EXCEPT !.op = "scope", !.todo = {u}, !.scope = b]
  <2>1. b \in BOOLEAN
    OBVIOUS
  <2>2. Begin(p, r)
    BY <1>6 DEF BeginScope
  <2> HIDE DEF b
  <2>3. Fresh(r) /\ r.op = "scope"
    <3>1. Idle \in Request /\ "scope" \in Ops
      BY <1>2, IdleFresh DEF Fresh
    <3>2. AsIdle(r) /\ r.op = "scope"
      BY <2>1, <3>1 DEF Request, AsIdle
    <3> QED
      BY <3>2, AskedFresh
  <2> QED
    BY <1>2, <2>2, <2>3, BeginFresh
<1>7. ASSUME BeginPlan(p)
      PROVE  IInv'
  <2> DEFINE r == [Idle EXCEPT !.op = "plan"]
  <2>1. Idle \in Request /\ "plan" \in Ops /\ "plan" \in Stamped /\ "plan" # "drop"
    BY IdleFresh DEF Fresh, Ops, Stamped
  <2>2. AsIdle(r) /\ r.op = "plan" /\ r.todo = Idle.todo
    BY <2>1 DEF Request, AsIdle
  <2>3. Begin(p, r)
    BY <1>7 DEF BeginPlan
  <2> HIDE DEF r
  <2>4. Fresh(r)
    BY <2>1, <2>2, IdleFresh, AskedFresh
  <2> QED
    BY <2>1, <2>2, <2>3, <2>4, BeginFresh
<1> QED
  BY <1>3, <1>4, <1>5, <1>6, <1>7

\* an undo, and a delete of evidence, name an event that is there
LEMMA BeginUndoStep ==
    ASSUME IInv, NEW p \in Testers, NEW u \in Cards, NEW e \in timeline[u], BeginUndo(p, u, e)
    PROVE  IInv'
<1> DEFINE r == [Idle EXCEPT !.op = "undo", !.todo = {u}, !.item = e.at]
<1>1. e.at \in Nat /\ Len(versions) \in Nat /\ changes' \in 0 .. ChangeBound
  BY BoundAssumption DEF IInv, TypeOK, Event, BeginUndo, BeginUnstamped, Change
<1>2. "undo" \in Ops /\ Idle \in Request
  BY IdleFresh DEF Ops, Fresh
<1>3. Fresh(r) /\ r.op = "undo"
  <2>1. AsIdle(r) /\ r.op = "undo"
    BY <1>1, <1>2 DEF Request, AsIdle
  <2> QED
    BY <2>1, AskedFresh
<1>4. req' = [req EXCEPT ![p] = r]
  BY DEF BeginUndo, BeginUnstamped
<1> HIDE DEF r
<1>5. RequestOK(r, versions, draft, clock, given \cup revived)
  BY <1>1, <1>3, FreshOK DEF Stamped
<1>6. DropOK(r)
  BY <1>3 DEF DropOK
<1> QED
  BY <1>1, <1>3, <1>4, <1>5, <1>6, RequestStep DEF BeginUndo, BeginUnstamped, Stamped

LEMMA BeginDropStep ==
    ASSUME IInv, NEW p \in Testers, NEW q \in Proofs, BeginDrop(p, q)
    PROVE  IInv'
<1> DEFINE at == proof[q].at
           todo == IF at = 0 THEN {} ELSE {proof[q].card}
           r == [Idle EXCEPT !.op = "drop", !.proof = q, !.item = at, !.todo = todo]
<1>1. at \in Nat /\ Len(versions) \in Nat /\ changes' \in 0 .. ChangeBound /\ proof[q].card \in Cards
  BY BoundAssumption DEF IInv, TypeOK, Proof, BeginDrop, BeginUnstamped, Change
<1>2. req' = [req EXCEPT ![p] = r]
  BY DEF BeginDrop, BeginUnstamped
<1>3. todo \in SUBSET Cards /\ "drop" \in Ops /\ Idle \in Request
  BY <1>1, IdleFresh DEF Ops, Fresh
<1> HIDE DEF todo
<1>4. Fresh(r) /\ r.op = "drop" /\ r.proof = q /\ r.item = at
  <2>1. AsIdle(r) /\ r.op = "drop" /\ r.proof = q /\ r.item = at
    BY <1>1, <1>3 DEF Request, AsIdle
  <2> QED
    BY <2>1, AskedFresh
<1> HIDE DEF r
<1>5. RequestOK(r, versions, draft, clock, given \cup revived)
  BY <1>1, <1>4, FreshOK DEF Stamped
<1>6. at # 0 => at \in Times(proof[q].card)
  BY <1>1 DEF IInv, EvidenceHasResult, BeginDrop, Times
<1>7. at # 0 => at <= clock /\ at \notin Ats
  BY <1>1, <1>6 DEF IInv, StampsOK
<1>8. DropOK(r)
  BY <1>4, <1>7 DEF DropOK
<1> QED
  BY <1>1, <1>2, <1>4, <1>5, <1>8, RequestStep DEF BeginDrop, BeginUnstamped, Stamped

-----------------------------------------------------------------------------
(* Steps of the rest: cycles, drafts, versions and evidence.                 *)

LEMMA TimesKept ==
    ASSUME IInv, UNCHANGED <<req, clock>>, \A u \in Cards : Times(u)' = Times(u)
    PROVE  StampsOK' /\ Ats' = Ats
<1>1. Ats' = Ats
  BY DEF Ats
<1>2. StampsOK'
  BY <1>1 DEF IInv, StampsOK
<1> QED
  BY <1>1, <1>2

LEMMA DropsKept ==
    ASSUME IInv, UNCHANGED <<req, clock, proof>>, \A u \in Cards : Times(u)' = Times(u)
    PROVE  DropsOK'
<1>1. Ats' = Ats
  BY DEF Ats
<1> QED
  BY <1>1 DEF IInv, DropsOK, DropOK

LEMMA SameRequests ==
    ASSUME IInv, UNCHANGED <<versions, clock, given, revived, req>>,
           \A p \in Testers : \A u \in req[p].held : draft'[u] # None
    PROVE  RequestsOK'
BY GrownSame, RequestsKept DEF IInv

\* a cycle is changed, its version stays and its events stay those of a cycle that exists
LEMMA CycleStep ==
    ASSUME IInv, NEW k \in Cycles, NEW c \in Cycle, cycle' = [cycle EXCEPT ![k] = c],
           cycle[k].state \in {"open", "closed"}, c.state \in {"open", "closed"},
           c.version = cycle[k].version, changes' \in 0 .. ChangeBound,
           UNCHANGED <<world, timeline, proof, cache, clock, req, ghosts>>
    PROVE  IInv'
<1>1. UNCHANGED <<draft, versions, given, revived, overtaken>>
  BY DEF world, ghosts
<1>2. TypeOK /\ cycle \in [Cycles -> Cycle]
  BY DEF IInv, TypeOK
<1>3. \A j \in Cycles : cycle'[j] = IF j = k THEN c ELSE cycle[j]
  BY <1>2
<1>4. TypeOK'
  <2>1. cycle' \in [Cycles -> Cycle]
    BY <1>2
  <2> QED
    BY <2>1, <1>1 DEF IInv, TypeOK
<1>5. \A u \in Cards : Times(u)' = Times(u)
  BY DEF Times
<1>6. StampsOK' /\ DropsOK'
  BY <1>5, TimesKept, DropsKept
<1>7. RequestsOK'
  BY <1>1, SameRequests DEF IInv, RequestsOK, RequestOK
<1>8. RowsOK' /\ CacheFollowsTimeline' /\ VerdictsWereGiven' /\ EvidenceHasResult'
  BY <1>1 DEF IInv, RowsOK, CacheFollowsTimeline, VerdictsWereGiven, EvidenceHasResult
<1>9. \A u \in Cards : \A e \in timeline[u] : e.cycle \in Cycles \cup {None}
  BY DEF IInv, TypeOK, Event
<1>10. \A j \in Cycles : cycle'[j].version = cycle[j].version
  BY <1>3
<1>11. PinsOK' /\ CycleTestsItsVersion'
  <2>1. PinsOK'
    BY <1>1, <1>3, <1>9, <1>10 DEF IInv, PinsOK
  <2>2. CycleTestsItsVersion'
    BY <1>1, <1>9, <1>10 DEF IInv, CycleTestsItsVersion, VersionBasis
  <2> QED
    BY <2>1, <2>2
<1> QED
  BY <1>4, <1>6, <1>7, <1>8, <1>11 DEF IInv

LEMMA CyclesStep ==
    ASSUME IInv, NEW k \in Cycles,
           \/ \E s \in {"open", "closed"} : SetCycleStatus(k, s)
           \/ \E u \in Cards : AddMember(k, u) \/ RemoveMember(k, u)
    PROVE  IInv'
<1>1. cycle \in [Cycles -> Cycle] /\ cycle[k] \in Cycle
  BY DEF IInv, TypeOK
<1>2. ASSUME Change
      PROVE  changes' \in 0 .. ChangeBound
  BY <1>2, BoundAssumption DEF IInv, TypeOK, Change
<1>3. ASSUME NEW s \in {"open", "closed"}, SetCycleStatus(k, s)
      PROVE  IInv'
  <2> DEFINE c == [cycle[k] EXCEPT !.state = s]
  <2>1. c \in Cycle /\ c.state = s /\ c.version = cycle[k].version
    BY <1>1 DEF Cycle
  <2>2. cycle' = [cycle EXCEPT ![k] = c]
    BY <1>3 DEF SetCycleStatus
  <2> HIDE DEF c
  <2> QED
    BY <1>2, <1>3, <2>1, <2>2, CycleStep DEF SetCycleStatus, Exists
<1>4. ASSUME NEW u \in Cards, AddMember(k, u)
      PROVE  IInv'
  <2> DEFINE c == [cycle[k] EXCEPT !.members = @ \cup {u}]
  <2>1. c \in Cycle /\ c.state = cycle[k].state /\ c.version = cycle[k].version
    BY <1>1 DEF Cycle
  <2>2. cycle' = [cycle EXCEPT ![k] = c]
    BY <1>4 DEF AddMember
  <2> HIDE DEF c
  <2> QED
    BY <1>2, <1>4, <2>1, <2>2, CycleStep DEF AddMember, Exists
<1>5. ASSUME NEW u \in Cards, RemoveMember(k, u)
      PROVE  IInv'
  <2> DEFINE c == [cycle[k] EXCEPT !.members = @ \ {u}]
  <2>1. c \in Cycle /\ c.state = cycle[k].state /\ c.version = cycle[k].version
    BY <1>1 DEF Cycle
  <2>2. cycle' = [cycle EXCEPT ![k] = c]
    BY <1>5 DEF RemoveMember
  <2> HIDE DEF c
  <2> QED
    BY <1>2, <1>5, <2>1, <2>2, CycleStep DEF RemoveMember, Exists
<1> QED
  BY <1>3, <1>4, <1>5

\* only cases that nobody holds are edited, deleted or restored
LEMMA DraftStep ==
    ASSUME IInv, NEW u \in Cards, NEW b \in Basis \cup {None}, Free(u),
           draft' = [draft EXCEPT ![u] = b],
           \/ UNCHANGED <<cache, overtaken>>
           \/ cache' = [cache EXCEPT ![u] = Derived(timeline[u])] /\ overtaken' = overtaken \ {u},
           changes' \in 0 .. ChangeBound,
           UNCHANGED <<versions, cycle, timeline, proof, clock, req, given, revived>>
    PROVE  IInv'
<1>1. TypeOK /\ draft \in [Cards -> Basis \cup {None}] /\ cache \in [Cards -> Cached]
      /\ timeline[u] \in SUBSET Event /\ overtaken \subseteq Cards
  BY DEF IInv, TypeOK
<1>2. Derived(timeline[u]) \in Cached
  BY <1>1, DerivedTyped
<1>3. TypeOK'
  <2>1. draft' \in [Cards -> Basis \cup {None}] /\ cache' \in [Cards -> Cached] /\ overtaken' \subseteq Cards
    BY <1>1, <1>2
  <2> QED
    BY <2>1, <1>1 DEF TypeOK
<1>4. \A w \in Cards : Times(w)' = Times(w)
  BY DEF Times
<1>5. StampsOK' /\ DropsOK'
  BY <1>4, TimesKept, DropsKept
<1>6. RequestsOK'
  <2>1. \A p \in Testers : \A w \in req[p].held : w \in Cards /\ draft[w] # None /\ w # u
    BY DEF IInv, RequestsOK, RequestOK, Request, Free
  <2>2. \A p \in Testers : \A w \in req[p].held : draft'[w] # None
    BY <2>1, <1>1
  <2> QED
    BY <2>2, SameRequests
<1>7. RowsOK' /\ PinsOK' /\ VerdictsWereGiven' /\ CycleTestsItsVersion' /\ EvidenceHasResult'
  BY DEF IInv, RowsOK, PinsOK, VerdictsWereGiven, CycleTestsItsVersion, EvidenceHasResult, VersionBasis
<1>8. CacheFollowsTimeline'
  <2> SUFFICES ASSUME NEW w \in Cards, w \notin overtaken' PROVE cache'[w] = Derived(timeline[w])
    BY DEF CacheFollowsTimeline
  <2>1. CASE UNCHANGED <<cache, overtaken>>
    BY <2>1 DEF IInv, CacheFollowsTimeline
  <2>2. CASE cache' = [cache EXCEPT ![u] = Derived(timeline[u])] /\ overtaken' = overtaken \ {u}
    BY <2>2, <1>1 DEF IInv, CacheFollowsTimeline
  <2> QED
    BY <2>1, <2>2
<1> QED
  BY <1>3, <1>5, <1>6, <1>7, <1>8 DEF IInv

LEMMA DraftsStep ==
    ASSUME IInv, NEW u \in Cards,
           \/ \E b \in Basis : ChangeDraft(u, b) \/ RestoreCase(u, b)
           \/ DeleteCase(u)
    PROVE  IInv'
<1>1. ASSUME Change
      PROVE  changes' \in 0 .. ChangeBound
  BY <1>1, BoundAssumption DEF IInv, TypeOK, Change
<1>2. CASE \E b \in Basis : ChangeDraft(u, b)
  BY <1>1, <1>2, DraftStep DEF ChangeDraft, ghosts
<1>3. CASE \E b \in Basis : RestoreCase(u, b)
  BY <1>1, <1>3, DraftStep DEF RestoreCase
<1>4. CASE DeleteCase(u)
  BY <1>1, <1>4, DraftStep DEF DeleteCase, ghosts
<1> QED
  BY <1>2, <1>3, <1>4

\* what a version says never changes
LEMMA PublishStep ==
    ASSUME IInv, Publish
    PROVE  IInv'
<1> DEFINE n == Len(versions)
<1>1. /\ TypeOK /\ versions \in Seq([Cards -> Basis \cup {None}]) /\ draft \in [Cards -> Basis \cup {None}]
      /\ VersionBound \in Nat /\ n \in Nat /\ n < VersionBound
  BY BoundAssumption DEF IInv, TypeOK, Publish
<1>2. UNCHANGED <<draft, cycle, timeline, proof, cache, clock, changes, req, given, revived, overtaken>>
  BY DEF Publish, ghosts
<1>3. /\ versions' \in Seq([Cards -> Basis \cup {None}]) /\ Len(versions') = n + 1
      /\ \A v \in 1 .. n : versions'[v] = versions[v]
  BY <1>1 DEF Publish
<1>4. n <= n + 1 /\ n + 1 <= VersionBound /\ n + 1 \in Nat /\ \A v \in 1 .. n : v \in 1 .. (n + 1)
  BY <1>1
<1> HIDE DEF n
<1>5. TypeOK'
  BY <1>1, <1>2, <1>3, <1>4 DEF TypeOK
<1>6. Grown
  BY <1>1, <1>2, <1>3, <1>4 DEF TypeOK, Grown, n
<1>7. RequestsOK'
  <2>1. \A p \in Testers : \A u \in req[p].held : draft'[u] # None
    BY <1>2 DEF IInv, RequestsOK, RequestOK
  <2> QED
    BY <2>1, <1>1, <1>2, <1>6, RequestsKept DEF IInv
<1>8. \A u \in Cards : Times(u)' = Times(u)
  BY <1>2 DEF Times
<1>9. StampsOK' /\ DropsOK'
  BY <1>2, <1>8, TimesKept, DropsKept
<1>10. RowsOK' /\ CacheFollowsTimeline' /\ VerdictsWereGiven' /\ EvidenceHasResult'
  BY <1>2 DEF IInv, RowsOK, CacheFollowsTimeline, VerdictsWereGiven, EvidenceHasResult
<1>11. PinsOK'
  BY <1>2, <1>3, <1>4 DEF IInv, PinsOK, n
<1>12. CycleTestsItsVersion'
  <2> SUFFICES ASSUME NEW u \in Cards, NEW e \in timeline[u], e.cycle # None
               PROVE  e.basis = versions'[cycle[e.cycle].version][u]
    BY <1>2 DEF CycleTestsItsVersion, VersionBasis
  <2>1. e.cycle \in Cycles
    BY <1>1 DEF TypeOK, Event
  <2>2. cycle[e.cycle].version \in 1 .. n
    BY <2>1 DEF IInv, PinsOK, n
  <2> QED
    BY <2>2, <1>3 DEF IInv, CycleTestsItsVersion, VersionBasis
<1> QED
  BY <1>5, <1>7, <1>9, <1>10, <1>11, <1>12 DEF IInv

\* evidence comes to an event only by a commit, and goes from it or with it
LEMMA StageProofStep ==
    ASSUME IInv, NEW q \in Proofs, NEW u \in Cards, StageProof(q, u)
    PROVE  IInv'
<1>1. TypeOK /\ proof \in [Proofs -> Proof] /\ TxBound \in Nat
  BY BoundAssumption DEF IInv, TypeOK
<1>2. UNCHANGED <<draft, versions, cycle, timeline, cache, clock, req, given, revived, overtaken>>
  BY DEF StageProof, world, ghosts
<1>3. \A w \in Proofs : proof'[w] = IF w = q THEN [card |-> u, at |-> 0] ELSE proof[w]
  BY <1>1 DEF StageProof
<1>4. TypeOK'
  <2>1. proof' \in [Proofs -> Proof]
    BY <1>1 DEF StageProof, Proof
  <2>2. changes' \in 0 .. ChangeBound
    BY <1>1, BoundAssumption DEF StageProof, Change, TypeOK
  <2> QED
    BY <1>1, <1>2, <2>1, <2>2 DEF TypeOK
<1>5. \A w \in Cards : Times(w)' = Times(w)
  BY <1>2 DEF Times
<1>6. StampsOK' /\ Ats' = Ats
  BY <1>2, <1>5, TimesKept
<1>7. RequestsOK'
  BY <1>2, SameRequests DEF IInv, RequestsOK, RequestOK
<1>8. DropsOK'
  <2> SUFFICES ASSUME NEW p \in Testers PROVE DropOK(req[p])'
    BY DEF DropsOK
  <2>1. req[p].op = "drop" => req[p].proof \in Proofs /\ req[p].proof # q
    BY DEF IInv, RequestsOK, RequestOK, StageProof
  <2>2. DropOK(req[p])
    BY DEF IInv, DropsOK
  <2> QED
    BY <2>1, <2>2, <1>2, <1>3, <1>5, <1>6 DEF DropOK
<1>9. RowsOK' /\ PinsOK' /\ CacheFollowsTimeline' /\ VerdictsWereGiven' /\ CycleTestsItsVersion'
  BY <1>2 DEF IInv, RowsOK, PinsOK, CacheFollowsTimeline, VerdictsWereGiven, CycleTestsItsVersion, VersionBasis
<1>10. EvidenceHasResult'
  BY <1>2, <1>3 DEF IInv, EvidenceHasResult
<1> QED
  BY <1>4, <1>6, <1>7, <1>8, <1>9, <1>10 DEF IInv

LEMMA CommitDropStep ==
    ASSUME IInv, NEW p \in Testers, CommitDrop(p)
    PROVE  IInv'
<1> DEFINE q == req[p].proof
<1>1. TypeOK /\ proof \in [Proofs -> Proof] /\ req \in [Testers -> Request] /\ Len(versions) \in Nat
  BY DEF IInv, TypeOK
<1>2. UNCHANGED <<draft, versions, cycle, timeline, cache, clock, changes, given, revived, overtaken>>
  BY DEF CommitDrop, world, ghosts
<1>3. \A w \in Proofs : proof'[w] = IF w = q THEN [card |-> None, at |-> 0] ELSE proof[w]
  BY <1>1 DEF CommitDrop
<1>4. \A w \in Testers : req'[w] = IF w = p THEN Idle ELSE req[w]
  BY <1>1 DEF CommitDrop
<1>5. RequestOK(Idle, versions, draft, clock, given \cup revived) /\ Idle.op = "idle"
  BY <1>1, IdleOK
<1>6. TypeOK'
  <2>1. proof' \in [Proofs -> Proof]
    <3>1. [card |-> None, at |-> 0] \in Proof
      BY BoundAssumption DEF Proof
    <3> QED
      BY <1>1, <3>1 DEF CommitDrop
  <2>2. req' \in [Testers -> Request]
    BY <1>1, <1>5 DEF CommitDrop, RequestOK
  <2> QED
    BY <1>1, <1>2, <2>1, <2>2 DEF TypeOK
<1>7. \A w \in Cards : Times(w)' = Times(w)
  BY <1>2 DEF Times
<1>8. StampsOK' /\ Ats' \subseteq Ats
  BY <1>2, <1>4, <1>5, <1>7, StampsKept DEF IInv, Stamped
<1>9. RequestsOK'
  <2>1. \A w \in Testers : \A u \in req[w].held : draft'[u] # None
    BY <1>2 DEF IInv, RequestsOK, RequestOK
  <2> QED
    BY <2>1, <1>1, <1>2, <1>4, <1>5, GrownSame, RequestsKept DEF IInv
<1>10. DropsOK'
  <2> SUFFICES ASSUME NEW w \in Testers PROVE DropOK(req[w])'
    BY DEF DropsOK
  <2>1. CASE w = p
    BY <2>1, <1>4, <1>5 DEF DropOK
  <2>2. CASE w # p
    <3>1. req'[w] = req[w] /\ DropOK(req[w])
      BY <2>2, <1>4 DEF IInv, DropsOK
    <3>2. req[w].op = "drop" => req[w].proof \in Proofs
      BY DEF IInv, RequestsOK, RequestOK
    <3>3. \A u \in Cards : u # None
      BY NoneAssumption
    <3> QED
      BY <3>1, <3>2, <3>3, <1>2, <1>3, <1>7, <1>8 DEF DropOK
  <2> QED
    BY <2>1, <2>2
<1>11. RowsOK' /\ PinsOK' /\ CacheFollowsTimeline' /\ VerdictsWereGiven' /\ CycleTestsItsVersion'
  BY <1>2 DEF IInv, RowsOK, PinsOK, CacheFollowsTimeline, VerdictsWereGiven, CycleTestsItsVersion, VersionBasis
<1>12. EvidenceHasResult'
  BY <1>2, <1>3 DEF IInv, EvidenceHasResult
<1> QED
  BY <1>6, <1>8, <1>9, <1>10, <1>11, <1>12 DEF IInv

\* rows change in what no cached status shows
LEMMA SparedStep ==
    ASSUME IInv, NEW G,
           timeline' = [u \in Cards |-> {G[u][e] : e \in timeline[u]}],
           \A u \in Cards : Spares(G[u], timeline[u]),
           \A u \in Cards : \A e \in timeline[u] : G[u][e].cycle # None
              => /\ e.cycle # None /\ G[u][e].cycle = e.cycle
                 /\ cycle'[e.cycle].state \in {"open", "closed"}
                 /\ cycle'[e.cycle].version = cycle[e.cycle].version,
           cycle' \in [Cycles -> Cycle],
           \A k \in Cycles : cycle'[k].state \in {"open", "closed"} =>
               cycle[k].state \in {"open", "closed"} /\ cycle'[k].version = cycle[k].version,
           changes' \in 0 .. ChangeBound,
           UNCHANGED <<world, proof, cache, clock, req, ghosts>>
    PROVE  IInv'
<1>1. TypeOK /\ timeline \in [Cards -> SUBSET Event]
  BY DEF IInv, TypeOK
<1>2. UNCHANGED <<draft, versions, given, revived, overtaken>>
  BY DEF world, ghosts
<1>3. ASSUME NEW u \in Cards
      PROVE  /\ timeline'[u] \in SUBSET Event /\ Apart(timeline'[u]) /\ Times(u)' = Times(u)
             /\ Derived(timeline'[u]) = Derived(timeline[u])
  <2> DEFINE S == timeline[u]
             g == G[u]
             T == {g[e] : e \in S}
  <2>1. S \in SUBSET Event /\ Apart(S) /\ Spares(g, S) /\ timeline'[u] = T
    BY <1>1 DEF IInv, RowsOK
  <2> HIDE DEF S, g
  <2>2. T \in SUBSET Event /\ Apart(T)
    BY <2>1, SparedApart
  <2>4. {f.at : f \in T} = {e.at : e \in S}
    BY <2>1 DEF Spares
  <2>3. Derived(T) = Derived(S)
    BY <2>1, SparedDerived
  <2> QED
    BY <2>1, <2>2, <2>3, <2>4 DEF Times, S
<1>4. TypeOK'
  <2>1. timeline' \in [Cards -> SUBSET Event]
    BY <1>3
  <2> QED
    BY <2>1, <1>1, <1>2 DEF TypeOK
<1>5. RowsOK'
  BY <1>3 DEF RowsOK
<1>6. StampsOK' /\ DropsOK'
  BY <1>3, TimesKept, DropsKept
<1>7. RequestsOK'
  BY <1>2, SameRequests DEF IInv, RequestsOK, RequestOK
<1>8. CacheFollowsTimeline'
  BY <1>2, <1>3 DEF IInv, CacheFollowsTimeline
<1>9. ASSUME NEW u \in Cards, NEW f \in timeline'[u]
      PROVE  \E e \in timeline[u] : /\ f = G[u][e] /\ f.kind = e.kind /\ f.status = e.status
                                    /\ f.basis = e.basis /\ e.cycle \in Cycles \cup {None}
  <2>1. PICK e \in timeline[u] : f = G[u][e]
    OBVIOUS
  <2>2. e.cycle \in Cycles \cup {None}
    BY <1>1 DEF Event
  <2> QED
    BY <2>1, <2>2 DEF Spares
<1>10. VerdictsWereGiven'
  <2> SUFFICES ASSUME NEW u \in Cards, NEW f \in timeline'[u], f.kind = "status"
               PROVE  <<u, f.status, f.basis>> \in given \cup revived
    BY <1>2 DEF VerdictsWereGiven, OfKind
  <2>1. PICK e \in timeline[u] : f.kind = e.kind /\ f.status = e.status /\ f.basis = e.basis
    BY <1>9
  <2>2. e \in OfKind(timeline[u], "status")
    BY <2>1 DEF OfKind
  <2> QED
    BY <2>1, <2>2 DEF IInv, VerdictsWereGiven
<1>11. CycleTestsItsVersion'
  <2> SUFFICES ASSUME NEW u \in Cards, NEW f \in timeline'[u], f.cycle # None
               PROVE  f.basis = versions[cycle'[f.cycle].version][u]
    BY <1>2 DEF CycleTestsItsVersion, VersionBasis
  <2>1. PICK e \in timeline[u] : f = G[u][e] /\ f.basis = e.basis
    BY <1>9
  <2> QED
    BY <2>1 DEF IInv, CycleTestsItsVersion, VersionBasis
<1>12. PinsOK'
  <2>1. ASSUME NEW u \in Cards, NEW f \in timeline'[u], f.cycle # None
        PROVE  cycle'[f.cycle].state \in {"open", "closed"}
    <3>1. PICK e \in timeline[u] : f = G[u][e]
      BY <1>9
    <3> QED
      BY <3>1, <2>1
  <2>2. \A k \in Cycles : cycle'[k].state \in {"open", "closed"} => cycle'[k].version \in 1 .. Len(versions)
    BY DEF IInv, PinsOK
  <2> QED
    BY <2>1, <2>2, <1>2 DEF PinsOK
<1>13. EvidenceHasResult'
  <2> SUFFICES ASSUME NEW q \in Proofs, proof[q].card # None, proof[q].at # 0
               PROVE  \E e \in timeline'[proof[q].card] : e.at = proof[q].at
    BY DEF EvidenceHasResult
  <2>1. PICK u \in Cards : u = proof[q].card
    BY <1>1 DEF TypeOK, Proof
  <2>2. proof[q].at \in Times(u)
    BY <2>1 DEF IInv, EvidenceHasResult, Times
  <2>3. proof[q].at \in Times(u)'
    BY <2>2, <1>3
  <2> QED
    BY <2>1, <2>3 DEF Times
<1> QED
  BY <1>4, <1>5, <1>6, <1>7, <1>8, <1>10, <1>11, <1>12, <1>13 DEF IInv

LEMMA WindowEndsStep ==
    ASSUME IInv, NEW u \in Cards, NEW e \in timeline[u], WindowEnds(u, e)
    PROVE  IInv'
<1> DEFINE late == [e EXCEPT !.fresh = FALSE]
           G == [w \in Cards |-> [f \in timeline[w] |-> IF w = u /\ f = e THEN late ELSE f]]
<1>1. TypeOK /\ timeline \in [Cards -> SUBSET Event] /\ e \in Event /\ cycle \in [Cycles -> Cycle]
      /\ changes \in 0 .. ChangeBound
  BY DEF IInv, TypeOK
<1>2. /\ late \in Event /\ late.at = e.at /\ late.kind = e.kind /\ late.status = e.status
      /\ late.scope = e.scope /\ late.basis = e.basis /\ late.cycle = e.cycle
  BY <1>1 DEF Event
<1>3. timeline' = [timeline EXCEPT ![u] = (@ \ {e}) \cup {late}] /\ UNCHANGED <<cycle, changes>>
  BY DEF WindowEnds
<1> HIDE DEF late
<1>4. timeline' = [w \in Cards |-> {G[w][f] : f \in timeline[w]}]
  <2>1. ASSUME NEW w \in Cards
        PROVE  timeline'[w] = {G[w][f] : f \in timeline[w]}
    <3>1. CASE w = u
      BY <3>1, <1>1, <1>3
    <3>2. CASE w # u
      BY <3>2, <1>1, <1>3
    <3> QED
      BY <3>1, <3>2
  <2>2. timeline' = [w \in Cards |-> timeline'[w]]
    BY <1>1, <1>3
  <2> HIDE DEF G
  <2> QED
    BY <2>1, <2>2
<1>5. \A w \in Cards : Spares(G[w], timeline[w])
  BY <1>1, <1>2 DEF Spares
<1>6. \A w \in Cards : \A f \in timeline[w] : G[w][f].cycle = f.cycle /\ f.cycle \in Cycles \cup {None}
  BY <1>1, <1>2 DEF Event
<1> HIDE DEF G
<1>7. \A w \in Cards : \A f \in timeline[w] : f.cycle # None => cycle[f.cycle].state \in {"open", "closed"}
  BY DEF IInv, PinsOK
<1>8. \A w \in Cards : \A f \in timeline[w] : G[w][f].cycle # None
          => /\ f.cycle # None /\ G[w][f].cycle = f.cycle
             /\ cycle'[f.cycle].state \in {"open", "closed"}
             /\ cycle'[f.cycle].version = cycle[f.cycle].version
  BY <1>3, <1>6, <1>7
<1>9. \A k \in Cycles : cycle'[k].state \in {"open", "closed"} =>
               cycle[k].state \in {"open", "closed"} /\ cycle'[k].version = cycle[k].version
  BY <1>3
<1>10. changes' \in 0 .. ChangeBound /\ cycle' \in [Cycles -> Cycle]
  BY <1>1, <1>3
<1>11. UNCHANGED <<world, proof, cache, clock, req, ghosts>>
  BY DEF WindowEnds
<1> QED
  BY <1>4, <1>5, <1>8, <1>9, <1>10, <1>11, SparedStep, ZenonT(30)

\* the results of a deleted cycle become ad-hoc ones
LEMMA DeleteCycleStep ==
    ASSUME IInv, NEW k \in Cycles, DeleteCycle(k)
    PROVE  IInv'
<1> DEFINE G == [w \in Cards |-> [f \in timeline[w] |-> IF f.cycle = k THEN [f EXCEPT !.cycle = None] ELSE f]]
           c == [cycle[k] EXCEPT !.state = "deleted", !.members = {}]
<1>1. TypeOK /\ timeline \in [Cards -> SUBSET Event] /\ cycle \in [Cycles -> Cycle]
      /\ changes' \in 0 .. ChangeBound
  BY BoundAssumption DEF IInv, TypeOK, DeleteCycle, Change
<1>2. c \in Cycle /\ c.state = "deleted"
  BY <1>1 DEF Cycle
<1>3. cycle' = [cycle EXCEPT ![k] = c]
  BY DEF DeleteCycle
<1> HIDE DEF c
<1>4. \A j \in Cycles : cycle'[j] = IF j = k THEN c ELSE cycle[j]
  BY <1>1, <1>3
<1>5. timeline' = [w \in Cards |-> {G[w][f] : f \in timeline[w]}]
  BY DEF DeleteCycle
<1>6. ASSUME NEW w \in Cards, NEW f \in timeline[w]
      PROVE  /\ G[w][f] \in Event /\ G[w][f].at = f.at /\ G[w][f].kind = f.kind /\ G[w][f].status = f.status
             /\ G[w][f].scope = f.scope /\ G[w][f].basis = f.basis
             /\ G[w][f].cycle = IF f.cycle = k THEN None ELSE f.cycle
             /\ f.cycle \in Cycles \cup {None}
  <2> DEFINE h == [f EXCEPT !.cycle = None]
  <2>1. f \in Event
    BY <1>1
  <2>2. /\ h \in Event /\ h.at = f.at /\ h.kind = f.kind /\ h.status = f.status
        /\ h.scope = f.scope /\ h.basis = f.basis /\ h.cycle = None
    BY <2>1 DEF Event
  <2>3. G[w][f] = IF f.cycle = k THEN h ELSE f
    OBVIOUS
  <2> HIDE DEF h, G
  <2> QED
    BY <2>1, <2>2, <2>3 DEF Event
<1> HIDE DEF G
<1>7. \A w \in Cards : Spares(G[w], timeline[w])
  BY <1>6 DEF Spares
<1>8. \A w \in Cards : \A f \in timeline[w] : f.cycle # None => cycle[f.cycle].state \in {"open", "closed"}
  BY DEF IInv, PinsOK
<1>9. \A w \in Cards : \A f \in timeline[w] : G[w][f].cycle # None
        => /\ f.cycle # None /\ G[w][f].cycle = f.cycle /\ f.cycle \in Cycles /\ f.cycle # k
  BY <1>6
<1>10. cycle' \in [Cycles -> Cycle]
  BY <1>1, <1>2, <1>3
<1>11. \A w \in Cards : \A e \in timeline[w] : G[w][e].cycle # None
          => /\ e.cycle # None /\ G[w][e].cycle = e.cycle
             /\ cycle'[e.cycle].state \in {"open", "closed"}
             /\ cycle'[e.cycle].version = cycle[e.cycle].version
  BY <1>4, <1>8, <1>9
<1>12. \A j \in Cycles : cycle'[j].state \in {"open", "closed"} =>
               cycle[j].state \in {"open", "closed"} /\ cycle'[j].version = cycle[j].version
  BY <1>2, <1>4
<1>13. UNCHANGED <<world, proof, cache, clock, req, ghosts>>
  BY DEF DeleteCycle
<1> QED
  BY <1>1, <1>5, <1>7, <1>10, <1>11, <1>12, <1>13, SparedStep, ZenonT(30)

-----------------------------------------------------------------------------
(* Commits.                                                                  *)

\* a commit gives its timestamp to events and leaves bound evidence alone, or unbinds what
\* lost its event
LEMMA CommitRows ==
    ASSUME IInv, NEW p \in Testers, req' = [req EXCEPT ![p] = Idle],
           UNCHANGED <<draft, versions, clock>>, given \cup revived \subseteq given' \cup revived',
           \A u \in Cards : \A t \in Times(u)' :
              t \in Times(u) \/ (req[p].op \in Stamped /\ t = req[p].at),
           \A q \in Proofs :
              /\ proof'[q].card = proof[q].card
              /\ \/ proof'[q].at = proof[q].at \/ proof[q].at = 0
                 \/ proof[q].card \in Cards /\ proof[q].at \notin Times(proof[q].card)'
    PROVE  req' \in [Testers -> Request] /\ RequestsOK' /\ StampsOK' /\ DropsOK'
<1>1. TypeOK /\ req \in [Testers -> Request] /\ Len(versions) \in Nat /\ clock \in 0 .. TxBound
  BY DEF IInv, TypeOK
<1>2. \A w \in Testers : req'[w] = IF w = p THEN Idle ELSE req[w]
  BY <1>1
<1>3. RequestOK(Idle, versions, draft, clock, given \cup revived) /\ Idle.op = "idle"
  BY <1>1, IdleOK
<1>4. RequestOK(Idle, versions', draft', clock', given' \cup revived')
  BY <1>1, IdleOK
<1>5. req' \in [Testers -> Request]
  BY <1>1, <1>3 DEF RequestOK
<1>6. RequestsOK'
  <2>1. \A w \in Testers : \A u \in req[w].held : draft'[u] # None
    BY DEF IInv, RequestsOK, RequestOK
  <2>2. Grown
    BY <1>1 DEF TypeOK, Grown
  <2> QED
    BY <2>1, <2>2, <1>1, <1>2, <1>4, RequestsKept DEF IInv
<1>7. Ats' \subseteq Ats
  BY <1>2, <1>3 DEF Ats, Stamped
<1>8. req[p].op \in Stamped => req[p].at \in Ats /\ req[p].at \notin Ats' /\ req[p].at <= clock
  <2>1. req[p].op \in Stamped => req[p].at \notin Ats'
    BY <1>2, <1>3 DEF Ats, Stamped, IInv, StampsOK
  <2>2. req[p].op \in Stamped => req[p].at \in Ats /\ req[p].at <= clock
    BY <1>1 DEF Ats, IInv, RequestsOK, RequestOK
  <2> QED
    BY <2>1, <2>2
<1>9. StampsOK'
  <2>1. \A u \in Cards : \A t \in Times(u)' : t \notin Ats' /\ t <= clock'
    BY <1>7, <1>8 DEF IInv, StampsOK
  <2>2. \A q, w \in Testers :
          q # w /\ req'[q].op \in Stamped /\ req'[w].op \in Stamped => req'[q].at # req'[w].at
    BY <1>2, <1>3 DEF IInv, StampsOK, Stamped
  <2> QED
    BY <2>1, <2>2 DEF StampsOK
<1>10. DropsOK'
  <2> SUFFICES ASSUME NEW w \in Testers, req'[w].op = "drop", req'[w].item # 0
               PROVE  /\ req'[w].item <= clock' /\ req'[w].item \notin Ats'
                      /\ \A u \in Cards : proof'[req'[w].proof].card = u /\ req'[w].item \in Times(u)'
                                             => proof'[req'[w].proof].at = req'[w].item
    BY DEF DropsOK, DropOK
  <2>1. w # p /\ req'[w] = req[w]
    BY <1>2, <1>3
  <2>2. /\ req[w].item <= clock /\ req[w].item \notin Ats /\ req[w].proof \in Proofs
        /\ \A u \in Cards : proof[req[w].proof].card = u /\ req[w].item \in Times(u)
                               => proof[req[w].proof].at = req[w].item
    BY <2>1 DEF IInv, DropsOK, DropOK, RequestsOK, RequestOK
  <2>3. ASSUME NEW u \in Cards, proof'[req[w].proof].card = u, req[w].item \in Times(u)'
        PROVE  proof'[req[w].proof].at = req[w].item
    <3>1. PICK q \in Proofs : q = req[w].proof
      BY <2>2
    <3>2. req[w].item \in Times(u)
      BY <2>2, <2>3, <1>8
    <3>3. proof[q].card = u /\ proof[q].at = req[w].item /\ proof'[q].card = u
      BY <2>2, <2>3, <3>1, <3>2
    <3>4. proof[q].at # 0
      BY <2>1, <3>3
    <3>5. Times(proof[q].card)' = Times(u)'
      BY <3>3 DEF Times
    <3> QED
      BY <2>3, <3>1, <3>3, <3>4, <3>5
  <2> QED
    BY <2>1, <2>2, <2>3, <1>7
<1> QED
  BY <1>5, <1>6, <1>9, <1>10

Writes(r) == r.op \in {"record", "bulk", "note", "scope"}
InItsCycle(r, u) == r.cycle # None => Exists(r.cycle) /\ VersionBasis(r.cycle, u) # None

\* _pin: an event is about a definition that is there
LEMMA PinTyped ==
    ASSUME IInv, NEW p \in Testers, NEW u \in req[p].held, InItsCycle(req[p], u)
    PROVE  /\ Pin(req[p], u) \in Basis /\ u \in Cards
           /\ req[p].cycle # None => Pin(req[p], u) = VersionBasis(req[p].cycle, u) /\ req[p].cycle \in Cycles
<1>1. /\ TypeOK /\ req[p] \in Request /\ draft[u] # None /\ u \in Cards
      /\ req[p].cycle \in Cycles \cup {None} /\ draft[u] \in Basis
  BY DEF IInv, TypeOK, RequestsOK, RequestOK, Request
<1>2. CASE req[p].cycle = None
  BY <1>1, <1>2 DEF Pin
<1>3. CASE req[p].cycle # None
  <2>1. req[p].cycle \in Cycles
    BY <1>1, <1>3
  <2>2. cycle[req[p].cycle].version \in 1 .. Len(versions)
    BY <2>1, <1>3 DEF InItsCycle, Exists, IInv, PinsOK
  <2>3. \A v \in 1 .. Len(versions) : versions[v] \in [Cards -> Basis \cup {None}]
    BY <1>1, ElementOfSeq DEF TypeOK
  <2>4. VersionBasis(req[p].cycle, u) \in Basis
    BY <2>2, <2>3, <1>1, <1>3 DEF InItsCycle, VersionBasis
  <2> QED
    BY <2>1, <2>4, <1>1, <1>3 DEF Pin
<1> QED
  BY <1>2, <1>3

\* _record_in, _scope_in: a new row, or an amendment of the newest one
LEMMA RecordedOK ==
    ASSUME IInv, NEW p \in Testers, NEW u \in req[p].held, InItsCycle(req[p], u), Writes(req[p])
    PROVE  LET r == req[p]
               S == timeline[u]
               T == Recorded(p, u)
           IN  /\ T \in SUBSET Event /\ Apart(T)
               /\ \A f \in T : \/ f \in S
                               \/ /\ f.cycle = r.cycle /\ f.basis = Pin(r, u)
                                  /\ f.kind = "status" => r.op \in {"record", "bulk"} /\ f.status = r.status
               /\ \A f \in T : (\E e \in S : f.at = e.at) \/ f.at = r.at
               /\ \A e \in S : \E f \in T : f.at = e.at
               /\ \E f \in T : f.at = IF Amends(p, u) THEN Newest(S).at ELSE r.at
<1> DEFINE r == req[p]
           S == timeline[u]
           pin == Pin(r, u)
<1>1. TypeOK /\ r \in Request /\ u \in Cards /\ r.status \in Statuses /\ r.scope \in BOOLEAN
      /\ r.cycle \in Cycles \cup {None} /\ S \in SUBSET Event /\ Apart(S) /\ cache[u] \in Cached
      /\ clock \in 0 .. TxBound /\ TxBound \in Nat
  BY BoundAssumption, PinTyped DEF IInv, TypeOK, RequestsOK, RequestOK, Request, RowsOK
<1>2. pin \in Basis
  BY PinTyped
<1>3. r.op \in Stamped /\ r.at \in 1 .. clock
  BY DEF Writes, Stamped, IInv, RequestsOK, RequestOK
<1>4. r.at \in 1 .. TxBound /\ r.at \in Ats
  BY <1>1, <1>3 DEF Ats
<1>5. \A e \in S : e.at # r.at
  BY <1>1, <1>4 DEF IInv, StampsOK, Times
<1> HIDE DEF pin
<1>6. CASE Amends(p, u)
  <2> DEFINE e == Newest(S)
             a == Amended(e, r, pin)
  <2>1. S # {} /\ e.kind = "status" /\ e.cycle = r.cycle /\ r.op = "record"
    BY <1>6 DEF Amends
  <2>2. e \in S /\ e \in Event
    BY <2>1, <1>1, NewestOK
  <2>3. Recorded(p, u) = (S \ {e}) \cup {a}
    BY <1>6 DEF Recorded, pin
  <2>4. (IF e.status # r.status THEN e.status ELSE e.was) \in Statuses \cup {None}
    BY <2>2 DEF Event
  <2> HIDE DEF e
  <2>5. /\ a \in Event /\ a.at = e.at /\ a.kind = e.kind /\ a.status = r.status /\ a.basis = pin
        /\ a.cycle = e.cycle
    <3> DEFINE was == IF e.status # r.status THEN e.status ELSE e.was
               yes == TRUE
    <3>0. yes \in BOOLEAN /\ 0 \in 0 .. TxBound
      BY <1>1
    <3>1. a = [e EXCEPT !.was = was, !.status = r.status, !.basis = pin, !.from = 0, !.fresh = yes]
      BY <2>2 DEF Amended, Event
    <3>2. was \in Statuses \cup {None}
      BY <2>4
    <3> HIDE DEF was, a, yes
    <3> QED
      BY <3>0, <3>1, <3>2, <2>2, <1>1, <1>2 DEF Event
  <2> HIDE DEF a
  <2>6. Apart(Recorded(p, u))
    BY <2>2, <2>3, <2>5, <1>1 DEF Apart
  <2>7. Recorded(p, u) \in SUBSET Event
    BY <2>3, <2>5, <1>1
  <2>8. \A f \in Recorded(p, u) : f \in S \/ f = a
    BY <2>3
  <2>9. a \in Recorded(p, u) /\ \A f \in S : f = e \/ f \in Recorded(p, u)
    BY <2>3
  <2> QED
    BY <2>1, <2>2, <2>5, <2>6, <2>7, <2>8, <2>9, <1>6 DEF e, pin
<1>7. CASE ~Amends(p, u)
  <2> DEFINE n == NewEvent(p, u)
  <2>1. Recorded(p, u) = S \cup {n}
    BY <1>7 DEF Recorded
  <2>2. cache[u].status \in Statuses
    BY <1>1 DEF Cached
  <2>3. /\ n.at = r.at /\ n.basis = pin /\ n.cycle = r.cycle
        /\ n.kind = "status" => r.op \in {"record", "bulk"} /\ n.status = r.status
    BY DEF NewEvent, pin, Writes
  <2>4. n \in Event
    <3> DEFINE kind == IF r.op \in {"record", "bulk"} THEN "status" ELSE r.op
               status == IF r.op \in {"record", "bulk"} THEN r.status ELSE cache[u].status
    <3>1. kind \in Kinds /\ status \in Statuses
      BY <2>2, <1>1 DEF Kinds, Writes
    <3>2. n = [at |-> r.at, kind |-> kind, status |-> status, scope |-> r.scope, basis |-> pin, cycle |-> r.cycle,
               by |-> p, was |-> None, from |-> 0, fresh |-> TRUE]
      BY Zenon DEF NewEvent, pin
    <3> HIDE DEF kind, status, n
    <3> QED
      BY <3>1, <3>2, <1>1, <1>2, <1>4 DEF Event
  <2> HIDE DEF n
  <2>5. Apart(Recorded(p, u))
    BY <2>1, <2>3, <1>1, <1>5 DEF Apart
  <2> QED
    BY <2>1, <2>3, <2>4, <2>5, <1>1, <1>7 DEF pin
<1> QED
  BY <1>6, <1>7

LEMMA CommitEventsStep ==
    ASSUME IInv, NEW p \in Testers, CommitEvents(p)
    PROVE  IInv'
<1> DEFINE r == req[p]
           B == given \cup revived
<1>1. /\ TypeOK /\ r \in Request /\ r.held \subseteq Cards /\ r.cycle \in Cycles \cup {None}
      /\ timeline \in [Cards -> SUBSET Event] /\ proof \in [Proofs -> Proof] /\ cache \in [Cards -> Cached]
      /\ cycle \in [Cycles -> Cycle] /\ r.status \in Statuses /\ overtaken \subseteq Cards
      /\ r.op \in Stamped /\ Writes(r) /\ r.at \in 1 .. TxBound
  <2>1. RequestOK(r, versions, draft, clock, given \cup revived) /\ Writes(r) /\ r.op \in Stamped
    BY DEF IInv, RequestsOK, CommitEvents, Writes, Stamped
  <2>2. clock \in 0 .. TxBound /\ TxBound \in Nat
    BY BoundAssumption DEF IInv, TypeOK
  <2>3. r.at \in 1 .. TxBound
    BY <2>1, <2>2 DEF RequestOK
  <2> QED
    BY <2>1, <2>3 DEF IInv, TypeOK, RequestOK, Request
<1>2. UNCHANGED <<draft, versions, clock, changes, revived>>
  BY DEF CommitEvents, world
<1>3. ASSUME NEW u \in r.held
      PROVE  InItsCycle(r, u)
  BY DEF CommitEvents, InItsCycle
<1>4. \A u \in r.held :
         /\ Pin(r, u) \in Basis /\ u \in Cards
         /\ r.cycle # None => Pin(r, u) = VersionBasis(r.cycle, u) /\ r.cycle \in Cycles
  BY <1>3, PinTyped
<1>5. \A u \in Cards : timeline'[u] = IF u \in r.held THEN Recorded(p, u) ELSE timeline[u]
  BY DEF CommitEvents
<1>6. ASSUME NEW u \in r.held
      PROVE  /\ timeline'[u] \in SUBSET Event /\ Apart(timeline'[u])
             /\ \A f \in timeline'[u] : \/ f \in timeline[u]
                                        \/ /\ f.cycle = r.cycle /\ f.basis = Pin(r, u)
                                           /\ f.kind = "status" => r.op \in {"record", "bulk"} /\ f.status = r.status
             /\ \A f \in timeline'[u] : (\E e \in timeline[u] : f.at = e.at) \/ f.at = r.at
             /\ \A e \in timeline[u] : \E f \in timeline'[u] : f.at = e.at
             /\ \E f \in timeline'[u] : f.at = IF Amends(p, u) THEN Newest(timeline[u]).at ELSE r.at
  <2>1. u \in Cards
    BY <1>1
  <2>2. timeline'[u] = Recorded(p, u)
    BY <2>1, <1>5
  <2> QED
    BY <2>2, <1>1, <1>3, RecordedOK
<1>7. \A u \in Cards : u \notin r.held => timeline'[u] = timeline[u]
  BY <1>5
<1>8. \A u \in Cards : timeline'[u] \in SUBSET Event /\ Apart(timeline'[u])
  BY <1>1, <1>6, <1>7 DEF IInv, RowsOK
<1>9. timeline' \in [Cards -> SUBSET Event] /\ RowsOK'
  <2>1. timeline' = [u \in Cards |-> IF u \in r.held THEN Recorded(p, u) ELSE timeline[u]]
    BY DEF CommitEvents
  <2> QED
    BY <2>1, <1>8 DEF RowsOK
<1>10. /\ \A u \in Cards : Derived(timeline'[u]) \in Cached
       /\ cache' = [u \in Cards |-> IF u \in r.held THEN Derived(timeline'[u]) ELSE cache[u]]
       /\ overtaken' = overtaken \ r.held
  BY <1>8, DerivedTyped DEF CommitEvents
<1>11. cache' \in [Cards -> Cached] /\ overtaken' \subseteq Cards
  BY <1>1, <1>10
<1>12. ASSUME NEW u \in Cards, u \notin overtaken'
       PROVE  cache'[u] = Derived(timeline'[u])
  BY <1>7, <1>10, <1>12 DEF IInv, CacheFollowsTimeline
<1>13. CacheFollowsTimeline'
  BY <1>12 DEF CacheFollowsTimeline
<1>14. /\ given \subseteq given' /\ given' \subseteq Cards \X Statuses \X Basis
       /\ r.op \in {"record", "bulk"} => \A u \in r.held : <<u, r.status, Pin(r, u)>> \in given'
  <2> DEFINE new == {<<u, r.status, Pin(r, u)>> : u \in r.held}
  <2>1. new \subseteq Cards \X Statuses \X Basis
    BY <1>1, <1>4
  <2>2. \A u \in r.held : <<u, r.status, Pin(r, u)>> \in new
    OBVIOUS
  <2>3. given' = IF r.op \in {"record", "bulk"} THEN given \cup new ELSE given
    BY DEF CommitEvents
  <2>4. given \subseteq Cards \X Statuses \X Basis
    BY <1>1 DEF TypeOK
  <2> HIDE DEF new
  <2> QED
    BY <2>1, <2>2, <2>3, <2>4
<1>15. VerdictsWereGiven'
  <2> SUFFICES ASSUME NEW u \in Cards, NEW f \in timeline'[u], f.kind = "status"
               PROVE  <<u, f.status, f.basis>> \in given' \cup revived'
    BY DEF VerdictsWereGiven, OfKind
  <2>1. CASE f \in timeline[u]
    <3>1. f \in OfKind(timeline[u], "status")
      BY <2>1 DEF OfKind
    <3>2. <<u, f.status, f.basis>> \in B
      BY <3>1 DEF IInv, VerdictsWereGiven
    <3> QED
      BY <3>2, <1>2, <1>14
  <2>2. CASE f \notin timeline[u]
    <3>1. u \in r.held
      BY <2>2, <1>7
    <3>2. f.basis = Pin(r, u) /\ r.op \in {"record", "bulk"} /\ f.status = r.status
      BY <2>2, <3>1, <1>6
    <3> QED
      BY <3>1, <3>2, <1>14
  <2> QED
    BY <2>1, <2>2
<1>16. /\ cycle' \in [Cycles -> Cycle]
       /\ \A k \in Cycles : cycle'[k].state = cycle[k].state /\ cycle'[k].version = cycle[k].version
  <2>1. CASE r.cycle = None
    BY <2>1, <1>1 DEF CommitEvents
  <2>2. CASE r.cycle # None
    <3> DEFINE c == [cycle[r.cycle] EXCEPT !.members = @ \cup r.held]
    <3>1. r.cycle \in Cycles /\ cycle[r.cycle] \in Cycle
      BY <2>2, <1>1
    <3>2. c \in Cycle /\ c.state = cycle[r.cycle].state /\ c.version = cycle[r.cycle].version
      BY <3>1, <1>1 DEF Cycle
    <3>3. cycle' = [cycle EXCEPT ![r.cycle] = c]
      BY <2>2 DEF CommitEvents
    <3> HIDE DEF c
    <3> QED
      BY <3>1, <3>2, <3>3, <1>1
  <2> QED
    BY <2>1, <2>2
<1>17. CycleTestsItsVersion' /\ PinsOK'
  <2>1. ASSUME NEW u \in Cards, NEW f \in timeline'[u], f.cycle # None
        PROVE  /\ f.cycle \in Cycles /\ cycle[f.cycle].state \in {"open", "closed"}
               /\ f.basis = versions[cycle[f.cycle].version][u]
    <3>1. CASE f \in timeline[u]
      <4>1. f.cycle \in Cycles
        BY <3>1, <2>1, <1>1 DEF Event
      <4> QED
        BY <3>1, <2>1, <4>1 DEF IInv, PinsOK, CycleTestsItsVersion, VersionBasis
    <3>2. CASE f \notin timeline[u]
      <4>1. u \in r.held
        BY <3>2, <1>7
      <4>2. f.cycle = r.cycle /\ f.basis = Pin(r, u)
        BY <3>2, <4>1, <1>6
      <4>3. cycle[r.cycle].state \in {"open", "closed"}
        BY <4>1, <4>2, <2>1, <1>3 DEF InItsCycle, Exists
      <4> QED
        BY <4>1, <4>2, <4>3, <2>1, <1>4 DEF VersionBasis
    <3> QED
      BY <3>1, <3>2
  <2>2. CycleTestsItsVersion'
    BY <2>1, <1>2, <1>16 DEF CycleTestsItsVersion, VersionBasis
  <2>3. PinsOK'
    BY <2>1, <1>2, <1>16 DEF IInv, PinsOK
  <2> QED
    BY <2>2, <2>3
<1>18. ASSUME NEW q \in Proofs
       PROVE  /\ proof'[q] \in Proof /\ proof'[q].card = proof[q].card
              /\ \/ proof'[q].at = proof[q].at
                 \/ /\ proof[q].at = 0 /\ proof[q].card \in r.held
                    /\ proof'[q].at = IF Amends(p, proof[q].card)
                                      THEN Newest(timeline[proof[q].card]).at ELSE r.at
  <2> DEFINE at == IF Amends(p, proof[q].card) THEN Newest(timeline[proof[q].card]).at ELSE r.at
             n == [proof[q] EXCEPT !.at = at]
  <2>1. proof[q] \in Proof
    BY <1>1
  <2>2. CASE proof'[q] = proof[q]
    BY <2>1, <2>2
  <2>3. CASE proof[q].card \in r.held /\ proof[q].at = 0 /\ proof'[q] = n
    <3>1. at \in 0 .. TxBound
      <4>1. \E f \in timeline'[proof[q].card] : f.at = at
        BY <2>3, <1>6
      <4>2. timeline'[proof[q].card] \in SUBSET Event
        BY <2>3, <1>6
      <4> HIDE DEF at
      <4> QED
        BY <4>1, <4>2 DEF Event
    <3> HIDE DEF at
    <3>2. n \in Proof /\ n.card = proof[q].card /\ n.at = at
      BY <2>1, <3>1 DEF Proof
    <3> QED
      BY <2>3, <3>2 DEF at
  <2>4. proof'[q] = IF r.op \in {"record", "note"} /\ proof[q].card \in r.held /\ proof[q].at = 0
                    THEN n ELSE proof[q]
    BY DEF CommitEvents, Claimed
  <2> QED
    BY <2>2, <2>3, <2>4
<1>19. proof' \in [Proofs -> Proof]
  <2>1. proof' = [q \in Proofs |-> proof'[q]]
    BY DEF CommitEvents, Claimed
  <2> QED
    BY <2>1, <1>18
<1>20. EvidenceHasResult'
  <2> SUFFICES ASSUME NEW q \in Proofs, proof'[q].card # None, proof'[q].at # 0
               PROVE  \E e \in timeline'[proof'[q].card] : e.at = proof'[q].at
    BY DEF EvidenceHasResult
  <2>1. PICK u \in Cards : u = proof[q].card /\ u = proof'[q].card
    BY <1>1, <1>18 DEF Proof
  <2>2. CASE proof'[q].at = proof[q].at
    <3>1. PICK e \in timeline[u] : e.at = proof[q].at
      BY <2>1, <2>2 DEF IInv, EvidenceHasResult
    <3> QED
      BY <2>1, <2>2, <3>1, <1>6, <1>7
  <2>3. CASE proof'[q].at # proof[q].at
    BY <2>1, <2>3, <1>6, <1>18
  <2> QED
    BY <2>2, <2>3
<1>21. req' \in [Testers -> Request] /\ RequestsOK' /\ StampsOK' /\ DropsOK'
  <2>1. req' = [req EXCEPT ![p] = Idle]
    BY DEF CommitEvents
  <2>2. \A u \in Cards : \A t \in Times(u)' : t \in Times(u) \/ (r.op \in Stamped /\ t = r.at)
    <3> SUFFICES ASSUME NEW u \in Cards, NEW f \in timeline'[u]
                 PROVE  f.at \in Times(u) \/ f.at = r.at
      BY <1>1 DEF Times
    <3> QED
      BY <1>6, <1>7 DEF Times
  <2>3. given \cup revived \subseteq given' \cup revived'
    BY <1>2, <1>14
  <2>4. \A q \in Proofs : /\ proof'[q].card = proof[q].card
                          /\ proof'[q].at = proof[q].at \/ proof[q].at = 0
    BY <1>18
  <2> QED
    BY <2>1, <2>2, <2>3, <2>4, <1>2, CommitRows
<1>22. TypeOK'
  BY <1>1, <1>2, <1>9, <1>11, <1>14, <1>16, <1>19, <1>21 DEF TypeOK
<1> QED
  BY <1>9, <1>13, <1>15, <1>17, <1>20, <1>21, <1>22 DEF IInv

\* an undo takes back the newest event of a case, or gives an amended verdict its old status
LEMMA UndoneRow ==
    ASSUME NEW S \in SUBSET Event, Apart(S), NEW e \in S, e.was # None
    PROVE  LET T == (S \ {e}) \cup {Reverted(e)}
           IN  /\ T \in SUBSET Event /\ Apart(T)
               /\ \A f \in T : \E g \in S : /\ f.at = g.at /\ f.kind = g.kind /\ f.cycle = g.cycle
                                            /\ f.basis = g.basis
                                            /\ f.status = g.status \/ (f.status = e.was /\ g = e)
               /\ \A g \in S : \E f \in T : f.at = g.at
               /\ e.was \in Statuses
<1> DEFINE h == Reverted(e)
<1>1. e \in Event /\ e.was \in Statuses
  BY DEF Event
<1>2. /\ h \in Event /\ h.at = e.at /\ h.kind = e.kind /\ h.cycle = e.cycle /\ h.basis = e.basis
      /\ h.status = e.was
  BY <1>1 DEF Event, Reverted
<1> HIDE DEF h
<1>3. Apart((S \ {e}) \cup {h})
  BY <1>2 DEF Apart
<1> QED
  BY <1>1, <1>2, <1>3 DEF h

LeavesOut(U, S, e) ==
    /\ U \in SUBSET Event /\ Apart(U)
    /\ \A f \in U : \E w \in S : /\ f.at = w.at /\ f.kind = w.kind /\ f.cycle = w.cycle
                                 /\ f.basis = w.basis /\ f.status = w.status
    /\ \A w \in S : w.at # e.at => \E f \in U : f.at = w.at
    /\ \A f \in U : f.at # e.at
LEMMA DeletedRow ==
    ASSUME NEW S \in SUBSET Event, Apart(S), NEW e \in S
    PROVE  LeavesOut(Unreferenced(S \ {e}, e.at), S, e)
<1> DEFINE R == S \ {e}
           at == e.at
           g == [f \in R |-> IF f.from = at THEN [f EXCEPT !.from = 0] ELSE f]
           T == {g[f] : f \in R}
<1>1. R \in SUBSET Event /\ Apart(R) /\ \A f \in R : f.at # at
  BY DEF Apart
<1>2. \A f \in R : /\ g[f] \in Event /\ g[f].at = f.at /\ g[f].kind = f.kind /\ g[f].cycle = f.cycle
                   /\ g[f].status = f.status /\ g[f].scope = f.scope /\ g[f].basis = f.basis
  <2> SUFFICES ASSUME NEW f \in R
               PROVE  /\ g[f] \in Event /\ g[f].at = f.at /\ g[f].kind = f.kind /\ g[f].cycle = f.cycle
                      /\ g[f].status = f.status /\ g[f].scope = f.scope /\ g[f].basis = f.basis
    OBVIOUS
  <2> DEFINE h == [f EXCEPT !.from = 0]
  <2>1. f \in Event /\ 0 \in 0 .. TxBound
    BY BoundAssumption
  <2>2. /\ h \in Event /\ h.at = f.at /\ h.kind = f.kind /\ h.cycle = f.cycle
        /\ h.status = f.status /\ h.scope = f.scope /\ h.basis = f.basis
    BY <2>1 DEF Event
  <2>3. g[f] = h \/ g[f] = f
    OBVIOUS
  <2> HIDE DEF g, h
  <2> QED
    BY <2>1, <2>2, <2>3
<1>3. Unreferenced(R, at) = T
  BY DEF Unreferenced
<1> HIDE DEF g
<1>4. Spares(g, R)
  BY <1>2 DEF Spares
<1>5. T \in SUBSET Event /\ Apart(T)
  BY <1>1, <1>4, SparedApart
<1>6. \A f \in R : f.at # at => \E h \in T : h.at = f.at
  BY <1>2
<1>7. \A h \in T : \E f \in R : /\ h.at = f.at /\ h.kind = f.kind /\ h.cycle = f.cycle
                                /\ h.basis = f.basis /\ h.status = f.status
  BY <1>2
<1> HIDE DEF T
<1>8. /\ T \in SUBSET Event /\ Apart(T)
      /\ \A f \in T : \E w \in S : /\ f.at = w.at /\ f.kind = w.kind /\ f.cycle = w.cycle
                                   /\ f.basis = w.basis /\ f.status = w.status
      /\ \A w \in S : w.at # e.at => \E f \in T : f.at = w.at
      /\ \A f \in T : f.at # e.at
  BY <1>1, <1>5, <1>6, <1>7
<1> QED
  BY <1>3, <1>8 DEF LeavesOut

LEMMA CommitUndoStep ==
    ASSUME IInv, NEW p \in Testers, CommitUndo(p)
    PROVE  IInv'
<1> DEFINE r == req[p]
<1>1. /\ TypeOK /\ r \in Request /\ r.held \subseteq Cards /\ timeline \in [Cards -> SUBSET Event]
      /\ proof \in [Proofs -> Proof] /\ cache \in [Cards -> Cached] /\ overtaken \subseteq Cards
      /\ TxBound \in Nat
  BY BoundAssumption DEF IInv, TypeOK, RequestsOK, RequestOK, Request
<1>2. UNCHANGED <<draft, versions, cycle, clock, changes, given>> /\ req' = [req EXCEPT ![p] = Idle]
  BY DEF CommitUndo, world
<1> DEFINE Undone(u, e) ==
         /\ e = Newest(timeline[u])
         /\ \/ /\ e.was # None
               /\ timeline' = [timeline EXCEPT ![u] = (@ \ {e}) \cup {Reverted(e)}]
               /\ revived' = revived \cup {<<u, e.was, e.basis>>}
               /\ UNCHANGED proof
            \/ /\ timeline' = [timeline EXCEPT ![u] = Unreferenced(@ \ {e}, e.at)]
               /\ proof' = Released(u, e.at)
               /\ UNCHANGED revived
         /\ cache' = [cache EXCEPT ![u] = Derived(timeline'[u])]
         /\ overtaken' = overtaken \ {u}
<1>18. PICK u \in r.held : \E e \in timeline[u] : Undone(u, e)
  BY DEF CommitUndo
<1>3. PICK e \in timeline[u] : Undone(u, e)
  BY <1>18
<1> DEFINE S == timeline[u]
           T == timeline'[u]
<1>4. u \in Cards /\ S \in SUBSET Event /\ Apart(S) /\ e \in S /\ e \in Event
  BY <1>1, <1>3 DEF IInv, RowsOK
<1>5. \A w \in Cards : w # u => timeline'[w] = timeline[w]
  BY <1>1, <1>3
\* what both kinds of undo leave behind
<1>6. /\ T \in SUBSET Event /\ Apart(T)
      /\ \A f \in T : \E g \in S : /\ f.at = g.at /\ f.kind = g.kind /\ f.cycle = g.cycle /\ f.basis = g.basis
                                   /\ f.status = g.status \/ <<u, f.status, f.basis>> \in revived'
      /\ revived \subseteq revived' /\ revived' \subseteq Cards \X Statuses \X Basis
      /\ \A q \in Proofs :
           /\ proof'[q] \in Proof /\ proof'[q].card = proof[q].card
           /\ \/ /\ proof'[q].at = proof[q].at
                 /\ proof[q].card = u => \A g \in S : g.at = proof[q].at => \E f \in T : f.at = g.at
              \/ /\ proof[q].card = u /\ proof'[q].at = 0
                 /\ \A f \in T : f.at # proof[q].at
      /\ proof' = [q \in Proofs |-> proof'[q]]
  <2>0. revived \subseteq Cards \X Statuses \X Basis
    BY <1>1 DEF TypeOK
  <2>1. CASE /\ e.was # None
             /\ timeline' = [timeline EXCEPT ![u] = (@ \ {e}) \cup {Reverted(e)}]
             /\ revived' = revived \cup {<<u, e.was, e.basis>>}
             /\ UNCHANGED proof
    <3>1. T = (S \ {e}) \cup {Reverted(e)}
      BY <2>1, <1>1, <1>4
    <3> HIDE DEF T, S
    <3>2. /\ T \in SUBSET Event /\ Apart(T)
          /\ \A f \in T : \E g \in S : /\ f.at = g.at /\ f.kind = g.kind /\ f.cycle = g.cycle
                                       /\ f.basis = g.basis
                                       /\ f.status = g.status \/ (f.status = e.was /\ g = e)
          /\ \A g \in S : \E f \in T : f.at = g.at
          /\ e.was \in Statuses
      BY <2>1, <3>1, <1>4, UndoneRow, ZenonT(30)
    <3>3. e.basis \in Basis /\ <<u, e.was, e.basis>> \in revived'
      BY <1>4, <2>1 DEF Event
    <3>4. \A f \in T : \E g \in S : /\ f.at = g.at /\ f.kind = g.kind /\ f.cycle = g.cycle /\ f.basis = g.basis
                                    /\ f.status = g.status \/ <<u, f.status, f.basis>> \in revived'
      BY <3>2, <3>3
    <3>5. revived \subseteq revived' /\ revived' \subseteq Cards \X Statuses \X Basis
      BY <2>0, <2>1, <3>2, <3>3, <1>4
    <3> QED
      BY <2>1, <3>2, <3>4, <3>5, <1>1
  <2>2. CASE /\ timeline' = [timeline EXCEPT ![u] = Unreferenced(@ \ {e}, e.at)]
             /\ proof' = Released(u, e.at)
             /\ UNCHANGED revived
    <3>1. T = Unreferenced(S \ {e}, e.at)
      BY <2>2, <1>1, <1>4
    <3> HIDE DEF T, S
    <3>2. /\ T \in SUBSET Event /\ Apart(T)
          /\ \A f \in T : \E g \in S : /\ f.at = g.at /\ f.kind = g.kind /\ f.cycle = g.cycle
                                       /\ f.basis = g.basis /\ f.status = g.status
          /\ \A g \in S : g.at # e.at => \E f \in T : f.at = g.at
          /\ \A f \in T : f.at # e.at
      <4>1. LeavesOut(Unreferenced(S \ {e}, e.at), S, e)
        BY <1>4, DeletedRow
      <4> QED
        BY <3>1, <4>1 DEF LeavesOut
    <3>3. ASSUME NEW q \in Proofs
          PROVE  /\ proof'[q] \in Proof /\ proof'[q].card = proof[q].card
                 /\ \/ /\ proof'[q].at = proof[q].at
                       /\ proof[q].card = u => \A g \in S : g.at = proof[q].at => \E f \in T : f.at = g.at
                    \/ /\ proof[q].card = u /\ proof'[q].at = 0
                       /\ \A f \in T : f.at # proof[q].at
      <4>1. proof[q] \in Proof
        BY <1>1
      <4>2. CASE proof[q].card = u /\ proof[q].at = e.at
        <5>1. proof'[q] = [proof[q] EXCEPT !.at = 0]
          BY <2>2, <4>2 DEF Released
        <5>2. proof'[q] \in Proof /\ proof'[q].card = proof[q].card /\ proof'[q].at = 0
          BY <4>1, <5>1, <1>1 DEF Proof
        <5> QED
          BY <4>2, <5>2, <3>2
      <4>3. CASE ~(proof[q].card = u /\ proof[q].at = e.at)
        <5>1. proof'[q] = proof[q]
          BY <2>2, <4>3 DEF Released
        <5> QED
          BY <4>1, <4>3, <5>1, <3>2
      <4> QED
        BY <4>2, <4>3
    <3>4. proof' = [q \in Proofs |-> proof'[q]]
      BY <2>2 DEF Released
    <3> QED
      BY <2>0, <2>2, <3>2, <3>3, <3>4
  <2> QED
    BY <2>1, <2>2, <1>3
<1> HIDE DEF T, S
<1>7. Derived(T) \in Cached /\ cache' = [cache EXCEPT ![u] = Derived(T)]
  BY <1>3, <1>6, DerivedTyped DEF T
<1>8. timeline' \in [Cards -> SUBSET Event] /\ RowsOK'
  <2>1. \A w \in Cards : timeline'[w] \in SUBSET Event /\ Apart(timeline'[w])
    BY <1>1, <1>5, <1>6 DEF IInv, RowsOK, T
  <2>2. timeline' = [w \in Cards |-> timeline'[w]]
    BY <1>1, <1>3
  <2> QED
    BY <2>1, <2>2 DEF RowsOK
<1>9. proof' \in [Proofs -> Proof] /\ cache' \in [Cards -> Cached] /\ overtaken' \subseteq Cards
  BY <1>1, <1>3, <1>6, <1>7
<1>10. CacheFollowsTimeline'
  <2> SUFFICES ASSUME NEW w \in Cards, w \notin overtaken' PROVE cache'[w] = Derived(timeline'[w])
    BY DEF CacheFollowsTimeline
  <2>1. CASE w = u
    BY <2>1, <1>1, <1>7 DEF T
  <2>2. CASE w # u
    BY <2>2, <1>1, <1>3, <1>5, <1>7 DEF IInv, CacheFollowsTimeline
  <2> QED
    BY <2>1, <2>2
<1>11. ASSUME NEW w \in Cards, NEW f \in timeline'[w]
       PROVE  \E g \in timeline[w] :
                 /\ f.at = g.at /\ f.kind = g.kind /\ f.cycle = g.cycle /\ f.basis = g.basis
                 /\ f.status = g.status \/ <<w, f.status, f.basis>> \in revived'
  <2>1. CASE w = u
    BY <2>1, <1>6 DEF T, S
  <2>2. CASE w # u
    BY <2>2, <1>5
  <2> QED
    BY <2>1, <2>2
<1>12. VerdictsWereGiven'
  <2> SUFFICES ASSUME NEW w \in Cards, NEW f \in timeline'[w], f.kind = "status"
               PROVE  <<w, f.status, f.basis>> \in given' \cup revived'
    BY DEF VerdictsWereGiven, OfKind
  <2>1. PICK g \in timeline[w] :
           /\ f.kind = g.kind /\ f.basis = g.basis
           /\ f.status = g.status \/ <<w, f.status, f.basis>> \in revived'
    BY <1>11
  <2>2. g \in OfKind(timeline[w], "status")
    BY <2>1 DEF OfKind
  <2>3. <<w, g.status, g.basis>> \in given \cup revived
    BY <2>2 DEF IInv, VerdictsWereGiven
  <2> QED
    BY <2>1, <2>3, <1>2, <1>6
<1>13. CycleTestsItsVersion'
  <2> SUFFICES ASSUME NEW w \in Cards, NEW f \in timeline'[w], f.cycle # None
               PROVE  f.basis = versions[cycle[f.cycle].version][w]
    BY <1>2 DEF CycleTestsItsVersion, VersionBasis
  <2>1. PICK g \in timeline[w] : f.cycle = g.cycle /\ f.basis = g.basis
    BY <1>11
  <2> QED
    BY <2>1 DEF IInv, CycleTestsItsVersion, VersionBasis
<1>14. PinsOK'
  <2>1. \A w \in Cards : \A f \in timeline'[w] : f.cycle # None => cycle[f.cycle].state \in {"open", "closed"}
    BY <1>11, ZenonT(30) DEF IInv, PinsOK
  <2> QED
    BY <2>1, <1>2 DEF IInv, PinsOK
<1>15. EvidenceHasResult'
  <2> SUFFICES ASSUME NEW q \in Proofs, proof'[q].card # None, proof'[q].at # 0
               PROVE  \E f \in timeline'[proof'[q].card] : f.at = proof'[q].at
    BY DEF EvidenceHasResult
  <2>1. PICK w \in Cards : w = proof[q].card /\ w = proof'[q].card
    BY <1>1, <1>6 DEF Proof
  <2>2. proof'[q].at = proof[q].at
    BY <1>6
  <2>3. PICK g \in timeline[w] : g.at = proof[q].at
    BY <2>1, <2>2 DEF IInv, EvidenceHasResult
  <2>4. CASE w = u
    <3>1. \A h \in S : h.at = proof[q].at => \E f \in T : f.at = h.at
      BY <2>1, <2>4, <1>6
    <3>2. g \in S
      BY <2>4 DEF S
    <3>3. PICK f \in T : f.at = g.at
      BY <2>3, <3>1, <3>2
    <3> QED
      BY <2>1, <2>2, <2>3, <2>4, <3>3 DEF T
  <2>5. CASE w # u
    BY <2>1, <2>2, <2>3, <2>5, <1>5
  <2> QED
    BY <2>4, <2>5
<1>16. req' \in [Testers -> Request] /\ RequestsOK' /\ StampsOK' /\ DropsOK'
  <2>1. \A w \in Cards : \A t \in Times(w)' : t \in Times(w)
    <3> SUFFICES ASSUME NEW w \in Cards, NEW f \in timeline'[w]
                 PROVE  f.at \in Times(w)
      BY DEF Times
    <3> QED
      BY <1>11 DEF Times
  <2>2. ASSUME NEW q \in Proofs
        PROVE  /\ proof'[q].card = proof[q].card
               /\ \/ proof'[q].at = proof[q].at
                  \/ proof[q].card \in Cards /\ proof[q].at \notin Times(proof[q].card)'
    <3>1. CASE proof'[q].at = proof[q].at
      BY <3>1, <1>6
    <3>2. CASE proof'[q].at # proof[q].at
      <4>1. proof[q].card = u /\ proof'[q].card = u /\ \A f \in timeline'[u] : f.at # proof[q].at
        BY <3>2, <1>6 DEF T
      <4> QED
        BY <4>1, <1>4 DEF Times
    <3> QED
      BY <3>1, <3>2
  <2>3. given \cup revived \subseteq given' \cup revived'
    BY <1>2, <1>6
  <2> QED
    BY <2>1, <2>2, <2>3, <1>2, CommitRows
<1>17. TypeOK'
  BY <1>1, <1>2, <1>6, <1>8, <1>9, <1>16 DEF TypeOK
<1> QED
  BY <1>8, <1>10, <1>12, <1>13, <1>14, <1>15, <1>16, <1>17 DEF IInv

\* create_cycle: the rows it carries are passes given on what its version says
LEMMA CommitPlanStep ==
    ASSUME IInv, NEW p \in Testers, NEW k \in Cycles, CommitPlan(p, k)
    PROVE  IInv'
<1> DEFINE r == req[p]
           carried == {u \in Cards : r.carry[u] # 0}
           c == [state |-> "open", version |-> r.version, members |-> r.plan]
           Row(u) == CarriedEvent(p, u, k)
<1>1. /\ TypeOK /\ r \in Request /\ timeline \in [Cards -> SUBSET Event] /\ cache \in [Cards -> Cached]
      /\ cycle \in [Cycles -> Cycle] /\ overtaken \subseteq Cards /\ clock \in 0 .. TxBound /\ TxBound \in Nat
      /\ RequestOK(r, versions, draft, clock, given \cup revived) /\ k # None
      /\ given \cup revived \subseteq Cards \X Statuses \X Basis /\ Len(versions) \in Nat
  <2>1. TypeOK /\ RequestOK(r, versions, draft, clock, given \cup revived) /\ r \in Request
    BY DEF IInv, RequestsOK, RequestOK
  <2>2. k # None
    BY NoneAssumption
  <2>3. given \cup revived \subseteq Cards \X Statuses \X Basis /\ Len(versions) \in Nat
    BY <2>1 DEF TypeOK
  <2> QED
    BY <2>1, <2>2, <2>3, BoundAssumption DEF TypeOK
<1>2. r.op = "plan" /\ r.version # 0 /\ r.op \in Stamped
  BY DEF CommitPlan, Stamped
<1>3. UNCHANGED <<draft, versions, proof, clock, changes, given, revived>>
  BY DEF CommitPlan, world
<1>4. r.version \in 1 .. Len(versions) /\ r.version \in 0 .. VersionBound /\ r.plan \in SUBSET Cards
  BY <1>1, <1>2, BoundAssumption DEF RequestOK, Request
<1>5. r.at \in 1 .. TxBound /\ r.at \in Ats
  BY <1>1, <1>2 DEF RequestOK, Ats
<1>6. ASSUME NEW u \in carried
      PROVE  /\ u \in Cards /\ Row(u) \in Event /\ Row(u).at = r.at /\ Row(u).cycle = k
             /\ Row(u).basis = versions[r.version][u] /\ Row(u).status = "passed"
             /\ <<u, "passed", versions[r.version][u]>> \in given \cup revived
  <2>1. <<u, "passed", versions[r.version][u]>> \in given \cup revived
    BY <1>1 DEF RequestOK, CarryOK
  <2>2. versions[r.version][u] \in Basis /\ r.carry[u] \in 0 .. TxBound
    BY <2>1, <1>1 DEF Request
  <2>3. Row(u) \in Event
    BY <2>2, <1>1, <1>5, StatusAssumption DEF CarriedEvent, Event, Kinds
  <2> QED
    BY <2>1, <2>3 DEF CarriedEvent
<1>7. \A u \in Cards : timeline'[u] = IF u \in carried THEN timeline[u] \cup {Row(u)} ELSE timeline[u]
  BY DEF CommitPlan
<1>8. cycle' = [cycle EXCEPT ![k] = c] /\ cycle[k].state = "none"
  BY DEF CommitPlan
<1>9. /\ \A u \in Cards : cache'[u] = IF u \notin r.held THEN cache[u]
                                      ELSE IF r.old[u] # None THEN r.old[u] ELSE Derived(timeline'[u])
      /\ cache' = [u \in Cards |-> cache'[u]] /\ timeline' = [u \in Cards |-> timeline'[u]]
      /\ overtaken' = (overtaken \ r.held) \cup {u \in carried : u \notin r.held \/ r.old[u] # None}
  BY DEF CommitPlan
<1>10. carried \subseteq Cards /\ \A u \in Cards : u \in r.held => u \in carried
  BY <1>1, <1>2 DEF RequestOK, CarryOK
<1> HIDE DEF Row, carried
<1>11. ASSUME NEW u \in Cards
       PROVE  timeline'[u] \in SUBSET Event /\ Apart(timeline'[u])
  <2>1. timeline[u] \in SUBSET Event /\ Apart(timeline[u])
    BY <1>1 DEF IInv, RowsOK
  <2>2. CASE u \in carried
    <3>1. \A e \in timeline[u] : e.at # r.at
      BY <1>5 DEF IInv, StampsOK, Times
    <3>2. timeline'[u] = timeline[u] \cup {Row(u)} /\ Row(u) \in Event /\ Row(u).at = r.at
      BY <2>2, <1>6, <1>7
    <3> QED
      BY <2>1, <3>1, <3>2 DEF Apart
  <2>3. CASE u \notin carried
    BY <2>1, <2>3, <1>7
  <2> QED
    BY <2>2, <2>3
<1>12. timeline' \in [Cards -> SUBSET Event] /\ RowsOK'
  BY <1>9, <1>11 DEF RowsOK
<1>13. ASSUME NEW u \in Cards
       PROVE  cache'[u] \in Cached
  <2>1. Derived(timeline'[u]) \in Cached
    BY <1>11, DerivedTyped
  <2>2. cache[u] \in Cached /\ r.old[u] \in Cached \cup {None}
    BY <1>1 DEF Request
  <2> QED
    BY <2>1, <2>2, <1>9
<1>14. cache' \in [Cards -> Cached] /\ overtaken' \subseteq Cards
  BY <1>1, <1>9, <1>10, <1>13
<1>15. CacheFollowsTimeline'
  <2> SUFFICES ASSUME NEW u \in Cards, u \notin overtaken' PROVE cache'[u] = Derived(timeline'[u])
    BY DEF CacheFollowsTimeline
  <2>1. CASE u \in r.held
    BY <2>1, <1>9, <1>10
  <2>2. CASE u \notin r.held
    <3>1. u \notin carried /\ u \notin overtaken
      BY <2>2, <1>9
    <3>2. timeline'[u] = timeline[u] /\ cache'[u] = cache[u]
      BY <2>2, <3>1, <1>7, <1>9
    <3> QED
      BY <3>1, <3>2 DEF IInv, CacheFollowsTimeline
  <2> QED
    BY <2>1, <2>2
<1>16. c \in Cycle /\ c.state = "open" /\ c.version = r.version
  BY <1>4 DEF Cycle
<1> HIDE DEF c
<1>17. cycle' \in [Cycles -> Cycle] /\ \A j \in Cycles : cycle'[j] = IF j = k THEN c ELSE cycle[j]
  BY <1>1, <1>8, <1>16
<1>18. ASSUME NEW u \in Cards, NEW f \in timeline'[u]
       PROVE  f \in timeline[u] \/ (u \in carried /\ f = Row(u))
  BY <1>7
<1>19. VerdictsWereGiven'
  <2> SUFFICES ASSUME NEW u \in Cards, NEW f \in timeline'[u], f.kind = "status"
               PROVE  <<u, f.status, f.basis>> \in given \cup revived
    BY <1>3 DEF VerdictsWereGiven, OfKind
  <2>1. CASE f \in timeline[u]
    <3>1. f \in OfKind(timeline[u], "status")
      BY <2>1 DEF OfKind
    <3> QED
      BY <3>1 DEF IInv, VerdictsWereGiven
  <2>2. CASE u \in carried /\ f = Row(u)
    BY <2>2, <1>6
  <2> QED
    BY <2>1, <2>2, <1>18
<1>20. CycleTestsItsVersion' /\ PinsOK'
  <2>1. ASSUME NEW u \in Cards, NEW f \in timeline'[u], f.cycle # None
        PROVE  /\ cycle'[f.cycle].state \in {"open", "closed"}
               /\ f.basis = versions[cycle'[f.cycle].version][u]
    <3>1. CASE f \in timeline[u]
      <4>1. f.cycle \in Cycles
        BY <3>1, <2>1, <1>1 DEF Event
      <4>2. cycle[f.cycle].state \in {"open", "closed"} /\ f.basis = versions[cycle[f.cycle].version][u]
        BY <3>1, <2>1 DEF IInv, PinsOK, CycleTestsItsVersion, VersionBasis
      <4>3. cycle'[f.cycle] = cycle[f.cycle]
        BY <4>1, <4>2, <1>8, <1>17
      <4> QED
        BY <4>2, <4>3
    <3>2. CASE u \in carried /\ f = Row(u)
      BY <3>2, <1>6, <1>16, <1>17
    <3> QED
      BY <3>1, <3>2, <1>18
  <2>2. CycleTestsItsVersion'
    BY <2>1, <1>3 DEF CycleTestsItsVersion, VersionBasis
  <2>3. \A j \in Cycles : cycle'[j].state \in {"open", "closed"} => cycle'[j].version \in 1 .. Len(versions)
    BY <1>4, <1>16, <1>17 DEF IInv, PinsOK
  <2>4. PinsOK'
    BY <2>1, <2>3, <1>3 DEF PinsOK
  <2> QED
    BY <2>2, <2>4
<1>21. EvidenceHasResult'
  <2> SUFFICES ASSUME NEW q \in Proofs, proof[q].card # None, proof[q].at # 0
               PROVE  \E e \in timeline'[proof[q].card] : e.at = proof[q].at
    BY <1>3 DEF EvidenceHasResult
  <2>1. proof[q].card \in Cards
    BY <1>1 DEF TypeOK, Proof
  <2>2. PICK e \in timeline[proof[q].card] : e.at = proof[q].at
    BY DEF IInv, EvidenceHasResult
  <2> QED
    BY <2>1, <2>2, <1>7
<1>22. req' \in [Testers -> Request] /\ RequestsOK' /\ StampsOK' /\ DropsOK'
  <2>1. req' = [req EXCEPT ![p] = Idle]
    BY DEF CommitPlan
  <2>2. \A u \in Cards : \A t \in Times(u)' : t \in Times(u) \/ (r.op \in Stamped /\ t = r.at)
    <3> SUFFICES ASSUME NEW u \in Cards, NEW f \in timeline'[u]
                 PROVE  f.at \in Times(u) \/ f.at = r.at
      BY <1>2 DEF Times
    <3> QED
      BY <1>6, <1>18 DEF Times
  <2> QED
    BY <2>1, <2>2, <1>3, CommitRows
<1>23. TypeOK'
  BY <1>1, <1>3, <1>12, <1>14, <1>17, <1>22 DEF TypeOK
<1> QED
  BY <1>12, <1>15, <1>19, <1>20, <1>21, <1>22, <1>23 DEF IInv

-----------------------------------------------------------------------------
(* The theorems.                                                             *)

LEMMA Initial == Init => IInv
<1> SUFFICES ASSUME Init PROVE IInv
  OBVIOUS
<1>1. 0 \in 0 .. TxBound /\ 0 \in 0 .. ChangeBound /\ 0 \in 0 .. VersionBound /\ Len(versions) = 0
  BY BoundAssumption DEF Init
<1>2. \A u \in Cards : timeline[u] = {}
  BY DEF Init
<1>3. \A p \in Testers : req[p] = Idle
  BY DEF Init
<1>4. Len(versions) \in Nat
  BY <1>1
<1>5. RequestOK(Idle, versions, draft, clock, given \cup revived) /\ Idle.op = "idle"
  BY <1>4, IdleOK
<1>6. Derived({}) \in Cached
  BY DerivedTyped
<1>7. \A u \in Cards : cache[u] = Derived({})
  <2>1. OfKind({}, "status") = {} /\ OfKind({}, "scope") = {}
    BY DEF OfKind
  <2>2. Derived({}) = [status |-> "not_tested", hash |-> None, scope |-> TRUE]
    BY <2>1, Zenon DEF Derived
  <2> QED
    BY <2>2, Zenon DEF Init
<1>8. TypeOK
  <2>1. versions \in Seq([Cards -> Basis \cup {None}]) /\ Len(versions) <= VersionBound
    BY <1>1, BoundAssumption DEF Init
  <2>2. cycle \in [Cycles -> Cycle]
    BY <1>1 DEF Init, Cycle
  <2>3. proof \in [Proofs -> Proof]
    BY <1>1 DEF Init, Proof
  <2>4. cache \in [Cards -> Cached]
    <3>1. cache = [u \in Cards |-> cache[u]]
      BY DEF Init
    <3> QED
      BY <3>1, <1>6, <1>7
  <2>5. req \in [Testers -> Request]
    BY <1>5 DEF Init, RequestOK
  <2> QED
    BY <2>1, <2>2, <2>3, <2>4, <2>5, <1>1 DEF Init, TypeOK
<1>9. RequestsOK
  BY <1>3, <1>5 DEF RequestsOK
<1>10. StampsOK /\ RowsOK
  BY <1>2, <1>3, <1>5 DEF StampsOK, RowsOK, Apart, Times, Stamped
<1>11. DropsOK
  BY <1>3, <1>5 DEF DropsOK, DropOK
<1>12. PinsOK
  BY <1>2 DEF Init, PinsOK
<1>13. CacheFollowsTimeline
  BY <1>2, <1>7 DEF CacheFollowsTimeline
<1>14. VerdictsWereGiven /\ CycleTestsItsVersion /\ EvidenceHasResult
  <2>1. VerdictsWereGiven
    BY <1>2 DEF VerdictsWereGiven, OfKind
  <2>2. CycleTestsItsVersion
    BY <1>2 DEF CycleTestsItsVersion
  <2>3. EvidenceHasResult
    BY DEF Init, EvidenceHasResult
  <2> QED
    BY <2>1, <2>2, <2>3
<1> QED
  BY <1>8, <1>9, <1>10, <1>11, <1>12, <1>13, <1>14 DEF IInv

LEMMA Stutter ==
    ASSUME IInv, UNCHANGED vars
    PROVE  IInv'
<1>1. UNCHANGED <<draft, versions, cycle, timeline, proof, cache, clock, changes, req, given, revived, overtaken>>
  BY DEF vars, world, ghosts
<1>2. \A u \in Cards : Times(u)' = Times(u)
  BY <1>1 DEF Times
<1>3. StampsOK' /\ DropsOK'
  BY <1>1, <1>2, TimesKept, DropsKept
<1>4. RequestsOK'
  BY <1>1, SameRequests DEF IInv, RequestsOK, RequestOK
<1>5. TypeOK' /\ RowsOK' /\ PinsOK'
  BY <1>1 DEF IInv, TypeOK, RowsOK, PinsOK
<1>6. CacheFollowsTimeline' /\ VerdictsWereGiven' /\ CycleTestsItsVersion' /\ EvidenceHasResult'
  BY <1>1 DEF IInv, CacheFollowsTimeline, VerdictsWereGiven, CycleTestsItsVersion,
              EvidenceHasResult, VersionBasis
<1> QED
  BY <1>3, <1>4, <1>5, <1>6 DEF IInv

\* Every step of a tester, of the pages or of the clock keeps the invariant.
THEOREM Invariance == Spec => []IInv
<1>1. IInv /\ [Next]_vars => IInv'
  <2> SUFFICES ASSUME IInv, [Next]_vars PROVE IInv'
    OBVIOUS
  <2>1. ASSUME NEW p \in Testers,
               \/ \E u \in Cards, s \in Statuses, k \in Known : BeginVerdict(p, u, s, k)
               \/ \E S \in (SUBSET Cards) \ {{}}, s \in Statuses, k \in Known : BeginBulk(p, S, s, k)
               \/ \E u \in Cards, k \in Known : BeginNote(p, u, k)
               \/ \E u \in Cards : BeginScope(p, u)
               \/ BeginPlan(p)
        PROVE  IInv'
    BY <2>1, BeginsStep
  <2>2. ASSUME NEW p \in Testers,
               \/ \E u \in Cards : \E e \in timeline[u] : BeginUndo(p, u, e)
               \/ \E q \in Proofs : BeginDrop(p, q)
        PROVE  IInv'
    BY <2>2, BeginUndoStep, BeginDropStep
  <2>3. ASSUME NEW p \in Testers,
               \/ \E u \in Cards : Lock(p, u) \/ SkipMissing(p, u)
               \/ Abort(p)
        PROVE  IInv'
    BY <2>3, LockStep, SkipMissingStep, AbortStep
  <2>4. ASSUME NEW p \in Testers, CommitEvents(p) \/ CommitUndo(p) \/ CommitDrop(p)
        PROVE  IInv'
    BY <2>4, CommitEventsStep, CommitUndoStep, CommitDropStep
  <2>5. ASSUME NEW p \in Testers,
               \/ \E source \in Sources, prior \in Known, carry \in BOOLEAN : Plan(p, source, prior, carry)
               \/ \E u \in Cards : Decide(p, u)
               \/ \E k \in Cycles : CommitPlan(p, k)
        PROVE  IInv'
    BY <2>5, PlanStep, DecideStep, CommitPlanStep
  <2>6. ASSUME NEW p \in Testers, CarryLock(p) \/ CarryWait(p) \/ CarryResume(p)
        PROVE  IInv'
    BY <2>6, CarryLockStep, CarryWaitStep, CarryResumeStep
  <2>7. ASSUME NEW k \in Cycles,
               \/ \E s \in {"open", "closed"} : SetCycleStatus(k, s)
               \/ DeleteCycle(k)
               \/ \E u \in Cards : AddMember(k, u) \/ RemoveMember(k, u)
        PROVE  IInv'
    BY <2>7, CyclesStep, DeleteCycleStep
  <2>8. ASSUME NEW u \in Cards,
               \/ \E e \in timeline[u] : WindowEnds(u, e)
               \/ \E q \in Proofs : StageProof(q, u)
               \/ \E b \in Basis : ChangeDraft(u, b) \/ RestoreCase(u, b)
               \/ DeleteCase(u)
        PROVE  IInv'
    BY <2>8, WindowEndsStep, StageProofStep, DraftsStep
  <2>9. CASE Publish
    BY <2>9, PublishStep
  <2>10. CASE UNCHANGED vars
    BY <2>10, Stutter
  <2> QED
    BY <2>1, <2>2, <2>3, <2>4, <2>5, <2>6, <2>7, <2>8, <2>9, <2>10, Zenon DEF Next
<1> QED
  BY <1>1, Initial, PTL DEF Spec

\* Rows and requests keep their types, whatever the testers do at once.
THEOREM TypeCorrect == Spec => []TypeOK
BY Invariance, PTL DEF IInv

\* The cache of a case says what its timeline says (resync_card, testing.py), except for a case
\* whose cache was last written by a create_cycle that had to wait for its row.
THEOREM CacheFollows == Spec => []CacheFollowsTimeline
BY Invariance, PTL DEF IInv

\* No verdict is invented: what stands on a timeline was given on that definition by a tester
\* (record, record_bulk), or an undo brought it back; _carry_passes copies such a verdict, and
\* amending, restoring a case and deleting a cycle add none.
THEOREM VerdictsGiven == Spec => []VerdictsWereGiven
BY Invariance, PTL DEF IInv

\* What is recorded in a cycle pins the definition of the cycle's version (_pin), however the
\* draft moves on while the request waits for its locks.
THEOREM CycleTests == Spec => []CycleTestsItsVersion
BY Invariance, PTL DEF IInv

\* Bound evidence always has its event: an undo releases the evidence of the event it deletes, and
\* a commit claims staged evidence for the event it wrote.
THEOREM EvidenceBound == Spec => []EvidenceHasResult
BY Invariance, PTL DEF IInv

\* one step of EvidenceLocked
LEMMA LockedStep ==
    ASSUME IInv, [Next]_vars, NEW q \in Proofs, proof[q].card # None, proof[q].at # 0,
           proof'[q] # proof[q], Newest(timeline[proof[q].card]).at # proof[q].at
    PROVE  \E p \in Testers : req[p].op = "drop" /\ req[p].proof = q /\ req[p].item = 0
<1>1. proof \in [Proofs -> Proof] /\ timeline \in [Cards -> SUBSET Event]
  BY DEF IInv, TypeOK
<1>2. CASE proof' = proof
  BY <1>2
<1>3. ASSUME NEW p \in Testers, CommitEvents(p)
      PROVE  FALSE
  BY <1>3 DEF CommitEvents, Claimed
<1>4. ASSUME NEW p \in Testers, CommitUndo(p)
      PROVE  FALSE
  <2>1. PICK u \in req[p].held :
           \E e \in timeline[u] : e = Newest(timeline[u]) /\ (proof' = proof \/ proof' = Released(u, e.at))
    BY <1>4 DEF CommitUndo
  <2>2. PICK e \in timeline[u] : e = Newest(timeline[u]) /\ (proof' = proof \/ proof' = Released(u, e.at))
    BY <2>1
  <2>3. proof'[q] = IF proof[q].card = u /\ proof[q].at = e.at
                    THEN [proof[q] EXCEPT !.at = 0] ELSE proof[q]
    BY <2>2 DEF Released
  <2> QED
    BY <2>2, <2>3
<1>5. ASSUME NEW w \in Proofs, NEW u \in Cards, StageProof(w, u)
      PROVE  FALSE
  BY <1>1, <1>5 DEF StageProof
<1>6. ASSUME NEW p \in Testers, CommitDrop(p)
      PROVE  req[p].op = "drop" /\ req[p].proof = q /\ req[p].item = 0
  <2>1. req[p].op = "drop" /\ req[p].proof = q
    BY <1>1, <1>6 DEF CommitDrop
  <2>2. ASSUME req[p].item # 0
        PROVE  FALSE
    <3>1. PICK u \in Cards : proof[q].card = u /\ timeline[u] # {} /\ Newest(timeline[u]).at = req[p].item
      BY <1>6, <2>1, <2>2 DEF CommitDrop
    <3>2. Newest(timeline[u]) \in timeline[u]
      BY <1>1, <3>1, NewestOK
    <3>3. req[p].item \in Times(u)
      BY <3>1, <3>2 DEF Times
    <3>4. proof[q].at = req[p].item
      BY <2>1, <2>2, <3>1, <3>3 DEF IInv, DropsOK, DropOK
    <3> QED
      BY <3>1, <3>4
  <2> QED
    BY <2>1, <2>2
<1>7. \/ proof' = proof
      \/ \E p \in Testers : CommitEvents(p) \/ CommitUndo(p) \/ CommitDrop(p)
      \/ \E w \in Proofs, u \in Cards : StageProof(w, u)
  <2> SUFFICES ASSUME proof' # proof
               PROVE  \/ \E p \in Testers : CommitEvents(p) \/ CommitUndo(p) \/ CommitDrop(p)
                      \/ \E w \in Proofs, u \in Cards : StageProof(w, u)
    OBVIOUS
  <2>1. /\ \A p, r : ~Begin(p, r) /\ ~BeginUnstamped(p, r)
        /\ ~UNCHANGED vars /\ ~Publish
    BY DEF Begin, BeginUnstamped, vars, Publish
  <2>2. ASSUME NEW p
        PROVE  /\ \A u, s, k : ~BeginVerdict(p, u, s, k) /\ ~BeginBulk(p, u, s, k)
               /\ \A u, k : ~BeginNote(p, u, k) /\ ~BeginScope(p, u) /\ ~BeginPlan(p)
               /\ \A u, e : ~BeginUndo(p, u, e) /\ ~BeginDrop(p, u)
    BY <2>1 DEF BeginVerdict, BeginBulk, BeginNote, BeginScope, BeginPlan, BeginUndo, BeginDrop
  <2>3. ASSUME NEW p
        PROVE  /\ \A u : ~Lock(p, u) /\ ~SkipMissing(p, u) /\ ~Decide(p, u)
               /\ ~Abort(p) /\ ~CarryLock(p) /\ ~CarryWait(p) /\ ~CarryResume(p)
               /\ \A source, prior, carry : ~Plan(p, source, prior, carry)
               /\ \A k : ~CommitPlan(p, k)
    BY DEF Lock, SkipMissing, Abort, Plan, Decide, CarryLock, CarryWait, CarryResume, CommitPlan
  <2>4. /\ \A k, u : ~SetCycleStatus(k, u) /\ ~DeleteCycle(k) /\ ~AddMember(k, u) /\ ~RemoveMember(k, u)
        /\ \A u, b : ~WindowEnds(u, b) /\ ~ChangeDraft(u, b) /\ ~RestoreCase(u, b) /\ ~DeleteCase(u)
    BY DEF SetCycleStatus, DeleteCycle, AddMember, RemoveMember, WindowEnds, ChangeDraft, RestoreCase,
           DeleteCase
  <2> QED
    BY <2>1, <2>2, <2>3, <2>4, Zenon DEF Next
<1> QED
  BY <1>2, <1>3, <1>4, <1>5, <1>6, <1>7

\* Evidence of an event that is not the newest of its case stays as it is (delete_proof and undo
\* compare with the newest event under the lock), unless the delete read it while it was staged.
THEOREM EvidenceStays == Spec => EvidenceLocked
<1>1. IInv /\ [Next]_vars =>
        [\A q \in Proofs : LET u == proof[q].card
                               at == proof[q].at
           IN  (/\ u # None /\ at # 0 /\ proof'[q] # proof[q]
                /\ Newest(timeline[u]).at # at)
               => \E p \in Testers : req[p].op = "drop" /\ req[p].proof = q /\ req[p].item = 0]_vars
  BY LockedStep
<1> QED
  BY <1>1, Invariance, PTL DEF Spec, EvidenceLocked

-----------------------------------------------------------------------------
(* The two reports of a cycle.                                               *)

\* what a cycle plans, or a request is about to, is in the version it is pinned to
MembersOK == \A k \in Cycles : Exists(k) => \A u \in cycle[k].members : VersionBasis(k, u) # None
PlansOK ==
    \A p \in Testers : req[p].op = "plan" /\ req[p].version # 0
        => \A u \in req[p].plan : versions[req[p].version][u] # None
MembersHeld == MembersOK /\ PlansOK

\* a request after a step has no plan, or the one it had
SamePlan(old, new) ==
    \/ new.op # "plan" \/ new.version = 0
    \/ new.op = old.op /\ new.version = old.version /\ new.plan = old.plan

LEMMA PlansKept ==
    ASSUME IInv, PlansOK, \A v \in 1 .. Len(versions) : versions'[v] = versions[v],
           \A p \in Testers : SamePlan(req[p], req'[p])
    PROVE  PlansOK'
<1> SUFFICES ASSUME NEW p \in Testers, req'[p].op = "plan", req'[p].version # 0, NEW u \in req'[p].plan
             PROVE  versions'[req'[p].version][u] # None
  BY DEF PlansOK
<1>1. req[p].op = "plan" /\ req[p].version = req'[p].version /\ req[p].plan = req'[p].plan
  BY DEF SamePlan
<1>2. req[p].version \in 1 .. Len(versions)
  <2>1. RequestOK(req[p], versions, draft, clock, given \cup revived)
    BY DEF IInv, RequestsOK
  <2>2. req[p].version \in Nat /\ req[p].version # 0 /\ req[p].version <= Len(versions)
    BY <1>1, <2>1 DEF RequestOK, Request
  <2>3. Len(versions) \in Nat
    BY DEF IInv, TypeOK
  <2> QED
    BY <2>2, <2>3
<1>3. versions[req[p].version][u] # None
  BY <1>1 DEF PlansOK
<1> QED
  BY <1>1, <1>2, <1>3

\* requests that begin, go on or end, but for the planning of a cycle
LEMMA PlansSame ==
    ASSUME IInv, NEW p \in Testers,
           \/ \E u \in Cards, s \in Statuses, k \in Known : BeginVerdict(p, u, s, k)
           \/ \E S \in (SUBSET Cards) \ {{}}, s \in Statuses, k \in Known : BeginBulk(p, S, s, k)
           \/ \E u \in Cards, k \in Known : BeginNote(p, u, k)
           \/ \E u \in Cards : BeginScope(p, u)
           \/ \E u \in Cards : \E e \in timeline[u] : BeginUndo(p, u, e)
           \/ \E u \in Cards : Lock(p, u) \/ SkipMissing(p, u) \/ Decide(p, u)
           \/ Abort(p) \/ CommitEvents(p) \/ CommitUndo(p)
           \/ \E q \in Proofs : BeginDrop(p, q)
           \/ CommitDrop(p) \/ BeginPlan(p) \/ CarryLock(p) \/ CarryWait(p) \/ CarryResume(p)
           \/ \E k \in Cycles : CommitPlan(p, k)
    PROVE  \A q \in Testers : SamePlan(req[q], req'[q])
<1>1. req \in [Testers -> Request]
  BY DEF IInv, TypeOK
<1>2. Idle.op = "idle" /\ Idle.version = 0 /\ Idle.plan = {}
  BY DEF Idle
<1>3. ASSUME NEW r, req' = [req EXCEPT ![p] = r], r.op # "plan" \/ r.version = 0
      PROVE  \A q \in Testers : SamePlan(req[q], req'[q])
  BY <1>1, <1>3 DEF SamePlan
<1>4. ASSUME NEW r, req' = [req EXCEPT ![p] = r], r.op = req[p].op, r.version = req[p].version, r.plan = req[p].plan
      PROVE  \A q \in Testers : SamePlan(req[q], req'[q])
  BY <1>1, <1>4 DEF SamePlan
<1>5. CASE Abort(p) \/ CommitEvents(p) \/ CommitUndo(p) \/ CommitDrop(p) \/ \E k \in Cycles : CommitPlan(p, k)
  <2>1. req' = [req EXCEPT ![p] = Idle]
    BY <1>5 DEF Abort, CommitEvents, CommitUndo, CommitDrop, CommitPlan
  <2> QED
    BY <1>2, <1>3, <2>1
<1>6. ASSUME NEW r, Begin(p, r), r.version = 0, DOMAIN r = DOMAIN Idle
      PROVE  \A q \in Testers : SamePlan(req[q], req'[q])
  <2>1. PICK a : a = [r EXCEPT !.at = clock + 1]
    OBVIOUS
  <2>2. a.version = r.version
    BY <2>1
  <2>3. req' = [req EXCEPT ![p] = a]
    BY <1>6, <2>1 DEF Begin
  <2> QED
    BY <1>3, <1>6, <2>2, <2>3
<1>7. ASSUME NEW r, BeginUnstamped(p, r), r.version = 0
      PROVE  \A q \in Testers : SamePlan(req[q], req'[q])
  BY <1>3, <1>7 DEF BeginUnstamped
<1>8. CASE \E u \in Cards, s \in Statuses, k \in Known : BeginVerdict(p, u, s, k)
  BY <1>6, <1>8 DEF BeginVerdict, Idle
<1>9. CASE \E S \in (SUBSET Cards) \ {{}}, s \in Statuses, k \in Known : BeginBulk(p, S, s, k)
  BY <1>6, <1>9 DEF BeginBulk, Idle
<1>10. CASE \E u \in Cards, k \in Known : BeginNote(p, u, k)
  BY <1>6, <1>10 DEF BeginNote, Idle
<1>11. CASE \E u \in Cards : BeginScope(p, u)
  BY <1>6, <1>11 DEF BeginScope, Idle
<1>12. CASE BeginPlan(p)
  BY <1>6, <1>12 DEF BeginPlan, Idle
<1>13. CASE \E u \in Cards : \E e \in timeline[u] : BeginUndo(p, u, e)
  BY <1>7, <1>13 DEF BeginUndo, Idle
<1>14. CASE \E q \in Proofs : BeginDrop(p, q)
  BY <1>7, <1>14 DEF BeginDrop, Idle
<1>15. CASE \/ \E u \in Cards : Lock(p, u) \/ SkipMissing(p, u) \/ Decide(p, u)
            \/ CarryLock(p) \/ CarryWait(p) \/ CarryResume(p)
  <2> DEFINE Same == /\ \A q \in Testers : q # p => req'[q] = req[q]
                     /\ req'[p].op = req[p].op /\ req'[p].version = req[p].version /\ req'[p].plan = req[p].plan
  <2>1. ASSUME NEW u \in Cards, Lock(p, u)
        PROVE  Same
    BY <1>1, <2>1 DEF Lock, Request
  <2>2. ASSUME NEW u \in Cards, SkipMissing(p, u)
        PROVE  Same
    BY <1>1, <2>2 DEF SkipMissing, Request
  <2>3. ASSUME NEW u \in Cards, Decide(p, u)
        PROVE  Same
    <3>1. CASE req' = [req EXCEPT ![p].todo = @ \ {u}]
      BY <1>1, <3>1 DEF Request
    <3>2. CASE req' = [req EXCEPT ![p].todo = @ \ {u}, ![p].next = u,
                                  ![p].carry[u] = Newest(OfKind(timeline[u], "status")).at]
      BY <1>1, <3>2 DEF Request
    <3> QED
      BY <2>3, <3>1, <3>2 DEF Decide
  <2>4. ASSUME CarryLock(p)
        PROVE  Same
    BY <1>1, <2>4 DEF CarryLock, Request
  <2>5. ASSUME CarryWait(p)
        PROVE  Same
    BY <1>1, <2>5 DEF CarryWait, Request
  <2>6. ASSUME CarryResume(p)
        PROVE  Same
    BY <1>1, <2>6 DEF CarryResume, Request
  <2>7. Same
    BY <1>15, <2>1, <2>2, <2>3, <2>4, <2>5, <2>6
  <2> QED
    BY <2>7 DEF SamePlan
<1> QED
  BY <1>5, <1>8, <1>9, <1>10, <1>11, <1>12, <1>13, <1>14, <1>15

LEMMA MembersKept ==
    ASSUME IInv, MembersOK, cycle' = cycle, \A v \in 1 .. Len(versions) : versions'[v] = versions[v]
    PROVE  MembersOK'
<1>1. \A k \in Cycles : Exists(k) => cycle[k].version \in 1 .. Len(versions)
  BY DEF IInv, PinsOK, Exists
<1>2. ASSUME NEW k \in Cycles, Exists(k)', NEW u \in cycle'[k].members
      PROVE  versions'[cycle'[k].version][u] # None
  <2>1. Exists(k)
    BY <1>2 DEF Exists
  <2> QED
    BY <1>1, <1>2, <2>1 DEF MembersOK, VersionBasis
<1> QED
  BY <1>2 DEF MembersOK, VersionBasis

\* the cycles change, one at a time
LEMMA CyclesHeld ==
    ASSUME IInv, MembersHeld, versions' = versions, NEW k \in Cycles,
           \A j \in Cycles : j # k => cycle'[j] = cycle[j],
           k # None /\ cycle'[k].state \in {"open", "closed"}
               => \A u \in cycle'[k].members : versions[cycle'[k].version][u] # None
    PROVE  MembersOK'
<1> SUFFICES ASSUME NEW j \in Cycles, j # None, cycle'[j].state \in {"open", "closed"}, NEW u \in cycle'[j].members
             PROVE  versions[cycle'[j].version][u] # None
  BY DEF MembersOK, Exists, VersionBasis
<1> QED
  BY DEF MembersHeld, MembersOK, Exists, VersionBasis

LEMMA HeldStep ==
    ASSUME IInv, MembersHeld, [Next]_vars
    PROVE  MembersHeld'
<1>1. req \in [Testers -> Request] /\ cycle \in [Cycles -> Cycle]
  BY DEF IInv, TypeOK
<1>2. MembersOK /\ PlansOK
  BY DEF MembersHeld
<1>3. CASE cycle' = cycle /\ req' = req /\ (versions' = versions \/ Publish)
  <2>1. \A v \in 1 .. Len(versions) : versions'[v] = versions[v]
    <3>1. versions \in Seq([Cards -> Basis \cup {None}]) /\ draft \in [Cards -> Basis \cup {None}]
      BY DEF IInv, TypeOK
    <3>2. CASE versions' = Append(versions, draft)
      BY <3>1, <3>2
    <3> QED
      BY <1>3, <3>2 DEF Publish
  <2>2. \A p \in Testers : SamePlan(req[p], req'[p])
    BY <1>3 DEF SamePlan
  <2> QED
    BY <1>2, <1>3, <2>1, <2>2, MembersKept, PlansKept DEF MembersHeld
<1>4. ASSUME NEW p \in Testers,
           \/ \E u \in Cards, s \in Statuses, k \in Known : BeginVerdict(p, u, s, k)
           \/ \E S \in (SUBSET Cards) \ {{}}, s \in Statuses, k \in Known : BeginBulk(p, S, s, k)
           \/ \E u \in Cards, k \in Known : BeginNote(p, u, k)
           \/ \E u \in Cards : BeginScope(p, u)
           \/ \E u \in Cards : \E e \in timeline[u] : BeginUndo(p, u, e)
           \/ \E u \in Cards : Lock(p, u) \/ SkipMissing(p, u) \/ Decide(p, u)
           \/ Abort(p) \/ CommitUndo(p)
           \/ \E q \in Proofs : BeginDrop(p, q)
           \/ CommitDrop(p) \/ BeginPlan(p) \/ CarryLock(p) \/ CarryWait(p) \/ CarryResume(p)
      PROVE  MembersHeld'
  <2>1. \A q \in Testers : SamePlan(req[q], req'[q])
    BY <1>4, PlansSame
  <2>2. UNCHANGED <<cycle, versions>>
    BY <1>4 DEF BeginVerdict, BeginBulk, BeginNote, BeginScope, BeginUndo, Begin, BeginUnstamped, Lock, SkipMissing,
                Decide, Abort, CommitUndo, BeginDrop, CommitDrop, BeginPlan, CarryLock, CarryWait, CarryResume, world
  <2> QED
    BY <1>2, <2>1, <2>2, MembersKept, PlansKept DEF MembersHeld
<1>5. ASSUME NEW p \in Testers, CommitEvents(p)
      PROVE  MembersHeld'
  <2>1. versions' = versions
    BY <1>5 DEF CommitEvents, world
  <2>2. PlansOK'
    <3>1. \A q \in Testers : SamePlan(req[q], req'[q])
      BY <1>5, PlansSame
    <3> QED
      BY <1>2, <2>1, <3>1, PlansKept
  <2>3. CASE req[p].cycle = None
    BY <1>2, <1>5, <2>1, <2>2, <2>3, MembersKept DEF CommitEvents, MembersHeld
  <2>4. CASE req[p].cycle # None
    <3>1. PICK k \in Cycles : k = req[p].cycle
      BY <1>1, <2>4 DEF Request
    <3>2. /\ cycle' = [cycle EXCEPT ![k].members = @ \cup req[p].held]
          /\ Exists(k) /\ \A u \in req[p].held : VersionBasis(k, u) # None
      BY <1>5, <2>4, <3>1 DEF CommitEvents
    <3>3. /\ \A j \in Cycles : j # k => cycle'[j] = cycle[j]
          /\ cycle'[k].members = cycle[k].members \cup req[p].held /\ cycle'[k].version = cycle[k].version
      BY <1>1, <3>2 DEF Cycle
    <3>4. \A u \in cycle'[k].members : versions[cycle'[k].version][u] # None
      BY <1>2, <3>2, <3>3 DEF MembersOK, VersionBasis
    <3> QED
      BY <2>1, <2>2, <3>3, <3>4, CyclesHeld DEF MembersHeld
  <2> QED
    BY <2>3, <2>4
<1>6. ASSUME NEW p \in Testers, NEW k \in Cycles, CommitPlan(p, k)
      PROVE  MembersHeld'
  <2>1. versions' = versions
    BY <1>6 DEF CommitPlan, world
  <2>2. PlansOK'
    <3>1. \A q \in Testers : SamePlan(req[q], req'[q])
      BY <1>6, PlansSame
    <3> QED
      BY <1>2, <2>1, <3>1, PlansKept
  <2>3. cycle' = [cycle EXCEPT ![k] = [state |-> "open", version |-> req[p].version, members |-> req[p].plan]]
    BY <1>6 DEF CommitPlan
  <2>4. /\ \A j \in Cycles : j # k => cycle'[j] = cycle[j]
        /\ cycle'[k].members = req[p].plan /\ cycle'[k].version = req[p].version
    BY <1>1, <2>3
  <2>5. \A u \in req[p].plan : versions[req[p].version][u] # None
    BY <1>2, <1>6 DEF CommitPlan, PlansOK
  <2> QED
    BY <2>1, <2>2, <2>4, <2>5, CyclesHeld DEF MembersHeld
<1>7. ASSUME NEW p \in Testers, NEW source \in Sources, NEW prior \in Known, NEW carry \in BOOLEAN,
             Plan(p, source, prior, carry)
      PROVE  MembersHeld'
  <2>1. UNCHANGED <<cycle, versions>>
    BY <1>7 DEF Plan, world
  <2>2. \A q \in Testers : q # p => req'[q] = req[q]
    BY <1>1, <1>7 DEF Plan
  <2>3. req'[p].version = Len(versions) /\ req'[p].plan = Planned(source, Len(versions), prior)
    BY <1>1, <1>7 DEF Plan, Request
  <2>4. \A u \in Planned(source, Len(versions), prior) : versions[Len(versions)][u] # None
    BY DEF Planned
  <2>5. PlansOK'
    BY <1>2, <2>1, <2>2, <2>3, <2>4 DEF PlansOK
  <2> QED
    BY <1>2, <2>1, <2>5, MembersKept DEF MembersHeld
<1>8. ASSUME NEW k \in Cycles, \/ \E s \in {"open", "closed"} : SetCycleStatus(k, s)
                               \/ DeleteCycle(k)
                               \/ \E u \in Cards : AddMember(k, u) \/ RemoveMember(k, u)
      PROVE  MembersHeld'
  <2>1. UNCHANGED <<req, versions>> /\ Exists(k)
    BY <1>8 DEF SetCycleStatus, DeleteCycle, AddMember, RemoveMember, world
  <2>2. \A j \in Cycles : j # k => cycle'[j] = cycle[j]
    BY <1>1, <1>8 DEF SetCycleStatus, DeleteCycle, AddMember, RemoveMember
  <2>3. cycle'[k].version = cycle[k].version
    BY <1>1, <1>8, ZenonT(30) DEF SetCycleStatus, DeleteCycle, AddMember, RemoveMember, Cycle
  <2>4. \A u \in cycle'[k].members : u \in cycle[k].members \/ VersionBasis(k, u) # None
    <3>1. CASE \E s \in {"open", "closed"} : SetCycleStatus(k, s)
      BY <1>1, <3>1 DEF SetCycleStatus, Cycle
    <3>2. CASE DeleteCycle(k)
      BY <1>1, <3>2 DEF DeleteCycle, Cycle
    <3>3. ASSUME NEW u \in Cards, AddMember(k, u)
          PROVE  \A v \in cycle'[k].members : v \in cycle[k].members \/ VersionBasis(k, v) # None
      BY <1>1, <3>3 DEF AddMember, Cycle
    <3>4. CASE \E u \in Cards : RemoveMember(k, u)
      BY <1>1, <3>4 DEF RemoveMember, Cycle
    <3> QED
      BY <1>8, <3>1, <3>2, <3>3, <3>4
  <2>5. \A u \in cycle'[k].members : versions[cycle'[k].version][u] # None
    BY <1>2, <2>1, <2>3, <2>4 DEF MembersOK, VersionBasis
  <2>6. \A p \in Testers : SamePlan(req[p], req'[p])
    BY <2>1 DEF SamePlan
  <2> QED
    BY <1>2, <2>1, <2>2, <2>5, <2>6, CyclesHeld, PlansKept DEF MembersHeld
<1>9. CASE Publish \/ UNCHANGED vars
  BY <1>3, <1>9 DEF Publish, vars, world
<1>10. ASSUME NEW u \in Cards, \/ \E e \in timeline[u] : WindowEnds(u, e)
                               \/ \E q \in Proofs : StageProof(q, u)
                               \/ \E b \in Basis : ChangeDraft(u, b) \/ RestoreCase(u, b)
                               \/ DeleteCase(u)
       PROVE  MembersHeld'
  BY <1>3, <1>10 DEF WindowEnds, StageProof, ChangeDraft, RestoreCase, DeleteCase, world
<1> QED
  BY <1>4, <1>5, <1>6, <1>7, <1>8, <1>9, <1>10 DEF Next

\* A cycle plans only cases that its version holds (set_cycle_members and record look there).
THEOREM MembersInVersion == Spec => []MembersHeld
<1>1. Init => MembersHeld
  BY DEF Init, MembersHeld, MembersOK, PlansOK, Exists, Idle
<1>2. IInv /\ MembersHeld /\ [Next]_vars => MembersHeld'
  BY HeldStep
<1> QED
  BY <1>1, <1>2, Invariance, PTL DEF Spec

\* The progress that the list of cycles shows (_cycle_stats) and the report of the cycle are the
\* same while its cases are there, although one counts live cases against the version or the
\* draft and the other the version's.
THEOREM ReportsTheSame == Spec => []ReportsAgree
<1>1. ASSUME TypeOK, MembersHeld
      PROVE  ReportsAgree
  <2> SUFFICES ASSUME NEW k \in Cycles, Exists(k), \A u \in cycle[k].members : Live(u)
               PROVE  CycleStats(k) = Report(k)
    BY DEF ReportsAgree
  <2> DEFINE members == cycle[k].members
             now == [u \in Cards |-> IF VersionBasis(k, u) # None THEN VersionBasis(k, u) ELSE draft[u]]
             held == [u \in Cards |-> VersionBasis(k, u)]
  <2>1. \A u \in members : VersionBasis(k, u) # None
    BY <1>1 DEF MembersHeld, MembersOK
  <2>2. {u \in members : Live(u)} = members /\ {u \in members : VersionBasis(k, u) # None} = members
    BY <2>1
  <2>3. \A u \in members : now[u] = held[u]
    <3>1. members \subseteq Cards
      BY <1>1 DEF TypeOK, Cycle
    <3> QED
      BY <2>1, <3>1
  <2>4. CycleStats(k) = Counted(members, k, now) /\ Report(k) = Counted(members, k, held)
    BY <2>2, Zenon DEF CycleStats, Report
  <2> HIDE DEF now, held, members
  <2>5. ASSUME NEW shown, shown \subseteq members
        PROVE  {u \in shown : IsStale(CycleVerdict(k, u).status, CycleVerdict(k, u).basis, now[u])}
                 = {u \in shown : IsStale(CycleVerdict(k, u).status, CycleVerdict(k, u).basis, held[u])}
    BY <2>3, <2>5
  <2>6. Counted(members, k, now) = Counted(members, k, held)
    BY <2>5, Zenon DEF Counted
  <2> QED
    BY <2>4, <2>6
<1> QED
  BY <1>1, TypeCorrect, MembersInVersion, PTL
=============================================================================
