--------------------------- MODULE UseCaseTesting ---------------------------
(***************************************************************************)
(* Test execution of the use cases of one BRD (use_cases/testing.py): the    *)
(* timeline of each case, evidence, test cycles pinned to a published        *)
(* version, passes carried into a new cycle, and the cached status.          *)
(*                                                                         *)
(* A request is one READ COMMITTED transaction.  It takes its timestamp      *)
(* (now()) when it begins, locks the row of each case (_lock_card) and       *)
(* writes under the lock; its rows are private to it until it commits.       *)
(* create_cycle locks no case before it reads, so its statements are steps.  *)
(* Each transaction writes at most one event of a case, so the timestamp     *)
(* names the event.  Notes, defects, captions and wording are left out.      *)
(***************************************************************************)
EXTENDS Integers, FiniteSets, Sequences

CONSTANTS
    Cards,         \* uids of some use cases (there are others: the draft is never empty)
    Testers,       \* users, each with one request at a time
    Basis,         \* test bases: a definition with the texts of what it cites
    Cycles,        \* ids of test cycles
    Proofs,        \* ids of proofs
    Statuses,      \* STATUSES
    None,          \* null
    TxBound,       \* bound: transactions that write an event
    ChangeBound,   \* bound: other requests: changes of cases, cycles, evidence, undo
    VersionBound   \* bound: published versions

ASSUME NoneAssumption == None \notin Cards \cup Basis \cup Cycles \cup Statuses \cup Testers
ASSUME StatusAssumption == {"not_tested", "passed"} \subseteq Statuses
ASSUME BoundAssumption == TxBound \in Nat /\ ChangeBound \in Nat /\ VersionBound \in Nat

VARIABLES
    draft,         \* test_basis of each live case; None: deleted
    versions,      \* published versions: the basis of each member, None: not in it
    cycle,         \* test_cycle with test_cycle_case
    timeline,      \* use_case_test_result of each case
    proof,         \* use_case_test_proof: its case and event, 0: staged
    cache,         \* use_case.test_status, tested_hash, in_scope
    clock,         \* timestamps given to transactions
    changes,       \* bounded counter
    req,           \* the request of each tester
    given,         \* history variable: the verdicts testers gave on a case and a basis
    revived,       \* history variable: the verdicts that an undo brought back
    overtaken      \* history variable: cases whose cache was last written by create_cycle
                   \* on a snapshot taken before it held the row

world == <<draft, versions>>
ghosts == <<given, revived, overtaken>>
vars == <<world, cycle, timeline, proof, cache, clock, changes, req, ghosts>>

Kinds == {"status", "note", "scope"}
Ops == {"idle", "record", "bulk", "note", "scope", "undo", "drop", "plan"}
StaleEligible == Statuses \ {"not_tested", "in_progress"}

Event == [at : 1 .. TxBound, kind : Kinds, status : Statuses, scope : BOOLEAN,
          basis : Basis, cycle : Cycles \cup {None}, by : Testers,
          was : Statuses \cup {None}, from : 0 .. TxBound, fresh : BOOLEAN]
Cached == [status : Statuses, hash : Basis \cup {None}, scope : BOOLEAN]
Cycle == [state : {"none", "open", "closed", "deleted"}, version : 0 .. VersionBound,
          members : SUBSET Cards]
Proof == [card : Cards \cup {None}, at : 0 .. TxBound]
Request == [op : Ops, at : 0 .. TxBound, todo : SUBSET Cards, held : SUBSET Cards,
            status : Statuses, scope : BOOLEAN, cycle : Cycles \cup {None},
            item : Nat, proof : Proofs \cup {None}, plan : SUBSET Cards,
            version : 0 .. VersionBound, carry : [Cards -> 0 .. TxBound],
            next : Cards \cup {None}, queued : Cached \cup {None},
            old : [Cards -> Cached \cup {None}]]
Idle == [op |-> "idle", at |-> 0, todo |-> {}, held |-> {}, status |-> "not_tested",
         scope |-> TRUE, cycle |-> None, item |-> 0, proof |-> None, plan |-> {},
         version |-> 0, carry |-> [u \in Cards |-> 0], next |-> None, queued |-> None,
         old |-> [u \in Cards |-> None]]

Change == changes < ChangeBound /\ changes' = changes + 1
Live(u) == draft[u] # None
Free(u) == \A p \in Testers : u \notin req[p].held
Exists(k) == k # None /\ cycle[k].state \in {"open", "closed"}
\* what the version of cycle k says of case u
VersionBasis(k, u) == versions[cycle[k].version][u]

-----------------------------------------------------------------------------
(* Reading a timeline: rows in the order of their timestamps. *)

Newest(S) == CHOOSE e \in S : \A f \in S : f.at <= e.at
OfKind(S, kind) == {e \in S : e.kind = kind}
\* resync_card: what the timeline S says of its case
Derived(S) ==
    LET verdicts == OfKind(S, "status")
        scopes == OfKind(S, "scope")
    IN  [status |-> IF verdicts = {} THEN "not_tested" ELSE Newest(verdicts).status,
         hash |-> IF verdicts # {} /\ Newest(verdicts).status \in StaleEligible
                  THEN Newest(verdicts).basis ELSE None,
         scope |-> IF scopes = {} THEN TRUE ELSE Newest(scopes).scope]
\* a status verdict is stale when the definition moved past the one it pinned
IsStale(status, hash, now) ==
    status \in StaleEligible /\ hash # None /\ now # None /\ hash # now
-----------------------------------------------------------------------------
(* Requests on one or several cases. *)

Begin(p, r) ==
    /\ req[p].op = "idle" /\ clock < TxBound
    /\ clock' = clock + 1
    /\ req' = [req EXCEPT ![p] = [r EXCEPT !.at = clock + 1]]
    /\ UNCHANGED <<world, cycle, timeline, proof, cache, changes, ghosts>>
\* a request that writes no event needs no timestamp
BeginUnstamped(p, r) ==
    /\ Change
    /\ req[p].op = "idle"
    /\ req' = [req EXCEPT ![p] = r]
    /\ UNCHANGED <<world, cycle, timeline, proof, cache, clock, ghosts>>

BeginVerdict(p, u, s, k) ==
    Begin(p, [Idle EXCEPT !.op = "record", !.todo = {u}, !.status = s, !.cycle = k])
BeginBulk(p, S, s, k) ==
    Begin(p, [Idle EXCEPT !.op = "bulk", !.todo = S, !.status = s, !.cycle = k])
BeginNote(p, u, k) == Begin(p, [Idle EXCEPT !.op = "note", !.todo = {u}, !.cycle = k])
\* the page offers the other value only
BeginScope(p, u) == Begin(p, [Idle EXCEPT !.op = "scope", !.todo = {u},
                                           !.scope = ~cache[u].scope])
BeginUndo(p, u, e) ==
    /\ e \in timeline[u]
    /\ BeginUnstamped(p, [Idle EXCEPT !.op = "undo", !.todo = {u}, !.item = e.at])

\* _lock_card, then _check_cycle, which holds nothing
Lock(p, u) ==
    /\ u \in req[p].todo /\ req[p].op # "plan"
    /\ Live(u) /\ Free(u)
    /\ req[p].cycle # None => cycle[req[p].cycle].state = "open"
    /\ req' = [req EXCEPT ![p].todo = @ \ {u}, ![p].held = @ \cup {u}]
    /\ UNCHANGED <<world, cycle, timeline, proof, cache, clock, changes, ghosts>>

\* a bulk request passes over a case that is gone, and delete_proof does not need it
SkipMissing(p, u) ==
    /\ u \in req[p].todo /\ req[p].op \in {"bulk", "drop"} /\ ~Live(u)
    /\ req' = [req EXCEPT ![p].todo = @ \ {u}]
    /\ UNCHANGED <<world, cycle, timeline, proof, cache, clock, changes, ghosts>>

\* refused, failed or the victim of a deadlock: the transaction rolls back
Abort(p) ==
    /\ req[p].op # "idle"
    /\ req' = [req EXCEPT ![p] = Idle]
    /\ UNCHANGED <<world, cycle, timeline, proof, cache, clock, changes, ghosts>>

PinDraft(r, u) == draft[u]
\* _pin: the basis that an event of request r on case u is about
Pin(r, u) == IF r.cycle = None THEN draft[u] ELSE VersionBasis(r.cycle, u)

\* a re-verdict of the same tester in the same cycle, soon after, corrects the last one
Amends(p, u) ==
    /\ req[p].op = "record" /\ timeline[u] # {}
    /\ LET e == Newest(timeline[u])
       IN  e.kind = "status" /\ e.by = p /\ e.cycle = req[p].cycle /\ e.fresh
Amended(e, r, pin) ==
    [e EXCEPT !.was = IF e.status # r.status THEN e.status ELSE @,
              !.status = r.status, !.basis = pin, !.from = 0, !.fresh = TRUE]
NewEvent(p, u) ==
    LET r == req[p]
    IN  [at |-> r.at, kind |-> IF r.op \in {"record", "bulk"} THEN "status" ELSE r.op,
         status |-> IF r.op \in {"record", "bulk"} THEN r.status ELSE cache[u].status,
         scope |-> r.scope, basis |-> Pin(r, u), cycle |-> r.cycle, by |-> p,
         was |-> None, from |-> 0, fresh |-> TRUE]
Recorded(p, u) ==
    IF Amends(p, u)
    THEN LET e == Newest(timeline[u])
         IN  (timeline[u] \ {e}) \cup {Amended(e, req[p], Pin(req[p], u))}
    ELSE timeline[u] \cup {NewEvent(p, u)}

\* _claim_pending: the staged evidence of a case goes to the event just written
Claimed(p) ==
    [q \in Proofs |->
        IF req[p].op \in {"record", "note"} /\ proof[q].card \in req[p].held /\ proof[q].at = 0
        THEN [proof[q] EXCEPT !.at = IF Amends(p, proof[q].card)
                                     THEN Newest(timeline[proof[q].card]).at ELSE req[p].at]
        ELSE proof[q]]

\* record, record_bulk, set_scope: _record_in or _scope_in, resync_card, commit
CommitEvents(p) ==
    LET r == req[p]
    IN  /\ r.op \in {"record", "bulk", "note", "scope"} /\ r.todo = {} /\ r.held # {}
        /\ r.cycle # None => Exists(r.cycle) /\ \A u \in r.held : VersionBasis(r.cycle, u) # None
        /\ timeline' = [u \in Cards |-> IF u \in r.held THEN Recorded(p, u) ELSE timeline[u]]
        /\ cache' = [u \in Cards |-> IF u \in r.held THEN Derived(timeline'[u]) ELSE cache[u]]
        /\ proof' = Claimed(p)
        /\ cycle' = IF r.cycle = None THEN cycle
                    ELSE [cycle EXCEPT ![r.cycle].members = @ \cup r.held]
        /\ given' = IF r.op \in {"record", "bulk"}
                    THEN given \cup {<<u, r.status, Pin(r, u)>> : u \in r.held} ELSE given
        /\ overtaken' = overtaken \ r.held
        /\ req' = [req EXCEPT ![p] = Idle]
        /\ UNCHANGED <<world, clock, changes, revived>>

\* undo of an amendment gives back the old status and leaves the rest of the row
Reverted(e) == [e EXCEPT !.status = e.was, !.was = None]
\* the references to a deleted event become null
Unreferenced(S, at) == {IF f.from = at THEN [f EXCEPT !.from = 0] ELSE f : f \in S}
\* its evidence returns to the staging area
Released(u, at) == [q \in Proofs |-> IF proof[q].card = u /\ proof[q].at = at
                                     THEN [proof[q] EXCEPT !.at = 0] ELSE proof[q]]
\* _carry_passes has inserted a row that references the event and has not committed
Referenced(u, at) == \E p \in Testers : req[p].carry[u] = at

CommitUndo(p) ==
    LET r == req[p]
    IN  /\ r.op = "undo" /\ r.todo = {}
        /\ \E u \in r.held : \E e \in timeline[u] :
            /\ e.at = r.item /\ e = Newest(timeline[u])
            /\ e.fresh /\ e.by = p
            /\ \/ /\ e.was # None
                  /\ timeline' = [timeline EXCEPT ![u] = (@ \ {e}) \cup {Reverted(e)}]
                  /\ revived' = revived \cup {<<u, e.was, e.basis>>}
                  /\ UNCHANGED proof
               \/ /\ e.was = None /\ ~Referenced(u, e.at)
                  /\ timeline' = [timeline EXCEPT ![u] = Unreferenced(@ \ {e}, e.at)]
                  /\ proof' = Released(u, e.at)
                  /\ UNCHANGED revived
            /\ cache' = [cache EXCEPT ![u] = Derived(timeline'[u])]
            /\ overtaken' = overtaken \ {u}
        /\ req' = [req EXCEPT ![p] = Idle]
        /\ UNCHANGED <<world, cycle, clock, changes, given>>

\* five minutes pass since the event was written or amended (only the latest is asked)
WindowEnds(u, e) ==
    /\ e \in timeline[u] /\ e = Newest(timeline[u]) /\ e.fresh
    /\ timeline' = [timeline EXCEPT ![u] = (@ \ {e}) \cup {[e EXCEPT !.fresh = FALSE]}]
    /\ UNCHANGED <<world, cycle, proof, cache, clock, changes, req, ghosts>>

-----------------------------------------------------------------------------
(* Evidence. *)

StageProof(q, u) ==
    /\ Change
    /\ proof[q].card = None /\ \A p \in Testers : req[p].proof # q   \* a new id
    /\ Live(u) /\ Free(u)
    /\ proof' = [proof EXCEPT ![q] = [card |-> u, at |-> 0]]
    /\ UNCHANGED <<world, cycle, timeline, cache, clock, req, ghosts>>

\* delete_proof reads the row; it locks the case only if the proof is bound to an event
BeginDrop(p, q) ==
    /\ proof[q].card # None
    /\ BeginUnstamped(p, [Idle EXCEPT !.op = "drop", !.proof = q, !.item = proof[q].at,
                          !.todo = IF proof[q].at = 0 THEN {} ELSE {proof[q].card}])

CommitDropUnchecked(p) ==
    /\ req[p].op = "drop"
    /\ proof' = [proof EXCEPT ![req[p].proof] = [card |-> None, at |-> 0]]
    /\ req' = [req EXCEPT ![p] = Idle]
    /\ UNCHANGED <<world, cycle, timeline, cache, clock, changes, ghosts>>
CommitDrop(p) ==
    /\ req[p].op = "drop" /\ req[p].todo = {}
    /\ req[p].item # 0 => \E u \in Cards : /\ proof[req[p].proof].card = u /\ timeline[u] # {}
                                          /\ Newest(timeline[u]).at = req[p].item
    /\ proof' = [proof EXCEPT ![req[p].proof] = [card |-> None, at |-> 0]]
    /\ req' = [req EXCEPT ![p] = Idle]
    /\ UNCHANGED <<world, cycle, timeline, cache, clock, changes, ghosts>>
-----------------------------------------------------------------------------
(* Cycles.  create_cycle plans the members and carries their passes, case by *)
(* case, without locking the cases first.                                    *)

\* the latest verdict of case u in cycle k
CycleVerdict(k, u) ==
    LET mine == {e \in OfKind(timeline[u], "status") : e.cycle = k}
    IN  IF mine = {} THEN [status |-> "not_tested", basis |-> None]
        ELSE [status |-> Newest(mine).status, basis |-> Newest(mine).basis]

Sources == {"all", "not_passed", "failed_blocked", "retest", "empty"}
\* the cases a new cycle plans, from those in scope and in version v; a source cycle narrows
\* them and gives the status that counts
Planned(source, v, prior) ==
    {u \in Cards :
        LET status == IF prior = None THEN cache[u].status ELSE CycleVerdict(prior, u).status
        IN  /\ Live(u) /\ cache[u].scope /\ versions[v][u] # None /\ source # "empty"
            /\ prior # None => u \in cycle[prior].members
            /\ source = "not_passed" => status # "passed"
            /\ source = "failed_blocked" => status \in {"failed", "blocked"}
            /\ source = "retest" => IsStale(cache[u].status, cache[u].hash, versions[v][u])}

BeginPlan(p) == Begin(p, [Idle EXCEPT !.op = "plan"])

Plan(p, source, prior, carry) ==
    LET v == Len(versions)
        members == Planned(source, v, prior)
    IN  /\ req[p].op = "plan" /\ req[p].version = 0 /\ v > 0
        /\ prior # None => Exists(prior)
        /\ req' = [req EXCEPT ![p].version = v, ![p].plan = members,
                              ![p].todo = IF carry THEN members ELSE {}]
        /\ UNCHANGED <<world, cycle, timeline, proof, cache, clock, changes, ghosts>>

\* the row that carries the pass of case u into the new cycle k of request r
CarriedEvent(p, u, k) ==
    [at |-> req[p].at, kind |-> "status", status |-> "passed", scope |-> TRUE,
     basis |-> versions[req[p].version][u], cycle |-> k, by |-> p, was |-> None,
     from |-> req[p].carry[u], fresh |-> TRUE]

CarriesAny(S, b) == S # {} /\ Newest(S).status = "passed"
\* the latest verdict is a pass on exactly this definition
Carries(S, b) == S # {} /\ Newest(S).status = "passed" /\ Newest(S).basis = b

\* one member: read its latest verdict, insert the carried row (private until the commit)
Decide(p, u) ==
    LET r == req[p]
        verdicts == OfKind(timeline[u], "status")
    IN  /\ r.op = "plan" /\ u \in r.todo /\ r.next = None
        /\ \/ /\ Carries(verdicts, versions[r.version][u])
              /\ req' = [req EXCEPT ![p].todo = @ \ {u}, ![p].next = u,
                                    ![p].carry[u] = Newest(verdicts).at]
           \/ /\ ~Carries(verdicts, versions[r.version][u])
              /\ req' = [req EXCEPT ![p].todo = @ \ {u}]
        /\ UNCHANGED <<world, cycle, timeline, proof, cache, clock, changes, ghosts>>

\* resync_card of that member: its update takes the row lock, if the row is still there
CarryLock(p) ==
    LET u == req[p].next
    IN  /\ u # None /\ req[p].queued = None /\ Free(u)
        /\ req' = [req EXCEPT ![p].next = None,
                              ![p].held = IF Live(u) THEN @ \cup {u} ELSE @]
        /\ UNCHANGED <<world, cycle, timeline, proof, cache, clock, changes, ghosts>>
\* the row is locked: the update waits, with the timeline of the moment it began
CarryWait(p) ==
    LET u == req[p].next
    IN  /\ u # None /\ req[p].queued = None /\ ~Free(u)
        /\ req' = [req EXCEPT ![p].queued =
                      Derived(timeline[u] \cup {CarriedEvent(p, u, None)})]
        /\ UNCHANGED <<world, cycle, timeline, proof, cache, clock, changes, ghosts>>
\* the holder is done: the update goes on with what it computed
CarryResume(p) ==
    LET u == req[p].next
    IN  /\ req[p].queued # None /\ Free(u)
        /\ req' = [req EXCEPT ![p].next = None, ![p].queued = None,
                              ![p].held = IF Live(u) THEN @ \cup {u} ELSE @,
                              ![p].old[u] = req[p].queued]
        /\ UNCHANGED <<world, cycle, timeline, proof, cache, clock, changes, ghosts>>

CommitPlan(p, k) ==
    LET r == req[p]
        carried == {u \in Cards : r.carry[u] # 0}
    IN  /\ r.op = "plan" /\ r.version # 0 /\ r.todo = {} /\ r.next = None
        /\ cycle[k].state = "none"
        /\ cycle' = [cycle EXCEPT ![k] = [state |-> "open", version |-> r.version, members |-> r.plan]]
        /\ timeline' = [u \in Cards |-> IF u \in carried
                            THEN timeline[u] \cup {CarriedEvent(p, u, k)} ELSE timeline[u]]
        /\ cache' = [u \in Cards |-> IF u \notin r.held THEN cache[u]
                                     ELSE IF r.old[u] # None THEN r.old[u] ELSE Derived(timeline'[u])]
        /\ overtaken' = (overtaken \ r.held) \cup {u \in carried : u \notin r.held \/ r.old[u] # None}
        /\ req' = [req EXCEPT ![p] = Idle]
        /\ UNCHANGED <<world, proof, clock, changes, given, revived>>

\* update_cycle closes and reopens
SetCycleStatus(k, s) ==
    /\ Change
    /\ Exists(k) /\ cycle[k].state # s
    /\ cycle' = [cycle EXCEPT ![k].state = s]
    /\ UNCHANGED <<world, timeline, proof, cache, clock, req, ghosts>>
\* delete_cycle keeps the results: they become ad-hoc ones
DeleteCycle(k) ==
    /\ Change
    /\ Exists(k)
    /\ cycle' = [cycle EXCEPT ![k] = [@ EXCEPT !.state = "deleted", !.members = {}]]
    /\ timeline' = [u \in Cards |-> {IF e.cycle = k THEN [e EXCEPT !.cycle = None] ELSE e :
                                       e \in timeline[u]}]
    /\ UNCHANGED <<world, proof, cache, clock, req, ghosts>>
\* set_cycle_members; it does not ask whether the cycle is open
AddMember(k, u) ==
    /\ Change
    /\ Exists(k) /\ Live(u) /\ VersionBasis(k, u) # None /\ u \notin cycle[k].members
    /\ cycle' = [cycle EXCEPT ![k].members = @ \cup {u}]
    /\ UNCHANGED <<world, timeline, proof, cache, clock, req, ghosts>>
RemoveMember(k, u) ==
    /\ Change
    /\ Exists(k) /\ u \in cycle[k].members
    /\ cycle' = [cycle EXCEPT ![k].members = @ \ {u}]
    /\ UNCHANGED <<world, timeline, proof, cache, clock, req, ghosts>>

-----------------------------------------------------------------------------
(* The draft and its versions, as testing sees them. *)

\* an edit of the case or of a requirement it cites (the triggers of migration 034)
ChangeDraft(u, b) ==
    /\ Change
    /\ Live(u) /\ Free(u) /\ draft[u] # b
    /\ draft' = [draft EXCEPT ![u] = b]
    /\ UNCHANGED <<versions, cycle, timeline, proof, cache, clock, req, ghosts>>
DeleteCase(u) ==
    /\ Change
    /\ Live(u) /\ Free(u)
    /\ draft' = [draft EXCEPT ![u] = None]
    /\ UNCHANGED <<versions, cycle, timeline, proof, cache, clock, req, ghosts>>
RestoreCaseDefaults(u, b) ==
    /\ Change
    /\ Free(u) /\ draft[u] # b
    /\ draft' = [draft EXCEPT ![u] = b]
    /\ cache' = [cache EXCEPT ![u] = Derived({})]
    /\ UNCHANGED <<versions, cycle, timeline, proof, clock, req, ghosts>>
\* versioning.restore, in place or from the Trash: the cache is derived again; a new case
\* starts with what an empty timeline says
RestoreCase(u, b) ==
    /\ Change
    /\ Free(u) /\ draft[u] # b
    /\ draft' = [draft EXCEPT ![u] = b]
    /\ cache' = [cache EXCEPT ![u] = Derived(timeline[u])]
    /\ overtaken' = overtaken \ {u}
    /\ UNCHANGED <<versions, cycle, timeline, proof, clock, req, given, revived>>
Publish ==
    /\ Len(versions) < VersionBound
    /\ versions # <<>> => versions[Len(versions)] # draft
    /\ versions' = Append(versions, draft)
    /\ UNCHANGED <<draft, cycle, timeline, proof, cache, clock, changes, req, ghosts>>

Init ==
    /\ draft \in [Cards -> Basis \cup {None}]
    /\ versions = <<>>
    /\ cycle = [k \in Cycles |-> [state |-> "none", version |-> 0, members |-> {}]]
    /\ timeline = [u \in Cards |-> {}]
    /\ proof = [q \in Proofs |-> [card |-> None, at |-> 0]]
    /\ cache = [u \in Cards |-> [status |-> "not_tested", hash |-> None, scope |-> TRUE]]
    /\ clock = 0 /\ changes = 0
    /\ req = [p \in Testers |-> Idle]
    /\ given = {} /\ revived = {} /\ overtaken = {}

\* what a client can name as the cycle of its request
Known == {k \in Cycles : Exists(k)} \cup {None}

Next ==
    \/ \E p \in Testers :
        \/ \E u \in Cards, s \in Statuses, k \in Known : BeginVerdict(p, u, s, k)
        \/ \E S \in (SUBSET Cards) \ {{}}, s \in Statuses, k \in Known : BeginBulk(p, S, s, k)
        \/ \E u \in Cards, k \in Known : BeginNote(p, u, k)
        \/ \E u \in Cards : BeginScope(p, u)
        \/ \E u \in Cards : \E e \in timeline[u] : BeginUndo(p, u, e)
        \/ \E u \in Cards : Lock(p, u) \/ SkipMissing(p, u)
        \/ Abort(p)
        \/ CommitEvents(p)
        \/ CommitUndo(p)
        \/ \E q \in Proofs : BeginDrop(p, q)
        \/ CommitDrop(p)
        \/ BeginPlan(p)
        \/ \E source \in Sources, prior \in Known, carry \in BOOLEAN :
                Plan(p, source, prior, carry)
        \/ \E u \in Cards : Decide(p, u)
        \/ CarryLock(p) \/ CarryWait(p) \/ CarryResume(p)
        \/ \E k \in Cycles : CommitPlan(p, k)
    \/ \E k \in Cycles :
        \/ \E s \in {"open", "closed"} : SetCycleStatus(k, s)
        \/ DeleteCycle(k)
        \/ \E u \in Cards : AddMember(k, u) \/ RemoveMember(k, u)
    \/ \E u \in Cards :
        \/ \E e \in timeline[u] : WindowEnds(u, e)
        \/ \E q \in Proofs : StageProof(q, u)
        \/ \E b \in Basis : ChangeDraft(u, b) \/ RestoreCase(u, b)
        \/ DeleteCase(u)
    \/ Publish

Spec == Init /\ [][Next]_vars

-----------------------------------------------------------------------------
(* Reports: the progress of a cycle as its list shows it (_cycle_stats) and as *)
(* the report of the cycle does (report).                                     *)

Counted(live, k, now) ==
    LET shown == {u \in live : cache[u].scope \/ ~Live(u)}
    IN  [total |-> Cardinality(shown),
         executed |-> Cardinality({u \in shown : CycleVerdict(k, u).status # "not_tested"}),
         retest |-> Cardinality({u \in shown : IsStale(CycleVerdict(k, u).status,
                                                      CycleVerdict(k, u).basis, now[u])}),
         left |-> Cardinality(live \ shown)]
\* planned members that still exist, against the version's definition or else the draft's
CycleStats(k) ==
    LET now == [u \in Cards |-> IF VersionBasis(k, u) # None THEN VersionBasis(k, u) ELSE draft[u]]
    IN  Counted({u \in cycle[k].members : Live(u)}, k, now)
\* planned members that the version holds, against its definition
Report(k) ==
    LET now == [u \in Cards |-> VersionBasis(k, u)]
    IN  Counted({u \in cycle[k].members : VersionBasis(k, u) # None}, k, now)

-----------------------------------------------------------------------------
(* Properties. *)

\* Rows and requests keep their types.
TypeOK ==
    /\ draft \in [Cards -> Basis \cup {None}]
    /\ versions \in Seq([Cards -> Basis \cup {None}]) /\ Len(versions) <= VersionBound
    /\ cycle \in [Cycles -> Cycle]
    /\ timeline \in [Cards -> SUBSET Event]
    /\ proof \in [Proofs -> Proof]
    /\ cache \in [Cards -> Cached]
    /\ clock \in 0 .. TxBound /\ changes \in 0 .. ChangeBound
    /\ req \in [Testers -> Request]
    /\ given \subseteq Cards \X Statuses \X Basis
    /\ revived \subseteq Cards \X Statuses \X Basis
    /\ overtaken \subseteq Cards

\* The cached status, pin and scope of a case are those of its timeline, unless a new cycle
\* carried its pass without holding its row (create_cycle waits behind a tester's request and
\* writes what it computed before).
CacheFollowsTimeline ==
    \A u \in Cards : u \in overtaken \/ cache[u] = Derived(timeline[u])

\* "so the cache can never drift from the source of truth" (testing.py:36)
CacheNeverDrifts == \A u \in Cards : Live(u) => cache[u] = Derived(timeline[u])

\* A verdict stands for a definition only if a tester gave that verdict on that definition,
\* or an undo brought it back: carrying, amending and restoring never invent one.
VerdictsWereGiven ==
    \A u \in Cards : \A e \in OfKind(timeline[u], "status") :
        <<u, e.status, e.basis>> \in given \cup revived

\* "an amended verdict reverts to what it replaced" (testing.py:612): what an undo brings back
\* was given on the definition it is pinned to
UndoRestoresGiven == revived \subseteq given

\* A verdict or note recorded in a cycle is about the definition in the cycle's version,
\* whatever became of the draft and however it was amended.
CycleTestsItsVersion ==
    \A u \in Cards : \A e \in timeline[u] :
        e.cycle # None => e.basis = VersionBasis(e.cycle, u)

\* The evidence of an event that is not the latest of its case stays as it is, except by a
\* delete that began while the proof was staged (it does not look again).
EvidenceLocked ==
    [][\A q \in Proofs : LET u == proof[q].card
                             at == proof[q].at
         IN  (/\ u # None /\ at # 0 /\ proof'[q] # proof[q]
              /\ Newest(timeline[u]).at # at)
             => \E p \in Testers : req[p].op = "drop" /\ req[p].proof = q /\ req[p].item = 0]_vars

\* Evidence is staged or belongs to an event that exists.
EvidenceHasResult ==
    \A q \in Proofs : proof[q].card # None /\ proof[q].at # 0
                        => \E e \in timeline[proof[q].card] : e.at = proof[q].at

\* As long as no member was deleted, the two computations of a cycle's progress agree.
ReportsAgree ==
    \A k \in Cycles : Exists(k) /\ (\A u \in cycle[k].members : Live(u))
                        => CycleStats(k) = Report(k)
=============================================================================
