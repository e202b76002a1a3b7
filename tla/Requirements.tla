---------------------------- MODULE Requirements ----------------------------
(***************************************************************************)
(* The requirements of one BRD: edits, splits, additions and deletions that  *)
(* archive (requirements/edit.py), reviewed change sets applied as a whole   *)
(* and replayed by key, and the versions of the BRD with its review state    *)
(* (requirements/versioning.py, with reconcile of ingest/revise.py).         *)
(*                                                                         *)
(* Every writer but approve and snapshot holds the document's advisory lock   *)
(* for its whole transaction, so what it reads and writes is one action; but  *)
(* the transaction is stamped (now()) when it starts, before it waits for the *)
(* lock.  A client reads and embeds, starts its transaction, commits, and     *)
(* busts the caches in steps.  Ordinals are the order of a sequence; labels,  *)
(* sections and wording are left out.                                        *)
(***************************************************************************)
EXTENDS Integers, Sequences, FiniteSets

CONSTANTS
    Clients,        \* browser tabs, each with one request at a time
    Texts,          \* texts of a requirement that fit in a chunk
    Long,           \* a text over the ceiling of a chunk
    First, Second,  \* the pieces it is split in
    NoText,         \* no text: an id not used yet, an operation without one
    IdBound,        \* bound: ids of requirements
    SnapBound,      \* bound: snapshots of the BRD
    WriteBound      \* bound: requests of clients

ASSUME TextAssumption ==
    First \in Texts /\ Second \in Texts /\ Long \notin Texts /\ NoText \notin Texts \cup {Long}
ASSUME BoundAssumption == IdBound \in Nat \ {0, 1} /\ SnapBound \in Nat /\ WriteBound \in Nat

VARIABLES
    brd,      \* brd_chunk with brd_embedding, brd_chunk_archive, requirement_change
    review,   \* brd_document.review_status
    snaps,    \* brd_snapshot, in the order its rows are written
    done,     \* change_request: the keys of the change sets that were applied
    req,      \* the request of each client
    clock,    \* the clock of the database, by the transactions stamped so far
    writes,   \* bounded counter
    blessed,  \* history variable: what was last approved or restored
    surprise, \* history variable: the BRD changed while an approve was under way
    overtaken,\* history variable: the baseline was stamped before an approved snapshot it follows
    runs      \* history variable: the keys of the change sets applied, with repetitions

bvars == <<brd, review, snaps, done, req, clock, writes, blessed, surprise, overtaken, runs>>

Ids == 1 .. IdBound
Elements(s) == {s[n] : n \in DOMAIN s}
\* the chunks a text is stored as (_split)
Pieces(t) == IF t = Long THEN <<First, Second>> ELSE <<t>>
Op == [kind : {"edit", "split", "add", "delete"}, id : 0 .. IdBound,
       text : Texts \cup {Long, NoText}, base : Texts \cup {NoText}]
Steps == {"idle", "ready", "commit", "capture", "approve", "restore", "bust"}
Idle == [step |-> "idle", ops |-> <<>>, keyed |-> FALSE, snap |-> 0, at |-> 0]

\* a requirement leaves the document only for the archive, with its id, text and vector
Archived(B) == {i \in 1 .. B.used : i \notin Elements(B.doc)}
\* _capture: the rows of a snapshot
Capture(B) == [n \in DOMAIN B.doc |->
                  [id |-> B.doc[n], text |-> B.text[B.doc[n]], vec |-> B.vec[B.doc[n]]]]
Contents(rows) == [n \in DOMAIN rows |-> rows[n].text]

-----------------------------------------------------------------------------
(* The operations of a transaction, on a value B of brd. *)

\* new requirements with the texts ts, after the first n ones (_insert_chunk)
Inserted(B, n, ts) ==
    LET new == [k \in DOMAIN ts |-> B.used + k]
        Filled(f) == [i \in Ids |-> IF i \in Elements(new) THEN ts[i - B.used] ELSE f[i]]
    IN  [B EXCEPT !.doc = SubSeq(@, 1, n) \o new \o SubSeq(@, n + 1, Len(@)),
                  !.used = @ + Len(ts), !.text = Filled(@), !.vec = Filled(@)]
Position(B, i) == CHOOSE n \in DOMAIN B.doc : B.doc[n] = i
\* _audit keeps the text from before a change
Audited(B, i) == [B EXCEPT !.old[i] = B.text[i]]
\* the first piece replaces requirement i, the others follow it
RewrittenOldVector(B, i, ts) ==
    Inserted([Audited(B, i) EXCEPT !.text[i] = ts[1]], Position(B, i), SubSeq(ts, 2, Len(ts)))
Rewritten(B, i, ts) ==
    Inserted([Audited(B, i) EXCEPT !.text[i] = ts[1], !.vec[i] = ts[1]],
             Position(B, i), SubSeq(ts, 2, Len(ts)))

\* ChunkNotFound or StaleRequirement
Refuses(B, op) ==
    \/ op.id # 0 /\ op.id \notin Elements(B.doc)
    \/ op.base # NoText /\ B.text[op.id] # op.base
\* _op_edit, split_requirement, _op_add, _op_delete
Edited(B, op) == IF B.text[op.id] = op.text THEN B ELSE Rewritten(B, op.id, Pieces(op.text))
Split(B, op) == Rewritten(B, op.id, <<First, Second>>)
Added(B, op) ==
    Inserted(B, IF op.id = 0 THEN Len(B.doc) ELSE Position(B, op.id), Pieces(op.text))
Deleted(B, op) ==
    LET n == Position(B, op.id)
    IN  [Audited(B, op.id) EXCEPT !.doc = SubSeq(@, 1, n - 1) \o SubSeq(@, n + 1, Len(@))]
After(B, op) ==
    IF Refuses(B, op) THEN B
    ELSE CASE op.kind = "edit" -> Edited(B, op)
           [] op.kind = "split" -> Split(B, op)
           [] op.kind = "add" -> Added(B, op)
           [] op.kind = "delete" -> Deleted(B, op)
\* the values brd goes through as the operations are carried out in order
States(B, ops) ==
    LET f[n \in 0 .. Len(ops)] == IF n = 0 THEN B ELSE After(f[n - 1], ops[n])
    IN  f
Fails(B, ops) ==
    LET states == States(B, ops)
    IN  \E n \in DOMAIN ops : Refuses(states[n - 1], ops[n])
-----------------------------------------------------------------------------
(* Restoring a snapshot: match its rows to live and archived requirements,    *)
(* then reconcile.                                                           *)

\* the first pass of align: rows with the content of a live requirement, each taken once
SameContent(B, rows) ==
    LET f[n \in 0 .. Len(rows)] ==
            IF n = 0 THEN [to |-> <<>>, left |-> DOMAIN B.doc]
            ELSE LET fits == {p \in f[n - 1].left : B.text[B.doc[p]] = rows[n].text}
                     p == CHOOSE p \in fits : \A q \in fits : p <= q
                 IN  IF fits = {} THEN [f[n - 1] EXCEPT !.to = Append(@, 0)]
                     ELSE [to |-> Append(f[n - 1].to, B.doc[p]), left |-> f[n - 1].left \ {p}]
    IN  f[Len(rows)].to
\* align: the rest by requirement id and by likeness, which may fit any way
Alignments(B, rows) ==
    LET same == SameContent(B, rows)
    IN  {a \in [DOMAIN rows -> Elements(B.doc) \cup {0}] :
            /\ \A n \in DOMAIN rows : same[n] # 0 => a[n] = same[n]
            /\ \A m, n \in DOMAIN rows : m # n /\ a[m] # 0 => a[m] # a[n]}

\* the requirement each row of a snapshot goes to, 0: a new one
Matched(B, rows, aligned) ==
    LET f[n \in 0 .. Len(rows)] ==
            IF n = 0 THEN <<>>
            ELSE LET taken == Elements(f[n - 1])
                     alike == {i \in Archived(B) \ taken : B.text[i] = rows[n].text}
                 IN  Append(f[n - 1],
                       IF rows[n].id \in Elements(B.doc) \ taken THEN rows[n].id
                       ELSE IF aligned[n] # 0 /\ aligned[n] \notin taken THEN aligned[n]
                       ELSE IF rows[n].id \in Archived(B) \ taken THEN rows[n].id
                       ELSE IF alike # {} THEN CHOOSE i \in alike : \A j \in alike : i <= j
                       ELSE 0)
    IN  f[Len(rows)]

\* the live requirements whose text changes when the document becomes doc
Overwritten(B, rows, doc) ==
    {i \in Elements(B.doc) : \E n \in DOMAIN doc : doc[n] = i /\ rows[n].text # B.text[i]}
\* reconcile: a live requirement takes the text of its row, and its vector with another text;
\* an archived one comes back as it was; live ones that no row wants are archived
Reconciled(B, rows, to) ==
    LET fresh == {n \in DOMAIN to : to[n] = 0}
        doc == [n \in DOMAIN to |->
                   IF to[n] # 0 THEN to[n] ELSE B.used + Cardinality({m \in fresh : m <= n})]
        live == Elements(B.doc)
        RowOf(i) == rows[CHOOSE n \in DOMAIN doc : doc[n] = i]
        rewritten == Overwritten(B, rows, doc)
        new == {doc[n] : n \in fresh}
    IN  [doc |-> doc, used |-> B.used + Cardinality(fresh),
         text |-> [i \in Ids |-> IF i \in rewritten \cup new THEN RowOf(i).text ELSE B.text[i]],
         vec |-> [i \in Ids |-> IF i \in rewritten \cup new THEN RowOf(i).vec ELSE B.vec[i]],
         old |-> [i \in Ids |-> IF i \in rewritten \cup (live \ Elements(doc)) THEN B.text[i]
                                ELSE B.old[i]]]
\* created_at is the start of the transaction; only that of approved ones is ever compared
Snapshot(kind, at, shown) == [kind |-> kind, at |-> at, rows |-> Capture(brd), shown |-> shown]
\* the approved snapshots a request sees, and the newest of them by created_at
Approved == {s \in DOMAIN snaps : snaps[s].kind = "approved" /\ snaps[s].shown}
Latest(S) == CHOOSE s \in S : \A q \in S : snaps[q].at <= snaps[s].at
-----------------------------------------------------------------------------
(* Requests: read and embed first. *)

MayBegin(c) == writes < WriteBound /\ req[c].step = "idle"
Begin(c, r) ==
    /\ MayBegin(c)
    /\ writes' = writes + 1
    /\ req' = [req EXCEPT ![c] = r]
    /\ UNCHANGED <<brd, review, snaps, done, clock, blessed, surprise, overtaken, runs>>
Single(op) == [Idle EXCEPT !.step = "ready", !.ops = <<op>>]
\* update_requirement; nothing to do when the text is the same
BeginUpdate(c, i, t) ==
    /\ i \in Elements(brd.doc) /\ t # brd.text[i]
    /\ Begin(c, Single([kind |-> "edit", id |-> i, text |-> t, base |-> NoText]))
\* the rows were proposed from the text the user saw, and may be from before another edit
BeginSplit(c, i) ==
    /\ i \in Elements(brd.doc)
    /\ Begin(c, Single([kind |-> "split", id |-> i, text |-> NoText, base |-> NoText]))
BeginAdd(c, i, t) ==
    /\ i \in Elements(brd.doc) \cup {0}
    /\ Begin(c, Single([kind |-> "add", id |-> i, text |-> t, base |-> NoText]))
BeginRemove(c, i) ==
    /\ i \in Elements(brd.doc)
    /\ Begin(c, Single([kind |-> "delete", id |-> i, text |-> NoText, base |-> NoText]))
\* revert_requirement takes the text before the last change from the audit trail
BeginRevert(c, i) ==
    /\ i \in Elements(brd.doc) /\ brd.old[i] # NoText /\ brd.old[i] # brd.text[i]
    /\ Begin(c, Single([kind |-> "edit", id |-> i, text |-> brd.old[i], base |-> NoText]))
\* An edit of a plan names the text it was found in; one that changes nothing is dropped.
EditOps(i) ==
    {[kind |-> "edit", id |-> i, text |-> t, base |-> brd.text[i]] : t \in Texts \ {brd.text[i]}}
DeleteOp(i) == [kind |-> "delete", id |-> i, text |-> NoText, base |-> brd.text[i]]
AddOp(t) == [kind |-> "add", id |-> 0, text |-> t, base |-> NoText]
\* plan_change: what a model makes of a story and the requirements found for it
Planned ==
    {<<AddOp(t)>> : t \in Texts}
    \cup UNION {{<<op, DeleteOp(j)>> : op \in EditOps(i), j \in Elements(brd.doc) \ {i}} :
                   i \in Elements(brd.doc)}
\* propose_scope_edit: the user has one more requirement aligned with the change
ScopeEdited(ops) ==
    {Append(ops, op) : op \in UNION {EditOps(i) : i \in Elements(brd.doc) \ {ops[n].id : n \in DOMAIN ops}}}
Plans == Planned \cup UNION {ScopeEdited(ops) : ops \in Planned}
\* _derive_key: what the operations of a plan are to its repetitions
Key(r) == r.ops
\* a plan that was applied is not applied again
BeginApply(c, ops) ==
    /\ ops \notin done
    /\ Begin(c, [Idle EXCEPT !.step = "ready", !.ops = ops, !.keyed = TRUE])
-----------------------------------------------------------------------------
(* Transactions. *)

\* the transaction of an edit starts, and waits for the document's lock
Open(c) ==
    /\ req[c].step = "ready"
    /\ clock' = clock + 1
    /\ req' = [req EXCEPT ![c].step = "commit", ![c].at = clock']
    /\ UNCHANGED <<brd, review, snaps, done, writes, blessed, surprise, overtaken, runs>>

BaselineKept(at) == [snaps |-> snaps, review |-> "draft"]
\* ensure_baseline_tx: the first edit since an approval keeps what was approved
Baseline(at) ==
    IF review = "approved"
    THEN [snaps |-> Append(snaps, Snapshot("approved", at, TRUE)), review |-> "draft"]
    ELSE [snaps |-> snaps, review |-> review]

CommitTwice(c) ==
    LET r == req[c]
        states == States(brd, r.ops)
    IN  /\ r.step = "commit" /\ ~Fails(brd, r.ops)
        /\ states[Len(r.ops)].used <= IdBound /\ Len(Baseline(r.at).snaps) <= SnapBound
        /\ brd' = states[Len(r.ops)]
        /\ snaps' = Baseline(r.at).snaps /\ review' = Baseline(r.at).review
        /\ done' = done \cup (IF r.keyed THEN {r.ops} ELSE {})
        /\ runs' = IF r.keyed THEN Append(runs, r.ops) ELSE runs
        /\ req' = [req EXCEPT ![c] = [Idle EXCEPT !.step = "bust"]]
        /\ UNCHANGED <<clock, writes, blessed, surprise, overtaken>>
\* all operations or none; the key is unique
Commit(c) ==
    LET r == req[c]
        states == States(brd, r.ops)
        base == Baseline(r.at)
    IN  /\ r.step = "commit"
        /\ r.keyed => Key(r) \notin done
        /\ ~Fails(brd, r.ops)
        /\ states[Len(r.ops)].used <= IdBound /\ Len(base.snaps) <= SnapBound
        /\ brd' = states[Len(r.ops)]
        /\ snaps' = base.snaps /\ review' = base.review
        /\ overtaken' = IF review = "approved" THEN \E s \in Approved : snaps[s].at >= r.at
                        ELSE overtaken
        /\ done' = IF r.keyed THEN done \cup {Key(r)} ELSE done
        /\ runs' = IF r.keyed THEN Append(runs, Key(r)) ELSE runs
        /\ req' = [req EXCEPT ![c] = IF ~r.keyed /\ brd' = brd THEN Idle
                                     ELSE [Idle EXCEPT !.step = "bust"]]
        /\ UNCHANGED <<clock, writes, blessed, surprise>>
\* a refused request, and a key that another request used first: its result is replayed
Refused(c) ==
    LET r == req[c]
    IN  /\ r.step = "commit"
        /\ (Fails(brd, r.ops) \/ (r.keyed /\ Key(r) \in done))
        /\ req' = [req EXCEPT ![c] = Idle]
        /\ UNCHANGED <<brd, review, snaps, done, clock, writes, blessed, surprise, overtaken, runs>>
\* embedding fails, the database is busy, or the process dies
Abandon(c) ==
    /\ req[c].step # "idle"
    /\ req' = [req EXCEPT ![c] = Idle]
    /\ UNCHANGED <<brd, review, snaps, done, clock, writes, blessed, surprise, overtaken, runs>>

\* snapshot
TakeSnapshot ==
    /\ writes < WriteBound /\ Len(snaps) < SnapBound
    /\ writes' = writes + 1
    /\ snaps' = Append(snaps, Snapshot("manual", 0, TRUE))
    /\ UNCHANGED <<brd, review, done, req, clock, blessed, surprise, overtaken, runs>>

\* approve takes no lock: its transaction starts, takes the snapshot, and commits
BeginApprove(c) ==
    /\ MayBegin(c)
    /\ writes' = writes + 1 /\ clock' = clock + 1
    /\ req' = [req EXCEPT ![c] = [Idle EXCEPT !.step = "capture", !.at = clock']]
    /\ UNCHANGED <<brd, review, snaps, done, blessed, surprise, overtaken, runs>>
CaptureApproved(c) ==
    /\ req[c].step = "capture" /\ Len(snaps) < SnapBound
    /\ snaps' = Append(snaps, Snapshot("approved", req[c].at, FALSE))
    /\ req' = [req EXCEPT ![c] = [Idle EXCEPT !.step = "approve", !.snap = Len(snaps')]]
    /\ UNCHANGED <<brd, review, done, clock, writes, blessed, surprise, overtaken, runs>>
CommitApprove(c) ==
    LET s == req[c].snap
    IN  /\ req[c].step = "approve"
        /\ snaps' = [snaps EXCEPT ![s].shown = TRUE]
        /\ review' = "approved"
        /\ blessed' = snaps[s].rows
        /\ surprise' = (Capture(brd) # snaps[s].rows)
        /\ req' = [req EXCEPT ![c] = Idle]
        /\ UNCHANGED <<brd, done, clock, writes, overtaken, runs>>

BeginRestore(c, s) ==
    /\ s \in DOMAIN snaps /\ snaps[s].shown
    /\ Begin(c, [Idle EXCEPT !.step = "restore", !.snap = s])
\* discard picks the newest approved snapshot and restores it in another transaction
BeginDiscard(c) ==
    /\ Approved # {}
    /\ Begin(c, [Idle EXCEPT !.step = "restore", !.snap = Latest(Approved)])
CommitRestore(c, aligned) ==
    LET rows == snaps[req[c].snap].rows
        to == Matched(brd, rows, aligned)
    IN  /\ req[c].step = "restore" /\ Len(snaps) < SnapBound
        /\ aligned \in Alignments(brd, rows)
        /\ brd.used + Cardinality({n \in DOMAIN to : to[n] = 0}) <= IdBound
        /\ snaps' = Append(snaps, Snapshot("auto", 0, TRUE))
        /\ brd' = Reconciled(brd, rows, to)
        /\ review' = "approved" /\ blessed' = Capture(brd') /\ surprise' = FALSE
        /\ req' = [req EXCEPT ![c] = [Idle EXCEPT !.step = "bust"]]
        /\ UNCHANGED <<done, clock, writes, overtaken, runs>>

\* the caches of the project are emptied after the commit
Bust(c) ==
    /\ req[c].step = "bust"
    /\ req' = [req EXCEPT ![c] = Idle]
    /\ UNCHANGED <<brd, review, snaps, done, clock, writes, blessed, surprise, overtaken, runs>>

Blank == [i \in Ids |-> NoText]
InitBrd ==
    /\ \E b \in Texts \cup {NoText} :   \* one requirement or two
          LET t == [Blank EXCEPT ![1] = First, ![2] = b]
          IN  brd = [doc |-> IF b = NoText THEN <<1>> ELSE <<1, 2>>,
                     used |-> IF b = NoText THEN 1 ELSE 2, text |-> t, vec |-> t, old |-> Blank]
    /\ review = "approved" /\ snaps = <<>> /\ done = {} /\ clock = 0 /\ writes = 0
    /\ req = [c \in Clients |-> Idle]
    /\ blessed = Capture(brd) /\ surprise = FALSE /\ overtaken = FALSE /\ runs = <<>>

Request(c) ==
    /\ MayBegin(c)
    /\ \/ \E i \in Ids, t \in Texts \cup {Long} : BeginUpdate(c, i, t)
       \/ \E i \in Ids : BeginSplit(c, i) \/ BeginRemove(c, i) \/ BeginRevert(c, i)
       \/ \E i \in 0 .. IdBound, t \in Texts \cup {Long} : BeginAdd(c, i, t)
       \/ \E ops \in Plans : BeginApply(c, ops)
       \/ BeginApprove(c) \/ BeginDiscard(c)
       \/ \E s \in DOMAIN snaps : BeginRestore(c, s)
Write(c) ==
    \/ Open(c) \/ Commit(c) \/ Refused(c) \/ CaptureApproved(c) \/ CommitApprove(c)
    \/ /\ req[c].step = "restore"
       /\ \E aligned \in Alignments(brd, snaps[req[c].snap].rows) : CommitRestore(c, aligned)

-----------------------------------------------------------------------------
(* Properties. *)

\* Rows keep their types.
BrdTypeOK ==
    /\ brd.doc \in Seq(Ids) /\ brd.used \in 0 .. IdBound
    /\ brd.text \in [Ids -> Texts \cup {NoText}] /\ brd.vec \in [Ids -> Texts \cup {NoText}]
    /\ brd.old \in [Ids -> Texts \cup {NoText}]
    /\ review \in {"approved", "draft"} /\ writes \in 0 .. WriteBound
    /\ \A s \in DOMAIN snaps : snaps[s].kind \in {"approved", "manual", "auto"}
    /\ \A c \in Clients : req[c].step \in Steps
    /\ \A c \in Clients : req[c].ops \in Seq(Op)

\* A requirement is searched by the vector of the text it shows, through edits, splits,
\* archiving and restores ("they never disagree", edit.py:11).
VectorsMatchText ==
    /\ \A i \in 1 .. brd.used : brd.vec[i] = brd.text[i] /\ brd.text[i] # NoText
    /\ \A m, n \in DOMAIN brd.doc : m # n => brd.doc[m] # brd.doc[n]

\* A BRD that is not a draft says what was approved or restored last, unless somebody edited
\* it while an approve was under way.
ApprovedIsReviewed == review = "approved" => surprise \/ Capture(brd) = blessed

\* Discarding a draft goes back to what was approved or restored last, whichever requests
\* took snapshots, approved or restored meanwhile, unless an edit that had started before an
\* approval was overtaken by it.
DiscardFindsReviewed ==
    review = "draft" /\ ~surprise /\ ~overtaken
        => Approved # {} /\ snaps[Latest(Approved)].rows = blessed
\* "Discards (restores the baseline)" (versioning.py:6); not when it is overtaken
DiscardRestoresBaseline ==
    review = "draft" /\ ~surprise
        => Approved # {} /\ snaps[Latest(Approved)].rows = blessed

\* A change set is applied once, however often it is submitted.
AppliedOnce == \A m, n \in DOMAIN runs : m # n => runs[m] # runs[n]

\* A restore gives the texts of the snapshot in their order, but for an archived requirement
\* that comes back with the text it was archived with.
RestoresText ==
    [][\A c \in Clients :
         LET rows == snaps[req[c].snap].rows
         IN  req[c].step = "restore" /\ req'[c].step = "bust"
               => /\ Len(brd'.doc) = Len(rows)
                  /\ \A n \in DOMAIN rows :
                       \/ brd'.text[brd'.doc[n]] = rows[n].text
                       \/ rows[n].id = brd'.doc[n] /\ rows[n].id \in Archived(brd)]_bvars
\* "restore is exact" (versioning.py:4)
RestoreIsExact ==
    [][\A c \in Clients : req[c].step = "restore" /\ req'[c].step = "bust"
         => Contents(Capture(brd')) = Contents(snaps[req[c].snap].rows)]_bvars
\* "matched to a live requirement (same id first ...)" (versioning.py:55): a requirement that
\* the snapshot holds is there again after the restore
RestoreKeepsIds ==
    [][\A c \in Clients : req[c].step = "restore" /\ req'[c].step = "bust"
         => \A n \in DOMAIN snaps[req[c].snap].rows :
               snaps[req[c].snap].rows[n].id \in Elements(brd'.doc)]_bvars
=============================================================================
