------------------------------ MODULE SourceStore ------------------------------
(***************************************************************************)
(* The object store (core/storage.py) beside the rows that refer to it: the   *)
(* source files of BRDs (submit, purge_after_brd_delete and the sweep of       *)
(* ingest/jobs.py), whose keys are the hash of the content, and the files of    *)
(* proofs (use_cases/testing.py), whose keys are new and which wait in the     *)
(* database while the store is down.                                       *)
(*                                                                         *)
(* Objects and rows are changed by separate calls, so each call is an action. *)
(* A file is its key.                                                       *)
(***************************************************************************)
EXTENDS Integers, FiniteSets

CONSTANTS
    Sources,     \* contents of source files
    ProofKeys,   \* keys for proof files, each generated once
    Brds,        \* BRDs of the owner
    Proofs,      \* proofs of test results
    Uploads,     \* requests that upload a file, and the movers of files
    Cleaners,    \* requests that delete rows and then objects, and the sweepers
    NoKey,       \* no object
    PutBound,    \* bound: files put
    FaultBound   \* bound: failed calls

ASSUME KeyAssumption == Sources \cap ProofKeys = {} /\ NoKey \notin Sources \cup ProofKeys
ASSUME BoundAssumption == PutBound \in Nat /\ FaultBound \in Nat

VARIABLES
    age,      \* the objects: absent, or how long ago they were put
    rows,     \* brd_source: which BRDs refer to which source
    proof,    \* use_case_test_proof: where the file is
    upload,   \* an upload between its put and its row
    clean,    \* a cleaner: what it has found out
    used,     \* proof keys generated so far
    puts, faults,   \* bounded counters
    raced     \* history variable: keys put, or about to be referred to, once they were to be deleted
vars == <<age, rows, proof, upload, clean, used, puts, faults, raced>>

Keys == Sources \cup ProofKeys
\* under 10 minutes, under an hour, older
Ages == {"fresh", "young", "old"}
Present(k) == age[k] # "absent"
Referenced(k) ==
    IF k \in Sources THEN \E b \in Brds : <<b, k>> \in rows
    ELSE \E p \in Proofs : proof[p].key = k
NoFile == [where |-> "none", key |-> NoKey]
Ready == [step |-> "ready", key |-> NoKey, brd |-> NoKey]
Resting == [step |-> "rest", keys |-> {}, kind |-> "sources", late |-> {}]
Pending(k) == \E u \in Uploads : upload[u].key = k
ToDelete(k) == \E d \in Cleaners : clean[d].step = "remove" /\ k \in clean[d].keys

Fault == faults < FaultBound /\ faults' = faults + 1
-----------------------------------------------------------------------------
(* Uploads: the object first, then its row. *)

\* put: the object is there again, or still, and new; a cleaner that has read the rows and is to
\* list the objects has missed its row
PutObject(k) ==
    /\ age' = [age EXCEPT ![k] = "fresh"]
    /\ clean' = [d \in Cleaners |->
          IF clean[d].step \in {"list", "sweep"} THEN [clean[d] EXCEPT !.late = @ \cup {k}] ELSE clean[d]]
\* submit
PutSource(u, b, k) ==
    /\ upload[u].step = "ready" /\ puts < PutBound /\ <<b, k>> \notin rows
    /\ puts' = puts + 1
    /\ PutObject(k)
    /\ raced' = IF ToDelete(k) THEN raced \cup {k} ELSE raced \ {k}
    /\ upload' = [upload EXCEPT ![u] = [step |-> "insert", key |-> k, brd |-> b]]
    /\ UNCHANGED <<rows, proof, used, faults>>
InsertSource(u) ==
    /\ upload[u].step = "insert" /\ upload[u].key \in Sources
    /\ rows' = rows \cup {<<upload[u].brd, upload[u].key>>}
    /\ upload' = [upload EXCEPT ![u] = Ready]
    /\ UNCHANGED <<age, proof, clean, used, puts, faults, raced>>
\* stage_proof, _put_blob
PutProof(u, p, k) ==
    /\ upload[u].step = "ready" /\ puts < PutBound
    /\ k \notin used /\ proof[p] = NoFile
    /\ puts' = puts + 1 /\ used' = used \cup {k}
    /\ PutObject(k)
    /\ upload' = [upload EXCEPT ![u] = [step |-> "insert", key |-> k, brd |-> p]]
    /\ UNCHANGED <<rows, proof, faults, raced>>
InsertProof(u) ==
    LET p == upload[u].brd
    IN  /\ upload[u].step = "insert" /\ upload[u].key \in ProofKeys
        /\ proof[p] = NoFile
        /\ proof' = [proof EXCEPT ![p] = [where |-> "store", key |-> upload[u].key]]
        /\ upload' = [upload EXCEPT ![u] = Ready]
        /\ UNCHANGED <<age, rows, clean, used, puts, faults, raced>>
\* the store is down: the file is kept in the row
InsertBytes(p) ==
    /\ proof[p] = NoFile /\ Fault
    /\ proof' = [proof EXCEPT ![p].where = "db"]
    /\ UNCHANGED <<age, rows, upload, clean, used, puts, raced>>
\* move_blobs_to_storage: put, then switch the row if it is still there and not moved
BeginMove(u, p, k) ==
    /\ upload[u].step = "ready" /\ puts < PutBound
    /\ k \notin used /\ proof[p].where = "db"
    /\ puts' = puts + 1 /\ used' = used \cup {k}
    /\ PutObject(k)
    /\ upload' = [upload EXCEPT ![u] = [step |-> "switch", key |-> k, brd |-> p]]
    /\ UNCHANGED <<rows, proof, faults, raced>>
Switch(u) ==
    LET p == upload[u].brd
        k == upload[u].key
    IN  /\ upload[u].step = "switch"
        /\ IF proof[p].where = "db"
           THEN /\ proof' = [proof EXCEPT ![p] = [where |-> "store", key |-> k]]
                /\ UNCHANGED age
           ELSE /\ age' = [age EXCEPT ![k] = "absent"]
                /\ UNCHANGED proof
        /\ upload' = [upload EXCEPT ![u] = Ready]
        /\ UNCHANGED <<rows, clean, used, puts, faults, raced>>
\* a refused row, a failed statement or a crash: the object stays behind
UploadFails(u) ==
    /\ upload[u].step # "ready" /\ Fault
    /\ upload' = [upload EXCEPT ![u] = Ready]
    /\ UNCHANGED <<age, rows, proof, clean, used, puts, raced>>
-----------------------------------------------------------------------------
(* Cleaning up: rows first, then objects. *)

Set(d, step, keys, kind) ==
    clean' = [clean EXCEPT ![d] =
        [step |-> step, keys |-> keys, kind |-> kind,
         late |-> IF step \in {"list", "sweep"} THEN {k \in Keys : Pending(k)} ELSE {}]]
\* delete_brd, with the keys of its sources
DeleteBrd(d, b) ==
    LET keys == {k \in Sources : <<b, k>> \in rows}
    IN  /\ clean[d].step = "rest" /\ keys # {}
        /\ rows' = {r \in rows : r[1] # b}
        /\ Set(d, "recheck", keys, "sources")
        /\ UNCHANGED <<age, proof, upload, used, puts, faults, raced>>
RecheckNothing(d) ==
    /\ clean[d].step = "recheck"
    /\ Set(d, "list", clean[d].keys, "sources")
    /\ UNCHANGED <<age, rows, proof, upload, used, puts, faults, raced>>
\* purge_after_brd_delete: not those another row refers to
Recheck(d) ==
    /\ clean[d].step = "recheck"
    /\ Set(d, "list", {k \in clean[d].keys : ~Referenced(k)}, "sources")
    /\ UNCHANGED <<age, rows, proof, upload, used, puts, faults, raced>>
\* nor those put in the last ten minutes
ListForPurge(d) ==
    /\ clean[d].step = "list"
    /\ Set(d, "remove", {k \in clean[d].keys : age[k] # "fresh"}, "sources")
    /\ UNCHANGED <<age, rows, proof, upload, used, puts, faults, raced>>
\* the ages cannot be had: all are deleted
ListFails(d) ==
    /\ clean[d].step = "list" /\ Fault
    /\ Set(d, "remove", clean[d].keys, "sources")
    /\ raced' = raced \cup {k \in clean[d].keys : age[k] = "fresh"}
    /\ UNCHANGED <<age, rows, proof, upload, used, puts>>
\* rows of proofs are deleted, then their objects, unseen
DropProofs(d, ps) ==
    /\ clean[d].step = "rest" /\ \A p \in ps : proof[p] # NoFile
    /\ proof' = [p \in Proofs |-> IF p \in ps THEN NoFile ELSE proof[p]]
    /\ Set(d, "remove", {proof[p].key : p \in ps} \ {NoKey}, "proofs")
    /\ UNCHANGED <<age, rows, upload, used, puts, faults, raced>>
\* delete_proof
DeleteProof(d, p) == DropProofs(d, {p})
\* the proofs of a BRD go with it (delete_brd)
PurgeProofs(d) == \E ps \in SUBSET Proofs : ps # {} /\ DropProofs(d, ps)
\* (a sweep of the sources that lists under no prefix meets the proofs' objects too)
BeginSweepAll(d, kind) ==
    LET S == IF kind = "sources" THEN Keys ELSE ProofKeys
    IN  /\ clean[d].step = "rest"
        /\ Set(d, "sweep", {k \in S : \A b \in Brds : <<b, k>> \notin rows}, kind)
        /\ UNCHANGED <<age, rows, proof, upload, used, puts, faults, raced>>
\* sweep_orphan_sources, every six hours
BeginSweep(d, kind) ==
    LET S == IF kind = "sources" THEN Sources ELSE ProofKeys
    IN  /\ clean[d].step = "rest"
        /\ Set(d, "sweep", {k \in S : ~Referenced(k)}, kind)
        /\ UNCHANGED <<age, rows, proof, upload, used, puts, faults, raced>>
\* gc_proof_objects: when a process starts, after it has moved files
SweepProofs(d) == BeginSweep(d, "proofs")
\* the age from which an object without a row is swept
SweptAgesRecent(kind) == IF kind = "sources" THEN {"fresh", "young"} ELSE Ages
SweptAges(kind) == IF kind = "sources" THEN {"old"} ELSE Ages
\* gc_orphans lists the objects
ListForSweep(d) ==
    LET stale == {k \in clean[d].keys : age[k] \in SweptAges(clean[d].kind)}
        begun == {k \in stale : clean[d].kind = "proofs" /\ (Pending(k) \/ Referenced(k))}
    IN  /\ clean[d].step = "sweep"
        /\ Set(d, "remove", stale, clean[d].kind)
        /\ raced' = raced \cup begun
        /\ UNCHANGED <<age, rows, proof, upload, used, puts, faults>>
\* delete_quietly, one object after another; a failure is passed over
Remove(d, k) ==
    /\ clean[d].step = "remove" /\ k \in clean[d].keys
    /\ age' = [age EXCEPT ![k] = "absent"]
    /\ Set(d, "remove", clean[d].keys \ {k}, clean[d].kind)
    /\ UNCHANGED <<rows, proof, upload, used, puts, faults, raced>>
RemoveFails(d, k) ==
    /\ clean[d].step = "remove" /\ k \in clean[d].keys /\ Present(k) /\ Fault
    /\ Set(d, "remove", clean[d].keys \ {k}, clean[d].kind)
    /\ UNCHANGED <<age, rows, proof, upload, used, puts, raced>>
Done(d) ==
    /\ clean[d].step = "remove" /\ clean[d].keys = {}
    /\ clean' = [clean EXCEPT ![d] = Resting]
    /\ UNCHANGED <<age, rows, proof, upload, used, puts, faults, raced>>
CleanerDies(d) ==
    /\ clean[d].step # "rest" /\ Fault
    /\ clean' = [clean EXCEPT ![d] = Resting]
    /\ UNCHANGED <<age, rows, proof, upload, used, puts, raced>>
\* Time passes. A row follows its object, and the listing of objects the reading of the rows,
\* within ten minutes.
Grow(k) ==
    /\ age[k] \in {"fresh", "young"} /\ ~Pending(k)
    /\ \A d \in Cleaners : k \notin clean[d].late
    /\ age' = [age EXCEPT ![k] = IF @ = "fresh" THEN "young" ELSE "old"]
    /\ UNCHANGED <<rows, proof, upload, clean, used, puts, faults, raced>>
-----------------------------------------------------------------------------
Init ==
    /\ age = [k \in Keys |-> "absent"] /\ rows = {} /\ used = {}
    /\ proof = [p \in Proofs |-> NoFile]
    /\ upload = [u \in Uploads |-> Ready] /\ clean = [d \in Cleaners |-> Resting]
    /\ puts = 0 /\ faults = 0 /\ raced = {}
Up(u) ==
    \/ \E b \in Brds, k \in Sources : PutSource(u, b, k)
    \/ \E p \in Proofs, k \in ProofKeys : PutProof(u, p, k) \/ BeginMove(u, p, k)
    \/ InsertSource(u) \/ InsertProof(u) \/ Switch(u) \/ UploadFails(u)
Finding(d) == Recheck(d) \/ ListForPurge(d) \/ ListForSweep(d) \/ Done(d)
Down(d) ==
    \/ \E b \in Brds : DeleteBrd(d, b)
    \/ PurgeProofs(d) \/ \E p \in Proofs : DeleteProof(d, p)
    \/ BeginSweep(d, "sources") \/ SweepProofs(d)
    \/ Finding(d) \/ ListFails(d) \/ CleanerDies(d)
    \/ \E k \in Keys : Remove(d, k) \/ RemoveFails(d, k)
Next ==
    \/ \E u \in Uploads : Up(u)
    \/ \E d \in Cleaners : Down(d)
    \/ \E p \in Proofs : InsertBytes(p)
    \/ \E k \in Keys : Grow(k)
Spec == Init /\ [][Next]_vars
\* A cleaner goes on, the sweep of sources comes round again (every six hours), uploads end and
\* time passes.
FairSpec ==
    /\ Spec
    /\ \A d \in Cleaners :
          /\ WF_vars(Finding(d)) /\ SF_vars(BeginSweep(d, "sources"))
          /\ \A k \in Keys : WF_vars(Remove(d, k))
    /\ \A u \in Uploads : WF_vars(InsertSource(u)) /\ WF_vars(InsertProof(u)) /\ WF_vars(Switch(u))
    /\ \A k \in Keys : SF_vars(Grow(k))
-----------------------------------------------------------------------------
TypeOK ==
    /\ age \in [Keys -> Ages \cup {"absent"}] /\ rows \subseteq Brds \X Sources
    /\ proof \in [Proofs -> [where : {"none", "db", "store"}, key : ProofKeys \cup {NoKey}]]
    /\ upload \in [Uploads -> [step : {"ready", "insert", "switch"}, key : Keys \cup {NoKey},
                               brd : Brds \cup Proofs \cup {NoKey}]]
    /\ clean \in [Cleaners -> [step : {"rest", "recheck", "list", "sweep", "remove"},
                               keys : SUBSET Keys, kind : {"sources", "proofs"},
                               late : SUBSET Keys]]
    /\ used \subseteq ProofKeys /\ raced \subseteq Keys
    /\ puts \in 0 .. PutBound /\ faults \in 0 .. FaultBound

\* The file of every source row can be read again: purges and sweeps never take it, unless an
\* identical upload put it after they had listed it.
SourcesKept == \A k \in Sources : Referenced(k) => Present(k) \/ k \in raced

\* A proof's file is in its row or in the store, through moves and deletes, unless the sweep of a
\* starting process came between its object and its row.
ProofsKept ==
    \A p \in Proofs :
        proof[p].where = "store" => Present(proof[p].key) \/ proof[p].key \in raced

\* Two proofs never share an object, so that deleting one keeps the other.
ProofsApart ==
    \A p, q \in Proofs : p # q /\ proof[p].key # NoKey => proof[p].key # proof[q].key

\* A source object that nothing refers to any more is removed in the end.
OrphansGo == \A k \in Sources : (Present(k) /\ ~Referenced(k)) ~> (~Present(k) \/ Referenced(k))

\* "a concurrent BRD-delete purge ... can never win against this upload" (jobs.py:153-156)
UploadWins == \A k \in Sources : Referenced(k) => Present(k)
=============================================================================
