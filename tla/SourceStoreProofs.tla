--------------------------- MODULE SourceStoreProofs ---------------------------
(***************************************************************************)
(* Proofs about SourceStore, for any files, BRDs, requests and bounds.         *)
(***************************************************************************)
EXTENDS SourceStore, TLAPS

Upload == [step : {"ready", "insert", "switch"}, key : Keys \cup {NoKey},
           brd : Brds \cup Proofs \cup {NoKey}]
File == [where : {"none", "db", "store"}, key : ProofKeys \cup {NoKey}]
Cleaning == [step : {"rest", "recheck", "list", "sweep", "remove"},
             keys : SUBSET Keys, kind : {"sources", "proofs"}, late : SUBSET Keys]

\* a row refers to the object, or is about to
Wanted(k) == Referenced(k) \/ Pending(k)

\* what an upload, a proof and a cleaner hold
ShapeOK ==
    /\ \A u \in Uploads :
          LET c == upload[u]
          IN  /\ c.step = "ready" <=> c.key = NoKey
              /\ c.key \in Sources => c.step = "insert" /\ c.brd \in Brds
              /\ c.key \in ProofKeys => c.brd \in Proofs
    /\ \A p \in Proofs : proof[p].key \in ProofKeys <=> proof[p].where = "store"
    /\ \A d \in Cleaners :
          LET c == clean[d]
          IN  /\ c.kind = "sources" => c.keys \subseteq Sources
              /\ c.kind = "proofs" => c.keys \subseteq ProofKeys /\ c.step \in {"sweep", "remove"}
\* a proof key is generated once, and one upload or one proof has it
Apart ==
    /\ \A k \in ProofKeys : Wanted(k) \/ Present(k) \/ ToDelete(k) => k \in used
    /\ \A p, q \in Proofs : p # q /\ proof[p].key \in ProofKeys => proof[p].key # proof[q].key
    /\ \A u, v \in Uploads : u # v /\ upload[u].key \in ProofKeys => upload[u].key # upload[v].key
    /\ \A u \in Uploads, p \in Proofs : upload[u].key \in ProofKeys => upload[u].key # proof[p].key
\* what is wanted is there, and what is to be deleted is not wanted
Kept == \A k \in Keys : Wanted(k) => Present(k) \/ k \in raced
Doomed == \A k \in Keys : ToDelete(k) /\ Wanted(k) => k \in raced
\* a source that is wanted although a cleaner read the rows without it came after that reading
CameLate ==
    \A d \in Cleaners, k \in Sources :
        clean[d].step \in {"list", "sweep"} /\ k \in clean[d].keys /\ Wanted(k) => k \in clean[d].late
\* and has not had the time to age
StillNew ==
    \A k \in Keys : Pending(k) \/ (\E d \in Cleaners : k \in clean[d].late)
                       => age[k] \in {"fresh", "absent"}
IInv == TypeOK /\ ShapeOK /\ Apart /\ Kept /\ Doomed /\ CameLate /\ StillNew

-----------------------------------------------------------------------------
(* Types.                                                                    *)

\* the uploads that a reading of the rows misses
LateAt(step) == IF step \in {"list", "sweep"} THEN {k \in Keys : Pending(k)} ELSE {}

LEMMA SetTyped ==
    ASSUME TypeOK, NEW d \in Cleaners,
           NEW step \in {"rest", "recheck", "list", "sweep", "remove"}, NEW keys \in SUBSET Keys,
           NEW kind \in {"sources", "proofs"}, Set(d, step, keys, kind)
    PROVE  /\ clean' \in [Cleaners -> Cleaning]
           /\ \A e \in Cleaners : e # d => clean'[e] = clean[e]
           /\ clean'[d].step = step /\ clean'[d].keys = keys /\ clean'[d].kind = kind
           /\ clean'[d].late = LateAt(step)
<1> DEFINE late == LateAt(step)
           c == [step |-> step, keys |-> keys, kind |-> kind, late |-> late]
<1>1. late \in SUBSET Keys
  BY DEF LateAt
<1>2. clean' = [clean EXCEPT ![d] = c]
  BY DEF Set, LateAt
<1> HIDE DEF late
<1>3. c \in Cleaning
  BY <1>1 DEF Cleaning
<1>4. clean \in [Cleaners -> Cleaning]
  BY DEF TypeOK, Cleaning
<1>5. clean' \in [Cleaners -> Cleaning] /\ clean'[d] = c
  BY <1>2, <1>3, <1>4
<1>6. \A e \in Cleaners : e # d => clean'[e] = clean[e]
  BY <1>2, <1>4
<1> QED
  BY <1>5, <1>6 DEF late

LEMMA PutTyped ==
    ASSUME TypeOK, NEW k \in Keys, PutObject(k)
    PROVE  /\ age' \in [Keys -> Ages \cup {"absent"}] /\ clean' \in [Cleaners -> Cleaning]
           /\ age'[k] = "fresh" /\ \A j \in Keys : j # k => age'[j] = age[j]
           /\ \A d \in Cleaners :
                 /\ clean'[d].step = clean[d].step /\ clean'[d].keys = clean[d].keys
                 /\ clean'[d].kind = clean[d].kind
                 /\ clean[d].step \in {"list", "sweep"} => clean'[d].late = clean[d].late \cup {k}
                 /\ clean[d].step \notin {"list", "sweep"} => clean'[d].late = clean[d].late
<1>1. age' = [age EXCEPT ![k] = "fresh"]
  BY DEF PutObject
<1>2. age' \in [Keys -> Ages \cup {"absent"}]
  BY <1>1 DEF TypeOK, Ages
<1>3. age'[k] = "fresh" /\ \A j \in Keys : j # k => age'[j] = age[j]
  BY <1>1 DEF TypeOK
<1>4. clean \in [Cleaners -> Cleaning]
  BY DEF TypeOK, Cleaning
<1>5. ASSUME NEW d \in Cleaners
      PROVE  /\ clean'[d] \in Cleaning
             /\ clean'[d].step = clean[d].step /\ clean'[d].keys = clean[d].keys
             /\ clean'[d].kind = clean[d].kind
             /\ clean[d].step \in {"list", "sweep"} => clean'[d].late = clean[d].late \cup {k}
             /\ clean[d].step \notin {"list", "sweep"} => clean'[d].late = clean[d].late
  <2> DEFINE more == clean[d].late \cup {k}
  <2>1. more \in SUBSET Keys
    BY <1>4 DEF Cleaning
  <2>2. clean'[d] = IF clean[d].step \in {"list", "sweep"} THEN [clean[d] EXCEPT !.late = more]
                    ELSE clean[d]
    BY DEF PutObject
  <2> HIDE DEF more
  <2>3. clean[d] \in Cleaning
    BY <1>4
  <2> QED
    BY <2>1, <2>2, <2>3 DEF Cleaning, more
<1>6. clean' \in [Cleaners -> Cleaning]
  <2>1. clean' = [d \in Cleaners |-> clean'[d]]
    BY DEF PutObject
  <2> QED
    BY <1>5, <2>1
<1> QED
  BY <1>2, <1>3, <1>5, <1>6

\* how an upload changes
LEMMA UploadTyped ==
    ASSUME TypeOK, NEW u \in Uploads, NEW c \in Upload, upload' = [upload EXCEPT ![u] = c]
    PROVE  /\ upload' \in [Uploads -> Upload] /\ upload'[u] = c
           /\ \A v \in Uploads : v # u => upload'[v] = upload[v]
  BY DEF TypeOK, Upload

LEMMA ProofTyped ==
    ASSUME TypeOK, NEW p \in Proofs, NEW c \in File, proof' = [proof EXCEPT ![p] = c]
    PROVE  /\ proof' \in [Proofs -> File] /\ proof'[p] = c
           /\ \A q \in Proofs : q # p => proof'[q] = proof[q]
  BY DEF TypeOK, File

LEMMA ReadyTyped == Ready \in Upload /\ Resting \in Cleaning /\ NoFile \in File
<1>1. Ready \in Upload
  BY DEF Ready, Upload
<1>2. Resting \in Cleaning
  BY DEF Resting, Cleaning
<1>3. NoFile \in File
  BY DEF NoFile, File
<1> QED
  BY <1>1, <1>2, <1>3

LEMMA CountersTyped ==
    ASSUME TypeOK
    PROVE  /\ Fault => faults' \in 0 .. FaultBound
           /\ puts < PutBound /\ puts' = puts + 1 => puts' \in 0 .. PutBound
  BY BoundAssumption DEF TypeOK, Fault

LEMMA UpTyped ==
    ASSUME TypeOK, ShapeOK, NEW u \in Uploads, Up(u)
    PROVE  TypeOK'
<1>1. ASSUME NEW b \in Brds, NEW k \in Sources, PutSource(u, b, k)
      PROVE  TypeOK'
  <2> DEFINE c == [step |-> "insert", key |-> k, brd |-> b]
  <2>1. k \in Keys /\ c \in Upload
    BY DEF Keys, Upload
  <2>2. upload' \in [Uploads -> Upload] /\ PutObject(k)
    BY <1>1, <2>1, UploadTyped DEF PutSource
  <2>3. age' \in [Keys -> Ages \cup {"absent"}] /\ clean' \in [Cleaners -> Cleaning]
    BY <2>1, <2>2, PutTyped
  <2>4. raced' \subseteq Keys
    BY <1>1, <2>1 DEF PutSource, TypeOK
  <2>5. puts' \in 0 .. PutBound /\ UNCHANGED <<rows, proof, used, faults>>
    BY <1>1, CountersTyped DEF PutSource
  <2> QED
    BY <2>2, <2>3, <2>4, <2>5 DEF TypeOK, Upload, Cleaning
<1>2. ASSUME NEW p \in Proofs, NEW k \in ProofKeys, PutProof(u, p, k) \/ BeginMove(u, p, k)
      PROVE  TypeOK'
  <2> DEFINE c == [step |-> "insert", key |-> k, brd |-> p]
             m == [step |-> "switch", key |-> k, brd |-> p]
  <2>1. k \in Keys /\ c \in Upload /\ m \in Upload
    BY DEF Keys, Upload
  <2>2. PutObject(k) /\ (upload' = [upload EXCEPT ![u] = c] \/ upload' = [upload EXCEPT ![u] = m])
    BY <1>2 DEF PutProof, BeginMove
  <2>3. upload' \in [Uploads -> Upload]
    BY <2>1, <2>2, UploadTyped
  <2>4. age' \in [Keys -> Ages \cup {"absent"}] /\ clean' \in [Cleaners -> Cleaning]
    BY <2>1, <2>2, PutTyped
  <2>5. /\ puts' \in 0 .. PutBound /\ used' \subseteq ProofKeys
        /\ UNCHANGED <<rows, proof, faults, raced>>
    <3>1. puts' \in 0 .. PutBound
      BY <1>2, CountersTyped DEF PutProof, BeginMove
    <3>2. used' \subseteq ProofKeys /\ UNCHANGED <<rows, proof, faults, raced>>
      BY <1>2 DEF PutProof, BeginMove, TypeOK
    <3> QED
      BY <3>1, <3>2
  <2> QED
    BY <2>3, <2>4, <2>5 DEF TypeOK, Upload, Cleaning
<1>3. ASSUME InsertSource(u)
      PROVE  TypeOK'
  <2>1. upload' \in [Uploads -> Upload]
    BY <1>3, ReadyTyped, UploadTyped DEF InsertSource
  <2>2. rows' \subseteq Brds \X Sources
    BY <1>3 DEF InsertSource, ShapeOK, TypeOK
  <2> QED
    BY <1>3, <2>1, <2>2 DEF InsertSource, TypeOK, Upload
<1>4. ASSUME InsertProof(u)
      PROVE  TypeOK'
  <2> DEFINE c == [where |-> "store", key |-> upload[u].key]
  <2>1. upload' \in [Uploads -> Upload]
    BY <1>4, ReadyTyped, UploadTyped DEF InsertProof
  <2>2. upload[u].brd \in Proofs /\ c \in File
    BY <1>4 DEF InsertProof, ShapeOK, File
  <2>3. proof' \in [Proofs -> File]
    BY <1>4, <2>2, ProofTyped DEF InsertProof
  <2> QED
    BY <1>4, <2>1, <2>3 DEF InsertProof, TypeOK, Upload, File
<1>5. ASSUME Switch(u)
      PROVE  TypeOK'
  <2> DEFINE c == [where |-> "store", key |-> upload[u].key]
  <2>1. upload' \in [Uploads -> Upload]
    BY <1>5, ReadyTyped, UploadTyped DEF Switch
  <2>2. upload[u].key \in ProofKeys /\ upload[u].brd \in Proofs
    <3>1. upload[u].key \in Keys \cup {NoKey} /\ upload[u].step = "switch"
      BY <1>5 DEF Switch, TypeOK
    <3> QED
      BY <3>1 DEF ShapeOK, Keys
  <2>3. c \in File
    BY <2>2 DEF File
  <2>4. proof' \in [Proofs -> File]
    <3>1. proof' = proof \/ proof' = [proof EXCEPT ![upload[u].brd] = c]
      BY <1>5 DEF Switch
    <3> HIDE DEF c
    <3>2. proof \in [Proofs -> File]
      BY DEF TypeOK, File
    <3> QED
      BY <2>2, <2>3, <3>1, <3>2
  <2>5. age' \in [Keys -> Ages \cup {"absent"}]
    BY <1>5 DEF Switch, TypeOK
  <2> QED
    BY <1>5, <2>1, <2>4, <2>5 DEF Switch, TypeOK, Upload, File
<1>6. ASSUME UploadFails(u)
      PROVE  TypeOK'
  <2>1. upload' \in [Uploads -> Upload]
    BY <1>6, ReadyTyped, UploadTyped DEF UploadFails
  <2>2. faults' \in 0 .. FaultBound
    BY <1>6, CountersTyped DEF UploadFails
  <2> QED
    BY <1>6, <2>1, <2>2 DEF UploadFails, TypeOK, Upload
<1> QED
  BY <1>1, <1>2, <1>3, <1>4, <1>5, <1>6 DEF Up

LEMMA ProofsDropped ==
    ASSUME NEW d \in Cleaners, PurgeProofs(d) \/ \E p \in Proofs : DeleteProof(d, p)
    PROVE  \E ps \in SUBSET Proofs : DropProofs(d, ps)
<1>1. CASE PurgeProofs(d)
  BY <1>1 DEF PurgeProofs
<1>2. ASSUME NEW p \in Proofs, DeleteProof(d, p)
      PROVE  \E ps \in SUBSET Proofs : DropProofs(d, ps)
  <2>1. {p} \in SUBSET Proofs /\ DropProofs(d, {p})
    BY <1>2 DEF DeleteProof
  <2> QED
    BY <2>1
<1> QED
  BY <1>1, <1>2

LEMMA DownTyped ==
    ASSUME TypeOK, NEW d \in Cleaners, Down(d)
    PROVE  TypeOK'
<1>1. ASSUME NEW b \in Brds, DeleteBrd(d, b)
      PROVE  TypeOK'
  <2> DEFINE keys == {k \in Sources : <<b, k>> \in rows}
  <2>1. keys \in SUBSET Keys
    BY DEF Keys
  <2>2. Set(d, "recheck", keys, "sources")
    BY <1>1 DEF DeleteBrd
  <2> HIDE DEF keys
  <2>3. clean' \in [Cleaners -> Cleaning]
    BY <2>1, <2>2, SetTyped
  <2>4. rows' \subseteq Brds \X Sources
    BY <1>1 DEF DeleteBrd, TypeOK
  <2> QED
    BY <1>1, <2>3, <2>4 DEF DeleteBrd, TypeOK, Cleaning
<1>2. ASSUME NEW ps \in SUBSET Proofs, DropProofs(d, ps)
      PROVE  TypeOK'
  <2> DEFINE keys == {proof[p].key : p \in ps} \ {NoKey}
  <2>1. keys \in SUBSET Keys
    BY DEF Keys, TypeOK
  <2>2. Set(d, "remove", keys, "proofs")
    BY <1>2 DEF DropProofs
  <2> HIDE DEF keys
  <2>3. clean' \in [Cleaners -> Cleaning]
    BY <2>1, <2>2, SetTyped
  <2>4. proof' \in [Proofs -> File]
    BY <1>2, ReadyTyped DEF DropProofs, TypeOK, File
  <2> QED
    BY <1>2, <2>3, <2>4 DEF DropProofs, TypeOK, Cleaning, File
<1>3. ASSUME NEW kind \in {"sources", "proofs"}, BeginSweep(d, kind)
      PROVE  TypeOK'
  <2> DEFINE keys == {k \in (IF kind = "sources" THEN Sources ELSE ProofKeys) : ~Referenced(k)}
  <2>1. keys \in SUBSET Keys
    BY DEF Keys
  <2>2. Set(d, "sweep", keys, kind)
    BY <1>3 DEF BeginSweep
  <2> HIDE DEF keys
  <2>3. clean' \in [Cleaners -> Cleaning]
    BY <2>1, <2>2, SetTyped
  <2> QED
    BY <1>3, <2>3 DEF BeginSweep, TypeOK, Cleaning
<1>4. clean[d].keys \in SUBSET Keys /\ clean[d].kind \in {"sources", "proofs"}
  BY DEF TypeOK
<1>5. ASSUME \E step \in {"list", "remove"}, keys \in SUBSET clean[d].keys,
                kind \in {"sources", clean[d].kind} : Set(d, step, keys, kind)
      PROVE  clean' \in [Cleaners -> Cleaning]
  BY <1>4, <1>5, SetTyped
<1>6. ASSUME Recheck(d) \/ ListForPurge(d) \/ ListFails(d) \/ ListForSweep(d)
      PROVE  TypeOK'
  <2>1. clean' \in [Cleaners -> Cleaning]
    <3>1. CASE Recheck(d)
      BY <1>5, <3>1 DEF Recheck
    <3>2. CASE ListForPurge(d)
      BY <1>5, <3>2 DEF ListForPurge
    <3>3. CASE ListFails(d)
      BY <1>5, <3>3 DEF ListFails
    <3>4. CASE ListForSweep(d)
      BY <1>5, <3>4 DEF ListForSweep
    <3> QED
      BY <1>6, <3>1, <3>2, <3>3, <3>4
  <2>2. raced' \subseteq Keys
    BY <1>4, <1>6 DEF Recheck, ListForPurge, ListFails, ListForSweep, TypeOK
  <2>3. faults' \in 0 .. FaultBound
    <3>1. faults' = faults \/ Fault
      BY <1>6 DEF Recheck, ListForPurge, ListFails, ListForSweep
    <3> QED
      BY <3>1, CountersTyped DEF TypeOK
  <2>4. UNCHANGED <<age, rows, proof, upload, used, puts>>
    BY <1>6 DEF Recheck, ListForPurge, ListFails, ListForSweep
  <2> QED
    BY <2>1, <2>2, <2>3, <2>4 DEF TypeOK, Cleaning
<1>7. ASSUME NEW k \in Keys, Remove(d, k) \/ RemoveFails(d, k)
      PROVE  TypeOK'
  <2>1. clean' \in [Cleaners -> Cleaning]
    BY <1>5, <1>7 DEF Remove, RemoveFails
  <2>2. age' \in [Keys -> Ages \cup {"absent"}]
    BY <1>7 DEF Remove, RemoveFails, TypeOK
  <2>3. faults' \in 0 .. FaultBound
    <3>1. faults' = faults \/ Fault
      BY <1>7 DEF Remove, RemoveFails
    <3> QED
      BY <3>1, CountersTyped DEF TypeOK
  <2>4. UNCHANGED <<rows, proof, upload, used, puts, raced>>
    BY <1>7 DEF Remove, RemoveFails
  <2> QED
    BY <2>1, <2>2, <2>3, <2>4 DEF TypeOK, Cleaning
<1>8. ASSUME Done(d) \/ CleanerDies(d)
      PROVE  TypeOK'
  <2>1. clean' = [clean EXCEPT ![d] = Resting] /\ clean \in [Cleaners -> Cleaning]
    BY <1>8 DEF Done, CleanerDies, TypeOK, Cleaning
  <2>2. clean' \in [Cleaners -> Cleaning]
    BY <2>1, ReadyTyped
  <2>3. faults' \in 0 .. FaultBound
    <3>1. faults' = faults \/ Fault
      BY <1>8 DEF Done, CleanerDies
    <3> QED
      BY <3>1, CountersTyped DEF TypeOK
  <2>4. UNCHANGED <<age, rows, proof, upload, used, puts, raced>>
    BY <1>8 DEF Done, CleanerDies
  <2> QED
    BY <2>2, <2>3, <2>4 DEF TypeOK, Cleaning
<1> QED
  BY <1>1, <1>2, <1>3, <1>6, <1>7, <1>8, ProofsDropped DEF Down, Finding, SweepProofs

LEMMA TypeStep ==
    ASSUME TypeOK, ShapeOK, [Next]_vars
    PROVE  TypeOK'
<1>1. ASSUME NEW p \in Proofs, InsertBytes(p)
      PROVE  TypeOK'
  <2>1. proof' \in [Proofs -> File]
    BY <1>1 DEF InsertBytes, TypeOK, File
  <2>2. faults' \in 0 .. FaultBound
    BY <1>1, CountersTyped DEF InsertBytes
  <2> QED
    BY <1>1, <2>1, <2>2 DEF InsertBytes, TypeOK, File
<1>2. ASSUME NEW k \in Keys, Grow(k)
      PROVE  TypeOK'
  BY <1>2 DEF Grow, TypeOK, Ages
<1>3. CASE UNCHANGED vars
  BY <1>3 DEF vars, TypeOK
<1> QED
  BY <1>1, <1>2, <1>3, UpTyped, DownTyped DEF Next

-----------------------------------------------------------------------------
(* What is wanted is kept.  Three lemmas, for the three ways to change it.      *)

LEMMA KeysDiffer ==
    /\ NoKey \notin Keys /\ \A k \in Keys : k # NoKey
    /\ \A k \in Sources : k \in Keys /\ k \notin ProofKeys
    /\ \A k \in ProofKeys : k \in Keys /\ k \notin Sources
  BY KeyAssumption DEF Keys

\* removing is of an object that is not wanted
Gone(k) == age'[k] = "absent" /\ (Wanted(k)' => k \in raced')

LEMMA LessWanted ==
    ASSUME Kept, Doomed, CameLate, StillNew, clean' = clean, raced \subseteq raced',
           \A k \in Keys : /\ age'[k] = age[k] \/ Gone(k)
                           /\ Wanted(k)' => Wanted(k)
                           /\ Pending(k)' => Pending(k)
    PROVE  Kept' /\ Doomed' /\ CameLate' /\ StillNew'
<1>1. Kept'
  BY DEF Kept, Present, Gone
<1>2. Doomed'
  BY DEF Doomed, ToDelete
<1>3. CameLate'
  BY KeysDiffer DEF CameLate
<1>4. StillNew'
  BY DEF StillNew, Gone
<1> QED
  BY <1>1, <1>2, <1>3, <1>4

LEMMA OneMoreWanted ==
    ASSUME TypeOK, Kept, Doomed, CameLate, StillNew, NEW k \in Keys, PutObject(k),
           \A j \in Keys : /\ Wanted(j)' <=> Wanted(j) \/ j = k
                           /\ Pending(j)' <=> Pending(j) \/ j = k
                           /\ j # k /\ j \in raced => j \in raced',
           ToDelete(k) => k \in raced'
    PROVE  Kept' /\ Doomed' /\ CameLate' /\ StillNew'
<1>1. /\ age'[k] = "fresh" /\ \A j \in Keys : j # k => age'[j] = age[j]
      /\ \A d \in Cleaners :
            /\ clean'[d].step = clean[d].step /\ clean'[d].keys = clean[d].keys
            /\ clean[d].step \in {"list", "sweep"} => clean'[d].late = clean[d].late \cup {k}
            /\ clean[d].step \notin {"list", "sweep"} => clean'[d].late = clean[d].late
  BY PutTyped
<1>2. Kept'
  BY <1>1 DEF Kept, Present
<1>3. Doomed'
  BY <1>1 DEF Doomed, ToDelete
<1>4. CameLate'
  BY <1>1, KeysDiffer DEF CameLate
<1>5. \A j \in Keys, d \in Cleaners : j \in clean'[d].late => j \in clean[d].late \/ j = k
  BY <1>1
<1>6. StillNew'
  BY <1>1, <1>5 DEF StillNew
<1> QED
  BY <1>2, <1>3, <1>4, <1>6

LEMMA CleanerMoves ==
    ASSUME TypeOK, Kept, Doomed, CameLate, StillNew, NEW d \in Cleaners,
           NEW step \in {"rest", "recheck", "list", "sweep", "remove"}, NEW keys \in SUBSET Keys,
           NEW kind \in {"sources", "proofs"}, Set(d, step, keys, kind),
           upload' = upload, raced \subseteq raced',
           \A k \in Keys : (age'[k] = age[k] \/ Gone(k)) /\ (Wanted(k)' => Wanted(k)),
           step = "remove" => \A k \in keys : Wanted(k)' => k \in raced',
           step \in {"list", "sweep"} => \A k \in keys \cap Sources : ~Referenced(k)'
    PROVE  Kept' /\ Doomed' /\ CameLate' /\ StillNew'
<1>1. /\ \A e \in Cleaners : e # d => clean'[e] = clean[e]
      /\ clean'[d].step = step /\ clean'[d].keys = keys
      /\ clean'[d].late = LateAt(step)
  BY SetTyped
<1>2. \A k : Pending(k)' <=> Pending(k)
  BY DEF Pending
<1>3. Kept'
  BY DEF Kept, Present, Gone
<1>4. \A k \in Keys : ToDelete(k)' => ToDelete(k) \/ (step = "remove" /\ k \in keys)
  BY <1>1 DEF ToDelete
<1>5. Doomed'
  BY <1>4 DEF Doomed
<1>6. CameLate'
  <2> SUFFICES ASSUME NEW e \in Cleaners, NEW k \in Sources,
                      clean'[e].step \in {"list", "sweep"}, k \in clean'[e].keys, Wanted(k)'
               PROVE  k \in clean'[e].late
    BY DEF CameLate
  <2>1. CASE e # d
    BY <1>1, <2>1, KeysDiffer DEF CameLate
  <2>2. CASE e = d
    <3>1. Pending(k)
      BY <1>1, <1>2, <2>2 DEF Wanted
    <3> QED
      BY <1>1, <2>2, <3>1, KeysDiffer DEF LateAt
  <2> QED
    BY <2>1, <2>2
<1>7. StillNew'
  <2>1. \A k \in Keys, e \in Cleaners : k \in clean'[e].late => k \in clean[e].late \/ Pending(k)
    BY <1>1 DEF LateAt
  <2> QED
    BY <1>2, <2>1 DEF StillNew, Gone
<1> QED
  BY <1>3, <1>5, <1>6, <1>7

-----------------------------------------------------------------------------
(* The steps.                                                                *)

\* an upload that was ready has a key now
LEMMA PendingMore ==
    ASSUME TypeOK, ShapeOK, NEW u \in Uploads, upload[u].step = "ready", NEW c \in Upload,
           upload' = [upload EXCEPT ![u] = c], c.key \in Keys
    PROVE  \A j \in Keys : Pending(j)' <=> Pending(j) \/ j = c.key
<1>1. upload[u].key = NoKey
  BY DEF ShapeOK
<1>2. upload'[u] = c /\ \A v \in Uploads : v # u => upload'[v] = upload[v]
  BY UploadTyped
<1> QED
  BY <1>1, <1>2, KeysDiffer DEF Pending

\* an upload that ends has none
LEMMA PendingLess ==
    ASSUME TypeOK, NEW u \in Uploads, upload' = [upload EXCEPT ![u] = Ready]
    PROVE  /\ \A j \in Keys : Pending(j)' => Pending(j)
           /\ \A j \in Keys : Pending(j)' => \E v \in Uploads : v # u /\ upload[v].key = j
           /\ upload'[u] = Ready /\ \A v \in Uploads : v # u => upload'[v] = upload[v]
<1>1. upload'[u] = Ready /\ \A v \in Uploads : v # u => upload'[v] = upload[v]
  BY ReadyTyped, UploadTyped
<1>2. Ready.key = NoKey
  BY DEF Ready
<1>3. \A j \in Keys : Pending(j)' => \E v \in Uploads : v # u /\ upload[v].key = j
  BY <1>1, <1>2, KeysDiffer DEF Pending
<1> QED
  BY <1>1, <1>3 DEF Pending

LEMMA PutSourceStep ==
    ASSUME IInv, NEW u \in Uploads, NEW b \in Brds, NEW k \in Sources, PutSource(u, b, k)
    PROVE  ShapeOK' /\ Apart' /\ Kept' /\ Doomed' /\ CameLate' /\ StillNew'
<1> DEFINE c == [step |-> "insert", key |-> k, brd |-> b]
<1>1. k \in Keys /\ k \notin ProofKeys /\ k # NoKey
  BY KeysDiffer
<1>2. c \in Upload /\ c.key = k /\ c.step = "insert" /\ c.brd = b
  BY <1>1 DEF Upload
<1>3. upload[u].step = "ready" /\ upload' = [upload EXCEPT ![u] = c] /\ PutObject(k)
  BY DEF PutSource
<1> HIDE DEF c
<1>4. upload'[u] = c /\ \A v \in Uploads : v # u => upload'[v] = upload[v]
  BY <1>2, <1>3, UploadTyped DEF IInv
<1>5. \A j \in Keys : Pending(j)' <=> Pending(j) \/ j = k
  BY <1>1, <1>2, <1>3, PendingMore DEF IInv
<1>6. \A j \in Keys : Referenced(j)' <=> Referenced(j)
  BY DEF PutSource, Referenced
<1>7. /\ \A j \in Keys : j # k /\ j \in raced => j \in raced'
      /\ ToDelete(k) => k \in raced'
  BY DEF PutSource
<1>8. Kept' /\ Doomed' /\ CameLate' /\ StillNew'
  BY <1>1, <1>3, <1>5, <1>6, <1>7, OneMoreWanted DEF IInv, Wanted
<1>9. /\ UNCHANGED <<proof, used>> /\ \A j \in Keys : j # k => age'[j] = age[j]
      /\ \A d \in Cleaners : /\ clean'[d].step = clean[d].step /\ clean'[d].keys = clean[d].keys
                             /\ clean'[d].kind = clean[d].kind
  BY <1>1, <1>3, PutTyped DEF IInv, PutSource
<1>10. ShapeOK'
  BY <1>1, <1>2, <1>4, <1>9 DEF IInv, ShapeOK
<1>11. Apart'
  <2>1. \A j \in ProofKeys : /\ Wanted(j)' => Wanted(j)
                             /\ Present(j)' => Present(j)
                             /\ ToDelete(j)' => ToDelete(j)
    BY <1>1, <1>5, <1>6, <1>9, KeysDiffer DEF Wanted, Present, ToDelete
  <2>2. \A v \in Uploads : upload'[v].key \in ProofKeys => v # u
    BY <1>1, <1>2, <1>4
  <2> QED
    BY <1>1, <1>2, <1>4, <1>9, <2>1, <2>2 DEF IInv, Apart
<1> QED
  BY <1>8, <1>10, <1>11

LEMMA PutProofStep ==
    ASSUME IInv, NEW u \in Uploads, NEW p \in Proofs, NEW k \in ProofKeys,
           PutProof(u, p, k) \/ BeginMove(u, p, k)
    PROVE  ShapeOK' /\ Apart' /\ Kept' /\ Doomed' /\ CameLate' /\ StillNew'
<1>1. k \in Keys /\ k \notin Sources /\ k # NoKey /\ p \in Brds \cup Proofs \cup {NoKey}
  BY KeysDiffer
<1>2. PICK c \in Upload : /\ c.key = k /\ c.step # "ready" /\ c.brd = p
                          /\ upload' = [upload EXCEPT ![u] = c]
  <2> DEFINE i == [step |-> "insert", key |-> k, brd |-> p]
             m == [step |-> "switch", key |-> k, brd |-> p]
  <2>1. i \in Upload /\ m \in Upload
    BY <1>1 DEF Upload
  <2> QED
    BY <2>1 DEF PutProof, BeginMove
<1>3. upload[u].step = "ready" /\ PutObject(k) /\ k \notin used /\ used' = used \cup {k}
        /\ UNCHANGED <<rows, proof, raced>>
  BY DEF PutProof, BeginMove
<1>4. upload'[u] = c /\ \A v \in Uploads : v # u => upload'[v] = upload[v]
  BY <1>2, UploadTyped DEF IInv
<1>5. \A j \in Keys : Pending(j)' <=> Pending(j) \/ j = k
  BY <1>1, <1>2, <1>3, PendingMore DEF IInv
<1>6. \A j \in Keys : Referenced(j)' <=> Referenced(j)
  BY <1>3 DEF Referenced
<1>7. ~ToDelete(k) /\ ~Wanted(k)
  BY <1>3 DEF IInv, Apart
<1>8. Kept' /\ Doomed' /\ CameLate' /\ StillNew'
  BY <1>1, <1>3, <1>5, <1>6, <1>7, OneMoreWanted DEF IInv, Wanted
<1>9. /\ \A j \in Keys : j # k => age'[j] = age[j]
      /\ \A d \in Cleaners : /\ clean'[d].step = clean[d].step /\ clean'[d].keys = clean[d].keys
                             /\ clean'[d].kind = clean[d].kind
  BY <1>1, <1>3, PutTyped DEF IInv
<1>10. ShapeOK'
  BY <1>1, <1>2, <1>3, <1>4, <1>9 DEF IInv, ShapeOK
<1>11. Apart'
  <2>1. \A j \in ProofKeys : j # k => /\ Wanted(j)' => Wanted(j)
                                      /\ Present(j)' => Present(j)
                                      /\ ToDelete(j)' => ToDelete(j)
    BY <1>5, <1>6, <1>9, KeysDiffer DEF Wanted, Present, ToDelete
  <2>2. \A v \in Uploads : upload[v].key # k
    BY <1>7 DEF Wanted, Pending
  <2>3. \A q \in Proofs : proof[q].key # k
    BY <1>1, <1>7 DEF Wanted, Referenced
  <2>4. \A j \in ProofKeys : Wanted(j)' \/ Present(j)' \/ ToDelete(j)' => j \in used'
    BY <1>3, <2>1 DEF IInv, Apart
  <2> QED
    BY <1>2, <1>3, <1>4, <2>2, <2>3, <2>4 DEF IInv, Apart
<1> QED
  BY <1>8, <1>10, <1>11

LEMMA InsertSourceStep ==
    ASSUME IInv, NEW u \in Uploads, InsertSource(u)
    PROVE  ShapeOK' /\ Apart' /\ Kept' /\ Doomed' /\ CameLate' /\ StillNew'
<1> DEFINE k == upload[u].key
<1>1. /\ upload' = [upload EXCEPT ![u] = Ready] /\ k \in Sources
      /\ rows' = rows \cup {<<upload[u].brd, k>>}
      /\ UNCHANGED <<age, proof, clean, used, raced>>
  BY DEF InsertSource
<1>2. /\ \A j \in Keys : Pending(j)' => Pending(j)
      /\ upload'[u] = Ready /\ \A v \in Uploads : v # u => upload'[v] = upload[v]
  BY <1>1, PendingLess DEF IInv
<1>3. Pending(k)
  BY DEF Pending
<1>4. \A j \in Keys : Referenced(j)' => Referenced(j) \/ j = k
  BY <1>1 DEF Referenced
<1>5. \A j \in Keys : Wanted(j)' => Wanted(j)
  BY <1>2, <1>3, <1>4 DEF Wanted
<1>6. Kept' /\ Doomed' /\ CameLate' /\ StillNew'
  BY <1>1, <1>2, <1>5, LessWanted DEF IInv
<1>7. Ready.step = "ready" /\ Ready.key = NoKey /\ NoKey \notin Keys
  BY KeysDiffer DEF Ready
<1>8. ShapeOK'
  BY <1>1, <1>2, <1>7 DEF IInv, ShapeOK, Keys
<1>9. Apart'
  BY <1>1, <1>2, <1>5, <1>7, KeysDiffer DEF IInv, Apart, Present, ToDelete
<1> QED
  BY <1>6, <1>8, <1>9

LEMMA InsertProofStep ==
    ASSUME IInv, NEW u \in Uploads, InsertProof(u) \/ (Switch(u) /\ proof[upload[u].brd].where = "db")
    PROVE  ShapeOK' /\ Apart' /\ Kept' /\ Doomed' /\ CameLate' /\ StillNew'
<1> DEFINE k == upload[u].key
           p == upload[u].brd
           f == [where |-> "store", key |-> k]
<1>1. k \in ProofKeys /\ p \in Proofs
  <2>1. k \in Keys \cup {NoKey} /\ upload[u].step # "ready"
    BY DEF IInv, TypeOK, InsertProof, Switch
  <2>2. k \in ProofKeys
    BY <2>1 DEF IInv, ShapeOK, Keys, InsertProof, Switch
  <2> QED
    BY <2>2 DEF IInv, ShapeOK
<1>2. /\ upload' = [upload EXCEPT ![u] = Ready] /\ proof' = [proof EXCEPT ![p] = f]
      /\ proof[p].key \notin ProofKeys
      /\ UNCHANGED <<age, rows, clean, used, raced>>
  BY <1>1, KeysDiffer DEF InsertProof, Switch, NoFile, IInv, ShapeOK
<1>3. /\ \A j \in Keys : Pending(j)' => Pending(j)
      /\ upload'[u] = Ready /\ \A v \in Uploads : v # u => upload'[v] = upload[v]
  BY <1>2, PendingLess DEF IInv
<1>4. proof'[p] = f /\ f.where = "store" /\ f.key = k /\ \A q \in Proofs : q # p => proof'[q] = proof[q]
  <2>1. f \in File
    BY <1>1 DEF File
  <2> QED
    BY <1>1, <1>2, <2>1, ProofTyped DEF IInv
<1>5. Pending(k)
  BY DEF Pending
<1>6. \A j \in Keys : Referenced(j)' => Referenced(j) \/ j = k
  BY <1>1, <1>2, <1>4 DEF Referenced
<1>7. \A j \in Keys : Wanted(j)' => Wanted(j)
  BY <1>3, <1>5, <1>6 DEF Wanted
<1>8. Kept' /\ Doomed' /\ CameLate' /\ StillNew'
  BY <1>2, <1>3, <1>7, LessWanted DEF IInv
<1>9. Ready.step = "ready" /\ Ready.key = NoKey /\ NoKey \notin Keys
  BY KeysDiffer DEF Ready
<1> HIDE DEF f
<1>10. ShapeOK'
  BY <1>1, <1>2, <1>3, <1>4, <1>9 DEF IInv, ShapeOK, Keys
<1>11. Apart'
  <2>1. \A j \in ProofKeys : Wanted(j)' \/ Present(j)' \/ ToDelete(j)' => j \in used'
    BY <1>2, <1>7, KeysDiffer DEF IInv, Apart, Present, ToDelete
  <2>2. \A q \in Proofs : q # p => proof'[q].key # k
    BY <1>1, <1>4 DEF IInv, Apart
  <2>3. \A v \in Uploads : upload'[v].key \in ProofKeys => v # u /\ upload'[v].key # k
    BY <1>1, <1>3, <1>9, KeysDiffer DEF IInv, Apart
  <2> QED
    BY <1>1, <1>3, <1>4, <2>1, <2>2, <2>3 DEF IInv, Apart
<1> QED
  BY <1>8, <1>10, <1>11

LEMMA UploadEndsStep ==
    ASSUME IInv, NEW u \in Uploads,
           UploadFails(u) \/ (Switch(u) /\ proof[upload[u].brd].where # "db")
    PROVE  ShapeOK' /\ Apart' /\ Kept' /\ Doomed' /\ CameLate' /\ StillNew'
<1>1. /\ upload' = [upload EXCEPT ![u] = Ready]
      /\ UNCHANGED <<rows, proof, clean, used, raced>>
  BY DEF UploadFails, Switch
<1>2. /\ \A j \in Keys : Pending(j)' => Pending(j)
      /\ \A j \in Keys : Pending(j)' => \E v \in Uploads : v # u /\ upload[v].key = j
      /\ upload'[u] = Ready /\ \A v \in Uploads : v # u => upload'[v] = upload[v]
  BY <1>1, PendingLess DEF IInv
<1>3. \A j \in Keys : Referenced(j)' <=> Referenced(j)
  BY <1>1 DEF Referenced
<1>4. \A j \in Keys : Wanted(j)' => Wanted(j)
  BY <1>2, <1>3 DEF Wanted
<1>5. \A j \in Keys : age'[j] = age[j] \/ Gone(j)
  <2>1. CASE UploadFails(u)
    BY <2>1 DEF UploadFails
  <2>2. CASE Switch(u) /\ proof[upload[u].brd].where # "db"
    <3>1. PICK k \in ProofKeys : k = upload[u].key
      <4>1. upload[u].key \in Keys \cup {NoKey} /\ upload[u].step = "switch"
        BY <2>2 DEF IInv, TypeOK, Switch
      <4> QED
        BY <4>1 DEF IInv, ShapeOK, Keys
    <3>2. ~Wanted(k)'
      <4>1. ~Pending(k)'
        BY <1>2, <3>1, KeysDiffer DEF IInv, Apart
      <4>2. ~Referenced(k)
        BY <3>1, KeysDiffer DEF IInv, Apart, Referenced
      <4> QED
        BY <1>3, <3>1, <4>1, <4>2, KeysDiffer DEF Wanted
    <3>3. age' = [age EXCEPT ![k] = "absent"]
      BY <2>2, <3>1 DEF Switch
    <3> QED
      BY <3>1, <3>2, <3>3, KeysDiffer DEF Gone, IInv, TypeOK
  <2> QED
    BY <2>1, <2>2
<1>6. Kept' /\ Doomed' /\ CameLate' /\ StillNew'
  BY <1>1, <1>2, <1>4, <1>5, LessWanted DEF IInv
<1>7. Ready.step = "ready" /\ Ready.key = NoKey /\ NoKey \notin Keys
  BY KeysDiffer DEF Ready
<1>8. ShapeOK'
  BY <1>1, <1>2, <1>7 DEF IInv, ShapeOK, Keys
<1>9. Apart'
  <2>1. \A j \in ProofKeys : Present(j)' => Present(j)
    BY <1>5, KeysDiffer DEF Present, Gone
  <2>2. \A j \in ProofKeys : Wanted(j)' \/ Present(j)' \/ ToDelete(j)' => j \in used'
    BY <1>1, <1>4, <2>1, KeysDiffer DEF IInv, Apart, ToDelete
  <2> QED
    BY <1>1, <1>2, <1>7, <2>2, KeysDiffer DEF IInv, Apart
<1> QED
  BY <1>6, <1>8, <1>9

\* what a cleaner does leaves uploads alone and asks for proof keys that were used
LEMMA CleanerShape ==
    ASSUME IInv, NEW d \in Cleaners,
           NEW step \in {"rest", "recheck", "list", "sweep", "remove"}, NEW keys \in SUBSET Keys,
           NEW kind \in {"sources", "proofs"}, Set(d, step, keys, kind),
           upload' = upload, used' = used,
           kind = "sources" => keys \subseteq Sources,
           kind = "proofs" => keys \subseteq ProofKeys /\ step \in {"sweep", "remove"},
           step = "remove" => \A k \in keys \cap ProofKeys : k \in used,
           \A k \in Keys : /\ age'[k] = age[k] \/ age'[k] = "absent"
                           /\ Wanted(k)' => Wanted(k),
           \A p \in Proofs : proof'[p] = proof[p] \/ proof'[p] = NoFile
    PROVE  ShapeOK' /\ Apart'
<1>1. /\ \A e \in Cleaners : e # d => clean'[e] = clean[e]
      /\ clean'[d].step = step /\ clean'[d].keys = keys /\ clean'[d].kind = kind
  BY SetTyped DEF IInv
<1>2. NoFile.where = "none" /\ NoFile.key = NoKey /\ NoKey \notin ProofKeys
  BY KeysDiffer, KeyAssumption DEF NoFile, Keys
<1>3. ShapeOK'
  BY <1>1, <1>2 DEF IInv, ShapeOK
<1>4. \A k \in ProofKeys : ToDelete(k)' => ToDelete(k) \/ k \in used
  BY <1>1 DEF ToDelete
<1>5. \A k \in ProofKeys : Present(k)' => Present(k)
  BY KeysDiffer DEF Present
<1>6. \A k \in ProofKeys : Wanted(k)' \/ Present(k)' \/ ToDelete(k)' => k \in used'
  BY <1>4, <1>5, KeysDiffer DEF IInv, Apart
<1>7. Apart'
  BY <1>2, <1>6 DEF IInv, Apart
<1> QED
  BY <1>3, <1>7

LEMMA DeletingStep ==
    ASSUME IInv, NEW d \in Cleaners,
           (\E b \in Brds : DeleteBrd(d, b)) \/ (\E ps \in SUBSET Proofs : DropProofs(d, ps))
    PROVE  ShapeOK' /\ Apart' /\ Kept' /\ Doomed' /\ CameLate' /\ StillNew'
<1>1. ASSUME NEW b \in Brds, DeleteBrd(d, b)
      PROVE  ShapeOK' /\ Apart' /\ Kept' /\ Doomed' /\ CameLate' /\ StillNew'
  <2> DEFINE keys == {k \in Sources : <<b, k>> \in rows}
  <2>1. keys \in SUBSET Keys /\ keys \subseteq Sources
    BY DEF Keys
  <2>2. /\ Set(d, "recheck", keys, "sources") /\ rows' \subseteq rows
        /\ UNCHANGED <<age, proof, upload, used, raced>>
    BY <1>1 DEF DeleteBrd
  <2> HIDE DEF keys
  <2>3. \A k \in Keys : Wanted(k)' => Wanted(k)
    BY <2>2 DEF Wanted, Referenced, Pending
  <2>4. Kept' /\ Doomed' /\ CameLate' /\ StillNew'
    BY <2>1, <2>2, <2>3, CleanerMoves DEF IInv
  <2>5. ShapeOK' /\ Apart'
    BY <2>1, <2>2, <2>3, CleanerShape
  <2> QED
    BY <2>4, <2>5
<1>2. ASSUME NEW ps \in SUBSET Proofs, DropProofs(d, ps)
      PROVE  ShapeOK' /\ Apart' /\ Kept' /\ Doomed' /\ CameLate' /\ StillNew'
  <2> DEFINE keys == {proof[p].key : p \in ps} \ {NoKey}
  <2>1. keys \in SUBSET Keys /\ keys \subseteq ProofKeys
    BY DEF Keys, IInv, TypeOK
  <2>2. \A k \in keys : \E p \in ps : k = proof[p].key
    OBVIOUS
  <2>3. /\ Set(d, "remove", keys, "proofs")
        /\ UNCHANGED <<age, rows, upload, used, raced>>
    BY <1>2 DEF DropProofs
  <2> HIDE DEF keys
  <2>4. /\ \A p \in ps : proof'[p] = NoFile
        /\ \A q \in Proofs \ ps : proof'[q] = proof[q]
    BY <1>2 DEF DropProofs
  <2>5. NoFile.key = NoKey
    BY DEF NoFile
  <2>6. \A k \in Keys : Wanted(k)' => Wanted(k)
    <3>1. \A k \in Keys : Referenced(k)' => Referenced(k)
      BY <2>3, <2>4, <2>5, KeysDiffer DEF Referenced
    <3> QED
      BY <2>3, <3>1 DEF Wanted, Pending
  <2>7. \A k \in keys : ~Wanted(k)'
    <3> SUFFICES ASSUME NEW k \in keys
                 PROVE  ~Wanted(k)'
      OBVIOUS
    <3>1. PICK p \in ps : k = proof[p].key
      BY <2>2
    <3>2. k \in ProofKeys
      BY <2>1
    <3>3. ~Pending(k)'
      BY <2>3, <3>1, <3>2 DEF IInv, Apart, Pending
    <3>4. \A q \in Proofs : q # p => proof[q].key # k
      BY <3>1, <3>2 DEF IInv, Apart
    <3>5. ~Referenced(k)'
      BY <2>4, <2>5, <3>1, <3>2, <3>4, KeysDiffer DEF Referenced
    <3> QED
      BY <3>3, <3>5 DEF Wanted
  <2>8. \A k \in keys \cap ProofKeys : k \in used
    <3> SUFFICES ASSUME NEW k \in keys, k \in ProofKeys
                 PROVE  k \in used
      OBVIOUS
    <3>1. Referenced(k)
      BY <2>2, KeysDiffer DEF Referenced
    <3> QED
      BY <3>1 DEF IInv, Apart, Wanted
  <2>9. Kept' /\ Doomed' /\ CameLate' /\ StillNew'
    BY <2>1, <2>3, <2>6, <2>7, CleanerMoves DEF IInv
  <2>10. \A p \in Proofs : proof'[p] = proof[p] \/ proof'[p] = NoFile
    BY <2>4
  <2>11. ShapeOK' /\ Apart'
    BY <2>1, <2>3, <2>6, <2>8, <2>10, CleanerShape
  <2> QED
    BY <2>9, <2>11
<1> QED
  BY <1>1, <1>2

\* a wanted source that a purge or a sweep is about to list is new, or was never there
LEMMA ListedIsNew ==
    ASSUME IInv, NEW d \in Cleaners, NEW k \in clean[d].keys, k \in Sources,
           clean[d].step \in {"list", "sweep"}, Wanted(k), k \notin raced
    PROVE  age[k] = "fresh"
<1>1. k \in clean[d].late /\ k \in Keys
  BY KeysDiffer DEF IInv, CameLate
<1>2. age[k] \in {"fresh", "absent"}
  BY <1>1 DEF IInv, StillNew
<1> QED
  BY <1>1, <1>2 DEF IInv, Kept, Present

LEMMA FindingStep ==
    ASSUME IInv, NEW d \in Cleaners,
           \/ BeginSweep(d, "sources") \/ BeginSweep(d, "proofs")
           \/ Recheck(d) \/ ListForPurge(d) \/ ListFails(d) \/ ListForSweep(d)
    PROVE  ShapeOK' /\ Apart' /\ Kept' /\ Doomed' /\ CameLate' /\ StillNew'
<1>1. /\ UNCHANGED <<age, rows, proof, upload, used>> /\ raced \subseteq raced'
  BY DEF BeginSweep, Recheck, ListForPurge, ListFails, ListForSweep
<1>2. \A k : (Wanted(k)' <=> Wanted(k)) /\ (Referenced(k)' <=> Referenced(k))
  BY <1>1 DEF Wanted, Referenced, Pending
<1>3. /\ clean[d].keys \in SUBSET Keys /\ clean[d].kind \in {"sources", "proofs"}
      /\ clean[d].kind = "sources" => clean[d].keys \subseteq Sources
      /\ clean[d].kind = "proofs"
            => clean[d].keys \subseteq ProofKeys /\ clean[d].step \in {"sweep", "remove"}
  BY DEF IInv, TypeOK, ShapeOK
<1>4. ASSUME NEW step \in {"list", "sweep", "remove"}, NEW keys \in SUBSET Keys,
             NEW kind \in {"sources", "proofs"}, Set(d, step, keys, kind),
             kind = "sources" => keys \subseteq Sources,
             kind = "proofs" => keys \subseteq ProofKeys /\ step \in {"sweep", "remove"},
             step \in {"list", "sweep"} => \A k \in keys : ~Referenced(k),
             step = "remove" => \A k \in keys : Wanted(k) => k \in raced',
             step = "remove" => \A k \in keys \cap ProofKeys : k \in used
      PROVE  ShapeOK' /\ Apart' /\ Kept' /\ Doomed' /\ CameLate' /\ StillNew'
  <2>1. Kept' /\ Doomed' /\ CameLate' /\ StillNew'
    BY <1>1, <1>2, <1>4, CleanerMoves DEF IInv
  <2>2. ShapeOK' /\ Apart'
    BY <1>1, <1>2, <1>4, CleanerShape
  <2> QED
    BY <2>1, <2>2
<1>5. ASSUME NEW kind \in {"sources", "proofs"}, BeginSweep(d, kind)
      PROVE  ShapeOK' /\ Apart' /\ Kept' /\ Doomed' /\ CameLate' /\ StillNew'
  <2> DEFINE keys == {k \in (IF kind = "sources" THEN Sources ELSE ProofKeys) : ~Referenced(k)}
  <2>1. /\ keys \in SUBSET Keys /\ \A k \in keys : ~Referenced(k)
        /\ kind = "sources" => keys \subseteq Sources
        /\ kind = "proofs" => keys \subseteq ProofKeys
    BY DEF Keys
  <2>2. Set(d, "sweep", keys, kind)
    BY <1>5 DEF BeginSweep
  <2> HIDE DEF keys
  <2> QED
    BY <1>4, <2>1, <2>2
<1>6. CASE Recheck(d)
  <2> DEFINE keys == {k \in clean[d].keys : ~Referenced(k)}
  <2>1. clean[d].kind = "sources"
    BY <1>3, <1>6 DEF Recheck
  <2>2. keys \in SUBSET Keys /\ keys \subseteq Sources /\ \A k \in keys : ~Referenced(k)
    BY <1>3, <2>1
  <2>3. Set(d, "list", keys, "sources")
    BY <1>6 DEF Recheck
  <2> HIDE DEF keys
  <2> QED
    BY <1>4, <2>2, <2>3
<1>7. CASE ListForPurge(d)
  <2> DEFINE keys == {k \in clean[d].keys : age[k] # "fresh"}
  <2>1. clean[d].kind = "sources" /\ clean[d].step = "list"
    BY <1>3, <1>7 DEF ListForPurge
  <2>2. keys \in SUBSET Keys /\ keys \subseteq Sources /\ \A k \in keys : k \notin ProofKeys
    BY <1>3, <2>1, KeysDiffer
  <2>3. \A k \in keys : Wanted(k) => k \in raced'
    BY <1>1, <1>3, <2>1, ListedIsNew
  <2>4. Set(d, "remove", keys, "sources")
    BY <1>7 DEF ListForPurge
  <2> HIDE DEF keys
  <2> QED
    BY <1>4, <2>2, <2>3, <2>4
<1>8. CASE ListFails(d)
  <2> DEFINE keys == clean[d].keys
  <2>1. clean[d].kind = "sources" /\ clean[d].step = "list"
    BY <1>3, <1>8 DEF ListFails
  <2>2. keys \in SUBSET Keys /\ keys \subseteq Sources /\ \A k \in keys : k \notin ProofKeys
    BY <1>3, <2>1, KeysDiffer
  <2>3. \A k \in keys : Wanted(k) => k \in raced'
    <3>1. \A k \in keys : age[k] = "fresh" => k \in raced'
      BY <1>8 DEF ListFails
    <3> QED
      BY <1>1, <1>3, <2>1, <3>1, ListedIsNew
  <2>4. Set(d, "remove", keys, "sources")
    BY <1>8 DEF ListFails
  <2> HIDE DEF keys
  <2> QED
    BY <1>4, <2>2, <2>3, <2>4
<1>9. CASE ListForSweep(d)
  <2> DEFINE kind == clean[d].kind
             keys == {k \in clean[d].keys : age[k] \in SweptAges(clean[d].kind)}
  <2>1. clean[d].step = "sweep" /\ Set(d, "remove", keys, kind)
    BY <1>9 DEF ListForSweep
  <2>2. /\ keys \in SUBSET Keys /\ kind \in {"sources", "proofs"}
        /\ kind = "sources" => keys \subseteq Sources
        /\ kind = "proofs" => keys \subseteq ProofKeys
    BY <1>3
  <2>3. \A k \in keys : Wanted(k) => k \in raced'
    <3>1. CASE kind = "sources"
      <4>1. \A k \in keys : age[k] # "fresh" /\ k \in Sources
        BY <1>3, <3>1 DEF SweptAges
      <4> QED
        BY <1>1, <1>3, <2>1, <4>1, ListedIsNew
    <3>2. CASE kind = "proofs"
      <4>1. \A k \in keys : Wanted(k) => k \in raced'
        BY <1>9, <3>2 DEF ListForSweep, Wanted
      <4> QED
        BY <4>1
    <3> QED
      BY <1>3, <3>1, <3>2
  <2>4. \A k \in keys \cap ProofKeys : k \in used
    <3>1. \A k \in keys : Present(k)
      BY DEF SweptAges, Ages, Present
    <3> QED
      BY <3>1 DEF IInv, Apart
  <2> HIDE DEF keys, kind
  <2> QED
    BY <1>4, <2>1, <2>2, <2>3, <2>4
<1> QED
  BY <1>5, <1>6, <1>7, <1>8, <1>9

LEMMA RemovingStep ==
    ASSUME IInv, NEW d \in Cleaners,
           \/ \E k \in Keys : Remove(d, k) \/ RemoveFails(d, k)
           \/ Done(d) \/ CleanerDies(d)
    PROVE  ShapeOK' /\ Apart' /\ Kept' /\ Doomed' /\ CameLate' /\ StillNew'
<1>1. UNCHANGED <<rows, proof, upload, used, raced>>
  BY DEF Remove, RemoveFails, Done, CleanerDies
<1>2. \A k : Wanted(k)' <=> Wanted(k)
  BY <1>1 DEF Wanted, Referenced, Pending
<1>3. ASSUME NEW k \in Keys, Remove(d, k) \/ RemoveFails(d, k)
      PROVE  ShapeOK' /\ Apart' /\ Kept' /\ Doomed' /\ CameLate' /\ StillNew'
  <2> DEFINE keys == clean[d].keys \ {k}
             kind == clean[d].kind
  <2>1. clean[d].step = "remove" /\ k \in clean[d].keys /\ Set(d, "remove", keys, kind)
    BY <1>3 DEF Remove, RemoveFails
  <2>2. /\ keys \in SUBSET Keys /\ kind \in {"sources", "proofs"}
        /\ kind = "sources" => keys \subseteq Sources
        /\ kind = "proofs" => keys \subseteq ProofKeys
    BY DEF IInv, TypeOK, ShapeOK
  <2>3. \A j \in clean[d].keys : ToDelete(j) /\ j \in Keys
    BY <2>1 DEF ToDelete, IInv, TypeOK
  <2>4. \A j \in clean[d].keys : /\ Wanted(j) => j \in raced
                                 /\ j \in ProofKeys => j \in used
    BY <2>3 DEF IInv, Doomed, Apart
  <2>5. \A j \in Keys : age'[j] = age[j] \/ Gone(j)
    BY <1>1, <1>2, <1>3, <2>1, <2>4 DEF Remove, RemoveFails, Gone, IInv, TypeOK
  <2>6. \A j \in keys : (Wanted(j)' => j \in raced') /\ (j \in ProofKeys => j \in used)
    BY <1>1, <1>2, <2>4
  <2> HIDE DEF keys, kind
  <2>7. Kept' /\ Doomed' /\ CameLate' /\ StillNew'
    BY <1>1, <1>2, <2>1, <2>2, <2>5, <2>6, CleanerMoves DEF IInv
  <2>8. ShapeOK' /\ Apart'
    BY <1>1, <1>2, <2>1, <2>2, <2>5, <2>6, CleanerShape DEF Gone
  <2> QED
    BY <2>7, <2>8
<1>4. ASSUME Done(d) \/ CleanerDies(d)
      PROVE  ShapeOK' /\ Apart' /\ Kept' /\ Doomed' /\ CameLate' /\ StillNew'
  <2>1. Set(d, "rest", {}, "sources") /\ age' = age
    BY <1>4 DEF Done, CleanerDies, Set, Resting
  <2>2. Kept' /\ Doomed' /\ CameLate' /\ StillNew'
    BY <1>1, <1>2, <2>1, CleanerMoves DEF IInv
  <2>3. ShapeOK' /\ Apart'
    BY <1>1, <1>2, <2>1, CleanerShape
  <2> QED
    BY <2>2, <2>3
<1> QED
  BY <1>3, <1>4

LEMMA OtherStep ==
    ASSUME IInv,
           \/ \E p \in Proofs : InsertBytes(p)
           \/ \E k \in Keys : Grow(k)
           \/ UNCHANGED vars
    PROVE  ShapeOK' /\ Apart' /\ Kept' /\ Doomed' /\ CameLate' /\ StillNew'
<1>1. ASSUME NEW p \in Proofs, InsertBytes(p)
      PROVE  ShapeOK' /\ Apart' /\ Kept' /\ Doomed' /\ CameLate' /\ StillNew'
  <2>1. /\ proof[p] = NoFile /\ proof' = [proof EXCEPT ![p].where = "db"]
        /\ UNCHANGED <<age, rows, upload, clean, used, raced>>
    BY <1>1 DEF InsertBytes
  <2>2. /\ proof'[p].key = NoKey /\ proof[p].key = NoKey /\ proof'[p].where = "db"
        /\ \A q \in Proofs : q # p => proof'[q] = proof[q]
    BY <2>1 DEF IInv, TypeOK, NoFile
  <2>3. \A q \in Proofs : proof'[q].key = proof[q].key
    BY <2>2
  <2>4. \A k \in Keys : Wanted(k)' <=> Wanted(k)
    BY <2>1, <2>3 DEF Wanted, Referenced, Pending
  <2>5. \A k \in Keys : Pending(k)' <=> Pending(k)
    BY <2>1 DEF Pending
  <2>6. Kept' /\ Doomed' /\ CameLate' /\ StillNew'
    BY <2>1, <2>4, <2>5, LessWanted DEF IInv
  <2>7. ShapeOK'
    BY <2>1, <2>2, KeysDiffer DEF IInv, ShapeOK
  <2>8. Apart'
    BY <2>1, <2>3, <2>4, KeysDiffer DEF IInv, Apart, Present, ToDelete
  <2> QED
    BY <2>6, <2>7, <2>8
<1>2. ASSUME NEW k \in Keys, Grow(k)
      PROVE  ShapeOK' /\ Apart' /\ Kept' /\ Doomed' /\ CameLate' /\ StillNew'
  <2>1. /\ age[k] \in {"fresh", "young"} /\ ~Pending(k) /\ \A d \in Cleaners : k \notin clean[d].late
        /\ age'[k] # "absent" /\ \A j \in Keys : j # k => age'[j] = age[j]
        /\ UNCHANGED <<rows, proof, upload, clean, used, raced>>
    BY <1>2 DEF Grow, IInv, TypeOK
  <2>2. \A j : (Wanted(j)' <=> Wanted(j)) /\ (Pending(j)' <=> Pending(j)) /\ (ToDelete(j)' <=> ToDelete(j))
    BY <2>1 DEF Wanted, Referenced, Pending, ToDelete
  <2>3. \A j \in Keys : Present(j)' <=> Present(j)
    BY <2>1 DEF Present
  <2>4. ShapeOK' /\ CameLate'
    BY <2>1, <2>2 DEF IInv, ShapeOK, CameLate
  <2>5. Apart'
    BY <2>1, <2>2, <2>3, KeysDiffer DEF IInv, Apart
  <2>6. Kept' /\ Doomed'
    BY <2>1, <2>2, <2>3 DEF IInv, Kept, Doomed
  <2>7. StillNew'
    BY <2>1, <2>2 DEF IInv, StillNew
  <2> QED
    BY <2>4, <2>5, <2>6, <2>7
<1>3. CASE UNCHANGED vars
  <2>1. \A j : (Wanted(j)' <=> Wanted(j)) /\ (Pending(j)' <=> Pending(j))
           /\ (ToDelete(j)' <=> ToDelete(j)) /\ (Present(j)' <=> Present(j))
    BY <1>3 DEF vars, Wanted, Referenced, Pending, ToDelete, Present
  <2> QED
    BY <1>3, <2>1 DEF vars, IInv, ShapeOK, Apart, Kept, Doomed, CameLate, StillNew
<1> QED
  BY <1>1, <1>2, <1>3

-----------------------------------------------------------------------------
(* The theorems.                                                             *)

LEMMA InitInv == Init => IInv
<1> SUFFICES ASSUME Init PROVE IInv
  OBVIOUS
<1>1. TypeOK
  <2>1. puts \in 0 .. PutBound /\ faults \in 0 .. FaultBound
    BY BoundAssumption DEF Init
  <2>2. /\ upload \in [Uploads -> Upload] /\ clean \in [Cleaners -> Cleaning]
        /\ proof \in [Proofs -> File]
    BY ReadyTyped DEF Init
  <2>3. age \in [Keys -> Ages \cup {"absent"}] /\ rows \subseteq Brds \X Sources
           /\ used \subseteq ProofKeys /\ raced \subseteq Keys
    BY DEF Init
  <2> QED
    BY <2>1, <2>2, <2>3 DEF TypeOK, Upload, Cleaning, File
<1>2. /\ \A u \in Uploads : upload[u].step = "ready" /\ upload[u].key = NoKey
      /\ \A p \in Proofs : proof[p].key = NoKey /\ proof[p].where = "none"
      /\ \A d \in Cleaners : clean[d].keys = {} /\ clean[d].late = {} /\ clean[d].step = "rest"
                             /\ clean[d].kind = "sources"
      /\ \A k \in Keys : age[k] = "absent"
      /\ rows = {}
  BY DEF Init, Ready, NoFile, Resting
<1>3. \A k \in Keys : ~Wanted(k) /\ ~Pending(k) /\ ~ToDelete(k) /\ ~Present(k)
  BY <1>2, KeysDiffer DEF Wanted, Referenced, Pending, ToDelete, Present
<1>4. ShapeOK
  BY <1>2, KeysDiffer DEF ShapeOK
<1>5. Apart
  BY <1>2, <1>3, KeysDiffer DEF Apart
<1>6. Kept /\ Doomed /\ StillNew
  BY <1>2, <1>3 DEF Kept, Doomed, StillNew
<1>7. CameLate
  BY <1>2 DEF CameLate
<1> QED
  BY <1>1, <1>4, <1>5, <1>6, <1>7 DEF IInv

LEMMA NextInv == IInv /\ [Next]_vars => IInv'
<1> SUFFICES ASSUME IInv, [Next]_vars PROVE IInv'
  OBVIOUS
<1>1. TypeOK'
  BY TypeStep DEF IInv
<1>2. ASSUME NEW u \in Uploads, Up(u)
      PROVE  ShapeOK' /\ Apart' /\ Kept' /\ Doomed' /\ CameLate' /\ StillNew'
  BY <1>2, PutSourceStep, PutProofStep, InsertSourceStep, InsertProofStep, UploadEndsStep DEF Up
<1>3. ASSUME NEW d \in Cleaners, Down(d)
      PROVE  ShapeOK' /\ Apart' /\ Kept' /\ Doomed' /\ CameLate' /\ StillNew'
  BY <1>3, DeletingStep, FindingStep, RemovingStep, ProofsDropped DEF Down, Finding, SweepProofs
<1>4. ShapeOK' /\ Apart' /\ Kept' /\ Doomed' /\ CameLate' /\ StillNew'
  BY <1>2, <1>3, OtherStep DEF Next
<1> QED
  BY <1>1, <1>4 DEF IInv

\* The inductive invariant: whatever is wanted is in the store and in no list of objects to
\* delete, or came after it was listed.
THEOREM Invariance == Spec => []IInv
  BY InitInv, NextInv, PTL DEF Spec

\* A source row's file can be read, through every purge and sweep, but for an identical upload
\* after its listing (ingest/jobs.py purge_after_brd_delete, sweep_orphan_sources).
THEOREM SourcesStay == Spec => []SourcesKept
<1>1. IInv => SourcesKept
  BY KeysDiffer DEF IInv, Kept, Wanted, SourcesKept
<1> QED
  BY <1>1, Invariance, PTL

\* A proof's file stays in the store while its row says so, but for the sweep of a starting
\* process between its object and its row (use_cases/testing.py gc_proof_objects).
THEOREM ProofsStay == Spec => []ProofsKept
<1>1. IInv => ProofsKept
  BY KeysDiffer DEF IInv, ShapeOK, Kept, Wanted, Referenced, ProofsKept
<1> QED
  BY <1>1, Invariance, PTL

\* Two proofs never share an object: deleting one cannot take the file of the other
\* (use_cases/testing.py delete_proof).
THEOREM ProofsSeparate == Spec => []ProofsApart
<1>1. IInv => ProofsApart
  BY DEF IInv, TypeOK, Apart, ProofsApart
<1> QED
  BY <1>1, Invariance, PTL
=============================================================================
