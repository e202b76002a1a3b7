--------------------------- MODULE UseCasesProofs ---------------------------
(***************************************************************************)
(* Proofs about UseCases, for any requirements, cases and bounds.           *)
(***************************************************************************)
EXTENDS UseCases, FiniteSetTheorems, TLAPS

-----------------------------------------------------------------------------
(* Types.                                                                    *)

LEMMA MeanwhileTyped ==
    ASSUME JobOK, NEW S \in SUBSET Cards, Meanwhile(S)
    PROVE  JobOK'
<1>1. gen' \in Job
  BY DEF JobOK, Meanwhile, Job
<1>2. gen'.pc = gen.pc /\ gen'.req = gen.req /\ gen'.cites = gen.cites /\ gen'.work = gen.work
  BY DEF JobOK, Meanwhile, Job
<1> QED
  BY <1>1, <1>2 DEF JobOK, LiveIn

LEMMA IdleTyped ==
    ASSUME gen' = Idle
    PROVE  JobOK'
<1>1. Idle \in Job /\ Idle.pc = "idle" /\ Idle.work = {}
  BY DEF Idle, Job
<1> QED
  BY <1>1 DEF JobOK

LEMMA ChangeTyped ==
    ASSUME TypeOK, NEW r \in Reqs, NEW t \in Texts, NEW s \in Sections, ChangeRequirement(r, t, s)
    PROVE  TypeOK'
<1>1. req' \in [Reqs -> Requirement]
  BY DEF TypeOK, ChangeRequirement, Requirement
<1>2. JobOK'
  BY MeanwhileTyped DEF TypeOK, ChangeRequirement
<1>3. edits' \in 0..EditBound
  BY BoundsAssumption DEF TypeOK, ChangeRequirement, Edit
<1> QED
  BY <1>1, <1>2, <1>3 DEF TypeOK, ChangeRequirement, draft, VersionOK

LEMMA ArchiveTyped ==
    ASSUME TypeOK, NEW r \in Reqs, ArchiveRequirement(r)
    PROVE  TypeOK'
<1>1. req' \in [Reqs -> Requirement]
  BY DEF TypeOK, ArchiveRequirement, Requirement
<1>2. JobOK'
  BY MeanwhileTyped DEF TypeOK, ArchiveRequirement
<1>3. edits' \in 0..EditBound
  BY BoundsAssumption DEF TypeOK, ArchiveRequirement, Edit
<1> QED
  BY <1>1, <1>2, <1>3 DEF TypeOK, ArchiveRequirement, draft, VersionOK

LEMMA WriteTyped ==
    ASSUME TypeOK, NEW u \in Cards, NEW d \in [body : Bodies, cites : SUBSET Reqs], Write(u, d)
    PROVE  /\ card' \in [Cards -> Card]
           /\ code' \in [Cards -> Nat]
           /\ hist' \in [Cards -> SUBSET [body : Bodies, cites : SUBSET Reqs]]
           /\ seen' \in [Cards -> [Reqs -> Texts \cup {0}]]
<1>1. NoText \in [Reqs -> Texts \cup {0}]
  BY DEF NoText
<1> QED
  BY <1>1 DEF TypeOK, Write, Card

LEMMA EditTyped ==
    ASSUME TypeOK, NEW u \in Cards, NEW b \in Bodies, EditCase(u, b)
    PROVE  TypeOK'
<1>1. JobOK'
  BY MeanwhileTyped DEF TypeOK, EditCase
<1>2. edits' \in 0..EditBound
  BY BoundsAssumption DEF TypeOK, EditCase, Edit
<1>3. [body |-> b, cites |-> card[u].cites] \in [body : Bodies, cites : SUBSET Reqs]
  BY DEF TypeOK, Card
<1> QED
  BY <1>1, <1>2, <1>3, WriteTyped DEF EditCase, TypeOK, VersionOK

LEMMA RestoreTyped ==
    ASSUME TypeOK, NEW u \in Cards, NEW d \in hist[u], RestoreCase(u, d)
    PROVE  TypeOK'
<1>1. JobOK'
  BY MeanwhileTyped DEF TypeOK, RestoreCase
<1>2. edits' \in 0..EditBound
  BY BoundsAssumption DEF TypeOK, RestoreCase, Edit
<1>3. d \in [body : Bodies, cites : SUBSET Reqs]
  BY DEF TypeOK
<1> QED
  BY <1>1, <1>2, <1>3, WriteTyped DEF RestoreCase, TypeOK, VersionOK

LEMMA DeleteTyped ==
    ASSUME TypeOK, NEW u \in Cards, DeleteCase(u)
    PROVE  TypeOK'
<1>1. JobOK'
  BY MeanwhileTyped DEF TypeOK, DeleteCase
<1>2. edits' \in 0..EditBound
  BY BoundsAssumption DEF TypeOK, DeleteCase, Edit
<1>3. hist' \in [Cards -> SUBSET [body : Bodies, cites : SUBSET Reqs]]
  BY DEF DeleteCase, TypeOK, Record, Definition, Card
<1>4. card' \in [Cards -> Card]
  BY ZenonT(30) DEF DeleteCase, TypeOK, Without, Card
<1> QED
  BY <1>1, <1>2, <1>3, <1>4 DEF DeleteCase, TypeOK, VersionOK

LEMMA DeleteFolderTyped ==
    ASSUME TypeOK, NEW S \in SUBSET LiveCards, NEW R \in SUBSET S, DeleteFolder(S, R)
    PROVE  TypeOK'
<1>1. JobOK'
  BY MeanwhileTyped DEF TypeOK, DeleteFolder, LiveCards
<1>2. edits' \in 0..EditBound
  BY BoundsAssumption DEF TypeOK, DeleteFolder, Edit
<1>3. hist' \in [Cards -> SUBSET [body : Bodies, cites : SUBSET Reqs]]
  BY DEF DeleteFolder, TypeOK, Record, Definition, Card
<1>4. card' \in [Cards -> Card]
  <2>1. card' = Without(S) /\ card \in [Cards -> Card]
    BY DEF DeleteFolder, TypeOK
  <2> QED
    BY <2>1 DEF Without, Card
<1> QED
  BY <1>1, <1>2, <1>3, <1>4 DEF DeleteFolder, TypeOK, VersionOK

LEMMA BasisTyped ==
    ASSUME TypeOK, NEW rs \in [Reqs -> Requirement]
    PROVE  EnsuredBasis(rs) \in [Reqs -> Texts \cup {0}]
BY DEF EnsuredBasis, TypeOK, Requirement

LEMMA UnitsTyped ==
    ASSUME NEW rs, NEW pending \in SUBSET LiveIn(rs), NEW affected \in SUBSET Cards, NEW cs,
           NEW w \in Units(rs, pending, affected, cs)
    PROVE  /\ w \in [items : SUBSET Reqs, cards : SUBSET Cards]
           /\ w.items \subseteq LiveIn(rs)
<1>1. \E I \in SUBSET pending, C \in SUBSET affected : w = [items |-> I, cards |-> C]
  BY DEF Units
<1> QED
  BY <1>1 DEF LiveIn

LEMMA StatusTyped ==
    ASSUME TypeOK, Status
    PROVE  TypeOK'
<1>1. basis' \in [Reqs -> Texts \cup {0}]
  BY BasisTyped DEF Status, TypeOK
<1>2. JobOK'
  BY DEF Status, TypeOK, JobOK, LiveIn
<1> QED
  BY <1>1, <1>2 DEF Status, TypeOK, draft, bounds, VersionOK

LEMMA StartTyped ==
    ASSUME TypeOK, NEW replace \in BOOLEAN, StartRun(replace)
    PROVE  TypeOK'
<1>1. gen' \in Job /\ gen'.req = req /\ gen'.work = {} /\ gen'.pc \in {"clear", "plan"}
  BY DEF StartRun, Idle, Job, TypeOK
<1>2. JobOK'
  BY <1>1 DEF JobOK, TypeOK
<1>3. runs' \in 0..RunBound
  BY BoundsAssumption DEF StartRun, TypeOK
<1> QED
  BY <1>2, <1>3 DEF StartRun, TypeOK, draft, VersionOK

LEMMA ClearTyped ==
    ASSUME TypeOK, Clear
    PROVE  TypeOK'
<1>1. gen' \in Job /\ gen'.pc = "plan" /\ gen'.req = gen.req /\ gen'.work = {}
  BY DEF TypeOK, JobOK, Job, Clear
<1>2. JobOK'
  BY <1>1 DEF JobOK, TypeOK, Clear
<1>3. hist' \in [Cards -> SUBSET [body : Bodies, cites : SUBSET Reqs]]
  BY DEF Clear, TypeOK, Record, Definition, Card
<1>4. card' \in [Cards -> Card]
  BY ZenonT(30) DEF Clear, TypeOK, Without, Card
<1>5. basis' \in [Reqs -> Texts \cup {0}]
  BY DEF Clear, NoText
<1> QED
  BY <1>2, <1>3, <1>4, <1>5 DEF Clear, TypeOK, bounds, VersionOK

LEMMA UnitFailsTyped ==
    ASSUME TypeOK, NEW w \in gen.work, UnitFails(w)
    PROVE  TypeOK'
<1>1. /\ gen' \in Job /\ gen'.pc = "units" /\ gen'.req = gen.req /\ gen'.cites = gen.cites
      /\ gen'.work \subseteq gen.work
  BY DEF TypeOK, JobOK, Job, UnitFails
<1>2. JobOK'
  BY <1>1 DEF JobOK, TypeOK, UnitFails, LiveIn
<1> QED
  BY <1>2 DEF UnitFails, TypeOK, draft, bounds, VersionOK

LEMMA EndTyped ==
    ASSUME TypeOK, EndRun
    PROVE  TypeOK'
<1>1. JobOK'
  BY IdleTyped DEF EndRun
<1> QED
  BY <1>1 DEF EndRun, TypeOK, draft, bounds, VersionOK

LEMMA CrashTyped ==
    ASSUME TypeOK, Crash
    PROVE  TypeOK'
<1>1. JobOK'
  BY IdleTyped DEF Crash
<1>2. /\ api' \in [pc : {"none", "publish", "snapshot", "restore"}, reviewed : Rows, version : Nat]
      /\ api'.pc = "none"
  BY DEF Crash, TypeOK
<1> QED
  BY <1>1, <1>2 DEF Crash, TypeOK, draft, bounds, VersionOK

LEMMA PlanTyped ==
    ASSUME TypeOK, Plan
    PROVE  TypeOK'
<1>1. gen.req \in [Reqs -> Requirement] /\ gen \in Job
  BY DEF TypeOK, JobOK, Plan
<1>2. basis' \in [Reqs -> Texts \cup {0}]
  BY <1>1, BasisTyped DEF Plan
<1>3. Cites \in [Cards -> SUBSET Reqs]
  BY DEF Cites, TypeOK, Card
<1> DEFINE pending == Pending(gen.req, basis')
           removed == Removed(gen.req, basis', Cites)
           affected == Affected(Cites, removed, pending)
           work == Units(gen.req, pending, affected, Cites)
<1>4. /\ pending \in SUBSET LiveIn(gen.req)
      /\ removed \in SUBSET Reqs
      /\ affected \in SUBSET Cards
      /\ Orphans(Cites, removed) \in SUBSET Cards /\ LiveCards \in SUBSET Cards
  BY <1>3 DEF Pending, Removed, Affected, Orphans, LiveCards
<1>5. \A w \in work : w \in [items : SUBSET Reqs, cards : SUBSET Cards] /\ w.items \subseteq LiveIn(gen.req)
  BY <1>4, UnitsTyped
<1>6. gen' = [gen EXCEPT !.pc = "prepare", !.cites = Cites, !.removed = removed, !.gone = {},
                         !.taken = LiveCards, !.orphans = Orphans(Cites, removed), !.work = work]
  BY DEF Plan
<1> HIDE DEF pending, removed, affected, work
<1>7. gen' \in Job
  BY <1>1, <1>3, <1>4, <1>5, <1>6 DEF Job
<1>8. gen'.pc = "prepare" /\ gen'.req = gen.req /\ gen'.cites = Cites /\ gen'.work = work
  BY <1>1, <1>6 DEF Job
<1>9. JobOK'
  BY <1>1, <1>3, <1>5, <1>7, <1>8 DEF JobOK
<1> QED
  BY <1>2, <1>9 DEF Plan, TypeOK, draft, bounds, VersionOK

LEMMA PrepareTyped ==
    ASSUME TypeOK, Prepare, NextCode \in Nat
    PROVE  TypeOK'
<1>1. /\ gen' \in Job /\ gen'.pc = "units" /\ gen'.req = gen.req /\ gen'.cites = gen.cites
      /\ gen'.work = gen.work
  BY DEF Prepare, TypeOK, JobOK, Job
<1>2. JobOK'
  BY <1>1 DEF JobOK, TypeOK, Prepare, LiveIn
<1>3. hist' \in [Cards -> SUBSET [body : Bodies, cites : SUBSET Reqs]]
  BY DEF Prepare, TypeOK, Record, Definition, Card
<1>4. card' \in [Cards -> Card]
  BY ZenonT(30) DEF Prepare, TypeOK, Without, Card
<1>5. basis' \in [Reqs -> Texts \cup {0}]
  BY DEF Prepare, TypeOK
<1> QED
  BY <1>2, <1>3, <1>4, <1>5 DEF Prepare, TypeOK, bounds, VersionOK

LEMMA AnswersTyped ==
    ASSUME TypeOK, gen.pc = "units", NEW w \in gen.work
    PROVE  /\ Answers(w) \subseteq [body : Bodies, cites : SUBSET Reqs]
           /\ Shown(w) \subseteq Reqs
BY DEF TypeOK, JobOK, Job, Answers, Shown, LiveIn

LEMMA KeptTyped ==
    ASSUME TypeOK, gen.pc = "units", NEW u \in Cards
    PROVE  Kept(u) \in [body : Bodies, cites : SUBSET Reqs] /\ Definition(u) \in [body : Bodies, cites : SUBSET Reqs]
BY DEF TypeOK, JobOK, Job, Kept, Definition, Card

LEMMA JudgedTyped ==
    ASSUME TypeOK, gen.pc = "units", NEW w \in gen.work, NEW u \in Cards, NEW cites
    PROVE  Judged(u, w, cites) \in [Reqs -> Texts \cup {0}]
BY AnswersTyped DEF TypeOK, JobOK, Job, Judged, Requirement

LEMMA UnitTyped ==
    ASSUME TypeOK, gen.pc = "units", NEW w \in gen.work,
           NEW fresh \in {{}} \cup {{u} : u \in {v \in Cards : code[v] = 0}},
           NEW removals \in SUBSET w.cards, NEW updated \in SUBSET (w.cards \ removals),
           NEW updates \in [updated -> Answers(w)], NEW new \in [fresh -> Answers(w)],
           ApplyUnit(w, removals, updates, new),
           UNCHANGED <<req, versions, api, bounds, spoiled>>
    PROVE  TypeOK'
<1> DEFINE found == (w.cards \cap LiveCards) \ gen.gone
           after == [u \in Cards |-> IF u \in DOMAIN new THEN new[u]
                                       ELSE IF u \in found \cap DOMAIN updates THEN updates[u]
                                       ELSE IF u \in found \ removals THEN Kept(u) ELSE Definition(u)]
<1>1. after \in [Cards -> [body : Bodies, cites : SUBSET Reqs]]
  BY AnswersTyped, KeptTyped
<1>2. Cardinality(DOMAIN new) \in Nat
  BY FS_EmptySet, FS_Singleton, FS_CardinalityType
<1>3. /\ gen' \in Job /\ gen'.pc = "units" /\ gen'.req = gen.req /\ gen'.cites = gen.cites
      /\ gen'.work \subseteq gen.work
  <2>1. gen' = [gen EXCEPT !.work = @ \ {w}, !.taken = @ \cup DOMAIN new,
                           !.next = @ + Cardinality(DOMAIN new)]
    BY DEF ApplyUnit
  <2>2. gen \in Job
    BY DEF TypeOK, JobOK
  <2> DEFINE work == gen.work \ {w}
             taken == gen.taken \cup DOMAIN new
             next == gen.next + Cardinality(DOMAIN new)
  <2>3. work \in SUBSET [items : SUBSET Reqs, cards : SUBSET Cards] /\ taken \in SUBSET Cards /\ next \in Nat
    BY <1>2, <2>2 DEF Job
  <2>4. gen' = [gen EXCEPT !.work = work, !.taken = taken, !.next = next] /\ work \subseteq gen.work
    BY <2>1
  <2> HIDE DEF work, taken, next
  <2>5. gen' \in Job
    BY <2>2, <2>3, <2>4 DEF Job
  <2>6. gen'.pc = gen.pc /\ gen'.req = gen.req /\ gen'.cites = gen.cites /\ gen'.work = work
    BY <2>2, <2>4 DEF Job
  <2> QED
    BY <2>4, <2>5, <2>6
<1>4. JobOK'
  BY <1>3 DEF JobOK, TypeOK, LiveIn
<1>5. /\ card' \in [Cards -> Card]
      /\ hist' \in [Cards -> SUBSET [body : Bodies, cites : SUBSET Reqs]]
  <2>1. card' = [u \in Cards |-> [live  |-> u \in DOMAIN new \cup (LiveCards \ (found \cap removals)),
                                  body  |-> after[u].body,
                                  cites |-> after[u].cites]]
    BY DEF ApplyUnit
  <2>2. \E S : hist' = [u \in Cards |-> IF u \in S THEN hist[u] \cup {after[u]} ELSE hist[u]]
    BY DEF ApplyUnit
  <2> HIDE DEF after, found
  <2>3. card' \in [Cards -> Card]
    BY <1>1, <2>1 DEF Card
  <2>4. hist' \in [Cards -> SUBSET [body : Bodies, cites : SUBSET Reqs]]
    BY <1>1, <2>2 DEF TypeOK
  <2> QED
    BY <2>3, <2>4
<1>6. seen' \in [Cards -> [Reqs -> Texts \cup {0}]]
  BY JudgedTyped DEF ApplyUnit, TypeOK
<1>7. code' \in [Cards -> Nat]
  <2>1. code' = [u \in Cards |-> IF u \in DOMAIN new THEN gen.next ELSE code[u]]
    BY DEF ApplyUnit, Numbered
  <2>2. gen.next \in Nat
    BY DEF TypeOK, JobOK, Job
  <2> QED
    BY <2>1, <2>2 DEF TypeOK
<1>8. basis' \in [Reqs -> Texts \cup {0}]
  BY DEF ApplyUnit, TypeOK, JobOK, LiveIn, Requirement
<1> QED
  BY <1>4, <1>5, <1>6, <1>7, <1>8 DEF TypeOK, bounds, VersionOK

LEMMA DraftRowsTyped ==
    ASSUME TypeOK
    PROVE  /\ DraftRows \in Rows
           /\ DOMAIN DraftRows = LiveCards
           /\ \A u \in LiveCards : DOMAIN DraftRows[u].texts = DraftRows[u].cites
<1>1. \A u \in LiveCards : [r \in card[u].cites |-> req[r].text] \in UNION {[S -> Texts] : S \in SUBSET Reqs}
  BY DEF TypeOK, LiveCards, Card, Requirement
<1>2. \A u \in LiveCards : DraftRows[u] \in Row
  BY <1>1 DEF DraftRows, Row, TypeOK, LiveCards, Card
<1>3. LiveCards \in SUBSET Cards /\ DraftRows \in [LiveCards -> Row]
  BY <1>2 DEF DraftRows, LiveCards
<1> QED
  BY <1>3 DEF Rows, DraftRows

LEMMA RequestsTyped ==
    ASSUME TypeOK, Review \/ PublishRequest \/ PublishCheck
    PROVE  TypeOK'
<1>1. /\ api' \in [pc : {"none", "publish", "snapshot", "restore"}, reviewed : Rows, version : Nat]
      /\ api'.pc # "restore"
  BY DraftRowsTyped DEF Review, PublishRequest, PublishCheck, TypeOK
<1> QED
  BY <1>1 DEF Review, PublishRequest, PublishCheck, TypeOK, draft, bounds, VersionOK, JobOK, LiveIn

LEMMA RestoreRequestTyped ==
    ASSUME TypeOK, NEW v \in 1..Len(versions), RestoreRequest(v)
    PROVE  TypeOK'
<1>1. /\ api' \in [pc : {"none", "publish", "snapshot", "restore"}, reviewed : Rows, version : Nat]
      /\ api'.version \in 1..Len(versions)
  <2>1. v \in Nat
    BY DEF TypeOK
  <2>2. api' = [api EXCEPT !.pc = "restore", !.version = v]
    BY DEF RestoreRequest
  <2> QED
    BY <2>1, <2>2 DEF TypeOK
<1>2. edits' \in 0..EditBound
  BY BoundsAssumption DEF TypeOK, RestoreRequest, Edit
<1>3. UNCHANGED <<req, basis, card, code, hist, seen, gen, versions, runs, spoiled>>
  BY DEF RestoreRequest, draft
<1>4. JobOK'
  BY <1>3 DEF TypeOK, JobOK, LiveIn
<1> QED
  BY <1>1, <1>2, <1>3, <1>4 DEF TypeOK, VersionOK

LEMMA SnapshotTyped ==
    ASSUME TypeOK, PublishSnapshot
    PROVE  TypeOK'
<1> DEFINE v == [rows |-> DraftRows, seen |-> [u \in LiveCards |-> seen[u]]]
<1>1. v \in Version /\ VersionOK(v)
  <2>1. [u \in LiveCards |-> seen[u]] \in UNION {[S -> [Reqs -> Texts \cup {0}]] : S \in SUBSET Cards}
    <3>1. [u \in LiveCards |-> seen[u]] \in [LiveCards -> [Reqs -> Texts \cup {0}]]
      BY DEF TypeOK, LiveCards
    <3>2. LiveCards \in SUBSET Cards
      BY DEF LiveCards
    <3> QED
      BY <3>1, <3>2
  <2>2. v \in Version
    BY <2>1, DraftRowsTyped DEF Version
  <2>3. DOMAIN v.rows = LiveCards /\ DOMAIN v.seen = LiveCards
    BY DraftRowsTyped
  <2>4. \A u \in LiveCards : DOMAIN v.rows[u].texts = v.rows[u].cites
    BY DraftRowsTyped
  <2> QED
    BY <2>2, <2>3, <2>4 DEF VersionOK
<1>2. versions' \in {versions, Append(versions, v)}
  BY DEF PublishSnapshot
<1> HIDE DEF v
<1>3. versions' \in Seq(Version) /\ \A i \in 1..Len(versions') : VersionOK(versions'[i])
  <2>1. CASE versions' = versions
    BY <2>1 DEF TypeOK, VersionOK
  <2>2. CASE versions' = Append(versions, v)
    <3>1. versions \in Seq(Version) /\ \A i \in 1..Len(versions) : VersionOK(versions[i])
      BY DEF TypeOK
    <3>2. versions' \in Seq(Version) /\ Len(versions') = Len(versions) + 1
      BY <1>1, <2>2, <3>1
    <3>3. \A i \in 1..Len(versions') : versions'[i] = IF i <= Len(versions) THEN versions[i] ELSE v
      BY <2>2, <3>1, <3>2
    <3> QED
      BY <1>1, <3>1, <3>2, <3>3
  <2> QED
    BY <1>2, <2>1, <2>2
<1>4. /\ api' \in [pc : {"none", "publish", "snapshot", "restore"}, reviewed : Rows, version : Nat]
      /\ api'.pc = "none"
  BY DEF PublishSnapshot, TypeOK
<1> QED
  BY <1>3, <1>4 DEF PublishSnapshot, TypeOK, draft, bounds, VersionOK, JobOK, LiveIn

LEMMA VersionTyped ==
    ASSUME TypeOK, NEW i \in 1..Len(versions)
    PROVE  /\ versions[i] \in Version /\ VersionOK(versions[i])
           /\ DOMAIN versions[i].rows \in SUBSET Cards
           /\ \A u \in DOMAIN versions[i].rows :
                 /\ versions[i].rows[u].body \in Bodies /\ versions[i].rows[u].cites \in SUBSET Reqs
                 /\ versions[i].rows[u].texts \in [versions[i].rows[u].cites -> Texts]
                 /\ versions[i].seen[u] \in [Reqs -> Texts \cup {0}]
<1>1. versions[i] \in Version /\ VersionOK(versions[i])
  BY DEF TypeOK
<1>2. PICK S \in SUBSET Cards : versions[i].rows \in [S -> Row]
  BY <1>1 DEF Version, Rows
<1>3. PICK T \in SUBSET Cards : versions[i].seen \in [T -> [Reqs -> Texts \cup {0}]]
  BY <1>1 DEF Version
<1>4. T = S
  BY <1>1, <1>2, <1>3 DEF VersionOK
<1>5. \A u \in S : versions[i].rows[u].texts \in [versions[i].rows[u].cites -> Texts]
  BY <1>1, <1>2 DEF Row, VersionOK
<1> QED
  BY <1>1, <1>2, <1>3, <1>4, <1>5 DEF Row

LEMMA RestoreVersionTyped ==
    ASSUME TypeOK, RestoreVersion
    PROVE  TypeOK'
<1> DEFINE version == versions[api.version]
           rows == version.rows
           extra == LiveCards \ DOMAIN rows
           def(u) == [body |-> rows[u].body, cites |-> rows[u].cites]
           changed == {u \in DOMAIN rows : ~card[u].live \/ Definition(u) # def(u)}
           citing(r) == {u \in DOMAIN rows : r \in rows[u].cites /\ rows[u].texts[r] # req[r].text}
<1>1. api.version \in 1..Len(versions)
  BY DEF RestoreVersion, TypeOK
<1>2. /\ DOMAIN rows \in SUBSET Cards
      /\ \A u \in DOMAIN rows : /\ rows[u].body \in Bodies /\ rows[u].cites \in SUBSET Reqs
                                /\ rows[u].texts \in [rows[u].cites -> Texts]
                                /\ version.seen[u] \in [Reqs -> Texts \cup {0}]
  BY <1>1, VersionTyped
<1>3. /\ card' = [u \in Cards |->
                   IF u \in changed THEN [live |-> TRUE, body |-> rows[u].body, cites |-> rows[u].cites]
                                    ELSE [card[u] EXCEPT !.live = u \in DOMAIN rows]]
      /\ hist' = [u \in Cards |-> CASE u \in extra   -> hist[u] \cup {Definition(u)}
                                    [] u \in changed -> hist[u] \cup {def(u)}
                                    [] OTHER         -> hist[u]]
      /\ seen' = [u \in Cards |-> IF u \in changed THEN version.seen[u] ELSE seen[u]]
      /\ basis' = [r \in Reqs |-> IF req[r].live /\ citing(r) # {}
                                  THEN rows[CHOOSE u \in citing(r) : TRUE].texts[r] ELSE basis[r]]
      /\ Meanwhile(extra)
      /\ api' = [api EXCEPT !.pc = "none"]
      /\ spoiled' = TRUE
      /\ UNCHANGED <<req, code, versions, bounds>>
  BY DEF RestoreVersion
<1>4. changed \subseteq DOMAIN rows /\ extra \in SUBSET Cards
  BY DEF LiveCards
<1>5. \A r \in Reqs : citing(r) # {} => rows[CHOOSE u \in citing(r) : TRUE].texts[r] \in Texts
  <2>1. \A r : citing(r) # {} => (CHOOSE u \in citing(r) : TRUE) \in citing(r)
    OBVIOUS
  <2> QED
    BY <1>2, <2>1
<1>6. \A u \in changed : def(u) \in [body : Bodies, cites : SUBSET Reqs]
  BY <1>2, <1>4
<1>7. \A u \in Cards : Definition(u) \in [body : Bodies, cites : SUBSET Reqs]
  BY DEF Definition, TypeOK, Card
<1> HIDE DEF changed, extra, citing, def, rows, version
<1>8. card' \in [Cards -> Card]
  <2>1. \A u \in changed : [live |-> TRUE, body |-> rows[u].body, cites |-> rows[u].cites] \in Card
    BY <1>2, <1>4 DEF Card
  <2>2. \A u \in Cards, b \in BOOLEAN : [card[u] EXCEPT !.live = b] \in Card
    BY ZenonT(30) DEF TypeOK, Card
  <2>3. \A u \in Cards : (u \in DOMAIN rows) \in BOOLEAN
    OBVIOUS
  <2> QED
    BY <1>3, <2>1, <2>2, <2>3, Zenon
<1>9. hist' \in [Cards -> SUBSET [body : Bodies, cites : SUBSET Reqs]]
  BY <1>3, <1>6, <1>7 DEF TypeOK
<1>10. seen' \in [Cards -> [Reqs -> Texts \cup {0}]]
  BY <1>2, <1>3, <1>4 DEF TypeOK
<1>11. basis' \in [Reqs -> Texts \cup {0}]
  BY <1>3, <1>5 DEF TypeOK
<1>12. JobOK'
  BY <1>3, <1>4, MeanwhileTyped DEF TypeOK
<1>13. /\ api' \in [pc : {"none", "publish", "snapshot", "restore"}, reviewed : Rows, version : Nat]
       /\ api'.pc = "none"
  BY <1>3 DEF TypeOK
<1> QED
  BY <1>3, <1>8, <1>9, <1>10, <1>11, <1>12, <1>13 DEF TypeOK, bounds, VersionOK

LEMMA InitTyped == Init => TypeOK
<1> SUFFICES ASSUME Init PROVE TypeOK
  OBVIOUS
<1>1. Idle \in Job /\ Idle.pc = "idle" /\ Idle.work = {}
  BY DEF Idle, Job
<1>2. JobOK
  BY <1>1 DEF Init, JobOK
<1>3. NoRows \in [{} -> Row] /\ {} \in SUBSET Cards
  BY DEF NoRows
<1>4. api \in [pc : {"none", "publish", "snapshot", "restore"}, reviewed : Rows, version : Nat] /\ api.pc = "none"
  BY <1>3 DEF Init, Rows
<1>5. card \in [Cards -> Card]
  BY BodiesAssumption DEF Init, Card
<1>6. req \in [Reqs -> Requirement]
  BY DEF Init
<1>7. versions \in Seq(Version) /\ \A i \in 1..Len(versions) : VersionOK(versions[i])
  BY DEF Init
<1>8. edits \in 0..EditBound /\ runs \in 0..RunBound
  BY BoundsAssumption DEF Init
<1>9. /\ basis \in [Reqs -> Texts \cup {0}]
      /\ seen \in [Cards -> [Reqs -> Texts \cup {0}]]
      /\ code \in [Cards -> Nat]
      /\ hist \in [Cards -> SUBSET [body : Bodies, cites : SUBSET Reqs]]
      /\ spoiled \in BOOLEAN
  BY DEF Init, NoText
<1> QED
  BY <1>2, <1>4, <1>5, <1>6, <1>7, <1>8, <1>9 DEF TypeOK, Init

-----------------------------------------------------------------------------
(* Codes.                                                                    *)

LEMMA NextCodeAhead ==
    ASSUME TypeOK, HighestCode
    PROVE  NextCode \in Nat /\ \A u \in Cards : code[u] < NextCode
<1> DEFINE S == {code[u] : u \in Cards} \cup {0}
<1>1. Largest(S) \in S /\ \A n \in S : n <= Largest(S)
  BY DEF HighestCode, Largest
<1>2. S \subseteq Nat
  BY DEF TypeOK
<1>3. NextCode = 1 + Largest(S)
  BY DEF NextCode
<1>4. \A u \in Cards : code[u] \in S
  OBVIOUS
<1> HIDE DEF S
<1>5. PICK m \in S : NextCode = 1 + m /\ \A n \in S : n <= m
  BY <1>1, <1>3
<1>6. m \in Nat /\ \A u \in Cards : code[u] \in Nat
  BY <1>2, <1>4
<1>7. \A u \in Cards : code[u] <= m
  BY <1>4, <1>5
<1> QED
  BY <1>5, <1>6, <1>7

\* most steps hand out no code, and bring no run to where it does
CodesAlone ==
    code' = code /\ (gen'.pc = "units" => gen.pc = "units" /\ gen'.next = gen.next)

LEMMA CodesAloneKeep ==
    ASSUME CodesInv, CodesAlone
    PROVE  CodesInv'
BY DEF CodesInv, CodesAlone, CodesNeverReused, HighestCode, RunIsAhead

LEMMA MeanwhileAlone ==
    ASSUME JobOK, NEW S, Meanwhile(S), UNCHANGED code
    PROVE  CodesAlone
BY DEF JobOK, Job, Meanwhile, CodesAlone

LEMMA UnitCodes ==
    ASSUME TypeOK, CodesInv, gen.pc = "units", NEW w \in gen.work,
           NEW fresh \in {{}} \cup {{u} : u \in {v \in Cards : code[v] = 0}},
           NEW removals, NEW updates, NEW new \in [fresh -> Answers(w)],
           ApplyUnit(w, removals, updates, new)
    PROVE  CodesInv'
<1>1. gen.next \in Nat /\ \A u \in Cards : code[u] \in Nat /\ code[u] < gen.next
  BY DEF TypeOK, JobOK, Job, CodesInv, RunIsAhead
<1>2. /\ code' = [u \in Cards |-> IF u \in fresh THEN gen.next ELSE code[u]]
      /\ gen' = [gen EXCEPT !.work = @ \ {w}, !.taken = @ \cup fresh, !.next = @ + Cardinality(fresh)]
  BY DEF ApplyUnit, Numbered
<1>3. gen'.next = gen.next + Cardinality(fresh)
  BY <1>2 DEF TypeOK, JobOK, Job
<1>4. CASE fresh = {}
  <2>1. code' = code
    BY <1>2, <1>4 DEF TypeOK
  <2>2. gen'.next = gen.next
    BY <1>1, <1>3, <1>4, FS_EmptySet
  <2> QED
    BY <2>1, <2>2, CodesAloneKeep DEF CodesAlone
<1>5. CASE fresh # {}
  <2>1. PICK f \in Cards : fresh = {f} /\ code[f] = 0
    BY <1>5
  <2>2. code' = [code EXCEPT ![f] = gen.next]
    BY <1>2, <2>1 DEF TypeOK
  <2>3. gen'.next = gen.next + 1
    BY <1>3, <2>1, FS_Singleton
  <2>4. CodesNeverReused'
    BY <1>1, <2>1, <2>2 DEF TypeOK, CodesInv, CodesNeverReused
  <2>5. HighestCode'
    <3>1. gen.next \in {code'[u] : u \in Cards} \cup {0}
      BY <2>1, <2>2 DEF TypeOK
    <3>2. \A n \in {code'[u] : u \in Cards} \cup {0} : n <= gen.next
      BY <1>1, <2>2 DEF TypeOK
    <3> QED
      BY <3>1, <3>2 DEF HighestCode
  <2>6. RunIsAhead'
    BY <1>1, <2>2, <2>3 DEF TypeOK, RunIsAhead
  <2> QED
    BY <2>4, <2>5, <2>6 DEF CodesInv
<1> QED
  BY <1>4, <1>5

-----------------------------------------------------------------------------
(* Histories.                                                                *)

\* what a step writes into a case goes to its history, which only grows
Recorded == /\ \A u \in Cards : hist[u] \subseteq hist'[u]
            /\ \A u \in Cards : card'[u].live \/ code'[u] # 0 =>
                 \/ Issued(u) /\ card'[u].body = card[u].body /\ card'[u].cites = card[u].cites
                 \/ [body |-> card'[u].body, cites |-> card'[u].cites] \in hist'[u]

LEMMA RecordedKeeps ==
    ASSUME HistoryComplete, Recorded
    PROVE  HistoryComplete'
BY DEF HistoryComplete, Recorded, Issued, Definition

LEMMA UntouchedRecorded ==
    ASSUME UNCHANGED <<card, hist, code>>
    PROVE  Recorded
BY DEF Recorded, Issued

LEMMA WriteRecorded ==
    ASSUME TypeOK, NEW u \in Cards, NEW d \in [body : Bodies, cites : SUBSET Reqs], Write(u, d)
    PROVE  Recorded
BY DEF TypeOK, Write, Recorded, Issued, Card

LEMMA RemovalRecorded ==
    ASSUME TypeOK, NEW S, NEW R, hist' = Record(R), card' = Without(S), code' = code
    PROVE  Recorded
BY DEF TypeOK, Record, Without, Recorded, Issued, Card

LEMMA UnitRecorded ==
    ASSUME TypeOK, gen.pc = "units", NEW w \in gen.work,
           NEW fresh \in {{}} \cup {{u} : u \in {v \in Cards : code[v] = 0}},
           NEW removals \in SUBSET w.cards, NEW updated \in SUBSET (w.cards \ removals),
           NEW updates \in [updated -> Answers(w)], NEW new \in [fresh -> Answers(w)],
           ApplyUnit(w, removals, updates, new)
    PROVE  Recorded
<1> DEFINE found == (w.cards \cap LiveCards) \ gen.gone
           after == [u \in Cards |-> IF u \in DOMAIN new THEN new[u]
                                       ELSE IF u \in found \cap DOMAIN updates THEN updates[u]
                                       ELSE IF u \in found \ removals THEN Kept(u) ELSE Definition(u)]
           recorded == DOMAIN new \cup (found \cap (removals \cup DOMAIN updates \cup {u \in found : DropsCites(u)}))
<1>1. /\ card' = [u \in Cards |-> [live  |-> u \in DOMAIN new \cup (LiveCards \ (found \cap removals)),
                                   body  |-> after[u].body,
                                   cites |-> after[u].cites]]
      /\ hist' = [u \in Cards |-> IF u \in recorded THEN hist[u] \cup {after[u]} ELSE hist[u]]
  BY DEF ApplyUnit
<1>2. after \in [Cards -> [body : Bodies, cites : SUBSET Reqs]]
  BY AnswersTyped, KeptTyped
<1>3. \A u \in Cards \ recorded : after[u] = Definition(u)
  BY DEF Kept, Definition
<1>4. \A u \in Cards : u \notin DOMAIN new /\ (card'[u].live \/ code'[u] # 0) => Issued(u)
  <2>1. \A u \in Cards : u \notin DOMAIN new => code'[u] = code[u]
    BY DEF ApplyUnit, Numbered
  <2>2. \A u \in Cards : u \notin DOMAIN new /\ card'[u].live => card[u].live
    BY <1>1 DEF LiveCards
  <2> QED
    BY <2>1, <2>2 DEF Issued
<1>5. \A u \in Cards : card'[u].body = after[u].body /\ card'[u].cites = after[u].cites
  BY <1>1
<1> HIDE DEF after, found
<1>6. \A u \in Cards : hist[u] \subseteq hist'[u]
  BY <1>1
<1>7. ASSUME NEW u \in Cards, card'[u].live \/ code'[u] # 0
      PROVE  \/ Issued(u) /\ card'[u].body = card[u].body /\ card'[u].cites = card[u].cites
             \/ [body |-> card'[u].body, cites |-> card'[u].cites] \in hist'[u]
  <2>1. CASE u \in recorded
    <3>1. after[u] \in hist'[u]
      BY <1>1, <2>1
    <3>2. [body |-> card'[u].body, cites |-> card'[u].cites] = after[u]
      BY <1>2, <1>5
    <3> QED
      BY <3>1, <3>2
  <2>2. CASE u \notin recorded
    <3>1. u \notin DOMAIN new /\ after[u] = Definition(u)
      BY <1>3, <2>2
    <3> QED
      BY <1>4, <1>5, <1>7, <3>1 DEF Definition
  <2> QED
    BY <2>1, <2>2
<1> QED
  BY <1>6, <1>7 DEF Recorded

LEMMA RestoreVersionRecorded ==
    ASSUME TypeOK, RestoreVersion
    PROVE  Recorded
<1> DEFINE rows == versions[api.version].rows
           extra == LiveCards \ DOMAIN rows
           def(u) == [body |-> rows[u].body, cites |-> rows[u].cites]
           changed == {u \in DOMAIN rows : ~card[u].live \/ Definition(u) # def(u)}
<1>1. /\ card' = [u \in Cards |->
                   IF u \in changed THEN [live |-> TRUE, body |-> rows[u].body, cites |-> rows[u].cites]
                                    ELSE [card[u] EXCEPT !.live = u \in DOMAIN rows]]
      /\ hist' = [u \in Cards |-> CASE u \in extra   -> hist[u] \cup {Definition(u)}
                                    [] u \in changed -> hist[u] \cup {def(u)}
                                    [] OTHER         -> hist[u]]
  BY DEF RestoreVersion
<1>0. code' = code
  BY DEF RestoreVersion
<1>2. \A u \in changed : u \notin extra
  OBVIOUS
<1>3. \A u \in DOMAIN rows : u \in changed \/ card[u].live
  OBVIOUS
<1> HIDE DEF changed, extra, rows
<1>4. \A u \in Cards : hist[u] \subseteq hist'[u]
  BY <1>1
<1>5. ASSUME NEW u \in Cards, card'[u].live \/ code'[u] # 0
      PROVE  \/ Issued(u) /\ card'[u].body = card[u].body /\ card'[u].cites = card[u].cites
             \/ [body |-> card'[u].body, cites |-> card'[u].cites] \in hist'[u]
  <2>1. CASE u \in changed
    BY <1>1, <1>2, <2>1
  <2>2. CASE u \notin changed
    BY <1>0, <1>1, <1>3, <1>5, <2>2 DEF TypeOK, Card, Issued
  <2> QED
    BY <2>1, <2>2
<1> QED
  BY <1>4, <1>5 DEF Recorded

-----------------------------------------------------------------------------
(* Every step.                                                               *)

LEMMA SnapshotDiffers ==
    ASSUME TypeOK, VersionsDiffer, PublishSnapshot
    PROVE  VersionsDiffer'
<1> DEFINE v == [rows |-> DraftRows, seen |-> [u \in LiveCards |-> seen[u]]]
<1>1. versions \in Seq(Version)
  BY DEF TypeOK
<1>2. CASE versions' = versions
  BY <1>2 DEF VersionsDiffer
<1>3. CASE versions' = Append(versions, v) /\ ~(versions # <<>> /\ DraftRows = LatestRows)
  <2>1. v.rows = DraftRows
    OBVIOUS
  <2> HIDE DEF v
  <2>2. Len(versions') = Len(versions) + 1
    BY <1>1, <1>3
  <2>3. \A i \in 1..Len(versions) : versions'[i] = versions[i]
    BY <1>1, <1>3
  <2>4. versions'[Len(versions) + 1] = v
    BY <1>1, <1>3
  <2>5. Len(versions) > 0 => versions[Len(versions)].rows # v.rows
    BY <1>1, <1>3, <2>1 DEF LatestRows
  <2>6. ASSUME NEW i \in 1..Len(versions') - 1
        PROVE  versions'[i].rows # versions'[i + 1].rows
    <3>1. CASE i = Len(versions)
      BY <1>1, <2>2, <2>3, <2>4, <2>5, <3>1
    <3>2. CASE i # Len(versions)
      <4>1. i \in 1..Len(versions) - 1 /\ i \in 1..Len(versions) /\ i + 1 \in 1..Len(versions)
        BY <1>1, <2>2, <3>2
      <4> QED
        BY <2>3, <4>1 DEF VersionsDiffer
    <3> QED
      BY <3>1, <3>2
  <2> QED
    BY <2>6 DEF VersionsDiffer
<1> QED
  BY <1>2, <1>3 DEF PublishSnapshot

\* what the proofs need of a step
Good == TypeOK' /\ CodesInv' /\ Recorded /\ (versions' = versions \/ PublishSnapshot)

LEMMA EditsGood ==
    ASSUME IInv,
           \/ \E r \in Reqs, t \in Texts, s \in Sections : ChangeRequirement(r, t, s)
           \/ \E r \in Reqs : ArchiveRequirement(r)
           \/ \E u \in Cards : DeleteCase(u) \/ \E b \in Bodies : EditCase(u, b)
           \/ \E S \in SUBSET LiveCards : \E R \in SUBSET S : DeleteFolder(S, R)
           \/ \E u \in Cards : \E d \in hist[u] : RestoreCase(u, d)
    PROVE  Good
<1>1. TypeOK /\ JobOK /\ CodesInv
  BY DEF IInv, TypeOK
<1>2. ASSUME NEW r \in Reqs, NEW t \in Texts, NEW s \in Sections, ChangeRequirement(r, t, s)
      PROVE  Good
  BY <1>1, <1>2, ChangeTyped, MeanwhileAlone, CodesAloneKeep, UntouchedRecorded DEF Good, ChangeRequirement, draft
<1>3. ASSUME NEW r \in Reqs, ArchiveRequirement(r)
      PROVE  Good
  BY <1>1, <1>3, ArchiveTyped, MeanwhileAlone, CodesAloneKeep, UntouchedRecorded DEF Good, ArchiveRequirement, draft
<1>4. ASSUME NEW u \in Cards, DeleteCase(u)
      PROVE  Good
  BY <1>1, <1>4, DeleteTyped, MeanwhileAlone, CodesAloneKeep, RemovalRecorded DEF Good, DeleteCase
<1>5. ASSUME NEW u \in Cards, NEW b \in Bodies, EditCase(u, b)
      PROVE  Good
  <2>1. [body |-> b, cites |-> card[u].cites] \in [body : Bodies, cites : SUBSET Reqs]
    BY <1>1 DEF TypeOK, Card
  <2>2. Recorded
    BY <1>1, <1>5, <2>1, WriteRecorded DEF EditCase
  <2>3. CodesInv'
    BY <1>1, <1>5, MeanwhileAlone, CodesAloneKeep DEF EditCase, Write
  <2> QED
    BY <1>1, <1>5, <2>2, <2>3, EditTyped DEF Good, EditCase
<1>6. ASSUME NEW u \in Cards, NEW d \in hist[u], RestoreCase(u, d)
      PROVE  Good
  <2>1. d \in [body : Bodies, cites : SUBSET Reqs]
    BY <1>1 DEF TypeOK
  <2>2. Recorded
    BY <1>1, <1>6, <2>1, WriteRecorded DEF RestoreCase
  <2>3. CodesInv'
    BY <1>1, <1>6, MeanwhileAlone, CodesAloneKeep DEF RestoreCase, Write
  <2> QED
    BY <1>1, <1>6, <2>2, <2>3, RestoreTyped DEF Good, RestoreCase
<1>7. ASSUME NEW S \in SUBSET LiveCards, NEW R \in SUBSET S, DeleteFolder(S, R)
      PROVE  Good
  BY <1>1, <1>7, DeleteFolderTyped, MeanwhileAlone, CodesAloneKeep, RemovalRecorded DEF Good, DeleteFolder
<1> QED
  BY <1>2, <1>3, <1>4, <1>5, <1>6, <1>7

LEMMA RunsGood ==
    ASSUME IInv,
           \/ Status \/ Clear \/ Plan \/ Prepare \/ EndRun \/ Crash
           \/ \E replace \in BOOLEAN : StartRun(replace)
           \/ \E w \in gen.work : Unit(w) \/ UnitFails(w)
    PROVE  Good
<1>1. TypeOK /\ JobOK /\ CodesInv /\ HighestCode
  BY DEF IInv, TypeOK, CodesInv
<1>2. Idle.pc = "idle"
  BY DEF Idle
<1>3. CASE Status
  BY <1>1, <1>3, StatusTyped, CodesAloneKeep, UntouchedRecorded DEF Good, Status, CodesAlone, draft
<1>4. CASE Clear
  <2>1. gen'.pc = "plan"
    BY <1>1, <1>4 DEF Clear, JobOK, Job
  <2> QED
    BY <1>1, <1>4, <2>1, ClearTyped, CodesAloneKeep, RemovalRecorded DEF Good, Clear, CodesAlone
<1>5. CASE Plan
  <2>1. gen'.pc = "prepare"
    BY <1>1, <1>5 DEF Plan, JobOK, Job
  <2> QED
    BY <1>1, <1>5, <2>1, PlanTyped, CodesAloneKeep, UntouchedRecorded DEF Good, Plan, CodesAlone, draft
<1>6. CASE Prepare
  <2>1. NextCode \in Nat /\ \A u \in Cards : code[u] < NextCode
    BY <1>1, NextCodeAhead
  <2>2. gen'.next = NextCode /\ code' = code
    BY <1>1, <1>6 DEF Prepare, JobOK, Job
  <2>3. CodesInv'
    BY <1>1, <2>1, <2>2 DEF CodesInv, CodesNeverReused, HighestCode, RunIsAhead
  <2>4. Recorded
    BY <1>1, <1>6, RemovalRecorded DEF Prepare
  <2> QED
    BY <1>1, <1>6, <2>1, <2>3, <2>4, PrepareTyped DEF Good, Prepare
<1>7. CASE EndRun
  BY <1>1, <1>2, <1>7, EndTyped, CodesAloneKeep, UntouchedRecorded DEF Good, EndRun, CodesAlone, draft
<1>8. CASE Crash
  BY <1>1, <1>2, <1>8, CrashTyped, CodesAloneKeep, UntouchedRecorded DEF Good, Crash, CodesAlone, draft
<1>9. ASSUME NEW replace \in BOOLEAN, StartRun(replace)
      PROVE  Good
  <2>1. gen'.pc # "units"
    BY <1>9 DEF StartRun, Idle
  <2> QED
    BY <1>1, <1>9, <2>1, StartTyped, CodesAloneKeep, UntouchedRecorded DEF Good, StartRun, CodesAlone, draft
<1>10. ASSUME NEW w \in gen.work, UnitFails(w)
       PROVE  Good
  <2>1. gen'.next = gen.next
    BY <1>1, <1>10 DEF UnitFails, JobOK, Job
  <2> QED
    BY <1>1, <1>10, <2>1, UnitFailsTyped, CodesAloneKeep, UntouchedRecorded DEF Good, UnitFails, CodesAlone, draft
<1>11. ASSUME NEW w \in gen.work, Unit(w)
       PROVE  Good
  <2>1. PICK fresh \in {{}} \cup {{u} : u \in {v \in Cards : code[v] = 0}}, removals \in SUBSET w.cards :
           \E updated \in SUBSET (w.cards \ removals) :
              \E updates \in [updated -> Answers(w)], new \in [fresh -> Answers(w)] :
                 ApplyUnit(w, removals, updates, new)
    BY <1>11 DEF Unit, Updates, NewCases
  <2>2. PICK updated \in SUBSET (w.cards \ removals) :
           \E updates \in [updated -> Answers(w)], new \in [fresh -> Answers(w)] :
              ApplyUnit(w, removals, updates, new)
    BY <2>1
  <2>3. PICK updates \in [updated -> Answers(w)], new \in [fresh -> Answers(w)] :
           ApplyUnit(w, removals, updates, new)
    BY <2>2
  <2>4. gen.pc = "units" /\ UNCHANGED <<req, versions, api, bounds, spoiled>>
    BY <1>11 DEF Unit
  <2>5. TypeOK'
    BY <1>1, <2>3, <2>4, UnitTyped
  <2>6. CodesInv'
    BY <1>1, <2>3, <2>4, UnitCodes
  <2>7. Recorded
    BY <1>1, <2>3, <2>4, UnitRecorded
  <2> QED
    BY <2>4, <2>5, <2>6, <2>7 DEF Good
<1> QED
  BY <1>3, <1>4, <1>5, <1>6, <1>7, <1>8, <1>9, <1>10, <1>11

LEMMA VersionsGood ==
    ASSUME IInv,
           \/ Review \/ PublishRequest \/ PublishCheck \/ PublishSnapshot \/ RestoreVersion
           \/ \E v \in 1..Len(versions) : RestoreRequest(v)
    PROVE  Good
<1>1. TypeOK /\ JobOK /\ CodesInv
  BY DEF IInv, TypeOK
<1>2. CASE Review \/ PublishRequest \/ PublishCheck
  <2>1. UNCHANGED <<gen, card, code, hist, versions>>
    BY <1>2 DEF Review, PublishRequest, PublishCheck, draft
  <2> QED
    BY <1>1, <1>2, <2>1, RequestsTyped, CodesAloneKeep, UntouchedRecorded DEF Good, CodesAlone
<1>3. CASE PublishSnapshot
  <2>1. UNCHANGED <<gen, card, code, hist>>
    BY <1>3 DEF PublishSnapshot, draft
  <2> QED
    BY <1>1, <1>3, <2>1, SnapshotTyped, CodesAloneKeep, UntouchedRecorded DEF Good, CodesAlone
<1>4. CASE RestoreVersion
  <2>1. CodesInv'
    BY <1>1, <1>4, MeanwhileAlone, CodesAloneKeep DEF RestoreVersion
  <2>2. versions' = versions
    BY <1>4 DEF RestoreVersion
  <2> QED
    BY <1>1, <1>4, <2>1, <2>2, RestoreVersionTyped, RestoreVersionRecorded DEF Good
<1>5. ASSUME NEW v \in 1..Len(versions), RestoreRequest(v)
      PROVE  Good
  <2>1. UNCHANGED <<gen, card, code, hist, versions>>
    BY <1>5 DEF RestoreRequest, draft
  <2> QED
    BY <1>1, <1>5, <2>1, RestoreRequestTyped, CodesAloneKeep, UntouchedRecorded DEF Good, CodesAlone
<1> QED
  BY <1>2, <1>3, <1>4, <1>5

LEMMA StepGood ==
    ASSUME IInv, [Next]_vars
    PROVE  IInv' /\ \A u \in Cards : hist[u] \subseteq hist'[u]
<1>1. CASE Next
  <2>1. Good
    BY <1>1, EditsGood, RunsGood, VersionsGood DEF Next
  <2>2. VersionsDiffer'
    BY <2>1, SnapshotDiffers DEF Good, IInv, VersionsDiffer
  <2> QED
    BY <2>1, <2>2, RecordedKeeps DEF Good, IInv, Recorded
<1>2. CASE UNCHANGED vars
  <2>1. UNCHANGED <<req, basis, card, code, hist, seen, gen, versions, api, edits, runs, spoiled>>
    BY <1>2 DEF vars, draft, bounds
  <2>2. TypeOK'
    BY <2>1 DEF IInv, TypeOK, JobOK, LiveIn, VersionOK
  <2>3. CodesInv'
    BY <2>1, CodesAloneKeep DEF IInv, CodesAlone
  <2>4. HistoryComplete'
    BY <2>1, UntouchedRecorded, RecordedKeeps DEF IInv
  <2> QED
    BY <2>1, <2>2, <2>3, <2>4 DEF IInv, VersionsDiffer
<1> QED
  BY <1>1, <1>2

LEMMA InitIInv == Init => IInv
<1> SUFFICES ASSUME Init PROVE IInv
  OBVIOUS
<1>1. TypeOK
  BY InitTyped
<1>2. HistoryComplete
  BY DEF Init, HistoryComplete, Issued
<1>3. \A u \in Cards : code[u] = 0
  BY DEF Init
<1>4. CodesInv
  <2>1. {code[u] : u \in Cards} \cup {0} = {0}
    BY <1>3
  <2>2. HighestCode
    BY <2>1 DEF HighestCode
  <2>3. gen.pc = "idle"
    BY DEF Init, Idle
  <2> QED
    BY <1>3, <2>2, <2>3 DEF CodesInv, CodesNeverReused, RunIsAhead
<1>5. VersionsDiffer
  BY DEF Init, VersionsDiffer
<1> QED
  BY <1>1, <1>2, <1>4, <1>5 DEF IInv

\* The inductive invariant holds, for any requirements, sections, cases and bounds.
THEOREM Invariance == Spec => []IInv
<1>1. IInv /\ [Next]_vars => IInv'
  BY StepGood
<1> QED
  BY InitIInv, <1>1, PTL DEF Spec

\* Rows, job and versions keep their types: a version knows the text of each requirement
\* its cases cite.
THEOREM TypeCorrect == Spec => []TypeOK
<1>1. IInv => TypeOK
  BY DEF IInv
<1> QED
  BY Invariance, <1>1, PTL

\* What a case says now is always in its history.
THEOREM HistoriesComplete == Spec => []HistoryComplete
<1>1. IInv => HistoryComplete
  BY DEF IInv
<1> QED
  BY Invariance, <1>1, PTL

\* A UC-N code is never issued to a second case.
THEOREM CodesUnique == Spec => []CodesNeverReused
<1>1. IInv => CodesNeverReused
  BY DEF IInv, CodesInv
<1> QED
  BY Invariance, <1>1, PTL

\* Consecutive published versions differ.
THEOREM NoEmptyPublish == Spec => []VersionsDiffer
<1>1. IInv => VersionsDiffer
  BY DEF IInv
<1> QED
  BY Invariance, <1>1, PTL

\* No step takes a definition out of a history.
THEOREM HistoriesGrow == Spec => HistoryGrows
<1>1. IInv /\ [Next]_vars => [\A u \in Cards : hist[u] \subseteq hist'[u]]_vars
  BY StepGood
<1> QED
  BY Invariance, <1>1, PTL DEF Spec, HistoryGrows

-----------------------------------------------------------------------------
(* Runs and what cases were judged against.                                  *)

\* a run has its plan
Planned == gen.pc \in {"prepare", "units"}
\* every unit of it has gone through so far, and nobody changed anything
Clean == gen.quiet /\ ~gen.failed
\* a unit still to be done is to look at case u, or to generate from requirement r
InWork(u) == \E w \in gen.work : u \in w.cards
Toward(r) == \E w \in gen.work : r \in w.items

\* what a plan removes is not in the requirements it read, and its units drop all of that
PlanOK ==
    Planned => /\ gen.removed \cap LiveIn(gen.req) = {}
               /\ \A w \in gen.work : \A u \in w.cards : gen.cites[u] \ LiveIn(gen.req) \subseteq gen.removed
\* a requirement the run read is generated from as it was read, or a unit will
BasisOK ==
    Planned /\ (~spoiled \/ Clean)
        => \A r \in LiveIn(gen.req) : basis[r] = gen.req[r].text \/ Toward(r)
\* the text of r that case u was judged against, if a run did, is the one r was last generated
\* from, or the run under way has judged the case, or will, or drops r
DatedOK(u, r) ==
    \/ seen[u][r] = 0
    \/ ~Planned /\ basis[r] \in {0, seen[u][r]}
    \/ Planned /\ r \in LiveIn(gen.req) /\ seen[u][r] = gen.req[r].text
    \/ Planned /\ r \in gen.cites[u] /\ InWork(u) /\ u \notin gen.gone
    \/ Planned /\ r \in gen.removed /\ basis[r] \in {0, seen[u][r]} /\ (gen.pc = "units" => basis[r] = 0)
CasesDated == ~spoiled => \A u \in LiveCards : \A r \in card[u].cites : DatedOK(u, r)
\* what a run that nobody disturbed has left to do
QuietOK ==
    /\ Running /\ gen.quiet => gen.req = req
    /\ Planned /\ Clean => gen.gone = {}
    /\ gen.pc = "prepare" /\ Clean =>
          /\ \A r \in Reqs : basis[r] # 0 => r \in LiveReqs \/ r \in gen.removed
          /\ \A u \in LiveCards : /\ card[u].cites = gen.cites[u]
                                  /\ card[u].cites \subseteq LiveReqs \/ u \in gen.orphans \/ InWork(u)
    /\ gen.pc = "units" /\ Clean =>
          /\ \A r \in Reqs : basis[r] # 0 => r \in LiveReqs
          /\ \A u \in LiveCards : \/ card[u].cites \subseteq LiveReqs
                                  \/ card[u].cites = gen.cites[u] /\ InWork(u)
RunInv == PlanOK /\ BasisOK /\ CasesDated /\ QuietOK

\* the units of a plan cover its pending requirements and its affected cases
LEMMA UnitsCover ==
    ASSUME NEW rs, NEW pending, NEW affected, NEW cs
    PROVE  /\ \A r \in pending : \E w \in Units(rs, pending, affected, cs) : r \in w.items
           /\ \A u \in affected : \E w \in Units(rs, pending, affected, cs) : u \in w.cards
           /\ \A w \in Units(rs, pending, affected, cs) : w.cards \subseteq affected
<1> DEFINE number(r) == Cardinality({q \in pending : rs[q].section = rs[r].section /\ q < r}) \div BatchSize
           batch(r) == <<rs[r].section, number(r)>>
           section(u) == rs[Smallest(cs[u] \cap LiveIn(rs))].section
           cited(u) == {number(r) : r \in {q \in cs[u] \cap pending : rs[q].section = section(u)}}
           home(u) == <<section(u), IF cited(u) = {} THEN 0 ELSE Smallest(cited(u))>>
           unit(k) == [items |-> {r \in pending : batch(r) = k}, cards |-> {u \in affected : home(u) = k}]
<1>1. Units(rs, pending, affected, cs) =
        {unit(k) : k \in {batch(r) : r \in pending} \cup {home(u) : u \in affected}}
  BY DEF Units
<1>2. \A k : /\ unit(k).items = {r \in pending : batch(r) = k}
             /\ unit(k).cards = {u \in affected : home(u) = k}
  OBVIOUS
<1> HIDE DEF batch, home, unit
<1>3. ASSUME NEW r \in pending
      PROVE  \E w \in Units(rs, pending, affected, cs) : r \in w.items
  <2>1. unit(batch(r)) \in Units(rs, pending, affected, cs) /\ r \in unit(batch(r)).items
    BY <1>1, <1>2
  <2> QED
    BY <2>1
<1>4. ASSUME NEW u \in affected
      PROVE  \E w \in Units(rs, pending, affected, cs) : u \in w.cards
  <2>1. unit(home(u)) \in Units(rs, pending, affected, cs) /\ u \in unit(home(u)).cards
    BY <1>1, <1>2
  <2> QED
    BY <2>1
<1>5. ASSUME NEW w \in Units(rs, pending, affected, cs)
      PROVE  w.cards \subseteq affected
  BY <1>1, <1>2
<1> QED
  BY <1>3, <1>4, <1>5

\* a change of the draft or the requirements while a run may be under way
LEMMA MeanwhileRun ==
    ASSUME JobOK, NEW S \in SUBSET Cards, Meanwhile(S)
    PROVE  /\ gen'.pc = gen.pc /\ gen'.req = gen.req /\ gen'.cites = gen.cites /\ gen'.work = gen.work
           /\ gen'.removed = gen.removed /\ gen'.orphans = gen.orphans /\ gen'.failed = gen.failed
           /\ gen'.gone = gen.gone \cup S /\ ~gen'.quiet
BY DEF JobOK, Meanwhile, Job

\* what a change to the draft owes: cases that stay live and are not written keep what they
\* say, and those deleted are known to the run as gone
LEMMA MeanwhileKeeps ==
    ASSUME JobOK, RunInv, NEW S \in SUBSET Cards, Meanwhile(S),
           UNCHANGED <<basis, spoiled>>,
           \A u \in Cards : card'[u].live =>
                \/ card[u].live /\ card'[u].cites = card[u].cites /\ seen'[u] = seen[u] /\ u \notin S
                \/ \A r \in Reqs : seen'[u][r] = 0,
           \A u \in Cards : card'[u].live => card'[u].cites \subseteq Reqs
    PROVE  RunInv'
<1>1. /\ gen'.pc = gen.pc /\ gen'.req = gen.req /\ gen'.cites = gen.cites /\ gen'.work = gen.work
      /\ gen'.removed = gen.removed
      /\ gen'.gone = gen.gone \cup S /\ ~gen'.quiet
  BY MeanwhileRun
<1>2. PlanOK'
  BY <1>1 DEF RunInv, PlanOK, Planned, LiveIn
<1>3. BasisOK'
  BY <1>1 DEF RunInv, BasisOK, Planned, Clean, Toward, LiveIn
<1>4. CasesDated'
  <2> SUFFICES ASSUME ~spoiled', NEW u \in Cards, card'[u].live, NEW r \in card'[u].cites
               PROVE  DatedOK(u, r)'
    BY DEF CasesDated, LiveCards
  <2>1. CASE card[u].live /\ card'[u].cites = card[u].cites /\ seen'[u] = seen[u] /\ u \notin S
    <3>1. DatedOK(u, r)
      BY <2>1 DEF RunInv, CasesDated, LiveCards
    <3> QED
      BY <1>1, <2>1, <3>1 DEF DatedOK, Planned, InWork, LiveIn
  <2>2. CASE \A q \in Reqs : seen'[u][q] = 0
    BY <2>2 DEF DatedOK
  <2> QED
    BY <2>1, <2>2
<1>5. QuietOK'
  BY <1>1 DEF QuietOK, Clean
<1> QED
  BY <1>2, <1>3, <1>4, <1>5 DEF RunInv

LEMMA EditsKeepRun ==
    ASSUME TypeOK, RunInv,
           \/ \E r \in Reqs, t \in Texts, s \in Sections : ChangeRequirement(r, t, s)
           \/ \E r \in Reqs : ArchiveRequirement(r)
           \/ \E u \in Cards : DeleteCase(u) \/ \E b \in Bodies : EditCase(u, b)
           \/ \E S \in SUBSET LiveCards : \E R \in SUBSET S : DeleteFolder(S, R)
           \/ \E u \in Cards : \E d \in hist[u] : RestoreCase(u, d)
    PROVE  RunInv'
<1>1. JobOK /\ card \in [Cards -> Card] /\ seen \in [Cards -> [Reqs -> Texts \cup {0}]]
  BY DEF TypeOK
<1>2. \A u \in Cards : card[u].cites \subseteq Reqs
  BY <1>1 DEF Card
<1>3. ASSUME NEW r \in Reqs, \/ \E t \in Texts, s \in Sections : ChangeRequirement(r, t, s)
                             \/ ArchiveRequirement(r)
      PROVE  RunInv'
  <2>1. Meanwhile({}) /\ UNCHANGED <<basis, card, seen, spoiled>>
    BY <1>3 DEF ChangeRequirement, ArchiveRequirement, draft
  <2> QED
    BY <1>1, <1>2, <2>1, MeanwhileKeeps
<1>4. ASSUME NEW S \in SUBSET LiveCards, Meanwhile(S), card' = Without(S), UNCHANGED <<basis, seen, spoiled>>
      PROVE  RunInv'
  <2>1. S \in SUBSET Cards
    BY DEF LiveCards
  <2>2. \A u \in Cards : card'[u].live => u \notin S
    BY <1>1, <1>4 DEF Without, Card
  <2>3. \A u \in Cards : u \notin S => card'[u] = card[u]
    BY <1>4 DEF Without
  <2> QED
    BY <1>1, <1>2, <1>4, <2>1, <2>2, <2>3, MeanwhileKeeps
<1>5. ASSUME NEW u \in Cards, DeleteCase(u)
      PROVE  RunInv'
  <2>1. {u} \in SUBSET LiveCards
    BY <1>5 DEF DeleteCase, LiveCards
  <2> QED
    BY <1>4, <1>5, <2>1 DEF DeleteCase
<1>6. ASSUME NEW S \in SUBSET LiveCards, NEW R \in SUBSET S, DeleteFolder(S, R)
      PROVE  RunInv'
  BY <1>4, <1>6 DEF DeleteFolder
<1>7. ASSUME NEW u \in Cards, NEW d \in [body : Bodies, cites : SUBSET Reqs], Write(u, d), Meanwhile({}),
             UNCHANGED <<basis, spoiled>>
      PROVE  RunInv'
  <2>1. card'[u].cites = d.cites /\ d.cites \subseteq Reqs
    BY <1>1, <1>7 DEF Write
  <2>2. \A r \in Reqs : seen'[u][r] = 0
    BY <1>1, <1>7 DEF Write, NoText
  <2>3. \A v \in Cards : v # u => card'[v] = card[v] /\ seen'[v] = seen[v]
    BY <1>1, <1>7 DEF Write
  <2> QED
    BY <1>1, <1>2, <1>7, <2>1, <2>2, <2>3, MeanwhileKeeps
<1>8. ASSUME NEW u \in Cards, NEW b \in Bodies, EditCase(u, b)
      PROVE  RunInv'
  <2>1. [body |-> b, cites |-> card[u].cites] \in [body : Bodies, cites : SUBSET Reqs]
    BY <1>2
  <2> QED
    BY <1>7, <1>8, <2>1 DEF EditCase
<1>9. ASSUME NEW u \in Cards, NEW d \in hist[u], RestoreCase(u, d)
      PROVE  RunInv'
  <2>1. d \in [body : Bodies, cites : SUBSET Reqs]
    BY DEF TypeOK
  <2> QED
    BY <1>7, <1>9, <2>1 DEF RestoreCase
<1> QED
  BY <1>3, <1>5, <1>6, <1>8, <1>9

\* a step outside any run, or one that ends it
LEMMA UnplannedKeeps ==
    ASSUME ~Planned', Running' /\ gen'.quiet => gen'.req = req',
           spoiled' \/ (~spoiled /\ \A u \in LiveCards' : \A r \in card'[u].cites :
                                        seen'[u][r] = 0 \/ basis'[r] \in {0, seen'[u][r]})
    PROVE  RunInv'
<1>1. CasesDated'
  BY DEF CasesDated, DatedOK
<1> QED
  BY <1>1 DEF RunInv, PlanOK, BasisOK, QuietOK, Planned

LEMMA StatusKeepsRun ==
    ASSUME TypeOK, RunInv, Status
    PROVE  RunInv'
<1>1. ~Planned' /\ ~Running' /\ spoiled'
  BY DEF Status, Running, Planned
<1> QED
  BY <1>1, UnplannedKeeps

LEMMA StartKeepsRun ==
    ASSUME TypeOK, RunInv, NEW replace \in BOOLEAN, StartRun(replace)
    PROVE  RunInv'
<1>1. gen'.pc \in {"clear", "plan"} /\ gen'.req = req /\ req' = req
  BY DEF StartRun, Idle
<1>2. ~Planned /\ UNCHANGED <<card, seen, basis, spoiled>>
  BY DEF StartRun, Planned, Running, draft
<1>3. ~Planned'
  BY <1>1 DEF Planned
<1>4. spoiled \/ \A u \in LiveCards : \A r \in card[u].cites : seen[u][r] = 0 \/ basis[r] \in {0, seen[u][r]}
  BY <1>2 DEF RunInv, CasesDated, DatedOK
<1>5. spoiled' \/ (~spoiled /\ \A u \in LiveCards' : \A r \in card'[u].cites :
                                   seen'[u][r] = 0 \/ basis'[r] \in {0, seen'[u][r]})
  BY <1>2, <1>4 DEF LiveCards
<1> QED
  BY <1>1, <1>3, <1>5, UnplannedKeeps

LEMMA ClearKeepsRun ==
    ASSUME TypeOK, RunInv, Clear
    PROVE  RunInv'
<1>1. gen'.pc = "plan" /\ gen'.req = gen.req /\ gen'.quiet = gen.quiet /\ req' = req
  BY DEF Clear, TypeOK, JobOK, Job
<1>2. Running' /\ gen'.quiet => gen'.req = req'
  BY <1>1 DEF RunInv, QuietOK, Running, Clear
<1>3. LiveCards' = {}
  <2>1. card' = Without(LiveCards) /\ card \in [Cards -> Card]
    BY DEF Clear, TypeOK
  <2>2. \A u \in Cards : ~card'[u].live
    BY <2>1 DEF Without, Card, LiveCards
  <2> QED
    BY <2>2 DEF LiveCards
<1>4. ~Planned'
  BY <1>1 DEF Planned
<1>5. spoiled' = spoiled /\ spoiled \in BOOLEAN
  BY DEF Clear, TypeOK
<1> QED
  BY <1>2, <1>3, <1>4, <1>5, UnplannedKeeps

LEMMA EndKeepsRun ==
    ASSUME TypeOK, RunInv, EndRun
    PROVE  RunInv'
<1>1. ~Planned' /\ ~Running'
  BY DEF EndRun, Idle, Planned, Running
<1>2. UNCHANGED <<card, seen, basis, spoiled>> /\ Planned /\ gen.work = {}
  BY DEF EndRun, draft, Planned
<1>3. ASSUME ~spoiled, NEW u \in LiveCards, NEW r \in card[u].cites
      PROVE  seen[u][r] = 0 \/ basis[r] \in {0, seen[u][r]}
  <2>1. DatedOK(u, r)
    BY <1>3 DEF RunInv, CasesDated
  <2>2. r \in LiveIn(gen.req) => basis[r] = gen.req[r].text
    BY <1>2, <1>3 DEF RunInv, BasisOK, Toward
  <2> QED
    BY <1>2, <2>1, <2>2 DEF DatedOK, InWork
<1>4. spoiled' \/ (~spoiled /\ \A u \in LiveCards' : \A r \in card'[u].cites :
                                   seen'[u][r] = 0 \/ basis'[r] \in {0, seen'[u][r]})
  BY <1>2, <1>3 DEF LiveCards
<1> QED
  BY <1>1, <1>4, UnplannedKeeps

LEMMA CrashKeepsRun ==
    ASSUME TypeOK, RunInv, Crash
    PROVE  RunInv'
<1>1. ~Planned' /\ ~Running'
  BY DEF Crash, Idle, Planned, Running
<1>2. UNCHANGED <<card, seen, basis>> /\ (spoiled' <=> spoiled \/ Running)
  BY DEF Crash, draft, TypeOK
<1>3. ASSUME ~spoiled, ~Running, NEW u \in LiveCards, NEW r \in card[u].cites
      PROVE  seen[u][r] = 0 \/ basis[r] \in {0, seen[u][r]}
  BY <1>3 DEF RunInv, CasesDated, DatedOK, Planned, Running
<1>4. spoiled' \/ (~spoiled /\ \A u \in LiveCards' : \A r \in card'[u].cites :
                                   seen'[u][r] = 0 \/ basis'[r] \in {0, seen'[u][r]})
  BY <1>2, <1>3 DEF LiveCards
<1> QED
  BY <1>1, <1>4, UnplannedKeeps

\* a plan leaves no live requirement, and no case that cites one that changed, without a unit
LEMMA PlanCovers ==
    ASSUME TypeOK, gen.pc = "plan", NEW bs, NEW removed, NEW pending,
           removed = Removed(gen.req, bs, Cites), pending = Pending(gen.req, bs),
           NEW work, work = Units(gen.req, pending, Affected(Cites, removed, pending), Cites)
    PROVE  /\ removed \cap LiveIn(gen.req) = {}
           /\ \A r \in Reqs : bs[r] # 0 => r \in LiveIn(gen.req) \/ r \in removed
           /\ \A u \in LiveCards : card[u].cites \ LiveIn(gen.req) \subseteq removed
           /\ \A r \in LiveIn(gen.req) : bs[r] = gen.req[r].text \/ \E w \in work : r \in w.items
           /\ \A u \in LiveCards : \A r \in card[u].cites :
                 \/ r \in LiveIn(gen.req) /\ bs[r] = gen.req[r].text
                 \/ \E w \in work : u \in w.cards
                 \/ u \in Orphans(Cites, removed) /\ r \in removed
           /\ \A w \in work : w.cards \subseteq LiveCards
<1>1. card \in [Cards -> Card] /\ \A u \in Cards : Cites[u] = card[u].cites /\ card[u].cites \subseteq Reqs
  BY DEF TypeOK, Card, Cites
<1>2. removed \cap LiveIn(gen.req) = {}
  BY DEF Removed
<1>3. \A u \in LiveCards : card[u].cites \ LiveIn(gen.req) \subseteq removed
  BY <1>1 DEF Removed, LiveCards
<1>4. \A r \in LiveIn(gen.req) : bs[r] # gen.req[r].text => r \in pending
  BY DEF Pending
<1>5. \A r \in LiveIn(gen.req) : bs[r] = gen.req[r].text \/ \E w \in work : r \in w.items
  BY <1>4, UnitsCover
<1>6. ASSUME NEW u \in LiveCards, NEW r \in card[u].cites
      PROVE  \/ r \in LiveIn(gen.req) /\ bs[r] = gen.req[r].text
             \/ \E w \in work : u \in w.cards
             \/ u \in Orphans(Cites, removed) /\ r \in removed
  <2>1. u \in Cards /\ Cites[u] = card[u].cites
    BY <1>1 DEF LiveCards
  <2>2. r \in pending \cup removed \/ (r \in LiveIn(gen.req) /\ bs[r] = gen.req[r].text)
    BY <1>3, <1>4
  <2>3. CASE u \in Orphans(Cites, removed)
    <3>1. r \in removed
      BY <2>1, <2>3 DEF Orphans
    <3> QED
      BY <2>3, <3>1
  <2>4. CASE u \notin Orphans(Cites, removed) /\ r \in pending \cup removed
    <3>1. u \in Affected(Cites, removed, pending)
      BY <2>1, <2>4 DEF Affected
    <3> QED
      BY <3>1, UnitsCover
  <2> QED
    BY <2>2, <2>3, <2>4
<1>7. \A w \in work : w.cards \subseteq LiveCards
  BY UnitsCover DEF Affected
<1>8. \A r \in Reqs : bs[r] # 0 => r \in LiveIn(gen.req) \/ r \in removed
  BY DEF Removed
<1> QED
  BY <1>2, <1>3, <1>5, <1>6, <1>7, <1>8

LEMMA PlanKeepsRun ==
    ASSUME TypeOK, RunInv, Plan
    PROVE  RunInv'
<1>1. gen.pc = "plan" /\ gen \in Job /\ UNCHANGED <<req, card, seen>>
  BY DEF Plan, TypeOK, JobOK, draft
<1>2. PICK bs, pending, removed :
        /\ bs = basis' /\ removed = Removed(gen.req, bs, Cites) /\ pending = Pending(gen.req, bs)
        /\ gen' = [gen EXCEPT !.pc = "prepare", !.cites = Cites, !.removed = removed, !.gone = {}, !.taken = LiveCards,
                              !.orphans = Orphans(Cites, removed),
                              !.work = Units(gen.req, pending, Affected(Cites, removed, pending), Cites)]
  BY DEF Plan
<1>3. PICK work : work = Units(gen.req, pending, Affected(Cites, removed, pending), Cites)
  OBVIOUS
<1>4. /\ gen'.pc = "prepare" /\ gen'.req = gen.req /\ gen'.cites = Cites /\ gen'.removed = removed
      /\ gen'.gone = {} /\ gen'.orphans = Orphans(Cites, removed) /\ gen'.work = work
      /\ gen'.quiet = gen.quiet /\ gen'.failed = gen.failed
  BY <1>1, <1>2, <1>3 DEF Job
<1>5. /\ removed \cap LiveIn(gen.req) = {}
      /\ \A r \in Reqs : bs[r] # 0 => r \in LiveIn(gen.req) \/ r \in removed
      /\ \A u \in LiveCards : card[u].cites \ LiveIn(gen.req) \subseteq removed
      /\ \A r \in LiveIn(gen.req) : bs[r] = gen.req[r].text \/ \E w \in work : r \in w.items
      /\ \A u \in LiveCards : \A r \in card[u].cites :
            \/ r \in LiveIn(gen.req) /\ bs[r] = gen.req[r].text
            \/ \E w \in work : u \in w.cards
            \/ u \in Orphans(Cites, removed) /\ r \in removed
      /\ \A w \in work : w.cards \subseteq LiveCards
  BY <1>1, <1>2, <1>3, PlanCovers
<1>6. LiveIn(gen'.req) = LiveIn(gen.req) /\ LiveIn(gen.req)' = LiveIn(gen.req)
  BY <1>4 DEF LiveIn
<1>7. \A u \in Cards : Cites[u] = card[u].cites
  BY DEF Cites
<1>8. LiveCards' = LiveCards /\ LiveCards \subseteq Cards /\ LiveReqs' = LiveReqs
  BY <1>1 DEF LiveCards, LiveReqs
<1>9. PlanOK'
  BY <1>4, <1>5, <1>6, <1>7, <1>8 DEF PlanOK
<1>10. BasisOK'
  BY <1>2, <1>4, <1>5, <1>6 DEF BasisOK, Toward
<1>11. CasesDated'
  <2> SUFFICES ASSUME ~spoiled', NEW u \in LiveCards, NEW r \in card[u].cites
               PROVE  DatedOK(u, r)'
    BY <1>1, <1>8 DEF CasesDated
  <2>1. basis' = basis /\ ~spoiled
    BY DEF Plan
  <2>2. seen[u][r] = 0 \/ basis[r] \in {0, seen[u][r]}
    BY <1>1, <2>1 DEF RunInv, CasesDated, DatedOK, Planned
  <2>3. CASE seen[u][r] = 0
    BY <1>1, <2>3 DEF DatedOK
  <2>4. CASE seen[u][r] # 0 /\ r \in LiveIn(gen.req) /\ bs[r] = gen.req[r].text
    <3>1. gen.req \in [Reqs -> Requirement] /\ gen.req[r].text # 0
      BY <1>1, <2>4, ReqsAssumption DEF TypeOK, JobOK, LiveIn, Requirement
    <3>2. seen[u][r] = gen.req[r].text
      BY <1>2, <2>1, <2>2, <2>4, <3>1
    <3> QED
      BY <1>1, <1>4, <1>6, <2>4, <3>2 DEF DatedOK, Planned
  <2>5. CASE \E w \in work : u \in w.cards
    BY <1>4, <1>7, <1>8, <2>5 DEF DatedOK, Planned, InWork
  <2>6. CASE seen[u][r] # 0 /\ r \in removed
    BY <1>1, <1>4, <2>1, <2>2, <2>6 DEF DatedOK, Planned
  <2> QED
    BY <1>5, <2>3, <2>4, <2>5, <2>6
<1>12. QuietOK'
  <2>1. gen.quiet => gen.req = req
    BY <1>1 DEF RunInv, QuietOK, Running
  <2>2. gen.quiet => LiveIn(gen.req) = LiveReqs
    BY <2>1 DEF LiveIn, LiveReqs
  <2>3. ASSUME NEW u \in LiveCards
        PROVE  card[u].cites \subseteq LiveIn(gen.req) \/ u \in Orphans(Cites, removed) \/ \E w \in work : u \in w.cards
    BY <1>5, <2>3
  <2>4. \A u \in LiveCards : InWork(u)' <=> \E w \in work : u \in w.cards
    BY <1>4 DEF InWork
  <2>5. gen'.pc = "prepare" /\ Clean' =>
          /\ \A r \in Reqs : basis'[r] # 0 => r \in LiveReqs' \/ r \in gen'.removed
          /\ \A u \in LiveCards' : /\ card'[u].cites = gen'.cites[u]
                                   /\ card'[u].cites \subseteq LiveReqs' \/ u \in gen'.orphans \/ InWork(u)'
    BY <1>1, <1>2, <1>4, <1>5, <1>7, <1>8, <2>2, <2>3, <2>4 DEF Clean
  <2> QED
    BY <1>1, <1>4, <2>1, <2>5 DEF QuietOK
<1> QED
  BY <1>9, <1>10, <1>11, <1>12 DEF RunInv

LEMMA PrepareKeepsRun ==
    ASSUME TypeOK, RunInv, Prepare
    PROVE  RunInv'
<1>1. gen.pc = "prepare" /\ gen \in Job /\ card \in [Cards -> Card]
      /\ UNCHANGED <<req, seen, spoiled>>
  BY DEF Prepare, TypeOK, JobOK
<1>2. /\ gen'.pc = "units" /\ gen'.req = gen.req /\ gen'.cites = gen.cites /\ gen'.removed = gen.removed
      /\ gen'.gone = gen.gone /\ gen'.work = gen.work /\ gen'.quiet = gen.quiet /\ gen'.failed = gen.failed
  BY <1>1 DEF Prepare, Job
<1>3. \A r \in Reqs : basis'[r] = IF r \in gen.removed THEN 0 ELSE basis[r]
  BY DEF Prepare
<1>4. PICK orphans : orphans = (gen.orphans \cap LiveCards) \ gen.gone /\ card' = Without(orphans)
  BY DEF Prepare
<1>5. \A u \in LiveCards' : u \in LiveCards /\ u \notin orphans /\ card'[u].cites = card[u].cites
  BY <1>1, <1>4 DEF LiveCards, Without, Card
<1>6. LiveIn(gen.req)' = LiveIn(gen.req) /\ LiveReqs' = LiveReqs
  BY <1>1, <1>2 DEF LiveIn, LiveReqs
<1>7. PlanOK /\ gen.removed \cap LiveIn(gen.req) = {} /\ LiveIn(gen.req) \subseteq Reqs
  BY <1>1 DEF RunInv, PlanOK, Planned, LiveIn
<1>8. PlanOK'
  BY <1>1, <1>2, <1>6, <1>7 DEF PlanOK, Planned
<1>9. BasisOK'
  <2>1. \A r \in LiveIn(gen.req) : basis'[r] = basis[r]
    BY <1>3, <1>7
  <2>2. ~spoiled \/ Clean => \A r \in LiveIn(gen.req) : basis[r] = gen.req[r].text \/ Toward(r)
    BY <1>1 DEF RunInv, BasisOK, Planned
  <2> QED
    BY <1>1, <1>2, <1>6, <2>1, <2>2 DEF BasisOK, Toward, Clean
<1>10. CasesDated'
  <2> SUFFICES ASSUME ~spoiled', NEW u \in LiveCards, NEW r \in card[u].cites
               PROVE  DatedOK(u, r)'
    BY <1>5 DEF CasesDated
  <2>1. DatedOK(u, r) /\ Planned /\ r \in Reqs
    BY <1>1 DEF RunInv, CasesDated, Planned, LiveCards, Card
  <2>2. r \in gen.removed => basis'[r] = 0
    BY <1>3, <2>1
  <2> QED
    BY <1>1, <1>2, <1>6, <2>1, <2>2 DEF DatedOK, Planned, InWork
<1>11. QuietOK'
  <2>1. gen.quiet => gen.req = req
    BY <1>1 DEF RunInv, QuietOK, Running
  <2>2. ASSUME Clean
        PROVE  /\ gen.gone = {}
               /\ \A r \in Reqs : basis[r] # 0 => r \in LiveReqs \/ r \in gen.removed
               /\ \A u \in LiveCards : /\ card[u].cites = gen.cites[u]
                                       /\ card[u].cites \subseteq LiveReqs \/ u \in gen.orphans \/ InWork(u)
    BY <1>1, <2>2 DEF RunInv, QuietOK, Planned
  <2>3. \A u : InWork(u) => \E w \in gen'.work : u \in w.cards
    BY <1>2 DEF InWork
  <2>4. Clean => /\ \A r \in Reqs : basis'[r] # 0 => r \in LiveReqs
                 /\ \A u \in LiveCards' : \/ card'[u].cites \subseteq LiveReqs
                                          \/ card'[u].cites = gen'.cites[u] /\ \E w \in gen'.work : u \in w.cards
    BY <1>2, <1>3, <1>4, <1>5, <2>2, <2>3
  <2> QED
    BY <1>1, <1>2, <1>6, <2>1, <2>2, <2>4 DEF QuietOK, Clean, InWork
<1> QED
  BY <1>8, <1>9, <1>10, <1>11 DEF RunInv

\* what a unit leaves of a case: nothing it does not know, or the case as it was and not its own
Processed(u, w, cites) ==
    \/ cites \subseteq Shown(w)
    \/ u \in w.cards /\ DropsCites(u) /\ cites = gen.cites[u] \ gen.removed
    \/ u \in w.cards /\ ~DropsCites(u) /\ u \in LiveCards /\ cites = card[u].cites

LEMMA UnitChanges ==
    ASSUME TypeOK, gen.pc = "units", NEW w \in gen.work,
           NEW fresh \in {{}} \cup {{u} : u \in {v \in Cards : code[v] = 0}},
           NEW removals \in SUBSET w.cards, NEW updated \in SUBSET (w.cards \ removals),
           NEW updates \in [updated -> Answers(w)], NEW new \in [fresh -> Answers(w)],
           ApplyUnit(w, removals, updates, new)
    PROVE  \A u \in LiveCards' :
              \/ Processed(u, w, card'[u].cites) /\ seen'[u] = Judged(u, w, card'[u].cites)
              \/ /\ u \in LiveCards /\ card'[u].cites = card[u].cites /\ seen'[u] = seen[u]
                 /\ u \notin w.cards \/ u \in gen.gone
<1> DEFINE found == (w.cards \cap LiveCards) \ gen.gone
           after == [u \in Cards |-> IF u \in DOMAIN new THEN new[u]
                                       ELSE IF u \in found \cap DOMAIN updates THEN updates[u]
                                       ELSE IF u \in found \ removals THEN Kept(u) ELSE Definition(u)]
<1>1. /\ card' = [u \in Cards |-> [live  |-> u \in DOMAIN new \cup (LiveCards \ (found \cap removals)),
                                   body  |-> after[u].body,
                                   cites |-> after[u].cites]]
      /\ seen' = [u \in Cards |-> IF u \in DOMAIN new \cup (found \ removals)
                                  THEN Judged(u, w, after[u].cites) ELSE seen[u]]
  BY DEF ApplyUnit
<1>2. \A u \in Cards : card'[u].cites = after[u].cites
                       /\ (card'[u].live <=> u \in DOMAIN new \cup (LiveCards \ (found \cap removals)))
  BY <1>1
<1>3. \A a \in Answers(w) : a.cites \subseteq Shown(w)
  BY DEF Answers
<1>4. ASSUME NEW u \in LiveCards'
      PROVE  \/ Processed(u, w, card'[u].cites) /\ seen'[u] = Judged(u, w, card'[u].cites)
             \/ /\ u \in LiveCards /\ card'[u].cites = card[u].cites /\ seen'[u] = seen[u]
                /\ u \notin w.cards \/ u \in gen.gone
  <2>1. u \in Cards /\ u \in DOMAIN new \cup (LiveCards \ (found \cap removals))
    BY <1>2 DEF LiveCards
  <2>2. u \in DOMAIN new \cup (found \ removals) => seen'[u] = Judged(u, w, card'[u].cites)
    BY <1>1, <1>2, <2>1
  <2>3. u \notin DOMAIN new \cup (found \ removals) => seen'[u] = seen[u]
    BY <1>1, <2>1
  <2>4. CASE u \in DOMAIN new \/ u \in found \cap DOMAIN updates
    <3>1. after[u] \in Answers(w)
      BY <2>1, <2>4
    <3>2. card'[u].cites \subseteq Shown(w)
      BY <1>2, <1>3, <2>1, <3>1
    <3>3. u \in DOMAIN new \cup (found \ removals)
      BY <2>1, <2>4
    <3> QED
      BY <2>2, <3>2, <3>3 DEF Processed
  <2>5. CASE u \notin DOMAIN new /\ u \notin found \cap DOMAIN updates /\ u \in found
    <3>1. u \in found \ removals
      BY <2>1, <2>5
    <3>2. card'[u].cites = Kept(u).cites
      BY <1>2, <2>1, <2>5, <3>1
    <3>3. Kept(u).cites = IF DropsCites(u) THEN gen.cites[u] \ gen.removed ELSE card[u].cites
      BY DEF Kept
    <3>4. u \in w.cards /\ u \in LiveCards
      BY <2>5
    <3> QED
      BY <2>2, <3>1, <3>2, <3>3, <3>4 DEF Processed
  <2>6. CASE u \notin DOMAIN new /\ u \notin found
    <3>1. u \in LiveCards /\ (u \notin w.cards \/ u \in gen.gone)
      BY <2>1, <2>6
    <3>2. card'[u].cites = card[u].cites
      BY <1>2, <2>1, <2>6 DEF Definition
    <3> QED
      BY <2>3, <2>6, <3>1, <3>2
  <2> QED
    BY <2>4, <2>5, <2>6
<1> QED
  BY <1>4

LEMMA UnitGen ==
    ASSUME gen \in Job, NEW w \in gen.work,
           NEW removals, NEW updates, NEW new, ApplyUnit(w, removals, updates, new)
    PROVE  /\ gen'.pc = gen.pc /\ gen'.req = gen.req /\ gen'.cites = gen.cites /\ gen'.removed = gen.removed
           /\ gen'.gone = gen.gone /\ gen'.work = gen.work \ {w}
           /\ gen'.quiet = gen.quiet /\ gen'.failed = gen.failed
<1>1. PICK taken, next : gen' = [gen EXCEPT !.work = gen.work \ {w}, !.taken = taken, !.next = next]
  BY DEF ApplyUnit
<1> QED
  BY <1>1 DEF Job

LEMMA UnitKeepsRun ==
    ASSUME TypeOK, RunInv, gen.pc = "units", NEW w \in gen.work,
           NEW fresh \in {{}} \cup {{u} : u \in {v \in Cards : code[v] = 0}},
           NEW removals \in SUBSET w.cards, NEW updated \in SUBSET (w.cards \ removals),
           NEW updates \in [updated -> Answers(w)], NEW new \in [fresh -> Answers(w)],
           ApplyUnit(w, removals, updates, new),
           UNCHANGED <<req, versions, api, bounds, spoiled>>
    PROVE  RunInv'
<1>1. gen \in Job /\ Planned /\ Running
  BY DEF TypeOK, JobOK, Planned, Running
<1>2. /\ gen'.pc = "units" /\ gen'.req = gen.req /\ gen'.cites = gen.cites /\ gen'.removed = gen.removed
      /\ gen'.gone = gen.gone /\ gen'.work = gen.work \ {w}
      /\ gen'.quiet = gen.quiet /\ gen'.failed = gen.failed
  BY <1>1, UnitGen
<1>3. \A r \in Reqs : basis'[r] = IF r \in w.items THEN gen.req[r].text ELSE basis[r]
  BY DEF ApplyUnit
<1>4. LiveIn(gen.req)' = LiveIn(gen.req) /\ LiveReqs' = LiveReqs /\ LiveIn(gen.req) \subseteq Reqs
  BY <1>2 DEF LiveIn, LiveReqs
<1>5. w.items \subseteq LiveIn(gen.req) /\ Shown(w) \subseteq LiveIn(gen.req)
  <2>1. w.items \subseteq LiveIn(gen.req)
    BY DEF TypeOK, JobOK
  <2> DEFINE cited == UNION {gen.cites[v] : v \in w.cards}
  <2>2. Shown(w) = w.items \cup (cited \cap LiveIn(gen.req))
    BY DEF Shown
  <2> HIDE DEF cited
  <2> QED
    BY <2>1, <2>2
<1>6. /\ gen.removed \cap LiveIn(gen.req) = {}
      /\ \A v \in gen.work : \A u \in v.cards : gen.cites[u] \ LiveIn(gen.req) \subseteq gen.removed
  BY <1>1 DEF RunInv, PlanOK
<1>7. \A u \in LiveCards' :
         \/ Processed(u, w, card'[u].cites) /\ seen'[u] = Judged(u, w, card'[u].cites)
         \/ /\ u \in LiveCards /\ card'[u].cites = card[u].cites /\ seen'[u] = seen[u]
            /\ u \notin w.cards \/ u \in gen.gone
  BY UnitChanges
<1>8. \A u \in LiveCards : card[u].cites \subseteq Reqs
  BY DEF TypeOK, Card, LiveCards
\* a case of the unit that it keeps as it is cites nothing the unit does not know, or it changed
\* since the plan
<1>9. \A u \in w.cards : gen.cites[u] \ gen.removed \subseteq Shown(w)
  <2>1. \A u \in w.cards : gen.cites[u] \cap LiveIn(gen.req) \subseteq Shown(w)
    <3> TAKE u \in w.cards
    <3> DEFINE cited == UNION {gen.cites[v] : v \in w.cards}
    <3>1. gen.cites[u] \subseteq cited
      BY Zenon
    <3>2. Shown(w) = w.items \cup (cited \cap LiveIn(gen.req))
      BY DEF Shown
    <3> HIDE DEF cited
    <3> QED
      BY <3>1, <3>2
  <2> QED
    BY <1>6, <2>1
<1>10. PlanOK'
  BY <1>2, <1>4, <1>6 DEF PlanOK
<1>11. BasisOK'
  <2>1. ~spoiled \/ Clean => \A r \in LiveIn(gen.req) : basis[r] = gen.req[r].text \/ Toward(r)
    BY <1>1 DEF RunInv, BasisOK
  <2>2. \A r \in LiveIn(gen.req) : r \notin w.items /\ Toward(r) => \E v \in gen'.work : r \in v.items
    BY <1>2 DEF Toward
  <2> QED
    BY <1>2, <1>3, <1>4, <2>1, <2>2 DEF BasisOK, Toward, Clean
<1>12. CasesDated'
  <2> SUFFICES ASSUME ~spoiled', NEW u \in LiveCards', NEW r \in card'[u].cites
               PROVE  DatedOK(u, r)'
    BY DEF CasesDated
  <2>0. r \in gen.removed /\ basis[r] = 0 /\ r \in Reqs => basis'[r] = 0
    BY <1>3, <1>5, <1>6
  <2>1. CASE Processed(u, w, card'[u].cites) /\ seen'[u] = Judged(u, w, card'[u].cites)
    <3>1. CASE r \in Shown(w)
      <4>1. seen'[u][r] = gen.req[r].text /\ r \in LiveIn(gen.req)
        BY <1>4, <1>5, <2>1, <3>1 DEF Judged
      <4> QED
        BY <1>2, <1>4, <4>1 DEF DatedOK, Planned
    <3>2. CASE r \notin Shown(w)
      <4>1. u \in w.cards /\ ~DropsCites(u) /\ u \in LiveCards /\ card'[u].cites = card[u].cites
        BY <1>9, <2>1, <3>2 DEF Processed
      <4>2. DatedOK(u, r) /\ r \in Reqs
        BY <1>8, <4>1 DEF RunInv, CasesDated
      <4>3. seen'[u][r] = seen[u][r]
        BY <2>1, <3>2, <4>2 DEF Judged
      <4>4. r \notin gen.cites[u]
        BY <1>9, <3>2, <4>1 DEF DropsCites
      <4> QED
        BY <1>1, <1>2, <1>4, <2>0, <4>2, <4>3, <4>4 DEF DatedOK, Planned
    <3> QED
      BY <3>1, <3>2
  <2>2. CASE /\ u \in LiveCards /\ card'[u].cites = card[u].cites /\ seen'[u] = seen[u]
             /\ u \notin w.cards \/ u \in gen.gone
    <3>1. DatedOK(u, r) /\ r \in Reqs
      BY <1>8, <2>2 DEF RunInv, CasesDated
    <3>2. InWork(u) /\ u \notin gen.gone => \E v \in gen'.work : u \in v.cards
      BY <1>2, <2>2 DEF InWork
    <3> QED
      BY <1>1, <1>2, <1>4, <2>0, <2>2, <3>1, <3>2 DEF DatedOK, Planned, InWork
  <2> QED
    BY <1>7, <2>1, <2>2
<1>13. QuietOK'
  <2>1. gen.quiet => gen.req = req
    BY <1>1 DEF RunInv, QuietOK
  <2>2. gen.quiet => LiveIn(gen.req) = LiveReqs
    BY <2>1 DEF LiveIn, LiveReqs
  <2>3. ASSUME Clean
        PROVE  /\ gen.gone = {}
               /\ \A r \in Reqs : basis[r] # 0 => r \in LiveReqs
               /\ \A u \in LiveCards : \/ card[u].cites \subseteq LiveReqs
                                       \/ card[u].cites = gen.cites[u] /\ InWork(u)
    BY <1>1, <2>3 DEF RunInv, QuietOK
  <2>4. ASSUME Clean, NEW u \in LiveCards'
        PROVE  \/ card'[u].cites \subseteq LiveReqs
               \/ card'[u].cites = gen'.cites[u] /\ \E v \in gen'.work : u \in v.cards
    <3>1. Shown(w) \subseteq LiveReqs
      BY <1>5, <2>2, <2>4 DEF Clean
    <3>2. CASE Processed(u, w, card'[u].cites)
      <4>1. CASE card'[u].cites \subseteq Shown(w)
        BY <3>1, <4>1
      <4>2. CASE u \in w.cards /\ card'[u].cites = gen.cites[u] \ gen.removed
        BY <1>9, <3>1, <4>2
      <4>3. CASE u \in w.cards /\ ~DropsCites(u) /\ u \in LiveCards /\ card'[u].cites = card[u].cites
        <5>1. gen.cites[u] \subseteq Shown(w)
          BY <1>9, <4>3 DEF DropsCites
        <5> QED
          BY <2>3, <2>4, <3>1, <4>3, <5>1
      <4> QED
        BY <3>2, <4>1, <4>2, <4>3 DEF Processed
    <3>3. CASE u \in LiveCards /\ card'[u].cites = card[u].cites /\ (u \notin w.cards \/ u \in gen.gone)
      BY <1>2, <2>3, <2>4, <3>3 DEF InWork
    <3> QED
      BY <1>7, <3>2, <3>3
  <2>5. Clean => \A r \in Reqs : basis'[r] # 0 => r \in LiveReqs
    BY <1>3, <1>5, <2>2, <2>3 DEF Clean
  <2>6. Clean' <=> Clean
    BY <1>2 DEF Clean
  <2> QED
    BY <1>1, <1>2, <1>4, <2>1, <2>3, <2>4, <2>5, <2>6 DEF QuietOK, InWork
<1> QED
  BY <1>10, <1>11, <1>12, <1>13 DEF RunInv

LEMMA UnitFailsKeepsRun ==
    ASSUME TypeOK, RunInv, NEW w \in gen.work, UnitFails(w)
    PROVE  RunInv'
<1>1. gen.pc = "units" /\ gen \in Job /\ spoiled' /\ req' = req
  BY DEF UnitFails, TypeOK, JobOK
<1>2. /\ gen'.pc = "units" /\ gen'.req = gen.req /\ gen'.cites = gen.cites /\ gen'.removed = gen.removed
      /\ gen'.work \subseteq gen.work /\ gen'.quiet = gen.quiet /\ gen'.failed
  BY <1>1 DEF UnitFails, Job
<1>3. PlanOK'
  BY <1>1, <1>2 DEF RunInv, PlanOK, Planned, LiveIn
<1>4. QuietOK'
  BY <1>1, <1>2 DEF RunInv, QuietOK, Running, Clean
<1> QED
  BY <1>1, <1>2, <1>3, <1>4 DEF RunInv, BasisOK, CasesDated, Clean

LEMMA RestoreVersionKeepsRun ==
    ASSUME TypeOK, RunInv, RestoreVersion
    PROVE  RunInv'
<1>1. PICK S : S \in SUBSET Cards /\ Meanwhile(S)
  BY DEF RestoreVersion, LiveCards
<1>2. JobOK /\ spoiled'
  BY DEF TypeOK, RestoreVersion
<1>3. /\ gen'.pc = gen.pc /\ gen'.req = gen.req /\ gen'.cites = gen.cites /\ gen'.work = gen.work
      /\ gen'.removed = gen.removed /\ ~gen'.quiet
  BY <1>1, <1>2, MeanwhileRun
<1>4. PlanOK'
  BY <1>3 DEF RunInv, PlanOK, Planned, LiveIn
<1> QED
  BY <1>2, <1>3, <1>4 DEF RunInv, BasisOK, CasesDated, QuietOK, Clean

LEMMA UntouchedKeepsRun ==
    ASSUME RunInv, UNCHANGED <<req, basis, card, seen, gen, spoiled>>
    PROVE  RunInv'
BY DEF RunInv, PlanOK, BasisOK, CasesDated, DatedOK, QuietOK, Planned, Clean, InWork, Toward, Running,
       LiveIn, LiveReqs, LiveCards

LEMMA StepKeepsRun ==
    ASSUME TypeOK, RunInv, [Next]_vars
    PROVE  RunInv'
<1>1. ASSUME NEW w \in gen.work, Unit(w)
      PROVE  RunInv'
  <2>1. PICK fresh \in {{}} \cup {{u} : u \in {v \in Cards : code[v] = 0}}, removals \in SUBSET w.cards :
           \E updated \in SUBSET (w.cards \ removals) :
              \E updates \in [updated -> Answers(w)], new \in [fresh -> Answers(w)] :
                 ApplyUnit(w, removals, updates, new)
    BY <1>1 DEF Unit, Updates, NewCases
  <2>2. PICK updated \in SUBSET (w.cards \ removals) :
           \E updates \in [updated -> Answers(w)], new \in [fresh -> Answers(w)] :
              ApplyUnit(w, removals, updates, new)
    BY <2>1
  <2>3. PICK updates \in [updated -> Answers(w)], new \in [fresh -> Answers(w)] :
           ApplyUnit(w, removals, updates, new)
    BY <2>2
  <2>4. gen.pc = "units" /\ UNCHANGED <<req, versions, api, bounds, spoiled>>
    BY <1>1 DEF Unit
  <2> QED
    BY <2>3, <2>4, UnitKeepsRun
<1>2. CASE Review \/ PublishRequest \/ PublishCheck \/ PublishSnapshot \/ UNCHANGED vars
  <2>1. UNCHANGED <<req, basis, card, seen, gen, spoiled>>
    BY <1>2 DEF Review, PublishRequest, PublishCheck, PublishSnapshot, vars, draft
  <2> QED
    BY <2>1, UntouchedKeepsRun
<1>3. ASSUME NEW v \in 1..Len(versions), RestoreRequest(v)
      PROVE  RunInv'
  <2>1. UNCHANGED <<req, basis, card, seen, gen, spoiled>>
    BY <1>3 DEF RestoreRequest, draft
  <2> QED
    BY <2>1, UntouchedKeepsRun
<1> QED
  BY <1>1, <1>2, <1>3, EditsKeepRun, StatusKeepsRun, StartKeepsRun, ClearKeepsRun, PlanKeepsRun, PrepareKeepsRun,
     EndKeepsRun, CrashKeepsRun, UnitFailsKeepsRun, RestoreVersionKeepsRun DEF Next

LEMMA InitRun == Init => RunInv
<1> SUFFICES ASSUME Init PROVE RunInv
  OBVIOUS
<1>1. gen.pc = "idle"
  BY DEF Init, Idle
<1>2. \A u \in Cards : \A r \in Reqs : seen[u][r] = 0
  BY DEF Init, NoText
<1>3. LiveCards = {}
  BY DEF Init, LiveCards
<1> QED
  BY <1>1, <1>3 DEF RunInv, PlanOK, BasisOK, CasesDated, QuietOK, Planned, Running

\* Whatever edits of cases and requirements fall between the steps of a run, the run's plan
\* stays true to what it read and every judgement of a case is dated.
THEOREM RunInvariance == Spec => []RunInv
<1>1. TypeOK /\ RunInv /\ [Next]_vars => RunInv'
  BY StepKeepsRun
<1> QED
  BY TypeCorrect, InitRun, <1>1, PTL DEF Spec

\* A case last judged against another text of a requirement it cites is one the next update
\* looks at, or a unit of the running one still will.
THEOREM StaleOffered == Spec => []StaleCasesAreOffered
<1>1. ASSUME TypeOK, RunInv
      PROVE  StaleCasesAreOffered
  <2> SUFFICES ASSUME ~spoiled, NEW u \in LiveCards, Stale(u),
                      ~ \E w \in gen.work : u \in w.cards \/ card[u].cites \cap w.items # {}
               PROVE  u \in Outdated
    BY DEF StaleCasesAreOffered
  <2>1. PICK r \in card[u].cites \cap LiveReqs : seen[u][r] \notin {0, req[r].text}
    BY DEF Stale
  <2>2. DatedOK(u, r)
    BY <1>1 DEF RunInv, CasesDated
  <2>3. u \in Cards /\ r \in Reqs /\ Cites[u] = card[u].cites /\ ~InWork(u) /\ ~Toward(r)
    BY <2>1 DEF LiveCards, LiveReqs, Cites, InWork, Toward
  <2>4. req[r].text # 0
    BY <1>1, <2>3, ReqsAssumption DEF TypeOK, Requirement
  <2>5. Planned /\ r \in LiveIn(gen.req) => basis[r] = gen.req[r].text
    BY <1>1, <2>3 DEF RunInv, BasisOK
  <2>6. basis[r] # req[r].text
    BY <2>1, <2>2, <2>3, <2>4, <2>5 DEF DatedOK
  <2>7. r \in Pending(req, basis)
    BY <2>1, <2>3, <2>6 DEF Pending, LiveIn, LiveReqs
  <2> QED
    BY <2>1, <2>3, <2>7 DEF Outdated, Affected
<1> QED
  BY TypeCorrect, RunInvariance, <1>1, PTL

\* A run in which every unit went through and nobody changed anything leaves nothing pending
\* and nothing removed to the next.
THEOREM CleanRuns == Spec => []CleanRunCompletes
<1>1. ASSUME RunInv
      PROVE  CleanRunCompletes
  <2> SUFFICES ASSUME AllUnitsDone, ~gen.failed, gen.quiet
               PROVE  NothingToDo
    BY DEF CleanRunCompletes
  <2>1. gen.pc = "units" /\ gen.work = {} /\ Planned /\ Running /\ Clean
    BY DEF AllUnitsDone, Planned, Running, Clean
  <2>2. gen.req = req
    BY <1>1, <2>1 DEF RunInv, QuietOK
  <2>3. Pending(req, basis) = {}
    BY <1>1, <2>1, <2>2 DEF RunInv, BasisOK, Toward, Pending
  <2>4. LiveIn(req) = LiveReqs
    BY DEF LiveIn, LiveReqs
  <2>5. /\ \A r \in Reqs : basis[r] # 0 => r \in LiveReqs
        /\ \A u \in LiveCards : card[u].cites \subseteq LiveReqs
    BY <1>1, <2>1 DEF RunInv, QuietOK, InWork
  <2>6. \A u \in LiveCards : Cites[u] = card[u].cites
    BY DEF Cites, LiveCards
  <2>7. Removed(req, basis, Cites) = {}
    BY <2>4, <2>5, <2>6 DEF Removed
  <2> QED
    BY <2>3, <2>7 DEF NothingToDo
<1> QED
  BY RunInvariance, <1>1, PTL
=============================================================================
