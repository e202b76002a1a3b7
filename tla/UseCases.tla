------------------------------ MODULE UseCases ------------------------------
(***************************************************************************)
(* The use cases of one BRD: the draft that users edit, its incremental     *)
(* generation from the requirements (use_cases/generation.py, incremental.py)*)
(* and the published suite versions (use_cases/suites.py, versioning.py,    *)
(* migrations/032).                                                         *)
(*                                                                         *)
(* Every action is one database transaction, or one statement where others  *)
(* may commit before the next.  A generation is a background thread, a      *)
(* publish or a restore a request; users edit cases and requirements        *)
(* meanwhile.  A requirement is its section and text, a case a body and the *)
(* requirements it cites; folders, titles and the wording of the model's    *)
(* answers are left out.  The answers themselves are free choices.          *)
(***************************************************************************)
EXTENDS Integers, FiniteSets, Sequences

CONSTANTS
    Reqs,          \* ids of requirements (brd_chunk), in document order
    Sections,      \* sections of the document
    Texts,         \* requirement texts
    BatchSize,     \* requirements per unit of work (_SCOPE_BATCH)
    Cards,         \* uids of use cases
    Bodies,        \* definitions of a case, its citations apart
    EditBound,     \* bound: edits of requirements and cases
    RunBound,      \* bound: generation runs
    VersionBound   \* bound: published versions

ASSUME ReqsAssumption == Reqs \subseteq Nat /\ 0 \notin Texts
ASSUME BodiesAssumption == Bodies # {} /\ Sections # {}
ASSUME BatchAssumption == BatchSize \in Nat \ {0}
ASSUME BoundsAssumption == EditBound \in Nat /\ RunBound \in Nat /\ VersionBound \in Nat

VARIABLES
    req,           \* requirements: brd_chunk, or brd_chunk_archive where not live
    basis,         \* use_case_req_basis: the text generated from, 0: no row
    card,          \* use_case rows
    code,          \* the UC-N of each case ever inserted, 0: never
    hist,          \* use_case_version: definitions recorded of each case
    gen,           \* the generation job
    versions,      \* published versions, first to last
    api,           \* a publish or restore request, and the draft last reviewed
    edits, runs,   \* bounded counters
    seen,          \* history variable: the requirement texts a run last judged each case
                   \* against, 0: none, or the user wrote the case since
    spoiled        \* history variable: a unit failed, a run was cut off, a version restored
                   \* or a basis assumed

draft == <<card, code, hist, seen>>
bounds == <<edits, runs>>
vars == <<req, basis, draft, gen, versions, api, bounds, spoiled>>

-----------------------------------------------------------------------------

Requirement == [live : BOOLEAN, text : Texts, section : Sections]
Card == [live : BOOLEAN, body : Bodies, cites : SUBSET Reqs]

LiveReqs == {r \in Reqs : req[r].live}
LiveCards == {u \in Cards : card[u].live}
Cites == [u \in Cards |-> card[u].cites]
Definition(u) == [body |-> card[u].body, cites |-> card[u].cites]
NoText == [r \in Reqs |-> 0]

Largest(S) == CHOOSE n \in S : \A k \in S : k <= n
Smallest(S) == CHOOSE n \in S : \A k \in S : n <= k

Running == gen.pc # "idle"

\* someone else changes something while a generation runs; deleted cases lose the
\* row id that generation knows them by
Meanwhile(deleted) == gen' = [gen EXCEPT !.quiet = FALSE, !.gone = @ \cup deleted]
Edit == edits < EditBound /\ edits' = edits + 1

-----------------------------------------------------------------------------
(* Requirements: edited, moved, removed to the archive and revived under the *)
(* same id, by requirement editing or an applied revision.                   *)

ChangeRequirement(r, t, s) ==
    /\ Edit /\ Meanwhile({})
    /\ req' = [req EXCEPT ![r] = [live |-> TRUE, text |-> t, section |-> s]]
    /\ req' # req
    /\ UNCHANGED <<basis, draft, versions, api, runs, spoiled>>

ArchiveRequirement(r) ==
    /\ Edit /\ Meanwhile({})
    /\ req[r].live
    /\ req' = [req EXCEPT ![r].live = FALSE]
    /\ UNCHANGED <<basis, draft, versions, api, runs, spoiled>>

-----------------------------------------------------------------------------
(* A user's edits of the draft.  Each records the case's new state (for a    *)
(* deletion its last) in the same transaction.                               *)

WriteUnrecorded(u, d) ==
    /\ card' = [card EXCEPT ![u] = [live |-> TRUE, body |-> d.body, cites |-> d.cites]]
    /\ seen' = [seen EXCEPT ![u] = NoText]
    /\ UNCHANGED <<hist, code>>
Write(u, d) ==
    /\ card' = [card EXCEPT ![u] = [live |-> TRUE, body |-> d.body, cites |-> d.cites]]
    /\ hist' = [hist EXCEPT ![u] = @ \cup {d}]
    /\ seen' = [seen EXCEPT ![u] = NoText]
    /\ UNCHANGED code

EditCase(u, b) ==
    /\ Edit /\ Meanwhile({})
    /\ card[u].live /\ card[u].body # b
    /\ Write(u, [body |-> b, cites |-> card[u].cites])
    /\ UNCHANGED <<req, basis, versions, api, runs, spoiled>>

\* versioning.restore: back to any recorded definition, from the Trash or in place
RestoreCase(u, d) ==
    /\ Edit /\ Meanwhile({})
    /\ ~card[u].live \/ Definition(u) # d
    /\ Write(u, d)
    /\ UNCHANGED <<req, basis, versions, api, runs, spoiled>>

\* the definitions of the cases in S go to their history
Record(S) == [u \in Cards |-> IF u \in S THEN hist[u] \cup {Definition(u)} ELSE hist[u]]
Without(S) == [u \in Cards |-> IF u \in S THEN [card[u] EXCEPT !.live = FALSE] ELSE card[u]]

DeleteCase(u) ==
    /\ Edit /\ Meanwhile({u})
    /\ card[u].live
    /\ hist' = Record({u})
    /\ card' = Without({u})
    /\ UNCHANGED <<req, basis, code, seen, versions, api, runs, spoiled>>

\* delete_folder: the cases S go with their folder by cascade; it records those it read before,
\* R, and others may be moved in or generated there in between
DeleteFolder(S, R) ==
    /\ Edit /\ Meanwhile(S)
    /\ S # {} /\ S \subseteq LiveCards /\ R \subseteq S
    /\ hist' = Record(R)
    /\ card' = Without(S)
    /\ UNCHANGED <<req, basis, code, seen, versions, api, runs, spoiled>>

-----------------------------------------------------------------------------
(* The plan (incremental.py): what requirements rs, basis bs and the cases'  *)
(* citations cs say is left to do.                                           *)

LiveIn(rs) == {r \in Reqs : rs[r].live}
Pending(rs, bs) == {r \in LiveIn(rs) : bs[r] # rs[r].text}
Removed(rs, bs, cs) ==
    ({r \in Reqs : bs[r] # 0} \cup UNION {cs[u] : u \in LiveCards}) \ LiveIn(rs)
Orphans(cs, removed) == {u \in LiveCards : cs[u] # {} /\ cs[u] \subseteq removed}
Affected(cs, removed, pending) ==
    {u \in LiveCards \ Orphans(cs, removed) : cs[u] \cap (pending \cup removed) # {}}

UnitsOfPending(rs, pending, affected, cs) ==
    LET batch(r) == <<rs[r].section, Cardinality({q \in pending : rs[q].section = rs[r].section /\ q < r}) \div BatchSize>>
    IN  {[items |-> {r \in pending : batch(r) = k},
          cards |-> {u \in affected : \E r \in cs[u] \cap pending : batch(r) = k /\ r = Smallest(cs[u] \cap LiveIn(rs))}] :
            k \in {batch(r) : r \in pending}}

\* units of work: the batches of each section's pending requirements; an affected case
\* goes to the section of the first live requirement it cites, to the batch there that
\* has a pending one it cites, else to the first.  The order of the units is left open.
Units(rs, pending, affected, cs) ==
    LET number(r) == Cardinality({q \in pending : rs[q].section = rs[r].section /\ q < r}) \div BatchSize
        batch(r) == <<rs[r].section, number(r)>>
        section(u) == rs[Smallest(cs[u] \cap LiveIn(rs))].section
        cited(u) == {number(r) : r \in {q \in cs[u] \cap pending : rs[q].section = section(u)}}
        home(u) == <<section(u), IF cited(u) = {} THEN 0 ELSE Smallest(cited(u))>>
    IN  {[items |-> {r \in pending : batch(r) = k}, cards |-> {u \in affected : home(u) = k}] :
            k \in {batch(r) : r \in pending} \cup {home(u) : u \in affected}}

\* _ensure_basis: cases but no basis, so what they cite counts as generated from
EnsuredBasis(rs) ==
    IF LiveCards # {} /\ basis = NoText
    THEN [r \in Reqs |-> IF rs[r].live /\ \E u \in LiveCards : r \in card[u].cites THEN rs[r].text ELSE 0]
    ELSE basis

\* the status page of an idle BRD
Status ==
    /\ ~Running /\ LiveReqs # {}
    /\ basis' = EnsuredBasis(req)
    /\ basis' # basis
    /\ spoiled' = TRUE
    /\ UNCHANGED <<req, draft, gen, versions, api, bounds>>

-----------------------------------------------------------------------------
(* A run of generate_for_project.                                            *)

Idle == [pc |-> "idle", req |-> <<>>, cites |-> <<>>, removed |-> {}, orphans |-> {}, work |-> {},
         taken |-> {}, next |-> 0, gone |-> {}, lost |-> {}, failed |-> FALSE, quiet |-> FALSE]

\* the job is taken and the requirements are read; "replace" clears the tree next
StartRun(replace) ==
    /\ ~Running /\ runs < RunBound
    /\ LiveReqs # {}
    /\ gen' = [Idle EXCEPT !.pc = IF replace THEN "clear" ELSE "plan", !.req = req, !.quiet = TRUE]
    /\ runs' = runs + 1
    /\ UNCHANGED <<req, basis, draft, versions, api, edits, spoiled>>

Clear ==
    /\ gen.pc = "clear"
    /\ gen' = [gen EXCEPT !.pc = "plan"]
    /\ hist' = Record(LiveCards)
    /\ card' = Without(LiveCards)
    /\ basis' = NoText
    /\ UNCHANGED <<req, code, seen, versions, api, bounds, spoiled>>

Plan ==
    /\ gen.pc = "plan"
    /\ basis' = EnsuredBasis(gen.req)
    /\ LET pending == Pending(gen.req, basis')
           removed == Removed(gen.req, basis', Cites)
       IN  gen' = [gen EXCEPT !.pc = "prepare", !.cites = Cites, !.removed = removed, !.gone = {}, !.taken = LiveCards,
                              !.orphans = Orphans(Cites, removed),
                              !.work = Units(gen.req, pending, Affected(Cites, removed, pending), Cites)]
    /\ spoiled' = (spoiled \/ basis' # basis)
    /\ UNCHANGED <<req, draft, versions, api, bounds>>

NextCodeOfLive == 1 + Largest({code[u] : u \in LiveCards} \cup {0})
\* the highest code ever issued, plus one
NextCode == 1 + Largest({code[u] : u \in Cards} \cup {0})

\* cases that cite nothing any more are removed, and the basis rows of what is gone
Prepare ==
    /\ gen.pc = "prepare"
    /\ gen' = [gen EXCEPT !.pc = "units", !.orphans = {}, !.next = NextCode]
    /\ LET orphans == (gen.orphans \cap LiveCards) \ gen.gone
       IN  hist' = Record(orphans) /\ card' = Without(orphans)
    /\ basis' = [r \in Reqs |-> IF r \in gen.removed THEN 0 ELSE basis[r]]
    /\ UNCHANGED <<req, code, seen, versions, api, bounds, spoiled>>

\* what the model is shown, and so may cite: the unit's requirements and the live ones
\* its cases cite
Shown(w) == w.items \cup ((UNION {gen.cites[u] : u \in w.cards}) \cap LiveIn(gen.req))
Answers(w) == [body : Bodies, cites : (SUBSET Shown(w)) \ {{}}]
\* _update_unit and _generate_batch: what it says of the unit's cases, and of new ones
Updates(w, updated) == [updated -> Answers(w)]
NewCases(w, fresh) == [fresh -> Answers(w)]

\* a case kept loses the citations of removed requirements
DropsCites(u) == gen.cites[u] \cap gen.removed # {}
KeptAsIs(u) == Definition(u)
Kept(u) == [body |-> card[u].body,
            cites |-> IF DropsCites(u) THEN gen.cites[u] \ gen.removed ELSE card[u].cites]

Judged(u, w, cites) ==
    [r \in Reqs |-> IF r \notin cites THEN 0
                    ELSE IF r \in Shown(w) THEN gen.req[r].text ELSE seen[u][r]]

\* _insert_cards: codes count up through the run
Numbered(new) == [u \in Cards |-> IF u \in DOMAIN new THEN gen.next ELSE code[u]]

\* One transaction: the unit's cases, its new case and its basis rows.  A case deleted
\* since the plan is not found; one brought back meanwhile has another row id.
ApplyUnit(w, removals, updates, new) ==
    LET found == (w.cards \cap LiveCards) \ gen.gone
        after == [u \in Cards |-> IF u \in DOMAIN new THEN new[u]
                                  ELSE IF u \in found \cap DOMAIN updates THEN updates[u]
                                  ELSE IF u \in found \ removals THEN Kept(u) ELSE Definition(u)]
        recorded == DOMAIN new \cup (found \cap (removals \cup DOMAIN updates \cup {u \in found : DropsCites(u)}))
    IN  /\ card' = [u \in Cards |-> [live  |-> u \in DOMAIN new \cup (LiveCards \ (found \cap removals)),
                                     body  |-> after[u].body,
                                     cites |-> after[u].cites]]
        /\ hist' = [u \in Cards |-> IF u \in recorded THEN hist[u] \cup {after[u]} ELSE hist[u]]
        /\ seen' = [u \in Cards |-> IF u \in DOMAIN new \cup (found \ removals)
                                    THEN Judged(u, w, after[u].cites) ELSE seen[u]]
        /\ code' = Numbered(new)
        /\ basis' = [r \in Reqs |-> IF r \in w.items THEN gen.req[r].text ELSE basis[r]]
        /\ gen' = [gen EXCEPT !.work = @ \ {w}, !.taken = @ \cup DOMAIN new,
                              !.next = @ + Cardinality(DOMAIN new)]

\* _existing_titles: another case had the title when the run planned, or got it since
TitleTaken == gen.taken # {}
\* The model answers for each of the unit's cases, and with one new case at most: with
\* none if its title is taken, or there are cases to answer for.
Unit(w) ==
    /\ gen.pc = "units" /\ w \in gen.work
    /\ \E fresh \in {{}} \cup {{u} : u \in {v \in Cards : code[v] = 0}}, removals \in SUBSET w.cards :
         /\ fresh = {} => w.cards # {} \/ TitleTaken
         /\ \E updated \in SUBSET (w.cards \ removals) :
              \E updates \in Updates(w, updated), new \in NewCases(w, fresh) :
                 ApplyUnit(w, removals, updates, new)
    /\ UNCHANGED <<req, versions, api, bounds, spoiled>>

\* the model or the database fails: the unit is skipped
UnitFails(w) ==
    /\ gen.pc = "units" /\ w \in gen.work
    /\ gen' = [gen EXCEPT !.work = @ \ {w}, !.lost = @ \cup w.cards, !.failed = TRUE]
    /\ spoiled' = TRUE
    /\ UNCHANGED <<req, basis, draft, versions, api, bounds>>

EndRun ==
    /\ gen.pc = "units" /\ gen.work = {}
    /\ gen' = Idle
    /\ UNCHANGED <<req, basis, draft, versions, api, bounds, spoiled>>

\* the process restarts: job and request are forgotten, what they committed stays
Crash ==
    /\ Running \/ api.pc # "none"
    /\ gen' = Idle
    /\ api' = [api EXCEPT !.pc = "none"]
    /\ spoiled' = (spoiled \/ Running)
    /\ UNCHANGED <<req, basis, draft, versions, bounds>>

-----------------------------------------------------------------------------
(* Publishing and restoring versions.  One request at a time; a running      *)
(* generation is looked for when the request arrives, not when it acts.      *)

\* use_case_draft_rows: the cases with the texts, live or archived, they cite
DraftRows == [u \in LiveCards |-> [body  |-> card[u].body,
                                   cites |-> card[u].cites,
                                   texts |-> [r \in card[u].cites |-> req[r].text]]]
NoRows == [u \in {} |-> {}]
\* diff_rows finds something to publish
Differs(old, new) == old # new
LatestRows == IF versions = <<>> THEN NoRows ELSE versions[Len(versions)].rows

\* the diff against the latest version, whose fingerprint the client keeps
Review ==
    /\ api.pc = "none"
    /\ api' = [api EXCEPT !.reviewed = DraftRows]
    /\ api' # api
    /\ UNCHANGED <<req, basis, draft, gen, versions, bounds, spoiled>>

PublishRequest ==
    /\ api.pc = "none" /\ ~Running
    /\ Len(versions) < VersionBound
    /\ api' = [api EXCEPT !.pc = "publish"]
    /\ UNCHANGED <<req, basis, draft, gen, versions, bounds, spoiled>>

\* publish compares the draft it reads with the reviewed one and with the latest version
PublishCheck ==
    /\ api.pc = "publish"
    /\ LET same == LiveCards # {} /\ DraftRows = api.reviewed /\ Differs(LatestRows, DraftRows)
       IN  api' = [api EXCEPT !.pc = IF same THEN "snapshot" ELSE "none"]
    /\ UNCHANGED <<req, basis, draft, gen, versions, bounds, spoiled>>

PublishSnapshotAlways ==
    /\ api.pc = "snapshot"
    /\ versions' = Append(versions, [rows |-> DraftRows, seen |-> [u \in LiveCards |-> seen[u]]])
    /\ api' = [api EXCEPT !.pc = "none"]
    /\ UNCHANGED <<req, basis, draft, gen, bounds, spoiled>>

\* use_case_snapshot reads the draft again; equal to the latest version it adds none
PublishSnapshot ==
    /\ api.pc = "snapshot"
    /\ versions' = IF versions # <<>> /\ DraftRows = LatestRows THEN versions
                   ELSE Append(versions, [rows |-> DraftRows, seen |-> [u \in LiveCards |-> seen[u]]])
    /\ api' = [api EXCEPT !.pc = "none"]
    /\ UNCHANGED <<req, basis, draft, gen, bounds, spoiled>>

RestoreRequest(v) ==
    /\ api.pc = "none" /\ ~Running /\ Edit
    /\ api' = [api EXCEPT !.pc = "restore", !.version = v]
    /\ UNCHANGED <<req, basis, draft, gen, versions, runs, spoiled>>

\* restore_version: cases not in the version go, the others become what it says, and a
\* live requirement whose text differs from the version's counts as generated from that
RestoreVersion ==
    /\ api.pc = "restore"
    /\ LET version == versions[api.version]
           rows == version.rows
           extra == LiveCards \ DOMAIN rows
           def(u) == [body |-> rows[u].body, cites |-> rows[u].cites]
           changed == {u \in DOMAIN rows : ~card[u].live \/ Definition(u) # def(u)}
           citing(r) == {u \in DOMAIN rows : r \in rows[u].cites /\ rows[u].texts[r] # req[r].text}
       IN  /\ card' = [u \in Cards |->
                         IF u \in changed THEN [live |-> TRUE, body |-> rows[u].body, cites |-> rows[u].cites]
                                          ELSE [card[u] EXCEPT !.live = u \in DOMAIN rows]]
           /\ hist' = [u \in Cards |-> CASE u \in extra   -> hist[u] \cup {Definition(u)}
                                         [] u \in changed -> hist[u] \cup {def(u)}
                                         [] OTHER         -> hist[u]]
           /\ seen' = [u \in Cards |-> IF u \in changed THEN version.seen[u] ELSE seen[u]]
           /\ basis' = [r \in Reqs |-> IF req[r].live /\ citing(r) # {}
                                       THEN rows[CHOOSE u \in citing(r) : TRUE].texts[r] ELSE basis[r]]
           /\ Meanwhile(extra)
    /\ api' = [api EXCEPT !.pc = "none"]
    /\ spoiled' = TRUE
    /\ UNCHANGED <<req, code, versions, bounds>>

-----------------------------------------------------------------------------

Init ==
    /\ req \in [Reqs -> {q \in Requirement : q.live}]
    /\ basis = NoText
    /\ card = [u \in Cards |-> [live |-> FALSE, body |-> CHOOSE b \in Bodies : TRUE, cites |-> {}]]
    /\ code = [u \in Cards |-> 0]
    /\ hist = [u \in Cards |-> {}]
    /\ gen = Idle
    /\ versions = <<>>
    /\ api = [pc |-> "none", reviewed |-> NoRows, version |-> 0]
    /\ edits = 0 /\ runs = 0
    /\ seen = [u \in Cards |-> NoText]
    /\ spoiled = FALSE

Next ==
    \/ \E r \in Reqs, t \in Texts, s \in Sections : ChangeRequirement(r, t, s)
    \/ \E r \in Reqs : ArchiveRequirement(r)
    \/ \E u \in Cards : DeleteCase(u) \/ \E b \in Bodies : EditCase(u, b)
    \/ \E S \in SUBSET LiveCards : \E R \in SUBSET S : DeleteFolder(S, R)
    \/ \E u \in Cards : \E d \in hist[u] : RestoreCase(u, d)
    \/ Status
    \/ \E replace \in BOOLEAN : StartRun(replace)
    \/ Clear \/ Plan \/ Prepare \/ EndRun \/ Crash
    \/ \E w \in gen.work : Unit(w) \/ UnitFails(w)
    \/ Review \/ PublishRequest \/ PublishCheck \/ PublishSnapshot
    \/ \E v \in 1..Len(versions) : RestoreRequest(v)
    \/ RestoreVersion

Spec == Init /\ [][Next]_vars

-----------------------------------------------------------------------------

Job == [pc : {"idle", "clear", "plan", "prepare", "units"},
        req : {<<>>} \cup [Reqs -> Requirement], cites : {<<>>} \cup [Cards -> SUBSET Reqs],
        removed : SUBSET Reqs, orphans : SUBSET Cards,
        work : SUBSET [items : SUBSET Reqs, cards : SUBSET Cards], taken : SUBSET Cards, next : Nat,
        gone : SUBSET Cards, lost : SUBSET Cards, failed : BOOLEAN, quiet : BOOLEAN]
Row == [body : Bodies, cites : SUBSET Reqs, texts : UNION {[S -> Texts] : S \in SUBSET Reqs}]
Rows == UNION {[S -> Row] : S \in SUBSET Cards}
Version == [rows : Rows, seen : UNION {[S -> [Reqs -> Texts \cup {0}]] : S \in SUBSET Cards}]

\* a version knows the texts of just what its cases cite
VersionOK(v) ==
    /\ DOMAIN v.seen = DOMAIN v.rows
    /\ \A u \in DOMAIN v.rows : DOMAIN v.rows[u].texts = v.rows[u].cites

\* what a run read is there once it read it
JobOK ==
    /\ gen \in Job
    /\ gen.pc # "idle" => gen.req \in [Reqs -> Requirement]
    /\ gen.pc \in {"prepare", "units"} => gen.cites \in [Cards -> SUBSET Reqs]
    /\ gen.work # {} => gen.pc \in {"prepare", "units"}
    /\ \A w \in gen.work : w.items \subseteq LiveIn(gen.req)

TypeOK ==
    /\ req \in [Reqs -> Requirement]
    /\ basis \in [Reqs -> Texts \cup {0}]
    /\ card \in [Cards -> Card]
    /\ code \in [Cards -> Nat]
    /\ hist \in [Cards -> SUBSET [body : Bodies, cites : SUBSET Reqs]]
    /\ JobOK
    /\ versions \in Seq(Version) /\ \A i \in 1..Len(versions) : VersionOK(versions[i])
    /\ api \in [pc : {"none", "publish", "snapshot", "restore"}, reviewed : Rows, version : Nat]
    /\ api.pc = "restore" => api.version \in 1..Len(versions)
    /\ edits \in 0..EditBound /\ runs \in 0..RunBound
    /\ seen \in [Cards -> [Reqs -> Texts \cup {0}]]
    /\ spoiled \in BOOLEAN

\* No definition is ever lost: what a case says, or said last, is in its history, so a run, a
\* restore or a deletion that replaces it leaves it recoverable, also from a folder whose
\* deletion took it along unseen.
Issued(u) == card[u].live \/ code[u] # 0
HistoryComplete == \A u \in Cards : Issued(u) => Definition(u) \in hist[u]

\* Nothing takes a definition out of a case's history.
HistoryGrows == [][\A u \in Cards : hist[u] \subseteq hist'[u]]_vars

\* A code belongs to one case for ever: _next_uc_number counts deleted cases too, and the
\* codes one run hands out across its units do not overlap with any.
CodesNeverReused == \A u, v \in Cards : u # v /\ code[u] # 0 => code[u] # code[v]

\* what makes it so: a run hands out codes above every other
HighestCode ==
    \E m \in {code[u] : u \in Cards} \cup {0} : \A n \in {code[u] : u \in Cards} \cup {0} : n <= m
RunIsAhead == gen.pc = "units" => \A u \in Cards : code[u] < gen.next
CodesInv == CodesNeverReused /\ HighestCode /\ RunIsAhead

AllUnitsDone == gen.pc = "units" /\ gen.work = {}
NothingToDo ==
    LET removed == Removed(req, basis, Cites)
    IN  Pending(req, basis) = {} /\ removed = {}

\* A run in which every unit went through and nobody changed anything leaves nothing for
\* the next one: resume_state then says "complete".
CleanRunCompletes == AllUnitsDone /\ ~gen.failed /\ gen.quiet => NothingToDo

\* the cases an update would look at
Outdated ==
    LET removed == Removed(req, basis, Cites)
    IN  Orphans(Cites, removed) \cup Affected(Cites, removed, Pending(req, basis))
\* what a run last judged case u against is not what its requirements say
Stale(u) == \E r \in card[u].cites \cap LiveReqs : seen[u][r] \notin {0, req[r].text}

\* While every unit goes through, no version is restored and no basis is assumed from
\* the cases (_ensure_basis), a case that a run last judged against another text of a
\* requirement it cites is one the next update will look at, or the running one is not
\* done with it, however edits of cases and requirements fall between its steps.  A case
\* the user wrote since is the user's.
StaleCasesAreOffered ==
    ~spoiled => \A u \in LiveCards :
        Stale(u) => \/ u \in Outdated
                    \/ \E w \in gen.work : u \in w.cards \/ card[u].cites \cap w.items # {}

\* A publish of an unchanged draft adds no version: neighbours differ.
VersionsDiffer == \A i \in 1..Len(versions) - 1 : versions[i].rows # versions[i + 1].rows

\* generation.py:675: "a failed or interrupted unit stays pending and the next run
\* continues".  So the cases of a failed unit are still for the next run to look at.
FailedUnitStaysPending ==
    AllUnitsDone /\ gen.quiet => \A u \in gen.lost \cap LiveCards : u \in Outdated

\* suites.py:6: "the diff a user reviews is exactly what publish freezes".
PublishedIsReviewed ==
    [][versions' # versions => versions'[Len(versions')].rows = api.reviewed]_vars

\* generation.py:748: restored cases whose requirements changed since are offered to the
\* next update "instead of old cases silently sitting on new requirements".
RestoredStaleIsPending ==
    [][RestoreVersion => \A u \in Cards : card'[u] # card[u] /\ card'[u].live =>
          \A r \in card'[u].cites \cap LiveReqs : seen'[u][r] \notin {0, req[r].text} => basis'[r] # req[r].text]_vars

\* the inductive invariant of the proofs
IInv == TypeOK /\ HistoryComplete /\ CodesInv /\ VersionsDiffer
=============================================================================
