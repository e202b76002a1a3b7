------------------------------ MODULE RagCache ------------------------------
(***************************************************************************)
(* The caches of answers over one BRD (core/cache.py) as the readers use     *)
(* them: retrieve (retrieve/retriever.py) stores the ranked requirements of   *)
(* a question, ChatSession.ask (chat/session.py) the answer under their ids.  *)
(* A reader asks one question, of the BRD or of all the user's BRDs, whose    *)
(* others say nothing about it.  What was found is kept for each scope; the   *)
(* key of an answer has neither owner nor project, so it serves both scopes   *)
(* and keeps the project it was first stored with.  The requirements are      *)
(* those of Requirements; ranking returns them all.                          *)
(***************************************************************************)
EXTENDS Requirements

CONSTANTS Readers,     \* chat turns under way
          AskBound     \* bound: questions asked; with the requests at most WriteBound

ASSUME AskAssumption == AskBound \in Nat

VARIABLES
    found,    \* cache_kv, retrieve: what a question found, for each scope
    answer,   \* cache_kv, answer: the rows each answer was made from, and its project
    turn,     \* the turn of each reader
    asked,    \* bounded counter
    owed,     \* history variable: the BRD changed since its project was busted last
    skipped   \* history variable: a request ended between a commit and its bust since then

cvars == <<found, answer, turn, asked, owed, skipped>>
vars == <<bvars, cvars>>

Scopes == {"brd", "all"}
\* no row; late: what a row says had changed when it was stored
Nothing == [rows |-> <<[id |-> 0, text |-> NoText, vec |-> NoText]>>, late |-> FALSE]
Stored(rows) == [rows |-> rows, late |-> rows # Capture(brd)]
Quiet == [step |-> "quiet", scope |-> "brd", rows |-> <<>>]
IdsOf(rows) == [n \in DOMAIN rows |-> rows[n].id]
\* the row of cache_kv with the key of an answer from these rows; get passes over an old one
SameKey(rows) == {a \in answer : IdsOf(a.row.rows) = IdsOf(rows)}
Hit(rows) == {a \in SameKey(rows) : a.fresh}

\* _fetch_candidates: the requirements that match by vector or by words
Fetched == Capture(brd)
\* retrieve looks in its cache first
Find(p, s) ==
    /\ turn[p].step = "quiet" /\ asked < AskBound /\ writes + asked < WriteBound
    /\ asked' = asked + 1
    /\ turn' = [turn EXCEPT ![p] =
          IF found[s] # Nothing THEN [step |-> "found", scope |-> s, rows |-> found[s].rows]
          ELSE [step |-> "read", scope |-> s, rows |-> Fetched]]
    /\ UNCHANGED <<bvars, found, answer, owed, skipped>>
\* it ranks what it read with a remote call, then stores it
StoreFound(p) ==
    /\ turn[p].step = "read"
    /\ found' = [found EXCEPT ![turn[p].scope] = Stored(turn[p].rows)]
    /\ turn' = [turn EXCEPT ![p].step = "found"]
    /\ UNCHANGED <<bvars, answer, asked, owed, skipped>>
\* an answer made from rows with the same ids is replayed, whoever asked
Replay(p) ==
    /\ turn[p].step = "found" /\ Hit(turn[p].rows) # {}
    /\ turn' = [turn EXCEPT ![p] = Quiet]
    /\ UNCHANGED <<bvars, found, answer, asked, owed, skipped>>
\* or the model writes one, also when the question was asked before; set puts it in place of
\* the row with its key, whose project stays
StoreAnswer(p) ==
    LET old == SameKey(turn[p].rows)
    IN  /\ turn[p].step = "found"
        /\ \E project \in Scopes :
              /\ project \in IF old = {} THEN {turn[p].scope} ELSE {a.project : a \in old}
              /\ answer' = (answer \ old)
                     \cup {[row |-> Stored(turn[p].rows), project |-> project, fresh |-> TRUE]}
        /\ turn' = [turn EXCEPT ![p] = Quiet]
        /\ UNCHANGED <<bvars, found, asked, owed, skipped>>
\* any error, a Stop, an abstention: nothing is stored
GiveUp(p) ==
    /\ turn[p].step # "quiet"
    /\ turn' = [turn EXCEPT ![p] = Quiet]
    /\ UNCHANGED <<bvars, found, answer, asked, owed, skipped>>
\* a row reaches its age limit: get passes over it, and nothing deletes it (prune_expired is
\* never called); what was found is stored anew under the same scope
ExpireFound(s) ==
    /\ found[s] # Nothing
    /\ found' = [found EXCEPT ![s] = Nothing]
    /\ UNCHANGED <<bvars, answer, turn, asked, owed, skipped>>
ExpireAnswer(a) ==
    /\ a.fresh
    /\ answer' = (answer \ {a}) \cup {[a EXCEPT !.fresh = FALSE]}
    /\ UNCHANGED <<bvars, found, turn, asked, owed, skipped>>

BustFound(c) ==
    /\ Bust(c)
    /\ found' = [found EXCEPT !["brd"] = Nothing]
    /\ owed' = FALSE /\ skipped' = FALSE
    /\ UNCHANGED <<answer, turn, asked>>
\* bust_project deletes the rows of the project's name, not those without a project
BustProject(c) ==
    /\ Bust(c)
    /\ found' = [found EXCEPT !["brd"] = Nothing]
    /\ answer' = {a \in answer : a.project # "brd"}
    /\ owed' = FALSE /\ skipped' = FALSE
    /\ UNCHANGED <<turn, asked>>
\* a request ends or goes on without touching the caches; what it commits owes a bust
Proceed(c) ==
    /\ Request(c) \/ Write(c) \/ Abandon(c)
    /\ writes' + asked <= WriteBound
    /\ owed' = (owed \/ brd' # brd)
    /\ skipped' = (skipped \/ (req[c].step = "bust" /\ req'[c].step = "idle"))
    /\ UNCHANGED <<found, answer, turn, asked>>

Init ==
    /\ InitBrd
    /\ found = [s \in Scopes |-> Nothing] /\ answer = {}
    /\ turn = [p \in Readers |-> Quiet] /\ asked = 0 /\ owed = FALSE /\ skipped = FALSE
Next ==
    \/ \E c \in Clients : Proceed(c) \/ BustProject(c)
    \/ TakeSnapshot /\ writes' + asked <= WriteBound /\ UNCHANGED cvars
    \/ \E p \in Readers :
        \/ \E s \in Scopes : Find(p, s)
        \/ StoreFound(p) \/ Replay(p) \/ StoreAnswer(p) \/ GiveUp(p)
    \/ \E s \in Scopes : ExpireFound(s)
    \/ \E a \in answer : ExpireAnswer(a)
Spec == Init /\ [][Next]_vars

TypeOK ==
    /\ BrdTypeOK
    /\ DOMAIN found = Scopes /\ \A a \in answer : a.project \in Scopes
    /\ asked \in 0 .. AskBound /\ owed \in BOOLEAN /\ skipped \in BOOLEAN

\* a row that no longer says what the BRD does
Stale(row) == row # Nothing /\ row.rows # Capture(brd)
\* A question in the BRD is served outdated requirements only while a change waits for its bust
\* (which a request owes until it dies), from what a reader stored after the change it had not
\* seen, or from an answer that a question over all BRDs stored first.
ServesCurrent ==
    /\ owed => skipped \/ \E c \in Clients : req[c].step = "bust"
    /\ Stale(found["brd"]) => owed \/ found["brd"].late
    /\ \A a \in Hit(Capture(brd)) : Stale(a.row) => owed \/ a.row.late \/ a.project = "all"
\* "Correctness ... comes from bust_project() being called on every ingest/delete"
\* (core/cache.py:23): with no bust due, a question in the BRD gets its current text
BustsSuffice ==
    ~owed => ~Stale(found["brd"]) /\ \A a \in Hit(Capture(brd)) : ~Stale(a.row)
=============================================================================
