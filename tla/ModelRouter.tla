------------------------------ MODULE ModelRouter ------------------------------
(***************************************************************************)
(* What happens to a prompt (llm/engine.py): which model answers it, and what *)
(* is done when one does not (llm/providers/).  A prompt names a model of        *)
(* OpenRouter or of another provider, or leaves it to the router of free         *)
(* models (llm/free_router.py), which tries a few of them one after another and   *)
(* keeps those that failed out of everybody's way for a while.  The callers are  *)
(* the turns of chats, whose answers stream, and the other users of              *)
(* complete_chat.                                                              *)
(***************************************************************************)
EXTENDS Integers, Sequences, SequencesExt, FiniteSets

CONSTANTS
    Askers,        \* threads with a prompt
    Models,        \* free models in their order: the preferred ones, the others by context
    Preferred,     \* how many of them are preferred
    Catalogs,      \* what OpenRouter may list
    MaxAttempts,   \* models that the router tries
    Retries,       \* attempts of complete_chat
    AskBound       \* bound: prompts

ASSUME RouterAssumption ==
    /\ MaxAttempts \in Nat \ {0} /\ Retries \in Nat \ {0} /\ AskBound \in Nat
    /\ Models \in Seq(ToSet(Models)) /\ Preferred \in 1 .. Len(Models)
    /\ \A c \in Catalogs : c \subseteq ToSet(Models)

VARIABLES
    catalog,    \* _catalog: the models listed last, and whether that is over an hour ago
    cooldown,   \* _cooldown: how long a model stays out: 0 not at all, 1 two minutes, 2 ten, 3 an hour, 4 a day
    ask,        \* the prompts under way
    asks        \* bounded counter
vars == <<catalog, cooldown, ask, asks>>

Free == ToSet(Models)
Named == "named"     \* a model of OpenRouter
Direct == "direct"   \* a model of Anthropic, Gemini or Cohere
PreferredOnly == ToSet(SubSeq(Models, 1, Preferred))
\* tried is a history: how many free models this prompt gave up since the account's limit was last met
NoPrompt == [at |-> "idle", stream |-> FALSE, free |-> TRUE, cached |-> {}, list |-> <<>>,
             run |-> 0, tried |-> 0, shown |-> {}, out |-> ""]
\* What a call comes to, as the code can tell: an answer, nothing or a moderation verdict; or a
\* status with what the provider's text says, whosever fault it is.  401 stands for 402 also, 400
\* for any other rejection, 503 for what the provider or the network cannot do now.
Done(what) == [status |-> 200, raw |-> what]
Daily == "free-models-per-day"
PerMinute == "free-models-per-min"
Harness == "agentic harness"
Mandatory == "Reasoning is mandatory"
Failures == [status : {400, 401, 403, 404, 429, 503}, raw : {"", Daily, PerMinute, Harness, Mandatory}]
Replies == {Done("text"), Done("empty"), Done("verdict")} \cup Failures

\* the daily quota of free models is not worth another attempt
Retried(reply) == reply.status = 429 /\ reply.raw # Daily
\* account_error: another model would do no better
AccountError(reply) ==
    \/ reply.status = 401 \/ reply.raw \in {Daily, PerMinute}
    \/ reply.status = 403 /\ reply.raw # Harness
\* cooldown_for, and what _router does with an empty answer and with a verdict
CooldownFor(reply) ==
    CASE reply = Done("empty") -> 2
      [] reply = Done("verdict") \/ reply.status = 404 \/ reply.raw \in {Harness, Mandatory} -> 4
      [] reply.status \in {429, 503} /\ reply.raw \notin {Harness, Mandatory} -> 1
      [] OTHER -> 3
\* cool
Cool(m, n) == cooldown' = [cooldown EXCEPT ![m] = IF @ > n THEN @ ELSE n]

Put(a, p) == ask' = [ask EXCEPT ![a] = p]
End(a, p, out) == Put(a, [NoPrompt EXCEPT !.shown = p.shown, !.out = out])
\* complete_chat tries again after a limit, stream_chat does not
MayRetryAlways(p) == ~p.stream
MayRetry(p) == ~p.stream /\ p.run + 1 < Retries
\* a ProviderError in engine.py
Raise(a, p, reply) ==
    IF Retried(reply) /\ MayRetry(p)
    THEN Put(a, [p EXCEPT !.at = "sleep", !.run = (@ + 1) % Retries,
                          !.list = IF p.free THEN <<>> ELSE @,
                          !.tried = IF reply.raw = PerMinute THEN 0 ELSE @])
    ELSE End(a, p, "error")
-----------------------------------------------------------------------------
\* The candidates: those of the catalogue that are not cooling down, or all.
InOrder(ids) ==
    LET first[n \in 0 .. Len(Models)] ==
            IF n = 0 THEN <<>>
            ELSE IF Models[n] \in ids THEN Append(first[n - 1], Models[n]) ELSE first[n - 1]
    IN  first[Len(Models)]
FirstOf(s, n) == IF Len(s) > n THEN SubSeq(s, 1, n) ELSE s
Candidates(ids) ==
    LET known == IF ids = {} THEN PreferredOnly ELSE ids
        usable == {m \in known : cooldown[m] = 0}
    IN  FirstOf(InOrder(IF usable = {} THEN known ELSE usable), MaxAttempts)
Try(a, ids) ==
    LET list == Candidates(ids)
    IN  IF list = <<>> THEN End(a, ask[a], "none")
        ELSE Put(a, [ask[a] EXCEPT !.at = "call", !.list = list, !.cached = {}])

\* a prompt, for the models of list, or for the router
Ask(a, stream, list) ==
    /\ ask[a].at = "idle" /\ asks < AskBound
    /\ asks' = asks + 1
    /\ Put(a, [NoPrompt EXCEPT !.at = IF list = <<>> THEN "list" ELSE "call", !.stream = stream,
                               !.free = (list = <<>>), !.list = list])
    /\ UNCHANGED <<catalog, cooldown>>
\* candidates, from the catalogue as it is,
List(a) ==
    /\ ask[a].at = "list" /\ ~catalog.old
    /\ Try(a, catalog.ids)
    /\ UNCHANGED <<catalog, cooldown, asks>>
\* or fetched again after an hour, while others may fetch it too: if that fails, what there was
\* before, or the preferred models.
BeginFetch(a) ==
    /\ ask[a].at = "list" /\ catalog.old
    /\ Put(a, [ask[a] EXCEPT !.at = "fetch", !.cached = catalog.ids])
    /\ UNCHANGED <<catalog, cooldown, asks>>
Fetch(a, ids) ==
    /\ ask[a].at = "fetch"
    /\ ids \in Catalogs \/ ids = (IF ask[a].cached = {} THEN PreferredOnly ELSE ask[a].cached)
    /\ catalog' = [ids |-> ids, old |-> FALSE]
    /\ Try(a, ids)
    /\ UNCHANGED <<cooldown, asks>>
-----------------------------------------------------------------------------
\* One call to one model.  Text ends a completion; a stream begins to be shown.
Answered(a, m) ==
    IF ask[a].stream
    THEN Put(a, [ask[a] EXCEPT !.at = "show", !.shown = @ \cup {m}])
    ELSE End(a, [ask[a] EXCEPT !.shown = @ \cup {m}], "answer")
\* the model rejects a call without reasoning: once more with
AskWithReasoning(a) ==
    /\ ask[a].at = "call" /\ ask[a].list # <<Direct>>
    /\ Put(a, [ask[a] EXCEPT !.at = "reason"])
    /\ UNCHANGED <<catalog, cooldown, asks>>
Called(a, reply) ==
    \/ ask[a].at = "call" /\ reply.raw # Mandatory
    \/ ask[a].at = "reason"
\* an empty stream: _generate asks once more, for a completion
Nothing(a, p) ==
    IF p.stream THEN Put(a, [p EXCEPT !.at = "call", !.stream = FALSE]) ELSE End(a, p, "nothing")
CallNamed(a, reply) ==
    LET p == ask[a]
    IN  /\ Called(a, reply) /\ ~p.free /\ p.list = <<Named>>
        /\ CASE reply = Done("text") -> Answered(a, Named)
             [] reply = Done("empty") -> Nothing(a, p)
             [] reply = Done("verdict") -> End(a, p, "error")
             [] OTHER -> Raise(a, p, reply)
        /\ UNCHANGED <<catalog, cooldown, asks>>
\* other providers are asked once, whatever they write is the answer, and their errors are not read
CallDirect(a, reply) ==
    LET p == ask[a]
    IN  /\ Called(a, reply) /\ ~p.free /\ p.list = <<Direct>>
        /\ CASE reply \in {Done("text"), Done("verdict")} -> Answered(a, Direct)
             [] reply = Done("empty") -> Nothing(a, p)
             [] OTHER -> reply.raw = "" /\ Raise(a, p, reply)
        /\ UNCHANGED <<catalog, cooldown, asks>>
ExhaustedAsLast(a, p, reply) == Raise(a, p, reply)
\* the last of the candidates has failed: not with its status, so that complete_chat does not begin anew
Exhausted(a, p, reply) == End(a, p, "nofree")
\* _router
CallFree(a, reply) ==
    LET p == ask[a]
        m == Head(p.list)
        left == [p EXCEPT !.at = "call", !.list = Tail(@), !.tried = @ + 1]
    IN  /\ Called(a, reply) /\ p.free
        /\ CASE reply = Done("text") -> Answered(a, m) /\ UNCHANGED cooldown
             [] AccountError(reply) -> Raise(a, p, reply) /\ UNCHANGED cooldown
             [] OTHER ->
                    /\ Cool(m, CooldownFor(reply))
                    /\ IF left.list = <<>> THEN Exhausted(a, left, reply) ELSE Put(a, left)
        /\ UNCHANGED <<catalog, asks>>
\* complete_chat sleeps before the next attempt
Resume(a) ==
    /\ ask[a].at = "sleep"
    /\ Put(a, [ask[a] EXCEPT !.at = IF ask[a].free THEN "list" ELSE "call"])
    /\ UNCHANGED <<catalog, cooldown, asks>>
\* A stream that is being shown goes to its end,
Finish(a) ==
    /\ ask[a].at = "show"
    /\ End(a, ask[a], "answer")
    /\ UNCHANGED <<catalog, cooldown, asks>>
\* or breaks off: what was shown is the answer.
BreakAndRetry(a) ==
    /\ ask[a].at = "show"
    /\ Put(a, [ask[a] EXCEPT !.at = IF ask[a].free THEN "list" ELSE "call", !.stream = FALSE])
    /\ UNCHANGED <<catalog, cooldown, asks>>
Break(a) ==
    /\ ask[a].at = "show"
    /\ End(a, ask[a], "partial")
    /\ UNCHANGED <<catalog, cooldown, asks>>
-----------------------------------------------------------------------------
\* time passes
Lapse(m) ==
    /\ cooldown[m] > 0
    /\ cooldown' = [cooldown EXCEPT ![m] = @ - 1]
    /\ UNCHANGED <<catalog, ask, asks>>
CatalogAges ==
    /\ ~catalog.old
    /\ catalog' = [catalog EXCEPT !.old = TRUE]
    /\ UNCHANGED <<cooldown, ask, asks>>

Init ==
    /\ catalog = [ids |-> {}, old |-> TRUE] /\ cooldown = [m \in Free |-> 0]
    /\ ask = [a \in Askers |-> NoPrompt] /\ asks = 0
Reply(a) == \E reply \in Replies : CallNamed(a, reply) \/ CallDirect(a, reply) \/ CallFree(a, reply)
GoOn(a) ==
    \/ List(a) \/ BeginFetch(a) \/ (\E ids \in SUBSET Free : Fetch(a, ids))
    \/ AskWithReasoning(a) \/ Reply(a) \/ Resume(a) \/ Finish(a) \/ Break(a)
Next ==
    \/ \E a \in Askers :
        \/ \E stream \in BOOLEAN, list \in {<<>>, <<Named>>, <<Direct>>} : Ask(a, stream, list)
        \/ GoOn(a)
    \/ (\E m \in Free : Lapse(m)) \/ CatalogAges
Spec == Init /\ [][Next]_vars
\* A thread goes on: calls have timeouts and sleeps end.
FairSpec == Spec /\ \A a \in Askers : WF_vars(GoOn(a))
-----------------------------------------------------------------------------
Prompts == [at : {"idle", "list", "fetch", "call", "reason", "sleep", "show"}, stream : BOOLEAN,
            free : BOOLEAN, cached : SUBSET Free, list : Seq(Free \cup {Named, Direct}),
            run : 0 .. Retries - 1, tried : Nat, shown : SUBSET (Free \cup {Named, Direct}),
            out : {"", "answer", "partial", "nothing", "error", "nofree", "none"}]
TypeOK ==
    /\ catalog \in [ids : SUBSET Free, old : BOOLEAN] /\ cooldown \in [Free -> 0 .. 4]
    /\ ask \in [Askers -> Prompts] /\ asks \in 0 .. AskBound

\* What a user reads comes from one model: no other takes over once text was shown, whatever fails.
NeverSwitched == \A a \in Askers : Cardinality(ask[a].shown) <= 1

\* Another prompt's lighter failure never shortens how long a model stays out.
CooldownsStand ==
    [][\A m \in Free : cooldown'[m] < cooldown[m] => cooldown'[m] = cooldown[m] - 1 /\ ask' = ask]_vars

\* However many rounds complete_chat makes of the router, and whatever the calls of other users do
\* to the pool meanwhile, a prompt gives up MaxAttempts models at most before its user hears of it:
\* only the account's limit per minute begins it anew, never that all the candidates failed.
PoolTriedOnce == \A a \in Askers : ask[a].tried <= MaxAttempts

\* Every prompt comes to an end, and none without a call: with every model cooling down the router
\* tries them all the same.
PromptsEnd ==
    \A a \in Askers : ask[a].at # "idle" ~> (ask[a].at = "idle" /\ ask[a].out # "none")
=============================================================================
