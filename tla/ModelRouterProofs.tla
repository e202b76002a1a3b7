--------------------------- MODULE ModelRouterProofs ---------------------------
(***************************************************************************)
(* Proofs about the two services that answer calls: ModelRouter, for any       *)
(* threads, models, catalogues and bounds, and VoyageBudget, for any callers    *)
(* and limits.  The invariant of ModelRouter says of a prompt what it has shown, *)
(* which candidates it has left and how many it gave up.                       *)
(***************************************************************************)
EXTENDS ModelRouter, VoyageBudget, FiniteSetTheorems, SequenceTheorems, WellFoundedInduction, TLAPS

-----------------------------------------------------------------------------
(* Natural numbers.                                                          *)

Before == {s \in Nat \X Nat : s[1] < s[2]}

LEMMA LeastNumber ==
    ASSUME NEW S \in SUBSET Nat, S # {}
    PROVE  \E m \in S : \A k \in S : m <= k
<1>1. IsWellFoundedOn(Before, Nat)
  BY NatLessThanWellFounded DEF OpToRel, Before
<1>2. PICK m \in S : \A k \in S : <<k, m>> \notin Before
  BY <1>1, WFMin
<1>3. \A a, b \in Nat : <<a, b>> \in Before <=> a < b
  BY DEF Before
<1>4. \A k \in S : m <= k
  <2> TAKE k \in S
  <2>1. m \in Nat /\ k \in Nat /\ ~(k < m)
    BY <1>2, <1>3
  <2> QED
    BY <2>1
<1> QED
  BY <1>4

LEMMA Induction ==
    ASSUME NEW S, 0 \in S, \A n \in Nat : n \in S => n + 1 \in S
    PROVE  Nat \subseteq S
<1> SUFFICES ASSUME Nat \ S # {} PROVE FALSE
  OBVIOUS
<1>1. PICK m \in Nat \ S : \A k \in Nat \ S : m <= k
  BY LeastNumber
<1>2. m - 1 \in Nat /\ m - 1 \in S
  BY <1>1
<1> QED
  BY <1>1, <1>2

-----------------------------------------------------------------------------
(* Candidates.                                                               *)

Calls == {"call", "reason"}
\* the models a prompt of the router has left to try, the one being called first
CandidatesOK(p) ==
    p.free /\ p.at \in Calls => /\ p.list \in Seq(Free) /\ p.list # <<>>
                                /\ p.tried + Len(p.list) <= MaxAttempts
\* A prompt that is under way has shown nothing, what was shown is of one model, and the router is
\* asked with nothing given up.
PromptOK(p) ==
    /\ p \in Prompts
    /\ p.at \notin {"idle", "show"} => p.shown = {}
    /\ \E x : p.shown \subseteq {x}
    /\ ~p.free => p.tried = 0
    /\ p.at \in {"list", "fetch", "sleep"} => p.tried = 0
    /\ p.tried <= MaxAttempts
    /\ CandidatesOK(p)
PromptsOK == DOMAIN ask = Askers /\ ask = [a \in Askers |-> ask[a]] /\ \A a \in Askers : PromptOK(ask[a])
PoolOK == cooldown \in [Free -> 0 .. 4]
CatalogOK == catalog \in [ids : SUBSET Free, old : BOOLEAN] /\ asks \in 0 .. AskBound
IInv == PromptsOK /\ PoolOK /\ CatalogOK

LEMMA ModelsAre ==
    /\ Len(Models) \in Nat /\ Models \in Seq(Free) /\ PreferredOnly \subseteq Free
    /\ \A n \in 1 .. Len(Models) : Models[n] \in Free
<1>1. Models \in Seq(Free) /\ Preferred \in 1 .. Len(Models)
  BY RouterAssumption DEF Free
<1>2. Len(Models) \in Nat /\ \A n \in 1 .. Len(Models) : Models[n] \in Free
  BY <1>1, LenProperties, ElementOfSeq
<1>3. SubSeq(Models, 1, Preferred) \in Seq(Free)
  BY <1>1, <1>2, SubSeqProperties
<1>4. ToSet(SubSeq(Models, 1, Preferred)) \subseteq Free
  BY <1>3, LenProperties, ElementOfSeq DEF ToSet
<1> QED
  BY <1>1, <1>2, <1>4 DEF PreferredOnly

\* The recursion over the models is defined.
LEMMA OrdersExist ==
    ASSUME NEW ids
    PROVE  \E f \in [0 .. Len(Models) -> Seq(Free)] :
              /\ f[0] = <<>>
              /\ \A n \in 1 .. Len(Models) :
                    f[n] = IF Models[n] \in ids THEN Append(f[n - 1], Models[n]) ELSE f[n - 1]
<1> DEFINE N == Len(Models)
           Upto(n, g) == g[0] = <<>> /\ \A k \in 1 .. n :
                            g[k] = IF Models[k] \in ids THEN Append(g[k - 1], Models[k]) ELSE g[k - 1]
           S == {n \in Nat : n <= N => \E g \in [0 .. n -> Seq(Free)] : Upto(n, g)}
<1>0. N \in Nat /\ \A n \in 1 .. N : Models[n] \in Free
  BY ModelsAre
<1>1. 0 \in S
  <2> DEFINE g == [k \in 0 .. 0 |-> <<>>]
  <2>1. g \in [0 .. 0 -> Seq(Free)] /\ Upto(0, g)
    OBVIOUS
  <2> QED
    BY <2>1
<1> HIDE DEF N
<1>2. ASSUME NEW n \in Nat, n \in S PROVE n + 1 \in S
  <2> SUFFICES ASSUME n + 1 <= N PROVE \E h \in [0 .. (n + 1) -> Seq(Free)] : Upto(n + 1, h)
    OBVIOUS
  <2>a. n <= N /\ n + 1 \in 1 .. N
    BY <1>0
  <2>1. PICK g \in [0 .. n -> Seq(Free)] : Upto(n, g)
    BY <1>2, <2>a
  <2> DEFINE last == IF Models[n + 1] \in ids THEN Append(g[n], Models[n + 1]) ELSE g[n]
             h == [k \in 0 .. (n + 1) |-> IF k = n + 1 THEN last ELSE g[k]]
  <2>0. last \in Seq(Free) /\ g[n] \in Seq(Free)
    <3>1. g[n] \in Seq(Free) /\ Models[n + 1] \in Free
      BY <1>0, <2>a
    <3> QED
      BY <3>1, AppendProperties
  <2>b. h[0] = g[0] /\ h[n + 1] = last /\ h[n] = g[n] /\ \A k \in 0 .. n : h[k] = g[k]
    OBVIOUS
  <2>2. h \in [0 .. (n + 1) -> Seq(Free)]
    <3> HIDE DEF last
    <3> QED
      BY <2>0
  <2> HIDE DEF h
  <2>5. \A k \in 1 .. (n + 1) :
           h[k] = IF Models[k] \in ids THEN Append(h[k - 1], Models[k]) ELSE h[k - 1]
    <3> TAKE k \in 1 .. (n + 1)
    <3>1. CASE k \in 1 .. n
      <4>1. k \in 0 .. n /\ k - 1 \in 0 .. n
        BY <3>1
      <4>2. g[k] = IF Models[k] \in ids THEN Append(g[k - 1], Models[k]) ELSE g[k - 1]
        BY <3>1, <2>1
      <4>3. h[k] = g[k] /\ h[k - 1] = g[k - 1]
        BY <4>1, <2>b
      <4> QED
        BY <4>2, <4>3
    <3>2. CASE k = n + 1
      <4>1. k - 1 = n
        BY <3>2
      <4> QED
        BY <4>1, <3>2, <2>b
    <3> QED
      BY <3>1, <3>2
  <2>6. Upto(n + 1, h)
    BY <2>1, <2>b, <2>5
  <2> QED
    BY <2>2, <2>6
<1> HIDE DEF S
<1>3. N \in S
  BY <1>0, <1>1, <1>2, Induction
<1> QED
  BY <1>3 DEF S, N

\* The models of a set, in order.
LEMMA InOrderIsSeq ==
    ASSUME NEW ids
    PROVE  InOrder(ids) \in Seq(Free)
<1> DEFINE N == Len(Models)
           Eq(h) == h = [n \in 0 .. N |->
                          IF n = 0 THEN <<>>
                          ELSE IF Models[n] \in ids THEN Append(h[n - 1], Models[n]) ELSE h[n - 1]]
           h == CHOOSE x : Eq(x)
<1>0. N \in Nat /\ \A n \in 1 .. N : Models[n] \in Free
  BY ModelsAre
<1>1. \E f : Eq(f)
  <2>1. PICK f \in [0 .. N -> Seq(Free)] :
           /\ f[0] = <<>>
           /\ \A n \in 1 .. N :
                 f[n] = IF Models[n] \in ids THEN Append(f[n - 1], Models[n]) ELSE f[n - 1]
    BY OrdersExist
  <2>2. f = [n \in 0 .. N |-> f[n]]
    OBVIOUS
  <2>3. \A n \in 0 .. N : f[n] = IF n = 0 THEN <<>>
                                 ELSE IF Models[n] \in ids THEN Append(f[n - 1], Models[n]) ELSE f[n - 1]
    <3> TAKE n \in 0 .. N
    <3>1. CASE n = 0
      BY <3>1, <2>1
    <3>2. CASE n # 0
      <4>1. n \in 1 .. N
        BY <3>2, <1>0
      <4> QED
        BY <4>1, <3>2, <2>1
    <3> QED
      BY <3>1, <3>2
  <2> QED
    BY <2>2, <2>3
<1>2. InOrder(ids) = h[N]
  BY DEF InOrder
<1> HIDE DEF Eq
<1>3. Eq(h)
  BY <1>1
<1> HIDE DEF h
<1>4. h = [n \in 0 .. N |->
             IF n = 0 THEN <<>>
             ELSE IF Models[n] \in ids THEN Append(h[n - 1], Models[n]) ELSE h[n - 1]]
  BY <1>3 DEF Eq
<1>5. \A n \in 0 .. N : h[n] = IF n = 0 THEN <<>>
                               ELSE IF Models[n] \in ids THEN Append(h[n - 1], Models[n]) ELSE h[n - 1]
  BY ONLY <1>4
<1> DEFINE S == {n \in Nat : n <= N => h[n] \in Seq(Free)}
<1> HIDE DEF N
<1>6. 0 \in S
  <2>1. 0 \in 0 .. N
    BY <1>0
  <2>2. h[0] = <<>>
    BY <2>1, <1>5
  <2>3. h[0] \in Seq(Free)
    BY <2>2, EmptySeq
  <2> QED
    BY <2>3
<1>7. ASSUME NEW n \in Nat, n \in S PROVE n + 1 \in S
  <2> SUFFICES ASSUME n + 1 <= N PROVE h[n + 1] \in Seq(Free)
    OBVIOUS
  <2>1. n + 1 \in 0 .. N /\ n + 1 \in 1 .. N /\ n + 1 # 0 /\ (n + 1) - 1 = n /\ n <= N
    BY <1>0
  <2>2. h[n + 1] = IF Models[n + 1] \in ids THEN Append(h[n], Models[n + 1]) ELSE h[n]
    BY <2>1, <1>5
  <2>3. h[n] \in Seq(Free) /\ Models[n + 1] \in Free
    BY <2>1, <1>0, <1>7
  <2> QED
    BY <2>2, <2>3, AppendProperties
<1> HIDE DEF S
<1>8. Nat \subseteq S
  BY <1>6, <1>7, Induction
<1> QED
  BY <1>0, <1>2, <1>8 DEF S

LEMMA FirstOfFits ==
    ASSUME NEW s \in Seq(Free)
    PROVE  FirstOf(s, MaxAttempts) \in Seq(Free) /\ Len(FirstOf(s, MaxAttempts)) <= MaxAttempts
<1>1. Len(s) \in Nat /\ MaxAttempts \in Nat \ {0}
  BY RouterAssumption, LenProperties
<1>2. CASE Len(s) > MaxAttempts
  <2>1. \A i \in 1 .. MaxAttempts : s[i] \in Free
    BY <1>1, <1>2, ElementOfSeq
  <2>2. SubSeq(s, 1, MaxAttempts) \in Seq(Free) /\ Len(SubSeq(s, 1, MaxAttempts)) = MaxAttempts
    BY <2>1, <1>1, <1>2, SubSeqProperties
  <2> QED
    BY <2>2, <1>1, <1>2 DEF FirstOf
<1>3. CASE ~(Len(s) > MaxAttempts)
  BY <1>1, <1>3 DEF FirstOf
<1> QED
  BY <1>2, <1>3

LEMMA CandidatesFit ==
    ASSUME NEW ids
    PROVE  Candidates(ids) \in Seq(Free) /\ Len(Candidates(ids)) <= MaxAttempts
<1> DEFINE known == IF ids = {} THEN PreferredOnly ELSE ids
           usable == {m \in known : cooldown[m] = 0}
           chosen == IF usable = {} THEN known ELSE usable
<1>1. Candidates(ids) = FirstOf(InOrder(chosen), MaxAttempts)
  BY DEF Candidates
<1> HIDE DEF chosen
<1> QED
  BY <1>1, InOrderIsSeq, FirstOfFits

-----------------------------------------------------------------------------
(* Prompts.                                                                  *)

LEMMA PutKeeps ==
    ASSUME PromptsOK, NEW a \in Askers, NEW p, PromptOK(p), Put(a, p)
    PROVE  PromptsOK'
  BY DEF PromptsOK, Put

LEMMA NoPromptOK ==
    PromptOK(NoPrompt)
<1>1. <<>> \in Seq(Free \cup {Named, Direct}) /\ 0 \in 0 .. Retries - 1 /\ MaxAttempts \in Nat
  BY RouterAssumption, EmptySeq
<1>2. NoPrompt \in Prompts
  BY <1>1 DEF NoPrompt, Prompts
<1>3. NoPrompt.at = "idle" /\ NoPrompt.shown = {} /\ NoPrompt.tried = 0 /\ NoPrompt.free
  BY DEF NoPrompt
<1> QED
  BY <1>1, <1>2, <1>3 DEF PromptOK, CandidatesOK, Calls

Outcomes == {"", "answer", "partial", "nothing", "error", "nofree", "none"}
Shown == SUBSET (Free \cup {Named, Direct})

\* Whatever its outcome, a prompt that ends has shown what it had shown.
LEMMA EndKeeps ==
    ASSUME PromptsOK, NEW a \in Askers, NEW p, p.shown \in Shown, \E x : p.shown \subseteq {x},
           NEW out \in Outcomes, End(a, p, out)
    PROVE  PromptsOK'
<1> DEFINE q == [NoPrompt EXCEPT !.shown = p.shown, !.out = out]
<1>1. q \in Prompts /\ q.at = "idle" /\ q.shown = p.shown /\ q.tried = 0 /\ q.free
  BY NoPromptOK DEF PromptOK, Prompts, NoPrompt, Shown, Outcomes
<1>2. MaxAttempts \in Nat
  BY RouterAssumption
<1> HIDE DEF q
<1>3. PromptOK(q)
  BY <1>1, <1>2 DEF PromptOK, CandidatesOK, Calls
<1> QED
  BY <1>3, PutKeeps DEF End, q

\* The router's attempts are repeated for a limit of the account per minute only.
LEMMA RaiseKeeps ==
    ASSUME PromptsOK, NEW a \in Askers, NEW p, PromptOK(p), p.shown = {}, NEW reply,
           p.free => AccountError(reply), Raise(a, p, reply)
    PROVE  PromptsOK'
<1>0. Retries \in Nat \ {0} /\ MaxAttempts \in Nat
  BY RouterAssumption
<1>1. CASE Retried(reply) /\ MayRetry(p)
  <2> DEFINE list == IF p.free THEN <<>> ELSE p.list
             tried == IF reply.raw = PerMinute THEN 0 ELSE p.tried
             run == (p.run + 1) % Retries
             q == [p EXCEPT !.at = "sleep", !.run = run, !.list = list, !.tried = tried]
  <2>1. p.free => reply.raw = PerMinute
    BY <1>1 DEF Retried, AccountError, Daily, PerMinute
  <2>2. list \in Seq(Free \cup {Named, Direct}) /\ tried = 0
    BY <2>1, EmptySeq DEF PromptOK, Prompts
  <2>3. run \in 0 .. Retries - 1
    <3>1. p.run \in Nat
      <4>1. p.run \in 0 .. Retries - 1
        BY DEF PromptOK, Prompts
      <4> QED
        BY <4>1, <1>0
    <3>2. \A n \in Nat : n % Retries \in 0 .. Retries - 1
      BY <1>0
    <3> QED
      BY <3>1, <3>2
  <2>4. Put(a, q)
    BY <1>1 DEF Raise
  <2> HIDE DEF list, tried, run
  <2>5. q \in Prompts /\ q.free = p.free /\ q.tried = 0 /\ q.shown = {} /\ q.at = "sleep"
    BY <2>2, <2>3 DEF PromptOK, Prompts
  <2> HIDE DEF q
  <2>6. PromptOK(q)
    BY <2>5, <1>0 DEF PromptOK, CandidatesOK, Calls
  <2> QED
    BY <2>4, <2>6, PutKeeps
<1>2. CASE ~(Retried(reply) /\ MayRetry(p))
  <2>1. End(a, p, "error")
    BY <1>2 DEF Raise
  <2> QED
    BY <2>1, EndKeeps DEF Shown, Outcomes
<1> QED
  BY <1>1, <1>2

LEMMA TryKeeps ==
    ASSUME PromptsOK, NEW a \in Askers, ask[a].at \in {"list", "fetch"}, NEW ids, Try(a, ids)
    PROVE  PromptsOK'
<1> DEFINE p == ask[a]
           list == Candidates(ids)
           q == [p EXCEPT !.at = "call", !.list = list, !.cached = {}]
<1>1. PromptOK(p) /\ p.shown = {} /\ p.tried = 0
  BY DEF PromptsOK, PromptOK
<1>2. list \in Seq(Free) /\ Len(list) <= MaxAttempts /\ Len(list) \in Nat /\ MaxAttempts \in Nat
  BY CandidatesFit, LenProperties, RouterAssumption
<1>3. CASE list = <<>>
  <2>1. End(a, p, "none")
    BY <1>3 DEF Try
  <2> QED
    BY <1>1, <2>1, EndKeeps DEF Shown, Outcomes
<1>4. CASE list # <<>>
  <2>1. Put(a, q)
    BY <1>4 DEF Try
  <2> HIDE DEF list
  <2>2. list \in Seq(Free \cup {Named, Direct})
    BY <1>2
  <2>3. q \in Prompts /\ q.at = "call" /\ q.list = list /\ q.shown = {} /\ q.tried = 0
    BY <1>1, <2>2 DEF PromptOK, Prompts
  <2> HIDE DEF q
  <2>4. PromptOK(q)
    BY <2>3, <1>2, <1>4 DEF PromptOK, CandidatesOK, Calls
  <2> QED
    BY <2>1, <2>4, PutKeeps
<1> QED
  BY <1>3, <1>4

LEMMA AnsweredKeeps ==
    ASSUME PromptsOK, NEW a \in Askers, ask[a].shown = {}, NEW m \in Free \cup {Named, Direct}, Answered(a, m)
    PROVE  PromptsOK'
<1> DEFINE p == ask[a]
           shown == p.shown \cup {m}
<1>1. PromptOK(p)
  BY DEF PromptsOK
<1>2. shown = {m} /\ shown \in Shown
  BY <1>1 DEF Shown
<1>3. CASE p.stream
  <2> DEFINE q == [p EXCEPT !.at = "show", !.shown = shown]
  <2>1. Put(a, q)
    BY <1>3 DEF Answered
  <2> HIDE DEF shown
  <2>2. q \in Prompts /\ q.at = "show" /\ q.shown = shown /\ q.tried = p.tried /\ q.free = p.free
    BY <1>1, <1>2 DEF PromptOK, Prompts, Shown
  <2> HIDE DEF q
  <2>3. PromptOK(q)
    BY <1>1, <1>2, <2>2 DEF PromptOK, CandidatesOK, Calls
  <2> QED
    BY <2>1, <2>3, PutKeeps
<1>4. CASE ~p.stream
  <2> DEFINE q == [p EXCEPT !.shown = shown]
  <2>1. End(a, q, "answer")
    BY <1>4 DEF Answered
  <2> HIDE DEF shown
  <2>2. q.shown = shown
    BY <1>1 DEF PromptOK, Prompts
  <2> HIDE DEF q
  <2> QED
    BY <1>2, <2>1, <2>2, EndKeeps DEF Outcomes
<1> QED
  BY <1>3, <1>4

LEMMA NothingKeeps ==
    ASSUME PromptsOK, NEW a \in Askers, ask[a].shown = {}, ~ask[a].free, Nothing(a, ask[a])
    PROVE  PromptsOK'
<1> DEFINE p == ask[a]
           q == [p EXCEPT !.at = "call", !.stream = FALSE]
<1>1. PromptOK(p)
  BY DEF PromptsOK
<1>2. q \in Prompts /\ q.at = "call" /\ q.shown = {} /\ q.tried = p.tried /\ q.free = p.free
  BY <1>1 DEF PromptOK, Prompts
<1>3. CASE p.stream
  <2>1. Put(a, q)
    BY <1>3 DEF Nothing
  <2> HIDE DEF q
  <2>2. PromptOK(q)
    BY <1>1, <1>2 DEF PromptOK, CandidatesOK
  <2> QED
    BY <2>1, <2>2, PutKeeps
<1>4. CASE ~p.stream
  <2>1. End(a, p, "nothing")
    BY <1>4 DEF Nothing
  <2> QED
    BY <2>1, EndKeeps DEF Shown, Outcomes
<1> QED
  BY <1>3, <1>4

-----------------------------------------------------------------------------
(* The steps of a prompt.                                                    *)

LEMMA AskKeeps ==
    ASSUME PromptsOK, NEW a \in Askers, NEW stream \in BOOLEAN,
           NEW list \in {<<>>, <<Named>>, <<Direct>>}, Ask(a, stream, list)
    PROVE  PromptsOK'
<1> DEFINE at == IF list = <<>> THEN "list" ELSE "call"
           free == list = <<>>
           q == [NoPrompt EXCEPT !.at = at, !.stream = stream, !.free = free, !.list = list]
<1>1. Put(a, q)
  BY DEF Ask
<1>2. list \in Seq(Free \cup {Named, Direct}) /\ MaxAttempts \in Nat
  <2>1. <<Named>> \in Seq(Free \cup {Named, Direct}) /\ <<Direct>> \in Seq(Free \cup {Named, Direct})
    OBVIOUS
  <2>2. <<>> \in Seq(Free \cup {Named, Direct})
    BY EmptySeq
  <2> QED
    BY <2>1, <2>2, RouterAssumption
<1>3. at \in {"list", "call"} /\ free \in BOOLEAN /\ (free => at = "list")
  OBVIOUS
<1> HIDE DEF at, free
<1>4. q \in Prompts /\ q.at = at /\ q.shown = {} /\ q.tried = 0 /\ q.free = free
  BY <1>2, <1>3, NoPromptOK DEF PromptOK, Prompts, NoPrompt
<1> HIDE DEF q
<1>5. PromptOK(q)
  BY <1>2, <1>3, <1>4 DEF PromptOK, CandidatesOK, Calls
<1> QED
  BY <1>1, <1>5, PutKeeps

LEMMA FetchKeeps ==
    ASSUME PromptsOK, CatalogOK, NEW a \in Askers, BeginFetch(a)
    PROVE  PromptsOK'
<1> DEFINE p == ask[a]
           q == [p EXCEPT !.at = "fetch", !.cached = catalog.ids]
<1>1. PromptOK(p) /\ p.shown = {} /\ p.tried = 0 /\ Put(a, q)
  BY DEF PromptsOK, PromptOK, BeginFetch
<1>2. q \in Prompts /\ q.at = "fetch" /\ q.shown = {} /\ q.tried = 0
  BY <1>1 DEF PromptOK, Prompts, CatalogOK
<1>3. MaxAttempts \in Nat
  BY RouterAssumption
<1> HIDE DEF q
<1>4. PromptOK(q)
  BY <1>2, <1>3 DEF PromptOK, CandidatesOK, Calls
<1> QED
  BY <1>1, <1>4, PutKeeps

\* A step that moves a prompt on between its calls and keeps the rest of it.
LEMMA MoveKeeps ==
    ASSUME PromptsOK, NEW a \in Askers, NEW at, Put(a, [ask[a] EXCEPT !.at = at]),
           \/ ask[a].at = "call" /\ at = "reason"
           \/ ask[a].at = "sleep" /\ at = (IF ask[a].free THEN "list" ELSE "call")
    PROVE  PromptsOK'
<1> DEFINE p == ask[a]
           q == [p EXCEPT !.at = at]
<1>1. PromptOK(p) /\ p.shown = {}
  BY DEF PromptsOK, PromptOK
<1>2. at \in {"reason", "list", "call"}
  OBVIOUS
<1>3. /\ q \in Prompts /\ q.at = at /\ q.shown = {} /\ q.tried = p.tried /\ q.free = p.free
      /\ q.list = p.list
  BY <1>1, <1>2 DEF PromptOK, Prompts
<1> HIDE DEF q
<1>4. PromptOK(q)
  BY <1>1, <1>3 DEF PromptOK, CandidatesOK, Calls
<1> QED
  BY <1>4, PutKeeps DEF q

LEMMA CallFreeKeeps ==
    ASSUME PromptsOK, NEW a \in Askers, NEW reply \in Replies, CallFree(a, reply)
    PROVE  PromptsOK'
<1> DEFINE p == ask[a]
           list == Tail(p.list)
           tried == p.tried + 1
           left == [p EXCEPT !.at = "call", !.list = list, !.tried = tried]
<1>1. PromptOK(p) /\ p.shown = {} /\ p.free /\ p.at \in Calls
  BY DEF PromptsOK, PromptOK, Called, CallFree, Calls
<1>2. p.list \in Seq(Free) /\ p.list # <<>> /\ p.tried + Len(p.list) <= MaxAttempts /\ p.tried \in Nat
  BY <1>1 DEF PromptOK, CandidatesOK, Prompts
<1>3. /\ Head(p.list) \in Free /\ Tail(p.list) \in Seq(Free)
      /\ Len(Tail(p.list)) = Len(p.list) - 1 /\ Len(p.list) \in Nat \ {0} /\ MaxAttempts \in Nat
  BY <1>2, HeadTailProperties, EmptySeq, RouterAssumption
<1>4. CASE reply = Done("text")
  <2>1. Answered(a, Head(p.list))
    BY <1>4 DEF CallFree, AccountError, Done, Daily, PerMinute
  <2> QED
    BY <1>1, <1>3, <2>1, AnsweredKeeps
<1>5. CASE reply # Done("text") /\ AccountError(reply)
  <2>1. Raise(a, p, reply)
    BY <1>5 DEF CallFree
  <2> QED
    BY <1>1, <1>5, <2>1, RaiseKeeps
<1>6. CASE reply # Done("text") /\ ~AccountError(reply)
  <2>1. IF left.list = <<>> THEN Exhausted(a, left, reply) ELSE Put(a, left)
    BY <1>6 DEF CallFree
  <2>2. Tail(p.list) \in Seq(Free \cup {Named, Direct})
    BY <1>3
  <2>3. /\ left \in Prompts /\ left.at = "call" /\ left.shown = {} /\ left.free
        /\ left.list = Tail(p.list) /\ left.tried = p.tried + 1
    <3>1. tried \in Nat /\ list \in Seq(Free \cup {Named, Direct}) /\ p \in Prompts
      BY <1>1, <1>2, <2>2 DEF PromptOK
    <3> HIDE DEF list, tried
    <3>2. /\ left.at = "call" /\ left.shown = p.shown /\ left.free = p.free
          /\ left.list = list /\ left.tried = tried
      BY ONLY <3>1 DEF Prompts
    <3>3. left \in Prompts
      BY ONLY <3>1 DEF Prompts
    <3> QED
      BY <1>1, <3>2, <3>3 DEF list, tried
  <2> HIDE DEF left
  <2>4. CASE left.list = <<>>
    <3>1. End(a, left, "nofree")
      BY <2>1, <2>4 DEF Exhausted
    <3> QED
      BY <2>3, <3>1, EndKeeps DEF Shown, Outcomes
  <2>5. CASE left.list # <<>>
    <3>1. left.tried + Len(left.list) <= MaxAttempts /\ left.tried <= MaxAttempts
      BY <1>2, <1>3, <2>3
    <3>2. PromptOK(left)
      BY <1>3, <2>3, <2>5, <3>1 DEF PromptOK, CandidatesOK
    <3> QED
      BY <2>1, <2>5, <3>2, PutKeeps
  <2> QED
    BY <2>4, <2>5
<1> QED
  BY <1>4, <1>5, <1>6

LEMMA CallsKeep ==
    ASSUME PromptsOK, NEW a \in Askers, NEW reply \in Replies,
           CallNamed(a, reply) \/ CallDirect(a, reply) \/ CallFree(a, reply)
    PROVE  PromptsOK'
<1> DEFINE p == ask[a]
<1>1. PromptOK(p) /\ p.shown = {}
  BY DEF PromptsOK, PromptOK, Called, CallNamed, CallDirect, CallFree
<1>2. p.shown \in Shown /\ \E x : p.shown \subseteq {x}
  BY <1>1 DEF Shown
<1>3. CASE CallNamed(a, reply)
  <2>1. CASE reply = Done("text")
    <3>1. Answered(a, Named)
      BY <1>3, <2>1 DEF CallNamed, Done
    <3> QED
      BY <1>1, <3>1, AnsweredKeeps
  <2>2. CASE reply = Done("empty")
    BY <1>1, <1>3, <2>2, NothingKeeps DEF CallNamed, Done
  <2>3. CASE reply = Done("verdict")
    <3>1. End(a, p, "error")
      BY <1>3, <2>3 DEF CallNamed, Done
    <3> QED
      BY <1>2, <3>1, EndKeeps DEF Outcomes
  <2>4. CASE reply \notin {Done("text"), Done("empty"), Done("verdict")}
    BY <1>1, <1>3, <2>4, RaiseKeeps DEF CallNamed
  <2> QED
    BY <2>1, <2>2, <2>3, <2>4
<1>4. CASE CallDirect(a, reply)
  <2>1. CASE reply \in {Done("text"), Done("verdict")}
    <3>1. Done("empty") \notin {Done("text"), Done("verdict")}
      BY DEF Done
    <3>2. Answered(a, Direct)
      BY <1>4, <2>1, <3>1 DEF CallDirect
    <3> QED
      BY <1>1, <3>2, AnsweredKeeps
  <2>2. CASE reply = Done("empty")
    BY <1>1, <1>4, <2>2, NothingKeeps DEF CallDirect, Done
  <2>3. CASE reply \notin {Done("text"), Done("empty"), Done("verdict")}
    BY <1>1, <1>4, <2>3, RaiseKeeps DEF CallDirect
  <2> QED
    BY <2>1, <2>2, <2>3
<1> QED
  BY <1>3, <1>4, CallFreeKeeps

LEMMA GoOnKeeps ==
    ASSUME PromptsOK, CatalogOK, NEW a \in Askers, GoOn(a)
    PROVE  PromptsOK'
<1> DEFINE p == ask[a]
<1>1. PromptOK(p)
  BY DEF PromptsOK
<1>2. p.shown \in Shown /\ \E x : p.shown \subseteq {x}
  BY <1>1 DEF PromptOK, Prompts, Shown
<1>3. CASE List(a)
  BY <1>3, TryKeeps DEF List
<1>4. CASE BeginFetch(a)
  BY <1>4, FetchKeeps
<1>5. ASSUME NEW ids \in SUBSET Free, Fetch(a, ids)
      PROVE  PromptsOK'
  BY <1>5, TryKeeps DEF Fetch
<1>6. CASE AskWithReasoning(a)
  BY <1>6, MoveKeeps DEF AskWithReasoning
<1>7. CASE Reply(a)
  BY <1>7, CallsKeep DEF Reply
<1>8. CASE Resume(a)
  BY <1>8, MoveKeeps DEF Resume
<1>9. CASE Finish(a) \/ Break(a)
  BY <1>2, <1>9, EndKeeps DEF Finish, Break, Outcomes
<1> QED
  BY <1>3, <1>4, <1>5, <1>6, <1>7, <1>8, <1>9 DEF GoOn

-----------------------------------------------------------------------------
(* The pool.                                                                 *)

\* Cooling keeps the longer of two cooldowns.
LEMMA CoolKeeps ==
    ASSUME PoolOK, NEW m, NEW reply, Cool(m, CooldownFor(reply))
    PROVE  PoolOK' /\ \A x \in Free : cooldown[x] <= cooldown'[x]
<1>1. CooldownFor(reply) \in 1 .. 4
  BY DEF CooldownFor
<1> DEFINE n == CooldownFor(reply)
<1> HIDE DEF n
<1>2. n \in 1 .. 4
  BY <1>1 DEF n
<1>3. cooldown' = [cooldown EXCEPT ![m] = IF @ > n THEN @ ELSE n]
  BY DEF Cool, n
<1>4. cooldown \in [Free -> 0 .. 4] /\ DOMAIN cooldown' = Free
  BY <1>3 DEF PoolOK
<1>5. \A x \in Free : cooldown'[x] \in 0 .. 4 /\ cooldown[x] <= cooldown'[x]
  <2> TAKE x \in Free
  <2>1. cooldown[x] \in 0 .. 4
    BY <1>4
  <2>2. CASE x = m
    <3>1. cooldown'[x] = IF cooldown[x] > n THEN cooldown[x] ELSE n
      BY <2>2, <1>3, <1>4
    <3> QED
      BY <3>1, <2>1, <1>2
  <2>3. CASE x # m
    <3>1. cooldown'[x] = cooldown[x]
      BY <2>3, <1>3, <1>4
    <3> QED
      BY <3>1, <2>1
  <2> QED
    BY <2>2, <2>3
<1>6. cooldown' = [x \in Free |-> cooldown'[x]]
  BY <1>3, <1>4
<1> QED
  BY <1>5, <1>6 DEF PoolOK

\* Only a call of the router changes the pool when a prompt goes on, and it does not shorten a
\* cooldown.
LEMMA GoOnPool ==
    ASSUME PoolOK, NEW a \in Askers, GoOn(a)
    PROVE  PoolOK' /\ \A x \in Free : cooldown[x] <= cooldown'[x]
<1>1. CASE UNCHANGED cooldown
  BY <1>1 DEF PoolOK
<1>2. ASSUME NEW reply \in Replies, CallFree(a, reply), cooldown' # cooldown
      PROVE  PoolOK' /\ \A x \in Free : cooldown[x] <= cooldown'[x]
  <2>1. PICK m : Cool(m, CooldownFor(reply))
    BY <1>2 DEF CallFree
  <2> QED
    BY <2>1, CoolKeeps
<1> QED
  BY <1>1, <1>2 DEF GoOn, List, BeginFetch, Fetch, AskWithReasoning, Reply, CallNamed, CallDirect, Resume,
                    Finish, Break

LEMMA GoOnCatalog ==
    ASSUME CatalogOK, PromptsOK, NEW a \in Askers, GoOn(a)
    PROVE  CatalogOK'
<1>1. ASSUME NEW ids \in SUBSET Free, Fetch(a, ids)
      PROVE  CatalogOK'
  BY <1>1 DEF Fetch, CatalogOK
<1> QED
  BY <1>1 DEF GoOn, List, BeginFetch, AskWithReasoning, Reply, CallNamed, CallDirect, CallFree, Resume,
              Finish, Break, CatalogOK

-----------------------------------------------------------------------------
(* The invariant and what follows from it.                                   *)

LEMMA InitOK ==
    ASSUME Init
    PROVE  IInv
<1>1. PromptsOK
  BY NoPromptOK DEF Init, PromptsOK
<1>2. PoolOK /\ CatalogOK
  BY RouterAssumption DEF Init, PoolOK, CatalogOK
<1> QED
  BY <1>1, <1>2 DEF IInv

LEMMA NextOK ==
    ASSUME IInv, [Next]_vars
    PROVE  IInv'
<1> USE DEF IInv
<1>1. ASSUME NEW a \in Askers, NEW stream \in BOOLEAN, NEW list \in {<<>>, <<Named>>, <<Direct>>},
             Ask(a, stream, list)
      PROVE  IInv'
  <2>1. PoolOK' /\ CatalogOK'
    BY <1>1, RouterAssumption DEF Ask, PoolOK, CatalogOK
  <2> QED
    BY <1>1, <2>1, AskKeeps
<1>2. ASSUME NEW a \in Askers, GoOn(a)
      PROVE  IInv'
  BY <1>2, GoOnKeeps, GoOnPool, GoOnCatalog
<1>3. ASSUME NEW m \in Free, Lapse(m)
      PROVE  IInv'
  BY <1>3 DEF Lapse, PromptsOK, PoolOK, CatalogOK
<1>4. CASE CatalogAges
  BY <1>4 DEF CatalogAges, PromptsOK, PoolOK, CatalogOK
<1>5. CASE UNCHANGED vars
  BY <1>5 DEF vars, PromptsOK, PoolOK, CatalogOK
<1> QED
  BY <1>1, <1>2, <1>3, <1>4, <1>5 DEF Next

\* The invariant above holds of every state, and with it the type invariant: a prompt that is under
\* way has shown nothing, and what the router gave up for it (_router, tried) and what it has left
\* are MaxAttempts models together at most.
THEOREM Invariance ==
    Spec => [](IInv /\ TypeOK)
<1>1. IInv => TypeOK
  BY DEF IInv, PromptsOK, PromptOK, PoolOK, CatalogOK, TypeOK
<1> QED
  BY <1>1, InitOK, NextOK, PTL DEF Spec

\* What a user reads comes from one model: _router goes on to another only before text was shown.
THEOREM OneModelShown ==
    Spec => []NeverSwitched
<1>1. ASSUME IInv
      PROVE  NeverSwitched
  <2> SUFFICES ASSUME NEW a \in Askers
               PROVE  Cardinality(ask[a].shown) <= 1
    BY DEF NeverSwitched
  <2>1. PICK x : ask[a].shown \subseteq {x}
    BY <1>1 DEF IInv, PromptsOK, PromptOK
  <2>2. ask[a].shown = {} \/ ask[a].shown = {x}
    BY <2>1
  <2>3. Cardinality({}) = 0
    BY FS_EmptySet
  <2>4. Cardinality({x}) = 1
    BY FS_Singleton
  <2> QED
    BY <2>2, <2>3, <2>4
<1> QED
  BY <1>1, Invariance, PTL

\* A prompt gives up MaxAttempts models at most between two reports of the account's limit per
\* minute, whatever other prompts do to the pool: complete_chat does not begin _router anew when all
\* the candidates failed.
THEOREM TriedOnce ==
    Spec => []PoolTriedOnce
<1>1. IInv => PoolTriedOnce
  BY DEF IInv, PromptsOK, PromptOK, PoolTriedOnce
<1> QED
  BY <1>1, Invariance, PTL

LEMMA StandsStep ==
    ASSUME IInv, [Next]_vars, NEW x \in Free, cooldown'[x] < cooldown[x]
    PROVE  cooldown'[x] = cooldown[x] - 1 /\ ask' = ask
<1>0. PoolOK /\ cooldown[x] \in 0 .. 4
  BY DEF IInv, PoolOK
<1>1. ASSUME NEW a \in Askers, GoOn(a) PROVE FALSE
  <2>1. PoolOK' /\ cooldown[x] <= cooldown'[x]
    BY <1>0, <1>1, GoOnPool
  <2>2. cooldown'[x] \in 0 .. 4
    BY <2>1 DEF PoolOK
  <2> QED
    BY ONLY <1>0, <2>1, <2>2, cooldown'[x] < cooldown[x]
<1>2. PICK m \in Free : Lapse(m)
  <2>1. cooldown' # cooldown
    BY <1>0
  <2> QED
    BY <2>1, <1>1 DEF Next, vars, Ask, CatalogAges
<1> QED
  BY <1>0, <1>2 DEF Lapse, PoolOK

\* Another prompt's lighter failure never shortens how long a model stays out (cool).
THEOREM CooldownsKept ==
    Spec => CooldownsStand
<1>1. IInv /\ [Next]_vars
        => [\A m \in Free : cooldown'[m] < cooldown[m]
               => cooldown'[m] = cooldown[m] - 1 /\ ask' = ask]_vars
  BY StandsStep
<1> QED
  BY <1>1, Invariance, PTL DEF Spec, CooldownsStand

-----------------------------------------------------------------------------
(* The budget of the embedding service, whose limits hold for any callers.   *)

\* an interval's functions are sequences
LEMMA FunctionIsSeq ==
    ASSUME NEW T, NEW N \in Nat, NEW w \in [1 .. N -> T]
    PROVE  w \in Seq(T) /\ Len(w) = N
  OBVIOUS

-----------------------------------------------------------------------------
(* The tokens of a window.                                                   *)

Call == [age : 0 .. Window - 1, tokens : Sizes, query : BOOLEAN]
\* the tokens of the first 0, 1, ... calls of a window
SumsUp(f, window) ==
    /\ f \in [0 .. Len(window) -> Nat] /\ f[0] = 0
    /\ \A n \in 1 .. Len(window) : f[n] = f[n - 1] + window[n].tokens
TokensOf(window) ==
    LET used[n \in 0 .. Len(window)] == IF n = 0 THEN 0 ELSE used[n - 1] + window[n].tokens
    IN  used[Len(window)]
WindowOK(window) == Len(window) \in Nat /\ \A n \in 1 .. Len(window) : window[n].tokens \in Nat

LEMMA SumsExist ==
    ASSUME NEW window, WindowOK(window)
    PROVE  \E f : SumsUp(f, window)
<1> DEFINE N == Len(window)
           Upto(n, g) == g[0] = 0 /\ \A k \in 1 .. n : g[k] = g[k - 1] + window[k].tokens
           S == {n \in Nat : n <= N => \E g \in [0 .. n -> Nat] : Upto(n, g)}
<1>0. N \in Nat /\ \A n \in 1 .. N : window[n].tokens \in Nat
  BY DEF WindowOK
<1>1. 0 \in S
  <2> DEFINE g == [k \in 0 .. 0 |-> 0]
  <2>1. g \in [0 .. 0 -> Nat] /\ Upto(0, g)
    OBVIOUS
  <2> QED
    BY <2>1
<1> HIDE DEF N
<1>2. ASSUME NEW n \in Nat, n \in S PROVE n + 1 \in S
  <2> SUFFICES ASSUME n + 1 <= N PROVE \E h \in [0 .. (n + 1) -> Nat] : Upto(n + 1, h)
    OBVIOUS
  <2>a. n <= N
    BY <1>0
  <2>1. PICK g \in [0 .. n -> Nat] : Upto(n, g)
    BY <1>2, <2>a
  <2> DEFINE h == [k \in 0 .. (n + 1) |-> IF k = n + 1 THEN g[n] + window[n + 1].tokens ELSE g[k]]
  <2>0. window[n + 1].tokens \in Nat /\ g[n] \in Nat
    BY <1>0
  <2>2. h \in [0 .. (n + 1) -> Nat]
    BY <2>0
  <2>3. h[0] = 0 /\ h[n + 1] = g[n] + window[n + 1].tokens /\ h[n] = g[n]
    BY <2>1
  <2>4. \A k \in 1 .. n : h[k] = h[k - 1] + window[k].tokens
    BY <2>1
  <2> HIDE DEF h
  <2>5. \A k \in 1 .. (n + 1) : h[k] = h[k - 1] + window[k].tokens
    <3> TAKE k \in 1 .. (n + 1)
    <3>1. CASE k \in 1 .. n
      BY <3>1, <2>4
    <3>2. CASE k = n + 1
      <4>1. k - 1 = n
        BY <3>2
      <4> QED
        BY <4>1, <3>2, <2>3
    <3> QED
      BY <3>1, <3>2
  <2>6. Upto(n + 1, h)
    BY <2>3, <2>5
  <2> QED
    BY <2>2, <2>6
<1> HIDE DEF S
<1>3. N \in S
  BY <1>0, <1>1, <1>2, Induction
<1> QED
  BY <1>3 DEF S, SumsUp, N

LEMMA SumsAgree ==
    ASSUME NEW s, NEW t, WindowOK(s), WindowOK(t), NEW f, NEW g, SumsUp(f, s), SumsUp(g, t),
           NEW k \in Nat, Len(t) + k <= Len(s),
           \A n \in 1 .. Len(t) : t[n].tokens = s[n + k].tokens
    PROVE  \A n \in 0 .. Len(t) : f[n + k] = g[n] + f[k]
<1> DEFINE N == Len(t)
           S == {n \in Nat : n <= N => f[n + k] = g[n] + f[k]}
<1>0. N \in Nat /\ Len(s) \in Nat
  BY DEF WindowOK
<1>t. \A n \in 0 .. Len(s) : f[n] \in Nat
  BY DEF SumsUp
<1>u. \A n \in 0 .. N : g[n] \in Nat
  BY DEF SumsUp
<1>1. 0 \in S
  <2>1. g[0] = 0 /\ f[k] \in Nat
    BY <1>0, <1>t DEF SumsUp
  <2> QED
    BY <2>1
<1>2. ASSUME NEW n \in Nat, n \in S PROVE n + 1 \in S
  <2> SUFFICES ASSUME n + 1 <= N PROVE f[(n + 1) + k] = g[n + 1] + f[k]
    OBVIOUS
  <2>1. n + 1 \in 1 .. N /\ (n + 1) - 1 = n /\ (n + 1) + k \in 1 .. Len(s) /\ ((n + 1) + k) - 1 = n + k
    BY <1>0
  <2>2. g[n + 1] = g[n] + t[n + 1].tokens
    BY <2>1 DEF SumsUp
  <2>3. f[(n + 1) + k] = f[n + k] + s[(n + 1) + k].tokens
    BY <2>1 DEF SumsUp
  <2>4. t[n + 1].tokens = s[(n + 1) + k].tokens /\ t[n + 1].tokens \in Nat
    BY <2>1 DEF WindowOK
  <2>5. f[n + k] = g[n] + f[k] /\ g[n] \in Nat /\ f[k] \in Nat
    BY <1>2, <2>1, <1>0, <1>t, <1>u
  <2> QED
    BY ONLY <2>2, <2>3, <2>4, <2>5
<1> HIDE DEF S
<1>3. Nat \subseteq S
  BY <1>1, <1>2, Induction
<1> QED
  BY <1>0, <1>3 DEF S

LEMMA TokensAreTheirSum ==
    ASSUME NEW window, WindowOK(window), NEW f, SumsUp(f, window)
    PROVE  TokensOf(window) = f[Len(window)]
<1> DEFINE N == Len(window)
           Eq(h) == h = [n \in 0 .. N |-> IF n = 0 THEN 0 ELSE h[n - 1] + window[n].tokens]
<1>0. N \in Nat
  BY DEF WindowOK
<1>1. Eq(f)
  <2>1. f = [n \in 0 .. N |-> f[n]]
    BY DEF SumsUp
  <2>2. \A n \in 0 .. N : f[n] = IF n = 0 THEN 0 ELSE f[n - 1] + window[n].tokens
    BY <1>0 DEF SumsUp
  <2> QED
    BY <2>1, <2>2
<1> DEFINE h == CHOOSE x : Eq(x)
<1>2. TokensOf(window) = h[N]
  BY DEF TokensOf
<1> HIDE DEF Eq
<1>3. Eq(h)
  BY <1>1
<1> HIDE DEF h
<1>4. h = [n \in 0 .. N |-> IF n = 0 THEN 0 ELSE h[n - 1] + window[n].tokens]
  BY <1>3 DEF Eq
<1>5. h[0] = 0 /\ \A n \in 1 .. N : h[n] = h[n - 1] + window[n].tokens
  <2>1. \A n \in 0 .. N : h[n] = IF n = 0 THEN 0 ELSE h[n - 1] + window[n].tokens
    BY ONLY <1>4
  <2> QED
    BY <2>1, <1>0
<1> DEFINE S == {n \in Nat : n <= N => h[n] = f[n]}
<1>6. 0 \in S
  BY <1>5 DEF SumsUp
<1>7. ASSUME NEW n \in Nat, n \in S PROVE n + 1 \in S
  <2> SUFFICES ASSUME n + 1 <= N PROVE h[n + 1] = f[n + 1]
    OBVIOUS
  <2>1. n + 1 \in 1 .. N /\ (n + 1) - 1 = n /\ n <= N
    BY <1>0
  <2>2. h[n + 1] = h[n] + window[n + 1].tokens
    BY <2>1, <1>5
  <2>3. f[n + 1] = f[n] + window[n + 1].tokens
    BY <2>1 DEF SumsUp
  <2> QED
    BY <2>1, <2>2, <2>3, <1>7
<1> HIDE DEF S
<1>8. Nat \subseteq S
  BY <1>6, <1>7, Induction
<1> QED
  BY <1>0, <1>2, <1>8 DEF S

\* what a part of a window uses, and what one call more adds
LEMMA TokensOfRest ==
    ASSUME NEW s, NEW t, WindowOK(s), WindowOK(t), NEW k \in Nat, Len(t) + k = Len(s),
           \A n \in 1 .. Len(t) : t[n].tokens = s[n + k].tokens
    PROVE  TokensOf(t) \in Nat /\ TokensOf(t) <= TokensOf(s)
<1>1. PICK f : SumsUp(f, s)
  BY SumsExist
<1>2. PICK g : SumsUp(g, t)
  BY SumsExist
<1>3. TokensOf(s) = f[Len(s)] /\ TokensOf(t) = g[Len(t)]
  BY <1>1, <1>2, TokensAreTheirSum
<1>4. Len(t) \in Nat /\ Len(s) \in Nat
  BY DEF WindowOK
<1>5. f[Len(t) + k] = g[Len(t)] + f[k]
  BY <1>1, <1>2, <1>4, SumsAgree
<1>6. Len(t) \in 0 .. Len(t) /\ k \in 0 .. Len(s) /\ Len(t) + k = Len(s)
  BY <1>4
<1>7. g[Len(t)] \in Nat
  BY <1>2, <1>6 DEF SumsUp
<1>8. f[k] \in Nat
  BY <1>1, <1>6 DEF SumsUp
<1>9. f[Len(s)] = g[Len(t)] + f[k]
  BY <1>5, <1>6
<1> QED
  BY ONLY <1>3, <1>7, <1>8, <1>9

LEMMA TokensAreNat ==
    ASSUME NEW s, WindowOK(s)
    PROVE  TokensOf(s) \in Nat
<1>1. PICK f : SumsUp(f, s)
  BY SumsExist
<1>2. Len(s) \in 0 .. Len(s)
  BY DEF WindowOK
<1> QED
  BY <1>1, <1>2, TokensAreTheirSum DEF SumsUp

LEMMA TokensOfOneMore ==
    ASSUME NEW s, NEW t, WindowOK(s), WindowOK(t), Len(t) = Len(s) + 1,
           \A n \in 1 .. Len(s) : t[n].tokens = s[n].tokens
    PROVE  TokensOf(t) = TokensOf(s) + t[Len(t)].tokens
<1>1. PICK f : SumsUp(f, s)
  BY SumsExist
<1>2. PICK g : SumsUp(g, t)
  BY SumsExist
<1>3. TokensOf(s) = f[Len(s)] /\ TokensOf(t) = g[Len(t)]
  BY <1>1, <1>2, TokensAreTheirSum
<1>4. Len(t) \in Nat /\ Len(s) \in Nat /\ Len(t) \in 1 .. Len(t) /\ Len(t) - 1 = Len(s)
  BY DEF WindowOK
<1>5. \A n \in 0 .. Len(s) : g[n + 0] = f[n] + g[0]
  BY <1>1, <1>2, <1>4, SumsAgree
<1>6. g[0] = 0 /\ g[Len(t)] = g[Len(s)] + t[Len(t)].tokens
  BY <1>2, <1>4 DEF SumsUp
<1>7. f[Len(s)] \in Nat
  BY <1>1, <1>4 DEF SumsUp
<1>8. g[Len(s)] = f[Len(s)]
  BY <1>4, <1>5, <1>6, <1>7
<1> QED
  BY <1>3, <1>6, <1>8

LEMMA TokensOfNone == TokensOf(<<>>) = 0
<1>1. WindowOK(<<>>)
  BY DEF WindowOK
<1>2. PICK f : SumsUp(f, <<>>)
  BY <1>1, SumsExist
<1> QED
  BY <1>1, <1>2, TokensAreTheirSum DEF SumsUp

-----------------------------------------------------------------------------
(* The invariant.                                                            *)

OldestFirst(window) == \A i, j \in DOMAIN window : i <= j => window[j].age <= window[i].age
CallsOK(window) == window \in Seq(Call) /\ OldestFirst(window)
CallerOK == [at : {"idle", "wait", "call", "sleep"}, tokens : Sizes \cup {0},
             attempt : 0 .. Attempts - 1, failed : 0 .. Transients - 1]
Waiting == {q \in Queries : caller[q].at = "wait"}
\* the calls for documents that were let through in the last so many ticks
Documents(window, ticks) == {i \in DOMAIN window : ~window[i].query /\ window[i].age < ticks}
DocumentLimit == AtLeast(Rpm - Reserve, 1)

CallersInv ==
    /\ caller \in [Callers -> CallerOK]
    /\ \A c \in Callers : caller[c].at # "idle" => caller[c].tokens \in Sizes
    /\ waiting = Cardinality(Waiting)
CountersInv ==
    quiet \in 0 .. Recent /\ blocked \in 0 .. Attempts /\ active \in 0 .. Window /\ stall \in 0 .. Window
\* the calls of a chat that has been active for some ticks leave the room of these ticks
RoomInv == (quiet = Recent => active = 0) /\ Cardinality(Documents(calls, active)) <= DocumentLimit
\* while questions are held up nobody gets through, and the window only becomes older
HeldUpInv == stall > 0 => Waiting # {} /\ \A i \in DOMAIN calls : stall <= calls[i].age
VoyageInv ==
    /\ CallsOK(calls) /\ WithinLimits
    /\ CallersInv /\ CountersInv /\ RoomInv /\ HeldUpInv

-----------------------------------------------------------------------------
(* The window.                                                               *)

LEMMA CallsAreAWindow ==
    ASSUME NEW s, CallsOK(s)
    PROVE  /\ WindowOK(s) /\ DOMAIN s = 1 .. Len(s) /\ Len(s) \in Nat
           /\ \A i \in 1 .. Len(s) : s[i] \in Call
<1>1. s \in Seq(Call) /\ Sizes \subseteq Nat
  BY LimitAssumption DEF CallsOK
<1>2. Len(s) \in Nat /\ DOMAIN s = 1 .. Len(s) /\ \A i \in 1 .. Len(s) : s[i] \in Call
  BY <1>1, LenProperties, ElementOfSeq
<1> QED
  BY <1>1, <1>2 DEF WindowOK, Call

Aged(s) == [i \in DOMAIN s |-> [s[i] EXCEPT !.age = s[i].age + 1]]

\* what leaves the window are the oldest calls, and all that are too old
LEMMA PruneKeepsTheYoung ==
    ASSUME NEW s, CallsOK(s)
    PROVE  \E k \in 0 .. Len(s) :
              /\ CallsOK(Prune(Aged(s)))
              /\ Len(Prune(Aged(s))) + k = Len(s)
              /\ \A i \in 1 .. Len(Prune(Aged(s))) :
                    Prune(Aged(s))[i] = [s[i + k] EXCEPT !.age = s[i + k].age + 1]
<1> DEFINE w == Aged(s)
           N == Len(s)
           Young == {i \in 1 .. N : w[i].age < Window}
           gone == {i \in DOMAIN w : \A j \in 1 .. i : w[j].age >= Window}
<1>0. Window \in Nat \ {0}
  BY LimitAssumption
<1>1. N \in Nat /\ DOMAIN s = 1 .. N /\ \A i \in 1 .. N : s[i] \in Call
  BY CallsAreAWindow
<1>2. DOMAIN w = 1 .. N /\ \A i \in 1 .. N : w[i] = [s[i] EXCEPT !.age = s[i].age + 1]
  BY <1>1 DEF Aged
<1>3. \A i \in 1 .. N : /\ w[i].age = s[i].age + 1 /\ w[i].age \in 1 .. Window
                        /\ w[i] \in [age : 1 .. Window, tokens : Sizes, query : BOOLEAN]
  <2> TAKE i \in 1 .. N
  <2>1. s[i] \in Call /\ w[i] = [s[i] EXCEPT !.age = s[i].age + 1]
    BY <1>1, <1>2
  <2> QED
    BY ONLY <2>1, <1>0 DEF Call
<1>4. w \in Seq([age : 1 .. Window, tokens : Sizes, query : BOOLEAN]) /\ Len(w) = N
  <2>1. w = [i \in 1 .. N |-> w[i]]
    BY <1>1 DEF Aged
  <2> HIDE DEF w, N
  <2>2. \A i \in 1 .. N : w[i] \in [age : 1 .. Window, tokens : Sizes, query : BOOLEAN]
    BY <1>3
  <2>3. w \in [1 .. N -> [age : 1 .. Window, tokens : Sizes, query : BOOLEAN]]
    BY ONLY <2>1, <2>2
  <2> QED
    BY <2>3, <1>1, FunctionIsSeq
<1>5. \A i, j \in 1 .. N : i <= j => w[j].age <= w[i].age
  <2>1. \A i, j \in 1 .. N : i <= j => s[j].age <= s[i].age
    BY <1>1 DEF CallsOK, OldestFirst
  <2>2. \A i \in 1 .. N : s[i].age \in Int
    BY <1>1 DEF Call
  <2> QED
    BY ONLY <2>1, <2>2, <1>3
<1> HIDE DEF w, N
<1>6. \E k \in 0 .. N : gone = 1 .. k /\ \A i \in (k + 1) .. N : w[i].age < Window
  <2>a. \A i \in 1 .. N : w[i].age \in Int
    BY <1>3
  <2>1. CASE Young = {}
    <3>1. \A i \in 1 .. N : w[i].age >= Window
      BY <2>1, <1>0, <2>a
    <3>2. gone = 1 .. N
      BY <3>1, <1>1, <1>2
    <3> QED
      BY <3>2, <1>1
  <2>2. CASE Young # {}
    <3>1. PICK m \in Young : \A i \in Young : m <= i
      <4>1. Young \in SUBSET Nat
        OBVIOUS
      <4> HIDE DEF Young
      <4> QED
        BY <4>1, <2>2, LeastNumber
    <3>2. m \in 1 .. N /\ w[m].age < Window /\ \A i \in 1 .. N : i < m => w[i].age >= Window
      BY <3>1, <1>0, <1>1, <2>a
    <3>3. \A i \in m .. N : w[i].age < Window
      <4> TAKE i \in m .. N
      <4>1. i \in 1 .. N /\ m <= i
        BY <3>2, <1>1
      <4>2. w[i].age <= w[m].age /\ w[i].age \in Int /\ w[m].age \in Int
        BY <4>1, <3>2, <1>5, <2>a
      <4> QED
        BY <4>2, <3>2, <1>0
    <3>4. gone = 1 .. (m - 1)
      <4>1. ASSUME NEW i \in gone PROVE i \in 1 .. (m - 1)
        <5>1. i \in 1 .. N /\ \A j \in 1 .. i : w[j].age >= Window
          BY <1>2
        <5>2. i < m
          BY <5>1, <3>2, <2>a, <1>0, <1>1
        <5> QED
          BY <5>1, <5>2, <3>2, <1>1
      <4>2. ASSUME NEW i \in 1 .. (m - 1) PROVE i \in gone
        <5>1. i \in 1 .. N /\ \A j \in 1 .. i : j \in 1 .. N /\ j < m
          BY <3>2, <1>1
        <5> QED
          BY <5>1, <3>2, <1>2
      <4> QED
        BY <4>1, <4>2
    <3>5. m - 1 \in 0 .. N /\ (m - 1) + 1 = m
      BY <3>2, <1>1
    <3> QED
      BY <3>3, <3>4, <3>5
  <2> QED
    BY <2>1, <2>2
<1>7. PICK k \in 0 .. N : gone = 1 .. k /\ \A i \in (k + 1) .. N : w[i].age < Window
  BY <1>6
<1>8. Cardinality(gone) = k
  <2>1. Cardinality(1 .. k) = k
    BY <1>1, FS_Interval
  <2> QED
    BY <2>1, <1>7
<1> DEFINE t == Prune(w)
<1>9. t = SubSeq(w, k + 1, N)
  <2>1. t = SubSeq(w, Cardinality(gone) + 1, Len(w))
    BY DEF Prune
  <2> HIDE DEF t, gone
  <2> QED
    BY <2>1, <1>4, <1>8
<1>10. \A i \in (k + 1) .. N : w[i] \in Call
  <2> TAKE i \in (k + 1) .. N
  <2>1. w[i].age < Window /\ i \in 1 .. N
    BY <1>7, <1>1
  <2>2. w[i] \in [age : 1 .. Window, tokens : Sizes, query : BOOLEAN]
    BY <2>1, <1>3
  <2>3. w[i].age \in 0 .. Window - 1
    BY ONLY <2>1, <2>2, <1>0
  <2> QED
    BY ONLY <2>2, <2>3 DEF Call
<1> HIDE DEF t, gone
<1>11. /\ t \in Seq(Call) /\ Len(t) = N - k
       /\ \A i \in 1 .. (N - k) : t[i] = w[i + k]
  <2>1. k \in Int /\ k + 1 \in Int /\ N \in Int /\ N - (k + 1) + 1 = N - k
    BY <1>1
  <2>2. /\ t \in Seq(Call) /\ Len(t) = IF k + 1 <= N THEN N - (k + 1) + 1 ELSE 0
        /\ \A i \in 1 .. (N - (k + 1) + 1) : t[i] = w[(k + 1) + i - 1]
    BY <2>1, <1>9, <1>10, SubSeqProperties
  <2>3. Len(t) = N - k
    BY <2>2, <1>1
  <2>4. \A i \in 1 .. (N - k) : (k + 1) + i - 1 = i + k
    BY <1>1
  <2> QED
    BY <2>1, <2>2, <2>3, <2>4
<1>12. DOMAIN t = 1 .. (N - k) /\ \A i \in 1 .. (N - k) : i + k \in 1 .. N
  BY <1>1, <1>11, LenProperties
<1>13. OldestFirst(t)
  <2> SUFFICES ASSUME NEW i \in 1 .. (N - k), NEW j \in 1 .. (N - k), i <= j PROVE t[j].age <= t[i].age
    BY <1>12 DEF OldestFirst
  <2>1. i + k \in 1 .. N /\ j + k \in 1 .. N /\ i + k <= j + k
    BY <1>12, <1>1
  <2>2. t[i] = w[i + k] /\ t[j] = w[j + k]
    BY <1>11
  <2> QED
    BY <2>1, <2>2, <1>5
<1>14. \A i \in 1 .. (N - k) : t[i] = [s[i + k] EXCEPT !.age = s[i + k].age + 1]
  BY <1>11, <1>12, <1>2
<1> QED
  <2>1. CallsOK(t) /\ Len(t) + k = N /\ \A i \in 1 .. Len(t) : t[i] = [s[i + k] EXCEPT !.age = s[i + k].age + 1]
    BY <1>1, <1>11, <1>13, <1>14 DEF CallsOK
  <2> QED
    BY <2>1 DEF t, w, N

LEMMA DocumentsAreFinite ==
    ASSUME NEW s, CallsOK(s), NEW ticks
    PROVE  /\ IsFiniteSet(Documents(s, ticks))
           /\ Cardinality(Documents(s, ticks)) \in Nat /\ Cardinality(Documents(s, ticks)) <= Len(s)
<1>1. Documents(s, ticks) \subseteq 1 .. Len(s) /\ Len(s) \in Nat
  BY CallsAreAWindow DEF Documents
<1>2. IsFiniteSet(1 .. Len(s)) /\ Cardinality(1 .. Len(s)) = Len(s)
  <2>1. 1 \in Int /\ Len(s) \in Int
    BY <1>1
  <2>2. IsFiniteSet(1 .. Len(s)) /\ Cardinality(1 .. Len(s)) = IF 1 > Len(s) THEN 0 ELSE Len(s) - 1 + 1
    BY <2>1, FS_Interval
  <2> QED
    BY <2>2, <1>1
<1>3. /\ IsFiniteSet(Documents(s, ticks))
      /\ Cardinality(Documents(s, ticks)) <= Cardinality(1 .. Len(s))
  BY <1>1, <1>2, FS_Subset
<1> QED
  BY <1>1, <1>2, <1>3, FS_CardinalityType

\* a tick later there are no more of them
LEMMA DocumentsOfRest ==
    ASSUME NEW s, CallsOK(s), NEW t, CallsOK(t),
           NEW k \in Nat, Len(t) + k = Len(s),
           \A i \in 1 .. Len(t) : t[i] = [s[i + k] EXCEPT !.age = s[i + k].age + 1],
           NEW a \in Nat, NEW b \in Nat, b <= a + 1
    PROVE  Cardinality(Documents(t, b)) <= Cardinality(Documents(s, a))
<1> DEFINE D == Documents(t, b)
           E == Documents(s, a)
           f == [i \in D |-> i + k]
<1>1. /\ Len(s) \in Nat /\ Len(t) \in Nat
      /\ DOMAIN s = 1 .. Len(s) /\ DOMAIN t = 1 .. Len(t)
      /\ \A i \in 1 .. Len(s) : s[i] \in Call
  BY CallsAreAWindow
<1>2. ASSUME NEW i \in D PROVE i + k \in E
  <2>1. i \in 1 .. Len(t) /\ ~t[i].query /\ t[i].age < b
    BY <1>1 DEF Documents
  <2>2. i + k \in 1 .. Len(s)
    BY <2>1, <1>1
  <2>3. t[i] = [s[i + k] EXCEPT !.age = s[i + k].age + 1] /\ s[i + k] \in Call
    BY <2>1, <2>2, <1>1
  <2>4. s[i + k].age \in Nat /\ t[i].age = s[i + k].age + 1 /\ s[i + k].query = t[i].query
    BY <2>3 DEF Call
  <2>0. a \in Nat /\ b \in Nat /\ b <= a + 1
    OBVIOUS
  <2>5. s[i + k].age < a
    BY ONLY <2>0, <2>1, <2>4
  <2> QED
    BY <2>1, <2>2, <2>4, <2>5, <1>1 DEF Documents
<1>3. D \subseteq Nat
  BY <1>1 DEF Documents
<1>4. IsFiniteSet(E)
  BY DocumentsAreFinite
<1> HIDE DEF D, E
<1>5. f \in [D -> E]
  BY <1>2
<1>6. \A i, j \in D : f[i] = f[j] => i = j
  BY <1>3
<1>7. f \in Injection(D, E)
  BY <1>5, <1>6 DEF Injection, IsInjective
<1> HIDE DEF f
<1> QED
  BY <1>4, <1>7, FS_Injection DEF D, E

-----------------------------------------------------------------------------
(* Callers.                                                                  *)

LEMMA WaitingIsFinite ==
    IsFiniteSet(Waiting) /\ Cardinality(Waiting) \in Nat /\ Cardinality(Waiting) <= Cardinality(Queries)
<1>1. IsFiniteSet(Queries)
  BY LimitAssumption
<1>2. Waiting \subseteq Queries
  BY DEF Waiting
<1> QED
  BY <1>1, <1>2, FS_Subset, FS_CardinalityType

\* a caller that did not wait, and that is made to wait or is left alone
LEMMA EnterCounts ==
    ASSUME CallersInv, NEW c \in Callers, caller[c].at # "wait",
           NEW record \in CallerOK, record.tokens \in Sizes, Enter(c, record)
    PROVE  CallersInv' /\ Waiting \subseteq Waiting'
<1> DEFINE r == [record EXCEPT !.at = "wait"]
<1>1. r \in CallerOK /\ r.at = "wait" /\ r.tokens \in Sizes
  BY DEF CallerOK
<1>2. caller' = [caller EXCEPT ![c] = r]
  BY DEF Enter
<1>0. waiting' = IF c \in Queries THEN waiting + 1 ELSE waiting
  BY DEF Enter
<1> HIDE DEF r
<1>3. caller \in [Callers -> CallerOK]
  BY DEF CallersInv
<1>4. caller' \in [Callers -> CallerOK]
  BY <1>1, <1>2, <1>3
<1>5. \A d \in Callers : caller'[d] = IF d = c THEN r ELSE caller[d]
  BY <1>2, <1>3
<1>6. \A d \in Callers : caller'[d].at # "idle" => caller'[d].tokens \in Sizes
  BY <1>1, <1>5 DEF CallersInv
<1>7. Queries \subseteq Callers
  BY DEF Callers
<1>8. Waiting' = IF c \in Queries THEN Waiting \cup {c} ELSE Waiting
  BY <1>1, <1>5, <1>7 DEF Waiting
<1>9. c \notin Waiting /\ IsFiniteSet(Waiting) /\ Cardinality(Waiting) \in Nat
  BY WaitingIsFinite DEF Waiting
<1>10. Cardinality(Waiting \cup {c}) = Cardinality(Waiting) + 1
  BY <1>9, FS_AddElement
<1>11. waiting' = Cardinality(Waiting')
  BY <1>0, <1>8, <1>10 DEF CallersInv
<1> QED
  BY <1>4, <1>6, <1>8, <1>11 DEF CallersInv

LEMMA OthersKeepWaiting ==
    ASSUME CallersInv, NEW c \in Callers, caller[c].at # "wait",
           NEW record \in CallerOK, record.at # "wait", record.at # "idle" => record.tokens \in Sizes,
           caller' = [caller EXCEPT ![c] = record], waiting' = waiting
    PROVE  CallersInv' /\ Waiting' = Waiting
<1>3. caller \in [Callers -> CallerOK]
  BY DEF CallersInv
<1>4. caller' \in [Callers -> CallerOK]
  BY <1>3
<1>5. \A d \in Callers : caller'[d] = IF d = c THEN record ELSE caller[d]
  BY <1>3
<1>6. \A d \in Callers : caller'[d].at # "idle" => caller'[d].tokens \in Sizes
  BY <1>5 DEF CallersInv
<1>7. Queries \subseteq Callers
  BY DEF Callers
<1>8. Waiting' = Waiting
  BY <1>5, <1>7 DEF Waiting
<1> QED
  BY <1>4, <1>6, <1>8 DEF CallersInv

\* a caller that waited and is let through
LEMMA LeaveCounts ==
    ASSUME CallersInv, NEW c \in Callers, caller[c].at = "wait",
           caller' = [caller EXCEPT ![c].at = "call"], Leave(c)
    PROVE  CallersInv' /\ (c \notin Queries => Waiting' = Waiting)
<1> DEFINE r == [caller[c] EXCEPT !.at = "call"]
<1>3. caller \in [Callers -> CallerOK] /\ caller[c].tokens \in Sizes
  BY DEF CallersInv
<1>1. r \in CallerOK /\ r.at = "call" /\ r.tokens \in Sizes
  BY <1>3 DEF CallerOK
<1>2. caller' = [caller EXCEPT ![c] = r]
  OBVIOUS
<1> HIDE DEF r
<1>4. caller' \in [Callers -> CallerOK]
  BY <1>1, <1>2, <1>3
<1>5. \A d \in Callers : caller'[d] = IF d = c THEN r ELSE caller[d]
  BY <1>2, <1>3
<1>6. \A d \in Callers : caller'[d].at # "idle" => caller'[d].tokens \in Sizes
  BY <1>1, <1>5 DEF CallersInv
<1>7. Queries \subseteq Callers
  BY DEF Callers
<1>8. Waiting' = Waiting \ {c}
  BY <1>1, <1>5, <1>7 DEF Waiting
<1>9. (c \in Queries <=> c \in Waiting) /\ IsFiniteSet(Waiting) /\ Cardinality(Waiting) \in Nat
  BY WaitingIsFinite DEF Waiting
<1>10. Cardinality(Waiting \ {c}) = IF c \in Waiting THEN Cardinality(Waiting) - 1 ELSE Cardinality(Waiting)
  BY <1>9, FS_RemoveElement
<1>11. waiting' = Cardinality(Waiting')
  BY <1>8, <1>9, <1>10 DEF CallersInv, Leave
<1>12. c \notin Queries => Waiting' = Waiting
  BY <1>8, <1>9
<1> QED
  BY <1>4, <1>6, <1>11, <1>12 DEF CallersInv

-----------------------------------------------------------------------------
(* Every step keeps the invariant.                                           *)

\* the steps of a caller that leave the window and the clocks alone
LEMMA WindowAlone ==
    ASSUME VoyageInv, CallersInv', Waiting \subseteq Waiting', blocked' \in 0 .. Attempts,
           UNCHANGED <<calls, quiet, active, stall>>
    PROVE  VoyageInv'
<1>1. CallsOK(calls)' /\ WithinLimits'
  BY DEF VoyageInv, WithinLimits, UsedTokens
<1>2. CountersInv' /\ RoomInv' /\ HeldUpInv'
  BY DEF VoyageInv, CountersInv, RoomInv, HeldUpInv
<1> QED
  BY <1>1, <1>2 DEF VoyageInv

LEMMA CallerAt ==
    ASSUME CallersInv, NEW c \in Callers
    PROVE  caller[c] \in CallerOK /\ (caller[c].at # "idle" => caller[c].tokens \in Sizes)
  BY DEF CallersInv

LEMMA IdleOK ==
    Idle \in CallerOK /\ Idle.at = "idle"
  BY LimitAssumption DEF Idle, CallerOK

LEMMA BeginKeeps ==
    ASSUME VoyageInv, NEW c \in Callers, NEW size \in Sizes, Begin(c, size)
    PROVE  VoyageInv'
<1> DEFINE r == [Idle EXCEPT !.tokens = size]
<1>1. r \in CallerOK /\ r.tokens \in Sizes
  BY IdleOK DEF CallerOK
<1>2. Enter(c, r) /\ caller[c].at # "wait" /\ UNCHANGED <<calls, quiet, blocked, active, stall>>
  BY DEF Begin
<1> HIDE DEF r
<1>3. CallersInv /\ CountersInv
  BY DEF VoyageInv
<1>4. CallersInv' /\ Waiting \subseteq Waiting'
  BY <1>1, <1>2, <1>3, EnterCounts
<1> QED
  BY <1>2, <1>3, <1>4, WindowAlone DEF CountersInv

LEMMA ReturnKeeps ==
    ASSUME VoyageInv, NEW c \in Callers, Return(c)
    PROVE  VoyageInv'
<1>1. /\ caller[c].at # "wait" /\ caller' = [caller EXCEPT ![c] = Idle]
      /\ waiting' = waiting /\ UNCHANGED <<calls, quiet, blocked, active, stall>>
  BY DEF Return
<1>2. CallersInv /\ CountersInv
  BY DEF VoyageInv
<1>3. CallersInv' /\ Waiting' = Waiting
  BY <1>1, <1>2, IdleOK, OthersKeepWaiting
<1> QED
  BY <1>1, <1>2, <1>3, WindowAlone DEF CountersInv

LEMMA RateLimitedKeeps ==
    ASSUME VoyageInv, NEW c \in Callers, RateLimited(c)
    PROVE  VoyageInv'
<1>1. caller[c].at = "call" /\ UNCHANGED <<calls, quiet, active, stall>>
  BY DEF RateLimited
<1>2. CallersInv /\ CountersInv /\ Attempts \in Nat \ {0}
  BY LimitAssumption DEF VoyageInv
<1>3. caller[c] \in CallerOK /\ caller[c].tokens \in Sizes
  BY <1>1, <1>2, CallerAt
<1>4. caller[c].attempt \in 0 .. Attempts - 1
  BY <1>3 DEF CallerOK
<1>5. blocked' \in 0 .. Attempts
  <2>1. blocked' = IF blocked < caller[c].attempt + 1 THEN caller[c].attempt + 1 ELSE blocked
    BY DEF RateLimited, AtLeast
  <2>2. blocked \in 0 .. Attempts
    BY <1>2 DEF CountersInv
  <2> QED
    BY ONLY <2>1, <2>2, <1>2, <1>4
<1>6. CASE caller[c].attempt + 1 = Attempts
  <2>1. caller' = [caller EXCEPT ![c] = Idle] /\ waiting' = waiting
    BY <1>6 DEF RateLimited
  <2>2. CallersInv' /\ Waiting' = Waiting
    BY <2>1, <1>1, <1>2, IdleOK, OthersKeepWaiting
  <2> QED
    BY <2>2, <1>1, <1>5, WindowAlone
<1>7. CASE caller[c].attempt + 1 # Attempts
  <2> DEFINE r == [caller[c] EXCEPT !.attempt = caller[c].attempt + 1]
  <2>1. Enter(c, r)
    BY <1>7 DEF RateLimited
  <2>2. caller[c].attempt + 1 \in 0 .. Attempts - 1
    BY ONLY <1>2, <1>4, <1>7
  <2>3. r \in CallerOK /\ r.tokens \in Sizes
    BY <1>3, <2>2 DEF CallerOK
  <2> HIDE DEF r
  <2>4. CallersInv' /\ Waiting \subseteq Waiting'
    BY <2>1, <2>3, <1>1, <1>2, EnterCounts
  <2> QED
    BY <2>4, <1>1, <1>5, WindowAlone
<1> QED
  BY <1>6, <1>7

LEMMA TransientKeeps ==
    ASSUME VoyageInv, NEW c \in Callers, Transient(c)
    PROVE  VoyageInv'
<1>1. /\ caller[c].at = "call" /\ UNCHANGED <<calls, quiet, blocked, active, stall>>
      /\ waiting' = waiting
  BY DEF Transient
<1>2. CallersInv /\ CountersInv /\ Attempts \in Nat \ {0} /\ Transients \in Nat \ {0}
  BY LimitAssumption DEF VoyageInv
<1>3. caller[c] \in CallerOK /\ caller[c].tokens \in Sizes /\ caller \in [Callers -> CallerOK]
  BY <1>1, <1>2, CallerAt DEF CallersInv
<1>4. caller[c].attempt \in 0 .. Attempts - 1 /\ caller[c].failed \in 0 .. Transients - 1
  BY <1>3 DEF CallerOK
<1> DEFINE over == caller[c].failed + 1 >= Transients \/ caller[c].attempt + 1 = Attempts
           s == [caller[c] EXCEPT !.at = "sleep", !.attempt = caller[c].attempt + 1, !.failed = caller[c].failed + 1]
<1>5. caller' = [caller EXCEPT ![c] = IF over THEN Idle ELSE s]
  BY DEF Transient
<1>6. CASE over
  <2>1. caller' = [caller EXCEPT ![c] = Idle]
    BY <1>5, <1>6
  <2>2. CallersInv' /\ Waiting' = Waiting
    BY <2>1, <1>1, <1>2, IdleOK, OthersKeepWaiting
  <2> QED
    BY <2>2, <1>1, <1>2, WindowAlone DEF CountersInv
<1>7. CASE ~over
  <2>1. caller' = [caller EXCEPT ![c] = s]
    BY <1>5, <1>7
  <2>2. caller[c].attempt + 1 \in 0 .. Attempts - 1 /\ caller[c].failed + 1 \in 0 .. Transients - 1
    BY ONLY <1>2, <1>4, <1>7
  <2>3. s \in CallerOK /\ s.at = "sleep" /\ s.tokens \in Sizes
    BY <1>3, <2>2 DEF CallerOK
  <2> HIDE DEF s
  <2>4. CallersInv' /\ Waiting' = Waiting
    BY <2>1, <2>3, <1>1, <1>2, OthersKeepWaiting
  <2> QED
    BY <2>4, <1>1, <1>2, WindowAlone DEF CountersInv
<1> QED
  BY <1>6, <1>7

LEMMA WakeKeeps ==
    ASSUME VoyageInv, NEW c \in Callers, Wake(c)
    PROVE  VoyageInv'
<1>1. caller[c].at = "sleep" /\ Enter(c, caller[c]) /\ UNCHANGED <<calls, quiet, blocked, active, stall>>
  BY DEF Wake
<1>2. CallersInv /\ CountersInv
  BY DEF VoyageInv
<1>3. caller[c] \in CallerOK /\ caller[c].tokens \in Sizes
  BY <1>1, <1>2, CallerAt
<1>4. CallersInv' /\ Waiting \subseteq Waiting'
  BY <1>1, <1>2, <1>3, EnterCounts
<1> QED
  BY <1>1, <1>2, <1>4, WindowAlone DEF CountersInv

LEMMA SlotsAre ==
    ASSUME NEW c \in Callers
    PROVE  /\ DocumentLimit \in Nat \ {0} /\ DocumentLimit <= Rpm
           /\ Slots(c) <= Rpm /\ Slots(c) \in Nat
           /\ c \in Ingests /\ quiet < Recent => Slots(c) = DocumentLimit
           /\ c \in Queries => Slots(c) = Rpm
<1>1. Rpm \in Nat \ {0} /\ Reserve \in Nat
  BY LimitAssumption
<1>2. DocumentLimit = IF Rpm - Reserve < 1 THEN 1 ELSE Rpm - Reserve
  BY DEF DocumentLimit, AtLeast
<1>3. DocumentLimit \in Nat \ {0} /\ DocumentLimit <= Rpm
  BY ONLY <1>1, <1>2
<1>4. Slots(c) = IF c \in Ingests /\ quiet < Recent THEN DocumentLimit ELSE Rpm
  BY DEF Slots, DocumentLimit
<1>5. c \in Queries => c \notin Ingests
  BY LimitAssumption
<1> QED
  BY <1>1, <1>3, <1>4, <1>5

\* a call that is let through fits in the window
LEMMA AdmittedFits ==
    ASSUME VoyageInv, NEW c \in Callers, Admit(c)
    PROVE  /\ CallsOK(calls') /\ Len(calls') = Len(calls) + 1 /\ WithinLimits'
           /\ \A i \in 1 .. Len(calls) : calls'[i] = calls[i]
           /\ calls'[Len(calls) + 1].age = 0 /\ calls'[Len(calls) + 1].query = (c \in Queries)
           /\ Len(calls) < Slots(c)
<1> DEFINE e == [age |-> 0, tokens |-> caller[c].tokens, query |-> c \in Queries]
           N == Len(calls)
<1>1. CallsOK(calls) /\ CallersInv /\ WithinLimits
  BY DEF VoyageInv
<1>2. /\ calls \in Seq(Call) /\ WindowOK(calls) /\ DOMAIN calls = 1 .. N /\ N \in Nat
      /\ \A i \in 1 .. N : calls[i] \in Call
  BY <1>1, CallsAreAWindow DEF CallsOK
<1>3. calls' = Append(calls, e) /\ caller[c].at = "wait" /\ N < Slots(c)
      /\ FitsTokens(c)
  BY DEF Admit, Waits, Admissible
<1>4. caller[c].tokens \in Sizes
  BY <1>1, <1>3, CallerAt
<1>5. Window \in Nat \ {0} /\ Sizes \subseteq Nat
  BY LimitAssumption
<1>6. e \in Call
  BY <1>4, <1>5 DEF Call
<1>7. e.age = 0 /\ e.tokens = caller[c].tokens /\ e.query = (c \in Queries)
  OBVIOUS
<1> HIDE DEF e
<1>8. calls' \in Seq(Call) /\ Len(calls') = N + 1
  BY <1>2, <1>3, <1>6
<1>9. (\A i \in 1 .. N : calls'[i] = calls[i]) /\ calls'[N + 1] = e
  BY <1>2, <1>3, <1>6
<1> HIDE DEF N
<1>10. OldestFirst(calls')
  <2> SUFFICES ASSUME NEW i \in 1 .. (N + 1), NEW j \in 1 .. (N + 1), i <= j PROVE calls'[j].age <= calls'[i].age
    BY <1>8, LenProperties DEF OldestFirst
  <2>1. CASE j \in 1 .. N
    <3>1. i \in 1 .. N
      BY <2>1, <1>2
    <3> QED
      BY <3>1, <2>1, <1>1, <1>2, <1>9 DEF CallsOK, OldestFirst
  <2>2. CASE j \notin 1 .. N
    <3>1. j = N + 1
      BY <2>2, <1>2
    <3>2. calls'[j].age = 0
      BY <3>1, <1>7, <1>9
    <3>3. calls'[i] \in Call
      BY <1>8, ElementOfSeq
    <3>4. calls'[i].age \in Nat
      BY <3>3 DEF Call
    <3> QED
      BY ONLY <3>2, <3>4
  <2> QED
    BY <2>1, <2>2
<1>11. CallsOK(calls')
  BY <1>8, <1>10 DEF CallsOK
<1>12. WindowOK(calls')
  BY <1>11, CallsAreAWindow
<1>13. TokensOf(calls') = TokensOf(calls) + caller[c].tokens
  <2>1. \A i \in 1 .. N : calls'[i].tokens = calls[i].tokens
    BY <1>9
  <2>2. calls'[Len(calls')].tokens = caller[c].tokens
    BY <1>7, <1>8, <1>9
  <2>3. Len(calls') = Len(calls) + 1
    BY <1>8 DEF N
  <2>4. TokensOf(calls') = TokensOf(calls) + calls'[Len(calls')].tokens
    BY <2>1, <2>3, <1>2, <1>12, TokensOfOneMore DEF N
  <2> QED
    BY <2>2, <2>4
<1>14. WithinLimits'
  <2>1. UsedTokens = TokensOf(calls) /\ UsedTokens' = TokensOf(calls')
    BY DEF UsedTokens, TokensOf
  <2>2. N + 1 <= Rpm
    BY <1>2, <1>3, SlotsAre, LimitAssumption
  <2>3. TokensOf(calls') <= Tpm \/ N = 0
    <3>1. CASE UsedTokens + caller[c].tokens <= Tpm
      BY <3>1, <2>1, <1>13
    <3>2. CASE calls = <<>>
      BY <3>2 DEF N
    <3> QED
      BY <3>1, <3>2, <1>3 DEF FitsTokens
  <2>4. Len(calls') <= Rpm /\ (TokensOf(calls') <= Tpm \/ Len(calls') = 1)
    BY <2>2, <2>3, <1>8
  <2>5. WithinLimits' = (Len(calls') <= Rpm /\ (UsedTokens' <= Tpm \/ Len(calls') = 1))
    BY DEF WithinLimits
  <2> QED
    BY <2>1, <2>4, <2>5
<1> QED
  BY <1>3, <1>7, <1>8, <1>9, <1>11, <1>14 DEF N

LEMMA AdmitKeeps ==
    ASSUME VoyageInv, NEW c \in Callers, Admit(c)
    PROVE  VoyageInv'
<1> DEFINE N == Len(calls)
           D == Documents(calls, active)
           E == Documents(calls', active)
<1>1. CallsOK(calls) /\ CallersInv /\ CountersInv /\ RoomInv /\ HeldUpInv
  BY DEF VoyageInv
<1>2. /\ CallsOK(calls') /\ Len(calls') = N + 1 /\ WithinLimits'
      /\ \A i \in 1 .. N : calls'[i] = calls[i]
      /\ calls'[N + 1].age = 0 /\ calls'[N + 1].query = (c \in Queries)
      /\ N < Slots(c)
  BY AdmittedFits
<1>3. N \in Nat /\ DOMAIN calls = 1 .. N /\ DOMAIN calls' = 1 .. (N + 1)
  BY <1>1, <1>2, CallsAreAWindow
<1>4. /\ caller[c].at = "wait" /\ caller' = [caller EXCEPT ![c].at = "call"] /\ Leave(c)
      /\ quiet' = (IF c \in Queries THEN 0 ELSE quiet) /\ stall' = (IF c \in Queries THEN 0 ELSE stall)
      /\ blocked' = blocked /\ active' = active
  BY DEF Admit, Waits
<1>5. CallersInv' /\ (c \notin Queries => Waiting' = Waiting)
  BY <1>1, <1>4, LeaveCounts
<1>6. Window \in Nat \ {0} /\ Recent \in Nat \ {0} /\ (c \in Queries \/ c \in Ingests)
  BY LimitAssumption DEF Callers
<1>7. CountersInv'
  BY <1>1, <1>4, <1>6 DEF CountersInv
<1>8. RoomInv'
  <2>0. quiet' = Recent => active' = 0
    BY <1>1, <1>4, <1>6 DEF RoomInv
  <2>1. /\ DocumentLimit \in Nat \ {0} /\ Slots(c) \in Nat
        /\ (c \in Ingests /\ quiet < Recent => Slots(c) = DocumentLimit)
    BY SlotsAre
  <2>2. CASE c \in Queries
    <3>0. calls'[N + 1].query
      BY <2>2, <1>2
    <3>1. ASSUME NEW i \in E PROVE i \in D
      <4>1. i \in 1 .. (N + 1) /\ ~calls'[i].query /\ calls'[i].age < active
        BY <1>3 DEF Documents
      <4>2. i # N + 1
        BY <4>1, <3>0
      <4>3. i \in 1 .. N
        BY <4>1, <4>2, <1>3
      <4> QED
        BY <4>1, <4>3, <1>2, <1>3 DEF Documents
    <3>2. IsFiniteSet(D)
      BY <1>1, DocumentsAreFinite
    <3>3. Cardinality(E) <= Cardinality(D) /\ Cardinality(E) \in Nat /\ Cardinality(D) \in Nat
      BY <3>1, <3>2, <1>1, <1>2, FS_Subset, DocumentsAreFinite
    <3>4. Cardinality(D) <= DocumentLimit
      BY <1>1 DEF RoomInv
    <3>5. Cardinality(E) <= DocumentLimit
      BY ONLY <3>3, <3>4, <2>1
    <3> QED
      BY <3>5, <2>0, <1>4 DEF RoomInv, DocumentLimit
  <2>3. CASE c \notin Queries /\ quiet < Recent
    <3>1. Cardinality(E) \in Nat /\ Cardinality(E) <= Len(calls')
      BY <1>2, DocumentsAreFinite
    <3>2. N < DocumentLimit
      BY <2>1, <2>3, <1>2, <1>6
    <3>3. Cardinality(E) <= DocumentLimit
      BY ONLY <3>1, <3>2, <2>1, <1>2, <1>3
    <3> QED
      BY <3>3, <2>0, <1>4 DEF RoomInv, DocumentLimit
  <2>4. CASE c \notin Queries /\ ~(quiet < Recent)
    <3>1. quiet = Recent /\ active = 0
      BY <2>4, <1>1, <1>6 DEF CountersInv, RoomInv
    <3>2. \A i \in 1 .. (N + 1) : calls'[i].age \in Nat
      BY <1>2, CallsAreAWindow DEF Call
    <3>3. E = {}
      BY <3>1, <3>2, <1>3 DEF Documents
    <3>4. Cardinality(E) <= DocumentLimit
      BY <3>3, <2>1, FS_EmptySet
    <3> QED
      BY <3>4, <2>0, <1>4 DEF RoomInv, DocumentLimit
  <2> QED
    BY <2>2, <2>3, <2>4
<1>9. HeldUpInv'
  <2>1. CASE c \in Queries
    BY <2>1, <1>4 DEF HeldUpInv
  <2>2. CASE c \notin Queries
    \* while a question waits, no document is let through
    <3>1. waiting = 0
      BY <2>2, <1>6 DEF Admit, Admissible
    <3>2. Waiting = {}
      BY <3>1, <1>1, WaitingIsFinite, FS_EmptySet DEF CallersInv
    <3>3. ~(stall > 0) /\ stall' = stall
      BY <3>2, <2>2, <1>1, <1>4 DEF HeldUpInv
    <3> QED
      BY <3>3 DEF HeldUpInv
  <2> QED
    BY <2>1, <2>2
<1> QED
  BY <1>2, <1>5, <1>7, <1>8, <1>9 DEF VoyageInv

\* a question that waits while nothing is paused waits for calls in the window
LEMMA QuestionsWaitForCalls ==
    ASSUME VoyageInv, Tick, Waiting # {}, ~(blocked > 0)
    PROVE  calls # <<>>
<1>1. PICK q \in Queries : caller[q].at = "wait"
  BY DEF Waiting
<1>2. q \in Callers /\ q \notin Ingests
  BY LimitAssumption DEF Callers
<1>3. ~Admissible(q)
  BY <1>1, <1>2 DEF Tick, Waits
<1>4. blocked = 0
  BY LimitAssumption DEF VoyageInv, CountersInv
<1>5. Slots(q) = Rpm
  BY <1>2, SlotsAre
<1>6. ~(Len(calls) < Rpm) \/ ~FitsTokens(q)
  BY <1>2, <1>3, <1>4, <1>5 DEF Admissible
<1>7. Rpm \in Nat \ {0}
  BY LimitAssumption
<1> QED
  BY <1>6, <1>7 DEF FitsTokens

LEMMA TickKeeps ==
    ASSUME VoyageInv, Tick
    PROVE  VoyageInv'
<1>1. CallsOK(calls) /\ CallersInv /\ CountersInv /\ RoomInv /\ HeldUpInv /\ WithinLimits
  BY DEF VoyageInv
<1>2. calls' = Prune(Aged(calls)) /\ caller' = caller /\ waiting' = waiting
  BY DEF Tick, Aged
<1>3. PICK k \in 0 .. Len(calls) :
        /\ CallsOK(calls') /\ Len(calls') + k = Len(calls)
        /\ \A i \in 1 .. Len(calls') : calls'[i] = [calls[i + k] EXCEPT !.age = calls[i + k].age + 1]
  BY <1>1, <1>2, PruneKeepsTheYoung
<1> DEFINE N == Len(calls)
           M == Len(calls')
<1>4. /\ N \in Nat /\ M \in Nat /\ WindowOK(calls) /\ WindowOK(calls') /\ k \in Nat
      /\ DOMAIN calls = 1 .. N /\ DOMAIN calls' = 1 .. M
      /\ \A i \in 1 .. N : calls[i] \in Call
  BY <1>1, <1>3, CallsAreAWindow
<1>5. \A i \in 1 .. M : /\ i + k \in 1 .. N /\ calls'[i].tokens = calls[i + k].tokens
                        /\ calls'[i].age = calls[i + k].age + 1
  <2> TAKE i \in 1 .. M
  <2>1. i + k \in 1 .. N
    BY <1>3, <1>4
  <2>2. calls'[i] = [calls[i + k] EXCEPT !.age = calls[i + k].age + 1] /\ calls[i + k] \in Call
    BY <2>1, <1>3, <1>4
  <2> QED
    BY ONLY <2>1, <2>2 DEF Call
<1>6. Window \in Nat \ {0} /\ Recent \in Nat \ {0} /\ Rpm \in Nat \ {0} /\ Attempts \in Nat
  BY LimitAssumption
<1>u. Tpm \in Nat
  BY LimitAssumption
<1>7. WithinLimits'
  <2>1. UsedTokens = TokensOf(calls) /\ UsedTokens' = TokensOf(calls')
    BY DEF UsedTokens, TokensOf
  <2>2. TokensOf(calls') \in Nat /\ TokensOf(calls') <= TokensOf(calls)
    BY <1>3, <1>4, <1>5, TokensOfRest
  <2>3. N <= Rpm /\ (TokensOf(calls) <= Tpm \/ N = 1)
    BY <1>1, <2>1 DEF WithinLimits
  <2>4. M <= Rpm
    BY ONLY <2>3, <1>3, <1>4, <1>6
  <2>5. TokensOf(calls) \in Nat
    BY <1>4, TokensAreNat
  <2>6. TokensOf(calls') <= Tpm \/ M = 1
    <3>1. CASE TokensOf(calls) <= Tpm
      BY ONLY <3>1, <2>2, <2>5, <1>u
    <3>2. CASE N = 1 /\ M = 0
      <4>1. calls' = <<>>
        BY <3>2, <1>3, EmptySeq DEF CallsOK
      <4> QED
        BY <4>1, TokensOfNone, <1>u
    <3>3. CASE N = 1 /\ M # 0
      BY ONLY <3>3, <1>3, <1>4
    <3> QED
      BY <2>3, <3>1, <3>2, <3>3
  <2>7. WithinLimits' = (M <= Rpm /\ (UsedTokens' <= Tpm \/ M = 1))
    BY DEF WithinLimits
  <2> QED
    BY <2>1, <2>4, <2>6, <2>7
<1>8. CallersInv' /\ Waiting' = Waiting
  BY <1>1, <1>2 DEF CallersInv, Waiting
<1>9. /\ quiet' = (IF quiet + 1 > Recent THEN Recent ELSE quiet + 1)
      /\ blocked' = (IF blocked - 1 < 0 THEN 0 ELSE blocked - 1)
      /\ active' = (IF quiet + 1 < Recent THEN IF active + 1 > Window THEN Window ELSE active + 1 ELSE 0)
  BY DEF Tick, AtMost, AtLeast
<1>10. /\ quiet \in 0 .. Recent /\ blocked \in 0 .. Attempts /\ active \in 0 .. Window /\ stall \in 0 .. Window
  BY <1>1 DEF CountersInv
<1>11. /\ quiet' \in 0 .. Recent /\ blocked' \in 0 .. Attempts /\ active' \in 0 .. Window
       /\ (quiet' = Recent => active' = 0) /\ active' <= active + 1
  BY ONLY <1>6, <1>9, <1>10
<1>12. RoomInv'
  <2>0. active \in Nat /\ active' \in Nat
    BY <1>6, <1>10, <1>11
  <2>1. Cardinality(Documents(calls', active')) <= Cardinality(Documents(calls, active))
    BY <2>0, <1>1, <1>3, <1>4, <1>11, DocumentsOfRest
  <2>2. /\ Cardinality(Documents(calls', active')) \in Nat
        /\ Cardinality(Documents(calls, active)) \in Nat
    BY <1>1, <1>3, DocumentsAreFinite
  <2>3. Cardinality(Documents(calls, active)) <= DocumentLimit
    BY <1>1 DEF RoomInv
  <2>4. DocumentLimit \in Nat
    BY <1>6, LimitAssumption DEF DocumentLimit, AtLeast
  <2>5. Cardinality(Documents(calls', active')) <= DocumentLimit
    BY ONLY <2>1, <2>2, <2>3, <2>4
  <2> QED
    BY <2>5, <1>11 DEF RoomInv, DocumentLimit
<1>13. stall' = IF Waiting = {} THEN 0
                ELSE IF blocked > 0 THEN stall
                ELSE IF stall + 1 > Window + 1 THEN Window + 1 ELSE stall + 1
  BY DEF Tick, AtMost, Waits, Waiting
<1>14. ASSUME stall > 0 PROVE \A i \in 1 .. M : stall + 1 <= calls'[i].age
  <2> TAKE i \in 1 .. M
  <2>1. i + k \in 1 .. N /\ calls'[i].age = calls[i + k].age + 1
    BY <1>5
  <2>2. stall <= calls[i + k].age
    BY <2>1, <1>1, <1>4, <1>14 DEF HeldUpInv
  <2>3. calls[i + k].age \in Nat
    BY <2>1, <1>4 DEF Call
  <2> QED
    BY ONLY <2>1, <2>2, <2>3, <1>10
<1>15. \A i \in 1 .. M : calls'[i].age \in Nat /\ 1 <= calls'[i].age
  <2> TAKE i \in 1 .. M
  <2>1. i + k \in 1 .. N /\ calls'[i].age = calls[i + k].age + 1
    BY <1>5
  <2>2. calls[i + k].age \in Nat
    BY <2>1, <1>4 DEF Call
  <2> QED
    BY ONLY <2>1, <2>2
<1>16. CASE Waiting = {}
  <2>1. stall' = 0
    BY <1>13, <1>16
  <2>2. CountersInv' /\ HeldUpInv'
    BY <2>1, <1>6, <1>11 DEF CountersInv, HeldUpInv
  <2> QED
    BY <2>2, <1>3, <1>7, <1>8, <1>12 DEF VoyageInv
<1>17. CASE Waiting # {} /\ blocked > 0
  <2>1. stall' = stall
    BY <1>13, <1>17
  <2>2. stall > 0 => \A i \in 1 .. M : stall <= calls'[i].age
    BY <1>10, <1>14, <1>15
  <2>3. CountersInv' /\ HeldUpInv'
    BY <2>1, <2>2, <1>4, <1>8, <1>10, <1>11, <1>17 DEF CountersInv, HeldUpInv
  <2> QED
    BY <2>3, <1>3, <1>7, <1>8, <1>12 DEF VoyageInv
<1>18. CASE Waiting # {} /\ ~(blocked > 0)
  <2>1. N # 0
    BY <1>18, <1>1, QuestionsWaitForCalls, EmptySeq DEF CallsOK
  <2>2. 1 \in 1 .. N
    BY <2>1, <1>4
  <2>3. calls[1].age \in 0 .. Window - 1
    BY <2>2, <1>4 DEF Call
  <2>4. stall > 0 => stall <= calls[1].age
    BY <2>2, <1>1, <1>4 DEF HeldUpInv
  <2>5. stall + 1 <= Window
    BY ONLY <2>3, <2>4, <1>6, <1>10
  <2>6. stall' = stall + 1
    BY <2>5, <1>6, <1>10, <1>13, <1>18
  <2>7. \A i \in 1 .. M : stall' <= calls'[i].age
    <3>1. CASE stall > 0
      BY <3>1, <2>6, <1>14
    <3>2. CASE stall = 0
      BY <3>2, <2>6, <1>15
    <3> QED
      BY <3>1, <3>2, <1>10
  <2>8. stall' \in 0 .. Window
    BY <2>5, <2>6, <1>10, <1>6
  <2>9. CountersInv' /\ HeldUpInv'
    BY <2>7, <2>8, <1>4, <1>8, <1>11, <1>18 DEF CountersInv, HeldUpInv
  <2> QED
    BY <2>9, <1>3, <1>7, <1>8, <1>12 DEF VoyageInv
<1> QED
  BY <1>16, <1>17, <1>18

LEMMA InitVoyage ==
    ASSUME BudgetInit
    PROVE  VoyageInv
<1>0. /\ Window \in Nat \ {0} /\ Recent \in Nat \ {0} /\ Rpm \in Nat \ {0} /\ Attempts \in Nat \ {0}
      /\ Tpm \in Nat /\ Sizes \subseteq Nat \ {0} /\ Reserve \in Nat
  BY LimitAssumption
<1>1. /\ calls = <<>> /\ caller = [c \in Callers |-> Idle] /\ waiting = 0
      /\ quiet = Recent /\ blocked = 0 /\ active = 0 /\ stall = 0
  BY DEF BudgetInit
<1>2. Len(calls) = 0 /\ DOMAIN calls = {} /\ calls \in Seq(Call)
  BY <1>1
<1>3. CallsOK(calls)
  BY <1>2 DEF CallsOK, OldestFirst
<1>4. WithinLimits
  <2>1. UsedTokens = TokensOf(calls)
    BY DEF UsedTokens, TokensOf
  <2> QED
    BY <2>1, <1>0, <1>1, <1>2, TokensOfNone DEF WithinLimits
<1>5. CallersInv
  <2>1. caller \in [Callers -> CallerOK] /\ \A c \in Callers : caller[c].at = "idle"
    BY <1>1, IdleOK
  <2>2. Waiting = {}
    BY <2>1 DEF Waiting, Callers
  <2> QED
    BY <2>1, <2>2, <1>1, FS_EmptySet DEF CallersInv
<1>6. CountersInv
  BY <1>0, <1>1 DEF CountersInv
<1>7. RoomInv
  <2>1. Documents(calls, active) = {}
    BY <1>2 DEF Documents
  <2>2. DocumentLimit >= 0
    BY <1>0 DEF DocumentLimit, AtLeast
  <2> QED
    BY <2>1, <2>2, <1>1, FS_EmptySet DEF RoomInv
<1>8. HeldUpInv
  BY <1>1 DEF HeldUpInv
<1> QED
  BY <1>3, <1>4, <1>5, <1>6, <1>7, <1>8 DEF VoyageInv

LEMMA VoyageStep ==
    ASSUME VoyageInv, [BudgetNext]_budgetVars
    PROVE  VoyageInv'
<1>1. CASE \E c \in Callers, size \in Sizes : BeginQuery(c, size) \/ BeginBatch(c, size)
  BY <1>1, BeginKeeps DEF BeginQuery, BeginBatch
<1>2. CASE \E c \in Callers : Admit(c)
  BY <1>2, AdmitKeeps
<1>3. CASE \E c \in Callers : Return(c)
  BY <1>3, ReturnKeeps
<1>4. CASE \E c \in Callers : Wake(c)
  BY <1>4, WakeKeeps
<1>5. CASE \E c \in Callers : RateLimited(c)
  BY <1>5, RateLimitedKeeps
<1>6. CASE \E c \in Callers : Transient(c)
  BY <1>6, TransientKeeps
<1>7. CASE Tick
  BY <1>7, TickKeeps
<1>8. CASE UNCHANGED budgetVars
  <2>1. UNCHANGED <<calls, caller, waiting, quiet, blocked, active, stall>>
    BY <1>8 DEF budgetVars
  <2>2. CallersInv' /\ Waiting' = Waiting /\ blocked' \in 0 .. Attempts
    BY <2>1 DEF VoyageInv, CallersInv, Waiting, CountersInv
  <2> QED
    BY <2>1, <2>2, WindowAlone
<1> QED
  BY <1>1, <1>2, <1>3, <1>4, <1>5, <1>6, <1>7, <1>8 DEF BudgetNext, Step

LEMMA VoyageInvariant == BudgetSpec => []VoyageInv
<1>1. BudgetInit => VoyageInv
  BY InitVoyage
<1>2. VoyageInv /\ [BudgetNext]_budgetVars => VoyageInv'
  BY VoyageStep
<1> QED
  BY <1>1, <1>2, PTL DEF BudgetSpec

\* The window never holds more requests or more tokens than the limits, but for a call that is
\* larger than the window by itself (_admissible: what is checked when a call is let through is
\* still so when older calls have left).
THEOREM WindowWithinLimits == BudgetSpec => []WithinLimits
<1>1. VoyageInv => WithinLimits
  BY DEF VoyageInv
<1> QED
  BY <1>1, VoyageInvariant, PTL

\* While questions wait, one gets through within a window of time (acquire: no document is let
\* through before it, so that the window runs empty for it).
THEOREM QuestionsAreNotHeldUp == BudgetSpec => []QuestionsMoveOn
<1>1. VoyageInv => QuestionsMoveOn
  BY LimitAssumption DEF VoyageInv, CountersInv, QuestionsMoveOn
<1> QED
  BY <1>1, VoyageInvariant, PTL

\* Once a chat has been active for a whole window, documents fill at most what is not reserved
\* for it (_admissible, slots).
THEOREM ReserveIsKept == BudgetSpec => []ChatKeepsRoom
<1>1. VoyageInv => ChatKeepsRoom
  <2> SUFFICES ASSUME VoyageInv, active = Window
               PROVE  Cardinality({i \in DOMAIN calls : ~calls[i].query}) <= DocumentLimit
    BY DEF ChatKeepsRoom, DocumentLimit
  <2>1. CallsOK(calls) /\ RoomInv
    BY DEF VoyageInv
  <2>2. \A i \in DOMAIN calls : calls[i].age < Window
    <3> TAKE i \in DOMAIN calls
    <3>1. calls[i] \in Call
      BY <2>1, CallsAreAWindow
    <3>2. Window \in Nat \ {0}
      BY LimitAssumption
    <3> QED
      BY ONLY <3>1, <3>2 DEF Call
  <2>3. Documents(calls, active) = {i \in DOMAIN calls : ~calls[i].query}
    BY <2>2 DEF Documents
  <2> QED
    BY <2>1, <2>3 DEF RoomInv
<1> QED
  BY <1>1, VoyageInvariant, PTL

\* The window holds calls of its last ticks, and the callers are counted.
THEOREM VoyageTypes == BudgetSpec => []BudgetTypeOK
<1>1. VoyageInv => BudgetTypeOK
  <2> SUFFICES ASSUME VoyageInv PROVE BudgetTypeOK
    OBVIOUS
  <2>1. CallsOK(calls) /\ CallersInv /\ CountersInv
    BY DEF VoyageInv
  <2>2. \A i \in DOMAIN calls : calls[i] \in Call
    BY <2>1, CallsAreAWindow
  <2>3. waiting \in 0 .. Cardinality(Queries)
    <3>1. Cardinality(Queries) \in Nat
      BY FS_CardinalityType, LimitAssumption
    <3>2. waiting \in Nat /\ waiting <= Cardinality(Queries)
      BY <2>1, WaitingIsFinite DEF CallersInv
    <3> QED
      BY <3>1, <3>2
  <2>4. stall \in 0 .. Window + 1
    BY <2>1, LimitAssumption DEF CountersInv
  <2> QED
    BY <2>1, <2>2, <2>3, <2>4 DEF BudgetTypeOK, Call, CallersInv, CallerOK, CountersInv
<1> QED
  BY <1>1, VoyageInvariant, PTL
=============================================================================
