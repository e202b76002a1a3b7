---------------------------- MODULE RagCacheProofs ----------------------------
(***************************************************************************)
(* Proofs about the requirements of a BRD.  First Requirements and RagCache, *)
(* for any clients, readers, texts and bounds: the vectors and the ids of    *)
(* requirements through edits and restores, what an approval is worth,       *)
(* change sets, and what the caches serve.  Then RevisionReview, for any     *)
(* texts, candidates and uploaded files: what a comparison of a revision     *)
(* with the live requirements says, and what an apply makes of it.  The      *)
(* operations of a change set, the rows of a snapshot and the rows an apply  *)
(* keeps are carried out by recursion; what holds of every value on the way  *)
(* is shown with the set of the numbers it holds for.                        *)
(***************************************************************************)
EXTENDS RagCache, RevisionReview, FiniteSetTheorems, SequenceTheorems, WellFoundedInduction, TLAPS

-----------------------------------------------------------------------------
(* Induction, as statements about sets of numbers, and recursion.            *)

Before == {s \in Nat \X Nat : s[1] < s[2]}

LEMMA LeastNumber ==
    ASSUME NEW S \in SUBSET Nat, S # {}
    PROVE  \E m \in S : \A k \in S : m <= k
<1>1. IsWellFoundedOn(Before, Nat)
  BY NatLessThanWellFounded DEF OpToRel, Before
<1>2. PICK m \in S : \A k \in S : <<k, m>> \notin Before
  BY <1>1, WFMin
<1>3. \A a, b \in Nat : <<a, b>> \in Before <=> a < b
  BY DEF Before
<1>4. \A k \in S : m <= k
  <2> TAKE k \in S
  <2>1. m \in Nat /\ k \in Nat /\ ~(k < m)
    BY <1>2, <1>3
  <2> QED
    BY <2>1
<1> QED
  BY <1>4

LEMMA Induction ==
    ASSUME NEW S, 0 \in S, \A n \in Nat : n \in S => n + 1 \in S
    PROVE  Nat \subseteq S
<1> SUFFICES ASSUME Nat \ S # {} PROVE FALSE
  OBVIOUS
<1>1. PICK m \in Nat \ S : \A k \in Nat \ S : m <= k
  BY LeastNumber
<1>2. m - 1 \in Nat /\ m - 1 \in S
  BY <1>1
<1> QED
  BY <1>1, <1>2

IsStep(step, X, N) == step \in [X \X (1 .. N) -> X]
\* g holds what comes of first in 0, 1, ... N steps
Iterates(g, X, first, N, step) ==
    /\ g \in [0 .. N -> X] /\ g[0] = first
    /\ \A n \in 1 .. N : g[n] = step[<<g[n - 1], n>>]

LEMMA Recursion ==
    ASSUME NEW X, NEW first \in X, NEW N \in Nat, NEW step, IsStep(step, X, N)
    PROVE  \E g : Iterates(g, X, first, N, step)
<1>0. step \in [X \X (1 .. N) -> X]
  BY DEF IsStep
<1> DEFINE Upto(n, g) == g[0] = first /\ \A k \in 1 .. n : g[k] = step[<<g[k - 1], k>>]
           S == {n \in Nat : n <= N => \E g \in [0 .. n -> X] : Upto(n, g)}
<1>1. 0 \in S
  <2> DEFINE g == [k \in 0 .. 0 |-> first]
  <2>1. g \in [0 .. 0 -> X] /\ Upto(0, g)
    OBVIOUS
  <2> QED
    BY <2>1
<1>2. ASSUME NEW n \in Nat, n \in S PROVE n + 1 \in S
  <2> SUFFICES ASSUME n + 1 <= N PROVE \E h \in [0 .. (n + 1) -> X] : Upto(n + 1, h)
    OBVIOUS
  <2>1. PICK g \in [0 .. n -> X] : Upto(n, g)
    BY <1>2
  <2> DEFINE h == [k \in 0 .. (n + 1) |-> IF k = n + 1 THEN step[<<g[n], n + 1>>] ELSE g[k]]
  <2>2. h \in [0 .. (n + 1) -> X]
    BY <1>0
  <2>3. h[0] = first /\ h[n + 1] = step[<<g[n], n + 1>>] /\ h[n] = g[n]
    BY <2>1
  <2>4. \A k \in 1 .. n : h[k] = step[<<h[k - 1], k>>]
    BY <2>1
  <2> HIDE DEF h
  <2>5. \A k \in 1 .. (n + 1) : h[k] = step[<<h[k - 1], k>>]
    <3> TAKE k \in 1 .. (n + 1)
    <3>1. CASE k \in 1 .. n
      BY <3>1, <2>4
    <3>2. CASE k = n + 1
      <4>1. k - 1 = n
        BY <3>2
      <4> QED
        BY <4>1, <3>2, <2>3
    <3> QED
      BY <3>1, <3>2
  <2>6. Upto(n + 1, h)
    BY <2>3, <2>5
  <2> QED
    BY <2>2, <2>6
<1> HIDE DEF S
<1>3. N \in S
  BY <1>1, <1>2, Induction
<1> QED
  BY <1>3 DEF S, Iterates

-----------------------------------------------------------------------------
(* The invariant.                                                           *)

\* a value that brd may have between the operations of a change set, which may use up more
\* ids than there are: the ids of the document are apart, and the vector of every requirement
\* ever stored is that of its text
Fields == [doc : Seq(Nat), used : Nat, text : [Ids -> Texts \cup {NoText}],
           vec : [Ids -> Texts \cup {NoText}], old : [Ids -> Texts \cup {NoText}]]
IdsOK(doc, used) == /\ \A n \in DOMAIN doc : doc[n] \in 1 .. used
                    /\ \A m, n \in DOMAIN doc : doc[m] = doc[n] => m = n
TextsOK(B) == \A i \in Ids : i <= B.used => B.text[i] \in Texts /\ B.vec[i] = B.text[i]
Values == {B \in Fields : IdsOK(B.doc, B.used) /\ TextsOK(B)}

Row == [id : Ids, text : Texts, vec : Texts]
Matching(rows) == \A n \in DOMAIN rows : rows[n].vec = rows[n].text
Snap == [kind : {"approved", "manual", "auto"}, at : Nat, rows : Seq(Row),
         shown : BOOLEAN]
\* what an operation says, as the pages and the plans make it
Change == {op \in Op : /\ op.kind # "add" => op.id \in Ids
                       /\ op.kind \in {"edit", "add"} => op.text # NoText}
Requests == [step : Steps, ops : Seq(Change), keyed : BOOLEAN, snap : Nat, at : Nat]

BrdOK == brd \in Values /\ brd.used <= IdBound
SnapsOK ==
    /\ snaps \in Seq(Snap) /\ clock \in Nat
    /\ \A s \in DOMAIN snaps : Matching(snaps[s].rows) /\ snaps[s].at <= clock
RequestsOK ==
    /\ req \in [Clients -> Requests]
    /\ \A c \in Clients : req[c].step \in {"approve", "restore"} => req[c].snap \in DOMAIN snaps
    /\ \A c \in Clients : req[c].at <= clock
KeysOK == runs \in Seq(done) /\ AppliedOnce
ReviewOK == review \in {"approved", "draft"} /\ ApprovedIsReviewed /\ DiscardFindsReviewed
\* a row of cache_kv for an answer
IsAnswer(a) == \E row : a \in [row : {row}, project : Scopes, fresh : BOOLEAN]
CachesOK ==
    /\ DOMAIN found = Scopes /\ DOMAIN turn = Readers
    /\ \A a \in answer : IsAnswer(a)
    /\ \A p \in Readers : turn[p].step # "quiet" => turn[p].scope \in Scopes
    /\ owed \in BOOLEAN /\ skipped \in BOOLEAN
    /\ writes \in 0 .. WriteBound /\ asked \in 0 .. AskBound
IInv == BrdOK /\ SnapsOK /\ RequestsOK /\ KeysOK /\ ReviewOK /\ CachesOK /\ ServesCurrent

-----------------------------------------------------------------------------
(* The operations of a change set.                                           *)

\* _insert: all is doc with L new requirements after the first n
Around(all, doc, n, u, L) ==
    /\ all \in Seq(Nat) /\ Len(all) = Len(doc) + L
    /\ \A j \in 1 .. Len(all) :
          all[j] = IF j <= n THEN doc[j] ELSE IF j <= n + L THEN u + (j - n) ELSE doc[j - L]

LEMMA InsertedDoc ==
    ASSUME NEW doc \in Seq(Nat), NEW u \in Nat, NEW n \in 0 .. Len(doc), NEW L \in Nat,
           NEW new, new = [k \in 1 .. L |-> u + k],
           NEW all, all = SubSeq(doc, 1, n) \o new \o SubSeq(doc, n + 1, Len(doc))
    PROVE  Around(all, doc, n, u, L)
<1>1. new \in Seq(Nat) /\ Len(new) = L /\ Len(doc) \in Nat
  OBVIOUS
<1> DEFINE head == SubSeq(doc, 1, n)
           tail == SubSeq(doc, n + 1, Len(doc))
           front == head \o new
<1>2. head \in Seq(Nat) /\ Len(head) = n /\ \A j \in 1 .. n : head[j] = doc[j]
  OBVIOUS
<1>3. tail \in Seq(Nat) /\ Len(tail) = Len(doc) - n /\ \A j \in 1 .. (Len(doc) - n) : tail[j] = doc[n + j]
  OBVIOUS
<1> HIDE DEF head, tail
<1>4. /\ front \in Seq(Nat) /\ Len(front) = n + L
      /\ \A j \in 1 .. (n + L) : front[j] = IF j <= n THEN head[j] ELSE new[j - n]
  BY <1>1, <1>2, ConcatProperties
<1>5. \A j \in 1 .. (n + L) : front[j] = IF j <= n THEN doc[j] ELSE u + (j - n)
  <2> TAKE j \in 1 .. (n + L)
  <2>1. CASE j <= n
    BY <2>1, <1>2, <1>4
  <2>2. CASE ~(j <= n)
    <3>1. j - n \in 1 .. L
      BY <2>2
    <3> QED
      BY <3>1, <2>2, <1>4
  <2> QED
    BY <2>1, <2>2
<1> HIDE DEF front
<1>6. all = front \o tail
  BY DEF front, head, tail
<1>7. /\ all \in Seq(Nat) /\ Len(all) = Len(front) + Len(tail)
      /\ \A j \in 1 .. (Len(front) + Len(tail)) :
            all[j] = IF j <= Len(front) THEN front[j] ELSE tail[j - Len(front)]
  <2>1. front \in Seq(Nat) /\ tail \in Seq(Nat)
    BY <1>3, <1>4
  <2> QED
    BY ONLY <2>1, <1>6, ConcatProperties
<1>8. Len(all) = Len(doc) + L /\ Len(front) + Len(tail) = Len(doc) + L
  <2>1. /\ Len(front) = n + L /\ Len(tail) = Len(doc) - n /\ Len(all) = Len(front) + Len(tail)
    BY <1>3, <1>4, <1>7
  <2>2. n \in Int /\ L \in Int /\ Len(doc) \in Int
    BY <1>1
  <2> QED
    BY ONLY <2>1, <2>2
<1>9. ASSUME NEW j \in 1 .. Len(all), ~(j <= n + L)
      PROVE  all[j] = doc[j - L]
  <2>1. j \in 1 .. (Len(doc) + L)
    BY <1>8
  <2>2. j - (n + L) \in 1 .. (Len(doc) - n) /\ n + (j - (n + L)) = j - L
    BY <2>1, <1>1, <1>9
  <2> QED
    BY <2>1, <2>2, <1>3, <1>4, <1>7, <1>8, <1>9
<1>10. ASSUME NEW j \in 1 .. Len(all), j <= n + L
       PROVE  all[j] = IF j <= n THEN doc[j] ELSE u + (j - n)
  <2>1. j \in 1 .. (Len(doc) + L)
    BY <1>8
  <2>2. j \in 1 .. (n + L) /\ j \in 1 .. (Len(front) + Len(tail)) /\ j <= Len(front)
    BY <2>1, <1>1, <1>4, <1>8, <1>10
  <2> QED
    BY <2>2, <1>5, <1>7
<1>11. ASSUME NEW j \in 1 .. Len(all)
       PROVE  all[j] = IF j <= n THEN doc[j] ELSE IF j <= n + L THEN u + (j - n) ELSE doc[j - L]
  <2>1. j \in Int /\ (j <= n => j <= n + L)
    OBVIOUS
  <2> QED
    BY <2>1, <1>9, <1>10
<1> QED
  BY <1>7, <1>8, <1>11 DEF Around

\* the ids stay apart: the new ones are above the old
LEMMA InsertedApart ==
    ASSUME NEW doc \in Seq(Nat), NEW u \in Nat, NEW n \in 0 .. Len(doc), NEW L \in Nat, NEW all,
           IdsOK(doc, u), Around(all, doc, n, u, L)
    PROVE  IdsOK(all, u + L)
<1> DEFINE D == Len(doc)
<1>a. D \in Nat /\ DOMAIN doc = 1 .. D /\ DOMAIN all = 1 .. (D + L) /\ Len(all) = D + L
  BY DEF Around
<1>b. /\ \A j \in 1 .. D : doc[j] \in 1 .. u
      /\ \A i, j \in 1 .. D : doc[i] = doc[j] => i = j
  BY <1>a DEF IdsOK
<1>c. \A j \in 1 .. (D + L) :
         all[j] = IF j <= n THEN doc[j] ELSE IF j <= n + L THEN u + (j - n) ELSE doc[j - L]
  BY <1>a DEF Around
<1>d. n \in 0 .. D
  OBVIOUS
<1> HIDE DEF D
<1> DEFINE From(j) == IF j <= n THEN j ELSE j - L
           Old(j) == j <= n \/ j > n + L
<1>1. \A j \in 1 .. (D + L) : Old(j) => From(j) \in 1 .. D /\ all[j] = doc[From(j)]
  BY <1>a, <1>c, <1>d
<1>2. \A j \in 1 .. (D + L) : Old(j) => all[j] \in 1 .. u
  BY <1>1, <1>b
<1>3. \A j \in 1 .. (D + L) : ~Old(j) => all[j] = u + (j - n)
  BY <1>a, <1>c, <1>d
<1>4. \A i, j \in 1 .. (D + L) : Old(i) /\ Old(j) /\ From(i) = From(j) => i = j
  BY <1>a, <1>d
<1>5. ASSUME NEW i \in 1 .. (D + L), NEW j \in 1 .. (D + L), all[i] = all[j]
      PROVE  i = j
  <2>1. CASE Old(i) /\ Old(j)
    BY <2>1, <1>1, <1>4, <1>5, <1>b
  <2>2. CASE ~Old(i) /\ ~Old(j)
    <3>1. u + (i - n) = u + (j - n)
      BY <2>2, <1>3, <1>5
    <3> QED
      BY <3>1, <1>a, <1>d
  <2>3. CASE Old(i) /\ ~Old(j)
    <3>1. all[i] \in 1 .. u /\ all[j] > u
      BY <2>3, <1>2, <1>3, <1>a, <1>d
    <3> QED
      BY <3>1, <1>5
  <2>4. CASE ~Old(i) /\ Old(j)
    <3>1. all[j] \in 1 .. u /\ all[i] > u
      BY <2>4, <1>2, <1>3, <1>a, <1>d
    <3> QED
      BY <3>1, <1>5
  <2> QED
    BY <2>1, <2>2, <2>3, <2>4
<1>6. \A j \in 1 .. (D + L) : all[j] \in 1 .. (u + L)
  BY <1>2, <1>3, <1>a, <1>d
<1> QED
  BY <1>5, <1>6, <1>a DEF IdsOK

LEMMA InsertedOK ==
    ASSUME NEW B \in Values, NEW n \in 0 .. Len(B.doc), NEW ts \in Seq(Texts)
    PROVE  Inserted(B, n, ts) \in Values
<1> DEFINE L == Len(ts)
           new == [k \in 1 .. L |-> B.used + k]
           all == SubSeq(B.doc, 1, n) \o new \o SubSeq(B.doc, n + 1, Len(B.doc))
           Filled(f) == [i \in Ids |-> IF i \in Elements(new) THEN ts[i - B.used] ELSE f[i]]
           C == Inserted(B, n, ts)
<1>1. B \in Fields /\ IdsOK(B.doc, B.used) /\ TextsOK(B) /\ L \in Nat /\ DOMAIN ts = 1 .. L
  BY DEF Values
<1>2. C = [B EXCEPT !.doc = all, !.used = B.used + L, !.text = Filled(B.text), !.vec = Filled(B.vec)]
  BY <1>1 DEF Inserted, Fields
<1>3. \A i : i \in Elements(new) <=> i \in (B.used + 1) .. (B.used + L)
  <2>1. ASSUME NEW i \in (B.used + 1) .. (B.used + L) PROVE i \in Elements(new)
    <3>1. B.used \in Nat
      BY <1>1 DEF Fields
    <3>2. i - B.used \in 1 .. L /\ new[i - B.used] = i
      BY <3>1, <1>1
    <3> QED
      BY <3>2 DEF Elements
  <2>2. ASSUME NEW i \in Elements(new) PROVE i \in (B.used + 1) .. (B.used + L)
    BY <1>1 DEF Elements, Fields
  <2> QED
    BY <2>1, <2>2
<1>4. Around(all, B.doc, n, B.used, L)
  <2>1. B.doc \in Seq(Nat) /\ B.used \in Nat
    BY <1>1 DEF Fields
  <2>2. new = [k \in 1 .. L |-> B.used + k]
    BY <1>1
  <2> HIDE DEF L, new
  <2> QED
    BY <2>1, <2>2, <1>1, InsertedDoc
<1> HIDE DEF all, new, L
<1>5. \A f \in [Ids -> Texts \cup {NoText}] : Filled(f) \in [Ids -> Texts \cup {NoText}]
  <2> TAKE f \in [Ids -> Texts \cup {NoText}]
  <2>1. ASSUME NEW i \in Ids, i \in Elements(new) PROVE ts[i - B.used] \in Texts
    <3>1. i - B.used \in 1 .. L
      BY <2>1, <1>1, <1>3 DEF Fields, Ids
    <3> QED
      BY <3>1, <1>1
  <2> QED
    BY <2>1
<1>6. C \in Fields
  <2>1. all \in Seq(Nat)
    BY <1>4 DEF Around
  <2>2. B.used + L \in Nat
    BY <1>1 DEF Fields
  <2> HIDE DEF Filled, C
  <2> QED
    BY <2>1, <2>2, <1>1, <1>2, <1>5 DEF Fields
<1>7. C.doc = all /\ C.used = B.used + L /\ C.text = Filled(B.text) /\ C.vec = Filled(B.vec)
  BY <1>1, <1>2 DEF Fields
<1>8. IdsOK(C.doc, C.used)
  <2>1. B.doc \in Seq(Nat) /\ B.used \in Nat
    BY <1>1 DEF Fields
  <2> QED
    BY <2>1, <1>1, <1>4, <1>7, InsertedApart
<1>9. TextsOK(C)
  <2> SUFFICES ASSUME NEW i \in Ids, i <= B.used + L
               PROVE  Filled(B.text)[i] \in Texts /\ Filled(B.vec)[i] = Filled(B.text)[i]
    BY <1>7 DEF TextsOK
  <2>1. CASE i \in Elements(new)
    <3>1. i - B.used \in 1 .. L
      BY <2>1, <1>1, <1>3 DEF Fields, Ids
    <3> QED
      BY <3>1, <2>1, <1>1
  <2>2. CASE i \notin Elements(new)
    <3>1. i <= B.used
      BY <2>2, <1>1, <1>3 DEF Fields, Ids
    <3> QED
      BY <3>1, <2>2, <1>1 DEF TextsOK
  <2> QED
    BY <2>1, <2>2
<1> QED
  BY <1>6, <1>8, <1>9 DEF Values

LEMMA PositionOK ==
    ASSUME NEW B, NEW i \in Elements(B.doc)
    PROVE  Position(B, i) \in DOMAIN B.doc /\ B.doc[Position(B, i)] = i
BY DEF Position, Elements

\* brd_chunk without the requirement at n
LEMMA RemovedApart ==
    ASSUME NEW doc \in Seq(Nat), NEW u \in Nat, NEW n \in 1 .. Len(doc), IdsOK(doc, u),
           NEW all, all = SubSeq(doc, 1, n - 1) \o SubSeq(doc, n + 1, Len(doc))
    PROVE  all \in Seq(Nat) /\ IdsOK(all, u)
<1> DEFINE D == Len(doc)
           head == SubSeq(doc, 1, n - 1)
           tail == SubSeq(doc, n + 1, Len(doc))
<1>1. D \in Nat /\ n \in 1 .. D /\ DOMAIN doc = 1 .. D
  OBVIOUS
<1>2. head \in Seq(Nat) /\ Len(head) = n - 1 /\ \A j \in 1 .. (n - 1) : head[j] = doc[j]
  OBVIOUS
<1>3. tail \in Seq(Nat) /\ Len(tail) = D - n /\ \A j \in 1 .. (D - n) : tail[j] = doc[n + j]
  OBVIOUS
<1> HIDE DEF head, tail
<1>4. /\ all \in Seq(Nat) /\ Len(all) = Len(head) + Len(tail)
      /\ \A j \in 1 .. (Len(head) + Len(tail)) :
            all[j] = IF j <= Len(head) THEN head[j] ELSE tail[j - Len(head)]
  <2>1. all = head \o tail /\ head \in Seq(Nat) /\ tail \in Seq(Nat)
    BY <1>2, <1>3 DEF head, tail
  <2> QED
    BY ONLY <2>1, ConcatProperties
<1> HIDE DEF D
<1>5. Len(all) = D - 1 /\ Len(head) + Len(tail) = D - 1 /\ DOMAIN all = 1 .. (D - 1)
  <2>1. all \in Seq(Nat) /\ Len(head) = n - 1 /\ Len(tail) = D - n /\ Len(all) = Len(head) + Len(tail)
    BY <1>2, <1>3, <1>4
  <2>2. n \in Int /\ D \in Int
    BY <1>1
  <2> QED
    BY ONLY <2>1, <2>2
<1> DEFINE From(j) == IF j < n THEN j ELSE j + 1
<1>6. \A j \in 1 .. (D - 1) : From(j) \in 1 .. D /\ all[j] = doc[From(j)]
  <2> TAKE j \in 1 .. (D - 1)
  <2>1. CASE j < n
    <3>1. j \in 1 .. (n - 1) /\ j \in 1 .. D /\ j <= n - 1
      BY <2>1, <1>1
    <3>2. all[j] = head[j]
      BY <3>1, <1>2, <1>4, <1>5
    <3> QED
      BY <3>1, <3>2, <2>1, <1>2
  <2>2. CASE ~(j < n)
    <3>1. j - (n - 1) \in 1 .. (D - n) /\ n + (j - (n - 1)) = j + 1 /\ j + 1 \in 1 .. D /\ ~(j <= n - 1)
      BY <2>2, <1>1
    <3>2. all[j] = tail[j - (n - 1)]
      BY <3>1, <1>2, <1>4, <1>5
    <3> QED
      BY <3>1, <3>2, <2>2, <1>3
  <2> QED
    BY <2>1, <2>2
<1>7. \A i, j \in 1 .. (D - 1) : From(i) = From(j) => i = j
  BY <1>1
<1> HIDE DEF From
<1>8. \A j \in 1 .. (D - 1) : all[j] \in 1 .. u
  BY <1>1, <1>6 DEF IdsOK
<1>9. \A i, j \in 1 .. (D - 1) : all[i] = all[j] => i = j
  <2> TAKE i, j \in 1 .. (D - 1)
  <2>1. all[i] = all[j] => From(i) = From(j)
    BY <1>1, <1>6, ZenonT(30) DEF IdsOK
  <2> QED
    BY <2>1, <1>7
<1> QED
  BY <1>4, <1>5, <1>8, <1>9 DEF IdsOK

\* _audit leaves the document and the vectors alone
LEMMA AuditedOK ==
    ASSUME NEW B \in Values, NEW i \in Ids, i \in Elements(B.doc)
    PROVE  /\ Audited(B, i) \in Values
           /\ Audited(B, i) = [B EXCEPT !.old = Audited(B, i).old]
<1>1. B \in Fields /\ B.old \in [Ids -> Texts \cup {NoText}] /\ B.text[i] \in Texts \cup {NoText}
  BY DEF Values, Fields
<1> DEFINE o == [B.old EXCEPT ![i] = B.text[i]]
<1>2. Audited(B, i) = [B EXCEPT !.old = o] /\ o \in [Ids -> Texts \cup {NoText}]
  BY <1>1 DEF Audited, Fields
<1> HIDE DEF o
<1>3. Audited(B, i).old = o
  BY <1>1, <1>2 DEF Fields
<1>4. /\ Audited(B, i) \in Fields
      /\ Audited(B, i).doc = B.doc /\ Audited(B, i).used = B.used
      /\ Audited(B, i).text = B.text /\ Audited(B, i).vec = B.vec
  BY <1>1, <1>2 DEF Fields
<1> QED
  BY <1>2, <1>3, <1>4 DEF Values, IdsOK, TextsOK

\* _rewrite: a requirement keeps its id, and the pieces behind the first get new ones
LEMMA RewrittenOK ==
    ASSUME NEW B \in Values, NEW i \in Ids, i \in Elements(B.doc), NEW ts \in Seq(Texts), ts # <<>>
    PROVE  Rewritten(B, i, ts) \in Values
<1> DEFINE A == Audited(B, i)
           t == [A.text EXCEPT ![i] = ts[1]]
           v == [A.vec EXCEPT ![i] = ts[1]]
           C == [A EXCEPT !.text = t, !.vec = v]
<1>1. A \in Values /\ A.doc = B.doc /\ A.used = B.used
  BY AuditedOK, SMTT(30) DEF Values, Fields
<1> HIDE DEF A
<1>2. A \in Fields /\ IdsOK(A.doc, A.used) /\ TextsOK(A)
  BY <1>1 DEF Values
<1>3. ts[1] \in Texts
  OBVIOUS
<1>4. t \in [Ids -> Texts \cup {NoText}] /\ v \in [Ids -> Texts \cup {NoText}]
  BY <1>2, <1>3 DEF Fields
<1>5. \A k \in Ids : k <= A.used => t[k] \in Texts /\ v[k] = t[k]
  BY <1>2, <1>3 DEF Fields, TextsOK
<1> HIDE DEF t, v
<1>6. /\ C \in Fields
      /\ C.doc = A.doc /\ C.used = A.used /\ C.text = t /\ C.vec = v
  BY <1>2, <1>4 DEF Fields
<1>7. C \in Values
  BY <1>2, <1>5, <1>6 DEF Values, TextsOK
<1>8. C = [Audited(B, i) EXCEPT !.text[i] = ts[1], !.vec[i] = ts[1]]
  BY <1>2 DEF A, t, v, Fields
<1> HIDE DEF C
<1>9. Position(B, i) \in 0 .. Len(C.doc)
  <2>1. Position(B, i) \in DOMAIN B.doc
    BY PositionOK
  <2>2. B.doc \in Seq(Nat)
    BY DEF Values, Fields
  <2> QED
    BY <2>1, <2>2, <1>1, <1>6
<1>10. SubSeq(ts, 2, Len(ts)) \in Seq(Texts)
  OBVIOUS
<1> QED
  BY <1>7, <1>8, <1>9, <1>10, InsertedOK DEF Rewritten

LEMMA PiecesOK ==
    ASSUME NEW t \in Texts \cup {Long}
    PROVE  Pieces(t) \in Seq(Texts) /\ Pieces(t) # <<>>
BY TextAssumption DEF Pieces

\* every operation that is not refused
LEMMA AfterOK ==
    ASSUME NEW B \in Values, NEW op \in Change
    PROVE  After(B, op) \in Values
<1>1. CASE Refuses(B, op)
  BY <1>1 DEF After
<1> SUFFICES ASSUME ~Refuses(B, op) PROVE After(B, op) \in Values
  BY <1>1
<1>2. /\ op.kind \in {"edit", "split", "add", "delete"}
      /\ op.id \in 0 .. IdBound /\ op.text \in Texts \cup {Long, NoText}
      /\ op.kind # "add" => op.id \in Ids
      /\ op.kind \in {"edit", "add"} => op.text # NoText
  BY DEF Change, Op
<1>3. op.id # 0 => op.id \in Elements(B.doc)
  BY DEF Refuses
<1>4. B.doc \in Seq(Nat)
  BY DEF Values, Fields
<1>5. CASE op.kind = "edit"
  <2>1. op.id \in Ids /\ op.id \in Elements(B.doc) /\ op.text \in Texts \cup {Long}
    BY <1>2, <1>3, <1>5 DEF Ids
  <2>2. After(B, op) = Edited(B, op)
    BY <1>5 DEF After
  <2> QED
    BY <2>1, <2>2, PiecesOK, RewrittenOK DEF Edited
<1>6. CASE op.kind = "split"
  <2>1. op.id \in Ids /\ op.id \in Elements(B.doc)
    BY <1>2, <1>3, <1>6 DEF Ids
  <2>2. After(B, op) = Split(B, op)
    BY <1>6 DEF After
  <2>3. <<First, Second>> \in Seq(Texts) /\ <<First, Second>> # <<>>
    BY TextAssumption
  <2> QED
    BY <2>1, <2>2, <2>3, RewrittenOK DEF Split
<1>7. CASE op.kind = "add"
  <2> DEFINE n == IF op.id = 0 THEN Len(B.doc) ELSE Position(B, op.id)
  <2>1. Pieces(op.text) \in Seq(Texts)
    BY <1>2, <1>7, PiecesOK
  <2>2. After(B, op) = Inserted(B, n, Pieces(op.text))
    BY <1>7 DEF After, Added
  <2>3. n \in 0 .. Len(B.doc)
    <3>1. CASE op.id = 0
      BY <3>1, <1>4
    <3>2. CASE op.id # 0
      BY <3>2, <1>3, <1>4, PositionOK
    <3> QED
      BY <3>1, <3>2
  <2> HIDE DEF n
  <2> QED
    BY <2>1, <2>2, <2>3, InsertedOK
<1>8. CASE op.kind = "delete"
  <2> DEFINE A == Audited(B, op.id)
             n == Position(A, op.id)
             all == SubSeq(B.doc, 1, n - 1) \o SubSeq(B.doc, n + 1, Len(B.doc))
  <2>1. op.id \in Ids /\ op.id \in Elements(B.doc)
    BY <1>2, <1>3, <1>8 DEF Ids
  <2>2. /\ A \in Values /\ A \in Fields
        /\ A.doc = B.doc /\ A.used = B.used /\ A.text = B.text /\ A.vec = B.vec
    BY <2>1, AuditedOK DEF Values, Fields
  <2>3. Position(B, op.id) = n
    BY <2>2 DEF Position
  <2>4. n \in 1 .. Len(B.doc)
    BY <2>1, <2>3, <1>4, PositionOK
  <2>5. After(B, op) = [A EXCEPT !.doc = all]
    BY <1>8, <2>2, <2>3 DEF After, Deleted, Fields
  <2>6. IdsOK(B.doc, B.used) /\ B.used \in Nat /\ TextsOK(B)
    BY DEF Values, Fields
  <2> HIDE DEF A, n
  <2>7. all \in Seq(Nat) /\ IdsOK(all, B.used)
    BY <2>4, <2>6, <1>4, RemovedApart
  <2> HIDE DEF all
  <2> DEFINE C == [A EXCEPT !.doc = all]
  <2>8. C \in Fields /\ C.doc = all /\ C.used = B.used /\ C.text = B.text /\ C.vec = B.vec
    BY <2>2, <2>7 DEF Fields
  <2> QED
    BY <2>5, <2>6, <2>7, <2>8 DEF Values, TextsOK
<1> QED
  BY <1>2, <1>5, <1>6, <1>7, <1>8

\* the values on the way are all good
LEMMA StatesOK ==
    ASSUME NEW B \in Values, NEW ops \in Seq(Change)
    PROVE  States(B, ops) \in [0 .. Len(ops) -> Values]
<1> DEFINE N == Len(ops)
           Eq(f) == f = [n \in 0 .. N |-> IF n = 0 THEN B ELSE After(f[n - 1], ops[n])]
           step == [z \in Values \X (1 .. N) |-> After(z[1], ops[z[2]])]
<1>1. N \in Nat /\ \A n \in 1 .. N : ops[n] \in Change
  OBVIOUS
<1> HIDE DEF N
<1>2. IsStep(step, Values, N)
  BY <1>1, AfterOK DEF IsStep
<1>3. \A C \in Values, n \in 1 .. N : step[<<C, n>>] = After(C, ops[n])
  OBVIOUS
<1> HIDE DEF step
<1>4. PICK g : Iterates(g, Values, B, N, step)
  BY <1>1, <1>2, Recursion
<1>5. ASSUME NEW n \in 0 .. N PROVE g[n] = IF n = 0 THEN B ELSE After(g[n - 1], ops[n])
  <2>1. CASE n = 0
    BY <2>1, <1>4 DEF Iterates
  <2>2. CASE n # 0
    <3>1. n \in 1 .. N /\ n - 1 \in 0 .. N
      BY <2>2, <1>1
    <3>2. g[n - 1] \in Values
      BY <3>1, <1>4 DEF Iterates
    <3> QED
      BY <3>1, <3>2, <1>3, <1>4, <2>2 DEF Iterates
  <2> QED
    BY <2>1, <2>2
<1>6. Eq(g)
  BY <1>4, <1>5 DEF Iterates
<1>7. States(B, ops) = CHOOSE f : Eq(f)
  BY DEF States, N
<1> HIDE DEF Eq
<1>8. Eq(States(B, ops))
  BY <1>6, <1>7
<1> DEFINE f == States(B, ops)
           S == {n \in Nat : n <= N => f[n] \in Values}
<1>a. Eq(f)
  BY <1>8
<1> HIDE DEF f
<1>b. f = [n \in 0 .. N |-> IF n = 0 THEN B ELSE After(f[n - 1], ops[n])]
  BY <1>a DEF Eq
<1>9. /\ DOMAIN f = 0 .. N /\ f = [n \in 0 .. N |-> f[n]]
      /\ f[0] = B
      /\ \A n \in 1 .. N : f[n] = After(f[n - 1], ops[n])
  <2>1. DOMAIN f = 0 .. N
    BY <1>b
  <2>2. \A n \in 0 .. N : f[n] = IF n = 0 THEN B ELSE After(f[n - 1], ops[n])
    BY ONLY <1>b
  <2>3. f = [n \in 0 .. N |-> f[n]]
    BY ONLY <2>1, <1>b
  <2>4. 0 \in 0 .. N /\ \A n \in 1 .. N : n \in 0 .. N /\ n # 0
    BY <1>1
  <2> QED
    BY ONLY <2>1, <2>2, <2>3, <2>4
<1>10. 0 \in S
  BY <1>9
<1>11. ASSUME NEW n \in Nat, n \in S PROVE n + 1 \in S
  <2> SUFFICES ASSUME n + 1 <= N PROVE f[n + 1] \in Values
    OBVIOUS
  <2>1. n + 1 \in 1 .. N /\ (n + 1) - 1 = n /\ n <= N
    BY <1>1
  <2>2. f[n] \in Values
    BY <1>11, <2>1
  <2> QED
    BY <2>1, <2>2, <1>1, <1>9, AfterOK
<1> HIDE DEF S
<1>12. Nat \subseteq S
  BY <1>10, <1>11, Induction
<1>13. \A n \in 0 .. N : f[n] \in Values
  BY <1>1, <1>12 DEF S
<1> QED
  BY <1>9, <1>13 DEF f, N

-----------------------------------------------------------------------------
(* Restores.                                                                 *)

\* the rows matched so far: an id of a stored requirement or 0, and no id twice
Partial(u) == {s \in Seq(0 .. u) : \A i, j \in DOMAIN s : s[i] = s[j] /\ s[i] # 0 => i = j}
\* what the next row goes to, as Matched has it
Chosen(B, rows, aligned, s, n) ==
    LET taken == Elements(s)
        alike == {i \in Archived(B) \ taken : B.text[i] = rows[n].text}
    IN  IF rows[n].id \in Elements(B.doc) \ taken THEN rows[n].id
        ELSE IF aligned[n] # 0 /\ aligned[n] \notin taken THEN aligned[n]
        ELSE IF rows[n].id \in Archived(B) \ taken THEN rows[n].id
        ELSE IF alike # {} THEN CHOOSE i \in alike : \A j \in alike : i <= j
        ELSE 0

\* what a row may go to: a new requirement, a live one, or an archived one with its id or its text
Fits(B, row, e) ==
    \/ e = 0 \/ e \in Elements(B.doc)
    \/ e \in Archived(B) /\ (row.id = e \/ B.text[e] = row.text)

LEMMA PartialAppend ==
    ASSUME NEW u \in Nat, NEW s \in Partial(u), NEW e \in 0 .. u, e # 0 => e \notin Elements(s)
    PROVE  Append(s, e) \in Partial(u) /\ Len(Append(s, e)) = Len(s) + 1
<1> DEFINE D == Len(s)
           t == Append(s, e)
<1>1. s \in Seq(0 .. u) /\ D \in Nat /\ DOMAIN s = 1 .. D
  BY DEF Partial
<1>2. \A i, j \in 1 .. D : s[i] = s[j] /\ s[i] # 0 => i = j
  BY <1>1 DEF Partial
<1>3. \A i \in 1 .. D : e # 0 => s[i] # e
  BY <1>1 DEF Elements
<1>4. t \in Seq(0 .. u) /\ Len(t) = D + 1 /\ t[D + 1] = e /\ \A i \in 1 .. D : t[i] = s[i]
  BY <1>1
<1>5. DOMAIN t = 1 .. (D + 1)
  BY <1>4
<1> HIDE DEF t, D
<1>6. ASSUME NEW i \in 1 .. (D + 1), NEW j \in 1 .. (D + 1), t[i] = t[j], t[i] # 0
      PROVE  i = j
  <2>1. \A k \in 1 .. (D + 1) : k \in 1 .. D \/ k = D + 1
    BY <1>1
  <2>2. CASE i = D + 1 /\ j \in 1 .. D
    BY <2>2, <1>3, <1>4, <1>6
  <2>3. CASE j = D + 1 /\ i \in 1 .. D
    BY <2>3, <1>3, <1>4, <1>6
  <2>4. CASE i \in 1 .. D /\ j \in 1 .. D
    BY <2>4, <1>2, <1>4, <1>6
  <2> QED
    BY <2>1, <2>2, <2>3, <2>4
<1> QED
  BY <1>4, <1>5, <1>6 DEF Partial, t, D

LEMMA ChosenOK ==
    ASSUME NEW B \in Values, NEW rows \in Seq(Row),
           NEW aligned \in [DOMAIN rows -> Elements(B.doc) \cup {0}],
           NEW s \in Partial(B.used), NEW n \in DOMAIN rows
    PROVE  LET e == Chosen(B, rows, aligned, s, n)
           IN  e \in 0 .. B.used /\ (e # 0 => e \notin Elements(s)) /\ Fits(B, rows[n], e)
<1> DEFINE taken == Elements(s)
           alike == {i \in Archived(B) \ taken : B.text[i] = rows[n].text}
           e == Chosen(B, rows, aligned, s, n)
<1>1. B.used \in Nat /\ \A k \in DOMAIN B.doc : B.doc[k] \in 1 .. B.used
  BY DEF Values, Fields, IdsOK
<1>2. Elements(B.doc) \subseteq 1 .. B.used /\ Archived(B) \subseteq 1 .. B.used
  BY <1>1 DEF Elements, Archived
<1>3. aligned[n] \in Elements(B.doc) \cup {0}
  OBVIOUS
<1>4. alike # {} => (CHOOSE i \in alike : \A j \in alike : i <= j) \in alike
  <2>1. alike \subseteq Nat
    BY <1>1, <1>2
  <2> HIDE DEF alike
  <2>2. alike # {} => \E i \in alike : \A j \in alike : i <= j
    BY <2>1, LeastNumber
  <2> QED
    BY <2>2
<1>5. alike \subseteq (1 .. B.used) \ taken
  BY <1>2
<1>6. \/ e = rows[n].id /\ rows[n].id \in Elements(B.doc) \ taken
      \/ e = aligned[n] /\ aligned[n] # 0 /\ aligned[n] \notin taken
      \/ e = rows[n].id /\ rows[n].id \in Archived(B) \ taken
      \/ e = (CHOOSE i \in alike : \A j \in alike : i <= j) /\ alike # {}
      \/ e = 0
  BY DEF Chosen
<1>a. Fits(B, rows[n], e)
  <2>1. alike \subseteq {i \in Archived(B) : B.text[i] = rows[n].text}
    OBVIOUS
  <2> HIDE DEF alike, taken, e
  <2> QED
    BY <2>1, <1>3, <1>4, <1>6 DEF Fits
<1> HIDE DEF taken, alike, e
<1>7. e = 0 \/ e \in (1 .. B.used) \ taken
  BY <1>2, <1>3, <1>4, <1>5, <1>6
<1>8. e \in 0 .. B.used /\ (e # 0 => e \notin taken)
  BY <1>1, <1>7
<1> QED
  BY <1>8, <1>a DEF e, taken

LEMMA MatchedOK ==
    ASSUME NEW B \in Values, NEW rows \in Seq(Row),
           NEW aligned \in [DOMAIN rows -> Elements(B.doc) \cup {0}]
    PROVE  /\ Matched(B, rows, aligned) \in Partial(B.used)
           /\ Len(Matched(B, rows, aligned)) = Len(rows)
           /\ \A n \in DOMAIN rows : Fits(B, rows[n], Matched(B, rows, aligned)[n])
<1> DEFINE N == Len(rows)
           X == Partial(B.used)
           E(s, n) == Chosen(B, rows, aligned, s, n)
           Eq(f) == f = [n \in 0 .. N |-> IF n = 0 THEN <<>> ELSE Append(f[n - 1], E(f[n - 1], n))]
           step == [z \in X \X (1 .. N) |-> Append(z[1], E(z[1], z[2]))]
<1>1. N \in Nat /\ DOMAIN rows = 1 .. N /\ B.used \in Nat
  BY DEF Values, Fields
<1>2. \A s \in X, n \in 1 .. N :
         /\ Append(s, E(s, n)) \in X /\ Len(Append(s, E(s, n))) = Len(s) + 1
         /\ Fits(B, rows[n], E(s, n))
  <2> TAKE s \in X, n \in 1 .. N
  <2>1. n \in DOMAIN rows
    BY <1>1
  <2>2. /\ E(s, n) \in 0 .. B.used /\ (E(s, n) # 0 => E(s, n) \notin Elements(s))
        /\ Fits(B, rows[n], E(s, n))
    BY <2>1, ChosenOK
  <2> HIDE DEF E
  <2> QED
    BY <2>2, <1>1, PartialAppend
<1>3. <<>> \in X
  BY DEF Partial
<1>4. Matched(B, rows, aligned) = (CHOOSE f : Eq(f))[N]
  BY DEF Matched, Chosen
<1> HIDE DEF N, X, E
<1>5. IsStep(step, X, N)
  BY <1>2 DEF IsStep
<1>6. \A s \in X, n \in 1 .. N : step[<<s, n>>] = Append(s, E(s, n))
  OBVIOUS
<1> HIDE DEF step
<1>7. PICK g : Iterates(g, X, <<>>, N, step)
  BY <1>1, <1>3, <1>5, Recursion
<1>8. ASSUME NEW n \in 0 .. N PROVE g[n] = IF n = 0 THEN <<>> ELSE Append(g[n - 1], E(g[n - 1], n))
  <2>1. CASE n = 0
    BY <2>1, <1>7 DEF Iterates
  <2>2. CASE n # 0
    <3>1. n \in 1 .. N /\ n - 1 \in 0 .. N
      BY <2>2, <1>1
    <3>2. g[n - 1] \in X
      BY <3>1, <1>7 DEF Iterates
    <3> QED
      BY <3>1, <3>2, <1>6, <1>7, <2>2 DEF Iterates
  <2> QED
    BY <2>1, <2>2
<1>9. Eq(g)
  BY <1>7, <1>8 DEF Iterates
<1> HIDE DEF Eq
<1> DEFINE f == CHOOSE h : Eq(h)
<1>10. Eq(f)
  BY <1>9
<1>11. Matched(B, rows, aligned) = f[N]
  BY <1>4
<1> HIDE DEF f
<1>12. f = [n \in 0 .. N |-> IF n = 0 THEN <<>> ELSE Append(f[n - 1], E(f[n - 1], n))]
  BY <1>10 DEF Eq
<1>13. f[0] = <<>> /\ \A n \in 1 .. N : f[n] = Append(f[n - 1], E(f[n - 1], n))
  <2>1. \A n \in 0 .. N : f[n] = IF n = 0 THEN <<>> ELSE Append(f[n - 1], E(f[n - 1], n))
    BY ONLY <1>12
  <2>2. 0 \in 0 .. N /\ \A n \in 1 .. N : n \in 0 .. N /\ n # 0
    BY <1>1
  <2> QED
    BY ONLY <2>1, <2>2
<1> DEFINE Good(n) == /\ f[n] \in X /\ Len(f[n]) = n
                      /\ \A k \in 1 .. n : Fits(B, rows[k], f[n][k])
           S == {n \in Nat : n <= N => Good(n)}
<1>14. 0 \in S
  BY <1>3, <1>13
<1>15. ASSUME NEW n \in Nat, n \in S PROVE n + 1 \in S
  <2> SUFFICES ASSUME n + 1 <= N PROVE Good(n + 1)
    OBVIOUS
  <2>1. n + 1 \in 1 .. N /\ (n + 1) - 1 = n /\ n <= N
    BY <1>1
  <2>2. Good(n)
    BY <1>15, <2>1
  <2> DEFINE e == E(f[n], n + 1)
             s == f[n]
             t == f[n + 1]
  <2>3. t = Append(s, e)
    BY <2>1, <1>13
  <2>4. t \in X /\ Len(t) = Len(s) + 1 /\ Fits(B, rows[n + 1], e)
    BY <2>1, <2>2, <2>3, <1>2
  <2>5. s \in Seq(0 .. B.used) /\ Len(s) = n /\ \A k \in 1 .. n : Fits(B, rows[k], s[k])
    BY <2>2 DEF X, Partial
  <2>a. Good(n + 1) <=> /\ t \in X /\ Len(t) = n + 1
                        /\ \A k \in 1 .. (n + 1) : Fits(B, rows[k], t[k])
    OBVIOUS
  <2> HIDE DEF s, t, e, Good
  <2>6. t[n + 1] = e /\ \A k \in 1 .. n : t[k] = s[k]
    BY <2>3, <2>5
  <2>7. \A k \in 1 .. (n + 1) : k \in 1 .. n \/ k = n + 1
    OBVIOUS
  <2>8. \A k \in 1 .. (n + 1) : Fits(B, rows[k], t[k])
    BY <2>4, <2>5, <2>6, <2>7
  <2> QED
    BY <2>4, <2>5, <2>8, <2>a
<1> HIDE DEF S
<1>16. Nat \subseteq S
  BY <1>14, <1>15, Induction
<1>17. f[N] \in X /\ Len(f[N]) = N /\ \A k \in 1 .. N : Fits(B, rows[k], f[N][k])
  BY <1>1, <1>16 DEF S
<1> QED
  BY <1>1, <1>11, <1>17 DEF X, N

\* how many members of S there are up to n
Rank(S, n) == Cardinality({m \in S : m <= n})

LEMMA RankSteps ==
    ASSUME NEW N \in Nat, NEW S \in SUBSET (1 .. N)
    PROVE  /\ IsFiniteSet(S) /\ Cardinality(S) \in Nat /\ Rank(S, N) = Cardinality(S)
           /\ Rank(S, 0) = 0
           /\ \A n \in 0 .. N : Rank(S, n) \in 0 .. Cardinality(S)
           /\ \A m, n \in 0 .. N : m <= n => Rank(S, m) <= Rank(S, n)
           /\ \A n \in 1 .. N : Rank(S, n) = Rank(S, n - 1) + (IF n \in S THEN 1 ELSE 0)
<1> DEFINE Low(n) == {m \in S : m <= n}
<1>0. \A m \in S : m \in Int /\ 1 <= m /\ m <= N
  OBVIOUS
<1>1. IsFiniteSet(1 .. N)
  BY FS_Interval
<1>2. IsFiniteSet(S) /\ Cardinality(S) \in Nat
  BY <1>1, FS_Subset, FS_CardinalityType
<1>3. \A n \in 0 .. N : IsFiniteSet(Low(n)) /\ Cardinality(Low(n)) \in Nat
  BY <1>2, FS_Subset, FS_CardinalityType
<1>4. Low(N) = S /\ Low(0) = {}
  <2>1. \A m \in S : m <= N /\ ~(m <= 0)
    BY <1>0
  <2>2. Low(N) = S
    BY ONLY <2>1
  <2>3. Low(0) = {}
    BY ONLY <2>1
  <2> QED
    BY <2>2, <2>3
<1>5. Cardinality(Low(N)) = Cardinality(S) /\ Cardinality(Low(0)) = 0
  BY <1>4, FS_EmptySet
<1>6. ASSUME NEW m \in 0 .. N, NEW n \in 0 .. N, m <= n
      PROVE  Cardinality(Low(m)) <= Cardinality(Low(n))
  <2>1. Low(m) \subseteq Low(n)
    <3>1. \A k \in S : k <= m => k <= n
      BY <1>0, <1>6
    <3> QED
      BY ONLY <3>1
  <2> HIDE DEF Low
  <2> QED
    BY <2>1, <1>3, FS_Subset
<1>7. ASSUME NEW n \in 1 .. N
      PROVE  Cardinality(Low(n)) = Cardinality(Low(n - 1)) + (IF n \in S THEN 1 ELSE 0)
  <2>1. n - 1 \in 0 .. N
    OBVIOUS
  <2>2. CASE n \in S
    <3>1. \A m \in S : m <= n <=> m <= n - 1 \/ m = n
      BY <1>0
    <3>2. Low(n) = Low(n - 1) \cup {n} /\ n \notin Low(n - 1)
      <4>1. ~(n <= n - 1)
        OBVIOUS
      <4> QED
        BY ONLY <4>1, <3>1, <2>2
    <3> HIDE DEF Low
    <3> QED
      BY <3>2, <2>1, <2>2, <1>3, FS_AddElement
  <2>3. CASE n \notin S
    <3>1. \A m \in S : m <= n <=> m <= n - 1
      BY <1>0, <2>3
    <3>2. Low(n) = Low(n - 1)
      BY ONLY <3>1
    <3> HIDE DEF Low
    <3> QED
      BY <3>2, <2>1, <2>3, <1>3
  <2> QED
    BY <2>2, <2>3
<1>8. \A n : Rank(S, n) = Cardinality(Low(n))
  BY DEF Rank
<1> HIDE DEF Low
<1>9. \A n \in 0 .. N : Cardinality(Low(n)) \in 0 .. Cardinality(S)
  <2> TAKE n \in 0 .. N
  <2>1. N \in 0 .. N /\ n <= N
    OBVIOUS
  <2>2. Cardinality(Low(n)) <= Cardinality(Low(N))
    BY <2>1, <1>6
  <2> QED
    BY <2>2, <1>2, <1>3, <1>5
<1> QED
  BY <1>2, <1>5, <1>6, <1>7, <1>8, <1>9

\* the members of S are numbered 1, 2, ... in their order
LEMMA RankNumbers ==
    ASSUME NEW N \in Nat, NEW S \in SUBSET (1 .. N)
    PROVE  /\ \A n \in S : Rank(S, n) \in 1 .. Cardinality(S)
           /\ \A m, n \in S : Rank(S, m) = Rank(S, n) => m = n
           /\ \A j \in 1 .. Cardinality(S) : \E n \in S : Rank(S, n) = j
<1> DEFINE r(n) == Rank(S, n)
           K == Cardinality(S)
<1>1. /\ K \in Nat /\ r(N) = K /\ r(0) = 0
      /\ \A n \in 0 .. N : r(n) \in 0 .. K
      /\ \A m, n \in 0 .. N : m <= n => r(m) <= r(n)
      /\ \A n \in 1 .. N : r(n) = r(n - 1) + (IF n \in S THEN 1 ELSE 0)
  BY RankSteps
<1> HIDE DEF r, K
<1>2. ASSUME NEW m \in 0 .. N, NEW n \in S, m < n
      PROVE  r(m) < r(n)
  <2>1. n \in 1 .. N /\ n - 1 \in 0 .. N /\ m <= n - 1
    BY <1>2
  <2>2. r(m) <= r(n - 1) /\ r(n) = r(n - 1) + 1
    BY <2>1, <1>1
  <2>3. r(m) \in Int /\ r(n - 1) \in Int
    BY <2>1, <1>1
  <2> QED
    BY ONLY <2>2, <2>3
<1>3. \A n \in S : r(n) \in 1 .. K
  <2> TAKE n \in S
  <2>1. 0 \in 0 .. N /\ n \in 0 .. N /\ 0 < n
    OBVIOUS
  <2>2. r(0) < r(n)
    BY <2>1, <1>2
  <2> QED
    BY <2>1, <2>2, <1>1
<1>4. \A m, n \in S : r(m) = r(n) => m = n
  <2> TAKE m, n \in S
  <2>1. m \in 0 .. N /\ n \in 0 .. N /\ r(m) \in Int /\ r(n) \in Int
    BY <1>3, <1>1
  <2>2. m < n => r(m) < r(n)
    BY <2>1, <1>2
  <2>3. n < m => r(n) < r(m)
    BY <2>1, <1>2
  <2> QED
    BY <2>1, <2>2, <2>3
<1>5. ASSUME NEW j \in 1 .. K PROVE \E n \in S : r(n) = j
  <2> DEFINE T == {n \in 1 .. N : j <= r(n)}
  <2>1. T # {}
    <3>1. N # 0
      BY <1>1
    <3> QED
      BY <3>1, <1>1
  <2>2. PICK m \in T : \A k \in T : m <= k
    <3>1. T \in SUBSET Nat
      OBVIOUS
    <3> HIDE DEF T
    <3> QED
      BY <3>1, <2>1, LeastNumber
  <2>3. m \in 1 .. N /\ m - 1 \in 0 .. N /\ j <= r(m) /\ r(m - 1) \in Int /\ r(m) \in Int
    BY <2>2, <1>1
  <2>4. r(m - 1) < j
    <3>1. CASE m - 1 = 0
      BY <3>1, <1>1
    <3>2. CASE m - 1 # 0
      <4>1. m - 1 \in 1 .. N /\ ~(m <= m - 1)
        BY <3>2, <2>3
      <4> QED
        BY <4>1, <2>2, <2>3
    <3> QED
      BY <3>1, <3>2
  <2>5. r(m) = r(m - 1) + (IF m \in S THEN 1 ELSE 0)
    BY <2>3, <1>1
  <2>6. m \in S /\ r(m) = j
    BY <2>3, <2>4, <2>5
  <2> QED
    BY <2>6
<1> QED
  BY <1>3, <1>4, <1>5 DEF r, K

LEMMA ReconciledOK ==
    ASSUME NEW B \in Values, NEW rows \in Seq(Row), Matching(rows),
           NEW to \in Partial(B.used), Len(to) = Len(rows)
    PROVE  /\ Reconciled(B, rows, to) \in Values
           /\ Reconciled(B, rows, to).used = B.used + Cardinality({n \in DOMAIN to : to[n] = 0})
<1> DEFINE N == Len(rows)
           fresh == {n \in DOMAIN to : to[n] = 0}
           K == Cardinality(fresh)
           doc == [n \in DOMAIN to |->
                      IF to[n] # 0 THEN to[n] ELSE B.used + Cardinality({m \in fresh : m <= n})]
           new == {doc[n] : n \in fresh}
           rewritten == Overwritten(B, rows, doc)
           SnapRow(i) == rows[CHOOSE n \in DOMAIN doc : doc[n] = i]
           text == [i \in Ids |-> IF i \in rewritten \cup new THEN SnapRow(i).text ELSE B.text[i]]
           vec == [i \in Ids |-> IF i \in rewritten \cup new THEN SnapRow(i).vec ELSE B.vec[i]]
           old == [i \in Ids |-> IF i \in rewritten \cup (Elements(B.doc) \ Elements(doc))
                                 THEN B.text[i] ELSE B.old[i]]
           C == Reconciled(B, rows, to)
<1>1. C = [doc |-> doc, used |-> B.used + K, text |-> text, vec |-> vec, old |-> old]
  BY DEF Reconciled
<1>2. /\ B \in Fields /\ B.used \in Nat /\ IdsOK(B.doc, B.used) /\ TextsOK(B)
      /\ B.text \in [Ids -> Texts \cup {NoText}] /\ B.vec \in [Ids -> Texts \cup {NoText}]
      /\ B.old \in [Ids -> Texts \cup {NoText}]
  BY DEF Values, Fields
<1>3. /\ N \in Nat /\ DOMAIN to = 1 .. N /\ DOMAIN rows = 1 .. N
      /\ \A n \in 1 .. N : to[n] \in 0 .. B.used
      /\ \A m, n \in 1 .. N : to[m] = to[n] /\ to[m] # 0 => m = n
  <2>1. to \in Seq(0 .. B.used)
    BY DEF Partial
  <2>2. N \in Nat /\ DOMAIN to = 1 .. N /\ DOMAIN rows = 1 .. N
    BY <2>1
  <2>3. \A n \in DOMAIN to : to[n] \in 0 .. B.used
    <3> DEFINE Z == 0 .. B.used
    <3>1. to \in Seq(Z)
      BY <2>1
    <3> HIDE DEF Z
    <3>2. \A n \in 1 .. Len(to) : to[n] \in Z
      BY ONLY <3>1, ElementOfSeq
    <3> QED
      BY <3>1, <3>2 DEF Z
  <2> QED
    BY <2>2, <2>3 DEF Partial
<1>4. \A n \in 1 .. N : rows[n].text \in Texts /\ rows[n].vec = rows[n].text
  <2>1. \A n \in DOMAIN rows : rows[n] \in Row
    OBVIOUS
  <2> HIDE DEF N
  <2> QED
    BY <2>1, <1>3 DEF Row, Matching
<1>5. DOMAIN doc = 1 .. N /\ fresh \in SUBSET (1 .. N)
  BY <1>3
<1>6. \A n \in 1 .. N : doc[n] = IF to[n] # 0 THEN to[n] ELSE B.used + Rank(fresh, n)
  BY <1>3 DEF Rank
<1>7. \A n \in 1 .. N : n \in fresh <=> to[n] = 0
  BY <1>3
<1> HIDE DEF N, fresh, K
<1>8. /\ K \in Nat
      /\ \A n \in fresh : Rank(fresh, n) \in 1 .. K
      /\ \A m, n \in fresh : Rank(fresh, m) = Rank(fresh, n) => m = n
      /\ \A j \in 1 .. K : \E n \in fresh : Rank(fresh, n) = j
  BY <1>3, <1>5, RankSteps, RankNumbers DEF K
<1>a. new = {doc[n] : n \in fresh}
  OBVIOUS
<1>b. doc = [n \in 1 .. N |-> doc[n]]
  BY <1>5
<1> HIDE DEF doc, new
<1>9. /\ \A n \in 1 .. N : to[n] # 0 => doc[n] \in 1 .. B.used
      /\ \A n \in 1 .. N : to[n] = 0 => doc[n] \in (B.used + 1) .. (B.used + K)
  <2>1. \A n \in 1 .. N : to[n] # 0 => doc[n] \in 1 .. B.used
    BY <1>2, <1>3, <1>6
  <2>2. ASSUME NEW n \in 1 .. N, to[n] = 0 PROVE doc[n] \in (B.used + 1) .. (B.used + K)
    <3>1. Rank(fresh, n) \in 1 .. K /\ doc[n] = B.used + Rank(fresh, n)
      BY <2>2, <1>6, <1>7, <1>8
    <3> QED
      BY <3>1, <1>2, <1>8
  <2> QED
    BY <2>1, <2>2
<1>10. ASSUME NEW m \in 1 .. N, NEW n \in 1 .. N, doc[m] = doc[n]
       PROVE  m = n
  <2>1. CASE to[m] # 0 /\ to[n] # 0
    BY <2>1, <1>3, <1>6, <1>10
  <2>2. CASE to[m] = 0 /\ to[n] = 0
    <3>1. m \in fresh /\ n \in fresh
      BY <2>2, <1>7
    <3>2. B.used + Rank(fresh, m) = B.used + Rank(fresh, n)
      BY <2>2, <1>6, <1>10
    <3>3. Rank(fresh, m) \in Nat /\ Rank(fresh, n) \in Nat
      BY <3>1, <1>8
    <3>4. Rank(fresh, m) = Rank(fresh, n)
      BY ONLY <3>2, <3>3, <1>2
    <3> QED
      BY <3>1, <3>4, <1>8
  <2>3. CASE to[m] # 0 /\ to[n] = 0
    <3>1. doc[m] \in 1 .. B.used /\ doc[n] \in (B.used + 1) .. (B.used + K)
      BY <2>3, <1>9
    <3> QED
      BY <3>1, <1>2, <1>8, <1>10
  <2>4. CASE to[m] = 0 /\ to[n] # 0
    <3>1. doc[n] \in 1 .. B.used /\ doc[m] \in (B.used + 1) .. (B.used + K)
      BY <2>4, <1>9
    <3> QED
      BY <3>1, <1>2, <1>8, <1>10
  <2> QED
    BY <2>1, <2>2, <2>3, <2>4
<1>11. \A n \in 1 .. N : doc[n] \in 1 .. (B.used + K)
  BY <1>2, <1>8, <1>9
<1>12. doc \in Seq(Nat)
  <2>1. \A n \in 1 .. N : doc[n] \in Nat
    BY <1>2, <1>8, <1>11
  <2> QED
    BY <2>1, <1>3, <1>b
<1>13. IdsOK(doc, B.used + K)
  BY <1>5, <1>10, <1>11 DEF IdsOK
<1>14. \A i \in rewritten \cup new : \E n \in 1 .. N : doc[n] = i
  BY <1>5, <1>a DEF Overwritten
<1>15. \A i \in rewritten \cup new : SnapRow(i).text \in Texts /\ SnapRow(i).vec = SnapRow(i).text
  <2> TAKE i \in rewritten \cup new
  <2> DEFINE n == CHOOSE n \in DOMAIN doc : doc[n] = i
  <2>1. n \in 1 .. N
    BY <1>5, <1>14
  <2> QED
    BY <2>1, <1>4
<1>16. \A i \in Ids : B.used < i /\ i <= B.used + K => i \in new
  <2> SUFFICES ASSUME NEW i \in Ids, B.used < i, i <= B.used + K PROVE i \in new
    OBVIOUS
  <2>1. i - B.used \in 1 .. K
    BY <1>2, <1>8 DEF Ids
  <2>2. PICK n \in fresh : Rank(fresh, n) = i - B.used
    BY <2>1, <1>8
  <2>3. n \in 1 .. N /\ to[n] = 0
    BY <1>5, <1>7
  <2>4. doc[n] = B.used + (i - B.used)
    BY <2>2, <2>3, <1>6
  <2>5. doc[n] = i
    BY <2>4, <1>2 DEF Ids
  <2> QED
    BY <2>5, <1>a
<1> HIDE DEF rewritten, SnapRow
<1>17. /\ text \in [Ids -> Texts \cup {NoText}]
       /\ vec \in [Ids -> Texts \cup {NoText}]
       /\ old \in [Ids -> Texts \cup {NoText}]
  <2>1. text \in [Ids -> Texts \cup {NoText}]
    BY <1>2, <1>15
  <2>2. vec \in [Ids -> Texts \cup {NoText}]
    BY <1>2, <1>15
  <2>3. old \in [Ids -> Texts \cup {NoText}]
    BY <1>2
  <2> QED
    BY <2>1, <2>2, <2>3
<1>18. ASSUME NEW i \in Ids, i <= B.used + K PROVE text[i] \in Texts /\ vec[i] = text[i]
  <2>1. CASE i \in rewritten \cup new
    BY <2>1, <1>15
  <2>2. CASE i \notin rewritten \cup new
    <3>1. i <= B.used
      BY <2>2, <1>2, <1>16, <1>18 DEF Ids
    <3> QED
      BY <3>1, <2>2, <1>2 DEF TextsOK
  <2> QED
    BY <2>1, <2>2
<1>c. C.doc = doc /\ C.used = B.used + K /\ C.text = text /\ C.vec = vec
  BY <1>1
<1> HIDE DEF text, vec, old
<1>19. C \in Fields
  BY <1>1, <1>2, <1>8, <1>12, <1>17 DEF Fields
<1>20. TextsOK(C)
  BY <1>18, <1>c DEF TextsOK
<1>d. K = Cardinality({n \in DOMAIN to : to[n] = 0})
  BY DEF K, fresh
<1> HIDE DEF C
<1> QED
  BY <1>13, <1>19, <1>20, <1>c, <1>d DEF Values, C

\* _capture
LEMMA CaptureOK ==
    ASSUME NEW B \in Values, B.used <= IdBound
    PROVE  Capture(B) \in Seq(Row) /\ Matching(Capture(B))
<1>1. B.doc \in Seq(Nat) /\ B.used \in Nat /\ IdsOK(B.doc, B.used) /\ TextsOK(B)
  BY DEF Values, Fields
<1> DEFINE N == Len(B.doc)
<1>2. N \in Nat /\ DOMAIN B.doc = 1 .. N
  BY <1>1
<1>3. \A n \in 1 .. N : B.doc[n] \in Ids /\ B.doc[n] <= B.used
  BY <1>1, <1>2, BoundAssumption DEF IdsOK, Ids
<1>4. \A n \in 1 .. N : B.text[B.doc[n]] \in Texts /\ B.vec[B.doc[n]] = B.text[B.doc[n]]
  BY <1>1, <1>3 DEF TextsOK
<1> HIDE DEF N
<1>5. Capture(B) = [n \in 1 .. N |-> [id |-> B.doc[n], text |-> B.text[B.doc[n]],
                                       vec |-> B.vec[B.doc[n]]]]
  BY <1>2 DEF Capture
<1>6. \A n \in 1 .. N : Capture(B)[n] \in Row /\ Capture(B)[n].vec = Capture(B)[n].text
  BY <1>3, <1>4, <1>5 DEF Row
<1>7. DOMAIN Capture(B) = 1 .. N /\ Capture(B) = [n \in 1 .. N |-> Capture(B)[n]]
  BY <1>5
<1>8. Matching(Capture(B))
  BY <1>6, <1>7 DEF Matching
<1>9. Capture(B) \in [1 .. N -> Row]
  BY ONLY <1>6, <1>7
<1> QED
  BY <1>2, <1>8, <1>9

-----------------------------------------------------------------------------
(* Requests.                                                                 *)

LEMMA GreatestNumber ==
    ASSUME NEW N \in Nat, NEW S \in SUBSET (0 .. N), S # {}
    PROVE  \E m \in S : \A k \in S : k <= m
<1> DEFINE U == {n \in Nat : \A k \in S : k <= n}
<1>1. U \in SUBSET Nat /\ N \in U
  OBVIOUS
<1>2. PICK m \in U : \A n \in U : m <= n
  <2> HIDE DEF U
  <2> QED
    BY <1>1, LeastNumber
<1>3. m \in S
  <2> SUFFICES ASSUME m \notin S PROVE FALSE
    OBVIOUS
  <2>1. m \in Nat /\ \A k \in S : k \in Nat /\ k <= m /\ k # m
    BY <1>2
  <2>2. m - 1 \in Nat
    <3>1. PICK k \in S : TRUE
      OBVIOUS
    <3> QED
      BY <3>1, <2>1
  <2>3. \A k \in S : k <= m - 1
    BY <2>1
  <2>4. m - 1 \in U
    BY <2>2, <2>3
  <2> QED
    BY <2>1, <2>4, <1>2
<1> QED
  BY <1>2, <1>3

LEMMA LatestOK ==
    ASSUME SnapsOK, Approved # {}
    PROVE  /\ Latest(Approved) \in Approved
           /\ \A s \in Approved : snaps[s].at <= snaps[Latest(Approved)].at
<1> DEFINE T == {snaps[s].at : s \in Approved}
<1>1. T \in SUBSET (0 .. clock) /\ T # {} /\ clock \in Nat
  <2>1. \A s \in Approved : snaps[s] \in Snap /\ snaps[s].at <= clock
    BY DEF SnapsOK, Approved
  <2> QED
    BY <2>1 DEF SnapsOK, Snap
<1>2. PICK t \in T : \A u \in T : u <= t
  <2> HIDE DEF T
  <2> QED
    BY <1>1, GreatestNumber
<1>3. \E m \in Approved : \A k \in Approved : snaps[k].at <= snaps[m].at
  BY <1>2
<1> QED
  BY <1>3 DEF Latest

LEMMA DocumentIds ==
    ASSUME BrdOK
    PROVE  /\ Elements(brd.doc) \subseteq Ids /\ brd \in Fields
           /\ brd.text \in [Ids -> Texts \cup {NoText}] /\ brd.old \in [Ids -> Texts \cup {NoText}]
           /\ \A i \in Elements(brd.doc) : brd.text[i] \in Texts
BY BoundAssumption DEF BrdOK, Values, Fields, IdsOK, TextsOK, Elements, Ids

\* what the pages and the plans ask for
LEMMA ChangesOK ==
    ASSUME BrdOK
    PROVE  /\ \A i \in Ids, t \in Texts \cup {Long} :
                 [kind |-> "edit", id |-> i, text |-> t, base |-> NoText] \in Change
           /\ \A i \in Ids :
                 /\ [kind |-> "split", id |-> i, text |-> NoText, base |-> NoText] \in Change
                 /\ [kind |-> "delete", id |-> i, text |-> NoText, base |-> NoText] \in Change
           /\ \A i \in 0 .. IdBound, t \in Texts \cup {Long} :
                 [kind |-> "add", id |-> i, text |-> t, base |-> NoText] \in Change
           /\ \A i \in Ids : EditOps(i) \subseteq Change /\ DeleteOp(i) \in Change
           /\ \A t \in Texts : AddOp(t) \in Change
<1>1. brd.text \in [Ids -> Texts \cup {NoText}]
  BY DocumentIds
<1>2. NoText \notin Texts /\ NoText # Long /\ Ids \subseteq 0 .. IdBound /\ 0 \in 0 .. IdBound
  BY TextAssumption, BoundAssumption DEF Ids
<1>3. \A i \in Ids, t \in Texts : [kind |-> "edit", id |-> i, text |-> t, base |-> brd.text[i]] \in Change
  BY <1>1, <1>2 DEF Change, Op
<1>4. \A i \in Ids : DeleteOp(i) \in Change
  BY <1>1, <1>2 DEF Change, Op, DeleteOp
<1>5. \A i \in Ids : EditOps(i) \subseteq Change
  BY <1>3 DEF EditOps
<1>6. \A t \in Texts : AddOp(t) \in Change
  BY <1>2 DEF AddOp, Change, Op
<1>7. \A i \in Ids, t \in Texts \cup {Long} :
         [kind |-> "edit", id |-> i, text |-> t, base |-> NoText] \in Change
  BY <1>2 DEF Change, Op
<1>8. \A i \in Ids :
         /\ [kind |-> "split", id |-> i, text |-> NoText, base |-> NoText] \in Change
         /\ [kind |-> "delete", id |-> i, text |-> NoText, base |-> NoText] \in Change
  BY <1>2 DEF Change, Op
<1>9. \A i \in 0 .. IdBound, t \in Texts \cup {Long} :
         [kind |-> "add", id |-> i, text |-> t, base |-> NoText] \in Change
  BY <1>2 DEF Change, Op
<1> QED
  BY <1>4, <1>5, <1>6, <1>7, <1>8, <1>9

LEMMA PlansOK ==
    ASSUME BrdOK, NEW ops \in Plans
    PROVE  ops \in Seq(Change)
<1>1. Elements(brd.doc) \subseteq Ids
  BY DocumentIds
<1>2. /\ \A i \in Elements(brd.doc) : EditOps(i) \subseteq Change /\ DeleteOp(i) \in Change
      /\ \A t \in Texts : AddOp(t) \in Change
  BY <1>1, ChangesOK
<1>3. ASSUME NEW p \in Planned PROVE p \in Seq(Change)
  <2>1. CASE \E t \in Texts : p = <<AddOp(t)>>
    BY <2>1, <1>2
  <2>2. CASE \E i \in Elements(brd.doc) : \E op \in EditOps(i) :
                \E j \in Elements(brd.doc) \ {i} : p = <<op, DeleteOp(j)>>
    <3>1. PICK op \in Change, d \in Change : p = <<op, d>>
      BY <2>2, <1>2
    <3> QED
      BY <3>1
  <2> QED
    BY <2>1, <2>2 DEF Planned
<1>4. ASSUME NEW p \in Planned, NEW q \in ScopeEdited(p) PROVE q \in Seq(Change)
  <2>1. PICK i \in Elements(brd.doc) : \E op \in EditOps(i) : q = Append(p, op)
    BY DEF ScopeEdited
  <2>2. PICK op \in Change : q = Append(p, op)
    BY <2>1, <1>2
  <2> QED
    BY <2>2, <1>3
<1>5. ops \in Planned \/ \E p \in Planned : ops \in ScopeEdited(p)
  BY DEF Plans
<1> QED
  BY <1>3, <1>4, <1>5

\* a request that leaves the database alone
Asking(c, r) ==
    /\ r \in Requests /\ (r.step \in {"approve", "restore"} => r.snap \in DOMAIN snaps)
    /\ req' = [req EXCEPT ![c] = r]
    /\ clock' \in Nat /\ clock <= clock' /\ r.at <= clock'
    /\ UNCHANGED <<brd, review, snaps, done, blessed, surprise, overtaken, runs>>

Asked(c, r) == Asking(c, r) /\ r.step # "bust"

Back(s) == [Idle EXCEPT !.step = "restore", !.snap = s]

LEMMA RequestOK ==
    ASSUME BrdOK, SnapsOK, NEW c \in Clients, Request(c)
    PROVE  /\ writes < WriteBound /\ writes' = writes + 1
           /\ \E r : Asked(c, r)
<1>1. writes < WriteBound /\ writes' = writes + 1
  BY DEF Request, MayBegin, BeginUpdate, BeginSplit, BeginRemove, BeginRevert, BeginAdd, BeginApply,
         BeginApprove, BeginDiscard, BeginRestore, Begin
<1>0. clock \in Nat
  BY DEF SnapsOK
<1>2. ASSUME NEW r, Begin(c, r), r \in Requests, r.step = "restore" => r.snap \in DOMAIN snaps,
             r.step # "approve", r.at = 0
      PROVE  Asking(c, r)
  BY <1>0, <1>2 DEF Begin, Asking
<1>3. ASSUME NEW op \in Change, Begin(c, Single(op)) PROVE \E r : Asked(c, r)
  <2>1. <<op>> \in Seq(Change)
    OBVIOUS
  <2>2. Single(op) \in Requests
    BY <2>1 DEF Single, Idle, Requests, Steps
  <2>3. Single(op).step = "ready" /\ Single(op).at = 0
    BY DEF Single, Idle
  <2> QED
    BY <2>2, <2>3, <1>2, <1>3 DEF Asked
<1>4. ASSUME NEW i \in Ids, NEW t \in Texts \cup {Long},
             Begin(c, Single([kind |-> "edit", id |-> i, text |-> t, base |-> NoText]))
      PROVE  \E r : Asked(c, r)
  <2> DEFINE op == [kind |-> "edit", id |-> i, text |-> t, base |-> NoText]
  <2>1. op \in Change /\ Begin(c, Single(op))
    BY <1>4, ChangesOK
  <2> HIDE DEF op
  <2> QED
    BY <2>1, <1>3
<1>5. ASSUME NEW i \in Ids, NEW k \in {"split", "delete"},
             Begin(c, Single([kind |-> k, id |-> i, text |-> NoText, base |-> NoText]))
      PROVE  \E r : Asked(c, r)
  <2> DEFINE op == [kind |-> k, id |-> i, text |-> NoText, base |-> NoText]
  <2>1. op \in Change /\ Begin(c, Single(op))
    BY <1>5, ChangesOK
  <2> HIDE DEF op
  <2> QED
    BY <2>1, <1>3
<1>6. ASSUME NEW i \in 0 .. IdBound, NEW t \in Texts \cup {Long},
             Begin(c, Single([kind |-> "add", id |-> i, text |-> t, base |-> NoText]))
      PROVE  \E r : Asked(c, r)
  <2> DEFINE op == [kind |-> "add", id |-> i, text |-> t, base |-> NoText]
  <2>1. op \in Change /\ Begin(c, Single(op))
    BY <1>6, ChangesOK
  <2> HIDE DEF op
  <2> QED
    BY <2>1, <1>3
<1>7. ASSUME \/ \E i \in Ids, t \in Texts \cup {Long} : BeginUpdate(c, i, t)
             \/ \E i \in Ids : BeginSplit(c, i) \/ BeginRemove(c, i)
             \/ \E i \in 0 .. IdBound, t \in Texts \cup {Long} : BeginAdd(c, i, t)
      PROVE  \E r : Asked(c, r)
  <2>1. CASE \E i \in Ids, t \in Texts \cup {Long} : BeginUpdate(c, i, t)
    <3>1. PICK i \in Ids, t \in Texts \cup {Long} : BeginUpdate(c, i, t)
      BY <2>1
    <3> QED
      BY <3>1, <1>4 DEF BeginUpdate
  <2>2. CASE \E i \in Ids : BeginSplit(c, i) \/ BeginRemove(c, i)
    <3>1. PICK i \in Ids : BeginSplit(c, i) \/ BeginRemove(c, i)
      BY <2>2
    <3>2. \E k \in {"split", "delete"} :
             Begin(c, Single([kind |-> k, id |-> i, text |-> NoText, base |-> NoText]))
      BY <3>1 DEF BeginSplit, BeginRemove
    <3> QED
      BY <3>2, <1>5
  <2>3. CASE \E i \in 0 .. IdBound, t \in Texts \cup {Long} : BeginAdd(c, i, t)
    <3>1. PICK i \in 0 .. IdBound, t \in Texts \cup {Long} : BeginAdd(c, i, t)
      BY <2>3
    <3> QED
      BY <3>1, <1>6 DEF BeginAdd
  <2> QED
    BY <1>7, <2>1, <2>2, <2>3
<1>8. CASE \E i \in Ids : BeginRevert(c, i)
  <2>1. PICK i \in Ids : BeginRevert(c, i)
    BY <1>8
  <2> DEFINE t == brd.old[i]
  <2>2. t \in Texts \cup {Long}
    BY <2>1, DocumentIds DEF BeginRevert
  <2>3. Begin(c, Single([kind |-> "edit", id |-> i, text |-> t, base |-> NoText]))
    BY <2>1 DEF BeginRevert
  <2> HIDE DEF t
  <2> QED
    BY <2>2, <2>3, <1>1, <1>4
<1>9. CASE \E ops \in Plans : BeginApply(c, ops)
  <2>1. PICK ops \in Plans : BeginApply(c, ops)
    BY <1>9
  <2> DEFINE r == [Idle EXCEPT !.step = "ready", !.ops = ops, !.keyed = TRUE]
  <2>2. ops \in Seq(Change) /\ Begin(c, r)
    BY <2>1, PlansOK DEF BeginApply
  <2>3. r \in Requests
    BY <2>2 DEF Idle, Requests, Steps
  <2>4. r.step = "ready" /\ r.at = 0
    BY DEF Idle
  <2> HIDE DEF r
  <2>5. Asked(c, r)
    BY <2>2, <2>3, <2>4, <1>2 DEF Asked
  <2> QED
    BY <2>5, <1>1
<1>10. ASSUME NEW s \in DOMAIN snaps, Begin(c, Back(s)) PROVE \E r : Asked(c, r)
  <2> DEFINE r == Back(s)
  <2>1. s \in Nat /\ Begin(c, r)
    BY <1>10 DEF SnapsOK
  <2>2. <<>> \in Seq(Change)
    OBVIOUS
  <2>3. r \in Requests
    BY <2>1, <2>2 DEF Idle, Requests, Steps, Back
  <2>4. r.step = "restore" /\ r.snap = s /\ r.at = 0
    BY DEF Idle, Back
  <2> HIDE DEF r
  <2>5. Asked(c, r)
    BY <2>1, <2>3, <2>4, <1>2 DEF Asked
  <2> QED
    BY <2>5, <1>1
<1>11. CASE BeginDiscard(c)
  <2> DEFINE s == Latest(Approved)
  <2>1. s \in DOMAIN snaps
    BY <1>11, LatestOK DEF BeginDiscard, Approved
  <2>2. Begin(c, Back(s))
    BY <1>11 DEF BeginDiscard, Back
  <2> HIDE DEF s
  <2> QED
    BY <2>1, <2>2, <1>1, <1>10
<1>12. CASE \E s \in DOMAIN snaps : BeginRestore(c, s)
  <2>1. PICK s \in DOMAIN snaps : BeginRestore(c, s)
    BY <1>12
  <2>2. Begin(c, Back(s))
    BY <2>1 DEF BeginRestore, Back
  <2> QED
    BY <2>1, <2>2, <1>1, <1>10
<1>13. CASE BeginApprove(c)
  <2> DEFINE r == [Idle EXCEPT !.step = "capture", !.at = clock']
  <2>1. req' = [req EXCEPT ![c] = r] /\ clock' = clock + 1
    BY <1>13 DEF BeginApprove
  <2>2. clock' \in Nat /\ clock <= clock' /\ <<>> \in Seq(Change)
    BY <2>1, <1>0
  <2>3. r \in Requests /\ r.step = "capture" /\ r.at = clock'
    BY <2>2 DEF Idle, Requests, Steps
  <2> HIDE DEF r
  <2>4. r.at <= clock'
    BY <2>2, <2>3
  <2>5. Asked(c, r)
    BY <2>1, <2>2, <2>3, <2>4, <1>13 DEF Asked, Asking, BeginApprove
  <2> QED
    BY <2>5, <1>1
<1> QED
  BY <1>1, <1>7, <1>8, <1>9, <1>11, <1>12, <1>13 DEF Request

-----------------------------------------------------------------------------
(* What a step does to the BRD, its snapshots and its review.                *)

ReqsOK == BrdOK /\ SnapsOK /\ RequestsOK /\ KeysOK /\ ReviewOK

LEMMA KeysKept ==
    ASSUME KeysOK, UNCHANGED <<done, runs>>
    PROVE  KeysOK'
BY DEF KeysOK, AppliedOnce

LEMMA ReviewKept ==
    ASSUME ReviewOK, UNCHANGED <<brd, review, snaps, blessed, surprise, overtaken>>
    PROVE  ReviewOK'
BY DEF ReviewOK, ApprovedIsReviewed, DiscardFindsReviewed, Approved, Latest, Capture

\* the step of a request: it goes on, or it ends
LEMMA RequestMoves ==
    ASSUME RequestsOK, NEW c \in Clients, NEW r \in Requests, req' = [req EXCEPT ![c] = r],
           DOMAIN snaps \subseteq DOMAIN snaps', clock \in Nat, clock' \in Nat, clock <= clock',
           r.step \in {"approve", "restore"} => r.snap \in DOMAIN snaps', r.at <= clock'
    PROVE  RequestsOK'
<1>1. req' \in [Clients -> Requests]
  BY DEF RequestsOK
<1>2. ASSUME NEW d \in Clients, req'[d].step \in {"approve", "restore"}
      PROVE  req'[d].snap \in DOMAIN snaps'
  <2>1. CASE d = c
    BY <2>1, <1>2 DEF RequestsOK
  <2>2. CASE d # c
    BY <2>2, <1>2 DEF RequestsOK
  <2> QED
    BY <2>1, <2>2
<1>3. ASSUME NEW d \in Clients PROVE req'[d].at <= clock'
  <2>1. CASE d = c
    BY <2>1 DEF RequestsOK
  <2>2. CASE d # c
    <3>1. req'[d] = req[d] /\ req[d].at <= clock /\ req[d].at \in Nat
      BY <2>2 DEF RequestsOK, Requests
    <3> QED
      BY <3>1
  <2> QED
    BY <2>1, <2>2
<1> QED
  BY <1>1, <1>2, <1>3 DEF RequestsOK

LEMMA RequestRests ==
    ASSUME RequestsOK, SnapsOK, NEW c \in Clients, NEW r \in Requests, req' = [req EXCEPT ![c] = r],
           DOMAIN snaps \subseteq DOMAIN snaps', clock' = clock,
           r.step \in {"approve", "restore"} => r.snap \in DOMAIN snaps', r.at = 0
    PROVE  RequestsOK'
<1>1. clock \in Nat /\ clock' \in Nat /\ clock <= clock' /\ r.at <= clock'
  BY DEF SnapsOK
<1> QED
  BY <1>1, RequestMoves

LEMMA IdleOK == Idle \in Requests /\ Idle.step = "idle" /\ Idle.at = 0
<1>1. <<>> \in Seq(Change)
  OBVIOUS
<1> QED
  BY <1>1 DEF Idle, Requests, Steps

LEMMA AskedStep ==
    ASSUME ReqsOK, NEW c \in Clients, NEW r, Asking(c, r)
    PROVE  ReqsOK'
<1>0. clock \in Nat /\ clock' \in Nat /\ clock <= clock'
  BY DEF ReqsOK, SnapsOK, Asking
<1>1. BrdOK' /\ SnapsOK'
  <2>1. ASSUME NEW s \in DOMAIN snaps PROVE snaps[s].at <= clock'
    <3>1. snaps[s] \in Snap /\ snaps[s].at <= clock
      BY DEF ReqsOK, SnapsOK
    <3>2. snaps[s].at \in Nat
      BY <3>1 DEF Snap
    <3> QED
      BY <3>1, <3>2, <1>0
  <2> QED
    BY <2>1, <1>0 DEF ReqsOK, BrdOK, SnapsOK, Asking
<1>2. RequestsOK'
  BY <1>0, RequestMoves DEF ReqsOK, Asking
<1> QED
  BY <1>1, <1>2, KeysKept, ReviewKept DEF ReqsOK, Asking

\* nothing else than the request
LEMMA EndedStep ==
    ASSUME ReqsOK, NEW c \in Clients, req' = [req EXCEPT ![c] = Idle],
           UNCHANGED <<brd, review, snaps, done, clock, blessed, surprise, overtaken, runs>>
    PROVE  ReqsOK'
<1>1. Asking(c, Idle)
  BY IdleOK DEF Asking, ReqsOK, SnapsOK
<1> QED
  BY <1>1, AskedStep

LEMMA SnapAppended ==
    ASSUME BrdOK, SnapsOK, NEW k \in {"approved", "manual", "auto"}, NEW t \in Nat,
           NEW b \in BOOLEAN, t <= clock, clock' = clock,
           snaps' = Append(snaps, Snapshot(k, t, b))
    PROVE  /\ SnapsOK'
           /\ Len(snaps) \in Nat /\ DOMAIN snaps = 1 .. Len(snaps)
           /\ DOMAIN snaps' = 1 .. (Len(snaps) + 1)
           /\ \A s \in DOMAIN snaps : snaps'[s] = snaps[s]
           /\ snaps'[Len(snaps) + 1] = Snapshot(k, t, b)
<1>1. Capture(brd) \in Seq(Row) /\ Matching(Capture(brd))
  BY CaptureOK DEF BrdOK
<1>2. Snapshot(k, t, b) \in Snap /\ Matching(Snapshot(k, t, b).rows)
  BY <1>1 DEF Snapshot, Snap
<1>3. snaps \in Seq(Snap)
  BY DEF SnapsOK
<1>4. /\ Len(snaps) \in Nat /\ DOMAIN snaps = 1 .. Len(snaps)
      /\ snaps' \in Seq(Snap) /\ DOMAIN snaps' = 1 .. (Len(snaps) + 1)
      /\ \A s \in 1 .. Len(snaps) : snaps'[s] = snaps[s]
      /\ snaps'[Len(snaps) + 1] = Snapshot(k, t, b)
  <2> DEFINE x == Snapshot(k, t, b)
  <2>1. x \in Snap /\ snaps' = Append(snaps, x)
    BY <1>2
  <2> HIDE DEF x
  <2>2. /\ Len(snaps) \in Nat /\ DOMAIN snaps = 1 .. Len(snaps)
        /\ snaps' \in Seq(Snap) /\ Len(snaps') = Len(snaps) + 1
        /\ \A s \in 1 .. Len(snaps) : snaps'[s] = snaps[s]
        /\ snaps'[Len(snaps) + 1] = x
    BY <1>3, <2>1
  <2>3. DOMAIN snaps' = 1 .. (Len(snaps) + 1)
    BY ONLY <2>2
  <2> QED
    BY <2>2, <2>3 DEF x
<1>5. ASSUME NEW s \in 1 .. (Len(snaps) + 1) PROVE Matching(snaps'[s].rows) /\ snaps'[s].at <= clock'
  <2>1. CASE s = Len(snaps) + 1
    BY <2>1, <1>2, <1>4 DEF Snapshot
  <2>2. CASE s # Len(snaps) + 1
    <3>1. s \in 1 .. Len(snaps)
      BY <2>2, <1>4
    <3> QED
      BY <3>1, <1>4 DEF SnapsOK
  <2> QED
    BY <2>1, <2>2
<1>6. SnapsOK'
  BY <1>4, <1>5 DEF SnapsOK, Matching
<1> QED
  BY <1>4, <1>6

\* a snapshot that is not an approved one that is seen leaves what discard picks alone
LEMMA ApprovedKept ==
    ASSUME BrdOK, SnapsOK, NEW k \in {"approved", "manual", "auto"}, NEW t \in Nat,
           NEW b \in BOOLEAN, t <= clock, clock' = clock,
           snaps' = Append(snaps, Snapshot(k, t, b)), k = "approved" => b = FALSE
    PROVE  Approved' = Approved
<1> DEFINE N == Len(snaps)
<1>1. /\ N \in Nat /\ DOMAIN snaps = 1 .. N /\ DOMAIN snaps' = 1 .. (N + 1)
      /\ \A s \in DOMAIN snaps : snaps'[s] = snaps[s]
      /\ snaps'[N + 1] = Snapshot(k, t, b)
  BY SnapAppended
<1> HIDE DEF N
<1>2. ~(snaps'[N + 1].kind = "approved" /\ snaps'[N + 1].shown)
  BY <1>1 DEF Snapshot
<1>3. \A s \in 1 .. (N + 1) : s \in 1 .. N \/ s = N + 1
  BY <1>1
<1>4. 1 .. N \subseteq 1 .. (N + 1)
  BY <1>1
<1> QED
  BY <1>1, <1>2, <1>3, <1>4 DEF Approved

LEMMA ReviewAppended ==
    ASSUME BrdOK, SnapsOK, ReviewOK, NEW k \in {"approved", "manual", "auto"}, NEW t \in Nat,
           NEW b \in BOOLEAN, t <= clock, clock' = clock,
           snaps' = Append(snaps, Snapshot(k, t, b)), k = "approved" => b = FALSE,
           UNCHANGED <<brd, review, blessed, surprise, overtaken>>
    PROVE  ReviewOK'
<1>1. Approved' = Approved /\ \A s \in DOMAIN snaps : snaps'[s] = snaps[s]
  BY ApprovedKept, SnapAppended
<1>2. ApprovedIsReviewed' /\ review' \in {"approved", "draft"}
  BY DEF ReviewOK, ApprovedIsReviewed, Capture
<1>3. DiscardFindsReviewed'
  <2> SUFFICES ASSUME review = "draft", ~surprise, ~overtaken
               PROVE  Approved' # {} /\ snaps'[Latest(Approved)'].rows = blessed
    BY DEF DiscardFindsReviewed
  <2>1. Approved # {} /\ snaps[Latest(Approved)].rows = blessed
    BY DEF ReviewOK, DiscardFindsReviewed
  <2>2. Latest(Approved) \in DOMAIN snaps
    BY <2>1, LatestOK DEF Approved
  <2>3. \A s \in Approved : snaps'[s].at = snaps[s].at
    BY <1>1 DEF Approved
  <2>4. Latest(Approved)' = Latest(Approved)
    BY <1>1, <2>3 DEF Latest
  <2> QED
    BY <1>1, <2>1, <2>2, <2>4
<1> QED
  BY <1>2, <1>3 DEF ReviewOK

\* the snapshot that the first edit since an approval takes is the newest approved one, unless
\* one of those before it has a later stamp
LEMMA ReviewBaseline ==
    ASSUME BrdOK, SnapsOK, ReviewOK, review = "approved", NEW t \in Nat, t <= clock, clock' = clock,
           snaps' = Append(snaps, Snapshot("approved", t, TRUE)),
           overtaken' = \E s \in Approved : snaps[s].at >= t,
           UNCHANGED <<blessed, surprise>>, review' = "draft"
    PROVE  ReviewOK'
<1> DEFINE N == Len(snaps)
<1>1. /\ N \in Nat /\ DOMAIN snaps = 1 .. N /\ DOMAIN snaps' = 1 .. (N + 1)
      /\ \A s \in DOMAIN snaps : snaps'[s] = snaps[s]
      /\ snaps'[N + 1] = Snapshot("approved", t, TRUE)
  BY SnapAppended
<1>2. \A s \in DOMAIN snaps : snaps[s].at \in Nat
  <2>1. \A s \in DOMAIN snaps : snaps[s] \in Snap
    BY DEF SnapsOK
  <2> QED
    BY <2>1 DEF Snap
<1> HIDE DEF N
<1>3. /\ N + 1 \in Approved' /\ snaps'[N + 1].at = t
      /\ \A s \in Approved' : s = N + 1 \/ (s \in Approved /\ snaps'[s].at = snaps[s].at)
  BY <1>1 DEF Approved, Snapshot
<1>4. ASSUME ~overtaken' PROVE Latest(Approved)' = N + 1
  <2>1. \A s \in Approved : snaps[s].at < t /\ snaps[s].at \in Nat
    BY <1>2, <1>4 DEF Approved
  <2>2. ASSUME NEW s \in Approved'
        PROVE  /\ snaps'[s].at <= snaps'[N + 1].at
               /\ snaps'[N + 1].at <= snaps'[s].at => s = N + 1
    <3>1. CASE s = N + 1
      <4>1. t <= t
        OBVIOUS
      <4> QED
        BY <4>1, <3>1, <1>3
    <3>2. CASE s # N + 1
      <4>1. s \in Approved /\ snaps'[s].at = snaps[s].at
        BY <3>2, <1>3
      <4>2. snaps[s].at < t /\ snaps[s].at \in Nat
        BY <4>1, <2>1
      <4>3. snaps[s].at <= t /\ ~(t <= snaps[s].at)
        BY ONLY <4>2, t \in Nat
      <4> QED
        BY ONLY <4>1, <4>3, <1>3
    <3> QED
      BY <3>1, <3>2
  <2> QED
    BY <2>2, <1>3 DEF Latest
<1>5. ~surprise => Capture(brd) = blessed
  BY DEF ReviewOK, ApprovedIsReviewed
<1>6. snaps'[N + 1].rows = Capture(brd)
  BY <1>1 DEF Snapshot
<1>7. DiscardFindsReviewed'
  BY <1>3, <1>4, <1>5, <1>6 DEF DiscardFindsReviewed
<1> QED
  BY <1>7 DEF ReviewOK, ApprovedIsReviewed

LEMMA CommitStep ==
    ASSUME ReqsOK, NEW c \in Clients, Commit(c)
    PROVE  ReqsOK'
<1> DEFINE r == req[c]
           states == States(brd, r.ops)
           B == states[Len(r.ops)]
<1>1. /\ r.keyed => Key(r) \notin done
      /\ B.used <= IdBound /\ brd' = B
      /\ snaps' = Baseline(r.at).snaps /\ review' = Baseline(r.at).review
      /\ done' = IF r.keyed THEN done \cup {Key(r)} ELSE done
      /\ runs' = IF r.keyed THEN Append(runs, Key(r)) ELSE runs
      /\ overtaken' = IF review = "approved" THEN \E s \in Approved : snaps[s].at >= r.at
                      ELSE overtaken
      /\ UNCHANGED <<clock, writes, blessed, surprise>>
  BY DEF Commit
<1>2. /\ r \in Requests /\ r.ops \in Seq(Change)
      /\ r.at \in Nat /\ r.at <= clock /\ clock \in Nat
  BY DEF ReqsOK, SnapsOK, RequestsOK, Requests
<1>3. BrdOK'
  <2>1. states \in [0 .. Len(r.ops) -> Values] /\ Len(r.ops) \in 0 .. Len(r.ops)
    BY <1>2, StatesOK DEF ReqsOK, BrdOK
  <2> HIDE DEF states, r
  <2> QED
    BY <2>1, <1>1 DEF BrdOK
<1>4. KeysOK'
  <2> DEFINE K == Key(r)
  <2>1. runs \in Seq(done) /\ \A m, n \in DOMAIN runs : m # n => runs[m] # runs[n]
    BY DEF ReqsOK, KeysOK, AppliedOnce
  <2>2. CASE ~r.keyed
    BY <2>2, <1>1, KeysKept DEF ReqsOK
  <2>3. CASE r.keyed
    <3>1. K \notin done /\ done' = done \cup {K} /\ runs' = Append(runs, K)
      BY <2>3, <1>1
    <3> HIDE DEF K
    <3> DEFINE N == Len(runs)
    <3>2. /\ N \in Nat /\ DOMAIN runs = 1 .. N /\ \A n \in 1 .. N : runs[n] \in done
          /\ runs' \in Seq(done') /\ DOMAIN runs' = 1 .. (N + 1)
          /\ runs'[N + 1] = K /\ \A n \in 1 .. N : runs'[n] = runs[n]
      <4>1. N \in Nat /\ DOMAIN runs = 1 .. N /\ \A n \in 1 .. N : runs[n] \in done
        BY <2>1
      <4>2. runs \in Seq(done') /\ K \in done'
        BY <2>1, <3>1
      <4>3. /\ runs' \in Seq(done') /\ Len(runs') = N + 1
            /\ runs'[N + 1] = K /\ \A n \in 1 .. N : runs'[n] = runs[n]
        BY <3>1, <4>2
      <4>4. DOMAIN runs' = 1 .. (N + 1)
        BY ONLY <4>3
      <4> QED
        BY <4>1, <4>3, <4>4
    <3> HIDE DEF N
    <3>3. ASSUME NEW m \in 1 .. (N + 1), NEW n \in 1 .. (N + 1), m # n
          PROVE  runs'[m] # runs'[n]
      <4>1. \A k \in 1 .. (N + 1) : k \in 1 .. N \/ k = N + 1
        BY <3>2
      <4> QED
        BY <4>1, <3>1, <3>2, <3>3, <2>1
    <3> QED
      BY <3>2, <3>3 DEF KeysOK, AppliedOnce
  <2> QED
    BY <2>2, <2>3
<1>5. SnapsOK' /\ DOMAIN snaps \subseteq DOMAIN snaps' /\ ReviewOK'
  <2>1. CASE review = "approved"
    <3>1. snaps' = Append(snaps, Snapshot("approved", r.at, TRUE)) /\ review' = "draft"
      BY <2>1, <1>1 DEF Baseline
    <3> HIDE DEF r
    <3>2. SnapsOK'
      BY <3>1, <1>1, <1>2, SnapAppended DEF ReqsOK
    <3>3. /\ Len(snaps) \in Nat /\ DOMAIN snaps = 1 .. Len(snaps)
          /\ DOMAIN snaps' = 1 .. (Len(snaps) + 1)
      BY <3>1, <1>1, <1>2, SnapAppended DEF ReqsOK
    <3>4. DOMAIN snaps \subseteq DOMAIN snaps'
      BY <3>3
    <3> QED
      BY <3>1, <3>2, <3>4, <2>1, <1>1, <1>2, ReviewBaseline DEF ReqsOK
  <2>2. CASE review = "draft"
    <3>1. snaps' = snaps /\ review' = "draft"
      BY <2>2, <1>1 DEF Baseline
    <3>2. DiscardFindsReviewed'
      BY <3>1, <2>2, <1>1 DEF ReqsOK, ReviewOK, DiscardFindsReviewed, Approved, Latest
    <3> QED
      BY <3>1, <3>2, <1>1 DEF ReqsOK, SnapsOK, ReviewOK, ApprovedIsReviewed
  <2> QED
    BY <2>1, <2>2 DEF ReqsOK, ReviewOK
<1>6. RequestsOK'
  <2> DEFINE q == [Idle EXCEPT !.step = "bust"]
  <2>1. q \in Requests /\ q.step = "bust" /\ q.at = 0
    BY IdleOK DEF Idle, Requests, Steps
  <2>2. req' = [req EXCEPT ![c] = Idle] \/ req' = [req EXCEPT ![c] = q]
    BY DEF Commit
  <2>3. RequestsOK /\ SnapsOK
    BY DEF ReqsOK
  <2> HIDE DEF q, r
  <2>4. CASE req' = [req EXCEPT ![c] = Idle]
    BY <2>3, <2>4, <1>1, <1>5, IdleOK, RequestRests
  <2>5. CASE req' = [req EXCEPT ![c] = q]
    BY <2>1, <2>3, <2>5, <1>1, <1>5, RequestRests
  <2> QED
    BY <2>2, <2>4, <2>5
<1> QED
  BY <1>3, <1>4, <1>5, <1>6 DEF ReqsOK

LEMMA TakeSnapshotStep ==
    ASSUME ReqsOK, TakeSnapshot
    PROVE  ReqsOK'
<1>1. snaps' = Append(snaps, Snapshot("manual", 0, TRUE)) /\ BrdOK /\ SnapsOK /\ ReviewOK
  BY DEF TakeSnapshot, ReqsOK
<1>2. UNCHANGED <<brd, review, done, req, clock, blessed, surprise, overtaken, runs>>
  BY DEF TakeSnapshot
<1>0. clock \in Nat /\ 0 <= clock /\ clock' = clock
  BY <1>2 DEF ReqsOK, SnapsOK
<1>3. SnapsOK' /\ DOMAIN snaps \subseteq DOMAIN snaps'
  <2>1. /\ SnapsOK' /\ Len(snaps) \in Nat /\ DOMAIN snaps = 1 .. Len(snaps)
        /\ DOMAIN snaps' = 1 .. (Len(snaps) + 1)
    BY <1>0, <1>1, SnapAppended
  <2> QED
    BY <2>1
<1>4. ReviewOK'
  BY <1>0, <1>1, <1>2, ReviewAppended
<1>5. BrdOK' /\ RequestsOK'
  BY <1>2, <1>3 DEF ReqsOK, BrdOK, RequestsOK
<1> QED
  BY <1>2, <1>3, <1>4, <1>5, KeysKept DEF ReqsOK

LEMMA OpenStep ==
    ASSUME ReqsOK, NEW c \in Clients, Open(c)
    PROVE  ReqsOK'
<1> DEFINE r == [req[c] EXCEPT !.step = "commit", !.at = clock']
<1>1. clock' = clock + 1 /\ req' = [req EXCEPT ![c] = r]
  BY DEF Open
<1>2. clock' \in Nat /\ clock <= clock' /\ clock' <= clock'
  BY <1>1 DEF ReqsOK, SnapsOK
<1>3. req[c] \in Requests
  BY DEF ReqsOK, RequestsOK
<1>4. r \in Requests /\ r.step = "commit" /\ r.at = clock'
  BY <1>2, <1>3 DEF Requests, Steps
<1> HIDE DEF r
<1>5. Asking(c, r)
  BY <1>1, <1>2, <1>4 DEF Open, Asking
<1> QED
  BY <1>5, AskedStep

LEMMA CaptureApprovedStep ==
    ASSUME ReqsOK, NEW c \in Clients, CaptureApproved(c)
    PROVE  ReqsOK'
<1> DEFINE r == [Idle EXCEPT !.step = "approve", !.snap = Len(snaps')]
           t == req[c].at
<1>1. snaps' = Append(snaps, Snapshot("approved", t, FALSE)) /\ BrdOK /\ SnapsOK /\ ReviewOK
  BY DEF CaptureApproved, ReqsOK
<1>2. /\ UNCHANGED <<brd, review, done, clock, blessed, surprise, overtaken, runs>>
      /\ req' = [req EXCEPT ![c] = r]
  BY DEF CaptureApproved
<1>0. t \in Nat /\ t <= clock /\ clock \in Nat /\ clock' = clock
  BY <1>2 DEF ReqsOK, SnapsOK, RequestsOK, Requests
<1> HIDE DEF t
<1>3. /\ SnapsOK' /\ Len(snaps) \in Nat /\ DOMAIN snaps = 1 .. Len(snaps)
      /\ DOMAIN snaps' = 1 .. (Len(snaps) + 1)
  BY <1>0, <1>1, SnapAppended
<1>4. ReviewOK'
  BY <1>0, <1>1, <1>2, ReviewAppended
<1>5. BrdOK'
  BY <1>2 DEF ReqsOK, BrdOK
<1>6. RequestsOK'
  <2>1. <<>> \in Seq(Change) /\ Len(snaps') = Len(snaps) + 1 /\ Len(snaps') \in Nat
    <3>1. snaps \in Seq(Snap) /\ snaps' \in Seq(Snap)
      BY <1>1, <1>3 DEF SnapsOK
    <3> QED
      BY ONLY <3>1, <1>3
  <2>2. r \in Requests
    BY <2>1 DEF Idle, Requests, Steps
  <2>3. r.snap = Len(snaps) + 1 /\ r.at = 0
    BY <2>1 DEF Idle
  <2>4. DOMAIN snaps \subseteq DOMAIN snaps' /\ Len(snaps) + 1 \in DOMAIN snaps'
    BY <1>3
  <2> HIDE DEF r
  <2> QED
    BY <2>2, <2>3, <2>4, <1>0, <1>2, RequestRests DEF ReqsOK
<1> QED
  BY <1>2, <1>3, <1>4, <1>5, <1>6, KeysKept DEF ReqsOK

LEMMA CommitApproveStep ==
    ASSUME ReqsOK, NEW c \in Clients, CommitApprove(c)
    PROVE  ReqsOK'
<1> DEFINE s == req[c].snap
           x == [snaps[s] EXCEPT !.shown = TRUE]
<1>1. /\ req[c].step = "approve" /\ snaps' = [snaps EXCEPT ![s] = x]
      /\ review' = "approved" /\ blessed' = snaps[s].rows
      /\ surprise' = (Capture(brd) # snaps[s].rows)
      /\ req' = [req EXCEPT ![c] = Idle]
      /\ UNCHANGED <<brd, done, clock, writes, overtaken, runs>>
  BY DEF CommitApprove
<1>2. s \in DOMAIN snaps
  BY <1>1 DEF ReqsOK, RequestsOK
<1>3. /\ snaps \in Seq(Snap) /\ clock \in Nat
      /\ \A q \in DOMAIN snaps : Matching(snaps[q].rows) /\ snaps[q].at <= clock
  BY DEF ReqsOK, SnapsOK
<1>4. x \in Snap /\ x.rows = snaps[s].rows /\ x.at = snaps[s].at
  <2>1. snaps[s] \in Snap
    BY <1>2, <1>3
  <2> HIDE DEF s
  <2> QED
    BY <2>1 DEF Snap
<1> HIDE DEF x
<1>5. snaps' \in Seq(Snap) /\ DOMAIN snaps' = DOMAIN snaps
  BY <1>1, <1>2, <1>3, <1>4
<1>6. \A q \in DOMAIN snaps : snaps'[q].rows = snaps[q].rows /\ snaps'[q].at = snaps[q].at
  BY <1>1, <1>2, <1>3, <1>4
<1>7. SnapsOK'
  BY <1>1, <1>3, <1>5, <1>6 DEF SnapsOK, Matching
<1>8. ReviewOK'
  BY <1>1 DEF ReviewOK, ApprovedIsReviewed, DiscardFindsReviewed, Capture
<1>9. RequestsOK'
  BY <1>1, <1>3, <1>5, IdleOK, RequestRests DEF ReqsOK
<1>10. BrdOK' /\ KeysOK'
  BY <1>1, KeysKept DEF ReqsOK, BrdOK
<1> QED
  BY <1>7, <1>8, <1>9, <1>10 DEF ReqsOK

LEMMA CommitRestoreStep ==
    ASSUME ReqsOK, NEW c \in Clients, NEW aligned, CommitRestore(c, aligned)
    PROVE  ReqsOK'
<1> DEFINE rows == snaps[req[c].snap].rows
           to == Matched(brd, rows, aligned)
<1>1. /\ req[c].step = "restore" /\ aligned \in Alignments(brd, rows)
      /\ brd.used + Cardinality({n \in DOMAIN to : to[n] = 0}) <= IdBound
      /\ snaps' = Append(snaps, Snapshot("auto", 0, TRUE))
      /\ brd' = Reconciled(brd, rows, to)
      /\ review' = "approved" /\ blessed' = Capture(brd')
      /\ req' = [req EXCEPT ![c] = [Idle EXCEPT !.step = "bust"]]
      /\ UNCHANGED <<done, clock, overtaken, runs>>
  BY DEF CommitRestore
<1>2. req[c].snap \in DOMAIN snaps
  BY <1>1 DEF ReqsOK, RequestsOK
<1>3. rows \in Seq(Row) /\ Matching(rows)
  <2>1. snaps[req[c].snap] \in Snap
    BY <1>2 DEF ReqsOK, SnapsOK
  <2> QED
    BY <2>1, <1>2 DEF ReqsOK, SnapsOK, Snap
<1>4. brd \in Values /\ BrdOK /\ SnapsOK /\ RequestsOK
  BY DEF ReqsOK, BrdOK
<1>0. clock \in Nat /\ 0 <= clock /\ clock' = clock
  BY <1>1, <1>4 DEF SnapsOK
<1> HIDE DEF rows
<1>5. aligned \in [DOMAIN rows -> Elements(brd.doc) \cup {0}]
  BY <1>1 DEF Alignments
<1>6. to \in Partial(brd.used) /\ Len(to) = Len(rows)
  BY <1>3, <1>4, <1>5, MatchedOK
<1> HIDE DEF to
<1>7. BrdOK'
  BY <1>1, <1>3, <1>4, <1>6, ReconciledOK DEF BrdOK
<1>8. /\ SnapsOK' /\ Len(snaps) \in Nat /\ DOMAIN snaps = 1 .. Len(snaps)
      /\ DOMAIN snaps' = 1 .. (Len(snaps) + 1)
  BY <1>0, <1>1, <1>4, SnapAppended
<1>9. ReviewOK'
  BY <1>1 DEF ReviewOK, ApprovedIsReviewed, DiscardFindsReviewed
<1>10. RequestsOK'
  <2> DEFINE q == [Idle EXCEPT !.step = "bust"]
  <2>2. q \in Requests /\ q.step = "bust" /\ q.at = 0
    BY IdleOK DEF Idle, Requests, Steps
  <2>3. req' = [req EXCEPT ![c] = q]
    BY <1>1
  <2>4. DOMAIN snaps \subseteq DOMAIN snaps'
    BY <1>8
  <2> HIDE DEF q
  <2> QED
    BY <2>2, <2>3, <2>4, <1>0, <1>4, RequestRests
<1> QED
  BY <1>1, <1>7, <1>8, <1>9, <1>10, KeysKept DEF ReqsOK

LEMMA WriteStep ==
    ASSUME ReqsOK, NEW c \in Clients, Request(c) \/ Write(c) \/ Abandon(c)
    PROVE  ReqsOK' /\ (writes' = writes \/ (writes < WriteBound /\ writes' = writes + 1))
<1>1. CASE Request(c)
  BY <1>1, RequestOK, AskedStep DEF ReqsOK, Asked
<1>2. CASE Commit(c)
  BY <1>2, CommitStep DEF Commit
<1>3. CASE Refused(c)
  BY <1>3, EndedStep DEF Refused
<1>4. CASE CommitApprove(c)
  BY <1>4, CommitApproveStep DEF CommitApprove
<1>5. CASE \E aligned \in Alignments(brd, snaps[req[c].snap].rows) : CommitRestore(c, aligned)
  <2>1. PICK aligned \in Alignments(brd, snaps[req[c].snap].rows) : CommitRestore(c, aligned)
    BY <1>5
  <2>2. ReqsOK'
    BY <2>1, CommitRestoreStep
  <2> QED
    BY <2>1, <2>2 DEF CommitRestore
<1>6. CASE Abandon(c)
  BY <1>6, EndedStep DEF Abandon
<1>7. CASE Open(c)
  BY <1>7, OpenStep DEF Open
<1>8. CASE CaptureApproved(c)
  BY <1>8, CaptureApprovedStep DEF CaptureApproved
<1> QED
  BY <1>1, <1>2, <1>3, <1>4, <1>5, <1>6, <1>7, <1>8 DEF Write

\* what a request does next: one that commits a change owes a bust, and one that owes it ends
LEMMA RequestStep ==
    ASSUME ReqsOK, NEW c \in Clients, Request(c) \/ Write(c) \/ Abandon(c)
    PROVE  \E q : /\ req' = [req EXCEPT ![c] = q]
                  /\ req[c].step = "bust" => q.step = "idle"
                  /\ brd' # brd => q.step = "bust"
<1>1. CASE Request(c)
  <2>1. req[c].step = "idle"
    BY <1>1 DEF Request, MayBegin
  <2>2. PICK q : Asked(c, q)
    BY <1>1, RequestOK DEF ReqsOK
  <2> QED
    BY <2>1, <2>2 DEF Asked, Asking
<1>2. CASE Commit(c)
  <2> DEFINE bust == [Idle EXCEPT !.step = "bust"]
  <2>1. /\ req[c].step = "commit" /\ bust.step = "bust"
        /\ req' = [req EXCEPT ![c] = IF ~req[c].keyed /\ brd' = brd THEN Idle ELSE bust]
    BY <1>2 DEF Commit, Idle
  <2> HIDE DEF bust
  <2> QED
    BY <2>1
<1>3. CASE Refused(c) \/ Abandon(c) \/ CommitApprove(c)
  BY <1>3, IdleOK DEF Refused, Abandon, CommitApprove
<1>4. CASE Open(c) \/ CaptureApproved(c)
  <2>1. CASE Open(c)
    BY <2>1 DEF Open
  <2>2. CASE CaptureApproved(c)
    BY <2>2 DEF CaptureApproved
  <2> QED
    BY <1>4, <2>1, <2>2
<1>5. CASE \E aligned \in Alignments(brd, snaps[req[c].snap].rows) : CommitRestore(c, aligned)
  <2> DEFINE bust == [Idle EXCEPT !.step = "bust"]
  <2>1. req[c].step = "restore" /\ bust.step = "bust" /\ req' = [req EXCEPT ![c] = bust]
    BY <1>5 DEF CommitRestore, Idle
  <2> QED
    BY <2>1
<1> QED
  BY <1>1, <1>2, <1>3, <1>4, <1>5 DEF Write

-----------------------------------------------------------------------------
(* The caches.                                                               *)

Due == owed => skipped \/ \E c \in Clients : req[c].step = "bust"
\* a row of cache_kv is as it was, no longer served, or was stored now
Same(new, old) == new = old \/ new = Nothing \/ \E rows : new = Stored(rows)
Kept(a) == a \in answer \/ ~a.fresh \/ \E rows : a.row = Stored(rows)

LEMMA StoredLate == \A rows : Stale(Stored(rows)) => Stored(rows).late
BY DEF Stale, Stored

\* the BRD stays: what is served late or over all BRDs was so before, or is stored as late now
LEMMA CurrentKept ==
    ASSUME ServesCurrent, UNCHANGED brd, owed' = owed, Due',
           Same(found'["brd"], found["brd"]), \A a \in answer' : Kept(a)
    PROVE  ServesCurrent'
<1>1. Capture(brd)' = Capture(brd)
  BY DEF Capture
<1>2. \A row : Stale(row)' <=> Stale(row)
  BY <1>1 DEF Stale
<1>3. Stale(found'["brd"]) => owed \/ found'["brd"].late
  BY StoredLate DEF ServesCurrent, Same, Stale
<1>4. ASSUME NEW a \in answer', a.fresh, IdsOf(a.row.rows) = IdsOf(Capture(brd)), Stale(a.row)
      PROVE  owed \/ a.row.late \/ a.project = "all"
  <2>1. CASE a \in answer
    BY <2>1, <1>4 DEF ServesCurrent, Hit, SameKey
  <2>2. CASE \E rows : a.row = Stored(rows)
    BY <2>2, <1>4, StoredLate
  <2> QED
    BY <2>1, <2>2, <1>4 DEF Kept
<1>5. \A a \in Hit(Capture(brd))' : a \in answer' /\ a.fresh /\ IdsOf(a.row.rows) = IdsOf(Capture(brd))
  BY <1>1 DEF Hit, SameKey
<1> QED
  BY <1>1, <1>2, <1>3, <1>4, <1>5 DEF ServesCurrent, Due

\* the requests and the BRD are left alone
LEMMA DueKept ==
    ASSUME ServesCurrent, UNCHANGED <<req, owed, skipped>>
    PROVE  Due'
BY DEF ServesCurrent, Due

LEMMA BustStep ==
    ASSUME IInv, NEW c \in Clients, BustProject(c)
    PROVE  IInv'
<1>1. ReqsOK
  BY DEF IInv, ReqsOK
<1>2. /\ req' = [req EXCEPT ![c] = Idle]
      /\ UNCHANGED <<brd, review, snaps, done, clock, writes, blessed, surprise, overtaken, runs,
                     turn, asked>>
      /\ found' = [found EXCEPT !["brd"] = Nothing]
      /\ answer' = {a \in answer : a.project # "brd"}
      /\ owed' = FALSE /\ skipped' = FALSE
  BY DEF BustProject, Bust
<1>3. ReqsOK'
  BY <1>1, <1>2, EndedStep
<1>4. CachesOK'
  BY <1>2 DEF IInv, CachesOK, IsAnswer
<1>5. found'["brd"] = Nothing
  BY <1>2 DEF IInv, CachesOK, Scopes
<1>6. \A a \in answer' : a.project = "all"
  <2>1. \A a \in answer : a.project \in {"brd", "all"}
    BY DEF IInv, CachesOK, IsAnswer, Scopes
  <2> QED
    BY <2>1, <1>2
<1>7. ServesCurrent'
  <2>1. Hit(Capture(brd))' \subseteq answer'
    BY DEF Hit, SameKey
  <2> QED
    BY <2>1, <1>2, <1>5, <1>6 DEF ServesCurrent, Stale
<1> QED
  BY <1>3, <1>4, <1>7 DEF IInv, ReqsOK

\* whatever is committed owes a bust
LEMMA ProceedStep ==
    ASSUME IInv, NEW c \in Clients, Proceed(c)
    PROVE  IInv'
<1>1. /\ Request(c) \/ Write(c) \/ Abandon(c)
      /\ owed' = (owed \/ brd' # brd)
      /\ skipped' = (skipped \/ (req[c].step = "bust" /\ req'[c].step = "idle"))
      /\ UNCHANGED <<found, answer, turn, asked>>
  BY DEF Proceed
<1>2. ReqsOK' /\ (writes' = writes \/ (writes < WriteBound /\ writes' = writes + 1))
  BY <1>1, WriteStep DEF IInv, ReqsOK
<1>3. CachesOK'
  BY <1>1, <1>2, BoundAssumption DEF IInv, CachesOK, IsAnswer
<1>4. PICK q : /\ req' = [req EXCEPT ![c] = q]
               /\ req[c].step = "bust" => q.step = "idle"
               /\ brd' # brd => q.step = "bust"
  BY <1>1, RequestStep DEF IInv, ReqsOK
<1>5. DOMAIN req = Clients /\ req'[c] = q /\ \A d \in Clients : d # c => req'[d] = req[d]
  BY <1>4 DEF IInv, RequestsOK
<1>6. Due'
  <2>1. CASE brd' # brd
    BY <2>1, <1>4, <1>5 DEF Due
  <2>2. CASE brd' = brd /\ owed
    <3>1. skipped \/ \E d \in Clients : req[d].step = "bust"
      BY <2>2 DEF IInv, ServesCurrent
    <3>2. CASE skipped
      BY <3>2, <1>1 DEF Due
    <3>3. ASSUME NEW d \in Clients, req[d].step = "bust" PROVE Due'
      <4>1. CASE d = c
        BY <4>1, <3>3, <1>1, <1>4, <1>5 DEF Due
      <4>2. CASE d # c
        BY <4>2, <3>3, <1>5 DEF Due
      <4> QED
        BY <4>1, <4>2
    <3> QED
      BY <3>1, <3>2, <3>3
  <2>3. CASE brd' = brd /\ ~owed
    BY <2>3, <1>1 DEF Due
  <2> QED
    BY <2>1, <2>2, <2>3
<1>7. ServesCurrent'
  <2>1. CASE brd' # brd
    BY <2>1, <1>1, <1>6 DEF ServesCurrent, Due
  <2>2. CASE brd' = brd
    <3>1. owed' = owed
      BY <2>2, <1>1 DEF IInv, CachesOK
    <3> QED
      BY <3>1, <2>2, <1>1, <1>6, CurrentKept DEF IInv, Same, Kept
  <2> QED
    BY <2>1, <2>2
<1> QED
  BY <1>2, <1>3, <1>7 DEF IInv, ReqsOK

LEMMA ManualStep ==
    ASSUME IInv, TakeSnapshot, UNCHANGED cvars
    PROVE  IInv'
<1>1. ReqsOK'
  BY TakeSnapshotStep DEF IInv, ReqsOK
<1>2. writes < WriteBound /\ writes' = writes + 1 /\ UNCHANGED brd
  BY DEF TakeSnapshot
<1>3. CachesOK'
  BY <1>2, BoundAssumption DEF IInv, CachesOK, IsAnswer, cvars
<1>4. ServesCurrent'
  <2>1. UNCHANGED <<req, found, answer, owed, skipped>>
    BY DEF TakeSnapshot, cvars
  <2> QED
    BY <2>1, <1>2, DueKept, CurrentKept DEF IInv, Same, Kept
<1> QED
  BY <1>1, <1>3, <1>4 DEF IInv, ReqsOK

LEMMA RequestsKept ==
    ASSUME IInv, UNCHANGED bvars
    PROVE  ReqsOK'
<1>1. BrdOK' /\ SnapsOK' /\ RequestsOK'
  BY DEF IInv, bvars, BrdOK, SnapsOK, RequestsOK
<1> QED
  BY <1>1, KeysKept, ReviewKept DEF IInv, bvars, ReqsOK

LEMMA ReaderStep ==
    ASSUME IInv, NEW p \in Readers,
           (\E s \in Scopes : Find(p, s)) \/ StoreFound(p) \/ Replay(p) \/ StoreAnswer(p) \/ GiveUp(p)
    PROVE  IInv'
<1>1. UNCHANGED bvars /\ UNCHANGED <<brd, req, writes, owed, skipped>>
  BY DEF Find, StoreFound, Replay, StoreAnswer, GiveUp, bvars
<1>2. ReqsOK'
  BY <1>1, RequestsKept
<1>3. CachesOK /\ ServesCurrent /\ Due'
  BY <1>1, DueKept DEF IInv
<1> SUFFICES CachesOK' /\ ServesCurrent'
  BY <1>2 DEF IInv, ReqsOK
<1>4. CASE \E s \in Scopes : Find(p, s)
  <2>1. PICK s \in Scopes : Find(p, s)
    BY <1>4
  <2>2. asked < AskBound /\ asked' = asked + 1 /\ UNCHANGED <<found, answer>>
    BY <2>1 DEF Find
  <2>3. CachesOK'
    BY <2>1, <2>2, <1>1, <1>3, AskAssumption DEF CachesOK, IsAnswer, Find
  <2> QED
    BY <2>2, <2>3, <1>1, <1>3, CurrentKept DEF Same, Kept
<1>5. CASE StoreFound(p)
  <2> DEFINE s == turn[p].scope
             row == Stored(turn[p].rows)
  <2>1. /\ turn[p].step = "read" /\ found' = [found EXCEPT ![s] = row]
        /\ turn' = [turn EXCEPT ![p].step = "found"] /\ UNCHANGED <<answer, asked>>
    BY <1>5 DEF StoreFound
  <2>2. s \in Scopes
    BY <2>1, <1>3 DEF CachesOK
  <2>3. CachesOK'
    <3> HIDE DEF row
    <3> QED
      BY <2>1, <2>2, <1>1, <1>3 DEF CachesOK, IsAnswer
  <2>4. Same(found'["brd"], found["brd"])
    <3>1. found'["brd"] = found["brd"] \/ found'["brd"] = row
      BY <2>1, <1>3 DEF CachesOK, Scopes
    <3> QED
      BY <3>1 DEF Same
  <2> QED
    BY <2>1, <2>3, <2>4, <1>1, <1>3, CurrentKept DEF Kept
<1>6. CASE StoreAnswer(p)
  <2> DEFINE row == Stored(turn[p].rows)
             old == SameKey(turn[p].rows)
  <2>1. /\ turn[p].step = "found" /\ turn' = [turn EXCEPT ![p] = Quiet]
        /\ UNCHANGED <<found, asked>>
    BY <1>6 DEF StoreAnswer
  <2>2. PICK project \in Scopes :
           answer' = (answer \ old) \cup {[row |-> row, project |-> project, fresh |-> TRUE]}
    BY <1>6 DEF StoreAnswer
  <2> HIDE DEF row, old
  <2>3. \A a \in answer' : IsAnswer(a)
    <3>1. [row |-> row, project |-> project, fresh |-> TRUE]
             \in [row : {row}, project : Scopes, fresh : BOOLEAN]
      OBVIOUS
    <3>2. IsAnswer([row |-> row, project |-> project, fresh |-> TRUE])
      BY ONLY <3>1 DEF IsAnswer
    <3>3. \A a \in answer : IsAnswer(a)
      BY <1>3 DEF CachesOK
    <3> QED
      BY ONLY <3>2, <3>3, <2>2
  <2>4. CachesOK'
    BY <2>1, <2>3, <1>1, <1>3 DEF CachesOK, IsAnswer, Quiet
  <2>5. \A a \in answer' : Kept(a)
    BY <2>2 DEF Kept, row
  <2> QED
    BY <2>1, <2>4, <2>5, <1>1, <1>3, CurrentKept DEF Same
<1>7. CASE Replay(p) \/ GiveUp(p)
  <2>1. turn' = [turn EXCEPT ![p] = Quiet] /\ UNCHANGED <<found, answer, asked>>
    BY <1>7 DEF Replay, GiveUp
  <2>2. CachesOK'
    BY <2>1, <1>1, <1>3 DEF CachesOK, IsAnswer, Quiet
  <2> QED
    BY <2>1, <2>2, <1>1, <1>3, CurrentKept DEF Same, Kept
<1> QED
  BY <1>4, <1>5, <1>6, <1>7

LEMMA ExpireStep ==
    ASSUME IInv, (\E s \in Scopes : ExpireFound(s)) \/ \E a \in answer : ExpireAnswer(a)
    PROVE  IInv'
<1>1. UNCHANGED bvars /\ UNCHANGED <<brd, req, writes, owed, skipped, turn, asked>>
  BY DEF ExpireFound, ExpireAnswer, bvars
<1>2. ReqsOK'
  BY <1>1, RequestsKept
<1>3. CachesOK /\ ServesCurrent /\ Due'
  BY <1>1, DueKept DEF IInv
<1> SUFFICES CachesOK' /\ ServesCurrent'
  BY <1>2 DEF IInv, ReqsOK
<1>4. CASE \E s \in Scopes : ExpireFound(s)
  <2>1. PICK s \in Scopes : found' = [found EXCEPT ![s] = Nothing] /\ UNCHANGED answer
    BY <1>4 DEF ExpireFound
  <2>2. CachesOK'
    BY <2>1, <1>1, <1>3 DEF CachesOK, IsAnswer
  <2>3. Same(found'["brd"], found["brd"])
    BY <2>1, <1>3 DEF Same, CachesOK, Scopes
  <2> QED
    BY <2>1, <2>2, <2>3, <1>1, <1>3, CurrentKept DEF Kept
<1>5. CASE \E a \in answer : ExpireAnswer(a)
  <2>1. PICK a \in answer :
           answer' = (answer \ {a}) \cup {[a EXCEPT !.fresh = FALSE]} /\ UNCHANGED found
    BY <1>5 DEF ExpireAnswer
  <2>2. IsAnswer([a EXCEPT !.fresh = FALSE]) /\ [a EXCEPT !.fresh = FALSE].fresh = FALSE
    <3>1. PICK row : a \in [row : {row}, project : Scopes, fresh : BOOLEAN]
      BY <1>3 DEF CachesOK, IsAnswer
    <3>2. /\ [a EXCEPT !.fresh = FALSE] \in [row : {row}, project : Scopes, fresh : BOOLEAN]
          /\ [a EXCEPT !.fresh = FALSE].fresh = FALSE
      BY ONLY <3>1
    <3> QED
      BY ONLY <3>2 DEF IsAnswer
  <2>3. CachesOK'
    BY <2>1, <2>2, <1>1, <1>3 DEF CachesOK, IsAnswer
  <2>4. \A x \in answer' : Kept(x)
    BY <2>1, <2>2 DEF Kept
  <2> QED
    BY <2>1, <2>3, <2>4, <1>1, <1>3, CurrentKept DEF Same
<1> QED
  BY <1>4, <1>5

-----------------------------------------------------------------------------
(* Results.                                                                  *)

LEMMA InitOK == Init => IInv
<1> SUFFICES ASSUME Init PROVE IInv
  OBVIOUS
<1>1. PICK b \in Texts \cup {NoText} :
         brd = [doc |-> IF b = NoText THEN <<1>> ELSE <<1, 2>>, used |-> IF b = NoText THEN 1 ELSE 2,
                text |-> [Blank EXCEPT ![1] = First, ![2] = b],
                vec |-> [Blank EXCEPT ![1] = First, ![2] = b], old |-> Blank]
  BY DEF Init, InitBrd
<1>2. 1 \in Ids /\ 2 \in Ids /\ First \in Texts /\ 2 <= IdBound /\ 1 <= IdBound
  BY BoundAssumption, TextAssumption DEF Ids
<1>3. BrdOK
  <2> DEFINE t == [Blank EXCEPT ![1] = First, ![2] = b]
  <2>1. Blank \in [Ids -> Texts \cup {NoText}]
    BY DEF Blank
  <2>2. t \in [Ids -> Texts \cup {NoText}] /\ t[1] = First /\ t[2] = b
    BY <1>2, <2>1
  <2>3. /\ \A i \in Ids : i <= 2 => i = 1 \/ i = 2
        /\ \A i \in Ids : i <= 1 => i = 1
    BY BoundAssumption DEF Ids
  <2>4. brd.text = t /\ brd.vec = t /\ brd.old = Blank
    BY <1>1
  <2>5. <<1, 2>> \in Seq(Nat) /\ <<1>> \in Seq(Nat)
    OBVIOUS
  <2> HIDE DEF t
  <2>6. CASE b = NoText
    <3>1. brd = [doc |-> <<1>>, used |-> 1, text |-> t, vec |-> t, old |-> Blank]
      BY <1>1, <2>6 DEF t
    <3>2. brd \in Fields
      BY <3>1, <2>1, <2>2, <2>5 DEF Fields
    <3>3. IdsOK(brd.doc, brd.used)
      BY <3>1 DEF IdsOK
    <3>4. TextsOK(brd)
      BY <1>2, <2>2, <2>3, <3>1 DEF TextsOK
    <3> QED
      BY <1>2, <3>1, <3>2, <3>3, <3>4 DEF BrdOK, Values
  <2>7. CASE b # NoText
    <3>1. brd = [doc |-> <<1, 2>>, used |-> 2, text |-> t, vec |-> t, old |-> Blank]
      BY <1>1, <2>7 DEF t
    <3>2. brd \in Fields
      BY <3>1, <2>1, <2>2, <2>5 DEF Fields
    <3>3. IdsOK(brd.doc, brd.used)
      BY <3>1 DEF IdsOK
    <3>4. TextsOK(brd)
      BY <1>2, <2>2, <2>3, <2>7, <3>1 DEF TextsOK
    <3> QED
      BY <1>2, <3>1, <3>2, <3>3, <3>4 DEF BrdOK, Values
  <2> QED
    BY <2>6, <2>7
<1>4. /\ review = "approved" /\ snaps = <<>> /\ done = {} /\ clock = 0 /\ writes = 0
      /\ req = [c \in Clients |-> Idle]
      /\ blessed = Capture(brd) /\ surprise = FALSE /\ runs = <<>>
      /\ found = [s \in Scopes |-> Nothing] /\ answer = {}
      /\ turn = [p \in Readers |-> Quiet] /\ asked = 0 /\ owed = FALSE /\ skipped = FALSE
  BY DEF Init, InitBrd
<1>5. SnapsOK
  BY <1>4 DEF SnapsOK
<1>6. RequestsOK
  BY <1>4, IdleOK DEF RequestsOK
<1>7. KeysOK
  BY <1>4 DEF KeysOK, AppliedOnce
<1>8. ReviewOK
  BY <1>4 DEF ReviewOK, ApprovedIsReviewed, DiscardFindsReviewed
<1>9. CachesOK
  <2>1. writes \in 0 .. WriteBound /\ asked \in 0 .. AskBound
    BY <1>4, BoundAssumption, AskAssumption
  <2>2. \A p \in Readers : turn[p].step = "quiet"
    BY <1>4 DEF Quiet
  <2> QED
    BY <2>1, <2>2, <1>4 DEF CachesOK
<1>10. ServesCurrent
  BY <1>4 DEF ServesCurrent, Stale, Hit, SameKey, Scopes
<1> QED
  BY <1>3, <1>5, <1>6, <1>7, <1>8, <1>9, <1>10 DEF IInv

LEMMA StutterOK == IInv /\ UNCHANGED vars => IInv'
<1> SUFFICES ASSUME IInv, UNCHANGED vars PROVE IInv'
  OBVIOUS
<1>1. UNCHANGED bvars /\ UNCHANGED <<brd, writes>> /\ UNCHANGED cvars
  BY DEF vars, bvars
<1>2. ReqsOK'
  BY <1>1, RequestsKept
<1>3. CachesOK'
  BY <1>1 DEF IInv, CachesOK, IsAnswer, cvars
<1>4. ServesCurrent'
  <2>1. UNCHANGED <<brd, req, found, answer, owed, skipped>>
    BY <1>1 DEF cvars, bvars
  <2> QED
    BY <2>1, DueKept, CurrentKept DEF IInv, Same, Kept
<1> QED
  BY <1>2, <1>3, <1>4 DEF IInv, ReqsOK

THEOREM Invariance == Spec => []IInv
<1>1. IInv /\ Next => IInv'
  BY ProceedStep, BustStep, ManualStep, ReaderStep, ExpireStep DEF Next
<1>2. IInv /\ [Next]_vars => IInv'
  BY <1>1, StutterOK
<1> QED
  BY InitOK, <1>2, PTL DEF Spec

\* The BRD, its snapshots, the requests and the caches keep their types.
THEOREM TypeCorrect == Spec => []TypeOK
<1>1. IInv => TypeOK
  <2> SUFFICES ASSUME IInv PROVE TypeOK
    OBVIOUS
  <2>1. /\ brd \in Fields /\ brd.used \in Nat /\ brd.used <= IdBound /\ IdsOK(brd.doc, brd.used)
        /\ brd.doc \in Seq(Nat)
    BY DEF IInv, BrdOK, Values, Fields
  <2>2. brd.doc \in Seq(Ids) /\ brd.used \in 0 .. IdBound
    <3>1. \A n \in DOMAIN brd.doc : brd.doc[n] \in Ids
      BY <2>1, BoundAssumption DEF IdsOK, Ids
    <3>2. brd.doc \in Seq(Ids)
      BY <2>1, <3>1
    <3> QED
      BY <2>1, <3>2, BoundAssumption
  <2>3. \A s \in DOMAIN snaps : snaps[s].kind \in {"approved", "manual", "auto"}
    <3>1. \A s \in DOMAIN snaps : snaps[s] \in Snap
      BY DEF IInv, SnapsOK
    <3> QED
      BY <3>1 DEF Snap
  <2>4. \A c \in Clients : req[c].step \in Steps
                           /\ req[c].ops \in Seq(Op)
    <3>1. Seq(Change) \subseteq Seq(Op)
      BY DEF Change
    <3> QED
      BY <3>1 DEF IInv, RequestsOK, Requests
  <2>5. BrdTypeOK
    BY <2>1, <2>2, <2>3, <2>4 DEF BrdTypeOK, IInv, Fields, ReviewOK, CachesOK
  <2> QED
    BY <2>5 DEF TypeOK, IInv, CachesOK, IsAnswer
<1> QED
  BY Invariance, <1>1, PTL

\* Edits, splits, additions, deletions, change sets, approvals and restores in any order, by any
\* number of clients: the vector of every requirement is that of the text it shows (_rewrite and
\* _insert_chunk in edit.py, reconcile in revise.py), and no requirement is in the BRD twice.
THEOREM VectorsMatch == Spec => []VectorsMatchText
<1>1. IInv => VectorsMatchText
  <2> SUFFICES ASSUME IInv PROVE VectorsMatchText
    OBVIOUS
  <2>1. brd.used \in Nat /\ brd.used <= IdBound /\ IdsOK(brd.doc, brd.used) /\ TextsOK(brd)
    BY DEF IInv, BrdOK, Values, Fields
  <2>2. \A i \in 1 .. brd.used : i \in Ids /\ i <= brd.used
    BY <2>1, BoundAssumption DEF Ids
  <2>3. \A i \in 1 .. brd.used : brd.vec[i] = brd.text[i] /\ brd.text[i] # NoText
    BY <2>1, <2>2, TextAssumption DEF TextsOK
  <2> QED
    BY <2>1, <2>3 DEF VectorsMatchText, IdsOK
<1> QED
  BY Invariance, <1>1, PTL

\* A BRD that is not a draft says what was approved or restored last (approve and restore in
\* versioning.py), but for edits while an approve was under way.
THEOREM ApprovedReviewed == Spec => []ApprovedIsReviewed
<1>1. IInv => ApprovedIsReviewed
  BY DEF IInv, ReviewOK
<1> QED
  BY Invariance, <1>1, PTL

\* Discarding a draft goes back to what was reviewed: the approved snapshot with the latest stamp
\* (discard in versioning.py) is the one that the first edit kept (ensure_baseline_tx), unless
\* that edit's transaction started before one that left an approved snapshot.
THEOREM DiscardReviewed == Spec => []DiscardFindsReviewed
<1>1. IInv => DiscardFindsReviewed
  BY DEF IInv, ReviewOK
<1> QED
  BY Invariance, <1>1, PTL

\* A change set is applied once, however many clients submit it and however often (apply_changes
\* in edit.py, the key of change_request).
THEOREM ChangesOnce == Spec => []AppliedOnce
<1>1. IInv => AppliedOnce
  BY DEF IInv, KeysOK
<1> QED
  BY Invariance, <1>1, PTL

\* The caches serve a question in the BRD outdated requirements only while a change waits for its
\* bust (bust_project in core/cache.py), from what a reader stored that had read it before a
\* change, or from an answer that a question over all BRDs stored first (set in core/cache.py).
THEOREM CurrentServed == Spec => []ServesCurrent
<1>1. IInv => ServesCurrent
  BY DEF IInv
<1> QED
  BY Invariance, <1>1, PTL

\* what a restore makes of the rows of its snapshot
LEMMA ReconciledText ==
    ASSUME NEW B \in Values, NEW rows \in Seq(Row), Matching(rows),
           NEW to \in Partial(B.used), Len(to) = Len(rows),
           \A n \in DOMAIN rows : Fits(B, rows[n], to[n])
    PROVE  LET C == Reconciled(B, rows, to)
           IN  C.used <= IdBound =>
                 /\ Len(C.doc) = Len(rows)
                 /\ \A n \in DOMAIN rows :
                      \/ C.text[C.doc[n]] = rows[n].text
                      \/ rows[n].id = C.doc[n] /\ rows[n].id \in Archived(B)
<1> DEFINE N == Len(rows)
           fresh == {n \in DOMAIN to : to[n] = 0}
           doc == [n \in DOMAIN to |->
                      IF to[n] # 0 THEN to[n] ELSE B.used + Cardinality({m \in fresh : m <= n})]
           new == {doc[n] : n \in fresh}
           rewritten == Overwritten(B, rows, doc)
           SnapRow(i) == rows[CHOOSE n \in DOMAIN doc : doc[n] = i]
           C == Reconciled(B, rows, to)
<1> SUFFICES ASSUME C.used <= IdBound
             PROVE  /\ Len(C.doc) = N
                    /\ \A n \in DOMAIN rows :
                         \/ C.text[C.doc[n]] = rows[n].text
                         \/ rows[n].id = C.doc[n] /\ rows[n].id \in Archived(B)
  OBVIOUS
<1>1. C.doc = doc
  BY DEF Reconciled
<1>2. \A i \in Ids : C.text[i] = IF i \in rewritten \cup new THEN SnapRow(i).text ELSE B.text[i]
  BY DEF Reconciled
<1>3. C \in Values
  BY ReconciledOK
<1>4. N \in Nat /\ DOMAIN to = 1 .. N /\ DOMAIN rows = 1 .. N
  BY DEF Partial
<1>a. DOMAIN doc = 1 .. N
  BY <1>4
<1>5. fresh = {n \in 1 .. N : to[n] = 0} /\ new = {doc[n] : n \in fresh}
  BY <1>4
<1>6. \A n \in 1 .. N : to[n] # 0 => doc[n] = to[n]
  BY <1>4
<1> HIDE DEF C, N, fresh, doc, new
<1>7. doc \in Seq(Nat) /\ IdsOK(doc, C.used) /\ C.used \in Nat
  BY <1>1, <1>3 DEF Values, Fields
<1>8. Len(doc) = N
  BY <1>7, <1>4, <1>a
<1>9. /\ \A n \in 1 .. N : doc[n] \in Ids
      /\ \A m, n \in 1 .. N : doc[m] = doc[n] => m = n
  BY <1>a, <1>7, BoundAssumption DEF IdsOK, Ids
<1>10. \A n \in 1 .. N : SnapRow(doc[n]) = rows[n]
  BY <1>9, <1>a
<1>11. \A i : i \in rewritten <=> /\ i \in Elements(B.doc)
                                   /\ \E n \in 1 .. N : doc[n] = i /\ rows[n].text # B.text[i]
  BY <1>a DEF Overwritten
<1> HIDE DEF rewritten, SnapRow
<1>12. ASSUME NEW n \in 1 .. N
       PROVE  \/ C.text[doc[n]] = rows[n].text
              \/ rows[n].id = doc[n] /\ rows[n].id \in Archived(B)
  <2>1. C.text[doc[n]] = IF doc[n] \in rewritten \cup new THEN rows[n].text ELSE B.text[doc[n]]
    BY <1>2, <1>9, <1>10
  <2>2. CASE to[n] = 0
    <3>1. doc[n] \in new
      BY <2>2, <1>5
    <3> QED
      BY <3>1, <2>1
  <2>3. CASE to[n] # 0 /\ to[n] \in Elements(B.doc)
    <3>1. doc[n] \in rewritten \/ rows[n].text = B.text[doc[n]]
      BY <2>3, <1>6, <1>11
    <3> QED
      BY <3>1, <2>1
  <2>4. CASE to[n] # 0 /\ to[n] \in Archived(B) /\ (rows[n].id = to[n] \/ B.text[to[n]] = rows[n].text)
    BY <2>1, <2>4, <1>6
  <2>5. Fits(B, rows[n], to[n])
    BY <1>4
  <2> QED
    BY <2>2, <2>3, <2>4, <2>5 DEF Fits
<1> QED
  BY <1>1, <1>4, <1>8, <1>12

\* the step of RestoresText
RestoredText ==
    \A c \in Clients :
         LET rows == snaps[req[c].snap].rows
         IN  req[c].step = "restore" /\ req'[c].step = "bust"
               => /\ Len(brd'.doc) = Len(rows)
                  /\ \A n \in DOMAIN rows :
                       \/ brd'.text[brd'.doc[n]] = rows[n].text
                       \/ rows[n].id = brd'.doc[n] /\ rows[n].id \in Archived(brd)

LEMMA RestoreGivesText ==
    ASSUME ReqsOK, NEW c \in Clients, NEW aligned, CommitRestore(c, aligned)
    PROVE  LET rows == snaps[req[c].snap].rows
           IN  /\ Len(brd'.doc) = Len(rows)
               /\ \A n \in DOMAIN rows :
                    \/ brd'.text[brd'.doc[n]] = rows[n].text
                    \/ rows[n].id = brd'.doc[n] /\ rows[n].id \in Archived(brd)
<1> DEFINE rows == snaps[req[c].snap].rows
           to == Matched(brd, rows, aligned)
<1>1. /\ req[c].step = "restore" /\ aligned \in Alignments(brd, rows)
      /\ brd' = Reconciled(brd, rows, to)
  BY DEF CommitRestore
<1>2. req[c].snap \in DOMAIN snaps
  BY <1>1 DEF ReqsOK, RequestsOK
<1>3. rows \in Seq(Row) /\ Matching(rows)
  <2>1. snaps[req[c].snap] \in Snap
    BY <1>2 DEF ReqsOK, SnapsOK
  <2> QED
    BY <2>1, <1>2 DEF ReqsOK, SnapsOK, Snap
<1>4. brd \in Values /\ brd'.used <= IdBound
  BY CommitRestoreStep DEF ReqsOK, BrdOK
<1> HIDE DEF rows
<1>5. aligned \in [DOMAIN rows -> Elements(brd.doc) \cup {0}]
  BY <1>1 DEF Alignments
<1>6. /\ to \in Partial(brd.used) /\ Len(to) = Len(rows)
      /\ \A n \in DOMAIN rows : Fits(brd, rows[n], to[n])
  BY <1>3, <1>4, <1>5, MatchedOK
<1> HIDE DEF to
<1>7. /\ Len(brd'.doc) = Len(rows)
      /\ \A n \in DOMAIN rows :
           \/ brd'.text[brd'.doc[n]] = rows[n].text
           \/ rows[n].id = brd'.doc[n] /\ rows[n].id \in Archived(brd)
  BY <1>1, <1>3, <1>4, <1>6, ReconciledText
<1> QED
  BY <1>7 DEF rows

\* no other step ends a restore with something to bust
LEMMA OnlyRestores ==
    ASSUME ReqsOK, NEW d \in Clients, NEW c \in Clients, Proceed(d) \/ BustProject(d),
           req[c].step = "restore", req'[c].step = "bust"
    PROVE  c = d /\ \E aligned : CommitRestore(c, aligned)
<1>1. DOMAIN req = Clients
  BY DEF ReqsOK, RequestsOK
<1>2. ASSUME NEW q, req' = [req EXCEPT ![d] = q], req[d].step # "restore" \/ q.step # "bust"
      PROVE  FALSE
  BY <1>1, <1>2
<1>3. CASE Request(d)
  <2>1. req[d].step = "idle"
    BY <1>3 DEF Request, MayBegin
  <2>2. PICK q : Asked(d, q)
    BY <1>3, RequestOK DEF ReqsOK
  <2> QED
    BY <2>1, <2>2, <1>2 DEF Asked, Asking
<1>4. CASE Commit(d)
  BY <1>2, <1>4 DEF Commit
<1>5. CASE Refused(d) \/ Abandon(d) \/ CommitApprove(d) \/ BustProject(d)
  BY <1>2, <1>5, IdleOK DEF Refused, Abandon, CommitApprove, BustProject, Bust
<1>6. CASE \E aligned \in Alignments(brd, snaps[req[d].snap].rows) : CommitRestore(d, aligned)
  <2>1. PICK aligned \in Alignments(brd, snaps[req[d].snap].rows) : CommitRestore(d, aligned)
    BY <1>6
  <2>2. c # d => req'[c] = req[c]
    BY <2>1, <1>1 DEF CommitRestore
  <2> QED
    BY <2>1, <2>2
<1>7. CASE Open(d) \/ CaptureApproved(d)
  <2>1. req[d].step # "restore"
    BY <1>7 DEF Open, CaptureApproved
  <2>2. \E q : req' = [req EXCEPT ![d] = q]
    BY <1>7 DEF Open, CaptureApproved
  <2> QED
    BY <2>1, <2>2, <1>2
<1> QED
  BY <1>3, <1>4, <1>5, <1>6, <1>7 DEF Proceed, Write

\* A restore (restore_tx in versioning.py, reconcile in revise.py) gives the texts of the snapshot
\* in their order, but for an archived requirement that comes back with the text it was archived
\* with.
THEOREM RestoresItsText == Spec => RestoresText
<1>1. ASSUME IInv, Next PROVE RestoredText
  <2> SUFFICES ASSUME NEW c \in Clients, req[c].step = "restore", req'[c].step = "bust"
               PROVE  LET rows == snaps[req[c].snap].rows
                      IN  /\ Len(brd'.doc) = Len(rows)
                          /\ \A n \in DOMAIN rows :
                               \/ brd'.text[brd'.doc[n]] = rows[n].text
                               \/ rows[n].id = brd'.doc[n] /\ rows[n].id \in Archived(brd)
    BY DEF RestoredText
  <2>1. ReqsOK
    BY <1>1 DEF IInv, ReqsOK
  <2>2. CASE \E d \in Clients : Proceed(d) \/ BustProject(d)
    <3>1. \E aligned : CommitRestore(c, aligned)
      BY <2>1, <2>2, OnlyRestores
    <3> QED
      BY <3>1, <2>1, RestoreGivesText
  <2>3. ASSUME req' = req PROVE FALSE
    BY <2>3
  <2> QED
    BY <1>1, <2>2, <2>3
       DEF Next, TakeSnapshot, Find, StoreFound, Replay, StoreAnswer, GiveUp, ExpireFound, ExpireAnswer, bvars
<1>2. IInv /\ [Next]_vars => [RestoredText]_bvars
  BY <1>1 DEF vars
<1>3. [][RestoredText]_bvars => RestoresText
  BY PTL DEF RestoresText, RestoredText
<1> QED
  BY Invariance, <1>2, <1>3, PTL DEF Spec

-----------------------------------------------------------------------------
(* Matching the rows of a revision with the live ones.                    *)

\* a finite set whose elements are numbered apart: how many come before each
RankIn(T, key, t) == Cardinality({x \in T : key[x] < key[t]})

LEMMA Ranks ==
    ASSUME NEW T, IsFiniteSet(T), NEW key \in [T -> Nat], \A x, y \in T : key[x] = key[y] => x = y
    PROVE  /\ Cardinality(T) \in Nat
           /\ \A t \in T : RankIn(T, key, t) \in 0 .. (Cardinality(T) - 1)
           /\ \A x, y \in T : key[x] < key[y] => RankIn(T, key, x) < RankIn(T, key, y)
           /\ \A x, y \in T : RankIn(T, key, x) = RankIn(T, key, y) => x = y
           /\ \A n \in 0 .. (Cardinality(T) - 1) : \E t \in T : RankIn(T, key, t) = n
<1> DEFINE Lower(t) == {x \in T : key[x] < key[t]}
<1>1. Cardinality(T) \in Nat
  BY FS_CardinalityType
<1>2. \A t \in T : IsFiniteSet(Lower(t)) /\ Cardinality(Lower(t)) \in Nat
  BY FS_Subset, FS_CardinalityType
<1>3. ASSUME NEW t \in T PROVE Cardinality(Lower(t)) + 1 <= Cardinality(T)
  <2>1. t \notin Lower(t) /\ Lower(t) \cup {t} \in SUBSET T
    OBVIOUS
  <2>2. IsFiniteSet(Lower(t)) /\ Cardinality(Lower(t)) \in Nat
    BY <1>2
  <2> HIDE DEF Lower
  <2>3. Cardinality(Lower(t) \cup {t}) = Cardinality(Lower(t)) + 1
    BY <2>1, <2>2, FS_AddElement
  <2>4. Cardinality(Lower(t) \cup {t}) <= Cardinality(T)
    BY <2>1, FS_Subset
  <2> QED
    BY <2>3, <2>4
<1>4. ASSUME NEW x \in T, NEW y \in T, key[x] < key[y] PROVE Cardinality(Lower(x)) < Cardinality(Lower(y))
  <2>1. x \notin Lower(x) /\ Lower(x) \cup {x} \in SUBSET Lower(y)
    BY <1>4
  <2>2. IsFiniteSet(Lower(x)) /\ Cardinality(Lower(x)) \in Nat /\ IsFiniteSet(Lower(y)) /\ Cardinality(Lower(y)) \in Nat
    BY <1>2
  <2> HIDE DEF Lower
  <2>3. Cardinality(Lower(x) \cup {x}) = Cardinality(Lower(x)) + 1
    BY <2>1, <2>2, FS_AddElement
  <2>4. Cardinality(Lower(x) \cup {x}) <= Cardinality(Lower(y))
    BY <2>1, <2>2, FS_Subset
  <2> QED
    BY <2>2, <2>3, <2>4
<1>5. \A t \in T : RankIn(T, key, t) = Cardinality(Lower(t))
  BY DEF RankIn
<1> HIDE DEF Lower
<1>6. \A t \in T : RankIn(T, key, t) \in 0 .. (Cardinality(T) - 1)
  <2> TAKE t \in T
  <2>1. RankIn(T, key, t) = Cardinality(Lower(t)) /\ Cardinality(Lower(t)) \in Nat
    BY <1>2, <1>5
  <2>2. Cardinality(Lower(t)) + 1 <= Cardinality(T)
    BY <1>3
  <2> QED
    BY ONLY <2>1, <2>2, <1>1
<1>7. \A x, y \in T : key[x] < key[y] => RankIn(T, key, x) < RankIn(T, key, y)
  BY <1>4, <1>5
<1>8. \A x, y \in T : RankIn(T, key, x) = RankIn(T, key, y) => x = y
  <2> SUFFICES ASSUME NEW x \in T, NEW y \in T, RankIn(T, key, x) = RankIn(T, key, y), x # y PROVE FALSE
    OBVIOUS
  <2>1. key[x] < key[y] \/ key[y] < key[x]
    OBVIOUS
  <2>2. RankIn(T, key, x) \in Int /\ RankIn(T, key, y) \in Int
    BY <1>6, <1>1
  <2> QED
    BY <2>1, <2>2, <1>7
<1> DEFINE f == [t \in T |-> RankIn(T, key, t)]
           U == 0 .. (Cardinality(T) - 1)
<1>9. f \in Injection(T, U)
  BY <1>6, <1>8 DEF Injection, IsInjective
<1>10. IsFiniteSet(U) /\ Cardinality(U) = Cardinality(T)
  <2>1. 0 \in Int /\ Cardinality(T) - 1 \in Int
    BY <1>1
  <2>2. IsFiniteSet(U) /\ Cardinality(U) = IF 0 > Cardinality(T) - 1 THEN 0 ELSE (Cardinality(T) - 1) - 0 + 1
    BY <2>1, FS_Interval
  <2> QED
    BY <2>2, <1>1
<1>11. f \in Surjection(T, U)
  <2> HIDE DEF f, U
  <2> QED
    BY <1>9, <1>10, FS_Injection
<1>12. \A n \in U : \E t \in T : f[t] = n
  BY <1>11 DEF Surjection
<1> QED
  BY <1>1, <1>6, <1>7, <1>8, <1>12

StrictOrder(R, U) ==
    /\ \A a, b, c \in U : <<a, b>> \in R /\ <<b, c>> \in R => <<a, c>> \in R
    /\ \A a \in U : <<a, a>> \notin R

\* an element that no other one is worse than
LEMMA WorstElement ==
    ASSUME NEW U, NEW R, StrictOrder(R, U),
           NEW C \in SUBSET U, IsFiniteSet(C), C # {}
    PROVE  \E e \in C : \A c \in C : <<e, c>> \notin R
<1> DEFINE S == {n \in Nat : \A D \in SUBSET U : IsFiniteSet(D) /\ Cardinality(D) = n + 1
                                => \E e \in D : \A c \in D : <<e, c>> \notin R}
<1>1. ASSUME NEW D \in SUBSET U, IsFiniteSet(D), NEW n \in Nat, Cardinality(D) = n + 1
      PROVE  \E x \in D : IsFiniteSet(D \ {x}) /\ Cardinality(D \ {x}) = n
  <2>1. D # {}
    BY <1>1, FS_EmptySet
  <2>2. PICK x \in D : TRUE
    BY <2>1
  <2>3. IsFiniteSet(D \ {x}) /\ Cardinality(D \ {x}) = Cardinality(D) - 1
    BY <1>1, <2>2, FS_RemoveElement
  <2>4. (n + 1) - 1 = n
    BY ONLY n \in Nat
  <2> HIDE DEF S
  <2> QED
    BY <1>1, <2>2, <2>3, <2>4
<1>2. 0 \in S
  <2> SUFFICES ASSUME NEW D \in SUBSET U, IsFiniteSet(D), Cardinality(D) = 0 + 1
               PROVE  \E e \in D : \A c \in D : <<e, c>> \notin R
    OBVIOUS
  <2>1. PICK x \in D : IsFiniteSet(D \ {x}) /\ Cardinality(D \ {x}) = 0
    BY <1>1
  <2>2. D \ {x} = {}
    BY <2>1, FS_EmptySet
  <2> QED
    BY <2>2 DEF StrictOrder
<1>3. ASSUME NEW n \in Nat, n \in S PROVE n + 1 \in S
  <2> SUFFICES ASSUME NEW D \in SUBSET U, IsFiniteSet(D), Cardinality(D) = (n + 1) + 1
               PROVE  \E e \in D : \A c \in D : <<e, c>> \notin R
    OBVIOUS
  <2>1. PICK x \in D : IsFiniteSet(D \ {x}) /\ Cardinality(D \ {x}) = n + 1
    BY <1>1
  <2>2. PICK e \in D \ {x} : \A c \in D \ {x} : <<e, c>> \notin R
    BY <1>3, <2>1
  <2>3. CASE <<e, x>> \notin R
    BY <2>2, <2>3 DEF StrictOrder
  <2>4. CASE <<e, x>> \in R
    <3>1. \A c \in D : <<x, c>> \notin R
      BY <2>2, <2>4 DEF StrictOrder
    <3> QED
      BY <3>1
  <2> QED
    BY <2>3, <2>4
<1> HIDE DEF S
<1>4. Nat \subseteq S
  BY <1>2, <1>3, Induction
<1>5. Cardinality(C) \in Nat /\ Cardinality(C) # 0
  BY FS_CardinalityType, FS_EmptySet
<1>6. Cardinality(C) - 1 \in S /\ (Cardinality(C) - 1) + 1 = Cardinality(C)
  BY <1>4, <1>5
<1> QED
  BY <1>6 DEF S

\* candidates of which each is chosen unless a chosen one that is better rules it out
Greedy(m, C, K, R) == \A c \in C : c \in m <=> ~\E d \in m : <<d, c>> \in K /\ <<d, c>> \in R

CanChoose(C, K, R) == \E m \in SUBSET C : Greedy(m, C, K, R)

LEMMA ChoiceExists ==
    ASSUME NEW U, NEW K, NEW R, StrictOrder(R, U),
           NEW C \in SUBSET U, IsFiniteSet(C)
    PROVE  CanChoose(C, K, R)
<1> DEFINE S == {n \in Nat : \A D \in SUBSET U : IsFiniteSet(D) /\ Cardinality(D) = n
                                => \E m \in SUBSET D : Greedy(m, D, K, R)}
<1>1. 0 \in S
  <2> SUFFICES ASSUME NEW D \in SUBSET U, IsFiniteSet(D), Cardinality(D) = 0
               PROVE  \E m \in SUBSET D : Greedy(m, D, K, R)
    OBVIOUS
  <2>1. D = {}
    BY FS_EmptySet
  <2> QED
    BY <2>1 DEF Greedy
<1>2. ASSUME NEW n \in Nat, n \in S PROVE n + 1 \in S
  <2> SUFFICES ASSUME NEW D \in SUBSET U, IsFiniteSet(D), Cardinality(D) = n + 1
               PROVE  \E m \in SUBSET D : Greedy(m, D, K, R)
    OBVIOUS
  <2>1. D # {}
    BY FS_EmptySet
  <2>2. PICK e \in D : \A c \in D : <<e, c>> \notin R
    <3> HIDE DEF S
    <3> QED
      BY <2>1, WorstElement
  <2>3. IsFiniteSet(D \ {e}) /\ Cardinality(D \ {e}) = n
    <3>1. IsFiniteSet(D \ {e}) /\ Cardinality(D \ {e}) = Cardinality(D) - 1
      BY <2>2, FS_RemoveElement
    <3>2. (n + 1) - 1 = n
      BY ONLY n \in Nat
    <3> HIDE DEF S
    <3> QED
      BY <3>1, <3>2
  <2>4. PICK m \in SUBSET (D \ {e}) : Greedy(m, D \ {e}, K, R)
    BY <1>2, <2>3
  <2>5. CASE \E d \in m : <<d, e>> \in K /\ <<d, e>> \in R
    <3>1. Greedy(m, D, K, R)
      BY <2>4, <2>5 DEF Greedy
    <3> QED
      BY <3>1
  <2>6. CASE ~\E d \in m : <<d, e>> \in K /\ <<d, e>> \in R
    <3>1. Greedy(m \cup {e}, D, K, R)
      <4>1. \A c \in D \ {e} : c \in m <=> ~\E d \in m : <<d, c>> \in K /\ <<d, c>> \in R
        BY <2>4 DEF Greedy
      <4>2. \A c \in D : c \in m \cup {e} <=> ~\E d \in m \cup {e} : <<d, c>> \in K /\ <<d, c>> \in R
        BY ONLY <4>1, <2>2, <2>6, m \in SUBSET (D \ {e}), e \in D, D \in SUBSET U,
                StrictOrder(R, U) DEF StrictOrder
      <4> QED
        BY <4>2 DEF Greedy
    <3>2. m \cup {e} \in SUBSET D
      BY <2>4
    <3> QED
      BY <3>1, <3>2
  <2> QED
    BY <2>5, <2>6
<1> HIDE DEF S
<1>3. Cardinality(C) \in S
  BY <1>1, <1>2, Induction, FS_CardinalityType
<1> QED
  BY <1>3 DEF S, CanChoose

-----------------------------------------------------------------------------
(* Pairs of positions that use each position once. *)

Pairing(P, A, B) ==
    /\ P \subseteq A \X B
    /\ \A p, q \in P : p[1] = q[1] \/ p[2] = q[2] => p = q

LEMMA OccurrencesGrow ==
    ASSUME NEW rows, NEW x \in Nat \ {0}, NEW y \in Nat, x < y, rows[x].text = rows[y].text
    PROVE  Occurrence(rows, x) \in Nat /\ Occurrence(rows, y) \in Nat /\ Occurrence(rows, x) < Occurrence(rows, y)
<1> DEFINE M(k) == {m \in 1..(k - 1) : rows[m].text = rows[k].text}
<1>1. ASSUME NEW k \in Nat PROVE IsFiniteSet(M(k)) /\ Cardinality(M(k)) \in Nat
  <2>1. 1 \in Int /\ k - 1 \in Int
    OBVIOUS
  <2>2. IsFiniteSet(1..(k - 1))
    BY <2>1, FS_Interval
  <2> QED
    BY <2>2, FS_Subset, FS_CardinalityType
<1>2. x \notin M(x) /\ M(x) \cup {x} \in SUBSET M(y)
  OBVIOUS
<1>3. Occurrence(rows, x) = Cardinality(M(x)) /\ Occurrence(rows, y) = Cardinality(M(y))
  BY DEF Occurrence
<1>4. x \in Nat /\ y \in Nat
  OBVIOUS
<1>5. IsFiniteSet(M(x)) /\ Cardinality(M(x)) \in Nat /\ IsFiniteSet(M(y)) /\ Cardinality(M(y)) \in Nat
  BY <1>1, <1>4
<1> HIDE DEF M
<1>6. Cardinality(M(x) \cup {x}) = Cardinality(M(x)) + 1
  BY <1>2, <1>5, FS_AddElement
<1>7. Cardinality(M(x) \cup {x}) <= Cardinality(M(y))
  BY <1>2, <1>5, FS_Subset
<1> QED
  BY <1>3, <1>5, <1>6, <1>7

LEMMA OccurrencesDiffer ==
    ASSUME NEW rows, NEW x \in Nat \ {0}, NEW y \in Nat \ {0}, rows[x].text = rows[y].text,
           Occurrence(rows, x) = Occurrence(rows, y)
    PROVE  x = y
<1> SUFFICES ASSUME x # y PROVE FALSE
  OBVIOUS
<1>1. CASE x < y
  BY <1>1, OccurrencesGrow
<1>2. CASE y < x
  BY <1>2, OccurrencesGrow
<1> QED
  BY <1>1, <1>2

LEMMA IdenticalMatches ==
    ASSUME NEW old, NEW new, DOMAIN old \subseteq Nat \ {0}, DOMAIN new \subseteq Nat \ {0}
    PROVE  Pairing(Identical(old, new), DOMAIN new, DOMAIN old)
<1>1. ASSUME NEW p \in Identical(old, new)
      PROVE  p \in (DOMAIN new) \X (DOMAIN old) /\ new[p[1]].text = old[p[2]].text
             /\ Occurrence(new, p[1]) = Occurrence(old, p[2])
  BY DEF Identical
<1>2. ASSUME NEW p \in Identical(old, new), NEW q \in Identical(old, new), p[1] = q[1]
      PROVE  p[2] = q[2]
  <2>1. p[2] \in Nat \ {0} /\ q[2] \in Nat \ {0}
    BY <1>1
  <2>2. old[p[2]].text = old[q[2]].text /\ Occurrence(old, p[2]) = Occurrence(old, q[2])
    BY <1>1, <1>2
  <2> QED
    BY <2>1, <2>2, OccurrencesDiffer
<1>3. ASSUME NEW p \in Identical(old, new), NEW q \in Identical(old, new), p[2] = q[2]
      PROVE  p[1] = q[1]
  <2>1. p[1] \in Nat \ {0} /\ q[1] \in Nat \ {0}
    BY <1>1
  <2>2. new[p[1]].text = new[q[1]].text /\ Occurrence(new, p[1]) = Occurrence(new, q[1])
    BY <1>1, <1>3
  <2> QED
    BY <2>1, <2>2, OccurrencesDiffer
<1>4. \A p \in Identical(old, new) : p = <<p[1], p[2]>> /\ p \in (DOMAIN new) \X (DOMAIN old)
  BY <1>1
<1> QED
  BY <1>2, <1>3, <1>4 DEF Pairing

LEMMA SameReqIdMatches ==
    ASSUME NEW old, NEW new, NEW freeNew, NEW freeOld
    PROVE  Pairing(SameReqId(old, new, freeNew, freeOld), freeNew, freeOld)
<1> DEFINE S == SameReqId(old, new, freeNew, freeOld)
<1>1. ASSUME NEW p \in S
      PROVE  /\ p = <<p[1], p[2]>> /\ p[1] \in freeNew /\ p[2] \in freeOld /\ new[p[1]].req = old[p[2]].req
             /\ \A m \in freeNew : m # p[1] => new[m].req # new[p[1]].req
             /\ \A m \in freeOld : m # p[2] => old[m].req # old[p[2]].req
  BY <1>1 DEF SameReqId, UniqueAmong
<1>2. S \subseteq freeNew \X freeOld
  BY DEF SameReqId
<1> HIDE DEF S
<1>3. ASSUME NEW p \in S, NEW q \in S, p[1] = q[1] \/ p[2] = q[2] PROVE p = q
  <2>1. CASE p[1] = q[1]
    BY <2>1, <1>1
  <2>2. CASE p[2] = q[2]
    BY <2>2, <1>1
  <2> QED
    BY <1>3, <2>1, <2>2
<1> QED
  BY <1>2, <1>3 DEF Pairing, S

\* the texts of a sequence of rows
Texted(rows, D) == \A k \in D : rows[k].text \in ReqTexts

LEMMA Likenesses ==
    ASSUME NEW a \in ReqTexts, NEW b \in ReqTexts
    PROVE  Likeness(a, b) \in Nat
<1>1. Similarity[<<a, b>>] \in 0..100
  BY RevisionAssumption DEF RevisionAssumption
<1> QED
  BY <1>1 DEF Likeness

LEMMA Scores ==
    ASSUME NEW l, NEW n, l.text \in ReqTexts, n.text \in ReqTexts
    PROVE  Score(l, n) \in Nat
<1>1. Likeness(l.text, n.text) \in Nat
  BY Likenesses
<1> QED
  BY <1>1 DEF Score, SectionBonus

LEMMA BetterOrders ==
    ASSUME NEW old, NEW new, NEW A \in SUBSET Nat, NEW B \in SUBSET Nat, Texted(new, A), Texted(old, B)
    PROVE  /\ \A a, b, c \in A \X B : Better(old, new, a, b) /\ Better(old, new, b, c) => Better(old, new, a, c)
           /\ \A a \in A \X B : ~Better(old, new, a, a)
           /\ \A a, b \in A \X B : a # b => Better(old, new, a, b) \/ Better(old, new, b, a)
<1> DEFINE V(c) == Score(old[c[2]], new[c[1]])
<1>1. \A c \in A \X B : V(c) \in Nat /\ c[1] \in Nat /\ c[2] \in Nat
  BY Scores DEF Texted
<1>2. \A c, d : Better(old, new, c, d) <=>
         (V(c) > V(d) \/ (V(c) = V(d) /\ (c[1] > d[1] \/ (c[1] = d[1] /\ c[2] > d[2]))))
  BY DEF Better
<1> HIDE DEF V
<1>3. ASSUME NEW a \in A \X B, NEW b \in A \X B, NEW c \in A \X B,
             Better(old, new, a, b), Better(old, new, b, c)
      PROVE  Better(old, new, a, c)
  <2>1. /\ V(a) > V(b) \/ (V(a) = V(b) /\ (a[1] > b[1] \/ (a[1] = b[1] /\ a[2] > b[2])))
        /\ V(b) > V(c) \/ (V(b) = V(c) /\ (b[1] > c[1] \/ (b[1] = c[1] /\ b[2] > c[2])))
    BY <1>2, <1>3
  <2>2. V(a) > V(c) \/ (V(a) = V(c) /\ (a[1] > c[1] \/ (a[1] = c[1] /\ a[2] > c[2])))
    BY <2>1, <1>1
  <2> QED
    BY <1>2, <2>2
<1>4. ASSUME NEW a \in A \X B PROVE ~Better(old, new, a, a)
  BY <1>1, <1>2
<1>5. ASSUME NEW a \in A \X B, NEW b \in A \X B, a # b
      PROVE  Better(old, new, a, b) \/ Better(old, new, b, a)
  <2>1. a[1] # b[1] \/ a[2] # b[2]
    BY <1>5
  <2> QED
    BY <1>1, <1>2, <2>1
<1> QED
  BY <1>3, <1>4, <1>5

LEMMA SimilarMatches ==
    ASSUME NEW old, NEW new, NEW A \in SUBSET Nat, NEW B \in SUBSET Nat, IsFiniteSet(A), IsFiniteSet(B),
           Texted(new, A), Texted(old, B)
    PROVE  Pairing(Similar(old, new, A, B), A, B)
<1> DEFINE Pairs == A \X B
           Cand == {p \in Pairs : Likeness(old[p[2]].text, new[p[1]].text) >= SimMin}
           Good(m) == \A c \in Cand : c \in m <=> ~\E d \in m : (d[1] = c[1] \/ d[2] = c[2]) /\ Better(old, new, d, c)
           Clash == {e \in Pairs \X Pairs : e[1][1] = e[2][1] \/ e[1][2] = e[2][2]}
           Beats == {e \in Pairs \X Pairs : Better(old, new, e[1], e[2])}
<1>1. IsFiniteSet(Cand) /\ Cand \in SUBSET Pairs
  BY FS_Product, FS_Subset
<1>2. /\ \A a, b \in Pairs : <<a, b>> \in Beats <=> Better(old, new, a, b)
      /\ \A a, b \in Pairs : <<a, b>> \in Clash <=> a[1] = b[1] \/ a[2] = b[2]
  OBVIOUS
<1>3. StrictOrder(Beats, Pairs)
  <2>1. /\ \A a, b, c \in Pairs : Better(old, new, a, b) /\ Better(old, new, b, c) => Better(old, new, a, c)
        /\ \A a \in Pairs : ~Better(old, new, a, a)
    BY BetterOrders
  <2> HIDE DEF Beats, Pairs
  <2> QED
    BY <2>1, <1>2 DEF StrictOrder
<1>4. Similar(old, new, A, B) = CHOOSE m \in SUBSET Cand : Good(m)
  BY DEF Similar
<1> HIDE DEF Pairs, Clash, Beats
<1>5. PICK m \in SUBSET Cand : Greedy(m, Cand, Clash, Beats)
  <2> HIDE DEF Cand, Good
  <2>1. CanChoose(Cand, Clash, Beats)
    BY <1>1, <1>3, ChoiceExists
  <2> QED
    BY <2>1 DEF CanChoose
<1>6. Good(m)
  <2> HIDE DEF Cand
  <2>1. \A c \in Cand : c \in m <=> ~\E d \in m : <<d, c>> \in Clash /\ <<d, c>> \in Beats
    BY <1>5 DEF Greedy
  <2> QED
    BY <2>1, <1>1, <1>2
<1> DEFINE s == Similar(old, new, A, B)
<1>7. s \in SUBSET Cand /\ Good(s)
  <2> HIDE DEF Good, Cand
  <2> QED
    BY <1>4, <1>6
<1> HIDE DEF s, Cand
<1>8. ASSUME NEW p \in s, NEW q \in s, p[1] = q[1] \/ p[2] = q[2], p # q PROVE FALSE
  <2>1. p \in Pairs /\ q \in Pairs /\ p \in Cand /\ q \in Cand
    BY <1>1, <1>7
  <2>2. Better(old, new, p, q) \/ Better(old, new, q, p)
    BY <1>8, <2>1, BetterOrders DEF Pairs
  <2> QED
    BY <1>7, <1>8, <2>1, <2>2
<1> QED
  BY <1>1, <1>7, <1>8 DEF Pairing, s, Pairs

LiveRow == [id : Nat \ {0}, text : ReqTexts, req : ReqIds \cup {None}, sec : Sections, vec : Keys]
IdsApart(s) == \A i, j \in DOMAIN s : s[i].id = s[j].id => i = j
LiveRows == {s \in Seq(LiveRow) : IdsApart(s)}

LEMMA SequenceDomain ==
    ASSUME NEW T, NEW s \in Seq(T)
    PROVE  /\ Len(s) \in Nat /\ DOMAIN s = 1..Len(s) /\ IsFiniteSet(DOMAIN s) /\ Cardinality(DOMAIN s) = Len(s)
           /\ DOMAIN s \subseteq Nat \ {0}
           /\ \A k \in DOMAIN s : s[k] \in T
           /\ Range(s) = {s[k] : k \in DOMAIN s}
<1>1. Len(s) \in Nat /\ DOMAIN s = 1..Len(s)
  BY LenProperties
<1>2. 1 \in Int /\ Len(s) \in Int
  BY <1>1
<1>3. IsFiniteSet(1..Len(s)) /\ Cardinality(1..Len(s)) = IF 1 > Len(s) THEN 0 ELSE Len(s) - 1 + 1
  BY <1>2, FS_Interval
<1>4. Cardinality(1..Len(s)) = Len(s)
  BY <1>1, <1>3
<1>5. 1..Len(s) \subseteq Nat \ {0}
  BY <1>1
<1>6. \A k \in 1..Len(s) : s[k] \in T
  BY ElementOfSeq
<1> QED
  BY <1>1, <1>3, <1>4, <1>5, <1>6 DEF Range

LEMMA UnionMatches ==
    ASSUME NEW P, NEW Q, NEW A, NEW B, Pairing(P, A, B),
           Pairing(Q, A \ {p[1] : p \in P}, B \ {p[2] : p \in P})
    PROVE  Pairing(P \cup Q, A, B)
<1>1. P \subseteq A \X B /\ Q \subseteq A \X B
  BY DEF Pairing
<1>2. ASSUME NEW p \in P, NEW q \in Q PROVE p[1] # q[1] /\ p[2] # q[2]
  BY DEF Pairing
<1>3. ASSUME NEW p \in P \cup Q, NEW q \in P \cup Q, p[1] = q[1] \/ p[2] = q[2] PROVE p = q
  <2>1. CASE p \in P /\ q \in P
    BY <1>3, <2>1 DEF Pairing
  <2>2. CASE p \in Q /\ q \in Q
    BY <1>3, <2>2 DEF Pairing
  <2>3. CASE p \in P /\ q \in Q
    BY <1>2, <1>3, <2>3
  <2>4. CASE p \in Q /\ q \in P
    BY <1>2, <1>3, <2>4
  <2> QED
    BY <2>1, <2>2, <2>3, <2>4
<1> QED
  BY <1>1, <1>3 DEF Pairing

LEMMA AlignMatches ==
    ASSUME NEW old \in LiveRows, NEW new \in Seq(Rows)
    PROVE  Pairing(align(old, new), DOMAIN new, DOMAIN old) /\ Identical(old, new) \subseteq align(old, new)
<1> DEFINE A == DOMAIN new
           B == DOMAIN old
           same == Identical(old, new)
           byId == same \cup SameReqId(old, new, FreeNew(new, same), FreeOld(old, same))
           last == Similar(old, new, FreeNew(new, byId), FreeOld(old, byId))
<1>1. old \in Seq(LiveRow)
  BY DEF LiveRows
<1>2. A \subseteq Nat \ {0} /\ B \subseteq Nat \ {0} /\ IsFiniteSet(A) /\ IsFiniteSet(B)
      /\ Texted(new, A) /\ Texted(old, B)
  <2>1. /\ A \subseteq Nat \ {0} /\ IsFiniteSet(A) /\ B \subseteq Nat \ {0} /\ IsFiniteSet(B)
        /\ \A k \in A : new[k] \in Rows
        /\ \A k \in B : old[k] \in LiveRow
    BY <1>1, SequenceDomain
  <2> QED
    BY <2>1 DEF Texted, Rows, LiveRow
<1>3. Pairing(same, A, B)
  BY <1>2, IdenticalMatches
<1>4. \A P : FreeNew(new, P) = A \ {p[1] : p \in P} /\ FreeOld(old, P) = B \ {p[2] : p \in P}
  BY DEF FreeNew, FreeOld
<1>5. align(old, new) = byId \cup last
  BY DEF align
<1> HIDE DEF A, B, same
<1>6. Pairing(byId, A, B)
  <2>1. Pairing(SameReqId(old, new, FreeNew(new, same), FreeOld(old, same)), FreeNew(new, same), FreeOld(old, same))
    BY SameReqIdMatches
  <2> QED
    BY <2>1, <1>3, <1>4, UnionMatches
<1>7. same \subseteq byId
  OBVIOUS
<1> HIDE DEF byId
<1>8. Pairing(last, FreeNew(new, byId), FreeOld(old, byId))
  <2>1. FreeNew(new, byId) \in SUBSET A /\ FreeOld(old, byId) \in SUBSET B
    BY <1>4
  <2>2. IsFiniteSet(FreeNew(new, byId)) /\ IsFiniteSet(FreeOld(old, byId))
    BY <2>1, <1>2, FS_Subset
  <2>3. FreeNew(new, byId) \in SUBSET Nat /\ FreeOld(old, byId) \in SUBSET Nat
    BY <2>1, <1>2
  <2>4. Texted(new, FreeNew(new, byId)) /\ Texted(old, FreeOld(old, byId))
    BY <2>1, <1>2 DEF Texted
  <2> QED
    BY <2>2, <2>3, <2>4, SimilarMatches
<1> HIDE DEF last
<1>9. Pairing(byId \cup last, A, B)
  BY <1>4, <1>6, <1>8, UnionMatches
<1> QED
  BY <1>5, <1>7, <1>9 DEF A, B, same

\* what the items of a comparison say of the live rows and of the new ones
Changes == {"same", "modified", "added", "removed"}
TellOfTheLive(items, old) ==
    /\ \A it \in items : it.id # 0 => \E i \in DOMAIN old : it.id = old[i].id /\ it.hash = old[i].text
    /\ \A i \in DOMAIN old : \E it \in items : it.id = old[i].id
    /\ \A it, jt \in items : it.id = jt.id /\ it.id # 0 => it = jt
TellOfTheNew(items, new) ==
    /\ \A it \in items : it.ord \in {0} \cup DOMAIN new /\ (it.ord = 0 <=> it.change = "removed")
    /\ \A it \in items : it.change = "same" => it.hash = new[it.ord].text
    /\ \A it, jt \in items : it.ord = jt.ord /\ it.ord # 0 => it = jt
ItemsTyped(items) ==
    /\ \A it \in items : it.id \in Nat /\ it.ord \in Nat /\ it.change \in Changes /\ (it.id = 0 <=> it.change = "added")
    /\ IsFiniteSet(items)

LEMMA ImageIsFinite ==
    ASSUME NEW f, IsFiniteSet(DOMAIN f), f = [x \in DOMAIN f |-> f[x]]
    PROVE  IsFiniteSet({f[x] : x \in DOMAIN f})
<1>1. f \in Surjection(DOMAIN f, {f[x] : x \in DOMAIN f})
  BY DEF Surjection
<1> QED
  BY <1>1, FS_Surjection

\* the three kinds of items
PairItem(old, new, p) ==
    [change |-> IF old[p[2]].text = new[p[1]].text THEN "same" ELSE "modified",
     ord |-> p[1], id |-> old[p[2]].id, hash |-> old[p[2]].text]
AddItem(j) == [change |-> "added", ord |-> j, id |-> 0, hash |-> None]
RemoveItem(old, i) == [change |-> "removed", ord |-> 0, id |-> old[i].id, hash |-> old[i].text]

LEMMA Classified ==
    ASSUME NEW old \in LiveRows, NEW new \in Seq(Rows)
    PROVE  /\ TellOfTheLive(classify(old, new), old)
           /\ TellOfTheNew(classify(old, new), new)
           /\ ItemsTyped(classify(old, new))
           /\ \A p \in Identical(old, new) : PairItem(old, new, p) \in classify(old, new)
<1> DEFINE P == align(old, new)
           items == classify(old, new)
           PairItems == {PairItem(old, new, p) : p \in P}
           AddItems == {AddItem(j) : j \in FreeNew(new, P)}
           RemoveItems == {RemoveItem(old, i) : i \in FreeOld(old, P)}
<1>1. items = PairItems \cup AddItems \cup RemoveItems
  BY DEF classify, PairItem, AddItem, RemoveItem
<1>2. Pairing(P, DOMAIN new, DOMAIN old) /\ Identical(old, new) \subseteq P
  BY AlignMatches
<1>3. FreeNew(new, P) = DOMAIN new \ {p[1] : p \in P} /\ FreeOld(old, P) = DOMAIN old \ {p[2] : p \in P}
  BY DEF FreeNew, FreeOld
<1>4. old \in Seq(LiveRow) /\ IdsApart(old)
  BY DEF LiveRows
<1>5. /\ DOMAIN new \subseteq Nat \ {0} /\ IsFiniteSet(DOMAIN new)
      /\ DOMAIN old \subseteq Nat \ {0} /\ IsFiniteSet(DOMAIN old)
      /\ \A i \in DOMAIN old : old[i].id \in Nat \ {0}
  <2>1. /\ DOMAIN new \subseteq Nat \ {0} /\ IsFiniteSet(DOMAIN new)
        /\ DOMAIN old \subseteq Nat \ {0} /\ IsFiniteSet(DOMAIN old)
        /\ \A i \in DOMAIN old : old[i] \in LiveRow
    BY <1>4, SequenceDomain
  <2> QED
    BY <2>1 DEF LiveRow
<1> HIDE DEF P, items
<1>6. ASSUME NEW p \in P PROVE p[1] \in DOMAIN new /\ p[2] \in DOMAIN old
  BY <1>2 DEF Pairing
<1>7. ASSUME NEW it \in items
      PROVE  \/ \E p \in P : it = PairItem(old, new, p)
             \/ \E j \in FreeNew(new, P) : it = AddItem(j)
             \/ \E i \in FreeOld(old, P) : it = RemoveItem(old, i)
  BY <1>1
<1> HIDE DEF PairItems, AddItems, RemoveItems
<1>8. ItemsTyped(items)
  <2>1. ASSUME NEW it \in items
        PROVE  it.id \in Nat /\ it.ord \in Nat /\ it.change \in Changes /\ (it.id = 0 <=> it.change = "added")
    <3>1. CASE \E p \in P : it = PairItem(old, new, p)
      <4>1. PICK p \in P : it = PairItem(old, new, p)
        BY <3>1
      <4> QED
        BY <4>1, <1>5, <1>6 DEF PairItem, Changes
    <3>2. CASE \E j \in FreeNew(new, P) : it = AddItem(j)
      BY <3>2, <1>3, <1>5 DEF AddItem, Changes
    <3>3. CASE \E i \in FreeOld(old, P) : it = RemoveItem(old, i)
      BY <3>3, <1>3, <1>5 DEF RemoveItem, Changes
    <3> QED
      BY <1>7, <3>1, <3>2, <3>3
  <2>2. IsFiniteSet(items)
    <3>1. IsFiniteSet(P)
      <4>1. IsFiniteSet((DOMAIN new) \X (DOMAIN old))
        BY <1>5, FS_Product
      <4>2. P \subseteq (DOMAIN new) \X (DOMAIN old)
        BY <1>2 DEF Pairing
      <4> QED
        BY <4>1, <4>2, FS_Subset
    <3>2. IsFiniteSet(FreeNew(new, P)) /\ IsFiniteSet(FreeOld(old, P))
      BY <1>3, <1>5, FS_Subset
    <3> DEFINE f == [p \in P |-> PairItem(old, new, p)]
               g == [j \in FreeNew(new, P) |-> AddItem(j)]
               h == [i \in FreeOld(old, P) |-> RemoveItem(old, i)]
    <3>3. PairItems = {f[p] : p \in DOMAIN f} /\ DOMAIN f = P
      BY DEF PairItems
    <3>4. AddItems = {g[j] : j \in DOMAIN g} /\ DOMAIN g = FreeNew(new, P)
      BY DEF AddItems
    <3>5. RemoveItems = {h[i] : i \in DOMAIN h} /\ DOMAIN h = FreeOld(old, P)
      BY DEF RemoveItems
    <3>6. f = [p \in DOMAIN f |-> f[p]] /\ g = [p \in DOMAIN g |-> g[p]] /\ h = [p \in DOMAIN h |-> h[p]]
      OBVIOUS
    <3> HIDE DEF f, g, h
    <3>7. IsFiniteSet(PairItems) /\ IsFiniteSet(AddItems) /\ IsFiniteSet(RemoveItems)
      BY <3>1, <3>2, <3>3, <3>4, <3>5, <3>6, ImageIsFinite
    <3> QED
      BY <1>1, <3>7, FS_Union
  <2> QED
    BY <2>1, <2>2 DEF ItemsTyped
<1>9. TellOfTheLive(items, old)
  <2>1. ASSUME NEW it \in items, it.id # 0
        PROVE  \E i \in DOMAIN old : it.id = old[i].id /\ it.hash = old[i].text
                  /\ ((it = RemoveItem(old, i) /\ i \in FreeOld(old, P)) \/ \E p \in P : p[2] = i /\ it = PairItem(old, new, p))
    <3>1. CASE \E p \in P : it = PairItem(old, new, p)
      <4>1. PICK p \in P : it = PairItem(old, new, p)
        BY <3>1
      <4>2. p[2] \in DOMAIN old /\ it.id = old[p[2]].id /\ it.hash = old[p[2]].text
        BY <4>1, <1>6 DEF PairItem
      <4> QED
        BY <4>1, <4>2
    <3>2. CASE \E j \in FreeNew(new, P) : it = AddItem(j)
      BY <2>1, <3>2 DEF AddItem
    <3>3. CASE \E i \in FreeOld(old, P) : it = RemoveItem(old, i)
      <4>1. PICK i \in FreeOld(old, P) : it = RemoveItem(old, i)
        BY <3>3
      <4>2. i \in DOMAIN old /\ it.id = old[i].id /\ it.hash = old[i].text
        BY <4>1, <1>3 DEF RemoveItem
      <4> QED
        BY <4>1, <4>2
    <3> QED
      BY <1>7, <3>1, <3>2, <3>3
  <2>2. ASSUME NEW i \in DOMAIN old PROVE \E it \in items : it.id = old[i].id
    <3>1. CASE \E p \in P : p[2] = i
      <4>1. PICK p \in P : p[2] = i
        BY <3>1
      <4>2. PairItem(old, new, p) \in items /\ PairItem(old, new, p).id = old[i].id
        BY <4>1, <1>1 DEF PairItem, PairItems
      <4> QED
        BY <4>2
    <3>2. CASE ~\E p \in P : p[2] = i
      <4>1. i \in FreeOld(old, P)
        BY <3>2, <1>3
      <4>2. RemoveItem(old, i) \in items /\ RemoveItem(old, i).id = old[i].id
        BY <4>1, <1>1 DEF RemoveItem, RemoveItems
      <4> QED
        BY <4>2
    <3> QED
      BY <3>1, <3>2
  <2>3. ASSUME NEW it \in items, NEW jt \in items, it.id = jt.id, it.id # 0 PROVE it = jt
    <3>1. PICK i \in DOMAIN old : it.id = old[i].id
             /\ ((it = RemoveItem(old, i) /\ i \in FreeOld(old, P)) \/ \E p \in P : p[2] = i /\ it = PairItem(old, new, p))
      BY <2>1, <2>3
    <3>2. PICK j \in DOMAIN old : jt.id = old[j].id
             /\ ((jt = RemoveItem(old, j) /\ j \in FreeOld(old, P)) \/ \E p \in P : p[2] = j /\ jt = PairItem(old, new, p))
      BY <2>1, <2>3
    <3>3. i = j
      BY <1>4, <2>3, <3>1, <3>2 DEF IdsApart
    <3>4. ~(i \in FreeOld(old, P) /\ \E p \in P : p[2] = i)
      BY <1>3
    <3>5. \A p, q \in P : p[2] = q[2] => p = q
      BY <1>2 DEF Pairing
    <3> QED
      BY <3>1, <3>2, <3>3, <3>4, <3>5
  <2> QED
    BY <2>1, <2>2, <2>3 DEF TellOfTheLive
<1>10. TellOfTheNew(items, new)
  <2>1. ASSUME NEW it \in items
        PROVE  /\ it.ord \in {0} \cup DOMAIN new /\ (it.ord = 0 <=> it.change = "removed")
               /\ it.change = "same" => it.hash = new[it.ord].text
               /\ it.ord # 0 => (it = AddItem(it.ord) /\ it.ord \in FreeNew(new, P))
                                \/ \E p \in P : p[1] = it.ord /\ it = PairItem(old, new, p)
    <3>1. CASE \E p \in P : it = PairItem(old, new, p)
      <4>1. PICK p \in P : it = PairItem(old, new, p)
        BY <3>1
      <4>2. /\ it.ord = p[1] /\ it.hash = old[p[2]].text
            /\ it.change = IF old[p[2]].text = new[p[1]].text THEN "same" ELSE "modified"
        BY <4>1 DEF PairItem
      <4>3. it.ord \in DOMAIN new /\ it.ord # 0
        BY <4>2, <1>5, <1>6
      <4> QED
        BY <4>1, <4>2, <4>3
    <3>2. CASE \E j \in FreeNew(new, P) : it = AddItem(j)
      <4>1. PICK j \in FreeNew(new, P) : it = AddItem(j)
        BY <3>2
      <4>2. it.ord = j /\ it.change = "added" /\ j \in DOMAIN new /\ j # 0
        BY <4>1, <1>3, <1>5 DEF AddItem
      <4> QED
        BY <4>1, <4>2
    <3>3. CASE \E i \in FreeOld(old, P) : it = RemoveItem(old, i)
      BY <3>3 DEF RemoveItem
    <3> QED
      BY <1>7, <3>1, <3>2, <3>3
  <2>2. ASSUME NEW it \in items, NEW jt \in items, it.ord = jt.ord, it.ord # 0 PROVE it = jt
    <3>1. ~(it.ord \in FreeNew(new, P) /\ \E p \in P : p[1] = it.ord)
      BY <1>3
    <3>2. \A p, q \in P : p[1] = q[1] => p = q
      BY <1>2 DEF Pairing
    <3>3. /\ \/ it = AddItem(it.ord) /\ it.ord \in FreeNew(new, P)
             \/ \E p \in P : p[1] = it.ord /\ it = PairItem(old, new, p)
          /\ \/ jt = AddItem(it.ord) /\ it.ord \in FreeNew(new, P)
             \/ \E p \in P : p[1] = it.ord /\ jt = PairItem(old, new, p)
      BY <2>1, <2>2
    <3> QED
      BY <3>1, <3>2, <3>3
  <2> QED
    BY <2>1, <2>2 DEF TellOfTheNew
<1>11. \A p \in Identical(old, new) : PairItem(old, new, p) \in items
  BY <1>1, <1>2 DEF PairItems
<1> QED
  BY <1>8, <1>9, <1>10, <1>11 DEF items

-----------------------------------------------------------------------------
(* What a comparison read, and the rows an apply aims at.                 *)

TargetRow == [id : Nat, text : ReqTexts, req : ReqIds \cup {None}, sec : Sections, vec : Keys]
OfItsText(s) == \A k \in DOMAIN s : s[k].vec[1] = s[k].text

LEMMA OwnVector ==
    ASSUME NEW id \in Nat, NEW r, r.text \in ReqTexts, r.req \in ReqIds \cup {None}, r.sec \in Sections
    PROVE  /\ Requirement(id, r) \in TargetRow
           /\ Requirement(id, r).vec = <<r.text, r.sec>> /\ Requirement(id, r).vec[1] = r.text
           /\ Requirement(id, r).text = r.text /\ Requirement(id, r).id = id
           /\ id # 0 => Requirement(id, r) \in LiveRow
<1>1. <<r.text, r.sec>> \in Keys
  BY DEF Keys
<1>2. Requirement(id, r) = [id |-> id, text |-> r.text, req |-> r.req, sec |-> r.sec, vec |-> <<r.text, r.sec>>]
  BY DEF Requirement, EmbedHash
<1>3. Requirement(id, r) \in TargetRow
  BY <1>1, <1>2 DEF TargetRow
<1>4. id # 0 => Requirement(id, r) \in LiveRow
  BY <1>1, <1>2 DEF LiveRow
<1> QED
  BY <1>2, <1>3, <1>4

LEMMA SameFingerprint ==
    ASSUME NEW old, NEW rows, Fingerprint(old) = Fingerprint(rows)
    PROVE  \A i \in DOMAIN old : \E k \in DOMAIN rows : old[i].id = rows[k].id /\ old[i].text = rows[k].text
<1> TAKE i \in DOMAIN old
<1>1. \A s : Fingerprint(s) = {<<r.id, r.text, r.req, r.sec>> : r \in {s[k] : k \in DOMAIN s}}
  BY DEF Fingerprint, Range
<1>2. <<old[i].id, old[i].text, old[i].req, old[i].sec>> \in Fingerprint(old)
  BY <1>1
<1>3. PICK r \in {rows[k] : k \in DOMAIN rows} :
         <<old[i].id, old[i].text, old[i].req, old[i].sec>> = <<r.id, r.text, r.req, r.sec>>
  BY <1>1, <1>2
<1>4. old[i].id = r.id /\ old[i].text = r.text
  BY <1>3
<1> QED
  BY <1>3, <1>4

\* the two live documents that a comparison lies between say the same
SayTheSame(old, rows) ==
    /\ \A i \in DOMAIN old : \E k \in DOMAIN rows : old[i].id = rows[k].id /\ old[i].text = rows[k].text
    /\ \A k \in DOMAIN rows : \E i \in DOMAIN old : old[i].id = rows[k].id /\ old[i].text = rows[k].text

LEMMA SameFingerprintSays ==
    ASSUME NEW old, NEW rows, Fingerprint(old) = Fingerprint(rows)
    PROVE  SayTheSame(old, rows)
<1>1. \A i \in DOMAIN old : \E k \in DOMAIN rows : old[i].id = rows[k].id /\ old[i].text = rows[k].text
  BY SameFingerprint
<1>2. \A k \in DOMAIN rows : \E i \in DOMAIN old : rows[k].id = old[i].id /\ rows[k].text = old[i].text
  BY SameFingerprint
<1> QED
  BY <1>1, <1>2 DEF SayTheSame

LEMMA LiveRowTypes ==
    ASSUME NEW s \in LiveRows
    PROVE  /\ s \in Seq(LiveRow) /\ IdsApart(s) /\ IsFiniteSet(DOMAIN s) /\ Len(s) \in Nat /\ DOMAIN s = 1..Len(s)
           /\ \A k \in DOMAIN s : s[k] \in LiveRow /\ s[k].id \in Nat \ {0} /\ s[k].text \in ReqTexts
           /\ IdsIn(s) = {s[k].id : k \in DOMAIN s}
<1>1. s \in Seq(LiveRow) /\ IdsApart(s)
  BY DEF LiveRows
<1>2. /\ IsFiniteSet(DOMAIN s) /\ Len(s) \in Nat /\ DOMAIN s = 1..Len(s) /\ \A k \in DOMAIN s : s[k] \in LiveRow
      /\ Range(s) = {s[k] : k \in DOMAIN s}
  BY <1>1, SequenceDomain
<1>3. \A x \in LiveRow : x.id \in Nat \ {0} /\ x.text \in ReqTexts
  BY DEF LiveRow
<1>4. IdsIn(s) = {s[k].id : k \in DOMAIN s}
  BY <1>2 DEF IdsIn
<1> QED
  BY <1>1, <1>2, <1>3, <1>4

LEMMA ComparisonIsCurrent ==
    ASSUME NEW old \in LiveRows, NEW rows \in LiveRows, NEW items, TellOfTheLive(items, old), SayTheSame(old, rows)
    PROVE  ~IsStale(items, rows)
<1>1. /\ IdsIn(rows) = {rows[k].id : k \in DOMAIN rows}
      /\ \A k \in DOMAIN rows : rows[k].id # 0
      /\ \A i, k \in DOMAIN rows : rows[i].id = rows[k].id => i = k
  BY LiveRowTypes DEF IdsApart
<1>2. /\ \A it \in items : it.id # 0 => \E i \in DOMAIN old : it.id = old[i].id /\ it.hash = old[i].text
      /\ \A i \in DOMAIN old : \E it \in items : it.id = old[i].id
  BY DEF TellOfTheLive
<1>3. ASSUME NEW it \in items, it.id # 0
      PROVE  \E k \in DOMAIN rows : it.id = rows[k].id /\ it.hash = rows[k].text
  BY <1>2, <1>3 DEF SayTheSame
<1>4. ASSUME NEW k \in DOMAIN rows PROVE \E it \in items : it.id = rows[k].id
  BY <1>2 DEF SayTheSame
<1>5. {it.id : it \in items} \ {0} = IdsIn(rows)
  <2>1. ASSUME NEW x \in {it.id : it \in items} \ {0} PROVE x \in IdsIn(rows)
    BY <1>1, <1>3, <2>1
  <2>2. ASSUME NEW x \in IdsIn(rows) PROVE x \in {it.id : it \in items} \ {0}
    BY <1>1, <1>4, <2>2
  <2> QED
    BY <2>1, <2>2
<1>6. ASSUME NEW it \in items, NEW r \in Range(rows), it.id = r.id PROVE it.hash = r.text
  <2>1. PICK k \in DOMAIN rows : r = rows[k]
    BY DEF Range
  <2>2. it.id # 0
    BY <1>1, <1>6, <2>1
  <2>3. PICK i \in DOMAIN rows : it.id = rows[i].id /\ it.hash = rows[i].text
    BY <1>3, <2>2
  <2>4. i = k
    BY <1>1, <1>6, <2>1, <2>3
  <2> QED
    BY <2>1, <2>3, <2>4
<1> QED
  BY <1>5, <1>6 DEF IsStale

LEMMA NotStale ==
    ASSUME NEW items, NEW rows, ~IsStale(items, rows)
    PROVE  /\ \A r \in Range(rows) : \E it \in items : it.id = r.id /\ it.hash = r.text
           /\ \A it \in items : it.id # 0 => \E r \in Range(rows) : it.id = r.id
           /\ \A it \in items, r \in Range(rows) : it.id = r.id => it.hash = r.text
<1>1. {it.id : it \in items} \ {0} = {r.id : r \in Range(rows)}
  BY DEF IsStale, IdsIn
<1>2. \A it \in items, r \in Range(rows) : it.id = r.id => it.hash = r.text
  BY DEF IsStale
<1> QED
  BY <1>1, <1>2

-----------------------------------------------------------------------------
(* The targets of an apply. *)

GoodTargets(ts) ==
    /\ ts \in Seq(TargetRow) /\ OfItsText(ts)
    /\ \A i, j \in DOMAIN ts : ts[i].id = ts[j].id /\ ts[i].id # 0 => i = j

LastWithId(s, B) == SelectLastInSeq(s, LAMBDA t : t.id \in B)

LEMMA SelectsLast ==
    ASSUME NEW T, NEW s \in Seq(T), NEW B
    PROVE  /\ LastWithId(s, B) \in 0..Len(s)
           /\ \A k \in 1..Len(s) : s[k].id \in B => k <= LastWithId(s, B)
<1> DEFINE I == {i \in 1..Len(s) : s[i].id \in B}
<1>1. Len(s) \in Nat /\ I \subseteq Nat /\ IsFiniteSet(I)
  <2>1. Len(s) \in Nat /\ DOMAIN s = 1..Len(s) /\ IsFiniteSet(DOMAIN s)
    BY SequenceDomain
  <2>2. I \in SUBSET (DOMAIN s)
    BY <2>1
  <2> QED
    BY <2>1, <2>2, FS_Subset
<1>2. LastWithId(s, B) = IF I # {} THEN Max(I) ELSE 0
  BY DEF LastWithId, SelectLastInSeq
<1>3. Max(I) = CHOOSE x \in I : \A y \in I : x >= y
  BY DEF Max
<1>4. CASE I # {}
  <2>0. I \in SUBSET (0..Len(s))
    BY <1>1
  <2>1. PICK m \in I : \A k \in I : k <= m
    <3> HIDE DEF I
    <3> QED
      BY <2>0, <1>1, <1>4, GreatestNumber
  <2>2. \A y \in I : m >= y
    BY <1>1, <2>1
  <2>3. Max(I) \in I /\ \A y \in I : Max(I) >= y
    <3> HIDE DEF I
    <3> QED
      BY <1>3, <2>1, <2>2
  <2>4. LastWithId(s, B) \in I /\ \A y \in I : y <= LastWithId(s, B)
    <3> HIDE DEF I
    <3> QED
      BY <1>1, <1>2, <1>4, <2>3
  <2> QED
    BY <1>1, <2>4
<1>5. CASE I = {}
  BY <1>1, <1>2, <1>5
<1> QED
  BY <1>4, <1>5

FirstWithId(s, id) == SelectInSeq(s, LAMBDA t : t.id = id)

LEMMA SelectsOnly ==
    ASSUME NEW T, NEW s \in Seq(T), NEW k \in DOMAIN s, NEW id, s[k].id = id,
           \A l \in DOMAIN s : s[l].id = id => l = k
    PROVE  FirstWithId(s, id) = k
<1> DEFINE I == {i \in 1..Len(s) : s[i].id = id}
<1>1. DOMAIN s = 1..Len(s) /\ k \in Nat /\ I = {k}
  <2>1. DOMAIN s = 1..Len(s) /\ Len(s) \in Nat
    BY SequenceDomain
  <2> QED
    BY <2>1
<1>2. FirstWithId(s, id) = IF I # {} THEN Min(I) ELSE 0
  BY DEF FirstWithId, SelectInSeq
<1> HIDE DEF I
<1>3. Min(I) = k
  BY <1>1 DEF Min
<1> QED
  BY <1>1, <1>2, <1>3

IsInsertion(all, T, s, p, e) ==
    /\ all \in Seq(T) /\ Len(all) = Len(s) + 1
    /\ \A k \in 1..(Len(s) + 1) : all[k] = IF k < p THEN s[k] ELSE IF k = p THEN e ELSE s[k - 1]

LEMMA OneRowInserted ==
    ASSUME NEW T, NEW s \in Seq(T), NEW p \in 1..(Len(s) + 1), NEW e \in T
    PROVE  IsInsertion(InsertAt(s, p, e), T, s, p, e)
<1> DEFINE n == p - 1
           all == InsertAt(s, p, e)
           head == SubSeq(s, 1, n)
           tail == SubSeq(s, p, Len(s))
           front == head \o <<e>>
<1>1. Len(s) \in Nat /\ n \in Nat /\ n <= Len(s) /\ p = n + 1
  BY LenProperties
<1>2. head \in Seq(T) /\ Len(head) = n /\ \A j \in 1..n : head[j] = s[j]
  OBVIOUS
<1>3. tail \in Seq(T) /\ Len(tail) = Len(s) - n /\ \A j \in 1..(Len(s) - n) : tail[j] = s[n + j]
  OBVIOUS
<1>4. <<e>> \in Seq(T) /\ Len(<<e>>) = 1 /\ <<e>>[1] = e
  OBVIOUS
<1>5. all = front \o tail
  BY DEF InsertAt
<1> HIDE DEF n, head, tail, all
<1>6. /\ front \in Seq(T) /\ Len(front) = n + 1
      /\ \A j \in 1..(n + 1) : front[j] = IF j <= n THEN s[j] ELSE e
  <2>1. /\ front \in Seq(T) /\ Len(front) = Len(head) + Len(<<e>>)
        /\ \A j \in 1..(Len(head) + Len(<<e>>)) : front[j] = IF j <= Len(head) THEN head[j] ELSE <<e>>[j - Len(head)]
    BY <1>2, <1>4, ConcatProperties
  <2>2. Len(front) = n + 1
    BY <1>2, <1>4, <2>1
  <2>3. ASSUME NEW j \in 1..(n + 1) PROVE front[j] = IF j <= n THEN s[j] ELSE e
    <3>1. front[j] = IF j <= n THEN head[j] ELSE <<e>>[j - n]
      BY <1>2, <1>4, <2>1
    <3>2. CASE j <= n
      BY <1>1, <1>2, <3>1, <3>2
    <3>3. CASE ~(j <= n)
      <4>1. j - n = 1
        BY <1>1, <3>3
      <4> QED
        BY <1>4, <3>1, <3>3, <4>1
    <3> QED
      BY <3>2, <3>3
  <2> QED
    BY <2>1, <2>2, <2>3
<1> HIDE DEF front
<1>7. /\ all \in Seq(T) /\ Len(all) = Len(front) + Len(tail)
      /\ \A j \in 1..(Len(front) + Len(tail)) : all[j] = IF j <= Len(front) THEN front[j] ELSE tail[j - Len(front)]
  <2>1. front \in Seq(T) /\ tail \in Seq(T)
    BY <1>3, <1>6
  <2> QED
    BY ONLY <2>1, <1>5, ConcatProperties
<1>8. Len(all) = Len(s) + 1 /\ Len(front) + Len(tail) = Len(s) + 1
  BY <1>1, <1>3, <1>6, <1>7
<1>9. ASSUME NEW k \in 1..(Len(s) + 1)
      PROVE  all[k] = IF k <= n THEN s[k] ELSE IF k = n + 1 THEN e ELSE s[k - 1]
  <2>1. CASE k <= n + 1
    <3>1. k \in 1..(n + 1) /\ k <= Len(front)
      BY <1>1, <1>6, <2>1
    <3> QED
      BY <3>1, <1>6, <1>7, <1>8, <1>1
  <2>2. CASE ~(k <= n + 1)
    <3>1. k - (n + 1) \in 1..(Len(s) - n) /\ n + (k - (n + 1)) = k - 1
      BY <1>1, <2>2
    <3>2. all[k] = tail[k - (n + 1)]
      BY <1>6, <1>7, <1>8, <2>2
    <3>3. all[k] = s[k - 1]
      BY <1>3, <3>1, <3>2
    <3> QED
      BY <3>3, <2>2, <1>1
  <2> QED
    BY <2>1, <2>2
<1>10. \A k \in 1..(Len(s) + 1) : (k <= n <=> k < p) /\ (k = n + 1 <=> k = p)
  BY <1>1
<1>11. /\ all \in Seq(T) /\ Len(all) = Len(s) + 1
       /\ \A k \in 1..(Len(s) + 1) : all[k] = IF k < p THEN s[k] ELSE IF k = p THEN e ELSE s[k - 1]
  BY <1>7, <1>8, <1>9, <1>10
<1>12. IsInsertion(all, T, s, p, e)
  BY <1>11 DEF IsInsertion
<1> QED
  BY <1>12 DEF all

LEMMA Removed ==
    ASSUME NEW T, NEW s \in Seq(T), NEW i \in DOMAIN s
    PROVE  /\ RemoveAt(s, i) \in Seq(T) /\ Len(RemoveAt(s, i)) = Len(s) - 1
           /\ \A k \in 1..(Len(s) - 1) : RemoveAt(s, i)[k] = IF k < i THEN s[k] ELSE s[k + 1]
<1> DEFINE head == SubSeq(s, 1, i - 1)
           tail == SubSeq(s, i + 1, Len(s))
           all == RemoveAt(s, i)
<1>1. Len(s) \in Nat /\ i \in Nat /\ 1 <= i /\ i <= Len(s)
  BY LenProperties
<1>2. head \in Seq(T) /\ Len(head) = i - 1 /\ \A j \in 1..(i - 1) : head[j] = s[j]
  OBVIOUS
<1>3. tail \in Seq(T) /\ Len(tail) = Len(s) - i /\ \A j \in 1..(Len(s) - i) : tail[j] = s[i + j]
  OBVIOUS
<1>4. all = head \o tail
  BY DEF RemoveAt
<1> HIDE DEF head, tail, all
<1>5. /\ all \in Seq(T) /\ Len(all) = Len(head) + Len(tail)
      /\ \A j \in 1..(Len(head) + Len(tail)) : all[j] = IF j <= Len(head) THEN head[j] ELSE tail[j - Len(head)]
  BY <1>2, <1>3, <1>4, ConcatProperties
<1>6. Len(head) + Len(tail) = Len(s) - 1
  BY <1>1, <1>2, <1>3
<1>7. ASSUME NEW k \in 1..(Len(s) - 1)
      PROVE  all[k] = IF k < i THEN s[k] ELSE s[k + 1]
  <2>1. CASE k < i
    <3>1. k \in 1..(i - 1) /\ k <= Len(head)
      BY <1>1, <1>2, <2>1
    <3> QED
      BY <3>1, <2>1, <1>2, <1>5, <1>6
  <2>2. CASE ~(k < i)
    <3>1. k - (i - 1) \in 1..(Len(s) - i) /\ i + (k - (i - 1)) = k + 1 /\ ~(k <= i - 1)
      BY <1>1, <2>2
    <3>2. all[k] = tail[k - (i - 1)]
      BY <1>2, <1>5, <1>6, <3>1
    <3> QED
      BY <1>3, <2>2, <3>1, <3>2
  <2> QED
    BY <2>1, <2>2
<1> QED
  BY <1>5, <1>6, <1>7 DEF all

-----------------------------------------------------------------------------
(* The invariant of a review.                                             *)

RunTypes == [pc : {"idle", "queued", "bump", "embed", "ready", "stage"}, file : Seq(Rows),
             todo : SUBSET Keys, have : SUBSET Keys, seen : LiveRows, attempts : Nat]
LiveOK == live \in LiveRows /\ nextId \in Nat \ {0} /\ \A k \in DOMAIN live : live[k].id < nextId
OpenReview(r) ==
    /\ r = [rows |-> r.rows, items |-> r.items] /\ r.rows \in Seq(Rows)
    /\ \E old \in LiveRows : r.items = classify(old, r.rows)
ReviewInv ==
    /\ LiveOK /\ FoundByItsText
    /\ cache \in [Keys -> Nat] /\ run \in RunTypes
    /\ \A r \in rev : OpenReview(r)
    /\ \A q, r \in rev : q = r

-----------------------------------------------------------------------------
TakenItems(items, skip) == {it \in items : it.ord > 0 /\ ~(it.change = "added" /\ it \in skip)}
NthItem(taken, k) == CHOOSE it \in taken : Cardinality({x \in taken : x.ord < it.ord}) = k - 1

LEMMA NthItems ==
    ASSUME NEW taken, IsFiniteSet(taken), \A it \in taken : it.ord \in Nat,
           \A it, jt \in taken : it.ord = jt.ord => it = jt
    PROVE  /\ Cardinality(taken) \in Nat
           /\ \A k \in 1..Cardinality(taken) : NthItem(taken, k) \in taken
           /\ \A k, l \in 1..Cardinality(taken) : NthItem(taken, k) = NthItem(taken, l) => k = l
           /\ \A it \in taken : \E k \in 1..Cardinality(taken) : NthItem(taken, k) = it
<1> DEFINE key == [it \in taken |-> it.ord]
           C(it) == Cardinality({x \in taken : x.ord < it.ord})
           N == Cardinality(taken)
<1>1. key \in [taken -> Nat] /\ \A x, y \in taken : key[x] = key[y] => x = y
  OBVIOUS
<1>2. \A it \in taken : RankIn(taken, key, it) = C(it)
  <2> TAKE it \in taken
  <2>1. {x \in taken : key[x] < key[it]} = {x \in taken : x.ord < it.ord}
    OBVIOUS
  <2> QED
    BY <2>1 DEF RankIn
<1> HIDE DEF key
<1>3. /\ N \in Nat
      /\ \A it \in taken : C(it) \in 0..(N - 1)
      /\ \A x, y \in taken : C(x) = C(y) => x = y
      /\ \A n \in 0..(N - 1) : \E it \in taken : C(it) = n
  <2>1. /\ N \in Nat
        /\ \A t \in taken : RankIn(taken, key, t) \in 0..(N - 1)
        /\ \A x, y \in taken : RankIn(taken, key, x) = RankIn(taken, key, y) => x = y
        /\ \A n \in 0..(N - 1) : \E t \in taken : RankIn(taken, key, t) = n
    BY <1>1, Ranks
  <2> HIDE DEF C, N
  <2> QED
    BY <2>1, <1>2
<1>4. \A k : NthItem(taken, k) = CHOOSE it \in taken : C(it) = k - 1
  BY DEF NthItem
<1> HIDE DEF C, N
<1>5. ASSUME NEW k \in 1..N PROVE NthItem(taken, k) \in taken /\ C(NthItem(taken, k)) = k - 1
  <2>1. k - 1 \in 0..(N - 1)
    BY <1>3
  <2>2. \E it \in taken : C(it) = k - 1
    BY <1>3, <2>1
  <2> QED
    BY <1>4, <2>2
<1>6. ASSUME NEW k \in 1..N, NEW l \in 1..N, NthItem(taken, k) = NthItem(taken, l) PROVE k = l
  <2>1. k - 1 = l - 1
    BY <1>5, <1>6
  <2> QED
    BY <2>1
<1>7. ASSUME NEW it \in taken PROVE \E k \in 1..N : NthItem(taken, k) = it
  <2>1. C(it) \in 0..(N - 1)
    BY <1>3
  <2>2. C(it) + 1 \in 1..N /\ (C(it) + 1) - 1 = C(it)
    BY <1>3, <2>1
  <2>3. NthItem(taken, C(it) + 1) = it
    BY <1>3, <1>5, <2>2
  <2> QED
    BY <2>2, <2>3
<1> QED
  BY <1>3, <1>5, <1>6, <1>7 DEF N

LEMMA ReviewFacts ==
    ASSUME NEW r, OpenReview(r)
    PROVE  /\ TellOfTheNew(r.items, r.rows) /\ ItemsTyped(r.items)
           /\ \A it, jt \in r.items : it.id = jt.id /\ it.id # 0 => it = jt
           /\ \A k \in DOMAIN r.rows : r.rows[k].text \in ReqTexts /\ r.rows[k].req \in ReqIds \cup {None}
                                        /\ r.rows[k].sec \in Sections
<1>1. PICK old \in LiveRows : r.items = classify(old, r.rows)
  BY DEF OpenReview
<1>2. r.rows \in Seq(Rows)
  BY DEF OpenReview
<1>3. TellOfTheLive(r.items, old) /\ TellOfTheNew(r.items, r.rows) /\ ItemsTyped(r.items)
  BY <1>1, <1>2, Classified
<1>4. \A k \in DOMAIN r.rows : r.rows[k] \in Rows
  BY <1>2, SequenceDomain
<1> QED
  BY <1>3, <1>4 DEF TellOfTheLive, Rows

LEMMA RowsFound ==
    ASSUME NEW id, \E r \in Range(live) : r.id = id
    PROVE  RowOf(id) \in Range(live) /\ RowOf(id).id = id
BY DEF RowOf

LEMMA LiveTypes ==
    ASSUME LiveOK, FoundByItsText
    PROVE  \A r \in Range(live) : r \in LiveRow /\ r \in TargetRow /\ r.vec[1] = r.text /\ r.id < nextId
<1>1. \A k \in DOMAIN live : live[k] \in LiveRow /\ live[k].id < nextId
  BY LiveRowTypes DEF LiveOK
<1>2. Range(live) = {live[k] : k \in DOMAIN live}
  BY DEF Range
<1>3. LiveRow \subseteq TargetRow
  BY DEF LiveRow, TargetRow
<1> QED
  BY <1>1, <1>2, <1>3 DEF FoundByItsText

LEMMA TargetOK ==
    ASSUME LiveOK, FoundByItsText, NEW r, OpenReview(r), ~IsStale(r.items, live), NEW skip, VectorsThere(r, skip),
           NEW it \in TakenItems(r.items, skip)
    PROVE  /\ Target(it, r.rows[it.ord], skip) \in TargetRow
           /\ Target(it, r.rows[it.ord], skip).id = it.id
           /\ Target(it, r.rows[it.ord], skip).vec[1] = Target(it, r.rows[it.ord], skip).text
           /\ it.change = "same" => Target(it, r.rows[it.ord], skip).text = it.hash
<1> DEFINE row == r.rows[it.ord]
           t == Requirement(it.id, row)
<1>1. /\ it \in r.items /\ it.ord \in DOMAIN r.rows /\ it.id \in Nat /\ it.change \in {"same", "modified", "added"}
      /\ (it.id = 0 <=> it.change = "added") /\ ~(it.change = "added" /\ it \in skip)
      /\ it.change = "same" => it.hash = row.text
  BY ReviewFacts DEF TakenItems, TellOfTheNew, ItemsTyped, Changes
<1>2. row.text \in ReqTexts /\ row.req \in ReqIds \cup {None} /\ row.sec \in Sections
  BY <1>1, ReviewFacts
<1>3. t \in TargetRow /\ t.id = it.id /\ t.text = row.text /\ t.vec[1] = row.text /\ t.vec = EmbedHash(row)
  BY <1>1, <1>2, OwnVector DEF EmbedHash
<1>4. ASSUME it.id # 0
      PROVE  /\ RowOf(it.id) \in Range(live) /\ RowOf(it.id).id = it.id /\ RowOf(it.id).text = it.hash
             /\ RowOf(it.id) \in TargetRow /\ RowOf(it.id).vec[1] = it.hash /\ RowOf(it.id).vec \in Keys
  <2>1. \E x \in Range(live) : x.id = it.id
    BY <1>1, <1>4, NotStale
  <2>2. RowOf(it.id) \in Range(live) /\ RowOf(it.id).id = it.id
    BY <2>1, RowsFound
  <2>3. RowOf(it.id).text = it.hash
    BY <1>1, <2>2, NotStale
  <2>4. RowOf(it.id) \in TargetRow /\ RowOf(it.id).vec[1] = RowOf(it.id).text
    BY <2>2, LiveTypes
  <2>5. RowOf(it.id).vec \in Keys
    BY <2>4 DEF TargetRow
  <2> QED
    BY <2>2, <2>3, <2>4, <2>5
<1> HIDE DEF t, row
<1>5. CASE it.change = "modified" /\ it \in skip
  <2>1. Target(it, row, skip) = RowOf(it.id)
    BY <1>5 DEF Target
  <2> QED
    BY <2>1, <1>1, <1>4, <1>5 DEF row
<1>6. CASE ~(it.change = "modified" /\ it \in skip) /\ (it.id = 0 \/ (NeedsVector(it, row) /\ t.vec \in Cached))
  <2>1. Target(it, row, skip) = t
    BY <1>6 DEF Target, t
  <2> QED
    BY <2>1, <1>1, <1>3 DEF row
<1>7. CASE ~(it.change = "modified" /\ it \in skip) /\ ~(it.id = 0 \/ (NeedsVector(it, row) /\ t.vec \in Cached))
  <2> DEFINE v == RowOf(it.id).vec
             kept == [t EXCEPT !.vec = v]
  <2>1. Target(it, row, skip) = kept
    BY <1>7 DEF Target, t
  <2>2. v \in Keys /\ v[1] = it.hash
    BY <1>4, <1>7
  <2>3. kept \in TargetRow /\ kept.id = it.id /\ kept.text = row.text /\ kept.vec = v
    <3> HIDE DEF v
    <3> QED
      BY <1>3, <2>2 DEF TargetRow
  <2>4. it.hash = row.text \/ v[1] = row.text
    <3>1. CASE ~NeedsVector(it, row)
      <4>1. v = EmbedHash(row)
        BY <3>1 DEF NeedsVector
      <4> QED
        BY <4>1, <1>3
    <3>2. CASE NeedsVector(it, row)
      <4>1. t.vec \notin Cached
        BY <3>2, <1>7
      <4>2. EmbedHash(row) \notin Cached
        BY <4>1, <1>3
      <4>3. ~(it.change \in {"modified", "added"} /\ it \notin skip)
        BY <4>2, <1>1 DEF VectorsThere, row
      <4>4. it.change = "same"
        BY <4>3, <1>1, <1>7
      <4> QED
        BY <4>4, <1>1
    <3> QED
      BY <3>1, <3>2
  <2>5. v[1] = row.text
    BY <2>2, <2>4
  <2>6. it.change = "same" => row.text = it.hash
    BY <1>1
  <2> HIDE DEF kept, v
  <2> QED
    BY <2>1, <2>3, <2>5, <2>6 DEF row
<1> QED
  BY <1>5, <1>6, <1>7

-----------------------------------------------------------------------------
(* The targets of an apply, and the rows it keeps.                        *)

LEMMA TargetsOK ==
    ASSUME LiveOK, FoundByItsText, NEW r, OpenReview(r), ~IsStale(r.items, live), NEW skip, VectorsThere(r, skip)
    PROVE  /\ GoodTargets(Targets(r, skip))
           /\ \A k \in DOMAIN Targets(r, skip) : \E it \in r.items : Targets(r, skip)[k].id = it.id /\ it.ord # 0
           /\ \A it \in r.items : it.change = "same" =>
                 \E k \in DOMAIN Targets(r, skip) : Targets(r, skip)[k].id = it.id /\ Targets(r, skip)[k].text = it.hash
<1> DEFINE taken == TakenItems(r.items, skip)
           N == Cardinality(taken)
           nth(k) == NthItem(taken, k)
           tg(it) == Target(it, r.rows[it.ord], skip)
           ts == Targets(r, skip)
<1>1. IsFiniteSet(taken) /\ \A it \in taken : it.ord \in Nat
  <2>1. IsFiniteSet(r.items) /\ \A it \in r.items : it.ord \in Nat
    BY ReviewFacts DEF ItemsTyped
  <2>2. taken \in SUBSET r.items
    BY DEF TakenItems
  <2> QED
    BY <2>1, <2>2, FS_Subset
<1>2. \A it, jt \in taken : it.ord = jt.ord => it = jt
  BY ReviewFacts DEF TakenItems, TellOfTheNew
<1>3. ts = [k \in 1..N |-> tg(nth(k))]
  BY DEF Targets, TakenItems, NthItem
<1>4. \A it \in taken : /\ tg(it) \in TargetRow /\ tg(it).id = it.id /\ tg(it).vec[1] = tg(it).text
                        /\ it.change = "same" => tg(it).text = it.hash
  BY TargetOK
<1> HIDE DEF taken, tg
<1>5. /\ N \in Nat
      /\ \A k \in 1..N : nth(k) \in taken
      /\ \A k, l \in 1..N : nth(k) = nth(l) => k = l
      /\ \A it \in taken : \E k \in 1..N : nth(k) = it
  BY <1>1, <1>2, NthItems
<1> HIDE DEF N, nth, ts
<1>6. DOMAIN ts = 1..N /\ \A k \in 1..N : ts[k] = tg(nth(k))
  BY <1>3
<1>7. ts \in Seq(TargetRow)
  <2>1. \A k \in 1..N : tg(nth(k)) \in TargetRow
    BY <1>4, <1>5
  <2> QED
    BY <1>3, <1>5, <2>1
<1>8. OfItsText(ts)
  BY <1>4, <1>5, <1>6 DEF OfItsText
<1>9. \A it \in taken : it \in r.items /\ it.ord # 0
  BY <1>1 DEF taken, TakenItems
<1>10. ASSUME NEW k \in 1..N, NEW l \in 1..N, ts[k].id = ts[l].id, ts[k].id # 0 PROVE k = l
  <2>1. nth(k).id = nth(l).id /\ nth(k).id # 0
    BY <1>4, <1>5, <1>6, <1>10
  <2>2. nth(k) = nth(l)
    BY <2>1, <1>5, <1>9, ReviewFacts
  <2> QED
    BY <2>2, <1>5
<1>11. \A k \in 1..N : \E it \in r.items : ts[k].id = it.id /\ it.ord # 0
  BY <1>4, <1>5, <1>6, <1>9
<1>12. ASSUME NEW it \in r.items, it.change = "same"
       PROVE  \E k \in 1..N : ts[k].id = it.id /\ ts[k].text = it.hash
  <2>1. it.ord \in Nat /\ it.ord # 0
    BY <1>12, ReviewFacts DEF ItemsTyped, TellOfTheNew
  <2>2. it \in taken
    BY <2>1, <1>12 DEF taken, TakenItems
  <2>3. PICK k \in 1..N : nth(k) = it
    BY <2>2, <1>5
  <2> QED
    BY <2>2, <2>3, <1>4, <1>6, <1>12
<1>13. GoodTargets(ts)
  BY <1>6, <1>7, <1>8, <1>10 DEF GoodTargets
<1> QED
  BY <1>6, <1>11, <1>12, <1>13 DEF ts

-----------------------------------------------------------------------------
(* Kept rows are put back, one after the other. *)

HasId(ts, id) == \E k \in DOMAIN ts : ts[k].id = id
IdBefore(ts, x, y) == \A k, l \in DOMAIN ts : ts[k].id = x /\ ts[l].id = y => k < l

LEMMA InsertKeptOK ==
    ASSUME LiveOK, FoundByItsText, NEW ts, GoodTargets(ts), NEW n \in DOMAIN live, ~HasId(ts, live[n].id)
    PROVE  /\ GoodTargets(InsertKept(ts, n))
           /\ \A k \in DOMAIN ts : \E l \in DOMAIN InsertKept(ts, n) : InsertKept(ts, n)[l] = ts[k]
           /\ \A l \in DOMAIN InsertKept(ts, n) :
                InsertKept(ts, n)[l] = live[n] \/ \E k \in DOMAIN ts : InsertKept(ts, n)[l] = ts[k]
           /\ \A x, y : x # live[n].id /\ y # live[n].id /\ IdBefore(ts, x, y) => IdBefore(InsertKept(ts, n), x, y)
           /\ \A m \in 1..(n - 1) : IdBefore(InsertKept(ts, n), live[m].id, live[n].id)
<1> DEFINE before == {live[m].id : m \in 1..(n - 1)}
           pos == LastWithId(ts, before)
           place == pos + 1
           new == InsertKept(ts, n)
<1>1. ts \in Seq(TargetRow) /\ Len(ts) \in Nat /\ DOMAIN ts = 1..Len(ts)
  BY SequenceDomain DEF GoodTargets
<1>2. pos \in 0..Len(ts)
  BY <1>1, SelectsLast
<1>3. live[n] \in TargetRow /\ live[n].vec[1] = live[n].text
  BY LiveTypes DEF Range
<1>4. new = InsertAt(ts, place, live[n])
  BY DEF InsertKept, LastWithId
<1> HIDE DEF pos, before, new
<1>5. /\ new \in Seq(TargetRow) /\ Len(new) = Len(ts) + 1
      /\ \A k \in 1..(Len(ts) + 1) :
            new[k] = IF k < place THEN ts[k] ELSE IF k = place THEN live[n] ELSE ts[k - 1]
  <2>1. place \in 1..(Len(ts) + 1)
    BY <1>1, <1>2
  <2> DEFINE e == live[n]
  <2>2. e \in TargetRow /\ new = InsertAt(ts, place, e) /\ ts \in Seq(TargetRow)
    BY <1>1, <1>3, <1>4
  <2> HIDE DEF place, e
  <2>3. IsInsertion(InsertAt(ts, place, e), TargetRow, ts, place, e)
    BY ONLY <2>1, <2>2, OneRowInserted
  <2>4. IsInsertion(new, TargetRow, ts, place, e)
    BY <2>2, <2>3
  <2> QED
    BY <2>4 DEF IsInsertion, e
<1>6. DOMAIN new = 1..(Len(ts) + 1)
  BY <1>5, SequenceDomain
<1>7. pos \in Nat /\ pos <= Len(ts)
  BY <1>1, <1>2
<1>8. ASSUME NEW l \in DOMAIN new
      PROVE  \/ l = pos + 1 /\ new[l] = live[n]
             \/ l <= pos /\ l \in DOMAIN ts /\ new[l] = ts[l]
             \/ l > pos + 1 /\ l - 1 \in DOMAIN ts /\ new[l] = ts[l - 1]
  BY <1>1, <1>5, <1>6, <1>7
<1>9. ASSUME NEW k \in DOMAIN ts PROVE \E l \in DOMAIN new : new[l] = ts[k]
  <2>1. CASE k <= pos
    <3>1. k \in DOMAIN new /\ new[k] = ts[k]
      BY <1>1, <1>5, <1>6, <1>7, <2>1
    <3> QED
      BY <3>1
  <2>2. CASE ~(k <= pos)
    <3>1. k + 1 \in DOMAIN new /\ new[k + 1] = ts[k]
      BY <1>1, <1>5, <1>6, <1>7, <2>2
    <3> QED
      BY <3>1
  <2> QED
    BY <2>1, <2>2
<1>10. ASSUME NEW l \in DOMAIN new PROVE new[l].vec[1] = new[l].text
  <2>1. \A k \in DOMAIN ts : ts[k].vec[1] = ts[k].text
    BY DEF GoodTargets, OfItsText
  <2> QED
    BY <1>3, <1>8, <2>1
<1>11. ASSUME NEW i \in DOMAIN new, NEW j \in DOMAIN new, new[i].id = new[j].id, new[i].id # 0 PROVE i = j
  <2>1. \A k, l \in DOMAIN ts : ts[k].id = ts[l].id /\ ts[k].id # 0 => k = l
    BY DEF GoodTargets
  <2>2. \A k \in DOMAIN ts : ts[k].id # live[n].id
    BY DEF HasId
  <2>3. i \in Nat /\ j \in Nat
    BY <1>1, <1>6
  <2>4. CASE i = pos + 1
    BY <1>7, <1>8, <1>11, <2>2, <2>3, <2>4
  <2>5. CASE j = pos + 1
    BY <1>7, <1>8, <1>11, <2>2, <2>3, <2>5
  <2>6. CASE i # pos + 1 /\ j # pos + 1
    <3> DEFINE a == IF i <= pos THEN i ELSE i - 1
               b == IF j <= pos THEN j ELSE j - 1
    <3>1. a \in DOMAIN ts /\ new[i] = ts[a] /\ (i <= pos \/ i > pos + 1)
      BY <1>7, <1>8, <2>3, <2>6
    <3>2. b \in DOMAIN ts /\ new[j] = ts[b] /\ (j <= pos \/ j > pos + 1)
      BY <1>7, <1>8, <2>3, <2>6
    <3>3. a = b
      <4> HIDE DEF a, b
      <4> QED
        BY <1>11, <2>1, <3>1, <3>2
    <3> QED
      BY <1>7, <2>3, <3>1, <3>2, <3>3
  <2> QED
    BY <2>4, <2>5, <2>6
<1>12. GoodTargets(new)
  BY <1>5, <1>10, <1>11 DEF GoodTargets, OfItsText
<1>13. ASSUME NEW x, NEW y, x # live[n].id, y # live[n].id, IdBefore(ts, x, y) PROVE IdBefore(new, x, y)
  <2> SUFFICES ASSUME NEW k \in DOMAIN new, NEW l \in DOMAIN new, new[k].id = x, new[l].id = y PROVE k < l
    BY DEF IdBefore
  <2>1. k \in Nat /\ l \in Nat
    BY <1>1, <1>6
  <2> DEFINE a == IF k <= pos THEN k ELSE k - 1
             b == IF l <= pos THEN l ELSE l - 1
  <2>2. a \in DOMAIN ts /\ new[k] = ts[a] /\ (k <= pos \/ k > pos + 1)
    BY <1>7, <1>8, <1>13, <2>1
  <2>3. b \in DOMAIN ts /\ new[l] = ts[b] /\ (l <= pos \/ l > pos + 1)
    BY <1>7, <1>8, <1>13, <2>1
  <2>4. a < b
    <3> HIDE DEF a, b
    <3> QED
      BY <1>13, <2>2, <2>3 DEF IdBefore
  <2> QED
    BY <1>7, <2>1, <2>2, <2>3, <2>4
<1>14. ASSUME NEW m \in 1..(n - 1) PROVE IdBefore(new, live[m].id, live[n].id)
  <2> SUFFICES ASSUME NEW k \in DOMAIN new, NEW l \in DOMAIN new, new[k].id = live[m].id, new[l].id = live[n].id
               PROVE  k < l
    BY DEF IdBefore
  <2>1. k \in Nat /\ l \in Nat
    BY <1>1, <1>6
  <2>2. live[m].id # live[n].id
    <3>1. n \in Nat /\ DOMAIN live = 1..Len(live) /\ Len(live) \in Nat /\ IdsApart(live)
      BY LiveRowTypes DEF LiveOK
    <3>2. m \in DOMAIN live /\ m # n
      BY <3>1
    <3> QED
      BY <3>1, <3>2 DEF IdsApart
  <2>3. l = pos + 1
    <3>1. \A j \in DOMAIN ts : ts[j].id # live[n].id
      BY DEF HasId
    <3> QED
      BY <1>8, <3>1
  <2>4. live[m].id \in before
    BY DEF before
  <2>5. \A j \in DOMAIN ts : ts[j].id = live[m].id => j <= pos
    BY <1>1, <2>4, SelectsLast DEF pos
  <2>6. k <= pos \/ (k > pos + 1 /\ k - 1 \in DOMAIN ts /\ new[k] = ts[k - 1])
    BY <1>8, <2>2
  <2> QED
    BY <1>7, <2>1, <2>3, <2>5, <2>6
<1> QED
  BY <1>8, <1>9, <1>12, <1>13, <1>14 DEF new

KeptUpto(keep, n) == {live[m] : m \in {k \in 1..n : \E it \in keep : it.id = live[k].id}}
\* what has become of the targets once the first n live rows have been looked at
Merged(ts, keep, n, w) ==
    /\ GoodTargets(w)
    /\ \A k \in DOMAIN ts : \E l \in DOMAIN w : w[l] = ts[k]
    /\ \A l \in DOMAIN w : w[l] \in KeptUpto(keep, n) \/ \E k \in DOMAIN ts : w[l] = ts[k]
    /\ \A i, j \in 1..n : i < j /\ (\E it \in keep : it.id = live[j].id) => IdBefore(w, live[i].id, live[j].id)

LEMMA MergedStep ==
    ASSUME LiveOK, FoundByItsText, NEW ts, NEW keep, \A it \in keep : ~HasId(ts, it.id),
           NEW n \in 1..Len(live), NEW w, Merged(ts, keep, n - 1, w)
    PROVE  Merged(ts, keep, n, IF \E it \in keep : it.id = live[n].id THEN InsertKept(w, n) ELSE w)
<1>1. n \in DOMAIN live /\ n \in Nat /\ live \in LiveRows
  BY LiveRowTypes DEF LiveOK
<1>2. KeptUpto(keep, n - 1) \subseteq KeptUpto(keep, n)
  BY <1>1 DEF KeptUpto
<1>3. CASE \E it \in keep : it.id = live[n].id
  <2> DEFINE new == InsertKept(w, n)
  <2>1. ~HasId(w, live[n].id)
    <3> SUFFICES ASSUME NEW l \in DOMAIN w, w[l].id = live[n].id PROVE FALSE
      BY DEF HasId
    <3>1. CASE \E k \in DOMAIN ts : w[l] = ts[k]
      BY <1>3, <3>1 DEF HasId
    <3>2. CASE w[l] \in KeptUpto(keep, n - 1)
      <4>1. PICK m \in 1..(n - 1) : w[l] = live[m]
        BY <3>2 DEF KeptUpto
      <4>2. m \in DOMAIN live /\ m # n
        BY <1>1, <4>1, LiveRowTypes
      <4>3. live[m].id # live[n].id
        BY <1>1, <4>2, LiveRowTypes DEF IdsApart
      <4> QED
        BY <4>1, <4>3
    <3> QED
      BY <3>1, <3>2 DEF Merged
  <2>2. GoodTargets(w)
    BY DEF Merged
  <2>3. /\ GoodTargets(new)
        /\ \A k \in DOMAIN w : \E l \in DOMAIN new : new[l] = w[k]
        /\ \A l \in DOMAIN new : new[l] = live[n] \/ \E k \in DOMAIN w : new[l] = w[k]
        /\ \A x, y : x # live[n].id /\ y # live[n].id /\ IdBefore(w, x, y) => IdBefore(new, x, y)
        /\ \A m \in 1..(n - 1) : IdBefore(new, live[m].id, live[n].id)
    BY <1>1, <2>1, <2>2, InsertKeptOK
  <2> HIDE DEF new
  <2>4. live[n] \in KeptUpto(keep, n)
    <3>1. n \in {k \in 1..n : \E it \in keep : it.id = live[k].id}
      BY <1>1, <1>3
    <3> QED
      BY <3>1 DEF KeptUpto
  <2>5. Merged(ts, keep, n, new)
    <3>1. \A k \in DOMAIN ts : \E l \in DOMAIN new : new[l] = ts[k]
      BY <2>3 DEF Merged
    <3>2. \A l \in DOMAIN new : new[l] \in KeptUpto(keep, n) \/ \E k \in DOMAIN ts : new[l] = ts[k]
      BY <1>2, <2>3, <2>4 DEF Merged
    <3>3. ASSUME NEW i \in 1..n, NEW j \in 1..n, i < j, \E it \in keep : it.id = live[j].id
          PROVE  IdBefore(new, live[i].id, live[j].id)
      <4>1. CASE j = n
        <5>1. i \in 1..(n - 1)
          BY <1>1, <3>3, <4>1
        <5> QED
          BY <2>3, <4>1, <5>1
      <4>2. CASE j # n
        <5>1. i \in 1..(n - 1) /\ j \in 1..(n - 1)
          BY <1>1, <3>3, <4>2
        <5>2. IdBefore(w, live[i].id, live[j].id)
          BY <3>3, <5>1 DEF Merged
        <5>3. i \in DOMAIN live /\ j \in DOMAIN live /\ i # n
          BY <1>1, <3>3, LiveRowTypes
        <5>4. live[i].id # live[n].id /\ live[j].id # live[n].id
          BY <1>1, <4>2, <5>3, LiveRowTypes DEF IdsApart
        <5> QED
          BY <2>3, <5>2, <5>4
      <4> QED
        BY <4>1, <4>2
    <3> QED
      BY <2>3, <3>1, <3>2, <3>3 DEF Merged
  <2> QED
    BY <1>3, <2>5 DEF new
<1>4. CASE ~\E it \in keep : it.id = live[n].id
  <2>1. ASSUME NEW i \in 1..n, NEW j \in 1..n, i < j, \E it \in keep : it.id = live[j].id
        PROVE  IdBefore(w, live[i].id, live[j].id)
    <3>1. i \in 1..(n - 1) /\ j \in 1..(n - 1)
      BY <1>1, <1>4, <2>1
    <3> QED
      BY <2>1, <3>1 DEF Merged
  <2>2. Merged(ts, keep, n, w)
    BY <1>2, <2>1 DEF Merged
  <2> QED
    BY <1>4, <2>2
<1> QED
  BY <1>3, <1>4

LEMMA WithKeptOK ==
    ASSUME LiveOK, FoundByItsText, NEW ts, GoodTargets(ts), NEW keep, \A it \in keep : ~HasId(ts, it.id)
    PROVE  Merged(ts, keep, Len(live), WithKept(ts, keep))
<1> DEFINE N == Len(live)
           Next1(w, n) == IF \E it \in keep : it.id = live[n].id THEN InsertKept(w, n) ELSE w
           Eq(f) == f = [n \in 0..N |-> IF n = 0 THEN ts
                                        ELSE IF \E it \in keep : it.id = live[n].id THEN InsertKept(f[n - 1], n)
                                        ELSE f[n - 1]]
           W == {w \in Seq(TargetRow) : GoodTargets(w)}
           step == [z \in W \X (1..N) |-> IF Merged(ts, keep, z[2] - 1, z[1]) THEN Next1(z[1], z[2]) ELSE z[1]]
<1>1. N \in Nat
  BY LiveRowTypes DEF LiveOK
<1>2. \A w : GoodTargets(w) => w \in W
  BY DEF GoodTargets
<1>3. ASSUME NEW n \in 1..N, NEW w, Merged(ts, keep, n - 1, w) PROVE Merged(ts, keep, n, Next1(w, n))
  BY <1>3, MergedStep
<1>4. \A n, w : Merged(ts, keep, n, w) => w \in W
  BY <1>2 DEF Merged
<1>5. ts \in W /\ Merged(ts, keep, 0, ts)
  BY <1>2 DEF Merged
<1> HIDE DEF N, W, Next1
<1>6. IsStep(step, W, N)
  <2>1. \A z \in W \X (1..N) : step[z] \in W
    <3> TAKE z \in W \X (1..N)
    <3>1. z[1] \in W /\ z[2] \in 1..N
      OBVIOUS
    <3>2. CASE Merged(ts, keep, z[2] - 1, z[1])
      <4>1. Merged(ts, keep, z[2], Next1(z[1], z[2]))
        BY <1>3, <3>1, <3>2
      <4>2. Next1(z[1], z[2]) \in W
        BY <1>4, <4>1
      <4> QED
        BY <3>2, <4>2
    <3>3. CASE ~Merged(ts, keep, z[2] - 1, z[1])
      BY <3>1, <3>3
    <3> QED
      BY <3>2, <3>3
  <2>2. step = [z \in W \X (1..N) |-> step[z]]
    OBVIOUS
  <2> HIDE DEF step
  <2> QED
    BY <2>1, <2>2 DEF IsStep
<1>7. \A n \in 1..N : \A w \in W : Merged(ts, keep, n - 1, w) => step[<<w, n>>] = Next1(w, n)
  OBVIOUS
<1> HIDE DEF step
<1>8. PICK g : Iterates(g, W, ts, N, step)
  BY <1>1, <1>5, <1>6, Recursion
<1>9. /\ g = [n \in 0..N |-> g[n]] /\ g[0] = ts
      /\ \A n \in 0..N : g[n] \in W
      /\ \A n \in 1..N : g[n] = step[<<g[n - 1], n>>]
  BY <1>8 DEF Iterates
<1> DEFINE M == {n \in Nat : n <= N => Merged(ts, keep, n, g[n])}
<1>10. Nat \subseteq M
  <2>1. 0 \in M
    BY <1>5, <1>9
  <2>2. ASSUME NEW n \in Nat, n \in M PROVE n + 1 \in M
    <3> SUFFICES ASSUME n + 1 <= N PROVE Merged(ts, keep, n + 1, g[n + 1])
      OBVIOUS
    <3>1. n + 1 \in 1..N /\ (n + 1) - 1 = n /\ n \in 0..N
      BY <1>1
    <3>2. Merged(ts, keep, (n + 1) - 1, g[n]) /\ g[n] \in W
      BY <1>1, <1>9, <2>2, <3>1
    <3>3. g[n + 1] = step[<<g[n], n + 1>>]
      BY <1>9, <3>1
    <3>4. g[n + 1] = Next1(g[n], n + 1)
      BY <1>7, <3>1, <3>2, <3>3
    <3>5. Merged(ts, keep, n + 1, Next1(g[n], n + 1))
      BY <1>3, <3>1, <3>2
    <3> QED
      BY <3>4, <3>5
  <2> HIDE DEF M
  <2> QED
    BY <2>1, <2>2, Induction
<1>11. \A n \in 0..N : Merged(ts, keep, n, g[n])
  BY <1>1, <1>10
<1>12. Eq(g)
  <2>1. ASSUME NEW n \in 1..N PROVE g[n] = Next1(g[n - 1], n)
    <3>1. n - 1 \in 0..N
      BY <1>1
    <3>2. Merged(ts, keep, n - 1, g[n - 1]) /\ g[n - 1] \in W
      BY <1>9, <1>11, <3>1
    <3> QED
      BY <1>7, <1>9, <3>2
  <2>2. \A n \in 0..N : g[n] = IF n = 0 THEN ts
                               ELSE IF \E it \in keep : it.id = live[n].id THEN InsertKept(g[n - 1], n)
                               ELSE g[n - 1]
    <3> TAKE n \in 0..N
    <3>1. n = 0 \/ n \in 1..N
      BY <1>1
    <3> QED
      BY <1>9, <2>1, <3>1 DEF Next1
  <2> QED
    BY <1>9, <2>2
<1>13. WithKept(ts, keep) = (CHOOSE f : Eq(f))[N]
  BY DEF WithKept, N
<1> HIDE DEF Eq
<1> DEFINE h == CHOOSE f : Eq(f)
<1>14. Eq(h)
  BY <1>12
<1> HIDE DEF h
<1>15. h = [n \in 0..N |-> IF n = 0 THEN ts
                           ELSE IF \E it \in keep : it.id = live[n].id THEN InsertKept(h[n - 1], n)
                           ELSE h[n - 1]]
  BY <1>14 DEF Eq
<1>16. h[0] = ts /\ \A n \in 1..N : h[n] = Next1(h[n - 1], n)
  <2>1. 0 \in 0..N /\ \A n \in 1..N : n \in 0..N /\ n # 0
    BY <1>1
  <2> QED
    BY <1>15, <2>1 DEF Next1
<1> DEFINE V == {n \in Nat : n <= N => Merged(ts, keep, n, h[n])}
<1>17. Nat \subseteq V
  <2>1. 0 \in V
    BY <1>5, <1>16
  <2>2. ASSUME NEW n \in Nat, n \in V PROVE n + 1 \in V
    <3> SUFFICES ASSUME n + 1 <= N PROVE Merged(ts, keep, n + 1, h[n + 1])
      OBVIOUS
    <3>1. n + 1 \in 1..N /\ (n + 1) - 1 = n
      BY <1>1
    <3>2. Merged(ts, keep, (n + 1) - 1, h[n])
      BY <1>1, <2>2, <3>1
    <3>3. h[n + 1] = Next1(h[n], n + 1)
      BY <1>16, <3>1
    <3>4. Merged(ts, keep, n + 1, Next1(h[n], n + 1))
      BY <1>3, <3>1, <3>2
    <3> QED
      BY <3>3, <3>4
  <2> HIDE DEF V
  <2> QED
    BY <2>1, <2>2, Induction
<1>18. Merged(ts, keep, N, h[N])
  BY <1>1, <1>17
<1> QED
  BY <1>13, <1>18 DEF h, N

-----------------------------------------------------------------------------
(* The new requirements of an apply get ids of their own.                 *)

\* how many rows without an id come before position k
Unnumbered(ts, k) == Cardinality({m \in 1..(k - 1) : ts[m].id = 0})
AllUnnumbered(ts) == Cardinality({k \in DOMAIN ts : ts[k].id = 0})

LEMMA UnnumberedCounts ==
    ASSUME NEW T, NEW ts \in Seq(T)
    PROVE  /\ AllUnnumbered(ts) \in Nat
           /\ \A k \in DOMAIN ts : Unnumbered(ts, k) \in Nat
           /\ \A k \in DOMAIN ts : ts[k].id = 0 => Unnumbered(ts, k) < AllUnnumbered(ts)
           /\ \A k, l \in DOMAIN ts : ts[k].id = 0 /\ k < l => Unnumbered(ts, k) < Unnumbered(ts, l)
<1> DEFINE D == DOMAIN ts
           M(k) == {m \in 1..(k - 1) : ts[m].id = 0}
           A == {k \in D : ts[k].id = 0}
<1>1. Len(ts) \in Nat /\ D = 1..Len(ts) /\ IsFiniteSet(D)
  BY SequenceDomain
<1>2. A \in SUBSET D /\ \A k \in D : M(k) \in SUBSET D /\ k \notin M(k)
  BY <1>1
<1>3. /\ IsFiniteSet(A) /\ Cardinality(A) \in Nat
      /\ \A k \in D : IsFiniteSet(M(k)) /\ Cardinality(M(k)) \in Nat
  <2> HIDE DEF A, M, D
  <2> QED
    BY <1>1, <1>2, FS_Subset, FS_CardinalityType
<1>4. ASSUME NEW k \in D, NEW B, IsFiniteSet(B), M(k) \cup {k} \subseteq B
      PROVE  Cardinality(M(k)) < Cardinality(B)
  <2>1. k \notin M(k) /\ IsFiniteSet(M(k)) /\ Cardinality(M(k)) \in Nat
    BY <1>2, <1>3
  <2> HIDE DEF M
  <2>2. Cardinality(M(k) \cup {k}) = Cardinality(M(k)) + 1
    BY <2>1, FS_AddElement
  <2>3. Cardinality(M(k) \cup {k}) <= Cardinality(B) /\ Cardinality(B) \in Nat
    BY <1>4, FS_Subset, FS_CardinalityType
  <2> QED
    BY <2>1, <2>2, <2>3
<1>5. ASSUME NEW k \in D, ts[k].id = 0 PROVE Cardinality(M(k)) < Cardinality(A)
  <2>1. M(k) \cup {k} \subseteq A
    BY <1>1, <1>5
  <2> HIDE DEF A, M
  <2> QED
    BY <2>1, <1>3, <1>4
<1>6. ASSUME NEW k \in D, NEW l \in D, ts[k].id = 0, k < l PROVE Cardinality(M(k)) < Cardinality(M(l))
  <2>1. M(k) \cup {k} \subseteq M(l)
    BY <1>1, <1>6
  <2> HIDE DEF M
  <2> QED
    BY <2>1, <1>3, <1>4
<1>7. AllUnnumbered(ts) = Cardinality(A) /\ \A k : Unnumbered(ts, k) = Cardinality(M(k))
  BY DEF AllUnnumbered, Unnumbered
<1> HIDE DEF A, M
<1> QED
  BY <1>3, <1>5, <1>6, <1>7 DEF D

LEMMA NewIdsApart ==
    ASSUME NEW a \in Nat, NEW b \in Nat, NEW u \in Nat, NEW v \in Nat, NEW n \in Nat, a < n, b < n,
           (IF a # 0 THEN a ELSE n + u) = (IF b # 0 THEN b ELSE n + v)
    PROVE  a = b /\ (a = 0 => u = v)
OBVIOUS

LEMMA NumberedOK ==
    ASSUME LiveOK, NEW ts, GoodTargets(ts), \A k \in DOMAIN ts : ts[k].id < nextId
    PROVE  /\ Numbered(ts) \in LiveRows /\ OfItsText(Numbered(ts)) /\ DOMAIN Numbered(ts) = DOMAIN ts
           /\ \A k \in DOMAIN ts : Numbered(ts)[k].id < nextId + AllUnnumbered(ts)
           /\ \A k \in DOMAIN ts : ts[k].id # 0 => Numbered(ts)[k] = ts[k]
           /\ \A k \in DOMAIN ts : ts[k].id = 0 => ~(Numbered(ts)[k].id < nextId)
<1> DEFINE new == Numbered(ts)
           D == DOMAIN ts
<1>1. ts \in Seq(TargetRow) /\ Len(ts) \in Nat /\ D = 1..Len(ts) /\ \A k \in D : ts[k] \in TargetRow
  BY SequenceDomain DEF GoodTargets
<1>2. nextId \in Nat \ {0}
  BY DEF LiveOK
<1>3. /\ AllUnnumbered(ts) \in Nat
      /\ \A k \in D : Unnumbered(ts, k) \in Nat
      /\ \A k \in D : ts[k].id = 0 => Unnumbered(ts, k) < AllUnnumbered(ts)
      /\ \A k, l \in D : ts[k].id = 0 /\ k < l => Unnumbered(ts, k) < Unnumbered(ts, l)
  BY <1>1, UnnumberedCounts
<1>4. new = [k \in D |-> IF ts[k].id # 0 THEN ts[k] ELSE [ts[k] EXCEPT !.id = nextId + Unnumbered(ts, k)]]
  BY DEF Numbered, Unnumbered
<1> HIDE DEF new
<1>5. ASSUME NEW k \in D
      PROVE  /\ new[k] \in LiveRow /\ new[k].vec = ts[k].vec /\ new[k].text = ts[k].text
             /\ new[k].id = IF ts[k].id # 0 THEN ts[k].id ELSE nextId + Unnumbered(ts, k)
             /\ ts[k].id # 0 => new[k] = ts[k]
  <2>1. ts[k] \in TargetRow /\ ts[k].id \in Nat
    BY <1>1 DEF TargetRow
  <2>2. CASE ts[k].id # 0
    BY <1>4, <2>1, <2>2 DEF TargetRow, LiveRow
  <2>3. CASE ts[k].id = 0
    <3> DEFINE v == nextId + Unnumbered(ts, k)
    <3>1. v \in Nat \ {0}
      BY <1>2, <1>3
    <3> HIDE DEF v
    <3>2. new[k] = [ts[k] EXCEPT !.id = v]
      BY <1>4, <2>3 DEF v
    <3>3. new[k] \in LiveRow /\ new[k].vec = ts[k].vec /\ new[k].text = ts[k].text /\ new[k].id = v
      BY <2>1, <3>1, <3>2 DEF TargetRow, LiveRow
    <3> QED
      BY <2>3, <3>3 DEF v
  <2> QED
    BY <2>2, <2>3
<1>6. new \in Seq(LiveRow) /\ DOMAIN new = D
  <2>1. new \in [D -> LiveRow]
    BY <1>4, <1>5
  <2> QED
    BY <1>1, <2>1
<1>7. OfItsText(new)
  <2>1. \A k \in D : ts[k].vec[1] = ts[k].text
    BY DEF GoodTargets, OfItsText
  <2> QED
    BY <1>5, <1>6, <2>1 DEF OfItsText
<1>8. ASSUME NEW k \in D PROVE new[k].id < nextId + AllUnnumbered(ts)
  <2>1. ts[k].id < nextId /\ ts[k].id \in Nat
    BY <1>1 DEF TargetRow
  <2>2. ts[k].id = 0 => Unnumbered(ts, k) < AllUnnumbered(ts)
    BY <1>3
  <2>3. AllUnnumbered(ts) \in Nat /\ Unnumbered(ts, k) \in Nat /\ nextId \in Nat
    BY <1>2, <1>3
  <2>4. new[k].id = IF ts[k].id # 0 THEN ts[k].id ELSE nextId + Unnumbered(ts, k)
    BY <1>5
  <2> QED
    BY ONLY <2>1, <2>2, <2>3, <2>4
<1>9. ASSUME NEW k \in D, NEW l \in D, new[k].id = new[l].id PROVE k = l
  <2>1. /\ new[k].id = IF ts[k].id # 0 THEN ts[k].id ELSE nextId + Unnumbered(ts, k)
        /\ new[l].id = IF ts[l].id # 0 THEN ts[l].id ELSE nextId + Unnumbered(ts, l)
    BY <1>5
  <2>2. /\ ts[k].id \in Nat /\ ts[l].id \in Nat /\ ts[k].id < nextId /\ ts[l].id < nextId
        /\ Unnumbered(ts, k) \in Nat /\ Unnumbered(ts, l) \in Nat /\ nextId \in Nat
    BY <1>1, <1>2, <1>3 DEF TargetRow
  <2>0. (IF ts[k].id # 0 THEN ts[k].id ELSE nextId + Unnumbered(ts, k))
          = (IF ts[l].id # 0 THEN ts[l].id ELSE nextId + Unnumbered(ts, l))
    BY <1>9, <2>1
  <2>3. ts[k].id = ts[l].id /\ (ts[k].id = 0 => Unnumbered(ts, k) = Unnumbered(ts, l))
    <3> DEFINE a == ts[k].id
               b == ts[l].id
               u == Unnumbered(ts, k)
               v == Unnumbered(ts, l)
    <3>1. a \in Nat /\ b \in Nat /\ u \in Nat /\ v \in Nat /\ nextId \in Nat /\ a < nextId /\ b < nextId
      BY <2>2
    <3>2. (IF a # 0 THEN a ELSE nextId + u) = (IF b # 0 THEN b ELSE nextId + v)
      BY <2>0
    <3> HIDE DEF a, b, u, v
    <3>3. a = b /\ (a = 0 => u = v)
      BY ONLY <3>1, <3>2, NewIdsApart
    <3> QED
      BY <3>3 DEF a, b, u, v
  <2>4. CASE ts[k].id # 0
    BY <2>3, <2>4 DEF GoodTargets
  <2>5. CASE ts[k].id = 0
    <3>1. Unnumbered(ts, k) = Unnumbered(ts, l)
      BY <2>3, <2>5
    <3>2. ~(k < l) /\ ~(l < k)
      <4>1. /\ k < l => Unnumbered(ts, k) < Unnumbered(ts, l)
            /\ l < k => Unnumbered(ts, l) < Unnumbered(ts, k)
        BY <1>3, <2>3, <2>5
      <4>2. Unnumbered(ts, k) \in Nat
        BY <1>3
      <4> QED
        BY ONLY <3>1, <4>1, <4>2
    <3>3. k \in Int /\ l \in Int
      BY <1>1
    <3> QED
      BY <3>2, <3>3
  <2> QED
    BY <2>4, <2>5
<1>10. new \in LiveRows
  BY <1>6, <1>9 DEF LiveRows, IdsApart
<1>11. ASSUME NEW k \in D, ts[k].id = 0 PROVE ~(new[k].id < nextId)
  <2>1. new[k].id = nextId + Unnumbered(ts, k)
    BY <1>5, <1>11
  <2>2. Unnumbered(ts, k) \in Nat /\ nextId \in Nat
    BY <1>2, <1>3
  <2> QED
    BY ONLY <2>1, <2>2
<1> QED
  BY <1>5, <1>6, <1>7, <1>8, <1>10, <1>11 DEF new

\* what an apply leaves in the live document
Applies(r, skip, keep) == WithKept(Targets(r, skip), keep)

LEMMA AppliedRows ==
    ASSUME LiveOK, FoundByItsText, NEW r, OpenReview(r), ~IsStale(r.items, live), NEW skip, VectorsThere(r, skip),
           NEW keep, keep \subseteq Changed(r.items, "removed")
    PROVE  /\ GoodTargets(Applies(r, skip, keep))
           /\ \A k \in DOMAIN Applies(r, skip, keep) :
                 Applies(r, skip, keep)[k].id = 0 \/ Applies(r, skip, keep)[k].id \in IdsIn(live)
           /\ \A k \in DOMAIN Applies(r, skip, keep) : Applies(r, skip, keep)[k].id < nextId
           /\ \A it \in r.items : it.change = "same" =>
                 \E k \in DOMAIN Applies(r, skip, keep) :
                    Applies(r, skip, keep)[k].id = it.id /\ Applies(r, skip, keep)[k].text = it.hash
           /\ \A i, j \in DOMAIN live :
                 /\ i < j /\ live[j].id \in IdsIn(Applies(r, skip, keep))
                 /\ \E it \in r.items : it.change = "removed" /\ it.id = live[j].id
                 => IdBefore(Applies(r, skip, keep), live[i].id, live[j].id)
<1> DEFINE ts == Targets(r, skip)
           w == Applies(r, skip, keep)
<1>1. /\ GoodTargets(ts)
      /\ \A k \in DOMAIN ts : \E it \in r.items : ts[k].id = it.id /\ it.ord # 0
      /\ \A it \in r.items : it.change = "same" => \E k \in DOMAIN ts : ts[k].id = it.id /\ ts[k].text = it.hash
  BY TargetsOK
<1> HIDE DEF ts
<1>2. \A it \in keep : ~HasId(ts, it.id)
  <2> SUFFICES ASSUME NEW it \in keep, NEW k \in DOMAIN ts, ts[k].id = it.id PROVE FALSE
    BY DEF HasId
  <2>1. it \in r.items /\ it.change = "removed"
    BY DEF Changed
  <2>2. it.ord = 0 /\ it.id # 0
    BY <2>1, ReviewFacts DEF TellOfTheNew, ItemsTyped
  <2>3. PICK jt \in r.items : ts[k].id = jt.id /\ jt.ord # 0
    BY <1>1
  <2>4. it = jt
    BY <2>1, <2>2, <2>3, ReviewFacts
  <2> QED
    BY <2>2, <2>3, <2>4
<1>3. Merged(ts, keep, Len(live), w)
  BY <1>1, <1>2, WithKeptOK DEF Applies, ts
<1> HIDE DEF w
<1>4. ASSUME NEW k \in DOMAIN w PROVE w[k].id = 0 \/ w[k].id \in IdsIn(live)
  <2>1. CASE w[k] \in KeptUpto(keep, Len(live))
    <3>1. PICK m \in 1..Len(live) : w[k] = live[m]
      BY <2>1 DEF KeptUpto
    <3>2. m \in DOMAIN live
      BY <3>1, LiveRowTypes DEF LiveOK
    <3> QED
      BY <3>1, <3>2 DEF IdsIn, Range
  <2>2. CASE \E l \in DOMAIN ts : w[k] = ts[l]
    <3>1. PICK l \in DOMAIN ts : w[k] = ts[l]
      BY <2>2
    <3>2. PICK it \in r.items : ts[l].id = it.id
      BY <1>1
    <3>3. it.id # 0 => \E x \in Range(live) : it.id = x.id
      BY NotStale
    <3> QED
      BY <3>1, <3>2, <3>3 DEF IdsIn
  <2> QED
    BY <1>3, <2>1, <2>2 DEF Merged
<1>6. \A k \in DOMAIN w : w[k].id < nextId
  <2>1. \A id \in IdsIn(live) : id < nextId
    BY LiveTypes DEF IdsIn
  <2>2. 0 < nextId
    BY DEF LiveOK
  <2> QED
    BY <1>4, <2>1, <2>2
<1>5. ASSUME NEW it \in r.items, it.change = "same"
      PROVE  \E k \in DOMAIN w : w[k].id = it.id /\ w[k].text = it.hash
  <2>1. PICK l \in DOMAIN ts : ts[l].id = it.id /\ ts[l].text = it.hash
    BY <1>1, <1>5
  <2>2. PICK k \in DOMAIN w : w[k] = ts[l]
    BY <1>3 DEF Merged
  <2> QED
    BY <2>1, <2>2
<1>7. ASSUME NEW i \in DOMAIN live, NEW j \in DOMAIN live, i < j, live[j].id \in IdsIn(w),
             NEW it \in r.items, it.change = "removed", it.id = live[j].id
      PROVE  IdBefore(w, live[i].id, live[j].id)
  <2>1. PICK k \in DOMAIN w : w[k].id = live[j].id
    BY <1>7 DEF IdsIn, Range
  <2>2. \E kt \in keep : kt.id = live[j].id
    <3>1. CASE w[k] \in KeptUpto(keep, Len(live))
      BY <2>1, <3>1 DEF KeptUpto
    <3>2. CASE \E l \in DOMAIN ts : w[k] = ts[l]
      <4>1. PICK l \in DOMAIN ts : w[k] = ts[l]
        BY <3>2
      <4>2. PICK jt \in r.items : ts[l].id = jt.id /\ jt.ord # 0
        BY <1>1
      <4>3. it.ord = 0 /\ it.id # 0
        BY <1>7, ReviewFacts DEF TellOfTheNew, ItemsTyped
      <4>4. it = jt
        BY <1>7, <2>1, <4>1, <4>2, <4>3, ReviewFacts
      <4> QED
        BY <4>2, <4>3, <4>4
    <3> QED
      BY <1>3, <3>1, <3>2 DEF Merged
  <2>3. i \in 1..Len(live) /\ j \in 1..Len(live)
    BY LiveRowTypes DEF LiveOK
  <2> QED
    BY <1>3, <1>7, <2>2, <2>3 DEF Merged
<1> QED
  BY <1>3, <1>4, <1>5, <1>6, <1>7 DEF Merged, w

-----------------------------------------------------------------------------
(* Live documents that can be found by their texts.                       *)

LEMMA ByItsText ==
    ASSUME NEW s
    PROVE  (\A r \in Range(s) : r.vec[1] = r.text) <=> OfItsText(s)
BY DEF Range, OfItsText

\* a live document that a step may leave
GoodDocument(s, n) ==
    s \in LiveRows /\ OfItsText(s) /\ n \in Nat \ {0} /\ \A k \in DOMAIN s : s[k].id < n

LEMMA DocumentKept == LiveOK /\ FoundByItsText => GoodDocument(live, nextId)
BY ByItsText DEF LiveOK, FoundByItsText, GoodDocument

LEMMA DocumentStep ==
    ASSUME GoodDocument(live', nextId')
    PROVE  LiveOK' /\ FoundByItsText'
BY ByItsText DEF LiveOK, FoundByItsText, GoodDocument

LEMMA ReviewsStep ==
    ASSUME \A r \in rev : OpenReview(r), rev' \in {rev, {}}
    PROVE  \A r \in rev' : OpenReview(r)
OBVIOUS

LEMMA UsedTyped ==
    ASSUME cache \in [Keys -> Nat], NEW keys
    PROVE  /\ Used(keys) \in [Keys -> Nat]
           /\ \A k \in Keys : cache[k] > 0 => Used(keys)[k] > 0
BY DEF Used

LEMMA CollectTyped ==
    ASSUME cache \in [Keys -> Nat], NEW keys, NEW age, Collect(keys, age)
    PROVE  /\ cache' \in [Keys -> Nat]
           /\ \A k \in Keys : k \in Referenced /\ cache[k] > 0 => cache'[k] > 0
BY DEF Collect

-----------------------------------------------------------------------------
(* Documents that steps leave. *)

LEMMA StoredDocument ==
    ASSUME NEW file \in Seq(Rows)
    PROVE  GoodDocument([i \in DOMAIN file |-> Requirement(i, file[i])], Len(file) + 1)
<1> DEFINE new == [i \in DOMAIN file |-> Requirement(i, file[i])]
<1>1. Len(file) \in Nat /\ DOMAIN file = 1..Len(file) /\ \A k \in DOMAIN file : file[k] \in Rows
  BY SequenceDomain
<1>2. ASSUME NEW i \in DOMAIN file
      PROVE  new[i] \in LiveRow /\ new[i].id = i /\ new[i].vec[1] = new[i].text
  <2>1. i \in Nat /\ i # 0
    BY <1>1
  <2>2. file[i].text \in ReqTexts /\ file[i].req \in ReqIds \cup {None} /\ file[i].sec \in Sections
    BY <1>1 DEF Rows
  <2>3. new[i] = Requirement(i, file[i])
    OBVIOUS
  <2> HIDE DEF new
  <2> QED
    BY <2>1, <2>2, <2>3, OwnVector
<1>3. new \in Seq(LiveRow)
  <2>1. new \in [1..Len(file) -> LiveRow]
    BY <1>1, <1>2
  <2> QED
    BY <1>1, <2>1
<1>4. DOMAIN new = DOMAIN file
  OBVIOUS
<1> HIDE DEF new
<1>5. new \in LiveRows /\ OfItsText(new)
  BY <1>2, <1>3, <1>4 DEF LiveRows, IdsApart, OfItsText
<1>6. Len(file) + 1 \in Nat \ {0} /\ \A k \in DOMAIN new : new[k].id < Len(file) + 1
  BY <1>1, <1>2, <1>4
<1> QED
  BY <1>5, <1>6 DEF GoodDocument, new

LEMMA EditedDocument ==
    ASSUME NEW s, NEW n, GoodDocument(s, n), NEW i \in DOMAIN s, NEW t \in ReqTexts, NEW r,
           r = Requirement(s[i].id, [s[i] EXCEPT !.text = t])
    PROVE  GoodDocument([s EXCEPT ![i] = r], n)
<1> DEFINE new == [s EXCEPT ![i] = r]
<1>1. s \in Seq(LiveRow) /\ IdsApart(s) /\ s[i] \in LiveRow /\ DOMAIN new = DOMAIN s
  BY LiveRowTypes DEF GoodDocument
<1>2. s[i].id \in Nat /\ s[i].id # 0
  BY <1>1 DEF LiveRow
<1> DEFINE e == [s[i] EXCEPT !.text = t]
<1>3. e.text \in ReqTexts /\ e.req \in ReqIds \cup {None} /\ e.sec \in Sections
  BY <1>1 DEF LiveRow
<1> HIDE DEF e
<1>4. r \in LiveRow /\ r.id = s[i].id /\ r.vec[1] = r.text
  <2>1. r = Requirement(s[i].id, e)
    BY DEF e
  <2> QED
    BY <1>2, <1>3, <2>1, OwnVector
<1>5. new \in Seq(LiveRow)
  BY <1>1, <1>4
<1>6. \A k \in DOMAIN s : new[k].id = s[k].id /\ new[k] = IF k = i THEN r ELSE s[k]
  BY <1>1, <1>4
<1> HIDE DEF new
<1>7. IdsApart(new)
  BY <1>1, <1>6 DEF IdsApart
<1>8. OfItsText(new)
  BY <1>1, <1>4, <1>6 DEF GoodDocument, OfItsText
<1>9. new \in LiveRows
  BY <1>5, <1>7 DEF LiveRows
<1>10. n \in Nat \ {0} /\ \A k \in DOMAIN new : new[k].id < n
  BY <1>1, <1>6 DEF GoodDocument
<1> QED
  BY <1>8, <1>9, <1>10 DEF GoodDocument, new

LEMMA AppendedDocument ==
    ASSUME NEW s, NEW n, GoodDocument(s, n), NEW r \in LiveRow, r.id = n, r.vec[1] = r.text
    PROVE  GoodDocument(Append(s, r), n + 1)
<1> DEFINE new == Append(s, r)
<1>1. s \in Seq(LiveRow) /\ IdsApart(s) /\ Len(s) \in Nat /\ DOMAIN s = 1..Len(s)
      /\ \A k \in DOMAIN s : s[k].id \in Nat /\ s[k].id < n /\ s[k].vec[1] = s[k].text
  BY LiveRowTypes DEF GoodDocument, OfItsText
<1>2. n \in Nat \ {0}
  BY DEF GoodDocument
<1>3. /\ new \in Seq(LiveRow) /\ Len(new) = Len(s) + 1
      /\ \A k \in 1..Len(s) : new[k] = s[k]
      /\ new[Len(s) + 1] = r
  BY <1>1, AppendProperties
<1>4. DOMAIN new = 1..(Len(s) + 1)
  BY <1>3, SequenceDomain
<1> HIDE DEF new
<1>5. ASSUME NEW k \in DOMAIN new
      PROVE  (k \in DOMAIN s /\ new[k] = s[k]) \/ (k = Len(s) + 1 /\ new[k] = r)
  <2>1. k \in 1..Len(s) \/ k = Len(s) + 1
    BY <1>1, <1>4
  <2>2. CASE k \in 1..Len(s)
    <3>1. k \in DOMAIN s
      BY <1>1, <2>2
    <3>2. new[k] = s[k]
      BY <1>3, <2>2
    <3> QED
      BY <3>1, <3>2
  <2>3. CASE k = Len(s) + 1
    BY <1>3, <2>3
  <2> QED
    BY <2>1, <2>2, <2>3
<1>6. IdsApart(new)
  <2> SUFFICES ASSUME NEW k \in DOMAIN new, NEW l \in DOMAIN new, new[k].id = new[l].id PROVE k = l
    BY DEF IdsApart
  <2>1. CASE k \in DOMAIN s /\ new[k] = s[k] /\ l \in DOMAIN s /\ new[l] = s[l]
    BY <1>1, <2>1 DEF IdsApart
  <2>2. CASE k = Len(s) + 1 /\ new[k] = r /\ l = Len(s) + 1
    BY <2>2
  <2>3. \A x \in DOMAIN s : s[x].id # n
    BY <1>1, <1>2
  <2> QED
    BY <1>5, <2>1, <2>2, <2>3
<1>7. OfItsText(new)
  BY <1>1, <1>5 DEF OfItsText
<1>8. \A k \in DOMAIN new : new[k].id < n + 1
  BY <1>1, <1>2, <1>5
<1>9. new \in LiveRows
  BY <1>3, <1>6 DEF LiveRows
<1>10. n + 1 \in Nat \ {0}
  BY <1>2
<1> QED
  BY <1>7, <1>8, <1>9, <1>10 DEF GoodDocument, new

LEMMA RemovedDocument ==
    ASSUME NEW s, NEW n, GoodDocument(s, n), NEW i \in DOMAIN s
    PROVE  GoodDocument(RemoveAt(s, i), n)
<1> DEFINE new == RemoveAt(s, i)
           at(k) == IF k < i THEN k ELSE k + 1
<1>1. s \in Seq(LiveRow) /\ IdsApart(s) /\ Len(s) \in Nat /\ DOMAIN s = 1..Len(s)
      /\ \A k \in DOMAIN s : s[k].id < n /\ s[k].vec[1] = s[k].text
  BY LiveRowTypes DEF GoodDocument, OfItsText
<1>2. /\ new \in Seq(LiveRow) /\ Len(new) = Len(s) - 1
      /\ \A k \in 1..(Len(s) - 1) : new[k] = IF k < i THEN s[k] ELSE s[k + 1]
  BY <1>1, Removed
<1>3. DOMAIN new = 1..(Len(s) - 1)
  BY <1>2, SequenceDomain
<1> HIDE DEF new
<1>4. ASSUME NEW k \in DOMAIN new PROVE at(k) \in DOMAIN s /\ new[k] = s[at(k)]
  BY <1>1, <1>2, <1>3
<1>5. \A k, l \in DOMAIN new : at(k) = at(l) => k = l
  BY <1>1, <1>3
<1> HIDE DEF at
<1>6. IdsApart(new)
  BY <1>1, <1>4, <1>5 DEF IdsApart
<1>7. OfItsText(new) /\ \A k \in DOMAIN new : new[k].id < n
  BY <1>1, <1>4 DEF OfItsText
<1>8. new \in LiveRows
  BY <1>2, <1>6 DEF LiveRows
<1> QED
  BY <1>7, <1>8 DEF GoodDocument, new

LEMMA AppliedDocument ==
    ASSUME LiveOK, FoundByItsText, NEW r, OpenReview(r), ~IsStale(r.items, live), NEW skip, VectorsThere(r, skip),
           NEW keep, keep \subseteq Changed(r.items, "removed")
    PROVE  GoodDocument(Numbered(Applies(r, skip, keep)), nextId + AllUnnumbered(Applies(r, skip, keep)))
<1> DEFINE w == Applies(r, skip, keep)
<1>1. GoodTargets(w) /\ \A k \in DOMAIN w : w[k].id < nextId
  BY AppliedRows
<1> HIDE DEF w
<1>2. /\ Numbered(w) \in LiveRows /\ OfItsText(Numbered(w)) /\ DOMAIN Numbered(w) = DOMAIN w
      /\ \A k \in DOMAIN w : Numbered(w)[k].id < nextId + AllUnnumbered(w)
  BY <1>1, NumberedOK
<1>3. AllUnnumbered(w) \in Nat
  BY <1>1, UnnumberedCounts DEF GoodTargets
<1>4. nextId + AllUnnumbered(w) \in Nat \ {0}
  BY <1>3 DEF LiveOK
<1> QED
  BY <1>2, <1>4 DEF GoodDocument, w

-----------------------------------------------------------------------------
(* The initial state and every step keep the invariant.                   *)

LEMMA ReviewInitOK == ReviewInit => ReviewInv
<1> SUFFICES ASSUME ReviewInit PROVE ReviewInv
  OBVIOUS
<1> USE DEF ReviewInit
<1>1. GoodDocument(live, nextId)
  <2>1. live = <<>> /\ nextId = 1
    OBVIOUS
  <2>2. <<>> \in Seq(LiveRow) /\ DOMAIN <<>> = {}
    OBVIOUS
  <2> QED
    BY <2>1, <2>2 DEF GoodDocument, LiveRows, IdsApart, OfItsText
<1>2. LiveOK /\ FoundByItsText
  BY <1>1, ByItsText DEF GoodDocument, LiveOK, FoundByItsText
<1>3. cache \in [Keys -> Nat]
  BY DEF SweepAge
<1>4. run \in RunTypes
  <2>1. <<>> \in LiveRows /\ <<>> \in Seq(Rows)
    BY <1>1 DEF GoodDocument
  <2> QED
    BY <2>1 DEF RunTypes, NoRun
<1>5. \A q, r \in rev : OpenReview(r) /\ q = r
  OBVIOUS
<1> QED
  BY <1>2, <1>3, <1>4, <1>5 DEF ReviewInv

\* nothing but a change of the live document reaches it
LEMMA DocumentUnchanged ==
    ASSUME ReviewInv, UNCHANGED <<live, nextId>>
    PROVE  LiveOK' /\ FoundByItsText'
BY DocumentKept, DocumentStep DEF ReviewInv

LEMMA NoRunTyped == NoRun \in RunTypes
<1>1. <<>> \in LiveRows /\ <<>> \in Seq(Rows)
  BY DEF LiveRows, IdsApart
<1> QED
  BY <1>1 DEF RunTypes, NoRun

LEMMA RunFields ==
    ASSUME run \in RunTypes
    PROVE  /\ run.file \in Seq(Rows) /\ run.seen \in LiveRows /\ run.todo \subseteq Keys /\ run.have \subseteq Keys
           /\ run.attempts \in Nat
BY DEF RunTypes

LEMMA RunStepOK ==
    ASSUME ReviewInv, \/ \E f \in Files : Submit(f)
                      \/ ReadCache \/ Bump \/ RunFails \/ ReadLive
                      \/ \E ks \in SUBSET run.todo : EmbedBatch(ks)
    PROVE  ReviewInv'
<1>1. /\ cache \in [Keys -> Nat] /\ run \in RunTypes /\ live \in LiveRows
      /\ \A q, r \in rev : OpenReview(r) /\ q = r
  BY DEF ReviewInv, LiveOK
<1>2. ASSUME UNCHANGED <<live, nextId, rev>>, cache' \in [Keys -> Nat], run' \in RunTypes PROVE ReviewInv'
  BY <1>1, <1>2, DocumentUnchanged DEF ReviewInv
<1>3. ASSUME NEW f \in Files, Submit(f) PROVE ReviewInv'
  <2>1. UNCHANGED <<live, nextId, rev, cache>> /\ run' = [NoRun EXCEPT !.pc = "queued", !.file = f]
    BY <1>3 DEF Submit, Store
  <2>2. f \in Seq(Rows)
    BY RevisionAssumption DEF RevisionAssumption
  <2>3. run' \in RunTypes
    BY <2>1, <2>2, NoRunTyped DEF RunTypes
  <2> QED
    BY <1>1, <1>2, <2>1, <2>3
<1>4. ASSUME ReadCache PROVE ReviewInv'
  <2> DEFINE have == KeysOf(run.file) \cap Cached
             todo == KeysOf(run.file) \ have
  <2>1. /\ UNCHANGED <<live, nextId, rev, cache>>
        /\ run' = [run EXCEPT !.pc = "bump", !.attempts = run.attempts + 1, !.have = have, !.todo = todo]
    BY <1>4 DEF ReadCache, Store
  <2>2. have \subseteq Keys
    BY DEF Cached
  <2>3. KeysOf(run.file) \subseteq Keys
    <3>1. \A k \in DOMAIN run.file : run.file[k] \in Rows
      BY <1>1, RunFields, SequenceDomain
    <3> QED
      BY <3>1 DEF KeysOf, Range, EmbedHash, Keys, Rows
  <2>4. todo \subseteq Keys
    BY <2>3
  <2>5. run.attempts + 1 \in Nat
    BY <1>1, RunFields
  <2> HIDE DEF have, todo
  <2>6. run' \in RunTypes
    BY <1>1, <2>1, <2>2, <2>4, <2>5 DEF RunTypes
  <2> QED
    BY <1>1, <1>2, <2>1, <2>6
<1>5. ASSUME Bump PROVE ReviewInv'
  <2>1. /\ UNCHANGED <<live, nextId, rev>> /\ cache' = Used(run.have \cap Cached)
        /\ run' = [run EXCEPT !.pc = IF run.todo = {} THEN "ready" ELSE "embed", !.have = {}]
    BY <1>5 DEF Bump, Store
  <2>2. cache' \in [Keys -> Nat]
    BY <1>1, <2>1, UsedTyped
  <2>3. run' \in RunTypes
    BY <1>1, <2>1 DEF RunTypes
  <2> QED
    BY <1>2, <2>1, <2>2, <2>3
<1>6. ASSUME RunFails PROVE ReviewInv'
  <2>1. UNCHANGED <<live, nextId, rev, cache>>
        /\ run' \in {NoRun, [NoRun EXCEPT !.pc = "queued", !.file = run.file, !.attempts = run.attempts]}
    BY <1>6 DEF RunFails, Store
  <2>2. run' \in RunTypes
    BY <1>1, <2>1, NoRunTyped, RunFields DEF RunTypes
  <2> QED
    BY <1>1, <1>2, <2>1, <2>2
<1>7. ASSUME ReadLive PROVE ReviewInv'
  <2>1. UNCHANGED <<live, nextId, rev, cache>> /\ run' = [run EXCEPT !.pc = "stage", !.seen = live]
    BY <1>7 DEF ReadLive, Store
  <2>2. run' \in RunTypes
    BY <1>1, <2>1 DEF RunTypes
  <2> QED
    BY <1>1, <1>2, <2>1, <2>2
<1>8. ASSUME NEW ks \in SUBSET run.todo, EmbedBatch(ks) PROVE ReviewInv'
  <2>1. /\ UNCHANGED <<live, nextId, rev>> /\ cache' = Used(ks)
        /\ run' = [run EXCEPT !.todo = run.todo \ ks, !.pc = IF run.todo = ks THEN "ready" ELSE "embed"]
    BY <1>8 DEF EmbedBatch, Store
  <2>2. cache' \in [Keys -> Nat]
    BY <1>1, <2>1, UsedTyped
  <2>3. run.todo \ ks \subseteq Keys
    BY <1>1, RunFields
  <2>4. run' \in RunTypes
    BY <1>1, <2>1, <2>3 DEF RunTypes
  <2> QED
    BY <1>2, <2>1, <2>2, <2>4
<1> QED
  BY <1>3, <1>4, <1>5, <1>6, <1>7, <1>8

LEMMA StoreNewOK == ReviewInv /\ StoreNew => ReviewInv'
<1> SUFFICES ASSUME ReviewInv, StoreNew PROVE ReviewInv'
  OBVIOUS
<1>1. /\ live' = [i \in DOMAIN run.file |-> Requirement(i, run.file[i])] /\ nextId' = Len(run.file) + 1
      /\ run' = NoRun /\ rev' = rev /\ cache' = cache
  BY DEF StoreNew
<1>2. run.file \in Seq(Rows)
  BY RunFields DEF ReviewInv
<1>3. GoodDocument(live', nextId')
  BY <1>1, <1>2, StoredDocument
<1>4. LiveOK' /\ FoundByItsText'
  BY <1>3, DocumentStep
<1> QED
  BY <1>1, <1>4, NoRunTyped DEF ReviewInv

\* the live document that a staged comparison is about
LEMMA BasisOK ==
    ASSUME ReviewInv
    PROVE  Basis \in LiveRows /\ SayTheSame(Basis, live)
<1>1. live \in LiveRows /\ run.seen \in LiveRows
  BY RunFields DEF ReviewInv, LiveOK
<1>2. CASE Fingerprint(live) = Fingerprint(run.seen)
  <2>1. Basis = run.seen
    BY <1>2 DEF Basis
  <2>2. SayTheSame(run.seen, live)
    BY <1>2, SameFingerprintSays
  <2> QED
    BY <1>1, <2>1, <2>2
<1>3. CASE Fingerprint(live) # Fingerprint(run.seen)
  BY <1>1, <1>3 DEF Basis, SayTheSame
<1> QED
  BY <1>2, <1>3

LEMMA StageOK ==
    ASSUME ReviewInv, Stage
    PROVE  ReviewInv' /\ \A r \in rev' : ~IsStale(r.items, live')
<1> DEFINE r == [rows |-> run.file, items |-> classify(Basis, run.file)]
<1>1. UNCHANGED <<live, nextId, cache>> /\ rev' = {r} /\ run' = NoRun
  BY DEF Stage
<1>2. run.file \in Seq(Rows) /\ live \in LiveRows
  BY RunFields DEF ReviewInv, LiveOK
<1>3. Basis \in LiveRows /\ SayTheSame(Basis, live)
  BY BasisOK
<1>4. r.rows = run.file /\ r.items = classify(Basis, run.file) /\ r = [rows |-> r.rows, items |-> r.items]
  OBVIOUS
<1> HIDE DEF r
<1>5. OpenReview(r)
  BY <1>2, <1>3, <1>4 DEF OpenReview
<1>6. ~IsStale(r.items, live)
  <2>1. TellOfTheLive(r.items, Basis)
    BY <1>2, <1>3, <1>4, Classified
  <2> QED
    BY <1>2, <1>3, <2>1, ComparisonIsCurrent
<1>7. ReviewInv'
  <2>1. LiveOK' /\ FoundByItsText'
    BY <1>1, DocumentUnchanged
  <2> QED
    BY <1>1, <1>5, <2>1, NoRunTyped DEF ReviewInv
<1> QED
  BY <1>1, <1>6, <1>7

LEMMA RecompareOK ==
    ASSUME ReviewInv, Recompare
    PROVE  ReviewInv' /\ \A r \in rev' : ~IsStale(r.items, live')
<1>1. PICK r \in rev : rev' = {[r EXCEPT !.items = classify(live, r.rows)]}
  BY DEF Recompare
<1>2. UNCHANGED <<live, nextId, cache, run>>
  BY DEF Recompare
<1>3. live \in LiveRows /\ r = [rows |-> r.rows, items |-> r.items] /\ r.rows \in Seq(Rows)
  BY DEF ReviewInv, LiveOK, OpenReview
<1> DEFINE v == classify(live, r.rows)
           q == [r EXCEPT !.items = v]
<1>4. q.rows = r.rows /\ q.items = v /\ q = [rows |-> q.rows, items |-> q.items]
  <2> HIDE DEF v
  <2> QED
    BY <1>3
<1>5. rev' = {q}
  BY <1>1
<1> HIDE DEF q
<1>6. OpenReview(q)
  BY <1>3, <1>4 DEF OpenReview
<1>7. ~IsStale(q.items, live)
  <2>1. TellOfTheLive(q.items, live)
    BY <1>3, <1>4, Classified
  <2>2. SayTheSame(live, live)
    BY DEF SayTheSame
  <2> QED
    BY <1>3, <2>1, <2>2, ComparisonIsCurrent
<1>8. ReviewInv'
  <2>1. LiveOK' /\ FoundByItsText'
    BY <1>2, DocumentUnchanged
  <2> QED
    BY <1>2, <1>5, <1>6, <2>1 DEF ReviewInv
<1> QED
  BY <1>2, <1>5, <1>7, <1>8

LEMMA EditOK ==
    ASSUME ReviewInv, NEW texts, NEW rows, NEW retired, NEW added, Edit(texts, rows, retired, added),
           GoodDocument(rows, nextId + added)
    PROVE  ReviewInv'
<1>1. live' = rows /\ nextId' = nextId + added /\ cache' = Used(texts) /\ UNCHANGED <<rev, run>>
  BY DEF Edit
<1>2. cache' \in [Keys -> Nat]
  BY <1>1, UsedTyped DEF ReviewInv
<1>3. LiveOK' /\ FoundByItsText'
  BY <1>1, DocumentStep
<1> QED
  BY <1>1, <1>2, <1>3 DEF ReviewInv

LEMMA UserEditOK ==
    ASSUME ReviewInv, \/ \E i \in DOMAIN live, t \in EditTexts : EditRow(i, t)
                      \/ \E t \in EditTexts : AddRow(t)
                      \/ \E i \in DOMAIN live : RemoveRow(i)
    PROVE  ReviewInv'
<1>1. GoodDocument(live, nextId) /\ nextId \in Nat /\ nextId # 0 /\ nextId + 0 = nextId
  BY DocumentKept DEF ReviewInv, GoodDocument
<1>2. EditTexts \subseteq ReqTexts
  BY RevisionAssumption DEF RevisionAssumption
<1>3. ASSUME NEW i \in DOMAIN live, NEW t \in EditTexts, EditRow(i, t) PROVE ReviewInv'
  <2> DEFINE r == Requirement(live[i].id, [live[i] EXCEPT !.text = t])
             new == [live EXCEPT ![i] = r]
  <2>1. Edit({r.vec}, new, {}, 0)
    BY <1>3 DEF EditRow
  <2>2. GoodDocument(new, nextId)
    <3>1. t \in ReqTexts /\ r = Requirement(live[i].id, [live[i] EXCEPT !.text = t])
      BY <1>2
    <3> HIDE DEF r
    <3> QED
      BY <1>1, <3>1, EditedDocument
  <2>3. GoodDocument(new, nextId + 0)
    BY <1>1, <2>2
  <2> HIDE DEF r, new
  <2> QED
    BY <2>1, <2>3, EditOK
<1>4. ASSUME NEW t \in EditTexts, AddRow(t) PROVE ReviewInv'
  <2>1. PICK s \in Sections :
          LET r == Requirement(nextId, [text |-> t, req |-> None, sec |-> s])
          IN  Edit({r.vec}, Append(live, r), {}, 1)
    BY <1>4 DEF AddRow
  <2> DEFINE e == [text |-> t, req |-> None, sec |-> s]
             r == Requirement(nextId, e)
             new == Append(live, r)
  <2>2. Edit({r.vec}, new, {}, 1)
    BY <2>1
  <2>3. e.text \in ReqTexts /\ e.req \in ReqIds \cup {None} /\ e.sec \in Sections
    BY <1>2
  <2> HIDE DEF e
  <2>4. r \in LiveRow /\ r.id = nextId /\ r.vec[1] = r.text
    BY <1>1, <2>3, OwnVector
  <2> HIDE DEF r
  <2>5. GoodDocument(new, nextId + 1)
    BY <1>1, <2>4, AppendedDocument
  <2> HIDE DEF new
  <2> QED
    BY <2>2, <2>5, EditOK
<1>5. ASSUME NEW i \in DOMAIN live, RemoveRow(i) PROVE ReviewInv'
  <2> DEFINE new == RemoveAt(live, i)
  <2>1. Edit({}, new, {live[i]}, 0)
    BY <1>5 DEF RemoveRow
  <2>2. GoodDocument(new, nextId)
    BY <1>1, RemovedDocument
  <2>3. GoodDocument(new, nextId + 0)
    BY <1>1, <2>2
  <2> HIDE DEF new
  <2> QED
    BY <2>1, <2>3, EditOK
<1> QED
  BY <1>3, <1>4, <1>5

LEMMA ApplyOK ==
    ASSUME ReviewInv, NEW skip, NEW keep, NEW confirm, Apply(skip, keep, confirm)
    PROVE  ReviewInv'
<1>1. PICK r \in rev : /\ keep \subseteq Changed(r.items, "removed")
                       /\ ~IsStale(r.items, live) /\ VectorsThere(r, skip)
                       /\ reconcile(WithKept(Targets(r, skip), keep))
  BY DEF Apply
<1>2. rev' = {} /\ UNCHANGED <<cache, run>>
  BY DEF Apply
<1>3. LiveOK /\ FoundByItsText /\ OpenReview(r)
  BY DEF ReviewInv
<1> DEFINE w == Applies(r, skip, keep)
<1>4. live' = Numbered(w) /\ nextId' = nextId + AllUnnumbered(w)
  BY <1>1 DEF reconcile, Applies, AllUnnumbered
<1>5. GoodDocument(Numbered(w), nextId + AllUnnumbered(w))
  BY <1>1, <1>3, AppliedDocument
<1> HIDE DEF w
<1>6. LiveOK' /\ FoundByItsText'
  BY <1>4, <1>5, DocumentStep
<1> QED
  BY <1>2, <1>6 DEF ReviewInv

LEMMA CollectionOK ==
    ASSUME ReviewInv, DeleteOther \/ PurgeDeleted \/ Sweep \/ Tick \/ Discard \/ UNCHANGED reviewVars
    PROVE  ReviewInv'
<1>1. ASSUME UNCHANGED <<live, nextId, run>>, rev' \in {rev, {}}, cache' \in [Keys -> Nat] PROVE ReviewInv'
  BY <1>1, DocumentUnchanged DEF ReviewInv
<1>2. cache \in [Keys -> Nat]
  BY DEF ReviewInv
<1>3. CASE DeleteOther
  BY <1>1, <1>2, <1>3 DEF DeleteOther, Store
<1>4. CASE PurgeDeleted
  <2>1. Collect(purge, PurgeAge) /\ UNCHANGED <<live, nextId, run, rev>>
    BY <1>4 DEF PurgeDeleted, Store
  <2> QED
    BY <1>1, <1>2, <2>1, CollectTyped
<1>5. CASE Sweep
  <2>1. Collect(Keys, SweepAge) /\ UNCHANGED <<live, nextId, run, rev>>
    BY <1>5 DEF Sweep, Store
  <2> QED
    BY <1>1, <1>2, <2>1, CollectTyped
<1>6. CASE Tick
  <2>1. UNCHANGED <<live, nextId, run, rev>> /\ cache' \in [Keys -> Nat]
    BY <1>2, <1>6 DEF Tick, Store
  <2> QED
    BY <1>1, <2>1
<1>7. CASE Discard
  BY <1>1, <1>2, <1>7 DEF Discard
<1>8. CASE UNCHANGED reviewVars
  BY <1>1, <1>2, <1>8 DEF reviewVars
<1> QED
  BY <1>3, <1>4, <1>5, <1>6, <1>7, <1>8

LEMMA ReviewStepOK == ReviewInv /\ [ReviewNext]_reviewVars => ReviewInv'
<1> SUFFICES ASSUME ReviewInv, [ReviewNext]_reviewVars PROVE ReviewInv'
  OBVIOUS
<1> QED
  BY RunStepOK, StoreNewOK, StageOK, RecompareOK, UserEditOK, ApplyOK, CollectionOK DEF ReviewNext

-----------------------------------------------------------------------------
(* What a review shows and keeps.                                         *)

\* Every reachable state of the live requirements, the embedding cache, the comparing job and the open
\* review satisfies ReviewInv: it is what one step of revise.py, jobs.py or the embedding cache may
\* rely on when it finds the state another one left.
THEOREM ReviewInvariance == ReviewSpec => []ReviewInv
BY ReviewInitOK, ReviewStepOK, PTL DEF ReviewSpec

\* Every live requirement can be found by the hash of its text, and carries the vector of that text:
\* edits of single rows, new uploads and applies (apply_revision with its kept and unchecked changes)
\* never leave a row that a later comparison would look up under a text it no longer has.
THEOREM ReviewFindsByText == ReviewSpec => []FoundByItsText
<1>1. ReviewInv => FoundByItsText
  BY DEF ReviewInv
<1> QED
  BY <1>1, ReviewInvariance, PTL

\* all steps but these four leave the open review as it is
LEMMA ReviewMoves ==
    ASSUME ReviewNext, rev' # rev
    PROVE  \/ Stage \/ Recompare \/ Discard
           \/ \E skip, keep, confirm : Apply(skip, keep, confirm)
<1> SUFFICES ASSUME ~Stage, ~Recompare, ~Discard, ~\E skip, keep, confirm : Apply(skip, keep, confirm) PROVE FALSE
  OBVIOUS
<1>1. CASE \/ \E f \in Files : Submit(f)
           \/ ReadCache \/ Bump \/ StoreNew \/ ReadLive \/ RunFails
           \/ \E ks \in SUBSET run.todo : EmbedBatch(ks)
  BY <1>1 DEF Submit, ReadCache, Bump, StoreNew, ReadLive, RunFails, EmbedBatch, Store
<1>2. CASE \/ \E i \in DOMAIN live, t \in EditTexts : EditRow(i, t)
           \/ \E t \in EditTexts : AddRow(t)
           \/ \E i \in DOMAIN live : RemoveRow(i)
  BY <1>2 DEF EditRow, AddRow, RemoveRow, Edit
<1>3. CASE DeleteOther \/ PurgeDeleted \/ Sweep \/ Tick
  BY <1>3 DEF DeleteOther, PurgeDeleted, Sweep, Tick, Store
<1> QED
  BY <1>1, <1>2, <1>3 DEF ReviewNext

LEMMA OnlyApplyApplies ==
    ASSUME ReviewNext, Applied
    PROVE  \E r \in rev : \E skip, keep :
              /\ keep \subseteq Changed(r.items, "removed") /\ ~IsStale(r.items, live) /\ VectorsThere(r, skip)
              /\ live' = Numbered(Applies(r, skip, keep))
<1>1. rev # {} /\ rev' = {} /\ live' # live
  BY DEF Applied
<1>2. ~Stage /\ ~Recompare /\ ~Discard
  BY <1>1 DEF Stage, Recompare, Discard
<1>3. PICK skip, keep, confirm : Apply(skip, keep, confirm)
  BY <1>1, <1>2, ReviewMoves
<1>4. PICK r \in rev : /\ keep \subseteq Changed(r.items, "removed")
                       /\ ~IsStale(r.items, live) /\ VectorsThere(r, skip)
                       /\ reconcile(WithKept(Targets(r, skip), keep))
  BY <1>3 DEF Apply
<1>5. live' = Numbered(Applies(r, skip, keep))
  BY <1>4 DEF reconcile, Applies
<1> QED
  BY <1>4, <1>5

\* An apply changes a live requirement only if the review showed that requirement with the text it
\* then had: whatever was edited between the comparison and the apply, a live row that the review never
\* told the user about is neither overwritten nor archived (apply_revision's check that the comparison
\* is not stale).
THEOREM AppliesShown == ReviewSpec => AppliesWhatItShowed
<1> DEFINE A == Applied =>
                  \A l \in Range(live) :
                     \/ \E n \in Range(live') : n.id = l.id /\ n.text = l.text
                     \/ \E r \in rev : \E it \in r.items : it.id = l.id /\ it.hash = l.text
<1>1. [ReviewNext]_reviewVars => [A]_reviewVars
  <2> SUFFICES ASSUME ReviewNext, Applied, NEW l \in Range(live)
               PROVE  \E r \in rev : \E it \in r.items : it.id = l.id /\ it.hash = l.text
    OBVIOUS
  <2>1. PICK r \in rev : ~IsStale(r.items, live)
    BY OnlyApplyApplies
  <2> QED
    BY <2>1, NotStale
<1> HIDE DEF A
<1>2. ReviewSpec => [][A]_reviewVars
  BY <1>1, PTL DEF ReviewSpec
<1> QED
  BY <1>2 DEF AppliesWhatItShowed, A

\* As long as a review stays open, no vector of the texts it would apply leaves the embedding cache:
\* neither the sweep by age nor the purge after a deleted BRD collects what the rows of an open
\* revision refer to.
THEOREM VectorsKept == ReviewSpec => ReviewKeepsItsVectors
<1> DEFINE A == \A r \in rev : rev' = rev => \A k \in KeysOf(r.rows) : cache[k] > 0 => cache'[k] > 0
<1>1. ReviewInv /\ [ReviewNext]_reviewVars => [A]_reviewVars
  <2> SUFFICES ASSUME ReviewInv, ReviewNext, NEW r \in rev, rev' = rev, NEW k \in KeysOf(r.rows), cache[k] > 0
               PROVE  cache'[k] > 0
    OBVIOUS
  <2>1. cache \in [Keys -> Nat] /\ OpenReview(r)
    BY DEF ReviewInv
  <2>2. k \in Keys /\ k \in Referenced
    <3>1. \A i \in DOMAIN r.rows : r.rows[i] \in Rows
      BY <2>1, SequenceDomain DEF OpenReview
    <3>2. k \in Keys
      BY <3>1 DEF KeysOf, Range, EmbedHash, Keys, Rows
    <3> QED
      BY <3>2 DEF Referenced
  <2>3. CASE UNCHANGED cache
    BY <2>3
  <2>4. CASE \E keys : cache' = Used(keys)
    BY <2>1, <2>2, <2>4, UsedTyped
  <2>5. CASE \E keys, age : Collect(keys, age)
    BY <2>1, <2>2, <2>5, CollectTyped
  <2>6. CASE Tick
    <3>1. cache'[k] = IF cache[k] \in 1..(SweepAge - 1) THEN cache[k] + 1 ELSE cache[k]
      BY <2>2, <2>6 DEF Tick
    <3>2. cache[k] \in Nat
      BY <2>1, <2>2
    <3> QED
      BY <3>1, <3>2
  <2>7. \/ UNCHANGED cache \/ Tick
        \/ \E keys : cache' = Used(keys)
        \/ \E keys, age : Collect(keys, age)
    <3>1. CASE \/ \E f \in Files : Submit(f)
               \/ ReadCache \/ StoreNew \/ ReadLive \/ Stage \/ RunFails \/ Recompare \/ Discard \/ DeleteOther
      BY <3>1 DEF Submit, ReadCache, StoreNew, ReadLive, Stage, RunFails, Recompare, Discard, DeleteOther
    <3>2. CASE Bump \/ \E ks \in SUBSET run.todo : EmbedBatch(ks)
      BY <3>2 DEF Bump, EmbedBatch
    <3>3. CASE \/ \E i \in DOMAIN live, t \in EditTexts : EditRow(i, t)
               \/ \E t \in EditTexts : AddRow(t)
               \/ \E i \in DOMAIN live : RemoveRow(i)
      BY <3>3 DEF EditRow, AddRow, RemoveRow, Edit
    <3>4. CASE PurgeDeleted \/ Sweep
      BY <3>4 DEF PurgeDeleted, Sweep
    <3>5. CASE \E skip, keep, confirm : Apply(skip, keep, confirm)
      BY <3>5 DEF Apply
    <3>6. CASE Tick
      BY <3>6
    <3> QED
      BY <3>1, <3>2, <3>3, <3>4, <3>5, <3>6 DEF ReviewNext
  <2> QED
    BY <2>3, <2>4, <2>5, <2>6, <2>7
<1> HIDE DEF A
<1>2. ReviewSpec => [][A]_reviewVars
  BY <1>1, ReviewInvariance, PTL DEF ReviewSpec
<1> QED
  BY <1>2 DEF ReviewKeepsItsVectors, A

\* A review is staged, by the job or by a comparison made again, only if it is current at that moment:
\* it compares the revision with the document as it is, whatever happened while the job computed
\* vectors.
THEOREM StagedCurrent == ReviewSpec => StagedReviewIsCurrent
<1> DEFINE A == Staged => \A r \in rev' : ~IsStale(r.items, live')
<1>1. ReviewInv /\ [ReviewNext]_reviewVars => [A]_reviewVars
  <2> SUFFICES ASSUME ReviewInv, ReviewNext, Staged PROVE \A r \in rev' : ~IsStale(r.items, live')
    OBVIOUS
  <2>1. rev' # {} /\ rev' # rev
    BY DEF Staged
  <2>2. Stage \/ Recompare
    BY <2>1, ReviewMoves DEF Discard, Apply
  <2> QED
    BY <2>2, StageOK, RecompareOK
<1> HIDE DEF A
<1>2. ReviewSpec => [][A]_reviewVars
  BY <1>1, ReviewInvariance, PTL DEF ReviewSpec
<1> QED
  BY <1>2 DEF StagedReviewIsCurrent, A

-----------------------------------------------------------------------------
(* A text that stays, and stays as often, keeps its id.                   *)

\* where a text stands, and how often
Places(s, t) == {k \in DOMAIN s : s[k].text = t}

LEMMA PlacesCounted ==
    ASSUME NEW T, NEW s \in Seq(T), NEW t
    PROVE  /\ IsFiniteSet(Places(s, t)) /\ Cardinality(Places(s, t)) \in Nat
           /\ \A i \in Places(s, t) : Occurrence(s, i) \in 0..(Cardinality(Places(s, t)) - 1)
           /\ \A n \in 0..(Cardinality(Places(s, t)) - 1) : \E i \in Places(s, t) : Occurrence(s, i) = n
<1> DEFINE P == Places(s, t)
           key == [i \in P |-> i]
<1>1. DOMAIN s = 1..Len(s) /\ Len(s) \in Nat /\ IsFiniteSet(DOMAIN s)
  BY SequenceDomain
<1>2. P \in SUBSET DOMAIN s /\ \A i \in P : s[i].text = t
  BY DEF Places
<1>3. IsFiniteSet(P) /\ Cardinality(P) \in Nat
  BY <1>1, <1>2, FS_Subset, FS_CardinalityType
<1>4. key \in [P -> Nat] /\ \A x, y \in P : key[x] = key[y] => x = y
  BY <1>1, <1>2
<1>5. ASSUME NEW i \in P PROVE RankIn(P, key, i) = Occurrence(s, i)
  <2>1. {x \in P : key[x] < key[i]} = {m \in 1..(i - 1) : s[m].text = s[i].text}
    BY <1>1, <1>2 DEF Places
  <2> QED
    BY <2>1 DEF RankIn, Occurrence
<1> HIDE DEF P, key
<1>6. /\ \A i \in P : RankIn(P, key, i) \in 0..(Cardinality(P) - 1)
      /\ \A n \in 0..(Cardinality(P) - 1) : \E i \in P : RankIn(P, key, i) = n
  BY <1>3, <1>4, Ranks
<1> QED
  BY <1>3, <1>5, <1>6 DEF P

\* the live document still says, row for row, what the comparison read
LEMMA ComparedRowsLive ==
    ASSUME NEW old \in LiveRows, NEW items, TellOfTheLive(items, old), NEW rows \in LiveRows, ~IsStale(items, rows),
           NEW i \in DOMAIN old
    PROVE  \E m \in DOMAIN rows : rows[m].id = old[i].id /\ rows[m].text = old[i].text
<1>1. old[i].id # 0 /\ \A j \in DOMAIN old : old[j].id = old[i].id => j = i
  BY LiveRowTypes DEF IdsApart
<1>2. PICK it \in items : it.id = old[i].id
  BY DEF TellOfTheLive
<1>3. it.hash = old[i].text
  <2>1. PICK j \in DOMAIN old : it.id = old[j].id /\ it.hash = old[j].text
    BY <1>1, <1>2 DEF TellOfTheLive
  <2> QED
    BY <1>1, <1>2, <2>1
<1>4. PICK r \in Range(rows) : it.id = r.id /\ it.hash = r.text
  BY <1>1, <1>2, NotStale
<1>5. PICK m \in DOMAIN rows : r = rows[m]
  BY DEF Range
<1> QED
  BY <1>2, <1>3, <1>4, <1>5

LEMMA TextsAsOften ==
    ASSUME NEW old \in LiveRows, NEW items, TellOfTheLive(items, old), NEW rows \in LiveRows, ~IsStale(items, rows),
           NEW t
    PROVE  Cardinality(Places(old, t)) <= Cardinality(Places(rows, t))
<1> DEFINE at(i) == CHOOSE m \in DOMAIN rows : rows[m].id = old[i].id /\ rows[m].text = old[i].text
           f == [i \in Places(old, t) |-> at(i)]
<1>1. ASSUME NEW i \in DOMAIN old
      PROVE  at(i) \in DOMAIN rows /\ rows[at(i)].id = old[i].id /\ rows[at(i)].text = old[i].text
  BY ComparedRowsLive
<1> HIDE DEF at
<1>2. \A i \in Places(old, t) : i \in DOMAIN old /\ old[i].text = t
  BY DEF Places
<1>3. f \in [Places(old, t) -> Places(rows, t)]
  BY <1>1, <1>2 DEF Places
<1>4. ASSUME NEW i \in Places(old, t), NEW j \in Places(old, t), f[i] = f[j] PROVE i = j
  <2>1. at(i) = at(j) /\ i \in DOMAIN old /\ j \in DOMAIN old
    BY <1>2, <1>4
  <2>2. old[i].id = old[j].id
    BY <1>1, <2>1
  <2> QED
    BY <2>1, <2>2, LiveRowTypes DEF IdsApart
<1> HIDE DEF f
<1>5. f \in Injection(Places(old, t), Places(rows, t))
  BY <1>3, <1>4 DEF Injection, IsInjective
<1>6. IsFiniteSet(Places(rows, t))
  BY PlacesCounted, LiveRowTypes
<1> QED
  BY <1>5, <1>6, FS_Injection

LEMMA SameTextSameId ==
    ASSUME LiveOK, NEW r, OpenReview(r), ~IsStale(r.items, live), NEW m \in DOMAIN live,
           Cardinality(Places(r.rows, live[m].text)) >= Cardinality(Places(live, live[m].text))
    PROVE  \E it \in r.items : it.change = "same" /\ it.id = live[m].id /\ it.hash = live[m].text
<1> DEFINE t == live[m].text
           new == r.rows
<1>1. live \in LiveRows /\ new \in Seq(Rows)
  BY DEF LiveOK, OpenReview
<1>2. PICK old \in LiveRows : r.items = classify(old, new)
  BY DEF OpenReview
<1>3. TellOfTheLive(r.items, old) /\ \A p \in Identical(old, new) : PairItem(old, new, p) \in r.items
  BY <1>1, <1>2, Classified
<1>4. live[m].id # 0 /\ live[m] \in Range(live)
  BY <1>1, LiveRowTypes DEF Range
<1>5. PICK it \in r.items : it.id = live[m].id /\ it.hash = t
  BY <1>4, NotStale
<1>6. PICK i \in DOMAIN old : old[i].id = live[m].id /\ old[i].text = t
  BY <1>3, <1>4, <1>5 DEF TellOfTheLive
<1> HIDE DEF t, new
<1>7. Cardinality(Places(old, t)) <= Cardinality(Places(live, t))
  BY <1>1, <1>3, TextsAsOften
<1>8. /\ Cardinality(Places(old, t)) \in Nat /\ Cardinality(Places(live, t)) \in Nat /\ Cardinality(Places(new, t)) \in Nat
      /\ Occurrence(old, i) \in 0..(Cardinality(Places(old, t)) - 1)
  <2>1. i \in Places(old, t)
    BY <1>6 DEF Places
  <2>2. old \in Seq(LiveRow) /\ live \in Seq(LiveRow)
    BY <1>1, LiveRowTypes
  <2> QED
    BY <1>1, <2>1, <2>2, PlacesCounted
<1>9. Cardinality(Places(new, t)) >= Cardinality(Places(live, t))
  BY DEF new, t
<1>10. Occurrence(old, i) \in 0..(Cardinality(Places(new, t)) - 1)
  BY <1>7, <1>8, <1>9
<1>11. PICK j \in Places(new, t) : Occurrence(new, j) = Occurrence(old, i)
  BY <1>1, <1>10, PlacesCounted
<1>12. <<j, i>> \in Identical(old, new)
  BY <1>6, <1>11 DEF Identical, Places
<1> DEFINE p == <<j, i>>
           x == PairItem(old, new, p)
<1>13. x \in r.items
  BY <1>3, <1>12
<1>14. x.change = "same" /\ x.id = live[m].id /\ x.hash = t
  BY <1>6, <1>11 DEF PairItem, Places
<1> QED
  BY <1>13, <1>14 DEF t

\* A live requirement whose text the revision has at least as often as the live document comes out of
\* the apply with its id and its text, for whatever the user unchecked or kept: its use cases, its
\* history and its links stay attached to it (reconcile by id, not by position).
THEOREM UnchangedStays == ReviewSpec => UnchangedKeepsItsId
<1> DEFINE A == Applied =>
                  \A l \in Range(live), r \in rev :
                     Cardinality({k \in DOMAIN r.rows : r.rows[k].text = l.text})
                       >= Cardinality({k \in DOMAIN live : live[k].text = l.text})
                     => \E n \in Range(live') : n.id = l.id /\ n.text = l.text
<1>1. ReviewInv /\ [ReviewNext]_reviewVars => [A]_reviewVars
  <2> SUFFICES ASSUME ReviewInv, ReviewNext, Applied, NEW l \in Range(live), NEW r \in rev,
                      Cardinality({k \in DOMAIN r.rows : r.rows[k].text = l.text})
                        >= Cardinality({k \in DOMAIN live : live[k].text = l.text})
               PROVE  \E n \in Range(live') : n.id = l.id /\ n.text = l.text
    OBVIOUS
  <2>1. LiveOK /\ FoundByItsText /\ OpenReview(r)
    BY DEF ReviewInv
  <2>2. PICK skip, keep : /\ keep \subseteq Changed(r.items, "removed") /\ ~IsStale(r.items, live) /\ VectorsThere(r, skip)
                          /\ live' = Numbered(Applies(r, skip, keep))
    <3>1. PICK q \in rev : \E skip, keep :
              /\ keep \subseteq Changed(q.items, "removed") /\ ~IsStale(q.items, live) /\ VectorsThere(q, skip)
              /\ live' = Numbered(Applies(q, skip, keep))
      BY OnlyApplyApplies
    <3>2. q = r
      BY DEF ReviewInv
    <3> QED
      BY <3>1, <3>2
  <2>3. PICK m \in DOMAIN live : l = live[m]
    BY DEF Range
  <2>4. PICK it \in r.items : it.change = "same" /\ it.id = l.id /\ it.hash = l.text
    <3>1. Cardinality(Places(r.rows, live[m].text)) >= Cardinality(Places(live, live[m].text))
      BY <2>3 DEF Places
    <3> QED
      BY <2>1, <2>2, <2>3, <3>1, SameTextSameId
  <2> DEFINE w == Applies(r, skip, keep)
  <2>5. GoodTargets(w) /\ \A k \in DOMAIN w : w[k].id < nextId
    BY <2>1, <2>2, AppliedRows
  <2>6. PICK k \in DOMAIN w : w[k].id = it.id /\ w[k].text = it.hash
    BY <2>1, <2>2, <2>4, AppliedRows
  <2>7. l.id # 0
    BY <2>1, <2>3, LiveRowTypes DEF LiveOK
  <2> HIDE DEF w
  <2>8. DOMAIN Numbered(w) = DOMAIN w /\ Numbered(w)[k] = w[k]
    BY <2>1, <2>4, <2>5, <2>6, <2>7, NumberedOK
  <2>9. Numbered(w)[k] \in Range(live')
    BY <2>2, <2>8 DEF Range, w
  <2> QED
    BY <2>4, <2>6, <2>8, <2>9
<1> HIDE DEF A
<1>2. ReviewSpec => [][A]_reviewVars
  BY <1>1, ReviewInvariance, PTL DEF ReviewSpec
<1> QED
  BY <1>2, PTL DEF UnchangedKeepsItsId, A

-----------------------------------------------------------------------------
(* Every id ever given is in the document or in the archive.              *)

IdsAmong(rows) == {x.id : x \in rows}

\* every id below n is in the document or in the archive, and in one of them only
Accounted(s, a, n) ==
    /\ a \subseteq LiveRow /\ \A x \in a : x.id < n
    /\ \A id \in 1..(n - 1) : id \in IdsIn(s) \/ id \in IdsAmong(a)
    /\ \A id \in IdsIn(s) : id \notin IdsAmong(a)

LEMMA NoneLost ==
    ASSUME live \in LiveRows, Accounted(live, archive, nextId)
    PROVE  NothingIsLost
<1>1. \A id \in 1..(nextId - 1) : id \in IdsIn(live) \cup {r.id : r \in archive}
  BY DEF Accounted, IdsAmong
<1>2. IdsIn(live) \cap {r.id : r \in archive} = {}
  BY DEF Accounted, IdsAmong
<1>3. IsInjective([k \in DOMAIN live |-> live[k].id])
  BY DEF LiveRows, IdsApart, IsInjective
<1> QED
  BY <1>1, <1>2, <1>3 DEF NothingIsLost

LEMMA StoredAccounted ==
    ASSUME NEW s, NEW a, Accounted(s, a, 1), NEW file \in Seq(Rows), NEW new,
           new = [i \in DOMAIN file |-> Requirement(i, file[i])]
    PROVE  Accounted(new, a, Len(file) + 1)
<1>1. a = {}
  <2>1. \A x \in a : x \in LiveRow /\ x.id < 1
    BY DEF Accounted
  <2>2. \A x \in LiveRow : x.id \in Nat \ {0}
    BY DEF LiveRow
  <2> QED
    BY <2>1, <2>2
<1>2. Len(file) \in Nat /\ DOMAIN file = 1..Len(file)
  BY SequenceDomain
<1>3. \A i \in 1..Len(file) : new[i].id = i
  BY <1>2 DEF Requirement
<1>4. IdsIn(new) = {new[i].id : i \in 1..Len(file)}
  BY <1>2 DEF IdsIn, Range
<1>5. \A id \in 1..((Len(file) + 1) - 1) : id \in IdsIn(new)
  BY <1>2, <1>3, <1>4
<1> QED
  BY <1>1, <1>5 DEF Accounted, IdsAmong

LEMMA EditedAccounted ==
    ASSUME NEW s \in LiveRows, NEW a, NEW n, Accounted(s, a, n), NEW i \in DOMAIN s, NEW r, r.id = s[i].id
    PROVE  Accounted([s EXCEPT ![i] = r], a, n)
<1> DEFINE new == [s EXCEPT ![i] = r]
<1>1. DOMAIN new = DOMAIN s /\ \A k \in DOMAIN s : new[k] = IF k = i THEN r ELSE s[k]
  BY LiveRowTypes
<1> HIDE DEF new
<1>2. \A k \in DOMAIN s : new[k].id = s[k].id
  BY <1>1
<1>3. IdsIn(new) = {new[k].id : k \in DOMAIN s} /\ IdsIn(s) = {s[k].id : k \in DOMAIN s}
  BY <1>1 DEF IdsIn, Range
<1>4. IdsIn(new) = IdsIn(s)
  BY <1>2, <1>3
<1> QED
  BY <1>4 DEF Accounted, new

LEMMA AppendedAccounted ==
    ASSUME NEW s \in LiveRows, NEW a, NEW n \in Nat, Accounted(s, a, n), NEW r \in LiveRow, r.id = n
    PROVE  Accounted(Append(s, r), a, n + 1)
<1> DEFINE new == Append(s, r)
<1>1. s \in Seq(LiveRow) /\ Len(s) \in Nat /\ DOMAIN s = 1..Len(s)
  BY LiveRowTypes
<1>2. /\ new \in Seq(LiveRow) /\ Len(new) = Len(s) + 1
      /\ \A k \in 1..Len(s) : new[k] = s[k]
      /\ new[Len(s) + 1] = r
  BY <1>1, AppendProperties
<1>3. DOMAIN new = 1..(Len(s) + 1)
  BY <1>2, SequenceDomain
<1> HIDE DEF new
<1>4. IdsIn(new) = {new[k].id : k \in 1..(Len(s) + 1)} /\ IdsIn(s) = {s[k].id : k \in 1..Len(s)}
  BY <1>1, <1>3 DEF IdsIn, Range
<1>5. Len(s) + 1 \in 1..(Len(s) + 1) /\ \A k \in 1..(Len(s) + 1) : k \in 1..Len(s) \/ k = Len(s) + 1
  BY <1>1
<1>6. \A id : id \in IdsIn(new) <=> id \in IdsIn(s) \/ id = n
  <2> SUFFICES ASSUME NEW id PROVE id \in IdsIn(new) <=> id \in IdsIn(s) \/ id = n
    OBVIOUS
  <2>1. ASSUME id \in IdsIn(new) PROVE id \in IdsIn(s) \/ id = n
    BY <1>2, <1>4, <1>5, <2>1
  <2>2. ASSUME id \in IdsIn(s) PROVE id \in IdsIn(new)
    <3>1. PICK k \in 1..Len(s) : id = s[k].id
      BY <1>4, <2>2
    <3>2. k \in 1..(Len(s) + 1)
      BY <1>1
    <3> QED
      BY <1>2, <1>4, <3>1, <3>2
  <2>3. n \in IdsIn(new)
    BY <1>2, <1>4, <1>5
  <2> QED
    BY <2>1, <2>2, <2>3
<1>7. a \subseteq LiveRow /\ \A x \in a : x.id \in Nat /\ x.id < n
  BY DEF Accounted, LiveRow
<1>8. n \notin IdsAmong(a)
  BY <1>7 DEF IdsAmong
<1>9. \A x \in a : x.id < n + 1
  BY <1>7
<1>10. \A id \in 1..((n + 1) - 1) : id = n \/ id \in 1..(n - 1)
  OBVIOUS
<1>11. \A id \in 1..((n + 1) - 1) : id \in IdsIn(new) \/ id \in IdsAmong(a)
  BY <1>6, <1>10 DEF Accounted
<1>12. \A id \in IdsIn(new) : id \notin IdsAmong(a)
  BY <1>6, <1>8 DEF Accounted
<1> QED
  BY <1>7, <1>9, <1>11, <1>12 DEF Accounted, new

LEMMA RemovedAccounted ==
    ASSUME NEW s \in LiveRows, NEW a, NEW n, Accounted(s, a, n), NEW i \in DOMAIN s, s[i].id < n
    PROVE  Accounted(RemoveAt(s, i), a \cup {s[i]}, n)
<1> DEFINE new == RemoveAt(s, i)
<1>1. s \in Seq(LiveRow) /\ IdsApart(s) /\ Len(s) \in Nat /\ DOMAIN s = 1..Len(s) /\ s[i] \in LiveRow
  BY LiveRowTypes
<1>2. /\ new \in Seq(LiveRow) /\ Len(new) = Len(s) - 1
      /\ \A k \in 1..(Len(s) - 1) : new[k] = IF k < i THEN s[k] ELSE s[k + 1]
  BY <1>1, Removed
<1>3. DOMAIN new = 1..(Len(s) - 1)
  BY <1>2, SequenceDomain
<1> HIDE DEF new
<1>4. IdsIn(new) = {new[k].id : k \in DOMAIN new} /\ IdsIn(s) = {s[k].id : k \in DOMAIN s}
  BY DEF IdsIn, Range
<1>5. ASSUME NEW k \in DOMAIN new PROVE new[k].id \in IdsIn(s) /\ new[k].id # s[i].id
  <2> DEFINE m == IF k < i THEN k ELSE k + 1
  <2>1. m \in DOMAIN s /\ m # i /\ new[k] = s[m]
    BY <1>1, <1>2, <1>3
  <2> HIDE DEF m
  <2> QED
    BY <1>1, <1>4, <2>1 DEF IdsApart
<1>6. ASSUME NEW m \in DOMAIN s, m # i PROVE s[m].id \in IdsIn(new)
  <2> DEFINE k == IF m < i THEN m ELSE m - 1
  <2>1. k \in DOMAIN new /\ new[k] = s[m]
    BY <1>1, <1>2, <1>3, <1>6
  <2> HIDE DEF k
  <2> QED
    BY <1>4, <2>1
<1>7. \A id : id \in IdsAmong(a \cup {s[i]}) <=> id \in IdsAmong(a) \/ id = s[i].id
  BY DEF IdsAmong
<1>8. \A id \in 1..(n - 1) : id \in IdsIn(new) \/ id \in IdsAmong(a \cup {s[i]})
  BY <1>4, <1>6, <1>7 DEF Accounted
<1>9. \A id \in IdsIn(new) : id \notin IdsAmong(a \cup {s[i]})
  BY <1>4, <1>5, <1>7 DEF Accounted
<1>10. a \cup {s[i]} \subseteq LiveRow /\ \A x \in a \cup {s[i]} : x.id < n
  BY <1>1 DEF Accounted
<1> QED
  BY <1>8, <1>9, <1>10 DEF Accounted, new

\* the new ids of an apply have no gap
LEMMA NewIdsDense ==
    ASSUME NEW T, NEW ts \in Seq(T), NEW n \in 0..(AllUnnumbered(ts) - 1)
    PROVE  \E k \in DOMAIN ts : ts[k].id = 0 /\ Unnumbered(ts, k) = n
<1> DEFINE P == {k \in DOMAIN ts : ts[k].id = 0}
           key == [k \in P |-> k]
<1>1. DOMAIN ts = 1..Len(ts) /\ Len(ts) \in Nat /\ IsFiniteSet(DOMAIN ts)
  BY SequenceDomain
<1>2. IsFiniteSet(P) /\ Cardinality(P) = AllUnnumbered(ts)
  BY <1>1, FS_Subset DEF AllUnnumbered
<1>3. key \in [P -> Nat] /\ \A x, y \in P : key[x] = key[y] => x = y
  BY <1>1
<1>4. ASSUME NEW k \in P PROVE RankIn(P, key, k) = Unnumbered(ts, k)
  <2>1. {x \in P : key[x] < key[k]} = {m \in 1..(k - 1) : ts[m].id = 0}
    BY <1>1
  <2> QED
    BY <2>1 DEF RankIn, Unnumbered
<1> HIDE DEF P, key
<1>5. \A m \in 0..(Cardinality(P) - 1) : \E k \in P : RankIn(P, key, k) = m
  BY <1>2, <1>3, Ranks
<1>6. PICK k \in P : RankIn(P, key, k) = n
  BY <1>2, <1>5
<1> QED
  BY <1>4, <1>6 DEF P

LEMMA AppliedAccounted ==
    ASSUME LiveOK, Accounted(live, archive, nextId), NEW w, GoodTargets(w),
           \A k \in DOMAIN w : w[k].id = 0 \/ w[k].id \in IdsIn(live)
    PROVE  Accounted(Numbered(w), archive \cup {r \in Range(live) : r.id \notin IdsIn(w)}, nextId + AllUnnumbered(w))
<1> DEFINE new == Numbered(w)
           gone == {r \in Range(live) : r.id \notin IdsIn(w)}
           N == nextId + AllUnnumbered(w)
<1>1. /\ live \in LiveRows /\ nextId \in Nat \ {0} /\ IdsIn(live) = {live[k].id : k \in DOMAIN live}
      /\ \A k \in DOMAIN live : live[k] \in LiveRow /\ live[k].id \in Nat \ {0} /\ live[k].id < nextId
  BY LiveRowTypes DEF LiveOK
<1>2. \A id \in IdsIn(live) : id \in Nat \ {0} /\ id < nextId
  BY <1>1
<1>3. w \in Seq(TargetRow) /\ \A k \in DOMAIN w : w[k] \in TargetRow
  BY SequenceDomain DEF GoodTargets
<1>4. AllUnnumbered(w) \in Nat /\ \A k \in DOMAIN w : Unnumbered(w, k) \in Nat
  BY <1>3, UnnumberedCounts
<1>5. DOMAIN new = DOMAIN w
      /\ \A k \in DOMAIN w : new[k].id = IF w[k].id # 0 THEN w[k].id ELSE nextId + Unnumbered(w, k)
  <2>1. new = [k \in DOMAIN w |-> IF w[k].id # 0 THEN w[k] ELSE [w[k] EXCEPT !.id = nextId + Unnumbered(w, k)]]
    BY DEF Numbered, Unnumbered
  <2> HIDE DEF new
  <2> QED
    BY <1>3, <2>1 DEF TargetRow
<1>6. IdsIn(w) = {w[k].id : k \in DOMAIN w} /\ IdsIn(new) = {new[k].id : k \in DOMAIN w}
  BY <1>5 DEF IdsIn, Range
<1> HIDE DEF new
<1>7. /\ \A id \in IdsIn(new) : (id \in IdsIn(w) /\ id \in IdsIn(live)) \/ ~(id < nextId)
      /\ \A id \in IdsIn(w) : id # 0 => id \in IdsIn(new)
  <2>1. ASSUME NEW k \in DOMAIN w
        PROVE  (new[k].id \in IdsIn(w) /\ new[k].id \in IdsIn(live)) \/ ~(new[k].id < nextId)
    <3>1. CASE w[k].id # 0
      BY <1>5, <1>6, <3>1
    <3>2. CASE w[k].id = 0
      <4>1. new[k].id = nextId + Unnumbered(w, k)
        BY <1>5, <3>2
      <4>2. Unnumbered(w, k) \in Nat /\ nextId \in Nat
        BY <1>1, <1>4
      <4> QED
        BY <4>1, <4>2
    <3> QED
      BY <3>1, <3>2
  <2>2. ASSUME NEW k \in DOMAIN w, w[k].id # 0 PROVE w[k].id \in IdsIn(new)
    BY <1>5, <1>6, <2>2
  <2> QED
    BY <1>6, <2>1, <2>2
<1>8. Range(live) = {live[k] : k \in DOMAIN live}
  BY DEF Range
<1>9. /\ gone \subseteq LiveRow /\ \A x \in gone : x.id < nextId /\ x.id \notin IdsIn(w)
      /\ \A id \in IdsIn(live) : id \in IdsIn(w) \/ id \in IdsAmong(gone)
  BY <1>1, <1>8 DEF IdsAmong
<1> HIDE DEF gone
<1>10. \A id : id \in IdsAmong(archive \cup gone) <=> id \in IdsAmong(archive) \/ id \in IdsAmong(gone)
  BY DEF IdsAmong
<1>11. archive \cup gone \subseteq LiveRow /\ \A x \in archive \cup gone : x.id < N
  <2>1. archive \subseteq LiveRow /\ \A x \in archive : x.id < nextId
    BY DEF Accounted
  <2>2. \A x \in LiveRow : x.id \in Nat
    BY DEF LiveRow
  <2>3. ASSUME NEW x \in archive \cup gone PROVE x.id < N
    <3>1. x.id < nextId /\ x.id \in Nat
      BY <1>9, <2>1, <2>2
    <3> QED
      BY <1>1, <1>4, <3>1
  <2> QED
    BY <1>9, <2>1, <2>3
<1>12. ASSUME NEW id \in 1..(N - 1) PROVE id \in IdsIn(new) \/ id \in IdsAmong(archive \cup gone)
  <2>1. CASE id < nextId
    <3>1. id \in 1..(nextId - 1)
      BY <1>1, <2>1
    <3>2. id \in IdsIn(live) \/ id \in IdsAmong(archive)
      BY <3>1 DEF Accounted
    <3>3. id # 0
      OBVIOUS
    <3> QED
      BY <1>7, <1>9, <1>10, <3>2, <3>3
  <2>2. CASE ~(id < nextId)
    <3> DEFINE z == id - nextId
    <3>1. z \in 0..(AllUnnumbered(w) - 1) /\ id = nextId + z
      BY <1>1, <1>4, <2>2
    <3> HIDE DEF z
    <3>2. PICK k \in DOMAIN w : w[k].id = 0 /\ Unnumbered(w, k) = z
      BY <1>3, <3>1, NewIdsDense
    <3>3. new[k].id = id
      BY <1>5, <3>1, <3>2
    <3> QED
      BY <1>6, <3>3
  <2> QED
    BY <2>1, <2>2
<1>13. ASSUME NEW id \in IdsIn(new) PROVE id \notin IdsAmong(archive \cup gone)
  <2>1. \A x \in archive \cup gone : x.id < nextId
    BY <1>9 DEF Accounted
  <2>2. CASE ~(id < nextId)
    BY <2>1, <2>2 DEF IdsAmong
  <2>3. CASE id \in IdsIn(w) /\ id \in IdsIn(live)
    <3>1. id \notin IdsAmong(archive)
      BY <2>3 DEF Accounted
    <3>2. id \notin IdsAmong(gone)
      BY <1>9, <2>3 DEF IdsAmong
    <3> QED
      BY <1>10, <3>1, <3>2
  <2> QED
    BY <1>7, <2>2, <2>3
<1> QED
  BY <1>11, <1>12, <1>13 DEF Accounted, new, gone

RecordsInv ==
    /\ Accounted(live, archive, nextId)
    /\ other \subseteq Keys /\ purge \subseteq Keys /\ cache \in [Keys -> 0..SweepAge]

LEMMA RecordsInitOK == ReviewInit => RecordsInv
<1> SUFFICES ASSUME ReviewInit PROVE RecordsInv
  OBVIOUS
<1>1. live = <<>> /\ archive = {} /\ nextId = 1 /\ purge = {}
  BY DEF ReviewInit
<1>2. Accounted(live, archive, nextId)
  <2>1. IdsIn(live) = {}
    BY <1>1 DEF IdsIn, Range
  <2> QED
    BY <1>1, <2>1 DEF Accounted
<1>3. other \subseteq Keys
  BY RevisionAssumption DEF RevisionAssumption, ReviewInit, EmbedHash, Keys, Rows
<1>4. cache \in [Keys -> 0..SweepAge]
  BY DEF ReviewInit, SweepAge
<1> QED
  BY <1>1, <1>2, <1>3, <1>4 DEF RecordsInv

LEMMA AgesKept ==
    ASSUME cache \in [Keys -> 0..SweepAge]
    PROVE  /\ \A keys : cache' = Used(keys) => cache' \in [Keys -> 0..SweepAge]
           /\ \A keys, age : Collect(keys, age) => cache' \in [Keys -> 0..SweepAge]
           /\ Tick => cache' \in [Keys -> 0..SweepAge]
<1>1. ASSUME NEW keys, cache' = Used(keys) PROVE cache' \in [Keys -> 0..SweepAge]
  BY <1>1 DEF Used, SweepAge
<1>2. ASSUME NEW keys, NEW age, Collect(keys, age) PROVE cache' \in [Keys -> 0..SweepAge]
  BY <1>2 DEF Collect, SweepAge
<1>3. ASSUME Tick PROVE cache' \in [Keys -> 0..SweepAge]
  BY <1>3 DEF Tick, SweepAge
<1> QED
  BY <1>1, <1>2, <1>3

LEMMA RecordsStepOK == ReviewInv /\ RecordsInv /\ [ReviewNext]_reviewVars => RecordsInv'
<1> SUFFICES ASSUME ReviewInv, RecordsInv, [ReviewNext]_reviewVars PROVE RecordsInv'
  OBVIOUS
<1>1. /\ Accounted(live, archive, nextId) /\ other \subseteq Keys /\ purge \subseteq Keys
      /\ cache \in [Keys -> 0..SweepAge]
  BY DEF RecordsInv
<1>2. /\ live \in LiveRows /\ nextId \in Nat /\ nextId # 0 /\ nextId + 0 = nextId
      /\ \A k \in DOMAIN live : live[k].id < nextId
  BY DEF ReviewInv, LiveOK
<1>3. /\ \A keys : cache' = Used(keys) => cache' \in [Keys -> 0..SweepAge]
      /\ \A keys, age : Collect(keys, age) => cache' \in [Keys -> 0..SweepAge]
      /\ Tick => cache' \in [Keys -> 0..SweepAge]
  BY <1>1, AgesKept
<1>4. ASSUME UNCHANGED <<live, archive, nextId>>, other' \in {other, {}}, purge' \in {purge, other, {}},
             cache' \in [Keys -> 0..SweepAge]
      PROVE  RecordsInv'
  BY <1>1, <1>4 DEF RecordsInv
<1>5. ASSUME Accounted(live', archive', nextId'), UNCHANGED <<other, purge>>, cache' \in [Keys -> 0..SweepAge]
      PROVE  RecordsInv'
  BY <1>1, <1>5 DEF RecordsInv
<1>6. CASE \/ \E f \in Files : Submit(f)
           \/ ReadCache \/ ReadLive \/ RunFails \/ Stage \/ Recompare \/ Discard \/ UNCHANGED reviewVars
  <2>1. UNCHANGED <<live, archive, nextId, other, purge, cache>>
    BY <1>6 DEF Submit, ReadCache, ReadLive, RunFails, Stage, Recompare, Discard, reviewVars, Store, World
  <2> QED
    BY <1>1, <1>4, <2>1
<1>7. CASE Bump \/ \E ks \in SUBSET run.todo : EmbedBatch(ks)
  <2>1. UNCHANGED <<live, archive, nextId, other, purge>> /\ \E keys : cache' = Used(keys)
    BY <1>7 DEF Bump, EmbedBatch, Store, World
  <2> QED
    BY <1>3, <1>4, <2>1
<1>8. CASE DeleteOther \/ PurgeDeleted \/ Sweep \/ Tick
  <2>1. UNCHANGED <<live, archive, nextId>> /\ other' \in {other, {}} /\ purge' \in {purge, other, {}}
    BY <1>8 DEF DeleteOther, PurgeDeleted, Sweep, Tick, Store, World
  <2>2. UNCHANGED cache \/ Tick \/ \E keys, age : Collect(keys, age)
    BY <1>8 DEF DeleteOther, PurgeDeleted, Sweep
  <2> QED
    BY <1>1, <1>3, <1>4, <2>1, <2>2
<1>9. CASE StoreNew
  <2>1. /\ nextId = 1 /\ live' = [i \in DOMAIN run.file |-> Requirement(i, run.file[i])]
        /\ nextId' = Len(run.file) + 1 /\ UNCHANGED <<archive, other, purge, cache>>
    BY <1>9 DEF StoreNew, World
  <2>2. run.file \in Seq(Rows) /\ Accounted(live, archive, 1)
    BY <1>1, <2>1, RunFields DEF ReviewInv
  <2>3. Accounted(live', archive, Len(run.file) + 1)
    BY <2>1, <2>2, StoredAccounted
  <2> QED
    BY <1>1, <1>5, <2>1, <2>3
<1>10. ASSUME NEW texts, NEW rows, NEW retired, NEW added, Edit(texts, rows, retired, added),
              Accounted(rows, archive \cup retired, nextId + added)
       PROVE  RecordsInv'
  <2>1. /\ live' = rows /\ archive' = archive \cup retired /\ nextId' = nextId + added /\ cache' = Used(texts)
        /\ UNCHANGED <<other, purge>>
    BY <1>10 DEF Edit
  <2> QED
    BY <1>3, <1>5, <1>10, <2>1
<1>11. ASSUME NEW i \in DOMAIN live, NEW t \in EditTexts, EditRow(i, t) PROVE RecordsInv'
  <2> DEFINE r == Requirement(live[i].id, [live[i] EXCEPT !.text = t])
             new == [live EXCEPT ![i] = r]
  <2>1. Edit({r.vec}, new, {}, 0)
    BY <1>11 DEF EditRow
  <2>2. r.id = live[i].id
    BY DEF Requirement
  <2> HIDE DEF r
  <2>3. Accounted(new, archive, nextId)
    BY <1>1, <1>2, <2>2, EditedAccounted
  <2>4. Accounted(new, archive \cup {}, nextId + 0)
    <3>1. archive \cup {} = archive
      OBVIOUS
    <3> HIDE DEF new
    <3> QED
      BY <1>2, <2>3, <3>1
  <2> HIDE DEF new
  <2> QED
    BY <1>10, <2>1, <2>4
<1>12. ASSUME NEW t \in EditTexts, AddRow(t) PROVE RecordsInv'
  <2>1. PICK s \in Sections :
          LET r == Requirement(nextId, [text |-> t, req |-> None, sec |-> s])
          IN  Edit({r.vec}, Append(live, r), {}, 1)
    BY <1>12 DEF AddRow
  <2> DEFINE e == [text |-> t, req |-> None, sec |-> s]
             r == Requirement(nextId, e)
             new == Append(live, r)
  <2>2. Edit({r.vec}, new, {}, 1)
    BY <2>1
  <2>3. e.text \in ReqTexts /\ e.req \in ReqIds \cup {None} /\ e.sec \in Sections
    BY RevisionAssumption DEF RevisionAssumption
  <2> HIDE DEF e
  <2>4. r \in LiveRow /\ r.id = nextId
    BY <1>2, <2>3, OwnVector
  <2> HIDE DEF r
  <2>5. Accounted(new, archive, nextId + 1)
    BY <1>1, <1>2, <2>4, AppendedAccounted
  <2>6. archive \cup {} = archive
    OBVIOUS
  <2> HIDE DEF new
  <2>7. Accounted(new, archive \cup {}, nextId + 1)
    BY <2>5, <2>6
  <2> QED
    BY <1>10, <2>2, <2>7
<1>13. ASSUME NEW i \in DOMAIN live, RemoveRow(i) PROVE RecordsInv'
  <2> DEFINE new == RemoveAt(live, i)
  <2>1. Edit({}, new, {live[i]}, 0)
    BY <1>13 DEF RemoveRow
  <2>2. Accounted(new, archive \cup {live[i]}, nextId)
    BY <1>1, <1>2, RemovedAccounted
  <2> HIDE DEF new
  <2>3. Accounted(new, archive \cup {live[i]}, nextId + 0)
    BY <1>2, <2>2
  <2> QED
    BY <1>10, <2>1, <2>3
<1>14. ASSUME NEW skip, NEW keep, NEW confirm, Apply(skip, keep, confirm) PROVE RecordsInv'
  <2>1. PICK r \in rev : /\ keep \subseteq Changed(r.items, "removed")
                         /\ ~IsStale(r.items, live) /\ VectorsThere(r, skip)
                         /\ reconcile(WithKept(Targets(r, skip), keep))
    BY <1>14 DEF Apply
  <2>2. UNCHANGED <<cache, other, purge>>
    BY <1>14 DEF Apply, World
  <2> DEFINE w == Applies(r, skip, keep)
  <2>3. /\ live' = Numbered(w) /\ nextId' = nextId + AllUnnumbered(w)
        /\ archive' = archive \cup {x \in Range(live) : x.id \notin IdsIn(w)}
    BY <2>1 DEF reconcile, Applies, AllUnnumbered
  <2>4. LiveOK /\ FoundByItsText /\ OpenReview(r)
    BY DEF ReviewInv
  <2>5. GoodTargets(w) /\ \A k \in DOMAIN w : w[k].id = 0 \/ w[k].id \in IdsIn(live)
    BY <2>1, <2>4, AppliedRows
  <2> HIDE DEF w
  <2>6. Accounted(Numbered(w), archive \cup {x \in Range(live) : x.id \notin IdsIn(w)}, nextId + AllUnnumbered(w))
    BY <1>1, <2>4, <2>5, AppliedAccounted
  <2> QED
    BY <1>1, <1>5, <2>2, <2>3, <2>6
<1> QED
  BY <1>6, <1>7, <1>8, <1>9, <1>11, <1>12, <1>13, <1>14 DEF ReviewNext

LEMMA RecordsKept == ReviewSpec => [](ReviewInv /\ RecordsInv)
<1>1. ReviewInit => ReviewInv /\ RecordsInv
  BY ReviewInitOK, RecordsInitOK
<1>2. (ReviewInv /\ RecordsInv) /\ [ReviewNext]_reviewVars => (ReviewInv /\ RecordsInv)'
  BY ReviewStepOK, RecordsStepOK
<1> QED
  BY <1>1, <1>2, PTL DEF ReviewSpec

\* No requirement ever stored is lost: every id given so far is that of a live requirement or of an
\* archived one, and of one of them only, through edits, removals and applies that skip, keep and
\* replace.
THEOREM NoneIsLost == ReviewSpec => []NothingIsLost
<1>1. ReviewInv /\ RecordsInv => NothingIsLost
  BY NoneLost DEF ReviewInv, RecordsInv, LiveOK
<1> QED
  BY <1>1, RecordsKept, PTL

\* The state of RevisionReview keeps its types: the ages of cached vectors, the rows and the ids of the
\* live and the archived requirements, at most one open review, and the steps of the comparing job.
THEOREM ReviewTypes == ReviewSpec => []ReviewTypeOK
<1>1. ReviewInv /\ RecordsInv => ReviewTypeOK
  <2> SUFFICES ASSUME ReviewInv, RecordsInv PROVE ReviewTypeOK
    OBVIOUS
  <2>1. nextId \in Nat /\ \A r \in Range(live) \cup archive : r \in LiveRow /\ r.id < nextId
    BY LiveTypes DEF ReviewInv, LiveOK, RecordsInv, Accounted
  <2>2. \A r \in Range(live) \cup archive :
           r.id \in 1..(nextId - 1) /\ [text |-> r.text, req |-> r.req, sec |-> r.sec] \in Rows /\ r.vec \in Keys
    BY <2>1 DEF LiveRow, Rows
  <2>3. Cardinality(rev) <= 1
    <3>1. CASE rev = {}
      BY <3>1, FS_EmptySet
    <3>2. CASE rev # {}
      <4>1. PICK q \in rev : TRUE
        BY <3>2
      <4>2. rev = {q}
        BY DEF ReviewInv
      <4> QED
        BY <4>2, FS_Singleton
    <3> QED
      BY <3>1, <3>2
  <2>4. run.pc \in {"idle", "queued", "bump", "embed", "ready", "stage"}
    BY DEF ReviewInv, RunTypes
  <2> QED
    BY <2>2, <2>3, <2>4 DEF RecordsInv, ReviewTypeOK
<1> QED
  BY <1>1, RecordsKept, PTL

-----------------------------------------------------------------------------
(* Kept requirements.                                                     *)

\* A live requirement that the revision dropped and the user keeps stays behind every requirement that
\* came before it and stays too: apply_revision puts it back after the last of those, whatever order
\* the revision gives them.
THEOREM KeptStayPut == ReviewSpec => KeptStayInOrder
<1> DEFINE A == Applied =>
                  \A i, j \in DOMAIN live :
                     i < j /\ (\E r \in rev : \E it \in r.items : it.change = "removed" /\ it.id = live[j].id)
                       /\ {live[i].id, live[j].id} \subseteq IdsIn(live')
                     => SelectInSeq(live', LAMBDA n : n.id = live[i].id) < SelectInSeq(live', LAMBDA n : n.id = live[j].id)
<1>1. ReviewInv /\ [ReviewNext]_reviewVars => [A]_reviewVars
  <2> SUFFICES ASSUME ReviewInv, ReviewNext, Applied, NEW i \in DOMAIN live, NEW j \in DOMAIN live, i < j,
                      NEW r \in rev, NEW it \in r.items, it.change = "removed", it.id = live[j].id,
                      {live[i].id, live[j].id} \subseteq IdsIn(live')
               PROVE  FirstWithId(live', live[i].id) < FirstWithId(live', live[j].id)
    BY DEF FirstWithId
  <2>1. LiveOK /\ FoundByItsText /\ OpenReview(r)
    BY DEF ReviewInv
  <2>2. PICK skip, keep : /\ keep \subseteq Changed(r.items, "removed") /\ ~IsStale(r.items, live) /\ VectorsThere(r, skip)
                          /\ live' = Numbered(Applies(r, skip, keep))
    <3>1. PICK q \in rev : \E skip, keep :
              /\ keep \subseteq Changed(q.items, "removed") /\ ~IsStale(q.items, live) /\ VectorsThere(q, skip)
              /\ live' = Numbered(Applies(q, skip, keep))
      BY OnlyApplyApplies
    <3>2. q = r
      BY DEF ReviewInv
    <3> QED
      BY <3>1, <3>2
  <2> DEFINE w == Applies(r, skip, keep)
  <2>3. /\ GoodTargets(w)
        /\ \A k \in DOMAIN w : (w[k].id = 0 \/ w[k].id \in IdsIn(live)) /\ w[k].id < nextId
        /\ live[j].id \in IdsIn(w) => IdBefore(w, live[i].id, live[j].id)
    BY <2>1, <2>2, AppliedRows
  <2>4. live' = Numbered(w)
    BY <2>2
  <2> HIDE DEF w
  <2>5. /\ live' \in LiveRows /\ DOMAIN live' = DOMAIN w
        /\ \A k \in DOMAIN w : w[k].id # 0 => live'[k] = w[k]
        /\ \A k \in DOMAIN w : w[k].id = 0 => ~(live'[k].id < nextId)
    BY <2>1, <2>3, <2>4, NumberedOK
  <2>6. /\ live[i].id # 0 /\ live[i].id < nextId
        /\ live[j].id # 0 /\ live[j].id < nextId
    BY <2>1, LiveRowTypes DEF LiveOK
  <2>7. PICK k \in DOMAIN w : live'[k].id = live[i].id
    BY <2>5 DEF IdsIn, Range
  <2>8. PICK l \in DOMAIN w : live'[l].id = live[j].id
    BY <2>5 DEF IdsIn, Range
  <2>9. w[k].id = live[i].id /\ w[l].id = live[j].id
    BY <2>5, <2>6, <2>7, <2>8
  <2>10. k < l
    BY <2>3, <2>9 DEF IdBefore, IdsIn, Range
  <2>11. live' \in Seq(LiveRow) /\ \A m, n \in DOMAIN live' : live'[m].id = live'[n].id => m = n
    BY <2>5 DEF LiveRows, IdsApart
  <2>12. FirstWithId(live', live[i].id) = k
    BY <2>5, <2>7, <2>11, SelectsOnly
  <2>13. FirstWithId(live', live[j].id) = l
    BY <2>5, <2>8, <2>11, SelectsOnly
  <2> QED
    BY <2>10, <2>12, <2>13
<1> HIDE DEF A
<1>2. ReviewSpec => [][A]_reviewVars
  BY <1>1, ReviewInvariance, PTL DEF ReviewSpec
<1> QED
  BY <1>2, PTL DEF KeptStayInOrder, A
=============================================================================
