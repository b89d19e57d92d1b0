--------------------------- MODULE ObserveRunProofs ---------------------------
(***************************************************************************)
(* What ObserveRun.tla promises, for every set of observations, budget,    *)
(* window and bound.                                                       *)
(*                                                                         *)
(* The turn is a function from worker to worker; the first half is about   *)
(* it: lemmas on the sequences a turn edits, then on the worker records.   *)
(* The second half is the inductive invariant and the theorems.            *)
(***************************************************************************)
EXTENDS ObserveRun, FiniteSetTheorems, WellFoundedInduction, TLAPS

-----------------------------------------------------------------------------
(* The sequences: what was appended, what is still to read, what was       *)
(* delivered.                                                              *)

Kinds == Markers \cup {"video"}

Within(s, n) == \A i \in 1..Len(s) : s[i] \in 1..n
Increasing(s) == \A i, j \in 1..Len(s) : i < j => s[i] < s[j]
Before(s, q) == \A i \in 1..Len(s), j \in 1..Len(q) : s[i] < q[j]

\* Delivered and waiting items are in the order they were appended.
Ordered(n, items, delivered) ==
    /\ Within(items, n) /\ Within(delivered, n)
    /\ Increasing(items) /\ Increasing(delivered)
    /\ Before(delivered, items)

\* No marker is lost.
Kept(track, items, delivered) ==
    \A n \in 1..Len(track) : track[n] \in Markers =>
        \/ \E j \in 1..Len(items) : items[j] = n
        \/ \E j \in 1..Len(delivered) : delivered[j] = n

EndLast(track, ended) ==
    \A n \in 1..Len(track) : track[n] = "eos" <=> n = Len(track) /\ ended

Bracketed(track) ==
    /\ \A i \in 1..Len(track) :
          track[i] = "pauseStart" /\ i < Len(track) => track[i + 1] \in {"pauseEnd", "eos"}
    /\ \A i \in 1..Len(track) :
          track[i] = "pauseEnd" => i > 1 /\ track[i - 1] = "pauseStart"

\* The track ends inside a pause.
Open(track) == Len(track) > 0 /\ track[Len(track)] = "pauseStart"

LEMMA AppendIs ==
  ASSUME NEW S, NEW s \in Seq(S), NEW x \in S
  PROVE  /\ Append(s, x) \in Seq(S)
         /\ Len(Append(s, x)) = Len(s) + 1
         /\ \A i \in 1..Len(s) : Append(s, x)[i] = s[i]
         /\ Append(s, x)[Len(s) + 1] = x
OBVIOUS

LEMMA TailIs ==
  ASSUME NEW S, NEW s \in Seq(S), s # << >>
  PROVE  /\ Tail(s) \in Seq(S)
         /\ Head(s) = s[1] /\ Head(s) \in S
         /\ Len(s) \in Nat \ {0}
         /\ Len(Tail(s)) = Len(s) - 1
         /\ \A i \in 1..Len(s) - 1 : Tail(s)[i] = s[i + 1]
OBVIOUS

\* A sequence edited into q: its elements are elements of s, in their order.
LEMMA Thinned ==
  ASSUME NEW s \in Seq(Nat), NEW q \in Seq(Nat), NEW d \in Seq(Nat), NEW n \in Nat,
         \A i \in 1..Len(q) : \E k \in 1..Len(s) : q[i] = s[k],
         \A i, j \in 1..Len(q) : i < j => \E k, l \in 1..Len(s) : k < l /\ q[i] = s[k] /\ q[j] = s[l],
         Ordered(n, s, d)
  PROVE  Ordered(n, q, d)
<1>1. Within(q, n)
  BY DEF Ordered, Within
<1>2. Increasing(q)
  BY DEF Ordered, Increasing
<1>3. Before(d, q)
  BY DEF Ordered, Before
<1> QED BY <1>1, <1>2, <1>3 DEF Ordered

LEMMA TailOrdered ==
  ASSUME NEW s \in Seq(Nat), NEW d \in Seq(Nat), NEW n \in Nat, s # << >>, Ordered(n, s, d)
  PROVE  Ordered(n, Tail(s), d)
<1> DEFINE q == Tail(s)
<1>1. /\ q \in Seq(Nat) /\ Len(s) \in Nat \ {0} /\ Len(q) = Len(s) - 1
      /\ \A i \in 1..Len(s) - 1 : q[i] = s[i + 1]
  BY TailIs
<1> HIDE DEF q
<1>2. ASSUME NEW i \in 1..Len(q)
      PROVE  i + 1 \in 1..Len(s) /\ q[i] = s[i + 1]
  BY <1>1
<1>3. \A i \in 1..Len(q) : \E k \in 1..Len(s) : q[i] = s[k]
  BY <1>2
<1>4. ASSUME NEW i \in 1..Len(q), NEW j \in 1..Len(q), i < j
      PROVE  \E k, l \in 1..Len(s) : k < l /\ q[i] = s[k] /\ q[j] = s[l]
  <2>1. i + 1 < j + 1
    BY <1>4
  <2> QED BY <1>2, <2>1
<1> QED BY <1>1, <1>3, <1>4, Thinned DEF q

LEMMA DropIs ==
  ASSUME NEW s \in Seq(Nat), NEW i \in 1..Len(s)
  PROVE  /\ WithoutItem(s, i) \in Seq(Nat)
         /\ Len(WithoutItem(s, i)) = Len(s) - 1
         /\ \A j \in 1..Len(s) - 1 :
               WithoutItem(s, i)[j] = IF j < i THEN s[j] ELSE s[j + 1]
BY DEF WithoutItem

LEMMA DropOrdered ==
  ASSUME NEW s \in Seq(Nat), NEW d \in Seq(Nat), NEW n \in Nat, NEW i \in 1..Len(s),
         Ordered(n, s, d)
  PROVE  Ordered(n, WithoutItem(s, i), d)
<1> DEFINE q == WithoutItem(s, i)
           at(j) == IF j < i THEN j ELSE j + 1
<1>1. /\ q \in Seq(Nat) /\ Len(q) = Len(s) - 1
      /\ \A j \in 1..Len(s) - 1 : q[j] = IF j < i THEN s[j] ELSE s[j + 1]
  BY DropIs
<1>2. Len(s) \in Nat
  OBVIOUS
<1> HIDE DEF q
<1>3. \A j \in 1..Len(q) : at(j) \in 1..Len(s) /\ q[j] = s[at(j)]
  <2> SUFFICES ASSUME NEW j \in 1..Len(q)
               PROVE  at(j) \in 1..Len(s) /\ q[j] = s[at(j)]
    OBVIOUS
  <2>1. j \in 1..Len(s) - 1
    BY <1>1
  <2>2. CASE j < i
    <3>1. at(j) = j
      BY <2>2
    <3>2. q[j] = s[j]
      BY <1>1, <2>1, <2>2
    <3>3. j \in 1..Len(s)
      BY <1>2, <2>1
    <3> QED BY <3>1, <3>2, <3>3
  <2>3. CASE ~(j < i)
    <3>1. at(j) = j + 1
      BY <2>3
    <3>2. q[j] = s[j + 1]
      BY <1>1, <2>1, <2>3
    <3>3. j + 1 \in 1..Len(s)
      BY <1>2, <2>1
    <3> QED BY <3>1, <3>2, <3>3
  <2> QED BY <2>2, <2>3
<1>4. \A j, k \in 1..Len(q) : j < k => at(j) < at(k)
  BY <1>1, <1>2, SMTT(40)
<1> HIDE DEF at
<1>5. \A j \in 1..Len(q) : \E k \in 1..Len(s) : q[j] = s[k]
  BY <1>3
<1>6. ASSUME NEW j \in 1..Len(q), NEW k \in 1..Len(q), j < k
      PROVE  \E m, l \in 1..Len(s) : m < l /\ q[j] = s[m] /\ q[k] = s[l]
  BY <1>3, <1>4, <1>6
<1> QED BY <1>1, <1>5, <1>6, Thinned DEF q

LEMMA AppendOrdered ==
  ASSUME NEW s \in Seq(Nat), NEW d \in Seq(Nat), NEW n \in Nat, Ordered(n, s, d)
  PROVE  Ordered(n + 1, Append(s, n + 1), d)
<1> DEFINE q == Append(s, n + 1)
<1>1. /\ q \in Seq(Nat) /\ Len(s) \in Nat /\ Len(q) = Len(s) + 1
      /\ \A i \in 1..Len(s) : q[i] = s[i]
      /\ q[Len(s) + 1] = n + 1
  BY AppendIs
<1> HIDE DEF q
<1>2. /\ \A i \in 1..Len(s) : s[i] \in 1..n
      /\ \A i \in 1..Len(d) : d[i] \in 1..n
      /\ Increasing(s) /\ Increasing(d) /\ Before(d, s)
  BY DEF Ordered, Within
<1>3. \A i \in 1..Len(q) : i \in 1..Len(s) \/ i = Len(s) + 1
  <2>1. Len(s) \in Nat /\ Len(q) = Len(s) + 1
    BY <1>1
  <2> QED BY ONLY <2>1
<1>4. ASSUME NEW i \in 1..Len(q)
      PROVE  q[i] \in 1..n + 1
  <2>1. CASE i \in 1..Len(s)
    <3>1. q[i] = s[i] /\ s[i] \in 1..n
      BY <1>1, <1>2, <2>1
    <3> QED BY <3>1
  <2>2. CASE i = Len(s) + 1
    <3>1. q[i] = n + 1
      BY <1>1, <2>2
    <3> QED BY <3>1
  <2> QED BY <1>3, <2>1, <2>2
<1>5. Within(d, n + 1)
  BY <1>2 DEF Within
<1>6. ASSUME NEW i \in 1..Len(q), NEW j \in 1..Len(q), i < j
      PROVE  q[i] < q[j]
  <2>1. i \in 1..Len(s)
    BY <1>1, <1>6
  <2>2. CASE j \in 1..Len(s)
    BY <1>1, <1>2, <1>6, <2>1, <2>2 DEF Increasing
  <2>3. CASE j = Len(s) + 1
    <3>1. q[j] = n + 1
      BY <1>1, <2>3
    <3>2. q[i] = s[i] /\ s[i] \in 1..n
      BY <1>1, <1>2, <2>1
    <3> QED BY <3>1, <3>2
  <2> QED BY <1>3, <2>2, <2>3
<1>7. ASSUME NEW i \in 1..Len(d), NEW j \in 1..Len(q)
      PROVE  d[i] < q[j]
  <2>1. CASE j \in 1..Len(s)
    BY <1>1, <1>2, <2>1 DEF Before
  <2>2. CASE j = Len(s) + 1
    BY <1>1, <1>2, <2>2
  <2> QED BY <1>3, <2>1, <2>2
<1> QED BY <1>2, <1>4, <1>5, <1>6, <1>7 DEF Ordered, Within, Increasing, Before, q

LEMMA PumpOrdered ==
  ASSUME NEW s \in Seq(Nat), NEW d \in Seq(Nat), NEW n \in Nat, s # << >>, Ordered(n, s, d)
  PROVE  Ordered(n, Tail(s), Append(d, Head(s)))
<1> DEFINE q == Tail(s)
           e == Append(d, Head(s))
<1>1. /\ Len(s) \in Nat \ {0} /\ Len(q) = Len(s) - 1
      /\ \A i \in 1..Len(s) - 1 : q[i] = s[i + 1]
  BY TailIs
<1>2. /\ Head(s) \in Nat /\ Head(s) = s[1]
      /\ Len(d) \in Nat /\ Len(e) = Len(d) + 1
      /\ \A i \in 1..Len(d) : e[i] = d[i]
      /\ e[Len(d) + 1] = s[1]
  BY TailIs, AppendIs
<1>3. Ordered(n, q, d)
  BY TailOrdered
<1>4. /\ \A i \in 1..Len(s) : s[i] \in Nat
      /\ \A i \in 1..Len(d) : d[i] \in Nat
  OBVIOUS
<1> HIDE DEF q, e
<1>5. /\ \A i \in 1..Len(s) : s[i] \in 1..n
      /\ \A i \in 1..Len(d) : d[i] \in 1..n
      /\ Increasing(s) /\ Increasing(d) /\ Before(d, s)
  BY DEF Ordered, Within
<1>6. \A i \in 1..Len(e) : i \in 1..Len(d) \/ i = Len(d) + 1
  <2>1. Len(d) \in Nat /\ Len(e) = Len(d) + 1
    BY <1>2
  <2> QED BY ONLY <2>1
<1>7. 1 \in 1..Len(s)
  BY <1>1
<1>8. Within(e, n)
  BY <1>2, <1>5, <1>6, <1>7 DEF Within
<1>9. ASSUME NEW i \in 1..Len(e), NEW j \in 1..Len(e), i < j
      PROVE  e[i] < e[j]
  <2>1. i \in 1..Len(d)
    BY <1>2, <1>9
  <2>2. CASE j \in 1..Len(d)
    BY <1>2, <1>5, <1>9, <2>1, <2>2 DEF Increasing
  <2>3. CASE j = Len(d) + 1
    BY <1>2, <1>5, <1>7, <2>1, <2>3 DEF Before
  <2> QED BY <1>6, <2>2, <2>3
<1>10. ASSUME NEW i \in 1..Len(e), NEW j \in 1..Len(q)
       PROVE  e[i] < q[j]
  <2>1. j + 1 \in 1..Len(s) /\ q[j] = s[j + 1] /\ 1 < j + 1
    BY <1>1
  <2>2. CASE i \in 1..Len(d)
    BY <1>2, <1>5, <2>1, <2>2 DEF Before
  <2>3. CASE i = Len(d) + 1
    BY <1>2, <1>5, <1>7, <2>1, <2>3 DEF Increasing
  <2> QED BY <1>6, <2>2, <2>3
<1> QED BY <1>3, <1>8, <1>9, <1>10 DEF Ordered, Increasing, Before, q, e

LEMMA AppendKept ==
  ASSUME NEW track \in Seq(Kinds), NEW items \in Seq(Nat), NEW delivered \in Seq(Nat),
         NEW kind \in Kinds, Kept(track, items, delivered)
  PROVE  Kept(Append(track, kind), Append(items, Len(track) + 1), delivered)
<1> DEFINE t == Append(track, kind)
           q == Append(items, Len(track) + 1)
<1>1. Len(track) \in Nat /\ Len(items) \in Nat
  OBVIOUS
<1>2. Len(t) = Len(track) + 1 /\ \A i \in 1..Len(track) : t[i] = track[i]
  BY AppendIs
<1>3. /\ Len(q) = Len(items) + 1
      /\ \A i \in 1..Len(items) : q[i] = items[i]
      /\ q[Len(items) + 1] = Len(track) + 1
  BY <1>1, AppendIs
<1> HIDE DEF t, q
<1>4. ASSUME NEW n \in 1..Len(t), t[n] \in Markers
      PROVE  (\E j \in 1..Len(q) : q[j] = n) \/ (\E j \in 1..Len(delivered) : delivered[j] = n)
  <2>1. CASE n = Len(track) + 1
    <3>1. Len(items) + 1 \in 1..Len(q)
      BY <1>1, <1>3
    <3> QED BY <1>3, <2>1, <3>1
  <2>2. CASE n \in 1..Len(track)
    <3>1. track[n] \in Markers
      BY <1>2, <1>4, <2>2
    <3>2. \A j \in 1..Len(items) : j \in 1..Len(q)
      BY <1>1, <1>3
    <3> QED BY <1>3, <2>2, <3>1, <3>2 DEF Kept
  <2>3. n \in 1..Len(track) \/ n = Len(track) + 1
    BY <1>1, <1>2
  <2> QED BY <2>1, <2>2, <2>3
<1>5. Kept(t, q, delivered)
  BY <1>4 DEF Kept
<1> QED BY <1>5 DEF t, q

LEMMA PumpKept ==
  ASSUME NEW track \in Seq(Kinds), NEW items \in Seq(Nat), NEW delivered \in Seq(Nat),
         items # << >>, Kept(track, items, delivered)
  PROVE  Kept(track, Tail(items), Append(delivered, Head(items)))
<1> DEFINE q == Tail(items)
           d == Append(delivered, Head(items))
<1>1. /\ Len(items) \in Nat \ {0} /\ Len(q) = Len(items) - 1
      /\ \A i \in 1..Len(items) - 1 : q[i] = items[i + 1]
  BY TailIs
<1>2. /\ Len(delivered) \in Nat /\ Len(d) = Len(delivered) + 1
      /\ \A i \in 1..Len(delivered) : d[i] = delivered[i]
      /\ d[Len(delivered) + 1] = items[1]
  BY TailIs, AppendIs
<1> HIDE DEF q, d
<1>3. ASSUME NEW j \in 1..Len(items)
      PROVE  (\E k \in 1..Len(q) : q[k] = items[j]) \/ (\E k \in 1..Len(d) : d[k] = items[j])
  <2>1. CASE j = 1
    <3>1. Len(delivered) + 1 \in 1..Len(d)
      BY <1>2
    <3> QED BY <1>2, <2>1, <3>1
  <2>2. CASE j # 1
    <3>1. j - 1 \in 1..Len(q) /\ q[j - 1] = items[j]
      BY <1>1, <2>2
    <3> QED BY <3>1
  <2> QED BY <2>1, <2>2
<1>4. ASSUME NEW j \in 1..Len(delivered)
      PROVE  j \in 1..Len(d) /\ d[j] = delivered[j]
  BY <1>2
<1>5. Kept(track, q, d)
  BY <1>3, <1>4, ZenonT(60) DEF Kept
<1> QED BY <1>5 DEF q, d

LEMMA DropKept ==
  ASSUME NEW track \in Seq(Kinds), NEW items \in Seq(Nat), NEW delivered \in Seq(Nat),
         NEW i \in 1..Len(items), Kept(track, items, delivered), track[items[i]] \notin Markers
  PROVE  Kept(track, WithoutItem(items, i), delivered)
<1> DEFINE q == WithoutItem(items, i)
<1>1. /\ Len(q) = Len(items) - 1
      /\ \A j \in 1..Len(items) - 1 : q[j] = IF j < i THEN items[j] ELSE items[j + 1]
  BY DropIs
<1>2. Len(items) \in Nat
  OBVIOUS
<1> HIDE DEF q
<1>3. ASSUME NEW j \in 1..Len(items), j # i
      PROVE  \E k \in 1..Len(q) : q[k] = items[j]
  <2>1. CASE j < i
    <3>1. j \in 1..Len(q) /\ q[j] = items[j]
      BY <1>1, <1>2, <2>1
    <3> QED BY <3>1
  <2>2. CASE j > i
    <3>1. j - 1 \in 1..Len(q) /\ q[j - 1] = items[j]
      BY <1>1, <1>2, <2>2
    <3> QED BY <3>1
  <2> QED BY <1>2, <1>3, <2>1, <2>2
<1>4. Kept(track, q, delivered)
  BY <1>3, ZenonT(60) DEF Kept
<1> QED BY <1>4 DEF q

LEMMA AppendBracketed ==
  ASSUME NEW track \in Seq(Kinds), NEW kind \in Kinds, Bracketed(track),
         Open(track) => kind \in {"pauseEnd", "eos"},
         kind = "pauseEnd" => Open(track)
  PROVE  /\ Bracketed(Append(track, kind))
         /\ Open(Append(track, kind)) <=> kind = "pauseStart"
<1> DEFINE t == Append(track, kind)
<1>1. /\ Len(track) \in Nat
      /\ Len(t) = Len(track) + 1 /\ \A i \in 1..Len(track) : t[i] = track[i]
      /\ t[Len(track) + 1] = kind
  BY AppendIs
<1> HIDE DEF t
<1>2. ASSUME NEW i \in 1..Len(t), t[i] = "pauseStart", i < Len(t)
      PROVE  t[i + 1] \in {"pauseEnd", "eos"}
  <2>1. i \in 1..Len(track) /\ track[i] = "pauseStart"
    BY <1>1, <1>2
  <2>2. CASE i = Len(track)
    BY <1>1, <2>1, <2>2 DEF Open
  <2>3. CASE i < Len(track)
    <3>1. i + 1 \in 1..Len(track) /\ track[i + 1] \in {"pauseEnd", "eos"}
      BY <1>1, <2>1, <2>3 DEF Bracketed
    <3> QED BY <1>1, <3>1
  <2> QED BY <1>1, <2>1, <2>2, <2>3
<1>3. ASSUME NEW i \in 1..Len(t), t[i] = "pauseEnd"
      PROVE  i > 1 /\ t[i - 1] = "pauseStart"
  <2>1. CASE i = Len(track) + 1
    <3>1. Open(track)
      BY <1>1, <1>3, <2>1
    <3> QED BY <1>1, <2>1, <3>1 DEF Open
  <2>2. CASE i \in 1..Len(track)
    <3>1. track[i] = "pauseEnd"
      BY <1>1, <1>3, <2>2
    <3>2. i > 1 /\ track[i - 1] = "pauseStart"
      BY <2>2, <3>1 DEF Bracketed
    <3> QED BY <1>1, <2>2, <3>2
  <2> QED BY <1>1, <2>1, <2>2
<1>4. Bracketed(t)
  BY <1>2, <1>3 DEF Bracketed
<1>5. Open(t) <=> kind = "pauseStart"
  BY <1>1 DEF Open
<1> QED BY <1>4, <1>5 DEF t

LEMMA AppendEndLast ==
  ASSUME NEW track \in Seq(Kinds), NEW kind \in Kinds, EndLast(track, FALSE)
  PROVE  EndLast(Append(track, kind), kind = "eos")
<1> DEFINE t == Append(track, kind)
<1>1. /\ Len(track) \in Nat
      /\ Len(t) = Len(track) + 1 /\ \A i \in 1..Len(track) : t[i] = track[i]
      /\ t[Len(track) + 1] = kind
  BY AppendIs
<1> HIDE DEF t
<1>2. EndLast(t, kind = "eos")
  BY <1>1 DEF EndLast
<1> QED BY <1>2 DEF t

-----------------------------------------------------------------------------
(* The worker records.  A field-wise view of Workers, and what the turn    *)
(* functions keep of them.                                                 *)

Fields == {"pc", "lifecycle", "view", "idle", "worked", "pending", "waiter", "track", "items",
           "delivered", "ended", "drained", "count", "finalized", "cycle", "stalledIn"}

IsRecord(w) == DOMAIN w = Fields /\ w = [f \in Fields |-> w[f]]

TypedControl(w) ==
    /\ w.pc \in Places /\ w.lifecycle \in Lifecycles /\ w.view \in Views
    /\ w.idle \in 0..MaxIdle /\ w.worked \in BOOLEAN /\ w.pending \in Nat
    /\ w.waiter \in BOOLEAN /\ w.stalledIn \in Lifecycles \cup {"none"}

TypedFlow(w) ==
    /\ w.track \in Seq(Kinds) /\ w.items \in Seq(Nat) /\ w.delivered \in Seq(Nat)
    /\ w.ended \in BOOLEAN /\ w.drained \in BOOLEAN /\ w.count \in Nat
    /\ w.finalized \in BOOLEAN /\ w.cycle \in BOOLEAN

LEMMA WorkersByField ==
  \A w : w \in Workers <=> IsRecord(w) /\ TypedControl(w) /\ TypedFlow(w)
<1> SUFFICES ASSUME NEW w
             PROVE  w \in Workers <=> IsRecord(w) /\ TypedControl(w) /\ TypedFlow(w)
  OBVIOUS
<1>1. w \in Workers => IsRecord(w)
  BY DEF Workers, IsRecord, Fields
<1>2. w \in Workers => TypedControl(w) /\ TypedFlow(w)
  BY DEF Workers, TypedControl, TypedFlow, Kinds
<1>3. IsRecord(w) /\ TypedControl(w) /\ TypedFlow(w) => w \in Workers
  BY DEF Workers, IsRecord, Fields, TypedControl, TypedFlow, Kinds
<1> QED BY <1>1, <1>2, <1>3

\* What the sink was handed and is still owed.
Flow(w) ==
    /\ Ordered(Len(w.track), w.items, w.delivered)
    /\ Kept(w.track, w.items, w.delivered)
    /\ EndLast(w.track, w.ended)
    /\ Bracketed(w.track)
    /\ w.drained => w.ended /\ \E j \in 1..Len(w.delivered) : w.delivered[j] = Len(w.track)
    /\ w.finalized => w.drained

Core(w) == IsRecord(w) /\ TypedFlow(w) /\ Flow(w)

\* How a worker's lifecycle and its track go together.
Phase(w) ==
    /\ w.ended => w.lifecycle \notin {"running", "paused"}
    /\ w.lifecycle = "draining" => w.ended
    /\ ~w.ended => (w.cycle <=> Open(w.track))
    /\ w.lifecycle = "running" => ~w.cycle
    /\ w.lifecycle = "paused" => w.cycle

\* No turn function touches these.
SameControl(w, t) ==
    /\ t.pc = w.pc /\ t.view = w.view /\ t.idle = w.idle
    /\ t.pending = w.pending /\ t.waiter = w.waiter /\ t.stalledIn = w.stalledIn

SameTrack(w, t) == t.track = w.track /\ t.ended = w.ended /\ t.cycle = w.cycle

SameSink(w, t) ==
    /\ t.delivered = w.delivered /\ t.drained = w.drained
    /\ t.count = w.count /\ t.finalized = w.finalized

LEMMA AppendedIs ==
  ASSUME NEW w, IsRecord(w), NEW kind
  PROVE  LET t == Appended(w, kind)
         IN  /\ IsRecord(t) /\ SameControl(w, t) /\ SameSink(w, t)
             /\ t.track = Append(w.track, kind) /\ t.items = Append(w.items, Len(w.track) + 1)
             /\ t.worked = TRUE
             /\ t.ended = w.ended /\ t.cycle = w.cycle /\ t.lifecycle = w.lifecycle
BY DEF Appended, IsRecord, Fields, SameControl, SameSink

EndAppended(w, worked) == [Appended(w, "eos") EXCEPT !.ended = TRUE, !.worked = worked]

LEMMA EndAppendedIs ==
  ASSUME NEW w, IsRecord(w), NEW worked
  PROVE  LET t == EndAppended(w, worked)
         IN  /\ IsRecord(t) /\ SameControl(w, t) /\ SameSink(w, t)
             /\ t.track = Append(w.track, "eos") /\ t.items = Append(w.items, Len(w.track) + 1)
             /\ t.worked = worked
             /\ t.ended = TRUE /\ t.cycle = w.cycle /\ t.lifecycle = w.lifecycle
BY DEF EndAppended, Appended, IsRecord, Fields, SameControl, SameSink

\* What may be appended to a track that has not ended.
Fits(track, kind) ==
    /\ kind # "eos"
    /\ Open(track) <=> kind = "pauseEnd"

LEMMA AppendedCore ==
  ASSUME NEW w, Core(w), NEW kind \in Kinds, ~w.ended, Fits(w.track, kind)
  PROVE  /\ Core(Appended(w, kind))
         /\ Open(Appended(w, kind).track) <=> kind = "pauseStart"
<1> DEFINE t == Appended(w, kind)
<1>1. /\ IsRecord(t) /\ SameSink(w, t)
      /\ t.track = Append(w.track, kind) /\ t.items = Append(w.items, Len(w.track) + 1)
      /\ t.ended = w.ended /\ t.cycle = w.cycle
  <2>1. IsRecord(w)
    BY DEF Core
  <2>2. IsRecord(t)
    BY <2>1, AppendedIs
  <2>3. SameSink(w, t)
    BY <2>1, AppendedIs
  <2>4. t.track = Append(w.track, kind) /\ t.items = Append(w.items, Len(w.track) + 1)
    BY <2>1 DEF Appended, IsRecord, Fields
  <2>5. t.ended = w.ended /\ t.cycle = w.cycle
    BY <2>1, AppendedIs
  <2> QED BY <2>2, <2>3, <2>4, <2>5
<1> HIDE DEF t
<1>2. /\ w.track \in Seq(Kinds) /\ w.items \in Seq(Nat) /\ w.delivered \in Seq(Nat)
      /\ w.ended = FALSE /\ Len(w.track) \in Nat
  BY DEF Core, TypedFlow
<1>3. TypedFlow(t)
  <2>1. t.track \in Seq(Kinds) /\ t.items \in Seq(Nat)
    BY <1>1, <1>2, AppendIs
  <2> QED BY <1>1, <2>1 DEF Core, TypedFlow, SameSink
<1>4. Len(t.track) = Len(w.track) + 1
  BY <1>1, <1>2, AppendIs
<1>5. Ordered(Len(t.track), t.items, t.delivered)
  BY <1>1, <1>2, <1>4, AppendOrdered DEF Core, Flow, SameSink
<1>6. Kept(t.track, t.items, t.delivered)
  BY <1>1, <1>2, AppendKept DEF Core, Flow, SameSink
<1>7. EndLast(t.track, t.ended)
  <2>1. EndLast(w.track, FALSE)
    BY <1>2 DEF Core, Flow
  <2>2. EndLast(t.track, kind = "eos")
    BY <1>1, <1>2, <2>1, AppendEndLast
  <2> QED BY <1>1, <1>2, <2>2 DEF EndLast, Fits
<1>8. Bracketed(t.track) /\ (Open(t.track) <=> kind = "pauseStart")
  BY <1>1, <1>2, AppendBracketed DEF Core, Flow, Fits
<1>9. ~w.drained /\ ~w.finalized
  BY <1>2 DEF Core, Flow
<1>10. Core(t)
  BY <1>1, <1>3, <1>5, <1>6, <1>7, <1>8, <1>9 DEF Core, Flow, SameSink
<1> QED BY <1>8, <1>10 DEF t

LEMMA EndAppendedCore ==
  ASSUME NEW w, Core(w), NEW worked \in BOOLEAN, ~w.ended
  PROVE  Core(EndAppended(w, worked))
<1> DEFINE t == EndAppended(w, worked)
<1>1. /\ IsRecord(t) /\ SameSink(w, t)
      /\ t.track = Append(w.track, "eos") /\ t.items = Append(w.items, Len(w.track) + 1)
      /\ t.ended = TRUE /\ t.cycle = w.cycle
  BY EndAppendedIs, ZenonT(60) DEF Core
<1> HIDE DEF t
<1>2. /\ w.track \in Seq(Kinds) /\ w.items \in Seq(Nat) /\ w.delivered \in Seq(Nat)
      /\ w.ended = FALSE /\ Len(w.track) \in Nat /\ "eos" \in Kinds
  BY DEF Core, TypedFlow, Kinds, Markers
<1>3. TypedFlow(t)
  <2>1. Len(w.track) + 1 \in Nat
    BY <1>2
  <2>2. t.track \in Seq(Kinds)
    BY <1>1, <1>2, AppendIs
  <2>3. t.items \in Seq(Nat)
    BY <1>1, <1>2, <2>1, AppendIs
  <2> QED BY <1>1, <2>2, <2>3 DEF Core, TypedFlow, SameSink
<1>4. Len(t.track) = Len(w.track) + 1
  BY <1>1, <1>2, AppendIs
<1>5. Ordered(Len(t.track), t.items, t.delivered)
  BY <1>1, <1>2, <1>4, AppendOrdered DEF Core, Flow, SameSink
<1>6. Kept(t.track, t.items, t.delivered)
  BY <1>1, <1>2, AppendKept DEF Core, Flow, SameSink
<1>7. EndLast(t.track, t.ended)
  <2>1. EndLast(w.track, FALSE)
    BY <1>2 DEF Core, Flow
  <2>2. EndLast(t.track, "eos" = "eos")
    BY <1>1, <1>2, <2>1, AppendEndLast
  <2> QED BY <1>1, <2>2 DEF EndLast
<1>8. Bracketed(t.track)
  BY <1>1, <1>2, AppendBracketed DEF Core, Flow
<1>9. ~w.drained /\ ~w.finalized
  BY <1>2 DEF Core, Flow
<1>10. Core(t)
  BY <1>1, <1>3, <1>5, <1>6, <1>7, <1>8, <1>9 DEF Core, Flow, SameSink
<1> QED BY <1>10 DEF t

LEMMA OldestIsVideo ==
  ASSUME NEW w, Videos(w) # {}
  PROVE  Oldest(w) \in Videos(w)
<1>1. Videos(w) \subseteq Nat
  BY DEF Videos
<1>2. PICK i \in Videos(w) : \A j \in Videos(w) : ~(<<j, i>> \in OpToRel(<, Nat))
  BY <1>1, NatLessThanWellFounded, WFMin
<1>3. ASSUME NEW j \in Videos(w), j < i
      PROVE  FALSE
  <2>1. <<j, i>> \in Nat \X Nat
    BY <1>1
  <2>2. <<j, i>>[1] < <<j, i>>[2]
    BY <1>3
  <2>3. <<j, i>> \in {p \in Nat \X Nat : p[1] < p[2]}
    BY <2>1, <2>2
  <2> QED BY <1>2, <2>3 DEF OpToRel
<1>4. \A j \in Videos(w) : i <= j
  BY <1>1, <1>3
<1> QED BY <1>2, <1>4 DEF Oldest

\* t follows from w within a turn.
Follows(w, t) ==
    /\ Core(t) /\ SameControl(w, t)
    /\ t.worked \in BOOLEAN /\ (w.worked => t.worked)

SameRun(w, t) == SameTrack(w, t) /\ t.lifecycle = w.lifecycle

\* The window only drops video frames.
LEMMA WindowedCore ==
  ASSUME NEW w, Core(w), w.worked \in BOOLEAN
  PROVE  Follows(w, Windowed(w)) /\ SameRun(w, Windowed(w))
<1>1. CASE Cardinality(Videos(w)) <= Window
  BY <1>1 DEF Windowed, Follows, SameRun, SameControl, SameTrack
<1>2. CASE ~(Cardinality(Videos(w)) <= Window)
  <2> DEFINE i == Oldest(w)
             t == [w EXCEPT !.items = WithoutItem(@, i)]
  <2>1. Videos(w) # {}
    <3>1. Window \in Nat /\ Cardinality({}) = 0
      BY ObserveAssumption, FS_EmptySet
    <3>2. 0 <= Window
      BY <3>1
    <3> QED BY <1>2, <3>1, <3>2
  <2>2. i \in Videos(w)
    BY <2>1, OldestIsVideo
  <2>3. IsRecord(w) /\ TypedFlow(w) /\ Flow(w)
    BY DEF Core
  <2>4. i \in 1..Len(w.items) /\ w.track[w.items[i]] \notin Markers
    BY <2>2 DEF Videos, Kind, Markers
  <2>5. /\ IsRecord(t) /\ SameControl(w, t) /\ SameRun(w, t) /\ SameSink(w, t)
        /\ t.worked = w.worked /\ t.items = WithoutItem(w.items, i)
    BY <2>3 DEF IsRecord, Fields, SameControl, SameRun, SameTrack, SameSink
  <2>6. t = Windowed(w)
    BY <1>2 DEF Windowed
  <2> HIDE DEF i, t
  <2>7. w.items \in Seq(Nat) /\ w.delivered \in Seq(Nat) /\ w.track \in Seq(Kinds)
        /\ Len(w.track) \in Nat
    BY <2>3 DEF TypedFlow
  <2>8. t.items \in Seq(Nat)
    BY <2>4, <2>5, <2>7, DropIs
  <2>9. TypedFlow(t)
    BY <2>3, <2>5, <2>8 DEF TypedFlow, SameRun, SameTrack, SameSink
  <2>10. Ordered(Len(w.track), WithoutItem(w.items, i), w.delivered)
    BY <2>3, <2>4, <2>7, DropOrdered DEF Flow
  <2>11. Kept(w.track, WithoutItem(w.items, i), w.delivered)
    BY <2>3, <2>4, <2>7, DropKept DEF Flow
  <2>12. Flow(t)
    BY <2>3, <2>5, <2>10, <2>11 DEF Flow, SameRun, SameTrack, SameSink
  <2> QED BY <2>5, <2>6, <2>9, <2>12 DEF Follows, Core
<1> QED BY <1>1, <1>2

\* What pumping an item does to the record.
LEMMA PumpedIs ==
  ASSUME NEW w, IsRecord(w), ~w.finalized, w.items # << >>
  PROVE  LET t == Pumped(w)
             i == Head(w.items)
         IN  /\ IsRecord(t) /\ SameControl(w, t) /\ SameRun(w, t)
             /\ t.items = Tail(w.items) /\ t.delivered = Append(w.delivered, i)
             /\ t.drained = (w.drained \/ w.track[i] = "eos")
             /\ t.count = w.count + (IF w.track[i] = "video" THEN 1 ELSE 0)
             /\ t.finalized = w.finalized /\ t.worked = TRUE
<1>1. IsRecord(Pumped(w)) /\ SameControl(w, Pumped(w)) /\ SameRun(w, Pumped(w))
  BY DEF Pumped, IsRecord, Fields, SameControl, SameRun, SameTrack
<1>2. /\ Pumped(w).items = Tail(w.items)
      /\ Pumped(w).delivered = Append(w.delivered, Head(w.items))
      /\ Pumped(w).finalized = w.finalized /\ Pumped(w).worked = TRUE
  BY DEF Pumped, IsRecord, Fields
<1>3. Pumped(w).drained = (w.drained \/ w.track[Head(w.items)] = "eos")
  BY DEF Pumped, Kind, IsRecord, Fields
<1>4. Pumped(w).count = w.count + (IF w.track[Head(w.items)] = "video" THEN 1 ELSE 0)
  BY DEF Pumped, Kind, IsRecord, Fields
<1> QED BY <1>1, <1>2, <1>3, <1>4

LEMMA PumpedCore ==
  ASSUME NEW w, Core(w), w.worked \in BOOLEAN
  PROVE  Follows(w, Pumped(w)) /\ SameRun(w, Pumped(w))
<1>1. CASE w.finalized \/ w.items = << >>
  BY <1>1 DEF Pumped, Follows, SameRun, SameControl, SameTrack
<1>2. CASE ~w.finalized /\ w.items # << >>
  <2> DEFINE t == Pumped(w)
             i == Head(w.items)
  <2>1. IsRecord(w) /\ TypedFlow(w) /\ Flow(w)
    BY DEF Core
  <2>2. /\ IsRecord(t) /\ SameControl(w, t) /\ SameRun(w, t)
        /\ t.items = Tail(w.items) /\ t.delivered = Append(w.delivered, i)
        /\ t.drained = (w.drained \/ w.track[i] = "eos")
        /\ t.count = w.count + (IF w.track[i] = "video" THEN 1 ELSE 0)
        /\ t.finalized = w.finalized /\ t.worked = TRUE
    BY <1>2, <2>1, PumpedIs
  <2>3. /\ w.items \in Seq(Nat) /\ w.delivered \in Seq(Nat) /\ w.track \in Seq(Kinds)
        /\ Len(w.track) \in Nat /\ Len(w.delivered) \in Nat
    BY <2>1 DEF TypedFlow
  <2>4. i = w.items[1] /\ i \in Nat /\ 1 \in 1..Len(w.items)
    BY <1>2, <2>3, TailIs
  <2>5. i \in 1..Len(w.track)
    BY <2>1, <2>4 DEF Flow, Ordered, Within
  <2> HIDE DEF t, i
  <2>6. t.items \in Seq(Nat) /\ t.delivered \in Seq(Nat)
    BY <1>2, <2>2, <2>3, <2>4, TailIs, AppendIs
  <2>7. t.count \in Nat
    <3>1. w.count \in Nat
      BY <2>1 DEF TypedFlow
    <3> QED BY <2>2, <3>1
  <2>8. TypedFlow(t)
    BY <2>1, <2>2, <2>6, <2>7 DEF TypedFlow, SameRun, SameTrack
  <2>9. Ordered(Len(t.track), t.items, t.delivered)
    BY <1>2, <2>1, <2>2, <2>3, PumpOrdered DEF Flow, SameRun, SameTrack, i
  <2>10. Kept(t.track, t.items, t.delivered)
    BY <1>2, <2>1, <2>2, <2>3, PumpKept DEF Flow, SameRun, SameTrack, i
  <2>11. /\ Len(w.delivered) + 1 \in 1..Len(t.delivered)
         /\ t.delivered[Len(w.delivered) + 1] = i
         /\ \A j \in 1..Len(w.delivered) :
               j \in 1..Len(t.delivered) /\ t.delivered[j] = w.delivered[j]
    <3>1. /\ Len(t.delivered) = Len(w.delivered) + 1
          /\ \A j \in 1..Len(w.delivered) : t.delivered[j] = w.delivered[j]
          /\ t.delivered[Len(w.delivered) + 1] = i
      BY <2>2, <2>3, <2>4, AppendIs
    <3> QED BY <2>3, <3>1
  <2>12. t.drained => t.ended /\ \E j \in 1..Len(t.delivered) : t.delivered[j] = Len(t.track)
    <3>1. t.track = w.track /\ t.ended = w.ended
      BY <2>2 DEF SameRun, SameTrack
    <3>2. CASE w.drained
      <4>1. w.ended
        BY <2>1, <3>2 DEF Flow
      <4>2. PICK j \in 1..Len(w.delivered) : w.delivered[j] = Len(w.track)
        BY <2>1, <3>2 DEF Flow
      <4>3. j \in 1..Len(t.delivered) /\ t.delivered[j] = Len(t.track)
        BY <2>11, <3>1, <4>2
      <4> QED BY <3>1, <4>1, <4>3
    <3>3. CASE w.track[i] = "eos"
      <4>1. i = Len(w.track) /\ w.ended
        BY <2>1, <2>5, <3>3 DEF Flow, EndLast
      <4> QED BY <2>11, <3>1, <4>1
    <3> QED BY <2>2, <3>2, <3>3
  <2>13. Flow(t)
    <3>1. EndLast(t.track, t.ended) /\ Bracketed(t.track)
      BY <2>1, <2>2 DEF Flow, SameRun, SameTrack
    <3>2. ~t.finalized
      BY <1>2, <2>2
    <3> QED BY <2>9, <2>10, <2>12, <3>1, <3>2 DEF Flow
  <2> QED BY <2>2, <2>8, <2>13 DEF Follows, Core, t
<1> QED BY <1>1, <1>2

LEMMA FinalizedCore ==
  ASSUME NEW w, Core(w), w.worked \in BOOLEAN
  PROVE  Follows(w, Finalized(w)) /\ SameRun(w, Finalized(w))
<1>1. CASE w.finalized \/ ~w.drained
  BY <1>1 DEF Finalized, Follows, SameRun, SameControl, SameTrack
<1>2. CASE ~w.finalized /\ w.drained
  <2> DEFINE t == Finalized(w)
  <2>1. IsRecord(w) /\ TypedFlow(w) /\ Flow(w)
    BY DEF Core
  <2>2. /\ IsRecord(t) /\ SameControl(w, t) /\ SameRun(w, t)
        /\ t.items = w.items /\ t.delivered = w.delivered /\ t.drained = w.drained
        /\ t.count = w.count /\ t.finalized = TRUE /\ t.worked = TRUE
    BY <1>2, <2>1 DEF Finalized, IsRecord, Fields, SameControl, SameRun, SameTrack
  <2> HIDE DEF t
  <2>3. TypedFlow(t)
    BY <2>1, <2>2 DEF TypedFlow, SameRun, SameTrack
  <2>4. Flow(t)
    BY <1>2, <2>1, <2>2 DEF Flow, SameRun, SameTrack
  <2> QED BY <2>2, <2>3, <2>4 DEF Follows, Core, t
<1> QED BY <1>1, <1>2

LEMMA Relabeled ==
  ASSUME NEW w, Core(w), NEW lifecycle
  PROVE  LET t == [w EXCEPT !.lifecycle = lifecycle]
         IN  /\ Core(t) /\ SameControl(w, t) /\ SameTrack(w, t)
             /\ t.lifecycle = lifecycle /\ t.worked = w.worked
<1> DEFINE t == [w EXCEPT !.lifecycle = lifecycle]
<1>1. IsRecord(w) /\ TypedFlow(w) /\ Flow(w)
  BY DEF Core
<1>2. /\ IsRecord(t) /\ SameControl(w, t) /\ SameTrack(w, t) /\ SameSink(w, t)
      /\ t.lifecycle = lifecycle /\ t.worked = w.worked /\ t.items = w.items
  BY <1>1 DEF IsRecord, Fields, SameControl, SameTrack, SameSink
<1> HIDE DEF t
<1>3. TypedFlow(t)
  BY <1>1, <1>2 DEF TypedFlow, SameTrack, SameSink
<1>4. Flow(t)
  BY <1>1, <1>2 DEF Flow, SameTrack, SameSink
<1> QED BY <1>2, <1>3, <1>4 DEF Core, t

LEMMA Recycled ==
  ASSUME NEW w, Core(w), NEW cycle \in BOOLEAN, NEW lifecycle
  PROVE  LET t == [w EXCEPT !.cycle = cycle, !.lifecycle = lifecycle]
         IN  Core(t) /\ SameControl(w, t)
<1> DEFINE t == [w EXCEPT !.cycle = cycle, !.lifecycle = lifecycle]
<1>1. IsRecord(w) /\ TypedFlow(w) /\ Flow(w)
  BY DEF Core
<1>2. /\ IsRecord(t) /\ SameControl(w, t) /\ SameSink(w, t)
      /\ t.track = w.track /\ t.ended = w.ended /\ t.cycle = cycle /\ t.items = w.items
  BY <1>1 DEF IsRecord, Fields, SameControl, SameSink
<1> HIDE DEF t
<1>3. TypedFlow(t)
  BY <1>1, <1>2 DEF TypedFlow, SameSink
<1>4. Flow(t)
  BY <1>1, <1>2 DEF Flow, SameSink
<1> QED BY <1>2, <1>3, <1>4 DEF Core, t

\* What a turn promises: its order of work keeps the sink owed what it is
\* owed, and it obeys the view it was given.
Obeys(w, t) ==
    /\ Follows(w, t) /\ Phase(t) /\ t.lifecycle \in Lifecycles
    /\ t.lifecycle = "paused" => w.view.pause /\ ~w.view.stop
    /\ t.lifecycle = "running" => t.worked
    /\ t.lifecycle \in {"running", "paused"} => w.lifecycle \in {"running", "paused"}

Ready(w) ==
    /\ Core(w) /\ Phase(w) /\ w.worked \in BOOLEAN
    /\ w.lifecycle \in {"running", "paused", "draining"}

LEMMA StoppingObeys ==
  ASSUME NEW w, Ready(w), w.lifecycle \in {"running", "paused"}
  PROVE  Obeys(w, Pumped([Ended(w) EXCEPT !.lifecycle = "draining"]))
<1> DEFINE e == EndAppended(w, w.worked)
           f == [e EXCEPT !.lifecycle = "draining"]
           t == Pumped(f)
<1>1. Core(w) /\ IsRecord(w) /\ w.worked \in BOOLEAN /\ ~w.ended
  BY DEF Ready, Phase, Core
<1>2. Ended(w) = e
  BY <1>1 DEF Ended, EndAppended
<1>3. Core(e)
  BY <1>1, EndAppendedCore
<1>4. SameControl(w, e) /\ e.worked = w.worked /\ e.ended = TRUE
  <2>1. SameControl(w, e)
    BY <1>1, EndAppendedIs
  <2>2. e.worked = w.worked /\ e.ended = TRUE
    BY <1>1 DEF EndAppended, Appended, IsRecord, Fields
  <2> QED BY <2>1, <2>2
<1> HIDE DEF e
<1>5. /\ Core(f) /\ SameControl(e, f) /\ SameTrack(e, f)
      /\ f.lifecycle = "draining" /\ f.worked = e.worked
  BY <1>3, Relabeled
<1> HIDE DEF f
<1>6. Follows(f, t) /\ SameRun(f, t)
  <2>1. f.worked \in BOOLEAN
    BY <1>1, <1>4, <1>5
  <2> QED BY <1>5, <2>1, PumpedCore
<1> HIDE DEF t
<1>7. Follows(w, t)
  BY <1>4, <1>5, <1>6 DEF Follows, SameControl
<1>8. t.lifecycle = "draining" /\ t.ended = TRUE
  BY <1>4, <1>5, <1>6 DEF SameRun, SameTrack
<1>9. Obeys(w, t)
  BY <1>7, <1>8 DEF Obeys, Phase, Lifecycles
<1> QED BY <1>2, <1>9 DEF t, f

LEMMA DrainingObeys ==
  ASSUME NEW o, NEW w, Ready(w), w.lifecycle = "draining"
  PROVE  Obeys(w, Drained(o, w))
<1> DEFINE q == Pumped(w)
           d == Finalized(q)
           t == Drained(o, w)
<1>1. Core(w) /\ w.worked \in BOOLEAN /\ w.ended
  BY DEF Ready, Phase
<1>2. Follows(w, q) /\ SameRun(w, q)
  BY <1>1, PumpedCore
<1>3. Follows(q, d) /\ SameRun(q, d)
  BY <1>2, FinalizedCore DEF Follows
<1>4. t = [d EXCEPT !.lifecycle = "stopped"] \/ t = d
  BY DEF Drained
<1> HIDE DEF q, d, t
<1>5. Follows(w, d) /\ d.ended = w.ended /\ d.lifecycle = "draining"
  BY <1>2, <1>3 DEF Follows, SameControl, SameRun, SameTrack
<1>6. ASSUME t = d
      PROVE  Obeys(w, t)
  <2>1. Follows(w, t) /\ t.ended /\ t.lifecycle = "draining"
    BY <1>1, <1>5, <1>6
  <2> QED BY <2>1 DEF Obeys, Phase, Lifecycles
<1>7. ASSUME t = [d EXCEPT !.lifecycle = "stopped"]
      PROVE  Obeys(w, t)
  <2>1. /\ Core(t) /\ SameControl(d, t) /\ SameTrack(d, t)
        /\ t.lifecycle = "stopped" /\ t.worked = d.worked
    BY <1>5, <1>7, Relabeled DEF Follows
  <2>2. Follows(w, t)
    BY <1>5, <2>1 DEF Follows, SameControl
  <2> QED BY <1>1, <1>5, <2>1, <2>2 DEF Obeys, Phase, Lifecycles, Terminal, SameTrack
<1> QED BY <1>4, <1>6, <1>7 DEF t

LEMMA CapturedIs ==
  ASSUME NEW w, Ready(w), w.lifecycle = "running", NEW c \in Captured(w)
  PROVE  /\ Follows(w, c) /\ c.worked = TRUE /\ c.lifecycle = "running"
         /\ c.cycle = FALSE
         /\ ~c.ended => ~Open(c.track)
<1>1. Core(w) /\ IsRecord(w) /\ w.worked \in BOOLEAN /\ ~w.ended /\ w.cycle = FALSE
  BY DEF Ready, Phase, Core, TypedFlow
<1>2. ~Open(w.track)
  BY <1>1 DEF Ready, Phase
<1>3. \/ c = [Appended(w, "eos") EXCEPT !.ended = TRUE]
      \/ c = Windowed(Appended(w, "video"))
  BY <1>1 DEF Captured
<1>4. CASE c = [Appended(w, "eos") EXCEPT !.ended = TRUE]
  <2>1. c = EndAppended(w, TRUE)
    BY <1>1, <1>4 DEF EndAppended, Appended, IsRecord, Fields
  <2>2. Core(c)
    BY <1>1, <2>1, EndAppendedCore
  <2>3. /\ SameControl(w, c) /\ c.worked = TRUE
        /\ c.ended = TRUE /\ c.cycle = w.cycle /\ c.lifecycle = w.lifecycle
    BY <1>1, <2>1, EndAppendedIs
  <2> QED BY <1>1, <2>2, <2>3 DEF Follows
<1>5. CASE c = Windowed(Appended(w, "video"))
  <2> DEFINE a == Appended(w, "video")
  <2>1. "video" \in Kinds /\ Fits(w.track, "video")
    BY <1>2 DEF Kinds, Fits
  <2>2. Core(a) /\ ~Open(a.track)
    BY <1>1, <2>1, AppendedCore
  <2>3. /\ SameControl(w, a) /\ a.worked = TRUE
        /\ a.ended = w.ended /\ a.cycle = w.cycle /\ a.lifecycle = w.lifecycle
    BY <1>1, AppendedIs
  <2> HIDE DEF a
  <2>4. Follows(a, Windowed(a)) /\ SameRun(a, Windowed(a))
    BY <2>2, <2>3, WindowedCore
  <2>5. c = Windowed(a)
    BY <1>5 DEF a
  <2>6. Follows(w, c)
    BY <2>3, <2>4, <2>5 DEF Follows, SameControl
  <2>7. c.worked = TRUE
    BY <2>3, <2>4, <2>5 DEF Follows
  <2>8. c.lifecycle = "running" /\ c.cycle = FALSE /\ ~Open(c.track)
    BY <1>1, <2>2, <2>3, <2>4, <2>5 DEF SameRun, SameTrack
  <2> QED BY <2>6, <2>7, <2>8
<1> QED BY <1>3, <1>4, <1>5

LEMMA RunningObeys ==
  ASSUME NEW w, Ready(w), w.lifecycle = "running", NEW c \in Captured(w)
  PROVE  Obeys(w, Ran(Pumped(c)))
<1> DEFINE q == Pumped(c)
           t == Ran(q)
<1>1. /\ Follows(w, c) /\ c.worked = TRUE /\ c.lifecycle = "running"
      /\ c.cycle = FALSE
      /\ ~c.ended => ~Open(c.track)
  BY CapturedIs
<1>2. Follows(c, q) /\ SameRun(c, q)
  BY <1>1, PumpedCore DEF Follows
<1>3. t = IF q.ended THEN [q EXCEPT !.lifecycle = "draining"] ELSE q
  BY DEF Ran
<1> HIDE DEF q, t
<1>4. /\ Follows(w, q) /\ q.worked = TRUE /\ q.lifecycle = "running"
      /\ q.cycle = FALSE
      /\ ~q.ended => ~Open(q.track)
  BY <1>1, <1>2 DEF Follows, SameControl, SameRun, SameTrack
<1>5. ASSUME q.ended
      PROVE  Obeys(w, t)
  <2>1. /\ Core(t) /\ SameControl(q, t) /\ SameTrack(q, t)
        /\ t.lifecycle = "draining" /\ t.worked = q.worked
    <3>1. t = [q EXCEPT !.lifecycle = "draining"]
      BY <1>3, <1>5
    <3> QED BY <1>4, <3>1, Relabeled DEF Follows
  <2>2. Follows(w, t)
    BY <1>4, <2>1 DEF Follows, SameControl
  <2>3. t.ended
    BY <1>5, <2>1 DEF SameTrack
  <2> QED BY <2>1, <2>2, <2>3 DEF Obeys, Phase, Lifecycles
<1>6. ASSUME ~q.ended
      PROVE  Obeys(w, t)
  <2>1. t = q
    BY <1>3, <1>6
  <2>2. Phase(q)
    BY <1>4, <1>6 DEF Phase
  <2> QED BY <1>4, <2>1, <2>2 DEF Obeys, Lifecycles
<1> QED BY <1>5, <1>6 DEF t, q

LEMMA PausingObeys ==
  ASSUME NEW w, Ready(w), w.lifecycle = "running", w.view.pause, ~w.view.stop
  PROVE  Obeys(w, Paused(w))
<1> DEFINE a == Appended(w, "pauseStart")
           t == Paused(w)
<1>1. Core(w) /\ IsRecord(w) /\ w.worked \in BOOLEAN /\ ~w.ended /\ w.cycle = FALSE
  BY DEF Ready, Phase, Core, TypedFlow
<1>2. "pauseStart" \in Kinds /\ Fits(w.track, "pauseStart")
  BY <1>1 DEF Kinds, Markers, Fits, Ready, Phase
<1>3. Core(a) /\ Open(a.track)
  BY <1>1, <1>2, AppendedCore
<1>4. /\ SameControl(w, a) /\ a.worked = TRUE /\ a.ended = w.ended
  BY <1>1, AppendedIs
<1>5. t = [a EXCEPT !.cycle = TRUE, !.lifecycle = "paused"]
  BY <1>1 DEF Paused
<1> HIDE DEF a, t
<1>6. /\ Core(t) /\ SameControl(a, t)
      /\ t.track = a.track /\ t.ended = a.ended /\ t.cycle = TRUE
      /\ t.lifecycle = "paused" /\ t.worked = a.worked
  <2>1. Core(t) /\ SameControl(a, t)
    BY <1>3, <1>5, Recycled
  <2>2. /\ t.track = a.track /\ t.ended = a.ended /\ t.cycle = TRUE
        /\ t.lifecycle = "paused" /\ t.worked = a.worked
    BY <1>3, <1>5 DEF Core, IsRecord, Fields
  <2> QED BY <2>1, <2>2
<1>7. Follows(w, t)
  BY <1>4, <1>6 DEF Follows, SameControl
<1>8. ~t.ended /\ Open(t.track)
  BY <1>1, <1>3, <1>4, <1>6
<1>9. Phase(t)
  BY <1>6, <1>8 DEF Phase
<1> QED BY <1>6, <1>7, <1>9 DEF Obeys, Lifecycles, t

LEMMA ResumingObeys ==
  ASSUME NEW w, Ready(w), w.lifecycle = "paused"
  PROVE  Obeys(w, Resumed(w))
<1> DEFINE a == Appended(w, "pauseEnd")
           t == Resumed(w)
<1>1. Core(w) /\ IsRecord(w) /\ w.worked \in BOOLEAN /\ ~w.ended /\ Open(w.track)
  BY DEF Ready, Phase, Core
<1>2. "pauseEnd" \in Kinds /\ Fits(w.track, "pauseEnd")
  BY <1>1 DEF Kinds, Markers, Fits
<1>3. Core(a) /\ ~Open(a.track)
  BY <1>1, <1>2, AppendedCore
<1>4. /\ SameControl(w, a) /\ a.worked = TRUE /\ a.ended = w.ended
  BY <1>1, AppendedIs
<1>5. t = [a EXCEPT !.cycle = FALSE, !.lifecycle = "running"]
  BY DEF Resumed
<1> HIDE DEF a, t
<1>6. /\ Core(t) /\ SameControl(a, t)
      /\ t.track = a.track /\ t.ended = a.ended /\ t.cycle = FALSE
      /\ t.lifecycle = "running" /\ t.worked = a.worked
  <2>1. Core(t) /\ SameControl(a, t)
    BY <1>3, <1>5, Recycled
  <2>2. /\ t.track = a.track /\ t.ended = a.ended /\ t.cycle = FALSE
        /\ t.lifecycle = "running" /\ t.worked = a.worked
    BY <1>3, <1>5 DEF Core, IsRecord, Fields
  <2> QED BY <2>1, <2>2
<1>7. Follows(w, t)
  BY <1>4, <1>6 DEF Follows, SameControl
<1>8. ~t.ended /\ ~Open(t.track)
  BY <1>1, <1>3, <1>4, <1>6
<1>9. Phase(t)
  BY <1>6, <1>8 DEF Phase
<1>10. t.worked
  BY <1>4, <1>6
<1> QED BY <1>6, <1>7, <1>9, <1>10 DEF Obeys, Lifecycles, Ready, t

LEMMA BodyObeys ==
  ASSUME NEW o, NEW w, Ready(w), w.view \in Views, NEW t \in Body(o, w)
  PROVE  Obeys(w, t)
<1>1. w.view.stop \in BOOLEAN /\ w.view.pause \in BOOLEAN
  BY DEF Views
<1>2. CASE w.lifecycle = "draining"
  <2>1. Promoted(w) = "draining"
    BY <1>2 DEF Promoted
  <2>2. t = Drained(o, w)
    BY <2>1 DEF Body
  <2> QED BY <1>2, <2>2, DrainingObeys
<1>3. CASE w.lifecycle \in {"running", "paused"} /\ w.view.stop
  <2>1. Promoted(w) = "stopping"
    BY <1>3 DEF Promoted
  <2>2. t = Pumped([Ended(w) EXCEPT !.lifecycle = "draining"])
    BY <2>1 DEF Body
  <2> QED BY <1>3, <2>2, StoppingObeys
<1>4. CASE w.lifecycle = "running" /\ ~w.view.stop /\ w.view.pause
  <2>1. Promoted(w) = "pausing"
    BY <1>4 DEF Promoted
  <2>2. t = Paused(w)
    BY <2>1 DEF Body
  <2> QED BY <1>4, <2>2, PausingObeys
<1>5. CASE w.lifecycle = "running" /\ ~w.view.stop /\ ~w.view.pause
  <2>1. Promoted(w) = "running"
    BY <1>5 DEF Promoted
  <2>2. \E c \in Captured(w) : t = Ran(Pumped(c))
    BY <2>1 DEF Body
  <2> QED BY <1>5, <2>2, RunningObeys
<1>6. CASE w.lifecycle = "paused" /\ ~w.view.stop /\ ~w.view.pause
  <2>1. Promoted(w) = "resuming"
    BY <1>6 DEF Promoted
  <2>2. t = Resumed(w)
    BY <2>1 DEF Body
  <2> QED BY <1>6, <2>2, ResumingObeys
<1>7. CASE w.lifecycle = "paused" /\ ~w.view.stop /\ w.view.pause
  <2>1. Promoted(w) = "paused"
    BY <1>7 DEF Promoted
  <2>2. t = w
    BY <2>1 DEF Body
  <2>3. Core(w) /\ Phase(w) /\ w.worked \in BOOLEAN
    BY DEF Ready
  <2> QED BY <1>7, <2>2, <2>3 DEF Obeys, Follows, SameControl, Lifecycles
<1> QED BY <1>1, <1>2, <1>3, <1>4, <1>5, <1>6, <1>7 DEF Ready

LEMMA OutcomesObey ==
  ASSUME NEW o, NEW w, Ready(w), w.view \in Views, NEW t \in Outcomes(o, w)
  PROVE  Obeys(w, t)
<1>1. CASE t \in Body(o, w)
  BY <1>1, BodyObeys
<1>2. ASSUME NEW u \in Body(o, w), t = [u EXCEPT !.lifecycle = "failed"]
      PROVE  Obeys(w, t)
  <2>1. Obeys(w, u)
    BY BodyObeys
  <2>2. /\ Core(t) /\ SameControl(u, t) /\ SameTrack(u, t)
        /\ t.lifecycle = "failed" /\ t.worked = u.worked
    BY <1>2, <2>1, Relabeled DEF Obeys, Follows
  <2>3. Follows(w, t)
    BY <2>1, <2>2 DEF Obeys, Follows, SameControl
  <2>4. Phase(t)
    BY <2>1, <2>2 DEF Obeys, Phase, SameTrack
  <2> QED BY <2>2, <2>3, <2>4 DEF Obeys, Lifecycles, Terminal
<1> QED BY <1>1, <1>2 DEF Outcomes

-----------------------------------------------------------------------------
(* The inductive invariant.  Sound is about a worker's data, Placed about  *)
(* where its fiber is, Heard about what it knows of the board.             *)

Sound(w) ==
    /\ Core(w) /\ TypedControl(w) /\ Phase(w)
    /\ w.stalledIn # "running"

Placed(w) ==
    /\ w.pc \in Attended => w.lifecycle \notin Terminal /\ w.idle < MaxIdle
    /\ w.pc \in {"turn", "busy"} /\ w.lifecycle \in {"running", "paused"} => ~w.waiter
    /\ w.pc = "parked" => w.waiter /\ w.lifecycle = "paused"
    /\ w.pc = "nap" => w.waiter /\ w.lifecycle = "draining"
    /\ w.pc = "launching" => w.lifecycle = "running" /\ ~w.waiter /\ w.idle = 0

\* c is the cell of the worker w, known whether the bus knows w.
Heard(c, known, w) ==
    /\ w.pc = "busy" /\ known /\ w.lifecycle \in {"running", "paused"}
          => w.pending > 0 \/ (w.view.stop = c.stop /\ w.view.pause = c.pause)
    /\ w.pc \in Attended => c.status \notin Terminal
    /\ w.pc = "done" => c.status \in Terminal \cup {"prepared"}
    /\ w.pc \in {"nap", "parked"} =>
          c.status = w.lifecycle \/ (~known /\ c.status = "prepared")
    /\ w.pc = "parked" /\ known => c.pause /\ ~c.stop

Cells == [status : Statuses, prepared : BOOLEAN, stop : BOOLEAN, pause : BOOLEAN]

Board ==
    /\ cell \in [Obs -> Cells]
    /\ mounted \subseteq Sinks
    /\ facts \in [Sinks -> [count : Nat, finalized : BOOLEAN]]
    /\ capture \in BOOLEAN
    /\ wake \in Obs \cup {None}
    /\ calls \in 0..MaxCalls
    /\ starts \in 0..MaxStarts

IInv ==
    /\ Board
    /\ worker = [o \in Obs |-> worker[o]]
    /\ \A o \in Obs : Sound(worker[o]) /\ Placed(worker[o]) /\ Heard(cell[o], wake = o, worker[o])

\* All but where the fiber is and the wakes it has.
SameWork(w, t) ==
    /\ t.lifecycle = w.lifecycle /\ t.view = w.view /\ t.idle = w.idle
    /\ t.worked = w.worked /\ t.stalledIn = w.stalledIn /\ t.items = w.items
    /\ SameTrack(w, t) /\ SameSink(w, t)

LEMMA SameWorkSound ==
  ASSUME NEW w, Sound(w), NEW t, IsRecord(t), SameWork(w, t),
         t.pc \in Places, t.pending \in Nat, t.waiter \in BOOLEAN
  PROVE  Sound(t)
<1>1. TypedFlow(w) /\ Flow(w) /\ TypedControl(w) /\ Phase(w) /\ w.stalledIn # "running"
  BY DEF Sound, Core
<1>2. TypedFlow(t)
  BY <1>1 DEF TypedFlow, SameWork, SameTrack, SameSink
<1>3. Flow(t)
  BY <1>1 DEF Flow, SameWork, SameTrack, SameSink
<1>4. TypedControl(t)
  BY <1>1 DEF TypedControl, SameWork
<1>5. Phase(t)
  BY <1>1 DEF Phase, SameWork, SameTrack
<1> QED BY <1>1, <1>2, <1>3, <1>4, <1>5 DEF Sound, Core, SameWork

LEMMA MovedSound ==
  ASSUME NEW w, Sound(w), NEW pc \in Places
  PROVE  LET t == [w EXCEPT !.pc = pc]
         IN  /\ Sound(t) /\ SameWork(w, t)
             /\ t.pc = pc /\ t.pending = w.pending /\ t.waiter = w.waiter
<1> DEFINE t == [w EXCEPT !.pc = pc]
<1>1. IsRecord(w) /\ w.pending \in Nat /\ w.waiter \in BOOLEAN
  BY DEF Sound, Core, TypedControl
<1>2. /\ IsRecord(t) /\ SameWork(w, t)
      /\ t.pc = pc /\ t.pending = w.pending /\ t.waiter = w.waiter
  BY <1>1 DEF IsRecord, Fields, SameWork, SameTrack, SameSink
<1> HIDE DEF t
<1>3. Sound(t)
  BY <1>1, <1>2, SameWorkSound
<1> QED BY <1>2, <1>3 DEF t

LEMMA NotifiedIs ==
  ASSUME NEW w, Sound(w), NEW n \in Nat, n # 0, w.pc \in Attended
  PROVE  LET t == Notified(w, n)
         IN  /\ Sound(t) /\ SameWork(w, t) /\ ~t.waiter
             /\ w.waiter => /\ t.pc = IF w.pc \in {"nap", "parked"} THEN "turn" ELSE w.pc
                            /\ t.pending = w.pending + n - 1
             /\ ~w.waiter => t.pc = w.pc /\ t.pending = w.pending + n
<1> DEFINE t == Notified(w, n)
<1>1. IsRecord(w) /\ w.pending \in Nat /\ w.waiter \in BOOLEAN /\ w.pc \in Places
  BY DEF Sound, Core, TypedControl
<1>2. /\ IsRecord(t) /\ SameWork(w, t)
      /\ w.waiter => /\ t.waiter = FALSE
                     /\ t.pc = IF w.pc \in {"nap", "parked"} THEN "turn" ELSE w.pc
                     /\ t.pending = w.pending + n - 1
      /\ ~w.waiter => t.waiter = w.waiter /\ t.pc = w.pc /\ t.pending = w.pending + n
  <2>1. CASE w.waiter
    BY <1>1, <2>1 DEF Notified, IsRecord, Fields, SameWork, SameTrack, SameSink
  <2>2. CASE ~w.waiter
    BY <1>1, <2>2 DEF Notified, IsRecord, Fields, SameWork, SameTrack, SameSink
  <2> QED BY <2>1, <2>2
<1> HIDE DEF t
<1>3. t.waiter \in BOOLEAN /\ t.pending \in Nat /\ t.pc \in Places
  <2>1. t.waiter \in BOOLEAN /\ t.pending \in Nat
    <3>1. CASE w.waiter
      <4>1. t.waiter = FALSE /\ t.pending = w.pending + n - 1
        BY <1>2, <3>1
      <4>2. w.pending + n - 1 \in Nat
        BY <1>1
      <4> QED BY <4>1, <4>2
    <3>2. CASE ~w.waiter
      <4>1. t.waiter = w.waiter /\ t.pending = w.pending + n
        BY <1>2, <3>2
      <4> QED BY <1>1, <4>1
    <3> QED BY <3>1, <3>2
  <2>2. t.pc = w.pc \/ t.pc = "turn"
    <3>1. CASE w.waiter
      BY <1>2, <3>1
    <3>2. CASE ~w.waiter
      BY <1>2, <3>2
    <3> QED BY <3>1, <3>2
  <2> QED BY <1>1, <2>1, <2>2 DEF Places, Attended
<1>4. Sound(t)
  BY <1>2, <1>3, SameWorkSound
<1>5. ~t.waiter
  BY <1>1, <1>2
<1> QED BY <1>2, <1>4, <1>5 DEF t

LEMMA NotNotified ==
  ASSUME NEW w, NEW n, n = 0 \/ w.pc \notin Attended
  PROVE  Notified(w, n) = w
BY DEF Notified

\* Whatever wakes it, a worker stays sound and stays where its waiter is.
LEMMA NotifiedKeeps ==
  ASSUME NEW w, NEW n \in Nat, NEW c, NEW known, Sound(w), Placed(w), Heard(c, known, w)
  PROVE  LET t == Notified(w, n) IN Sound(t) /\ Placed(t) /\ Heard(c, known, t)
<1> DEFINE t == Notified(w, n)
<1>1. CASE n = 0 \/ w.pc \notin Attended
  <2>1. t = w
    BY <1>1, NotNotified
  <2> QED BY <2>1
<1>2. CASE n # 0 /\ w.pc \in Attended
  <2>1. /\ Sound(t) /\ SameWork(w, t) /\ ~t.waiter
        /\ w.waiter => /\ t.pc = IF w.pc \in {"nap", "parked"} THEN "turn" ELSE w.pc
                       /\ t.pending = w.pending + n - 1
        /\ ~w.waiter => t.pc = w.pc /\ t.pending = w.pending + n
    BY <1>2, NotifiedIs
  <2>2. w.pending \in Nat
    BY DEF Sound, TypedControl
  <2> HIDE DEF t
  <2>3. Placed(t)
    BY <1>2, <2>1 DEF Placed, SameWork, Attended
  <2>4. t.pending >= w.pending
    BY <1>2, <2>1, <2>2
  <2>5. Heard(c, known, t)
    <3>1. t.pc = w.pc \/ (w.pc \in {"nap", "parked"} /\ t.pc = "turn")
      BY <2>1
    <3>2. t.lifecycle = w.lifecycle /\ t.view = w.view
      BY <2>1 DEF SameWork
    <3>3. w.pending > 0 => t.pending > 0
      BY <2>2, <2>4, <2>1
    <3> QED BY <1>2, <3>1, <3>2, <3>3 DEF Heard, Attended
  <2> QED BY <2>1, <2>3, <2>5 DEF t
<1> QED BY <1>1, <1>2

LEMMA LessKnown ==
  ASSUME NEW w, NEW c, NEW known, NEW knows, Heard(c, known, w), knows => known
  PROVE  Heard(c, knows, w)
BY DEF Heard

LEMMA WithWakesIs ==
  ASSUME NEW ws, ws = [p \in Obs |-> ws[p]], NEW n
  PROVE  LET R == WithWakes(ws, n)
         IN  /\ R = [p \in Obs |-> R[p]]
             /\ \A p \in Obs : R[p] = IF wake = p THEN Notified(ws[p], n) ELSE ws[p]
<1>1. CASE wake = None
  BY <1>1, ObserveAssumption DEF WithWakes
<1>2. CASE wake # None
  BY <1>2 DEF WithWakes
<1> QED BY <1>1, <1>2

\* A step of o leaves the others as they were, but for the wake.
LEMMA Others ==
  ASSUME IInv, NEW o \in Obs, NEW x, NEW n \in Nat
  PROVE  LET R == WithWakes([worker EXCEPT ![o] = x], n)
         IN  /\ R = [p \in Obs |-> R[p]]
             /\ R[o] = IF wake = o THEN Notified(x, n) ELSE x
             /\ \A p \in Obs \ {o} :
                   Sound(R[p]) /\ Placed(R[p]) /\ Heard(cell[p], wake = p, R[p])
<1> DEFINE ws == [worker EXCEPT ![o] = x]
           R == WithWakes(ws, n)
<1>1. worker = [p \in Obs |-> worker[p]]
  BY DEF IInv
<1>2. ws = [p \in Obs |-> ws[p]] /\ ws[o] = x /\ \A p \in Obs \ {o} : ws[p] = worker[p]
  BY <1>1
<1> HIDE DEF ws
<1>3. /\ R = [p \in Obs |-> R[p]]
      /\ \A p \in Obs : R[p] = IF wake = p THEN Notified(ws[p], n) ELSE ws[p]
  BY <1>2, WithWakesIs
<1> HIDE DEF R
<1>4. ASSUME NEW p \in Obs \ {o}
      PROVE  Sound(R[p]) /\ Placed(R[p]) /\ Heard(cell[p], wake = p, R[p])
  <2>1. Sound(worker[p]) /\ Placed(worker[p]) /\ Heard(cell[p], wake = p, worker[p])
    BY DEF IInv
  <2>2. R[p] = worker[p] \/ R[p] = Notified(worker[p], n)
    BY <1>2, <1>3
  <2>3. CASE R[p] = worker[p]
    BY <2>1, <2>3
  <2>4. CASE R[p] = Notified(worker[p], n)
    BY <2>1, <2>4, NotifiedKeeps
  <2> QED BY <2>2, <2>3, <2>4
<1> QED BY <1>2, <1>3, <1>4 DEF R, ws

LEMMA Assemble ==
  ASSUME IInv, Board', NEW o \in Obs, NEW R, NEW z, NEW c,
         R = [p \in Obs |-> R[p]],
         \A p \in Obs \ {o} : Sound(R[p]) /\ Placed(R[p]) /\ Heard(cell[p], wake = p, R[p]),
         worker' = [R EXCEPT ![o] = z], cell' = [cell EXCEPT ![o] = c], wake' \in {wake, o},
         Sound(z), Placed(z), Heard(c, wake' = o, z)
  PROVE  IInv'
<1>1. worker' = [p \in Obs |-> worker'[p]]
  OBVIOUS
<1>2. cell = [p \in Obs |-> cell[p]]
  BY DEF IInv, Board
<1>3. worker'[o] = z /\ cell'[o] = c
  BY <1>2
<1>4. ASSUME NEW p \in Obs \ {o}
      PROVE  Sound(worker'[p]) /\ Placed(worker'[p]) /\ Heard(cell'[p], wake' = p, worker'[p])
  <2>1. worker'[p] = R[p] /\ cell'[p] = cell[p]
    BY <1>2
  <2>2. Heard(cell[p], wake' = p, R[p])
    <3>1. (wake' = p) => (wake = p)
      OBVIOUS
    <3> QED BY <3>1, LessKnown
  <2> QED BY <2>1, <2>2
<1>5. \A p \in Obs : Sound(worker'[p]) /\ Placed(worker'[p]) /\ Heard(cell'[p], wake' = p, worker'[p])
  BY <1>3, <1>4
<1> QED BY <1>1, <1>5 DEF IInv

-----------------------------------------------------------------------------
(* How a turn ends.                                                        *)

\* e is what the worker w is when its turn has been counted.
Closing(w, e) ==
    /\ Sound(e) /\ e.pc = w.pc /\ e.pending = w.pending /\ e.waiter = w.waiter
    /\ e.lifecycle \notin Terminal => e.idle < MaxIdle
    /\ e.lifecycle \in {"running", "paused"} => ~w.waiter /\ w.lifecycle \in {"running", "paused"}
    /\ e.lifecycle = "running" => e.worked
    /\ e.lifecycle = "paused" => w.view.pause /\ ~w.view.stop

LEMMA CountedIs ==
  ASSUME NEW w, Sound(w), Placed(w), w.pc = "busy", NEW o, NEW u \in Outcomes(o, w)
  PROVE  LET t == Counted(u)
         IN  /\ Sound(t) /\ t.lifecycle = u.lifecycle /\ Obeys(w, u) /\ t.worked = u.worked
             /\ t.worked => t.idle = 0
             /\ SameControl(w, [t EXCEPT !.idle = w.idle])
<1> DEFINE t == Counted(u)
<1>1. /\ Core(w) /\ TypedControl(w) /\ Phase(w) /\ w.stalledIn # "running"
      /\ w.view \in Views /\ w.worked \in BOOLEAN /\ w.idle \in Nat /\ w.idle < MaxIdle
      /\ w.lifecycle \in {"running", "paused", "draining"} /\ MaxIdle \in Nat \ {0}
  BY ObserveAssumption DEF Sound, TypedControl, Placed, Lifecycles, Attended
<1>2. Obeys(w, u)
  BY <1>1, OutcomesObey DEF Ready
<1>3. /\ Core(u) /\ SameControl(w, u) /\ u.worked \in BOOLEAN /\ Phase(u)
      /\ u.lifecycle \in Lifecycles
  BY <1>2 DEF Obeys, Follows
<1>4. IsRecord(u) /\ TypedFlow(u) /\ Flow(u)
  BY <1>3 DEF Core
<1>5. /\ IsRecord(t) /\ SameTrack(u, t) /\ SameSink(u, t) /\ t.items = u.items
      /\ t.lifecycle = u.lifecycle /\ t.worked = u.worked
      /\ t.idle = IF u.worked THEN 0 ELSE u.idle + 1
      /\ t.pc = u.pc /\ t.view = u.view /\ t.pending = u.pending /\ t.waiter = u.waiter
      /\ t.stalledIn = u.stalledIn
  BY <1>4 DEF Counted, IsRecord, Fields, SameTrack, SameSink
<1>6. SameControl(w, [t EXCEPT !.idle = w.idle])
  BY <1>3, <1>5 DEF SameControl, IsRecord, Fields
<1> HIDE DEF t
<1>7. TypedFlow(t) /\ Flow(t) /\ Phase(t)
  BY <1>3, <1>4, <1>5 DEF TypedFlow, Flow, Phase, SameTrack, SameSink
<1>8. t.idle \in 0..MaxIdle
  BY <1>1, <1>3, <1>5 DEF SameControl
<1>9. TypedControl(t)
  BY <1>1, <1>3, <1>5, <1>8 DEF TypedControl, SameControl
<1>10. Sound(t)
  BY <1>1, <1>3, <1>5, <1>7, <1>9 DEF Sound, Core, SameControl
<1>11. t.worked => t.idle = 0
  BY <1>5
<1> QED BY <1>2, <1>5, <1>6, <1>10, <1>11 DEF t

\* A worker that is failed for its idle turns had none of them running.
LEMMA StalledSound ==
  ASSUME NEW t, Sound(t), t.lifecycle # "running"
  PROVE  LET e == [t EXCEPT !.lifecycle = "failed", !.stalledIn = t.lifecycle]
         IN  /\ Sound(e) /\ e.lifecycle = "failed"
             /\ e.pc = t.pc /\ e.pending = t.pending /\ e.waiter = t.waiter
<1> DEFINE e == [t EXCEPT !.lifecycle = "failed", !.stalledIn = t.lifecycle]
<1>1. /\ IsRecord(t) /\ TypedFlow(t) /\ Flow(t) /\ TypedControl(t) /\ Phase(t)
      /\ t.lifecycle \in Lifecycles
  BY DEF Sound, Core, TypedControl
<1>2. /\ IsRecord(e) /\ SameTrack(t, e) /\ SameSink(t, e) /\ e.items = t.items
      /\ e.lifecycle = "failed" /\ e.stalledIn = t.lifecycle
      /\ e.pc = t.pc /\ e.view = t.view /\ e.idle = t.idle /\ e.worked = t.worked
      /\ e.pending = t.pending /\ e.waiter = t.waiter
  BY <1>1 DEF IsRecord, Fields, SameTrack, SameSink
<1> HIDE DEF e
<1>3. TypedFlow(e) /\ Flow(e) /\ Phase(e)
  BY <1>1, <1>2 DEF TypedFlow, Flow, Phase, SameTrack, SameSink
<1>4. TypedControl(e)
  BY <1>1, <1>2 DEF TypedControl, Lifecycles, Terminal
<1> QED BY <1>1, <1>2, <1>3, <1>4 DEF Sound, Core, e

LEMMA TurnCloses ==
  ASSUME NEW w, Sound(w), Placed(w), w.pc = "busy", NEW o, NEW u \in Outcomes(o, w)
  PROVE  LET t == Counted(u)
             stalled == t.lifecycle \notin Terminal /\ t.idle >= MaxIdle
             e == IF stalled
                  THEN [t EXCEPT !.lifecycle = "failed", !.stalledIn = t.lifecycle]
                  ELSE t
         IN  /\ Closing(w, e)
             /\ t.lifecycle \in Lifecycles
             /\ e.lifecycle = IF stalled THEN "failed" ELSE t.lifecycle
             /\ Facts(t) \in [count : Nat, finalized : BOOLEAN] /\ t.ended \in BOOLEAN
<1> DEFINE t == Counted(u)
           stalled == t.lifecycle \notin Terminal /\ t.idle >= MaxIdle
           f == [t EXCEPT !.lifecycle = "failed", !.stalledIn = t.lifecycle]
           e == IF stalled THEN f ELSE t
<1>1. /\ Sound(t) /\ t.lifecycle = u.lifecycle /\ Obeys(w, u) /\ t.worked = u.worked
      /\ t.worked => t.idle = 0
  BY CountedIs
<1>2. /\ IsRecord(t) /\ t.idle \in 0..MaxIdle /\ MaxIdle \in Nat \ {0}
      /\ t.lifecycle \in Lifecycles
      /\ t.count \in Nat /\ t.finalized \in BOOLEAN /\ t.ended \in BOOLEAN
  BY <1>1, ObserveAssumption DEF Sound, Core, TypedControl, TypedFlow
<1>3. t.pc = w.pc /\ t.pending = w.pending /\ t.waiter = w.waiter
  <2>1. SameControl(w, [t EXCEPT !.idle = w.idle])
    BY CountedIs
  <2> HIDE DEF t
  <2> QED BY <1>2, <2>1 DEF SameControl, IsRecord, Fields
<1> HIDE DEF t
<1>4. /\ t.lifecycle = "paused" => w.view.pause /\ ~w.view.stop
      /\ t.lifecycle = "running" => t.worked
      /\ t.lifecycle \in {"running", "paused"} => w.lifecycle \in {"running", "paused"}
  BY <1>1 DEF Obeys
<1>5. w.lifecycle \in {"running", "paused"} => ~w.waiter
  BY DEF Placed
<1>6. CASE ~stalled
  <2>1. e = t
    BY <1>6
  <2>2. t.lifecycle \notin Terminal => t.idle < MaxIdle
    BY <1>2, <1>6
  <2>3. Closing(w, t)
    BY <1>1, <1>3, <1>4, <1>5, <2>2 DEF Closing
  <2> QED BY <1>2, <1>6, <2>1, <2>3 DEF Facts, t
<1>7. CASE stalled
  <2>1. e = f
    BY <1>7
  <2>2. t.lifecycle # "running"
    BY <1>1, <1>2, <1>4, <1>7
  <2>3. /\ Sound(f) /\ f.lifecycle = "failed"
        /\ f.pc = t.pc /\ f.pending = t.pending /\ f.waiter = t.waiter
    BY <1>1, <2>2, StalledSound
  <2> HIDE DEF f
  <2>4. Closing(w, f)
    BY <1>3, <2>3 DEF Closing, Terminal
  <2> QED BY <1>2, <1>7, <2>1, <2>3, <2>4 DEF Facts, f, t
<1> QED BY <1>6, <1>7

\* d is what the commit makes of the cell c.
Committed(c, d, e) == d.stop = c.stop /\ d.pause = c.pause /\ d.status = e.lifecycle

\* Where the loop goes after the commit, with the wakes the commit caused.
Well(c, known, w) == Sound(w) /\ Placed(w) /\ Heard(c, known, w)

LEMMA OnwardLands ==
  ASSUME NEW w, NEW e, NEW c, NEW d, NEW known, NEW n \in Nat,
         Placed(w), Heard(c, known, w), w.pc = "busy", w.pending \in Nat, Closing(w, e),
         Committed(c, d, e), NEW x, (x = e /\ ~known) \/ (x = Notified(e, n) /\ known)
  PROVE  Well(d, known, Onward(x))
<1>1. /\ Sound(e) /\ e.pc = "busy" /\ e.pending = w.pending /\ e.waiter = w.waiter
      /\ e.lifecycle \in Lifecycles /\ e.waiter \in BOOLEAN /\ e.worked \in BOOLEAN
  BY DEF Closing, Sound, TypedControl
<1>2. /\ Sound(x) /\ x.lifecycle = e.lifecycle /\ x.worked = e.worked /\ x.idle = e.idle
      /\ x.pc = "busy"
      /\ ~e.waiter => ~x.waiter /\ (x.pending = 0 => e.pending = 0)
  <2>1. CASE x = e
    BY <1>1, <2>1
  <2>2. CASE x = Notified(e, n) /\ n # 0
    <3>1. /\ Sound(x) /\ SameWork(e, x) /\ ~x.waiter
          /\ e.waiter => x.pc = IF e.pc \in {"nap", "parked"} THEN "turn" ELSE e.pc
          /\ ~e.waiter => x.pc = e.pc /\ x.pending = e.pending + n
      BY <1>1, <2>2, NotifiedIs DEF Attended
    <3>2. x.pc = "busy"
      BY <1>1, <3>1
    <3> QED BY <1>1, <2>2, <3>1, <3>2 DEF SameWork
  <2>3. CASE x = Notified(e, n) /\ n = 0
    <3>1. x = e
      BY <2>3, NotNotified
    <3> QED BY <1>1, <3>1
  <2> QED BY <2>1, <2>2, <2>3
<1>3. IsRecord(x) /\ x.pending \in Nat /\ x.waiter \in BOOLEAN
  BY <1>2 DEF Sound, Core, TypedControl
<1>4. ASSUME e.lifecycle \in Terminal
      PROVE  Sound(Onward(x)) /\ Placed(Onward(x)) /\ Heard(d, known, Onward(x))
  <2> DEFINE y == [x EXCEPT !.pc = "done"]
  <2>1. Onward(x) = y
    BY <1>2, <1>4 DEF Onward, Terminal
  <2>2. Sound(y) /\ y.pc = "done"
    BY <1>2, MovedSound DEF Places
  <2> HIDE DEF y
  <2> QED BY <1>4, <2>1, <2>2 DEF Placed, Heard, Attended, Committed
<1>5. ASSUME e.lifecycle \notin Terminal
      PROVE  Sound(Onward(x)) /\ Placed(Onward(x)) /\ Heard(d, known, Onward(x))
  <2>1. /\ x.lifecycle \in {"running", "paused", "draining"} /\ x.idle < MaxIdle
        /\ d.status = x.lifecycle /\ d.status \notin Terminal
        /\ x.lifecycle \in {"running", "paused"} => ~x.waiter
        /\ x.lifecycle = "running" => x.worked
    BY <1>1, <1>2, <1>5 DEF Closing, Lifecycles, Committed
  <2>2. ASSUME NEW pc \in {"parked", "nap"}, Onward(x) = Waiting(x, pc),
               pc = "parked" => x.lifecycle = "paused",
               pc = "nap" => x.lifecycle = "draining"
        PROVE  Sound(Onward(x)) /\ Placed(Onward(x)) /\ Heard(d, known, Onward(x))
    <3>1. CASE x.pending > 0
      <4> DEFINE y == [x EXCEPT !.pending = @ - 1, !.pc = "turn"]
      <4>1. Onward(x) = y
        BY <2>2, <3>1 DEF Waiting
      <4>2. /\ IsRecord(y) /\ SameWork(x, y)
            /\ y.pc = "turn" /\ y.pending = x.pending - 1 /\ y.waiter = x.waiter
        BY <1>3 DEF IsRecord, Fields, SameWork, SameTrack, SameSink
      <4> HIDE DEF y
      <4>3. Sound(y)
        BY <1>2, <1>3, <3>1, <4>2, SameWorkSound DEF Places, Attended
      <4>4. Placed(y)
        BY <2>1, <4>2 DEF Placed, SameWork, Terminal
      <4>5. Heard(d, known, y)
        BY <2>1, <4>2 DEF Heard
      <4> QED BY <4>1, <4>3, <4>4, <4>5
    <3>2. CASE ~(x.pending > 0)
      <4> DEFINE y == [x EXCEPT !.waiter = TRUE, !.pc = pc]
      <4>1. Onward(x) = y
        BY <2>2, <3>2 DEF Waiting
      <4>2. /\ IsRecord(y) /\ SameWork(x, y)
            /\ y.pc = pc /\ y.pending = x.pending /\ y.waiter = TRUE
        BY <1>3 DEF IsRecord, Fields, SameWork, SameTrack, SameSink
      <4> HIDE DEF y
      <4>3. Sound(y)
        BY <1>2, <1>3, <4>2, SameWorkSound DEF Places, Attended
      <4>4. Placed(y)
        BY <2>1, <2>2, <4>2 DEF Placed, SameWork, Terminal
      <4>5. pc = "parked" /\ known => d.pause /\ ~d.stop
        <5> SUFFICES ASSUME pc = "parked", known
                     PROVE  d.pause /\ ~d.stop
          OBVIOUS
        <5>1. /\ e.lifecycle = "paused"
              /\ w.view.pause /\ ~w.view.stop /\ ~w.waiter
              /\ w.lifecycle \in {"running", "paused"}
          BY <1>2, <2>2 DEF Closing
        <5>2. w.pending = 0
          BY <1>1, <1>2, <1>3, <3>2, <5>1
        <5>3. w.view.stop = c.stop /\ w.view.pause = c.pause
          <6>1. ~(w.pending > 0)
            BY <5>2
          <6>2. w.pending > 0 \/ (w.view.stop = c.stop /\ w.view.pause = c.pause)
            BY <5>1, Zenon DEF Heard
          <6> QED BY <6>1, <6>2
        <5> QED BY <5>1, <5>3 DEF Committed
      <4>6. Heard(d, known, y)
        BY <2>1, <4>2, <4>5 DEF Heard, SameWork
      <4> QED BY <4>1, <4>3, <4>4, <4>6
    <3> QED BY <3>1, <3>2
  <2>3. CASE x.lifecycle = "paused"
    <3>1. Onward(x) = Waiting(x, "parked")
      BY <2>3 DEF Onward, Terminal
    <3> QED BY <2>2, <2>3, <3>1
  <2>4. CASE x.lifecycle # "paused" /\ ~x.worked
    <3>1. Onward(x) = Waiting(x, "nap")
      BY <2>1, <2>4 DEF Onward, Terminal
    <3>2. x.lifecycle = "draining"
      BY <2>1, <2>4
    <3> QED BY <2>2, <3>1, <3>2
  <2>5. CASE x.lifecycle # "paused" /\ x.worked
    <3> DEFINE y == [x EXCEPT !.pc = "turn"]
    <3>1. Onward(x) = y
      BY <2>1, <2>5 DEF Onward, Terminal
    <3>2. Sound(y) /\ SameWork(x, y) /\ y.pc = "turn" /\ y.waiter = x.waiter
      <4>1. "turn" \in Places
        BY DEF Places, Attended
      <4>2. Sound(y) /\ SameWork(x, y)
        BY <1>2, <4>1, MovedSound
      <4>3. y.pc = "turn" /\ y.waiter = x.waiter
        BY <1>3 DEF IsRecord, Fields
      <4> QED BY <4>2, <4>3
    <3> HIDE DEF y
    <3>3. Placed(y)
      BY <2>1, <3>2 DEF Placed, SameWork, Terminal
    <3>4. Heard(d, known, y)
      BY <2>1, <3>2 DEF Heard
    <3> QED BY <3>1, <3>2, <3>3, <3>4
  <2> QED BY <2>3, <2>4, <2>5
<1> QED BY <1>4, <1>5 DEF Well

-----------------------------------------------------------------------------
(* The actions keep the invariant.                                         *)

LEMMA NewSound ==
  /\ Sound(NewWorker) /\ NewWorker.pc = "none" /\ NewWorker.lifecycle = "running"
  /\ NewWorker.waiter = FALSE /\ NewWorker.idle = 0
<1>1. IsRecord(NewWorker)
  BY DEF NewWorker, IsRecord, Fields
<1>2. /\ NewWorker.track = << >> /\ NewWorker.items = << >> /\ NewWorker.delivered = << >>
      /\ NewWorker.ended = FALSE /\ NewWorker.drained = FALSE /\ NewWorker.count = 0
      /\ NewWorker.finalized = FALSE /\ NewWorker.cycle = FALSE
  BY DEF NewWorker
<1>3. /\ NewWorker.pc = "none" /\ NewWorker.lifecycle = "running" /\ NewWorker.view = NoView
      /\ NewWorker.idle = 0 /\ NewWorker.worked = FALSE /\ NewWorker.pending = 0
      /\ NewWorker.waiter = FALSE /\ NewWorker.stalledIn = "none"
  BY DEF NewWorker
<1>4. NoView \in Views
  BY DEF NoView, Views
<1> HIDE DEF NewWorker
<1>5. TypedFlow(NewWorker)
  <2>1. << >> \in Seq(Kinds) /\ << >> \in Seq(Nat)
    OBVIOUS
  <2>2. /\ NewWorker.track \in Seq(Kinds) /\ NewWorker.items \in Seq(Nat)
        /\ NewWorker.delivered \in Seq(Nat)
    BY <1>2, <2>1
  <2>3. NewWorker.ended \in BOOLEAN /\ NewWorker.drained \in BOOLEAN
    BY <1>2
  <2>4. NewWorker.finalized \in BOOLEAN /\ NewWorker.cycle \in BOOLEAN
    BY <1>2
  <2>5. NewWorker.count \in Nat
    BY <1>2
  <2> QED BY <2>2, <2>3, <2>4, <2>5 DEF TypedFlow
<1>6. TypedControl(NewWorker)
  <2>1. "none" \in Places /\ "running" \in Lifecycles
    BY DEF Places, Lifecycles
  <2>2. 0 \in 0..MaxIdle
    BY ObserveAssumption
  <2>3. /\ NewWorker.pc \in Places /\ NewWorker.lifecycle \in Lifecycles
        /\ NewWorker.view \in Views /\ NewWorker.stalledIn \in Lifecycles \cup {"none"}
    BY <1>3, <1>4, <2>1
  <2>4. NewWorker.idle \in 0..MaxIdle /\ NewWorker.pending \in Nat
    BY <1>3, <2>2
  <2>5. NewWorker.worked \in BOOLEAN /\ NewWorker.waiter \in BOOLEAN
    BY <1>3
  <2> QED BY <2>3, <2>4, <2>5 DEF TypedControl
<1>7. Flow(NewWorker)
  <2>1. Len(<< >>) = 0
    OBVIOUS
  <2>2. \A i \in 1..0 : FALSE
    OBVIOUS
  <2> QED BY <1>2, <2>1, <2>2 DEF Flow, Ordered, Within, Increasing, Before, Kept, EndLast, Bracketed
<1>8. Phase(NewWorker)
  BY <1>2, <1>3 DEF Phase, Open
<1> QED BY <1>1, <1>3, <1>5, <1>6, <1>7, <1>8 DEF Sound, Core

LEMMA InitIInv == Init => IInv
<1> SUFFICES ASSUME Init PROVE IInv
  OBVIOUS
<1>1. Board
  <2>1. cell \in [Obs -> Cells]
    BY DEF Init, Cells, Statuses
  <2>2. facts \in [Sinks -> [count : Nat, finalized : BOOLEAN]]
    BY DEF Init
  <2>3. calls \in 0..MaxCalls /\ starts \in 0..MaxStarts
    BY ObserveAssumption DEF Init
  <2> QED BY <2>1, <2>2, <2>3 DEF Init, Board
<1>2. worker = [o \in Obs |-> worker[o]]
  BY DEF Init
<1>3. ASSUME NEW o \in Obs
      PROVE  Sound(worker[o]) /\ Placed(worker[o]) /\ Heard(cell[o], wake = o, worker[o])
  <2>1. worker[o] = NewWorker
    BY DEF Init
  <2> QED BY <2>1, NewSound DEF Placed, Heard, Attended
<1> QED BY <1>1, <1>2, <1>3 DEF IInv

\* A worker whose fiber is gone, or not there yet, takes no wakes.
LEMMA Leaves ==
  ASSUME IInv, Board', NEW o \in Obs, NEW x, NEW c, NEW n \in Nat,
         x.pc \notin Attended, Sound(x), Placed(x), Heard(c, wake = o, x),
         worker' = WithWakes([worker EXCEPT ![o] = x], n),
         cell' = [cell EXCEPT ![o] = c], wake' = wake
  PROVE  IInv'
<1> DEFINE R == WithWakes([worker EXCEPT ![o] = x], n)
<1>1. /\ R = [p \in Obs |-> R[p]]
      /\ R[o] = IF wake = o THEN Notified(x, n) ELSE x
      /\ \A p \in Obs \ {o} : Sound(R[p]) /\ Placed(R[p]) /\ Heard(cell[p], wake = p, R[p])
  BY Others
<1>2. R[o] = x
  BY <1>1, NotNotified
<1>3. worker' = R
  OBVIOUS
<1> HIDE DEF R
<1>4. worker' = [R EXCEPT ![o] = x]
  BY <1>1, <1>2, <1>3
<1>5. wake' \in {wake, o} /\ Heard(c, wake' = o, x)
  BY LessKnown
<1>6. /\ IInv /\ Board' /\ o \in Obs /\ Sound(x) /\ Placed(x)
      /\ cell' = [cell EXCEPT ![o] = c]
  OBVIOUS
<1>7. \A p \in Obs \ {o} : Sound(R[p]) /\ Placed(R[p]) /\ Heard(cell[p], wake = p, R[p])
  BY <1>1
<1>8. R = [p \in Obs |-> R[p]]
  BY <1>1
<1> QED BY ONLY <1>4, <1>5, <1>6, <1>7, <1>8, Assemble

LEMMA prepareKeeps == ASSUME IInv, NEW o \in Obs, prepare(o) PROVE IInv'
<1> DEFINE x == [worker[o] EXCEPT !.pc = "none"]
           c == [cell[o] EXCEPT !.status = "prepared", !.prepared = TRUE]
           n == IF SinkOf[o] \in mounted THEN 2 ELSE 3
<1>1. Board /\ Sound(worker[o]) /\ worker = [p \in Obs |-> worker[p]]
  BY DEF IInv
<1>2. Sound(x) /\ x.pc = "none"
  BY <1>1, MovedSound DEF Places
<1>3. Placed(x) /\ Heard(c, wake = o, x) /\ x.pc \notin Attended
  BY <1>2 DEF Placed, Heard, Attended
<1>4. cell' = [cell EXCEPT ![o] = c] /\ wake' = wake /\ n \in Nat
  BY <1>1 DEF prepare, Board, Cells
<1>5. worker' = WithWakes([worker EXCEPT ![o] = x], n)
  BY <1>1 DEF prepare
<1>6. c \in Cells
  BY <1>1, ZenonT(60) DEF Board, Cells, Statuses
<1>7. Board'
  <2>1. cell' \in [Obs -> Cells]
    BY <1>1, <1>4, <1>6 DEF Board
  <2>2. mounted' \subseteq Sinks
    BY <1>1 DEF prepare, Board, Sinks
  <2> QED BY <1>1, <2>1, <2>2 DEF prepare, Board
<1> HIDE DEF x, c, n
<1> QED BY <1>2, <1>3, <1>4, <1>5, <1>7, Leaves

LEMMA prepareFailsKeeps == ASSUME IInv, NEW o \in Obs, prepareFails(o) PROVE IInv'
<1> DEFINE x == [worker[o] EXCEPT !.pc = "none"]
           c == [cell[o] EXCEPT !.status = "preparing"]
<1>1. Board /\ Sound(worker[o]) /\ worker = [p \in Obs |-> worker[p]]
  BY DEF IInv
<1>2. Sound(x) /\ x.pc = "none"
  BY <1>1, MovedSound DEF Places
<1>3. Placed(x) /\ Heard(c, wake = o, x) /\ x.pc \notin Attended
  BY <1>2 DEF Placed, Heard, Attended
<1>4. PICK sinks \in {{}, {SinkOf[o]}} :
        /\ mounted' = mounted \cup sinks
        /\ worker' = WithWakes([worker EXCEPT ![o].pc = "none"],
                               IF sinks \subseteq mounted THEN 1 ELSE 2)
  BY DEF prepareFails
<1> DEFINE n == IF sinks \subseteq mounted THEN 1 ELSE 2
<1>5. cell' = [cell EXCEPT ![o] = c] /\ wake' = wake /\ n \in Nat
  BY <1>1 DEF prepareFails, Board, Cells
<1>6. worker' = WithWakes([worker EXCEPT ![o] = x], n)
  BY <1>1, <1>4
<1>7. c \in Cells
  BY <1>1 DEF Board, Cells, Statuses
<1>8. Board'
  <2>1. cell' \in [Obs -> Cells]
    BY <1>1, <1>5, <1>7 DEF Board
  <2>2. mounted' \subseteq Sinks
    BY <1>1, <1>4 DEF Board, Sinks
  <2>3. calls' \in 0..MaxCalls
    BY <1>1, ObserveAssumption DEF prepareFails, Board
  <2> QED BY <1>1, <2>1, <2>2, <2>3 DEF prepareFails, Board
<1> HIDE DEF x, c, n
<1> QED BY <1>2, <1>3, <1>5, <1>6, <1>8, Leaves

LEMMA startKeeps == ASSUME IInv, NEW o \in Obs, NEW byCall \in BOOLEAN, start(o, byCall) PROVE IInv'
<1> DEFINE x == [NewWorker EXCEPT !.pc = "launching"]
           c == [cell[o] EXCEPT !.stop = FALSE, !.status = IF byCall THEN "starting" ELSE @]
           n == (IF cell[o].stop THEN 1 ELSE 0) + (IF byCall THEN 1 ELSE 0)
<1>1. Board /\ worker = [p \in Obs |-> worker[p]] /\ cell[o] \in Cells
  BY DEF IInv, Board
<1>2. Sound(x) /\ SameWork(NewWorker, x) /\ x.pc = "launching" /\ x.waiter = NewWorker.waiter
  <2>1. "launching" \in Places
    BY DEF Places
  <2> QED BY <2>1, NewSound, MovedSound
<1>3. Placed(x) /\ Heard(c, wake = o, x) /\ x.pc \notin Attended
  BY <1>2, NewSound DEF Placed, Heard, Attended, SameWork
<1>4. cell' = [cell EXCEPT ![o] = c] /\ wake' = wake /\ n \in Nat
  <2>1. cell' = [cell EXCEPT ![o].stop = FALSE, ![o].status = IF byCall THEN "starting" ELSE @]
    BY DEF start
  <2>2. cell' = [cell EXCEPT ![o] = c]
    <3>1. CASE byCall
      BY <1>1, <2>1, <3>1 DEF Board, Cells
    <3>2. CASE ~byCall
      BY <1>1, <2>1, <3>2 DEF Board, Cells
    <3> QED BY <3>1, <3>2
  <2>3. n \in Nat
    OBVIOUS
  <2> QED BY <2>2, <2>3 DEF start
<1>5. worker' = WithWakes([worker EXCEPT ![o] = x], n)
  BY DEF start
<1>6. c \in Cells
  BY <1>1 DEF Cells, Statuses
<1>7. Board'
  <2>1. cell' \in [Obs -> Cells]
    BY <1>1, <1>4, <1>6 DEF Board
  <2>2. starts' \in 0..MaxStarts
    BY <1>1, ObserveAssumption DEF start, Board
  <2> QED BY <1>1, <2>1, <2>2 DEF start, Board
<1> HIDE DEF x, c, n
<1> QED BY <1>2, <1>3, <1>4, <1>5, <1>7, Leaves

\* What launch and launchRefused have in common.
launched(o, pc, status) ==
    /\ worker[o].pc = "launching"
    /\ wake' = o
    /\ worker' = [WithWakes(worker, 1) EXCEPT ![o].pc = pc]
    /\ cell' = [cell EXCEPT ![o].status = status]
    /\ UNCHANGED <<mounted, facts, capture, calls, starts>>

LEMMA LaunchedKeeps ==
  ASSUME IInv, NEW o \in Obs, NEW pc \in Places, NEW status \in Statuses,
         pc = "turn" => status \notin Terminal,
         pc = "done" => status \in Terminal,
         pc \in {"turn", "done"},
         launched(o, pc, status)
  PROVE  IInv'
<1> USE DEF launched
<1> DEFINE w == worker[o]
           R == WithWakes([worker EXCEPT ![o] = w], 1)
           z == [w EXCEPT !.pc = pc]
           c == [cell[o] EXCEPT !.status = status]
<1>1. /\ Board /\ worker = [p \in Obs |-> worker[p]] /\ cell[o] \in Cells
      /\ Sound(w) /\ Placed(w)
  BY DEF IInv, Board
<1>2. [worker EXCEPT ![o] = w] = worker
  BY <1>1
<1>3. /\ R = [p \in Obs |-> R[p]]
      /\ R[o] = IF wake = o THEN Notified(w, 1) ELSE w
      /\ \A p \in Obs \ {o} : Sound(R[p]) /\ Placed(R[p]) /\ Heard(cell[p], wake = p, R[p])
  BY Others
<1>4. R[o] = w
  <2>1. w.pc \notin Attended
    BY DEF Attended
  <2> QED BY <1>3, <2>1, NotNotified
<1>5. worker' = [R EXCEPT ![o].pc = pc]
  BY <1>2
<1> HIDE DEF R
<1>6. worker' = [R EXCEPT ![o] = z]
  BY <1>3, <1>4, <1>5
<1>7. Sound(z) /\ SameWork(w, z) /\ z.pc = pc /\ z.waiter = w.waiter
  BY <1>1, MovedSound
<1>8. /\ w.lifecycle = "running" /\ ~w.waiter /\ w.idle = 0 /\ 0 < MaxIdle
  BY <1>1, ObserveAssumption DEF Placed
<1>9. c \in Cells /\ c.status = status
  BY <1>1 DEF Cells
<1>10. cell' = [cell EXCEPT ![o] = c]
  BY <1>1 DEF Board
<1>11. Board'
  BY <1>1, <1>9, <1>10 DEF Board
<1> HIDE DEF z, c
<1>13. Placed(z)
  BY <1>7, <1>8 DEF Placed, SameWork, Attended, Terminal
<1>14. Heard(c, wake' = o, z)
  BY <1>7, <1>9 DEF Heard, Attended, Terminal
<1>15. wake' \in {wake, o}
  OBVIOUS
<1> QED BY <1>3, <1>6, <1>7, <1>10, <1>11, <1>13, <1>14, <1>15, Assemble

LEMMA launchKeeps == ASSUME IInv, NEW o \in Obs, launch(o) PROVE IInv'
<1>1. "turn" \in Places /\ "starting" \in Statuses /\ "starting" \notin Terminal
  BY DEF Places, Attended, Statuses, Terminal
<1>2. launched(o, "turn", "starting")
  BY DEF launch, launched
<1> QED BY <1>1, <1>2, LaunchedKeeps

LEMMA launchRefusedKeeps == ASSUME IInv, NEW o \in Obs, launchRefused(o) PROVE IInv'
<1>1. "done" \in Places /\ "failed" \in Statuses /\ "failed" \in Terminal
  BY DEF Places, Statuses, Lifecycles, Terminal
<1>2. launched(o, "done", "failed")
  BY DEF launchRefused, launched
<1> QED BY <1>1, <1>2, LaunchedKeeps

\* A call that changes the cell of a worker the bus knows wakes that worker.
LEMMA CallKeeps ==
  ASSUME IInv, NEW o \in Obs, NEW c \in Cells,
         \/ c.status = cell[o].status
         \/ c.status = "prepared" /\ c.stop = cell[o].stop /\ c.pause = cell[o].pause,
         calls < MaxCalls, calls' = calls + 1,
         cell' = [cell EXCEPT ![o] = c], worker' = WithWakes(worker, 1),
         UNCHANGED <<mounted, facts, capture, wake, starts>>
  PROVE  IInv'
<1> DEFINE w == worker[o]
           R == WithWakes([worker EXCEPT ![o] = w], 1)
           z == IF wake = o THEN Notified(w, 1) ELSE w
<1>1. /\ Board /\ worker = [p \in Obs |-> worker[p]] /\ cell[o] \in Cells
      /\ Sound(w) /\ Placed(w) /\ Heard(cell[o], wake = o, w)
  BY DEF IInv, Board
<1>2. [worker EXCEPT ![o] = w] = worker
  BY <1>1
<1>3. /\ R = [p \in Obs |-> R[p]]
      /\ R[o] = IF wake = o THEN Notified(w, 1) ELSE w
      /\ \A p \in Obs \ {o} : Sound(R[p]) /\ Placed(R[p]) /\ Heard(cell[p], wake = p, R[p])
  BY Others
<1>4. worker' = R
  BY <1>2
<1> HIDE DEF R
<1>5. worker' = [R EXCEPT ![o] = z]
  BY <1>3, <1>4
<1>6. "prepared" \notin Terminal
  BY DEF Terminal
<1>7. Board'
  <2>1. calls' \in 0..MaxCalls
    BY <1>1, ObserveAssumption DEF Board
  <2> QED BY <1>1, <2>1 DEF Board
<1>8. Sound(z) /\ Placed(z)
  BY <1>1, NotifiedKeeps
<1>9. Heard(c, wake' = o, z)
  <2>1. CASE wake # o
    <3>1. z = w
      BY <2>1
    <3> QED BY <1>1, <1>6, <2>1, <3>1 DEF Heard
  <2>2. CASE wake = o /\ w.pc \notin Attended
    <3>1. z = w
      BY <2>2, NotNotified
    <3> QED BY <1>1, <2>2, <3>1 DEF Heard, Attended
  <2>3. CASE wake = o /\ w.pc \in Attended
    <3>1. z = Notified(w, 1) /\ 1 \in Nat /\ 1 # 0
      BY <2>3
    <3>2. /\ SameWork(w, z)
          /\ w.waiter => z.pc = IF w.pc \in {"nap", "parked"} THEN "turn" ELSE w.pc
          /\ ~w.waiter => z.pc = w.pc /\ z.pending = w.pending + 1
      BY <1>1, <2>3, <3>1, NotifiedIs
    <3>3. w.pending \in Nat
      BY <1>1 DEF Sound, TypedControl
    <3> HIDE DEF z
    <3>4. z.pc = w.pc \/ (w.pc \in {"nap", "parked"} /\ z.pc = "turn")
      BY <3>2
    <3>5. z.pc # "parked" /\ z.pc # "nap"
      BY <1>1, <3>2, <3>4 DEF Placed
    <3>6. z.lifecycle = w.lifecycle
      BY <3>2 DEF SameWork
    <3>7. z.pc = "busy" /\ z.lifecycle \in {"running", "paused"} => z.pending > 0
      BY <1>1, <3>2, <3>3, <3>4, <3>6 DEF Placed
    <3>8. z.pc # "done" /\ c.status \notin Terminal
      BY <1>1, <1>6, <2>3, <3>4 DEF Heard, Attended
    <3> QED BY <3>5, <3>7, <3>8 DEF Heard
  <2> QED BY <2>1, <2>2, <2>3
<1>10. wake' \in {wake, o}
  OBVIOUS
<1> HIDE DEF z
<1>11. IInv /\ o \in Obs /\ cell' = [cell EXCEPT ![o] = c]
  OBVIOUS
<1>12. R = [p \in Obs |-> R[p]]
  BY <1>3
<1>13. \A p \in Obs \ {o} : Sound(R[p]) /\ Placed(R[p]) /\ Heard(cell[p], wake = p, R[p])
  BY <1>3
<1> QED BY ONLY <1>5, <1>7, <1>8, <1>9, <1>10, <1>11, <1>12, <1>13, Assemble

LEMMA RequestKeeps ==
  ASSUME IInv, NEW o \in Obs, NEW field \in {"pause", "stop"}, NEW value \in BOOLEAN,
         Request(o, field, value)
  PROVE  IInv'
<1> DEFINE c == [cell[o] EXCEPT ![field] = value]
<1>1. Board /\ cell[o] \in Cells
  BY DEF IInv, Board
<1>2. c \in Cells /\ c.status = cell[o].status
  BY <1>1 DEF Cells
<1>3. cell' = [cell EXCEPT ![o] = c]
  BY <1>1 DEF Request, Board
<1> HIDE DEF c
<1> QED BY <1>2, <1>3, CallKeeps DEF Request

LEMMA prepareByCallKeeps == ASSUME IInv, NEW o \in Obs, prepareByCall(o) PROVE IInv'
<1> DEFINE c == [cell[o] EXCEPT !.status = "prepared"]
<1>1. Board /\ cell[o] \in Cells
  BY DEF IInv, Board
<1>2. /\ c \in Cells /\ c.status = "prepared"
      /\ c.stop = cell[o].stop /\ c.pause = cell[o].pause
  BY <1>1 DEF Cells, Statuses
<1>3. cell' = [cell EXCEPT ![o] = c]
  BY <1>1 DEF prepareByCall, Board
<1> HIDE DEF c
<1> QED BY <1>2, <1>3, CallKeeps DEF prepareByCall

LEMMA FailedKeeps ==
  ASSUME IInv, NEW o \in Obs,
         worker' = WithWakes([worker EXCEPT ![o].pc = "done"], 1),
         cell' = [cell EXCEPT ![o].status = "failed"],
         UNCHANGED <<mounted, facts, capture, wake, calls, starts>>
  PROVE  IInv'
<1> DEFINE x == [worker[o] EXCEPT !.pc = "done"]
           c == [cell[o] EXCEPT !.status = "failed"]
<1>1. Board /\ Sound(worker[o]) /\ worker = [p \in Obs |-> worker[p]] /\ cell[o] \in Cells
  BY DEF IInv, Board
<1>2. Sound(x) /\ x.pc = "done"
  BY <1>1, MovedSound DEF Places
<1>3. c \in Cells /\ c.status = "failed"
  BY <1>1 DEF Cells, Statuses, Lifecycles, Terminal
<1>4. Placed(x) /\ Heard(c, wake = o, x) /\ x.pc \notin Attended
  BY <1>2, <1>3 DEF Placed, Heard, Attended, Terminal
<1>5. cell' = [cell EXCEPT ![o] = c] /\ wake' = wake
  BY <1>1 DEF Board
<1>6. worker' = WithWakes([worker EXCEPT ![o] = x], 1)
  BY <1>1
<1>7. Board'
  BY <1>1, <1>3, <1>5 DEF Board
<1> HIDE DEF x, c
<1> QED BY <1>2, <1>4, <1>5, <1>6, <1>7, Leaves

LEMMA beginTurnKeeps == ASSUME IInv, NEW o \in Obs, beginTurn(o) PROVE IInv'
<1> DEFINE w == worker[o]
           v == [stop |-> cell[o].stop, pause |-> cell[o].pause, sinks |-> mounted]
           z == [w EXCEPT !.pc = "busy", !.worked = FALSE, !.view = v]
<1>1. /\ Board /\ worker = [p \in Obs |-> worker[p]] /\ cell[o] \in Cells
      /\ Sound(w) /\ Placed(w) /\ Heard(cell[o], wake = o, w) /\ w.pc = "turn"
  BY DEF IInv, Board, beginTurn
<1>2. /\ IsRecord(w) /\ TypedFlow(w) /\ Flow(w) /\ TypedControl(w) /\ Phase(w)
      /\ w.stalledIn # "running"
  BY <1>1 DEF Sound, Core
<1>3. v \in Views /\ v.stop = cell[o].stop /\ v.pause = cell[o].pause
  BY <1>1 DEF Board, Cells, Views
<1>4. worker' = [worker EXCEPT ![o] = z]
  BY <1>1 DEF beginTurn
<1> HIDE DEF v
<1>5. /\ IsRecord(z) /\ SameTrack(w, z) /\ SameSink(w, z) /\ z.items = w.items
      /\ z.pc = "busy" /\ z.view = v /\ z.worked = FALSE
      /\ z.lifecycle = w.lifecycle /\ z.idle = w.idle /\ z.pending = w.pending
      /\ z.waiter = w.waiter /\ z.stalledIn = w.stalledIn
  BY <1>2 DEF IsRecord, Fields, SameTrack, SameSink
<1> HIDE DEF z
<1>6. TypedFlow(z) /\ Flow(z) /\ Phase(z)
  BY <1>2, <1>5 DEF TypedFlow, Flow, Phase, SameTrack, SameSink
<1>7. TypedControl(z)
  BY <1>2, <1>3, <1>5 DEF TypedControl, Places, Attended
<1>8. Sound(z)
  BY <1>2, <1>5, <1>6, <1>7 DEF Sound, Core
<1>9. Placed(z)
  BY <1>1, <1>5 DEF Placed, Attended
<1>10. wake' = wake /\ wake' \in {wake, o} /\ cell' = [cell EXCEPT ![o] = cell[o]]
  BY <1>1 DEF beginTurn, Board
<1>11. Heard(cell[o], wake' = o, z)
  BY <1>1, <1>3, <1>5 DEF Heard, Attended
<1>12. Board'
  BY <1>1 DEF beginTurn, Board
<1>13. \A p \in Obs \ {o} :
          Sound(worker[p]) /\ Placed(worker[p]) /\ Heard(cell[p], wake = p, worker[p])
  BY DEF IInv
<1> QED BY <1>1, <1>4, <1>8, <1>9, <1>10, <1>11, <1>12, <1>13, Assemble

LEMMA napOverKeeps == ASSUME IInv, NEW o \in Obs, napOver(o) PROVE IInv'
<1> DEFINE w == worker[o]
           z == [w EXCEPT !.pc = "turn"]
<1>1. /\ Board /\ worker = [p \in Obs |-> worker[p]] /\ cell[o] \in Cells
      /\ Sound(w) /\ Placed(w) /\ Heard(cell[o], wake = o, w) /\ w.pc = "nap"
  BY DEF IInv, Board, napOver
<1>2. worker' = [worker EXCEPT ![o] = z]
  BY <1>1 DEF napOver
<1>3. Sound(z) /\ SameWork(w, z) /\ z.pc = "turn"
  <2>1. "turn" \in Places
    BY DEF Places, Attended
  <2> QED BY <1>1, <2>1, MovedSound
<1> HIDE DEF z
<1>4. Placed(z)
  BY <1>1, <1>3 DEF Placed, SameWork, Attended
<1>5. wake' = wake /\ wake' \in {wake, o} /\ cell' = [cell EXCEPT ![o] = cell[o]]
  BY <1>1 DEF napOver, Board
<1>6. Heard(cell[o], wake' = o, z)
  BY <1>1, <1>3 DEF Heard, Attended
<1>7. Board'
  BY <1>1 DEF napOver, Board
<1>8. \A p \in Obs \ {o} :
          Sound(worker[p]) /\ Placed(worker[p]) /\ Heard(cell[p], wake = p, worker[p])
  BY DEF IInv
<1> QED BY <1>1, <1>2, <1>3, <1>4, <1>5, <1>6, <1>7, <1>8, Assemble

LEMMA endTurnKeeps == ASSUME IInv, NEW o \in Obs, endTurn(o) PROVE IInv'
<1> DEFINE w == worker[o]
<1>1. /\ Board /\ worker = [p \in Obs |-> worker[p]] /\ cell[o] \in Cells
      /\ Sound(w) /\ Placed(w) /\ Heard(cell[o], wake = o, w) /\ w.pc = "busy"
      /\ w.pending \in Nat
  BY DEF IInv, Board, endTurn, Sound, TypedControl
<1>2. PICK t \in {Counted(u) : u \in Outcomes(o, worker[o])} :
        LET stalled == t.lifecycle \notin Terminal /\ t.idle >= MaxIdle
            end == IF stalled
                   THEN [t EXCEPT !.lifecycle = "failed", !.stalledIn = t.lifecycle]
                   ELSE t
            status == StatusFrom(cell[o].status, t.lifecycle)
            changed == \/ status # cell[o].status
                       \/ facts[SinkOf[o]] # Facts(t)
                       \/ capture # t.ended
            commits == (IF changed THEN 1 ELSE 0)
                       + (IF stalled /\ status # "failed" THEN 1 ELSE 0)
            woken == WithWakes([worker EXCEPT ![o] = end], commits)
        IN  /\ worker' = [woken EXCEPT ![o] = Onward(@)]
            /\ cell' = [cell EXCEPT ![o].status = StatusFrom(status, end.lifecycle)]
            /\ facts' = [facts EXCEPT ![SinkOf[o]] = Facts(t)]
            /\ capture' = t.ended
  BY DEF endTurn
<1> DEFINE stalled == t.lifecycle \notin Terminal /\ t.idle >= MaxIdle
           e == IF stalled
                THEN [t EXCEPT !.lifecycle = "failed", !.stalledIn = t.lifecycle]
                ELSE t
           status == StatusFrom(cell[o].status, t.lifecycle)
           changed == \/ status # cell[o].status
                      \/ facts[SinkOf[o]] # Facts(t)
                      \/ capture # t.ended
           n == (IF changed THEN 1 ELSE 0) + (IF stalled /\ status # "failed" THEN 1 ELSE 0)
           R == WithWakes([worker EXCEPT ![o] = e], n)
           x == IF wake = o THEN Notified(e, n) ELSE e
           d == [cell[o] EXCEPT !.status = StatusFrom(status, e.lifecycle)]
<1>3. /\ Closing(w, e) /\ t.lifecycle \in Lifecycles
      /\ e.lifecycle = IF stalled THEN "failed" ELSE t.lifecycle
      /\ Facts(t) \in [count : Nat, finalized : BOOLEAN] /\ t.ended \in BOOLEAN
  <2>1. PICK u \in Outcomes(o, w) : t = Counted(u)
    OBVIOUS
  <2> QED BY <1>1, <2>1, TurnCloses
<1>4. n \in Nat
  OBVIOUS
<1>5. /\ worker' = [R EXCEPT ![o] = Onward(@)]
      /\ cell' = [cell EXCEPT ![o].status = StatusFrom(status, e.lifecycle)]
      /\ facts' = [facts EXCEPT ![SinkOf[o]] = Facts(t)]
      /\ capture' = t.ended
      /\ UNCHANGED <<mounted, wake, calls, starts>>
  BY <1>2 DEF endTurn
<1> HIDE DEF stalled, e, changed, n
<1>6. /\ R = [p \in Obs |-> R[p]] /\ R[o] = x
      /\ \A p \in Obs \ {o} : Sound(R[p]) /\ Placed(R[p]) /\ Heard(cell[p], wake = p, R[p])
  BY <1>4, Others, ZenonT(90)
<1> HIDE DEF R
<1>7. worker' = [R EXCEPT ![o] = Onward(x)]
  BY <1>6, <1>5
<1>8. cell' = [cell EXCEPT ![o] = d]
  BY <1>1, <1>5 DEF Board
<1>9. cell[o].status \notin Terminal
  BY <1>1 DEF Heard, Attended
<1>10. status = t.lifecycle
  BY <1>9 DEF StatusFrom
<1>11. d.status = StatusFrom(t.lifecycle, e.lifecycle)
       /\ d.stop = cell[o].stop /\ d.pause = cell[o].pause
  BY <1>1, <1>10 DEF Cells
<1>12. e.lifecycle = t.lifecycle \/ e.lifecycle = "failed"
  BY <1>3
<1>13. d.status = e.lifecycle
  BY <1>11, <1>12 DEF StatusFrom, Terminal
<1>14. e.lifecycle \in Lifecycles
  BY <1>3, <1>12 DEF Lifecycles, Terminal
<1>15. d \in Cells
  <2>1. StatusFrom(status, e.lifecycle) \in Statuses
    BY <1>3, <1>10, <1>14 DEF StatusFrom, Statuses
  <2> QED BY <1>1, <2>1 DEF Cells
<1> HIDE DEF d, status
<1>16. Sound(Onward(x)) /\ Placed(Onward(x)) /\ Heard(d, wake = o, Onward(x))
  <2> DEFINE known == wake = o
  <2>1. (x = e /\ ~known) \/ (x = Notified(e, n) /\ known)
    OBVIOUS
  <2>2. Committed(cell[o], d, e)
    BY <1>11, <1>13 DEF Committed
  <2>3. Heard(cell[o], known, w)
    BY <1>1
  <2> HIDE DEF x, w, known
  <2>4. Well(d, known, Onward(x))
    <3>1. /\ n \in Nat /\ Placed(w) /\ w.pc = "busy" /\ w.pending \in Nat /\ Closing(w, e)
          /\ (x = e /\ ~known) \/ (x = Notified(e, n) /\ known)
      BY <1>1, <1>3, <1>4, <2>1
    <3> QED BY ONLY <2>2, <2>3, <3>1, OnwardLands
  <2> QED BY <2>4 DEF known, Well
<1>17. Board'
  <2>1. cell' \in [Obs -> Cells]
    BY <1>1, <1>8, <1>15 DEF Board
  <2>2. facts' \in [Sinks -> [count : Nat, finalized : BOOLEAN]]
    BY <1>1, <1>3, <1>5 DEF Board
  <2>3. capture' \in BOOLEAN
    BY <1>3, <1>5
  <2> QED BY <1>1, <1>5, <2>1, <2>2, <2>3 DEF Board
<1> HIDE DEF x
<1>18. wake' \in {wake, o} /\ Heard(d, wake' = o, Onward(x))
  BY <1>5, <1>16
<1> QED BY <1>6, <1>7, <1>8, <1>16, <1>17, <1>18, Assemble

LEMMA NextKeeps == IInv /\ [Next]_vars => IInv'
<1> SUFFICES ASSUME IInv, [Next]_vars PROVE IInv'
  OBVIOUS
<1>1. CASE UNCHANGED vars
  BY <1>1 DEF vars, IInv, Board
<1>2. ASSUME NEW o \in Obs,
             \/ prepare(o) \/ prepareFails(o) \/ prepareByCall(o)
             \/ start(o, TRUE) \/ start(o, FALSE) \/ launch(o) \/ launchRefused(o)
             \/ pause(o) \/ resume(o) \/ stop(o) \/ stopTimeout(o)
             \/ beginTurn(o) \/ endTurn(o) \/ die(o) \/ napOver(o)
      PROVE  IInv'
  <2>1. CASE prepare(o)
    BY <2>1, prepareKeeps
  <2>2. CASE start(o, TRUE) \/ start(o, FALSE)
    BY <2>2, startKeeps
  <2>3. CASE launch(o)
    BY <2>3, launchKeeps
  <2>4. CASE launchRefused(o)
    BY <2>4, launchRefusedKeeps
  <2>5. CASE pause(o) \/ resume(o) \/ stop(o)
    BY <2>5, RequestKeeps DEF pause, resume, stop
  <2>6. CASE stopTimeout(o)
    BY <2>6, FailedKeeps DEF stopTimeout
  <2>7. CASE die(o)
    BY <2>7, FailedKeeps DEF die
  <2>8. CASE beginTurn(o)
    BY <2>8, beginTurnKeeps
  <2>9. CASE endTurn(o)
    BY <2>9, endTurnKeeps
  <2>10. CASE napOver(o)
    BY <2>10, napOverKeeps
  <2>11. CASE prepareFails(o)
    BY <2>11, prepareFailsKeeps
  <2>12. CASE prepareByCall(o)
    BY <2>12, prepareByCallKeeps
  <2> QED BY <1>2, <2>1, <2>2, <2>3, <2>4, <2>5, <2>6, <2>7, <2>8, <2>9, <2>10, <2>11, <2>12
<1> QED BY <1>1, <1>2 DEF Next

-----------------------------------------------------------------------------
(* The theorems.                                                           *)

LEMMA Invariance == Spec => []IInv
<1>1. Init => IInv
  BY InitIInv
<1>2. IInv /\ [Next]_vars => IInv'
  BY NextKeeps
<1> QED BY <1>1, <1>2, PTL DEF Spec

\* Every variable keeps its type, and no turn ends in a passing lifecycle.
THEOREM TypeCorrect == Spec => []TypeOK
<1>1. IInv => TypeOK
  <2> SUFFICES ASSUME IInv PROVE TypeOK
    OBVIOUS
  <2>1. \A o \in Obs : worker[o] \in Workers
    BY WorkersByField DEF IInv, Sound, Core
  <2>2. worker \in [Obs -> Workers]
    BY <2>1 DEF IInv
  <2> QED BY <2>2 DEF IInv, Board, Cells, TypeOK
<1> QED BY <1>1, Invariance, PTL

\* The board knows which workers are over, whichever calls, deaths and wakes
\* of other observations come between a turn's reads and its commit.
THEOREM BoardKnows == Spec => []BoardKnowsTheWorker
<1>1. IInv => BoardKnowsTheWorker
  BY DEF IInv, Heard, BoardKnowsTheWorker
<1> QED BY <1>1, Invariance, PTL

\* No marker is lost, the end is last, and the sink is handed every item in
\* order, whatever the window drops.
THEOREM MarkersDelivered == Spec => []MarkersArrive
<1>1. IInv => MarkersArrive
  <2> SUFFICES ASSUME IInv, NEW o \in Obs
               PROVE  LET w == worker[o]
                          n == Len(w.track)
                          m == Len(w.delivered)
                      IN  /\ \A i, j \in 1..m : i < j => w.delivered[i] < w.delivered[j]
                          /\ \A i \in 1..n : w.track[i] = "eos" <=> i = n /\ w.ended
                          /\ w.finalized =>
                                \A i \in 1..n : w.track[i] \in Markers
                                                  => \E j \in 1..m : w.delivered[j] = i
    BY DEF MarkersArrive
  <2> DEFINE w == worker[o]
  <2>1. TypedFlow(w) /\ Flow(w)
    BY DEF IInv, Sound, Core
  <2> HIDE DEF w
  <2>2. \A i, j \in 1..Len(w.delivered) : i < j => w.delivered[i] < w.delivered[j]
    BY <2>1 DEF Flow, Ordered, Increasing
  <2>3. \A i \in 1..Len(w.track) : w.track[i] = "eos" <=> i = Len(w.track) /\ w.ended
    BY <2>1 DEF Flow, EndLast
  <2>4. ASSUME w.finalized, NEW i \in 1..Len(w.track), w.track[i] \in Markers
        PROVE  \E j \in 1..Len(w.delivered) : w.delivered[j] = i
    <3>1. PICK k \in 1..Len(w.delivered) : w.delivered[k] = Len(w.track)
      BY <2>1, <2>4 DEF Flow
    <3>2. ASSUME NEW j \in 1..Len(w.items)
          PROVE  w.items[j] # i
      <4>1. w.delivered[k] < w.items[j]
        BY <2>1 DEF Flow, Ordered, Before
      <4>2. w.items[j] \in 1..Len(w.track) /\ Len(w.track) \in Nat
        BY <2>1 DEF Flow, Ordered, Within, TypedFlow
      <4> QED BY <3>1, <4>1, <4>2
    <3> QED BY <2>1, <2>4, <3>2 DEF Flow, Kept
  <2> QED BY <2>2, <2>3, <2>4 DEF w
<1> QED BY <1>1, Invariance, PTL

\* Nothing is appended between the markers of a pause.
THEOREM PausesAreQuiet == Spec => []QuietWhilePaused
<1>1. IInv => QuietWhilePaused
  <2> SUFFICES ASSUME IInv, NEW o \in Obs
               PROVE  Bracketed(worker[o].track)
    BY DEF QuietWhilePaused, Bracketed
  <2> QED BY DEF IInv, Sound, Core, Flow
<1> QED BY <1>1, Invariance, PTL

\* A call between a worker's reading of the board and its wait is not missed.
THEOREM NoWakeIsLost == Spec => []NoLostWake
<1>1. IInv => NoLostWake
  BY DEF IInv, Heard, NoLostWake
<1> QED BY <1>1, Invariance, PTL

\* The budget never kills a run that pumps frames.
THEOREM ProgressIsSpared == Spec => []ProgressIsNoStall
<1>1. IInv => ProgressIsNoStall
  BY DEF IInv, Sound, ProgressIsNoStall
<1> QED BY <1>1, Invariance, PTL
=============================================================================
