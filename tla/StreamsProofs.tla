----------------------------- MODULE StreamsProofs -----------------------------
(***************************************************************************)
(* Proofs about Streams.tla, for any senders, receivers and lists, any     *)
(* length of a cycle and any rates.                                        *)
(*                                                                         *)
(* Amounts are differences of one function: Upto(rate, t), what a stream   *)
(* of that rate pays in the seconds before t.  Flow is what one stream of  *)
(* a configuration pays in a window of time, and windows add up.  Deltas   *)
(* add up too: what they come to in cycle k (Cumulated) is linear, and a   *)
(* range adds to it what Upto makes of the part of the range in cycle k.   *)
(*                                                                         *)
(* The inductive invariant then says of the running cycle and of every     *)
(* later one that a receiver's deltas come to what all senders' streams    *)
(* are still to pay in it, and what of it can be squeezed already.         *)
(***************************************************************************)
EXTENDS Streams, BoardProofs

-----------------------------------------------------------------------------
(* Amounts.                                                                *)

Upto(rate, t) ==
    (t \div CycleSecs) * ((CycleSecs * rate) \div Multiplier)
    + ((t % CycleSecs) * rate) \div Multiplier

LEMMA Constants ==
  /\ CycleSecs \in Nat \ {0} /\ CycleSecs > 1
  /\ Multiplier \in Nat \ {0}
  /\ Forever \in Nat /\ MaxTime \in Nat \ {0} /\ MaxTime <= Forever
  /\ IsFiniteSet(Senders) /\ IsFiniteSet(Receivers)
BY StreamsAssumption

LEMMA TimeSplits ==
  ASSUME NEW t \in Nat
  PROVE  /\ t \div CycleSecs \in Nat
         /\ (t % CycleSecs) \in 0..CycleSecs - 1
         /\ CycleSecs * (t \div CycleSecs) \in Nat
         /\ t = CycleSecs * (t \div CycleSecs) + (t % CycleSecs)
<1>1. CycleSecs \in Nat \ {0}
  BY Constants
<1>2. t \div CycleSecs \in Nat
  BY <1>1
<1>3. (t % CycleSecs) \in 0..CycleSecs - 1
  BY <1>1
<1>4. CycleSecs * (t \div CycleSecs) \in Nat
  BY <1>1, <1>2
<1>5. t = CycleSecs * (t \div CycleSecs) + (t % CycleSecs)
  BY <1>1
<1> QED BY <1>2, <1>3, <1>4, <1>5

LEMMA UptoIs ==
  ASSUME NEW rate \in Nat, NEW t \in Nat
  PROVE  Upto(rate, t) \in Nat
<1>1. t \div CycleSecs \in Nat /\ (t % CycleSecs) \in Nat /\ CycleSecs \in Nat
  BY TimeSplits, Constants
<1>2. CycleSecs * rate \in Nat /\ (t % CycleSecs) * rate \in Nat
  BY <1>1, NatTimes
<1>3. (CycleSecs * rate) \div Multiplier \in Nat /\ ((t % CycleSecs) * rate) \div Multiplier \in Nat
  BY <1>2, DivNat, Constants
<1>4. (t \div CycleSecs) * ((CycleSecs * rate) \div Multiplier) \in Nat
  BY <1>1, <1>3, NatTimes
<1> QED BY <1>3, <1>4 DEF Upto

\* What is paid before t only grows with t.
LEMMA UptoGrows ==
  ASSUME NEW rate \in Nat, NEW t \in Nat, NEW u \in Nat, t <= u
  PROVE  Upto(rate, t) <= Upto(rate, u)
<1> DEFINE full == (CycleSecs * rate) \div Multiplier
           within(n) == (n * rate) \div Multiplier
           q == t \div CycleSecs
           p == u \div CycleSecs
<1>1. q \in Nat /\ p \in Nat /\ q <= p
  BY TimeSplits, DivOrdered, Constants
<1>2. (t % CycleSecs) \in 0..CycleSecs - 1 /\ (u % CycleSecs) \in 0..CycleSecs - 1 /\ CycleSecs \in Nat
  BY TimeSplits, Constants
<1>3. ASSUME NEW n \in Nat, NEW m \in Nat, n <= m
      PROVE  within(n) \in Nat /\ within(m) \in Nat /\ within(n) <= within(m)
  <2>1. n * rate = rate * n /\ m * rate = rate * m
    OBVIOUS
  <2>2. n * rate \in Nat /\ m * rate \in Nat /\ n * rate <= m * rate
    BY <2>1, <1>3, NatTimes, TimesOrdered
  <2> QED BY <2>2, DivNat, DivOrdered, Constants
<1>8. full = within(CycleSecs)
  OBVIOUS
<1>4. full \in Nat /\ within(t % CycleSecs) <= full /\ within(t % CycleSecs) \in Nat
      /\ within(u % CycleSecs) \in Nat
  <2> HIDE DEF within, full
  <2> QED BY <1>2, <1>3, <1>8
<1>5. Upto(rate, t) = q * full + within(t % CycleSecs) /\ Upto(rate, u) = p * full + within(u % CycleSecs)
  BY DEF Upto
<1>6. CASE q = p
  <2>1. (t % CycleSecs) <= (u % CycleSecs)
    <3>1. t = CycleSecs * q + (t % CycleSecs) /\ u = CycleSecs * p + (u % CycleSecs) /\ CycleSecs * q \in Nat
      BY TimeSplits
    <3> QED BY <1>6, <3>1, <1>2
  <2>2. within(t % CycleSecs) <= within(u % CycleSecs)
    <3> HIDE DEF within
    <3> QED BY <2>1, <1>2, <1>3
  <2>3. q * full \in Nat
    BY <1>1, <1>4, NatTimes
  <2> HIDE DEF q, p, full, within
  <2> QED BY <1>4, <1>5, <1>6, <2>2, <2>3
<1>7. CASE q < p
  <2>1. full * q + full <= full * p
    <3>1. CASE full = 0
      BY <3>1, <1>1
    <3>2. CASE full # 0
      <4> HIDE DEF full, q, p
      <4> QED BY <1>1, <1>4, <1>7, <3>2, Factor
    <3> QED BY <3>1, <3>2
  <2>2. q * full = full * q /\ p * full = full * p /\ full * q \in Nat /\ full * p \in Nat
    BY <1>1, <1>4
  <2> HIDE DEF q, p, full, within
  <2> QED BY <1>4, <1>5, <2>1, <2>2
<1> HIDE DEF q, p
<1> QED BY <1>1, <1>6, <1>7

LEMMA AmountIs ==
  ASSUME NEW rate \in Nat, NEW t \in Nat, NEW u \in Nat
  PROVE  StreamedAmt(rate, t, u) = Upto(rate, u) - Upto(rate, t)
<1> DEFINE full == (CycleSecs * rate) \div Multiplier
           w(x) == ((x % CycleSecs) * rate) \div Multiplier
           q == t \div CycleSecs
           p == u \div CycleSecs
<1>1. CycleSecs * rate \in Nat /\ (t % CycleSecs) * rate \in Nat /\ (u % CycleSecs) * rate \in Nat
  BY TimeSplits, Constants, NatTimes
<1>2. full \in Nat /\ w(t) \in Nat /\ w(u) \in Nat /\ q \in Nat /\ p \in Nat
  BY <1>1, TimeSplits, DivNat, Constants
<1>3. StreamedAmt(rate, t, u) = (p - q) * full + w(u) - w(t)
  BY DEF StreamedAmt
<1>4. Upto(rate, t) = q * full + w(t) /\ Upto(rate, u) = p * full + w(u)
  BY DEF Upto
<1> HIDE DEF full, w, q, p
<1>5. (p - q) * full = p * full - q * full /\ p * full \in Nat /\ q * full \in Nat
  BY <1>2
<1> QED BY <1>2, <1>3, <1>4, <1>5

-----------------------------------------------------------------------------
(* What a stream pays in a window of time.                                 *)

IsStream(c) == c \in [to : Receivers, id : Nat, rate : Nat, start : 0..Forever, duration : 0..Forever]

\* A configuration: the state of a sender, or an entry of its history.
IsConfig(e) == e.updateTime \in 0..Forever /\ e.maxEnd \in 0..Forever

Starts(c, e) == IF c.start = 0 THEN e.updateTime ELSE c.start

Ends(c, e) == IF c.duration = 0 \/ Starts(c, e) + c.duration > e.maxEnd THEN e.maxEnd
              ELSE Starts(c, e) + c.duration

\* What stream c of configuration e pays from second a on, and before b.
Flow(c, e, a, b) == RangeAmt(c, StreamRange(c, e.updateTime, e.maxEnd, a, b))

LEMMA StreamTimes ==
  ASSUME NEW c, IsStream(c), NEW e, IsConfig(e)
  PROVE  /\ c.rate \in Nat /\ c.to \in Receivers
         /\ Starts(c, e) \in 0..Forever
         /\ Ends(c, e) \in 0..Forever /\ Ends(c, e) <= e.maxEnd
BY Constants DEF IsStream, IsConfig, Starts, Ends

LEMMA RangeIs ==
  ASSUME NEW c, NEW e, NEW a, NEW b
  PROVE  LET range == StreamRange(c, e.updateTime, e.maxEnd, a, b)
         IN  /\ range.from = Larger(Starts(c, e), a)
             /\ range.to = Larger(Larger(Starts(c, e), a), Lesser(Ends(c, e), b))
BY DEF StreamRange, Starts, Ends

LEMMA FlowIs ==
  ASSUME NEW c, IsStream(c), NEW e, IsConfig(e), NEW a \in Nat, NEW b \in Nat
  PROVE  LET from == Larger(Starts(c, e), a)
             to == Larger(from, Lesser(Ends(c, e), b))
         IN  /\ from \in Nat /\ to \in Nat /\ from <= to
             /\ Upto(c.rate, from) \in Nat /\ Upto(c.rate, to) \in Nat
             /\ Flow(c, e, a, b) = Upto(c.rate, to) - Upto(c.rate, from)
             /\ Flow(c, e, a, b) \in Nat
<1> DEFINE from == Larger(Starts(c, e), a)
           to == Larger(from, Lesser(Ends(c, e), b))
<1>1. c.rate \in Nat /\ Starts(c, e) \in Nat /\ Ends(c, e) \in Nat
  BY StreamTimes
<1>2. from \in Nat /\ to \in Nat /\ from <= to
  BY <1>1 DEF Larger, Lesser
<1>3. Flow(c, e, a, b) = StreamedAmt(c.rate, from, to)
  BY RangeIs DEF Flow, RangeAmt
<1> HIDE DEF from, to
<1>4. Flow(c, e, a, b) = Upto(c.rate, to) - Upto(c.rate, from)
  BY <1>1, <1>2, <1>3, AmountIs
<1>5. /\ Upto(c.rate, from) \in Nat /\ Upto(c.rate, to) \in Nat
      /\ Upto(c.rate, from) <= Upto(c.rate, to)
  BY <1>1, <1>2, UptoIs, UptoGrows
<1>6. Flow(c, e, a, b) \in Nat
  BY <1>4, <1>5
<1> QED BY <1>2, <1>4, <1>5, <1>6 DEF from, to

LEMMA FlowNone ==
  ASSUME NEW c, IsStream(c), NEW e, IsConfig(e), NEW a \in Nat, NEW b \in Nat,
         b <= a \/ Ends(c, e) <= a \/ b <= Starts(c, e)
  PROVE  Flow(c, e, a, b) = 0
<1> DEFINE from == Larger(Starts(c, e), a)
           to == Larger(from, Lesser(Ends(c, e), b))
<1>1. to = from
  <2>1. Starts(c, e) \in Nat /\ Ends(c, e) \in Nat
    BY StreamTimes
  <2> QED BY <2>1 DEF Larger, Lesser
<1>2. Flow(c, e, a, b) = Upto(c.rate, to) - Upto(c.rate, from) /\ Upto(c.rate, from) \in Nat
  BY FlowIs
<1> HIDE DEF from, to
<1> QED BY <1>1, <1>2

\* Windows add up.
LEMMA FlowSplits ==
  ASSUME NEW c, IsStream(c), NEW e, IsConfig(e),
         NEW a \in Nat, NEW b \in Nat, NEW d \in Nat, a <= b, b <= d
  PROVE  Flow(c, e, a, d) = Flow(c, e, a, b) + Flow(c, e, b, d)
<1> DEFINE U(t) == Upto(c.rate, t)
           S == Starts(c, e)
           E == Ends(c, e)
<1>1. S \in Nat /\ E \in Nat
  BY StreamTimes
<1>2. /\ Flow(c, e, a, d) = U(Larger(Larger(S, a), Lesser(E, d))) - U(Larger(S, a))
      /\ Flow(c, e, a, b) = U(Larger(Larger(S, a), Lesser(E, b))) - U(Larger(S, a))
      /\ Flow(c, e, b, d) = U(Larger(Larger(S, b), Lesser(E, d))) - U(Larger(S, b))
      /\ U(Larger(Larger(S, a), Lesser(E, d))) \in Nat /\ U(Larger(S, a)) \in Nat
      /\ U(Larger(Larger(S, a), Lesser(E, b))) \in Nat
      /\ U(Larger(Larger(S, b), Lesser(E, d))) \in Nat /\ U(Larger(S, b)) \in Nat
  BY FlowIs
<1> HIDE DEF U, S, E
<1>3. CASE b <= S
  <2>1. /\ Larger(Larger(S, a), Lesser(E, b)) = S /\ Larger(S, a) = S /\ Larger(S, b) = S
    BY <1>1, <1>3 DEF Larger, Lesser
  <2> QED BY <1>2, <2>1
<1>4. CASE S < b /\ b <= E
  <2>1. /\ Larger(Larger(S, a), Lesser(E, b)) = b /\ Larger(S, b) = b
        /\ Larger(Larger(S, a), Lesser(E, d)) = Lesser(E, d) /\ Larger(b, Lesser(E, d)) = Lesser(E, d)
    BY <1>1, <1>4 DEF Larger, Lesser
  <2> QED BY <1>2, <2>1
<1>5. CASE S < b /\ E < b
  <2>1. /\ Lesser(E, b) = E /\ Lesser(E, d) = E /\ Larger(S, b) = b /\ Larger(b, E) = b
    BY <1>1, <1>5 DEF Larger, Lesser
  <2> QED BY <1>2, <2>1
<1> QED BY <1>1, <1>3, <1>4, <1>5

\* Nothing is paid past the end.
LEMMA FlowEnds ==
  ASSUME NEW c, IsStream(c), NEW e, IsConfig(e), NEW a \in Nat, NEW b \in Nat
  PROVE  /\ Flow(c, e, a, b) <= Flow(c, e, a, e.maxEnd)
         /\ b >= e.maxEnd => Flow(c, e, a, b) = Flow(c, e, a, e.maxEnd)
<1> DEFINE S == Starts(c, e)
           E == Ends(c, e)
           m == e.maxEnd
           from == Larger(S, a)
           to(x) == Larger(from, Lesser(E, x))
<1>1. S \in Nat /\ E \in Nat /\ m \in Nat /\ E <= m /\ c.rate \in Nat
  BY StreamTimes DEF IsConfig
<1>2. /\ from \in Nat /\ to(b) \in Nat /\ to(m) \in Nat /\ to(b) <= to(m)
      /\ b >= m => to(b) = to(m)
  BY <1>1 DEF Larger, Lesser
<1>3. /\ Flow(c, e, a, b) = Upto(c.rate, to(b)) - Upto(c.rate, from)
      /\ Flow(c, e, a, m) = Upto(c.rate, to(m)) - Upto(c.rate, from)
      /\ Upto(c.rate, from) \in Nat /\ Upto(c.rate, to(b)) \in Nat /\ Upto(c.rate, to(m)) \in Nat
  <2>1. ASSUME NEW x \in Nat
        PROVE  /\ Flow(c, e, a, x) = Upto(c.rate, to(x)) - Upto(c.rate, from)
               /\ Upto(c.rate, from) \in Nat /\ Upto(c.rate, to(x)) \in Nat
    BY FlowIs
  <2> HIDE DEF from, to, m
  <2> QED BY <1>1, <2>1 DEF m
<1>4. Upto(c.rate, to(b)) <= Upto(c.rate, to(m))
  <2> HIDE DEF to
  <2> QED BY <1>1, <1>2, UptoGrows
<1> HIDE DEF from, to, m
<1>5. Flow(c, e, a, b) <= Flow(c, e, a, m)
  BY <1>3, <1>4
<1>6. b >= m => Flow(c, e, a, b) = Flow(c, e, a, m)
  BY <1>2, <1>3
<1> QED BY <1>5, <1>6 DEF m

-----------------------------------------------------------------------------
(* Cycles.                                                                 *)

Last == CycleOf(Forever)

\* The second nearest to t in cycle k, or where the cycle ends.
Clip(t, k) == Larger((k - 1) * CycleSecs, Lesser(t, k * CycleSecs))

LEMMA BoundsAre ==
  ASSUME NEW k \in Nat
  PROVE  /\ k * CycleSecs \in Nat
         /\ (k + 1) * CycleSecs = k * CycleSecs + CycleSecs
         /\ k # 0 => (k - 1) * CycleSecs \in Nat /\ k * CycleSecs = (k - 1) * CycleSecs + CycleSecs
         /\ (k * CycleSecs) \div CycleSecs = k
         /\ (k * CycleSecs) % CycleSecs = 0
<1>1. CycleSecs \in Nat \ {0}
  BY Constants
<1>2. /\ k * CycleSecs \in Nat
      /\ (k + 1) * CycleSecs = k * CycleSecs + CycleSecs
      /\ k # 0 => (k - 1) * CycleSecs \in Nat /\ k * CycleSecs = (k - 1) * CycleSecs + CycleSecs
  <2>1. k * CycleSecs \in Nat /\ (k + 1) * CycleSecs = k * CycleSecs + CycleSecs
    BY <1>1
  <2>2. ASSUME k # 0
        PROVE  (k - 1) * CycleSecs \in Nat /\ k * CycleSecs = (k - 1) * CycleSecs + CycleSecs
    <3>1. PICK j \in Nat : k = j + 1
      <4>1. k - 1 \in Nat /\ k = (k - 1) + 1
        BY <2>2
      <4> QED BY <4>1
    <3>2. j * CycleSecs \in Nat /\ (j + 1) * CycleSecs = j * CycleSecs + CycleSecs
      BY <1>1
    <3> QED BY <3>1, <3>2
  <2> QED BY <2>1, <2>2
<1> DEFINE t == k * CycleSecs
           q == t \div CycleSecs
           r == t % CycleSecs
<1>3. t \in Nat /\ t = CycleSecs * k
  BY <1>1
<1> HIDE DEF t
<1>4. q \in Nat /\ r \in 0..CycleSecs - 1 /\ t = CycleSecs * q + r /\ CycleSecs * q \in Nat
  BY <1>3, TimeSplits
<1> HIDE DEF q, r
<1>5. ~(q < k)
  <2> SUFFICES ASSUME q < k
               PROVE  FALSE
    OBVIOUS
  <2>1. CycleSecs * q + CycleSecs <= CycleSecs * k
    BY <1>1, <1>4, Factor
  <2> QED BY <1>1, <1>3, <1>4, <2>1
<1>6. ~(k < q)
  <2> SUFFICES ASSUME k < q
               PROVE  FALSE
    OBVIOUS
  <2>1. CycleSecs * k + CycleSecs <= CycleSecs * q
    BY <1>1, <1>4, Factor
  <2> QED BY <1>1, <1>3, <1>4, <2>1
<1>7. q = k
  BY <1>4, <1>5, <1>6
<1>8. r = 0
  BY <1>1, <1>3, <1>4, <1>7
<1> QED BY <1>2, <1>7, <1>8 DEF t, q, r

LEMMA BoundsOrdered ==
  ASSUME NEW j \in Nat, NEW k \in Nat, j <= k
  PROVE  /\ j * CycleSecs <= k * CycleSecs
         /\ j < k => j * CycleSecs <= (k - 1) * CycleSecs
<1>1. CycleSecs \in Nat
  BY Constants
<1>2. \A x, y \in Nat : x <= y => x * CycleSecs <= y * CycleSecs
  <2> TAKE x \in Nat, y \in Nat
  <2>1. x * CycleSecs = CycleSecs * x /\ y * CycleSecs = CycleSecs * y
    BY <1>1
  <2> QED BY <1>1, <2>1, TimesOrdered
<1>3. j < k => k - 1 \in Nat /\ j <= k - 1
  OBVIOUS
<1> QED BY <1>2, <1>3

LEMMA CycleIs ==
  ASSUME NEW t \in Nat
  PROVE  /\ CycleOf(t) \in Nat \ {0} /\ CycleOf(t) - 1 = t \div CycleSecs
         /\ (CycleOf(t) - 1) * CycleSecs \in Nat
         /\ t = (CycleOf(t) - 1) * CycleSecs + (t % CycleSecs)
         /\ t < CycleOf(t) * CycleSecs
<1> DEFINE q == t \div CycleSecs
<1>1. /\ CycleSecs \in Nat \ {0} /\ q \in Nat /\ (t % CycleSecs) \in 0..CycleSecs - 1
      /\ t = CycleSecs * q + (t % CycleSecs)
  BY TimeSplits, Constants
<1>2. CycleOf(t) = q + 1
  BY DEF CycleOf
<1> HIDE DEF q
<1>3. CycleSecs * q = q * CycleSecs /\ q * CycleSecs \in Nat /\ (q + 1) * CycleSecs = q * CycleSecs + CycleSecs
  BY <1>1, BoundsAre
<1>4. CycleOf(t) - 1 = q
  BY <1>1, <1>2
<1>5. t < (q + 1) * CycleSecs
  BY <1>1, <1>3
<1> QED BY <1>1, <1>2, <1>3, <1>4, <1>5 DEF q

\* Which cycles a second comes after, and before.
LEMMA CycleBounds ==
  ASSUME NEW t \in Nat, NEW k \in Nat \ {0}
  PROVE  /\ k < CycleOf(t) => k * CycleSecs <= t
         /\ CycleOf(t) < k => t < (k - 1) * CycleSecs
         /\ CycleOf(t) = k => (k - 1) * CycleSecs <= t /\ t < k * CycleSecs
<1>1. /\ CycleOf(t) \in Nat \ {0} /\ (CycleOf(t) - 1) * CycleSecs \in Nat
      /\ t = (CycleOf(t) - 1) * CycleSecs + (t % CycleSecs)
      /\ t < CycleOf(t) * CycleSecs /\ (t % CycleSecs) \in 0..CycleSecs - 1
      /\ k * CycleSecs \in Nat /\ (k - 1) * CycleSecs \in Nat /\ CycleSecs \in Nat
      /\ CycleOf(t) * CycleSecs \in Nat
  BY CycleIs, TimeSplits, BoundsAre, Constants
<1>2. k < CycleOf(t) => k * CycleSecs <= (CycleOf(t) - 1) * CycleSecs
  BY <1>1, BoundsOrdered
<1>3. CycleOf(t) < k => CycleOf(t) * CycleSecs <= (k - 1) * CycleSecs
  BY <1>1, BoundsOrdered
<1> QED BY <1>1, <1>2, <1>3

LEMMA CycleGrows ==
  ASSUME NEW t \in Nat, NEW u \in Nat, t <= u
  PROVE  CycleOf(t) <= CycleOf(u)
BY DivOrdered, DivNat, Constants DEF CycleOf

LEMMA CyclesAre ==
  /\ IsFiniteSet(Cycles) /\ Last \in Nat \ {0} /\ Cycles = 1..Last
  /\ Forever < Last * CycleSecs
  /\ \A t \in 0..Forever : CycleOf(t) \in Cycles
<1>1. Last \in Nat \ {0} /\ Forever < Last * CycleSecs
  BY CycleIs, Constants DEF Last
<1>2. Cycles = 1..Last
  BY DEF Cycles, Last
<1>3. IsFiniteSet(Cycles)
  BY <1>1, <1>2, FS_Interval
<1>4. ASSUME NEW t \in 0..Forever
      PROVE  CycleOf(t) \in Cycles
  <2>1. t \in Nat /\ t <= Forever /\ Forever \in Nat
    BY Constants
  <2>2. CycleOf(t) \in Nat \ {0} /\ CycleOf(t) <= Last
    BY <2>1, CycleIs, CycleGrows DEF Last
  <2> QED BY <1>1, <1>2, <2>2
<1> QED BY <1>1, <1>2, <1>3, <1>4

LEMMA ClipIs ==
  ASSUME NEW t \in Nat, NEW k \in Nat \ {0}
  PROVE  /\ Clip(t, k) \in Nat /\ k * CycleSecs \in Nat /\ (k - 1) * CycleSecs \in Nat
         /\ (k - 1) * CycleSecs <= Clip(t, k) /\ Clip(t, k) <= k * CycleSecs
         /\ CycleOf(t) = k => Clip(t, k) = t
         /\ t >= k * CycleSecs => Clip(t, k) = k * CycleSecs
         /\ t <= (k - 1) * CycleSecs => Clip(t, k) = (k - 1) * CycleSecs
         /\ (k - 1) * CycleSecs <= t /\ t <= k * CycleSecs => Clip(t, k) = t
<1>1. /\ k * CycleSecs \in Nat /\ (k - 1) * CycleSecs \in Nat /\ CycleSecs \in Nat
      /\ k * CycleSecs = (k - 1) * CycleSecs + CycleSecs
      /\ CycleOf(t) = k => (k - 1) * CycleSecs <= t /\ t < k * CycleSecs
  BY BoundsAre, CycleBounds, Constants
<1> QED BY <1>1 DEF Clip, Larger, Lesser

-----------------------------------------------------------------------------
(* Deltas.                                                                 *)

Tables == [Cycles -> [thisCycle : Int, nextCycle : Int]]

\* What each entry of the deltas d adds to the amount of cycle k.
Share(d, k) == [j \in Cycles |-> (IF j <= k THEN d[j].thisCycle ELSE 0)
                                 + (IF j < k THEN d[j].nextCycle ELSE 0)]

\* The amount of cycle k; that of Last + 1 is the sum of all deltas.
Cumulated(d, k) == SumFunctionOnSet(Share(d, k), Cycles)

LEMMA TableIs ==
  ASSUME NEW d \in Tables, NEW j \in Cycles
  PROVE  /\ d[j].thisCycle \in Int /\ d[j].nextCycle \in Int
         /\ d[j] = [thisCycle |-> d[j].thisCycle, nextCycle |-> d[j].nextCycle]
         /\ j \in Nat \ {0} /\ j <= Last
BY CyclesAre DEF Tables

LEMMA TablesAre ==
  ASSUME NEW d, DOMAIN d = Cycles, d = [j \in Cycles |-> d[j]],
         \A j \in Cycles : d[j] \in [thisCycle : Int, nextCycle : Int]
  PROVE  d \in Tables
BY DEF Tables

LEMMA ShareIs ==
  ASSUME NEW d \in Tables, NEW k \in Nat
  PROVE  /\ \A j \in Cycles : Share(d, k)[j] \in Int
         /\ Cumulated(d, k) \in Int
<1>1. ASSUME NEW j \in Cycles
      PROVE  Share(d, k)[j] \in Int
  <2>1. d[j].thisCycle \in Int /\ d[j].nextCycle \in Int
    BY TableIs
  <2> QED BY <2>1 DEF Share
<1> QED BY <1>1, SumInt, CyclesAre DEF Cumulated

LEMMA NoDeltaIs ==
  /\ NoDeltas \in Tables
  /\ \A k \in Nat : Cumulated(NoDeltas, k) = 0
<1>1. NoDeltas \in Tables
  BY DEF NoDeltas, NoDelta, Tables
<1>2. ASSUME NEW k \in Nat
      PROVE  Cumulated(NoDeltas, k) = 0
  <2>1. \A j \in Cycles : Share(NoDeltas, k)[j] = 0
    BY DEF Share, NoDeltas, NoDelta
  <2> QED BY <2>1, SumZero, CyclesAre DEF Cumulated
<1> QED BY <1>1, <1>2

LEMMA PlusIs ==
  ASSUME NEW d \in Tables, NEW e \in Tables
  PROVE  /\ Plus(d, e) \in Tables
         /\ \A k \in Nat : Cumulated(Plus(d, e), k) = Cumulated(d, k) + Cumulated(e, k)
         /\ \A j \in Cycles : d[j] = NoDelta /\ e[j] = NoDelta => Plus(d, e)[j] = NoDelta
<1>1. \A j \in Cycles : /\ d[j].thisCycle \in Int /\ d[j].nextCycle \in Int
                        /\ e[j].thisCycle \in Int /\ e[j].nextCycle \in Int
                        /\ j \in Nat
  BY TableIs
<1>2. Plus(d, e) \in Tables
  BY <1>1 DEF Plus, Tables
<1>3. ASSUME NEW k \in Nat
      PROVE  Cumulated(Plus(d, e), k) = Cumulated(d, k) + Cumulated(e, k)
  <2>1. ASSUME NEW j \in Cycles
        PROVE  /\ Share(d, k)[j] \in Int /\ Share(e, k)[j] \in Int
               /\ Share(Plus(d, e), k)[j] = Share(d, k)[j] + Share(e, k)[j]
    BY <1>1 DEF Share, Plus
  <2> QED BY <2>1, SumAdds, CyclesAre DEF Cumulated
<1>4. \A j \in Cycles : d[j] = NoDelta /\ e[j] = NoDelta => Plus(d, e)[j] = NoDelta
  BY DEF Plus, NoDelta
<1> QED BY <1>2, <1>3, <1>4

LEMMA SumDeltasIs ==
  ASSUME NEW S, IsFiniteSet(S), NEW f, DOMAIN f = S, \A x \in S : f[x] \in Tables
  PROVE  /\ SumDeltas(f) \in Tables
         /\ \A k \in Nat : Cumulated(SumDeltas(f), k)
                           = SumFunctionOnSet([x \in S |-> Cumulated(f[x], k)], S)
         /\ \A j \in Cycles : (\A x \in S : f[x][j] = NoDelta) => SumDeltas(f)[j] = NoDelta
<1> DEFINE this(j) == [x \in S |-> f[x][j].thisCycle]
           next(j) == [x \in S |-> f[x][j].nextCycle]
<1>1. \A j \in Cycles : SumDeltas(f)[j] = [thisCycle |-> SumFunctionOnSet(this(j), S),
                                           nextCycle |-> SumFunctionOnSet(next(j), S)]
  BY DEF SumDeltas, SumFunction
<1>2. \A j \in Cycles, x \in S : this(j)[x] \in Int /\ next(j)[x] \in Int
  BY TableIs
<1>3. \A j \in Cycles : SumFunctionOnSet(this(j), S) \in Int /\ SumFunctionOnSet(next(j), S) \in Int
  <2> TAKE j \in Cycles
  <2>1. \A x \in S : this(j)[x] \in Int /\ next(j)[x] \in Int
    BY <1>2
  <2> HIDE DEF this, next
  <2> QED BY <2>1, SumInt
<1>4. SumDeltas(f) \in Tables
  <2> HIDE DEF this, next
  <2>1. ASSUME NEW j \in Cycles
        PROVE  SumDeltas(f)[j] \in [thisCycle : Int, nextCycle : Int]
    <3>1. SumFunctionOnSet(this(j), S) \in Int /\ SumFunctionOnSet(next(j), S) \in Int
      BY <1>3
    <3>2. SumDeltas(f)[j] = [thisCycle |-> SumFunctionOnSet(this(j), S),
                             nextCycle |-> SumFunctionOnSet(next(j), S)]
      BY <1>1
    <3> QED BY <3>1, <3>2
  <2>2. DOMAIN SumDeltas(f) = Cycles /\ SumDeltas(f) = [j \in Cycles |-> SumDeltas(f)[j]]
    BY DEF SumDeltas
  <2> QED BY <2>1, <2>2, TablesAre
<1>5. ASSUME NEW k \in Nat
      PROVE  Cumulated(SumDeltas(f), k) = SumFunctionOnSet([x \in S |-> Cumulated(f[x], k)], S)
  <2> DEFINE a == [j \in Cycles |-> [x \in S |-> Share(f[x], k)[j]]]
             b == [x \in S |-> Share(f[x], k)]
             h == Share(SumDeltas(f), k)
             g == [x \in S |-> Cumulated(f[x], k)]
  <2>1. \A j \in Cycles, x \in S : a[j][x] \in Int /\ b[x][j] = a[j][x]
    BY ShareIs
  <2>2. ASSUME NEW j \in Cycles
        PROVE  h[j] = SumFunctionOnSet(a[j], S)
    <3>1. j \in Nat
      BY TableIs, NoDeltaIs
    <3>2. h[j] = (IF j <= k THEN SumFunctionOnSet(this(j), S) ELSE 0)
                 + (IF j < k THEN SumFunctionOnSet(next(j), S) ELSE 0)
      <4>1. h[j] = (IF j <= k THEN SumDeltas(f)[j].thisCycle ELSE 0)
                   + (IF j < k THEN SumDeltas(f)[j].nextCycle ELSE 0)
        BY DEF Share
      <4>2. SumDeltas(f)[j] = [thisCycle |-> SumFunctionOnSet(this(j), S),
                               nextCycle |-> SumFunctionOnSet(next(j), S)]
        BY <1>1
      <4> HIDE DEF h, this, next
      <4> QED BY <4>1, <4>2
    <3>3. \A x \in S : /\ this(j)[x] \in Int /\ next(j)[x] \in Int
                       /\ a[j][x] = (IF j <= k THEN this(j)[x] ELSE 0) + (IF j < k THEN next(j)[x] ELSE 0)
      BY <1>2 DEF Share
    <3>4. SumFunctionOnSet(this(j), S) \in Int /\ SumFunctionOnSet(next(j), S) \in Int
      BY <1>3
    <3> HIDE DEF this, next, a, h
    <3>5. CASE j < k
      <4>1. \A x \in S : a[j][x] = this(j)[x] + next(j)[x]
        BY <3>1, <3>3, <3>5
      <4>2. SumFunctionOnSet(a[j], S) = SumFunctionOnSet(this(j), S) + SumFunctionOnSet(next(j), S)
        BY <3>3, <4>1, SumAdds
      <4> QED BY <3>1, <3>2, <3>5, <4>2
    <3>6. CASE j = k
      <4>1. \A x \in S : a[j][x] = this(j)[x]
        BY <3>1, <3>3, <3>6
      <4>2. SumFunctionOnSet(a[j], S) = SumFunctionOnSet(this(j), S)
        BY <3>3, <4>1, SumSame
      <4> QED BY <3>1, <3>2, <3>4, <3>6, <4>2
    <3>7. CASE j > k
      <4>1. \A x \in S : a[j][x] = 0
        BY <3>1, <3>3, <3>7
      <4>2. SumFunctionOnSet(a[j], S) = 0
        BY <4>1, SumZero
      <4> QED BY <3>1, <3>2, <3>7, <4>2
    <3> QED BY <3>1, <3>5, <3>6, <3>7
  <2>3. \A x \in S : g[x] = SumFunctionOnSet(b[x], Cycles)
    BY DEF Cumulated
  <2>4. Cumulated(SumDeltas(f), k) = SumFunctionOnSet(h, Cycles)
    BY DEF Cumulated
  <2> HIDE DEF a, b, h, g
  <2>5. SumFunctionOnSet(h, Cycles) = SumFunctionOnSet(g, S)
    <3>1. IsFiniteSet(Cycles)
      BY CyclesAre
    <3>2. Transposed(a, b, Cycles, S) /\ RowSums(h, Cycles, a, S) /\ RowSums(g, S, b, Cycles)
      BY <2>1, <2>2, <2>3 DEF Transposed, RowSums
    <3> QED BY <3>1, <3>2, SumExchange
  <2> QED BY <2>4, <2>5 DEF g
<1>6. ASSUME NEW j \in Cycles, \A x \in S : f[x][j] = NoDelta
      PROVE  SumDeltas(f)[j] = NoDelta
  <2>1. \A x \in S : this(j)[x] = 0 /\ next(j)[x] = 0
    BY <1>6 DEF NoDelta
  <2>2. SumDeltas(f)[j] = [thisCycle |-> SumFunctionOnSet(this(j), S),
                           nextCycle |-> SumFunctionOnSet(next(j), S)]
    BY <1>1
  <2> HIDE DEF this, next
  <2>3. SumFunctionOnSet(this(j), S) = 0 /\ SumFunctionOnSet(next(j), S) = 0
    BY <2>1, SumZero
  <2> QED BY <2>2, <2>3 DEF NoDelta
<1> QED BY <1>4, <1>5, <1>6

\* A sum of which one element counts.
LEMMA SumOne ==
  ASSUME NEW S, IsFiniteSet(S), NEW a \in S, NEW f, f[a] \in Int, \A x \in S \ {a} : f[x] = 0
  PROVE  SumFunctionOnSet(f, S) = f[a]
<1> DEFINE z == [x \in S |-> 0]
<1>1. \A x \in S : z[x] \in Int /\ z[x] = 0
  OBVIOUS
<1>2. \A x \in S \ {a} : f[x] = z[x]
  OBVIOUS
<1> HIDE DEF z
<1>3. SumFunctionOnSet(f, S) = SumFunctionOnSet(z, S) - z[a] + f[a]
  BY <1>1, <1>2, SumPut
<1>4. SumFunctionOnSet(z, S) = 0
  BY <1>1, SumZero
<1> QED BY <1>1, <1>3, <1>4

LEMMA UptoParts ==
  ASSUME NEW rate \in Nat
  PROVE  LET full == (CycleSecs * rate) \div Multiplier
             within(t) == ((t % CycleSecs) * rate) \div Multiplier
         IN  /\ full \in Nat
             /\ \A t \in Nat : /\ within(t) \in Nat
                               /\ Upto(rate, t) = (CycleOf(t) - 1) * full + within(t)
             /\ \A k \in Nat : Upto(rate, k * CycleSecs) = k * full
<1> DEFINE full == (CycleSecs * rate) \div Multiplier
           within(t) == ((t % CycleSecs) * rate) \div Multiplier
<1>1. full \in Nat
  <2>1. CycleSecs * rate \in Nat
    BY NatTimes, Constants
  <2> QED BY <2>1, DivNat, Constants
<1>2. ASSUME NEW t \in Nat
      PROVE  within(t) \in Nat /\ Upto(rate, t) = (CycleOf(t) - 1) * full + within(t)
  <2>1. (t % CycleSecs) * rate \in Nat /\ CycleOf(t) - 1 = t \div CycleSecs
    BY TimeSplits, NatTimes, CycleIs
  <2>2. within(t) \in Nat
    BY <2>1, DivNat, Constants
  <2>3. Upto(rate, t) = (t \div CycleSecs) * full + within(t)
    BY DEF Upto
  <2> QED BY <2>1, <2>2, <2>3
<1>3. ASSUME NEW k \in Nat
      PROVE  Upto(rate, k * CycleSecs) = k * full
  <2>1. (k * CycleSecs) \div CycleSecs = k /\ (k * CycleSecs) % CycleSecs = 0
    BY BoundsAre
  <2>2. Upto(rate, k * CycleSecs) = k * full + (0 * rate) \div Multiplier
    BY <2>1 DEF Upto
  <2>3. 0 * rate = 0 /\ 0 \div Multiplier = 0
    BY Constants
  <2>4. k * full \in Nat
    BY <1>1, NatTimes
  <2> QED BY <2>2, <2>3, <2>4
<1> QED BY <1>1, <1>2, <1>3

\* What a stream of that rate pays in cycle k from second t on.
Onward(rate, t, k) == Upto(rate, k * CycleSecs) - Upto(rate, Clip(t, k))

LEMMA QuotientIs ==
  ASSUME NEW x \in Nat
  PROVE  /\ Quotient(x) = x \div Multiplier /\ Quotient(x) \in Nat
         /\ Quotient(-x) = -(x \div Multiplier)
<1>1. x \div Multiplier \in Nat /\ Multiplier \in Nat \ {0} /\ 0 \div Multiplier = 0
  BY DivNat, Constants
<1>2. Quotient(x) = x \div Multiplier
  BY DEF Quotient
<1>3. CASE x <= 0
  <2>1. x \div Multiplier <= 0
    BY <1>1, <1>3
  <2>2. \A y \in Nat : y <= 0 => -y = y
    OBVIOUS
  <2>3. -x = x /\ -(x \div Multiplier) = x \div Multiplier
    BY <1>1, <1>3, <2>1, <2>2
  <2> QED BY <1>1, <1>2, <2>3
<1>4. CASE x > 0
  <2>1. ~(-x >= 0) /\ -(-x) = x
    BY <1>4
  <2>2. Quotient(-x) = -((-(-x)) \div Multiplier)
    BY <2>1 DEF Quotient
  <2> QED BY <1>1, <1>2, <2>1, <2>2
<1> QED BY <1>3, <1>4

\* What one delta adds to every cycle: a stream that starts at t, or stops.
LEMMA DeltaIs ==
  ASSUME NEW rate \in Nat, NEW t \in Nat, CycleOf(t) \in Cycles
  PROVE  /\ Delta(t, rate) \in Tables /\ Delta(t, -rate) \in Tables
         /\ \A k \in Nat \ {0} : /\ Onward(rate, t, k) \in Int
                                 /\ Cumulated(Delta(t, rate), k) = Onward(rate, t, k)
                                 /\ Cumulated(Delta(t, -rate), k) = -Onward(rate, t, k)
         /\ \A j \in Cycles \ {CycleOf(t)} : Delta(t, rate)[j] = NoDelta /\ Delta(t, -rate)[j] = NoDelta
<1> DEFINE full == (CycleSecs * rate) \div Multiplier
           within == ((t % CycleSecs) * rate) \div Multiplier
           c == CycleOf(t)
           Out(d, x, y) == /\ d \in [Cycles -> [thisCycle : Int, nextCycle : Int]]
                           /\ d[c] = [thisCycle |-> x - y, nextCycle |-> y]
                           /\ \A j \in Cycles \ {c} : d[j] = NoDelta
<1>1. /\ full \in Nat /\ within \in Nat
      /\ Upto(rate, t) = (c - 1) * full + within
      /\ \A k \in Nat : Upto(rate, k * CycleSecs) = k * full
  BY UptoParts
<1>2. /\ CycleSecs * rate \in Nat /\ (t % CycleSecs) * rate \in Nat
      /\ CycleSecs * (-rate) = -(CycleSecs * rate)
      /\ (t % CycleSecs) * (-rate) = -((t % CycleSecs) * rate)
  <2>1. CycleSecs \in Nat /\ (t % CycleSecs) \in Nat
    BY TimeSplits, Constants
  <2> QED BY <2>1, NatTimes
<1>3. Out(Delta(t, rate), full, within)
  <2>1. Quotient(CycleSecs * rate) = full /\ Quotient((t % CycleSecs) * rate) = within
    BY <1>2, QuotientIs
  <2>2. Delta(t, rate) = [k \in Cycles |-> IF k = c THEN [thisCycle |-> full - within, nextCycle |-> within]
                                           ELSE NoDelta]
    BY <2>1 DEF Delta
  <2> HIDE DEF full, within, c
  <2> QED BY <1>1, <2>2 DEF NoDelta, c
<1>4. Out(Delta(t, -rate), -full, -within)
  <2>1. Quotient(CycleSecs * (-rate)) = -full /\ Quotient((t % CycleSecs) * (-rate)) = -within
    <3>1. Quotient(-(CycleSecs * rate)) = -full
      BY <1>2, QuotientIs
    <3>2. Quotient(-((t % CycleSecs) * rate)) = -within
      BY <1>2, QuotientIs
    <3> QED BY <1>2, <3>1, <3>2
  <2>2. Delta(t, -rate) = [k \in Cycles |->
                             IF k = c THEN [thisCycle |-> (-full) - (-within), nextCycle |-> -within]
                             ELSE NoDelta]
    BY <2>1 DEF Delta
  <2> HIDE DEF full, within, c
  <2> QED BY <1>1, <2>2 DEF NoDelta, c
<1>5. c \in Cycles /\ c \in Nat \ {0} /\ IsFiniteSet(Cycles) /\ \A j \in Cycles : j \in Nat
  BY CycleIs, CyclesAre
<1> HIDE DEF full, within
<1>6. ASSUME NEW d, NEW x \in Int, NEW y \in Int, Out(d, x, y), NEW k \in Nat \ {0}
      PROVE  Cumulated(d, k) = (IF c <= k THEN x - y ELSE 0) + (IF c < k THEN y ELSE 0)
  <2>1. d[c].thisCycle = x - y /\ d[c].nextCycle = y
    BY <1>6
  <2>2. Share(d, k)[c] = (IF c <= k THEN x - y ELSE 0) + (IF c < k THEN y ELSE 0)
    BY <1>5, <2>1 DEF Share
  <2>3. \A j \in Cycles \ {c} : Share(d, k)[j] = 0
    BY <1>6 DEF Share, NoDelta
  <2>4. Share(d, k)[c] \in Int
    BY <2>2
  <2> HIDE DEF c
  <2> QED BY <1>5, <2>2, <2>3, <2>4, SumOne DEF Cumulated
<1>7. ASSUME NEW k \in Nat \ {0}
      PROVE  /\ Onward(rate, t, k) \in Int
             /\ Onward(rate, t, k) = (IF c <= k THEN full - within ELSE 0) + (IF c < k THEN within ELSE 0)
  <2>1. Upto(rate, k * CycleSecs) = k * full /\ Upto(rate, (k - 1) * CycleSecs) = (k - 1) * full
    <3>1. k - 1 \in Nat
      OBVIOUS
    <3> QED BY <1>1, <3>1
  <2>2. /\ (k - 1) * full + full = k * full /\ k * full \in Nat /\ (k - 1) * full \in Int
    BY <1>1
  <2>3. CASE c < k
    <3>1. Clip(t, k) = (k - 1) * CycleSecs
      <4>1. t < (k - 1) * CycleSecs
        BY <2>3, CycleBounds
      <4>2. t <= (k - 1) * CycleSecs
        <5>1. (k - 1) * CycleSecs \in Nat
          BY BoundsAre
        <5> QED BY <4>1, <5>1
      <4> QED BY <4>2, ClipIs
    <3> HIDE DEF c
    <3> QED BY <1>1, <1>5, <2>1, <2>2, <2>3, <3>1 DEF Onward
  <2>4. CASE c = k
    <3>1. Clip(t, k) = t
      BY <2>4, ClipIs
    <3>2. Upto(rate, t) = (k - 1) * full + within
      BY <1>1, <2>4
    <3> HIDE DEF c
    <3> QED BY <1>1, <1>5, <2>1, <2>2, <2>4, <3>1, <3>2 DEF Onward
  <2>5. CASE c > k
    <3>1. Clip(t, k) = k * CycleSecs
      <4>1. k < c
        BY <1>5, <2>5
      <4>2. t >= k * CycleSecs
        BY <4>1, CycleBounds, ClipIs
      <4> QED BY <4>2, ClipIs
    <3> HIDE DEF c
    <3> QED BY <1>1, <1>5, <2>1, <2>2, <2>5, <3>1 DEF Onward
  <2> HIDE DEF c
  <2> QED BY <1>5, <2>3, <2>4, <2>5
<1>8. ASSUME NEW k \in Nat \ {0}
      PROVE  /\ Cumulated(Delta(t, rate), k) = Onward(rate, t, k)
             /\ Cumulated(Delta(t, -rate), k) = -Onward(rate, t, k)
  <2>1. -full \in Int /\ -within \in Int /\ full \in Int /\ within \in Int
    BY <1>1
  <2>2. Cumulated(Delta(t, rate), k) = (IF c <= k THEN full - within ELSE 0) + (IF c < k THEN within ELSE 0)
    <3> HIDE DEF c, Out
    <3> QED BY <1>3, <1>6, <2>1
  <2>3. Cumulated(Delta(t, -rate), k) = (IF c <= k THEN (-full) - (-within) ELSE 0) + (IF c < k THEN -within ELSE 0)
    <3> HIDE DEF c, Out
    <3> QED BY <1>4, <1>6, <2>1
  <2>4. Onward(rate, t, k) = (IF c <= k THEN full - within ELSE 0) + (IF c < k THEN within ELSE 0)
    BY <1>7
  <2> HIDE DEF c
  <2> QED BY <1>5, <2>1, <2>2, <2>3, <2>4
<1> QED BY <1>3, <1>4, <1>7, <1>8 DEF Tables

\* A range of seconds adds what the stream pays in them.
LEMMA DeltaRangeIs ==
  ASSUME NEW rate \in Nat, NEW a \in Nat, NEW b \in Nat, CycleOf(a) \in Cycles, CycleOf(b) \in Cycles
  PROVE  /\ DeltaRange(a, b, rate) \in Tables /\ DeltaRange(a, b, -rate) \in Tables
         /\ \A k \in Nat \ {0} :
              /\ Upto(rate, Clip(a, k)) \in Nat /\ Upto(rate, Clip(b, k)) \in Nat
              /\ Cumulated(DeltaRange(a, b, rate), k) = Upto(rate, Clip(b, k)) - Upto(rate, Clip(a, k))
              /\ Cumulated(DeltaRange(a, b, -rate), k) = Upto(rate, Clip(a, k)) - Upto(rate, Clip(b, k))
         /\ \A j \in Cycles : j # CycleOf(a) /\ j # CycleOf(b) =>
              DeltaRange(a, b, rate)[j] = NoDelta /\ DeltaRange(a, b, -rate)[j] = NoDelta
<1>1. \A k \in Nat \ {0} : /\ Upto(rate, Clip(a, k)) \in Nat /\ Upto(rate, Clip(b, k)) \in Nat
                           /\ Upto(rate, k * CycleSecs) \in Nat
  BY ClipIs, UptoIs
<1>2. CASE a = b
  <2>1. DeltaRange(a, b, rate) = NoDeltas /\ DeltaRange(a, b, -rate) = NoDeltas
    BY <1>2 DEF DeltaRange
  <2>2. \A j \in Cycles : NoDeltas[j] = NoDelta
    BY DEF NoDeltas
  <2> QED BY <1>1, <1>2, <2>1, <2>2, NoDeltaIs
<1>3. CASE a # b
  <2>1. -(-rate) = rate
    OBVIOUS
  <2>2. /\ DeltaRange(a, b, rate) = Plus(Delta(a, rate), Delta(b, -rate))
        /\ DeltaRange(a, b, -rate) = Plus(Delta(a, -rate), Delta(b, rate))
    BY <1>3, <2>1 DEF DeltaRange
  <2>3. /\ Delta(a, rate) \in Tables /\ Delta(a, -rate) \in Tables
        /\ Delta(b, rate) \in Tables /\ Delta(b, -rate) \in Tables
    BY DeltaIs
  <2>4. DeltaRange(a, b, rate) \in Tables /\ DeltaRange(a, b, -rate) \in Tables
    BY <2>2, <2>3, PlusIs
  <2>5. ASSUME NEW k \in Nat \ {0}
        PROVE  /\ Cumulated(DeltaRange(a, b, rate), k) = Upto(rate, Clip(b, k)) - Upto(rate, Clip(a, k))
               /\ Cumulated(DeltaRange(a, b, -rate), k) = Upto(rate, Clip(a, k)) - Upto(rate, Clip(b, k))
    <3>1. /\ Cumulated(Delta(a, rate), k) = Onward(rate, a, k)
          /\ Cumulated(Delta(a, -rate), k) = -Onward(rate, a, k)
          /\ Cumulated(Delta(b, rate), k) = Onward(rate, b, k)
          /\ Cumulated(Delta(b, -rate), k) = -Onward(rate, b, k)
      BY DeltaIs
    <3>2. /\ Cumulated(DeltaRange(a, b, rate), k) = Cumulated(Delta(a, rate), k) + Cumulated(Delta(b, -rate), k)
          /\ Cumulated(DeltaRange(a, b, -rate), k) = Cumulated(Delta(a, -rate), k) + Cumulated(Delta(b, rate), k)
      BY <2>2, <2>3, PlusIs
    <3>3. /\ Onward(rate, a, k) = Upto(rate, k * CycleSecs) - Upto(rate, Clip(a, k))
          /\ Onward(rate, b, k) = Upto(rate, k * CycleSecs) - Upto(rate, Clip(b, k))
      BY DEF Onward
    <3> QED BY <1>1, <3>1, <3>2, <3>3
  <2>6. ASSUME NEW j \in Cycles, j # CycleOf(a), j # CycleOf(b)
        PROVE  DeltaRange(a, b, rate)[j] = NoDelta /\ DeltaRange(a, b, -rate)[j] = NoDelta
    <3>1. /\ Delta(a, rate)[j] = NoDelta /\ Delta(a, -rate)[j] = NoDelta
          /\ Delta(b, rate)[j] = NoDelta /\ Delta(b, -rate)[j] = NoDelta
      BY <2>6, DeltaIs
    <3> QED BY <2>2, <2>3, <3>1, PlusIs
  <2> QED BY <1>1, <2>4, <2>5, <2>6
<1> QED BY <1>2, <1>3

-----------------------------------------------------------------------------
(* What a configuration pays.                                              *)

\* The seconds in which stream c of configuration e is still to flow at t.
Future(c, e, t) == StreamRange(c, e.updateTime, e.maxEnd, t, Forever)

LEMMA FutureIs ==
  ASSUME NEW c, IsStream(c), NEW e, IsConfig(e), NEW t \in 0..Forever
  PROVE  /\ Future(c, e, t).from \in 0..Forever /\ Future(c, e, t).to \in 0..Forever
         /\ t <= Future(c, e, t).from /\ Future(c, e, t).from <= Future(c, e, t).to
         /\ Future(c, e, t).from = Larger(Starts(c, e), t)
         /\ Future(c, e, t).to = Larger(Larger(Starts(c, e), t), Ends(c, e))
         /\ CycleOf(Future(c, e, t).from) \in Cycles /\ CycleOf(Future(c, e, t).to) \in Cycles
<1>1. /\ Starts(c, e) \in 0..Forever /\ Ends(c, e) \in 0..Forever /\ Forever \in Nat
  BY StreamTimes, Constants
<1>2. /\ Future(c, e, t).from = Larger(Starts(c, e), t)
      /\ Future(c, e, t).to = Larger(Larger(Starts(c, e), t), Lesser(Ends(c, e), Forever))
  BY RangeIs DEF Future
<1>3. Lesser(Ends(c, e), Forever) = Ends(c, e)
  BY <1>1 DEF Lesser
<1>4. /\ Future(c, e, t).from \in 0..Forever /\ Future(c, e, t).to \in 0..Forever
      /\ t <= Future(c, e, t).from /\ Future(c, e, t).from <= Future(c, e, t).to
  BY <1>1, <1>2, <1>3 DEF Larger
<1> QED BY <1>2, <1>3, <1>4, CyclesAre

\* The part of those seconds that is in cycle k is a window of the stream.
LEMMA FutureFlows ==
  ASSUME NEW c, IsStream(c), NEW e, IsConfig(e), NEW t \in 0..Forever, NEW k \in Nat \ {0}
  PROVE  Upto(c.rate, Clip(Future(c, e, t).to, k)) - Upto(c.rate, Clip(Future(c, e, t).from, k))
         = IF CycleOf(t) <= k THEN Flow(c, e, Larger(t, (k - 1) * CycleSecs), k * CycleSecs) ELSE 0
<1> DEFINE S == Starts(c, e)
           E == Ends(c, e)
           from == Future(c, e, t).from
           to == Future(c, e, t).to
           lo == (k - 1) * CycleSecs
           hi == k * CycleSecs
           a == Larger(t, lo)
<1>1. /\ S \in Nat /\ E \in Nat /\ t \in Nat /\ lo \in Nat /\ hi \in Nat /\ lo <= hi
      /\ from \in Nat /\ to \in Nat /\ from = Larger(S, t) /\ to = Larger(Larger(S, t), E)
      /\ c.rate \in Nat
  <2>1. CycleSecs \in Nat
    BY Constants
  <2> QED BY <2>1, StreamTimes, FutureIs, BoundsAre
<1>2. Upto(c.rate, Clip(from, k)) \in Nat /\ Upto(c.rate, Clip(to, k)) \in Nat
  BY <1>1, ClipIs, UptoIs
<1>3. CASE CycleOf(t) <= k
  <2>1. t < hi
    <3>1. CycleOf(t) = k \/ CycleOf(t) < k
      BY <1>3, CycleIs
    <3>2. CycleOf(t) = k => t < hi
      BY CycleBounds
    <3>3. CycleOf(t) < k => t < lo
      BY CycleBounds
    <3> HIDE DEF lo, hi
    <3> QED BY <1>1, <3>1, <3>2, <3>3
  <2>2. a \in Nat /\ a <= hi
    <3> HIDE DEF lo, hi
    <3> QED BY <1>1, <2>1 DEF Larger
  <2>3. CASE from <= hi
    <3>1. Clip(from, k) = Larger(S, a) /\ Clip(to, k) = Larger(Larger(S, a), Lesser(E, hi))
      <4>1. Clip(from, k) = Larger(lo, Lesser(from, hi)) /\ Clip(to, k) = Larger(lo, Lesser(to, hi))
        BY DEF Clip
      <4> HIDE DEF S, E, from, to, lo, hi
      <4> QED BY <1>1, <2>1, <2>2, <2>3, <4>1 DEF Larger, Lesser
    <3>2. Flow(c, e, a, hi) = Upto(c.rate, Larger(Larger(S, a), Lesser(E, hi))) - Upto(c.rate, Larger(S, a))
      BY <1>1, <2>2, FlowIs
    <3> HIDE DEF S, E, from, to, a, hi
    <3> QED BY <1>3, <3>1, <3>2 DEF a, from, to, hi
  <2>4. CASE from > hi
    <3>1. S >= hi /\ to >= hi
      <4> HIDE DEF S, E, from, to, lo, hi
      <4> QED BY <1>1, <2>1, <2>4 DEF Larger
    <3>2. Clip(from, k) = hi /\ Clip(to, k) = hi
      <4>1. from >= hi /\ to >= hi
        BY <1>1, <2>4, <3>1
      <4> QED BY <1>1, <4>1, ClipIs
    <3>3. Flow(c, e, a, hi) = 0
      <4>1. hi <= Starts(c, e)
        BY <1>1, <3>1
      <4> HIDE DEF hi, a
      <4> QED BY <1>1, <2>2, <4>1, FlowNone
    <3>4. Upto(c.rate, Clip(to, k)) - Upto(c.rate, Clip(from, k)) = 0
      <4> HIDE DEF from, to, hi
      <4> QED BY <1>2, <3>2
    <3> QED BY <1>3, <3>3, <3>4
  <2> HIDE DEF from, hi
  <2> QED BY <1>1, <2>3, <2>4
<1>4. CASE ~(CycleOf(t) <= k)
  <2>1. hi <= t
    <3>1. k < CycleOf(t)
      BY <1>4, CycleIs
    <3> QED BY <3>1, CycleBounds
  <2>2. from >= hi /\ to >= hi
    <3>1. from >= t /\ to >= t
      <4> HIDE DEF S, E, from, to
      <4> QED BY <1>1 DEF Larger
    <3> HIDE DEF from, to, hi
    <3> QED BY <1>1, <2>1, <3>1
  <2>3. Clip(from, k) = hi /\ Clip(to, k) = hi
    BY <1>1, <2>2, ClipIs
  <2> HIDE DEF from, to, hi
  <2> QED BY <1>2, <1>4, <2>3 DEF from, to
<1> QED BY <1>3, <1>4

To(r, list) == {c \in list : c.to = r}

\* A configuration with its streams.
IsBook(e) == IsConfig(e) /\ IsFiniteSet(e.recv) /\ \A c \in e.recv : IsStream(c)

\* What e pays r, and everybody, from second a on and before b.
Paid(e, r, a, b) == SumFunctionOnSet([c \in To(r, e.recv) |-> Flow(c, e, a, b)], To(r, e.recv))
Spent(e, a, b) == SumFunctionOnSet([c \in e.recv |-> Flow(c, e, a, b)], e.recv)

LEMMA ToIs ==
  ASSUME NEW e, IsBook(e), NEW r
  PROVE  IsFiniteSet(To(r, e.recv)) /\ To(r, e.recv) \subseteq e.recv
<1>1. To(r, e.recv) \subseteq e.recv
  BY DEF To
<1> QED BY <1>1, FS_Subset DEF IsBook

LEMMA PaidIs ==
  ASSUME NEW e, IsBook(e), NEW r, NEW a \in Nat, NEW b \in Nat
  PROVE  /\ Paid(e, r, a, b) \in Nat
         /\ \A c \in To(r, e.recv) : Flow(c, e, a, b) \in Nat
<1>1. \A c \in To(r, e.recv) : Flow(c, e, a, b) \in Nat
  BY ToIs, FlowIs DEF IsBook
<1>2. SumFunctionOnSet([c \in To(r, e.recv) |-> Flow(c, e, a, b)], To(r, e.recv)) \in Nat
  <2> DEFINE f == [c \in To(r, e.recv) |-> Flow(c, e, a, b)]
  <2>1. \A c \in To(r, e.recv) : f[c] \in Nat
    BY <1>1
  <2>2. IsFiniteSet(To(r, e.recv))
    BY ToIs
  <2> HIDE DEF f
  <2>3. SumFunctionOnSet(f, To(r, e.recv)) \in Nat
    BY <2>1, <2>2, SumNat
  <2> QED BY <2>3 DEF f
<1> QED BY <1>1, <1>2 DEF Paid

LEMMA PaidNone ==
  ASSUME NEW e, IsBook(e), NEW r, NEW a \in Nat, NEW b \in Nat, b <= a \/ e.maxEnd <= a \/ e.recv = {}
  PROVE  Paid(e, r, a, b) = 0
<1> DEFINE f == [c \in To(r, e.recv) |-> Flow(c, e, a, b)]
<1>1. ASSUME NEW c \in To(r, e.recv)
      PROVE  f[c] = 0
  <2>1. c \in e.recv /\ IsStream(c) /\ IsConfig(e)
    BY ToIs DEF IsBook
  <2>2. Ends(c, e) <= e.maxEnd /\ Ends(c, e) \in Nat /\ e.maxEnd \in Nat
    BY <2>1, StreamTimes DEF IsConfig
  <2>3. b <= a \/ Ends(c, e) <= a
    BY <2>1, <2>2
  <2> QED BY <2>1, <2>3, FlowNone
<1> HIDE DEF f
<1>2. SumFunctionOnSet(f, To(r, e.recv)) = 0
  BY <1>1, ToIs, SumZero
<1> QED BY <1>2 DEF Paid, f

LEMMA PaidSplits ==
  ASSUME NEW e, IsBook(e), NEW r, NEW a \in Nat, NEW b \in Nat, NEW d \in Nat, a <= b, b <= d
  PROVE  Paid(e, r, a, d) = Paid(e, r, a, b) + Paid(e, r, b, d)
<1> DEFINE f(x, y) == [c \in To(r, e.recv) |-> Flow(c, e, x, y)]
<1>1. \A c \in To(r, e.recv) : /\ f(a, b)[c] \in Int /\ f(b, d)[c] \in Int
                               /\ f(a, d)[c] = f(a, b)[c] + f(b, d)[c]
  <2> TAKE c \in To(r, e.recv)
  <2>1. c \in e.recv /\ IsStream(c) /\ IsConfig(e)
    BY ToIs DEF IsBook
  <2> QED BY <2>1, FlowIs, FlowSplits
<1> HIDE DEF f
<1>2. SumFunctionOnSet(f(a, d), To(r, e.recv))
      = SumFunctionOnSet(f(a, b), To(r, e.recv)) + SumFunctionOnSet(f(b, d), To(r, e.recv))
  BY <1>1, ToIs, SumAdds
<1> QED BY <1>2 DEF Paid, f

LEMMA SpentIs ==
  ASSUME NEW e, IsBook(e), NEW a \in Nat, NEW b \in Nat
  PROVE  /\ Spent(e, a, b) \in Nat
         /\ b <= a \/ e.recv = {} => Spent(e, a, b) = 0
         /\ Spent(e, a, b) <= Spent(e, a, e.maxEnd)
         /\ b >= e.maxEnd => Spent(e, a, b) = Spent(e, a, e.maxEnd)
<1> DEFINE f(x) == [c \in e.recv |-> Flow(c, e, a, x)]
<1>1. IsFiniteSet(e.recv) /\ IsConfig(e) /\ e.maxEnd \in Nat /\ \A c \in e.recv : IsStream(c)
  BY DEF IsBook, IsConfig
<1>2. \A c \in e.recv : f(b)[c] \in Nat /\ f(e.maxEnd)[c] \in Nat
  BY <1>1, FlowIs
<1>3. \A c \in e.recv : f(b)[c] <= f(e.maxEnd)[c]
  BY <1>1, FlowEnds
<1>4. ASSUME b <= a \/ e.recv = {}
      PROVE  \A c \in e.recv : f(b)[c] = 0
  <2> SUFFICES ASSUME NEW c \in e.recv
               PROVE  f(b)[c] = 0
    OBVIOUS
  <2>1. b <= a /\ IsStream(c) /\ IsConfig(e)
    BY <1>1, <1>4
  <2> QED BY <2>1, FlowNone
<1>5. b >= e.maxEnd => \A c \in e.recv : f(b)[c] = f(e.maxEnd)[c]
  BY <1>1, FlowEnds
<1>6. Spent(e, a, b) = SumFunctionOnSet(f(b), e.recv) /\ Spent(e, a, e.maxEnd) = SumFunctionOnSet(f(e.maxEnd), e.recv)
  BY DEF Spent
<1> HIDE DEF f
<1>7. SumFunctionOnSet(f(b), e.recv) \in Nat
  BY <1>1, <1>2, SumNat
<1>8. b <= a \/ e.recv = {} => SumFunctionOnSet(f(b), e.recv) = 0
  BY <1>1, <1>4, SumZero
<1>9. SumFunctionOnSet(f(b), e.recv) <= SumFunctionOnSet(f(e.maxEnd), e.recv)
  BY <1>1, <1>2, <1>3, SumOrdered
<1>10. b >= e.maxEnd => SumFunctionOnSet(f(b), e.recv) = SumFunctionOnSet(f(e.maxEnd), e.recv)
  <2> SUFFICES ASSUME b >= e.maxEnd
               PROVE  SumFunctionOnSet(f(b), e.recv) = SumFunctionOnSet(f(e.maxEnd), e.recv)
    OBVIOUS
  <2>1. \A c \in e.recv : f(e.maxEnd)[c] \in Int /\ f(b)[c] = f(e.maxEnd)[c]
    BY <1>2, <1>5
  <2> QED BY <1>1, <2>1, SumSame
<1> QED BY <1>6, <1>7, <1>8, <1>9, <1>10

LEMMA SpentSplits ==
  ASSUME NEW e, IsBook(e), NEW a \in Nat, NEW b \in Nat, NEW d \in Nat, a <= b, b <= d
  PROVE  Spent(e, a, d) = Spent(e, a, b) + Spent(e, b, d)
<1> DEFINE f(x, y) == [c \in e.recv |-> Flow(c, e, x, y)]
<1>1. \A c \in e.recv : /\ f(a, b)[c] \in Int /\ f(b, d)[c] \in Int
                        /\ f(a, d)[c] = f(a, b)[c] + f(b, d)[c]
  <2> TAKE c \in e.recv
  <2>1. IsStream(c) /\ IsConfig(e)
    BY DEF IsBook
  <2> QED BY <2>1, FlowIs, FlowSplits
<1> HIDE DEF f
<1>2. SumFunctionOnSet(f(a, d), e.recv) = SumFunctionOnSet(f(a, b), e.recv) + SumFunctionOnSet(f(b, d), e.recv)
  BY <1>1, SumAdds DEF IsBook
<1> QED BY <1>2 DEF Spent, f

\* A sum taken label by label.
LEMMA SumByLabel ==
  ASSUME NEW S, IsFiniteSet(S), NEW T, IsFiniteSet(T), NEW f, \A c \in S : f[c] \in Int /\ c.to \in T,
         NEW g, \A r \in T : g[r] = SumFunctionOnSet(f, To(r, S))
  PROVE  SumFunctionOnSet(f, S) = SumFunctionOnSet(g, T)
<1> DEFINE x == [c \in S |-> [r \in T |-> IF c.to = r THEN f[c] ELSE 0]]
           y == [r \in T |-> [c \in S |-> IF c.to = r THEN f[c] ELSE 0]]
<1>1. \A c \in S, r \in T : x[c][r] \in Int /\ y[r][c] = x[c][r]
  <2> TAKE c \in S, r \in T
  <2>1. x[c][r] = (IF c.to = r THEN f[c] ELSE 0) /\ y[r][c] = (IF c.to = r THEN f[c] ELSE 0)
    OBVIOUS
  <2> HIDE DEF x, y
  <2> QED BY <2>1
<1>2. ASSUME NEW c \in S
      PROVE  f[c] = SumFunctionOnSet(x[c], T)
  <2>1. /\ c.to \in T /\ f[c] \in Int /\ x[c][c.to] = f[c]
        /\ \A r \in T \ {c.to} : x[c][r] = 0
    OBVIOUS
  <2> HIDE DEF x
  <2> QED BY <2>1, SumOne
<1>3. ASSUME NEW r \in T
      PROVE  g[r] = SumFunctionOnSet(y[r], S)
  <2>1. To(r, S) \in SUBSET S
    BY DEF To
  <2>2. \A c \in To(r, S) : f[c] \in Int /\ y[r][c] = f[c]
    BY <2>1 DEF To
  <2>3. \A c \in S \ To(r, S) : y[r][c] = 0
    BY DEF To
  <2> HIDE DEF y
  <2>4. SumFunctionOnSet(y[r], S) = SumFunctionOnSet(f, To(r, S))
    BY <2>1, <2>2, <2>3, SumPartOf
  <2> QED BY <2>4
<1> HIDE DEF x, y
<1>4. Transposed(x, y, S, T) /\ RowSums(f, S, x, T) /\ RowSums(g, T, y, S)
  BY <1>1, <1>2, <1>3 DEF Transposed, RowSums
<1> QED BY <1>4, SumExchange

\* What leaves a sender arrives at its receivers.
LEMMA SpentIsPaid ==
  ASSUME NEW e, IsBook(e), NEW a \in Nat, NEW b \in Nat
  PROVE  Spent(e, a, b) = SumFunctionOnSet([r \in Receivers |-> Paid(e, r, a, b)], Receivers)
<1> DEFINE f == [c \in e.recv |-> Flow(c, e, a, b)]
           g == [r \in Receivers |-> Paid(e, r, a, b)]
<1>1. \A c \in e.recv : f[c] \in Int /\ c.to \in Receivers
  <2> TAKE c \in e.recv
  <2>1. IsStream(c) /\ IsConfig(e)
    BY DEF IsBook
  <2> QED BY <2>1, FlowIs, StreamTimes
<1>2. IsFiniteSet(e.recv) /\ IsFiniteSet(Receivers)
  BY Constants DEF IsBook
<1>3. ASSUME NEW r \in Receivers
      PROVE  g[r] = SumFunctionOnSet(f, To(r, e.recv))
  <2> DEFINE h == [c \in To(r, e.recv) |-> Flow(c, e, a, b)]
  <2>1. To(r, e.recv) \in SUBSET e.recv /\ IsFiniteSet(To(r, e.recv))
    BY ToIs
  <2>2. \A c \in To(r, e.recv) : f[c] \in Int /\ h[c] = f[c]
    BY <1>1, <2>1
  <2>3. g[r] = SumFunctionOnSet(h, To(r, e.recv))
    BY DEF Paid
  <2> HIDE DEF f, g, h
  <2> QED BY <2>1, <2>2, <2>3, SumSame
<1>4. Spent(e, a, b) = SumFunctionOnSet(f, e.recv)
  BY DEF Spent
<1> HIDE DEF f, g
<1>5. SumFunctionOnSet(f, e.recv) = SumFunctionOnSet(g, Receivers)
  BY <1>1, <1>2, <1>3, SumByLabel
<1> QED BY <1>4, <1>5 DEF g

-----------------------------------------------------------------------------
(* Senders, and what can be squeezed from them.                            *)

Books(s) == Lists[s] \cup {{}}

Entries(s) == [recv : Books(s), updateTime : 0..Forever, maxEnd : 0..Forever]

SenderStates(s) == [recv : Books(s), updateTime : 0..Forever, maxEnd : 0..Forever,
                    balance : Nat, currCycleConfigs : Nat, history : Seq(Entries(s))]

\* The state of a sender at second t: the newest entry of the history is the
\* configuration in force, and the balance pays for it to the end.
GoodSender(x, s, t) ==
    /\ x \in SenderStates(s)
    /\ Len(x.history) <= MaxConfigs[s]
    /\ x.updateTime <= t
    /\ \A m \in 1..Len(x.history) : x.history[m].updateTime <= t
    /\ x.currCycleConfigs <= Len(x.history)
    /\ x.history = << >> => x = NewSender
    /\ x.history # << >> =>
         /\ x.currCycleConfigs # 0
         /\ x.history[Len(x.history)] = [recv |-> x.recv, updateTime |-> x.updateTime, maxEnd |-> x.maxEnd]
    /\ Spent(x, x.updateTime, x.maxEnd) <= x.balance

Rows(s, t) == [0..MaxConfigs[s] - 1 -> 0..t]

\* The first second of the cycle of t.
Start(t) == t - (t % CycleSecs)

Seen(x, t) == IF x.updateTime >= Start(t) THEN x.currCycleConfigs ELSE 1

\* The entries before this one were out of force when the cycle began.
Base(x, t) == Len(x.history) - Seen(x, t)

OpenFrom(x, q, t, m) ==
    Larger(Larger(q[m - Base(x, t) - 1], Start(t)), x.history[m].updateTime)
OpenTo(x, t, m) == IF m = Len(x.history) THEN t ELSE x.history[m + 1].updateTime

\* What r can squeeze of the m-th entry of a history, and of all of them.
OpenPart(x, q, r, t, m) ==
    IF m <= Base(x, t) THEN 0 ELSE Paid(x.history[m], r, OpenFrom(x, q, t, m), OpenTo(x, t, m))
Open(x, q, r, t) ==
    SumFunctionOnSet([m \in 1..Len(x.history) |-> OpenPart(x, q, r, t, m)], 1..Len(x.history))

LEMMA BooksAre ==
  ASSUME NEW s \in Senders, NEW e, e.recv \in Books(s),
         e.updateTime \in 0..Forever, e.maxEnd \in 0..Forever
  PROVE  IsBook(e)
<1>1. CASE e.recv = {}
  BY <1>1, FS_EmptySet DEF IsBook, IsConfig
<1>2. CASE e.recv \in Lists[s]
  <2>1. IsList(e.recv)
    BY <1>2, StreamsAssumption
  <2>2. IsFiniteSet(e.recv) /\ \A c \in e.recv : IsStream(c)
    BY <2>1 DEF IsList, IsStream
  <2> QED BY <2>2 DEF IsBook, IsConfig
<1> QED BY <1>1, <1>2 DEF Books

LEMMA SenderIs ==
  ASSUME NEW s \in Senders, NEW t \in Nat, NEW x, GoodSender(x, s, t)
  PROVE  /\ IsBook(x) /\ x.recv \in Books(s)
         /\ x.updateTime \in 0..Forever /\ x.maxEnd \in 0..Forever /\ x.balance \in Nat
         /\ x.currCycleConfigs \in Nat
         /\ Len(x.history) \in Nat /\ x.history \in Seq(Entries(s))
         /\ (x.history = << >>) <=> (Len(x.history) = 0)
         /\ MaxConfigs[s] \in Nat
         /\ \A m \in 1..Len(x.history) : /\ x.history[m] \in Entries(s)
                                         /\ IsBook(x.history[m])
                                         /\ x.history[m].updateTime \in 0..t
<1>1. /\ x.recv \in Books(s) /\ x.updateTime \in 0..Forever /\ x.maxEnd \in 0..Forever
      /\ x.balance \in Nat /\ x.currCycleConfigs \in Nat /\ x.history \in Seq(Entries(s))
  BY DEF GoodSender, SenderStates
<1>2. Len(x.history) \in Nat /\ ((x.history = << >>) <=> (Len(x.history) = 0))
  BY <1>1, EmptySeq, LenProperties
<1>3. ASSUME NEW m \in 1..Len(x.history)
      PROVE  x.history[m] \in Entries(s) /\ IsBook(x.history[m]) /\ x.history[m].updateTime \in 0..t
  <2>1. x.history[m] \in Entries(s)
    BY <1>1, <1>3, ElementOfSeq
  <2>2. x.history[m].updateTime <= t
    BY <1>3 DEF GoodSender
  <2>3. /\ x.history[m].recv \in Books(s) /\ x.history[m].updateTime \in 0..Forever
        /\ x.history[m].maxEnd \in 0..Forever
    BY <2>1 DEF Entries
  <2>4. x.history[m].updateTime \in 0..t
    BY <2>2, <2>3, Constants
  <2> QED BY <2>1, <2>3, <2>4, BooksAre
<1>4. MaxConfigs[s] \in Nat
  BY StreamsAssumption
<1> QED BY <1>1, <1>2, <1>3, <1>4, BooksAre

LEMMA StartIs ==
  ASSUME NEW t \in Nat
  PROVE  /\ Start(t) \in 0..t /\ Start(t) = (CycleOf(t) - 1) * CycleSecs
         /\ t < Start(t) + CycleSecs
         /\ Start(t) + CycleSecs = CycleOf(t) * CycleSecs
<1>1. /\ (CycleOf(t) - 1) * CycleSecs \in Nat /\ CycleOf(t) \in Nat \ {0}
      /\ t = (CycleOf(t) - 1) * CycleSecs + (t % CycleSecs)
      /\ (t % CycleSecs) \in 0..CycleSecs - 1 /\ CycleSecs \in Nat
  BY CycleIs, TimeSplits, Constants
<1>2. CycleOf(t) * CycleSecs = (CycleOf(t) - 1) * CycleSecs + CycleSecs
  BY <1>1, BoundsAre
<1>3. Start(t) = (CycleOf(t) - 1) * CycleSecs
  BY <1>1 DEF Start
<1> QED BY <1>1, <1>2, <1>3

LEMMA SeenIs ==
  ASSUME NEW s \in Senders, NEW t \in Nat, NEW x, GoodSender(x, s, t), x.history # << >>
  PROVE  Seen(x, t) \in 1..Len(x.history)
<1>1. /\ x.currCycleConfigs \in Nat /\ Len(x.history) \in Nat /\ Len(x.history) # 0
      /\ x.currCycleConfigs <= Len(x.history) /\ x.currCycleConfigs # 0
  BY SenderIs DEF GoodSender
<1> QED BY <1>1 DEF Seen

LEMMA WindowIs ==
  ASSUME NEW s \in Senders, NEW t \in Nat, NEW x, GoodSender(x, s, t), NEW q \in Rows(s, t),
         NEW m \in 1..Len(x.history), ~(m <= Base(x, t))
  PROVE  /\ m - Base(x, t) - 1 \in 0..MaxConfigs[s] - 1
         /\ q[m - Base(x, t) - 1] \in 0..t
         /\ OpenFrom(x, q, t, m) \in 0..t /\ OpenTo(x, t, m) \in 0..t
         /\ q[m - Base(x, t) - 1] <= OpenFrom(x, q, t, m)
         /\ Start(t) <= OpenFrom(x, q, t, m)
         /\ x.history[m].updateTime <= OpenFrom(x, q, t, m)
<1>1. /\ Len(x.history) \in Nat /\ x.history # << >> /\ MaxConfigs[s] \in Nat
      /\ Len(x.history) <= MaxConfigs[s]
  <2>1. /\ Len(x.history) \in Nat /\ MaxConfigs[s] \in Nat
        /\ (x.history = << >>) <=> (Len(x.history) = 0)
    BY SenderIs
  <2>2. Len(x.history) <= MaxConfigs[s]
    BY DEF GoodSender
  <2>3. Len(x.history) # 0
    BY <2>1
  <2> QED BY <2>1, <2>2, <2>3
<1>2. Seen(x, t) \in 1..Len(x.history)
  BY <1>1, SeenIs
<1>3. m - Base(x, t) - 1 \in 0..MaxConfigs[s] - 1
  BY <1>1, <1>2 DEF Base
<1>4. q[m - Base(x, t) - 1] \in 0..t
  BY <1>3 DEF Rows
<1>5. Start(t) \in 0..t /\ x.history[m].updateTime \in 0..t
  BY StartIs, SenderIs
<1>6. OpenTo(x, t, m) \in 0..t
  <2>1. CASE m = Len(x.history)
    BY <2>1 DEF OpenTo
  <2>2. CASE m # Len(x.history)
    <3>1. m + 1 \in 1..Len(x.history)
      BY <1>1, <2>2
    <3>2. x.history[m + 1].updateTime \in 0..t
      BY <3>1, SenderIs
    <3> QED BY <2>2, <3>2 DEF OpenTo
  <2> QED BY <2>1, <2>2
<1>7. /\ OpenFrom(x, q, t, m) \in 0..t
      /\ q[m - Base(x, t) - 1] <= OpenFrom(x, q, t, m)
      /\ Start(t) <= OpenFrom(x, q, t, m)
      /\ x.history[m].updateTime <= OpenFrom(x, q, t, m)
  BY <1>4, <1>5 DEF OpenFrom, Larger
<1> QED BY <1>3, <1>4, <1>6, <1>7

LEMMA OpenIs ==
  ASSUME NEW s \in Senders, NEW t \in Nat, NEW x, GoodSender(x, s, t), NEW q \in Rows(s, t), NEW r
  PROVE  /\ Open(x, q, r, t) \in Nat
         /\ IsFiniteSet(1..Len(x.history))
         /\ \A m \in 1..Len(x.history) : OpenPart(x, q, r, t, m) \in Nat
<1>1. ASSUME NEW m \in 1..Len(x.history)
      PROVE  OpenPart(x, q, r, t, m) \in Nat
  <2>1. CASE m <= Base(x, t)
    BY <2>1 DEF OpenPart
  <2>2. CASE ~(m <= Base(x, t))
    <3>1. OpenFrom(x, q, t, m) \in Nat /\ OpenTo(x, t, m) \in Nat /\ IsBook(x.history[m])
      BY <2>2, WindowIs, SenderIs
    <3>2. Paid(x.history[m], r, OpenFrom(x, q, t, m), OpenTo(x, t, m)) \in Nat
      BY <3>1, PaidIs
    <3> QED BY <2>2, <3>2 DEF OpenPart
  <2> QED BY <2>1, <2>2
<1>2. IsFiniteSet(1..Len(x.history))
  <2>1. Len(x.history) \in Nat
    BY SenderIs
  <2> QED BY <2>1, FS_Interval
<1> DEFINE f == [m \in 1..Len(x.history) |-> OpenPart(x, q, r, t, m)]
<1>3. \A m \in 1..Len(x.history) : f[m] \in Nat
  BY <1>1
<1>4. Open(x, q, r, t) = SumFunctionOnSet(f, 1..Len(x.history))
  BY DEF Open
<1> HIDE DEF f
<1>5. SumFunctionOnSet(f, 1..Len(x.history)) \in Nat
  BY <1>2, <1>3, SumNat
<1> QED BY <1>1, <1>2, <1>4, <1>5

\* Only the streams and the two times of a configuration count.
LEMMA PaidSame ==
  ASSUME NEW e, NEW d, e.recv = d.recv, e.updateTime = d.updateTime, e.maxEnd = d.maxEnd,
         NEW r, NEW a, NEW b
  PROVE  Paid(e, r, a, b) = Paid(d, r, a, b)
<1>1. \A c : Flow(c, e, a, b) = Flow(c, d, a, b)
  BY DEF Flow
<1> QED BY <1>1 DEF Paid

\* A configuration opens a window that is still empty and ends the one before
\* it where it stood: nothing can be squeezed that could not be before.
LEMMA OpenConfigured ==
  ASSUME NEW s \in Senders, NEW t \in 0..Forever, NEW x, GoodSender(x, s, t), NEW y, GoodSender(y, s, t),
         NEW e, y.history = Append(x.history, e), e.updateTime = t, y.updateTime = t,
         y.currCycleConfigs = Configs(x), CycleOf(t) = CycleOf(now),
         NEW q \in Rows(s, t), NEW r
  PROVE  Open(y, q, r, t) = Open(x, q, r, t)
<1> DEFINE n == Len(x.history)
           f == [m \in 1..n |-> OpenPart(x, q, r, t, m)]
           g == [m \in 1..n + 1 |-> OpenPart(y, q, r, t, m)]
<1>1. /\ n \in Nat /\ x.history \in Seq(Entries(s)) /\ y.history \in Seq(Entries(s))
      /\ t \in Nat /\ Start(t) \in 0..t /\ x.currCycleConfigs \in Nat /\ x.updateTime \in 0..t
  <2>1. t \in Nat
    BY Constants
  <2>2. x.updateTime <= t
    BY DEF GoodSender
  <2> QED BY <2>1, <2>2, SenderIs, StartIs
<1>2. e \in Entries(s) /\ Len(y.history) = n + 1 /\ y.history[n + 1] = e /\ \A m \in 1..n : y.history[m] = x.history[m]
  <2>1. x.history \in Seq(Entries(s) \cup {e}) /\ e \in Entries(s) \cup {e}
    <3>1. Entries(s) \subseteq Entries(s) \cup {e}
      OBVIOUS
    <3>2. Seq(Entries(s)) \subseteq Seq(Entries(s) \cup {e})
      BY <3>1
    <3> QED BY <1>1, <3>2
  <2>2. Len(y.history) = n + 1 /\ y.history[n + 1] = e /\ \A m \in 1..n : y.history[m] = x.history[m]
    BY <2>1, AppendProperties
  <2>3. n + 1 \in 1..Len(y.history)
    BY <1>1, <2>2
  <2>4. y.history[n + 1] \in Entries(s)
    BY <1>1, <2>3, ElementOfSeq
  <2> QED BY <2>2, <2>4
<1>3. Seen(y, t) = Configs(x)
  BY <1>1 DEF Seen
<1>4. x.updateTime >= Start(t) <=> CycleOf(x.updateTime) = CycleOf(t)
  <2>1. Start(t) = (CycleOf(t) - 1) * CycleSecs /\ CycleOf(t) \in Nat \ {0}
    BY <1>1, StartIs, CycleIs
  <2>2. ASSUME x.updateTime >= Start(t)
        PROVE  CycleOf(x.updateTime) = CycleOf(t)
    <3>1. CycleOf(x.updateTime) <= CycleOf(t)
      BY <1>1, CycleGrows
    <3>2. CycleOf(Start(t)) <= CycleOf(x.updateTime)
      BY <1>1, <2>2, CycleGrows
    <3>3. CycleOf(Start(t)) = CycleOf(t)
      <4>1. CycleOf(t) - 1 \in Nat
        BY <2>1
      <4>2. ((CycleOf(t) - 1) * CycleSecs) \div CycleSecs = CycleOf(t) - 1
        BY <4>1, BoundsAre
      <4>3. Start(t) \div CycleSecs = CycleOf(t) - 1
        BY <2>1, <4>2
      <4> HIDE DEF Start
      <4>4. CycleOf(Start(t)) = (CycleOf(t) - 1) + 1
        BY <4>3 DEF CycleOf
      <4> QED BY <2>1, <4>4
    <3>4. CycleOf(x.updateTime) \in Nat
      <4>1. x.updateTime \in Nat
        BY <1>1
      <4> QED BY <4>1, CycleIs
    <3> QED BY <2>1, <3>1, <3>2, <3>3, <3>4
  <2>3. ASSUME CycleOf(x.updateTime) = CycleOf(t)
        PROVE  x.updateTime >= Start(t)
    <3>1. (CycleOf(t) - 1) * CycleSecs <= x.updateTime
      BY <1>1, <2>1, <2>3, CycleBounds
    <3> QED BY <1>1, <2>1, <3>1
  <2> QED BY <2>2, <2>3
<1>5. CASE x.history = << >>
  <2>1. n = 0
    BY <1>5, SenderIs, <1>1
  <2>2. Configs(x) = 1
    <3>1. x = NewSender
      BY <1>5 DEF GoodSender
    <3> QED BY <1>5, <3>1 DEF Configs, NewSender
  <2>3. Base(y, t) = 0
    BY <1>2, <1>3, <2>1, <2>2 DEF Base
  <2>4. OpenPart(y, q, r, t, 1) = 0
    <3>1. 1 \in 1..Len(y.history) /\ ~(1 <= Base(y, t)) /\ Len(y.history) = 1
      BY <1>2, <2>1, <2>3
    <3>2. /\ OpenFrom(y, q, t, 1) \in Nat /\ OpenTo(y, t, 1) = t /\ y.history[1].updateTime <= OpenFrom(y, q, t, 1)
          /\ IsBook(y.history[1])
      BY <1>1, <3>1, WindowIs, SenderIs DEF OpenTo
    <3>3. y.history[1] = e
      BY <1>2, <2>1
    <3>4. Paid(y.history[1], r, OpenFrom(y, q, t, 1), OpenTo(y, t, 1)) = 0
      BY <1>1, <3>2, <3>3, PaidNone
    <3> QED BY <3>1, <3>4 DEF OpenPart
  <2>5. Open(y, q, r, t) = 0
    <3>1. \A m \in 1..Len(y.history) : m = 1
      BY <1>2, <2>1
    <3> DEFINE h == [m \in 1..Len(y.history) |-> OpenPart(y, q, r, t, m)]
    <3>2. \A m \in 1..Len(y.history) : h[m] = 0
      BY <2>4, <3>1
    <3>3. IsFiniteSet(1..Len(y.history))
      BY <1>1, OpenIs
    <3> HIDE DEF h
    <3>4. SumFunctionOnSet(h, 1..Len(y.history)) = 0
      BY <3>2, <3>3, SumZero
    <3> QED BY <3>4 DEF Open, h
  <2>6. Open(x, q, r, t) = 0
    <3>1. 1..Len(x.history) = {}
      BY <2>1
    <3> QED BY <3>1, SumEmpty DEF Open
  <2> QED BY <2>5, <2>6
<1>6. CASE x.history # << >>
  <2>1. n # 0 /\ Seen(x, t) \in 1..n
    BY <1>1, <1>6, SenderIs, SeenIs
  <2>2. Seen(y, t) = Seen(x, t) + 1
    BY <1>1, <1>3, <1>4, <1>6 DEF Seen, Configs
  <2>3. Base(y, t) = Base(x, t) /\ Base(x, t) \in 0..n - 1
    <3>1. Base(y, t) = Len(y.history) - Seen(y, t) /\ Base(x, t) = n - Seen(x, t)
      BY DEF Base
    <3> HIDE DEF n
    <3> QED BY <1>1, <1>2, <2>1, <2>2, <3>1
  <2>4. ASSUME NEW m \in 1..n
        PROVE  OpenPart(y, q, r, t, m) = OpenPart(x, q, r, t, m)
    <3>1. y.history[m] = x.history[m]
      BY <1>2
    <3>2. OpenFrom(y, q, t, m) = OpenFrom(x, q, t, m)
      BY <2>3, <3>1 DEF OpenFrom
    <3>3. OpenTo(y, t, m) = OpenTo(x, t, m)
      <4>1. CASE m = n
        <5>1. m # Len(y.history) /\ m + 1 = n + 1
          BY <1>1, <1>2, <4>1
        <5>2. y.history[m + 1].updateTime = t
          BY <1>2, <5>1
        <5> QED BY <4>1, <5>1, <5>2 DEF OpenTo
      <4>2. CASE m # n
        <5>1. m # Len(y.history) /\ m + 1 \in 1..n
          BY <1>1, <1>2, <4>2
        <5>2. y.history[m + 1] = x.history[m + 1]
          BY <1>2, <5>1
        <5> QED BY <4>2, <5>1, <5>2 DEF OpenTo
      <4> QED BY <4>1, <4>2
    <3> QED BY <2>3, <3>1, <3>2, <3>3 DEF OpenPart
  <2>5. OpenPart(y, q, r, t, n + 1) = 0
    <3>1. n + 1 \in 1..Len(y.history) /\ ~(n + 1 <= Base(y, t))
      BY <1>1, <1>2, <2>3
    <3>2. /\ OpenFrom(y, q, t, n + 1) \in Nat /\ OpenTo(y, t, n + 1) = t
          /\ y.history[n + 1].updateTime <= OpenFrom(y, q, t, n + 1)
          /\ IsBook(y.history[n + 1])
      <4>1. OpenFrom(y, q, t, n + 1) \in 0..t /\ y.history[n + 1].updateTime <= OpenFrom(y, q, t, n + 1)
        BY <1>1, <3>1, WindowIs
      <4>2. IsBook(y.history[n + 1])
        BY <1>1, <3>1, SenderIs
      <4>3. OpenTo(y, t, n + 1) = t
        BY <1>2 DEF OpenTo
      <4>4. OpenFrom(y, q, t, n + 1) \in Nat
        BY <1>1, <4>1
      <4> QED BY ONLY <4>1, <4>2, <4>3, <4>4
    <3>3. Paid(y.history[n + 1], r, OpenFrom(y, q, t, n + 1), OpenTo(y, t, n + 1)) = 0
      BY <1>1, <1>2, <3>2, PaidNone
    <3> QED BY <3>1, <3>3 DEF OpenPart
  <2>6. /\ \A m \in 1..n : f[m] \in Int /\ g[m] = f[m]
        /\ \A m \in 1..n + 1 : g[m] \in Int
        /\ g[n + 1] = 0
    <3>1. ASSUME NEW m \in 1..n
          PROVE  f[m] \in Nat /\ g[m] = f[m]
      <4>1. m \in 1..n + 1
        BY <1>1
      <4>2. OpenPart(x, q, r, t, m) \in Nat
        BY <1>1, OpenIs
      <4> QED BY <2>4, <4>1, <4>2
    <3>2. \A m \in 1..n + 1 : m \in 1..n \/ m = n + 1
      BY <1>1
    <3>3. n + 1 \in 1..n + 1
      BY <1>1
    <3>4. g[n + 1] = 0
      BY <2>5, <3>3
    <3> HIDE DEF f, g
    <3> QED BY <3>1, <3>2, <3>4
  <2>7. Open(x, q, r, t) = SumFunctionOnSet(f, 1..n) /\ Open(y, q, r, t) = SumFunctionOnSet(g, 1..n + 1)
    BY <1>2 DEF Open
  <2>8. IsFiniteSet(1..n) /\ IsFiniteSet(1..n + 1) /\ n + 1 \in 1..n + 1 /\ (1..n + 1) \ {n + 1} = 1..n
    <3>1. n \in Nat /\ n + 1 \in Nat
      BY <1>1
    <3> HIDE DEF n
    <3>2. IsFiniteSet(1..n) /\ IsFiniteSet(1..n + 1)
      <4>1. \A j \in Nat : IsFiniteSet(1..j)
        BY FS_Interval
      <4> QED BY <3>1, <4>1
    <3>3. n + 1 \in 1..n + 1
      BY <3>1
    <3>4. \A m : m \in (1..n + 1) \ {n + 1} <=> m \in 1..n
      BY <3>1
    <3> QED BY <3>2, <3>3, <3>4
  <2> HIDE DEF f, g, n
  <2>9. SumFunctionOnSet(g, 1..n + 1) = g[n + 1] + SumFunctionOnSet(g, (1..n + 1) \ {n + 1})
    <3>1. \A m \in 1..n + 1 : g[m] \in Int
      BY <2>6
    <3>2. IsFiniteSet(1..n + 1) /\ n + 1 \in 1..n + 1
      BY <2>8
    <3> QED BY ONLY <3>1, <3>2, SumSplit
  <2>10. SumFunctionOnSet(g, 1..n) = SumFunctionOnSet(f, 1..n)
    BY <2>6, <2>8, SumSame
  <2>11. SumFunctionOnSet(f, 1..n) \in Int
    BY <2>6, <2>8, SumInt
  <2>12. SumFunctionOnSet(g, 1..n + 1) = 0 + SumFunctionOnSet(f, 1..n)
    BY <2>6, <2>8, <2>9, <2>10
  <2> QED BY <2>7, <2>11, <2>12
<1> QED BY <1>5, <1>6

\* A second later, within the cycle, what was paid in it can be squeezed too.
LEMMA OpenGrows ==
  ASSUME NEW s \in Senders, NEW t \in Nat, NEW x, GoodSender(x, s, t), NEW q \in Rows(s, t), NEW r,
         CycleOf(t + 1) = CycleOf(t)
  PROVE  Open(x, q, r, t + 1) = Open(x, q, r, t) + Paid(x, r, t, t + 1)
<1> DEFINE n == Len(x.history)
           f == [m \in 1..n |-> OpenPart(x, q, r, t, m)]
           h == [m \in 1..n |-> OpenPart(x, q, r, t + 1, m)]
<1>1. n \in Nat /\ t + 1 \in Nat
  BY SenderIs
<1>2. Start(t + 1) = Start(t)
  <2>1. Start(t) = (CycleOf(t) - 1) * CycleSecs /\ Start(t + 1) = (CycleOf(t + 1) - 1) * CycleSecs
    BY <1>1, StartIs
  <2> QED BY <2>1
<1>3. Seen(x, t + 1) = Seen(x, t) /\ Base(x, t + 1) = Base(x, t)
  BY <1>2 DEF Seen, Base
<1>4. \A m \in 1..n : OpenFrom(x, q, t + 1, m) = OpenFrom(x, q, t, m)
  BY <1>2, <1>3 DEF OpenFrom
<1>5. CASE x.history = << >>
  <2>1. n = 0 /\ x.recv = {}
    <3>1. n = 0
      BY <1>5, SenderIs
    <3>2. x = NewSender
      BY <1>5 DEF GoodSender
    <3> QED BY <3>1, <3>2 DEF NewSender
  <2>2. Open(x, q, r, t) = 0 /\ Open(x, q, r, t + 1) = 0
    <3>1. 1..Len(x.history) = {}
      BY <2>1
    <3> QED BY <3>1, SumEmpty DEF Open
  <2>3. Paid(x, r, t, t + 1) = 0
    BY <1>1, <2>1, PaidNone, SenderIs
  <2> QED BY <2>2, <2>3
<1>6. CASE x.history # << >>
  <2>1. n \in 1..n /\ ~(n <= Base(x, t))
    <3>1. n # 0 /\ Seen(x, t) \in 1..n
      BY <1>1, <1>6, SenderIs, SeenIs
    <3>2. Base(x, t) = n - Seen(x, t)
      BY DEF Base
    <3> HIDE DEF n
    <3> QED BY <1>1, <3>1, <3>2
  <2>2. \A m \in 1..n : f[m] \in Int
    <3>1. \A m \in 1..n : OpenPart(x, q, r, t, m) \in Nat
      BY OpenIs
    <3> QED BY <3>1
  <2>3. \A m \in (1..n) \ {n} : h[m] = f[m]
    <3> TAKE m \in (1..n) \ {n}
    <3>1. m # n /\ OpenTo(x, t + 1, m) = OpenTo(x, t, m)
      BY DEF OpenTo
    <3>2. OpenPart(x, q, r, t + 1, m) = OpenPart(x, q, r, t, m)
      BY <1>3, <1>4, <3>1 DEF OpenPart
    <3> QED BY <3>2
  <2>4. h[n] = f[n] + Paid(x, r, t, t + 1)
    <3> DEFINE e == x.history[n]
               a == OpenFrom(x, q, t, n)
    <3>1. a \in 0..t /\ IsBook(e)
      BY <2>1, WindowIs, SenderIs
    <3>2. /\ OpenPart(x, q, r, t, n) = Paid(e, r, a, t)
          /\ OpenPart(x, q, r, t + 1, n) = Paid(e, r, a, t + 1)
      BY <1>3, <1>4, <2>1 DEF OpenPart, OpenTo
    <3>3. Paid(e, r, a, t + 1) = Paid(e, r, a, t) + Paid(e, r, t, t + 1)
      <4>1. a \in Nat /\ a <= t /\ t <= t + 1
        BY <3>1
      <4> HIDE DEF a, e
      <4> QED BY <1>1, <3>1, <4>1, PaidSplits
    <3>4. Paid(e, r, t, t + 1) = Paid(x, r, t, t + 1)
      <4>1. e = [recv |-> x.recv, updateTime |-> x.updateTime, maxEnd |-> x.maxEnd]
        BY <1>6 DEF GoodSender
      <4>2. e.recv = x.recv /\ e.updateTime = x.updateTime /\ e.maxEnd = x.maxEnd
        BY <4>1
      <4> HIDE DEF e
      <4> QED BY <4>2, PaidSame
    <3>5. h[n] = OpenPart(x, q, r, t + 1, n) /\ f[n] = OpenPart(x, q, r, t, n)
      BY <2>1
    <3> QED BY <3>2, <3>3, <3>4, <3>5
  <2>5. Paid(x, r, t, t + 1) \in Nat
    BY <1>1, PaidIs, SenderIs
  <2>6. Open(x, q, r, t) = SumFunctionOnSet(f, 1..n) /\ Open(x, q, r, t + 1) = SumFunctionOnSet(h, 1..n)
    BY DEF Open
  <2>7. IsFiniteSet(1..n)
    BY OpenIs
  <2> HIDE DEF f, h, n
  <2>8. f[n] \in Int /\ h[n] \in Int
    BY <2>1, <2>2, <2>4, <2>5
  <2>9. SumFunctionOnSet(h, 1..n) = SumFunctionOnSet(f, 1..n) - f[n] + h[n]
    <3> DEFINE M == 1..n
    <3>1. /\ IsFiniteSet(M) /\ n \in M /\ \A m \in M : f[m] \in Int
          /\ h[n] \in Int /\ \A m \in M \ {n} : h[m] = f[m]
      BY <2>1, <2>2, <2>3, <2>7, <2>8
    <3> HIDE DEF M
    <3>2. SumFunctionOnSet(h, M) = SumFunctionOnSet(f, M) - f[n] + h[n]
      BY <3>1, SumPut
    <3> QED BY <3>2 DEF M
  <2>10. SumFunctionOnSet(f, 1..n) \in Int
    BY <2>2, <2>7, SumInt
  <2> QED BY <2>4, <2>5, <2>6, <2>8, <2>9, <2>10
<1> QED BY <1>5, <1>6

\* When a cycle ends, nothing of the next one can be squeezed yet.
LEMMA OpenRestarts ==
  ASSUME NEW s \in Senders, NEW t \in Nat, NEW x, GoodSender(x, s, t), NEW q \in Rows(s, t), NEW r,
         CycleOf(t + 1) # CycleOf(t)
  PROVE  Open(x, q, r, t + 1) = 0 /\ t + 1 = CycleOf(t) * CycleSecs /\ CycleOf(t + 1) = CycleOf(t) + 1
<1> DEFINE n == Len(x.history)
           f == [m \in 1..n |-> OpenPart(x, q, r, t + 1, m)]
           u == t + 1
<1>1. n \in Nat /\ u \in Nat /\ CycleOf(t) \in Nat \ {0} /\ CycleOf(u) \in Nat \ {0}
  BY SenderIs, CycleIs
<1>2. u = CycleOf(t) * CycleSecs /\ CycleOf(u) = CycleOf(t) + 1
  <2>1. CycleOf(t) <= CycleOf(u)
    BY <1>1, CycleGrows
  <2>2. CycleOf(t) * CycleSecs <= u /\ t < CycleOf(t) * CycleSecs
    <3>1. CycleOf(t) < CycleOf(u)
      BY <1>1, <2>1
    <3> HIDE DEF u
    <3> QED BY <1>1, <3>1, CycleBounds, CycleIs
  <2>3. u = CycleOf(t) * CycleSecs
    <3>1. CycleOf(t) * CycleSecs \in Nat
      BY <1>1, BoundsAre
    <3> QED BY <2>2, <3>1
  <2>4. u \div CycleSecs = CycleOf(t)
    BY <1>1, <2>3, BoundsAre
  <2>5. CycleOf(u) = CycleOf(t) + 1
    <3> HIDE DEF u
    <3>1. CycleOf(u) = u \div CycleSecs + 1
      BY DEF CycleOf
    <3> QED BY <2>4, <3>1
  <2> QED BY <2>3, <2>5
<1>3. Start(u) = u
  <2>1. Start(u) = (CycleOf(u) - 1) * CycleSecs
    BY <1>1, StartIs
  <2>2. CycleOf(u) - 1 = CycleOf(t)
    BY <1>1, <1>2
  <2> QED BY <1>2, <2>1, <2>2
<1>4. x.updateTime < u /\ Seen(x, u) = 1 /\ Base(x, u) = n - 1
  <2>1. x.updateTime <= t /\ x.updateTime \in Nat
    <3>1. x.updateTime \in 0..Forever
      BY SenderIs
    <3> QED BY <3>1 DEF GoodSender
  <2>2. x.updateTime < u /\ ~(x.updateTime >= u)
    BY <1>1, <2>1
  <2> HIDE DEF u
  <2>3. Seen(x, u) = 1
    BY <1>3, <2>2 DEF Seen
  <2>4. Base(x, u) = n - Seen(x, u)
    BY DEF Base
  <2> QED BY <2>2, <2>3, <2>4
<1>5. ASSUME NEW m \in 1..n
      PROVE  f[m] = 0
  <2>1. CASE m < n
    <3>1. m <= Base(x, u)
      BY <1>1, <1>4, <2>1
    <3> QED BY <3>1 DEF OpenPart
  <2>2. CASE m = n
    <3>1. m - Base(x, u) - 1 = 0 /\ ~(m <= Base(x, u)) /\ 0 \in 0..MaxConfigs[s] - 1
      <4>1. Len(x.history) <= MaxConfigs[s] /\ MaxConfigs[s] \in Nat /\ n # 0 /\ n <= MaxConfigs[s]
        <5>1. MaxConfigs[s] \in Nat /\ Len(x.history) \in Nat
          BY SenderIs
        <5>2. Len(x.history) <= MaxConfigs[s]
          BY DEF GoodSender
        <5> QED BY <2>2, <5>1, <5>2
      <4> HIDE DEF n
      <4> QED BY <1>1, <1>4, <2>2, <4>1
    <3>2. q[0] \in 0..t /\ x.history[m].updateTime \in 0..t /\ IsBook(x.history[m])
      BY <3>1, SenderIs DEF Rows
    <3>3. OpenFrom(x, q, u, m) = u
      <4>1. OpenFrom(x, q, u, m) = Larger(Larger(q[0], u), x.history[m].updateTime)
        BY <1>3, <3>1 DEF OpenFrom
      <4> QED BY <3>2, <4>1 DEF Larger
    <3>4. Paid(x.history[m], r, u, u) = 0
      BY <1>1, <3>2, PaidNone
    <3>5. OpenTo(x, u, m) = u
      BY <2>2 DEF OpenTo
    <3> QED BY <3>1, <3>3, <3>4, <3>5 DEF OpenPart
  <2> QED BY <1>1, <2>1, <2>2
<1>6. IsFiniteSet(1..n)
  BY OpenIs
<1>7. Open(x, q, r, u) = SumFunctionOnSet(f, 1..n)
  BY DEF Open
<1> HIDE DEF f
<1>8. SumFunctionOnSet(f, 1..n) = 0
  BY <1>5, <1>6, SumZero
<1> QED BY <1>2, <1>7, <1>8

\* Some of the elements differ by a sum of their own.
LEMMA SumPartAdds ==
  ASSUME NEW S, IsFiniteSet(S), NEW T \in SUBSET S, NEW f, NEW g, NEW h,
         \A x \in S : g[x] \in Int,
         \A x \in T : f[x] \in Int /\ h[x] = g[x] + f[x],
         \A x \in S \ T : h[x] = g[x]
  PROVE  SumFunctionOnSet(h, S) = SumFunctionOnSet(g, S) + SumFunctionOnSet(f, T)
<1> DEFINE d == [x \in S |-> IF x \in T THEN f[x] ELSE 0]
<1>1. \A x \in S : g[x] \in Int /\ d[x] \in Int /\ h[x] = g[x] + d[x]
  OBVIOUS
<1>2. /\ \A x \in T : f[x] \in Int /\ d[x] = f[x]
      /\ \A x \in S \ T : d[x] = 0
  OBVIOUS
<1> HIDE DEF d
<1>3. SumFunctionOnSet(d, S) = SumFunctionOnSet(f, T)
  BY <1>2, SumPartOf
<1>4. SumFunctionOnSet(h, S) = SumFunctionOnSet(g, S) + SumFunctionOnSet(d, S)
  BY <1>1, SumAdds
<1> QED BY <1>3, <1>4

\* What r can squeeze of the entries of M.
OpenOf(x, q, r, t, M) == SumFunctionOnSet([m \in M |-> OpenPart(x, q, r, t, m)], M)

\* The row of a receiver for a sender, the entries of M being marked until t.
Marked(s, x, q, t, M) ==
    [i \in 0..MaxConfigs[s] - 1 |-> IF \E m \in M : i = m - Base(x, t) - 1 THEN t ELSE q[i]]

\* Entries that are squeezed up to now hold nothing more; the others keep
\* what they held.
LEMMA OpenSqueezed ==
  ASSUME NEW s \in Senders, NEW t \in Nat, NEW x, GoodSender(x, s, t), NEW q \in Rows(s, t), NEW r,
         NEW M, M \subseteq {m \in 1..Len(x.history) : ~(m <= Base(x, t))},
         NEW p, p = Marked(s, x, q, t, M)
  PROVE  /\ p \in Rows(s, t)
         /\ OpenOf(x, q, r, t, M) \in Nat
         /\ Open(x, p, r, t) = Open(x, q, r, t) - OpenOf(x, q, r, t, M)
<1> DEFINE f == [m \in M |-> OpenPart(x, q, r, t, m)]
           n == Len(x.history)
           N == 1..n
           a == [m \in N |-> OpenPart(x, p, r, t, m)]
           b == [m \in N |-> OpenPart(x, q, r, t, m)]
           d == [m \in N |-> IF m \in M THEN f[m] ELSE 0]
<1>0. p = [i \in 0..MaxConfigs[s] - 1 |-> IF \E m \in M : i = m - Base(x, t) - 1 THEN t ELSE q[i]]
  BY DEF Marked
<1> USE <1>0 DEF OpenOf
<1>1. p \in Rows(s, t)
  <2>1. \A i \in 0..MaxConfigs[s] - 1 : q[i] \in 0..t /\ t \in 0..t
    BY DEF Rows
  <2> QED BY <2>1 DEF Rows
<1>2. \A m \in N : /\ OpenPart(x, p, r, t, m) \in Nat /\ OpenPart(x, q, r, t, m) \in Nat
                   /\ a[m] = OpenPart(x, p, r, t, m) /\ b[m] = OpenPart(x, q, r, t, m)
  <2>1. \A m \in N : OpenPart(x, p, r, t, m) \in Nat /\ OpenPart(x, q, r, t, m) \in Nat
    BY <1>1, OpenIs
  <2> QED BY <2>1
<1>3. M \in SUBSET N /\ IsFiniteSet(N) /\ IsFiniteSet(M)
  <2>1. M \in SUBSET N /\ IsFiniteSet(N)
    BY OpenIs
  <2> QED BY <2>1, FS_Subset
<1>4. ASSUME NEW m \in N
      PROVE  a[m] \in Int /\ d[m] \in Int /\ b[m] = a[m] + d[m]
  <2>1. CASE m <= Base(x, t)
    <3>1. m \notin M
      BY <2>1
    <3>2. OpenPart(x, p, r, t, m) = 0 /\ OpenPart(x, q, r, t, m) = 0
      BY <2>1 DEF OpenPart
    <3>3. d[m] = 0
      BY <3>1
    <3> QED BY <1>2, <3>2, <3>3
  <2>2. CASE ~(m <= Base(x, t)) /\ m \in M
    <3>1. p[m - Base(x, t) - 1] = t /\ p[m - Base(x, t) - 1] <= OpenFrom(x, p, t, m)
          /\ OpenFrom(x, p, t, m) \in 0..t /\ OpenTo(x, t, m) \in 0..t
      BY <1>1, <2>2, WindowIs
    <3>2. OpenPart(x, p, r, t, m) = 0
      <4>1. OpenTo(x, t, m) <= OpenFrom(x, p, t, m) /\ OpenTo(x, t, m) \in Nat /\ OpenFrom(x, p, t, m) \in Nat
        BY <3>1
      <4>2. Paid(x.history[m], r, OpenFrom(x, p, t, m), OpenTo(x, t, m)) = 0
        BY <4>1, PaidNone, SenderIs
      <4> QED BY <2>2, <4>2 DEF OpenPart
    <3>3. d[m] = OpenPart(x, q, r, t, m)
      BY <2>2
    <3> HIDE DEF a, b, d, N
    <3> QED BY <1>2, <3>2, <3>3
  <2>3. CASE ~(m <= Base(x, t)) /\ m \notin M
    <3>1. m - Base(x, t) - 1 \in 0..MaxConfigs[s] - 1
      BY <2>3, WindowIs
    <3>2. ~\E l \in M : m - Base(x, t) - 1 = l - Base(x, t) - 1
      <4>1. Base(x, t) \in Int
        <5>1. x.history # << >> /\ n \in Nat
          BY SenderIs
        <5>2. Seen(x, t) \in 1..n
          BY <5>1, SeenIs
        <5> QED BY <5>1, <5>2 DEF Base
      <4>2. \A l \in M : l \in Int
        BY <1>3
      <4> QED BY <2>3, <4>1, <4>2
    <3>3. p[m - Base(x, t) - 1] = q[m - Base(x, t) - 1]
      BY <3>1, <3>2
    <3>4. OpenPart(x, p, r, t, m) = OpenPart(x, q, r, t, m)
      BY <3>3 DEF OpenPart, OpenFrom
    <3>5. d[m] = 0
      BY <2>3
    <3> HIDE DEF a, b, d, N
    <3> QED BY <1>2, <3>4, <3>5
  <2> QED BY <2>1, <2>2, <2>3
<1>5. /\ Open(x, p, r, t) = SumFunctionOnSet(a, N)
      /\ Open(x, q, r, t) = SumFunctionOnSet(b, N)
  BY DEF Open
<1>6. /\ \A m \in M : f[m] \in Nat
      /\ \A m \in M : f[m] \in Int /\ b[m] = a[m] + f[m]
      /\ \A m \in N \ M : b[m] = a[m]
      /\ \A m \in N : a[m] \in Int
  <2>1. ASSUME NEW m \in M
        PROVE  f[m] \in Nat /\ d[m] = f[m] /\ m \in N
    <3>1. m \in N /\ f[m] = OpenPart(x, q, r, t, m)
      BY <1>3
    <3>2. d[m] = f[m]
      BY <3>1
    <3> HIDE DEF N, d
    <3> QED BY <1>2, <3>1, <3>2
  <2>2. \A m \in N \ M : d[m] = 0
    OBVIOUS
  <2> HIDE DEF N, d, a, b, f
  <2> QED BY <1>4, <2>1, <2>2
<1> HIDE DEF a, b, d, f, N
<1>7. SumFunctionOnSet(b, N) = SumFunctionOnSet(a, N) + SumFunctionOnSet(f, M)
  <2> DEFINE T == M
  <2>1. T \in SUBSET N /\ IsFiniteSet(N)
    BY <1>3
  <2>2. /\ \A m \in N : a[m] \in Int
        /\ \A m \in T : f[m] \in Int /\ b[m] = a[m] + f[m]
        /\ \A m \in N \ T : b[m] = a[m]
    BY <1>6
  <2> HIDE DEF T
  <2>3. SumFunctionOnSet(b, N) = SumFunctionOnSet(a, N) + SumFunctionOnSet(f, T)
    BY <2>1, <2>2, SumPartAdds
  <2> QED BY <2>3 DEF T
<1>9. SumFunctionOnSet(f, M) \in Nat
  BY <1>3, <1>6, SumNat
<1>10. SumFunctionOnSet(a, N) \in Int
  BY <1>3, <1>4, SumInt
<1> QED BY <1>1, <1>5, <1>7, <1>9, <1>10 DEF f

\* The entries that squeezeStreams squeezes, by their place in the history.
Places(r, s, shown) == {Len(sender[s].history) - i + 1 : i \in Squeezed(r, s, shown)}

LEMMA SqueezeIs ==
  ASSUME NEW s \in Senders, NEW r \in Receivers, now \in Nat, GoodSender(sender[s], s, now),
         NEW q \in Rows(s, now), q = receiver[r].nextSqueezed[s],
         NEW shown \in SUBSET (1..Len(sender[s].history))
  PROVE  /\ Places(r, s, shown) \subseteq {m \in 1..Len(sender[s].history) : ~(m <= Base(sender[s], now))}
         /\ SqueezeAmt(r, s, shown)
            = SumFunctionOnSet([m \in Places(r, s, shown) |-> OpenPart(sender[s], q, r, now, m)],
                               Places(r, s, shown))
         /\ \A i : i \in {SeenThisCycle(sender[s]) - j : j \in Squeezed(r, s, shown)}
                   <=> \E m \in Places(r, s, shown) : i = m - Base(sender[s], now) - 1
         /\ shown = 1..Len(sender[s].history) => SqueezeAmt(r, s, shown) = Open(sender[s], q, r, now)
<1> DEFINE x == sender[s]
           t == now
           n == Len(x.history)
           Z == Squeezed(r, s, shown)
           M == Places(r, s, shown)
           place == [i \in Z |-> n - i + 1]
           part == [m \in M |-> OpenPart(x, q, r, t, m)]
           amt == [i \in Z |-> SqueezedAmt(r, s, i)]
<1>1. n \in Nat /\ Z \subseteq 1..n /\ Z \subseteq shown
  <2>1. n \in Nat
    BY SenderIs
  <2> QED BY <2>1 DEF Squeezed
<1>2. SeenThisCycle(x) = Seen(x, t) /\ Base(x, t) = n - Seen(x, t)
  BY DEF SeenThisCycle, Seen, CycleStart, Start, Base
<1>3. ASSUME NEW i \in 1..n
      PROVE  LET m == n - i + 1
             IN  /\ m \in 1..n /\ Seen(x, t) \in 1..n
                 /\ (i <= SeenThisCycle(x) <=> ~(m <= Base(x, t)))
                 /\ SeenThisCycle(x) - i = m - Base(x, t) - 1
                 /\ Entry(x, i) = x.history[m]
                 /\ SqueezeCaps(r, s, i) = [from |-> OpenFrom(x, q, t, m), to |-> OpenTo(x, t, m)]
  <2> DEFINE m == n - i + 1
  <2>1. Seen(x, t) \in 1..n
    <3>1. x.history # << >>
      BY <1>1, SenderIs
    <3> QED BY <3>1, SeenIs
  <2>2. m \in 1..n
    BY <1>1
  <2>3. SeenThisCycle(x) - i = m - Base(x, t) - 1 /\ (i <= SeenThisCycle(x) <=> ~(m <= Base(x, t)))
    <3> HIDE DEF n, x
    <3> QED BY <1>1, <1>2, <2>1
  <2>4. Entry(x, i) = x.history[m]
    BY DEF Entry
  <2>5. SqueezeCaps(r, s, i).from = OpenFrom(x, q, t, m)
    BY <2>3, <2>4 DEF SqueezeCaps, OpenFrom, CycleStart, Start
  <2>6. SqueezeCaps(r, s, i).to = OpenTo(x, t, m)
    <3>1. CASE i = 1
      <4>1. m = n
        BY <1>1, <3>1
      <4> QED BY <3>1, <4>1 DEF SqueezeCaps, OpenTo
    <3>2. CASE i # 1
      <4>1. m # n /\ n - (i - 1) + 1 = m + 1
        BY <1>1, <3>2
      <4>2. Entry(x, i - 1) = x.history[m + 1]
        BY <4>1 DEF Entry
      <4> QED BY <3>2, <4>1, <4>2 DEF SqueezeCaps, OpenTo
    <3> QED BY <3>1, <3>2
  <2>7. SqueezeCaps(r, s, i) = [from |-> SqueezeCaps(r, s, i).from, to |-> SqueezeCaps(r, s, i).to]
    BY DEF SqueezeCaps
  <2> QED BY <2>1, <2>2, <2>3, <2>4, <2>5, <2>6, <2>7
<1>4. ASSUME NEW i \in 1..n, ~((n - i + 1) <= Base(x, t))
      PROVE  SqueezedAmt(r, s, i) = OpenPart(x, q, r, t, n - i + 1)
  <2> DEFINE m == n - i + 1
  <2>1. /\ Entry(x, i) = x.history[m]
        /\ SqueezeCaps(r, s, i).from = OpenFrom(x, q, t, m) /\ SqueezeCaps(r, s, i).to = OpenTo(x, t, m)
    BY <1>3
  <2>2. SqueezedAmt(r, s, i) = Paid(x.history[m], r, OpenFrom(x, q, t, m), OpenTo(x, t, m))
    BY <2>1 DEF SqueezedAmt, Paid, To, Flow, SumFunction
  <2> QED BY <1>4, <2>2 DEF OpenPart
<1>5. \A i \in Z : i \in 1..n /\ i <= SeenThisCycle(x)
  BY <1>1 DEF Squeezed
<1>6. M \subseteq {m \in 1..n : ~(m <= Base(x, t))}
  BY <1>3, <1>5 DEF Places
<1>7. \A i : i \in {SeenThisCycle(x) - j : j \in Z} <=> \E m \in M : i = m - Base(x, t) - 1
  <2> TAKE i
  <2>1. ASSUME NEW j \in Z, i = SeenThisCycle(x) - j
        PROVE  \E m \in M : i = m - Base(x, t) - 1
    <3>1. n - j + 1 \in M
      BY DEF Places
    <3>2. i = (n - j + 1) - Base(x, t) - 1
      BY <1>3, <1>5, <2>1
    <3> QED BY <3>1, <3>2
  <2>2. ASSUME NEW m \in M, i = m - Base(x, t) - 1
        PROVE  i \in {SeenThisCycle(x) - j : j \in Z}
    <3>1. PICK j \in Z : m = n - j + 1
      BY DEF Places
    <3>2. i = SeenThisCycle(x) - j
      BY <1>3, <1>5, <2>2, <3>1
    <3> QED BY <3>2
  <2> QED BY <2>1, <2>2
<1>8. SqueezeAmt(r, s, shown) = SumFunctionOnSet(part, M)
  <2>1. \A i, j \in Z : place[i] = place[j] => i = j
    <3>1. \A i \in Z : place[i] = n - i + 1 /\ i \in Int
      BY <1>1
    <3> HIDE DEF place, n, Z
    <3> QED BY <1>1, <3>1
  <2>2. \A i \in Z : amt[i] \in Int /\ part[place[i]] = amt[i]
    <3> TAKE i \in Z
    <3>1. i \in 1..n /\ ~((n - i + 1) <= Base(x, t)) /\ n - i + 1 \in 1..n /\ n - i + 1 \in M
      BY <1>3, <1>5 DEF Places
    <3>2. SqueezedAmt(r, s, i) = OpenPart(x, q, r, t, n - i + 1)
      BY <1>4, <3>1
    <3>3. OpenPart(x, q, r, t, n - i + 1) \in Nat
      BY <3>1, OpenIs
    <3> QED BY <3>1, <3>2, <3>3
  <2>3. IsFiniteSet(Z)
    <3>1. IsFiniteSet(1..n)
      BY OpenIs
    <3> QED BY <1>1, <3>1, FS_Subset
  <2>4. {place[i] : i \in Z} = M
    BY DEF Places
  <2>5. SqueezeAmt(r, s, shown) = SumFunctionOnSet(amt, Z)
    BY DEF SqueezeAmt, SumFunction
  <2> HIDE DEF place, part, amt, Z, M
  <2>6. SumFunctionOnSet(part, {place[i] : i \in Z}) = SumFunctionOnSet(amt, Z)
    BY <2>1, <2>2, <2>3, SumRenamed
  <2> QED BY <2>4, <2>5, <2>6
<1>9. ASSUME shown = 1..n
      PROVE  SqueezeAmt(r, s, shown) = Open(x, q, r, t)
  <2> DEFINE all == [m \in 1..n |-> OpenPart(x, q, r, t, m)]
  <2>1. M \in SUBSET (1..n) /\ IsFiniteSet(1..n)
    BY <1>6, OpenIs
  <2>2. \A m \in M : part[m] \in Int /\ all[m] = part[m]
    <3>1. \A m \in 1..n : OpenPart(x, q, r, t, m) \in Nat
      BY OpenIs
    <3> HIDE DEF M
    <3> QED BY <2>1, <3>1
  <2>3. ASSUME NEW m \in (1..n) \ M
        PROVE  all[m] = 0
    <3>1. CASE m <= Base(x, t)
      BY <3>1 DEF OpenPart
    <3>2. CASE ~(m <= Base(x, t))
      <4> DEFINE i == n - m + 1
      <4>1. i \in 1..n /\ n - i + 1 = m
        <5>1. m \in 1..n /\ n \in Nat
          BY <1>1
        <5> HIDE DEF n
        <5> QED BY <5>1
      <4> HIDE DEF i
      <4>2. i <= SeenThisCycle(x) /\ Entry(x, i) = x.history[m]
            /\ SqueezeCaps(r, s, i).from = OpenFrom(x, q, t, m) /\ SqueezeCaps(r, s, i).to = OpenTo(x, t, m)
        <5>1. /\ (i <= SeenThisCycle(x) <=> ~((n - i + 1) <= Base(x, t)))
              /\ Entry(x, i) = x.history[n - i + 1]
              /\ SqueezeCaps(r, s, i) = [from |-> OpenFrom(x, q, t, n - i + 1), to |-> OpenTo(x, t, n - i + 1)]
          BY <1>3, <4>1
        <5> HIDE DEF x, n, t
        <5> QED BY <3>2, <4>1, <5>1
      <4>3. i \notin Z
        <5> SUFFICES ASSUME i \in Z
                     PROVE  FALSE
          OBVIOUS
        <5>1. n - i + 1 \in M
          BY DEF Places
        <5> QED BY <4>1, <5>1
      <4>4. x.history[m].recv = {} \/ ~(OpenFrom(x, q, t, m) < OpenTo(x, t, m))
        BY <1>9, <4>1, <4>2, <4>3 DEF Squeezed
      <4>5. OpenFrom(x, q, t, m) \in Nat /\ OpenTo(x, t, m) \in Nat /\ IsBook(x.history[m])
        BY <3>2, WindowIs, SenderIs
      <4>6. Paid(x.history[m], r, OpenFrom(x, q, t, m), OpenTo(x, t, m)) = 0
        <5>1. OpenTo(x, t, m) <= OpenFrom(x, q, t, m) \/ x.history[m].recv = {}
          BY <4>4, <4>5
        <5> QED BY <4>5, <5>1, PaidNone
      <4> QED BY <3>2, <4>6 DEF OpenPart
    <3> QED BY <3>1, <3>2
  <2>4. Open(x, q, r, t) = SumFunctionOnSet(all, 1..n)
    BY DEF Open
  <2> DEFINE N == 1..n
  <2>6. /\ M \in SUBSET N /\ IsFiniteSet(N) /\ \A m \in M : part[m] \in Int /\ all[m] = part[m]
        /\ \A m \in N \ M : all[m] = 0
    BY <2>1, <2>2, <2>3
  <2> HIDE DEF all, part, M, N
  <2>7. SumFunctionOnSet(all, N) = SumFunctionOnSet(part, M)
    BY <2>6, SumPartOf
  <2>5. SumFunctionOnSet(all, 1..n) = SumFunctionOnSet(part, M)
    BY <2>7 DEF N
  <2> QED BY <1>8, <2>4, <2>5
<1> QED BY <1>6, <1>7, <1>8, <1>9

-----------------------------------------------------------------------------
(* A configuration replaced by another.                                    *)

\* The pairs of streams to r, and the streams to r that are in none: U are the
\* streams of S in pairs.
Pairs(r, P) == {z \in P : z[1].to = r}
Lone(r, S, U) == {c \in S : c.to = r /\ c \notin U}

LEMMA PairsAre ==
  ASSUME NEW S, IsFiniteSet(S), NEW T, IsFiniteSet(T), NEW P \in Pairings(S, T)
  PROVE  /\ IsFiniteSet(P)
         /\ \A z \in P : /\ z = <<z[1], z[2]>> /\ z[1] \in S /\ z[2] \in T
                         /\ z[1].to = z[2].to /\ z[1].rate = z[2].rate
         /\ \A z, w \in P : z[1] = w[1] \/ z[2] = w[2] => z = w
<1>1. /\ P \subseteq {z \in S \X T : SameStream(z[1], z[2])}
      /\ \A z, w \in P : z[1] = w[1] \/ z[2] = w[2] => z = w
  BY DEF Pairings
<1>2. IsFiniteSet(P)
  <2>1. IsFiniteSet(S \X T) /\ P \subseteq S \X T
    BY <1>1, FS_Product
  <2> QED BY <2>1, FS_Subset
<1>3. ASSUME NEW z \in P
      PROVE  /\ z = <<z[1], z[2]>> /\ z[1] \in S /\ z[2] \in T
             /\ z[1].to = z[2].to /\ z[1].rate = z[2].rate
  <2>1. z \in S \X T /\ SameStream(z[1], z[2])
    BY <1>1
  <2> QED BY <2>1 DEF SameStream
<1> QED BY <1>1, <1>2, <1>3

\* g gives the stream of list S in each pair of P; M are the pairs of streams
\* to r, and R the streams to r that are in none.
Parted(S, P, g, r, M, R) ==
    /\ IsFiniteSet(S) /\ IsFiniteSet(P)
    /\ \A z \in P : g[z] \in S
    /\ \A z, w \in P : g[z] = g[w] => z = w
    /\ \A z : z \in M <=> z \in P /\ g[z].to = r
    /\ \A c : c \in R <=> c \in S /\ c.to = r /\ \A z \in P : c # g[z]

\* The streams of a list to r are the lone ones and those of the pairs.
LEMMA Matched ==
  ASSUME NEW S, NEW P, NEW g, NEW r, NEW M, NEW R, Parted(S, P, g, r, M, R),
         NEW f, \A c \in S : f[c] \in Int,
         NEW h, \A z \in M : h[z] = f[g[z]]
  PROVE  /\ IsFiniteSet(R) /\ IsFiniteSet(M)
         /\ SumFunctionOnSet(f, To(r, S)) = SumFunctionOnSet(f, R) + SumFunctionOnSet(h, M)
<1> DEFINE I == {g[z] : z \in M}
<1> USE DEF Parted
<1>1. IsFiniteSet(M) /\ IsFiniteSet(R)
  <2>1. M \in SUBSET P /\ R \in SUBSET S
    OBVIOUS
  <2> QED BY <2>1, FS_Subset
<1>2. \A z, w \in M : g[z] = g[w] => z = w
  OBVIOUS
<1>3. \A z \in M : h[z] \in Int /\ f[g[z]] = h[z]
  OBVIOUS
<1>4. I \cap R = {} /\ I \cup R = To(r, S)
  <2>1. ASSUME NEW c \in To(r, S)
        PROVE  c \in I \/ c \in R
    <3>1. c \in S /\ c.to = r
      BY DEF To
    <3>2. CASE \E z \in P : c = g[z]
      BY <3>1, <3>2
    <3>3. CASE ~\E z \in P : c = g[z]
      BY <3>1, <3>3
    <3> QED BY <3>2, <3>3
  <2>2. ASSUME NEW c \in I
        PROVE  c \in To(r, S) /\ c \notin R
    BY DEF To
  <2>3. R \subseteq To(r, S)
    BY DEF To
  <2> HIDE DEF I
  <2> QED BY <2>1, <2>2, <2>3
<1>5. \A c \in I \cup R : f[c] \in Int
  <2>1. To(r, S) \subseteq S
    BY DEF To
  <2> HIDE DEF I
  <2> QED BY <1>4, <2>1
<1>6. SumFunctionOnSet(f, I) = SumFunctionOnSet(h, M) /\ IsFiniteSet(I)
  BY ONLY <1>1, <1>2, <1>3, SumRenamed
<1> HIDE DEF I
<1>7. SumFunctionOnSet(f, I \cup R) = SumFunctionOnSet(f, I) + SumFunctionOnSet(f, R)
  BY <1>1, <1>4, <1>5, <1>6, SumBoth
<1>8. SumFunctionOnSet(f, I) \in Int /\ SumFunctionOnSet(f, R) \in Int
  BY <1>1, <1>5, <1>6, SumInt
<1>9. SumFunctionOnSet(f, To(r, S)) = SumFunctionOnSet(f, R) + SumFunctionOnSet(h, M)
  <2> DEFINE all == SumFunctionOnSet(f, To(r, S))
             i == SumFunctionOnSet(f, I)
             j == SumFunctionOnSet(f, R)
  <2>1. all = i + j /\ i \in Int /\ j \in Int /\ i = SumFunctionOnSet(h, M)
    <3>1. all = SumFunctionOnSet(f, I \cup R)
      BY <1>4
    <3> HIDE DEF all
    <3> QED BY <1>6, <1>7, <1>8, <3>1
  <2> HIDE DEF all, i, j
  <2>2. all = j + i
    BY <2>1
  <2> QED BY <2>1, <2>2 DEF all, i, j
<1> QED BY <1>1, <1>9

\* What stream c of configuration e is still to pay in cycle k at t.
InPart(c, e, t, k) ==
    Upto(c.rate, Clip(Future(c, e, t).to, k)) - Upto(c.rate, Clip(Future(c, e, t).from, k))

\* What e is still to pay r in cycle k at t.
Coming(e, r, t, k) == Paid(e, r, Larger(t, (k - 1) * CycleSecs), k * CycleSecs)

LEMMA WindowStarts ==
  ASSUME NEW t \in Nat, NEW k \in Nat \ {0}
  PROVE  Larger(t, (k - 1) * CycleSecs) \in Nat /\ k * CycleSecs \in Nat
<1>1. (k - 1) * CycleSecs \in Nat /\ k * CycleSecs \in Nat
  BY BoundsAre
<1> QED BY <1>1 DEF Larger

LEMMA ComingIs ==
  ASSUME NEW e, IsBook(e), NEW r, NEW t \in 0..Forever, NEW k \in Nat \ {0}
  PROVE  /\ \A c \in e.recv : InPart(c, e, t, k) \in Nat
         /\ Coming(e, r, t, k) \in Nat
         /\ SumFunctionOnSet([c \in e.recv |-> InPart(c, e, t, k)], To(r, e.recv))
            = IF CycleOf(t) <= k THEN Coming(e, r, t, k) ELSE 0
<1> DEFINE a == Larger(t, (k - 1) * CycleSecs)
           b == k * CycleSecs
           T == To(r, e.recv)
           f == [c \in e.recv |-> InPart(c, e, t, k)]
           g == [c \in T |-> Flow(c, e, a, b)]
<1>1. t \in Nat /\ a \in Nat /\ b \in Nat
  BY WindowStarts, Constants
<1>2. \A c \in e.recv : /\ InPart(c, e, t, k) = IF CycleOf(t) <= k THEN Flow(c, e, a, b) ELSE 0
                        /\ Flow(c, e, a, b) \in Nat
  <2> TAKE c \in e.recv
  <2>1. IsStream(c) /\ IsConfig(e)
    BY DEF IsBook
  <2>2. InPart(c, e, t, k) = IF CycleOf(t) <= k THEN Flow(c, e, a, b) ELSE 0
    BY <2>1, FutureFlows DEF InPart
  <2> HIDE DEF a, b
  <2>3. Flow(c, e, a, b) \in Nat
    BY <1>1, <2>1, FlowIs
  <2> QED BY <2>2, <2>3 DEF a, b
<1>3. \A c \in e.recv : InPart(c, e, t, k) \in Nat
  BY <1>2
<1>4. Coming(e, r, t, k) \in Nat
  BY <1>1, PaidIs DEF Coming
<1>5. T \subseteq e.recv /\ IsFiniteSet(T)
  BY ToIs
<1>6. Coming(e, r, t, k) = SumFunctionOnSet(g, T)
  BY DEF Coming, Paid
<1>7. CASE CycleOf(t) <= k
  <2>1. \A c \in T : g[c] \in Int /\ f[c] = g[c]
    BY <1>2, <1>5, <1>7
  <2> HIDE DEF f, g, T
  <2>2. SumFunctionOnSet(f, T) = SumFunctionOnSet(g, T)
    BY <1>5, <2>1, SumSame
  <2> QED BY <1>3, <1>4, <1>6, <1>7, <2>2 DEF f, T
<1>8. CASE ~(CycleOf(t) <= k)
  <2>1. \A c \in T : f[c] = 0
    BY <1>2, <1>5, <1>8
  <2> HIDE DEF f, g, T
  <2>2. SumFunctionOnSet(f, T) = 0
    BY <1>5, <2>1, SumZero
  <2> QED BY <1>3, <1>4, <1>8, <2>2 DEF f, T
<1> QED BY <1>7, <1>8

\* The deltas of streams that are created, and of streams that are removed.
LEMMA CreatedIs ==
  ASSUME NEW e, IsBook(e), NEW t \in 0..Forever, NEW R \in SUBSET e.recv,
         NEW f, f = [c \in R |-> DeltaRange(Future(c, e, t).from, Future(c, e, t).to, c.rate)]
  PROVE  /\ SumDeltas(f) \in Tables
         /\ \A k \in Nat \ {0} :
              Cumulated(SumDeltas(f), k) = SumFunctionOnSet([c \in e.recv |-> InPart(c, e, t, k)], R)
         /\ \A j \in Cycles : (\A c \in R : j < CycleOf(Future(c, e, t).from)) => SumDeltas(f)[j] = NoDelta
<1>1. IsFiniteSet(R)
  BY FS_Subset DEF IsBook
<1>2. ASSUME NEW c \in R
      PROVE  /\ f[c] \in Tables
             /\ \A k \in Nat \ {0} : Cumulated(f[c], k) = InPart(c, e, t, k)
             /\ \A j \in Cycles : j < CycleOf(Future(c, e, t).from) => f[c][j] = NoDelta
  <2>1. IsStream(c) /\ IsConfig(e)
    BY DEF IsBook
  <2>2. c.rate \in Nat
    BY <2>1, StreamTimes
  <2> DEFINE a == Future(c, e, t).from
             b == Future(c, e, t).to
  <2>3. a \in Nat /\ b \in Nat /\ a <= b /\ CycleOf(a) \in Cycles /\ CycleOf(b) \in Cycles
    <3>1. a \in 0..Forever /\ b \in 0..Forever /\ a <= b /\ CycleOf(a) \in Cycles /\ CycleOf(b) \in Cycles
      BY <2>1, FutureIs
    <3> QED BY <3>1
  <2>4. f[c] = DeltaRange(a, b, c.rate)
    OBVIOUS
  <2>5. \A k \in Nat \ {0} : InPart(c, e, t, k) = Upto(c.rate, Clip(b, k)) - Upto(c.rate, Clip(a, k))
    BY DEF InPart
  <2> HIDE DEF a, b
  <2>6. CycleOf(a) <= CycleOf(b) /\ CycleOf(a) \in Nat /\ CycleOf(b) \in Nat
    BY <2>3, CycleGrows, CycleIs
  <2>7. f[c] \in Tables /\ \A k \in Nat \ {0} : Cumulated(f[c], k) = InPart(c, e, t, k)
    BY <2>2, <2>3, <2>4, <2>5, DeltaRangeIs
  <2>8. ASSUME NEW j \in Cycles, j < CycleOf(a)
        PROVE  f[c][j] = NoDelta
    <3>1. j \in Nat
      BY NoDeltaIs, TableIs
    <3>2. j # CycleOf(a) /\ j # CycleOf(b)
      BY <2>6, <2>8, <3>1
    <3> QED BY <2>2, <2>3, <2>4, <3>2, DeltaRangeIs
  <2> QED BY <2>7, <2>8 DEF a
<1>3. DOMAIN f = R
  OBVIOUS
<1>4. /\ SumDeltas(f) \in Tables
      /\ \A k \in Nat : Cumulated(SumDeltas(f), k) = SumFunctionOnSet([c \in R |-> Cumulated(f[c], k)], R)
      /\ \A j \in Cycles : (\A c \in R : f[c][j] = NoDelta) => SumDeltas(f)[j] = NoDelta
  BY <1>1, <1>2, <1>3, SumDeltasIs
<1>5. ASSUME NEW k \in Nat \ {0}
      PROVE  Cumulated(SumDeltas(f), k) = SumFunctionOnSet([c \in e.recv |-> InPart(c, e, t, k)], R)
  <2> DEFINE g == [c \in R |-> Cumulated(f[c], k)]
             h == [c \in e.recv |-> InPart(c, e, t, k)]
  <2>1. ASSUME NEW c \in R
        PROVE  h[c] \in Int /\ g[c] = h[c]
    <3>1. InPart(c, e, t, k) \in Nat
      BY ComingIs
    <3> QED BY <1>2, <3>1
  <2>2. Cumulated(SumDeltas(f), k) = SumFunctionOnSet(g, R)
    BY <1>4
  <2> HIDE DEF g, h
  <2>3. SumFunctionOnSet(g, R) = SumFunctionOnSet(h, R)
    BY <1>1, <2>1, SumSame
  <2> QED BY <2>2, <2>3 DEF h
<1> QED BY <1>2, <1>4, <1>5

LEMMA RemovedIs ==
  ASSUME NEW e, IsBook(e), NEW t \in 0..Forever, NEW R \in SUBSET e.recv,
         NEW f, f = [c \in R |-> DeltaRange(Future(c, e, t).from, Future(c, e, t).to, -c.rate)]
  PROVE  /\ SumDeltas(f) \in Tables
         /\ \A k \in Nat \ {0} :
              Cumulated(SumDeltas(f), k) = -SumFunctionOnSet([c \in e.recv |-> InPart(c, e, t, k)], R)
         /\ \A j \in Cycles : (\A c \in R : j < CycleOf(Future(c, e, t).from)) => SumDeltas(f)[j] = NoDelta
<1>1. IsFiniteSet(R)
  BY FS_Subset DEF IsBook
<1>2. ASSUME NEW c \in R
      PROVE  /\ f[c] \in Tables
             /\ \A k \in Nat \ {0} : Cumulated(f[c], k) = -InPart(c, e, t, k)
             /\ \A j \in Cycles : j < CycleOf(Future(c, e, t).from) => f[c][j] = NoDelta
  <2>1. IsStream(c) /\ IsConfig(e)
    BY DEF IsBook
  <2>2. c.rate \in Nat
    BY <2>1, StreamTimes
  <2> DEFINE a == Future(c, e, t).from
             b == Future(c, e, t).to
  <2>3. a \in Nat /\ b \in Nat /\ a <= b /\ CycleOf(a) \in Cycles /\ CycleOf(b) \in Cycles
    <3>1. a \in 0..Forever /\ b \in 0..Forever /\ a <= b /\ CycleOf(a) \in Cycles /\ CycleOf(b) \in Cycles
      BY <2>1, FutureIs
    <3> QED BY <3>1
  <2>4. f[c] = DeltaRange(a, b, -c.rate)
    OBVIOUS
  <2>5. \A k \in Nat \ {0} : InPart(c, e, t, k) = Upto(c.rate, Clip(b, k)) - Upto(c.rate, Clip(a, k))
    BY DEF InPart
  <2> HIDE DEF a, b
  <2>6. CycleOf(a) <= CycleOf(b) /\ CycleOf(a) \in Nat /\ CycleOf(b) \in Nat
    BY <2>3, CycleGrows, CycleIs
  <2>7. f[c] \in Tables
    BY <2>2, <2>3, <2>4, DeltaRangeIs
  <2>8. ASSUME NEW k \in Nat \ {0}
        PROVE  Cumulated(f[c], k) = -InPart(c, e, t, k)
    <3>1. /\ Cumulated(f[c], k) = Upto(c.rate, Clip(a, k)) - Upto(c.rate, Clip(b, k))
          /\ Upto(c.rate, Clip(a, k)) \in Nat /\ Upto(c.rate, Clip(b, k)) \in Nat
      BY <2>2, <2>3, <2>4, DeltaRangeIs
    <3> QED BY <2>5, <3>1
  <2>9. ASSUME NEW j \in Cycles, j < CycleOf(a)
        PROVE  f[c][j] = NoDelta
    <3>1. j \in Nat
      BY NoDeltaIs, TableIs
    <3>2. j # CycleOf(a) /\ j # CycleOf(b)
      BY <2>6, <2>9, <3>1
    <3> QED BY <2>2, <2>3, <2>4, <3>2, DeltaRangeIs
  <2> QED BY <2>7, <2>8, <2>9 DEF a
<1>3. DOMAIN f = R
  OBVIOUS
<1>4. /\ SumDeltas(f) \in Tables
      /\ \A k \in Nat : Cumulated(SumDeltas(f), k) = SumFunctionOnSet([c \in R |-> Cumulated(f[c], k)], R)
      /\ \A j \in Cycles : (\A c \in R : f[c][j] = NoDelta) => SumDeltas(f)[j] = NoDelta
  BY <1>1, <1>2, <1>3, SumDeltasIs
<1>5. ASSUME NEW k \in Nat \ {0}
      PROVE  Cumulated(SumDeltas(f), k) = -SumFunctionOnSet([c \in e.recv |-> InPart(c, e, t, k)], R)
  <2> DEFINE g == [c \in R |-> Cumulated(f[c], k)]
             h == [c \in e.recv |-> InPart(c, e, t, k)]
  <2>1. ASSUME NEW c \in R
        PROVE  h[c] \in Int /\ g[c] = (-1) * h[c]
    <3>1. InPart(c, e, t, k) \in Nat
      BY ComingIs
    <3>2. g[c] = -InPart(c, e, t, k) /\ h[c] = InPart(c, e, t, k)
      BY <1>2
    <3> HIDE DEF g, h
    <3> QED BY <3>1, <3>2
  <2>2. Cumulated(SumDeltas(f), k) = SumFunctionOnSet(g, R)
    BY <1>4
  <2> HIDE DEF g, h
  <2>3. SumFunctionOnSet(g, R) = (-1) * SumFunctionOnSet(h, R)
    <3>1. -1 \in Int
      OBVIOUS
    <3> QED BY <1>1, <2>1, <3>1, SumScales
  <2>4. SumFunctionOnSet(h, R) \in Int
    BY <1>1, <2>1, SumInt
  <2> QED BY <2>2, <2>3, <2>4 DEF h
<1> QED BY <1>2, <1>4, <1>5

\* A stream that flowed in one range of seconds flows in another.
LEMMA ShiftIs ==
  ASSUME NEW rate \in Nat, NEW a \in Nat, NEW b \in Nat, NEW c \in Nat, NEW d \in Nat, a <= b, c <= d,
         CycleOf(a) \in Cycles, CycleOf(b) \in Cycles, CycleOf(c) \in Cycles, CycleOf(d) \in Cycles,
         NEW e, e = Plus(DeltaRange(a, c, -rate), DeltaRange(b, d, rate))
  PROVE  /\ e \in Tables
         /\ \A k \in Nat \ {0} :
              Cumulated(e, k) = (Upto(rate, Clip(d, k)) - Upto(rate, Clip(c, k)))
                                - (Upto(rate, Clip(b, k)) - Upto(rate, Clip(a, k)))
         /\ \A j \in Cycles : j < CycleOf(a) /\ j < CycleOf(c) => e[j] = NoDelta
<1> DEFINE first == DeltaRange(a, c, -rate)
           second == DeltaRange(b, d, rate)
<1>1. /\ first \in Tables
      /\ \A k \in Nat \ {0} : /\ Cumulated(first, k) = Upto(rate, Clip(a, k)) - Upto(rate, Clip(c, k))
                              /\ Upto(rate, Clip(a, k)) \in Nat /\ Upto(rate, Clip(c, k)) \in Nat
      /\ \A j \in Cycles : j # CycleOf(a) /\ j # CycleOf(c) => first[j] = NoDelta
  BY DeltaRangeIs
<1>2. /\ second \in Tables
      /\ \A k \in Nat \ {0} : /\ Cumulated(second, k) = Upto(rate, Clip(d, k)) - Upto(rate, Clip(b, k))
                              /\ Upto(rate, Clip(d, k)) \in Nat /\ Upto(rate, Clip(b, k)) \in Nat
      /\ \A j \in Cycles : j # CycleOf(b) /\ j # CycleOf(d) => second[j] = NoDelta
  BY DeltaRangeIs
<1>3. e = Plus(first, second)
  OBVIOUS
<1> HIDE DEF first, second
<1>4. /\ e \in Tables
      /\ \A k \in Nat : Cumulated(e, k) = Cumulated(first, k) + Cumulated(second, k)
      /\ \A j \in Cycles : first[j] = NoDelta /\ second[j] = NoDelta => e[j] = NoDelta
  BY <1>1, <1>2, <1>3, PlusIs
<1>5. ASSUME NEW k \in Nat \ {0}
      PROVE  Cumulated(e, k) = (Upto(rate, Clip(d, k)) - Upto(rate, Clip(c, k)))
                               - (Upto(rate, Clip(b, k)) - Upto(rate, Clip(a, k)))
  BY <1>1, <1>2, <1>4
<1>6. ASSUME NEW j \in Cycles, j < CycleOf(a), j < CycleOf(c)
      PROVE  e[j] = NoDelta
  <2>1. j \in Nat
    BY NoDeltaIs, TableIs
  <2>2. /\ CycleOf(a) <= CycleOf(b) /\ CycleOf(a) \in Nat /\ CycleOf(b) \in Nat
        /\ CycleOf(c) <= CycleOf(d) /\ CycleOf(c) \in Nat /\ CycleOf(d) \in Nat
    BY CycleGrows, CycleIs
  <2>3. j # CycleOf(a) /\ j # CycleOf(b) /\ j # CycleOf(c) /\ j # CycleOf(d)
    BY <1>6, <2>1, <2>2
  <2> QED BY <1>1, <1>2, <1>4, <2>3
<1> QED BY <1>4, <1>5, <1>6

LEMMA ShiftedPair ==
  ASSUME NEW x, IsBook(x), NEW y, IsBook(y), NEW t \in 0..Forever,
         NEW v, v \in x.recv, NEW w, w \in y.recv, v.rate = w.rate
  PROVE  LET e == Plus(DeltaRange(Future(v, x, t).from, Future(w, y, t).from, -v.rate),
                       DeltaRange(Future(v, x, t).to, Future(w, y, t).to, v.rate))
         IN  /\ e \in Tables
             /\ \A k \in Nat \ {0} : Cumulated(e, k) = InPart(w, y, t, k) - InPart(v, x, t, k)
             /\ \A j \in Cycles : j < CycleOf(Future(v, x, t).from) /\ j < CycleOf(Future(w, y, t).from) =>
                  e[j] = NoDelta
<1> DEFINE rate == v.rate
           a == Future(v, x, t).from
           b == Future(v, x, t).to
           c == Future(w, y, t).from
           d == Future(w, y, t).to
           e == Plus(DeltaRange(a, c, -rate), DeltaRange(b, d, rate))
<1>1. IsStream(v) /\ IsConfig(x) /\ IsStream(w) /\ IsConfig(y)
  BY DEF IsBook
<1>2. rate \in Nat
  BY <1>1, StreamTimes
<1>3. /\ a \in Nat /\ b \in Nat /\ a <= b /\ CycleOf(a) \in Cycles /\ CycleOf(b) \in Cycles
      /\ c \in Nat /\ d \in Nat /\ c <= d /\ CycleOf(c) \in Cycles /\ CycleOf(d) \in Cycles
  <2>1. a \in 0..Forever /\ b \in 0..Forever /\ a <= b /\ CycleOf(a) \in Cycles /\ CycleOf(b) \in Cycles
    BY <1>1, FutureIs
  <2>2. c \in 0..Forever /\ d \in 0..Forever /\ c <= d /\ CycleOf(c) \in Cycles /\ CycleOf(d) \in Cycles
    BY <1>1, FutureIs
  <2> HIDE DEF a, b, c, d
  <2> QED BY <2>1, <2>2
<1>4. \A k \in Nat \ {0} :
        /\ InPart(v, x, t, k) = Upto(rate, Clip(b, k)) - Upto(rate, Clip(a, k))
        /\ InPart(w, y, t, k) = Upto(rate, Clip(d, k)) - Upto(rate, Clip(c, k))
  BY DEF InPart
<1> HIDE DEF a, b, c, d, rate
<1>5. /\ e \in Tables
      /\ \A k \in Nat \ {0} :
           Cumulated(e, k) = (Upto(rate, Clip(d, k)) - Upto(rate, Clip(c, k)))
                             - (Upto(rate, Clip(b, k)) - Upto(rate, Clip(a, k)))
      /\ \A j \in Cycles : j < CycleOf(a) /\ j < CycleOf(c) => e[j] = NoDelta
  <2>1. e = Plus(DeltaRange(a, c, -rate), DeltaRange(b, d, rate))
    OBVIOUS
  <2> HIDE DEF e
  <2> QED BY ONLY <1>2, <1>3, <2>1, ShiftIs, SMTT(20)
<1> HIDE DEF e
<1>7. \A k \in Nat \ {0} : Cumulated(e, k) = InPart(w, y, t, k) - InPart(v, x, t, k)
  BY <1>4, <1>5
<1>8. \A j \in Cycles : j < CycleOf(Future(v, x, t).from) /\ j < CycleOf(Future(w, y, t).from) =>
                  e[j] = NoDelta
  BY <1>5 DEF a, c
<1>9. e \in Tables
  BY <1>5
<1> QED
  <2> USE DEF a, b, c, d, rate, e
  <2> QED BY ONLY <1>7, <1>8, <1>9

\* The deltas of streams that two configurations have in common.
LEMMA ShiftedIs ==
  ASSUME NEW x, IsBook(x), NEW y, IsBook(y), NEW t \in 0..Forever,
         NEW Z, IsFiniteSet(Z), \A z \in Z : z[1] \in x.recv /\ z[2] \in y.recv /\ z[1].rate = z[2].rate,
         NEW f, f = [z \in Z |->
           Plus(DeltaRange(Future(z[1], x, t).from, Future(z[2], y, t).from, -z[1].rate),
                DeltaRange(Future(z[1], x, t).to, Future(z[2], y, t).to, z[1].rate))]
  PROVE  /\ SumDeltas(f) \in Tables
         /\ \A k \in Nat \ {0} :
              Cumulated(SumDeltas(f), k)
              = SumFunctionOnSet([z \in Z |-> InPart(z[2], y, t, k)], Z)
                - SumFunctionOnSet([z \in Z |-> InPart(z[1], x, t, k)], Z)
         /\ \A j \in Cycles :
              (\A z \in Z : /\ j < CycleOf(Future(z[1], x, t).from)
                            /\ j < CycleOf(Future(z[2], y, t).from)) => SumDeltas(f)[j] = NoDelta
<1>2. ASSUME NEW z \in Z
      PROVE  /\ f[z] \in Tables
             /\ \A k \in Nat \ {0} : Cumulated(f[z], k) = InPart(z[2], y, t, k) - InPart(z[1], x, t, k)
             /\ \A j \in Cycles : j < CycleOf(Future(z[1], x, t).from) /\ j < CycleOf(Future(z[2], y, t).from) =>
                  f[z][j] = NoDelta
  BY ShiftedPair
<1>3. DOMAIN f = Z
  OBVIOUS
<1>4. /\ SumDeltas(f) \in Tables
      /\ \A k \in Nat : Cumulated(SumDeltas(f), k) = SumFunctionOnSet([z \in Z |-> Cumulated(f[z], k)], Z)
      /\ \A j \in Cycles : (\A z \in Z : f[z][j] = NoDelta) => SumDeltas(f)[j] = NoDelta
  BY <1>2, <1>3, SumDeltasIs
<1>5. ASSUME NEW k \in Nat \ {0}
      PROVE  Cumulated(SumDeltas(f), k)
             = SumFunctionOnSet([z \in Z |-> InPart(z[2], y, t, k)], Z)
               - SumFunctionOnSet([z \in Z |-> InPart(z[1], x, t, k)], Z)
  <2> DEFINE g == [z \in Z |-> Cumulated(f[z], k)]
             h == [z \in Z |-> InPart(z[2], y, t, k)]
             i == [z \in Z |-> InPart(z[1], x, t, k)]
  <2>1. ASSUME NEW z \in Z
        PROVE  g[z] \in Int /\ h[z] \in Int /\ i[z] \in Int /\ h[z] = g[z] + i[z]
    <3>1. InPart(z[2], y, t, k) \in Nat /\ InPart(z[1], x, t, k) \in Nat
      BY ComingIs
    <3>2. g[z] = InPart(z[2], y, t, k) - InPart(z[1], x, t, k)
      BY <1>2
    <3>3. h[z] = InPart(z[2], y, t, k) /\ i[z] = InPart(z[1], x, t, k)
      OBVIOUS
    <3> HIDE DEF g, h, i
    <3> QED BY <3>1, <3>2, <3>3
  <2>2. Cumulated(SumDeltas(f), k) = SumFunctionOnSet(g, Z)
    BY <1>4
  <2> HIDE DEF g, h, i
  <2>3. SumFunctionOnSet(h, Z) = SumFunctionOnSet(g, Z) + SumFunctionOnSet(i, Z)
    BY <2>1, SumAdds
  <2>4. SumFunctionOnSet(g, Z) \in Int /\ SumFunctionOnSet(i, Z) \in Int
    BY <2>1, SumInt
  <2>5. SumFunctionOnSet(g, Z) = SumFunctionOnSet(h, Z) - SumFunctionOnSet(i, Z)
    BY <2>3, <2>4
  <2> QED BY <2>2, <2>5 DEF h, i
<1> QED BY <1>2, <1>4, <1>5

ReceiverStates(t) ==
    {p \in [nextReceivableCycle : Cycles \cup {0}, amtDeltas : Tables,
            nextSqueezed : [Senders -> UNION {Rows(s, t) : s \in Senders}]] :
       \A s \in Senders : p.nextSqueezed[s] \in Rows(s, t)}

\* The state of a receiver at t: cycles that were received hold nothing, and
\* no finished cycle owes.
GoodReceiver(p, t) ==
    /\ p \in ReceiverStates(t)
    /\ \A j \in Cycles : p.nextReceivableCycle = 0 \/ j < p.nextReceivableCycle =>
         p.amtDeltas[j] = NoDelta
    /\ \A k \in 1..CycleOf(t) - 1 : Cumulated(p.amtDeltas, k) >= 0

\* Receiver state p knows of stream c of configuration e.
Knows(p, c, e, t) == p.nextReceivableCycle \in 1..CycleOf(Future(c, e, t).from)

LEMMA ReceiverIs ==
  ASSUME NEW t \in Nat, NEW p, GoodReceiver(p, t)
  PROVE  /\ p = [nextReceivableCycle |-> p.nextReceivableCycle, amtDeltas |-> p.amtDeltas,
                 nextSqueezed |-> p.nextSqueezed]
         /\ p.nextReceivableCycle \in Cycles \cup {0} /\ p.nextReceivableCycle \in Nat
         /\ p.amtDeltas \in Tables
         /\ p.nextSqueezed = [s \in Senders |-> p.nextSqueezed[s]]
         /\ \A s \in Senders : p.nextSqueezed[s] \in Rows(s, t)
<1>1. p \in [nextReceivableCycle : Cycles \cup {0}, amtDeltas : Tables,
             nextSqueezed : [Senders -> UNION {Rows(s, t) : s \in Senders}]]
      /\ \A s \in Senders : p.nextSqueezed[s] \in Rows(s, t)
  BY DEF GoodReceiver, ReceiverStates
<1>2. Cycles \cup {0} \subseteq Nat
  BY CyclesAre
<1> QED BY <1>1, <1>2

LEMMA ReceiverMade ==
  ASSUME NEW t \in Nat, NEW c \in Cycles \cup {0}, NEW d \in Tables,
         NEW q, q = [s \in Senders |-> q[s]], \A s \in Senders : q[s] \in Rows(s, t)
  PROVE  [nextReceivableCycle |-> c, amtDeltas |-> d, nextSqueezed |-> q] \in ReceiverStates(t)
<1>1. q \in [Senders -> UNION {Rows(s, t) : s \in Senders}]
  OBVIOUS
<1> QED BY <1>1 DEF ReceiverStates

LEMMA MinIs ==
  ASSUME NEW E, E \subseteq Nat, E # {}
  PROVE  Min(E) \in E /\ \A e \in E : Min(E) <= e
<1>1. \E e \in E : \A d \in E : e <= d
  BY LeastOf
<1> QED BY <1>1 DEF Min

LEMMA EarliestIs ==
  ASSUME NEW E, E \subseteq Nat \ {0}, NEW n \in Nat,
         NEW m, m = IF E = {} THEN n ELSE IF n = 0 THEN Min(E) ELSE Lesser(n, Min(E))
  PROVE  /\ m \in E \cup {n} /\ m \in Nat
         /\ \A e \in E : m \in 1..e
         /\ n # 0 => m \in 1..n
         /\ m = 0 => n = 0
<1>1. CASE E = {}
  BY <1>1
<1>2. CASE E # {}
  <2> DEFINE a == Min(E)
  <2>1. a \in E /\ \A e \in E : a <= e
    BY <1>2, MinIs
  <2>2. m = IF n = 0 THEN a ELSE Lesser(n, a)
    BY <1>2
  <2> HIDE DEF a
  <2>3. a \in Nat \ {0}
    BY <2>1
  <2>4. \/ m = a /\ (n = 0 \/ m <= n)
        \/ m = n /\ n # 0 /\ m <= a
    BY <2>2, <2>3 DEF Lesser
  <2>5. m \in Nat \ {0} /\ m <= a /\ (n # 0 => m <= n)
    BY <2>3, <2>4
  <2>6. \A e \in E : m \in 1..e
    <3> TAKE e \in E
    <3>1. e \in Nat /\ a <= e
      BY <2>1
    <3> QED BY <2>3, <2>5, <3>1
  <2>7. m \in E \cup {n}
    BY <2>1, <2>4
  <2> QED BY <2>5, <2>6, <2>7
<1> QED BY <1>1, <1>2

\* A change of a sender's configuration from x to y, for one receiver: its
\* cycles from the running one on come to what y pays instead of x, and it
\* looks for nothing in a cycle before the one it will receive next.
LEMMA UpdatedIs ==
  ASSUME now \in 0..Forever, NEW p, GoodReceiver(p, now), NEW r, NEW x, IsBook(x), NEW y, IsBook(y),
         y.updateTime = now, NEW pairs \in Pairings(x.recv, y.recv),
         \A c \in To(r, x.recv) : Knows(p, c, x, now)
  PROVE  LET after == Updated(p, r, x, y.recv, pairs, y.maxEnd)
         IN  /\ GoodReceiver(after, now)
             /\ after.nextSqueezed = p.nextSqueezed
             /\ \A k \in Nat \ {0} :
                  /\ Cumulated(p.amtDeltas, k) \in Int
                  /\ Cumulated(after.amtDeltas, k)
                     = IF CycleOf(now) <= k
                       THEN Cumulated(p.amtDeltas, k) - Coming(x, r, now, k) + Coming(y, r, now, k)
                       ELSE Cumulated(p.amtDeltas, k)
             /\ \A c \in To(r, y.recv) : Knows(after, c, y, now)
             /\ p.nextReceivableCycle # 0 => after.nextReceivableCycle \in 1..p.nextReceivableCycle
<1> DEFINE old(c) == Future(c, x, now)
           new(c) == Future(c, y, now)
           R == Lone(r, x.recv, {z[1] : z \in pairs})
           N == Lone(r, y.recv, {z[2] : z \in pairs})
           Z == Pairs(r, pairs)
           remove == [c \in R |-> DeltaRange(old(c).from, old(c).to, -c.rate)]
           create == [c \in N |-> DeltaRange(new(c).from, new(c).to, c.rate)]
           shift == [z \in Z |-> Plus(DeltaRange(old(z[1]).from, new(z[2]).from, -z[1].rate),
                                      DeltaRange(old(z[1]).to, new(z[2]).to, z[1].rate))]
           E == {CycleOf(new(c).from) : c \in N}
                \cup {CycleOf(new(z[2]).from) : z \in
                        {w \in Z : CycleOf(old(w[1]).from) > CycleOf(new(w[2]).from)}}
           next == IF E = {} THEN p.nextReceivableCycle
                   ELSE IF p.nextReceivableCycle = 0 THEN Min(E) ELSE Lesser(p.nextReceivableCycle, Min(E))
           d == Plus(p.amtDeltas, Plus(SumDeltas(remove), Plus(SumDeltas(create), SumDeltas(shift))))
           after == Updated(p, r, x, y.recv, pairs, y.maxEnd)
<1>1. /\ p = [nextReceivableCycle |-> p.nextReceivableCycle, amtDeltas |-> p.amtDeltas,
              nextSqueezed |-> p.nextSqueezed]
      /\ now \in Nat
  <2>1. now \in Nat
    BY Constants
  <2> QED BY <2>1, ReceiverIs
<1>2. after = [nextReceivableCycle |-> next, amtDeltas |-> d, nextSqueezed |-> p.nextSqueezed]
  <2> DEFINE was(c) == InFuture(c, x.updateTime, x.maxEnd)
             willBe(c) == InFuture(c, now, y.maxEnd)
             removed == {c \in x.recv : c.to = r /\ \A z \in pairs : z[1] # c}
             created == {c \in y.recv : c.to = r /\ \A z \in pairs : z[2] # c}
             shifted == {z \in pairs : z[1].to = r}
             g == [c \in removed |-> DeltaRange(was(c).from, was(c).to, -c.rate)]
             h == [c \in created |-> DeltaRange(willBe(c).from, willBe(c).to, c.rate)]
             i == [z \in shifted |-> Plus(DeltaRange(was(z[1]).from, willBe(z[2]).from, -z[1].rate),
                                          DeltaRange(was(z[1]).to, willBe(z[2]).to, z[1].rate))]
             F == {CycleOf(willBe(c).from) : c \in created}
                  \cup {CycleOf(willBe(z[2]).from) : z \in
                          {w \in shifted : CycleOf(was(w[1]).from) > CycleOf(willBe(w[2]).from)}}
  <2>1. after = [p EXCEPT
                  !.amtDeltas = Plus(p.amtDeltas, Plus(SumDeltas(g), Plus(SumDeltas(h), SumDeltas(i)))),
                  !.nextReceivableCycle =
                     IF F = {} THEN p.nextReceivableCycle
                     ELSE IF p.nextReceivableCycle = 0 THEN Min(F) ELSE Lesser(p.nextReceivableCycle, Min(F))]
    BY DEF Updated
  <2>2. R = removed /\ N = created /\ Z = shifted
    BY DEF Lone, Pairs
  <2>3. \A c : old(c) = was(c) /\ new(c) = willBe(c)
    BY DEF Future, InFuture
  <2> HIDE DEF R, N, Z, removed, created, shifted, old, new, was, willBe
  <2>4. remove = g
    BY <2>2, <2>3
  <2>5. create = h
    BY <2>2, <2>3
  <2>6. shift = i
    BY <2>2, <2>3
  <2>7. E = F
    BY <2>2, <2>3
  <2> HIDE DEF remove, create, shift, E, g, h, i, F
  <2>8. after = [p EXCEPT !.amtDeltas = d, !.nextReceivableCycle = next]
    BY <2>1, <2>4, <2>5, <2>6, <2>7
  <2> HIDE DEF d, next, after
  <2> QED BY <1>1, <2>8
<1>3. /\ R \in SUBSET x.recv /\ N \in SUBSET y.recv /\ IsFiniteSet(x.recv) /\ IsFiniteSet(y.recv)
      /\ IsFiniteSet(R) /\ IsFiniteSet(N) /\ IsFiniteSet(Z)
      /\ \A z \in Z : /\ z[1] \in To(r, x.recv) /\ z[1] \in x.recv /\ z[2] \in y.recv /\ z[1].rate = z[2].rate
      /\ \A c \in R : c \in To(r, x.recv)
  <2>1. R \in SUBSET x.recv /\ N \in SUBSET y.recv /\ IsFiniteSet(x.recv) /\ IsFiniteSet(y.recv)
    BY DEF Lone, IsBook
  <2>2. /\ IsFiniteSet(pairs)
        /\ \A z \in pairs : z[1] \in x.recv /\ z[2] \in y.recv /\ z[1].rate = z[2].rate
    BY <2>1, PairsAre
  <2>3. IsFiniteSet(R) /\ IsFiniteSet(N) /\ IsFiniteSet(Z)
    BY <2>1, <2>2, FS_Subset DEF Pairs
  <2>4. \A z \in Z : z[1] \in To(r, x.recv) /\ z[1] \in x.recv /\ z[2] \in y.recv /\ z[1].rate = z[2].rate
    <3> TAKE z \in Z
    <3>1. z \in pairs /\ z[1].to = r
      BY DEF Pairs
    <3> QED BY <2>2, <3>1 DEF To
  <2>5. \A c \in R : c \in To(r, x.recv)
    BY DEF Lone, To
  <2> HIDE DEF R, N, Z
  <2> QED BY <2>1, <2>3, <2>4, <2>5
<1>4. /\ SumDeltas(remove) \in Tables
      /\ \A k \in Nat \ {0} : Cumulated(SumDeltas(remove), k)
                               = -SumFunctionOnSet([c \in x.recv |-> InPart(c, x, now, k)], R)
      /\ \A j \in Cycles : (\A c \in R : j < CycleOf(old(c).from)) => SumDeltas(remove)[j] = NoDelta
  BY <1>3, RemovedIs
<1>5. /\ SumDeltas(create) \in Tables
      /\ \A k \in Nat \ {0} : Cumulated(SumDeltas(create), k)
                               = SumFunctionOnSet([c \in y.recv |-> InPart(c, y, now, k)], N)
      /\ \A j \in Cycles : (\A c \in N : j < CycleOf(new(c).from)) => SumDeltas(create)[j] = NoDelta
  BY <1>3, CreatedIs
<1>6. /\ SumDeltas(shift) \in Tables
      /\ \A k \in Nat \ {0} : Cumulated(SumDeltas(shift), k)
                               = SumFunctionOnSet([z \in Z |-> InPart(z[2], y, now, k)], Z)
                                 - SumFunctionOnSet([z \in Z |-> InPart(z[1], x, now, k)], Z)
      /\ \A j \in Cycles : (\A z \in Z : j < CycleOf(old(z[1]).from) /\ j < CycleOf(new(z[2]).from)) =>
            SumDeltas(shift)[j] = NoDelta
  BY <1>3, ShiftedIs
<1>7. p.amtDeltas \in Tables /\ p.nextReceivableCycle \in Cycles \cup {0} /\ p.nextReceivableCycle \in Nat
  BY <1>1, ReceiverIs
<1> DEFINE rem == SumDeltas(remove)
           cre == SumDeltas(create)
           shi == SumDeltas(shift)
<1>8. /\ d \in Tables
      /\ \A k \in Nat : Cumulated(d, k) = Cumulated(p.amtDeltas, k)
                          + (Cumulated(rem, k) + (Cumulated(cre, k) + Cumulated(shi, k)))
      /\ \A j \in Cycles :
           (p.amtDeltas[j] = NoDelta /\ rem[j] = NoDelta /\ cre[j] = NoDelta /\ shi[j] = NoDelta) =>
             d[j] = NoDelta
  <2>1. d = Plus(p.amtDeltas, Plus(rem, Plus(cre, shi)))
    OBVIOUS
  <2>2. rem \in Tables /\ cre \in Tables /\ shi \in Tables
    BY <1>4, <1>5, <1>6
  <2> HIDE DEF d, rem, cre, shi
  <2> DEFINE b == Plus(cre, shi)
             a == Plus(rem, b)
  <2>3. /\ b \in Tables /\ \A k \in Nat : Cumulated(b, k) = Cumulated(cre, k) + Cumulated(shi, k)
        /\ \A j \in Cycles : cre[j] = NoDelta /\ shi[j] = NoDelta => b[j] = NoDelta
    BY <2>2, PlusIs
  <2> HIDE DEF b
  <2>4. /\ a \in Tables /\ \A k \in Nat : Cumulated(a, k) = Cumulated(rem, k) + Cumulated(b, k)
        /\ \A j \in Cycles : rem[j] = NoDelta /\ b[j] = NoDelta => a[j] = NoDelta
    BY <2>2, <2>3, PlusIs
  <2>5. d = Plus(p.amtDeltas, a)
    BY <2>1 DEF b
  <2> HIDE DEF a
  <2>6. /\ d \in Tables /\ \A k \in Nat : Cumulated(d, k) = Cumulated(p.amtDeltas, k) + Cumulated(a, k)
        /\ \A j \in Cycles : p.amtDeltas[j] = NoDelta /\ a[j] = NoDelta => d[j] = NoDelta
    BY <1>7, <2>4, <2>5, PlusIs
  <2> QED BY <2>3, <2>4, <2>6
<1> HIDE DEF rem, cre, shi, remove, create, shift
<1>9. ASSUME NEW c \in To(r, x.recv)
      PROVE  p.nextReceivableCycle \in 1..CycleOf(old(c).from) /\ CycleOf(old(c).from) \in Nat
  <2>1. c \in x.recv /\ IsStream(c) /\ IsConfig(x)
    BY DEF To, IsBook
  <2>2. CycleOf(old(c).from) \in Cycles
    BY <2>1, FutureIs
  <2>3. CycleOf(old(c).from) \in Nat
    BY <2>2, CyclesAre
  <2> QED BY <2>3 DEF Knows
<1>10. ASSUME NEW c \in y.recv
       PROVE  CycleOf(new(c).from) \in Cycles /\ CycleOf(new(c).from) \in Nat \ {0}
  <2>1. IsStream(c) /\ IsConfig(y)
    BY DEF IsBook
  <2>2. CycleOf(new(c).from) \in Cycles
    BY <2>1, FutureIs
  <2> QED BY <2>2, CyclesAre
<1>11. /\ \A c \in N : CycleOf(new(c).from) \in E
       /\ \A z \in Z : CycleOf(old(z[1]).from) > CycleOf(new(z[2]).from) => CycleOf(new(z[2]).from) \in E
       /\ E \subseteq Cycles /\ E \subseteq Nat \ {0}
  <2>1. \A z \in Z : z[2] \in y.recv
    BY <1>3
  <2>2. N \subseteq y.recv
    BY <1>3
  <2> HIDE DEF N, Z, old, new
  <2>3. E \subseteq Cycles /\ E \subseteq Nat \ {0}
    BY <1>10, <2>1, <2>2
  <2> QED BY <2>3
<1> HIDE DEF E
<1>12. /\ next \in Cycles \cup {0} /\ next \in Nat
       /\ \A e \in E : next \in 1..e
       /\ p.nextReceivableCycle # 0 => next \in 1..p.nextReceivableCycle
       /\ next = 0 => p.nextReceivableCycle = 0
  <2>1. /\ next \in E \cup {p.nextReceivableCycle} /\ next \in Nat
        /\ \A e \in E : next \in 1..e
        /\ p.nextReceivableCycle # 0 => next \in 1..p.nextReceivableCycle
        /\ next = 0 => p.nextReceivableCycle = 0
    <3>1. next = IF E = {} THEN p.nextReceivableCycle
                 ELSE IF p.nextReceivableCycle = 0 THEN Min(E) ELSE Lesser(p.nextReceivableCycle, Min(E))
      OBVIOUS
    <3> HIDE DEF next
    <3> DEFINE n == p.nextReceivableCycle
    <3>2. n \in Nat /\ next = IF E = {} THEN n ELSE IF n = 0 THEN Min(E) ELSE Lesser(n, Min(E))
      BY <1>7, <3>1
    <3>3. E \subseteq Nat \ {0}
      BY <1>11
    <3> HIDE DEF n
    <3>4. /\ next \in E \cup {n} /\ next \in Nat
          /\ \A e \in E : next \in 1..e
          /\ n # 0 => next \in 1..n
          /\ next = 0 => n = 0
      BY ONLY <3>2, <3>3, EarliestIs, ZenonT(20)
    <3> QED BY <3>4 DEF n
  <2>2. next \in Cycles \cup {0}
    BY <1>7, <1>11, <2>1
  <2> QED BY <2>1, <2>2
<1> HIDE DEF next
<1>13. ASSUME NEW j \in Cycles, next = 0 \/ j < next
       PROVE  d[j] = NoDelta
  <2>1. j \in Nat \ {0}
    BY CyclesAre
  <2>2. p.amtDeltas[j] = NoDelta
    <3>1. p.nextReceivableCycle = 0 \/ j < p.nextReceivableCycle
      BY <1>7, <1>12, <1>13, <2>1
    <3> QED BY <3>1 DEF GoodReceiver
  <2>3. ASSUME NEW c \in To(r, x.recv)
        PROVE  j < CycleOf(old(c).from)
    <3>1. p.nextReceivableCycle \in 1..CycleOf(old(c).from) /\ CycleOf(old(c).from) \in Nat
      BY <1>9
    <3>2. p.nextReceivableCycle # 0 /\ next \in 1..p.nextReceivableCycle
      BY <1>7, <1>12, <3>1
    <3> QED BY <1>7, <1>12, <1>13, <2>1, <3>1, <3>2
  <2>4. rem[j] = NoDelta
    <3>1. \A c \in R : j < CycleOf(old(c).from)
      BY <1>3, <2>3
    <3> QED BY <1>4, <3>1 DEF rem
  <2>5. ASSUME NEW e \in E
        PROVE  j < e
    BY <1>11, <1>12, <1>13, <2>1
  <2>6. cre[j] = NoDelta
    <3>1. \A c \in N : j < CycleOf(new(c).from)
      BY <1>11, <2>5
    <3> QED BY <1>5, <3>1 DEF cre
  <2>7. shi[j] = NoDelta
    <3>1. ASSUME NEW z \in Z
          PROVE  j < CycleOf(old(z[1]).from) /\ j < CycleOf(new(z[2]).from)
      <4>1. z[1] \in To(r, x.recv) /\ z[2] \in y.recv
        BY <1>3
      <4>2. j < CycleOf(old(z[1]).from) /\ CycleOf(old(z[1]).from) \in Nat
        BY <1>9, <2>3, <4>1
      <4>3. CycleOf(new(z[2]).from) \in Nat
        BY <1>10, <4>1
      <4>4. CASE CycleOf(old(z[1]).from) > CycleOf(new(z[2]).from)
        BY <1>11, <2>5, <4>2, <4>4
      <4>5. CASE ~(CycleOf(old(z[1]).from) > CycleOf(new(z[2]).from))
        <5>1. CycleOf(old(z[1]).from) <= CycleOf(new(z[2]).from)
          BY <4>2, <4>3, <4>5
        <5> QED BY <2>1, <4>2, <4>3, <5>1
      <4> QED BY <4>4, <4>5
    <3> QED BY <1>6, <3>1 DEF shi
  <2> QED BY <1>8, <2>2, <2>4, <2>6, <2>7
<1>14. ASSUME NEW k \in Nat \ {0}
       PROVE  /\ Cumulated(p.amtDeltas, k) \in Int
              /\ Cumulated(d, k) = IF CycleOf(now) <= k
                                   THEN Cumulated(p.amtDeltas, k) - Coming(x, r, now, k) + Coming(y, r, now, k)
                                   ELSE Cumulated(p.amtDeltas, k)
  <2> DEFINE f == [c \in x.recv |-> InPart(c, x, now, k)]
             g == [c \in y.recv |-> InPart(c, y, now, k)]
             fz == [z \in Z |-> InPart(z[1], x, now, k)]
             gz == [z \in Z |-> InPart(z[2], y, now, k)]
  <2>1. \A c \in x.recv : f[c] \in Int
    BY ComingIs
  <2>2. \A c \in y.recv : g[c] \in Int
    BY ComingIs
  <2>3. fz = [z \in Z |-> f[z[1]]] /\ gz = [z \in Z |-> g[z[2]]]
    BY <1>3
  <2>4. /\ Coming(x, r, now, k) \in Nat /\ Coming(y, r, now, k) \in Nat
        /\ SumFunctionOnSet(f, To(r, x.recv)) = IF CycleOf(now) <= k THEN Coming(x, r, now, k) ELSE 0
        /\ SumFunctionOnSet(g, To(r, y.recv)) = IF CycleOf(now) <= k THEN Coming(y, r, now, k) ELSE 0
    BY ComingIs
  <2>5. /\ Cumulated(rem, k) = -SumFunctionOnSet(f, R)
        /\ Cumulated(cre, k) = SumFunctionOnSet(g, N)
        /\ Cumulated(shi, k) = SumFunctionOnSet(gz, Z) - SumFunctionOnSet(fz, Z)
    BY <1>4, <1>5, <1>6 DEF rem, cre, shi
  <2>6. \A z \in Z : fz[z] \in Int /\ gz[z] \in Int
    BY <1>3, <2>1, <2>2
  <2> HIDE DEF f, g, fz, gz
  <2>7. SumFunctionOnSet(f, To(r, x.recv)) = SumFunctionOnSet(f, R) + SumFunctionOnSet(fz, Z)
    <3> DEFINE first == [z \in pairs |-> z[1]]
    <3>1. /\ IsFiniteSet(pairs) /\ \A z \in pairs : first[z] \in x.recv
          /\ \A z, w \in pairs : first[z] = first[w] => z = w
      BY <1>3, PairsAre
    <3>2. /\ \A z : z \in Z <=> z \in pairs /\ first[z].to = r
          /\ \A c : c \in R <=> c \in x.recv /\ c.to = r /\ \A z \in pairs : c # first[z]
      BY DEF Pairs, Lone
    <3>3. \A z \in Z : fz[z] = f[first[z]]
      BY <2>3, <3>2
    <3>4. Parted(x.recv, pairs, first, r, Z, R)
      <4> HIDE DEF first, Z, R
      <4> QED BY <1>3, <3>1, <3>2 DEF Parted
    <3> HIDE DEF first, Z, R
    <3> QED BY ONLY <2>1, <3>3, <3>4, Matched
  <2>8. SumFunctionOnSet(g, To(r, y.recv)) = SumFunctionOnSet(g, N) + SumFunctionOnSet(gz, Z)
    <3> DEFINE second == [z \in pairs |-> z[2]]
    <3>1. /\ IsFiniteSet(pairs) /\ \A z \in pairs : second[z] \in y.recv /\ z[1].to = z[2].to
          /\ \A z, w \in pairs : second[z] = second[w] => z = w
      BY <1>3, PairsAre
    <3>2. /\ \A z : z \in Z <=> z \in pairs /\ second[z].to = r
          /\ \A c : c \in N <=> c \in y.recv /\ c.to = r /\ \A z \in pairs : c # second[z]
      BY <3>1 DEF Pairs, Lone
    <3>3. \A z \in Z : gz[z] = g[second[z]]
      BY <2>3, <3>2
    <3>4. Parted(y.recv, pairs, second, r, Z, N)
      <4> HIDE DEF second, Z, N
      <4> QED BY <1>3, <3>1, <3>2 DEF Parted
    <3> HIDE DEF second, Z, N
    <3> QED BY ONLY <2>2, <3>3, <3>4, Matched
  <2>9. /\ SumFunctionOnSet(f, R) \in Int /\ SumFunctionOnSet(g, N) \in Int
        /\ SumFunctionOnSet(fz, Z) \in Int /\ SumFunctionOnSet(gz, Z) \in Int
    BY <1>3, <2>1, <2>2, <2>6, SumInt
  <2>10. Cumulated(p.amtDeltas, k) \in Int
    BY <1>7, ShareIs
  <2>11. Cumulated(d, k) = Cumulated(p.amtDeltas, k) + (Cumulated(rem, k) + (Cumulated(cre, k) + Cumulated(shi, k)))
    BY <1>8
  <2> HIDE DEF rem, cre, shi, d
  <2>12. Cumulated(d, k) = Cumulated(p.amtDeltas, k) - SumFunctionOnSet(f, To(r, x.recv))
                           + SumFunctionOnSet(g, To(r, y.recv))
    BY <2>5, <2>7, <2>8, <2>9, <2>10, <2>11
  <2> QED BY <2>4, <2>10, <2>12
<1>15. d \in Tables
  BY <1>8
<1> HIDE DEF d, after
<1>16. /\ after.nextReceivableCycle = next /\ after.amtDeltas = d /\ after.nextSqueezed = p.nextSqueezed
  BY <1>2
<1>17. GoodReceiver(after, now)
  <2>1. now \in Nat
    BY <1>1
  <2>2. p.nextSqueezed = [s \in Senders |-> p.nextSqueezed[s]] /\ \A s \in Senders : p.nextSqueezed[s] \in Rows(s, now)
    BY <2>1, ReceiverIs
  <2>3. after \in ReceiverStates(now)
    <3> DEFINE q == p.nextSqueezed
    <3> HIDE DEF q
    <3>1. q = [s \in Senders |-> q[s]] /\ \A s \in Senders : q[s] \in Rows(s, now)
      BY <2>2 DEF q
    <3>2. [nextReceivableCycle |-> next, amtDeltas |-> d, nextSqueezed |-> q] \in ReceiverStates(now)
      BY <1>12, <1>15, <2>1, <3>1, ReceiverMade
    <3> QED BY <1>2, <3>2 DEF q
  <2>4. \A j \in Cycles : after.nextReceivableCycle = 0 \/ j < after.nextReceivableCycle => after.amtDeltas[j] = NoDelta
    BY <1>13, <1>16
  <2>5. ASSUME NEW k \in 1..CycleOf(now) - 1
        PROVE  Cumulated(after.amtDeltas, k) >= 0
    <3>1. CycleOf(now) \in Nat
      BY <2>1, CycleIs
    <3>2. k \in Nat \ {0} /\ ~(CycleOf(now) <= k)
      BY <3>1
    <3>3. Cumulated(d, k) = Cumulated(p.amtDeltas, k)
      BY <1>14, <3>2
    <3>4. Cumulated(p.amtDeltas, k) >= 0
      BY DEF GoodReceiver
    <3> QED BY <1>16, <3>3, <3>4
  <2> QED BY <2>3, <2>4, <2>5 DEF GoodReceiver
<1>18. ASSUME NEW c \in To(r, y.recv)
       PROVE  Knows(after, c, y, now)
  <2>1. c \in y.recv /\ c.to = r
    BY DEF To
  <2>2. CycleOf(new(c).from) \in Nat
    BY <1>10, <2>1
  <2>3. CASE c \in N
    <3>1. CycleOf(new(c).from) \in E
      BY <1>11, <2>3
    <3>2. next \in 1..CycleOf(new(c).from)
      BY <1>12, <3>1
    <3> QED BY <1>16, <3>2 DEF Knows
  <2>4. CASE c \notin N
    <3>1. PICK z \in pairs : z[2] = c
      BY <2>1, <2>4 DEF Lone
    <3> DEFINE v == z[1]
    <3>2. z \in Z /\ z[1] = v /\ z[2] = c /\ v \in To(r, x.recv)
      <4>1. IsFiniteSet(x.recv) /\ IsFiniteSet(y.recv)
        BY DEF IsBook
      <4>2. z[1] \in x.recv /\ z[1].to = z[2].to
        BY <4>1, PairsAre
      <4> QED BY <2>1, <3>1, <4>2 DEF Pairs, To
    <3> HIDE DEF v
    <3>3. p.nextReceivableCycle \in 1..CycleOf(old(v).from) /\ CycleOf(old(v).from) \in Nat
      BY <1>9, <3>2
    <3>4. next \in 1..p.nextReceivableCycle
      BY <1>7, <1>12, <3>3
    <3>5. CASE CycleOf(old(v).from) > CycleOf(new(c).from)
      <4>1. CycleOf(new(c).from) \in E
        BY <1>11, <3>2, <3>5
      <4>2. next \in 1..CycleOf(new(c).from)
        BY <1>12, <4>1
      <4> QED BY <1>16, <4>2 DEF Knows
    <3>6. CASE ~(CycleOf(old(v).from) > CycleOf(new(c).from))
      <4>1. next \in 1..CycleOf(new(c).from)
        BY <1>7, <1>12, <2>2, <3>3, <3>4, <3>6
      <4> QED BY <1>16, <4>1 DEF Knows
    <3> QED BY <3>5, <3>6
  <2> QED BY <2>3, <2>4
<1>19. \A k \in Nat \ {0} :
         /\ Cumulated(p.amtDeltas, k) \in Int
         /\ Cumulated(after.amtDeltas, k)
            = IF CycleOf(now) <= k
              THEN Cumulated(p.amtDeltas, k) - Coming(x, r, now, k) + Coming(y, r, now, k)
              ELSE Cumulated(p.amtDeltas, k)
  BY <1>14, <1>16
<1>20. p.nextReceivableCycle # 0 => after.nextReceivableCycle \in 1..p.nextReceivableCycle
  BY <1>12, <1>16
<1> QED
  <2>1. after.nextSqueezed = p.nextSqueezed
    BY <1>16
  <2> QED BY ONLY <1>17, <1>18, <1>19, <1>20, <2>1 DEF after
-----------------------------------------------------------------------------
(* What setStreams makes of a sender.                                      *)

LEMMA MaxIs ==
  ASSUME NEW S, NEW n \in Nat, S \subseteq 0..n, S # {}
  PROVE  Max(S) \in S /\ \A e \in S : e <= Max(S)
<1> DEFINE T == {m \in Nat : \A e \in S : e <= m}
<1>1. n \in T
  OBVIOUS
<1>2. PICK m \in T : \A k \in T : m <= k
  <2>1. T \in SUBSET Nat /\ T # {}
    BY <1>1
  <2> HIDE DEF T
  <2> QED BY <2>1, LeastOf
<1>3. m \in S
  <2> SUFFICES ASSUME m \notin S PROVE FALSE
    OBVIOUS
  <2>1. \A e \in S : e \in Nat /\ e <= m /\ e # m
    BY <1>2
  <2>2. PICK e \in S : TRUE
    OBVIOUS
  <2>3. m - 1 \in Nat
    BY <1>2, <2>1, <2>2
  <2>4. \A d \in S : d <= m - 1
    BY <1>2, <2>1, <2>3
  <2>5. m - 1 \in T
    BY <2>3, <2>4
  <2> QED BY <1>2, <2>5
<1>4. \A e \in S : e <= m
  BY <1>2
<1>5. \E x \in S : \A y \in S : y <= x
  BY <1>3, <1>4
<1> QED BY <1>5 DEF Max

\* What the search for the end asks of a second e is what the streams of y,
\* which ends there, cost.
LEMMA EnoughIs ==
  ASSUME now \in 0..Forever, NEW y, IsBook(y), y.updateTime = now, now <= y.maxEnd,
         NEW balance \in Nat
  PROVE  IsBalanceEnough(balance, y.recv, y.maxEnd) <=> Spent(y, now, y.maxEnd) <= balance
<1> DEFINE E == y.maxEnd
           range(c) == InFuture(c, now, Forever)
           f == [c \in y.recv |-> IF E <= range(c).from THEN 0
                                  ELSE StreamedAmt(c.rate, range(c).from, Lesser(range(c).to, E))]
           g == [c \in y.recv |-> Flow(c, y, now, E)]
           z == [updateTime |-> now, maxEnd |-> Forever]
<1>1. now \in Nat /\ E \in 0..Forever /\ E \in Nat /\ Forever \in Nat
  BY Constants DEF IsBook, IsConfig
<1>2. IsFiniteSet(y.recv) /\ IsConfig(y) /\ \A c \in y.recv : IsStream(c)
  BY DEF IsBook
<1>3. IsConfig(z) /\ z.updateTime = now /\ z.maxEnd = Forever
  BY <1>1 DEF IsConfig
<1>4. ASSUME NEW c \in y.recv
      PROVE  g[c] \in Int /\ f[c] = g[c]
  <2> DEFINE start == Starts(c, y)
             from == Larger(start, now)
             to == Larger(from, Lesser(Ends(c, y), E))
             v == range(c).from
             w == range(c).to
             sf == f[c]
             gf == Flow(c, y, now, E)
  <2>1. /\ start \in 0..Forever /\ c.rate \in Nat /\ c.duration \in 0..Forever
        /\ Ends(c, y) = IF c.duration = 0 \/ start + c.duration > E THEN E ELSE start + c.duration
    BY <1>2, StreamTimes DEF Ends, IsStream
  <2>2. Starts(c, z) = start
    BY <1>3 DEF Starts
  <2>3. /\ v = from
        /\ w = Larger(from, Ends(c, z))
    <3>1. range(c) = Future(c, z, now)
      BY <1>3 DEF InFuture, Future
    <3> HIDE DEF z, range
    <3>2. Future(c, z, now).from = Larger(start, now) /\ Future(c, z, now).to = Larger(Larger(start, now), Ends(c, z))
      BY <1>2, <1>3, <2>2, FutureIs
    <3> QED BY <3>1, <3>2
  <2>4. Ends(c, z) = IF c.duration = 0 \/ start + c.duration > Forever THEN Forever ELSE start + c.duration
    BY <1>3, <2>2 DEF Ends
  <2>5. /\ from \in Nat /\ to \in Nat /\ Upto(c.rate, from) \in Nat /\ Upto(c.rate, to) \in Nat
        /\ gf = Upto(c.rate, to) - Upto(c.rate, from) /\ gf \in Nat
    <3> HIDE DEF E, range, f, g, v, w, sf, z
    <3>1. IsStream(c) /\ IsConfig(y) /\ now \in Nat /\ E \in Nat
      BY <1>1, <1>2
    <3> QED BY ONLY <3>1, FlowIs
  <2>6. g[c] = gf /\ sf = IF E <= v THEN 0 ELSE StreamedAmt(c.rate, v, Lesser(w, E))
    <3>1. g[c] = gf
      OBVIOUS
    <3>2. sf = IF E <= v THEN 0 ELSE StreamedAmt(c.rate, v, Lesser(w, E))
      <4> HIDE DEF range
      <4> QED OBVIOUS
    <3> QED BY ONLY <3>1, <3>2
  <2> DEFINE ey == Ends(c, y)
             ez == Ends(c, z)
             l == c.duration
  <2>7. from \in Nat /\ start <= from /\ now <= from
    BY <1>1, <2>1 DEF Larger
  <2>8. ASSUME E <= from PROVE sf = gf
    <3>1. to = from
      <4>1. ey <= E /\ ey \in Nat
        BY <1>1, <2>1
      <4> HIDE DEF ey, from, start
      <4> QED BY <1>1, <2>7, <2>8, <4>1 DEF Larger, Lesser, ey
    <3>2. gf = 0
      BY <2>5, <3>1
    <3> HIDE DEF gf, sf, v, from
    <3> QED BY <2>3, <2>6, <2>8, <3>2
  <2>9. ASSUME ~(E <= from) PROVE sf = gf
    <3>1. Lesser(w, E) = to
      <4>1. /\ w = Larger(from, ez) /\ to = Larger(from, Lesser(ey, E))
            /\ ey = IF l = 0 \/ start + l > E THEN E ELSE start + l
            /\ ez = IF l = 0 \/ start + l > Forever THEN Forever ELSE start + l
            /\ l \in Nat /\ start \in Nat
        BY <2>1, <2>3, <2>4
      <4> HIDE DEF w, to, from, ey, ez, l, start
      <4>2. E <= Forever /\ from < E
        BY <1>1, <2>7, <2>9
      <4>3. CASE l = 0 \/ start + l > E
        BY <1>1, <2>7, <4>1, <4>2, <4>3 DEF Larger, Lesser
      <4>4. CASE ~(l = 0 \/ start + l > E)
        BY <1>1, <2>7, <4>1, <4>2, <4>4 DEF Larger, Lesser
      <4> QED BY <4>3, <4>4
    <3>2. StreamedAmt(c.rate, from, to) = gf
      BY <2>1, <2>5, AmountIs
    <3> HIDE DEF gf, sf, v, w, from, to
    <3> QED BY <2>3, <2>5, <2>6, <2>9, <3>1, <3>2
  <2> HIDE DEF f, g, from, gf
  <2> QED BY <2>5, <2>6, <2>8, <2>9 DEF sf
<1>5. DOMAIN f = y.recv
  OBVIOUS
<1>6. IsBalanceEnough(balance, y.recv, y.maxEnd) <=> SumFunctionOnSet(f, y.recv) <= balance
  BY DEF IsBalanceEnough, SumFunction
<1> HIDE DEF f
<1>7. SumFunctionOnSet(f, y.recv) = SumFunctionOnSet(g, y.recv)
  <2> HIDE DEF g
  <2> QED BY <1>2, <1>4, SumSame
<1> QED BY <1>6, <1>7 DEF Spent

LEMMA MaxEndIs ==
  ASSUME now \in 0..Forever, NEW s \in Senders, NEW list \in Lists[s], NEW balance \in Nat
  PROVE  LET y == [recv |-> list, updateTime |-> now, maxEnd |-> MaxEnd(balance, list)]
         IN  /\ MaxEnd(balance, list) \in 0..Forever /\ now <= MaxEnd(balance, list)
             /\ Spent(y, now, MaxEnd(balance, list)) <= balance
<1> DEFINE m == MaxEnd(balance, list)
           y == [recv |-> list, updateTime |-> now, maxEnd |-> m]
           S == {e \in now..Forever : IsBalanceEnough(balance, list, e)}
           Y(e) == [recv |-> list, updateTime |-> now, maxEnd |-> e]
<1>1. now \in Nat /\ Forever \in Nat /\ now \in now..Forever
  BY Constants
<1>2. ASSUME NEW e \in now..Forever
      PROVE  /\ IsBook(Y(e))
             /\ IsBalanceEnough(balance, list, e) <=> Spent(Y(e), now, e) <= balance
  <2> DEFINE z == Y(e)
  <2>1. z.recv = list /\ z.updateTime = now /\ z.maxEnd = e /\ list \in Books(s) /\ e \in 0..Forever /\ now <= e
    BY <1>1 DEF Books
  <2> HIDE DEF z
  <2>2. IsBook(z)
    BY <2>1, BooksAre
  <2>3. IsBalanceEnough(balance, list, e) <=> Spent(z, now, e) <= balance
    BY <2>1, <2>2, EnoughIs
  <2> QED BY <2>2, <2>3 DEF z
<1>3. IsBook(Y(now)) /\ Spent(Y(now), now, now) = 0
  <2>1. IsBook(Y(now))
    BY <1>1, <1>2
  <2> HIDE DEF Y
  <2>2. Spent(Y(now), now, now) = 0
    BY <1>1, <2>1, SpentIs
  <2> QED BY <2>1, <2>2
<1>4. now \in S
  BY <1>1, <1>2, <1>3
<1>5. Max(S) \in S
  <2>1. S \subseteq 0..Forever /\ S # {}
    BY <1>1, <1>4
  <2> HIDE DEF S
  <2> QED BY <1>1, <2>1, MaxIs
<1>6. m = now \/ m = Max(S)
  BY DEF MaxEnd
<1>7. m \in S
  BY <1>4, <1>5, <1>6
<1> HIDE DEF m
<1>8. m \in now..Forever /\ IsBalanceEnough(balance, list, m)
  BY <1>7
<1>9. Spent(Y(m), now, m) <= balance
  BY <1>2, <1>8
<1> QED BY <1>1, <1>8, <1>9 DEF m

\* What a sender was not yet charged for.
Left(x, t) == x.balance - Spent(x, x.updateTime, t)

LEMMA BalanceIs ==
  ASSUME NEW s \in Senders, NEW t \in Nat, NEW x, GoodSender(x, s, t), NEW u \in Nat
  PROVE  /\ BalanceAt(x, u) = Left(x, u)
         /\ Left(x, u) \in Nat
         /\ Spent(x, x.updateTime, u) \in Nat /\ x.balance \in Nat
<1>1. IsBook(x) /\ x.updateTime \in Nat /\ x.maxEnd \in Nat /\ x.balance \in Nat
  BY SenderIs, Constants
<1>2. BalanceAt(x, u) = Left(x, u)
  BY DEF BalanceAt, Left, Spent, SumFunction, Flow
<1>3. /\ Spent(x, x.updateTime, u) \in Nat /\ Spent(x, x.updateTime, x.maxEnd) \in Nat
      /\ Spent(x, x.updateTime, u) <= Spent(x, x.updateTime, x.maxEnd)
  BY <1>1, SpentIs
<1>4. Spent(x, x.updateTime, x.maxEnd) <= x.balance
  BY DEF GoodSender
<1> QED BY <1>1, <1>2, <1>3, <1>4 DEF Left

\* Time passes.
LEMMA SenderLater ==
  ASSUME NEW s \in Senders, NEW t \in Nat, NEW x, GoodSender(x, s, t)
  PROVE  /\ GoodSender(x, s, t + 1)
         /\ Left(x, t) = Left(x, t + 1) + Spent(x, t, t + 1)
         /\ Spent(x, t, t + 1) \in Nat
<1>1. IsBook(x) /\ x.updateTime \in Nat /\ x.updateTime <= t
  <2>1. IsBook(x) /\ x.updateTime \in 0..Forever
    BY SenderIs
  <2>2. x.updateTime \in Nat
    BY <2>1, Constants
  <2>3. x.updateTime <= t
    BY DEF GoodSender
  <2> QED BY <2>1, <2>2, <2>3
<1>2. \A m \in 1..Len(x.history) : x.history[m].updateTime \in 0..t
  BY SenderIs
<1>3. GoodSender(x, s, t + 1)
  <2>1. \A m \in 1..Len(x.history) : x.history[m].updateTime <= t + 1
    <3> TAKE m \in 1..Len(x.history)
    <3> DEFINE u == x.history[m].updateTime
    <3>1. u \in 0..t
      BY <1>2
    <3> HIDE DEF u
    <3>2. u <= t + 1
      BY <3>1
    <3> QED BY <3>2 DEF u
  <2>2. x.updateTime <= t + 1
    BY <1>1
  <2> QED BY <2>1, <2>2 DEF GoodSender
<1>4. Spent(x, x.updateTime, t + 1) = Spent(x, x.updateTime, t) + Spent(x, t, t + 1)
  BY <1>1, SpentSplits
<1>5. Spent(x, x.updateTime, t) \in Nat /\ Spent(x, t, t + 1) \in Nat /\ x.balance \in Nat
  <2>1. Spent(x, x.updateTime, t) \in Nat
    BY <1>1, SpentIs
  <2>2. t + 1 \in Nat
    OBVIOUS
  <2>3. Spent(x, t, t + 1) \in Nat
    BY <1>1, <2>2, SpentIs
  <2> QED BY <2>1, <2>3, SenderIs
<1> QED BY <1>3, <1>4, <1>5 DEF Left

\* The state setStreams writes for the sender.
LEMMA ConfiguredIs ==
  ASSUME now \in 0..Forever, NEW s \in Senders, NEW x, GoodSender(x, s, now), NEW list \in Lists[s],
         NEW balance \in Nat, Len(x.history) < MaxConfigs[s],
         NEW e, e = [recv |-> list, updateTime |-> now, maxEnd |-> MaxEnd(balance, list)],
         NEW y, y = [recv |-> list, updateTime |-> now, maxEnd |-> MaxEnd(balance, list), balance |-> balance,
                     currCycleConfigs |-> Configs(x), history |-> Append(x.history, e)]
  PROVE  /\ GoodSender(y, s, now)
         /\ Left(y, now) = balance
<1>1. /\ e \in Entries(s) /\ list \in Books(s) /\ MaxEnd(balance, list) \in 0..Forever /\ now <= MaxEnd(balance, list)
      /\ Spent(e, now, MaxEnd(balance, list)) <= balance
      /\ IsBook(e)
  <2>1. /\ MaxEnd(balance, list) \in 0..Forever /\ now <= MaxEnd(balance, list)
        /\ Spent(e, now, MaxEnd(balance, list)) <= balance
    BY MaxEndIs
  <2> DEFINE m == MaxEnd(balance, list)
  <2> HIDE DEF m
  <2>2. e = [recv |-> list, updateTime |-> now, maxEnd |-> m]
    BY DEF m
  <2>3. list \in Books(s)
    BY DEF Books
  <2>4. e \in Entries(s)
    BY <2>1, <2>2, <2>3 DEF Entries, m
  <2>5. IsBook(e)
    BY <2>1, <2>2, <2>3, BooksAre DEF m
  <2> QED BY <2>1, <2>3, <2>4, <2>5
<1> DEFINE m == MaxEnd(balance, list)
           c == Configs(x)
           h == Append(x.history, e)
<1>2. now \in Nat
  BY Constants
<1>3. /\ x.currCycleConfigs \in Nat /\ Len(x.history) \in Nat /\ x.history \in Seq(Entries(s))
      /\ (x.history = << >>) <=> (Len(x.history) = 0)
      /\ MaxConfigs[s] \in Nat
      /\ \A i \in 1..Len(x.history) : x.history[i].updateTime <= now
  BY <1>2, SenderIs DEF GoodSender
<1>4. c \in Nat \ {0} /\ c <= Len(x.history) + 1
  <2>1. x.currCycleConfigs <= Len(x.history)
    BY DEF GoodSender
  <2> QED BY <1>3, <2>1 DEF Configs
<1>5. /\ h \in Seq(Entries(s)) /\ Len(h) = Len(x.history) + 1 /\ h # << >>
      /\ h[Len(h)] = e
      /\ \A i \in 1..Len(h) : h[i].updateTime <= now
  <2>1. h \in Seq(Entries(s)) /\ Len(h) = Len(x.history) + 1 /\ h # << >>
    <3> DEFINE old == x.history
    <3>1. old \in Seq(Entries(s)) /\ e \in Entries(s)
      BY <1>1, <1>3
    <3>2. h = Append(old, e)
      OBVIOUS
    <3> HIDE DEF old, h
    <3>3. Append(old, e) \in Seq(Entries(s)) /\ Len(Append(old, e)) = Len(old) + 1
      BY ONLY <3>1
    <3>4. Append(old, e) # << >>
      <4>1. Len(old) \in Nat /\ Len(<< >>) = 0
        BY ONLY <3>1
      <4> QED BY ONLY <3>3, <4>1
    <3> QED BY <3>2, <3>3, <3>4 DEF old
  <2>2. \A i \in 1..Len(x.history) : h[i] = x.history[i]
    BY <1>1, <1>3
  <2>3. h[Len(x.history) + 1] = e
    BY <1>1, <1>3
  <2>4. e.updateTime <= now
    BY <1>2
  <2> HIDE DEF h
  <2>5. \A i \in 1..Len(h) : h[i].updateTime <= now
    <3> TAKE i \in 1..Len(h)
    <3>1. i \in 1..Len(x.history) \/ i = Len(x.history) + 1
      BY <1>3, <2>1
    <3> QED BY <1>3, <2>2, <2>3, <2>4, <3>1
  <2> QED BY <2>1, <2>3, <2>5
<1>6. /\ y.recv = list /\ y.updateTime = now /\ y.maxEnd = m /\ y.balance = balance
      /\ y.currCycleConfigs = c /\ y.history = h
      /\ e = [recv |-> y.recv, updateTime |-> y.updateTime, maxEnd |-> y.maxEnd]
  OBVIOUS
<1>7. y = [recv |-> list, updateTime |-> now, maxEnd |-> m, balance |-> balance,
           currCycleConfigs |-> c, history |-> h]
  OBVIOUS
<1> HIDE DEF c, h
<1>8. y \in SenderStates(s)
  <2>1. m \in 0..Forever
    BY <1>1
  <2>2. c \in Nat /\ balance \in Nat /\ now \in 0..Forever /\ list \in Books(s) /\ h \in Seq(Entries(s))
    BY <1>1, <1>4, <1>5
  <2> HIDE DEF m
  <2> QED BY ONLY <1>7, <2>1, <2>2 DEF SenderStates
<1>9. \A a, b : Spent(y, a, b) = Spent(e, a, b)
  <2> TAKE a, b
  <2>1. e.recv = y.recv /\ e.updateTime = y.updateTime /\ e.maxEnd = y.maxEnd
    BY <1>6
  <2> QED BY <2>1 DEF Spent, Flow
<1>10. GoodSender(y, s, now)
  <2>1. Spent(y, y.updateTime, y.maxEnd) <= y.balance
    BY <1>1, <1>6, <1>9
  <2>2. Len(y.history) <= MaxConfigs[s]
    BY <1>3, <1>5, <1>6
  <2>3. y.updateTime <= now
    BY <1>2, <1>6
  <2>4. \A i \in 1..Len(y.history) : y.history[i].updateTime <= now
    BY <1>5, <1>6
  <2>5. y.currCycleConfigs <= Len(y.history) /\ y.currCycleConfigs # 0 /\ y.history # << >>
    BY <1>4, <1>5, <1>6
  <2>6. y.history[Len(y.history)] = [recv |-> y.recv, updateTime |-> y.updateTime, maxEnd |-> y.maxEnd]
    BY <1>5, <1>6
  <2> QED BY ONLY <1>8, <2>1, <2>2, <2>3, <2>4, <2>5, <2>6 DEF GoodSender
<1>11. Spent(e, now, now) = 0
  <2>1. now <= now
    BY <1>2
  <2> QED BY <1>1, <1>2, <2>1, SpentIs
<1>12. Left(y, now) = balance
  <2>1. Left(y, now) = balance - Spent(e, now, now)
    BY <1>6, <1>9 DEF Left
  <2> QED BY <1>11, <2>1
<1> QED BY <1>10, <1>12
-----------------------------------------------------------------------------
(* What receiveStreams makes of a receiver.                                *)

\* The cycles before the running one, which can be received.
Past(d, t) ==
    SumFunctionOnSet([k \in 1..CycleOf(t) - 1 |-> Cumulated(d, k)], 1..CycleOf(t) - 1)

LEMMA IntervalIs ==
  ASSUME NEW a \in Int, NEW b \in Int
  PROVE  IsFiniteSet(a..b)
BY FS_Interval

LEMMA CumulatedNone ==
  ASSUME NEW d \in Tables, NEW k \in Nat, \A j \in Cycles : j <= k => d[j] = NoDelta
  PROVE  Cumulated(d, k) = 0
<1>1. ASSUME NEW j \in Cycles
      PROVE  Share(d, k)[j] = 0
  <2>1. j \in Nat
    BY CyclesAre
  <2>2. CASE j <= k
    BY <2>1, <2>2 DEF Share, NoDelta
  <2>3. CASE ~(j <= k)
    BY <2>1, <2>3 DEF Share
  <2> QED BY <2>2, <2>3
<1> HIDE DEF Share
<1> QED BY <1>1, CyclesAre, SumZero DEF Cumulated

\* The amount of a cycle, the deltas before `from` being zeroed.
LEMMA AmtIs ==
  ASSUME NEW p, p.amtDeltas \in Tables, NEW from \in Nat \ {0}, NEW c \in Nat, c <= Last,
         \A j \in Cycles : j < from => p.amtDeltas[j] = NoDelta
  PROVE  AmtPerCycle(p, from, c) = Cumulated(p.amtDeltas, c)
<1> DEFINE d == p.amtDeltas
           a == [j \in Cycles |-> IF j <= c THEN d[j].thisCycle ELSE 0]
           b == [j \in Cycles |-> IF j < c THEN d[j].nextCycle ELSE 0]
           v == [k \in from..c |-> d[k].thisCycle]
           w == [k \in from..c - 1 |-> d[k].nextCycle]
<1>1. d \in Tables
  OBVIOUS
<1>2. /\ IsFiniteSet(Cycles) /\ Cycles \subseteq Nat \ {0}
      /\ from..c \in SUBSET Cycles /\ from..c - 1 \in SUBSET Cycles
  BY CyclesAre
<1>3. AmtPerCycle(p, from, c) = SumFunctionOnSet(v, from..c) + SumFunctionOnSet(w, from..c - 1)
  BY DEF AmtPerCycle, SumFunction
<1>4. ASSUME NEW j \in Cycles
      PROVE  /\ a[j] \in Int /\ b[j] \in Int /\ Share(d, c)[j] = a[j] + b[j]
             /\ j \notin from..c => a[j] = 0
             /\ j \notin from..c - 1 => b[j] = 0
             /\ j \in from..c => v[j] \in Int /\ a[j] = v[j]
             /\ j \in from..c - 1 => w[j] \in Int /\ b[j] = w[j]
  <2>1. d[j].thisCycle \in Int /\ d[j].nextCycle \in Int
    BY <1>1, TableIs
  <2>2. j \in Nat
    BY <1>2
  <2>3. j < from => d[j].thisCycle = 0 /\ d[j].nextCycle = 0
    BY DEF NoDelta
  <2> HIDE DEF d
  <2>4. a[j] = (IF j <= c THEN d[j].thisCycle ELSE 0) /\ b[j] = (IF j < c THEN d[j].nextCycle ELSE 0)
    OBVIOUS
  <2>5. Share(d, c)[j] = (IF j <= c THEN d[j].thisCycle ELSE 0) + (IF j < c THEN d[j].nextCycle ELSE 0)
    BY DEF Share
  <2>6. j \in from..c => v[j] = d[j].thisCycle
    OBVIOUS
  <2>7. j \in from..c - 1 => w[j] = d[j].nextCycle
    OBVIOUS
  <2>8. /\ j \in from..c <=> (from <= j /\ j <= c)
        /\ j \in from..c - 1 <=> (from <= j /\ j < c)
    BY <2>2
  <2> HIDE DEF a, b, v, w
  <2> QED BY <2>1, <2>2, <2>3, <2>4, <2>5, <2>6, <2>7, <2>8
<1> HIDE DEF a, b, v, w, d
<1>5. Cumulated(d, c) = SumFunctionOnSet(a, Cycles) + SumFunctionOnSet(b, Cycles)
  <2>1. \A j \in Cycles : a[j] \in Int /\ b[j] \in Int /\ Share(d, c)[j] = a[j] + b[j]
    BY <1>4
  <2> QED BY <1>2, <2>1, SumAdds DEF Cumulated
<1>6. SumFunctionOnSet(a, Cycles) = SumFunctionOnSet(v, from..c)
  <2> DEFINE T == from..c
  <2>1. T \in SUBSET Cycles /\ (\A j \in T : v[j] \in Int /\ a[j] = v[j]) /\ \A j \in Cycles \ T : a[j] = 0
    BY <1>2, <1>4
  <2> HIDE DEF T
  <2>2. SumFunctionOnSet(a, Cycles) = SumFunctionOnSet(v, T)
    BY <1>2, <2>1, SumPartOf
  <2> QED BY <2>2 DEF T
<1>7. SumFunctionOnSet(b, Cycles) = SumFunctionOnSet(w, from..c - 1)
  <2> DEFINE T == from..c - 1
  <2>1. T \in SUBSET Cycles /\ (\A j \in T : w[j] \in Int /\ b[j] = w[j]) /\ \A j \in Cycles \ T : b[j] = 0
    BY <1>2, <1>4
  <2> HIDE DEF T
  <2>2. SumFunctionOnSet(b, Cycles) = SumFunctionOnSet(w, T)
    BY <1>2, <2>1, SumPartOf
  <2> QED BY <2>2 DEF T
<1> QED BY <1>3, <1>5, <1>6, <1>7 DEF d

LEMMA ReceivedAmtIs ==
  ASSUME NEW p, p.amtDeltas \in Tables, NEW from \in Nat \ {0}, NEW to \in Nat, to <= Last,
         \A j \in Cycles : j < from => p.amtDeltas[j] = NoDelta
  PROVE  /\ ReceivedAmt(p, [from |-> from, to |-> to])
            = SumFunctionOnSet([k \in from..to - 1 |-> Cumulated(p.amtDeltas, k)], from..to - 1)
         /\ \A k \in from..to - 1 : Cumulated(p.amtDeltas, k) \in Int
<1> DEFINE f == [c \in from..to - 1 |-> AmtPerCycle(p, from, c)]
           g == [k \in from..to - 1 |-> Cumulated(p.amtDeltas, k)]
<1>1. Last \in Nat
  BY CyclesAre
<1>2. \A k \in from..to - 1 : k \in Nat /\ k <= Last
  BY <1>1
<1>3. \A k \in from..to - 1 : AmtPerCycle(p, from, k) = Cumulated(p.amtDeltas, k)
  BY <1>2, AmtIs
<1>4. \A k \in from..to - 1 : Cumulated(p.amtDeltas, k) \in Int
  BY <1>2, ShareIs
<1>5. f = g
  BY <1>3
<1>6. ReceivedAmt(p, [from |-> from, to |-> to]) = SumFunctionOnSet(f, from..to - 1)
  BY DEF ReceivedAmt, SumFunction
<1> QED BY <1>4, <1>5, <1>6

\* Cycles from..to-1 are emptied; the cycles from `to` on keep their amounts.
Carry(d, from, to) == SumFunction([k \in from..to - 1 |-> d[k].thisCycle + d[k].nextCycle])
Carried(d, from, to, final) ==
    [c \in Cycles |-> IF c \in from..to - 1 THEN NoDelta
                      ELSE IF c = to THEN [thisCycle |-> d[c].thisCycle + final, nextCycle |-> d[c].nextCycle]
                      ELSE d[c]]

LEMMA CarriedIs ==
  ASSUME NEW d \in Tables, NEW from \in Nat \ {0}, NEW to \in Cycles, from < to,
         \A j \in Cycles : j < from => d[j] = NoDelta,
         NEW final, final = Carry(d, from, to),
         NEW e, e = Carried(d, from, to, final)
  PROVE  /\ e \in Tables
         /\ \A j \in Cycles : j < to => e[j] = NoDelta
         /\ \A k \in Nat : to <= k => Cumulated(e, k) = Cumulated(d, k)
<1> DEFINE T == from..to - 1
           f == [k \in T |-> d[k].thisCycle + d[k].nextCycle]
<1>1. IsFiniteSet(Cycles) /\ Cycles \subseteq Nat \ {0} /\ T \in SUBSET Cycles /\ to \in Nat /\ to \notin T
  BY CyclesAre
<1>2. IsFiniteSet(T) /\ \A j \in T : j \in Nat /\ from <= j /\ j < to
  BY <1>1, FS_Subset
<1>3. \A k \in T : f[k] \in Int /\ f[k] = d[k].thisCycle + d[k].nextCycle
  <2> TAKE k \in T
  <2>1. d[k].thisCycle \in Int /\ d[k].nextCycle \in Int
    BY <1>1, TableIs
  <2>2. f[k] = d[k].thisCycle + d[k].nextCycle
    OBVIOUS
  <2> HIDE DEF f
  <2> QED BY <2>1, <2>2
<1>4. final = SumFunctionOnSet(f, T)
  BY DEF SumFunction, Carry
<1>5. /\ \A j \in T : e[j] = NoDelta
      /\ \A j \in Cycles \ T : j # to => e[j] = d[j]
      /\ e[to] = [thisCycle |-> d[to].thisCycle + final, nextCycle |-> d[to].nextCycle]
  BY <1>1 DEF Carried
<1>6. \A j \in Cycles : j < from \/ j \in T \/ j = to \/ j > to
  BY <1>1
<1>7. DOMAIN e = Cycles /\ e = [j \in Cycles |-> e[j]]
  BY DEF Carried
<1> HIDE DEF T, f
<1>8. final \in Int
  BY <1>2, <1>3, <1>4, SumInt
<1>10. e \in Tables
  <2>1. ASSUME NEW j \in Cycles
        PROVE  e[j] \in [thisCycle : Int, nextCycle : Int]
    <3>1. d[j].thisCycle \in Int /\ d[j].nextCycle \in Int /\ d[j] \in [thisCycle : Int, nextCycle : Int]
      BY TableIs DEF Tables
    <3>2. CASE j \in T
      <4>1. NoDelta \in [thisCycle : Int, nextCycle : Int]
        BY DEF NoDelta
      <4> QED BY <1>5, <3>2, <4>1
    <3>3. CASE j = to
      BY <1>8, <1>5, <3>1, <3>3
    <3>4. CASE j \notin T /\ j # to
      BY <1>5, <3>1, <3>4
    <3> QED BY <3>2, <3>3, <3>4
  <2> QED BY ONLY <1>7, <2>1, TablesAre
<1>11. \A j \in Cycles : j < to => e[j] = NoDelta
  <2> TAKE j \in Cycles
  <2> HAVE j < to
  <2>1. j \in Nat
    BY <1>1
  <2>2. CASE j \in T
    BY <1>5, <2>2
  <2>3. CASE j \notin T
    <3>1. e[j] = d[j]
      BY <1>1, <1>5, <2>1, <2>3
    <3>2. j < from
      BY <1>1, <1>6, <2>1, <2>3
    <3> QED BY <3>1, <3>2
  <2> QED BY <2>2, <2>3
<1>12. ASSUME NEW k \in Nat, to <= k
       PROVE  Cumulated(e, k) = Cumulated(d, k)
  <2> DEFINE g == Share(d, k)
             h == Share(e, k)
             z == [j \in Cycles |-> IF j \in T THEN 0 ELSE g[j]]
  <2>1. \A j \in Cycles : g[j] \in Int /\ h[j] \in Int
    BY <1>10, ShareIs
  <2>2. /\ \A j \in Cycles : /\ g[j] = (IF j <= k THEN d[j].thisCycle ELSE 0) + (IF j < k THEN d[j].nextCycle ELSE 0)
                             /\ h[j] = (IF j <= k THEN e[j].thisCycle ELSE 0) + (IF j < k THEN e[j].nextCycle ELSE 0)
        /\ \A j \in Cycles : z[j] = IF j \in T THEN 0 ELSE g[j]
    BY DEF Share
  <2> HIDE DEF g, h, z
  <2>3. \A j \in T : f[j] \in Int /\ g[j] = z[j] + f[j]
    <3> TAKE j \in T
    <3>1. j \in Cycles /\ j \in Nat /\ j < k
      BY <1>1, <1>2, <1>12
    <3>2. d[j].thisCycle \in Int /\ d[j].nextCycle \in Int
      BY <3>1, TableIs
    <3> QED BY <1>3, <2>2, <3>1, <3>2
  <2>4. \A j \in Cycles : z[j] \in Int
    BY <2>1, <2>2
  <2>5. \A j \in Cycles \ T : g[j] = z[j]
    BY <2>2
  <2>6. SumFunctionOnSet(g, Cycles) = SumFunctionOnSet(z, Cycles) + SumFunctionOnSet(f, T)
    <3>1. IsFiniteSet(Cycles) /\ T \in SUBSET Cycles
      BY <1>1
    <3> QED BY ONLY <3>1, <2>3, <2>4, <2>5, SumPartAdds
  <2>7. \A j \in Cycles \ {to} : h[j] = z[j]
    <3> TAKE j \in Cycles \ {to}
    <3>1. CASE j \in T
      <4>1. e[j].thisCycle = 0 /\ e[j].nextCycle = 0
        <5>1. e[j] = NoDelta
          BY <1>5, <3>1
        <5>2. NoDelta.thisCycle = 0 /\ NoDelta.nextCycle = 0
          BY DEF NoDelta
        <5> QED BY <5>1, <5>2
      <4> QED BY <2>2, <3>1, <4>1
    <3>2. CASE j \notin T
      BY <1>5, <2>2, <3>2
    <3> QED BY <3>1, <3>2
  <2>8. SumFunctionOnSet(h, Cycles) = SumFunctionOnSet(z, Cycles) - z[to] + h[to]
    <3>1. IsFiniteSet(Cycles) /\ to \in Cycles /\ h[to] \in Int
      BY <1>1, <2>1
    <3> QED BY ONLY <3>1, <2>4, <2>7, SumPut
  <2>9. h[to] = z[to] + final
    <3>1. z[to] = g[to]
      BY <1>1, <2>2
    <3>2. /\ e[to].thisCycle = d[to].thisCycle + final
          /\ e[to].nextCycle = d[to].nextCycle
      BY <1>5
    <3>3. d[to].thisCycle \in Int /\ d[to].nextCycle \in Int
      BY TableIs
    <3> DEFINE a == d[to].thisCycle
               b == d[to].nextCycle
    <3>4. /\ g[to] = (IF to <= k THEN a ELSE 0) + (IF to < k THEN b ELSE 0)
          /\ h[to] = (IF to <= k THEN a + final ELSE 0) + (IF to < k THEN b ELSE 0)
      BY <2>2, <3>2
    <3> HIDE DEF a, b
    <3>5. a \in Int /\ b \in Int /\ to \in Nat
      BY <1>1, <3>3 DEF a, b
    <3>6. h[to] = g[to] + final
      BY <1>8, <1>12, <3>4, <3>5
    <3> QED BY <3>1, <3>6
  <2>10. SumFunctionOnSet(z, Cycles) \in Int
    BY <1>1, <2>4, SumInt
  <2>11. SumFunctionOnSet(h, Cycles) = SumFunctionOnSet(g, Cycles)
    BY <1>1, <1>4, <1>8, <2>4, <2>6, <2>8, <2>9, <2>10
  <2> QED BY <2>11 DEF g, h, Cumulated
<1> QED BY <1>10, <1>11, <1>12

\* What is received is what the past comes to less.
LEMMA ReceivedIs ==
  ASSUME now \in 0..Forever, NEW p, GoodReceiver(p, now),
         NEW from, NEW to \in Nat, p.nextReceivableCycle = from, from # 0, from < to, to <= CycleOf(now)
  PROVE  LET range == [from |-> from, to |-> to]
             after == Received(p, range)
         IN  /\ GoodReceiver(after, now)
             /\ after.nextSqueezed = p.nextSqueezed /\ after.nextReceivableCycle = to
             /\ \A k \in Nat : to <= k => Cumulated(after.amtDeltas, k) = Cumulated(p.amtDeltas, k)
             /\ ReceivedAmt(p, range) \in Nat
             /\ Past(after.amtDeltas, now) = Past(p.amtDeltas, now) - ReceivedAmt(p, range)
             /\ Past(p.amtDeltas, now) \in Int
<1> DEFINE range == [from |-> from, to |-> to]
           after == Received(p, range)
           d == p.amtDeltas
           q == p.nextSqueezed
           e == after.amtDeltas
           C == CycleOf(now)
           final == SumFunction([k \in from..to - 1 |-> d[k].thisCycle + d[k].nextCycle])
<1>1. now \in Nat /\ C \in Nat \ {0} /\ C \in Cycles /\ C <= Last
  BY Constants, CycleIs, CyclesAre
<1>2. /\ p = [nextReceivableCycle |-> from, amtDeltas |-> d, nextSqueezed |-> q]
      /\ from \in Cycles /\ from \in Nat \ {0} /\ d \in Tables
      /\ q = [s \in Senders |-> q[s]]
      /\ \A s \in Senders : q[s] \in Rows(s, now)
  BY <1>1, ReceiverIs
<1>3. to \in Cycles
  BY <1>1, <1>2, CyclesAre
<1>4. \A j \in Cycles : j < from => d[j] = NoDelta
  BY DEF GoodReceiver
<1>5. /\ after = [nextReceivableCycle |-> to, nextSqueezed |-> q, amtDeltas |->
                    [c \in Cycles |-> IF c \in from..to - 1 THEN NoDelta
                                      ELSE IF c = to THEN [thisCycle |-> d[c].thisCycle + final, nextCycle |-> d[c].nextCycle]
                                      ELSE d[c]]]
  <2> DEFINE g == [c \in Cycles |-> IF c \in from..to - 1 THEN NoDelta
                                      ELSE IF c = to THEN [thisCycle |-> d[c].thisCycle + final, nextCycle |-> d[c].nextCycle]
                                      ELSE d[c]]
  <2>1. after = [p EXCEPT !.nextReceivableCycle = to, !.amtDeltas = g]
    BY DEF Received
  <2> HIDE DEF g, d, q
  <2>2. p = [nextReceivableCycle |-> from, amtDeltas |-> d, nextSqueezed |-> q]
    BY <1>2
  <2> HIDE DEF after
  <2>3. after = [nextReceivableCycle |-> to, nextSqueezed |-> q, amtDeltas |-> g]
    BY ONLY <2>1, <2>2
  <2> QED BY <2>3 DEF g
<1> HIDE DEF after
<1>6. /\ e \in Tables
      /\ \A j \in Cycles : j < to => e[j] = NoDelta
      /\ \A k \in Nat : to <= k => Cumulated(e, k) = Cumulated(d, k)
  <2> HIDE DEF d, C
  <2>1. e = [c \in Cycles |-> IF c \in from..to - 1 THEN NoDelta
                              ELSE IF c = to THEN [thisCycle |-> d[c].thisCycle + final, nextCycle |-> d[c].nextCycle]
                              ELSE d[c]]
    BY <1>5
  <2> HIDE DEF e
  <2>2. final = Carry(d, from, to)
    BY DEF Carry
  <2> HIDE DEF final
  <2>3. e = Carried(d, from, to, final)
    BY <2>1 DEF Carried
  <2>4. from < to
    OBVIOUS
  <2>5. d \in Tables /\ from \in Nat \ {0}
    BY <1>2
  <2> QED BY ONLY <1>3, <1>4, <2>2, <2>3, <2>4, <2>5, CarriedIs
<1> DEFINE T == from..to - 1
           S == 1..C - 1
           f == [k \in T |-> Cumulated(d, k)]
           g == [k \in S |-> Cumulated(e, k)]
           h == [k \in S |-> Cumulated(d, k)]
<1>7. ReceivedAmt(p, range) = SumFunctionOnSet(f, T) /\ \A k \in T : f[k] \in Int
  <2>1. to <= Last
    <3>1. to <= C /\ C <= Last /\ C \in Nat /\ Last \in Nat
      BY <1>1, CyclesAre
    <3> HIDE DEF C
    <3> QED BY <3>1
  <2>2. /\ ReceivedAmt(p, [from |-> from, to |-> to])
            = SumFunctionOnSet([k \in from..to - 1 |-> Cumulated(p.amtDeltas, k)], from..to - 1)
        /\ \A k \in from..to - 1 : Cumulated(p.amtDeltas, k) \in Int
    BY <1>2, <1>4, <2>1, ReceivedAmtIs
  <2> QED BY <2>2
<1>8. IsFiniteSet(S) /\ T \in SUBSET S /\ S \subseteq Nat \ {0}
  BY <1>1, <1>2, IntervalIs
<1>9. ASSUME NEW k \in S
      PROVE  /\ h[k] \in Nat /\ g[k] \in Int /\ g[k] >= 0
             /\ k < to => g[k] = 0
             /\ k >= to => g[k] = h[k]
             /\ k < from => h[k] = 0
  <2>1. k \in Nat
    BY <1>8
  <2>2. Cumulated(d, k) \in Int /\ Cumulated(e, k) \in Int
    BY <1>2, <1>6, <2>1, ShareIs
  <2>3. Cumulated(d, k) >= 0
    BY DEF GoodReceiver
  <2>4. k < to => Cumulated(e, k) = 0
    <3> HAVE k < to
    <3>1. \A j \in Cycles : j <= k => j < to
      BY <2>1, CyclesAre
    <3> QED BY <1>6, <2>1, <3>1, CumulatedNone
  <2>5. k >= to => Cumulated(e, k) = Cumulated(d, k)
    BY <1>6, <2>1
  <2>6. k < from => Cumulated(d, k) = 0
    <3> HAVE k < from
    <3>1. \A j \in Cycles : j <= k => j < from
      BY <1>2, <2>1, CyclesAre
    <3> QED BY <1>2, <1>4, <2>1, <3>1, CumulatedNone
  <2>7. h[k] = Cumulated(d, k) /\ g[k] = Cumulated(e, k)
    OBVIOUS
  <2> HIDE DEF g, h, d, e
  <2> QED BY <2>1, <2>2, <2>3, <2>4, <2>5, <2>6, <2>7
<1>10. Past(e, now) = SumFunctionOnSet(g, S) /\ Past(d, now) = SumFunctionOnSet(h, S)
  BY DEF Past
<1>11. \A k \in T : f[k] \in Nat /\ h[k] = f[k] /\ k < to
  <2> TAKE k \in T
  <2>1. k \in S /\ k < to
    BY <1>2, <1>8
  <2>2. h[k] = f[k]
    BY <2>1
  <2> HIDE DEF f, h
  <2> QED BY <1>9, <2>1, <2>2
<1>12. \A k \in S \ T : k < from \/ k >= to
  BY <1>2
<1>13. from < to /\ from \in Nat /\ to \in Nat
  BY <1>2
<1> HIDE DEF f, g, h, S, T, d, e
<1>14. SumFunctionOnSet(h, S) = SumFunctionOnSet(g, S) + SumFunctionOnSet(f, T)
  <2>1. \A k \in S : g[k] \in Int
    BY <1>9
  <2>2. \A k \in T : f[k] \in Int /\ h[k] = g[k] + f[k]
    BY <1>8, <1>9, <1>11
  <2>3. \A k \in S \ T : h[k] = g[k]
    <3> TAKE k \in S \ T
    <3>1. k \in Nat
      BY <1>8
    <3> QED BY <1>9, <1>12, <1>13, <3>1
  <2>4. IsFiniteSet(S) /\ T \in SUBSET S
    BY <1>8
  <2> QED BY ONLY <2>1, <2>2, <2>3, <2>4, SumPartAdds
<1>15. SumFunctionOnSet(f, T) \in Nat /\ SumFunctionOnSet(g, S) \in Int /\ SumFunctionOnSet(h, S) \in Int
  <2>1. IsFiniteSet(T)
    BY <1>8, FS_Subset
  <2>2. SumFunctionOnSet(f, T) \in Nat
    BY <1>11, <2>1, SumNat
  <2>3. IsFiniteSet(S) /\ \A k \in S : g[k] \in Int /\ h[k] \in Int
    BY <1>8, <1>9
  <2>4. SumFunctionOnSet(g, S) \in Int /\ SumFunctionOnSet(h, S) \in Int
    BY ONLY <2>3, SumInt
  <2> QED BY <2>2, <2>4
<1>16. GoodReceiver(after, now)
  <2>1. after.nextReceivableCycle = to /\ after.amtDeltas = e /\ after = [nextReceivableCycle |-> to, amtDeltas |-> e, nextSqueezed |-> q]
    BY <1>5 DEF e
  <2>2. after \in ReceiverStates(now)
    <3> HIDE DEF q
    <3> QED BY <1>1, <1>2, <1>3, <1>6, <2>1, ReceiverMade
  <2>3. \A j \in Cycles : after.nextReceivableCycle = 0 \/ j < after.nextReceivableCycle => after.amtDeltas[j] = NoDelta
    BY <1>6, <1>13, <2>1
  <2>4. \A k \in 1..C - 1 : Cumulated(after.amtDeltas, k) >= 0
    BY <1>9, <2>1 DEF S, g
  <2> QED BY <2>2, <2>3, <2>4 DEF GoodReceiver
<1>17. after.nextSqueezed = q /\ after.nextReceivableCycle = to
  BY <1>5
<1>18. /\ Past(e, now) = Past(d, now) - ReceivedAmt(p, range) /\ ReceivedAmt(p, range) \in Nat
       /\ Past(d, now) \in Int
  BY <1>7, <1>10, <1>14, <1>15
<1> QED BY <1>6, <1>16, <1>17, <1>18 DEF after, d, e

\* Receiving all that can be received takes the whole past.
LEMMA PastIs ==
  ASSUME now \in 0..Forever, NEW p, GoodReceiver(p, now)
  PROVE  /\ ReceivedAmt(p, Receivable(p, CycleOf(Forever))) = Past(p.amtDeltas, now)
         /\ Past(p.amtDeltas, now) \in Nat
<1> DEFINE d == p.amtDeltas
           C == CycleOf(now)
           S == 1..C - 1
           h == [k \in S |-> Cumulated(d, k)]
           from == p.nextReceivableCycle
           range == Receivable(p, CycleOf(Forever))
<1>1. now \in Nat /\ C \in Nat \ {0} /\ C \in Cycles /\ C <= Last /\ Last \in Nat
  BY Constants, CycleIs, CyclesAre
<1>2. from \in Cycles \cup {0} /\ from \in Nat /\ d \in Tables
  BY <1>1, ReceiverIs
<1>3. \A j \in Cycles : from = 0 \/ j < from => d[j] = NoDelta
  BY DEF GoodReceiver
<1>4. Past(d, now) = SumFunctionOnSet(h, S)
  BY DEF Past
<1>5. IsFiniteSet(S) /\ S \subseteq Nat \ {0}
  BY <1>1, IntervalIs
<1>6. ASSUME NEW k \in S
      PROVE  h[k] \in Nat /\ (from = 0 \/ k < from => h[k] = 0)
  <2>1. k \in Nat
    BY <1>5
  <2>2. Cumulated(d, k) \in Int
    BY <1>2, <2>1, ShareIs
  <2>3. Cumulated(d, k) >= 0
    BY DEF GoodReceiver
  <2>4. from = 0 \/ k < from => Cumulated(d, k) = 0
    <3> HAVE from = 0 \/ k < from
    <3>1. \A j \in Cycles : j <= k => from = 0 \/ j < from
      BY <1>2, <2>1, CyclesAre
    <3> QED BY <1>2, <1>3, <2>1, <3>1, CumulatedNone
  <2>5. h[k] = Cumulated(d, k)
    OBVIOUS
  <2> HIDE DEF h, d
  <2> QED BY <2>2, <2>3, <2>4, <2>5
<1>7. range = [from |-> from, to |-> IF from = 0 \/ C < from THEN from ELSE Lesser(C, from + Last)]
  BY DEF Receivable, Last
<1>8. SumFunctionOnSet(h, S) \in Nat
  <2> HIDE DEF h, S
  <2> QED BY <1>5, <1>6, SumNat
<1> HIDE DEF range
<1>9. CASE from = 0 \/ C <= from
  <2>1. range = [from |-> from, to |-> from]
    BY <1>1, <1>2, <1>7, <1>9 DEF Lesser
  <2>2. \A k \in S : from = 0 \/ k < from
    BY <1>1, <1>2, <1>9
  <2>3. SumFunctionOnSet(h, S) = 0
    <3> HIDE DEF h, S
    <3> QED BY <1>5, <1>6, <2>2, SumZero
  <2>4. ReceivedAmt(p, range) = 0
    <3> DEFINE f == [c \in from..from - 1 |-> AmtPerCycle(p, from, c)]
    <3>1. ReceivedAmt(p, range) = SumFunctionOnSet(f, from..from - 1)
      BY <2>1 DEF ReceivedAmt, SumFunction
    <3>2. from..from - 1 = {}
      BY <1>2
    <3> HIDE DEF f
    <3> QED BY <3>1, <3>2, SumEmpty
  <2> HIDE DEF h, S
  <2>5. Past(d, now) = 0
    BY <1>4, <2>3
  <2> QED BY <2>4, <2>5 DEF range
<1>10. CASE ~(from = 0 \/ C <= from)
  <2>1. range = [from |-> from, to |-> C] /\ from \in Nat \ {0}
    BY <1>1, <1>2, <1>7, <1>10 DEF Lesser
  <2> DEFINE T == from..C - 1
             f == [k \in T |-> Cumulated(d, k)]
  <2>2. ReceivedAmt(p, range) = SumFunctionOnSet(f, T) /\ \A k \in T : f[k] \in Int
    <3>1. \A j \in Cycles : j < from => d[j] = NoDelta
      BY <1>3
    <3> QED BY <1>1, <1>2, <2>1, <3>1, ReceivedAmtIs
  <2>3. T \in SUBSET S /\ \A k \in S \ T : k < from
    BY <1>1, <1>2, <1>5, <2>1
  <2>4. \A k \in T : h[k] = f[k]
    BY <2>3
  <2>5. \A k \in S \ T : h[k] = 0
    <3> HIDE DEF h, S, T
    <3> QED BY <1>6, <2>3
  <2> HIDE DEF h, S, T, f
  <2>6. SumFunctionOnSet(h, S) = SumFunctionOnSet(f, T)
    <3>1. IsFiniteSet(S) /\ T \in SUBSET S /\ \A k \in T : f[k] \in Int /\ h[k] = f[k]
      BY <1>5, <2>2, <2>3, <2>4
    <3> QED BY ONLY <3>1, <2>5, SumPartOf
  <2>7. Past(d, now) = SumFunctionOnSet(h, S)
    BY <1>4 DEF h, S
  <2>8. SumFunctionOnSet(h, S) \in Nat
    BY <1>8
  <2> QED BY <2>2, <2>6, <2>7, <2>8 DEF range
<1> QED BY <1>9, <1>10
-----------------------------------------------------------------------------
(* What squeezeStreams makes of a receiver.                                *)

LEMMA DeltaZero ==
  ASSUME NEW t \in Nat, CycleOf(t) \in Cycles, NEW rate \in Int, rate <= 0, rate >= 0
  PROVE  Delta(t, rate) = NoDeltas
<1>1. CycleSecs * 0 = 0 /\ (t % CycleSecs) * 0 = 0
  BY Constants, TimeSplits
<1>2. Quotient(0) = 0
  BY Constants DEF Quotient
<1>3. Delta(t, 0) = NoDeltas
  BY <1>1, <1>2 DEF Delta, NoDeltas, NoDelta
<1>4. rate = 0
  OBVIOUS
<1> QED BY <1>3, <1>4

\* A rate of amt for one second, at the start of a cycle, is amt.
LEMMA SecondIs ==
  ASSUME NEW t \in 0..Forever, NEW amt \in Nat,
         NEW d, d = DeltaRange(Start(t), Start(t) + 1, -(amt * Multiplier))
  PROVE  /\ d \in Tables
         /\ \A k \in Nat \ {0} : Cumulated(d, k) = IF k = CycleOf(t) THEN -amt ELSE 0
         /\ \A j \in Cycles : j # CycleOf(t) \/ amt = 0 => d[j] = NoDelta
<1> DEFINE a == Start(t)
           b == a + 1
           C == CycleOf(t)
           rate == amt * Multiplier
<1>1. t \in Nat /\ a \in Nat /\ b \in Nat /\ C \in Nat \ {0} /\ C \in Cycles /\ rate \in Nat
  <2>1. t \in Nat
    BY Constants
  <2>2. a \in Nat
    BY <2>1, StartIs
  <2>3. b \in Nat
    <3> HIDE DEF a
    <3> QED BY <2>2
  <2>4. C \in Nat \ {0} /\ C \in Cycles
    BY <2>1, CycleIs, CyclesAre
  <2>5. rate \in Nat
    BY Constants, NatTimes
  <2> QED BY <2>1, <2>2, <2>3, <2>4, <2>5
<1>2. /\ a = (C - 1) * CycleSecs
      /\ CycleOf(a) = C /\ CycleOf(b) = C
      /\ a % CycleSecs = 0 /\ b % CycleSecs = 1
  <2> DEFINE n == C - 1
  <2>1. n \in Nat /\ a = n * CycleSecs
    BY <1>1, StartIs
  <2>2. a \div CycleSecs = n /\ a % CycleSecs = 0
    BY <2>1, BoundsAre
  <2> HIDE DEF n, a, C
  <2>3. b \div CycleSecs = n /\ b % CycleSecs = 1
    <3>1. b = n * CycleSecs + 1 /\ n * CycleSecs \in Nat
      BY <1>1, <2>1, BoundsAre
    <3>2. /\ b \div CycleSecs \in Nat /\ (b % CycleSecs) \in 0..CycleSecs - 1
          /\ b = CycleSecs * (b \div CycleSecs) + (b % CycleSecs)
      BY <1>1, TimeSplits
    <3> DEFINE m == b \div CycleSecs
               e == b % CycleSecs
    <3> HIDE DEF m, e, b
    <3>3. m \in Nat /\ e \in 0..CycleSecs - 1 /\ CycleSecs * m + e = n * CycleSecs + 1
      BY <3>1, <3>2 DEF m, e
    <3>4. CycleSecs \in Nat /\ CycleSecs > 1
      BY Constants
    <3>5. m = n
      <4>1. CASE m < n
        <5>1. CycleSecs * m + CycleSecs <= CycleSecs * n
          BY <2>1, <3>3, <3>4, <4>1, Factor
        <5>2. CycleSecs * m \in Nat /\ CycleSecs * n = n * CycleSecs /\ CycleSecs * n \in Nat
          BY <2>1, <3>3, <3>4, NatTimes
        <5> QED BY <3>3, <3>4, <5>1, <5>2
      <4>2. CASE n < m
        <5>1. CycleSecs * n + CycleSecs <= CycleSecs * m
          BY <2>1, <3>3, <3>4, <4>2, Factor
        <5>2. CycleSecs * m \in Nat /\ CycleSecs * n = n * CycleSecs /\ CycleSecs * n \in Nat
          BY <2>1, <3>3, <3>4, NatTimes
        <5> QED BY <3>3, <3>4, <5>1, <5>2
      <4> QED BY <2>1, <3>3, <4>1, <4>2
    <3>6. e = 1
      BY <2>1, <3>3, <3>4, <3>5
    <3> QED BY <3>5, <3>6 DEF m, e
  <2>4. CycleOf(a) = n + 1 /\ CycleOf(b) = n + 1
    BY <2>2, <2>3 DEF CycleOf
  <2>5. n + 1 = C
    BY <1>1 DEF n
  <2> QED BY <2>1, <2>2, <2>3, <2>4, <2>5 DEF n
<1>3. Upto(rate, b) = Upto(rate, a) + amt
  <2>1. /\ Upto(rate, a) = (C - 1) * ((CycleSecs * rate) \div Multiplier) + ((a % CycleSecs) * rate) \div Multiplier
        /\ Upto(rate, b) = (C - 1) * ((CycleSecs * rate) \div Multiplier) + ((b % CycleSecs) * rate) \div Multiplier
        /\ ((CycleSecs * rate) \div Multiplier) \in Nat
    <3> HIDE DEF rate, a, b, C
    <3> QED BY <1>1, <1>2, UptoParts
  <2>2. 0 * rate = 0 /\ 1 * rate = rate /\ 0 \div Multiplier = 0
    BY <1>1, Constants
  <2>3. rate \div Multiplier = amt
    BY Constants
  <2> DEFINE full == (C - 1) * ((CycleSecs * rate) \div Multiplier)
  <2>4. full \in Nat
    <3> DEFINE x == C - 1
               y == (CycleSecs * rate) \div Multiplier
    <3>1. x \in Nat /\ y \in Nat
      BY <1>1, <2>1
    <3> HIDE DEF x, y
    <3>2. x * y \in Nat
      BY <3>1, NatTimes
    <3> QED BY <3>2 DEF x, y
  <2>5. Upto(rate, a) = full + 0 /\ Upto(rate, b) = full + amt
    BY <1>2, <2>1, <2>2, <2>3
  <2> HIDE DEF full, rate, a, b
  <2> QED BY <2>4, <2>5
<1>4. /\ d \in Tables
      /\ \A k \in Nat \ {0} : /\ Upto(rate, Clip(a, k)) \in Nat /\ Upto(rate, Clip(b, k)) \in Nat
                              /\ Cumulated(d, k) = Upto(rate, Clip(a, k)) - Upto(rate, Clip(b, k))
      /\ \A j \in Cycles : j # C => d[j] = NoDelta
  <2>1. d = DeltaRange(a, b, -rate)
    OBVIOUS
  <2>2. CycleOf(a) \in Cycles /\ CycleOf(b) \in Cycles
    BY <1>1, <1>2
  <2> HIDE DEF a, b, rate, C
  <2> DEFINE f == DeltaRange(a, b, -rate)
  <2>3. /\ f \in Tables
        /\ \A k \in Nat \ {0} : /\ Upto(rate, Clip(a, k)) \in Nat /\ Upto(rate, Clip(b, k)) \in Nat
                                /\ Cumulated(f, k) = Upto(rate, Clip(a, k)) - Upto(rate, Clip(b, k))
        /\ \A j \in Cycles : j # CycleOf(a) /\ j # CycleOf(b) => f[j] = NoDelta
    <3>0. a \in Nat /\ b \in Nat /\ rate \in Nat
      BY <1>1
    <3>1. f \in Tables
      BY <3>0, <2>2, DeltaRangeIs
    <3>2. \A j \in Cycles : j # CycleOf(a) /\ j # CycleOf(b) => f[j] = NoDelta
      BY <3>0, <2>2, DeltaRangeIs
    <3>3. \A k \in Nat \ {0} : /\ Upto(rate, Clip(a, k)) \in Nat /\ Upto(rate, Clip(b, k)) \in Nat
                               /\ Cumulated(f, k) = Upto(rate, Clip(a, k)) - Upto(rate, Clip(b, k))
      <4> TAKE k \in Nat \ {0}
      <4>1. /\ Upto(rate, Clip(a, k)) \in Nat /\ Upto(rate, Clip(b, k)) \in Nat
            /\ Cumulated(DeltaRange(a, b, -rate), k) = Upto(rate, Clip(a, k)) - Upto(rate, Clip(b, k))
        BY ONLY <3>0, <2>2, k \in Nat \ {0}, DeltaRangeIs
      <4> QED BY <4>1
    <3> QED BY <3>1, <3>2, <3>3
  <2>4. f = d
    BY <2>1
  <2> HIDE DEF f
  <2>5. CycleOf(a) = C /\ CycleOf(b) = C
    BY <1>2
  <2> QED BY <2>3, <2>4, <2>5
<1>5. ASSUME NEW k \in Nat \ {0}
      PROVE  Cumulated(d, k) = IF k = C THEN -amt ELSE 0
  <2>1. CASE k = C
    <3>1. Clip(a, k) = a /\ Clip(b, k) = b
      <4> HIDE DEF a, b
      <4> QED BY <1>1, <1>2, <2>1, ClipIs
    <3>2. Upto(rate, a) \in Nat
      BY <1>1, UptoIs
    <3>3. Cumulated(d, k) = Upto(rate, a) - Upto(rate, b)
      BY <1>4, <3>1
    <3> HIDE DEF rate, a, b, C
    <3> QED BY <1>3, <2>1, <3>2, <3>3
  <2>2. CASE k # C
    <3>1. Clip(a, k) = Clip(b, k)
      <4> HIDE DEF a, b, C
      <4>1. CASE k < C
        <5>1. k * CycleSecs <= a /\ k * CycleSecs <= b /\ k * CycleSecs \in Nat
          <6>1. k * CycleSecs <= a
            BY <1>1, <1>2, <4>1, CycleBounds
          <6>2. k * CycleSecs <= b
            BY <1>1, <1>2, <4>1, CycleBounds
          <6>3. k * CycleSecs \in Nat
            BY <1>1, ClipIs
          <6> QED BY <6>1, <6>2, <6>3
        <5>2. Clip(a, k) = k * CycleSecs
          BY <1>1, <5>1, ClipIs
        <5>3. Clip(b, k) = k * CycleSecs
          BY <1>1, <5>1, ClipIs
        <5> QED BY <5>2, <5>3
      <4>2. CASE C < k
        <5>1. a < (k - 1) * CycleSecs /\ b < (k - 1) * CycleSecs /\ (k - 1) * CycleSecs \in Nat
          <6>1. a < (k - 1) * CycleSecs
            BY <1>1, <1>2, <4>2, CycleBounds
          <6>2. b < (k - 1) * CycleSecs
            BY <1>1, <1>2, <4>2, CycleBounds
          <6>3. (k - 1) * CycleSecs \in Nat
            BY <1>1, ClipIs
          <6> QED BY <6>1, <6>2, <6>3
        <5>2. Clip(a, k) = (k - 1) * CycleSecs
          BY <1>1, <5>1, ClipIs
        <5>3. Clip(b, k) = (k - 1) * CycleSecs
          BY <1>1, <5>1, ClipIs
        <5> QED BY <5>2, <5>3
      <4> QED BY <1>1, <2>2, <4>1, <4>2
    <3> HIDE DEF rate, a, b, C
    <3>2. Cumulated(d, k) = Upto(rate, Clip(b, k)) - Upto(rate, Clip(b, k)) /\ Upto(rate, Clip(b, k)) \in Nat
      BY <1>4, <3>1
    <3> QED BY <2>2, <3>2
  <2> QED BY <2>1, <2>2
<1>6. ASSUME NEW j \in Cycles, amt = 0
      PROVE  d[j] = NoDelta
  <2> DEFINE n == -(amt * Multiplier)
  <2>1. n \in Int /\ n <= 0 /\ n >= 0
    BY <1>6, Constants
  <2>2. a # b
    BY <1>1
  <2>3. d = Plus(Delta(a, n), Delta(b, -n))
    BY <2>2 DEF DeltaRange
  <2> HIDE DEF a, b, n
  <2>4. Delta(a, n) = NoDeltas /\ Delta(b, -n) = NoDeltas
    <3>1. -n \in Int /\ -n <= 0 /\ -n >= 0
      BY <2>1
    <3>2. Delta(a, n) = NoDeltas
      BY <1>1, <1>2, <2>1, DeltaZero
    <3> DEFINE m == -n
    <3> HIDE DEF m
    <3>3. Delta(b, m) = NoDeltas
      BY <1>1, <1>2, <3>1, DeltaZero DEF m
    <3> QED BY <3>2, <3>3 DEF m
  <2>5. NoDeltas \in Tables /\ NoDeltas[j] = NoDelta
    BY NoDeltaIs DEF NoDeltas
  <2> QED BY <2>3, <2>4, <2>5, PlusIs
<1> QED BY <1>4, <1>5, <1>6

\* A squeeze takes from the running cycle what could be squeezed, once.
Marks(r, s, shown) == {SeenThisCycle(sender[s]) - i : i \in Squeezed(r, s, shown)}

LEMMA DrainedIs ==
  ASSUME now \in 0..Forever, NEW s \in Senders, NEW r \in Receivers,
         NEW x, x = sender[s], GoodSender(x, s, now),
         NEW p, p = receiver[r], GoodReceiver(p, now),
         NEW shown \in SUBSET (1..Len(x.history)),
         Open(x, p.nextSqueezed[s], r, now) <= Cumulated(p.amtDeltas, CycleOf(now)),
         NEW after, after = Drained(p, s, SqueezeAmt(r, s, shown), Marks(r, s, shown))
  PROVE  /\ GoodReceiver(after, now)
         /\ after.nextReceivableCycle = p.nextReceivableCycle
         /\ SqueezeAmt(r, s, shown) \in Nat
         /\ \A k \in Nat \ {0} :
              /\ Cumulated(p.amtDeltas, k) \in Int
              /\ Cumulated(after.amtDeltas, k)
                 = Cumulated(p.amtDeltas, k) - (IF k = CycleOf(now) THEN SqueezeAmt(r, s, shown) ELSE 0)
         /\ \A u \in Senders \ {s} : after.nextSqueezed[u] = p.nextSqueezed[u]
         /\ Open(x, after.nextSqueezed[s], r, now)
            = Open(x, p.nextSqueezed[s], r, now) - SqueezeAmt(r, s, shown)
<1> DEFINE q == p.nextSqueezed
           d == p.amtDeltas
           amt == SqueezeAmt(r, s, shown)
           indices == {SeenThisCycle(sender[s]) - i : i \in Squeezed(r, s, shown)}
           M == Places(r, s, shown)
           C == CycleOf(now)
           one == DeltaRange(CycleStart, CycleStart + 1, -(amt * Multiplier))
           b == Marked(s, x, q[s], now, M)
           row == [i \in DOMAIN q[s] |-> IF i \in indices THEN now ELSE q[s][i]]
           qs == [q EXCEPT ![s] = row]
           e == Plus(d, one)
<1> USE DEF Marks
<1>1. now \in Nat /\ C \in Nat \ {0} /\ C \in Cycles
  <2>1. now \in Nat
    BY Constants
  <2> QED BY <2>1, CycleIs, CyclesAre
<1>2. /\ p = [nextReceivableCycle |-> p.nextReceivableCycle, amtDeltas |-> d, nextSqueezed |-> q]
      /\ p.nextReceivableCycle \in Cycles \cup {0} /\ p.nextReceivableCycle \in Nat
      /\ d \in Tables
      /\ q = [u \in Senders |-> q[u]]
      /\ \A u \in Senders : q[u] \in Rows(u, now)
  BY <1>1, ReceiverIs
<1>3. /\ M \subseteq {m \in 1..Len(x.history) : ~(m <= Base(x, now))}
      /\ amt = SumFunctionOnSet([m \in M |-> OpenPart(x, q[s], r, now, m)], M)
      /\ \A i : i \in indices <=> \E m \in M : i = m - Base(x, now) - 1
  <2> DEFINE y == sender[s]
             c == q[s]
  <2>1. y = x /\ c = receiver[r].nextSqueezed[s] /\ c \in Rows(s, now)
    BY <1>2
  <2>2. GoodSender(y, s, now) /\ shown \in SUBSET (1..Len(y.history))
    BY <2>1
  <2> HIDE DEF c
  <2>3. /\ M \subseteq {m \in 1..Len(y.history) : ~(m <= Base(y, now))}
        /\ amt = SumFunctionOnSet([m \in M |-> OpenPart(y, c, r, now, m)], M)
        /\ \A i : i \in indices <=> \E m \in M : i = m - Base(y, now) - 1
    BY <1>1, <2>1, <2>2, SqueezeIs
  <2> HIDE DEF y, M, amt, indices
  <2> QED BY <2>1, <2>3 DEF c
<1>4. DOMAIN q[s] = 0..MaxConfigs[s] - 1 /\ q[s] \in Rows(s, now)
  BY <1>2 DEF Rows
<1>5. row = b
  <2> HIDE DEF indices, M, q
  <2> QED BY <1>3, <1>4 DEF Marked
<1>6. /\ row \in Rows(s, now)
      /\ amt \in Nat
      /\ Open(x, row, r, now) = Open(x, q[s], r, now) - amt
  <2> HIDE DEF M, q, amt, row
  <2> DEFINE c == q[s]
             bb == b
  <2>1. c \in Rows(s, now) /\ bb = Marked(s, x, c, now, M)
    BY <1>4
  <2>2. amt = OpenOf(x, c, r, now, M)
    BY <1>3 DEF OpenOf
  <2>3. row = bb
    BY <1>5
  <2> HIDE DEF c, bb
  <2>4. /\ bb \in Rows(s, now)
        /\ OpenOf(x, c, r, now, M) \in Nat
        /\ Open(x, bb, r, now) = Open(x, c, r, now) - OpenOf(x, c, r, now, M)
    <3>1. M \subseteq {m \in 1..Len(x.history) : ~(m <= Base(x, now))}
      BY <1>3
    <3>2. now \in Nat /\ GoodSender(x, s, now) /\ s \in Senders /\ c \in Rows(s, now)
      BY <1>1, <2>1
    <3>3. bb = Marked(s, x, c, now, M)
      BY <2>1
    <3>4. bb \in Rows(s, now)
      BY ONLY <3>1, <3>2, <3>3, OpenSqueezed
    <3>5. OpenOf(x, c, r, now, M) \in Nat
      BY ONLY <3>1, <3>2, <3>3, OpenSqueezed
    <3>6. Open(x, bb, r, now) = Open(x, c, r, now) - OpenOf(x, c, r, now, M)
      <4> DEFINE t == now
      <4>1. M \subseteq {m \in 1..Len(x.history) : ~(m <= Base(x, t))}
        BY <3>1
      <4>2. t \in Nat /\ GoodSender(x, s, t) /\ c \in Rows(s, t) /\ bb = Marked(s, x, c, t, M)
        BY <3>2, <3>3
      <4>4. Open(x, c, r, t) \in Nat /\ Open(x, bb, r, t) \in Nat /\ OpenOf(x, c, r, t, M) \in Nat
        BY <3>2, <3>4, <3>5, OpenIs
      <4> HIDE DEF t
      <4>3. Open(x, bb, r, t) = Open(x, c, r, t) - OpenOf(x, c, r, t, M)
        BY <4>1, <4>2, <4>4, OpenSqueezed
      <4> QED BY <4>3 DEF t
    <3> QED BY <3>4, <3>5, <3>6
  <2> QED BY <2>2, <2>3, <2>4 DEF c
<1>7. Open(x, row, r, now) \in Nat /\ Open(x, q[s], r, now) \in Nat
  <2> HIDE DEF row, q
  <2> QED BY <1>1, <1>4, <1>6, OpenIs
<1>8. /\ one \in Tables
      /\ \A k \in Nat \ {0} : Cumulated(one, k) = IF k = C THEN -amt ELSE 0
      /\ \A j \in Cycles : j # C \/ amt = 0 => one[j] = NoDelta
  <2>1. one = DeltaRange(Start(now), Start(now) + 1, -(amt * Multiplier))
    BY DEF CycleStart, Start
  <2> HIDE DEF one, amt, C
  <2>2. \A k \in Nat \ {0} : Cumulated(one, k) = IF k = CycleOf(now) THEN -amt ELSE 0
    BY <1>6, <2>1, SecondIs
  <2> QED BY <1>6, <2>1, <2>2, SecondIs DEF C
<1>9. after = [nextReceivableCycle |-> p.nextReceivableCycle, amtDeltas |-> e, nextSqueezed |-> qs]
  <2>1. after = [p EXCEPT !.amtDeltas = e, !.nextSqueezed = qs]
    BY DEF Drained
  <2> HIDE DEF e, qs
  <2> DEFINE n == p.nextReceivableCycle
  <2>2. p = [nextReceivableCycle |-> n, amtDeltas |-> d, nextSqueezed |-> q]
    BY <1>2
  <2> HIDE DEF n, d, q
  <2>3. after = [nextReceivableCycle |-> n, amtDeltas |-> e, nextSqueezed |-> qs]
    BY ONLY <2>1, <2>2
  <2> QED BY <2>3 DEF n
<1> HIDE DEF one, amt, indices, row, M
<1>10. /\ e \in Tables
       /\ \A k \in Nat : Cumulated(e, k) = Cumulated(d, k) + Cumulated(one, k)
       /\ \A j \in Cycles : d[j] = NoDelta /\ one[j] = NoDelta => e[j] = NoDelta
  <2> HIDE DEF d
  <2> QED BY <1>2, <1>8, PlusIs
<1>11. ASSUME NEW k \in Nat \ {0}
       PROVE  /\ Cumulated(d, k) \in Int
              /\ Cumulated(e, k) = Cumulated(d, k) - (IF k = C THEN amt ELSE 0)
  <2>1. Cumulated(d, k) \in Int
    <3> HIDE DEF d
    <3> QED BY <1>2, ShareIs
  <2>2. Cumulated(e, k) = Cumulated(d, k) + Cumulated(one, k) /\ Cumulated(one, k) = IF k = C THEN -amt ELSE 0
    BY <1>8, <1>10
  <2> HIDE DEF d, e, C
  <2> QED BY <1>6, <2>1, <2>2
<1>12. /\ qs = [u \in Senders |-> qs[u]] /\ qs[s] = row /\ \A u \in Senders \ {s} : qs[u] = q[u]
       /\ \A u \in Senders : qs[u] \in Rows(u, now)
  <2> HIDE DEF q
  <2> QED BY <1>2, <1>6
<1>13. ASSUME NEW j \in Cycles, p.nextReceivableCycle = 0 \/ j < p.nextReceivableCycle
       PROVE  e[j] = NoDelta
  <2>1. d[j] = NoDelta
    BY <1>13 DEF GoodReceiver
  <2>2. j # C \/ amt = 0
    <3> SUFFICES ASSUME j = C PROVE amt = 0
      OBVIOUS
    <3>1. \A i \in Cycles : i <= C => d[i] = NoDelta
      <4> TAKE i \in Cycles
      <4> HAVE i <= C
      <4>1. i \in Nat
        BY CyclesAre
      <4>2. p.nextReceivableCycle = 0 \/ i < p.nextReceivableCycle
        BY <1>1, <1>2, <1>13, <4>1
      <4> QED BY <4>2 DEF GoodReceiver
    <3>2. Cumulated(d, C) = 0
      <4> HIDE DEF d, C
      <4> QED BY <1>1, <1>2, <3>1, CumulatedNone
    <3>3. Open(x, q[s], r, now) <= 0
      BY <3>2
    <3> QED BY <1>6, <1>7, <3>3
  <2> QED BY <1>8, <1>10, <2>1, <2>2
<1>14. GoodReceiver(after, now)
  <2> HIDE DEF q, d, e, qs
  <2>1. after \in ReceiverStates(now)
    BY <1>1, <1>2, <1>9, <1>10, <1>12, ReceiverMade
  <2>2. after.nextReceivableCycle = p.nextReceivableCycle /\ after.amtDeltas = e
    BY <1>9
  <2>3. \A j \in Cycles : after.nextReceivableCycle = 0 \/ j < after.nextReceivableCycle => after.amtDeltas[j] = NoDelta
    BY <1>13, <2>2
  <2>4. ASSUME NEW k \in 1..CycleOf(now) - 1
        PROVE  Cumulated(after.amtDeltas, k) >= 0
    <3>1. k \in Nat \ {0} /\ k # C
      BY <1>1
    <3>2. Cumulated(d, k) >= 0
      BY DEF GoodReceiver, d
    <3> HIDE DEF C
    <3>3. Cumulated(e, k) = Cumulated(d, k) - 0 /\ Cumulated(d, k) \in Int
      BY <1>11, <3>1
    <3> QED BY <2>2, <3>2, <3>3
  <2> QED BY <2>1, <2>3, <2>4 DEF GoodReceiver
<1>15. after.nextReceivableCycle = p.nextReceivableCycle /\ after.amtDeltas = e /\ after.nextSqueezed = qs
  BY <1>9
<1>16. \A k \in Nat \ {0} :
         /\ Cumulated(p.amtDeltas, k) \in Int
         /\ Cumulated(after.amtDeltas, k)
            = Cumulated(p.amtDeltas, k) - (IF k = CycleOf(now) THEN amt ELSE 0)
  BY <1>11, <1>15
<1>17. \A u \in Senders \ {s} : after.nextSqueezed[u] = p.nextSqueezed[u]
  BY <1>12, <1>15
<1>18. Open(x, after.nextSqueezed[s], r, now) = Open(x, p.nextSqueezed[s], r, now) - amt
  BY <1>6, <1>12, <1>15
<1> QED BY <1>6, <1>14, <1>15, <1>16, <1>17, <1>18 DEF amt
-----------------------------------------------------------------------------
(* The inductive invariant.                                                *)

\* What sender x still pays r in cycle k, and what of it was paid already but
\* not squeezed.
Due(x, q, r, t, k) == Coming(x, r, t, k) + (IF k = CycleOf(t) THEN Open(x, q, r, t) ELSE 0)

\* Of all senders `snd`, for receiver r whose state is p.
Dues(snd, p, r, t, k) ==
    SumFunctionOnSet([s \in Senders |-> Due(snd[s], p.nextSqueezed[s], r, t, k)], Senders)
Opens(snd, p, r, t) ==
    SumFunctionOnSet([s \in Senders |-> Open(snd[s], p.nextSqueezed[s], r, t)], Senders)
Owed(snd, p, r, t) == Past(p.amtDeltas, t) + Opens(snd, p, r, t)
Lefts(snd, t) == SumFunctionOnSet([s \in Senders |-> Left(snd[s], t)], Senders)
Oweds(snd, rcv, t) == SumFunctionOnSet([r \in Receivers |-> Owed(snd, rcv[r], r, t)], Receivers)

\* Each receiver's deltas are, from the running cycle on, what all senders
\* still pay.
AsDue(snd, p, r, t) == \A k \in Nat \ {0} : CycleOf(t) <= k => Cumulated(p.amtDeltas, k) = Dues(snd, p, r, t, k)

Holds(t, snd, rcv, b, c) ==
    /\ t \in 1..MaxTime
    /\ snd = [s \in Senders |-> snd[s]]
    /\ rcv = [r \in Receivers |-> rcv[r]]
    /\ \A s \in Senders : GoodSender(snd[s], s, t)
    /\ \A r \in Receivers : GoodReceiver(rcv[r], t)
    /\ \A s \in Senders : \A l \in snd[s].recv : Knows(rcv[l.to], l, snd[s], t)
    /\ \A r \in Receivers : AsDue(snd, rcv[r], r, t)
    /\ c \in [Receivers -> Nat]
    /\ b = [streams |-> Lefts(snd, t) + Oweds(snd, rcv, t), collectable |-> SumFunctionOnSet(c, Receivers)]

Core == Holds(now, sender, receiver, balances, collectableAmts)

LEMMA DuesAre ==
  ASSUME NEW t \in 0..Forever, NEW snd, \A s \in Senders : GoodSender(snd[s], s, t),
         NEW p, GoodReceiver(p, t), NEW r
  PROVE  /\ \A s \in Senders : /\ Open(snd[s], p.nextSqueezed[s], r, t) \in Nat
                               /\ p.nextSqueezed[s] \in Rows(s, t)
         /\ \A s \in Senders, k \in Nat \ {0} :
              /\ Coming(snd[s], r, t, k) \in Nat
              /\ Due(snd[s], p.nextSqueezed[s], r, t, k) \in Nat
         /\ \A k \in Nat \ {0} : Dues(snd, p, r, t, k) \in Nat
         /\ Opens(snd, p, r, t) \in Nat
         /\ \A s \in Senders : Open(snd[s], p.nextSqueezed[s], r, t) <= Dues(snd, p, r, t, CycleOf(t))
         /\ Past(p.amtDeltas, t) \in Nat
         /\ Owed(snd, p, r, t) \in Nat
<1>1. t \in Nat /\ CycleOf(t) \in Nat \ {0}
  <2>1. t \in Nat
    BY Constants
  <2> QED BY <2>1, CycleIs
<1>2. ASSUME NEW s \in Senders
      PROVE  p.nextSqueezed[s] \in Rows(s, t) /\ Open(snd[s], p.nextSqueezed[s], r, t) \in Nat
  <2>1. p.nextSqueezed[s] \in Rows(s, t)
    BY <1>1, ReceiverIs
  <2> DEFINE q == p.nextSqueezed[s]
             x == snd[s]
  <2>2. q \in Rows(s, t) /\ GoodSender(x, s, t)
    BY <2>1
  <2> HIDE DEF q, x
  <2>3. Open(x, q, r, t) \in Nat
    BY <1>1, <2>2, OpenIs
  <2> QED BY <2>2, <2>3 DEF q, x
<1>3. ASSUME NEW s \in Senders, NEW k \in Nat \ {0}
      PROVE  Coming(snd[s], r, t, k) \in Nat /\ Due(snd[s], p.nextSqueezed[s], r, t, k) \in Nat
  <2>1. IsBook(snd[s])
    BY <1>1, SenderIs
  <2>2. Coming(snd[s], r, t, k) \in Nat
    BY <2>1, ComingIs
  <2> QED BY <1>2, <2>2 DEF Due
<1>4. IsFiniteSet(Senders)
  BY Constants
<1>5. ASSUME NEW k \in Nat \ {0}
      PROVE  /\ Dues(snd, p, r, t, k) \in Nat
             /\ \A s \in Senders : Due(snd[s], p.nextSqueezed[s], r, t, k) <= Dues(snd, p, r, t, k)
  <2> DEFINE f == [s \in Senders |-> Due(snd[s], p.nextSqueezed[s], r, t, k)]
  <2>1. \A s \in Senders : f[s] \in Nat
    BY <1>3
  <2>2. Dues(snd, p, r, t, k) = SumFunctionOnSet(f, Senders)
    BY DEF Dues
  <2>3. \A s \in Senders : f[s] = Due(snd[s], p.nextSqueezed[s], r, t, k)
    OBVIOUS
  <2> HIDE DEF f
  <2>4. SumFunctionOnSet(f, Senders) \in Nat /\ \A s \in Senders : f[s] <= SumFunctionOnSet(f, Senders)
    BY <1>4, <2>1, SumNat
  <2> QED BY <2>2, <2>3, <2>4
<1>6. Opens(snd, p, r, t) \in Nat
  <2> DEFINE f == [s \in Senders |-> Open(snd[s], p.nextSqueezed[s], r, t)]
  <2>1. \A s \in Senders : f[s] \in Nat
    BY <1>2
  <2>2. Opens(snd, p, r, t) = SumFunctionOnSet(f, Senders)
    BY DEF Opens
  <2> HIDE DEF f
  <2> QED BY <1>4, <2>1, <2>2, SumNat
<1>7. ASSUME NEW s \in Senders
      PROVE  Open(snd[s], p.nextSqueezed[s], r, t) <= Dues(snd, p, r, t, CycleOf(t))
  <2> DEFINE o == Open(snd[s], p.nextSqueezed[s], r, t)
             d == Due(snd[s], p.nextSqueezed[s], r, t, CycleOf(t))
             c == Coming(snd[s], r, t, CycleOf(t))
             all == Dues(snd, p, r, t, CycleOf(t))
  <2>1. d = c + o
    BY DEF Due
  <2>2. c \in Nat /\ o \in Nat /\ all \in Nat /\ d <= all
    BY <1>1, <1>2, <1>3, <1>5
  <2> HIDE DEF o, d, c, all
  <2>3. o <= all
    BY <2>1, <2>2
  <2> QED BY <2>3 DEF o, all
<1>8. Past(p.amtDeltas, t) \in Nat
  <2> DEFINE S == 1..CycleOf(t) - 1
             f == [k \in S |-> Cumulated(p.amtDeltas, k)]
  <2>1. IsFiniteSet(S) /\ S \subseteq Nat
    BY <1>1, IntervalIs
  <2>2. \A k \in S : f[k] \in Nat
    <3> TAKE k \in S
    <3>1. k \in Nat
      BY <2>1
    <3>2. p.amtDeltas \in Tables
      BY <1>1, ReceiverIs
    <3>3. Cumulated(p.amtDeltas, k) \in Int
      BY <3>1, <3>2, ShareIs
    <3>4. Cumulated(p.amtDeltas, k) >= 0
      BY DEF GoodReceiver
    <3>5. f[k] = Cumulated(p.amtDeltas, k)
      OBVIOUS
    <3> HIDE DEF f
    <3> QED BY <3>3, <3>4, <3>5
  <2>3. Past(p.amtDeltas, t) = SumFunctionOnSet(f, S)
    BY DEF Past
  <2> HIDE DEF f, S
  <2> QED BY <2>1, <2>2, <2>3, SumNat
<1>9. Owed(snd, p, r, t) \in Nat
  BY <1>6, <1>8 DEF Owed
<1> QED BY <1>2, <1>3, <1>5, <1>6, <1>7, <1>8, <1>9

\* What the invariant says, part by part.
LEMMA CoreIs ==
  ASSUME Core
  PROVE  /\ now \in 1..MaxTime /\ now \in 0..Forever /\ now \in Nat /\ CycleOf(now) \in Nat \ {0}
         /\ sender = [s \in Senders |-> sender[s]] /\ receiver = [r \in Receivers |-> receiver[r]]
         /\ \A s \in Senders : GoodSender(sender[s], s, now)
         /\ \A r \in Receivers : GoodReceiver(receiver[r], now)
         /\ \A r \in Receivers : AsDue(sender, receiver[r], r, now)
         /\ collectableAmts \in [Receivers -> Nat]
         /\ balances = [streams |-> Lefts(sender, now) + Oweds(sender, receiver, now),
                        collectable |-> SumFunctionOnSet(collectableAmts, Receivers)]
         /\ Lefts(sender, now) \in Nat /\ Oweds(sender, receiver, now) \in Nat
         /\ SumFunctionOnSet(collectableAmts, Receivers) \in Nat
<1>1. /\ now \in 1..MaxTime
      /\ sender = [s \in Senders |-> sender[s]] /\ receiver = [r \in Receivers |-> receiver[r]]
      /\ \A s \in Senders : GoodSender(sender[s], s, now)
      /\ \A r \in Receivers : GoodReceiver(receiver[r], now)
      /\ \A r \in Receivers : AsDue(sender, receiver[r], r, now)
      /\ collectableAmts \in [Receivers -> Nat]
      /\ balances = [streams |-> Lefts(sender, now) + Oweds(sender, receiver, now),
                     collectable |-> SumFunctionOnSet(collectableAmts, Receivers)]
  BY DEF Core, Holds
<1>2. now \in 0..Forever /\ now \in Nat
  BY <1>1, Constants
<1>3. CycleOf(now) \in Nat \ {0}
  BY <1>2, CycleIs
<1>4. IsFiniteSet(Senders) /\ IsFiniteSet(Receivers)
  BY Constants
<1>5. Lefts(sender, now) \in Nat
  <2> DEFINE f == [s \in Senders |-> Left(sender[s], now)]
  <2>1. \A s \in Senders : f[s] \in Nat
    BY <1>1, <1>2, BalanceIs
  <2>2. Lefts(sender, now) = SumFunctionOnSet(f, Senders)
    BY DEF Lefts
  <2> HIDE DEF f
  <2> QED BY <1>4, <2>1, <2>2, SumNat
<1>6. Oweds(sender, receiver, now) \in Nat
  <2> DEFINE f == [r \in Receivers |-> Owed(sender, receiver[r], r, now)]
  <2>1. \A r \in Receivers : f[r] \in Nat
    BY <1>1, <1>2, DuesAre
  <2>2. Oweds(sender, receiver, now) = SumFunctionOnSet(f, Receivers)
    BY DEF Oweds
  <2> HIDE DEF f
  <2> QED BY <1>4, <2>1, <2>2, SumNat
<1>7. SumFunctionOnSet(collectableAmts, Receivers) \in Nat
  BY <1>1, <1>4, SumNat
<1> QED BY <1>1, <1>2, <1>3, <1>5, <1>6, <1>7

LEMMA CoreTyped ==
  ASSUME Core
  PROVE  TypeOK
<1>1. now \in 1..MaxTime
  BY CoreIs
<1>2. ASSUME NEW s \in Senders
      PROVE  /\ DOMAIN sender[s] = DOMAIN NewSender
             /\ sender[s].recv \in Lists[s] \cup {{}}
             /\ \A f \in {"updateTime", "maxEnd", "balance", "currCycleConfigs"} : sender[s][f] \in Nat
             /\ sender[s].currCycleConfigs <= Len(sender[s].history)
  <2> DEFINE x == sender[s]
  <2>1. GoodSender(x, s, now) /\ now \in Nat
    BY CoreIs
  <2> HIDE DEF x
  <2>2. x \in SenderStates(s) /\ x.currCycleConfigs <= Len(x.history)
    BY <2>1 DEF GoodSender
  <2>3. DOMAIN x = DOMAIN NewSender /\ x.recv \in Lists[s] \cup {{}}
    BY <2>2 DEF SenderStates, NewSender, Books
  <2>4. x.updateTime \in Nat /\ x.maxEnd \in Nat /\ x.balance \in Nat /\ x.currCycleConfigs \in Nat
    BY <2>1, SenderIs, Constants
  <2> QED BY <2>2, <2>3, <2>4 DEF x
<1>3. ASSUME NEW r \in Receivers
      PROVE  /\ receiver[r].nextReceivableCycle \in Cycles \cup {0}
             /\ receiver[r].amtDeltas \in [Cycles -> [thisCycle : Int, nextCycle : Int]]
             /\ \A s \in Senders : receiver[r].nextSqueezed[s] \in [0..MaxConfigs[s] - 1 -> Nat]
  <2> DEFINE p == receiver[r]
  <2>1. GoodReceiver(p, now) /\ now \in Nat
    BY CoreIs
  <2> HIDE DEF p
  <2>2. /\ p.nextReceivableCycle \in Cycles \cup {0} /\ p.amtDeltas \in Tables
        /\ \A s \in Senders : p.nextSqueezed[s] \in Rows(s, now)
    BY <2>1, ReceiverIs
  <2>3. 0..now \subseteq Nat
    BY <2>1
  <2>4. ASSUME NEW s \in Senders
        PROVE  p.nextSqueezed[s] \in [0..MaxConfigs[s] - 1 -> Nat]
    <3> DEFINE q == p.nextSqueezed[s]
               D == 0..MaxConfigs[s] - 1
    <3>1. q \in [D -> 0..now]
      BY <2>2 DEF Rows
    <3> HIDE DEF q, D
    <3>2. q \in [D -> Nat]
      BY <2>3, <3>1
    <3> QED BY <3>2 DEF q, D
  <2> QED BY <2>2, <2>4 DEF Tables, p
<1>4. balances \in [streams : Nat, collectable : Nat]
  <2> DEFINE a == Lefts(sender, now) + Oweds(sender, receiver, now)
             b == SumFunctionOnSet(collectableAmts, Receivers)
  <2>1. a \in Nat /\ b \in Nat /\ balances = [streams |-> a, collectable |-> b]
    BY CoreIs
  <2> HIDE DEF a, b
  <2> QED BY <2>1
<1>5. collectableAmts \in [Receivers -> Nat]
  BY CoreIs
<1> QED BY <1>1, <1>2, <1>3, <1>4, <1>5 DEF TypeOK

LEMMA CoreNeverOwes ==
  ASSUME Core
  PROVE  CyclesNeverOwe
<1> SUFFICES ASSUME NEW r \in Receivers
             PROVE  LET p == receiver[r]
                    IN  /\ \A c \in Cycles : c < p.nextReceivableCycle => p.amtDeltas[c] = NoDelta
                        /\ \A c \in Cycles : AmtPerCycle(p, 1, c) >= 0
                        /\ SumFunction([c \in Cycles |-> p.amtDeltas[c].thisCycle + p.amtDeltas[c].nextCycle]) = 0
  BY DEF CyclesNeverOwe
<1> DEFINE p == receiver[r]
           d == p.amtDeltas
           f == [c \in Cycles |-> d[c].thisCycle + d[c].nextCycle]
<1>1. /\ now \in 0..Forever /\ now \in Nat /\ CycleOf(now) \in Nat \ {0} /\ GoodReceiver(p, now)
      /\ AsDue(sender, p, r, now)
      /\ \A s \in Senders : GoodSender(sender[s], s, now)
  BY CoreIs
<1> HIDE DEF p
<1>2. d \in Tables
  BY <1>1, ReceiverIs
<1>3. \A c \in Cycles : c < p.nextReceivableCycle => d[c] = NoDelta
  BY <1>1 DEF GoodReceiver
<1>4. ASSUME NEW c \in Cycles
      PROVE  AmtPerCycle(p, 1, c) >= 0
  <2>1. c \in Nat \ {0} /\ c <= Last
    BY CyclesAre
  <2>2. AmtPerCycle(p, 1, c) = Cumulated(d, c)
    <3>1. \A j \in Cycles : j < 1 => d[j] = NoDelta
      BY CyclesAre
    <3> QED BY <1>2, <2>1, <3>1, AmtIs
  <2>3. Cumulated(d, c) >= 0
    <3>1. CASE c \in 1..CycleOf(now) - 1
      BY <1>1, <3>1 DEF GoodReceiver
    <3>2. CASE c \notin 1..CycleOf(now) - 1
      <4>1. CycleOf(now) <= c
        BY <1>1, <2>1, <3>2
      <4>2. Cumulated(d, c) = Dues(sender, p, r, now, c)
        BY <1>1, <2>1, <4>1 DEF AsDue
      <4>3. Dues(sender, p, r, now, c) \in Nat
        BY <1>1, <2>1, DuesAre
      <4> QED BY <4>2, <4>3
    <3> QED BY <3>1, <3>2
  <2> QED BY <2>2, <2>3
<1>5. SumFunction(f) = 0
  <2> DEFINE k == Last + 1
  <2>1. k \in Nat \ {0} /\ CycleOf(now) <= k /\ k # CycleOf(now) /\ IsFiniteSet(Cycles)
        /\ (k - 1) * CycleSecs \in Nat /\ Forever < (k - 1) * CycleSecs
    <3>1. CycleOf(now) \in Cycles /\ Last \in Nat /\ Cycles = 1..Last /\ IsFiniteSet(Cycles) /\ Forever < Last * CycleSecs
      BY <1>1, CyclesAre
    <3>2. k - 1 = Last
      BY <3>1
    <3>3. Last * CycleSecs \in Nat
      BY <3>1, BoundsAre
    <3>4. k \in Nat \ {0} /\ CycleOf(now) <= k /\ k # CycleOf(now)
      BY <3>1
    <3> HIDE DEF k
    <3> QED BY <3>1, <3>2, <3>3, <3>4
  <2>2. ASSUME NEW j \in Cycles
        PROVE  Share(d, k)[j] = f[j] /\ f[j] \in Int
    <3>1. d[j].thisCycle \in Int /\ d[j].nextCycle \in Int /\ j \in Nat /\ j <= Last /\ Last \in Nat
      BY <1>2, TableIs, CyclesAre
    <3>2. j <= k /\ j < k
      BY <3>1
    <3>3. Share(d, k)[j] = (IF j <= k THEN d[j].thisCycle ELSE 0) + (IF j < k THEN d[j].nextCycle ELSE 0)
      BY DEF Share
    <3>4. f[j] = d[j].thisCycle + d[j].nextCycle
      OBVIOUS
    <3> HIDE DEF f, k, d
    <3> QED BY <3>1, <3>2, <3>3, <3>4
  <2>3. SumFunction(f) = SumFunctionOnSet(f, Cycles)
    BY DEF SumFunction
  <2> HIDE DEF f, k
  <2>4. Cumulated(d, k) = SumFunctionOnSet(f, Cycles)
    BY <2>1, <2>2, SumSame DEF Cumulated
  <2>5. Cumulated(d, k) = Dues(sender, p, r, now, k)
    BY <1>1, <2>1 DEF AsDue
  <2> DEFINE g == [s \in Senders |-> Due(sender[s], p.nextSqueezed[s], r, now, k)]
  <2>6. ASSUME NEW s \in Senders
        PROVE  g[s] = 0
    <3> DEFINE x == sender[s]
    <3>1. IsBook(x) /\ x.maxEnd \in 0..Forever
      BY <1>1, SenderIs
    <3>2. g[s] = Due(x, p.nextSqueezed[s], r, now, k)
      OBVIOUS
    <3> HIDE DEF x, g
    <3> DEFINE a == Larger(now, (k - 1) * CycleSecs)
               b == k * CycleSecs
    <3>3. a \in Nat /\ b \in Nat
      BY <1>1, <2>1, WindowStarts
    <3>4. x.maxEnd <= a
      BY <1>1, <2>1, <3>1, Constants DEF Larger
    <3> HIDE DEF a, b
    <3>5. Paid(x, r, a, b) = 0
      BY <3>1, <3>3, <3>4, PaidNone
    <3>6. Coming(x, r, now, k) = 0
      BY <3>5 DEF Coming, a, b
    <3> QED BY <2>1, <3>2, <3>6 DEF Due
  <2>7. Dues(sender, p, r, now, k) = SumFunctionOnSet(g, Senders)
    BY DEF Dues
  <2>8. IsFiniteSet(Senders)
    BY Constants
  <2> HIDE DEF g
  <2>9. SumFunctionOnSet(g, Senders) = 0
    BY <2>6, <2>8, SumZero
  <2> QED BY <2>3, <2>4, <2>5, <2>7, <2>9
<1> QED BY <1>3, <1>4, <1>5 DEF p

\* What r can obtain, as the code computes it.
LEMMA OwedIs ==
  ASSUME Core, NEW r \in Receivers
  PROVE  Obtainable(r) = Owed(sender, receiver[r], r, now)
<1>0. /\ now \in 0..Forever /\ now \in Nat
      /\ \A s \in Senders : GoodSender(sender[s], s, now)
      /\ \A o \in Receivers : GoodReceiver(receiver[o], now)
  BY CoreIs
<1>1. ReceivedAmt(receiver[r], Receivable(receiver[r], CycleOf(Forever))) = Past(receiver[r].amtDeltas, now)
  BY <1>0, PastIs
<1> DEFINE f == [s \in Senders |-> SqueezeAmt(r, s, 1..Len(sender[s].history))]
           g == [s \in Senders |-> Open(sender[s], receiver[r].nextSqueezed[s], r, now)]
<1>2. ASSUME NEW s \in Senders
      PROVE  SqueezeAmt(r, s, 1..Len(sender[s].history)) = Open(sender[s], receiver[r].nextSqueezed[s], r, now)
  <2> DEFINE q == receiver[r].nextSqueezed[s]
             shown == 1..Len(sender[s].history)
  <2>1. q \in Rows(s, now)
    BY <1>0, ReceiverIs
  <2>2. q = receiver[r].nextSqueezed[s] /\ shown \in SUBSET (1..Len(sender[s].history)) /\ shown = 1..Len(sender[s].history)
    OBVIOUS
  <2>3. GoodSender(sender[s], s, now)
    BY <1>0
  <2> HIDE DEF q, shown
  <2>4. SqueezeAmt(r, s, shown) = Open(sender[s], q, r, now)
    BY <1>0, <2>1, <2>2, <2>3, SqueezeIs
  <2> QED BY <2>4 DEF q, shown
<1>3. f = g
  BY <1>2
<1>4. Obtainable(r) = ReceivedAmt(receiver[r], Receivable(receiver[r], CycleOf(Forever))) + SumFunctionOnSet(f, Senders)
  BY DEF Obtainable, SumFunction
<1>5. Opens(sender, receiver[r], r, now) = SumFunctionOnSet(g, Senders)
  BY DEF Opens
<1> QED BY <1>1, <1>3, <1>4, <1>5 DEF Owed

LEMMA CoreCovers ==
  ASSUME Core
  PROVE  TokensCovered
<1>1. /\ now \in 0..Forever /\ now \in Nat
      /\ \A s \in Senders : GoodSender(sender[s], s, now)
      /\ \A r \in Receivers : GoodReceiver(receiver[r], now)
      /\ collectableAmts \in [Receivers -> Nat]
      /\ balances = [streams |-> Lefts(sender, now) + Oweds(sender, receiver, now),
                     collectable |-> SumFunctionOnSet(collectableAmts, Receivers)]
  BY CoreIs
<1>2. \A r \in Receivers : Obtainable(r) = Owed(sender, receiver[r], r, now)
  BY OwedIs
<1>3. SumFunction([s \in Senders |-> BalanceAt(sender[s], now)]) = Lefts(sender, now)
  <2>1. \A s \in Senders : BalanceAt(sender[s], now) = Left(sender[s], now)
    BY <1>1, BalanceIs
  <2>2. [s \in Senders |-> BalanceAt(sender[s], now)] = [s \in Senders |-> Left(sender[s], now)]
    BY <2>1
  <2> QED BY <2>2 DEF SumFunction, Lefts
<1>4. SumFunction([r \in Receivers |-> Obtainable(r)]) = Oweds(sender, receiver, now)
  <2>1. [r \in Receivers |-> Obtainable(r)] = [r \in Receivers |-> Owed(sender, receiver[r], r, now)]
    BY <1>2
  <2> QED BY <2>1 DEF SumFunction, Oweds
<1>5. SumFunction(collectableAmts) = SumFunctionOnSet(collectableAmts, Receivers)
  <2>1. DOMAIN collectableAmts = Receivers
    BY <1>1
  <2> QED BY <2>1 DEF SumFunction
<1> QED BY <1>1, <1>3, <1>4, <1>5 DEF TokensCovered
-----------------------------------------------------------------------------
(* A second passes.                                                        *)

\* What a sender still pays in a cycle that is not over, or has paid without
\* being squeezed, is the same a second later.
LEMMA DueLater ==
  ASSUME NEW t \in Nat, t + 1 \in 0..Forever, NEW s \in Senders, NEW x, GoodSender(x, s, t),
         NEW q \in Rows(s, t), NEW r, NEW k \in Nat \ {0}, CycleOf(t + 1) <= k
  PROVE  Due(x, q, r, t + 1, k) = Due(x, q, r, t, k)
<1> DEFINE u == t + 1
           C == CycleOf(t)
           a == (k - 1) * CycleSecs
           b == k * CycleSecs
<1>1. /\ IsBook(x) /\ u \in Nat /\ t \in 0..Forever /\ C \in Nat \ {0} /\ CycleOf(u) \in Nat \ {0}
      /\ a \in Nat /\ b \in Nat /\ C <= CycleOf(u) /\ CycleOf(u) <= k
  <2>1. u \in Nat /\ t \in 0..Forever
    BY Constants
  <2>2. a \in Nat /\ b \in Nat
    BY BoundsAre
  <2>3. C \in Nat \ {0} /\ CycleOf(u) \in Nat \ {0} /\ C <= CycleOf(u)
    <3>1. t <= u
      BY <2>1
    <3> HIDE DEF u
    <3> QED BY <2>1, <3>1, CycleIs, CycleGrows
  <2>4. IsBook(x)
    BY SenderIs
  <2>5. CycleOf(u) <= k
    OBVIOUS
  <2> QED BY <2>1, <2>2, <2>3, <2>4, <2>5
<1>2. Open(x, q, r, t) \in Nat
  BY OpenIs
<1>3. CASE k = C
  <2>1. CycleOf(u) = C
    <3> HIDE DEF u, C
    <3> QED BY <1>1, <1>3
  <2>2. Open(x, q, r, u) = Open(x, q, r, t) + Paid(x, r, t, u)
    BY <2>1, OpenGrows
  <2>3. a <= t /\ t < b /\ u < b
    <3>1. a <= t /\ t < b
      BY <1>3, CycleBounds
    <3>2. u < b
      <4> HIDE DEF u, a, b
      <4>1. (k - 1) * CycleSecs <= u /\ u < k * CycleSecs
        BY <1>1, <1>3, <2>1, CycleBounds
      <4> QED BY <4>1 DEF b
    <3> QED BY <3>1, <3>2
  <2> DEFINE pay == Paid(x, r, t, u)
             rest == Paid(x, r, u, b)
             all == Paid(x, r, t, b)
  <2>4. all = pay + rest /\ pay \in Nat /\ rest \in Nat
    <3>1. t <= u /\ u <= b
      BY <1>1, <2>3
    <3> HIDE DEF u, a, b
    <3>2. Paid(x, r, t, b) = Paid(x, r, t, u) + Paid(x, r, u, b)
      BY <1>1, <3>1, PaidSplits
    <3>3. Paid(x, r, t, u) \in Nat /\ Paid(x, r, u, b) \in Nat
      BY <1>1, PaidIs
    <3> QED BY <3>2, <3>3
  <2>5. Larger(t, a) = t /\ Larger(u, a) = u
    <3>1. ~(t < a) /\ ~(u < a)
      BY <1>1, <2>3
    <3> QED BY <3>1 DEF Larger
  <2>6. Coming(x, r, t, k) = all /\ Coming(x, r, u, k) = rest
    <3> HIDE DEF u
    <3> QED BY <2>5 DEF Coming, u
  <2>7. /\ Due(x, q, r, t, k) = Coming(x, r, t, k) + Open(x, q, r, t)
        /\ Due(x, q, r, u, k) = Coming(x, r, u, k) + Open(x, q, r, u)
    <3> HIDE DEF u
    <3> QED BY <1>3, <2>1 DEF Due
  <2> HIDE DEF u, pay, rest, all
  <2>8. Open(x, q, r, u) = Open(x, q, r, t) + pay
    BY <2>2 DEF pay
  <2> QED BY <1>2, <2>4, <2>6, <2>7, <2>8 DEF u
<1>4. CASE k # C
  <2>1. u <= a
    <3>1. C < k
      BY <1>1, <1>4
    <3>2. C * CycleSecs <= a /\ C * CycleSecs \in Nat
      BY <1>1, <3>1, BoundsOrdered, BoundsAre
    <3>3. t < C * CycleSecs
      BY CycleIs
    <3> HIDE DEF a, C
    <3> QED BY <1>1, <3>2, <3>3
  <2>2. Larger(t, a) = a /\ Larger(u, a) = a
    <3>1. t < a
      BY <1>1, <2>1
    <3>2. u < a \/ u = a
      BY <1>1, <2>1
    <3> HIDE DEF u, a
    <3> QED BY <3>1, <3>2 DEF Larger
  <2>3. Coming(x, r, t, k) = Coming(x, r, u, k)
    <3> HIDE DEF u
    <3> QED BY <2>2 DEF Coming
  <2>4. Due(x, q, r, t, k) = Coming(x, r, t, k) + 0
    BY <1>4 DEF Due
  <2>5. Due(x, q, r, u, k) = Coming(x, r, u, k) + 0
    <3>1. CASE CycleOf(u) = k
      <4>1. CycleOf(t + 1) # CycleOf(t)
        BY <1>4, <3>1
      <4>2. Open(x, q, r, u) = 0
        BY <4>1, OpenRestarts
      <4> HIDE DEF u
      <4> QED BY <3>1, <4>2 DEF Due
    <3>2. CASE CycleOf(u) # k
      <4> HIDE DEF u
      <4> QED BY <3>2 DEF Due
    <3> QED BY <3>1, <3>2
  <2> QED BY <2>3, <2>4, <2>5
<1> QED BY <1>3, <1>4

\* When a cycle ends, its amount joins the past.
LEMMA PastGrows ==
  ASSUME NEW t \in Nat, NEW d \in Tables, CycleOf(t + 1) = CycleOf(t) + 1
  PROVE  Past(d, t + 1) = Past(d, t) + Cumulated(d, CycleOf(t)) /\ Past(d, t) \in Int
         /\ Cumulated(d, CycleOf(t)) \in Int
<1> DEFINE C == CycleOf(t)
           S == 1..C
           T == 1..C - 1
           f == [k \in S |-> Cumulated(d, k)]
           g == [k \in T |-> Cumulated(d, k)]
<1>1. C \in Nat \ {0}
  BY CycleIs
<1> HIDE DEF C
<1>2. IsFiniteSet(S) /\ IsFiniteSet(T) /\ C \in S /\ T = S \ {C}
  BY <1>1, IntervalIs
<1>3. \A k \in S : f[k] \in Int
  <2> TAKE k \in S
  <2>1. k \in Nat
    BY <1>1
  <2>2. Cumulated(d, k) \in Int
    BY <2>1, ShareIs
  <2> QED BY <2>2
<1>4. f[C] = Cumulated(d, C) /\ \A k \in T : g[k] = f[k]
  BY <1>2
<1>5. Past(d, t + 1) = SumFunctionOnSet(f, S)
  <2>1. CycleOf(t + 1) - 1 = C
    BY <1>1 DEF C
  <2> QED BY <2>1 DEF Past
<1>6. Past(d, t) = SumFunctionOnSet(g, T)
  BY DEF Past, C
<1> HIDE DEF f, g, S, T
<1>7. SumFunctionOnSet(f, S) = f[C] + SumFunctionOnSet(f, T)
  BY <1>2, <1>3, SumSplit
<1>8. SumFunctionOnSet(g, T) = SumFunctionOnSet(f, T)
  <2>1. \A k \in T : f[k] \in Int /\ g[k] = f[k]
    BY <1>2, <1>3, <1>4
  <2> QED BY <1>2, <2>1, SumSame
<1>9. SumFunctionOnSet(f, T) \in Int /\ f[C] \in Int
  <2>1. \A k \in T : f[k] \in Int
    BY <1>2, <1>3
  <2> QED BY <1>2, <1>3, <2>1, SumInt
<1> QED BY <1>4, <1>5, <1>6, <1>7, <1>8, <1>9 DEF C

\* What a receiver can obtain grows by what all senders pay it.
LEMMA OwedLater ==
  ASSUME NEW t \in Nat, t + 1 \in 0..Forever, NEW snd, \A s \in Senders : GoodSender(snd[s], s, t),
         NEW p, GoodReceiver(p, t), NEW r, AsDue(snd, p, r, t),
         NEW f, f = [s \in Senders |-> Paid(snd[s], r, t, t + 1)]
  PROVE  /\ Owed(snd, p, r, t + 1) = Owed(snd, p, r, t) + SumFunctionOnSet(f, Senders)
         /\ Owed(snd, p, r, t) \in Nat
         /\ \A s \in Senders : f[s] \in Nat
         /\ SumFunctionOnSet(f, Senders) \in Nat
<1> DEFINE u == t + 1
           C == CycleOf(t)
           d == p.amtDeltas
           g == [s \in Senders |-> Open(snd[s], p.nextSqueezed[s], r, t)]
           h == [s \in Senders |-> Open(snd[s], p.nextSqueezed[s], r, t + 1)]
<1>1. /\ u \in Nat /\ t \in 0..Forever /\ C \in Nat \ {0} /\ IsFiniteSet(Senders)
      /\ \A s \in Senders : p.nextSqueezed[s] \in Rows(s, t)
      /\ d \in Tables
  <2>1. u \in Nat /\ t \in 0..Forever /\ IsFiniteSet(Senders)
    BY Constants
  <2>2. C \in Nat \ {0}
    BY CycleIs
  <2> QED BY <2>1, <2>2, ReceiverIs
<1>2. ASSUME NEW s \in Senders
      PROVE  /\ f[s] = Paid(snd[s], r, t, t + 1) /\ f[s] \in Nat
             /\ g[s] = Open(snd[s], p.nextSqueezed[s], r, t) /\ g[s] \in Nat
             /\ h[s] = Open(snd[s], p.nextSqueezed[s], r, t + 1)
             /\ IsBook(snd[s])
  <2>1. IsBook(snd[s])
    BY SenderIs
  <2>2. Paid(snd[s], r, t, t + 1) \in Nat
    BY <1>1, <2>1, PaidIs
  <2>3. Open(snd[s], p.nextSqueezed[s], r, t) \in Nat
    BY <1>1, DuesAre
  <2> QED BY <2>1, <2>2, <2>3
<1>3. /\ SumFunctionOnSet(f, Senders) \in Nat /\ SumFunctionOnSet(g, Senders) \in Nat
  <2> HIDE DEF g
  <2> QED BY <1>1, <1>2, SumNat
<1>4. Opens(snd, p, r, t) = SumFunctionOnSet(g, Senders) /\ Opens(snd, p, r, u) = SumFunctionOnSet(h, Senders)
  BY DEF Opens
<1>5. Owed(snd, p, r, t) \in Nat /\ Past(d, t) \in Nat
  BY <1>1, DuesAre
<1>6. CASE CycleOf(u) = C
  <2>1. \A s \in Senders : g[s] \in Int /\ f[s] \in Int /\ h[s] = g[s] + f[s]
    <3> TAKE s \in Senders
    <3>1. Open(snd[s], p.nextSqueezed[s], r, t + 1) = Open(snd[s], p.nextSqueezed[s], r, t) + Paid(snd[s], r, t, t + 1)
      <4> DEFINE x == snd[s]
                 q == p.nextSqueezed[s]
      <4>1. GoodSender(x, s, t) /\ q \in Rows(s, t) /\ CycleOf(t + 1) = CycleOf(t)
        BY <1>1, <1>6
      <4> HIDE DEF x, q
      <4>2. Open(x, q, r, t + 1) = Open(x, q, r, t) + Paid(x, r, t, t + 1)
        BY <4>1, OpenGrows
      <4> QED BY <4>2 DEF x, q
    <3> HIDE DEF g, h
    <3> QED BY <1>2, <3>1
  <2> HIDE DEF g, h
  <2>2. SumFunctionOnSet(h, Senders) = SumFunctionOnSet(g, Senders) + SumFunctionOnSet(f, Senders)
    BY <1>1, <2>1, SumAdds
  <2>3. Past(d, u) = Past(d, t)
    <3> HIDE DEF u
    <3> QED BY <1>6 DEF Past
  <2>4. /\ Owed(snd, p, r, u) = Past(d, u) + SumFunctionOnSet(h, Senders)
        /\ Owed(snd, p, r, t) = Past(d, t) + SumFunctionOnSet(g, Senders)
    <3> HIDE DEF u
    <3> QED BY <1>4 DEF Owed
  <2>5. Owed(snd, p, r, u) = Owed(snd, p, r, t) + SumFunctionOnSet(f, Senders)
    <3> HIDE DEF u, d
    <3> QED BY <1>3, <1>5, <2>2, <2>3, <2>4
  <2> QED BY <1>2, <1>3, <1>5, <2>5
<1>7. CASE CycleOf(u) # C
  <2>1. ASSUME NEW s \in Senders
        PROVE  /\ h[s] = 0 /\ u = C * CycleSecs /\ CycleOf(u) = C + 1
    <3> DEFINE x == snd[s]
               q == p.nextSqueezed[s]
    <3>1. GoodSender(x, s, t) /\ q \in Rows(s, t) /\ CycleOf(t + 1) # CycleOf(t)
      BY <1>1, <1>7
    <3> HIDE DEF x, q
    <3>2. Open(x, q, r, t + 1) = 0 /\ t + 1 = C * CycleSecs /\ CycleOf(t + 1) = C + 1
      BY <3>1, OpenRestarts
    <3> HIDE DEF h
    <3> QED BY <1>2, <3>2 DEF x, q
  <2>2. CycleOf(u) = C + 1 /\ u = C * CycleSecs
    <3>1. t <= u
      BY <1>1
    <3>2. CycleOf(t) <= CycleOf(u) /\ CycleOf(u) \in Nat \ {0}
      <4> HIDE DEF u
      <4> QED BY <1>1, <3>1, CycleGrows, CycleIs
    <3>3. C < CycleOf(u)
      <4> HIDE DEF u
      <4> QED BY <1>1, <1>7, <3>2
    <3>4. C * CycleSecs <= u /\ C * CycleSecs \in Nat
      <4> HIDE DEF u
      <4> QED BY <1>1, <3>3, CycleBounds, BoundsAre
    <3>5. t < C * CycleSecs
      BY CycleIs
    <3>6. u = C * CycleSecs
      <4> HIDE DEF C
      <4> QED BY <1>1, <3>4, <3>5
    <3>7. CycleOf(u) = C + 1
      <4>1. (C * CycleSecs) \div CycleSecs = C
        BY <1>1, BoundsAre
      <4> HIDE DEF u, C
      <4> QED BY <3>6, <4>1 DEF CycleOf
    <3> QED BY <3>6, <3>7
  <2> DEFINE e == [s \in Senders |-> Due(snd[s], p.nextSqueezed[s], r, t, C)]
  <2>3. ASSUME NEW s \in Senders
        PROVE  e[s] = g[s] + f[s]
    <3> DEFINE a == (C - 1) * CycleSecs
    <3>1. a \in Nat /\ a <= t
      BY <1>1, CycleBounds, BoundsAre
    <3>2. Larger(t, a) = t
      <4>1. ~(t < a)
        <5> HIDE DEF a
        <5> QED BY <3>1
      <4> QED BY <4>1 DEF Larger
    <3>3. Coming(snd[s], r, t, C) = Paid(snd[s], r, t, t + 1)
      <4>1. Coming(snd[s], r, t, C) = Paid(snd[s], r, Larger(t, a), C * CycleSecs)
        BY DEF Coming
      <4> QED BY <2>2, <3>2, <4>1
    <3>4. Due(snd[s], p.nextSqueezed[s], r, t, C) = Coming(snd[s], r, t, C) + Open(snd[s], p.nextSqueezed[s], r, t)
      BY DEF Due
    <3>5. e[s] = Due(snd[s], p.nextSqueezed[s], r, t, C)
      OBVIOUS
    <3> HIDE DEF e, g, C
    <3> QED BY <1>2, <3>3, <3>4, <3>5
  <2>4. Cumulated(d, C) = SumFunctionOnSet(e, Senders)
    <3>1. Cumulated(d, C) = Dues(snd, p, r, t, C)
      BY <1>1 DEF AsDue
    <3> QED BY <3>1 DEF Dues
  <2>5. Past(d, u) = Past(d, t) + Cumulated(d, C)
    BY <1>1, <2>2, PastGrows
  <2>6. /\ Owed(snd, p, r, u) = Past(d, u) + SumFunctionOnSet(h, Senders)
        /\ Owed(snd, p, r, t) = Past(d, t) + SumFunctionOnSet(g, Senders)
    <3> HIDE DEF u, g, h
    <3> QED BY <1>4 DEF Owed
  <2> HIDE DEF e, g, h
  <2>7. SumFunctionOnSet(e, Senders) = SumFunctionOnSet(g, Senders) + SumFunctionOnSet(f, Senders)
    <3>1. \A s \in Senders : g[s] \in Int /\ f[s] \in Int /\ e[s] = g[s] + f[s]
      BY <1>2, <2>3
    <3> QED BY <1>1, <3>1, SumAdds
  <2>8. SumFunctionOnSet(h, Senders) = 0
    BY <1>1, <2>1, SumZero
  <2>9. Owed(snd, p, r, u) = Owed(snd, p, r, t) + SumFunctionOnSet(f, Senders)
    <3> HIDE DEF u, d, C
    <3> QED BY <1>3, <1>5, <2>4, <2>5, <2>6, <2>7, <2>8
  <2> QED BY <1>2, <1>3, <1>5, <2>9
<1> QED BY <1>6, <1>7

\* The state of a receiver is as good a second later.
LEMMA ReceiverLater ==
  ASSUME NEW t \in Nat, t + 1 \in 0..Forever, NEW p, GoodReceiver(p, t),
         Cumulated(p.amtDeltas, CycleOf(t)) >= 0
  PROVE  GoodReceiver(p, t + 1)
<1> DEFINE q == p.nextSqueezed
           u == t + 1
<1>1. /\ p = [nextReceivableCycle |-> p.nextReceivableCycle, amtDeltas |-> p.amtDeltas, nextSqueezed |-> q]
      /\ p.nextReceivableCycle \in Cycles \cup {0} /\ p.amtDeltas \in Tables
      /\ q = [s \in Senders |-> q[s]]
      /\ \A s \in Senders : q[s] \in Rows(s, t)
  BY ReceiverIs
<1>2. \A s \in Senders : q[s] \in Rows(s, u)
  <2> TAKE s \in Senders
  <2> DEFINE c == q[s]
             D == 0..MaxConfigs[s] - 1
  <2>1. c \in [D -> 0..t]
    BY <1>1 DEF Rows
  <2>2. 0..t \subseteq 0..u
    OBVIOUS
  <2> HIDE DEF c, D, u
  <2>3. c \in [D -> 0..u]
    BY <2>1, <2>2
  <2> QED BY <2>3 DEF Rows, c, D
<1>3. u \in Nat
  OBVIOUS
<1>4. p \in ReceiverStates(u)
  <2> DEFINE n == p.nextReceivableCycle
             d == p.amtDeltas
  <2>1. p = [nextReceivableCycle |-> n, amtDeltas |-> d, nextSqueezed |-> q] /\ n \in Cycles \cup {0} /\ d \in Tables
    BY <1>1
  <2>2. q = [s \in Senders |-> q[s]]
    BY <1>1
  <2> HIDE DEF n, d, q, u
  <2>3. [nextReceivableCycle |-> n, amtDeltas |-> d, nextSqueezed |-> q] \in ReceiverStates(u)
    BY <1>2, <1>3, <2>1, <2>2, ReceiverMade
  <2> QED BY <2>1, <2>3
<1>5. CycleOf(u) \in Nat \ {0} /\ CycleOf(t) \in Nat \ {0} /\ CycleOf(u) <= CycleOf(t) + 1
  <2>1. CycleOf(u) \in Nat \ {0} /\ CycleOf(t) \in Nat \ {0}
    <3> HIDE DEF u
    <3> QED BY <1>3, CycleIs
  <2>2. CASE CycleOf(t) + 1 < CycleOf(u)
    <3>1. (CycleOf(t) + 1) * CycleSecs <= u
      <4>1. CycleOf(t) + 1 \in Nat \ {0}
        BY <2>1
      <4> HIDE DEF u
      <4> QED BY <1>3, <2>2, <4>1, CycleBounds
    <3>2. (CycleOf(t) + 1) * CycleSecs = CycleOf(t) * CycleSecs + CycleSecs /\ CycleOf(t) * CycleSecs \in Nat
      BY <2>1, BoundsAre
    <3>3. t < CycleOf(t) * CycleSecs
      BY CycleIs
    <3>4. CycleSecs \in Nat /\ CycleSecs > 1
      BY Constants
    <3> QED BY <3>1, <3>2, <3>3, <3>4
  <2> HIDE DEF u
  <2> QED BY <2>1, <2>2
<1>6. ASSUME NEW k \in 1..CycleOf(u) - 1
      PROVE  Cumulated(p.amtDeltas, k) >= 0
  <2>1. k \in 1..CycleOf(t) - 1 \/ k = CycleOf(t)
    <3> HIDE DEF u
    <3> QED BY <1>5
  <2> QED BY <2>1 DEF GoodReceiver
<1>7. \A j \in Cycles : p.nextReceivableCycle = 0 \/ j < p.nextReceivableCycle => p.amtDeltas[j] = NoDelta
  BY DEF GoodReceiver
<1> QED BY <1>4, <1>6, <1>7 DEF GoodReceiver

LEMMA KnowsLater ==
  ASSUME NEW t \in Nat, t + 1 \in 0..Forever, NEW e, IsConfig(e), NEW c, IsStream(c),
         NEW p, Knows(p, c, e, t)
  PROVE  Knows(p, c, e, t + 1)
<1> DEFINE u == t + 1
           a == Future(c, e, t).from
           b == Future(c, e, u).from
<1>1. t \in 0..Forever /\ u \in Nat /\ t <= u
  BY Constants
<1>2. a = Larger(Starts(c, e), t) /\ b = Larger(Starts(c, e), u)
  BY <1>1, FutureIs
<1>3. Starts(c, e) \in Nat
  BY StreamTimes, Constants
<1> HIDE DEF u, a, b
<1>4. a \in Nat /\ b \in Nat /\ a <= b
  BY <1>1, <1>2, <1>3 DEF Larger
<1>5. CycleOf(a) \in Nat /\ CycleOf(b) \in Nat /\ CycleOf(a) <= CycleOf(b)
  BY <1>4, CycleIs, CycleGrows
<1>6. p.nextReceivableCycle \in 1..CycleOf(a)
  BY DEF Knows, a
<1>7. p.nextReceivableCycle \in 1..CycleOf(b)
  BY <1>5, <1>6
<1> QED BY <1>7 DEF Knows, b, u
LEMMA AsDueLater ==
  ASSUME NEW t \in Nat, t + 1 \in 0..Forever, NEW snd, \A s \in Senders : GoodSender(snd[s], s, t),
         NEW p, GoodReceiver(p, t), NEW r, AsDue(snd, p, r, t)
  PROVE  AsDue(snd, p, r, t + 1)
<1> SUFFICES ASSUME NEW k \in Nat \ {0}, CycleOf(t + 1) <= k
             PROVE  Cumulated(p.amtDeltas, k) = Dues(snd, p, r, t + 1, k)
  BY DEF AsDue
<1>1. CycleOf(t) <= k
  <2> DEFINE u == t + 1
  <2>1. u \in Nat /\ t <= u
    OBVIOUS
  <2>2. CycleOf(u) <= k
    OBVIOUS
  <2> HIDE DEF u
  <2>3. CycleOf(t) <= CycleOf(u) /\ CycleOf(t) \in Nat /\ CycleOf(u) \in Nat
    BY <2>1, CycleIs, CycleGrows
  <2> QED BY <2>2, <2>3
<1>2. Cumulated(p.amtDeltas, k) = Dues(snd, p, r, t, k)
  BY <1>1 DEF AsDue
<1>3. ASSUME NEW s \in Senders
      PROVE  Due(snd[s], p.nextSqueezed[s], r, t + 1, k) = Due(snd[s], p.nextSqueezed[s], r, t, k)
  <2> DEFINE x == snd[s]
             q == p.nextSqueezed[s]
  <2>1. GoodSender(x, s, t) /\ q \in Rows(s, t)
    BY ReceiverIs
  <2> HIDE DEF x, q
  <2>2. Due(x, q, r, t + 1, k) = Due(x, q, r, t, k)
    BY <2>1, DueLater
  <2> QED BY <2>2 DEF x, q
<1>4. [s \in Senders |-> Due(snd[s], p.nextSqueezed[s], r, t + 1, k)]
      = [s \in Senders |-> Due(snd[s], p.nextSqueezed[s], r, t, k)]
  BY <1>3
<1>5. Dues(snd, p, r, t + 1, k) = Dues(snd, p, r, t, k)
  BY <1>4 DEF Dues
<1> QED BY <1>2, <1>5

\* What all senders spend is what all receivers are paid.
SpentIn(snd, t, u) == [s \in Senders |-> Spent(snd[s], t, u)]
PaidIn(snd, t, u) ==
    [r \in Receivers |-> SumFunctionOnSet([s \in Senders |-> Paid(snd[s], r, t, u)], Senders)]

LEMMA SpentByAll ==
  ASSUME NEW t \in Nat, NEW u \in Nat, NEW snd, \A s \in Senders : IsBook(snd[s]),
         NEW f, f = SpentIn(snd, t, u),
         NEW g, g = PaidIn(snd, t, u)
  PROVE  SumFunctionOnSet(f, Senders) = SumFunctionOnSet(g, Receivers)
<1> DEFINE a == [s \in Senders |-> [r \in Receivers |-> Paid(snd[s], r, t, u)]]
           b == [r \in Receivers |-> [s \in Senders |-> Paid(snd[s], r, t, u)]]
<1>1. Transposed(a, b, Senders, Receivers)
  <2> SUFFICES ASSUME NEW s \in Senders, NEW r \in Receivers
               PROVE  a[s][r] \in Int /\ b[r][s] = a[s][r]
    BY DEF Transposed
  <2>1. Paid(snd[s], r, t, u) \in Nat
    BY PaidIs
  <2> QED BY <2>1
<1>2. RowSums(f, Senders, a, Receivers)
  <2> SUFFICES ASSUME NEW s \in Senders
               PROVE  f[s] = SumFunctionOnSet(a[s], Receivers)
    BY DEF RowSums
  <2> DEFINE x == snd[s]
  <2>1. IsBook(x)
    OBVIOUS
  <2>2. f[s] = Spent(x, t, u) /\ a[s] = [r \in Receivers |-> Paid(x, r, t, u)]
    BY DEF SpentIn
  <2> HIDE DEF x, a
  <2>3. Spent(x, t, u) = SumFunctionOnSet([r \in Receivers |-> Paid(x, r, t, u)], Receivers)
    BY <2>1, SpentIsPaid
  <2> QED BY <2>2, <2>3
<1>3. RowSums(g, Receivers, b, Senders)
  BY DEF RowSums, PaidIn
<1>4. IsFiniteSet(Senders) /\ IsFiniteSet(Receivers)
  BY Constants
<1> HIDE DEF a, b
<1> QED BY <1>1, <1>2, <1>3, <1>4, SumExchange

LEMMA TickKeeps ==
  ASSUME Core, now < MaxTime
  PROVE  Holds(now + 1, sender, receiver, balances, collectableAmts)
<1>1. /\ now \in Nat /\ now + 1 \in 0..Forever /\ now + 1 \in Nat /\ now + 1 \in 1..MaxTime /\ now \in 0..Forever
      /\ sender = [s \in Senders |-> sender[s]] /\ receiver = [r \in Receivers |-> receiver[r]]
      /\ collectableAmts \in [Receivers -> Nat]
      /\ IsFiniteSet(Senders) /\ IsFiniteSet(Receivers)
  <2>1. now \in 1..MaxTime /\ now \in Nat /\ now \in 0..Forever
    BY CoreIs
  <2>2. MaxTime \in Nat /\ Forever \in Nat /\ MaxTime <= Forever
    BY Constants
  <2>3. now + 1 \in Nat /\ now + 1 \in 1..MaxTime
    BY <2>1, <2>2
  <2>4. now + 1 \in 0..Forever
    BY <2>1, <2>2
  <2> QED BY <2>1, <2>3, <2>4, CoreIs, Constants
<1>2. ASSUME NEW s \in Senders
      PROVE  /\ GoodSender(sender[s], s, now) /\ IsBook(sender[s]) /\ GoodSender(sender[s], s, now + 1)
             /\ Left(sender[s], now) = Left(sender[s], now + 1) + Spent(sender[s], now, now + 1)
             /\ Spent(sender[s], now, now + 1) \in Nat
             /\ Left(sender[s], now + 1) \in Nat
  <2> DEFINE x == sender[s]
             u == now + 1
  <2>1. GoodSender(x, s, now)
    BY CoreIs
  <2> HIDE DEF x
  <2>2. /\ IsBook(x) /\ GoodSender(x, s, now + 1)
        /\ Left(x, now) = Left(x, now + 1) + Spent(x, now, now + 1)
        /\ Spent(x, now, now + 1) \in Nat
    BY <1>1, <2>1, SenderIs, SenderLater
  <2>3. u \in Nat
    BY <1>1
  <2> HIDE DEF u
  <2>4. Left(x, u) \in Nat
    BY <1>1, <2>1, <2>3, BalanceIs
  <2> QED BY <2>1, <2>2, <2>4 DEF x, u
<1>3. ASSUME NEW r \in Receivers
      PROVE  /\ GoodReceiver(receiver[r], now) /\ GoodReceiver(receiver[r], now + 1)
             /\ AsDue(sender, receiver[r], r, now) /\ AsDue(sender, receiver[r], r, now + 1)
  <2> DEFINE p == receiver[r]
  <2>1. GoodReceiver(p, now) /\ AsDue(sender, p, r, now)
    BY CoreIs
  <2>2. CycleOf(now) \in Nat \ {0}
    BY CoreIs
  <2> HIDE DEF p
  <2>3. Cumulated(p.amtDeltas, CycleOf(now)) >= 0
    <3>1. Cumulated(p.amtDeltas, CycleOf(now)) = Dues(sender, p, r, now, CycleOf(now))
      BY <2>1, <2>2 DEF AsDue
    <3>2. Dues(sender, p, r, now, CycleOf(now)) \in Nat
      BY <1>1, <1>2, <2>1, <2>2, DuesAre
    <3> QED BY <3>1, <3>2
  <2>4. GoodReceiver(p, now + 1)
    BY <1>1, <2>1, <2>3, ReceiverLater
  <2>5. AsDue(sender, p, r, now + 1)
    BY <1>1, <1>2, <2>1, AsDueLater
  <2> QED BY <2>1, <2>4, <2>5 DEF p
<1>4. ASSUME NEW s \in Senders, NEW l \in sender[s].recv
      PROVE  Knows(receiver[l.to], l, sender[s], now + 1)
  <2> DEFINE x == sender[s]
             p == receiver[l.to]
  <2>1. Knows(p, l, x, now)
    BY DEF Core, Holds
  <2>2. IsConfig(x) /\ IsStream(l)
    BY <1>2 DEF IsBook
  <2> HIDE DEF x, p
  <2>3. Knows(p, l, x, now + 1)
    BY <1>1, <2>1, <2>2, KnowsLater
  <2> QED BY <2>3 DEF x, p
<1> DEFINE f == [s \in Senders |-> Spent(sender[s], now, now + 1)]
           g == [r \in Receivers |->
                   SumFunctionOnSet([s \in Senders |-> Paid(sender[s], r, now, now + 1)], Senders)]
<1>5. Lefts(sender, now) = Lefts(sender, now + 1) + SumFunctionOnSet(f, Senders)
      /\ Lefts(sender, now + 1) \in Nat /\ SumFunctionOnSet(f, Senders) \in Nat
  <2> DEFINE a == [s \in Senders |-> Left(sender[s], now)]
             b == [s \in Senders |-> Left(sender[s], now + 1)]
  <2>1. \A s \in Senders : b[s] \in Nat /\ f[s] \in Nat /\ a[s] = b[s] + f[s]
    BY <1>2
  <2>2. Lefts(sender, now) = SumFunctionOnSet(a, Senders) /\ Lefts(sender, now + 1) = SumFunctionOnSet(b, Senders)
    BY DEF Lefts
  <2> HIDE DEF a, b, f
  <2>3. \A s \in Senders : b[s] \in Int /\ f[s] \in Int /\ a[s] = b[s] + f[s]
    BY <2>1
  <2>4. SumFunctionOnSet(a, Senders) = SumFunctionOnSet(b, Senders) + SumFunctionOnSet(f, Senders)
    BY <1>1, <2>3, SumAdds
  <2>5. SumFunctionOnSet(b, Senders) \in Nat /\ SumFunctionOnSet(f, Senders) \in Nat
    BY <1>1, <2>1, SumNat
  <2> QED BY <2>2, <2>4, <2>5
<1>6. Oweds(sender, receiver, now + 1) = Oweds(sender, receiver, now) + SumFunctionOnSet(g, Receivers)
      /\ Oweds(sender, receiver, now) \in Nat /\ SumFunctionOnSet(g, Receivers) \in Nat
  <2> DEFINE a == [r \in Receivers |-> Owed(sender, receiver[r], r, now)]
             b == [r \in Receivers |-> Owed(sender, receiver[r], r, now + 1)]
  <2>1. ASSUME NEW r \in Receivers
        PROVE  a[r] \in Nat /\ g[r] \in Nat /\ b[r] = a[r] + g[r]
    <3> DEFINE p == receiver[r]
               pay == [s \in Senders |-> Paid(sender[s], r, now, now + 1)]
    <3>1. GoodReceiver(p, now) /\ AsDue(sender, p, r, now)
      BY <1>3
    <3>2. pay = [s \in Senders |-> Paid(sender[s], r, now, now + 1)]
      OBVIOUS
    <3>3. a[r] = Owed(sender, p, r, now) /\ b[r] = Owed(sender, p, r, now + 1) /\ g[r] = SumFunctionOnSet(pay, Senders)
      OBVIOUS
    <3> HIDE DEF p, pay, a, b, g
    <3>4. /\ Owed(sender, p, r, now + 1) = Owed(sender, p, r, now) + SumFunctionOnSet(pay, Senders)
          /\ Owed(sender, p, r, now) \in Nat
          /\ SumFunctionOnSet(pay, Senders) \in Nat
      BY <1>1, <1>2, <3>1, <3>2, OwedLater
    <3> QED BY <3>3, <3>4
  <2>2. /\ Oweds(sender, receiver, now) = SumFunctionOnSet(a, Receivers)
        /\ Oweds(sender, receiver, now + 1) = SumFunctionOnSet(b, Receivers)
    BY DEF Oweds
  <2> HIDE DEF a, b, g
  <2>3. \A r \in Receivers : a[r] \in Int /\ g[r] \in Int /\ b[r] = a[r] + g[r]
    BY <2>1
  <2>4. SumFunctionOnSet(b, Receivers) = SumFunctionOnSet(a, Receivers) + SumFunctionOnSet(g, Receivers)
    BY <1>1, <2>3, SumAdds
  <2>5. SumFunctionOnSet(a, Receivers) \in Nat /\ SumFunctionOnSet(g, Receivers) \in Nat
    BY <1>1, <2>1, SumNat
  <2> QED BY <2>2, <2>4, <2>5
<1>7. SumFunctionOnSet(f, Senders) = SumFunctionOnSet(g, Receivers)
  <2>1. f = SpentIn(sender, now, now + 1) /\ g = PaidIn(sender, now, now + 1)
    BY DEF SpentIn, PaidIn
  <2> HIDE DEF f, g
  <2> QED BY <1>1, <1>2, <2>1, SpentByAll
<1> HIDE DEF f, g
<1>8. balances = [streams |-> Lefts(sender, now + 1) + Oweds(sender, receiver, now + 1),
                  collectable |-> SumFunctionOnSet(collectableAmts, Receivers)]
  <2>1. balances = [streams |-> Lefts(sender, now) + Oweds(sender, receiver, now),
                    collectable |-> SumFunctionOnSet(collectableAmts, Receivers)]
    BY CoreIs
  <2>2. Lefts(sender, now) + Oweds(sender, receiver, now) = Lefts(sender, now + 1) + Oweds(sender, receiver, now + 1)
    BY <1>5, <1>6, <1>7
  <2> QED BY <2>1, <2>2
<1> QED BY <1>1, <1>2, <1>3, <1>4, <1>8 DEF Holds
-----------------------------------------------------------------------------
(* At first nobody streams.                                                *)

LEMMA NewSenderIs ==
  ASSUME NEW s \in Senders
  PROVE  /\ GoodSender(NewSender, s, 1)
         /\ Left(NewSender, 1) = 0
         /\ \A r, q : Open(NewSender, q, r, 1) = 0
         /\ \A r : \A k \in Nat \ {0} : Coming(NewSender, r, 1, k) = 0
<1> DEFINE x == NewSender
<1>1. /\ x.recv = {} /\ x.updateTime = 0 /\ x.maxEnd = 0 /\ x.balance = 0 /\ x.currCycleConfigs = 0
      /\ x.history = << >> /\ Len(x.history) = 0
  BY DEF NewSender
<1>2. MaxConfigs[s] \in Nat /\ 0 \in 0..Forever /\ 1 \in 0..Forever
  <2>1. MaxConfigs[s] \in Nat
    BY StreamsAssumption
  <2>2. 0 \in 0..Forever /\ 1 \in 0..Forever
    BY Constants
  <2> QED BY <2>1, <2>2
<1>3. x \in SenderStates(s)
  <2>1. << >> \in Seq(Entries(s)) /\ {} \in Books(s)
    BY DEF Books
  <2> QED BY <1>2, <2>1 DEF SenderStates, NewSender
<1>4. IsBook(x)
  <2>1. x.recv \in Books(s)
    BY <1>1 DEF Books
  <2> HIDE DEF x
  <2> QED BY <1>1, <1>2, <2>1, BooksAre
<1> HIDE DEF x
<1>5. \A a \in Nat, b \in Nat : Spent(x, a, b) = 0
  BY <1>1, <1>4, SpentIs
<1>6. \A r : \A a \in Nat, b \in Nat : Paid(x, r, a, b) = 0
  BY <1>1, <1>4, PaidNone
<1>7. GoodSender(x, s, 1)
  <2>1. Spent(x, x.updateTime, x.maxEnd) <= x.balance
    BY <1>1, <1>5
  <2>2. x.history = << >> => x = NewSender
    BY DEF x
  <2>3. Len(x.history) <= MaxConfigs[s] /\ x.updateTime <= 1 /\ x.currCycleConfigs <= Len(x.history)
    BY <1>1, <1>2
  <2>4. \A m \in 1..Len(x.history) : x.history[m].updateTime <= 1
    BY <1>1
  <2> QED BY <1>1, <1>3, <2>1, <2>2, <2>3, <2>4 DEF GoodSender
<1>8. Left(x, 1) = 0
  BY <1>1, <1>5 DEF Left
<1>9. ASSUME NEW r, NEW q
      PROVE  Open(x, q, r, 1) = 0
  <2>1. 1..Len(x.history) = {}
    BY <1>1
  <2> QED BY <2>1, SumEmpty DEF Open
<1>10. ASSUME NEW r, NEW k \in Nat \ {0}
       PROVE  Coming(x, r, 1, k) = 0
  <2>1. Larger(1, (k - 1) * CycleSecs) \in Nat /\ k * CycleSecs \in Nat
    BY WindowStarts
  <2> QED BY <1>6, <2>1 DEF Coming
<1> QED BY <1>7, <1>8, <1>9, <1>10 DEF x

LEMMA NewReceiverIs ==
  /\ GoodReceiver(NewReceiver, 1)
  /\ \A k \in Nat : Cumulated(NewReceiver.amtDeltas, k) = 0
  /\ Past(NewReceiver.amtDeltas, 1) = 0
<1> DEFINE q == [s \in Senders |-> [i \in 0..MaxConfigs[s] - 1 |-> 0]]
<1>1. NewReceiver = [nextReceivableCycle |-> 0, amtDeltas |-> NoDeltas, nextSqueezed |-> q]
  BY DEF NewReceiver
<1>2. q = [s \in Senders |-> q[s]] /\ \A s \in Senders : q[s] \in Rows(s, 1)
  <2>1. 0 \in 0..1
    OBVIOUS
  <2>2. ASSUME NEW s \in Senders
        PROVE  q[s] \in Rows(s, 1)
    <3> DEFINE D == 0..MaxConfigs[s] - 1
    <3>1. q[s] = [i \in D |-> 0]
      OBVIOUS
    <3> HIDE DEF q, D
    <3>2. q[s] \in [D -> 0..1]
      BY <2>1, <3>1
    <3> QED BY <3>2 DEF Rows, D
  <2> QED BY <2>2
<1> HIDE DEF q
<1>3. NoDeltas \in Tables /\ 0 \in Cycles \cup {0} /\ 1 \in Nat
  BY NoDeltaIs
<1>4. [nextReceivableCycle |-> 0, amtDeltas |-> NoDeltas, nextSqueezed |-> q] \in ReceiverStates(1)
  BY <1>2, <1>3, ReceiverMade
<1>5. ASSUME NEW k \in Nat
      PROVE  Cumulated(NoDeltas, k) = 0
  BY NoDeltaIs
<1>6. \A j \in Cycles : NoDeltas[j] = NoDelta
  BY DEF NoDeltas
<1>7. CycleOf(1) \in Nat
  BY CycleIs
<1>8. \A k \in 1..CycleOf(1) - 1 : k \in Nat /\ Cumulated(NoDeltas, k) = 0
  BY <1>5, <1>7
<1>9. GoodReceiver(NewReceiver, 1)
  BY <1>1, <1>4, <1>6, <1>8 DEF GoodReceiver
<1>10. Past(NoDeltas, 1) = 0
  <2> DEFINE S == 1..CycleOf(1) - 1
             f == [k \in S |-> Cumulated(NoDeltas, k)]
  <2>1. IsFiniteSet(S) /\ \A k \in S : f[k] = 0
    BY <1>7, <1>8, IntervalIs
  <2>2. Past(NoDeltas, 1) = SumFunctionOnSet(f, S)
    BY DEF Past
  <2> HIDE DEF f, S
  <2> QED BY <2>1, <2>2, SumZero
<1> QED BY <1>1, <1>5, <1>9, <1>10

LEMMA InitHolds ==
  ASSUME Init
  PROVE  Core
<1>1. /\ now = 1 /\ sender = [s \in Senders |-> NewSender] /\ receiver = [r \in Receivers |-> NewReceiver]
      /\ balances = [streams |-> 0, collectable |-> 0] /\ collectableAmts = [r \in Receivers |-> 0]
  BY DEF Init
<1>2. /\ 1 \in 1..MaxTime /\ IsFiniteSet(Senders) /\ IsFiniteSet(Receivers)
  BY Constants
<1>3. \A s \in Senders : sender[s] = NewSender
  BY <1>1
<1>4. \A r \in Receivers : receiver[r] = NewReceiver
  BY <1>1
<1>5. ASSUME NEW s \in Senders
      PROVE  /\ GoodSender(sender[s], s, 1)
             /\ \A l \in sender[s].recv : Knows(receiver[l.to], l, sender[s], 1)
  <2>1. NewSender.recv = {}
    BY DEF NewSender
  <2> QED BY <1>3, <2>1, NewSenderIs
<1>6. ASSUME NEW r \in Receivers
      PROVE  GoodReceiver(receiver[r], 1) /\ AsDue(sender, receiver[r], r, 1)
  <2>1. ASSUME NEW k \in Nat \ {0}
        PROVE  Dues(sender, receiver[r], r, 1, k) = 0
    <3> DEFINE f == [s \in Senders |-> Due(sender[s], receiver[r].nextSqueezed[s], r, 1, k)]
    <3>1. ASSUME NEW s \in Senders
          PROVE  Due(sender[s], receiver[r].nextSqueezed[s], r, 1, k) = 0
      <4>1. Open(NewSender, receiver[r].nextSqueezed[s], r, 1) = 0 /\ Coming(NewSender, r, 1, k) = 0
        BY NewSenderIs
      <4>2. Due(NewSender, receiver[r].nextSqueezed[s], r, 1, k) = 0
        BY <4>1 DEF Due
      <4>3. sender[s] = NewSender
        BY <1>3
      <4> QED BY ONLY <4>2, <4>3
    <3>2. \A s \in Senders : f[s] = 0
      BY <3>1
    <3>3. Dues(sender, receiver[r], r, 1, k) = SumFunctionOnSet(f, Senders)
      BY DEF Dues
    <3> HIDE DEF f
    <3> QED BY <1>2, <3>2, <3>3, SumZero
  <2>2. \A k \in Nat \ {0} : Cumulated(receiver[r].amtDeltas, k) = 0
    BY <1>4, NewReceiverIs
  <2>3. AsDue(sender, receiver[r], r, 1)
    BY <2>1, <2>2 DEF AsDue
  <2> QED BY <1>4, <2>3, NewReceiverIs
<1>7. Lefts(sender, 1) = 0
  <2> DEFINE f == [s \in Senders |-> Left(sender[s], 1)]
  <2>1. \A s \in Senders : f[s] = 0
    BY <1>3, NewSenderIs
  <2>2. Lefts(sender, 1) = SumFunctionOnSet(f, Senders)
    BY DEF Lefts
  <2> HIDE DEF f
  <2> QED BY <1>2, <2>1, <2>2, SumZero
<1>8. Oweds(sender, receiver, 1) = 0
  <2> DEFINE f == [r \in Receivers |-> Owed(sender, receiver[r], r, 1)]
  <2>1. ASSUME NEW r \in Receivers
        PROVE  f[r] = 0
    <3> DEFINE g == [s \in Senders |-> Open(sender[s], receiver[r].nextSqueezed[s], r, 1)]
    <3>1. \A s \in Senders : g[s] = 0
      BY <1>3, NewSenderIs
    <3>2. Opens(sender, receiver[r], r, 1) = SumFunctionOnSet(g, Senders)
      BY DEF Opens
    <3>3. f[r] = Past(receiver[r].amtDeltas, 1) + Opens(sender, receiver[r], r, 1)
      BY DEF Owed
    <3>4. Past(receiver[r].amtDeltas, 1) = 0
      BY <1>4, NewReceiverIs
    <3> HIDE DEF f, g
    <3>5. SumFunctionOnSet(g, Senders) = 0
      BY <1>2, <3>1, SumZero
    <3> QED BY <3>2, <3>3, <3>4, <3>5
  <2>2. Oweds(sender, receiver, 1) = SumFunctionOnSet(f, Receivers)
    BY DEF Oweds
  <2> HIDE DEF f
  <2> QED BY <1>2, <2>1, <2>2, SumZero
<1>9. SumFunctionOnSet(collectableAmts, Receivers) = 0 /\ collectableAmts \in [Receivers -> Nat]
  <2>1. \A r \in Receivers : collectableAmts[r] = 0
    BY <1>1
  <2> QED BY <1>1, <1>2, <2>1, SumZero
<1>10. balances = [streams |-> Lefts(sender, 1) + Oweds(sender, receiver, 1),
                   collectable |-> SumFunctionOnSet(collectableAmts, Receivers)]
  BY <1>1, <1>7, <1>8, <1>9
<1>11. sender = [s \in Senders |-> sender[s]] /\ receiver = [r \in Receivers |-> receiver[r]]
  BY <1>1
<1>12. Holds(1, sender, receiver, balances, collectableAmts)
  BY <1>2, <1>5, <1>6, <1>9, <1>10, <1>11 DEF Holds
<1> QED BY <1>1, <1>12 DEF Core
-----------------------------------------------------------------------------
(* A receiver takes what it is owed.                                       *)

LEMMA ReceiverTakes ==
  ASSUME Core, NEW r \in Receivers, NEW after, GoodReceiver(after, now), NEW amt \in Nat,
         \A s \in Senders : \A l \in sender[s].recv : l.to = r => Knows(after, l, sender[s], now),
         AsDue(sender, after, r, now),
         Owed(sender, after, r, now) = Owed(sender, receiver[r], r, now) - amt,
         NEW rcv, rcv = [receiver EXCEPT ![r] = after],
         NEW b, b = [streams |-> balances.streams - amt, collectable |-> balances.collectable + amt],
         NEW c, c = [collectableAmts EXCEPT ![r] = @ + amt]
  PROVE  Holds(now, sender, rcv, b, c)
<1>1. /\ now \in 1..MaxTime /\ now \in 0..Forever
      /\ sender = [s \in Senders |-> sender[s]] /\ receiver = [q \in Receivers |-> receiver[q]]
      /\ \A s \in Senders : GoodSender(sender[s], s, now)
      /\ \A q \in Receivers : GoodReceiver(receiver[q], now) /\ AsDue(sender, receiver[q], q, now)
      /\ collectableAmts \in [Receivers -> Nat]
      /\ IsFiniteSet(Receivers)
  BY CoreIs, Constants
<1>2. /\ rcv = [q \in Receivers |-> rcv[q]]
      /\ \A q \in Receivers : rcv[q] = IF q = r THEN after ELSE receiver[q]
  BY <1>1
<1>3. ASSUME NEW q \in Receivers
      PROVE  GoodReceiver(rcv[q], now) /\ AsDue(sender, rcv[q], q, now)
  BY <1>1, <1>2
<1>4. ASSUME NEW s \in Senders, NEW l \in sender[s].recv
      PROVE  Knows(rcv[l.to], l, sender[s], now)
  <2>1. Knows(receiver[l.to], l, sender[s], now)
    BY DEF Core, Holds
  <2>2. l.to \in Receivers
    <3>1. IsBook(sender[s])
      <4>1. now \in Nat
        BY CoreIs
      <4> QED BY <1>1, <4>1, SenderIs
    <3> QED BY <3>1 DEF IsBook, IsStream
  <2> QED BY <1>2, <2>1, <2>2
<1>5. Oweds(sender, rcv, now) = Oweds(sender, receiver, now) - amt /\ Oweds(sender, receiver, now) \in Nat
  <2> DEFINE f == [q \in Receivers |-> Owed(sender, receiver[q], q, now)]
             h == [q \in Receivers |-> Owed(sender, rcv[q], q, now)]
  <2>1. \A q \in Receivers : f[q] \in Nat
    BY <1>1, DuesAre
  <2>2. h[r] = f[r] - amt
    BY <1>2
  <2>3. \A q \in Receivers \ {r} : h[q] = f[q]
    BY <1>2
  <2>4. Oweds(sender, rcv, now) = SumFunctionOnSet(h, Receivers) /\ Oweds(sender, receiver, now) = SumFunctionOnSet(f, Receivers)
    BY DEF Oweds
  <2> HIDE DEF f, h
  <2>5. f[r] \in Int /\ h[r] \in Int /\ \A q \in Receivers : f[q] \in Int
    BY <2>1, <2>2
  <2>6. SumFunctionOnSet(h, Receivers) = SumFunctionOnSet(f, Receivers) - f[r] + h[r]
    <3>1. IsFiniteSet(Receivers) /\ r \in Receivers
      BY <1>1
    <3> QED BY ONLY <2>3, <2>5, <3>1, SumPut
  <2>7. SumFunctionOnSet(f, Receivers) \in Nat
    BY <1>1, <2>1, SumNat
  <2> QED BY <2>2, <2>4, <2>5, <2>6, <2>7
<1>6. SumFunctionOnSet(c, Receivers) = SumFunctionOnSet(collectableAmts, Receivers) + amt
      /\ SumFunctionOnSet(collectableAmts, Receivers) \in Nat /\ c \in [Receivers -> Nat]
  <2>1. c[r] = collectableAmts[r] + amt /\ c[r] \in Nat /\ collectableAmts[r] \in Nat /\ c \in [Receivers -> Nat]
    BY <1>1
  <2>2. \A q \in Receivers \ {r} : c[q] = collectableAmts[q]
    BY <1>1
  <2>3. \A q \in Receivers : collectableAmts[q] \in Int
    BY <1>1
  <2>4. c[r] \in Int
    BY <2>1
  <2>5. SumFunctionOnSet(c, Receivers) = SumFunctionOnSet(collectableAmts, Receivers) - collectableAmts[r] + c[r]
    <3>1. IsFiniteSet(Receivers) /\ r \in Receivers
      BY <1>1
    <3> QED BY ONLY <2>2, <2>3, <2>4, <3>1, SumPut
  <2>6. SumFunctionOnSet(collectableAmts, Receivers) \in Nat
    BY CoreIs
  <2> QED BY <2>1, <2>5, <2>6
<1>7. b = [streams |-> Lefts(sender, now) + Oweds(sender, rcv, now),
           collectable |-> SumFunctionOnSet(c, Receivers)]
  <2> DEFINE i == Lefts(sender, now)
             o == Oweds(sender, receiver, now)
             u == SumFunctionOnSet(collectableAmts, Receivers)
  <2>1. balances = [streams |-> i + o, collectable |-> u] /\ i \in Nat /\ o \in Nat
    BY CoreIs
  <2> HIDE DEF i, o, u
  <2>2. balances.streams - amt = i + (o - amt) /\ balances.collectable + amt = u + amt
    BY <2>1
  <2> QED BY <1>5, <1>6, <2>2 DEF i, o, u
<1> QED BY <1>1, <1>2, <1>3, <1>4, <1>6, <1>7 DEF Holds

\* Receiver r banks some of what it is owed, and nothing else happens.
Takes(r) ==
    /\ now' = now /\ sender' = sender
    /\ \A o \in Receivers \ {r} : receiver'[o] = receiver[o]
    /\ \E amt \in Nat :
         /\ Owed(sender, receiver'[r], r, now) = Owed(sender, receiver[r], r, now) - amt
         /\ collectableAmts' = [collectableAmts EXCEPT ![r] = @ + amt]

LEMMA ReceiveKeeps ==
  ASSUME Core, NEW r \in Receivers, NEW maxCycles \in Nat, receiveStreams(r, maxCycles)
  PROVE  Core' /\ Takes(r)
<1> DEFINE p == receiver[r]
           from == p.nextReceivableCycle
           to == Lesser(CycleOf(now), from + maxCycles)
           range == Receivable(p, maxCycles)
           amt == ReceivedAmt(p, range)
           after == Received(p, range)
<1>1. /\ range.from # range.to
      /\ receiver' = [receiver EXCEPT ![r] = after]
      /\ balances' = [streams |-> balances.streams - amt, collectable |-> balances.collectable + amt]
      /\ collectableAmts' = [collectableAmts EXCEPT ![r] = @ + amt]
      /\ now' = now /\ sender' = sender
  <2>1. receiver[r] = receiver[r] /\ r \in DOMAIN receiver
    BY CoreIs
  <2> QED BY <2>1 DEF receiveStreams, Banked
<1>2. /\ now \in 0..Forever /\ now \in Nat /\ CycleOf(now) \in Nat \ {0}
      /\ \A s \in Senders : GoodSender(sender[s], s, now)
      /\ GoodReceiver(p, now) /\ AsDue(sender, p, r, now)
  BY CoreIs
<1>3. from \in Nat
  BY <1>2, ReceiverIs
<1>4. /\ range = [from |-> from, to |-> to] /\ from # 0 /\ from < to /\ to <= CycleOf(now) /\ to \in Nat
  <2>1. from # 0 /\ ~(CycleOf(now) < from)
    BY <1>1 DEF Receivable
  <2>2. range = [from |-> from, to |-> to]
    BY <2>1 DEF Receivable
  <2>3. from # to
    BY <1>1, <2>2
  <2> HIDE DEF from, range
  <2>4. from <= to /\ to <= CycleOf(now) /\ to \in Nat
    BY <1>2, <1>3, <2>1 DEF Lesser
  <2> HIDE DEF to
  <2>5. from < to
    BY <1>3, <2>3, <2>4
  <2> QED BY <2>1, <2>2, <2>4, <2>5
<1>5. /\ GoodReceiver(after, now)
      /\ after.nextSqueezed = p.nextSqueezed /\ after.nextReceivableCycle = to
      /\ \A k \in Nat : to <= k => Cumulated(after.amtDeltas, k) = Cumulated(p.amtDeltas, k)
      /\ amt \in Nat
      /\ Past(after.amtDeltas, now) = Past(p.amtDeltas, now) - amt
      /\ Past(p.amtDeltas, now) \in Int
  <2>1. p.nextReceivableCycle = from
    OBVIOUS
  <2> HIDE DEF p, from, to, range
  <2> QED BY <1>2, <1>4, <2>1, ReceivedIs
<1> HIDE DEF p, to, range, amt, after
<1>6. ASSUME NEW s \in Senders, NEW l \in sender[s].recv
      PROVE  Knows(after, l, sender[s], now)
  <2> DEFINE x == sender[s]
             a == Future(l, x, now).from
  <2>1. IsConfig(x) /\ IsStream(l)
    <3>1. IsBook(x)
      BY <1>2, SenderIs
    <3> QED BY <3>1 DEF IsBook
  <2> HIDE DEF x
  <2>2. a \in 0..Forever /\ now <= a
    BY <1>2, <2>1, FutureIs
  <2>3. CycleOf(now) <= CycleOf(a) /\ CycleOf(a) \in Nat
    <3>1. a \in Nat
      BY <2>2, Constants
    <3> HIDE DEF a
    <3> QED BY <1>2, <2>2, <3>1, CycleIs, CycleGrows
  <2>4. to \in 1..CycleOf(a)
    <3> HIDE DEF a
    <3> QED BY <1>2, <1>3, <1>4, <2>3
  <2>5. after.nextReceivableCycle \in 1..CycleOf(Future(l, x, now).from)
    BY <1>5, <2>4
  <2> QED BY <2>5 DEF Knows, x
<1>7. AsDue(sender, after, r, now)
  <2> SUFFICES ASSUME NEW k \in Nat \ {0}, CycleOf(now) <= k
               PROVE  Cumulated(after.amtDeltas, k) = Dues(sender, after, r, now, k)
    BY DEF AsDue
  <2>1. to <= k
    BY <1>2, <1>4
  <2>2. Cumulated(after.amtDeltas, k) = Cumulated(p.amtDeltas, k)
    BY <1>5, <2>1
  <2>3. Cumulated(p.amtDeltas, k) = Dues(sender, p, r, now, k)
    BY <1>2 DEF AsDue
  <2>4. Dues(sender, after, r, now, k) = Dues(sender, p, r, now, k)
    BY <1>5 DEF Dues
  <2> QED BY <2>2, <2>3, <2>4
<1>8. Owed(sender, after, r, now) = Owed(sender, receiver[r], r, now) - amt
  <2>1. Opens(sender, after, r, now) = Opens(sender, p, r, now)
    BY <1>5 DEF Opens
  <2>2. Opens(sender, p, r, now) \in Nat
    BY <1>2, DuesAre
  <2>3. Owed(sender, after, r, now) = Owed(sender, p, r, now) - amt
    BY <1>5, <2>1, <2>2 DEF Owed
  <2> QED BY <2>3 DEF p
<1>9. Holds(now, sender, receiver', balances', collectableAmts')
  BY <1>1, <1>5, <1>6, <1>7, <1>8, ReceiverTakes
<1>10. Takes(r)
  <2>1. receiver'[r] = after /\ \A o \in Receivers \ {r} : receiver'[o] = receiver[o]
    <3>1. receiver = [o \in Receivers |-> receiver[o]]
      BY CoreIs
    <3> QED BY <1>1, <3>1
  <2> QED BY <1>1, <1>5, <1>8, <2>1 DEF Takes
<1> QED BY <1>1, <1>9, <1>10 DEF Core

LEMMA SqueezeKeeps ==
  ASSUME Core, NEW r \in Receivers, NEW s \in Senders, NEW shown \in SUBSET (1..Len(sender[s].history)),
         squeezeStreams(r, s, shown)
  PROVE  Core' /\ Takes(r)
<1> DEFINE p == receiver[r]
           x == sender[s]
           C == CycleOf(now)
           amt == SqueezeAmt(r, s, shown)
           indices == {SeenThisCycle(sender[s]) - i : i \in Squeezed(r, s, shown)}
           after == Drained(p, s, amt, indices)
<1>1. /\ receiver' = [receiver EXCEPT ![r] = after]
      /\ balances' = [streams |-> balances.streams - amt, collectable |-> balances.collectable + amt]
      /\ collectableAmts' = [collectableAmts EXCEPT ![r] = @ + amt]
      /\ now' = now /\ sender' = sender
  <2>1. r \in DOMAIN receiver
    BY CoreIs
  <2> QED BY <2>1 DEF squeezeStreams, Banked
<1>2. /\ now \in 0..Forever /\ now \in Nat /\ C \in Nat \ {0} /\ IsFiniteSet(Senders)
      /\ \A z \in Senders : GoodSender(sender[z], z, now)
      /\ GoodReceiver(p, now) /\ AsDue(sender, p, r, now)
  BY CoreIs, Constants
<1>3. Open(x, p.nextSqueezed[s], r, now) <= Cumulated(p.amtDeltas, C)
  <2>1. Cumulated(p.amtDeltas, C) = Dues(sender, p, r, now, C)
    BY <1>2 DEF AsDue
  <2>2. Open(sender[s], p.nextSqueezed[s], r, now) <= Dues(sender, p, r, now, C)
    <3> HIDE DEF p
    <3> QED BY <1>2, DuesAre
  <2> QED BY <2>1, <2>2
<1>4. /\ GoodReceiver(after, now)
      /\ after.nextReceivableCycle = p.nextReceivableCycle
      /\ amt \in Nat
      /\ \A k \in Nat \ {0} :
           /\ Cumulated(p.amtDeltas, k) \in Int
           /\ Cumulated(after.amtDeltas, k) = Cumulated(p.amtDeltas, k) - (IF k = C THEN amt ELSE 0)
      /\ \A z \in Senders \ {s} : after.nextSqueezed[z] = p.nextSqueezed[z]
      /\ Open(x, after.nextSqueezed[s], r, now) = Open(x, p.nextSqueezed[s], r, now) - amt
  <2>1. x = sender[s] /\ GoodSender(x, s, now) /\ p = receiver[r] /\ shown \in SUBSET (1..Len(x.history))
    BY <1>2
  <2>2. after = Drained(p, s, SqueezeAmt(r, s, shown), Marks(r, s, shown))
    BY DEF Marks
  <2> HIDE DEF p, x, after, indices
  <2> QED BY <1>2, <1>3, <2>1, <2>2, DrainedIs
<1> HIDE DEF amt, after, indices, C
<1>5. \A z \in Senders : \A l \in sender[z].recv : l.to = r => Knows(after, l, sender[z], now)
  <2> TAKE z \in Senders
  <2> TAKE l \in sender[z].recv
  <2> HAVE l.to = r
  <2>1. Knows(p, l, sender[z], now)
    BY DEF Core, Holds
  <2> HIDE DEF p
  <2> QED BY <1>4, <2>1 DEF Knows
<1>6. ASSUME NEW z \in Senders
      PROVE  /\ Open(sender[z], p.nextSqueezed[z], r, now) \in Nat
             /\ \A k \in Nat \ {0} : Coming(sender[z], r, now, k) \in Nat
  <2> HIDE DEF p
  <2> QED BY <1>2, DuesAre
<1> HIDE DEF p
<1>7. ASSUME NEW k \in Nat \ {0}
      PROVE  Dues(sender, after, r, now, k) = Dues(sender, p, r, now, k) - (IF k = C THEN amt ELSE 0)
             /\ Dues(sender, p, r, now, k) \in Nat
  <2> DEFINE f == [z \in Senders |-> Due(sender[z], p.nextSqueezed[z], r, now, k)]
             h == [z \in Senders |-> Due(sender[z], after.nextSqueezed[z], r, now, k)]
  <2>1. \A z \in Senders : f[z] \in Nat
    BY <1>2, DuesAre
  <2>2. \A z \in Senders \ {s} : h[z] = f[z]
    BY <1>4
  <2>3. h[s] = f[s] - (IF k = C THEN amt ELSE 0)
    <3> DEFINE a == Coming(x, r, now, k)
               o == Open(x, p.nextSqueezed[s], r, now)
               n == Open(x, after.nextSqueezed[s], r, now)
    <3>1. f[s] = a + (IF k = C THEN o ELSE 0) /\ h[s] = a + (IF k = C THEN n ELSE 0)
      BY DEF Due, C
    <3>2. a \in Nat /\ o \in Nat /\ n = o - amt
      BY <1>4, <1>6
    <3> HIDE DEF a, o, n, f, h
    <3> QED BY <1>4, <3>1, <3>2
  <2>4. Dues(sender, p, r, now, k) = SumFunctionOnSet(f, Senders)
        /\ Dues(sender, after, r, now, k) = SumFunctionOnSet(h, Senders)
    BY DEF Dues
  <2> HIDE DEF f, h
  <2>5. f[s] \in Int /\ h[s] \in Int /\ \A z \in Senders : f[z] \in Int
    <3>1. f[s] \in Int /\ \A z \in Senders : f[z] \in Int
      BY <2>1
    <3>2. h[s] \in Int
      BY <1>4, <2>3, <3>1
    <3> QED BY <3>1, <3>2
  <2>6. SumFunctionOnSet(h, Senders) = SumFunctionOnSet(f, Senders) - f[s] + h[s]
    <3>1. IsFiniteSet(Senders) /\ s \in Senders
      BY <1>2
    <3> QED BY ONLY <2>2, <2>5, <3>1, SumPut
  <2>7. SumFunctionOnSet(f, Senders) \in Nat
    BY <1>2, <2>1, SumNat
  <2> QED BY <1>4, <2>3, <2>4, <2>5, <2>6, <2>7
<1>8. AsDue(sender, after, r, now)
  <2> SUFFICES ASSUME NEW k \in Nat \ {0}, CycleOf(now) <= k
               PROVE  Cumulated(after.amtDeltas, k) = Dues(sender, after, r, now, k)
    BY DEF AsDue
  <2>1. Cumulated(p.amtDeltas, k) = Dues(sender, p, r, now, k)
    BY <1>2 DEF AsDue
  <2> QED BY <1>4, <1>7, <2>1
<1>9. Past(after.amtDeltas, now) = Past(p.amtDeltas, now) /\ Past(p.amtDeltas, now) \in Nat
  <2>1. ASSUME NEW k \in 1..CycleOf(now) - 1
        PROVE  Cumulated(after.amtDeltas, k) = Cumulated(p.amtDeltas, k)
    <3>1. k \in Nat \ {0} /\ k # C
      BY <1>2 DEF C
    <3> QED BY <1>4, <3>1
  <2>2. [k \in 1..CycleOf(now) - 1 |-> Cumulated(after.amtDeltas, k)]
        = [k \in 1..CycleOf(now) - 1 |-> Cumulated(p.amtDeltas, k)]
    BY <2>1
  <2>3. Past(after.amtDeltas, now) = Past(p.amtDeltas, now)
    BY <2>2 DEF Past
  <2>4. Past(p.amtDeltas, now) \in Nat
    BY <1>2, DuesAre
  <2> QED BY <2>3, <2>4
<1>10. Opens(sender, after, r, now) = Opens(sender, p, r, now) - amt /\ Opens(sender, p, r, now) \in Nat
  <2> DEFINE f == [z \in Senders |-> Open(sender[z], p.nextSqueezed[z], r, now)]
             h == [z \in Senders |-> Open(sender[z], after.nextSqueezed[z], r, now)]
  <2>1. \A z \in Senders : f[z] \in Nat
    BY <1>6
  <2>2. \A z \in Senders \ {s} : h[z] = f[z]
    BY <1>4
  <2>3. h[s] = f[s] - amt
    BY <1>4
  <2>4. Opens(sender, p, r, now) = SumFunctionOnSet(f, Senders)
        /\ Opens(sender, after, r, now) = SumFunctionOnSet(h, Senders)
    BY DEF Opens
  <2> HIDE DEF f, h
  <2>5. f[s] \in Int /\ h[s] \in Int /\ \A z \in Senders : f[z] \in Int
    <3>1. f[s] \in Int /\ \A z \in Senders : f[z] \in Int
      BY <2>1
    <3>2. h[s] \in Int
      BY <1>4, <2>3, <3>1
    <3> QED BY <3>1, <3>2
  <2>6. SumFunctionOnSet(h, Senders) = SumFunctionOnSet(f, Senders) - f[s] + h[s]
    <3>1. IsFiniteSet(Senders) /\ s \in Senders
      BY <1>2
    <3> QED BY ONLY <2>2, <2>5, <3>1, SumPut
  <2>7. SumFunctionOnSet(f, Senders) \in Nat
    BY <1>2, <2>1, SumNat
  <2> QED BY <1>4, <2>3, <2>4, <2>5, <2>6, <2>7
<1>11. Owed(sender, after, r, now) = Owed(sender, receiver[r], r, now) - amt
  <2>1. Owed(sender, after, r, now) = Owed(sender, p, r, now) - amt
    BY <1>4, <1>9, <1>10 DEF Owed
  <2> QED BY <2>1 DEF p
<1>12. Holds(now, sender, receiver', balances', collectableAmts')
  BY <1>1, <1>4, <1>5, <1>8, <1>11, ReceiverTakes
<1>13. Takes(r)
  <2>1. receiver'[r] = after /\ \A o \in Receivers \ {r} : receiver'[o] = receiver[o]
    <3>1. receiver = [o \in Receivers |-> receiver[o]]
      BY CoreIs
    <3> QED BY <1>1, <3>1
  <2> QED BY <1>1, <1>4, <1>11, <2>1 DEF Takes
<1> QED BY <1>1, <1>12, <1>13 DEF Core

LEMMA CollectKeeps ==
  ASSUME Core, NEW r \in Receivers, collect(r)
  PROVE  Core'
<1> DEFINE amt == collectableAmts[r]
           c == [collectableAmts EXCEPT ![r] = 0]
           i == Lefts(sender, now) + Oweds(sender, receiver, now)
           u == SumFunctionOnSet(collectableAmts, Receivers)
<1>1. /\ collectableAmts' = c /\ balances' = [balances EXCEPT !.collectable = @ - amt]
      /\ now' = now /\ sender' = sender /\ receiver' = receiver
  BY DEF collect
<1>2. /\ collectableAmts \in [Receivers -> Nat] /\ IsFiniteSet(Receivers) /\ r \in Receivers
      /\ balances = [streams |-> i, collectable |-> u] /\ u \in Nat
  BY CoreIs, Constants
<1>3. c[r] = 0 /\ amt \in Nat /\ c \in [Receivers -> Nat]
      /\ (\A q \in Receivers : collectableAmts[q] \in Int)
      /\ \A q \in Receivers \ {r} : c[q] = collectableAmts[q]
  BY <1>2
<1> HIDE DEF c, i, u
<1>4. SumFunctionOnSet(c, Receivers) = u - amt
  <2>1. c[r] \in Int
    BY <1>3
  <2>2. SumFunctionOnSet(c, Receivers) = SumFunctionOnSet(collectableAmts, Receivers) - collectableAmts[r] + c[r]
    BY ONLY <1>2, <1>3, <2>1, SumPut
  <2> QED BY <1>2, <1>3, <2>2 DEF u
<1>5. balances' = [streams |-> i, collectable |-> SumFunctionOnSet(c, Receivers)]
  <2>1. balances' = [streams |-> i, collectable |-> u - amt]
    BY <1>1, <1>2
  <2> QED BY <1>4, <2>1
<1>6. Holds(now, sender, receiver, balances', c)
  <2>1. /\ now \in 1..MaxTime
        /\ sender = [s \in Senders |-> sender[s]] /\ receiver = [q \in Receivers |-> receiver[q]]
        /\ \A s \in Senders : GoodSender(sender[s], s, now)
        /\ \A q \in Receivers : GoodReceiver(receiver[q], now)
        /\ \A s \in Senders : \A l \in sender[s].recv : Knows(receiver[l.to], l, sender[s], now)
        /\ \A q \in Receivers : AsDue(sender, receiver[q], q, now)
    BY DEF Core, Holds
  <2> QED BY <1>3, <1>5, <2>1 DEF Holds, i
<1> QED BY <1>1, <1>6 DEF Core
-----------------------------------------------------------------------------
(* The ledger: a second of a stream, and of a list of streams.             *)

\* The instance has its own copy of the sum.
LEMMA LedgerSum ==
  ASSUME NEW f, NEW S, DOMAIN f = S
  PROVE  Ledger!SumFunction(f) = SumFunctionOnSet(f, S)
<1>1. Ledger!SumFunction(f) = SumTable(f, S)[S]
  BY DEF Ledger!SumFunction, Ledger!SumFunctionOnSet, Ledger!FoldFunctionOnSet, Ledger!MapThenFoldSet,
         SumStep, First, SumTable
<1> QED BY <1>1, SumUnfolds

LEMMA PerSecondIs ==
  ASSUME NEW rate \in Nat, NEW t \in Nat
  PROVE  /\ Ledger!PerSecond(rate, t) = Upto(rate, t + 1) - Upto(rate, t)
         /\ Ledger!PerSecond(rate, t) \in Nat
<1> DEFINE n == t % CycleSecs
           k == CycleOf(t)
           full == (CycleSecs * rate) \div Multiplier
           within(u) == ((u % CycleSecs) * rate) \div Multiplier
           more == ((n + 1) * rate) \div Multiplier
<1>1. /\ full \in Nat /\ within(t) \in Nat /\ within(t + 1) \in Nat
      /\ Upto(rate, t) = (k - 1) * full + within(t)
      /\ Upto(rate, t + 1) = (CycleOf(t + 1) - 1) * full + within(t + 1)
      /\ k \in Nat => Upto(rate, k * CycleSecs) = k * full
  <2>1. t + 1 \in Nat
    OBVIOUS
  <2> QED BY <2>1, UptoParts
<1>2. /\ k \in Nat \ {0} /\ CycleOf(t + 1) \in Nat \ {0} /\ n \in 0..CycleSecs - 1
      /\ t = (k - 1) * CycleSecs + n
      /\ t + 1 = (CycleOf(t + 1) - 1) * CycleSecs + ((t + 1) % CycleSecs)
      /\ (k - 1) * CycleSecs \in Nat /\ t < k * CycleSecs
      /\ CycleSecs \in Nat /\ (t + 1) % CycleSecs \in Nat
      /\ k * CycleSecs = (k - 1) * CycleSecs + CycleSecs
  <2>1. t + 1 \in Nat /\ k \in Nat \ {0} /\ k \in Nat
    BY CycleIs
  <2>2. /\ CycleOf(t + 1) \in Nat \ {0}
        /\ t + 1 = (CycleOf(t + 1) - 1) * CycleSecs + ((t + 1) % CycleSecs)
        /\ (t + 1) % CycleSecs \in 0..CycleSecs - 1
    BY <2>1, CycleIs, TimeSplits
  <2>3. n \in 0..CycleSecs - 1 /\ t = (k - 1) * CycleSecs + n /\ t < k * CycleSecs
    BY CycleIs, TimeSplits
  <2>4. (k - 1) * CycleSecs \in Nat /\ k * CycleSecs = (k - 1) * CycleSecs + CycleSecs
    <3> HIDE DEF k
    <3> QED BY <2>1, BoundsAre
  <2>5. CycleSecs \in Nat /\ (t + 1) % CycleSecs \in Nat
    BY <2>2, Constants
  <2> QED BY <2>1, <2>2, <2>3, <2>4, <2>5
<1>3. Ledger!PerSecond(rate, t) = more - within(t)
  BY DEF Ledger!PerSecond
<1>4. Upto(rate, t) \in Nat /\ Upto(rate, t + 1) \in Nat /\ Upto(rate, t) <= Upto(rate, t + 1)
  <2>1. t + 1 \in Nat /\ t <= t + 1
    OBVIOUS
  <2> QED BY <2>1, UptoGrows, UptoIs
<1>5. CASE CycleOf(t + 1) = k
  <2>1. (t + 1) % CycleSecs = n + 1
    <3> DEFINE a == (k - 1) * CycleSecs
               b == (t + 1) % CycleSecs
    <3>1. t = a + n /\ t + 1 = a + b /\ a \in Nat /\ n \in Nat /\ b \in Nat
      BY <1>2, <1>5
    <3> HIDE DEF a, b, n, k
    <3> QED BY <3>1 DEF b
  <2>2. within(t + 1) = more
    BY <2>1
  <2> HIDE DEF within, more, full, k
  <2>3. (k - 1) * full \in Int
    BY <1>1, <1>2
  <2> DEFINE x == (k - 1) * full
  <2>4. Upto(rate, t) = x + within(t) /\ Upto(rate, t + 1) = x + more /\ x \in Int /\ more \in Int /\ within(t) \in Int
    BY <1>1, <1>5, <2>2, <2>3
  <2> HIDE DEF x
  <2> QED BY <1>3, <1>4, <2>4
<1>6. CASE CycleOf(t + 1) # k
  <2>1. t + 1 = k * CycleSecs
    <3>1. t + 1 \in Nat /\ t <= t + 1
      OBVIOUS
    <3>2. k <= CycleOf(t + 1)
      BY <3>1, CycleGrows
    <3> HIDE DEF k
    <3>3. k < CycleOf(t + 1) /\ k \in Nat \ {0}
      <4> DEFINE j == CycleOf(t + 1)
      <4>1. j \in Nat /\ k \in Nat \ {0} /\ j # k /\ k <= j
        BY <1>2, <1>6, <3>2
      <4> HIDE DEF j
      <4>2. k < j
        BY <4>1
      <4> QED BY <4>1, <4>2 DEF j
    <3>4. k * CycleSecs <= t + 1
      BY <3>1, <3>3, CycleBounds
    <3>5. k * CycleSecs \in Nat
      BY <1>2
    <3> QED BY <1>2, <3>4, <3>5
  <2>2. n + 1 = CycleSecs
    <3> DEFINE a == (k - 1) * CycleSecs
               b == k * CycleSecs
    <3>1. t = a + n /\ t + 1 = b /\ a \in Nat /\ n \in Nat /\ b = a + CycleSecs
      BY <1>2, <2>1
    <3> HIDE DEF a, b, n, k
    <3> QED BY <1>2, <3>1
  <2>3. more = full
    BY <2>2
  <2>4. Upto(rate, t + 1) = k * full
    BY <1>1, <1>2, <2>1
  <2> HIDE DEF within, more, full, k
  <2>5. k * full = (k - 1) * full + full /\ (k - 1) * full \in Int
    BY <1>1, <1>2
  <2> DEFINE x == (k - 1) * full
  <2>6. Upto(rate, t) = x + within(t) /\ Upto(rate, t + 1) = x + more /\ x \in Int /\ more \in Int /\ within(t) \in Int
    BY <1>1, <2>3, <2>4, <2>5
  <2> HIDE DEF x
  <2> QED BY <1>3, <1>4, <2>6
<1> QED BY <1>5, <1>6

\* What a stream pays in a second before the end is what the ledger has it pay.
LEMMA SecondFlows ==
  ASSUME NEW c, IsStream(c), NEW e, IsConfig(e), NEW t \in Nat, t < e.maxEnd,
         NEW p, p = Promise(c, e.updateTime)
  PROVE  /\ p.rate = c.rate /\ p.to = c.to
         /\ Flow(c, e, t, t + 1) = IF Ledger!Flows(p, t) THEN Ledger!PerSecond(p.rate, t) ELSE 0
         /\ Ledger!Over(p, t) => Flow(c, e, t, t + 1) = 0
<1> DEFINE S == Starts(c, e)
           E == Ends(c, e)
           l == c.duration
           m == e.maxEnd
           from == Larger(S, t)
           to == Larger(from, Lesser(E, t + 1))
<1>1. /\ S \in 0..Forever /\ l \in 0..Forever /\ c.rate \in Nat /\ E \in Nat /\ S \in Nat /\ l \in Nat
      /\ E = IF l = 0 \/ S + l > m THEN m ELSE S + l
      /\ m \in 0..Forever /\ Forever \in Nat /\ m \in Nat /\ m <= Forever
  BY StreamTimes, Constants DEF Ends, IsStream, IsConfig
<1>2. /\ p.rate = c.rate /\ p.to = c.to /\ p.from = S
      /\ p.until = IF l = 0 THEN Forever ELSE Lesser(S + l, Forever)
  BY DEF Promise, Starts
<1>3. t + 1 \in Nat
  OBVIOUS
<1>4. Flow(c, e, t, t + 1) = Upto(c.rate, to) - Upto(c.rate, from)
  BY <1>3, FlowIs
<1>5. E <= t \/ t + 1 <= S => Flow(c, e, t, t + 1) = 0
  BY <1>3, FlowNone
<1>6. t < E <=> t < p.until
  <2>1. t < m
    OBVIOUS
  <2> HIDE DEF S, E, l, m
  <2> QED BY <1>1, <1>2, <2>1 DEF Lesser
<1> HIDE DEF E, l, m
<1>7. Ledger!Flows(p, t) <=> S <= t /\ t < E
  BY <1>2, <1>6 DEF Ledger!Flows
<1>8. CASE S <= t /\ t < E
  <2>1. from = t /\ to = t + 1
    <3> HIDE DEF S
    <3> QED BY <1>1, <1>8 DEF Larger, Lesser
  <2>2. Flow(c, e, t, t + 1) = Upto(c.rate, t + 1) - Upto(c.rate, t)
    BY <1>4, <2>1
  <2>3. ~Ledger!Over(p, t)
    <3>1. p.until \in Nat
      <4> HIDE DEF S
      <4> QED BY <1>1, <1>2 DEF Lesser
    <3> HIDE DEF S
    <3> QED BY <1>1, <1>2, <1>6, <1>8, <3>1 DEF Ledger!Over
  <2> QED BY <1>1, <1>2, <1>7, <1>8, <2>2, <2>3, PerSecondIs
<1>9. CASE ~(S <= t /\ t < E)
  <2>1. E <= t \/ t + 1 <= S
    <3> HIDE DEF S
    <3> QED BY <1>1, <1>9
  <2> QED BY <1>2, <1>5, <1>7, <1>9, <2>1
<1> QED BY <1>8, <1>9

\* The second of some streams of a configuration.
LEMMA DueOfSome ==
  ASSUME NEW e, IsBook(e),
         NEW S \in SUBSET e.recv, NEW t \in Nat, t < e.maxEnd
  PROVE  Ledger!Due({Promise(c, e.updateTime) : c \in S}, t)
         = SumFunctionOnSet([c \in S |-> Flow(c, e, t, t + 1)], S)
<1> DEFINE g == [c \in S |-> Promise(c, e.updateTime)]
           h == [c \in S |-> Flow(c, e, t, t + 1)]
           I == {Promise(c, e.updateTime) : c \in S}
           J == {g[c] : c \in S}
           f == [p \in I |-> IF Ledger!Flows(p, t) THEN Ledger!PerSecond(p.rate, t) ELSE 0]
<1>1. IsFiniteSet(S) /\ IsConfig(e) /\ \A c \in S : IsStream(c)
  BY FS_Subset DEF IsBook
<1>2. ASSUME NEW c \in S, NEW d \in S, g[c] = g[d]
      PROVE  c = d
  <2>1. Promise(c, e.updateTime) = Promise(d, e.updateTime)
    BY <1>2
  <2> QED BY <2>1 DEF Promise
<1>3. ASSUME NEW c \in S
      PROVE  h[c] \in Int /\ f[g[c]] = h[c]
  <2>1. h[c] = Flow(c, e, t, t + 1) /\ g[c] = Promise(c, e.updateTime) /\ g[c] \in I
    OBVIOUS
  <2>2. Flow(c, e, t, t + 1) \in Nat
    <3>1. t + 1 \in Nat
      OBVIOUS
    <3> QED BY <1>1, <3>1, FlowIs
  <2>3. f[g[c]] = IF Ledger!Flows(g[c], t) THEN Ledger!PerSecond(g[c].rate, t) ELSE 0
    BY <2>1
  <2> HIDE DEF f, g, h
  <2>4. Flow(c, e, t, t + 1) = IF Ledger!Flows(g[c], t) THEN Ledger!PerSecond(g[c].rate, t) ELSE 0
    BY <1>1, <2>1, SecondFlows
  <2> QED BY <2>1, <2>2, <2>3, <2>4
<1>4. J = I
  OBVIOUS
<1>5. Ledger!Due(I, t) = SumFunctionOnSet(f, I)
  <2>1. DOMAIN f = I
    OBVIOUS
  <2>2. Ledger!Due(I, t) = Ledger!SumFunction(f)
    BY DEF Ledger!Due
  <2> HIDE DEF f, I
  <2> QED BY <2>1, <2>2, LedgerSum
<1>6. SumFunctionOnSet(f, J) = SumFunctionOnSet(h, S)
  <2> HIDE DEF f, g, h
  <2> QED BY <1>1, <1>2, <1>3, SumRenamed
<1> HIDE DEF f, I, J
<1> QED BY <1>4, <1>5, <1>6 DEF h, I

LEMMA DueIs ==
  ASSUME NEW e, IsBook(e), NEW t \in Nat, t < e.maxEnd
  PROVE  /\ Ledger!Due(Promised(e), t) = Spent(e, t, t + 1)
         /\ \A r : Ledger!Due(Ledger!To(r, Promised(e)), t) = Paid(e, r, t, t + 1)
<1>1. e.recv \in SUBSET e.recv
  OBVIOUS
<1>2. Ledger!Due(Promised(e), t) = Spent(e, t, t + 1)
  BY <1>1, DueOfSome DEF Promised, Spent
<1>3. ASSUME NEW r
      PROVE  Ledger!Due(Ledger!To(r, Promised(e)), t) = Paid(e, r, t, t + 1)
  <2>1. To(r, e.recv) \in SUBSET e.recv
    BY DEF To
  <2>2. Ledger!To(r, Promised(e)) = {Promise(c, e.updateTime) : c \in To(r, e.recv)}
    BY DEF Ledger!To, Promised, To, Promise
  <2> QED BY <2>1, <2>2, DueOfSome DEF Paid
<1> QED BY <1>2, <1>3
-----------------------------------------------------------------------------
(* The end computed ahead is where the ledger stops a sender.              *)

\* Windows before the end do not depend on the end.
LEMMA SpentBefore ==
  ASSUME NEW e, IsBook(e), NEW d, IsBook(d), e.recv = d.recv, e.updateTime = d.updateTime,
         NEW a \in Nat, NEW b \in Nat, b <= e.maxEnd, b <= d.maxEnd
  PROVE  Spent(e, a, b) = Spent(d, a, b)
<1>1. ASSUME NEW c \in e.recv
      PROVE  Flow(c, e, a, b) = Flow(c, d, a, b)
  <2> DEFINE S == Starts(c, e)
             l == c.duration
             E == Ends(c, e)
             D == Ends(c, d)
  <2>1. IsStream(c) /\ IsConfig(e) /\ IsConfig(d)
    BY DEF IsBook
  <2>2. S \in Nat /\ l \in Nat /\ e.maxEnd \in Nat /\ d.maxEnd \in Nat /\ Starts(c, d) = S
    <3>1. S \in 0..Forever /\ l \in 0..Forever /\ e.maxEnd \in 0..Forever /\ d.maxEnd \in 0..Forever
      BY <2>1, StreamTimes DEF IsStream, IsConfig
    <3> QED BY <3>1, Constants DEF Starts
  <2>3. /\ E = IF l = 0 \/ S + l > e.maxEnd THEN e.maxEnd ELSE S + l
        /\ D = IF l = 0 \/ S + l > d.maxEnd THEN d.maxEnd ELSE S + l
    BY <2>2 DEF Ends
  <2>4. Lesser(E, b) = Lesser(D, b)
    <3> HIDE DEF S, l, E, D
    <3> QED BY <2>2, <2>3 DEF Lesser
  <2>5. /\ Flow(c, e, a, b) = Upto(c.rate, Larger(Larger(S, a), Lesser(E, b))) - Upto(c.rate, Larger(S, a))
        /\ Flow(c, d, a, b) = Upto(c.rate, Larger(Larger(S, a), Lesser(D, b))) - Upto(c.rate, Larger(S, a))
    <3>1. Flow(c, e, a, b) = Upto(c.rate, Larger(Larger(Starts(c, e), a), Lesser(Ends(c, e), b)))
                             - Upto(c.rate, Larger(Starts(c, e), a))
      BY <2>1, FlowIs
    <3>2. Flow(c, d, a, b) = Upto(c.rate, Larger(Larger(Starts(c, d), a), Lesser(Ends(c, d), b)))
                             - Upto(c.rate, Larger(Starts(c, d), a))
      BY <2>1, FlowIs
    <3> QED BY <2>2, <3>1, <3>2
  <2> QED BY <2>4, <2>5
<1>2. [c \in e.recv |-> Flow(c, e, a, b)] = [c \in d.recv |-> Flow(c, d, a, b)]
  BY <1>1
<1> QED BY <1>2 DEF Spent

\* At its end a sender is exhausted: the balance is spent, or nothing is left
\* to pay for, or another second would cost more than what is left.
Tight(x) == /\ x.updateTime <= x.maxEnd
            /\ Ledger!Exhausted(Promised(x), Left(x, x.maxEnd), x.maxEnd)

AllTight == \A s \in Senders : Tight(sender[s])

\* What setStreams writes is tight: the search finds the last second that
\* the balance covers.
LEMMA EndIsTight ==
  ASSUME now \in 0..Forever, NEW s \in Senders, NEW list \in Lists[s], NEW balance \in Nat,
         NEW x, x.recv = list, x.updateTime = now, x.maxEnd = MaxEnd(balance, list), x.balance = balance
  PROVE  Tight(x)
<1> DEFINE m == MaxEnd(balance, list)
           Y(e) == [recv |-> list, updateTime |-> now, maxEnd |-> e]
           S == {e \in now..Forever : IsBalanceEnough(balance, list, e)}
           z == [updateTime |-> now, maxEnd |-> Forever]
           idle == \A c \in list : InFuture(c, now, Forever).from = InFuture(c, now, Forever).to
<1>1. now \in Nat /\ Forever \in Nat /\ m \in 0..Forever /\ m \in Nat /\ now <= m /\ list \in Books(s)
      /\ Spent(Y(m), now, m) <= balance
  <2>1. m \in 0..Forever /\ now <= m /\ Spent(Y(m), now, m) <= balance
    BY MaxEndIs
  <2> HIDE DEF m
  <2> QED BY <2>1, Constants DEF Books
<1>2. IsBook(x)
  <2>1. x.recv \in Books(s) /\ x.updateTime \in 0..Forever /\ x.maxEnd \in 0..Forever
    BY <1>1
  <2> QED BY <2>1, BooksAre
<1>3. ASSUME NEW e \in now..Forever
      PROVE  IsBook(Y(e)) /\ (IsBalanceEnough(balance, list, e) <=> Spent(Y(e), now, e) <= balance)
  <2> DEFINE y == Y(e)
  <2>1. y.recv = list /\ y.updateTime = now /\ y.maxEnd = e /\ e \in 0..Forever /\ now <= e
    BY <1>1
  <2> HIDE DEF y
  <2>2. IsBook(y)
    BY <1>1, <2>1, BooksAre
  <2>3. IsBalanceEnough(balance, list, e) <=> Spent(y, now, e) <= balance
    BY <2>1, <2>2, EnoughIs
  <2> QED BY <2>2, <2>3 DEF y
<1>4. Left(x, m) = balance - Spent(x, now, m) /\ Spent(x, now, m) \in Nat /\ Spent(x, now, m) <= balance
  <2>1. Spent(x, now, m) = Spent(Y(m), now, m)
    BY DEF Spent, Flow
  <2>2. Spent(x, now, m) \in Nat
    <3> HIDE DEF m
    <3> QED BY <1>1, <1>2, SpentIs
  <2> QED BY <1>1, <2>1, <2>2 DEF Left
<1>5. x.updateTime <= x.maxEnd
  BY <1>1
<1>6. CASE balance = 0
  <2>1. Left(x, m) = 0
    <3> HIDE DEF m
    <3> QED BY <1>4, <1>6
  <2> QED BY <1>5, <2>1 DEF Tight, Ledger!Exhausted
<1>7. CASE balance # 0 /\ idle
  <2>1. m = now
    BY <1>7 DEF MaxEnd
  <2>2. ASSUME NEW c \in x.recv
        PROVE  Ledger!Over(Promise(c, x.updateTime), m)
    <3> DEFINE p == Promise(c, x.updateTime)
               b == Starts(c, z)
               l == c.duration
               E == Ends(c, z)
    <3>1. IsConfig(z) /\ z.updateTime = now /\ z.maxEnd = Forever
      BY <1>1 DEF IsConfig
    <3>2. IsStream(c)
      BY <1>2 DEF IsBook
    <3>3. InFuture(c, now, Forever) = Future(c, z, now)
      BY <3>1 DEF InFuture, Future
    <3> HIDE DEF z
    <3>4. Larger(b, now) = Larger(Larger(b, now), E)
      <4>1. Future(c, z, now).from = Larger(b, now) /\ Future(c, z, now).to = Larger(Larger(b, now), E)
        BY <1>1, <3>1, <3>2, FutureIs
      <4> QED BY <1>7, <3>3, <4>1
    <3>5. b \in Nat /\ l \in Nat /\ E = IF l = 0 \/ b + l > Forever THEN Forever ELSE b + l
      <4>1. b \in 0..Forever /\ l \in 0..Forever
        BY <3>1, <3>2, StreamTimes DEF IsStream
      <4> QED BY <1>1, <3>1, <4>1 DEF Ends
    <3>6. p.from = b /\ p.until = IF l = 0 THEN Forever ELSE Lesser(b + l, Forever)
      BY <3>1 DEF Promise, Starts
    <3> HIDE DEF p, b, l, E
    <3>7. p.until <= now \/ p.until <= p.from
      BY <1>1, <3>4, <3>5, <3>6 DEF Larger, Lesser
    <3> QED BY <2>1, <3>7 DEF p, Ledger!Over
  <2>3. \A c \in Promised(x) : Ledger!Over(c, m)
    BY <2>2 DEF Promised
  <2> QED BY <1>5, <2>3 DEF Tight, Ledger!Exhausted
<1>8. CASE balance # 0 /\ ~idle
  <2>1. m = Max(S)
    BY <1>8 DEF MaxEnd
  <2>2. \A e \in S : e <= m
    <3>1. now \in S
      <4>1. now \in now..Forever /\ IsBook(Y(now))
        BY <1>1, <1>3
      <4>2. Spent(Y(now), now, now) = 0
        <5> HIDE DEF Y
        <5> QED BY <1>1, <4>1, SpentIs
      <4> HIDE DEF Y
      <4> QED BY <1>3, <4>1, <4>2
    <3>2. S \subseteq 0..Forever /\ S # {}
      BY <1>1, <3>1
    <3> HIDE DEF S, m
    <3> QED BY <1>1, <2>1, <3>2, MaxIs
  <2>3. CASE m = Forever
    <3>1. ASSUME NEW c \in x.recv
          PROVE  Ledger!Over(Promise(c, x.updateTime), m)
      <4> DEFINE p == Promise(c, x.updateTime)
                 b == Starts(c, x)
      <4>1. b \in 0..Forever /\ c.duration \in 0..Forever
        BY <1>2, StreamTimes DEF IsBook, IsStream
      <4>2. p.until = IF c.duration = 0 THEN Forever ELSE Lesser(b + c.duration, Forever)
        BY DEF Promise, Starts
      <4> HIDE DEF p, b, m
      <4>3. p.until <= m
        BY <1>1, <2>3, <4>1, <4>2 DEF Lesser
      <4> QED BY <4>3 DEF Ledger!Over, p
    <3>2. \A c \in Promised(x) : Ledger!Over(c, m)
      BY <3>1 DEF Promised
    <3> QED BY <1>5, <3>2 DEF Tight, Ledger!Exhausted
  <2>4. CASE m # Forever
    <3> DEFINE n == m + 1
               y == Y(n)
    <3>1. n \in now..Forever /\ n \in Nat /\ m < n
      <4> HIDE DEF m
      <4> QED BY <1>1, <2>4
    <3>2. n \notin S
      <4> HIDE DEF m, S
      <4> QED BY <1>1, <2>2
    <3>3. IsBook(y) /\ ~(Spent(y, now, n) <= balance)
      BY <1>3, <3>1, <3>2
    <3>4. /\ y.recv = x.recv /\ y.updateTime = now /\ y.maxEnd = n
          /\ Promised(y) = Promised(x)
      BY DEF Promised
    <3> HIDE DEF y, m, Y, n
    <3>5. Spent(y, now, n) = Spent(y, now, m) + Spent(y, m, n)
      BY <1>1, <3>1, <3>3, SpentSplits
    <3>6. Spent(y, now, m) = Spent(x, now, m)
      <4>1. m <= x.maxEnd /\ m <= y.maxEnd
        BY <1>1, <3>1, <3>4 DEF m
      <4> QED BY <1>1, <1>2, <3>3, <3>4, <4>1, SpentBefore
    <3>7. Ledger!Due(Promised(y), m) = Spent(y, m, n)
      <4>1. m < y.maxEnd
        BY <3>1, <3>4
      <4>2. Ledger!Due(Promised(y), m) = Spent(y, m, m + 1)
        BY <1>1, <3>3, <3>4, <4>1, DueIs
      <4> QED BY <4>2 DEF n
    <3>8. Spent(y, m, n) \in Nat
      BY <1>1, <3>1, <3>3, SpentIs
    <3>9. Ledger!Due(Promised(x), m) > Left(x, m)
      BY <1>4, <3>3, <3>4, <3>5, <3>6, <3>7, <3>8
    <3> QED BY <1>5, <3>9 DEF Tight, Ledger!Exhausted, m
  <2> QED BY <2>3, <2>4
<1> QED BY <1>6, <1>7, <1>8

\* A sender is stopped at second t.
Stopped(x, t) == Left(x, t) = 0 \/ t >= x.maxEnd \/ \A c \in Promised(x) : Ledger!Over(c, t)

\* Until its end, a sender is stopped when the ledger finds it exhausted.
LEMMA StoppedIs ==
  ASSUME NEW s \in Senders, NEW t \in Nat, NEW x, GoodSender(x, s, t), Tight(x), t <= x.maxEnd
  PROVE  Stopped(x, t) <=> Ledger!Exhausted(Promised(x), Left(x, t), t)
<1>1. IsBook(x) /\ x.maxEnd \in Nat
  <2>1. x.recv \in Books(s) /\ x.updateTime \in 0..Forever /\ x.maxEnd \in 0..Forever
    BY SenderIs
  <2> QED BY <2>1, BooksAre, Constants
<1>2. CASE t < x.maxEnd
  <2>1. Ledger!Due(Promised(x), t) = Spent(x, t, t + 1)
    BY <1>1, <1>2, DueIs
  <2>2. Left(x, t) = Left(x, t + 1) + Spent(x, t, t + 1) /\ Spent(x, t, t + 1) \in Nat
    BY SenderLater
  <2>3. Left(x, t + 1) \in Nat
    <3>1. t + 1 \in Nat
      OBVIOUS
    <3> QED BY <3>1, BalanceIs
  <2>4. ~(Ledger!Due(Promised(x), t) > Left(x, t))
    BY <2>1, <2>2, <2>3
  <2>5. ~(t >= x.maxEnd)
    BY <1>1, <1>2
  <2> QED BY <2>4, <2>5 DEF Stopped, Ledger!Exhausted
<1>3. CASE t = x.maxEnd
  <2>1. t >= x.maxEnd
    BY <1>1, <1>3
  <2>2. Ledger!Exhausted(Promised(x), Left(x, t), t)
    BY <1>3 DEF Tight
  <2> QED BY <2>1, <2>2 DEF Stopped
<1> QED BY <1>1, <1>2, <1>3

\* Who is stopped pays nothing and stays stopped.
LEMMA StoppedStays ==
  ASSUME NEW s \in Senders, NEW t \in Nat, NEW x, GoodSender(x, s, t), Stopped(x, t)
  PROVE  /\ Spent(x, t, t + 1) = 0
         /\ \A r : Paid(x, r, t, t + 1) = 0
         /\ Left(x, t + 1) = Left(x, t)
         /\ Stopped(x, t + 1)
<1> DEFINE f == [c \in x.recv |-> Flow(c, x, t, t + 1)]
<1>1. /\ IsBook(x) /\ x.maxEnd \in Nat /\ t + 1 \in Nat
      /\ IsFiniteSet(x.recv) /\ IsConfig(x) /\ \A c \in x.recv : IsStream(c)
  BY SenderIs, Constants DEF IsBook
<1>2. \A c \in x.recv : f[c] = Flow(c, x, t, t + 1) /\ f[c] \in Nat
  BY <1>1, FlowIs
<1>3. Spent(x, t, t + 1) = SumFunctionOnSet(f, x.recv)
  BY DEF Spent
<1>4. Left(x, t) = Left(x, t + 1) + Spent(x, t, t + 1) /\ Spent(x, t, t + 1) \in Nat
      /\ Left(x, t + 1) \in Nat
  BY <1>1, SenderLater, BalanceIs
<1> HIDE DEF f
<1>5. Spent(x, t, t + 1) = 0
  <2>1. CASE Left(x, t) = 0
    BY <1>4, <2>1
  <2>2. CASE t >= x.maxEnd
    <3>1. \A c \in x.recv : f[c] = 0
      <4> TAKE c \in x.recv
      <4>1. Ends(c, x) <= t
        <5>1. Ends(c, x) \in 0..Forever /\ Ends(c, x) <= x.maxEnd
          BY <1>1, StreamTimes
        <5> QED BY <1>1, <2>2, <5>1
      <4> QED BY <1>1, <1>2, <4>1, FlowNone
    <3> QED BY <1>1, <1>3, <3>1, SumZero
  <2>3. CASE t < x.maxEnd /\ \A c \in Promised(x) : Ledger!Over(c, t)
    <3>1. \A c \in x.recv : f[c] = 0
      <4> TAKE c \in x.recv
      <4>1. Ledger!Over(Promise(c, x.updateTime), t)
        BY <2>3 DEF Promised
      <4>2. Flow(c, x, t, t + 1) = 0
        BY <1>1, <2>3, <4>1, SecondFlows
      <4> QED BY <1>2, <4>2
    <3> QED BY <1>1, <1>3, <3>1, SumZero
  <2> QED BY <1>1, <2>1, <2>2, <2>3 DEF Stopped
<1>6. Left(x, t + 1) = Left(x, t)
  BY <1>4, <1>5
<1>7. ASSUME NEW r
      PROVE  Paid(x, r, t, t + 1) = 0
  <2>1. \A c \in x.recv : f[c] = 0
    <3> TAKE c \in x.recv
    <3>1. f[c] <= SumFunctionOnSet(f, x.recv)
      BY <1>1, <1>2, SumNat
    <3>2. f[c] \in Nat
      BY <1>2
    <3> QED BY <1>3, <1>5, <3>1, <3>2
  <2> DEFINE g == [c \in To(r, x.recv) |-> Flow(c, x, t, t + 1)]
  <2>2. \A c \in To(r, x.recv) : g[c] = 0
    BY <1>2, <2>1 DEF To
  <2>3. IsFiniteSet(To(r, x.recv))
    BY <1>1, ToIs
  <2>4. Paid(x, r, t, t + 1) = SumFunctionOnSet(g, To(r, x.recv))
    BY DEF Paid
  <2> HIDE DEF g
  <2> QED BY <2>2, <2>3, <2>4, SumZero
<1>8. Stopped(x, t + 1)
  <2>1. CASE Left(x, t) = 0
    BY <1>6, <2>1 DEF Stopped
  <2>2. CASE t >= x.maxEnd
    <3>1. t + 1 >= x.maxEnd
      BY <1>1, <2>2
    <3> QED BY <3>1 DEF Stopped
  <2>3. CASE \A c \in Promised(x) : Ledger!Over(c, t)
    <3>1. ASSUME NEW c \in Promised(x)
          PROVE  Ledger!Over(c, t + 1)
      <4>1. c.until \in Nat /\ c.from \in Nat
        <5>1. PICK d \in x.recv : c = Promise(d, x.updateTime)
          BY DEF Promised
        <5>2. IsStream(d) /\ IsConfig(x) /\ Starts(d, x) \in 0..Forever /\ d.duration \in 0..Forever
          BY <1>1, StreamTimes DEF IsStream
        <5> DEFINE b == Starts(d, x)
        <5>3. c.from = b /\ c.until = IF d.duration = 0 THEN Forever ELSE Lesser(b + d.duration, Forever)
          BY <5>1 DEF Promise, Starts
        <5> HIDE DEF b
        <5> QED BY <5>2, <5>3, Constants DEF Lesser, b
      <4>2. c.until <= t \/ c.until <= c.from
        BY <2>3 DEF Ledger!Over
      <4> QED BY <4>1, <4>2 DEF Ledger!Over
    <3> QED BY <3>1 DEF Stopped
  <2> QED BY <2>1, <2>2, <2>3 DEF Stopped
<1> QED BY <1>5, <1>6, <1>7, <1>8
-----------------------------------------------------------------------------
(* A sender's streams are configured.                                      *)

\* What one sender's new configuration, from x to y, does to one receiver.
Redirected(d, e, x, y, r) ==
    \A k \in Nat \ {0} :
      /\ Cumulated(d, k) \in Int
      /\ Cumulated(e, k) = IF CycleOf(now) <= k
                           THEN Cumulated(d, k) - Coming(x, r, now, k) + Coming(y, r, now, k)
                           ELSE Cumulated(d, k)

LEMMA DueConfigured ==
  ASSUME Core, NEW s \in Senders, NEW x, x = sender[s], NEW y, GoodSender(y, s, now),
         y.updateTime = now, y.currCycleConfigs = Configs(x),
         NEW e, y.history = Append(x.history, e), e.updateTime = now,
         NEW snd, snd[s] = y, \A z \in Senders \ {s} : snd[z] = sender[z],
         NEW r \in Receivers, NEW p, p = receiver[r], NEW after,
         after.nextSqueezed = p.nextSqueezed,
         Redirected(p.amtDeltas, after.amtDeltas, x, y, r)
  PROVE  /\ AsDue(snd, after, r, now)
         /\ Owed(snd, after, r, now) = Owed(sender, p, r, now)
<1> DEFINE q == p.nextSqueezed
           C == CycleOf(now)
<1>1. /\ now \in 0..Forever /\ now \in Nat /\ C \in Nat \ {0} /\ IsFiniteSet(Senders)
      /\ \A z \in Senders : GoodSender(sender[z], z, now)
      /\ GoodReceiver(p, now) /\ AsDue(sender, p, r, now)
      /\ \A z \in Senders : snd[z] = IF z = s THEN y ELSE sender[z]
  <2>1. \A z \in Senders : snd[z] = IF z = s THEN y ELSE sender[z]
    OBVIOUS
  <2> QED BY <2>1, CoreIs, Constants
<1>2. GoodSender(x, s, now) /\ q[s] \in Rows(s, now)
  BY <1>1, ReceiverIs
<1> HIDE DEF q
<1>3. Open(y, q[s], r, now) = Open(x, q[s], r, now)
  <2> DEFINE c == q[s]
  <2>1. c \in Rows(s, now)
    BY <1>2
  <2> HIDE DEF c
  <2>2. Open(y, c, r, now) = Open(x, c, r, now)
    BY <1>1, <1>2, <2>1, OpenConfigured
  <2> QED BY <2>2 DEF c
<1>4. ASSUME NEW z \in Senders
      PROVE  Open(sender[z], q[z], r, now) \in Nat
  <2> HIDE DEF C
  <2> QED BY <1>1, DuesAre DEF q
<1>5. ASSUME NEW k \in Nat \ {0}
      PROVE  /\ Dues(snd, after, r, now, k)
                = Dues(sender, p, r, now, k) - Coming(x, r, now, k) + Coming(y, r, now, k)
             /\ Dues(sender, p, r, now, k) \in Nat
             /\ Coming(x, r, now, k) \in Nat /\ Coming(y, r, now, k) \in Nat
  <2> DEFINE f == [z \in Senders |-> Due(sender[z], q[z], r, now, k)]
             h == [z \in Senders |-> Due(snd[z], q[z], r, now, k)]
             a == Coming(x, r, now, k)
             b == Coming(y, r, now, k)
             o == IF k = C THEN Open(x, q[s], r, now) ELSE 0
  <2>1. \A z \in Senders : f[z] \in Nat
    <3> HIDE DEF C
    <3> QED BY <1>1, DuesAre DEF q
  <2>2. \A z \in Senders \ {s} : h[z] = f[z]
    BY <1>1
  <2>3. a \in Nat /\ b \in Nat
    <3>1. IsBook(x) /\ IsBook(y)
      BY <1>1, <1>2, SenderIs
    <3> QED BY <1>1, <3>1, ComingIs
  <2>4. f[s] = a + o /\ h[s] = b + o /\ o \in Nat
    <3>1. f[s] = Due(x, q[s], r, now, k) /\ h[s] = Due(y, q[s], r, now, k)
      BY <1>1
    <3>2. Due(x, q[s], r, now, k) = a + o
      BY DEF Due
    <3>3. Due(y, q[s], r, now, k) = b + o
      BY <1>3 DEF Due
    <3>4. Open(x, q[s], r, now) \in Nat
      BY <1>4
    <3>5. o \in Nat
      BY <3>4
    <3> QED BY <3>1, <3>2, <3>3, <3>5
  <2>5. Dues(sender, p, r, now, k) = SumFunctionOnSet(f, Senders)
        /\ Dues(snd, after, r, now, k) = SumFunctionOnSet(h, Senders)
    BY DEF Dues, q
  <2> HIDE DEF f, h, a, b, o
  <2>6. f[s] \in Int /\ h[s] \in Int /\ \A z \in Senders : f[z] \in Int
    BY <2>1, <2>3, <2>4
  <2>7. SumFunctionOnSet(h, Senders) = SumFunctionOnSet(f, Senders) - f[s] + h[s]
    <3>1. IsFiniteSet(Senders) /\ s \in Senders
      BY <1>1
    <3>2. f[s] \in Int /\ h[s] \in Int
      BY <2>6
    <3>3. \A z \in Senders : f[z] \in Int
      BY <2>6
    <3> QED BY ONLY <2>2, <3>1, <3>2, <3>3, SumPut
  <2>8. SumFunctionOnSet(f, Senders) \in Nat
    BY <1>1, <2>1, SumNat
  <2>9. Dues(snd, after, r, now, k) = Dues(sender, p, r, now, k) - a + b
    BY <2>3, <2>4, <2>5, <2>7, <2>8
  <2> QED BY <2>3, <2>5, <2>8, <2>9 DEF a, b
<1>6. AsDue(snd, after, r, now)
  <2> SUFFICES ASSUME NEW k \in Nat \ {0}, CycleOf(now) <= k
               PROVE  Cumulated(after.amtDeltas, k) = Dues(snd, after, r, now, k)
    BY DEF AsDue
  <2>1. Cumulated(p.amtDeltas, k) = Dues(sender, p, r, now, k)
    BY <1>1 DEF AsDue
  <2>2. Cumulated(after.amtDeltas, k) = Cumulated(p.amtDeltas, k) - Coming(x, r, now, k) + Coming(y, r, now, k)
    BY DEF Redirected
  <2> QED BY <1>5, <2>1, <2>2
<1>7. Past(after.amtDeltas, now) = Past(p.amtDeltas, now)
  <2>1. ASSUME NEW k \in 1..CycleOf(now) - 1
        PROVE  Cumulated(after.amtDeltas, k) = Cumulated(p.amtDeltas, k)
    <3>1. k \in Nat \ {0} /\ ~(CycleOf(now) <= k)
      BY <1>1
    <3> QED BY <3>1 DEF Redirected
  <2>2. [k \in 1..CycleOf(now) - 1 |-> Cumulated(after.amtDeltas, k)]
        = [k \in 1..CycleOf(now) - 1 |-> Cumulated(p.amtDeltas, k)]
    BY <2>1
  <2> QED BY <2>2 DEF Past
<1>8. Opens(snd, after, r, now) = Opens(sender, p, r, now)
  <2>1. ASSUME NEW z \in Senders
        PROVE  Open(snd[z], q[z], r, now) = Open(sender[z], q[z], r, now)
    <3>1. CASE z = s
      BY <1>1, <1>3, <3>1
    <3>2. CASE z # s
      BY <1>1, <3>2
    <3> QED BY <3>1, <3>2
  <2>2. [z \in Senders |-> Open(snd[z], q[z], r, now)] = [z \in Senders |-> Open(sender[z], q[z], r, now)]
    BY <2>1
  <2> QED BY <2>2 DEF Opens, q
<1>9. Owed(snd, after, r, now) = Owed(sender, p, r, now)
  BY <1>7, <1>8 DEF Owed
<1> QED BY <1>6, <1>9

LEMMA ConfigureKeeps ==
  ASSUME Core, NEW s \in Senders, NEW balanceDelta \in BalanceDeltas, NEW list \in Lists[s],
         setStreams(s, balanceDelta, list)
  PROVE  /\ Core'
         /\ \A r \in Receivers : Owed(sender', receiver'[r], r, now) = Owed(sender, receiver[r], r, now)
         /\ \A z \in Senders \ {s} : sender'[z] = sender[z]
         /\ sender'[s].updateTime = now /\ Tight(sender'[s])
<1> DEFINE x == sender[s]
           real == RealDelta(x, balanceDelta)
           funds == BalanceAt(x, now) + real
           end == MaxEnd(funds, list)
           e == [recv |-> list, updateTime |-> now, maxEnd |-> end]
           y == [recv |-> list, updateTime |-> now, maxEnd |-> end, balance |-> funds,
                 currCycleConfigs |-> Configs(x), history |-> Append(x.history, e)]
           snd == [sender EXCEPT ![s] = y]
<1>0. PICK pairs \in Pairings(x.recv, list) :
        receiver' = [r \in Receivers |-> Updated(receiver[r], r, x, list, pairs, end)]
  BY DEF setStreams
<1> DEFINE rcv == [r \in Receivers |-> Updated(receiver[r], r, x, list, pairs, end)]
<1>1. /\ Len(x.history) < MaxConfigs[s]
      /\ sender' = snd /\ receiver' = rcv
      /\ balances' = [balances EXCEPT !.streams = @ + real]
      /\ now' = now /\ collectableAmts' = collectableAmts
  BY <1>0 DEF setStreams
<1>2. /\ now \in 1..MaxTime /\ now \in 0..Forever /\ now \in Nat /\ CycleOf(now) \in Nat \ {0}
      /\ sender = [z \in Senders |-> sender[z]] /\ receiver = [r \in Receivers |-> receiver[r]]
      /\ \A z \in Senders : GoodSender(sender[z], z, now)
      /\ \A r \in Receivers : GoodReceiver(receiver[r], now)
      /\ collectableAmts \in [Receivers -> Nat]
      /\ IsFiniteSet(Senders) /\ IsFiniteSet(Receivers)
      /\ GoodSender(x, s, now)
  BY CoreIs, Constants
<1>3. BalanceAt(x, now) = Left(x, now) /\ Left(x, now) \in Nat /\ real \in Int /\ funds \in Nat
  <2>1. BalanceAt(x, now) = Left(x, now) /\ Left(x, now) \in Nat
    <3> HIDE DEF x
    <3> QED BY <1>2, BalanceIs
  <2>2. balanceDelta \in Int
    BY StreamsAssumption
  <2> DEFINE b == BalanceAt(x, now)
  <2>3. real = Larger(balanceDelta, -b) /\ funds = b + real
    BY DEF RealDelta
  <2>4. b \in Nat
    BY <2>1
  <2> HIDE DEF b, real, funds
  <2> QED BY <2>1, <2>2, <2>3, <2>4 DEF Larger
<1>4. /\ y.recv = list /\ y.updateTime = now /\ y.maxEnd = end /\ y.currCycleConfigs = Configs(x)
      /\ y.history = Append(x.history, e) /\ e.updateTime = now
      /\ GoodSender(y, s, now) /\ Left(y, now) = funds
  <2>1. /\ y.recv = list /\ y.updateTime = now /\ y.maxEnd = end /\ y.currCycleConfigs = Configs(x)
        /\ y.history = Append(x.history, e) /\ e.updateTime = now
    OBVIOUS
  <2>2. e = [recv |-> list, updateTime |-> now, maxEnd |-> MaxEnd(funds, list)]
    OBVIOUS
  <2>3. y = [recv |-> list, updateTime |-> now, maxEnd |-> MaxEnd(funds, list), balance |-> funds,
             currCycleConfigs |-> Configs(x), history |-> Append(x.history, e)]
    OBVIOUS
  <2> HIDE DEF e, y, funds, x
  <2>4. GoodSender(y, s, now) /\ Left(y, now) = funds
    BY <1>1, <1>2, <1>3, <2>2, <2>3, ConfiguredIs
  <2> QED BY <2>1, <2>4
<1> HIDE DEF real, funds, end, e, y
<1>5. IsBook(x) /\ IsBook(y)
  <2> HIDE DEF x
  <2>1. /\ x.recv \in Books(s) /\ x.updateTime \in 0..Forever /\ x.maxEnd \in 0..Forever
        /\ y.recv \in Books(s) /\ y.updateTime \in 0..Forever /\ y.maxEnd \in 0..Forever
    BY <1>2, <1>4, SenderIs
  <2> QED BY <2>1, BooksAre
<1>6. ASSUME NEW z \in Senders, NEW l \in sender[z].recv
      PROVE  l.to \in Receivers /\ Knows(receiver[l.to], l, sender[z], now)
  <2>1. Knows(receiver[l.to], l, sender[z], now)
    BY DEF Core, Holds
  <2>2. IsBook(sender[z])
    BY <1>2, SenderIs
  <2> QED BY <2>1, <2>2 DEF IsBook, IsStream
<1>7. ASSUME NEW r \in Receivers
      PROVE  /\ GoodReceiver(rcv[r], now)
             /\ rcv[r].nextSqueezed = receiver[r].nextSqueezed
             /\ Redirected(receiver[r].amtDeltas, rcv[r].amtDeltas, x, y, r)
             /\ \A c \in To(r, y.recv) : Knows(rcv[r], c, y, now)
             /\ receiver[r].nextReceivableCycle # 0 =>
                  rcv[r].nextReceivableCycle \in 1..receiver[r].nextReceivableCycle
  <2> DEFINE p == receiver[r]
             after == Updated(p, r, x, y.recv, pairs, y.maxEnd)
  <2>1. GoodReceiver(p, now)
    BY <1>2
  <2>2. \A c \in To(r, x.recv) : Knows(p, c, x, now)
    BY <1>6 DEF To
  <2>3. rcv[r] = after
    BY <1>4
  <2> HIDE DEF p, x, rcv
  <2>4. /\ GoodReceiver(after, now)
        /\ after.nextSqueezed = p.nextSqueezed
        /\ Redirected(p.amtDeltas, after.amtDeltas, x, y, r)
        /\ \A c \in To(r, y.recv) : Knows(after, c, y, now)
        /\ p.nextReceivableCycle # 0 => after.nextReceivableCycle \in 1..p.nextReceivableCycle
    <3>1. pairs \in Pairings(x.recv, y.recv)
      BY <1>4
    <3> QED BY <1>2, <1>4, <1>5, <2>1, <2>2, <3>1, UpdatedIs DEF Redirected
  <2> HIDE DEF after
  <2> QED BY ONLY <2>3, <2>4 DEF p
<1>8. \A z \in Senders : snd[z] = IF z = s THEN y ELSE sender[z]
  BY <1>2
<1>9. snd = [z \in Senders |-> snd[z]] /\ rcv = [r \in Receivers |-> rcv[r]]
  BY <1>2
<1>10. ASSUME NEW r \in Receivers
       PROVE  AsDue(snd, rcv[r], r, now) /\ Owed(snd, rcv[r], r, now) = Owed(sender, receiver[r], r, now)
  <2> DEFINE p == receiver[r]
             after == rcv[r]
  <2>1. x = sender[s] /\ p = receiver[r] /\ snd[s] = y /\ \A z \in Senders \ {s} : snd[z] = sender[z]
    <3> HIDE DEF snd
    <3> QED BY <1>8
  <2>2. after.nextSqueezed = p.nextSqueezed /\ Redirected(p.amtDeltas, after.amtDeltas, x, y, r)
    <3> HIDE DEF x, rcv
    <3> QED BY <1>7
  <2> HIDE DEF p, after, x, snd, rcv
  <2>3. AsDue(snd, after, r, now) /\ Owed(snd, after, r, now) = Owed(sender, p, r, now)
    <3>1. Core /\ s \in Senders /\ r \in Receivers
      OBVIOUS
    <3>2. GoodSender(y, s, now) /\ y.updateTime = now /\ y.currCycleConfigs = Configs(x)
      BY <1>4
    <3>3. y.history = Append(x.history, e) /\ e.updateTime = now
      BY <1>4
    <3> QED BY ONLY <2>1, <2>2, <3>1, <3>2, <3>3, DueConfigured
  <2> QED BY <2>3 DEF p, after
<1> HIDE DEF rcv
<1>11. ASSUME NEW z \in Senders, NEW l \in snd[z].recv
       PROVE  Knows(rcv[l.to], l, snd[z], now)
  <2>1. CASE z = s
    <3>1. snd[z] = y /\ l \in y.recv
      BY <1>8, <2>1
    <3>2. l.to \in Receivers
      BY <1>5, <3>1 DEF IsBook, IsStream
    <3>3. l \in To(l.to, y.recv)
      BY <3>1 DEF To
    <3> HIDE DEF snd
    <3> QED BY <1>7, <3>1, <3>2, <3>3
  <2>2. CASE z # s
    <3>1. snd[z] = sender[z] /\ l \in sender[z].recv
      BY <1>8, <2>2
    <3> DEFINE n == receiver[l.to].nextReceivableCycle
               m == rcv[l.to].nextReceivableCycle
               a == CycleOf(Future(l, sender[z], now).from)
    <3>2. l.to \in Receivers /\ n \in 1..a
      BY <1>6, <3>1 DEF Knows
    <3>3. n # 0 => m \in 1..n
      BY <1>7, <3>2
    <3>4. a \in Nat
      <4>1. IsBook(sender[z])
        BY <1>2, SenderIs
      <4>2. IsConfig(sender[z]) /\ IsStream(l)
        BY <3>1, <4>1 DEF IsBook
      <4>3. a \in Cycles
        BY <1>2, <4>2, FutureIs
      <4> QED BY <4>3, CyclesAre
    <3> HIDE DEF n, m, a
    <3>5. m \in 1..a
      BY <3>2, <3>3, <3>4
    <3> QED BY <3>1, <3>5 DEF Knows, m, a
  <2> QED BY <2>1, <2>2
<1>12. Lefts(snd, now) = Lefts(sender, now) + real /\ Lefts(sender, now) \in Nat
  <2> DEFINE f == [z \in Senders |-> Left(sender[z], now)]
             h == [z \in Senders |-> Left(snd[z], now)]
  <2>1. \A z \in Senders : f[z] \in Nat
    BY <1>2, BalanceIs
  <2>2. \A z \in Senders \ {s} : h[z] = f[z]
    BY <1>8
  <2>3. f[s] = Left(x, now) /\ h[s] = funds
    BY <1>4, <1>8
  <2>4. Lefts(sender, now) = SumFunctionOnSet(f, Senders) /\ Lefts(snd, now) = SumFunctionOnSet(h, Senders)
    BY DEF Lefts
  <2>5. funds = Left(x, now) + real
    BY <1>3 DEF funds
  <2> HIDE DEF f, h, x
  <2>6. f[s] \in Int /\ h[s] \in Int /\ \A z \in Senders : f[z] \in Int
    BY <1>3, <2>1, <2>3
  <2>7. SumFunctionOnSet(h, Senders) = SumFunctionOnSet(f, Senders) - f[s] + h[s]
    <3>1. IsFiniteSet(Senders) /\ s \in Senders
      BY <1>2
    <3>2. f[s] \in Int /\ h[s] \in Int
      BY <2>6
    <3>3. \A z \in Senders : f[z] \in Int
      BY <2>6
    <3> QED BY ONLY <2>2, <3>1, <3>2, <3>3, SumPut
  <2>8. SumFunctionOnSet(f, Senders) \in Nat
    BY <1>2, <2>1, SumNat
  <2> QED BY <1>3, <2>3, <2>4, <2>5, <2>7, <2>8
<1>13. Oweds(snd, rcv, now) = Oweds(sender, receiver, now) /\ Oweds(sender, receiver, now) \in Nat
  <2>1. [r \in Receivers |-> Owed(snd, rcv[r], r, now)] = [r \in Receivers |-> Owed(sender, receiver[r], r, now)]
    BY <1>10
  <2>2. Oweds(sender, receiver, now) \in Nat
    BY CoreIs
  <2> QED BY <2>1, <2>2 DEF Oweds
<1>14. balances' = [streams |-> Lefts(snd, now) + Oweds(snd, rcv, now),
                    collectable |-> SumFunctionOnSet(collectableAmts, Receivers)]
  <2> DEFINE i == Lefts(sender, now)
             o == Oweds(sender, receiver, now)
             u == SumFunctionOnSet(collectableAmts, Receivers)
  <2>1. balances = [streams |-> i + o, collectable |-> u]
    BY CoreIs
  <2>2. balances' = [streams |-> i + o + real, collectable |-> u]
    BY <1>1, <2>1
  <2>3. i + o + real = Lefts(snd, now) + Oweds(snd, rcv, now)
    BY <1>3, <1>12, <1>13
  <2> QED BY <2>2, <2>3
<1>15. \A z \in Senders : GoodSender(snd[z], z, now)
  BY <1>2, <1>4, <1>8
<1> HIDE DEF snd
<1>16. Holds(now, snd, rcv, balances', collectableAmts)
  BY <1>2, <1>7, <1>9, <1>10, <1>11, <1>14, <1>15 DEF Holds
<1>17. Tight(sender'[s]) /\ sender'[s].updateTime = now /\ \A z \in Senders \ {s} : sender'[z] = sender[z]
  <2>1. sender'[s] = y /\ \A z \in Senders \ {s} : sender'[z] = sender[z]
    BY <1>1, <1>8
  <2>2. y.recv = list /\ y.updateTime = now /\ y.maxEnd = MaxEnd(funds, list) /\ y.balance = funds
    BY DEF y, end
  <2>3. Tight(y)
    BY <1>2, <1>3, <2>2, EndIsTight
  <2> QED BY <2>1, <2>2, <2>3
<1>18. \A r \in Receivers : Owed(sender', receiver'[r], r, now) = Owed(sender, receiver[r], r, now)
  BY <1>1, <1>10
<1> QED BY <1>1, <1>16, <1>17, <1>18 DEF Core
-----------------------------------------------------------------------------
(* The theorems.                                                           *)

LEMMA NextKeeps ==
  ASSUME Core, [Next]_vars
  PROVE  Core'
<1>1. CASE \E s \in Senders : \E balanceDelta \in BalanceDeltas, list \in Lists[s] :
             setStreams(s, balanceDelta, list)
  BY <1>1, ConfigureKeeps
<1>2. CASE \E r \in Receivers : \E maxCycles \in 1..CycleOf(MaxTime) : receiveStreams(r, maxCycles)
  <2>1. CycleOf(MaxTime) \in Nat
    BY Constants, CycleIs
  <2>2. 1..CycleOf(MaxTime) \subseteq Nat
    BY <2>1
  <2> QED BY <1>2, <2>2, ReceiveKeeps
<1>3. CASE \E r \in Receivers, s \in Senders : \E shown \in SUBSET (1..Len(sender[s].history)) :
             squeezeStreams(r, s, shown)
  BY <1>3, SqueezeKeeps
<1>4. CASE \E r \in Receivers : collect(r)
  BY <1>4, CollectKeeps
<1>5. CASE Tick
  <2>1. /\ now < MaxTime /\ now' = now + 1
        /\ sender' = sender /\ receiver' = receiver /\ balances' = balances
        /\ collectableAmts' = collectableAmts
    BY <1>5 DEF Tick
  <2>2. Holds(now + 1, sender, receiver, balances, collectableAmts)
    BY <2>1, TickKeeps
  <2>3. Core' <=> Holds(now', sender', receiver', balances', collectableAmts')
    BY DEF Core
  <2> QED BY <2>1, <2>2, <2>3
<1>6. CASE UNCHANGED vars
  <2>1. /\ now' = now /\ sender' = sender /\ receiver' = receiver /\ balances' = balances
        /\ collectableAmts' = collectableAmts
    BY <1>6 DEF vars
  <2>2. Holds(now, sender, receiver, balances, collectableAmts)
    BY DEF Core
  <2>3. Core' <=> Holds(now', sender', receiver', balances', collectableAmts')
    BY DEF Core
  <2> QED BY <2>1, <2>2, <2>3
<1> QED BY <1>1, <1>2, <1>3, <1>4, <1>5, <1>6 DEF Next

\* From the first second on, in every configuration of every sender's streams:
\* the deltas of each receiver come, in the running cycle and every later one,
\* to what all senders' streams are still to pay and what was not squeezed.
\* setStreams, receiveStreams, squeezeStreams and collect keep the invariant.
THEOREM CoreAlways == Spec => []Core
<1>1. Init => Core
  BY InitHolds
<1>2. Core /\ [Next]_vars => Core'
  BY NextKeeps
<1> QED BY <1>1, <1>2, PTL DEF Spec

\* The storage of DripsStreaming.sol keeps its shape: no balance and no
\* collectable amount falls below zero, and no counter of configurations
\* exceeds the length of the history.
THEOREM TypeCorrect == Spec => []TypeOK
<1>1. Core => TypeOK
  BY CoreTyped
<1> QED BY <1>1, CoreAlways, PTL

\* Whatever is squeezed, received late or reconfigured, no cycle of a receiver
\* comes out negative, a cycle that was received holds nothing, and after the
\* last stream nothing flows.
THEOREM NeverOwes == Spec => []CyclesNeverOwe
<1>1. Core => CyclesNeverOwe
  BY CoreNeverOwes
<1> QED BY <1>1, CoreAlways, PTL

\* The tokens the library reports as its own are exactly what senders have not
\* streamed, what receivers can still obtain and what they have banked.
THEOREM Covered == Spec => []TokensCovered
<1>1. Core => TokensCovered
  BY CoreCovers
<1> QED BY <1>1, CoreAlways, PTL
-----------------------------------------------------------------------------
(* Streams refines StreamLedger.                                           *)

\* The ledger's variables.
Pledged(snd) == [s \in Senders |-> Promised(snd[s])]
FundsAt(snd, t) == [s \in Senders |-> Left(snd[s], t)]
StoppedAt(snd, t) == {s \in Senders : Stopped(snd[s], t)}
OwedAt(snd, rcv, t) == [r \in Receivers |-> Owed(snd, rcv[r], r, t)]

Mapped ==
    /\ [s \in Senders |-> Promised(sender[s])] = Pledged(sender)
    /\ [s \in Senders |-> BalanceAt(sender[s], now)] = FundsAt(sender, now)
    /\ {s \in Senders : \/ BalanceAt(sender[s], now) = 0
                        \/ now >= sender[s].maxEnd
                        \/ \A c \in Promised(sender[s]) : c.until <= now \/ c.until <= c.from}
       = StoppedAt(sender, now)
    /\ [r \in Receivers |-> Obtainable(r)] = OwedAt(sender, receiver, now)

LEMMA MappedIs == Core => Mapped
<1> SUFFICES ASSUME Core PROVE Mapped
  OBVIOUS
<1>1. now \in Nat /\ \A s \in Senders : GoodSender(sender[s], s, now)
  BY CoreIs
<1>2. \A s \in Senders : BalanceAt(sender[s], now) = Left(sender[s], now)
  BY <1>1, BalanceIs
<1>3. [s \in Senders |-> BalanceAt(sender[s], now)] = FundsAt(sender, now)
  BY <1>2 DEF FundsAt
<1>4. \A s \in Senders :
        Stopped(sender[s], now) <=> \/ BalanceAt(sender[s], now) = 0
                                    \/ now >= sender[s].maxEnd
                                    \/ \A c \in Promised(sender[s]) : c.until <= now \/ c.until <= c.from
  BY <1>2 DEF Stopped, Ledger!Over
<1>5. [r \in Receivers |-> Obtainable(r)] = OwedAt(sender, receiver, now)
  BY OwedIs DEF OwedAt
<1> QED BY <1>3, <1>4, <1>5 DEF Mapped, StoppedAt, Pledged

LEMMA MappedNext == Core' => Mapped'
BY MappedIs, PTL

\* A second of all senders.
LEMMA SecondIsPaid ==
  ASSUME Core, AllTight, now < MaxTime
  PROVE  /\ FundsAt(sender, now + 1)
            = [s \in Senders |-> IF s \in StoppedAt(sender, now) THEN FundsAt(sender, now)[s]
                                 ELSE FundsAt(sender, now)[s] - Ledger!Due(Pledged(sender)[s], now)]
         /\ OwedAt(sender, receiver, now + 1)
            = [r \in Receivers |-> OwedAt(sender, receiver, now)[r] +
                 Ledger!SumFunction([s \in Senders \ StoppedAt(sender, now) |->
                   Ledger!Due(Ledger!To(r, Pledged(sender)[s]), now)])]
         /\ StoppedAt(sender, now + 1)
            = StoppedAt(sender, now) \cup
              {s \in Senders : Ledger!Exhausted(Pledged(sender)[s], FundsAt(sender, now + 1)[s], now + 1)}
<1>1. /\ now \in Nat /\ now + 1 \in 0..Forever /\ now + 1 \in Nat /\ IsFiniteSet(Senders)
      /\ \A s \in Senders : GoodSender(sender[s], s, now) /\ GoodSender(sender[s], s, now + 1)
      /\ \A r \in Receivers : GoodReceiver(receiver[r], now)
      /\ \A r \in Receivers : AsDue(sender, receiver[r], r, now)
  <2>1. /\ now \in 1..MaxTime /\ now \in Nat
        /\ \A s \in Senders : GoodSender(sender[s], s, now)
        /\ \A r \in Receivers : GoodReceiver(receiver[r], now)
        /\ \A r \in Receivers : AsDue(sender, receiver[r], r, now)
    BY CoreIs
  <2>2. now + 1 \in 0..Forever /\ now + 1 \in Nat
    BY <2>1, Constants
  <2>3. \A s \in Senders : GoodSender(sender[s], s, now + 1)
    BY <2>1, SenderLater
  <2> QED BY <2>1, <2>2, <2>3, Constants
<1>2. ASSUME NEW s \in Senders
      PROVE  /\ IsBook(sender[s]) /\ sender[s].maxEnd \in Nat
             /\ Tight(sender[s])
             /\ Pledged(sender)[s] = Promised(sender[s])
             /\ \A t : FundsAt(sender, t)[s] = Left(sender[s], t)
             /\ \A t : s \in StoppedAt(sender, t) <=> Stopped(sender[s], t)
  <2>1. GoodSender(sender[s], s, now)
    BY <1>1
  <2>2. sender[s].recv \in Books(s) /\ sender[s].updateTime \in 0..Forever /\ sender[s].maxEnd \in 0..Forever
    BY <1>1, <2>1, SenderIs
  <2>3. IsBook(sender[s]) /\ sender[s].maxEnd \in Nat
    <3>1. \E x : x = sender[s]
      OBVIOUS
    <3>2. PICK x : x = sender[s]
      BY <3>1
    <3>3. IsBook(x)
      BY <2>2, <3>2, BooksAre
    <3> QED BY <2>2, <3>2, <3>3, Constants
  <2> QED BY <2>3 DEF AllTight, Pledged, FundsAt, StoppedAt
<1>3. ASSUME NEW s \in Senders
      PROVE  /\ s \in StoppedAt(sender, now) =>
                  /\ Left(sender[s], now + 1) = Left(sender[s], now)
                  /\ \A r : Paid(sender[s], r, now, now + 1) = 0
                  /\ s \in StoppedAt(sender, now + 1)
             /\ s \notin StoppedAt(sender, now) =>
                  /\ Left(sender[s], now + 1) = Left(sender[s], now) - Ledger!Due(Promised(sender[s]), now)
                  /\ \A r : Ledger!Due(Ledger!To(r, Promised(sender[s])), now) = Paid(sender[s], r, now, now + 1)
             /\ s \in StoppedAt(sender, now + 1) <=>
                  \/ s \in StoppedAt(sender, now)
                  \/ Ledger!Exhausted(Promised(sender[s]), Left(sender[s], now + 1), now + 1)
  <2> DEFINE x == sender[s]
             t == now
  <2>1. /\ t \in Nat /\ t + 1 \in Nat /\ GoodSender(x, s, t) /\ GoodSender(x, s, t + 1)
        /\ IsBook(x) /\ x.maxEnd \in Nat /\ Tight(x)
        /\ s \in StoppedAt(sender, now) <=> Stopped(x, t)
        /\ s \in StoppedAt(sender, now + 1) <=> Stopped(x, t + 1)
    BY <1>1, <1>2
  <2> HIDE DEF x, t
  <2>2. CASE Stopped(x, t)
    <3>1. Left(x, t + 1) = Left(x, t) /\ Stopped(x, t + 1) /\ \A r : Paid(x, r, t, t + 1) = 0
      BY <2>1, <2>2, StoppedStays
    <3> QED BY <2>1, <2>2, <3>1 DEF x, t
  <2>3. CASE ~Stopped(x, t)
    <3>1. t < x.maxEnd /\ t + 1 <= x.maxEnd
      BY <2>1, <2>3 DEF Stopped
    <3>2. Stopped(x, t + 1) <=> Ledger!Exhausted(Promised(x), Left(x, t + 1), t + 1)
      BY <2>1, <3>1, StoppedIs
    <3>3. /\ Ledger!Due(Promised(x), t) = Spent(x, t, t + 1)
          /\ \A r : Ledger!Due(Ledger!To(r, Promised(x)), t) = Paid(x, r, t, t + 1)
      BY <2>1, <3>1, DueIs
    <3>4. Left(x, t) = Left(x, t + 1) + Spent(x, t, t + 1) /\ Spent(x, t, t + 1) \in Nat /\ Left(x, t + 1) \in Nat
      BY <2>1, SenderLater, BalanceIs
    <3>5. Left(x, t + 1) = Left(x, t) - Ledger!Due(Promised(x), t)
      BY <3>3, <3>4
    <3> QED BY <2>1, <2>3, <3>2, <3>3, <3>5 DEF x, t
  <2> QED BY <2>2, <2>3
<1>4. FundsAt(sender, now + 1)
      = [s \in Senders |-> IF s \in StoppedAt(sender, now) THEN FundsAt(sender, now)[s]
                           ELSE FundsAt(sender, now)[s] - Ledger!Due(Pledged(sender)[s], now)]
  BY <1>2, <1>3 DEF FundsAt
<1>5. ASSUME NEW r \in Receivers
      PROVE  Owed(sender, receiver[r], r, now + 1)
             = Owed(sender, receiver[r], r, now) +
               Ledger!SumFunction([s \in Senders \ StoppedAt(sender, now) |->
                 Ledger!Due(Ledger!To(r, Pledged(sender)[s]), now)])
  <2> DEFINE f == [s \in Senders |-> Paid(sender[s], r, now, now + 1)]
             T == Senders \ StoppedAt(sender, now)
             g == [s \in T |-> Ledger!Due(Ledger!To(r, Pledged(sender)[s]), now)]
             p == receiver[r]
  <2>1. GoodReceiver(p, now) /\ AsDue(sender, p, r, now)
    BY <1>1
  <2>2. f = [s \in Senders |-> Paid(sender[s], r, now, now + 1)]
    OBVIOUS
  <2> HIDE DEF f, p
  <2>3. /\ Owed(sender, p, r, now + 1) = Owed(sender, p, r, now) + SumFunctionOnSet(f, Senders)
        /\ \A s \in Senders : f[s] \in Nat
    BY <1>1, <2>1, <2>2, OwedLater
  <2>4. DOMAIN g = T
    OBVIOUS
  <2>5. \A s \in T : g[s] = f[s] /\ g[s] \in Int
    BY <1>2, <1>3, <2>2, <2>3
  <2>6. \A s \in Senders \ T : f[s] = 0
    BY <1>3, <2>2
  <2>7. T \in SUBSET Senders
    OBVIOUS
  <2> HIDE DEF g, T
  <2>8. SumFunctionOnSet(f, Senders) = SumFunctionOnSet(g, T)
    <3>1. IsFiniteSet(Senders)
      BY <1>1
    <3> QED BY ONLY <2>5, <2>6, <2>7, <3>1, SumPartOf
  <2>9. Ledger!SumFunction(g) = SumFunctionOnSet(g, T)
    BY <2>4, LedgerSum
  <2>10. Owed(sender, p, r, now + 1) = Owed(sender, p, r, now) + Ledger!SumFunction(g)
    BY <2>3, <2>8, <2>9
  <2> QED BY <2>10 DEF p, g, T
<1>6. OwedAt(sender, receiver, now + 1)
      = [r \in Receivers |-> OwedAt(sender, receiver, now)[r] +
           Ledger!SumFunction([s \in Senders \ StoppedAt(sender, now) |->
             Ledger!Due(Ledger!To(r, Pledged(sender)[s]), now)])]
  <2>1. \A r \in Receivers : OwedAt(sender, receiver, now)[r] = Owed(sender, receiver[r], r, now)
    BY DEF OwedAt
  <2> QED BY <1>5, <2>1 DEF OwedAt
<1>7. StoppedAt(sender, now + 1)
      = StoppedAt(sender, now) \cup
        {s \in Senders : Ledger!Exhausted(Pledged(sender)[s], FundsAt(sender, now + 1)[s], now + 1)}
  <2>1. \A t : StoppedAt(sender, t) \subseteq Senders
    BY DEF StoppedAt
  <2> QED BY <1>2, <1>3, <2>1
<1> QED BY <1>4, <1>6, <1>7

LEMMA SecondStep ==
  ASSUME Core, Core', AllTight, Tick
  PROVE  Ledger!Second
<1>1. now < MaxTime /\ now' = now + 1 /\ sender' = sender /\ receiver' = receiver /\ collectableAmts' = collectableAmts
  BY DEF Tick
<1>2. Mapped /\ Mapped'
  BY MappedIs, MappedNext
<1>3. /\ [s \in Senders |-> BalanceAt(sender[s], now)]' = FundsAt(sender, now + 1)
      /\ {s \in Senders : \/ BalanceAt(sender[s], now) = 0
                          \/ now >= sender[s].maxEnd
                          \/ \A c \in Promised(sender[s]) : c.until <= now \/ c.until <= c.from}'
         = StoppedAt(sender, now + 1)
      /\ [r \in Receivers |-> Obtainable(r)]' = OwedAt(sender, receiver, now + 1)
      /\ [s \in Senders |-> Promised(sender[s])]' = Pledged(sender)
  BY <1>1, <1>2 DEF Mapped
<1>4. /\ FundsAt(sender, now + 1)
         = [s \in Senders |-> IF s \in StoppedAt(sender, now) THEN FundsAt(sender, now)[s]
                              ELSE FundsAt(sender, now)[s] - Ledger!Due(Pledged(sender)[s], now)]
      /\ OwedAt(sender, receiver, now + 1)
         = [r \in Receivers |-> OwedAt(sender, receiver, now)[r] +
              Ledger!SumFunction([s \in Senders \ StoppedAt(sender, now) |->
                Ledger!Due(Ledger!To(r, Pledged(sender)[s]), now)])]
      /\ StoppedAt(sender, now + 1)
         = StoppedAt(sender, now) \cup
           {s \in Senders : Ledger!Exhausted(Pledged(sender)[s], FundsAt(sender, now + 1)[s], now + 1)}
  BY <1>1, SecondIsPaid
<1> DEFINE pledged == [s \in Senders |-> Promised(sender[s])]
           funds == [s \in Senders |-> BalanceAt(sender[s], now)]
           stopped == {s \in Senders : \/ BalanceAt(sender[s], now) = 0
                                       \/ now >= sender[s].maxEnd
                                       \/ \A c \in Promised(sender[s]) : c.until <= now \/ c.until <= c.from}
           owed == [r \in Receivers |-> Obtainable(r)]
<1>5. /\ pledged = Pledged(sender) /\ pledged' = Pledged(sender)
      /\ funds = FundsAt(sender, now) /\ funds' = FundsAt(sender, now + 1)
      /\ stopped = StoppedAt(sender, now) /\ stopped' = StoppedAt(sender, now + 1)
      /\ owed = OwedAt(sender, receiver, now) /\ owed' = OwedAt(sender, receiver, now + 1)
  BY <1>2, <1>3 DEF Mapped
<1>6. Ledger!Second <=>
        /\ now' = now + 1
        /\ pledged' = pledged /\ collectableAmts' = collectableAmts
        /\ funds' = [s \in Senders |-> IF s \in stopped THEN funds[s] ELSE funds[s] - Ledger!Due(pledged[s], now)]
        /\ owed' = [r \in Receivers |-> owed[r] +
                      Ledger!SumFunction([s \in Senders \ stopped |-> Ledger!Due(Ledger!To(r, pledged[s]), now)])]
        /\ stopped' = stopped \cup {s \in Senders : Ledger!Exhausted(pledged[s], funds'[s], now')}
  BY DEF Ledger!Second
<1> HIDE DEF pledged, funds, stopped, owed
<1> QED BY <1>1, <1>4, <1>5, <1>6

LEMMA ConfigureStep ==
  ASSUME Core, Core', NEW s \in Senders, NEW balanceDelta \in BalanceDeltas, NEW list \in Lists[s],
         setStreams(s, balanceDelta, list)
  PROVE  Ledger!Configure(s)
<1>1. /\ now' = now /\ collectableAmts' = collectableAmts
      /\ \A r \in Receivers : Owed(sender', receiver'[r], r, now) = Owed(sender, receiver[r], r, now)
      /\ \A z \in Senders \ {s} : sender'[z] = sender[z]
      /\ sender'[s].updateTime = now /\ Tight(sender'[s])
  BY ConfigureKeeps DEF setStreams
<1>2. Mapped /\ Mapped'
  BY MappedIs, MappedNext
<1>3. GoodSender(sender'[s], s, now) /\ now \in Nat
  BY <1>1, CoreIs DEF Core, Holds
<1>4. Left(sender'[s], now) \in Nat
  BY <1>3, BalanceIs
<1>5. Stopped(sender'[s], now) <=> Ledger!Exhausted(Promised(sender'[s]), Left(sender'[s], now), now)
  BY <1>1, <1>3, StoppedIs DEF Tight
<1>6. \A z \in Senders : /\ FundsAt(sender', now)[z] = Left(sender'[z], now)
                         /\ FundsAt(sender, now)[z] = Left(sender[z], now)
                         /\ Pledged(sender')[z] = Promised(sender'[z])
                         /\ Pledged(sender)[z] = Promised(sender[z])
  BY DEF FundsAt, Pledged
<1>7. OwedAt(sender', receiver', now) = OwedAt(sender, receiver, now)
  BY <1>1 DEF OwedAt
<1>8. StoppedAt(sender', now)
      = IF Ledger!Exhausted(Pledged(sender')[s], FundsAt(sender', now)[s], now)
        THEN StoppedAt(sender, now) \cup {s} ELSE StoppedAt(sender, now) \ {s}
  BY <1>1, <1>5, <1>6 DEF StoppedAt
<1>9. \A o \in Senders \ {s} : FundsAt(sender', now)[o] = FundsAt(sender, now)[o] /\ Pledged(sender')[o] = Pledged(sender)[o]
  BY <1>1, <1>6
<1>10. FundsAt(sender', now)[s] >= 0
  BY <1>4, <1>6
<1>11. /\ [z \in Senders |-> BalanceAt(sender[z], now)]' = FundsAt(sender', now)
       /\ {z \in Senders : \/ BalanceAt(sender[z], now) = 0
                           \/ now >= sender[z].maxEnd
                           \/ \A c \in Promised(sender[z]) : c.until <= now \/ c.until <= c.from}'
          = StoppedAt(sender', now)
       /\ [r \in Receivers |-> Obtainable(r)]' = OwedAt(sender', receiver', now)
       /\ [z \in Senders |-> Promised(sender[z])]' = Pledged(sender')
  BY <1>1, <1>2 DEF Mapped
<1> QED BY <1>1, <1>2, <1>7, <1>8, <1>9, <1>10, <1>11 DEF Ledger!Configure, Mapped

LEMMA BankStep ==
  ASSUME Core, Core', NEW r \in Receivers, Takes(r)
  PROVE  Ledger!Bank(r)
<1>1. /\ now' = now /\ sender' = sender
      /\ \A o \in Receivers \ {r} : receiver'[o] = receiver[o]
  BY DEF Takes
<1>2. PICK amt \in Nat :
        /\ Owed(sender, receiver'[r], r, now) = Owed(sender, receiver[r], r, now) - amt
        /\ collectableAmts' = [collectableAmts EXCEPT ![r] = @ + amt]
  BY DEF Takes
<1>3. Mapped /\ Mapped'
  BY MappedIs, MappedNext
<1>4. /\ now \in 0..Forever /\ collectableAmts \in [Receivers -> Nat]
      /\ \A s \in Senders : GoodSender(sender[s], s, now)
      /\ GoodReceiver(receiver'[r], now) /\ GoodReceiver(receiver[r], now)
  BY <1>1, CoreIs DEF Core, Holds
<1>5. Owed(sender, receiver'[r], r, now) \in Nat /\ Owed(sender, receiver[r], r, now) \in Nat
  BY <1>4, DuesAre
<1>6. collectableAmts[r] \in Nat /\ collectableAmts'[r] = collectableAmts[r] + amt
  BY <1>2, <1>4
<1>7. /\ collectableAmts'[r] >= collectableAmts[r] /\ collectableAmts'[r] - collectableAmts[r] = amt
      /\ \A o \in Receivers \ {r} : collectableAmts'[o] = collectableAmts[o]
  BY <1>2, <1>4, <1>6
<1>8. \A o \in Receivers : /\ OwedAt(sender', receiver', now)[o] = Owed(sender, receiver'[o], o, now)
                           /\ OwedAt(sender, receiver, now)[o] = Owed(sender, receiver[o], o, now)
  BY <1>1 DEF OwedAt
<1>9. OwedAt(sender', receiver', now)
      = [OwedAt(sender, receiver, now) EXCEPT ![r] = @ - (collectableAmts'[r] - collectableAmts[r])]
  BY <1>1, <1>2, <1>7, <1>8 DEF OwedAt
<1>10. OwedAt(sender', receiver', now)[r] >= 0
  BY <1>5, <1>8
<1>11. /\ [s \in Senders |-> BalanceAt(sender[s], now)]' = FundsAt(sender, now)
       /\ {s \in Senders : \/ BalanceAt(sender[s], now) = 0
                           \/ now >= sender[s].maxEnd
                           \/ \A c \in Promised(sender[s]) : c.until <= now \/ c.until <= c.from}'
          = StoppedAt(sender, now)
       /\ [o \in Receivers |-> Obtainable(o)]' = OwedAt(sender', receiver', now)
       /\ [s \in Senders |-> Promised(sender[s])]' = Pledged(sender)
  BY <1>1, <1>3 DEF Mapped
<1> QED BY <1>1, <1>3, <1>7, <1>9, <1>10, <1>11 DEF Ledger!Bank, Mapped

LEMMA CollectStep ==
  ASSUME Core, Core', NEW r \in Receivers, collect(r)
  PROVE  Ledger!Collect(r)
<1>1. /\ now' = now /\ sender' = sender /\ receiver' = receiver
      /\ collectableAmts' = [collectableAmts EXCEPT ![r] = 0]
  BY DEF collect
<1>2. Mapped /\ Mapped'
  BY MappedIs, MappedNext
<1>3. /\ [s \in Senders |-> BalanceAt(sender[s], now)]' = FundsAt(sender, now)
      /\ {s \in Senders : \/ BalanceAt(sender[s], now) = 0
                          \/ now >= sender[s].maxEnd
                          \/ \A c \in Promised(sender[s]) : c.until <= now \/ c.until <= c.from}'
         = StoppedAt(sender, now)
      /\ [o \in Receivers |-> Obtainable(o)]' = OwedAt(sender, receiver, now)
      /\ [s \in Senders |-> Promised(sender[s])]' = Pledged(sender)
  BY <1>1, <1>2 DEF Mapped
<1> QED BY <1>1, <1>2, <1>3 DEF Ledger!Collect, Mapped

LEMMA StutterStep ==
  ASSUME Core, Core', UNCHANGED vars
  PROVE  UNCHANGED Ledger!vars
<1>1. now' = now /\ sender' = sender /\ receiver' = receiver /\ collectableAmts' = collectableAmts
  BY DEF vars
<1>2. Mapped /\ Mapped'
  BY MappedIs, MappedNext
<1>3. /\ [s \in Senders |-> BalanceAt(sender[s], now)]' = FundsAt(sender, now)
      /\ {s \in Senders : \/ BalanceAt(sender[s], now) = 0
                          \/ now >= sender[s].maxEnd
                          \/ \A c \in Promised(sender[s]) : c.until <= now \/ c.until <= c.from}'
         = StoppedAt(sender, now)
      /\ [o \in Receivers |-> Obtainable(o)]' = OwedAt(sender, receiver, now)
      /\ [s \in Senders |-> Promised(sender[s])]' = Pledged(sender)
  BY <1>1, <1>2 DEF Mapped
<1> QED BY <1>1, <1>2, <1>3 DEF Ledger!vars, Mapped

LEMMA InitStep ==
  ASSUME Init
  PROVE  Ledger!Init
<1>1. /\ now = 1 /\ sender = [s \in Senders |-> NewSender] /\ receiver = [r \in Receivers |-> NewReceiver]
      /\ collectableAmts = [r \in Receivers |-> 0]
  BY DEF Init
<1>2. Core /\ Mapped
  BY InitHolds, MappedIs
<1>3. [s \in Senders |-> Promised(sender[s])] = [s \in Senders |-> {}]
  BY <1>1 DEF Promised, NewSender
<1>4. FundsAt(sender, now) = [s \in Senders |-> 0]
  BY <1>1, NewSenderIs DEF FundsAt
<1>5. StoppedAt(sender, now) = Senders
  BY <1>1, NewSenderIs DEF StoppedAt, Stopped
<1>6. ASSUME NEW r \in Receivers
      PROVE  Owed(sender, receiver[r], r, now) = 0
  <2> DEFINE f == [s \in Senders |-> Open(sender[s], receiver[r].nextSqueezed[s], r, now)]
  <2>1. \A s \in Senders : f[s] = 0
    BY <1>1, NewSenderIs
  <2>2. Opens(sender, receiver[r], r, now) = SumFunctionOnSet(f, Senders)
    BY DEF Opens
  <2> HIDE DEF f
  <2>3. Opens(sender, receiver[r], r, now) = 0
    BY <2>1, <2>2, SumZero, Constants
  <2>4. Past(receiver[r].amtDeltas, now) = 0
    BY <1>1, NewReceiverIs
  <2> QED BY <2>3, <2>4 DEF Owed
<1>7. OwedAt(sender, receiver, now) = [r \in Receivers |-> 0]
  BY <1>6 DEF OwedAt
<1>8. now > 0
  BY <1>1
<1> QED BY <1>1, <1>2, <1>3, <1>4, <1>5, <1>7, <1>8 DEF Ledger!Init, Mapped

LEMMA TightAtFirst ==
  ASSUME Init
  PROVE  AllTight
<1> SUFFICES ASSUME NEW s \in Senders PROVE Tight(sender[s])
  BY DEF AllTight
<1>1. sender[s] = NewSender
  BY DEF Init
<1>2. Promised(NewSender) = {} /\ NewSender.updateTime = 0 /\ NewSender.maxEnd = 0
  BY DEF Promised, NewSender
<1> QED BY <1>1, <1>2 DEF Tight, Ledger!Exhausted

LEMMA TightKept ==
  ASSUME Core, AllTight, [Next]_vars
  PROVE  AllTight'
<1>1. ASSUME NEW s \in Senders, NEW balanceDelta \in BalanceDeltas, NEW list \in Lists[s],
             setStreams(s, balanceDelta, list)
      PROVE  AllTight'
  <2>1. Tight(sender'[s]) /\ \A z \in Senders \ {s} : sender'[z] = sender[z]
    BY <1>1, ConfigureKeeps
  <2> QED BY <2>1 DEF AllTight
<1>2. CASE sender' = sender
  BY <1>2 DEF AllTight
<1>3. \/ \E s \in Senders : \E balanceDelta \in BalanceDeltas, list \in Lists[s] :
           setStreams(s, balanceDelta, list)
      \/ sender' = sender
  BY DEF Next, vars, receiveStreams, squeezeStreams, collect, Tick
<1> QED BY <1>1, <1>2, <1>3

\* A step of the library is a step of the ledger.
LEMMA StepRefines ==
  ASSUME Core, Core', AllTight, [Next]_vars
  PROVE  [Ledger!Next]_(Ledger!vars)
<1>1. CASE \E s \in Senders : \E balanceDelta \in BalanceDeltas, list \in Lists[s] :
             setStreams(s, balanceDelta, list)
  <2>1. \E s \in Senders : Ledger!Configure(s)
    BY <1>1, ConfigureStep
  <2> QED BY <2>1 DEF Ledger!Next
<1>2. CASE \E r \in Receivers : \E maxCycles \in 1..CycleOf(MaxTime) : receiveStreams(r, maxCycles)
  <2>1. CycleOf(MaxTime) \in Nat
    BY Constants, CycleIs
  <2>2. 1..CycleOf(MaxTime) \subseteq Nat
    BY <2>1
  <2>3. \E r \in Receivers : Ledger!Bank(r)
    BY <1>2, <2>2, ReceiveKeeps, BankStep
  <2> QED BY <2>3 DEF Ledger!Next
<1>3. CASE \E r \in Receivers, s \in Senders : \E shown \in SUBSET (1..Len(sender[s].history)) :
             squeezeStreams(r, s, shown)
  <2>1. \E r \in Receivers : Ledger!Bank(r)
    BY <1>3, SqueezeKeeps, BankStep
  <2> QED BY <2>1 DEF Ledger!Next
<1>4. CASE \E r \in Receivers : collect(r)
  <2>1. \E r \in Receivers : Ledger!Collect(r)
    BY <1>4, CollectStep
  <2> QED BY <2>1 DEF Ledger!Next
<1>5. CASE Tick
  <2>1. Ledger!Second
    BY <1>5, SecondStep
  <2> QED BY <2>1 DEF Ledger!Next
<1>6. CASE UNCHANGED vars
  BY <1>6, StutterStep
<1> QED BY <1>1, <1>2, <1>3, <1>4, <1>5, <1>6 DEF Next

\* The library keeps the promise of StreamLedger: under the mapping of Ledger,
\* every configuration, receive, squeeze and collect is a step of the ledger, and
\* every second is one of its seconds.
THEOREM Refines == Spec => PaysBySecond
<1>1. Init => Ledger!Init
  BY InitStep
<1>2. Core /\ Core' /\ AllTight /\ [Next]_vars => [Ledger!Next]_(Ledger!vars)
  BY StepRefines
<1>3. Init => AllTight
  BY TightAtFirst
<1>4. Core /\ AllTight /\ [Next]_vars => AllTight'
  BY TightKept
<1> QED BY <1>1, <1>2, <1>3, <1>4, CoreAlways, PTL DEF Spec, PaysBySecond, Ledger!Spec
=============================================================================
