----------------------------- MODULE TreasuryProofs -----------------------------
(***************************************************************************)
(* Proofs about Treasury.tla: the storage keeps its shape, the Treasury    *)
(* holds exactly the LVST that is staked, and stakes earn pro rata.        *)
(*                                                                         *)
(* What a user was paid and can claim moves with skims only, but its       *)
(* rounding depends on where the last change of the stake left it.  The    *)
(* inductive invariant therefore counts in the accumulator's own units,    *)
(* with nothing rounded off (Raw): a change of the stake moves that by     *)
(* less than one unit, and a skim adds what it gave to the stake.          *)
(***************************************************************************)
EXTENDS Treasury, BoardProofs

Stakes == [of : Nat, debt : Nat, accrued : Nat]

-----------------------------------------------------------------------------
(* Arithmetic.                                                             *)

LEMMA Quotient ==
  ASSUME NEW x \in Nat, NEW d \in Nat \ {0}
  PROVE  /\ x \div d \in Nat
         /\ d * (x \div d) <= x
         /\ x < d * (x \div d) + d
OBVIOUS

LEMMA WholeQuotient ==
  ASSUME NEW x \in Nat, NEW d \in Nat \ {0}, x % d = 0
  PROVE  x \div d \in Nat /\ d * (x \div d) = x
OBVIOUS

LEMMA Products ==
  /\ \A x, y \in Nat : x * y \in Nat
  /\ \A x, y \in Int : x * y \in Int /\ x * y = y * x
  /\ \A x, y, z \in Int : x * (y * z) = (x * y) * z
  /\ \A x, y, z \in Int : x * (y + z) = x * y + x * z /\ x * (y - z) = x * y - x * z
OBVIOUS

LEMMA ProductsOrdered ==
  ASSUME NEW x \in Int, NEW y \in Int, x <= y, NEW k \in Nat
  PROVE  k * x <= k * y
<1>1. k * (y - x) \in Nat
  <2>1. y - x \in Nat
    OBVIOUS
  <2> QED BY <2>1, Products
<1>2. k * (y - x) = k * y - k * x /\ k * x \in Int /\ k * y \in Int
  BY Products
<1> QED BY <1>1, <1>2

LEMMA QuotientsOrdered ==
  ASSUME NEW x \in Nat, NEW y \in Nat, x <= y, NEW d \in Nat \ {0}
  PROVE  x \div d <= y \div d
<1>1. PICK p \in Nat : p = x \div d
  BY Quotient
<1>2. PICK q \in Nat : q = y \div d
  BY Quotient
<1>3. d * p <= x /\ y < d * q + d
  BY <1>1, <1>2, Quotient
<1> SUFFICES ASSUME q < p
             PROVE  FALSE
  BY <1>1, <1>2
<1>4. q + 1 <= p
  OBVIOUS
<1>5. d * (q + 1) <= d * p
  BY <1>4, ProductsOrdered
<1>6. d * (q + 1) = d * q + d
  BY Products
<1>7. d * p \in Int /\ d * q \in Int
  BY Products
<1> QED BY <1>3, <1>5, <1>6, <1>7

-----------------------------------------------------------------------------
(* One user.                                                               *)

\* What a user was paid and has earned, in units of the accumulator, with
\* nothing rounded off.
Raw(st, got, acc) == AccScale * (got + st.accrued - st.debt) + st.of * acc

\* What a stake has earned since its debt was taken.
StakeGain(st, acc) == (st.of * acc) \div AccScale

Rounds(n) == IF n = 0 THEN 0 ELSE n - 1

\* What a user earned is its share, but for what rounding took and gave.
Fair(st, got, sh, ch, over, acc) ==
    /\ st.debt <= StakeGain(st, acc)
    /\ ch = 0 => st.of = 0
    /\ Unit * Raw(st, got, acc) <= AccScale * sh + Unit * (AccScale * ch)
    /\ AccScale * sh <= Unit * Raw(st, got, acc) + Unit * over + Unit * (AccScale * Rounds(ch))

LEMMA StakeIs ==
  ASSUME NEW st \in Stakes
  PROVE  st.of \in Nat /\ st.debt \in Nat /\ st.accrued \in Nat
BY DEF Stakes

LEMMA ScalesAre == AccScale \in Nat \ {0} /\ Unit \in Nat \ {0} /\ UsdcOne \in Nat \ {0}
BY TreasuryAssumption

LEMMA GainIs ==
  ASSUME NEW st \in Stakes, NEW acc \in Nat
  PROVE  /\ StakeGain(st, acc) \in Nat /\ st.of * acc \in Nat
         /\ AccScale * StakeGain(st, acc) <= st.of * acc
         /\ st.of * acc < AccScale * StakeGain(st, acc) + AccScale
<1>1. st.of * acc \in Nat
  BY StakeIs, Products
<1> QED BY <1>1, Quotient, ScalesAre DEF StakeGain

LEMMA RawIs ==
  ASSUME NEW st \in Stakes, NEW got \in Nat, NEW acc \in Nat
  PROVE  Raw(st, got, acc) \in Int
<1>1. got + st.accrued - st.debt \in Int /\ st.of \in Int /\ AccScale \in Int
  BY StakeIs, ScalesAre
<1>2. AccScale * (got + st.accrued - st.debt) \in Int /\ st.of * acc \in Int
  BY <1>1, Products
<1> QED BY <1>2 DEF Raw

\* What a skim adds to the accumulator gives a stake its share of it, rounded
\* down by less than the stake.
LEMMA SkimShares ==
  ASSUME NEW amount \in Nat, NEW total \in Nat \ {0}, NEW of \in Nat,
         NEW whole \in Nat, total * whole = Unit, NEW more, more = (amount * AccScale) \div total
  PROVE  /\ more \in Nat
         /\ Unit * (of * more) <= AccScale * (amount * of * whole)
         /\ AccScale * (amount * of * whole) <= Unit * (of * more) + Unit * of
<1>1. AccScale \in Nat /\ Unit \in Nat
  BY ScalesAre
<1>2. amount * AccScale \in Nat
  BY <1>1, Products
<1>3. /\ more \in Nat /\ total * more <= amount * AccScale
      /\ amount * AccScale < total * more + total
  BY <1>2, Quotient
<1> DEFINE k == of * whole
<1>4. k \in Nat /\ k * total = Unit * of
  <2>1. k \in Nat
    BY Products
  <2>2. (of * whole) * total = of * (total * whole)
    BY Products
  <2> QED BY <1>1, <2>1, <2>2, Products
<1>5. k * (total * more) = Unit * (of * more)
  <2>1. k * (total * more) = (k * total) * more
    BY <1>3, <1>4, Products
  <2>2. (Unit * of) * more = Unit * (of * more)
    BY <1>1, <1>3, Products
  <2> QED BY <1>4, <2>1, <2>2
<1>6. k * (amount * AccScale) = AccScale * (amount * of * whole)
  <2>1. k * (amount * AccScale) = AccScale * (amount * k)
    <3> HIDE DEF k
    <3>1. k * (amount * AccScale) = (k * amount) * AccScale
      BY <1>1, <1>4, Products
    <3>2. k * amount = amount * k /\ amount * k \in Int
      BY <1>4, Products
    <3> QED BY <1>1, <3>1, <3>2, Products
  <2>2. amount * k = amount * of * whole
    BY Products
  <2> QED BY <2>1, <2>2
<1> HIDE DEF k
<1>7. k * (total * more) <= k * (amount * AccScale)
  BY <1>1, <1>2, <1>3, <1>4, ProductsOrdered, Products
<1>8. k * (amount * AccScale) <= k * (total * more + total)
  BY <1>1, <1>2, <1>3, <1>4, ProductsOrdered, Products
<1>9. k * (total * more + total) = k * (total * more) + k * total
  <2>1. total * more \in Int /\ total \in Int
    BY <1>3, Products
  <2> QED BY <1>4, <2>1, Products
<1> QED BY <1>3, <1>4, <1>5, <1>6, <1>7, <1>8, <1>9

LEMMA FairSkim ==
  ASSUME NEW st \in Stakes, NEW got \in Nat, NEW sh \in Nat, NEW ch \in Nat, NEW over \in Nat,
         NEW acc \in Nat, Fair(st, got, sh, ch, over, acc),
         NEW amount \in Nat, NEW total \in Nat \ {0}, NEW whole \in Nat, total * whole = Unit,
         NEW more, more = (amount * AccScale) \div total
  PROVE  Fair(st, got, sh + amount * st.of * whole, ch, over + st.of, acc + more)
<1>1. st.of \in Nat /\ st.debt \in Nat /\ AccScale \in Nat \ {0} /\ Unit \in Nat \ {0}
  BY StakeIs, ScalesAre
<1>2. PICK of \in Nat : of = st.of
  BY <1>1
<1>3. /\ more \in Nat
      /\ Unit * (of * more) <= AccScale * (amount * of * whole)
      /\ AccScale * (amount * of * whole) <= Unit * (of * more) + Unit * of
  BY SkimShares
<1>4. PICK gain \in Nat : gain = amount * of * whole
  <2>1. amount * of \in Nat
    BY Products
  <2>2. (amount * of) * whole \in Nat
    BY <2>1, Products
  <2> QED BY <2>2
<1>5. PICK r \in Int : r = Raw(st, got, acc)
  BY RawIs
<1>6. Raw(st, got, acc + more) = r + of * more
  <2>1. of * (acc + more) = of * acc + of * more /\ of * acc \in Int /\ of * more \in Int
    BY <1>3, Products
  <2>2. PICK x \in Int : x = AccScale * (got + st.accrued - st.debt)
    <3>1. got + st.accrued - st.debt \in Int /\ AccScale \in Int
      BY StakeIs, ScalesAre
    <3> QED BY <3>1, Products
  <2>3. r = x + of * acc /\ Raw(st, got, acc + more) = x + of * (acc + more)
    BY <1>2, <1>5, <2>2 DEF Raw
  <2> QED BY ONLY <2>1, <2>3, <2>2, r \in Int
<1>7. /\ Unit * (r + of * more) = Unit * r + Unit * (of * more)
      /\ AccScale * (sh + gain) = AccScale * sh + AccScale * gain
      /\ Unit * (over + of) = Unit * over + Unit * of
  <2>1. of * more \in Int /\ AccScale \in Int /\ Unit \in Int
    BY <1>1, <1>3, Products
  <2> QED BY <2>1, Products
<1>8. /\ Unit * r \in Int /\ Unit * (of * more) \in Int /\ AccScale * sh \in Int
      /\ AccScale * gain \in Int /\ Unit * over \in Int /\ Unit * of \in Int
      /\ Unit * (AccScale * ch) \in Int /\ Unit * (AccScale * Rounds(ch)) \in Int
  <2>1. of * more \in Int /\ AccScale \in Int /\ Unit \in Int /\ Rounds(ch) \in Int
    BY <1>1, <1>3, Products DEF Rounds
  <2>2. AccScale * ch \in Int /\ AccScale * Rounds(ch) \in Int
    BY <2>1, Products
  <2> QED BY <2>1, <2>2, Products
<1>9. st.debt <= StakeGain(st, acc + more)
  <2>1. of * acc <= of * (acc + more)
    BY <1>3, ProductsOrdered
  <2>2. of * acc \in Nat /\ of * (acc + more) \in Nat
    BY <1>3, Products
  <2>3. StakeGain(st, acc) <= StakeGain(st, acc + more)
    BY <1>1, <1>2, <2>1, <2>2, QuotientsOrdered DEF StakeGain
  <2>4. StakeGain(st, acc) \in Nat /\ StakeGain(st, acc + more) \in Nat
    BY <1>3, GainIs
  <2> QED BY <1>1, <2>3, <2>4 DEF Fair
<1>10. /\ Unit * r <= AccScale * sh + Unit * (AccScale * ch)
       /\ AccScale * sh <= Unit * r + Unit * over + Unit * (AccScale * Rounds(ch))
  BY <1>5 DEF Fair
<1>11. Unit * (r + of * more) <= AccScale * (sh + gain) + Unit * (AccScale * ch)
  BY ONLY <1>3, <1>4, <1>7, <1>8, <1>10
<1>12. AccScale * (sh + gain)
         <= Unit * (r + of * more) + Unit * (over + of) + Unit * (AccScale * Rounds(ch))
  BY ONLY <1>3, <1>4, <1>7, <1>8, <1>10
<1>13. ch = 0 => st.of = 0
  BY DEF Fair
<1> QED BY ONLY <1>2, <1>4, <1>6, <1>9, <1>11, <1>12, <1>13 DEF Fair

\* A change of the stake takes or gives less than one unit of the accumulator,
\* and the first gives.
LEMMA RestakedRaw ==
  ASSUME NEW st \in Stakes, NEW got \in Nat, NEW acc \in Nat, NEW new \in Stakes,
         new.debt = StakeGain(new, acc), new.accrued = st.accrued + StakeGain(st, acc) - st.debt
  PROVE  /\ Raw(new, got, acc) <= Raw(st, got, acc) + AccScale
         /\ Raw(st, got, acc) <= Raw(new, got, acc) + AccScale
         /\ st.of = 0 => Raw(st, got, acc) <= Raw(new, got, acc)
<1>1. /\ st.of \in Nat /\ st.debt \in Nat /\ st.accrued \in Nat /\ new.of \in Nat
      /\ AccScale \in Nat \ {0}
  BY StakeIs, ScalesAre
<1>2. PICK g \in Nat : g = StakeGain(st, acc)
  BY GainIs
<1>3. PICK h \in Nat : h = StakeGain(new, acc)
  BY GainIs
<1>4. PICK x \in Int : x = got + st.accrued - st.debt
  BY <1>1
<1>5. got + new.accrued - new.debt = x + g - h
  BY <1>1, <1>2, <1>3, <1>4
<1>6. AccScale * (x + g - h) = AccScale * x + AccScale * g - AccScale * h
  <2>1. AccScale * (x + g - h) = AccScale * (x + g) - AccScale * h
    BY <1>1, Products
  <2>2. AccScale * (x + g) = AccScale * x + AccScale * g
    BY <1>1, Products
  <2>3. AccScale * x \in Int /\ AccScale * g \in Int /\ AccScale * h \in Int
    BY <1>1, Products
  <2> QED BY ONLY <2>1, <2>2, <2>3
<1>7. /\ AccScale * x \in Int /\ AccScale * g \in Nat /\ AccScale * h \in Nat
      /\ st.of * acc \in Nat /\ new.of * acc \in Nat
  BY <1>1, Products
<1>8. /\ AccScale * g <= st.of * acc /\ st.of * acc < AccScale * g + AccScale
      /\ AccScale * h <= new.of * acc /\ new.of * acc < AccScale * h + AccScale
  BY <1>2, <1>3, GainIs
<1>9. Raw(st, got, acc) = AccScale * x + st.of * acc
  BY <1>4 DEF Raw
<1>10. Raw(new, got, acc) = AccScale * x + AccScale * g - AccScale * h + new.of * acc
  BY <1>5, <1>6 DEF Raw
<1>11. st.of = 0 => st.of * acc = 0
  BY <1>1
<1>12. PICK f \in Nat : f = st.of * acc
  BY <1>7
<1>13. PICK k \in Nat : k = new.of * acc
  BY <1>7
<1>14. PICK one \in Nat : one = AccScale
  BY <1>1
<1>15. PICK u \in Int : u = AccScale * x
  BY <1>7
<1>16. PICK v \in Nat : v = AccScale * g
  BY <1>7
<1>17. PICK w \in Nat : w = AccScale * h
  BY <1>7
<1>18. v <= f /\ f < v + one /\ w <= k /\ k < w + one /\ (st.of = 0 => f = 0)
  BY ONLY <1>8, <1>11, <1>12, <1>13, <1>14, <1>16, <1>17
<1>19. Raw(st, got, acc) = u + f /\ Raw(new, got, acc) = u + v - w + k
  BY ONLY <1>9, <1>10, <1>12, <1>13, <1>15, <1>16, <1>17
<1>20. /\ u + v - w + k <= u + f + one
       /\ u + f <= u + v - w + k + one
       /\ f = 0 => u + f <= u + v - w + k
  BY ONLY <1>18, f \in Nat, k \in Nat, one \in Nat, u \in Int, v \in Nat, w \in Nat
<1> QED BY ONLY <1>14, <1>18, <1>19, <1>20

LEMMA FairRestaked ==
  ASSUME NEW st \in Stakes, NEW got \in Nat, NEW sh \in Nat, NEW ch \in Nat, NEW over \in Nat,
         NEW acc \in Nat, Fair(st, got, sh, ch, over, acc), NEW new \in Stakes,
         new.debt = StakeGain(new, acc), new.accrued = st.accrued + StakeGain(st, acc) - st.debt
  PROVE  Fair(new, got, sh, ch + 1, over, acc)
<1>1. AccScale \in Nat \ {0} /\ Unit \in Nat \ {0}
  BY ScalesAre
<1>2. PICK r \in Int : r = Raw(st, got, acc)
  BY RawIs
<1>3. PICK q \in Int : q = Raw(new, got, acc)
  BY RawIs
<1>4. q <= r + AccScale /\ r <= q + AccScale /\ (st.of = 0 => r <= q)
  BY <1>2, <1>3, RestakedRaw
<1>5. /\ Unit * r <= AccScale * sh + Unit * (AccScale * ch)
      /\ AccScale * sh <= Unit * r + Unit * over + Unit * (AccScale * Rounds(ch))
      /\ ch = 0 => st.of = 0
  BY <1>2 DEF Fair
<1>6. /\ Unit * (r + AccScale) = Unit * r + Unit * AccScale
      /\ Unit * (q + AccScale) = Unit * q + Unit * AccScale
  BY <1>1, Products
<1>7. \A n \in Nat : /\ AccScale * n \in Int
                     /\ Unit * (AccScale * (n + 1)) = Unit * (AccScale * n) + Unit * AccScale
                     /\ Unit * (AccScale * n) \in Int
  <2> SUFFICES ASSUME NEW n \in Nat
               PROVE  /\ AccScale * n \in Int
                      /\ Unit * (AccScale * (n + 1)) = Unit * (AccScale * n) + Unit * AccScale
                      /\ Unit * (AccScale * n) \in Int
    OBVIOUS
  <2>1. AccScale * (n + 1) = AccScale * n + AccScale /\ AccScale * n \in Int
    BY <1>1, Products
  <2>2. Unit * (AccScale * n + AccScale) = Unit * (AccScale * n) + Unit * AccScale
    BY <1>1, <2>1, Products
  <2>3. Unit * (AccScale * n) \in Int
    BY <1>1, <2>1, Products
  <2> QED BY <2>1, <2>2, <2>3
<1>8. /\ Unit * r \in Int /\ Unit * q \in Int /\ Unit * AccScale \in Int /\ AccScale * sh \in Int
      /\ Unit * over \in Int
  BY <1>1, Products
<1>9. Unit * q <= AccScale * sh + Unit * (AccScale * (ch + 1))
  <2>1. Unit * q <= Unit * (r + AccScale)
    BY <1>1, <1>4, ProductsOrdered
  <2>2. /\ Unit * (AccScale * (ch + 1)) = Unit * (AccScale * ch) + Unit * AccScale
        /\ Unit * (AccScale * ch) \in Int
    BY <1>7
  <2> QED BY ONLY <1>5, <1>6, <1>8, <2>1, <2>2
<1>10. AccScale * sh <= Unit * q + Unit * over + Unit * (AccScale * Rounds(ch + 1))
  <2>1. CASE ch = 0
    <3>1. Rounds(ch) = 0 /\ Rounds(ch + 1) = 0
      BY <2>1 DEF Rounds
    <3>2. Unit * r <= Unit * q
      BY <1>1, <1>4, <1>5, <2>1, ProductsOrdered
    <3>3. Unit * (AccScale * 0) \in Int
      BY <1>7
    <3> QED BY ONLY <1>5, <1>8, <3>1, <3>2, <3>3
  <2>2. CASE ch # 0
    <3>1. PICK n \in Nat : n = Rounds(ch) /\ Rounds(ch + 1) = n + 1
      BY <2>2 DEF Rounds
    <3>2. Unit * r <= Unit * (q + AccScale)
      BY <1>1, <1>4, ProductsOrdered
    <3>3. /\ Unit * (AccScale * (n + 1)) = Unit * (AccScale * n) + Unit * AccScale
          /\ Unit * (AccScale * n) \in Int
      BY <1>7
    <3> QED BY ONLY <1>5, <1>6, <1>8, <3>1, <3>2, <3>3
  <2> QED BY <2>1, <2>2
<1>11. new.debt <= StakeGain(new, acc)
  BY GainIs
<1>12. ch + 1 # 0
  OBVIOUS
<1> QED BY ONLY <1>3, <1>9, <1>10, <1>11, <1>12 DEF Fair

LEMMA FairClaimed ==
  ASSUME NEW st \in Stakes, NEW got \in Nat, NEW sh \in Nat, NEW ch \in Nat, NEW over \in Nat,
         NEW acc \in Nat, Fair(st, got, sh, ch, over, acc), NEW new \in Stakes,
         new.of = st.of, new.accrued = 0, new.debt = StakeGain(st, acc)
  PROVE  Fair(new, got + (st.accrued + StakeGain(st, acc) - st.debt), sh, ch, over, acc)
<1>1. PICK g \in Nat : g = StakeGain(st, acc)
  BY GainIs
<1>2. st.of \in Nat /\ st.debt \in Nat /\ st.accrued \in Nat
  BY StakeIs
<1>3. got + (st.accrued + g - st.debt) + 0 - g = got + st.accrued - st.debt
  BY <1>2
<1>4. Raw(new, got + (st.accrued + g - st.debt), acc) = Raw(st, got, acc)
  BY <1>1, <1>3 DEF Raw
<1>5. StakeGain(new, acc) = g
  BY <1>1 DEF StakeGain
<1> QED BY <1>1, <1>4, <1>5 DEF Fair

\* What was paid and can be claimed is the raw figure rounded down.
LEMMA FairPromises ==
  ASSUME NEW st \in Stakes, NEW got \in Nat, NEW sh \in Nat, NEW ch \in Nat, NEW over \in Nat,
         NEW acc \in Nat, Fair(st, got, sh, ch, over, acc),
         NEW x, x = got + (st.accrued + StakeGain(st, acc) - st.debt)
  PROVE  /\ x * AccScale * Unit <= sh * AccScale + ch * AccScale * Unit
         /\ sh * AccScale <= x * AccScale * Unit + ch * AccScale * Unit + over * Unit
<1>1. AccScale \in Nat \ {0} /\ Unit \in Nat \ {0} /\ st.of \in Nat
  BY ScalesAre, StakeIs
<1>2. PICK g \in Nat : g = StakeGain(st, acc)
  BY GainIs
<1>3. PICK y \in Int : y = got + st.accrued - st.debt
  BY StakeIs
<1>4. x = y + g /\ x \in Int
  BY <1>2, <1>3, StakeIs
<1>5. PICK r \in Int : r = Raw(st, got, acc)
  BY RawIs
<1>6. AccScale * x = AccScale * y + AccScale * g
  BY <1>1, <1>4, Products
<1>7. /\ AccScale * y \in Int /\ AccScale * g \in Nat /\ st.of * acc \in Nat /\ AccScale * x \in Int
  BY <1>1, <1>4, Products
<1>8. AccScale * g <= st.of * acc /\ st.of * acc < AccScale * g + AccScale
  BY <1>2, GainIs
<1>9. r = AccScale * y + st.of * acc
  BY <1>3, <1>5 DEF Raw
<1>10. AccScale * x <= r /\ r <= AccScale * x + AccScale
  BY ONLY <1>1, <1>6, <1>7, <1>8, <1>9
<1>11. ch = 0 => r = AccScale * x
  <2> SUFFICES ASSUME ch = 0
               PROVE  r = AccScale * x
    OBVIOUS
  <2>1. st.of * acc = 0
    BY <1>1 DEF Fair
  <2> QED BY ONLY <1>6, <1>7, <1>8, <1>9, <2>1
<1>12. /\ x * AccScale * Unit = Unit * (AccScale * x)
       /\ ch * AccScale * Unit = Unit * (AccScale * ch)
       /\ over * Unit = Unit * over /\ sh * AccScale = AccScale * sh
  <2>1. x * AccScale = AccScale * x /\ ch * AccScale = AccScale * ch /\ AccScale * ch \in Int
    BY <1>1, <1>4, Products
  <2> QED BY <1>1, <1>7, <2>1, Products
<1>13. /\ Unit * (AccScale * x) <= Unit * r
       /\ Unit * r <= Unit * (AccScale * x + AccScale)
       /\ Unit * (AccScale * x + AccScale) = Unit * (AccScale * x) + Unit * AccScale
  <2>1. AccScale * x + AccScale \in Int
    BY <1>1, <1>7
  <2> QED BY <1>1, <1>7, <1>10, <2>1, ProductsOrdered, Products
<1>14. /\ Unit * r <= AccScale * sh + Unit * (AccScale * ch)
       /\ AccScale * sh <= Unit * r + Unit * over + Unit * (AccScale * Rounds(ch))
  BY <1>5 DEF Fair
<1>15. /\ Unit * r \in Int /\ Unit * (AccScale * x) \in Int /\ Unit * over \in Int
       /\ AccScale * sh \in Int /\ Unit * AccScale \in Int /\ Unit * (AccScale * ch) \in Int
       /\ AccScale * Rounds(ch) \in Int /\ Unit * (AccScale * Rounds(ch)) \in Int
  <2>1. Rounds(ch) \in Int /\ AccScale * ch \in Int
    BY <1>1, Products DEF Rounds
  <2>2. AccScale * Rounds(ch) \in Int
    BY <1>1, <2>1, Products
  <2> QED BY <1>1, <1>7, <2>1, <2>2, Products
<1>16. Unit * (AccScale * x) <= AccScale * sh + Unit * (AccScale * ch)
  BY ONLY <1>13, <1>14, <1>15
<1>17. AccScale * sh <= Unit * (AccScale * x) + Unit * (AccScale * ch) + Unit * over
  <2>1. CASE ch = 0
    <3>1. Rounds(ch) = ch
      BY <2>1 DEF Rounds
    <3> QED BY ONLY <1>11, <1>14, <1>15, <2>1, <3>1
  <2>2. CASE ch # 0
    <3>1. PICK n \in Nat : n = Rounds(ch) /\ ch = n + 1
      BY <2>2 DEF Rounds
    <3>2. AccScale * ch = AccScale * n + AccScale
      BY <1>1, <3>1, Products
    <3>3. Unit * (AccScale * n + AccScale) = Unit * (AccScale * n) + Unit * AccScale
      BY <1>1, <1>15, <3>1, Products
    <3> QED BY ONLY <1>13, <1>14, <1>15, <3>1, <3>2, <3>3
  <2> QED BY <2>1, <2>2
<1> QED BY ONLY <1>12, <1>16, <1>17

-----------------------------------------------------------------------------
(* The inductive invariant.                                                *)

StakesOf == [u \in Users |-> stake[u].of]

Storage ==
    /\ params \in MintParams
    /\ totalSkimmed \in Nat /\ totalStaked \in Nat /\ accUsdcPerStake \in Nat
    /\ undistributed \in Nat /\ usdc \in Nat
    /\ stake \in [Users -> Stakes]
    /\ lossClaimed \subseteq Losses
    /\ lvst \in [Users \cup {House} -> Nat]
    /\ lvst[House] = totalStaked
    /\ totalStaked <= MaxStaked
    /\ totalStaked = SumFunctionOnSet(StakesOf, Users)

History ==
    /\ share \in [Users -> Nat] /\ paid \in [Users -> Nat]
    /\ changes \in [Users -> Nat] /\ stakedOver \in [Users -> Nat]

FairToAll == \A u \in Users :
    Fair(stake[u], paid[u], share[u], changes[u], stakedOver[u], accUsdcPerStake)

IInv == Storage /\ History /\ FairToAll

LEMMA ClaimIs ==
  ASSUME Storage, FairToAll, NEW u \in Users
  PROVE  /\ stake[u] \in Stakes
         /\ pendingDividends(u) = stake[u].accrued + StakeGain(stake[u], accUsdcPerStake) - stake[u].debt
         /\ pendingDividends(u) \in Nat
<1>1. stake[u] \in Stakes /\ accUsdcPerStake \in Nat
  BY DEF Storage
<1>2. pendingDividends(u) = stake[u].accrued + StakeGain(stake[u], accUsdcPerStake) - stake[u].debt
  BY DEF pendingDividends, Acc, StakeGain
<1>3. StakeGain(stake[u], accUsdcPerStake) \in Nat /\ stake[u].debt <= StakeGain(stake[u], accUsdcPerStake)
  BY <1>1, GainIs DEF FairToAll, Fair
<1>4. stake[u].accrued \in Nat /\ stake[u].debt \in Nat
  BY <1>1, StakeIs
<1> QED BY <1>1, <1>2, <1>3, <1>4

LEMMA StakedIs ==
  ASSUME Storage
  PROVE  /\ \A u \in Users : /\ StakesOf[u] = stake[u].of /\ stake[u].of \in Nat
                             /\ stake[u].of <= totalStaked
         /\ IsFiniteSet(Users)
<1>1. ASSUME NEW u \in Users
      PROVE  StakesOf[u] = stake[u].of /\ stake[u].of \in Nat
  <2>1. stake[u] \in Stakes
    BY DEF Storage
  <2> QED BY <2>1, StakeIs DEF StakesOf
<1>2. IsFiniteSet(Users)
  BY TreasuryAssumption
<1>3. \A u \in Users : StakesOf[u] <= SumFunctionOnSet(StakesOf, Users)
  BY <1>1, <1>2, SumNat
<1> QED BY <1>1, <1>2, <1>3 DEF Storage

LEMMA RateIs ==
  ASSUME Storage
  PROVE  mintRate \in Nat
<1>1. /\ params.start \in Nat /\ params.floor \in Nat /\ params.knee \in Nat \ {0}
      /\ params.floor <= params.start /\ totalSkimmed \in Nat
  <2>1. params \in MintParams /\ totalSkimmed \in Nat
    BY DEF Storage
  <2>2. params \in [start : Nat, floor : Nat, knee : Nat \ {0}] /\ params.start >= params.floor
    BY <2>1, TreasuryAssumption
  <2> QED BY <2>1, <2>2
<1>2. params.start - params.floor \in Nat /\ params.knee + totalSkimmed \in Nat \ {0}
  BY <1>1
<1>3. (params.start - params.floor) * params.knee \in Nat
  BY <1>1, <1>2, Products
<1>4. ((params.start - params.floor) * params.knee) \div (params.knee + totalSkimmed) \in Nat
  BY <1>2, <1>3, Quotient
<1> QED BY <1>1, <1>4 DEF mintRate

LEMMA InitKeeps == Init => IInv
<1> SUFFICES ASSUME Init
             PROVE  IInv
  OBVIOUS
<1>1. \A u \in Users : stake[u] = [of |-> 0, debt |-> 0, accrued |-> 0]
  BY DEF Init
<1>2. /\ stake \in [Users -> Stakes] /\ accUsdcPerStake = 0 /\ totalStaked = 0
      /\ params \in MintParams /\ totalSkimmed = 0 /\ undistributed = 0 /\ usdc = 0
      /\ lossClaimed = {} /\ lvst = [h \in Users \cup {House} |-> 0]
  BY DEF Init, Stakes
<1>3. History
  BY DEF Init, History, Zero
<1>4. SumFunctionOnSet(StakesOf, Users) = 0
  <2>1. \A u \in Users : StakesOf[u] = 0
    BY <1>1 DEF StakesOf
  <2>2. IsFiniteSet(Users) /\ Cardinality(Users) \in Nat
    BY TreasuryAssumption, FS_CardinalityType
  <2>3. 0 \in Int /\ 0 * Cardinality(Users) = 0
    BY <2>2
  <2>4. SumFunctionOnSet(StakesOf, Users) = 0 * Cardinality(Users)
    BY <2>1, <2>2, <2>3, SumConstant
  <2> QED BY <2>3, <2>4
<1>5. MaxStaked \in Nat
  BY TreasuryAssumption
<1>6. Storage
  BY <1>2, <1>4, <1>5 DEF Storage
<1>7. ASSUME NEW u \in Users
      PROVE  Fair(stake[u], paid[u], share[u], changes[u], stakedOver[u], accUsdcPerStake)
  <2>1. PICK st : st = stake[u]
    OBVIOUS
  <2>2. st \in Stakes /\ st.of = 0 /\ st.debt = 0 /\ st.accrued = 0
    BY <1>1, <1>2, <2>1
  <2>3. paid[u] = 0 /\ share[u] = 0 /\ changes[u] = 0 /\ stakedOver[u] = 0
    BY DEF Init, Zero
  <2>4. \A x \in Int : x * 0 = 0 /\ 0 * x = 0
    OBVIOUS
  <2>5. AccScale \in Int /\ Unit \in Int
    BY ScalesAre
  <2>6. Raw(st, 0, 0) = 0
    BY <2>2, <2>4, <2>5 DEF Raw
  <2>7. StakeGain(st, 0) \in Nat
    BY <2>2, GainIs
  <2>8. Fair(st, 0, 0, 0, 0, 0)
    BY <2>2, <2>4, <2>5, <2>6, <2>7 DEF Fair, Rounds
  <2> QED BY <1>2, <2>1, <2>3, <2>8
<1> QED BY <1>3, <1>6, <1>7 DEF IInv, FairToAll

LEMMA SkimKeeps ==
  ASSUME IInv, NEW amount \in Nat, notifySkim(amount)
  PROVE  IInv'
<1>0. Storage /\ History /\ FairToAll
  BY DEF IInv
<1>1. /\ totalStaked \in Nat /\ accUsdcPerStake \in Nat /\ undistributed \in Nat
      /\ totalSkimmed \in Nat /\ usdc \in Nat /\ totalStaked <= MaxStaked /\ MaxStaked \in Nat
  BY <1>0, TreasuryAssumption DEF Storage
<1>2. /\ totalSkimmed' = totalSkimmed + amount /\ usdc' = usdc + amount
      /\ params' = params /\ totalStaked' = totalStaked /\ stake' = stake
      /\ lossClaimed' = lossClaimed /\ lvst' = lvst /\ paid' = paid /\ changes' = changes
  BY DEF notifySkim
<1>3. PICK sum \in Nat : sum = amount + undistributed
  BY <1>1
<1>4. StakesOf' = StakesOf
  BY <1>2 DEF StakesOf
<1>5. ASSUME accUsdcPerStake' \in Nat, undistributed' \in Nat
      PROVE  Storage'
  BY <1>0, <1>1, <1>2, <1>4, <1>5 DEF Storage
<1>6. CASE totalStaked > 0
  <2>1. PICK more : more = (sum * AccScale) \div totalStaked
    OBVIOUS
  <2>2. PICK whole \in Nat : whole = Unit \div totalStaked /\ totalStaked * whole = Unit
    <3>1. totalStaked \in 1..MaxStaked /\ totalStaked \in Nat \ {0}
      BY <1>1, <1>6
    <3>2. Unit % totalStaked = 0 /\ Unit \in Nat
      BY <3>1, TreasuryAssumption, ScalesAre
    <3> QED BY <3>1, <3>2, WholeQuotient
  <2>3. /\ accUsdcPerStake' = accUsdcPerStake + more /\ undistributed' = 0
        /\ share' = [u \in Users |-> share[u] + sum * stake[u].of * whole]
        /\ stakedOver' = [u \in Users |-> stakedOver[u] + stake[u].of]
    BY <1>3, <1>6, <2>1, <2>2 DEF notifySkim, Dist
  <2>4. more \in Nat
    <3>1. sum * AccScale \in Nat /\ totalStaked \in Nat \ {0}
      BY <1>1, <1>6, ScalesAre, Products
    <3> QED BY <2>1, <3>1, Quotient
  <2>5. Storage'
    BY <1>1, <1>5, <2>3, <2>4
  <2>6. ASSUME NEW u \in Users
        PROVE  /\ Fair(stake[u], paid[u], share[u] + sum * stake[u].of * whole, changes[u],
                       stakedOver[u] + stake[u].of, accUsdcPerStake + more)
               /\ share[u] + sum * stake[u].of * whole \in Nat
               /\ stakedOver[u] + stake[u].of \in Nat
    <3>1. /\ stake[u] \in Stakes /\ paid[u] \in Nat /\ share[u] \in Nat /\ changes[u] \in Nat
          /\ stakedOver[u] \in Nat /\ totalStaked \in Nat \ {0}
      BY <1>0, <1>1, <1>6 DEF Storage, History
    <3>2. Fair(stake[u], paid[u], share[u], changes[u], stakedOver[u], accUsdcPerStake)
      BY <1>0 DEF FairToAll
    <3>3. Fair(stake[u], paid[u], share[u] + sum * stake[u].of * whole, changes[u],
               stakedOver[u] + stake[u].of, accUsdcPerStake + more)
      BY <1>1, <2>1, <2>2, <3>1, <3>2, FairSkim
    <3>4. stake[u].of \in Nat
      BY <3>1, StakeIs
    <3>5. sum * stake[u].of \in Nat
      BY <3>4, Products
    <3>6. (sum * stake[u].of) * whole \in Nat
      BY <3>5, Products
    <3> QED BY <3>1, <3>3, <3>4, <3>6
  <2>7. History'
    BY <1>0, <1>2, <2>3, <2>6 DEF History
  <2>8. FairToAll'
    BY <1>2, <2>3, <2>6 DEF FairToAll
  <2> QED BY <2>5, <2>7, <2>8 DEF IInv
<1>7. CASE ~(totalStaked > 0)
  <2>1. /\ undistributed' = sum /\ accUsdcPerStake' = accUsdcPerStake
        /\ share' = share /\ stakedOver' = stakedOver
    BY <1>3, <1>7 DEF notifySkim, Dist
  <2>2. Storage'
    BY <1>1, <1>5, <2>1
  <2>3. History' /\ FairToAll'
    BY <1>0, <1>2, <2>1 DEF History, FairToAll
  <2> QED BY <2>2, <2>3 DEF IInv
<1> QED BY <1>6, <1>7

LEMMA MintKeeps ==
  ASSUME IInv, NEW l \in Losses, NEW to \in Users, mintLossLvst(l, to)
  PROVE  IInv'
<1>0. Storage /\ History /\ FairToAll
  BY DEF IInv
<1>1. PICK more \in Nat : more = (Lost[l] * mintRate) \div UsdcOne
  <2>1. Lost[l] \in Nat /\ mintRate \in Nat
    BY <1>0, RateIs, TreasuryAssumption
  <2>2. Lost[l] * mintRate \in Nat
    BY <2>1, Products
  <2> QED BY <2>2, Quotient, ScalesAre
<1>2. lvst' = [lvst EXCEPT ![to] = @ + more] /\ lossClaimed' = lossClaimed \cup {l}
  BY <1>1 DEF mintLossLvst
<1>3. UNCHANGED <<params, totalSkimmed, totalStaked, accUsdcPerStake, undistributed, stake, usdc,
                  share, paid, changes, stakedOver>>
  BY DEF mintLossLvst, curve, accumulator, history
<1>4. lvst' \in [Users \cup {House} -> Nat] /\ lvst'[House] = lvst[House]
  <2>1. lvst \in [Users \cup {House} -> Nat] /\ to # House
    BY <1>0, TreasuryAssumption DEF Storage
  <2> QED BY <1>2, <2>1
<1>5. StakesOf' = StakesOf
  BY <1>3 DEF StakesOf
<1>6. Storage'
  BY <1>0, <1>2, <1>3, <1>4, <1>5 DEF Storage
<1>7. History' /\ FairToAll'
  BY <1>0, <1>3 DEF History, FairToAll
<1> QED BY <1>6, <1>7 DEF IInv

\* The wallet and the Treasury exchange what is staked or taken back.
LEMMA ChangedKeeps ==
  ASSUME IInv, NEW u \in Users, NEW amount \in Int, amount <= lvst[u],
         0 <= stake[u].of + amount, Changed(u, amount)
  PROVE  IInv'
<1>0. Storage /\ History /\ FairToAll
  BY DEF IInv
<1>1. PICK st : st = stake[u]
  OBVIOUS
<1>2. PICK new : new = Restaked(u, st.of + amount)
  OBVIOUS
<1>3. /\ stake' = [stake EXCEPT ![u] = new]
      /\ changes' = [changes EXCEPT ![u] = @ + 1]
      /\ totalStaked' = totalStaked + amount /\ totalStaked' <= MaxStaked
      /\ lvst' = [lvst EXCEPT ![u] = @ - amount, ![House] = @ + amount]
  BY <1>1, <1>2 DEF Changed
<1>4. UNCHANGED <<params, totalSkimmed, accUsdcPerStake, undistributed, lossClaimed, usdc,
                  share, paid, stakedOver>>
  BY DEF Changed, curve
<1>5. st \in Stakes /\ st.of \in Nat /\ accUsdcPerStake \in Nat /\ st.of + amount \in Nat
  <2>1. st \in Stakes /\ accUsdcPerStake \in Nat
    BY <1>0, <1>1 DEF Storage
  <2> QED BY <1>1, <2>1, StakeIs
<1>6. /\ new \in Stakes /\ new.of = st.of + amount /\ new.debt = StakeGain(new, accUsdcPerStake)
      /\ new.accrued = st.accrued + StakeGain(st, accUsdcPerStake) - st.debt
  <2>1. /\ pendingDividends(u) = st.accrued + StakeGain(st, accUsdcPerStake) - st.debt
        /\ pendingDividends(u) \in Nat
    BY <1>0, <1>1, ClaimIs
  <2>2. PICK debt \in Nat : debt = Acc(st.of + amount)
    <3>1. (st.of + amount) * accUsdcPerStake \in Nat
      BY <1>5, Products
    <3> QED BY <3>1, Quotient, ScalesAre DEF Acc
  <2>3. new = [of |-> st.of + amount, debt |-> debt, accrued |-> pendingDividends(u)]
    BY <1>2, <2>2 DEF Restaked
  <2>4. new \in Stakes
    BY <1>5, <2>1, <2>3 DEF Stakes
  <2>5. debt = StakeGain(new, accUsdcPerStake)
    BY <2>2, <2>3 DEF Acc, StakeGain
  <2> QED BY <2>1, <2>3, <2>4, <2>5
<1>7. stake' \in [Users -> Stakes] /\ stake'[u] = new /\ \A o \in Users \ {u} : stake'[o] = stake[o]
  BY <1>0, <1>3, <1>6 DEF Storage
<1>8. changes' \in [Users -> Nat] /\ changes'[u] = changes[u] + 1
      /\ \A o \in Users \ {u} : changes'[o] = changes[o]
  BY <1>0, <1>3 DEF History
<1>9. /\ totalStaked' \in Nat /\ totalStaked' = totalStaked + amount
      /\ lvst' \in [Users \cup {House} -> Nat] /\ lvst'[House] = totalStaked'
  <2>1. /\ totalStaked \in Nat /\ lvst \in [Users \cup {House} -> Nat] /\ lvst[House] = totalStaked
        /\ u # House
    BY <1>0, TreasuryAssumption DEF Storage
  <2>2. st.of <= totalStaked
    BY <1>0, <1>1, StakedIs
  <2>3. totalStaked + amount \in Nat
    BY <1>5, <2>1, <2>2
  <2>4. lvst[u] - amount \in Nat
    BY <2>1
  <2>5. /\ lvst'[House] = lvst[House] + amount /\ lvst'[u] = lvst[u] - amount
        /\ \A h \in (Users \cup {House}) \ {u, House} : lvst'[h] = lvst[h]
        /\ DOMAIN lvst' = Users \cup {House} /\ lvst' = [h \in Users \cup {House} |-> lvst'[h]]
    BY <1>3, <2>1
  <2>6. \A h \in Users \cup {House} : lvst'[h] \in Nat
    BY <2>1, <2>3, <2>4, <2>5
  <2> QED BY <1>3, <2>1, <2>3, <2>5, <2>6
<1>10. totalStaked' = SumFunctionOnSet(StakesOf', Users)
  <2>1. PICK h : h = StakesOf'
    OBVIOUS
  <2>2. /\ \A o \in Users : StakesOf[o] \in Int /\ StakesOf[o] = stake[o].of
        /\ IsFiniteSet(Users)
    BY <1>0, StakedIs
  <2>3. h = [o \in Users |-> stake'[o].of]
    BY <2>1 DEF StakesOf
  <2>4. h[u] = StakesOf[u] + amount /\ h[u] \in Int
    BY <1>1, <1>5, <1>6, <1>7, <2>2, <2>3
  <2>5. \A o \in Users \ {u} : h[o] = StakesOf[o]
    BY <1>7, <2>2, <2>3
  <2>6. SumFunctionOnSet(h, Users) = SumFunctionOnSet(StakesOf, Users) - StakesOf[u] + h[u]
    BY <2>2, <2>4, <2>5, SumPut
  <2>7. totalStaked = SumFunctionOnSet(StakesOf, Users) /\ totalStaked \in Nat
    BY <1>0 DEF Storage
  <2>8. StakesOf[u] \in Int
    BY <2>2
  <2> QED BY <1>3, <2>1, <2>4, <2>6, <2>7, <2>8
<1>11. Storage'
  BY <1>0, <1>3, <1>4, <1>7, <1>9, <1>10 DEF Storage
<1>12. History'
  BY <1>0, <1>4, <1>8 DEF History
<1>13. ASSUME NEW o \in Users
       PROVE  Fair(stake'[o], paid[o], share[o], changes'[o], stakedOver[o], accUsdcPerStake)
  <2>1. Fair(stake[o], paid[o], share[o], changes[o], stakedOver[o], accUsdcPerStake)
    BY <1>0 DEF FairToAll
  <2>2. CASE o # u
    BY <1>7, <1>8, <2>1, <2>2
  <2>3. CASE o = u
    <3>1. paid[u] \in Nat /\ share[u] \in Nat /\ changes[u] \in Nat /\ stakedOver[u] \in Nat
      BY <1>0 DEF History
    <3>2. Fair(st, paid[u], share[u], changes[u], stakedOver[u], accUsdcPerStake)
      BY <1>1, <2>1, <2>3
    <3>3. Fair(new, paid[u], share[u], changes[u] + 1, stakedOver[u], accUsdcPerStake)
      BY <1>5, <1>6, <3>1, <3>2, FairRestaked
    <3> QED BY <1>7, <1>8, <2>3, <3>3
  <2> QED BY <2>2, <2>3
<1>14. FairToAll'
  BY <1>4, <1>13 DEF FairToAll
<1> QED BY <1>11, <1>12, <1>14 DEF IInv

LEMMA ClaimKeeps ==
  ASSUME IInv, NEW u \in Users, claimDividends(u)
  PROVE  IInv'
<1>0. Storage /\ History /\ FairToAll
  BY DEF IInv
<1>1. PICK st : st = stake[u]
  OBVIOUS
<1>2. st \in Stakes /\ accUsdcPerStake \in Nat
  BY <1>0, <1>1 DEF Storage
<1>3. PICK g \in Nat : g = StakeGain(st, accUsdcPerStake)
  BY <1>2, GainIs
<1>4. PICK amount \in Nat : /\ amount = pendingDividends(u)
                            /\ amount = st.accrued + g - st.debt
  BY <1>0, <1>1, <1>3, ClaimIs
<1>5. /\ amount <= usdc /\ usdc' = usdc - amount
      /\ paid' = [paid EXCEPT ![u] = @ + amount]
      /\ stake' = [stake EXCEPT ![u].accrued = 0, ![u].debt = g]
  BY <1>1, <1>3, <1>4 DEF claimDividends, Acc, StakeGain
<1>6. UNCHANGED <<params, totalSkimmed, totalStaked, accUsdcPerStake, undistributed, lossClaimed,
                  lvst, share, changes, stakedOver>>
  BY DEF claimDividends, curve, accumulator
<1>7. PICK new : new = [of |-> st.of, debt |-> g, accrued |-> 0]
  OBVIOUS
<1>8. new \in Stakes /\ new.of = st.of /\ new.accrued = 0 /\ new.debt = g
  BY <1>2, <1>7, StakeIs DEF Stakes
<1>9. stake' = [stake EXCEPT ![u] = new]
  <2>1. stake \in [Users -> Stakes]
    BY <1>0 DEF Storage
  <2>2. [[st EXCEPT !.accrued = 0] EXCEPT !.debt = g] = new
    <3>1. st = [of |-> st.of, debt |-> st.debt, accrued |-> st.accrued]
      BY <1>2 DEF Stakes
    <3>2. PICK one : one = [st EXCEPT !.accrued = 0]
      OBVIOUS
    <3>3. one = [of |-> st.of, debt |-> st.debt, accrued |-> 0]
      BY <3>1, <3>2
    <3>4. [one EXCEPT !.debt = g] = [of |-> st.of, debt |-> g, accrued |-> 0]
      BY ONLY <3>3
    <3> QED BY <1>7, <3>2, <3>4
  <2>3. PICK mid : mid = [stake EXCEPT ![u].accrued = 0]
    OBVIOUS
  <2>4. mid = [stake EXCEPT ![u] = [st EXCEPT !.accrued = 0]]
    BY <1>1, <2>3
  <2>5. stake' = [mid EXCEPT ![u].debt = g]
    BY <1>5, <2>3
  <2>6. mid[u] = [st EXCEPT !.accrued = 0]
    BY <2>1, <2>4
  <2>7. stake' = [mid EXCEPT ![u] = new]
    BY <2>2, <2>5, <2>6
  <2> QED BY <2>1, <2>4, <2>7
<1>10. stake' \in [Users -> Stakes] /\ stake'[u] = new /\ \A o \in Users \ {u} : stake'[o] = stake[o]
  BY <1>0, <1>8, <1>9 DEF Storage
<1>11. StakesOf' = StakesOf
  <2>1. \A o \in Users : stake'[o].of = stake[o].of
    BY <1>1, <1>8, <1>10
  <2> QED BY <2>1 DEF StakesOf
<1>12. usdc' \in Nat
  BY <1>0, <1>5 DEF Storage
<1>13. Storage'
  BY <1>0, <1>6, <1>10, <1>11, <1>12 DEF Storage
<1>14. /\ paid' \in [Users -> Nat] /\ paid'[u] = paid[u] + amount
       /\ \A o \in Users \ {u} : paid'[o] = paid[o]
  BY <1>0, <1>5 DEF History
<1>15. History'
  BY <1>0, <1>6, <1>14 DEF History
<1>16. ASSUME NEW o \in Users
       PROVE  Fair(stake'[o], paid'[o], share[o], changes[o], stakedOver[o], accUsdcPerStake)
  <2>1. Fair(stake[o], paid[o], share[o], changes[o], stakedOver[o], accUsdcPerStake)
    BY <1>0 DEF FairToAll
  <2>2. CASE o # u
    BY <1>10, <1>14, <2>1, <2>2
  <2>3. CASE o = u
    <3>1. paid[u] \in Nat /\ share[u] \in Nat /\ changes[u] \in Nat /\ stakedOver[u] \in Nat
      BY <1>0 DEF History
    <3>2. Fair(st, paid[u], share[u], changes[u], stakedOver[u], accUsdcPerStake)
      BY <1>1, <2>1, <2>3
    <3>3. Fair(new, paid[u] + amount, share[u], changes[u], stakedOver[u], accUsdcPerStake)
      BY <1>2, <1>3, <1>4, <1>8, <3>1, <3>2, FairClaimed
    <3> QED BY <1>10, <1>14, <2>3, <3>3
  <2> QED BY <2>2, <2>3
<1>17. FairToAll'
  BY <1>6, <1>16 DEF FairToAll
<1> QED BY <1>13, <1>15, <1>17 DEF IInv

LEMMA StutterKeeps ==
  ASSUME IInv, params' \in MintParams,
         UNCHANGED <<totalSkimmed, accumulator, stake, lossClaimed, lvst, usdc, history>>
  PROVE  IInv'
<1>1. StakesOf' = StakesOf
  BY DEF StakesOf
<1> QED BY <1>1 DEF IInv, Storage, History, FairToAll, accumulator, history

LEMMA NextKeeps == IInv /\ [Next]_vars => IInv'
<1> SUFFICES ASSUME IInv, [Next]_vars
             PROVE  IInv'
  OBVIOUS
<1>0. Storage
  BY DEF IInv
<1>1. ASSUME NEW p \in MintParams, setMintParams(p)
      PROVE  IInv'
  BY <1>1, StutterKeeps DEF setMintParams
<1>2. ASSUME NEW amount \in Skims, notifySkim(amount)
      PROVE  IInv'
  <2>1. amount \in Nat
    BY TreasuryAssumption
  <2> QED BY <1>2, <2>1, SkimKeeps
<1>3. ASSUME NEW l \in Losses, NEW to \in Users, mintLossLvst(l, to)
      PROVE  IInv'
  BY <1>3, MintKeeps
<1>4. ASSUME NEW u \in Users, NEW amount \in 1..lvst[u], stakeLvst(u, amount)
      PROVE  IInv'
  <2>1. amount \in Int /\ amount <= lvst[u] /\ Changed(u, amount) /\ amount >= 0
    BY <1>4 DEF stakeLvst
  <2>2. stake[u].of \in Nat
    BY <1>0, StakedIs
  <2> QED BY <2>1, <2>2, ChangedKeeps
<1>5. ASSUME NEW u \in Users, NEW amount \in 1..stake[u].of, unstakeLvst(u, amount)
      PROVE  IInv'
  <2>1. amount \in Int /\ amount <= stake[u].of /\ Changed(u, -amount) /\ amount >= 0
    BY <1>5 DEF unstakeLvst
  <2>2. stake[u].of \in Nat /\ lvst[u] \in Nat
    BY <1>0, StakedIs DEF Storage
  <2>3. -amount \in Int /\ -amount <= lvst[u] /\ 0 <= stake[u].of + (-amount)
    BY <2>1, <2>2
  <2> QED BY <2>1, <2>3, ChangedKeeps
<1>6. ASSUME NEW u \in Users, claimDividends(u)
      PROVE  IInv'
  BY <1>6, ClaimKeeps
<1>7. CASE UNCHANGED vars
  <2>1. params' \in MintParams
    BY <1>0, <1>7 DEF vars, curve, Storage
  <2> QED BY <1>7, <2>1, StutterKeeps DEF vars, curve
<1> QED BY <1>1, <1>2, <1>3, <1>4, <1>5, <1>6, <1>7 DEF Next

LEMMA IInvHolds == Spec => []IInv
BY InitKeeps, NextKeeps, PTL DEF Spec

-----------------------------------------------------------------------------
(* The theorems.                                                           *)

\* Every reachable state of the Treasury has its type: it holds exactly the
\* LVST that is staked, so an unstake never fails for want of it, and no
\* dividend is negative (_settleDividends and _stake of Treasury.sol).
THEOREM TypeCorrect == Spec => []TypeOK
<1>1. IInv => TypeOK
  <2> SUFFICES ASSUME IInv
               PROVE  TypeOK
    OBVIOUS
  <2>1. Storage /\ FairToAll
    BY DEF IInv
  <2>2. \A u \in Users : pendingDividends(u) >= 0
    BY <2>1, ClaimIs
  <2>3. SumFunction([u \in Users |-> stake[u].of]) = SumFunctionOnSet(StakesOf, Users)
    BY DEF SumFunction, StakesOf
  <2> QED BY <2>1, <2>2, <2>3 DEF Storage, TypeOK, Stakes
<1> QED BY <1>1, IInvHolds, PTL

\* Staked LVST earns every skim pro rata, through any staking, unstaking,
\* skims nobody was staked for and claims in between: what a user was paid and
\* can still claim is what its stake earned, but for a unit at each change of
\* the stake and 1/ACC_SCALE for each unit staked at each skim (Treasury.sol:
\* notifySkim, _settleDividends, pendingDividends).
THEOREM PaysProRata == Spec => []ProRata
<1>1. IInv => ProRata
  <2> SUFFICES ASSUME IInv, NEW u \in Users
               PROVE  LET got == (paid[u] + pendingDividends(u)) * AccScale * Unit
                          due == share[u] * AccScale
                          unit == changes[u] * AccScale * Unit
                      IN  /\ got <= due + unit
                          /\ due <= got + unit + stakedOver[u] * Unit
    BY DEF ProRata
  <2>1. Storage /\ FairToAll /\ History
    BY DEF IInv
  <2>2. /\ stake[u] \in Stakes
        /\ pendingDividends(u) = stake[u].accrued + StakeGain(stake[u], accUsdcPerStake) - stake[u].debt
    BY <2>1, ClaimIs
  <2>3. /\ paid[u] \in Nat /\ share[u] \in Nat /\ changes[u] \in Nat /\ stakedOver[u] \in Nat
        /\ accUsdcPerStake \in Nat
    BY <2>1 DEF History, Storage
  <2>4. Fair(stake[u], paid[u], share[u], changes[u], stakedOver[u], accUsdcPerStake)
    BY <2>1 DEF FairToAll
  <2>5. PICK x : x = paid[u] + pendingDividends(u)
    OBVIOUS
  <2>6. /\ x * AccScale * Unit <= share[u] * AccScale + changes[u] * AccScale * Unit
        /\ share[u] * AccScale <= x * AccScale * Unit + changes[u] * AccScale * Unit
                                  + stakedOver[u] * Unit
    BY <2>2, <2>3, <2>4, <2>5, FairPromises
  <2> QED BY <2>5, <2>6
<1> QED BY <1>1, IInvHolds, PTL

=============================================================================
