------------------------- MODULE SkynetTimerProofs -------------------------
(***************************************************************************)
(* Proofs about SkynetTimer, for any timers, numbers of lists and lag of   *)
(* the clock.  The list a node belongs to is told by the first level from  *)
(* which on its tick agrees with the time (Agree).  When the time moves on *)
(* over a boundary, the levels below the one that is cascaded are empty,   *)
(* because a node in them would be due in more ticks than a timeout can    *)
(* ask for; the levels above are not touched by the carry.                 *)
(***************************************************************************)
EXTENDS SkynetTimer, LineFacts, TLAPS

USE SizeAssumption, LagAssumption

-----------------------------------------------------------------------------
(* Quotients of ticks.                                                     *)

\* The quotient, and that nothing remains.
Quo(x, d) == x \div d
Divides(d, x) == x % d = 0
Product(D, L, d) == D = L * d

\* Dividing by a product is dividing twice.
LEMMA Twice ==
  ASSUME NEW x \in Nat, NEW d \in Nat \ {0}, NEW L \in Nat \ {0},
         NEW D \in Nat \ {0}, Product(D, L, d)
  PROVE  /\ Quo(x, D) = Quo(Quo(x, d), L)
         /\ Divides(D, x) <=> Divides(d, x) /\ Divides(L, Quo(x, d))
<1> DEFINE q == x \div d
           r == x % d
           p == q \div L
           s == q % L
<1>0. D = L * d
  BY DEF Product
<1>1. q \in Nat /\ r \in Nat /\ r < d /\ x = d * q + r
  BY Multiple
<1> HIDE DEF q, r
<1>2. p \in Nat /\ s \in Nat /\ s < L /\ q = L * p + s
  BY <1>1, Multiple
<1> HIDE DEF p, s
<1>3. L * d \in Nat /\ L * d >= d /\ L * d # 0
  OBVIOUS
<1>4. d * s + r \in Nat /\ d * s + r < L * d
  <2>1. d * s + d * (L - 1 - s) = d * (L - 1) /\ d * (L - 1 - s) >= 0 /\ d * s >= 0
    BY <1>2
  <2>2. d * (L - 1) = L * d - d
    OBVIOUS
  <2> QED BY <1>1, <1>2, <1>3, <2>1, <2>2
<1>5. x = (L * d) * p + (d * s + r)
  <2>1. d * q = d * (L * p) + d * s
    BY <1>1, <1>2
  <2>2. d * (L * p) = (L * d) * p
    BY <1>2
  <2> QED BY <1>1, <1>2, <2>1, <2>2
<1>6. D \in Nat \ {0} /\ x \div D = p /\ x % D = d * s + r
  <2> DEFINE y == d * s + r
  <2>1. D \in Nat \ {0} /\ y \in Nat /\ y < D /\ x = D * p + y
    BY <1>0, <1>3, <1>4, <1>5
  <2> HIDE DEF y
  <2>2. x \div D = p /\ x % D = y
    BY <1>2, <2>1, Quotient
  <2> QED BY <2>1, <2>2 DEF y
<1>7. d * s + r = 0 <=> r = 0 /\ s = 0
  <2>1. s # 0 => d * s >= d
    BY <1>2
  <2>2. s = 0 => d * s = 0
    OBVIOUS
  <2> QED BY <1>1, <1>2, <2>1, <2>2
<1>8. Quo(x, d) = q /\ Quo(q, L) = p /\ Quo(x, D) = p
  BY <1>6 DEF Quo, q, p
<1>9. (Divides(D, x) <=> d * s + r = 0) /\ (Divides(d, x) <=> r = 0) /\ (Divides(L, q) <=> s = 0)
  BY <1>6 DEF Divides, q, r, s
<1> QED BY <1>7, <1>8, <1>9

\* The next tick either has the same quotient, or begins a new block: what
\* had the old quotient is not ahead of the old tick and less than a block
\* behind it.
LEMMA NextTick ==
  ASSUME NEW x \in Nat, NEW d \in Nat \ {0}
  PROVE  /\ (x + 1) % d # 0 => (x + 1) \div d = x \div d
         /\ (x + 1) % d = 0 =>
               \A e \in Nat : e \div d = x \div d => e <= x /\ x - e < d
<1> DEFINE q == x \div d
           r == x % d
<1>1. q \in Nat /\ r \in Nat /\ r < d /\ x = d * q + r
  BY Multiple
<1>2. CASE r + 1 < d
  <2> HIDE DEF q, r
  <2>1. x + 1 = d * q + (r + 1) /\ r + 1 \in Nat /\ x + 1 \in Nat
    BY <1>1
  <2>2. (x + 1) \div d = q /\ (x + 1) % d = r + 1
    BY <1>1, <1>2, <2>1, Quotient
  <2> QED BY <1>1, <2>2 DEF q
<1>3. CASE r + 1 = d
  <2>1. ASSUME NEW e \in Nat, e \div d = x \div d PROVE e <= x /\ x - e < d
    <3> DEFINE s == e % d
    <3>1. s \in Nat /\ s < d /\ e = d * q + s
      BY <2>1, Multiple
    <3> HIDE DEF s, q, r
    <3>2. d * q \in Nat
      BY <1>1
    <3> QED BY <1>1, <1>3, <3>1, <3>2
  <2>2. (x + 1) % d = 0
    <3> HIDE DEF q, r
    <3>1. x + 1 = d * (q + 1) + 0 /\ q + 1 \in Nat /\ x + 1 \in Nat
      BY <1>1, <1>3
    <3> QED BY <3>1, Quotient
  <2> QED BY <2>1, <2>2
<1> QED BY <1>1, <1>2, <1>3

-----------------------------------------------------------------------------
(* The levels.                                                             *)

\* The unit of each level.
LEMMA Units ==
  /\ Unit[0] = Near
  /\ \A i \in 1 .. 4 : Unit[i] = Level * Unit[i - 1]
  /\ \A i \in 0 .. 4 : Unit[i] \in Nat \ {0}
<1> DEFINE F == CHOOSE f : f = [i \in 0 .. 4 |-> IF i = 0 THEN Near ELSE Level * f[i - 1]]
           step == [k \in 1 .. 4 |-> [x \in Nat |-> Level * x]]
<1>1. PICK g \in [0 .. 4 -> Nat] : Rounds(g, 4, Near, step)
  <2>1. step \in [1 .. 4 -> [Nat -> Nat]] /\ 4 \in Nat /\ Near \in Nat
    OBVIOUS
  <2> HIDE DEF step
  <2> QED BY <2>1, Iterate
<1>2. g = [i \in 0 .. 4 |-> IF i = 0 THEN Near ELSE Level * g[i - 1]]
  <2> HIDE DEF step
  <2>1. ASSUME NEW k \in 1 .. 4 PROVE g[k] = Level * g[k - 1]
    <3>1. g[k] = step[k][g[k - 1]] /\ k - 1 \in 0 .. 4 /\ g[k - 1] \in Nat
      BY <1>1 DEF Rounds
    <3>2. step[k] = [x \in Nat |-> Level * x]
      BY DEF step
    <3> QED BY <3>1, <3>2
  <2> QED BY <1>1, <2>1 DEF Rounds
<1>3. F = [i \in 0 .. 4 |-> IF i = 0 THEN Near ELSE Level * F[i - 1]]
  BY <1>2
<1>4. Unit = F
  BY DEF Unit
<1> HIDE DEF F
<1>5. Unit[0] = Near /\ \A i \in 1 .. 4 : Unit[i] = Level * Unit[i - 1]
  BY <1>3, <1>4
<1>6. /\ Unit[1] = Level * Unit[0] /\ Unit[2] = Level * Unit[1]
      /\ Unit[3] = Level * Unit[2] /\ Unit[4] = Level * Unit[3]
  BY <1>5
<1>7. \A x \in Nat \ {0} : Level * x \in Nat \ {0}
  OBVIOUS
<1>8. Unit[0] \in Nat \ {0} /\ Unit[1] \in Nat \ {0} /\ Unit[2] \in Nat \ {0}
      /\ Unit[3] \in Nat \ {0} /\ Unit[4] \in Nat \ {0}
  BY <1>5, <1>6, <1>7
<1> QED BY <1>5, <1>8

\* The units grow, and a timeout is shorter than the way back to the
\* beginning of a block of the highest level.
LEMMA UnitBounds ==
  /\ \A i \in 0 .. 3 : Unit[i] <= Unit[3]
  /\ Range32 \in Nat \ {0} /\ MaxTimeout \in Nat
  /\ Unit[3] < Range32 /\ MaxTimeout < Range32 - Unit[3]
<1>1. \A i \in 0 .. 4 : Unit[i] \in Nat \ {0}
  BY Units
<1>2. \A x \in Nat \ {0} : Level * x >= x + x
  <2> SUFFICES ASSUME NEW x \in Nat \ {0} PROVE Level * x >= x + x
    OBVIOUS
  <2>1. Level * x = x + x + (Level - 2) * x /\ (Level - 2) * x >= 0
    OBVIOUS
  <2> QED BY <2>1
<1>3. /\ Unit[1] = Level * Unit[0] /\ Unit[2] = Level * Unit[1]
      /\ Unit[3] = Level * Unit[2] /\ Unit[4] = Level * Unit[3]
  BY Units
<1>4. /\ Unit[1] >= Unit[0] + Unit[0] /\ Unit[2] >= Unit[1] + Unit[1]
      /\ Unit[3] >= Unit[2] + Unit[2] /\ Unit[4] >= Unit[3] + Unit[3]
  BY <1>1, <1>2, <1>3
<1>5. \A i \in 0 .. 3 : Unit[i] <= Unit[3]
  BY <1>1, <1>4
<1>6. Range32 \in Nat /\ Range32 >= Unit[3] + Unit[3] /\ Unit[3] \in Nat \ {0}
  BY <1>1, <1>4 DEF Range32
<1>7. MaxTimeout = Range32 \div 2 - 1
  BY DEF MaxTimeout
<1> QED BY <1>5, <1>6, <1>7

\* Two ticks are in the same block of level k.
Agree(e, x, k) == e \div Unit[k] = x \div Unit[k]

\* Agreement is handed on to the next level, and comes down where the indices
\* are the same.
LEMMA AgreeUp ==
  ASSUME NEW e \in Nat, NEW x \in Nat, NEW k \in 0 .. 3
  PROVE  /\ Agree(e, x, k) => Agree(e, x, k + 1) /\ IndexAt(e, k) = IndexAt(x, k)
         /\ Agree(e, x, k + 1) /\ IndexAt(e, k) = IndexAt(x, k) => Agree(e, x, k)
<1> DEFINE d == Unit[k]
           a == e \div d
           b == x \div d
<1>1. d \in Nat \ {0} /\ Unit[k + 1] = Level * d /\ k + 1 \in 0 .. 4
  BY Units
<1> HIDE DEF d
<1> DEFINE D == Unit[k + 1]
<1>2. e \div D = a \div Level /\ x \div D = b \div Level
  <2>1. Level \in Nat \ {0} /\ D \in Nat \ {0} /\ Product(D, Level, d)
    BY <1>1, Units DEF Product
  <2> HIDE DEF D
  <2>2. Quo(e, D) = Quo(Quo(e, d), Level) /\ Quo(x, D) = Quo(Quo(x, d), Level)
    BY <1>1, <2>1, Twice
  <2> QED BY <2>2 DEF Quo
<1>3. a \in Nat /\ b \in Nat
  BY <1>1, Multiple
<1>4. IndexAt(e, k) = a % Level /\ IndexAt(x, k) = b % Level
  BY DEF IndexAt, d
<1>5. Agree(e, x, k) <=> a = b
  BY DEF Agree, d
<1>6. Agree(e, x, k + 1) <=> a \div Level = b \div Level
  BY <1>1, <1>2 DEF Agree
<1> HIDE DEF a, b
<1>7. a = Level * (a \div Level) + (a % Level) /\ b = Level * (b \div Level) + (b % Level)
  BY <1>3, Multiple
<1> QED BY <1>4, <1>5, <1>6, <1>7

\* All ticks are in one block of level 4.
LEMMA AgreeTop ==
  ASSUME NEW e \in 0 .. Range32 - 1, NEW x \in 0 .. Range32 - 1
  PROVE  Agree(e, x, 4)
<1>1. Range32 \in Nat \ {0} /\ Unit[4] = Range32
  BY UnitBounds DEF Range32
<1>2. ASSUME NEW y \in 0 .. Range32 - 1 PROVE y \div Range32 = 0
  <2>1. y = Range32 * 0 + y /\ y < Range32 /\ y \in Nat
    BY <1>1
  <2> QED BY <1>1, <2>1, Quotient
<1> QED BY <1>1, <1>2 DEF Agree

\* The level of a node in terms of agreement.
LEMMA LevelIs ==
  ASSUME NEW e \in 0 .. Range32 - 1, NEW x \in 0 .. Range32 - 1
  PROVE  /\ IsNear(e, x) <=> Agree(e, x, 0)
         /\ LevelFor(e, x) \in 0 .. 3
         /\ \A i \in 0 .. 3 : (~IsNear(e, x) /\ LevelFor(e, x) = i) <=>
                              (~Agree(e, x, i) /\ Agree(e, x, i + 1))
<1> DEFINE A(k) == Agree(e, x, k)
           fits == {i \in 0 .. 2 : e \div Unit[i + 1] = x \div Unit[i + 1]}
           l == CHOOSE i \in fits : \A j \in fits : i <= j
<1>1. e \in Nat /\ x \in Nat
  BY UnitBounds
<1>2. (A(0) => A(1)) /\ (A(1) => A(2)) /\ (A(2) => A(3)) /\ A(4)
  <2>1. \A k \in 0 .. 3 : A(k) => A(k + 1)
    BY <1>1, AgreeUp
  <2>2. A(4)
    BY AgreeTop
  <2> HIDE DEF A
  <2> QED BY <2>1, <2>2
<1>3. IsNear(e, x) <=> A(0)
  BY DEF IsNear, Agree
<1>4. \A i \in 0 .. 2 : i \in fits <=> A(i + 1)
  BY DEF Agree
<1>5. LevelFor(e, x) = IF fits = {} THEN 3 ELSE l
  BY DEF LevelFor
<1>6. fits # {} => l \in fits /\ \A j \in fits : l <= j
  <2> SUFFICES ASSUME fits # {} PROVE l \in fits /\ \A j \in fits : l <= j
    OBVIOUS
  <2>1. fits \in SUBSET Nat
    OBVIOUS
  <2> HIDE DEF fits
  <2>2. \E i \in fits : \A j \in fits : i <= j
    BY <2>1, Least
  <2> QED BY <2>2
<1>7. fits \subseteq 0 .. 2
  OBVIOUS
<1> HIDE DEF A, fits, l
<1>8. fits = {} => ~A(1) /\ ~A(2) /\ ~A(3)
  BY <1>4
<1>9. LevelFor(e, x) \in 0 .. 3
  <2>1. LevelFor(e, x) = 3 \/ LevelFor(e, x) \in 0 .. 2
    BY <1>5, <1>6, <1>7, Zenon
  <2> QED BY <2>1
<1>10. ASSUME NEW i \in 0 .. 3
       PROVE  (~A(0) /\ LevelFor(e, x) = i) <=> (~A(i) /\ A(i + 1))
  <2>1. CASE fits = {}
    <3>1. LevelFor(e, x) = 3
      BY <1>5, <2>1
    <3> QED BY <1>2, <1>8, <2>1, <3>1
  <2>2. CASE fits # {}
    <3>1. LevelFor(e, x) = l /\ l \in 0 .. 2 /\ A(l + 1) /\ \A j \in 0 .. 2 : A(j + 1) => l <= j
      BY <1>4, <1>5, <1>6, <1>7, <2>2
    <3>2. i = 0 \/ i = 1 \/ i = 2 \/ i = 3
      OBVIOUS
    <3>3. l = 0 \/ l = 1 \/ l = 2
      BY <3>1
    <3>4. (A(1) => l <= 0) /\ (A(2) => l <= 1) /\ (A(3) => l <= 2)
      BY <3>1
    <3> QED BY <1>2, <3>1, <3>2, <3>3, <3>4
  <2> QED BY <2>1, <2>2
<1> QED BY <1>3, <1>9, <1>10 DEF A

-----------------------------------------------------------------------------
(* The next tick.                                                          *)

\* The ticks from x on until e, modulo the range of the counter.
Away(e, x) == (e - x) % Range32

\* The distance on the wrapping counter, as an IF instead of a remainder
LEMMA AwayIs ==
  ASSUME NEW e \in 0 .. Range32 - 1, NEW x \in 0 .. Range32 - 1
  PROVE  Away(e, x) = IF x <= e THEN e - x ELSE e - x + Range32
<1> DEFINE R == Range32
           y == e - x
           q == y \div R
           r == y % R
<1>0. R \in Nat \ {0}
  BY UnitBounds
<1> HIDE DEF R
<1>1. y \in Int /\ y < R /\ y > 0 - R /\ (y < 0 <=> ~(x <= e))
  BY <1>0 DEF R
<1> HIDE DEF y
<1>2. q \in Int /\ r \in Nat /\ r < R /\ y = R * q + r
  BY <1>0, <1>1
<1> HIDE DEF q, r
<1>3. q >= 1 => R * q >= R
  BY <1>0, <1>2
<1>4. q <= 0 - 2 => R * q <= 0 - R - R
  BY <1>0, <1>2
<1>5. q = 0 => R * q = 0
  BY <1>0
<1>6. q = 0 - 1 => R * q = 0 - R
  BY <1>0
<1>7. q = 0 \/ q = 0 - 1
  BY <1>0, <1>1, <1>2, <1>3, <1>4
<1>8. r = IF x <= e THEN y ELSE y + R
  BY <1>0, <1>1, <1>2, <1>5, <1>6, <1>7
<1> QED BY <1>8 DEF Away, R, r, y

\* What is a multiple of a level's unit is one of the unit below.
LEMMA DividesDown ==
  ASSUME NEW x \in Nat, NEW k \in 0 .. 3
  PROVE  Divides(Unit[k + 1], x) <=> Divides(Unit[k], x) /\ IndexAt(x, k) = 0
<1> DEFINE d == Unit[k]
           D == Unit[k + 1]
<1>1. /\ d \in Nat \ {0} /\ D \in Nat \ {0} /\ Level \in Nat \ {0}
      /\ Product(D, Level, d)
  BY Units DEF Product
<1>2. Divides(Level, Quo(x, d)) <=> IndexAt(x, k) = 0
  BY DEF Divides, Quo, IndexAt
<1> HIDE DEF d, D
<1>3. Divides(D, x) <=> Divides(d, x) /\ Divides(Level, Quo(x, d))
  BY <1>1, Twice
<1> QED BY <1>2, <1>3 DEF d, D

\* Where the units divide x, the ones below do.
LEMMA DividesBelow ==
  ASSUME NEW x \in Nat, NEW k \in 0 .. 4, Divides(Unit[k], x)
  PROVE  \A j \in 0 .. k : Divides(Unit[j], x)
<1> DEFINE V(j) == Divides(Unit[j], x)
<1>1. \A j \in 0 .. 3 : V(j + 1) => V(j)
  BY DividesDown
<1>2. V(k)
  OBVIOUS
<1> HIDE DEF V
<1>3. (V(1) => V(0)) /\ (V(2) => V(1)) /\ (V(3) => V(2)) /\ (V(4) => V(3))
  BY <1>1
<1>4. ASSUME NEW j \in 0 .. k PROVE V(j)
  <2>1. k = 0 \/ k = 1 \/ k = 2 \/ k = 3 \/ k = 4
    OBVIOUS
  <2>2. j = 0 \/ j = 1 \/ j = 2 \/ j = 3 \/ j = 4
    OBVIOUS
  <2>3. j <= k
    OBVIOUS
  <2> QED BY <1>2, <1>3, <2>1, <2>2, <2>3
<1> QED BY <1>4 DEF V

\* ++T->time
NextTime(x) == (x + 1) % Range32

\* The next tick: one more, or the wrap of T->time to 0
LEMMA NextTimeIs ==
  ASSUME NEW x \in 0 .. Range32 - 1
  PROVE  /\ NextTime(x) \in 0 .. Range32 - 1
         /\ NextTime(x) = IF x = Range32 - 1 THEN 0 ELSE x + 1
<1>0. Range32 \in Nat \ {0}
  BY UnitBounds
<1>1. CASE x = Range32 - 1
  <2>1. x + 1 = Range32 * 1 + 0 /\ x + 1 \in Nat /\ 0 < Range32
    BY <1>0, <1>1
  <2>2. (x + 1) % Range32 = 0
    BY <1>0, <2>1, Quotient
  <2> QED BY <1>0, <1>1, <2>2 DEF NextTime
<1>2. CASE x # Range32 - 1
  <2>1. x + 1 = Range32 * 0 + (x + 1) /\ x + 1 \in Nat /\ x + 1 < Range32
    BY <1>0, <1>2
  <2>2. (x + 1) % Range32 = x + 1
    BY <1>0, <2>1, Quotient
  <2> QED BY <1>0, <1>2, <2>1, <2>2 DEF NextTime
<1> QED BY <1>1, <1>2

\* One tick less is left of everything.
LEMMA AwayNext ==
  ASSUME NEW x \in 0 .. Range32 - 1, NEW e \in 0 .. Range32 - 1, Away(e, x) # 0
  PROVE  Away(e, NextTime(x)) = Away(e, x) - 1
<1>1. NextTime(x) \in 0 .. Range32 - 1
      /\ NextTime(x) = IF x = Range32 - 1 THEN 0 ELSE x + 1
  BY NextTimeIs
<1>2. Range32 \in Nat \ {0}
  BY UnitBounds
<1>3. Away(e, x) = IF x <= e THEN e - x ELSE e - x + Range32
  BY AwayIs
<1>4. Away(e, NextTime(x)) = IF NextTime(x) <= e THEN e - NextTime(x)
                             ELSE e - NextTime(x) + Range32
  BY <1>1, AwayIs
<1> QED BY <1>1, <1>2, <1>3, <1>4

\* The units that do not divide the new time leave the blocks as they are;
\* in a block that ends, nothing is left that a timeout could ask for.
LEMMA Boundary ==
  ASSUME NEW x \in 0 .. Range32 - 1, NEW k \in 0 .. 3
  PROVE  LET ct == NextTime(x) IN
         /\ ~Divides(Unit[k], ct) => Agree(x, ct, k)
         /\ Divides(Unit[k], ct) =>
               \A e \in 0 .. Range32 - 1 :
                  Agree(e, x, k) /\ Away(e, x) # 0 => Away(e, x) > MaxTimeout
<1> DEFINE ct == NextTime(x)
           d == Unit[k]
<1>1. ct = IF x = Range32 - 1 THEN 0 ELSE x + 1
  BY NextTimeIs
<1>2. Range32 \in Nat \ {0} /\ x \in Nat /\ x + 1 \in Nat /\ d \in Nat \ {0}
      /\ d <= Unit[3] /\ Unit[3] \in Nat
      /\ MaxTimeout < Range32 - Unit[3] /\ MaxTimeout \in Nat
  BY UnitBounds, Units
<1>3. Divides(d, Range32) /\ Divides(d, 0)
  <2>1. Divides(Unit[4], Range32)
    <3>1. Range32 = Range32 * 1 + 0 /\ 0 < Range32
      BY <1>2
    <3> QED BY <1>2, <3>1, Quotient DEF Divides, Range32
  <2>2. 0 = d * 0 + 0 /\ 0 < d
    BY <1>2
  <2>3. Divides(d, 0)
    BY <1>2, <2>2, Quotient DEF Divides
  <2> QED BY <1>2, <2>1, <2>3, DividesBelow
<1>4. Divides(d, x + 1) <=> Divides(d, ct)
  BY <1>1, <1>2, <1>3
<1>5. /\ ~Divides(d, x + 1) => (x + 1) \div d = x \div d
      /\ Divides(d, x + 1) =>
            \A e \in Nat : e \div d = x \div d => e <= x /\ x - e < d
  BY <1>2, NextTick DEF Divides
<1>6. ASSUME ~Divides(d, ct) PROVE Agree(x, ct, k)
  <2>1. ct = x + 1
    BY <1>1, <1>3, <1>6
  <2> QED BY <1>4, <1>5, <1>6, <2>1 DEF Agree
<1>7. ASSUME Divides(d, ct), NEW e \in 0 .. Range32 - 1, Agree(e, x, k), Away(e, x) # 0
      PROVE  Away(e, x) > MaxTimeout
  <2>1. e \in Nat /\ e <= x /\ x - e < d
    BY <1>2, <1>4, <1>5, <1>7 DEF Agree
  <2>2. Away(e, x) = IF x <= e THEN e - x ELSE e - x + Range32
    BY AwayIs
  <2> HIDE DEF d
  <2> QED BY <1>2, <1>7, <2>1, <2>2
<1> QED BY <1>6, <1>7

-----------------------------------------------------------------------------
(* The list of a tick.                                                     *)

\* A node that expires at e belongs to near list j, to list j of level i.
NearAt(e, x, j) == IsNear(e, x) /\ e % Near = j
FarAt(e, x, i, j) == ~IsNear(e, x) /\ LevelFor(e, x) = i /\ IndexAt(e, i) = j

\* List idx of level i is the one that timer_shift cascades at ct.
Cascade(ct, i, idx) ==
    /\ i \in 0 .. 3 /\ idx = IndexAt(ct, i)
    /\ IF ct = 0 THEN i = 3 ELSE Divides(Unit[i], ct) /\ idx # 0

\* The list add_node chooses, in terms of the levels from which two times agree
LEMMA FarIs ==
  ASSUME NEW e \in 0 .. Range32 - 1, NEW x \in 0 .. Range32 - 1, NEW i \in 0 .. 3, NEW j
  PROVE  FarAt(e, x, i, j) <=> ~Agree(e, x, i) /\ Agree(e, x, i + 1) /\ IndexAt(e, i) = j
<1>1. (~IsNear(e, x) /\ LevelFor(e, x) = i) <=> (~Agree(e, x, i) /\ Agree(e, x, i + 1))
  BY LevelIs
<1> QED BY <1>1 DEF FarAt

\* Between boundaries nothing changes its list.
LEMMA Stays ==
  ASSUME NEW x \in 0 .. Range32 - 1, ~Divides(Near, NextTime(x)),
         NEW e \in 0 .. Range32 - 1
  PROVE  /\ \A j : NearAt(e, x, j) => NearAt(e, NextTime(x), j)
         /\ \A i \in 0 .. 3 : \A j : FarAt(e, x, i, j) => FarAt(e, NextTime(x), i, j)
<1> DEFINE ct == NextTime(x)
           S(k) == Agree(x, ct, k)
<1>1. ct \in 0 .. Range32 - 1 /\ x \in Nat /\ ct \in Nat /\ Range32 \in Nat
  BY NextTimeIs, UnitBounds
<1>2. S(0)
  BY Boundary, Units
<1>3. \A k \in 0 .. 3 : S(k) => S(k + 1)
  BY <1>1, AgreeUp
<1>4. \A k \in 0 .. 4 : S(k)
  <2> HIDE DEF S
  <2>1. S(0) /\ S(1) /\ S(2) /\ S(3) /\ S(4)
    BY <1>2, <1>3
  <2> QED BY <2>1
<1>5. \A k \in 0 .. 4 : Agree(e, x, k) <=> Agree(e, ct, k)
  BY <1>4 DEF Agree
<1>6. IsNear(e, x) <=> IsNear(e, ct)
  BY <1>1, <1>5, LevelIs
<1>7. ASSUME NEW i \in 0 .. 3, NEW j, FarAt(e, x, i, j) PROVE FarAt(e, ct, i, j)
  <2>1. i \in 0 .. 4 /\ i + 1 \in 0 .. 4
    OBVIOUS
  <2> QED BY <1>1, <1>5, <1>7, <2>1, FarIs
<1> QED BY <1>6, <1>7 DEF NearAt

\* At a boundary the near lists and the levels below the one that is cascaded
\* hold nothing, and the lists that are not cascaded are left as they should
\* be.
LEMMA Carried ==
  ASSUME NEW x \in 0 .. Range32 - 1, NEW e \in 0 .. Range32 - 1,
         Away(e, x) # 0, Away(e, x) <= MaxTimeout,
         NEW i0, NEW idx, Cascade(NextTime(x), i0, idx)
  PROVE  /\ \A j : ~NearAt(e, x, j)
         /\ \A i \in 0 .. 3 : \A j : FarAt(e, x, i, j) /\ (i = i0 => j # idx)
                                 => FarAt(e, NextTime(x), i, j)
<1> DEFINE ct == NextTime(x)
<1>1. ct \in 0 .. Range32 - 1 /\ x \in Nat /\ ct \in Nat /\ e \in Nat /\ Range32 \in Nat
      /\ MaxTimeout \in Nat /\ Away(e, x) \in Int
  <2>1. Range32 \in Nat /\ MaxTimeout \in Nat /\ Away(e, x) \in Int
    BY UnitBounds, AwayIs
  <2> QED BY <2>1, NextTimeIs
<1>2. i0 \in 0 .. 3 /\ idx = IndexAt(ct, i0)
  BY DEF Cascade
<1>3. \A k \in 0 .. i0 : Divides(Unit[k], ct)
  <2>1. Divides(Unit[i0], ct)
    <3>1. CASE ct = 0
      <4>1. Unit[i0] \in Nat \ {0}
        BY <1>2, Units
      <4>2. 0 = Unit[i0] * 0 + 0 /\ 0 < Unit[i0]
        BY <4>1
      <4> QED BY <3>1, <4>1, <4>2, Quotient DEF Divides
    <3>2. CASE ct # 0
      BY <3>2 DEF Cascade
    <3> QED BY <3>1, <3>2
  <2> HIDE DEF ct
  <2> QED BY <1>1, <1>2, <2>1, DividesBelow
<1>4. \A k \in 0 .. 3 : k > i0 => ~Divides(Unit[k], ct)
  <2> SUFFICES ASSUME NEW k \in 0 .. 3, k > i0, Divides(Unit[k], ct) PROVE FALSE
    OBVIOUS
  <2> HIDE DEF ct
  <2>1. i0 + 1 \in 0 .. k
    BY <1>2
  <2>2. Divides(Unit[i0 + 1], ct)
    BY <1>1, <2>1, DividesBelow
  <2>3. idx = 0
    BY <1>1, <1>2, <2>2, DividesDown
  <2>4. ct # 0
    BY <1>2, <2>1 DEF Cascade, ct
  <2> QED BY <2>3, <2>4 DEF Cascade, ct
<1>5. \A k \in 0 .. i0 : ~Agree(e, x, k)
  BY <1>1, <1>2, <1>3, Boundary
<1>6. \A k \in 0 .. 4 : k > i0 => (Agree(e, x, k) <=> Agree(e, ct, k))
  <2> SUFFICES ASSUME NEW k \in 0 .. 4, k > i0 PROVE Agree(e, x, k) <=> Agree(e, ct, k)
    OBVIOUS
  <2>1. CASE k = 4
    BY <1>1, <2>1, AgreeTop
  <2>2. CASE k # 4
    <3>1. Agree(x, ct, k)
      BY <1>4, <2>2, Boundary
    <3> QED BY <3>1 DEF Agree
  <2> QED BY <2>1, <2>2
<1>7. ASSUME NEW j, NearAt(e, x, j) PROVE FALSE
  BY <1>2, <1>5, <1>7, LevelIs DEF NearAt
<1>8. ASSUME NEW i \in 0 .. 3, NEW j, FarAt(e, x, i, j), i = i0 => j # idx
      PROVE  FarAt(e, ct, i, j)
  <2>1. ~Agree(e, x, i) /\ Agree(e, x, i + 1) /\ IndexAt(e, i) = j
    BY <1>8, FarIs
  <2>2. i >= i0
    <3> SUFFICES ASSUME i < i0 PROVE FALSE
      BY <1>2
    <3> QED BY <1>2, <1>5, <2>1
  <2>3. Agree(e, ct, i + 1)
    BY <1>2, <1>6, <2>1, <2>2
  <2>4. ~Agree(e, ct, i)
    <3>1. CASE i = i0
      <4> SUFFICES ASSUME Agree(e, ct, i) PROVE FALSE
        OBVIOUS
      <4> HIDE DEF ct
      <4>1. IndexAt(e, i) = IndexAt(ct, i)
        BY <1>1, AgreeUp
      <4> QED BY <1>2, <1>8, <2>1, <3>1, <4>1
    <3>2. CASE i # i0
      BY <1>2, <1>6, <2>1, <2>2, <3>2
    <3> QED BY <3>1, <3>2
  <2> HIDE DEF ct
  <2> QED BY <1>1, <2>1, <2>3, <2>4, FarIs
<1> QED BY <1>7, <1>8

-----------------------------------------------------------------------------
(* The lists.                                                              *)

Wheel == [time : 0 .. Range32 - 1,
          near : [0 .. Near - 1 -> Seq(Node)],
          t : [0 .. 3 -> [0 .. Level - 1 -> Seq(Node)]]]

\* The nodes in the lists of a wheel.
Held(w) ==
    {n \in Node :
        \/ \E j \in 0 .. Near - 1 : \E k \in DOMAIN w.near[j] : w.near[j][k] = n
        \/ \E i \in 0 .. 3, j \in 0 .. Level - 1 :
              \E k \in DOMAIN w.t[i][j] : w.t[i][j][k] = n}

\* Every node is in the list it belongs to at the time of the wheel.
Shelved(w) ==
    /\ \A j \in 0 .. Near - 1 : \A k \in DOMAIN w.near[j] :
          NearAt(w.near[j][k].expire, w.time, j)
    /\ \A i \in 0 .. 3, j \in 0 .. Level - 1 : \A k \in DOMAIN w.t[i][j] :
          FarAt(w.t[i][j][k].expire, w.time, i, j)

\* Those that expire together stand in the order given by o, the ones before
\* each.
InLine(s, o) ==
    \A a, b \in DOMAIN s : a < b /\ s[a].expire = s[b].expire => s[a].id \in o[s[b].id]

Lined(w, o) ==
    /\ \A j \in 0 .. Near - 1 : InLine(w.near[j], o)
    /\ \A i \in 0 .. 3, j \in 0 .. Level - 1 : InLine(w.t[i][j], o)

\* A node is linked to the end of a list.
LEMMA Linked ==
  ASSUME NEW s \in Seq(Node), NEW n \in Node, NEW o, InLine(s, o),
         \A k \in DOMAIN s : s[k].expire = n.expire => s[k].id \in o[n.id]
  PROVE  /\ Append(s, n) \in Seq(Node)
         /\ InLine(Append(s, n), o)
         /\ \A k \in DOMAIN Append(s, n) :
              (k \in DOMAIN s /\ Append(s, n)[k] = s[k]) \/ Append(s, n)[k] = n
         /\ \A k \in DOMAIN s : k \in DOMAIN Append(s, n) /\ Append(s, n)[k] = s[k]
         /\ \E k \in DOMAIN Append(s, n) : Append(s, n)[k] = n
<1> DEFINE v == Append(s, n)
           l == Len(s)
<1>1. /\ v \in Seq(Node) /\ l \in Nat /\ DOMAIN s = 1 .. l /\ DOMAIN v = 1 .. l + 1
      /\ v[l + 1] = n /\ \A k \in 1 .. l : v[k] = s[k]
  OBVIOUS
<1> HIDE DEF v, l
<1>2. ASSUME NEW a \in DOMAIN v, NEW b \in DOMAIN v, a < b, v[a].expire = v[b].expire
      PROVE  v[a].id \in o[v[b].id]
  <2>1. CASE b \in 1 .. l
    <3>1. a \in 1 .. l /\ v[a] = s[a] /\ v[b] = s[b]
      BY <1>1, <1>2, <2>1
    <3> QED BY <1>1, <1>2, <2>1, <3>1 DEF InLine
  <2>2. CASE b \notin 1 .. l
    <3>1. b = l + 1 /\ a \in 1 .. l
      BY <1>1, <1>2, <2>2
    <3>2. v[b] = n /\ v[a] = s[a]
      BY <1>1, <3>1
    <3> QED BY <1>1, <1>2, <3>1, <3>2
  <2> QED BY <2>1, <2>2
<1>3. InLine(v, o)
  BY <1>2 DEF InLine
<1>4. \A k \in DOMAIN v : (k \in DOMAIN s /\ v[k] = s[k]) \/ v[k] = n
  BY <1>1
<1>5. \E k \in DOMAIN v : v[k] = n
  BY <1>1
<1> QED BY <1>1, <1>3, <1>4, <1>5 DEF v

\* The wheel with another list.
WithNear(w, j, s) == [w EXCEPT !.near = [w.near EXCEPT ![j] = s]]
WithFar(w, i, j, s) == [w EXCEPT !.t = [w.t EXCEPT ![i] = [w.t[i] EXCEPT ![j] = s]]]

\* A change of one near list leaves time, t and the other near lists alone.
LEMMA NearField ==
  ASSUME NEW w \in Wheel, NEW j \in 0 .. Near - 1, NEW s \in Seq(Node)
  PROVE  LET v == WithNear(w, j, s)
         IN  /\ v \in Wheel /\ v.time = w.time /\ v.t = w.t /\ v.near[j] = s
             /\ \A a \in 0 .. Near - 1 : a # j => v.near[a] = w.near[a]
<1> DEFINE f == [w.near EXCEPT ![j] = s]
<1>1. w.near \in [0 .. Near - 1 -> Seq(Node)]
  BY DEF Wheel
<1>2. f \in [0 .. Near - 1 -> Seq(Node)] /\ f[j] = s
      /\ \A a \in 0 .. Near - 1 : a # j => f[a] = w.near[a]
  BY <1>1
<1> HIDE DEF f
<1> DEFINE v == [w EXCEPT !.near = f]
<1>3. v \in Wheel /\ v.time = w.time /\ v.t = w.t /\ v.near = f
  BY <1>2 DEF Wheel
<1>4. WithNear(w, j, s) = v
  BY DEF WithNear, f
<1> HIDE DEF v
<1> QED BY <1>2, <1>3, <1>4

\* The lists of the levels are the same but for one.
OtherLists(v, w, i, j) ==
    \A a \in 0 .. 3, b \in 0 .. Level - 1 : ~(a = i /\ b = j) => v.t[a][b] = w.t[a][b]

\* A change of one list of the levels leaves everything else of the wheel alone.
LEMMA FarField ==
  ASSUME NEW w \in Wheel, NEW i \in 0 .. 3, NEW j \in 0 .. Level - 1, NEW s \in Seq(Node)
  PROVE  LET v == WithFar(w, i, j, s)
         IN  /\ v \in Wheel /\ v.time = w.time /\ v.near = w.near /\ v.t[i][j] = s
             /\ OtherLists(v, w, i, j)
<1> DEFINE g == [w.t[i] EXCEPT ![j] = s]
<1>1. w.t \in [0 .. 3 -> [0 .. Level - 1 -> Seq(Node)]]
  BY DEF Wheel
<1>2. w.t[i] \in [0 .. Level - 1 -> Seq(Node)]
  BY <1>1
<1>3. g \in [0 .. Level - 1 -> Seq(Node)] /\ g[j] = s
      /\ \A b \in 0 .. Level - 1 : b # j => g[b] = w.t[i][b]
  BY <1>2
<1> HIDE DEF g
<1> DEFINE f == [w.t EXCEPT ![i] = g]
<1>4. f \in [0 .. 3 -> [0 .. Level - 1 -> Seq(Node)]] /\ f[i] = g
      /\ \A a \in 0 .. 3 : a # i => f[a] = w.t[a]
  BY <1>1, <1>3
<1> HIDE DEF f
<1> DEFINE v == [w EXCEPT !.t = f]
<1>5. v \in Wheel /\ v.time = w.time /\ v.near = w.near /\ v.t = f
  BY <1>4 DEF Wheel
<1>6. WithFar(w, i, j, s) = v
  BY DEF WithFar, f, g
<1> HIDE DEF v
<1>7. OtherLists(v, w, i, j)
  BY <1>3, <1>4, <1>5 DEF OtherLists
<1> QED BY <1>3, <1>4, <1>5, <1>6, <1>7

\* add_node links the node to the list it belongs to.
LEMMA AddTo ==
  ASSUME NEW w \in Wheel, NEW n \in Node
  PROVE  \/ \E j \in 0 .. Near - 1 :
               /\ NearAt(n.expire, w.time, j)
               /\ add_node(w, n) = WithNear(w, j, Append(w.near[j], n))
         \/ \E i \in 0 .. 3, j \in 0 .. Level - 1 :
               /\ FarAt(n.expire, w.time, i, j)
               /\ add_node(w, n) = WithFar(w, i, j, Append(w.t[i][j], n))
<1> DEFINE e == n.expire
           x == w.time
           i == LevelFor(e, x)
<1>0. e \in 0 .. Range32 - 1 /\ x \in 0 .. Range32 - 1 /\ e \in Nat /\ Range32 \in Nat
  BY UnitBounds DEF Node, Wheel
<1>1. CASE IsNear(e, x)
  <2> DEFINE j == e % Near
  <2>1. j \in 0 .. Near - 1 /\ NearAt(e, x, j)
    BY <1>0, <1>1 DEF NearAt
  <2>2. add_node(w, n) = WithNear(w, j, Append(w.near[j], n))
    BY <1>1 DEF add_node, WithNear
  <2> QED BY <2>1, <2>2
<1>2. CASE ~IsNear(e, x)
  <2> DEFINE j == IndexAt(e, i)
  <2>1. i \in 0 .. 3
    BY <1>0, LevelIs
  <2>2. j \in 0 .. Level - 1
    <3>1. Unit[i] \in Nat \ {0}
      BY <2>1, Units
    <3>2. e \div Unit[i] \in Nat
      BY <1>0, <3>1, Multiple
    <3> QED BY <3>2 DEF IndexAt
  <2>3. FarAt(e, x, i, j)
    BY <1>2 DEF FarAt
  <2>4. add_node(w, n) = WithFar(w, i, j, Append(w.t[i][j], n))
    BY <1>2 DEF add_node, WithFar
  <2> QED BY <2>1, <2>2, <2>3, <2>4
<1> QED BY <1>1, <1>2

\* What is in a list is held.
LEMMA HeldNear ==
  ASSUME NEW w \in Wheel, NEW j \in 0 .. Near - 1, NEW k \in DOMAIN w.near[j]
  PROVE  w.near[j][k] \in Held(w) /\ w.near[j][k] \in Node
<1>1. w.near[j] \in Seq(Node)
  BY DEF Wheel
<1>2. w.near[j][k] \in Node
  BY <1>1
<1> QED BY <1>2 DEF Held

\* What lies in a list of the levels is a node held by the wheel.
LEMMA HeldFar ==
  ASSUME NEW w \in Wheel, NEW i \in 0 .. 3, NEW j \in 0 .. Level - 1, NEW k \in DOMAIN w.t[i][j]
  PROVE  w.t[i][j][k] \in Held(w) /\ w.t[i][j][k] \in Node
<1>1. w.t \in [0 .. 3 -> [0 .. Level - 1 -> Seq(Node)]]
  BY DEF Wheel
<1>2. w.t[i][j] \in Seq(Node)
  BY <1>1
<1>3. w.t[i][j][k] \in Node
  BY <1>2
<1> QED BY <1>3 DEF Held

\* After add_node everything is in its list and in line again.
LEMMA Added ==
  ASSUME NEW w \in Wheel, NEW n \in Node, NEW o, Shelved(w), Lined(w, o),
         \A m \in Held(w) : m.expire = n.expire => m.id \in o[n.id]
  PROVE  LET v == add_node(w, n)
         IN  /\ v \in Wheel /\ v.time = w.time
             /\ Shelved(v) /\ Lined(v, o) /\ Held(v) = Held(w) \cup {n}
<1>1. ASSUME NEW j \in 0 .. Near - 1, NearAt(n.expire, w.time, j)
      PROVE  LET v == WithNear(w, j, Append(w.near[j], n))
             IN  /\ v \in Wheel /\ v.time = w.time
                 /\ Shelved(v) /\ Lined(v, o) /\ Held(v) = Held(w) \cup {n}
  <2> DEFINE s == w.near[j]
             q == Append(s, n)
             v == WithNear(w, j, q)
  <2>1. s \in Seq(Node) /\ InLine(s, o)
    BY DEF Wheel, Lined
  <2>2. \A k \in DOMAIN s : s[k].expire = n.expire => s[k].id \in o[n.id]
    BY HeldNear
  <2>s. \A k \in DOMAIN s : NearAt(s[k].expire, w.time, j)
    BY DEF Shelved
  <2>h. \A k \in DOMAIN s : s[k] \in Held(w)
    BY HeldNear
  <2> DEFINE old == s
  <2>0. w.near[j] = old
    OBVIOUS
  <2> HIDE DEF s
  <2>3. /\ q \in Seq(Node) /\ InLine(q, o)
        /\ \A k \in DOMAIN q : (k \in DOMAIN s /\ q[k] = s[k]) \/ q[k] = n
        /\ \A k \in DOMAIN s : k \in DOMAIN q /\ q[k] = s[k]
        /\ \E k \in DOMAIN q : q[k] = n
    BY <2>1, <2>2, Linked
  <2> HIDE DEF q
  <2>4. /\ v \in Wheel /\ v.time = w.time /\ v.t = w.t /\ v.near[j] = q
        /\ \A a \in 0 .. Near - 1 : a # j => v.near[a] = w.near[a]
    BY <2>3, NearField
  <2> HIDE DEF v
  <2>5. Shelved(v)
    <3>1. ASSUME NEW a \in 0 .. Near - 1, NEW k \in DOMAIN v.near[a]
          PROVE  NearAt(v.near[a][k].expire, v.time, a)
      <4>1. CASE a = j
        BY <1>1, <2>3, <2>4, <2>s, <4>1
      <4>2. CASE a # j
        BY <2>4, <4>2 DEF Shelved
      <4> QED BY <4>1, <4>2
    <3> QED BY <2>4, <3>1 DEF Shelved
  <2>6. Lined(v, o)
    <3>1. ASSUME NEW a \in 0 .. Near - 1 PROVE InLine(v.near[a], o)
      <4>1. CASE a = j
        BY <2>3, <2>4, <4>1
      <4>2. CASE a # j
        BY <2>4, <4>2 DEF Lined
      <4> QED BY <4>1, <4>2
    <3> QED BY <2>4, <3>1 DEF Lined
  <2>7. ASSUME NEW m, m \in Held(v) PROVE m \in Held(w) \cup {n}
    <3>1. CASE \E a \in 0 .. Near - 1 : \E k \in DOMAIN v.near[a] : v.near[a][k] = m
      <4>1. PICK a \in 0 .. Near - 1 : \E k \in DOMAIN v.near[a] : v.near[a][k] = m
        BY <3>1
      <4>2. PICK k \in DOMAIN v.near[a] : v.near[a][k] = m
        BY <4>1
      <4>3. CASE a = j
        BY <2>3, <2>4, <2>h, <4>2, <4>3
      <4>4. CASE a # j
        BY <2>4, <4>2, <4>4, HeldNear
      <4> QED BY <4>3, <4>4
    <3>2. CASE \E i \in 0 .. 3, a \in 0 .. Level - 1 :
                  \E k \in DOMAIN v.t[i][a] : v.t[i][a][k] = m
      BY <2>4, <3>2, HeldFar
    <3> QED BY <2>7, <3>1, <3>2 DEF Held
  <2>8. ASSUME NEW m, m \in Held(w) PROVE m \in Held(v)
    <3>1. CASE \E a \in 0 .. Near - 1 : \E k \in DOMAIN w.near[a] : w.near[a][k] = m
      <4>1. PICK a \in 0 .. Near - 1 : \E k \in DOMAIN w.near[a] : w.near[a][k] = m
        BY <3>1
      <4>2. PICK k \in DOMAIN w.near[a] : w.near[a][k] = m
        BY <4>1
      <4>3. k \in DOMAIN v.near[a] /\ v.near[a][k] = m
        <5>1. CASE a = j
          BY <2>0, <2>3, <2>4, <4>2, <5>1
        <5>2. CASE a # j
          BY <2>4, <4>2, <5>2
        <5> QED BY <5>1, <5>2
      <4> QED BY <2>4, <4>3, HeldNear
    <3>2. CASE \E i \in 0 .. 3, a \in 0 .. Level - 1 :
                  \E k \in DOMAIN w.t[i][a] : w.t[i][a][k] = m
      BY <2>4, <3>2, HeldFar
    <3> QED BY <2>8, <3>1, <3>2 DEF Held
  <2>9. n \in Held(v)
    BY <2>3, <2>4, HeldNear
  <2>10. Held(v) = Held(w) \cup {n}
    BY <2>7, <2>8, <2>9
  <2> QED BY <2>4, <2>5, <2>6, <2>10 DEF v, q, s
<1>2. ASSUME NEW i \in 0 .. 3, NEW j \in 0 .. Level - 1, FarAt(n.expire, w.time, i, j)
      PROVE  LET v == WithFar(w, i, j, Append(w.t[i][j], n))
             IN  /\ v \in Wheel /\ v.time = w.time
                 /\ Shelved(v) /\ Lined(v, o) /\ Held(v) = Held(w) \cup {n}
  <2> DEFINE s == w.t[i][j]
             q == Append(s, n)
             v == WithFar(w, i, j, q)
  <2>1. s \in Seq(Node) /\ InLine(s, o)
    <3>1. w.t \in [0 .. 3 -> [0 .. Level - 1 -> Seq(Node)]]
      BY DEF Wheel
    <3> QED BY <3>1 DEF Lined
  <2>2. \A k \in DOMAIN s : s[k].expire = n.expire => s[k].id \in o[n.id]
    BY HeldFar
  <2>s. \A k \in DOMAIN s : FarAt(s[k].expire, w.time, i, j)
    BY DEF Shelved
  <2>h. \A k \in DOMAIN s : s[k] \in Held(w)
    BY HeldFar
  <2> DEFINE old == s
  <2>0. w.t[i][j] = old
    OBVIOUS
  <2> HIDE DEF s
  <2>3. /\ q \in Seq(Node) /\ InLine(q, o)
        /\ \A k \in DOMAIN q : (k \in DOMAIN s /\ q[k] = s[k]) \/ q[k] = n
        /\ \A k \in DOMAIN s : k \in DOMAIN q /\ q[k] = s[k]
        /\ \E k \in DOMAIN q : q[k] = n
    BY <2>1, <2>2, Linked
  <2> HIDE DEF q
  <2>4. /\ v \in Wheel /\ v.time = w.time /\ v.near = w.near /\ v.t[i][j] = q
        /\ \A a \in 0 .. 3, b \in 0 .. Level - 1 : ~(a = i /\ b = j) => v.t[a][b] = w.t[a][b]
    <3>1. q \in Seq(Node)
      BY <2>3
    <3>2. /\ v \in Wheel /\ v.time = w.time /\ v.near = w.near /\ v.t[i][j] = q
          /\ OtherLists(v, w, i, j)
      BY <3>1, FarField
    <3> QED BY <3>2 DEF OtherLists
  <2> HIDE DEF v
  <2>5. Shelved(v)
    <3>1. ASSUME NEW a \in 0 .. 3, NEW b \in 0 .. Level - 1, NEW k \in DOMAIN v.t[a][b]
          PROVE  FarAt(v.t[a][b][k].expire, v.time, a, b)
      <4>1. CASE a = i /\ b = j
        BY <1>2, <2>3, <2>4, <2>s, <4>1
      <4>2. CASE ~(a = i /\ b = j)
        BY <2>4, <4>2 DEF Shelved
      <4> QED BY <4>1, <4>2
    <3> QED BY <2>4, <3>1 DEF Shelved
  <2>6. Lined(v, o)
    <3>1. ASSUME NEW a \in 0 .. 3, NEW b \in 0 .. Level - 1 PROVE InLine(v.t[a][b], o)
      <4>1. CASE a = i /\ b = j
        BY <2>3, <2>4, <4>1
      <4>2. CASE ~(a = i /\ b = j)
        BY <2>4, <4>2 DEF Lined
      <4> QED BY <4>1, <4>2
    <3> QED BY <2>4, <3>1 DEF Lined
  <2>7. ASSUME NEW m, m \in Held(v) PROVE m \in Held(w) \cup {n}
    <3>1. CASE \E a \in 0 .. 3, b \in 0 .. Level - 1 : \E k \in DOMAIN v.t[a][b] : v.t[a][b][k] = m
      <4>1. PICK a \in 0 .. 3, b \in 0 .. Level - 1 : \E k \in DOMAIN v.t[a][b] : v.t[a][b][k] = m
        BY <3>1
      <4>2. PICK k \in DOMAIN v.t[a][b] : v.t[a][b][k] = m
        BY <4>1
      <4>3. CASE a = i /\ b = j
        BY <2>3, <2>4, <2>h, <4>2, <4>3
      <4>4. CASE ~(a = i /\ b = j)
        BY <2>4, <4>2, <4>4, HeldFar
      <4> QED BY <4>3, <4>4
    <3>2. CASE \E a \in 0 .. Near - 1 : \E k \in DOMAIN v.near[a] : v.near[a][k] = m
      BY <2>4, <3>2, HeldNear
    <3> QED BY <2>7, <3>1, <3>2 DEF Held
  <2>8. ASSUME NEW m, m \in Held(w) PROVE m \in Held(v)
    <3>1. CASE \E a \in 0 .. 3, b \in 0 .. Level - 1 : \E k \in DOMAIN w.t[a][b] : w.t[a][b][k] = m
      <4>1. PICK a \in 0 .. 3, b \in 0 .. Level - 1 : \E k \in DOMAIN w.t[a][b] : w.t[a][b][k] = m
        BY <3>1
      <4>2. PICK k \in DOMAIN w.t[a][b] : w.t[a][b][k] = m
        BY <4>1
      <4>3. k \in DOMAIN v.t[a][b] /\ v.t[a][b][k] = m
        <5>1. CASE a = i /\ b = j
          BY <2>0, <2>3, <2>4, <4>2, <5>1
        <5>2. CASE ~(a = i /\ b = j)
          BY <2>4, <4>2, <5>2
        <5> QED BY <5>1, <5>2
      <4> QED BY <2>4, <4>3, HeldFar
    <3>2. CASE \E a \in 0 .. Near - 1 : \E k \in DOMAIN w.near[a] : w.near[a][k] = m
      BY <2>4, <3>2, HeldNear
    <3> QED BY <2>8, <3>1, <3>2 DEF Held
  <2>9. n \in Held(v)
    BY <2>3, <2>4, HeldFar
  <2>10. Held(v) = Held(w) \cup {n}
    BY <2>7, <2>8, <2>9
  <2> QED BY <2>4, <2>5, <2>6, <2>10 DEF v, q, s
<1> QED BY <1>1, <1>2, AddTo

-----------------------------------------------------------------------------
(* Cascading.                                                              *)

\* What v does not hold any more is in s.
Dropped(w, v, s) == \A m \in Held(w) : m \in Held(v) \/ \E k \in DOMAIN s : s[k] = m

\* A list is cleared.
LEMMA Cleared ==
  ASSUME NEW w \in Wheel, NEW i \in 0 .. 3, NEW j \in 0 .. Level - 1, NEW o, Lined(w, o)
  PROVE  LET v == WithFar(w, i, j, <<>>)
         IN  /\ v \in Wheel /\ v.time = w.time /\ v.near = w.near
             /\ OtherLists(v, w, i, j)
             /\ DOMAIN v.t[i][j] = {} /\ Lined(v, o) /\ Held(v) \subseteq Held(w)
             /\ Dropped(w, v, w.t[i][j])
<1> DEFINE v == WithFar(w, i, j, <<>>)
<1>1. <<>> \in Seq(Node) /\ DOMAIN (<<>>) = {}
  OBVIOUS
<1>2. /\ v \in Wheel /\ v.time = w.time /\ v.near = w.near /\ v.t[i][j] = <<>>
      /\ \A a \in 0 .. 3, b \in 0 .. Level - 1 : ~(a = i /\ b = j) => v.t[a][b] = w.t[a][b]
  <2>1. /\ v \in Wheel /\ v.time = w.time /\ v.near = w.near /\ v.t[i][j] = <<>>
        /\ OtherLists(v, w, i, j)
    BY <1>1, FarField
  <2> QED BY <2>1 DEF OtherLists
<1> HIDE DEF v
<1>3. DOMAIN v.t[i][j] = {}
  BY <1>1, <1>2
<1>4. Lined(v, o)
  <2>1. ASSUME NEW a \in 0 .. 3, NEW b \in 0 .. Level - 1 PROVE InLine(v.t[a][b], o)
    <3>1. CASE a = i /\ b = j
      BY <1>3, <3>1 DEF InLine
    <3>2. CASE ~(a = i /\ b = j)
      BY <1>2, <3>2 DEF Lined
    <3> QED BY <3>1, <3>2
  <2> QED BY <1>2, <2>1 DEF Lined
<1>5. ASSUME NEW m, m \in Held(v) PROVE m \in Held(w)
  <2>1. CASE \E a \in 0 .. 3, b \in 0 .. Level - 1 : \E k \in DOMAIN v.t[a][b] : v.t[a][b][k] = m
    <3>1. PICK a \in 0 .. 3, b \in 0 .. Level - 1 : \E k \in DOMAIN v.t[a][b] : v.t[a][b][k] = m
      BY <2>1
    <3>2. ~(a = i /\ b = j)
      BY <1>3, <3>1
    <3>3. PICK k \in DOMAIN v.t[a][b] : v.t[a][b][k] = m
      BY <3>1
    <3>4. v.t[a][b] = w.t[a][b]
      BY <1>2, <3>2
    <3> QED BY <3>3, <3>4, HeldFar
  <2>2. CASE \E a \in 0 .. Near - 1 : \E k \in DOMAIN v.near[a] : v.near[a][k] = m
    BY <1>2, <2>2, HeldNear
  <2> QED BY <1>5, <2>1, <2>2 DEF Held
<1>6. ASSUME NEW m, m \in Held(w) PROVE m \in Held(v) \/ \E k \in DOMAIN w.t[i][j] : w.t[i][j][k] = m
  <2>1. CASE \E a \in 0 .. 3, b \in 0 .. Level - 1 : \E k \in DOMAIN w.t[a][b] : w.t[a][b][k] = m
    <3>1. PICK a \in 0 .. 3, b \in 0 .. Level - 1 : \E k \in DOMAIN w.t[a][b] : w.t[a][b][k] = m
      BY <2>1
    <3>2. CASE a = i /\ b = j
      BY <3>1, <3>2
    <3>3. CASE ~(a = i /\ b = j)
      BY <1>2, <3>1, <3>3, HeldFar
    <3> QED BY <3>2, <3>3
  <2>2. CASE \E a \in 0 .. Near - 1 : \E k \in DOMAIN w.near[a] : w.near[a][k] = m
    BY <1>2, <2>2, HeldNear
  <2> QED BY <1>6, <2>1, <2>2 DEF Held
<1> QED BY <1>2, <1>3, <1>4, <1>5, <1>6 DEF v, OtherLists, Dropped

\* add_node gives a wheel.
LEMMA AddType ==
  ASSUME NEW w \in Wheel, NEW n \in Node
  PROVE  add_node(w, n) \in Wheel
<1>1. ASSUME NEW j \in 0 .. Near - 1 PROVE WithNear(w, j, Append(w.near[j], n)) \in Wheel
  <2>1. w.near[j] \in Seq(Node)
    BY DEF Wheel
  <2>2. Append(w.near[j], n) \in Seq(Node)
    BY <2>1
  <2> QED BY <2>2, NearField
<1>2. ASSUME NEW i \in 0 .. 3, NEW j \in 0 .. Level - 1
      PROVE  WithFar(w, i, j, Append(w.t[i][j], n)) \in Wheel
  <2>1. w.t \in [0 .. 3 -> [0 .. Level - 1 -> Seq(Node)]]
    BY DEF Wheel
  <2>2. w.t[i][j] \in Seq(Node)
    BY <2>1
  <2>3. Append(w.t[i][j], n) \in Seq(Node)
    BY <2>2
  <2> QED BY <2>3, FarField
<1> QED BY <1>1, <1>2, AddTo

\* move_list clears a list and adds its nodes again, in their order.  The
\* other nodes are where they belong, and none of them expires with a node of
\* the list.
LEMMA Moved ==
  ASSUME NEW w \in Wheel, NEW level \in 0 .. 3, NEW idx \in 0 .. Level - 1, NEW o,
         Lined(w, o), Shelved(WithFar(w, level, idx, <<>>)),
         \A m \in Held(WithFar(w, level, idx, <<>>)) :
            \A k \in DOMAIN w.t[level][idx] : m.expire # w.t[level][idx][k].expire
  PROVE  LET v == move_list(w, level, idx)
         IN  /\ v \in Wheel /\ v.time = w.time
             /\ Shelved(v) /\ Lined(v, o) /\ Held(v) = Held(w)
<1> DEFINE list == w.t[level][idx]
           n == Len(list)
           base == WithFar(w, level, idx, <<>>)
           F == CHOOSE f : f = [k \in 0 .. n |-> IF k = 0 THEN base ELSE add_node(f[k - 1], list[k])]
           step == [k \in 1 .. n |-> [v \in Wheel |-> add_node(v, list[k])]]
<1>1. list \in Seq(Node)
  <2>1. w.t \in [0 .. 3 -> [0 .. Level - 1 -> Seq(Node)]]
    BY DEF Wheel
  <2> QED BY <2>1
<1>2. InLine(list, o)
  BY DEF Lined
<1>3. move_list(w, level, idx) = F[n]
  BY DEF move_list, WithFar
<1>4. /\ base \in Wheel /\ base.time = w.time /\ Lined(base, o) /\ Held(base) \subseteq Held(w)
      /\ \A m \in Held(w) : m \in Held(base) \/ \E k \in DOMAIN list : list[k] = m
  <2>1. /\ base \in Wheel /\ base.time = w.time /\ Lined(base, o) /\ Held(base) \subseteq Held(w)
        /\ Dropped(w, base, list)
    BY Cleared
  <2> QED BY <2>1 DEF Dropped
<1>5. Shelved(base) /\ \A m \in Held(base) : \A k \in DOMAIN list : m.expire # list[k].expire
  OBVIOUS
<1>6. \A k \in DOMAIN list : list[k] \in Held(w)
  BY HeldFar
<1> HIDE DEF list, base
<1>7. n \in Nat /\ DOMAIN list = 1 .. n /\ \A k \in 1 .. n : list[k] \in Node
  BY <1>1
<1> HIDE DEF n, step
<1>8. PICK g \in [0 .. n -> Wheel] : Rounds(g, n, base, step)
  <2>1. step \in [1 .. n -> [Wheel -> Wheel]]
    BY <1>7, AddType DEF step
  <2> QED BY <1>4, <1>7, <2>1, Iterate
<1>9. g = [k \in 0 .. n |-> IF k = 0 THEN base ELSE add_node(g[k - 1], list[k])]
  <2>1. ASSUME NEW k \in 1 .. n PROVE g[k] = add_node(g[k - 1], list[k])
    <3>1. g[k] = step[k][g[k - 1]] /\ k - 1 \in 0 .. n /\ g[k - 1] \in Wheel
      BY <1>7, <1>8 DEF Rounds
    <3>2. step[k] = [v \in Wheel |-> add_node(v, list[k])]
      BY DEF step
    <3> QED BY <3>1, <3>2
  <2> QED BY <1>7, <1>8, <2>1 DEF Rounds
<1>10. F = [k \in 0 .. n |-> IF k = 0 THEN base ELSE add_node(F[k - 1], list[k])]
  BY <1>9
<1> HIDE DEF F
<1>11. F[0] = base /\ \A k \in 1 .. n : F[k] = add_node(F[k - 1], list[k])
  BY <1>7, <1>10
<1> DEFINE Good(k) == /\ F[k] \in Wheel /\ F[k].time = w.time
                      /\ Shelved(F[k]) /\ Lined(F[k], o)
                      /\ Held(F[k]) = Held(base) \cup {list[l] : l \in 1 .. k}
           T == {k \in Nat : Good(k)}
<1>12. 0 \in T
  <2>1. {list[l] : l \in 1 .. 0} = {}
    OBVIOUS
  <2> QED BY <1>4, <1>5, <1>11, <2>1
<1>13. ASSUME NEW k \in Nat, k < n, k \in T PROVE k + 1 \in T
  <2> DEFINE v == F[k]
             x == list[k + 1]
             u == F[k + 1]
  <2>1. Good(k)
    BY <1>13
  <2>2. u = add_node(v, x) /\ k + 1 \in 1 .. n /\ x \in Node /\ k + 1 \in DOMAIN list
    BY <1>7, <1>11, <1>13
  <2>3. v \in Wheel /\ v.time = w.time /\ Shelved(v) /\ Lined(v, o)
        /\ Held(v) = Held(base) \cup {list[l] : l \in 1 .. k}
    BY <2>1
  <2> HIDE DEF Good, T
  <2>4. ASSUME NEW m \in Held(v), m.expire = x.expire PROVE m.id \in o[x.id]
    <3>1. m \notin Held(base)
      BY <1>5, <2>2, <2>4
    <3>2. PICK l \in 1 .. k : m = list[l]
      BY <2>3, <3>1
    <3>3. l \in DOMAIN list /\ l < k + 1
      BY <1>7, <1>13, <3>2
    <3> QED BY <1>2, <2>2, <2>4, <3>2, <3>3 DEF InLine
  <2> DEFINE z == add_node(v, x)
  <2>5. z \in Wheel /\ z.time = v.time /\ Shelved(z) /\ Lined(z, o) /\ Held(z) = Held(v) \cup {x}
    <3> HIDE DEF v, x
    <3> QED BY <2>2, <2>3, <2>4, Added
  <2>6. {list[l] : l \in 1 .. k + 1} = {list[l] : l \in 1 .. k} \cup {x}
    <3>1. 1 .. k + 1 = (1 .. k) \cup {k + 1}
      BY <1>13
    <3> QED BY <3>1
  <2> HIDE DEF v, x, z, u
  <2>7. u \in Wheel /\ u.time = w.time /\ Shelved(u) /\ Lined(u, o)
        /\ Held(u) = Held(base) \cup {list[l] : l \in 1 .. k + 1}
    <3>1. u = z
      BY <2>2 DEF z
    <3> QED BY <2>3, <2>5, <2>6, <3>1
  <2> QED BY <2>7 DEF Good, T, u
<1> HIDE DEF T
<1>14. \A k \in 0 .. n : k \in T
  BY <1>7, <1>12, <1>13, Climb
<1>15. n \in T
  BY <1>7, <1>14
<1>16. Good(n)
  BY <1>15 DEF T
<1>17. Held(F[n]) = Held(w)
  <2>1. Held(F[n]) = Held(base) \cup {list[l] : l \in 1 .. n}
    BY <1>16
  <2> QED BY <1>4, <1>6, <1>7, <2>1
<1> QED BY <1>3, <1>16, <1>17

\* The list timer_shift cascades at the end of a near round.
LEMMA Chosen ==
  ASSUME NEW ct \in 0 .. Range32 - 1, ct # 0, Divides(Near, ct)
  PROVE  LET some == {i \in 0 .. 3 : IndexAt(ct, i) # 0}
             i == CHOOSE i \in some : \A j \in some : i <= j
         IN  Cascade(ct, i, IndexAt(ct, i))
<1> DEFINE some == {i \in 0 .. 3 : IndexAt(ct, i) # 0}
           i == CHOOSE i \in some : \A j \in some : i <= j
           V(k) == Divides(Unit[k], ct)
           Z(k) == IndexAt(ct, k) = 0
<1>1. ct \in Nat /\ Range32 \in Nat \ {0} /\ ct < Range32
  BY UnitBounds
<1>2. V(0)
  BY Units
<1>3. \A k \in 0 .. 3 : V(k + 1) <=> V(k) /\ Z(k)
  BY <1>1, DividesDown
<1>4. ~V(4)
  <2>1. ct = Range32 * 0 + ct
    BY <1>1
  <2>2. ct % Range32 = ct
    BY <1>1, <2>1, Quotient
  <2> QED BY <2>2 DEF Divides, Range32
<1>5. \A k \in 0 .. 3 : k \in some <=> ~Z(k)
  OBVIOUS
<1>6. some \in SUBSET Nat
  OBVIOUS
<1> HIDE DEF V, Z
<1>7. (V(1) <=> V(0) /\ Z(0)) /\ (V(2) <=> V(1) /\ Z(1)) /\ (V(3) <=> V(2) /\ Z(2)) /\ (V(4) <=> V(3) /\ Z(3))
  BY <1>3
<1>8. some # {}
  <2> SUFFICES ASSUME some = {} PROVE FALSE
    OBVIOUS
  <2>1. Z(0) /\ Z(1) /\ Z(2) /\ Z(3)
    BY <1>5
  <2> QED BY <1>2, <1>4, <1>7, <2>1
<1>9. i \in some /\ \A j \in some : i <= j
  <2> HIDE DEF some
  <2>1. \E k \in some : \A j \in some : k <= j
    BY <1>6, <1>8, Least
  <2> QED BY <2>1
<1>10. i \in 0 .. 3 /\ ~Z(i)
  BY <1>5, <1>9
<1> HIDE DEF i
<1>11. \A k \in 0 .. 3 : k < i => Z(k)
  <2> SUFFICES ASSUME NEW k \in 0 .. 3, k < i, ~Z(k) PROVE FALSE
    OBVIOUS
  <2>1. i <= k
    BY <1>5, <1>9
  <2> QED BY <1>10, <2>1
<1>12. V(i)
  <2>1. i = 0 \/ i = 1 \/ i = 2 \/ i = 3
    BY <1>10
  <2>2. (0 < i => Z(0)) /\ (1 < i => Z(1)) /\ (2 < i => Z(2))
    BY <1>11
  <2> QED BY <1>2, <1>7, <2>1, <2>2
<1>13. Cascade(ct, i, IndexAt(ct, i))
  BY <1>10, <1>12 DEF Cascade, V, Z
<1> QED BY <1>13 DEF i

\* After timer_shift everything is in its list and in line again, if nothing
\* was due before.
LEMMA Shifted ==
  ASSUME NEW w \in Wheel, NEW o, Shelved(w), Lined(w, o),
         \A m \in Held(w) : Away(m.expire, w.time) # 0 /\ Away(m.expire, w.time) <= MaxTimeout
  PROVE  LET v == timer_shift(w)
         IN  /\ v \in Wheel /\ v.time = NextTime(w.time)
             /\ Shelved(v) /\ Lined(v, o) /\ Held(v) = Held(w)
<1> DEFINE x == w.time
           ct == NextTime(x)
           v == [w EXCEPT !.time = ct]
           some == {i \in 0 .. 3 : IndexAt(ct, i) # 0}
           i == CHOOSE i \in some : \A j \in some : i <= j
<1>1. x \in 0 .. Range32 - 1
  BY DEF Wheel
<1>2. ct \in 0 .. Range32 - 1
  BY <1>1, NextTimeIs
<1>3. timer_shift(w) = CASE ct = 0 -> move_list(v, 3, 0)
                         [] ct # 0 /\ ct % Near = 0 -> move_list(v, i, IndexAt(ct, i))
                         [] OTHER -> v
  BY DEF timer_shift, NextTime
<1>c. Divides(Near, ct) <=> ct % Near = 0
  BY DEF Divides
<1>i. ct # 0 /\ Divides(Near, ct) => Cascade(ct, i, IndexAt(ct, i))
  <2> HIDE DEF ct
  <2> QED BY <1>2, Chosen
<1>4. v \in Wheel /\ v.time = ct /\ v.near = w.near /\ v.t = w.t
  <2> HIDE DEF ct
  <2> QED BY <1>2 DEF Wheel
<1> HIDE DEF v, some, i
<1>5. Lined(v, o) /\ Held(v) = Held(w)
  BY <1>4 DEF Lined, Held
<1>6. ASSUME NEW i0 \in 0 .. 3, NEW idx, Cascade(ct, i0, idx)
      PROVE  LET u == move_list(v, i0, idx)
             IN  /\ u \in Wheel /\ u.time = ct
                 /\ Shelved(u) /\ Lined(u, o) /\ Held(u) = Held(w)
  <2> DEFINE base == WithFar(v, i0, idx, <<>>)
             list == v.t[i0][idx]
  <2>1. idx \in 0 .. Level - 1
    <3>1. Unit[i0] \in Nat \ {0} /\ ct \in Nat
      BY <1>2, Units, UnitBounds
    <3> HIDE DEF ct
    <3>2. ct \div Unit[i0] \in Nat
      BY <3>1, Multiple
    <3> QED BY <1>6, <3>2 DEF Cascade, IndexAt
  <2>2. /\ base \in Wheel /\ base.time = v.time /\ base.near = v.near
        /\ OtherLists(base, v, i0, idx)
        /\ DOMAIN base.t[i0][idx] = {} /\ Held(base) \subseteq Held(v)
    BY <1>4, <1>5, <2>1, Cleared
  <2> HIDE DEF base
  <2>3. ASSUME NEW m \in Held(w)
        PROVE  /\ m.expire \in 0 .. Range32 - 1
               /\ \A j : ~NearAt(m.expire, x, j)
               /\ \A a \in 0 .. 3 : \A b : FarAt(m.expire, x, a, b) /\ (a = i0 => b # idx)
                                       => FarAt(m.expire, ct, a, b)
    <3>1. m.expire \in 0 .. Range32 - 1 /\ Away(m.expire, x) # 0 /\ Away(m.expire, x) <= MaxTimeout
      BY DEF Held, Node
    <3> QED BY <1>1, <1>6, <3>1, Carried
  <2>4. ASSUME NEW j \in 0 .. Near - 1, NEW k \in DOMAIN w.near[j] PROVE FALSE
    BY <2>3, HeldNear DEF Shelved
  <2>5. ASSUME NEW a \in 0 .. 3, NEW b \in 0 .. Level - 1, NEW k \in DOMAIN base.t[a][b]
        PROVE  /\ ~(a = i0 /\ b = idx) /\ base.t[a][b] = w.t[a][b]
               /\ FarAt(base.t[a][b][k].expire, x, a, b)
               /\ FarAt(base.t[a][b][k].expire, ct, a, b)
    <3>1. ~(a = i0 /\ b = idx)
      BY <2>2
    <3>2. base.t[a][b] = w.t[a][b]
      BY <1>4, <2>2, <3>1 DEF OtherLists
    <3>3. FarAt(w.t[a][b][k].expire, x, a, b) /\ w.t[a][b][k] \in Held(w)
      BY <2>5, <3>2, HeldFar DEF Shelved
    <3> QED BY <2>3, <3>1, <3>2, <3>3
  <2>6. Shelved(base)
    BY <1>4, <2>2, <2>4, <2>5 DEF Shelved
  <2>7. ASSUME NEW m \in Held(base), NEW k \in DOMAIN list PROVE m.expire # list[k].expire
    <3>1. FarAt(list[k].expire, x, i0, idx)
      BY <1>4, <2>1 DEF Shelved
    <3>2. PICK a \in 0 .. 3, b \in 0 .. Level - 1 : \E l \in DOMAIN base.t[a][b] : base.t[a][b][l] = m
      BY <1>4, <2>2, <2>4 DEF Held
    <3>3. ~(a = i0 /\ b = idx) /\ FarAt(m.expire, x, a, b)
      BY <2>5, <3>2
    <3> QED BY <3>1, <3>3 DEF FarAt
  <2>8. LET u == move_list(v, i0, idx)
        IN  /\ u \in Wheel /\ u.time = v.time
            /\ Shelved(u) /\ Lined(u, o) /\ Held(u) = Held(v)
    BY <1>4, <1>5, <2>1, <2>6, <2>7, Moved DEF base
  <2> QED BY <1>4, <1>5, <2>8
<1>7. CASE ct = 0
  <2>1. Cascade(ct, 3, 0)
    <3>1. IndexAt(0, 3) = 0
      <4>1. Unit[3] \in Nat \ {0}
        BY Units
      <4>2. 0 \div Unit[3] = 0
        <5>1. 0 = Unit[3] * 0 + 0 /\ 0 < Unit[3]
          BY <4>1
        <5> QED BY <4>1, <5>1, Quotient
      <4> QED BY <4>2 DEF IndexAt
    <3> QED BY <1>7, <3>1 DEF Cascade
  <2>2. timer_shift(w) = move_list(v, 3, 0)
    BY <1>3, <1>7
  <2>3. 3 \in 0 .. 3
    OBVIOUS
  <2> HIDE DEF ct
  <2>4. LET u == move_list(v, 3, 0)
        IN  /\ u \in Wheel /\ u.time = ct /\ Shelved(u) /\ Lined(u, o) /\ Held(u) = Held(w)
    BY <1>6, <2>1, <2>3
  <2> QED BY <2>2, <2>4 DEF ct
<1>8. CASE ct # 0 /\ Divides(Near, ct)
  <2>1. Cascade(ct, i, IndexAt(ct, i)) /\ i \in 0 .. 3
    BY <1>8, <1>i DEF Cascade
  <2>2. timer_shift(w) = move_list(v, i, IndexAt(ct, i))
    BY <1>3, <1>8, <1>c
  <2> HIDE DEF ct
  <2>4. LET u == move_list(v, i, IndexAt(ct, i))
        IN  /\ u \in Wheel /\ u.time = ct /\ Shelved(u) /\ Lined(u, o) /\ Held(u) = Held(w)
    BY <1>6, <2>1
  <2> QED BY <2>2, <2>4 DEF ct
<1>9. CASE ct # 0 /\ ~Divides(Near, ct)
  <2>1. timer_shift(w) = v
    BY <1>3, <1>9, <1>c
  <2>2. ASSUME NEW m \in Held(w)
        PROVE  /\ \A j : NearAt(m.expire, x, j) => NearAt(m.expire, ct, j)
               /\ \A a \in 0 .. 3 : \A b : FarAt(m.expire, x, a, b) => FarAt(m.expire, ct, a, b)
    <3>1. m.expire \in 0 .. Range32 - 1
      BY DEF Held, Node
    <3> QED BY <1>1, <1>9, <3>1, Stays
  <2>3. ASSUME NEW j \in 0 .. Near - 1, NEW k \in DOMAIN v.near[j]
        PROVE  NearAt(v.near[j][k].expire, ct, j)
    BY <1>4, <2>2, HeldNear DEF Shelved
  <2>4. ASSUME NEW a \in 0 .. 3, NEW b \in 0 .. Level - 1, NEW k \in DOMAIN v.t[a][b]
        PROVE  FarAt(v.t[a][b][k].expire, ct, a, b)
    BY <1>4, <2>2, HeldFar DEF Shelved
  <2>5. Shelved(v)
    BY <1>4, <2>3, <2>4 DEF Shelved
  <2> QED BY <1>4, <1>5, <2>1, <2>5
<1> QED BY <1>7, <1>8, <1>9

-----------------------------------------------------------------------------
(* The inductive invariant.                                                *)

\* Where the timer thread is, and what it has taken: the nodes it dispatches
\* are due.  The list of the old tick is always empty, so it never gets to
\* dispatch0.
ThreadInv ==
    /\ pc # "dispatch0"
    /\ current # <<>> => pc = "dispatch"
    /\ pc # "idle" => diff >= 1
    /\ \A k \in DOMAIN current :
          /\ current[k].id \in pending /\ left[current[k].id] = 0
          /\ current[k].expire = time

\* What the lists hold: pending timers as far away as their ticks left, none
\* of which is being dispatched.  One that is due is there only before the
\* list of its tick is taken.
HeldInv ==
    \A m \in Held(wheel) :
        /\ m.id \in pending /\ Away(m.expire, time) = left[m.id]
        /\ pc # "execute" => left[m.id] > 0
        /\ \A k \in DOMAIN current : current[k].id # m.id

\* Every pending timer is somewhere.
KeptInv ==
    \A id \in pending : \/ \E m \in Held(wheel) : m.id = id
                        \/ \E k \in DOMAIN current : current[k].id = id

\* The order in which the pending timers were set.
OlderInv ==
    \A a \in pending : /\ older[a] \subseteq pending
                       /\ \A b \in pending : a \in older[b] => b \notin older[a]

\* Every node is in the list it belongs to, those that expire together in the
\* order they were set.
ListsInv == Shelved(wheel) /\ Lined(wheel, older) /\ InLine(current, older)

TimerInv == TypeOK /\ ListsInv /\ HeldInv /\ KeptInv /\ OlderInv /\ ThreadInv

\* The fields of the wheel.
LEMMA WheelFields ==
  wheel.time = time /\ wheel.near = near /\ wheel.t = t
BY DEF wheel

\* The wheel of a well-typed state is a wheel.
LEMMA WheelType ==
  ASSUME TypeOK
  PROVE  wheel \in Wheel /\ time \in 0 .. Range32 - 1 /\ time \in Nat /\ Range32 \in Nat
<1>1. time \in 0 .. Range32 - 1 /\ Range32 \in Nat
  BY UnitBounds DEF TypeOK
<1>2. near \in [0 .. Near - 1 -> Seq(Node)] /\ t \in [0 .. 3 -> [0 .. Level - 1 -> Seq(Node)]]
  BY DEF TypeOK
<1>3. wheel \in Wheel
  BY <1>1, <1>2 DEF Wheel, wheel
<1> QED BY <1>1, <1>3

\* A wheel that is set is the next wheel.
LEMMA NextWheel ==
  ASSUME NEW v \in Wheel, SetWheel(v)
  PROVE  /\ wheel' = v /\ time' = v.time
         /\ time' \in 0 .. Range32 - 1 /\ near' \in [0 .. Near - 1 -> Seq(Node)]
         /\ t' \in [0 .. 3 -> [0 .. Level - 1 -> Seq(Node)]]
<1>1. time' = v.time /\ near' = v.near /\ t' = v.t
  BY DEF SetWheel
<1>2. v = [time |-> v.time, near |-> v.near, t |-> v.t]
  BY DEF Wheel
<1>3. v.time \in 0 .. Range32 - 1 /\ v.near \in [0 .. Near - 1 -> Seq(Node)]
      /\ v.t \in [0 .. 3 -> [0 .. Level - 1 -> Seq(Node)]]
  BY DEF Wheel
<1>4. wheel' = [time |-> time', near |-> near', t |-> t']
  BY DEF wheel
<1> QED BY <1>1, <1>2, <1>3, <1>4

\* A tick in near list time % Near is the current one, and the other way
\* round.
LEMMA DueTick ==
  ASSUME NEW e \in 0 .. Range32 - 1, NEW x \in 0 .. Range32 - 1
  PROVE  /\ NearAt(e, x, x % Near) <=> e = x
         /\ \A j : NearAt(x, x, j) => j = x % Near
         /\ \A i, j : ~FarAt(x, x, i, j)
         /\ Away(e, x) = 0 <=> e = x
         /\ Away(e, x) \in Nat
<1>1. e \in Nat /\ x \in Nat /\ Unit[0] = Near /\ Range32 \in Nat
  BY Units, UnitBounds
<1>2. NearAt(e, x, x % Near) => e = x
  <2> SUFFICES ASSUME e \div Near = x \div Near, e % Near = x % Near PROVE e = x
    BY <1>1 DEF NearAt, IsNear
  <2>1. e = Near * (e \div Near) + (e % Near)
    BY <1>1, Multiple
  <2>2. x = Near * (x \div Near) + (x % Near)
    BY <1>1, Multiple
  <2> DEFINE a == Near * (e \div Near)
             b == e % Near
  <2>3. e = a + b /\ x = a + b
    BY <2>1, <2>2
  <2> HIDE DEF a, b
  <2> QED BY <2>3
<1>3. IsNear(x, x)
  BY DEF IsNear
<1>4. Away(e, x) = IF x <= e THEN e - x ELSE e - x + Range32
  BY AwayIs
<1>5. Away(e, x) \in Nat /\ (Away(e, x) = 0 <=> e = x)
  BY <1>1, <1>4
<1> QED BY <1>2, <1>3, <1>5 DEF NearAt, FarAt

\* The due list holds what expires at the current tick.
LEMMA Due ==
  ASSUME TypeOK, Shelved(wheel)
  PROVE  /\ time % Near \in 0 .. Near - 1
         /\ DueList \in Seq(Node)
         /\ \A k \in DOMAIN DueList : DueList[k] \in Held(wheel) /\ DueList[k].expire = time
         /\ \A m \in Held(wheel) : m.expire = time => \E k \in DOMAIN DueList : DueList[k] = m
<1>1. wheel \in Wheel /\ time \in 0 .. Range32 - 1 /\ time \in Nat
  BY WheelType
<1>2. time % Near \in 0 .. Near - 1
  BY <1>1
<1>3. DueList \in Seq(Node) /\ DueList = wheel.near[time % Near]
  BY <1>2, WheelFields DEF DueList, TypeOK
<1>4. ASSUME NEW k \in DOMAIN DueList
      PROVE  DueList[k] \in Held(wheel) /\ DueList[k].expire = time
  <2>1. DueList[k] \in Held(wheel) /\ DueList[k] \in Node
    BY <1>1, <1>2, <1>3, HeldNear
  <2>2. NearAt(DueList[k].expire, time, time % Near)
    BY <1>2, <1>3, WheelFields DEF Shelved
  <2>3. DueList[k].expire \in 0 .. Range32 - 1
    BY <2>1 DEF Node
  <2> QED BY <1>1, <2>1, <2>2, <2>3, DueTick
<1>5. ASSUME NEW m \in Held(wheel), m.expire = time
      PROVE  \E k \in DOMAIN DueList : DueList[k] = m
  <2>1. CASE \E j \in 0 .. Near - 1 : \E k \in DOMAIN wheel.near[j] : wheel.near[j][k] = m
    <3>1. PICK j \in 0 .. Near - 1 : \E k \in DOMAIN wheel.near[j] : wheel.near[j][k] = m
      BY <2>1
    <3>2. NearAt(time, time, j)
      BY <1>5, <3>1, WheelFields DEF Shelved
    <3>3. j = time % Near
      BY <1>1, <3>2, DueTick
    <3> QED BY <1>3, <3>1, <3>3
  <2>2. CASE \E i \in 0 .. 3, j \in 0 .. Level - 1 :
                \E k \in DOMAIN wheel.t[i][j] : wheel.t[i][j][k] = m
    <3>1. PICK i \in 0 .. 3, j \in 0 .. Level - 1 :
                \E k \in DOMAIN wheel.t[i][j] : wheel.t[i][j][k] = m
      BY <2>2
    <3>2. FarAt(time, time, i, j)
      BY <1>5, <3>1, WheelFields DEF Shelved
    <3> QED BY <1>1, <3>2, DueTick
  <2> QED BY <2>1, <2>2 DEF Held
<1> QED BY <1>2, <1>3, <1>4, <1>5

-----------------------------------------------------------------------------
(* One lemma for each action.                                              *)

\* timer_create_timer establishes the invariant.
LEMMA InitTimer == Init => TimerInv
<1> SUFFICES ASSUME Init PROVE TimerInv
  OBVIOUS
<1>1. <<>> \in Seq(Node) /\ DOMAIN (<<>>) = {} /\ MaxTimeout \in Nat
  BY UnitBounds
<1>2. TypeOK
  BY <1>1 DEF Init, TypeOK
<1>3. /\ \A j \in 0 .. Near - 1 : DOMAIN wheel.near[j] = {}
      /\ \A i \in 0 .. 3, j \in 0 .. Level - 1 : DOMAIN wheel.t[i][j] = {}
      /\ DOMAIN current = {}
  BY <1>1, WheelFields DEF Init
<1>4. Held(wheel) = {}
  BY <1>3 DEF Held
<1>5. ListsInv
  BY <1>3 DEF ListsInv, Shelved, Lined, InLine
<1>6. KeptInv /\ OlderInv
  BY DEF Init, KeptInv, OlderInv
<1>7. ThreadInv
  BY <1>3 DEF Init, ThreadInv
<1>8. HeldInv
  BY <1>4 DEF HeldInv
<1> QED BY <1>2, <1>5, <1>6, <1>7, <1>8 DEF TimerInv

\* skynet_updatetime preserves the invariant: it leaves the wheel alone.
LEMMA UpdateTimeKeeps ==
  ASSUME TimerInv, NEW d \in 1 .. MaxLag, UpdateTime(d)
  PROVE  TimerInv'
<1>1. wheel' = wheel /\ current' = current /\ left' = left /\ pending' = pending
      /\ older' = older /\ time' = time
  BY DEF UpdateTime, wheel
<1>t. diff' \in 0 .. MaxLag /\ (pc' # "idle" => diff' >= 1) /\ pc' # "dispatch0"
      /\ pc' \in {"idle", "lock", "execute0"}
  BY DEF TimerInv, TypeOK, ThreadInv, UpdateTime
<1>c. current = <<>>
  BY DEF TimerInv, ThreadInv, UpdateTime
<1>2. TypeOK' /\ ThreadInv'
  <2>1. near' = near /\ t' = t
    BY DEF UpdateTime
  <2>2. TypeOK'
    BY <1>1, <1>t, <2>1 DEF TimerInv, TypeOK
  <2>3. ThreadInv'
    BY <1>1, <1>t, <1>c DEF ThreadInv
  <2> QED BY <2>2, <2>3
<1>3. HeldInv'
  BY <1>1 DEF TimerInv, HeldInv, UpdateTime
<1>4. ListsInv' /\ KeptInv' /\ OlderInv'
  BY <1>1 DEF TimerInv, ListsInv, KeptInv, OlderInv
<1> QED BY <1>2, <1>3, <1>4 DEF TimerInv

\* Taking the lock preserves the invariant: nothing is due when a new tick begins.
LEMMA LockKeeps ==
  ASSUME TimerInv, Lock
  PROVE  TimerInv'
<1>1. wheel' = wheel /\ current' = current /\ left' = left /\ pending' = pending
      /\ older' = older /\ time' = time
  BY DEF Lock, wheel
<1>2. TypeOK' /\ ThreadInv'
  BY DEF TimerInv, TypeOK, ThreadInv, Lock
<1>3. HeldInv'
  BY <1>1 DEF TimerInv, HeldInv, Lock
<1>4. ListsInv' /\ KeptInv' /\ OlderInv'
  BY <1>1 DEF TimerInv, ListsInv, KeptInv, OlderInv
<1> QED BY <1>2, <1>3, <1>4 DEF TimerInv

\* When the list of the tick is empty, nothing is due any more.
LEMMA UnlockKeeps ==
  ASSUME TimerInv, Unlock
  PROVE  TimerInv'
<1>1. wheel' = wheel /\ current' = current /\ left' = left /\ pending' = pending
      /\ older' = older /\ time' = time
  BY DEF Unlock, wheel
<1>t. diff' \in 0 .. MaxLag /\ (pc' # "idle" => diff' >= 1) /\ pc' # "dispatch0"
      /\ pc' \in {"idle", "lock", "execute0"}
  BY DEF TimerInv, TypeOK, ThreadInv, Unlock
<1>c. current = <<>>
  BY DEF TimerInv, ThreadInv, Unlock
<1>2. TypeOK' /\ ThreadInv'
  <2>1. near' = near /\ t' = t
    BY DEF Unlock
  <2>2. TypeOK'
    BY <1>1, <1>t, <2>1 DEF TimerInv, TypeOK
  <2>3. ThreadInv'
    BY <1>1, <1>t, <1>c DEF ThreadInv
  <2> QED BY <2>2, <2>3
<1>3. ASSUME NEW m \in Held(wheel) PROVE left[m.id] > 0
  <2>1. Away(m.expire, time) = left[m.id] /\ m.expire \in 0 .. Range32 - 1
    BY DEF TimerInv, HeldInv, Held, Node
  <2>2. time \in 0 .. Range32 - 1
    BY WheelType DEF TimerInv
  <2>3. left[m.id] \in Nat /\ (left[m.id] = 0 => m.expire = time)
    BY <2>1, <2>2, DueTick
  <2>4. m.expire # time
    <3> SUFFICES ASSUME m.expire = time PROVE FALSE
      OBVIOUS
    <3>1. \E k \in DOMAIN DueList : DueList[k] = m
      BY Due DEF TimerInv, ListsInv
    <3> QED BY <3>1 DEF Unlock
  <2> QED BY <2>3, <2>4
<1>4. HeldInv'
  BY <1>1, <1>3 DEF TimerInv, HeldInv
<1>5. ListsInv' /\ KeptInv' /\ OlderInv'
  BY <1>1 DEF TimerInv, ListsInv, KeptInv, OlderInv
<1> QED BY <1>2, <1>4, <1>5 DEF TimerInv

\* A near list is cleared.
LEMMA ClearedNear ==
  ASSUME NEW w \in Wheel, NEW j \in 0 .. Near - 1, NEW o, Lined(w, o), Shelved(w)
  PROVE  LET v == WithNear(w, j, <<>>)
         IN  /\ v \in Wheel /\ v.time = w.time
             /\ Shelved(v) /\ Lined(v, o) /\ Held(v) \subseteq Held(w)
             /\ Dropped(w, v, w.near[j])
             /\ \A m \in Held(v) : ~NearAt(m.expire, w.time, j)
<1> DEFINE v == WithNear(w, j, <<>>)
<1>1. <<>> \in Seq(Node) /\ DOMAIN (<<>>) = {}
  OBVIOUS
<1>2. /\ v \in Wheel /\ v.time = w.time /\ v.t = w.t /\ v.near[j] = <<>>
      /\ \A a \in 0 .. Near - 1 : a # j => v.near[a] = w.near[a]
  BY <1>1, NearField
<1> HIDE DEF v
<1>3. DOMAIN v.near[j] = {}
  BY <1>1, <1>2
<1>4. Lined(v, o)
  <2>1. ASSUME NEW a \in 0 .. Near - 1 PROVE InLine(v.near[a], o)
    <3>1. CASE a = j
      BY <1>3, <3>1 DEF InLine
    <3>2. CASE a # j
      BY <1>2, <3>2 DEF Lined
    <3> QED BY <3>1, <3>2
  <2> QED BY <1>2, <2>1 DEF Lined
<1>5. Shelved(v)
  <2>1. ASSUME NEW a \in 0 .. Near - 1, NEW k \in DOMAIN v.near[a]
        PROVE  NearAt(v.near[a][k].expire, v.time, a)
    <3>1. a # j
      BY <1>3
    <3> QED BY <1>2, <3>1 DEF Shelved
  <2> QED BY <1>2, <2>1 DEF Shelved
<1>6. ASSUME NEW m, m \in Held(v) PROVE m \in Held(w) /\ ~NearAt(m.expire, w.time, j)
  <2>1. CASE \E a \in 0 .. Near - 1 : \E k \in DOMAIN v.near[a] : v.near[a][k] = m
    <3>1. PICK a \in 0 .. Near - 1 : \E k \in DOMAIN v.near[a] : v.near[a][k] = m
      BY <2>1
    <3>2. PICK k \in DOMAIN v.near[a] : v.near[a][k] = m
      BY <3>1
    <3>3. a # j /\ v.near[a] = w.near[a]
      BY <1>2, <1>3, <3>2
    <3>4. m \in Held(w) /\ NearAt(m.expire, w.time, a)
      BY <3>2, <3>3, HeldNear DEF Shelved
    <3> QED BY <3>3, <3>4 DEF NearAt
  <2>2. CASE \E a \in 0 .. 3, b \in 0 .. Level - 1 : \E k \in DOMAIN v.t[a][b] : v.t[a][b][k] = m
    <3>1. PICK a \in 0 .. 3, b \in 0 .. Level - 1 : \E k \in DOMAIN v.t[a][b] : v.t[a][b][k] = m
      BY <2>2
    <3>2. PICK k \in DOMAIN w.t[a][b] : w.t[a][b][k] = m
      BY <1>2, <3>1
    <3>3. m \in Held(w) /\ FarAt(m.expire, w.time, a, b)
      BY <3>2, HeldFar DEF Shelved
    <3> QED BY <3>3 DEF NearAt, FarAt
  <2> QED BY <1>6, <2>1, <2>2 DEF Held
<1>7. ASSUME NEW m, m \in Held(w) PROVE m \in Held(v) \/ \E k \in DOMAIN w.near[j] : w.near[j][k] = m
  <2>1. CASE \E a \in 0 .. Near - 1 : \E k \in DOMAIN w.near[a] : w.near[a][k] = m
    <3>1. PICK a \in 0 .. Near - 1 : \E k \in DOMAIN w.near[a] : w.near[a][k] = m
      BY <2>1
    <3>2. CASE a = j
      BY <3>1, <3>2
    <3>3. CASE a # j
      <4>1. v.near[a] = w.near[a]
        BY <1>2, <3>3
      <4> QED BY <1>2, <3>1, <4>1, HeldNear
    <3> QED BY <3>2, <3>3
  <2>2. CASE \E a \in 0 .. 3, b \in 0 .. Level - 1 : \E k \in DOMAIN w.t[a][b] : w.t[a][b][k] = m
    <3>1. PICK a \in 0 .. 3, b \in 0 .. Level - 1 : \E k \in DOMAIN w.t[a][b] : w.t[a][b][k] = m
      BY <2>2
    <3>2. PICK k \in DOMAIN v.t[a][b] : v.t[a][b][k] = m
      BY <1>2, <3>1
    <3> QED BY <1>2, <3>2, HeldFar
  <2> QED BY <1>7, <2>1, <2>2 DEF Held
<1> QED BY <1>2, <1>4, <1>5, <1>6, <1>7 DEF v, Dropped

\* timer_execute takes what is due; nothing that is due stays in the wheel.
LEMMA TakeDueKeeps ==
  ASSUME TimerInv, TakeDue
  PROVE  TimerInv'
<1> DEFINE j == time % Near
           v == WithNear(wheel, j, <<>>)
<1>0. TypeOK /\ Shelved(wheel) /\ Lined(wheel, older)
  BY DEF TimerInv, ListsInv
<1>1. /\ wheel \in Wheel /\ time \in 0 .. Range32 - 1
      /\ wheel.time = time /\ wheel.near = near /\ wheel.t = t
  BY <1>0, WheelType, WheelFields
<1>2. /\ j \in 0 .. Near - 1 /\ DueList \in Seq(Node)
      /\ \A k \in DOMAIN DueList : DueList[k] \in Held(wheel) /\ DueList[k].expire = time
  BY <1>0, Due
<1>3. DueList = wheel.near[j]
  BY <1>1 DEF DueList
<1>4. /\ v \in Wheel /\ v.time = time
      /\ Shelved(v) /\ Lined(v, older) /\ Held(v) \subseteq Held(wheel)
      /\ Dropped(wheel, v, DueList)
      /\ \A m \in Held(v) : ~NearAt(m.expire, time, j)
  <2> HIDE DEF j
  <2> QED BY <1>0, <1>1, <1>2, <1>3, ClearedNear
<1>5. v.near = near' /\ v.t = t' /\ time' = v.time
  <2>1. v = [wheel EXCEPT !.near = [near EXCEPT ![j] = <<>>]]
    BY <1>1 DEF WithNear
  <2>2. near' = [near EXCEPT ![j] = <<>>] /\ t' = t /\ time' = time
    BY DEF TakeDue
  <2> DEFINE f == [near EXCEPT ![j] = <<>>]
  <2> HIDE DEF f, v, j
  <2>3. v = [wheel EXCEPT !.near = f]
    BY <2>1 DEF f
  <2>4. v.near = f /\ v.t = wheel.t
    BY <1>1, <2>3 DEF Wheel
  <2> QED BY <1>1, <1>4, <2>2, <2>4 DEF f
<1> HIDE DEF v, j
<1>6. /\ wheel' = v /\ time' = time
      /\ time' \in 0 .. Range32 - 1 /\ near' \in [0 .. Near - 1 -> Seq(Node)]
      /\ t' \in [0 .. 3 -> [0 .. Level - 1 -> Seq(Node)]]
  BY <1>4, <1>5, NextWheel DEF SetWheel
<1>7. /\ DueList # <<>> /\ current' = DueList /\ left' = left /\ pending' = pending
      /\ older' = older /\ diff' = diff
  BY DEF TakeDue
<1>8. ASSUME NEW k \in DOMAIN DueList
      PROVE  DueList[k].id \in pending /\ left[DueList[k].id] = 0 /\ pc = "execute"
  <2>1. DueList[k] \in Held(wheel) /\ DueList[k].expire = time
    BY <1>2
  <2>2. /\ DueList[k].id \in pending /\ Away(time, time) = left[DueList[k].id]
        /\ pc # "execute" => left[DueList[k].id] > 0
    BY <2>1 DEF TimerInv, HeldInv
  <2>3. Away(time, time) = 0
    BY <1>1, DueTick
  <2> QED BY <2>2, <2>3
<1>9. pc = "execute" /\ pc' = "dispatch" /\ current = <<>> /\ diff >= 1
  <2>1. \E k \in DOMAIN DueList : TRUE
    BY <1>2, <1>7
  <2>2. pc = "execute"
    BY <1>8, <2>1
  <2> QED BY <2>2 DEF TimerInv, ThreadInv, TakeDue
<1>10. TypeOK'
  BY <1>0, <1>2, <1>6, <1>7, <1>9 DEF TypeOK
<1>11. ListsInv'
  <2>1. InLine(DueList, older)
    BY <1>0, <1>2, <1>3 DEF Lined
  <2> QED BY <1>4, <1>6, <1>7, <2>1 DEF ListsInv
<1>12. ASSUME NEW m \in Held(v)
       PROVE  /\ m.id \in pending /\ Away(m.expire, time) = left[m.id] /\ left[m.id] > 0
              /\ \A k \in DOMAIN DueList : DueList[k].id # m.id
  <2>1. m \in Held(wheel) /\ ~NearAt(m.expire, time, j)
    BY <1>4
  <2>2. m.id \in pending /\ Away(m.expire, time) = left[m.id]
    BY <2>1 DEF TimerInv, HeldInv
  <2>3. m.expire \in 0 .. Range32 - 1
    BY <2>1 DEF Held, Node
  <2>4. m.expire # time
    BY <1>1, <2>1, <2>3, DueTick DEF j
  <2>5. left[m.id] > 0
    BY <1>1, <2>2, <2>3, <2>4, DueTick
  <2> QED BY <1>8, <2>2, <2>5
<1>13. HeldInv'
  BY <1>6, <1>7, <1>12 DEF HeldInv
<1>14. KeptInv'
  <2>1. ASSUME NEW id \in pending
        PROVE  \/ \E m \in Held(v) : m.id = id
               \/ \E k \in DOMAIN DueList : DueList[k].id = id
    <3>1. PICK m \in Held(wheel) : m.id = id
      BY <1>9 DEF TimerInv, KeptInv
    <3> QED BY <1>4, <3>1 DEF Dropped
  <2> QED BY <1>6, <1>7, <2>1 DEF KeptInv
<1>15. OlderInv'
  BY <1>7 DEF TimerInv, OlderInv
<1>16. ThreadInv'
  BY <1>2, <1>6, <1>7, <1>8, <1>9 DEF ThreadInv
<1> QED BY <1>10, <1>11, <1>13, <1>14, <1>15, <1>16 DEF TimerInv

\* dispatch_list: the first node goes, and is nowhere else.
LEMMA DispatchKeeps ==
  ASSUME TimerInv, DispatchNode
  PROVE  TimerInv'
<1> DEFINE h == Head(current).id
           c == Tail(current)
<1>1. /\ current # <<>> /\ current' = c /\ pending' = pending \ {h}
      /\ older' = [id \in Timer |-> older[id] \ {h}]
      /\ wheel' = wheel /\ time' = time /\ near' = near /\ t' = t
      /\ pc' = pc /\ diff' = diff /\ left' = left
  BY DEF DispatchNode, wheel
<1>2. /\ current \in Seq(Node) /\ pending \in SUBSET Timer
      /\ older \in [Timer -> SUBSET Timer] /\ TypeOK
  BY DEF TimerInv, TypeOK
<1>3. /\ c \in Seq(Node) /\ 1 \in DOMAIN current /\ h = current[1].id
      /\ DOMAIN c = 1 .. Len(current) - 1 /\ DOMAIN current = 1 .. Len(current)
      /\ \A k \in DOMAIN c : c[k] = current[k + 1] /\ k + 1 \in DOMAIN current
      /\ \A k \in DOMAIN current : k # 1 => k - 1 \in DOMAIN c /\ c[k - 1] = current[k]
  BY <1>1, <1>2
<1>o. \A id \in Timer : older'[id] = older[id] \ {h}
  BY <1>1
<1> HIDE DEF h, c
<1>4. h \in pending /\ h \in Timer
  BY <1>2, <1>3 DEF TimerInv, ThreadInv
<1>5. \A k \in DOMAIN current : /\ current[k].id \in pending /\ left[current[k].id] = 0
                                /\ current[k].expire = time
  BY DEF TimerInv, ThreadInv
<1>6. \A k \in DOMAIN current : k # 1 => current[k].id # h
  <2> SUFFICES ASSUME NEW k \in DOMAIN current, k # 1, current[k].id = h PROVE FALSE
    OBVIOUS
  <2>1. 1 < k
    BY <1>2
  <2>2. current[1].expire = current[k].expire
    BY <1>3, <1>5
  <2>3. h \in older[h]
    BY <1>3, <2>1, <2>2 DEF TimerInv, ListsInv, InLine
  <2> QED BY <1>4, <2>3 DEF TimerInv, OlderInv
<1>7. \A m \in Held(wheel) : m.id # h /\ m.id \in pending /\ \A k \in DOMAIN current : current[k].id # m.id
  BY <1>3 DEF TimerInv, HeldInv
<1>8. TypeOK'
  <2>1. pending' \in SUBSET Timer
    BY <1>1, <1>2
  <2>2. older' \in [Timer -> SUBSET Timer]
    BY <1>1, <1>2
  <2> QED BY <1>1, <1>2, <1>3, <2>1, <2>2 DEF TypeOK
<1>9. ListsInv'
  <2>1. ASSUME NEW s \in Seq(Node), InLine(s, older), \A k \in DOMAIN s : s[k].id # h
        PROVE  InLine(s, older')
    <3>1. ASSUME NEW a \in DOMAIN s, NEW b \in DOMAIN s, a < b, s[a].expire = s[b].expire
          PROVE  s[a].id \in older'[s[b].id]
      <4>1. s[a].id \in older[s[b].id] /\ s[a].id # h /\ s[b].id \in Timer
        <5>1. s[b] \in Node
          BY <2>1, <3>1
        <5>2. s[b].id \in Timer
          BY <5>1 DEF Node
        <5> QED BY <2>1, <3>1, <5>2 DEF InLine
      <4> QED BY <1>o, <4>1
    <3> QED BY <3>1 DEF InLine
  <2>2. wheel \in Wheel /\ Shelved(wheel) /\ Lined(wheel, older)
    BY <1>2, WheelType DEF TimerInv, ListsInv
  <2>3. ASSUME NEW j \in 0 .. Near - 1 PROVE InLine(wheel.near[j], older')
    <3>1. wheel.near[j] \in Seq(Node) /\ InLine(wheel.near[j], older)
      BY <2>2 DEF Wheel, Lined
    <3>2. \A k \in DOMAIN wheel.near[j] : wheel.near[j][k].id # h
      BY <1>7, <2>2, HeldNear
    <3> QED BY <2>1, <3>1, <3>2
  <2>4. ASSUME NEW i \in 0 .. 3, NEW j \in 0 .. Level - 1 PROVE InLine(wheel.t[i][j], older')
    <3>0. wheel.t \in [0 .. 3 -> [0 .. Level - 1 -> Seq(Node)]]
      BY <2>2 DEF Wheel
    <3>1. wheel.t[i][j] \in Seq(Node) /\ InLine(wheel.t[i][j], older)
      <4>1. wheel.t[i][j] \in Seq(Node)
        BY <3>0
      <4>2. InLine(wheel.t[i][j], older)
        BY <2>2 DEF Lined
      <4> QED BY <4>1, <4>2
    <3>2. \A k \in DOMAIN wheel.t[i][j] : wheel.t[i][j][k].id # h
      BY <1>7, <2>2, HeldFar
    <3> QED BY <2>1, <3>1, <3>2
  <2>5. InLine(c, older')
    <3>1. InLine(c, older)
      <4>1. ASSUME NEW a \in DOMAIN c, NEW b \in DOMAIN c, a < b, c[a].expire = c[b].expire
            PROVE  c[a].id \in older[c[b].id]
        <5>1. c[a] = current[a + 1] /\ c[b] = current[b + 1] /\ a + 1 < b + 1
              /\ a + 1 \in DOMAIN current /\ b + 1 \in DOMAIN current
          BY <1>3, <4>1
        <5> QED BY <4>1, <5>1 DEF TimerInv, ListsInv, InLine
      <4> QED BY <4>1 DEF InLine
    <3>2. \A k \in DOMAIN c : c[k].id # h
      <4> SUFFICES ASSUME NEW k \in DOMAIN c PROVE c[k].id # h
        OBVIOUS
      <4>1. c[k] = current[k + 1] /\ k + 1 \in DOMAIN current /\ k + 1 # 1
        BY <1>3
      <4> QED BY <1>6, <4>1
    <3> QED BY <1>3, <2>1, <3>1, <3>2
  <2>6. Lined(wheel, older')
    BY <2>3, <2>4 DEF Lined
  <2> QED BY <1>1, <2>2, <2>5, <2>6 DEF ListsInv
<1>10. HeldInv'
  <2>1. ASSUME NEW m \in Held(wheel)
        PROVE  /\ m.id \in pending' /\ Away(m.expire, time) = left[m.id]
               /\ pc # "execute" => left[m.id] > 0
               /\ \A k \in DOMAIN c : c[k].id # m.id
    <3>1. m.id \in pending'
      BY <1>1, <1>7
    <3>2. \A k \in DOMAIN c : c[k].id # m.id
      BY <1>3, <1>7
    <3> QED BY <3>1, <3>2 DEF TimerInv, HeldInv
  <2> QED BY <1>1, <2>1 DEF HeldInv
<1>11. KeptInv'
  <2>1. ASSUME NEW id \in pending'
        PROVE  (\E m \in Held(wheel) : m.id = id) \/ \E k \in DOMAIN c : c[k].id = id
    <3>1. id \in pending /\ id # h
      BY <1>1
    <3>2. CASE \E m \in Held(wheel) : m.id = id
      BY <3>2
    <3>3. CASE \E k \in DOMAIN current : current[k].id = id
      <4>1. PICK k \in DOMAIN current : current[k].id = id
        BY <3>3
      <4>2. k # 1
        BY <1>3, <3>1, <4>1
      <4> QED BY <1>3, <4>1, <4>2
    <3> QED BY <3>1, <3>2, <3>3 DEF TimerInv, KeptInv
  <2> QED BY <1>1, <2>1 DEF KeptInv
<1>12. OlderInv'
  <2>1. ASSUME NEW a \in pending'
        PROVE  /\ older'[a] \subseteq pending'
               /\ \A b \in pending' : a \in older'[b] => b \notin older'[a]
    <3>1. a \in pending /\ a \in Timer /\ older'[a] = older[a] \ {h} /\ older[a] \subseteq pending
      BY <1>1, <1>2, <1>o DEF TimerInv, OlderInv
    <3>2. ASSUME NEW b \in pending', a \in older'[b] PROVE b \notin older'[a]
      <4>1. b \in pending /\ b \in Timer /\ older'[b] = older[b] \ {h}
        BY <1>1, <1>2, <1>o
      <4>2. a \in older[b]
        BY <3>2, <4>1
      <4> QED BY <3>1, <4>1, <4>2 DEF TimerInv, OlderInv
    <3> QED BY <1>1, <3>1, <3>2
  <2> QED BY <2>1 DEF OlderInv
<1>13. ThreadInv'
  <2>1. ASSUME NEW k \in DOMAIN c
        PROVE  c[k].id \in pending' /\ left[c[k].id] = 0 /\ c[k].expire = time
    <3>1. c[k] = current[k + 1] /\ k + 1 \in DOMAIN current /\ k + 1 # 1
      BY <1>3
    <3> QED BY <1>1, <1>5, <1>6, <3>1
  <2>2. pc = "dispatch" /\ diff >= 1
    BY <1>1 DEF TimerInv, ThreadInv
  <2> QED BY <1>1, <2>1, <2>2 DEF ThreadInv
<1> QED BY <1>8, <1>9, <1>10, <1>11, <1>12, <1>13 DEF TimerInv

\* skynet_timeout: the new node is behind all that expire with it.
LEMMA TimeoutKeeps ==
  ASSUME TimerInv, NEW id \in Timer, NEW delay \in 1 .. MaxTimeout, Timeout(id, delay)
  PROVE  TimerInv'
<1> DEFINE e == Expire(delay)
           n == [id |-> id, expire |-> e]
           v == add_node(wheel, n)
<1>0. TypeOK /\ Shelved(wheel) /\ Lined(wheel, older)
  BY DEF TimerInv, ListsInv
<1>1. /\ wheel \in Wheel /\ time \in 0 .. Range32 - 1 /\ time \in Nat
      /\ Range32 \in Nat \ {0} /\ MaxTimeout \in Nat /\ MaxTimeout < Range32
      /\ wheel.time = time
  <2>1. Unit[3] \in Nat
    BY Units
  <2> QED BY <1>0, <2>1, WheelType, WheelFields, UnitBounds
<1>2. /\ SetWheel(v) /\ id \notin pending /\ pc \notin {"execute0", "shift", "execute"}
      /\ left' = [left EXCEPT ![id] = delay] /\ pending' = pending \cup {id}
      /\ older' = [older EXCEPT ![id] = pending]
      /\ pc' = pc /\ diff' = diff /\ current' = current
  BY DEF Timeout, Locked
<1>3. e \in 0 .. Range32 - 1 /\ Away(e, time) = delay
  <2>1. e = (time + delay) % Range32
    BY DEF Expire
  <2> HIDE DEF e
  <2>2. CASE time + delay < Range32
    <3>1. time + delay = Range32 * 0 + (time + delay) /\ time + delay \in Nat
      BY <1>1
    <3>2. e = time + delay
      BY <1>1, <2>1, <2>2, <3>1, Quotient
    <3>3. e \in 0 .. Range32 - 1
      BY <1>1, <2>2, <3>1, <3>2
    <3>4. Away(e, time) = IF time <= e THEN e - time ELSE e - time + Range32
      BY <1>1, <3>3, AwayIs
    <3> QED BY <1>1, <3>2, <3>3, <3>4
  <2>3. CASE time + delay >= Range32
    <3> DEFINE r == time + delay - Range32
    <3>1. time + delay = Range32 * 1 + r /\ time + delay \in Nat /\ r \in Nat /\ r < Range32
      BY <1>1, <2>3
    <3>2. e = r
      <4> HIDE DEF r
      <4> QED BY <1>1, <2>1, <3>1, Quotient
    <3>3. e \in 0 .. Range32 - 1
      BY <1>1, <3>1, <3>2
    <3>4. Away(e, time) = IF time <= e THEN e - time ELSE e - time + Range32
      BY <1>1, <3>3, AwayIs
    <3> QED BY <1>1, <3>2, <3>3, <3>4
  <2> QED BY <1>1, <2>2, <2>3
<1> HIDE DEF e
<1>4. n \in Node /\ n.id = id /\ n.expire = e
  BY <1>3 DEF Node
<1> HIDE DEF n
<1>5. /\ pending \in SUBSET Timer /\ older \in [Timer -> SUBSET Timer]
      /\ left \in [Timer -> 0 .. MaxTimeout] /\ current \in Seq(Node)
  BY <1>0 DEF TypeOK
<1>6. /\ older'[id] = pending /\ left'[id] = delay
      /\ \A a \in pending : older'[a] = older[a] /\ left'[a] = left[a]
  BY <1>2, <1>5
<1>7. ASSUME NEW s \in Seq(Node), InLine(s, older), \A k \in DOMAIN s : s[k].id \in pending
      PROVE  InLine(s, older')
  BY <1>6, <1>7 DEF InLine
<1>8. \A m \in Held(wheel) : m.id \in pending /\ Away(m.expire, time) = left[m.id]
                             /\ (pc # "execute" => left[m.id] > 0)
                             /\ \A k \in DOMAIN current : current[k].id # m.id
  BY DEF TimerInv, HeldInv
<1>9. Lined(wheel, older')
  <2>1. ASSUME NEW j \in 0 .. Near - 1 PROVE InLine(wheel.near[j], older')
    <3>1. wheel.near[j] \in Seq(Node) /\ InLine(wheel.near[j], older)
      BY <1>0, <1>1 DEF Wheel, Lined
    <3>2. \A k \in DOMAIN wheel.near[j] : wheel.near[j][k].id \in pending
      BY <1>1, <1>8, HeldNear
    <3> QED BY <1>7, <3>1, <3>2
  <2>2. ASSUME NEW i \in 0 .. 3, NEW j \in 0 .. Level - 1 PROVE InLine(wheel.t[i][j], older')
    <3>0. wheel.t \in [0 .. 3 -> [0 .. Level - 1 -> Seq(Node)]]
      BY <1>1 DEF Wheel
    <3>1. wheel.t[i][j] \in Seq(Node)
      BY <3>0
    <3>2. InLine(wheel.t[i][j], older)
      BY <1>0 DEF Lined
    <3>3. \A k \in DOMAIN wheel.t[i][j] : wheel.t[i][j][k].id \in pending
      BY <1>1, <1>8, HeldFar
    <3> QED BY <1>7, <3>1, <3>2, <3>3
  <2> QED BY <2>1, <2>2 DEF Lined
<1>10. /\ v \in Wheel /\ v.time = wheel.time
       /\ Shelved(v) /\ Lined(v, older') /\ Held(v) = Held(wheel) \cup {n}
  <2>1. \A m \in Held(wheel) : m.expire = n.expire => m.id \in older'[n.id]
    BY <1>4, <1>6, <1>8
  <2> QED BY <1>0, <1>1, <1>4, <1>9, <2>1, Added
<1> HIDE DEF v
<1>11. /\ wheel' = v /\ time' = time
       /\ time' \in 0 .. Range32 - 1 /\ near' \in [0 .. Near - 1 -> Seq(Node)]
       /\ t' \in [0 .. 3 -> [0 .. Level - 1 -> Seq(Node)]]
  BY <1>1, <1>2, <1>10, NextWheel
<1>12. TypeOK'
  <2>1. pending' \in SUBSET Timer
    BY <1>2, <1>5
  <2>2. older' \in [Timer -> SUBSET Timer]
    BY <1>2, <1>5
  <2>3. left' \in [Timer -> 0 .. MaxTimeout]
    <3>1. delay \in 0 .. MaxTimeout
      BY <1>1
    <3> QED BY <1>2, <1>5, <3>1
  <2> QED BY <1>0, <1>2, <1>11, <2>1, <2>2, <2>3 DEF TypeOK
<1>13. \A k \in DOMAIN current : /\ current[k].id \in pending /\ left[current[k].id] = 0
                                 /\ current[k].expire = time
  BY DEF TimerInv, ThreadInv
<1>14. ListsInv'
  <2>1. InLine(current, older')
    <3>1. InLine(current, older)
      BY DEF TimerInv, ListsInv
    <3> QED BY <1>5, <1>7, <1>13, <3>1
  <2> QED BY <1>2, <1>10, <1>11, <2>1 DEF ListsInv
<1>15. HeldInv'
  <2>1. ASSUME NEW m \in Held(v)
        PROVE  /\ m.id \in pending' /\ Away(m.expire, time) = left'[m.id]
               /\ pc # "execute" => left'[m.id] > 0
               /\ \A k \in DOMAIN current : current[k].id # m.id
    <3>1. CASE m = n
      <4>1. m.id = id /\ Away(m.expire, time) = delay /\ left'[id] = delay /\ delay > 0
        BY <1>3, <1>4, <1>6, <3>1
      <4> QED BY <1>2, <1>13, <4>1
    <3>2. CASE m \in Held(wheel)
      <4>1. m.id \in pending /\ left'[m.id] = left[m.id]
        BY <1>6, <1>8, <3>2
      <4> QED BY <1>2, <1>8, <3>2, <4>1
    <3> QED BY <1>10, <3>1, <3>2
  <2> QED BY <1>2, <1>11, <2>1 DEF HeldInv
<1>16. KeptInv'
  <2>1. ASSUME NEW a \in pending'
        PROVE  (\E m \in Held(v) : m.id = a) \/ \E k \in DOMAIN current : current[k].id = a
    <3>1. CASE a = id
      BY <1>4, <1>10, <3>1
    <3>2. CASE a \in pending
      BY <1>10, <3>2 DEF TimerInv, KeptInv
    <3> QED BY <1>2, <3>1, <3>2
  <2> QED BY <1>2, <1>11, <2>1 DEF KeptInv
<1>17. OlderInv'
  <2>0. \A a \in pending : older[a] \subseteq pending
    BY DEF TimerInv, OlderInv
  <2>1. ASSUME NEW a \in pending'
        PROVE  /\ older'[a] \subseteq pending'
               /\ \A b \in pending' : a \in older'[b] => b \notin older'[a]
    <3>1. older'[a] \subseteq pending
      BY <1>2, <1>6, <2>0, <2>1
    <3>2. ASSUME NEW b \in pending', a \in older'[b], b \in older'[a] PROVE FALSE
      <4>1. a \in pending /\ b \in pending
        <5>1. older'[b] \subseteq pending
          BY <1>2, <1>6, <2>0
        <5> QED BY <3>1, <3>2, <5>1
      <4>2. older'[a] = older[a] /\ older'[b] = older[b]
        BY <1>6, <4>1
      <4> QED BY <3>2, <4>1, <4>2 DEF TimerInv, OlderInv
    <3> QED BY <1>2, <3>1, <3>2
  <2> QED BY <2>1 DEF OlderInv
<1>18. ThreadInv'
  <2>1. ASSUME NEW k \in DOMAIN current
        PROVE  /\ current[k].id \in pending' /\ left'[current[k].id] = 0
               /\ current[k].expire = time
    BY <1>2, <1>6, <1>13
  <2>2. pc # "dispatch0" /\ (current # <<>> => pc = "dispatch") /\ (pc # "idle" => diff >= 1)
    BY DEF TimerInv, ThreadInv
  <2> QED BY <1>2, <1>11, <2>1, <2>2 DEF ThreadInv
<1> QED BY <1>12, <1>14, <1>15, <1>16, <1>17, <1>18 DEF TimerInv

\* timer_shift: one tick less is left of every timer.
LEMMA ShiftKeeps ==
  ASSUME TimerInv, Shift
  PROVE  TimerInv'
<1> DEFINE v == timer_shift(wheel)
<1>0. TypeOK /\ Shelved(wheel) /\ Lined(wheel, older)
  BY DEF TimerInv, ListsInv
<1>1. wheel \in Wheel /\ time \in 0 .. Range32 - 1 /\ wheel.time = time
  BY <1>0, WheelType, WheelFields
<1>2. /\ SetWheel(v) /\ pc = "execute0" /\ pc' = "execute"
      /\ left' = [id \in Timer |-> IF id \in pending /\ left[id] > 0 THEN left[id] - 1 ELSE 0]
      /\ diff' = diff /\ current' = current /\ pending' = pending /\ older' = older
  BY DEF Shift
<1>3. current = <<>> /\ diff >= 1
  BY <1>2 DEF TimerInv, ThreadInv
<1>4. ASSUME NEW m \in Held(wheel)
      PROVE  /\ m.id \in pending /\ m.id \in Timer /\ m.expire \in 0 .. Range32 - 1
             /\ Away(m.expire, time) = left[m.id] /\ left[m.id] \in 1 .. MaxTimeout
  <2>1. m.id \in pending /\ Away(m.expire, time) = left[m.id] /\ left[m.id] > 0
    BY <1>2 DEF TimerInv, HeldInv
  <2>2. m.id \in Timer /\ m.expire \in 0 .. Range32 - 1
    BY DEF Held, Node
  <2>3. left[m.id] \in 0 .. MaxTimeout /\ MaxTimeout \in Nat
    BY <1>0, <2>2, UnitBounds DEF TypeOK
  <2> QED BY <2>1, <2>2, <2>3
<1>5. /\ v \in Wheel /\ v.time = NextTime(time)
      /\ Shelved(v) /\ Lined(v, older) /\ Held(v) = Held(wheel)
  <2>1. \A m \in Held(wheel) : Away(m.expire, wheel.time) # 0 /\ Away(m.expire, wheel.time) <= MaxTimeout
    <3> SUFFICES ASSUME NEW m \in Held(wheel)
                 PROVE  Away(m.expire, wheel.time) # 0 /\ Away(m.expire, wheel.time) <= MaxTimeout
      OBVIOUS
    <3>1. Away(m.expire, wheel.time) \in 1 .. MaxTimeout
      BY <1>1, <1>4
    <3>2. MaxTimeout \in Nat
      BY UnitBounds
    <3> QED BY <3>1, <3>2
  <2>2. /\ v \in Wheel /\ v.time = NextTime(wheel.time)
        /\ Shelved(v) /\ Lined(v, older) /\ Held(v) = Held(wheel)
    BY <1>0, <1>1, <2>1, Shifted
  <2> QED BY <1>1, <2>2
<1> HIDE DEF v
<1>6. /\ wheel' = v /\ time' = NextTime(time)
      /\ time' \in 0 .. Range32 - 1 /\ near' \in [0 .. Near - 1 -> Seq(Node)]
      /\ t' \in [0 .. 3 -> [0 .. Level - 1 -> Seq(Node)]]
  BY <1>2, <1>5, NextWheel
<1>7. TypeOK'
  <2>1. left' \in [Timer -> 0 .. MaxTimeout]
    <3>1. left \in [Timer -> 0 .. MaxTimeout] /\ MaxTimeout \in Nat
      BY <1>0, UnitBounds DEF TypeOK
    <3>2. ASSUME NEW id \in Timer PROVE left'[id] \in 0 .. MaxTimeout
      BY <1>2, <3>1
    <3> QED BY <1>2, <3>2
  <2> QED BY <1>0, <1>2, <1>6, <2>1 DEF TypeOK
<1>8. ListsInv'
  <2>1. InLine(current, older)
    BY DEF TimerInv, ListsInv
  <2> QED BY <1>2, <1>5, <1>6, <2>1 DEF ListsInv
<1>9. HeldInv'
  <2>1. ASSUME NEW m \in Held(v)
        PROVE  m.id \in pending /\ Away(m.expire, time') = left'[m.id]
    <3>1. m \in Held(wheel)
      BY <1>5
    <3>2. /\ m.id \in pending /\ m.id \in Timer /\ m.expire \in 0 .. Range32 - 1
          /\ Away(m.expire, time) = left[m.id] /\ left[m.id] \in 1 .. MaxTimeout
      BY <1>4, <3>1
    <3>3. left[m.id] > 0 /\ left[m.id] # 0
      BY <3>2
    <3>4. left'[m.id] = left[m.id] - 1
      BY <1>2, <3>2, <3>3
    <3>5. Away(m.expire, NextTime(time)) = left[m.id] - 1
      BY <1>1, <3>2, <3>3, AwayNext
    <3> QED BY <1>6, <3>2, <3>4, <3>5
  <2>2. DOMAIN current = {}
    BY <1>3
  <2> QED BY <1>2, <1>6, <2>1, <2>2 DEF HeldInv
<1>10. KeptInv'
  BY <1>2, <1>5, <1>6 DEF TimerInv, KeptInv
<1>11. OlderInv'
  BY <1>2 DEF TimerInv, OlderInv
<1>12. ThreadInv'
  BY <1>2, <1>3 DEF ThreadInv
<1> QED BY <1>7, <1>8, <1>9, <1>10, <1>11, <1>12 DEF TimerInv

-----------------------------------------------------------------------------
(* The theorems.                                                           *)

\* The inductive invariant of the wheel holds for any timers, any number of
\* lists and any lag of the clock.
THEOREM TimerInvariant == Spec => []TimerInv
<1>1. TimerInv /\ [Next]_vars => TimerInv'
  <2> SUFFICES ASSUME TimerInv, [Next]_vars PROVE TimerInv'
    OBVIOUS
  <2>1. CASE Lock
    BY <2>1, LockKeeps
  <2>2. CASE TakeDue
    BY <2>2, TakeDueKeeps
  <2>3. CASE DispatchNode
    BY <2>3, DispatchKeeps
  <2>4. CASE Shift
    BY <2>4, ShiftKeeps
  <2>5. CASE Unlock
    BY <2>5, UnlockKeeps
  <2>6. CASE \E d \in 1 .. MaxLag : UpdateTime(d)
    BY <2>6, UpdateTimeKeeps
  <2>7. CASE \E id \in Timer, delay \in 1 .. MaxTimeout : Timeout(id, delay)
    BY <2>7, TimeoutKeeps
  <2>8. CASE UNCHANGED vars
    <3>1. /\ wheel' = wheel /\ current' = current /\ left' = left /\ pending' = pending
          /\ older' = older /\ time' = time /\ near' = near /\ t' = t /\ pc' = pc /\ diff' = diff
      BY <2>8 DEF vars, wheel
    <3>2. TypeOK' /\ ThreadInv'
      BY <3>1 DEF TimerInv, TypeOK, ThreadInv
    <3>3. ListsInv' /\ HeldInv' /\ KeptInv' /\ OlderInv'
      BY <3>1 DEF TimerInv, ListsInv, HeldInv, KeptInv, OlderInv
    <3> QED BY <3>2, <3>3 DEF TimerInv
  <2> QED BY <2>1, <2>2, <2>3, <2>4, <2>5, <2>6, <2>7, <2>8 DEF Next, TimerThread
<1> QED BY <1>1, InitTimer, PTL DEF Spec

\* What the lists hold, as WellPlaced says it.
LEMMA NodesHeld ==
  ASSUME TypeOK
  PROVE  NearNodes \cup FarNodes = Held(wheel)
<1>1. wheel \in Wheel /\ wheel.near = near /\ wheel.t = t
  BY WheelType, WheelFields
<1>2. ASSUME NEW m \in NearNodes PROVE m \in Held(wheel)
  <2>1. PICK j \in 0 .. Near - 1 : m \in NodesIn(near[j])
    BY DEF NearNodes
  <2>2. PICK k \in DOMAIN near[j] : m = near[j][k]
    BY <2>1 DEF NodesIn
  <2> QED BY <1>1, <2>2, HeldNear
<1>3. ASSUME NEW m \in FarNodes PROVE m \in Held(wheel)
  <2>1. PICK i \in 0 .. 3, j \in 0 .. Level - 1 : m \in NodesIn(t[i][j])
    BY DEF FarNodes
  <2>2. PICK k \in DOMAIN t[i][j] : m = t[i][j][k]
    BY <2>1 DEF NodesIn
  <2> QED BY <1>1, <2>2, HeldFar
<1>4. ASSUME NEW m \in Held(wheel) PROVE m \in NearNodes \cup FarNodes
  <2>1. CASE \E j \in 0 .. Near - 1 : \E k \in DOMAIN wheel.near[j] : wheel.near[j][k] = m
    BY <1>1, <2>1 DEF NearNodes, NodesIn
  <2>2. CASE \E i \in 0 .. 3, j \in 0 .. Level - 1 :
                \E k \in DOMAIN wheel.t[i][j] : wheel.t[i][j][k] = m
    <3>1. PICK i \in 0 .. 3, j \in 0 .. Level - 1 :
             \E k \in DOMAIN wheel.t[i][j] : wheel.t[i][j][k] = m
      BY <2>2
    <3>2. m \in NodesIn(t[i][j])
      BY <1>1, <3>1 DEF NodesIn
    <3>3. NodesIn(t[i][j]) \in {NodesIn(t[a][b]) : a \in 0 .. 3, b \in 0 .. Level - 1}
      OBVIOUS
    <3> QED BY <3>2, <3>3 DEF FarNodes
  <2> QED BY <2>1, <2>2 DEF Held
<1> QED BY <1>2, <1>3, <1>4

\* Every pending timer that is not being dispatched is in the wheel, its tick
\* is as far away as its ticks left, and it is in the list in which add_node
\* would put it now: cascading restores this at every boundary and at the
\* wrap of the counter.
THEOREM WellPlacedHolds == Spec => []WellPlaced
<1>1. TimerInv => WellPlaced
  <2> SUFFICES ASSUME TimerInv PROVE WellPlaced
    OBVIOUS
  <2>0. TypeOK /\ Shelved(wheel) /\ wheel.near = near /\ wheel.t = t /\ wheel.time = time
    BY WheelFields DEF TimerInv, ListsInv
  <2>1. NearNodes \cup FarNodes = Held(wheel)
    BY <2>0, NodesHeld
  <2>2. \A n \in NearNodes \cup FarNodes :
           n.id \in pending /\ (n.expire - time) % Range32 = left[n.id]
    BY <2>1 DEF TimerInv, HeldInv, Away
  <2>3. \A i \in 0 .. Near - 1 : \A n \in NodesIn(near[i]) :
           IsNear(n.expire, time) /\ n.expire % Near = i
    BY <2>0 DEF Shelved, NodesIn, NearAt
  <2>4. \A i \in 0 .. 3, j \in 0 .. Level - 1 : \A n \in NodesIn(t[i][j]) :
           /\ ~IsNear(n.expire, time)
           /\ LevelFor(n.expire, time) = i /\ IndexAt(n.expire, i) = j
    BY <2>0 DEF Shelved, NodesIn, FarAt
  <2>5. \A id \in pending :
           \E n \in NearNodes \cup FarNodes \cup NodesIn(current) : n.id = id
    <3> SUFFICES ASSUME NEW id \in pending
                 PROVE  \E n \in Held(wheel) \cup NodesIn(current) : n.id = id
      BY <2>1
    <3>1. CASE \E m \in Held(wheel) : m.id = id
      BY <3>1
    <3>2. CASE \E k \in DOMAIN current : current[k].id = id
      BY <3>2 DEF NodesIn
    <3> QED BY <3>1, <3>2 DEF TimerInv, KeptInv
  <2> QED BY <2>0, <2>2, <2>3, <2>4, <2>5 DEF WellPlaced
<1> QED BY <1>1, TimerInvariant, PTL

\* A timer fires when exactly its delay in ticks has passed: what is
\* dispatched is due, and when a tick is over nothing that is due is left.
THEOREM OnTimeHolds == Spec => []OnTime
<1>1. TimerInv => OnTime
  <2> SUFFICES ASSUME TimerInv PROVE OnTime
    OBVIOUS
  <2>1. \A n \in NodesIn(current) : left[n.id] = 0
    BY DEF TimerInv, ThreadInv, NodesIn
  <2>2. ASSUME pc \in {"idle", "lock", "execute0"}, NEW id \in pending PROVE left[id] > 0
    <3>1. DOMAIN current = {}
      <4>1. current = <<>>
        BY <2>2 DEF TimerInv, ThreadInv
      <4> QED BY <4>1
    <3>2. PICK m \in Held(wheel) : m.id = id
      BY <3>1 DEF TimerInv, KeptInv
    <3>3. pc # "execute"
      BY <2>2
    <3> QED BY <3>2, <3>3 DEF TimerInv, HeldInv
  <2> QED BY <2>1, <2>2 DEF OnTime
<1> QED BY <1>1, TimerInvariant, PTL

\* Timers that are due at the same tick fire in the order they were set.
THEOREM InOrderHolds == Spec => InOrder
<1>1. TimerInv /\ [Next]_vars =>
         [DispatchNode => \A id \in older[Head(current).id] : left[id] > 0]_vars
  <2> SUFFICES ASSUME TimerInv, DispatchNode, NEW id \in older[Head(current).id]
               PROVE  left[id] > 0
    OBVIOUS
  <2> DEFINE h == Head(current).id
  <2>1. current \in Seq(Node) /\ current # <<>> /\ left \in [Timer -> 0 .. MaxTimeout]
        /\ pending \in SUBSET Timer
    BY DEF TimerInv, TypeOK, DispatchNode
  <2>2. 1 \in DOMAIN current /\ Head(current) = current[1]
    BY <2>1
  <2>3. h \in pending /\ current[1].expire = time /\ pc = "dispatch"
    BY <2>1, <2>2 DEF TimerInv, ThreadInv
  <2>4. id \in pending
    BY <2>3 DEF TimerInv, OlderInv
  <2>5. CASE \E m \in Held(wheel) : m.id = id
    <3>1. pc # "execute"
      BY <2>3
    <3> QED BY <2>5, <3>1 DEF TimerInv, HeldInv
  <2>6. CASE \E k \in DOMAIN current : current[k].id = id
    <3>1. PICK k \in DOMAIN current : current[k].id = id
      BY <2>6
    <3>2. id # h
      BY <2>3, <2>4 DEF TimerInv, OlderInv
    <3>3. 1 < k
      BY <2>1, <2>2, <3>1, <3>2
    <3>4. current[1].expire = current[k].expire
      BY <2>2, <3>1 DEF TimerInv, ThreadInv
    <3>5. h \in older[id]
      BY <2>2, <3>1, <3>3, <3>4 DEF TimerInv, ListsInv, InLine
    <3> QED BY <2>3, <2>4, <3>5 DEF TimerInv, OlderInv
  <2> QED BY <2>4, <2>5, <2>6 DEF TimerInv, KeptInv
<1> QED BY <1>1, TimerInvariant, PTL DEF Spec, InOrder

=============================================================================
