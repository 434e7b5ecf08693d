----------------------------- MODULE LineFacts ------------------------------
(***************************************************************************)
(* Lines: injective sequences, everyone stands there once.  The queue of a *)
(* critical section, the queries out on a connection and the engine's      *)
(* queues are such lines; what joining at the end and leaving at the front *)
(* do to who stands in a line, and who is first, is stated once here.      *)
(*                                                                         *)
(* Then two tools of arithmetic: induction over the natural numbers, as a  *)
(* statement about a set (a set of naturals has a least element), which    *)
(* is what the proofs about loops and recursive functions rest on; and     *)
(* quotient and remainder.                                                 *)
(***************************************************************************)
EXTENDS Sequences, Integers, Functions, WellFoundedInduction, TLAPS

\* Nobody stands in an empty line, and somebody in any other.
LEMMA EmptyLine ==
    ASSUME NEW S, NEW s \in Seq(S)
    PROVE  /\ Range(s) \subseteq S
           /\ Range(<<>>) = {} /\ IsInjective(<<>>) /\ <<>> \in Seq(S)
           /\ s # <<>> <=> Range(s) # {}
           /\ s # <<>> => Head(s) \in Range(s)
           /\ \A x : x \in Range(s) <=> \E i \in DOMAIN s : s[i] = x
BY DEF Range, IsInjective

\* Joining at the end: the newcomer is added, and is first only if alone.
LEMMA Join ==
    ASSUME NEW S, NEW s \in Seq(S), NEW e \in S
    PROVE  /\ Append(s, e) \in Seq(S) /\ Append(s, e) # <<>>
           /\ Range(Append(s, e)) = Range(s) \cup {e}
           /\ IsInjective(s) /\ e \notin Range(s) => IsInjective(Append(s, e))
           /\ s # <<>> => Head(Append(s, e)) = Head(s)
           /\ s = <<>> => Head(Append(s, e)) = e
<1> DEFINE t == Append(s, e)
<1>1. /\ t \in Seq(S) /\ t # <<>> /\ DOMAIN t = 1 .. (Len(s) + 1) /\ DOMAIN s = 1 .. Len(s)
      /\ \A i \in DOMAIN s : t[i] = s[i]
      /\ t[Len(s) + 1] = e /\ Len(s) \in Nat
  OBVIOUS
<1> HIDE DEF t
<1>2. Range(t) = Range(s) \cup {e}
  BY <1>1 DEF Range
<1>3. IsInjective(s) /\ e \notin Range(s) => IsInjective(t)
  BY <1>1 DEF Range, IsInjective
<1>4. /\ s # <<>> => Head(Append(s, e)) = Head(s)
      /\ s = <<>> => Head(Append(s, e)) = e
  OBVIOUS
<1> QED BY <1>1, <1>2, <1>3, <1>4 DEF t

\* Leaving at the front: only the first is gone.
LEMMA Leave ==
    ASSUME NEW S, NEW s \in Seq(S), s # <<>>, IsInjective(s)
    PROVE  /\ Tail(s) \in Seq(S)
           /\ Head(s) \in S /\ Head(s) \in Range(s)
           /\ Range(Tail(s)) = Range(s) \ {Head(s)}
           /\ IsInjective(Tail(s))
<1> DEFINE t == Tail(s)
<1>1. /\ t \in Seq(S) /\ DOMAIN t = 1 .. (Len(s) - 1) /\ DOMAIN s = 1 .. Len(s)
      /\ \A i \in DOMAIN t : t[i] = s[i + 1]
      /\ Head(s) = s[1] /\ Len(s) \in Nat \ {0} /\ Head(s) \in S
  OBVIOUS
<1> HIDE DEF t
<1>2. Range(t) \subseteq Range(s) \ {Head(s)}
  <2> SUFFICES ASSUME NEW i \in DOMAIN t PROVE t[i] \in Range(s) \ {Head(s)}
    BY DEF Range
  <2>1. i + 1 \in DOMAIN s /\ 1 \in DOMAIN s /\ i + 1 # 1
    BY <1>1
  <2> QED BY <1>1, <2>1 DEF Range, IsInjective
<1>3. Range(s) \ {Head(s)} \subseteq Range(t)
  <2> SUFFICES ASSUME NEW i \in DOMAIN s, s[i] # Head(s) PROVE s[i] \in Range(t)
    BY DEF Range
  <2>1. i - 1 \in DOMAIN t /\ (i - 1) + 1 = i
    BY <1>1
  <2> QED BY <1>1, <2>1 DEF Range
<1>4. IsInjective(t)
  <2> SUFFICES ASSUME NEW i \in DOMAIN t, NEW j \in DOMAIN t, t[i] = t[j] PROVE i = j
    BY DEF IsInjective
  <2>1. i + 1 \in DOMAIN s /\ j + 1 \in DOMAIN s /\ i \in Int /\ j \in Int
    BY <1>1
  <2> QED BY <1>1, <2>1 DEF IsInjective
<1>5. Head(s) \in Range(s)
  BY <1>1 DEF Range
<1> QED BY <1>1, <1>2, <1>3, <1>4, <1>5 DEF t

\* The line with someone stepping in at a place.
Inserting(s, p, e) == (SubSeq(s, 1, p - 1) \o <<e>>) \o SubSeq(s, p, Len(s))

\* Those from there on move up by one.
LEMMA Insert ==
    ASSUME NEW S, NEW s \in Seq(S), NEW e \in S, NEW p \in 1 .. Len(s) + 1
    PROVE  LET w == Inserting(s, p, e)
           IN  /\ w \in Seq(S) /\ Len(w) = Len(s) + 1
               /\ \A i \in 1 .. Len(s) + 1 : w[i] = IF i < p THEN s[i]
                                                    ELSE IF i = p THEN e ELSE s[i - 1]
<1> DEFINE n == Len(s)
           A == SubSeq(s, 1, p - 1)
           B == SubSeq(s, p, n)
           M == A \o <<e>>
           w == M \o B
<1>0. n \in Nat /\ p \in 1 .. n + 1
  OBVIOUS
<1>1. A \in Seq(S) /\ Len(A) = p - 1 /\ \A i \in 1 .. p - 1 : A[i] = s[i]
  OBVIOUS
<1>2. B \in Seq(S) /\ Len(B) = n + 1 - p /\ \A i \in 1 .. n + 1 - p : B[i] = s[p + i - 1]
  OBVIOUS
<1> HIDE DEF A, B
<1>3. M \in Seq(S) /\ Len(M) = p /\ \A i \in 1 .. p : M[i] = IF i < p THEN A[i] ELSE e
  BY <1>0, <1>1
<1> HIDE DEF M, n
<1>4. w \in Seq(S) /\ Len(w) = n + 1
  <2>1. M \in Seq(S) /\ B \in Seq(S)
    BY <1>2, <1>3
  <2>2. w \in Seq(S) /\ Len(w) = Len(M) + Len(B)
    BY <2>1
  <2> HIDE DEF w
  <2> QED BY <1>0, <1>2, <1>3, <2>2
<1>5. \A i \in 1 .. n + 1 : w[i] = IF i <= p THEN M[i] ELSE B[i - p]
  BY <1>0, <1>2, <1>3
<1> HIDE DEF w
<1>6. ASSUME NEW i \in 1 .. n + 1
      PROVE  w[i] = IF i < p THEN s[i] ELSE IF i = p THEN e ELSE s[i - 1]
  <2>1. CASE i <= p
    BY <1>0, <1>1, <1>3, <1>5, <2>1
  <2>2. CASE i > p
    <3>1. i - p \in 1 .. n + 1 - p /\ p + (i - p) - 1 = i - 1
      BY <1>0, <2>2
    <3> QED BY <1>0, <1>2, <1>5, <2>2, <3>1
  <2> QED BY <1>0, <2>1, <2>2
<1> QED BY <1>4, <1>6 DEF w, M, A, B, n, Inserting

-----------------------------------------------------------------------------
(* Induction over the natural numbers, as a statement about sets.          *)

\* A set of natural numbers has a least element.
LEMMA Least ==
    ASSUME NEW S \in SUBSET Nat, S # {}
    PROVE  \E n \in S : \A m \in S : n <= m
<1>1. PICK x \in S : \A y \in S : ~(<<y, x>> \in OpToRel(<, Nat))
  BY NatLessThanWellFounded, WFMin
<1>2. ASSUME NEW y \in S PROVE x <= y
  <2>1. <<y, x>> \in Nat \X Nat /\ ~(<<y, x>> \in OpToRel(<, Nat))
    BY <1>1
  <2>2. ~(y < x)
    BY <2>1 DEF OpToRel
  <2> QED BY <2>2
<1> QED BY <1>2

\* Induction up to a bound: what holds at 0 and is handed on holds up to n.
LEMMA Climb ==
    ASSUME NEW n \in Nat, NEW S, 0 \in S,
           \A i \in Nat : i < n /\ i \in S => i + 1 \in S
    PROVE  \A i \in 0 .. n : i \in S
<1> SUFFICES ASSUME NEW k \in 0 .. n, k \notin S PROVE FALSE
  OBVIOUS
<1> DEFINE T == {i \in 0 .. n : i \notin S}
<1>1. T \in SUBSET Nat /\ T # {}
  OBVIOUS
<1>2. PICK m \in T : \A j \in T : m <= j
  BY <1>1, Least
<1>3. m \in 0 .. n /\ m \notin S /\ m # 0
  OBVIOUS
<1>4. m - 1 \in 0 .. n /\ m - 1 \notin T
  BY <1>2, <1>3
<1>5. m - 1 \in Nat /\ m - 1 < n /\ m - 1 \in S /\ (m - 1) + 1 = m
  BY <1>3, <1>4
<1> QED BY <1>3, <1>5

\* The values a loop of n rounds goes through from a.
Rounds(f, n, a, step) == f[0] = a /\ \A k \in 1 .. n : f[k] = step[k][f[k - 1]]

\* A loop has such values: they can be computed one after the other.
LEMMA Iterate ==
    ASSUME NEW n \in Nat, NEW S, NEW a \in S, NEW step \in [1 .. n -> [S -> S]]
    PROVE  \E f \in [0 .. n -> S] : Rounds(f, n, a, step)
<1> DEFINE Upto(f, m) == f[0] = a /\ \A k \in 1 .. n : k <= m => f[k] = step[k][f[k - 1]]
           T == {m \in Nat : \E f \in [0 .. n -> S] : Upto(f, m)}
<1>1. 0 \in T
  <2>1. [k \in 0 .. n |-> a] \in [0 .. n -> S] /\ Upto([k \in 0 .. n |-> a], 0)
    OBVIOUS
  <2> QED BY <2>1
<1>2. ASSUME NEW m \in Nat, m < n, m \in T PROVE m + 1 \in T
  <2>1. PICK f \in [0 .. n -> S] : Upto(f, m)
    BY <1>2
  <2> DEFINE v == step[m + 1][f[m]]
             g == [f EXCEPT ![m + 1] = v]
  <2>2. v \in S
    BY <1>2
  <2> HIDE DEF v
  <2>3. /\ g \in [0 .. n -> S] /\ g[m + 1] = v
        /\ \A k \in 0 .. n : k # m + 1 => g[k] = f[k]
    BY <1>2, <2>2
  <2> HIDE DEF g
  <2>4. ASSUME NEW k \in 1 .. n, k <= m + 1 PROVE g[k] = step[k][g[k - 1]]
    <3>1. g[k - 1] = f[k - 1]
      BY <2>3, <2>4
    <3>2. CASE k = m + 1
      BY <2>3, <3>1, <3>2 DEF v
    <3>3. CASE k # m + 1
      <4>1. g[k] = f[k] /\ f[k] = step[k][f[k - 1]]
        BY <2>1, <2>3, <2>4, <3>3
      <4> QED BY <3>1, <4>1
    <3> QED BY <3>2, <3>3
  <2>5. g[0] = a
    BY <1>2, <2>1, <2>3
  <2>6. Upto(g, m + 1)
    BY <2>4, <2>5
  <2> HIDE DEF Upto
  <2> QED BY <2>3, <2>6
<1> HIDE DEF T
<1>3. \A i \in 0 .. n : i \in T
  BY <1>1, <1>2, Climb
<1>4. n \in T
  BY <1>3
<1> QED BY <1>4 DEF T, Rounds

-----------------------------------------------------------------------------
(* Quotient and remainder.                                                 *)

\* Division by a positive number.
LEMMA Multiple ==
  ASSUME NEW x \in Nat, NEW D \in Nat \ {0}
  PROVE  /\ x \div D \in Nat /\ x % D \in Nat /\ x % D < D
         /\ x = D * (x \div D) + (x % D)
<1>1. x % D \in Nat /\ x % D < D
  OBVIOUS
<1>2. x \div D \in Int /\ x = D * (x \div D) + (x % D)
  OBVIOUS
<1>3. x \div D >= 0
  OBVIOUS
<1> QED BY <1>1, <1>2, <1>3

\* A multiple leaves no remainder.
LEMMA MultipleMod ==
  ASSUME NEW j \in Nat, NEW D \in Nat \ {0}
  PROVE  (D * j) % D = 0
<1> DEFINE q == (D * j) \div D
           r == (D * j) % D
<1>1. D * j \in Nat
  OBVIOUS
<1>2. q \in Nat /\ r \in Nat /\ r < D /\ D * j = D * q + r
  BY <1>1, Multiple
<1> HIDE DEF q, r
<1>3. CASE j <= q
  <2>1. D * q = D * j + D * (q - j) /\ D * (q - j) >= 0
    BY <1>2, <1>3
  <2> QED BY <1>1, <1>2, <2>1 DEF r
<1>4. CASE j > q
  <2>1. j - q >= 1 /\ j - q \in Nat
    BY <1>2, <1>4
  <2>2. D * (j - q) >= D /\ D * j = D * q + D * (j - q)
    BY <1>2, <2>1
  <2> QED BY <1>1, <1>2, <2>2
<1> QED BY <1>2, <1>3, <1>4

\* Quotient and remainder are the only ones.
LEMMA Quotient ==
  ASSUME NEW x \in Nat, NEW d \in Nat \ {0}, NEW q \in Nat, NEW r \in Nat,
         r < d, x = d * q + r
  PROVE  x \div d = q /\ x % d = r
<1> DEFINE p == x \div d
           s == x % d
<1>1. p \in Nat /\ s \in Nat /\ s < d /\ x = d * p + s
  BY Multiple
<1> HIDE DEF p, s
<1>2. d * (p - q) = r - s /\ p - q \in Int /\ r - s < d /\ r - s > 0 - d
  BY <1>1
<1>3. ~(p - q >= 1)
  <2> SUFFICES ASSUME p - q >= 1 PROVE FALSE
    OBVIOUS
  <2>1. d * (p - q) >= d
    BY <1>1
  <2> QED BY <1>2, <2>1
<1>4. ~(q - p >= 1)
  <2> SUFFICES ASSUME q - p >= 1 PROVE FALSE
    OBVIOUS
  <2>1. d * (q - p) >= d /\ d * (q - p) = 0 - d * (p - q)
    BY <1>1
  <2> QED BY <1>2, <2>1
<1>5. p = q
  BY <1>1, <1>3, <1>4
<1> QED BY <1>1, <1>5 DEF p, s
=============================================================================
