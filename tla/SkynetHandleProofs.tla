------------------------ MODULE SkynetHandleProofs -------------------------
(***************************************************************************)
(* Proofs about SkynetHandle, for any contexts, threads, names and sizes.  *)
(* A context stands at the place of the handle it has or is about to get   *)
(* (Placed); doubling keeps this as long as nobody's handle is waiting to  *)
(* be stored (NoRace), which holds when one thread only launches services. *)
(* The names are sorted, and so the loop of the binary search encloses the *)
(* name it looks for, whoever registers.                                   *)
(***************************************************************************)
EXTENDS SkynetHandle, LineFacts, FiniteSetTheorems, SequenceTheorems, TLAPS

USE MaskAssumption

-----------------------------------------------------------------------------
(* Sizes, places and the handles that are tried.                           *)

\* The sizes of the table: the default one, and twice any that is not the
\* last.
LEMMA Sizes ==
  /\ Doubled[0] = DefaultSlotSize
  /\ \A k \in 1 .. HandleMask : Doubled[k] = 2 * Doubled[k - 1]
  /\ \A k \in 0 .. HandleMask : Doubled[k] \in Nat /\ Doubled[k] >= k + 1
<1> DEFINE F == CHOOSE f : f = [k \in 0 .. HandleMask |->
                                  IF k = 0 THEN DefaultSlotSize ELSE 2 * f[k - 1]]
           step == [k \in 1 .. HandleMask |-> [x \in Nat |-> 2 * x]]
<1>1. PICK g \in [0 .. HandleMask -> Nat] :
          Rounds(g, HandleMask, DefaultSlotSize, step)
  <2>1. step \in [1 .. HandleMask -> [Nat -> Nat]] /\ HandleMask \in Nat /\ DefaultSlotSize \in Nat
    OBVIOUS
  <2> HIDE DEF step
  <2> QED BY <2>1, Iterate
<1>2. g = [k \in 0 .. HandleMask |-> IF k = 0 THEN DefaultSlotSize ELSE 2 * g[k - 1]]
  <2> HIDE DEF step
  <2>1. ASSUME NEW k \in 1 .. HandleMask PROVE g[k] = 2 * g[k - 1]
    <3>1. g[k] = step[k][g[k - 1]] /\ k - 1 \in 0 .. HandleMask /\ g[k - 1] \in Nat
      BY <1>1 DEF Rounds
    <3>2. step[k] = [x \in Nat |-> 2 * x]
      BY DEF step
    <3> QED BY <3>1, <3>2
  <2> QED BY <1>1, <2>1 DEF Rounds
<1>3. F = [k \in 0 .. HandleMask |-> IF k = 0 THEN DefaultSlotSize ELSE 2 * F[k - 1]]
  BY <1>2
<1>4. Doubled = F
  BY DEF Doubled
<1> HIDE DEF F
<1>5. /\ Doubled[0] = DefaultSlotSize
      /\ \A k \in 1 .. HandleMask : Doubled[k] = 2 * Doubled[k - 1]
  BY <1>3, <1>4
<1> DEFINE T == {k \in Nat : Doubled[k] \in Nat /\ Doubled[k] >= k + 1}
<1>6. 0 \in T
  BY <1>5
<1>7. ASSUME NEW k \in Nat, k < HandleMask, k \in T PROVE k + 1 \in T
  <2>1. Doubled[k + 1] = 2 * Doubled[k]
    BY <1>5, <1>7
  <2> QED BY <1>7, <2>1
<1> HIDE DEF T
<1>8. \A k \in 0 .. HandleMask : k \in T
  BY <1>6, <1>7, Climb
<1> QED BY <1>5, <1>8 DEF T

\* A table over 0 .. n - 1 has n places.
LEMMA SizeOf ==
  ASSUME NEW n \in Nat, DOMAIN slot = 0 .. n - 1
  PROVE  slot_size = n
<1>1. Cardinality(0 .. n - 1) = n
  BY FS_Interval
<1> QED BY <1>1 DEF slot_size

\* The same of the next state.
LEMMA SizeNext ==
  ASSUME NEW n \in Nat, DOMAIN slot' = 0 .. n - 1
  PROVE  slot_size' = n
<1>1. Cardinality(0 .. n - 1) = n
  BY FS_Interval
<1> QED BY <1>1 DEF slot_size

\* The place of a handle is in the table.
LEMMA HashIn ==
  ASSUME NEW h \in Nat, NEW n \in Nat \ {0}
  PROVE  Hash(h, n) \in 0 .. n - 1
BY DEF Hash

\* A handle's place in the table of twice the size says its place in this one.
LEMMA HashHalf ==
  ASSUME NEW h \in Nat, NEW n \in Nat \ {0}
  PROVE  Hash(h, n) = IF Hash(h, 2 * n) < n THEN Hash(h, 2 * n) ELSE Hash(h, 2 * n) - n
<1> DEFINE q == h \div n
           r == h % n
           Q == h \div (2 * n)
           R == h % (2 * n)
           x == IF R < n THEN 2 * Q ELSE 2 * Q + 1
           y == IF R < n THEN R ELSE R - n
<1>1. q \in Nat /\ r \in Nat /\ r < n /\ h = n * q + r
  BY Multiple
<1>2. 2 * n \in Nat \ {0}
  OBVIOUS
<1>3. Q \in Nat /\ R \in Nat /\ R < 2 * n /\ h = (2 * n) * Q + R
  BY <1>2, Multiple
<1> HIDE DEF q, r, Q, R
<1>4. x \in Nat /\ y \in Nat /\ y < n /\ h = n * x + y
  <2>1. (2 * n) * Q = n * (2 * Q) /\ n * (2 * Q + 1) = n * (2 * Q) + n /\ n * (2 * Q) \in Nat
    BY <1>3
  <2> QED BY <1>3, <2>1
<1> HIDE DEF x, y
<1>5. x = q
  <2>1. n * (x - q) = r - y /\ x - q \in Int /\ r - y < n /\ r - y > 0 - n
    BY <1>1, <1>4
  <2>2. ~(x - q >= 1)
    <3> SUFFICES ASSUME x - q >= 1 PROVE FALSE
      OBVIOUS
    <3>1. (x - q) - 1 \in Nat /\ n * ((x - q) - 1) \in Nat
      BY <2>1
    <3>2. n * ((x - q) - 1) = n * (x - q) - n
      BY <2>1
    <3> QED BY <2>1, <3>1, <3>2
  <2>3. ~(q - x >= 1)
    <3> SUFFICES ASSUME q - x >= 1 PROVE FALSE
      OBVIOUS
    <3>1. (q - x) - 1 \in Nat /\ n * ((q - x) - 1) \in Nat
      BY <1>1, <1>4
    <3>2. n * ((q - x) - 1) = (0 - n * (x - q)) - n
      BY <1>1, <1>4
    <3> QED BY <2>1, <3>1, <3>2
  <2> QED BY <1>1, <1>4, <2>2, <2>3
<1>6. r = y
  BY <1>1, <1>4, <1>5
<1> QED BY <1>6 DEF r, y, R, Hash

\* Every handle the loop of skynet_handle_register tries is one of the
\* handles: never 0, and none beyond HANDLE_MASK.
LEMMA Tried ==
  ASSUME slot_size \in Nat \ {0}, handle_index \in 1 .. HandleMask + 1
  PROVE  \A i \in 0 .. slot_size - 1 : Candidate[i] \in Handle
<1> DEFINE n == slot_size - 1
           a == Wrap(handle_index)
           F == CHOOSE f : f = [i \in 0 .. n |-> IF i = 0 THEN a ELSE Wrap(f[i - 1] + 1)]
           step == [k \in 1 .. n |-> [h \in Handle |-> Wrap(h + 1)]]
<1>0. n \in Nat /\ a \in Handle /\ \A h \in Handle : Wrap(h + 1) \in Handle
  BY DEF Wrap, Handle
<1>1. PICK g \in [0 .. n -> Handle] : Rounds(g, n, a, step)
  <2>1. step \in [1 .. n -> [Handle -> Handle]]
    BY <1>0
  <2> HIDE DEF step, n, a
  <2> QED BY <1>0, <2>1, Iterate
<1>2. Candidate = F
  BY DEF Candidate
<1> HIDE DEF n, a, step
<1>3. g = [i \in 0 .. n |-> IF i = 0 THEN a ELSE Wrap(g[i - 1] + 1)]
  <2>1. ASSUME NEW k \in 1 .. n PROVE g[k] = Wrap(g[k - 1] + 1)
    <3>1. g[k] = step[k][g[k - 1]] /\ k - 1 \in 0 .. n /\ g[k - 1] \in Handle
      BY <1>0, <1>1 DEF Rounds
    <3>2. step[k] = [h \in Handle |-> Wrap(h + 1)]
      BY DEF step
    <3> QED BY <3>1, <3>2
  <2> QED BY <1>0, <1>1, <2>1 DEF Rounds
<1>4. F = [i \in 0 .. n |-> IF i = 0 THEN a ELSE Wrap(F[i - 1] + 1)]
  BY <1>3
<1> HIDE DEF F
<1>5. F[0] = a /\ \A k \in 1 .. n : F[k] = Wrap(F[k - 1] + 1)
  BY <1>0, <1>4
<1> DEFINE T == {i \in Nat : F[i] \in Handle}
<1>6. 0 \in T
  BY <1>0, <1>5
<1>7. ASSUME NEW k \in Nat, k < n, k \in T PROVE k + 1 \in T
  <2>1. F[k + 1] = Wrap(F[k] + 1)
    BY <1>0, <1>5, <1>7
  <2> QED BY <1>0, <1>7, <2>1
<1> HIDE DEF T
<1>8. \A k \in 0 .. n : k \in T
  BY <1>0, <1>6, <1>7, Climb
<1> QED BY <1>2, <1>8 DEF T, n

-----------------------------------------------------------------------------
(* The names.                                                              *)

NameRec == [name : Name, handle : Handle]
SortedNames == \A i, j \in DOMAIN name : i < j => name[i].name < name[j].name

\* One round of the binary search: the name stays enclosed, and the part that
\* is left gets smaller, unless it is found.
LEMMA HalveRight ==
  ASSUME name \in Seq(NameRec), SortedNames, NEW x \in Int,
         NEW r \in [begin : 1 .. Len(name) + 1, end : 0 .. Len(name)],
         r.begin <= r.end + 1,
         \A i \in DOMAIN name : /\ i < r.begin => name[i].name < x
                                /\ i > r.end => name[i].name > x
  PROVE  /\ Halve(r, x) \in [begin : 1 .. Len(name) + 1, end : 0 .. Len(name)]
         /\ Halve(r, x).begin <= Halve(r, x).end + 1
         /\ \A i \in DOMAIN name : /\ i < Halve(r, x).begin => name[i].name < x
                                   /\ i > Halve(r, x).end => name[i].name > x
         /\ \/ r.begin > r.end /\ Halve(r, x) = r
            \/ /\ r.begin <= r.end /\ Halve(r, x) = r
               /\ name[(r.begin + r.end) \div 2].name = x
            \/ Halve(r, x).end - Halve(r, x).begin < r.end - r.begin
<1> DEFINE mid == (r.begin + r.end) \div 2
           h == Halve(r, x)
           n == Len(name)
<1>1. n \in Nat /\ DOMAIN name = 1 .. n /\ \A i \in 1 .. n : name[i].name \in Int
  <2>1. n \in Nat /\ DOMAIN name = 1 .. n /\ \A i \in 1 .. n : name[i] \in NameRec
    OBVIOUS
  <2> QED BY <2>1, NameAssumption DEF NameRec
<1>2. r.begin \in 1 .. n + 1 /\ r.end \in 0 .. n
  OBVIOUS
<1> HIDE DEF n
<1>3. r.begin <= r.end => mid \in 1 .. n /\ mid >= r.begin /\ mid <= r.end
  BY <1>1, <1>2
<1>4. h = IF r.begin > r.end \/ name[mid].name = x THEN r
          ELSE IF name[mid].name < x THEN [r EXCEPT !.begin = mid + 1]
          ELSE [r EXCEPT !.end = mid - 1]
  BY DEF Halve
<1> HIDE DEF h, mid
<1>5. CASE r.begin > r.end \/ name[mid].name = x
  BY <1>4, <1>5, <1>2 DEF h, mid, n
<1>6. CASE r.begin <= r.end /\ name[mid].name < x
  <2>0. mid \in 1 .. n /\ name[mid].name \in Int /\ mid >= r.begin /\ mid <= r.end
    BY <1>1, <1>3, <1>6
  <2>1. h = [r EXCEPT !.begin = mid + 1]
    BY <1>2, <1>4, <1>6, <2>0
  <2>2. h.begin = mid + 1 /\ h.end = r.end
    BY <2>1
  <2>3. h \in [begin : 1 .. n + 1, end : 0 .. n]
    BY <1>1, <2>0, <2>1 DEF n
  <2>4. ASSUME NEW i \in DOMAIN name, i < h.begin PROVE name[i].name < x
    <3>1. i = mid \/ i < mid
      BY <1>1, <2>0, <2>2, <2>4
    <3>2. CASE i < mid
      <4>1. name[i].name < name[mid].name /\ name[i].name \in Int
        BY <1>1, <2>0, <3>2 DEF SortedNames
      <4> QED BY <1>6, <2>0, <4>1
    <3> QED BY <1>6, <3>1, <3>2
  <2>5. h.end - h.begin < r.end - r.begin /\ h.begin <= h.end + 1
    BY <1>1, <1>2, <2>0, <2>2
  <2> QED BY <2>2, <2>3, <2>4, <2>5 DEF h, n
<1>7. CASE r.begin <= r.end /\ name[mid].name > x
  <2>0. mid \in 1 .. n /\ name[mid].name \in Int /\ mid >= r.begin /\ mid <= r.end
    BY <1>1, <1>3, <1>7
  <2>1. h = [r EXCEPT !.end = mid - 1]
    BY <1>2, <1>4, <1>7, <2>0
  <2>2. h.begin = r.begin /\ h.end = mid - 1
    BY <2>1
  <2>3. h \in [begin : 1 .. n + 1, end : 0 .. n]
    BY <1>1, <2>0, <2>1 DEF n
  <2>4. ASSUME NEW i \in DOMAIN name, i > h.end PROVE name[i].name > x
    <3>1. i = mid \/ mid < i
      BY <1>1, <2>0, <2>2, <2>4
    <3>2. CASE mid < i
      <4>1. name[mid].name < name[i].name /\ name[i].name \in Int
        BY <1>1, <2>0, <3>2 DEF SortedNames
      <4> QED BY <1>7, <2>0, <4>1
    <3> QED BY <1>7, <3>1, <3>2
  <2>5. h.end - h.begin < r.end - r.begin /\ h.begin <= h.end + 1
    BY <1>1, <1>2, <2>0, <2>2
  <2> QED BY <2>2, <2>3, <2>4, <2>5 DEF h, n
<1>8. r.begin <= r.end => name[mid].name \in Int
  BY <1>1, <1>3
<1> QED BY <1>2, <1>5, <1>6, <1>7, <1>8

\* The binary search finds a name that is there, and otherwise the place
\* between the smaller names and the larger ones.
LEMMA SearchRight ==
  ASSUME name \in Seq(NameRec), SortedNames, NEW x \in Int
  PROVE  \/ /\ Search(x).found = TRUE /\ Search(x).at \in DOMAIN name
            /\ name[Search(x).at].name = x
         \/ /\ Search(x).found = FALSE /\ Search(x).at \in 1 .. Len(name) + 1
            /\ \A i \in DOMAIN name : /\ i < Search(x).at => name[i].name < x
                                      /\ i >= Search(x).at => name[i].name > x
<1> DEFINE n == Len(name)
           R == [begin : 1 .. n + 1, end : 0 .. n]
           Encl(r) == /\ r.begin <= r.end + 1
                      /\ \A i \in DOMAIN name : /\ i < r.begin => name[i].name < x
                                                /\ i > r.end => name[i].name > x
           mid(r) == (r.begin + r.end) \div 2
           Found(r) == r.begin <= r.end /\ name[mid(r)].name = x
           Good == {r \in R : Encl(r)}
           a == [begin |-> 1, end |-> n]
           F == CHOOSE f : f = [k \in 0 .. n |-> IF k = 0 THEN a ELSE Halve(f[k - 1], x)]
           step == [k \in 1 .. n |-> [r \in Good |-> Halve(r, x)]]
           last == F[n]
<1>0. n \in Nat /\ DOMAIN name = 1 .. n
  OBVIOUS
<1>1. Search(x) = IF last.begin <= last.end THEN [at |-> mid(last), found |-> TRUE]
                                            ELSE [at |-> last.begin, found |-> FALSE]
  BY DEF Search
<1>2. a \in Good
  BY <1>0
<1>3. ASSUME NEW r \in Good
      PROVE  /\ Halve(r, x) \in Good
             /\ \/ r.begin > r.end /\ Halve(r, x) = r
                \/ Found(r) /\ Halve(r, x) = r
                \/ Halve(r, x).end - Halve(r, x).begin < r.end - r.begin
  BY HalveRight
<1> HIDE DEF Good, a, n, step
<1>4. PICK g \in [0 .. n -> Good] : Rounds(g, n, a, step)
  <2>1. step \in [1 .. n -> [Good -> Good]]
    BY <1>3 DEF step
  <2> QED BY <1>0, <1>2, <2>1, Iterate
<1>5. g = [k \in 0 .. n |-> IF k = 0 THEN a ELSE Halve(g[k - 1], x)]
  <2>1. ASSUME NEW k \in 1 .. n PROVE g[k] = Halve(g[k - 1], x)
    <3>1. g[k] = step[k][g[k - 1]] /\ k - 1 \in 0 .. n /\ g[k - 1] \in Good
      BY <1>0, <1>4 DEF Rounds
    <3>2. step[k] = [r \in Good |-> Halve(r, x)]
      BY DEF step
    <3> QED BY <3>1, <3>2
  <2> QED BY <1>0, <1>4, <2>1 DEF Rounds
<1>6. F = [k \in 0 .. n |-> IF k = 0 THEN a ELSE Halve(F[k - 1], x)]
  BY <1>5
<1> HIDE DEF F
<1>7. F[0] = a /\ \A k \in 1 .. n : F[k] = Halve(F[k - 1], x)
  BY <1>0, <1>6
\* After k rounds the name is found, or at most n - k entries are left.
<1> DEFINE Done(r, k) == r.begin > r.end \/ Found(r) \/ r.end - r.begin < n - k
           T == {k \in Nat : F[k] \in Good /\ Done(F[k], k)}
<1>8. 0 \in T
  <2>1. a.begin = 1 /\ a.end = n
    BY DEF a
  <2> QED BY <1>0, <1>2, <1>7, <2>1
<1>9. ASSUME NEW k \in Nat, k < n, k \in T PROVE k + 1 \in T
  <2> DEFINE r == F[k]
             h == F[k + 1]
  <2>1. r \in Good /\ Done(r, k) /\ h = Halve(r, x)
    BY <1>0, <1>7, <1>9
  <2> HIDE DEF r, h
  <2>2. h \in Good
    BY <1>3, <2>1
  <2>3. /\ r.begin \in Int /\ r.end \in Int /\ h.begin \in Int /\ h.end \in Int
    BY <2>1, <2>2 DEF Good
  <2>4. (r.begin > r.end /\ h = r) \/ (Found(r) /\ h = r) \/ h.end - h.begin < r.end - r.begin
    BY <1>3, <2>1
  <2>5. Done(h, k + 1)
    <3>1. CASE r.begin > r.end /\ h = r
      BY <3>1
    <3>2. CASE Found(r) /\ h = r
      BY <3>2
    <3>3. CASE ~(r.begin > r.end /\ h = r) /\ ~(Found(r) /\ h = r)
      <4>1. h.end - h.begin < r.end - r.begin
        BY <2>4, <3>3
      <4>2. CASE r.begin > r.end
        BY <2>3, <4>1, <4>2
      <4>3. CASE r.end - r.begin < n - k
        BY <1>0, <2>3, <4>1, <4>3
      <4>4. CASE Found(r)
        <5>1. Halve(r, x) = r
          BY <4>4 DEF Halve
        <5> QED BY <2>1, <3>3, <4>4, <5>1
      <4> QED BY <2>1, <4>2, <4>3, <4>4
    <3> QED BY <3>1, <3>2, <3>3
  <2> QED BY <2>2, <2>5 DEF h
<1> HIDE DEF T
<1>10. \A k \in 0 .. n : k \in T
  BY <1>0, <1>8, <1>9, Climb
<1>11. last \in Good /\ Done(last, n)
  BY <1>0, <1>10 DEF T
<1> HIDE DEF last
<1>12. /\ last.begin \in 1 .. n + 1 /\ last.end \in 0 .. n /\ Encl(last)
  BY <1>11 DEF Good
<1>13. CASE last.begin <= last.end
  <2>1. name[mid(last)].name = x /\ mid(last) \in 1 .. n
    BY <1>0, <1>11, <1>12, <1>13
  <2>2. Search(x) = [at |-> mid(last), found |-> TRUE]
    BY <1>1, <1>13
  <2> QED BY <1>0, <2>1, <2>2
<1>14. CASE last.begin > last.end
  <2>1. Search(x) = [at |-> last.begin, found |-> FALSE]
    BY <1>1, <1>12, <1>14
  <2>2. last.begin = last.end + 1
    BY <1>12, <1>14
  <2> DEFINE b == last.begin
  <2>3. Search(x).at = b /\ Search(x).found = FALSE
    BY <2>1
  <2>4. \A i \in DOMAIN name : (i < b => name[i].name < x) /\ (i >= b => name[i].name > x)
    BY <1>0, <1>12, <2>2
  <2> HIDE DEF b
  <2>5. b \in 1 .. Len(name) + 1
    BY <1>12 DEF b, n
  <2> QED BY <2>3, <2>4, <2>5
<1>15. last.begin <= last.end \/ last.begin > last.end
  BY <1>12
<1> QED BY <1>13, <1>14, <1>15, Zenon

\* skynet_handle_retire leaves the other handles' names, in their order.
LEMMA Compacted ==
  ASSUME name \in Seq(NameRec), SortedNames, NEW h \in Nat
  PROVE  LET w == WithoutNames(h)
         IN  /\ w \in Seq(NameRec)
             /\ \A i, j \in DOMAIN w : i < j => w[i].name < w[j].name
             /\ \A i \in DOMAIN w : w[i].handle # h
             /\ \A j \in DOMAIN name : name[j].handle # h => \E i \in DOMAIN w : w[i] = name[j]
<1> DEFINE n == Len(name)
           S == Seq(NameRec)
           put(k, w) == IF name[k].handle = h THEN w ELSE Append(w, name[k])
           F == CHOOSE f : f = [k \in 0 .. n |-> IF k = 0 THEN <<>> ELSE put(k, f[k - 1])]
           step == [k \in 1 .. n |-> [w \in S |-> put(k, w)]]
<1>0. n \in Nat /\ DOMAIN name = 1 .. n /\ \A k \in 1 .. n : name[k] \in NameRec
  OBVIOUS
<1>1. WithoutNames(h) = F[n]
  BY DEF WithoutNames
<1>2. <<>> \in S /\ \A k \in 1 .. n, w \in S : put(k, w) \in S
  BY <1>0
<1> HIDE DEF S, n, step, put
<1>4. PICK g \in [0 .. n -> S] : Rounds(g, n, <<>>, step)
  <2>1. step \in [1 .. n -> [S -> S]]
    BY <1>2 DEF step
  <2> QED BY <1>0, <1>2, <2>1, Iterate
<1>5. g = [k \in 0 .. n |-> IF k = 0 THEN <<>> ELSE put(k, g[k - 1])]
  <2>1. ASSUME NEW k \in 1 .. n PROVE g[k] = put(k, g[k - 1])
    <3>1. g[k] = step[k][g[k - 1]] /\ k - 1 \in 0 .. n /\ g[k - 1] \in S
      BY <1>0, <1>4 DEF Rounds
    <3>2. step[k] = [w \in S |-> put(k, w)]
      BY DEF step
    <3> QED BY <3>1, <3>2
  <2> QED BY <1>0, <1>4, <2>1 DEF Rounds
<1>6. F = [k \in 0 .. n |-> IF k = 0 THEN <<>> ELSE put(k, F[k - 1])]
  BY <1>5
<1> HIDE DEF F
<1>7. F[0] = <<>> /\ \A k \in 1 .. n : F[k] = put(k, F[k - 1])
  BY <1>0, <1>6
<1> DEFINE Ord(w) == \A i, j \in DOMAIN w : i < j => w[i].name < w[j].name
           From(w, k) == \A i \in DOMAIN w : \E j \in 1 .. n : j <= k /\ w[i] = name[j] /\ w[i].handle # h
           All(w, k) == \A j \in 1 .. n : j <= k /\ name[j].handle # h => \E i \in DOMAIN w : w[i] = name[j]
           T == {k \in Nat : F[k] \in S /\ Ord(F[k]) /\ From(F[k], k) /\ All(F[k], k)}
<1>8. 0 \in T
  BY <1>0, <1>2, <1>7
<1>9. ASSUME NEW k \in Nat, k < n, k \in T PROVE k + 1 \in T
  <2> DEFINE w == F[k]
             e == name[k + 1]
             v == F[k + 1]
  <2>1. w \in S /\ Ord(w) /\ From(w, k) /\ All(w, k) /\ k + 1 \in 1 .. n /\ v = put(k + 1, w)
    BY <1>0, <1>7, <1>9
  <2> HIDE DEF w, v
  <2>2. CASE e.handle = h
    <3>1. v = w
      BY <2>1, <2>2 DEF put
    <3>2. From(w, k + 1)
      BY <1>0, <2>1
    <3>3. All(w, k + 1)
      <4> SUFFICES ASSUME NEW j \in 1 .. n, j <= k + 1, name[j].handle # h
                   PROVE  \E i \in DOMAIN w : w[i] = name[j]
        OBVIOUS
      <4>1. j <= k
        BY <1>0, <2>2
      <4> QED BY <2>1, <4>1
    <3> QED BY <2>1, <3>1, <3>2, <3>3 DEF v
  <2>3. CASE e.handle # h
    <3>1. v = Append(w, e) /\ e \in NameRec
      BY <1>0, <2>1, <2>3 DEF put
    <3> HIDE DEF e
    <3>2. /\ v \in S /\ DOMAIN w = 1 .. Len(w) /\ DOMAIN v = 1 .. (Len(w) + 1) /\ Len(w) \in Nat
          /\ v[Len(w) + 1] = e /\ \A i \in 1 .. Len(w) : v[i] = w[i]
      <4>1. w \in Seq(NameRec)
        BY <2>1 DEF S
      <4> QED BY <3>1, <4>1 DEF S
    <3>3. \A i \in DOMAIN w : w[i].name < e.name
      <4> SUFFICES ASSUME NEW i \in DOMAIN w PROVE w[i].name < e.name
        OBVIOUS
      <4>1. PICK j \in 1 .. n : j <= k /\ w[i] = name[j]
        BY <2>1
      <4>2. j < k + 1 /\ k + 1 \in DOMAIN name /\ j \in DOMAIN name
        BY <1>0, <2>1, <4>1
      <4> QED BY <4>1, <4>2 DEF SortedNames, e
    <3>4. Ord(v)
      <4> SUFFICES ASSUME NEW i \in DOMAIN v, NEW j \in DOMAIN v, i < j
                   PROVE  v[i].name < v[j].name
        OBVIOUS
      <4>1. CASE j = Len(w) + 1
        <5>1. i \in DOMAIN w /\ v[i] = w[i] /\ v[j] = e
          BY <3>2, <4>1
        <5> QED BY <3>3, <5>1
      <4>2. CASE j # Len(w) + 1
        <5>1. i \in DOMAIN w /\ v[i] = w[i] /\ j \in DOMAIN w /\ v[j] = w[j]
          BY <3>2, <4>2
        <5> QED BY <2>1, <5>1
      <4> QED BY <4>1, <4>2
    <3>5. From(v, k + 1)
      <4> SUFFICES ASSUME NEW i \in DOMAIN v
                   PROVE  \E j \in 1 .. n : j <= k + 1 /\ v[i] = name[j] /\ v[i].handle # h
        OBVIOUS
      <4>1. CASE i = Len(w) + 1
        <5>1. v[i] = e /\ k + 1 \in 1 .. n /\ k + 1 <= k + 1
          BY <2>1, <3>2, <4>1
        <5> QED BY <2>3, <5>1 DEF e
      <4>2. CASE i # Len(w) + 1
        <5>1. i \in DOMAIN w /\ v[i] = w[i]
          BY <3>2, <4>2
        <5>2. PICK j \in 1 .. n : j <= k /\ w[i] = name[j] /\ w[i].handle # h
          BY <2>1, <5>1
        <5>3. j <= k + 1
          BY <1>0, <5>2
        <5> QED BY <5>1, <5>2, <5>3
      <4> QED BY <4>1, <4>2
    <3>6. All(v, k + 1)
      <4> SUFFICES ASSUME NEW j \in 1 .. n, j <= k + 1, name[j].handle # h
                   PROVE  \E i \in DOMAIN v : v[i] = name[j]
        OBVIOUS
      <4>1. CASE j = k + 1
        <5>1. Len(w) + 1 \in DOMAIN v /\ v[Len(w) + 1] = e
          BY <3>2
        <5> QED BY <4>1, <5>1 DEF e
      <4>2. CASE j # k + 1
        <5>1. j <= k
          BY <1>0, <4>2
        <5>2. PICK i \in DOMAIN w : w[i] = name[j]
          BY <2>1, <5>1
        <5>3. i \in DOMAIN v /\ v[i] = w[i]
          BY <3>2
        <5> QED BY <5>2, <5>3
      <4> QED BY <4>1, <4>2
    <3> HIDE DEF Ord, From, All
    <3> QED BY <3>2, <3>4, <3>5, <3>6 DEF v
  <2> QED BY <2>2, <2>3
<1> HIDE DEF T
<1>10. \A k \in 0 .. n : k \in T
  BY <1>0, <1>8, <1>9, Climb
<1>11. n \in T
  BY <1>0, <1>10
<1> DEFINE w == F[n]
<1>12. w \in S /\ Ord(w) /\ From(w, n) /\ All(w, n)
  BY <1>11 DEF T
<1> HIDE DEF w
<1>13. \A j \in 1 .. n : j <= n
  BY <1>0
<1> QED BY <1>0, <1>1, <1>12, <1>13 DEF S, w

-----------------------------------------------------------------------------
(* The invariant.                                                          *)

ThrRec == [pc : {"idle", "assign", "grow", "retry", "scan", "retire"},
           ctx : Context \cup {None}, h : 0 .. HandleMask,
           i : 0 .. 2 * HandleMask, n : Nat]

\* Where skynet_handle_register has not returned, or its value is not stored.
Busy == {"assign", "grow", "retry"}

\* A context being registered is one thread's, and has no handle yet; who
\* doubles the table keeps the lock.
Owned ==
    /\ \A t \in Thread : thr[t].ctx # None <=> thr[t].pc \in Busy
    /\ \A t, u \in Thread : thr[t].ctx # None /\ thr[t].ctx = thr[u].ctx => t = u
    /\ \A t \in Thread : thr[t].ctx # None => handle[thr[t].ctx] = 0 /\ t \in Registrar
    /\ \A t \in Thread : thr[t].pc = "assign" => thr[t].h \in Handle
    /\ \A t \in Thread : thr[t].pc \in {"grow", "retry"} => lock = t

InRange == /\ slot_size <= HandleMask + 1
           /\ \A t \in Thread : thr[t].i <= slot_size

HandleInv == TypeOK /\ InRange /\ Owned /\ SortedNames

\* A context in the table is at the place of the handle it has, or of the one
\* that has been returned to the thread that registers it.
Stands(i) ==
    \/ handle[slot[i]] # 0 /\ i = Hash(handle[slot[i]], slot_size)
    \/ \E t \in Thread : /\ thr[t].pc = "assign" /\ thr[t].ctx = slot[i]
                         /\ i = Hash(thr[t].h, slot_size)

Placed == \A i \in DOMAIN slot : slot[i] # None => Stands(i)

\* Nobody doubles the table while a handle is waiting to be stored.
NoRace == \A t, u \in Thread : thr[t].pc = "grow" => thr[u].pc # "assign"

\* The types of what the steps use.
LEMMA TypeFacts ==
  ASSUME TypeOK
  PROVE  /\ slot_size \in Nat \ {0} /\ DOMAIN slot = 0 .. slot_size - 1
         /\ slot \in [0 .. slot_size - 1 -> Context \cup {None}]
         /\ handle \in [Context -> 0 .. HandleMask]
         /\ name \in Seq(NameRec)
         /\ thr \in [Thread -> ThrRec]
<1>1. slot_size \in Nat \ {0}
  <2>1. PICK k \in 0 .. HandleMask : slot_size = Doubled[k]
    BY DEF TypeOK
  <2> QED BY <2>1, Sizes
<1> QED BY <1>1 DEF TypeOK, NameRec, ThrRec

\* Doubling reaches the next size.
LEMMA NextSize ==
  ASSUME NEW s \in Nat, 2 * s - 1 <= HandleMask, \E k \in 0 .. HandleMask : s = Doubled[k]
  PROVE  \E k \in 0 .. HandleMask : 2 * s = Doubled[k]
<1>1. PICK k \in 0 .. HandleMask : s = Doubled[k]
  OBVIOUS
<1>2. s >= k + 1
  BY <1>1, Sizes
<1>3. k + 1 \in 1 .. HandleMask /\ (k + 1) - 1 = k
  BY <1>2
<1>4. Doubled[k + 1] = 2 * s
  BY <1>1, <1>3, Sizes
<1> QED BY <1>3, <1>4

\* One thread's step.
LEMMA OwnedStep ==
  ASSUME HandleInv, NEW t \in Thread, NEW r \in ThrRec, thr' = [thr EXCEPT ![t] = r],
         slot_size' \in Nat, slot_size <= slot_size', slot_size' <= HandleMask + 1,
         r.i <= slot_size',
         r.ctx # None <=> r.pc \in Busy,
         r.ctx # None => /\ \A u \in Thread : u # t => thr[u].ctx # r.ctx
                         /\ handle'[r.ctx] = 0 /\ t \in Registrar,
         r.pc = "assign" => r.h \in Handle,
         r.pc \in {"grow", "retry"} => lock' = t,
         \A u \in Thread : u # t =>
            /\ thr[u].ctx # None => handle'[thr[u].ctx] = 0
            /\ thr[u].pc \in {"grow", "retry"} => lock' = u
  PROVE  thr' \in [Thread -> ThrRec] /\ Owned' /\ InRange'
<1>1. /\ thr' \in [Thread -> ThrRec] /\ thr'[t] = r
      /\ \A u \in Thread : u # t => thr'[u] = thr[u]
  BY TypeFacts DEF HandleInv
<1>2. Owned'
  <2>1. ASSUME NEW u \in Thread
        PROVE  /\ thr'[u].ctx # None <=> thr'[u].pc \in Busy
               /\ thr'[u].ctx # None => handle'[thr'[u].ctx] = 0 /\ u \in Registrar
               /\ thr'[u].pc = "assign" => thr'[u].h \in Handle
               /\ thr'[u].pc \in {"grow", "retry"} => lock' = u
    <3>1. CASE u = t
      BY <1>1, <3>1
    <3>2. CASE u # t
      BY <1>1, <3>2 DEF HandleInv, Owned
    <3> QED BY <3>1, <3>2
  <2>2. ASSUME NEW u \in Thread, NEW v \in Thread, thr'[u].ctx # None, thr'[u].ctx = thr'[v].ctx
        PROVE  u = v
    <3>1. CASE u = t
      BY <1>1, <2>2, <3>1
    <3>2. CASE v = t
      BY <1>1, <2>2, <3>2
    <3>3. CASE u # t /\ v # t
      BY <1>1, <2>2, <3>3 DEF HandleInv, Owned
    <3> QED BY <3>1, <3>2, <3>3
  <2> QED BY <2>1, <2>2 DEF Owned
<1>3. InRange'
  <2>1. slot_size \in Nat
    BY TypeFacts DEF HandleInv
  <2>2. ASSUME NEW u \in Thread PROVE thr'[u].i <= slot_size'
    <3>1. CASE u = t
      BY <1>1, <3>1
    <3>2. CASE u # t
      <4>1. thr'[u].i = thr[u].i /\ thr[u].i \in Nat /\ thr[u].i <= slot_size
        BY <1>1, <3>2, TypeFacts DEF HandleInv, InRange, ThrRec
      <4> QED BY <2>1, <4>1
    <3> QED BY <3>1, <3>2
  <2> QED BY <2>2 DEF InRange
<1> QED BY <1>1, <1>2, <1>3

\* TypeOK, put together again when the table keeps its size.
LEMMA TypeAgain ==
  ASSUME TypeOK, DOMAIN slot' = DOMAIN slot,
         slot' \in [0 .. slot_size - 1 -> Context \cup {None}],
         handle_index' \in 1 .. HandleMask + 1, handle' \in [Context -> 0 .. HandleMask],
         name' \in Seq(NameRec), lock' \in Thread \cup {None}, thr' \in [Thread -> ThrRec]
  PROVE  TypeOK' /\ slot_size' = slot_size
<1>1. slot_size' = slot_size
  BY DEF slot_size
<1> QED BY <1>1 DEF TypeOK, NameRec, ThrRec

\* The handle that skynet_handle_register takes: its place is free.
LEMMA TakenHandle ==
  ASSUME TypeOK, Free # {}
  PROVE  LET i == CHOOSE i \in Free : \A j \in Free : i <= j
         IN  /\ Candidate[i] \in Handle
             /\ Hash(Candidate[i], slot_size) \in DOMAIN slot
             /\ slot[Hash(Candidate[i], slot_size)] = None
<1>1. /\ slot_size \in Nat \ {0} /\ DOMAIN slot = 0 .. slot_size - 1
      /\ handle_index \in 1 .. HandleMask + 1
  BY TypeFacts DEF TypeOK
<1>2. Free \in SUBSET Nat /\ Free \subseteq 0 .. slot_size - 1
  BY <1>1 DEF Free
<1>3. \E i \in Free : \A j \in Free : i <= j
  BY <1>2, Least
<1> DEFINE i == CHOOSE i \in Free : \A j \in Free : i <= j
<1>4. i \in Free
  BY <1>3
<1> HIDE DEF i
<1>5. Candidate[i] \in Handle
  BY <1>1, <1>2, <1>4, Tried
<1>6. Candidate[i] \in Nat
  BY <1>5 DEF Handle
<1>7. Hash(Candidate[i], slot_size) \in DOMAIN slot
  BY <1>1, <1>6, HashIn
<1>8. slot[Hash(Candidate[i], slot_size)] = None
  BY <1>4 DEF Free
<1> QED BY <1>5, <1>7, <1>8 DEF i

-----------------------------------------------------------------------------
(* The invariant is kept by every step.                                    *)

\* A name goes between the smaller names and the larger ones.
LEMMA InsertedAt ==
  ASSUME name \in Seq(NameRec), SortedNames, NEW e \in NameRec,
         NEW p \in 1 .. Len(name) + 1,
         \A i \in DOMAIN name : /\ i < p => name[i].name < e.name
                                /\ i >= p => name[i].name > e.name,
         NEW w \in Seq(NameRec), Len(w) = Len(name) + 1,
         \A i \in 1 .. Len(name) + 1 : w[i] = IF i < p THEN name[i]
                                              ELSE IF i = p THEN e ELSE name[i - 1]
  PROVE  /\ \A i, j \in DOMAIN w : i < j => w[i].name < w[j].name
         /\ \A i \in DOMAIN name : \E j \in DOMAIN w : w[j] = name[i]
<1> DEFINE n == Len(name)
           x == e.name
<1>0. x \in Int
  BY NameAssumption DEF NameRec
<1>1. /\ p \in 1 .. n + 1 /\ n \in Nat /\ DOMAIN name = 1 .. n
      /\ \A i \in 1 .. n : (i < p => name[i].name < x) /\ (i >= p => name[i].name > x)
  OBVIOUS
<1>2. /\ DOMAIN w = 1 .. n + 1
      /\ \A i \in 1 .. n + 1 : w[i] = IF i < p THEN name[i] ELSE IF i = p THEN e ELSE name[i - 1]
  OBVIOUS
<1> HIDE DEF n, x
<1>3. \A i, j \in DOMAIN w : i < j => w[i].name < w[j].name
  <2> SUFFICES ASSUME NEW i \in 1 .. n + 1, NEW j \in 1 .. n + 1, i < j
               PROVE  w[i].name < w[j].name
    BY <1>2
  <2>1. \A k \in 1 .. n : name[k].name \in Int
    <3>1. \A k \in 1 .. n : name[k] \in NameRec
      BY <1>1
    <3> QED BY <3>1, NameAssumption DEF NameRec
  <2>2. CASE i < p /\ j < p
    <3>1. w[i] = name[i] /\ w[j] = name[j] /\ i \in 1 .. n /\ j \in 1 .. n
      BY <1>1, <1>2, <2>2
    <3> QED BY <1>1, <3>1 DEF SortedNames
  <2>3. CASE i < p /\ j = p
    <3>1. w[i] = name[i] /\ w[j] = e /\ i \in 1 .. n
      BY <1>1, <1>2, <2>3
    <3> QED BY <1>0, <1>1, <2>3, <3>1 DEF x
  <2>4. CASE i < p /\ j > p
    <3>1. w[i] = name[i] /\ w[j] = name[j - 1] /\ i \in 1 .. n /\ j - 1 \in 1 .. n /\ i < j - 1
      BY <1>1, <1>2, <2>4
    <3> QED BY <1>1, <3>1 DEF SortedNames
  <2>5. CASE i = p
    <3>1. w[i] = e /\ w[j] = name[j - 1] /\ j - 1 \in 1 .. n /\ j - 1 >= p
      BY <1>1, <1>2, <2>5
    <3>2. name[j - 1].name > x /\ name[j - 1].name \in Int
      BY <1>1, <2>1, <3>1
    <3> QED BY <1>0, <3>1, <3>2 DEF x
  <2>6. CASE i > p
    <3>1. /\ w[i] = name[i - 1] /\ w[j] = name[j - 1] /\ i - 1 \in 1 .. n /\ j - 1 \in 1 .. n
          /\ i - 1 < j - 1
      BY <1>1, <1>2, <2>6
    <3> QED BY <1>1, <3>1 DEF SortedNames
  <2> QED BY <1>1, <2>2, <2>3, <2>4, <2>5, <2>6
<1>4. ASSUME NEW i \in DOMAIN name PROVE \E j \in DOMAIN w : w[j] = name[i]
  <2>1. CASE i < p
    <3>1. i \in 1 .. n + 1 /\ w[i] = name[i]
      BY <1>1, <1>2, <2>1
    <3> QED BY <1>2, <3>1
  <2>2. CASE i >= p
    <3>1. i + 1 \in 1 .. n + 1 /\ i + 1 > p /\ (i + 1) - 1 = i
      BY <1>1, <2>2
    <3>2. w[i + 1] = name[i]
      BY <1>1, <1>2, <3>1
    <3> QED BY <1>2, <3>1, <3>2
  <2> QED BY <1>1, <2>1, <2>2
<1> QED BY <1>3, <1>4

\* NAME and REG: the name is added, and the array stays sorted.
LEMMA Inserted ==
  ASSUME name \in Seq(NameRec), SortedNames, NEW t \in Thread, NEW x \in Name, NEW h \in Handle,
         NameHandle(t, x, h)
  PROVE  /\ name' \in Seq(NameRec) /\ SortedNames'
         /\ \A i \in DOMAIN name : \E j \in DOMAIN name' : name'[j] = name[i]
<1> DEFINE p == Search(x).at
           e == [name |-> x, handle |-> h]
           w == Inserting(name, p, e)
<1>1. x \in Int /\ e \in NameRec /\ e.name = x
  BY NameAssumption DEF NameRec
<1>2. Search(x).found # TRUE
  BY DEF NameHandle
<1>3. /\ p \in 1 .. Len(name) + 1
      /\ \A i \in DOMAIN name : (i < p => name[i].name < x) /\ (i >= p => name[i].name > x)
  <2> HIDE DEF e
  <2> QED BY <1>1, <1>2, SearchRight
<1>4. name' = w
  BY DEF NameHandle, Inserting
<1> HIDE DEF p, e
<1>5. \A i \in DOMAIN name : (i < p => name[i].name < e.name) /\ (i >= p => name[i].name > e.name)
  BY <1>1, <1>3
<1>6. /\ w \in Seq(NameRec) /\ Len(w) = Len(name) + 1
      /\ \A i \in 1 .. Len(name) + 1 : w[i] = IF i < p THEN name[i]
                                             ELSE IF i = p THEN e ELSE name[i - 1]
  BY <1>1, <1>3, Insert
<1> HIDE DEF w
<1>7. /\ \A i, j \in DOMAIN w : i < j => w[i].name < w[j].name
      /\ \A i \in DOMAIN name : \E j \in DOMAIN w : w[j] = name[i]
  BY <1>1, <1>3, <1>5, <1>6, InsertedAt
<1> QED BY <1>4, <1>6, <1>7 DEF SortedNames

\* An idle thread.
LEMMA IdleFields ==
  Idle \in ThrRec /\ Idle.pc = "idle" /\ Idle.ctx = None /\ Idle.h = 0 /\ Idle.i = 0 /\ Idle.n = 0
BY DEF Idle, ThrRec

\* skynet_handle_register, as far as the lock is kept: a handle is taken, or
\* the table is found full.
LEMMA TakeOrGrowInv ==
  ASSUME HandleInv, NEW t \in Thread, t \in Registrar, NEW c \in Context, handle[c] = 0,
         \A u \in Thread : u # t => thr[u].ctx # c,
         lock = None \/ lock = t, TakeOrGrow(t, c)
  PROVE  HandleInv'
<1>0. /\ TypeOK /\ slot_size \in Nat \ {0} /\ slot_size <= HandleMask + 1 /\ SortedNames
      /\ handle_index \in 1 .. HandleMask + 1 /\ None \notin Thread /\ c # None
      /\ lock \in Thread \cup {None}
  BY TypeFacts, NoneAssumption DEF HandleInv, InRange, TypeOK
<1>1. \A u \in Thread : u # t =>
          /\ thr[u].ctx # None => handle[thr[u].ctx] = 0
          /\ thr[u].pc \notin {"grow", "retry"}
  BY <1>0 DEF HandleInv, Owned
<1>2. CASE Free # {}
  <2> DEFINE i == CHOOSE i \in Free : \A j \in Free : i <= j
             h == Candidate[i]
             r1 == [Idle EXCEPT !.pc = "assign"]
             r2 == [r1 EXCEPT !.ctx = c]
             r == [r2 EXCEPT !.h = h]
  <2>1. /\ slot' = [slot EXCEPT ![Hash(h, slot_size)] = c]
        /\ handle_index' = h + 1 /\ lock' = None
        /\ thr' = [thr EXCEPT ![t] = r] /\ UNCHANGED <<handle, name>>
    BY <1>2 DEF TakeOrGrow, Take
  <2>2. h \in Handle /\ Hash(h, slot_size) \in DOMAIN slot
    BY <1>0, <1>2, TakenHandle
  <2> HIDE DEF h
  <2>3. r \in ThrRec /\ r.pc = "assign" /\ r.ctx = c /\ r.h = h /\ r.i = 0
    <3>1. h \in 0 .. HandleMask
      BY <2>2 DEF Handle
    <3>2. r1 \in ThrRec /\ r1.pc = "assign" /\ r1.i = 0
      BY IdleFields DEF ThrRec
    <3> HIDE DEF r1
    <3>3. r2 \in ThrRec /\ r2.pc = "assign" /\ r2.ctx = c /\ r2.i = 0
      BY <3>2 DEF ThrRec
    <3> HIDE DEF r2
    <3> QED BY <3>1, <3>3 DEF ThrRec
  <2> HIDE DEF r
  <2>6. slot' \in [0 .. slot_size - 1 -> Context \cup {None}] /\ DOMAIN slot' = DOMAIN slot
    BY <1>0, <2>1, TypeFacts
  <2>7. slot_size' = slot_size
    BY <2>6 DEF slot_size
  <2>8. thr' \in [Thread -> ThrRec] /\ Owned' /\ InRange'
    <3>1. slot_size' \in Nat /\ slot_size <= slot_size' /\ slot_size' <= HandleMask + 1
      BY <1>0, <2>7
    <3>2. r.ctx # None /\ r.pc \in Busy /\ r.pc \notin {"grow", "retry"} /\ r.i <= slot_size'
      BY <1>0, <2>3, <3>1 DEF Busy
    <3>3. \A u \in Thread : u # t =>
             /\ thr[u].ctx # None => handle'[thr[u].ctx] = 0
             /\ thr[u].pc \in {"grow", "retry"} => lock' = u
      BY <1>1, <2>1
    <3>4. handle'[r.ctx] = 0 /\ r.h \in Handle /\ \A u \in Thread : u # t => thr[u].ctx # r.ctx
      BY <2>1, <2>2, <2>3
    <3> QED BY <2>1, <2>3, <3>1, <3>2, <3>3, <3>4, OwnedStep
  <2>9. TypeOK'
    <3>1. handle_index' \in 1 .. HandleMask + 1
      BY <2>1, <2>2 DEF Handle
    <3> QED BY <1>0, <2>1, <2>6, <2>8, <3>1, TypeFacts, TypeAgain
  <2> QED BY <1>0, <2>1, <2>8, <2>9 DEF HandleInv, SortedNames
<1>3. CASE Free = {}
  <2> DEFINE r1 == [Idle EXCEPT !.pc = "grow"]
             r == [r1 EXCEPT !.ctx = c]
  <2>1. /\ lock' = t /\ thr' = [thr EXCEPT ![t] = r]
        /\ UNCHANGED <<slot, handle_index, handle, name>>
    BY <1>3 DEF TakeOrGrow, Full
  <2>3. r \in ThrRec /\ r.pc = "grow" /\ r.ctx = c /\ r.i = 0
    <3>1. r1 \in ThrRec /\ r1.pc = "grow" /\ r1.i = 0
      BY IdleFields DEF ThrRec
    <3> HIDE DEF r1
    <3> QED BY <3>1 DEF ThrRec
  <2> HIDE DEF r
  <2>7. slot_size' = slot_size
    BY <2>1 DEF slot_size
  <2>8. thr' \in [Thread -> ThrRec] /\ Owned' /\ InRange'
    <3>1. slot_size' \in Nat /\ slot_size <= slot_size' /\ slot_size' <= HandleMask + 1
      BY <1>0, <2>7
    <3>2. r.ctx # None /\ r.pc \in Busy /\ r.pc # "assign" /\ r.i <= slot_size' /\ lock' = t
      BY <1>0, <2>1, <2>3, <3>1 DEF Busy
    <3>3. \A u \in Thread : u # t =>
             /\ thr[u].ctx # None => handle'[thr[u].ctx] = 0
             /\ thr[u].pc \in {"grow", "retry"} => lock' = u
      BY <1>1, <2>1
    <3>4. handle'[r.ctx] = 0 /\ \A u \in Thread : u # t => thr[u].ctx # r.ctx
      BY <2>1, <2>3
    <3> QED BY <2>1, <2>3, <3>1, <3>2, <3>3, <3>4, OwnedStep
  <2>9. TypeOK'
    BY <1>0, <2>1, <2>8, TypeFacts, TypeAgain
  <2> QED BY <1>0, <2>1, <2>8, <2>9 DEF HandleInv, SortedNames
<1> QED BY <1>2, <1>3

\* skynet_handle_retire: a place is emptied and its names go, or nothing.
LEMMA RetireEffect ==
  ASSUME TypeOK, SortedNames, NEW h \in Nat, skynet_handle_retire(h)
  PROVE  /\ slot' \in [0 .. slot_size - 1 -> Context \cup {None}] /\ DOMAIN slot' = DOMAIN slot
         /\ name' \in Seq(NameRec) /\ SortedNames'
         /\ \A i \in DOMAIN slot : slot'[i] = None \/ slot'[i] = slot[i]
<1>1. /\ slot_size \in Nat \ {0} /\ DOMAIN slot = 0 .. slot_size - 1
      /\ slot \in [0 .. slot_size - 1 -> Context \cup {None}] /\ name \in Seq(NameRec)
  BY TypeFacts
<1>2. CASE skynet_handle_grab(h) # None
  <2>1. slot' = [slot EXCEPT ![Hash(h, slot_size)] = None] /\ name' = WithoutNames(h)
    BY <1>2 DEF skynet_handle_retire
  <2> DEFINE w == WithoutNames(h)
  <2>2. w \in Seq(NameRec) /\ \A i, j \in DOMAIN w : i < j => w[i].name < w[j].name
    BY <1>1, Compacted
  <2> HIDE DEF w
  <2>3. name' = w
    BY <2>1 DEF w
  <2> QED BY <1>1, <2>1, <2>2, <2>3 DEF SortedNames
<1>3. CASE ~(skynet_handle_grab(h) # None)
  <2>1. UNCHANGED <<slot, name>>
    BY <1>3 DEF skynet_handle_retire
  <2> QED BY <1>1, <2>1 DEF SortedNames
<1> QED BY <1>2, <1>3

\* A step that takes a thread from one place outside skynet_handle_register
\* to another.
LEMMA RoundStep ==
  ASSUME HandleInv, NEW t \in Thread, NEW r \in ThrRec, thr' = [thr EXCEPT ![t] = r],
         r.ctx = None, r.pc \notin Busy, r.i <= slot_size,
         UNCHANGED <<handle_index, handle, lock>>,
         slot' \in [0 .. slot_size - 1 -> Context \cup {None}], DOMAIN slot' = DOMAIN slot,
         name' \in Seq(NameRec), SortedNames'
  PROVE  HandleInv'
<1>1. slot_size' = slot_size
  BY DEF slot_size
<1>2. /\ TypeOK /\ slot_size \in Nat /\ slot_size <= HandleMask + 1
      /\ handle_index \in 1 .. HandleMask + 1 /\ handle \in [Context -> 0 .. HandleMask]
      /\ lock \in Thread \cup {None}
  BY TypeFacts DEF HandleInv, InRange, TypeOK
<1>3. \A u \in Thread : u # t =>
          /\ thr[u].ctx # None => handle'[thr[u].ctx] = 0
          /\ thr[u].pc \in {"grow", "retry"} => lock' = u
  BY DEF HandleInv, Owned
<1>4. r.pc \notin {"assign", "grow", "retry"}
  BY DEF Busy
<1>5. slot_size' \in Nat /\ slot_size <= slot_size' /\ slot_size' <= HandleMask + 1 /\ r.i <= slot_size'
  BY <1>1, <1>2
<1>6. thr' \in [Thread -> ThrRec] /\ Owned' /\ InRange'
  BY <1>3, <1>4, <1>5, OwnedStep
<1>7. TypeOK'
  BY <1>2, <1>6, TypeAgain
<1> QED BY <1>6, <1>7 DEF HandleInv

\* skynet_handle_retireall: the slot it reads, and what it retires.
LEMMA ScanInv ==
  ASSUME HandleInv, NEW t \in Thread, Scan(t) \/ RetireSeen(t) \/ RetireAll(t)
  PROVE  HandleInv'
<1>0. /\ TypeOK /\ SortedNames /\ thr \in [Thread -> ThrRec] /\ thr[t] \in ThrRec
      /\ slot_size \in Nat \ {0} /\ slot_size <= HandleMask + 1 /\ DOMAIN slot = 0 .. slot_size - 1
      /\ slot \in [0 .. slot_size - 1 -> Context \cup {None}]
      /\ handle \in [Context -> 0 .. HandleMask] /\ name \in Seq(NameRec)
  BY TypeFacts DEF HandleInv, InRange
<1>1. /\ thr[t].h \in 0 .. HandleMask /\ thr[t].i \in 0 .. 2 * HandleMask /\ thr[t].n \in Nat
      /\ thr[t].i <= slot_size /\ (thr[t].ctx # None <=> thr[t].pc \in Busy)
  BY <1>0 DEF ThrRec, HandleInv, InRange, Owned
<1> DEFINE old == thr[t]
<1>a. old \in ThrRec /\ old.n \in Nat
  BY <1>0, <1>1
<1>2. CASE RetireAll(t)
  <2> DEFINE r == [thr[t] EXCEPT !.pc = "scan"]
  <2>1. thr' = [thr EXCEPT ![t] = r] /\ UNCHANGED <<slot, handle_index, handle, name, lock>> /\ thr[t].pc = "idle"
    BY <1>2, IdleFields DEF RetireAll
  <2>2. r \in ThrRec /\ r.pc = "scan" /\ r.ctx = thr[t].ctx /\ r.i = thr[t].i
    BY <1>0 DEF ThrRec
  <2> HIDE DEF r
  <2>3. r.ctx = None /\ r.pc \notin Busy /\ r.i <= slot_size
    BY <1>1, <2>1, <2>2 DEF Busy
  <2>4. SortedNames'
    BY <1>0, <2>1 DEF SortedNames
  <2> QED BY <1>0, <2>1, <2>2, <2>3, <2>4, RoundStep
<1>3. CASE RetireSeen(t)
  <2> DEFINE r1 == [thr[t] EXCEPT !.pc = "scan"]
             r == [r1 EXCEPT !.h = 0]
  <2>1. thr' = [thr EXCEPT ![t] = r] /\ UNCHANGED <<handle_index, handle, lock>> /\ thr[t].pc = "retire"
    BY <1>0, <1>3 DEF RetireSeen
  <2>2. r1 \in ThrRec /\ r1.pc = "scan" /\ r1.ctx = thr[t].ctx /\ r1.i = thr[t].i
    BY <1>0 DEF ThrRec
  <2> HIDE DEF r1
  <2>3. r \in ThrRec /\ r.pc = "scan" /\ r.ctx = thr[t].ctx /\ r.i = thr[t].i
    BY <2>2 DEF ThrRec
  <2> HIDE DEF r
  <2>4. r.ctx = None /\ r.pc \notin Busy /\ r.i <= slot_size
    BY <1>1, <2>1, <2>3 DEF Busy
  <2>5. /\ slot' \in [0 .. slot_size - 1 -> Context \cup {None}] /\ DOMAIN slot' = DOMAIN slot
        /\ name' \in Seq(NameRec) /\ SortedNames'
    <3>1. CASE UNCHANGED <<slot, name>>
      BY <1>0, <3>1 DEF SortedNames
    <3>2. CASE skynet_handle_retire(thr[t].h)
      BY <1>0, <1>1, <3>2, RetireEffect
    <3> QED BY <1>3, <3>1, <3>2 DEF RetireSeen
  <2> QED BY <2>1, <2>3, <2>4, <2>5, RoundStep
<1>4. CASE Scan(t) /\ thr[t].i < slot_size
  <2> DEFINE c == slot[thr[t].i]
             r1 == [old EXCEPT !.n = IF c # None THEN old.n + 1 ELSE old.n]
             r2 == [r1 EXCEPT !.h = IF c = None THEN 0 ELSE handle[c]]
             r3 == [r2 EXCEPT !.i = old.i + 1]
             r == [r3 EXCEPT !.pc = "retire"]
  <2>1. thr[t].pc = "scan" /\ UNCHANGED <<slot, handle_index, handle, name, lock>>
    BY <1>4 DEF Scan
  <2>2. thr' = [thr EXCEPT ![t] = r]
    BY <1>0, <1>4 DEF Scan
  <2>3. c \in Context \cup {None} /\ (c # None => handle[c] \in 0 .. HandleMask)
    <3>1. thr[t].i \in 0 .. slot_size - 1
      BY <1>0, <1>1, <1>4
    <3> QED BY <1>0, <3>1
  <2> HIDE DEF c
  <2>4. r1 \in ThrRec /\ r1.pc = old.pc /\ r1.ctx = old.ctx /\ r1.i = old.i
    <3>1. (IF c # None THEN old.n + 1 ELSE old.n) \in Nat
      BY <1>a
    <3> HIDE DEF old
    <3> QED BY <1>a, <3>1 DEF ThrRec
  <2> HIDE DEF r1
  <2>5. r2 \in ThrRec /\ r2.pc = thr[t].pc /\ r2.ctx = thr[t].ctx /\ r2.i = thr[t].i
    BY <2>3, <2>4 DEF ThrRec
  <2> HIDE DEF r2
  <2>6. thr[t].i + 1 \in 0 .. 2 * HandleMask /\ thr[t].i + 1 <= slot_size
    BY <1>0, <1>1, <1>4
  <2>7. r3 \in ThrRec /\ r3.ctx = thr[t].ctx /\ r3.i = thr[t].i + 1
    BY <2>5, <2>6 DEF ThrRec
  <2> HIDE DEF r3
  <2>8. r \in ThrRec /\ r.pc = "retire" /\ r.ctx = thr[t].ctx /\ r.i = thr[t].i + 1
    BY <2>7 DEF ThrRec
  <2> HIDE DEF r
  <2>9. r.ctx = None /\ r.pc \notin Busy /\ r.i <= slot_size
    BY <1>1, <2>1, <2>6, <2>8 DEF Busy
  <2>10. SortedNames'
    BY <1>0, <2>1 DEF SortedNames
  <2> QED BY <1>0, <2>1, <2>2, <2>8, <2>9, <2>10, RoundStep
<1>5. CASE Scan(t) /\ ~(thr[t].i < slot_size)
  <2> DEFINE r1 == [old EXCEPT !.i = 0]
             r2 == [r1 EXCEPT !.n = 0]
             r == IF thr[t].n = 0 THEN Idle ELSE r2
  <2>1. thr[t].pc = "scan" /\ UNCHANGED <<slot, handle_index, handle, name, lock>>
    BY <1>5 DEF Scan
  <2>2. thr' = [thr EXCEPT ![t] = r]
    BY <1>0, <1>5 DEF Scan, NextRound
  <2>4. r1 \in ThrRec /\ r1.pc = old.pc /\ r1.ctx = old.ctx /\ r1.i = 0
    <3> HIDE DEF old
    <3> QED BY <1>a DEF ThrRec
  <2> HIDE DEF r1
  <2>5. r2 \in ThrRec /\ r2.pc = thr[t].pc /\ r2.ctx = thr[t].ctx /\ r2.i = 0
    BY <2>4 DEF ThrRec
  <2> HIDE DEF r2
  <2>6. r \in ThrRec /\ (r.pc = "idle" \/ r.pc = "scan") /\ r.ctx = None /\ r.i = 0
    BY <1>1, <2>1, <2>5, IdleFields DEF Busy
  <2> HIDE DEF r
  <2>9. r.pc \notin Busy /\ r.i <= slot_size
    BY <1>0, <2>6 DEF Busy
  <2>10. SortedNames'
    BY <1>0, <2>1 DEF SortedNames
  <2> QED BY <1>0, <2>1, <2>2, <2>6, <2>9, <2>10, RoundStep
<1> QED BY <1>2, <1>3, <1>4, <1>5

\* Doubling: the new table has every place of its size.
LEMMA GrowInv ==
  ASSUME HandleInv, NEW t \in Thread, Grow(t)
  PROVE  HandleInv' /\ slot_size' = 2 * slot_size
<1>0. /\ TypeOK /\ SortedNames /\ thr \in [Thread -> ThrRec] /\ thr[t] \in ThrRec
      /\ slot_size \in Nat \ {0} /\ slot_size <= HandleMask + 1 /\ DOMAIN slot = 0 .. slot_size - 1
      /\ slot \in [0 .. slot_size - 1 -> Context \cup {None}]
      /\ handle \in [Context -> 0 .. HandleMask] /\ name \in Seq(NameRec)
  BY TypeFacts DEF HandleInv, InRange
<1> DEFINE r == [thr[t] EXCEPT !.pc = "retry"]
<1>1. /\ thr[t].pc = "grow" /\ lock = t /\ 2 * slot_size - 1 <= HandleMask /\ slot' = Rehash
      /\ thr' = [thr EXCEPT ![t] = r] /\ UNCHANGED <<handle_index, handle, name, lock>>
  BY DEF Grow
<1>2. r \in ThrRec /\ r.pc = "retry" /\ r.ctx = thr[t].ctx /\ r.i = thr[t].i
  BY <1>0 DEF ThrRec
<1> HIDE DEF r
<1>3. DOMAIN slot' = 0 .. 2 * slot_size - 1 /\ slot' \in [0 .. 2 * slot_size - 1 -> Context \cup {None}]
  <2>1. \A j \in 0 .. 2 * slot_size - 1 :
           LET from == {i \in DOMAIN slot : slot[i] # None /\ NewPlace(i) = j}
           IN  (IF from = {} THEN None ELSE slot[CHOOSE i \in from : TRUE]) \in Context \cup {None}
    BY <1>0
  <2> QED BY <1>1, <2>1 DEF Rehash
<1>4. slot_size' = 2 * slot_size
  BY <1>0, <1>3, SizeNext
<1>5. thr' \in [Thread -> ThrRec] /\ Owned' /\ InRange'
  <2>1. slot_size' \in Nat /\ slot_size <= slot_size' /\ slot_size' <= HandleMask + 1
    BY <1>0, <1>1, <1>4
  <2>2. thr[t].i \in Nat /\ thr[t].i <= slot_size
    BY <1>0 DEF ThrRec, HandleInv, InRange
  <2>3. r.i <= slot_size'
    BY <1>0, <1>2, <2>1, <2>2
  <2>4. r.ctx # None /\ r.pc \in Busy /\ r.pc # "assign" /\ lock' = t
    BY <1>1, <1>2 DEF HandleInv, Owned, Busy
  <2>5. \A u \in Thread : u # t =>
          /\ thr[u].ctx # None => handle'[thr[u].ctx] = 0
          /\ thr[u].pc \in {"grow", "retry"} => lock' = u
    BY <1>1 DEF HandleInv, Owned
  <2>6. handle'[r.ctx] = 0 /\ t \in Registrar /\ \A u \in Thread : u # t => thr[u].ctx # r.ctx
    BY <1>1, <1>2, <2>4 DEF HandleInv, Owned
  <2> QED BY <1>1, <1>2, <2>1, <2>3, <2>4, <2>5, <2>6, OwnedStep
<1>6. TypeOK'
  <2>1. \E k \in 0 .. HandleMask : 2 * slot_size = Doubled[k]
    <3>1. \E k \in 0 .. HandleMask : slot_size = Doubled[k]
      BY <1>0 DEF TypeOK
    <3> HIDE DEF slot_size
    <3> QED BY <1>0, <1>1, <3>1, NextSize
  <2>2. \E k \in 0 .. HandleMask : slot_size' = Doubled[k]
    BY <1>4, <2>1
  <2>3. slot' \in [0 .. slot_size' - 1 -> Context \cup {None}]
    BY <1>3, <1>4
  <2> QED BY <1>0, <1>1, <1>5, <2>2, <2>3 DEF TypeOK, NameRec, ThrRec
<1>7. SortedNames'
  BY <1>0, <1>1 DEF SortedNames
<1> QED BY <1>4, <1>5, <1>6, <1>7 DEF HandleInv

\* The handle is stored.
LEMMA AssignInv ==
  ASSUME HandleInv, NEW t \in Thread, Assign(t)
  PROVE  HandleInv'
<1>0. /\ TypeOK /\ SortedNames /\ thr \in [Thread -> ThrRec] /\ thr[t] \in ThrRec
      /\ slot_size \in Nat \ {0} /\ slot_size <= HandleMask + 1
      /\ handle \in [Context -> 0 .. HandleMask] /\ name \in Seq(NameRec)
      /\ slot \in [0 .. slot_size - 1 -> Context \cup {None}]
  BY TypeFacts DEF HandleInv, InRange
<1>1. /\ thr[t].pc = "assign" /\ handle' = [handle EXCEPT ![thr[t].ctx] = thr[t].h]
      /\ thr' = [thr EXCEPT ![t] = Idle] /\ UNCHANGED <<slot, handle_index, name, lock>>
  BY DEF Assign
<1>2. thr[t].h \in 0 .. HandleMask /\ thr[t].ctx # None /\ thr[t].ctx \in Context
  <2>1. thr[t].h \in 0 .. HandleMask /\ thr[t].ctx \in Context \cup {None}
    BY <1>0 DEF ThrRec
  <2>2. thr[t].ctx # None
    BY <1>1 DEF HandleInv, Owned, Busy
  <2> QED BY <2>1, <2>2
<1>3. handle' \in [Context -> 0 .. HandleMask] /\ slot_size' = slot_size
  BY <1>0, <1>1, <1>2 DEF slot_size
<1>4. ASSUME NEW u \in Thread, u # t
      PROVE  /\ thr[u].ctx # None => handle'[thr[u].ctx] = 0
             /\ thr[u].pc \in {"grow", "retry"} => lock' = u
  <2>1. thr[u].ctx # None => thr[u].ctx # thr[t].ctx /\ handle[thr[u].ctx] = 0
    BY <1>4 DEF HandleInv, Owned
  <2>2. thr[u].pc \in {"grow", "retry"} => lock' = u
    BY <1>1 DEF HandleInv, Owned
  <2>3. thr[u].ctx \in Context \cup {None}
    BY <1>0 DEF ThrRec
  <2> QED BY <1>0, <1>1, <2>1, <2>2, <2>3
<1>5. thr' \in [Thread -> ThrRec] /\ Owned' /\ InRange'
  <2>1. slot_size' \in Nat /\ slot_size <= slot_size' /\ slot_size' <= HandleMask + 1 /\ Idle.i <= slot_size'
    BY <1>0, <1>3, IdleFields
  <2>2. Idle.pc \notin Busy /\ Idle.pc \notin {"assign", "grow", "retry"} /\ Idle.ctx = None
    BY IdleFields DEF Busy
  <2> HIDE DEF Idle
  <2> QED BY <1>1, <1>4, <2>1, <2>2, IdleFields, OwnedStep
<1>6. TypeOK'
  <2>1. handle_index \in 1 .. HandleMask + 1 /\ lock \in Thread \cup {None}
    BY <1>0 DEF TypeOK
  <2> QED BY <1>0, <1>1, <1>3, <1>5, <2>1, TypeAgain
<1> QED BY <1>0, <1>1, <1>5, <1>6 DEF HandleInv, SortedNames

\* KILL, EXIT, NAME, REG and stuttering: no thread is on its way.
LEMMA OtherInv ==
  ASSUME HandleInv, UNCHANGED <<handle_index, handle, lock, thr>>,
         slot' \in [0 .. slot_size - 1 -> Context \cup {None}], DOMAIN slot' = DOMAIN slot,
         name' \in Seq(NameRec), SortedNames'
  PROVE  HandleInv'
<1>1. TypeOK' /\ slot_size' = slot_size
  <2>1. /\ handle_index \in 1 .. HandleMask + 1 /\ lock \in Thread \cup {None} /\ TypeOK
        /\ handle \in [Context -> 0 .. HandleMask] /\ thr \in [Thread -> ThrRec]
    BY TypeFacts DEF HandleInv, TypeOK
  <2> QED BY <2>1, TypeAgain
<1> QED BY <1>1 DEF HandleInv, Owned, InRange

\* The invariant of handles and names, whichever threads launch services.
THEOREM HandleInvariant == Spec => []HandleInv
<1>1. Init => HandleInv
  <2> SUFFICES ASSUME Init PROVE HandleInv
    OBVIOUS
  <2>1. DOMAIN slot = 0 .. DefaultSlotSize - 1
    BY DEF Init
  <2>2. slot_size = DefaultSlotSize
    BY <2>1, SizeOf
  <2>3. \E k \in 0 .. HandleMask : slot_size = Doubled[k]
    <3>1. 0 \in 0 .. HandleMask /\ Doubled[0] = DefaultSlotSize
      BY Sizes
    <3> QED BY <2>2, <3>1
  <2>4. thr \in [Thread -> ThrRec] /\ \A t \in Thread : thr[t] = Idle
    BY IdleFields DEF Init
  <2>5. TypeOK
    <3>1. slot \in [0 .. slot_size - 1 -> Context \cup {None}]
      BY <2>2 DEF Init
    <3>2. handle \in [Context -> 0 .. HandleMask] /\ name \in Seq(NameRec)
      BY DEF Init
    <3> QED BY <2>3, <2>4, <3>1, <3>2 DEF Init, TypeOK, NameRec, ThrRec
  <2>6. InRange
    BY <2>2, <2>4, IdleFields DEF InRange
  <2>7. Owned
    <3>1. \A t \in Thread : thr[t].ctx = None /\ thr[t].pc = "idle"
      BY <2>4, IdleFields
    <3> QED BY <3>1 DEF Owned, Busy
  <2>8. SortedNames
    BY DEF Init, SortedNames
  <2> QED BY <2>5, <2>6, <2>7, <2>8 DEF HandleInv
<1>2. HandleInv /\ [Next]_vars => HandleInv'
  <2> SUFFICES ASSUME HandleInv, [Next]_vars PROVE HandleInv'
    OBVIOUS
  <2>0. /\ TypeOK /\ SortedNames /\ slot \in [0 .. slot_size - 1 -> Context \cup {None}]
        /\ name \in Seq(NameRec) /\ handle \in [Context -> 0 .. HandleMask]
        /\ thr \in [Thread -> ThrRec]
    BY TypeFacts DEF HandleInv
  <2>1. ASSUME NEW t \in Thread, NEW c \in Context, Register(t, c) PROVE HandleInv'
    <3>1. /\ t \in Registrar /\ lock = None /\ handle[c] = 0 /\ TakeOrGrow(t, c)
          /\ \A u \in Thread : thr[u].ctx # c
      BY <2>1 DEF Register, Fresh
    <3> QED BY <3>1, TakeOrGrowInv
  <2>2. ASSUME NEW t \in Thread, Retry(t) PROVE HandleInv'
    <3>1. thr[t].pc = "retry" /\ lock = t /\ TakeOrGrow(t, thr[t].ctx)
      BY <2>2 DEF Retry
    <3>2. thr[t].ctx \in Context \cup {None} /\ thr[t].ctx # None
      <4>1. thr[t].ctx # None
        BY <3>1 DEF HandleInv, Owned, Busy
      <4>2. thr[t].ctx \in Context \cup {None}
        BY <2>0 DEF ThrRec
      <4> QED BY <4>1, <4>2
    <3>3. /\ handle[thr[t].ctx] = 0 /\ t \in Registrar
          /\ \A u \in Thread : u # t => thr[u].ctx # thr[t].ctx
      BY <3>2 DEF HandleInv, Owned
    <3>4. thr[t].ctx \in Context
      BY <3>2
    <3> QED BY <3>1, <3>3, <3>4, TakeOrGrowInv
  <2>3. ASSUME NEW t \in Thread, Grow(t) PROVE HandleInv'
    BY <2>3, GrowInv
  <2>4. ASSUME NEW t \in Thread, Assign(t) PROVE HandleInv'
    BY <2>4, AssignInv
  <2>5. ASSUME NEW t \in Thread, Scan(t) \/ RetireSeen(t) \/ RetireAll(t) PROVE HandleInv'
    BY <2>5, ScanInv
  <2>6. \A h \in Given : h \in Handle /\ h \in Nat
    BY <2>0 DEF Given, Handle
  <2>7. ASSUME NEW t \in Thread, NEW h \in Given, Retire(t, h) PROVE HandleInv'
    <3>1. skynet_handle_retire(h) /\ UNCHANGED <<handle_index, handle, lock, thr>>
      BY <2>7 DEF Retire
    <3>2. /\ slot' \in [0 .. slot_size - 1 -> Context \cup {None}] /\ DOMAIN slot' = DOMAIN slot
          /\ name' \in Seq(NameRec) /\ SortedNames'
      BY <2>0, <2>6, <3>1, RetireEffect
    <3> QED BY <3>1, <3>2, OtherInv
  <2>8. ASSUME NEW t \in Thread, NEW h \in Given, NEW x \in Name, NameHandle(t, x, h) PROVE HandleInv'
    <3>1. UNCHANGED <<slot, handle_index, handle, lock, thr>>
      BY <2>8 DEF NameHandle
    <3>2. name' \in Seq(NameRec) /\ SortedNames'
      BY <2>0, <2>6, <2>8, Inserted
    <3> QED BY <2>0, <3>1, <3>2, OtherInv
  <2>9. CASE UNCHANGED vars
    <3>1. SortedNames'
      BY <2>0, <2>9 DEF SortedNames, vars
    <3> QED BY <2>0, <2>9, <3>1, OtherInv DEF vars
  <2> QED BY <2>1, <2>2, <2>3, <2>4, <2>5, <2>7, <2>8, <2>9 DEF Next, Step
<1> QED BY <1>1, <1>2, PTL DEF Spec

\* skynet_handle_findname finds exactly the names that are there, for any
\* number of services and names and whatever was inserted and compacted.
THEOREM NamesFoundHolds == Spec => []NamesFound
<1>1. HandleInv => NamesFound
  <2> SUFFICES ASSUME HandleInv, NEW x \in Name
               PROVE  skynet_handle_findname(x) =
                        IF \E i \in DOMAIN name : name[i].name = x
                        THEN name[CHOOSE i \in DOMAIN name : name[i].name = x].handle ELSE 0
    BY DEF NamesFound, HandleInv, SortedNames
  <2>1. x \in Int /\ name \in Seq(NameRec) /\ SortedNames
    BY NameAssumption, TypeFacts DEF HandleInv
  <2>2. \A i \in DOMAIN name : i \in Int /\ name[i].name \in Int
    <3>1. \A i \in DOMAIN name : i \in Int /\ name[i] \in NameRec
      BY <2>1
    <3> QED BY <3>1, NameAssumption DEF NameRec
  <2> DEFINE s == Search(x)
  <2>3. \/ s.found = TRUE /\ s.at \in DOMAIN name /\ name[s.at].name = x
        \/ /\ s.found = FALSE /\ s.at \in 1 .. Len(name) + 1
           /\ \A i \in DOMAIN name : /\ i < s.at => name[i].name < x
                                     /\ i >= s.at => name[i].name > x
    BY <2>1, SearchRight
  <2>4. skynet_handle_findname(x) = IF s.found THEN name[s.at].handle ELSE 0
    BY DEF skynet_handle_findname
  <2> HIDE DEF s
  <2>5. CASE s.found = TRUE /\ s.at \in DOMAIN name /\ name[s.at].name = x
    <3> DEFINE k == CHOOSE i \in DOMAIN name : name[i].name = x
    <3>1. k \in DOMAIN name /\ name[k].name = x
      BY <2>5
    <3> HIDE DEF k
    <3>2. k = s.at
      <4>1. k < s.at \/ k = s.at \/ s.at < k
        BY <2>2, <2>5, <3>1
      <4>2. ~(k < s.at) /\ ~(s.at < k)
        BY <2>1, <2>2, <2>5, <3>1 DEF SortedNames
      <4> QED BY <4>1, <4>2
    <3> QED BY <2>4, <2>5, <3>2 DEF k
  <2>6. CASE /\ s.found = FALSE /\ s.at \in 1 .. Len(name) + 1
             /\ \A i \in DOMAIN name : /\ i < s.at => name[i].name < x
                                       /\ i >= s.at => name[i].name > x
    <3>1. s.at \in Int
      BY <2>1, <2>6
    <3>2. ~ \E i \in DOMAIN name : name[i].name = x
      BY <2>1, <2>2, <2>6, <3>1
    <3> QED BY <2>4, <2>6, <3>2
  <2> QED BY <2>3, <2>5, <2>6, Zenon
<1> QED BY <1>1, HandleInvariant, PTL

-----------------------------------------------------------------------------
(* Handles lead to their contexts.                                         *)

\* Steps that empty places at most, store no handle, and leave alone the
\* threads that have one to store.
LEMMA PlacedKept ==
  ASSUME Placed, slot_size' = slot_size, DOMAIN slot' = DOMAIN slot, UNCHANGED handle,
         \A i \in DOMAIN slot : slot'[i] = None \/ slot'[i] = slot[i],
         \A u \in Thread : thr[u].pc = "assign" => thr'[u] = thr[u]
  PROVE  Placed'
<1> SUFFICES ASSUME NEW i \in DOMAIN slot, slot'[i] # None PROVE Stands(i)'
  BY DEF Placed
<1>1. slot'[i] = slot[i] /\ Stands(i)
  BY DEF Placed
<1> HIDE DEF slot_size
<1> QED BY <1>1 DEF Stands

\* A place is taken, or the table is full.
LEMMA PlacedTake ==
  ASSUME HandleInv, Placed, NEW t \in Thread, NEW c \in Context,
         thr[t].pc # "assign", TakeOrGrow(t, c)
  PROVE  Placed'
<1>0. TypeOK /\ thr \in [Thread -> ThrRec] /\ slot \in [0 .. slot_size - 1 -> Context \cup {None}]
  BY TypeFacts DEF HandleInv
<1>1. CASE Free # {}
  <2> DEFINE i == CHOOSE i \in Free : \A j \in Free : i <= j
             h == Candidate[i]
             p == Hash(h, slot_size)
             r1 == [Idle EXCEPT !.pc = "assign"]
             r2 == [r1 EXCEPT !.ctx = c]
             r == [r2 EXCEPT !.h = h]
  <2>1. /\ slot' = [slot EXCEPT ![p] = c] /\ thr' = [thr EXCEPT ![t] = r] /\ UNCHANGED handle
    BY <1>1 DEF TakeOrGrow, Take
  <2>2. h \in 0 .. HandleMask /\ p \in DOMAIN slot
    BY <1>0, <1>1, TakenHandle DEF Handle
  <2> HIDE DEF h
  <2>3. r.pc = "assign" /\ r.ctx = c /\ r.h = h
    <3>2. r1 \in ThrRec /\ r1.pc = "assign"
      BY IdleFields DEF ThrRec
    <3> HIDE DEF r1
    <3>3. r2 \in ThrRec /\ r2.pc = "assign" /\ r2.ctx = c
      BY <3>2 DEF ThrRec
    <3> HIDE DEF r2
    <3> QED BY <2>2, <3>3 DEF ThrRec
  <2> HIDE DEF r, p
  <2>4. thr'[t] = r /\ \A u \in Thread : u # t => thr'[u] = thr[u]
    BY <1>0, <2>1
  <2>5. slot_size' = slot_size /\ DOMAIN slot' = DOMAIN slot
    BY <2>1 DEF slot_size
  <2>6. slot'[p] = c /\ \A j \in DOMAIN slot : j # p => slot'[j] = slot[j]
    BY <2>1, <2>2
  <2> HIDE DEF slot_size
  <2>7. ASSUME NEW j \in DOMAIN slot, slot'[j] # None PROVE Stands(j)'
    <3>1. CASE j = p
      <4>1. p = Hash(h, slot_size)
        BY DEF p
      <4>2. thr'[t].pc = "assign" /\ thr'[t].ctx = slot'[j] /\ j = Hash(thr'[t].h, slot_size')
        BY <2>3, <2>4, <2>5, <2>6, <3>1, <4>1
      <4> QED BY <4>2 DEF Stands
    <3>2. CASE j # p
      <4>1. slot'[j] = slot[j] /\ Stands(j)
        BY <2>6, <2>7, <3>2 DEF Placed
      <4>2. \A u \in Thread : thr[u].pc = "assign" => thr'[u] = thr[u]
        BY <2>4
      <4> QED BY <2>1, <2>5, <4>1, <4>2 DEF Stands
    <3> QED BY <3>1, <3>2
  <2> QED BY <2>5, <2>7 DEF Placed
<1>2. CASE Free = {}
  <2>1. /\ UNCHANGED <<slot, handle>>
        /\ \A u \in Thread : thr[u].pc = "assign" => thr'[u] = thr[u]
    BY <1>0, <1>2 DEF TakeOrGrow, Full
  <2>2. slot_size' = slot_size
    BY <2>1 DEF slot_size
  <2> QED BY <2>1, <2>2, PlacedKept
<1> QED BY <1>1, <1>2

\* Storing the handle changes nothing of where the context stands.
LEMMA PlacedAssign ==
  ASSUME HandleInv, Placed, NEW t \in Thread, Assign(t)
  PROVE  Placed'
<1>0. /\ thr \in [Thread -> ThrRec] /\ slot \in [0 .. slot_size - 1 -> Context \cup {None}]
      /\ handle \in [Context -> 0 .. HandleMask] /\ DOMAIN slot = 0 .. slot_size - 1
  BY TypeFacts DEF HandleInv
<1> DEFINE c == thr[t].ctx
           h == thr[t].h
<1>1. /\ thr[t].pc = "assign" /\ handle' = [handle EXCEPT ![c] = h]
      /\ thr' = [thr EXCEPT ![t] = Idle] /\ UNCHANGED slot
  BY DEF Assign
<1>2. c # None /\ handle[c] = 0 /\ h \in Handle /\ h # 0
  BY <1>1 DEF HandleInv, Owned, Busy, Handle
<1>3. slot_size' = slot_size
  BY <1>1 DEF slot_size
<1> HIDE DEF c, h, slot_size
<1> SUFFICES ASSUME NEW i \in DOMAIN slot, slot[i] # None PROVE Stands(i)'
  BY <1>1 DEF Placed
<1>4. Stands(i) /\ slot[i] \in Context
  BY <1>0 DEF Placed
<1>5. CASE slot[i] = c
  <2>1. PICK u \in Thread : /\ thr[u].pc = "assign" /\ thr[u].ctx = slot[i]
                            /\ i = Hash(thr[u].h, slot_size)
    BY <1>2, <1>4, <1>5 DEF Stands
  <2>2. u = t
    BY <1>2, <1>5, <2>1 DEF HandleInv, Owned, c
  <2>3. handle'[slot[i]] = h
    BY <1>0, <1>1, <1>4, <1>5
  <2>4. handle'[slot'[i]] # 0 /\ i = Hash(handle'[slot'[i]], slot_size')
    BY <1>1, <1>2, <1>3, <2>1, <2>2, <2>3 DEF h
  <2> QED BY <2>4 DEF Stands
<1>6. CASE slot[i] # c
  <2>1. handle'[slot[i]] = handle[slot[i]] /\ slot'[i] = slot[i]
    BY <1>0, <1>1, <1>4, <1>6
  <2>2. \A u \in Thread : thr[u].ctx = slot[i] => thr'[u] = thr[u]
    BY <1>0, <1>1, <1>6 DEF c
  <2> QED BY <1>3, <1>4, <2>1, <2>2 DEF Stands
<1> QED BY <1>5, <1>6

\* When no handle is waiting to be stored, everyone stands at the place of
\* the handle that is stored, and two contexts have two places in the table of
\* twice the size.
LEMMA NewPlaces ==
  ASSUME HandleInv, Placed, \A u \in Thread : thr[u].pc # "assign"
  PROVE  /\ \A i \in DOMAIN slot : slot[i] # None =>
               /\ slot[i] \in Context /\ handle[slot[i]] \in Handle
               /\ i = Hash(handle[slot[i]], slot_size)
         /\ \A i, j \in DOMAIN slot :
               slot[i] # None /\ slot[j] # None /\ NewPlace(i) = NewPlace(j) => i = j
<1>0. /\ slot_size \in Nat \ {0} /\ slot \in [0 .. slot_size - 1 -> Context \cup {None}]
      /\ handle \in [Context -> 0 .. HandleMask] /\ DOMAIN slot = 0 .. slot_size - 1
  BY TypeFacts DEF HandleInv
<1>1. ASSUME NEW i \in DOMAIN slot, slot[i] # None
      PROVE  /\ slot[i] \in Context /\ handle[slot[i]] \in Handle
             /\ i = Hash(handle[slot[i]], slot_size)
  <2>1. slot[i] \in Context /\ handle[slot[i]] # 0 /\ i = Hash(handle[slot[i]], slot_size)
    BY <1>0, <1>1 DEF Placed, Stands
  <2>2. handle[slot[i]] \in 0 .. HandleMask
    BY <1>0, <2>1
  <2>3. \A x \in 0 .. HandleMask : x # 0 => x \in Handle
    BY DEF Handle
  <2> QED BY <2>1, <2>2, <2>3
<1>2. ASSUME NEW i \in DOMAIN slot, NEW j \in DOMAIN slot, slot[i] # None, slot[j] # None,
             NewPlace(i) = NewPlace(j)
      PROVE  i = j
  <2> DEFINE a == handle[slot[i]]
             b == handle[slot[j]]
  <2>1. a \in Nat /\ b \in Nat /\ i = Hash(a, slot_size) /\ j = Hash(b, slot_size)
    BY <1>1, <1>2 DEF Handle
  <2>2. Hash(a, 2 * slot_size) = Hash(b, 2 * slot_size)
    BY <1>2 DEF NewPlace
  <2> HIDE DEF a, b, slot_size
  <2>3. Hash(a, slot_size) = Hash(b, slot_size)
    BY <1>0, <2>1, <2>2, HashHalf
  <2> QED BY <2>1, <2>3
<1> QED BY <1>1, <1>2

\* Doubling takes every context to its new place.
LEMMA Doubling ==
  ASSUME HandleInv, Placed, \A u \in Thread : thr[u].pc # "assign", NEW t \in Thread, Grow(t)
  PROVE  /\ \A i \in DOMAIN slot : slot[i] # None =>
               NewPlace(i) \in DOMAIN slot' /\ slot'[NewPlace(i)] = slot[i]
         /\ \A j \in DOMAIN slot' : slot'[j] # None =>
               \E i \in DOMAIN slot : slot[i] # None /\ NewPlace(i) = j /\ slot'[j] = slot[i]
<1>0. /\ slot_size \in Nat \ {0} /\ slot' = Rehash
  BY TypeFacts DEF HandleInv, Grow
<1> DEFINE from(j) == {i \in DOMAIN slot : slot[i] # None /\ NewPlace(i) = j}
<1>1. /\ DOMAIN slot' = 0 .. 2 * slot_size - 1
      /\ \A j \in 0 .. 2 * slot_size - 1 :
            slot'[j] = IF from(j) = {} THEN None ELSE slot[CHOOSE i \in from(j) : TRUE]
  BY <1>0 DEF Rehash
<1>2. ASSUME NEW i \in DOMAIN slot, slot[i] # None
      PROVE  NewPlace(i) \in DOMAIN slot' /\ slot'[NewPlace(i)] = slot[i]
  <2> DEFINE j == NewPlace(i)
             k == CHOOSE k \in from(j) : TRUE
  <2>1. handle[slot[i]] \in Nat /\ 2 * slot_size \in Nat \ {0}
    BY <1>0, <1>2, NewPlaces DEF Handle
  <2>2. j \in 0 .. 2 * slot_size - 1
    BY <2>1, HashIn DEF NewPlace
  <2>3. i \in from(j)
    BY <1>2
  <2>4. k \in from(j)
    BY <2>3
  <2> HIDE DEF k
  <2>5. k = i
    BY <1>2, <2>4, NewPlaces
  <2>6. slot'[j] = slot[k]
    BY <1>1, <2>2, <2>3 DEF k
  <2> QED BY <1>1, <2>2, <2>5, <2>6
<1>3. ASSUME NEW j \in DOMAIN slot', slot'[j] # None
      PROVE  \E i \in DOMAIN slot : slot[i] # None /\ NewPlace(i) = j /\ slot'[j] = slot[i]
  <2> DEFINE k == CHOOSE k \in from(j) : TRUE
  <2>1. from(j) # {} /\ slot'[j] = slot[k]
    BY <1>1, <1>3
  <2>2. k \in from(j)
    BY <2>1
  <2> HIDE DEF k
  <2> QED BY <2>1, <2>2
<1> QED BY <1>2, <1>3

\* So doubling keeps everyone in place.
LEMMA PlacedGrow ==
  ASSUME HandleInv, Placed, \A u \in Thread : thr[u].pc # "assign", NEW t \in Thread, Grow(t)
  PROVE  Placed'
<1>1. slot_size' = 2 * slot_size /\ UNCHANGED handle
  BY GrowInv DEF Grow
<1> SUFFICES ASSUME NEW j \in DOMAIN slot', slot'[j] # None PROVE Stands(j)'
  BY DEF Placed
<1>2. PICK i \in DOMAIN slot : slot[i] # None /\ NewPlace(i) = j /\ slot'[j] = slot[i]
  BY Doubling
<1>3. handle[slot[i]] # 0 /\ j = Hash(handle[slot[i]], 2 * slot_size)
  BY <1>2, NewPlaces DEF NewPlace, Handle
<1> HIDE DEF slot_size
<1> QED BY <1>1, <1>2, <1>3 DEF Stands

\* Every step keeps the contexts in their places, as long as the table is not
\* doubled while a handle is waiting to be stored.
LEMMA PlacedNext ==
  ASSUME HandleInv, Placed, NoRace, [Next]_vars
  PROVE  Placed'
<1>0. /\ TypeOK /\ SortedNames /\ thr \in [Thread -> ThrRec]
      /\ handle \in [Context -> 0 .. HandleMask]
  BY TypeFacts DEF HandleInv
<1>1. ASSUME NEW t \in Thread, NEW c \in Context, Register(t, c) PROVE Placed'
  <2>1. thr[t].pc # "assign" /\ TakeOrGrow(t, c)
    BY <1>1, IdleFields DEF Register
  <2> QED BY <2>1, PlacedTake
<1>2. ASSUME NEW t \in Thread, Retry(t) PROVE Placed'
  <2>1. thr[t].pc = "retry" /\ TakeOrGrow(t, thr[t].ctx)
    BY <1>2 DEF Retry
  <2>2. thr[t].ctx \in Context
    <3>1. thr[t].ctx # None
      BY <2>1 DEF HandleInv, Owned, Busy
    <3>2. thr[t].ctx \in Context \cup {None}
      BY <1>0 DEF ThrRec
    <3> QED BY <3>1, <3>2
  <2> QED BY <2>1, <2>2, PlacedTake
<1>3. ASSUME NEW t \in Thread, Grow(t) PROVE Placed'
  <2>1. \A u \in Thread : thr[u].pc # "assign"
    BY <1>3 DEF Grow, NoRace
  <2> QED BY <1>3, <2>1, PlacedGrow
<1>4. ASSUME NEW t \in Thread, Assign(t) PROVE Placed'
  BY <1>4, PlacedAssign
<1>5. ASSUME NEW t \in Thread, Scan(t) \/ RetireAll(t) PROVE Placed'
  <2>1. thr[t].pc # "assign" /\ UNCHANGED <<slot, handle>>
    BY <1>5, IdleFields DEF Scan, RetireAll
  <2>2. \A u \in Thread : u # t => thr'[u] = thr[u]
    BY <1>0, <1>5 DEF Scan, RetireAll
  <2>3. slot_size' = slot_size
    BY <2>1 DEF slot_size
  <2> QED BY <2>1, <2>2, <2>3, PlacedKept
<1>6. ASSUME NEW t \in Thread, RetireSeen(t) PROVE Placed'
  <2>1. thr[t].pc # "assign" /\ UNCHANGED handle
    BY <1>6 DEF RetireSeen
  <2>2. \A u \in Thread : u # t => thr'[u] = thr[u]
    BY <1>0, <1>6 DEF RetireSeen
  <2>3. /\ DOMAIN slot' = DOMAIN slot
        /\ \A i \in DOMAIN slot : slot'[i] = None \/ slot'[i] = slot[i]
    <3>1. CASE UNCHANGED <<slot, name>>
      BY <3>1
    <3>2. CASE skynet_handle_retire(thr[t].h)
      <4>1. thr[t].h \in Nat
        BY <1>0 DEF ThrRec
      <4> QED BY <1>0, <3>2, <4>1, RetireEffect
    <3> QED BY <1>6, <3>1, <3>2 DEF RetireSeen
  <2>4. slot_size' = slot_size
    BY <2>3 DEF slot_size
  <2> QED BY <2>1, <2>2, <2>3, <2>4, PlacedKept
<1>7. ASSUME NEW t \in Thread, NEW h \in Given, Retire(t, h) PROVE Placed'
  <2>1. skynet_handle_retire(h) /\ UNCHANGED <<handle, thr>>
    BY <1>7 DEF Retire
  <2>2. h \in Nat
    BY <1>0 DEF Given
  <2>3. /\ DOMAIN slot' = DOMAIN slot
        /\ \A i \in DOMAIN slot : slot'[i] = None \/ slot'[i] = slot[i]
    BY <1>0, <2>1, <2>2, RetireEffect
  <2>4. slot_size' = slot_size
    BY <2>3 DEF slot_size
  <2> QED BY <2>1, <2>3, <2>4, PlacedKept
<1>8. ASSUME UNCHANGED <<slot, handle, thr>> PROVE Placed'
  <2>1. slot_size' = slot_size
    BY <1>8 DEF slot_size
  <2> QED BY <1>8, <2>1, PlacedKept
<1>9. ASSUME NEW t \in Thread, NEW h \in Given, NEW x \in Name, NameHandle(t, x, h) PROVE Placed'
  BY <1>8, <1>9 DEF NameHandle
<1>10. CASE UNCHANGED vars
  BY <1>8, <1>10 DEF vars
<1> QED BY <1>1, <1>2, <1>3, <1>4, <1>5, <1>6, <1>7, <1>9, <1>10 DEF Next, Step

\* Placed is what Reachable says.
LEMMA PlacedReachable ==
  ASSUME HandleInv, Placed
  PROVE  Reachable
<1>0. TypeOK /\ DOMAIN slot = 0 .. slot_size - 1
  BY TypeFacts DEF HandleInv
<1> SUFFICES ASSUME NEW c \in Registered
             PROVE  HandleOf(c) # 0 /\ slot[Hash(HandleOf(c), slot_size)] = c
  BY <1>0 DEF Reachable
<1>1. PICK i \in DOMAIN slot : slot[i] = c /\ c # None
  BY DEF Registered
<1>2. Stands(i)
  BY <1>1 DEF Placed
<1> HIDE DEF slot_size
<1>3. CASE handle[c] # 0 /\ i = Hash(handle[c], slot_size)
  <2>1. ~ \E t \in Thread : thr[t].pc = "assign" /\ thr[t].ctx = c
    BY <1>1, <1>3 DEF HandleInv, Owned
  <2>2. HandleOf(c) = handle[c]
    BY <2>1 DEF HandleOf
  <2> QED BY <1>1, <1>3, <2>2
<1>4. ASSUME NEW t \in Thread, thr[t].pc = "assign", thr[t].ctx = c, i = Hash(thr[t].h, slot_size)
      PROVE  HandleOf(c) # 0 /\ slot[Hash(HandleOf(c), slot_size)] = c
  <2> DEFINE u == CHOOSE u \in Thread : thr[u].pc = "assign" /\ thr[u].ctx = c
  <2>1. u \in Thread /\ thr[u].pc = "assign" /\ thr[u].ctx = c
    BY <1>4
  <2>2. HandleOf(c) = thr[u].h
    BY <1>4 DEF HandleOf
  <2> HIDE DEF u
  <2>3. u = t
    BY <1>1, <1>4, <2>1 DEF HandleInv, Owned
  <2>4. thr[t].h # 0
    BY <1>4 DEF HandleInv, Owned, Handle
  <2> QED BY <1>1, <1>4, <2>2, <2>3, <2>4
<1> QED BY <1>1, <1>2, <1>3, <1>4 DEF Stands

\* At the start nobody is in the table.
LEMMA PlacedInit == Init => Placed
BY DEF Init, Placed

\* With one thread launching services, nobody doubles the table while a
\* handle is waiting to be stored.
LEMMA OneRegistrar ==
  ASSUME \A a, b \in Registrar : a = b, HandleInv
  PROVE  NoRace
BY DEF HandleInv, Owned, Busy, NoRace

\* As long as nobody doubles the table while another thread's handle is
\* waiting to be stored, every handle leads to its context, through every
\* doubling and every wrap of the index; the race is all that is in the way.
THEOREM ReachableUnlessRace == Spec /\ []NoRace => []Reachable
<1>1. Init => Placed
  BY PlacedInit
<1>2. HandleInv /\ Placed /\ NoRace /\ [Next]_vars => Placed'
  BY PlacedNext
<1>3. HandleInv /\ Placed => Reachable
  BY PlacedReachable
<1> QED BY <1>1, <1>2, <1>3, HandleInvariant, PTL DEF Spec

\* With one thread launching services every handle leads to its context.
THEOREM ReachableHolds ==
  ASSUME \A a, b \in Registrar : a = b
  PROVE  Spec => []Reachable
<1>1. HandleInv => NoRace
  BY OneRegistrar
<1> QED BY <1>1, HandleInvariant, ReachableUnlessRace, PTL

\* With one thread launching services the assertion in skynet_handle_register
\* holds: no two contexts fall into one place when the table doubles.
THEOREM RehashHolds ==
  ASSUME \A a, b \in Registrar : a = b
  PROVE  Spec => []RehashDistinct
<1>1. Init => Placed
  BY PlacedInit
<1>2. HandleInv /\ Placed /\ [Next]_vars => Placed'
  BY PlacedNext, OneRegistrar
<1>3. HandleInv /\ Placed => RehashDistinct
  <2> SUFFICES ASSUME HandleInv, Placed, NEW t \in Thread, thr[t].pc = "grow" PROVE RehashDistinct
    BY DEF RehashDistinct
  <2>1. \A u \in Thread : thr[u].pc # "assign"
    BY OneRegistrar DEF NoRace
  <2> QED BY <2>1, NewPlaces DEF RehashDistinct
<1> QED BY <1>1, <1>2, <1>3, HandleInvariant, PTL DEF Spec

-----------------------------------------------------------------------------
(* Names go with their service.                                            *)

\* What NamesFollow says of a step.
Follows ==
    \A h \in Given : IF skynet_handle_grab(h) # None /\ skynet_handle_grab(h)' = None
                     THEN NamesOf(h)' = {} ELSE NamesOf(h) \subseteq NamesOf(h)'

\* A step that loses no name and no service.
LEMMA NothingLost ==
  ASSUME \A i \in DOMAIN name : \E j \in DOMAIN name' : name'[j] = name[i],
         \A h \in Given : skynet_handle_grab(h) # None => skynet_handle_grab(h)' # None
  PROVE  Follows
<1>1. \A h \in Given : NamesOf(h) \subseteq NamesOf(h)'
  BY DEF NamesOf
<1> QED BY <1>1 DEF Follows

\* A service retired with its names.
LEMMA RetireFollows ==
  ASSUME HandleInv, NEW g \in Nat, skynet_handle_retire(g), UNCHANGED handle
  PROVE  Follows
<1>0. /\ TypeOK /\ slot_size \in Nat \ {0} /\ DOMAIN slot = 0 .. slot_size - 1 /\ name \in Seq(NameRec)
      /\ slot \in [0 .. slot_size - 1 -> Context \cup {None}] /\ SortedNames
      /\ handle \in [Context -> 0 .. HandleMask]
  BY TypeFacts DEF HandleInv
<1>1. CASE skynet_handle_grab(g) # None
  <2> DEFINE p == Hash(g, slot_size)
             w == WithoutNames(g)
  <2>1. slot' = [slot EXCEPT ![p] = None] /\ name' = w
    BY <1>1 DEF skynet_handle_retire
  <2>2. p \in DOMAIN slot
    BY <1>0, HashIn
  <2>3. slot[p] # None /\ handle[slot[p]] = g
    BY <1>1 DEF skynet_handle_grab
  <2>4. /\ \A i \in DOMAIN w : w[i].handle # g
        /\ \A j \in DOMAIN name : name[j].handle # g => \E i \in DOMAIN w : w[i] = name[j]
    BY <1>0, Compacted
  <2> HIDE DEF w
  <2>5. slot_size' = slot_size
    BY <2>1 DEF slot_size
  <2> SUFFICES ASSUME NEW h \in Given
               PROVE  IF skynet_handle_grab(h) # None /\ skynet_handle_grab(h)' = None
                      THEN NamesOf(h)' = {} ELSE NamesOf(h) \subseteq NamesOf(h)'
    BY DEF Follows
  <2>6. CASE h = g
    <3>1. NamesOf(h)' = {}
      BY <2>1, <2>4, <2>6 DEF NamesOf
    <3>2. skynet_handle_grab(h) # None
      BY <1>1, <2>6
    <3>3. skynet_handle_grab(h)' = None
      <4>1. slot'[Hash(h, slot_size')] = None
        BY <2>1, <2>2, <2>5, <2>6
      <4> QED BY <4>1 DEF skynet_handle_grab
    <3> QED BY <3>1, <3>2, <3>3
  <2>7. CASE h # g
    <3>1. NamesOf(h) \subseteq NamesOf(h)'
      BY <2>1, <2>4, <2>7 DEF NamesOf
    <3>2. skynet_handle_grab(h) # None => skynet_handle_grab(h)' # None
      <4> DEFINE q == Hash(h, slot_size)
      <4> SUFFICES ASSUME skynet_handle_grab(h) # None PROVE skynet_handle_grab(h)' # None
        OBVIOUS
      <4>1. slot[q] # None /\ handle[slot[q]] = h
        BY DEF skynet_handle_grab
      <4>2. q # p
        BY <2>3, <2>7, <4>1
      <4>3. slot'[q] = slot[q]
        BY <1>0, <2>1, <4>2
      <4> HIDE DEF slot_size
      <4> QED BY <2>5, <4>1, <4>3 DEF skynet_handle_grab
    <3> QED BY <3>1, <3>2
  <2> QED BY <2>6, <2>7
<1>2. CASE ~(skynet_handle_grab(g) # None)
  <2>1. UNCHANGED <<slot, name>>
    BY <1>2 DEF skynet_handle_retire
  <2>2. \A h \in Given : skynet_handle_grab(h)' = skynet_handle_grab(h)
    BY <2>1 DEF skynet_handle_grab, slot_size
  <2> QED BY <2>1, <2>2, NothingLost
<1> QED BY <1>1, <1>2

\* skynet_handle_register loses nobody.
LEMMA TakeFollows ==
  ASSUME HandleInv, NEW t \in Thread, NEW c \in Context, TakeOrGrow(t, c)
  PROVE  Follows
<1>0. /\ TypeOK /\ slot \in [0 .. slot_size - 1 -> Context \cup {None}]
  BY TypeFacts DEF HandleInv
<1>1. UNCHANGED <<name, handle>>
  BY DEF TakeOrGrow, Take, Full
<1>2. /\ DOMAIN slot' = DOMAIN slot
      /\ \A i \in DOMAIN slot : slot[i] # None => slot'[i] = slot[i]
  <2>1. CASE Free # {}
    <3> DEFINE i == CHOOSE i \in Free : \A j \in Free : i <= j
               p == Hash(Candidate[i], slot_size)
    <3>1. slot' = [slot EXCEPT ![p] = c]
      BY <2>1 DEF TakeOrGrow, Take
    <3>2. slot[p] = None
      BY <1>0, <2>1, TakenHandle
    <3> HIDE DEF p
    <3> QED BY <3>1, <3>2
  <2>2. CASE Free = {}
    BY <2>2 DEF TakeOrGrow, Full
  <2> QED BY <2>1, <2>2
<1>3. slot_size' = slot_size
  BY <1>2 DEF slot_size
<1>4. ASSUME NEW h \in Given, skynet_handle_grab(h) # None PROVE skynet_handle_grab(h)' # None
  <2> DEFINE q == Hash(h, slot_size)
  <2>1. slot[q] # None /\ handle[slot[q]] = h
    BY <1>4 DEF skynet_handle_grab
  <2>2. q \in DOMAIN slot
    <3>1. h \in Nat /\ slot_size \in Nat \ {0} /\ DOMAIN slot = 0 .. slot_size - 1
      BY <1>0, TypeFacts DEF Given
    <3> QED BY <3>1, HashIn
  <2>3. slot'[q] = slot[q]
    BY <1>2, <2>1, <2>2
  <2> HIDE DEF slot_size
  <2> QED BY <1>1, <1>3, <2>1, <2>3 DEF skynet_handle_grab
<1> QED BY <1>1, <1>4, NothingLost

\* Neither does doubling, unless a handle is waiting to be stored.
LEMMA GrowFollows ==
  ASSUME HandleInv, Placed, \A u \in Thread : thr[u].pc # "assign", NEW t \in Thread, Grow(t)
  PROVE  Follows
<1>0. /\ slot_size \in Nat \ {0} /\ DOMAIN slot = 0 .. slot_size - 1 /\ handle \in [Context -> 0 .. HandleMask]
  BY TypeFacts DEF HandleInv
<1>1. slot_size' = 2 * slot_size /\ UNCHANGED <<handle, name>>
  BY GrowInv DEF Grow
<1>2. ASSUME NEW h \in Given, skynet_handle_grab(h) # None PROVE skynet_handle_grab(h)' # None
  <2> DEFINE q == Hash(h, slot_size)
  <2>1. slot[q] # None /\ handle[slot[q]] = h
    BY <1>2 DEF skynet_handle_grab
  <2>2. q \in DOMAIN slot
    <3>1. h \in Nat
      BY <1>0 DEF Given
    <3> QED BY <1>0, <3>1, HashIn
  <2>3. NewPlace(q) = Hash(h, 2 * slot_size)
    BY <2>1 DEF NewPlace
  <2>4. slot'[NewPlace(q)] = slot[q]
    BY <2>1, <2>2, Doubling
  <2>5. slot'[Hash(h, slot_size')] = slot[q]
    BY <1>1, <2>3, <2>4
  <2> HIDE DEF slot_size, q
  <2> QED BY <1>1, <2>1, <2>5 DEF skynet_handle_grab
<1> QED BY <1>1, <1>2, NothingLost

\* With one thread launching services: a service that is retired takes its
\* names with it, and nothing else takes a name away.
THEOREM NamesFollowHolds ==
  ASSUME \A a, b \in Registrar : a = b
  PROVE  Spec => NamesFollow
<1>1. Init => Placed
  BY PlacedInit
<1>2. HandleInv /\ Placed /\ [Next]_vars => Placed'
  BY PlacedNext, OneRegistrar
<1>3. HandleInv /\ Placed /\ [Next]_vars => [Follows]_vars
  <2> SUFFICES ASSUME HandleInv, Placed, Next PROVE Follows
    OBVIOUS
  <2>0. /\ TypeOK /\ SortedNames /\ thr \in [Thread -> ThrRec] /\ name \in Seq(NameRec)
        /\ handle \in [Context -> 0 .. HandleMask] /\ NoRace
        /\ slot \in [0 .. slot_size - 1 -> Context \cup {None}]
    BY TypeFacts, OneRegistrar DEF HandleInv
  <2>1. ASSUME NEW t \in Thread, NEW c \in Context, Register(t, c) PROVE Follows
    BY <2>1, TakeFollows DEF Register
  <2>2. ASSUME NEW t \in Thread, Retry(t) PROVE Follows
    <3>1. thr[t].pc = "retry" /\ TakeOrGrow(t, thr[t].ctx)
      BY <2>2 DEF Retry
    <3>2. thr[t].ctx \in Context
      <4>1. thr[t].ctx # None
        BY <3>1 DEF HandleInv, Owned, Busy
      <4>2. thr[t].ctx \in Context \cup {None}
        BY <2>0 DEF ThrRec
      <4> QED BY <4>1, <4>2
    <3> QED BY <3>1, <3>2, TakeFollows
  <2>3. ASSUME NEW t \in Thread, Grow(t) PROVE Follows
    <3>1. \A u \in Thread : thr[u].pc # "assign"
      BY <2>0, <2>3 DEF Grow, NoRace
    <3> QED BY <2>3, <3>1, GrowFollows
  <2>4. ASSUME NEW t \in Thread, Assign(t) PROVE Follows
    <3>1. /\ thr[t].pc = "assign" /\ handle' = [handle EXCEPT ![thr[t].ctx] = thr[t].h]
          /\ UNCHANGED <<slot, name>>
      BY <2>4 DEF Assign
    <3>2. thr[t].ctx # None /\ handle[thr[t].ctx] = 0
      BY <3>1 DEF HandleInv, Owned, Busy
    <3>3. slot_size' = slot_size
      BY <3>1 DEF slot_size
    <3>4. ASSUME NEW h \in Given, skynet_handle_grab(h) # None PROVE skynet_handle_grab(h)' # None
      <4> DEFINE c == slot[Hash(h, slot_size)]
      <4>1. c # None /\ handle[c] = h /\ h # 0
        BY <3>4 DEF skynet_handle_grab, Given
      <4>2. c # thr[t].ctx
        BY <3>2, <4>1
      <4>3. c \in Context
        <5>1. h \in Nat /\ slot_size \in Nat \ {0}
          BY <2>0, TypeFacts DEF Given
        <5>2. Hash(h, slot_size) \in 0 .. slot_size - 1
          BY <5>1, HashIn
        <5> QED BY <2>0, <4>1, <5>2
      <4>4. handle'[c] = h
        BY <2>0, <3>1, <4>1, <4>2, <4>3
      <4>5. slot'[Hash(h, slot_size')] = c
        BY <3>1, <3>3
      <4> HIDE DEF c, slot_size
      <4> QED BY <4>1, <4>4, <4>5 DEF skynet_handle_grab
    <3> QED BY <3>1, <3>4, NothingLost
  <2>5. ASSUME UNCHANGED <<slot, handle>>,
               \A i \in DOMAIN name : \E j \in DOMAIN name' : name'[j] = name[i]
        PROVE  Follows
    <3>1. \A h \in Given : skynet_handle_grab(h)' = skynet_handle_grab(h)
      BY <2>5 DEF skynet_handle_grab, slot_size
    <3> QED BY <2>5, <3>1, NothingLost
  <2>6. ASSUME NEW t \in Thread, Scan(t) \/ RetireAll(t) PROVE Follows
    <3>1. UNCHANGED <<slot, handle, name>>
      BY <2>6 DEF Scan, RetireAll
    <3> QED BY <2>5, <3>1
  <2>7. ASSUME NEW t \in Thread, RetireSeen(t) PROVE Follows
    <3>1. UNCHANGED handle /\ (UNCHANGED <<slot, name>> \/ skynet_handle_retire(thr[t].h))
      BY <2>7 DEF RetireSeen
    <3>2. thr[t].h \in Nat
      BY <2>0 DEF ThrRec
    <3>3. CASE UNCHANGED <<slot, name>>
      BY <2>5, <3>1, <3>3
    <3>4. CASE skynet_handle_retire(thr[t].h)
      BY <3>1, <3>2, <3>4, RetireFollows
    <3> QED BY <3>1, <3>3, <3>4
  <2>8. \A h \in Given : h \in Handle /\ h \in Nat
    BY <2>0 DEF Given, Handle
  <2>9. ASSUME NEW t \in Thread, NEW h \in Given, Retire(t, h) PROVE Follows
    BY <2>8, <2>9, RetireFollows DEF Retire
  <2>10. ASSUME NEW t \in Thread, NEW h \in Given, NEW x \in Name, NameHandle(t, x, h) PROVE Follows
    <3>1. \A i \in DOMAIN name : \E j \in DOMAIN name' : name'[j] = name[i]
      BY <2>0, <2>8, <2>10, Inserted
    <3>2. UNCHANGED <<slot, handle>>
      BY <2>10 DEF NameHandle
    <3> QED BY <2>5, <3>1, <3>2
  <2> QED BY <2>1, <2>2, <2>3, <2>4, <2>6, <2>7, <2>9, <2>10 DEF Next, Step
<1>4. [Follows]_vars <=> [\A h \in Given :
          IF skynet_handle_grab(h) # None /\ skynet_handle_grab(h)' = None
          THEN NamesOf(h)' = {}
          ELSE NamesOf(h) \subseteq NamesOf(h)']_vars
  BY DEF Follows
<1> QED BY <1>1, <1>2, <1>3, <1>4, HandleInvariant, PTL DEF Spec, NamesFollow
=============================================================================
