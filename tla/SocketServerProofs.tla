------------------------ MODULE SocketServerProofs ------------------------
(***************************************************************************)
(* Proofs about the socket server, for any number of workers, packages and *)
(* connections: first the invariant of a connection and its closing, then  *)
(* the packages sent to it.                                                *)
(***************************************************************************)
EXTENDS SocketServer, FiniteSetTheorems, TLAPS

(* Buffers: sequences of bytes, cut at the bounds of packages              *)

\* Each byte has the rest of its package behind it, and as much of what
\* comes before it in the package as the buffer reaches back.
Cut(b) ==
    \A i \in DOMAIN b, n \in 1 .. Size :
        i - b[i][2] + n >= 1 => /\ i - b[i][2] + n <= Len(b)
                                /\ b[i - b[i][2] + n] = <<b[i][1], n>>

\* The buffer begins with the first byte of a package.
Fresh(b) == b # <<>> => b[1][2] = 1

\* What a buffer is made of
LEMMA BufferBytes ==
    ASSUME NEW b \in Buffer
    PROVE  /\ Len(b) \in Nat /\ DOMAIN b = 1 .. Len(b)
           /\ \A i \in 1 .. Len(b) :
                 b[i] \in Package \X (1 .. Size) /\ b[i] = <<b[i][1], b[i][2]>>
                 /\ b[i][1] \in Package /\ b[i][2] \in 1 .. Size
           /\ b # <<>> <=> Len(b) > 0
           /\ In(b) \subseteq Package
  BY SizeAssumption DEF Buffer, In

\* The empty buffer
LEMMA EmptyBuffer == <<>> \in Buffer /\ Cut(<<>>) /\ Fresh(<<>>) /\ In(<<>>) = {}
  BY DEF Buffer, Cut, Fresh, In

\* The bytes of a package (send_object_init_from_sendbuffer) are a buffer of their own.
LEMMA BytesBuffer ==
    ASSUME NEW p \in Package
    PROVE  /\ Bytes(p) \in Buffer /\ Len(Bytes(p)) = Size
           /\ \A i \in 1 .. Size : Bytes(p)[i] = <<p, i>>
           /\ Cut(Bytes(p)) /\ Fresh(Bytes(p))
  <1>1. Bytes(p) \in [1 .. Size -> Package \X (1 .. Size)]
    BY DEF Bytes
  <1>2. Bytes(p) \in Buffer /\ Len(Bytes(p)) = Size
    BY <1>1, SizeAssumption DEF Buffer
  <1>3. \A i \in 1 .. Size : Bytes(p)[i] = <<p, i>>
    BY DEF Bytes
  <1>4. DOMAIN Bytes(p) = 1 .. Size
    BY DEF Bytes
  <1>5. Cut(Bytes(p))
    BY <1>2, <1>3, <1>4, SizeAssumption DEF Cut
  <1>6. Fresh(Bytes(p))
    BY <1>3, SizeAssumption DEF Fresh
  <1> QED BY <1>2, <1>3, <1>5, <1>6

\* A slice of a buffer
LEMMA SliceBuffer ==
    ASSUME NEW b \in Buffer, NEW m \in Nat, NEW n \in Nat, m <= n, n <= Len(b)
    PROVE  /\ SubSeq(b, m + 1, n) \in Buffer
           /\ Len(SubSeq(b, m + 1, n)) = n - m
           /\ DOMAIN SubSeq(b, m + 1, n) = 1 .. (n - m)
           /\ \A i \in 1 .. (n - m) : SubSeq(b, m + 1, n)[i] = b[m + i]
  BY BufferBytes DEF Buffer

\* A buffer appended to another (append_sendbuffer)
LEMMA ConcatBuffer ==
    ASSUME NEW a \in Buffer, NEW b \in Buffer
    PROVE  /\ a \o b \in Buffer
           /\ Len(a \o b) = Len(a) + Len(b)
           /\ DOMAIN (a \o b) = 1 .. (Len(a) + Len(b))
           /\ \A i \in 1 .. Len(a) : (a \o b)[i] = a[i]
           /\ \A i \in 1 .. Len(b) : (a \o b)[Len(a) + i] = b[i]
  BY BufferBytes DEF Buffer

\* What is left of a cut buffer, from any byte on, is cut.
LEMMA CutSuffix ==
    ASSUME NEW b \in Buffer, Cut(b), NEW k \in 0 .. Len(b)
    PROVE  Cut(SubSeq(b, k + 1, Len(b)))
  <1> DEFINE d == SubSeq(b, k + 1, Len(b))
  <1>1. Len(b) \in Nat /\ DOMAIN b = 1 .. Len(b)
    BY BufferBytes
  <1>2. /\ Len(d) = Len(b) - k /\ DOMAIN d = 1 .. (Len(b) - k)
        /\ \A i \in 1 .. (Len(b) - k) : d[i] = b[k + i]
    <2>1. k \in Nat /\ k <= Len(b) /\ Len(b) <= Len(b)
      BY <1>1
    <2> QED BY <1>1, <2>1, SliceBuffer
  <1>3. \A i \in 1 .. Len(b) : b[i][2] \in 1 .. Size
    BY BufferBytes
  <1> HIDE DEF d
  <1>4. ASSUME NEW i \in DOMAIN d, NEW n \in 1 .. Size, i - d[i][2] + n >= 1
        PROVE  /\ i - d[i][2] + n <= Len(d)
               /\ d[i - d[i][2] + n] = <<d[i][1], n>>
    <2>1. /\ d[i] = b[k + i] /\ k + i \in DOMAIN b /\ b[k + i][2] \in 1 .. Size
          /\ i \in Nat /\ i <= Len(b) - k
      BY <1>1, <1>2, <1>3
    <2>2. PICK c \in 1 .. Size : c = b[k + i][2]
      BY <2>1
    <2>3. PICK j \in Nat : j = k + i
      BY <2>1, <1>1
    <2> i \in Nat /\ k \in Nat /\ Len(b) \in Nat /\ c \in Nat /\ n \in Nat
      BY <2>1, <1>1, SizeAssumption
    <2>8. i - c + n >= 1
      BY <1>4, <2>1, <2>2
    <2>4. i - c + n >= 1 /\ j - c + n >= 1
      BY <2>3, <2>8
    <2>5. j - c + n <= Len(b) /\ b[j - c + n] = <<b[j][1], n>>
      BY <2>1, <2>2, <2>3, <2>4 DEF Cut
    <2>6. PICK x \in 1 .. (Len(b) - k) : x = i - c + n /\ k + x = j - c + n
      BY <2>3, <2>4, <2>5
    <2>7. d[x] = b[k + x] /\ d[x] = <<d[i][1], n>>
      BY <2>1, <2>3, <2>5, <2>6, <1>2
    <2> QED BY <2>1, <2>2, <2>6, <2>7, <1>1, <1>2
  <1> QED BY <1>4 DEF Cut, d

\* In a cut buffer that begins with a package nothing reaches back too far.
LEMMA FreshAligned ==
    ASSUME NEW b \in Buffer, Cut(b), Fresh(b), NEW i \in DOMAIN b
    PROVE  b[i][2] <= i
  <1>1. /\ Len(b) \in Nat /\ i \in 1 .. Len(b) /\ b[i][2] \in 1 .. Size
        /\ b[1][2] = 1 /\ 1 \in DOMAIN b
    BY BufferBytes DEF Fresh
  <1>2. CASE i > Size
    BY <1>1, <1>2, SizeAssumption
  <1>3. CASE i <= Size
    <2>1. 1 - b[1][2] + i >= 1 /\ 1 - b[1][2] + i = i /\ i \in 1 .. Size
      BY <1>1, <1>3, SizeAssumption
    <2>2. b[i] = <<b[1][1], i>>
      BY <1>1, <2>1 DEF Cut
    <2> QED BY <2>2, <1>1
  <1> QED BY <1>1, <1>2, <1>3, SizeAssumption

\* What begins with a package may be appended to what ends with one.
LEMMA CutConcat ==
    ASSUME NEW a \in Buffer, NEW b \in Buffer, Cut(a), Cut(b), Fresh(b)
    PROVE  Cut(a \o b)
  <1> DEFINE d == a \o b
             l == Len(a)
             m == Len(b)
  <1>1. /\ l \in Nat /\ m \in Nat /\ Len(d) = l + m /\ DOMAIN d = 1 .. (l + m)
        /\ \A i \in 1 .. l : d[i] = a[i]
        /\ \A i \in 1 .. m : d[l + i] = b[i]
    BY BufferBytes, ConcatBuffer
  <1>2. /\ \A i \in 1 .. l : a[i][2] \in 1 .. Size /\ i \in DOMAIN a
        /\ \A i \in 1 .. m : b[i][2] \in 1 .. Size /\ i \in DOMAIN b
    BY BufferBytes
  <1>3. \A i \in 1 .. m : b[i][2] <= i
    BY <1>2, FreshAligned
  <1> HIDE DEF d
  <1>4. ASSUME NEW i \in DOMAIN d, NEW n \in 1 .. Size, i - d[i][2] + n >= 1
        PROVE  /\ i - d[i][2] + n <= Len(d)
               /\ d[i - d[i][2] + n] = <<d[i][1], n>>
    <2>1. CASE i <= l
      <3>1. i \in 1 .. l /\ d[i] = a[i] /\ i \in DOMAIN a /\ a[i][2] \in 1 .. Size
        BY <1>1, <1>2, <2>1
      <3>2. i - a[i][2] + n <= l /\ a[i - a[i][2] + n] = <<a[i][1], n>>
        BY <3>1, <1>4 DEF Cut
      <3>3. i - a[i][2] + n \in 1 .. l
        BY <3>1, <3>2, <1>4, <1>1, SizeAssumption
      <3> QED BY <3>1, <3>2, <3>3, <1>1
    <2>2. CASE i > l
      <3> DEFINE j == i - l
      <3>1. j \in 1 .. m /\ i = l + j
        BY <1>1, <2>2
      <3> HIDE DEF j
      <3>2. d[i] = b[j] /\ j \in DOMAIN b /\ b[j][2] \in 1 .. Size /\ b[j][2] <= j
        BY <3>1, <1>1, <1>2, <1>3
      <3>3. PICK c \in 1 .. Size : c = b[j][2]
        BY <3>2
      <3>8. c \in Nat /\ j \in Nat /\ n \in Nat /\ n >= 1 /\ c <= j /\ l \in Nat /\ m \in Nat
        BY <3>1, <3>2, <3>3, <1>1, SizeAssumption
      <3>4. j - c + n >= 1
        BY <3>8
      <3>5. j - c + n <= m /\ b[j - c + n] = <<b[j][1], n>>
        BY <3>2, <3>3, <3>4 DEF Cut
      <3>6. PICK x \in 1 .. m : x = j - c + n /\ l + x = i - c + n
        <4>1. j - c + n \in 1 .. m /\ l + (j - c + n) = (l + j) - c + n
          BY <3>4, <3>5, <3>8
        <4> QED BY <3>1, <4>1
      <3>7. d[l + x] = b[x] /\ b[x] = <<b[j][1], n>> /\ l + x <= Len(d)
        <4>1. l + x <= l + m
          BY <3>8
        <4> QED BY <3>5, <3>6, <1>1, <4>1
      <3> QED BY <3>2, <3>3, <3>6, <3>7
    <2> QED BY <2>1, <2>2, <1>1
  <1> QED BY <1>4 DEF Cut, d

\* raise_uncomplete takes the rest of a package from the head of a list, no
\* more and no less.
LEMMA RestCut ==
    ASSUME NEW b \in Buffer, Cut(b)
    PROVE  /\ Rest(b) \in 0 .. Len(b)
           /\ SubSeq(b, 1, Rest(b)) \in Buffer
           /\ SubSeq(b, Rest(b) + 1, Len(b)) \in Buffer
           /\ Cut(SubSeq(b, 1, Rest(b)))
           /\ Cut(SubSeq(b, Rest(b) + 1, Len(b)))
           /\ Fresh(SubSeq(b, Rest(b) + 1, Len(b)))
  <1> DEFINE r == Rest(b)
             c == b[1][2]
             h == SubSeq(b, 1, r)
             t == SubSeq(b, r + 1, Len(b))
  <1>1. /\ Len(b) \in Nat /\ DOMAIN b = 1 .. Len(b) /\ (b # <<>> <=> Len(b) > 0)
        /\ \A i \in 1 .. Len(b) : b[i][2] \in 1 .. Size /\ b[i] = <<b[i][1], b[i][2]>>
    BY BufferBytes
  <1>2. CASE ~list_uncomplete(b)
    <2>1. r = 0
      BY <1>2 DEF Rest
    <2>2. h = <<>> /\ t = b
      BY <2>1, <1>1 DEF Buffer
    <2>3. Fresh(b)
      BY <1>2 DEF list_uncomplete, Fresh
    <2> HIDE DEF r
    <2>4. r \in 0 .. Len(b)
      BY <2>1, <1>1
    <2> QED BY <2>2, <2>3, <2>4, EmptyBuffer DEF r
  <1>3. CASE list_uncomplete(b)
    <2>1. b # <<>> /\ c # 1 /\ r = Size - c + 1 /\ 1 \in DOMAIN b /\ c \in 1 .. Size
      BY <1>1, <1>3 DEF Rest, list_uncomplete
    <2> HIDE DEF r
    <2>2. r \in 1 .. Size /\ 1 - c + Size >= 1 /\ Size \in 1 .. Size /\ r = 1 - c + Size
      BY <2>1, SizeAssumption
    <2>3. r <= Len(b) /\ b[r] = <<b[1][1], Size>>
      BY <2>1, <2>2 DEF Cut
    <2>4. r \in 0 .. Len(b) /\ r \in Nat
      BY <2>2, <2>3, <1>1
    <2>5. /\ h \in Buffer /\ Len(h) = r /\ DOMAIN h = 1 .. r
          /\ \A i \in 1 .. r : h[i] = b[i]
      BY <2>4, <1>1 DEF Buffer
    <2>10. /\ t \in Buffer /\ Len(t) = Len(b) - r
           /\ \A i \in 1 .. (Len(b) - r) : t[i] = b[r + i]
      <3>1. r <= Len(b) /\ Len(b) <= Len(b)
        BY <2>4, <1>1
      <3> QED BY <2>4, <1>1, <3>1, SliceBuffer
    <2>6. Cut(t)
      BY <2>4, CutSuffix
    <2>7. \A i \in 1 .. r : b[i] = <<b[1][1], c + i - 1>>
      <3> SUFFICES ASSUME NEW i \in 1 .. r PROVE b[i] = <<b[1][1], c + i - 1>>
        OBVIOUS
      <3>1. c + i - 1 \in 1 .. Size /\ 1 - c + (c + i - 1) = i /\ i >= 1
        BY <2>1, <2>2, SizeAssumption
      <3> QED BY <3>1, <2>1 DEF Cut
    <2>8. Cut(h)
      <3>1. /\ Len(h) = r /\ DOMAIN h = 1 .. r /\ \A i \in 1 .. r : h[i] = b[i]
        BY <2>5
      <3> HIDE DEF h
      <3>2. ASSUME NEW i \in DOMAIN h, NEW n \in 1 .. Size, i - h[i][2] + n >= 1
            PROVE  /\ i - h[i][2] + n <= Len(h)
                   /\ h[i - h[i][2] + n] = <<h[i][1], n>>
        <4>1. i \in 1 .. r /\ h[i] = <<b[1][1], c + i - 1>>
          BY <3>1, <2>7
        <4>2. h[i][2] = c + i - 1 /\ h[i][1] = b[1][1]
          BY <4>1
        <4> DEFINE j == i - h[i][2] + n
        <4>3. j \in 1 .. r /\ c + j - 1 = n
          BY <3>2, <4>1, <4>2, <2>1, <2>2, SizeAssumption
        <4> HIDE DEF j
        <4>4. h[j] = <<b[1][1], c + j - 1>>
          BY <4>3, <3>1, <2>7
        <4> QED BY <4>2, <4>3, <4>4, <3>1 DEF j
      <3> QED BY <3>2 DEF Cut
    <2>9. Fresh(t)
      <3> SUFFICES ASSUME t # <<>> PROVE t[1][2] = 1
        BY DEF Fresh
      <3> HIDE DEF t
      <3>1. Len(t) > 0
        BY <2>10, BufferBytes
      <3>2. t[1] = b[r + 1] /\ r + 1 \in DOMAIN b /\ b[r + 1][2] \in 1 .. Size
        BY <3>1, <1>1, <2>4, <2>10
      <3>3. PICK x \in 1 .. Size : x = b[r + 1][2]
        BY <3>2
      <3>4. SUFFICES ASSUME x > 1 PROVE FALSE
        BY <3>2, <3>3, SizeAssumption
      <3>5. PICK y \in 1 .. Size : y = x - 1 /\ (r + 1) - x + y = r
        <4>1. x \in Nat /\ x - 1 \in 1 .. Size /\ r \in Nat
          BY <3>4, <2>4, SizeAssumption
        <4>2. (r + 1) - x + (x - 1) = r
          BY <4>1
        <4> QED BY <4>1, <4>2
      <3>6. (r + 1) - x + y >= 1
        BY <3>5, <2>2
      <3>7. b[(r + 1) - x + y] = <<b[r + 1][1], y>>
        BY <3>2, <3>3, <3>6 DEF Cut
      <3>8. b[r] = <<b[r + 1][1], y>>
        BY <3>7, <3>5
      <3> QED BY <3>8, <2>3, <3>5, SizeAssumption
    <2> QED BY <2>4, <2>5, <2>6, <2>8, <2>9, <2>10 DEF r
  <1> QED BY <1>2, <1>3

-----------------------------------------------------------------------------
(* The slot                                                                *)

\* struct socket, the counter of packages on their way as yet unbounded
\* from below
SlotRec ==
    [id : 0 .. MaxId, type : Type, protocol : {"UNKNOWN", "TCP"},
     tag : 0 .. MaxId, sending : Int, closing : BOOLEAN,
     reading : BOOLEAN, writing : BOOLEAN, high : Buffer,
     low : Buffer, dw : Buffer, lock : Worker \union {None}]

\* Two states of the slot differ in their buffers at most.
SameBut(s, t) ==
    /\ t.id = s.id /\ t.type = s.type /\ t.protocol = s.protocol
    /\ t.tag = s.tag /\ t.sending = s.sending /\ t.closing = s.closing
    /\ t.reading = s.reading /\ t.writing = s.writing /\ t.lock = s.lock

\* The types of the fields of struct socket
LEMMA SlotFields ==
    ASSUME NEW s \in SlotRec
    PROVE  /\ s.id \in 0 .. MaxId /\ s.type \in Type
           /\ s.protocol \in {"UNKNOWN", "TCP"} /\ s.tag \in 0 .. MaxId
           /\ s.sending \in Int /\ s.closing \in BOOLEAN
           /\ s.reading \in BOOLEAN /\ s.writing \in BOOLEAN
           /\ s.high \in Buffer /\ s.low \in Buffer /\ s.dw \in Buffer
           /\ s.lock \in Worker \union {None}
  BY DEF SlotRec

\* Other buffers change no other field.
LEMMA WithBuffersFields ==
    ASSUME NEW s \in SlotRec, NEW h \in Buffer, NEW l \in Buffer, NEW d \in Buffer
    PROVE  /\ WithBuffers(s, h, l, d) \in SlotRec
           /\ WithBuffers(s, h, l, d).high = h
           /\ WithBuffers(s, h, l, d).low = l
           /\ WithBuffers(s, h, l, d).dw = d
           /\ SameBut(s, WithBuffers(s, h, l, d))
  <1> DEFINE t == [s EXCEPT !.high = h]
             u == [t EXCEPT !.low = l]
             v == [u EXCEPT !.dw = d]
  <1>1. t \in SlotRec /\ t.high = h /\ SameBut(s, t)
    BY DEF SlotRec, SameBut
  <1> HIDE DEF t
  <1>2. u \in SlotRec /\ u.low = l /\ u.high = t.high /\ SameBut(t, u)
    BY <1>1 DEF SlotRec, SameBut
  <1> HIDE DEF u
  <1>3. v \in SlotRec /\ v.dw = d /\ v.low = u.low /\ v.high = u.high /\ SameBut(u, v)
    BY <1>2 DEF SlotRec, SameBut
  <1> HIDE DEF v
  <1>4. v = WithBuffers(s, h, l, d)
    BY DEF t, u, v, WithBuffers
  <1>5. SameBut(s, v)
    BY <1>1, <1>2, <1>3 DEF SameBut
  <1> QED BY <1>1, <1>2, <1>3, <1>4, <1>5

\* Two states of the slot with the same buffers, lock and counter
SameStore(s, t) ==
    /\ t.high = s.high /\ t.low = s.low /\ t.dw = s.dw /\ t.lock = s.lock
    /\ t.sending = s.sending

\* The slot after force_close: no buffers, type INVALID, the rest as it was
LEMMA ClosedFields ==
    ASSUME NEW s \in SlotRec
    PROVE  /\ Closed(s) \in SlotRec /\ Closed(s).type = "INVALID"
           /\ Closed(s).high = <<>> /\ Closed(s).low = <<>> /\ Closed(s).dw = <<>>
           /\ Closed(s).id = s.id /\ Closed(s).protocol = s.protocol
           /\ Closed(s).tag = s.tag /\ Closed(s).sending = s.sending
           /\ Closed(s).closing = s.closing /\ Closed(s).lock = s.lock
  <1> DEFINE t == WithBuffers(s, <<>>, <<>>, <<>>)
  <1>1. /\ t \in SlotRec /\ t.high = <<>> /\ t.low = <<>> /\ t.dw = <<>>
        /\ SameBut(s, t)
    BY WithBuffersFields, EmptyBuffer
  <1> HIDE DEF t
  <1>2. "INVALID" \in Type
    BY DEF Type
  <1>3. Closed(s) = [t EXCEPT !.type = "INVALID"]
    BY DEF Closed, t
  <1> QED BY <1>1, <1>2, <1>3 DEF SameBut, SlotRec

\* The slot after close_read
LEMMA ClosedReadFields ==
    ASSUME NEW s \in SlotRec
    PROVE  /\ ClosedRead(s) \in SlotRec /\ ClosedRead(s).type = "HALFCLOSE_READ"
           /\ SameStore(s, ClosedRead(s))
           /\ ClosedRead(s).id = s.id /\ ClosedRead(s).protocol = s.protocol
           /\ ClosedRead(s).tag = s.tag /\ ClosedRead(s).closing = s.closing
  <1> DEFINE t == [s EXCEPT !.type = "HALFCLOSE_READ"]
             u == [t EXCEPT !.reading = FALSE]
  <1>1. "HALFCLOSE_READ" \in Type
    BY DEF Type
  <1>2. /\ t \in SlotRec /\ t.type = "HALFCLOSE_READ" /\ SameStore(s, t)
        /\ t.id = s.id /\ t.protocol = s.protocol /\ t.tag = s.tag
        /\ t.closing = s.closing
    BY <1>1 DEF SlotRec, SameStore
  <1> HIDE DEF t
  <1>3. /\ u \in SlotRec /\ u.type = t.type /\ SameStore(t, u)
        /\ u.id = t.id /\ u.protocol = t.protocol /\ u.tag = t.tag
        /\ u.closing = t.closing
    BY <1>2 DEF SlotRec, SameStore
  <1> HIDE DEF u
  <1>4. u = ClosedRead(s)
    BY DEF t, u, ClosedRead
  <1> QED BY <1>2, <1>3, <1>4 DEF SameStore

\* The slot after new_fd
LEMMA NewFdFields ==
    ASSUME slot \in SlotRec, NEW id \in Id, NEW reading \in BOOLEAN, NEW type \in Type
    PROVE  LET t == NewFd(id, reading, type)
           IN  /\ t \in SlotRec /\ t.id = id /\ t.type = type /\ t.protocol = "TCP"
               /\ t.tag = id /\ t.sending = 0 /\ t.closing = FALSE
               /\ t.high = slot.high /\ t.low = slot.low /\ t.dw = <<>>
               /\ t.lock = slot.lock
  <1> DEFINE a == [slot EXCEPT !.id = id]
             b == [a EXCEPT !.type = type]
             c == [b EXCEPT !.protocol = "TCP"]
             d == [c EXCEPT !.tag = id]
             e == [d EXCEPT !.sending = 0]
             f == [e EXCEPT !.closing = FALSE]
             g == [f EXCEPT !.reading = reading]
             h == [g EXCEPT !.writing = FALSE]
             t == [h EXCEPT !.dw = <<>>]
             Same(x, y) == x.high = y.high /\ x.low = y.low /\ x.lock = y.lock
  <1>0. id \in 0 .. MaxId /\ <<>> \in Buffer
    BY BoundAssumption, EmptyBuffer DEF Id
  <1>1. a \in SlotRec /\ a.id = id /\ Same(slot, a)
    BY <1>0 DEF SlotRec
  <1> HIDE DEF a
  <1>2. b \in SlotRec /\ b.id = a.id /\ b.type = type /\ Same(a, b)
    BY <1>1 DEF SlotRec
  <1> HIDE DEF b
  <1>3. c \in SlotRec /\ c.id = b.id /\ c.type = b.type /\ c.protocol = "TCP" /\ Same(b, c)
    BY <1>2 DEF SlotRec
  <1> HIDE DEF c
  <1>4. /\ d \in SlotRec /\ d.id = c.id /\ d.type = c.type /\ d.protocol = c.protocol
        /\ d.tag = id /\ Same(c, d)
    BY <1>3, <1>0 DEF SlotRec
  <1> HIDE DEF d
  <1>5. /\ e \in SlotRec /\ e.id = d.id /\ e.type = d.type /\ e.protocol = d.protocol
        /\ e.tag = d.tag /\ e.sending = 0 /\ Same(d, e)
    BY <1>4 DEF SlotRec
  <1> HIDE DEF e
  <1>6. /\ f \in SlotRec /\ f.id = e.id /\ f.type = e.type /\ f.protocol = e.protocol
        /\ f.tag = e.tag /\ f.sending = e.sending /\ f.closing = FALSE /\ Same(e, f)
    BY <1>5 DEF SlotRec
  <1> HIDE DEF f
  <1>7. /\ g \in SlotRec /\ g.id = f.id /\ g.type = f.type /\ g.protocol = f.protocol
        /\ g.tag = f.tag /\ g.sending = f.sending /\ g.closing = f.closing /\ Same(f, g)
    BY <1>6 DEF SlotRec
  <1> HIDE DEF g
  <1>8. /\ h \in SlotRec /\ h.id = g.id /\ h.type = g.type /\ h.protocol = g.protocol
        /\ h.tag = g.tag /\ h.sending = g.sending /\ h.closing = g.closing /\ Same(g, h)
    BY <1>7 DEF SlotRec
  <1> HIDE DEF h
  <1>9. /\ t \in SlotRec /\ t.id = h.id /\ t.type = h.type /\ t.protocol = h.protocol
        /\ t.tag = h.tag /\ t.sending = h.sending /\ t.closing = h.closing
        /\ t.dw = <<>> /\ Same(h, t)
    BY <1>8, <1>0 DEF SlotRec
  <1> HIDE DEF t
  <1>10. t = NewFd(id, reading, type)
    BY DEF a, b, c, d, e, f, g, h, t, NewFd
  <1> QED BY <1>1, <1>2, <1>3, <1>4, <1>5, <1>6, <1>7, <1>8, <1>9, <1>10

\* send_buffer_ leaves cut lists, and no package begun in the low list.
LEMMA WroteLists ==
    ASSUME NEW hi \in Buffer, NEW lo \in Buffer, Cut(hi), Cut(lo), Fresh(lo),
           NEW n \in Nat, n <= Len(hi \o lo)
    PROVE  LET high == SubSeq(hi, n + 1, Len(hi))
               k == IF n > Len(hi) THEN n - Len(hi) ELSE 0
               low == SubSeq(lo, k + 1, Len(lo))
               first == high \o SubSeq(low, 1, Rest(low))
               tail == SubSeq(low, Rest(low) + 1, Len(low))
           IN  first \in Buffer /\ Cut(first) /\ tail \in Buffer /\ Cut(tail) /\ Fresh(tail)
  <1> DEFINE high == SubSeq(hi, n + 1, Len(hi))
             k == IF n > Len(hi) THEN n - Len(hi) ELSE 0
             low == SubSeq(lo, k + 1, Len(lo))
             rest == Rest(low)
             head == SubSeq(low, 1, rest)
             tail == SubSeq(low, rest + 1, Len(low))
  <1>2. Len(hi) \in Nat /\ Len(lo) \in Nat /\ k \in 0 .. Len(lo) /\ k \in Nat
    <2>1. Len(hi) \in Nat /\ Len(lo) \in Nat
      BY BufferBytes
    <2>2. n <= Len(hi) + Len(lo)
      BY ConcatBuffer
    <2> QED BY <2>1, <2>2
  <1>3. high \in Buffer /\ Cut(high)
    <2>1. CASE n <= Len(hi)
      <3>1. n \in 0 .. Len(hi) /\ Len(hi) <= Len(hi)
        BY <2>1, <1>2
      <3> QED BY <3>1, <2>1, <1>2, SliceBuffer, CutSuffix
    <2>2. CASE n > Len(hi)
      <3>1. high = <<>>
        BY <2>2, <1>2 DEF Buffer
      <3> QED BY <3>1, EmptyBuffer
    <2> QED BY <2>1, <2>2, <1>2
  <1> HIDE DEF k
  <1>4. low \in Buffer /\ Cut(low)
    <2>1. k <= Len(lo) /\ Len(lo) <= Len(lo)
      BY <1>2
    <2> QED BY <2>1, <1>2, SliceBuffer, CutSuffix
  <1>5. high # <<>> => head = <<>>
    <2> SUFFICES ASSUME high # <<>> PROVE rest = 0
      BY <1>4 DEF Buffer
    <2>1. n <= Len(hi)
      <3> SUFFICES ASSUME n > Len(hi) PROVE FALSE
        BY <1>2
      <3> QED BY <1>2 DEF Buffer
    <2>2. k = 0
      BY <2>1, <1>2 DEF k
    <2>3. low = lo
      BY <2>2 DEF Buffer
    <2> QED BY <2>3 DEF Rest, list_uncomplete, Fresh
  <1> HIDE DEF high, low
  <1>6. /\ head \in Buffer /\ tail \in Buffer
        /\ Cut(head) /\ Cut(tail) /\ Fresh(tail)
    BY <1>4, RestCut
  <1> HIDE DEF head, tail
  <1>7. high \o head \in Buffer /\ Cut(high \o head)
    <2>1. CASE high = <<>>
      <3>1. high \o head = head
        BY <2>1, <1>6 DEF Buffer
      <3> QED BY <3>1, <1>6
    <2>2. CASE high # <<>>
      <3>1. high \o head = high
        BY <2>2, <1>3, <1>5 DEF Buffer
      <3> QED BY <3>1, <1>3
    <2> QED BY <2>1, <2>2
  <1> QED BY <1>6, <1>7 DEF high, k, low, head, tail

\* The slot after send_buffer_ wrote some bytes: still whole packages in the
\* low list
LEMMA WroteFields ==
    ASSUME NEW s \in SlotRec, Cut(s.high), Cut(s.low), Fresh(s.low),
           NEW n \in Nat, n <= Len(s.high \o s.low)
    PROVE  LET t == Wrote(s, n)
           IN  /\ t \in SlotRec /\ SameBut(s, t) /\ t.dw = s.dw
               /\ Cut(t.high) /\ Cut(t.low) /\ Fresh(t.low)
  <1> DEFINE high == SubSeq(s.high, n + 1, Len(s.high))
             k == IF n > Len(s.high) THEN n - Len(s.high) ELSE 0
             low == SubSeq(s.low, k + 1, Len(s.low))
             first == high \o SubSeq(low, 1, Rest(low))
             tail == SubSeq(low, Rest(low) + 1, Len(low))
             t == WithBuffers(s, first, tail, s.dw)
  <1>1. s.high \in Buffer /\ s.low \in Buffer /\ s.dw \in Buffer
    BY SlotFields
  <1>2. first \in Buffer /\ Cut(first) /\ tail \in Buffer /\ Cut(tail) /\ Fresh(tail)
    BY <1>1, WroteLists, Zenon
  <1>3. t = Wrote(s, n)
    BY Zenon DEF Wrote
  <1> HIDE DEF first, tail
  <1>4. /\ t \in SlotRec /\ t.high = first /\ t.low = tail /\ t.dw = s.dw
        /\ SameBut(s, t)
    <2>1. t \in SlotRec /\ SameBut(s, t)
      BY <1>1, <1>2, WithBuffersFields
    <2>2. t.high = first
      BY <1>1, <1>2, WithBuffersFields
    <2>3. t.low = tail
      BY <1>1, <1>2, WithBuffersFields
    <2>4. t.dw = s.dw
      BY DEF WithBuffers, SlotRec
    <2> QED BY <2>1, <2>2, <2>3, <2>4
  <1> HIDE DEF t
  <1> QED BY <1>2, <1>3, <1>4

\* Two states of the slot that hold the same connection
SameConn(s, t) ==
    /\ t.id = s.id /\ t.type = s.type /\ t.protocol = s.protocol
    /\ t.tag = s.tag /\ t.closing = s.closing
SameLists(s, t) == t.high = s.high /\ t.low = s.low /\ t.dw = s.dw

\* What setting one field of the slot does
LEMMA SetField ==
    ASSUME NEW s \in SlotRec
    PROVE  /\ \A x \in Worker \union {None} : LET t == [s EXCEPT !.lock = x] IN
                 /\ t \in SlotRec /\ t.lock = x /\ SameConn(s, t) /\ SameLists(s, t)
                 /\ t.sending = s.sending
           /\ \A x \in Int : LET t == [s EXCEPT !.sending = x] IN
                 /\ t \in SlotRec /\ t.sending = x /\ SameConn(s, t) /\ SameLists(s, t)
                 /\ t.lock = s.lock
           /\ \A x \in BOOLEAN : LET t == [s EXCEPT !.reading = x] IN
                 t \in SlotRec /\ SameConn(s, t) /\ SameStore(s, t)
           /\ \A x \in BOOLEAN : LET t == [s EXCEPT !.writing = x] IN
                 t \in SlotRec /\ SameConn(s, t) /\ SameStore(s, t)
           /\ \A x \in Type : LET t == [s EXCEPT !.type = x] IN
                 /\ t \in SlotRec /\ t.type = x /\ SameStore(s, t) /\ t.id = s.id
                 /\ t.protocol = s.protocol /\ t.tag = s.tag /\ t.closing = s.closing
           /\ \A x \in BOOLEAN : LET t == [s EXCEPT !.closing = x] IN
                 /\ t \in SlotRec /\ t.closing = x /\ SameStore(s, t) /\ t.id = s.id
                 /\ t.protocol = s.protocol /\ t.tag = s.tag /\ t.type = s.type
           /\ \A x \in Buffer : LET t == [s EXCEPT !.high = x] IN
                 /\ t \in SlotRec /\ SameConn(s, t) /\ t.high = x /\ t.low = s.low
                 /\ t.dw = s.dw /\ t.lock = s.lock /\ t.sending = s.sending
           /\ \A x \in Buffer : LET t == [s EXCEPT !.low = x] IN
                 /\ t \in SlotRec /\ SameConn(s, t) /\ t.high = s.high /\ t.low = x
                 /\ t.dw = s.dw /\ t.lock = s.lock /\ t.sending = s.sending
           /\ \A x \in Buffer : LET t == [s EXCEPT !.dw = x] IN
                 /\ t \in SlotRec /\ SameConn(s, t) /\ t.high = s.high /\ t.low = s.low
                 /\ t.dw = x /\ t.lock = s.lock /\ t.sending = s.sending
  <1>1. \A x \in Worker \union {None} : LET t == [s EXCEPT !.lock = x] IN
          /\ t \in SlotRec /\ t.lock = x /\ SameConn(s, t) /\ SameLists(s, t)
          /\ t.sending = s.sending
    BY DEF SlotRec, SameConn, SameLists
  <1>2. \A x \in Int : LET t == [s EXCEPT !.sending = x] IN
          /\ t \in SlotRec /\ t.sending = x /\ SameConn(s, t) /\ SameLists(s, t)
          /\ t.lock = s.lock
    BY DEF SlotRec, SameConn, SameLists
  <1>3. \A x \in BOOLEAN : LET t == [s EXCEPT !.reading = x] IN
          t \in SlotRec /\ SameConn(s, t) /\ SameStore(s, t)
    BY DEF SlotRec, SameConn, SameStore
  <1>4. \A x \in BOOLEAN : LET t == [s EXCEPT !.writing = x] IN
          t \in SlotRec /\ SameConn(s, t) /\ SameStore(s, t)
    BY DEF SlotRec, SameConn, SameStore
  <1>5. \A x \in Type : LET t == [s EXCEPT !.type = x] IN
          /\ t \in SlotRec /\ t.type = x /\ SameStore(s, t) /\ t.id = s.id
          /\ t.protocol = s.protocol /\ t.tag = s.tag /\ t.closing = s.closing
    BY DEF SlotRec, SameStore
  <1>6. \A x \in BOOLEAN : LET t == [s EXCEPT !.closing = x] IN
          /\ t \in SlotRec /\ t.closing = x /\ SameStore(s, t) /\ t.id = s.id
          /\ t.protocol = s.protocol /\ t.tag = s.tag /\ t.type = s.type
    BY DEF SlotRec, SameStore
  <1>7. \A x \in Buffer : LET t == [s EXCEPT !.high = x] IN
          /\ t \in SlotRec /\ SameConn(s, t) /\ t.high = x /\ t.low = s.low
          /\ t.dw = s.dw /\ t.lock = s.lock /\ t.sending = s.sending
    BY DEF SlotRec, SameConn
  <1>8. \A x \in Buffer : LET t == [s EXCEPT !.low = x] IN
          /\ t \in SlotRec /\ SameConn(s, t) /\ t.high = s.high /\ t.low = x
          /\ t.dw = s.dw /\ t.lock = s.lock /\ t.sending = s.sending
    BY DEF SlotRec, SameConn
  <1>9. \A x \in Buffer : LET t == [s EXCEPT !.dw = x] IN
          /\ t \in SlotRec /\ SameConn(s, t) /\ t.high = s.high /\ t.low = s.low
          /\ t.dw = x /\ t.lock = s.lock /\ t.sending = s.sending
    BY DEF SlotRec, SameConn
  <1> QED BY <1>1, <1>2, <1>3, <1>4, <1>5, <1>6, <1>7, <1>8, <1>9

\* reserve_id
LEMMA ReservedFields ==
    ASSUME slot \in SlotRec, slot.id < MaxId
    PROVE  LET t == [slot EXCEPT !.type = "RESERVE", !.id = @ + 1,
                                 !.protocol = "UNKNOWN"]
           IN  /\ t \in SlotRec /\ t.type = "RESERVE" /\ t.id = slot.id + 1
               /\ t.protocol = "UNKNOWN" /\ t.tag = slot.tag
               /\ t.closing = slot.closing /\ SameStore(slot, t)
  <1> DEFINE a == [slot EXCEPT !.type = "RESERVE"]
             b == [a EXCEPT !.id = @ + 1]
             c == [b EXCEPT !.protocol = "UNKNOWN"]
  <1>1. slot.id + 1 \in 0 .. MaxId /\ "RESERVE" \in Type
    BY SlotFields, BoundAssumption DEF Type
  <1>2. /\ a \in SlotRec /\ a.type = "RESERVE" /\ SameStore(slot, a) /\ a.id = slot.id
        /\ a.tag = slot.tag /\ a.closing = slot.closing
    BY <1>1, SetField
  <1> HIDE DEF a
  <1>3. /\ b \in SlotRec /\ b.type = a.type /\ SameStore(a, b) /\ b.id = slot.id + 1
        /\ b.tag = a.tag /\ b.closing = a.closing
    BY <1>1, <1>2 DEF SlotRec, SameStore
  <1> HIDE DEF b
  <1>4. /\ c \in SlotRec /\ c.type = b.type /\ SameStore(b, c) /\ c.id = b.id
        /\ c.tag = b.tag /\ c.closing = b.closing /\ c.protocol = "UNKNOWN"
    BY <1>1, <1>3 DEF SlotRec, SameStore
  <1> HIDE DEF c
  <1>5. c = [slot EXCEPT !.type = "RESERVE", !.id = @ + 1, !.protocol = "UNKNOWN"]
    BY DEF a, b, c
  <1>6. SameStore(slot, c)
    BY <1>2, <1>3, <1>4 DEF SameStore
  <1> QED BY <1>2, <1>3, <1>4, <1>5, <1>6

\* The slot after a direct write
LEMMA DirectFields ==
    ASSUME slot \in SlotRec, NEW d \in Buffer
    PROVE  LET t == [slot EXCEPT !.dw = d, !.lock = None]
           IN  /\ t \in SlotRec /\ SameConn(slot, t) /\ t.dw = d /\ t.lock = None
               /\ t.high = slot.high /\ t.low = slot.low /\ t.sending = slot.sending
  <1> DEFINE a == [slot EXCEPT !.dw = d]
             b == [a EXCEPT !.lock = None]
  <1>1. /\ a \in SlotRec /\ SameConn(slot, a) /\ a.dw = d /\ a.high = slot.high
        /\ a.low = slot.low /\ a.sending = slot.sending
    BY SetField
  <1> HIDE DEF a
  <1>2. /\ b \in SlotRec /\ SameConn(a, b) /\ SameLists(a, b) /\ b.lock = None
        /\ b.sending = a.sending
    BY <1>1, SetField
  <1> HIDE DEF b
  <1>3. b = [slot EXCEPT !.dw = d, !.lock = None]
    BY DEF a, b
  <1> QED BY <1>1, <1>2, <1>3 DEF SameConn, SameLists

\* The slot after resume_socket
LEMMA ResumedFields ==
    ASSUME slot \in SlotRec
    PROVE  LET t == [slot EXCEPT !.reading = TRUE,
                                 !.type = IF @ = "PACCEPT" THEN "CONNECTED" ELSE @]
           IN  /\ t \in SlotRec /\ SameStore(slot, t) /\ t.id = slot.id
               /\ t.protocol = slot.protocol /\ t.tag = slot.tag
               /\ t.closing = slot.closing
               /\ t.type = IF slot.type = "PACCEPT" THEN "CONNECTED" ELSE slot.type
  <1> DEFINE type == IF slot.type = "PACCEPT" THEN "CONNECTED" ELSE slot.type
             a == [slot EXCEPT !.reading = TRUE]
             b == [a EXCEPT !.type = type]
  <1>1. type \in Type
    BY SlotFields DEF Type
  <1> HIDE DEF type
  <1>2. a \in SlotRec /\ SameConn(slot, a) /\ SameStore(slot, a)
    BY SetField
  <1> HIDE DEF a
  <1>3. /\ b \in SlotRec /\ b.type = type /\ SameStore(a, b) /\ b.id = a.id
        /\ b.protocol = a.protocol /\ b.tag = a.tag /\ b.closing = a.closing
    BY <1>1, <1>2, SetField
  <1> HIDE DEF b
  <1>4. b = [slot EXCEPT !.reading = TRUE,
                         !.type = IF @ = "PACCEPT" THEN "CONNECTED" ELSE @]
    BY DEF a, b, type
  <1> QED BY <1>2, <1>3, <1>4 DEF SameConn, SameStore, type

\* The slot after send_socket appended to the high list
LEMMA ListedFields ==
    ASSUME slot \in SlotRec, NEW h \in Buffer, NEW x \in BOOLEAN
    PROVE  LET t == [slot EXCEPT !.high = h, !.writing = @ \/ x]
           IN  /\ t \in SlotRec /\ SameConn(slot, t) /\ t.high = h
               /\ t.low = slot.low /\ t.dw = slot.dw /\ t.lock = slot.lock
               /\ t.sending = slot.sending
  <1> DEFINE a == [slot EXCEPT !.high = h]
             b == [a EXCEPT !.writing = slot.writing \/ x]
  <1>1. /\ a \in SlotRec /\ SameConn(slot, a) /\ a.high = h /\ a.low = slot.low
        /\ a.dw = slot.dw /\ a.lock = slot.lock /\ a.sending = slot.sending
    BY SetField
  <1> HIDE DEF a
  <1>2. (slot.writing \/ x) \in BOOLEAN
    BY SlotFields
  <1>3. b \in SlotRec /\ SameConn(a, b) /\ SameStore(a, b)
    BY <1>1, <1>2, SetField
  <1> HIDE DEF b
  <1>4. b = [slot EXCEPT !.high = h, !.writing = @ \/ x]
    BY DEF a, b
  <1> QED BY <1>1, <1>3, <1>4 DEF SameConn, SameStore

-----------------------------------------------------------------------------
(* The inductive invariant of the connection                               *)

Stage == {"idle", "try", "trylock", "lists", "flags", "unlock", "wake", "inc", "queue"}
CallRec == [at : Stage, pk : 0 .. NPackage, id : 0 .. MaxId, prio : {"high", "low"}]
ReqRec == [cmd : {"O", "K", "shutdown", "R", "S", "W", "D", "P"}, id : Id,
           pk : 0 .. NPackage]
ThRec == [at : {"ctrl", "event", "close", "dec"}, msg : {None, "CLOSE", "ERR"},
          back : {None, "ctrl", "event"}, id : 0 .. MaxId]
EvRec == [read : BOOLEAN, write : BOOLEAN, error : BOOLEAN, eof : BOOLEAN]
PeerRec == [fin : BOOLEAN, rst : {"ok", "reset", "dead"}, got : Buffer]
FromRec == [by : Worker, id : Id, prio : {"high", "low"}]

Types ==
    /\ slot \in SlotRec /\ slot.sending <= MaxSending
    /\ pipe \in Seq(ReqRec) /\ th \in ThRec /\ ev \in EvRec /\ peer \in PeerRec
    /\ call \in [Worker -> CallRec]
    /\ from \in Seq(FromRec) /\ Len(from) <= NPackage
    /\ freed \subseteq Package /\ done \subseteq Package /\ told \subseteq Id
    /\ closes \in [Id -> Nat] /\ ctl \in Nat

\* The request carries a package.
Carries(r) == r.cmd \in {"D", "P"}

\* At most one request opens a connection, and it is the one the slot is
\* reserved for; every other is for a connection that was announced.
Pipes ==
    /\ \A i \in DOMAIN pipe :
          /\ pipe[i].cmd = "O" => pipe[i].id = slot.id /\ slot.type = "RESERVE"
          /\ pipe[i].cmd # "O" => pipe[i].id \in told
          /\ Carries(pipe[i]) => pipe[i].pk \in Package
    /\ \A i, j \in DOMAIN pipe : pipe[i].cmd = "O" /\ pipe[j].cmd = "O" => i = j

\* A call and a package are for a connection that was announced.
Calls == \A w \in Worker : call[w].at # "idle" =>
            call[w].id \in told /\ call[w].pk \in Package
Sents == /\ \A p \in DOMAIN from : from[p].id \in told
         /\ th.at = "dec" => th.id \in told

\* The id of the slot is the last one given; a connection is announced once
\* it is made.
Conn ==
    /\ told \subseteq 1 .. slot.id
    /\ slot.type \in {"RESERVE", "CONNECTING"} => slot.id \notin told /\ slot.id \in Id
    /\ slot.type \notin {"INVALID", "RESERVE", "CONNECTING"} => slot.id \in told
    /\ HasFd \/ slot.id \in told => slot.protocol = "TCP"
    /\ slot.protocol = "TCP" => slot.tag = slot.id
    /\ ev # NoEvent => slot.type # "RESERVE"

\* The lock of the direct write is held by the worker that is between
\* socket_trylock and socket_unlock, and while it is held the connection
\* stays and nobody else leaves a rest in dw_buffer.
HasLock(w) == call[w].at \in {"lists", "flags", "unlock"}
Locking ==
    /\ \A w \in Worker : HasLock(w) <=> slot.lock = w
    /\ slot.lock # None => HasFd
    /\ \A w \in Worker : call[w].at = "flags" => slot.id = call[w].id
    /\ \A w \in Worker : call[w].at \in {"lists", "flags"} => slot.dw = <<>>

\* SOCKET_CLOSE was raised for the connections of the past, and for the one
\* of the slot if it can no longer be read; a close that waits for the lock
\* raises it if that was not done before.
Closing ==
    /\ \A i \in Id \ told : closes[i] = 0
    /\ \A i \in told : i # slot.id => closes[i] = 1
    /\ slot.id \in told =>
          closes[slot.id] = IF slot.type \in {"INVALID", "HALFCLOSE_READ"} THEN 1 ELSE 0
    /\ th.at = "close" => /\ HasFd /\ th.back \in {"ctrl", "event"}
                          /\ slot.type = "CONNECTING" <=> th.msg = "ERR"
                          /\ slot.type = "HALFCLOSE_READ" <=> th.msg = None
    /\ HasFd /\ slot.closing => slot.type = "HALFCLOSE_READ"

\* The buffers of the connection are cut at packages, and the high list
\* begins with a package where a rest may be put before it.
Buffers ==
    /\ ~HasFd => slot.high = <<>> /\ slot.low = <<>> /\ slot.dw = <<>>
    /\ Cut(slot.high) /\ Cut(slot.low) /\ Cut(slot.dw) /\ Fresh(slot.low)
    /\ slot.dw # <<>> => Fresh(slot.high)
    /\ \A w \in Worker : call[w].at = "flags" => Fresh(slot.high)

Base == /\ Types /\ Pipes /\ Calls /\ Sents /\ Conn
        /\ Locking /\ Closing /\ Buffers

\* The socket server starts in the invariant.
LEMMA BaseInit == Init => Base
  <1> SUFFICES ASSUME Init PROVE Base
    OBVIOUS
  <1>1. /\ slot = [id |-> 0, type |-> "INVALID", protocol |-> "UNKNOWN", tag |-> 0,
                   sending |-> 0, closing |-> FALSE, reading |-> FALSE,
                   writing |-> FALSE, high |-> <<>>, low |-> <<>>, dw |-> <<>>,
                   lock |-> None]
        /\ pipe = <<>> /\ th = Ctrl /\ ev = NoEvent /\ peer = NewPeer
        /\ call = [w \in Worker |-> Idle]
        /\ from = <<>> /\ freed = {} /\ done = {}
        /\ told = {} /\ closes = [i \in Id |-> 0] /\ ctl = 0
    BY DEF Init
  <1>2. slot \in SlotRec /\ slot.sending <= MaxSending
    <2>1. <<>> \in Buffer /\ 0 \in 0 .. MaxId /\ "INVALID" \in Type
      BY EmptyBuffer, BoundAssumption DEF Type
    <2> QED BY <1>1, <2>1, SendingAssumption DEF SlotRec
  <1>3. slot.id = 0 /\ slot.type = "INVALID" /\ slot.protocol = "UNKNOWN"
        /\ slot.high = <<>> /\ slot.low = <<>> /\ slot.dw = <<>> /\ slot.lock = None
    BY <1>1
  <1>4. th \in ThRec /\ ev \in EvRec /\ th.at = "ctrl"
    BY <1>1, BoundAssumption DEF Ctrl, Doing, ThRec, NoEvent, EvRec
  <1>5. peer \in PeerRec
    BY <1>1, EmptyBuffer DEF NewPeer, PeerRec
  <1>6. call \in [Worker -> CallRec] /\ \A w \in Worker : call[w].at = "idle"
    BY <1>1, BoundAssumption, SizeAssumption DEF Idle, CallRec, Stage
  <1>7. Types
    BY <1>1, <1>2, <1>4, <1>5, <1>6, SizeAssumption DEF Types
  <1>8. Pipes /\ Calls /\ Sents
    BY <1>1, <1>4, <1>6 DEF Pipes, Calls, Sents
  <1>9. Conn
    BY <1>1, <1>3 DEF Conn, HasFd
  <1>10. Locking
    BY <1>3, <1>6, LockAssumption DEF Locking, HasLock
  <1>11. Closing
    BY <1>1, <1>3, <1>4 DEF Closing, HasFd
  <1>12. Buffers
    BY <1>3, <1>6, EmptyBuffer DEF Buffers
  <1> QED BY <1>7, <1>8, <1>9, <1>10, <1>11, <1>12 DEF Base

-----------------------------------------------------------------------------
(* What steps that leave a part alone preserve                             *)

\* Requests stay valid when at most the first leaves the pipe.
LEMMA PipesKept ==
    ASSUME Types, Pipes, told \subseteq told',
           pipe' = pipe \/ (pipe # <<>> /\ pipe' = Tail(pipe)),
           \/ slot.type # "RESERVE"
           \/ slot'.id = slot.id /\ slot'.type = slot.type
           \/ pipe # <<>> /\ pipe' = Tail(pipe) /\ Head(pipe).cmd = "O"
    PROVE  Pipes'
  <1>1. pipe \in Seq(ReqRec)
    BY DEF Types
  <1>2. CASE pipe' = pipe
    <2>1. pipe' # Tail(pipe) \/ pipe = <<>>
      BY <1>1, <1>2
    <2> QED BY <1>2, <2>1 DEF Pipes, Carries
  <1>3. CASE pipe # <<>> /\ pipe' = Tail(pipe)
    <2>1. /\ DOMAIN pipe = 1 .. Len(pipe) /\ Len(pipe) \in Nat \ {0}
          /\ DOMAIN pipe' = 1 .. (Len(pipe) - 1)
          /\ \A i \in DOMAIN pipe' : pipe'[i] = pipe[i + 1]
          /\ Head(pipe) = pipe[1]
      BY <1>1, <1>3
    <2>2. \A i \in DOMAIN pipe' : i + 1 \in DOMAIN pipe /\ i + 1 # 1 /\ i \in Nat
      BY <2>1
    <2>3. 1 \in DOMAIN pipe
      BY <2>1
    <2>4. ASSUME NEW i \in DOMAIN pipe'
          PROVE  /\ pipe'[i].cmd = "O" => pipe'[i].id = slot'.id /\ slot'.type = "RESERVE"
                 /\ pipe'[i].cmd # "O" => pipe'[i].id \in told'
                 /\ Carries(pipe'[i]) => pipe'[i].pk \in Package
      BY <2>1, <2>2, <2>3 DEF Pipes
    <2>5. ASSUME NEW i \in DOMAIN pipe', NEW j \in DOMAIN pipe',
                 pipe'[i].cmd = "O", pipe'[j].cmd = "O"
          PROVE  i = j
      <3>1. i + 1 = j + 1
        BY <2>1, <2>2, <2>5 DEF Pipes
      <3> QED BY <3>1, <2>2
    <2> QED BY <2>4, <2>5 DEF Pipes, Carries
  <1> QED BY <1>2, <1>3

\* A request for a connection that was announced is a valid one.
LEMMA PipesAdded ==
    ASSUME Types, Pipes, told' = told,
           NEW cmd, NEW id \in told, NEW pk, Request(cmd, id, pk),
           cmd # "O", cmd \in {"D", "P"} => pk \in Package,
           slot'.id = slot.id, slot'.type = slot.type
    PROVE  Pipes'
  <1> DEFINE r == [cmd |-> cmd, id |-> id, pk |-> pk]
  <1>1. pipe \in Seq(ReqRec) /\ pipe' = Append(pipe, r)
    BY DEF Types, Request
  <1>2. r.cmd = cmd /\ r.id = id /\ r.pk = pk
    OBVIOUS
  <1> HIDE DEF r
  <1>3. /\ DOMAIN pipe = 1 .. Len(pipe) /\ Len(pipe) \in Nat
        /\ DOMAIN pipe' = 1 .. (Len(pipe) + 1)
        /\ \A i \in DOMAIN pipe' : pipe'[i] = IF i = Len(pipe) + 1 THEN r ELSE pipe[i]
        /\ \A i \in DOMAIN pipe' : i = Len(pipe) + 1 \/ i \in DOMAIN pipe
    BY <1>1
  <1> QED BY <1>2, <1>3 DEF Pipes, Carries

\* Steps without the lock leave its holder alone.
LEMMA LockingKept ==
    ASSUME Types, Locking, call' = call, slot'.lock = slot.lock,
           slot.lock # None => slot'.id = slot.id /\ slot'.dw = slot.dw /\ HasFd'
    PROVE  Locking'
  <1>1. \A w \in Worker : HasLock(w) => slot.lock # None
    BY LockAssumption DEF Locking
  <1>2. \A w \in Worker : HasLock(w)' <=> HasLock(w)
    BY DEF HasLock
  <1> QED BY <1>1, <1>2 DEF Locking, HasLock

\* The connection stays as it is, and the worker keeps or lets go the lock.
LEMMA BuffersKept ==
    ASSUME Types, Buffers, SameLists(slot, slot'), HasFd => HasFd',
           \A w \in Worker : call'[w].at = "flags" => call[w].at = "flags"
    PROVE  Buffers'
  BY DEF Buffers, SameLists

\* Steps that neither raise nor begin a close
LEMMA ClosingKept ==
    ASSUME Types, Closing, UNCHANGED <<told, closes>>, SameConn(slot, slot'),
           th' = th \/ th'.at # "close"
    PROVE  Closing'
  <1>1. HasFd' <=> HasFd
    BY DEF HasFd, SameConn
  <1> QED BY <1>1 DEF Closing, SameConn

\* Steps that leave id, type and protocol alone
LEMMA ConnKept ==
    ASSUME Types, Conn, UNCHANGED told, SameConn(slot, slot'),
           ev' = ev \/ ev' = NoEvent \/ HasFd
    PROVE  Conn'
  <1>1. HasFd' <=> HasFd
    BY DEF HasFd, SameConn
  <1> QED BY <1>1 DEF Conn, SameConn, HasFd

\* Steps of others leave the calls valid.
LEMMA CallsKept ==
    ASSUME Calls, call' = call, told \subseteq told'
    PROVE  Calls'
  BY DEF Calls

\* Steps without a new package leave the senders' ids valid.
LEMMA SentsKept ==
    ASSUME Sents, from' = from, told \subseteq told', th' = th \/ th'.at # "dec"
    PROVE  Sents'
  BY DEF Sents

-----------------------------------------------------------------------------
(* The requests and the steps of the workers                               *)

\* An unchanged slot has the same connection and buffers.
LEMMA SameSlot ==
    ASSUME slot' = slot
    PROVE  /\ SameConn(slot, slot') /\ SameStore(slot, slot')
           /\ SameLists(slot, slot') /\ (HasFd' <=> HasFd)
  BY DEF SameConn, SameStore, SameLists, HasFd

\* socket_server_connect keeps the invariant.
LEMMA ConnectBase ==
    ASSUME Base, Connect
    PROVE  Base'
  <1> USE DEF Base
  <1>1. /\ slot.type = "INVALID" /\ slot.id < MaxId /\ ev = NoEvent /\ slot.lock = None
        /\ UNCHANGED <<th, ev, peer, call, from, freed, done, told, closes, ctl>>
        /\ Request("O", slot.id + 1, 0)
    BY DEF Connect, Reservable, ghosts
  <1>2. slot \in SlotRec
    BY DEF Types
  <1>3. /\ slot' \in SlotRec /\ slot'.type = "RESERVE" /\ slot'.id = slot.id + 1
        /\ slot'.protocol = "UNKNOWN" /\ slot'.closing = slot.closing
        /\ SameStore(slot, slot')
    BY <1>1, <1>2, ReservedFields DEF Connect
  <1>4. /\ slot.id \in 0 .. MaxId /\ slot.id + 1 \in Id /\ slot.id + 1 \notin told
        /\ slot.id \in Int
    BY <1>1, <1>2, SlotFields, BoundAssumption DEF Conn, Id
  <1> DEFINE r == [cmd |-> "O", id |-> slot.id + 1, pk |-> 0]
  <1>5. r \in ReqRec /\ r.cmd = "O" /\ r.id = slot.id + 1
    BY <1>4, SizeAssumption DEF ReqRec
  <1> HIDE DEF r
  <1>6. pipe \in Seq(ReqRec) /\ pipe' = Append(pipe, r)
    BY <1>1 DEF Types, Request, r
  <1>7. Types'
    BY <1>1, <1>3, <1>5, <1>6 DEF Types, SameStore
  <1>8. Pipes'
    <2>1. /\ DOMAIN pipe = 1 .. Len(pipe) /\ Len(pipe) \in Nat
          /\ DOMAIN pipe' = 1 .. (Len(pipe) + 1)
          /\ \A i \in DOMAIN pipe' : pipe'[i] = IF i = Len(pipe) + 1 THEN r ELSE pipe[i]
          /\ \A i \in DOMAIN pipe' : i = Len(pipe) + 1 \/ i \in DOMAIN pipe
      BY <1>6
    <2>2. \A i \in DOMAIN pipe : pipe[i].cmd # "O"
      BY <1>1 DEF Pipes
    <2> QED BY <1>1, <1>3, <1>5, <2>1, <2>2 DEF Pipes, Carries
  <1>9. Calls' /\ Sents'
    BY <1>1, CallsKept, SentsKept
  <1>10. Conn'
    BY <1>1, <1>3, <1>4 DEF Conn, HasFd
  <1>11. Locking'
    BY <1>1, <1>3, LockingKept DEF SameStore
  <1>12. Closing'
    BY <1>1, <1>3, <1>4 DEF Closing, HasFd, Conn
  <1>13. Buffers'
    BY <1>1, <1>3 DEF Buffers, SameStore, HasFd
  <1> QED BY <1>7, <1>8, <1>9, <1>10, <1>11, <1>12, <1>13

\* Close, shutdown, start and pause requests keep the invariant.
LEMMA ControlBase ==
    ASSUME Base, NEW cmd \in {"K", "shutdown", "R", "S"}, NEW id \in Id, Control(cmd, id)
    PROVE  Base'
  <1> USE DEF Base
  <1>1. /\ id \in told /\ ctl' = ctl + 1 /\ Request(cmd, id, 0)
        /\ UNCHANGED <<slot, th, ev, peer, call, from, freed, done, told, closes>>
    BY DEF Control
  <1>2. Types'
    <2>1. [cmd |-> cmd, id |-> id, pk |-> 0] \in ReqRec
      BY SizeAssumption DEF ReqRec
    <2> QED BY <1>1, <2>1 DEF Types, Request
  <1>3. Pipes'
    <2>1. cmd # "O" /\ cmd \notin {"D", "P"}
      OBVIOUS
    <2> QED BY <1>1, <2>1, PipesAdded
  <1>4. Calls' /\ Sents'
    BY <1>1, CallsKept, SentsKept
  <1>5. Conn' /\ Closing'
    BY <1>1, SameSlot, ConnKept, ClosingKept
  <1>6. Locking'
    BY <1>1 DEF Locking, HasLock, HasFd
  <1>7. Buffers'
    BY <1>1, SameSlot, BuffersKept
  <1> QED BY <1>2, <1>3, <1>4, <1>5, <1>6, <1>7

\* The first test of socket_server_send keeps the invariant.
LEMMA SendBeginBase ==
    ASSUME Base, NEW w \in Worker, NEW id \in Id, NEW prio \in {"high", "low"},
           SendBegin(w, id, prio)
    PROVE  Base'
  <1> USE DEF Base
  <1> DEFINE p == Len(from) + 1
             first == IF prio = "high" THEN "try" ELSE "inc"
             c == [at |-> first, pk |-> p, id |-> id, prio |-> prio]
             f == [by |-> w, id |-> id, prio |-> prio]
  <1>1. /\ call[w] = Idle /\ id \in told /\ Len(from) < NPackage
        /\ from' = Append(from, f)
        /\ freed' = freed \/ freed' = freed \union {p}
        /\ call' = call \/ call' = [call EXCEPT ![w] = c]
        /\ UNCHANGED <<slot, pipe, th, ev, peer, done, told, closes, ctl>>
    BY DEF SendBegin
  <1>2. /\ from \in Seq(FromRec) /\ call \in [Worker -> CallRec]
        /\ freed \subseteq Package /\ Len(from) \in Nat
    BY DEF Types
  <1>3. p \in Package /\ p \in 0 .. NPackage
    BY <1>1, <1>2, SizeAssumption DEF Package
  <1>4. c \in CallRec /\ f \in FromRec /\ f.id = id /\ c.id = id /\ c.pk = p
        /\ c.at \in {"try", "inc"}
    <2>1. first \in {"try", "inc"} /\ first \in Stage
      BY DEF Stage
    <2>2. id \in 0 .. MaxId
      BY BoundAssumption DEF Id
    <2> HIDE DEF first, p
    <2> QED BY <2>1, <2>2, <1>3 DEF CallRec, FromRec
  <1> HIDE DEF p, c, f
  <1>5. call' \in [Worker -> CallRec] /\ call'[w].at \notin {"lists", "flags", "unlock"}
        /\ (call'[w].at # "idle" => call'[w].id = id /\ call'[w].pk = p)
        /\ \A x \in Worker : x # w => call'[x] = call[x]
    BY <1>1, <1>2, <1>4 DEF Idle
  <1>6. Types'
    <2>1. from' \in Seq(FromRec) /\ Len(from') <= NPackage
      BY <1>1, <1>2, <1>4, SizeAssumption
    <2>2. freed' \subseteq Package
      BY <1>1, <1>2, <1>3
    <2> QED BY <1>1, <1>5, <2>1, <2>2 DEF Types
  <1>7. Pipes'
    BY <1>1 DEF Pipes, Carries
  <1>8. Calls'
    BY <1>1, <1>3, <1>5 DEF Calls
  <1>9. Sents'
    <2>1. \A i \in DOMAIN from' : from'[i] = f \/ (i \in DOMAIN from /\ from'[i] = from[i])
      BY <1>1, <1>2
    <2> QED BY <1>1, <1>4, <2>1 DEF Sents
  <1>10. Conn' /\ Closing'
    BY <1>1, SameSlot, ConnKept, ClosingKept
  <1>11. Locking'
    <2>1. ~HasLock(w)
      BY <1>1 DEF HasLock, Idle
    <2>2. \A x \in Worker : (HasLock(x)' <=> HasLock(x))
                            /\ (HasLock(x) => call'[x] = call[x])
      BY <1>5, <2>1 DEF HasLock
    <2> QED BY <1>1, <2>2 DEF Locking, HasFd, HasLock
  <1>12. Buffers'
    <2>1. \A x \in Worker : call'[x].at = "flags" => call[x].at = "flags"
      BY <1>5
    <2> QED BY <1>1, <2>1, SameSlot, BuffersKept
  <1> QED BY <1>6, <1>7, <1>8, <1>9, <1>10, <1>11, <1>12

\* A worker goes on to another stage of its send.
LEMMA GoToCall ==
    ASSUME Types, NEW w \in Worker, NEW at \in Stage, GoTo(w, at)
    PROVE  /\ call' \in [Worker -> CallRec] /\ call'[w].at = at
           /\ call'[w].id = call[w].id /\ call'[w].pk = call[w].pk
           /\ call'[w].prio = call[w].prio
           /\ \A x \in Worker : x # w => call'[x] = call[x]
  BY DEF Types, GoTo, CallRec

\* A worker that returns from socket_server_send
LEMMA GoToIdle ==
    ASSUME Types, NEW w \in Worker, call' = [call EXCEPT ![w] = Idle]
    PROVE  /\ call' \in [Worker -> CallRec] /\ call'[w].at = "idle"
           /\ \A x \in Worker : x # w => call'[x] = call[x]
  <1>1. Idle \in CallRec /\ Idle.at = "idle"
    BY SizeAssumption, BoundAssumption DEF Idle, CallRec, Stage
  <1> QED BY <1>1 DEF Types

\* A worker goes on with its package or returns.
LEMMA CallsStep ==
    ASSUME Types, Calls, told' = told, NEW w \in Worker, call[w].at # "idle",
           call'[w].at = "idle" \/ (call'[w].id = call[w].id /\ call'[w].pk = call[w].pk),
           \A x \in Worker : x # w => call'[x] = call[x]
    PROVE  Calls'
  BY DEF Calls

\* The steps of a worker outside the lock, the lock not taken
LEMMA LockingElsewhere ==
    ASSUME Types, Locking, NEW w \in Worker, ~HasLock(w), ~HasLock(w)',
           \A x \in Worker : x # w => call'[x] = call[x],
           SameConn(slot, slot'), slot'.lock = slot.lock, slot'.dw = slot.dw
    PROVE  Locking'
  <1>1. \A x \in Worker : (HasLock(x)' <=> HasLock(x))
                          /\ (HasLock(x) => call'[x] = call[x])
    BY DEF HasLock
  <1>2. HasFd' <=> HasFd
    BY DEF HasFd, SameConn
  <1> QED BY <1>1, <1>2 DEF Locking, HasLock, SameConn

\* The steps that read: TryLists, ReadLists and ReadFlags
LEMMA ReadBase ==
    ASSUME Base, NEW w \in Worker, TryLists(w) \/ ReadLists(w) \/ ReadFlags(w)
    PROVE  Base'
  <1> USE DEF Base
  <1>1. UNCHANGED <<slot, pipe, th, ev, peer, from, freed, done, told, closes, ctl>>
    BY DEF TryLists, ReadLists, ReadFlags, ghosts
  <1>2. PICK at \in Stage :
          /\ GoTo(w, at)
          /\ \/ call[w].at = "try" /\ at \in {"trylock", "inc"}
             \/ call[w].at \in {"lists", "flags"} /\ at \in {"flags", "unlock"}
          /\ at = "flags" => /\ call[w].at = "lists" /\ slot.id = call[w].id
                             /\ slot.high = <<>>
    <2>1. CASE TryLists(w)
      <3>1. GoTo(w, "trylock") \/ GoTo(w, "inc")
        BY <2>1 DEF TryLists
      <3>2. call[w].at = "try" /\ "trylock" \in Stage /\ "inc" \in Stage
        BY <2>1 DEF TryLists, At, Stage
      <3> QED BY <3>1, <3>2
    <2>2. CASE ReadLists(w)
      <3>1. \/ GoTo(w, "flags") /\ slot.id = call[w].id /\ slot.high = <<>>
            \/ GoTo(w, "unlock")
        BY <2>2 DEF ReadLists, ListsOK, send_buffer_empty
      <3>2. call[w].at = "lists" /\ "flags" \in Stage /\ "unlock" \in Stage
        BY <2>2 DEF ReadLists, At, Stage
      <3> QED BY <3>1, <3>2
    <2>3. CASE ReadFlags(w)
      BY <2>3 DEF ReadFlags, At, Stage
    <2> QED BY <2>1, <2>2, <2>3
  <1>3. /\ call' \in [Worker -> CallRec] /\ call'[w].at = at
        /\ call'[w].id = call[w].id /\ call'[w].pk = call[w].pk
        /\ \A x \in Worker : x # w => call'[x] = call[x]
    BY <1>2, GoToCall
  <1>4. Types'
    BY <1>1, <1>3 DEF Types
  <1>5. Pipes'
    BY <1>1 DEF Pipes, Carries
  <1>6. Calls'
    BY <1>1, <1>2, <1>3, CallsStep
  <1>7. Sents'
    BY <1>1, SentsKept
  <1>8. Conn' /\ Closing'
    BY <1>1, SameSlot, ConnKept, ClosingKept
  <1>9. Locking'
    <2>1. HasLock(w)' <=> HasLock(w)
      BY <1>2, <1>3 DEF HasLock
    <2>2. \A x \in Worker : HasLock(x)' <=> HasLock(x)
      BY <1>3, <2>1 DEF HasLock
    <2>3. HasFd' <=> HasFd
      BY <1>1, SameSlot
    <2> QED BY <1>1, <1>2, <1>3, <2>2, <2>3 DEF Locking
  <1>10. Buffers'
    <2>1. \A x \in Worker : call'[x].at = "flags" => Fresh(slot.high)
      BY <1>2, <1>3, EmptyBuffer DEF Buffers
    <2> QED BY <1>1, <2>1 DEF Buffers, HasFd
  <1> QED BY <1>4, <1>5, <1>6, <1>7, <1>8, <1>9, <1>10

\* socket_trylock keeps the invariant.
LEMMA TryLockBase ==
    ASSUME Base, NEW w \in Worker, TryLock(w)
    PROVE  Base'
  <1> USE DEF Base
  <1>1. /\ call[w].at = "trylock"
        /\ UNCHANGED <<pipe, th, ev, peer, from, freed, done, told, closes, ctl>>
    BY DEF TryLock, At, ghosts
  <1>2. slot \in SlotRec
    BY DEF Types
  <1>3. PICK at \in {"lists", "inc"} :
          /\ GoTo(w, at)
          /\ at = "lists" => /\ slot.lock = None /\ slot.dw = <<>> /\ HasFd
                             /\ slot' = [slot EXCEPT !.lock = w]
          /\ at = "inc" => slot' = slot
    <2>1. CASE FlagsOK(w) /\ slot.lock = None
      BY <2>1 DEF TryLock, FlagsOK, HasFd
    <2>2. CASE ~(FlagsOK(w) /\ slot.lock = None)
      BY <2>2 DEF TryLock
    <2> QED BY <2>1, <2>2
  <1>4. at \in Stage
    BY DEF Stage
  <1>5. /\ call' \in [Worker -> CallRec] /\ call'[w].at = at
        /\ call'[w].id = call[w].id /\ call'[w].pk = call[w].pk
        /\ \A x \in Worker : x # w => call'[x] = call[x]
    BY <1>3, <1>4, GoToCall
  <1>6. /\ slot' \in SlotRec /\ SameConn(slot, slot') /\ SameLists(slot, slot')
        /\ slot'.sending = slot.sending
        /\ slot'.lock = IF at = "lists" THEN w ELSE slot.lock
    <2>1. CASE at = "lists"
      <3> DEFINE t == [slot EXCEPT !.lock = w]
      <3>1. /\ t \in SlotRec /\ t.lock = w /\ SameConn(slot, t) /\ SameLists(slot, t)
            /\ t.sending = slot.sending
        BY <1>2, SetField
      <3> HIDE DEF t
      <3>2. slot' = t
        BY <1>3, <2>1 DEF t
      <3> QED BY <2>1, <3>1, <3>2
    <2>2. CASE at = "inc"
      BY <1>2, <1>3, <2>2 DEF SameConn, SameLists
    <2> QED BY <2>1, <2>2
  <1>7. HasFd' <=> HasFd
    BY <1>6 DEF HasFd, SameConn
  <1>8. Types'
    BY <1>1, <1>5, <1>6 DEF Types
  <1>9. Pipes'
    BY <1>1, <1>6, PipesKept DEF SameConn
  <1>10. Calls'
    BY <1>1, <1>5, CallsStep
  <1>11. Sents'
    BY <1>1, SentsKept
  <1>12. Conn' /\ Closing'
    BY <1>1, <1>6, ConnKept, ClosingKept
  <1>13. Locking'
    <2>1. CASE at = "inc"
      <3>1. ~HasLock(w) /\ ~HasLock(w)'
        BY <1>1, <1>5, <2>1 DEF HasLock
      <3> QED BY <1>5, <1>6, <2>1, <3>1, LockingElsewhere DEF SameLists
    <2>2. CASE at = "lists"
      <3>1. slot.lock = None /\ slot'.lock = w /\ slot'.dw = <<>> /\ HasFd'
        BY <1>3, <1>6, <1>7, <2>2 DEF SameLists
      <3>2. \A x \in Worker : ~HasLock(x)
        BY <3>1, LockAssumption DEF Locking
      <3>3. \A x \in Worker : HasLock(x)' <=> x = w
        BY <1>5, <2>2, <3>2 DEF HasLock
      <3>4. \A x \in Worker : call'[x].at \notin {"flags"}
        BY <1>5, <2>2, <3>2 DEF HasLock
      <3> QED BY <3>1, <3>3, <3>4 DEF Locking
    <2> QED BY <2>1, <2>2
  <1>14. Buffers'
    BY <1>5, <1>6, <1>7, BuffersKept
  <1> QED BY <1>8, <1>9, <1>10, <1>11, <1>12, <1>13, <1>14

\* The worker lets the lock go.
LEMMA LockingReleased ==
    ASSUME Types, Locking, NEW w \in Worker, HasLock(w), ~HasLock(w)',
           \A x \in Worker : x # w => call'[x] = call[x],
           slot'.lock = None
    PROVE  Locking'
  <1>1. slot.lock = w
    BY DEF Locking
  <1>2. \A x \in Worker : ~HasLock(x)'
    BY <1>1 DEF Locking, HasLock
  <1> QED BY <1>2, LockAssumption DEF Locking, HasLock

\* socket_unlock keeps the invariant.
LEMMA UnlockBase ==
    ASSUME Base, NEW w \in Worker, Unlock(w)
    PROVE  Base'
  <1> USE DEF Base
  <1>1. /\ call[w].at = "unlock" /\ GoTo(w, "inc")
        /\ slot' = [slot EXCEPT !.lock = None]
        /\ UNCHANGED <<pipe, th, ev, peer, from, freed, done, told, closes, ctl>>
    BY DEF Unlock, At, ghosts
  <1>2. slot \in SlotRec /\ "inc" \in Stage
    BY DEF Types, Stage
  <1>3. /\ slot' \in SlotRec /\ SameConn(slot, slot') /\ SameLists(slot, slot')
        /\ slot'.sending = slot.sending /\ slot'.lock = None
    BY <1>1, <1>2, SetField
  <1>4. /\ call' \in [Worker -> CallRec] /\ call'[w].at = "inc"
        /\ call'[w].id = call[w].id /\ call'[w].pk = call[w].pk
        /\ \A x \in Worker : x # w => call'[x] = call[x]
    BY <1>1, <1>2, GoToCall
  <1>5. Types'
    BY <1>1, <1>3, <1>4 DEF Types
  <1>6. Pipes'
    BY <1>1, <1>3, PipesKept DEF SameConn
  <1>7. Calls'
    BY <1>1, <1>4, CallsStep
  <1>8. Sents' /\ Conn' /\ Closing'
    BY <1>1, <1>3, SentsKept, ConnKept, ClosingKept
  <1>9. Locking'
    <2>1. HasLock(w) /\ ~HasLock(w)'
      BY <1>1, <1>4 DEF HasLock
    <2> QED BY <1>3, <1>4, <2>1, LockingReleased
  <1>10. Buffers'
    <2>1. HasFd' <=> HasFd
      BY <1>3 DEF HasFd, SameConn
    <2> QED BY <1>3, <1>4, <2>1, BuffersKept
  <1> QED BY <1>5, <1>6, <1>7, <1>8, <1>9, <1>10

\* Bytes written to the connection reach the other end.
LEMMA SentType ==
    ASSUME peer \in PeerRec, NEW b \in Buffer
    PROVE  Sent(b) \in PeerRec /\ Sent(b).got = peer.got \o b
  <1>1. peer.got \in Buffer
    BY DEF PeerRec
  <1>2. peer.got \o b \in Buffer
    BY <1>1, ConcatBuffer
  <1> QED BY <1>2 DEF PeerRec, Sent

\* The error of a reset connection leaves what was delivered alone.
LEMMA ConsumedType ==
    ASSUME peer \in PeerRec
    PROVE  Consumed \in PeerRec /\ Consumed.got = peer.got
  BY DEF PeerRec, Consumed

\* The direct write keeps the invariant: the lock kept s->dw_buffer empty.
LEMMA DirectWriteBase ==
    ASSUME Base, NEW w \in Worker, NEW n \in 0 .. Size, DirectWrite(w, n)
    PROVE  Base'
  <1> USE DEF Base
  <1> DEFINE p == call[w].pk
             d == SubSeq(Bytes(p), n + 1, Size)
             e == SubSeq(Bytes(p), 1, n)
  <1>1. /\ call[w].at = "flags" /\ FlagsOK(w)
        /\ done' = done \/ done' = done \union {p}
        /\ slot' = [slot EXCEPT !.dw = d, !.lock = None]
        /\ call' = [call EXCEPT ![w] = Idle] \/ GoTo(w, "wake")
        /\ peer' = Consumed \/ peer' = Sent(e)
        /\ UNCHANGED <<pipe, th, ev, from, freed, told, closes, ctl>>
    BY DEF DirectWrite, At
  <1>2. slot \in SlotRec /\ "wake" \in Stage /\ p \in Package /\ peer \in PeerRec
    BY <1>1 DEF Types, Stage, Calls
  <1>3. d \in Buffer /\ e \in Buffer /\ Cut(d)
    <2>1. Bytes(p) \in Buffer /\ Len(Bytes(p)) = Size /\ Cut(Bytes(p))
      BY <1>2, BytesBuffer
    <2> HIDE DEF p
    <2>2. n \in Nat /\ n <= Len(Bytes(p)) /\ Size <= Len(Bytes(p)) /\ Size \in Nat
          /\ n <= Size /\ 0 <= n /\ 0 \in Nat
      BY <2>1, SizeAssumption
    <2>3. d \in Buffer
      BY <2>1, <2>2, SliceBuffer
    <2>4. e \in Buffer
      BY <2>1, <2>2 DEF Buffer
    <2>5. Cut(d)
      BY <2>1, <2>2, CutSuffix
    <2> QED BY <2>3, <2>4, <2>5
  <1> HIDE DEF d, e
  <1>4. /\ slot' \in SlotRec /\ SameConn(slot, slot') /\ slot'.dw = d
        /\ slot'.lock = None /\ slot'.high = slot.high /\ slot'.low = slot.low
        /\ slot'.sending = slot.sending
    BY <1>1, <1>2, <1>3, DirectFields
  <1>5. /\ call' \in [Worker -> CallRec]
        /\ \/ call'[w].at = "idle"
           \/ /\ call'[w].at = "wake" /\ call'[w].id = call[w].id
              /\ call'[w].pk = call[w].pk
        /\ \A x \in Worker : x # w => call'[x] = call[x]
    BY <1>1, <1>2, GoToIdle, GoToCall
  <1>6. Types'
    <2>1. peer' \in PeerRec
      BY <1>1, <1>2, <1>3, ConsumedType, SentType
    <2>2. done' \subseteq Package
      BY <1>1, <1>2 DEF Types
    <2> QED BY <1>1, <1>4, <1>5, <2>1, <2>2 DEF Types
  <1>7. Pipes'
    BY <1>1, <1>4, PipesKept DEF SameConn
  <1>8. Calls'
    BY <1>1, <1>5, CallsStep
  <1>9. Sents' /\ Conn' /\ Closing'
    BY <1>1, <1>4, SentsKept, ConnKept, ClosingKept
  <1>10. HasLock(w) /\ ~HasLock(w)'
    BY <1>1, <1>5 DEF HasLock
  <1>11. Locking'
    BY <1>4, <1>5, <1>10, LockingReleased
  <1>12. Buffers'
    <2>1. (HasFd' <=> HasFd) /\ HasFd
      BY <1>1, <1>4 DEF HasFd, SameConn, FlagsOK
    <2>2. Fresh(slot.high)
      BY <1>1 DEF Buffers
    <2>3. \A x \in Worker : call'[x].at = "flags" => call[x].at = "flags"
      BY <1>5
    <2> QED BY <1>3, <1>4, <2>1, <2>2, <2>3 DEF Buffers
  <1> QED BY <1>6, <1>7, <1>8, <1>9, <1>11, <1>12

\* The requests at the end of a send: Wake and Queue
LEMMA RequestBase ==
    ASSUME Base, NEW w \in Worker, Wake(w) \/ Queue(w)
    PROVE  Base'
  <1> USE DEF Base
  <1>1. /\ call[w].at \in {"wake", "queue"} /\ call' = [call EXCEPT ![w] = Idle]
        /\ UNCHANGED <<slot, th, ev, peer, from, freed, done, told, closes, ctl>>
    BY DEF Wake, Queue, At, ghosts
  <1>2. PICK cmd \in {"W", "D", "P"}, pk \in 0 .. NPackage :
          /\ Request(cmd, call[w].id, pk)
          /\ cmd \in {"D", "P"} => pk \in Package
    <2>1. CASE Wake(w)
      BY <2>1, SizeAssumption DEF Wake
    <2>2. CASE Queue(w)
      <3>1. \/ Request("D", call[w].id, call[w].pk)
            \/ Request("P", call[w].id, call[w].pk)
        BY <2>2 DEF Queue
      <3>2. call[w].pk \in Package /\ call[w].pk \in 0 .. NPackage
        BY <1>1, SizeAssumption DEF Calls, Package
      <3> QED BY <3>1, <3>2
    <2> QED BY <2>1, <2>2
  <1>3. call[w].id \in told /\ call[w].id \in Id
    BY <1>1 DEF Calls, Types
  <1>4. /\ call' \in [Worker -> CallRec] /\ call'[w].at = "idle"
        /\ \A x \in Worker : x # w => call'[x] = call[x]
    BY <1>1, GoToIdle
  <1>5. Types'
    <2>1. [cmd |-> cmd, id |-> call[w].id, pk |-> pk] \in ReqRec
      BY <1>3 DEF ReqRec
    <2> QED BY <1>1, <1>2, <1>4, <2>1 DEF Types, Request
  <1>6. Pipes'
    BY <1>1, <1>2, <1>3, PipesAdded
  <1>7. Calls'
    BY <1>1, <1>4, CallsStep
  <1>8. Sents' /\ Conn' /\ Closing'
    BY <1>1, SameSlot, SentsKept, ConnKept, ClosingKept
  <1>9. Locking'
    <2>1. ~HasLock(w) /\ ~HasLock(w)'
      BY <1>1, <1>4 DEF HasLock
    <2> QED BY <1>1, <1>4, <2>1, SameSlot, LockingElsewhere
  <1>10. Buffers'
    BY <1>1, <1>4, SameSlot, BuffersKept
  <1> QED BY <1>5, <1>6, <1>7, <1>8, <1>9, <1>10

\* inc_sending_ref keeps the invariant.
LEMMA IncSendingBase ==
    ASSUME Base, NEW w \in Worker, IncSending(w)
    PROVE  Base'
  <1> USE DEF Base
  <1>1. /\ call[w].at = "inc" /\ GoTo(w, "queue")
        /\ UNCHANGED <<pipe, th, ev, peer, from, freed, done, told, closes, ctl>>
        /\ \/ slot.sending < MaxSending /\ slot' = [slot EXCEPT !.sending = @ + 1]
           \/ slot' = slot
    BY DEF IncSending, At, ghosts
  <1>2. /\ slot \in SlotRec /\ "queue" \in Stage /\ slot.sending \in Int
        /\ slot.sending <= MaxSending
    BY SlotFields DEF Types, Stage
  <1>3. /\ slot' \in SlotRec /\ SameConn(slot, slot') /\ SameLists(slot, slot')
        /\ slot'.lock = slot.lock /\ slot'.sending <= MaxSending
    <2>1. CASE slot' = slot
      BY <1>2, <2>1, SameSlot
    <2>2. CASE slot.sending < MaxSending /\ slot' = [slot EXCEPT !.sending = @ + 1]
      <3>1. slot.sending + 1 \in Int /\ slot.sending + 1 <= MaxSending
        BY <1>2, <2>2, SendingAssumption
      <3> QED BY <1>2, <2>2, <3>1, SetField
    <2> QED BY <1>1, <2>1, <2>2
  <1>4. /\ call' \in [Worker -> CallRec] /\ call'[w].at = "queue"
        /\ call'[w].id = call[w].id /\ call'[w].pk = call[w].pk
        /\ \A x \in Worker : x # w => call'[x] = call[x]
    BY <1>1, <1>2, GoToCall
  <1>5. Types'
    BY <1>1, <1>3, <1>4 DEF Types
  <1>6. Pipes'
    BY <1>1, <1>3, PipesKept DEF SameConn
  <1>7. Calls'
    BY <1>1, <1>4, CallsStep
  <1>8. Sents' /\ Conn' /\ Closing'
    BY <1>1, <1>3, SentsKept, ConnKept, ClosingKept
  <1>9. Locking'
    <2>1. ~HasLock(w) /\ ~HasLock(w)'
      BY <1>1, <1>4 DEF HasLock
    <2> QED BY <1>3, <1>4, <2>1, LockingElsewhere DEF SameLists
  <1>10. Buffers'
    <2>1. HasFd' <=> HasFd
      BY <1>3 DEF HasFd, SameConn
    <2> QED BY <1>3, <1>4, <2>1, BuffersKept
  <1> QED BY <1>5, <1>6, <1>7, <1>8, <1>9, <1>10

-----------------------------------------------------------------------------
(* The steps of the socket thread                                          *)

\* A request was taken from the pipe, or none.
Popped == pipe' = pipe \/ (pipe # <<>> /\ pipe' = Tail(pipe))

\* The pipe without its first request is a pipe.
LEMMA PoppedType ==
    ASSUME Types, Popped
    PROVE  pipe' \in Seq(ReqRec)
  <1>1. pipe \in Seq(ReqRec)
    BY DEF Types
  <1> QED BY <1>1 DEF Popped

\* The socket thread between two requests or events
LEMMA DoingType ==
    ASSUME NEW at \in {"ctrl", "event"}
    PROVE  Doing(at) \in ThRec /\ Doing(at).at = at
  BY BoundAssumption DEF Doing, ThRec

\* The same for requests and for events
LEMMA CtrlEvents ==
    /\ Ctrl \in ThRec /\ Ctrl.at = "ctrl" /\ Events \in ThRec /\ Events.at = "event"
    /\ NoEvent \in EvRec
  BY DoingType DEF Ctrl, Events, NoEvent, EvRec

\* What raising a message does to the count of SOCKET_CLOSE
LEMMA RaiseCounts ==
    ASSUME closes \in [Id -> Nat], NEW id, NEW msg, Raise(id, msg)
    PROVE  /\ closes' \in [Id -> Nat]
           /\ \A i \in Id : closes'[i] =
                 IF i = id /\ msg = "CLOSE" THEN closes[i] + 1 ELSE closes[i]
  <1>1. CASE msg = "CLOSE"
    <2>1. closes' = [closes EXCEPT ![id] = @ + 1]
      BY <1>1 DEF Raise
    <2>2. CASE id \in Id
      <3>1. closes[id] \in Nat
        BY <2>2
      <3>2. closes[id] + 1 \in Nat
        BY <3>1
      <3> QED BY <1>1, <2>1, <2>2, <3>2
    <2>3. CASE id \notin Id
      <3>1. closes' = closes
        BY <2>1, <2>3
      <3> QED BY <2>3, <3>1
    <2> QED BY <2>2, <2>3
  <1>2. CASE msg # "CLOSE"
    BY <1>2 DEF Raise
  <1> QED BY <1>1, <1>2

\* A step of the thread that leaves the connection and its buffers alone
LEMMA QuietBase ==
    ASSUME Base, Popped, UNCHANGED <<call, from, freed, done, told, closes, ctl>>,
           slot' \in SlotRec, SameConn(slot, slot'), SameLists(slot, slot'),
           slot'.lock = slot.lock, slot'.sending <= MaxSending,
           th' \in ThRec, th' = th \/ th'.at \notin {"close", "dec"},
           ev' \in EvRec, ev' = ev \/ ev' = NoEvent \/ HasFd, peer' \in PeerRec
    PROVE  Base'
  <1> USE DEF Base
  <1>1. Types'
    BY PoppedType DEF Types
  <1>2. Pipes'
    BY PipesKept DEF SameConn, Popped
  <1>3. Calls' /\ Sents' /\ Conn' /\ Closing'
    BY CallsKept, SentsKept, ConnKept, ClosingKept
  <1>4. HasFd' <=> HasFd
    BY DEF HasFd, SameConn
  <1>5. Locking'
    BY <1>4, LockingKept DEF SameConn, SameLists, Locking
  <1>6. Buffers'
    BY <1>4, BuffersKept
  <1> QED BY <1>1, <1>2, <1>3, <1>5, <1>6

\* The parts of any step of the thread that follow from its frame
LEMMA ThreadBase ==
    ASSUME Base, Popped, UNCHANGED <<call, from, ctl>>,
           slot' \in SlotRec, slot'.sending <= MaxSending,
           th' \in ThRec, th'.at = "dec" => th'.id \in told,
           ev' \in EvRec, peer' \in PeerRec,
           freed' \subseteq Package, done' \subseteq Package,
           told \subseteq told', told' \subseteq Id, closes' \in [Id -> Nat],
           \/ slot.type # "RESERVE"
           \/ slot'.id = slot.id /\ slot'.type = slot.type
           \/ pipe # <<>> /\ pipe' = Tail(pipe) /\ Head(pipe).cmd = "O",
           slot'.lock = slot.lock,
           slot.lock # None => slot'.id = slot.id /\ slot'.dw = slot.dw /\ HasFd',
           Conn', Closing', Buffers'
    PROVE  Base'
  <1> USE DEF Base
  <1>1. Types'
    BY PoppedType DEF Types
  <1>2. Pipes'
    BY PipesKept DEF Popped
  <1>3. Calls'
    BY CallsKept
  <1>4. Sents'
    BY DEF Sents
  <1>5. Locking'
    BY LockingKept
  <1> QED BY <1>1, <1>2, <1>3, <1>4, <1>5

\* force_close up to the lock keeps the invariant.
LEMMA BeginCloseBase ==
    ASSUME Base, Popped, UNCHANGED <<call, from, ctl, peer>>,
           NEW msg \in {None, "CLOSE", "ERR"}, NEW back \in {Ctrl, Events},
           BeginClose(msg, back), HasFd, ev' \in EvRec,
           slot.type = "CONNECTING" <=> msg = "ERR",
           slot.type = "HALFCLOSE_READ" <=> msg = None
    PROVE  Base'
  <1> USE DEF Base
  <1>1. /\ slot \in SlotRec /\ slot.high \in Buffer /\ slot.low \in Buffer
        /\ slot.dw \in Buffer /\ slot.sending <= MaxSending
    BY SlotFields DEF Types
  <1>2. /\ slot' = WithBuffers(slot, <<>>, <<>>, slot.dw)
        /\ freed' = freed \union In(slot.high) \union In(slot.low)
        /\ th' = [at |-> "close", msg |-> msg, back |-> back.at, id |-> 0]
        /\ UNCHANGED <<done, told, closes>>
    BY DEF BeginClose
  <1>3. /\ slot' \in SlotRec /\ slot'.high = <<>> /\ slot'.low = <<>>
        /\ slot'.dw = slot.dw /\ SameBut(slot, slot')
    <2> DEFINE t == WithBuffers(slot, <<>>, <<>>, slot.dw)
    <2>1. /\ t \in SlotRec /\ t.high = <<>> /\ t.low = <<>>
          /\ t.dw = slot.dw /\ SameBut(slot, t)
      <3>1. t \in SlotRec /\ SameBut(slot, t)
        BY <1>1, EmptyBuffer, WithBuffersFields
      <3>2. t.dw = slot.dw /\ t.high = <<>> /\ t.low = <<>>
        BY <1>1 DEF WithBuffers, SlotRec
      <3> QED BY <3>1, <3>2
    <2> HIDE DEF t
    <2>2. slot' = t
      BY <1>2 DEF t
    <2> QED BY <2>1, <2>2
  <1>4. back.at \in {"ctrl", "event"}
    BY CtrlEvents
  <1>5. /\ th' \in ThRec /\ th'.at = "close" /\ th'.msg = msg
        /\ th'.back \in {"ctrl", "event"}
    BY <1>2, <1>4, BoundAssumption DEF ThRec
  <1>6. freed' \subseteq Package
    BY <1>1, <1>2, BufferBytes DEF Types
  <1>7. HasFd' /\ SameConn(slot, slot')
    BY <1>3 DEF HasFd, SameBut, SameConn
  <1>8. Conn'
    BY <1>2, <1>7, ConnKept
  <1>9. Closing'
    BY <1>2, <1>5, <1>7 DEF Closing, SameConn
  <1>10. Buffers'
    BY <1>3, <1>7, EmptyBuffer DEF Buffers
  <1>11. /\ slot'.id = slot.id /\ slot'.type = slot.type /\ slot'.lock = slot.lock
         /\ slot'.sending <= MaxSending
    BY <1>1, <1>3 DEF SameBut
  <1>12. /\ told \subseteq told' /\ told' \subseteq Id /\ closes' \in [Id -> Nat]
         /\ done' \subseteq Package /\ peer' \in PeerRec
    BY <1>2 DEF Types
  <1> QED
    BY <1>3, <1>5, <1>6, <1>7, <1>8, <1>9, <1>10, <1>11, <1>12, ThreadBase

\* force_close from the lock on keeps the invariant.
LEMMA EndCloseBase ==
    ASSUME Base, EndClose
    PROVE  Base'
  <1> USE DEF Base
  <1>1. /\ th.at = "close" /\ slot.lock = None /\ slot' = Closed(slot)
        /\ freed' = freed \union In(slot.dw) /\ Raise(slot.id, th.msg)
        /\ th' = Doing(th.back) /\ ev' \in {ev, NoEvent}
        /\ UNCHANGED <<pipe, peer, call, from, done, told, ctl>>
    BY DEF EndClose
  <1>2. slot \in SlotRec /\ slot.dw \in Buffer /\ slot.sending <= MaxSending
        /\ slot.id \in 0 .. MaxId
    BY SlotFields DEF Types
  <1>3. /\ slot' \in SlotRec /\ slot'.type = "INVALID" /\ slot'.high = <<>>
        /\ slot'.low = <<>> /\ slot'.dw = <<>> /\ slot'.id = slot.id
        /\ slot'.protocol = slot.protocol /\ slot'.tag = slot.tag
        /\ slot'.sending = slot.sending /\ slot'.lock = slot.lock
    <2> DEFINE t == Closed(slot)
    <2>1. /\ t \in SlotRec /\ t.type = "INVALID" /\ t.high = <<>>
          /\ t.low = <<>> /\ t.dw = <<>> /\ t.id = slot.id
          /\ t.protocol = slot.protocol /\ t.tag = slot.tag
          /\ t.sending = slot.sending /\ t.lock = slot.lock
      BY <1>2, ClosedFields
    <2> HIDE DEF t
    <2> QED BY <1>1, <2>1 DEF t
  <1>4. /\ HasFd /\ th.back \in {"ctrl", "event"}
        /\ slot.type = "CONNECTING" <=> th.msg = "ERR"
        /\ slot.type = "HALFCLOSE_READ" <=> th.msg = None
        /\ th.msg \in {None, "CLOSE", "ERR"}
    BY <1>1 DEF Closing, Types, ThRec
  <1>5. th' \in ThRec /\ th'.at \in {"ctrl", "event"}
    BY <1>1, <1>4, DoingType
  <1>6. closes \in [Id -> Nat]
    BY DEF Types
  <1>7. closes' \in [Id -> Nat] /\ \A i \in Id : closes'[i] =
           IF i = slot.id /\ th.msg = "CLOSE" THEN closes[i] + 1 ELSE closes[i]
    BY <1>1, <1>6, RaiseCounts
  <1>8. Conn'
    BY <1>1, <1>3, <1>4 DEF Conn, HasFd
  <1>9. Closing'
    <2>1. CASE slot.id \in told
      <3>1. th.msg # "ERR"
        BY <1>4, <2>1 DEF Conn
      <3>2. slot.id \in Id
        BY <2>1 DEF Types
      <3>3. closes'[slot.id] = 1
        BY <1>4, <1>7, <2>1, <3>1, <3>2 DEF Closing, HasFd, None
      <3> QED BY <1>1, <1>3, <1>5, <1>7, <2>1, <3>3 DEF Closing, HasFd, Types
    <2>2. CASE slot.id \notin told
      <3>1. th.msg = "ERR"
        BY <1>4, <2>2 DEF Conn, HasFd
      <3> QED BY <1>1, <1>3, <1>5, <1>7, <2>2, <3>1 DEF Closing, HasFd, Types
    <2> QED BY <2>1, <2>2
  <1>10. Buffers'
    BY <1>1, <1>3, EmptyBuffer DEF Buffers
  <1>11. freed' \subseteq Package /\ ev' \in EvRec
    BY <1>1, <1>2, BufferBytes, CtrlEvents DEF Types
  <1>12. slot.type # "RESERVE" /\ th'.at # "dec"
    BY <1>4, <1>5 DEF HasFd
  <1>13. /\ told \subseteq told' /\ told' \subseteq Id
         /\ done' \subseteq Package /\ peer' \in PeerRec
    BY <1>1 DEF Types
  <1> QED
    BY <1>1, <1>2, <1>3, <1>5, <1>7, <1>8, <1>9, <1>10, <1>11, <1>12, <1>13, ThreadBase
       DEF Popped

\* open_socket keeps the invariant.
LEMMA OpenBase ==
    ASSUME Base, pipe # <<>>, pipe' = Tail(pipe), Head(pipe).cmd = "O",
           NEW id, id = Head(pipe).id, open_socket(id), UNCHANGED <<ev, call, from, ctl>>
    PROVE  Base'
  <1> USE DEF Base
  <1>1. id = slot.id /\ slot.type = "RESERVE" /\ id \in Id /\ id \notin told
    <2>1. 1 \in DOMAIN pipe /\ Head(pipe) = pipe[1]
      BY DEF Types
    <2> QED BY <2>1 DEF Pipes, Conn
  <1>2. /\ slot \in SlotRec /\ slot.high = <<>> /\ slot.low = <<>> /\ slot.dw = <<>>
        /\ slot.lock = None /\ slot.sending <= MaxSending
    BY <1>1 DEF Types, Buffers, HasFd, Locking
  <1>3. Popped /\ UNCHANGED <<th, freed, done, closes>> /\ NewPeer \in PeerRec
    BY EmptyBuffer DEF open_socket, Popped, NewPeer, PeerRec
  <1>4. /\ \A i \in told : i \in Id /\ i # id
        /\ told \subseteq 1 .. slot.id /\ slot.id \in 1 .. slot.id
    BY <1>1, BoundAssumption DEF Conn, Types, Id
  <1>5. CASE slot' = [slot EXCEPT !.type = "INVALID"] /\ UNCHANGED <<peer, told>>
    <2>1. "INVALID" \in Type
      BY DEF Type
    <2>2. /\ slot' \in SlotRec /\ slot'.type = "INVALID" /\ SameStore(slot, slot')
          /\ slot'.id = slot.id /\ slot'.protocol = slot.protocol
          /\ slot'.tag = slot.tag /\ slot'.closing = slot.closing
      BY <1>2, <1>5, <2>1, SetField
    <2>3. Conn'
      BY <1>1, <1>5, <2>2 DEF Conn, HasFd
    <2>4. Closing'
      BY <1>1, <1>3, <1>5, <2>2 DEF Closing, HasFd
    <2>5. Buffers'
      BY <1>2, <2>2 DEF Buffers, SameStore
    <2>6. slot'.lock = None /\ slot'.sending <= MaxSending
      BY <1>2, <2>2 DEF SameStore
    <2>7. /\ peer' \in PeerRec /\ told \subseteq told' /\ told' \subseteq Id
          /\ closes' \in [Id -> Nat] /\ freed' \subseteq Package
          /\ done' \subseteq Package /\ ev' \in EvRec /\ th' \in ThRec
          /\ th'.at = "dec" => th'.id \in told
      BY <1>3, <1>5 DEF Types, Sents
    <2> QED BY <1>2, <1>3, <2>2, <2>3, <2>4, <2>5, <2>6, <2>7, ThreadBase
  <1>6. ASSUME NEW type \in {"CONNECTED", "CONNECTING"}, slot' \in SlotRec,
               slot'.id = id, slot'.type = type, slot'.protocol = "TCP",
               slot'.tag = id, slot'.sending = 0, slot'.closing = FALSE,
               slot'.high = slot.high, slot'.low = slot.low, slot'.dw = <<>>,
               slot'.lock = slot.lock, peer' = NewPeer,
               told' = IF type = "CONNECTED" THEN told \union {id} ELSE told
        PROVE  Base'
    <2>1. Conn'
      BY <1>1, <1>4, <1>6 DEF Conn, HasFd
    <2>2. Closing'
      BY <1>1, <1>3, <1>4, <1>6 DEF Closing, HasFd
    <2>3. Buffers'
      BY <1>2, <1>6, EmptyBuffer DEF Buffers
    <2>4. /\ peer' \in PeerRec /\ told \subseteq told' /\ told' \subseteq Id
          /\ closes' \in [Id -> Nat] /\ freed' \subseteq Package
          /\ done' \subseteq Package /\ ev' \in EvRec /\ th' \in ThRec
          /\ th'.at = "dec" => th'.id \in told
      BY <1>1, <1>3, <1>6 DEF Types, Sents
    <2>5. 0 <= MaxSending
      BY SendingAssumption
    <2> QED BY <1>2, <1>3, <1>6, <2>1, <2>2, <2>3, <2>4, <2>5, ThreadBase
  <1>7. CASE /\ slot' = NewFd(id, TRUE, "CONNECTED") /\ peer' = NewPeer
             /\ told' = told \union {id}
    <2> DEFINE t == NewFd(id, TRUE, "CONNECTED")
    <2>1. "CONNECTED" \in Type
      BY DEF Type
    <2>2. /\ t \in SlotRec /\ t.id = id /\ t.type = "CONNECTED" /\ t.protocol = "TCP"
          /\ t.tag = id /\ t.sending = 0 /\ t.closing = FALSE
          /\ t.high = slot.high /\ t.low = slot.low /\ t.dw = <<>>
          /\ t.lock = slot.lock
      BY <1>1, <1>2, <2>1, NewFdFields
    <2> HIDE DEF t
    <2>3. slot' = t
      BY <1>7 DEF t
    <2> QED BY <1>6, <1>7, <2>2, <2>3
  <1>8. CASE /\ slot' = [NewFd(id, TRUE, "CONNECTING") EXCEPT !.writing = TRUE]
             /\ peer' = NewPeer /\ told' = told
    <2> DEFINE t == NewFd(id, TRUE, "CONNECTING")
               u == [t EXCEPT !.writing = TRUE]
    <2>1. "CONNECTING" \in Type
      BY DEF Type
    <2>2. /\ t \in SlotRec /\ t.id = id /\ t.type = "CONNECTING" /\ t.protocol = "TCP"
          /\ t.tag = id /\ t.sending = 0 /\ t.closing = FALSE
          /\ t.high = slot.high /\ t.low = slot.low /\ t.dw = <<>>
          /\ t.lock = slot.lock
      BY <1>1, <1>2, <2>1, NewFdFields
    <2> HIDE DEF t
    <2>3. u \in SlotRec /\ SameConn(t, u) /\ SameStore(t, u)
      BY <2>2, SetField
    <2> HIDE DEF u
    <2>4. slot' = u
      BY <1>8 DEF t, u
    <2> QED BY <1>6, <1>8, <2>2, <2>3, <2>4 DEF SameConn, SameStore
  <1> QED BY <1>5, <1>7, <1>8 DEF open_socket

\* The steps that only turn the events of the connection on or off, and
\* those that find a connection that is gone
LEMMA FlowBase ==
    ASSUME Base, Popped, UNCHANGED <<th, ev, peer, call, from, freed, done, told, closes, ctl>>,
           NEW x \in BOOLEAN,
           \/ slot' = slot
           \/ slot' = [slot EXCEPT !.reading = x]
           \/ slot' = [slot EXCEPT !.writing = x]
    PROVE  Base'
  <1> USE DEF Base
  <1>1. /\ slot \in SlotRec /\ slot.sending <= MaxSending /\ th \in ThRec
        /\ ev \in EvRec /\ peer \in PeerRec
    BY DEF Types
  <1>2. slot' \in SlotRec /\ SameConn(slot, slot') /\ SameStore(slot, slot')
    BY <1>1, SameSlot, SetField
  <1>3. /\ SameLists(slot, slot') /\ slot'.lock = slot.lock
        /\ slot'.sending <= MaxSending
    BY <1>1, <1>2 DEF SameStore, SameLists
  <1> QED BY <1>1, <1>2, <1>3, QuietBase

\* resume_socket keeps the invariant.
LEMMA ResumeBase ==
    ASSUME Base, Popped, NEW id \in told, resume_socket(id), UNCHANGED <<ev, call, from, ctl>>
    PROVE  Base'
  <1> USE DEF Base
  <1>1. UNCHANGED <<th, ev, peer, call, from, freed, done, told, closes, ctl>>
    BY DEF resume_socket
  <1>2. CASE socket_invalid(id) \/ slot.type = "HALFCLOSE_READ"
    BY <1>1, <1>2, FlowBase DEF resume_socket
  <1>3. CASE ~(socket_invalid(id) \/ slot.type = "HALFCLOSE_READ")
    <2>1. /\ slot \in SlotRec /\ slot.sending <= MaxSending /\ slot.id = id
          /\ slot.type \notin {"INVALID", "RESERVE", "CONNECTING", "HALFCLOSE_READ"}
      BY <1>3 DEF Types, socket_invalid, Conn
    <2>2. /\ slot' \in SlotRec /\ SameStore(slot, slot') /\ slot'.id = slot.id
          /\ slot'.protocol = slot.protocol /\ slot'.tag = slot.tag
          /\ slot'.closing = slot.closing
          /\ slot'.type = IF slot.type = "PACCEPT" THEN "CONNECTED" ELSE slot.type
      <3> DEFINE t == [slot EXCEPT !.reading = TRUE,
                               !.type = IF @ = "PACCEPT" THEN "CONNECTED" ELSE @]
      <3>1. /\ t \in SlotRec /\ SameStore(slot, t) /\ t.id = slot.id
            /\ t.protocol = slot.protocol /\ t.tag = slot.tag
            /\ t.closing = slot.closing
            /\ t.type = IF slot.type = "PACCEPT" THEN "CONNECTED" ELSE slot.type
        BY <2>1, ResumedFields
      <3>2. slot' = t
        BY <1>3 DEF resume_socket
      <3> HIDE DEF t
      <3> QED BY <3>1, <3>2
    <2>3. /\ slot'.type \notin {"INVALID", "RESERVE", "CONNECTING", "HALFCLOSE_READ"}
          /\ HasFd /\ HasFd'
      BY <2>1, <2>2 DEF HasFd
    <2>4. Conn'
      BY <1>1, <2>1, <2>2, <2>3 DEF Conn
    <2>5. Closing'
      BY <1>1, <2>1, <2>2, <2>3 DEF Closing
    <2>6. Buffers'
      <3>1. SameLists(slot, slot')
        BY <2>2 DEF SameStore, SameLists
      <3> QED BY <1>1, <2>3, <3>1, BuffersKept
    <2>7. /\ slot'.lock = slot.lock /\ slot'.dw = slot.dw
          /\ slot'.sending <= MaxSending
      BY <2>1, <2>2 DEF SameStore
    <2>8. /\ told \subseteq told' /\ told' \subseteq Id /\ closes' \in [Id -> Nat]
          /\ freed' \subseteq Package /\ done' \subseteq Package
          /\ peer' \in PeerRec /\ ev' \in EvRec /\ th' \in ThRec
          /\ th'.at = "dec" => th'.id \in told
      BY <1>1 DEF Types, Sents
    <2> QED BY <2>1, <2>2, <2>3, <2>4, <2>5, <2>6, <2>7, <2>8, <1>1, ThreadBase
  <1> QED BY <1>2, <1>3

\* close_read: the connection is half closed, and SOCKET_CLOSE raised
\* unless it was before.
LEMMA CloseReadBase ==
    ASSUME Base, Popped, UNCHANGED <<th, peer, call, from, freed, done, told, ctl>>,
           ev' \in EvRec, th.at # "close",
           slot.type \notin {"INVALID", "RESERVE", "CONNECTING"}, slot' \in SlotRec,
           slot'.type = "HALFCLOSE_READ", SameStore(slot, slot'),
           slot'.id = slot.id, slot'.protocol = slot.protocol, slot'.tag = slot.tag,
           Raise(slot.id, RaisedBy)
    PROVE  Base'
  <1> USE DEF Base
  <1>1. slot.id \in told /\ slot.id \in Id /\ HasFd /\ HasFd'
    BY DEF Conn, Types, HasFd
  <1>2. closes \in [Id -> Nat] /\ closes[slot.id] \in Nat
    BY <1>1 DEF Types
  <1>3. closes' \in [Id -> Nat] /\ \A i \in Id : closes'[i] =
           IF i = slot.id /\ RaisedBy = "CLOSE" THEN closes[i] + 1 ELSE closes[i]
    BY <1>2, RaiseCounts
  <1>4. closes'[slot.id] = 1
    BY <1>1, <1>2, <1>3 DEF Closing, RaisedBy, None
  <1>5. Conn'
    BY <1>1 DEF Conn
  <1>6. Closing'
    BY <1>1, <1>3, <1>4 DEF Closing, Types
  <1>7. Buffers'
    <2>1. SameLists(slot, slot')
      BY DEF SameStore, SameLists
    <2> QED BY <1>1, <2>1, BuffersKept
  <1>8. /\ slot'.lock = slot.lock /\ slot'.dw = slot.dw
        /\ slot'.sending <= MaxSending
    BY DEF SameStore, Types
  <1>9. /\ told \subseteq told' /\ told' \subseteq Id
        /\ freed' \subseteq Package /\ done' \subseteq Package
        /\ peer' \in PeerRec /\ th' \in ThRec
        /\ th'.at = "dec" => th'.id \in told
    BY DEF Types, Sents
  <1> QED BY <1>1, <1>3, <1>5, <1>6, <1>7, <1>8, <1>9, ThreadBase

\* What a close raises tells whether the end of the stream was seen before.
LEMMA RaisedType ==
    /\ RaisedBy \in {None, "CLOSE", "ERR"} /\ RaisedBy # "ERR"
    /\ slot.type = "HALFCLOSE_READ" <=> RaisedBy = None
  BY DEF RaisedBy, None

\* close_socket keeps the invariant.
LEMMA CloseBase ==
    ASSUME Base, Popped, NEW id \in told, NEW shutdown \in BOOLEAN,
           close_socket(id, shutdown), th = Ctrl, UNCHANGED <<ev, call, from, ctl>>
    PROVE  Base'
  <1> USE DEF Base
  <1>1. peer' = peer /\ ev \in EvRec /\ slot \in SlotRec
    BY DEF close_socket, Types
  <1>2. CASE UNCHANGED <<slot, th, freed, done, told, closes>>
    BY <1>1, <1>2, FlowBase
  <1>3. ~socket_invalid(id) => /\ HasFd /\ slot.id = id /\ slot.type # "CONNECTING"
                               /\ slot.type \notin {"INVALID", "RESERVE", "CONNECTING"}
    BY DEF socket_invalid, HasFd, Conn
  <1>4. CASE ~socket_invalid(id) /\ BeginClose(RaisedBy, Ctrl)
    BY <1>1, <1>3, <1>4, RaisedType, BeginCloseBase
  <1>5. CASE /\ ~socket_invalid(id)
             /\ slot' = [ClosedRead(slot) EXCEPT !.closing = TRUE]
             /\ Raise(id, RaisedBy) /\ UNCHANGED <<th, freed, done, told>>
    <2> DEFINE t == ClosedRead(slot)
    <2>1. /\ t \in SlotRec /\ t.type = "HALFCLOSE_READ" /\ SameStore(slot, t)
          /\ t.id = slot.id /\ t.protocol = slot.protocol /\ t.tag = slot.tag
      BY <1>1, ClosedReadFields
    <2> HIDE DEF t
    <2>2. /\ slot' \in SlotRec /\ slot'.type = t.type /\ SameStore(t, slot')
          /\ slot'.id = t.id /\ slot'.protocol = t.protocol /\ slot'.tag = t.tag
      <3> DEFINE u == [t EXCEPT !.closing = TRUE]
      <3>1. /\ u \in SlotRec /\ u.type = t.type /\ SameStore(t, u)
            /\ u.id = t.id /\ u.protocol = t.protocol /\ u.tag = t.tag
        BY <2>1, SetField
      <3>2. slot' = u
        BY <1>5 DEF t
      <3> HIDE DEF u
      <3> QED BY <3>1, <3>2
    <2>3. SameStore(slot, slot')
      BY <2>1, <2>2 DEF SameStore
    <2>4. th.at # "close"
      BY CtrlEvents
    <2> QED BY <1>1, <1>3, <1>5, <2>1, <2>2, <2>3, <2>4, CloseReadBase
  <1> QED BY <1>2, <1>4, <1>5 DEF close_socket

\* send_socket keeps the invariant.
LEMMA SendSocketBase ==
    ASSUME Base, Popped, NEW id \in told, NEW p \in Package, NEW prio \in {"high", "low"},
           send_socket(id, p, prio), UNCHANGED <<ev, call, from, ctl>>
    PROVE  Base'
  <1> USE DEF Base
  <1>1. /\ UNCHANGED <<peer, done, told, closes>> /\ th' = [Doing("dec") EXCEPT !.id = id]
    BY DEF send_socket
  <1>2. /\ slot \in SlotRec /\ slot.sending <= MaxSending /\ id \in 0 .. MaxId
        /\ slot.high \in Buffer /\ slot.low \in Buffer
    <2>1. id \in Id
      BY DEF Types
    <2>2. id \in 0 .. MaxId
      BY <2>1, BoundAssumption DEF Id
    <2> QED BY <2>2, SlotFields DEF Types
  <1>3. th' \in ThRec /\ th'.at = "dec" /\ th'.id = id
    BY <1>1, <1>2 DEF ThRec, Doing
  <1>4. freed' \subseteq Package
    BY DEF send_socket, Types
  <1>5. /\ slot' \in SlotRec /\ SameConn(slot, slot') /\ slot'.dw = slot.dw
        /\ slot'.lock = slot.lock /\ slot'.sending = slot.sending
        /\ \/ SameLists(slot, slot')
           \/ HasFd /\ slot'.high = slot.high \o Bytes(p) /\ slot'.low = slot.low
           \/ HasFd /\ slot'.high = slot.high /\ slot'.low = slot.low \o Bytes(p)
    <2> DEFINE h == slot.high \o Bytes(p)
               l == slot.low \o Bytes(p)
               x == send_buffer_empty
    <2>1. h \in Buffer /\ l \in Buffer
      BY <1>2, BytesBuffer, ConcatBuffer
    <2>2. CASE slot' = slot
      BY <1>2, <2>2, SameSlot
    <2>3. CASE HasFd /\ slot' = [slot EXCEPT !.low = l]
      <3> HIDE DEF l
      <3>1. /\ slot' \in SlotRec /\ SameConn(slot, slot') /\ slot'.high = slot.high
            /\ slot'.low = l /\ slot'.dw = slot.dw /\ slot'.lock = slot.lock
            /\ slot'.sending = slot.sending
        BY <1>2, <2>1, <2>3, SetField
      <3> QED BY <2>3, <3>1 DEF l
    <2>4. CASE HasFd /\ slot' = [slot EXCEPT !.high = h, !.writing = @ \/ x]
      <3>1. x \in BOOLEAN
        BY DEF send_buffer_empty
      <3> HIDE DEF h, x
      <3> DEFINE t == [slot EXCEPT !.high = h, !.writing = @ \/ x]
      <3>2. /\ t \in SlotRec /\ SameConn(slot, t) /\ t.high = h
            /\ t.low = slot.low /\ t.dw = slot.dw /\ t.lock = slot.lock
            /\ t.sending = slot.sending
        BY <1>2, <2>1, <3>1, ListedFields
      <3> HIDE DEF t
      <3>3. slot' = t
        BY <2>4 DEF t
      <3> QED BY <2>4, <3>2, <3>3 DEF h
    <2>5. CASE ~(slot' = slot)
      <3>1. ~socket_invalid(id)
        BY <2>5 DEF send_socket
      <3>2. HasFd
        BY <3>1 DEF HasFd, socket_invalid, Conn
      <3> QED BY <2>3, <2>4, <2>5, <3>2 DEF send_socket
    <2> QED BY <2>2, <2>5
  <1>6. HasFd' <=> HasFd
    BY <1>5 DEF HasFd, SameConn
  <1>7. Conn' /\ Closing'
    BY <1>1, <1>3, <1>5, ConnKept, ClosingKept
  <1>8. Buffers'
    <2>1. CASE SameLists(slot, slot')
      BY <1>6, <2>1, BuffersKept
    <2>2. /\ Bytes(p) \in Buffer /\ Len(Bytes(p)) = Size /\ Cut(Bytes(p))
          /\ Fresh(Bytes(p)) /\ Bytes(p)[1] = <<p, 1>>
      BY BytesBuffer, SizeAssumption
    <2>3. ASSUME NEW b \in Buffer, Cut(b)
          PROVE  /\ Cut(b \o Bytes(p))
                 /\ Fresh(b) => Fresh(b \o Bytes(p))
      <3>1. Cut(b \o Bytes(p))
        BY <2>2, <2>3, CutConcat
      <3>2. ASSUME Fresh(b) PROVE Fresh(b \o Bytes(p))
        <4>1. CASE b = <<>>
          <5>1. b \o Bytes(p) = Bytes(p)
            BY <2>2, <4>1 DEF Buffer
          <5> QED BY <2>2, <5>1
        <4>2. CASE b # <<>>
          <5>1. (b \o Bytes(p))[1] = b[1]
            BY <2>2, <4>2, BufferBytes, ConcatBuffer
          <5> QED BY <3>2, <4>2, <5>1 DEF Fresh
        <4> QED BY <4>1, <4>2
      <3> QED BY <3>1, <3>2
    <2>4. CASE HasFd /\ slot'.high = slot.high \o Bytes(p) /\ slot'.low = slot.low
      <3>1. Cut(slot'.high) /\ (Fresh(slot.high) => Fresh(slot'.high))
        BY <1>2, <2>3, <2>4 DEF Buffers
      <3> QED BY <1>5, <1>6, <2>4, <3>1 DEF Buffers
    <2>5. CASE HasFd /\ slot'.high = slot.high /\ slot'.low = slot.low \o Bytes(p)
      <3>1. Cut(slot'.low) /\ Fresh(slot'.low)
        BY <1>2, <2>3, <2>5 DEF Buffers
      <3> QED BY <1>5, <1>6, <2>5, <3>1 DEF Buffers
    <2> QED BY <1>5, <2>1, <2>4, <2>5
  <1>9. /\ told \subseteq told' /\ told' \subseteq Id /\ closes' \in [Id -> Nat]
        /\ done' \subseteq Package /\ peer' \in PeerRec /\ ev' \in EvRec
    BY <1>1 DEF Types
  <1>10. /\ slot'.id = slot.id /\ slot'.type = slot.type /\ slot'.sending <= MaxSending
         /\ slot.lock # None => HasFd'
    BY <1>2, <1>5, <1>6 DEF SameConn, Locking
  <1> QED BY <1>3, <1>4, <1>5, <1>7, <1>8, <1>9, <1>10, ThreadBase

\* Every request keeps the invariant.
LEMMA CtrlBase ==
    ASSUME Base, ctrl_cmd
    PROVE  Base'
  <1> USE DEF Base
  <1> DEFINE r == Head(pipe)
  <1>1. /\ th = Ctrl /\ pipe # <<>> /\ pipe' = Tail(pipe) /\ Popped
        /\ UNCHANGED <<ev, call, from, ctl>>
    BY DEF ctrl_cmd, Popped
  <1>2. /\ r.cmd # "O" => r.id \in told
        /\ r.cmd \in {"D", "P"} => r.pk \in Package
    <2>1. 1 \in DOMAIN pipe /\ Head(pipe) = pipe[1]
      BY <1>1 DEF Types
    <2> QED BY <2>1 DEF Pipes, Carries
  <1>3. CASE r.cmd = "O" /\ open_socket(r.id)
    BY <1>1, <1>3, OpenBase
  <1>4. CASE r.cmd = "R" /\ resume_socket(r.id)
    BY <1>1, <1>2, <1>4, ResumeBase
  <1>5. CASE r.cmd = "S" /\ pause_socket(r.id)
    BY <1>1, <1>5, FlowBase DEF pause_socket
  <1>6. CASE r.cmd = "K" /\ close_socket(r.id, FALSE)
    BY <1>1, <1>2, <1>6, CloseBase
  <1>7. CASE r.cmd = "shutdown" /\ close_socket(r.id, TRUE)
    BY <1>1, <1>2, <1>7, CloseBase
  <1>8. CASE r.cmd = "W" /\ trigger_write(r.id)
    BY <1>1, <1>8, FlowBase DEF trigger_write
  <1>9. CASE r.cmd = "D" /\ send_socket(r.id, r.pk, "high")
    BY <1>1, <1>2, <1>9, SendSocketBase
  <1>10. CASE r.cmd = "P" /\ send_socket(r.id, r.pk, "low")
    BY <1>1, <1>2, <1>10, SendSocketBase
  <1> QED BY <1>3, <1>4, <1>5, <1>6, <1>7, <1>8, <1>9, <1>10 DEF ctrl_cmd

\* dec_sending_ref keeps the invariant.
LEMMA DecSendingBase ==
    ASSUME Base, DecSending
    PROVE  Base'
  <1> USE DEF Base
  <1>1. /\ th' = Ctrl
        /\ slot' = slot \/ slot' = [slot EXCEPT !.sending = @ - 1]
        /\ UNCHANGED <<pipe, ev, peer, call, from, freed, done, told, closes, ctl>>
    BY DEF DecSending, ghosts
  <1>2. /\ slot \in SlotRec /\ slot.sending <= MaxSending /\ slot.sending \in Int
        /\ ev' \in EvRec /\ peer' \in PeerRec
    BY <1>1, SlotFields DEF Types
  <1>3. /\ slot' \in SlotRec /\ SameConn(slot, slot') /\ SameLists(slot, slot')
        /\ slot'.lock = slot.lock /\ slot'.sending <= MaxSending
    <2>1. CASE slot' = slot
      BY <1>2, <2>1, SameSlot
    <2>2. CASE slot' = [slot EXCEPT !.sending = @ - 1]
      <3>1. slot.sending - 1 \in Int /\ slot.sending - 1 <= MaxSending
        BY <1>2, SendingAssumption
      <3> QED BY <1>2, <2>2, <3>1, SetField
    <2> QED BY <1>1, <2>1, <2>2
  <1>4. th' \in ThRec /\ th'.at \notin {"close", "dec"}
    BY <1>1, CtrlEvents
  <1> QED BY <1>1, <1>2, <1>3, <1>4, QuietBase DEF Popped

\* NoCmd, the end of a wait, and the events that leave the slot alone
LEMMA IdleBase ==
    ASSUME Base, UNCHANGED <<slot, pipe, call, from, freed, done, told, closes, ctl>>,
           th' \in {th, Ctrl, Events}, ev' \in EvRec,
           ev' = ev \/ ev' = NoEvent \/ HasFd, peer' \in PeerRec
    PROVE  Base'
  <1> USE DEF Base
  <1>1. /\ slot' \in SlotRec /\ slot'.sending <= MaxSending /\ th \in ThRec
    BY DEF Types
  <1>2. th' \in ThRec /\ (th' = th \/ th'.at \notin {"close", "dec"})
    BY <1>1, CtrlEvents
  <1>3. SameConn(slot, slot') /\ SameLists(slot, slot') /\ slot'.lock = slot.lock
    BY SameSlot
  <1> QED BY <1>1, <1>2, <1>3, QuietBase DEF Popped

\* sp_wait keeps the invariant.
LEMMA WaitBase ==
    ASSUME Base, NEW data \in BOOLEAN, Wait(data)
    PROVE  Base'
  <1> USE DEF Base
  <1>1. /\ th' = Ctrl
        /\ ev' = NoEvent \/ (HasFd /\ ev' = Reported(data))
        /\ UNCHANGED <<slot, pipe, peer, call, from, freed, done, told, closes, ctl>>
    BY DEF Wait, ghosts
  <1>2. slot.reading \in BOOLEAN /\ slot.writing \in BOOLEAN /\ peer.fin \in BOOLEAN
    BY SlotFields DEF Types, PeerRec
  <1>3. Reported(data) \in EvRec
    BY <1>2 DEF Reported, EvRec
  <1>4. ev' \in EvRec /\ peer' \in PeerRec
    BY <1>1, <1>3, CtrlEvents DEF Types
  <1> QED BY <1>1, <1>4, IdleBase

\* report_accept keeps the invariant.
LEMMA AcceptBase ==
    ASSUME Base, Accept
    PROVE  Base'
  <1> USE DEF Base
  <1> DEFINE id == slot.id + 1
             t == NewFd(id, FALSE, "PACCEPT")
  <1>1. /\ slot.type = "INVALID" /\ slot.id < MaxId /\ ev = NoEvent /\ slot.lock = None
        /\ th = Events /\ slot' = t /\ peer' = NewPeer /\ told' = told \union {id}
        /\ UNCHANGED <<pipe, th, ev, call, from, freed, done, closes, ctl>>
    BY DEF Accept, Reservable
  <1>2. /\ slot \in SlotRec /\ slot.id \in 0 .. MaxId /\ NewPeer \in PeerRec
        /\ slot.high = <<>> /\ slot.low = <<>> /\ "PACCEPT" \in Type
    BY <1>1, SlotFields, EmptyBuffer DEF Types, Buffers, HasFd, NewPeer, PeerRec, Type
  <1>3. id \in Id /\ id # slot.id
    BY <1>1, <1>2, BoundAssumption DEF Id
  <1>4. \A i \in told : i # id
    BY <1>2, BoundAssumption DEF Conn
  <1>5. told' \subseteq 1 .. id
    BY <1>1, <1>2, BoundAssumption DEF Conn
  <1> HIDE DEF id
  <1>6. /\ t \in SlotRec /\ t.id = id /\ t.type = "PACCEPT" /\ t.protocol = "TCP"
        /\ t.tag = id /\ t.sending = 0 /\ t.closing = FALSE
        /\ t.high = slot.high /\ t.low = slot.low /\ t.dw = <<>>
        /\ t.lock = slot.lock
    BY <1>2, <1>3, NewFdFields
  <1> HIDE DEF t
  <1>7. Conn'
    BY <1>1, <1>5, <1>6 DEF Conn, HasFd
  <1>8. Closing'
    <2>1. \A i \in told : closes[i] = 1
      BY <1>1 DEF Closing
    <2>2. closes[id] = 0
      BY <1>3, <1>4 DEF Closing
    <2>3. th.at # "close"
      BY <1>1, CtrlEvents
    <2> QED BY <1>1, <1>6, <2>1, <2>2, <2>3 DEF Closing
  <1>9. Buffers'
    BY <1>1, <1>2, <1>6, EmptyBuffer DEF Buffers
  <1>10. /\ told \subseteq told' /\ told' \subseteq Id /\ closes' \in [Id -> Nat]
         /\ freed' \subseteq Package /\ done' \subseteq Package /\ ev' \in EvRec
         /\ th' \in ThRec
         /\ th'.at = "dec" => th'.id \in told
    BY <1>1, <1>3 DEF Types, Sents
  <1>11. slot'.sending <= MaxSending
    BY <1>1, <1>6, SendingAssumption
  <1>12. peer' \in PeerRec /\ slot' \in SlotRec /\ slot'.lock = slot.lock /\ Popped
         /\ slot.type # "RESERVE" /\ UNCHANGED <<call, from, ctl>>
    BY <1>1, <1>2, <1>6 DEF Popped
  <1> QED
    BY <1>1, <1>7, <1>8, <1>9, <1>10, <1>11, <1>12, ThreadBase

\* What the other end does keeps the invariant.
LEMMA PeerBase ==
    ASSUME Base, PeerCloses \/ PeerResets
    PROVE  Base'
  <1>1. /\ UNCHANGED <<slot, pipe, th, ev, call, from, freed, done, told, closes, ctl>>
        /\ \/ peer' = [peer EXCEPT !.fin = TRUE]
           \/ peer' = [peer EXCEPT !.rst = "reset"]
    BY DEF PeerCloses, PeerResets, ghosts
  <1>2. peer' \in PeerRec /\ ev' \in EvRec
    BY <1>1 DEF Base, Types, PeerRec
  <1> QED BY <1>1, <1>2, IdleBase

\* report_connect keeps the invariant.
LEMMA ConnectedBase ==
    ASSUME Base, InEvent, report_connect, UNCHANGED <<pipe, call, from, ctl>>
    PROVE  Base'
  <1> USE DEF Base
  <1>1. /\ slot.type = "CONNECTING" /\ ev' = NoEvent /\ peer' = peer /\ th = Events
    BY DEF report_connect, InEvent
  <1>2. /\ HasFd /\ Popped /\ slot \in SlotRec /\ slot.id \in Id /\ slot.id \notin told
        /\ slot.sending <= MaxSending
    BY <1>1 DEF HasFd, Popped, Types, Conn
  <1>3. CASE BeginClose("ERR", Events)
    <2>1. slot.type # "HALFCLOSE_READ" /\ None # "ERR"
      BY <1>1 DEF None
    <2> QED BY <1>1, <1>2, <1>3, <2>1, CtrlEvents, BeginCloseBase
  <1>4. CASE /\ slot' = [slot EXCEPT !.type = "CONNECTED",
                                     !.writing = @ /\ ~nomore_sending_data]
             /\ told' = told \union {slot.id} /\ UNCHANGED <<th, freed, done, closes>>
    <2>0. PICK x \in BOOLEAN : x = (slot.writing /\ ~nomore_sending_data)
      OBVIOUS
    <2> DEFINE t == [slot EXCEPT !.type = "CONNECTED", !.writing = x]
    <2>1. "CONNECTED" \in Type
      BY DEF Type
    <2>2. /\ t \in SlotRec /\ t.type = "CONNECTED" /\ SameStore(slot, t)
          /\ t.id = slot.id /\ t.protocol = slot.protocol /\ t.tag = slot.tag
          /\ t.closing = slot.closing
      <3> DEFINE a == [slot EXCEPT !.type = "CONNECTED"]
                 b == [a EXCEPT !.writing = x]
      <3>1. /\ a \in SlotRec /\ a.type = "CONNECTED" /\ SameStore(slot, a)
            /\ a.id = slot.id /\ a.protocol = slot.protocol /\ a.tag = slot.tag
            /\ a.closing = slot.closing
        BY <1>2, <2>1, SetField
      <3> HIDE DEF a
      <3>2. b \in SlotRec /\ SameConn(a, b) /\ SameStore(a, b)
        BY <3>1, SetField
      <3> HIDE DEF b
      <3>3. b = t
        BY DEF a, b
      <3> HIDE DEF t
      <3> QED BY <3>1, <3>2, <3>3 DEF SameConn, SameStore
    <2>3. slot' = t
      BY <1>4, <2>0
    <2> HIDE DEF t
    <2>4. /\ slot' \in SlotRec /\ slot'.type = "CONNECTED" /\ SameStore(slot, slot')
          /\ slot'.id = slot.id /\ slot'.protocol = slot.protocol
          /\ slot'.tag = slot.tag /\ slot'.closing = slot.closing /\ HasFd'
      BY <2>2, <2>3 DEF HasFd
    <2>5. Conn'
      <3>1. slot.id \in 1 .. slot.id
        BY <1>2, BoundAssumption DEF Id
      <3> QED BY <1>1, <1>2, <1>4, <2>4, <3>1 DEF Conn
    <2>6. Closing'
      BY <1>1, <1>2, <1>4, <2>4, CtrlEvents DEF Closing
    <2>7. Buffers'
      <3>1. SameLists(slot, slot')
        BY <2>4 DEF SameStore, SameLists
      <3> QED BY <2>4, <3>1, BuffersKept
    <2>8. /\ told \subseteq told' /\ told' \subseteq Id /\ closes' \in [Id -> Nat]
          /\ freed' \subseteq Package /\ done' \subseteq Package
          /\ peer' \in PeerRec /\ ev' \in EvRec /\ th' \in ThRec
          /\ th'.at = "dec" => th'.id \in told
      BY <1>1, <1>2, <1>4, CtrlEvents DEF Types, Sents
    <2>9. /\ slot'.lock = slot.lock /\ slot'.dw = slot.dw
          /\ slot'.sending <= MaxSending /\ slot.type # "RESERVE"
      BY <1>1, <1>2, <2>4 DEF SameStore
    <2> QED BY <1>2, <2>4, <2>5, <2>6, <2>7, <2>8, <2>9, ThreadBase
  <1> QED BY <1>3, <1>4 DEF report_connect

\* What is left of an event after reading is an event.
LEMMA AfterReadType ==
    ASSUME ev \in EvRec
    PROVE  AfterRead \in EvRec
  BY CtrlEvents DEF AfterRead, EvRec

\* forward_message_tcp keeps the invariant.
LEMMA ForwardBase ==
    ASSUME Base, InEvent, forward_message_tcp, UNCHANGED <<pipe, call, from, ctl>>
    PROVE  Base'
  <1> USE DEF Base
  <1>1. /\ slot.type \notin {"INVALID", "RESERVE", "CONNECTING"} /\ HasFd /\ th = Events
        /\ slot \in SlotRec /\ ev \in EvRec /\ peer \in PeerRec /\ Popped
    BY DEF forward_message_tcp, Dispatched, InEvent, Conn, HasFd, Types, Popped
  <1>2. AfterRead \in EvRec /\ NoEvent \in EvRec
    BY <1>1, AfterReadType, CtrlEvents
  <1>3. CASE ReadData
    BY <1>1, <1>2, <1>3, IdleBase DEF ReadData
  <1>4. CASE ReadError
    <2>1. Consumed \in PeerRec
      BY <1>1, ConsumedType
    <2> QED BY <1>1, <1>2, <1>4, <2>1, IdleBase DEF ReadError
  <1>5. CASE ReadEnd
    <2>1. peer' = peer /\ ev' \in EvRec
      BY <1>2, <1>5 DEF ReadEnd
    <2>2. CASE slot.closing /\ BeginClose(None, Events)
      <3>1. slot.type = "HALFCLOSE_READ" /\ None # "ERR"
        BY <1>1, <2>2 DEF Closing, None
      <3> QED BY <1>1, <2>1, <2>2, <3>1, BeginCloseBase
    <2>3. CASE UNCHANGED <<slot, th, freed, done, told, closes>>
      BY <1>1, <2>1, <2>3, IdleBase
    <2>4. CASE slot.type = "HALFCLOSE_WRITE" /\ BeginClose("CLOSE", Events)
      <3>1. None # "CLOSE"
        BY DEF None
      <3> QED BY <1>1, <2>1, <2>4, <3>1, BeginCloseBase
    <2>5. CASE /\ slot.type \notin {"HALFCLOSE_READ", "HALFCLOSE_WRITE"}
               /\ slot' = ClosedRead(slot) /\ Raise(slot.id, "CLOSE")
               /\ UNCHANGED <<th, freed, done, told>>
      <3> DEFINE t == ClosedRead(slot)
      <3>1. /\ t \in SlotRec /\ t.type = "HALFCLOSE_READ" /\ SameStore(slot, t)
            /\ t.id = slot.id /\ t.protocol = slot.protocol /\ t.tag = slot.tag
        BY <1>1, ClosedReadFields
      <3> HIDE DEF t
      <3>2. slot' = t /\ th.at # "close"
        BY <1>1, <2>5, CtrlEvents DEF t
      <3>3. Raise(slot.id, RaisedBy)
        BY <2>5 DEF RaisedBy
      <3> QED BY <1>1, <2>1, <2>5, <3>1, <3>2, <3>3, CloseReadBase
    <2> QED BY <1>5, <2>2, <2>3, <2>4, <2>5 DEF ReadEnd
  <1> QED BY <1>3, <1>4, <1>5 DEF forward_message_tcp

\* send_buffer puts what a direct write left before the high list.
LEMMA WithDwFields ==
    ASSUME Types, Buffers
    PROVE  /\ WithDw(slot) \in SlotRec /\ SameBut(slot, WithDw(slot))
           /\ WithDw(slot).high = slot.dw \o slot.high
           /\ WithDw(slot).low = slot.low /\ WithDw(slot).dw = <<>>
           /\ Cut(slot.dw \o slot.high) /\ slot.dw \o slot.high \in Buffer
  <1>1. /\ slot \in SlotRec /\ slot.high \in Buffer /\ slot.low \in Buffer
        /\ slot.dw \in Buffer
    BY SlotFields DEF Types
  <1> DEFINE h == slot.dw \o slot.high
             t == WithBuffers(slot, h, slot.low, <<>>)
  <1>2. h \in Buffer
    BY <1>1, ConcatBuffer
  <1>3. Cut(h)
    <2>1. CASE slot.dw = <<>>
      <3>1. h = slot.high
        BY <1>1, <2>1 DEF Buffer
      <3> QED BY <3>1 DEF Buffers
    <2>2. CASE slot.dw # <<>>
      BY <1>1, <2>2, CutConcat DEF Buffers
    <2> QED BY <2>1, <2>2
  <1> HIDE DEF h
  <1>4. t \in SlotRec /\ SameBut(slot, t)
    BY <1>1, <1>2, EmptyBuffer, WithBuffersFields
  <1>5. t.high = h /\ t.low = slot.low /\ t.dw = <<>>
    BY <1>1, <1>2 DEF WithBuffers, SlotRec
  <1> HIDE DEF t
  <1>6. t = WithDw(slot)
    BY DEF WithDw, t, h
  <1> QED BY <1>2, <1>3, <1>4, <1>5, <1>6 DEF h

\* The write event, the lock not taken: what the slot becomes
LEMMA WriteBase ==
    ASSUME Base, UNCHANGED <<pipe, call, from, ctl, th, told, closes>>,
           slot.type \notin {"INVALID", "RESERVE", "CONNECTING"}, slot.lock = None,
           th.at # "close",
           ev' = NoEvent, peer' \in PeerRec, freed' \subseteq Package,
           done' \subseteq Package, slot' \in SlotRec, slot'.sending = slot.sending,
           slot'.lock = slot.lock, slot'.id = slot.id,
           slot'.protocol = slot.protocol, slot'.tag = slot.tag,
           slot'.closing = slot.closing,
           \/ slot'.type = slot.type
           \/ slot'.type = "INVALID" /\ slot.type = "HALFCLOSE_READ"
           \/ slot'.type = "HALFCLOSE_WRITE" /\ ~slot.closing
                /\ slot.type # "HALFCLOSE_READ",
           slot'.type = "INVALID" => slot'.high = <<>> /\ slot'.low = <<>>,
           slot'.dw = <<>>, Cut(slot'.high), Cut(slot'.low), Fresh(slot'.low)
    PROVE  Base'
  <1> USE DEF Base
  <1>1. slot.id \in told /\ HasFd /\ slot.protocol = "TCP"
    BY DEF Conn, HasFd
  <1>2. slot'.type # "RESERVE" /\ slot'.type # "CONNECTING"
    OBVIOUS
  <1>3. Conn'
    BY <1>1, <1>2 DEF Conn, HasFd
  <1>4. Closing'
    BY <1>1, <1>2 DEF Closing, HasFd
  <1>5. Buffers'
    <2>1. \A w \in Worker : call[w].at # "flags"
      BY LockAssumption DEF Locking, HasLock
    <2>2. ~HasFd' => slot'.type = "INVALID"
      BY <1>2 DEF HasFd
    <2> QED BY <2>1, <2>2, EmptyBuffer DEF Buffers
  <1>6. /\ Popped /\ told \subseteq told' /\ told' \subseteq Id
        /\ closes' \in [Id -> Nat] /\ th' \in ThRec /\ ev' \in EvRec
        /\ slot'.sending <= MaxSending
    BY CtrlEvents DEF Popped, Types
  <1>7. th'.at = "dec" => th'.id \in told
    BY DEF Sents
  <1> QED BY <1>3, <1>4, <1>5, <1>6, <1>7, ThreadBase

\* send_buffer that writes keeps the invariant.
LEMMA SendBase ==
    ASSUME Base, InEvent, NEW n \in Nat, send_buffer(n), UNCHANGED <<pipe, call, from, ctl>>
    PROVE  Base'
  <1> USE DEF Base
  <1> DEFINE s == WithDw(slot)
             all == s.high \o s.low
             r == Wrote(s, n)
  <1>1. /\ slot.type \notin {"INVALID", "RESERVE", "CONNECTING"} /\ slot.lock = None
        /\ ev' = NoEvent /\ UNCHANGED <<th, told, closes>> /\ th.at # "close"
    BY CtrlEvents DEF send_buffer, WriteReady, Dispatched, InEvent, Conn
  <1>2. /\ s \in SlotRec /\ SameBut(slot, s) /\ s.high = slot.dw \o slot.high
        /\ s.low = slot.low /\ s.dw = <<>> /\ Cut(s.high) /\ Cut(s.low)
        /\ Fresh(s.low) /\ s.high \in Buffer /\ s.low \in Buffer
    BY WithDwFields, SlotFields DEF Buffers, Types
  <1>3. /\ n <= Len(all) /\ peer' = Sent(SubSeq(all, 1, n)) /\ freed' = freed
        /\ done' = done \union (In(SubSeq(all, 1, n)) \ In(SubSeq(all, n + 1, Len(all))))
        /\ \/ slot' = r
           \/ slot.closing /\ slot' = Closed(r)
           \/ slot' = [r EXCEPT !.writing = FALSE]
    BY DEF send_buffer, SendSome
  <1> HIDE DEF s
  <1>4. /\ r \in SlotRec /\ SameBut(s, r) /\ r.dw = s.dw
        /\ Cut(r.high) /\ Cut(r.low) /\ Fresh(r.low)
    BY <1>2, <1>3, WroteFields
  <1>5. all \in Buffer
    BY <1>2, ConcatBuffer
  <1> HIDE DEF r, all
  <1>6. SubSeq(all, 1, n) \in Buffer
    <2>1. Len(all) \in Nat
      BY <1>5, BufferBytes
    <2> QED BY <1>3, <1>5, <2>1 DEF Buffer
  <1>7. /\ peer' \in PeerRec /\ freed' \subseteq Package /\ done' \subseteq Package
    BY <1>3, <1>6, SentType, BufferBytes DEF Types
  <1>8. /\ slot' \in SlotRec /\ slot'.sending = r.sending /\ slot'.lock = r.lock
        /\ slot'.id = r.id /\ slot'.protocol = r.protocol /\ slot'.tag = r.tag
        /\ slot'.closing = r.closing /\ slot'.dw = <<>>
        /\ Cut(slot'.high) /\ Cut(slot'.low) /\ Fresh(slot'.low)
        /\ \/ slot'.type = r.type
           \/ /\ slot'.type = "INVALID" /\ slot.closing
              /\ slot'.high = <<>> /\ slot'.low = <<>>
    <2>1. CASE slot' = r
      BY <1>2, <1>4, <2>1
    <2>2. CASE slot.closing /\ slot' = Closed(r)
      <3> DEFINE t == Closed(r)
      <3>1. /\ t \in SlotRec /\ t.type = "INVALID" /\ t.high = <<>>
            /\ t.low = <<>> /\ t.dw = <<>> /\ t.id = r.id
            /\ t.protocol = r.protocol /\ t.tag = r.tag /\ t.closing = r.closing
            /\ t.sending = r.sending /\ t.lock = r.lock
        BY <1>4, ClosedFields
      <3> HIDE DEF t
      <3>2. slot' = t
        BY <2>2 DEF t
      <3> QED BY <2>2, <3>1, <3>2, EmptyBuffer
    <2>3. CASE slot' = [r EXCEPT !.writing = FALSE]
      <3>1. slot' \in SlotRec /\ SameConn(r, slot') /\ SameStore(r, slot')
        BY <1>4, <2>3, SetField
      <3> QED BY <1>2, <1>4, <3>1 DEF SameConn, SameStore
    <2> QED BY <1>3, <2>1, <2>2, <2>3
  <1>9. /\ slot'.sending = slot.sending /\ slot'.lock = slot.lock
        /\ slot'.id = slot.id /\ slot'.protocol = slot.protocol /\ slot'.tag = slot.tag
        /\ slot'.closing = slot.closing /\ r.type = slot.type
    BY <1>2, <1>4, <1>8 DEF SameBut
  <1>10. slot.closing => slot.type = "HALFCLOSE_READ"
    BY <1>1 DEF Closing, HasFd
  <1> QED BY <1>1, <1>7, <1>8, <1>9, <1>10, WriteBase

\* send_buffer that fails keeps the invariant.
LEMMA SendFailsBase ==
    ASSUME Base, InEvent, SendBufferFails, UNCHANGED <<pipe, call, from, ctl>>
    PROVE  Base'
  <1> USE DEF Base
  <1> DEFINE s == WithDw(slot)
             all == s.high \o s.low
  <1>1. /\ slot.type \notin {"INVALID", "RESERVE", "CONNECTING"} /\ slot.lock = None
        /\ ev' = NoEvent /\ UNCHANGED <<th, told, closes>> /\ th.at # "close"
    BY CtrlEvents DEF SendBufferFails, WriteReady, Dispatched, InEvent, Conn
  <1>2. /\ s \in SlotRec /\ SameBut(slot, s) /\ s.high = slot.dw \o slot.high
        /\ s.low = slot.low /\ s.dw = <<>> /\ Cut(s.high) /\ Cut(s.low)
        /\ Fresh(s.low) /\ s.high \in Buffer /\ s.low \in Buffer
    BY WithDwFields, SlotFields DEF Buffers, Types
  <1>3. /\ peer' = Consumed /\ done' = done
        /\ freed' \in {freed, freed \union In(all)}
        /\ \/ (slot.closing \/ slot.type = "HALFCLOSE_READ") /\ slot' = Closed(s)
           \/ slot' = s
           \/ /\ ~slot.closing /\ slot.type # "HALFCLOSE_READ"
              /\ slot' = [s EXCEPT !.type = "HALFCLOSE_WRITE", !.writing = FALSE]
    BY DEF SendBufferFails, SendFails
  <1> HIDE DEF s
  <1>4. all \in Buffer
    BY <1>2, ConcatBuffer
  <1> HIDE DEF all
  <1>5. peer' \in PeerRec /\ freed' \subseteq Package /\ done' \subseteq Package
    BY <1>3, <1>4, ConsumedType, BufferBytes DEF Types
  <1>6. slot.closing => slot.type = "HALFCLOSE_READ"
    BY <1>1 DEF Closing, HasFd
  <1>7. /\ slot' \in SlotRec /\ slot'.sending = s.sending /\ slot'.lock = s.lock
        /\ slot'.id = s.id /\ slot'.protocol = s.protocol /\ slot'.tag = s.tag
        /\ slot'.closing = s.closing /\ slot'.dw = <<>>
        /\ Cut(slot'.high) /\ Cut(slot'.low) /\ Fresh(slot'.low)
        /\ \/ slot'.type = s.type
           \/ /\ slot'.type = "INVALID" /\ slot.type = "HALFCLOSE_READ"
              /\ slot'.high = <<>> /\ slot'.low = <<>>
           \/ /\ slot'.type = "HALFCLOSE_WRITE" /\ ~slot.closing
              /\ slot.type # "HALFCLOSE_READ"
    <2>1. CASE slot' = s
      BY <1>2, <2>1
    <2>2. CASE slot.type = "HALFCLOSE_READ" /\ slot' = Closed(s)
      <3> DEFINE t == Closed(s)
      <3>1. /\ t \in SlotRec /\ t.type = "INVALID" /\ t.high = <<>>
            /\ t.low = <<>> /\ t.dw = <<>> /\ t.id = s.id
            /\ t.protocol = s.protocol /\ t.tag = s.tag /\ t.closing = s.closing
            /\ t.sending = s.sending /\ t.lock = s.lock
        BY <1>2, ClosedFields
      <3> HIDE DEF t
      <3>2. slot' = t
        BY <2>2 DEF t
      <3> QED BY <2>2, <3>1, <3>2, EmptyBuffer
    <2>3. CASE /\ ~slot.closing /\ slot.type # "HALFCLOSE_READ"
               /\ slot' = [s EXCEPT !.type = "HALFCLOSE_WRITE", !.writing = FALSE]
      <3> DEFINE a == [s EXCEPT !.type = "HALFCLOSE_WRITE"]
                 b == [a EXCEPT !.writing = FALSE]
      <3>1. "HALFCLOSE_WRITE" \in Type
        BY DEF Type
      <3>2. /\ a \in SlotRec /\ a.type = "HALFCLOSE_WRITE" /\ SameStore(s, a)
            /\ a.id = s.id /\ a.protocol = s.protocol /\ a.tag = s.tag
            /\ a.closing = s.closing
        BY <1>2, <3>1, SetField
      <3> HIDE DEF a
      <3>3. b \in SlotRec /\ SameConn(a, b) /\ SameStore(a, b)
        BY <3>2, SetField
      <3> HIDE DEF b
      <3>4. slot' = b
        BY <2>3 DEF a, b
      <3> QED BY <1>2, <2>3, <3>2, <3>3, <3>4 DEF SameConn, SameStore
    <2> QED BY <1>3, <1>6, <2>1, <2>2, <2>3
  <1>8. /\ slot'.sending = slot.sending /\ slot'.lock = slot.lock
        /\ slot'.id = slot.id /\ slot'.protocol = slot.protocol /\ slot'.tag = slot.tag
        /\ slot'.closing = slot.closing /\ s.type = slot.type
    BY <1>2, <1>7 DEF SameBut
  <1> QED BY <1>1, <1>5, <1>7, <1>8, WriteBase

\* Every event keeps the invariant.
LEMMA DispatchBase ==
    ASSUME Base, Dispatch
    PROVE  Base'
  <1> USE DEF Base
  <1>1. InEvent /\ th = Events /\ UNCHANGED <<pipe, call, from, ctl>> /\ Popped
    BY DEF Dispatch, InEvent, Popped
  <1>2. peer \in PeerRec /\ ev \in EvRec /\ NoEvent \in EvRec
    BY CtrlEvents DEF Types
  <1>3. CASE Stale
    BY <1>1, <1>2, <1>3, IdleBase DEF Stale
  <1>4. CASE report_connect
    BY <1>1, <1>4, ConnectedBase
  <1>5. CASE forward_message_tcp
    BY <1>1, <1>5, ForwardBase
  <1>6. CASE \E n \in 0 .. Size * NPackage : send_buffer(n)
    <2>1. PICK n \in 0 .. Size * NPackage : send_buffer(n)
      BY <1>6
    <2>2. n \in Nat
      BY SizeAssumption
    <2> QED BY <1>1, <2>1, <2>2, SendBase
  <1>7. CASE SendBufferFails
    BY <1>1, <1>7, SendFailsBase
  <1>8. CASE SendBufferLater
    BY <1>1, <1>2, <1>8, IdleBase DEF SendBufferLater
  <1>9. CASE ErrorEvent
    BY <1>1, <1>2, <1>9, ConsumedType, IdleBase DEF ErrorEvent
  <1>10. CASE EofEvent
    <2>1. slot.type \notin {"INVALID", "RESERVE", "CONNECTING"} /\ HasFd
      BY <1>1, <1>10 DEF EofEvent, Dispatched, InEvent, Conn, HasFd
    <2>2. ev' = NoEvent /\ peer' = peer /\ BeginClose(RaisedBy, Events)
      BY <1>10 DEF EofEvent
    <2> QED BY <1>1, <1>2, <2>1, <2>2, RaisedType, BeginCloseBase
  <1> QED BY <1>3, <1>4, <1>5, <1>6, <1>7, <1>8, <1>9, <1>10 DEF Dispatch

\* Every step keeps the invariant.
LEMMA BaseNext ==
    ASSUME Base, [Next]_vars
    PROVE  Base'
  <1>1. ASSUME UNCHANGED vars PROVE Base'
    BY <1>1 DEF Base, Types, Pipes, Carries, Calls, Sents, Conn, Locking, HasLock,
                Closing, Buffers, HasFd, vars
  <1>2. CASE Requests
    BY <1>2, ConnectBase, ControlBase, SendBeginBase DEF Requests, CloseOrShutdown, StartOrPause
  <1>3. ASSUME NEW w \in Worker, WorkerStep(w) PROVE Base'
    <2>1. CASE TryLists(w) \/ ReadLists(w) \/ ReadFlags(w)
      BY <2>1, ReadBase
    <2>2. CASE TryLock(w) \/ Unlock(w)
      BY <2>2, TryLockBase, UnlockBase
    <2>3. CASE \E n \in 0 .. Size : DirectWrite(w, n)
      BY <2>3, DirectWriteBase
    <2>4. CASE Wake(w) \/ Queue(w) \/ IncSending(w)
      BY <2>4, RequestBase, IncSendingBase
    <2> QED BY <1>3, <2>1, <2>2, <2>3, <2>4 DEF WorkerStep
  <1>4. CASE SocketThread
    <2>1. CASE ctrl_cmd
      BY <2>1, CtrlBase
    <2>2. CASE DecSending
      BY <2>2, DecSendingBase
    <2>3. CASE NoCmd
      <3>1. /\ th' = Events /\ peer' \in PeerRec /\ ev' \in EvRec /\ ev' = ev
            /\ UNCHANGED <<slot, pipe, call, from, freed, done, told, closes, ctl>>
        BY <2>3 DEF NoCmd, ghosts, Base, Types
      <3> QED BY <3>1, IdleBase
    <2>4. CASE EndClose
      BY <2>4, EndCloseBase
    <2>5. CASE \E data \in BOOLEAN : Wait(data)
      BY <2>5, WaitBase
    <2>6. CASE Dispatch
      BY <2>6, DispatchBase
    <2> QED BY <1>4, <2>1, <2>2, <2>3, <2>4, <2>5, <2>6 DEF SocketThread
  <1>5. CASE Accept
    BY <1>5, AcceptBase
  <1>6. CASE PeerCloses \/ PeerResets
    BY <1>6, PeerBase
  <1> QED BY <1>1, <1>2, <1>3, <1>4, <1>5, <1>6 DEF Next

\* The invariant of the connection holds in every state of the socket server.
THEOREM SpecBase == Spec => []Base
  <1>1. Base /\ [Next]_vars => Base'
    BY BaseNext
  <1> QED BY BaseInit, <1>1, PTL DEF Spec

\* SOCKET_CLOSE is raised once, and only once, for every connection that was
\* announced to a service, whoever ends it: force_close, close_read or the
\* end of the stream (socket_server.c, close_socket, forward_message_tcp).
THEOREM CloseOnceHolds == Spec => []CloseOnce
  <1>1. Base => CloseOnce
    <2> SUFFICES ASSUME Base, NEW i \in told
                 PROVE  /\ closes[i] <= 1
                        /\ (slot.id # i \/ slot.type = "INVALID") => closes[i] = 1
      BY DEF CloseOnce
    <2>1. CASE i # slot.id
      BY <2>1 DEF Base, Closing
    <2>2. CASE i = slot.id
      BY <2>2 DEF Base, Closing
    <2> QED BY <2>1, <2>2
  <1> QED BY <1>1, SpecBase, PTL

-----------------------------------------------------------------------------
(***************************************************************************)
(* What becomes of the packages sent to a connection.  Every step of the   *)
(* socket server either moves no package (Calm) or is one of eight that do *)
(* (Moving).  From that follow: each package is in one hand, the counter of*)
(* the packages on their way is exact, packages are not mixed on the wire, *)
(* and those of a service do not overtake its high priority ones.          *)
(***************************************************************************)

(* Whose hands the packages are in                                         *)

\* The worker is inside socket_server_send with its package.
Working(w) == call[w].at \notin {"idle", "wake"}

\* The packages in the pipe, in calls and in the buffers of the slot
Piped == {p \in Package : InPipe(p)}
Called == {p \in Package : InCall(p)}
Lying == In(slot.high) \union In(slot.low) \union In(slot.dw)

\* No package is in two of the five sets.
Apart(A, B, C, D, E) ==
    \A p \in Package : /\ p \in A => p \notin B /\ p \notin C /\ p \notin D /\ p \notin E
                       /\ p \in B => p \notin C /\ p \notin D /\ p \notin E
                       /\ p \in C => p \notin D /\ p \notin E
                       /\ p \in D => p \notin E

\* Every package sent so far is in one hand.
Hands ==
    /\ Piped \union Called \union Lying \union done \union freed = DOMAIN from
    /\ Apart(Piped, Called, Lying, done, freed)

\* A package is in one request at most, and the requests and the calls know
\* what they carry; a close that waits for the lock has emptied the lists,
\* and what a direct write left is not in them.
Loads ==
    /\ \A i, j \in DOMAIN pipe :
          Carries(pipe[i]) /\ Carries(pipe[j]) /\ pipe[i].pk = pipe[j].pk => i = j
    /\ \A i \in DOMAIN pipe :
          Carries(pipe[i]) => from[pipe[i].pk].id = pipe[i].id
    /\ \A w \in Worker : Working(w) =>
          from[call[w].pk] = [by |-> w, id |-> call[w].id, prio |-> call[w].prio]
    /\ th.at = "close" => slot.high = <<>> /\ slot.low = <<>>
    /\ \A p \in In(slot.dw) : p \notin In(slot.high) /\ p \notin In(slot.low)

\* The hands hold packages that were sent, and the calls and requests theirs.
LEMMA HandsTypes ==
    ASSUME Base, Hands
    PROVE  /\ DOMAIN from = 1 .. Len(from) /\ Len(from) \in Nat
           /\ DOMAIN from \subseteq Package
           /\ Piped \subseteq DOMAIN from /\ Called \subseteq DOMAIN from
           /\ Lying \subseteq DOMAIN from /\ done \subseteq DOMAIN from
           /\ freed \subseteq DOMAIN from
           /\ \A w \in Worker : Working(w) => call[w].pk \in Called
           /\ \A i \in DOMAIN pipe : Carries(pipe[i]) => pipe[i].pk \in Piped
  <1>1. DOMAIN from = 1 .. Len(from) /\ Len(from) \in Nat /\ Len(from) <= NPackage
    BY DEF Base, Types
  <1>2. DOMAIN from \subseteq Package
    BY <1>1, SizeAssumption DEF Package
  <1>3. \A w \in Worker : Working(w) => call[w].pk \in Called
    BY DEF Base, Calls, Working, Called, InCall, At
  <1>4. \A i \in DOMAIN pipe : Carries(pipe[i]) => pipe[i].pk \in Piped
    BY DEF Base, Pipes, Carries, Piped, InPipe
  <1> QED BY <1>1, <1>2, <1>3, <1>4 DEF Hands

\* A package is in the call of the worker that sent it, and of no other.
LEMMA OneCaller ==
    ASSUME Base, Loads, NEW w \in Worker, NEW x \in Worker, Working(w), Working(x),
           call[w].pk = call[x].pk
    PROVE  w = x
  <1>1. from[call[w].pk] = [by |-> w, id |-> call[w].id, prio |-> call[w].prio]
    BY DEF Loads
  <1>2. from[call[x].pk] = [by |-> x, id |-> call[x].id, prio |-> call[x].prio]
    BY DEF Loads
  <1> QED BY <1>1, <1>2

(* What the steps do to the hands                                          *)

\* What a request written to the pipe (send_request) adds to the packages in it
LEMMA PipedPush ==
    ASSUME Types, NEW cmd, NEW id, NEW pk, Request(cmd, id, pk)
    PROVE  /\ cmd \notin {"D", "P"} => Piped' = Piped
           /\ cmd \in {"D", "P"} /\ pk \in Package => Piped' = Piped \union {pk}
  <1> DEFINE r == [cmd |-> cmd, id |-> id, pk |-> pk]
  <1>1. pipe \in Seq(ReqRec) /\ pipe' = Append(pipe, r)
    BY DEF Types, Request
  <1>2. r.cmd = cmd /\ r.pk = pk
    OBVIOUS
  <1> HIDE DEF r
  <1>3. /\ DOMAIN pipe = 1 .. Len(pipe) /\ Len(pipe) \in Nat
        /\ DOMAIN pipe' = 1 .. (Len(pipe) + 1)
        /\ \A i \in DOMAIN pipe : pipe'[i] = pipe[i] /\ i \in DOMAIN pipe'
        /\ pipe'[Len(pipe) + 1] = r /\ Len(pipe) + 1 \in DOMAIN pipe'
        /\ \A i \in DOMAIN pipe' : i = Len(pipe) + 1 \/ i \in DOMAIN pipe
    BY <1>1
  <1>4. \A p : InPipe(p)' <=> InPipe(p) \/ (cmd \in {"D", "P"} /\ pk = p)
    BY <1>2, <1>3 DEF InPipe
  <1> QED BY <1>4 DEF Piped

\* What the first request takes along when it leaves the pipe (ctrl_cmd)
LEMMA PipedPop ==
    ASSUME Types, Pipes, Loads, pipe # <<>>, pipe' = Tail(pipe)
    PROVE  /\ ~Carries(Head(pipe)) => Piped' = Piped
           /\ Carries(Head(pipe)) => /\ Piped' = Piped \ {Head(pipe).pk}
                                     /\ Head(pipe).pk \in Piped
                                     /\ from[Head(pipe).pk].id = Head(pipe).id
  <1>1. pipe \in Seq(ReqRec)
    BY DEF Types
  <1>2. /\ DOMAIN pipe = 1 .. Len(pipe) /\ Len(pipe) \in Nat \ {0}
        /\ DOMAIN pipe' = 1 .. (Len(pipe) - 1)
        /\ \A i \in DOMAIN pipe' : pipe'[i] = pipe[i + 1] /\ i + 1 \in DOMAIN pipe
                                   /\ i + 1 # 1
        /\ Head(pipe) = pipe[1] /\ 1 \in DOMAIN pipe
    BY <1>1
  <1>3. \A i \in DOMAIN pipe : i # 1 => (i - 1) \in DOMAIN pipe' /\ (i - 1) + 1 = i
    BY <1>2
  <1>4. \A i \in DOMAIN pipe : i # 1 => pipe'[i - 1] = pipe[i]
    BY <1>2, <1>3
  <1>5. ASSUME NEW p, InPipe(p)'
        PROVE  InPipe(p) /\ (Carries(Head(pipe)) => p # Head(pipe).pk)
    <2>1. PICK i \in DOMAIN pipe' : pipe'[i].cmd \in {"D", "P"} /\ pipe'[i].pk = p
      BY <1>5 DEF InPipe
    <2>2. Carries(pipe[i + 1]) /\ pipe[i + 1].pk = p /\ i + 1 \in DOMAIN pipe /\ i + 1 # 1
      BY <2>1, <1>2 DEF Carries
    <2>3. InPipe(p)
      BY <2>2 DEF InPipe, Carries
    <2> QED BY <1>2, <2>2, <2>3 DEF Loads
  <1>6. ASSUME NEW p, InPipe(p), ~(Carries(Head(pipe)) /\ p = Head(pipe).pk)
        PROVE  InPipe(p)'
    <2>1. PICK i \in DOMAIN pipe : Carries(pipe[i]) /\ pipe[i].pk = p
      BY <1>6 DEF InPipe, Carries
    <2>2. i # 1
      BY <1>2, <1>6, <2>1
    <2>3. i - 1 \in DOMAIN pipe' /\ pipe'[i - 1] = pipe[i]
      BY <1>3, <1>4, <2>2
    <2> QED BY <2>1, <2>3 DEF InPipe, Carries
  <1>7. Carries(Head(pipe)) => /\ Head(pipe).pk \in Piped
                               /\ from[Head(pipe).pk].id = Head(pipe).id
    BY <1>2 DEF Loads, Piped, InPipe, Carries, Pipes
  <1> QED BY <1>5, <1>6, <1>7 DEF Piped

\* The requests left in the pipe still carry what they carried.
LEMMA LoadsPop ==
    ASSUME Types, Loads, pipe' = Tail(pipe), pipe # <<>>
    PROVE  /\ \A i, j \in DOMAIN pipe' :
                 Carries(pipe'[i]) /\ Carries(pipe'[j]) /\ pipe'[i].pk = pipe'[j].pk => i = j
           /\ \A i \in DOMAIN pipe' :
                 Carries(pipe'[i]) => from[pipe'[i].pk].id = pipe'[i].id
  <1>1. pipe \in Seq(ReqRec)
    BY DEF Types
  <1>2. /\ DOMAIN pipe = 1 .. Len(pipe) /\ Len(pipe) \in Nat \ {0}
        /\ DOMAIN pipe' = 1 .. (Len(pipe) - 1)
        /\ \A i \in DOMAIN pipe' : pipe'[i] = pipe[i + 1] /\ i + 1 \in DOMAIN pipe
                                   /\ i \in Int
    BY <1>1
  <1>3. ASSUME NEW i \in DOMAIN pipe', NEW j \in DOMAIN pipe',
               Carries(pipe'[i]), Carries(pipe'[j]), pipe'[i].pk = pipe'[j].pk
        PROVE  i = j
    <2>1. i + 1 = j + 1
      BY <1>2, <1>3 DEF Loads
    <2> QED BY <1>2, <2>1
  <1>4. ASSUME NEW i \in DOMAIN pipe', Carries(pipe'[i])
        PROVE  from[pipe'[i].pk].id = pipe'[i].id
    BY <1>2, <1>4 DEF Loads
  <1> QED BY <1>3, <1>4

\* A worker that goes on with its package
LEMMA CalledKept ==
    ASSUME NEW w \in Worker, \A x \in Worker : x # w => call'[x] = call[x],
           Working(w), Working(w)', call'[w].pk = call[w].pk
    PROVE  Called' = Called
  BY DEF Called, InCall, Working, At

\* A worker that carries no package changes nothing of what the calls carry.
LEMMA CalledIdle ==
    ASSUME NEW w \in Worker, \A x \in Worker : x # w => call'[x] = call[x],
           ~Working(w), ~Working(w)'
    PROVE  Called' = Called
  BY DEF Called, InCall, Working, At

\* ... and one that gives it away
LEMMA CalledLess ==
    ASSUME Base, Loads, NEW w \in Worker, \A x \in Worker : x # w => call'[x] = call[x],
           Working(w), ~Working(w)'
    PROVE  Called' = Called \ {call[w].pk} /\ call[w].pk \in Called
  <1>1. \A x \in Worker : x # w /\ Working(x) => call[x].pk # call[w].pk
    BY OneCaller
  <1>2. call[w].pk \in Package
    BY DEF Base, Calls, Working
  <1> QED BY <1>1, <1>2 DEF Called, InCall, Working, At

(* Sequences of bytes                                                      *)

\* Buffers with the same bytes are the same.
LEMMA SameBuffer ==
    ASSUME NEW a \in Buffer, NEW b \in Buffer, Len(a) = Len(b),
           \A i \in 1 .. Len(a) : a[i] = b[i]
    PROVE  a = b
  BY SMTT(30) DEF Buffer

\* Who lies in a buffer put together or cut apart
LEMMA InParts ==
    ASSUME NEW a \in Buffer, NEW b \in Buffer
    PROVE  In(a \o b) = In(a) \union In(b)
  <1> DEFINE c == a \o b
  <1>1. /\ c \in Buffer /\ DOMAIN c = 1 .. (Len(a) + Len(b))
        /\ \A i \in 1 .. Len(a) : c[i] = a[i]
        /\ \A i \in 1 .. Len(b) : c[Len(a) + i] = b[i]
    BY ConcatBuffer
  <1>2. /\ Len(a) \in Nat /\ DOMAIN a = 1 .. Len(a)
        /\ Len(b) \in Nat /\ DOMAIN b = 1 .. Len(b)
    BY BufferBytes
  <1> HIDE DEF c
  <1>3. In(c) \subseteq In(a) \union In(b)
    <2> SUFFICES ASSUME NEW i \in DOMAIN c PROVE c[i][1] \in In(a) \union In(b)
      BY DEF In
    <2>1. CASE i \in 1 .. Len(a)
      BY <1>1, <1>2, <2>1 DEF In
    <2>2. CASE i \notin 1 .. Len(a)
      <3>1. i - Len(a) \in 1 .. Len(b) /\ Len(a) + (i - Len(a)) = i
        BY <1>1, <1>2, <2>2
      <3>2. c[i] = b[i - Len(a)]
        BY <1>1, <3>1
      <3> QED BY <1>2, <3>1, <3>2 DEF In
    <2> QED BY <2>1, <2>2
  <1>4. In(a) \subseteq In(c)
    <2> SUFFICES ASSUME NEW i \in DOMAIN a PROVE a[i][1] \in In(c)
      BY DEF In
    <2>1. i \in DOMAIN c /\ c[i] = a[i]
      BY <1>1, <1>2
    <2> QED BY <2>1 DEF In
  <1>5. In(b) \subseteq In(c)
    <2> SUFFICES ASSUME NEW i \in DOMAIN b PROVE b[i][1] \in In(c)
      BY DEF In
    <2>1. Len(a) + i \in DOMAIN c /\ c[Len(a) + i] = b[i]
      BY <1>1, <1>2
    <2> QED BY <2>1 DEF In
  <1> QED BY <1>3, <1>4, <1>5 DEF c

\* A buffer is its first n bytes and the others.
LEMMA SplitBuffer ==
    ASSUME NEW b \in Buffer, NEW n \in Nat, n <= Len(b)
    PROVE  /\ SubSeq(b, 1, n) \in Buffer /\ SubSeq(b, n + 1, Len(b)) \in Buffer
           /\ SubSeq(b, 1, n) \o SubSeq(b, n + 1, Len(b)) = b
           /\ In(b) = In(SubSeq(b, 1, n)) \union In(SubSeq(b, n + 1, Len(b)))
  <1> DEFINE h == SubSeq(b, 1, n)
             t == SubSeq(b, n + 1, Len(b))
             l == Len(b)
  <1>1. l \in Nat /\ l <= l
    BY BufferBytes
  <1>2. /\ h \in Buffer /\ Len(h) = n /\ \A i \in 1 .. n : h[i] = b[i]
    BY <1>1 DEF Buffer
  <1>3. /\ t \in Buffer /\ Len(t) = l - n /\ \A i \in 1 .. (l - n) : t[i] = b[n + i]
    BY <1>1, SliceBuffer
  <1> HIDE DEF h, t, l
  <1> DEFINE c == h \o t
  <1>9. /\ c \in Buffer /\ Len(c) = Len(h) + Len(t)
        /\ \A i \in 1 .. Len(h) : c[i] = h[i]
        /\ \A i \in 1 .. Len(t) : c[Len(h) + i] = t[i]
    BY <1>2, <1>3, ConcatBuffer
  <1> HIDE DEF c
  <1>4. /\ c \in Buffer /\ Len(c) = n + (l - n)
        /\ \A i \in 1 .. n : c[i] = h[i]
        /\ \A i \in 1 .. (l - n) : c[n + i] = t[i]
    BY <1>2, <1>3, <1>9
  <1>5. ASSUME NEW i \in 1 .. l PROVE c[i] = b[i]
    <2>1. CASE i <= n
      BY <1>1, <1>2, <1>4, <2>1
    <2>2. CASE i > n
      <3>1. PICK j \in 1 .. (l - n) : i = n + j
        <4>1. i - n \in 1 .. (l - n) /\ i = n + (i - n)
          BY <1>1, <2>2
        <4> QED BY <4>1
      <3> QED BY <1>3, <1>4, <3>1
    <2> QED BY <1>1, <2>1, <2>2
  <1>6. c \in Buffer /\ Len(c) = l /\ Len(b) = l
    BY <1>1, <1>4 DEF l
  <1>7. c = b
    BY <1>5, <1>6, SameBuffer
  <1>8. In(c) = In(h) \union In(t)
    BY <1>2, <1>3, InParts DEF c
  <1> QED BY <1>2, <1>3, <1>7, <1>8 DEF h, t, l, c

\* Appending is associative.
LEMMA ConcatAssoc ==
    ASSUME NEW a \in Buffer, NEW b \in Buffer, NEW c \in Buffer
    PROVE  (a \o b) \o c = a \o (b \o c)
  BY DEF Buffer

\* Appending nothing
LEMMA EmptyConcat ==
    ASSUME NEW a \in Buffer
    PROVE  a \o <<>> = a /\ <<>> \o a = a
  BY DEF Buffer

\* The rest of two buffers put together, from any byte on
LEMMA RestOfFirst ==
    ASSUME NEW a \in Buffer, NEW b \in Buffer, NEW n \in Nat, n <= Len(a)
    PROVE  SubSeq(a \o b, n + 1, Len(a \o b)) = SubSeq(a, n + 1, Len(a)) \o b
  <1> DEFINE c == a \o b
             t == SubSeq(a, n + 1, Len(a))
             d == SubSeq(c, n + 1, Len(c))
             e == t \o b
             la == Len(a)
             lb == Len(b)
  <1>1. la \in Nat /\ lb \in Nat
    BY BufferBytes
  <1>2. /\ c \in Buffer /\ Len(c) = la + lb
        /\ \A i \in 1 .. la : c[i] = a[i]
        /\ \A i \in 1 .. lb : c[la + i] = b[i]
    BY ConcatBuffer
  <1>3. /\ t \in Buffer /\ Len(t) = la - n /\ \A i \in 1 .. (la - n) : t[i] = a[n + i]
    BY <1>1, SliceBuffer
  <1> HIDE DEF c, t
  <1>4. /\ d \in Buffer /\ Len(d) = la + lb - n
        /\ \A i \in 1 .. (la + lb - n) : d[i] = c[n + i]
    <2>1. Len(c) \in Nat /\ n <= Len(c) /\ Len(c) <= Len(c) /\ Len(c) - n = la + lb - n
      BY <1>1, <1>2
    <2>2. /\ d \in Buffer /\ Len(d) = Len(c) - n
          /\ \A i \in 1 .. (Len(c) - n) : d[i] = c[n + i]
      BY <1>2, <2>1, SliceBuffer
    <2> HIDE DEF d
    <2> QED BY <2>1, <2>2
  <1>5. /\ e \in Buffer /\ Len(e) = Len(t) + lb
        /\ \A i \in 1 .. Len(t) : e[i] = t[i]
        /\ \A i \in 1 .. lb : e[Len(t) + i] = b[i]
    BY <1>3, ConcatBuffer
  <1> HIDE DEF d, e
  <1>6. /\ Len(e) = la + lb - n
        /\ \A i \in 1 .. (la - n) : e[i] = a[n + i]
        /\ \A i \in 1 .. lb : e[(la - n) + i] = b[i]
    BY <1>1, <1>3, <1>5
  <1> HIDE DEF la, lb
  <1>7. ASSUME NEW i \in 1 .. (la + lb - n) PROVE d[i] = e[i]
    <2>1. CASE i <= la - n
      <3>1. i \in 1 .. (la - n) /\ n + i \in 1 .. la
        BY <1>1, <2>1 DEF la
      <3> QED BY <1>2, <1>4, <1>6, <3>1
    <2>2. CASE i > la - n
      <3>1. PICK j \in 1 .. lb : i = (la - n) + j /\ n + i = la + j
        <4>1. i - (la - n) \in 1 .. lb
          BY <1>1, <2>2 DEF la
        <4>2. i = (la - n) + (i - (la - n)) /\ n + i = la + (i - (la - n))
          BY <1>1
        <4> QED BY <4>1, <4>2
      <3> QED BY <1>2, <1>4, <1>6, <3>1
    <2> QED BY <1>1, <2>1, <2>2
  <1>8. Len(d) = Len(e) /\ \A i \in 1 .. Len(d) : d[i] = e[i]
    BY <1>4, <1>6, <1>7
  <1>9. d = e
    BY <1>4, <1>5, <1>8, SameBuffer
  <1> QED BY <1>9 DEF c, t, d, e

\* What is left of two lists after the whole first one was written
LEMMA RestOfSecond ==
    ASSUME NEW a \in Buffer, NEW b \in Buffer, NEW n \in Nat, n >= Len(a),
           n <= Len(a) + Len(b)
    PROVE  SubSeq(a \o b, n + 1, Len(a \o b)) = SubSeq(b, (n - Len(a)) + 1, Len(b))
  <1> DEFINE c == a \o b
             k == n - Len(a)
             t == SubSeq(b, k + 1, Len(b))
             d == SubSeq(c, n + 1, Len(c))
             la == Len(a)
             lb == Len(b)
  <1>1. la \in Nat /\ lb \in Nat /\ k \in Nat /\ k <= lb /\ n = la + k
    BY BufferBytes
  <1>2. /\ c \in Buffer /\ Len(c) = la + lb
        /\ \A i \in 1 .. lb : c[la + i] = b[i]
    BY ConcatBuffer
  <1> HIDE DEF c, k
  <1>3. /\ t \in Buffer /\ Len(t) = lb - k /\ \A i \in 1 .. (lb - k) : t[i] = b[k + i]
    BY <1>1, SliceBuffer
  <1> HIDE DEF t
  <1>4. /\ d \in Buffer /\ Len(d) = lb - k
        /\ \A i \in 1 .. (lb - k) : d[i] = c[n + i]
    <2>1. Len(c) \in Nat /\ n <= Len(c) /\ Len(c) <= Len(c) /\ Len(c) - n = lb - k
      BY <1>1, <1>2
    <2>2. /\ d \in Buffer /\ Len(d) = Len(c) - n
          /\ \A i \in 1 .. (Len(c) - n) : d[i] = c[n + i]
      BY <1>2, <2>1, SliceBuffer
    <2> HIDE DEF d
    <2> QED BY <2>1, <2>2
  <1> HIDE DEF d, la, lb
  <1>5. ASSUME NEW i \in 1 .. (lb - k) PROVE d[i] = t[i]
    <2>1. k + i \in 1 .. lb /\ n + i = la + (k + i)
      BY <1>1
    <2> QED BY <1>2, <1>3, <1>4, <2>1
  <1>6. Len(d) = Len(t) /\ \A i \in 1 .. Len(d) : d[i] = t[i]
    BY <1>3, <1>4, <1>5
  <1>7. d = t
    BY <1>3, <1>4, <1>6, SameBuffer
  <1> QED BY <1>7 DEF c, t, d, k

\* What send_buffer_ leaves, high list before low list, is what it did not
\* write: raise_uncomplete moves no byte before another.
LEMMA WroteRest ==
    ASSUME NEW hi \in Buffer, NEW lo \in Buffer, Cut(hi), Cut(lo), Fresh(lo),
           NEW n \in Nat, n <= Len(hi \o lo)
    PROVE  LET high == SubSeq(hi, n + 1, Len(hi))
               k == IF n > Len(hi) THEN n - Len(hi) ELSE 0
               low == SubSeq(lo, k + 1, Len(lo))
               first == high \o SubSeq(low, 1, Rest(low))
               tail == SubSeq(low, Rest(low) + 1, Len(low))
           IN  first \o tail = SubSeq(hi \o lo, n + 1, Len(hi \o lo))
  <1> DEFINE high == SubSeq(hi, n + 1, Len(hi))
             k == IF n > Len(hi) THEN n - Len(hi) ELSE 0
             low == SubSeq(lo, k + 1, Len(lo))
             rest == Rest(low)
             head == SubSeq(low, 1, rest)
             tail == SubSeq(low, rest + 1, Len(low))
             all == SubSeq(hi \o lo, n + 1, Len(hi \o lo))
  <1>1. Len(hi) \in Nat /\ Len(lo) \in Nat /\ n <= Len(hi) + Len(lo)
    BY BufferBytes, ConcatBuffer
  <1>2. k \in Nat /\ k <= Len(lo) /\ k \in 0 .. Len(lo) /\ Len(lo) <= Len(lo)
    BY <1>1
  <1> HIDE DEF k
  <1>3. low \in Buffer /\ Cut(low)
    BY <1>1, <1>2, SliceBuffer, CutSuffix
  <1>4. CASE n <= Len(hi)
    <2>1. k = 0
      BY <1>1, <1>4 DEF k
    <2>2. low = lo
      BY <2>1 DEF Buffer
    <2> HIDE DEF low
    <2>3. rest = 0
      BY <2>2 DEF Rest, list_uncomplete, Fresh
    <2>4. head = <<>> /\ tail = lo
      BY <2>2, <2>3 DEF Buffer
    <2>5. high \in Buffer
      BY <1>1, <1>4, SliceBuffer
    <2> HIDE DEF high, head, tail
    <2>6. high \o head = high
      BY <2>4, <2>5, EmptyConcat
    <2>7. all = high \o lo
      BY <1>4, RestOfFirst DEF high
    <2> HIDE DEF all
    <2>8. (high \o head) \o tail = all
      BY <2>4, <2>6, <2>7
    <2> QED BY <2>8 DEF high, k, low, head, tail, all
  <1>5. CASE n > Len(hi)
    <2>1. k = n - Len(hi)
      BY <1>5 DEF k
    <2>2. all = low
      BY <1>1, <1>5, <2>1, RestOfSecond
    <2>3. high = <<>>
      BY <1>1, <1>5 DEF Buffer
    <2> HIDE DEF all, low, high
    <2>4. head \in Buffer /\ tail \in Buffer /\ rest \in Nat /\ rest <= Len(low)
      BY <1>3, RestCut, BufferBytes
    <2>5. head \o tail = low
      BY <1>3, <2>4, SplitBuffer
    <2> HIDE DEF head, tail
    <2>6. high \o head = head
      BY <2>3, <2>4, EmptyConcat
    <2>7. (high \o head) \o tail = all
      BY <2>2, <2>5, <2>6
    <2> QED BY <2>7 DEF high, k, low, head, tail, all
  <1>6. n <= Len(hi) \/ n > Len(hi)
    BY <1>1
  <1> QED BY <1>4, <1>5, <1>6, Zenon

\* The bytes left in the low list were there before.
LEMMA WroteLow ==
    ASSUME NEW hi \in Buffer, NEW lo \in Buffer, Cut(lo), NEW n \in Nat, n <= Len(hi \o lo)
    PROVE  LET k == IF n > Len(hi) THEN n - Len(hi) ELSE 0
               low == SubSeq(lo, k + 1, Len(lo))
               tail == SubSeq(low, Rest(low) + 1, Len(low))
           IN  In(tail) \subseteq In(lo)
  <1> DEFINE k == IF n > Len(hi) THEN n - Len(hi) ELSE 0
             low == SubSeq(lo, k + 1, Len(lo))
             rest == Rest(low)
             tail == SubSeq(low, rest + 1, Len(low))
  <1>1. Len(hi) \in Nat /\ Len(lo) \in Nat /\ n <= Len(hi) + Len(lo)
    BY BufferBytes, ConcatBuffer
  <1>2. k \in Nat /\ k <= Len(lo) /\ k \in 0 .. Len(lo)
    BY <1>1
  <1> HIDE DEF k
  <1>3. low \in Buffer /\ In(low) \subseteq In(lo)
    <2>1. low \in Buffer /\ In(lo) = In(SubSeq(lo, 1, k)) \union In(low)
      BY <1>2, SplitBuffer
    <2> HIDE DEF low
    <2> QED BY <2>1
  <1>4. Cut(low)
    BY <1>2, CutSuffix
  <1> HIDE DEF low
  <1>5. rest \in Nat /\ rest <= Len(low)
    BY <1>3, <1>4, RestCut, BufferBytes
  <1> HIDE DEF rest
  <1>6. In(tail) \subseteq In(low)
    <2>1. In(low) = In(SubSeq(low, 1, rest)) \union In(tail)
      BY <1>3, <1>5, SplitBuffer
    <2> HIDE DEF tail
    <2> QED BY <2>1
  <1> QED BY <1>3, <1>6 DEF k, low, rest, tail

-----------------------------------------------------------------------------
(* The steps that move no package                                          *)

\* All that waits to be written, in the order in which it will be
Data == (slot.dw \o slot.high) \o slot.low

\* The other workers stand still; this one keeps its package.
Others(w) == \A x \in Worker : x # w => call'[x] = call[x]
SameLoad(w) == /\ call'[w].pk = call[w].pk /\ call'[w].id = call[w].id
               /\ call'[w].prio = call[w].prio

\* The packages, the lists and the bytes on the wire stay; a new connection
\* starts with nothing on the wire.
CalmData ==
    /\ UNCHANGED <<from, freed, done>> /\ SameLists(slot, slot')
    /\ \/ peer'.got = peer.got
       \/ ~HasFd /\ peer'.got = <<>>
    /\ th'.at = "close" <=> th.at = "close"
    /\ slot'.id = slot.id \/ ~HasFd

\* No package enters or leaves the pipe.
CalmPipe ==
    \/ pipe' = pipe
    \/ \E cmd \in {"O", "K", "shutdown", "R", "S", "W"}, id \in Id : Request(cmd, id, 0)
    \/ pipe # <<>> /\ pipe' = Tail(pipe) /\ ~Carries(Head(pipe))

\* At most one worker goes on, with its package if it has one.
CalmCalls ==
    \/ call' = call
    \/ \E w \in Worker :
          /\ Others(w)
          /\ \/ Working(w) /\ Working(w)' /\ SameLoad(w)
             \/ ~Working(w) /\ ~Working(w)'
          /\ call'[w].at = "flags" => call[w].at = "lists" /\ ListsOK(w)
          /\ call'[w].at = "lists" => FlagsOK(w)

\* The counter of packages on their way stays, starts anew, or counts.
SameCount ==
    /\ slot'.sending = slot.sending /\ slot'.id = slot.id
    /\ slot'.protocol = slot.protocol
    /\ th' = th \/ (th.at # "dec" /\ th'.at # "dec")
    /\ \A w \in Worker : call'[w].at = "queue" <=> call[w].at = "queue"
NewCount ==
    /\ slot'.id \notin told /\ th' = th /\ call' = call
    /\ \/ slot'.sending = 0
       \/ slot'.protocol = "UNKNOWN" /\ slot'.sending = slot.sending
CalmCount ==
    \/ SameCount \/ NewCount \/ DecSending
    \/ \E w \in Worker : IncSending(w)

\* A step that moves no package
Calm == CalmData /\ CalmPipe /\ CalmCalls /\ CalmCount

\* socket_server_connect
LEMMA ConnectCalm ==
    ASSUME Base, Connect
    PROVE  Calm
  <1> USE DEF Base
  <1>1. /\ slot.type = "INVALID" /\ slot.id < MaxId
        /\ UNCHANGED <<th, peer, call, from, freed, done>>
        /\ Request("O", slot.id + 1, 0)
    BY DEF Connect, Reservable, ghosts
  <1>2. slot \in SlotRec
    BY DEF Types
  <1>3. /\ slot'.id = slot.id + 1 /\ slot'.protocol = "UNKNOWN" /\ SameStore(slot, slot')
    BY <1>1, <1>2, ReservedFields DEF Connect
  <1>4. slot.id + 1 \in Id /\ slot.id + 1 \notin told
    BY <1>1, <1>2, SlotFields, BoundAssumption DEF Conn, Id
  <1>5. CalmData
    BY <1>1, <1>3 DEF CalmData, SameStore, SameLists, HasFd
  <1>6. CalmPipe
    BY <1>1, <1>4 DEF CalmPipe
  <1>7. NewCount
    BY <1>1, <1>3, <1>4 DEF NewCount, SameStore
  <1> QED BY <1>1, <1>5, <1>6, <1>7 DEF Calm, CalmCalls, CalmCount

\* A step that leaves the calls, the lists and the counter alone
LEMMA ThreadCalm ==
    ASSUME Base, UNCHANGED <<call, from, freed, done>>, SameStore(slot, slot'),
           slot'.id = slot.id, slot'.protocol = slot.protocol, peer'.got = peer.got,
           th' = th \/ (th.at \notin {"close", "dec"} /\ th'.at \notin {"close", "dec"}),
           CalmPipe
    PROVE  Calm
  <1>1. CalmData
    BY DEF CalmData, SameStore, SameLists
  <1>2. SameCount
    BY DEF SameCount, SameStore
  <1> QED BY <1>1, <1>2 DEF Calm, CalmCalls, CalmCount

\* Close, shutdown, start and pause requests
LEMMA ControlCalm ==
    ASSUME Base, NEW cmd \in {"K", "shutdown", "R", "S"}, NEW id \in Id, Control(cmd, id)
    PROVE  Calm
  <1>1. /\ Request(cmd, id, 0) /\ UNCHANGED <<slot, th, peer, call, from, freed, done>>
    BY DEF Control
  <1>2. CalmPipe
    BY <1>1 DEF CalmPipe
  <1> QED BY <1>1, <1>2, SameSlot, ThreadCalm

\* The tests of a worker and its lock
LEMMA TestCalm ==
    ASSUME Base, NEW w \in Worker,
           TryLists(w) \/ TryLock(w) \/ ReadLists(w) \/ ReadFlags(w) \/ Unlock(w)
    PROVE  Calm
  <1> USE DEF Base
  <1>1. UNCHANGED <<pipe, th, peer, from, freed, done>>
    BY DEF TryLists, TryLock, ReadLists, ReadFlags, Unlock, ghosts
  <1>2. PICK at \in {"trylock", "lists", "flags", "unlock", "inc"} :
          /\ GoTo(w, at)
          /\ call[w].at \in {"try", "trylock", "lists", "flags", "unlock"}
          /\ at = "flags" => call[w].at = "lists" /\ ListsOK(w)
          /\ at = "lists" => FlagsOK(w)
    <2>1. CASE TryLists(w)
      <3>1. GoTo(w, "trylock") \/ GoTo(w, "inc")
        BY <2>1 DEF TryLists
      <3> QED BY <2>1, <3>1 DEF TryLists, At
    <2>2. CASE TryLock(w)
      <3>1. (GoTo(w, "lists") /\ FlagsOK(w)) \/ GoTo(w, "inc")
        BY <2>2 DEF TryLock
      <3> QED BY <2>2, <3>1 DEF TryLock, At
    <2>3. CASE ReadLists(w)
      <3>1. (GoTo(w, "flags") /\ ListsOK(w)) \/ GoTo(w, "unlock")
        BY <2>3 DEF ReadLists
      <3> QED BY <2>3, <3>1 DEF ReadLists, At
    <2>4. CASE ReadFlags(w)
      BY <2>4 DEF ReadFlags, At
    <2>5. CASE Unlock(w)
      BY <2>5 DEF Unlock, At
    <2> QED BY <2>1, <2>2, <2>3, <2>4, <2>5
  <1>3. SameConn(slot, slot') /\ SameLists(slot, slot') /\ slot'.sending = slot.sending
    <2>1. \/ slot' = slot
          \/ \E x \in Worker \union {None} : slot' = [slot EXCEPT !.lock = x]
      BY DEF TryLists, TryLock, ReadLists, ReadFlags, Unlock
    <2>2. slot \in SlotRec
      BY DEF Types
    <2>3. CASE slot' = slot
      BY <2>3, SameSlot
    <2>4. CASE slot' # slot
      <3>1. PICK x \in Worker \union {None} : slot' = [slot EXCEPT !.lock = x]
        BY <2>1, <2>4
      <3> QED BY <2>2, <3>1, SetField
    <2> QED BY <2>3, <2>4
  <1>4. at \in Stage
    BY DEF Stage
  <1>5. call'[w].at = at /\ SameLoad(w) /\ Others(w)
    BY <1>2, <1>4, GoToCall DEF SameLoad, Others
  <1>6. CalmData
    BY <1>1, <1>3 DEF CalmData, SameConn
  <1>7. CalmCalls
    BY <1>2, <1>5 DEF CalmCalls, Working
  <1>8. SameCount
    BY <1>1, <1>2, <1>3, <1>5 DEF SameCount, SameConn, Others
  <1> QED BY <1>1, <1>6, <1>7, <1>8 DEF Calm, CalmPipe, CalmCount

\* The request for the write event
LEMMA WakeCalm ==
    ASSUME Base, NEW w \in Worker, Wake(w)
    PROVE  Calm
  <1> USE DEF Base
  <1>1. /\ call[w].at = "wake" /\ Request("W", call[w].id, 0)
        /\ call' = [call EXCEPT ![w] = Idle]
        /\ UNCHANGED <<slot, th, peer, from, freed, done>>
    BY DEF Wake, At, ghosts
  <1>2. call[w].id \in Id
    BY <1>1 DEF Calls, Types
  <1>3. call'[w].at = "idle" /\ Others(w)
    BY <1>1, GoToIdle DEF Others
  <1>4. CalmData
    BY <1>1, SameSlot DEF CalmData
  <1>5. CalmPipe
    BY <1>1, <1>2 DEF CalmPipe
  <1>6. CalmCalls
    BY <1>1, <1>3 DEF CalmCalls, Working
  <1>7. SameCount
    BY <1>1, <1>3 DEF SameCount, Others
  <1> QED BY <1>4, <1>5, <1>6, <1>7 DEF Calm, CalmCount

\* inc_sending_ref
LEMMA IncCalm ==
    ASSUME Base, NEW w \in Worker, IncSending(w)
    PROVE  Calm
  <1> USE DEF Base
  <1>1. /\ call[w].at = "inc" /\ GoTo(w, "queue")
        /\ UNCHANGED <<pipe, th, peer, from, freed, done>>
        /\ slot' = slot \/ slot' = [slot EXCEPT !.sending = @ + 1]
    BY DEF IncSending, At, ghosts
  <1>2. slot \in SlotRec /\ slot.sending + 1 \in Int
    BY SlotFields DEF Types
  <1>3. SameConn(slot, slot') /\ SameLists(slot, slot')
    BY <1>1, <1>2, SetField, SameSlot
  <1>4. "queue" \in Stage
    BY DEF Stage
  <1>5. call'[w].at = "queue" /\ SameLoad(w) /\ Others(w)
    BY <1>1, <1>4, GoToCall DEF SameLoad, Others
  <1>6. CalmData
    BY <1>1, <1>3 DEF CalmData, SameConn
  <1>7. CalmCalls
    BY <1>1, <1>5 DEF CalmCalls, Working
  <1> QED BY <1>1, <1>6, <1>7 DEF Calm, CalmPipe, CalmCount

\* dec_sending_ref
LEMMA DecCalm ==
    ASSUME Base, DecSending
    PROVE  Calm
  <1> USE DEF Base
  <1>1. /\ th.at = "dec" /\ th' = Ctrl /\ UNCHANGED <<pipe, peer, call, from, freed, done>>
        /\ slot' = slot \/ slot' = [slot EXCEPT !.sending = @ - 1]
    BY DEF DecSending, ghosts
  <1>2. slot \in SlotRec /\ slot.sending - 1 \in Int
    BY SlotFields DEF Types
  <1>3. SameConn(slot, slot') /\ SameLists(slot, slot')
    BY <1>1, <1>2, SetField, SameSlot
  <1>4. CalmData
    BY <1>1, <1>3, CtrlEvents DEF CalmData, SameConn
  <1> QED BY <1>1, <1>4 DEF Calm, CalmPipe, CalmCalls, CalmCount

\* A connection is made: open_socket, report_accept.
LEMMA NewCalm ==
    ASSUME Base, UNCHANGED <<th, call, from, freed, done>>, ~HasFd, CalmPipe,
           SameLists(slot, slot'), slot'.id \notin told, slot'.sending = 0,
           peer' = NewPeer
    PROVE  Calm
  <1>1. CalmData
    BY DEF CalmData, NewPeer
  <1>2. NewCount
    BY DEF NewCount
  <1> QED BY <1>1, <1>2 DEF Calm, CalmCalls, CalmCount

\* open_socket moves no package.
LEMMA OpenCalm ==
    ASSUME Base, pipe # <<>>, pipe' = Tail(pipe), Head(pipe).cmd = "O",
           open_socket(Head(pipe).id), UNCHANGED <<call, from>>
    PROVE  Calm
  <1> USE DEF Base
  <1> DEFINE id == Head(pipe).id
  <1>1. id = slot.id /\ slot.type = "RESERVE" /\ id \in Id /\ id \notin told
    <2>1. 1 \in DOMAIN pipe /\ Head(pipe) = pipe[1]
      BY DEF Types
    <2> QED BY <2>1 DEF Pipes, Conn
  <1>2. /\ slot \in SlotRec /\ slot.high = <<>> /\ slot.low = <<>> /\ slot.dw = <<>> /\ ~HasFd
    BY <1>1 DEF Types, Buffers, HasFd
  <1>3. UNCHANGED <<th, freed, done>> /\ CalmPipe
    BY DEF open_socket, CalmPipe, Carries
  <1> HIDE DEF id
  <1>4. CASE slot' = [slot EXCEPT !.type = "INVALID"] /\ UNCHANGED <<peer, told>>
    <2>1. "INVALID" \in Type
      BY DEF Type
    <2>2. SameStore(slot, slot') /\ slot'.id = slot.id /\ slot'.protocol = slot.protocol
      BY <1>2, <1>4, <2>1, SetField
    <2> QED BY <1>3, <1>4, <2>2, ThreadCalm
  <1>5. ASSUME NEW type \in {"CONNECTED", "CONNECTING"}
        PROVE  LET t == NewFd(id, TRUE, type)
               IN  /\ t \in SlotRec /\ t.id = id /\ t.sending = 0 /\ SameLists(slot, t)
    <2> DEFINE t == NewFd(id, TRUE, type)
    <2>1. type \in Type
      BY DEF Type
    <2>2. /\ t \in SlotRec /\ t.id = id /\ t.sending = 0 /\ t.high = slot.high
          /\ t.low = slot.low /\ t.dw = <<>>
      BY <1>1, <1>2, <2>1, NewFdFields, ZenonT(30)
    <2> HIDE DEF t
    <2>3. SameLists(slot, t)
      BY <1>2, <2>2 DEF SameLists
    <2> QED BY <2>2, <2>3 DEF t
  <1>6. CASE slot' = NewFd(id, TRUE, "CONNECTED") /\ peer' = NewPeer
    <2> DEFINE t == NewFd(id, TRUE, "CONNECTED")
    <2>1. t.id = id /\ t.sending = 0 /\ SameLists(slot, t)
      BY <1>5
    <2> HIDE DEF t
    <2>2. slot' = t
      BY <1>6 DEF t
    <2> QED BY <1>1, <1>2, <1>3, <1>6, <2>1, <2>2, NewCalm
  <1>7. CASE /\ slot' = [NewFd(id, TRUE, "CONNECTING") EXCEPT !.writing = TRUE]
             /\ peer' = NewPeer
    <2> DEFINE t == NewFd(id, TRUE, "CONNECTING")
    <2>1. t \in SlotRec /\ t.id = id /\ t.sending = 0 /\ SameLists(slot, t)
      BY <1>5
    <2> HIDE DEF t
    <2> DEFINE u == [t EXCEPT !.writing = TRUE]
    <2>2. SameConn(t, u) /\ SameStore(t, u)
      BY <2>1, SetField
    <2> HIDE DEF u
    <2>3. slot' = u
      BY <1>7 DEF t, u
    <2>4. slot'.id = id /\ slot'.sending = 0 /\ SameLists(slot, slot')
      BY <2>1, <2>2, <2>3 DEF SameConn, SameStore, SameLists
    <2> QED BY <1>1, <1>2, <1>3, <1>7, <2>4, NewCalm
  <1> QED BY <1>4, <1>6, <1>7 DEF open_socket, id

\* report_accept moves no package.
LEMMA AcceptCalm ==
    ASSUME Base, Accept
    PROVE  Calm
  <1> USE DEF Base
  <1> DEFINE id == slot.id + 1
             t == NewFd(id, FALSE, "PACCEPT")
  <1>1. /\ slot.type = "INVALID" /\ slot.id < MaxId /\ slot' = t /\ peer' = NewPeer
        /\ UNCHANGED <<pipe, th, call, from, freed, done>>
    BY DEF Accept, Reservable
  <1>2. /\ slot \in SlotRec /\ slot.id \in 0 .. MaxId /\ "PACCEPT" \in Type
        /\ slot.high = <<>> /\ slot.low = <<>> /\ slot.dw = <<>> /\ ~HasFd
    BY <1>1, SlotFields DEF Types, Buffers, HasFd, Type
  <1>3. id \in Id /\ id \notin told
    BY <1>1, <1>2, BoundAssumption DEF Id, Conn
  <1> HIDE DEF id
  <1>4. /\ t \in SlotRec /\ t.id = id /\ t.type = "PACCEPT" /\ t.protocol = "TCP"
        /\ t.tag = id /\ t.sending = 0 /\ t.closing = FALSE
        /\ t.high = slot.high /\ t.low = slot.low /\ t.dw = <<>>
        /\ t.lock = slot.lock
    BY <1>2, <1>3, NewFdFields, ZenonT(30)
  <1> HIDE DEF t
  <1>5. SameLists(slot, slot')
    BY <1>1, <1>2, <1>4 DEF SameLists
  <1>6. CalmPipe
    BY <1>1 DEF CalmPipe
  <1> QED BY <1>1, <1>2, <1>3, <1>4, <1>5, <1>6, NewCalm

\* The requests that only set flags
LEMMA FlagCalm ==
    ASSUME Base, th = Ctrl, CalmPipe, UNCHANGED <<call, from>>, NEW id,
           resume_socket(id) \/ pause_socket(id) \/ trigger_write(id)
    PROVE  Calm
  <1> USE DEF Base
  <1>1. UNCHANGED <<th, peer, freed, done>>
    BY DEF resume_socket, pause_socket, trigger_write
  <1>2. slot \in SlotRec
    BY DEF Types
  <1>3. SameStore(slot, slot') /\ slot'.id = slot.id /\ slot'.protocol = slot.protocol
    <2> DEFINE t == [slot EXCEPT !.reading = TRUE,
                              !.type = IF @ = "PACCEPT" THEN "CONNECTED" ELSE @]
    <2>1. CASE slot' = slot
      BY <2>1, SameSlot
    <2>2. CASE slot' = t
      <3>1. SameStore(slot, t) /\ t.id = slot.id /\ t.protocol = slot.protocol
        BY <1>2, ResumedFields
      <3> HIDE DEF t
      <3> QED BY <2>2, <3>1
    <2>3. CASE slot' = [slot EXCEPT !.reading = FALSE] \/ slot' = [slot EXCEPT !.writing = TRUE]
      <3>1. SameStore(slot, slot') /\ SameConn(slot, slot')
        <4>1. CASE slot' = [slot EXCEPT !.reading = FALSE]
          BY <1>2, <4>1, SetField
        <4>2. CASE slot' = [slot EXCEPT !.writing = TRUE]
          BY <1>2, <4>2, SetField
        <4> QED BY <2>3, <4>1, <4>2
      <3> QED BY <3>1 DEF SameConn
    <2> QED BY <2>1, <2>2, <2>3 DEF resume_socket, pause_socket, trigger_write
  <1> QED BY <1>1, <1>3, ThreadCalm

\* close_read, of a close request or at the end of the stream
LEMMA CloseReadCalm ==
    ASSUME Base, th.at # "close", CalmPipe, UNCHANGED <<th, peer, call, from, freed, done>>,
           slot' = ClosedRead(slot) \/ slot' = [ClosedRead(slot) EXCEPT !.closing = TRUE]
    PROVE  Calm
  <1> USE DEF Base
  <1> DEFINE t == ClosedRead(slot)
  <1>1. slot \in SlotRec
    BY DEF Types
  <1>2. /\ t \in SlotRec /\ SameStore(slot, t) /\ t.id = slot.id
        /\ t.protocol = slot.protocol
    BY <1>1, ClosedReadFields
  <1> HIDE DEF t
  <1>3. SameStore(slot, slot') /\ slot'.id = slot.id /\ slot'.protocol = slot.protocol
    <2>1. CASE slot' = t
      BY <1>2, <2>1
    <2>2. CASE slot' = [t EXCEPT !.closing = TRUE]
      <3>1. SameStore(t, slot') /\ slot'.id = t.id /\ slot'.protocol = t.protocol
        BY <1>2, <2>2, SetField
      <3> QED BY <1>2, <3>1 DEF SameStore
    <2> QED BY <2>1, <2>2 DEF t
  <1> QED BY <1>3, ThreadCalm

\* An event that leaves the slot alone
LEMMA IdleCalm ==
    ASSUME Base, UNCHANGED <<slot, pipe, call, from, freed, done>>, peer'.got = peer.got,
           th' = th \/ (th \in {Ctrl, Events} /\ th' \in {Ctrl, Events})
    PROVE  Calm
  <1>1. SameStore(slot, slot')
    BY SameSlot
  <1>2. CalmPipe
    BY DEF CalmPipe
  <1> QED BY <1>1, <1>2, CtrlEvents, ThreadCalm

-----------------------------------------------------------------------------
(* The steps that move packages                                            *)

\* force_close up to the lock
Dropping ==
    /\ HasFd /\ th.at \notin {"close", "dec"} /\ CalmPipe
    /\ UNCHANGED <<peer, call, from>>
    /\ \E msg, back : BeginClose(msg, back)

\* send_socket, for a request with a package
Listing ==
    /\ th = Ctrl /\ pipe # <<>> /\ pipe' = Tail(pipe) /\ UNCHANGED <<call, from>>
    /\ \/ Head(pipe).cmd = "D" /\ send_socket(Head(pipe).id, Head(pipe).pk, "high")
       \/ Head(pipe).cmd = "P" /\ send_socket(Head(pipe).id, Head(pipe).pk, "low")

\* send_buffer
Writing == /\ InEvent /\ UNCHANGED <<pipe, call, from>>
           /\ \E n \in Nat : send_buffer(n)
\* send_buffer that fails
Failing == InEvent /\ UNCHANGED <<pipe, call, from>> /\ SendBufferFails

\* A step that moves packages
Moving ==
    \/ \E w \in Worker, id \in Id, prio \in {"high", "low"} : SendBegin(w, id, prio)
    \/ \E w \in Worker, n \in 0 .. Size : DirectWrite(w, n)
    \/ \E w \in Worker : Queue(w)
    \/ Listing \/ Dropping \/ EndClose \/ Writing \/ Failing

\* Every request of the pipe
LEMMA CtrlMoves ==
    ASSUME Base, ctrl_cmd
    PROVE  Calm \/ Moving
  <1> USE DEF Base
  <1> DEFINE r == Head(pipe)
  <1>1. /\ th = Ctrl /\ pipe # <<>> /\ pipe' = Tail(pipe) /\ UNCHANGED <<call, from>>
    BY DEF ctrl_cmd
  <1>2. ~Carries(r) => CalmPipe
    BY <1>1 DEF CalmPipe
  <1>3. r.cmd # "O" => r.id \in told
    <2>1. 1 \in DOMAIN pipe /\ Head(pipe) = pipe[1]
      BY <1>1 DEF Types
    <2> QED BY <2>1 DEF Pipes
  <1>4. CASE r.cmd = "O" /\ open_socket(r.id)
    BY <1>1, <1>4, OpenCalm
  <1>5. CASE \/ r.cmd = "R" /\ resume_socket(r.id)
             \/ r.cmd = "S" /\ pause_socket(r.id)
             \/ r.cmd = "W" /\ trigger_write(r.id)
    <2>1. CalmPipe
      BY <1>2, <1>5 DEF Carries
    <2> QED BY <1>1, <1>5, <2>1, FlagCalm
  <1>6. ASSUME r.cmd \in {"K", "shutdown"}, NEW b \in BOOLEAN, close_socket(r.id, b)
        PROVE  Calm \/ Moving
    <2>1. CalmPipe /\ peer' = peer /\ r.id \in told
      BY <1>2, <1>3, <1>6 DEF Carries, close_socket
    <2>2. th.at = "ctrl" /\ th \in {Ctrl, Events}
      BY <1>1, CtrlEvents
    <2>3. CASE UNCHANGED <<slot, th, freed, done, told, closes>>
      BY <1>1, <2>1, <2>3, SameSlot, ThreadCalm
    <2>4. CASE ~socket_invalid(r.id) /\ BeginClose(RaisedBy, Ctrl)
      <3>1. HasFd
        BY <2>1, <2>4 DEF socket_invalid, HasFd, Conn
      <3>2. Dropping
        BY <1>1, <2>1, <2>2, <2>4, <3>1 DEF Dropping
      <3> QED BY <3>2 DEF Moving
    <2>5. CASE /\ slot' = [ClosedRead(slot) EXCEPT !.closing = TRUE]
               /\ UNCHANGED <<th, freed, done, told>>
      BY <1>1, <2>1, <2>2, <2>5, CloseReadCalm
    <2> QED BY <1>6, <2>3, <2>4, <2>5 DEF close_socket
  <1>7. CASE \/ r.cmd = "D" /\ send_socket(r.id, r.pk, "high")
             \/ r.cmd = "P" /\ send_socket(r.id, r.pk, "low")
    BY <1>1, <1>7 DEF Moving, Listing
  <1> QED BY <1>4, <1>5, <1>6, <1>7 DEF ctrl_cmd

\* Every event
LEMMA EventMoves ==
    ASSUME Base, Dispatch
    PROVE  Calm \/ Moving
  <1> USE DEF Base
  <1>1. InEvent /\ th = Events /\ UNCHANGED <<pipe, call, from>> /\ CalmPipe
    BY DEF Dispatch, InEvent, CalmPipe
  <1>2. /\ th.at \notin {"close", "dec"} /\ th \in {Ctrl, Events} /\ peer \in PeerRec
        /\ slot \in SlotRec
    BY <1>1, CtrlEvents DEF Types
  <1>3. Consumed.got = peer.got
    BY <1>2, ConsumedType
  <1>4. CASE Stale \/ SendBufferLater \/ ErrorEvent \/ ReadData \/ ReadError
    <2>1. UNCHANGED <<slot, th, freed, done>> /\ (peer' = peer \/ peer' = Consumed)
      BY <1>4 DEF Stale, SendBufferLater, ErrorEvent, ReadData, ReadError
    <2> QED BY <1>1, <1>3, <2>1, IdleCalm
  <1>5. ASSUME HasFd, peer' = peer, NEW msg, NEW back, BeginClose(msg, back)
        PROVE  Moving
    BY <1>1, <1>2, <1>5 DEF Moving, Dropping
  <1>6. CASE report_connect
    <2>1. HasFd /\ peer' = peer
      BY <1>6 DEF report_connect, HasFd
    <2>2. CASE BeginClose("ERR", Events)
      BY <1>5, <2>1, <2>2
    <2>3. CASE /\ slot' = [slot EXCEPT !.type = "CONNECTED",
                                       !.writing = @ /\ ~nomore_sending_data]
               /\ UNCHANGED <<th, freed, done>>
      <3>1. PICK x \in BOOLEAN : x = (slot.writing /\ ~nomore_sending_data)
        OBVIOUS
      <3> DEFINE a == [slot EXCEPT !.type = "CONNECTED"]
                 b == [a EXCEPT !.writing = x]
      <3>2. "CONNECTED" \in Type
        BY DEF Type
      <3>3. /\ a \in SlotRec /\ SameStore(slot, a) /\ a.id = slot.id
            /\ a.protocol = slot.protocol
        BY <1>2, <3>2, SetField
      <3> HIDE DEF a
      <3>4. SameConn(a, b) /\ SameStore(a, b)
        BY <3>3, SetField
      <3>5. slot' = b
        BY <2>3, <3>1 DEF a
      <3> HIDE DEF b
      <3>6. SameStore(slot, slot') /\ slot'.id = slot.id /\ slot'.protocol = slot.protocol
        BY <3>3, <3>4, <3>5 DEF SameConn, SameStore
      <3> QED BY <1>1, <2>1, <2>3, <3>6, ThreadCalm
    <2> QED BY <1>6, <2>2, <2>3 DEF report_connect
  <1>7. CASE forward_message_tcp
    <2>1. HasFd
      BY <1>1, <1>7 DEF forward_message_tcp, Dispatched, InEvent, Conn, HasFd
    <2>2. CASE ReadEnd
      <3>1. peer' = peer
        BY <2>2 DEF ReadEnd
      <3>2. CASE \E msg, back : BeginClose(msg, back)
        BY <1>5, <2>1, <3>1, <3>2
      <3>3. CASE UNCHANGED <<slot, th, freed, done>>
        BY <1>1, <3>1, <3>3, IdleCalm
      <3>4. CASE slot' = ClosedRead(slot) /\ UNCHANGED <<th, freed, done>>
        BY <1>1, <1>2, <3>1, <3>4, CloseReadCalm
      <3> QED BY <2>2, <3>2, <3>3, <3>4 DEF ReadEnd
    <2> QED BY <1>4, <1>7, <2>2 DEF forward_message_tcp
  <1>8. CASE \E n \in 0 .. Size * NPackage : send_buffer(n)
    <2>1. \A n \in 0 .. Size * NPackage : n \in Nat
      BY SizeAssumption
    <2> QED BY <1>1, <1>8, <2>1 DEF Moving, Writing
  <1>9. CASE SendBufferFails
    BY <1>1, <1>9 DEF Moving, Failing
  <1>10. CASE EofEvent
    <2>1. HasFd
      BY <1>1, <1>10 DEF EofEvent, Dispatched, InEvent, Conn, HasFd
    <2> QED BY <1>5, <1>10, <2>1 DEF EofEvent
  <1> QED BY <1>4, <1>6, <1>7, <1>8, <1>9, <1>10 DEF Dispatch

\* Every step moves packages, or it is one of those that do not.
LEMMA StepMoves ==
    ASSUME Base, [Next]_vars
    PROVE  Calm \/ Moving
  <1>1. CASE UNCHANGED vars
    BY <1>1, IdleCalm DEF vars
  <1>2. CASE Requests
    BY <1>2, ConnectCalm, ControlCalm DEF Requests, CloseOrShutdown, StartOrPause, Moving
  <1>3. CASE \E w \in Worker : WorkerStep(w)
    <2>1. PICK w \in Worker : WorkerStep(w)
      BY <1>3
    <2> QED BY <2>1, TestCalm, WakeCalm, IncCalm DEF WorkerStep, Moving
  <1>4. CASE SocketThread
    <2>1. CASE ctrl_cmd
      BY <2>1, CtrlMoves
    <2>2. CASE DecSending
      BY <2>2, DecCalm
    <2>3. CASE NoCmd
      BY <2>3, IdleCalm DEF NoCmd, ghosts
    <2>4. CASE EndClose
      BY <2>4 DEF Moving
    <2>5. CASE \E data \in BOOLEAN : Wait(data)
      BY <2>5, IdleCalm DEF Wait, ghosts
    <2>6. CASE Dispatch
      BY <2>6, EventMoves
    <2> QED BY <1>4, <2>1, <2>2, <2>3, <2>4, <2>5, <2>6 DEF SocketThread
  <1>5. CASE Accept
    BY <1>5, AcceptCalm
  <1>6. CASE PeerCloses \/ PeerResets
    <2>1. peer'.got = peer.got /\ UNCHANGED <<slot, pipe, th, call, from, freed, done>>
      BY <1>6 DEF PeerCloses, PeerResets, Base, Types, PeerRec, ghosts
    <2> QED BY <2>1, IdleCalm
  <1> QED BY <1>1, <1>2, <1>3, <1>4, <1>5, <1>6 DEF Next

\* The package of some of its bytes
LEMMA InBytes ==
    ASSUME NEW p \in Package, NEW n \in 0 .. Size
    PROVE  /\ In(Bytes(p)) = {p}
           /\ SubSeq(Bytes(p), n + 1, Size) \in Buffer
           /\ In(SubSeq(Bytes(p), n + 1, Size)) = IF n < Size THEN {p} ELSE {}
           /\ SubSeq(Bytes(p), 1, n) \in Buffer
           /\ In(SubSeq(Bytes(p), 1, n)) = IF n > 0 THEN {p} ELSE {}
           /\ \A i \in 1 .. (Size - n) : SubSeq(Bytes(p), n + 1, Size)[i] = <<p, n + i>>
           /\ \A i \in 1 .. n : SubSeq(Bytes(p), 1, n)[i] = <<p, i>>
           /\ Len(SubSeq(Bytes(p), n + 1, Size)) = Size - n
           /\ Len(SubSeq(Bytes(p), 1, n)) = n
  <1> DEFINE b == Bytes(p)
             t == SubSeq(b, n + 1, Size)
             h == SubSeq(b, 1, n)
  <1>1. b \in Buffer /\ Len(b) = Size /\ \A i \in 1 .. Size : b[i] = <<p, i>>
    BY BytesBuffer
  <1>2. DOMAIN b = 1 .. Size /\ Size \in Nat \ {0} /\ n \in Nat /\ n <= Size
    BY <1>1, SizeAssumption DEF Buffer
  <1> HIDE DEF b
  <1>3. In(b) = {p}
    <2>1. 1 \in DOMAIN b /\ \A i \in DOMAIN b : b[i][1] = p
      BY <1>1, <1>2
    <2> QED BY <2>1 DEF In
  <1>4. /\ t \in Buffer /\ Len(t) = Size - n /\ DOMAIN t = 1 .. (Size - n)
        /\ \A i \in 1 .. (Size - n) : t[i] = b[n + i]
    BY <1>1, <1>2, SliceBuffer
  <1>5. /\ h \in Buffer /\ Len(h) = n /\ DOMAIN h = 1 .. n /\ \A i \in 1 .. n : h[i] = b[i]
    BY <1>1, <1>2 DEF Buffer
  <1> HIDE DEF t, h
  <1>6. \A i \in 1 .. (Size - n) : t[i] = <<p, n + i>>
    <2> SUFFICES ASSUME NEW i \in 1 .. (Size - n) PROVE t[i] = <<p, n + i>>
      OBVIOUS
    <2>1. n + i \in 1 .. Size
      BY <1>2
    <2> QED BY <1>1, <1>4, <2>1
  <1>7. \A i \in 1 .. n : h[i] = <<p, i>>
    <2> SUFFICES ASSUME NEW i \in 1 .. n PROVE h[i] = <<p, i>>
      OBVIOUS
    <2>1. i \in 1 .. Size
      BY <1>2
    <2> QED BY <1>1, <1>5, <2>1
  <1>8. In(t) = IF n < Size THEN {p} ELSE {}
    <2>1. \A i \in DOMAIN t : t[i][1] = p
      BY <1>4, <1>6
    <2>2. CASE n < Size
      <3>1. 1 \in DOMAIN t
        BY <1>2, <1>4, <2>2
      <3> QED BY <2>1, <2>2, <3>1 DEF In
    <2>3. CASE ~(n < Size)
      <3>1. DOMAIN t = {}
        BY <1>2, <1>4, <2>3
      <3> QED BY <2>3, <3>1 DEF In
    <2> QED BY <2>2, <2>3
  <1>9. In(h) = IF n > 0 THEN {p} ELSE {}
    <2>1. \A i \in DOMAIN h : h[i][1] = p
      BY <1>5, <1>7
    <2>2. CASE n > 0
      <3>1. 1 \in DOMAIN h
        BY <1>2, <1>5, <2>2
      <3> QED BY <2>1, <2>2, <3>1 DEF In
    <2>3. CASE ~(n > 0)
      <3>1. DOMAIN h = {}
        BY <1>2, <1>5, <2>3
      <3> QED BY <2>3, <3>1 DEF In
    <2> QED BY <2>2, <2>3
  <1> QED BY <1>3, <1>4, <1>5, <1>6, <1>7, <1>8, <1>9 DEF b, t, h

\* The packages that wait to be written
LEMMA DataLies ==
    ASSUME Types
    PROVE  /\ Data \in Buffer /\ In(Data) = Lying
           /\ slot.dw \in Buffer /\ slot.high \in Buffer /\ slot.low \in Buffer
           /\ slot.dw \o slot.high \in Buffer
  <1>1. slot.high \in Buffer /\ slot.low \in Buffer /\ slot.dw \in Buffer
    BY SlotFields DEF Types
  <1>2. slot.dw \o slot.high \in Buffer
    BY <1>1, ConcatBuffer
  <1>3. In(slot.dw \o slot.high) = In(slot.dw) \union In(slot.high)
    BY <1>1, InParts
  <1>4. In(Data) = In(slot.dw \o slot.high) \union In(slot.low)
    BY <1>1, <1>2, InParts DEF Data
  <1>5. Data \in Buffer
    BY <1>1, <1>2, ConcatBuffer DEF Data
  <1> QED BY <1>1, <1>2, <1>3, <1>4, <1>5 DEF Lying

\* socket_server_send, the direct write: what was not written is in s->dw_buffer.
LEMMA DirectEffect ==
    ASSUME Base, NEW w \in Worker, NEW n \in 0 .. Size, DirectWrite(w, n)
    PROVE  LET p == call[w].pk
           IN  /\ call[w].at = "flags" /\ FlagsOK(w) /\ p \in Package
               /\ slot.dw = <<>> /\ slot'.dw = SubSeq(Bytes(p), n + 1, Size)
               /\ slot'.high = slot.high /\ slot'.low = slot.low
               /\ slot'.sending = slot.sending /\ SameConn(slot, slot')
               /\ peer'.got = peer.got \o SubSeq(Bytes(p), 1, n)
               /\ done' = IF n = Size THEN done \union {p} ELSE done
               /\ Others(w) /\ call'[w].at \in {"idle", "wake"}
               /\ UNCHANGED <<pipe, th, from, freed>>
  <1> USE DEF Base
  <1> DEFINE p == call[w].pk
             d == SubSeq(Bytes(p), n + 1, Size)
             e == SubSeq(Bytes(p), 1, n)
  <1>1. /\ call[w].at = "flags" /\ FlagsOK(w)
        /\ done' = IF n = Size THEN done \union {p} ELSE done
        /\ slot' = [slot EXCEPT !.dw = d, !.lock = None]
        /\ call' = [call EXCEPT ![w] = Idle] \/ GoTo(w, "wake")
        /\ peer' = IF n = 0 THEN Consumed ELSE Sent(e)
        /\ UNCHANGED <<pipe, th, from, freed>>
    BY DEF DirectWrite, At
  <1>2. slot \in SlotRec /\ "wake" \in Stage /\ p \in Package /\ peer \in PeerRec
    BY <1>1 DEF Types, Stage, Calls
  <1>3. d \in Buffer /\ e \in Buffer /\ Len(e) = n
    BY <1>2, InBytes
  <1>4. slot.dw = <<>>
    BY <1>1 DEF FlagsOK
  <1> HIDE DEF d, e
  <1>5. /\ SameConn(slot, slot') /\ slot'.dw = d /\ slot'.sending = slot.sending
        /\ slot'.high = slot.high /\ slot'.low = slot.low
    BY <1>1, <1>2, <1>3, DirectFields
  <1>6. Others(w) /\ call'[w].at \in {"idle", "wake"}
    BY <1>1, <1>2, GoToIdle, GoToCall DEF Others
  <1>7. peer'.got = peer.got \o e
    <2>1. CASE n = 0
      <3>1. e = <<>> /\ peer.got \in Buffer
        BY <1>2, <1>3, <2>1 DEF Buffer, PeerRec
      <3>2. peer.got \o e = peer.got
        BY <3>1, EmptyConcat
      <3> QED BY <1>1, <1>2, <2>1, <3>2, ConsumedType
    <2>2. CASE n # 0
      BY <1>1, <1>2, <2>2 DEF Sent, PeerRec
    <2> QED BY <2>1, <2>2
  <1> QED BY <1>1, <1>2, <1>4, <1>5, <1>6, <1>7 DEF d, e

\* send_socket frees the package or appends it to one of the lists.
LEMMA ListEffect ==
    ASSUME Base, Listing
    PROVE  LET r == Head(pipe)
           IN  /\ Carries(r) /\ r.pk \in Package /\ r.id \in told
               /\ pipe # <<>> /\ pipe' = Tail(pipe)
               /\ UNCHANGED <<call, from, done, peer>>
               /\ th.at = "ctrl" /\ th'.at = "dec" /\ th'.id = r.id
               /\ SameConn(slot, slot') /\ slot'.dw = slot.dw
               /\ slot'.sending = slot.sending
               /\ \/ freed' = freed \union {r.pk} /\ SameLists(slot, slot')
                  \/ /\ freed' = freed /\ HasFd /\ slot.id = r.id /\ slot'.low = slot.low
                     /\ slot'.high = slot.high \o Bytes(r.pk)
                     /\ r.cmd = "D" \/ slot.low = <<>>
                  \/ /\ freed' = freed /\ HasFd /\ slot.id = r.id /\ slot'.high = slot.high
                     /\ slot'.low = slot.low \o Bytes(r.pk) /\ r.cmd = "P"
  <1> USE DEF Base
  <1> DEFINE r == Head(pipe)
             id == r.id
             p == r.pk
  <1>1. /\ th = Ctrl /\ pipe # <<>> /\ pipe' = Tail(pipe) /\ UNCHANGED <<call, from>>
        /\ Carries(r)
    BY DEF Listing, Carries
  <1>2. id \in told /\ p \in Package
    <2>1. 1 \in DOMAIN pipe /\ Head(pipe) = pipe[1]
      BY <1>1 DEF Types
    <2> QED BY <1>1, <2>1 DEF Pipes, Carries
  <1>3. PICK prio \in {"high", "low"} :
          /\ send_socket(id, p, prio)
          /\ prio = "high" => r.cmd = "D"
          /\ prio = "low" => r.cmd = "P"
    BY DEF Listing
  <1>4. UNCHANGED <<peer, done>> /\ th' = [Doing("dec") EXCEPT !.id = id]
    BY <1>3 DEF send_socket
  <1>5. th'.at = "dec" /\ th'.id = id /\ th.at = "ctrl"
    BY <1>1, <1>4, CtrlEvents DEF Doing
  <1>6. /\ slot \in SlotRec /\ slot.high \in Buffer /\ slot.low \in Buffer
        /\ Bytes(p) \in Buffer
    BY <1>2, SlotFields, BytesBuffer DEF Types
  <1> DEFINE h == slot.high \o Bytes(p)
             l == slot.low \o Bytes(p)
             x == send_buffer_empty
             t == [slot EXCEPT !.high = h, !.writing = @ \/ x]
             u == [slot EXCEPT !.low = l]
  <1>7. h \in Buffer /\ l \in Buffer /\ x \in BOOLEAN
    BY <1>6, ConcatBuffer DEF send_buffer_empty
  <1>8. \/ slot' = slot /\ freed' = freed \union {p}
        \/ /\ ~socket_invalid(id) /\ freed' = freed
           /\ \/ slot' = u /\ prio = "low"
              \/ slot' = t /\ (prio = "low" => x)
    BY <1>3 DEF send_socket
  <1>9. ~socket_invalid(id) => HasFd /\ slot.id = id
    BY <1>2 DEF HasFd, socket_invalid, Conn
  <1>10. x => slot.low = <<>>
    BY DEF send_buffer_empty
  <1> HIDE DEF id, p, h, l, x
  <1>11. /\ SameConn(slot, t) /\ t.high = h /\ t.low = slot.low /\ t.dw = slot.dw
         /\ t.sending = slot.sending
    <2>1. /\ t \in SlotRec /\ SameConn(slot, t) /\ t.high = h
          /\ t.low = slot.low /\ t.dw = slot.dw /\ t.lock = slot.lock
          /\ t.sending = slot.sending
      BY <1>6, <1>7, ListedFields
    <2> HIDE DEF t
    <2> QED BY <2>1
  <1>12. /\ SameConn(slot, u) /\ u.high = slot.high /\ u.low = l /\ u.dw = slot.dw
         /\ u.sending = slot.sending
    BY <1>6, <1>7, SetField
  <1> HIDE DEF t, u
  <1>13. CASE slot' = slot /\ freed' = freed \union {p}
    <2>1. SameConn(slot, slot') /\ SameLists(slot, slot') /\ SameStore(slot, slot')
      BY <1>13, SameSlot
    <2> QED BY <1>1, <1>2, <1>4, <1>5, <1>13, <2>1 DEF SameStore, id, p
  <1>14. CASE ~socket_invalid(id) /\ freed' = freed /\ slot' = u /\ prio = "low"
    BY <1>1, <1>2, <1>3, <1>4, <1>5, <1>9, <1>12, <1>14 DEF id, p, l
  <1>15. CASE ~socket_invalid(id) /\ freed' = freed /\ slot' = t /\ (prio = "low" => x)
    BY <1>1, <1>2, <1>3, <1>4, <1>5, <1>9, <1>10, <1>11, <1>15 DEF id, p, h
  <1> QED BY <1>8, <1>13, <1>14, <1>15

\* force_close up to the lock frees both lists.
LEMMA DropEffect ==
    ASSUME Base, Dropping
    PROVE  /\ HasFd /\ CalmPipe /\ UNCHANGED <<peer, call, from, done>>
           /\ th.at \notin {"close", "dec"} /\ th'.at = "close"
           /\ slot'.high = <<>> /\ slot'.low = <<>> /\ slot'.dw = slot.dw
           /\ slot'.sending = slot.sending /\ SameConn(slot, slot')
           /\ freed' = freed \union In(slot.high) \union In(slot.low)
  <1> USE DEF Base
  <1> DEFINE t == WithBuffers(slot, <<>>, <<>>, slot.dw)
  <1>1. /\ HasFd /\ CalmPipe /\ UNCHANGED <<peer, call, from, done>>
        /\ th.at \notin {"close", "dec"} /\ th'.at = "close" /\ slot' = t
        /\ freed' = freed \union In(slot.high) \union In(slot.low)
    BY DEF Dropping, BeginClose
  <1>2. slot \in SlotRec /\ slot.dw \in Buffer
    BY SlotFields DEF Types
  <1>3. SameBut(slot, t)
    BY <1>2, EmptyBuffer, WithBuffersFields
  <1>4. t.dw = slot.dw /\ t.high = <<>> /\ t.low = <<>>
    BY <1>2 DEF WithBuffers, SlotRec
  <1> HIDE DEF t
  <1> QED BY <1>1, <1>3, <1>4 DEF SameBut, SameConn

\* force_close from the lock on frees s->dw_buffer.
LEMMA EndEffect ==
    ASSUME Base, EndClose
    PROVE  /\ th.at = "close" /\ slot.lock = None /\ th'.at \notin {"close", "dec"}
           /\ UNCHANGED <<pipe, peer, call, from, done>>
           /\ slot'.high = <<>> /\ slot'.low = <<>> /\ slot'.dw = <<>>
           /\ slot'.sending = slot.sending /\ slot'.id = slot.id
           /\ slot'.protocol = slot.protocol
           /\ freed' = freed \union In(slot.dw)
  <1> USE DEF Base
  <1>1. /\ th.at = "close" /\ slot.lock = None /\ slot' = Closed(slot)
        /\ freed' = freed \union In(slot.dw) /\ th' = Doing(th.back)
        /\ UNCHANGED <<pipe, peer, call, from, done>>
    BY DEF EndClose
  <1>2. slot \in SlotRec /\ th.back \in {"ctrl", "event"}
    BY <1>1 DEF Types, Closing
  <1>3. th'.at \in {"ctrl", "event"}
    BY <1>1, <1>2, DoingType
  <1> DEFINE t == Closed(slot)
  <1>4. /\ t.high = <<>> /\ t.low = <<>> /\ t.dw = <<>> /\ t.id = slot.id
        /\ t.protocol = slot.protocol /\ t.sending = slot.sending
    BY <1>2, ClosedFields
  <1> HIDE DEF t
  <1>5. slot' = t
    BY <1>1 DEF t
  <1> QED BY <1>1, <1>3, <1>4, <1>5

\* send_buffer that writes n bytes: the lists keep the others, in their
\* order.
LEMMA WriteEffect ==
    ASSUME Base, Writing
    PROVE  /\ th.at = "event" /\ slot.lock = None
           /\ UNCHANGED <<pipe, th, call, from, freed>>
           /\ slot'.sending = slot.sending /\ slot'.id = slot.id
           /\ slot'.protocol = slot.protocol
           /\ \E n \in Nat :
                 /\ n <= Len(Data)
                 /\ peer'.got = peer.got \o SubSeq(Data, 1, n)
                 /\ done' = done \union (In(SubSeq(Data, 1, n))
                                         \ In(SubSeq(Data, n + 1, Len(Data))))
                 /\ Data' = SubSeq(Data, n + 1, Len(Data))
                 /\ slot'.dw = <<>>
                 /\ In(slot'.low) \subseteq In(slot.low)
  <1> USE DEF Base
  <1>1. PICK n \in Nat : send_buffer(n)
    BY DEF Writing
  <1> DEFINE s == WithDw(slot)
             h == slot.dw \o slot.high
             all == s.high \o s.low
             r == Wrote(s, n)
  <1>2. /\ th = Events /\ slot.lock = None /\ UNCHANGED <<pipe, th, call, from, freed>>
        /\ n <= Len(all) /\ peer' = Sent(SubSeq(all, 1, n))
        /\ done' = done \union (In(SubSeq(all, 1, n)) \ In(SubSeq(all, n + 1, Len(all))))
        /\ slot' = IF n < Len(all) THEN r
                   ELSE IF slot.closing THEN Closed(r)
                   ELSE [r EXCEPT !.writing = FALSE]
    BY <1>1 DEF Writing, InEvent, send_buffer, SendSome
  <1>3. /\ s \in SlotRec /\ SameBut(slot, s) /\ s.high = h
        /\ s.low = slot.low /\ s.dw = <<>> /\ Cut(h) /\ h \in Buffer
    BY WithDwFields
  <1>4. slot.low \in Buffer /\ Cut(slot.low) /\ Fresh(slot.low) /\ peer \in PeerRec
    BY SlotFields DEF Types, Buffers
  <1>5. all = Data /\ th.at = "event"
    BY <1>2, <1>3, CtrlEvents DEF Data
  <1>6. n <= Len(h \o slot.low) /\ n <= Len(s.high \o s.low) /\ n <= Len(Data)
    BY <1>2, <1>3, <1>5 DEF Data
  <1>7. r \in SlotRec /\ SameBut(s, r) /\ r.dw = s.dw
    BY <1>3, <1>4, <1>6, WroteFields
  <1>8. /\ r.high \in Buffer /\ r.low \in Buffer
        /\ r.high \o r.low = SubSeq(Data, n + 1, Len(Data))
        /\ In(r.low) \subseteq In(slot.low)
    <2> DEFINE high == SubSeq(h, n + 1, Len(h))
               k == IF n > Len(h) THEN n - Len(h) ELSE 0
               low == SubSeq(slot.low, k + 1, Len(slot.low))
               first == high \o SubSeq(low, 1, Rest(low))
               tail == SubSeq(low, Rest(low) + 1, Len(low))
               v == WithBuffers(s, first, tail, s.dw)
    <2>1. first \in Buffer /\ tail \in Buffer
      BY <1>3, <1>4, <1>6, WroteLists, Zenon
    <2>2. first \o tail = SubSeq(h \o slot.low, n + 1, Len(h \o slot.low))
      BY <1>3, <1>4, <1>6, WroteRest, Zenon
    <2>3. In(tail) \subseteq In(slot.low)
      BY <1>3, <1>4, <1>6, WroteLow, Zenon
    <2>4. r = v
      BY <1>3, Zenon DEF Wrote
    <2> HIDE DEF first, tail
    <2>5. v.high = first /\ v.low = tail
      <3>1. s.dw \in Buffer
        BY <1>3, SlotFields
      <3> QED BY <1>3, <2>1, <3>1, WithBuffersFields
    <2> HIDE DEF v, r
    <2>6. r.high = first /\ r.low = tail
      BY <2>4, <2>5
    <2> QED BY <2>1, <2>2, <2>3, <2>6 DEF Data
  <1>9. slot'.sending = slot.sending /\ slot'.id = slot.id /\ slot'.protocol = slot.protocol
        /\ slot'.dw = <<>>
        /\ In(slot'.low) \subseteq In(slot.low)
        /\ (slot'.dw \o slot'.high) \o slot'.low = SubSeq(Data, n + 1, Len(Data))
    <2> HIDE DEF r
    <2> DEFINE rest == SubSeq(Data, n + 1, Len(Data))
    <2>1. <<>> \o r.high = r.high
      BY <1>8, EmptyConcat
    <2>2. r.sending = slot.sending /\ r.id = slot.id /\ r.protocol = slot.protocol
          /\ r.dw = <<>>
      BY <1>3, <1>7 DEF SameBut
    <2>3. CASE slot' = r
      BY <1>8, <2>1, <2>2, <2>3
    <2>4. CASE slot' = [r EXCEPT !.writing = FALSE]
      <3>1. SameConn(r, slot') /\ SameStore(r, slot')
        BY <1>7, <2>4, SetField
      <3> QED BY <1>8, <2>1, <2>2, <3>1 DEF SameConn, SameStore
    <2>5. CASE n >= Len(Data) /\ slot' = Closed(r)
      <3> DEFINE u == Closed(r)
      <3>1. /\ u.high = <<>> /\ u.low = <<>> /\ u.dw = <<>> /\ u.id = r.id
            /\ u.protocol = r.protocol /\ u.sending = r.sending
        BY <1>7, ClosedFields
      <3> HIDE DEF u
      <3>2. slot' = u
        BY <2>5 DEF u
      <3>3. rest = <<>>
        <4>1. Data \in Buffer
          BY DataLies
        <4>2. Len(Data) \in Nat
          BY <4>1, BufferBytes
        <4> QED BY <2>5, <4>1, <4>2 DEF Buffer
      <3>4. (<<>> \o <<>>) \o <<>> = <<>>
        BY EmptyBuffer, EmptyConcat
      <3>5. In(slot'.low) = {}
        BY <3>1, <3>2, EmptyBuffer
      <3> QED BY <2>2, <3>1, <3>2, <3>3, <3>4, <3>5
    <2>6. n < Len(Data) \/ n >= Len(Data)
      <3>1. Len(Data) \in Nat
        BY DataLies, BufferBytes
      <3> QED BY <3>1
    <2> QED BY <1>2, <1>5, <2>3, <2>4, <2>5, <2>6
  <1>10. peer'.got = peer.got \o SubSeq(Data, 1, n)
    BY <1>2, <1>4, <1>5 DEF Sent, PeerRec
  <1> QED BY <1>2, <1>5, <1>6, <1>9, <1>10 DEF Data

\* send_buffer that fails: the connection is closed and its buffers freed, or
\* they stay, what a direct write left before the high list.
LEMMA FailEffect ==
    ASSUME Base, Failing
    PROVE  /\ th.at = "event" /\ slot.lock = None
           /\ UNCHANGED <<pipe, th, call, from, done>> /\ peer'.got = peer.got
           /\ slot'.sending = slot.sending /\ slot'.id = slot.id
           /\ slot'.protocol = slot.protocol
           /\ slot'.dw = <<>>
           /\ \/ /\ slot'.high = <<>> /\ slot'.low = <<>>
                 /\ freed' = freed \union In(Data)
              \/ /\ slot'.high = slot.dw \o slot.high /\ slot'.low = slot.low
                 /\ freed' = freed
  <1> USE DEF Base
  <1> DEFINE s == WithDw(slot)
             h == slot.dw \o slot.high
             all == s.high \o s.low
  <1>1. /\ th = Events /\ slot.lock = None /\ UNCHANGED <<pipe, th, call, from, done>>
        /\ peer' = Consumed
        /\ \/ slot' = Closed(s) /\ freed' = freed \union In(all)
           \/ slot' = s /\ freed' = freed
           \/ /\ slot' = [s EXCEPT !.type = "HALFCLOSE_WRITE", !.writing = FALSE]
              /\ freed' = freed
    BY DEF Failing, InEvent, SendBufferFails, SendFails
  <1>2. /\ s \in SlotRec /\ SameBut(slot, s) /\ s.high = h
        /\ s.low = slot.low /\ s.dw = <<>>
    BY WithDwFields
  <1>3. all = Data /\ th.at = "event" /\ peer'.got = peer.got
    BY <1>1, <1>2, CtrlEvents, ConsumedType DEF Data, Types
  <1> HIDE DEF s
  <1>4. CASE slot' = Closed(s) /\ freed' = freed \union In(all)
    <2> DEFINE u == Closed(s)
    <2>1. /\ u.high = <<>> /\ u.low = <<>> /\ u.dw = <<>> /\ u.id = s.id
          /\ u.protocol = s.protocol /\ u.sending = s.sending
      BY <1>2, ClosedFields
    <2> HIDE DEF u
    <2>2. slot' = u
      BY <1>4 DEF u
    <2> QED BY <1>1, <1>2, <1>3, <1>4, <2>1, <2>2 DEF SameBut
  <1>5. CASE slot' = s /\ freed' = freed
    BY <1>1, <1>2, <1>3, <1>5 DEF SameBut
  <1>6. CASE /\ slot' = [s EXCEPT !.type = "HALFCLOSE_WRITE", !.writing = FALSE]
             /\ freed' = freed
    <2> DEFINE a == [s EXCEPT !.type = "HALFCLOSE_WRITE"]
               b == [a EXCEPT !.writing = FALSE]
    <2>1. "HALFCLOSE_WRITE" \in Type
      BY DEF Type
    <2>2. a \in SlotRec /\ SameStore(s, a) /\ a.id = s.id /\ a.protocol = s.protocol
      BY <1>2, <2>1, SetField
    <2> HIDE DEF a
    <2>3. SameConn(a, b) /\ SameStore(a, b)
      BY <2>2, SetField
    <2>4. slot' = b
      BY <1>6 DEF a
    <2> HIDE DEF b
    <2>5. /\ slot'.high = h /\ slot'.low = slot.low /\ slot'.dw = <<>>
          /\ slot'.sending = slot.sending /\ slot'.id = slot.id
          /\ slot'.protocol = slot.protocol
      BY <1>2, <2>2, <2>3, <2>4 DEF SameConn, SameStore, SameBut
    <2> QED BY <1>1, <1>3, <1>6, <2>5
  <1> QED BY <1>1, <1>4, <1>5, <1>6

-----------------------------------------------------------------------------
(* Every package is in one hand                                            *)

\* The two parts of Loads
PipeLoads ==
    /\ \A i, j \in DOMAIN pipe :
          Carries(pipe[i]) /\ Carries(pipe[j]) /\ pipe[i].pk = pipe[j].pk => i = j
    /\ \A i \in DOMAIN pipe :
          Carries(pipe[i]) => from[pipe[i].pk].id = pipe[i].id
\* Calls know their package and its priority.
CallLoads ==
    \A w \in Worker : Working(w) =>
       from[call[w].pk] = [by |-> w, id |-> call[w].id, prio |-> call[w].prio]
\* A close that waits for the lock has emptied the lists.
CloseLoads ==
    /\ th.at = "close" => slot.high = <<>> /\ slot.low = <<>>
    /\ \A p \in In(slot.dw) : p \notin In(slot.high) /\ p \notin In(slot.low)

\* Loads is three facts: about the pipe, the calls and the close under way.
LEMMA LoadsParts == Loads <=> PipeLoads /\ CallLoads /\ CloseLoads
  BY DEF Loads, PipeLoads, CallLoads, CloseLoads

\* The same for the next state
LEMMA LoadsNext == PipeLoads' /\ CallLoads' /\ CloseLoads' => Loads'
  BY DEF Loads, PipeLoads, CallLoads, CloseLoads

\* A package goes into one request.
LEMMA LoadsPush ==
    ASSUME Types, PipeLoads, from' = from, NEW cmd, NEW id, NEW pk, Request(cmd, id, pk),
           cmd \in {"D", "P"} => pk \in Package /\ pk \notin Piped /\ from[pk].id = id
    PROVE  PipeLoads'
  <1> DEFINE r == [cmd |-> cmd, id |-> id, pk |-> pk]
  <1>1. pipe \in Seq(ReqRec) /\ pipe' = Append(pipe, r)
    BY DEF Types, Request
  <1>2. r.cmd = cmd /\ r.pk = pk /\ r.id = id
    OBVIOUS
  <1> HIDE DEF r
  <1>3. /\ DOMAIN pipe = 1 .. Len(pipe) /\ Len(pipe) \in Nat
        /\ DOMAIN pipe' = 1 .. (Len(pipe) + 1)
        /\ \A i \in DOMAIN pipe : pipe'[i] = pipe[i]
        /\ pipe'[Len(pipe) + 1] = r
        /\ \A i \in DOMAIN pipe' : i = Len(pipe) + 1 \/ i \in DOMAIN pipe
    BY <1>1
  <1>4. Carries(r) => \A i \in DOMAIN pipe : Carries(pipe[i]) => pipe[i].pk # pk
    BY <1>2 DEF Carries, Piped, InPipe
  <1>5. ASSUME NEW i \in DOMAIN pipe', NEW j \in DOMAIN pipe',
               Carries(pipe'[i]), Carries(pipe'[j]), pipe'[i].pk = pipe'[j].pk
        PROVE  i = j
    BY <1>2, <1>3, <1>4, <1>5 DEF PipeLoads
  <1>6. ASSUME NEW i \in DOMAIN pipe', Carries(pipe'[i])
        PROVE  from[pipe'[i].pk].id = pipe'[i].id
    BY <1>2, <1>3, <1>6 DEF PipeLoads, Carries
  <1> QED BY <1>5, <1>6 DEF PipeLoads, Carries

\* Requests without a package leave the packages in the pipe alone.
LEMMA PipeCalm ==
    ASSUME Types, Pipes, Loads, CalmPipe, from' = from
    PROVE  Piped' = Piped /\ PipeLoads'
  <1>1. CASE pipe' = pipe
    BY <1>1, LoadsParts DEF Piped, InPipe, PipeLoads, Carries
  <1>2. CASE \E cmd \in {"O", "K", "shutdown", "R", "S", "W"}, id \in Id : Request(cmd, id, 0)
    <2>1. PICK cmd \in {"O", "K", "shutdown", "R", "S", "W"}, id \in Id : Request(cmd, id, 0)
      BY <1>2
    <2>2. cmd \notin {"D", "P"}
      OBVIOUS
    <2> QED BY <2>1, <2>2, PipedPush, LoadsPush, LoadsParts
  <1>3. CASE pipe # <<>> /\ pipe' = Tail(pipe) /\ ~Carries(Head(pipe))
    <2>1. Piped' = Piped
      BY <1>3, PipedPop
    <2> QED BY <1>3, <2>1, LoadsPop DEF PipeLoads, Carries
  <1> QED BY <1>1, <1>2, <1>3 DEF CalmPipe

\* Workers that keep their packages leave the packages in calls alone.
LEMMA CallsCalm ==
    ASSUME Loads, CalmCalls, from' = from
    PROVE  Called' = Called /\ CallLoads'
  <1>1. CASE call' = call
    BY <1>1, LoadsParts DEF Called, InCall, At, CallLoads, Working
  <1>2. CASE call' # call
    <2>1. PICK w \in Worker :
            /\ Others(w)
            /\ \/ Working(w) /\ Working(w)' /\ SameLoad(w)
               \/ ~Working(w) /\ ~Working(w)'
      BY <1>2 DEF CalmCalls
    <2>2. Called' = Called
      BY <2>1, CalledKept, CalledIdle DEF Others, SameLoad
    <2>3. CallLoads'
      <3> SUFFICES ASSUME NEW x \in Worker, Working(x)'
                   PROVE  from[call'[x].pk] =
                            [by |-> x, id |-> call'[x].id, prio |-> call'[x].prio]
        BY DEF CallLoads
      <3>1. CASE x = w
        BY <2>1, <3>1 DEF SameLoad, Loads
      <3>2. CASE x # w
        BY <2>1, <3>2 DEF Others, Loads, Working
      <3> QED BY <3>1, <3>2
    <2> QED BY <2>2, <2>3
  <1> QED BY <1>1, <1>2

\* A step that moves no package keeps every package in its hand.
LEMMA HandsCalm ==
    ASSUME Base, Hands, Loads, Calm
    PROVE  Hands' /\ Loads'
  <1>1. CalmData /\ CalmPipe /\ CalmCalls /\ from' = from
    BY DEF Calm, CalmData
  <1>2. Piped' = Piped /\ PipeLoads'
    BY <1>1, PipeCalm DEF Base
  <1>3. Called' = Called /\ CallLoads'
    BY <1>1, CallsCalm
  <1>4. Lying' = Lying /\ done' = done /\ freed' = freed
    BY <1>1 DEF CalmData, SameLists, Lying
  <1>5. CloseLoads'
    BY <1>1 DEF CalmData, SameLists, CloseLoads, Loads
  <1> QED BY <1>1, <1>2, <1>3, <1>4, <1>5, LoadsNext DEF Hands

\* A step with the pipe and the calls unchanged keeps what they carry.
LEMMA CallsStay ==
    ASSUME Loads, call' = call, from' = from
    PROVE  Called' = Called /\ CallLoads'
  BY CallsCalm DEF CalmCalls

\* The same pipe carries the same.
LEMMA PipeStays ==
    ASSUME Types, Pipes, Loads, pipe' = pipe, from' = from
    PROVE  Piped' = Piped /\ PipeLoads'
  BY PipeCalm DEF CalmPipe

\* A new package: freed at once, or in the hands of its worker
LEMMA HandsBegin ==
    ASSUME Base, Hands, Loads, NEW w \in Worker, NEW id \in Id,
           NEW prio \in {"high", "low"}, SendBegin(w, id, prio)
    PROVE  Hands' /\ Loads'
  <1> USE DEF Base
  <1> DEFINE p == Len(from) + 1
             f == [by |-> w, id |-> id, prio |-> prio]
             first == IF prio = "high" THEN "try" ELSE "inc"
             no == socket_invalid(id) \/ (prio = "high" /\ slot.closing)
  <1>1. /\ call[w] = Idle /\ id \in told /\ Len(from) < NPackage
        /\ from' = Append(from, f)
        /\ freed' = IF no THEN freed \union {p} ELSE freed
        /\ call' = IF no THEN call
                   ELSE [call EXCEPT ![w] = [at |-> first, pk |-> p,
                                             id |-> id, prio |-> prio]]
        /\ UNCHANGED <<slot, pipe, th, done>>
    BY DEF SendBegin
  <1>2. /\ DOMAIN from = 1 .. Len(from) /\ Len(from) \in Nat
        /\ p \notin DOMAIN from /\ p \in Package /\ from \in Seq(FromRec)
    BY <1>1, HandsTypes, SizeAssumption DEF Package, Types
  <1>3. /\ DOMAIN from' = DOMAIN from \union {p}
        /\ \A q \in DOMAIN from : from'[q] = from[q]
        /\ from'[p] = f
    BY <1>1, <1>2
  <1>4. ~Working(w)
    BY <1>1 DEF Working, Idle
  <1>5. Piped' = Piped /\ Lying' = Lying /\ done' = done
    BY <1>1 DEF Piped, InPipe, Lying
  <1>6. /\ \A i \in DOMAIN pipe : Carries(pipe[i]) => pipe[i].pk \in DOMAIN from
        /\ \A x \in Worker : Working(x) => call[x].pk \in DOMAIN from
    BY HandsTypes
  <1>7. PipeLoads'
    BY <1>1, <1>3, <1>6 DEF PipeLoads, Loads, Carries
  <1>8. CloseLoads'
    BY <1>1 DEF CloseLoads, Loads
  <1>9. /\ Piped \subseteq DOMAIN from /\ Called \subseteq DOMAIN from
        /\ Lying \subseteq DOMAIN from /\ done \subseteq DOMAIN from
        /\ freed \subseteq DOMAIN from
    BY HandsTypes
  <1> HIDE DEF p, f, no
  <1>10. CASE no
    <2>1. Called' = Called /\ call' = call /\ freed' = freed \union {p}
      BY <1>1, <1>10 DEF Called, InCall, At
    <2>2. CallLoads'
      BY <1>3, <1>6, <2>1 DEF CallLoads, Loads, Working
    <2>3. Hands'
      BY <1>2, <1>3, <1>5, <1>9, <2>1 DEF Hands, Apart
    <2> QED BY <1>7, <1>8, <2>2, <2>3, LoadsNext
  <1>11. CASE ~no
    <2> DEFINE c == [at |-> first, pk |-> p, id |-> id, prio |-> prio]
    <2>1. call' = [call EXCEPT ![w] = c] /\ freed' = freed /\ call \in [Worker -> CallRec]
      BY <1>1, <1>11 DEF Types
    <2>2. c.at = first /\ c.pk = p /\ c.id = id /\ c.prio = prio /\ first \notin {"idle", "wake"}
      OBVIOUS
    <2> HIDE DEF c, first
    <2>3. call'[w] = c /\ Others(w)
      BY <2>1 DEF Others
    <2>4. Called' = Called \union {p}
      BY <1>2, <1>4, <2>2, <2>3 DEF Called, InCall, At, Working, Others
    <2>5. CallLoads'
      <3> SUFFICES ASSUME NEW x \in Worker, Working(x)'
                   PROVE  from'[call'[x].pk] =
                            [by |-> x, id |-> call'[x].id, prio |-> call'[x].prio]
        BY DEF CallLoads
      <3>1. CASE x = w
        BY <1>3, <2>2, <2>3, <3>1 DEF f
      <3>2. CASE x # w
        BY <1>3, <1>6, <2>3, <3>2 DEF Others, Loads, Working
      <3> QED BY <3>1, <3>2
    <2>6. Hands'
      BY <1>2, <1>3, <1>5, <1>9, <2>1, <2>4 DEF Hands, Apart
    <2> QED BY <1>7, <1>8, <2>5, <2>6, LoadsNext
  <1> QED BY <1>10, <1>11

\* A worker gives its package away: the calls of the others stay as they are.
LEMMA CallGiven ==
    ASSUME Base, Loads, from' = from, NEW w \in Worker, Others(w), Working(w), ~Working(w)'
    PROVE  /\ Called' = Called \ {call[w].pk} /\ call[w].pk \in Called /\ CallLoads'
  <1>1. Called' = Called \ {call[w].pk} /\ call[w].pk \in Called
    BY CalledLess DEF Others
  <1>2. CallLoads'
    <2> SUFFICES ASSUME NEW x \in Worker, Working(x)'
                 PROVE  from[call'[x].pk] =
                          [by |-> x, id |-> call'[x].id, prio |-> call'[x].prio]
      BY DEF CallLoads
    <2>1. x # w /\ call'[x] = call[x] /\ Working(x)
      BY DEF Others, Working
    <2> QED BY <2>1 DEF Loads
  <1> QED BY <1>1, <1>2

\* A direct write: the package is written, or its rest is in dw_buffer.
LEMMA HandsDirect ==
    ASSUME Base, Hands, Loads, NEW w \in Worker, NEW n \in 0 .. Size, DirectWrite(w, n)
    PROVE  Hands' /\ Loads'
  <1> USE DEF Base
  <1> DEFINE p == call[w].pk
  <1>1. /\ call[w].at = "flags" /\ p \in Package
        /\ slot.dw = <<>> /\ slot'.dw = SubSeq(Bytes(p), n + 1, Size)
        /\ slot'.high = slot.high /\ slot'.low = slot.low
        /\ done' = IF n = Size THEN done \union {p} ELSE done
        /\ Others(w) /\ call'[w].at \in {"idle", "wake"}
        /\ UNCHANGED <<pipe, th, from, freed>>
    BY DirectEffect
  <1>2. Working(w) /\ ~Working(w)'
    BY <1>1 DEF Working
  <1>3. Called' = Called \ {p} /\ p \in Called /\ CallLoads'
    BY <1>1, <1>2, CallGiven
  <1>4. Piped' = Piped /\ PipeLoads'
    BY <1>1, PipeStays
  <1>5. In(slot.dw) = {} /\ In(slot'.dw) = IF n < Size THEN {p} ELSE {}
    BY <1>1, EmptyBuffer, InBytes
  <1>6. CloseLoads'
    <2>1. p \notin Lying
      BY <1>1, <1>3 DEF Hands, Apart
    <2>2. p \notin In(slot'.high) /\ p \notin In(slot'.low)
      BY <1>1, <2>1 DEF Lying
    <2>3. \A q \in In(slot'.dw) : q = p
      BY <1>5
    <2> QED BY <1>1, <2>2, <2>3 DEF CloseLoads, Loads
  <1> HIDE DEF p
  <1>7. CASE n = Size
    <2>1. Lying' = Lying /\ done' = done \union {p}
      BY <1>1, <1>5, <1>7, SizeAssumption DEF Lying
    <2>2. Hands'
      BY <1>1, <1>3, <1>4, <2>1 DEF Hands, Apart
    <2> QED BY <1>3, <1>4, <1>6, <2>2, LoadsNext
  <1>8. CASE n # Size
    <2>1. n < Size
      BY <1>8, SizeAssumption
    <2>2. Lying' = Lying \union {p} /\ done' = done
      BY <1>1, <1>5, <1>8, <2>1 DEF Lying
    <2>3. Hands'
      BY <1>1, <1>3, <1>4, <2>2 DEF Hands, Apart
    <2> QED BY <1>3, <1>4, <1>6, <2>3, LoadsNext
  <1> QED BY <1>7, <1>8

\* The package goes into the pipe.
LEMMA HandsQueue ==
    ASSUME Base, Hands, Loads, NEW w \in Worker, Queue(w)
    PROVE  Hands' /\ Loads'
  <1> USE DEF Base
  <1> DEFINE p == call[w].pk
  <1>1. /\ call[w].at = "queue" /\ call' = [call EXCEPT ![w] = Idle]
        /\ UNCHANGED <<slot, th, from, freed, done>>
    BY DEF Queue, At, ghosts
  <1>2. PICK cmd \in {"D", "P"} : Request(cmd, call[w].id, p)
    BY DEF Queue
  <1>3. call'[w].at = "idle" /\ Others(w)
    BY <1>1, GoToIdle DEF Others
  <1>4. Working(w) /\ ~Working(w)'
    BY <1>1, <1>3 DEF Working
  <1>5. Called' = Called \ {p} /\ p \in Called /\ CallLoads'
    BY <1>1, <1>3, <1>4, CallGiven
  <1>6. p \in Package /\ p \notin Piped /\ from[p].id = call[w].id
    <2>1. p \in Package
      BY <1>1 DEF Calls
    <2>2. p \notin Piped
      BY <1>5, <2>1 DEF Hands, Apart
    <2>3. from[p] = [by |-> w, id |-> call[w].id, prio |-> call[w].prio]
      BY <1>4 DEF Loads
    <2> QED BY <2>1, <2>2, <2>3
  <1>7. Piped' = Piped \union {p}
    BY <1>2, <1>6, PipedPush
  <1>8. PipeLoads'
    BY <1>1, <1>2, <1>6, LoadsPush, LoadsParts
  <1>9. Lying' = Lying /\ CloseLoads'
    BY <1>1 DEF Lying, CloseLoads, Loads
  <1> HIDE DEF p
  <1>10. Hands'
    BY <1>1, <1>5, <1>7, <1>9 DEF Hands, Apart
  <1> QED BY <1>5, <1>8, <1>9, <1>10, LoadsNext


\* DataLies in the next state
LEMMA DataLiesNext ==
    ASSUME Types'
    PROVE  Data' \in Buffer /\ In(Data') = Lying'
  <1> DEFINE hi == slot'.high
             lo == slot'.low
             dw == slot'.dw
             c == dw \o hi
  <1>1. slot' \in SlotRec
    BY DEF Types
  <1>2. hi \in Buffer /\ lo \in Buffer /\ dw \in Buffer
    BY <1>1, SlotFields
  <1>3. c \in Buffer /\ In(c) = In(dw) \union In(hi)
    BY <1>2, ConcatBuffer, InParts
  <1> HIDE DEF c
  <1>4. c \o lo \in Buffer /\ In(c \o lo) = In(c) \union In(lo)
    BY <1>2, <1>3, ConcatBuffer, InParts
  <1>5. In(c \o lo) = In(hi) \union In(lo) \union In(dw)
    BY <1>3, <1>4
  <1> QED BY <1>4, <1>5 DEF Data, Lying, c

\* A request with a package is served: the package is freed, or it lies in
\* a list.
LEMMA HandsList ==
    ASSUME Base, Hands, Loads, Listing
    PROVE  Hands' /\ Loads'
  <1> USE DEF Base
  <1> DEFINE r == Head(pipe)
             p == r.pk
  <1>1. /\ Carries(r) /\ p \in Package
        /\ pipe # <<>> /\ pipe' = Tail(pipe)
        /\ UNCHANGED <<call, from, done>>
        /\ th.at = "ctrl" /\ th'.at = "dec" /\ slot'.dw = slot.dw
        /\ \/ freed' = freed \union {p} /\ SameLists(slot, slot')
           \/ /\ freed' = freed /\ slot'.low = slot.low
              /\ slot'.high = slot.high \o Bytes(p)
           \/ /\ freed' = freed /\ slot'.high = slot.high
              /\ slot'.low = slot.low \o Bytes(p)
    BY ListEffect
  <1>2. Piped' = Piped \ {p} /\ p \in Piped
    BY <1>1, PipedPop
  <1>3. PipeLoads'
    BY <1>1, LoadsPop DEF PipeLoads, Carries
  <1>4. Called' = Called /\ CallLoads'
    BY <1>1, CallsStay
  <1>6. slot.high \in Buffer /\ slot.low \in Buffer /\ Bytes(p) \in Buffer
        /\ In(Bytes(p)) = {p}
    <2>1. 0 \in 0 .. Size
      BY SizeAssumption
    <2> QED BY <1>1, <2>1, DataLies, BytesBuffer, InBytes
  <1>7. /\ In(slot.high \o Bytes(p)) = In(slot.high) \union {p}
        /\ In(slot.low \o Bytes(p)) = In(slot.low) \union {p}
    BY <1>6, InParts
  <1> HIDE DEF p
  <1>5. CloseLoads'
    <2>1. p \notin In(slot.dw)
      BY <1>1, <1>2 DEF Hands, Apart, Lying
    <2>2. /\ slot'.high = slot.high \/ In(slot'.high) = In(slot.high) \union {p}
          /\ slot'.low = slot.low \/ In(slot'.low) = In(slot.low) \union {p}
          /\ slot'.dw = slot.dw
      BY <1>1, <1>7 DEF SameLists
    <2> QED BY <1>1, <2>1, <2>2 DEF CloseLoads, Loads
  <1>8. \/ freed' = freed \union {p} /\ Lying' = Lying
        \/ freed' = freed /\ Lying' = Lying \union {p}
    BY <1>1, <1>7 DEF Lying, SameLists
  <1>9. Hands'
    BY <1>1, <1>2, <1>4, <1>8 DEF Hands, Apart
  <1> QED BY <1>3, <1>4, <1>5, <1>9, LoadsNext

\* force_close frees the lists ...
LEMMA HandsDrop ==
    ASSUME Base, Hands, Loads, Dropping
    PROVE  Hands' /\ Loads'
  <1> USE DEF Base
  <1>1. /\ CalmPipe /\ UNCHANGED <<call, from, done>> /\ th'.at = "close"
        /\ slot'.high = <<>> /\ slot'.low = <<>> /\ slot'.dw = slot.dw
        /\ freed' = freed \union In(slot.high) \union In(slot.low)
    BY DropEffect
  <1>2. Piped' = Piped /\ PipeLoads'
    BY <1>1, PipeCalm
  <1>3. Called' = Called /\ CallLoads'
    BY <1>1, CallsStay
  <1>4. CloseLoads'
    BY <1>1, EmptyBuffer DEF CloseLoads
  <1>5. Lying' = In(slot.dw)
    BY <1>1, EmptyBuffer DEF Lying
  <1>6. \A p : ~(p \in In(slot.dw) /\ (p \in In(slot.high) \/ p \in In(slot.low)))
    BY DEF Loads
  <1>7. Hands'
    BY <1>1, <1>2, <1>3, <1>5, <1>6 DEF Hands, Apart, Lying
  <1> QED BY <1>2, <1>3, <1>4, <1>7, LoadsNext

\* ... and, with the lock, what a direct write left.
LEMMA HandsEnd ==
    ASSUME Base, Hands, Loads, EndClose
    PROVE  Hands' /\ Loads'
  <1> USE DEF Base
  <1>1. /\ th.at = "close" /\ th'.at \notin {"close", "dec"}
        /\ UNCHANGED <<pipe, call, from, done>>
        /\ slot'.high = <<>> /\ slot'.low = <<>> /\ slot'.dw = <<>>
        /\ freed' = freed \union In(slot.dw)
    BY EndEffect
  <1>2. Piped' = Piped /\ PipeLoads'
    BY <1>1, PipeStays
  <1>3. Called' = Called /\ CallLoads'
    BY <1>1, CallsStay
  <1>4. CloseLoads'
    BY <1>1, EmptyBuffer DEF CloseLoads
  <1>5. Lying = In(slot.dw) /\ Lying' = {}
    BY <1>1, EmptyBuffer DEF Lying, Loads
  <1>6. Hands'
    BY <1>1, <1>2, <1>3, <1>5 DEF Hands, Apart
  <1> QED BY <1>2, <1>3, <1>4, <1>6, LoadsNext

\* Bytes are written: the packages whose last byte is among them are done.
LEMMA HandsWrite ==
    ASSUME Base, Types', Hands, Loads, Writing
    PROVE  Hands' /\ Loads'
  <1> USE DEF Base
  <1>1. /\ th.at = "event" /\ UNCHANGED <<pipe, th, call, from, freed>> /\ slot'.dw = <<>>
    BY WriteEffect
  <1>2. PICK n \in Nat :
          /\ n <= Len(Data)
          /\ done' = done \union (In(SubSeq(Data, 1, n)) \ In(SubSeq(Data, n + 1, Len(Data))))
          /\ Data' = SubSeq(Data, n + 1, Len(Data))
    BY WriteEffect
  <1>3. Piped' = Piped /\ PipeLoads'
    BY <1>1, PipeStays
  <1>4. Called' = Called /\ CallLoads'
    BY <1>1, CallsStay
  <1>5. CloseLoads'
    BY <1>1, EmptyBuffer DEF CloseLoads
  <1> DEFINE A == In(SubSeq(Data, 1, n))
             B == In(SubSeq(Data, n + 1, Len(Data)))
  <1>6. Data \in Buffer /\ In(Data) = Lying /\ In(Data') = Lying'
    BY DataLies, DataLiesNext
  <1>7. Lying = A \union B
    BY <1>2, <1>6, SplitBuffer
  <1>8. Lying' = B /\ done' = done \union (A \ B)
    BY <1>2, <1>6
  <1> HIDE DEF A, B
  <1>9. Hands'
    BY <1>1, <1>3, <1>4, <1>7, <1>8 DEF Hands, Apart
  <1> QED BY <1>3, <1>4, <1>5, <1>9, LoadsNext

\* The write fails.
LEMMA HandsFail ==
    ASSUME Base, Types', Hands, Loads, Failing
    PROVE  Hands' /\ Loads'
  <1> USE DEF Base
  <1>1. /\ th.at = "event" /\ UNCHANGED <<pipe, th, call, from, done>> /\ slot'.dw = <<>>
        /\ \/ /\ slot'.high = <<>> /\ slot'.low = <<>> /\ freed' = freed \union In(Data)
           \/ /\ slot'.high = slot.dw \o slot.high /\ slot'.low = slot.low
              /\ freed' = freed
    BY FailEffect
  <1>2. Piped' = Piped /\ PipeLoads'
    BY <1>1, PipeStays
  <1>3. Called' = Called /\ CallLoads'
    BY <1>1, CallsStay
  <1>4. CloseLoads'
    BY <1>1, EmptyBuffer DEF CloseLoads
  <1>5. In(Data) = Lying /\ In(slot.dw \o slot.high) = In(slot.dw) \union In(slot.high)
    BY DataLies, InParts
  <1>6. \/ freed' = freed \union Lying /\ Lying' = {}
        \/ freed' = freed /\ Lying' = Lying
    BY <1>1, <1>5, EmptyBuffer DEF Lying
  <1>7. Hands'
    BY <1>1, <1>2, <1>3, <1>6 DEF Hands, Apart
  <1> QED BY <1>2, <1>3, <1>4, <1>7, LoadsNext

\* No package was sent yet.
LEMMA HandsInit == Init => Hands /\ Loads
  <1> SUFFICES ASSUME Init PROVE Hands /\ Loads
    OBVIOUS
  <1>1. /\ slot.high = <<>> /\ slot.low = <<>> /\ slot.dw = <<>> /\ pipe = <<>>
        /\ th.at = "ctrl" /\ from = <<>> /\ freed = {} /\ done = {}
        /\ \A w \in Worker : call[w].at = "idle"
    BY CtrlEvents DEF Init, Idle
  <1>2. Lying = {} /\ Piped = {} /\ Called = {}
    BY <1>1, EmptyBuffer DEF Lying, Piped, Called, InPipe, InCall, At
  <1>3. Hands
    BY <1>1, <1>2 DEF Hands, Apart
  <1> QED BY <1>1, <1>3, EmptyBuffer DEF Loads, Working, Carries

\* Every step passes a package on to one hand.
LEMMA HandsNextStep ==
    ASSUME Base, Base', Hands, Loads, [Next]_vars
    PROVE  Hands' /\ Loads'
  <1>1. Types'
    BY DEF Base
  <1>2. CASE Calm
    BY <1>2, HandsCalm
  <1>3. CASE Moving
    BY <1>1, <1>3, HandsBegin, HandsDirect, HandsQueue, HandsList, HandsDrop, HandsEnd,
       HandsWrite, HandsFail DEF Moving
  <1> QED BY <1>2, <1>3, StepMoves

-----------------------------------------------------------------------------
(* The counter of the packages on their way                                *)

\* Packages about to enter the pipe, those on their way to a connection, and
\* whether the socket thread is serving one of them
Queued == {p \in Package : \E w \in Worker : At(w, "queue") /\ call[w].pk = p}
Way(id) == {p \in DOMAIN from : from[p].id = id /\ p \in Piped \union Queued}
Serving(id) == IF th.at = "dec" /\ th.id = id THEN 1 ELSE 0

\* s->sending counts what is on its way to the connection that has the slot.
Count ==
    /\ slot.sending >= 0
    /\ slot.protocol = "TCP" => slot.sending = Cardinality(Way(slot.id)) + Serving(slot.id)

\* The packages on their way are those of OnTheWay, and finitely many.
LEMMA WayFinite ==
    ASSUME Base, NEW id
    PROVE  IsFiniteSet(Way(id)) /\ Cardinality(Way(id)) \in Nat
  <1>1. DOMAIN from = 1 .. Len(from) /\ Len(from) \in Nat
    BY DEF Base, Types
  <1>2. IsFiniteSet(1 .. Len(from))
    BY <1>1, FS_Interval
  <1>3. Way(id) \in SUBSET (1 .. Len(from))
    BY <1>1 DEF Way
  <1>4. IsFiniteSet(Way(id))
    BY <1>2, <1>3, FS_Subset
  <1> QED BY <1>4, FS_CardinalityType

\* The packages on their way to a connection, counted: those in the pipe or
\* about to be put there, and the one the socket thread is serving
LEMMA WayCounts ==
    ASSUME Base, NEW id
    PROVE  OnTheWay(id) = Cardinality(Way(id)) + Serving(id)
  <1> DEFINE S == {p \in DOMAIN from : from[p].id = id /\
                     (InPipe(p) \/ \E w \in Worker : At(w, "queue") /\ call[w].pk = p)}
  <1>1. DOMAIN from \subseteq Package
    BY SizeAssumption DEF Base, Types, Package
  <1>2. S = Way(id)
    BY <1>1 DEF Way, Piped, Queued
  <1>3. Cardinality(S) = Cardinality(Way(id))
    BY <1>2, Zenon
  <1>4. OnTheWay(id) = Cardinality(S) + Serving(id)
    BY DEF OnTheWay, Serving
  <1> HIDE DEF S
  <1> QED BY <1>3, <1>4

\* A step that keeps the counter and the packages it counts
LEMMA CountKept ==
    ASSUME Base, Count, slot'.sending = slot.sending, slot'.id = slot.id,
           slot'.protocol = slot.protocol,
           th' = th \/ (th.at # "dec" /\ th'.at # "dec"),
           \A id : Way(id)' = Way(id)
    PROVE  Count'
  <1>0. PICK i : i = slot.id /\ i = slot'.id
    OBVIOUS
  <1>1. Serving(i)' = Serving(i)
    BY DEF Serving
  <1>2. Way(i)' = Way(i)
    OBVIOUS
  <1>3. Cardinality(Way(i)') = Cardinality(Way(i))
    BY <1>2, Zenon
  <1>4. Serving(slot.id)' = Serving(i)' /\ Way(slot.id)' = Way(i)'
    BY <1>0 DEF Serving, Way
  <1>5. Cardinality(Way(slot.id)') = Cardinality(Way(i)')
    BY <1>4, Zenon
  <1>6. slot.protocol = "TCP" => slot.sending = Cardinality(Way(i)) + Serving(i)
    BY <1>0 DEF Count
  <1> QED BY <1>1, <1>3, <1>4, <1>5, <1>6 DEF Count

\* The packages on their way, when from stays and the hands keep them
LEMMA WayKept ==
    ASSUME from' = from, (Piped \union Queued)' = Piped \union Queued
    PROVE  \A id : Way(id)' = Way(id)
  BY DEF Way

\* No call enters or leaves its last step.
LEMMA QueuedKept ==
    ASSUME \A w \in Worker : call'[w].at = "queue" <=> call[w].at = "queue",
           \A w \in Worker : call[w].at = "queue" => call'[w].pk = call[w].pk
    PROVE  Queued' = Queued
  BY DEF Queued, At

\* A worker about to write to the pipe keeps its package until it has.
LEMMA QueuedCalm ==
    ASSUME CalmCalls, NEW w \in Worker, call[w].at = "queue"
    PROVE  call'[w].at # "idle" => call'[w].pk = call[w].pk
  BY DEF CalmCalls, Others, SameLoad, Working

\* The counter stays exact when neither it nor what it counts changes.
LEMMA CountSame ==
    ASSUME Base, Hands, Loads, Count, Calm, SameCount
    PROVE  Count'
  <1>1. Piped' = Piped /\ from' = from
    BY PipeCalm DEF Base, Calm, CalmData
  <1>2. Queued' = Queued
    BY QueuedCalm, QueuedKept DEF Calm, SameCount
  <1>3. \A id : Way(id)' = Way(id)
    BY <1>1, <1>2, WayKept
  <1> QED BY <1>3, CountKept DEF SameCount

\* A new connection: no package was sent to it.
LEMMA CountNew ==
    ASSUME Base, Count, from' = from, NewCount
    PROVE  Count'
  <1>0. PICK i : i = slot'.id
    OBVIOUS
  <1>1. i \notin told
    BY <1>0 DEF NewCount
  <1>2. Way(i)' = {}
    BY <1>1 DEF Way, Base, Sents
  <1>3. Serving(i)' = 0
    BY <1>1 DEF Serving, Base, Sents, NewCount
  <1>4. Way(slot.id)' = {} /\ Serving(slot.id)' = 0
    BY <1>0, <1>2, <1>3 DEF Way, Serving
  <1>5. Cardinality(Way(slot.id)') = 0
    BY <1>4, FS_EmptySet, Zenon
  <1> QED BY <1>4, <1>5 DEF Count, NewCount

\* dec_sending_ref, for the request the thread has just served
LEMMA CountDec ==
    ASSUME Base, Hands, Loads, Count, Calm, DecSending
    PROVE  Count'
  <1> USE DEF Base
  <1>1. /\ th.at = "dec" /\ th' = Ctrl /\ call' = call /\ from' = from
        /\ slot' = IF slot.id = th.id /\ slot.protocol = "TCP"
                   THEN [slot EXCEPT !.sending = @ - 1] ELSE slot
    BY DEF DecSending, ghosts
  <1>2. slot \in SlotRec /\ slot.sending \in Int /\ slot.sending - 1 \in Int
    BY SlotFields DEF Types
  <1>3. th'.at = "ctrl"
    BY <1>1, CtrlEvents
  <1>4. Piped' = Piped /\ Queued' = Queued
    BY <1>1, PipeCalm DEF Calm, Queued, At
  <1>5. PICK i : i = slot.id
    OBVIOUS
  <1>6. Way(i)' = Way(i) /\ Serving(i)' = 0
    BY <1>1, <1>3, <1>4, WayKept DEF Serving
  <1>7. Cardinality(Way(i)') = Cardinality(Way(i))
    BY <1>6, Zenon
  <1>8. Cardinality(Way(i)) \in Nat
    BY WayFinite
  <1>9. CASE slot.id = th.id /\ slot.protocol = "TCP"
    <2>1. slot' = [slot EXCEPT !.sending = slot.sending - 1]
      BY <1>1, <1>9
    <2>2. slot'.sending = slot.sending - 1 /\ SameConn(slot, slot')
      BY <1>2, <2>1, SetField
    <2>3. slot'.id = i /\ Serving(i) = 1
      BY <1>1, <1>5, <1>9, <2>2 DEF SameConn, Serving
    <2>4. slot.sending = Cardinality(Way(i)) + 1
      BY <1>5, <1>9, <2>3 DEF Count
    <2>5. slot'.sending = Cardinality(Way(i)') /\ slot'.sending >= 0
      BY <1>7, <1>8, <2>2, <2>4
    <2>6. Way(slot.id)' = Way(i)' /\ Serving(slot.id)' = 0
      BY <1>6, <2>3 DEF Way, Serving
    <2>7. Cardinality(Way(slot.id)') = Cardinality(Way(i)')
      BY <2>6, Zenon
    <2>8. Cardinality(Way(i)') \in Nat
      BY <1>7, <1>8
    <2> QED BY <2>5, <2>6, <2>7, <2>8 DEF Count
  <1>10. CASE ~(slot.id = th.id /\ slot.protocol = "TCP")
    <2>1. slot' = slot
      BY <1>1, <1>10
    <2>2. slot.protocol = "TCP" => Serving(i) = 0
      BY <1>5, <1>10 DEF Serving
    <2>3. Way(slot.id)' = Way(i)' /\ Serving(slot.id)' = 0
      BY <1>5, <1>6, <2>1 DEF Way, Serving
    <2>4. Cardinality(Way(slot.id)') = Cardinality(Way(i)')
      BY <2>3, Zenon
    <2>5. slot.protocol = "TCP" => slot.sending = Cardinality(Way(i)) + Serving(i)
      BY <1>5 DEF Count
    <2> QED BY <1>7, <2>1, <2>2, <2>3, <2>4, <2>5 DEF Count
  <1> QED BY <1>9, <1>10

\* A worker counts its package: it is on its way from now on.
LEMMA QueuedMore ==
    ASSUME Base, Hands, Loads, from' = from, Piped' = Piped, NEW w \in Worker, Others(w),
           call[w].at = "inc", call'[w].at = "queue", SameLoad(w),
           NEW p, p = call[w].pk, NEW i, i = call[w].id
    PROVE  /\ p \notin Way(i)
           /\ Way(i)' = Way(i) \union {p}
           /\ \A id : id # i => Way(id)' = Way(id)
  <1>1. Working(w) /\ p \in Package
    BY DEF Working, Base, Calls
  <1>2. p \in Called /\ p \in DOMAIN from /\ p \notin Piped
    <2>1. p \in Called
      BY <1>1, HandsTypes
    <2> QED BY <1>1, <2>1 DEF Hands, Apart
  <1>3. from[p].id = i
    <2>1. from[call[w].pk] = [by |-> w, id |-> call[w].id, prio |-> call[w].prio]
      BY <1>1 DEF Loads
    <2> QED BY <2>1
  <1>4. ASSUME NEW x \in Worker, x # w, call[x].at = "queue"
        PROVE  call[x].pk # p
    <2>1. Working(x)
      BY <1>4 DEF Working
    <2> QED BY <1>1, <1>4, <2>1, OneCaller
  <1>5. p \notin Queued
    BY <1>4 DEF Queued, At
  <1>6. Queued' = Queued \union {p}
    BY <1>1 DEF Queued, At, Others, SameLoad
  <1>7. p \notin Way(i)
    BY <1>2, <1>5 DEF Way
  <1> QED BY <1>2, <1>3, <1>6, <1>7 DEF Way

\* inc_sending_ref counts the package that is about to enter the pipe.
LEMMA CountInc ==
    ASSUME Base, Hands, Loads, Count, Calm, NEW w \in Worker, IncSending(w)
    PROVE  Count'
  <1> USE DEF Base
  <1>1. /\ call[w].at = "inc" /\ GoTo(w, "queue") /\ th' = th /\ from' = from
        /\ IF Counts(call[w].id) THEN slot' = [slot EXCEPT !.sending = @ + 1]
                                 ELSE slot' = slot
    BY DEF IncSending, At, ghosts
  <1>2. slot \in SlotRec /\ slot.sending \in Int /\ slot.sending + 1 \in Int
    BY SlotFields DEF Types
  <1>3. "queue" \in Stage
    BY DEF Stage
  <1>4. call'[w].at = "queue" /\ SameLoad(w) /\ Others(w)
    BY <1>1, <1>3, GoToCall DEF SameLoad, Others
  <1>5. Piped' = Piped
    BY PipeCalm DEF Calm, CalmData
  <1>6. PICK p, i : p = call[w].pk /\ i = call[w].id
    OBVIOUS
  <1>7. p \notin Way(i) /\ Way(i)' = Way(i) \union {p} /\ \A id : id # i => Way(id)' = Way(id)
    BY <1>1, <1>4, <1>5, <1>6, QueuedMore
  <1>8. CASE Counts(i)
    <2>1. slot' = [slot EXCEPT !.sending = slot.sending + 1]
      BY <1>1, <1>6, <1>8
    <2>2. slot'.sending = slot.sending + 1 /\ SameConn(slot, slot')
      BY <1>2, <2>1, SetField
    <2>3. slot.id = i /\ slot'.id = i /\ slot.protocol = "TCP"
      BY <1>8, <2>2 DEF Counts, Conn, SameConn
    <2>4. slot.sending = Cardinality(Way(i)) + Serving(i)
      BY <2>3 DEF Count
    <2>5. IsFiniteSet(Way(i)) /\ Cardinality(Way(i)) \in Nat
      BY WayFinite
    <2>6. Cardinality(Way(i) \union {p}) = Cardinality(Way(i)) + 1
      BY <1>7, <2>5, FS_AddElement
    <2>7. Way(slot.id)' = Way(i) \union {p} /\ Serving(slot.id)' = Serving(i)
      BY <1>1, <1>7, <2>3 DEF Way, Serving
    <2>8. Cardinality(Way(slot.id)') = Cardinality(Way(i) \union {p})
      BY <2>7, Zenon
    <2>9. Serving(i) \in Nat
      BY DEF Serving
    <2> QED BY <2>2, <2>4, <2>5, <2>6, <2>7, <2>8, <2>9 DEF Count
  <1>9. CASE ~Counts(i)
    <2>1. slot' = slot
      BY <1>1, <1>6, <1>9
    <2>2. slot.protocol = "TCP" => slot.id # i
      BY <1>9 DEF Counts, Conn
    <2>3. PICK k : k = slot.id
      OBVIOUS
    <2>4. Way(slot.id)' = Way(k)' /\ Serving(slot.id)' = Serving(k)
      BY <1>1, <2>1, <2>3 DEF Way, Serving
    <2>5. slot.protocol = "TCP" => Way(slot.id)' = Way(k)
      BY <1>7, <2>2, <2>3, <2>4
    <2>6. slot.protocol = "TCP" => Cardinality(Way(slot.id)') = Cardinality(Way(k))
      BY <2>5, Zenon
    <2>7. slot.protocol = "TCP" => slot.sending = Cardinality(Way(k)) + Serving(k)
      BY <2>3 DEF Count
    <2> QED BY <2>1, <2>4, <2>6, <2>7 DEF Count
  <1> QED BY <1>8, <1>9

\* The package goes from the call into the pipe and stays on its way.
LEMMA CountQueue ==
    ASSUME Base, Hands, Loads, Count, NEW w \in Worker, Queue(w)
    PROVE  Count'
  <1> USE DEF Base
  <1>1. /\ call[w].at = "queue" /\ call' = [call EXCEPT ![w] = Idle]
        /\ UNCHANGED <<slot, th, from>>
    BY DEF Queue, At, ghosts
  <1>2. PICK p : p = call[w].pk
    OBVIOUS
  <1>3. PICK cmd \in {"D", "P"} : Request(cmd, call[w].id, p)
    BY <1>2 DEF Queue
  <1>4. p \in Package
    BY <1>1, <1>2 DEF Calls
  <1>5. Piped' = Piped \union {p}
    BY <1>3, <1>4, PipedPush
  <1>6. call'[w].at = "idle" /\ Others(w)
    BY <1>1, GoToIdle DEF Others
  <1>7. Queued = Queued' \union {p}
    BY <1>1, <1>2, <1>4, <1>6 DEF Queued, At, Others
  <1>8. \A id : Way(id)' = Way(id)
    BY <1>1, <1>5, <1>7, WayKept
  <1> QED BY <1>1, <1>8, CountKept

\* The thread takes a package from the pipe: until dec_sending_ref it counts.
LEMMA CountList ==
    ASSUME Base, Hands, Loads, Count, Listing
    PROVE  Count'
  <1> USE DEF Base
  <1>1. PICK r : r = Head(pipe)
    OBVIOUS
  <1>2. /\ Carries(r) /\ r.pk \in Package /\ pipe # <<>> /\ pipe' = Tail(pipe)
        /\ UNCHANGED <<call, from>>
        /\ th.at = "ctrl" /\ th'.at = "dec" /\ th'.id = r.id
        /\ SameConn(slot, slot') /\ slot'.sending = slot.sending
    BY <1>1, ListEffect
  <1>3. Piped' = Piped \ {r.pk} /\ r.pk \in Piped /\ from[r.pk].id = r.id
    BY <1>1, <1>2, PipedPop
  <1>4. Queued' = Queued
    BY <1>2 DEF Queued, At
  <1>5. r.pk \notin Queued /\ r.pk \in DOMAIN from
    <2>1. Queued \subseteq Called
      BY DEF Queued, Called, InCall, At
    <2> QED BY <1>2, <1>3, <2>1 DEF Hands, Apart
  <1>6. /\ Way(r.id)' = Way(r.id) \ {r.pk} /\ r.pk \in Way(r.id)
        /\ \A id : id # r.id => Way(id)' = Way(id)
    BY <1>2, <1>3, <1>4, <1>5 DEF Way
  <1>7. PICK i : i = slot.id
    OBVIOUS
  <1>8. slot'.id = i /\ slot'.protocol = slot.protocol /\ Serving(i) = 0
    BY <1>2, <1>7 DEF SameConn, Serving
  <1>9. Way(slot.id)' = Way(i)' /\ Serving(slot.id)' = Serving(i)'
    BY <1>8 DEF Way, Serving
  <1>10. Serving(i)' = IF i = r.id THEN 1 ELSE 0
    BY <1>2 DEF Serving
  <1>11. IsFiniteSet(Way(i)) /\ Cardinality(Way(i)) \in Nat
    BY WayFinite
  <1>12. Cardinality(Way(i)') = IF i = r.id THEN Cardinality(Way(i)) - 1 ELSE Cardinality(Way(i))
    <2>1. CASE i = r.id
      <3>1. Way(i)' = Way(i) \ {r.pk} /\ r.pk \in Way(i)
        BY <1>6, <2>1
      <3>2. Cardinality(Way(i) \ {r.pk}) = Cardinality(Way(i)) - 1
        BY <1>11, <3>1, FS_RemoveElement
      <3>3. Cardinality(Way(i)') = Cardinality(Way(i) \ {r.pk})
        BY <3>1, Zenon
      <3> QED BY <2>1, <3>2, <3>3
    <2>2. CASE i # r.id
      <3>1. Way(i)' = Way(i)
        BY <1>6, <2>2
      <3>2. Cardinality(Way(i)') = Cardinality(Way(i))
        BY <3>1, Zenon
      <3> QED BY <2>2, <3>2
    <2> QED BY <2>1, <2>2
  <1>13. Cardinality(Way(slot.id)') = Cardinality(Way(i)')
    BY <1>9, Zenon
  <1>14. slot.protocol = "TCP" => slot.sending = Cardinality(Way(i))
    BY <1>7, <1>8, <1>11 DEF Count
  <1> QED BY <1>2, <1>8, <1>9, <1>10, <1>11, <1>12, <1>13, <1>14 DEF Count

\* A new package is not on its way yet.
LEMMA CountBegin ==
    ASSUME Base, Hands, Loads, Count, NEW w \in Worker, NEW id \in Id,
           NEW prio \in {"high", "low"}, SendBegin(w, id, prio)
    PROVE  Count'
  <1> USE DEF Base
  <1> DEFINE p == Len(from) + 1
             f == [by |-> w, id |-> id, prio |-> prio]
             first == IF prio = "high" THEN "try" ELSE "inc"
             c == [at |-> first, pk |-> p, id |-> id, prio |-> prio]
  <1>1. /\ call[w] = Idle /\ from' = Append(from, f)
        /\ call' = call \/ call' = [call EXCEPT ![w] = c]
        /\ UNCHANGED <<slot, pipe, th>>
    BY DEF SendBegin
  <1>2. /\ DOMAIN from = 1 .. Len(from) /\ Len(from) \in Nat /\ from \in Seq(FromRec)
        /\ p \notin DOMAIN from /\ c.at # "queue" /\ call[w].at # "queue"
        /\ call \in [Worker -> CallRec]
    BY <1>1, HandsTypes DEF Types, Idle
  <1>3. DOMAIN from' = DOMAIN from \union {p} /\ \A q \in DOMAIN from : from'[q] = from[q]
    BY <1>1, <1>2
  <1>4. Piped' = Piped /\ Piped \subseteq DOMAIN from /\ Called \subseteq DOMAIN from
    BY <1>1, HandsTypes DEF Piped, InPipe
  <1>5. Queued \subseteq DOMAIN from
    BY <1>4 DEF Queued, Called, InCall, At
  <1> HIDE DEF p, f, c
  <1>6. Queued' = Queued
    <2>1. \A x \in Worker : x # w => call'[x] = call[x]
      BY <1>1, <1>2
    <2>2. call'[w].at # "queue"
      BY <1>1, <1>2
    <2> QED BY <1>2, <2>1, <2>2, QueuedKept
  <1>7. \A i : Way(i)' = Way(i)
    BY <1>2, <1>3, <1>4, <1>5, <1>6 DEF Way
  <1> QED BY <1>1, <1>7, CountKept

\* A direct write is not counted.
LEMMA CountDirect ==
    ASSUME Base, Hands, Loads, Count, NEW w \in Worker, NEW n \in 0 .. Size, DirectWrite(w, n)
    PROVE  Count'
  <1> USE DEF Base
  <1>1. /\ call[w].at = "flags" /\ slot'.sending = slot.sending /\ SameConn(slot, slot')
        /\ Others(w) /\ call'[w].at \in {"idle", "wake"}
        /\ UNCHANGED <<pipe, th, from>>
    BY DirectEffect
  <1>2. Queued' = Queued
    BY <1>1, QueuedKept DEF Others
  <1>3. Piped' = Piped
    BY <1>1, PipeStays
  <1>4. \A id : Way(id)' = Way(id)
    BY <1>1, <1>2, <1>3, WayKept
  <1> QED BY <1>1, <1>4, CountKept DEF SameConn

\* The steps of the thread that end a connection or write to it
LEMMA CountThread ==
    ASSUME Base, Hands, Loads, Count, Dropping \/ EndClose \/ Writing \/ Failing
    PROVE  Count'
  <1> USE DEF Base
  <1>1. /\ slot'.sending = slot.sending /\ slot'.id = slot.id
        /\ slot'.protocol = slot.protocol /\ UNCHANGED <<call, from>> /\ CalmPipe
        /\ th' = th \/ (th.at # "dec" /\ th'.at # "dec")
    <2>1. CASE Dropping
      BY <2>1, DropEffect DEF SameConn
    <2>2. CASE EndClose
      BY <2>2, EndEffect DEF CalmPipe
    <2>3. CASE Writing
      BY <2>3, WriteEffect DEF CalmPipe
    <2>4. CASE Failing
      BY <2>4, FailEffect DEF CalmPipe
    <2> QED BY <2>1, <2>2, <2>3, <2>4
  <1>2. Queued' = Queued
    BY <1>1 DEF Queued, At
  <1>3. Piped' = Piped
    BY <1>1, PipeCalm
  <1>4. \A id : Way(id)' = Way(id)
    BY <1>1, <1>2, <1>3, WayKept
  <1> QED BY <1>1, <1>4, CountKept

\* No connection, nothing to count
LEMMA CountInit == Init => Count
  BY DEF Init, Count

\* Every step keeps the counter exact.
LEMMA CountNext ==
    ASSUME Base, Hands, Loads, Count, [Next]_vars
    PROVE  Count'
  <1>1. CASE Calm
    <2>1. CASE SameCount
      BY <1>1, <2>1, CountSame
    <2>2. CASE NewCount
      BY <1>1, <2>2, CountNew DEF Calm, CalmData
    <2>3. CASE DecSending
      BY <1>1, <2>3, CountDec
    <2>4. CASE \E w \in Worker : IncSending(w)
      BY <1>1, <2>4, CountInc
    <2> QED BY <1>1, <2>1, <2>2, <2>3, <2>4 DEF Calm, CalmCount
  <1>2. CASE Moving
    BY <1>2, CountBegin, CountDirect, CountQueue, CountList, CountThread DEF Moving
  <1> QED BY <1>1, <1>2, StepMoves

-----------------------------------------------------------------------------
(* The invariant and what follows from it                                  *)

\* The invariant
SendInv == Base /\ Hands /\ Loads /\ Count

\* Each package sent to a connection is in one hand, requests and calls know
\* what they carry, and s->sending counts the packages on their way exactly
\* (socket_server.c, inc_sending_ref, dec_sending_ref, socket_server_send).
THEOREM SpecSendInv == Spec => []SendInv
  <1>1. Init => SendInv
    BY BaseInit, HandsInit, CountInit DEF SendInv
  <1>2. SendInv /\ [Next]_vars => SendInv'
    <2> SUFFICES ASSUME SendInv, [Next]_vars PROVE SendInv'
      OBVIOUS
    <2>1. Base'
      BY BaseNext DEF SendInv
    <2>2. Hands' /\ Loads'
      BY <2>1, HandsNextStep DEF SendInv
    <2>3. Count'
      BY CountNext DEF SendInv
    <2> QED BY <2>1, <2>2, <2>3 DEF SendInv
  <1> QED BY <1>1, <1>2, PTL DEF Spec

\* One of five
LEMMA OneOfFive ==
    ASSUME NEW a \in BOOLEAN, NEW b \in BOOLEAN, NEW c \in BOOLEAN, NEW d \in BOOLEAN,
           NEW e \in BOOLEAN, a \/ b \/ c \/ d \/ e,
           a => ~b /\ ~c /\ ~d /\ ~e, b => ~c /\ ~d /\ ~e, c => ~d /\ ~e, d => ~e
    PROVE  Cardinality({x \in {<<"pipe", a>>, <<"call", b>>, <<"buffered", c>>,
                               <<"written", d>>, <<"freed", e>>} : x[2]}) = 1
  <1> DEFINE S == {x \in {<<"pipe", a>>, <<"call", b>>, <<"buffered", c>>,
                          <<"written", d>>, <<"freed", e>>} : x[2]}
  <1>1. PICK A, B, C, D, E : /\ A = <<"pipe", a>> /\ B = <<"call", b>>
                             /\ C = <<"buffered", c>> /\ D = <<"written", d>>
                             /\ E = <<"freed", e>>
    OBVIOUS
  <1>2. (A[2] <=> a) /\ (B[2] <=> b) /\ (C[2] <=> c) /\ (D[2] <=> d) /\ (E[2] <=> e)
    BY <1>1
  <1>3. S = {x \in {A, B, C, D, E} : x[2]}
    BY <1>1, Zenon
  <1>4. \E y : S = {y}
    <2> HIDE DEF S
    <2>1. CASE a
      BY <1>2, <1>3, <2>1
    <2>2. CASE b
      BY <1>2, <1>3, <2>2
    <2>3. CASE c
      BY <1>2, <1>3, <2>3
    <2>4. CASE d
      BY <1>2, <1>3, <2>4
    <2>5. CASE e
      BY <1>2, <1>3, <2>5
    <2> QED BY <2>1, <2>2, <2>3, <2>4, <2>5
  <1> HIDE DEF S
  <1>5. Cardinality(S) = 1
    <2>1. PICK y : S = {y}
      BY <1>4
    <2>2. Cardinality({y}) = 1
      BY FS_Singleton
    <2>3. Cardinality(S) = Cardinality({y})
      BY <2>1, Zenon
    <2> QED BY <2>2, <2>3
  <1> QED BY <1>5 DEF S

\* The type invariant: the counter stays within its bound.
LEMMA TypesSuffice ==
    ASSUME Base, Count
    PROVE  TypeOK
  <1> USE DEF Base
  <1>1. slot \in SlotRec /\ slot.sending \in 0 .. MaxSending
    BY SlotFields, SendingAssumption DEF Types, Count
  <1>2. slot \in [id : 0 .. MaxId, type : Type, protocol : {"UNKNOWN", "TCP"},
                  tag : 0 .. MaxId, sending : 0 .. MaxSending, closing : BOOLEAN,
                  reading : BOOLEAN, writing : BOOLEAN, high : Buffer,
                  low : Buffer, dw : Buffer, lock : Worker \union {None}]
    BY <1>1 DEF SlotRec
  <1>3. ASSUME NEW i \in DOMAIN pipe
        PROVE  pipe[i].id \in 1 .. slot.id
    <2>1. CASE pipe[i].cmd = "O"
      <3>1. pipe[i].id = slot.id /\ slot.id \in Id
        BY <1>3, <2>1 DEF Pipes, Conn
      <3> QED BY <3>1, BoundAssumption DEF Id
    <2>2. CASE pipe[i].cmd # "O"
      BY <1>3, <2>2 DEF Pipes, Conn
    <2> QED BY <2>1, <2>2
  <1>4. /\ ev \in [read : BOOLEAN, write : BOOLEAN, error : BOOLEAN, eof : BOOLEAN]
        /\ peer \in [fin : BOOLEAN, rst : {"ok", "reset", "dead"}, got : Buffer]
        /\ told \subseteq Id /\ freed \union done \subseteq Package
    BY DEF Types, EvRec, PeerRec
  <1> QED BY <1>2, <1>3, <1>4, Zenon DEF TypeOK

\* Every field stays in its type: in particular s->sending never leaves the
\* range of its 16 bits (socket_server.c, inc_sending_ref, dec_sending_ref).
THEOREM SocketTypesHold == Spec => []TypeOK
  <1>1. SendInv => TypeOK
    BY TypesSuffice DEF SendInv
  <1> QED BY <1>1, SpecSendInv, PTL

\* The buffer of every package is in one hand at any time, through direct
\* writes, requests, lists and closes: it is never forgotten and never freed
\* twice (socket_server.c, send_socket, force_close, send_buffer).
THEOREM OneHandHolds == Spec => []OneHand
  <1>1. SendInv => OneHand
    <2> SUFFICES ASSUME SendInv PROVE OneHand
      OBVIOUS
    <2> USE DEF SendInv
    <2>1. TypeOK
      BY TypesSuffice
    <2>2. ASSUME NEW p \in DOMAIN from
          PROVE  Cardinality({x \in {<<"pipe", InPipe(p)>>, <<"call", InCall(p)>>,
                                <<"buffered", Buffered(p)>>, <<"written", p \in done>>,
                                <<"freed", p \in freed>>} : x[2]}) = 1
      <3>1. p \in Package
        BY HandsTypes
      <3>2. Buffered(p) <=> p \in Lying
        <4>1. slot.high \in Buffer /\ slot.low \in Buffer /\ slot.dw \in Buffer
          BY DataLies DEF Base
        <4> DEFINE c == slot.high \o slot.low
        <4>2. c \in Buffer /\ In(c) = In(slot.high) \union In(slot.low)
          BY <4>1, ConcatBuffer, InParts
        <4> HIDE DEF c
        <4>3. In(c \o slot.dw) = In(c) \union In(slot.dw)
          BY <4>1, <4>2, InParts
        <4> QED BY <4>2, <4>3 DEF Buffered, Lying, c
      <3> DEFINE a == InPipe(p)
                 b == InCall(p)
                 c == Buffered(p)
                 d == p \in done
                 e == p \in freed
      <3>3. (a <=> p \in Piped) /\ (b <=> p \in Called)
        BY <3>1 DEF Piped, Called
      <3>4. a \in BOOLEAN /\ b \in BOOLEAN /\ c \in BOOLEAN /\ d \in BOOLEAN /\ e \in BOOLEAN
        BY DEF InPipe, InCall, Buffered
      <3>5. /\ a \/ b \/ c \/ d \/ e
            /\ a => ~b /\ ~c /\ ~d /\ ~e
            /\ b => ~c /\ ~d /\ ~e
            /\ c => ~d /\ ~e
            /\ d => ~e
        BY <2>2, <3>1, <3>2, <3>3 DEF Hands, Apart
      <3> HIDE DEF a, b, c, d, e
      <3>6. Cardinality({x \in {<<"pipe", a>>, <<"call", b>>, <<"buffered", c>>,
                                <<"written", d>>, <<"freed", e>>} : x[2]}) = 1
        BY <3>4, <3>5, OneOfFive
      <3> QED BY <3>6 DEF a, b, c, d, e
    <2> QED BY <2>1, <2>2 DEF OneHand
  <1> QED BY <1>1, SpecSendInv, PTL

\* The assertions of the socket server never fail: the counter behind
\* inc_sending_ref and dec_sending_ref is exact for the connection that has
\* the slot, a slot without connection has no buffers (check_wb_list), and
\* no package waits half written in the low list (send_buffer_).
THEOREM SocketAssertsHold == Spec => []AssertsHold
  <1>1. SendInv => AssertsHold
    <2> SUFFICES ASSUME SendInv PROVE AssertsHold
      OBVIOUS
    <2> USE DEF SendInv
    <2>1. slot.protocol = "TCP" => slot.sending = OnTheWay(slot.id)
      <3>1. PICK i : i = slot.id
        OBVIOUS
      <3>2. OnTheWay(i) = Cardinality(Way(i)) + Serving(i)
        BY WayCounts
      <3> QED BY <3>1, <3>2 DEF Count
    <2>2. ~HasFd => send_buffer_empty /\ slot.dw = <<>>
      BY DEF Base, Buffers, send_buffer_empty
    <2>3. ~list_uncomplete(slot.low)
      BY DEF Base, Buffers, Fresh, list_uncomplete
    <2> QED BY <2>1, <2>2, <2>3 DEF AssertsHold
  <1> QED BY <1>1, SpecSendInv, PTL

-----------------------------------------------------------------------------
(* What is on the wire                                                     *)

\* No package is interrupted, unless its rest was freed (Unmixed).
Whole(got, free) ==
    \A k \in DOMAIN got :
        LET b == got[k]
            before == got[k - 1]
        IN  \/ b[2] = 1 /\ (k > 1 => before[2] = Size \/ before[1] \in free)
            \/ b[2] > 1 /\ k > 1 /\ before = <<b[1], b[2] - 1>>

\* The last byte written is not the last one of its package, whose rest is
\* still to be written.
Final(got) == got[Len(got)]
\* A package is begun on the wire, not ended, and its rest not freed.
Open(got, free) == got # <<>> /\ Final(got)[2] < Size /\ Final(got)[1] \notin free

\* Unmixed, as a fact about the bytes on the wire
LEMMA UnmixedWhole == Unmixed <=> Whole(peer.got, freed)
  BY DEF Unmixed, Whole

\* The neighbours in a buffer that is cut at packages
LEMMA CutNeighbours ==
    ASSUME NEW b \in Buffer, Cut(b), NEW k \in 1 .. Len(b), k + 1 <= Len(b)
    PROVE  /\ b[k][2] < Size => b[k + 1] = <<b[k][1], b[k][2] + 1>>
           /\ b[k][2] = Size => b[k + 1][2] = 1
           /\ b[k + 1][2] = 1 => b[k][2] = Size
           /\ b[k + 1][2] > 1 => b[k] = <<b[k + 1][1], b[k + 1][2] - 1>>
  <1>1. /\ Len(b) \in Nat /\ DOMAIN b = 1 .. Len(b) /\ k + 1 \in 1 .. Len(b)
        /\ b[k][2] \in 1 .. Size /\ b[k + 1][2] \in 1 .. Size
        /\ k \in Nat /\ Size \in Nat
    BY BufferBytes, SizeAssumption
  <1>2. PICK m \in 1 .. Size, n \in 1 .. Size : m = b[k][2] /\ n = b[k + 1][2]
    BY <1>1
  <1>3. m < Size => b[k + 1] = <<b[k][1], m + 1>>
    <2> SUFFICES ASSUME m < Size PROVE b[k + 1] = <<b[k][1], m + 1>>
      OBVIOUS
    <2>1. m + 1 \in 1 .. Size /\ k - m + (m + 1) = k + 1 /\ k + 1 >= 1
      BY <1>1
    <2>2. k - b[k][2] + (m + 1) = k + 1
      BY <1>2, <2>1
    <2> QED BY <1>1, <1>2, <2>1, <2>2 DEF Cut
  <1>4. n > 1 => b[k] = <<b[k + 1][1], n - 1>>
    <2> SUFFICES ASSUME n > 1 PROVE b[k] = <<b[k + 1][1], n - 1>>
      OBVIOUS
    <2>1. n - 1 \in 1 .. Size /\ (k + 1) - n + (n - 1) = k /\ k >= 1
      BY <1>1
    <2>2. (k + 1) - b[k + 1][2] + (n - 1) = k
      BY <1>2, <2>1
    <2> QED BY <1>1, <1>2, <2>1, <2>2 DEF Cut
  <1>5. m < Size => n = m + 1
    BY <1>2, <1>3
  <1>6. n > 1 => m = n - 1
    BY <1>2, <1>4
  <1>7. (m = Size => n = 1) /\ (n = 1 => m = Size)
    BY <1>1, <1>5, <1>6
  <1> QED BY <1>2, <1>3, <1>4, <1>7

\* A beginning of a buffer keeps its bytes.
LEMMA BeginBuffer ==
    ASSUME NEW b \in Buffer, NEW n \in Nat, n <= Len(b)
    PROVE  /\ SubSeq(b, 1, n) \in Buffer /\ Len(SubSeq(b, 1, n)) = n
           /\ \A i \in 1 .. n : SubSeq(b, 1, n)[i] = b[i]
  BY BufferBytes DEF Buffer

\* Writing the beginning of a buffer that goes on with the open package, or
\* starts with a package when none is open, interrupts none.
LEMMA WholeAppend ==
    ASSUME NEW g \in Buffer, NEW free, Whole(g, free), NEW b \in Buffer, Cut(b),
           NEW n \in Nat, n <= Len(b), n > 0,
           Open(g, free) => b[1] = <<Final(g)[1], Final(g)[2] + 1>>,
           ~Open(g, free) => b[1][2] = 1
    PROVE  /\ Whole(g \o SubSeq(b, 1, n), free)
           /\ g \o SubSeq(b, 1, n) # <<>> /\ Final(g \o SubSeq(b, 1, n)) = b[n]
  <1> DEFINE x == SubSeq(b, 1, n)
             c == g \o x
             l == Len(g)
  <1>1. /\ x \in Buffer /\ Len(x) = n /\ \A i \in 1 .. n : x[i] = b[i]
    BY BeginBuffer
  <1> HIDE DEF x
  <1>2. /\ c \in Buffer /\ Len(c) = l + n /\ DOMAIN c = 1 .. (l + n)
        /\ \A i \in 1 .. l : c[i] = g[i]
        /\ \A i \in 1 .. n : c[l + i] = x[i]
    BY <1>1, ConcatBuffer
  <1>3. /\ l \in Nat /\ DOMAIN g = 1 .. l /\ Len(b) \in Nat
        /\ \A i \in 1 .. l : g[i][2] \in 1 .. Size
        /\ \A i \in 1 .. Len(b) : b[i][2] \in 1 .. Size
        /\ g # <<>> <=> l > 0
    BY BufferBytes
  <1> HIDE DEF c
  <1>4. \A i \in 1 .. n : c[l + i] = b[i]
    BY <1>1, <1>2
  <1>5. ASSUME NEW k \in 1 .. l
        PROVE  \/ c[k][2] = 1 /\ (k > 1 => c[k - 1][2] = Size \/ c[k - 1][1] \in free)
               \/ c[k][2] > 1 /\ k > 1 /\ c[k - 1] = <<c[k][1], c[k][2] - 1>>
    <2>1. c[k] = g[k] /\ k \in DOMAIN g
      BY <1>2, <1>3
    <2>2. k > 1 => c[k - 1] = g[k - 1]
      BY <1>2, <1>3
    <2> QED BY <2>1, <2>2 DEF Whole
  <1>6. ASSUME NEW i \in 1 .. n, i > 1
        PROVE  \/ c[l + i][2] = 1 /\ c[(l + i) - 1][2] = Size
               \/ c[l + i][2] > 1 /\ c[(l + i) - 1] = <<c[l + i][1], c[l + i][2] - 1>>
    <2>1. PICK j \in 1 .. n : i = j + 1 /\ (l + i) - 1 = l + j /\ j + 1 <= Len(b)
                              /\ j \in 1 .. Len(b) /\ i \in 1 .. Len(b)
      <3>1. i - 1 \in 1 .. n /\ i = (i - 1) + 1 /\ (l + i) - 1 = l + (i - 1)
            /\ (i - 1) + 1 <= Len(b) /\ i - 1 \in 1 .. Len(b) /\ i \in 1 .. Len(b)
        BY <1>3, <1>6
      <3> QED BY <3>1
    <2>2. c[l + i] = b[j + 1] /\ c[(l + i) - 1] = b[j] /\ b[j + 1][2] \in 1 .. Size
      BY <1>3, <1>4, <2>1
    <2>3. b[j + 1][2] = 1 \/ b[j + 1][2] > 1
      BY <2>2, SizeAssumption
    <2>4. /\ b[j + 1][2] = 1 => b[j][2] = Size
          /\ b[j + 1][2] > 1 => b[j] = <<b[j + 1][1], b[j + 1][2] - 1>>
      BY <2>1, CutNeighbours
    <2> QED BY <2>2, <2>3, <2>4
  <1>7. \/ c[l + 1][2] = 1 /\ (l + 1 > 1 => c[l][2] = Size \/ c[l][1] \in free)
        \/ c[l + 1][2] > 1 /\ l + 1 > 1 /\ c[l] = <<c[l + 1][1], c[l + 1][2] - 1>>
    <2>1. c[l + 1] = b[1]
      BY <1>4
    <2>2. l > 0 => c[l] = Final(g) /\ Final(g)[2] \in 1 .. Size
                   /\ Final(g) = <<Final(g)[1], Final(g)[2]>>
      BY <1>2, <1>3, BufferBytes DEF Final
    <2>3. CASE Open(g, free)
      <3>1. l > 0
        BY <1>3, <2>3 DEF Open
      <3>2. PICK m \in 1 .. Size : /\ c[l] = <<Final(g)[1], m>>
                                       /\ b[1] = <<Final(g)[1], m + 1>>
        BY <2>2, <2>3, <3>1
      <3> QED BY <1>3, <2>1, <3>1, <3>2, SizeAssumption
    <2>4. CASE ~Open(g, free)
      <3>1. l > 0 => c[l][2] = Size \/ c[l][1] \in free
        <4> SUFFICES ASSUME l > 0 PROVE c[l][2] = Size \/ c[l][1] \in free
          OBVIOUS
        <4>1. ~(Final(g)[2] < Size) \/ Final(g)[1] \in free
          BY <1>3, <2>4 DEF Open
        <4>2. PICK m \in 1 .. Size : m = Final(g)[2]
          BY <2>2
        <4>3. m < Size \/ m = Size
          BY SizeAssumption
        <4> QED BY <2>2, <4>1, <4>2, <4>3
      <3> QED BY <1>3, <2>1, <2>4, <3>1
    <2> QED BY <2>3, <2>4
  <1>8. ASSUME NEW k \in DOMAIN c
        PROVE  \/ c[k][2] = 1 /\ (k > 1 => c[k - 1][2] = Size \/ c[k - 1][1] \in free)
               \/ c[k][2] > 1 /\ k > 1 /\ c[k - 1] = <<c[k][1], c[k][2] - 1>>
    <2>1. CASE k <= l
      <3>1. k \in 1 .. l
        BY <1>2, <1>3, <2>1
      <3> QED BY <1>5, <3>1
    <2>2. CASE k = l + 1
      <3>1. k - 1 = l
        BY <1>3, <2>2
      <3> QED BY <1>7, <2>2, <3>1
    <2>3. CASE k > l + 1
      <3>1. PICK i \in 1 .. n : i > 1 /\ k = l + i
        <4>1. k - l \in 1 .. n /\ k - l > 1 /\ k = l + (k - l)
          BY <1>2, <1>3, <2>3
        <4> QED BY <4>1
      <3>2. k > 1
        BY <1>3, <3>1
      <3> QED BY <1>6, <3>1, <3>2
    <2> QED BY <1>2, <1>3, <2>1, <2>2, <2>3
  <1>9. Whole(c, free)
    BY <1>8 DEF Whole
  <1>10. c # <<>> /\ Final(c) = b[n]
    <2>1. Len(c) > 0 /\ n \in 1 .. n
      BY <1>2, <1>3
    <2>2. c # <<>>
      BY <1>2, <2>1, BufferBytes
    <2>3. c[l + n] = b[n]
      BY <1>4, <2>1
    <2> QED BY <1>2, <2>2, <2>3 DEF Final
  <1> QED BY <1>9, <1>10 DEF c, x

\* The open package goes on with the first byte that waits; when none is
\* open, a package comes next, be it from the lists or from the worker that
\* has the lock and is about to write.
Flow ==
    /\ Whole(peer.got, freed)
    /\ Open(peer.got, freed) =>
          Data # <<>> /\ Data[1] = <<Final(peer.got)[1], Final(peer.got)[2] + 1>>
    /\ ~Open(peer.got, freed) /\ th.at # "close" => Fresh(Data)
    /\ \A w \in Worker : call[w].at = "flags" => ~Open(peer.got, freed)

\* Freeing more packages breaks no promise about the bytes on the wire.
LEMMA WholeMore ==
    ASSUME NEW g, NEW f, NEW e, f \subseteq e
    PROVE  /\ Whole(g, f) => Whole(g, e)
           /\ Open(g, e) => Open(g, f)
  BY DEF Whole, Open

\* The first byte of two lists is that of the first one that is not empty.
LEMMA FirstByte ==
    ASSUME NEW a \in Buffer, NEW b \in Buffer
    PROVE  /\ a # <<>> => a \o b # <<>> /\ (a \o b)[1] = a[1]
           /\ a = <<>> => a \o b = b
           /\ a \o b = <<>> => a = <<>> /\ b = <<>>
  <1>1. /\ Len(a) \in Nat /\ Len(b) \in Nat /\ Len(a \o b) = Len(a) + Len(b)
        /\ a # <<>> <=> Len(a) > 0
        /\ b # <<>> <=> Len(b) > 0
        /\ \A i \in 1 .. Len(a) : (a \o b)[i] = a[i]
    BY BufferBytes, ConcatBuffer
  <1>2. a \o b # <<>> <=> Len(a \o b) > 0
    BY ConcatBuffer, BufferBytes
  <1>3. a = <<>> => a \o b = b
    BY EmptyConcat
  <1>4. a # <<>> => a \o b # <<>> /\ (a \o b)[1] = a[1]
    <2> DEFINE c == a \o b
    <2> HIDE DEF c
    <2> SUFFICES ASSUME a # <<>> PROVE c # <<>> /\ c[1] = a[1]
      BY DEF c
    <2>1. Len(a) > 0 /\ Len(c) > 0
      BY <1>1 DEF c
    <2>2. 1 \in 1 .. Len(a)
      BY <1>1, <2>1
    <2> QED BY <1>1, <1>2, <2>1, <2>2 DEF c
  <1>5. a \o b = <<>> => a = <<>> /\ b = <<>>
    <2> SUFFICES ASSUME a \o b = <<>> PROVE a = <<>> /\ b = <<>>
      OBVIOUS
    <2>1. Len(a) + Len(b) = 0
      BY <1>1
    <2> QED BY <1>1, <2>1
  <1> QED BY <1>3, <1>4, <1>5

\* What waits is cut at packages.
LEMMA DataCut ==
    ASSUME Base
    PROVE  Cut(Data) /\ Data \in Buffer
  <1> USE DEF Base
  <1>1. Cut(slot.dw \o slot.high) /\ slot.dw \o slot.high \in Buffer
    BY WithDwFields
  <1>2. slot.low \in Buffer /\ Cut(slot.low) /\ Fresh(slot.low) /\ Data \in Buffer
    BY DataLies DEF Buffers
  <1> QED BY <1>1, <1>2, CutConcat DEF Data

\* The rest of the open package waits.
LEMMA OpenLies ==
    ASSUME Base, Flow, Open(peer.got, freed)
    PROVE  /\ Data # <<>> /\ Data[1][1] = Final(peer.got)[1] /\ Data[1][2] > 1
           /\ Data[1][1] \in Lying /\ Final(peer.got)[1] \in Lying
  <1>1. Data # <<>> /\ Data[1] = <<Final(peer.got)[1], Final(peer.got)[2] + 1>>
    BY DEF Flow
  <1>2. Data \in Buffer /\ In(Data) = Lying
    BY DataLies DEF Base
  <1>3. 1 \in DOMAIN Data
    BY <1>1, <1>2, BufferBytes
  <1>4. Data[1][1] \in Lying
    BY <1>2, <1>3 DEF In
  <1>5. peer.got \in Buffer /\ peer.got # <<>>
    BY DEF Base, Types, PeerRec, Open
  <1>6. Final(peer.got)[2] \in 1 .. Size
    <2> DEFINE g == peer.got
    <2>1. Len(g) \in Nat /\ Len(g) > 0
      BY <1>5, BufferBytes
    <2>2. Len(g) \in 1 .. Len(g)
      BY <2>1
    <2> QED BY <1>5, <2>2, BufferBytes DEF Final
  <1>7. PICK m \in 1 .. Size : m = Final(peer.got)[2]
    BY <1>6
  <1>8. Data[1][2] = m + 1 /\ m + 1 > 1
    BY <1>1, <1>7, SizeAssumption
  <1> QED BY <1>1, <1>4, <1>8

\* A step that writes nothing and leaves what waits as it is
LEMMA FlowKept ==
    ASSUME Flow, peer'.got = peer.got, Data' = Data, freed \subseteq freed',
           Open(peer.got, freed) => Open(peer.got, freed'),
           th'.at # "close" => th.at # "close",
           \A w \in Worker : call'[w].at = "flags" =>
              call[w].at = "flags" \/ ~Open(peer.got, freed)
    PROVE  Flow'
  <1>1. Whole(peer.got, freed') /\ (Open(peer.got, freed') <=> Open(peer.got, freed))
    BY WholeMore DEF Flow
  <1> QED BY <1>1 DEF Flow

\* A step that moves no package keeps the wire and what follows on it.
LEMMA FlowCalm ==
    ASSUME Base, Flow, Calm
    PROVE  Flow'
  <1> USE DEF Base
  <1>1. /\ freed' = freed /\ SameLists(slot, slot')
        /\ peer'.got = peer.got \/ (~HasFd /\ peer'.got = <<>>)
        /\ th'.at = "close" <=> th.at = "close"
    BY DEF Calm, CalmData
  <1>2. Data' = Data
    BY <1>1 DEF Data, SameLists
  <1>3. CASE peer'.got = peer.got
    <2>1. ASSUME NEW w \in Worker, call'[w].at = "flags"
          PROVE  call[w].at = "flags" \/ ~Open(peer.got, freed)
      <3>1. CASE call'[w] = call[w]
        BY <2>1, <3>1
      <3>2. CASE call'[w] # call[w]
        <4>1. call[w].at = "lists" /\ ListsOK(w)
          BY <2>1, <3>2 DEF Calm, CalmCalls, Others
        <4>2. slot.high = <<>> /\ slot.low = <<>> /\ slot.dw = <<>>
          BY <4>1 DEF ListsOK, send_buffer_empty, Locking
        <4>3. Data = <<>>
          BY <4>2, EmptyBuffer, EmptyConcat DEF Data
        <4> QED BY <4>3 DEF Flow
      <3> QED BY <3>1, <3>2
    <2> QED BY <1>1, <1>2, <1>3, <2>1, FlowKept
  <1>4. CASE ~HasFd /\ peer'.got = <<>>
    <2>1. Data = <<>>
      BY <1>4, EmptyBuffer, EmptyConcat DEF Data, Buffers
    <2>2. Fresh(Data')
      BY <1>2, <2>1 DEF Fresh
    <2>3. ~Open(peer'.got, freed') /\ Whole(peer'.got, freed')
      BY <1>4 DEF Open, Whole
    <2> QED BY <2>2, <2>3 DEF Flow
  <1> QED BY <1>1, <1>3, <1>4

\* A new package
LEMMA FlowBegin ==
    ASSUME Base, Hands, Flow, NEW w \in Worker, NEW id \in Id,
           NEW prio \in {"high", "low"}, SendBegin(w, id, prio)
    PROVE  Flow'
  <1> USE DEF Base
  <1> DEFINE p == Len(from) + 1
             first == IF prio = "high" THEN "try" ELSE "inc"
             c == [at |-> first, pk |-> p, id |-> id, prio |-> prio]
  <1>1. /\ freed' = freed \/ freed' = freed \union {p}
        /\ call' = call \/ call' = [call EXCEPT ![w] = c]
        /\ UNCHANGED <<slot, th, peer>>
    BY DEF SendBegin
  <1>2. p \notin DOMAIN from /\ call \in [Worker -> CallRec] /\ c.at # "flags"
        /\ Lying \subseteq DOMAIN from
    BY HandsTypes DEF Types
  <1> HIDE DEF p, c
  <1>3. Data' = Data
    BY <1>1 DEF Data
  <1>4. Open(peer.got, freed) => Open(peer.got, freed')
    BY <1>1, <1>2, OpenLies DEF Open
  <1>5. \A x \in Worker : call'[x].at = "flags" => call[x].at = "flags"
    BY <1>1, <1>2
  <1> QED BY <1>1, <1>3, <1>4, <1>5, FlowKept

\* The package goes into the pipe.
LEMMA FlowQueue ==
    ASSUME Base, Flow, NEW w \in Worker, Queue(w)
    PROVE  Flow'
  <1> USE DEF Base
  <1>1. /\ call' = [call EXCEPT ![w] = Idle] /\ UNCHANGED <<slot, th, peer, freed>>
    BY DEF Queue, ghosts
  <1>2. call'[w].at = "idle" /\ Others(w)
    BY <1>1, GoToIdle DEF Others
  <1>3. Data' = Data
    BY <1>1 DEF Data
  <1> QED BY <1>1, <1>2, <1>3, FlowKept DEF Others

\* The direct write: no package is open, and its rest is the first to wait.
LEMMA FlowDirect ==
    ASSUME Base, Hands, Flow, NEW w \in Worker, NEW n \in 0 .. Size, DirectWrite(w, n)
    PROVE  Flow'
  <1> USE DEF Base
  <1>0. PICK p : p = call[w].pk
    OBVIOUS
  <1> DEFINE d == SubSeq(Bytes(p), n + 1, Size)
             g == peer.got
             h == g \o SubSeq(Bytes(p), 1, n)
             o == slot.high \o slot.low
  <1>1. /\ call[w].at = "flags" /\ p \in Package
        /\ slot.dw = <<>> /\ slot'.dw = d
        /\ slot'.high = slot.high /\ slot'.low = slot.low
        /\ peer'.got = h
        /\ Others(w) /\ call'[w].at \in {"idle", "wake"}
        /\ UNCHANGED <<pipe, th, from, freed>>
    BY <1>0, DirectEffect
  <1>2. ~Open(g, freed) /\ Whole(g, freed) /\ g \in Buffer
    BY <1>1 DEF Flow, Types, PeerRec
  <1>3. /\ Bytes(p) \in Buffer /\ Cut(Bytes(p)) /\ Len(Bytes(p)) = Size
        /\ \A i \in 1 .. Size : Bytes(p)[i] = <<p, i>>
    BY <1>1, BytesBuffer
  <1>4. /\ d \in Buffer /\ Len(d) = Size - n
        /\ \A i \in 1 .. (Size - n) : d[i] = <<p, n + i>>
    BY <1>1, InBytes
  <1>5. n \in Nat /\ n <= Size /\ Size \in Nat \ {0} /\ n <= Len(Bytes(p))
    BY <1>3, SizeAssumption
  <1>6. ASSUME NEW x \in Worker PROVE call'[x].at # "flags"
    <2>1. CASE x = w
      BY <1>1, <2>1
    <2>2. CASE x # w
      BY <1>1, <2>2 DEF Others, Locking, HasLock
    <2> QED BY <2>1, <2>2
  <1>7. /\ slot.high \in Buffer /\ slot.low \in Buffer
        /\ slot.high \o slot.low \in Buffer
    BY DataLies, ConcatBuffer
  <1> HIDE DEF d
  <1>8. Data = o /\ Data' = d \o o
    <2>1. <<>> \o slot.high = slot.high
      BY <1>7, EmptyConcat
    <2>2. (d \o slot.high) \o slot.low = d \o (slot.high \o slot.low)
      BY <1>4, <1>7, ConcatAssoc
    <2> QED BY <1>1, <2>1, <2>2 DEF Data
  <1> HIDE DEF o, h
  <1>9. o \in Buffer
    BY <1>7 DEF o
  <1>10. CASE n > 0
    <2>1. Bytes(p)[1][2] = 1 /\ Bytes(p)[n] = <<p, n>>
      <3>1. 1 \in 1 .. Size /\ n \in 1 .. Size
        BY <1>5, <1>10
      <3> QED BY <1>3, <3>1
    <2>2. Whole(h, freed) /\ h # <<>> /\ Final(h) = <<p, n>>
      BY <1>2, <1>3, <1>5, <1>10, <2>1, WholeAppend DEF h
    <2>3. CASE n = Size
      <3>1. ~Open(h, freed)
        BY <2>2, <2>3, SizeAssumption DEF Open
      <3>2. d = <<>>
        BY <1>4, <1>5, <2>3, BufferBytes
      <3>3. Data' = Data
        BY <1>8, <1>9, <3>2, EmptyConcat
      <3> QED BY <1>1, <1>2, <1>6, <2>2, <3>1, <3>3 DEF Flow
    <2>4. CASE n # Size
      <3>1. n < Size
        BY <1>5, <2>4
      <3>2. d # <<>> /\ d[1] = <<p, n + 1>>
        <4>1. 1 \in 1 .. (Size - n) /\ Len(d) > 0
          BY <1>4, <1>5, <3>1
        <4> QED BY <1>4, <4>1, BufferBytes
      <3>3. Data' # <<>> /\ Data'[1] = <<p, n + 1>>
        BY <1>4, <1>8, <1>9, <3>2, FirstByte
      <3>4. Open(h, freed)
        <4>1. p \notin freed
          <5>1. p \in Called
            BY <1>0, <1>1, HandsTypes DEF Working
          <5> QED BY <1>1, <5>1 DEF Hands, Apart
        <4> QED BY <2>2, <3>1, <4>1 DEF Open
      <3> QED BY <1>1, <1>6, <2>2, <3>3, <3>4 DEF Flow
    <2> QED BY <2>3, <2>4
  <1>11. CASE n = 0
    <2>1. SubSeq(Bytes(p), 1, n) = <<>>
      BY <1>1, <1>11, InBytes, BufferBytes
    <2>2. h = g
      BY <1>2, <2>1, EmptyConcat DEF h
    <2>3. d # <<>> /\ d[1] = <<p, n + 1>>
      <3>1. 1 \in 1 .. (Size - n) /\ Len(d) > 0
        BY <1>4, <1>5, <1>11
      <3> QED BY <1>4, <3>1, BufferBytes
    <2>4. Data' # <<>> /\ Data'[1] = <<p, 1>>
      <3>1. n + 1 = 1
        BY <1>11
      <3> QED BY <1>4, <1>8, <1>9, <2>3, <3>1, FirstByte
    <2>5. Fresh(Data')
      BY <2>4 DEF Fresh
    <2> QED BY <1>1, <1>2, <1>6, <2>2, <2>5 DEF Flow
  <1> QED BY <1>5, <1>10, <1>11

\* A package is put behind what waits, or freed: the first byte of an open
\* package stays the first.
LEMMA FlowList ==
    ASSUME Base, Hands, Loads, Flow, Listing
    PROVE  Flow'
  <1> USE DEF Base
  <1>0. PICK p : p = Head(pipe).pk
    OBVIOUS
  <1> DEFINE g == peer.got
             a == slot.dw \o slot.high
             b == Bytes(p)
             l == slot.low
  <1>1. /\ Carries(Head(pipe)) /\ p \in Package /\ pipe # <<>> /\ pipe' = Tail(pipe)
        /\ UNCHANGED <<call, peer>> /\ th.at = "ctrl" /\ th'.at = "dec"
        /\ slot'.dw = slot.dw
        /\ \/ freed' = freed \union {p} /\ SameLists(slot, slot')
           \/ /\ freed' = freed /\ slot'.low = slot.low /\ slot'.high = slot.high \o b
           \/ /\ freed' = freed /\ slot'.high = slot.high /\ slot'.low = slot.low \o b
    BY <1>0, ListEffect
  <1>2. /\ a \in Buffer /\ l \in Buffer /\ b \in Buffer /\ slot.dw \in Buffer
        /\ slot.high \in Buffer /\ b # <<>> /\ b[1][2] = 1
    <2>1. b \in Buffer /\ Len(b) = Size /\ b[1] = <<p, 1>>
      BY <1>1, BytesBuffer, SizeAssumption
    <2>2. b # <<>>
      BY <2>1, BufferBytes, SizeAssumption
    <2> QED BY <2>1, <2>2, DataLies
  <1>3. Data = a \o l
    BY DEF Data
  <1>4. p \in Piped /\ p \notin Lying
    <2>1. p \in Piped
      BY <1>0, <1>1, PipedPop
    <2> QED BY <1>1, <2>1 DEF Hands, Apart
  <1>5. CASE freed' = freed \union {p} /\ SameLists(slot, slot')
    <2>1. Data' = Data
      BY <1>5 DEF Data, SameLists
    <2>2. Open(g, freed) => Open(g, freed')
      BY <1>4, <1>5, OpenLies DEF Open
    <2> QED BY <1>1, <1>5, <2>1, <2>2, FlowKept
  <1>6. CASE /\ freed' = freed
             /\ \/ slot'.low = slot.low /\ slot'.high = slot.high \o b
                \/ slot'.high = slot.high /\ slot'.low = slot.low \o b
    <2>1. /\ Open(g, freed) => Data' # <<>> /\ Data'[1] = Data[1]
          /\ Fresh(Data) => Fresh(Data')
      <3>1. Open(g, freed) => a # <<>>
        <4> SUFFICES ASSUME Open(g, freed), a = <<>> PROVE FALSE
          OBVIOUS
        <4>1. Data = l
          BY <1>2, <1>3, FirstByte
        <4>2. Data # <<>> /\ Data[1][2] > 1
          BY OpenLies
        <4> QED BY <4>1, <4>2 DEF Buffers, Fresh
      <3>2. /\ a # <<>> => Data # <<>> /\ Data[1] = a[1]
        BY <1>2, <1>3, FirstByte
      <3>3. CASE slot'.low = slot.low /\ slot'.high = slot.high \o b
        <4>1. slot.dw \o (slot.high \o b) = a \o b
          BY <1>2, ConcatAssoc
        <4> DEFINE c == a \o b
        <4>2. c \in Buffer /\ c # <<>>
          BY <1>2, ConcatBuffer, FirstByte
        <4>3. /\ a # <<>> => c[1] = a[1]
              /\ a = <<>> => c = b
          BY <1>2, FirstByte
        <4>4. Data' = c \o l
          BY <1>1, <3>3, <4>1 DEF Data
        <4> HIDE DEF a, b, l, c
        <4>5. Data' # <<>> /\ Data'[1] = c[1]
          BY <1>2, <4>2, <4>4, FirstByte
        <4> QED BY <1>2, <3>1, <3>2, <4>3, <4>5 DEF Fresh
      <3>4. CASE slot'.high = slot.high /\ slot'.low = slot.low \o b
        <4> DEFINE c == a \o l
        <4>6. Data' = a \o (l \o b)
          BY <1>1, <3>4 DEF Data
        <4>1. Data' = c \o b
          <5> HIDE DEF a, b, l
          <5>1. a \o (l \o b) = (a \o l) \o b
            BY <1>2, ConcatAssoc, Zenon
          <5> QED BY <4>6, <5>1
        <4>2. c \in Buffer /\ Data = c
          BY <1>2, <1>3, ConcatBuffer
        <4> HIDE DEF a, b, l, c
        <4>3. /\ c # <<>> => Data' # <<>> /\ Data'[1] = c[1]
              /\ c = <<>> => Data' = b
          BY <1>2, <4>1, <4>2, FirstByte
        <4> QED BY <1>2, <3>1, <3>2, <4>2, <4>3 DEF Fresh
      <3> QED BY <1>1, <1>6, <3>3, <3>4
    <2> QED BY <1>1, <1>6, <2>1 DEF Flow
  <1> QED BY <1>1, <1>5, <1>6

\* force_close frees the lists: an open package goes on in dw_buffer, or its
\* rest is freed.
LEMMA FlowDrop ==
    ASSUME Base, Flow, Dropping
    PROVE  Flow'
  <1> USE DEF Base
  <1> DEFINE g == peer.got
             o == slot.high \o slot.low
  <1>1. /\ UNCHANGED <<peer, call>> /\ th'.at = "close"
        /\ slot'.high = <<>> /\ slot'.low = <<>> /\ slot'.dw = slot.dw
        /\ freed' = freed \union In(slot.high) \union In(slot.low)
    BY DropEffect
  <1>2. /\ slot.dw \in Buffer /\ slot.high \in Buffer /\ slot.low \in Buffer
        /\ o \in Buffer /\ In(o) = In(slot.high) \union In(slot.low)
    BY DataLies, ConcatBuffer, InParts
  <1>3. Data = slot.dw \o o
    BY <1>2, ConcatAssoc DEF Data
  <1>4. Data' = slot.dw
    <2>1. slot.dw \o <<>> = slot.dw
      BY <1>2, EmptyConcat
    <2> QED BY <1>1, <2>1 DEF Data
  <1> HIDE DEF o
  <1>5. Whole(g, freed') /\ (Open(g, freed') => Open(g, freed))
    BY <1>1, WholeMore DEF Flow
  <1>6. ASSUME Open(g, freed')
        PROVE  Data' # <<>> /\ Data'[1] = Data[1]
    <2>1. Data # <<>> /\ Data[1][1] = Final(g)[1] /\ Final(g)[1] \notin freed'
      BY <1>5, <1>6, OpenLies DEF Open
    <2>2. slot.dw # <<>>
      <3> SUFFICES ASSUME slot.dw = <<>> PROVE FALSE
        OBVIOUS
      <3>1. Data = o
        BY <1>2, <1>3, FirstByte
      <3>2. 1 \in DOMAIN o
        BY <1>2, <2>1, <3>1, BufferBytes
      <3>3. Data[1][1] \in In(o)
        BY <3>1, <3>2 DEF In
      <3> QED BY <1>1, <1>2, <2>1, <3>3
    <2>3. Data[1] = slot.dw[1]
      BY <1>2, <1>3, <2>2, FirstByte
    <2> QED BY <1>4, <2>2, <2>3
  <1> QED BY <1>1, <1>5, <1>6 DEF Flow

\* ... and then what a direct write left.
LEMMA FlowEnd ==
    ASSUME Base, Loads, Flow, EndClose
    PROVE  Flow'
  <1> USE DEF Base
  <1> DEFINE g == peer.got
  <1>1. /\ th.at = "close" /\ UNCHANGED <<peer, call>>
        /\ slot'.high = <<>> /\ slot'.low = <<>> /\ slot'.dw = <<>>
        /\ freed' = freed \union In(slot.dw)
    BY EndEffect
  <1>2. Lying = In(slot.dw)
    BY <1>1, EmptyBuffer DEF Lying, Loads
  <1>3. Whole(g, freed') /\ (Open(g, freed') => Open(g, freed))
    BY <1>1, WholeMore DEF Flow
  <1>4. ~Open(g, freed')
    BY <1>1, <1>2, <1>3, OpenLies DEF Open
  <1>5. Data' = <<>>
    BY <1>1, EmptyBuffer, EmptyConcat DEF Data
  <1>6. Fresh(Data')
    BY <1>5 DEF Fresh
  <1> QED BY <1>1, <1>3, <1>4, <1>6 DEF Flow

\* send_buffer writes what waits, in its order.
LEMMA FlowWrite ==
    ASSUME Base, Hands, Flow, Writing
    PROVE  Flow'
  <1> USE DEF Base
  <1> DEFINE g == peer.got
  <1>1. /\ th.at = "event" /\ slot.lock = None /\ UNCHANGED <<th, call, freed>>
    BY WriteEffect
  <1>2. PICK n \in Nat :
          /\ n <= Len(Data) /\ peer'.got = g \o SubSeq(Data, 1, n)
          /\ Data' = SubSeq(Data, n + 1, Len(Data))
    BY WriteEffect
  <1>3. Data \in Buffer /\ Cut(Data) /\ g \in Buffer /\ In(Data) = Lying
    BY DataCut, DataLies DEF Types, PeerRec
  <1>4. \A w \in Worker : call'[w].at # "flags"
    BY <1>1, LockAssumption DEF Locking, HasLock
  <1>5. CASE n = 0
    <2>1. SubSeq(Data, 1, n) = <<>> /\ Data' = Data
      BY <1>2, <1>3, <1>5 DEF Buffer
    <2>2. peer'.got = g
      BY <1>2, <1>3, <2>1, EmptyConcat
    <2> QED BY <1>1, <1>4, <2>1, <2>2, FlowKept
  <1>6. CASE n > 0
    <2> DEFINE h == g \o SubSeq(Data, 1, n)
    <2>1. Data # <<>>
      BY <1>2, <1>3, <1>6, BufferBytes
    <2>2. /\ Open(g, freed) => Data[1] = <<Final(g)[1], Final(g)[2] + 1>>
          /\ ~Open(g, freed) => Data[1][2] = 1
      BY <1>1, <2>1 DEF Flow, Fresh
    <2>3. Whole(g, freed)
      BY DEF Flow
    <2>4. Whole(h, freed) /\ h # <<>> /\ Final(h) = Data[n]
      BY <1>2, <1>3, <1>6, <2>2, <2>3, WholeAppend
    <2> HIDE DEF h
    <2>5. Len(Data) \in Nat /\ n \in 1 .. Len(Data) /\ n \in DOMAIN Data
          /\ Data[n][2] \in 1 .. Size /\ DOMAIN Data = 1 .. Len(Data)
      BY <1>2, <1>3, <1>6, BufferBytes
    <2>6. Data[n][1] \notin freed
      <3>1. Data[n][1] \in Lying /\ Data[n][1] \in Package
        BY <1>3, <2>5, BufferBytes DEF In
      <3> QED BY <3>1 DEF Hands, Apart
    <2>7. Open(h, freed) <=> Data[n][2] < Size
      BY <2>4, <2>6 DEF Open
    <2>8. /\ Data' \in Buffer /\ Len(Data') = Len(Data) - n
          /\ n < Len(Data) => Data' # <<>> /\ Data'[1] = Data[n + 1]
      <3>1. /\ Data' \in Buffer /\ Len(Data') = Len(Data) - n
            /\ \A i \in 1 .. (Len(Data) - n) : Data'[i] = Data[n + i]
        <4>1. n <= Len(Data) /\ Len(Data) <= Len(Data)
          BY <2>5
        <4> QED BY <1>2, <1>3, <2>5, <4>1, SliceBuffer
      <3>2. n < Len(Data) => Len(Data') > 0 /\ 1 \in 1 .. (Len(Data) - n)
        BY <2>5, <3>1
      <3> QED BY <3>1, <3>2, BufferBytes
    <2>9. Data[n][2] < Size => n < Len(Data)
      <3> SUFFICES ASSUME Data[n][2] < Size PROVE n < Len(Data)
        OBVIOUS
      <3>1. PICK m \in 1 .. Size : m = Data[n][2]
        BY <2>5
      <3>2. m + 1 \in 1 .. Size /\ n - m + (m + 1) = n + 1 /\ n + 1 >= 1
        BY <2>5, <3>1, SizeAssumption
      <3>3. n + 1 <= Len(Data)
        BY <1>3, <2>5, <3>1, <3>2 DEF Cut
      <3> QED BY <2>5, <3>3
    <2>10. /\ n < Len(Data) /\ Data[n][2] < Size =>
                Data[n + 1] = <<Data[n][1], Data[n][2] + 1>>
           /\ n < Len(Data) /\ Data[n][2] = Size => Data[n + 1][2] = 1
      <3>1. n < Len(Data) => n + 1 <= Len(Data)
        BY <2>5
      <3> QED BY <1>3, <2>5, <3>1, CutNeighbours
    <2>11. Open(h, freed) => Data' # <<>> /\ Data'[1] = <<Final(h)[1], Final(h)[2] + 1>>
      BY <2>4, <2>7, <2>8, <2>9, <2>10
    <2>12. ~Open(h, freed) => Fresh(Data')
      <3> SUFFICES ASSUME ~Open(h, freed), Data' # <<>> PROVE Data'[1][2] = 1
        BY DEF Fresh
      <3>1. Data[n][2] = Size
        <4>1. PICK m \in 1 .. Size : m = Data[n][2]
          BY <2>5
        <4>2. ~(m < Size)
          BY <2>7, <4>1
        <4>3. m = Size
          BY <4>2, SizeAssumption
        <4> QED BY <4>1, <4>3
      <3>2. n < Len(Data)
        <4>1. Len(Data') > 0
          BY <2>8, BufferBytes
        <4> QED BY <2>5, <2>8, <4>1
      <3> QED BY <2>8, <2>10, <3>1, <3>2
    <2>13. peer'.got = h /\ freed' = freed
      BY <1>1, <1>2 DEF h
    <2> QED BY <1>1, <1>4, <2>4, <2>11, <2>12, <2>13 DEF Flow
  <1> QED BY <1>2, <1>5, <1>6

\* send_buffer fails: everything is freed, or waits as it did.
LEMMA FlowFail ==
    ASSUME Base, Flow, Failing
    PROVE  Flow'
  <1> USE DEF Base
  <1> DEFINE g == peer.got
  <1>1. /\ th.at = "event" /\ slot.lock = None /\ UNCHANGED <<th, call>> /\ peer'.got = g
        /\ slot'.dw = <<>>
        /\ \/ /\ slot'.high = <<>> /\ slot'.low = <<>> /\ freed' = freed \union In(Data)
           \/ /\ slot'.high = slot.dw \o slot.high /\ slot'.low = slot.low
              /\ freed' = freed
    BY FailEffect
  <1>2. CASE /\ slot'.high = <<>> /\ slot'.low = <<>> /\ freed' = freed \union In(Data)
    <2>1. Whole(g, freed') /\ (Open(g, freed') => Open(g, freed))
      BY <1>2, WholeMore DEF Flow
    <2>2. ~Open(g, freed')
      BY <1>2, <2>1, OpenLies, DataLies DEF Open
    <2>3. Data' = <<>>
      BY <1>1, <1>2, EmptyBuffer, EmptyConcat DEF Data
    <2>4. Fresh(Data')
      BY <2>3 DEF Fresh
    <2> QED BY <1>1, <2>1, <2>2, <2>4 DEF Flow
  <1>3. CASE slot'.high = slot.dw \o slot.high /\ slot'.low = slot.low /\ freed' = freed
    <2>1. <<>> \o (slot.dw \o slot.high) = slot.dw \o slot.high
      BY DataLies, EmptyConcat
    <2>2. Data' = Data
      BY <1>1, <1>3, <2>1 DEF Data
    <2> QED BY <1>1, <1>3, <2>2, FlowKept
  <1> QED BY <1>1, <1>2, <1>3

\* Nothing is on the wire at first.
LEMMA FlowInit == Init => Flow
  <1> SUFFICES ASSUME Init PROVE Flow
    OBVIOUS
  <1>1. peer.got = <<>> /\ slot.high = <<>> /\ slot.low = <<>> /\ slot.dw = <<>>
    BY DEF Init, NewPeer
  <1>2. Data = <<>>
    BY <1>1, EmptyBuffer, EmptyConcat DEF Data
  <1> QED BY <1>1, <1>2 DEF Flow, Open, Whole, Fresh

\* Every step goes on with the package that is open on the wire.
LEMMA FlowNext ==
    ASSUME Base, Hands, Loads, Flow, [Next]_vars
    PROVE  Flow'
  <1>1. CASE Calm
    BY <1>1, FlowCalm
  <1>2. CASE Moving
    BY <1>2, FlowBegin, FlowDirect, FlowQueue, FlowList, FlowDrop, FlowEnd, FlowWrite,
       FlowFail DEF Moving
  <1> QED BY <1>1, <1>2, StepMoves

\* On the wire no package is mixed with another: one that was begun goes on
\* with its own next byte, whoever writes it, unless its rest was freed, and
\* a package starts with its first byte (socket_server.c, send_buffer,
\* raise_uncomplete, socket_server_send).
THEOREM UnmixedHolds == Spec => []Unmixed
  <1>1. Init => Flow
    BY FlowInit
  <1>2. SendInv /\ Flow /\ [Next]_vars => Flow'
    BY FlowNext DEF SendInv
  <1>3. Flow => Unmixed
    BY UnmixedWhole DEF Flow
  <1> QED BY <1>1, <1>2, <1>3, SpecSendInv, PTL DEF Spec

-----------------------------------------------------------------------------
(* The order of the packages of one service                                *)

\* q was sent after p, by the same worker to the same connection, and p has
\* high priority.
Before(p, q) == /\ p < q /\ from[p].by = from[q].by /\ from[p].id = from[q].id
                /\ from[p].prio = "high"
\* In a buffer all of one package is ahead of all of another.
Ahead(b, p, q) == \A i, j \in DOMAIN b : b[i][1] = p /\ b[j][1] = q => i < j

\* The package a worker is about to send is its last one.
Latest ==
    \A w \in Worker : Working(w) =>
       \A q \in DOMAIN from : from[q].by = w => q <= call[w].pk

\* In the pipe the packages are in their order, and 'P' is for low priority.
PipeOrder ==
    /\ \A p, q \in DOMAIN from : Before(p, q) =>
          \A i, j \in DOMAIN pipe :
             Carries(pipe[i]) /\ Carries(pipe[j]) /\ pipe[i].pk = p /\ pipe[j].pk = q
             => i < j
    /\ \A i \in DOMAIN pipe : pipe[i].cmd = "P" => from[pipe[i].pk].prio = "low"

\* What is to be written or was written comes after what went before it.
DataOrder ==
    /\ \A p, q \in DOMAIN from : Before(p, q) =>
          /\ q \in Lying => p \notin Piped /\ Ahead(Data, p, q)
          /\ q \in In(peer.got) => p \notin Piped /\ p \notin Lying
    /\ \A p \in In(slot.low) : from[p].prio = "low"
    /\ In(peer.got) \subseteq DOMAIN from

\* A worker that has the lock found nothing of its own in the pipe; once it
\* has read the lists, nothing of its own waits.
CallOrder ==
    \A w \in Worker, p \in DOMAIN from : Before(p, call[w].pk) =>
       /\ call[w].at \in {"lists", "flags"} /\ slot.id = call[w].id => p \notin Piped
       /\ call[w].at = "flags" => p \notin Lying

\* The invariant of the order
Order == Latest /\ PipeOrder /\ DataOrder /\ CallOrder

\* The package in a call has none after it.
LEMMA LastCalled ==
    ASSUME Base, Hands, Loads, Latest, NEW p \in Called, NEW q \in DOMAIN from
    PROVE  ~Before(p, q)
  <1>1. PICK w \in Worker : Working(w) /\ call[w].pk = p
    BY DEF Called, InCall, Working, At
  <1>2. from[call[w].pk] = [by |-> w, id |-> call[w].id, prio |-> call[w].prio]
    BY <1>1 DEF Loads
  <1>3. from[p].by = w
    BY <1>1, <1>2
  <1>4. p \in Int /\ q \in Int
    BY HandsTypes
  <1>5. from[q].by = w => q <= p
    BY <1>1 DEF Latest
  <1> QED BY <1>3, <1>4, <1>5 DEF Before

\* No new package: the calls carry the last ones of their workers.
LEMMA LatestKept ==
    ASSUME Latest, from' = from,
           \A x \in Worker : Working(x)' => Working(x) /\ call'[x].pk = call[x].pk
    PROVE  Latest'
  BY DEF Latest

\* The pipe without its first request is in order.
LEMMA PipeOrderPop ==
    ASSUME Types, PipeOrder, from' = from, pipe # <<>>, pipe' = Tail(pipe)
    PROVE  PipeOrder'
  <1>1. pipe \in Seq(ReqRec)
    BY DEF Types
  <1>2. /\ DOMAIN pipe' = 1 .. (Len(pipe) - 1)
        /\ \A i \in DOMAIN pipe' : pipe'[i] = pipe[i + 1] /\ i + 1 \in DOMAIN pipe
                                   /\ i \in Int
    BY <1>1
  <1>3. ASSUME NEW p \in DOMAIN from, NEW q \in DOMAIN from, Before(p, q),
               NEW i \in DOMAIN pipe', NEW j \in DOMAIN pipe',
               Carries(pipe'[i]), Carries(pipe'[j]), pipe'[i].pk = p, pipe'[j].pk = q
        PROVE  i < j
    <2>1. i + 1 < j + 1
      BY <1>2, <1>3 DEF PipeOrder
    <2> QED BY <1>2, <2>1
  <1>4. \A i \in DOMAIN pipe' : pipe'[i].cmd = "P" => from[pipe'[i].pk].prio = "low"
    BY <1>2 DEF PipeOrder
  <1> QED BY <1>3, <1>4 DEF PipeOrder, Before, Carries

\* A package with none of its worker after it may enter the pipe.
LEMMA PipeOrderPush ==
    ASSUME Types, PipeOrder, from' = from, NEW cmd, NEW id, NEW pk, Request(cmd, id, pk),
           cmd \in {"D", "P"} => \A q \in DOMAIN from : ~Before(pk, q),
           cmd = "P" => from[pk].prio = "low"
    PROVE  PipeOrder'
  <1> DEFINE r == [cmd |-> cmd, id |-> id, pk |-> pk]
  <1>1. pipe \in Seq(ReqRec) /\ pipe' = Append(pipe, r)
    BY DEF Types, Request
  <1>2. r.cmd = cmd /\ r.pk = pk
    OBVIOUS
  <1> HIDE DEF r
  <1>3. /\ Len(pipe) \in Nat /\ DOMAIN pipe = 1 .. Len(pipe)
        /\ \A i \in DOMAIN pipe : pipe'[i] = pipe[i] /\ i \in Int /\ i < Len(pipe) + 1
        /\ pipe'[Len(pipe) + 1] = r
        /\ \A i \in DOMAIN pipe' : i = Len(pipe) + 1 \/ i \in DOMAIN pipe
    BY <1>1
  <1>4. ASSUME NEW p \in DOMAIN from, NEW q \in DOMAIN from, Before(p, q),
               NEW i \in DOMAIN pipe', NEW j \in DOMAIN pipe',
               Carries(pipe'[i]), Carries(pipe'[j]), pipe'[i].pk = p, pipe'[j].pk = q
        PROVE  i < j
    <2>1. CASE i = Len(pipe) + 1
      BY <1>2, <1>3, <1>4, <2>1 DEF Carries
    <2>2. CASE i \in DOMAIN pipe /\ j = Len(pipe) + 1
      BY <1>3, <2>2
    <2>3. CASE i \in DOMAIN pipe /\ j \in DOMAIN pipe
      BY <1>3, <1>4, <2>3 DEF PipeOrder
    <2> QED BY <1>3, <2>1, <2>2, <2>3
  <1>5. ASSUME NEW i \in DOMAIN pipe', pipe'[i].cmd = "P"
        PROVE  from[pipe'[i].pk].prio = "low"
    BY <1>2, <1>3, <1>5 DEF PipeOrder
  <1> QED BY <1>4, <1>5 DEF PipeOrder, Before, Carries

\* Requests without a package keep the order of the others.
LEMMA PipeOrderCalm ==
    ASSUME Types, PipeOrder, from' = from, CalmPipe
    PROVE  PipeOrder'
  <1>1. CASE pipe' = pipe
    BY <1>1 DEF PipeOrder, Before, Carries
  <1>2. CASE \E cmd \in {"O", "K", "shutdown", "R", "S", "W"}, id \in Id : Request(cmd, id, 0)
    <2>1. PICK cmd \in {"O", "K", "shutdown", "R", "S", "W"}, id \in Id : Request(cmd, id, 0)
      BY <1>2
    <2>2. cmd \notin {"D", "P"} /\ cmd # "P"
      OBVIOUS
    <2> QED BY <2>1, <2>2, PipeOrderPush
  <1>3. CASE pipe # <<>> /\ pipe' = Tail(pipe)
    BY <1>3, PipeOrderPop
  <1> QED BY <1>1, <1>2, <1>3 DEF CalmPipe

\* A step that only takes away from the pipe, the buffers and the locks
LEMMA DataKept ==
    ASSUME DataOrder, from' = from, Piped' \subseteq Piped, Lying' \subseteq Lying,
           \A p, q : Ahead(Data, p, q) => Ahead(Data', p, q),
           In(slot'.low) \subseteq In(slot.low), In(peer'.got) \subseteq In(peer.got)
    PROVE  DataOrder'
  <1>1. ASSUME NEW p \in DOMAIN from, NEW q \in DOMAIN from, Before(p, q)
        PROVE  /\ q \in Lying' => p \notin Piped' /\ Ahead(Data', p, q)
               /\ q \in In(peer'.got) => p \notin Piped' /\ p \notin Lying'
    BY <1>1 DEF DataOrder
  <1>2. \A p \in In(slot'.low) : from[p].prio = "low"
    BY DEF DataOrder
  <1>3. In(peer'.got) \subseteq DOMAIN from
    BY DEF DataOrder
  <1> QED BY <1>1, <1>2, <1>3 DEF DataOrder, Before, Ahead

\* What a worker found before a direct write stays true while it goes on.
LEMMA CallOrderKept ==
    ASSUME CallOrder, from' = from, Piped' \subseteq Piped, Lying' \subseteq Lying,
           slot'.id = slot.id \/ \A x \in Worker : call'[x].at \notin {"lists", "flags"},
           \A x \in Worker : call'[x].at \in {"lists", "flags"} => call'[x] = call[x]
    PROVE  CallOrder'
  <1>1. ASSUME NEW x \in Worker, NEW p \in DOMAIN from, from[p].by = from[call'[x].pk].by, p < call'[x].pk,
               from[p].id = from[call'[x].pk].id, from[p].prio = "high",
               call'[x].at \in {"lists", "flags"}
        PROVE  /\ slot'.id = call'[x].id => p \notin Piped'
               /\ call'[x].at = "flags" => p \notin Lying'
    <2>1. call'[x] = call[x] /\ slot'.id = slot.id /\ Before(p, call[x].pk)
      BY <1>1 DEF Before
    <2> QED BY <1>1, <2>1 DEF CallOrder
  <1> QED BY <1>1 DEF CallOrder, Before

\* The counter is zero: nothing of this connection is in the pipe.
LEMMA NoneOnTheWay ==
    ASSUME Base, Hands, Count, slot.sending = 0, slot.id \in told,
           NEW p \in Piped, from[p].id = slot.id
    PROVE  FALSE
  <1>0. PICK i : i = slot.id
    OBVIOUS
  <1>1. slot.protocol = "TCP"
    BY DEF Base, Conn
  <1>2. Cardinality(Way(i)) + Serving(i) = 0
    BY <1>0, <1>1 DEF Count
  <1>3. Cardinality(Way(i)) \in Nat /\ IsFiniteSet(Way(i)) /\ Serving(i) \in Nat
    BY WayFinite DEF Serving
  <1>4. Cardinality(Way(i)) = 0
    BY <1>2, <1>3
  <1>5. Way(i) = {}
    BY <1>3, <1>4, FS_EmptySet
  <1>6. p \in DOMAIN from
    BY HandsTypes
  <1> QED BY <1>0, <1>5, <1>6 DEF Way

\* A worker that finds s->sending = 0 has nothing of its own in the pipe, one
\* that finds the lists empty nothing in them (can_direct_write).
LEMMA CallOrderCalm ==
    ASSUME Base, Hands, Loads, Count, CallOrder, Calm, Piped' = Piped, Lying' = Lying
    PROVE  CallOrder'
  <1> USE DEF Base
  <1>0. from' = from /\ (slot'.id = slot.id \/ ~HasFd)
    BY DEF Calm, CalmData
  <1>1. ASSUME NEW x \in Worker, NEW p \in DOMAIN from,
               from[p].by = from[call'[x].pk].by, p < call'[x].pk,
               from[p].id = from[call'[x].pk].id, from[p].prio = "high",
               call'[x].at \in {"lists", "flags"}
        PROVE  /\ slot'.id = call'[x].id => p \notin Piped
               /\ call'[x].at = "flags" => p \notin Lying
    <2>1. CASE call'[x] = call[x]
      <3>1. slot.lock = x /\ Before(p, call[x].pk)
        BY <1>1, <2>1 DEF Locking, HasLock, Before
      <3>2. slot'.id = slot.id
        BY <1>0, <3>1, LockAssumption DEF Locking
      <3> QED BY <1>1, <2>1, <3>1, <3>2 DEF CallOrder
    <2>2. CASE call'[x] # call[x]
      <3>1. /\ Working(x) /\ SameLoad(x)
            /\ call'[x].at = "flags" => call[x].at = "lists" /\ ListsOK(x)
            /\ call'[x].at = "lists" => FlagsOK(x)
        BY <1>1, <2>2 DEF Calm, CalmCalls, Others, Working
      <3>2. Before(p, call[x].pk)
        BY <1>1, <3>1 DEF SameLoad, Before
      <3>3. CASE call'[x].at = "lists"
        <4> SUFFICES ASSUME slot'.id = call'[x].id, p \in Piped PROVE FALSE
          BY <3>3
        <4>1. slot.sending = 0 /\ HasFd
          BY <3>1, <3>3 DEF FlagsOK, HasFd
        <4>2. slot.id = call[x].id
          BY <1>0, <3>1, <4>1 DEF SameLoad
        <4>3. slot.id \in told
          BY <3>1, <4>2 DEF Calls, Working
        <4>4. from[call[x].pk] = [by |-> x, id |-> call[x].id, prio |-> call[x].prio]
          BY <3>1 DEF Loads
        <4>5. from[p].id = slot.id
          BY <3>2, <4>2, <4>4 DEF Before
        <4> QED BY <4>1, <4>3, <4>5, NoneOnTheWay
      <3>4. CASE call'[x].at = "flags"
        <4>1. call[x].at = "lists" /\ slot.id = call[x].id /\ slot.high = <<>>
              /\ slot.low = <<>> /\ slot.dw = <<>>
          BY <3>1, <3>4 DEF ListsOK, send_buffer_empty, Locking
        <4>2. p \notin Piped
          BY <3>2, <4>1 DEF CallOrder
        <4>3. Lying = {}
          BY <4>1, EmptyBuffer DEF Lying
        <4> QED BY <4>2, <4>3
      <3> QED BY <1>1, <3>3, <3>4
    <2> QED BY <2>1, <2>2
  <1> QED BY <1>0, <1>1 DEF CallOrder, Before

\* A step that moves no package keeps the order.
LEMMA OrderCalm ==
    ASSUME Base, Hands, Loads, Count, Order, Calm
    PROVE  Order'
  <1> USE DEF Base
  <1>1. CalmData /\ CalmPipe /\ CalmCalls /\ from' = from
    BY DEF Calm, CalmData
  <1>2. Piped' = Piped
    BY <1>1, PipeCalm
  <1>3. Lying' = Lying /\ Data' = Data /\ slot'.low = slot.low
        /\ In(peer'.got) \subseteq In(peer.got)
    BY <1>1, EmptyBuffer DEF CalmData, SameLists, Lying, Data
  <1>4. Latest'
    <2>1. \A x \in Worker : Working(x)' => Working(x) /\ call'[x].pk = call[x].pk
      BY <1>1 DEF CalmCalls, Others, SameLoad, Working
    <2> QED BY <1>1, <2>1, LatestKept DEF Order
  <1>5. PipeOrder'
    BY <1>1, PipeOrderCalm DEF Order
  <1>6. DataOrder'
    BY <1>1, <1>2, <1>3, DataKept DEF Order
  <1>7. CallOrder'
    BY <1>2, <1>3, CallOrderCalm DEF Order
  <1> QED BY <1>4, <1>5, <1>6, <1>7 DEF Order

\* A new package: it is nowhere but in the call, and comes after all others.
LEMMA OrderBegin ==
    ASSUME Base, Hands, Loads, Order, NEW w \in Worker, NEW id \in Id,
           NEW prio \in {"high", "low"}, SendBegin(w, id, prio)
    PROVE  Order'
  <1> USE DEF Base
  <1> DEFINE k == Len(from) + 1
             f == [by |-> w, id |-> id, prio |-> prio]
             first == IF prio = "high" THEN "try" ELSE "inc"
             c == [at |-> first, pk |-> k, id |-> id, prio |-> prio]
  <1>1. /\ call[w] = Idle /\ from' = Append(from, f)
        /\ call' = call \/ call' = [call EXCEPT ![w] = c]
        /\ UNCHANGED <<slot, pipe, th, peer>>
    BY DEF SendBegin
  <1>2. /\ DOMAIN from = 1 .. Len(from) /\ Len(from) \in Nat /\ from \in Seq(FromRec)
        /\ k \notin DOMAIN from /\ call \in [Worker -> CallRec]
        /\ c.at \in {"try", "inc"} /\ c.pk = k /\ f.by = w
        /\ k \in Int /\ \A q \in DOMAIN from : q \in Int /\ q < k
        /\ call[w].at = "idle"
    BY <1>1, HandsTypes DEF Types, Idle
  <1>3. /\ DOMAIN from' = DOMAIN from \union {k}
        /\ \A q \in DOMAIN from : from'[q] = from[q]
        /\ from'[k] = f
    BY <1>1, <1>2
  <1>4. /\ Piped' = Piped /\ Lying' = Lying /\ Data' = Data
        /\ Piped \subseteq DOMAIN from /\ Lying \subseteq DOMAIN from
        /\ In(peer.got) \subseteq DOMAIN from
    BY <1>1, HandsTypes DEF Piped, InPipe, Lying, Data, Order, DataOrder
  <1>5. /\ \A i \in DOMAIN pipe : Carries(pipe[i]) => pipe[i].pk \in DOMAIN from
        /\ \A x \in Worker : Working(x) => call[x].pk \in DOMAIN from
    BY HandsTypes
  <1>6. /\ \A x \in Worker : x # w => call'[x] = call[x]
        /\ call'[w] = call[w] \/ call'[w] = c
    BY <1>1, <1>2
  <1> HIDE DEF k, f, c
  <1>7. ASSUME NEW p \in DOMAIN from', NEW q \in DOMAIN from', Before(p, q)', q # k
        PROVE  p \in DOMAIN from /\ q \in DOMAIN from /\ Before(p, q)
    BY <1>2, <1>3, <1>7 DEF Before
  <1>8. Latest'
    <2> SUFFICES ASSUME NEW x \in Worker, Working(x)', NEW q \in DOMAIN from', from'[q].by = x
                 PROVE  q <= call'[x].pk
      BY DEF Latest
    <2>1. CASE x = w
      <3>1. call'[x].pk = k
        BY <1>2, <1>6, <2>1 DEF Working
      <3> QED BY <1>2, <1>3, <3>1
    <2>2. CASE x # w
      <3>1. q \in DOMAIN from /\ Working(x) /\ call'[x] = call[x]
        BY <1>2, <1>3, <1>6, <2>2 DEF Working
      <3> QED BY <1>3, <3>1 DEF Order, Latest
    <2> QED BY <2>1, <2>2
  <1>9. PipeOrder'
    <2>1. ASSUME NEW p \in DOMAIN from', NEW q \in DOMAIN from', Before(p, q)',
                 NEW i \in DOMAIN pipe, NEW j \in DOMAIN pipe,
                 Carries(pipe[i]), Carries(pipe[j]), pipe[i].pk = p, pipe[j].pk = q
          PROVE  i < j
      <3>1. q # k
        BY <1>2, <1>5, <2>1
      <3> QED BY <1>7, <2>1, <3>1 DEF Order, PipeOrder
    <2>2. ASSUME NEW i \in DOMAIN pipe, pipe[i].cmd = "P"
          PROVE  from'[pipe[i].pk].prio = "low"
      BY <1>3, <1>5, <2>2 DEF Order, PipeOrder, Carries
    <2>3. pipe' = pipe
      BY <1>1
    <2> QED BY <2>1, <2>2, <2>3 DEF PipeOrder, Carries, Before
  <1>10. DataOrder'
    <2>1. ASSUME NEW p \in DOMAIN from', NEW q \in DOMAIN from', Before(p, q)'
          PROVE  /\ q \in Lying => p \notin Piped /\ Ahead(Data, p, q)
                 /\ q \in In(peer.got) => p \notin Piped /\ p \notin Lying
      <3>1. CASE q = k
        BY <1>2, <1>4, <3>1
      <3>2. CASE q # k
        BY <1>7, <2>1, <3>2 DEF Order, DataOrder
      <3> QED BY <3>1, <3>2
    <2>2. \A p \in In(slot.low) : from'[p].prio = "low"
      <3>1. In(slot.low) \subseteq DOMAIN from
        BY <1>4 DEF Lying
      <3> QED BY <1>3, <3>1 DEF Order, DataOrder
    <2>3. slot' = slot /\ peer' = peer
      BY <1>1
    <2> QED BY <1>3, <1>4, <2>1, <2>2, <2>3 DEF DataOrder, Ahead, Before
  <1>11. CallOrder'
    <2>1. ASSUME NEW x \in Worker, NEW p \in DOMAIN from', NEW q, q = call'[x].pk,
                 Before(p, q)', call'[x].at \in {"lists", "flags"}
          PROVE  /\ slot.id = call'[x].id => p \notin Piped
                 /\ call'[x].at = "flags" => p \notin Lying
      <3>1. call'[x] = call[x] /\ Working(x)
        BY <1>2, <1>6, <2>1 DEF Working
      <3>2. q \in DOMAIN from
        BY <1>5, <2>1, <3>1
      <3>3. p \in DOMAIN from /\ Before(p, q)
        BY <1>2, <1>3, <1>7, <2>1, <3>2
      <3> QED BY <2>1, <3>1, <3>3 DEF Order, CallOrder
    <2> QED BY <1>1, <1>4, <2>1 DEF CallOrder, Before
  <1> QED BY <1>8, <1>9, <1>10, <1>11 DEF Order

(* The order of bytes in a buffer                                          *)

\* Order in what is left after a write
LEMMA AheadSuffix ==
    ASSUME NEW b \in Buffer, NEW n \in Nat, n <= Len(b), NEW p, NEW q, Ahead(b, p, q)
    PROVE  /\ Ahead(SubSeq(b, n + 1, Len(b)), p, q)
           /\ q \in In(SubSeq(b, 1, n)) => p \notin In(SubSeq(b, n + 1, Len(b)))
  <1> DEFINE t == SubSeq(b, n + 1, Len(b))
             h == SubSeq(b, 1, n)
  <1>1. Len(b) \in Nat /\ DOMAIN b = 1 .. Len(b) /\ Len(b) <= Len(b)
    BY BufferBytes
  <1>2. /\ DOMAIN t = 1 .. (Len(b) - n) /\ \A i \in 1 .. (Len(b) - n) : t[i] = b[n + i]
    BY <1>1, SliceBuffer
  <1>3. DOMAIN h = 1 .. n /\ \A i \in 1 .. n : h[i] = b[i]
    <2>1. h \in Buffer /\ Len(h) = n /\ \A i \in 1 .. n : h[i] = b[i]
      BY BeginBuffer
    <2> QED BY <2>1, BufferBytes
  <1> HIDE DEF t, h
  <1>4. ASSUME NEW i \in DOMAIN t, NEW j \in DOMAIN t, t[i][1] = p, t[j][1] = q
        PROVE  i < j
    <2>1. n + i \in DOMAIN b /\ n + j \in DOMAIN b /\ i \in Int /\ j \in Int
      BY <1>1, <1>2
    <2>2. n + i < n + j
      BY <1>2, <1>4, <2>1 DEF Ahead
    <2> QED BY <2>1, <2>2
  <1>5. ASSUME NEW j \in DOMAIN h, h[j][1] = q, NEW i \in DOMAIN t, t[i][1] = p
        PROVE  FALSE
    <2>1. n + i \in DOMAIN b /\ j \in DOMAIN b /\ i \in Int /\ j \in Int /\ j < n + i
      BY <1>1, <1>2, <1>3
    <2>2. n + i < j
      BY <1>2, <1>3, <1>5, <2>1 DEF Ahead
    <2> QED BY <2>1, <2>2
  <1> QED BY <1>4, <1>5 DEF Ahead, In, t, h

\* Order in the first of two lists
LEMMA AheadFirst ==
    ASSUME NEW a \in Buffer, NEW b \in Buffer, NEW p, NEW q, Ahead(a \o b, p, q)
    PROVE  Ahead(a, p, q)
  <1> DEFINE c == a \o b
  <1>1. /\ Len(a) \in Nat /\ Len(b) \in Nat /\ DOMAIN a = 1 .. Len(a)
        /\ DOMAIN c = 1 .. (Len(a) + Len(b)) /\ \A i \in 1 .. Len(a) : c[i] = a[i]
    BY BufferBytes, ConcatBuffer
  <1>2. Ahead(c, p, q)
    OBVIOUS
  <1> HIDE DEF c
  <1>3. \A i \in DOMAIN a : i \in DOMAIN c /\ c[i] = a[i]
    BY <1>1
  <1> QED BY <1>2, <1>3 DEF Ahead

\* The bytes of three buffers one behind the other
Joined(m, a, b, c) ==
    /\ DOMAIN m = 1 .. (Len(a) + Len(b) + Len(c))
    /\ Len(a) \in Nat /\ Len(b) \in Nat /\ Len(c) \in Nat
    /\ \A i \in 1 .. Len(a) : m[i] = a[i]
    /\ \A i \in 1 .. Len(b) : m[Len(a) + i] = b[i]
    /\ \A i \in 1 .. Len(c) : m[Len(a) + Len(b) + i] = c[i]

\* Where the bytes of three lists, one after the other, come from
LEMMA ThreeBytes ==
    ASSUME NEW a \in Buffer, NEW b \in Buffer, NEW c \in Buffer
    PROVE  Joined((a \o b) \o c, a, b, c)
  <1> DEFINE ab == a \o b
             m == ab \o c
             x == Len(a)
             y == Len(b)
             z == Len(c)
  <1>1. x \in Nat /\ y \in Nat /\ z \in Nat
    BY BufferBytes
  <1>2. /\ ab \in Buffer /\ Len(ab) = x + y
        /\ \A i \in 1 .. x : ab[i] = a[i]
        /\ \A i \in 1 .. y : ab[x + i] = b[i]
    BY ConcatBuffer
  <1> HIDE DEF ab
  <1>3. /\ DOMAIN m = 1 .. (Len(ab) + z)
        /\ \A i \in 1 .. Len(ab) : m[i] = ab[i]
        /\ \A i \in 1 .. z : m[Len(ab) + i] = c[i]
    BY <1>2, ConcatBuffer
  <1> HIDE DEF m, x, y, z
  <1>4. \A i \in 1 .. x : i \in 1 .. Len(ab)
    BY <1>1, <1>2
  <1>5. \A i \in 1 .. y : x + i \in 1 .. Len(ab)
    BY <1>1, <1>2
  <1>6. /\ \A i \in 1 .. x : m[i] = a[i]
        /\ \A i \in 1 .. y : m[x + i] = b[i]
        /\ \A i \in 1 .. z : m[x + y + i] = c[i]
        /\ DOMAIN m = 1 .. (x + y + z)
    BY <1>2, <1>3, <1>4, <1>5
  <1> QED BY <1>1, <1>6 DEF Joined, ab, m, x, y, z

\* Bytes of other packages put between
LEMMA AheadInsert ==
    ASSUME NEW a \in Buffer, NEW b \in Buffer, NEW c \in Buffer, NEW p, NEW q,
           Ahead(a \o c, p, q), p \notin In(b), q \notin In(b)
    PROVE  Ahead((a \o b) \o c, p, q)
  <1> DEFINE m == (a \o b) \o c
             s == a \o c
             x == Len(a)
             y == Len(b)
             z == Len(c)
  <1>1. /\ DOMAIN m = 1 .. (x + y + z) /\ x \in Nat /\ y \in Nat /\ z \in Nat
        /\ \A i \in 1 .. x : m[i] = a[i]
        /\ \A i \in 1 .. y : m[x + i] = b[i]
        /\ \A i \in 1 .. z : m[x + y + i] = c[i]
    <2>1. Joined(m, a, b, c)
      BY ThreeBytes
    <2> HIDE DEF m
    <2> QED BY <2>1 DEF Joined
  <1>2. /\ DOMAIN s = 1 .. (x + z)
        /\ \A i \in 1 .. x : s[i] = a[i]
        /\ \A i \in 1 .. z : s[x + i] = c[i]
    BY ConcatBuffer
  <1>3. DOMAIN b = 1 .. y /\ Ahead(s, p, q)
    BY BufferBytes
  <1> HIDE DEF m, s, x, y, z
  <1>4. ASSUME NEW i \in DOMAIN m, m[i][1] \notin In(b)
        PROVE  \/ i <= x /\ i \in DOMAIN s /\ m[i] = s[i]
               \/ i > x /\ i - y > x /\ i - y \in DOMAIN s /\ m[i] = s[i - y]
    <2>1. CASE i <= x
      BY <1>1, <1>2, <2>1
    <2>2. CASE i > x /\ i <= x + y
      <3>1. i - x \in 1 .. y /\ x + (i - x) = i
        BY <1>1, <2>2
      <3>2. m[i] = b[i - x]
        BY <1>1, <3>1
      <3>3. m[i][1] \in In(b)
        BY <1>3, <3>1, <3>2 DEF In
      <3> QED BY <1>4, <3>3
    <2>3. CASE i > x + y
      <3>1. PICK k \in 1 .. z : i = x + y + k /\ i - y = x + k
        <4>1. i - (x + y) \in 1 .. z /\ i = x + y + (i - (x + y))
              /\ i - y = x + (i - (x + y))
          BY <1>1, <2>3
        <4> QED BY <4>1
      <3>2. m[i] = c[k] /\ s[i - y] = c[k] /\ i - y \in DOMAIN s /\ i - y > x /\ i > x
        BY <1>1, <1>2, <3>1
      <3> QED BY <3>2
    <2> QED BY <1>1, <2>1, <2>2, <2>3
  <1>5. ASSUME NEW i \in DOMAIN m, NEW j \in DOMAIN m, m[i][1] = p, m[j][1] = q
        PROVE  i < j
    <2>1. /\ \/ i <= x /\ i \in DOMAIN s /\ m[i] = s[i]
             \/ i > x /\ i - y > x /\ i - y \in DOMAIN s /\ m[i] = s[i - y]
          /\ \/ j <= x /\ j \in DOMAIN s /\ m[j] = s[j]
             \/ j > x /\ j - y > x /\ j - y \in DOMAIN s /\ m[j] = s[j - y]
      BY <1>4, <1>5
    <2>2. i \in Int /\ j \in Int
      BY <1>1
    <2>3. CASE i <= x /\ j > x
      BY <1>1, <2>2, <2>3
    <2>4. CASE i <= x /\ j <= x
      BY <1>1, <1>3, <1>5, <2>1, <2>2, <2>4 DEF Ahead
    <2>5. CASE i > x /\ j > x
      <3>1. i - y \in DOMAIN s /\ j - y \in DOMAIN s /\ s[i - y][1] = p /\ s[j - y][1] = q
        BY <1>1, <1>5, <2>1, <2>2, <2>5
      <3>2. i - y < j - y
        BY <1>3, <3>1 DEF Ahead
      <3> QED BY <1>1, <2>2, <3>2
    <2>6. CASE i > x /\ j <= x
      <3>1. i - y \in DOMAIN s /\ j \in DOMAIN s /\ s[i - y][1] = p /\ s[j][1] = q /\ i - y > x
        BY <1>1, <1>5, <2>1, <2>2, <2>6
      <3>2. i - y < j
        BY <1>3, <3>1 DEF Ahead
      <3> QED BY <1>1, <2>2, <2>6, <3>1, <3>2
    <2> QED BY <1>1, <2>2, <2>3, <2>4, <2>5, <2>6
  <1> QED BY <1>5 DEF Ahead, m

\* A package put behind all of another
LEMMA AheadLast ==
    ASSUME NEW a \in Buffer, NEW b \in Buffer, NEW c \in Buffer, NEW p, NEW q,
           q \notin In(a), p \notin In(b), p \notin In(c)
    PROVE  Ahead((a \o b) \o c, p, q)
  <1> DEFINE m == (a \o b) \o c
             x == Len(a)
             y == Len(b)
             z == Len(c)
  <1>1. /\ DOMAIN m = 1 .. (x + y + z) /\ x \in Nat /\ y \in Nat /\ z \in Nat
        /\ \A i \in 1 .. x : m[i] = a[i]
        /\ \A i \in 1 .. y : m[x + i] = b[i]
        /\ \A i \in 1 .. z : m[x + y + i] = c[i]
    <2>1. Joined(m, a, b, c)
      BY ThreeBytes
    <2> HIDE DEF m
    <2> QED BY <2>1 DEF Joined
  <1>2. DOMAIN a = 1 .. x /\ DOMAIN b = 1 .. y /\ DOMAIN c = 1 .. z
    BY BufferBytes
  <1> HIDE DEF m, x, y, z
  <1>3. ASSUME NEW i \in DOMAIN m, i <= x PROVE m[i][1] \in In(a)
    <2>1. i \in DOMAIN a /\ m[i] = a[i]
      BY <1>1, <1>2, <1>3
    <2> QED BY <2>1 DEF In
  <1>4. ASSUME NEW i \in DOMAIN m, i > x PROVE m[i][1] \in In(b) \union In(c)
    <2>1. CASE i <= x + y
      <3>1. i - x \in 1 .. y /\ x + (i - x) = i
        BY <1>1, <1>4, <2>1
      <3>2. m[i] = b[i - x] /\ i - x \in DOMAIN b
        BY <1>1, <1>2, <3>1
      <3> QED BY <3>2 DEF In
    <2>2. CASE i > x + y
      <3>1. PICK k \in 1 .. z : i = x + y + k
        <4>1. i - (x + y) \in 1 .. z /\ i = x + y + (i - (x + y))
          BY <1>1, <2>2
        <4> QED BY <4>1
      <3>2. m[i] = c[k] /\ k \in DOMAIN c
        BY <1>1, <1>2, <3>1
      <3> QED BY <3>2 DEF In
    <2> QED BY <1>1, <2>1, <2>2
  <1>5. ASSUME NEW i \in DOMAIN m, NEW j \in DOMAIN m, m[i][1] = p, m[j][1] = q
        PROVE  i < j
    <2>1. i \in Int /\ j \in Int /\ x \in Int
      BY <1>1
    <2>2. i <= x
      BY <1>4, <1>5, <2>1
    <2>3. j > x
      BY <1>3, <1>5, <2>1
    <2> QED BY <2>1, <2>2, <2>3
  <1> QED BY <1>5 DEF Ahead, m

\* The direct write: nothing of the worker is in the pipe or waits.
LEMMA OrderDirect ==
    ASSUME Base, Hands, Loads, Order, NEW w \in Worker, NEW n \in 0 .. Size, DirectWrite(w, n)
    PROVE  Order'
  <1> USE DEF Base
  <1>0. PICK k : k = call[w].pk
    OBVIOUS
  <1> DEFINE d == SubSeq(Bytes(k), n + 1, Size)
             e == SubSeq(Bytes(k), 1, n)
  <1>1. /\ call[w].at = "flags" /\ k \in Package
        /\ slot.dw = <<>> /\ slot'.dw = d
        /\ slot'.high = slot.high /\ slot'.low = slot.low /\ slot'.id = slot.id
        /\ peer'.got = peer.got \o e
        /\ Others(w) /\ call'[w].at \in {"idle", "wake"}
        /\ UNCHANGED <<pipe, from>>
    BY <1>0, DirectEffect DEF SameConn
  <1>2. Working(w) /\ k \in Called /\ k \in DOMAIN from /\ k \notin Piped /\ k \notin Lying
    <2>1. Working(w)
      BY <1>1 DEF Working
    <2>2. k \in Called
      BY <1>0, <2>1, HandsTypes
    <2> QED BY <1>1, <2>1, <2>2 DEF Hands, Apart
  <1>3. \A q \in DOMAIN from : ~Before(k, q)
    BY <1>2, LastCalled DEF Order
  <1>4. \A p \in DOMAIN from : Before(p, k) => p \notin Piped /\ p \notin Lying
    BY <1>0, <1>1 DEF Order, CallOrder, Locking
  <1>5. /\ d \in Buffer /\ e \in Buffer /\ In(d) \subseteq {k} /\ In(e) \subseteq {k}
    <2>1. /\ d \in Buffer /\ e \in Buffer
          /\ In(d) = IF n < Size THEN {k} ELSE {}
          /\ In(e) = IF n > 0 THEN {k} ELSE {}
      BY <1>1, InBytes
    <2> HIDE DEF d, e
    <2> QED BY <2>1
  <1> HIDE DEF d, e
  <1>6. Piped' = Piped
    BY <1>1, PipeStays
  <1>7. Latest'
    <2>1. \A x \in Worker : Working(x)' => Working(x) /\ call'[x].pk = call[x].pk
      BY <1>1 DEF Others, Working
    <2> QED BY <1>1, <2>1, LatestKept DEF Order
  <1>8. PipeOrder'
    BY <1>1, PipeOrderCalm DEF Order, CalmPipe
  <1>9. CallOrder'
    <2>1. \A x \in Worker : call'[x].at \notin {"lists", "flags"}
      BY <1>1 DEF Others, Locking, HasLock
    <2> QED BY <2>1 DEF CallOrder
  <1>10. DataOrder'
    <2> DEFINE o == slot.high \o slot.low
    <2>1. /\ slot.high \in Buffer /\ slot.low \in Buffer /\ o \in Buffer
      BY DataLies, ConcatBuffer
    <2>2. Data = o /\ Data' = (<<>> \o d) \o o /\ <<>> \o o = o
      <3>1. <<>> \o slot.high = slot.high /\ <<>> \o d = d
        BY <1>5, <2>1, EmptyConcat
      <3>2. (d \o slot.high) \o slot.low = d \o (slot.high \o slot.low)
        BY <1>5, <2>1, ConcatAssoc
      <3>3. <<>> \o o = o
        BY <2>1, EmptyConcat
      <3> QED BY <1>1, <3>1, <3>2, <3>3 DEF Data
    <2> HIDE DEF o
    <2>3. Lying' \subseteq Lying \union {k}
      BY <1>1, <1>5, EmptyBuffer DEF Lying
    <2>4. In(peer'.got) \subseteq In(peer.got) \union {k}
      <3>1. peer.got \in Buffer
        BY DEF Types, PeerRec
      <3>2. In(peer.got \o e) = In(peer.got) \union In(e)
        BY <1>5, <3>1, InParts
      <3> QED BY <1>1, <1>5, <3>2
    <2>5. ASSUME NEW p \in DOMAIN from, NEW q \in DOMAIN from, Before(p, q)
          PROVE  /\ q \in Lying' => p \notin Piped' /\ Ahead(Data', p, q)
                 /\ q \in In(peer'.got) => p \notin Piped' /\ p \notin Lying'
      <3>1. p # k
        BY <1>3, <2>5
      <3>2. CASE q = k
        <4>1. p \notin Piped /\ p \notin Lying
          BY <1>4, <2>5, <3>2
        <4>2. p \notin Lying'
          BY <2>3, <3>1, <4>1
        <4>3. Ahead(Data', p, q)
          <5>1. p \notin In(o)
            BY <2>2, <4>1, DataLies
          <5>2. p \notin In(d) /\ q \notin In(<<>>) /\ <<>> \in Buffer
            BY <1>5, <3>1, EmptyBuffer
          <5>3. o \in Buffer
            BY <2>1
          <5>4. Ahead((<<>> \o d) \o o, p, q)
            BY <1>5, <5>1, <5>2, <5>3, AheadLast
          <5> QED BY <2>2, <5>4
        <4> QED BY <1>6, <4>1, <4>2, <4>3
      <3>3. CASE q # k
        <4>1. /\ q \in Lying => p \notin Piped /\ Ahead(Data, p, q)
              /\ q \in In(peer.got) => p \notin Piped /\ p \notin Lying
          BY <2>5 DEF Order, DataOrder
        <4>2. Ahead(Data, p, q) => Ahead(Data', p, q)
          <5> SUFFICES ASSUME Ahead(Data, p, q) PROVE Ahead(Data', p, q)
            OBVIOUS
          <5>1. p \notin In(d) /\ q \notin In(d) /\ <<>> \in Buffer /\ o \in Buffer
            BY <1>5, <2>1, <3>1, <3>3, EmptyBuffer
          <5>2. Ahead(<<>> \o o, p, q)
            BY <2>2
          <5>3. Ahead((<<>> \o d) \o o, p, q)
            BY <1>5, <5>1, <5>2, AheadInsert
          <5> QED BY <2>2, <5>3
        <4> QED BY <1>6, <2>3, <2>4, <3>1, <3>3, <4>1, <4>2
      <3> QED BY <3>2, <3>3
    <2>6. \A p \in In(slot'.low) : from[p].prio = "low"
      BY <1>1 DEF Order, DataOrder
    <2>7. In(peer'.got) \subseteq DOMAIN from
      BY <1>2, <2>4 DEF Order, DataOrder
    <2> QED BY <1>1, <2>5, <2>6, <2>7 DEF DataOrder, Before, Ahead
  <1> QED BY <1>7, <1>8, <1>9, <1>10 DEF Order

\* The package goes into the pipe, behind the others.
LEMMA OrderQueue ==
    ASSUME Base, Hands, Loads, Order, NEW w \in Worker, Queue(w)
    PROVE  Order'
  <1> USE DEF Base
  <1>0. PICK k : k = call[w].pk
    OBVIOUS
  <1>1. /\ call[w].at = "queue" /\ call' = [call EXCEPT ![w] = Idle]
        /\ UNCHANGED <<slot, th, peer, from>>
    BY DEF Queue, At, ghosts
  <1>2. PICK cmd \in {"D", "P"} : /\ Request(cmd, call[w].id, k)
                                  /\ cmd = "P" => call[w].prio # "high"
    BY <1>0 DEF Queue
  <1>3. call'[w].at = "idle" /\ Others(w)
    BY <1>1, GoToIdle DEF Others
  <1>4. Working(w) /\ k \in Called /\ k \in Package
    <2>1. Working(w) /\ k \in Package
      BY <1>0, <1>1 DEF Working, Calls
    <2> QED BY <1>0, <2>1, HandsTypes
  <1>5. \A q \in DOMAIN from : ~Before(k, q)
    BY <1>4, LastCalled DEF Order
  <1>6. cmd = "P" => from[k].prio = "low"
    <2>1. from[call[w].pk] = [by |-> w, id |-> call[w].id, prio |-> call[w].prio]
      BY <1>4 DEF Loads
    <2>2. call[w].prio \in {"high", "low"}
      BY DEF Types, CallRec
    <2> QED BY <1>0, <1>2, <2>1, <2>2
  <1>7. Piped' = Piped \union {k}
    BY <1>2, <1>4, PipedPush
  <1>8. Lying' = Lying /\ Data' = Data
    BY <1>1 DEF Lying, Data
  <1>9. Latest'
    <2>1. \A x \in Worker : Working(x)' => Working(x) /\ call'[x].pk = call[x].pk
      BY <1>3 DEF Others, Working
    <2> QED BY <1>1, <2>1, LatestKept DEF Order
  <1>10. PipeOrder'
    BY <1>1, <1>2, <1>5, <1>6, PipeOrderPush DEF Order
  <1>11. DataOrder'
    <2>1. ASSUME NEW p \in DOMAIN from, NEW q \in DOMAIN from, Before(p, q)
          PROVE  /\ q \in Lying => p \notin Piped' /\ Ahead(Data, p, q)
                 /\ q \in In(peer.got) => p \notin Piped' /\ p \notin Lying
      BY <1>5, <1>7, <2>1 DEF Order, DataOrder
    <2>2. /\ \A p \in In(slot.low) : from[p].prio = "low"
          /\ In(peer.got) \subseteq DOMAIN from
      BY DEF Order, DataOrder
    <2> QED BY <1>1, <1>8, <2>1, <2>2 DEF DataOrder, Before, Ahead
  <1>12. CallOrder'
    <2>1. ASSUME NEW x \in Worker, NEW p \in DOMAIN from, Before(p, call[x].pk),
                 call'[x].at \in {"lists", "flags"}
          PROVE  /\ slot.id = call[x].id => p \notin Piped'
                 /\ call[x].at = "flags" => p \notin Lying
      <3>1. call'[x] = call[x] /\ Working(x)
        BY <1>3, <2>1 DEF Others, Working
      <3>2. call[x].pk \in DOMAIN from
        BY <3>1, HandsTypes
      <3>3. p # k
        BY <1>5, <2>1, <3>2
      <3> QED BY <1>7, <2>1, <3>1, <3>3 DEF Order, CallOrder
    <2>2. \A x \in Worker : call'[x].at \in {"lists", "flags"} => call'[x] = call[x]
      BY <1>3 DEF Others
    <2> QED BY <1>1, <1>8, <2>1, <2>2 DEF CallOrder, Before
  <1> QED BY <1>9, <1>10, <1>11, <1>12 DEF Order

\* A package of the pipe is put into a list, or freed.
LEMMA OrderList ==
    ASSUME Base, Hands, Loads, Order, Listing
    PROVE  Order'
  <1> USE DEF Base
  <1>0. PICK k : k = Head(pipe).pk
    OBVIOUS
  <1> DEFINE b == Bytes(k)
             dh == slot.dw \o slot.high
  <1>1. /\ Carries(Head(pipe)) /\ k \in Package /\ pipe # <<>> /\ pipe' = Tail(pipe)
        /\ UNCHANGED <<call, from, peer>> /\ slot'.dw = slot.dw /\ slot'.id = slot.id
        /\ \/ freed' = freed \union {k} /\ SameLists(slot, slot')
           \/ /\ slot'.low = slot.low /\ slot'.high = slot.high \o b
              /\ Head(pipe).cmd = "D" \/ slot.low = <<>>
           \/ /\ slot'.high = slot.high /\ slot'.low = slot.low \o b
              /\ Head(pipe).cmd = "P"
    BY <1>0, ListEffect DEF SameConn
  <1>2. /\ Piped' = Piped \ {k} /\ k \in Piped
    BY <1>0, <1>1, PipedPop
  <1>3. k \in DOMAIN from /\ k \notin Lying
    BY <1>1, <1>2 DEF Hands, Apart
  <1>4. Latest'
    BY <1>1, LatestKept DEF Order, Working
  <1>5. PipeOrder'
    BY <1>1, PipeOrderPop DEF Order
  <1>6. \A p \in DOMAIN from : Before(p, k) => p \notin Piped
    <2> SUFFICES ASSUME NEW p \in DOMAIN from, Before(p, k), p \in Piped PROVE FALSE
      OBVIOUS
    <2>1. PICK i \in DOMAIN pipe : Carries(pipe[i]) /\ pipe[i].pk = p
      BY DEF Piped, InPipe, Carries
    <2>2. 1 \in DOMAIN pipe /\ pipe[1] = Head(pipe) /\ DOMAIN pipe = 1 .. Len(pipe)
          /\ Len(pipe) \in Nat
      BY <1>1 DEF Types
    <2>3. i < 1
      BY <1>0, <1>1, <1>3, <2>1, <2>2 DEF Order, PipeOrder
    <2> QED BY <2>2, <2>3
  <1>7. /\ b \in Buffer /\ In(b) = {k} /\ dh \in Buffer /\ slot.dw \in Buffer
        /\ slot.high \in Buffer /\ slot.low \in Buffer /\ In(dh) \subseteq Lying
        /\ In(slot.low) \subseteq Lying
    <2>1. b \in Buffer /\ In(b) = {k}
      <3>1. 0 \in 0 .. Size
        BY SizeAssumption
      <3> QED BY <1>1, <3>1, BytesBuffer, InBytes
    <2>2. dh \in Buffer /\ slot.dw \in Buffer /\ slot.high \in Buffer /\ slot.low \in Buffer
      BY DataLies
    <2>3. In(dh) = In(slot.dw) \union In(slot.high)
      BY <2>2, InParts
    <2> HIDE DEF dh
    <2> QED BY <2>1, <2>2, <2>3 DEF Lying
  <1> HIDE DEF b
  <1>8. CASE freed' = freed \union {k} /\ SameLists(slot, slot')
    <2>1. Data' = Data /\ Lying' = Lying /\ slot'.low = slot.low
      BY <1>8 DEF Data, Lying, SameLists
    <2>2. DataOrder'
      BY <1>1, <1>2, <2>1, DataKept DEF Order
    <2>3. CallOrder'
      BY <1>1, <1>2, <2>1, CallOrderKept DEF Order
    <2> QED BY <1>4, <1>5, <2>2, <2>3 DEF Order
  <1>9. ASSUME NEW a \in Buffer, NEW c \in Buffer, Data = a \o c, Data' = (a \o b) \o c,
               Lying' = Lying \union {k}, In(a) \subseteq Lying,
               \A p \in In(c) : from[p].prio = "low",
               \A p \in In(slot'.low) : from[p].prio = "low"
        PROVE  Order'
    <2>1. ASSUME NEW p \in DOMAIN from, NEW q \in DOMAIN from, Before(p, q)
          PROVE  /\ q \in Lying' => p \notin Piped' /\ Ahead(Data', p, q)
                 /\ q \in In(peer.got) => p \notin Piped' /\ p \notin Lying'
      <3>1. /\ q \in Lying => p \notin Piped /\ Ahead(Data, p, q)
            /\ q \in In(peer.got) => p \notin Piped /\ p \notin Lying
        BY <2>1 DEF Order, DataOrder
      <3>2. p # q
        BY <2>1, HandsTypes DEF Before
      <3>3. CASE q = k
        <4>1. p \notin Piped /\ p # k
          BY <1>6, <2>1, <3>2, <3>3
        <4>2. p \notin In(c) /\ p \notin In(b) /\ q \notin In(a)
          BY <1>3, <1>7, <1>9, <2>1, <3>3, <4>1 DEF Before
        <4>3. Ahead((a \o b) \o c, p, q)
          BY <1>7, <1>9, <4>2, AheadLast
        <4>4. Ahead(Data', p, q)
          BY <1>9, <4>3
        <4> QED BY <1>2, <1>9, <3>1, <4>1, <4>4
      <3>4. CASE q # k
        <4>1. q \in Lying' => q \in Lying
          BY <1>9, <3>4
        <4>2. q \in Lying \/ q \in In(peer.got) => p # k
          BY <1>2, <3>1
        <4>3. q \in Lying => Ahead(Data', p, q)
          <5> SUFFICES ASSUME q \in Lying PROVE Ahead(Data', p, q)
            OBVIOUS
          <5>1. Ahead(a \o c, p, q)
            BY <1>9, <3>1
          <5>2. p \notin In(b) /\ q \notin In(b)
            BY <1>7, <3>4, <4>2
          <5>3. Ahead((a \o b) \o c, p, q)
            BY <1>7, <1>9, <5>1, <5>2, AheadInsert
          <5> QED BY <1>9, <5>3
        <4> QED BY <1>2, <1>9, <3>1, <4>1, <4>2, <4>3
      <3> QED BY <3>3, <3>4
    <2>2. DataOrder'
      <3>1. In(peer.got) \subseteq DOMAIN from /\ peer' = peer /\ from' = from
        BY <1>1 DEF Order, DataOrder
      <3>2. \A p, q \in DOMAIN from : Before(p, q) =>
               /\ q \in Lying' => p \notin Piped' /\ Ahead(Data', p, q)
               /\ q \in In(peer.got) => p \notin Piped' /\ p \notin Lying'
        BY <2>1
      <3>3. \A p, q \in DOMAIN from' : Before(p, q)' =>
               /\ q \in Lying' => p \notin Piped' /\ Ahead(Data', p, q)
               /\ q \in In(peer'.got) => p \notin Piped' /\ p \notin Lying'
        BY <3>1, <3>2 DEF Before
      <3>4. \A p \in In(slot'.low) : from'[p].prio = "low"
        BY <1>9, <3>1
      <3>5. In(peer'.got) \subseteq DOMAIN from'
        BY <3>1
      <3> QED BY <3>3, <3>4, <3>5 DEF DataOrder, Ahead
    <2>3. ASSUME NEW x \in Worker, NEW p \in DOMAIN from, Before(p, call[x].pk)
          PROVE  /\ call[x].at \in {"lists", "flags"} /\ slot.id = call[x].id =>
                       p \notin Piped'
                 /\ call[x].at = "flags" => p \notin Lying'
      <3>1. call[x].at \in {"lists", "flags"} /\ slot.id = call[x].id => p \notin Piped
        BY <2>3 DEF Order, CallOrder
      <3>2. call[x].at = "flags" => p \notin Lying /\ slot.id = call[x].id
        BY <2>3 DEF Order, CallOrder, Locking
      <3> QED BY <1>2, <1>9, <3>1, <3>2
    <2>4. CallOrder'
      BY <1>1, <2>3 DEF CallOrder, Before
    <2> QED BY <1>4, <1>5, <2>2, <2>4 DEF Order
  <1>10. CASE slot'.low = slot.low /\ slot'.high = slot.high \o b
    <2>1. slot.dw \o (slot.high \o b) = dh \o b
      BY <1>7, ConcatAssoc, Zenon
    <2>2. Data = dh \o slot.low /\ Data' = (dh \o b) \o slot.low
      BY <1>1, <1>10, <2>1 DEF Data
    <2>3. Lying' = Lying \union {k}
      <3>1. In(slot.high \o b) = In(slot.high) \union {k}
        BY <1>7, InParts
      <3> QED BY <1>1, <1>10, <3>1 DEF Lying
    <2>4. \A p \in In(slot.low) : from[p].prio = "low"
      BY DEF Order, DataOrder
    <2> HIDE DEF dh
    <2> QED BY <1>7, <1>9, <1>10, <2>2, <2>3, <2>4
  <1>11. CASE slot'.high = slot.high /\ slot'.low = slot.low \o b /\ Head(pipe).cmd = "P"
    <2>1. dh \o (slot.low \o b) = (dh \o slot.low) \o b
      <3> HIDE DEF dh
      <3> QED BY <1>7, ConcatAssoc, Zenon
    <2>2. Data = dh \o slot.low /\ Data' = (dh \o slot.low) \o b
      BY <1>1, <1>11, <2>1 DEF Data
    <2>3. Data \in Buffer /\ In(Data) = Lying /\ Data' = Data \o b
      BY <2>2, DataLies
    <2> DEFINE a == Data
    <2>4. /\ a \in Buffer /\ <<>> \in Buffer /\ a \o <<>> = a
          /\ Data' = (a \o b) \o <<>>
      <3>1. a \o b \in Buffer
        BY <1>7, <2>3, ConcatBuffer
      <3>2. (a \o b) \o <<>> = a \o b
        BY <3>1, EmptyConcat
      <3> QED BY <2>3, <3>2, EmptyBuffer, EmptyConcat
    <2>5. In(slot.low \o b) = In(slot.low) \union {k}
      BY <1>7, InParts
    <2>6. Lying' = Lying \union {k}
      BY <1>1, <1>11, <2>5 DEF Lying
    <2>7. from[k].prio = "low"
      <3>1. 1 \in DOMAIN pipe /\ pipe[1] = Head(pipe)
        BY <1>1 DEF Types
      <3> QED BY <1>0, <1>11, <3>1 DEF Order, PipeOrder
    <2>8. \A p \in In(slot'.low) : from[p].prio = "low"
      BY <1>11, <2>5, <2>7 DEF Order, DataOrder
    <2>9. \A p \in In(<<>>) : from[p].prio = "low"
      BY EmptyBuffer
    <2>10. Data = a \o <<>> /\ In(a) \subseteq Lying
      BY <2>3, <2>4
    <2> HIDE DEF a
    <2> QED BY <1>9, <2>4, <2>6, <2>8, <2>9, <2>10
  <1> QED BY <1>1, <1>8, <1>10, <1>11

\* Buffers are freed or emptied: the order of what is left stays.
LEMMA OrderLess ==
    ASSUME Base, Hands, Loads, Order, from' = from, CalmPipe, call' = call,
           slot'.id = slot.id, Lying' \subseteq Lying,
           \A p, q : Ahead(Data, p, q) => Ahead(Data', p, q),
           In(slot'.low) \subseteq In(slot.low), peer'.got = peer.got
    PROVE  Order'
  <1> USE DEF Base
  <1>1. Piped' = Piped
    BY PipeCalm
  <1>2. Latest'
    BY LatestKept DEF Order, Working
  <1>3. PipeOrder'
    BY PipeOrderCalm DEF Order
  <1>4. DataOrder'
    BY <1>1, DataKept DEF Order
  <1>5. CallOrder'
    BY <1>1, CallOrderKept DEF Order
  <1> QED BY <1>2, <1>3, <1>4, <1>5 DEF Order

\* In an empty buffer everything is in order.
LEMMA EmptyAhead == \A p, q : Ahead(<<>>, p, q)
  BY DEF Ahead

\* force_close up to the lock keeps the order.
LEMMA OrderDrop ==
    ASSUME Base, Hands, Loads, Order, Dropping
    PROVE  Order'
  <1> USE DEF Base
  <1>1. /\ CalmPipe /\ UNCHANGED <<peer, call, from>>
        /\ slot'.high = <<>> /\ slot'.low = <<>> /\ slot'.dw = slot.dw /\ slot'.id = slot.id
    BY DropEffect DEF SameConn
  <1> DEFINE o == slot.high \o slot.low
  <1>2. /\ slot.dw \in Buffer /\ slot.high \in Buffer /\ slot.low \in Buffer /\ o \in Buffer
    BY DataLies, ConcatBuffer
  <1>3. Data = slot.dw \o o
    BY <1>2, ConcatAssoc DEF Data
  <1>4. Data' = slot.dw
    <2>1. slot.dw \o <<>> = slot.dw
      BY <1>2, EmptyConcat
    <2> QED BY <1>1, <2>1 DEF Data
  <1> HIDE DEF o
  <1>5. \A p, q : Ahead(Data, p, q) => Ahead(Data', p, q)
    BY <1>2, <1>3, <1>4, AheadFirst
  <1>6. Lying' \subseteq Lying /\ In(slot'.low) \subseteq In(slot.low)
    BY <1>1, EmptyBuffer DEF Lying
  <1> QED BY <1>1, <1>5, <1>6, OrderLess

\* force_close from the lock on keeps the order.
LEMMA OrderEnd ==
    ASSUME Base, Hands, Loads, Order, EndClose
    PROVE  Order'
  <1> USE DEF Base
  <1>1. /\ UNCHANGED <<pipe, peer, call, from>> /\ slot'.id = slot.id
        /\ slot'.high = <<>> /\ slot'.low = <<>> /\ slot'.dw = <<>>
    BY EndEffect
  <1>2. Data' = <<>> /\ Lying' = {} /\ In(slot'.low) = {}
    BY <1>1, EmptyBuffer, EmptyConcat DEF Data, Lying
  <1>3. \A p, q : Ahead(Data', p, q)
    BY <1>2, EmptyAhead
  <1> QED BY <1>1, <1>2, <1>3, OrderLess DEF CalmPipe

\* send_buffer that fails keeps the order.
LEMMA OrderFail ==
    ASSUME Base, Hands, Loads, Order, Failing
    PROVE  Order'
  <1> USE DEF Base
  <1>1. /\ UNCHANGED <<pipe, call, from>> /\ peer'.got = peer.got
        /\ slot'.dw = <<>> /\ slot'.id = slot.id
        /\ \/ /\ slot'.high = <<>> /\ slot'.low = <<>>
           \/ /\ slot'.high = slot.dw \o slot.high /\ slot'.low = slot.low
    BY FailEffect
  <1>2. CASE slot'.high = <<>> /\ slot'.low = <<>>
    <2>1. Data' = <<>> /\ Lying' = {} /\ In(slot'.low) = {}
      BY <1>1, <1>2, EmptyBuffer, EmptyConcat DEF Data, Lying
    <2>2. \A p, q : Ahead(Data', p, q)
      BY <2>1, EmptyAhead
    <2> QED BY <1>1, <2>1, <2>2, OrderLess DEF CalmPipe
  <1>3. CASE slot'.high = slot.dw \o slot.high /\ slot'.low = slot.low
    <2>1. /\ <<>> \o (slot.dw \o slot.high) = slot.dw \o slot.high
          /\ In(slot.dw \o slot.high) = In(slot.dw) \union In(slot.high)
      BY DataLies, EmptyConcat, InParts
    <2>2. Data' = Data /\ Lying' = Lying
      BY <1>1, <1>3, <2>1, EmptyBuffer DEF Data, Lying
    <2> QED BY <1>1, <1>3, <2>2, OrderLess DEF CalmPipe
  <1> QED BY <1>1, <1>2, <1>3

\* What is written goes in the order in which it waits.
LEMMA OrderWrite ==
    ASSUME Base, Types', Hands, Loads, Order, Writing
    PROVE  Order'
  <1> USE DEF Base
  <1>1. /\ slot.lock = None /\ UNCHANGED <<pipe, call, from>> /\ slot'.id = slot.id
        /\ In(slot'.low) \subseteq In(slot.low)
    BY WriteEffect
  <1>2. PICK n \in Nat :
          /\ n <= Len(Data) /\ peer'.got = peer.got \o SubSeq(Data, 1, n)
          /\ Data' = SubSeq(Data, n + 1, Len(Data))
    BY WriteEffect
  <1> DEFINE h == SubSeq(Data, 1, n)
  <1>3. Data \in Buffer /\ In(Data) = Lying /\ In(Data') = Lying' /\ peer.got \in Buffer
    BY DataLies, DataLiesNext DEF Types, PeerRec
  <1>4. h \in Buffer /\ In(Data) = In(h) \union In(Data')
    BY <1>2, <1>3, SplitBuffer
  <1>5. In(peer.got \o h) = In(peer.got) \union In(h)
    BY <1>3, <1>4, InParts
  <1>6. \A p, q : Ahead(Data, p, q) =>
          Ahead(Data', p, q) /\ (q \in In(h) => p \notin In(Data'))
    BY <1>2, <1>3, AheadSuffix
  <1>7. peer'.got = peer.got \o h
    BY <1>2
  <1> HIDE DEF h
  <1>8. Piped' = Piped /\ PipeOrder'
    BY <1>1, PipeStays, PipeOrderCalm DEF Order, CalmPipe
  <1>9. Latest'
    BY <1>1, LatestKept DEF Order, Working
  <1>10. Lying' \subseteq Lying /\ In(h) \subseteq Lying
    BY <1>3, <1>4
  <1>11. CallOrder'
    BY <1>1, <1>8, <1>10, CallOrderKept DEF Order
  <1>12. DataOrder'
    <2>1. ASSUME NEW p \in DOMAIN from, NEW q \in DOMAIN from, Before(p, q)
          PROVE  /\ q \in Lying' => p \notin Piped' /\ Ahead(Data', p, q)
                 /\ q \in In(peer'.got) => p \notin Piped' /\ p \notin Lying'
      <3>1. /\ q \in Lying => p \notin Piped /\ Ahead(Data, p, q)
            /\ q \in In(peer.got) => p \notin Piped /\ p \notin Lying
        BY <2>1 DEF Order, DataOrder
      <3>2. q \in Lying' => p \notin Piped' /\ Ahead(Data', p, q)
        BY <1>6, <1>8, <1>10, <3>1
      <3>3. q \in In(h) => p \notin Piped' /\ p \notin Lying'
        BY <1>3, <1>6, <1>8, <1>10, <3>1
      <3> QED BY <1>5, <1>7, <1>8, <1>10, <3>1, <3>2, <3>3
    <2>2. \A p \in In(slot'.low) : from[p].prio = "low"
      BY <1>1 DEF Order, DataOrder
    <2>3. In(peer'.got) \subseteq DOMAIN from
      BY <1>5, <1>7, <1>10, HandsTypes DEF Order, DataOrder
    <2> QED BY <1>1, <2>1, <2>2, <2>3 DEF DataOrder, Before, Ahead
  <1> QED BY <1>8, <1>9, <1>11, <1>12 DEF Order

\* Nothing was sent yet.
LEMMA OrderInit == Init => Order
  <1> SUFFICES ASSUME Init PROVE Order
    OBVIOUS
  <1>1. /\ from = <<>> /\ pipe = <<>> /\ slot.low = <<>> /\ peer.got = <<>>
        /\ \A w \in Worker : call[w].at = "idle"
    BY DEF Init, NewPeer, Idle
  <1>2. In(slot.low) = {} /\ In(peer.got) = {} /\ DOMAIN from = {}
    BY <1>1, EmptyBuffer
  <1> QED BY <1>1, <1>2 DEF Order, Latest, PipeOrder, DataOrder, CallOrder, Working

\* Every step keeps the order.
LEMMA OrderNext ==
    ASSUME Base, Base', Hands, Loads, Count, Order, [Next]_vars
    PROVE  Order'
  <1>0. Types'
    BY DEF Base
  <1>1. CASE Calm
    BY <1>1, OrderCalm
  <1>2. CASE Moving
    BY <1>0, <1>2, OrderBegin, OrderDirect, OrderQueue, OrderList, OrderDrop, OrderEnd,
       OrderWrite, OrderFail DEF Moving
  <1> QED BY <1>1, <1>2, StepMoves

\* What one service sends to a connection after a high priority package never
\* gets ahead of it, whether a package is written directly by the worker or
\* goes through the pipe and the lists (socket_server.c, can_direct_write,
\* socket_server_send, send_socket, send_buffer_).
THEOREM InOrderHolds == Spec => []InOrder
  <1>1. Init => Order
    BY OrderInit
  <1>2. SendInv /\ Order /\ SendInv' /\ [Next]_vars => Order'
    BY OrderNext DEF SendInv
  <1>3. SendInv /\ Order => InOrder
    <2> SUFFICES ASSUME SendInv, Order, NEW p \in DOMAIN from, NEW q \in DOMAIN from,
                        Before(p, q), q \in In(peer.got)
                 PROVE  p \in done \union freed
      BY DEF InOrder, Before
    <2>1. p \notin Piped /\ p \notin Lying
      BY DEF Order, DataOrder
    <2>2. p \notin Called
      BY LastCalled DEF SendInv, Order
    <2> QED BY <2>1, <2>2 DEF SendInv, Hands
  <1> QED BY <1>1, <1>2, <1>3, SpecSendInv, PTL DEF Spec
=============================================================================
