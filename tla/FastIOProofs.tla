---------------------------- MODULE FastIOProofs ----------------------------
(***************************************************************************)
(* FastIO writes what it was asked to, in order, when copy_file_range does *)
(* not misbehave.  Every operator of the output buffer is shown to keep    *)
(* Out, the bytes on their way, or to add to it the bytes it was given.    *)
(***************************************************************************)
EXTENDS FastIO, SequenceTheorems, TLAPS

\* A buffer that no error has struck and whose range is inside the input.
Sound(b) ==
  /\ b \in Buffer /\ b.ok
  /\ b.from <= b.to /\ b.to <= Len(data)
  /\ Len(b.buf) <= Capacity

\* Everything written, wherever it is.
Out(b) == b.disk \o b.buf \o Waiting(b)

LEMMA Associative ==
  ASSUME NEW s \in Seq(Byte), NEW t \in Seq(Byte), NEW u \in Seq(Byte)
  PROVE  (s \o t) \o u = s \o (t \o u)
OBVIOUS

LEMMA SpanType ==
  ASSUME data \in Seq(Byte), NEW i \in Nat, NEW j \in Nat, i <= j, j <= Len(data)
  PROVE  Span(i, j) \in Seq(Byte) /\ Len(Span(i, j)) = j - i
<1>1. Len(data) \in Nat /\ \A k \in i + 1 .. j : data[k] \in Byte
  BY LenProperties, ElementOfSeq
<1>2. SubSeq(data, i + 1, j) \in Seq(Byte)
      /\ Len(SubSeq(data, i + 1, j)) = IF i + 1 <= j THEN j - (i + 1) + 1 ELSE 0
  BY <1>1, SubSeqProperties
<1>3. QED
  BY <1>2 DEF Span

LEMMA SpanEmpty ==
  ASSUME NEW i \in Nat
  PROVE  Span(i, i) = <<>>
BY SubSeqEmpty DEF Span

\* Adjacent spans join.
LEMMA SpanJoin ==
  ASSUME data \in Seq(Byte), NEW i \in Nat, NEW j \in Nat, NEW k \in Nat,
         i <= j, j <= k, k <= Len(data)
  PROVE  Span(i, j) \o Span(j, k) = Span(i, k)
<1>1. /\ Len(data) \in Nat
      /\ i + 1 \in 1 .. Len(data) + 1
      /\ j \in (i + 1) - 1 .. Len(data)
      /\ k \in j .. Len(data)
  BY LenProperties
<1>2. QED
  BY <1>1, ConcatAdjacentSubSeq DEF Span

\* Three spans, the middle one copied.
LEMMA SpanJoin3 ==
  ASSUME data \in Seq(Byte), NEW i \in Nat, NEW j \in Nat, NEW k \in Nat, NEW l \in Nat,
         i <= j, j <= k, k <= l, l <= Len(data)
  PROVE  Span(i, j) \o Span(j, k) \o Span(k, l) = Span(i, l)
<1>1. Span(i, j) \o Span(j, k) = Span(i, k)
  <2>1. k <= Len(data)
    BY LenProperties
  <2> QED
    BY <2>1, SpanJoin
<1>2. Span(i, k) \o Span(k, l) = Span(i, l)
  <2>1. i <= k
    OBVIOUS
  <2> QED
    BY <2>1, SpanJoin
<1> QED
  BY <1>1, <1>2

\* A remainder is smaller than the divisor and no larger than the number.
LEMMA Remainder ==
  ASSUME NEW m \in Nat, NEW n \in Nat \ {0}
  PROVE  m % n \in Nat /\ m % n < n /\ m % n <= m
<1>1. m % n \in 0 .. n - 1
  OBVIOUS
<1>2. CASE m < n
  BY <1>1, <1>2
<1>3. CASE m >= n
  BY <1>1, <1>3
<1>4. QED
  BY <1>2, <1>3

\* A well-behaved copy_file_range copies the range.
LEMMA CopyRangeExact ==
  ASSUME Faults = {}, NEW i \in Nat, NEW j \in Nat, NEW r \in CopyRange(i, j)
  PROVE  r = [bytes |-> Span(i, j), count |-> j - i, ok |-> TRUE]
BY DEF CopyRange

\* The outcome r wrote the first r.count bytes of the range, all if complete.
Exact(r, i, j, complete) ==
  /\ r.ok = TRUE /\ r.count \in Nat /\ r.count <= j - i
  /\ r.bytes = Span(i, i + r.count)
  /\ complete => r.count = j - i

\* The places where the parts of an aligned copy meet are in their order.
LEMMA AlignedParts ==
  ASSUME NEW i \in Nat, NEW j \in Nat, i <= j, NEW complete \in BOOLEAN
  PROVE  LET head == (Block - (i % Block)) % Block
             start == i + Least(head, j - i)
             end == j - ((j - start) % Block)
             last == IF complete THEN j ELSE end
         IN  /\ start \in Nat /\ i <= start /\ start <= j
             /\ end \in Nat /\ start <= end /\ end <= j
             /\ last \in Nat /\ end <= last /\ last <= j
<1> DEFINE head == (Block - (i % Block)) % Block
           start == i + Least(head, j - i)
           end == j - ((j - start) % Block)
           last == IF complete THEN j ELSE end
<1>0. Block \in Nat \ {0}
  BY SizesAssumption
<1>1. head \in Nat
  <2>1. i % Block \in Nat /\ i % Block < Block
    BY <1>0, Remainder
  <2>2. Block - (i % Block) \in Nat
    BY <1>0, <2>1
  <2> QED
    BY <1>0, <2>2, Remainder
<1>2. start \in Nat /\ i <= start /\ start <= j
  <2> HIDE DEF head
  <2> QED
    BY <1>1 DEF Least
<1>3. end \in Nat /\ start <= end /\ end <= j
  <2> HIDE DEF start
  <2>1. j - start \in Nat
    BY <1>2
  <2>2. (j - start) % Block \in Nat /\ (j - start) % Block <= j - start
    BY <1>0, <2>1, Remainder
  <2> QED
    BY <1>2, <2>2
<1>4. last \in Nat /\ end <= last /\ last <= j
  <2> HIDE DEF end
  <2> QED
    BY <1>3
<1> QED
  BY <1>2, <1>3, <1>4

\* aligned_copy_file_range writes as many bytes from the start of the range as
\* it says, all of them if all are wanted.
LEMMA AlignedCopyExact ==
  ASSUME Faults = {}, data \in Seq(Byte), NEW i \in Nat, NEW j \in Nat, i <= j, j <= Len(data),
         NEW outOff, NEW complete \in BOOLEAN,
         NEW r \in AlignedCopy(i, j, outOff, complete)
  PROVE  Exact(r, i, j, complete)
<1> DEFINE head == (Block - (i % Block)) % Block
           start == i + Least(head, j - i)
           end == j - ((j - start) % Block)
           last == IF complete THEN j ELSE end
<1>1. /\ start \in Nat /\ i <= start /\ start <= j
      /\ end \in Nat /\ start <= end /\ end <= j
      /\ last \in Nat /\ end <= last /\ last <= j
  BY AlignedParts, Zenon
<1>2. CASE (outOff + head) % Block # 0
  <2>1. r \in CopyRange(i, j)
    BY <1>2 DEF AlignedCopy
  <2>2. r = [bytes |-> Span(i, j), count |-> j - i, ok |-> TRUE]
    BY <2>1, CopyRangeExact
  <2>3. i + (j - i) = j
    OBVIOUS
  <2> QED
    BY <2>2, <2>3 DEF Exact
<1>3. CASE (outOff + head) % Block = 0
  <2>1. PICK q \in CopyRange(start, end) :
          r = [bytes |-> Span(i, start) \o q.bytes \o Span(end, last),
               count |-> last - i, ok |-> TRUE]
    BY <1>3 DEF AlignedCopy
  <2> HIDE DEF head, start, end, last
  <2>2. q.bytes = Span(start, end)
    BY <2>1, <1>1, CopyRangeExact
  <2>3. Span(i, start) \o Span(start, end) \o Span(end, last) = Span(i, last)
    <3>1. last <= Len(data)
      BY <1>1, LenProperties
    <3>2. end <= Len(data) /\ i <= end
      BY <1>1, LenProperties
    <3>3. Span(i, start) \o Span(start, end) = Span(i, end)
      BY <1>1, <3>2, SpanJoin, Zenon
    <3>4. Span(i, end) \o Span(end, last) = Span(i, last)
      BY <1>1, <3>1, <3>2, SpanJoin, Zenon
    <3> QED
      BY <3>3, <3>4, Zenon
  <2>4. i + (last - i) = last /\ last - i \in Nat /\ last - i <= j - i
    BY <1>1
  <2>5. complete => last = j
    BY DEF last
  <2> QED
    BY <2>1, <2>2, <2>3, <2>4, <2>5 DEF Exact
<1> QED
  BY <1>2, <1>3

-----------------------------------------------------------------------------
\* BufWriter::write_all adds the bytes to what is in the file and the buffer.
LEMMA PutExact ==
  ASSUME NEW b \in Buffer, Len(b.buf) <= Capacity, NEW bytes \in Seq(Byte)
  PROVE  /\ Put(b, bytes) \in Buffer
         /\ Len(Put(b, bytes).buf) <= Capacity
         /\ Put(b, bytes).disk \o Put(b, bytes).buf = b.disk \o b.buf \o bytes
         /\ \A field \in {"some", "from", "to", "owed", "ok"} :
              Put(b, bytes)[field] = b[field]
<1>0. Capacity \in Nat \ {0}
  BY SizesAssumption
<1>1. b.disk \in Seq(Byte) /\ b.buf \in Seq(Byte)
  BY DEF Buffer
<1>2. /\ b.buf \o bytes \in Seq(Byte)
      /\ Len(b.buf \o bytes) = Len(b.buf) + Len(bytes)
      /\ b.disk \o b.buf \in Seq(Byte)
      /\ b.disk \o b.buf \o bytes \in Seq(Byte)
  BY <1>1, ConcatProperties
<1>3. b.disk \o (b.buf \o bytes) = b.disk \o b.buf \o bytes
  BY <1>1, Associative
<1>4. (b.disk \o b.buf \o bytes) \o <<>> = b.disk \o b.buf \o bytes
  BY <1>2, ConcatEmptySeq
<1>5. <<>> \in Seq(Byte) /\ Len(<<>>) = 0
  BY EmptySeq
<1>6. CASE Len(bytes) >= Capacity
  <2>1. Put(b, bytes) = [b EXCEPT !.disk = @ \o b.buf \o bytes, !.buf = <<>>]
    BY <1>6 DEF Put
  <2> QED
    <3>1. /\ Put(b, bytes) \in Buffer
          /\ Put(b, bytes).disk = b.disk \o b.buf \o bytes /\ Put(b, bytes).buf = <<>>
          /\ \A field \in {"some", "from", "to", "owed", "ok"} :
               Put(b, bytes)[field] = b[field]
      BY <2>1, <1>1, <1>2, <1>5 DEF Buffer
    <3>2. Len(Put(b, bytes).buf) <= Capacity
      BY <1>0, <1>5, <3>1
    <3> QED
      BY <1>4, <3>1, <3>2, Zenon
<1>7. CASE ~(Len(bytes) >= Capacity) /\ Len(b.buf) + Len(bytes) > Capacity
  <2>1. Put(b, bytes) = [b EXCEPT !.disk = @ \o b.buf, !.buf = bytes]
    BY <1>7 DEF Put
  <2>2. Len(bytes) <= Capacity
    BY <1>0, <1>7, LenProperties
  <2> QED
    BY <2>1, <2>2, <1>1, <1>2 DEF Buffer
<1>8. CASE ~(Len(bytes) >= Capacity) /\ ~(Len(b.buf) + Len(bytes) > Capacity)
  <2>1. Put(b, bytes) = [b EXCEPT !.buf = @ \o bytes]
    BY <1>8 DEF Put
  <2>2. Len(b.buf \o bytes) <= Capacity
    BY <1>0, <1>1, <1>2, <1>8, LenProperties
  <2> QED
    BY <2>1, <2>2, <1>1, <1>2, <1>3 DEF Buffer
<1> QED
  BY <1>6, <1>7, <1>8

\* Flushing the BufWriter moves its bytes to the end of the file.
LEMMA DrainedExact ==
  ASSUME data \in Seq(Byte), NEW b, Sound(b)
  PROVE  /\ Sound(Drained(b)) /\ Out(Drained(b)) = Out(b)
         /\ Drained(b).buf = <<>>
         /\ Drained(b).disk = b.disk \o b.buf
         /\ \A field \in {"some", "from", "to", "owed"} : Drained(b)[field] = b[field]
<1>1. b.disk \in Seq(Byte) /\ b.buf \in Seq(Byte) /\ b \in Buffer
  BY DEF Buffer, Sound
<1>2. /\ b.disk \o b.buf \in Seq(Byte) /\ (b.disk \o b.buf) \o <<>> = b.disk \o b.buf
      /\ <<>> \in Seq(Byte) /\ Len(<<>>) = 0
  BY <1>1, ConcatProperties, ConcatEmptySeq, EmptySeq
<1>3. Drained(b) = [b EXCEPT !.disk = b.disk \o b.buf, !.buf = <<>>]
  BY DEF Drained
<1>4. /\ Drained(b) \in Buffer /\ Drained(b).buf = <<>> /\ Drained(b).ok = b.ok
      /\ Drained(b).disk = b.disk \o b.buf
      /\ \A field \in {"some", "from", "to", "owed"} : Drained(b)[field] = b[field]
  BY <1>1, <1>2, <1>3 DEF Buffer
<1>5. Sound(Drained(b))
  BY <1>2, <1>4, SizesAssumption DEF Sound
<1>6. Out(Drained(b)) = Out(b)
  BY <1>2, <1>4 DEF Out, Waiting
<1> QED
  BY <1>4, <1>5, <1>6

\* flush_mmap moves bytes on without losing or repeating one, all of the range
\* if all is wanted.
Moved(f, b) ==
  /\ Sound(f) /\ Out(f) = Out(b)
  /\ f.some = b.some /\ f.to = b.to /\ f.owed = b.owed

LEMMA FlushMmapExact ==
  ASSUME Faults = {}, data \in Seq(Byte), NEW b, Sound(b), NEW complete \in BOOLEAN,
         NEW f \in FlushMmap(b, complete)
  PROVE  Moved(f, b) /\ (complete => f.from = f.to)
<1>1. /\ b \in Buffer /\ b.ok /\ b.disk \in Seq(Byte) /\ b.buf \in Seq(Byte)
      /\ b.from \in Nat /\ b.to \in Nat /\ b.from <= b.to /\ b.to <= Len(data)
      /\ Len(data) \in Nat
  BY LenProperties DEF Buffer, Sound
<1>2. Waiting(b) \in Seq(Byte)
  BY <1>1, SpanType DEF Waiting
<1>3. /\ b.disk \o b.buf \in Seq(Byte) /\ b.disk \o b.buf \o Waiting(b) \in Seq(Byte)
      /\ Out(b) \in Seq(Byte) /\ Out(b) \o <<>> = Out(b)
  BY <1>1, <1>2, ConcatProperties, ConcatEmptySeq DEF Out
<1>4. CASE b.to - b.from < MinDirect
  <2> DEFINE p == Put(b, Waiting(b))
  <2>1. f = [p EXCEPT !.from = b.to]
    BY <1>4 DEF FlushMmap
  <2>2. /\ p \in Buffer /\ Len(p.buf) <= Capacity
        /\ p.disk \o p.buf = b.disk \o b.buf \o Waiting(b)
        /\ p.some = b.some /\ p.to = b.to /\ p.owed = b.owed /\ p.ok = b.ok
    BY <1>1, <1>2, PutExact DEF Sound
  <2> HIDE DEF p
  <2>3. /\ f \in Buffer /\ f.disk = p.disk /\ f.buf = p.buf /\ f.from = b.to /\ f.to = b.to
        /\ f.some = b.some /\ f.owed = b.owed /\ f.ok
    BY <1>1, <2>1, <2>2 DEF Buffer
  <2>4. Waiting(f) = <<>>
    BY <1>1, <2>3, SpanEmpty DEF Waiting
  <2>5. Out(f) = Out(b)
    BY <1>3, <2>2, <2>3, <2>4 DEF Out
  <2> QED
    BY <1>1, <2>2, <2>3, <2>5 DEF Sound, Moved
<1>5. CASE ~(b.to - b.from < MinDirect) /\ regular
  <2> DEFINE d == Drained(b)
  <2>1. PICK r \in AlignedCopy(b.from, b.to, Len(b.disk) + Len(b.buf), complete) :
          f = [d EXCEPT !.disk = @ \o r.bytes, !.from = @ + r.count, !.ok = r.ok]
    BY <1>5 DEF FlushMmap
  <2>2. Exact(r, b.from, b.to, complete)
    BY <1>1, <2>1, AlignedCopyExact, Zenon
  <2>3. /\ r.ok = TRUE /\ r.count \in Nat /\ r.count <= b.to - b.from
        /\ r.bytes = Span(b.from, b.from + r.count)
        /\ complete => r.count = b.to - b.from
    BY <2>2 DEF Exact
  <2>4. /\ d \in Buffer /\ Len(d.buf) <= Capacity /\ d.buf = <<>>
        /\ d.disk = b.disk \o b.buf /\ d.from = b.from
        /\ d.some = b.some /\ d.to = b.to /\ d.owed = b.owed
    BY DrainedExact DEF Sound
  <2> HIDE DEF d
  <2>5. b.from + r.count \in Nat /\ b.from + r.count <= b.to /\ b.from <= b.from + r.count
        /\ b.from + r.count <= Len(data)
    BY <1>1, <2>3
  <2>6. r.bytes \in Seq(Byte)
    BY <1>1, <2>3, <2>5, SpanType
  <2>7. (b.disk \o b.buf) \o r.bytes \in Seq(Byte)
    BY <1>3, <2>6, ConcatProperties
  <2>8. /\ f \in Buffer /\ f.disk = b.disk \o b.buf \o r.bytes /\ f.buf = <<>>
        /\ f.from = b.from + r.count /\ f.to = b.to
        /\ f.some = b.some /\ f.owed = b.owed /\ f.ok /\ Len(f.buf) <= Capacity
    BY <2>1, <2>3, <2>4, <2>5, <2>7 DEF Buffer
  <2>9. Out(f) = Out(b)
    <3>1. Waiting(f) = Span(b.from + r.count, b.to) /\ Waiting(f) \in Seq(Byte)
      BY <1>1, <2>5, <2>8, SpanType DEF Waiting
    <3>2. r.bytes \o Waiting(f) = Waiting(b)
      <4>1. Span(b.from, b.from + r.count) \o Span(b.from + r.count, b.to) = Span(b.from, b.to)
        BY <1>1, <2>5, SpanJoin, Zenon
      <4> QED
        BY <2>3, <3>1, <4>1, Zenon DEF Waiting
    <3>3. (b.disk \o b.buf \o r.bytes) \o <<>> = b.disk \o b.buf \o r.bytes
      BY <2>7, ConcatEmptySeq
    <3>4. ((b.disk \o b.buf) \o r.bytes) \o Waiting(f)
            = (b.disk \o b.buf) \o (r.bytes \o Waiting(f))
      <4> DEFINE s == b.disk \o b.buf
                 t == r.bytes
                 u == Waiting(f)
      <4>1. s \in Seq(Byte) /\ t \in Seq(Byte) /\ u \in Seq(Byte)
        BY <1>3, <2>6, <3>1, Zenon
      <4> HIDE DEF s, t, u
      <4>2. (s \o t) \o u = s \o (t \o u)
        BY <4>1
      <4> QED
        BY <4>2 DEF s, t, u
    <3> QED
      BY <2>8, <3>2, <3>3, <3>4 DEF Out
  <2>10. complete => f.from = f.to
    BY <1>1, <2>3, <2>8
  <2> QED
    BY <1>1, <2>5, <2>8, <2>9, <2>10 DEF Sound, Moved
<1>6. CASE ~(b.to - b.from < MinDirect) /\ ~regular
  <2> DEFINE d == Drained(b)
  <2>1. f = [d EXCEPT !.disk = @ \o Waiting(b), !.from = b.to]
    BY <1>6 DEF FlushMmap
  <2>2. /\ d \in Buffer /\ d.ok /\ Len(d.buf) <= Capacity /\ d.buf = <<>>
        /\ d.disk = b.disk \o b.buf
        /\ d.some = b.some /\ d.to = b.to /\ d.owed = b.owed
    BY DrainedExact DEF Sound
  <2> HIDE DEF d
  <2>3. /\ f \in Buffer /\ f.disk = b.disk \o b.buf \o Waiting(b) /\ f.buf = <<>>
        /\ f.from = b.to /\ f.to = b.to
        /\ f.some = b.some /\ f.owed = b.owed /\ f.ok /\ Len(f.buf) <= Capacity
    BY <1>1, <1>3, <2>1, <2>2 DEF Buffer
  <2>4. Waiting(f) = <<>>
    BY <1>1, <2>3, SpanEmpty DEF Waiting
  <2>5. Out(f) = Out(b)
    BY <1>3, <2>3, <2>4 DEF Out
  <2> QED
    BY <1>1, <2>3, <2>5 DEF Sound, Moved
<1> QED
  BY <1>4, <1>5, <1>6

\* All of the range is flushed, which is how most calls begin.
LEMMA FlushAll ==
  ASSUME Faults = {}, data \in Seq(Byte), NEW b, Sound(b), NEW f \in FlushMmap(b, TRUE)
  PROVE  Moved(f, b) /\ f.from = f.to
<1>1. TRUE \in BOOLEAN
  OBVIOUS
<1>2. Moved(f, b) /\ (TRUE => f.from = f.to)
  BY <1>1, FlushMmapExact, Zenon
<1> QED
  BY <1>2, Zenon

\* What Out is when nothing waits in the mapping.
LEMMA OutUnmapped ==
  ASSUME data \in Seq(Byte), NEW b, Sound(b), b.from = b.to
  PROVE  Out(b) = b.disk \o b.buf
<1>1. /\ b.disk \in Seq(Byte) /\ b.buf \in Seq(Byte) /\ b.from \in Nat
  BY DEF Sound, Buffer
<1>2. Waiting(b) = <<>>
  <2>1. Span(b.from, b.from) = <<>>
    BY <1>1, SpanEmpty, Zenon
  <2> QED
    BY <2>1, Zenon DEF Waiting
<1>3. (b.disk \o b.buf) \o <<>> = b.disk \o b.buf
  <2>1. b.disk \o b.buf \in Seq(Byte)
    BY <1>1
  <2> QED
    BY <2>1, ConcatEmptySeq, Zenon
<1> QED
  BY <1>2, <1>3, Zenon DEF Out

\* Bytes put behind what was written, when nothing waits in the mapping.
Added(p, b, bytes) ==
  /\ Sound(p) /\ Out(p) = Out(b) \o bytes
  /\ p.some = b.some /\ p.from = p.to /\ p.to = b.to

LEMMA PutAdds ==
  ASSUME data \in Seq(Byte), NEW b, Sound(b), b.from = b.to, NEW bytes \in Seq(Byte)
  PROVE  Added(Put(b, bytes), b, bytes) /\ Put(b, bytes).owed = b.owed
<1> DEFINE p == Put(b, bytes)
<1>1. b \in Buffer /\ Len(b.buf) <= Capacity /\ b.ok = TRUE /\ b.to \in Nat /\ b.to <= Len(data)
  BY DEF Sound, Buffer
<1>2. /\ p \in Buffer /\ Len(p.buf) <= Capacity
      /\ p.disk \o p.buf = b.disk \o b.buf \o bytes
      /\ p.some = b.some /\ p.from = b.from /\ p.to = b.to /\ p.owed = b.owed /\ p.ok = b.ok
  BY <1>1, PutExact
<1> HIDE DEF p
<1>3. Sound(p) /\ p.from = p.to
  BY <1>1, <1>2 DEF Sound
<1>4. Out(p) = p.disk \o p.buf /\ Out(b) = b.disk \o b.buf
  BY <1>3, OutUnmapped, Zenon
<1> QED
  BY <1>2, <1>3, <1>4, Zenon DEF Added, p

\* Whether a newline is owed does not change what was written.
LEMMA OwedIsApart ==
  ASSUME NEW b, NEW p, NEW bytes, Added(p, b, bytes), NEW x \in BOOLEAN
  PROVE  Added([p EXCEPT !.owed = x], b, bytes) /\ [p EXCEPT !.owed = x].owed = x
<1> DEFINE f == [p EXCEPT !.owed = x]
<1>1. Sound(p) /\ p \in Buffer
  BY DEF Added, Sound
<1>2. /\ f \in Buffer /\ f.disk = p.disk /\ f.buf = p.buf /\ f.from = p.from /\ f.to = p.to
      /\ f.some = p.some /\ f.owed = x /\ f.ok = p.ok
  BY <1>1 DEF Buffer
<1> HIDE DEF f
<1>3. Sound(f)
  BY <1>1, <1>2 DEF Sound
<1>4. Out(f) = Out(p)
  BY <1>2, Zenon DEF Out, Waiting
<1>5. Added(f, b, bytes)
  BY <1>2, <1>3, <1>4, Zenon DEF Added
<1> QED
  BY <1>2, <1>5, Zenon DEF f

\* The newline, if there is one.
EndOf(nl) == IF nl THEN <<Newline>> ELSE <<>>

LEMMA EndType ==
  ASSUME NEW nl \in BOOLEAN
  PROVE  EndOf(nl) \in Seq(Byte)
BY BytesAssumption DEF EndOf

\* The owed newline is written, once.
Settled(f, b) ==
  /\ Sound(f) /\ Out(f) = Out(b) \o EndOf(b.owed)
  /\ f.owed = FALSE /\ f.some = b.some /\ f.to = b.to

LEMMA SettleExact ==
  ASSUME Faults = {}, data \in Seq(Byte), NEW b, Sound(b), NEW f \in Settle(b)
  PROVE  Settled(f, b)
<1>1. CASE b.owed = FALSE
  <2>1. f = b
    BY <1>1 DEF Settle
  <2>2. b.disk \in Seq(Byte) /\ b.buf \in Seq(Byte) /\ Waiting(b) \in Seq(Byte)
    <3>1. b.from \in Nat /\ b.to \in Nat /\ b.from <= b.to /\ b.to <= Len(data)
      BY DEF Sound, Buffer
    <3>2. Span(b.from, b.to) \in Seq(Byte)
      BY <3>1, SpanType, Zenon
    <3> QED
      BY <3>2 DEF Sound, Buffer, Waiting
  <2>3. Out(b) \in Seq(Byte)
    BY <2>2, ConcatProperties DEF Out
  <2>4. Out(b) \o <<>> = Out(b)
    BY <2>3, ConcatEmptySeq, Zenon
  <2>5. EndOf(b.owed) = <<>>
    BY <1>1 DEF EndOf
  <2> QED
    BY <1>1, <2>1, <2>4, <2>5, Zenon DEF Settled
<1>2. CASE b.owed = TRUE
  <2>1. PICK g \in FlushMmap(b, TRUE) :
          f = IF g.ok THEN [Put(g, <<Newline>>) EXCEPT !.owed = FALSE] ELSE g
    BY <1>2 DEF Settle
  <2>2. Moved(g, b) /\ g.from = g.to
    BY FlushAll, Zenon
  <2>3. Sound(g) /\ g.ok = TRUE /\ Out(g) = Out(b) /\ g.some = b.some /\ g.to = b.to
    BY <2>2 DEF Moved, Sound, Buffer
  <2>4. <<Newline>> \in Seq(Byte)
    BY BytesAssumption
  <2>5. Added(Put(g, <<Newline>>), g, <<Newline>>)
    BY <2>2, <2>3, <2>4, PutAdds, Zenon
  <2>6. f = [Put(g, <<Newline>>) EXCEPT !.owed = FALSE]
    BY <2>1, <2>3
  <2>7. Added(f, g, <<Newline>>) /\ f.owed = FALSE
    <3>1. FALSE \in BOOLEAN
      OBVIOUS
    <3> QED
      BY <2>5, <2>6, <3>1, OwedIsApart, Zenon
  <2>8. EndOf(b.owed) = <<Newline>>
    BY <1>2 DEF EndOf
  <2> QED
    BY <2>3, <2>7, <2>8, Zenon DEF Settled, Added
<1> QED
  <2>1. b.owed \in BOOLEAN
    BY DEF Sound, Buffer
  <2> QED
    BY <1>1, <1>2, <2>1

\* The bytes on their way are bytes.
LEMMA OutType ==
  ASSUME data \in Seq(Byte), NEW b, Sound(b)
  PROVE  /\ b.disk \in Seq(Byte) /\ b.buf \in Seq(Byte) /\ Waiting(b) \in Seq(Byte)
         /\ b.disk \o b.buf \in Seq(Byte) /\ Out(b) \in Seq(Byte)
<1>1. b.from \in Nat /\ b.to \in Nat /\ b.from <= b.to /\ b.to <= Len(data)
  BY DEF Sound, Buffer
<1>2. Span(b.from, b.to) \in Seq(Byte)
  BY <1>1, SpanType, Zenon
<1>3. b.disk \in Seq(Byte) /\ b.buf \in Seq(Byte) /\ Waiting(b) \in Seq(Byte)
  BY <1>2 DEF Sound, Buffer, Waiting
<1> QED
  BY <1>3, ConcatProperties DEF Out

\* write_chunk of Owned adds the chunk.
LEMMA AddOwnedExact ==
  ASSUME Faults = {}, data \in Seq(Byte), NEW b, Sound(b),
         NEW content \in Seq(Byte), NEW nl \in BOOLEAN, NEW f \in AddOwned(b, content, nl)
  PROVE  Sound(f) /\ Out(f) = (Out(b) \o content) \o EndOf(nl) /\ f.from = f.to /\ f.to = b.to
<1>1. PICK g \in FlushMmap(b, TRUE) :
        f = IF g.ok THEN [Put(Put(g, content), EndOf(nl)) EXCEPT !.owed = ~nl] ELSE g
  BY Zenon DEF AddOwned, EndOf
<1>2. Moved(g, b) /\ g.from = g.to
  BY FlushAll, Zenon
<1>3. Sound(g) /\ g.ok = TRUE /\ Out(g) = Out(b) /\ g.to = b.to
  BY <1>2 DEF Moved, Sound, Buffer
<1> DEFINE p == Put(g, content)
           q == Put(p, EndOf(nl))
<1>4. Added(p, g, content)
  BY <1>2, <1>3, PutAdds, Zenon
<1> HIDE DEF p
<1>5. Sound(p) /\ p.from = p.to /\ p.to = g.to /\ Out(p) = Out(g) \o content
  BY <1>4, Zenon DEF Added
<1>6. Added(q, p, EndOf(nl))
  BY <1>5, EndType, PutAdds, Zenon
<1> HIDE DEF q
<1>7. f = [q EXCEPT !.owed = ~nl]
  BY <1>1, <1>3 DEF q, p
<1>8. Added(f, p, EndOf(nl))
  <2>1. (~nl) \in BOOLEAN
    OBVIOUS
  <2> QED
    BY <1>6, <1>7, <2>1, OwedIsApart, Zenon
<1> QED
  BY <1>3, <1>5, <1>8, Zenon DEF Added

\* write_chunk of MmapInput adds the range.
Grown(f, b, i, j) == Sound(f) /\ Out(f) = Out(b) \o Span(i, j) /\ f.to = j

LEMMA AddMappedExact ==
  ASSUME Faults = {}, data \in Seq(Byte), NEW b, Sound(b),
         NEW i \in Nat, NEW j \in Nat, i <= j, j <= Len(data), NEW f \in AddMapped(b, i, j)
  PROVE  Grown(f, b, i, j)
<1> DEFINE owed == data[j] # Newline
<1>1. /\ b \in Buffer /\ b.from \in Nat /\ b.to \in Nat /\ b.from <= b.to
      /\ Len(b.buf) <= Capacity /\ b.ok = TRUE
  BY DEF Sound, Buffer
<1>2. owed \in BOOLEAN
  OBVIOUS
<1>3. Span(i, j) \in Seq(Byte)
  BY SpanType, Zenon
<1>4. CASE b.some = TRUE /\ b.to = i
  <2> DEFINE joined == [b EXCEPT !.to = j, !.owed = owed]
  <2>1. f \in IF j - b.from > MaxPending THEN FlushMmap(joined, FALSE) ELSE {joined}
    BY <1>4 DEF AddMapped
  <2> HIDE DEF owed
  <2>2. /\ joined \in Buffer /\ joined.disk = b.disk /\ joined.buf = b.buf
        /\ joined.from = b.from /\ joined.to = j /\ joined.ok = TRUE
    BY <1>1, <1>2 DEF Buffer
  <2> HIDE DEF joined
  <2>3. Sound(joined)
    BY <1>1, <1>4, <2>2 DEF Sound
  <2>4. Waiting(joined) = Waiting(b) \o Span(i, j)
    <3>1. Span(b.from, i) \o Span(i, j) = Span(b.from, j)
      BY <1>1, <1>4, SpanJoin, Zenon
    <3> QED
      BY <1>4, <2>2, <3>1, Zenon DEF Waiting
  <2>5. Out(joined) = Out(b) \o Span(i, j)
    <3> DEFINE s == b.disk \o b.buf
               t == Waiting(b)
               u == Span(i, j)
    <3>1. s \in Seq(Byte) /\ t \in Seq(Byte) /\ u \in Seq(Byte)
      BY <1>3, OutType, Zenon
    <3> HIDE DEF s, t, u
    <3>2. (s \o t) \o u = s \o (t \o u)
      BY <3>1
    <3> QED
      BY <2>2, <2>4, <3>2, Zenon DEF Out, s, t, u
  <2>6. CASE j - b.from > MaxPending
    <3>1. f \in FlushMmap(joined, FALSE)
      BY <2>1, <2>6
    <3>2. FALSE \in BOOLEAN
      OBVIOUS
    <3>3. Moved(f, joined)
      BY <2>3, <3>1, <3>2, FlushMmapExact, Zenon
    <3> QED
      BY <2>2, <2>5, <3>3, Zenon DEF Moved, Grown
  <2>7. CASE ~(j - b.from > MaxPending)
    <3>1. f = joined
      BY <2>1, <2>7
    <3> QED
      BY <2>2, <2>3, <2>5, <3>1, Zenon DEF Grown
  <2> QED
    BY <2>6, <2>7
<1>5. CASE ~(b.some = TRUE /\ b.to = i)
  <2>1. PICK g \in FlushMmap(b, TRUE) :
          f = IF g.ok THEN [g EXCEPT !.some = TRUE, !.from = i, !.to = j, !.owed = owed] ELSE g
    <3>1. b.some \in BOOLEAN
      BY <1>1 DEF Buffer
    <3> QED
      BY <1>5, <3>1 DEF AddMapped
  <2>2. Moved(g, b) /\ g.from = g.to
    BY FlushAll, Zenon
  <2>3. Sound(g) /\ g.ok = TRUE /\ Out(g) = Out(b) /\ g \in Buffer /\ Len(g.buf) <= Capacity
    BY <2>2 DEF Moved, Sound, Buffer
  <2>4. Out(b) = g.disk \o g.buf
    BY <2>2, <2>3, OutUnmapped, Zenon
  <2>5. f = [g EXCEPT !.some = TRUE, !.from = i, !.to = j, !.owed = owed]
    BY <2>1, <2>3
  <2> HIDE DEF owed
  <2>6. /\ f \in Buffer /\ f.disk = g.disk /\ f.buf = g.buf
        /\ f.from = i /\ f.to = j /\ f.ok = TRUE
    BY <1>2, <2>3, <2>5 DEF Buffer
  <2>7. Sound(f)
    BY <2>3, <2>6 DEF Sound
  <2>8. Out(f) = Out(b) \o Span(i, j)
    BY <2>4, <2>6, Zenon DEF Out, Waiting
  <2> QED
    BY <2>6, <2>7, <2>8, Zenon DEF Grown
<1> QED
  BY <1>4, <1>5

\* A flush leaves everything in the file.
LEMMA FlushedExact ==
  ASSUME Faults = {}, data \in Seq(Byte), NEW b, Sound(b), NEW f \in Flushed(b)
  PROVE  Sound(f) /\ Out(f) = Out(b) /\ f.from = f.to /\ f.to = b.to /\ f.disk = Out(b)
<1>1. PICK g \in FlushMmap(b, TRUE) : f = IF g.ok THEN Drained(g) ELSE g
  BY Zenon DEF Flushed
<1>2. Moved(g, b) /\ g.from = g.to
  BY FlushAll, Zenon
<1>3. Sound(g) /\ g.ok = TRUE /\ Out(g) = Out(b) /\ g.to = b.to
  BY <1>2 DEF Moved, Sound, Buffer
<1>4. f = Drained(g)
  BY <1>1, <1>3
<1>5. /\ Sound(f) /\ Out(f) = Out(g) /\ f.disk = g.disk \o g.buf
      /\ \A field \in {"some", "from", "to", "owed"} : f[field] = g[field]
  BY <1>3, <1>4, DrainedExact, Zenon
<1>6. Out(g) = g.disk \o g.buf
  BY <1>2, <1>3, OutUnmapped, Zenon
<1>7. f.from = g.from /\ f.to = g.to
  BY <1>5
<1> QED
  BY <1>2, <1>3, <1>5, <1>6, <1>7, Zenon
-----------------------------------------------------------------------------
\* The file holds the beginning of what was promised: DiskIsPrefix, said with
\* the bytes that are not yet in it.
Beginning == \E rest \in Seq(Byte) : buffer.disk \o rest = promised

\* The inductive invariant.
IInv == TypeOK /\ OutputInOrder /\ Beginning /\ AllWritten

\* While no write has failed the buffer is sound and holds what was promised.
LEMMA SoundBuffer ==
  ASSUME IInv, pc # "failed"
  PROVE  Sound(buffer) /\ Out(buffer) = promised /\ data \in Seq(Byte) /\ buffer.to <= pos
<1>1. Len(data) \in Nat
  BY LenProperties DEF IInv, TypeOK
<1>2. buffer.from \in Nat /\ buffer.to \in Nat /\ pos \in Nat /\ buffer.ok = TRUE
  BY DEF IInv, TypeOK, Buffer
<1>3. /\ buffer \in Buffer /\ data \in Seq(Byte) /\ pos <= Len(data)
      /\ buffer.from <= buffer.to /\ buffer.to <= pos /\ Len(buffer.buf) <= Capacity
  BY DEF IInv, TypeOK
<1>4. Sound(buffer)
  BY <1>1, <1>2, <1>3 DEF Sound
<1>5. Out(buffer) = promised
  BY <1>2, Zenon DEF IInv, OutputInOrder, Out
<1> QED
  BY <1>3, <1>4, <1>5

\* What a sound buffer holds begins with what is in the file.
LEMMA SoundBegins ==
  ASSUME data \in Seq(Byte), NEW b, Sound(b)
  PROVE  b.buf \o Waiting(b) \in Seq(Byte) /\ b.disk \o (b.buf \o Waiting(b)) = Out(b)
<1> DEFINE s == b.disk
           t == b.buf
           u == Waiting(b)
<1>1. s \in Seq(Byte) /\ t \in Seq(Byte) /\ u \in Seq(Byte)
  BY OutType, Zenon
<1> HIDE DEF s, t, u
<1>2. (s \o t) \o u = s \o (t \o u) /\ t \o u \in Seq(Byte)
  BY <1>1
<1> QED
  BY <1>2, Zenon DEF Out, s, t, u

\* What holds of a buffer and promised holds of them in the next state.
LEMMA NextBuffer ==
  ASSUME data \in Seq(Byte), data' = data, Sound(buffer'), Out(buffer') = promised',
         promised' \in Seq(Byte)
  PROVE  OutputInOrder' /\ Beginning' /\ buffer' \in Buffer /\ buffer'.ok = TRUE
<1>1. Out(buffer') = buffer'.disk \o buffer'.buf \o Waiting(buffer')
  BY Zenon DEF Out
<1>2. Waiting(buffer)' = Waiting(buffer')
  BY DEF Waiting, Span
<1>3. OutputInOrder'
  BY <1>1, <1>2, Zenon DEF OutputInOrder
<1>4. /\ buffer'.buf \o Waiting(buffer') \in Seq(Byte)
      /\ buffer'.disk \o (buffer'.buf \o Waiting(buffer')) = promised'
  BY SoundBegins, Zenon
<1>5. Beginning'
  BY <1>4, Zenon DEF Beginning
<1>6. buffer' \in Buffer /\ buffer'.ok = TRUE
  BY DEF Sound, Buffer
<1> QED
  BY <1>3, <1>5, <1>6

\* A call of the buffer that adds the bytes it says keeps the invariant.
LEMMA CallKeeps ==
  ASSUME IInv, NEW outcomes, NEW bytes \in Seq(Byte), Call(outcomes, bytes),
         \A f \in outcomes : Sound(f) /\ Out(f) = Out(buffer) \o bytes /\ f.to <= pos
  PROVE  IInv'
<1>1. /\ pc = "open" /\ buffer' \in outcomes /\ calls' = calls + 1
      /\ promised' = promised \o bytes
      /\ data' = data /\ mapped' = mapped /\ regular' = regular /\ pos' = pos /\ line' = line
      /\ pc' = IF buffer'.ok THEN pc ELSE "failed"
  BY DEF Call
<1>2. Sound(buffer) /\ Out(buffer) = promised /\ data \in Seq(Byte)
  BY <1>1, SoundBuffer
<1>3. Sound(buffer') /\ Out(buffer') = Out(buffer) \o bytes /\ buffer'.to <= pos
  BY <1>1
<1>4. promised \in Seq(Byte) /\ promised' \in Seq(Byte)
  BY <1>1, ConcatProperties DEF IInv, TypeOK
<1>5. Out(buffer') = promised'
  BY <1>1, <1>2, <1>3, Zenon
<1>6. OutputInOrder' /\ Beginning' /\ buffer' \in Buffer /\ buffer'.ok = TRUE
  BY <1>1, <1>2, <1>3, <1>4, <1>5, NextBuffer, Zenon
<1>7. pc' = "open"
  BY <1>1, <1>6
<1>8. TypeOK'
  <2>1. buffer'.from <= buffer'.to /\ Len(buffer'.buf) <= Capacity
    BY <1>3 DEF Sound
  <2>2. /\ pc' \in {"open", "closed", "failed"} /\ calls' \in Nat
        /\ buffer'.ok = (pc' # "failed")
    <3>1. pc' # "failed" /\ pc' \in {"open", "closed", "failed"}
      BY <1>7
    <3>2. calls \in Nat /\ calls' = calls + 1
      BY <1>1 DEF IInv, TypeOK
    <3>3. (pc' # "failed") = TRUE
      BY <3>1, Zenon
    <3>4. buffer'.ok = (pc' # "failed")
      BY <1>6, <3>3, Zenon
    <3>5. calls' \in Nat
      BY <3>2
    <3> QED
      BY <3>1, <3>4, <3>5, Zenon
  <2>3. /\ data' \in Seq(Byte) /\ mapped' \in BOOLEAN /\ regular' \in BOOLEAN
        /\ line' \in Nat /\ pos' \in Nat /\ line' <= pos' /\ pos' <= Len(data')
        /\ buffer'.to <= pos'
    BY <1>1, <1>3, Zenon DEF IInv, TypeOK
  <2> QED
    BY <1>1, <1>3, <1>4, <1>6, <1>7, <2>1, <2>2, <2>3, Zenon DEF TypeOK
<1> QED
  BY <1>6, <1>7, <1>8 DEF IInv, AllWritten

\* The bytes of a chunk, in one piece or in the two that mapped lines take.
LEMMA BytesAre ==
  ASSUME buffer \in Buffer, NEW content \in Seq(Byte), NEW nl \in BOOLEAN
  PROVE  /\ Bytes(content, nl) = (EndOf(buffer.owed) \o content) \o EndOf(nl)
         /\ Bytes(content, nl) \in Seq(Byte)
<1>1. Bytes(content, nl) = (EndOf(buffer.owed) \o content) \o EndOf(nl)
  BY Zenon DEF Bytes, EndOf
<1>2. buffer.owed \in BOOLEAN
  BY DEF Buffer
<1>3. EndOf(buffer.owed) \in Seq(Byte) /\ EndOf(nl) \in Seq(Byte)
  BY <1>2, EndType, Zenon
<1>4. (EndOf(buffer.owed) \o content) \o EndOf(nl) \in Seq(Byte)
  BY <1>3, ConcatProperties
<1> QED
  BY <1>1, <1>4, Zenon

\* The four parts of the output after a chunk, in either grouping.
Regrouped(s, t, u, v) ==
  /\ ((s \o t) \o u) \o v = s \o ((t \o u) \o v)
  /\ (s \o t) \o (u \o v) = s \o ((t \o u) \o v)

LEMMA Regroup ==
  ASSUME NEW s \in Seq(Byte), NEW t \in Seq(Byte), NEW u \in Seq(Byte), NEW v \in Seq(Byte)
  PROVE  Regrouped(s, t, u, v)
<1> DEFINE x == s \o t
           y == t \o u
<1>1. x \in Seq(Byte) /\ y \in Seq(Byte)
  OBVIOUS
<1>2. x \o u = s \o y
  OBVIOUS
<1> HIDE DEF x, y
<1>3. (s \o y) \o v = s \o (y \o v)
  BY <1>1
<1>4. (x \o u) \o v = x \o (u \o v)
  BY <1>1
<1> QED
  BY <1>2, <1>3, <1>4, Zenon DEF x, y, Regrouped

\* A line is its content and its newline.
LEMMA LineSplit ==
  ASSUME data \in Seq(Byte), line \in Nat, pos \in Nat, line < pos, pos <= Len(data),
         NEW nl \in BOOLEAN, nl = (data[pos] = Newline)
  PROVE  LET content == Span(line, IF nl THEN pos - 1 ELSE pos)
         IN  content \in Seq(Byte) /\ Span(line, pos) = content \o EndOf(nl)
<1> DEFINE content == Span(line, IF nl THEN pos - 1 ELSE pos)
<1>1. CASE nl = TRUE
  <2>1. content = Span(line, pos - 1) /\ EndOf(nl) = <<Newline>> /\ data[pos] = Newline
    BY <1>1, Zenon DEF EndOf
  <2>2. pos - 1 \in Nat /\ line <= pos - 1 /\ pos - 1 <= pos /\ pos - 1 <= Len(data)
    BY LenProperties
  <2>3. content \in Seq(Byte)
    BY <2>1, <2>2, SpanType, Zenon
  <2>4. Span(line, pos - 1) \o Span(pos - 1, pos) = Span(line, pos)
    BY <2>2, SpanJoin, Zenon
  <2>5. Span(pos - 1, pos) = <<data[pos]>>
    <3>1. pos \in 1 .. Len(data) /\ (pos - 1) + 1 = pos
      BY LenProperties
    <3>2. SubSeq(data, pos, pos) = <<data[pos]>> \o SubSeq(data, pos + 1, pos)
      BY <3>1, SubSeqRecursiveFirst
    <3>3. SubSeq(data, pos + 1, pos) = <<>>
      BY SubSeqEmpty
    <3>4. <<data[pos]>> \in Seq(Byte)
      BY <3>1, ElementOfSeq
    <3>5. <<data[pos]>> \o <<>> = <<data[pos]>>
      BY <3>4, ConcatEmptySeq, Zenon
    <3> QED
      BY <3>1, <3>2, <3>3, <3>5, Zenon DEF Span
  <2> QED
    BY <2>1, <2>3, <2>4, <2>5, Zenon
<1>2. CASE nl = FALSE
  <2>1. content = Span(line, pos) /\ EndOf(nl) = <<>>
    BY <1>2, Zenon DEF EndOf
  <2>2. line <= pos
    OBVIOUS
  <2>3. content \in Seq(Byte)
    BY <2>1, <2>2, SpanType, Zenon
  <2>4. content \o <<>> = content
    BY <2>3, ConcatEmptySeq, Zenon
  <2> QED
    BY <2>1, <2>3, <2>4, Zenon
<1> QED
  BY <1>1, <1>2, Zenon
-----------------------------------------------------------------------------
(* One lemma for each action.                                              *)

LEMMA WriteLineKeeps ==
  ASSUME Faults = {}, IInv, WriteLine
  PROVE  IInv'
<1> DEFINE nl == data[pos] = Newline
           content == Span(line, IF nl THEN pos - 1 ELSE pos)
           outcomes == UNION {IF ~b.ok THEN {b}
                              ELSE IF mapped THEN AddMapped(b, line, pos)
                              ELSE AddOwned(b, content, nl) : b \in Settle(buffer)}
<1>1. Call(outcomes, Bytes(content, nl)) /\ line < pos
  BY Zenon DEF WriteLine
<1>2. pc # "failed"
  BY <1>1 DEF Call
<1>3. Sound(buffer) /\ Out(buffer) = promised /\ data \in Seq(Byte) /\ buffer.to <= pos
  BY <1>2, SoundBuffer, Zenon
<1>4. /\ buffer \in Buffer /\ buffer.owed \in BOOLEAN
      /\ line \in Nat /\ pos \in Nat /\ line <= pos /\ pos <= Len(data) /\ mapped \in BOOLEAN
  BY DEF IInv, TypeOK, Buffer
<1>5. nl \in BOOLEAN
  OBVIOUS
<1>6. content \in Seq(Byte) /\ Span(line, pos) = content \o EndOf(nl)
  BY <1>1, <1>3, <1>4, <1>5, LineSplit, Zenon
<1> HIDE DEF nl, content
<1>7. /\ Bytes(content, nl) = (EndOf(buffer.owed) \o content) \o EndOf(nl)
      /\ Bytes(content, nl) \in Seq(Byte)
  BY <1>4, <1>5, <1>6, BytesAre, Zenon
<1>8. ASSUME NEW f \in outcomes
      PROVE  Sound(f) /\ Out(f) = Out(buffer) \o Bytes(content, nl) /\ f.to <= pos
  <2>1. PICK b \in Settle(buffer) :
          f \in IF ~b.ok THEN {b}
                ELSE IF mapped THEN AddMapped(b, line, pos) ELSE AddOwned(b, content, nl)
    BY <1>8, Zenon
  <2>2. Settled(b, buffer)
    BY <1>3, SettleExact, Zenon
  <2>3. Sound(b) /\ b.ok = TRUE /\ b.to = buffer.to
        /\ Out(b) = Out(buffer) \o EndOf(buffer.owed)
    BY <2>2 DEF Settled, Sound, Buffer
  <2>4. /\ Out(buffer) \in Seq(Byte) /\ EndOf(buffer.owed) \in Seq(Byte)
        /\ EndOf(nl) \in Seq(Byte)
    BY <1>3, <1>4, <1>5, OutType, EndType, Zenon
  <2>5. /\ ((Out(buffer) \o EndOf(buffer.owed)) \o content) \o EndOf(nl)
             = Out(buffer) \o Bytes(content, nl)
        /\ (Out(buffer) \o EndOf(buffer.owed)) \o (content \o EndOf(nl))
             = Out(buffer) \o Bytes(content, nl)
    <3>1. Regrouped(Out(buffer), EndOf(buffer.owed), content, EndOf(nl))
      BY <1>6, <2>4, Regroup, Zenon
    <3> QED
      BY <1>7, <3>1, Zenon DEF Regrouped
  <2>6. CASE mapped = TRUE
    <3>1. f \in AddMapped(b, line, pos)
      BY <2>1, <2>3, <2>6
    <3>2. Sound(f) /\ Out(f) = Out(b) \o Span(line, pos) /\ f.to = pos
      <4>1. Grown(f, b, line, pos)
        BY <1>3, <1>4, <2>3, <3>1, AddMappedExact, Zenon
      <4> QED
        BY <4>1, Zenon DEF Grown
    <3>3. f.to <= pos
      BY <1>4, <3>2
    <3> QED
      BY <1>6, <2>3, <2>5, <3>2, <3>3, Zenon
  <2>7. CASE mapped = FALSE
    <3>1. f \in AddOwned(b, content, nl)
      BY <2>1, <2>3, <2>7
    <3>2. Sound(f) /\ Out(f) = (Out(b) \o content) \o EndOf(nl) /\ f.to = b.to
      BY <1>3, <1>5, <1>6, <2>3, <3>1, AddOwnedExact, Zenon
    <3>3. f.to <= pos
      BY <1>3, <2>3, <3>2
    <3> QED
      BY <2>3, <2>5, <3>2, <3>3, Zenon
  <2> QED
    BY <1>4, <2>6, <2>7
<1> HIDE DEF outcomes
<1> QED
  BY <1>1, <1>7, <1>8, CallKeeps, Zenon

LEMMA WriteTextKeeps ==
  ASSUME Faults = {}, IInv, WriteText
  PROVE  IInv'
<1>1. PICK t \in Texts :
        Call(UNION {IF b.ok THEN AddOwned(b, t.content, t.nl) ELSE {b} : b \in Settle(buffer)},
             Bytes(t.content, t.nl))
  BY Zenon DEF WriteText
<1> DEFINE outcomes ==
      UNION {IF b.ok THEN AddOwned(b, t.content, t.nl) ELSE {b} : b \in Settle(buffer)}
<1>2. pc # "failed"
  BY <1>1 DEF Call
<1>3. Sound(buffer) /\ Out(buffer) = promised /\ data \in Seq(Byte) /\ buffer.to <= pos
  BY <1>2, SoundBuffer, Zenon
<1>4. buffer \in Buffer /\ buffer.owed \in BOOLEAN
  BY DEF IInv, TypeOK, Buffer
<1>5. t.content \in Seq(Byte) /\ t.nl \in BOOLEAN
  BY BytesAssumption
<1>6. /\ Bytes(t.content, t.nl) = (EndOf(buffer.owed) \o t.content) \o EndOf(t.nl)
      /\ Bytes(t.content, t.nl) \in Seq(Byte)
  BY <1>4, <1>5, BytesAre, Zenon
<1>7. ASSUME NEW f \in outcomes
      PROVE  Sound(f) /\ Out(f) = Out(buffer) \o Bytes(t.content, t.nl) /\ f.to <= pos
  <2>1. PICK b \in Settle(buffer) :
          f \in IF b.ok THEN AddOwned(b, t.content, t.nl) ELSE {b}
    BY <1>7, Zenon
  <2>2. Settled(b, buffer)
    BY <1>3, SettleExact, Zenon
  <2>3. Sound(b) /\ b.ok = TRUE /\ b.to = buffer.to
        /\ Out(b) = Out(buffer) \o EndOf(buffer.owed)
    BY <2>2 DEF Settled, Sound, Buffer
  <2>4. /\ Out(buffer) \in Seq(Byte) /\ EndOf(buffer.owed) \in Seq(Byte)
        /\ EndOf(t.nl) \in Seq(Byte)
    BY <1>3, <1>4, <1>5, OutType, EndType, Zenon
  <2>5. ((Out(buffer) \o EndOf(buffer.owed)) \o t.content) \o EndOf(t.nl)
          = Out(buffer) \o Bytes(t.content, t.nl)
    <3>1. Regrouped(Out(buffer), EndOf(buffer.owed), t.content, EndOf(t.nl))
      BY <1>5, <2>4, Regroup, Zenon
    <3> QED
      BY <1>6, <3>1, Zenon DEF Regrouped
  <2>6. f \in AddOwned(b, t.content, t.nl)
    BY <2>1, <2>3
  <2>7. Sound(f) /\ Out(f) = (Out(b) \o t.content) \o EndOf(t.nl) /\ f.to = b.to
    BY <1>3, <1>5, <2>3, <2>6, AddOwnedExact, Zenon
  <2>8. f.to <= pos
    BY <1>3, <2>3, <2>7
  <2> QED
    BY <2>3, <2>5, <2>7, <2>8, Zenon
<1>8. Call(outcomes, Bytes(t.content, t.nl))
  BY <1>1, Zenon
<1> HIDE DEF outcomes
<1> QED
  BY <1>6, <1>7, <1>8, CallKeeps, Zenon

LEMMA CopyFileKeeps ==
  ASSUME Faults = {}, IInv, CopyFile
  PROVE  IInv'
<1>1. PICK c \in ReadFiles :
        Call({IF b.ok THEN Put(b, c) ELSE b : b \in FlushMmap(buffer, TRUE)}, c)
  BY Zenon DEF CopyFile
<1> DEFINE outcomes == {IF b.ok THEN Put(b, c) ELSE b : b \in FlushMmap(buffer, TRUE)}
<1>2. pc # "failed"
  BY <1>1 DEF Call
<1>3. Sound(buffer) /\ Out(buffer) = promised /\ data \in Seq(Byte) /\ buffer.to <= pos
  BY <1>2, SoundBuffer, Zenon
<1>4. c \in Seq(Byte)
  BY BytesAssumption
<1>5. ASSUME NEW f \in outcomes
      PROVE  Sound(f) /\ Out(f) = Out(buffer) \o c /\ f.to <= pos
  <2>1. PICK b \in FlushMmap(buffer, TRUE) : f = IF b.ok THEN Put(b, c) ELSE b
    BY <1>5, Zenon
  <2>2. Moved(b, buffer) /\ b.from = b.to
    BY <1>3, FlushAll, Zenon
  <2>3. Sound(b) /\ b.ok = TRUE /\ b.to = buffer.to /\ Out(b) = Out(buffer)
    BY <2>2 DEF Moved, Sound, Buffer
  <2>4. f = Put(b, c)
    BY <2>1, <2>3
  <2>5. Added(Put(b, c), b, c)
    BY <1>3, <1>4, <2>2, <2>3, PutAdds, Zenon
  <2>6. Sound(f) /\ Out(f) = Out(b) \o c /\ f.to = b.to
    BY <2>4, <2>5, Zenon DEF Added
  <2>7. f.to <= pos
    BY <1>3, <2>3, <2>6
  <2> QED
    BY <2>3, <2>6, <2>7, Zenon
<1>6. Call(outcomes, c)
  BY <1>1, Zenon
<1> HIDE DEF outcomes
<1> QED
  BY <1>4, <1>5, <1>6, CallKeeps, Zenon

LEMMA FlushKeeps ==
  ASSUME Faults = {}, IInv, Flush
  PROVE  IInv'
<1>1. Call(Flushed(buffer), <<>>)
  BY DEF Flush
<1>2. pc # "failed"
  BY <1>1 DEF Call
<1>3. Sound(buffer) /\ Out(buffer) = promised /\ data \in Seq(Byte) /\ buffer.to <= pos
  BY <1>2, SoundBuffer, Zenon
<1>4. <<>> \in Seq(Byte)
  OBVIOUS
<1>5. ASSUME NEW f \in Flushed(buffer)
      PROVE  Sound(f) /\ Out(f) = Out(buffer) \o <<>> /\ f.to <= pos
  <2>1. Sound(f) /\ Out(f) = Out(buffer) /\ f.to = buffer.to
    BY <1>3, <1>5, FlushedExact, Zenon
  <2>2. Out(buffer) \in Seq(Byte)
    BY <1>3, OutType, Zenon
  <2>3. Out(buffer) \o <<>> = Out(buffer)
    BY <2>2, ConcatEmptySeq, Zenon
  <2> QED
    BY <1>3, <2>1, <2>3, Zenon
<1> QED
  BY <1>1, <1>4, <1>5, CallKeeps, Zenon

LEMMA GetLineKeeps ==
  ASSUME IInv, GetLine
  PROVE  IInv'
<1>1. /\ pc = "open" /\ UNCHANGED <<data, mapped, regular, buffer, pc, calls, promised>>
      /\ line' = pos
      /\ pos' \in pos + 1 .. Len(data)
  BY DEF GetLine
<1>2. pos \in Nat /\ Len(data) \in Nat /\ buffer.to \in Nat /\ buffer.to <= pos
  BY LenProperties DEF IInv, TypeOK, Buffer
<1>3. pos' \in Nat /\ pos <= pos' /\ pos' <= Len(data) /\ buffer.to <= pos'
  BY <1>1, <1>2
<1>4. TypeOK'
  BY <1>1, <1>2, <1>3, Zenon DEF IInv, TypeOK
<1>5. Waiting(buffer)' = Waiting(buffer)
  BY <1>1 DEF Waiting, Span
<1>6. OutputInOrder' /\ Beginning' /\ AllWritten'
  BY <1>1, <1>5, Zenon DEF IInv, OutputInOrder, Beginning, AllWritten
<1> QED
  BY <1>4, <1>6 DEF IInv

LEMMA CloseKeeps ==
  ASSUME Faults = {}, IInv, Close
  PROVE  IInv'
<1>1. PICK quit \in BOOLEAN :
        /\ buffer' \in UNION {IF b.ok THEN Flushed(b) ELSE {b} :
                                b \in IF quit THEN Settle(buffer) ELSE {buffer}}
        /\ promised' = IF quit /\ buffer.owed THEN Append(promised, Newline) ELSE promised
  BY Zenon DEF Close
<1>2. /\ pc = "open" /\ pc' = IF buffer'.ok THEN "closed" ELSE "failed"
      /\ UNCHANGED <<data, mapped, regular, pos, line, calls>>
  BY DEF Close
<1>3. Sound(buffer) /\ Out(buffer) = promised /\ data \in Seq(Byte) /\ buffer.to <= pos
  BY <1>2, SoundBuffer
<1>4. buffer.owed \in BOOLEAN /\ promised \in Seq(Byte) /\ Newline \in Byte
  BY BytesAssumption DEF IInv, TypeOK, Buffer
<1>5. PICK b \in IF quit THEN Settle(buffer) ELSE {buffer} :
        buffer' \in IF b.ok THEN Flushed(b) ELSE {b}
  BY <1>1, Zenon
<1>6. Sound(b) /\ b.ok = TRUE /\ b.to = buffer.to /\ Out(b) = promised'
  <2>1. CASE quit = TRUE
    <3>1. b \in Settle(buffer)
      BY <1>5, <2>1
    <3>2. Settled(b, buffer)
      BY <1>3, <3>1, SettleExact, Zenon
    <3>3. Sound(b) /\ b.ok = TRUE /\ b.to = buffer.to /\ Out(b) = promised \o EndOf(buffer.owed)
      BY <1>3, <3>2 DEF Settled, Sound, Buffer
    <3>4. promised \o EndOf(buffer.owed) = promised'
      <4>1. CASE buffer.owed = TRUE
        <5>1. promised' = Append(promised, Newline)
          BY <1>1, <2>1, <4>1
        <5>2. Append(promised, Newline) = promised \o <<Newline>>
          BY <1>4, AppendIsConcat, Zenon
        <5> QED
          BY <4>1, <5>1, <5>2, Zenon DEF EndOf
      <4>2. CASE buffer.owed = FALSE
        <5>1. promised' = promised
          BY <1>1, <4>2
        <5>2. promised \o <<>> = promised
          BY <1>4, ConcatEmptySeq, Zenon
        <5> QED
          BY <4>2, <5>1, <5>2, Zenon DEF EndOf
      <4> QED
        BY <1>4, <4>1, <4>2
    <3> QED
      BY <3>3, <3>4, Zenon
  <2>2. CASE quit = FALSE
    <3>1. b = buffer /\ promised' = promised
      BY <1>1, <1>5, <2>2
    <3> QED
      BY <1>3, <3>1 DEF Sound, Buffer
  <2> QED
    BY <2>1, <2>2
<1>7. buffer' \in Flushed(b)
  BY <1>5, <1>6
<1>8. Sound(buffer') /\ Out(buffer') = Out(b) /\ buffer'.to = b.to /\ buffer'.disk = Out(b)
  BY <1>3, <1>6, <1>7, FlushedExact, Zenon
<1>9. promised' \in Seq(Byte) /\ Out(buffer') = promised' /\ buffer'.disk = promised'
  <2>1. Out(b) \in Seq(Byte)
    BY <1>3, <1>6, OutType, Zenon
  <2> QED
    BY <1>6, <1>8, <2>1, Zenon
<1>10. OutputInOrder' /\ Beginning' /\ buffer' \in Buffer /\ buffer'.ok = TRUE
  BY <1>2, <1>3, <1>8, <1>9, NextBuffer, Zenon
<1>11. pc' = "closed"
  BY <1>2, <1>10
<1>12. TypeOK'
  <2>1. buffer'.from <= buffer'.to /\ Len(buffer'.buf) <= Capacity /\ buffer'.to <= pos'
    BY <1>2, <1>3, <1>6, <1>8 DEF Sound
  <2>2. pc' \in {"open", "closed", "failed"} /\ pc' # "failed"
    BY <1>11
  <2>3. buffer'.ok = (pc' # "failed")
    BY <1>10, <2>2, Zenon
  <2>4. /\ data' \in Seq(Byte) /\ mapped' \in BOOLEAN /\ regular' \in BOOLEAN
        /\ line' \in Nat /\ pos' \in Nat /\ line' <= pos' /\ pos' <= Len(data')
        /\ calls' \in Nat
    BY <1>2, Zenon DEF IInv, TypeOK
  <2> QED
    BY <1>9, <1>10, <2>1, <2>2, <2>3, <2>4, Zenon DEF TypeOK
<1>13. AllWritten'
  BY <1>9, Zenon DEF AllWritten
<1> QED
  BY <1>10, <1>12, <1>13 DEF IInv

LEMMA WriteFailsKeeps ==
  ASSUME IInv, WriteFails
  PROVE  IInv'
<1> DEFINE held == buffer.buf \o Waiting(buffer)
<1>1. PICK k \in 0 .. Len(held) :
        buffer' = [buffer EXCEPT !.disk = @ \o SubSeq(held, 1, k), !.ok = FALSE]
  BY Zenon DEF WriteFails
<1>2. /\ pc = "open" /\ pc' = "failed"
      /\ UNCHANGED <<data, mapped, regular, pos, line, calls, promised>>
  BY DEF WriteFails
<1>3. Sound(buffer) /\ Out(buffer) = promised /\ data \in Seq(Byte)
  BY <1>2, SoundBuffer
<1>4. held \in Seq(Byte) /\ buffer.disk \o held = promised
  BY <1>3, SoundBegins, Zenon
<1>5. buffer \in Buffer /\ buffer.disk \in Seq(Byte)
  BY <1>3 DEF Sound, Buffer
<1> HIDE DEF held
<1> DEFINE head == SubSeq(held, 1, k)
           rest == SubSeq(held, k + 1, Len(held))
<1>6. head \in Seq(Byte) /\ rest \in Seq(Byte) /\ head \o rest = held
  <2>1. Len(held) \in Nat /\ k \in Nat /\ k <= Len(held)
    BY <1>4, LenProperties
  <2>2. \A n \in 1 .. Len(held) : held[n] \in Byte
    BY <1>4, ElementOfSeq
  <2>3. head \in Seq(Byte)
    BY <2>1, <2>2, SubSeqProperties
  <2>4. rest \in Seq(Byte)
    BY <2>1, <2>2, SubSeqProperties
  <2>5. SubSeq(held, 1, k) \o SubSeq(held, k + 1, Len(held)) = SubSeq(held, 1, Len(held))
    <3>1. 1 \in 1 .. Len(held) + 1 /\ k \in 1 - 1 .. Len(held) /\ Len(held) \in k .. Len(held)
      BY <2>1
    <3> QED
      BY <1>4, <3>1, ConcatAdjacentSubSeq
  <2>6. SubSeq(held, 1, Len(held)) = held
    BY <1>4, SubSeqFull, Zenon
  <2> QED
    BY <2>3, <2>4, <2>5, <2>6, Zenon
<1>7. buffer' = [buffer EXCEPT !.disk = @ \o head, !.ok = FALSE]
  BY <1>1
<1> HIDE DEF head, rest
<1>8. buffer.disk \o head \in Seq(Byte)
  BY <1>5, <1>6
<1>9. /\ buffer' \in Buffer /\ buffer'.disk = buffer.disk \o head /\ buffer'.ok = FALSE
      /\ buffer'.buf = buffer.buf /\ buffer'.from = buffer.from /\ buffer'.to = buffer.to
  BY <1>5, <1>7, <1>8 DEF Buffer
<1>10. Beginning'
  <2>1. (buffer.disk \o head) \o rest = buffer.disk \o (head \o rest)
    <3> DEFINE s == buffer.disk
    <3>1. s \in Seq(Byte) /\ head \in Seq(Byte) /\ rest \in Seq(Byte)
      BY <1>5, <1>6
    <3> HIDE DEF s
    <3>2. (s \o head) \o rest = s \o (head \o rest)
      BY <3>1, Associative, Zenon
    <3> QED
      BY <3>2, Zenon DEF s
  <2>2. buffer'.disk \o rest = promised'
    BY <1>2, <1>4, <1>6, <1>9, <2>1, Zenon
  <2> QED
    BY <1>6, <2>2, Zenon DEF Beginning
<1>11. TypeOK'
  <2>1. buffer'.ok = (pc' # "failed")
    BY <1>2, <1>9, Zenon
  <2>2. pc' \in {"open", "closed", "failed"}
    BY <1>2
  <2>3. /\ data' \in Seq(Byte) /\ mapped' \in BOOLEAN /\ regular' \in BOOLEAN
        /\ line' \in Nat /\ pos' \in Nat /\ line' <= pos' /\ pos' <= Len(data')
        /\ calls' \in Nat /\ promised' \in Seq(Byte)
        /\ buffer'.from <= buffer'.to /\ buffer'.to <= pos' /\ Len(buffer'.buf) <= Capacity
    BY <1>2, <1>9, Zenon DEF IInv, TypeOK
  <2> QED
    BY <1>9, <2>1, <2>2, <2>3, Zenon DEF TypeOK
<1> QED
  BY <1>2, <1>9, <1>10, <1>11 DEF IInv, OutputInOrder, AllWritten
-----------------------------------------------------------------------------
LEMMA InitIInv == Init => IInv
<1> SUFFICES ASSUME Init PROVE IInv
  OBVIOUS
<1>1. data \in Seq(Byte) /\ Len(data) \in Nat
  BY BytesAssumption, LenProperties DEF Init
<1>2. buffer = EmptyBuffer /\ pos = 0 /\ line = 0 /\ pc = "open" /\ calls = 0 /\ promised = <<>>
  BY DEF Init
<1>3. /\ buffer \in Buffer /\ buffer.disk = <<>> /\ buffer.buf = <<>>
      /\ buffer.from = 0 /\ buffer.to = 0 /\ buffer.ok = TRUE
  BY <1>2 DEF EmptyBuffer, Buffer
<1>4. TypeOK
  <2>1. Len(buffer.buf) <= Capacity
    BY <1>3, SizesAssumption
  <2>2. buffer.ok = (pc # "failed")
    <3>1. pc # "failed"
      BY <1>2
    <3> QED
      BY <1>3, <3>1, Zenon
  <2>3. /\ pc \in {"open", "closed", "failed"} /\ line \in Nat /\ pos \in Nat
        /\ line <= pos /\ pos <= Len(data) /\ buffer.from <= buffer.to /\ buffer.to <= pos
        /\ calls \in Nat /\ promised \in Seq(Byte)
    BY <1>1, <1>2, <1>3
  <2>4. mapped \in BOOLEAN /\ regular \in BOOLEAN
    BY DEF Init
  <2> QED
    BY <1>1, <1>3, <2>1, <2>2, <2>3, <2>4, Zenon DEF TypeOK
<1>5. Waiting(buffer) = <<>>
  BY <1>3, SpanEmpty DEF Waiting
<1>6. (<<>> \o <<>>) \o <<>> = <<>> /\ <<>> \o <<>> = <<>> /\ <<>> \in Seq(Byte)
  <2>1. <<>> \in Seq(Byte)
    OBVIOUS
  <2>2. <<>> \o <<>> = <<>>
    BY <2>1, ConcatEmptySeq, Zenon
  <2> QED
    BY <2>1, <2>2, Zenon
<1>7. OutputInOrder
  BY <1>2, <1>3, <1>5, <1>6, Zenon DEF OutputInOrder
<1>8. Beginning
  BY <1>2, <1>3, <1>6, Zenon DEF Beginning
<1> QED
  BY <1>2, <1>4, <1>7, <1>8 DEF IInv, AllWritten

LEMMA NextIInv ==
  ASSUME Faults = {}
  PROVE  IInv /\ [Next]_vars => IInv'
<1> SUFFICES ASSUME IInv, [Next]_vars PROVE IInv'
  OBVIOUS
<1>1. CASE GetLine
  BY <1>1, GetLineKeeps
<1>2. CASE WriteLine
  BY <1>2, WriteLineKeeps
<1>3. CASE WriteText
  BY <1>3, WriteTextKeeps
<1>4. CASE CopyFile
  BY <1>4, CopyFileKeeps
<1>5. CASE Flush
  BY <1>5, FlushKeeps
<1>6. CASE Close
  BY <1>6, CloseKeeps
<1>7. CASE WriteFails
  BY <1>7, WriteFailsKeeps
<1>8. CASE UNCHANGED vars
  <2>1. Waiting(buffer)' = Waiting(buffer)
    BY <1>8 DEF vars, Waiting, Span
  <2> QED
    BY <1>8, <2>1, Zenon DEF vars, IInv, TypeOK, OutputInOrder, Beginning, AllWritten
<1> QED
  BY <1>1, <1>2, <1>3, <1>4, <1>5, <1>6, <1>7, <1>8 DEF Next, Terminated

LEMMA BeginningIsPrefix ==
  ASSUME IInv
  PROVE  DiskIsPrefix
<1>1. PICK rest \in Seq(Byte) : buffer.disk \o rest = promised
  BY DEF IInv, Beginning
<1> DEFINE s == buffer.disk
<1>2. s \in Seq(Byte) /\ s \o rest = promised /\ promised \in Seq(Byte)
  BY <1>1 DEF IInv, TypeOK, Buffer
<1> HIDE DEF s
<1>3. /\ Len(s) \in Nat /\ Len(rest) \in Nat /\ Len(promised) = Len(s) + Len(rest)
      /\ \A n \in 1 .. Len(s) : promised[n] = s[n]
  BY <1>2, ConcatProperties, LenProperties
<1>4. \A n \in 1 .. Len(s) : promised[n] \in Byte
  BY <1>2, <1>3, ElementOfSeq
<1>5. /\ SubSeq(promised, 1, Len(s)) \in Seq(Byte)
      /\ Len(SubSeq(promised, 1, Len(s))) = Len(s)
      /\ \A n \in 1 .. Len(s) : SubSeq(promised, 1, Len(s))[n] = promised[n]
  BY <1>3, <1>4, SubSeqProperties
<1>6. SubSeq(promised, 1, Len(s)) = s
  BY <1>2, <1>3, <1>5, SeqEqual
<1>7. Len(s) <= Len(promised)
  BY <1>3
<1> QED
  BY <1>6, <1>7, Zenon DEF DiskIsPrefix, s

\* FastIO!OutputInOrder: what is in the file, in the BufWriter and in the
\* mapped range is what the calls of the OutputBuffer asked for, for all
\* inputs, chunks and buffer sizes, while copy_file_range copies what it is
\* asked to.
THEOREM WritesInOrder ==
  ASSUME Faults = {}
  PROVE  Spec => []OutputInOrder
<1>1. IInv => OutputInOrder
  BY DEF IInv
<1> QED
  BY InitIInv, NextIInv, <1>1, PTL DEF Spec

\* FastIO!AllWritten: all of the output is in the file when the file is
\* finished, whatever waited in the BufWriter, in a mapped range or as an owed
\* newline, while copy_file_range copies what it is asked to: a copy that fails
\* is not reported and leaves bytes out.
THEOREM FileComplete ==
  ASSUME Faults = {}
  PROVE  Spec => []AllWritten
<1>1. IInv => AllWritten
  BY DEF IInv
<1> QED
  BY InitIInv, NextIInv, <1>1, PTL DEF Spec

\* FastIO!DiskIsPrefix: the beginning of the output is in the file at any time,
\* after a write that failed and was reported, too, while copy_file_range copies
\* what it is asked to: one that stops in the middle unnoticed leaves a gap.
THEOREM FileInOrder ==
  ASSUME Faults = {}
  PROVE  Spec => []DiskIsPrefix
<1>1. IInv => DiskIsPrefix
  BY BeginningIsPrefix
<1> QED
  BY InitIInv, NextIInv, <1>1, PTL DEF Spec
-----------------------------------------------------------------------------
(* Types, however copy_file_range misbehaves.                              *)

\* A buffer whose range is inside the input, with an error or without one.
Shaped(b) ==
  /\ b \in Buffer /\ b.from <= b.to /\ b.to <= Len(data)
  /\ Len(b.buf) <= Capacity

LEMMA ShapedTypes ==
  ASSUME data \in Seq(Byte), NEW b, Shaped(b)
  PROVE  /\ b \in Buffer /\ b.disk \in Seq(Byte) /\ b.buf \in Seq(Byte) /\ b.ok \in BOOLEAN
         /\ b.from \in Nat /\ b.to \in Nat /\ b.from <= b.to /\ b.to <= Len(data)
         /\ Len(data) \in Nat /\ Waiting(b) \in Seq(Byte) /\ Len(b.buf) <= Capacity
<1>1. /\ b \in Buffer /\ b.disk \in Seq(Byte) /\ b.buf \in Seq(Byte) /\ b.ok \in BOOLEAN
      /\ b.from \in Nat /\ b.to \in Nat /\ b.from <= b.to /\ b.to <= Len(data)
      /\ Len(data) \in Nat /\ Len(b.buf) <= Capacity
  BY LenProperties DEF Shaped, Buffer
<1>2. Waiting(b) \in Seq(Byte)
  BY <1>1, SpanType DEF Waiting
<1>3. QED
  BY <1>1, <1>2

\* What a copy of at most n bytes reports.
Report(r, n) == r.bytes \in Seq(Byte) /\ r.count \in 0 .. n /\ r.ok \in BOOLEAN

LEMMA CopyRangeReports ==
  ASSUME data \in Seq(Byte), NEW i \in Nat, NEW j \in Nat, i <= j, j <= Len(data),
         NEW r \in CopyRange(i, j)
  PROVE  Report(r, j - i)
<1>1. Len(data) \in Nat /\ j - i \in 0 .. j - i
  BY LenProperties
<1>2. CASE r = [bytes |-> Span(i, j), count |-> j - i, ok |-> TRUE]
  <2>1. Span(i, j) \in Seq(Byte)
    BY SpanType
  <2>2. QED
    BY <1>1, <1>2, <2>1 DEF Report
<1>3. CASE \E k \in 0 .. j - i - 1 :
             \/ r = [bytes |-> Span(i, i + k) \o Span(i, j - k), count |-> j - i - k, ok |-> TRUE]
             \/ \E f \in Faults :
                  r = [bytes |-> Span(i, i + k), count |-> j - i, ok |-> f = "ends"]
  <2>1. PICK k \in 0 .. j - i - 1 :
             \/ r = [bytes |-> Span(i, i + k) \o Span(i, j - k), count |-> j - i - k, ok |-> TRUE]
             \/ \E f \in Faults :
                  r = [bytes |-> Span(i, i + k), count |-> j - i, ok |-> f = "ends"]
    BY <1>3
  <2>2. /\ i + k \in Nat /\ i <= i + k /\ i + k <= Len(data)
        /\ j - k \in Nat /\ i <= j - k /\ j - k <= Len(data) /\ j - i - k \in 0 .. j - i
    BY <1>1
  <2>3. Span(i, i + k) \in Seq(Byte) /\ Span(i, j - k) \in Seq(Byte)
    BY <2>2, SpanType
  <2>4. Span(i, i + k) \o Span(i, j - k) \in Seq(Byte)
    BY <2>3
  <2>5. CASE r = [bytes |-> Span(i, i + k) \o Span(i, j - k), count |-> j - i - k, ok |-> TRUE]
    BY <2>2, <2>4, <2>5 DEF Report
  <2>6. ASSUME NEW f \in Faults,
               r = [bytes |-> Span(i, i + k), count |-> j - i, ok |-> f = "ends"]
        PROVE  Report(r, j - i)
    <3>1. (f = "ends") \in BOOLEAN
      OBVIOUS
    <3>2. r.bytes = Span(i, i + k) /\ r.count = j - i /\ r.ok = (f = "ends")
      BY <2>6, Zenon
    <3>3. QED
      BY <1>1, <2>3, <3>1, <3>2, Zenon DEF Report
  <2>7. QED
    BY <2>1, <2>5, <2>6
<1>4. QED
  BY <1>2, <1>3 DEF CopyRange

LEMMA AlignedCopyReports ==
  ASSUME data \in Seq(Byte), NEW i \in Nat, NEW j \in Nat, i <= j, j <= Len(data),
         NEW outOff, NEW complete \in BOOLEAN,
         NEW r \in AlignedCopy(i, j, outOff, complete)
  PROVE  Report(r, j - i)
<1> DEFINE head == (Block - (i % Block)) % Block
           start == i + Least(head, j - i)
           end == j - ((j - start) % Block)
           last == IF complete THEN j ELSE end
<1>1. start \in Nat /\ i <= start /\ start <= j /\ end \in Nat /\ start <= end /\ end <= j
      /\ last \in Nat /\ end <= last /\ last <= j
  BY AlignedParts
<1>2. CASE (outOff + head) % Block # 0
  <2>1. r \in CopyRange(i, j)
    BY <1>2 DEF AlignedCopy
  <2>2. QED
    BY <2>1, CopyRangeReports
<1>3. CASE (outOff + head) % Block = 0
  <2>1. PICK q \in CopyRange(start, end) :
          r = [bytes |-> Span(i, start) \o q.bytes \o Span(end, last),
               count |-> last - i, ok |-> TRUE]
    BY <1>3 DEF AlignedCopy
  <2> HIDE DEF head, start, end, last
  <2>2. Len(data) \in Nat
    BY LenProperties
  <2>3. start <= Len(data) /\ end <= Len(data) /\ last <= Len(data)
    BY <1>1, <2>2
  <2>4. Report(q, end - start)
    BY <1>1, <2>1, <2>3, CopyRangeReports, Zenon
  <2>5. Span(i, start) \in Seq(Byte) /\ Span(end, last) \in Seq(Byte)
    BY <1>1, <2>3, SpanType
  <2>6. Span(i, start) \o q.bytes \o Span(end, last) \in Seq(Byte)
    BY <2>4, <2>5 DEF Report
  <2>7. last - i \in 0 .. j - i
    BY <1>1
  <2>8. QED
    BY <2>1, <2>6, <2>7 DEF Report
<1>4. QED
  BY <1>2, <1>3

LEMMA PutShaped ==
  ASSUME data \in Seq(Byte), NEW b, Shaped(b), NEW bytes \in Seq(Byte)
  PROVE  /\ Shaped(Put(b, bytes)) /\ Put(b, bytes).from = b.from /\ Put(b, bytes).to = b.to
         /\ Put(b, bytes).ok = b.ok
<1>1. b \in Buffer /\ Len(b.buf) <= Capacity /\ b.from <= b.to /\ b.to <= Len(data)
  BY DEF Shaped
<1>2. /\ Put(b, bytes) \in Buffer /\ Len(Put(b, bytes).buf) <= Capacity
      /\ Put(b, bytes).from = b.from /\ Put(b, bytes).to = b.to /\ Put(b, bytes).ok = b.ok
  BY <1>1, PutExact
<1>3. QED
  BY <1>1, <1>2 DEF Shaped

LEMMA DrainedShaped ==
  ASSUME data \in Seq(Byte), NEW b, Shaped(b)
  PROVE  /\ Shaped(Drained(b)) /\ Drained(b).from = b.from /\ Drained(b).to = b.to
         /\ Drained(b).ok = b.ok
<1>1. /\ b \in Buffer /\ b.disk \o b.buf \in Seq(Byte) /\ <<>> \in Seq(Byte) /\ Len(<<>>) = 0
      /\ b.from <= b.to /\ b.to <= Len(data) /\ Capacity \in Nat \ {0}
  BY ShapedTypes, EmptySeq, SizesAssumption
<1>2. /\ Drained(b) \in Buffer /\ Drained(b).buf = <<>> /\ Drained(b).from = b.from
      /\ Drained(b).to = b.to /\ Drained(b).ok = b.ok
  BY <1>1 DEF Drained, Buffer
<1>3. QED
  BY <1>1, <1>2 DEF Shaped

\* What was flushed keeps its end.
LEMMA FlushMmapShaped ==
  ASSUME data \in Seq(Byte), NEW b, Shaped(b), NEW complete \in BOOLEAN,
         NEW f \in FlushMmap(b, complete)
  PROVE  Shaped(f) /\ f.to = b.to
<1>1. /\ b \in Buffer /\ b.from \in Nat /\ b.to \in Nat /\ b.from <= b.to /\ b.to <= Len(data)
      /\ Waiting(b) \in Seq(Byte) /\ Len(data) \in Nat
  BY ShapedTypes
<1>2. CASE b.to - b.from < MinDirect
  <2> DEFINE p == Put(b, Waiting(b))
  <2>1. f = [p EXCEPT !.from = b.to]
    BY <1>2 DEF FlushMmap
  <2>2. Shaped(p) /\ p.to = b.to
    BY <1>1, PutShaped
  <2> HIDE DEF p
  <2>3. p \in Buffer /\ f \in Buffer /\ f.buf = p.buf /\ f.from = b.to /\ f.to = p.to
    BY <1>1, <2>1, <2>2 DEF Shaped, Buffer
  <2>4. QED
    BY <1>1, <2>2, <2>3 DEF Shaped
<1>3. CASE ~(b.to - b.from < MinDirect) /\ regular
  <2> DEFINE d == Drained(b)
  <2>1. PICK r \in AlignedCopy(b.from, b.to, Len(b.disk) + Len(b.buf), complete) :
          f = [d EXCEPT !.disk = @ \o r.bytes, !.from = @ + r.count, !.ok = r.ok]
    BY <1>3 DEF FlushMmap
  <2>2. Report(r, b.to - b.from)
    BY <1>1, <2>1, AlignedCopyReports, Zenon
  <2>3. Shaped(d) /\ d.from = b.from /\ d.to = b.to
    BY DrainedShaped
  <2> HIDE DEF d
  <2>4. d \in Buffer /\ d.disk \o r.bytes \in Seq(Byte)
    BY <2>2, <2>3 DEF Report, Shaped, Buffer
  <2>5. b.from + r.count \in Nat /\ b.from + r.count <= b.to /\ r.ok \in BOOLEAN
    BY <1>1, <2>2 DEF Report
  <2>6. f \in Buffer /\ f.buf = d.buf /\ f.from = b.from + r.count /\ f.to = b.to
    BY <2>1, <2>3, <2>4, <2>5 DEF Buffer
  <2>7. QED
    BY <1>1, <2>3, <2>5, <2>6 DEF Shaped
<1>4. CASE ~(b.to - b.from < MinDirect) /\ ~regular
  <2> DEFINE d == Drained(b)
  <2>1. f = [d EXCEPT !.disk = @ \o Waiting(b), !.from = b.to]
    BY <1>4 DEF FlushMmap
  <2>2. Shaped(d) /\ d.to = b.to
    BY DrainedShaped
  <2> HIDE DEF d
  <2>3. d \in Buffer /\ d.disk \o Waiting(b) \in Seq(Byte)
    BY <1>1, <2>2 DEF Shaped, Buffer
  <2>4. f \in Buffer /\ f.buf = d.buf /\ f.from = b.to /\ f.to = b.to
    BY <1>1, <2>1, <2>2, <2>3 DEF Buffer
  <2>5. QED
    BY <1>1, <2>2, <2>4 DEF Shaped
<1>5. QED
  BY <1>2, <1>3, <1>4

LEMMA FlushAllShaped ==
  ASSUME data \in Seq(Byte), NEW b, Shaped(b), NEW f \in FlushMmap(b, TRUE)
  PROVE  Shaped(f) /\ f.to = b.to
BY FlushMmapShaped

\* The calls keep the shape, and the range ends where it did or where a line does.
LEMMA SettleShaped ==
  ASSUME data \in Seq(Byte), NEW b, Shaped(b), NEW f \in Settle(b)
  PROVE  Shaped(f) /\ f.to = b.to
<1>1. CASE f = b
  BY <1>1
<1>2. ASSUME NEW g \in FlushMmap(b, TRUE),
             f = IF g.ok THEN [Put(g, <<Newline>>) EXCEPT !.owed = FALSE] ELSE g
      PROVE  Shaped(f) /\ f.to = b.to
  <2> DEFINE p == Put(g, <<Newline>>)
  <2>1. Shaped(g) /\ g.to = b.to
    BY <1>2, FlushAllShaped
  <2>2. <<Newline>> \in Seq(Byte)
    BY BytesAssumption
  <2>3. Shaped(p) /\ p.to = g.to
    BY <2>1, <2>2, PutShaped
  <2> HIDE DEF p
  <2>4. CASE f = g
    BY <2>1, <2>4
  <2>5. CASE f = [p EXCEPT !.owed = FALSE]
    <3>1. f \in Buffer /\ f.buf = p.buf /\ f.from = p.from /\ f.to = p.to
      BY <2>3, <2>5 DEF Shaped, Buffer
    <3>2. QED
      BY <2>1, <2>3, <3>1 DEF Shaped
  <2>6. QED
    BY <1>2, <2>4, <2>5 DEF p
<1>3. QED
  BY <1>1, <1>2 DEF Settle

LEMMA AddOwnedShaped ==
  ASSUME data \in Seq(Byte), NEW b, Shaped(b),
         NEW content \in Seq(Byte), NEW nl \in BOOLEAN, NEW f \in AddOwned(b, content, nl)
  PROVE  Shaped(f) /\ f.to = b.to
<1>1. PICK g \in FlushMmap(b, TRUE) :
        f = IF g.ok THEN [Put(Put(g, content), EndOf(nl)) EXCEPT !.owed = ~nl] ELSE g
  BY Zenon DEF AddOwned, EndOf
<1> DEFINE p == Put(g, content)
           q == Put(p, EndOf(nl))
<1>2. Shaped(g) /\ g.to = b.to
  BY FlushAllShaped
<1>3. Shaped(p) /\ p.to = g.to
  BY <1>2, PutShaped
<1> HIDE DEF p
<1>4. Shaped(q) /\ q.to = p.to
  BY <1>3, EndType, PutShaped
<1> HIDE DEF q
<1>5. CASE f = g
  BY <1>2, <1>5
<1>6. CASE f = [q EXCEPT !.owed = ~nl]
  <2>1. f \in Buffer /\ f.buf = q.buf /\ f.from = q.from /\ f.to = q.to
    BY <1>4, <1>6 DEF Shaped, Buffer
  <2>2. QED
    BY <1>2, <1>3, <1>4, <2>1 DEF Shaped
<1>7. QED
  BY <1>1, <1>5, <1>6 DEF p, q

LEMMA AddMappedShaped ==
  ASSUME data \in Seq(Byte), NEW b, Shaped(b),
         NEW i \in Nat, NEW j \in Nat, i <= j, j <= Len(data), NEW f \in AddMapped(b, i, j)
  PROVE  Shaped(f) /\ f.to \in {b.to, j}
<1> DEFINE owed == data[j] # Newline
           joined == [b EXCEPT !.to = j, !.owed = owed]
<1>1. b \in Buffer /\ b.from \in Nat /\ b.to \in Nat /\ b.from <= b.to /\ owed \in BOOLEAN
  BY ShapedTypes
<1>2. CASE b.some /\ b.to = i /\ f \in (FlushMmap(joined, FALSE) \cup {joined})
  <2> HIDE DEF owed
  <2>1. joined \in Buffer /\ joined.buf = b.buf /\ joined.from = b.from /\ joined.to = j
    BY <1>1 DEF Buffer
  <2> HIDE DEF joined
  <2>2. Shaped(joined)
    BY <1>1, <1>2, <2>1 DEF Shaped
  <2>3. FALSE \in BOOLEAN
    OBVIOUS
  <2>4. f \in FlushMmap(joined, FALSE) => Shaped(f) /\ f.to = joined.to
    BY <2>2, <2>3, FlushMmapShaped, Zenon
  <2>5. QED
    BY <1>2, <2>1, <2>2, <2>4
<1>3. ASSUME NEW g \in FlushMmap(b, TRUE),
             f = IF g.ok THEN [g EXCEPT !.some = TRUE, !.from = i, !.to = j, !.owed = owed] ELSE g
      PROVE  Shaped(f) /\ f.to \in {b.to, j}
  <2>1. Shaped(g) /\ g.to = b.to
    BY <1>3, FlushAllShaped
  <2> HIDE DEF owed
  <2>2. CASE f = g
    BY <2>1, <2>2
  <2>3. CASE f = [g EXCEPT !.some = TRUE, !.from = i, !.to = j, !.owed = owed]
    <3>1. f \in Buffer /\ f.buf = g.buf /\ f.from = i /\ f.to = j
      BY <1>1, <2>1, <2>3 DEF Shaped, Buffer
    <3>2. QED
      BY <2>1, <3>1 DEF Shaped
  <2>4. QED
    BY <1>3, <2>2, <2>3
<1>4. QED
  <2>1. \/ b.some /\ b.to = i /\ f \in IF j - b.from > MaxPending THEN FlushMmap(joined, FALSE)
                                       ELSE {joined}
        \/ \E g \in FlushMmap(b, TRUE) :
             f = IF g.ok THEN [g EXCEPT !.some = TRUE, !.from = i, !.to = j, !.owed = owed] ELSE g
    BY Zenon DEF AddMapped
  <2>2. CASE b.some /\ b.to = i /\ f \in IF j - b.from > MaxPending THEN FlushMmap(joined, FALSE)
                                         ELSE {joined}
    <3> HIDE DEF joined
    <3>1. f \in (FlushMmap(joined, FALSE) \cup {joined})
      BY <2>2
    <3>2. QED
      BY <1>2, <2>2, <3>1 DEF joined
  <2>3. QED
    BY <1>3, <2>1, <2>2, Zenon

LEMMA FlushedShaped ==
  ASSUME data \in Seq(Byte), NEW b, Shaped(b), NEW f \in Flushed(b)
  PROVE  Shaped(f) /\ f.to = b.to
<1>1. PICK g \in FlushMmap(b, TRUE) : f = IF g.ok THEN Drained(g) ELSE g
  BY Zenon DEF Flushed
<1>2. Shaped(g) /\ g.to = b.to
  BY FlushAllShaped
<1>3. Shaped(Drained(g)) /\ Drained(g).to = g.to
  BY <1>2, DrainedShaped
<1>4. QED
  BY <1>1, <1>2, <1>3, Zenon

LEMMA TypesShaped ==
  ASSUME TypeOK
  PROVE  Shaped(buffer) /\ buffer.to <= pos /\ data \in Seq(Byte)
<1>1. Len(data) \in Nat /\ buffer.to \in Nat
  BY LenProperties DEF TypeOK, Buffer
<1>2. QED
  BY <1>1 DEF TypeOK, Shaped

\* A step that changes the buffer and what depends on it.
LEMMA TypesNext ==
  ASSUME TypeOK, UNCHANGED <<data, mapped, regular, pos, line>>, Shaped(buffer'), buffer'.to <= pos,
         pc' \in {"open", "closed", "failed"}, buffer'.ok = (pc' # "failed"),
         calls' \in Nat, promised' \in Seq(Byte)
  PROVE  TypeOK'
<1>1. /\ buffer' \in Buffer /\ buffer'.from <= buffer'.to /\ Len(buffer'.buf) <= Capacity
      /\ buffer'.to <= pos'
  BY DEF Shaped
<1>2. /\ data' \in Seq(Byte) /\ mapped' \in BOOLEAN /\ regular' \in BOOLEAN
      /\ line' \in Nat /\ pos' \in Nat /\ line' <= pos' /\ pos' <= Len(data')
  BY Zenon DEF TypeOK
<1>3. QED
  BY <1>1, <1>2, Zenon DEF TypeOK

LEMMA CallTyped ==
  ASSUME TypeOK, NEW outcomes, NEW bytes \in Seq(Byte), Call(outcomes, bytes),
         \A f \in outcomes : Shaped(f) /\ f.to <= pos
  PROVE  TypeOK'
<1>1. /\ pc = "open" /\ buffer' \in outcomes /\ calls' = calls + 1
      /\ promised' = promised \o bytes
      /\ UNCHANGED <<data, mapped, regular, pos, line>>
      /\ pc' = IF buffer'.ok THEN pc ELSE "failed"
  BY DEF Call
<1>2. Shaped(buffer') /\ buffer'.to <= pos /\ buffer'.ok \in BOOLEAN
  BY <1>1 DEF Shaped, Buffer
<1>3. promised' \in Seq(Byte) /\ calls' \in Nat
  BY <1>1 DEF TypeOK
<1>4. pc' \in {"open", "closed", "failed"} /\ buffer'.ok = (pc' # "failed")
  <2>1. CASE buffer'.ok = TRUE
    <3>1. pc' = "open" /\ (pc' # "failed") = TRUE
      BY <1>1, <2>1
    <3>2. QED
      BY <2>1, <3>1
  <2>2. CASE buffer'.ok = FALSE
    <3>1. pc' = "failed" /\ (pc' # "failed") = FALSE
      BY <1>1, <2>2
    <3>2. QED
      BY <2>2, <3>1
  <2>3. QED
    BY <1>2, <2>1, <2>2
<1>5. QED
  BY <1>1, <1>2, <1>3, <1>4, TypesNext

LEMMA GetLineTyped ==
  ASSUME TypeOK, GetLine
  PROVE  TypeOK'
<1>1. /\ UNCHANGED <<data, mapped, regular, buffer, pc, calls, promised>>
      /\ line' = pos /\ pos' \in pos + 1 .. Len(data)
  BY DEF GetLine
<1>2. pos \in Nat /\ Len(data) \in Nat /\ buffer.to \in Nat /\ buffer.to <= pos
  BY LenProperties DEF TypeOK, Buffer
<1>3. pos' \in Nat /\ pos <= pos' /\ pos' <= Len(data) /\ buffer.to <= pos'
  BY <1>1, <1>2
<1>4. QED
  BY <1>1, <1>2, <1>3, Zenon DEF TypeOK

LEMMA WriteLineTyped ==
  ASSUME TypeOK, WriteLine
  PROVE  TypeOK'
<1> DEFINE nl == data[pos] = Newline
           content == Span(line, IF nl THEN pos - 1 ELSE pos)
           outcomes == UNION {IF ~b.ok THEN {b}
                              ELSE IF mapped THEN AddMapped(b, line, pos)
                              ELSE AddOwned(b, content, nl) : b \in Settle(buffer)}
<1>1. line < pos /\ Call(outcomes, Bytes(content, nl))
  BY Zenon DEF WriteLine
<1>2. Shaped(buffer) /\ buffer.to <= pos /\ data \in Seq(Byte)
  BY TypesShaped
<1>3. line \in Nat /\ pos \in Nat /\ line <= pos /\ pos <= Len(data) /\ buffer \in Buffer
  BY DEF TypeOK
<1>4. nl \in BOOLEAN
  OBVIOUS
<1>5. content \in Seq(Byte)
  BY <1>1, <1>2, <1>3, <1>4, LineSplit, Zenon
<1>6. Bytes(content, nl) \in Seq(Byte)
  BY <1>3, <1>4, <1>5, BytesAre, Zenon
<1> HIDE DEF nl, content
<1>7. ASSUME NEW f \in outcomes
      PROVE  Shaped(f) /\ f.to <= pos
  <2>1. PICK b \in Settle(buffer) :
          f \in IF ~b.ok THEN {b}
                ELSE IF mapped THEN AddMapped(b, line, pos) ELSE AddOwned(b, content, nl)
    BY <1>7, Zenon
  <2>2. Shaped(b) /\ b.to = buffer.to
    BY <1>2, <2>1, SettleShaped
  <2>3. f = b \/ f \in AddMapped(b, line, pos) \/ f \in AddOwned(b, content, nl)
    BY <2>1
  <2>4. f \in AddMapped(b, line, pos) => Shaped(f) /\ f.to \in {b.to, pos}
    BY <1>2, <1>3, <2>2, AddMappedShaped, Zenon
  <2>5. f \in AddOwned(b, content, nl) => Shaped(f) /\ f.to = b.to
    BY <1>2, <1>4, <1>5, <2>2, AddOwnedShaped, Zenon
  <2>6. QED
    BY <1>2, <1>3, <2>2, <2>3, <2>4, <2>5
<1> HIDE DEF outcomes
<1>8. QED
  BY <1>1, <1>6, <1>7, CallTyped, Zenon

LEMMA WriteTextTyped ==
  ASSUME TypeOK, WriteText
  PROVE  TypeOK'
<1>1. PICK t \in Texts :
        Call(UNION {IF b.ok THEN AddOwned(b, t.content, t.nl) ELSE {b} : b \in Settle(buffer)},
             Bytes(t.content, t.nl))
  BY Zenon DEF WriteText
<1> DEFINE outcomes == UNION {IF b.ok THEN AddOwned(b, t.content, t.nl) ELSE {b} :
                                b \in Settle(buffer)}
<1>2. Shaped(buffer) /\ buffer.to <= pos /\ data \in Seq(Byte)
  BY TypesShaped
<1>3. t.content \in Seq(Byte) /\ t.nl \in BOOLEAN /\ buffer \in Buffer
  BY BytesAssumption DEF TypeOK
<1>4. Bytes(t.content, t.nl) \in Seq(Byte)
  BY <1>3, BytesAre, Zenon
<1>5. ASSUME NEW f \in outcomes
      PROVE  Shaped(f) /\ f.to <= pos
  <2>1. PICK b \in Settle(buffer) : f \in IF b.ok THEN AddOwned(b, t.content, t.nl) ELSE {b}
    BY <1>5, Zenon
  <2>2. Shaped(b) /\ b.to = buffer.to
    BY <1>2, <2>1, SettleShaped
  <2>3. f \in AddOwned(b, t.content, t.nl) => Shaped(f) /\ f.to = b.to
    BY <1>2, <1>3, <2>2, AddOwnedShaped, Zenon
  <2>4. QED
    BY <1>2, <2>1, <2>2, <2>3
<1> HIDE DEF outcomes
<1>6. Call(outcomes, Bytes(t.content, t.nl))
  BY <1>1, Zenon DEF outcomes
<1>7. QED
  BY <1>4, <1>5, <1>6, CallTyped, Zenon

LEMMA CopyFileTyped ==
  ASSUME TypeOK, CopyFile
  PROVE  TypeOK'
<1>1. PICK c \in ReadFiles :
        Call({IF b.ok THEN Put(b, c) ELSE b : b \in FlushMmap(buffer, TRUE)}, c)
  BY Zenon DEF CopyFile
<1> DEFINE outcomes == {IF b.ok THEN Put(b, c) ELSE b : b \in FlushMmap(buffer, TRUE)}
<1>2. Shaped(buffer) /\ buffer.to <= pos /\ data \in Seq(Byte) /\ c \in Seq(Byte)
  BY TypesShaped, BytesAssumption
<1>3. ASSUME NEW f \in outcomes
      PROVE  Shaped(f) /\ f.to <= pos
  <2>1. PICK b \in FlushMmap(buffer, TRUE) : f = IF b.ok THEN Put(b, c) ELSE b
    BY <1>3, Zenon
  <2>2. Shaped(b) /\ b.to = buffer.to
    BY <1>2, <2>1, FlushAllShaped
  <2>3. Shaped(Put(b, c)) /\ Put(b, c).to = b.to
    BY <1>2, <2>2, PutShaped
  <2>4. QED
    BY <1>2, <2>1, <2>2, <2>3
<1> HIDE DEF outcomes
<1>4. Call(outcomes, c)
  BY <1>1, Zenon DEF outcomes
<1>5. QED
  BY <1>2, <1>3, <1>4, CallTyped, Zenon

LEMMA FlushTyped ==
  ASSUME TypeOK, Flush
  PROVE  TypeOK'
<1>1. Call(Flushed(buffer), <<>>) /\ <<>> \in Seq(Byte)
  BY DEF Flush
<1>2. Shaped(buffer) /\ buffer.to <= pos /\ data \in Seq(Byte)
  BY TypesShaped
<1>3. ASSUME NEW f \in Flushed(buffer) PROVE Shaped(f) /\ f.to <= pos
  BY <1>2, <1>3, FlushedShaped
<1>4. QED
  BY <1>1, <1>3, CallTyped, Zenon

LEMMA CloseTyped ==
  ASSUME TypeOK, Close
  PROVE  TypeOK'
<1>1. PICK quit \in BOOLEAN :
        /\ buffer' \in UNION {IF b.ok THEN Flushed(b) ELSE {b} :
                                b \in IF quit THEN Settle(buffer) ELSE {buffer}}
        /\ promised' = IF quit /\ buffer.owed THEN Append(promised, Newline) ELSE promised
  BY Zenon DEF Close
<1>2. /\ pc' = IF buffer'.ok THEN "closed" ELSE "failed"
      /\ UNCHANGED <<data, mapped, regular, pos, line, calls>>
  BY DEF Close
<1>3. Shaped(buffer) /\ buffer.to <= pos /\ data \in Seq(Byte)
  BY TypesShaped
<1>4. promised' \in Seq(Byte) /\ calls' \in Nat
  BY <1>1, <1>2, BytesAssumption DEF TypeOK
<1>5. PICK b \in IF quit THEN Settle(buffer) ELSE {buffer} :
        buffer' \in IF b.ok THEN Flushed(b) ELSE {b}
  BY <1>1, Zenon
<1>6. Shaped(b) /\ b.to = buffer.to
  BY <1>3, <1>5, SettleShaped
<1>7. Shaped(buffer') /\ buffer'.to = b.to
  <2>1. buffer' \in Flushed(b) => Shaped(buffer') /\ buffer'.to = b.to
    BY <1>3, <1>6, FlushedShaped
  <2>2. QED
    BY <1>5, <1>6, <2>1
<1>8. pc' \in {"open", "closed", "failed"} /\ buffer'.ok = (pc' # "failed")
  <2>1. buffer'.ok \in BOOLEAN
    BY <1>7 DEF Shaped, Buffer
  <2>2. CASE buffer'.ok = TRUE
    <3>1. pc' = "closed" /\ (pc' # "failed") = TRUE
      BY <1>2, <2>2
    <3>2. QED
      BY <2>2, <3>1
  <2>3. CASE buffer'.ok = FALSE
    <3>1. pc' = "failed" /\ (pc' # "failed") = FALSE
      BY <1>2, <2>3
    <3>2. QED
      BY <2>3, <3>1
  <2>4. QED
    BY <2>1, <2>2, <2>3
<1>9. QED
  BY <1>2, <1>3, <1>4, <1>6, <1>7, <1>8, TypesNext

LEMMA WriteFailsTyped ==
  ASSUME TypeOK, WriteFails
  PROVE  TypeOK'
<1> DEFINE held == buffer.buf \o Waiting(buffer)
<1>1. PICK k \in 0 .. Len(held) :
        buffer' = [buffer EXCEPT !.disk = @ \o SubSeq(held, 1, k), !.ok = FALSE]
  BY Zenon DEF WriteFails
<1>2. pc' = "failed" /\ UNCHANGED <<data, mapped, regular, pos, line, calls, promised>>
  BY DEF WriteFails
<1>3. Shaped(buffer) /\ buffer.to <= pos /\ data \in Seq(Byte)
  BY TypesShaped
<1>4. held \in Seq(Byte) /\ buffer \in Buffer /\ buffer.disk \in Seq(Byte)
  BY <1>3, ShapedTypes
<1> HIDE DEF held
<1>5. SubSeq(held, 1, k) \in Seq(Byte)
  <2>1. Len(held) \in Nat /\ \A n \in 1 .. Len(held) : held[n] \in Byte
    BY <1>4, LenProperties, ElementOfSeq
  <2>2. QED
    BY <2>1, SubSeqProperties
<1>6. buffer.disk \o SubSeq(held, 1, k) \in Seq(Byte)
  BY <1>4, <1>5
<1>7. /\ buffer' \in Buffer /\ buffer'.ok = FALSE /\ buffer'.buf = buffer.buf
      /\ buffer'.from = buffer.from /\ buffer'.to = buffer.to
  BY <1>1, <1>4, <1>6 DEF Buffer
<1>8. Shaped(buffer') /\ buffer'.to <= pos
  BY <1>3, <1>7 DEF Shaped
<1>9. buffer'.ok = (pc' # "failed") /\ pc' \in {"open", "closed", "failed"}
  BY <1>2, <1>7
<1>10. calls' \in Nat /\ promised' \in Seq(Byte)
  BY <1>2 DEF TypeOK
<1>11. QED
  BY <1>2, <1>8, <1>9, <1>10, TypesNext

LEMMA NextTyped == TypeOK /\ [Next]_vars => TypeOK'
<1> SUFFICES ASSUME TypeOK, [Next]_vars PROVE TypeOK'
  OBVIOUS
<1>1. UNCHANGED vars => TypeOK'
  BY Zenon DEF vars, TypeOK
<1>2. QED
  BY <1>1, GetLineTyped, WriteLineTyped, WriteTextTyped, CopyFileTyped, FlushTyped, CloseTyped,
     WriteFailsTyped, Zenon DEF Next, Terminated

\* FastIO!TypeOK: in particular the range that waits never reaches beyond what
\* was read, and never more than its capacity is in the BufWriter, whatever
\* copy_file_range copies and reports.
THEOREM BufferTyped == Spec => []TypeOK
<1>1. Init => TypeOK
  BY InitIInv DEF IInv
<1>2. QED
  BY <1>1, NextTyped, PTL DEF Spec
-----------------------------------------------------------------------------
(* The range that waits stays short.                                       *)

Short(b) ==
  b.to - b.from <= MaxPending \/ b.to - b.from < Block \/ IsOneLine(b.from, b.to)

LEMMA EmptyIsShort ==
  ASSUME NEW b, Sound(b), b.from = b.to
  PROVE  Short(b)
<1>1. b.to \in Nat /\ b.to - b.from = 0
  BY DEF Sound, Buffer
<1> QED
  BY <1>1, SizesAssumption DEF Short

\* If not all is wanted, less than a block is left.
LEMMA CopyLeavesLittle ==
  ASSUME Faults = {}, NEW i \in Nat, NEW j \in Nat, i <= j, NEW outOff,
         NEW r \in AlignedCopy(i, j, outOff, FALSE)
  PROVE  j - (i + r.count) < Block
<1> DEFINE head == (Block - (i % Block)) % Block
           start == i + Least(head, j - i)
           end == j - ((j - start) % Block)
<1>0. Block \in Nat \ {0}
  BY SizesAssumption
<1>1. CASE (outOff + head) % Block # 0
  <2>1. r \in CopyRange(i, j)
    BY <1>1 DEF AlignedCopy
  <2>2. r.count = j - i
    BY <2>1, CopyRangeExact
  <2> QED
    BY <1>0, <2>2
<1>2. CASE (outOff + head) % Block = 0
  <2> DEFINE last == IF FALSE THEN j ELSE end
  <2>1. r.count = end - i
    <3>1. PICK q \in CopyRange(start, end) :
            r = [bytes |-> Span(i, start) \o q.bytes \o Span(end, last),
                 count |-> last - i, ok |-> TRUE]
      BY <1>2 DEF AlignedCopy
    <3>2. last = end
      OBVIOUS
    <3> HIDE DEF head, start, end, last
    <3> QED
      BY <3>1, <3>2
  <2>2. head \in Nat
    <3>1. i % Block \in Nat /\ i % Block < Block
      BY <1>0, Remainder
    <3>2. Block - (i % Block) \in Nat
      BY <1>0, <3>1
    <3> QED
      BY <1>0, <3>2, Remainder
  <2> HIDE DEF last
  <2> HIDE DEF head
  <2>3. j - start \in Nat
    BY <2>2 DEF Least
  <2> HIDE DEF start
  <2>4. (j - start) % Block \in Nat /\ (j - start) % Block < Block
    BY <1>0, <2>3, Remainder
  <2> QED
    BY <2>1, <2>4
<1> QED
  BY <1>1, <1>2

LEMMA FlushLeavesLittle ==
  ASSUME Faults = {}, data \in Seq(Byte), NEW b, Sound(b), NEW f \in FlushMmap(b, FALSE)
  PROVE  Short(f)
<1>0. FALSE \in BOOLEAN
  OBVIOUS
<1>1. Sound(f) /\ f.to = b.to
  BY <1>0, FlushMmapExact, Zenon DEF Moved
<1>2. /\ b \in Buffer /\ b.ok = TRUE /\ b.from \in Nat /\ b.to \in Nat /\ b.from <= b.to
      /\ b.to <= Len(data) /\ Len(b.buf) <= Capacity
  BY DEF Sound, Buffer
<1>3. CASE b.to - b.from < MinDirect
  <2> DEFINE p == Put(b, Waiting(b))
  <2>1. f = [p EXCEPT !.from = b.to]
    BY <1>3 DEF FlushMmap
  <2>2. p \in Buffer
    <3>1. Waiting(b) \in Seq(Byte)
      BY <1>2, SpanType DEF Waiting
    <3> QED
      BY <1>2, <3>1, PutExact
  <2> HIDE DEF p
  <2>3. f.from = b.to
    BY <2>1, <2>2 DEF Buffer
  <2> QED
    BY <1>1, <2>3, EmptyIsShort
<1>4. CASE ~(b.to - b.from < MinDirect)
  <2> DEFINE d == Drained(b)
  <2>1. d \in Buffer /\ d.from = b.from
    BY DrainedExact DEF Sound
  <2>2. CASE regular
    <3>1. PICK r \in AlignedCopy(b.from, b.to, Len(b.disk) + Len(b.buf), FALSE) :
            f = [d EXCEPT !.disk = @ \o r.bytes, !.from = @ + r.count, !.ok = r.ok]
      BY <1>4, <2>2 DEF FlushMmap
    <3>2. b.to - (b.from + r.count) < Block
      BY <1>2, <3>1, CopyLeavesLittle
    <3> HIDE DEF d
    <3>3. f.from = b.from + r.count
      BY <2>1, <3>1 DEF Buffer
    <3> QED
      BY <1>1, <3>2, <3>3 DEF Short
  <2>3. CASE ~regular
    <3>1. f = [d EXCEPT !.disk = @ \o Waiting(b), !.from = b.to]
      BY <1>4, <2>3 DEF FlushMmap
    <3> HIDE DEF d
    <3>2. f.from = b.to
      BY <2>1, <3>1 DEF Buffer
    <3> QED
      BY <1>1, <3>2, EmptyIsShort
  <2> QED
    BY <2>2, <2>3
<1> QED
  BY <1>3, <1>4

\* write_chunk of MmapInput leaves what it does not flush, or the line alone.
LEMMA AddMappedShort ==
  ASSUME Faults = {}, data \in Seq(Byte), NEW b, Sound(b), NEW i \in Nat, NEW j \in Nat,
         i <= j, j <= Len(data), IsOneLine(i, j), NEW f \in AddMapped(b, i, j)
  PROVE  Short(f)
<1> DEFINE owed == data[j] # Newline
<1>1. /\ b \in Buffer /\ b.some \in BOOLEAN /\ b.from \in Nat /\ b.to \in Nat
      /\ b.from <= b.to /\ Len(b.buf) <= Capacity /\ b.ok = TRUE
  BY DEF Sound, Buffer
<1>2. owed \in BOOLEAN
  OBVIOUS
<1>3. CASE b.some = TRUE /\ b.to = i
  <2> DEFINE joined == [b EXCEPT !.to = j, !.owed = owed]
  <2>1. f \in IF j - b.from > MaxPending THEN FlushMmap(joined, FALSE) ELSE {joined}
    BY <1>3 DEF AddMapped
  <2> HIDE DEF owed
  <2>2. /\ joined \in Buffer /\ joined.buf = b.buf /\ joined.from = b.from /\ joined.to = j
        /\ joined.ok = TRUE
    BY <1>1, <1>2 DEF Buffer
  <2> HIDE DEF joined
  <2>3. Sound(joined)
    BY <1>1, <1>3, <2>2 DEF Sound
  <2>4. CASE j - b.from > MaxPending
    BY <2>1, <2>3, <2>4, FlushLeavesLittle
  <2>5. CASE ~(j - b.from > MaxPending)
    <3>1. f = joined
      BY <2>1, <2>5
    <3>2. j - b.from <= MaxPending
      BY <1>1, <2>5, SizesAssumption
    <3> QED
      BY <2>2, <3>1, <3>2 DEF Short
  <2> QED
    BY <2>4, <2>5
<1>4. CASE ~(b.some = TRUE /\ b.to = i)
  <2>1. PICK g \in FlushMmap(b, TRUE) :
          f = IF g.ok THEN [g EXCEPT !.some = TRUE, !.from = i, !.to = j, !.owed = owed] ELSE g
    BY <1>1, <1>4 DEF AddMapped
  <2>2. g \in Buffer /\ g.ok = TRUE
    BY FlushAll DEF Moved, Sound, Buffer
  <2> HIDE DEF owed
  <2>3. f.from = i /\ f.to = j
    BY <1>2, <2>1, <2>2 DEF Buffer
  <2> QED
    BY <2>3 DEF Short
<1> QED
  BY <1>3, <1>4

\* The line in the pattern space is one line of the input.
ShortInv == WaitingBounded /\ IsOneLine(line, pos)

LEMMA ShortKept ==
  ASSUME IsOneLine(line, pos), UNCHANGED <<data, line, pos>>, Short(buffer')
  PROVE  ShortInv'
BY DEF ShortInv, WaitingBounded, Short, IsOneLine

LEMMA InitShort == Init => ShortInv
<1> SUFFICES ASSUME Init PROVE ShortInv
  OBVIOUS
<1>1. buffer.from = 0 /\ buffer.to = 0 /\ line = 0 /\ pos = 0
  BY DEF Init, EmptyBuffer
<1> QED
  BY <1>1, SizesAssumption DEF ShortInv, WaitingBounded, IsOneLine

LEMMA NextShort ==
  ASSUME Faults = {}, IInv, ShortInv, [Next]_vars
  PROVE  ShortInv'
<1>0. /\ data \in Seq(Byte) /\ buffer \in Buffer /\ mapped \in BOOLEAN
      /\ line \in Nat /\ pos \in Nat /\ line <= pos /\ pos <= Len(data)
      /\ IsOneLine(line, pos)
  BY DEF IInv, TypeOK, ShortInv
<1>1. ASSUME pc = "open" PROVE Sound(buffer)
  <2>1. pc # "failed"
    BY <1>1
  <2> QED
    BY <2>1, SoundBuffer
<1>2. ASSUME UNCHANGED <<data, line, pos>>, Sound(buffer'), buffer'.from = buffer'.to PROVE ShortInv'
  BY <1>0, <1>2, EmptyIsShort, ShortKept
<1>3. CASE GetLine
  <2>1. /\ UNCHANGED <<data, buffer>> /\ line' = pos
        /\ \A k \in pos + 1 .. pos' - 1 : data[k] # Newline
    BY <1>3 DEF GetLine
  <2> QED
    BY <2>1 DEF ShortInv, WaitingBounded, IsOneLine
<1>4. ASSUME NEW bytes, NEW outcomes, Call(outcomes, bytes)
      PROVE  UNCHANGED <<data, line, pos>> /\ buffer' \in outcomes /\ Sound(buffer)
  BY <1>1, <1>4 DEF Call
<1>5. ASSUME Sound(buffer), NEW b \in Settle(buffer) PROVE Sound(b) /\ b.ok = TRUE
  BY <1>0, <1>5, SettleExact DEF Settled, Sound, Buffer
<1>6. CASE WriteLine
  <2> DEFINE nl == data[pos] = Newline
             content == Span(line, IF nl THEN pos - 1 ELSE pos)
             outcomes == UNION {IF ~b.ok THEN {b}
                                ELSE IF mapped THEN AddMapped(b, line, pos)
                                ELSE AddOwned(b, content, nl) : b \in Settle(buffer)}
  <2>1. Call(outcomes, Bytes(content, nl)) /\ line < pos
    BY <1>6, Zenon DEF WriteLine
  <2>2. content \in Seq(Byte) /\ nl \in BOOLEAN
    BY <1>0, <2>1, LineSplit
  <2>3. UNCHANGED <<data, line, pos>> /\ buffer' \in outcomes /\ Sound(buffer)
    BY <1>4, <2>1, Zenon
  <2>4. PICK b \in Settle(buffer) :
          buffer' \in IF ~b.ok THEN {b}
                      ELSE IF mapped THEN AddMapped(b, line, pos) ELSE AddOwned(b, content, nl)
    BY <2>3, Zenon
  <2>5. Sound(b) /\ b.ok = TRUE
    BY <1>5, <2>3, Zenon
  <2> HIDE DEF content, nl, outcomes
  <2>6. CASE mapped
    <3>1. buffer' \in AddMapped(b, line, pos)
      BY <2>4, <2>5, <2>6
    <3> QED
      BY <1>0, <2>3, <2>5, <3>1, AddMappedShort, ShortKept
  <2>7. CASE ~mapped
    <3>1. buffer' \in AddOwned(b, content, nl)
      BY <2>4, <2>5, <2>7
    <3> QED
      BY <1>0, <1>2, <2>2, <2>3, <2>5, <3>1, AddOwnedExact, Zenon
  <2> QED
    BY <2>6, <2>7
<1>7. CASE WriteText
  <2>1. PICK t \in Texts :
          Call(UNION {IF b.ok THEN AddOwned(b, t.content, t.nl) ELSE {b} : b \in Settle(buffer)},
               Bytes(t.content, t.nl))
    BY <1>7, Zenon DEF WriteText
  <2>2. t.content \in Seq(Byte) /\ t.nl \in BOOLEAN
    BY BytesAssumption
  <2> DEFINE outcomes == UNION {IF b.ok THEN AddOwned(b, t.content, t.nl) ELSE {b} : b \in Settle(buffer)}
  <2>3. UNCHANGED <<data, line, pos>> /\ buffer' \in outcomes /\ Sound(buffer)
    BY <1>4, <2>1, Zenon
  <2>4. PICK b \in Settle(buffer) :
          buffer' \in IF b.ok THEN AddOwned(b, t.content, t.nl) ELSE {b}
    BY <2>3, Zenon
  <2> HIDE DEF outcomes
  <2>5. Sound(b) /\ buffer' \in AddOwned(b, t.content, t.nl)
    BY <1>5, <2>3, <2>4
  <2> QED
    BY <1>0, <1>2, <2>2, <2>3, <2>5, AddOwnedExact, Zenon
<1>8. CASE CopyFile
  <2>1. PICK f \in ReadFiles : Call({IF b.ok THEN Put(b, f) ELSE b : b \in FlushMmap(buffer, TRUE)}, f)
    BY <1>8, Zenon DEF CopyFile
  <2>2. f \in Seq(Byte)
    BY BytesAssumption
  <2> DEFINE outcomes == {IF b.ok THEN Put(b, f) ELSE b : b \in FlushMmap(buffer, TRUE)}
  <2>3. UNCHANGED <<data, line, pos>> /\ buffer' \in outcomes /\ Sound(buffer)
    BY <1>4, <2>1, Zenon
  <2>4. PICK b \in FlushMmap(buffer, TRUE) : buffer' = IF b.ok THEN Put(b, f) ELSE b
    BY <2>3, Zenon
  <2> HIDE DEF outcomes
  <2>5. Sound(b) /\ b.from = b.to
    BY <1>0, <2>3, FlushAll, Zenon DEF Moved
  <2>6. buffer' = Put(b, f)
    BY <2>4, <2>5 DEF Sound
  <2>7. Sound(buffer') /\ buffer'.from = buffer'.to
    BY <1>0, <2>2, <2>5, <2>6, PutAdds, Zenon DEF Added
  <2> QED
    BY <1>2, <2>3, <2>7
<1>9. CASE Flush
  <2>1. UNCHANGED <<data, line, pos>> /\ Sound(buffer) /\ buffer' \in Flushed(buffer)
    BY <1>4, <1>9 DEF Flush
  <2> QED
    BY <1>0, <1>2, <2>1, FlushedExact, Zenon
<1>10. CASE Close
  <2>1. pc = "open" /\ UNCHANGED <<data, line, pos>>
    BY <1>10 DEF Close
  <2>2. PICK b \in Settle(buffer) \cup {buffer} : buffer' \in IF b.ok THEN Flushed(b) ELSE {b}
    BY <1>10 DEF Close
  <2>3. Sound(b) /\ b.ok = TRUE
    BY <1>1, <1>5, <2>1 DEF Sound, Buffer
  <2>4. buffer' \in Flushed(b)
    BY <2>2, <2>3
  <2> QED
    BY <1>0, <1>2, <2>1, <2>3, <2>4, FlushedExact, Zenon
<1>11. CASE WriteFails
  <2>1. buffer'.from = buffer.from /\ buffer'.to = buffer.to /\ UNCHANGED <<data, line, pos>>
    BY <1>0, <1>11 DEF WriteFails, Buffer
  <2> QED
    BY <2>1 DEF ShortInv, WaitingBounded, IsOneLine
<1>12. CASE UNCHANGED vars
  BY <1>12 DEF vars, ShortInv, WaitingBounded, IsOneLine
<1> QED
  BY <1>3, <1>6, <1>7, <1>8, <1>9, <1>10, <1>11, <1>12 DEF Next, Terminated

\* FastIO!WaitingBounded: the range that waits in the mapping, which joins lines
\* as long as they follow each other, never gets longer than max_pending_write,
\* but for a single line and what is left of an aligned write, while
\* copy_file_range copies what it is asked to.
THEOREM WaitingShort ==
  ASSUME Faults = {}
  PROVE  Spec => []WaitingBounded
<1>1. IInv /\ ShortInv /\ [Next]_vars => IInv' /\ ShortInv'
  BY NextIInv, NextShort
<1>2. Init => IInv /\ ShortInv
  BY InitIInv, InitShort
<1>3. IInv /\ ShortInv => WaitingBounded
  BY DEF ShortInv
<1> QED
  BY <1>1, <1>2, <1>3, PTL DEF Spec
=============================================================================
