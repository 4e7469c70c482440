------------------------------- MODULE FastIO -------------------------------
(***************************************************************************)
(* The input and output of one file: the LineReader and the OutputBuffer   *)
(* of fast_io.rs.                                                          *)
(*                                                                         *)
(* A file that can be mapped is not copied to be printed: the buffer keeps *)
(* the range of the mapping that waits to be written, extends it while     *)
(* lines come one after the other, and writes it with copy_file_range.     *)
(* All other output goes through a BufWriter, and a newline missing at the *)
(* end of the last chunk is owed until something follows.                  *)
(*                                                                         *)
(* A file is a sequence of bytes.  promised is a history variable: the     *)
(* bytes the calls so far asked to be written, in their order.             *)
(***************************************************************************)
EXTENDS Integers, Sequences

CONSTANTS Byte,        \* what a byte may be
          Newline,     \* the byte that ends a line
          Inputs,      \* the contents of the input file
          Texts,       \* chunks the program makes itself: [content, nl]
          ReadFiles,   \* what the files of r commands contain
          MinDirect,   \* MIN_DIRECT_WRITE
          MaxPending,  \* max_pending_write
          Block,       \* the block size
          Capacity,    \* the capacity of the BufWriter
          Faults,      \* how copy_file_range may misbehave: see CopyRange
          MaxCalls     \* bound on the calls of a behaviour

ASSUME BytesAssumption ==
  /\ Newline \in Byte
  /\ Inputs \subseteq Seq(Byte) /\ ReadFiles \subseteq Seq(Byte)
  /\ Texts \subseteq [content : Seq(Byte), nl : BOOLEAN]

ASSUME SizesAssumption ==
  /\ MinDirect \in Nat \ {0} /\ MaxPending \in Nat
  /\ Block \in Nat \ {0} /\ Capacity \in Nat \ {0}

ASSUME FaultsAssumption == Faults \subseteq {"unsupported", "ends", "fails"}

VARIABLES data,      \* the input file
          mapped,    \* LineReader::MmapInput, or ReadInput
          regular,   \* input and output are both regular files
          pos,       \* the cursor
          line,      \* where the line in the pattern space starts; it ends at pos
          buffer,    \* the OutputBuffer, and the output file it writes to
          pc, calls, promised

vars == <<data, mapped, regular, pos, line, buffer, pc, calls, promised>>

\* The bytes of the input from one position up to another.
Span(i, j) == SubSeq(data, i + 1, j)

\* disk is the output file, buf the BufWriter's buffer, from and to the range
\* of mmap_chunk (some is FALSE for None), owed is pending_newline.
Buffer == [disk : Seq(Byte), buf : Seq(Byte), some : BOOLEAN, from : Nat, to : Nat,
           owed : BOOLEAN, ok : BOOLEAN]
EmptyBuffer == [disk |-> <<>>, buf |-> <<>>, some |-> FALSE, from |-> 0, to |-> 0,
                owed |-> FALSE, ok |-> TRUE]

Waiting(b) == Span(b.from, b.to)
-----------------------------------------------------------------------------
(* The output buffer: every operator returns the set of possible outcomes. *)

\* BufWriter::write_all: what would fill the buffer alone goes past it; other
\* bytes are kept, and only if they do not fit, the buffer is written first.
Put(b, bytes) ==
  IF Len(bytes) >= Capacity THEN [b EXCEPT !.disk = @ \o b.buf \o bytes, !.buf = <<>>]
  ELSE IF Len(b.buf) + Len(bytes) > Capacity
  THEN [b EXCEPT !.disk = @ \o b.buf, !.buf = bytes]
  ELSE [b EXCEPT !.buf = @ \o bytes]

\* BufWriter::flush
Drained(b) == [b EXCEPT !.disk = @ \o b.buf, !.buf = <<>>]

Least(i, j) == IF i < j THEN i ELSE j

\* reliable_copy_file_range: the bytes written, and the number returned.  The
\* call copies everything, in however many parts; or after k bytes it says that
\* it is not supported and the rest is written from the start of the range; or
\* it says that the input has ended; or it fails.
CopyRange(i, j) ==
  {[bytes |-> Span(i, j), count |-> j - i, ok |-> TRUE]} \cup
  UNION {{[bytes |-> Span(i, i + k) \o Span(i, j - k), count |-> j - i - k, ok |-> TRUE] :
            f \in Faults \cap {"unsupported"}}
         \cup {[bytes |-> Span(i, i + k), count |-> j - i, ok |-> f = "ends"] :
                 f \in Faults \cap {"ends", "fails"}} : k \in 0 .. j - i - 1}

\* Mutation: the bytes before the first whole block are counted twice.
AlignedCopyMiscounted(i, j, outOff, complete) ==
  LET head == (Block - (i % Block)) % Block
      start == i + Least(head, j - i)
      end == j - ((j - start) % Block)
      last == IF complete THEN j ELSE end
  IN  IF (outOff + head) % Block # 0 THEN CopyRange(i, j)
      ELSE {[bytes |-> Span(i, start) \o r.bytes \o Span(end, last),
             count |-> (last - i) + (start - i), ok |-> TRUE] : r \in CopyRange(start, end)}

\* aligned_copy_file_range: write up to a block boundary, copy whole blocks and
\* write the rest if all is wanted.  An error of the copy is not looked at.
AlignedCopy(i, j, outOff, complete) ==
  LET head == (Block - (i % Block)) % Block
      start == i + Least(head, j - i)
      end == j - ((j - start) % Block)
      last == IF complete THEN j ELSE end
  IN  IF (outOff + head) % Block # 0 THEN CopyRange(i, j)
      ELSE {[bytes |-> Span(i, start) \o r.bytes \o Span(end, last),
             count |-> last - i, ok |-> TRUE] : r \in CopyRange(start, end)}

\* Mutation: the buffer is not flushed before a direct write.
FlushMmapDirect(b, complete) ==
  IF b.to - b.from < MinDirect THEN {[Put(b, Waiting(b)) EXCEPT !.from = b.to]}
  ELSE IF regular
  THEN {[b EXCEPT !.disk = @ \o r.bytes, !.from = @ + r.count, !.ok = r.ok] :
          r \in AlignedCopy(b.from, b.to, Len(b.disk), complete)}
  ELSE {[b EXCEPT !.disk = @ \o Waiting(b), !.from = b.to]}

\* flush_mmap: little goes to the BufWriter, much directly to the file.
FlushMmap(b, complete) ==
  IF b.to - b.from < MinDirect THEN {[Put(b, Waiting(b)) EXCEPT !.from = b.to]}
  ELSE IF regular
  THEN {[Drained(b) EXCEPT !.disk = @ \o r.bytes, !.from = @ + r.count, !.ok = r.ok] :
          r \in AlignedCopy(b.from, b.to, Len(b.disk) + Len(b.buf), complete)}
  ELSE {[Drained(b) EXCEPT !.disk = @ \o Waiting(b), !.from = b.to]}

\* Mutation: what is mapped stays behind the newline.
SettleBuffered(b) ==
  IF ~b.owed THEN {b} ELSE {[Put(b, <<Newline>>) EXCEPT !.owed = FALSE]}

\* flush_pending_newline, and what write_chunk does first.
Settle(b) ==
  IF ~b.owed THEN {b}
  ELSE {IF f.ok THEN [Put(f, <<Newline>>) EXCEPT !.owed = FALSE] ELSE f :
          f \in FlushMmap(b, TRUE)}

\* Mutation: adjacent ranges are joined however long they get.
AddMappedUnbounded(b, i, j) ==
  LET owed == data[j] # Newline
  IN  IF b.some /\ b.to = i THEN {[b EXCEPT !.to = j, !.owed = owed]}
      ELSE {IF f.ok THEN [f EXCEPT !.some = TRUE, !.from = i, !.to = j, !.owed = owed]
            ELSE f : f \in FlushMmap(b, TRUE)}

\* write_chunk of MmapInput: join adjacent ranges, start a new range otherwise.
AddMapped(b, i, j) ==
  LET owed == data[j] # Newline
      joined == [b EXCEPT !.to = j, !.owed = owed]
  IN  IF b.some /\ b.to = i
      THEN IF j - b.from > MaxPending THEN FlushMmap(joined, FALSE) ELSE {joined}
      ELSE {IF f.ok THEN [f EXCEPT !.some = TRUE, !.from = i, !.to = j, !.owed = owed]
            ELSE f : f \in FlushMmap(b, TRUE)}

\* write_chunk of Owned
AddOwned(b, content, nl) ==
  {IF f.ok THEN [Put(Put(f, content), IF nl THEN <<Newline>> ELSE <<>>) EXCEPT !.owed = ~nl]
   ELSE f : f \in FlushMmap(b, TRUE)}

\* The bytes of a chunk, after the newline owed for the one before.
Bytes(content, nl) ==
  (IF buffer.owed THEN <<Newline>> ELSE <<>>) \o content \o (IF nl THEN <<Newline>> ELSE <<>>)

\* A call of the buffer, which adds to what is promised.
Call(outcomes, bytes) ==
  /\ pc = "open" /\ calls < MaxCalls
  /\ buffer' \in outcomes
  /\ pc' = IF buffer'.ok THEN pc ELSE "failed"
  /\ calls' = calls + 1
  /\ promised' = promised \o bytes
  /\ UNCHANGED <<data, mapped, regular, pos, line>>
-----------------------------------------------------------------------------
(* What the program does with them.                                        *)

\* get_line of either cursor: up to the next newline, or to the end.
GetLine ==
  /\ pc = "open" /\ pos < Len(data)
  /\ \E end \in pos + 1 .. Len(data) :
       /\ \A i \in pos + 1 .. end - 1 : data[i] # Newline
       /\ data[end] = Newline \/ end = Len(data)
       /\ pos' = end
  /\ line' = pos
  /\ UNCHANGED <<data, mapped, regular, buffer, pc, calls, promised>>

\* Print the line as it was read.
WriteLine ==
  /\ line < pos
  /\ LET nl == data[pos] = Newline
         content == Span(line, IF nl THEN pos - 1 ELSE pos)
     IN  Call(UNION {IF ~b.ok THEN {b}
                     ELSE IF mapped THEN AddMapped(b, line, pos)
                     ELSE AddOwned(b, content, nl) : b \in Settle(buffer)},
              Bytes(content, nl))

\* Print a text, or a line that was changed; nothing at all is dropped.
WriteText ==
  \E t \in Texts :
    /\ t.nl \/ t.content # <<>>
    /\ Call(UNION {IF b.ok THEN AddOwned(b, t.content, t.nl) ELSE {b} : b \in Settle(buffer)},
            Bytes(t.content, t.nl))

\* copy_file: a file that cannot be read is empty.
CopyFile ==
  \E f \in ReadFiles :
    Call({IF b.ok THEN Put(b, f) ELSE b : b \in FlushMmap(buffer, TRUE)}, f)

\* Mutation: what is mapped is not flushed.
FlushedBuffered(b) == {Drained(b)}

\* flush
Flushed(b) == {IF f.ok THEN Drained(f) ELSE f : f \in FlushMmap(b, TRUE)}

\* The output is flushed after every chunk with -u.
Flush == Call(Flushed(buffer), <<>>)

\* The end of the file; after q the newline that is owed is written, too.
Close ==
  /\ pc = "open"
  /\ \E quit \in BOOLEAN :
       /\ buffer' \in UNION {IF b.ok THEN Flushed(b) ELSE {b} :
                               b \in IF quit THEN Settle(buffer) ELSE {buffer}}
       /\ promised' = IF quit /\ buffer.owed THEN Append(promised, Newline) ELSE promised
  /\ pc' = IF buffer'.ok THEN "closed" ELSE "failed"
  /\ UNCHANGED <<data, mapped, regular, pos, line, calls>>

\* A write fails after some bytes, and the program ends.
WriteFails ==
  /\ pc = "open"
  /\ \E k \in 0 .. Len(buffer.buf \o Waiting(buffer)) :
       buffer' = [buffer EXCEPT !.disk = @ \o SubSeq(buffer.buf \o Waiting(buffer), 1, k),
                                !.ok = FALSE]
  /\ pc' = "failed"
  /\ UNCHANGED <<data, mapped, regular, pos, line, calls, promised>>

Terminated == pc \in {"closed", "failed"} /\ UNCHANGED vars

Init ==
  /\ data \in Inputs /\ mapped \in BOOLEAN /\ regular \in BOOLEAN
  /\ pos = 0 /\ line = 0
  /\ buffer = EmptyBuffer
  /\ pc = "open" /\ calls = 0 /\ promised = <<>>

Next ==
  \/ GetLine \/ WriteLine \/ WriteText \/ CopyFile \/ Flush \/ Close
  \/ WriteFails \/ Terminated

Spec == Init /\ [][Next]_vars
-----------------------------------------------------------------------------
(* Properties.                                                             *)

\* The cursor, the line and the range waiting stay inside the input, and the
\* BufWriter, which may be full, never holds more than its capacity.
TypeOK ==
  /\ pc \in {"open", "closed", "failed"}
  /\ data \in Seq(Byte) /\ mapped \in BOOLEAN /\ regular \in BOOLEAN
  /\ line \in Nat /\ pos \in Nat /\ line <= pos /\ pos <= Len(data)
  /\ buffer \in Buffer
  /\ buffer.from <= buffer.to /\ buffer.to <= pos
  /\ Len(buffer.buf) <= Capacity
  /\ buffer.ok = (pc # "failed")
  /\ calls \in Nat /\ promised \in Seq(Byte)

\* What is in the file, in the BufWriter and in the mapped range, in this
\* order, is what the calls wrote: no byte is lost, doubled or out of order
\* whichever of the three ways each chunk took.
OutputInOrder ==
  buffer.ok => buffer.disk \o buffer.buf \o Waiting(buffer) = promised

\* Even after a failed write the file holds the beginning of the output.
DiskIsPrefix ==
  /\ Len(buffer.disk) <= Len(promised)
  /\ buffer.disk = SubSeq(promised, 1, Len(buffer.disk))

\* When a file is finished all of its output is in the file.
AllWritten == pc = "closed" => buffer.disk = promised

\* The range that waits to be written is at most max_pending_write long, unless
\* it is a single line or less than a block.
IsOneLine(i, j) == \A k \in i + 1 .. j - 1 : data[k] # Newline
WaitingBounded ==
  LET length == buffer.to - buffer.from
  IN  length <= MaxPending \/ length < Block \/ IsOneLine(buffer.from, buffer.to)

\* pending_newline is "true when the last write didn't end with \n".
NewlineOwedForLastWrite ==
  buffer.owed => promised # <<>> /\ promised[Len(promised)] # Newline
=============================================================================
