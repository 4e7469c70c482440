--------------------------- MODULE ArgumentsProofs ---------------------------
(***************************************************************************)
(* The cursor of the compiler stays in the current line, whatever the      *)
(* scripts are.  A step moves it within the line (Moves), or takes a line. *)
(* The places where the code takes the byte behind a string need more:     *)
(* that the string ended at its delimiter.  The types come after that:     *)
(* what each piece of an argument stands for is bytes and references.  At  *)
(* the end, the loops that look for the end of a regular expression are    *)
(* related to how Readings says that its bytes are meant.                  *)
(***************************************************************************)
EXTENDS Readings, NatInduction, SequenceTheorems, TLAPS

\* A run of bytes that starts in the line ends in it.
LEMMA RunEndIn ==
  ASSUME NEW n \in Nat, n = Len(line), NEW p \in 0 .. n, NEW S
  PROVE  RunEnd(p, S) \in p .. n
<1> DEFINE run == {q \in p .. n - 1 : \A i \in p .. q : At(i) \in S}
<1>0. p \in Int /\ n - 1 \in Int /\ p <= n
  OBVIOUS
<1>1. IsFiniteSet(p .. n - 1) /\ Cardinality(p .. n - 1) = n - p
  <2>1. /\ IsFiniteSet(p .. n - 1)
        /\ Cardinality(p .. n - 1) = IF p > n - 1 THEN 0 ELSE n - 1 - p + 1
    BY <1>0, FS_Interval
  <2>2. QED
    BY <1>0, <2>1
<1>2. IsFiniteSet(run) /\ Cardinality(run) <= Cardinality(p .. n - 1)
  <2>1. run \in SUBSET (p .. n - 1)
    OBVIOUS
  <2>2. QED
    BY <1>1, <2>1, FS_Subset
<1>3. Cardinality(run) \in Nat
  BY <1>2, FS_CardinalityType
<1>4. RunEnd(p, S) = p + Cardinality(run)
  BY DEF RunEnd
<1> HIDE DEF run
<1>5. QED
  BY <1>1, <1>2, <1>3, <1>4

-----------------------------------------------------------------------------
TextTyped ==
  /\ job \in Job
  /\ source \in Nat /\ taken \in Nat
  /\ line \in Seq(Byte)

\* The next line is one of the lines of the scripts.
LEMMA LineTyped ==
  ASSUME TextTyped, Advance
  PROVE  NextLine \in Seq(Byte) /\ source' \in Nat /\ taken' \in Nat
<1> DEFINE lines(i) == job.scripts[i].lines
<1>0. job.scripts \in Seq(Source)
  BY DEF TextTyped, Job
<1>1. \A i \in 1 .. Len(job.scripts) : lines(i) \in Seq(Seq(Byte))
  <2>1. \A i \in 1 .. Len(job.scripts) : job.scripts[i] \in Source
    BY <1>0
  <2>2. \A s \in Source : s.lines \in Seq(Seq(Byte))
    BY DEF Source
  <2>3. QED
    BY <2>1, <2>2
<1>2. CASE Here
  <2>1. source \in 1 .. Len(job.scripts) /\ taken + 1 \in 1 .. Len(lines(source))
    BY <1>0, <1>1, <1>2 DEF Here, InSource, TextTyped
  <2>2. NextLine = lines(source)[taken + 1]
    BY <1>2 DEF NextLine
  <2>3. QED
    BY <1>1, <1>2, <2>1, <2>2 DEF Advance, TextTyped
<1>3. CASE ~Here
  <2>1. Stops # {} /\ job.scripts[NextSource].readable
    BY <1>3 DEF Advance, HasLine
  <2>2. Stops \in SUBSET Nat
    BY <1>0 DEF Stops, TextTyped
  <2>3. NextSource \in Stops
    BY <2>1, <2>2, Least DEF NextSource
  <2>4. NextSource \in 1 .. Len(job.scripts) /\ lines(NextSource) # <<>>
    BY <1>0, <2>1, <2>3 DEF Stops, TextTyped
  <2>5. lines(NextSource)[1] \in Seq(Byte)
    BY <1>1, <2>4
  <2>6. NextLine = lines(NextSource)[1] /\ source' = NextSource /\ taken' = 1
    BY <1>3 DEF NextLine, Advance
  <2>7. QED
    BY <2>4, <2>5, <2>6
<1>4. QED
  BY <1>2, <1>3
-----------------------------------------------------------------------------
\* The step moves the cursor within the line.
Moves == UNCHANGED <<job, source, taken, line>> /\ pos' \in 0 .. Len(line)

\* The same of a step that ends no string.
Steps == Moves /\ stage' # "ready"

LEMMA OnInLine ==
  ASSUME NEW n \in Nat, n = Len(line), NEW p \in 0 .. n, NEW c, On(p, c)
  PROVE  p + 1 \in 0 .. n
BY DEF On, Eol

LEMMA RefuseSteps == CursorInLine /\ (Refuse \/ Crash) => Steps
BY DEF Refuse, Crash, Stop, Steps, Moves, inputVars, CursorInLine

LEMMA GotoSteps ==
  ASSUME NEW where, where # "ready", NEW p \in 0 .. Len(line), Goto(where, p)
  PROVE  Steps
BY DEF Goto, Steps, Moves, inputVars

LEMMA CompleteSteps ==
  ASSUME NEW c, NEW p \in 0 .. Len(line), Complete(c, p)
  PROVE  Steps
BY GotoSteps DEF Complete

LEMMA EndSteps ==
  ASSUME NEW n \in Nat, n = Len(line), NEW p \in 0 .. n, NEW c, CursorInLine, End(c, p)
  PROVE  Steps
<1>1. ASSUME NEW q \in 0 .. n, Complete(c, q) PROVE Steps
  BY <1>1, CompleteSteps
<1>2. On(p, ";") => p + 1 \in 0 .. n
  BY OnInLine
<1>3. QED
  BY <1>1, <1>2, RefuseSteps, Zenon DEF End

-----------------------------------------------------------------------------
(* Where the pieces of a string end.                                       *)

LEMMA PieceAt == \A bytes, p : Got(bytes, p).at = p /\ Bad(p).at = p /\ Panic(p).at = p
BY DEF Got, Bad, Panic

LEMMA NumericEscapeAt ==
  ASSUME NEW n \in Nat, n = Len(line), NEW p \in 0 .. n, NEW c \in DOMAIN NumericEscapes
  PROVE  NumericEscape(c, p).at \in 0 .. n
<1> DEFINE digits == NumericEscapes[c].digits
           run == RunEnd(p, {b \in Byte : Value(b) < NumericEscapes[c].radix})
           end == IF run > p + digits THEN p + digits ELSE run
<1>1. digits \in Nat
  BY DEF NumericEscapes
<1>2. run \in p .. n
  BY RunEndIn
<1>3. end \in 0 .. n
  <2> HIDE DEF digits, run
  <2> QED BY <1>1, <1>2
<1>4. NumericEscape(c, p).at \in {p, end}
  <2> HIDE DEF digits, run
  <2> QED BY PieceAt, Zenon DEF NumericEscape, digits, run
<1> HIDE DEF end
<1>5. QED
  BY <1>3, <1>4

\* An escape is read to a place in the line, if there is a byte after the backslash.
LEMMA EscapeAt ==
  ASSUME NEW n \in Nat, n = Len(line), NEW p \in 0 .. n - 1, NEW other
  PROVE  Escape(p, other).at \in 0 .. n
<1>1. p + 1 \in 0 .. n
  OBVIOUS
<1>2. CASE OnAny(p, DOMAIN NamedEscapes)
  BY <1>1, <1>2, PieceAt, Zenon DEF Escape
<1>3. CASE ~OnAny(p, DOMAIN NamedEscapes) /\ OnAny(p, DOMAIN NumericEscapes)
  <2> DEFINE c == CHOOSE c \in DOMAIN NumericEscapes : On(p, c)
  <2>1. c \in DOMAIN NumericEscapes
    BY <1>3, Zenon DEF OnAny
  <2>2. Escape(p, other) = NumericEscape(c, p + 1)
    BY <1>3, Zenon DEF Escape
  <2> HIDE DEF c
  <2>3. QED
    BY <1>1, <2>1, <2>2, NumericEscapeAt
<1>4. CASE ~OnAny(p, DOMAIN NamedEscapes) /\ ~OnAny(p, DOMAIN NumericEscapes)
  <2>1. Escape(p, other).at \in {p + 1, ControlEscape(p + 1).at}
    BY <1>4, PieceAt, Zenon DEF Escape
  <2>2. ControlEscape(p + 1).at \in 0 .. n
    <3>1. CASE Eol(p + 1)
      BY <1>1, <3>1, PieceAt, Zenon DEF ControlEscape
    <3>2. CASE ~Eol(p + 1)
      <4>1. p + 1 + 1 \in 0 .. n
        BY <3>2 DEF Eol
      <4>2. ControlEscape(p + 1).at \in {p + 1, p + 1 + 1}
        BY <3>2, PieceAt, Zenon DEF ControlEscape
      <4>3. QED
        BY <1>1, <4>1, <4>2
    <3>3. QED
      BY <3>1, <3>2
  <2>3. QED
    BY <1>1, <2>1, <2>2
<1>5. QED
  BY <1>2, <1>3, <1>4

LEMMA KeptAt ==
  ASSUME NEW n \in Nat, n = Len(line), NEW p \in 0 .. n
  PROVE  Kept(p).at \in 0 .. n
<1>1. CASE Eol(p)
  BY <1>1, PieceAt, Zenon DEF Kept
<1>2. CASE ~Eol(p)
  <2>1. p \in 0 .. n - 1
    BY <1>2 DEF Eol
  <2>2. QED
    BY <1>2, <2>1, EscapeAt DEF Kept
<1>3. QED
  BY <1>1, <1>2

LEMMA QuantifierAt ==
  ASSUME NEW n \in Nat, n = Len(line), NEW p \in 0 .. n - 1, NEW opening
  PROVE  Quantifier(p, opening).at \in 0 .. n
<1>1. p + 1 \in 0 .. n
  OBVIOUS
<1>2. ContentEnd(p + 1) \in 0 .. n
  <2>1. ContentEnd(p + 1) \in p + 1 .. n
    BY <1>1, RunEndIn DEF ContentEnd
  <2>2. QED
    BY <1>1, <2>1
<1>3. Quantifier(p, opening).at = ContentEnd(p + 1)
  BY PieceAt, Zenon DEF Quantifier
<1>4. QED
  BY <1>2, <1>3

LEMMA BracketOpeningAt ==
  ASSUME NEW n \in Nat, n = Len(line), NEW p \in 0 .. n
  PROVE  BracketOpening(p).at \in 0 .. n
<1>1. CASE Eol(p)
  BY <1>1, PieceAt, Zenon DEF BracketOpening
<1>2. CASE ~Eol(p) /\ At(p) \notin Markers
  <2>1. p + 1 \in 0 .. n
    BY <1>2 DEF Eol
  <2>2. QED
    BY <1>2, <2>1, PieceAt, Zenon DEF BracketOpening
<1>3. CASE ~Eol(p) /\ At(p) \in Markers /\ NameEnds(p) = {}
  BY <1>3, PieceAt DEF BracketOpening
<1>4. CASE ~Eol(p) /\ At(p) \in Markers /\ NameEnds(p) # {}
  <2> DEFINE q == CHOOSE q \in NameEnds(p) : \A r \in NameEnds(p) : q <= r
  <2>1. NameEnds(p) \subseteq p + 1 .. n - 2
    BY DEF NameEnds
  <2>2. q \in NameEnds(p)
    <3>1. NameEnds(p) \in SUBSET Nat
      BY <2>1
    <3>2. QED
      BY <1>4, <3>1, Least
  <2>3. BracketOpening(p).at = q + 2
    BY <1>4, PieceAt, Zenon DEF BracketOpening
  <2> HIDE DEF q
  <2>4. QED
    BY <2>1, <2>2, <2>3
<1>5. QED
  BY <1>1, <1>2, <1>3, <1>4

LEMMA FeedMoves ==
  ASSUME NEW piece, Feed(piece), piece.at \in 0 .. Len(line), UNCHANGED <<job, source, taken, line>>
  PROVE  Moves
BY DEF Feed, Moves

LEMMA StopMoves ==
  ASSUME CursorInLine, NEW how, Stop(how), UNCHANGED <<job, source, taken, line>>
  PROVE  Moves
BY DEF Stop, Moves, CursorInLine

LEMMA OpenSteps ==
  ASSUME NEW n \in Nat, n = Len(line), NEW p \in 0 .. n, NEW kind, kind # "ready", NEW purpose, CursorInLine,
         Open(p, kind, purpose), UNCHANGED <<job, source, taken, line>>
  PROVE  Steps
<1>0. stage' \in {"error", kind}
  BY Zenon DEF Open, Stop
<1>1. CASE Eol(p)
  <2>1. pos' = pos
    BY <1>1, Zenon DEF Open, Stop
  <2>2. QED
    BY <1>0, <2>1 DEF Steps, Moves, CursorInLine
<1>2. CASE ~Eol(p)
  <2>1. p + 1 \in 0 .. n
    BY <1>2 DEF Eol
  <2>2. pos' \in {pos, p + 1}
    BY Zenon DEF Open, Stop
  <2>3. QED
    BY <1>0, <2>1, <2>2 DEF Steps, Moves, CursorInLine
<1>3. QED
  BY <1>1, <1>2

LEMMA RegexEscapeAt ==
  ASSUME NEW n \in Nat, n = Len(line), NEW p \in 0 .. n
  PROVE  RegexEscape(p).at \in 0 .. n
<1>1. CASE Eol(p)
  BY <1>1, PieceAt, Zenon DEF RegexEscape
<1>2. CASE ~Eol(p)
  <2>1. p \in 0 .. n - 1 /\ p + 1 \in 0 .. n
    BY <1>2 DEF Eol
  <2> DEFINE quantifier == Quantifier(p, <<Backslash, Code["{"]>>)
  <2>2. RegexEscape(p).at \in {p + 1, quantifier.at, Kept(p).at}
    BY <1>2, PieceAt, Zenon DEF RegexEscape
  <2>3. quantifier.at \in 0 .. n /\ Kept(p).at \in 0 .. n
    BY <2>1, QuantifierAt, KeptAt
  <2> HIDE DEF quantifier
  <2>4. QED
    BY <2>1, <2>2, <2>3
<1>3. QED
  BY <1>1, <1>2

LEMMA TransEscapeAt ==
  ASSUME NEW n \in Nat, n = Len(line), NEW p \in 0 .. n
  PROVE  TransEscape(p).at \in 0 .. n
<1>1. CASE Eol(p)
  BY <1>1, PieceAt, Zenon DEF TransEscape
<1>2. CASE ~Eol(p)
  <2>1. p + 1 \in 0 .. n
    BY <1>2 DEF Eol
  <2>2. TransEscape(p).at \in {p + 1, Kept(p).at}
    BY <1>2, PieceAt, Zenon DEF TransEscape
  <2>3. QED
    BY <2>1, <2>2, KeptAt
<1>3. QED
  BY <1>1, <1>2

LEMMA ReplacementPieceAt ==
  ASSUME NEW n \in Nat, n = Len(line), NEW p \in 0 .. n, ~Eol(p), ~(On(p, "\\") /\ Eol(p + 1))
  PROVE  ReplacementPiece(p).at \in 0 .. n
<1>1. p + 1 \in 0 .. n
  BY DEF Eol
<1>2. CASE On(p, "\\")
  <2> DEFINE escape == Escape(p + 1, <<Backslash, At(p + 1)>>)
  <2>1. p + 1 \in 0 .. n - 1 /\ p + 1 + 1 \in 0 .. n
    BY <1>1, <1>2 DEF Eol
  <2>2. ReplacementPiece(p).at \in {p + 1 + 1, escape.at}
    BY <1>2, PieceAt, Zenon DEF ReplacementPiece, ReplacementEscape
  <2>3. escape.at \in 0 .. n
    BY <2>1, EscapeAt
  <2> HIDE DEF escape
  <2>4. QED
    BY <2>1, <2>2, <2>3
<1>3. CASE ~On(p, "\\")
  BY <1>1, <1>3, PieceAt, Zenon DEF ReplacementPiece
<1>4. QED
  BY <1>2, <1>3

LEMMA EatSpacesIn ==
  ASSUME NEW n \in Nat, n = Len(line), NEW p \in 0 .. n
  PROVE  EatSpaces(p) \in 0 .. n
<1>1. EatSpaces(p) \in p .. n
  BY RunEndIn DEF EatSpaces
<1>2. QED
  BY <1>1

-----------------------------------------------------------------------------
(* Delimited strings.                                                      *)

\* One turn of a loop of delimited_parser.rs stays in the line.
LEMMA StringMoves ==
  ASSUME NEW n \in Nat, n = Len(line), CursorInLine, String
  PROVE  Moves
<1>0. pos \in 0 .. n /\ UNCHANGED <<job, source, taken, line>>
  BY DEF String, ReadString, CursorInLine
<1>1. ASSUME ~Eol(pos) PROVE pos + 1 \in 0 .. n /\ pos \in 0 .. n - 1
  BY <1>0, <1>1 DEF Eol
<1>2. ASSUME NEW c, On(pos, c) PROVE pos + 1 \in 0 .. n /\ pos \in 0 .. n - 1
  BY <1>1, <1>2 DEF On
<1>3. ASSUME UNCHANGED pos PROVE Moves
  BY <1>0, <1>3 DEF Moves
<1>4. ASSUME pos' = pos + 1, ~Eol(pos) PROVE Moves
  BY <1>0, <1>1, <1>4 DEF Moves
<1>5. ASSUME Feed(Got(<<At(pos)>>, pos + 1)), ~Eol(pos) PROVE Moves
  <2>1. pos' = pos + 1
    BY <1>5, PieceAt DEF Feed
  <2>2. QED
    BY <1>4, <1>5, <2>1
<1>6. ASSUME RegexEnds \/ RegexUnterminated \/ BracketUnterminated \/ TransEnds \/ TransUnterminated
      PROVE  Moves
  BY <1>3, <1>6
  DEF RegexEnds, RegexUnterminated, BracketUnterminated, TransEnds, TransUnterminated, Close, Stop
<1>7. ASSUME RegexByte \/ BracketByte \/ TransByte PROVE Moves
  BY <1>5, <1>7, Zenon DEF RegexByte, BracketByte, TransByte
<1>8. ASSUME BracketEnds PROVE Moves
  BY <1>4, <1>8 DEF BracketEnds, On
<1>9. ASSUME RegexEscapes PROVE Moves
  <2>1. RegexEscape(pos + 1).at \in 0 .. n
    BY <1>2, <1>9, RegexEscapeAt DEF RegexEscapes
  <2>2. QED
    BY <1>0, <1>9, <2>1, FeedMoves DEF RegexEscapes
<1>10. ASSUME RegexQuantifier PROVE Moves
  <2> DEFINE quantifier == Quantifier(pos, <<Code["{"]>>)
  <2>1. quantifier.at \in 0 .. n
    BY <1>2, <1>10, QuantifierAt DEF RegexQuantifier, OpensQuantifier
  <2>2. Feed(quantifier)
    BY <1>10 DEF RegexQuantifier
  <2> HIDE DEF quantifier
  <2>3. QED
    BY <1>0, <2>1, <2>2, FeedMoves
<1>11. ASSUME RegexBracket PROVE Moves
  <2>1. pos + 1 \in 0 .. n
    BY <1>2, <1>11 DEF RegexBracket, OpensBracket
  <2> DEFINE q == IF On(pos + 1, "^") THEN pos + 1 + 1 ELSE pos + 1
  <2>2. q \in 0 .. n
    <3>1. On(pos + 1, "^") => pos + 1 + 1 \in 0 .. n
      BY <2>1, OnInLine
    <3>2. QED
      BY <2>1, <3>1
  <2>3. BracketStart(pos + 1) = IF On(q, "]") THEN q + 1 ELSE q
    BY DEF BracketStart
  <2> HIDE DEF q
  <2>4. On(q, "]") => q + 1 \in 0 .. n
    BY <2>2, OnInLine
  <2>5. pos' = BracketStart(pos + 1)
    BY <1>11 DEF RegexBracket
  <2>6. pos' \in 0 .. n
    BY <2>2, <2>3, <2>4, <2>5
  <2>7. QED
    BY <1>0, <2>6 DEF Moves
<1>12. ASSUME BracketOpens PROVE Moves
  <2>1. BracketOpening(pos + 1).at \in 0 .. n
    BY <1>2, <1>12, BracketOpeningAt DEF BracketOpens
  <2>2. QED
    BY <1>0, <1>12, <2>1, FeedMoves DEF BracketOpens
<1>13. ASSUME BracketEscapes PROVE Moves
  <2>1. Kept(pos + 1).at \in 0 .. n
    BY <1>2, <1>13, KeptAt DEF BracketEscapes
  <2>2. QED
    BY <1>0, <1>13, <2>1, FeedMoves DEF BracketEscapes
<1>14. ASSUME TransEscapes PROVE Moves
  <2>1. TransEscape(pos + 1).at \in 0 .. n
    BY <1>2, <1>14, TransEscapeAt DEF TransEscapes
  <2>2. QED
    BY <1>0, <1>14, <2>1, FeedMoves DEF TransEscapes
<1>15. QED
  BY <1>6, <1>7, <1>8, <1>9, <1>10, <1>11, <1>12, <1>13, <1>14, Zenon DEF String, ReadString
-----------------------------------------------------------------------------
(* Addresses.                                                              *)

LEMMA AddressSteps ==
  ASSUME NEW n \in Nat, n = Len(line), NEW a, NEW p \in 0 .. n, CursorInLine, Address(a, p)
  PROVE  Steps
<1>1. Refuse \/ Goto("separator", p) \/ Goto("command", EatSpaces(p))
  BY Zenon DEF Address, First, Second
<1>2. EatSpaces(p) \in 0 .. n
  BY EatSpacesIn
<1>3. QED
  BY <1>1, <1>2, RefuseSteps, GotoSteps

LEMMA AddressNumberSteps ==
  ASSUME NEW n \in Nat, n = Len(line), NEW kind, NEW p \in 0 .. n, CursorInLine,
         AddressNumber(kind, p)
  PROVE  Steps
<1> DEFINE q == RunEnd(p, Digits)
           a == [kind |-> kind, n |-> Usize(p, q)]
<1>1. q \in 0 .. n
  <2>1. q \in p .. n
    BY RunEndIn
  <2>2. QED
    BY <2>1
<1>2. Refuse \/ Address(a, q)
  BY Zenon DEF AddressNumber
<1> HIDE DEF q, a
<1>3. QED
  BY <1>1, <1>2, RefuseSteps, AddressSteps

LEMMA AddressesStep ==
  ASSUME NEW n \in Nat, n = Len(line), CursorInLine, ReadyAtDelimiter, Addresses
  PROVE  Steps
<1>0. pos \in 0 .. n
  BY DEF CursorInLine
<1>1. ASSUME NEW p \in 0 .. n PROVE EatSpaces(p) \in 0 .. n
  BY EatSpacesIn
<1>2. ASSUME NEW p \in 0 .. n, NEW c, On(p, c) PROVE p + 1 \in 0 .. n
  BY <1>2, OnInLine
<1>3. ASSUME AddressPlain PROVE Steps
  <2>1. CASE On(pos, "$")
    <3>1. Address([kind |-> "last"], pos + 1)
      BY <1>3, <2>1, Zenon DEF AddressPlain
    <3>2. QED
      BY <1>0, <1>2, <2>1, <3>1, AddressSteps
  <2>2. CASE ~On(pos, "$") /\ On(pos, "+")
    <3>1. AddressNumber("relative", pos + 1)
      BY <1>3, <2>2, Zenon DEF AddressPlain
    <3>2. QED
      BY <1>0, <1>2, <2>2, <3>1, AddressNumberSteps
  <2>3. CASE ~On(pos, "$") /\ ~On(pos, "+")
    <3>1. AddressNumber("line", pos) \/ Crash
      BY <1>3, <2>3, Zenon DEF AddressPlain
    <3>2. QED
      BY <1>0, <3>1, AddressNumberSteps, RefuseSteps
  <2>4. QED
    BY <2>1, <2>2, <2>3
<1>4. ASSUME AddressRegex PROVE Steps
  <2> DEFINE p == IF On(pos, "\\") THEN pos + 1 ELSE pos
  <2>1. p \in 0 .. n
    BY <1>0, <1>2
  <2>2. Open(p, "regex", want) /\ UNCHANGED <<job, source, taken, line>>
    BY <1>4 DEF AddressRegex, inputVars
  <2> HIDE DEF p
  <2>3. QED
    BY <2>1, <2>2, OpenSteps
<1>5. ASSUME AddressRegexEnds PROVE Steps
  <2> DEFINE p == EatSpaces(pos + 1)
             q == IF On(p, "I") THEN p + 1 ELSE p
             a == [kind |-> "re", pattern |-> acc, icase |-> On(p, "I")]
  <2>1. Crash \/ Refuse \/ Address(a, q)
    BY <1>5, Zenon DEF AddressRegexEnds
  <2>2. q \in 0 .. n
    <3>1. pos + 1 \in 0 .. n
      BY <1>0, <1>5 DEF AddressRegexEnds, ReadyAtDelimiter, Eol
    <3>2. p \in 0 .. n
      BY <1>1, <3>1
    <3> HIDE DEF p
    <3>3. QED
      BY <1>2, <3>2
  <2> HIDE DEF p, q, a
  <2>3. QED
    BY <2>1, <2>2, RefuseSteps, AddressSteps
<1>6. ASSUME SeparatorNone PROVE Steps
  <2>1. Refuse \/ Goto("command", EatSpaces(pos))
    BY <1>6, Zenon DEF SeparatorNone
  <2>2. QED
    BY <1>0, <1>1, <2>1, RefuseSteps, GotoSteps
<1>7. ASSUME Separator PROVE Steps
  <2> DEFINE p == EatSpaces(pos)
             q == EatSpaces(p + 1)
             r == IF On(q, "~") THEN EatSpaces(q + 1) ELSE q
  <2>1. Crash \/ Refuse \/ Goto("address", r)
    BY <1>7, Zenon DEF Separator
  <2>2. p \in 0 .. n /\ \E c : On(p, c)
    BY <1>0, <1>1, <1>7 DEF Separator, OnAny
  <2> HIDE DEF p
  <2>3. q \in 0 .. n
    BY <1>1, <1>2, <2>2
  <2> HIDE DEF q
  <2>4. r \in 0 .. n
    BY <1>1, <1>2, <2>3
  <2> HIDE DEF r
  <2>5. QED
    BY <2>1, <2>4, RefuseSteps, GotoSteps
<1>8. QED
  BY <1>3, <1>4, <1>5, <1>6, <1>7 DEF Addresses
-----------------------------------------------------------------------------
(* The end of a string.                                                    *)

\* What a piece that is recognised lets the loop do
Outcome(piece) == piece.st \in {"ok", "error", "panic"}

LEMMA PieceOutcome == \A bytes, p : Outcome(Got(bytes, p)) /\ Outcome(Bad(p)) /\ Outcome(Panic(p))
BY DEF Outcome, Got, Bad, Panic

LEMMA EscapeOutcome == \A p, other : Outcome(Escape(p, other)) /\ Outcome(Kept(p))
<1>1. \A c, p : Outcome(NumericEscape(c, p))
  BY PieceOutcome, Zenon DEF NumericEscape
<1>2. \A p : Outcome(ControlEscape(p))
  BY PieceOutcome, Zenon DEF ControlEscape
<1>3. \A p, other : Outcome(Escape(p, other))
  BY <1>1, <1>2, PieceOutcome, Zenon DEF Escape
<1>4. QED
  BY <1>3, PieceOutcome, Zenon DEF Kept

LEMMA StringOutcome ==
  \A p, opening : /\ Outcome(Quantifier(p, opening)) /\ Outcome(RegexEscape(p))
                  /\ Outcome(BracketOpening(p)) /\ Outcome(TransEscape(p))
                  /\ Outcome(ReplacementPiece(p))
<1>1. \A p, opening : Outcome(Quantifier(p, opening))
  BY PieceOutcome, Zenon DEF Quantifier
<1>2. \A p : Outcome(RegexEscape(p))
  BY <1>1, EscapeOutcome, PieceOutcome, Zenon DEF RegexEscape
<1>3. \A p : Outcome(BracketOpening(p))
  BY PieceOutcome, Zenon DEF BracketOpening
<1>4. \A p : Outcome(TransEscape(p))
  BY EscapeOutcome, PieceOutcome, Zenon DEF TransEscape
<1>5. \A p : Outcome(ReplacementPiece(p))
  BY EscapeOutcome, PieceOutcome, Zenon DEF ReplacementPiece, ReplacementEscape
<1>6. QED
  BY <1>1, <1>2, <1>3, <1>4, <1>5

LEMMA FeedStays ==
  ASSUME NEW piece, Feed(piece), Outcome(piece), stage # "ready"
  PROVE  stage' # "ready"
BY DEF Feed, Outcome

\* Only the two loops that look at the byte say that a string has ended.
LEMMA StringReady ==
  ASSUME String, stage' = "ready"
  PROVE  (RegexEnds \/ TransEnds) /\ ~Eol(pos) /\ pos' = pos
<1>1. ASSUME RegexEnds \/ TransEnds PROVE ~Eol(pos) /\ pos' = pos
  BY <1>1 DEF RegexEnds, TransEnds, Close
<1>2. ASSUME RegexUnterminated \/ RegexBracket \/ BracketEnds \/ BracketUnterminated \/ TransUnterminated
      PROVE  FALSE
  BY <1>2 DEF RegexUnterminated, RegexBracket, BracketEnds, BracketUnterminated, TransUnterminated, Stop
<1>3. ASSUME NEW piece, Feed(piece), Outcome(piece), stage \in {"regex", "bracket", "trans"}
      PROVE  FALSE
  BY <1>3, FeedStays
<1>4. ASSUME RegexEscapes \/ RegexQuantifier \/ RegexByte PROVE FALSE
  BY <1>3, <1>4, StringOutcome, PieceOutcome, Zenon DEF RegexEscapes, RegexQuantifier, RegexByte
<1>5. ASSUME BracketOpens \/ BracketEscapes \/ BracketByte PROVE FALSE
  BY <1>3, <1>5, StringOutcome, EscapeOutcome, PieceOutcome, Zenon
  DEF BracketOpens, BracketEscapes, BracketByte
<1>6. ASSUME TransEscapes \/ TransByte PROVE FALSE
  BY <1>3, <1>6, StringOutcome, PieceOutcome, Zenon DEF TransEscapes, TransByte
<1>7. QED
  BY <1>1, <1>2, <1>4, <1>5, <1>6, Zenon DEF String, ReadString
-----------------------------------------------------------------------------
(* Handlers.                                                               *)

\* No handler moves the cursor out of the line.
LEMMA HandlersStep ==
  ASSUME NEW n \in Nat, n = Len(line), CursorInLine, Handlers
  PROVE  Steps
<1>0. pos \in 0 .. n /\ n \in 0 .. n
  BY DEF CursorInLine
<1>1. ASSUME NEW p \in 0 .. n PROVE EatSpaces(p) \in 0 .. n
  BY <1>1, EatSpacesIn
<1>2. ASSUME NEW letters, Command(letters)
      PROVE  pos + 1 \in 0 .. n /\ Argument \in 0 .. n
  <2>1. pos + 1 \in 0 .. n
    BY <1>0, <1>2 DEF Command, Verified, Eol
  <2>2. QED
    BY <1>1, <2>1 DEF Argument
<1>3. ASSUME Negation PROVE Steps
  <2>1. Command("!") /\ (Refuse \/ Goto("command", Argument))
    BY <1>3, Zenon DEF Negation
  <2>2. QED
    BY <1>2, <2>1, RefuseSteps, GotoSteps
<1>4. ASSUME OpenBlock PROVE Steps
  BY <1>2, <1>4, CompleteSteps DEF OpenBlock
<1>5. ASSUME CloseBlock PROVE Steps
  <2>1. Command("}") /\ (Refuse \/ End(This, Argument))
    BY <1>5, Zenon DEF CloseBlock
  <2>2. QED
    BY <1>2, <2>1, RefuseSteps, EndSteps
<1>6. ASSUME NoArgument PROVE Steps
  BY <1>2, <1>6, EndSteps DEF NoArgument
<1>7. ASSUME NEW S PROVE Argument \in 0 .. n => EatSpaces(RunEnd(Argument, S)) \in 0 .. n
  <2>1. Argument \in 0 .. n => RunEnd(Argument, S) \in 0 .. n
    <3>1. Argument \in 0 .. n => RunEnd(Argument, S) \in Argument .. n
      BY RunEndIn
    <3>2. QED
      BY <3>1
  <2>2. QED
    BY <1>1, <2>1
<1>8. ASSUME LabelArgument PROVE Steps
  <2>1. Command("btT:") /\ (Refuse \/ \E c : End(c, EatSpaces(RunEnd(Argument, LabelChars))))
    BY <1>8, Zenon DEF LabelArgument
  <2>2. QED
    BY <1>2, <1>7, <2>1, RefuseSteps, EndSteps
<1>9. ASSUME NumberArgument PROVE Steps
  <2>1. Command("lqQ") /\ (Refuse \/ \E c : End(c, EatSpaces(RunEnd(Argument, Digits))))
    BY <1>9, Zenon DEF NumberArgument
  <2>2. QED
    BY <1>2, <1>7, <2>1, RefuseSteps, EndSteps
<1>10. ASSUME ReadArgument \/ WriteArgument \/ VersionArgument PROVE Steps
  <2>1. Refuse \/ \E c : Complete(c, n)
    BY <1>10, Zenon DEF ReadArgument, WriteArgument, VersionArgument
  <2>2. QED
    BY <1>0, <2>1, RefuseSteps, CompleteSteps
<1>11. ASSUME NEW p \in 0 .. n, BeginText(p) PROVE Steps
  <2>1. TextStart(p) \in 0 .. n
    <3>1. On(p, "\\") => p + 1 \in 0 .. n
      BY OnInLine
    <3>2. QED
      BY <3>1 DEF TextStart
  <2>2. /\ pos' = TextStart(p) /\ UNCHANGED <<job, source, taken, line>>
        /\ stage' \in {"continuation", "text"}
    BY <1>11, Zenon DEF BeginText, inputVars
  <2>3. QED
    BY <2>1, <2>2 DEF Steps, Moves
<1>12. ASSUME TextArgument PROVE Steps
  <2>1. Command("aci") /\ (Refuse \/ BeginText(Argument))
    BY <1>12, Zenon DEF TextArgument
  <2>2. QED
    BY <1>2, <1>11, <2>1, RefuseSteps
<1>13. ASSUME ExecuteArgument PROVE Steps
  <2>1. Command("e") /\ (Refuse \/ Complete(This, Argument) \/ BeginText(Argument))
    BY <1>13, Zenon DEF ExecuteArgument
  <2>2. QED
    BY <1>2, <1>11, <2>1, RefuseSteps, CompleteSteps
<1>14. ASSUME PosixTextArgument PROVE Steps
  <2> DEFINE p == EatSpaces(Argument + 1)
  <2>1. CASE ~On(Argument, "\\")
    BY <1>14, <2>1, RefuseSteps, Zenon DEF PosixTextArgument
  <2>2. CASE On(Argument, "\\")
    <3>1. p \in 0 .. n
      BY <1>1, <1>2, <1>14, <2>2, OnInLine DEF PosixTextArgument
    <3>2. Refuse \/ (stage' = "posix_text" /\ pos' = p /\ UNCHANGED inputVars)
      BY <1>14, Zenon DEF PosixTextArgument
    <3> HIDE DEF p
    <3>3. QED
      BY <3>1, <3>2, RefuseSteps DEF Steps, Moves, inputVars
  <2>3. QED
    BY <2>1, <2>2
<1>15. ASSUME NEW kind, kind # "ready", NEW purpose, StringDelimiter(pos + 1, kind, purpose),
              pos + 1 \in 0 .. n
       PROVE  Steps
  <2>1. Crash \/ Refuse \/ (Open(pos + 1, kind, purpose) /\ UNCHANGED <<job, source, taken, line>>)
    BY <1>15, Zenon DEF StringDelimiter, inputVars
  <2>2. QED
    BY <1>15, <2>1, RefuseSteps, OpenSteps
<1>16. ASSUME Substitute \/ Transliterate PROVE Steps
  <2>1. "regex" # "ready" /\ "trans" # "ready"
    OBVIOUS
  <2>2. QED
    BY <1>2, <1>15, <1>16, <2>1, Zenon DEF Substitute, Transliterate
<1>17. QED
  BY <1>3, <1>4, <1>5, <1>6, <1>8, <1>9, <1>10, <1>12, <1>13, <1>14, <1>16, Zenon DEF Handlers
-----------------------------------------------------------------------------
(* The invariant.                                                          *)

CursorInv == TextTyped /\ CursorInLine /\ ReadyAtDelimiter

LEMMA StepsKeep ==
  ASSUME CursorInv, Steps
  PROVE  CursorInv'
BY DEF CursorInv, Steps, Moves, TextTyped, CursorInLine, ReadyAtDelimiter

LEMMA StringKeeps ==
  ASSUME CursorInv, String
  PROVE  CursorInv'
<1>1. Len(line) \in Nat
  BY DEF CursorInv, TextTyped
<1>2. Moves
  BY <1>1, StringMoves DEF CursorInv
<1>3. ReadyAtDelimiter'
  BY <1>2, StringReady DEF Moves, ReadyAtDelimiter, Eol
<1>4. QED
  BY <1>2, <1>3 DEF CursorInv, Moves, TextTyped, CursorInLine

LEMMA AdvanceKeeps ==
  ASSUME CursorInv, Advance, UNCHANGED job, stage' # "ready",
         (line' = NextLine /\ pos' = 0) \/ UNCHANGED <<line, pos>>
  PROVE  CursorInv'
<1>1. NextLine \in Seq(Byte) /\ source' \in Nat /\ taken' \in Nat
  BY LineTyped DEF CursorInv
<1>2. TextTyped'
  BY <1>1 DEF CursorInv, TextTyped
<1>3. CursorInLine'
  <2>1. Len(NextLine) \in Nat
    BY <1>1
  <2>2. QED
    BY <2>1 DEF CursorInv, CursorInLine
<1>4. QED
  BY <1>2, <1>3 DEF CursorInv, ReadyAtDelimiter

LEMMA ExhaustedKeeps ==
  ASSUME CursorInv, Exhausted, UNCHANGED job, stage' # "ready"
  PROVE  CursorInv'
<1>1. job.scripts \in Seq(Source)
  BY DEF CursorInv, TextTyped, Job
<1>2. source' \in Nat /\ taken' \in Nat
  BY <1>1 DEF Exhausted
<1>3. QED
  BY <1>2 DEF CursorInv, TextTyped, CursorInLine, ReadyAtDelimiter, Exhausted

LEMMA SequenceKeeps ==
  ASSUME CursorInv, SequenceLine \/ SequenceSemicolon \/ SequenceCommand
  PROVE  CursorInv'
<1>0. Len(line) \in Nat /\ pos \in 0 .. Len(line) /\ EatSpaces(pos) \in 0 .. Len(line)
  BY EatSpacesIn DEF CursorInv, TextTyped, CursorInLine
<1>1. ASSUME SequenceLine PROVE CursorInv'
  <2>1. stage = "sequence" /\ UNCHANGED job
    BY <1>1 DEF SequenceLine
  <2>2. CASE TakeLine /\ stage' = stage
    BY <2>1, <2>2, AdvanceKeeps DEF TakeLine
  <2>3. CASE Exhausted /\ stage' = IF nesting > 0 THEN "error" ELSE "done"
    BY <2>1, <2>3, ExhaustedKeeps
  <2>4. CASE stage' = "error" /\ UNCHANGED <<source, taken, line, pos>>
    BY <2>1, <2>4, StepsKeep DEF CursorInv, CursorInLine, Steps, Moves
  <2>5. QED
    BY <1>1, <2>2, <2>3, <2>4 DEF SequenceLine
<1>2. ASSUME SequenceSemicolon PROVE CursorInv'
  <2>1. EatSpaces(pos) + 1 \in 0 .. Len(line)
    BY <1>0, <1>2, OnInLine DEF SequenceSemicolon
  <2>2. QED
    BY <1>2, <2>1, GotoSteps, StepsKeep DEF SequenceSemicolon
<1>3. ASSUME SequenceCommand PROVE CursorInv'
  <2>1. Goto("address", EatSpaces(pos)) \/ Goto("command", EatSpaces(pos))
    BY <1>3, Zenon DEF SequenceCommand
  <2>2. QED
    BY <1>0, <2>1, GotoSteps, StepsKeep
<1>4. QED
  BY <1>1, <1>2, <1>3

LEMMA TextsKeep ==
  ASSUME CursorInv, Texts
  PROVE  CursorInv'
<1> DEFINE n == Len(line)
<1>0. n \in Nat /\ pos \in 0 .. n /\ CursorInLine
  BY DEF CursorInv, TextTyped, CursorInLine
<1> HIDE DEF n
<1>1. ASSUME TextEnds PROVE CursorInv'
  BY <1>0, <1>1, CompleteSteps, StepsKeep DEF TextEnds, n
<1>2. ASSUME NEW piece, stage = "text", Feed(piece), Outcome(piece), piece.at \in 0 .. n,
             UNCHANGED inputVars
      PROVE  CursorInv'
  BY <1>2, FeedMoves, FeedStays, StepsKeep DEF Steps, inputVars, n
<1>3. ASSUME TextEscapes PROVE CursorInv'
  <2>1. pos + 1 \in 0 .. n
    BY <1>0, <1>3, OnInLine DEF TextEscapes, n
  <2>2. stage = "text" /\ UNCHANGED inputVars
    BY <1>3 DEF TextEscapes
  <2>3. CASE Eol(pos + 1)
    <3>1. stage' = "continuation" /\ pos' = pos + 1
      BY <1>3, <2>3, Zenon DEF TextEscapes
    <3>2. QED
      BY <2>1, <2>2, <3>1, StepsKeep DEF Steps, Moves, inputVars, n
  <2>4. CASE ~Eol(pos + 1)
    <3> DEFINE piece == Escape(pos + 1, <<At(pos + 1)>>)
    <3>1. Feed(piece)
      BY <1>3, <2>4, Zenon DEF TextEscapes
    <3>2. pos + 1 \in 0 .. n - 1
      BY <1>0, <2>1, <2>4 DEF Eol, n
    <3>3. piece.at \in 0 .. n /\ Outcome(piece)
      BY <1>0, <3>2, EscapeAt, EscapeOutcome DEF n
    <3> HIDE DEF piece
    <3>4. QED
      BY <1>2, <2>2, <3>1, <3>3
  <2>5. QED
    BY <2>3, <2>4
<1>4. ASSUME TextByte PROVE CursorInv'
  <2> DEFINE piece == Got(<<At(pos)>>, pos + 1)
  <2>1. stage = "text" /\ Feed(piece) /\ UNCHANGED inputVars /\ ~Eol(pos)
    BY <1>4 DEF TextByte
  <2>2. piece.at \in 0 .. n /\ Outcome(piece)
    <3>1. pos + 1 \in 0 .. n
      BY <1>0, <2>1 DEF Eol, n
    <3>2. QED
      BY <3>1, PieceAt, PieceOutcome
  <2> HIDE DEF piece
  <2>3. QED
    BY <1>2, <2>1, <2>2
<1>5. ASSUME TextContinues PROVE CursorInv'
  <2>1. UNCHANGED job
    BY <1>5 DEF TextContinues, Same
  <2>2. CASE TakeLine /\ stage' = "text"
    BY <2>1, <2>2, AdvanceKeeps DEF TakeLine
  <2>3. CASE Exhausted /\ stage' = "sequence"
    BY <2>1, <2>3, ExhaustedKeeps
  <2>4. CASE Refuse
    BY <1>0, <2>4, RefuseSteps, StepsKeep
  <2>5. QED
    BY <1>5, <2>2, <2>3, <2>4, Zenon DEF TextContinues
<1>6. ASSUME PosixTextLine PROVE CursorInv'
  <2>1. UNCHANGED job /\ stage = "posix_text"
    BY <1>6 DEF PosixTextLine, Same
  <2>2. CASE Advance /\ UNCHANGED <<line, pos>> /\ stage' \in {stage, "sequence"}
    BY <2>1, <2>2, AdvanceKeeps
  <2>3. CASE Exhausted /\ stage' \in {"error", "sequence"}
    BY <2>1, <2>3, ExhaustedKeeps
  <2>4. CASE Refuse
    BY <1>0, <2>4, RefuseSteps, StepsKeep
  <2>5. QED
    BY <1>6, <2>2, <2>3, <2>4, Zenon DEF PosixTextLine
<1>7. QED
  BY <1>1, <1>3, <1>4, <1>5, <1>6 DEF Texts

\* A flag of s ends in the line.
LEMMA FlagEndIn ==
  ASSUME NEW n \in Nat, n = Len(line), NEW p \in 0 .. n, ~Eol(p)
  PROVE  FlagEnd(p) \in 0 .. n
<1>1. p + 1 \in 0 .. n
  BY DEF Eol
<1>2. RunEnd(p, Digits) \in 0 .. n
  <2>1. RunEnd(p, Digits) \in p .. n
    BY RunEndIn
  <2>2. QED
    BY <2>1
<1>3. FlagEnd(p) \in {n, RunEnd(p, Digits), p + 1}
  BY Zenon DEF FlagEnd
<1>4. QED
  BY <1>1, <1>2, <1>3

LEMMA SubstitutionsKeep ==
  ASSUME CursorInv, Substitutions
  PROVE  CursorInv'
<1> DEFINE n == Len(line)
<1>0. n \in Nat /\ pos \in 0 .. n /\ CursorInLine /\ ReadyAtDelimiter
  BY DEF CursorInv, TextTyped, CursorInLine
<1> HIDE DEF n
<1>1. ~Eol(pos) => pos + 1 \in 0 .. n
  BY <1>0 DEF Eol, n
<1>2. EatSpaces(pos) \in 0 .. n
  BY <1>0, EatSpacesIn DEF n
<1>3. ASSUME BeginReplacement PROVE CursorInv'
  <2>1. pos + 1 \in 0 .. n
    BY <1>0, <1>1, <1>3 DEF BeginReplacement, ReadyAtDelimiter
  <2>2. QED
    BY <1>3, <2>1, StepsKeep DEF BeginReplacement, Steps, Moves, inputVars, n
<1>4. ASSUME Replacement PROVE CursorInv'
  <2> DEFINE piece == ReplacementPiece(pos)
  <2>1. stage = "replacement" /\ ~Eol(pos) /\ ~(On(pos, "\\") /\ Eol(pos + 1))
    BY <1>4 DEF Replacement
  <2>2. piece.at \in 0 .. n /\ Outcome(piece)
    BY <1>0, <2>1, ReplacementPieceAt, StringOutcome DEF n
  <2>3. Goto("flags", pos + 1) \/ (Feed(piece) /\ UNCHANGED inputVars)
    BY <1>4, Zenon DEF Replacement
  <2> HIDE DEF piece
  <2>4. CASE Goto("flags", pos + 1)
    BY <1>1, <2>1, <2>4, GotoSteps, StepsKeep DEF n
  <2>5. CASE Feed(piece) /\ UNCHANGED inputVars
    BY <2>1, <2>2, <2>5, FeedMoves, FeedStays, StepsKeep DEF Steps, inputVars, n
  <2>6. QED
    BY <2>3, <2>4, <2>5
<1>5. ASSUME ReplacementNewline PROVE CursorInv'
  <2>1. UNCHANGED job /\ stage = "replacement"
    BY <1>5 DEF ReplacementNewline, Same
  <2>2. CASE TakeLine /\ UNCHANGED stage
    BY <2>1, <2>2, AdvanceKeeps DEF TakeLine
  <2>3. CASE Exhausted /\ stage' = "error"
    BY <2>1, <2>3, ExhaustedKeeps
  <2>4. CASE Refuse
    BY <1>0, <2>4, RefuseSteps, StepsKeep
  <2>5. QED
    BY <1>5, <2>2, <2>3, <2>4, Zenon DEF ReplacementNewline
<1>6. ASSUME Flag PROVE CursorInv'
  <2>1. ~Eol(EatSpaces(pos))
    BY <1>6, Zenon DEF Flag, FlagsOver
  <2>2. FlagEnd(EatSpaces(pos)) \in 0 .. n
    BY <1>0, <1>2, <2>1, FlagEndIn DEF n
  <2>3. Refuse \/ Goto("flags", FlagEnd(EatSpaces(pos)))
    BY <1>6, Zenon DEF Flag
  <2>4. QED
    BY <1>0, <2>2, <2>3, RefuseSteps, GotoSteps, StepsKeep DEF n
<1>7. ASSUME SubstituteEnds PROVE CursorInv'
  <2>1. Crash \/ Refuse \/ End(cmd, EatSpaces(pos))
    BY <1>7, Zenon DEF SubstituteEnds
  <2>2. QED
    BY <1>0, <1>2, <2>1, RefuseSteps, EndSteps, StepsKeep DEF n
<1>8. QED
  BY <1>3, <1>4, <1>5, <1>6, <1>7 DEF Substitutions

LEMMA TransKeeps ==
  ASSUME CursorInv, TransFirstEnds \/ TransEnd
  PROVE  CursorInv'
<1> DEFINE n == Len(line)
<1>0. n \in Nat /\ pos \in 0 .. n /\ CursorInLine /\ ReadyAtDelimiter
  BY DEF CursorInv, TextTyped, CursorInLine
<1> HIDE DEF n
<1>1. ASSUME TransFirstEnds PROVE CursorInv'
  <2>1. Refuse \/ (Open(pos, "trans", "to") /\ UNCHANGED <<job, source, taken, line>>)
    BY <1>1, Zenon DEF TransFirstEnds, inputVars
  <2>2. QED
    BY <1>0, <2>1, RefuseSteps, OpenSteps, StepsKeep DEF n
<1>2. ASSUME TransEnd PROVE CursorInv'
  <2>1. pos + 1 \in 0 .. n
    BY <1>0, <1>2 DEF TransEnd, ReadyAtDelimiter, Eol, n
  <2>2. Refuse \/ \E c : End(c, pos + 1)
    BY <1>2, Zenon DEF TransEnd
  <2>3. QED
    BY <1>0, <2>1, <2>2, RefuseSteps, EndSteps, StepsKeep DEF n
<1>3. QED
  BY <1>1, <1>2

LEMMA InitCursor == Init => CursorInv
<1> SUFFICES ASSUME Init PROVE CursorInv
  OBVIOUS
<1>1. job \in Job
  BY JobsAssumption DEF Init
<1>2. line = <<>> /\ source = 0 /\ taken = 0 /\ pos = 0 /\ stage = "sequence"
  BY Zenon DEF Init
<1>3. line \in Seq(Byte) /\ Len(line) = 0
  BY <1>2
<1>4. QED
  BY <1>1, <1>2, <1>3 DEF CursorInv, TextTyped, CursorInLine, ReadyAtDelimiter

LEMMA StepCursor == CursorInv /\ [Next]_vars => CursorInv'
<1> SUFFICES ASSUME CursorInv, [Next]_vars PROVE CursorInv'
  OBVIOUS
<1>0. Len(line) \in Nat /\ CursorInLine /\ ReadyAtDelimiter
  BY DEF CursorInv, TextTyped
<1>1. ASSUME SequenceLine \/ SequenceSemicolon \/ SequenceCommand PROVE CursorInv'
  BY <1>1, SequenceKeeps
<1>2. ASSUME Addresses PROVE CursorInv'
  BY <1>0, <1>2, AddressesStep, StepsKeep
<1>3. ASSUME CommandUnknown PROVE CursorInv'
  BY <1>0, <1>3, RefuseSteps, StepsKeep DEF CommandUnknown
<1>4. ASSUME Handlers PROVE CursorInv'
  BY <1>0, <1>4, HandlersStep, StepsKeep
<1>5. ASSUME String PROVE CursorInv'
  BY <1>5, StringKeeps
<1>6. ASSUME Texts PROVE CursorInv'
  BY <1>6, TextsKeep
<1>7. ASSUME Substitutions PROVE CursorInv'
  BY <1>7, SubstitutionsKeep
<1>8. ASSUME TransFirstEnds \/ TransEnd PROVE CursorInv'
  BY <1>8, TransKeeps
<1>9. ASSUME UNCHANGED vars PROVE CursorInv'
  BY <1>9 DEF vars, textVars, inputVars, CursorInv, TextTyped, CursorInLine, ReadyAtDelimiter, Eol
<1>10. QED
  BY <1>1, <1>2, <1>3, <1>4, <1>5, <1>6, <1>7, <1>8, <1>9, Zenon DEF Next

\* Whatever the scripts are, the cursor never leaves the current line: the code
\* moves it without looking whether there is a byte.
THEOREM CursorKept == Spec => []CursorInLine
<1>1. CursorInv => CursorInLine
  BY DEF CursorInv
<1>2. QED
  BY <1>1, InitCursor, StepCursor, PTL DEF Spec

\* A string is taken as read only with the cursor on its closing delimiter, where
\* the code goes on with the byte after it, or with the delimiter of the next one.
THEOREM StringsClosed == Spec => []ReadyAtDelimiter
<1>1. CursorInv => ReadyAtDelimiter
  BY DEF CursorInv
<1>2. QED
  BY <1>1, InitCursor, StepCursor, PTL DEF Spec
-----------------------------------------------------------------------------
(* The types.                                                              *)

\* The codes of the characters the types depend on.
LEMMA Codes ==
  /\ Code["\\"] = 92 /\ Code["["] = 91 /\ Code["{"] = 123 /\ Code["0"] = 48 /\ Code["9"] = 57
  /\ Code["a"] = 97 /\ Code["f"] = 102 /\ Code["z"] = 122 /\ Code["A"] = 65 /\ Code["F"] = 70
  /\ Code["Z"] = 90 /\ Code["c"] = 99 /\ Code["d"] = 100 /\ Code["o"] = 111 /\ Code["u"] = 117
  /\ Code["x"] = 120 /\ Code["U"] = 85
<1>1. {"\\", "[", "{", "0", "9", "a", "f", "z", "A", "F", "Z", "c", "d", "o", "u", "x", "U"}
        \subseteq Printable
  BY DEF Printable
<1>2. Code["\\"] = 92 /\ Code["["] = 91
  BY <1>1, CodeAssumption DEF Ascii
<1>3. Code["{"] = 123 /\ Code["0"] = 48
  BY <1>1, CodeAssumption DEF Ascii
<1>4. Code["9"] = 57 /\ Code["a"] = 97
  BY <1>1, CodeAssumption DEF Ascii
<1>5. Code["f"] = 102 /\ Code["z"] = 122
  BY <1>1, CodeAssumption DEF Ascii
<1>6. Code["A"] = 65 /\ Code["F"] = 70
  BY <1>1, CodeAssumption DEF Ascii
<1>7. Code["Z"] = 90 /\ Code["c"] = 99
  BY <1>1, CodeAssumption DEF Ascii
<1>8. Code["d"] = 100 /\ Code["o"] = 111
  BY <1>1, CodeAssumption DEF Ascii
<1>9. Code["u"] = 117
  BY <1>1, CodeAssumption DEF Ascii
<1>10. Code["x"] = 120
  BY <1>1, CodeAssumption DEF Ascii
<1>11. Code["U"] = 85
  BY <1>1, CodeAssumption DEF Ascii
<1>12. QED
  BY <1>2, <1>3, <1>4, <1>5, <1>6, <1>7, <1>8, <1>9, <1>10, <1>11

\* What is added to an argument beside the bytes of the line is made of bytes.
LEMMA CodesTyped ==
  /\ Code["\\"] \in Byte /\ Code["["] \in Byte /\ Code["{"] \in Byte /\ Code["0"] \in Byte
  /\ Code["c"] \in Byte /\ Code["d"] \in Byte /\ Code["o"] \in Byte /\ Code["u"] \in Byte
  /\ Code["x"] \in Byte /\ Code["U"] \in Byte
<1>1. Code["\\"] = 92 /\ Code["["] = 91 /\ Code["{"] = 123 /\ Code["0"] = 48
  BY Codes
<1>2. Code["c"] = 99 /\ Code["d"] = 100 /\ Code["o"] = 111
  BY Codes
<1>3. Code["u"] = 117 /\ Code["x"] = 120 /\ Code["U"] = 85
  BY Codes
<1>4. Code["\\"] \in Byte /\ Code["["] \in Byte /\ Code["{"] \in Byte /\ Code["0"] \in Byte
  <2>1. {92, 91, 123, 48} \subseteq Byte
    BY DEF Byte
  <2>2. QED
    BY <1>1, <2>1
<1>5. Code["c"] \in Byte /\ Code["d"] \in Byte /\ Code["o"] \in Byte
  BY <1>2 DEF Byte
<1>6. Code["u"] \in Byte /\ Code["x"] \in Byte /\ Code["U"] \in Byte
  BY <1>3 DEF Byte
<1>7. QED
  BY <1>4, <1>5, <1>6

LEMMA ValueTyped == \A b \in Byte : Value(b) \in Nat /\ (b \in Digits => Value(b) \in 0 .. 9)
<1>1. ASSUME NEW b \in 0 .. 255
      PROVE  /\ Value(b) = IF b \in 48 .. 57 THEN b - 48
                           ELSE IF b \in 97 .. 102 THEN b - 97 + 10
                           ELSE IF b \in 65 .. 70 THEN b - 65 + 10 ELSE 99
             /\ Digits = 48 .. 57
  <2>1. Digits = 48 .. 57 /\ Code["0"] = 48
    BY Codes DEF Digits
  <2>2. Code["a"] = 97 /\ Code["f"] = 102 /\ Code["A"] = 65 /\ Code["F"] = 70
    BY Codes
  <2>3. QED
    BY <2>1, <2>2 DEF Value
<1>2. QED
  BY <1>1 DEF Byte

\* Whatever the digits are, they stand for a natural number.
LEMMA NumberTyped ==
  ASSUME NEW digits \in Seq(Byte), NEW radix \in Nat, NEW bound \in Nat
  PROVE  Number(digits, radix, bound) \in Nat
<1> DEFINE n == Len(digits)
           atMost(v) == IF v > bound THEN bound + 1 ELSE v
           step == [i \in 0 .. n |-> [v \in Nat |->
                      IF i = 0 THEN 0 ELSE atMost(v * radix + Value(digits[i]))]]
<1>1. n \in Nat
  OBVIOUS
<1>2. \A i \in 0 .. n : \A v \in Nat : step[i][v] \in Nat
  <2>1. ASSUME NEW i \in 1 .. n, NEW v \in Nat
        PROVE  atMost(v * radix + Value(digits[i])) \in Nat
    <3>1. v * radix \in Nat
      OBVIOUS
    <3>2. Value(digits[i]) \in Nat
      BY <2>1, ValueTyped
    <3>3. QED
      BY <3>1, <3>2
  <2> HIDE DEF atMost
  <2>2. QED
    BY <2>1
<1>3. step \in [0 .. n -> [Nat -> Nat]]
  BY <1>2
<1>4. \A i \in 0 .. n : \A v \in Nat : i # 0 => step[i][v] = atMost(v * radix + Value(digits[i]))
  OBVIOUS
<1> HIDE DEF step, n
<1>5. PICK f \in [0 .. n -> Nat] :
        \A i \in 0 .. n : f[i] = IF i = 0 THEN 0 ELSE step[i][f[i - 1]]
  <2>1. 0 \in Nat
    OBVIOUS
  <2>2. PICK f \in [0 .. n -> Nat] : Iterates(f, 0, n, 0, step)
    BY <1>1, <1>3, <2>1, Recursion, Zenon
  <2>3. \A i \in 0 .. n : f[i] = IF i = 0 THEN 0 ELSE step[i][f[i - 1]]
    BY <2>2 DEF Iterates
  <2>4. QED
    BY <2>3
<1>6. f = [i \in 0 .. n |-> IF i = 0 THEN 0 ELSE atMost(f[i - 1] * radix + Value(digits[i]))]
  <2>1. ASSUME NEW i \in 0 .. n, i # 0
        PROVE  step[i][f[i - 1]] = atMost(f[i - 1] * radix + Value(digits[i]))
    <3>1. i - 1 \in 0 .. n /\ f[i - 1] \in Nat
      BY <1>1, <2>1
    <3> HIDE DEF atMost
    <3>2. QED
      BY <1>4, <2>1, <3>1
  <2> HIDE DEF atMost
  <2>2. QED
    BY <1>5, <2>1
<1> DEFINE upTo == CHOOSE g : g = [i \in 0 .. n |->
                     IF i = 0 THEN 0 ELSE atMost(g[i - 1] * radix + Value(digits[i]))]
<1>7. upTo = [i \in 0 .. n |-> IF i = 0 THEN 0 ELSE atMost(upTo[i - 1] * radix + Value(digits[i]))]
  BY <1>6, Zenon
<1>8. Number(digits, radix, bound) = upTo[n]
  BY DEF Number, n
<1> HIDE DEF upTo
<1>9. \A i \in 0 .. n : upTo[i] \in Nat
  <2> DEFINE S == {i \in Nat : i <= n => upTo[i] \in Nat}
  <2>1. 0 \in S
    BY <1>1, <1>7
  <2>2. ASSUME NEW i \in S PROVE i + 1 \in S
    <3> SUFFICES ASSUME i + 1 <= n PROVE upTo[i + 1] \in Nat
      OBVIOUS
    <3>1. upTo[i] \in Nat /\ i + 1 \in 0 .. n /\ i + 1 # 0 /\ i + 1 - 1 = i /\ i \in 0 .. n
      BY <1>1, <2>2
    <3>2. upTo[i + 1] = atMost(upTo[i] * radix + Value(digits[i + 1]))
      <4> DEFINE k == i + 1
      <4>1. k \in 0 .. n /\ k # 0 /\ k - 1 = i
        BY <3>1
      <4> HIDE DEF k, atMost
      <4>2. upTo[k] = atMost(upTo[k - 1] * radix + Value(digits[k]))
        BY <1>7, <4>1
      <4>3. QED
        BY <4>1, <4>2 DEF k
    <3>3. step[i + 1][upTo[i]] = atMost(upTo[i] * radix + Value(digits[i + 1]))
      BY <1>4, <3>1
    <3>4. step[i + 1][upTo[i]] \in Nat
      BY <1>2, <3>1
    <3> HIDE DEF atMost
    <3>5. QED
      BY <3>2, <3>3, <3>4
  <2>3. S = Nat
    BY <2>1, <2>2, Induction
  <2>4. QED
    BY <2>3
<1>10. QED
  BY <1>1, <1>8, <1>9

-----------------------------------------------------------------------------
(* What the pieces of an argument stand for.                               *)

\* A byte, or a reference to what was matched.
Symbol == Byte \cup References

\* The outcomes of a piece, and what it adds to the argument.
PieceTyped(piece) == piece.bytes \in Seq(Symbol)

LEMMA PlainTyped ==
  \A bytes \in Seq(Symbol) : \A p : PieceTyped(Got(bytes, p)) /\ PieceTyped(Bad(p)) /\ PieceTyped(Panic(p))
BY DEF PieceTyped, Got, Bad, Panic

LEMMA ByteIsSymbol == Byte \subseteq Symbol /\ Seq(Byte) \subseteq Seq(Symbol)
BY DEF Symbol

LEMMA AtTyped == ASSUME NEW p \in Nat, line \in Seq(Byte), ~Eol(p) PROVE At(p) \in Byte
BY DEF At, Eol

LEMMA TextIsBytes ==
  ASSUME NEW n \in Nat, n = Len(line), line \in Seq(Byte), NEW p \in Nat, NEW q \in 0 .. n
  PROVE  Text(p, q) \in Seq(Byte)
<1>1. p + 1 \in Int /\ q \in Int /\ \A i \in p + 1 .. q : line[i] \in Byte
  OBVIOUS
<1>2. QED
  BY <1>1, SubSeqProperties DEF Text

\* The digits in the line are those of the values 0 to 9.
LEMMA DigitValue == \A b \in Digits : Value(b) \in 0 .. 9 /\ b \in Byte
<1>1. Digits = 48 .. 57
  BY Codes DEF Digits
<1>2. QED
  BY <1>1, ValueTyped DEF Byte

\* The last character of Unicode has at most 21 bits.
LEMMA ScalarBound == MaxScalar \in Nat /\ MaxScalar >= 256 /\ MaxScalar < 2097152
BY SMT DEF MaxScalar

LEMMA Utf8Typed == \A ch \in 0 .. MaxScalar : Utf8(ch) \in Seq(Byte)
<1> DEFINE tail(k) == 128 + (k % 64)
<1>1. \A k \in Nat : tail(k) \in Byte
  BY DEF Byte
<1> HIDE DEF tail
<1>2. ASSUME NEW ch \in 0 .. MaxScalar PROVE Utf8(ch) \in Seq(Byte)
  <2>1. ch \in Nat /\ ch < 2097152 /\ ch \div 64 \in Nat /\ ch \div 4096 \in Nat
    BY <1>2, ScalarBound, SMT
  <2>2. tail(ch) \in Byte /\ tail(ch \div 64) \in Byte /\ tail(ch \div 4096) \in Byte
    BY <1>1, <2>1
  <2>3. CASE ch < 128
    <3>1. Utf8(ch) = <<ch>> /\ ch \in Byte
      BY <2>1, <2>3, SMT DEF Utf8, Byte
    <3>2. QED
      BY <3>1
  <2>4. CASE ~(ch < 128) /\ ch < 2048
    <3>1. Utf8(ch) = <<192 + (ch \div 64), tail(ch)>>
      BY <2>1, <2>4, SMT DEF Utf8, tail
    <3>2. 192 + (ch \div 64) \in Byte
      BY <2>1, <2>4 DEF Byte
    <3>3. QED
      BY <2>2, <3>1, <3>2
  <2>5. CASE ~(ch < 128) /\ ~(ch < 2048) /\ ch < 65536
    <3>1. Utf8(ch) = <<224 + (ch \div 4096), tail(ch \div 64), tail(ch)>>
      BY <2>1, <2>5, SMT DEF Utf8, tail
    <3>2. 224 + (ch \div 4096) \in Byte
      BY <2>1, <2>5, SMT DEF Byte
    <3>3. QED
      BY <2>2, <3>1, <3>2
  <2>6. CASE ~(ch < 128) /\ ~(ch < 2048) /\ ~(ch < 65536)
    <3>1. Utf8(ch) = <<240 + (ch \div 262144), tail(ch \div 4096), tail(ch \div 64), tail(ch)>>
      BY <2>1, <2>6, SMT DEF Utf8, tail
    <3>2. 240 + (ch \div 262144) \in Byte
      BY <2>1, <2>6, SMT DEF Byte
    <3>3. QED
      BY <2>2, <3>1, <3>2
  <2>7. QED
    BY <2>3, <2>4, <2>5, <2>6, SMT
<1>3. QED
  BY <1>2

LEMMA PushedTyped == \A ch \in 0 .. MaxScalar : Pushed(ch) \in Seq(Byte)
<1>1. ASSUME NEW ch \in 0 .. MaxScalar PROVE Pushed(ch) \in Seq(Byte)
  <2>1. CASE job.bytes /\ ch < 256
    <3>1. Pushed(ch) = <<ch>> /\ ch \in Byte
      BY <2>1 DEF Pushed, Byte
    <3>2. QED
      BY <3>1
  <2>2. CASE ~(job.bytes /\ ch < 256)
    BY <2>2, Utf8Typed DEF Pushed
  <2>3. QED
    BY <2>1, <2>2
<1>2. QED
  BY <1>1

LEMMA NumericEscapeTyped ==
  ASSUME NEW n \in Nat, n = Len(line), line \in Seq(Byte), NEW p \in 0 .. n, NEW c \in DOMAIN NumericEscapes
  PROVE  PieceTyped(NumericEscape(c, p))
<1> DEFINE form == NumericEscapes[c]
           run == RunEnd(p, {b \in Byte : Value(b) < form.radix})
           end == IF run > p + form.digits THEN p + form.digits ELSE run
           number == Number(Text(p, end), form.radix, MaxScalar)
<1>1. form.digits \in Nat /\ form.radix \in Nat /\ c \in {"d", "o", "x", "u", "U"}
  BY DEF NumericEscapes
<1>2. run \in p .. n
  BY RunEndIn
<1>3. end \in 0 .. n
  <2> HIDE DEF form, run
  <2> QED BY <1>1, <1>2
<1> HIDE DEF end
<1>4. number \in Nat
  <2>1. Text(p, end) \in Seq(Byte)
    BY <1>3, TextIsBytes
  <2>2. MaxScalar \in Nat
    BY SMT DEF MaxScalar
  <2> HIDE DEF form
  <2>3. QED
    BY <1>1, <2>1, <2>2, NumberTyped
<1>5. <<Code[c]>> \in Seq(Symbol)
  <2>1. Code[c] \in Byte
    BY <1>1, CodesTyped
  <2>2. QED
    BY <2>1, ByteIsSymbol
<1>6. IsScalar(number) => Pushed(number) \in Seq(Symbol)
  <2> HIDE DEF number
  <2>1. IsScalar(number) => number \in 0 .. MaxScalar
    BY <1>4, ScalarBound, SMT DEF IsScalar
  <2>2. QED
    BY <2>1, PushedTyped, ByteIsSymbol
<1>7. \/ NumericEscape(c, p) = Got(<<Code[c]>>, p)
      \/ IsScalar(number) /\ NumericEscape(c, p) = Got(Pushed(number), end)
      \/ NumericEscape(c, p) = Panic(p)
  BY Zenon DEF NumericEscape, number, end, run, form
<1> HIDE DEF number
<1>8. QED
  BY <1>5, <1>6, <1>7, PlainTyped

LEMMA ControlEscapeTyped ==
  ASSUME NEW n \in Nat, n = Len(line), line \in Seq(Byte), NEW p \in 0 .. n
  PROVE  PieceTyped(ControlEscape(p))
<1>1. <<Code["c"]>> \in Seq(Symbol)
  <2>1. Code["c"] \in Byte
    BY CodesTyped
  <2>2. QED
    BY <2>1, ByteIsSymbol
<1>2. ASSUME ~Eol(p), At(p) < 128 PROVE Pushed(Control(At(p))) \in Seq(Symbol)
  <2> DEFINE b == At(p)
             upper == IF b \in 97 .. 122 THEN b - 32 ELSE b
  <2>1. b \in 0 .. 127
    <3>1. p \in Nat
      OBVIOUS
    <3>2. b \in Byte /\ b < 128
      BY <1>2, <3>1, AtTyped
    <3> HIDE DEF b
    <3>3. QED
      BY <3>2 DEF Byte
  <2>2. Control(b) = IF (upper \div 64) % 2 = 1 THEN upper - 64 ELSE upper + 64
    BY Codes DEF Control
  <2> HIDE DEF b
  <2>3. upper \in 0 .. 127
    BY <2>1
  <2> HIDE DEF upper
  <2>4. upper \div 64 = IF upper < 64 THEN 0 ELSE 1
    BY <2>3
  <2>5. Control(b) \in 0 .. 127
    BY <2>2, <2>3, <2>4
  <2>6. Control(b) \in 0 .. MaxScalar
    <3> DEFINE control == Control(b)
    <3>1. control \in 0 .. 127
      BY <2>5
    <3> HIDE DEF control
    <3>2. control \in 0 .. MaxScalar
      BY <3>1, ScalarBound, SMT
    <3>3. QED
      BY <3>2 DEF control
  <2>7. QED
    BY <2>6, PushedTyped, ByteIsSymbol DEF b
<1>3. QED
  BY <1>1, <1>2, PlainTyped, Zenon DEF ControlEscape

LEMMA EscapeTyped ==
  ASSUME NEW n \in Nat, n = Len(line), line \in Seq(Byte), NEW p \in 0 .. n - 1, NEW other \in Seq(Symbol)
  PROVE  PieceTyped(Escape(p, other))
<1>1. p + 1 \in 0 .. n
  OBVIOUS
<1>2. CASE OnAny(p, DOMAIN NamedEscapes)
  <2> DEFINE c == CHOOSE c \in DOMAIN NamedEscapes : On(p, c)
  <2>1. c \in DOMAIN NamedEscapes
    BY <1>2, Zenon DEF OnAny
  <2>2. Escape(p, other) = Got(<<NamedEscapes[c]>>, p + 1)
    BY <1>2, Zenon DEF Escape
  <2> HIDE DEF c
  <2>3. NamedEscapes[c] \in Byte
    <3>1. c \in {"a", "b", "f", "n", "r", "t", "v"}
      BY <2>1 DEF NamedEscapes
    <3>2. NamedEscapes[c] \in {7, 8, 12, 10, 13, 9, 11}
      BY <3>1 DEF NamedEscapes
    <3> DEFINE value == NamedEscapes[c]
    <3>3. value \in {7, 8, 12, 10, 13, 9, 11}
      BY <3>2
    <3> HIDE DEF value
    <3>4. value \in Byte
      BY <3>3 DEF Byte
    <3>5. QED
      BY <3>4 DEF value
  <2>4. <<NamedEscapes[c]>> \in Seq(Symbol)
    BY <2>3, ByteIsSymbol
  <2>5. QED
    BY <2>2, <2>4, PlainTyped
<1>3. CASE ~OnAny(p, DOMAIN NamedEscapes) /\ OnAny(p, DOMAIN NumericEscapes)
  <2> DEFINE c == CHOOSE c \in DOMAIN NumericEscapes : On(p, c)
  <2>1. c \in DOMAIN NumericEscapes
    BY <1>3, Zenon DEF OnAny
  <2>2. Escape(p, other) = NumericEscape(c, p + 1)
    BY <1>3, Zenon DEF Escape
  <2> HIDE DEF c
  <2>3. QED
    BY <1>1, <2>1, <2>2, NumericEscapeTyped
<1>4. CASE ~OnAny(p, DOMAIN NamedEscapes) /\ ~OnAny(p, DOMAIN NumericEscapes)
  <2>1. Escape(p, other) \in {Got(other, p + 1), ControlEscape(p + 1)}
    BY <1>4, Zenon DEF Escape
  <2>2. PieceTyped(ControlEscape(p + 1)) /\ PieceTyped(Got(other, p + 1))
    BY <1>1, ControlEscapeTyped, PlainTyped
  <2>3. QED
    BY <2>1, <2>2
<1>5. QED
  BY <1>2, <1>3, <1>4

\* A backslash and a byte behind it.
LEMMA EscapedTyped ==
  /\ Backslash \in Byte
  /\ \A b \in Byte : <<Backslash, b>> \in Seq(Symbol) /\ <<b>> \in Seq(Symbol)
<1>1. Backslash \in Byte
  BY CodesTyped DEF Backslash
<1>2. QED
  BY <1>1, ByteIsSymbol

LEMMA KeptTyped ==
  ASSUME NEW n \in Nat, n = Len(line), line \in Seq(Byte), NEW p \in 0 .. n
  PROVE  PieceTyped(Kept(p))
<1>1. CASE Eol(p)
  <2>1. Kept(p) = Bad(p)
    BY <1>1, Zenon DEF Kept
  <2>2. <<>> \in Seq(Symbol)
    OBVIOUS
  <2>3. QED
    BY <2>1, <2>2, PlainTyped
<1>2. CASE ~Eol(p)
  <2>1. p \in 0 .. n - 1
    BY <1>2 DEF Eol
  <2>2. <<Backslash, At(p)>> \in Seq(Symbol)
    BY <1>2, AtTyped, EscapedTyped
  <2>3. Kept(p) = Escape(p, <<Backslash, At(p)>>)
    BY <1>2, Zenon DEF Kept
  <2>4. QED
    BY <2>1, <2>2, <2>3, EscapeTyped
<1>3. QED
  BY <1>1, <1>2

LEMMA QuantifierTyped ==
  ASSUME NEW n \in Nat, n = Len(line), line \in Seq(Byte), NEW p \in 0 .. n - 1, NEW opening \in Seq(Symbol)
  PROVE  PieceTyped(Quantifier(p, opening))
<1> DEFINE q == ContentEnd(p + 1)
           comma == RunEnd(p + 1, Digits)
           first == Zero(Text(p + 1, comma))
<1>1. p + 1 \in 0 .. n
  OBVIOUS
<1>2. q \in p + 1 .. n /\ comma \in p + 1 .. n
  BY <1>1, RunEndIn DEF ContentEnd
<1>3. first \in Seq(Symbol)
  <2>1. Text(p + 1, comma) \in Seq(Symbol)
    BY <1>1, <1>2, TextIsBytes, ByteIsSymbol
  <2>2. <<Code["0"]>> \in Seq(Symbol)
    BY CodesTyped, EscapedTyped
  <2>3. QED
    BY <2>1, <2>2, Zenon DEF Zero
<1>4. Text(comma, q) \in Seq(Symbol)
  <2>1. comma \in Nat /\ q \in 0 .. n
    BY <1>1, <1>2
  <2>2. QED
    BY <2>1, TextIsBytes, ByteIsSymbol
<1>5. Quantifier(p, opening) \in {Bad(q), Got(opening \o first \o Text(comma, q), q)}
  BY Zenon DEF Quantifier
<1>6. opening \o first \o Text(comma, q) \in Seq(Symbol)
  <2> HIDE DEF first
  <2> DEFINE rest == Text(comma, q)
  <2>1. rest \in Seq(Symbol)
    BY <1>4
  <2> HIDE DEF rest
  <2>2. opening \o first \o rest \in Seq(Symbol)
    BY <1>3, <2>1
  <2>3. QED
    BY <2>2 DEF rest
<1> HIDE DEF first, q, comma
<1>7. <<>> \in Seq(Symbol)
  OBVIOUS
<1>8. QED
  BY <1>5, <1>6, <1>7, PlainTyped

LEMMA RegexEscapeTyped ==
  ASSUME NEW n \in Nat, n = Len(line), line \in Seq(Byte), NEW p \in 0 .. n
  PROVE  PieceTyped(RegexEscape(p))
<1>1. CASE Eol(p)
  <2>1. RegexEscape(p) = Bad(p)
    BY <1>1, Zenon DEF RegexEscape
  <2>2. <<>> \in Seq(Symbol)
    OBVIOUS
  <2>3. QED
    BY <2>1, <2>2, PlainTyped
<1>2. CASE ~Eol(p)
  <2> DEFINE brace == <<Backslash, Code["{"]>>
  <2>1. p \in 0 .. n - 1 /\ At(p) \in Byte
    BY <1>2, AtTyped DEF Eol
  <2>2. brace \in Seq(Symbol)
    BY CodesTyped, EscapedTyped
  <2> HIDE DEF brace
  <2>3. RegexEscape(p) \in {Got(<<At(p)>>, p + 1), Quantifier(p, brace),
                            Got(<<Backslash, At(p)>>, p + 1), Kept(p)}
    BY <1>2, Zenon DEF RegexEscape, brace
  <2>4. PieceTyped(Quantifier(p, brace)) /\ PieceTyped(Kept(p))
    BY <2>1, <2>2, QuantifierTyped, KeptTyped
  <2>5. PieceTyped(Got(<<At(p)>>, p + 1)) /\ PieceTyped(Got(<<Backslash, At(p)>>, p + 1))
    BY <2>1, EscapedTyped, PlainTyped
  <2>6. QED
    BY <2>3, <2>4, <2>5
<1>3. QED
  BY <1>1, <1>2

LEMMA TransEscapeTyped ==
  ASSUME NEW n \in Nat, n = Len(line), line \in Seq(Byte), NEW p \in 0 .. n
  PROVE  PieceTyped(TransEscape(p))
<1>1. CASE Eol(p)
  <2>1. TransEscape(p) = Bad(p)
    BY <1>1, Zenon DEF TransEscape
  <2>2. <<>> \in Seq(Symbol)
    OBVIOUS
  <2>3. QED
    BY <2>1, <2>2, PlainTyped
<1>2. CASE ~Eol(p)
  <2>1. At(p) \in Byte
    BY <1>2, AtTyped
  <2>2. TransEscape(p) \in {Got(<<At(p)>>, p + 1), Kept(p)}
    BY <1>2, Zenon DEF TransEscape
  <2>3. QED
    BY <2>1, <2>2, EscapedTyped, PlainTyped, KeptTyped
<1>3. QED
  BY <1>1, <1>2

LEMMA BracketOpeningTyped ==
  ASSUME NEW n \in Nat, n = Len(line), line \in Seq(Byte), NEW p \in 1 .. n
  PROVE  PieceTyped(BracketOpening(p))
<1>0. Code["["] \in Byte /\ <<Code["["]>> \in Seq(Symbol) /\ <<>> \in Seq(Symbol)
  <2>1. Code["["] \in Byte /\ <<Code["["]>> \in Seq(Symbol)
    BY CodesTyped, EscapedTyped
  <2>2. <<>> \in Seq(Symbol)
    OBVIOUS
  <2>3. QED
    BY <2>1, <2>2
<1>1. CASE Eol(p)
  <2>1. BracketOpening(p) = Got(<<Code["["]>>, p)
    BY <1>1, Zenon DEF BracketOpening
  <2>2. QED
    BY <1>0, <2>1, PlainTyped
<1>2. CASE ~Eol(p) /\ At(p) \notin Markers
  <2>1. BracketOpening(p) = Got(<<Code["["], At(p)>>, p + 1)
    BY <1>2, Zenon DEF BracketOpening
  <2>2. <<Code["["], At(p)>> \in Seq(Symbol)
    BY <1>0, <1>2, AtTyped, ByteIsSymbol
  <2>3. QED
    BY <2>1, <2>2, PlainTyped
<1>3. CASE ~Eol(p) /\ At(p) \in Markers /\ NameEnds(p) = {}
  <2>1. BracketOpening(p) = Bad(Len(line))
    BY <1>3, Zenon DEF BracketOpening
  <2>2. QED
    BY <1>0, <2>1, PlainTyped
<1>4. CASE ~Eol(p) /\ At(p) \in Markers /\ NameEnds(p) # {}
  <2> DEFINE q == CHOOSE q \in NameEnds(p) : \A r \in NameEnds(p) : q <= r
  <2>1. NameEnds(p) \subseteq p + 1 .. n - 2
    BY DEF NameEnds
  <2>2. q \in NameEnds(p)
    <3>1. NameEnds(p) \in SUBSET Nat
      BY <2>1
    <3>2. QED
      BY <1>4, <3>1, Least
  <2>3. BracketOpening(p) = Got(Text(p - 1, q + 2), q + 2)
    BY <1>4, Zenon DEF BracketOpening
  <2> HIDE DEF q
  <2>4. p - 1 \in Nat /\ q + 2 \in 0 .. n
    BY <2>1, <2>2
  <2>5. Text(p - 1, q + 2) \in Seq(Symbol)
    BY <2>4, TextIsBytes, ByteIsSymbol
  <2>6. QED
    BY <2>3, <2>5, PlainTyped
<1>5. QED
  BY <1>1, <1>2, <1>3, <1>4

LEMMA ReplacementPieceTyped ==
  ASSUME NEW n \in Nat, n = Len(line), line \in Seq(Byte), NEW p \in 0 .. n,
         ~Eol(p), ~(On(p, "\\") /\ Eol(p + 1))
  PROVE  PieceTyped(ReplacementPiece(p))
<1>1. p + 1 \in 0 .. n
  BY DEF Eol
<1>2. CASE On(p, "\\")
  <2> DEFINE other == <<Backslash, At(p + 1)>>
             value == Value(At(p + 1))
  <2>1. p + 1 \in 0 .. n - 1 /\ ~Eol(p + 1) /\ At(p + 1) \in Byte
    BY <1>1, <1>2, AtTyped DEF Eol
  <2>2. other \in Seq(Symbol) /\ <<At(p + 1)>> \in Seq(Symbol)
    BY <2>1, EscapedTyped
  <2>3. At(p + 1) \in Digits => <<WholeMatch + value>> \in Seq(Symbol)
    <3> SUFFICES ASSUME At(p + 1) \in Digits PROVE <<WholeMatch + value>> \in Seq(Symbol)
      OBVIOUS
    <3>1. value \in 0 .. 9
      BY DigitValue
    <3> HIDE DEF value
    <3>2. WholeMatch + value \in Symbol
      BY <3>1 DEF Symbol, References, WholeMatch
    <3>3. QED
      BY <3>2
  <2> HIDE DEF other, value
  <2>4. \/ /\ At(p + 1) \in Digits
           /\ ReplacementPiece(p) = Got(<<WholeMatch + value>>, p + 1 + 1)
        \/ ReplacementPiece(p) = Got(<<At(p + 1)>>, p + 1 + 1)
        \/ ReplacementPiece(p) = Escape(p + 1, other)
    BY <1>2, Zenon DEF ReplacementPiece, ReplacementEscape, other, value
  <2>5. PieceTyped(Escape(p + 1, other))
    BY <2>1, <2>2, EscapeTyped
  <2>6. QED
    BY <2>2, <2>3, <2>4, <2>5, PlainTyped
<1>3. CASE ~On(p, "\\")
  <2>1. ReplacementPiece(p) \in {Got(<<WholeMatch>>, p + 1), Got(<<At(p)>>, p + 1)}
    BY <1>3, Zenon DEF ReplacementPiece
  <2>2. <<WholeMatch>> \in Seq(Symbol) /\ <<At(p)>> \in Seq(Symbol)
    <3>1. WholeMatch \in Symbol /\ At(p) \in Symbol
      BY AtTyped, ByteIsSymbol DEF Symbol, References, WholeMatch
    <3>2. QED
      BY <3>1
  <2>3. QED
    BY <2>1, <2>2, PlainTyped
<1>4. QED
  BY <1>2, <1>3
-----------------------------------------------------------------------------
(* Steps keep the types.                                                   *)

Wants == {"", "first", "second", "s", "y", "to"}

StringTyped == stage \in Stages /\ want \in Wants /\ delim \in Byte /\ acc \in Seq(Symbol)

\* The step goes on at a stage of the code, with what was read of the argument.
Lands == stage' \in Stages /\ acc' = acc

LEMMA StageNames ==
  Stages = {"regex", "bracket", "trans", "sequence", "address", "separator", "command", "ready", "text",
            "continuation", "posix_text", "replacement", "flags", "done", "error", "panic"}
BY DEF Stages, Strings

LEMMA StopLands == Refuse \/ Crash => Lands
BY StageNames DEF Refuse, Crash, Stop, Lands

LEMMA GotoLands == \A where \in Stages : \A p : Goto(where, p) => Lands
BY DEF Goto, Lands

LEMMA EndLands == \A c, p : Complete(c, p) \/ End(c, p) => Lands
<1>1. \A c, p : Complete(c, p) => Lands
  BY GotoLands, StageNames DEF Complete
<1>2. QED
  BY <1>1, StopLands, Zenon DEF End

LEMMA LandsKeeps ==
  ASSUME StringTyped, Lands, UNCHANGED <<want, delim>>
  PROVE  StringTyped'
BY DEF StringTyped, Lands

LEMMA FeedKeeps ==
  ASSUME StringTyped, NEW piece, Feed(piece), Outcome(piece), PieceTyped(piece), UNCHANGED <<want, delim>>
  PROVE  StringTyped'
<1>1. stage' \in Stages
  BY StageNames DEF StringTyped, Feed, Outcome
<1>2. acc' \in Seq(Symbol)
  <2> DEFINE bytes == piece.bytes
  <2>1. bytes \in Seq(Symbol) /\ acc \in Seq(Symbol)
    BY DEF StringTyped, PieceTyped
  <2> HIDE DEF bytes
  <2>2. acc \o bytes \in Seq(Symbol)
    BY <2>1
  <2>3. QED
    BY <2>2 DEF Feed, bytes
<1>3. QED
  BY <1>1, <1>2 DEF StringTyped

LEMMA OpenTyped ==
  ASSUME StringTyped, line \in Seq(Byte), NEW p \in Nat, NEW kind \in Stages, NEW purpose \in Wants,
         Open(p, kind, purpose)
  PROVE  StringTyped'
<1>1. CASE Eol(p) \/ On(p, "\\")
  <2>1. Stop("error") /\ UNCHANGED <<want, delim>>
    BY <1>1, Zenon DEF Open
  <2>2. QED
    BY <2>1, StageNames DEF StringTyped, Stop
<1>2. CASE ~(Eol(p) \/ On(p, "\\"))
  <2>1. stage' = kind /\ want' = purpose /\ delim' = At(p) /\ acc' = <<>>
    BY <1>2, Zenon DEF Open
  <2>2. At(p) \in Byte /\ <<>> \in Seq(Symbol)
    BY <1>2, AtTyped
  <2>3. QED
    BY <2>1, <2>2 DEF StringTyped
<1>3. QED
  BY <1>1, <1>2

\* The byte that the loop of a string goes on with.
LEMMA ByteTyped ==
  ASSUME line \in Seq(Byte), NEW p \in Nat, ~Eol(p), NEW q
  PROVE  PieceTyped(Got(<<At(p)>>, q)) /\ Outcome(Got(<<At(p)>>, q))
BY AtTyped, EscapedTyped, PlainTyped, PieceOutcome

LEMMA StringKeepsTypes ==
  ASSUME CursorInv, StringTyped, String
  PROVE  StringTyped'
<1> DEFINE n == Len(line)
<1>0. n \in Nat /\ line \in Seq(Byte) /\ pos \in 0 .. n /\ pos \in Nat /\ UNCHANGED <<want, delim>>
  BY DEF CursorInv, TextTyped, CursorInLine, String, ReadString
<1> HIDE DEF n
<1>1. \A c : On(pos, c) => pos + 1 \in 0 .. n /\ pos + 1 \in 1 .. n /\ pos \in 0 .. n - 1
  BY <1>0, OnInLine DEF n, On, Eol
<1>2. ASSUME RegexEnds \/ TransEnds \/ RegexUnterminated \/ BracketUnterminated \/ TransUnterminated
      PROVE  StringTyped'
  <2>1. Lands
    BY <1>2, StageNames DEF RegexEnds, TransEnds, RegexUnterminated, BracketUnterminated,
                            TransUnterminated, Close, Stop, Lands
  <2>2. QED
    BY <1>0, <2>1, LandsKeeps
<1>3. ASSUME RegexEscapes PROVE StringTyped'
  <2>1. pos + 1 \in 0 .. n /\ Feed(RegexEscape(pos + 1))
    BY <1>1, <1>3 DEF RegexEscapes
  <2>2. PieceTyped(RegexEscape(pos + 1)) /\ Outcome(RegexEscape(pos + 1))
    BY <1>0, <2>1, RegexEscapeTyped, StringOutcome DEF n
  <2>3. QED
    BY <1>0, <2>1, <2>2, FeedKeeps
<1>4. ASSUME RegexQuantifier PROVE StringTyped'
  <2> DEFINE piece == Quantifier(pos, <<Code["{"]>>)
  <2>1. pos \in 0 .. n - 1 /\ Feed(piece)
    BY <1>1, <1>4 DEF RegexQuantifier, OpensQuantifier
  <2>2. <<Code["{"]>> \in Seq(Symbol)
    BY CodesTyped, EscapedTyped
  <2>3. PieceTyped(piece) /\ Outcome(piece)
    BY <1>0, <2>1, <2>2, QuantifierTyped, StringOutcome DEF n
  <2> HIDE DEF piece
  <2>4. QED
    BY <1>0, <2>1, <2>3, FeedKeeps
<1>5. ASSUME RegexByte \/ BracketByte \/ TransByte PROVE StringTyped'
  <2> DEFINE piece == Got(<<At(pos)>>, pos + 1)
  <2>1. ~Eol(pos) /\ Feed(piece)
    BY <1>5 DEF RegexByte, BracketByte, TransByte
  <2>2. PieceTyped(piece) /\ Outcome(piece)
    BY <1>0, <2>1, ByteTyped
  <2> HIDE DEF piece
  <2>3. QED
    BY <1>0, <2>1, <2>2, FeedKeeps
<1>6. ASSUME RegexBracket PROVE StringTyped'
  <2> DEFINE start == BracketStart(pos + 1)
             text == Text(pos, start)
  <2>1. pos + 1 \in 0 .. n /\ stage' = "bracket" /\ acc' = acc \o text
    BY <1>1, <1>6 DEF RegexBracket, OpensBracket
  <2>2. start \in 0 .. n
    <3> DEFINE q == IF On(pos + 1, "^") THEN pos + 1 + 1 ELSE pos + 1
    <3>1. q \in 0 .. n
      BY <1>0, <2>1, OnInLine DEF n
    <3>2. start = IF On(q, "]") THEN q + 1 ELSE q
      BY Zenon DEF BracketStart
    <3> HIDE DEF q, start
    <3>3. On(q, "]") => q + 1 \in 0 .. n
      BY <1>0, <3>1, OnInLine DEF n
    <3>4. QED
      BY <3>1, <3>2, <3>3
  <2>3. text \in Seq(Symbol)
    BY <1>0, <2>2, TextIsBytes, ByteIsSymbol DEF n
  <2> HIDE DEF text
  <2>4. QED
    BY <1>0, <2>1, <2>3, StageNames DEF StringTyped
<1>7. ASSUME BracketEnds PROVE StringTyped'
  <2>1. stage' = "regex" /\ acc' = Append(acc, At(pos)) /\ ~Eol(pos)
    BY <1>7 DEF BracketEnds, On
  <2>2. At(pos) \in Symbol
    BY <1>0, <2>1, AtTyped, ByteIsSymbol
  <2>3. QED
    BY <1>0, <2>1, <2>2, StageNames DEF StringTyped
<1>8. ASSUME BracketOpens PROVE StringTyped'
  <2>1. pos + 1 \in 1 .. n /\ Feed(BracketOpening(pos + 1))
    BY <1>1, <1>8 DEF BracketOpens
  <2>2. PieceTyped(BracketOpening(pos + 1)) /\ Outcome(BracketOpening(pos + 1))
    BY <1>0, <2>1, BracketOpeningTyped, StringOutcome DEF n
  <2>3. QED
    BY <1>0, <2>1, <2>2, FeedKeeps
<1>9. ASSUME BracketEscapes PROVE StringTyped'
  <2>1. pos + 1 \in 0 .. n /\ Feed(Kept(pos + 1))
    BY <1>1, <1>9 DEF BracketEscapes
  <2>2. PieceTyped(Kept(pos + 1)) /\ Outcome(Kept(pos + 1))
    BY <1>0, <2>1, KeptTyped, EscapeOutcome DEF n
  <2>3. QED
    BY <1>0, <2>1, <2>2, FeedKeeps
<1>10. ASSUME TransEscapes PROVE StringTyped'
  <2>1. pos + 1 \in 0 .. n /\ Feed(TransEscape(pos + 1))
    BY <1>1, <1>10 DEF TransEscapes
  <2>2. PieceTyped(TransEscape(pos + 1)) /\ Outcome(TransEscape(pos + 1))
    BY <1>0, <2>1, TransEscapeTyped, StringOutcome DEF n
  <2>3. QED
    BY <1>0, <2>1, <2>2, FeedKeeps
<1>11. QED
  BY <1>2, <1>3, <1>4, <1>5, <1>6, <1>7, <1>8, <1>9, <1>10, Zenon DEF String, ReadString

LEMMA SequenceKeepsTypes ==
  ASSUME StringTyped, SequenceLine \/ SequenceSemicolon \/ SequenceCommand
  PROVE  StringTyped'
<1>1. ASSUME SequenceLine PROVE StringTyped'
  <2>1. UNCHANGED <<want, delim, acc>> /\ stage = "sequence"
    BY <1>1 DEF SequenceLine, stringVars
  <2>2. stage' = stage \/ stage' = (IF nesting > 0 THEN "error" ELSE "done") \/ stage' = "error"
    BY <1>1, Zenon DEF SequenceLine
  <2>3. QED
    BY <2>1, <2>2, StageNames DEF StringTyped
<1>2. ASSUME SequenceSemicolon PROVE StringTyped'
  <2>1. Lands /\ UNCHANGED <<want, delim>>
    BY <1>2, GotoLands, StageNames DEF SequenceSemicolon, Same
  <2>2. QED
    BY <2>1, LandsKeeps
<1>3. ASSUME SequenceCommand PROVE StringTyped'
  <2>1. want' = "first" /\ UNCHANGED delim
    BY <1>3 DEF SequenceCommand, Same
  <2>2. Goto("address", EatSpaces(pos)) \/ Goto("command", EatSpaces(pos))
    BY <1>3, Zenon DEF SequenceCommand
  <2>3. Lands
    BY <2>2, GotoLands, StageNames
  <2>4. QED
    BY <2>1, <2>3 DEF StringTyped, Lands, Wants
<1>4. QED
  BY <1>1, <1>2, <1>3

LEMMA AddressesKeepTypes ==
  ASSUME CursorInv, StringTyped, Addresses
  PROVE  StringTyped'
<1>0. pos \in Nat /\ line \in Seq(Byte)
  BY DEF CursorInv, TextTyped, CursorInLine
<1>1. \A a, p : Address(a, p) => Lands
  <2>1. \A a, p : First(a, p) => Lands
    BY StopLands, GotoLands, StageNames DEF First
  <2>2. \A a, p : Second(a, p) => Lands
    BY StopLands, GotoLands, StageNames DEF Second
  <2>3. QED
    BY <2>1, <2>2, Zenon DEF Address
<1>2. \A kind, p : AddressNumber(kind, p) => Lands
  BY <1>1, StopLands, Zenon DEF AddressNumber
<1>3. ASSUME AddressPlain PROVE StringTyped'
  <2>1. Lands
    BY <1>1, <1>2, <1>3, StopLands, Zenon DEF AddressPlain
  <2>2. UNCHANGED <<want, delim>>
    BY <1>3 DEF AddressPlain, Same
  <2>3. QED
    BY <2>1, <2>2, LandsKeeps
<1>4. ASSUME AddressRegex PROVE StringTyped'
  <2> DEFINE p == IF On(pos, "\\") THEN pos + 1 ELSE pos
  <2>1. p \in Nat /\ Open(p, "regex", want)
    BY <1>0, <1>4 DEF AddressRegex
  <2> HIDE DEF p
  <2>2. "regex" \in Stages /\ want \in Wants
    BY StageNames DEF StringTyped
  <2>3. QED
    BY <1>0, <2>1, <2>2, OpenTyped
<1>5. ASSUME AddressRegexEnds PROVE StringTyped'
  <2>1. Lands
    BY <1>1, <1>5, StopLands, Zenon DEF AddressRegexEnds
  <2>2. UNCHANGED <<want, delim>>
    BY <1>5 DEF AddressRegexEnds, Same
  <2>3. QED
    BY <2>1, <2>2, LandsKeeps
<1>6. ASSUME SeparatorNone PROVE StringTyped'
  <2>1. Refuse \/ Goto("command", EatSpaces(pos))
    BY <1>6, Zenon DEF SeparatorNone
  <2>2. UNCHANGED <<want, delim>>
    BY <1>6 DEF SeparatorNone, Same
  <2>3. QED
    BY <2>1, <2>2, StopLands, GotoLands, StageNames, LandsKeeps
<1>7. ASSUME Separator PROVE StringTyped'
  <2>1. UNCHANGED delim
    BY <1>7 DEF Separator, Same
  <2>2. \/ (Crash \/ Refuse) /\ UNCHANGED want
        \/ want' = "second" /\ \E r : Goto("address", r)
    BY <1>7, Zenon DEF Separator
  <2>3. Lands /\ want' \in {want, "second"}
    BY <2>2, StopLands, GotoLands, StageNames
  <2>4. QED
    BY <2>1, <2>3 DEF StringTyped, Lands, Wants
<1>8. QED
  BY <1>3, <1>4, <1>5, <1>6, <1>7, Zenon DEF Addresses

LEMMA HandlersKeepTypes ==
  ASSUME CursorInv, StringTyped, Handlers
  PROVE  StringTyped'
<1>0. pos \in Nat /\ pos + 1 \in Nat /\ line \in Seq(Byte)
  BY DEF CursorInv, TextTyped, CursorInLine
<1>1. ASSUME Negation PROVE StringTyped'
  <2>1. Refuse \/ Goto("command", Argument)
    BY <1>1, Zenon DEF Negation
  <2>2. UNCHANGED <<want, delim>>
    BY <1>1 DEF Negation, Same
  <2>3. QED
    BY <2>1, <2>2, StopLands, GotoLands, StageNames, LandsKeeps
<1>2. ASSUME OpenBlock \/ CloseBlock \/ NoArgument PROVE StringTyped'
  <2>1. Refuse \/ \E c, p : Complete(c, p) \/ End(c, p)
    BY <1>2, Zenon DEF OpenBlock, CloseBlock, NoArgument
  <2>2. UNCHANGED <<want, delim>>
    BY <1>2 DEF OpenBlock, CloseBlock, NoArgument, Same
  <2>3. QED
    BY <2>1, <2>2, StopLands, EndLands, LandsKeeps
<1>3. ASSUME LabelArgument \/ NumberArgument PROVE StringTyped'
  <2>1. Refuse \/ \E c, p : Complete(c, p) \/ End(c, p)
    BY <1>3, Zenon DEF LabelArgument, NumberArgument
  <2>2. UNCHANGED <<want, delim>>
    BY <1>3 DEF LabelArgument, NumberArgument, Same
  <2>3. QED
    BY <2>1, <2>2, StopLands, EndLands, LandsKeeps
<1>4. ASSUME ReadArgument \/ WriteArgument \/ VersionArgument PROVE StringTyped'
  <2>1. Refuse \/ \E c, p : Complete(c, p) \/ End(c, p)
    BY <1>4, Zenon DEF ReadArgument, WriteArgument, VersionArgument
  <2>2. UNCHANGED <<want, delim>>
    BY <1>4 DEF ReadArgument, WriteArgument, VersionArgument, Same
  <2>3. QED
    BY <2>1, <2>2, StopLands, EndLands, LandsKeeps
<1>5. ASSUME NEW p, BeginText(p), UNCHANGED <<want, delim>> PROVE StringTyped'
  <2>1. acc' = <<>> /\ stage' \in {"continuation", "text"}
    BY <1>5, Zenon DEF BeginText
  <2>2. <<>> \in Seq(Symbol)
    OBVIOUS
  <2>3. QED
    BY <1>5, <2>1, <2>2, StageNames DEF StringTyped
<1>6. ASSUME TextArgument \/ ExecuteArgument PROVE StringTyped'
  <2>1. UNCHANGED <<want, delim>>
    BY <1>6 DEF TextArgument, ExecuteArgument, Same
  <2>2. Refuse \/ (\E c, p : Complete(c, p) \/ End(c, p)) \/ BeginText(Argument)
    BY <1>6, Zenon DEF TextArgument, ExecuteArgument
  <2>3. Refuse \/ (\E c, p : Complete(c, p) \/ End(c, p)) => Lands
    BY StopLands, EndLands
  <2>4. QED
    BY <1>5, <2>1, <2>2, <2>3, LandsKeeps
<1>7. ASSUME PosixTextArgument PROVE StringTyped'
  <2>1. UNCHANGED <<want, delim>>
    BY <1>7 DEF PosixTextArgument, Same
  <2>2. Refuse \/ (acc' = <<>> /\ stage' = "posix_text")
    BY <1>7, Zenon DEF PosixTextArgument
  <2>3. <<>> \in Seq(Symbol)
    OBVIOUS
  <2>4. CASE acc' = <<>> /\ stage' = "posix_text"
    BY <2>1, <2>3, <2>4, StageNames DEF StringTyped
  <2>5. QED
    BY <2>1, <2>2, <2>4, StopLands, LandsKeeps
<1>8. ASSUME NEW kind \in Stages, NEW purpose \in Wants, StringDelimiter(pos + 1, kind, purpose)
      PROVE  StringTyped'
  <2>1. ((Crash \/ Refuse) /\ UNCHANGED <<want, delim>>) \/ Open(pos + 1, kind, purpose)
    BY <1>8, Zenon DEF StringDelimiter
  <2>2. QED
    BY <1>0, <2>1, StopLands, LandsKeeps, OpenTyped
<1>9. ASSUME Substitute \/ Transliterate PROVE StringTyped'
  <2>1. {"regex", "trans"} \subseteq Stages /\ {"s", "y"} \subseteq Wants
    BY StageNames DEF Wants
  <2>2. QED
    BY <1>8, <1>9, <2>1 DEF Substitute, Transliterate
<1>10. QED
  BY <1>1, <1>2, <1>3, <1>4, <1>6, <1>7, <1>9, Zenon DEF Handlers

LEMMA TextsKeepTypes ==
  ASSUME CursorInv, StringTyped, Texts
  PROVE  StringTyped'
<1> DEFINE n == Len(line)
<1>0. n \in Nat /\ line \in Seq(Byte) /\ pos \in 0 .. n /\ pos \in Nat
  BY DEF CursorInv, TextTyped, CursorInLine
<1>00. Newline \in Symbol /\ Newline \in Byte
  BY DEF Newline, Symbol, Byte
<1> HIDE DEF n
<1>1. ASSUME TextEnds PROVE StringTyped'
  <2>1. Lands /\ UNCHANGED <<want, delim>>
    BY <1>1, EndLands DEF TextEnds, Same
  <2>2. QED
    BY <2>1, LandsKeeps
<1>2. ASSUME TextEscapes PROVE StringTyped'
  <2>1. UNCHANGED <<want, delim>> /\ On(pos, "\\") /\ stage = "text"
    BY <1>2 DEF TextEscapes, Same
  <2>2. pos + 1 \in 0 .. n
    BY <1>0, <2>1, OnInLine DEF n
  <2>3. CASE Eol(pos + 1)
    <3>1. stage' = "continuation" /\ acc' = Append(acc, Newline)
      BY <1>2, <2>3, Zenon DEF TextEscapes
    <3>2. QED
      BY <1>00, <2>1, <3>1, StageNames DEF StringTyped
  <2>4. CASE ~Eol(pos + 1)
    <3> DEFINE other == <<At(pos + 1)>>
               piece == Escape(pos + 1, other)
    <3>1. Feed(piece)
      BY <1>2, <2>4, Zenon DEF TextEscapes
    <3>2. pos + 1 \in 0 .. n - 1 /\ other \in Seq(Symbol)
      BY <1>0, <2>2, <2>4, AtTyped, EscapedTyped DEF Eol, n
    <3> HIDE DEF other
    <3>3. PieceTyped(piece) /\ Outcome(piece)
      BY <1>0, <3>2, EscapeTyped, EscapeOutcome DEF n
    <3> HIDE DEF piece
    <3>4. QED
      BY <2>1, <3>1, <3>3, FeedKeeps
  <2>5. QED
    BY <2>3, <2>4
<1>3. ASSUME TextByte PROVE StringTyped'
  <2> DEFINE piece == Got(<<At(pos)>>, pos + 1)
  <2>1. ~Eol(pos) /\ Feed(piece) /\ UNCHANGED <<want, delim>>
    BY <1>3 DEF TextByte, Same
  <2>2. PieceTyped(piece) /\ Outcome(piece)
    BY <1>0, <2>1, ByteTyped
  <2> HIDE DEF piece
  <2>3. QED
    BY <2>1, <2>2, FeedKeeps
<1>4. ASSUME TextContinues PROVE StringTyped'
  <2>1. UNCHANGED <<acc, want, delim>>
    BY <1>4 DEF TextContinues, Same
  <2>2. stage' = "text" \/ stage' = "sequence" \/ Refuse
    BY <1>4, Zenon DEF TextContinues
  <2>3. Lands
    BY <2>1, <2>2, StopLands, StageNames DEF Lands
  <2>4. QED
    BY <2>1, <2>3, LandsKeeps
<1>5. ASSUME PosixTextLine PROVE StringTyped'
  <2>1. UNCHANGED <<want, delim>> /\ stage = "posix_text"
    BY <1>5 DEF PosixTextLine, Same
  <2>2. CASE Advance /\ acc' = PosixText(NextLine) /\ stage' \in {stage, "sequence"}
    <3> DEFINE text == NextLine
               kept == IF ContinuedLine(text) THEN SubSeq(text, 1, Len(text) - 1) ELSE text
    <3>1. text \in Seq(Byte)
      BY <2>2, LineTyped DEF CursorInv
    <3> HIDE DEF text
    <3>2. kept \in Seq(Symbol)
      <4>1. SubSeq(text, 1, Len(text) - 1) \in Seq(Byte)
        <5>1. \A i \in 1 .. Len(text) - 1 : text[i] \in Byte
          BY <3>1
        <5>2. 1 \in Int /\ Len(text) - 1 \in Int
          BY <3>1
        <5>3. QED
          BY <5>1, <5>2, SubSeqProperties
      <4>2. QED
        BY <3>1, <4>1, ByteIsSymbol, Zenon
    <3>3. acc' = acc \o kept \o <<Newline>>
      BY <2>2, Zenon DEF PosixText, text
    <3> HIDE DEF kept
    <3>4. acc \o kept \o <<Newline>> \in Seq(Symbol)
      BY <1>00, <3>2 DEF StringTyped
    <3>5. QED
      BY <2>1, <2>2, <3>3, <3>4, StageNames DEF StringTyped
  <2>3. CASE UNCHANGED acc /\ stage' \in {"error", "sequence"}
    BY <2>1, <2>3, StageNames DEF StringTyped
  <2>4. CASE Refuse
    BY <2>1, <2>4, StopLands, LandsKeeps
  <2>5. QED
    BY <1>5, <2>2, <2>3, <2>4, Zenon DEF PosixTextLine
<1>6. QED
  BY <1>1, <1>2, <1>3, <1>4, <1>5 DEF Texts

LEMMA SubstitutionsKeepTypes ==
  ASSUME CursorInv, StringTyped, Substitutions
  PROVE  StringTyped'
<1> DEFINE n == Len(line)
<1>0. n \in Nat /\ line \in Seq(Byte) /\ pos \in 0 .. n /\ <<>> \in Seq(Symbol)
  BY DEF CursorInv, TextTyped, CursorInLine
<1> HIDE DEF n
<1>1. ASSUME BeginReplacement PROVE StringTyped'
  <2>1. acc' = <<>> /\ stage' = "replacement" /\ UNCHANGED <<want, delim>>
    BY <1>1 DEF BeginReplacement, Same
  <2>2. QED
    BY <1>0, <2>1, StageNames DEF StringTyped
<1>2. ASSUME Replacement PROVE StringTyped'
  <2> DEFINE piece == ReplacementPiece(pos)
  <2>1. ~Eol(pos) /\ ~(On(pos, "\\") /\ Eol(pos + 1)) /\ UNCHANGED <<want, delim>>
    BY <1>2 DEF Replacement, Same
  <2>2. PieceTyped(piece) /\ Outcome(piece)
    BY <1>0, <2>1, ReplacementPieceTyped, StringOutcome DEF n
  <2>3. Goto("flags", pos + 1) \/ Feed(piece)
    BY <1>2, Zenon DEF Replacement
  <2> HIDE DEF piece
  <2>4. QED
    BY <2>1, <2>2, <2>3, FeedKeeps, GotoLands, LandsKeeps, StageNames
<1>3. ASSUME ReplacementNewline PROVE StringTyped'
  <2>1. UNCHANGED <<want, delim>>
    BY <1>3 DEF ReplacementNewline, Same
  <2>2. CASE acc' = (IF Eol(pos) THEN acc ELSE Append(acc, Newline)) /\ UNCHANGED stage
    <3>1. Append(acc, Newline) \in Seq(Symbol)
      BY DEF StringTyped, Newline, Symbol, Byte
    <3>2. QED
      BY <2>1, <2>2, <3>1 DEF StringTyped
  <2>3. CASE UNCHANGED acc /\ stage' = "error"
    BY <2>1, <2>3, StageNames DEF StringTyped
  <2>4. CASE Refuse
    BY <2>1, <2>4, StopLands, LandsKeeps
  <2>5. QED
    BY <1>3, <2>2, <2>3, <2>4, Zenon DEF ReplacementNewline
<1>4. ASSUME Flag PROVE StringTyped'
  <2>1. UNCHANGED <<want, delim>>
    BY <1>4, Zenon DEF Flag
  <2>2. Refuse \/ Goto("flags", FlagEnd(EatSpaces(pos)))
    BY <1>4, Zenon DEF Flag
  <2>3. QED
    BY <2>1, <2>2, StopLands, GotoLands, StageNames, LandsKeeps
<1>5. ASSUME SubstituteEnds PROVE StringTyped'
  <2>1. UNCHANGED <<want, delim>>
    BY <1>5 DEF SubstituteEnds, Same
  <2>2. Crash \/ Refuse \/ End(cmd, EatSpaces(pos))
    BY <1>5, Zenon DEF SubstituteEnds
  <2>3. QED
    BY <2>1, <2>2, StopLands, EndLands, LandsKeeps
<1>6. QED
  BY <1>1, <1>2, <1>3, <1>4, <1>5 DEF Substitutions

LEMMA TransKeepTypes ==
  ASSUME CursorInv, StringTyped, TransFirstEnds \/ TransEnd
  PROVE  StringTyped'
<1>0. pos \in Nat /\ line \in Seq(Byte)
  BY DEF CursorInv, TextTyped, CursorInLine
<1>1. ASSUME TransFirstEnds PROVE StringTyped'
  <2>1. Open(pos, "trans", "to") \/ (Refuse /\ UNCHANGED <<want, delim>>)
    BY <1>1, Zenon DEF TransFirstEnds
  <2>2. "trans" \in Stages /\ "to" \in Wants
    BY StageNames DEF Wants
  <2>3. QED
    BY <1>0, <2>1, <2>2, OpenTyped, StopLands, LandsKeeps
<1>2. ASSUME TransEnd PROVE StringTyped'
  <2>1. UNCHANGED <<want, delim>>
    BY <1>2 DEF TransEnd, Same
  <2>2. Refuse \/ \E c : End(c, pos + 1)
    BY <1>2, Zenon DEF TransEnd
  <2>3. QED
    BY <2>1, <2>2, StopLands, EndLands, LandsKeeps
<1>3. QED
  BY <1>1, <1>2

\* Which script is read: none yet, one of them, or none any more.
SourceIn == source \in 0 .. Len(job.scripts) + 1

LEMMA SourceStep ==
  ASSUME CursorInv, SourceIn, [Next]_vars
  PROVE  SourceIn'
<1> DEFINE n == Len(line)
<1>0. /\ n \in Nat /\ CursorInLine /\ job.scripts \in Seq(Source) /\ source \in Nat
      /\ Len(job.scripts) \in Nat
  BY DEF CursorInv, TextTyped, Job
<1>1. ASSUME UNCHANGED <<job, source>> PROVE SourceIn'
  BY <1>1 DEF SourceIn
<1>2. ASSUME Advance, UNCHANGED job PROVE SourceIn'
  <2>1. CASE Here
    BY <1>1, <1>2, <2>1 DEF Advance
  <2>2. CASE ~Here
    <3>1. Stops # {} /\ source' = NextSource
      BY <1>2, <2>2 DEF Advance, HasLine
    <3>2. Stops \in SUBSET Nat /\ Stops \subseteq 1 .. Len(job.scripts)
      BY <1>0 DEF Stops
    <3>3. NextSource \in Stops
      BY <3>1, <3>2, Least DEF NextSource
    <3>4. QED
      BY <1>0, <1>2, <3>1, <3>2, <3>3 DEF SourceIn
  <2>3. QED
    BY <2>1, <2>2
<1>3. ASSUME Exhausted, UNCHANGED job PROVE SourceIn'
  BY <1>0, <1>3 DEF Exhausted, SourceIn
<1>4. ASSUME Refuse PROVE SourceIn'
  BY <1>1, <1>4 DEF Refuse, inputVars
<1>5. ASSUME Steps \/ Moves PROVE SourceIn'
  BY <1>1, <1>5 DEF Steps, Moves
<1>6. ASSUME SequenceLine PROVE SourceIn'
  <2>1. UNCHANGED job
    BY <1>6 DEF SequenceLine
  <2>2. Advance \/ Exhausted \/ UNCHANGED source
    BY <1>6 DEF SequenceLine, TakeLine
  <2>3. QED
    BY <1>1, <1>2, <1>3, <2>1, <2>2
<1>7. ASSUME SequenceSemicolon \/ SequenceCommand PROVE SourceIn'
  <2>1. UNCHANGED inputVars
    BY <1>7 DEF SequenceSemicolon, SequenceCommand, Goto
  <2>2. QED
    BY <1>1, <2>1 DEF inputVars
<1>8. ASSUME Addresses \/ Handlers \/ String PROVE SourceIn'
  <2>1. CursorInLine /\ ReadyAtDelimiter
    BY DEF CursorInv
  <2>2. Steps \/ Moves
    BY <1>0, <1>8, <2>1, AddressesStep, HandlersStep, StringMoves
  <2>3. QED
    BY <1>5, <2>2
<1>9. ASSUME CommandUnknown PROVE SourceIn'
  BY <1>4, <1>9 DEF CommandUnknown
<1>10. ASSUME Texts PROVE SourceIn'
  <2>1. ASSUME TextEnds \/ TextEscapes \/ TextByte PROVE SourceIn'
    <3>1. UNCHANGED inputVars
      BY <2>1 DEF TextEnds, TextEscapes, TextByte, Complete, Goto
    <3>2. QED
      BY <1>1, <3>1 DEF inputVars
  <2>2. ASSUME TextContinues \/ PosixTextLine PROVE SourceIn'
    <3>1. UNCHANGED job
      BY <2>2 DEF TextContinues, PosixTextLine, Same
    <3>2. Advance \/ Exhausted \/ Refuse
      BY <2>2, Zenon DEF TextContinues, PosixTextLine, TakeLine
    <3>3. QED
      BY <1>2, <1>3, <1>4, <3>1, <3>2
  <2>3. QED
    BY <1>10, <2>1, <2>2 DEF Texts
<1>11. ASSUME Substitutions PROVE SourceIn'
  <2>1. ASSUME BeginReplacement \/ Replacement \/ Flag \/ SubstituteEnds PROVE SourceIn'
    <3>1. UNCHANGED inputVars \/ Refuse \/ Crash \/ (\E c, p : Goto(c, p) \/ End(c, p))
      BY <2>1, Zenon DEF BeginReplacement, Replacement, Flag, SubstituteEnds
    <3>2. UNCHANGED inputVars
      BY <3>1, Zenon DEF Refuse, Crash, Goto, End, Complete
    <3>3. QED
      BY <1>1, <3>2 DEF inputVars
  <2>2. ASSUME ReplacementNewline PROVE SourceIn'
    <3>1. UNCHANGED job
      BY <2>2 DEF ReplacementNewline, Same
    <3>2. Advance \/ Exhausted \/ Refuse
      BY <2>2, Zenon DEF ReplacementNewline, TakeLine
    <3>3. QED
      BY <1>2, <1>3, <1>4, <3>1, <3>2
  <2>3. QED
    BY <1>11, <2>1, <2>2 DEF Substitutions
<1>12. ASSUME TransFirstEnds \/ TransEnd PROVE SourceIn'
  <2>1. UNCHANGED inputVars \/ Refuse \/ \E c, p : End(c, p)
    BY <1>12, Zenon DEF TransFirstEnds, TransEnd
  <2>2. UNCHANGED inputVars
    BY <2>1, Zenon DEF Refuse, Goto, End, Complete
  <2>3. QED
    BY <1>1, <2>2 DEF inputVars
<1>13. ASSUME UNCHANGED vars PROVE SourceIn'
  BY <1>1, <1>13 DEF vars, textVars, inputVars
<1>14. QED
  BY <1>6, <1>7, <1>8, <1>9, <1>10, <1>11, <1>12, <1>13, Zenon DEF Next

\* What the handlers know of the rest of the script.
ContextTyped == nesting \in Nat /\ quiet \in BOOLEAN /\ opened \in Seq(Seq(Byte))

LEMMA ContextStep ==
  ASSUME CursorInv, ContextTyped, [Next]_vars
  PROVE  ContextTyped'
<1> DEFINE n == Len(line)
<1>0. n \in Nat /\ line \in Seq(Byte) /\ pos \in 0 .. n
  BY DEF CursorInv, TextTyped, CursorInLine
<1>1. ASSUME NEW rest, Same(rest) PROVE ContextTyped'
  BY <1>1 DEF Same, ContextTyped
<1>2. \A p \in Nat : PathAt(p) \in Seq(Byte)
  BY <1>0, TextIsBytes DEF PathAt
<1>3. ASSUME SequenceLine PROVE ContextTyped'
  <2>1. UNCHANGED <<nesting, opened>> /\ quiet' = (quiet \/ Silences(EatSpaces(pos)))
    BY <1>3 DEF SequenceLine
  <2>2. quiet' \in BOOLEAN
    BY <2>1, Zenon
  <2>3. QED
    BY <2>1, <2>2 DEF ContextTyped
<1>4. ASSUME OpenBlock \/ CloseBlock PROVE ContextTyped'
  <2>1. UNCHANGED <<quiet, opened>>
    BY <1>4 DEF OpenBlock, CloseBlock
  <2>2. nesting' = nesting + 1 \/ UNCHANGED nesting \/ (nesting # 0 /\ nesting' = nesting - 1)
    BY <1>4, Zenon DEF OpenBlock, CloseBlock
  <2>3. QED
    BY <2>1, <2>2 DEF ContextTyped
<1>5. ASSUME WriteArgument PROVE ContextTyped'
  <2>1. UNCHANGED <<nesting, quiet>>
    BY <1>5, Zenon DEF WriteArgument
  <2>2. UNCHANGED opened \/ opened' = Append(opened, PathAt(Argument))
    BY <1>5, Zenon DEF WriteArgument
  <2>3. pos + 1 \in 0 .. n
    BY <1>0, <1>5 DEF WriteArgument, Command, Verified, Eol
  <2>4. PathAt(Argument) \in Seq(Byte)
    BY <1>0, <1>2, <2>3, EatSpacesIn DEF Argument
  <2>5. opened' \in Seq(Seq(Byte))
    <3> DEFINE path == PathAt(Argument)
    <3>1. path \in Seq(Byte) /\ (UNCHANGED opened \/ opened' = Append(opened, path))
      BY <2>2, <2>4
    <3> HIDE DEF path
    <3>2. opened \in Seq(Seq(Byte))
      BY Zenon DEF ContextTyped
    <3>3. QED
      BY <3>1, <3>2
  <2>6. QED
    BY <2>1, <2>5 DEF ContextTyped
<1>6. ASSUME Flag PROVE ContextTyped'
  <2> DEFINE p == EatSpaces(pos)
  <2>1. UNCHANGED <<nesting, quiet>>
    BY <1>6, Zenon DEF Flag
  <2>2. \/ UNCHANGED opened
        \/ ~FlagsOver(p) /\ opened' = IF On(p, "w") THEN Append(opened, PathAt(EatSpaces(p + 1))) ELSE opened
    BY <1>6, Zenon DEF Flag
  <2>3. p \in 0 .. n
    BY <1>0, EatSpacesIn
  <2> HIDE DEF p
  <2>4. ~FlagsOver(p) => p + 1 \in 0 .. n
    <3>1. ~FlagsOver(p) => ~(p >= n)
      BY Zenon DEF FlagsOver, Eol, n
    <3>2. QED
      BY <1>0, <2>3, <3>1
  <2>5. ~FlagsOver(p) => PathAt(EatSpaces(p + 1)) \in Seq(Byte)
    BY <1>0, <1>2, <2>4, EatSpacesIn
  <2>6. QED
    BY <2>1, <2>2, <2>5 DEF ContextTyped
<1>7. ASSUME SequenceSemicolon \/ SequenceCommand \/ Addresses \/ CommandUnknown \/ String \/ Texts
             \/ TransFirstEnds \/ TransEnd
      PROVE  ContextTyped'
  <2>1. \E rest : Same(rest)
    BY <1>7, Zenon DEF SequenceSemicolon, SequenceCommand, CommandUnknown, String, TransFirstEnds, TransEnd,
                      Addresses, AddressPlain, AddressRegex, AddressRegexEnds, SeparatorNone, Separator,
                      Texts, TextEnds, TextEscapes, TextByte, TextContinues, PosixTextLine
  <2>2. QED
    BY <1>1, <2>1
<1>8. ASSUME Handlers, ~OpenBlock, ~CloseBlock, ~WriteArgument PROVE ContextTyped'
  <2>1. \E rest : Same(rest)
    BY <1>8, Zenon DEF Handlers, Negation, NoArgument, LabelArgument, NumberArgument, ReadArgument,
                      VersionArgument, TextArgument, ExecuteArgument, PosixTextArgument, Substitute,
                      Transliterate
  <2>2. QED
    BY <1>1, <2>1
<1>9. ASSUME Substitutions, ~Flag PROVE ContextTyped'
  <2>1. \E rest : Same(rest)
    BY <1>9, Zenon DEF Substitutions, BeginReplacement, Replacement, ReplacementNewline, SubstituteEnds
  <2>2. QED
    BY <1>1, <2>1
<1>10. ASSUME UNCHANGED vars PROVE ContextTyped'
  BY <1>10 DEF vars, ContextTyped
<1>11. QED
  BY <1>3, <1>4, <1>5, <1>6, <1>7, <1>8, <1>9, <1>10, Zenon DEF Next

TypeInv == CursorInv /\ StringTyped /\ SourceIn /\ ContextTyped

LEMMA InitTypes == Init => TypeInv
<1> SUFFICES ASSUME Init PROVE TypeInv
  OBVIOUS
<1>1. job \in Job
  BY JobsAssumption DEF Init
<1>2. CursorInv
  BY InitCursor
<1>3. SourceIn
  <2>1. Len(job.scripts) \in Nat
    BY <1>1 DEF Job
  <2>2. source = 0
    BY Zenon DEF Init
  <2>3. QED
    BY <2>1, <2>2 DEF SourceIn
<1>4. StringTyped
  <2>1. stage = "sequence" /\ want = "" /\ delim = 0 /\ acc = <<>>
    BY Zenon DEF Init
  <2>2. 0 \in Byte /\ <<>> \in Seq(Symbol)
    BY DEF Byte
  <2>3. QED
    BY <2>1, <2>2, StageNames DEF StringTyped, Wants
<1>5. ContextTyped
  <2>1. nesting = 0 /\ quiet = FALSE /\ opened = <<>>
    BY Zenon DEF Init
  <2>2. <<>> \in Seq(Seq(Byte)) /\ 0 \in Nat /\ FALSE \in BOOLEAN
    OBVIOUS
  <2>3. QED
    BY <2>1, <2>2, Zenon DEF ContextTyped
<1>6. QED
  BY <1>2, <1>3, <1>4, <1>5 DEF TypeInv

LEMMA StepTypes == TypeInv /\ [Next]_vars => TypeInv'
<1> SUFFICES ASSUME TypeInv, [Next]_vars PROVE TypeInv'
  OBVIOUS
<1>1. CursorInv /\ StringTyped /\ SourceIn /\ ContextTyped
  BY DEF TypeInv
<1>2. CursorInv' /\ SourceIn' /\ ContextTyped'
  BY <1>1, StepCursor, SourceStep, ContextStep
<1>3. StringTyped'
  <2>1. ASSUME CommandUnknown PROVE StringTyped'
    <3>1. Lands /\ UNCHANGED <<want, delim>>
      BY <2>1, StopLands DEF CommandUnknown, Same
    <3>2. QED
      BY <1>1, <3>1, LandsKeeps
  <2>2. ASSUME UNCHANGED vars PROVE StringTyped'
    BY <1>1, <2>2 DEF vars, stringVars, StringTyped
  <2>3. QED
    BY <1>1, <2>1, <2>2, SequenceKeepsTypes, AddressesKeepTypes, HandlersKeepTypes, StringKeepsTypes,
       TextsKeepTypes, SubstitutionsKeepTypes, TransKeepTypes, Zenon DEF Next
<1>4. QED
  BY <1>2, <1>3 DEF TypeInv

\* Whatever the scripts are, what is read of an argument is bytes and references
\* to what was matched, a file that w creates has a path of the script, and the
\* other variables have their types.
THEOREM TypeCorrect == Spec => []TypeOK
<1>1. TypeInv => TypeOK
  BY DEF TypeInv, CursorInv, TextTyped, StringTyped, SourceIn, ContextTyped, Wants, Symbol, TypeOK
<1>2. QED
  BY <1>1, InitTypes, StepTypes, PTL DEF Spec
-----------------------------------------------------------------------------
(* The codes that mean something in an expression.                        *)

LEMMA ReadingCodes ==
  /\ Code["]"] = 93 /\ Code["^"] = 94 /\ Code[","] = 44
  /\ Code["b"] = 98 /\ Code["n"] = 110 /\ Code["r"] = 114 /\ Code["t"] = 116 /\ Code["v"] = 118
<1>1. {"]", "^", ",", "b", "n", "r", "t", "v"} \subseteq Printable
  BY DEF Printable
<1>2. Code["]"] = 93
  BY <1>1, CodeAssumption DEF Ascii
<1>3. Code["^"] = 94
  BY <1>1, CodeAssumption DEF Ascii
<1>4. Code[","] = 44
  BY <1>1, CodeAssumption DEF Ascii
<1>5. Code["b"] = 98
  BY <1>1, CodeAssumption DEF Ascii
<1>6. Code["n"] = 110
  BY <1>1, CodeAssumption DEF Ascii
<1>7. Code["r"] = 114
  BY <1>1, CodeAssumption DEF Ascii
<1>8. Code["t"] = 116
  BY <1>1, CodeAssumption DEF Ascii
<1>9. Code["v"] = 118
  BY <1>1, CodeAssumption DEF Ascii
<1>10. QED
  BY <1>2, <1>3, <1>4, <1>5, <1>6, <1>7, <1>8, <1>9

-----------------------------------------------------------------------------
(* How a byte after the other is meant.                                    *)

Names == {"class", "symbol", "equivalence"}
ModeNames == {"outside", "escaped", "control", "open", "negated", "inside", "opening", "close"} \cup Names

LEMMA ClosedByNames ==
  /\ DOMAIN ClosedBy = Names
  /\ ClosedBy["class"] = Code[":"] /\ ClosedBy["symbol"] = Code["."] /\ ClosedBy["equivalence"] = Code["="]
BY DEF ClosedBy, Names

LEMMA AfterOutside ==
  \A b, next, d :
    ModeAfter("outside", b, next, d) = IF b = Backslash THEN "escaped"
                                       ELSE IF b = Code["["] /\ d # b THEN "open" ELSE "outside"
BY ClosedByNames DEF ModeAfter, Names

LEMMA AfterEscaped ==
  \A b, next, d :
    /\ ModeAfter("escaped", b, next, d) =
         IF b = Code["c"] /\ d # b /\ next < 128 THEN "control" ELSE "outside"
    /\ ModeAfter("control", b, next, d) = "outside"
BY ClosedByNames DEF ModeAfter, Names

LEMMA AfterOpen ==
  \A b, next, d :
    /\ ModeAfter("open", b, next, d) = IF b = Code["^"] THEN "negated"
                                       ELSE IF b = Code["]"] THEN "inside" ELSE Within(b, next)
    /\ ModeAfter("negated", b, next, d) = IF b = Code["]"] THEN "inside" ELSE Within(b, next)
    /\ ModeAfter("inside", b, next, d) = Within(b, next)
BY ClosedByNames DEF ModeAfter, Names

LEMMA AfterOpening ==
  \A b, next, d :
    /\ ModeAfter("opening", b, next, d) = IF b = Code[":"] THEN "class"
                                          ELSE IF b = Code["."] THEN "symbol" ELSE "equivalence"
    /\ ModeAfter("close", b, next, d) = "inside"
    /\ \A name \in Names :
         ModeAfter(name, b, next, d) = IF b = ClosedBy[name] /\ next = Code["]"] THEN "close" ELSE name
<1>1. \A b, next, d : ModeAfter("opening", b, next, d) = IF b = ClosedBy.class THEN "class"
                                          ELSE IF b = ClosedBy.symbol THEN "symbol" ELSE "equivalence"
  BY ClosedByNames DEF ModeAfter, Names
<1>2. \A b, next, d : ModeAfter("close", b, next, d) = "inside"
  BY ClosedByNames DEF ModeAfter, Names
<1>3. \A b, next, d : \A name \in Names :
         ModeAfter(name, b, next, d) = IF b = ClosedBy[name] /\ next = Code["]"] THEN "close" ELSE name
  BY ClosedByNames DEF ModeAfter, Names
<1>4. ClosedBy.class = Code[":"] /\ ClosedBy.symbol = Code["."]
  BY DEF ClosedBy
<1>5. QED
  BY <1>1, <1>2, <1>3, <1>4

LEMMA ModeTyped == \A mode \in ModeNames : \A b, next, d : ModeAfter(mode, b, next, d) \in ModeNames
<1>1. \A b, next : Within(b, next) \in ModeNames
  BY DEF Within, ModeNames
<1>2. ASSUME NEW mode \in ModeNames, NEW b, NEW next, NEW d PROVE ModeAfter(mode, b, next, d) \in ModeNames
  <2>1. mode \in {"outside", "escaped", "control", "open", "negated", "inside", "opening", "close"} \/ mode \in Names
    BY <1>2 DEF ModeNames
  <2>2. QED
    BY <1>1, <2>1, AfterOutside, AfterEscaped, AfterOpen, AfterOpening DEF ModeNames, Names
<1>3. QED
  BY <1>2

\* The byte at i, or what stands for the end of the text
Following(text, i) == IF i > Len(text) THEN 0 ELSE text[i]

\* mode says how each byte of text from first on is meant.
IsReading(mode, text, first, d) ==
  /\ mode[first] = "outside"
  /\ \A i \in first .. Len(text) : mode[i + 1] = ModeAfter(mode[i], text[i], Following(text, i + 1), d)

LEMMA ModesRead ==
  ASSUME NEW text \in Seq(Byte), NEW first \in 1 .. Len(text) + 1, NEW d
  PROVE  IsReading(Modes(text, first, d), text, first, d)
<1> DEFINE n == Len(text) + 1
           step == [i \in first .. n |-> [m \in ModeNames |-> ModeAfter(m, text[i - 1], Following(text, i), d)]]
<1>1. n \in Nat /\ first \in Nat /\ "outside" \in ModeNames /\ first \in first .. n
  BY DEF ModeNames
<1>2. step \in [first .. n -> [ModeNames -> ModeNames]]
  BY ModeTyped
<1>3. \A i \in first .. n : \A m \in ModeNames : step[i][m] = ModeAfter(m, text[i - 1], Following(text, i), d)
  OBVIOUS
<1> HIDE DEF step
<1>4. PICK f \in [first .. n -> ModeNames] : Iterates(f, first, n, "outside", step)
  <2> HIDE DEF n
  <2> QED BY <1>1, <1>2, Recursion, Zenon
<1>5. f = [i \in first .. n |-> IF i = first THEN "outside"
             ELSE ModeAfter(f[i - 1], text[i - 1], IF i > Len(text) THEN 0 ELSE text[i], d)]
  <2>1. ASSUME NEW i \in first .. n, i # first
        PROVE  f[i] = ModeAfter(f[i - 1], text[i - 1], Following(text, i), d)
    <3>1. i - 1 \in first .. n /\ f[i - 1] \in ModeNames
      BY <1>1, <2>1
    <3>2. f[i] = step[i][f[i - 1]]
      BY <1>4, <2>1 DEF Iterates
    <3>3. QED
      BY <1>3, <3>1, <3>2
  <2>2. f[first] = "outside"
    BY <1>1, <1>4 DEF Iterates
  <2> HIDE DEF n
  <2>3. QED
    BY <2>1, <2>2 DEF Following
<1> DEFINE mode == CHOOSE g : g = [i \in first .. n |-> IF i = first THEN "outside"
             ELSE ModeAfter(g[i - 1], text[i - 1], IF i > Len(text) THEN 0 ELSE text[i], d)]
<1>6. mode = [i \in first .. n |-> IF i = first THEN "outside"
             ELSE ModeAfter(mode[i - 1], text[i - 1], IF i > Len(text) THEN 0 ELSE text[i], d)]
  BY <1>5, Zenon
<1>7. Modes(text, first, d) = mode
  BY Zenon DEF Modes
<1> HIDE DEF mode
<1>8. mode[first] = "outside"
  BY <1>1, <1>6
<1>9. ASSUME NEW i \in first .. Len(text)
      PROVE  mode[i + 1] = ModeAfter(mode[i], text[i], Following(text, i + 1), d)
  <2> DEFINE k == i + 1
  <2>1. k \in first .. n /\ k # first /\ k - 1 = i
    BY <1>1, <1>9
  <2> HIDE DEF k, n
  <2>2. mode[k] = ModeAfter(mode[k - 1], text[k - 1], Following(text, k), d)
    BY <1>6, <2>1 DEF Following
  <2>3. QED
    BY <2>1, <2>2 DEF k
<1>10. QED
  BY <1>7, <1>8, <1>9 DEF IsReading

\* Bytes that leave the way they are meant as it is
Leaves(text, d, m, i, k) == \A j \in i .. k - 1 : ModeAfter(m, text[j], Following(text, j + 1), d) = m

LEMMA ModeStays ==
  ASSUME NEW text \in Seq(Byte), NEW first \in Nat, NEW d, NEW mode, IsReading(mode, text, first, d),
         NEW i \in Nat, first <= i, NEW k \in Nat, k <= Len(text) + 1, NEW m, mode[i] = m,
         Leaves(text, d, m, i, k)
  PROVE  \A j \in i .. k : mode[j] = m
<1> DEFINE S == {j \in Nat : j \in i .. k => mode[j] = m}
<1>1. 0 \in S
  OBVIOUS
<1>2. ASSUME NEW j \in S PROVE j + 1 \in S
  <2> SUFFICES ASSUME j + 1 \in i .. k PROVE mode[j + 1] = m
    OBVIOUS
  <2>1. CASE j + 1 = i
    BY <2>1
  <2>2. CASE j + 1 # i
    <3>1. j \in i .. k /\ j \in i .. k - 1 /\ j \in first .. Len(text)
      BY <1>2, <2>2
    <3>2. mode[j] = m
      BY <1>2, <3>1
    <3>3. mode[j + 1] = ModeAfter(mode[j], text[j], Following(text, j + 1), d)
      BY <3>1 DEF IsReading
    <3>4. QED
      BY <3>1, <3>2, <3>3 DEF Leaves
  <2>3. QED
    BY <2>1, <2>2
<1>3. S = Nat
  BY <1>1, <1>2, Induction
<1>4. QED
  BY <1>3

\* The bytes of a run are in its set.
LEMMA RunEndBytes ==
  ASSUME NEW n \in Nat, n = Len(line), NEW p \in 0 .. n, NEW S
  PROVE  \A i \in p .. RunEnd(p, S) - 1 : At(i) \in S
<1> DEFINE run == {q \in p .. n - 1 : \A i \in p .. q : At(i) \in S}
<1>1. SUFFICES ASSUME NEW i \in p .. RunEnd(p, S) - 1, At(i) \notin S PROVE FALSE
  OBVIOUS
<1>2. RunEnd(p, S) \in p .. n /\ p \in Int /\ i \in Int /\ i - 1 \in Int
  BY <1>1, RunEndIn
<1>3. run \subseteq p .. i - 1
  BY <1>1, <1>2
<1>4. IsFiniteSet(p .. i - 1) /\ Cardinality(p .. i - 1) = i - p
  <2>1. /\ IsFiniteSet(p .. i - 1)
        /\ Cardinality(p .. i - 1) = IF p > i - 1 THEN 0 ELSE i - 1 - p + 1
    BY <1>2, FS_Interval
  <2>2. QED
    BY <1>1, <1>2, <2>1
<1>5. Cardinality(run) <= i - p /\ Cardinality(run) \in Nat
  BY <1>3, <1>4, FS_Subset, FS_CardinalityType
<1>6. RunEnd(p, S) = p + Cardinality(run)
  BY DEF RunEnd
<1> HIDE DEF run
<1>7. QED
  BY <1>1, <1>2, <1>5, <1>6

-----------------------------------------------------------------------------
(* What a piece of an expression is made of.                               *)

LEMMA PieceOk == \A bytes, p : Got(bytes, p).st = "ok" /\ Bad(p).st # "ok" /\ Panic(p).st # "ok"
BY DEF Got, Bad, Panic

\* The digits of an escape
LEMMA NumericEscapeSpan ==
  ASSUME NEW n \in Nat, n = Len(line), NEW p \in 0 .. n, NEW c \in DOMAIN NumericEscapes,
         NumericEscape(c, p).st = "ok"
  PROVE  /\ NumericEscape(c, p).at \in p .. n
         /\ \A j \in p .. NumericEscape(c, p).at - 1 : At(j) \in Byte /\ Value(At(j)) < 16
<1> DEFINE form == NumericEscapes[c]
           digits == {b \in Byte : Value(b) < form.radix}
           run == RunEnd(p, digits)
           end == IF run > p + form.digits THEN p + form.digits ELSE run
<1>1. form.digits \in Nat /\ form.radix \in Nat /\ form.radix <= 16
  BY DEF NumericEscapes
<1>2. run \in p .. n /\ \A j \in p .. run - 1 : At(j) \in digits
  <2> HIDE DEF digits
  <2> QED BY RunEndIn, RunEndBytes
<1>3. end \in p .. n /\ end <= run
  <2> HIDE DEF form, run
  <2> QED BY <1>1, <1>2
<1>4. NumericEscape(c, p).at \in {p, end}
  <2> HIDE DEF form, run, digits
  <2> QED BY PieceAt, Zenon DEF NumericEscape, form, run, digits
<1> HIDE DEF end, run
<1>5. ASSUME NEW j \in p .. NumericEscape(c, p).at - 1 PROVE At(j) \in Byte /\ Value(At(j)) < 16
  <2>1. j \in p .. run - 1
    BY <1>2, <1>3, <1>4, <1>5
  <2>2. At(j) \in Byte /\ Value(At(j)) < form.radix
    BY <1>2, <2>1
  <2>3. Value(At(j)) \in Nat
    BY <2>2, ValueTyped
  <2> HIDE DEF form
  <2>4. QED
    BY <1>1, <2>2, <2>3
<1>6. NumericEscape(c, p).at \in p .. n
  BY <1>3, <1>4
<1>7. QED
  BY <1>5, <1>6

\* A c is not the letter of another escape.
LEMMA ControlLetter ==
  ASSUME NEW p, On(p, "c")
  PROVE  ~OnAny(p, DOMAIN NamedEscapes) /\ ~OnAny(p, DOMAIN NumericEscapes)
<1>0. Code["c"] = 99
  BY Codes
<1>1. At(p) = 99
  BY <1>0 DEF On
<1>2. ASSUME NEW c \in DOMAIN NamedEscapes PROVE Code[c] # 99
  <2>1. c \in {"a", "b", "f", "n", "r", "t", "v"}
    BY <1>2 DEF NamedEscapes
  <2>2. Code["a"] = 97 /\ Code["f"] = 102
    BY Codes
  <2>3. Code["b"] = 98 /\ Code["n"] = 110 /\ Code["r"] = 114 /\ Code["t"] = 116 /\ Code["v"] = 118
    BY ReadingCodes
  <2>4. QED
    BY <2>1, <2>2, <2>3
<1>3. ASSUME NEW c \in DOMAIN NumericEscapes PROVE Code[c] # 99
  <2>1. c \in {"d", "o", "x", "u", "U"}
    BY <1>3 DEF NumericEscapes
  <2>2. Code["d"] = 100 /\ Code["o"] = 111 /\ Code["u"] = 117 /\ Code["x"] = 120 /\ Code["U"] = 85
    BY Codes
  <2>3. QED
    BY <2>1, <2>2
<1>4. QED
  BY <1>1, <1>2, <1>3 DEF OnAny, On

NumericLetters == {Code[c] : c \in DOMAIN NumericEscapes}

\* Where an escape ends that is accepted: behind its letter, behind the character
\* that \c is for, or behind digits.
EscapeSpan(p, at) ==
  \/ at = p + 1 /\ (At(p) = Code["c"] => ~Eol(p + 1) /\ ~(At(p + 1) < 128))
  \/ at = p + 2 /\ At(p) = Code["c"] /\ ~Eol(p + 1) /\ At(p + 1) < 128
  \/ /\ At(p) \in NumericLetters /\ at \in p + 1 .. Len(line)
     /\ \A j \in p + 1 .. at - 1 : At(j) \in Byte /\ Value(At(j)) < 16

LEMMA EscapeSpans ==
  ASSUME NEW n \in Nat, n = Len(line), NEW p \in 0 .. n - 1, NEW other, Escape(p, other).st = "ok"
  PROVE  EscapeSpan(p, Escape(p, other).at)
<1>1. p + 1 \in 0 .. n /\ ~Eol(p) /\ p + 1 + 1 = p + 2
  BY DEF Eol
<1>2. CASE OnAny(p, DOMAIN NamedEscapes)
  <2>1. Escape(p, other).at = p + 1
    BY <1>2, PieceAt, Zenon DEF Escape
  <2>2. At(p) # Code["c"]
    BY <1>1, <1>2, ControlLetter DEF On
  <2>3. QED
    BY <2>1, <2>2 DEF EscapeSpan
<1>3. CASE ~OnAny(p, DOMAIN NamedEscapes) /\ OnAny(p, DOMAIN NumericEscapes)
  <2> DEFINE c == CHOOSE c \in DOMAIN NumericEscapes : On(p, c)
  <2>1. c \in DOMAIN NumericEscapes /\ On(p, c)
    BY <1>3, Zenon DEF OnAny
  <2>2. Escape(p, other) = NumericEscape(c, p + 1)
    BY <1>3, Zenon DEF Escape
  <2> HIDE DEF c
  <2>3. At(p) \in NumericLetters
    BY <2>1 DEF NumericLetters, On
  <2> DEFINE at == NumericEscape(c, p + 1).at
  <2>4. at \in p + 1 .. n /\ \A j \in p + 1 .. at - 1 : At(j) \in Byte /\ Value(At(j)) < 16
    BY <1>1, <2>1, <2>2, NumericEscapeSpan
  <2> HIDE DEF at
  <2>5. at \in p + 1 .. Len(line)
    BY <2>4
  <2>6. EscapeSpan(p, at)
    BY <2>3, <2>4, <2>5 DEF EscapeSpan
  <2>7. QED
    BY <2>2, <2>6 DEF at
<1>4. CASE ~OnAny(p, DOMAIN NamedEscapes) /\ ~OnAny(p, DOMAIN NumericEscapes)
  <2>1. CASE ~On(p, "c")
    <3>1. Escape(p, other).at = p + 1
      BY <1>4, <2>1, PieceAt, Zenon DEF Escape
    <3>2. At(p) # Code["c"]
      BY <1>1, <2>1 DEF On
    <3>3. QED
      BY <3>1, <3>2 DEF EscapeSpan
  <2>2. CASE On(p, "c")
    <3>1. Escape(p, other) = ControlEscape(p + 1)
      BY <1>4, <2>2, Zenon DEF Escape
    <3>2. ~Eol(p + 1)
      BY <3>1, PieceOk, Zenon DEF ControlEscape
    <3>3. At(p) = Code["c"]
      BY <2>2 DEF On
    <3>4. CASE At(p + 1) < 128
      <4>1. Escape(p, other).at = p + 1 + 1
        BY <3>1, <3>2, <3>4, PieceAt, Zenon DEF ControlEscape
      <4>2. QED
        BY <1>1, <3>2, <3>3, <3>4, <4>1 DEF EscapeSpan
    <3>5. CASE ~(At(p + 1) < 128)
      <4>1. Escape(p, other).at = p + 1
        BY <3>1, <3>2, <3>5, PieceAt, Zenon DEF ControlEscape
      <4>2. QED
        BY <3>2, <3>3, <3>5, <4>1 DEF EscapeSpan
    <3>6. QED
      BY <3>4, <3>5
  <2>3. QED
    BY <2>1, <2>2
<1>5. QED
  BY <1>2, <1>3, <1>4

\* The bytes of a quantifier that is accepted, up to what closes it
LEMMA QuantifierSpan ==
  ASSUME NEW n \in Nat, n = Len(line), NEW p \in 0 .. n - 1, NEW opening, Quantifier(p, opening).st = "ok"
  PROVE  /\ Quantifier(p, opening).at \in p + 1 .. n
         /\ \A j \in p + 1 .. Quantifier(p, opening).at - 1 :
              At(j) \in Digits \cup {Code[","]} /\ At(j) # delim
<1> DEFINE q == ContentEnd(p + 1)
           content == Byte \ {delim, IF job.extended THEN Code["}"] ELSE Backslash}
<1>1. p + 1 \in 0 .. n
  OBVIOUS
<1>2. q = RunEnd(p + 1, content)
  BY DEF ContentEnd
<1> HIDE DEF content
<1>3. q \in p + 1 .. n /\ \A j \in p + 1 .. q - 1 : At(j) \in content
  BY <1>1, <1>2, RunEndIn, RunEndBytes
<1>4. Quantifier(p, opening).at = q
  BY PieceAt, Zenon DEF Quantifier
<1>5. WellFormed(p + 1, q)
  BY PieceOk, Zenon DEF Quantifier
<1>6. \A j \in p + 1 .. q - 1 : At(j) \in Digits \cup {Code[","]}
  BY <1>5, Zenon DEF WellFormed
<1>7. delim \notin content
  BY DEF content
<1> HIDE DEF q
<1>8. QED
  BY <1>3, <1>4, <1>6, <1>7
-----------------------------------------------------------------------------
(* The loop that the code is in.                                           *)

\* What the regular expression that starts at first is read in.
Setting(n, mode, first) ==
  /\ n \in Nat /\ n = Len(line) /\ line \in Seq(Byte)
  /\ first \in 1 .. n + 1
  /\ IsReading(mode, line, first, delim)
  /\ delim # Backslash

\* No delimiter up to the cursor closes the expression.
Unclosed(mode, first, p) == \A i \in first .. p : ~(mode[i] = "outside" /\ line[i] = delim)

\* The loop for bracket expressions starts behind ^ and ].
InBracket(mode, p) ==
  /\ mode[p + 1] \in {"open", "negated", "inside"}
  /\ mode[p + 1] = "open" => ~On(p, "^") /\ ~On(p, "]")
  /\ mode[p + 1] = "negated" => ~On(p, "]")

\* The loop that the code is in is the one for what the next byte means.
Follows(mode, first, p, st) ==
  /\ Unclosed(mode, first, p)
  /\ IF st = "bracket" THEN InBracket(mode, p) ELSE mode[p + 1] = "outside"

Excused(mode, first, p) == \E i \in first .. p : NoReading(line, mode, delim, i)

Tracks(mode, first, p, st) == Excused(mode, first, p) \/ Follows(mode, first, p, st)

LEMMA NextMode ==
  ASSUME NEW n, NEW mode, NEW first, Setting(n, mode, first), NEW p \in Nat, first <= p + 1, ~Eol(p)
  PROVE  /\ mode[p + 2] = ModeAfter(mode[p + 1], At(p), Following(line, p + 2), delim)
         /\ Following(line, p + 2) = IF Eol(p + 1) THEN 0 ELSE At(p + 1)
<1>1. p + 1 \in first .. Len(line) /\ p + 1 + 1 = p + 2
  BY DEF Eol, Setting
<1>2. mode[p + 2] = ModeAfter(mode[p + 1], line[p + 1], Following(line, p + 2), delim)
  BY <1>1 DEF Setting, IsReading
<1>3. Following(line, p + 2) = IF Eol(p + 1) THEN 0 ELSE At(p + 1)
  BY <1>1 DEF Following, Eol, At, Setting
<1>4. QED
  BY <1>2, <1>3 DEF At

LEMMA Extends ==
  ASSUME NEW mode, NEW first \in Nat, NEW p \in Nat, NEW q \in Nat, p <= q, Unclosed(mode, first, p),
         \A i \in p .. q - 1 : mode[i + 1] # "outside" \/ At(i) # delim
  PROVE  Unclosed(mode, first, q)
<1>1. ASSUME NEW i \in first .. q, mode[i] = "outside", line[i] = delim PROVE FALSE
  <2>1. CASE i <= p
    BY <1>1, <2>1 DEF Unclosed
  <2>2. CASE i > p
    <3>1. i - 1 \in p .. q - 1 /\ i - 1 + 1 = i
      BY <1>1, <2>2
    <3>2. QED
      BY <1>1, <3>1 DEF At
  <2>3. QED
    BY <1>1, <2>1, <2>2
<1>2. QED
  BY <1>1 DEF Unclosed

LEMMA ExtendsByOne ==
  ASSUME NEW mode, NEW first \in Nat, NEW p \in Nat, Unclosed(mode, first, p),
         mode[p + 1] # "outside" \/ At(p) # delim
  PROVE  Unclosed(mode, first, p + 1)
<1>1. ASSUME NEW i \in first .. p + 1 PROVE ~(mode[i] = "outside" /\ line[i] = delim)
  <2>1. CASE i = p + 1
    BY <2>1 DEF At
  <2>2. CASE i # p + 1
    BY <1>1, <2>2 DEF Unclosed
  <2>3. QED
    BY <2>1, <2>2
<1>2. QED
  BY <1>1 DEF Unclosed

\* Bytes that start nothing leave the expression outside of brackets.
LEMMA OutsideRun ==
  ASSUME NEW n, NEW mode, NEW first, Setting(n, mode, first),
         NEW p \in Nat, first <= p + 1, NEW q \in p .. n, mode[p + 1] = "outside",
         \A j \in p .. q - 1 : At(j) # Backslash /\ (At(j) = Code["["] => delim = Code["["])
  PROVE  \A j \in p .. q : mode[j + 1] = "outside"
<1>1. n = Len(line) /\ n \in Nat /\ first \in Nat /\ line \in Seq(Byte)
  BY DEF Setting
<1>2. ASSUME NEW k \in p + 1 .. q PROVE ModeAfter("outside", line[k], Following(line, k + 1), delim) = "outside"
  <2>1. k - 1 \in p .. q - 1 /\ k - 1 + 1 = k
    BY <1>2
  <2>2. line[k] # Backslash /\ (line[k] = Code["["] => delim = Code["["])
    BY <2>1 DEF At
  <2>3. QED
    BY <2>2, AfterOutside
<1> DEFINE i == p + 1
           k == q + 1
           m == "outside"
<1>3. i \in Nat /\ k \in Nat /\ k <= Len(line) + 1 /\ first <= i /\ k - 1 = q /\ mode[i] = m
  BY <1>1
<1>4. IsReading(mode, line, first, delim)
  BY DEF Setting
<1>5. Leaves(line, delim, m, i, k)
  BY <1>2, <1>3 DEF Leaves
<1> HIDE DEF i, k, m
<1>6. \A j \in i .. k : mode[j] = m
  BY <1>1, <1>3, <1>4, <1>5, ModeStays
<1>7. QED
  BY <1>1, <1>6 DEF i, k, m
-----------------------------------------------------------------------------
(* What a step of the loops does.                                          *)

LEMMA RegexByteTracks ==
  ASSUME NEW n, NEW mode, NEW first, Setting(n, mode, first), pos \in 0 .. n, first <= pos + 1,
         Follows(mode, first, pos, "regex"), RegexByte
  PROVE  Follows(mode, first, pos', stage')
<1>1. stage' = "regex" /\ pos' = pos + 1
  BY PieceOk, PieceAt, Zenon DEF RegexByte, Feed
<1>2. ~Eol(pos) /\ At(pos) # delim /\ At(pos) # Backslash /\ (At(pos) = Code["["] => delim = Code["["])
  BY DEF RegexByte, OpensBracket, On
<1>3. mode[pos + 1] = "outside" /\ Unclosed(mode, first, pos) /\ first \in Nat
  BY DEF Follows, Setting
<1>4. mode[pos + 2] = "outside"
  BY <1>2, <1>3, NextMode, AfterOutside
<1>5. pos \in Nat /\ pos + 1 + 1 = pos + 2
  BY DEF Setting
<1>6. Unclosed(mode, first, pos + 1)
  BY <1>2, <1>3, <1>5, ExtendsByOne
<1>7. QED
  BY <1>1, <1>4, <1>5, <1>6 DEF Follows

LEMMA QuantifierTracks ==
  ASSUME NEW n, NEW mode, NEW first, Setting(n, mode, first), NEW p \in 0 .. n - 1, first <= p + 1,
         NEW opening, Quantifier(p, opening).st = "ok",
         Unclosed(mode, first, p + 1), mode[p + 2] = "outside"
  PROVE  Follows(mode, first, Quantifier(p, opening).at, "regex")
<1> DEFINE q == Quantifier(p, opening).at
<1>1. n = Len(line) /\ n \in Nat /\ first \in Nat
  BY DEF Setting
<1>2. q \in p + 1 .. n /\ \A j \in p + 1 .. q - 1 : At(j) \in Digits \cup {Code[","]} /\ At(j) # delim
  BY <1>1, QuantifierSpan
<1> HIDE DEF q
<1>3. Backslash \notin Digits \cup {Code[","]} /\ Code["["] \notin Digits \cup {Code[","]}
  <2>1. Code["0"] = 48 /\ Code["9"] = 57 /\ Backslash = 92 /\ Code["["] = 91
    BY Codes DEF Backslash
  <2>2. Code[","] = 44
    BY ReadingCodes
  <2>3. Digits = 48 .. 57
    BY <2>1 DEF Digits
  <2>4. 92 \notin 48 .. 57 /\ 91 \notin 48 .. 57
    OBVIOUS
  <2>5. Backslash # 44 /\ Code["["] # 44
    BY <2>1
  <2>6. QED
    BY <2>1, <2>2, <2>3, <2>4, <2>5, Zenon
<1> DEFINE r == p + 1
<1>4. r \in Nat /\ first <= r + 1 /\ mode[r + 1] = "outside" /\ Unclosed(mode, first, r)
  <2>1. r + 1 = p + 2
    BY <1>1
  <2>2. QED
    BY <1>1, <2>1
<1>5. q \in r .. n /\ \A j \in r .. q - 1 : At(j) # delim /\ At(j) # Backslash /\ At(j) # Code["["]
  BY <1>2, <1>3
<1> HIDE DEF r
<1>6. q \in Nat /\ r <= q /\ q \in r .. q
  BY <1>1, <1>4, <1>5
<1>7. \A j \in r .. q : mode[j + 1] = "outside"
  BY <1>4, <1>5, OutsideRun
<1>8. Follows(mode, first, q, "regex")
  <2>1. Unclosed(mode, first, q)
    BY <1>1, <1>4, <1>5, <1>6, Extends
  <2>2. QED
    BY <1>6, <1>7, <2>1 DEF Follows
<1>9. QED
  BY <1>8 DEF q

LEMMA RegexQuantifierTracks ==
  ASSUME NEW n, NEW mode, NEW first, Setting(n, mode, first), pos \in 0 .. n, first <= pos + 1,
         Follows(mode, first, pos, "regex"), RegexQuantifier, stage' \in {"regex", "bracket", "ready"}
  PROVE  Follows(mode, first, pos', stage')
<1> DEFINE piece == Quantifier(pos, <<Code["{"]>>)
<1>1. stage = "regex" /\ OpensQuantifier /\ Feed(piece) /\ Outcome(piece)
  BY StringOutcome DEF RegexQuantifier
<1> HIDE DEF piece
<1>2. piece.st = "ok" /\ stage' = "regex" /\ pos' = piece.at
  BY <1>1 DEF Feed, Outcome
<1>3. ~Eol(pos) /\ At(pos) = 123 /\ At(pos) # delim
  <2>1. Code["{"] = 123
    BY Codes
  <2>2. QED
    BY <1>1, <2>1 DEF OpensQuantifier, On
<1>4. pos \in 0 .. n - 1 /\ n = Len(line) /\ n \in Nat /\ first \in Nat
  BY <1>3 DEF Setting, Eol
<1>5. mode[pos + 1] = "outside" /\ Unclosed(mode, first, pos)
  BY DEF Follows
<1>6. At(pos) # Backslash /\ At(pos) # Code["["]
  <2>1. Code["\\"] = 92 /\ Code["["] = 91
    BY Codes
  <2>2. QED
    BY <1>3, <2>1 DEF Backslash
<1>7. mode[pos + 2] = "outside"
  BY <1>3, <1>5, <1>6, <1>4, NextMode, AfterOutside
<1>8. pos \in Nat
  BY <1>4
<1>9. Unclosed(mode, first, pos + 1)
  BY <1>3, <1>4, <1>5, <1>8, ExtendsByOne
<1>10. Follows(mode, first, piece.at, "regex")
  BY <1>2, <1>4, <1>7, <1>9, QuantifierTracks DEF piece
<1>11. QED
  BY <1>2, <1>10

\* An escape that is read leaves the expression outside, or has no reading.
LEMMA KeptTracks ==
  ASSUME NEW n, NEW mode, NEW first, Setting(n, mode, first), NEW p \in Nat, first <= p, ~Eol(p),
         Kept(p).st = "ok", At(p) # delim, mode[p + 1] = "escaped", Unclosed(mode, first, p)
  PROVE  Tracks(mode, first, Kept(p).at, "regex")
<1> DEFINE other == <<Backslash, At(p)>>
           q == Escape(p, other).at
<1>1. n = Len(line) /\ n \in Nat /\ first \in Nat /\ p \in 0 .. n - 1 /\ p + 1 + 1 = p + 2
  BY DEF Setting, Eol
<1>2. Kept(p) = Escape(p, other)
  BY Zenon DEF Kept
<1> HIDE DEF other
<1>3. EscapeSpan(p, q)
  BY <1>1, <1>2, EscapeSpans
<1> HIDE DEF q
<1>4. Unclosed(mode, first, p + 1)
  BY <1>1, ExtendsByOne
<1>5. /\ mode[p + 2] = IF At(p) = Code["c"] /\ delim # At(p) /\ Following(line, p + 2) < 128
                       THEN "control" ELSE "outside"
      /\ Following(line, p + 2) = IF Eol(p + 1) THEN 0 ELSE At(p + 1)
  BY <1>1, NextMode, AfterEscaped
<1>6. CASE q = p + 1 /\ (At(p) = Code["c"] => ~Eol(p + 1) /\ ~(At(p + 1) < 128))
  <2>1. mode[p + 2] = "outside"
    BY <1>5, <1>6
  <2>2. Follows(mode, first, q, "regex")
    BY <1>1, <1>4, <1>6, <2>1 DEF Follows
  <2>3. QED
    BY <1>2, <2>2 DEF Tracks, q
<1>7. CASE q = p + 2 /\ At(p) = Code["c"] /\ ~Eol(p + 1) /\ At(p + 1) < 128
  <2>1. mode[p + 2] = "control"
    BY <1>5, <1>7
  <2> DEFINE r == p + 1
  <2>2. r \in Nat /\ first <= r + 1 /\ ~Eol(r) /\ r + 1 = p + 2 /\ Unclosed(mode, first, r) /\ mode[r + 1] = "control"
    BY <1>1, <1>4, <1>7, <2>1
  <2> HIDE DEF r
  <2>3. mode[r + 2] = "outside"
    BY <2>2, NextMode, AfterEscaped
  <2>4. Unclosed(mode, first, r + 1)
    BY <1>1, <2>2, ExtendsByOne
  <2>5. r + 1 = q /\ r + 2 = q + 1
    BY <1>1, <1>7 DEF r
  <2>6. Follows(mode, first, q, "regex")
    BY <2>3, <2>4, <2>5 DEF Follows
  <2>7. QED
    BY <1>2, <2>6 DEF Tracks, q
<1>8. CASE /\ At(p) \in NumericLetters /\ q \in p + 1 .. Len(line)
           /\ \A j \in p + 1 .. q - 1 : At(j) \in Byte /\ Value(At(j)) < 16
  <2>1. CASE Value(delim) < 16
    <3>1. At(p) \in {Code[c] : c \in DOMAIN NumericEscapes} \ {delim}
      BY <1>8 DEF NumericLetters
    <3>2. NoReading(line, mode, delim, p + 1)
      BY <2>1, <3>1 DEF NoReading, At
    <3>3. p + 1 \in first .. q
      BY <1>1, <1>8
    <3>4. Excused(mode, first, q)
      BY <3>2, <3>3 DEF Excused
    <3>5. QED
      BY <1>2, <3>4 DEF Tracks, q
  <2>2. CASE ~(Value(delim) < 16)
    <3> DEFINE r == p + 1
    <3>1. ~On(p, "c")
      <4>1. OnAny(p, DOMAIN NumericEscapes)
        BY <1>8 DEF NumericLetters, OnAny, On
      <4>2. QED
        BY <1>1, <4>1, ControlLetter
    <3>2. mode[p + 2] = "outside"
      BY <1>5, <3>1 DEF On
    <3>3. r \in Nat /\ first <= r + 1 /\ Unclosed(mode, first, r) /\ mode[r + 1] = "outside"
      BY <1>1, <1>4, <3>2
    <3>4. q \in r .. n
      BY <1>1, <1>8
    <3>5. Value(Backslash) = 99 /\ Value(Code["["]) = 99
      <4>1. Backslash = 92 /\ Code["["] = 91 /\ Digits = 48 .. 57 /\ Code["a"] .. Code["f"] = 97 .. 102
            /\ Code["A"] .. Code["F"] = 65 .. 70
        BY Codes DEF Backslash, Digits
      <4>2. \A b \in {91, 92} : b \notin 48 .. 57 /\ b \notin 97 .. 102 /\ b \notin 65 .. 70
        OBVIOUS
      <4>3. QED
        BY <4>1, <4>2, Zenon DEF Value
    <3>6. \A j \in r .. q - 1 : At(j) # delim /\ At(j) # Backslash /\ At(j) # Code["["]
      BY <1>8, <2>2, <3>5
    <3> HIDE DEF r
    <3>7. q \in Nat /\ r <= q /\ q \in r .. q
      BY <1>1, <3>3, <3>4
    <3>8. \A j \in r .. q : mode[j + 1] = "outside"
      BY <3>3, <3>4, <3>6, OutsideRun
    <3>9. Unclosed(mode, first, q)
      BY <1>1, <3>3, <3>6, <3>7, Extends
    <3>10. Follows(mode, first, q, "regex")
      BY <3>7, <3>8, <3>9 DEF Follows
    <3>11. QED
      BY <1>2, <3>10 DEF Tracks, q
  <2>3. QED
    BY <2>1, <2>2
<1>9. QED
  BY <1>3, <1>6, <1>7, <1>8 DEF EscapeSpan

LEMMA BraceCodes == Code["{"] # Code["c"] /\ Code["}"] # Code["c"]
<1>0. Code["c"] = 99
  BY Codes
<1>1. Code["{"] = 123
  BY Codes
<1>2. "}" \in Printable
  BY DEF Printable
<1>3. Code["}"] = 125
  BY <1>2, CodeAssumption DEF Ascii
<1>4. \A x, z : x = 123 /\ z = 99 => x # z
  OBVIOUS
<1>5. \A x, z : x = 125 /\ z = 99 => x # z
  OBVIOUS
<1>6. Code["{"] # Code["c"]
  BY <1>0, <1>1, <1>4, Zenon
<1>7. Code["}"] # Code["c"]
  BY <1>0, <1>3, <1>5, Zenon
<1>8. QED
  BY <1>6, <1>7, Zenon

LEMMA RegexEscapesTracks ==
  ASSUME NEW n, NEW mode, NEW first, Setting(n, mode, first), pos \in 0 .. n, first <= pos + 1,
         Follows(mode, first, pos, "regex"), RegexEscapes, stage' \in {"regex", "bracket", "ready"}
  PROVE  Tracks(mode, first, pos', stage')
<1> DEFINE p == pos + 1
           piece == RegexEscape(p)
<1>1. stage = "regex" /\ On(pos, "\\") /\ Feed(piece) /\ Outcome(piece)
  BY StringOutcome DEF RegexEscapes
<1>2. piece.st = "ok" /\ stage' = "regex" /\ pos' = piece.at
  <2> HIDE DEF piece
  <2> QED BY <1>1 DEF Feed, Outcome
<1>3. ~Eol(p)
  BY <1>2, PieceOk, Zenon DEF RegexEscape
<1>4. n = Len(line) /\ n \in Nat /\ first \in Nat /\ p \in Nat /\ first <= p /\ pos \in Nat /\ p \in 0 .. n - 1
  BY <1>3 DEF Setting, Eol
<1>5. ~Eol(pos) /\ At(pos) = Backslash /\ At(pos) # delim
  BY <1>1 DEF On, Backslash, Setting
<1>6. mode[pos + 1] = "outside" /\ Unclosed(mode, first, pos) /\ pos + 2 = p + 1
  BY <1>4 DEF Follows
<1>7. mode[p + 1] = "escaped"
  BY <1>4, <1>5, <1>6, NextMode, AfterOutside
<1>8. Unclosed(mode, first, p)
  BY <1>4, <1>5, <1>6, ExtendsByOne
<1>9. piece = IF At(p) = delim THEN Got(<<delim>>, p + 1)
              ELSE IF On(p, "{") /\ ~job.extended THEN Quantifier(p, <<Backslash, Code["{"]>>)
              ELSE IF On(p, "}") THEN Got(<<Backslash, At(p)>>, p + 1)
              ELSE Kept(p)
  BY <1>3, Zenon DEF RegexEscape
<1> HIDE DEF p, piece
<1>10. Unclosed(mode, first, p + 1)
  BY <1>4, <1>7, <1>8, ExtendsByOne
<1>11. mode[p + 2] = IF At(p) = Code["c"] /\ delim # At(p) /\ Following(line, p + 2) < 128
                     THEN "control" ELSE "outside"
  BY <1>3, <1>4, <1>7, NextMode, AfterEscaped
<1>12. p + 2 = p + 1 + 1
  BY <1>4
<1>13. CASE At(p) = delim
  <2>1. pos' = p + 1
    BY <1>2, <1>9, <1>13, PieceAt
  <2>2. QED
    BY <1>2, <1>10, <1>11, <1>12, <1>13, <2>1 DEF Tracks, Follows
<1>14. CASE At(p) # delim /\ On(p, "{") /\ ~job.extended
  <2> DEFINE opening == <<Backslash, Code["{"]>>
  <2>1. piece = Quantifier(p, opening)
    BY <1>9, <1>14, Zenon
  <2>3. mode[p + 2] = "outside"
    <3>1. At(p) # Code["c"]
      BY <1>14, BraceCodes, Zenon DEF On
    <3>2. QED
      BY <1>11, <3>1
  <2> HIDE DEF opening
  <2>4. first <= p + 1
    BY <1>4
  <2>5. Follows(mode, first, Quantifier(p, opening).at, "regex")
    BY <1>2, <1>4, <1>10, <2>1, <2>3, <2>4, QuantifierTracks
  <2>6. QED
    BY <1>2, <2>1, <2>5 DEF Tracks
<1>15. CASE At(p) # delim /\ ~(On(p, "{") /\ ~job.extended) /\ On(p, "}")
  <2>1. pos' = p + 1
    BY <1>2, <1>9, <1>15, PieceAt, Zenon
  <2>3. mode[p + 2] = "outside"
    <3>1. At(p) # Code["c"]
      BY <1>15, BraceCodes, Zenon DEF On
    <3>2. QED
      BY <1>11, <3>1
  <2>4. QED
    BY <1>2, <1>10, <1>12, <2>1, <2>3 DEF Tracks, Follows
<1>16. CASE At(p) # delim /\ ~(On(p, "{") /\ ~job.extended) /\ ~On(p, "}")
  <2>1. piece = Kept(p)
    BY <1>9, <1>16, Zenon
  <2>2. Tracks(mode, first, Kept(p).at, "regex")
    BY <1>2, <1>3, <1>4, <1>7, <1>8, <1>16, <2>1, KeptTracks
  <2>3. QED
    BY <1>2, <2>1, <2>2
<1>17. QED
  BY <1>13, <1>14, <1>15, <1>16

LEMMA RegexBracketTracks ==
  ASSUME NEW n, NEW mode, NEW first, Setting(n, mode, first), pos \in 0 .. n, first <= pos + 1,
         Follows(mode, first, pos, "regex"), RegexBracket
  PROVE  Follows(mode, first, pos', stage')
<1> DEFINE p == pos + 1
           q == IF On(p, "^") THEN p + 1 ELSE p
           r == IF On(q, "]") THEN q + 1 ELSE q
<1>1. stage' = "bracket" /\ pos' = r
  BY Zenon DEF RegexBracket, BracketStart
<1>2. ~Eol(pos) /\ At(pos) = Code["["] /\ delim # At(pos)
  BY DEF RegexBracket, OpensBracket, On
<1>3. n = Len(line) /\ n \in Nat /\ first \in Nat /\ p \in Nat /\ first <= p /\ pos \in Nat /\ pos + 2 = p + 1
  BY DEF Setting
<1>4. /\ Code["["] # Backslash /\ Code["]"] # Code["^"] /\ Code["["] # Code["^"] /\ Code["["] # Code["]"]
  <2>1. Code["["] = 91 /\ Code["\\"] = 92
    BY Codes
  <2>2. Code["]"] = 93 /\ Code["^"] = 94
    BY ReadingCodes
  <2>3. QED
    BY <2>1, <2>2 DEF Backslash
<1>5. mode[pos + 1] = "outside" /\ Unclosed(mode, first, pos)
  BY DEF Follows
<1>6. mode[p + 1] = "open"
  BY <1>2, <1>3, <1>4, <1>5, NextMode, AfterOutside
<1>7. Unclosed(mode, first, p)
  BY <1>2, <1>3, <1>5, ExtendsByOne
<1> HIDE DEF p
<1>8. /\ q \in Nat /\ first <= q /\ Unclosed(mode, first, q)
      /\ mode[q + 1] \in {"open", "negated"}
      /\ mode[q + 1] = "open" => ~On(q, "^")
  <2>1. CASE On(p, "^")
    <3>1. ~Eol(p) /\ At(p) = Code["^"] /\ q = p + 1 /\ p + 2 = q + 1
      BY <1>3, <2>1 DEF On
    <3>2. mode[p + 2] = "negated"
      BY <1>3, <1>6, <3>1, NextMode, AfterOpen
    <3>3. Unclosed(mode, first, p + 1)
      BY <1>3, <1>6, <1>7, ExtendsByOne
    <3>4. QED
      BY <1>3, <3>1, <3>2, <3>3
  <2>2. CASE ~On(p, "^")
    BY <1>3, <1>6, <1>7, <2>2
  <2>3. QED
    BY <2>1, <2>2
<1> HIDE DEF q
<1>9. CASE On(q, "]")
  <2>1. ~Eol(q) /\ At(q) = Code["]"] /\ r = q + 1 /\ q + 2 = r + 1
    BY <1>8, <1>9 DEF On
  <2>2. mode[q + 2] = "inside"
    <3>1. mode[q + 2] = ModeAfter(mode[q + 1], Code["]"], Following(line, q + 2), delim)
      BY <1>3, <1>8, <2>1, NextMode
    <3>2. \A next : ModeAfter("open", Code["]"], next, delim) = "inside"
                    /\ ModeAfter("negated", Code["]"], next, delim) = "inside"
      BY <1>4, AfterOpen
    <3>3. QED
      BY <1>8, <3>1, <3>2
  <2>3. Unclosed(mode, first, q + 1)
    BY <1>3, <1>8, ExtendsByOne
  <2>4. InBracket(mode, r)
    BY <2>1, <2>2 DEF InBracket
  <2>5. QED
    BY <1>1, <2>1, <2>3, <2>4 DEF Follows
<1>10. CASE ~On(q, "]")
  <2>1. InBracket(mode, q)
    BY <1>8, <1>10 DEF InBracket
  <2>2. r = q
    BY <1>10
  <2>3. QED
    BY <1>1, <1>8, <2>1, <2>2 DEF Follows
<1>11. QED
  BY <1>9, <1>10

LEMMA BracketEndsTracks ==
  ASSUME NEW n, NEW mode, NEW first, Setting(n, mode, first), pos \in 0 .. n, first <= pos + 1,
         Follows(mode, first, pos, "bracket"), BracketEnds
  PROVE  Follows(mode, first, pos', stage')
<1>1. stage' = "regex" /\ pos' = pos + 1 /\ On(pos, "]")
  BY DEF BracketEnds
<1>2. Unclosed(mode, first, pos) /\ mode[pos + 1] = "inside"
  BY <1>1 DEF Follows, InBracket
<1>3. first \in Nat /\ pos \in Nat /\ ~Eol(pos) /\ At(pos) = Code["]"] /\ pos + 1 + 1 = pos + 2
  BY <1>1 DEF Setting, On
<1>4. mode[pos + 2] = "outside"
  BY <1>2, <1>3, NextMode, AfterOpen DEF Within
<1>5. Unclosed(mode, first, pos + 1)
  BY <1>2, <1>3, ExtendsByOne
<1>6. QED
  BY <1>1, <1>3, <1>4, <1>5 DEF Follows

LEMMA BracketByteTracks ==
  ASSUME NEW n, NEW mode, NEW first, Setting(n, mode, first), pos \in 0 .. n, first <= pos + 1,
         Follows(mode, first, pos, "bracket"), BracketByte
  PROVE  Follows(mode, first, pos', stage')
<1>1. stage' = "bracket" /\ pos' = pos + 1
  BY PieceOk, PieceAt, Zenon DEF BracketByte, Feed
<1>2. ~Eol(pos) /\ ~On(pos, "]") /\ ~On(pos, "[")
  BY DEF BracketByte, OnAny
<1>3. Unclosed(mode, first, pos) /\ mode[pos + 1] \in {"open", "negated", "inside"}
      /\ (mode[pos + 1] = "open" => ~On(pos, "^"))
  BY DEF Follows, InBracket
<1>4. first \in Nat /\ pos \in Nat /\ pos + 1 + 1 = pos + 2
  BY DEF Setting
<1>5. At(pos) # Code["]"] /\ At(pos) # Code["["] /\ (mode[pos + 1] = "open" => At(pos) # Code["^"])
  BY <1>2, <1>3 DEF On
<1>6. mode[pos + 2] = "inside"
  BY <1>2, <1>3, <1>4, <1>5, NextMode, AfterOpen DEF Within
<1>7. Unclosed(mode, first, pos + 1)
  BY <1>3, <1>4, ExtendsByOne
<1>8. InBracket(mode, pos + 1)
  BY <1>4, <1>6 DEF InBracket
<1>9. QED
  BY <1>1, <1>7, <1>8 DEF Follows

LEMMA BracketEscapesTracks ==
  ASSUME NEW n, NEW mode, NEW first, Setting(n, mode, first), pos \in 0 .. n, first <= pos + 1,
         Follows(mode, first, pos, "bracket"), On(pos, "\\"), pos' \in Nat, pos' > pos
  PROVE  Excused(mode, first, pos')
<1>1. mode[pos + 1] \in {"open", "negated", "inside"} /\ line[pos + 1] = Backslash
  BY DEF Follows, InBracket, On, At, Backslash
<1>2. NoReading(line, mode, delim, pos + 1)
  BY <1>1 DEF NoReading
<1>3. pos + 1 \in first .. pos'
  BY DEF Setting
<1>4. QED
  BY <1>2, <1>3 DEF Excused

\* Where the code goes on after a [ that is a member, or after a name and its :].
LEMMA BracketOpeningSpan ==
  ASSUME NEW n \in Nat, n = Len(line), NEW p \in 0 .. n, BracketOpening(p).st = "ok"
  PROVE  \/ Eol(p) /\ BracketOpening(p).at = p
         \/ ~Eol(p) /\ At(p) \notin Markers /\ BracketOpening(p).at = p + 1
         \/ /\ ~Eol(p) /\ At(p) \in Markers
            /\ \E q \in NameEnds(p) : BracketOpening(p).at = q + 2 /\ \A r \in NameEnds(p) : q <= r
<1>1. CASE Eol(p)
  BY <1>1, PieceAt, Zenon DEF BracketOpening
<1>2. CASE ~Eol(p) /\ At(p) \notin Markers
  BY <1>2, PieceAt, Zenon DEF BracketOpening
<1>3. CASE ~Eol(p) /\ At(p) \in Markers
  <2> DEFINE q == CHOOSE q \in NameEnds(p) : \A r \in NameEnds(p) : q <= r
  <2>1. NameEnds(p) # {}
    BY <1>3, PieceOk, Zenon DEF BracketOpening
  <2>2. q \in NameEnds(p) /\ \A r \in NameEnds(p) : q <= r
    <3>1. NameEnds(p) \in SUBSET Nat
      BY DEF NameEnds
    <3>2. QED
      BY <2>1, <3>1, Least
  <2>3. BracketOpening(p).at = q + 2
    BY <1>3, <2>1, PieceAt, Zenon DEF BracketOpening
  <2> HIDE DEF q
  <2>4. QED
    BY <1>3, <2>2, <2>3
<1>4. QED
  BY <1>1, <1>2, <1>3

\* What a name of [: is closed by
LEMMA NameOf ==
  ASSUME NEW b \in Markers, NEW next, NEW d
  PROVE  /\ ModeAfter("opening", b, next, d) \in Names
         /\ ClosedBy[ModeAfter("opening", b, next, d)] = b
<1>1. b = Code[":"] \/ b = Code["."] \/ b = Code["="]
  BY DEF Markers
<1>2. QED
  BY <1>1, AfterOpening, ClosedByNames DEF Names

LEMMA BracketOpensTracks ==
  ASSUME NEW n, NEW mode, NEW first, Setting(n, mode, first), pos \in 0 .. n, first <= pos + 1,
         Follows(mode, first, pos, "bracket"), BracketOpens, stage' \in {"regex", "bracket", "ready"}
  PROVE  Tracks(mode, first, pos', stage')
<1> DEFINE p == pos + 1
           piece == BracketOpening(p)
<1>1. stage = "bracket" /\ On(pos, "[") /\ Feed(piece) /\ Outcome(piece)
  BY StringOutcome DEF BracketOpens
<1>2. piece.st = "ok" /\ stage' = "bracket" /\ pos' = piece.at
  <2> HIDE DEF piece
  <2> QED BY <1>1 DEF Feed, Outcome
<1>3. ~Eol(pos) /\ At(pos) = Code["["] /\ At(pos) = line[p]
  BY <1>1 DEF On, At
<1>4. n = Len(line) /\ n \in Nat /\ first \in Nat /\ p \in 0 .. n /\ first <= p /\ pos \in Nat /\ pos + 2 = p + 1
      /\ line \in Seq(Byte) /\ IsReading(mode, line, first, delim)
  BY <1>3 DEF Setting, Eol
<1>5. mode[p] \in {"open", "negated", "inside"} /\ Unclosed(mode, first, pos)
  BY DEF Follows, InBracket
<1>6. Unclosed(mode, first, p)
  BY <1>4, <1>5, ExtendsByOne
<1>7. \/ Eol(p) /\ pos' = p
      \/ ~Eol(p) /\ At(p) \notin Markers /\ pos' = p + 1
      \/ /\ ~Eol(p) /\ At(p) \in Markers
         /\ \E q \in NameEnds(p) : pos' = q + 2 /\ \A r \in NameEnds(p) : q <= r
  BY <1>2, <1>4, BracketOpeningSpan
<1> HIDE DEF piece, p
<1>8. ASSUME Eol(p) \/ At(p) \notin Markers, pos' \in Nat, pos' >= p
      PROVE  Tracks(mode, first, pos', stage')
  <2>1. p = Len(line) \/ line[p + 1] \notin Markers
    BY <1>4, <1>8 DEF Eol, At
  <2>2. NoReading(line, mode, delim, p)
    BY <1>3, <1>5, <2>1 DEF NoReading
  <2>3. p \in first .. pos'
    BY <1>4, <1>8
  <2>4. QED
    BY <2>2, <2>3 DEF Tracks, Excused
<1>9. CASE Eol(p) /\ pos' = p
  BY <1>4, <1>8, <1>9
<1>10. CASE ~Eol(p) /\ At(p) \notin Markers /\ pos' = p + 1
  BY <1>4, <1>8, <1>10
<1>11. ASSUME ~Eol(p), At(p) \in Markers, NEW q \in NameEnds(p), pos' = q + 2, \A r \in NameEnds(p) : q <= r
       PROVE  Tracks(mode, first, pos', stage')
  <2>1. Code["["] # Code["]"] /\ Code["["] # Code["^"]
    <3>1. Code["["] = 91
      BY Codes
    <3>2. Code["]"] = 93 /\ Code["^"] = 94
      BY ReadingCodes
    <3>3. QED
      BY <3>1, <3>2
  <2>2. mode[p + 1] = ModeAfter(mode[p], At(pos), At(p), delim)
    <3>1. mode[pos + 2] = ModeAfter(mode[pos + 1], At(pos), Following(line, pos + 2), delim)
          /\ Following(line, pos + 2) = IF Eol(pos + 1) THEN 0 ELSE At(pos + 1)
      BY <1>3, <1>4, NextMode DEF p
    <3>2. QED
      BY <1>4, <1>11, <3>1 DEF p
  <2>3. mode[p + 1] = "opening"
    BY <1>3, <1>5, <1>11, <2>1, <2>2, AfterOpen DEF Within
  <2> DEFINE name == mode[p + 2]
             i == p + 2
             k == q + 1
             b == At(p)
  <2>4. name \in Names /\ ClosedBy[name] = b
    BY <1>4, <1>11, <2>3, NextMode, NameOf
  <2>5. q \in p + 1 .. n - 2 /\ At(q) = b /\ On(q + 1, "]")
    BY <1>4, <1>11 DEF NameEnds
  <2>6. i \in Nat /\ first <= i /\ k \in Nat /\ k <= Len(line) + 1 /\ mode[i] = name
    BY <1>4, <2>5
  <2>7. ASSUME NEW j \in i .. k - 1
        PROVE  ModeAfter(name, line[j], Following(line, j + 1), delim) = name
    <3> DEFINE r == j - 1
    <3>1. r \in p + 1 .. n - 2 /\ r < q /\ r + 1 = j /\ r + 2 = j + 1
      BY <1>4, <2>5, <2>7
    <3>2. ~(At(r) = b /\ On(r + 1, "]"))
      <4>1. r \notin NameEnds(p)
        BY <1>4, <1>11, <2>5, <3>1
      <4>2. QED
        BY <1>4, <3>1, <4>1 DEF NameEnds
    <3>3. ~Eol(r + 1) /\ Following(line, j + 1) = At(r + 1) /\ At(r) = line[j]
      BY <1>4, <3>1 DEF Eol, Following, At
    <3>4. ~(line[j] = b /\ Following(line, j + 1) = Code["]"])
      BY <3>2, <3>3 DEF On
    <3> HIDE DEF name, b
    <3>5. QED
      BY <2>4, <3>4, AfterOpening
  <2>8. Leaves(line, delim, name, i, k)
    BY <2>7 DEF Leaves
  <2> HIDE DEF name, i, k, b
  <2>9. \A j \in i .. k : mode[j] = name
    BY <1>4, <2>6, <2>8, ModeStays
  <2>10. k \in i .. k
    BY <1>4, <2>5, <2>6 DEF i, k
  <2>11. mode[q + 1] = name /\ q \in Nat /\ first <= q + 1 /\ ~Eol(q)
    BY <1>4, <2>5, <2>9, <2>10 DEF k, Eol
  <2>12. mode[q + 2] = ModeAfter(name, b, Code["]"], delim)
    <3>1. mode[q + 2] = ModeAfter(mode[q + 1], At(q), Following(line, q + 2), delim)
          /\ Following(line, q + 2) = IF Eol(q + 1) THEN 0 ELSE At(q + 1)
      BY <2>11, NextMode
    <3>2. ~Eol(q + 1) /\ At(q + 1) = Code["]"]
      BY <2>5 DEF On
    <3>3. QED
      BY <2>5, <2>11, <3>1, <3>2
  <2>13. mode[q + 2] = "close"
    BY <2>4, <2>12, AfterOpening
  <2> DEFINE s == q + 1
  <2>14. s \in Nat /\ first <= s + 1 /\ ~Eol(s) /\ mode[s + 1] = "close" /\ s + 2 = pos' + 1 /\ s + 1 = pos'
    <3>1. s + 1 = q + 2 /\ s \in Nat /\ q + 2 = pos' /\ s + 2 = q + 2 + 1
      BY <1>11, <2>11
    <3>2. ~Eol(s)
      BY <2>5 DEF On
    <3>3. first <= s + 1
      BY <1>4, <2>11
    <3>4. QED
      BY <2>13, <3>1, <3>2, <3>3
  <2> HIDE DEF s
  <2>15. mode[pos' + 1] = "inside"
    <3>1. mode[s + 2] = ModeAfter(mode[s + 1], At(s), Following(line, s + 2), delim)
      BY <2>14, NextMode
    <3>2. QED
      BY <2>14, <3>1, AfterOpening
  <2>16. ASSUME NEW j \in p .. pos' - 1 PROVE mode[j + 1] # "outside" \/ At(j) # delim
    <3>1. j = p \/ (j + 1 \in i .. k) \/ j + 1 = q + 2
      BY <1>4, <1>11, <2>5, <2>16 DEF i, k
    <3>2. "outside" \notin Names
      BY DEF Names
    <3>3. CASE j = p
      BY <2>3, <3>3
    <3>4. CASE j + 1 \in i .. k
      BY <2>4, <2>9, <3>2, <3>4
    <3>5. CASE j + 1 = q + 2
      BY <2>13, <3>5
    <3>6. QED
      BY <3>1, <3>3, <3>4, <3>5
  <2>17. pos' \in Nat /\ p \in Nat /\ p <= pos'
    BY <1>4, <1>11, <2>5
  <2>18. Unclosed(mode, first, pos')
    BY <1>4, <1>6, <2>16, <2>17, Extends
  <2>19. InBracket(mode, pos')
    BY <2>15 DEF InBracket
  <2>20. QED
    BY <1>2, <2>18, <2>19 DEF Tracks, Follows
<1>12. QED
  BY <1>7, <1>9, <1>10, <1>11

\* The loops of an expression never go back.
LEMMA KeptForward ==
  ASSUME NEW n \in Nat, n = Len(line), NEW p \in Nat, Kept(p).st = "ok"
  PROVE  Kept(p).at > p
<1> DEFINE other == <<Backslash, At(p)>>
<1>1. ~Eol(p) /\ Kept(p) = Escape(p, other)
  BY PieceOk, Zenon DEF Kept
<1> HIDE DEF other
<1>2. p \in 0 .. n - 1
  BY <1>1 DEF Eol
<1>3. EscapeSpan(p, Kept(p).at)
  BY <1>1, <1>2, EscapeSpans
<1>4. QED
  BY <1>3 DEF EscapeSpan

LEMMA QuantifierForward ==
  ASSUME NEW n \in Nat, n = Len(line), NEW p \in Nat, ~Eol(p), NEW opening, Quantifier(p, opening).st = "ok"
  PROVE  Quantifier(p, opening).at > p
<1>1. p \in 0 .. n - 1
  BY DEF Eol
<1>2. Quantifier(p, opening).at \in p + 1 .. n
  BY <1>1, QuantifierSpan
<1>3. QED
  BY <1>2

LEMMA RegexEscapeForward ==
  ASSUME NEW n \in Nat, n = Len(line), NEW p \in Nat, RegexEscape(p).st = "ok"
  PROVE  RegexEscape(p).at > p
<1>1. ~Eol(p)
  BY PieceOk, Zenon DEF RegexEscape
<1> DEFINE opening == <<Backslash, Code["{"]>>
<1>2. \/ RegexEscape(p) = Got(<<delim>>, p + 1)
      \/ RegexEscape(p) = Quantifier(p, opening)
      \/ RegexEscape(p) = Got(<<Backslash, At(p)>>, p + 1)
      \/ RegexEscape(p) = Kept(p)
  BY <1>1, Zenon DEF RegexEscape
<1> HIDE DEF opening
<1>3. p + 1 > p
  OBVIOUS
<1>4. QED
  BY <1>1, <1>2, <1>3, KeptForward, QuantifierForward, PieceAt

LEMMA BracketOpeningForward ==
  ASSUME NEW n \in Nat, n = Len(line), NEW p \in 0 .. n, BracketOpening(p).st = "ok"
  PROVE  BracketOpening(p).at >= p
<1>1. \A q \in NameEnds(p) : q + 2 >= p
  BY DEF NameEnds
<1>2. p >= p /\ p + 1 >= p
  OBVIOUS
<1>3. QED
  BY <1>1, <1>2, BracketOpeningSpan

LEMMA FeedForward ==
  ASSUME NEW piece, Feed(piece), Outcome(piece), stage \in {"regex", "bracket"},
         stage' \in {"regex", "bracket", "ready"}
  PROVE  piece.st = "ok" /\ stage' = stage /\ pos' = piece.at
BY DEF Feed, Outcome

Active == stage' \in {"regex", "bracket", "ready"}

LEMMA RegexForward ==
  ASSUME NEW n \in Nat, n = Len(line), pos \in 0 .. n, stage \in {"regex", "bracket"}, String, Active
  PROVE  /\ pos' \in pos .. n
         /\ BracketEscapes => pos' > pos
<1>1. pos' \in 0 .. n
  <2>1. CursorInLine
    BY DEF CursorInLine
  <2>2. QED
    BY <2>1, StringMoves DEF Moves
<1>2. pos \in Nat /\ pos + 1 \in Nat
  OBVIOUS
<1>3. ASSUME NEW c, On(pos, c) PROVE pos + 1 \in 0 .. n
  BY <1>3 DEF On, Eol
<1>4. ASSUME RegexEnds \/ RegexUnterminated \/ BracketUnterminated PROVE pos' >= pos
  BY <1>2, <1>4 DEF RegexEnds, RegexUnterminated, BracketUnterminated, Close, Stop
<1>5. ASSUME RegexEscapes PROVE pos' > pos
  <2>1. RegexEscape(pos + 1).st = "ok" /\ pos' = RegexEscape(pos + 1).at
    BY <1>5, FeedForward, StringOutcome, Zenon DEF RegexEscapes, Active
  <2>2. RegexEscape(pos + 1).at > pos + 1
    BY <1>2, <2>1, RegexEscapeForward
  <2>3. QED
    BY <1>1, <2>1, <2>2
<1>6. ASSUME RegexQuantifier PROVE pos' > pos
  <2> DEFINE opening == <<Code["{"]>>
  <2>1. Quantifier(pos, opening).st = "ok" /\ pos' = Quantifier(pos, opening).at
    BY <1>6, FeedForward, StringOutcome, Zenon DEF RegexQuantifier, Active
  <2>2. ~Eol(pos)
    BY <1>6, Zenon DEF RegexQuantifier, OpensQuantifier, On
  <2> HIDE DEF opening
  <2>3. QED
    BY <1>2, <2>1, <2>2, QuantifierForward
<1>7. ASSUME RegexByte \/ BracketByte PROVE pos' >= pos
  <2>1. pos' = pos + 1
    BY <1>7, PieceAt, Zenon DEF RegexByte, BracketByte, Feed
  <2>2. QED
    BY <2>1
<1>8. ASSUME RegexBracket PROVE pos' >= pos
  BY <1>8 DEF RegexBracket, BracketStart
<1>9. ASSUME BracketEnds PROVE pos' >= pos
  BY <1>9 DEF BracketEnds
<1>10. ASSUME BracketOpens PROVE pos' >= pos
  <2>1. BracketOpening(pos + 1).st = "ok" /\ pos' = BracketOpening(pos + 1).at /\ pos + 1 \in 0 .. n
    BY <1>3, <1>10, FeedForward, StringOutcome, Zenon DEF BracketOpens, Active
  <2>2. BracketOpening(pos + 1).at >= pos + 1
    BY <2>1, BracketOpeningForward
  <2>3. QED
    BY <1>1, <2>1, <2>2
<1>11. ASSUME BracketEscapes PROVE pos' > pos
  <2>1. Kept(pos + 1).st = "ok" /\ pos' = Kept(pos + 1).at
    BY <1>11, FeedForward, EscapeOutcome, Zenon DEF BracketEscapes, Active
  <2>2. Kept(pos + 1).at > pos + 1
    BY <1>2, <2>1, KeptForward
  <2>3. QED
    BY <1>1, <2>1, <2>2
<1>12. ~(TransEnds \/ TransUnterminated \/ TransEscapes \/ TransByte)
  BY DEF TransEnds, TransUnterminated, TransEscapes, TransByte
<1>13. pos' >= pos
  <2>1. pos' > pos => pos' >= pos
    BY <1>1
  <2>2. QED
    BY <1>4, <1>5, <1>6, <1>7, <1>8, <1>9, <1>10, <1>11, <1>12, <2>1, Zenon DEF String, ReadString
<1>14. QED
  BY <1>1, <1>11, <1>13

LEMMA StringTracks ==
  ASSUME NEW n, NEW mode, NEW first, Setting(n, mode, first), pos \in 0 .. n, first <= pos + 1,
         stage \in {"regex", "bracket"}, Tracks(mode, first, pos, stage), String, Active
  PROVE  /\ pos' \in pos .. n
         /\ Tracks(mode, first, pos', stage')
         /\ stage' = "ready" => At(pos') = delim
<1>1. n \in Nat /\ n = Len(line) /\ first \in Nat
  BY DEF Setting
<1>2. pos' \in pos .. n /\ (BracketEscapes => pos' > pos)
  BY <1>1, RegexForward
<1>3. ASSUME Excused(mode, first, pos) PROVE Tracks(mode, first, pos', stage')
  <2>1. PICK i \in first .. pos : NoReading(line, mode, delim, i)
    BY <1>3 DEF Excused
  <2>2. i \in first .. pos'
    BY <1>2, <2>1
  <2>3. QED
    BY <2>1, <2>2 DEF Tracks, Excused
<1>4. ASSUME Follows(mode, first, pos, stage) PROVE Tracks(mode, first, pos', stage')
  <2>1. ASSUME RegexEnds PROVE Tracks(mode, first, pos', stage')
    BY <1>4, <2>1 DEF RegexEnds, Close, Follows, Tracks
  <2>2. ~(RegexUnterminated \/ BracketUnterminated)
    BY DEF RegexUnterminated, BracketUnterminated, Stop, Active
  <2>3. ASSUME RegexEscapes PROVE Tracks(mode, first, pos', stage')
    BY <1>4, <2>3, RegexEscapesTracks DEF Active, RegexEscapes
  <2>4. ASSUME RegexQuantifier PROVE Tracks(mode, first, pos', stage')
    BY <1>4, <2>4, RegexQuantifierTracks, Zenon DEF Active, RegexQuantifier, Tracks
  <2>5. ASSUME RegexByte PROVE Tracks(mode, first, pos', stage')
    BY <1>4, <2>5, RegexByteTracks DEF RegexByte, Tracks
  <2>6. ASSUME RegexBracket PROVE Tracks(mode, first, pos', stage')
    BY <1>4, <2>6, RegexBracketTracks DEF RegexBracket, Tracks
  <2>7. ASSUME BracketEnds PROVE Tracks(mode, first, pos', stage')
    BY <1>4, <2>7, BracketEndsTracks DEF BracketEnds, Tracks
  <2>8. ASSUME BracketOpens PROVE Tracks(mode, first, pos', stage')
    BY <1>4, <2>8, BracketOpensTracks DEF Active, BracketOpens
  <2>9. ASSUME BracketEscapes PROVE Tracks(mode, first, pos', stage')
    <3>1. On(pos, "\\") /\ stage = "bracket"
      BY <2>9 DEF BracketEscapes
    <3>2. pos' \in Nat /\ pos' > pos
      BY <1>1, <1>2, <2>9
    <3>3. Follows(mode, first, pos, "bracket")
      BY <1>4, <3>1
    <3>4. QED
      BY <3>1, <3>2, <3>3, BracketEscapesTracks DEF Tracks
  <2>10. ASSUME BracketByte PROVE Tracks(mode, first, pos', stage')
    BY <1>4, <2>10, BracketByteTracks DEF BracketByte, Tracks
  <2>11. ~(TransEnds \/ TransUnterminated \/ TransEscapes \/ TransByte)
    BY DEF TransEnds, TransUnterminated, TransEscapes, TransByte
  <2>12. QED
    BY <2>1, <2>2, <2>3, <2>4, <2>5, <2>6, <2>7, <2>8, <2>9, <2>10, <2>11, Zenon DEF String, ReadString
<1>5. stage' = "ready" => At(pos') = delim
  <2>1. stage' = "ready" => (RegexEnds \/ TransEnds) /\ pos' = pos
    BY StringReady
  <2>2. RegexEnds \/ TransEnds => At(pos) = delim
    BY Zenon DEF RegexEnds, TransEnds
  <2>3. QED
    BY <2>1, <2>2
<1>6. QED
  BY <1>2, <1>3, <1>4, <1>5 DEF Tracks
-----------------------------------------------------------------------------
(* The steps that begin a string, and those that read none.                *)

\* The step reads no string, and none is read.
Elsewhere == stage' \notin {"regex", "bracket", "trans", "ready"}

LEMMA StopElsewhere == Refuse \/ Crash \/ Stop("error") => Elsewhere
BY DEF Refuse, Crash, Stop, Elsewhere

LEMMA GotoElsewhere ==
  /\ \A where \in {"sequence", "address", "separator", "command", "flags"} : \A p : Goto(where, p) => Elsewhere
  /\ \A c, p : Complete(c, p) \/ End(c, p) => Elsewhere
<1>1. \A where \in {"sequence", "address", "separator", "command", "flags"} : \A p : Goto(where, p) => Elsewhere
  BY DEF Goto, Elsewhere
<1>2. \A c, p : Complete(c, p) => Elsewhere
  BY <1>1 DEF Complete
<1>3. \A c, p : End(c, p) => Elsewhere
  BY <1>2, StopElsewhere, Zenon DEF End
<1>4. QED
  BY <1>1, <1>2, <1>3

LEMMA FeedElsewhere ==
  ASSUME NEW piece, Feed(piece), Outcome(piece), stage \notin {"regex", "bracket", "trans", "ready"}
  PROVE  Elsewhere
BY DEF Feed, Outcome, Elsewhere

LEMMA SequenceElsewhere == SequenceLine \/ SequenceSemicolon \/ SequenceCommand => Elsewhere
<1>1. ASSUME SequenceLine PROVE Elsewhere
  <2>1. \/ stage = "sequence" /\ (stage' = stage \/ stage' = IF nesting > 0 THEN "error" ELSE "done")
        \/ stage' = "error"
    BY <1>1, Zenon DEF SequenceLine
  <2>2. QED
    BY <2>1 DEF Elsewhere
<1>2. SequenceSemicolon => Elsewhere
  BY GotoElsewhere DEF SequenceSemicolon
<1>3. SequenceCommand => Elsewhere
  <2>1. SequenceCommand => \E p : Goto("address", p) \/ Goto("command", p)
    BY Zenon DEF SequenceCommand
  <2>2. QED
    BY <2>1, GotoElsewhere
<1>4. QED
  BY <1>1, <1>2, <1>3

LEMMA AddressesElsewhere ==
  AddressPlain \/ AddressRegexEnds \/ SeparatorNone \/ Separator => Elsewhere
<1>1. ASSUME NEW a, NEW p, Address(a, p) PROVE Elsewhere
  <2>1. Refuse \/ (\E q : Goto("separator", q) \/ Goto("command", q))
    BY <1>1, Zenon DEF Address, First, Second
  <2>2. QED
    BY <2>1, GotoElsewhere, StopElsewhere
<1>2. ASSUME NEW kind, NEW p, AddressNumber(kind, p) PROVE Elsewhere
  BY <1>1, <1>2, StopElsewhere, Zenon DEF AddressNumber
<1>3. AddressPlain => Elsewhere
  BY <1>1, <1>2, StopElsewhere, Zenon DEF AddressPlain
<1>4. AddressRegexEnds => Elsewhere
  BY <1>1, StopElsewhere, Zenon DEF AddressRegexEnds
<1>5. SeparatorNone => Elsewhere
  <2>1. SeparatorNone => Refuse \/ \E p : Goto("command", p)
    BY Zenon DEF SeparatorNone
  <2>2. QED
    BY <2>1, StopElsewhere, GotoElsewhere
<1>6. Separator => Elsewhere
  <2>1. Separator => Crash \/ Refuse \/ \E p : Goto("address", p)
    BY Zenon DEF Separator
  <2>2. QED
    BY <2>1, StopElsewhere, GotoElsewhere
<1>7. QED
  BY <1>3, <1>4, <1>5, <1>6

LEMMA HandlersElsewhere ==
  ASSUME Handlers
  PROVE  Elsewhere \/ Substitute \/ Transliterate
<1>1. Negation => Elsewhere
  <2>1. Negation => Refuse \/ \E p : Goto("command", p)
    BY Zenon DEF Negation
  <2>2. QED
    BY <2>1, StopElsewhere, GotoElsewhere
<1>2. OpenBlock \/ CloseBlock \/ NoArgument \/ LabelArgument \/ NumberArgument
        => Refuse \/ \E c, p : Complete(c, p) \/ End(c, p)
  BY Zenon DEF OpenBlock, CloseBlock, NoArgument, LabelArgument, NumberArgument
<1>3. ReadArgument \/ WriteArgument \/ VersionArgument => Refuse \/ \E c, p : Complete(c, p)
  BY Zenon DEF ReadArgument, WriteArgument, VersionArgument
<1>4. \A p : BeginText(p) => Elsewhere
  BY DEF BeginText, Elsewhere
<1>5. TextArgument \/ ExecuteArgument => Elsewhere
  <2>1. TextArgument \/ ExecuteArgument => Refuse \/ (\E c, p : Complete(c, p)) \/ (\E p : BeginText(p))
    BY Zenon DEF TextArgument, ExecuteArgument
  <2>2. QED
    BY <1>4, <2>1, StopElsewhere, GotoElsewhere, Zenon
<1>6. PosixTextArgument => Elsewhere
  <2>1. PosixTextArgument => Refuse \/ stage' = "posix_text"
    BY Zenon DEF PosixTextArgument
  <2>2. QED
    BY <2>1, StopElsewhere DEF Elsewhere
<1>7. OpenBlock \/ CloseBlock \/ NoArgument \/ LabelArgument \/ NumberArgument => Elsewhere
  BY <1>2, StopElsewhere, GotoElsewhere, Zenon
<1>8. ReadArgument \/ WriteArgument \/ VersionArgument => Elsewhere
  BY <1>3, StopElsewhere, GotoElsewhere, Zenon
<1>9. QED
  BY <1>1, <1>5, <1>6, <1>7, <1>8, Zenon DEF Handlers

LEMMA TextsElsewhere == Texts => Elsewhere
<1>1. TextEnds => Elsewhere
  <2>1. TextEnds => \E c, p : Complete(c, p)
    BY Zenon DEF TextEnds
  <2>2. QED
    BY <2>1, GotoElsewhere, Zenon
<1>2. ASSUME NEW piece, stage = "text", Feed(piece), Outcome(piece) PROVE Elsewhere
  BY <1>2, FeedElsewhere
<1>3. TextEscapes => Elsewhere
  <2>1. TextEscapes => stage' = "continuation"
                       \/ (stage = "text" /\ \E other : Feed(Escape(pos + 1, other)))
    BY Zenon DEF TextEscapes
  <2>2. stage' = "continuation" => Elsewhere
    BY DEF Elsewhere
  <2>3. QED
    BY <1>2, <2>1, <2>2, EscapeOutcome, Zenon
<1>4. TextByte => Elsewhere
  BY <1>2, PieceOutcome, Zenon DEF TextByte
<1>5. TextContinues => Elsewhere
  <2>1. TextContinues => stage' \in {"text", "sequence"} \/ Refuse
    BY Zenon DEF TextContinues
  <2>2. QED
    BY <2>1, StopElsewhere DEF Elsewhere
<1>6. PosixTextLine => Elsewhere
  <2>1. PosixTextLine => (stage = "posix_text" /\ stage' = stage) \/ stage' = "sequence" \/ stage' = "error" \/ Refuse
    BY Zenon DEF PosixTextLine
  <2>2. QED
    BY <2>1, StopElsewhere DEF Elsewhere
<1>7. QED
  BY <1>1, <1>3, <1>4, <1>5, <1>6, Zenon DEF Texts

LEMMA SubstitutionsElsewhere == Substitutions => Elsewhere
<1>1. BeginReplacement => Elsewhere
  BY DEF BeginReplacement, Elsewhere
<1>2. Replacement => Elsewhere
  <2>1. Replacement => stage = "replacement" /\ ((\E p : Goto("flags", p)) \/ Feed(ReplacementPiece(pos)))
    BY Zenon DEF Replacement
  <2>2. stage = "replacement" /\ Feed(ReplacementPiece(pos)) => Elsewhere
    BY FeedElsewhere, StringOutcome
  <2>3. QED
    BY <2>1, <2>2, GotoElsewhere
<1>3. ReplacementNewline => Elsewhere
  <2>1. ReplacementNewline => (stage = "replacement" /\ stage' = stage) \/ stage' = "error" \/ Refuse
    BY Zenon DEF ReplacementNewline
  <2>2. QED
    BY <2>1, StopElsewhere DEF Elsewhere
<1>4. Flag => Elsewhere
  <2>1. Flag => Refuse \/ \E p : Goto("flags", p)
    BY Zenon DEF Flag
  <2>2. QED
    BY <2>1, StopElsewhere, GotoElsewhere
<1>5. SubstituteEnds => Elsewhere
  <2>1. SubstituteEnds => Crash \/ Refuse \/ \E c, p : End(c, p)
    BY Zenon DEF SubstituteEnds
  <2>2. QED
    BY <2>1, StopElsewhere, GotoElsewhere, Zenon
<1>6. QED
  BY <1>1, <1>2, <1>3, <1>4, <1>5, Zenon DEF Substitutions

\* The step begins a string of a kind, or none.
Begun(kind, purpose) ==
  \/ Elsewhere
  \/ /\ stage' = kind /\ want' = purpose /\ delim' # Backslash
     /\ stage \notin {"regex", "bracket"}

LEMMA OpenBegins ==
  ASSUME NEW p, NEW kind, NEW purpose, Open(p, kind, purpose), stage \notin {"regex", "bracket"}
  PROVE  Begun(kind, purpose)
<1>1. CASE Eol(p) \/ On(p, "\\")
  <2>1. Stop("error")
    BY <1>1, Zenon DEF Open
  <2>2. QED
    BY <2>1, StopElsewhere DEF Begun
<1>2. CASE ~(Eol(p) \/ On(p, "\\"))
  <2>1. stage' = kind /\ want' = purpose /\ delim' = At(p)
    BY <1>2, Zenon DEF Open
  <2>2. At(p) # Backslash
    BY <1>2 DEF On, Backslash
  <2>3. QED
    BY <2>1, <2>2 DEF Begun
<1>3. QED
  BY <1>1, <1>2

LEMMA StringsBegin ==
  /\ AddressRegex => Begun("regex", want)
  /\ Substitute => Begun("regex", "s")
  /\ Transliterate => Begun("trans", "y")
  /\ TransFirstEnds => Begun("trans", "to")
  /\ TransEnd => Elsewhere
<1>1. AddressRegex => Begun("regex", want)
  <2>1. AddressRegex => stage = "address" /\ \E p : Open(p, "regex", want)
    BY Zenon DEF AddressRegex
  <2>2. QED
    BY <2>1, OpenBegins
<1>2. ASSUME NEW kind, NEW purpose, stage = "command", StringDelimiter(pos + 1, kind, purpose)
      PROVE  Begun(kind, purpose)
  <2>1. Crash \/ Refuse \/ Open(pos + 1, kind, purpose)
    BY <1>2, Zenon DEF StringDelimiter
  <2>2. QED
    BY <1>2, <2>1, StopElsewhere, OpenBegins DEF Begun
<1>3. Substitute => Begun("regex", "s")
  BY <1>2, Zenon DEF Substitute, Command
<1>4. Transliterate => Begun("trans", "y")
  BY <1>2, Zenon DEF Transliterate, Command
<1>5. TransFirstEnds => Begun("trans", "to")
  <2>1. TransFirstEnds => stage = "ready" /\ (Refuse \/ Open(pos, "trans", "to"))
    BY Zenon DEF TransFirstEnds
  <2>2. QED
    BY <2>1, StopElsewhere, OpenBegins DEF Begun
<1>6. TransEnd => Elsewhere
  <2>1. TransEnd => Refuse \/ \E c, p : End(c, p)
    BY Zenon DEF TransEnd
  <2>2. QED
    BY <2>1, StopElsewhere, GotoElsewhere, Zenon
<1>7. QED
  BY <1>1, <1>3, <1>4, <1>5, <1>6

\* What a step does to the string that is read.
LEMMA StepBegins ==
  ASSUME Next
  PROVE  \/ String \/ Elsewhere
         \/ \E purpose : Begun("regex", purpose)
         \/ \E purpose \in {"y", "to"} : Begun("trans", purpose)
<1>1. Addresses => Elsewhere \/ AddressRegex
  BY AddressesElsewhere, Zenon DEF Addresses
<1>2. CommandUnknown => Elsewhere
  BY StopElsewhere DEF CommandUnknown
<1>3. Handlers => Elsewhere \/ Substitute \/ Transliterate
  BY HandlersElsewhere
<1>4. String \/ Elsewhere \/ AddressRegex \/ Substitute \/ Transliterate \/ TransFirstEnds \/ TransEnd
  BY <1>1, <1>2, <1>3, SequenceElsewhere, TextsElsewhere, SubstitutionsElsewhere, Zenon DEF Next
<1>5. QED
  BY <1>4, StringsBegin
-----------------------------------------------------------------------------
(* The expression that is read.                                            *)

IsRegex == stage \in {"regex", "bracket"} \/ (stage = "ready" /\ want \in {"first", "second", "s"})

\* The expression that is read starts at began.
RegexRead ==
  IsRegex =>
    /\ began \in 0 .. pos /\ delim # Backslash
    /\ stage = "ready" => At(pos) = delim
    /\ Tracks(Modes(line, began + 1, delim), began + 1, pos, stage)

TransWanted == stage = "trans" => want \in {"y", "to"}

ReadInv == TypeInv /\ TransWanted /\ RegexRead

LEMMA InitRead == Init => ReadInv
<1> SUFFICES ASSUME Init PROVE ReadInv
  OBVIOUS
<1>1. stage = "sequence"
  BY Zenon DEF Init
<1>2. QED
  BY <1>1, InitTypes DEF ReadInv, TransWanted, RegexRead, IsRegex

LEMMA SettingOf ==
  ASSUME NEW n \in Nat, n = Len(line), line \in Seq(Byte), NEW first \in 1 .. n + 1, delim # Backslash
  PROVE  Setting(n, Modes(line, first, delim), first)
BY ModesRead DEF Setting

\* A step does not go from an expression to a string of y, nor back.
LEMMA StringKinds ==
  ASSUME String
  PROVE  /\ stage \in {"regex", "bracket", "trans"}
         /\ stage \in {"regex", "bracket"} => stage' # "trans"
         /\ stage = "trans" => stage' \notin {"regex", "bracket"}
<1> DEFINE Kinds == /\ stage \in {"regex", "bracket", "trans"}
                    /\ stage \in {"regex", "bracket"} => stage' # "trans"
                    /\ stage = "trans" => stage' \notin {"regex", "bracket"}
<1>1. ASSUME NEW piece, Feed(piece), Outcome(piece), stage \in {"regex", "bracket", "trans"} PROVE Kinds
  BY <1>1 DEF Feed, Outcome
<1>2. RegexEnds \/ RegexUnterminated \/ RegexBracket \/ BracketEnds \/ BracketUnterminated
      \/ TransEnds \/ TransUnterminated => Kinds
  BY DEF RegexEnds, RegexUnterminated, RegexBracket, BracketEnds, BracketUnterminated, TransEnds,
     TransUnterminated, Close, Stop
<1> HIDE DEF Kinds
<1>3. RegexEscapes \/ RegexQuantifier \/ RegexByte => Kinds
  BY <1>1, StringOutcome, PieceOutcome, Zenon DEF RegexEscapes, RegexQuantifier, RegexByte
<1>4. BracketOpens \/ BracketEscapes \/ BracketByte => Kinds
  BY <1>1, StringOutcome, EscapeOutcome, PieceOutcome, Zenon DEF BracketOpens, BracketEscapes, BracketByte
<1>5. TransEscapes \/ TransByte => Kinds
  BY <1>1, StringOutcome, PieceOutcome, Zenon DEF TransEscapes, TransByte
<1>6. Kinds
  BY <1>2, <1>3, <1>4, <1>5, Zenon DEF String, ReadString
<1>7. QED
  BY <1>6 DEF Kinds

\* An expression that begins has nothing before it.
LEMMA FreshRead == TypeInv /\ stage = "regex" /\ began = pos /\ delim # Backslash => RegexRead
<1> SUFFICES ASSUME TypeInv, stage = "regex", began = pos, delim # Backslash PROVE RegexRead
  OBVIOUS
<1> DEFINE n == Len(line)
           first == began + 1
           mode == Modes(line, first, delim)
<1>1. n \in Nat /\ line \in Seq(Byte) /\ pos \in 0 .. n
  BY DEF TypeInv, CursorInv, TextTyped, CursorInLine
<1>2. first \in 1 .. n + 1 /\ began \in 0 .. pos /\ first = pos + 1 /\ first \in Nat
  BY <1>1
<1> HIDE DEF first
<1>3. mode[first] = "outside"
  BY <1>1, <1>2, ModesRead DEF IsReading
<1>4. \A i \in first .. pos : FALSE
  BY <1>1, <1>2
<1> HIDE DEF mode
<1>5. Tracks(mode, first, pos, stage)
  BY <1>2, <1>3, <1>4 DEF Tracks, Follows, Unclosed
<1>6. QED
  BY <1>2, <1>5 DEF RegexRead, mode, first

LEMMA StepRead == ReadInv /\ [ReadNext]_ReadVars => ReadInv'
<1> SUFFICES ASSUME ReadInv, [ReadNext]_ReadVars PROVE ReadInv'
  OBVIOUS
<1>1. TypeInv /\ TransWanted /\ RegexRead
  BY DEF ReadInv
<1>2. [Next]_vars
  BY Zenon DEF ReadNext, ReadVars
<1>3. TypeInv'
  BY <1>1, <1>2, StepTypes
<1> DEFINE n == Len(line)
<1>4. n \in Nat /\ line \in Seq(Byte) /\ pos \in 0 .. n /\ pos' \in 0 .. Len(line')
  <2>1. CursorInv /\ CursorInv'
    BY <1>1, <1>3 DEF TypeInv
  <2>2. QED
    BY <2>1 DEF CursorInv, TextTyped, CursorInLine
<1>5. ASSUME UNCHANGED ReadVars PROVE ReadInv'
  <2>1. UNCHANGED <<line, pos, stage, want, delim, began>>
    BY <1>5, Zenon DEF ReadVars, vars, textVars, inputVars, stringVars
  <2>2. QED
    BY <1>1, <1>3, <2>1 DEF ReadInv, TransWanted, RegexRead, IsRegex, Tracks, Excused, Follows, Unclosed,
       InBracket, NoReading, On, Eol, At, Value
<1>6. ASSUME Elsewhere PROVE ReadInv'
  BY <1>3, <1>6 DEF Elsewhere, ReadInv, TransWanted, RegexRead, IsRegex
<1>7. ASSUME ReadNext, NEW purpose, Begun("regex", purpose), ~Elsewhere PROVE ReadInv'
  <2>1. stage' = "regex" /\ delim' # Backslash /\ began' = pos'
    BY <1>7, Zenon DEF Begun, ReadNext, Begins
  <2>2. (TypeInv /\ stage = "regex" /\ began = pos /\ delim # Backslash => RegexRead)'
    BY FreshRead, PTL
  <2>3. RegexRead'
    BY <1>3, <2>1, <2>2
  <2>4. QED
    BY <1>3, <2>1, <2>3 DEF ReadInv, TransWanted
<1>8. ASSUME NEW purpose \in {"y", "to"}, Begun("trans", purpose), ~Elsewhere PROVE ReadInv'
  <2>1. stage' = "trans" /\ want' = purpose
    BY <1>8, Zenon DEF Begun
  <2>2. QED
    BY <1>3, <1>8, <2>1 DEF ReadInv, TransWanted, RegexRead, IsRegex
<1>9. ASSUME ReadNext, String, ~Elsewhere PROVE ReadInv'
  <2>1. UNCHANGED <<line, want, delim>>
    BY <1>9 DEF String, ReadString
  <2>2. CASE stage \in {"regex", "bracket"}
    <3>1. Active /\ stage' # "trans" /\ began' = began
      BY <1>9, <2>2, StringKinds DEF Elsewhere, Active, ReadNext, Begins
    <3> DEFINE first == began + 1
               mode == Modes(line, first, delim)
    <3>2. began \in 0 .. pos /\ delim # Backslash /\ Tracks(mode, first, pos, stage)
      BY <1>1, <2>2 DEF RegexRead, IsRegex
    <3>3. first \in 1 .. n + 1 /\ first <= pos + 1
      BY <1>4, <3>2
    <3> HIDE DEF first, mode, n
    <3>4. Setting(n, mode, first)
      BY <1>4, <3>2, <3>3, SettingOf DEF n, mode
    <3>5. /\ pos' \in pos .. n
          /\ Tracks(mode, first, pos', stage')
          /\ stage' = "ready" => At(pos') = delim
      BY <1>4, <1>9, <2>2, <3>1, <3>2, <3>3, <3>4, StringTracks
    <3>6. began' \in 0 .. pos'
      BY <1>4, <3>1, <3>2, <3>5
    <3>7. delim' # Backslash /\ (stage' = "ready" => At(pos)' = delim')
      BY <2>1, <3>2, <3>5 DEF At
    <3>8. Tracks(Modes(line, began + 1, delim), began + 1, pos, stage)'
      BY <2>1, <3>1, <3>5 DEF mode, first, Tracks, Excused, Follows, Unclosed, InBracket, NoReading,
         On, Eol, At, Value
    <3>9. RegexRead'
      BY <3>6, <3>7, <3>8 DEF RegexRead
    <3>10. QED
      BY <1>3, <3>1, <3>9 DEF ReadInv, TransWanted
  <2>3. CASE stage = "trans"
    <3>1. stage' \notin {"regex", "bracket"} /\ want' \in {"y", "to"}
      BY <1>1, <1>9, <2>1, <2>3, StringKinds DEF TransWanted
    <3>2. QED
      BY <1>3, <3>1 DEF ReadInv, TransWanted, RegexRead, IsRegex
  <2>4. QED
    BY <1>9, <2>2, <2>3, StringKinds
<1>10. QED
  BY <1>5, <1>6, <1>7, <1>8, <1>9, StepBegins, Zenon DEF ReadNext

\* Whatever the script is, a regular expression, of an address or of s, is taken as
\* read at the first delimiter behind its start that is neither escaped nor in a
\* bracket expression, if it has a reading up to there.
THEOREM RegexEndsRight == ReadSpec => []RegexEndsAtDelimiter
<1>1. ReadInv => RegexEndsAtDelimiter
  <2> SUFFICES ASSUME ReadInv, stage = "ready", want \in {"first", "second", "s"} PROVE RegexEndsAtDelimiter
    BY DEF RegexEndsAtDelimiter
  <2> DEFINE first == began + 1
             mode == Modes(line, first, delim)
             n == Len(line)
             closing == {i \in first .. n : mode[i] = "outside" /\ line[i] = delim}
  <2>1. /\ began \in 0 .. pos /\ At(pos) = delim
        /\ Tracks(mode, first, pos, stage)
    BY DEF ReadInv, RegexRead, IsRegex
  <2>2. n \in Nat /\ pos \in 0 .. n /\ ~Eol(pos)
    BY DEF ReadInv, TypeInv, CursorInv, TextTyped, CursorInLine, ReadyAtDelimiter
  <2> HIDE DEF mode
  <2>3. first \in Nat /\ first <= pos + 1 /\ pos + 1 \in first .. n /\ pos \in Nat
    BY <2>1, <2>2 DEF Eol
  <2> HIDE DEF first
  <2>4. CASE Excused(mode, first, pos)
    BY <2>4 DEF Excused, RegexEndsAtDelimiter, mode, first
  <2>5. CASE Follows(mode, first, pos, stage)
    <3>1. Unclosed(mode, first, pos) /\ mode[pos + 1] = "outside"
      BY <2>5 DEF Follows
    <3>2. pos + 1 \in closing
      BY <2>1, <2>3, <3>1 DEF At
    <3>3. ASSUME NEW i \in closing PROVE pos + 1 <= i
      <4>1. i \in Nat /\ i \notin first .. pos /\ first <= i
        BY <2>3, <3>1 DEF Unclosed
      <4>2. QED
        BY <2>3, <4>1
    <3>4. QED
      BY <3>2, <3>3 DEF RegexEndsAtDelimiter, mode, first
  <2>6. QED
    BY <2>1, <2>4, <2>5 DEF Tracks
<1>2. QED
  BY <1>1, InitRead, StepRead, PTL DEF ReadSpec, ReadInit
=============================================================================
