---------------------------- MODULE RangesProofs ----------------------------
(***************************************************************************)
(* Theorems about Ranges, for every kind of range, every stream and every  *)
(* choice of the lines the command is tested on.                           *)
(***************************************************************************)
EXTENDS Ranges, NatInduction

-----------------------------------------------------------------------------
(* The command and its view of a line.                                     *)

LEMMA CommandFacts ==
  ASSUME TypeOK
  PROVE  /\ command.a1 \in Ends /\ command.a2 \in Ends /\ command.neg = FALSE
         /\ command.a1.kind # "none" /\ command.a2.kind # "none" /\ IsRange(command)
         /\ command.a1.n \in Nat /\ command.a2.n \in Nat
<1>1. command.a1 \in Ends /\ command.a2 \in Ends /\ command.neg = FALSE
  BY CommandsAssumption DEF TypeOK
<1>2. command.a1.kind # "none" /\ command.a2.kind # "none"
  BY CommandsAssumption DEF TypeOK
<1>3. QED
  BY <1>1, <1>2 DEF Ends, IsRange

LEMMA ResetValues == ResetStart(command) \in {0, Unlatched}
BY DEF ResetStart

\* Testing the command on line l keeps the latch, opens it on this line, which
\* the first address matches, or clears it.
LEMMA StartAfterCases ==
  ASSUME TypeOK, NEW start, NEW l
  PROVE  LET after == StartAfter(command, start, ViewAt(l))
         IN  after \in {start, Unlatched} \/ (after = l /\ Opens(l))
<1>1. ViewAt(l).line = l
  BY DEF ViewAt
<1>2. QED
  BY <1>1, CommandFacts DEF StartAfter, Opens

-----------------------------------------------------------------------------
(* Type correctness.                                                       *)

\* The type invariant, and that a latched line has been read.
RangeTyped == TypeOK /\ startLine <= line

LEMMA InitTyped == Init => RangeTyped
<1> SUFFICES ASSUME Init PROVE RangeTyped
  OBVIOUS
<1>1. startLine \in {0, Unlatched} /\ line = 0
  BY ResetValues DEF Init
<1>2. 0 \in 0 .. Lines
  BY LinesAssumption
<1>3. QED
  BY <1>1, <1>2 DEF Init, RangeTyped, TypeOK, Unlatched

LEMMA StepTyped == RangeTyped /\ [Next]_vars => RangeTyped'
<1> SUFFICES ASSUME RangeTyped, [Next]_vars PROVE RangeTyped'
  OBVIOUS
<1>0. /\ TypeOK /\ Lines \in Nat /\ line \in 0 .. Lines
      /\ startLine \in 0 .. Lines \cup {-1} /\ startLine <= line
  BY LinesAssumption DEF RangeTyped, TypeOK, Unlatched
<1>1. ASSUME Test PROVE RangeTyped'
  <2>1. line' = line + 1 /\ line' \in 0 .. Lines
    BY <1>0, <1>1 DEF Test
  <2>2. startLine' \in {startLine, -1, line'}
    BY <1>0, <1>1, StartAfterCases DEF Test, Unlatched
  <2>3. tested' \in SUBSET (1 .. line') /\ selected' \in SUBSET tested'
    <3>1. tested \in SUBSET (1 .. line) /\ selected \in SUBSET tested
      BY <1>0 DEF TypeOK
    <3>2. tested' = tested \cup {line'} /\ selected' \in {selected, selected \cup {line'}}
      BY <1>1 DEF Test
    <3>3. QED
      BY <1>0, <2>1, <3>1, <3>2
  <2>4. QED
    BY <1>0, <1>1, <2>1, <2>2, <2>3 DEF Test, RangeTyped, TypeOK, Unlatched
<1>2. ASSUME PassBy PROVE RangeTyped'
  BY <1>0, <1>2 DEF PassBy, RangeTyped, TypeOK, Unlatched
<1>3. ASSUME UNCHANGED vars PROVE RangeTyped'
  BY <1>3 DEF vars, RangeTyped, TypeOK
<1>4. QED
  BY <1>1, <1>2, <1>3 DEF Next, Done

-----------------------------------------------------------------------------
(* What a range selects.                                                   *)

\* What opened a range is remembered.
LEMMA OpenedStays ==
  ASSUME NEW s, Opened(s), tested \subseteq tested', UNCHANGED <<command, stream>>
  PROVE  Opened(s)'
BY DEF Opened, Opens, ViewAt, ResetStart, IsRange

\* A selected line is reached by the latched range, or opens one.
LEMMA SelectionReached ==
  ASSUME RangeTyped, NEW l \in Nat, l > line,
         InAddress(command, startLine, ViewAt(l))
  PROVE  \/ startLine # Unlatched /\ Reaches(startLine, l)
         \/ startLine = Unlatched /\ Opens(l) /\ Reaches(l, l)
<1>1. /\ TypeOK /\ startLine \in Int /\ startLine <= l /\ ViewAt(l).line = l
      /\ line \in Nat
  BY LinesAssumption DEF RangeTyped, TypeOK, Unlatched, ViewAt
<1>2. command.a2.n \in Nat /\ IsRange(command) /\ command.a1.kind # "none"
  BY <1>1, CommandFacts
<1>3. CASE startLine # Unlatched
  <2>1. /\ ~Overrun(command, startLine, ViewAt(l))
        /\ command.a2.kind = "stepmatch" => IsMultipleOf(l - startLine, command.a2.n)
    BY <1>1, <1>2, <1>3 DEF InAddress
  <2>2. QED
    BY <1>1, <1>2, <1>3, <2>1 DEF Overrun, Reaches
<1>4. CASE startLine = Unlatched
  <2>1. Opens(l)
    BY <1>2, <1>4 DEF InAddress, Opens
  <2>2. IsMultipleOf(l - l, command.a2.n)
    BY <1>2 DEF IsMultipleOf
  <2>3. QED
    BY <1>2, <1>4, <2>1, <2>2 DEF Reaches
<1>5. QED
  BY <1>3, <1>4

LEMMA StepInside ==
  ASSUME RangeTyped, LatchHasOpener, SelectedInsideRange, [Next]_vars
  PROVE  LatchHasOpener' /\ SelectedInsideRange'
<1>0. /\ TypeOK /\ Lines \in Nat /\ line \in Nat /\ startLine <= line
      /\ startLine \in Nat \cup {Unlatched} /\ selected \subseteq 1 .. line
  BY LinesAssumption DEF RangeTyped, TypeOK
<1>1. ASSUME Test PROVE LatchHasOpener' /\ SelectedInsideRange'
  <2>1. PICK k \in Nat : k = line' /\ k = line + 1
    BY <1>0, <1>1 DEF Test
  <2>2. /\ UNCHANGED <<command, stream>>
        /\ startLine' = StartAfter(command, startLine, ViewAt(k))
        /\ tested' = tested \cup {k}
        /\ selected' = IF Applies(command, startLine, ViewAt(k))
                       THEN selected \cup {k} ELSE selected
    BY <1>1, <2>1 DEF Test, ViewAt
  <2>3. Opens(k) => Opened(k)'
    BY <2>2 DEF Opened, Opens, ViewAt
  <2>4. ASSUME NEW s, Opened(s) PROVE Opened(s)'
    BY <2>2, <2>4, OpenedStays
  <2>5. LatchHasOpener'
    <3>1. startLine' \in {startLine, Unlatched} \/ (startLine' = k /\ Opens(k))
      BY <1>0, <2>2, StartAfterCases
    <3>2. PICK s : s = startLine'
      OBVIOUS
    <3>3. s = Unlatched \/ Opened(s)'
      BY <2>3, <2>4, <3>1, <3>2 DEF LatchHasOpener
    <3>4. QED
      BY <3>2, <3>3 DEF LatchHasOpener, Opened, Opens, ViewAt, Unlatched
  <2>6. ASSUME NEW l \in selected'
        PROVE  \E s \in 0 .. l : Opened(s)' /\ Reaches(s, l)'
    <3>1. ASSUME NEW s, Reaches(s, l) PROVE Reaches(s, l)'
      BY <2>2, <3>1 DEF Reaches
    <3>2. CASE l \in selected
      <4>1. PICK s \in 0 .. l : Opened(s) /\ Reaches(s, l)
        BY <3>2 DEF SelectedInsideRange
      <4>2. Opened(s)' /\ Reaches(s, l)'
        BY <2>4, <3>1, <4>1
      <4>3. QED
        BY <4>2
    <3>3. CASE l \notin selected
      <4>1. l = k /\ Applies(command, startLine, ViewAt(k))
        BY <2>2, <2>6, <3>3
      <4>2. command.neg = FALSE
        BY <1>0, CommandFacts
      <4>3. InAddress(command, startLine, ViewAt(k))
        <5>1. InAddress(command, startLine, ViewAt(k)) \in BOOLEAN
          BY DEF InAddress, MatchAddress
        <5>2. InAddress(command, startLine, ViewAt(k)) # FALSE
          BY <4>1, <4>2 DEF Applies
        <5>3. QED
          BY <5>1, <5>2
      <4>4. k > line /\ 0 <= k
        BY <1>0, <2>1
      <4>5. CASE startLine # Unlatched /\ Reaches(startLine, k)
        <5>1. PICK s : s = startLine
          OBVIOUS
        <5>2. Opened(s) /\ Reaches(s, l) /\ s \in 0 .. l
          <6>1. Opened(startLine)
            BY <4>5 DEF LatchHasOpener
          <6>2. startLine \in 0 .. k
            BY <1>0, <2>1, <4>5
          <6>3. Opened(s)
            BY <5>1, <6>1 DEF Opened, Opens, ViewAt
          <6>4. QED
            BY <4>1, <4>5, <5>1, <6>2, <6>3 DEF Reaches
        <5>3. Opened(s)' /\ Reaches(s, l)'
          BY <2>4, <3>1, <5>2
        <5>4. QED
          BY <5>2, <5>3
      <4>6. CASE Opens(k) /\ Reaches(k, k)
        <5>1. Opened(k)' /\ Reaches(k, l)' /\ k \in 0 .. l
          BY <2>3, <3>1, <4>1, <4>4, <4>6
        <5>2. QED
          BY <5>1
      <4>7. QED
        BY <4>3, <4>4, <4>5, <4>6, SelectionReached
    <3>4. QED
      BY <3>2, <3>3
  <2>7. QED
    BY <2>5, <2>6 DEF SelectedInsideRange
<1>2. ASSUME PassBy \/ UNCHANGED vars PROVE LatchHasOpener' /\ SelectedInsideRange'
  BY <1>2 DEF PassBy, vars, LatchHasOpener, SelectedInsideRange, Opened, Opens, ViewAt, Reaches
<1>3. QED
  BY <1>1, <1>2 DEF Next, Done

LEMMA InitInside == Init => LatchHasOpener /\ SelectedInsideRange
BY ResetValues DEF Init, LatchHasOpener, SelectedInsideRange, Opened

\* Whatever lines the command is tested on, the latch is unset or holds a line
\* of the stream, and only tested lines are selected.
THEOREM TypeCorrect == Spec => []TypeOK
<1>1. RangeTyped => TypeOK
  BY DEF RangeTyped
<1>2. QED
  BY <1>1, InitTyped, StepTyped, PTL DEF Spec

\* An active range was opened by a line that was tested and matched its first
\* address, whatever happened to the command in between.
THEOREM OpenerKnown == Spec => []LatchHasOpener
BY InitTyped, StepTyped, InitInside, StepInside, PTL DEF Spec

\* For every range, every stream and every choice of the lines the command is
\* tested on: it is selected for no line that lies in none of its ranges.
THEOREM InsideRange == Spec => []SelectedInsideRange
BY InitTyped, StepTyped, InitInside, StepInside, PTL DEF Spec
-----------------------------------------------------------------------------
(* The ranges of a stream.                                                 *)

\* The line that opened the range line l is in, given the one s of line l - 1.
RangeNext(s, l) ==
  IF s # Unlatched /\ ~\E k \in s .. l - 1 : k > 0 /\ EndsAt(s, k) THEN s
  ELSE IF Opens(l) THEN l ELSE Unlatched

\* RangeOf is defined by what follows: up to any line there is such a function.
LEMMA RangesExist ==
  ASSUME NEW n \in Nat
  PROVE  \E f : f = [l \in 0 .. n |->
                       IF l = 0 THEN ResetStart(command) ELSE RangeNext(f[l - 1], l)]
<1> DEFINE Value(f, l) == IF l = 0 THEN ResetStart(command) ELSE RangeNext(f[l - 1], l)
           Upto(m) == \E f : f = [l \in 0 .. m |-> Value(f, l)]
           S == {m \in Nat : Upto(m)}
<1>1. 0 \in S
  <2>1. [l \in 0 .. 0 |-> ResetStart(command)] =
           [l \in 0 .. 0 |-> Value([k \in 0 .. 0 |-> ResetStart(command)], l)]
    OBVIOUS
  <2>2. QED
    BY <2>1
<1>2. ASSUME NEW m \in S PROVE m + 1 \in S
  <2>1. PICK f : f = [l \in 0 .. m |-> Value(f, l)]
    BY <1>2
  <2> DEFINE g == [l \in 0 .. m + 1 |-> IF l = m + 1 THEN RangeNext(f[m], m + 1) ELSE f[l]]
  <2>2. ASSUME NEW l \in 0 .. m + 1 PROVE g[l] = Value(g, l)
    <3>1. CASE l = 0
      BY <2>1, <3>1
    <3>2. CASE l \in 1 .. m
      <4>1. g[l] = f[l] /\ g[l - 1] = f[l - 1] /\ l \in 0 .. m /\ l # 0
        BY <3>2
      <4>2. f[l] = Value(f, l)
        BY <2>1, <4>1
      <4>3. QED
        BY <4>1, <4>2
    <3>3. CASE l = m + 1
      <4>1. g[l] = RangeNext(f[m], m + 1) /\ g[l - 1] = f[m] /\ l # 0
        BY <3>3
      <4>2. QED
        BY <3>3, <4>1
    <3>4. QED
      BY <3>1, <3>2, <3>3
  <2>3. g = [l \in 0 .. m + 1 |-> Value(g, l)]
    BY <2>2
  <2> HIDE DEF g
  <2>4. Upto(m + 1)
    BY <2>3
  <2>5. QED
    BY <2>4
<1>3. S = Nat
  BY <1>1, <1>2, Induction
<1>4. QED
  BY <1>3

LEMMA RangeOfLines ==
  RangeOf = [l \in 0 .. Lines |->
               IF l = 0 THEN ResetStart(command) ELSE RangeNext(RangeOf[l - 1], l)]
<1>1. PICK f : f = [l \in 0 .. Lines |->
               IF l = 0 THEN ResetStart(command) ELSE RangeNext(f[l - 1], l)]
  BY RangesExist, LinesAssumption
<1>2. QED
  BY <1>1, Zenon DEF RangeOf, RangeNext

LEMMA RangeOfKept ==
  ASSUME UNCHANGED <<command, stream>>
  PROVE  RangeOf' = RangeOf /\ \A s, l : EndsAt(s, l)' = EndsAt(s, l)
BY DEF RangeOf, EndsAt, Opens, ViewAt

-----------------------------------------------------------------------------
(* A command that is tested on every line.                                 *)

\* The range opened by line s has not ended.
IsCurrent(s) == s # Unlatched /\ ~\E k \in s .. line : k > 0 /\ EndsAt(s, k)

\* The latch holds the range that goes on behind this line.  One that a number
\* ends is cleared a line late, where nothing opens another one: its first
\* address is a number or $.
LatchFollows ==
  IF IsCurrent(RangeOf[line]) THEN startLine = RangeOf[line]
  ELSE \/ startLine = Unlatched
       \/ /\ command.a1.kind # "re" /\ command.a2.kind \in {"line", "rel"}
          /\ startLine # Unlatched /\ EndsAt(startLine, line)

Follows == tested = 1 .. line => LatchFollows /\ selected = Covered

LEMMA InitFollows == Init => Follows
<1> SUFFICES ASSUME Init PROVE Follows
  OBVIOUS
<1>1. line = 0 /\ startLine = ResetStart(command) /\ selected = {}
  BY DEF Init
<1>2. RangeOf[0] = ResetStart(command)
  BY RangeOfLines, LinesAssumption
<1>3. Covered = {}
  BY <1>1 DEF Covered
<1>4. LatchFollows
  BY <1>1, <1>2, ResetValues DEF LatchFollows, IsCurrent, Unlatched
<1>5. QED
  BY <1>1, <1>3, <1>4 DEF Follows

\* What ends a range, kind by kind.
LEMMA EndsAtKinds ==
  ASSUME NEW s, NEW l
  PROVE  /\ command.a2.kind = "line" => (EndsAt(s, l) <=> l >= command.a2.n)
         /\ command.a2.kind = "rel" => (EndsAt(s, l) <=> l >= s + command.a2.n)
         /\ command.a2.kind = "stepend" =>
              (EndsAt(s, l) <=> l > s /\ IsMultipleOf(l, command.a2.n))
         /\ command.a2.kind \in {"re", "last"} =>
              (EndsAt(s, l) <=> l > s /\ MatchAddress(command.a2, ViewAt(l)))
         /\ command.a2.kind = "stepmatch" => ~EndsAt(s, l)
<1>1. command.a2.kind = "line" => (EndsAt(s, l) <=> l >= command.a2.n)
  BY Zenon DEF EndsAt
<1>2. command.a2.kind = "rel" => (EndsAt(s, l) <=> l >= s + command.a2.n)
  BY Zenon DEF EndsAt
<1>3. command.a2.kind = "stepend" =>
              (EndsAt(s, l) <=> l > s /\ IsMultipleOf(l, command.a2.n))
  BY Zenon DEF EndsAt
<1>4. command.a2.kind \in {"re", "last"} =>
              (EndsAt(s, l) <=> l > s /\ MatchAddress(command.a2, ViewAt(l)))
  BY Zenon DEF EndsAt
<1>5. command.a2.kind = "stepmatch" => ~EndsAt(s, l)
  BY Zenon DEF EndsAt
<1>6. QED
  BY <1>1, <1>2, <1>3, <1>4, <1>5

LEMMA KindOfEnd ==
  ASSUME TypeOK
  PROVE  command.a2.kind \in {"re", "line", "last", "rel", "stepmatch", "stepend"}
BY CommandFacts, Zenon DEF Ends, AddressKind

\* The latch and the selection on line l, the one behind line, where a range
\* goes on.
LEMMA TestInside ==
  ASSUME RangeTyped, NEW s, s = RangeOf[line], IsCurrent(s), startLine = s,
         NEW l, l = line + 1, line < Lines
  PROVE  /\ RangeOf[l] = s /\ ~Overrun(command, s, ViewAt(l))
         /\ EndsHere(command, ViewAt(l)) => EndsAt(s, l)
         /\ EndsAt(s, l) => \/ EndsHere(command, ViewAt(l))
                            \/ command.a1.kind # "re" \/ EndedByNumber
         /\ EndsAt(s, l) => \/ EndsHere(command, ViewAt(l))
                            \/ command.a2.kind \in {"line", "rel"}
<1>1. TypeOK /\ Lines \in Nat /\ line \in 0 .. Lines /\ startLine <= line
  BY LinesAssumption DEF RangeTyped, TypeOK
<1>2. /\ line \in Nat /\ l \in Nat /\ l \in 0 .. Lines /\ l # 0 /\ l - 1 = line
      /\ s \in Nat /\ s # Unlatched /\ s <= line
  BY <1>1 DEF TypeOK, IsCurrent, Unlatched
<1>3. ViewAt(l).line = l
  BY DEF ViewAt
<1>4. command.a2.n \in Nat /\ command.a1.n \in Nat
  BY <1>1, CommandFacts
<1>5. ~\E k \in s .. line : k > 0 /\ EndsAt(s, k)
  BY DEF IsCurrent
<1>6. RangeOf[l] = s
  <2>1. RangeOf[l] = RangeNext(s, l)
    BY <1>2, RangeOfLines
  <2>2. QED
    BY <1>2, <1>5, <2>1 DEF RangeNext
<1>7. ~Overrun(command, s, ViewAt(l))
  <2>1. CASE line > 0
    <3>1. ~EndsAt(s, line)
      BY <1>2, <1>5, <2>1
    <3>2. QED
      BY <1>2, <1>3, <1>4, <3>1, EndsAtKinds DEF Overrun
  <2>2. CASE line = 0
    <3>1. RangeOf[0] = ResetStart(command)
      BY <1>1, RangeOfLines
    <3>2. command.a1.kind = "line" /\ command.a1.n = 0
      BY <1>2, <2>2, <3>1 DEF ResetStart
    <3>3. command.a2.kind \in {"re", "stepmatch"}
      BY <1>1, <3>2, CommandsAssumption DEF TypeOK
    <3>4. QED
      BY <3>3 DEF Overrun
  <2>3. QED
    BY <1>2, <2>1, <2>2
<1>8. CASE command.a2.kind = "stepend"
  <2>1. EndsAt(s, l) <=> EndsHere(command, ViewAt(l))
    BY <1>2, <1>3, <1>8, EndsAtKinds DEF EndsHere
  <2>2. QED
    BY <1>6, <1>7, <2>1
<1>9. CASE command.a2.kind \in {"re", "last"}
  <2>1. EndsAt(s, l) <=> EndsHere(command, ViewAt(l))
    BY <1>2, <1>9, EndsAtKinds DEF EndsHere
  <2>2. QED
    BY <1>6, <1>7, <2>1
<1>10. CASE command.a2.kind = "stepmatch"
  <2>1. ~EndsAt(s, l) /\ ~EndsHere(command, ViewAt(l))
    BY <1>10, EndsAtKinds DEF EndsHere
  <2>2. QED
    BY <1>6, <1>7, <2>1
<1>11. CASE command.a2.kind \in {"line", "rel"}
  <2>1. ~EndsHere(command, ViewAt(l))
    BY <1>11 DEF EndsHere
  <2>2. command.a1.kind # "re" \/ EndedByNumber
    BY <1>11 DEF EndedByNumber
  <2>3. QED
    BY <1>6, <1>7, <1>11, <2>1, <2>2
<1>12. QED
  BY <1>1, <1>8, <1>9, <1>10, <1>11, KindOfEnd

\* Outside the ranges: the latch, if set, is cleared and opens no range.
LEMMA TestOutside ==
  ASSUME RangeTyped, LatchHasOpener, NEW s, s = RangeOf[line], ~IsCurrent(s),
         NEW l, l = line + 1, line < Lines
  PROVE  /\ RangeOf[l] = IF Opens(l) THEN l ELSE Unlatched
         /\ command.a1.kind # "re" /\ command.a2.kind \in {"line", "rel"}
              /\ startLine # Unlatched /\ EndsAt(startLine, line)
              => ~Opens(l) /\ Overrun(command, startLine, ViewAt(l))
         /\ Opens(l) => (EndsAt(l, l) <=> OneLineRange(command, ViewAt(l)))
<1>1. /\ TypeOK /\ Lines \in Nat /\ line \in 0 .. Lines /\ startLine <= line
      /\ startLine \in 0 .. Lines \cup {Unlatched}
  BY LinesAssumption DEF RangeTyped, TypeOK
<1>2. /\ line \in Nat /\ l \in Nat /\ l \in 0 .. Lines /\ l # 0 /\ l - 1 = line
  BY <1>1
<1>3. ViewAt(l).line = l /\ ViewAt(l).last = (l = Lines)
  BY DEF ViewAt
<1>4. command.a2.n \in Nat /\ command.a1.n \in Nat
  BY <1>1, CommandFacts
<1>5. RangeOf[l] = IF Opens(l) THEN l ELSE Unlatched
  <2>1. RangeOf[l] = RangeNext(s, l)
    BY <1>2, RangeOfLines
  <2>2. QED
    BY <1>2, <2>1 DEF RangeNext, IsCurrent
<1>6. ASSUME command.a1.kind # "re", command.a2.kind \in {"line", "rel"},
             startLine # Unlatched, EndsAt(startLine, line)
      PROVE  ~Opens(l) /\ Overrun(command, startLine, ViewAt(l))
  <2>1. startLine \in Nat
    BY <1>1, <1>6
  <2>2. Overrun(command, startLine, ViewAt(l))
    BY <1>2, <1>3, <1>4, <1>6, <2>1, EndsAtKinds DEF Overrun
  <2>3. command.a1.kind \in {"line", "last"}
    BY <1>1, <1>6, CommandsAssumption DEF TypeOK
  <2>4. ~(startLine = 0 /\ ResetStart(command) = 0)
    BY <1>1, <1>6, CommandsAssumption DEF TypeOK, ResetStart, Unlatched
  <2>5. startLine \in tested /\ Opens(startLine)
    BY <1>6, <2>4 DEF LatchHasOpener, Opened
  <2>6. ViewAt(startLine).line = startLine /\ ViewAt(startLine).last = (startLine = Lines)
    BY DEF ViewAt
  <2>7. CASE command.a1.kind = "line"
    <3>1. startLine = command.a1.n
      BY <2>5, <2>6, <2>7 DEF Opens, MatchAddress
    <3>2. QED
      BY <1>1, <1>2, <1>3, <2>2, <2>7, <3>1 DEF Opens, MatchAddress
  <2>8. CASE command.a1.kind = "last"
    <3>1. startLine = Lines
      BY <2>5, <2>6, <2>8 DEF Opens, MatchAddress
    <3>2. QED
      BY <1>1, <3>1
  <2>9. QED
    BY <2>3, <2>7, <2>8
<1>7. EndsAt(l, l) <=> OneLineRange(command, ViewAt(l))
  BY <1>1, <1>2, <1>3, <1>4, EndsAtKinds, KindOfEnd DEF OneLineRange
<1>8. QED
  BY <1>5, <1>6, <1>7

LEMMA TestFollows ==
  ASSUME RangeTyped, LatchHasOpener, ~EndedByNumber, LatchFollows, Test
  PROVE  LatchFollows'
<1> DEFINE s == RangeOf[line]
           l == line + 1
           v == ViewAt(l)
<1>1. /\ line' = l /\ line < Lines /\ UNCHANGED <<command, stream>>
      /\ startLine' = StartAfter(command, startLine, v)
  BY DEF Test, ViewAt
<1>2. IsRange(command) /\ v.line = l
  BY CommandFacts DEF RangeTyped, ViewAt
<1>3. line \in Nat /\ l \in Nat /\ l > 0 /\ l # Unlatched
  BY LinesAssumption DEF RangeTyped, TypeOK, Unlatched
<1>4. RangeOf' = RangeOf /\ EndedByNumber' = EndedByNumber
      /\ \A k, m : EndsAt(k, m)' = EndsAt(k, m)
  BY <1>1, RangeOfKept DEF EndedByNumber
<1> DEFINE w == RangeOf[l]
           Goes == w # Unlatched /\ ~\E k \in w .. l : k > 0 /\ EndsAt(w, k)
           after == StartAfter(command, startLine, v)
           Late == /\ command.a1.kind # "re" /\ command.a2.kind \in {"line", "rel"}
                   /\ after # Unlatched /\ EndsAt(after, l)
<1>5. IF Goes THEN after = w ELSE after = Unlatched \/ Late
  <2>1. CASE IsCurrent(s)
    <3>1. startLine = s /\ s # Unlatched
      BY <2>1 DEF LatchFollows, IsCurrent
    <3>2. /\ w = s /\ ~Overrun(command, s, v)
          /\ EndsHere(command, v) => EndsAt(s, l)
          /\ EndsAt(s, l) => EndsHere(command, v) \/ command.a1.kind # "re"
          /\ EndsAt(s, l) => EndsHere(command, v) \/ command.a2.kind \in {"line", "rel"}
      BY <1>1, <2>1, <3>1, TestInside
    <3>3. after = IF EndsHere(command, v) THEN Unlatched ELSE s
      BY <1>2, <3>1, <3>2 DEF StartAfter
    <3>4. Goes <=> ~EndsAt(s, l)
      <4>1. s \in Nat /\ s <= line
        BY <3>1, LinesAssumption DEF RangeTyped, TypeOK
      <4>2. ~\E k \in s .. line : k > 0 /\ EndsAt(s, k)
        BY <2>1 DEF IsCurrent
      <4>3. s .. l = (s .. line) \cup {l}
        BY <1>3, <4>1
      <4>4. QED
        BY <1>3, <3>1, <3>2, <4>2, <4>3
    <3>5. QED
      BY <3>1, <3>2, <3>3, <3>4
  <2>2. CASE ~IsCurrent(s)
    <3>1. /\ w = IF Opens(l) THEN l ELSE Unlatched
          /\ command.a1.kind # "re" /\ command.a2.kind \in {"line", "rel"}
               /\ startLine # Unlatched /\ EndsAt(startLine, line)
               => ~Opens(l) /\ Overrun(command, startLine, v)
          /\ Opens(l) => (EndsAt(l, l) <=> OneLineRange(command, v))
      BY <1>1, <2>2, TestOutside
    <3>2. CASE startLine # Unlatched
      <4>1. ~Opens(l) /\ Overrun(command, startLine, v)
        BY <2>2, <3>1, <3>2 DEF LatchFollows
      <4>2. after = Unlatched
        BY <1>2, <3>2, <4>1 DEF StartAfter
      <4>3. QED
        BY <3>1, <4>1, <4>2
    <3>3. CASE startLine = Unlatched
      <4>1. after = IF Opens(l) /\ ~OneLineRange(command, v) THEN l ELSE Unlatched
        BY <1>2, <3>3 DEF StartAfter, Opens
      <4>2. Opens(l) => (Goes <=> ~EndsAt(l, l))
        BY <1>3, <3>1
      <4>3. ~Opens(l) => ~Goes
        BY <3>1
      <4>4. QED
        BY <3>1, <4>1, <4>2, <4>3
    <3>4. QED
      BY <3>2, <3>3
  <2>3. QED
    BY <2>1, <2>2
<1>6. LatchFollows' <=> IF Goes THEN after = w ELSE after = Unlatched \/ Late
  BY <1>1, <1>4 DEF LatchFollows, IsCurrent
<1>7. QED
  BY <1>5, <1>6

LEMMA SelectionFollows ==
  ASSUME RangeTyped, LatchHasOpener, ~EndedByNumber, LatchFollows, selected = Covered, Test
  PROVE  selected' = Covered'
<1> DEFINE s == RangeOf[line]
           l == line + 1
           v == ViewAt(l)
           w == RangeOf[l]
           Within(k) == /\ RangeOf[k] # Unlatched
                        /\ command.a2.kind = "stepmatch" =>
                             IsMultipleOf(k - RangeOf[k], command.a2.n)
<1>1. /\ line' = l /\ line < Lines /\ UNCHANGED <<command, stream>>
      /\ selected' = IF Applies(command, startLine, v) THEN selected \cup {l} ELSE selected
  BY DEF Test, ViewAt
<1>2. IsRange(command) /\ v.line = l /\ command.neg = FALSE /\ command.a1.kind # "none"
      /\ command.a2.n \in Nat
  BY CommandFacts DEF RangeTyped, ViewAt
<1>3. line \in Nat /\ l \in Nat /\ l > 0 /\ l # Unlatched
  BY LinesAssumption DEF RangeTyped, TypeOK, Unlatched
<1>4. Covered = {k \in 1 .. line : Within(k)} /\ Covered' = {k \in 1 .. l : Within(k)}
  BY <1>1, RangeOfKept DEF Covered
<1>5. InAddress(command, startLine, v) <=> Within(l)
  <2>1. CASE IsCurrent(s)
    <3>1. startLine = s /\ s # Unlatched
      BY <2>1 DEF LatchFollows, IsCurrent
    <3>2. w = s /\ ~Overrun(command, s, v)
      BY <1>1, <2>1, <3>1, TestInside
    <3>3. QED
      BY <1>2, <3>1, <3>2 DEF InAddress
  <2>2. CASE ~IsCurrent(s)
    <3>1. /\ w = IF Opens(l) THEN l ELSE Unlatched
          /\ command.a1.kind # "re" /\ command.a2.kind \in {"line", "rel"}
               /\ startLine # Unlatched /\ EndsAt(startLine, line)
               => ~Opens(l) /\ Overrun(command, startLine, v)
      BY <1>1, <2>2, TestOutside
    <3>2. CASE startLine # Unlatched
      <4>1. ~Opens(l) /\ Overrun(command, startLine, v)
        BY <2>2, <3>1, <3>2 DEF LatchFollows
      <4>2. QED
        BY <1>2, <3>1, <3>2, <4>1 DEF InAddress
    <3>3. CASE startLine = Unlatched
      <4>1. InAddress(command, startLine, v) <=> Opens(l)
        BY <1>2, <3>3 DEF InAddress, Opens
      <4>2. Opens(l) => w = l /\ IsMultipleOf(l - l, command.a2.n)
        BY <1>2, <1>3, <3>1 DEF IsMultipleOf
      <4>3. QED
        BY <1>3, <3>1, <4>1, <4>2
    <3>4. QED
      BY <3>2, <3>3
  <2>3. QED
    BY <2>1, <2>2
<1>6. InAddress(command, startLine, v) \in BOOLEAN
  BY DEF InAddress, MatchAddress
<1>7. Applies(command, startLine, v) <=> Within(l)
  BY <1>2, <1>5, <1>6 DEF Applies
<1> HIDE DEF Within
<1>8. {k \in 1 .. l : Within(k)} =
         IF Within(l) THEN {k \in 1 .. line : Within(k)} \cup {l}
         ELSE {k \in 1 .. line : Within(k)}
  <2>1. 1 .. l = (1 .. line) \cup {l}
    BY <1>3
  <2>2. QED
    BY <2>1
<1>9. QED
  BY <1>1, <1>4, <1>7, <1>8

LEMMA StepFollows ==
  ASSUME RangeTyped, LatchHasOpener, ~EndedByNumber => Follows, [Next]_vars
  PROVE  (~EndedByNumber => Follows)'
<1> SUFFICES ASSUME ~EndedByNumber', tested' = (1 .. line)'
             PROVE  LatchFollows' /\ selected' = Covered'
  BY DEF Follows
<1>1. command' = command /\ stream' = stream
  BY DEF Next, Test, PassBy, Done, vars
<1>2. ~EndedByNumber
  BY <1>1 DEF EndedByNumber
<1>3. line \in Nat /\ tested \subseteq 1 .. line
  BY LinesAssumption DEF RangeTyped, TypeOK
<1>4. CASE Test
  <2>1. tested = 1 .. line
    <3>1. line' = line + 1 /\ tested' = tested \cup {line + 1}
      BY <1>4 DEF Test
    <3>2. 1 .. line \subseteq tested' /\ line + 1 \notin 1 .. line
      BY <1>3, <3>1
    <3>3. QED
      BY <1>3, <3>1, <3>2
  <2>2. LatchFollows /\ selected = Covered
    BY <1>2, <2>1 DEF Follows
  <2>3. QED
    BY <1>2, <1>4, <2>2, TestFollows, SelectionFollows
<1>5. CASE PassBy
  <2>1. line' = line + 1 /\ tested' = tested /\ line + 1 \in 1 .. line'
    BY <1>3, <1>5 DEF PassBy
  <2>2. QED
    BY <1>3, <2>1
<1>6. CASE UNCHANGED vars
  <2>1. line' = line /\ tested' = tested /\ startLine' = startLine /\ selected' = selected
    BY <1>6 DEF vars
  <2>2. LatchFollows /\ selected = Covered
    BY <1>2, <2>1 DEF Follows
  <2>3. RangeOf' = RangeOf /\ \A k, m : EndsAt(k, m)' = EndsAt(k, m)
    BY <1>1, RangeOfKept
  <2>4. QED
    BY <1>1, <2>1, <2>2, <2>3 DEF LatchFollows, IsCurrent, Covered
<1>7. QED
  BY <1>4, <1>5, <1>6 DEF Next, Done

\* For every stream and every range, except one that a regular expression opens
\* and a number ends: a command that applies tests on every line is selected for
\* the lines of its ranges, all of them and no other.
THEOREM RangesExact == Spec => []SelectsMatchEndedRanges
<1>1. Init => (~EndedByNumber => Follows)
  BY InitFollows
<1>2. RangeTyped /\ LatchHasOpener /\ (~EndedByNumber => Follows) /\ [Next]_vars
        => (~EndedByNumber => Follows)'
  BY StepFollows
<1>3. (~EndedByNumber => Follows) => SelectsMatchEndedRanges
  BY DEF Follows, SelectsMatchEndedRanges, SelectsItsRanges
<1>4. Spec => []RangeTyped
  BY InitTyped, StepTyped, PTL DEF Spec
<1>5. QED
  BY <1>1, <1>2, <1>3, <1>4, OpenerKnown, PTL DEF Spec
=============================================================================
