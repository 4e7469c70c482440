-------------------------- MODULE ProcessorSafety ---------------------------
(***************************************************************************)
(* The safety of Processor, for every set of lines, scripts and inputs.    *)
(* Each invariant is proved from the type invariant and a strengthening of *)
(* its own.                                                                *)
(***************************************************************************)
EXTENDS ProcessorProofs, NatInduction, SequenceTheorems

-----------------------------------------------------------------------------
(* What all commands have in common, and all other actions.                *)

\* A command reads nothing; it stays in the script, fails, or is an N, which
\* has written what was queued; stop is set at the end of the script only.
LEMMA ExecutionFrame ==
  ASSUME Execution
  PROVE  /\ pc = "exec" /\ cur # 0
         /\ UNCHANGED inputVars
         /\ Latch \/ UNCHANGED rangeVars
         /\ \/ pc' \in {"exec", "failed"} /\ UNCHANGED inputAction
            \/ pc' = "read" /\ appends' = <<>>
         /\ UNCHANGED stop \/ (pc' = "exec" /\ cur' = 0)
         /\ quiet => quiet'
<1> USE DEF Selected, Executing, Continue, EndScript, Jump, modeVars, rangeVars
<1>1. ASSUME Skip \/ RegexError \/ Enter \/ Label \/ Queue \/ Change \/ Delete
             \/ DeleteFirst \/ Write \/ Execute
      PROVE  /\ pc = "exec" /\ cur # 0 /\ UNCHANGED inputVars /\ (Latch \/ UNCHANGED rangeVars)
             /\ pc' \in {"exec", "failed"} /\ UNCHANGED <<inputAction, stop, quiet>>
  BY <1>1 DEF Skip, RegexError, Enter, Label, Queue, Change, Delete, DeleteFirst, Write, Execute
<1>2. ASSUME Get \/ GetAppend \/ Hold \/ HoldAppend \/ Exchange \/ NextLine \/ PrintPattern
             \/ PrintFirst \/ WriteFile \/ Substitute \/ BranchIf \/ Transliterate \/ Zap
      PROVE  /\ pc = "exec" /\ cur # 0 /\ UNCHANGED inputVars /\ Latch
             /\ pc' = "exec" /\ UNCHANGED <<inputAction, stop, quiet>>
  BY <1>2 DEF Get, GetAppend, Hold, HoldAppend, Exchange, NextLine, PrintPattern, PrintFirst,
              WriteFile, Substitute, BranchIf, Transliterate, Zap
<1>3. ASSUME AppendNext
      PROVE  /\ pc = "exec" /\ cur # 0 /\ UNCHANGED inputVars /\ Latch
             /\ pc' = "read" /\ appends' = <<>> /\ UNCHANGED <<stop, quiet>>
  BY <1>3 DEF AppendNext
<1>4. ASSUME Quit
      PROVE  /\ pc = "exec" /\ cur # 0 /\ UNCHANGED inputVars /\ Latch
             /\ pc' = "exec" /\ cur' = 0 /\ UNCHANGED inputAction /\ (quiet => quiet')
  BY <1>4 DEF Quit
<1>5. QED
  BY <1>1, <1>2, <1>3, <1>4 DEF Execution

-----------------------------------------------------------------------------
(* Active ranges.                                                          *)

LEMMA InitLatch == Init => LatchNotAhead
<1> SUFFICES ASSUME Init PROVE LatchNotAhead
  OBVIOUS
<1>1. lineNumber = 0 /\ \A i \in DOMAIN startLine : startLine[i] = Unlatched
  BY DEF Init
<1>2. QED
  BY <1>1 DEF LatchNotAhead, Unlatched

LEMMA StepLatch ==
  ASSUME Typed, LatchNotAhead, [Next]_vars
  PROVE  LatchNotAhead'
<1> USE DEF Unlatched
<1>0. /\ lineNumber \in Nat
      /\ startLine \in [1 .. Len(Prog) -> Nat \cup {Unlatched}]
      /\ DOMAIN startLine = 1 .. Len(Prog)
  BY DEF Typed, TypeOK
<1>1. ASSUME Execution PROVE LatchNotAhead'
  <2>1. UNCHANGED lineNumber /\ cur # 0 /\ (Latch \/ UNCHANGED startLine)
    BY <1>1, ExecutionFrame DEF inputVars, rangeVars
  <2>2. CASE Latch
    <3>1. /\ DOMAIN startLine' = 1 .. Len(Prog)
          /\ \A i \in 1 .. Len(Prog) : startLine'[i] \in {startLine[i], Unlatched, lineNumber}
      BY <2>1, <2>2, LatchMoves
    <3>2. QED
      BY <1>0, <2>1, <3>1 DEF LatchNotAhead
  <2>3. QED
    BY <2>1, <2>2 DEF LatchNotAhead
<1>2. ASSUME OpenFile PROVE LatchNotAhead'
  <2>1. \/ UNCHANGED <<lineNumber, startLine>>
        \/ lineNumber' = 0 /\ startLine' = [i \in DOMAIN Prog |-> ResetStart(Prog[i])]
    BY <1>2 DEF OpenFile, ResetLatches
  <2>2. \A i \in DOMAIN Prog : ResetStart(Prog[i]) \in {0, Unlatched}
    BY DEF ResetStart
  <2>3. QED
    BY <2>1, <2>2 DEF LatchNotAhead
<1>3. ASSUME ReadLine PROVE LatchNotAhead'
  <2>1. lineNumber' = lineNumber + 1 /\ UNCHANGED startLine
    BY <1>3 DEF ReadLine, rangeVars
  <2>2. QED
    BY <1>0, <2>1 DEF LatchNotAhead
<1>4. ASSUME OpenError \/ ReadAtZero \/ EndOfFile \/ CloseFile \/ EndCycle \/ UNCHANGED vars
      PROVE  LatchNotAhead'
  <2>1. UNCHANGED <<lineNumber, startLine>>
    BY <1>4 DEF OpenError, ReadAtZero, EndOfFile, CloseFile, EndCycle, vars, inputVars, rangeVars
  <2>2. QED
    BY <2>1 DEF LatchNotAhead
<1>5. QED
  BY <1>1, <1>2, <1>3, <1>4 DEF Next, Files, Terminated

\* Whatever the script and the files, the first line of an active range is
\* never ahead of the current one: the unsigned subtraction of applies does
\* not underflow, although -s starts counting the lines again.
THEOREM LatchBehind == Spec => []LatchNotAhead
BY InitTyped, StepTyped, InitLatch, StepLatch, PTL DEF Spec

-----------------------------------------------------------------------------
(* What a and r queue.                                                     *)

\* Nothing is queued but while commands are executed, or after a failure.
QueuedInCycle == pc \notin {"exec", "failed"} => appends = <<>>

LEMMA StepQueued ==
  ASSUME QueuedInCycle, [Next]_vars
  PROVE  QueuedInCycle'
<1>1. ASSUME Execution PROVE QueuedInCycle'
  BY <1>1, ExecutionFrame DEF QueuedInCycle
<1>2. ASSUME Files \/ UNCHANGED vars PROVE QueuedInCycle'
  BY <1>2 DEF QueuedInCycle, Files, OpenFile, OpenError, ReadAtZero, ReadLine, EndOfFile,
              CloseFile, EndCycle, AfterCycle, vars
<1>3. QED
  BY <1>1, <1>2 DEF Next, Terminated

\* A line is read, a file opened, and the program ended, only when nothing
\* that a or r queued is waiting to be written: N and the end of the cycle,
\* the only ways out of the script, both write it first.
THEOREM AppendsFlushed == Spec => []AppendsFlushedBeforeRead
<1>1. Init => QueuedInCycle
  BY DEF Init, QueuedInCycle
<1>2. QueuedInCycle => AppendsFlushedBeforeRead
  BY DEF QueuedInCycle, AppendsFlushedBeforeRead
<1>3. QED
  BY <1>1, <1>2, StepQueued, PTL DEF Spec

-----------------------------------------------------------------------------
(* Counting lines.                                                         *)

\* The two ways of counting: by file, from its opening on, and through all
\* files, where only the first one is opened with the count at zero.
LinesCounted ==
  /\ job.separate => (pc \in {"zero", "read", "exec", "close"} => lineNumber = pos)
  /\ ~job.separate => lineNumber = Len(consumed)
  /\ pc = "open" /\ file = 1 => consumed = <<>>

LEMMA StepCounted ==
  ASSUME Typed, LinesCounted, [Next]_vars
  PROVE  LinesCounted'
<1>0. pos \in Nat /\ lineNumber \in Nat /\ consumed \in Seq(Seg) /\ file \in Nat /\ file >= 1
  BY FileFacts DEF Typed, TypeOK
<1>1. ASSUME Execution PROVE LinesCounted'
  BY <1>1, ExecutionFrame DEF LinesCounted, inputVars
<1>2. ASSUME OpenFile PROVE LinesCounted'
  BY <1>0, <1>2 DEF OpenFile, StartsStream, LinesCounted
<1>3. ASSUME ReadLine PROVE LinesCounted'
  <2>1. /\ pc = "read" /\ pc' = "exec" /\ pos' = pos + 1 /\ lineNumber' = lineNumber + 1
        /\ consumed' = Append(consumed, Lines[pos + 1]) /\ UNCHANGED <<job, file>>
        /\ Lines[pos + 1] \in Seg
    BY <1>3, FileFacts DEF ReadLine
  <2>2. Len(consumed') = Len(consumed) + 1
    BY <1>0, <2>1
  <2>3. QED
    BY <2>1, <2>2 DEF LinesCounted
<1>4. ASSUME CloseFile PROVE LinesCounted'
  BY <1>0, <1>4 DEF CloseFile, LinesCounted
<1>5. ASSUME OpenError \/ ReadAtZero \/ EndOfFile \/ EndCycle \/ UNCHANGED vars
      PROVE  LinesCounted'
  BY <1>5 DEF OpenError, ReadAtZero, EndOfFile, EndCycle, AfterCycle, vars, inputVars, LinesCounted
<1>6. QED
  BY <1>1, <1>2, <1>3, <1>4, <1>5 DEF Next, Files, Terminated

\* The line number that addresses are compared with is the number of lines
\* read from the stream, whether a new cycle or an N read them.
THEOREM CountingCorrect == Spec => []LineNumberCountsStream
<1>1. Init => LinesCounted
  <2>1. ASSUME Init PROVE lineNumber = 0 /\ consumed = <<>> /\ pc = "open"
    BY <2>1 DEF Init
  <2>2. QED
    BY <2>1 DEF LinesCounted
<1>2. LinesCounted => LineNumberCountsStream
  BY DEF LinesCounted, LineNumberCountsStream
<1>3. QED
  BY <1>1, <1>2, InitTyped, StepTyped, StepCounted, PTL DEF Spec

-----------------------------------------------------------------------------
(* q and Q.                                                                *)

\* Once the program is to stop it can only end its cycle and close the file.
Stopping ==
  stop => pc \in {"close", "done", "failed"} \/ (pc = "exec" /\ cur = 0)

LEMMA StepStopping ==
  ASSUME Stopping, [Next]_vars
  PROVE  Stopping' /\ (stop => UNCHANGED <<consumed, file, pos>>)
<1>1. ASSUME Execution PROVE Stopping' /\ (stop => UNCHANGED <<consumed, file, pos>>)
  BY <1>1, ExecutionFrame DEF Stopping, inputVars
<1>2. ASSUME OpenFile \/ OpenError \/ ReadAtZero \/ ReadLine \/ EndOfFile
      PROVE  Stopping' /\ (stop => UNCHANGED <<consumed, file, pos>>)
  <2>1. pc \in {"open", "zero", "read"} /\ UNCHANGED stop
    BY <1>2 DEF OpenFile, OpenError, ReadAtZero, ReadLine, EndOfFile, modeVars
  <2>2. QED
    BY <2>1 DEF Stopping
<1>3. ASSUME CloseFile PROVE Stopping' /\ (stop => UNCHANGED <<consumed, file, pos>>)
  <2>1. UNCHANGED <<stop, consumed, pos>> /\ (stop => pc' = "done" /\ UNCHANGED file)
    BY <1>3 DEF CloseFile, modeVars
  <2>2. QED
    BY <2>1 DEF Stopping
<1>4. ASSUME EndCycle PROVE Stopping' /\ (stop => UNCHANGED <<consumed, file, pos>>)
  <2>1. UNCHANGED <<stop, consumed, pos, file>> /\ (stop => pc' = "close")
    BY <1>4 DEF EndCycle, AfterCycle, modeVars, inputVars
  <2>2. QED
    BY <2>1 DEF Stopping
<1>5. ASSUME UNCHANGED vars PROVE Stopping' /\ (stop => UNCHANGED <<consumed, file, pos>>)
  BY <1>5 DEF Stopping, vars, inputVars, modeVars
<1>6. QED
  BY <1>1, <1>2, <1>3, <1>4, <1>5 DEF Next, Files, Terminated

\* After q or Q nothing more is read, from this file or the next.
THEOREM QuitCorrect == Spec => NothingReadAfterQuit
<1>1. Init => Stopping
  BY DEF Init, Stopping
<1>2. Stopping /\ [Next]_vars => Stopping' /\ [stop => UNCHANGED <<consumed, file, pos>>]_vars
  BY StepStopping
<1>3. QED
  BY <1>1, <1>2, PTL DEF Spec, NothingReadAfterQuit

-----------------------------------------------------------------------------
(* Separate files.                                                         *)

\* What the opening of a file under -s resets, and what the closing of the
\* one before it has dealt with.
Separated ==
  job.separate =>
    /\ pc = "zero" => /\ lineNumber = 0 /\ hold = NewHold
                      /\ \A i \in DOMAIN Prog : startLine[i] = ResetStart(Prog[i])
    /\ pc \in {"open", "zero"} /\ ~quiet => ~inputAction.pending

LEMMA StepSeparated ==
  ASSUME Separated, [Next]_vars
  PROVE  Separated'
<1>1. ASSUME Execution PROVE Separated'
  <2>1. pc' \notin {"open", "zero"}
    BY <1>1, ExecutionFrame
  <2>2. QED
    BY <2>1 DEF Separated
<1>2. ASSUME OpenFile PROVE Separated'
  <2>1. /\ pc = "open" /\ pc' = "zero" /\ UNCHANGED <<job, quiet, inputAction>>
        /\ job.separate => /\ lineNumber' = 0 /\ hold' = NewHold
                           /\ startLine' = [i \in DOMAIN Prog |-> ResetStart(Prog[i])]
    BY <1>2 DEF OpenFile, StartsStream, ResetLatches, modeVars
  <2>2. Prog' = Prog
    BY <2>1 DEF Prog
  <2>3. job.separate => /\ lineNumber' = 0 /\ hold' = NewHold
                        /\ \A i \in DOMAIN Prog : startLine'[i] = ResetStart(Prog[i])
    BY <2>1
  <2>4. job.separate /\ ~quiet => ~inputAction.pending
    BY <2>1 DEF Separated
  <2>5. (\A i \in DOMAIN Prog : startLine[i] = ResetStart(Prog[i]))'
          <=> \A i \in DOMAIN Prog : startLine'[i] = ResetStart(Prog[i])
    BY <2>2 DEF ResetStart, IsRange
  <2>6. QED
    BY <2>1, <2>3, <2>4, <2>5 DEF Separated, NewHold
<1>3. ASSUME ReadAtZero \/ UNCHANGED vars PROVE Separated'
  <2>1. /\ UNCHANGED <<job, lineNumber, hold, startLine, quiet, inputAction>>
        /\ pc' = pc \/ pc' = "read"
    BY <1>3 DEF ReadAtZero, vars, inputVars, spaceVars, rangeVars, modeVars
  <2>2. QED
    BY <2>1 DEF Separated, Prog
<1>4. ASSUME CloseFile PROVE Separated'
  <2>1. pc' # "zero" /\ UNCHANGED <<job, quiet>>
    BY <1>4 DEF CloseFile, modeVars
  <2>2. job.separate /\ ~quiet => ~inputAction'.pending
    <3>1. CASE PrintsPending
      <4>1. inputAction' = NoAction
        BY <1>4, <3>1 DEF CloseFile
      <4>2. QED
        BY <4>1 DEF NoAction
    <3>2. CASE ~PrintsPending
      <4>1. UNCHANGED inputAction
        BY <1>4, <3>2 DEF CloseFile
      <4>2. job.separate /\ ~quiet => ~inputAction.pending
        BY <3>2 DEF PrintsPending
      <4>3. QED
        BY <4>1, <4>2
    <3>3. QED
      BY <3>1, <3>2
  <2>3. QED
    BY <2>1, <2>2 DEF Separated
<1>5. ASSUME OpenError \/ ReadLine \/ EndOfFile \/ EndCycle PROVE Separated'
  <2>1. pc' \notin {"open", "zero"}
    BY <1>5 DEF OpenError, ReadLine, EndOfFile, EndCycle, AfterCycle
  <2>2. QED
    BY <2>1 DEF Separated
<1>6. QED
  BY <1>1, <1>2, <1>3, <1>4, <1>5 DEF Next, Files, Terminated

\* With -s and automatic printing, hold space, ranges, line count, queue and N of
\* a file are never those of the one before; last_address and the saved regular
\* expression, which the code keeps, are not of this statement.
THEOREM SeparateFiles == Spec => []FreshStreamUnlessQuiet
<1>1. Init => Separated /\ QueuedInCycle
  BY DEF Init, Separated, QueuedInCycle, NoAction
<1>2. Separated /\ QueuedInCycle => FreshStreamUnlessQuiet
  BY DEF Separated, QueuedInCycle, FreshStreamUnlessQuiet, StartsAfresh
<1>3. QED
  BY <1>1, <1>2, StepSeparated, StepQueued, PTL DEF Spec

-----------------------------------------------------------------------------
(* Automatic printing.                                                     *)

Faithful == \A i \in DOMAIN Prog : Prog[i].code \in Preserving

\* NoLineLost with what carries it from one step to the next: no N waits
\* while commands are executed, so that what is in flight is the pattern
\* space, or once the program is to stop, so that nothing is in flight at its
\* end; and the pattern space is not one that writing would drop.
LinesCarried ==
  /\ pc = "exec" \/ stop => ~inputAction.pending
  /\ Faithful /\ ~quiet /\ pc # "failed" =>
       /\ autoLines \o InFlight = consumed
       /\ pc = "exec" => pattern # Blank

\* A preserving command hands the pattern space on as it is, to the next
\* command or, if it is N, to the reading of the next line.
LEMMA PreservingFrame ==
  ASSUME Execution, Cmd.code \in Preserving
  PROVE  \/ pc' = "failed"
         \/ UNCHANGED <<pattern, autoLines>>
            /\ \/ pc' = "exec" /\ UNCHANGED inputAction
               \/ pc' = "read" /\ inputAction' = Pending(pattern)
<1> USE DEF Selected, Executing, Continue, EndScript, Jump, spaceVars, modeVars
<1>1. ASSUME Skip \/ RegexError \/ Enter \/ Label \/ Queue \/ Write \/ Hold \/ HoldAppend
             \/ NextLine \/ PrintPattern \/ PrintFirst \/ WriteFile \/ Quit \/ BranchIf
      PROVE  \/ pc' = "failed"
             \/ UNCHANGED <<pattern, autoLines>> /\ pc' = "exec" /\ UNCHANGED inputAction
  BY <1>1 DEF Skip, RegexError, Enter, Label, Queue, Write, Hold, HoldAppend, NextLine,
              PrintPattern, PrintFirst, WriteFile, Quit, BranchIf
<1>2. ASSUME AppendNext
      PROVE  UNCHANGED <<pattern, autoLines>> /\ pc' = "read" /\ inputAction' = Pending(pattern)
  BY <1>2 DEF AppendNext
<1>3. ~(Change \/ Delete \/ DeleteFirst \/ Execute \/ Get \/ GetAppend \/ Exchange
        \/ Substitute \/ Transliterate \/ Zap)
  <2>1. Cmd.code \notin {"c", "d", "D", "e", "g", "G", "x", "s", "y", "z"}
    BY DEF Preserving
  <2>2. QED
    BY <2>1 DEF Change, Delete, DeleteFirst, Execute, Get, GetAppend, Exchange, Substitute,
                Transliterate, Zap
<1>4. QED
  BY <1>1, <1>2, <1>3 DEF Execution

\* The line read is the last one without a newline only if it is not empty.
LEMMA ReadNotBlank ==
  ASSUME Typed, ReadLine
  PROVE  pattern' # Blank
<1> DEFINE line == Lines[pos + 1]
           nl   == pos + 1 < Len(Lines) \/ job.files[file].nl
           read == IF inputAction.pending THEN inputAction.prepend \o <<line>> ELSE <<line>>
<1>1. pattern' = [content |-> read, nl |-> nl] /\ pos < Len(Lines)
  BY DEF ReadLine
<1>2. /\ pos \in Nat /\ Len(Lines) \in Nat /\ line \in Seg
      /\ inputAction.prepend \in Seq(Seg) /\ Len(inputAction.prepend) > 0
  <2>1. inputAction.prepend \in Content
    BY DEF Typed, TypeOK
  <2>2. inputAction.prepend \in Seq(Seg) /\ Len(inputAction.prepend) > 0
    BY <2>1 DEF Content
  <2>3. QED
    BY <1>1, <2>2, FileFacts DEF Typed, TypeOK
<1>3. CASE nl
  BY <1>1, <1>3 DEF Blank
<1>4. CASE ~nl
  <2>1. pos + 1 = Len(Lines) /\ ~job.files[file].nl
    BY <1>1, <1>2, <1>4
  <2>2. job.files \in Inputs /\ file \in DOMAIN job.files
    BY InputsAssumption DEF Typed, JobOK, TypeOK
  <2>3. line # Empty
    BY <2>1, <2>2, InputsAssumption DEF Lines
  <2>4. read # <<Empty>>
    <3>1. CASE inputAction.pending
      <4>1. Len(read) > 1
        BY <1>2, <3>1
      <4>2. QED
        BY <4>1
    <3>2. CASE ~inputAction.pending
      BY <2>3, <3>2
    <3>3. QED
      BY <3>1, <3>2
  <2>5. QED
    BY <1>1, <2>4 DEF Blank
<1>5. QED
  BY <1>3, <1>4

LEMMA Associative ==
  ASSUME NEW x \in Seq(Seg), NEW y \in Seq(Seg), NEW z \in Seq(Seg)
  PROVE  (x \o y) \o z = x \o (y \o z)
BY ConcatAssociative

LEMMA StepCarried ==
  ASSUME Typed, Stopping, LinesCarried, [Next]_vars
  PROVE  LinesCarried'
<1>0. /\ autoLines \in Seq(Seg) /\ consumed \in Seq(Seg)
      /\ pattern.content \in Seq(Seg) /\ inputAction.prepend \in Seq(Seg)
  BY DEF Typed, TypeOK, Space, Content
<1>1. ASSUME Execution PROVE LinesCarried'
  <2>1. /\ pc = "exec" /\ cur # 0 /\ UNCHANGED <<job, consumed>> /\ (quiet => quiet')
        /\ (pc' \in {"exec", "failed"} /\ UNCHANGED inputAction) \/ pc' = "read"
        /\ UNCHANGED stop \/ pc' = "exec"
    BY <1>1, ExecutionFrame DEF inputVars
  <2>2. pc' = "exec" \/ stop' => ~inputAction'.pending
    <3>1. ~stop /\ ~inputAction.pending
      BY <2>1 DEF LinesCarried, Stopping
    <3>2. QED
      BY <2>1, <3>1
  <2>3. ASSUME Faithful', ~quiet', pc' # "failed"
        PROVE  autoLines' \o InFlight' = consumed' /\ (pc' = "exec" => pattern' # Blank)
    <3>1. Faithful /\ ~quiet
      BY <2>1, <2>3 DEF Faithful, Prog
    <3>2. autoLines \o pattern.content = consumed /\ pattern # Blank
      BY <2>1, <3>1 DEF LinesCarried, InFlight
    <3>3. Cmd.code \in Preserving
      <4>1. cur \in 1 .. Len(Prog) /\ DOMAIN Prog = 1 .. Len(Prog)
        BY <2>1, CommandFacts, ScriptsAssumption DEF Typed, JobOK, Prog
      <4>2. QED
        BY <3>1, <4>1 DEF Faithful, Cmd
    <3>4. /\ UNCHANGED <<pattern, autoLines>>
          /\ pc' = "exec" \/ (pc' = "read" /\ inputAction' = Pending(pattern))
      BY <1>1, <2>3, <3>3, PreservingFrame
    <3>5. InFlight' = pattern.content
      BY <3>4 DEF InFlight, Pending
    <3>6. QED
      BY <2>1, <3>2, <3>4, <3>5 DEF Blank
  <2>4. QED
    BY <2>2, <2>3 DEF LinesCarried
<1>2. ASSUME ReadLine PROVE LinesCarried'
  <2> DEFINE line == Lines[pos + 1]
             read == IF inputAction.pending THEN inputAction.prepend \o <<line>> ELSE <<line>>
  <2>1. /\ pc = "read" /\ pc' = "exec" /\ inputAction' = NoAction /\ pattern'.content = read
        /\ consumed' = Append(consumed, line) /\ UNCHANGED <<job, quiet, autoLines>>
        /\ line \in Seg
    BY <1>2, FileFacts DEF ReadLine
  <2>2. ~inputAction'.pending /\ InFlight' = read
    BY <2>1 DEF NoAction, InFlight
  <2>3. ASSUME Faithful', ~quiet' PROVE autoLines' \o InFlight' = consumed'
    <3>1. Faithful /\ ~quiet
      BY <2>1, <2>3 DEF Faithful, Prog
    <3>2. autoLines \o InFlight = consumed
      BY <2>1, <3>1 DEF LinesCarried
    <3>3. consumed' = consumed \o <<line>>
      BY <1>0, <2>1, AppendIsConcat
    <3>4. CASE inputAction.pending
      <4>1. InFlight = inputAction.prepend
        BY <2>1, <3>4 DEF InFlight
      <4>2. (autoLines \o inputAction.prepend) \o <<line>> = autoLines \o (inputAction.prepend \o <<line>>)
        <5>1. <<line>> \in Seq(Seg)
          BY <2>1
        <5>2. QED
          BY <1>0, <5>1, Associative
      <4>3. InFlight' = inputAction.prepend \o <<line>>
        BY <2>2, <3>4
      <4>4. consumed' = (autoLines \o inputAction.prepend) \o <<line>>
        BY <3>2, <3>3, <4>1, Zenon
      <4>5. autoLines' = autoLines
        BY <2>1
      <4>6. QED
        BY <4>2, <4>3, <4>4, <4>5, Zenon
    <3>5. CASE ~inputAction.pending
      <4>1. InFlight = <<>>
        BY <2>1, <3>5 DEF InFlight
      <4>2. autoLines = consumed
        <5>1. autoLines \o <<>> = autoLines
          BY <1>0, ConcatEmptySeq
        <5>2. QED
          BY <3>2, <4>1, <5>1
      <4>3. QED
        BY <2>1, <2>2, <3>3, <3>5, <4>2
    <3>6. QED
      BY <3>4, <3>5
  <2>4. pattern' # Blank
    BY <1>2, ReadNotBlank
  <2>5. QED
    BY <2>1, <2>2, <2>3, <2>4 DEF LinesCarried, Blank
<1>3. ASSUME EndCycle PROVE LinesCarried'
  <2>1. /\ pc = "exec" /\ pc' \in {"close", "read"}
        /\ UNCHANGED <<job, consumed, quiet, stop, pattern, inputAction>>
        /\ ~quiet /\ pattern # Blank => autoLines' = autoLines \o pattern.content
    BY <1>3 DEF EndCycle, AfterCycle, inputVars, spaceVars, modeVars
  <2>2. ASSUME Faithful', ~quiet' PROVE autoLines' \o InFlight' = consumed'
    <3>1. Faithful /\ ~quiet
      BY <2>1, <2>2 DEF Faithful, Prog
    <3>2. autoLines \o pattern.content = consumed /\ pattern # Blank /\ ~inputAction.pending
      BY <2>1, <3>1 DEF LinesCarried, InFlight
    <3>3. InFlight' = <<>> /\ autoLines' = consumed /\ consumed' = consumed
      BY <2>1, <3>1, <3>2 DEF InFlight
    <3>4. QED
      BY <1>0, <3>3, ConcatEmptySeq
  <2>3. QED
    BY <2>1, <2>2 DEF LinesCarried
<1>4. ASSUME CloseFile PROVE LinesCarried'
  <2>1. pc = "close" /\ pc' \in {"done", "open"} /\ UNCHANGED <<job, consumed, quiet, stop>>
    BY <1>4 DEF CloseFile, modeVars
  <2>2. inputAction' \in {NoAction, inputAction}
    BY <1>4 DEF CloseFile
  <2>3. stop' => ~inputAction'.pending
    BY <2>1, <2>2 DEF LinesCarried, NoAction
  <2>4. ASSUME Faithful', ~quiet' PROVE autoLines' \o InFlight' = consumed'
    <3>1. Faithful /\ ~quiet
      BY <2>1, <2>4 DEF Faithful, Prog
    <3>2. autoLines \o InFlight = consumed
      BY <2>1, <3>1 DEF LinesCarried
    <3>3. CASE PrintsPending
      <4>1. inputAction' = NoAction /\ autoLines' = autoLines \o inputAction.prepend
        BY <1>4, <3>3 DEF CloseFile
      <4>2. InFlight = inputAction.prepend /\ InFlight' = <<>>
        BY <2>1, <3>3, <4>1 DEF PrintsPending, InFlight, NoAction
      <4>3. autoLines' \in Seq(Seg)
        BY <1>0, <4>1
      <4>4. QED
        BY <2>1, <3>2, <4>1, <4>2, <4>3, ConcatEmptySeq
    <3>4. CASE ~PrintsPending
      <4>1. UNCHANGED <<autoLines, inputAction>>
        BY <1>4, <3>4 DEF CloseFile
      <4>2. pc' = "done" => ~inputAction.pending
        <5>1. pc' = "done" => stop \/ IsLastFile
          BY <1>4 DEF CloseFile
        <5>2. inputAction.pending => ~IsLastFile
          BY <3>1, <3>4 DEF PrintsPending
        <5>3. stop => ~inputAction.pending
          BY DEF LinesCarried
        <5>4. QED
          BY <5>1, <5>2, <5>3
      <4>3. InFlight' = InFlight
        BY <2>1, <4>1, <4>2 DEF InFlight
      <4>4. QED
        BY <2>1, <3>2, <4>1, <4>3
    <3>5. QED
      BY <3>3, <3>4
  <2>5. QED
    BY <2>1, <2>3, <2>4 DEF LinesCarried
<1>5. ASSUME OpenFile \/ OpenError \/ ReadAtZero \/ EndOfFile \/ UNCHANGED vars
      PROVE  LinesCarried'
  <2>1. /\ UNCHANGED <<job, consumed, quiet, pattern, inputAction, autoLines>>
        /\ UNCHANGED stop
        /\ UNCHANGED pc \/ (pc \notin {"exec", "done"} /\ pc' \notin {"exec", "done"})
        /\ pc = "failed" => pc' = "failed"
    BY <1>5 DEF OpenFile, OpenError, ReadAtZero, EndOfFile, vars, inputVars, spaceVars, modeVars
  <2>2. InFlight' = InFlight /\ Faithful' = Faithful
    BY <2>1 DEF InFlight, Faithful, Prog
  <2>3. QED
    BY <2>1, <2>2 DEF LinesCarried, Blank
<1>6. QED
  BY <1>1, <1>2, <1>3, <1>4, <1>5 DEF Next, Files, Terminated

\* For every script of commands that neither change nor delete the pattern
\* space, and every input: what automatic printing has written, followed by
\* what is in the pattern space or waits for an N, is what has been read, and
\* at the end of the program nothing waits any more.
THEOREM NothingLost == Spec => []NoLineLost
<1>1. Init => LinesCarried /\ Stopping
  <2>1. ASSUME Init
        PROVE  pc = "open" /\ ~stop /\ ~inputAction.pending /\ autoLines = <<>> /\ consumed = <<>>
    BY <2>1 DEF Init, NoAction
  <2>2. QED
    BY <2>1 DEF LinesCarried, Stopping, InFlight
<1>2. LinesCarried => NoLineLost
  BY DEF LinesCarried, Faithful, NoLineLost
<1>3. QED
  BY <1>1, <1>2, InitTyped, StepTyped, StepStopping, StepCarried, PTL DEF Spec

-----------------------------------------------------------------------------
(* The order of what is written.                                           *)

Why == {"text", "print", "file", "append", "auto", "newline", "zero", "eof"}

WriteEvent == [why : Why, cmd : Nat, content : Content, nl : BOOLEAN, line : Nat]

\* OutputOrder of any sequence of writes.
InOrder(s) ==
  \A i, j \in DOMAIN s :
    i < j /\ s[i].line = s[j].line /\ "eof" \notin {s[i].why, s[j].why}
      => Rank(s[i]) <= Rank(s[j])

\* Nothing written after n lines ranks higher than k.
UpTo(s, n, k) ==
  \A i \in DOMAIN s : s[i].line = n /\ s[i].why # "eof" => Rank(s[i]) <= k

\* The writes of one rank after n lines.
Ranked(n, k) == {w \in WriteEvent : w.line = n /\ (w.why = "eof" \/ Rank(w) = k)}

\* The writes of one kind and command since the last line was read.
WrittenBy(why, c) == {w \in WriteEvent : w.why = why /\ w.cmd = c /\ w.line = Len(consumed)}

LEMMA EventWritten ==
  ASSUME Typed, NEW why, why \in Why, NEW c, c \in Nat, NEW content, content \in Content,
         NEW nl, nl \in BOOLEAN
  PROVE  Event(why, c, content, nl) \in WrittenBy(why, c)
<1>1. Len(consumed) \in Nat
  BY DEF Typed, TypeOK
<1>2. QED
  BY <1>1 DEF Event, WriteEvent, WrittenBy

LEMMA WhyMember ==
  /\ "text" \in Why /\ "print" \in Why /\ "file" \in Why /\ "append" \in Why
  /\ "auto" \in Why /\ "newline" \in Why /\ "zero" \in Why /\ "eof" \in Why
BY DEF Why

\* Writing more of the same rank or a higher one keeps the order.
LEMMA Extend ==
  ASSUME NEW s \in Seq(WriteEvent), NEW n \in Nat, NEW k \in Nat, NEW m \in Nat, k <= m,
         InOrder(s), UpTo(s, n, k), NEW t \in Seq(Ranked(n, m))
  PROVE  /\ s \o t \in Seq(WriteEvent) /\ InOrder(s \o t) /\ UpTo(s \o t, n, m)
<1>1. t \in Seq(WriteEvent)
  <2>1. Ranked(n, m) \subseteq WriteEvent
    BY DEF Ranked
  <2>2. QED
    BY <2>1
<1>2. /\ s \o t \in Seq(WriteEvent) /\ Len(s) \in Nat /\ Len(t) \in Nat
      /\ DOMAIN s = 1 .. Len(s) /\ DOMAIN t = 1 .. Len(t)
      /\ DOMAIN (s \o t) = 1 .. Len(s) + Len(t)
      /\ \A i \in 1 .. Len(s) : (s \o t)[i] = s[i]
      /\ \A i \in Len(s) + 1 .. Len(s) + Len(t) : (s \o t)[i] = t[i - Len(s)]
  BY <1>1
<1>3. \A w \in WriteEvent : Rank(w) \in Nat
  BY DEF Rank
<1>4. \A i \in Len(s) + 1 .. Len(s) + Len(t) :
        (s \o t)[i].line = n /\ ((s \o t)[i].why = "eof" \/ Rank((s \o t)[i]) = m)
  <2>1. ASSUME NEW i \in Len(s) + 1 .. Len(s) + Len(t)
        PROVE  t[i - Len(s)] \in Ranked(n, m)
    <3>1. i - Len(s) \in 1 .. Len(t)
      BY <1>2
    <3>2. QED
      BY <3>1
  <2>2. QED
    BY <1>2, <2>1 DEF Ranked
<1> DEFINE st == s \o t
<1> HIDE DEF st
<1>5. /\ DOMAIN st = 1 .. Len(s) + Len(t) /\ Len(s) \in Nat /\ Len(t) \in Nat
      /\ DOMAIN s = 1 .. Len(s)
      /\ \A i \in 1 .. Len(s) : st[i] = s[i] /\ Rank(s[i]) \in Nat
      /\ \A i \in Len(s) + 1 .. Len(s) + Len(t) :
           st[i].line = n /\ (st[i].why = "eof" \/ Rank(st[i]) = m)
  BY <1>2, <1>3, <1>4 DEF st
<1>6. InOrder(st)
  <2> SUFFICES ASSUME NEW i \in DOMAIN st, NEW j \in DOMAIN st, i < j,
                      st[i].line = st[j].line, st[i].why # "eof", st[j].why # "eof"
               PROVE  Rank(st[i]) <= Rank(st[j])
    BY DEF InOrder
  <2>1. CASE j \in 1 .. Len(s)
    BY <1>5, <2>1 DEF InOrder
  <2>2. CASE i \in 1 .. Len(s) /\ j \in Len(s) + 1 .. Len(s) + Len(t)
    <3>1. s[i].line = n /\ s[i].why # "eof" /\ Rank(st[j]) = m
      BY <1>5, <2>2
    <3>2. Rank(s[i]) <= k
      BY <1>5, <2>2, <3>1 DEF UpTo
    <3>3. QED
      BY <1>5, <2>2, <3>1, <3>2
  <2>3. CASE i \in Len(s) + 1 .. Len(s) + Len(t) /\ j \in Len(s) + 1 .. Len(s) + Len(t)
    BY <1>5, <2>3
  <2>4. QED
    BY <1>5, <2>1, <2>2, <2>3
<1>7. UpTo(st, n, m)
  <2> SUFFICES ASSUME NEW i \in DOMAIN st, st[i].line = n, st[i].why # "eof"
               PROVE  Rank(st[i]) <= m
    BY DEF UpTo
  <2>1. CASE i \in 1 .. Len(s)
    BY <1>5, <2>1 DEF UpTo
  <2>2. CASE i \in Len(s) + 1 .. Len(s) + Len(t)
    BY <1>5, <2>2
  <2>3. QED
    BY <1>5, <2>1, <2>2
<1>8. QED
  BY <1>2, <1>6, <1>7 DEF st

\* What commands write at once.
Immediate == {w \in WriteEvent : w.line = Len(consumed) /\ w.cmd = cur
                               /\ w.why \in {"text", "print", "file"}}

\* What a and r queued.
Queued == {w \in WriteEvent : w.line = Len(consumed) /\ w.why = "append"}

LEMMA ChunkImmediate ==
  ASSUME Typed, cur # 0, NEW s \in Space
  PROVE  /\ Chunk("print", cur, s) \in Seq(Immediate)
         /\ <<Event("file", cur, s.content, s.nl)>> \in Seq(Immediate)
         /\ Text(cur) \in Seq(Immediate)
<1>1. cur \in Nat /\ s.content \in Content /\ s.nl \in BOOLEAN
  BY CommandFacts DEF Space
<1>2. <<Empty>> \in Content
  BY EmptyAssumption, Singleton
<1>3. /\ Event("print", cur, s.content, s.nl) \in Immediate
      /\ Event("file", cur, s.content, s.nl) \in Immediate
      /\ Event("text", cur, <<Empty>>, TRUE) \in Immediate
  <2>1. /\ Event("print", cur, s.content, s.nl) \in WrittenBy("print", cur)
        /\ Event("file", cur, s.content, s.nl) \in WrittenBy("file", cur)
        /\ Event("text", cur, <<Empty>>, TRUE) \in WrittenBy("text", cur)
    BY <1>1, <1>2, EventWritten, WhyMember, Zenon
  <2>2. QED
    BY <2>1 DEF Immediate, WrittenBy
<1> DEFINE p == Event("print", cur, s.content, s.nl)
           f == Event("file", cur, s.content, s.nl)
           t == Event("text", cur, <<Empty>>, TRUE)
<1>4. p \in Immediate /\ f \in Immediate /\ t \in Immediate
  BY <1>3
<1>5. Chunk("print", cur, s) = (IF s = Blank THEN <<>> ELSE <<p>>) /\ Text(cur) = <<t>>
  BY DEF Chunk, Text
<1> HIDE DEF p, f, t
<1>6. <<f>> \in Seq(Immediate) /\ Text(cur) \in Seq(Immediate)
      /\ Chunk("print", cur, s) \in Seq(Immediate)
  <2>1. \A e \in Immediate : <<e>> \in Seq(Immediate) /\ <<>> \in Seq(Immediate)
    OBVIOUS
  <2>2. QED
    BY <1>4, <1>5, <2>1, Zenon
<1>7. QED
  BY <1>6 DEF f

LEMMA AppendedQueued ==
  ASSUME Typed
  PROVE  Appended \in Seq(Queued)
<1>1. appends \in Seq(Nat) /\ DOMAIN appends = 1 .. Len(appends) /\ Len(appends) \in Nat
  BY DEF Typed, TypeOK
<1>2. \A i \in 1 .. Len(appends) : Event("append", appends[i], <<Empty>>, TRUE) \in Queued
  <2>1. <<Empty>> \in Content
    BY EmptyAssumption, Singleton
  <2>2. ASSUME NEW i \in 1 .. Len(appends)
        PROVE  Event("append", appends[i], <<Empty>>, TRUE) \in WrittenBy("append", appends[i])
    <3>1. appends[i] \in Nat
      BY <1>1
    <3>2. QED
      BY <2>1, <3>1, EventWritten, WhyMember, Zenon
  <2>3. QED
    BY <2>2 DEF Queued, WrittenBy
<1> DEFINE e(i) == Event("append", appends[i], <<Empty>>, TRUE)
<1>3. Appended = [i \in 1 .. Len(appends) |-> e(i)] /\ \A i \in 1 .. Len(appends) : e(i) \in Queued
  BY <1>1, <1>2 DEF Appended
<1> HIDE DEF e
<1>4. QED
  BY <1>1, <1>3

LEMMA FirstLineSpace ==
  ASSUME NEW s \in Space
  PROVE  FirstLine(s) \in Space
<1>1. s.content \in Seq(Seg) /\ s.content # <<>>
  BY DEF Space, Content
<1>2. Head(s.content) \in Seg
  BY <1>1
<1>3. QED
  BY <1>2, Singleton DEF FirstLine, Space

\* A command writes while it is selected, one that is passed by does not.
LEMMA ExecutionWrites ==
  ASSUME Typed, Typed', out \in Seq(WriteEvent), Execution
  PROVE  \/ /\ pc' \in {"exec", "failed"}
            /\ \E new \in Seq(Immediate) :
                 out' = out \o new /\ (new = <<>> \/ Applies(Cmd, startLine[cur], View))
         \/ pc' = "read" /\ out' = out \o Appended
<1> DEFINE Goal == /\ pc' \in {"exec", "failed"}
                   /\ \E new \in Seq(Immediate) :
                        out' = out \o new /\ (new = <<>> \/ Applies(Cmd, startLine[cur], View))
<1>0. out \o <<>> = out /\ <<>> \in Seq(Immediate)
  OBVIOUS
<1>a. ASSUME pc' \in {"exec", "failed"}, UNCHANGED out PROVE Goal
  BY <1>0, <1>a
<1>b. ASSUME pc' \in {"exec", "failed"}, Applies(Cmd, startLine[cur], View),
             NEW new \in Seq(Immediate), out' = out \o new
      PROVE  Goal
  BY <1>b
<1> HIDE DEF Goal
<1>c. pc = "exec" /\ cur # 0 /\ pattern \in Space /\ pattern' \in Space
  BY ExecutionFrame DEF Typed, TypeOK
<1>1. ASSUME \/ Skip \/ RegexError \/ Enter \/ Label \/ Queue \/ Delete \/ DeleteFirst
             \/ Execute \/ Get \/ GetAppend \/ Hold \/ HoldAppend \/ Exchange \/ NextLine
             \/ Quit \/ BranchIf \/ Transliterate \/ Zap
      PROVE  Goal
  <2>1. pc' \in {"exec", "failed"} /\ UNCHANGED out
    BY <1>1, <1>c DEF Skip, RegexError, Enter, Label, Queue, Delete, DeleteFirst, Execute, Get,
       GetAppend, Hold, HoldAppend, Exchange, NextLine, Quit, BranchIf, Transliterate, Zap,
       Continue, EndScript, Jump
  <2>2. QED
    BY <2>1, <1>a
<1>2. ASSUME Change PROVE Goal
  <2>1. /\ pc' = "exec" /\ Applies(Cmd, startLine[cur], View)
        /\ out' = out \o Text(cur) \/ out' = out
    BY <1>2, <1>c DEF Change, Selected, EndScript
  <2>2. Text(cur) \in Seq(Immediate)
    BY <1>c, ChunkImmediate
  <2>3. QED
    BY <2>1, <2>2, <1>a, <1>b
<1>3. ASSUME Write PROVE Goal
  <2>1. /\ pc' = "exec" /\ Applies(Cmd, startLine[cur], View) /\ out' = out \o Text(cur)
    BY <1>3, <1>c DEF Write, Selected, Continue
  <2>2. Text(cur) \in Seq(Immediate)
    BY <1>c, ChunkImmediate
  <2>3. QED
    BY <2>1, <2>2, <1>b
<1>4. ASSUME PrintPattern \/ PrintFirst PROVE Goal
  <2>1. /\ pc' = "exec" /\ Applies(Cmd, startLine[cur], View)
        /\ \/ out' = out \o Chunk("print", cur, pattern)
           \/ out' = out \o Chunk("print", cur, FirstLine(pattern))
    BY <1>4, <1>c DEF PrintPattern, PrintFirst, Selected, Continue
  <2>2. FirstLine(pattern) \in Space
    BY <1>c, FirstLineSpace
  <2>3. /\ Chunk("print", cur, pattern) \in Seq(Immediate)
        /\ Chunk("print", cur, FirstLine(pattern)) \in Seq(Immediate)
    BY <1>c, <2>2, ChunkImmediate
  <2>4. QED
    BY <2>1, <2>3, <1>b
<1>5. ASSUME WriteFile PROVE Goal
  <2> DEFINE s == IF Cmd.code = "w" THEN pattern ELSE FirstLine(pattern)
             e == Event("file", cur, s.content, s.nl)
  <2>1. /\ pc' = "exec" /\ Applies(Cmd, startLine[cur], View) /\ out' = Append(out, e)
    BY <1>5, <1>c DEF WriteFile, Selected, Continue
  <2>2. s \in Space
    BY <1>c, FirstLineSpace
  <2> HIDE DEF s
  <2>3. <<e>> \in Seq(Immediate)
    BY <1>c, <2>2, ChunkImmediate
  <2> HIDE DEF e
  <2>4. out' = out \o <<e>>
    BY <2>1, AppendIsConcat, <2>3 DEF Immediate
  <2>5. QED
    BY <2>1, <2>3, <2>4, <1>b
<1>6. ASSUME Substitute PROVE Goal
  <2>1. pc' = "exec" /\ Applies(Cmd, startLine[cur], View)
    BY <1>6, <1>c DEF Substitute, Selected, Continue
  <2> DEFINE where == Replaced(Cmd, savedRe', pattern.content)
             lines == [i \in DOMAIN pattern.content |->
                         IF i \in where THEN Cmd.rep ELSE pattern.content[i]]
             subst == [pattern EXCEPT !.content = lines]
  <2>2. out' = out \/ out' = out \o SubstituteWrites(Cmd, subst, pattern')
    BY <1>6 DEF Substitute
  <2>3. subst \in Space
    <3>1. pattern.content \in Content /\ pattern \in [content : Content, nl : BOOLEAN]
      BY <1>c DEF Space
    <3>2. Cmd.rep \in Seg
      BY <1>c, CommandFacts DEF Command
    <3>3. \A i \in DOMAIN pattern.content : pattern.content[i] \in Seg
      BY <3>1 DEF Content
    <3> HIDE DEF where
    <3>4. lines \in Content
      BY <3>1, <3>2, <3>3, MapContent
    <3> HIDE DEF lines
    <3>5. QED
      BY <3>1, <3>4 DEF Space
  <2> HIDE DEF subst
  <2>4. SubstituteWrites(Cmd, subst, pattern') \in Seq(Immediate)
    <3>1. /\ Chunk("print", cur, subst) \in Seq(Immediate)
          /\ Chunk("print", cur, pattern') \in Seq(Immediate)
          /\ <<Event("file", cur, (pattern').content, (pattern').nl)>> \in Seq(Immediate)
      BY <1>c, <2>3, ChunkImmediate
    <3> DEFINE a == IF "pFirst" \in Cmd.opts THEN Chunk("print", cur, subst) ELSE <<>>
               b == IF "pLast" \in Cmd.opts THEN Chunk("print", cur, pattern') ELSE <<>>
               c == IF "w" \in Cmd.opts
                    THEN <<Event("file", cur, (pattern').content, (pattern').nl)>> ELSE <<>>
    <3>2. a \in Seq(Immediate) /\ b \in Seq(Immediate) /\ c \in Seq(Immediate)
      BY <3>1, <1>0
    <3>3. SubstituteWrites(Cmd, subst, pattern') = a \o b \o c
      BY DEF SubstituteWrites
    <3> HIDE DEF a, b, c
    <3>4. QED
      BY <3>2, <3>3
  <2>5. QED
    BY <2>1, <2>2, <2>4, <1>a, <1>b
<1>7. ASSUME AppendNext PROVE pc' = "read" /\ out' = out \o Appended
  BY <1>7 DEF AppendNext
<1>8. QED
  BY <1>1, <1>2, <1>3, <1>4, <1>5, <1>6, <1>7 DEF Execution, Goal

\* No write is ahead of the n lines read.
Behind(s, n) == \A i \in DOMAIN s : s[i].line <= n

\* What was written is a sequence of events, in order, none of them ahead of
\* the lines read, and while a script is executed only what its commands write
\* at once has been written since the last line was read.
Ordered ==
  /\ out \in Seq(WriteEvent) /\ InOrder(out) /\ Behind(out, Len(consumed))
  /\ pc = "exec" => UpTo(out, Len(consumed), 0)

LEMMA RankBound ==
  /\ \A w \in WriteEvent : Rank(w) \in Nat /\ Rank(w) <= 4
  /\ \A s \in Seq(WriteEvent), n \in Nat : UpTo(s, n, 4)
<1>1. \A w \in WriteEvent : Rank(w) \in Nat /\ Rank(w) <= 4
  BY DEF Rank
<1>2. \A s \in Seq(WriteEvent), n \in Nat : UpTo(s, n, 4)
  BY <1>1 DEF UpTo
<1>3. QED
  BY <1>1, <1>2

\* Writing when n lines are read keeps all lines behind.
LEMMA LinesBehind ==
  ASSUME NEW s \in Seq(WriteEvent), NEW n \in Nat, Behind(s, n), NEW k, NEW t \in Seq(Ranked(n, k))
  PROVE  Behind(s \o t, n)
<1>1. /\ Len(s) \in Nat /\ Len(t) \in Nat /\ DOMAIN s = 1 .. Len(s)
      /\ DOMAIN (s \o t) = 1 .. Len(s) + Len(t)
      /\ \A i \in 1 .. Len(s) : (s \o t)[i] = s[i]
      /\ \A i \in Len(s) + 1 .. Len(s) + Len(t) : (s \o t)[i] = t[i - Len(s)]
  OBVIOUS
<1>2. ASSUME NEW i \in 1 .. Len(t) PROVE t[i].line <= n
  <2>1. t[i] \in Ranked(n, k)
    OBVIOUS
  <2>2. QED
    BY <2>1 DEF Ranked
<1> DEFINE st == s \o t
<1> HIDE DEF st
<1>3. ASSUME NEW i \in 1 .. Len(s) + Len(t) PROVE st[i].line <= n
  <2>1. CASE i \in 1 .. Len(s)
    BY <1>1, <2>1 DEF st, Behind
  <2>2. CASE i \in Len(s) + 1 .. Len(s) + Len(t)
    <3>1. i - Len(s) \in 1 .. Len(t) /\ st[i] = t[i - Len(s)]
      BY <1>1, <2>2 DEF st
    <3>2. QED
      BY <1>2, <3>1
  <2>3. QED
    BY <1>1, <2>1, <2>2
<1>4. QED
  BY <1>1, <1>3 DEF st, Behind

\* Both facts at once, for a write after as many lines as are read.
LEMMA WriteMore ==
  ASSUME NEW s \in Seq(WriteEvent), NEW n \in Nat, InOrder(s), Behind(s, n),
         NEW k \in Nat, NEW m \in Nat, k <= m, UpTo(s, n, k), NEW t \in Seq(Ranked(n, m))
  PROVE  /\ s \o t \in Seq(WriteEvent) /\ InOrder(s \o t) /\ UpTo(s \o t, n, m)
         /\ Behind(s \o t, n)
BY Extend, LinesBehind

LEMMA RankedWrites ==
  ASSUME Typed, NEW n, n = Len(consumed)
  PROVE  /\ Immediate \subseteq Ranked(n, 0) /\ Queued \subseteq Ranked(n, 2)
         /\ \A s \in Space : Chunk("auto", 0, s) \in Seq(Ranked(n, 1))
         /\ Closing \in Seq(Ranked(n, 3))
         /\ \A c \in Nat : <<Event("zero", c, <<Empty>>, TRUE)>> \in Seq(Ranked(n, 4))
         /\ \A x \in Content : <<Event("eof", 0, x, TRUE)>> \in Seq(Ranked(n, 4))
<1>1. <<Empty>> \in Content
  BY EmptyAssumption, Singleton
<1>2. /\ Immediate \subseteq Ranked(n, 0) /\ Queued \subseteq Ranked(n, 2)
      /\ \A c \in Nat : /\ WrittenBy("auto", c) \subseteq Ranked(n, 1)
                        /\ WrittenBy("newline", c) \subseteq Ranked(n, 3)
                        /\ WrittenBy("zero", c) \subseteq Ranked(n, 4)
                        /\ WrittenBy("eof", c) \subseteq Ranked(n, 4)
  BY DEF Immediate, Queued, Ranked, Rank, WrittenBy
<1>3. \A k : \A e \in Ranked(n, k) : <<e>> \in Seq(Ranked(n, k)) /\ <<>> \in Seq(Ranked(n, k))
  OBVIOUS
<1>4. ASSUME NEW s \in Space PROVE Chunk("auto", 0, s) \in Seq(Ranked(n, 1))
  <2>1. s.content \in Content /\ s.nl \in BOOLEAN /\ 0 \in Nat
    BY DEF Space
  <2>2. Event("auto", 0, s.content, s.nl) \in WrittenBy("auto", 0)
    BY <2>1, EventWritten, WhyMember, Zenon
  <2>3. Event("auto", 0, s.content, s.nl) \in Ranked(n, 1)
    BY <1>2, <2>1, <2>2, Zenon
  <2>4. QED
    BY <1>3, <2>3, Zenon DEF Chunk
<1>5. Closing \in Seq(Ranked(n, 3))
  <2>1. 0 \in Nat /\ TRUE \in BOOLEAN
    OBVIOUS
  <2>2. Event("newline", 0, <<Empty>>, TRUE) \in WrittenBy("newline", 0)
    BY <1>1, <2>1, EventWritten, WhyMember, Zenon
  <2>3. Event("newline", 0, <<Empty>>, TRUE) \in Ranked(n, 3)
    BY <1>2, <2>1, <2>2, Zenon
  <2>4. QED
    BY <1>3, <2>3, Zenon DEF Closing
<1>6. ASSUME NEW c \in Nat PROVE <<Event("zero", c, <<Empty>>, TRUE)>> \in Seq(Ranked(n, 4))
  <2>1. TRUE \in BOOLEAN
    OBVIOUS
  <2>2. Event("zero", c, <<Empty>>, TRUE) \in WrittenBy("zero", c)
    BY <1>1, <2>1, EventWritten, WhyMember, Zenon
  <2>3. QED
    BY <1>2, <1>3, <2>2, Zenon
<1>7. ASSUME NEW x \in Content PROVE <<Event("eof", 0, x, TRUE)>> \in Seq(Ranked(n, 4))
  <2>1. 0 \in Nat /\ TRUE \in BOOLEAN
    OBVIOUS
  <2>2. Event("eof", 0, x, TRUE) \in WrittenBy("eof", 0)
    BY <2>1, EventWritten, WhyMember, Zenon
  <2>3. QED
    BY <1>2, <1>3, <2>1, <2>2, Zenon
<1>8. QED
  BY <1>2, <1>4, <1>5, <1>6, <1>7

LEMMA AppendOne ==
  ASSUME NEW S, NEW T, T \subseteq S, NEW s \in Seq(S), NEW e, <<e>> \in Seq(T)
  PROVE  Append(s, e) = s \o <<e>>
<1>1. e \in S
  OBVIOUS
<1>2. QED
  BY <1>1, AppendIsConcat

LEMMA Wider ==
  ASSUME NEW S, NEW T, S \subseteq T, NEW s \in Seq(S)
  PROVE  s \in Seq(T)
OBVIOUS

LEMMA AppendedRanked ==
  ASSUME Typed, NEW n, n = Len(consumed)
  PROVE  Appended \in Seq(Ranked(n, 2))
<1>1. Queued \subseteq Ranked(n, 2)
  BY RankedWrites, Zenon
<1>2. Appended \in Seq(Queued)
  BY AppendedQueued
<1>3. QED
  BY <1>1, <1>2, Wider, Zenon

LEMMA WritesOrdered ==
  ASSUME Typed, Typed', Ordered, [Next]_vars, NEW n, n = Len(consumed)
  PROVE  Ordered'
<1>0. /\ out \in Seq(WriteEvent) /\ InOrder(out) /\ consumed \in Seq(Seg) /\ n \in Nat
      /\ Behind(out, n)
      /\ \A k \in Nat : Ranked(n, k) \subseteq WriteEvent
      /\ 0 \in Nat /\ 1 \in Nat /\ 2 \in Nat /\ 3 \in Nat /\ 4 \in Nat
      /\ 0 <= 0 /\ 0 <= 1 /\ 0 <= 2 /\ 1 <= 2 /\ 2 <= 3 /\ 4 <= 4
  BY DEF Ordered, Typed, TypeOK, Ranked
<1>1. ASSUME Execution PROVE Ordered'
  <2>1. pc = "exec" /\ UNCHANGED consumed /\ UpTo(out, n, 0)
    BY <1>1, ExecutionFrame DEF Ordered, inputVars
  <2>2. ASSUME NEW new \in Seq(Immediate), out' = out \o new PROVE Ordered'
    <3>1. new \in Seq(Ranked(n, 0))
      BY RankedWrites, Wider, Zenon
    <3>2. /\ out' \in Seq(WriteEvent) /\ InOrder(out') /\ UpTo(out', n, 0)
          /\ Behind(out', n)
      BY <1>0, <2>1, <2>2, <3>1, WriteMore, Zenon
    <3>3. QED
      BY <2>1, <3>2 DEF Ordered, InOrder, UpTo, Behind
  <2>3. ASSUME pc' = "read", out' = out \o Appended PROVE Ordered'
    <3>1. Appended \in Seq(Ranked(n, 2))
      BY AppendedRanked
    <3>2. /\ out' \in Seq(WriteEvent) /\ InOrder(out')
          /\ Behind(out', n)
      BY <1>0, <2>1, <2>3, <3>1, WriteMore, Zenon
    <3>3. QED
      BY <2>1, <2>3, <3>2 DEF Ordered, InOrder, Behind
  <2>4. QED
    BY <1>0, <1>1, <2>2, <2>3, ExecutionWrites
<1>2. ASSUME EndCycle PROVE Ordered'
  <2> DEFINE a == IF quiet THEN <<>> ELSE Chunk("auto", 0, pattern)
  <2>1. /\ pc = "exec" /\ pc' # "exec" /\ UNCHANGED consumed /\ UpTo(out, n, 0)
        /\ out' = out \o (a \o Appended) \o Closing
    BY <1>2 DEF EndCycle, AfterCycle, CycleOutput, Ordered, inputVars
  <2>2. /\ a \in Seq(Ranked(n, 1)) /\ Appended \in Seq(Ranked(n, 2))
        /\ Closing \in Seq(Ranked(n, 3))
    <3>1. Appended \in Seq(Ranked(n, 2))
      BY AppendedRanked
    <3>2. pattern \in Space /\ <<>> \in Seq(Ranked(n, 1))
      BY DEF Typed, TypeOK
    <3>3. QED
      BY <3>1, <3>2, RankedWrites, Zenon
  <2> HIDE DEF a
  <2>3. /\ out \o a \in Seq(WriteEvent) /\ InOrder(out \o a) /\ UpTo(out \o a, n, 1)
        /\ Behind(out \o a, n)
    BY <1>0, <2>1, <2>2, WriteMore, Zenon
  <2> DEFINE b == (out \o a) \o Appended
  <2>4. /\ b \in Seq(WriteEvent) /\ InOrder(b) /\ UpTo(b, n, 2)
        /\ Behind(b, n)
    BY <1>0, <2>2, <2>3, WriteMore, Zenon
  <2>5. out' = b \o Closing
    <3>1. a \in Seq(WriteEvent) /\ Appended \in Seq(WriteEvent)
      BY <1>0, <2>2
    <3>2. out \o (a \o Appended) = b
      BY <1>0, <3>1, ConcatAssociative
    <3>3. QED
      BY <2>1, <3>2
  <2> HIDE DEF b
  <2>6. /\ out' \in Seq(WriteEvent) /\ InOrder(out')
        /\ Behind(out', n)
    BY <1>0, <2>2, <2>4, <2>5, WriteMore, Zenon
  <2>7. QED
    BY <2>1, <2>6 DEF Ordered, InOrder, Behind
<1>3. ASSUME ReadAtZero \/ CloseFile PROVE Ordered'
  <2>1. /\ pc' # "exec" /\ UNCHANGED consumed
        /\ \/ UNCHANGED out
           \/ out' = Append(out, Event("zero", cur, <<Empty>>, TRUE))
           \/ out' = Append(out, Event("eof", 0, inputAction.prepend, TRUE))
    BY <1>3 DEF ReadAtZero, CloseFile, inputVars
  <2>2. CASE UNCHANGED out
    BY <2>1, <2>2 DEF Ordered, InOrder, Behind
  <2>3. CASE ~UNCHANGED out
    <3>1. PICK e : out' = Append(out, e) /\ <<e>> \in Seq(Ranked(n, 4))
      <4>1. cur \in Nat /\ inputAction.prepend \in Content
        BY DEF Typed, TypeOK
      <4>2. QED
        BY <2>1, <2>3, <4>1, RankedWrites
    <3>2. out' = out \o <<e>>
      BY <1>0, <3>1, AppendOne
    <3>3. UpTo(out, n, 4)
      BY <1>0, RankBound
    <3> DEFINE t == <<e>>
    <3>4. t \in Seq(Ranked(n, 4)) /\ out' = out \o t
      BY <3>1, <3>2
    <3> HIDE DEF t
    <3>5. /\ out' \in Seq(WriteEvent) /\ InOrder(out')
          /\ Behind(out', n)
      BY <1>0, <3>3, <3>4, WriteMore, Zenon
    <3>6. QED
      BY <2>1, <3>5 DEF Ordered, InOrder, Behind
  <2>4. QED
    BY <2>2, <2>3
<1>4. ASSUME ReadLine PROVE Ordered'
  <2>1. UNCHANGED out /\ consumed' = Append(consumed, Lines[pos + 1]) /\ Lines[pos + 1] \in Seg
    BY <1>4, FileFacts DEF ReadLine
  <2>2. Len(consumed') = n + 1
    BY <1>0, <2>1
  <2>3. ASSUME NEW i \in DOMAIN out PROVE out[i].line < n + 1 /\ out[i].line <= n + 1
                                           /\ out[i].line # n + 1
    <3>1. out[i] \in WriteEvent
      BY <1>0
    <3>2. out[i].line \in Nat /\ out[i].line <= n
      BY <1>0, <3>1 DEF WriteEvent, Behind
    <3>3. QED
      BY <1>0, <3>2
  <2>4. QED
    BY <1>0, <2>1, <2>2, <2>3 DEF Ordered, InOrder, UpTo, Behind
<1>5. ASSUME OpenFile \/ OpenError \/ EndOfFile \/ UNCHANGED vars PROVE Ordered'
  <2>1. UNCHANGED <<out, consumed>> /\ (pc' = "exec" => pc = "exec")
    BY <1>5 DEF OpenFile, OpenError, EndOfFile, vars, inputVars
  <2>2. QED
    BY <2>1 DEF Ordered, InOrder, UpTo, Behind
<1>6. QED
  BY <1>1, <1>2, <1>3, <1>4, <1>5 DEF Next, Files, Terminated

LEMMA StepOrdered == Typed /\ Typed' /\ Ordered /\ [Next]_vars => Ordered'
BY WritesOrdered

LEMMA InitOrdered == Init => Ordered
<1> SUFFICES ASSUME Init PROVE Ordered
  OBVIOUS
<1>1. out = <<>> /\ pc = "open"
  BY DEF Init
<1>2. out \in Seq(WriteEvent) /\ DOMAIN out = {}
  BY <1>1
<1>3. QED
  BY <1>1, <1>2 DEF Ordered, InOrder, Behind

\* Whatever the script does between two lines read: its own writes come before
\* the pattern space, this before what a and r queued, this before the newline
\* that q adds, and this before what 0r of the next file writes.
THEOREM OutputOrdered == Spec => []OutputOrder
<1>1. Ordered => OutputOrder
  BY DEF Ordered, InOrder, OutputOrder
<1>2. QED
  BY <1>1, InitTyped, StepTyped, InitOrdered, StepOrdered, PTL DEF Spec

\* A command addressed with $ alone writes when the stream has no line left and
\* never earlier: no file with a line follows, unless files are separate.
THEOREM LastAddressCorrect == Spec => LastAddressAtEnd
<1> DEFINE Written(i) ==
             LET c == out'[i].cmd
             IN  c # 0 /\ pc = "exec" /\ out'[i].why \in {"text", "print"}
                   /\ Prog[c].a1.kind = "last" /\ ~IsRange(Prog[c]) /\ ~Prog[c].neg
           Ended == /\ pos = Len(Lines)
                    /\ \A f \in file + 1 .. Len(job.files) :
                         job.separate \/ job.files[f].lines = <<>>
<1>1. ASSUME Typed, Typed', Ordered, [Next]_vars, NEW i \in DOMAIN out' \ DOMAIN out, Written(i)
      PROVE  Ended
  <2>0. out \in Seq(WriteEvent) /\ DOMAIN out = 1 .. Len(out) /\ Len(out) \in Nat
    BY <1>1 DEF Ordered
  <2>1. CASE Execution
    <3>1. PICK new : /\ new \in Seq(Immediate) \/ new \in Seq(Queued)
                     /\ out' = out \o new
                     /\ \/ new \in Seq(Queued)
                        \/ new = <<>> \/ Applies(Cmd, startLine[cur], View)
      BY <1>1, <2>0, <2>1, ExecutionWrites, AppendedQueued
    <3>2. /\ Len(new) \in Nat /\ i \in Len(out) + 1 .. Len(out) + Len(new)
          /\ out'[i] = new[i - Len(out)] /\ i - Len(out) \in 1 .. Len(new)
      BY <1>1, <2>0, <3>1
    <3>3. out'[i].why # "append"
      BY <1>1
    <3>4. new \notin Seq(Queued)
      <4>1. ASSUME new \in Seq(Queued) PROVE new[i - Len(out)] \in Queued
        BY <3>2, <4>1
      <4>2. QED
        BY <3>2, <3>3, <4>1 DEF Queued
    <3>5. new \in Seq(Immediate) /\ new[i - Len(out)] \in Immediate
      BY <3>1, <3>2, <3>4
    <3>6. out'[i].cmd = cur
      BY <3>2, <3>5 DEF Immediate
    <3>7. Applies(Cmd, startLine[cur], View)
      BY <3>1, <3>2, <3>4
    <3>8. cur # 0 /\ Cmd.a1.kind = "last" /\ ~IsRange(Cmd) /\ ~Cmd.neg /\ Cmd.neg \in BOOLEAN
      BY <1>1, <3>6, CommandFacts DEF Cmd, Command
    <3>9. AtLast
      BY <3>7, <3>8 DEF Applies, InAddress, MatchAddress, View
    <3>10. QED
      BY <1>1, <3>9, FileFacts DEF AtLast, IsLastFile, Typed, TypeOK
  <2>2. CASE EndCycle
    <3> DEFINE n == Len(consumed)
               Later == {w \in WriteEvent : w.why \notin {"text", "print"}}
               new == CycleOutput \o Closing
    <3>1. out' = out \o CycleOutput \o Closing
      BY <2>2 DEF EndCycle
    <3>2. \A k \in {1, 2, 3} : Ranked(n, k) \subseteq Later
      BY DEF Ranked, Rank
    <3>3. /\ \A s \in Space : Chunk("auto", 0, s) \in Seq(Ranked(n, 1))
          /\ Appended \in Seq(Ranked(n, 2)) /\ Closing \in Seq(Ranked(n, 3))
      BY <1>1, RankedWrites, AppendedRanked, Zenon
    <3>4. pattern \in Space
      BY <1>1 DEF Typed, TypeOK
    <3> HIDE DEF Later
    <3>5. CycleOutput \in Seq(Later) /\ Closing \in Seq(Later)
      BY <3>2, <3>3, <3>4 DEF CycleOutput
    <3>6. new \in Seq(Later) /\ out' = out \o new
      <4>1. out \in Seq(WriteEvent) /\ Later \subseteq WriteEvent
        BY <2>0 DEF Later
      <4>2. CycleOutput \in Seq(WriteEvent) /\ Closing \in Seq(WriteEvent)
        BY <3>5, <4>1
      <4>3. (out \o CycleOutput) \o Closing = out \o (CycleOutput \o Closing)
        BY <4>1, <4>2, ConcatAssociative
      <4>4. new \in Seq(Later)
        BY <3>5
      <4>5. QED
        BY <3>1, <4>3, <4>4, Zenon
    <3> HIDE DEF new
    <3>7. /\ Len(new) \in Nat /\ out'[i] = new[i - Len(out)]
          /\ i - Len(out) \in 1 .. Len(new)
      BY <1>1, <2>0, <3>6
    <3>8. new[i - Len(out)] \in Later
      BY <3>6, <3>7
    <3>9. QED
      BY <1>1, <3>7, <3>8 DEF Later
  <2>3. CASE Files /\ ~EndCycle
    BY <1>1, <2>3 DEF Files, OpenFile, OpenError, ReadAtZero, ReadLine, EndOfFile, CloseFile
  <2>4. CASE UNCHANGED vars
    BY <1>1, <2>4 DEF vars
  <2>5. QED
    BY <1>1, <2>1, <2>2, <2>3, <2>4 DEF Next, Terminated
<1>2. ASSUME Typed, Typed', Ordered, [Next]_vars
      PROVE  [\A i \in DOMAIN out' \ DOMAIN out : Written(i) => Ended]_vars
  BY <1>1, <1>2, Zenon
<1> DEFINE AtEnd == \A i \in DOMAIN out' \ DOMAIN out : Written(i) => Ended
<1>3. Typed /\ Typed' /\ Ordered /\ [Next]_vars => [AtEnd]_vars
  BY <1>2
<1>4. LastAddressAtEnd <=> [][AtEnd]_vars
  BY DEF LastAddressAtEnd
<1> HIDE DEF AtEnd
<1>5. Spec => [][AtEnd]_vars
  BY <1>3, InitTyped, StepTyped, InitOrdered, StepOrdered, PTL DEF Spec
<1>6. QED
  BY <1>4, <1>5

-----------------------------------------------------------------------------
(* What is printed: the text of a sequence of writes.                       *)

\* f[i] is the text of the first i writes.
Sums(f, s) ==
  /\ f[0] = <<>> /\ \A i \in 1 .. Len(s) : f[i] = f[i - 1] \o TextOf(s[i])

LEMMA TextLines == \A w \in WriteEvent : TextOf(w) \in Seq(Seg)
<1>1. \A w \in WriteEvent : w.content \in Seq(Seg)
  BY DEF WriteEvent, Content
<1>2. QED
  BY <1>1 DEF TextOf

\* The function PrintedIn is defined by is the one of the partial texts.
LEMMA PrintedSums ==
  ASSUME NEW s \in Seq(WriteEvent)
  PROVE  \E f : Sums(f, s) /\ PrintedIn(s) = f[Len(s)] /\ \A i \in 0 .. Len(s) : f[i] \in Seq(Seg)
<1> DEFINE n == Len(s)
           step == [i \in 0 .. n |-> [x \in Seq(Seg) |-> IF i = 0 THEN x ELSE x \o TextOf(s[i])]]
<1>1. n \in Nat /\ 0 \in Nat /\ <<>> \in Seq(Seg)
  OBVIOUS
<1>2. \A i \in 1 .. n : TextOf(s[i]) \in Seq(Seg)
  BY TextLines
<1>3. step \in [0 .. n -> [Seq(Seg) -> Seq(Seg)]]
  BY <1>1, <1>2
<1>4. \A i \in 1 .. n : \A x \in Seq(Seg) : step[i][x] = x \o TextOf(s[i])
  BY <1>1
<1> HIDE DEF step
<1>5. PICK f \in [0 .. n -> Seq(Seg)] : Iterates(f, 0, n, <<>>, step)
  <2> HIDE DEF n
  <2> QED BY <1>1, <1>3, Recursion, Zenon
<1>6. f = [i \in 0 .. Len(s) |-> IF i = 0 THEN <<>> ELSE f[i - 1] \o TextOf(s[i])]
  <2>1. ASSUME NEW i \in 0 .. n, i # 0 PROVE f[i] = f[i - 1] \o TextOf(s[i])
    <3>1. i - 1 \in 0 .. n /\ i \in 1 .. n
      BY <1>1, <2>1
    <3> HIDE DEF n
    <3>4. f[i - 1] \in Seq(Seg)
      BY <3>1
    <3>2. f[i] = step[i][f[i - 1]]
      BY <1>5, <2>1 DEF Iterates
    <3>3. QED
      BY <1>4, <3>1, <3>2, <3>4
  <2>2. f[0] = <<>>
    BY <1>1, <1>5 DEF Iterates
  <2>3. QED
    BY <2>1, <2>2
<1> DEFINE upTo == CHOOSE g : g = [i \in 0 .. Len(s) |-> IF i = 0 THEN <<>> ELSE g[i - 1] \o TextOf(s[i])]
<1>7. upTo = [i \in 0 .. Len(s) |-> IF i = 0 THEN <<>> ELSE upTo[i - 1] \o TextOf(s[i])]
  BY <1>6, Zenon
<1>8. PrintedIn(s) = upTo[Len(s)]
  BY Zenon DEF PrintedIn
<1> HIDE DEF upTo
<1>9. upTo[0] = <<>> /\ \A i \in 1 .. n : upTo[i] = upTo[i - 1] \o TextOf(s[i])
  <2>1. 0 \in 0 .. n /\ \A i \in 1 .. n : i \in 0 .. n /\ i # 0
    BY <1>1
  <2> HIDE DEF n
  <2>2. upTo = [i \in 0 .. n |-> IF i = 0 THEN <<>> ELSE upTo[i - 1] \o TextOf(s[i])]
    BY <1>7 DEF n
  <2>3. QED
    BY <2>1, <2>2
<1> DEFINE S == {i \in Nat : i <= n => upTo[i] \in Seq(Seg)}
<1>10. 0 \in S
  BY <1>1, <1>9
<1>11. ASSUME NEW i \in S PROVE i + 1 \in S
  <2> SUFFICES ASSUME i + 1 <= n PROVE upTo[i + 1] \in Seq(Seg)
    OBVIOUS
  <2> DEFINE k == i + 1
  <2>1. k \in 1 .. n /\ k - 1 = i /\ upTo[i] \in Seq(Seg)
    BY <1>1, <1>11
  <2> HIDE DEF k, n
  <2>2. upTo[k] = upTo[i] \o TextOf(s[k]) /\ TextOf(s[k]) \in Seq(Seg)
    BY <1>2, <1>9, <2>1
  <2>3. QED
    BY <2>1, <2>2 DEF k
<1>12. S = Nat
  <2> HIDE DEF S
  <2>1. S \in SUBSET Nat
    BY DEF S
  <2>2. QED
    BY <1>10, <1>11, <2>1, Induction
<1>13. \A i \in 0 .. n : upTo[i] \in Seq(Seg)
  BY <1>1, <1>12
<1>14. QED
  BY <1>8, <1>9, <1>13 DEF Sums

LEMMA PrintedTyped ==
  ASSUME NEW s \in Seq(WriteEvent)
  PROVE  PrintedIn(s) \in Seq(Seg)
<1>1. PICK f : PrintedIn(s) = f[Len(s)] /\ \A i \in 0 .. Len(s) : f[i] \in Seq(Seg)
  BY PrintedSums
<1>2. Len(s) \in 0 .. Len(s)
  OBVIOUS
<1>3. QED
  BY <1>1, <1>2

\* The text of the first writes does not depend on what is written after them.
LEMMA SumsAgree ==
  ASSUME NEW s \in Seq(WriteEvent), NEW t \in Seq(WriteEvent), NEW f, NEW g,
         Sums(f, s), Sums(g, t), Len(s) <= Len(t), \A i \in 1 .. Len(s) : t[i] = s[i]
  PROVE  g[Len(s)] = f[Len(s)]
<1> DEFINE n == Len(s)
           S == {i \in Nat : i <= n => g[i] = f[i]}
<1>1. n \in Nat /\ n <= Len(t) /\ Len(t) \in Nat
  OBVIOUS
<1>2. 0 \in S
  BY <1>1 DEF Sums
<1>3. ASSUME NEW i \in S PROVE i + 1 \in S
  <2> SUFFICES ASSUME i + 1 <= n PROVE g[i + 1] = f[i + 1]
    OBVIOUS
  <2> DEFINE k == i + 1
  <2>1. k \in 1 .. n /\ k - 1 = i /\ g[i] = f[i] /\ k \in 1 .. Len(t)
    BY <1>1, <1>3
  <2> HIDE DEF k
  <2>2. f[k] = f[k - 1] \o TextOf(s[k]) /\ g[k] = g[k - 1] \o TextOf(t[k]) /\ t[k] = s[k]
    BY <2>1 DEF Sums
  <2>3. QED
    BY <2>1, <2>2 DEF k
<1>4. S = Nat
  <2> HIDE DEF S
  <2>1. S \in SUBSET Nat
    BY DEF S
  <2>2. QED
    BY <1>2, <1>3, <2>1, Induction
<1>5. QED
  BY <1>1, <1>4

\* Writing one more event adds its text.
LEMMA PrintedOne ==
  ASSUME NEW s \in Seq(WriteEvent), NEW w \in WriteEvent
  PROVE  /\ PrintedIn(s \o <<w>>) = PrintedIn(s) \o TextOf(w)
         /\ PrintedIn(s) \in Seq(Seg)
<1> DEFINE t == s \o <<w>>
<1>1. /\ t \in Seq(WriteEvent) /\ Len(t) = Len(s) + 1 /\ Len(s) \in Nat /\ t[Len(s) + 1] = w
      /\ \A i \in 1 .. Len(s) : t[i] = s[i]
  OBVIOUS
<1>2. PICK f : Sums(f, s) /\ PrintedIn(s) = f[Len(s)] /\ \A i \in 0 .. Len(s) : f[i] \in Seq(Seg)
  BY PrintedSums
<1> HIDE DEF t
<1>3. PICK g : Sums(g, t) /\ PrintedIn(t) = g[Len(t)]
  BY <1>1, PrintedSums
<1>4. g[Len(s)] = f[Len(s)]
  <2>1. Len(s) <= Len(t)
    BY <1>1
  <2>2. QED
    BY <1>1, <1>2, <1>3, <2>1, SumsAgree, Zenon
<1>5. g[Len(s) + 1] = g[Len(s)] \o TextOf(w)
  <2> DEFINE k == Len(s) + 1
  <2>1. k \in 1 .. Len(t) /\ k - 1 = Len(s) /\ t[k] = w
    BY <1>1
  <2> HIDE DEF k
  <2>2. QED
    BY <1>3, <2>1 DEF Sums, k
<1>6. PrintedIn(s) \in Seq(Seg)
  BY <1>1, <1>2
<1>7. QED
  BY <1>1, <1>2, <1>3, <1>4, <1>5, <1>6 DEF t

\* Events without a pattern space.
Textless == {w \in WriteEvent : w.why \notin {"print", "auto", "eof"}}

LEMMA PrintedNothing ==
  ASSUME NEW s \in Seq(WriteEvent), NEW q \in Seq(Textless)
  PROVE  PrintedIn(s \o q) = PrintedIn(s)
<1> DEFINE t == s \o q
<1>1. q \in Seq(WriteEvent)
  BY DEF Textless
<1>2. /\ t \in Seq(WriteEvent) /\ Len(t) = Len(s) + Len(q) /\ Len(s) \in Nat /\ Len(q) \in Nat
      /\ \A i \in 1 .. Len(s) : t[i] = s[i]
      /\ \A i \in Len(s) + 1 .. Len(t) : t[i] = q[i - Len(s)]
  BY <1>1
<1>3. \A i \in Len(s) + 1 .. Len(t) : TextOf(t[i]) = <<>>
  <2>1. ASSUME NEW i \in Len(s) + 1 .. Len(t) PROVE q[i - Len(s)] \in Textless
    BY <1>2
  <2>2. \A w \in Textless : TextOf(w) = <<>>
    BY DEF Textless, TextOf
  <2>3. QED
    BY <1>2, <2>1, <2>2
<1> HIDE DEF t
<1>4. PICK f : Sums(f, s) /\ PrintedIn(s) = f[Len(s)]
  BY PrintedSums
<1>5. PICK g : Sums(g, t) /\ PrintedIn(t) = g[Len(t)] /\ \A i \in 0 .. Len(t) : g[i] \in Seq(Seg)
  BY <1>2, PrintedSums
<1>6. g[Len(s)] = f[Len(s)]
  <2>1. Len(s) <= Len(t)
    BY <1>2
  <2>2. QED
    BY <1>2, <1>4, <1>5, <2>1, SumsAgree, Zenon
<1> DEFINE S == {j \in Nat : j <= Len(q) => g[Len(s) + j] = g[Len(s)]}
<1>7. 0 \in S
  BY <1>2
<1>8. ASSUME NEW j \in S PROVE j + 1 \in S
  <2> SUFFICES ASSUME j + 1 <= Len(q) PROVE g[Len(s) + (j + 1)] = g[Len(s)]
    OBVIOUS
  <2> DEFINE k == Len(s) + (j + 1)
             i == Len(s) + j
  <2>1. /\ k \in 1 .. Len(t) /\ k - 1 = i /\ k \in Len(s) + 1 .. Len(t) /\ i \in 0 .. Len(t)
        /\ g[i] = g[Len(s)]
    BY <1>2, <1>8
  <2> HIDE DEF k, i
  <2>2. g[k] = g[i] \o <<>> /\ g[i] \in Seq(Seg)
    BY <1>3, <1>5, <2>1 DEF Sums
  <2>3. g[k] = g[i]
    BY <2>2, ConcatEmptySeq
  <2>4. QED
    BY <2>1, <2>3 DEF k
<1>9. S = Nat
  <2> HIDE DEF S
  <2>1. S \in SUBSET Nat
    BY DEF S
  <2>2. QED
    BY <1>7, <1>8, <2>1, Induction
<1>10. g[Len(s) + Len(q)] = g[Len(s)]
  <2>1. Len(q) \in S
    BY <1>2, <1>9
  <2>2. QED
    BY <1>2, <2>1
<1>11. QED
  BY <1>2, <1>4, <1>5, <1>6, <1>10 DEF t

LEMMA TextlessWrites ==
  ASSUME Typed
  PROVE  /\ Appended \in Seq(Textless) /\ Closing \in Seq(Textless)
         /\ cur # 0 => Text(cur) \in Seq(Textless)
         /\ cur # 0 => \A s \in Space : <<Event("file", cur, s.content, s.nl)>> \in Seq(Textless)
         /\ \A c \in Nat : <<Event("zero", c, <<Empty>>, TRUE)>> \in Seq(Textless)
<1>1. <<Empty>> \in Content /\ 0 \in Nat /\ TRUE \in BOOLEAN
  BY EmptyAssumption, Singleton
<1>2. \A c \in Nat : /\ WrittenBy("text", c) \subseteq Textless
                     /\ WrittenBy("file", c) \subseteq Textless
                     /\ WrittenBy("newline", c) \subseteq Textless
                     /\ WrittenBy("zero", c) \subseteq Textless
  BY DEF WrittenBy, Textless
<1>3. \A e \in Textless : <<e>> \in Seq(Textless) /\ <<>> \in Seq(Textless)
  OBVIOUS
<1>4. Appended \in Seq(Textless)
  <2>1. Queued \subseteq Textless
    BY DEF Queued, Textless
  <2>2. QED
    BY <2>1, AppendedQueued, Wider, Zenon
<1>5. Closing \in Seq(Textless)
  <2>1. Event("newline", 0, <<Empty>>, TRUE) \in WrittenBy("newline", 0)
    BY <1>1, EventWritten, WhyMember, Zenon
  <2>2. Event("newline", 0, <<Empty>>, TRUE) \in Textless
    BY <1>1, <1>2, <2>1, Zenon
  <2>3. QED
    BY <1>3, <2>2, Zenon DEF Closing
<1>6. ASSUME cur # 0 PROVE Text(cur) \in Seq(Textless)
  <2>1. cur \in Nat
    BY <1>6, CommandFacts
  <2>2. Event("text", cur, <<Empty>>, TRUE) \in WrittenBy("text", cur)
    BY <1>1, <2>1, EventWritten, WhyMember, Zenon
  <2>3. Event("text", cur, <<Empty>>, TRUE) \in Textless
    BY <1>2, <2>1, <2>2, Zenon
  <2>4. QED
    BY <1>3, <2>3, Zenon DEF Text
<1>7. ASSUME cur # 0, NEW s \in Space PROVE <<Event("file", cur, s.content, s.nl)>> \in Seq(Textless)
  <2>1. cur \in Nat /\ s.content \in Content /\ s.nl \in BOOLEAN
    BY <1>7, CommandFacts DEF Space
  <2>2. Event("file", cur, s.content, s.nl) \in WrittenBy("file", cur)
    BY <2>1, EventWritten, WhyMember, Zenon
  <2>3. QED
    BY <1>2, <1>3, <2>1, <2>2, Zenon
<1>8. ASSUME NEW c \in Nat PROVE <<Event("zero", c, <<Empty>>, TRUE)>> \in Seq(Textless)
  <2>1. Event("zero", c, <<Empty>>, TRUE) \in WrittenBy("zero", c)
    BY <1>1, EventWritten, WhyMember, Zenon
  <2>2. QED
    BY <1>2, <1>3, <2>1, Zenon
<1>9. QED
  BY <1>4, <1>5, <1>6, <1>7, <1>8

\* Commands without addresses are never passed by.
LEMMA AlwaysSelected == AlwaysApplies(Cmd) => ~Skip
<1>1. ASSUME AlwaysApplies(Cmd) PROVE Applies(Cmd, startLine[cur], View)
  BY <1>1 DEF Applies, AlwaysApplies, InAddress
<1>2. QED
  BY <1>1 DEF Skip

\* The commands of Paired but P, D and N: nothing of the pattern space is
\* written, and it is handed on to the next command, to another one that the
\* command names, or to the end of the script.
Hands ==
  /\ pc' = "exec" /\ UNCHANGED <<pattern, inputAction, quiet>>
  /\ \E new \in Seq(Textless) : out' = out \o new
  /\ \/ cur' = Cmd.next
     \/ cur' = Cmd.goto /\ Cmd.code \in {"{", "b", "t", "T"}
     \/ cur' = 0 /\ Cmd.code \in {"n", "q"}

LEMMA HandsOn ==
  ASSUME Typed, out \in Seq(WriteEvent), Execution, pc' # "failed",
         Cmd.code \in Preserving \ {"p", "P", "N"} \/ Skip
  PROVE  Hands
<1> USE DEF Selected, Executing, Continue, EndScript, Jump, spaceVars, modeVars
<1>1. pc = "exec" /\ cur # 0
  BY ExecutionFrame
<1>2. ASSUME UNCHANGED out PROVE \E new \in Seq(Textless) : out' = out \o new
  <2>1. <<>> \in Seq(Textless) /\ out \o <<>> = out
    BY ConcatEmptySeq
  <2>2. QED
    BY <1>2, <2>1
<1>3. ASSUME Skip \/ Enter \/ Label \/ Queue \/ Hold \/ HoldAppend \/ NextLine \/ BranchIf
      PROVE  Hands
  <2>1. UNCHANGED <<out, pattern, inputAction, quiet>> /\ pc' = "exec"
    BY <1>3 DEF Skip, Enter, Label, Queue, Hold, HoldAppend, NextLine, BranchIf
  <2>2. \/ cur' = Cmd.next
        \/ cur' = Cmd.goto /\ Cmd.code \in {"{", "b", "t", "T"}
        \/ cur' = 0 /\ Cmd.code \in {"n", "q"}
    BY <1>3 DEF Skip, Enter, Label, Queue, Hold, HoldAppend, NextLine, BranchIf
  <2>3. QED
    BY <1>2, <2>1, <2>2 DEF Hands
<1>4. ASSUME Quit, Cmd.code # "Q" PROVE Hands
  <2>1. UNCHANGED <<out, pattern, inputAction>> /\ pc' = "exec" /\ cur' = 0 /\ Cmd.code = "q"
        /\ quiet' = (quiet \/ Cmd.code = "Q") /\ quiet \in BOOLEAN
    BY <1>4 DEF Quit, Typed, TypeOK
  <2>2. UNCHANGED quiet
    BY <1>4, <2>1
  <2>3. QED
    BY <1>2, <2>1, <2>2 DEF Hands
<1>5. ASSUME Write PROVE Hands
  <2>1. /\ UNCHANGED <<pattern, inputAction, quiet>> /\ pc' = "exec" /\ cur' = Cmd.next
        /\ out' = out \o Text(cur)
    BY <1>5 DEF Write
  <2>2. Text(cur) \in Seq(Textless)
    BY <1>1, TextlessWrites
  <2>3. QED
    BY <2>1, <2>2 DEF Hands
<1>6. ASSUME WriteFile PROVE Hands
  <2> DEFINE s == IF Cmd.code = "w" THEN pattern ELSE FirstLine(pattern)
             e == Event("file", cur, s.content, s.nl)
  <2>1. /\ UNCHANGED <<pattern, inputAction, quiet>> /\ pc' = "exec" /\ cur' = Cmd.next
        /\ out' = Append(out, e)
    BY <1>6 DEF WriteFile
  <2>2. s \in Space
    BY FirstLineSpace DEF Typed, TypeOK
  <2> HIDE DEF s
  <2>3. <<e>> \in Seq(Textless)
    BY <1>1, <2>2, TextlessWrites
  <2> HIDE DEF e
  <2>4. out' = out \o <<e>>
    BY <2>1, <2>3, AppendIsConcat DEF Textless
  <2>5. QED
    BY <2>1, <2>3, <2>4 DEF Hands
<1>7. CASE Skip
  BY <1>3, <1>7
<1>8. CASE Cmd.code \in Preserving \ {"p", "P", "N"}
  <2>1. Cmd.code \notin {"p", "P", "N", "Q", "c", "d", "D", "e", "g", "G", "x", "s", "y", "z"}
    BY <1>8 DEF Preserving
  <2>2. ~(Change \/ Delete \/ DeleteFirst \/ Execute \/ Get \/ GetAppend \/ Exchange \/ Substitute
          \/ Transliterate \/ Zap \/ PrintPattern \/ PrintFirst \/ AppendNext)
    BY <2>1 DEF Change, Delete, DeleteFirst, Execute, Get, GetAppend, Exchange, Substitute,
                Transliterate, Zap, PrintPattern, PrintFirst, AppendNext
  <2>3. ~RegexError
    BY DEF RegexError
  <2>4. QED
    BY <1>3, <1>4, <1>5, <1>6, <2>1, <2>2, <2>3 DEF Execution
<1>9. QED
  BY <1>7, <1>8

\* P, D and N, when they are executed.
LEMMA PairFrame ==
  ASSUME Execution, pc' # "failed", Cmd.code \in {"P", "D", "N"}, ~Skip
  PROVE  /\ Cmd.code = "P" => PrintFirst
         /\ Cmd.code = "D" => DeleteFirst
         /\ Cmd.code = "N" => AppendNext
<1> USE DEF Selected
<1>1. ~RegexError
  BY DEF RegexError
<1>2. ~(Enter \/ Label \/ Queue \/ Change \/ Delete \/ Write \/ Execute \/ Get \/ GetAppend \/ Hold
        \/ HoldAppend \/ Exchange \/ NextLine \/ PrintPattern \/ WriteFile \/ Quit \/ Substitute
        \/ BranchIf \/ Transliterate \/ Zap)
  BY DEF Enter, Label, Queue, Change, Delete, Write, Execute, Get, GetAppend, Hold, HoldAppend,
         Exchange, NextLine, PrintPattern, WriteFile, Quit, Substitute, BranchIf, Transliterate, Zap
<1>3. PrintFirst => Cmd.code = "P"
  BY DEF PrintFirst
<1>4. DeleteFirst => Cmd.code = "D"
  BY DEF DeleteFirst
<1>5. AppendNext => Cmd.code = "N"
  BY DEF AppendNext
<1>6. QED
  BY <1>1, <1>2, <1>3, <1>4, <1>5 DEF Execution

-----------------------------------------------------------------------------
(* Scripts in which P and D come in pairs.                                 *)

\* The last line has a newline or is not empty.
LineEnded(space) == space.nl \/ space.content[Len(space.content)] # Empty

LEMMA EndedFacts ==
  ASSUME NEW p \in Space, LineEnded(p)
  PROVE  /\ p # Blank /\ FirstLine(p) # Blank
         /\ Len(p.content) > 1 => LineEnded([p EXCEPT !.content = Tail(@)])
         /\ FirstLine(p).content = <<Head(p.content)>>
         /\ p.content = <<Head(p.content)>> \o Tail(p.content)
         /\ Head(p.content) \in Seg /\ Tail(p.content) \in Seq(Seg)
         /\ ~HasNewline(p) => Tail(p.content) = <<>>
<1>1. /\ p = [content |-> p.content, nl |-> p.nl] /\ p.content \in Seq(Seg) /\ Len(p.content) \in Nat
      /\ Len(p.content) > 0
  <2>1. p.content \in Content
    BY DEF Space
  <2>2. QED
    BY <2>1 DEF Space, Content
<1> DEFINE x == p.content
<1>2. x \in Seq(Seg) /\ Len(x) \in Nat /\ Len(x) > 0
  BY <1>1
<1>3. /\ Head(x) \in Seg /\ Tail(x) \in Seq(Seg) /\ x = <<Head(x)>> \o Tail(x)
      /\ Len(Tail(x)) = Len(x) - 1
  <2> HIDE DEF x
  <2>1. Head(x) \in Seg /\ Tail(x) \in Seq(Seg) /\ Len(Tail(x)) = Len(x) - 1 /\ Head(x) = x[1]
    BY <1>2
  <2>2. \A i \in 1 .. Len(Tail(x)) : Tail(x)[i] = x[i + 1]
    BY <1>2
  <2> DEFINE y == <<Head(x)>> \o Tail(x)
  <2>3. y \in Seq(Seg) /\ Len(y) = Len(x) /\ \A i \in 1 .. Len(x) : y[i] = x[i]
    BY <1>2, <2>1, <2>2
  <2> HIDE DEF y
  <2>4. x = y
    BY <1>2, <2>3, SeqEqual
  <2>5. QED
    BY <2>1, <2>4 DEF y
<1>4. p # Blank
  BY <1>1 DEF Blank, LineEnded
<1>5. FirstLine(p) # Blank
  BY <1>4 DEF FirstLine, Blank
<1>6. ASSUME Len(x) > 1 PROVE LineEnded([p EXCEPT !.content = Tail(@)])
  <2> DEFINE q == [p EXCEPT !.content = Tail(@)]
  <2>1. q.nl = p.nl /\ q.content = Tail(x)
    BY <1>1
  <2>2. Len(Tail(x)) = Len(x) - 1 /\ Tail(x)[Len(x) - 1] = x[Len(x)]
    BY <1>2, <1>6
  <2> HIDE DEF q
  <2>3. LineEnded(q)
    BY <2>1, <2>2 DEF LineEnded
  <2>4. QED
    BY <2>3 DEF q
<1>7. ASSUME ~HasNewline(p) PROVE Len(x) = 1 /\ Tail(x) = <<>> /\ FirstLine(p) = p
  <2>1. ~(Len(x) > 1)
    BY <1>7 DEF HasNewline
  <2>2. FirstLine(p) = p
    BY <1>7 DEF FirstLine
  <2>3. ASSUME NEW n \in Nat, n > 0, ~(n > 1) PROVE n = 1
    BY <2>3
  <2>4. Len(x) = 1
    BY <1>2, <2>1, <2>3, Zenon
  <2>5. Tail(x) = <<>>
    <3>1. Len(Tail(x)) = 0
      BY <1>3, <2>4
    <3>2. \A z \in Seq(Seg) : Len(z) = 0 => z = <<>>
      OBVIOUS
    <3>3. QED
      BY <1>3, <3>1, <3>2, Zenon
  <2>6. QED
    BY <2>2, <2>4, <2>5
<1>8. FirstLine(p).content = <<Head(x)>>
  <2>1. CASE HasNewline(p)
    BY <2>1 DEF FirstLine
  <2>2. CASE ~HasNewline(p)
    <3>1. x = <<Head(x)>>
      <4> HIDE DEF x
      <4>1. Len(x) = 1 /\ Head(x) = x[1]
        BY <1>2, <1>7, <2>2
      <4>2. QED
        BY <1>2, <4>1
    <3>2. QED
      BY <1>7, <2>2, <3>1
  <2>3. QED
    BY <2>1, <2>2
<1>9. QED
  BY <1>3, <1>4, <1>5, <1>6, <1>7, <1>8

\* The line read ends what is read.
LEMMA ReadEnded ==
  ASSUME Typed, ReadLine
  PROVE  LineEnded(pattern')
<1> DEFINE line == Lines[pos + 1]
           nl   == pos + 1 < Len(Lines) \/ job.files[file].nl
           read == IF inputAction.pending THEN inputAction.prepend \o <<line>> ELSE <<line>>
<1>1. pattern' = [content |-> read, nl |-> nl] /\ pos < Len(Lines)
  BY DEF ReadLine
<1>2. pos \in Nat /\ Len(Lines) \in Nat /\ line \in Seg /\ inputAction.prepend \in Seq(Seg)
  <2>1. inputAction.prepend \in Content
    BY DEF Typed, TypeOK
  <2>2. QED
    BY <1>1, <2>1, FileFacts DEF Typed, TypeOK, Content
<1>3. read[Len(read)] = line
  <2> HIDE DEF line
  <2> DEFINE before == inputAction.prepend
  <2>1. before \in Seq(Seg) /\ Len(before) \in Nat
    BY <1>2
  <2> HIDE DEF before
  <2>2. Len(before \o <<line>>) = Len(before) + 1 /\ (before \o <<line>>)[Len(before) + 1] = line
    BY <1>2, <2>1
  <2>3. Len(<<line>>) = 1 /\ <<line>>[1] = line
    OBVIOUS
  <2>4. read = before \o <<line>> \/ read = <<line>>
    BY DEF before
  <2>5. QED
    BY <2>2, <2>3, <2>4
<1>4. ASSUME ~nl PROVE line # Empty
  <2>1. pos + 1 = Len(Lines) /\ ~job.files[file].nl
    BY <1>1, <1>2, <1>4
  <2>2. job.files \in Inputs /\ file \in DOMAIN job.files
    BY InputsAssumption DEF Typed, JobOK, TypeOK
  <2>3. QED
    BY <2>1, <2>2, InputsAssumption DEF Lines
<1> HIDE DEF read, nl, line
<1>5. QED
  BY <1>1, <1>3, <1>4 DEF LineEnded

\* The scripts of PairsPrintOnce, with its settings.
Smooth == Paired /\ (quiet => OnlyDEnds)

\* The lines read and not yet printed.
Unprinted ==
  IF pc = "exec"
  THEN IF cur = 0 THEN IF pattern = Blank THEN <<>> ELSE pattern.content
       ELSE IF Cmd.code = "D" THEN Tail(pattern.content) ELSE pattern.content
  ELSE IF inputAction.pending THEN inputAction.prepend ELSE <<>>

\* Where the next command is not the D of a pair, nor with -n the end.
Entry(i) == /\ i # 0 => Prog[i].code # "D"
            /\ quiet => i # 0

PairsCarried ==
  /\ pc = "exec" \/ stop => ~inputAction.pending
  /\ pc = "done" /\ ~quiet => ~inputAction.pending
  /\ Smooth /\ pc # "failed" =>
       /\ PrintedIn(out) \o Unprinted = consumed
       /\ pc = "exec" /\ cur # 0 => LineEnded(pattern)
       /\ pc = "exec" /\ cur = 0 /\ quiet => pattern = Blank
       /\ inputAction.pending => Entry(inputAction.next)

LEMMA PairedFacts ==
  ASSUME Typed, Smooth, cur # 0
  PROVE  /\ Cmd.code \in (Preserving \ {"p"}) \cup {"D"}
         /\ Cmd.code = "P" => AlwaysApplies(Cmd) /\ Cmd.next # 0 /\ Prog[Cmd.next].code = "D"
         /\ Cmd.code = "D" => AlwaysApplies(Cmd)
         /\ Cmd.code \notin {"P", "D"} => Entry(Cmd.next)
         /\ Cmd.code \in {"{", "b", "t", "T"} => Entry(Cmd.goto)
         /\ quiet => Cmd.code \notin {"n", "q"}
<1>1. cur \in DOMAIN Prog
  <2>1. cur \in 1 .. Len(Prog) /\ Prog \in Seq(Command)
    BY CommandFacts, ScriptsAssumption DEF Typed, JobOK, Prog
  <2>2. QED
    BY <2>1
<1>2. QED
  BY <1>1 DEF Smooth, Paired, OnlyDEnds, Cmd, Entry

LEMMA TopEntry ==
  ASSUME Typed, Smooth
  PROVE  Entry(Top)
<1>1. Prog \in Seq(Command)
  BY ScriptsAssumption DEF Typed, JobOK, Prog
<1>2. CASE Prog = <<>>
  BY <1>2 DEF Top, Entry, Smooth, OnlyDEnds
<1>3. CASE Prog # <<>>
  <2>1. 1 \in DOMAIN Prog /\ Top = 1
    BY <1>1, <1>3 DEF Top
  <2>2. QED
    BY <2>1 DEF Smooth, Paired, Entry
<1>4. QED
  BY <1>2, <1>3

\* A command of a script of pairs.
LEMMA PairedCommand ==
  ASSUME Typed, Typed', Stopping, out \in Seq(WriteEvent), PairsCarried, Execution,
         Smooth, Smooth', pc' # "failed"
  PROVE  /\ PrintedIn(out') \o Unprinted' = consumed
         /\ pc' = "exec" /\ cur' # 0 => LineEnded(pattern')
         /\ pc' = "exec" /\ cur' = 0 /\ quiet' => pattern' = Blank
         /\ inputAction'.pending => Entry(inputAction.next)'
<1>1. /\ pc = "exec" /\ cur # 0 /\ UNCHANGED <<job, consumed>> /\ Prog' = Prog
      /\ ~inputAction.pending /\ LineEnded(pattern) /\ pattern \in Space
      /\ PrintedIn(out) \o Unprinted = consumed
  BY ExecutionFrame DEF inputVars, Prog, PairsCarried, Typed, TypeOK
<1>2. PrintedIn(out) \in Seq(Seg)
  BY PrintedTyped
<1>3. Cmd.code # "D" => Unprinted = pattern.content
  BY <1>1 DEF Unprinted
<1>4. CASE Cmd.code = "P"
  <2> DEFINE w == Event("print", cur, <<Head(pattern.content)>>, FirstLine(pattern).nl)
  <2>1. PrintFirst
    BY <1>1, <1>4, PairedFacts, AlwaysSelected, PairFrame
  <2>2. /\ pc' = "exec" /\ cur' = Cmd.next /\ UNCHANGED <<pattern, inputAction>>
        /\ out' = out \o Chunk("print", cur, FirstLine(pattern))
    BY <1>1, <2>1 DEF PrintFirst, Continue, spaceVars
  <2>3. /\ FirstLine(pattern) # Blank /\ FirstLine(pattern).content = <<Head(pattern.content)>>
        /\ pattern.content = <<Head(pattern.content)>> \o Tail(pattern.content)
        /\ Head(pattern.content) \in Seg /\ Tail(pattern.content) \in Seq(Seg)
    BY <1>1, EndedFacts, Zenon
  <2>4. out' = out \o <<w>>
    BY <2>2, <2>3 DEF Chunk
  <2>5. w \in WriteEvent /\ TextOf(w) = <<Head(pattern.content)>>
    <3>1. FirstLine(pattern) \in Space /\ cur \in Nat
      BY <1>1, FirstLineSpace, CommandFacts
    <3>2. <<Head(pattern.content)>> \in Content /\ FirstLine(pattern).nl \in BOOLEAN
      BY <2>3, <3>1, Singleton DEF Space
    <3>3. w \in WrittenBy("print", cur)
      BY <3>1, <3>2, EventWritten, WhyMember, Zenon
    <3>4. QED
      BY <3>3 DEF WrittenBy, TextOf, Event
  <2> HIDE DEF w
  <2>6. PrintedIn(out') = PrintedIn(out) \o <<Head(pattern.content)>>
    BY <2>4, <2>5, PrintedOne, Zenon
  <2>7. Unprinted' = Tail(pattern.content)
    <3>1. cur' # 0 /\ Prog[cur'].code = "D"
      BY <1>1, <1>4, <2>2, PairedFacts
    <3>2. Cmd'.code = "D"
      BY <1>1, <3>1 DEF Cmd
    <3>3. QED
      BY <2>2, <3>1, <3>2 DEF Unprinted
  <2>8. PrintedIn(out') \o Unprinted' = consumed
    <3>1. <<Head(pattern.content)>> \in Seq(Seg)
      BY <2>3
    <3>2. (PrintedIn(out) \o <<Head(pattern.content)>>) \o Tail(pattern.content)
            = PrintedIn(out) \o (<<Head(pattern.content)>> \o Tail(pattern.content))
      BY <1>2, <2>3, <3>1, Associative
    <3>3. PrintedIn(out) \o pattern.content = consumed
      BY <1>1, <1>3, <1>4
    <3>4. QED
      BY <2>3, <2>6, <2>7, <3>2, <3>3, Zenon
  <2>9. cur' # 0
    BY <1>1, <1>4, <2>2, PairedFacts
  <2>10. QED
    BY <1>1, <2>2, <2>8, <2>9 DEF LineEnded
<1>5. CASE Cmd.code = "D"
  <2>1. DeleteFirst
    BY <1>1, <1>5, PairedFacts, AlwaysSelected, PairFrame
  <2>2. /\ pc' = "exec" /\ UNCHANGED <<inputAction, out, quiet>>
        /\ IF HasNewline(pattern)
           THEN pattern' = [pattern EXCEPT !.content = Tail(@)] /\ cur' = Top
           ELSE pattern' = Blank /\ cur' = 0
    BY <1>1, <2>1 DEF DeleteFirst, modeVars
  <2>3. Unprinted = Tail(pattern.content)
    BY <1>1, <1>5 DEF Unprinted
  <2>4. CASE HasNewline(pattern)
    <3>1. pattern' = [pattern EXCEPT !.content = Tail(@)] /\ cur' = Top
      BY <2>2, <2>4
    <3>2. LineEnded(pattern') /\ (pattern').content = Tail(pattern.content)
      <4>1. Len(pattern.content) > 1
        BY <2>4 DEF HasNewline
      <4>2. LineEnded([pattern EXCEPT !.content = Tail(@)])
        BY <1>1, <4>1, EndedFacts, Zenon
      <4>3. QED
        BY <1>1, <3>1, <4>2 DEF Space
    <3>3. Entry(cur') /\ pattern' # Blank
      BY <1>1, <3>1, <3>2, TopEntry, EndedFacts DEF Typed, TypeOK
    <3>4. cur' # 0 => (Cmd').code # "D"
      BY <1>1, <3>3 DEF Entry, Cmd
    <3>5. Unprinted' = Tail(pattern.content)
      BY <2>2, <3>2, <3>3, <3>4 DEF Unprinted
    <3>6. quiet' => cur' # 0
      BY <2>2, <3>3 DEF Entry
    <3>7. QED
      BY <1>1, <2>2, <2>3, <3>2, <3>5, <3>6 DEF LineEnded
  <2>5. CASE ~HasNewline(pattern)
    <3>1. pattern' = Blank /\ cur' = 0
      BY <2>2, <2>5
    <3>2. Tail(pattern.content) = <<>>
      BY <1>1, <2>5, EndedFacts, Zenon
    <3>3. Unprinted' = <<>>
      BY <2>2, <3>1 DEF Unprinted, Blank
    <3>4. QED
      BY <1>1, <2>2, <2>3, <3>1, <3>2, <3>3
  <2>6. QED
    BY <2>4, <2>5
<1>6. CASE Cmd.code = "N" /\ ~Skip
  <2>1. AppendNext
    BY <1>6, PairFrame
  <2>2. /\ pc' = "read" /\ inputAction' = Pending(pattern) /\ out' = out \o Appended
        /\ UNCHANGED quiet
    BY <2>1 DEF AppendNext, modeVars
  <2>3. PrintedIn(out') = PrintedIn(out)
    BY <2>2, TextlessWrites, PrintedNothing, Zenon
  <2>4. Unprinted' = pattern.content /\ inputAction'.next = Cmd.next
    BY <2>2 DEF Unprinted, Pending
  <2>5. Entry(Cmd.next)
    BY <1>1, <1>6, PairedFacts
  <2>6. Entry(inputAction.next)'
    BY <1>1, <2>2, <2>4, <2>5 DEF Entry
  <2>7. QED
    BY <1>1, <1>3, <1>6, <2>2, <2>3, <2>4, <2>6
<1>7. CASE Cmd.code \notin {"P", "D", "N"} \/ Skip
  <2>1. Cmd.code \notin {"P", "D"}
    BY <1>1, <1>7, PairedFacts, AlwaysSelected
  <2>2. Hands
    <3>1. Cmd.code \in Preserving \ {"p", "P", "N"} \/ Skip
      BY <1>1, <1>7, <2>1, PairedFacts
    <3>2. QED
      BY <3>1, HandsOn
  <2>3. PrintedIn(out') = PrintedIn(out)
    BY <2>2, PrintedNothing, Zenon DEF Hands
  <2>4. Entry(cur') \/ (cur' = 0 /\ ~quiet)
    BY <1>1, <2>1, <2>2, PairedFacts DEF Hands
  <2>5. pc' = "exec" /\ UNCHANGED <<pattern, inputAction, quiet>>
    BY <2>2 DEF Hands
  <2>6. cur' # 0 => (Cmd').code # "D"
    BY <1>1, <2>4 DEF Entry, Cmd
  <2>7. pattern # Blank
    BY <1>1, EndedFacts, Zenon
  <2>8. Unprinted' = pattern.content
    BY <2>5, <2>6, <2>7 DEF Unprinted, Blank
  <2>9. quiet' => cur' # 0
    BY <2>4, <2>5 DEF Entry
  <2>10. QED
    BY <1>1, <1>3, <2>1, <2>3, <2>5, <2>8, <2>9 DEF LineEnded
<1>8. QED
  BY <1>4, <1>5, <1>6, <1>7

\* The end of a cycle prints what is left of its lines.
LEMMA PairedCycle ==
  ASSUME Typed, out \in Seq(WriteEvent), PairsCarried, EndCycle, Smooth
  PROVE  PrintedIn(out') \o Unprinted' = consumed
<1> DEFINE a == IF quiet THEN <<>> ELSE Chunk("auto", 0, pattern)
<1>1. /\ pc = "exec" /\ cur = 0 /\ pc' # "exec" /\ UNCHANGED <<consumed, inputAction>>
      /\ out' = out \o (a \o Appended) \o Closing /\ ~inputAction.pending
      /\ PrintedIn(out) \o Unprinted = consumed /\ (quiet => pattern = Blank)
      /\ pattern \in Space
  BY DEF EndCycle, AfterCycle, CycleOutput, inputVars, PairsCarried, Typed, TypeOK
<1>2. Appended \in Seq(Textless) /\ Closing \in Seq(Textless)
  BY TextlessWrites
<1>3. Unprinted' = <<>>
  BY <1>1 DEF Unprinted
<1>4. a \in Seq(WriteEvent) /\ PrintedIn(out \o a) = consumed
  <2>1. CASE pattern = Blank
    <3>1. a = <<>> /\ Unprinted = <<>>
      BY <1>1, <2>1 DEF Chunk, Unprinted
    <3> HIDE DEF a
    <3>2. out \o a = out /\ a \in Seq(WriteEvent)
      BY <3>1, ConcatEmptySeq
    <3>3. PrintedIn(out) \o <<>> = PrintedIn(out)
      BY PrintedTyped, ConcatEmptySeq
    <3>4. QED
      BY <1>1, <3>1, <3>2, <3>3, Zenon
  <2>2. CASE pattern # Blank
    <3> DEFINE w == Event("auto", 0, pattern.content, pattern.nl)
    <3>1. a = <<w>> /\ Unprinted = pattern.content
      BY <1>1, <2>2 DEF Chunk, Unprinted
    <3>2. w \in WriteEvent /\ TextOf(w) = pattern.content
      <4>1. pattern.content \in Content /\ pattern.nl \in BOOLEAN /\ 0 \in Nat
        BY <1>1 DEF Space
      <4>2. w \in WrittenBy("auto", 0)
        BY <4>1, EventWritten, WhyMember, Zenon
      <4>3. QED
        BY <4>2 DEF WrittenBy, TextOf, Event
    <3> HIDE DEF w, a
    <3>3. PrintedIn(out \o <<w>>) = PrintedIn(out) \o pattern.content
      BY <3>2, PrintedOne, Zenon
    <3>4. <<w>> \in Seq(WriteEvent)
      BY <3>2
    <3>5. QED
      BY <1>1, <3>1, <3>3, <3>4
  <2>3. QED
    BY <2>1, <2>2
<1>5. out' = ((out \o a) \o Appended) \o Closing
  <2> HIDE DEF a
  <2>1. Appended \in Seq(WriteEvent)
    BY <1>2, Wider DEF Textless
  <2>2. out \o (a \o Appended) = (out \o a) \o Appended
    BY <1>4, <2>1, ConcatAssociative
  <2>3. QED
    BY <1>1, <2>2
<1> DEFINE b == out \o a
           c == b \o Appended
<1>6. PrintedIn(out') = consumed
  <2> HIDE DEF a
  <2>1. b \in Seq(WriteEvent)
    BY <1>4
  <2>2. Appended \in Seq(WriteEvent)
    BY <1>2, Wider DEF Textless
  <2> HIDE DEF b
  <2>3. c \in Seq(WriteEvent) /\ PrintedIn(c) = PrintedIn(b)
    BY <1>2, <2>1, <2>2, PrintedNothing
  <2> HIDE DEF c
  <2>4. PrintedIn(c \o Closing) = PrintedIn(c)
    BY <1>2, <2>3, PrintedNothing
  <2>5. PrintedIn(b) = consumed
    BY <1>4 DEF b
  <2>6. out' = c \o Closing
    BY <1>5 DEF b, c
  <2>7. QED
    BY <2>3, <2>4, <2>5, <2>6
<1>7. PrintedIn(out') \o <<>> = PrintedIn(out')
  <2>1. consumed \in Seq(Seg)
    BY DEF Typed, TypeOK
  <2>2. QED
    BY <1>6, <2>1, ConcatEmptySeq
<1>8. QED
  BY <1>3, <1>6, <1>7

\* At the end of a file an N that found no line prints what it has.
LEMMA PairedClose ==
  ASSUME Typed, out \in Seq(WriteEvent), PairsCarried, CloseFile, Smooth
  PROVE  PrintedIn(out') \o Unprinted' = consumed
<1>1. /\ pc = "close" /\ pc' # "exec" /\ UNCHANGED consumed
      /\ PrintedIn(out) \o Unprinted = consumed
  BY DEF CloseFile, PairsCarried
<1>2. CASE PrintsPending
  <2> DEFINE w == Event("eof", 0, inputAction.prepend, TRUE)
  <2>1. /\ out' = Append(out, w) /\ inputAction' = NoAction /\ inputAction.pending
        /\ inputAction.prepend \in Content
    BY <1>2 DEF CloseFile, PrintsPending, Typed, TypeOK
  <2>2. Unprinted = inputAction.prepend /\ Unprinted' = <<>>
    BY <1>1, <2>1 DEF Unprinted, NoAction
  <2>3. w \in WriteEvent /\ TextOf(w) = inputAction.prepend
    <3>1. 0 \in Nat /\ TRUE \in BOOLEAN
      OBVIOUS
    <3>2. w \in WrittenBy("eof", 0)
      BY <2>1, <3>1, EventWritten, WhyMember, Zenon
    <3>3. QED
      BY <3>2 DEF WrittenBy, TextOf, Event
  <2> HIDE DEF w
  <2>4. out' = out \o <<w>>
    BY <2>1, <2>3, AppendIsConcat
  <2>5. PrintedIn(out') = consumed
    BY <1>1, <2>2, <2>3, <2>4, PrintedOne
  <2>6. consumed \in Seq(Seg)
    BY DEF Typed, TypeOK
  <2>7. QED
    BY <2>2, <2>5, <2>6, ConcatEmptySeq
<1>3. CASE ~PrintsPending
  <2>1. UNCHANGED <<out, inputAction>>
    BY <1>3 DEF CloseFile
  <2>2. Unprinted' = Unprinted
    BY <1>1, <2>1 DEF Unprinted
  <2>3. QED
    BY <1>1, <2>1, <2>2
<1>4. QED
  BY <1>2, <1>3

\* A line read joins those not printed.
LEMMA PairedRead ==
  ASSUME Typed, out \in Seq(WriteEvent), PairsCarried, ReadLine, Smooth
  PROVE  /\ PrintedIn(out') \o Unprinted' = consumed'
         /\ quiet => cur' # 0
<1> DEFINE line == Lines[pos + 1]
           read == IF inputAction.pending THEN inputAction.prepend \o <<line>> ELSE <<line>>
<1>1. /\ pc = "read" /\ pc' = "exec" /\ (pattern').content = read /\ UNCHANGED <<job, out>>
      /\ consumed' = Append(consumed, line) /\ line \in Seg
      /\ cur' = (IF inputAction.pending THEN inputAction.next ELSE Top)
      /\ PrintedIn(out) \o Unprinted = consumed
  BY FileFacts DEF ReadLine, PairsCarried
<1>2. /\ consumed \in Seq(Seg) /\ inputAction.prepend \in Seq(Seg)
      /\ Prog' = Prog
  BY <1>1 DEF Typed, TypeOK, Content, Prog
<1>3. Entry(cur')
  BY <1>1, TopEntry DEF PairsCarried
<1>4. Unprinted' = read
  <2>1. cur' # 0 => (Cmd').code # "D"
    BY <1>2, <1>3 DEF Entry, Cmd
  <2>2. pattern' # Blank
    BY ReadNotBlank
  <2>3. QED
    BY <1>1, <2>1, <2>2 DEF Unprinted, Blank
<1> HIDE DEF line
<1>5. consumed' = consumed \o <<line>> /\ <<line>> \in Seq(Seg)
  BY <1>1, <1>2, AppendIsConcat
<1>6. PrintedIn(out) \o read = consumed \o <<line>>
  <2>1. CASE inputAction.pending
    <3>1. Unprinted = inputAction.prepend /\ read = inputAction.prepend \o <<line>>
      BY <1>1, <2>1 DEF Unprinted
    <3>2. (PrintedIn(out) \o inputAction.prepend) \o <<line>>
            = PrintedIn(out) \o (inputAction.prepend \o <<line>>)
      BY <1>2, <1>5, PrintedTyped, Associative
    <3>3. QED
      BY <1>1, <3>1, <3>2
  <2>2. CASE ~inputAction.pending
    <3>1. Unprinted = <<>> /\ read = <<line>>
      BY <1>1, <2>2 DEF Unprinted
    <3>2. QED
      BY <1>1, <3>1, PrintedTyped, ConcatEmptySeq
  <2>3. QED
    BY <2>1, <2>2
<1>7. QED
  BY <1>1, <1>3, <1>4, <1>5, <1>6 DEF Entry

LEMMA StepPairs ==
  ASSUME Typed, Typed', Stopping, Ordered, PairsCarried, [Next]_vars
  PROVE  PairsCarried'
<1>0. out \in Seq(WriteEvent)
  BY DEF Ordered
<1>1. ASSUME Execution PROVE PairsCarried'
  <2>1. /\ pc = "exec" /\ cur # 0 /\ UNCHANGED <<job, consumed>> /\ (quiet => quiet')
        /\ (pc' \in {"exec", "failed"} /\ UNCHANGED inputAction) \/ pc' = "read"
        /\ UNCHANGED stop \/ pc' = "exec"
    BY <1>1, ExecutionFrame DEF inputVars
  <2>2. pc' = "exec" \/ stop' => ~inputAction'.pending
    <3>1. ~stop /\ ~inputAction.pending
      BY <2>1 DEF PairsCarried, Stopping
    <3>2. QED
      BY <2>1, <3>1
  <2>3. ASSUME Smooth', pc' # "failed"
        PROVE  /\ PrintedIn(out') \o Unprinted' = consumed'
               /\ pc' = "exec" /\ cur' # 0 => LineEnded(pattern')
               /\ pc' = "exec" /\ cur' = 0 /\ quiet' => pattern' = Blank
               /\ inputAction'.pending => Entry(inputAction.next)'
    <3>1. Paired /\ (quiet => OnlyDEnds)
      <4>1. Prog' = Prog
        BY <2>1 DEF Prog
      <4>2. Paired' <=> Paired
        BY <4>1 DEF Paired, AlwaysApplies
      <4>3. OnlyDEnds' <=> OnlyDEnds
        BY <4>1 DEF OnlyDEnds
      <4>4. QED
        BY <2>1, <2>3, <4>2, <4>3 DEF Smooth
    <3>2. Smooth
      BY <3>1 DEF Smooth
    <3>3. QED
      BY <1>0, <1>1, <2>1, <2>3, <3>2, PairedCommand
  <2>4. QED
    BY <2>1, <2>2, <2>3 DEF PairsCarried
<1>2. ASSUME Files \/ UNCHANGED vars PROVE Smooth' <=> Smooth
  <2>1. UNCHANGED <<job, quiet>>
    BY <1>2 DEF Files, OpenFile, OpenError, ReadAtZero, ReadLine, EndOfFile, CloseFile, EndCycle,
                vars, inputVars, modeVars
  <2>2. Prog' = Prog
    BY <2>1 DEF Prog
  <2>3. QED
    BY <2>1, <2>2 DEF Smooth, Paired, OnlyDEnds, AlwaysApplies
<1>3. ASSUME ReadLine PROVE PairsCarried'
  <2>1. /\ pc' = "exec" /\ inputAction' = NoAction /\ ~inputAction'.pending /\ UNCHANGED quiet
    BY <1>3 DEF ReadLine, NoAction
  <2>2. Smooth' => Smooth
    BY <1>2, <1>3 DEF Files
  <2>3. ASSUME Smooth PROVE /\ PrintedIn(out') \o Unprinted' = consumed'
                            /\ LineEnded(pattern') /\ (quiet => cur' # 0)
    BY <1>0, <1>3, <2>3, PairedRead, ReadEnded
  <2>4. QED
    BY <2>1, <2>2, <2>3 DEF PairsCarried
<1>4. ASSUME EndCycle PROVE PairsCarried'
  <2>1. /\ pc = "exec" /\ pc' \in {"close", "read"} /\ UNCHANGED <<consumed, inputAction, stop>>
        /\ ~inputAction.pending
    BY <1>4 DEF EndCycle, AfterCycle, inputVars, modeVars, PairsCarried
  <2>2. Smooth' => Smooth
    BY <1>2, <1>4 DEF Files
  <2>3. Smooth => PrintedIn(out') \o Unprinted' = consumed
    BY <1>0, <1>4, PairedCycle
  <2>4. QED
    BY <2>1, <2>2, <2>3 DEF PairsCarried
<1>5. ASSUME CloseFile PROVE PairsCarried'
  <2>1. /\ pc = "close" /\ pc' \in {"done", "open"} /\ UNCHANGED <<job, consumed, quiet, stop>>
        /\ inputAction' \in {NoAction, inputAction} /\ (pc' = "done" => stop \/ IsLastFile)
    BY <1>5 DEF CloseFile, modeVars
  <2>2. stop' => ~inputAction'.pending
    BY <2>1 DEF PairsCarried, NoAction
  <2>3. pc' = "done" /\ ~quiet' => ~inputAction'.pending
    <3>1. CASE PrintsPending
      BY <1>5, <3>1 DEF CloseFile, NoAction
    <3>2. CASE ~PrintsPending
      <4>1. UNCHANGED inputAction
        BY <1>5, <3>2 DEF CloseFile
      <4>2. QED
        BY <2>1, <2>2, <3>2, <4>1 DEF PrintsPending
    <3>3. QED
      BY <3>1, <3>2
  <2>4. Smooth' => Smooth
    BY <1>2, <1>5 DEF Files
  <2>5. Smooth => PrintedIn(out') \o Unprinted' = consumed
    BY <1>0, <1>5, PairedClose
  <2>6. ASSUME Smooth, inputAction'.pending PROVE Entry(inputAction.next)'
    <3>1. UNCHANGED inputAction /\ Entry(inputAction.next) /\ Prog' = Prog
      BY <2>1, <2>6 DEF PairsCarried, NoAction, Prog
    <3>2. QED
      BY <2>1, <3>1 DEF Entry
  <2>7. QED
    BY <2>1, <2>2, <2>3, <2>4, <2>5, <2>6 DEF PairsCarried
<1>6. ASSUME ReadAtZero PROVE PairsCarried'
  <2>1. /\ pc = "zero" /\ pc' \in {"zero", "read"}
        /\ UNCHANGED <<job, consumed, quiet, stop, inputAction>>
        /\ out' = out \/ (cur # 0 /\ out' = Append(out, Event("zero", cur, <<Empty>>, TRUE)))
    BY <1>6 DEF ReadAtZero, modeVars, inputVars
  <2>2. PrintedIn(out') = PrintedIn(out)
    <3>1. CASE out' = out
      BY <3>1
    <3>2. CASE cur # 0 /\ out' = Append(out, Event("zero", cur, <<Empty>>, TRUE))
      <4> DEFINE w == Event("zero", cur, <<Empty>>, TRUE)
      <4>1. <<w>> \in Seq(Textless)
        <5>1. cur \in Nat
          BY <3>2, CommandFacts
        <5>2. QED
          BY <5>1, TextlessWrites, Zenon
      <4>3. out' = Append(out, w)
        BY <3>2
      <4> HIDE DEF w
      <4>2. w \in WriteEvent
        BY <4>1 DEF Textless
      <4>4. out' = out \o <<w>>
        BY <1>0, <4>2, <4>3, AppendIsConcat
      <4>5. QED
        BY <1>0, <4>1, <4>4, PrintedNothing
    <3>3. QED
      BY <2>1, <3>1, <3>2
  <2>3. Unprinted' = Unprinted /\ (Smooth' => Smooth) /\ Prog' = Prog
    BY <1>2, <1>6, <2>1 DEF Files, Unprinted, Prog
  <2>4. Entry(inputAction.next)' <=> Entry(inputAction.next)
    BY <2>1, <2>3 DEF Entry
  <2>5. QED
    BY <2>1, <2>2, <2>3, <2>4 DEF PairsCarried
<1>7. ASSUME OpenFile \/ OpenError \/ EndOfFile PROVE PairsCarried'
  <2>1. /\ pc \in {"open", "read"} /\ pc' \in {"zero", "failed", "close"}
        /\ UNCHANGED <<job, consumed, quiet, stop, inputAction, out>>
    BY <1>7 DEF OpenFile, OpenError, EndOfFile, modeVars, inputVars
  <2>2. Unprinted' = Unprinted /\ (Smooth' => Smooth) /\ Prog' = Prog
    BY <1>2, <1>7, <2>1 DEF Files, Unprinted, Prog
  <2>3. Entry(inputAction.next)' <=> Entry(inputAction.next)
    BY <2>1, <2>2 DEF Entry
  <2>4. QED
    BY <2>1, <2>2, <2>3 DEF PairsCarried
<1>8. ASSUME UNCHANGED vars PROVE PairsCarried'
  <2>1. UNCHANGED <<job, consumed, quiet, stop, inputAction, out, pc, cur, pattern>>
    BY <1>8 DEF vars, inputVars, modeVars, spaceVars
  <2>2. Prog' = Prog /\ (Smooth' => Smooth)
    BY <1>2, <1>8, <2>1 DEF Prog
  <2>3. Unprinted' = Unprinted /\ (Entry(inputAction.next)' <=> Entry(inputAction.next))
    BY <2>1, <2>2 DEF Unprinted, Cmd, Entry, Blank
  <2>4. (LineEnded(pattern)' <=> LineEnded(pattern)) /\ Blank' = Blank
    BY <2>1 DEF LineEnded, Blank
  <2>5. QED
    BY <2>1, <2>2, <2>3, <2>4 DEF PairsCarried
<1>9. QED
  BY <1>1, <1>3, <1>4, <1>5, <1>6, <1>7, <1>8 DEF Next, Files, Terminated

LEMMA InitPairs == Init => PairsCarried
<1> SUFFICES ASSUME Init PROVE PairsCarried
  OBVIOUS
<1>1. pc = "open" /\ ~stop /\ ~inputAction.pending /\ out = <<>> /\ consumed = <<>>
  BY DEF Init, NoAction
<1>2. PrintedIn(out) = <<>>
  <2>1. out \in Seq(WriteEvent) /\ Len(out) = 0
    BY <1>1
  <2>2. PICK f : Sums(f, out) /\ PrintedIn(out) = f[Len(out)]
    BY <2>1, PrintedSums
  <2>3. QED
    BY <2>1, <2>2 DEF Sums
<1>3. Unprinted = <<>>
  BY <1>1 DEF Unprinted
<1>4. QED
  BY <1>1, <1>2, <1>3 DEF PairsCarried

\* For every script in which D follows each P and nothing else, and the other
\* commands neither write nor change the pattern space, and for every input:
\* each line is printed once and in order, by P, at the end of a cycle or, when
\* an N finds no line, at the end of the input.  With -n this needs a script
\* that only D ends, and an N without a line withholds its pattern space.
THEOREM WindowsPrintInput == Spec => []PairsPrintOnce
<1>1. Typed /\ PairsCarried => PairsPrintOnce
  <2> SUFFICES ASSUME PairsCarried, pc = "done", Paired, quiet => OnlyDEnds
               PROVE  PrintedIn(out) \o Withheld = consumed
    BY DEF PairsPrintOnce
  <2>1. PrintedIn(out) \o Unprinted = consumed
    BY DEF PairsCarried, Smooth
  <2>2. Unprinted = Withheld
    BY DEF PairsCarried, Unprinted, Withheld
  <2>3. QED
    BY <2>1, <2>2
<1>2. Init => Stopping
  BY DEF Init, Stopping
<1>3. QED
  BY <1>1, <1>2, InitTyped, StepTyped, InitOrdered, StepOrdered, StepStopping, InitPairs, StepPairs,
     PTL DEF Spec
=============================================================================
