-------------------------- MODULE ProcessorProofs ---------------------------
(***************************************************************************)
(* Theorems about Processor, for every set of lines, scripts and inputs.   *)
(***************************************************************************)
EXTENDS Processor, TLAPS

\* The job never changes, and is one of those assumed.
JobOK == job.prog \in Scripts /\ job.files \in Inputs /\ job.separate \in BOOLEAN

Typed == JobOK /\ TypeOK

-----------------------------------------------------------------------------
(* Scripts and inputs.                                                     *)

LEMMA CommandFacts ==
  ASSUME Typed, cur # 0
  PROVE  /\ cur \in 1 .. Len(Prog)
         /\ Cmd \in Command
         /\ Cmd.next \in 0 .. Len(Prog)
         /\ Cmd.goto \in 0 .. Len(Prog)
BY ScriptsAssumption DEF Typed, JobOK, TypeOK, Prog, Cmd

LEMMA TopFacts ==
  ASSUME Typed
  PROVE  Top \in 0 .. Len(Prog)
<1>1. Prog \in Seq(Command)
  BY ScriptsAssumption DEF Typed, JobOK, Prog
<1>2. QED
  BY <1>1 DEF Top

LEMMA FileFacts ==
  ASSUME Typed
  PROVE  /\ Len(job.files) \in Nat
         /\ Lines \in Seq(Seg)
         /\ Len(Lines) \in Nat
         /\ job.files[file].nl \in BOOLEAN
         /\ pos < Len(Lines) => Lines[pos + 1] \in Seg
<1>1. job.files \in Seq(InputFile) /\ file \in 1 .. Len(job.files) /\ pos \in Nat
  BY InputsAssumption DEF Typed, JobOK, TypeOK
<1>2. job.files[file] \in InputFile
  BY <1>1
<1>3. Lines \in Seq(Seg)
  BY <1>2 DEF InputFile, Lines
<1>4. QED
  BY <1>1, <1>2, <1>3 DEF InputFile

-----------------------------------------------------------------------------
(* Addresses and pattern spaces.                                           *)

\* The latch holds nothing but the line that opened the range.
LEMMA StartAfterValues ==
  ASSUME NEW c, NEW start, NEW v
  PROVE  StartAfter(c, start, v) \in {start, Unlatched, v.line}
BY DEF StartAfter

LEMMA SavedAfterType ==
  ASSUME NEW c \in Command, NEW start, NEW saved \in SUBSET Seg
  PROVE  SavedAfter(c, start, saved) \in SUBSET Seg
<1>1. Consulted(c, start).re \in SUBSET Seg
  BY DEF Consulted, Command, Address, NoAddress
<1>2. QED
  BY <1>1 DEF SavedAfter, ReOrSaved

LEMMA Singleton ==
  ASSUME NEW s \in Seg
  PROVE  <<s>> \in Content
BY DEF Content

LEMMA Joined ==
  ASSUME NEW x \in Content, NEW y \in Content
  PROVE  x \o y \in Content
<1>1. /\ x \in Seq(Seg) /\ Len(x) \in Nat /\ Len(x) > 0
      /\ y \in Seq(Seg) /\ Len(y) \in Nat /\ Len(y) > 0
  BY DEF Content
<1>2. x \o y \in Seq(Seg) /\ Len(x \o y) > 0
  BY <1>1
<1>3. QED
  BY <1>2 DEF Content

LEMMA Remainder ==
  ASSUME NEW x \in Content, Len(x) > 1
  PROVE  Tail(x) \in Content
<1>1. x \in Seq(Seg) /\ Len(x) \in Nat
  BY DEF Content
<1>2. Tail(x) \in Seq(Seg) /\ Len(Tail(x)) > 0
  BY <1>1
<1>3. \A z \in Seq(Seg) : Len(z) > 0 => z \in Content
  BY DEF Content
<1>4. QED
  BY <1>2, <1>3

\* Replacing lines of a pattern space leaves a pattern space.
LEMMA MapContent ==
  ASSUME NEW x \in Content, NEW r, DOMAIN r = DOMAIN x,
         \A i \in DOMAIN x : r[i] \in Seg,
         r = [i \in DOMAIN x |-> r[i]]
  PROVE  r \in Content
<1>1. x \in Seq(Seg) /\ Len(x) \in Nat /\ Len(x) > 0 /\ DOMAIN x = 1 .. Len(x)
  BY DEF Content
<1>2. r \in [1 .. Len(x) -> Seg]
  BY <1>1
<1>3. r \in Seq(Seg) /\ r # <<>>
  BY <1>1, <1>2
<1>4. QED
  BY <1>3 DEF Content

-----------------------------------------------------------------------------
(* Type correctness.                                                       *)

\* The invariant by groups of variables, as the actions change them.
InputTyped ==
  /\ JobOK /\ file \in 1 .. Len(job.files) /\ pos \in Nat
  /\ lineNumber \in Nat /\ consumed \in Seq(Seg)

SpaceTyped == pattern \in Space /\ hold \in Space

RangeTyped ==
  /\ startLine \in [1 .. Len(Prog) -> Nat \cup {Unlatched}]
  /\ lastAddress \in BOOLEAN /\ savedRe \in SUBSET Seg

ModeTyped == quiet \in BOOLEAN /\ stop \in BOOLEAN /\ substituted \in BOOLEAN

ControlTyped ==
  /\ pc \in {"open", "zero", "read", "exec", "close", "done", "failed"}
  /\ cur \in 0 .. Len(Prog)

QueueTyped ==
  /\ appends \in Seq(1 .. Len(Prog))
  /\ inputAction \in [pending : BOOLEAN, next : 0 .. Len(Prog), prepend : Content]
  /\ autoLines \in Seq(Seg)

LEMMA TypedParts ==
  Typed <=> InputTyped /\ SpaceTyped /\ RangeTyped /\ ModeTyped /\ ControlTyped /\ QueueTyped
BY DEF Typed, TypeOK, InputTyped, SpaceTyped, RangeTyped, ModeTyped, ControlTyped, QueueTyped

LEMMA TypedPartsNext ==
  ASSUME InputTyped', SpaceTyped', RangeTyped', ModeTyped', ControlTyped', QueueTyped'
  PROVE  Typed'
BY DEF Typed, TypeOK, InputTyped, SpaceTyped, RangeTyped, ModeTyped, ControlTyped, QueueTyped

\* What an action leaves alone stays typed.
LEMMA Kept ==
  ASSUME Typed
  PROVE  /\ UNCHANGED inputVars => InputTyped' /\ Prog' = Prog
         /\ UNCHANGED spaceVars => SpaceTyped'
         /\ UNCHANGED modeVars => ModeTyped'
         /\ UNCHANGED <<job, rangeVars>> => RangeTyped'
         /\ UNCHANGED <<job, appends, inputAction, autoLines>> => QueueTyped'
BY TypedParts DEF InputTyped, JobOK, SpaceTyped, ModeTyped, RangeTyped, QueueTyped, Prog,
                  inputVars, spaceVars, modeVars, rangeVars

\* Testing the addresses of the current command moves its latch to the
\* current line, leaves it or opens it; the others stay.
LEMMA LatchMoves ==
  ASSUME Typed, cur # 0, Latch
  PROVE  /\ startLine' \in [1 .. Len(Prog) -> Nat \cup {Unlatched}]
         /\ \A i \in 1 .. Len(Prog) :
              startLine'[i] \in {startLine[i], Unlatched, lineNumber}
         /\ lastAddress' \in BOOLEAN
<1>1. /\ cur \in 1 .. Len(Prog)
      /\ startLine \in [1 .. Len(Prog) -> Nat \cup {Unlatched}]
      /\ lineNumber \in Nat
  BY CommandFacts DEF Typed, TypeOK
<1>2. StartAfter(Cmd, startLine[cur], View) \in {startLine[cur], Unlatched, lineNumber}
  BY StartAfterValues DEF View
<1>3. startLine' = [startLine EXCEPT ![cur] = StartAfter(Cmd, startLine[cur], View)]
  BY DEF Latch
<1>4. lastAddress' \in BOOLEAN
  BY DEF Latch
<1>5. QED
  BY <1>1, <1>2, <1>3, <1>4

\* What every selected command does before its own part.
LEMMA SelectedFacts ==
  ASSUME Typed, NEW codes, Selected(codes)
  PROVE  /\ pc = "exec" /\ cur # 0 /\ cur \in 1 .. Len(Prog)
         /\ Cmd \in Command /\ Cmd.code \in codes
         /\ Cmd.next \in 0 .. Len(Prog) /\ Cmd.goto \in 0 .. Len(Prog)
         /\ UNCHANGED inputVars /\ Prog' = Prog
         /\ InputTyped' /\ RangeTyped'
<1>1. pc = "exec" /\ cur # 0 /\ Cmd.code \in codes /\ Latch /\ UNCHANGED inputVars
  BY DEF Selected, Executing
<1>2. /\ cur \in 1 .. Len(Prog) /\ Cmd \in Command
      /\ Cmd.next \in 0 .. Len(Prog) /\ Cmd.goto \in 0 .. Len(Prog)
  BY <1>1, CommandFacts
<1>3. InputTyped' /\ Prog' = Prog
  BY <1>1, Kept
<1>4. savedRe' \in SUBSET Seg
  <2>1. Tested \in SUBSET Seg
    BY <1>2, SavedAfterType DEF Tested, Typed, TypeOK
  <2>2. Cmd.re \in SUBSET Seg
    BY <1>2 DEF Command
  <2>3. QED
    BY <2>1, <2>2 DEF Selected, ReOrSaved
<1>5. RangeTyped'
  BY <1>1, <1>3, <1>4, LatchMoves DEF RangeTyped
<1>6. QED
  BY <1>1, <1>2, <1>3, <1>5

\* The rest of Typed for a selected command, by the groups it changes.
LEMMA SelectedTyped ==
  ASSUME Typed, NEW codes, Selected(codes)
  PROVE  /\ Continue \/ EndScript \/ Jump => ControlTyped'
         /\ UNCHANGED pc /\ cur' \in 0 .. Len(Prog) => ControlTyped'
         /\ UNCHANGED <<appends, inputAction, autoLines>> => QueueTyped'
         /\ pattern' \in Space /\ UNCHANGED hold => SpaceTyped'
<1>1. ControlTyped /\ QueueTyped /\ SpaceTyped
  BY TypedParts
<1>2. /\ Cmd.next \in 0 .. Len(Prog) /\ Cmd.goto \in 0 .. Len(Prog) /\ Prog' = Prog
      /\ Len(Prog) \in Nat
  <2>1. Prog \in Seq(Command)
    BY ScriptsAssumption DEF Typed, JobOK, Prog
  <2>2. QED
    BY <2>1, SelectedFacts
<1>3. Continue \/ EndScript \/ Jump => ControlTyped'
  BY <1>1, <1>2 DEF ControlTyped, Continue, EndScript, Jump
<1>4. UNCHANGED pc /\ cur' \in 0 .. Len(Prog) => ControlTyped'
  BY <1>1, <1>2 DEF ControlTyped
<1>5. UNCHANGED <<appends, inputAction, autoLines>> => QueueTyped'
  BY <1>1, <1>2 DEF QueueTyped
<1>6. pattern' \in Space /\ UNCHANGED hold => SpaceTyped'
  BY <1>1 DEF SpaceTyped
<1>7. QED
  BY <1>3, <1>4, <1>5, <1>6

LEMMA BlankSpace == Blank \in Space /\ NewHold \in Space
<1>1. <<Empty>> \in Content
  BY EmptyAssumption, Singleton
<1>2. QED
  BY <1>1 DEF Blank, NewHold, Space

\* A selected command that leaves the spaces, the modes or the queue alone.
LEMMA SelectedStep ==
  ASSUME Typed, NEW codes, Selected(codes),
         UNCHANGED spaceVars \/ SpaceTyped',
         UNCHANGED modeVars \/ ModeTyped',
         (Continue \/ EndScript \/ Jump) \/ ControlTyped',
         UNCHANGED <<appends, inputAction, autoLines>> \/ QueueTyped'
  PROVE  Typed'
<1>1. InputTyped' /\ RangeTyped'
  BY SelectedFacts
<1>2. SpaceTyped' /\ ModeTyped'
  BY Kept
<1>3. ControlTyped' /\ QueueTyped'
  BY SelectedTyped
<1>4. QED
  BY <1>1, <1>2, <1>3, TypedPartsNext

\* A command keeps the invariant, selected or not.
LEMMA CommandTyped ==
  ASSUME Typed, Execution
  PROVE  Typed'
<1>0. InputTyped /\ SpaceTyped /\ RangeTyped /\ ModeTyped /\ ControlTyped /\ QueueTyped
  BY TypedParts
<1>1. ASSUME Skip PROVE Typed'
  <2>1. cur # 0 /\ Latch /\ Continue /\ savedRe' = Tested
    BY <1>1 DEF Skip, Executing
  <2>2. UNCHANGED <<inputVars, spaceVars, modeVars, appends, inputAction, autoLines>>
    BY <1>1 DEF Skip
  <2>3. InputTyped' /\ SpaceTyped' /\ ModeTyped' /\ Prog' = Prog
    BY <2>2, Kept
  <2>4. savedRe' \in SUBSET Seg
    BY <1>0, <2>1, CommandFacts, SavedAfterType DEF Tested, RangeTyped
  <2>5. RangeTyped'
    BY <2>1, <2>3, <2>4, LatchMoves DEF RangeTyped
  <2>6. ControlTyped'
    BY <1>0, <2>1, <2>3, CommandFacts DEF ControlTyped, Continue
  <2>7. QueueTyped'
    BY <1>0, <2>2, <2>3 DEF QueueTyped
  <2>8. QED
    BY <2>3, <2>5, <2>6, <2>7, TypedPartsNext
<1>2. ASSUME RegexError PROVE Typed'
  <2>1. UNCHANGED <<inputVars, spaceVars, rangeVars, modeVars, cur, appends, inputAction, autoLines>>
        /\ pc' = "failed"
    BY <1>2 DEF RegexError
  <2>2. InputTyped' /\ SpaceTyped' /\ RangeTyped' /\ ModeTyped' /\ QueueTyped' /\ Prog' = Prog
    BY <2>1, Kept DEF inputVars
  <2>3. ControlTyped'
    BY <1>0, <2>1, <2>2 DEF ControlTyped
  <2>4. QED
    BY <2>2, <2>3, TypedPartsNext
<1>3. ASSUME Enter PROVE Typed'
  BY <1>3, SelectedStep DEF Enter
<1>4. ASSUME Label PROVE Typed'
  BY <1>4, SelectedStep DEF Label
<1>5. ASSUME Queue PROVE Typed'
  <2>1. Selected({"a", "r"}) /\ Continue /\ appends' = Append(appends, cur)
        /\ UNCHANGED <<spaceVars, modeVars, inputAction, autoLines>>
    BY <1>5 DEF Queue
  <2>2. cur \in 1 .. Len(Prog) /\ Prog' = Prog
    BY <2>1, SelectedFacts
  <2>3. QueueTyped'
    BY <1>0, <2>1, <2>2 DEF QueueTyped
  <2>4. QED
    BY <2>1, <2>3, SelectedStep
<1>6. ASSUME Change PROVE Typed'
  <2>1. Selected({"c"}) /\ EndScript
        /\ UNCHANGED <<hold, modeVars, appends, inputAction, autoLines>>
    BY <1>6 DEF Change
  <2>3. pattern' \in Space
    BY <1>6, BlankSpace DEF Change
  <2>4. SpaceTyped'
    BY <2>1, <2>3, SelectedTyped
  <2>5. QED
    BY <2>1, <2>4, SelectedStep
<1>7. ASSUME Delete PROVE Typed'
  <2>1. Selected({"d"}) /\ EndScript
        /\ UNCHANGED <<hold, modeVars, appends, inputAction, autoLines>>
    BY <1>7 DEF Delete
  <2>3. pattern' \in Space
    BY <1>7, BlankSpace DEF Delete
  <2>4. SpaceTyped'
    BY <2>1, <2>3, SelectedTyped
  <2>5. QED
    BY <2>1, <2>4, SelectedStep
<1>8. ASSUME DeleteFirst PROVE Typed'
  <2>1. Selected({"D"}) /\ UNCHANGED pc
        /\ UNCHANGED <<hold, modeVars, appends, inputAction, autoLines>>
    BY <1>8 DEF DeleteFirst
  <2>2. pattern' \in Space /\ cur' \in 0 .. Len(Prog)
    <3>1. CASE HasNewline(pattern)
      <4>1. Tail(pattern.content) \in Content
        BY <1>0, <3>1, Remainder DEF SpaceTyped, Space, HasNewline
      <4>2. pattern' = [pattern EXCEPT !.content = Tail(@)] /\ cur' = Top
        BY <1>8, <3>1 DEF DeleteFirst
      <4>3. QED
        BY <1>0, <4>1, <4>2, TopFacts DEF SpaceTyped, Space
    <3>2. CASE ~HasNewline(pattern)
      <4>1. pattern' = Blank /\ cur' = 0
        BY <1>8, <3>2 DEF DeleteFirst
      <4>2. QED
        BY <1>0, <4>1, BlankSpace DEF ControlTyped
    <3>3. QED
      BY <3>1, <3>2
  <2>3. SpaceTyped' /\ ControlTyped'
    BY <2>1, <2>2, SelectedTyped
  <2>4. QED
    BY <2>1, <2>3, SelectedStep
<1>9. ASSUME Write PROVE Typed'
  BY <1>9, SelectedStep DEF Write
<1>10. ASSUME Execute PROVE Typed'
  <2>1. Selected({"e"}) /\ Continue
        /\ UNCHANGED <<hold, modeVars, appends, inputAction, autoLines>>
    BY <1>10 DEF Execute
  <2>2. \E s \in Shell : pattern' = [pattern EXCEPT !.content = s]
    BY <1>10 DEF Execute
  <2>3. pattern' \in Space
    BY <1>0, <2>2, ShellAssumption DEF SpaceTyped, Space, Content
  <2>4. SpaceTyped'
    BY <2>1, <2>3, SelectedTyped
  <2>5. QED
    BY <2>1, <2>4, SelectedStep
<1>11. ASSUME Get PROVE Typed'
  <2>1. Selected({"g"}) /\ Continue
        /\ UNCHANGED <<hold, modeVars, appends, inputAction, autoLines>>
    BY <1>11 DEF Get
  <2>3. pattern' \in Space
    BY <1>0, <1>11 DEF Get, SpaceTyped
  <2>4. SpaceTyped'
    BY <2>1, <2>3, SelectedTyped
  <2>5. QED
    BY <2>1, <2>4, SelectedStep
<1>12. ASSUME GetAppend PROVE Typed'
  <2>1. Selected({"G"}) /\ Continue
        /\ UNCHANGED <<hold, modeVars, appends, inputAction, autoLines>>
    BY <1>12 DEF GetAppend
  <2>2. pattern.content \o hold.content \in Content
    BY <1>0, Joined DEF SpaceTyped, Space
  <2>3. pattern' \in Space
    BY <1>0, <1>12, <2>2 DEF GetAppend, SpaceTyped, Space
  <2>4. SpaceTyped'
    BY <2>1, <2>3, SelectedTyped
  <2>5. QED
    BY <2>1, <2>4, SelectedStep
<1>13. ASSUME Hold PROVE Typed'
  <2>1. SpaceTyped'
    BY <1>0, <1>13 DEF Hold, SpaceTyped
  <2>2. QED
    BY <1>13, <2>1, SelectedStep DEF Hold
<1>14. ASSUME HoldAppend PROVE Typed'
  <2>1. hold.content \o pattern.content \in Content
    BY <1>0, Joined DEF SpaceTyped, Space
  <2>2. SpaceTyped'
    BY <1>0, <1>14, <2>1 DEF HoldAppend, SpaceTyped, Space
  <2>3. QED
    BY <1>14, <2>2, SelectedStep DEF HoldAppend
<1>15. ASSUME Exchange PROVE Typed'
  <2>1. SpaceTyped'
    BY <1>0, <1>15 DEF Exchange, SpaceTyped, Space
  <2>2. QED
    BY <1>15, <2>1, SelectedStep DEF Exchange
<1>16. ASSUME NextLine PROVE Typed'
  BY <1>16, SelectedStep DEF NextLine
<1>17. ASSUME AppendNext PROVE Typed'
  <2>1. Selected({"N"}) /\ UNCHANGED <<spaceVars, modeVars, autoLines>>
        /\ appends' = <<>> /\ inputAction' = Pending(pattern) /\ pc' = "read" /\ cur' = 0
    BY <1>17 DEF AppendNext
  <2>2. Cmd.next \in 0 .. Len(Prog) /\ Prog' = Prog
    BY <2>1, SelectedFacts
  <2>3. pattern.content \in Content
    BY <1>0 DEF SpaceTyped, Space
  <2>4. QueueTyped'
    BY <1>0, <2>1, <2>2, <2>3 DEF QueueTyped, Pending
  <2>5. ControlTyped'
    BY <1>0, <2>1, <2>2 DEF ControlTyped
  <2>6. QED
    BY <2>1, <2>4, <2>5, SelectedStep
<1>18. ASSUME PrintPattern PROVE Typed'
  BY <1>18, SelectedStep DEF PrintPattern
<1>19. ASSUME PrintFirst PROVE Typed'
  BY <1>19, SelectedStep DEF PrintFirst
<1>20. ASSUME WriteFile PROVE Typed'
  BY <1>20, SelectedStep DEF WriteFile
<1>21. ASSUME Quit PROVE Typed'
  <2>1. ModeTyped'
    BY <1>0, <1>21 DEF Quit, ModeTyped
  <2>2. QED
    BY <1>21, <2>1, SelectedStep DEF Quit
<1>22. ASSUME Substitute PROVE Typed'
  <2> DEFINE where == Replaced(Cmd, savedRe', pattern.content)
             lines == [i \in DOMAIN pattern.content |->
                         IF i \in where THEN Cmd.rep ELSE pattern.content[i]]
  <2>1. Selected({"s"}) /\ Continue
        /\ UNCHANGED <<hold, quiet, stop, appends, inputAction, autoLines>>
    BY <1>22 DEF Substitute
  <2>2. Cmd.rep \in Seg
    BY <2>1, SelectedFacts DEF Command
  <2>3. pattern.content \in Content /\ \A i \in DOMAIN pattern.content : pattern.content[i] \in Seg
    BY <1>0 DEF SpaceTyped, Space, Content
  <2>4. lines \in Content
    BY <2>2, <2>3, MapContent
  <2>5. \/ UNCHANGED pattern
        \/ \E s \in Shell : pattern' = [pattern EXCEPT !.content = s]
        \/ pattern' = [pattern EXCEPT !.content = lines]
    BY <1>22 DEF Substitute
  <2>6. pattern' \in Space
    BY <1>0, <2>4, <2>5, ShellAssumption DEF SpaceTyped, Space, Content
  <2>7. UNCHANGED substituted \/ substituted' = TRUE
    BY <1>22 DEF Substitute
  <2>8. SpaceTyped' /\ ModeTyped'
    BY <1>0, <2>1, <2>6, <2>7 DEF SpaceTyped, ModeTyped
  <2>9. QED
    BY <2>1, <2>8, SelectedStep
<1>23. ASSUME BranchIf PROVE Typed'
  <2>1. ModeTyped'
    BY <1>0, <1>23 DEF BranchIf, ModeTyped
  <2>2. QED
    BY <1>23, <2>1, SelectedStep DEF BranchIf
<1>24. ASSUME Transliterate PROVE Typed'
  <2> DEFINE lines == [i \in DOMAIN pattern.content |-> Transl[pattern.content[i]]]
  <2>1. Selected({"y"}) /\ Continue
        /\ UNCHANGED <<hold, modeVars, appends, inputAction, autoLines>>
    BY <1>24 DEF Transliterate
  <2>2. pattern.content \in Content /\ \A i \in DOMAIN pattern.content : pattern.content[i] \in Seg
    BY <1>0 DEF SpaceTyped, Space, Content
  <2>3. lines \in Content
    BY <2>2, TranslAssumption, MapContent
  <2>4. pattern' = [pattern EXCEPT !.content = lines]
    BY <1>24 DEF Transliterate
  <2>5. SpaceTyped'
    BY <1>0, <2>1, <2>3, <2>4 DEF SpaceTyped, Space
  <2>6. QED
    BY <2>1, <2>5, SelectedStep
<1>25. ASSUME Zap PROVE Typed'
  <2>1. SpaceTyped'
    BY <1>0, <1>25, EmptyAssumption, Singleton DEF Zap, SpaceTyped, Space
  <2>2. QED
    BY <1>25, <2>1, SelectedStep DEF Zap
<1>26. QED
  BY <1>1, <1>2, <1>3, <1>4, <1>5, <1>6, <1>7, <1>8, <1>9, <1>10, <1>11, <1>12, <1>13, <1>14, <1>15, <1>16, <1>17, <1>18, <1>19, <1>20, <1>21, <1>22, <1>23, <1>24, <1>25
     DEF Execution

\* What the handling of files and of the cycle does keeps it too.
LEMMA FilesTyped ==
  ASSUME Typed, Files
  PROVE  Typed'
<1>0. InputTyped /\ SpaceTyped /\ RangeTyped /\ ModeTyped /\ ControlTyped /\ QueueTyped
  BY TypedParts
<1>1. ASSUME OpenFile PROVE Typed'
  <2>1. /\ pc' = "zero" /\ cur' = Top /\ pos' = 0
        /\ lineNumber' \in {0, lineNumber} /\ hold' \in {NewHold, hold}
        /\ UNCHANGED <<job, file, consumed, pattern, lastAddress, savedRe, modeVars,
                       appends, inputAction, autoLines>>
    BY <1>1 DEF OpenFile, ResetLatches
  <2>2. Prog' = Prog
    BY <2>1 DEF Prog
  <2>3. InputTyped'
    BY <1>0, <2>1 DEF InputTyped, JobOK
  <2>4. SpaceTyped'
    BY <1>0, <2>1, BlankSpace DEF SpaceTyped
  <2>5. startLine' \in [1 .. Len(Prog) -> Nat \cup {Unlatched}]
    <3>1. Prog \in Seq(Command)
      BY <1>0, ScriptsAssumption DEF InputTyped, JobOK, Prog
    <3>2. \A i \in DOMAIN Prog : ResetStart(Prog[i]) \in Nat \cup {Unlatched}
      BY DEF ResetStart
    <3>3. UNCHANGED startLine \/ startLine' = [i \in DOMAIN Prog |-> ResetStart(Prog[i])]
      BY <1>1 DEF OpenFile, ResetLatches
    <3>4. QED
      BY <1>0, <3>1, <3>2, <3>3 DEF RangeTyped
  <2>6. RangeTyped'
    BY <1>0, <2>1, <2>2, <2>5 DEF RangeTyped
  <2>7. ModeTyped'
    BY <2>1, Kept
  <2>8. ControlTyped'
    BY <2>1, <2>2, TopFacts DEF ControlTyped
  <2>9. QueueTyped'
    BY <1>0, <2>1, <2>2 DEF QueueTyped
  <2>10. QED
    BY <2>3, <2>4, <2>6, <2>7, <2>8, <2>9, TypedPartsNext
<1>2. ASSUME OpenError \/ EndOfFile PROVE Typed'
  <2>1. /\ pc' \in {"failed", "close"}
        /\ UNCHANGED <<inputVars, spaceVars, rangeVars, modeVars, cur, appends, inputAction,
                       autoLines>>
    BY <1>2 DEF OpenError, EndOfFile
  <2>2. InputTyped' /\ SpaceTyped' /\ RangeTyped' /\ ModeTyped' /\ QueueTyped' /\ Prog' = Prog
    BY <2>1, Kept DEF inputVars
  <2>3. ControlTyped'
    BY <1>0, <2>1, <2>2 DEF ControlTyped
  <2>4. QED
    BY <2>2, <2>3, TypedPartsNext
<1>3. ASSUME ReadAtZero PROVE Typed'
  <2>1. UNCHANGED <<inputVars, spaceVars, rangeVars, modeVars, appends, inputAction, autoLines>>
    BY <1>3 DEF ReadAtZero
  <2>2. InputTyped' /\ SpaceTyped' /\ RangeTyped' /\ ModeTyped' /\ QueueTyped' /\ Prog' = Prog
    BY <2>1, Kept DEF inputVars
  <2>3. ControlTyped'
    BY <1>0, <1>3, <2>2, CommandFacts DEF ReadAtZero, ControlTyped
  <2>4. QED
    BY <2>2, <2>3, TypedPartsNext
<1>4. ASSUME ReadLine PROVE Typed'
  <2> DEFINE line == Lines[pos + 1]
             nl   == pos + 1 < Len(Lines) \/ job.files[file].nl
             read == IF inputAction.pending THEN inputAction.prepend \o <<line>> ELSE <<line>>
  <2>1. /\ pos < Len(Lines) /\ pos' = pos + 1 /\ lineNumber' = lineNumber + 1
        /\ consumed' = Append(consumed, line)
        /\ substituted' = FALSE /\ inputAction' = NoAction /\ pc' = "exec"
        /\ cur' = IF inputAction.pending THEN inputAction.next ELSE Top
        /\ UNCHANGED <<job, file, hold, quiet, stop, rangeVars, appends, autoLines>>
    BY <1>4 DEF ReadLine
  <2>2. pattern' = [content |-> read, nl |-> nl]
    BY <1>4 DEF ReadLine
  <2>3. line \in Seg /\ nl \in BOOLEAN
    BY <2>1, FileFacts
  <2>4. Prog' = Prog
    BY <2>1 DEF Prog
  <2>5. InputTyped'
    BY <1>0, <2>1, <2>3 DEF InputTyped, JobOK
  <2>6. read \in Content
    BY <1>0, <2>3, Singleton, Joined DEF QueueTyped
  <2>7. SpaceTyped'
    BY <1>0, <2>1, <2>2, <2>3, <2>6 DEF SpaceTyped, Space
  <2>8. RangeTyped'
    BY <2>1, Kept
  <2>9. ModeTyped'
    BY <1>0, <2>1 DEF ModeTyped
  <2>10. ControlTyped'
    <3>1. inputAction.next \in 0 .. Len(Prog) /\ Top \in 0 .. Len(Prog)
      BY <1>0, TopFacts DEF QueueTyped
    <3>2. cur' \in 0 .. Len(Prog)
      BY <2>1, <3>1
    <3>3. QED
      BY <2>1, <2>4, <3>2 DEF ControlTyped
  <2>11. inputAction' \in [pending : BOOLEAN, next : 0 .. Len(Prog'), prepend : Content]
    <3>1. 0 \in 0 .. Len(Prog)
      BY <1>0 DEF ControlTyped
    <3>2. QED
      BY <2>1, <2>4, <3>1, EmptyAssumption, Singleton DEF NoAction
  <2>12. QueueTyped'
    BY <1>0, <2>1, <2>4, <2>11 DEF QueueTyped
  <2>13. QED
    BY <2>5, <2>7, <2>8, <2>9, <2>10, <2>12, TypedPartsNext
<1>5. ASSUME CloseFile PROVE Typed'
  <2>1. /\ UNCHANGED <<job, pos, lineNumber, consumed, spaceVars, rangeVars, modeVars, cur, appends>>
        /\ \/ pc' = "done" /\ UNCHANGED file
           \/ pc' = "open" /\ file' = file + 1 /\ ~IsLastFile
        /\ \/ UNCHANGED <<autoLines, inputAction>>
           \/ autoLines' = autoLines \o inputAction.prepend /\ inputAction' = NoAction
    BY <1>5 DEF CloseFile
  <2>2. Prog' = Prog
    BY <2>1 DEF Prog
  <2>3. InputTyped'
    <3>1. file' \in 1 .. Len(job'.files)
      BY <1>0, <2>1, FileFacts DEF InputTyped, IsLastFile
    <3>2. QED
      BY <1>0, <2>1, <3>1 DEF InputTyped, JobOK
  <2>4. SpaceTyped' /\ RangeTyped' /\ ModeTyped'
    BY <2>1, Kept
  <2>5. ControlTyped'
    BY <1>0, <2>1, <2>2 DEF ControlTyped
  <2>6. inputAction.prepend \in Seq(Seg)
    BY <1>0 DEF QueueTyped, Content
  <2>7. NoAction \in [pending : BOOLEAN, next : 0 .. Len(Prog), prepend : Content]
    <3>1. 0 \in 0 .. Len(Prog)
      BY <1>0 DEF ControlTyped
    <3>2. QED
      BY <3>1, EmptyAssumption, Singleton DEF NoAction
  <2>8. autoLines' \in Seq(Seg)
    <3>1. autoLines \in Seq(Seg)
      BY <1>0 DEF QueueTyped
    <3>2. autoLines \o inputAction.prepend \in Seq(Seg)
      BY <2>6, <3>1
    <3>3. QED
      BY <2>1, <3>1, <3>2
  <2>9. inputAction' \in [pending : BOOLEAN, next : 0 .. Len(Prog), prepend : Content]
    <3>1. inputAction \in [pending : BOOLEAN, next : 0 .. Len(Prog), prepend : Content]
      BY <1>0 DEF QueueTyped
    <3>2. QED
      BY <2>1, <2>7, <3>1
  <2>10. QueueTyped'
    BY <1>0, <2>1, <2>2, <2>8, <2>9 DEF QueueTyped
  <2>11. QED
    BY <2>3, <2>4, <2>5, <2>10, TypedPartsNext
<1>6. ASSUME EndCycle PROVE Typed'
  <2>1. /\ UNCHANGED <<inputVars, spaceVars, rangeVars, modeVars, cur, inputAction>>
        /\ appends' = <<>> /\ pc' \in {"close", "read"}
        /\ UNCHANGED autoLines \/ autoLines' = autoLines \o pattern.content
    BY <1>6 DEF EndCycle, AfterCycle
  <2>2. InputTyped' /\ SpaceTyped' /\ RangeTyped' /\ ModeTyped' /\ Prog' = Prog
    BY <2>1, Kept DEF inputVars
  <2>3. ControlTyped'
    BY <1>0, <2>1, <2>2 DEF ControlTyped
  <2>4. pattern.content \in Seq(Seg)
    BY <1>0 DEF SpaceTyped, Space, Content
  <2>5. autoLines' \in Seq(Seg)
    <3>1. autoLines \in Seq(Seg)
      BY <1>0 DEF QueueTyped
    <3>2. autoLines \o pattern.content \in Seq(Seg)
      BY <2>4, <3>1
    <3>3. QED
      BY <2>1, <3>1, <3>2
  <2>6. QueueTyped'
    BY <1>0, <2>1, <2>2, <2>5 DEF QueueTyped
  <2>7. QED
    BY <2>2, <2>3, <2>6, TypedPartsNext
<1>7. QED
  BY <1>1, <1>2, <1>3, <1>4, <1>5, <1>6 DEF Files

LEMMA InitTyped == Init => Typed
<1> SUFFICES ASSUME Init PROVE Typed
  OBVIOUS
<1>1. PICK p \in Scripts, f \in Inputs, o \in Options :
        /\ job = [prog |-> p, files |-> f, separate |-> o.separate]
        /\ quiet = o.quiet
        /\ startLine = [i \in DOMAIN p |-> Unlatched]
  BY DEF Init
<1>2. o.quiet \in BOOLEAN /\ o.separate \in BOOLEAN
  BY OptionsAssumption
<1>3. p \in Seq(Command) /\ Prog = p
  BY <1>1, ScriptsAssumption DEF Prog
<1>4. f \in Seq(InputFile) /\ f # <<>> /\ Len(f) \in Nat /\ Len(f) > 0
  BY InputsAssumption
<1>5. InputTyped
  BY <1>1, <1>2, <1>4 DEF Init, InputTyped, JobOK
<1>6. SpaceTyped
  BY BlankSpace DEF Init, SpaceTyped
<1>7. RangeTyped
  <2>1. DOMAIN p = 1 .. Len(p)
    BY <1>3
  <2>2. startLine \in [1 .. Len(Prog) -> Nat \cup {Unlatched}]
    BY <1>1, <1>3, <2>1
  <2>3. lastAddress \in BOOLEAN /\ savedRe \in SUBSET Seg
    BY DEF Init
  <2>4. QED
    BY <2>2, <2>3 DEF RangeTyped
<1>8. ModeTyped
  BY <1>1, <1>2 DEF Init, ModeTyped
<1>9. ControlTyped
  BY <1>3 DEF Init, ControlTyped
<1>10. QueueTyped
  BY <1>3, <1>9, EmptyAssumption, Singleton DEF Init, QueueTyped, NoAction, ControlTyped
<1>11. QED
  BY <1>5, <1>6, <1>7, <1>8, <1>9, <1>10, TypedParts

LEMMA StepTyped == Typed /\ [Next]_vars => Typed'
<1> SUFFICES ASSUME Typed, [Next]_vars PROVE Typed'
  OBVIOUS
<1>1. ASSUME UNCHANGED vars PROVE Typed'
  BY <1>1 DEF vars, inputVars, spaceVars, rangeVars, modeVars, Typed, JobOK, TypeOK, Prog
<1>2. QED
  BY <1>1, CommandTyped, FilesTyped DEF Next, Terminated

\* Whatever the script, the input and the options: the variables keep their
\* types.  In particular no command ever leaves a pattern space without a
\* line, cur and the command an N resumes at stay inside the script, and the
\* command graph is never left (process_file's loop over the commands).
THEOREM TypeCorrect == Spec => []TypeOK
<1>1. Typed => TypeOK
  BY DEF Typed
<1>2. QED
  BY <1>1, InitTyped, StepTyped, PTL DEF Spec
=============================================================================
