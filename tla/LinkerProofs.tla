---------------------------- MODULE LinkerProofs ----------------------------
(***************************************************************************)
(* Theorems about Linker, for every script of whatever length and nesting. *)
(***************************************************************************)
EXTENDS Linker, NatInduction, TLAPS

-----------------------------------------------------------------------------
(* Sequences of commands and calls.                                        *)

LEMMA WiderCommands ==
  ASSUME NEW n \in Nat, NEW m \in Nat, n <= m, NEW p \in Nat, NEW q \in Nat, p <= q,
         NEW s \in Seq(Command(n, p))
  PROVE  s \in Seq(Command(m, q))
<1>1. Command(n, p) \subseteq Command(m, q)
  BY DEF Command
<1>2. QED
  BY <1>1

LEMMA WiderSequenceCalls ==
  ASSUME NEW n \in Nat, NEW m \in Nat, n <= m, NEW s \in Seq(SequenceCall(n))
  PROVE  s \in Seq(SequenceCall(m))
<1>1. SequenceCall(n) \subseteq SequenceCall(m)
  BY DEF SequenceCall
<1>2. QED
  BY <1>1

LEMMA WiderPassCalls ==
  ASSUME NEW n \in Nat, NEW m \in Nat, n <= m, NEW s \in Seq(PassCall(n))
  PROVE  s \in Seq(PassCall(m))
<1>1. PassCall(n) \subseteq PassCall(m)
  BY DEF PassCall
<1>2. QED
  BY <1>1

\* Two programs with the same commands, their links aside.
SameCommands(s, t) ==
  /\ Len(t) = Len(s) /\ DOMAIN t = DOMAIN s
  /\ \A i \in DOMAIN s : t[i].code = s[i].code /\ t[i].label = s[i].label

LEMMA SetNext ==
  ASSUME NEW n \in Nat, NEW p \in Nat, NEW s \in Seq(Command(n, p)),
         NEW c, NEW v \in 0 .. n
  PROVE  /\ WithNext(s, c, v) \in Seq(Command(n, p)) /\ SameCommands(s, WithNext(s, c, v))
         /\ \A i \in DOMAIN s : WithNext(s, c, v)[i].goto = s[i].goto
<1> DEFINE t == WithNext(s, c, v)
           set(r) == [r EXCEPT !.next = v]
<1>1. DOMAIN s = 1 .. Len(s) /\ Len(s) \in Nat
  OBVIOUS
<1>2. DOMAIN t = 1 .. Len(s)
  BY <1>1 DEF WithNext
<1>3. t = [i \in 1 .. Len(s) |-> t[i]]
  BY <1>1 DEF WithNext
<1>4. \A i \in 1 .. Len(s) : t[i] = IF i = c THEN set(s[i]) ELSE s[i]
  BY <1>1 DEF WithNext
<1>5. ASSUME NEW r \in Command(n, p)
      PROVE  /\ set(r) \in Command(n, p) /\ set(r).goto = r.goto
             /\ set(r).code = r.code /\ set(r).label = r.label
  BY DEF Command
<1> HIDE DEF t, set
<1>6. ASSUME NEW i \in 1 .. Len(s)
      PROVE  /\ t[i] \in Command(n, p) /\ t[i].goto = s[i].goto
             /\ t[i].code = s[i].code /\ t[i].label = s[i].label
  <2>1. s[i] \in Command(n, p)
    BY <1>1
  <2>2. QED
    BY <1>4, <1>5, <2>1
<1>7. t \in [1 .. Len(s) -> Command(n, p)]
  BY <1>3, <1>6
<1>8. t \in Seq(Command(n, p)) /\ Len(t) = Len(s)
  BY <1>1, <1>7
<1>9. QED
  BY <1>1, <1>2, <1>6, <1>8 DEF SameCommands, t

GotoSet(s, t, c, v) ==
  \A i \in DOMAIN s : t[i].goto = IF i = c THEN v ELSE s[i].goto

LEMMA SetGoto ==
  ASSUME NEW n \in Nat, NEW p \in Nat, NEW s \in Seq(Command(n, p)),
         NEW c, NEW v \in 0 .. n
  PROVE  /\ WithGoto(s, c, v) \in Seq(Command(n, p))
         /\ SameCommands(s, WithGoto(s, c, v)) /\ GotoSet(s, WithGoto(s, c, v), c, v)
<1> DEFINE t == WithGoto(s, c, v)
           set(r) == [r EXCEPT !.goto = v]
<1>1. DOMAIN s = 1 .. Len(s) /\ Len(s) \in Nat
  OBVIOUS
<1>2. DOMAIN t = 1 .. Len(s)
  BY <1>1 DEF WithGoto
<1>3. t = [i \in 1 .. Len(s) |-> t[i]]
  BY <1>1 DEF WithGoto
<1>4. \A i \in 1 .. Len(s) : t[i] = IF i = c THEN set(s[i]) ELSE s[i]
  BY <1>1 DEF WithGoto
<1>5. ASSUME NEW r \in Command(n, p)
      PROVE  /\ set(r) \in Command(n, p) /\ set(r).goto = v
             /\ set(r).code = r.code /\ set(r).label = r.label
  BY DEF Command
<1> HIDE DEF t, set
<1>6. ASSUME NEW i \in 1 .. Len(s)
      PROVE  /\ t[i] \in Command(n, p) /\ t[i].goto = IF i = c THEN v ELSE s[i].goto
             /\ t[i].code = s[i].code /\ t[i].label = s[i].label
  <2>1. s[i] \in Command(n, p)
    BY <1>1
  <2>2. QED
    BY <1>4, <1>5, <2>1
<1>7. t \in [1 .. Len(s) -> Command(n, p)]
  BY <1>3, <1>6
<1>8. t \in Seq(Command(n, p)) /\ Len(t) = Len(s)
  BY <1>1, <1>7
<1>9. QED
  BY <1>1, <1>2, <1>6, <1>8 DEF SameCommands, GotoSet, t

LEMMA ChainedCommands ==
  ASSUME NEW n \in Nat, NEW p \in Nat, NEW s \in Seq(Command(n, p)),
         NEW f \in SequenceCall(n), NEW v \in 0 .. n
  PROVE  /\ Chained(s, f, v) \in Seq(Command(n, p))
         /\ SameCommands(s, Chained(s, f, v))
         /\ \A i \in DOMAIN s : Chained(s, f, v)[i].goto = s[i].goto
<1>1. CASE f.tail = 0
  BY <1>1 DEF Chained, SameCommands
<1>2. CASE f.tail # 0
  BY <1>2, SetNext DEF Chained
<1>3. QED
  BY <1>1, <1>2

LEMMA ExtendedCall ==
  ASSUME NEW n \in Nat, NEW f \in SequenceCall(n), NEW c \in 0 .. n
  PROVE  Extended(f, c) \in SequenceCall(n)
BY DEF Extended, SequenceCall

-----------------------------------------------------------------------------
(* The invariant.                                                          *)

\* t has the commands of s, and perhaps more; their links may differ.
Keeps(s, t) ==
  \A i \in DOMAIN s :
    i \in DOMAIN t /\ t[i].code = s[i].code /\ t[i].label = s[i].label

\* No item opens two blocks.
NestingCounted == nesting <= pos

\* The calls of compile_sequence for blocks are those of { commands.
BlocksOpen ==
  \A i \in DOMAIN frames : frames[i].block # 0 => cmds[frames[i].block].code = "block"

\* The map leads every label to a command that defines it.
LabelsFound ==
  \A l \in LabelName :
    labels[l] # 0 => cmds[labels[l]].code = "label" /\ cmds[labels[l]].label = l

\* Branches are resolved through the map, and not before it is complete.
BranchesMapped ==
  \A c \in DOMAIN cmds :
    cmds[c].code = "branch" /\ cmds[c].goto # 0 =>
      /\ stage \notin {"parse", "labels", "ranges"}
      /\ cmds[c].label \in LabelName
      /\ cmds[c].goto = labels[cmds[c].label]

Inv ==
  /\ TypeOK /\ NestingCounted /\ ClosesInside
  /\ BlocksOpen /\ LabelsFound /\ BranchesMapped

LEMMA InitInv == Init => Inv
<1> SUFFICES ASSUME Init PROVE Inv
  OBVIOUS
<1>1. source \in Seq(Item) /\ Len(source) \in Nat
  BY SourcesAssumption DEF Init
<1>2. cmds = <<>> /\ Len(cmds) = 0 /\ DOMAIN cmds = {}
  BY DEF Init
<1>3. Open(0) \in SequenceCall(0) /\ Open(0).block = 0
  BY DEF Open, SequenceCall
<1>4. /\ frames \in Seq(SequenceCall(0)) /\ frames # <<>> /\ Len(frames) = 1
      /\ \A i \in DOMAIN frames : frames[i].block = 0
  BY <1>3 DEF Init
<1>5. TypeOK
  <2>1. quiet \in BOOLEAN
    BY DEF Init
  <2>2. labels \in [LabelName -> 0 .. Len(cmds)]
    BY <1>2 DEF Init
  <2>3. QED
    BY <1>1, <1>2, <1>4, <2>1, <2>2 DEF Init, TypeOK, Pass
<1>6. NestingCounted /\ ClosesInside
  BY <1>4 DEF Init, NestingCounted, ClosesInside, Depth
<1>7. BlocksOpen /\ LabelsFound /\ BranchesMapped
  BY <1>2, <1>4 DEF Init, BlocksOpen, LabelsFound, BranchesMapped
<1>8. QED
  BY <1>5, <1>6, <1>7 DEF Inv

-----------------------------------------------------------------------------
(* Compiling.                                                              *)

\* What a step of compile_sequence has to show: the rest only gets wider.
LEMMA ParseStep ==
  ASSUME Inv, stage = "parse",
         source' = source, pos' \in pos .. Len(source), Len(cmds) <= Len(cmds)',
         nesting' \in 0 .. pos', quiet' \in BOOLEAN,
         cmds' \in Seq(Command(Len(cmds)', pos')), Keeps(cmds, cmds'),
         frames' \in Seq(SequenceCall(Len(cmds)')), frames' # <<>>,
         BlocksOpen',
         \A c \in DOMAIN cmds' : cmds'[c].code = "branch" => cmds'[c].goto = 0,
         labels' = labels, ranges' = ranges, walk' = walk, stage' = stage,
         pos' < Len(source) => nesting' < Len(frames')
  PROVE  Inv'
<1> DEFINE n == Len(cmds)
           m == Len(cmds)'
<1>1. /\ source \in Seq(Item) /\ pos \in 0 .. Len(source) /\ Len(source) \in Nat
      /\ cmds \in Seq(Command(n, pos)) /\ n \in Nat /\ DOMAIN cmds = 1 .. n
      /\ labels \in [LabelName -> 0 .. n] /\ ranges \in Seq(1 .. n)
      /\ walk \in Seq(PassCall(n))
  BY DEF Inv, TypeOK
<1>2. m \in Nat /\ n <= m
  OBVIOUS
<1>3. walk' \in Seq(PassCall(m))
  BY <1>1, <1>2, WiderPassCalls
<1>4. ranges' \in Seq(1 .. m)
  <2>1. 1 .. n \subseteq 1 .. m
    BY <1>1, <1>2
  <2>2. QED
    BY <1>1, <2>1
<1>5. labels' \in [LabelName -> 0 .. m]
  BY <1>1, <1>2
<1>6. pos' \in 0 .. Len(source)' /\ nesting' \in 0 .. Len(source)' /\ source' \in Seq(Item)
  BY <1>1
<1>7. TypeOK'
  BY <1>3, <1>4, <1>5, <1>6 DEF TypeOK, Pass
<1>8. NestingCounted' /\ ClosesInside'
  BY <1>1 DEF NestingCounted, ClosesInside, Depth
<1>9. LabelsFound'
  <2>1. ASSUME NEW l \in LabelName, labels[l] # 0
        PROVE  cmds'[labels[l]].code = "label" /\ cmds'[labels[l]].label = l
    <3>1. labels[l] \in DOMAIN cmds
      BY <1>1, <2>1
    <3>2. QED
      BY <2>1, <3>1 DEF Inv, LabelsFound, Keeps
  <2>2. QED
    BY <2>1 DEF LabelsFound
<1>10. BranchesMapped'
  BY DEF BranchesMapped
<1>11. QED
  BY <1>7, <1>8, <1>9, <1>10 DEF Inv

LEMMA QuietKept == ASSUME Inv, quiet' = quiet PROVE quiet' \in BOOLEAN
BY Zenon DEF Inv, TypeOK

LEMMA UnresolvedWhileParsing ==
  ASSUME Inv, stage = "parse"
  PROVE  \A c \in DOMAIN cmds : cmds[c].code = "branch" => cmds[c].goto = 0
BY DEF Inv, BranchesMapped

\* The types while items are compiled.
LEMMA ParseTypes ==
  ASSUME Inv, stage = "parse"
  PROVE  /\ source \in Seq(Item) /\ pos \in 0 .. Len(source) /\ Len(source) \in Nat
         /\ Len(cmds) \in Nat /\ cmds \in Seq(Command(Len(cmds), pos))
         /\ DOMAIN cmds = 1 .. Len(cmds)
         /\ frames \in Seq(SequenceCall(Len(cmds))) /\ frames # <<>>
         /\ Depth = Len(frames) /\ Len(frames) \in Nat \ {0}
         /\ DOMAIN frames = 1 .. Len(frames)
         /\ nesting \in 0 .. pos /\ (pos < Len(source) => nesting < Depth)
         /\ quiet \in BOOLEAN
<1>1. TypeOK /\ NestingCounted /\ ClosesInside
  BY DEF Inv
<1>2. /\ source \in Seq(Item) /\ pos \in 0 .. Len(source)
      /\ cmds \in Seq(Command(Len(cmds), pos))
      /\ frames \in Seq(SequenceCall(Len(cmds))) /\ frames # <<>>
      /\ nesting \in 0 .. Len(source) /\ quiet \in BOOLEAN
  BY <1>1 DEF TypeOK
<1>3. nesting <= pos /\ (pos < Len(source) => nesting < Depth)
  BY <1>1 DEF NestingCounted, ClosesInside
<1>4. QED
  BY <1>2, <1>3 DEF Depth

\* A } that is compiled closes something, and nothing else lowers the nesting.
LEMMA NestingLowered ==
  ASSUME Inv, Compile
  PROVE  /\ NestingAfter \in 0 .. nesting
         /\ This.code = "end" => nesting > 0 /\ NestingAfter = nesting - 1
<1>1. nesting \in Nat /\ ~Refused
  BY ParseTypes DEF Compile, Parsing
<1>2. This.code \in {"end", "notEnd"} => nesting > 0
  BY <1>1 DEF Refused
<1>3. QED
  BY <1>1, <1>2 DEF NestingAfter

LEMMA BlocksKept ==
  ASSUME Inv, stage = "parse", Keeps(cmds, cmds'),
         \A i \in DOMAIN frames' : i \in DOMAIN frames /\ frames'[i].block = frames[i].block
  PROVE  BlocksOpen'
<1>1. ASSUME NEW i \in DOMAIN frames', frames'[i].block # 0
      PROVE  cmds'[frames'[i].block].code = "block"
  <2>1. i \in DOMAIN frames /\ frames'[i].block = frames[i].block
    OBVIOUS
  <2>2. frames[i] \in SequenceCall(Len(cmds))
    BY <2>1, ParseTypes
  <2>3. frames[i].block \in DOMAIN cmds
    BY <1>1, <2>1, <2>2, ParseTypes DEF SequenceCall
  <2>4. QED
    BY <1>1, <2>1, <2>3 DEF Inv, BlocksOpen, Keeps
<1>2. QED
  BY <1>1 DEF BlocksOpen

\* What the next item compiles to.
LEMMA CompiledCommand ==
  ASSUME Inv, Parsing
  PROVE  /\ Compiled \in Command(New, pos + 1)
         /\ Compiled.code = This.code /\ Compiled.goto = 0
<1>1. source \in Seq(Item) /\ pos \in 0 .. Len(source) /\ pos < Len(source)
      /\ Len(cmds) \in Nat
  BY DEF Inv, TypeOK, Parsing
<1>2. This \in Item
  BY <1>1 DEF This
<1>3. QED
  BY <1>1, <1>2 DEF Compiled, Command, Item, New

LEMMA AddCommandInv == ASSUME Inv, AddCommand PROVE Inv'
<1> DEFINE n == Len(cmds)
           s == Chained(cmds, Frame, New)
<1>1. /\ source \in Seq(Item) /\ pos \in 0 .. Len(source) /\ Len(source) \in Nat
      /\ pos < Len(source) /\ stage = "parse" /\ n \in Nat /\ New = n + 1
      /\ cmds \in Seq(Command(n, pos)) /\ DOMAIN cmds = 1 .. n
      /\ frames \in Seq(SequenceCall(n)) /\ frames # <<>>
      /\ nesting \in 0 .. pos /\ nesting < Depth
      /\ New \in Nat /\ pos + 1 \in Nat
  BY ParseTypes DEF AddCommand, Compile, Parsing, New
<1>2. Parsing /\ ~Refused
  BY DEF AddCommand, Compile
<1>3. /\ Compiled \in Command(New, pos + 1) /\ Compiled.goto = 0
  BY <1>2, CompiledCommand
<1>4. /\ frames \in Seq(SequenceCall(New)) /\ Frame \in SequenceCall(New)
      /\ Depth \in 1 .. Len(frames) /\ Len(frames) \in Nat
  <2>1. frames \in Seq(SequenceCall(New))
    BY <1>1, WiderSequenceCalls
  <2>2. QED
    BY <1>1, <2>1 DEF Frame, Depth
<1>5. /\ s \in Seq(Command(New, pos + 1)) /\ SameCommands(cmds, s)
      /\ \A i \in DOMAIN cmds : s[i].goto = cmds[i].goto
  <2>1. cmds \in Seq(Command(New, pos + 1))
    BY <1>1, WiderCommands
  <2>2. New \in 0 .. New
    BY <1>1
  <2>3. QED
    BY <1>1, <1>4, <2>1, <2>2, ChainedCommands
<1> HIDE DEF s
<1>6. /\ cmds' = Append(s, Compiled) /\ Len(s) = n
  BY <1>5 DEF AddCommand, SameCommands, s
<1>7. /\ Len(cmds') = New /\ DOMAIN cmds' = 1 .. New
      /\ cmds' \in Seq(Command(New, pos + 1))
      /\ \A i \in 1 .. n : cmds'[i] = s[i]
      /\ cmds'[New] = Compiled
  BY <1>1, <1>3, <1>5, <1>6
<1>8. Keeps(cmds, cmds')
  BY <1>1, <1>5, <1>7 DEF Keeps, SameCommands
<1>9. /\ frames' \in Seq(SequenceCall(New)) /\ Len(frames') = Len(frames)
      /\ frames' # <<>>
      /\ \A i \in DOMAIN frames' : i \in DOMAIN frames /\ frames'[i].block = frames[i].block
  <2>1. New \in 0 .. New
    BY <1>1
  <2>2. Extended(Frame, New) \in SequenceCall(New)
    BY <1>1, <1>4, <2>1, ExtendedCall
  <2>3. Extended(Frame, New).block = Frame.block
    BY <1>4 DEF Extended, SequenceCall
  <2>4. frames' = [frames EXCEPT ![Depth] = Extended(Frame, New)]
    BY DEF AddCommand, Frame
  <2>5. QED
    BY <1>1, <1>4, <2>2, <2>3, <2>4 DEF Frame
<1>10. BlocksOpen'
  BY <1>1, <1>8, <1>9, BlocksKept
<1>11. \A c \in DOMAIN cmds' : cmds'[c].code = "branch" => cmds'[c].goto = 0
  <2>1. ASSUME NEW c \in DOMAIN cmds', cmds'[c].code = "branch" PROVE cmds'[c].goto = 0
    <3>1. CASE c = New
      BY <1>3, <1>7, <3>1
    <3>2. CASE c \in 1 .. n
      BY <1>1, <1>5, <1>7, <2>1, <3>2, UnresolvedWhileParsing DEF SameCommands
    <3>3. QED
      BY <1>1, <1>7, <2>1, <3>1, <3>2
  <2>2. QED
    BY <2>1
<1>12. nesting' \in 0 .. nesting
  BY NestingLowered DEF AddCommand
<1>13. /\ source' = source /\ pos' = pos + 1 /\ stage' = stage
       /\ labels' = labels /\ ranges' = ranges /\ walk' = walk /\ quiet' = quiet
  BY DEF AddCommand
<1>14. QED
  <2>1. pos' \in pos .. Len(source) /\ nesting' \in 0 .. pos' /\ nesting' < Len(frames')
    BY <1>1, <1>9, <1>12, <1>13 DEF Depth
  <2>2. Len(cmds) <= Len(cmds)'
    BY <1>1, <1>7
  <2>3. /\ cmds' \in Seq(Command(Len(cmds)', pos'))
        /\ frames' \in Seq(SequenceCall(Len(cmds)'))
    BY <1>7, <1>9, <1>13
  <2>4. QED
    BY <1>1, <1>8, <1>9, <1>10, <1>11, <1>13, <2>1, <2>2, <2>3, QuietKept, ParseStep

LEMMA SilenceInv == ASSUME Inv, Silence PROVE Inv'
<1>1. /\ stage = "parse" /\ pos < Len(source) /\ source' = source /\ pos' = pos + 1
      /\ nesting' = nesting /\ quiet' = TRUE /\ frames' = frames /\ cmds' = cmds
      /\ labels' = labels /\ ranges' = ranges /\ walk' = walk /\ stage' = stage
  BY DEF Silence, Compile, Parsing
<1>2. /\ pos \in Nat /\ Len(source) \in Nat /\ nesting \in 0 .. pos /\ nesting < Depth
      /\ Len(cmds) \in Nat /\ Depth = Len(frames) /\ frames # <<>>
      /\ cmds \in Seq(Command(Len(cmds), pos)) /\ frames \in Seq(SequenceCall(Len(cmds)))
  BY <1>1, ParseTypes
<1>3. cmds \in Seq(Command(Len(cmds), pos'))
  BY <1>1, <1>2, WiderCommands
<1>4. Keeps(cmds, cmds') /\ BlocksOpen'
  BY <1>1 DEF Keeps, Inv, BlocksOpen
<1>5. pos' \in pos .. Len(source) /\ nesting' \in 0 .. pos' /\ Len(cmds) <= Len(cmds)'
  BY <1>1, <1>2
<1>6. QED
  BY <1>1, <1>2, <1>3, <1>4, <1>5, UnresolvedWhileParsing, ParseStep

LEMMA OpenBlockInv == ASSUME Inv, OpenBlock PROVE Inv'
<1> DEFINE n == Len(cmds)
<1>1. /\ source \in Seq(Item) /\ pos \in 0 .. Len(source) /\ Len(source) \in Nat
      /\ pos < Len(source) /\ stage = "parse" /\ n \in Nat /\ New = n + 1
      /\ cmds \in Seq(Command(n, pos)) /\ DOMAIN cmds = 1 .. n
      /\ frames \in Seq(SequenceCall(n)) /\ Len(frames) \in Nat
      /\ DOMAIN frames = 1 .. Len(frames)
      /\ nesting \in 0 .. pos /\ nesting < Len(frames)
      /\ New \in Nat /\ pos + 1 \in Nat
  BY ParseTypes DEF OpenBlock, Compile, Parsing, New
<1>2. /\ Compiled \in Command(New, pos + 1) /\ Compiled.goto = 0
      /\ Compiled.code = "block"
  BY CompiledCommand DEF OpenBlock, Compile
<1>3. /\ cmds' = Append(cmds, Compiled) /\ frames' = Append(frames, Open(New))
      /\ nesting' = nesting + 1 /\ pos' = pos + 1
      /\ source' = source /\ stage' = stage
      /\ labels' = labels /\ ranges' = ranges /\ walk' = walk /\ quiet' = quiet
  BY DEF OpenBlock
<1>4. /\ Len(cmds') = New /\ DOMAIN cmds' = 1 .. New
      /\ cmds' \in Seq(Command(New, pos + 1))
      /\ \A i \in 1 .. n : cmds'[i] = cmds[i]
      /\ cmds'[New] = Compiled
  <2>1. cmds \in Seq(Command(New, pos + 1))
    BY <1>1, WiderCommands
  <2>2. QED
    BY <1>1, <1>2, <1>3, <2>1
<1>5. Keeps(cmds, cmds')
  BY <1>1, <1>4 DEF Keeps
<1>6. /\ frames' \in Seq(SequenceCall(New)) /\ frames' # <<>>
      /\ Len(frames') = Len(frames) + 1 /\ DOMAIN frames' = 1 .. Len(frames) + 1
      /\ \A i \in 1 .. Len(frames) : frames'[i] = frames[i]
      /\ frames'[Len(frames) + 1].block = New
  <2>1. Open(New) \in SequenceCall(New) /\ Open(New).block = New
    BY <1>1 DEF Open, SequenceCall
  <2>2. frames \in Seq(SequenceCall(New))
    BY <1>1, WiderSequenceCalls
  <2>3. QED
    BY <1>1, <1>3, <2>1, <2>2
<1>7. BlocksOpen'
  <2>1. ASSUME NEW i \in DOMAIN frames', frames'[i].block # 0
        PROVE  cmds'[frames'[i].block].code = "block"
    <3>1. CASE i = Len(frames) + 1
      BY <1>2, <1>4, <1>6, <3>1
    <3>2. CASE i \in 1 .. Len(frames)
      <4>1. frames'[i] = frames[i] /\ frames[i] \in SequenceCall(n)
        BY <1>1, <1>6, <3>2
      <4>2. frames[i].block \in DOMAIN cmds
        BY <1>1, <2>1, <4>1 DEF SequenceCall
      <4>3. QED
        BY <1>1, <1>5, <2>1, <3>2, <4>1, <4>2 DEF Inv, BlocksOpen, Keeps
    <3>3. QED
      BY <1>1, <1>6, <2>1, <3>1, <3>2
  <2>2. QED
    BY <2>1 DEF BlocksOpen
<1>8. \A c \in DOMAIN cmds' : cmds'[c].code = "branch" => cmds'[c].goto = 0
  BY <1>1, <1>2, <1>4, UnresolvedWhileParsing
<1>9. QED
  <2>1. pos' \in pos .. Len(source) /\ nesting' \in 0 .. pos' /\ nesting' < Len(frames')
    BY <1>1, <1>3, <1>6
  <2>2. Len(cmds) <= Len(cmds)'
    BY <1>1, <1>4
  <2>3. /\ cmds' \in Seq(Command(Len(cmds)', pos'))
        /\ frames' \in Seq(SequenceCall(Len(cmds)'))
    BY <1>3, <1>4, <1>6
  <2>4. QED
    BY <1>1, <1>3, <1>5, <1>6, <1>7, <1>8, <2>1, <2>2, <2>3, QuietKept, ParseStep

\* The return from a block links its command and ties the body to it.
LEMMA BlockDoneFacts ==
  ASSUME Inv, stage = "parse", Depth > 1, BlockDone
  PROVE  /\ Len(cmds') = Len(cmds) /\ cmds' \in Seq(Command(Len(cmds), pos))
         /\ Keeps(cmds, cmds') /\ BlocksOpen'
         /\ frames' \in Seq(SequenceCall(Len(cmds))) /\ Len(frames') = Depth - 1
         /\ \A c \in DOMAIN cmds' : cmds'[c].code = "branch" => cmds'[c].goto = 0
<1> DEFINE n == Len(cmds)
           outer == frames[Depth - 1]
           block == Frame.block
           s == WithGoto(cmds, block, Frame.head)
           rest == SubSeq(frames, 1, Depth - 1)
<1>1. /\ n \in Nat /\ pos \in Nat /\ cmds \in Seq(Command(n, pos)) /\ DOMAIN cmds = 1 .. n
      /\ frames \in Seq(SequenceCall(n)) /\ Depth = Len(frames) /\ Depth \in Nat
  BY ParseTypes
<1>2. /\ outer \in SequenceCall(n) /\ Frame \in SequenceCall(n)
      /\ block \in 0 .. n /\ Frame.head \in 0 .. n
  <2>1. outer \in SequenceCall(n) /\ Frame \in SequenceCall(n)
    BY <1>1 DEF Frame
  <2>2. QED
    BY <2>1 DEF SequenceCall
<1>3. /\ s \in Seq(Command(n, pos)) /\ SameCommands(cmds, s)
      /\ GotoSet(cmds, s, block, Frame.head)
  BY <1>1, <1>2, SetGoto
<1>4. /\ cmds' = Chained(s, outer, block)
      /\ frames' = [rest EXCEPT ![Depth - 1] = Extended(rest[Depth - 1], block)]
  BY DEF BlockDone
<1> HIDE DEF s
<1>5. /\ cmds' \in Seq(Command(n, pos)) /\ SameCommands(s, cmds')
      /\ \A i \in DOMAIN s : cmds'[i].goto = s[i].goto
  BY <1>1, <1>2, <1>3, <1>4, ChainedCommands
<1>6. /\ Len(cmds') = n /\ DOMAIN cmds' = 1 .. n
      /\ \A i \in 1 .. n : /\ cmds'[i].code = cmds[i].code /\ cmds'[i].label = cmds[i].label
                           /\ i # block => cmds'[i].goto = cmds[i].goto
  BY <1>1, <1>3, <1>5 DEF SameCommands, GotoSet
<1>7. Keeps(cmds, cmds')
  BY <1>1, <1>6 DEF Keeps
<1>8. block # 0 => cmds[block].code = "block"
  BY <1>1 DEF Inv, BlocksOpen, Frame
<1>9. \A c \in DOMAIN cmds' : cmds'[c].code = "branch" => cmds'[c].goto = 0
  BY <1>1, <1>6, <1>8, UnresolvedWhileParsing
<1>10. /\ frames' \in Seq(SequenceCall(n)) /\ Len(frames') = Depth - 1
       /\ \A i \in DOMAIN frames' : i \in DOMAIN frames /\ frames'[i].block = frames[i].block
  <2>1. /\ rest \in Seq(SequenceCall(n)) /\ Len(rest) = Depth - 1
        /\ DOMAIN rest = 1 .. Depth - 1 /\ DOMAIN frames = 1 .. Depth
        /\ \A i \in 1 .. Depth - 1 : rest[i] = frames[i]
    BY <1>1
  <2>2. rest[Depth - 1] = outer
    BY <1>1, <2>1
  <2>3. Extended(outer, block) \in SequenceCall(n)
    BY <1>1, <1>2, ExtendedCall
  <2>4. Extended(outer, block).block = outer.block
    BY <1>2 DEF Extended, SequenceCall
  <2> HIDE DEF rest, outer, block
  <2>5. frames' = [rest EXCEPT ![Depth - 1] = Extended(outer, block)]
    BY <1>4, <2>2
  <2>6. /\ frames' \in Seq(SequenceCall(n)) /\ Len(frames') = Depth - 1
        /\ DOMAIN frames' = 1 .. Depth - 1
    BY <1>1, <2>1, <2>3, <2>5
  <2>7. ASSUME NEW i \in 1 .. Depth - 1 PROVE frames'[i].block = frames[i].block
    BY <1>1, <2>1, <2>2, <2>4, <2>5, <2>7
  <2>8. QED
    BY <1>1, <2>1, <2>6, <2>7
<1>11. BlocksOpen'
  BY <1>7, <1>10, BlocksKept
<1>12. QED
  BY <1>5, <1>6, <1>7, <1>9, <1>10, <1>11

LEMMA CloseBlockInv == ASSUME Inv, CloseBlock PROVE Inv'
<1>1. /\ stage = "parse" /\ pos < Len(source) /\ This.code = "end" /\ Compile
      /\ nesting' = NestingAfter /\ pos' = pos + 1 /\ BlockDone
      /\ source' = source /\ stage' = stage
      /\ labels' = labels /\ ranges' = ranges /\ walk' = walk /\ quiet' = quiet
  BY DEF CloseBlock, Compile, Parsing
<1>2. nesting > 0 /\ nesting' = nesting - 1
  BY <1>1, NestingLowered
<1>3. /\ pos \in Nat /\ Len(source) \in Nat /\ nesting \in 0 .. pos /\ nesting < Depth
      /\ Depth \in Nat /\ Len(cmds) \in Nat
  BY <1>1, ParseTypes
<1>4. Depth > 1
  BY <1>2, <1>3
<1>5. /\ Len(cmds') = Len(cmds) /\ cmds' \in Seq(Command(Len(cmds), pos))
      /\ Keeps(cmds, cmds') /\ BlocksOpen'
      /\ frames' \in Seq(SequenceCall(Len(cmds))) /\ Len(frames') = Depth - 1
      /\ \A c \in DOMAIN cmds' : cmds'[c].code = "branch" => cmds'[c].goto = 0
  BY <1>1, <1>4, BlockDoneFacts
<1>6. pos' \in pos .. Len(source) /\ nesting' \in 0 .. pos' /\ nesting' < Len(frames')
  BY <1>1, <1>2, <1>3, <1>5
<1>7. cmds' \in Seq(Command(Len(cmds), pos'))
  BY <1>1, <1>3, <1>5, WiderCommands
<1>8. frames' # <<>>
  BY <1>3, <1>4, <1>5
<1>9. Len(cmds) <= Len(cmds)'
  BY <1>3, <1>5
<1>10. QED
  BY <1>1, <1>5, <1>6, <1>7, <1>8, <1>9, QuietKept, ParseStep

LEMMA EndOfBlockInv == ASSUME Inv, EndOfBlock PROVE Inv'
<1>1. /\ stage = "parse" /\ pos = Len(source) /\ Depth > 1
      /\ nesting' = nesting /\ pos' = pos /\ BlockDone
      /\ source' = source /\ stage' = stage
      /\ labels' = labels /\ ranges' = ranges /\ walk' = walk /\ quiet' = quiet
  BY DEF EndOfBlock
<1>2. /\ pos \in Nat /\ nesting \in 0 .. pos /\ Depth \in Nat /\ Len(cmds) \in Nat
  BY <1>1, ParseTypes
<1>3. /\ Len(cmds') = Len(cmds) /\ cmds' \in Seq(Command(Len(cmds), pos))
      /\ Keeps(cmds, cmds') /\ BlocksOpen'
      /\ frames' \in Seq(SequenceCall(Len(cmds))) /\ Len(frames') = Depth - 1
      /\ \A c \in DOMAIN cmds' : cmds'[c].code = "branch" => cmds'[c].goto = 0
  BY <1>1, BlockDoneFacts
<1>4. /\ pos' \in pos .. Len(source) /\ nesting' \in 0 .. pos' /\ ~(pos' < Len(source))
      /\ frames' # <<>> /\ Len(cmds) <= Len(cmds)'
  BY <1>1, <1>2, <1>3
<1>5. QED
  BY <1>1, <1>3, <1>4, QuietKept, ParseStep

-----------------------------------------------------------------------------
(* The passes.                                                             *)

Resolving == {"resolve", "patch", "done", "failed"}

\* What a step of a pass has to show.
LEMMA PassStep ==
  ASSUME Inv, source' = source, pos' = pos, nesting' = nesting, quiet' = quiet,
         frames' = frames,
         Len(cmds') = Len(cmds), cmds' \in Seq(Command(Len(cmds), pos)),
         Keeps(cmds, cmds'),
         labels' \in [LabelName -> 0 .. Len(cmds)], ranges' \in Seq(1 .. Len(cmds)),
         walk' \in Seq(PassCall(Len(cmds))), walk' # <<>>,
         stage' \in Pass \cup {"done", "failed"},
         LabelsFound', BranchesMapped'
  PROVE  Inv'
<1>1. TypeOK'
  BY DEF Inv, TypeOK, Pass
<1>2. NestingCounted' /\ ClosesInside'
  BY DEF Inv, NestingCounted, ClosesInside, Pass
<1>3. BlocksOpen'
  <2>1. ASSUME NEW i \in DOMAIN frames, frames[i].block # 0
        PROVE  cmds'[frames[i].block].code = "block"
    <3>1. frames[i] \in SequenceCall(Len(cmds)) /\ Len(cmds) \in Nat
          /\ DOMAIN cmds = 1 .. Len(cmds)
      BY DEF Inv, TypeOK
    <3>2. frames[i].block \in DOMAIN cmds
      BY <2>1, <3>1 DEF SequenceCall
    <3>3. QED
      BY <2>1, <3>2 DEF Inv, BlocksOpen, Keeps
  <2>2. QED
    BY <2>1 DEF BlocksOpen
<1>4. QED
  BY <1>1, <1>2, <1>3 DEF Inv

\* The labels found stay found when the commands are kept.
LEMMA LabelsKept ==
  ASSUME Inv, labels' = labels, Keeps(cmds, cmds')
  PROVE  LabelsFound'
<1>1. ASSUME NEW l \in LabelName, labels[l] # 0
      PROVE  cmds'[labels[l]].code = "label" /\ cmds'[labels[l]].label = l
  <2>1. labels \in [LabelName -> 0 .. Len(cmds)] /\ Len(cmds) \in Nat
        /\ DOMAIN cmds = 1 .. Len(cmds)
    BY DEF Inv, TypeOK
  <2>2. labels[l] \in DOMAIN cmds
    BY <1>1, <2>1
  <2>3. QED
    BY <1>1, <2>2 DEF Inv, LabelsFound, Keeps
<1>2. QED
  BY <1>1 DEF LabelsFound

\* The types while a pass is under way, and what it reads of its command.
LEMMA PassTypes ==
  ASSUME Inv, stage \in Pass
  PROVE  /\ Len(cmds) \in Nat /\ pos \in Nat /\ cmds \in Seq(Command(Len(cmds), pos))
         /\ DOMAIN cmds = 1 .. Len(cmds)
         /\ labels \in [LabelName -> 0 .. Len(cmds)] /\ ranges \in Seq(1 .. Len(cmds))
         /\ frames \in Seq(SequenceCall(Len(cmds))) /\ frames # <<>>
         /\ walk \in Seq(PassCall(Len(cmds))) /\ walk # <<>>
         /\ Len(walk) \in Nat \ {0} /\ Level \in PassCall(Len(cmds))
         /\ Level.at \in 0 .. Len(cmds) /\ Level.parent \in 0 .. Len(cmds)
         /\ Top \in 0 .. Len(cmds)
         /\ Level.at # 0 => /\ Level.at \in 1 .. Len(cmds)
                            /\ At \in Command(Len(cmds), pos)
                            /\ At.next \in 0 .. Len(cmds) /\ At.goto \in 0 .. Len(cmds)
                            /\ Body \in 0 .. Len(cmds) /\ Splice \in 0 .. Len(cmds)
<1>1. /\ Len(cmds) \in Nat /\ pos \in Nat /\ cmds \in Seq(Command(Len(cmds), pos))
      /\ DOMAIN cmds = 1 .. Len(cmds)
      /\ labels \in [LabelName -> 0 .. Len(cmds)] /\ ranges \in Seq(1 .. Len(cmds))
      /\ frames \in Seq(SequenceCall(Len(cmds))) /\ frames # <<>>
      /\ walk \in Seq(PassCall(Len(cmds))) /\ walk # <<>>
  BY DEF Inv, TypeOK
<1>2. Len(walk) \in Nat \ {0} /\ Level \in PassCall(Len(cmds))
  BY <1>1 DEF Level
<1>3. Level.at \in 0 .. Len(cmds) /\ Level.parent \in 0 .. Len(cmds)
  BY <1>2 DEF PassCall
<1>4. Top \in 0 .. Len(cmds)
  <2>1. frames[1] \in SequenceCall(Len(cmds))
    BY <1>1
  <2>2. QED
    BY <2>1 DEF Top, SequenceCall
<1>5. ASSUME Level.at # 0
      PROVE  /\ Level.at \in 1 .. Len(cmds) /\ At \in Command(Len(cmds), pos)
             /\ At.next \in 0 .. Len(cmds) /\ At.goto \in 0 .. Len(cmds)
  <2>1. Level.at \in 1 .. Len(cmds)
    BY <1>1, <1>3, <1>5
  <2>2. At \in Command(Len(cmds), pos)
    BY <1>1, <2>1 DEF At
  <2>3. QED
    BY <2>1, <2>2 DEF Command
<1>6. Level.at # 0 => Body \in 0 .. Len(cmds) /\ Splice \in 0 .. Len(cmds)
  BY <1>1, <1>3, <1>5 DEF Body, Splice
<1>7. QED
  BY <1>1, <1>2, <1>3, <1>4, <1>5, <1>6

LEMMA CallTyped ==
  ASSUME NEW n, NEW c \in 0 .. n, NEW p \in 0 .. n
  PROVE  Call(c, p) \in PassCall(n)
BY DEF Call, PassCall

LEMMA ToNextTyped ==
  ASSUME Inv, stage \in Pass, Level.at # 0, ToNext
  PROVE  walk' \in Seq(PassCall(Len(cmds))) /\ walk' # <<>>
<1>1. [Level EXCEPT !.at = At.next, !.entered = FALSE] \in PassCall(Len(cmds))
  BY PassTypes DEF PassCall
<1>2. walk' = [walk EXCEPT ![Len(walk)] = [Level EXCEPT !.at = At.next, !.entered = FALSE]]
  BY DEF ToNext, Level
<1>3. /\ walk \in Seq(PassCall(Len(cmds))) /\ Len(walk) \in Nat \ {0}
  BY PassTypes
<1>4. walk' \in Seq(PassCall(Len(cmds))) /\ Len(walk') = Len(walk)
  BY <1>1, <1>2, <1>3
<1>5. QED
  BY <1>3, <1>4

LEMMA RestartTyped ==
  ASSUME Inv, stage \in Pass, Restart
  PROVE  walk' \in Seq(PassCall(Len(cmds))) /\ walk' # <<>>
<1>1. Call(Top, 0) \in PassCall(Len(cmds))
  BY PassTypes, CallTyped
<1>2. QED
  BY <1>1 DEF Restart

\* A step that changes neither commands nor labels.
LEMMA WalkStep ==
  ASSUME Inv, stage \in Pass, UNCHANGED <<source, parseVars, cmds, labels>>,
         ranges' \in Seq(1 .. Len(cmds)),
         walk' \in Seq(PassCall(Len(cmds))), walk' # <<>>,
         stage' \in Pass \cup {"done", "failed"},
         stage \in Resolving => stage' \in Resolving
  PROVE  Inv'
<1>1. /\ source' = source /\ pos' = pos /\ nesting' = nesting /\ quiet' = quiet /\ frames' = frames
      /\ cmds' = cmds /\ labels' = labels
  BY DEF parseVars
<1>2. Keeps(cmds, cmds')
  BY <1>1 DEF Keeps
<1>3. LabelsFound'
  BY <1>1, <1>2, LabelsKept
<1>4. BranchesMapped'
  BY <1>1 DEF Inv, BranchesMapped, Resolving, Pass
<1>5. QED
  BY <1>1, <1>2, <1>3, <1>4, PassTypes, PassStep

LEMMA DescendInv == ASSUME Inv, Descend PROVE Inv'
<1>1. /\ stage \in Pass /\ stage' = stage /\ UNCHANGED <<source, parseVars, cmds, labels>>
      /\ ranges' = ranges /\ Level.at # 0
      /\ walk' = Append([walk EXCEPT ![Len(walk)].entered = TRUE],
                        Call(Body, IF stage = "patch" THEN Splice ELSE 0))
  BY DEF Descend
<1>2. [Level EXCEPT !.entered = TRUE] \in PassCall(Len(cmds))
  BY <1>1, PassTypes DEF PassCall
<1> DEFINE below == [walk EXCEPT ![Len(walk)].entered = TRUE]
<1>3. below = [walk EXCEPT ![Len(walk)] = [Level EXCEPT !.entered = TRUE]]
  BY DEF Level
<1> HIDE DEF below
<1>4. below \in Seq(PassCall(Len(cmds))) /\ Len(below) \in Nat
  BY <1>1, <1>2, <1>3, PassTypes
<1> DEFINE deeper == Call(Body, IF stage = "patch" THEN Splice ELSE 0)
<1>5. deeper \in PassCall(Len(cmds))
  <2>1. /\ Body \in 0 .. Len(cmds)
        /\ (IF stage = "patch" THEN Splice ELSE 0) \in 0 .. Len(cmds)
    BY <1>1, PassTypes
  <2>2. QED
    BY <2>1, CallTyped
<1>6. walk' = Append(below, deeper)
  BY <1>1 DEF below
<1> HIDE DEF deeper
<1>7. walk' \in Seq(PassCall(Len(cmds))) /\ walk' # <<>>
  BY <1>4, <1>5, <1>6
<1>8. QED
  BY <1>1, <1>7, PassTypes, WalkStep

LEMMA AscendInv == ASSUME Inv, Ascend PROVE Inv'
<1>1. /\ stage \in Pass /\ stage' = stage /\ UNCHANGED <<source, parseVars, cmds, labels>>
      /\ ranges' = ranges /\ Len(walk) > 1 /\ walk' = SubSeq(walk, 1, Len(walk) - 1)
  BY DEF Ascend
<1>2. walk \in Seq(PassCall(Len(cmds))) /\ Len(walk) \in Nat
  BY <1>1, PassTypes
<1>3. walk' \in Seq(PassCall(Len(cmds))) /\ Len(walk') = Len(walk) - 1
  BY <1>1, <1>2
<1>4. walk' # <<>>
  <2>1. Len(walk') > 0
    BY <1>1, <1>2, <1>3
  <2>2. QED
    BY <2>1
<1>5. QED
  BY <1>1, <1>3, <1>4, PassTypes, WalkStep

LEMMA FailInv == ASSUME Inv, Fail, stage \in Pass PROVE Inv'
<1>1. /\ stage' = "failed" /\ UNCHANGED <<source, parseVars, cmds, labels>>
      /\ ranges' = ranges /\ walk' = walk
  BY DEF Fail
<1>2. QED
  BY <1>1, PassTypes, WalkStep DEF Resolving

LEMMA ScriptErrorInv == ASSUME Inv, ScriptError PROVE Inv'
<1>1. /\ stage = "parse" /\ stage' = "failed" /\ source' = source /\ pos' = pos
      /\ nesting' = nesting /\ quiet' = quiet /\ frames' = frames
      /\ cmds' = cmds /\ labels' = labels
      /\ ranges' = ranges /\ walk' = walk
  BY DEF ScriptError, Parsing, Fail, parseVars
<1>2. TypeOK' /\ NestingCounted' /\ ClosesInside'
  BY <1>1 DEF Inv, TypeOK, NestingCounted, ClosesInside, Pass
<1>3. BlocksOpen' /\ LabelsFound' /\ BranchesMapped'
  BY <1>1 DEF Inv, BlocksOpen, LabelsFound, BranchesMapped
<1>4. QED
  BY <1>2, <1>3 DEF Inv

LEMMA EndOfScriptInv == ASSUME Inv, EndOfScript PROVE Inv'
<1>1. /\ stage = "parse" /\ stage' = "labels" /\ source' = source /\ pos' = pos
      /\ nesting' = nesting /\ quiet' = quiet /\ frames' = frames
      /\ cmds' = cmds /\ labels' = labels
      /\ ranges' = ranges /\ walk' = <<Call(Top, 0)>>
  BY DEF EndOfScript, parseVars
<1>2. Call(Top, 0) \in PassCall(Len(cmds))
  <2>1. frames[1] \in SequenceCall(Len(cmds)) /\ Len(cmds) \in Nat
    BY <1>1, ParseTypes
  <2>2. Top \in 0 .. Len(cmds) /\ 0 \in 0 .. Len(cmds)
    BY <2>1 DEF Top, SequenceCall
  <2>3. QED
    BY <2>2, CallTyped
<1>3. walk' \in Seq(PassCall(Len(cmds))) /\ walk' # <<>>
  BY <1>1, <1>2
<1>4. TypeOK' /\ NestingCounted' /\ ClosesInside'
  BY <1>1, <1>3 DEF Inv, TypeOK, NestingCounted, ClosesInside, Pass
<1>5. BlocksOpen' /\ LabelsFound' /\ BranchesMapped'
  BY <1>1 DEF Inv, BlocksOpen, LabelsFound, BranchesMapped
<1>6. QED
  BY <1>4, <1>5 DEF Inv

LEMMA PopulateLabelInv == ASSUME Inv, PopulateLabel PROVE Inv'
<1>1. /\ stage = "labels" /\ stage \in Pass /\ Level.at # 0 /\ ToNext
      /\ source' = source /\ pos' = pos /\ nesting' = nesting /\ quiet' = quiet /\ frames' = frames
      /\ cmds' = cmds /\ ranges' = ranges /\ stage' = stage
      /\ labels' = IF At.code = "label" THEN [labels EXCEPT ![At.label] = Level.at] ELSE labels
  BY DEF PopulateLabel, Visiting, parseVars
<1>2. walk' \in Seq(PassCall(Len(cmds))) /\ walk' # <<>>
  BY <1>1, ToNextTyped
<1>3. labels \in [LabelName -> 0 .. Len(cmds)] /\ Level.at \in 0 .. Len(cmds)
  BY <1>1, PassTypes
<1>4. /\ labels' \in [LabelName -> 0 .. Len(cmds)]
      /\ \A l \in LabelName :
           \/ labels'[l] = labels[l]
           \/ labels'[l] = Level.at /\ At.code = "label" /\ At.label = l
  BY <1>1, <1>3
<1>5. LabelsFound'
  <2>1. ASSUME NEW l \in LabelName, labels'[l] # 0
        PROVE  cmds[labels'[l]].code = "label" /\ cmds[labels'[l]].label = l
    BY <1>4, <2>1 DEF Inv, LabelsFound, At
  <2>2. QED
    BY <1>1, <2>1 DEF LabelsFound
<1>6. BranchesMapped'
  BY <1>1 DEF Inv, BranchesMapped
<1>7. Keeps(cmds, cmds')
  BY <1>1 DEF Keeps
<1>8. Len(cmds') = Len(cmds) /\ cmds' \in Seq(Command(Len(cmds), pos))
      /\ ranges' \in Seq(1 .. Len(cmds))
  BY <1>1, PassTypes
<1>9. QED
  BY <1>1, <1>2, <1>4, <1>5, <1>6, <1>7, <1>8, PassStep

LEMMA PopulateRangeInv == ASSUME Inv, PopulateRange PROVE Inv'
<1>1. /\ stage \in Pass /\ Level.at # 0 /\ ToNext /\ stage' = stage
      /\ UNCHANGED <<source, parseVars, cmds, labels>>
      /\ ranges' = IF IsRangeCommand THEN Append(ranges, Level.at) ELSE ranges
  BY DEF PopulateRange, Visiting
<1>2. walk' \in Seq(PassCall(Len(cmds))) /\ walk' # <<>>
  BY <1>1, ToNextTyped
<1>3. ranges' \in Seq(1 .. Len(cmds))
  <2>1. ranges \in Seq(1 .. Len(cmds)) /\ Level.at \in 1 .. Len(cmds)
    BY <1>1, PassTypes
  <2>2. CASE IsRangeCommand
    BY <1>1, <2>1, <2>2
  <2>3. CASE ~IsRangeCommand
    BY <1>1, <2>1, <2>3
  <2>4. QED
    BY <2>2, <2>3
<1>4. QED
  BY <1>1, <1>2, <1>3, WalkStep

LEMMA PassEndInv ==
  ASSUME Inv, LabelsPopulated \/ RangesPopulated \/ BranchesResolved \/ EndingsPatched
  PROVE  Inv'
<1>1. /\ stage \in Pass /\ UNCHANGED <<source, parseVars, cmds, labels>>
      /\ ranges' = ranges
      /\ stage' \in Pass \cup {"done", "failed"}
      /\ stage \in Resolving => stage' \in Resolving
      /\ Restart \/ walk' = walk
  BY DEF LabelsPopulated, RangesPopulated, BranchesResolved, EndingsPatched, Ended, Pass,
         Resolving
<1>2. walk' \in Seq(PassCall(Len(cmds))) /\ walk' # <<>>
  <2>1. CASE Restart
    BY <1>1, <2>1, RestartTyped
  <2>2. CASE walk' = walk
    BY <1>1, <2>2, PassTypes
  <2>3. QED
    BY <1>1, <2>1, <2>2
<1>3. ranges' \in Seq(1 .. Len(cmds))
  BY <1>1, PassTypes
<1>4. QED
  BY <1>1, <1>2, <1>3, WalkStep

LEMMA ResolveBranchInv == ASSUME Inv, ResolveBranch PROVE Inv'
<1> DEFINE n == Len(cmds)
<1>1. /\ stage = "resolve" /\ stage \in Pass /\ Level.at # 0 /\ ToNext /\ stage' = stage
      /\ source' = source /\ pos' = pos /\ nesting' = nesting /\ quiet' = quiet /\ frames' = frames
      /\ labels' = labels /\ ranges' = ranges
      /\ cmds' = IF At.code = "branch" THEN WithGoto(cmds, Level.at, Target) ELSE cmds
  BY DEF ResolveBranch, Visiting, parseVars
<1>2. walk' \in Seq(PassCall(n)) /\ walk' # <<>>
  BY <1>1, ToNextTyped
<1>3. /\ n \in Nat /\ pos \in Nat /\ cmds \in Seq(Command(n, pos)) /\ DOMAIN cmds = 1 .. n
      /\ labels \in [LabelName -> 0 .. n] /\ ranges \in Seq(1 .. n)
      /\ Level.at \in 1 .. n /\ At \in Command(n, pos)
  BY <1>1, PassTypes
<1>4. /\ Target \in 0 .. n
      /\ Target # 0 => At.label \in LabelName /\ Target = labels[At.label]
  <2>1. At.label \in LabelName \cup {NoLabel}
    BY <1>3 DEF Command
  <2>2. QED
    BY <1>3, <2>1 DEF Target
<1>5. /\ Len(cmds') = n /\ DOMAIN cmds' = 1 .. n /\ cmds' \in Seq(Command(n, pos))
      /\ Keeps(cmds, cmds')
      /\ \A c \in 1 .. n : \/ cmds'[c].goto = cmds[c].goto
                           \/ c = Level.at /\ cmds'[c].goto = Target
  <2>1. CASE At.code # "branch"
    BY <1>1, <1>3, <2>1 DEF Keeps
  <2>2. CASE At.code = "branch"
    <3> DEFINE t == WithGoto(cmds, Level.at, Target)
    <3>1. t \in Seq(Command(n, pos)) /\ SameCommands(cmds, t)
          /\ GotoSet(cmds, t, Level.at, Target)
      BY <1>3, <1>4, SetGoto
    <3> HIDE DEF t
    <3>2. cmds' = t
      BY <1>1, <2>2 DEF t
    <3>3. QED
      BY <1>3, <3>1, <3>2 DEF SameCommands, GotoSet, Keeps
  <2>3. QED
    BY <2>1, <2>2
<1>6. LabelsFound'
  BY <1>1, <1>5, LabelsKept
<1>7. BranchesMapped'
  <2>1. ASSUME NEW c \in 1 .. n, cmds'[c].code = "branch", cmds'[c].goto # 0
        PROVE  cmds'[c].label \in LabelName /\ cmds'[c].goto = labels[cmds'[c].label]
    <3>1. cmds[c].code = "branch" /\ cmds'[c].label = cmds[c].label
      BY <1>3, <1>5, <2>1 DEF Keeps
    <3>2. CASE cmds'[c].goto = cmds[c].goto
      BY <1>3, <2>1, <3>1, <3>2 DEF Inv, BranchesMapped
    <3>3. CASE c = Level.at /\ cmds'[c].goto = Target
      BY <1>4, <2>1, <3>1, <3>3 DEF At
    <3>4. QED
      BY <1>5, <3>2, <3>3
  <2>2. QED
    BY <1>1, <1>5, <2>1 DEF BranchesMapped
<1>8. QED
  BY <1>1, <1>2, <1>3, <1>5, <1>6, <1>7, PassStep

LEMMA PatchEndingInv == ASSUME Inv, PatchEnding PROVE Inv'
<1> DEFINE n == Len(cmds)
<1>1. /\ stage = "patch" /\ stage \in Pass /\ Level.at # 0 /\ ToNext /\ stage' = stage
      /\ source' = source /\ pos' = pos /\ nesting' = nesting /\ quiet' = quiet /\ frames' = frames
      /\ labels' = labels /\ ranges' = ranges
      /\ cmds' = IF Body = 0 THEN cmds ELSE WithNext(cmds, TailFrom[Body], Splice)
  BY DEF PatchEnding, Visiting, parseVars
<1>2. walk' \in Seq(PassCall(n)) /\ walk' # <<>>
  BY <1>1, ToNextTyped
<1>3. /\ n \in Nat /\ pos \in Nat /\ cmds \in Seq(Command(n, pos)) /\ DOMAIN cmds = 1 .. n
      /\ labels \in [LabelName -> 0 .. n] /\ ranges \in Seq(1 .. n) /\ Splice \in 0 .. n
  BY <1>1, PassTypes
<1>4. /\ Len(cmds') = n /\ DOMAIN cmds' = 1 .. n /\ cmds' \in Seq(Command(n, pos))
      /\ Keeps(cmds, cmds')
      /\ \A c \in 1 .. n : cmds'[c].goto = cmds[c].goto
  <2>1. CASE Body = 0
    BY <1>1, <1>3, <2>1 DEF Keeps
  <2>2. CASE Body # 0
    <3> DEFINE t == WithNext(cmds, TailFrom[Body], Splice)
    <3>1. t \in Seq(Command(n, pos)) /\ SameCommands(cmds, t)
          /\ \A c \in DOMAIN cmds : t[c].goto = cmds[c].goto
      BY <1>3, SetNext
    <3> HIDE DEF t
    <3>2. cmds' = t
      BY <1>1, <2>2 DEF t
    <3>3. QED
      BY <1>3, <3>1, <3>2 DEF SameCommands, Keeps
  <2>3. QED
    BY <2>1, <2>2
<1>5. LabelsFound'
  BY <1>1, <1>4, LabelsKept
<1>6. BranchesMapped'
  BY <1>1, <1>3, <1>4 DEF Inv, BranchesMapped, Keeps
<1>7. QED
  BY <1>1, <1>2, <1>3, <1>4, <1>5, <1>6, PassStep

LEMMA StutterInv == ASSUME Inv, UNCHANGED vars PROVE Inv'
<1>1. /\ source' = source /\ pos' = pos /\ stage' = stage
      /\ nesting' = nesting /\ quiet' = quiet /\ frames' = frames
      /\ cmds' = cmds /\ labels' = labels
      /\ ranges' = ranges /\ walk' = walk
  BY DEF vars, parseVars
<1>2. TypeOK' /\ NestingCounted' /\ ClosesInside'
  BY <1>1 DEF Inv, TypeOK, NestingCounted, ClosesInside, Depth
<1>3. BlocksOpen' /\ LabelsFound' /\ BranchesMapped'
  BY <1>1 DEF Inv, BlocksOpen, LabelsFound, BranchesMapped
<1>4. QED
  BY <1>2, <1>3 DEF Inv

LEMMA NextInv == Inv /\ [Next]_vars => Inv'
<1> SUFFICES ASSUME Inv, [Next]_vars PROVE Inv'
  OBVIOUS
<1>1. CASE AddCommand \/ Silence \/ OpenBlock \/ CloseBlock \/ EndOfBlock
  BY <1>1, AddCommandInv, SilenceInv, OpenBlockInv, CloseBlockInv, EndOfBlockInv
<1>2. CASE EndOfScript \/ ScriptError
  BY <1>2, EndOfScriptInv, ScriptErrorInv
<1>3. CASE Descend \/ Ascend
  BY <1>3, DescendInv, AscendInv
<1>4. CASE PopulateLabel \/ PopulateRange \/ ResolveBranch \/ PatchEnding
  BY <1>4, PopulateLabelInv, PopulateRangeInv, ResolveBranchInv, PatchEndingInv
<1>5. CASE DuplicateLabel \/ UndefinedLabel \/ Unmatched
  <2>1. Fail /\ stage \in Pass
    BY <1>5 DEF DuplicateLabel, UndefinedLabel, Unmatched, Visiting, Ended
  <2>2. QED
    BY <2>1, FailInv
<1>6. CASE LabelsPopulated \/ RangesPopulated \/ BranchesResolved \/ EndingsPatched
  BY <1>6, PassEndInv
<1>7. CASE Terminated \/ UNCHANGED vars
  BY <1>7, StutterInv DEF Terminated
<1>8. QED
  BY <1>1, <1>2, <1>3, <1>4, <1>5, <1>6, <1>7 DEF Next

LEMMA InvHolds == Spec => []Inv
<1>1. Init => Inv
  BY InitInv
<1>2. Inv /\ [Next]_vars => Inv'
  BY NextInv
<1>3. QED
  BY <1>1, <1>2, PTL DEF Spec

-----------------------------------------------------------------------------
(* The tree of the commands.                                               *)

\* Where the commands inside p end, when there are n commands: p = 0 stands for
\* the script, and end[p] = 0 for a block that is still open.
Limit(n, end, p) == IF p = 0 THEN n + 1 ELSE IF end[p] = 0 THEN n + 1 ELSE end[p]

\* The commands are a tree in the order of their creation: par is the block a
\* command is in, end the place behind it and all that it contains; blocks are
\* the commands that contain others.
Tree(n, blocks, par, end) ==
  /\ par \in [1 .. n -> 0 .. n] /\ end \in [1 .. n -> 0 .. n + 1]
  /\ \A c \in 1 .. n :
       /\ par[c] < c
       /\ c \notin blocks => end[c] = c + 1
       /\ end[c] # 0 => c < end[c] /\ end[c] <= Limit(n, end, par[c])
       /\ end[c] # 0 /\ end[c] < Limit(n, end, par[c]) => par[end[c]] = par[c]
       /\ c + 1 < Limit(n, end, c) => par[c + 1] = c
       /\ \A d \in 1 .. n : c < d /\ d < Limit(n, end, c) => par[d] >= c

\* Where the next command of the chain of the k-th call is or will be.
Onward(n, calls, k) == IF k < Len(calls) THEN calls[k + 1].block ELSE n + 1

\* The calls of compile_sequence: each but the first for an open block of the
\* chain below it, with a chain from the first command of the block to the last
\* one that is done.
FramesFit(n, par, end, calls) ==
  /\ \A k \in 1 .. Len(calls) :
       /\ IF k = 1 THEN calls[k].block = 0
          ELSE /\ calls[k].block \in 1 .. n /\ end[calls[k].block] = 0
               /\ par[calls[k].block] = calls[k - 1].block
       /\ \A j \in 1 .. k - 1 : calls[j].block < calls[k].block
       /\ IF calls[k].tail = 0
          THEN calls[k].head = 0 /\ Onward(n, calls, k) = calls[k].block + 1
          ELSE /\ calls[k].head = calls[k].block + 1 /\ calls[k].tail \in 1 .. n
               /\ par[calls[k].tail] = calls[k].block
               /\ end[calls[k].tail] = Onward(n, calls, k)
  /\ \A c \in 1 .. n :
       end[c] = 0 => \E k \in 2 .. Len(calls) : calls[k].block = c

\* No two commands of a chain end at the same place.
LEMMA EndsDiffer ==
  ASSUME NEW n \in Nat, NEW blocks, NEW par, NEW end, Tree(n, blocks, par, end),
         NEW x \in 1 .. n, NEW y \in 1 .. n, par[x] = par[y], end[x] = end[y], end[x] # 0
  PROVE  x = y
<1>1. ASSUME NEW c \in 1 .. n, NEW d \in 1 .. n, par[c] = par[d], end[c] = end[d], end[c] # 0
      PROVE  ~(c < d)
  <2>1. SUFFICES ASSUME c < d PROVE FALSE
    OBVIOUS
  <2>2. d < Limit(n, end, c)
    BY <1>1 DEF Limit, Tree
  <2>3. par[d] >= c
    BY <2>1, <2>2 DEF Tree
  <2>4. QED
    BY <1>1, <2>3 DEF Tree
<1>2. QED
  BY <1>1

\* What ends where the next command begins, in a block that is open, is the
\* last command of the innermost call.
LEMMA LastOfChain ==
  ASSUME NEW n \in Nat, NEW blocks, NEW par, NEW end, Tree(n, blocks, par, end),
         NEW calls, NEW d \in Nat \ {0}, d = Len(calls), FramesFit(n, par, end, calls),
         NEW x \in 1 .. n, end[x] = n + 1, par[x] = 0 \/ end[par[x]] = 0
  PROVE  par[x] = calls[d].block /\ x = calls[d].tail
<1> DEFINE p == par[x]
<1>1. p \in Nat /\ p < x /\ p \in 0 .. n
  BY DEF Tree
<1>2. PICK k \in 1 .. d : calls[k].block = p
  <2>1. CASE p = 0
    <3>1. calls[1].block = 0 /\ 1 \in 1 .. d
      BY DEF FramesFit
    <3>2. QED
      BY <2>1, <3>1
  <2>2. CASE p # 0
    <3>1. end[p] = 0 /\ p \in 1 .. n
      BY <1>1, <2>2
    <3>2. PICK k \in 2 .. Len(calls) : calls[k].block = p
      BY <3>1 DEF FramesFit
    <3>3. k \in 1 .. d
      OBVIOUS
    <3>4. QED
      BY <3>2, <3>3
  <2>3. QED
    BY <2>1, <2>2
<1>3. ~(k < d)
  <2>1. SUFFICES ASSUME k < d PROVE FALSE
    OBVIOUS
  <2> DEFINE y == calls[k + 1].block
  <2>2. /\ k + 1 \in 1 .. d /\ k + 1 # 1 /\ (k + 1) - 1 = k
    BY <2>1
  <2>3. y \in 1 .. n /\ end[y] = 0 /\ par[y] = p
    BY <1>2, <2>2 DEF FramesFit
  <2>4. Limit(n, end, x) = n + 1 /\ Limit(n, end, y) = n + 1
    BY <2>3 DEF Limit
  <2>5. x # y
    BY <2>3
  <2>6. CASE x < y
    <3>1. par[y] >= x
      BY <2>3, <2>4, <2>6 DEF Tree
    <3>2. QED
      BY <1>1, <2>3, <3>1
  <2>7. CASE y < x
    <3>1. par[x] >= y
      BY <2>3, <2>4, <2>7 DEF Tree
    <3>2. par[y] < y
      BY <2>3 DEF Tree
    <3>3. QED
      BY <1>1, <2>3, <3>1, <3>2
  <2>8. QED
    BY <2>3, <2>5, <2>6, <2>7
<1>4. k = d
  BY <1>3
<1>5. calls[d].tail # 0
  <2>1. Onward(n, calls, d) = n + 1
    BY DEF Onward
  <2>2. SUFFICES ASSUME calls[d].tail = 0 PROVE FALSE
    OBVIOUS
  <2>3. n + 1 = p + 1
    BY <1>2, <1>4, <2>1, <2>2 DEF FramesFit
  <2>4. QED
    BY <1>1, <2>3
<1>6. calls[d].tail \in 1 .. n /\ par[calls[d].tail] = p /\ end[calls[d].tail] = n + 1
  BY <1>2, <1>4, <1>5 DEF FramesFit, Onward
<1>7. x = calls[d].tail
  BY <1>6, EndsDiffer
<1>8. QED
  BY <1>2, <1>4, <1>7

\* What ends at the innermost open block, in the block around that, is the last
\* command of the call before it.
LEMMA LastBeforeBlock ==
  ASSUME NEW n \in Nat, NEW blocks, NEW par, NEW end, Tree(n, blocks, par, end),
         NEW calls, NEW d \in Nat, d > 1, d = Len(calls), FramesFit(n, par, end, calls),
         NEW x \in 1 .. n, end[x] = calls[d].block, end[x] < Limit(n, end, par[x])
  PROVE  par[x] = calls[d - 1].block /\ x = calls[d - 1].tail
<1> DEFINE b == calls[d].block
<1>1. /\ d \in 1 .. d /\ d - 1 \in 1 .. d /\ d # 1
  OBVIOUS
<1>2. b \in 1 .. n /\ end[b] = 0 /\ par[b] = calls[d - 1].block
  BY <1>1 DEF FramesFit
<1>3. par[b] = par[x] /\ x < b
  <2>1. end[x] # 0
    BY <1>2
  <2>2. x < end[x] /\ par[end[x]] = par[x]
    BY <2>1 DEF Tree
  <2>3. QED
    BY <2>2
<1>4. calls[d - 1].tail # 0
  <2>1. Onward(n, calls, d - 1) = b
    BY DEF Onward
  <2>2. SUFFICES ASSUME calls[d - 1].tail = 0 PROVE FALSE
    OBVIOUS
  <2>3. b = par[x] + 1
    BY <1>1, <1>2, <1>3, <2>1, <2>2 DEF FramesFit
  <2>4. QED
    BY <1>2, <1>3, <2>3 DEF Tree
<1>5. /\ calls[d - 1].tail \in 1 .. n /\ par[calls[d - 1].tail] = par[x]
      /\ end[calls[d - 1].tail] = b
  <2>1. Onward(n, calls, d - 1) = b
    BY DEF Onward
  <2>2. QED
    BY <1>1, <1>2, <1>3, <1>4, <2>1 DEF FramesFit
<1>6. x = calls[d - 1].tail
  BY <1>2, <1>5, EndsDiffer
<1>7. QED
  BY <1>2, <1>3, <1>6

\* A command is added to the innermost call; an open block has no end yet.
Grown(n, par, end, p, e, par2, end2) ==
  /\ par2 = [c \in 1 .. n + 1 |-> IF c = n + 1 THEN p ELSE par[c]]
  /\ end2 = [c \in 1 .. n + 1 |-> IF c = n + 1 THEN e ELSE end[c]]

\* b is the innermost block that is open, or 0.
Innermost(n, end, b) ==
  /\ b \in 0 .. n /\ (b # 0 => end[b] = 0)
  /\ \A c \in 1 .. n : end[c] = 0 => c <= b

LEMMA OpenBlocks ==
  ASSUME NEW n \in Nat, NEW par, NEW end, NEW calls,
         NEW d \in Nat \ {0}, d = Len(calls), FramesFit(n, par, end, calls)
  PROVE  Innermost(n, end, calls[d].block)
<1>1. calls[d].block \in 0 .. n /\ (calls[d].block # 0 => end[calls[d].block] = 0)
  <2>1. CASE d = 1
    <3>1. calls[d].block = 0
      BY <2>1 DEF FramesFit
    <3>2. QED
      BY <3>1
  <2>2. CASE d # 1
    <3>1. calls[d].block \in 1 .. n /\ end[calls[d].block] = 0
      BY <2>2 DEF FramesFit
    <3>2. QED
      BY <3>1
  <2>3. QED
    BY <2>1, <2>2
<1>2. ASSUME NEW c \in 1 .. n, end[c] = 0 PROVE c <= calls[d].block
  <2>1. PICK k \in 2 .. d : calls[k].block = c
    BY <1>2 DEF FramesFit
  <2>2. CASE k = d
    BY <2>1, <2>2
  <2>3. CASE k # d
    <3>1. k \in 1 .. d - 1 /\ d \in 1 .. d
      BY <2>3
    <3>2. calls[k].block < calls[d].block
      BY <3>1 DEF FramesFit
    <3>3. QED
      BY <1>1, <2>1, <3>2
  <2>4. QED
    BY <2>2, <2>3
<1>3. QED
  BY <1>1, <1>2 DEF Innermost

LEMMA TreeGrows ==
  ASSUME NEW n \in Nat, NEW blocks, NEW par, NEW end, Tree(n, blocks, par, end),
         NEW calls, NEW d \in Nat \ {0}, d = Len(calls), FramesFit(n, par, end, calls),
         NEW m, m = n + 1, NEW e \in {0, m + 1},
         NEW blocks2, \A c \in 1 .. n : c \in blocks2 <=> c \in blocks,
         e = 0 => m \in blocks2,
         NEW par2, NEW end2, Grown(n, par, end, calls[d].block, e, par2, end2)
  PROVE  Tree(m, blocks2, par2, end2)
<1> DEFINE b == calls[d].block
<1>1. /\ b \in 0 .. n /\ (b # 0 => end[b] = 0)
      /\ \A c \in 1 .. n : end[c] = 0 => c <= b
  <2>1. Innermost(n, end, b)
    BY OpenBlocks
  <2>2. QED
    BY <2>1 DEF Innermost
<1>2. /\ par \in [1 .. n -> 0 .. n] /\ end \in [1 .. n -> 0 .. n + 1]
      /\ m \in Nat /\ m \in 1 .. m
  BY DEF Tree
<1>3. /\ par2[m] = b /\ end2[m] = e
      /\ \A c \in 1 .. n : par2[c] = par[c] /\ end2[c] = end[c]
      /\ par2 \in [1 .. m -> 0 .. m] /\ end2 \in [1 .. m -> 0 .. m + 1]
  BY <1>1, <1>2 DEF Grown
<1>4. \A p \in 0 .. n :
         /\ (p = 0 \/ end[p] = 0) => Limit(n, end, p) = m /\ Limit(m, end2, p) = m + 1
         /\ ~(p = 0 \/ end[p] = 0) => /\ Limit(n, end, p) = end[p] /\ Limit(m, end2, p) = end[p]
                                      /\ end[p] \in 1 .. m
  BY <1>2, <1>3 DEF Limit
<1> HIDE DEF Grown
<1>5. ASSUME NEW c \in 1 .. m
      PROVE  /\ par2[c] < c
             /\ c \notin blocks2 => end2[c] = c + 1
             /\ end2[c] # 0 => c < end2[c] /\ end2[c] <= Limit(m, end2, par2[c])
             /\ end2[c] # 0 /\ end2[c] < Limit(m, end2, par2[c]) => par2[end2[c]] = par2[c]
             /\ c + 1 < Limit(m, end2, c) => par2[c + 1] = c
             /\ \A x \in 1 .. m : c < x /\ x < Limit(m, end2, c) => par2[x] >= c
  <2>1. CASE c = m
    <3>1. Limit(m, end2, b) = m + 1
      BY <1>1, <1>4
    <3>2. Limit(m, end2, m) = m + 1
      BY <1>2, <1>3 DEF Limit
    <3>3. m \notin blocks2 => e = m + 1
      OBVIOUS
    <3>4. QED
      BY <1>1, <1>2, <1>3, <2>1, <3>1, <3>2, <3>3
  <2>2. CASE c \in 1 .. n
    <3> DEFINE p == par[c]
               L == Limit(n, end, p)
               M == Limit(m, end2, p)
               K == Limit(n, end, c)
               N == Limit(m, end2, c)
    <3>1. /\ par2[c] = p /\ end2[c] = end[c] /\ p \in 0 .. n /\ p < c
          /\ c \notin blocks => end[c] = c + 1
          /\ end[c] # 0 => c < end[c] /\ end[c] <= L
          /\ end[c] # 0 /\ end[c] < L => par[end[c]] = p
          /\ c + 1 < Limit(n, end, c) => par[c + 1] = c
          /\ \A x \in 1 .. n : c < x /\ x < Limit(n, end, c) => par[x] >= c
      BY <1>2, <1>3, <2>2 DEF Tree
    <3>2. /\ \/ (p = 0 \/ end[p] = 0) /\ L = m /\ M = m + 1
             \/ ~(p = 0 \/ end[p] = 0) /\ L = M /\ M \in 1 .. m
          /\ \/ end[c] = 0 /\ K = m /\ N = m + 1
             \/ end[c] # 0 /\ K = N /\ K = end[c]
      <4>1. c \in 0 .. n /\ c # 0
        BY <2>2
      <4>2. QED
        BY <1>4, <3>1, <4>1
    <3>3. end[c] \in 0 .. m /\ c \in 0 .. n
      BY <1>2, <2>2
    <3> HIDE DEF L, M, K, N
    <3>4. ASSUME end[c] # 0, end[c] < M PROVE par2[end[c]] = p
      <4>1. CASE end[c] < L
        <5>1. PICK y \in 1 .. n : y = end[c]
          BY <1>2, <3>2, <3>3, <3>4, <4>1
        <5>2. par[y] = p
          BY <3>1, <3>4, <4>1, <5>1 DEF L
        <5>3. par2[y] = p
          BY <1>3, <5>2
        <5>4. QED
          BY <5>1, <5>3
      <4>2. CASE end[c] = L
        <5>1. p = 0 \/ end[p] = 0
          BY <3>2, <3>4, <4>2
        <5>2. end[c] = n + 1
          BY <3>2, <4>2, <5>1
        <5>3. p = b
          BY <2>2, <5>1, <5>2, LastOfChain
        <5>4. QED
          BY <1>3, <5>2, <5>3
      <4>3. QED
        <5>1. end[c] <= L
          BY <3>1, <3>4 DEF L
        <5>2. end[c] \in Int /\ L \in Int
          BY <1>2, <3>2, <3>3
        <5>3. QED
          BY <4>1, <4>2, <5>1, <5>2
    <3>5. ASSUME c + 1 < N PROVE par2[c + 1] = c
      <4>1. CASE c + 1 < K
        <5>1. c + 1 \in 1 .. n
          BY <1>2, <3>2, <3>3, <4>1
        <5>2. QED
          BY <1>3, <3>1, <4>1, <5>1 DEF K
      <4>2. CASE ~(c + 1 < K)
        <5>1. end[c] = 0 /\ c = n
          BY <1>2, <2>2, <3>2, <3>3, <3>5, <4>2
        <5>2. b = n
          BY <1>1, <2>2, <5>1
        <5>3. QED
          BY <1>3, <5>1, <5>2
      <4>3. QED
        BY <4>1, <4>2
    <3>6. ASSUME NEW x \in 1 .. m, c < x, x < N PROVE par2[x] >= c
      <4>1. CASE x \in 1 .. n
        <5>1. x < K
          BY <3>2, <3>6, <4>1
        <5>2. QED
          BY <1>3, <3>1, <3>6, <4>1, <5>1 DEF K
      <4>2. CASE x = m
        <5>1. end[c] = 0
          BY <1>2, <3>2, <3>3, <3>6, <4>2
        <5>2. QED
          BY <1>1, <1>3, <2>2, <4>2, <5>1
      <4>3. QED
        BY <1>2, <4>1, <4>2
    <3>7. end[c] # 0 => c < end[c] /\ end[c] <= M
      <4>1. end[c] # 0 => c < end[c] /\ end[c] <= L
        BY <3>1 DEF L
      <4>2. QED
        BY <1>2, <3>2, <3>3, <4>1
    <3>8. par2[c] < c /\ (c \notin blocks2 => end2[c] = c + 1)
      BY <2>2, <3>1
    <3>9. QED
      BY <3>1, <3>4, <3>5, <3>6, <3>7, <3>8 DEF M, N
  <2>3. QED
    BY <1>2, <2>1, <2>2
<1>6. QED
  BY <1>3, <1>5 DEF Tree

\* The calls after a command was linked in the innermost one.
CallExtended(calls, calls2, k, c) ==
  /\ \A j \in 1 .. k : calls2[j].block = calls[j].block
  /\ \A j \in 1 .. k - 1 : calls2[j].head = calls[j].head /\ calls2[j].tail = calls[j].tail
  /\ calls2[k].head = IF calls[k].head = 0 THEN c ELSE calls[k].head
  /\ calls2[k].tail = c

\* The k-th call has the block and the chain that FramesFit asks for.
FrameFits(n, par, end, calls, k) ==
  /\ IF k = 1 THEN calls[k].block = 0
     ELSE /\ calls[k].block \in 1 .. n /\ end[calls[k].block] = 0
          /\ par[calls[k].block] = calls[k - 1].block
  /\ \A j \in 1 .. k - 1 : calls[j].block < calls[k].block
  /\ IF calls[k].tail = 0
     THEN calls[k].head = 0 /\ Onward(n, calls, k) = calls[k].block + 1
     ELSE /\ calls[k].head = calls[k].block + 1 /\ calls[k].tail \in 1 .. n
          /\ par[calls[k].tail] = calls[k].block
          /\ end[calls[k].tail] = Onward(n, calls, k)

LEMMA EveryFrame ==
  ASSUME NEW n, NEW par, NEW end, NEW calls
  PROVE  FramesFit(n, par, end, calls) <=>
           /\ \A k \in 1 .. Len(calls) : FrameFits(n, par, end, calls, k)
           /\ \A c \in 1 .. n :
                end[c] = 0 => \E k \in 2 .. Len(calls) : calls[k].block = c
BY DEF FramesFit, FrameFits

LEMMA FramesAdd ==
  ASSUME NEW n \in Nat, NEW par, NEW end,
         NEW calls, NEW d \in Nat \ {0}, d = Len(calls), FramesFit(n, par, end, calls),
         NEW m, m = n + 1,
         NEW par2, NEW end2, Grown(n, par, end, calls[d].block, m + 1, par2, end2),
         NEW calls2, Len(calls2) = d, CallExtended(calls, calls2, d, m)
  PROVE  FramesFit(m, par2, end2, calls2)
<1>1. /\ par2[m] = calls[d].block /\ end2[m] = m + 1
      /\ \A c \in 1 .. n : par2[c] = par[c] /\ end2[c] = end[c] /\ c \in 1 .. m
  BY DEF Grown
<1>2. /\ \A j \in 1 .. d : calls2[j].block = calls[j].block
      /\ \A j \in 1 .. d - 1 : calls2[j].head = calls[j].head /\ calls2[j].tail = calls[j].tail
      /\ calls2[d].head = IF calls[d].head = 0 THEN m ELSE calls[d].head
      /\ calls2[d].tail = m
  BY DEF CallExtended
<1>3. ASSUME NEW k \in 1 .. d PROVE FrameFits(m, par2, end2, calls2, k)
  <2>1. FrameFits(n, par, end, calls, k)
    BY EveryFrame
  <2>2. /\ calls2[k].block = calls[k].block
        /\ k # 1 => calls2[k - 1].block = calls[k - 1].block
        /\ \A j \in 1 .. k - 1 : calls2[j].block = calls[j].block
    BY <1>2
  <2>3. \A j \in 1 .. k - 1 : calls2[j].block < calls2[k].block
    BY <2>1, <2>2 DEF FrameFits
  <2>4. IF k = 1 THEN calls2[k].block = 0
        ELSE /\ calls2[k].block \in 1 .. m /\ end2[calls2[k].block] = 0
             /\ par2[calls2[k].block] = calls2[k - 1].block
    BY <1>1, <2>1, <2>2 DEF FrameFits
  <2>5. CASE k < d
    <3>1. Onward(m, calls2, k) = Onward(n, calls, k)
      <4>1. k + 1 \in 1 .. d
        BY <2>5
      <4>2. QED
        BY <1>2, <2>5, <4>1 DEF Onward
    <3>2. calls2[k].head = calls[k].head /\ calls2[k].tail = calls[k].tail
      BY <1>2, <2>5
    <3>3. IF calls2[k].tail = 0
          THEN calls2[k].head = 0 /\ Onward(m, calls2, k) = calls2[k].block + 1
          ELSE /\ calls2[k].head = calls2[k].block + 1 /\ calls2[k].tail \in 1 .. m
               /\ par2[calls2[k].tail] = calls2[k].block
               /\ end2[calls2[k].tail] = Onward(m, calls2, k)
      BY <1>1, <2>1, <2>2, <3>1, <3>2 DEF FrameFits
    <3>4. QED
      BY <2>3, <2>4, <3>3 DEF FrameFits
  <2>6. CASE k = d
    <3>1. Onward(m, calls2, k) = m + 1 /\ Onward(n, calls, k) = m
      BY <2>6 DEF Onward
    <3>2. calls2[k].head = calls2[k].block + 1
      BY <1>2, <2>1, <2>2, <2>6, <3>1 DEF FrameFits
    <3>3. calls2[k].tail = m /\ m # 0 /\ m \in 1 .. m /\ par2[m] = calls2[k].block
      BY <1>1, <1>2, <2>2, <2>6
    <3>4. QED
      BY <1>1, <2>3, <2>4, <3>1, <3>2, <3>3 DEF FrameFits
  <2>7. QED
    BY <2>5, <2>6
<1>4. ASSUME NEW c \in 1 .. m, end2[c] = 0 PROVE \E k \in 2 .. d : calls2[k].block = c
  <2>1. c \in 1 .. n /\ end[c] = 0
    BY <1>1, <1>4
  <2>2. PICK k \in 2 .. d : calls[k].block = c
    BY <2>1 DEF FramesFit
  <2>3. QED
    BY <1>2, <2>2
<1>5. QED
  BY <1>3, <1>4, EveryFrame

LEMMA FramesOpen ==
  ASSUME NEW n \in Nat, NEW par, NEW end,
         NEW calls, NEW d \in Nat \ {0}, d = Len(calls), FramesFit(n, par, end, calls),
         NEW m, m = n + 1,
         NEW par2, NEW end2, Grown(n, par, end, calls[d].block, 0, par2, end2),
         NEW calls2, Len(calls2) = d + 1, \A k \in 1 .. d : calls2[k] = calls[k],
         calls2[d + 1].head = 0, calls2[d + 1].tail = 0, calls2[d + 1].block = m
  PROVE  FramesFit(m, par2, end2, calls2)
<1>1. /\ par2[m] = calls[d].block /\ end2[m] = 0
      /\ \A c \in 1 .. n : par2[c] = par[c] /\ end2[c] = end[c] /\ c \in 1 .. m
  BY DEF Grown
<1>2. ASSUME NEW k \in 1 .. d
      PROVE  FrameFits(m, par2, end2, calls2, k) /\ calls[k].block < m
  <2>1. FrameFits(n, par, end, calls, k)
    BY EveryFrame
  <2>2. /\ calls2[k] = calls[k] /\ (k # 1 => calls2[k - 1] = calls[k - 1])
        /\ \A j \in 1 .. k - 1 : calls2[j] = calls[j]
    OBVIOUS
  <2>3. Onward(m, calls2, k) = Onward(n, calls, k)
    <3>1. CASE k < d
      <4>1. k + 1 \in 1 .. d
        BY <3>1
      <4>2. QED
        BY <3>1, <4>1 DEF Onward
    <3>2. CASE k = d
      BY <3>2 DEF Onward
    <3>3. QED
      BY <3>1, <3>2
  <2>4. \A j \in 1 .. k - 1 : calls2[j].block < calls2[k].block
    BY <2>1, <2>2 DEF FrameFits
  <2>5. IF k = 1 THEN calls2[k].block = 0
        ELSE /\ calls2[k].block \in 1 .. m /\ end2[calls2[k].block] = 0
             /\ par2[calls2[k].block] = calls2[k - 1].block
    BY <1>1, <2>1, <2>2 DEF FrameFits
  <2>6. IF calls2[k].tail = 0
          THEN calls2[k].head = 0 /\ Onward(m, calls2, k) = calls2[k].block + 1
          ELSE /\ calls2[k].head = calls2[k].block + 1 /\ calls2[k].tail \in 1 .. m
               /\ par2[calls2[k].tail] = calls2[k].block
               /\ end2[calls2[k].tail] = Onward(m, calls2, k)
    BY <1>1, <2>1, <2>2, <2>3 DEF FrameFits
  <2>7. calls[k].block < m
    BY <2>1 DEF FrameFits
  <2>8. QED
    BY <2>4, <2>5, <2>6, <2>7 DEF FrameFits
<1>3. FrameFits(m, par2, end2, calls2, d + 1)
  <2>1. Onward(m, calls2, d + 1) = m + 1
    BY DEF Onward
  <2>2. \A j \in 1 .. d : calls2[j].block < m
    BY <1>2
  <2>3. m \in 1 .. m /\ (d + 1) - 1 = d /\ d + 1 # 1 /\ calls2[d] = calls[d]
    OBVIOUS
  <2>4. QED
    BY <1>1, <2>1, <2>2, <2>3 DEF FrameFits
<1>4. ASSUME NEW c \in 1 .. m, end2[c] = 0
      PROVE  \E k \in 2 .. d + 1 : calls2[k].block = c
  <2>1. CASE c \in 1 .. n
    <3>1. PICK k \in 2 .. d : calls[k].block = c
      BY <1>1, <1>4, <2>1 DEF FramesFit
    <3>2. QED
      BY <3>1
  <2>2. CASE c = m
    <3>1. d + 1 \in 2 .. d + 1
      OBVIOUS
    <3>2. QED
      BY <2>2, <3>1
  <2>3. QED
    BY <2>1, <2>2
<1>5. ASSUME NEW k \in 1 .. d + 1 PROVE FrameFits(m, par2, end2, calls2, k)
  BY <1>2, <1>3
<1>6. QED
  BY <1>4, <1>5, EveryFrame

LEMMA TreeCloses ==
  ASSUME NEW n \in Nat, NEW blocks, NEW par, NEW end, Tree(n, blocks, par, end),
         NEW b \in 1 .. n, end[b] = 0, par[b] = 0 \/ end[par[b]] = 0,
         NEW end2, end2 = [end EXCEPT ![b] = n + 1]
  PROVE  Tree(n, blocks, par, end2)
<1>1. par \in [1 .. n -> 0 .. n] /\ end \in [1 .. n -> 0 .. n + 1]
  BY DEF Tree
<1>2. /\ end2 \in [1 .. n -> 0 .. n + 1] /\ end2[b] = n + 1
      /\ \A c \in 1 .. n : c # b => end2[c] = end[c]
  BY <1>1
<1>3. \A p \in 0 .. n : Limit(n, end2, p) = Limit(n, end, p)
  BY <1>2 DEF Limit
<1>4. ASSUME NEW c \in 1 .. n
      PROVE  /\ par[c] < c
             /\ c \notin blocks => end2[c] = c + 1
             /\ end2[c] # 0 => c < end2[c] /\ end2[c] <= Limit(n, end2, par[c])
             /\ end2[c] # 0 /\ end2[c] < Limit(n, end2, par[c]) => par[end2[c]] = par[c]
             /\ c + 1 < Limit(n, end2, c) => par[c + 1] = c
             /\ \A d \in 1 .. n : c < d /\ d < Limit(n, end2, c) => par[d] >= c
  <2>1. Limit(n, end2, par[c]) = Limit(n, end, par[c]) /\ Limit(n, end2, c) = Limit(n, end, c)
    <3>1. par[c] \in 0 .. n /\ c \in 0 .. n
      BY <1>1
    <3>2. QED
      BY <1>3, <3>1
  <2>2. CASE c # b
    <3>1. end2[c] = end[c]
      BY <1>2, <2>2
    <3>2. QED
      BY <2>1, <3>1 DEF Tree
  <2>3. CASE c = b
    <3>1. c \in blocks
      BY <2>3 DEF Tree
    <3>2. Limit(n, end, par[c]) = n + 1
      BY <2>3 DEF Limit
    <3>3. /\ par[c] < c /\ (c + 1 < Limit(n, end, c) => par[c + 1] = c)
          /\ \A d \in 1 .. n : c < d /\ d < Limit(n, end, c) => par[d] >= c
      BY DEF Tree
    <3>4. end2[c] = n + 1 /\ Limit(n, end2, par[c]) = n + 1 /\ c < n + 1
      BY <1>2, <2>1, <2>3, <3>2
    <3>5. ASSUME NEW d \in 1 .. n, c < d, d < Limit(n, end2, c) PROVE par[d] >= c
      BY <2>1, <3>3, <3>5
    <3>6. /\ end2[c] # 0 => c < end2[c] /\ end2[c] <= Limit(n, end2, par[c])
          /\ ~(end2[c] < Limit(n, end2, par[c]))
      BY <3>4
    <3>7. QED
      BY <2>1, <3>1, <3>3, <3>5, <3>6
  <2>4. QED
    BY <2>2, <2>3
<1>5. QED
  BY <1>1, <1>2, <1>4 DEF Tree

LEMMA FramesClose ==
  ASSUME NEW n \in Nat, NEW par, NEW end,
         NEW calls, NEW d \in Nat, d > 1, d = Len(calls), FramesFit(n, par, end, calls),
         NEW b, b = calls[d].block, end \in [1 .. n -> 0 .. n + 1],
         NEW end2, end2 = [end EXCEPT ![b] = n + 1],
         NEW calls2, Len(calls2) = d - 1, CallExtended(calls, calls2, d - 1, b)
  PROVE  FramesFit(n, par, end2, calls2)
<1> DEFINE e == d - 1
<1>0. e \in Nat \ {0} /\ e + 1 = d /\ d \in 1 .. d /\ d # 1 /\ d - 1 = e
  OBVIOUS
<1>1. FrameFits(n, par, end, calls, d)
  BY EveryFrame
<1>2. /\ b \in 1 .. n /\ end[b] = 0 /\ par[b] = calls[e].block
      /\ \A j \in 1 .. e : calls[j].block < b
  BY <1>0, <1>1 DEF FrameFits
<1>3. end2[b] = n + 1 /\ \A c \in 1 .. n : c # b => end2[c] = end[c]
  BY <1>2
<1>4. /\ \A j \in 1 .. e : calls2[j].block = calls[j].block
      /\ \A j \in 1 .. e - 1 : calls2[j].head = calls[j].head /\ calls2[j].tail = calls[j].tail
      /\ calls2[e].head = IF calls[e].head = 0 THEN b ELSE calls[e].head
      /\ calls2[e].tail = b
  BY DEF CallExtended
<1> HIDE DEF e
<1>5. ASSUME NEW k \in 1 .. e PROVE FrameFits(n, par, end2, calls2, k)
  <2>1. FrameFits(n, par, end, calls, k)
    <3>1. k \in 1 .. d
      BY <1>0
    <3>2. QED
      BY <3>1, EveryFrame
  <2>2. /\ calls2[k].block = calls[k].block
        /\ k # 1 => calls2[k - 1].block = calls[k - 1].block
        /\ \A j \in 1 .. k - 1 : calls2[j].block = calls[j].block
    BY <1>0, <1>4
  <2>3. \A j \in 1 .. k - 1 : calls2[j].block < calls2[k].block
    BY <2>1, <2>2 DEF FrameFits
  <2>4. calls[k].block # b
    <3>1. calls[k].block < b
      BY <1>2
    <3>2. QED
      BY <1>2, <3>1
  <2>5. IF k = 1 THEN calls2[k].block = 0
        ELSE /\ calls2[k].block \in 1 .. n /\ end2[calls2[k].block] = 0
             /\ par[calls2[k].block] = calls2[k - 1].block
    BY <1>3, <2>1, <2>2, <2>4 DEF FrameFits
  <2>6. CASE k < e
    <3>1. Onward(n, calls2, k) = Onward(n, calls, k) /\ Onward(n, calls, k) # 0
      <4>1. k + 1 \in 1 .. e /\ k + 1 \in 1 .. d /\ k < d /\ k + 1 # 1
        BY <1>0, <2>6
      <4>2. FrameFits(n, par, end, calls, k + 1)
        BY <4>1, EveryFrame
      <4>3. calls[k + 1].block \in 1 .. n
        BY <4>1, <4>2 DEF FrameFits
      <4>4. QED
        BY <1>0, <1>4, <2>6, <4>1, <4>3 DEF Onward
    <3>2. calls2[k].head = calls[k].head /\ calls2[k].tail = calls[k].tail
      BY <1>0, <1>4, <2>6
    <3>3. calls[k].tail # 0 => calls[k].tail \in 1 .. n /\ calls[k].tail # b
      BY <1>2, <2>1, <3>1 DEF FrameFits
    <3>4. IF calls2[k].tail = 0
          THEN calls2[k].head = 0 /\ Onward(n, calls2, k) = calls2[k].block + 1
          ELSE /\ calls2[k].head = calls2[k].block + 1 /\ calls2[k].tail \in 1 .. n
               /\ par[calls2[k].tail] = calls2[k].block
               /\ end2[calls2[k].tail] = Onward(n, calls2, k)
      BY <1>3, <2>1, <2>2, <3>1, <3>2, <3>3 DEF FrameFits
    <3>5. QED
      BY <2>3, <2>5, <3>4 DEF FrameFits
  <2>7. CASE k = e
    <3>1. Onward(n, calls2, k) = n + 1 /\ Onward(n, calls, k) = b
      BY <1>0, <2>7 DEF Onward
    <3>2. calls2[k].head = calls2[k].block + 1
      BY <1>4, <2>1, <2>2, <2>7, <3>1 DEF FrameFits
    <3>3. calls2[k].tail = b /\ b # 0 /\ par[b] = calls2[k].block
      BY <1>2, <1>4, <2>2, <2>7
    <3>4. QED
      BY <1>2, <1>3, <2>3, <2>5, <3>1, <3>2, <3>3 DEF FrameFits
  <2>8. QED
    BY <1>0, <2>6, <2>7
<1>6. ASSUME NEW c \in 1 .. n, end2[c] = 0 PROVE \E k \in 2 .. e : calls2[k].block = c
  <2>1. c # b /\ end[c] = 0
    BY <1>3, <1>6
  <2>2. PICK k \in 2 .. d : calls[k].block = c
    BY <2>1 DEF FramesFit
  <2>3. k \in 2 .. e /\ k \in 1 .. e
    BY <1>0, <2>1, <2>2
  <2>4. QED
    BY <1>4, <2>2, <2>3
<1>7. Len(calls2) = e
  BY DEF e
<1>8. QED
  BY <1>5, <1>6, <1>7, EveryFrame

-----------------------------------------------------------------------------
(* The links of the commands.                                              *)

\* What follows a command, in the block it is in or behind that.
Follow(n, end, c) == IF end[c] = n + 1 THEN 0 ELSE end[c]

\* The loop of compile_sequence links a command with the next one when that is
\* done; the last pass does the same for the last one of each block in patched.
HasNext(n, par, end, patched, c) ==
  end[c] # 0 /\ IF end[c] < Limit(n, end, par[c]) THEN end[end[c]] # 0
                ELSE par[c] \in patched

NextOf(n, par, end, patched, c) ==
  IF HasNext(n, par, end, patched, c) THEN Follow(n, end, c) ELSE 0

GotoOf(end, c) == IF end[c] = 0 \/ end[c] = c + 1 THEN 0 ELSE c + 1

LinksAre(n, prog, par, end, patched) ==
  \A c \in 1 .. n :
    /\ prog[c].next = NextOf(n, par, end, patched, c)
    /\ prog[c].code = "block" => prog[c].goto = GotoOf(end, c)

\* The program t after a command was created that follows tail, unless e = 0.
LinksGrown(n, e, tail, s, t) ==
  /\ \A c \in 1 .. n :
       /\ t[c].code = s[c].code /\ t[c].goto = s[c].goto
       /\ t[c].next = IF e # 0 /\ c = tail THEN n + 1 ELSE s[c].next
  /\ t[n + 1].next = 0 /\ (t[n + 1].code = "block" => t[n + 1].goto = 0 /\ e = 0)

\* The tree grows by the command m, inside the innermost open block.
Growth(n, m, blocks, par, end, calls, d, e, par2, end2) ==
  /\ n \in Nat /\ m = n + 1 /\ Tree(n, blocks, par, end)
  /\ d \in Nat \ {0} /\ d = Len(calls) /\ FramesFit(n, par, end, calls)
  /\ e \in {0, m + 1} /\ Grown(n, par, end, calls[d].block, e, par2, end2)

LEMMA LinksGrow ==
  ASSUME NEW n, NEW m, NEW blocks, NEW par, NEW end, NEW calls, NEW d, NEW e,
         NEW par2, NEW end2, Growth(n, m, blocks, par, end, calls, d, e, par2, end2),
         NEW s, NEW t, LinksAre(n, s, par, end, {}), LinksGrown(n, e, calls[d].tail, s, t)
  PROVE  LinksAre(m, t, par2, end2, {})
<1> USE DEF Growth
<1>0. /\ \A c \in 1 .. n : t[c].code = s[c].code /\ t[c].goto = s[c].goto
      /\ \A c \in 1 .. n :
           t[c].next = IF e # 0 /\ c = calls[d].tail THEN m ELSE s[c].next
      /\ t[m].next = 0 /\ (t[m].code = "block" => t[m].goto = 0 /\ e = 0)
  BY DEF LinksGrown
<1> USE <1>0
<1> DEFINE b == calls[d].block
<1>1. b \in 0 .. n /\ (b # 0 => end[b] = 0)
  <2>1. Innermost(n, end, b)
    BY OpenBlocks
  <2>2. QED
    BY <2>1 DEF Innermost
<1>2. /\ par \in [1 .. n -> 0 .. n] /\ end \in [1 .. n -> 0 .. n + 1]
      /\ m \in Nat /\ m \in 1 .. m
  BY DEF Tree
<1>3. /\ par2[m] = b /\ end2[m] = e
      /\ \A c \in 1 .. n : par2[c] = par[c] /\ end2[c] = end[c]
  BY DEF Grown
<1>4. \A p \in 0 .. n :
         /\ (p = 0 \/ end[p] = 0) => Limit(n, end, p) = m /\ Limit(m, end2, p) = m + 1
         /\ ~(p = 0 \/ end[p] = 0) => /\ Limit(n, end, p) = end[p] /\ Limit(m, end2, p) = end[p]
                                      /\ end[p] \in 1 .. m
  BY <1>2, <1>3 DEF Limit
<1>5. ASSUME NEW c \in 1 .. n
      PROVE  t[c].next = NextOf(m, par2, end2, {}, c)
  <2> DEFINE p == par[c]
             L == Limit(n, end, p)
             M == Limit(m, end2, p)
  <2>1. /\ p \in 0 .. n /\ end[c] \in 0 .. m
        /\ par2[c] = p /\ end2[c] = end[c]
    BY <1>2, <1>3
  <2>2. \/ (p = 0 \/ end[p] = 0) /\ L = m /\ M = m + 1
        \/ ~(p = 0 \/ end[p] = 0) /\ L = M /\ M \in 1 .. m
    BY <1>4, <2>1
  <2>3. s[c].next = NextOf(n, par, end, {}, c)
    BY DEF LinksAre
  <2>4. CASE end[c] # 0 /\ end[c] < L
    <3>1. PICK y \in 1 .. n : y = end[c]
      BY <1>2, <2>1, <2>2, <2>4
    <3>2. end2[y] = end[y]
      BY <1>3
    <3>3. end[c] < M
      BY <1>2, <2>1, <2>2, <2>4
    <3>4. c # calls[d].tail
      <4>1. SUFFICES ASSUME c = calls[d].tail PROVE FALSE
        OBVIOUS
      <4>2. end[c] = Onward(n, calls, d)
        BY <4>1 DEF FramesFit
      <4>3. QED
        BY <3>1, <4>2 DEF Onward
    <3>5. HasNext(m, par2, end2, {}, c) <=> end[y] # 0
      BY <2>1, <2>4, <3>1, <3>2, <3>3 DEF HasNext
    <3>6. HasNext(n, par, end, {}, c) <=> end[y] # 0
      BY <2>1, <2>4, <3>1 DEF HasNext
    <3>7. Follow(m, end2, c) = y /\ Follow(n, end, c) = y
      BY <1>2, <2>1, <3>1 DEF Follow
    <3>8. QED
      BY <2>3, <3>4, <3>5, <3>6, <3>7 DEF NextOf
  <2>5. CASE end[c] # 0 /\ ~(end[c] < L) /\ end[c] < M
    <3>1. (p = 0 \/ end[p] = 0) /\ end[c] = m
      <4> HIDE DEF p, L, M
      <4>1. end[c] \in Int /\ end[c] <= m
        BY <1>2, <2>1
      <4>2. L # M
        BY <2>5
      <4>3. (p = 0 \/ end[p] = 0) /\ L = m
        BY <2>2, <4>2
      <4>4. end[c] = m
        <5>1. ~(end[c] < m)
          BY <2>5, <4>3
        <5>2. m \in Int
          BY <1>2
        <5>3. PICK x \in Int : x = end[c]
          BY <4>1
        <5>4. QED
          BY ONLY <4>1, <5>1, <5>2, <5>3
      <4>5. QED
        BY <4>3, <4>4
    <3>2. p = b /\ c = calls[d].tail
      <4>1. end[c] = n + 1
        BY <3>1
      <4>2. QED
        BY <3>1, <4>1, LastOfChain
    <3>3. ~HasNext(n, par, end, {}, c)
      BY <2>5 DEF HasNext
    <3>4. HasNext(m, par2, end2, {}, c) <=> e # 0
      BY <1>3, <2>1, <2>5, <3>1 DEF HasNext
    <3>5. Follow(m, end2, c) = m
      BY <1>2, <2>1, <3>1 DEF Follow
    <3>6. QED
      BY <2>3, <3>2, <3>3, <3>4, <3>5 DEF NextOf
  <2>6. CASE end[c] = 0 \/ ~(end[c] < M)
    <3>1. end[c] # 0 => ~(end[c] < L)
      BY <1>2, <2>1, <2>2, <2>6
    <3>2. ~HasNext(n, par, end, {}, c)
      BY <3>1 DEF HasNext
    <3>3. ~HasNext(m, par2, end2, {}, c)
      BY <2>1, <2>6 DEF HasNext
    <3>4. c # calls[d].tail
      <4>1. SUFFICES ASSUME c = calls[d].tail PROVE FALSE
        OBVIOUS
      <4>2. end[c] = m /\ p = b
        BY <4>1 DEF FramesFit, Onward
      <4>3. M = m + 1
        BY <1>1, <2>2, <4>2
      <4>4. QED
        BY <1>2, <2>6, <4>2, <4>3
    <3>5. QED
      BY <2>3, <3>2, <3>3, <3>4 DEF NextOf
  <2>7. QED
    BY <2>4, <2>5, <2>6
<1>6. ASSUME NEW c \in 1 .. n, t[c].code = "block" PROVE t[c].goto = GotoOf(end2, c)
  <2>1. s[c].goto = GotoOf(end, c) /\ end2[c] = end[c]
    BY <1>3, <1>6 DEF LinksAre
  <2>2. QED
    BY <2>1 DEF GotoOf
<1>7. t[m].next = NextOf(m, par2, end2, {}, m)
  <2>1. Limit(m, end2, b) = m + 1
    BY <1>1, <1>4
  <2>2. ~HasNext(m, par2, end2, {}, m)
    BY <1>2, <1>3, <2>1 DEF HasNext
  <2>3. QED
    BY <2>2 DEF NextOf
<1>8. t[m].code = "block" => t[m].goto = GotoOf(end2, m)
  BY <1>3 DEF GotoOf
<1>9. ASSUME NEW c \in 1 .. m
      PROVE  /\ t[c].next = NextOf(m, par2, end2, {}, c)
             /\ t[c].code = "block" => t[c].goto = GotoOf(end2, c)
  <2>1. c \in 1 .. n \/ c = m
    BY <1>2
  <2>2. QED
    BY <1>5, <1>6, <1>7, <1>8, <2>1
<1>10. QED
  BY <1>9 DEF LinksAre

\* The program t after the block b was given its body and linked.
LinksClosed(n, b, head, tail, s, t) ==
  \A c \in 1 .. n : /\ t[c].code = s[c].code
                    /\ t[c].goto = IF c = b THEN head ELSE s[c].goto
                    /\ t[c].next = IF c = tail THEN b ELSE s[c].next

\* The tree when the innermost open block b is closed.
Closing(n, blocks, par, end, calls, d, b, end2) ==
  /\ n \in Nat /\ Tree(n, blocks, par, end)
  /\ d \in Nat /\ d > 1 /\ d = Len(calls) /\ FramesFit(n, par, end, calls)
  /\ b = calls[d].block /\ end2 = [end EXCEPT ![b] = n + 1]

LEMMA LinksClose ==
  ASSUME NEW n, NEW blocks, NEW par, NEW end, NEW calls, NEW d, NEW b, NEW end2,
         Closing(n, blocks, par, end, calls, d, b, end2),
         NEW s, NEW t, LinksAre(n, s, par, end, {}),
         LinksClosed(n, b, calls[d].head, calls[d - 1].tail, s, t)
  PROVE  LinksAre(n, t, par, end2, {})
<1> USE DEF LinksClosed, Closing
<1>0. d \in 1 .. d /\ d - 1 \in 1 .. d /\ d # 1 /\ (d - 1) + 1 = d /\ d - 1 < d
  OBVIOUS
<1>1. FrameFits(n, par, end, calls, d) /\ FrameFits(n, par, end, calls, d - 1)
  BY <1>0, EveryFrame
<1>2. /\ b \in 1 .. n /\ end[b] = 0 /\ par[b] = calls[d - 1].block
      /\ Onward(n, calls, d - 1) = b /\ Onward(n, calls, d) = n + 1
  BY <1>0, <1>1 DEF FrameFits, Onward
<1>3. par[b] = 0 \/ end[par[b]] = 0
  <2>1. d - 1 = 1 => calls[d - 1].block = 0
    BY <1>1 DEF FrameFits
  <2>2. d - 1 # 1 => end[calls[d - 1].block] = 0
    BY <1>1 DEF FrameFits
  <2>3. QED
    BY <1>2, <2>1, <2>2
<1>4. /\ par \in [1 .. n -> 0 .. n] /\ end \in [1 .. n -> 0 .. n + 1]
  BY DEF Tree
<1>5. /\ end2 \in [1 .. n -> 0 .. n + 1] /\ end2[b] = n + 1
      /\ \A c \in 1 .. n : c # b => end2[c] = end[c]
  BY <1>2, <1>4
<1>6. \A p \in 0 .. n : Limit(n, end2, p) = Limit(n, end, p)
  BY <1>2, <1>5 DEF Limit
<1>7. calls[d - 1].tail # 0 =>
        /\ calls[d - 1].tail \in 1 .. n /\ par[calls[d - 1].tail] = par[b]
        /\ end[calls[d - 1].tail] = b
  BY <1>1, <1>2 DEF FrameFits
<1>8. ASSUME NEW c \in 1 .. n, c # b PROVE t[c].next = NextOf(n, par, end2, {}, c)
  <2>1. /\ end2[c] = end[c] /\ par[c] \in 0 .. n /\ end[c] \in 0 .. n + 1
        /\ Limit(n, end2, par[c]) = Limit(n, end, par[c])
    BY <1>4, <1>5, <1>6, <1>8
  <2>2. s[c].next = NextOf(n, par, end, {}, c)
    BY DEF LinksAre
  <2>3. Follow(n, end2, c) = Follow(n, end, c)
    BY <2>1 DEF Follow
  <2>4. CASE end[c] = b /\ end[c] < Limit(n, end, par[c])
    <3>1. c = calls[d - 1].tail
      BY <2>4, LastBeforeBlock
    <3>2. HasNext(n, par, end2, {}, c)
      BY <1>2, <1>5, <2>1, <2>4 DEF HasNext
    <3>3. Follow(n, end2, c) = b
      BY <1>2, <2>1, <2>4 DEF Follow
    <3>4. QED
      BY <3>1, <3>2, <3>3 DEF NextOf
  <2>5. CASE ~(end[c] = b /\ end[c] < Limit(n, end, par[c]))
    <3>1. c # calls[d - 1].tail
      <4>1. SUFFICES ASSUME c = calls[d - 1].tail PROVE FALSE
        OBVIOUS
      <4>2. end[c] = b /\ par[c] = par[b]
        BY <1>7, <4>1
      <4>3. Limit(n, end, par[c]) = n + 1
        BY <1>3, <4>2 DEF Limit
      <4>4. QED
        BY <1>2, <2>5, <4>2, <4>3
    <3>2. HasNext(n, par, end2, {}, c) <=> HasNext(n, par, end, {}, c)
      <4>1. CASE end[c] # 0 /\ end[c] < Limit(n, end, par[c])
        <5>1. end[c] <= n
          <6>1. Limit(n, end, par[c]) \in 0 .. n + 1
            BY <1>4, <2>1 DEF Limit
          <6>2. QED
            BY <2>1, <4>1, <6>1
        <5>2. PICK y \in 1 .. n : y = end[c]
          BY <2>1, <4>1, <5>1
        <5>3. end2[y] = end[y]
          BY <1>5, <2>5, <4>1, <5>2
        <5>4. QED
          BY <2>1, <4>1, <5>2, <5>3 DEF HasNext
      <4>2. CASE ~(end[c] # 0 /\ end[c] < Limit(n, end, par[c]))
        BY <2>1, <4>2 DEF HasNext
      <4>3. QED
        BY <4>1, <4>2
    <3>3. QED
      BY <2>2, <2>3, <3>1, <3>2 DEF NextOf
  <2>6. QED
    BY <2>4, <2>5
<1>9. t[b].next = NextOf(n, par, end2, {}, b)
  <2>1. b # calls[d - 1].tail
    BY <1>2, <1>7
  <2>2. s[b].next = 0
    BY <1>2 DEF LinksAre, NextOf, HasNext
  <2>3. ~HasNext(n, par, end2, {}, b)
    <3>1. par[b] \in 0 .. n
      BY <1>2, <1>4
    <3>2. Limit(n, end2, par[b]) = n + 1
      BY <1>3, <1>6, <3>1 DEF Limit
    <3>3. QED
      BY <1>5, <3>2 DEF HasNext
  <2>4. QED
    BY <1>2, <2>1, <2>2, <2>3 DEF NextOf
<1>10. ASSUME NEW c \in 1 .. n, t[c].code = "block" PROVE t[c].goto = GotoOf(end2, c)
  <2>1. CASE c # b
    <3>1. s[c].goto = GotoOf(end, c) /\ end2[c] = end[c] /\ t[c].goto = s[c].goto
      BY <1>5, <1>10, <2>1 DEF LinksAre
    <3>2. QED
      BY <3>1 DEF GotoOf
  <2>2. CASE c = b
    <3>1. t[b].goto = calls[d].head
      BY <1>2
    <3>2. CASE calls[d].tail = 0
      <4>1. calls[d].head = 0 /\ n + 1 = b + 1
        BY <1>1, <1>2, <3>2 DEF FrameFits
      <4>2. QED
        BY <1>5, <2>2, <3>1, <4>1 DEF GotoOf
    <3>3. CASE calls[d].tail # 0
      <4>1. /\ calls[d].head = b + 1 /\ calls[d].tail \in 1 .. n
            /\ par[calls[d].tail] = b
        BY <1>1, <3>3 DEF FrameFits
      <4>2. b < calls[d].tail
        BY <4>1 DEF Tree
      <4>3. n + 1 # b + 1
        BY <1>2, <4>1, <4>2
      <4>4. QED
        BY <1>5, <2>2, <3>1, <4>1, <4>3 DEF GotoOf
    <3>4. QED
      BY <3>2, <3>3
  <2>3. QED
    BY <2>1, <2>2
<1>11. QED
  BY <1>8, <1>9, <1>10 DEF LinksAre

-----------------------------------------------------------------------------
(* The walk of a pass along the links.                                     *)

\* No block is open.
Closed(n, end) == \A c \in 1 .. n : end[c] # 0

\* The k-th call of a pass is at a command of the block that the call below it
\* has entered.
CallFits(n, par, calls, k) ==
  /\ calls[k].at \in 0 .. n
  /\ k < Len(calls) => calls[k].entered = TRUE
  /\ calls[k].entered \in BOOLEAN /\ (calls[k].entered = TRUE => calls[k].at # 0)
  /\ calls[k].at # 0 => /\ par[calls[k].at] = IF k = 1 THEN 0 ELSE calls[k - 1].at
                        /\ \A j \in 1 .. k - 1 : calls[j].at < calls[k].at

WalkFits(n, par, calls) == \A k \in 1 .. Len(calls) : CallFits(n, par, calls, k)

\* The first command the pass has not reached, the blocks that it is in, and
\* the commands it is done with.
Reached(n, end, calls) ==
  LET d == Len(calls)
  IN  IF calls[d].at # 0
      THEN IF calls[d].entered = TRUE THEN end[calls[d].at] ELSE calls[d].at
      ELSE IF d = 1 THEN n + 1 ELSE end[calls[d - 1].at]

IsPending(calls, c) == \E k \in 1 .. Len(calls) : calls[k].entered = TRUE /\ calls[k].at = c

Visited(n, end, calls) ==
  {c \in 1 .. n : c < Reached(n, end, calls) /\ ~IsPending(calls, c)}

\* What the loop goes on to from c, and what the last pass has not changed.
OwnNext(n, par, end, c) == IF end[c] < Limit(n, end, par[c]) THEN end[c] ELSE 0

NextFits(n, par, end, c, next) ==
  /\ par[c] \in 0 .. n /\ end[c] \in c + 1 .. n + 1
  /\ next \in 0 .. n
  /\ next # 0 => next = end[c] /\ par[end[c]] = par[c]
  /\ next = 0 => end[c] = IF par[c] = 0 THEN n + 1 ELSE end[par[c]]

LEMMA OwnNextFits ==
  ASSUME NEW n \in Nat, NEW blocks, NEW par, NEW end, Tree(n, blocks, par, end),
         Closed(n, end), NEW c \in 1 .. n
  PROVE  NextFits(n, par, end, c, OwnNext(n, par, end, c))
<1>1. par[c] \in 0 .. n /\ end[c] \in 0 .. n + 1 /\ end[c] # 0
  BY DEF Tree, Closed
<1>2. c < end[c] /\ end[c] <= Limit(n, end, par[c])
  BY <1>1 DEF Tree
<1>3. Limit(n, end, par[c]) = IF par[c] = 0 THEN n + 1 ELSE end[par[c]]
  BY <1>1 DEF Limit, Closed
<1>4. Limit(n, end, par[c]) \in 0 .. n + 1
  <2>1. end \in [1 .. n -> 0 .. n + 1]
    BY DEF Tree
  <2>2. QED
    BY <1>1, <1>3, <2>1
<1>5. CASE end[c] < Limit(n, end, par[c])
  <2>1. par[end[c]] = par[c]
    BY <1>1, <1>5 DEF Tree
  <2>2. OwnNext(n, par, end, c) = end[c] /\ end[c] \in 1 .. n
    BY <1>1, <1>4, <1>5 DEF OwnNext
  <2>3. QED
    BY <1>1, <1>2, <2>1, <2>2 DEF NextFits
<1>6. CASE ~(end[c] < Limit(n, end, par[c]))
  <2>1. OwnNext(n, par, end, c) = 0
    BY <1>6 DEF OwnNext
  <2>2. end[c] = Limit(n, end, par[c])
    BY <1>1, <1>2, <1>4, <1>6
  <2>3. QED
    BY <1>1, <1>2, <1>3, <2>1, <2>2 DEF NextFits
<1>7. QED
  BY <1>5, <1>6

\* What the last pass has not reached is linked as it was.
LEMMA UnpatchedNext ==
  ASSUME NEW n \in Nat, NEW blocks, NEW par, NEW end, Tree(n, blocks, par, end),
         Closed(n, end), NEW c \in 1 .. n, NEW patched, par[c] \notin patched
  PROVE  NextOf(n, par, end, patched, c) = OwnNext(n, par, end, c)
<1>1. NextFits(n, par, end, c, OwnNext(n, par, end, c))
  BY OwnNextFits
<1>2. CASE end[c] < Limit(n, end, par[c])
  <2>1. OwnNext(n, par, end, c) = end[c] /\ end[c] \in c + 1 .. n + 1
    BY <1>1, <1>2 DEF OwnNext, NextFits
  <2>2. end[c] \in 1 .. n
    BY <1>1, <2>1 DEF NextFits
  <2>3. HasNext(n, par, end, patched, c)
    BY <1>2, <2>1, <2>2 DEF HasNext, Closed
  <2>4. QED
    BY <2>1, <2>2, <2>3 DEF NextOf, Follow
<1>3. CASE ~(end[c] < Limit(n, end, par[c]))
  BY <1>3 DEF NextOf, HasNext, OwnNext
<1>4. QED
  BY <1>2, <1>3

\* The loop goes on from a command whose body, if any, was walked.
WalkAt(n, blocks, par, end, calls, d, c) ==
  /\ n \in Nat /\ Tree(n, blocks, par, end) /\ Closed(n, end)
  /\ d \in Nat \ {0} /\ d = Len(calls) /\ WalkFits(n, par, calls)
  /\ c = calls[d].at /\ c # 0

WalksOn(n, par, end, calls, d, c, calls2) ==
  /\ calls[d].entered = TRUE \/ end[c] = c + 1
  /\ Len(calls2) = d /\ \A k \in 1 .. d - 1 : calls2[k] = calls[k]
  /\ calls2[d].entered = FALSE /\ calls2[d].at = OwnNext(n, par, end, c)

LEMMA WalkNext ==
  ASSUME NEW n, NEW blocks, NEW par, NEW end, NEW calls, NEW d, NEW c, NEW calls2,
         WalkAt(n, blocks, par, end, calls, d, c), WalksOn(n, par, end, calls, d, c, calls2)
  PROVE  /\ WalkFits(n, par, calls2)
         /\ c \in 1 .. n /\ c \notin Visited(n, end, calls)
         /\ Visited(n, end, calls2) = Visited(n, end, calls) \cup {c}
<1> USE DEF WalkAt, WalksOn
<1> DEFINE y == OwnNext(n, par, end, c)
<1>1. CallFits(n, par, calls, d)
  BY DEF WalkFits
<1>2. c \in 1 .. n /\ par[c] = (IF d = 1 THEN 0 ELSE calls[d - 1].at)
      /\ \A j \in 1 .. d - 1 : calls[j].at < c
  BY <1>1 DEF CallFits
<1>3. /\ par[c] \in 0 .. n /\ end[c] \in c + 1 .. n + 1
      /\ y \in 0 .. n
      /\ y # 0 => y = end[c] /\ par[end[c]] = par[c]
      /\ y = 0 => end[c] = IF par[c] = 0 THEN n + 1 ELSE end[par[c]]
  <2>1. NextFits(n, par, end, c, y)
    BY <1>2, OwnNextFits
  <2>2. QED
    BY <2>1 DEF NextFits
<1> HIDE DEF y
<1>4. calls2[d].at = y
  BY DEF y
<1>5. ASSUME NEW k \in 1 .. d PROVE CallFits(n, par, calls2, k)
  <2>1. CASE k < d
    <3>1. CallFits(n, par, calls, k)
      BY DEF WalkFits
    <3>2. /\ calls2[k] = calls[k] /\ (k # 1 => calls2[k - 1] = calls[k - 1])
          /\ \A j \in 1 .. k - 1 : calls2[j] = calls[j]
      BY <2>1
    <3>3. QED
      BY <2>1, <3>1, <3>2 DEF CallFits
  <2>2. CASE k = d
    <3>1. y # 0 => /\ par[y] = IF d = 1 THEN 0 ELSE calls2[d - 1].at
                   /\ \A j \in 1 .. d - 1 : calls2[j].at < y
      <4>1. SUFFICES ASSUME y # 0
                     PROVE  /\ par[y] = IF d = 1 THEN 0 ELSE calls2[d - 1].at
                            /\ \A j \in 1 .. d - 1 : calls2[j].at < y
        OBVIOUS
      <4>2. par[y] = par[c] /\ c < y
        <5>1. y = end[c] /\ par[end[c]] = par[c]
          BY <1>3, <4>1
        <5>2. c < end[c]
          BY <1>2, <1>3
        <5>3. QED
          BY <5>1, <5>2
      <4>3. par[y] = IF d = 1 THEN 0 ELSE calls2[d - 1].at
        BY <1>2, <4>2
      <4>4. ASSUME NEW j \in 1 .. d - 1 PROVE calls2[j].at < y
        <5>1. calls2[j] = calls[j] /\ calls[j].at < c
          BY <1>2
        <5>2. CallFits(n, par, calls, j)
          BY DEF WalkFits
        <5>3. calls[j].at \in 0 .. n
          BY <5>2 DEF CallFits
        <5>4. QED
          BY <1>2, <1>3, <4>2, <5>1, <5>3
      <4>5. QED
        BY <4>3, <4>4
    <3>2. CallFits(n, par, calls2, d)
      <4>1. calls2[d].at \in 0 .. n /\ calls2[d].entered = FALSE /\ ~(d < Len(calls2))
        BY <1>3, <1>4
      <4>2. calls2[d].at # 0 => /\ par[calls2[d].at] = IF d = 1 THEN 0 ELSE calls2[d - 1].at
                                /\ \A j \in 1 .. d - 1 : calls2[j].at < calls2[d].at
        BY <1>4, <3>1
      <4>3. QED
        BY <4>1, <4>2, Zenon DEF CallFits
    <3>3. QED
      BY <2>2, <3>2
  <2>3. QED
    BY <2>1, <2>2
<1>6. Reached(n, end, calls2) = end[c]
  <2>1. CASE y # 0
    BY <1>3, <1>4, <2>1 DEF Reached
  <2>2. CASE y = 0
    <3>1. d = 1 => end[c] = n + 1
      BY <1>2, <1>3, <2>2
    <3>2. d # 1 => /\ calls2[d - 1] = calls[d - 1]
                   /\ end[c] = end[calls[d - 1].at]
      <4>1. SUFFICES ASSUME d # 1
                     PROVE  calls2[d - 1] = calls[d - 1] /\ end[c] = end[calls[d - 1].at]
        OBVIOUS
      <4>2. d - 1 \in 1 .. d - 1
        BY <4>1
      <4>3. calls[d - 1].at # 0
        <5>1. CallFits(n, par, calls, d - 1) /\ d - 1 < d
          BY <4>2 DEF WalkFits
        <5>2. QED
          BY <5>1 DEF CallFits
      <4>4. QED
        BY <1>2, <1>3, <2>2, <4>1, <4>2, <4>3
    <3>3. QED
      BY <1>4, <2>2, <3>1, <3>2 DEF Reached
  <2>3. QED
    BY <2>1, <2>2
<1>7. ASSUME NEW x \in 1 .. n
      PROVE  IsPending(calls, x) <=> IsPending(calls2, x) \/ (calls[d].entered = TRUE /\ x = c)
  <2>1. IsPending(calls, x) <=>
          \/ \E k \in 1 .. d - 1 : calls[k].entered = TRUE /\ calls[k].at = x
          \/ calls[d].entered = TRUE /\ c = x
    BY DEF IsPending
  <2>2. IsPending(calls2, x) <=>
          \E k \in 1 .. d - 1 : calls[k].entered = TRUE /\ calls[k].at = x
    BY DEF IsPending
  <2>3. QED
    BY <2>1, <2>2
<1>8. ~IsPending(calls2, c)
  <2>1. SUFFICES ASSUME NEW k \in 1 .. d, calls2[k].entered = TRUE, calls2[k].at = c
                 PROVE  FALSE
    BY DEF IsPending
  <2>2. k \in 1 .. d - 1
    BY <2>1
  <2>3. QED
    BY <1>2, <2>1, <2>2
<1>9. c \notin Visited(n, end, calls)
  <2>1. CASE calls[d].entered = TRUE
    <3>1. IsPending(calls, c)
      BY <2>1 DEF IsPending
    <3>2. QED
      BY <3>1 DEF Visited
  <2>2. CASE calls[d].entered # TRUE
    <3>1. Reached(n, end, calls) = c
      BY <2>2 DEF Reached
    <3>2. QED
      BY <1>2, <3>1 DEF Visited
  <2>3. QED
    BY <2>1, <2>2
<1>10. ASSUME NEW x \in 1 .. n
       PROVE  x \in Visited(n, end, calls2) <=> x \in Visited(n, end, calls) \/ x = c
  <2>0. /\ x \in Visited(n, end, calls2) <=> x < end[c] /\ ~IsPending(calls2, x)
        /\ x \in Visited(n, end, calls) <=>
             x < Reached(n, end, calls) /\ ~IsPending(calls, x)
    BY <1>6 DEF Visited
  <2>1. CASE calls[d].entered = TRUE
    <3>1. Reached(n, end, calls) = end[c]
      BY <2>1 DEF Reached
    <3>2. QED
      <4>1. c < end[c]
        BY <1>2, <1>3
      <4>2. QED
        BY <1>7, <1>8, <2>0, <2>1, <3>1, <4>1, Zenon
  <2>2. CASE calls[d].entered # TRUE
    <3>1. Reached(n, end, calls) = c /\ end[c] = c + 1
      BY <2>2 DEF Reached
    <3>2. QED
      <4>1. x < end[c] <=> x < c \/ x = c
        BY <1>2, <3>1
      <4>2. QED
        BY <1>7, <1>8, <2>0, <2>2, <3>1, <4>1, Zenon
  <2>3. QED
    BY <2>1, <2>2
<1>11. Visited(n, end, calls2) = Visited(n, end, calls) \cup {c}
  BY <1>2, <1>10 DEF Visited
<1>12. QED
  BY <1>2, <1>5, <1>9, <1>11 DEF WalkFits

\* A pass calls itself for the body of c, and is done with nothing more.
WalksInto(end, calls, d, c, calls2) ==
  /\ calls[d].entered # TRUE /\ end[c] # c + 1
  /\ Len(calls2) = d + 1 /\ \A k \in 1 .. d - 1 : calls2[k] = calls[k]
  /\ calls2[d].at = c /\ calls2[d].entered = TRUE
  /\ calls2[d + 1].at = c + 1 /\ calls2[d + 1].entered = FALSE

LEMMA WalkDescend ==
  ASSUME NEW n, NEW blocks, NEW par, NEW end, NEW calls, NEW d, NEW c, NEW calls2,
         WalkAt(n, blocks, par, end, calls, d, c), WalksInto(end, calls, d, c, calls2)
  PROVE  /\ WalkFits(n, par, calls2)
         /\ Visited(n, end, calls2) = Visited(n, end, calls)
<1> USE DEF WalkAt, WalksInto
<1>1. CallFits(n, par, calls, d)
  BY DEF WalkFits
<1>2. c \in 1 .. n /\ par[c] = (IF d = 1 THEN 0 ELSE calls[d - 1].at)
      /\ \A j \in 1 .. d - 1 : calls[j].at < c
  BY <1>1 DEF CallFits
<1>3. c + 1 \in 1 .. n /\ par[c + 1] = c
  <2>1. end[c] \in 0 .. n + 1 /\ end[c] # 0 /\ Limit(n, end, c) = end[c]
    BY <1>2 DEF Tree, Closed, Limit
  <2>2. c < end[c]
    BY <1>2, <2>1 DEF Tree
  <2>3. c + 1 < Limit(n, end, c)
    BY <1>2, <2>1, <2>2
  <2>4. par[c + 1] = c
    BY <1>2, <2>3 DEF Tree
  <2>5. QED
    BY <1>2, <2>1, <2>2, <2>3, <2>4
<1>4. ASSUME NEW k \in 1 .. d + 1 PROVE CallFits(n, par, calls2, k)
  <2>1. CASE k < d
    <3>1. CallFits(n, par, calls, k)
      BY <2>1 DEF WalkFits
    <3>2. /\ calls2[k] = calls[k] /\ (k # 1 => calls2[k - 1] = calls[k - 1])
          /\ \A j \in 1 .. k - 1 : calls2[j] = calls[j]
      BY <2>1
    <3>3. QED
      BY <2>1, <3>1, <3>2 DEF CallFits
  <2>2. CASE k = d
    <3>1. /\ par[c] = IF d = 1 THEN 0 ELSE calls2[d - 1].at
          /\ \A j \in 1 .. d - 1 : calls2[j].at < c
      <4>1. /\ \A j \in 1 .. d - 1 : calls2[j] = calls[j]
            /\ d # 1 => d - 1 \in 1 .. d - 1
        OBVIOUS
      <4>2. QED
        BY ONLY <1>2, <4>1
    <3>2. calls2[d].at \in 0 .. n /\ calls2[d].entered = TRUE
      BY <1>2
    <3>3. CallFits(n, par, calls2, d)
      BY <3>1, <3>2, Zenon DEF CallFits
    <3>4. QED
      BY <2>2, <3>3
  <2>3. CASE k = d + 1
    <3> DEFINE e == d + 1
    <3>1. /\ par[calls2[e].at] = IF e = 1 THEN 0 ELSE calls2[e - 1].at
          /\ \A j \in 1 .. e - 1 : calls2[j].at < calls2[e].at
      <4>1. e - 1 = d /\ e # 1
        OBVIOUS
      <4>2. ASSUME NEW j \in 1 .. d PROVE calls2[j].at < c + 1
        <5>1. CASE j = d
          BY <1>2, <5>1
        <5>2. CASE j \in 1 .. d - 1
          <6>1. calls2[j] = calls[j] /\ calls[j].at < c /\ CallFits(n, par, calls, j)
            BY <1>2, <5>2 DEF WalkFits
          <6>2. calls[j].at \in 0 .. n
            BY <6>1 DEF CallFits
          <6>3. QED
            BY <1>2, <6>1, <6>2
        <5>3. QED
          BY <5>1, <5>2
      <4>3. QED
        BY <1>3, <4>1, <4>2
    <3>2. calls2[e].at \in 0 .. n /\ calls2[e].entered = FALSE /\ ~(e < Len(calls2))
      BY <1>3
    <3>3. CallFits(n, par, calls2, e)
      BY <3>1, <3>2, Zenon DEF CallFits
    <3>4. QED
      BY <2>3, <3>3
  <2>4. QED
    BY <2>1, <2>2, <2>3
<1>5. Reached(n, end, calls) = c /\ Reached(n, end, calls2) = c + 1
  <2>1. Reached(n, end, calls) = c
    BY <1>2 DEF Reached
  <2>2. calls2[Len(calls2)].at # 0 /\ calls2[Len(calls2)].entered # TRUE
        /\ calls2[Len(calls2)].at = c + 1
    <3>1. c + 1 # 0 /\ TRUE # FALSE
      BY <1>2
    <3>2. QED
      BY <3>1, Zenon
  <2>3. QED
    BY <2>1, <2>2, Zenon DEF Reached
<1>6. ASSUME NEW x \in 1 .. n
      PROVE  IsPending(calls2, x) <=> IsPending(calls, x) \/ x = c
  <2>1. IsPending(calls, x) <=>
          \E k \in 1 .. d - 1 : calls[k].entered = TRUE /\ calls[k].at = x
    <3>1. IsPending(calls, x) <=>
            \E k \in 1 .. d : calls[k].entered = TRUE /\ calls[k].at = x
      BY DEF IsPending
    <3>2. 1 .. d = (1 .. d - 1) \cup {d}
      OBVIOUS
    <3>3. QED
      BY <3>1, <3>2
  <2>2. IsPending(calls2, x) <=>
          \/ \E k \in 1 .. d - 1 : calls[k].entered = TRUE /\ calls[k].at = x
          \/ c = x
    <3>1. IsPending(calls2, x) <=>
            \E k \in 1 .. d + 1 : calls2[k].entered = TRUE /\ calls2[k].at = x
      BY DEF IsPending
    <3>2. 1 .. d + 1 = (1 .. d - 1) \cup {d, d + 1}
      OBVIOUS
    <3>3. QED
      BY <3>1, <3>2
  <2>3. QED
    BY <2>1, <2>2
<1>7. ASSUME NEW x \in 1 .. n
      PROVE  x \in Visited(n, end, calls2) <=> x \in Visited(n, end, calls)
  <2>1. /\ x \in Visited(n, end, calls2) <=> x < c + 1 /\ ~IsPending(calls2, x)
        /\ x \in Visited(n, end, calls) <=> x < c /\ ~IsPending(calls, x)
    BY <1>5 DEF Visited
  <2>2. x < c <=> x < c + 1 /\ x # c
    BY <1>2
  <2>3. QED
    BY <1>6, <2>1, <2>2, Zenon
<1>8. Visited(n, end, calls2) = Visited(n, end, calls)
  BY <1>7 DEF Visited
<1>9. QED
  BY <1>4, <1>8 DEF WalkFits

\* The pass returns from the end of a body, and is done with nothing more.
WalksOut(n, par, calls, d, calls2) ==
  /\ n \in Nat /\ d \in Nat /\ d > 1 /\ d = Len(calls) /\ WalkFits(n, par, calls)
  /\ calls[d].at = 0
  /\ Len(calls2) = d - 1 /\ \A k \in 1 .. d - 1 : calls2[k] = calls[k]

LEMMA WalkAscend ==
  ASSUME NEW n, NEW par, NEW end, NEW calls, NEW d, NEW calls2,
         WalksOut(n, par, calls, d, calls2)
  PROVE  /\ WalkFits(n, par, calls2)
         /\ Visited(n, end, calls2) = Visited(n, end, calls)
<1> USE DEF WalksOut
<1>0. d \in 1 .. d /\ d - 1 \in 1 .. d - 1 /\ d - 1 \in 1 .. d /\ d # 1 /\ d - 1 < d
  OBVIOUS
<1>1. calls[d].entered = FALSE
  <2>1. CallFits(n, par, calls, d)
    BY <1>0 DEF WalkFits
  <2>2. QED
    BY <2>1 DEF CallFits
<1>2. calls[d - 1].entered = TRUE /\ calls[d - 1].at # 0
  <2>1. CallFits(n, par, calls, d - 1)
    BY <1>0 DEF WalkFits
  <2>2. QED
    BY <1>0, <2>1 DEF CallFits
<1>3. ASSUME NEW k \in 1 .. d - 1 PROVE CallFits(n, par, calls2, k)
  <2>1. CallFits(n, par, calls, k)
    BY DEF WalkFits
  <2>2. /\ calls2[k] = calls[k] /\ (k # 1 => calls2[k - 1] = calls[k - 1])
        /\ \A j \in 1 .. k - 1 : calls2[j] = calls[j]
    OBVIOUS
  <2>3. QED
    BY <2>1, <2>2 DEF CallFits
<1>4. Reached(n, end, calls2) = Reached(n, end, calls)
  BY <1>0, <1>2 DEF Reached
<1>5. ASSUME NEW x \in 1 .. n PROVE IsPending(calls2, x) <=> IsPending(calls, x)
  <2>1. IsPending(calls, x) <=>
          \E k \in 1 .. d - 1 : calls[k].entered = TRUE /\ calls[k].at = x
    BY <1>1 DEF IsPending
  <2>2. IsPending(calls2, x) <=>
          \E k \in 1 .. d - 1 : calls[k].entered = TRUE /\ calls[k].at = x
    BY DEF IsPending
  <2>3. QED
    BY <2>1, <2>2
<1>6. Visited(n, end, calls2) = Visited(n, end, calls)
  BY <1>4, <1>5, Zenon DEF Visited
<1>7. QED
  BY <1>3, <1>6 DEF WalkFits

\* At the end of the outermost chain the pass is done with every command.
LEMMA WalkEnded ==
  ASSUME NEW n \in Nat, NEW par, NEW end, NEW calls, WalkFits(n, par, calls),
         Len(calls) = 1, calls[1].at = 0
  PROVE  Visited(n, end, calls) = 1 .. n
<1>1. calls[1].entered = FALSE
  <2>1. CallFits(n, par, calls, 1)
    BY DEF WalkFits
  <2>2. QED
    BY <2>1 DEF CallFits
<1>2. Reached(n, end, calls) = n + 1
  BY DEF Reached
<1>3. \A x : ~IsPending(calls, x)
  BY <1>1 DEF IsPending
<1>4. QED
  BY <1>2, <1>3 DEF Visited

LEMMA WalkStarts ==
  ASSUME NEW n \in Nat, NEW blocks, NEW par, NEW end, Tree(n, blocks, par, end),
         NEW calls, Len(calls) = 1, calls[1].entered = FALSE,
         calls[1].at = IF n = 0 THEN 0 ELSE 1
  PROVE  WalkFits(n, par, calls) /\ Visited(n, end, calls) = {}
<1>1. n # 0 => par[1] = 0
  <2>1. SUFFICES ASSUME n # 0 PROVE par[1] = 0
    OBVIOUS
  <2>2. 1 \in 1 .. n
    BY <2>1
  <2>3. par[1] \in 0 .. n /\ par[1] < 1
    BY <2>2 DEF Tree
  <2>4. QED
    BY <2>3
<1>2. CallFits(n, par, calls, 1)
  <2>1. /\ calls[1].at \in 0 .. n /\ ~(1 < Len(calls)) /\ 1 .. 1 - 1 = {}
        /\ calls[1].at # 0 => par[calls[1].at] = 0
    BY <1>1
  <2>2. QED
    BY <2>1, Zenon DEF CallFits
<1>3. Visited(n, end, calls) = {}
  <2>1. Reached(n, end, calls) = 1
    BY DEF Reached
  <2>2. QED
    BY <2>1 DEF Visited
<1>4. QED
  BY <1>2, <1>3 DEF WalkFits

-----------------------------------------------------------------------------
(* What the steps write.                                                   *)

SameItem(r, q) == r.code = q.code /\ r.addrs = q.addrs /\ r.label = q.label /\ r.at = q.at

\* Only the next or the goto of c is written.
NextSet(s, t, c, v) ==
  /\ Len(t) = Len(s)
  /\ \A i \in 1 .. Len(s) : /\ SameItem(s[i], t[i]) /\ t[i].goto = s[i].goto
                            /\ t[i].next = IF i = c THEN v ELSE s[i].next

GotoOnlySet(s, t, c, v) ==
  /\ Len(t) = Len(s)
  /\ \A i \in 1 .. Len(s) : /\ SameItem(s[i], t[i]) /\ t[i].next = s[i].next
                            /\ t[i].goto = IF i = c THEN v ELSE s[i].goto

LEMMA NextWritten ==
  ASSUME NEW n \in Nat, NEW p \in Nat, NEW s \in Seq(Command(n, p)), NEW c, NEW v \in 0 .. n
  PROVE  NextSet(s, WithNext(s, c, v), c, v)
<1> DEFINE t == WithNext(s, c, v)
           set(r) == [r EXCEPT !.next = v]
<1>1. DOMAIN s = 1 .. Len(s) /\ Len(s) \in Nat
  OBVIOUS
<1>2. \A i \in 1 .. Len(s) : t[i] = IF i = c THEN set(s[i]) ELSE s[i]
  BY <1>1 DEF WithNext
<1>3. Len(t) = Len(s)
  <2>1. SameCommands(s, t)
    BY SetNext
  <2>2. QED
    BY <2>1 DEF SameCommands
<1>4. ASSUME NEW r \in Command(n, p)
      PROVE  SameItem(r, set(r)) /\ set(r).goto = r.goto /\ set(r).next = v /\ SameItem(r, r)
  BY DEF Command, SameItem
<1> HIDE DEF t, set
<1>5. ASSUME NEW i \in 1 .. Len(s)
      PROVE  /\ SameItem(s[i], t[i]) /\ t[i].goto = s[i].goto
             /\ t[i].next = IF i = c THEN v ELSE s[i].next
  <2>1. s[i] \in Command(n, p)
    BY <1>1
  <2>2. QED
    BY <1>2, <1>4, <2>1, Zenon
<1>6. NextSet(s, t, c, v)
  BY <1>3, <1>5 DEF NextSet
<1>7. QED
  BY <1>6 DEF t

LEMMA GotoWritten ==
  ASSUME NEW n \in Nat, NEW p \in Nat, NEW s \in Seq(Command(n, p)), NEW c, NEW v \in 0 .. n
  PROVE  GotoOnlySet(s, WithGoto(s, c, v), c, v)
<1> DEFINE t == WithGoto(s, c, v)
           set(r) == [r EXCEPT !.goto = v]
<1>1. DOMAIN s = 1 .. Len(s) /\ Len(s) \in Nat
  OBVIOUS
<1>2. \A i \in 1 .. Len(s) : t[i] = IF i = c THEN set(s[i]) ELSE s[i]
  BY <1>1 DEF WithGoto
<1>3. Len(t) = Len(s)
  BY SetGoto DEF SameCommands
<1>4. ASSUME NEW r \in Command(n, p)
      PROVE  SameItem(r, set(r)) /\ set(r).next = r.next /\ set(r).goto = v /\ SameItem(r, r)
  BY DEF Command, SameItem
<1> HIDE DEF t, set
<1>5. ASSUME NEW i \in 1 .. Len(s)
      PROVE  /\ SameItem(s[i], t[i]) /\ t[i].next = s[i].next
             /\ t[i].goto = IF i = c THEN v ELSE s[i].goto
  <2>1. s[i] \in Command(n, p)
    BY <1>1
  <2>2. QED
    BY <1>2, <1>4, <2>1, Zenon
<1>6. GotoOnlySet(s, t, c, v)
  BY <1>3, <1>5 DEF GotoOnlySet
<1>7. QED
  BY <1>6 DEF t

LEMMA ChainWritten ==
  ASSUME NEW n \in Nat, NEW p \in Nat, NEW s \in Seq(Command(n, p)),
         NEW f \in SequenceCall(n), NEW v \in 0 .. n
  PROVE  NextSet(s, Chained(s, f, v), f.tail, v)
<1>1. CASE f.tail = 0
  BY <1>1 DEF Chained, NextSet, SameItem
<1>2. CASE f.tail # 0
  BY <1>2, NextWritten DEF Chained
<1>3. QED
  BY <1>1, <1>2

\* The calls of compile_sequence after c was linked in the k-th, the last one
\* that is left.
LEMMA CallWritten ==
  ASSUME NEW n \in Nat, NEW calls, NEW k \in Nat \ {0}, calls[k] \in SequenceCall(n),
         NEW c, NEW calls2, calls2[k] = Extended(calls[k], c),
         \A j \in 1 .. k - 1 : calls2[j] = calls[j]
  PROVE  CallExtended(calls, calls2, k, c)
<1> DEFINE f == calls[k]
<1>1. /\ Extended(f, c).block = f.block /\ Extended(f, c).tail = c
      /\ Extended(f, c).head = IF f.head = 0 THEN c ELSE f.head
  BY DEF Extended, SequenceCall
<1>2. \A j \in 1 .. k : calls2[j].block = calls[j].block
  <2>1. ASSUME NEW j \in 1 .. k PROVE calls2[j].block = calls[j].block
    <3>1. j \in 1 .. k - 1 \/ j = k
      OBVIOUS
    <3>2. QED
      BY <1>1, <3>1
  <2>2. QED
    BY <2>1
<1>3. QED
  BY <1>1, <1>2 DEF CallExtended

\* The commands and calls after a command was created and, unless it is a
\* block, linked behind the command tail.
CommandAdded(tail) ==
  /\ Len(cmds)' = New
  /\ \A i \in 1 .. Len(cmds) :
       /\ SameItem(cmds[i], cmds'[i]) /\ cmds'[i].goto = cmds[i].goto
       /\ cmds'[i].next = IF i = tail THEN New ELSE cmds[i].next
  /\ cmds'[New] = Compiled

LEMMA AddWrites ==
  ASSUME Inv, AddCommand
  PROVE  /\ CommandAdded(frames[Len(frames)].tail)
         /\ Len(frames') = Len(frames)
         /\ CallExtended(frames, frames', Len(frames), New)
<1> DEFINE n == Len(cmds)
           s == Chained(cmds, Frame, New)
           d == Len(frames)
<1>1. /\ pos \in Nat /\ pos + 1 \in Nat /\ stage = "parse" /\ n \in Nat /\ New = n + 1
      /\ cmds \in Seq(Command(n, pos)) /\ Depth = d /\ d \in Nat \ {0}
      /\ frames \in Seq(SequenceCall(n)) /\ New \in Nat /\ New \in 0 .. New
      /\ n <= New /\ pos <= pos + 1
  BY ParseTypes DEF AddCommand, Compile, Parsing, New
<1>2. /\ cmds \in Seq(Command(New, pos + 1)) /\ frames \in Seq(SequenceCall(New))
  BY <1>1, WiderCommands, WiderSequenceCalls
<1>3. Frame \in SequenceCall(New) /\ Frame = frames[d]
  BY <1>1, <1>2 DEF Frame
<1>4. NextSet(cmds, s, frames[d].tail, New)
  BY <1>1, <1>2, <1>3, ChainWritten
<1>5. s \in Seq(Command(New, pos + 1))
  BY <1>1, <1>2, <1>3, ChainedCommands
<1>6. Parsing
  BY DEF AddCommand, Compile
<1>7. cmds' = Append(s, Compiled) /\ Compiled \in Command(New, pos + 1)
  BY <1>6, CompiledCommand DEF AddCommand
<1> HIDE DEF s
<1>8. Len(s) = n
  BY <1>4 DEF NextSet
<1>9. /\ Len(cmds') = New /\ cmds'[New] = Compiled /\ \A i \in 1 .. n : cmds'[i] = s[i]
  BY <1>1, <1>5, <1>7, <1>8
<1>10. CommandAdded(frames[d].tail)
  <2>1. ASSUME NEW i \in 1 .. n
        PROVE  /\ SameItem(cmds[i], cmds'[i]) /\ cmds'[i].goto = cmds[i].goto
               /\ cmds'[i].next = IF i = frames[d].tail THEN New ELSE cmds[i].next
    <3>1. cmds'[i] = s[i]
      BY <1>9
    <3>2. QED
      BY <1>4, <3>1 DEF NextSet
  <2>2. QED
    BY <1>9, <2>1 DEF CommandAdded
<1>11. frames' = [frames EXCEPT ![d] = Extended(@, New)]
  BY <1>1 DEF AddCommand
<1>12. Len(frames') = d /\ CallExtended(frames, frames', d, New)
  <2>1. Extended(frames[d], New) \in SequenceCall(New) /\ frames[d] \in SequenceCall(New)
    BY <1>1, <1>3, ExtendedCall
  <2> DEFINE f == Extended(frames[d], New)
  <2>2. frames' = [frames EXCEPT ![d] = f]
    BY <1>11
  <2> HIDE DEF f
  <2>3. Len(frames') = d /\ frames'[d] = f /\ \A j \in 1 .. d - 1 : frames'[j] = frames[j]
    BY <1>1, <1>2, <2>2
  <2>4. CallExtended(frames, frames', d, New)
    BY <1>1, <2>1, <2>3, CallWritten DEF f
  <2>5. QED
    BY <2>3, <2>4
<1>13. QED
  BY <1>10, <1>12

LEMMA OpenWrites ==
  ASSUME Inv, OpenBlock
  PROVE  /\ CommandAdded(0)
         /\ Len(frames') = Len(frames) + 1
         /\ \A k \in 1 .. Len(frames) : frames'[k] = frames[k]
         /\ frames'[Len(frames) + 1] = Open(New)
<1>1. /\ pos \in Nat /\ pos + 1 \in Nat /\ stage = "parse" /\ Len(cmds) \in Nat
      /\ New = Len(cmds) + 1
      /\ cmds \in Seq(Command(Len(cmds), pos))
      /\ frames \in Seq(SequenceCall(Len(cmds))) /\ Len(frames) \in Nat
  BY ParseTypes DEF OpenBlock, Compile, Parsing, New
<1>2. cmds' = Append(cmds, Compiled) /\ frames' = Append(frames, Open(New))
  BY DEF OpenBlock
<1>3. /\ Len(cmds') = New /\ cmds'[New] = Compiled
      /\ \A i \in 1 .. Len(cmds) : cmds'[i] = cmds[i]
  BY <1>1, <1>2
<1>4. CommandAdded(0)
  BY <1>3 DEF CommandAdded, SameItem
<1>5. /\ Len(frames') = Len(frames) + 1
      /\ \A k \in 1 .. Len(frames) : frames'[k] = frames[k]
      /\ frames'[Len(frames) + 1] = Open(New)
  BY <1>1, <1>2
<1>6. QED
  BY <1>4, <1>5

\* The commands and calls after a call returned.
LEMMA CloseWrites ==
  ASSUME Inv, stage = "parse", Depth > 1, BlockDone
  PROVE  /\ Len(cmds)' = Len(cmds)
         /\ \A i \in 1 .. Len(cmds) :
              /\ SameItem(cmds[i], cmds'[i])
              /\ cmds'[i].goto = IF i = frames[Len(frames)].block
                                 THEN frames[Len(frames)].head ELSE cmds[i].goto
              /\ cmds'[i].next = IF i = frames[Len(frames) - 1].tail
                                 THEN frames[Len(frames)].block ELSE cmds[i].next
         /\ Len(frames') = Len(frames) - 1
         /\ CallExtended(frames, frames', Len(frames) - 1, frames[Len(frames)].block)
<1> DEFINE n == Len(cmds)
           d == Len(frames)
           outer == frames[d - 1]
           inner == frames[d]
           s == WithGoto(cmds, inner.block, inner.head)
           rest == SubSeq(frames, 1, d - 1)
<1>1. /\ n \in Nat /\ pos \in Nat /\ cmds \in Seq(Command(n, pos))
      /\ frames \in Seq(SequenceCall(n)) /\ Depth = d /\ d \in Nat /\ d > 1
  BY ParseTypes
<1>2. /\ outer \in SequenceCall(n) /\ inner \in SequenceCall(n) /\ Frame = inner
      /\ d - 1 \in 1 .. Len(frames) /\ d - 1 \in Nat
  BY <1>1 DEF Frame
<1>3. inner.block \in 0 .. n /\ inner.head \in 0 .. n
  BY <1>2 DEF SequenceCall
<1>4. s \in Seq(Command(n, pos)) /\ GotoOnlySet(cmds, s, inner.block, inner.head)
  BY <1>1, <1>3, SetGoto, GotoWritten
<1>5. cmds' = Chained(s, outer, inner.block)
  BY <1>1, <1>2 DEF BlockDone
<1>6. frames' = [rest EXCEPT ![d - 1] = Extended(@, inner.block)]
  BY <1>1, <1>2 DEF BlockDone
<1> HIDE DEF s
<1>7. NextSet(s, cmds', outer.tail, inner.block)
  BY <1>1, <1>2, <1>3, <1>4, <1>5, ChainWritten
<1>8. Len(s) = n /\ Len(cmds') = n
  BY <1>4, <1>7 DEF GotoOnlySet, NextSet
<1>9. ASSUME NEW i \in 1 .. n
      PROVE  /\ SameItem(cmds[i], cmds'[i])
             /\ cmds'[i].goto = IF i = inner.block THEN inner.head ELSE cmds[i].goto
             /\ cmds'[i].next = IF i = outer.tail THEN inner.block ELSE cmds[i].next
  <2>1. /\ SameItem(cmds[i], s[i]) /\ s[i].next = cmds[i].next
        /\ s[i].goto = IF i = inner.block THEN inner.head ELSE cmds[i].goto
    BY <1>4 DEF GotoOnlySet
  <2>2. /\ SameItem(s[i], cmds'[i]) /\ cmds'[i].goto = s[i].goto
        /\ cmds'[i].next = IF i = outer.tail THEN inner.block ELSE s[i].next
    BY <1>7, <1>8 DEF NextSet
  <2>3. SameItem(cmds[i], cmds'[i])
    BY <2>1, <2>2 DEF SameItem
  <2>4. QED
    BY <2>1, <2>2, <2>3, Zenon
<1>10. /\ rest \in Seq(SequenceCall(n)) /\ Len(rest) = d - 1
       /\ \A j \in 1 .. d - 1 : rest[j] = frames[j]
  BY <1>1, <1>2
<1> HIDE DEF rest
<1>11. /\ Len(frames') = d - 1 /\ CallExtended(frames, frames', d - 1, inner.block)
  <2>1. rest[d - 1] = outer
    BY <1>1, <1>10
  <2> DEFINE f == Extended(outer, inner.block)
  <2>2. frames' = [rest EXCEPT ![d - 1] = f]
    BY <1>6, <2>1
  <2> HIDE DEF f
  <2>3. /\ Len(frames') = d - 1 /\ frames'[d - 1] = f
        /\ \A j \in 1 .. (d - 1) - 1 : frames'[j] = frames[j]
    BY <1>1, <1>10, <2>2
  <2>4. CallExtended(frames, frames', d - 1, inner.block)
    <3>1. d - 1 \in Nat \ {0}
      BY <1>1
    <3>2. QED
      BY <1>1, <1>2, <2>3, <3>1, CallWritten DEF f
  <2>5. QED
    BY <2>3, <2>4
<1>12. QED
  BY <1>8, <1>9, <1>11

LEMMA ResolveWrites ==
  ASSUME Inv, ResolveBranch
  PROVE  /\ Len(cmds)' = Len(cmds)
         /\ \A i \in 1 .. Len(cmds) :
              /\ SameItem(cmds[i], cmds'[i]) /\ cmds'[i].next = cmds[i].next
              /\ cmds'[i].goto = IF i = Level.at /\ cmds[i].code = "branch" THEN Target
                                 ELSE cmds[i].goto
<1> DEFINE n == Len(cmds)
           t == WithGoto(cmds, Level.at, Target)
<1>1. /\ stage \in Pass /\ Level.at # 0
      /\ cmds' = IF At.code = "branch" THEN t ELSE cmds
  BY DEF ResolveBranch, Visiting
<1>2. /\ n \in Nat /\ pos \in Nat /\ cmds \in Seq(Command(n, pos)) /\ DOMAIN cmds = 1 .. n
      /\ labels \in [LabelName -> 0 .. n] /\ Level.at \in 1 .. n /\ At \in Command(n, pos)
  BY <1>1, PassTypes
<1>3. Target \in 0 .. n
  <2>1. At.label \in LabelName \cup {NoLabel}
    BY <1>2 DEF Command
  <2>2. QED
    BY <1>2, <2>1 DEF Target
<1>4. GotoOnlySet(cmds, t, Level.at, Target)
  BY <1>2, <1>3, GotoWritten
<1> HIDE DEF t
<1>5. CASE At.code = "branch"
  <2>1. cmds' = t /\ cmds[Level.at].code = "branch"
    BY <1>1, <1>5 DEF At
  <2>2. QED
    BY <1>4, <2>1 DEF GotoOnlySet
<1>6. CASE At.code # "branch"
  <2>1. cmds' = cmds /\ cmds[Level.at].code # "branch"
    BY <1>1, <1>6 DEF At
  <2>2. QED
    BY <2>1 DEF SameItem
<1>7. QED
  BY <1>5, <1>6

LEMMA PatchWrites ==
  ASSUME Inv, PatchEnding
  PROVE  /\ Len(cmds)' = Len(cmds)
         /\ \A i \in 1 .. Len(cmds) :
              /\ SameItem(cmds[i], cmds'[i]) /\ cmds'[i].goto = cmds[i].goto
              /\ cmds'[i].next = IF Body # 0 /\ i = TailFrom[Body] THEN Splice
                                 ELSE cmds[i].next
<1> DEFINE n == Len(cmds)
           t == WithNext(cmds, TailFrom[Body], Splice)
<1>1. /\ stage \in Pass /\ Level.at # 0
      /\ cmds' = IF Body = 0 THEN cmds ELSE t
  BY DEF PatchEnding, Visiting
<1>2. /\ n \in Nat /\ pos \in Nat /\ cmds \in Seq(Command(n, pos)) /\ Splice \in 0 .. n
  BY <1>1, PassTypes
<1>3. NextSet(cmds, t, TailFrom[Body], Splice)
  BY <1>2, NextWritten
<1> HIDE DEF t
<1>4. CASE Body # 0
  <2>1. cmds' = t
    BY <1>1, <1>4
  <2>2. QED
    BY <1>3, <1>4, <2>1 DEF NextSet
<1>5. CASE Body = 0
  BY <1>1, <1>5 DEF SameItem
<1>6. QED
  BY <1>4, <1>5

\* The calls of a pass after a step along the chain, into a body or out of it.
LEMMA NextWalks ==
  ASSUME Inv, stage \in Pass, Level.at # 0, ToNext
  PROVE  /\ Len(walk') = Len(walk) /\ \A k \in 1 .. Len(walk) - 1 : walk'[k] = walk[k]
         /\ walk'[Len(walk)].at = At.next /\ walk'[Len(walk)].entered = FALSE
         /\ walk'[Len(walk)].parent = Level.parent
<1> DEFINE d == Len(walk)
           f == [Level EXCEPT !.at = At.next, !.entered = FALSE]
<1>1. /\ walk \in Seq(PassCall(Len(cmds))) /\ d \in Nat \ {0}
      /\ Level \in PassCall(Len(cmds)) /\ At.next \in 0 .. Len(cmds)
  BY PassTypes
<1>2. /\ f \in PassCall(Len(cmds)) /\ f.at = At.next /\ f.entered = FALSE
      /\ f.parent = Level.parent
  BY <1>1 DEF PassCall
<1>3. walk' = [walk EXCEPT ![d] = f]
  BY DEF ToNext, Level
<1> HIDE DEF f
<1>4. Len(walk') = d /\ walk'[d] = f /\ \A k \in 1 .. d - 1 : walk'[k] = walk[k]
  BY <1>1, <1>2, <1>3
<1>5. QED
  BY <1>2, <1>4

LEMMA DescendWalks ==
  ASSUME Inv, Descend
  PROVE  /\ Len(walk') = Len(walk) + 1 /\ \A k \in 1 .. Len(walk) - 1 : walk'[k] = walk[k]
         /\ walk'[Len(walk)].at = Level.at /\ walk'[Len(walk)].entered = TRUE
         /\ walk'[Len(walk)].parent = Level.parent
         /\ walk'[Len(walk) + 1].at = Body /\ walk'[Len(walk) + 1].entered = FALSE
         /\ walk'[Len(walk) + 1].parent = IF stage = "patch" THEN Splice ELSE 0
<1> DEFINE d == Len(walk)
           f == [Level EXCEPT !.entered = TRUE]
           g == Call(Body, IF stage = "patch" THEN Splice ELSE 0)
           below == [walk EXCEPT ![d].entered = TRUE]
<1>1. stage \in Pass /\ Level.at # 0 /\ walk' = Append(below, g)
  BY DEF Descend
<1>2. /\ walk \in Seq(PassCall(Len(cmds))) /\ d \in Nat \ {0}
      /\ Level \in PassCall(Len(cmds)) /\ Body \in 0 .. Len(cmds) /\ Splice \in 0 .. Len(cmds)
      /\ Len(cmds) \in Nat
  BY <1>1, PassTypes
<1>3. /\ f \in PassCall(Len(cmds)) /\ f.at = Level.at /\ f.entered = TRUE
      /\ f.parent = Level.parent
  BY <1>2 DEF PassCall
<1>4. /\ g.at = Body /\ g.entered = FALSE
      /\ g.parent = IF stage = "patch" THEN Splice ELSE 0
  BY DEF Call
<1>5. g \in PassCall(Len(cmds))
  <2>1. (IF stage = "patch" THEN Splice ELSE 0) \in 0 .. Len(cmds)
    BY <1>2
  <2>2. QED
    BY <1>2, <2>1, CallTyped
<1>6. below = [walk EXCEPT ![d] = f]
  BY DEF Level
<1> HIDE DEF f, below, g
<1>7. /\ below \in Seq(PassCall(Len(cmds))) /\ Len(below) = d /\ below[d] = f
      /\ \A k \in 1 .. d - 1 : below[k] = walk[k]
  BY <1>2, <1>3, <1>6
<1>8. /\ Len(walk') = d + 1 /\ walk'[d + 1] = g /\ walk'[d] = f
      /\ \A k \in 1 .. d - 1 : walk'[k] = walk[k]
  BY <1>1, <1>2, <1>5, <1>7
<1>9. QED
  BY <1>3, <1>4, <1>8

LEMMA AscendWalks ==
  ASSUME Inv, Ascend
  PROVE  /\ Len(walk) > 1 /\ Len(walk') = Len(walk) - 1
         /\ \A k \in 1 .. Len(walk) - 1 : walk'[k] = walk[k]
<1>1. /\ stage \in Pass /\ Len(walk) > 1 /\ walk' = SubSeq(walk, 1, Len(walk) - 1)
  BY DEF Ascend
<1>2. walk \in Seq(PassCall(Len(cmds))) /\ Len(walk) \in Nat
  BY <1>1, PassTypes
<1>3. QED
  BY <1>1, <1>2

-----------------------------------------------------------------------------
(* The text of a script.                                                   *)

\* Among, for the items s.
Found(s, i, m, codes) == {k \in i .. m : s[k].code \in codes}
Count(s, i, m, codes) == Cardinality(Found(s, i, m, codes))

LEMMA CountFinite ==
  ASSUME NEW s, NEW i \in Int, NEW m \in Int, NEW codes
  PROVE  IsFiniteSet(Found(s, i, m, codes))
<1>1. IsFiniteSet(i .. m)
  BY FS_Interval
<1>2. Found(s, i, m, codes) \in SUBSET (i .. m)
  BY DEF Found
<1>3. QED
  BY <1>1, <1>2, FS_Subset

LEMMA CountTyped ==
  ASSUME NEW s, NEW i \in Int, NEW m \in Int, NEW codes
  PROVE  Count(s, i, m, codes) \in Nat
BY CountFinite, FS_CardinalityType DEF Count

LEMMA CountNone ==
  ASSUME NEW s, NEW i \in Int, NEW m \in Int, m < i, NEW codes
  PROVE  Count(s, i, m, codes) = 0
<1>1. Found(s, i, m, codes) = {}
  BY DEF Found
<1>2. QED
  BY <1>1, FS_EmptySet DEF Count

OneOf(code, codes) == IF code \in codes THEN 1 ELSE 0

LEMMA CountNext ==
  ASSUME NEW s, NEW i \in Int, NEW m \in Int, i <= m, NEW codes, NEW p, p = m - 1
  PROVE  Count(s, i, m, codes) = Count(s, i, p, codes) + OneOf(s[m].code, codes)
<1> DEFINE S == Found(s, i, p, codes)
           T == Found(s, i, m, codes)
<1>1. p \in Int /\ m \notin i .. p /\ m \in i .. m
  OBVIOUS
<1>2. IsFiniteSet(S) /\ Count(s, i, p, codes) \in Nat
  <2>1. IsFiniteSet(S)
    BY <1>1, CountFinite
  <2>2. QED
    BY <1>1, <2>1, CountTyped
<1>3. \A k \in i .. m : k = m \/ k \in i .. p
  OBVIOUS
<1>4. \A k \in i .. p : k \in i .. m
  OBVIOUS
<1>5. CASE s[m].code \in codes
  <2>1. T = S \cup {m}
    BY <1>1, <1>3, <1>4, <1>5 DEF Found
  <2>2. m \notin S
    BY <1>1 DEF Found
  <2>3. Cardinality(T) = Cardinality(S) + 1
    BY <1>2, <2>1, <2>2, FS_AddElement
  <2>4. QED
    BY <1>5, <2>3 DEF Count, OneOf
<1>6. CASE s[m].code \notin codes
  <2>1. T = S
    BY <1>1, <1>3, <1>4, <1>6 DEF Found
  <2>2. Count(s, i, m, codes) = Count(s, i, p, codes)
    BY <2>1 DEF Count
  <2>3. QED
    BY <1>2, <1>6, <2>2 DEF OneOf
<1>7. QED
  BY <1>5, <1>6

LEMMA CountStep ==
  ASSUME NEW s, NEW p \in Nat, NEW q, q = p + 1, NEW codes
  PROVE  Count(s, 1, q, codes) = Count(s, 1, p, codes) + OneOf(s[q].code, codes)
<1>1. q \in Int /\ 1 <= q /\ p = q - 1 /\ 1 \in Int
  OBVIOUS
<1>2. QED
  BY ONLY <1>1, CountNext

\* The } of the { at i, or the end of the script, is at j.
Closes(s, i, j) ==
  /\ j \in i .. Len(s) + 1
  /\ j > Len(s) \/ Count(s, i, j, {"block"}) = Count(s, i, j, {"end"})
  /\ \A k \in i .. j - 1 : Count(s, i, k, {"block"}) > Count(s, i, k, {"end"})

LEMMA ClosesOnce ==
  ASSUME NEW s, Len(s) \in Nat, NEW i \in Nat, NEW j, NEW k, Closes(s, i, j), Closes(s, i, k)
  PROVE  j = k
<1>1. ASSUME NEW x, NEW y, Closes(s, i, x), Closes(s, i, y) PROVE ~(x < y)
  <2> SUFFICES ASSUME x < y PROVE FALSE
    OBVIOUS
  <2>1. x \in i .. Len(s) + 1 /\ y \in i .. Len(s) + 1
    BY <1>1 DEF Closes
  <2>2. ~(x > Len(s)) /\ x \in i .. y - 1
    BY <2>1
  <2>3. Count(s, i, x, {"block"}) = Count(s, i, x, {"end"})
    BY <1>1, <2>2 DEF Closes
  <2>4. Count(s, i, x, {"block"}) > Count(s, i, x, {"end"})
    BY <1>1, <2>2 DEF Closes
  <2>5. Count(s, i, x, {"block"}) \in Nat
    <3>1. x \in Int /\ i \in Int
      BY <2>1
    <3>2. QED
      BY <3>1, CountTyped
  <2>6. QED
    BY <2>3, <2>4, <2>5
<1>2. j \in Int /\ k \in Int
  BY DEF Closes
<1>3. ~(j < k) /\ ~(k < j)
  BY <1>1
<1>4. QED
  BY <1>2, <1>3

Closers == {"end", "notEnd"}

\* The item i is well-formed, and compiled.
ItemFits(s, prog, i) ==
  /\ s[i].code \in {"label", "end", "notEnd", "silence"} => s[i].addrs = 0
  /\ s[i].code = "label" => s[i].label # NoLabel
  /\ s[i].code \notin {"end", "silence"} => \E c \in 1 .. Len(prog) : prog[c].at = i
  /\ Count(s, 1, i, Closers) <= Count(s, 1, i, {"block"})

\* The command c is what its item says, and later items have later commands.
CommandFits(s, prog, c) ==
  /\ s[prog[c].at].code = prog[c].code /\ s[prog[c].at].addrs = prog[c].addrs
  /\ s[prog[c].at].label = prog[c].label
  /\ prog[c].code \notin {"end", "silence"}
  /\ \A d \in 1 .. Len(prog) : c < d => prog[c].at < prog[d].at

\* The items of a command, with those of its body, are those up to j.
Extent(prog, end, c, j) == \A d \in 1 .. Len(prog) : d >= end[c] <=> prog[d].at > j

EndsAt(s, code, i, j) == IF code = "block" THEN Closes(s, i, j) ELSE j = i

BodyFits(s, p, prog, end, c) ==
  \E j \in 1 .. Len(s) + 1 :
    /\ j <= p \/ p = Len(s)
    /\ EndsAt(s, prog[c].code, prog[c].at, j) /\ Extent(prog, end, c, j)

\* What the first p items say.
TextFits(s, p, nest, prog, end) ==
  /\ \A i \in 1 .. p : ItemFits(s, prog, i)
  /\ \A c \in 1 .. Len(prog) : CommandFits(s, prog, c)
  /\ \A c \in 1 .. Len(prog) : end[c] # 0 => BodyFits(s, p, prog, end, c)
  /\ Count(s, 1, p, {"block"}) = nest + Count(s, 1, p, Closers)

\* Each command is kept; there may be more.
Prolongs(prog, prog2) ==
  \A c \in 1 .. Len(prog) : c \in 1 .. Len(prog2) /\ SameItem(prog[c], prog2[c])

LEMMA ItemKept ==
  ASSUME NEW s, NEW prog, NEW prog2, Prolongs(prog, prog2), NEW i, ItemFits(s, prog, i)
  PROVE  ItemFits(s, prog2, i)
<1>1. ASSUME NEW c \in 1 .. Len(prog), prog[c].at = i
      PROVE  \E e \in 1 .. Len(prog2) : prog2[e].at = i
  <2>1. c \in 1 .. Len(prog2) /\ prog2[c].at = i
    BY <1>1 DEF Prolongs, SameItem
  <2>2. QED
    BY <2>1
<1>2. QED
  BY <1>1, Zenon DEF ItemFits

\* The passes change links only.
LEMMA TextKept ==
  ASSUME NEW s, NEW p, NEW nest, NEW prog, NEW prog2, NEW end,
         Prolongs(prog, prog2), Len(prog2) = Len(prog), TextFits(s, p, nest, prog, end)
  PROVE  TextFits(s, p, nest, prog2, end)
<1>1. \A c \in 1 .. Len(prog) : /\ prog2[c].code = prog[c].code /\ prog2[c].addrs = prog[c].addrs
                                /\ prog2[c].label = prog[c].label /\ prog2[c].at = prog[c].at
  BY DEF Prolongs, SameItem
<1>2. \A i \in 1 .. p : ItemFits(s, prog2, i)
  BY ItemKept DEF TextFits
<1>3. ASSUME NEW c \in 1 .. Len(prog2) PROVE CommandFits(s, prog2, c)
  <2>1. CommandFits(s, prog, c)
    BY DEF TextFits
  <2>2. QED
    BY <1>1, <2>1, Zenon DEF CommandFits
<1>4. ASSUME NEW c \in 1 .. Len(prog2), end[c] # 0 PROVE BodyFits(s, p, prog2, end, c)
  <2>1. BodyFits(s, p, prog, end, c)
    BY <1>4 DEF TextFits
  <2>2. PICK j \in 1 .. Len(s) + 1 :
          /\ j <= p \/ p = Len(s)
          /\ EndsAt(s, prog[c].code, prog[c].at, j) /\ Extent(prog, end, c, j)
    BY <2>1, Zenon DEF BodyFits
  <2>3. Extent(prog2, end, c, j)
    BY <1>1, <2>2, Zenon DEF Extent
  <2>4. EndsAt(s, prog2[c].code, prog2[c].at, j)
    BY <1>1, <2>2
  <2>5. QED
    BY <2>2, <2>3, <2>4, Zenon DEF BodyFits
<1>5. QED
  BY <1>2, <1>3, <1>4 DEF TextFits

\* A command is compiled, which is a block that stays open if e = 0.
TextGrowth(s, p, q, n, prog, prog2, nest, nest2, end, e) ==
  /\ Len(s) \in Nat /\ p \in Nat /\ q = p + 1 /\ p < Len(s)
  /\ n \in Nat /\ n = Len(prog) /\ n + 1 = Len(prog2) /\ Prolongs(prog, prog2)
  /\ \A c \in 1 .. n : prog[c].at \in 1 .. p
  /\ nest \in Nat /\ nest2 \in Nat
  /\ prog2[n + 1].at = q /\ prog2[n + 1].code = s[q].code
  /\ prog2[n + 1].addrs = s[q].addrs /\ prog2[n + 1].label = s[q].label
  /\ s[q].code \notin {"end", "silence"}
  /\ s[q].code \in {"label", "end", "notEnd", "silence"} => s[q].addrs = 0
  /\ s[q].code = "label" => s[q].label # NoLabel
  /\ nest2 = IF s[q].code = "block" THEN nest + 1
             ELSE IF s[q].code = "notEnd" THEN nest - 1 ELSE nest
  /\ end \in [1 .. n -> 0 .. n + 1]
  /\ e \in {0, n + 2} /\ (e # 0 => s[q].code # "block")

LEMMA TextGrows ==
  ASSUME NEW s, NEW p, NEW q, NEW n, NEW prog, NEW prog2, NEW nest, NEW nest2, NEW end, NEW e,
         TextGrowth(s, p, q, n, prog, prog2, nest, nest2, end, e),
         NEW par, NEW b, NEW par2, NEW end2, Grown(n, par, end, b, e, par2, end2),
         TextFits(s, p, nest, prog, end)
  PROVE  TextFits(s, q, nest2, prog2, end2)
<1> DEFINE m == n + 1
<1>0. /\ m = n + 1 /\ m = Len(prog2) /\ prog2[m].at = q /\ prog2[m].code = s[q].code
      /\ prog2[m].addrs = s[q].addrs /\ prog2[m].label = s[q].label /\ e \in {0, m + 1}
  BY DEF TextGrowth
<1> HIDE DEF m
<1> USE <1>0 DEF TextGrowth
<1>1. \A c \in 1 .. n : /\ prog2[c].code = prog[c].code /\ prog2[c].addrs = prog[c].addrs
                        /\ prog2[c].label = prog[c].label /\ prog2[c].at = prog[c].at
                        /\ c \in 1 .. m
  BY DEF Prolongs, SameItem
<1>2. end2[m] = e /\ \A c \in 1 .. n : end2[c] = end[c]
  BY DEF Grown
<1>3. Count(s, 1, q, {"block"}) = nest2 + Count(s, 1, q, Closers)
  <2>1. Count(s, 1, p, {"block"}) = nest + Count(s, 1, p, Closers)
    BY DEF TextFits
  <2>2. Count(s, 1, p, {"block"}) \in Nat /\ Count(s, 1, p, Closers) \in Nat
    BY CountTyped
  <2>3. q \in Int /\ 1 <= q /\ p = q - 1
    OBVIOUS
  <2>4. /\ Count(s, 1, q, {"block"}) =
             Count(s, 1, p, {"block"}) + OneOf(s[q].code, {"block"})
        /\ Count(s, 1, q, Closers) =
             Count(s, 1, p, Closers) + OneOf(s[q].code, Closers)
    BY CountStep
  <2>5. CASE s[q].code = "block"
    BY <2>1, <2>2, <2>4, <2>5 DEF Closers, OneOf
  <2>6. CASE s[q].code = "notEnd"
    BY <2>1, <2>2, <2>4, <2>6 DEF Closers, OneOf
  <2>7. CASE s[q].code \notin {"block", "notEnd"}
    <3>1. s[q].code \notin Closers /\ s[q].code \notin {"block"} /\ nest2 = nest
      BY <2>7 DEF Closers
    <3>2. QED
      BY <2>1, <2>2, <2>4, <3>1 DEF OneOf
  <2>8. QED
    BY <2>5, <2>6, <2>7
<1>4. ASSUME NEW i \in 1 .. q PROVE ItemFits(s, prog2, i)
  <2>1. CASE i \in 1 .. p
    BY <2>1, ItemKept DEF TextFits
  <2>2. CASE i = q
    <3>1. \E c \in 1 .. Len(prog2) : prog2[c].at = q
      OBVIOUS
    <3>2. Count(s, 1, q, Closers) <= Count(s, 1, q, {"block"})
      <4>1. Count(s, 1, q, Closers) \in Nat
        BY CountTyped
      <4>2. QED
        BY <1>3, <4>1
    <3>3. QED
      BY <2>2, <3>1, <3>2, Zenon DEF ItemFits
  <2>3. QED
    BY <2>1, <2>2
<1>5. ASSUME NEW c \in 1 .. m PROVE CommandFits(s, prog2, c)
  <2>1. CASE c \in 1 .. n
    <3>1. CommandFits(s, prog, c)
      BY <2>1 DEF TextFits
    <3>2. /\ s[prog2[c].at].code = prog2[c].code /\ s[prog2[c].at].addrs = prog2[c].addrs
          /\ s[prog2[c].at].label = prog2[c].label
          /\ prog2[c].code \notin {"end", "silence"}
      BY <1>1, <2>1, <3>1, Zenon DEF CommandFits
    <3>3. ASSUME NEW d \in 1 .. m, c < d PROVE prog2[c].at < prog2[d].at
      <4>1. prog2[c].at = prog[c].at /\ prog[c].at \in 1 .. p
        BY <1>1, <2>1
      <4>2. CASE d = m
        BY <4>1, <4>2
      <4>3. CASE d \in 1 .. n
        <5>1. prog2[d].at = prog[d].at
          BY <1>1, <4>3
        <5>2. QED
          BY <3>1, <3>3, <4>1, <4>3, <5>1 DEF CommandFits
      <4>4. QED
        BY <4>2, <4>3
    <3>4. QED
      BY <3>2, <3>3 DEF CommandFits
  <2>2. CASE c = m
    <3>1. \A d \in 1 .. Len(prog2) : ~(m < d)
      OBVIOUS
    <3>2. QED
      BY <2>2, <3>1, Zenon DEF CommandFits
  <2>3. QED
    BY <2>1, <2>2
<1>6. ASSUME NEW c \in 1 .. m, end2[c] # 0 PROVE BodyFits(s, q, prog2, end2, c)
  <2>1. CASE c \in 1 .. n
    <3>1. BodyFits(s, p, prog, end, c)
      BY <1>2, <1>6, <2>1 DEF TextFits
    <3>2. PICK j \in 1 .. Len(s) + 1 :
            /\ j <= p \/ p = Len(s)
            /\ EndsAt(s, prog[c].code, prog[c].at, j) /\ Extent(prog, end, c, j)
      BY <3>1, Zenon DEF BodyFits
    <3>3. j <= p /\ j <= q /\ j < q
      BY <3>2
    <3>4. EndsAt(s, prog2[c].code, prog2[c].at, j)
      BY <1>1, <2>1, <3>2
    <3>5. ASSUME NEW d \in 1 .. m PROVE d >= end2[c] <=> prog2[d].at > j
      <4>1. end2[c] = end[c] /\ end[c] \in 0 .. n + 1
        BY <1>2, <2>1
      <4>2. CASE d \in 1 .. n
        <5>1. prog2[d].at = prog[d].at
          BY <1>1, <4>2
        <5>2. QED
          BY <3>2, <4>1, <4>2, <5>1 DEF Extent
      <4>3. CASE d = m
        BY <3>3, <4>1, <4>3
      <4>4. QED
        BY <4>2, <4>3
    <3>6. Extent(prog2, end2, c, j)
      BY <3>5 DEF Extent
    <3>7. QED
      BY <3>2, <3>3, <3>4, <3>6, Zenon DEF BodyFits
  <2>2. CASE c = m
    <3>1. e = m + 1 /\ s[q].code # "block"
      BY <1>2, <1>6, <2>2
    <3>2. EndsAt(s, prog2[m].code, prog2[m].at, q)
      BY <3>1 DEF EndsAt
    <3>3. ASSUME NEW d \in 1 .. m PROVE d >= end2[m] <=> prog2[d].at > q
      <4>1. ~(d >= end2[m])
        BY <1>2, <3>1
      <4>2. CASE d \in 1 .. n
        <5>1. prog2[d].at \in 1 .. p
          BY <1>1, <4>2
        <5>2. QED
          BY <4>1, <5>1
      <4>3. CASE d = m
        BY <4>1, <4>3
      <4>4. QED
        BY <4>2, <4>3
    <3>4. Extent(prog2, end2, m, q)
      BY <3>3 DEF Extent
    <3>5. q \in 1 .. Len(s) + 1 /\ q <= q
      OBVIOUS
    <3>6. QED
      BY <2>2, <3>2, <3>4, <3>5, Zenon DEF BodyFits
  <2>3. QED
    BY <2>1, <2>2
<1>7. QED
  BY <1>3, <1>4, <1>5, <1>6 DEF TextFits

\* #n compiles to no command.
LEMMA TextPasses ==
  ASSUME NEW s, NEW L \in Nat, L = Len(s), NEW p \in Nat, NEW q, q = p + 1, p < L,
         NEW prog, NEW end, NEW nest \in Nat, s[q].code = "silence", s[q].addrs = 0,
         TextFits(s, p, nest, prog, end)
  PROVE  TextFits(s, q, nest, prog, end)
<1>1. Count(s, 1, q, {"block"}) = nest + Count(s, 1, q, Closers)
  <2>1. Count(s, 1, p, {"block"}) = nest + Count(s, 1, p, Closers)
    BY DEF TextFits
  <2>2. Count(s, 1, p, {"block"}) \in Nat /\ Count(s, 1, p, Closers) \in Nat
    BY CountTyped
  <2>3. q \in Int /\ 1 <= q /\ p = q - 1
    OBVIOUS
  <2>4. /\ Count(s, 1, q, {"block"}) =
             Count(s, 1, p, {"block"}) + OneOf(s[q].code, {"block"})
        /\ Count(s, 1, q, Closers) =
             Count(s, 1, p, Closers) + OneOf(s[q].code, Closers)
    BY CountStep
  <2>5. s[q].code \notin Closers /\ s[q].code \notin {"block"}
    BY DEF Closers, OneOf
  <2>6. QED
    BY <2>1, <2>2, <2>4, <2>5 DEF OneOf
<1>2. ASSUME NEW i \in 1 .. q PROVE ItemFits(s, prog, i)
  <2>1. CASE i \in 1 .. p
    BY <2>1 DEF TextFits
  <2>2. CASE i = q
    <3>1. Count(s, 1, q, Closers) <= Count(s, 1, q, {"block"})
      <4>1. Count(s, 1, q, Closers) \in Nat
        BY CountTyped
      <4>2. QED
        BY <1>1, <4>1
    <3>2. QED
      BY <2>2, <3>1, Zenon DEF ItemFits
  <2>3. QED
    BY <2>1, <2>2
<1>3. ASSUME NEW c \in 1 .. Len(prog), end[c] # 0 PROVE BodyFits(s, q, prog, end, c)
  <2>1. BodyFits(s, p, prog, end, c)
    BY <1>3 DEF TextFits
  <2>2. PICK j \in 1 .. Len(s) + 1 :
          /\ j <= p \/ p = Len(s)
          /\ EndsAt(s, prog[c].code, prog[c].at, j) /\ Extent(prog, end, c, j)
    BY <2>1, Zenon DEF BodyFits
  <2>3. j <= q
    BY <2>2
  <2>4. QED
    BY <2>2, <2>3, Zenon DEF BodyFits
<1>4. QED
  BY <1>1, <1>2, <1>3 DEF TextFits

\* The block b is closed, by an item or by the end of the script.
TextClosing(s, p, q, n, prog, prog2, nest, nest2, end, b, j, end2) ==
  /\ Len(s) \in Nat /\ p \in 0 .. Len(s) /\ q \in Nat
  /\ \/ q = p + 1 /\ p < Len(s) /\ s[q].code = "end" /\ s[q].addrs = 0
     \/ q = p /\ p = Len(s)
  /\ n \in Nat /\ n = Len(prog) /\ n = Len(prog2) /\ Prolongs(prog, prog2)
  /\ \A c \in 1 .. n : prog[c].at \in 1 .. p
  /\ nest \in Nat /\ nest2 \in Nat /\ nest2 = IF q = p THEN nest ELSE nest - 1
  /\ end \in [1 .. n -> 0 .. n + 1] /\ b \in 1 .. n /\ prog[b].code = "block"
  /\ end2 = [end EXCEPT ![b] = n + 1]
  /\ j = (IF q = p THEN Len(s) + 1 ELSE q) /\ Closes(s, prog[b].at, j)

LEMMA TextCloses ==
  ASSUME NEW s, NEW p, NEW q, NEW n, NEW prog, NEW prog2, NEW nest, NEW nest2, NEW end,
         NEW b, NEW j, NEW end2,
         TextClosing(s, p, q, n, prog, prog2, nest, nest2, end, b, j, end2),
         TextFits(s, p, nest, prog, end)
  PROVE  TextFits(s, q, nest2, prog2, end2)
<1> USE DEF TextClosing
<1>0. p \in Nat /\ p \in Int
  OBVIOUS
<1>1. \A c \in 1 .. n : /\ prog2[c].code = prog[c].code /\ prog2[c].at = prog[c].at
  BY DEF Prolongs, SameItem
<1>2. TextFits(s, p, nest, prog2, end)
  BY TextKept
<1>3. Count(s, 1, q, {"block"}) = nest2 + Count(s, 1, q, Closers)
  <2>1. Count(s, 1, p, {"block"}) = nest + Count(s, 1, p, Closers)
    BY DEF TextFits
  <2>2. Count(s, 1, p, {"block"}) \in Nat /\ Count(s, 1, p, Closers) \in Nat
    BY <1>0, CountTyped
  <2>3. CASE q = p
    BY <2>1, <2>3
  <2>4. CASE q = p + 1 /\ s[q].code = "end"
    <3>1. q \in Int /\ 1 <= q /\ p = q - 1 /\ q # p
      BY <2>4
    <3>2. /\ Count(s, 1, q, {"block"}) =
               Count(s, 1, p, {"block"}) + OneOf(s[q].code, {"block"})
          /\ Count(s, 1, q, Closers) =
               Count(s, 1, p, Closers) + OneOf(s[q].code, Closers)
      BY <3>1, CountNext
    <3>3. s[q].code \in Closers /\ s[q].code \notin {"block"}
      BY <2>4 DEF Closers
    <3>4. QED
      BY <2>1, <2>2, <3>1, <3>2, <3>3 DEF OneOf
  <2>5. QED
    BY <2>3, <2>4
<1>4. ASSUME NEW i \in 1 .. q PROVE ItemFits(s, prog2, i)
  <2>1. CASE i \in 1 .. p
    BY <1>2, <2>1 DEF TextFits
  <2>2. CASE i \notin 1 .. p
    <3>1. i = q /\ s[q].code = "end" /\ s[q].addrs = 0
      BY <2>2
    <3>2. Count(s, 1, q, Closers) <= Count(s, 1, q, {"block"})
      <4>1. Count(s, 1, q, Closers) \in Nat
        BY CountTyped
      <4>2. QED
        BY <1>3, <4>1
    <3>3. QED
      BY <3>1, <3>2, Zenon DEF ItemFits
  <2>3. QED
    BY <2>1, <2>2
<1>5. ASSUME NEW c \in 1 .. n, end2[c] # 0 PROVE BodyFits(s, q, prog2, end2, c)
  <2>1. CASE c # b
    <3>1. end2[c] = end[c]
      BY <2>1
    <3>2. BodyFits(s, p, prog2, end, c)
      BY <1>2, <1>5, <3>1 DEF TextFits
    <3>3. PICK k \in 1 .. Len(s) + 1 :
            /\ k <= p \/ p = Len(s)
            /\ EndsAt(s, prog2[c].code, prog2[c].at, k) /\ Extent(prog2, end, c, k)
      BY <3>2, Zenon DEF BodyFits
    <3>4. Extent(prog2, end2, c, k)
      BY <3>1, <3>3, Zenon DEF Extent
    <3>5. k <= q \/ q = Len(s)
      BY <3>3
    <3>6. QED
      BY <3>3, <3>4, <3>5, Zenon DEF BodyFits
  <2>2. CASE c = b
    <3>1. EndsAt(s, prog2[b].code, prog2[b].at, j)
      BY <1>1 DEF EndsAt
    <3>2. ASSUME NEW d \in 1 .. n PROVE d >= end2[b] <=> prog2[d].at > j
      <4>1. ~(d >= end2[b])
        OBVIOUS
      <4>2. prog2[d].at \in 1 .. p
        BY <1>1
      <4>3. QED
        BY <4>1, <4>2
    <3>3. Extent(prog2, end2, b, j)
      BY <3>2 DEF Extent
    <3>4. j <= q \/ q = Len(s)
      OBVIOUS
    <3>5. j \in 1 .. Len(s) + 1
      OBVIOUS
    <3>6. QED
      BY <2>2, <3>1, <3>3, <3>4, <3>5, Zenon DEF BodyFits
  <2>3. QED
    BY <2>1, <2>2
<1>6. QED
  BY <1>2, <1>3, <1>4, <1>5 DEF TextFits

-----------------------------------------------------------------------------
(* The calls of compile_sequence and the text.                             *)

\* How much deeper the nesting is behind an item.
Deeper(code) == IF code = "block" THEN 1 ELSE IF code = "end" THEN -1 ELSE 0

\* The { at i is still open behind item p, with h - 1 more of them in it.
Within(s, p, i, h) ==
  /\ \A m \in i .. p : Count(s, i, m, {"block"}) > Count(s, i, m, {"end"})
  /\ p < Len(s) => Count(s, i, p, {"block"}) = Count(s, i, p, {"end"}) + h

FramesRead(s, p, prog, calls) ==
  \A k \in 2 .. Len(calls) :
    /\ calls[k].block \in 1 .. Len(prog)
    /\ Within(s, p, prog[calls[k].block].at, Len(calls) - k + 1)

LEMMA WithinNext ==
  ASSUME NEW s, NEW L \in Nat, L = Len(s), NEW p \in Nat, p < L, NEW q, q = p + 1,
         NEW i \in 1 .. p, NEW h \in Nat, Within(s, p, i, h),
         NEW g \in Nat \ {0},
         g = h + Deeper(s[q].code)
  PROVE  Within(s, q, i, g)
<1>1. q \in Int /\ i \in Int /\ p \in Int /\ i <= q /\ p = q - 1
  OBVIOUS
<1>2. Count(s, i, p, {"block"}) \in Nat /\ Count(s, i, p, {"end"}) \in Nat
  BY <1>1, CountTyped
<1>3. /\ Count(s, i, q, {"block"}) =
           Count(s, i, p, {"block"}) + OneOf(s[q].code, {"block"})
      /\ Count(s, i, q, {"end"}) =
           Count(s, i, p, {"end"}) + OneOf(s[q].code, {"end"})
  BY <1>1, CountNext
<1>4. Count(s, i, p, {"block"}) = Count(s, i, p, {"end"}) + h
  BY DEF Within
<1>5. Count(s, i, q, {"block"}) = Count(s, i, q, {"end"}) + g
  <2>1. CASE s[q].code = "block"
    BY <1>2, <1>3, <1>4, <2>1 DEF Deeper, OneOf
  <2>2. CASE s[q].code = "end"
    BY <1>2, <1>3, <1>4, <2>2 DEF Deeper, OneOf
  <2>3. CASE s[q].code \notin {"block", "end"}
    BY <1>2, <1>3, <1>4, <2>3 DEF Deeper, OneOf
  <2>4. QED
    BY <2>1, <2>2, <2>3
<1>6. Count(s, i, q, {"end"}) \in Nat
  BY <1>1, CountTyped
<1>7. ASSUME NEW m \in i .. q PROVE Count(s, i, m, {"block"}) > Count(s, i, m, {"end"})
  <2>1. CASE m = q
    BY <1>5, <1>6, <2>1
  <2>2. CASE m \in i .. p
    BY <2>2 DEF Within
  <2>3. QED
    BY <2>1, <2>2
<1>8. QED
  BY <1>5, <1>7 DEF Within

LEMMA WithinStarts ==
  ASSUME NEW s, NEW q \in Nat, s[q].code = "block"
  PROVE  Within(s, q, q, 1)
<1>1. \A m \in q .. q : m = q
  OBVIOUS
<1>2. Found(s, q, q, {"block"}) = {q} /\ Found(s, q, q, {"end"}) = {}
  BY <1>1 DEF Found
<1>3. Count(s, q, q, {"block"}) = 1 /\ Count(s, q, q, {"end"}) = 0
  BY <1>2, FS_Singleton, FS_EmptySet DEF Count
<1>4. QED
  BY <1>1, <1>3 DEF Within

LEMMA WithinCloses ==
  ASSUME NEW s, NEW L \in Nat, L = Len(s), NEW p \in Nat, p < L, NEW q, q = p + 1,
         NEW i \in 1 .. p, Within(s, p, i, 1), s[q].code = "end"
  PROVE  Closes(s, i, q)
<1>1. q \in Int /\ i \in Int /\ p \in Int /\ i <= q /\ p = q - 1
  OBVIOUS
<1>2. Count(s, i, p, {"block"}) \in Nat /\ Count(s, i, p, {"end"}) \in Nat
  BY <1>1, CountTyped
<1>3. /\ Count(s, i, q, {"block"}) =
           Count(s, i, p, {"block"}) + OneOf(s[q].code, {"block"})
      /\ Count(s, i, q, {"end"}) =
           Count(s, i, p, {"end"}) + OneOf(s[q].code, {"end"})
  BY <1>1, CountNext
<1>4. Count(s, i, p, {"block"}) = Count(s, i, p, {"end"}) + 1
  BY DEF Within
<1>5. Count(s, i, q, {"block"}) = Count(s, i, q, {"end"})
  BY <1>2, <1>3, <1>4 DEF OneOf
<1>6. q \in i .. Len(s) + 1 /\ i .. q - 1 = i .. p
  OBVIOUS
<1>7. \A k \in i .. q - 1 : Count(s, i, k, {"block"}) > Count(s, i, k, {"end"})
  BY <1>6 DEF Within
<1>8. QED
  BY <1>5, <1>6, <1>7 DEF Closes

LEMMA WithinEnds ==
  ASSUME NEW s, NEW L \in Nat, L = Len(s), NEW i \in 1 .. L, NEW h, Within(s, L, i, h)
  PROVE  Closes(s, i, L + 1)
<1>1. L + 1 \in i .. Len(s) + 1 /\ L + 1 > Len(s) /\ i .. (L + 1) - 1 = i .. L
  OBVIOUS
<1>2. \A k \in i .. (L + 1) - 1 : Count(s, i, k, {"block"}) > Count(s, i, k, {"end"})
  BY <1>1 DEF Within
<1>3. QED
  BY <1>1, <1>2 DEF Closes

\* An item that is neither { nor }.
Reads(s, p, q, prog, prog2) ==
  /\ Len(s) \in Nat /\ p \in 0 .. Len(s) /\ p \in Nat /\ q \in Nat
  /\ (q = p + 1 /\ p < Len(s)) \/ (q = p /\ p = Len(s))
  /\ Prolongs(prog, prog2) /\ \A c \in 1 .. Len(prog) : prog[c].at \in 1 .. p

SameBlocks(calls, calls2, d) == \A k \in 1 .. d : calls2[k].block = calls[k].block

LEMMA FramesReadOn ==
  ASSUME NEW s, NEW p, NEW q, NEW prog, NEW prog2, Reads(s, p, q, prog, prog2), q # p,
         s[q].code \notin {"block", "end"},
         NEW calls, NEW calls2, NEW d \in Nat, d = Len(calls), d = Len(calls2),
         SameBlocks(calls, calls2, d), FramesRead(s, p, prog, calls)
  PROVE  FramesRead(s, q, prog2, calls2)
<1> USE DEF Reads, SameBlocks
<1>1. ASSUME NEW k \in 2 .. d
      PROVE  /\ calls2[k].block \in 1 .. Len(prog2)
             /\ Within(s, q, prog2[calls2[k].block].at, d - k + 1)
  <2> DEFINE b == calls[k].block
  <2>1. b \in 1 .. Len(prog) /\ Within(s, p, prog[b].at, d - k + 1)
    BY DEF FramesRead
  <2>2. calls2[k].block = b
    OBVIOUS
  <2>3. b \in 1 .. Len(prog2) /\ prog2[b].at = prog[b].at /\ prog[b].at \in 1 .. p
    BY <2>1 DEF Prolongs, SameItem
  <2> DEFINE h == d - k + 1
  <2>4. h \in Nat \ {0} /\ h \in Nat
    OBVIOUS
  <2> HIDE DEF h
  <2>5. h = h + Deeper(s[q].code)
    BY <2>4 DEF Deeper, OneOf
  <2>6. Within(s, p, prog[b].at, h)
    BY <2>1 DEF h
  <2>7. Within(s, q, prog[b].at, h)
    BY <2>3, <2>4, <2>5, <2>6, WithinNext
  <2>8. QED
    BY <2>2, <2>3, <2>7 DEF h
<1>2. QED
  BY <1>1 DEF FramesRead

\* A { opens a block.
LEMMA FramesReadOpen ==
  ASSUME NEW s, NEW p, NEW q, NEW prog, NEW prog2, Reads(s, p, q, prog, prog2), q # p,
         s[q].code = "block", NEW m \in 1 .. Len(prog2), prog2[m].at = q,
         NEW calls, NEW calls2, NEW d \in Nat, d = Len(calls), Len(calls2) = d + 1,
         SameBlocks(calls, calls2, d), calls2[d + 1].block = m,
         FramesRead(s, p, prog, calls)
  PROVE  FramesRead(s, q, prog2, calls2)
<1> USE DEF Reads, SameBlocks
<1>1. ASSUME NEW k \in 2 .. d
      PROVE  /\ calls2[k].block \in 1 .. Len(prog2)
             /\ Within(s, q, prog2[calls2[k].block].at, (d + 1) - k + 1)
  <2> DEFINE b == calls[k].block
  <2>1. b \in 1 .. Len(prog) /\ Within(s, p, prog[b].at, d - k + 1)
    BY DEF FramesRead
  <2>2. calls2[k].block = b
    OBVIOUS
  <2>3. b \in 1 .. Len(prog2) /\ prog2[b].at = prog[b].at /\ prog[b].at \in 1 .. p
    BY <2>1 DEF Prolongs, SameItem
  <2> DEFINE h == d - k + 1
             g == (d + 1) - k + 1
  <2>4. h \in Nat /\ g \in Nat \ {0} /\ g = h + 1
    OBVIOUS
  <2> HIDE DEF h, g
  <2>5. g = h + Deeper(s[q].code)
    BY <2>4 DEF Deeper, OneOf
  <2>6. Within(s, p, prog[b].at, h)
    BY <2>1 DEF h
  <2>7. Within(s, q, prog[b].at, g)
    <3>1. PICK x \in 1 .. p : x = prog[b].at
      BY <2>3
    <3>2. Within(s, p, x, h)
      BY <2>6, <3>1
    <3> HIDE DEF b
    <3>3. Within(s, q, x, g)
      BY <2>4, <2>5, <3>2, WithinNext
    <3>4. QED
      BY <3>1, <3>3
  <2>8. QED
    BY <2>2, <2>3, <2>7 DEF g
<1>2. calls2[d + 1].block \in 1 .. Len(prog2) /\ Within(s, q, prog2[calls2[d + 1].block].at, 1)
  BY WithinStarts
<1>3. (d + 1) - (d + 1) + 1 = 1
  OBVIOUS
<1>4. ASSUME NEW k \in 2 .. d + 1
      PROVE  /\ calls2[k].block \in 1 .. Len(prog2)
             /\ Within(s, q, prog2[calls2[k].block].at, (d + 1) - k + 1)
  <2>1. k \in 2 .. d \/ k = d + 1
    OBVIOUS
  <2>2. QED
    BY <1>1, <1>2, <1>3, <2>1
<1>5. QED
  BY <1>4 DEF FramesRead

\* A block is closed by a } or by the end of the script.
LEMMA FramesReadClose ==
  ASSUME NEW s, NEW p, NEW q, NEW prog, NEW prog2, Reads(s, p, q, prog, prog2),
         q # p => s[q].code = "end",
         NEW calls, NEW calls2, NEW d \in Nat, d > 1, d = Len(calls), Len(calls2) = d - 1,
         SameBlocks(calls, calls2, d - 1), FramesRead(s, p, prog, calls)
  PROVE  /\ FramesRead(s, q, prog2, calls2)
         /\ calls[d].block \in 1 .. Len(prog)
         /\ Closes(s, prog[calls[d].block].at, IF q = p THEN Len(s) + 1 ELSE q)
<1> USE DEF Reads, SameBlocks
<1> DEFINE L == Len(s)
<1>1. ASSUME NEW k \in 2 .. d - 1
      PROVE  /\ calls2[k].block \in 1 .. Len(prog2)
             /\ Within(s, q, prog2[calls2[k].block].at, (d - 1) - k + 1)
  <2> DEFINE b == calls[k].block
  <2>0. k \in 2 .. Len(calls)
    OBVIOUS
  <2>1. b \in 1 .. Len(prog) /\ Within(s, p, prog[b].at, d - k + 1)
    BY <2>0 DEF FramesRead
  <2>2. calls2[k].block = b
    OBVIOUS
  <2>3. b \in 1 .. Len(prog2) /\ prog2[b].at = prog[b].at /\ prog[b].at \in 1 .. p
    BY <2>1 DEF Prolongs, SameItem
  <2> DEFINE h == d - k + 1
             g == (d - 1) - k + 1
  <2>4. h \in Nat /\ g \in Nat \ {0} /\ g = h - 1
    OBVIOUS
  <2>5. Within(s, p, prog[b].at, h)
    BY <2>1
  <2> HIDE DEF h, g
  <2>6. Within(s, q, prog[b].at, g)
    <3>1. CASE q = p
      BY <2>5, <3>1 DEF Within
    <3>2. CASE q = p + 1 /\ p < L /\ s[q].code = "end"
      <4>1. g = h + Deeper(s[q].code)
        BY <2>4, <3>2 DEF Deeper
      <4>2. p \in Nat
        OBVIOUS
      <4>3. QED
        BY <2>3, <2>4, <2>5, <3>2, <4>1, <4>2, WithinNext
    <3>3. QED
      BY <3>1, <3>2
  <2>7. QED
    BY <2>2, <2>3, <2>6 DEF g
<1>2. FramesRead(s, q, prog2, calls2)
  BY <1>1 DEF FramesRead
<1>3. d \in 2 .. d /\ d - d + 1 = 1
  OBVIOUS
<1>4. calls[d].block \in 1 .. Len(prog) /\ Within(s, p, prog[calls[d].block].at, 1)
  BY <1>3 DEF FramesRead
<1>5. prog[calls[d].block].at \in 1 .. p /\ p \in Nat
  BY <1>4
<1>6. Closes(s, prog[calls[d].block].at, IF q = p THEN L + 1 ELSE q)
  <2>1. CASE q = p
    BY <1>4, <1>5, <2>1, WithinEnds
  <2>2. CASE q = p + 1 /\ p < L /\ s[q].code = "end"
    <3>1. q # p
      BY <2>2
    <3>2. Closes(s, prog[calls[d].block].at, q)
      BY <1>4, <1>5, <2>2, WithinCloses
    <3>3. QED
      BY <3>1, <3>2
  <2>3. QED
    BY <2>1, <2>2
<1>7. QED
  BY <1>2, <1>4, <1>6

-----------------------------------------------------------------------------
(* The invariant of the links, for a tree that the text determines.        *)

Blocks == {c \in 1 .. Len(cmds) : cmds[c].code = "block"}

\* The commands that the pass p is done with, later being what follows it.
PassDone(end, p, later) ==
  IF stage = p THEN Visited(Len(cmds), end, walk)
  ELSE IF stage \in later THEN 1 .. Len(cmds) ELSE {}

LabelsDone(end)   == PassDone(end, "labels", {"ranges", "resolve", "patch", "done"})
RangesDone(end)   == PassDone(end, "ranges", {"resolve", "patch", "done"})
BranchesDone(end) == PassDone(end, "resolve", {"patch", "done"})
Patched(end)      == PassDone(end, "patch", {"done"})

\* The last pass knows what follows the block that a call of it is for.
ParentFits(n, end, calls, k) ==
  calls[k].parent = IF k = 1 THEN 0 ELSE Follow(n, end, calls[k - 1].at)

Graph(par, end) ==
  /\ Tree(Len(cmds), Blocks, par, end)
  /\ LinksAre(Len(cmds), cmds, par, end, Patched(end))
  /\ stage = "parse" => FramesFit(Len(cmds), par, end, frames)
  /\ stage # "parse" => Closed(Len(cmds), end) /\ Top = IF Len(cmds) = 0 THEN 0 ELSE 1
  /\ stage \in Pass => WalkFits(Len(cmds), par, walk)
  /\ stage = "patch" => \A k \in 1 .. Len(walk) : ParentFits(Len(cmds), end, walk, k)

\* What the passes have found out.
Progress(end) ==
  /\ \A l \in LabelName : labels[l] # 0 => labels[l] \in LabelsDone(end)
  /\ \A c \in LabelsDone(end) : cmds[c].code = "label" => labels[cmds[c].label] = c
  /\ \A c \in 1 .. Len(cmds) :
       (\E i \in DOMAIN ranges : ranges[i] = c) <=> c \in RangesDone(end) /\ cmds[c].addrs = 2
  /\ \A i, j \in DOMAIN ranges : ranges[i] = ranges[j] => i = j
  /\ \A c \in BranchesDone(end) :
       cmds[c].code = "branch" =>
         IF cmds[c].label = NoLabel THEN cmds[c].goto = 0
         ELSE labels[cmds[c].label] # 0 /\ cmds[c].goto = labels[cmds[c].label]
  /\ stage \in {"patch", "done"} => nesting = 0

TextHolds(end) ==
  /\ TextFits(source, pos, nesting, cmds, end)
  /\ stage = "parse" => FramesRead(source, pos, cmds, frames)
  /\ stage # "parse" => pos = Len(source)

Meaning(par, end) == Graph(par, end) /\ Progress(end) /\ TextHolds(end)

\* Nothing is collected or resolved while items are compiled.
LEMMA ProgressWhileParsing ==
  ASSUME Inv, stage = "parse", stage' = "parse", labels' = labels, ranges' = ranges,
         NEW end, NEW end2, Progress(end)
  PROVE  Progress(end2)'
<1>1. LabelsDone(end) = {} /\ RangesDone(end) = {}
  BY DEF LabelsDone, RangesDone, PassDone
<1>2. LabelsDone(end2)' = {} /\ RangesDone(end2)' = {} /\ BranchesDone(end2)' = {}
  BY DEF LabelsDone, RangesDone, BranchesDone, PassDone
<1>3. \A l \in LabelName : labels[l] = 0
  BY <1>1 DEF Progress
<1>4. DOMAIN ranges = {}
  <2>1. ranges \in Seq(1 .. Len(cmds))
    BY DEF Inv, TypeOK
  <2>2. \A i \in DOMAIN ranges : ranges[i] \in 1 .. Len(cmds)
    BY <2>1
  <2>3. \A c \in 1 .. Len(cmds) : ~(\E i \in DOMAIN ranges : ranges[i] = c)
    BY <1>1 DEF Progress
  <2>4. QED
    BY <2>2, <2>3
<1>5. QED
  BY <1>2, <1>3, <1>4 DEF Progress

\* What is known of the program while items are compiled.
LEMMA ParseKnown ==
  ASSUME Inv, stage = "parse", NEW par, NEW end, Meaning(par, end)
  PROVE  /\ Tree(Len(cmds), Blocks, par, end) /\ LinksAre(Len(cmds), cmds, par, end, {})
         /\ FramesFit(Len(cmds), par, end, frames)
         /\ end \in [1 .. Len(cmds) -> 0 .. Len(cmds) + 1]
         /\ TextFits(source, pos, nesting, cmds, end)
         /\ FramesRead(source, pos, cmds, frames)
         /\ \A c \in 1 .. Len(cmds) : cmds[c].at \in 1 .. pos
         /\ Progress(end)
<1>1. Patched(end) = {}
  BY DEF Patched, PassDone
<1>2. /\ Tree(Len(cmds), Blocks, par, end) /\ LinksAre(Len(cmds), cmds, par, end, {})
      /\ FramesFit(Len(cmds), par, end, frames)
  BY <1>1 DEF Meaning, Graph
<1>3. /\ TextFits(source, pos, nesting, cmds, end)
      /\ FramesRead(source, pos, cmds, frames) /\ Progress(end)
  BY DEF Meaning, TextHolds
<1>4. end \in [1 .. Len(cmds) -> 0 .. Len(cmds) + 1]
  BY <1>2 DEF Tree
<1>5. ASSUME NEW c \in 1 .. Len(cmds) PROVE cmds[c].at \in 1 .. pos
  <2>1. cmds \in Seq(Command(Len(cmds), pos))
    BY ParseTypes
  <2>2. cmds[c] \in Command(Len(cmds), pos)
    BY <2>1
  <2>3. QED
    BY <2>2 DEF Command
<1>6. QED
  BY <1>2, <1>3, <1>4, <1>5

\* And how it is shown of the next state.
LEMMA ParseShown ==
  ASSUME stage' = "parse", NEW par, NEW end,
         Tree(Len(cmds)', Blocks', par, end), LinksAre(Len(cmds)', cmds', par, end, {}),
         FramesFit(Len(cmds)', par, end, frames'),
         TextFits(source', pos', nesting', cmds', end),
         FramesRead(source', pos', cmds', frames'), Progress(end)'
  PROVE  Meaning(par, end)'
<1>1. Patched(end)' = {}
  BY DEF Patched, PassDone
<1>2. Graph(par, end)'
  BY <1>1 DEF Graph, Pass
<1>3. TextHolds(end)'
  BY DEF TextHolds
<1>4. QED
  BY <1>2, <1>3 DEF Meaning

LEMMA CompiledFields ==
  /\ Compiled.code = This.code /\ Compiled.addrs = This.addrs /\ Compiled.label = This.label
  /\ Compiled.next = 0 /\ Compiled.goto = 0 /\ Compiled.at = pos + 1
BY DEF Compiled

\* What the compiler makes sure of before it adds the command of an item.
LEMMA NotRefused ==
  ASSUME Inv, Compile
  PROVE  /\ This = source[pos + 1] /\ pos \in Nat /\ pos < Len(source) /\ Len(source) \in Nat
         /\ This.code \in {"label", "end", "notEnd", "silence"} => This.addrs = 0
         /\ This.code = "label" => This.label # NoLabel
         /\ This.code \in Closers => nesting > 0
         /\ stage = "parse"
<1>1. /\ source \in Seq(Item) /\ pos \in Nat /\ pos < Len(source) /\ Len(source) \in Nat
      /\ stage = "parse" /\ ~Refused /\ nesting \in Nat
  BY ParseTypes DEF Compile, Parsing
<1>2. This \in Item /\ This = source[pos + 1]
  BY <1>1 DEF This
<1>3. This.addrs \in 0 .. 2
  BY <1>2 DEF Item
<1>4. This.code \in {"label", "end", "notEnd", "silence"} => This.addrs = 0
  BY <1>1, <1>3 DEF Refused, MaxAddrs
<1>5. QED
  BY <1>1, <1>2, <1>4 DEF Refused, Closers

LEMMA CommandProlongs ==
  ASSUME NEW tail, CommandAdded(tail), Len(cmds) \in Nat
  PROVE  Prolongs(cmds, cmds')
<1>1. New = Len(cmds) + 1
  BY DEF New
<1>2. \A c \in 1 .. Len(cmds) : c \in 1 .. Len(cmds') /\ SameItem(cmds[c], cmds'[c])
  BY <1>1 DEF CommandAdded
<1>3. QED
  BY <1>2 DEF Prolongs

\* The two steps that create a command extend the text that is compiled.
LEMMA TextAdded ==
  ASSUME Inv, Compile, NEW tail, CommandAdded(tail),
         source' = source, pos' = pos + 1, nesting' \in Nat,
         This.code \in {"block", "label", "branch", "other", "notEnd"},
         nesting' = IF This.code = "block" THEN nesting + 1
                    ELSE IF This.code = "notEnd" THEN nesting - 1 ELSE nesting,
         NEW par, NEW end, Meaning(par, end),
         NEW b, NEW e \in {0, New + 1}, e # 0 => This.code # "block",
         NEW par2, NEW end2, Grown(Len(cmds), par, end, b, e, par2, end2)
  PROVE  TextFits(source', pos', nesting', cmds', end2)
<1> DEFINE q == pos + 1
           n == Len(cmds)
<1>1. /\ stage = "parse" /\ This = source[q] /\ pos \in Nat /\ pos < Len(source)
      /\ Len(source) \in Nat
      /\ This.code \in {"label", "end", "notEnd", "silence"} => This.addrs = 0
      /\ This.code = "label" => This.label # NoLabel
  BY NotRefused
<1>2. n \in Nat /\ nesting \in Nat /\ New = n + 1
  BY <1>1, ParseTypes DEF New
<1>3. Prolongs(cmds, cmds')
  BY <1>2, CommandProlongs
<1>4. /\ Len(cmds') = New /\ cmds'[New].at = q /\ cmds'[New].code = source[q].code
      /\ cmds'[New].addrs = source[q].addrs /\ cmds'[New].label = source[q].label
  BY <1>1, CompiledFields DEF CommandAdded
<1>5. /\ end \in [1 .. n -> 0 .. n + 1] /\ \A c \in 1 .. n : cmds[c].at \in 1 .. pos
      /\ TextFits(source, pos, nesting, cmds, end)
  BY <1>1, ParseKnown
<1>6. source[q].code \notin {"end", "silence"}
  BY <1>1
<1>7. nesting' = IF source[q].code = "block" THEN nesting + 1
                 ELSE IF source[q].code = "notEnd" THEN nesting - 1 ELSE nesting
  BY <1>1
<1>8. TextGrowth(source, pos, q, n, cmds, cmds', nesting, nesting', end, e)
  <2>1. pos \in Nat /\ q = pos + 1 /\ New = n + 1 /\ n = Len(cmds) /\ e \in {0, n + 2}
    BY <1>1, <1>2
  <2> HIDE DEF n, q
  <2>2. QED
    BY <2>1, <1>1, <1>2, <1>3, <1>4, <1>5, <1>6, <1>7 DEF TextGrowth
<1>9. Grown(n, par, end, b, e, par2, end2) /\ source' = source /\ pos' = q
  OBVIOUS
<1>10. TextFits(source, pos, nesting, cmds, end)
  BY <1>5
<1> HIDE DEF n, q
<1>11. TextFits(source, q, nesting', cmds', end2)
  BY ONLY <1>8, <1>9, <1>10, TextGrows, Zenon
<1>12. QED
  BY <1>9, <1>11

LEMMA AddMeaning ==
  ASSUME Inv, AddCommand, NEW par, NEW end, Meaning(par, end)
  PROVE  \E par2, end2 : Meaning(par2, end2)'
<1> DEFINE n == Len(cmds)
           d == Len(frames)
           m == New
           b == frames[d].block
<1>1. /\ stage = "parse" /\ Compile /\ source' = source /\ pos' = pos + 1 /\ stage' = "parse"
      /\ labels' = labels /\ ranges' = ranges /\ nesting' = NestingAfter
      /\ This.code \in {"label", "branch", "other", "notEnd"}
  BY DEF AddCommand, Compile, Parsing
<1>2. /\ n \in Nat /\ d \in Nat \ {0} /\ m = n + 1 /\ nesting \in Nat
      /\ This = source[pos + 1] /\ pos \in Nat /\ pos < Len(source) /\ Len(source) \in Nat
      /\ This.code \in Closers => nesting > 0
  BY <1>1, ParseTypes, NotRefused DEF New
<1>3. /\ Tree(n, Blocks, par, end) /\ LinksAre(n, cmds, par, end, {})
      /\ FramesFit(n, par, end, frames)
      /\ \A c \in 1 .. n : cmds[c].at \in 1 .. pos
      /\ FramesRead(source, pos, cmds, frames) /\ Progress(end)
  BY <1>1, ParseKnown
<1>4. /\ CommandAdded(frames[d].tail) /\ Len(frames') = d
      /\ CallExtended(frames, frames', d, m)
  BY AddWrites
<1>5. PICK par2, end2 : Grown(n, par, end, b, m + 1, par2, end2)
  BY DEF Grown
<1>6. /\ Len(cmds') = m
      /\ \A i \in 1 .. n : /\ cmds'[i].code = cmds[i].code /\ cmds'[i].goto = cmds[i].goto
                           /\ cmds'[i].next = IF i = frames[d].tail THEN m ELSE cmds[i].next
      /\ cmds'[m].code # "block" /\ cmds'[m].next = 0
  BY <1>1, <1>4, CompiledFields DEF CommandAdded, SameItem
<1>7. \A c \in 1 .. n : c \in Blocks' <=> c \in Blocks
  BY <1>2, <1>6 DEF Blocks
<1>8. nesting' \in Nat /\ nesting' = IF This.code = "block" THEN nesting + 1
                 ELSE IF This.code = "notEnd" THEN nesting - 1 ELSE nesting
  BY <1>1, <1>2 DEF NestingAfter, Closers
<1>9. TextFits(source', pos', nesting', cmds', end2)
  <2>1. m + 1 \in {0, m + 1} /\ m + 1 # 0 => This.code # "block"
    BY <1>1
  <2>2. This.code \in {"block", "label", "branch", "other", "notEnd"}
    BY <1>1
  <2>3. QED
    BY <1>1, <1>4, <1>5, <1>8, <2>1, <2>2, TextAdded, Zenon
<1>10. FramesRead(source', pos', cmds', frames')
  <2>1. Prolongs(cmds, cmds')
    BY <1>2, <1>4, CommandProlongs
  <2>2. \A k \in 1 .. d : frames'[k].block = frames[k].block
    BY <1>4 DEF CallExtended
  <2>3. source[pos + 1].code \notin {"block", "end"}
    BY <1>1, <1>2
  <2>4. Reads(source, pos, pos + 1, cmds, cmds') /\ SameBlocks(frames, frames', d)
    BY <1>2, <1>3, <1>4, <2>1, <2>2 DEF Reads, SameBlocks
  <2> DEFINE q == pos + 1
  <2>5. Reads(source, pos, q, cmds, cmds') /\ source[q].code \notin {"block", "end"}
    BY <2>3, <2>4
  <2>6. q # pos /\ pos' = q /\ d = Len(frames) /\ source' = source
    BY <1>1, <1>2
  <2> HIDE DEF q, d
  <2>7. FramesRead(source, q, cmds', frames')
    BY <1>2, <1>3, <1>4, <2>4, <2>5, <2>6, FramesReadOn, Zenon
  <2>8. QED
    BY <2>6, <2>7
<1> HIDE DEF n, d, m, b
<1>11. m + 1 \in {0, m + 1} /\ m + 1 # 0
  BY <1>2
<1>12. Tree(m, Blocks', par2, end2)
  BY <1>2, <1>3, <1>5, <1>7, <1>11, TreeGrows DEF d, b
<1>13. LinksAre(m, cmds', par2, end2, {})
  <2>1. LinksGrown(n, m + 1, frames[d].tail, cmds, cmds')
    BY <1>2, <1>6, <1>11 DEF LinksGrown
  <2> DEFINE e == m + 1
  <2>2. Grown(n, par, end, frames[d].block, e, par2, end2) /\ d = Len(frames)
        /\ LinksGrown(n, e, frames[d].tail, cmds, cmds') /\ e \in {0, m + 1}
    BY <1>5, <1>11, <2>1 DEF d, b
  <2> HIDE DEF e
  <2>3. Growth(n, m, Blocks, par, end, frames, d, e, par2, end2)
    BY <1>2, <1>3, <2>2 DEF Growth
  <2>4. LinksAre(n, cmds, par, end, {})
    BY <1>3
  <2>5. QED
    BY ONLY <2>2, <2>3, <2>4, LinksGrow, Zenon
<1>14. FramesFit(m, par2, end2, frames')
  BY <1>2, <1>3, <1>4, <1>5, FramesAdd DEF d, b
<1>15. Progress(end2)'
  BY <1>1, <1>3, ProgressWhileParsing
<1>16. QED
  BY <1>1, <1>6, <1>9, <1>10, <1>12, <1>13, <1>14, <1>15, ParseShown

LEMMA OpenMeaning ==
  ASSUME Inv, OpenBlock, NEW par, NEW end, Meaning(par, end)
  PROVE  \E par2, end2 : Meaning(par2, end2)'
<1> DEFINE n == Len(cmds)
           d == Len(frames)
           m == New
           b == frames[d].block
           zero == 0
           q == pos + 1
<1>1. /\ stage = "parse" /\ Compile /\ source' = source /\ pos' = q /\ stage' = "parse"
      /\ labels' = labels /\ ranges' = ranges /\ nesting' = nesting + 1
      /\ This.code = "block"
  BY DEF OpenBlock, Compile, Parsing
<1>2. /\ n \in Nat /\ d \in Nat \ {0} /\ m = n + 1 /\ nesting \in Nat /\ d = Len(frames)
      /\ This = source[q] /\ pos \in Nat /\ pos < Len(source) /\ Len(source) \in Nat
  BY <1>1, ParseTypes, NotRefused DEF New
<1>3. /\ Tree(n, Blocks, par, end) /\ LinksAre(n, cmds, par, end, {})
      /\ FramesFit(n, par, end, frames)
      /\ \A c \in 1 .. n : cmds[c].at \in 1 .. pos
      /\ FramesRead(source, pos, cmds, frames) /\ Progress(end)
  BY <1>1, ParseKnown
<1>4. /\ CommandAdded(0) /\ Len(frames') = d + 1
      /\ \A k \in 1 .. d : frames'[k] = frames[k]
      /\ frames'[d + 1].head = 0 /\ frames'[d + 1].tail = 0 /\ frames'[d + 1].block = m
  BY OpenWrites DEF Open
<1>5. PICK par2, end2 : Grown(n, par, end, b, 0, par2, end2)
  BY DEF Grown
<1>6. /\ Len(cmds') = m
      /\ \A i \in 1 .. n : /\ cmds'[i].code = cmds[i].code /\ cmds'[i].goto = cmds[i].goto
                           /\ cmds'[i].next = cmds[i].next
      /\ cmds'[m].code = "block" /\ cmds'[m].next = 0 /\ cmds'[m].goto = 0 /\ cmds'[m].at = q
  BY <1>1, <1>2, <1>4, CompiledFields DEF CommandAdded, SameItem
<1>7. (\A c \in 1 .. n : c \in Blocks' <=> c \in Blocks) /\ m \in Blocks'
  BY <1>2, <1>6 DEF Blocks
<1>8. TextFits(source', pos', nesting', cmds', end2)
  <2>1. 0 \in {0, New + 1} /\ (0 # 0 => This.code # "block") /\ nesting' \in Nat
    BY <1>1, <1>2
  <2>2. /\ This.code \in {"block", "label", "branch", "other", "notEnd"}
        /\ nesting' = IF This.code = "block" THEN nesting + 1
                      ELSE IF This.code = "notEnd" THEN nesting - 1 ELSE nesting
    BY <1>1
  <2>3. QED
    BY <1>1, <1>4, <1>5, <2>1, <2>2, TextAdded
<1>9. FramesRead(source', pos', cmds', frames')
  <2>1. Prolongs(cmds, cmds')
    BY <1>2, <1>4, CommandProlongs
  <2>2. SameBlocks(frames, frames', d)
    BY <1>4 DEF SameBlocks
  <2>3. Reads(source, pos, q, cmds, cmds') /\ q # pos /\ source[q].code = "block"
    BY <1>1, <1>2, <1>3, <2>1 DEF Reads
  <2>4. m \in 1 .. Len(cmds') /\ cmds'[m].at = q /\ frames'[d + 1].block = m
    BY <1>2, <1>4, <1>6
  <2>5. d \in Nat /\ d = Len(frames) /\ Len(frames') = d + 1
        /\ FramesRead(source, pos, cmds, frames)
    BY <1>2, <1>3, <1>4
  <2> HIDE DEF q, d, m
  <2>6. FramesRead(source, q, cmds', frames')
    BY ONLY <2>2, <2>3, <2>4, <2>5, FramesReadOpen, SMT
  <2>7. QED
    BY <1>1, <2>6
<1>10. Growth(n, m, Blocks, par, end, frames, d, zero, par2, end2)
  BY <1>2, <1>3, <1>5 DEF Growth
<1>11. LinksGrown(n, zero, frames[d].tail, cmds, cmds')
  BY <1>2, <1>6 DEF LinksGrown
<1>12. LinksAre(n, cmds, par, end, {}) /\ zero = 0
  BY <1>3
<1> HIDE DEF n, d, m, b, q, zero
<1>13. LinksAre(m, cmds', par2, end2, {})
  BY ONLY <1>10, <1>11, <1>12, LinksGrow, Zenon
<1>14. Tree(m, Blocks', par2, end2)
  BY <1>2, <1>3, <1>5, <1>7, TreeGrows DEF d, b
<1>15. FramesFit(m, par2, end2, frames')
  BY <1>2, <1>3, <1>4, <1>5, FramesOpen DEF d, b
<1>16. Progress(end2)'
  BY <1>1, <1>3, ProgressWhileParsing
<1>17. QED
  BY <1>1, <1>6, <1>8, <1>9, <1>13, <1>14, <1>15, <1>16, ParseShown

LEMMA SilenceMeaning ==
  ASSUME Inv, Silence, NEW par, NEW end, Meaning(par, end)
  PROVE  \E par2, end2 : Meaning(par2, end2)'
<1> DEFINE q == pos + 1
           d == Len(frames)
<1>1. /\ stage = "parse" /\ Compile /\ source' = source /\ pos' = q /\ stage' = "parse"
      /\ labels' = labels /\ ranges' = ranges /\ nesting' = nesting
      /\ cmds' = cmds /\ frames' = frames /\ This.code = "silence"
  BY DEF Silence, Compile, Parsing
<1>2. /\ d \in Nat /\ nesting \in Nat /\ d = Len(frames)
      /\ This = source[q] /\ pos \in Nat /\ pos < Len(source) /\ Len(source) \in Nat
      /\ This.addrs = 0
  BY <1>1, ParseTypes, NotRefused
<1>3. /\ Tree(Len(cmds), Blocks, par, end) /\ LinksAre(Len(cmds), cmds, par, end, {})
      /\ FramesFit(Len(cmds), par, end, frames)
      /\ \A c \in 1 .. Len(cmds) : cmds[c].at \in 1 .. pos
      /\ TextFits(source, pos, nesting, cmds, end)
      /\ FramesRead(source, pos, cmds, frames) /\ Progress(end)
  BY <1>1, ParseKnown
<1>4. TextFits(source, q, nesting, cmds, end)
  BY <1>1, <1>2, <1>3, TextPasses
<1>5. Reads(source, pos, q, cmds, cmds) /\ SameBlocks(frames, frames, d)
      /\ source[q].code \notin {"block", "end"} /\ q # pos
  BY <1>1, <1>2, <1>3 DEF Reads, SameBlocks, Prolongs, SameItem
<1>6. FramesRead(source, q, cmds, frames)
  <2>1. FramesRead(source, pos, cmds, frames)
    BY <1>3
  <2>2. d \in Nat /\ d = Len(frames)
    BY <1>2
  <2> HIDE DEF q, d
  <2>3. QED
    BY ONLY <1>5, <2>1, <2>2, FramesReadOn, Zenon
<1>7. Progress(end)'
  BY <1>1, <1>3, ProgressWhileParsing
<1>8. Blocks' = Blocks
  BY <1>1 DEF Blocks
<1>9. QED
  BY <1>1, <1>3, <1>4, <1>6, <1>7, <1>8, ParseShown

LEMMA InitMeaning == ASSUME Init PROVE \E par, end : Meaning(par, end)
<1> DEFINE none == [c \in 1 .. 0 |-> 0]
<1>1. /\ Len(cmds) = 0 /\ Len(frames) = 1 /\ stage = "parse" /\ pos = 0 /\ nesting = 0
      /\ frames[1].block = 0 /\ frames[1].head = 0 /\ frames[1].tail = 0
      /\ ranges = <<>> /\ \A l \in LabelName : labels[l] = 0
  BY DEF Init, Open
<1>2. Patched(none) = {} /\ LabelsDone(none) = {} /\ RangesDone(none) = {}
      /\ BranchesDone(none) = {}
  BY <1>1 DEF Patched, LabelsDone, RangesDone, BranchesDone, PassDone
<1>3. Tree(Len(cmds), Blocks, none, none)
  BY <1>1 DEF Tree
<1>4. LinksAre(Len(cmds), cmds, none, none, {})
  BY <1>1 DEF LinksAre
<1>5. FramesFit(Len(cmds), none, none, frames)
  BY <1>1 DEF FramesFit, Onward
<1>6. Graph(none, none)
  BY <1>1, <1>2, <1>3, <1>4, <1>5 DEF Graph, Pass
<1>7. Progress(none)
  BY <1>1, <1>2 DEF Progress
<1>8. FramesRead(source, pos, cmds, frames)
  BY <1>1 DEF FramesRead
<1>9. TextFits(source, pos, nesting, cmds, none)
  <2>1. Count(source, 1, 0, {"block"}) = 0 /\ Count(source, 1, 0, Closers) = 0
    BY CountNone
  <2>2. QED
    BY <1>1, <2>1 DEF TextFits
<1>10. QED
  BY <1>1, <1>6, <1>7, <1>8, <1>9 DEF Meaning, TextHolds

\* A call of compile_sequence returns, at a } or at the end of the script.
Returning ==
  /\ stage = "parse" /\ stage' = "parse" /\ Depth > 1 /\ BlockDone
  /\ source' = source /\ labels' = labels /\ ranges' = ranges
  /\ \/ /\ pos < Len(source) /\ pos' = pos + 1 /\ nesting > 0 /\ nesting' = nesting - 1
        /\ source[pos + 1].code = "end" /\ source[pos + 1].addrs = 0
     \/ pos = Len(source) /\ pos' = pos /\ nesting' = nesting

LEMMA ReturnMeaning ==
  ASSUME Inv, Returning, NEW par, NEW end, Meaning(par, end)
  PROVE  \E par2, end2 : Meaning(par2, end2)'
<1> DEFINE n == Len(cmds)
           d == Len(frames)
           e == d - 1
           b == frames[d].block
           j == IF pos' = pos THEN Len(source) + 1 ELSE pos'
<1>1. /\ stage = "parse" /\ source' = source /\ stage' = "parse"
      /\ labels' = labels /\ ranges' = ranges
  BY DEF Returning
<1>2. /\ n \in Nat /\ d \in Nat \ {0} /\ nesting \in Nat /\ d = Len(frames) /\ d > 1
      /\ pos \in Nat /\ Len(source) \in Nat /\ pos \in 0 .. Len(source)
      /\ n = Len(cmds) /\ d \in 1 .. d /\ d # 1 /\ e \in 1 .. d
  <2>1. /\ n \in Nat /\ d \in Nat \ {0} /\ nesting \in Nat /\ d > 1
        /\ pos \in Nat /\ Len(source) \in Nat
    BY <1>1, ParseTypes DEF Returning
  <2>2. pos <= Len(source)
    BY <1>1, ParseTypes DEF Returning
  <2> HIDE DEF d
  <2>3. d \in 1 .. d /\ d # 1 /\ e \in 1 .. d
    BY <2>1
  <2>4. pos \in 0 .. Len(source)
    BY <2>1, <2>2
  <2>5. QED
    BY <2>1, <2>3, <2>4 DEF d
<1>3. /\ Tree(n, Blocks, par, end) /\ LinksAre(n, cmds, par, end, {})
      /\ FramesFit(n, par, end, frames)
      /\ end \in [1 .. n -> 0 .. n + 1]
      /\ TextFits(source, pos, nesting, cmds, end)
      /\ \A c \in 1 .. n : cmds[c].at \in 1 .. pos
      /\ FramesRead(source, pos, cmds, frames) /\ Progress(end)
  BY <1>1, ParseKnown
<1>4. /\ Len(cmds') = n /\ Len(frames') = e
      /\ \A i \in 1 .. n :
           /\ SameItem(cmds[i], cmds'[i])
           /\ cmds'[i].goto = IF i = b THEN frames[d].head ELSE cmds[i].goto
           /\ cmds'[i].next = IF i = frames[e].tail THEN b ELSE cmds[i].next
      /\ CallExtended(frames, frames', e, b)
  BY <1>1, CloseWrites DEF Returning
<1>5. /\ b \in 1 .. n /\ end[b] = 0 /\ (par[b] = 0 \/ end[par[b]] = 0)
  <2>1. FrameFits(n, par, end, frames, d) /\ FrameFits(n, par, end, frames, e)
    BY <1>2, <1>3, EveryFrame
  <2>2. b \in 1 .. n /\ end[b] = 0 /\ par[b] = frames[e].block
    BY <1>2, <2>1 DEF FrameFits
  <2>3. frames[e].block = 0 \/ end[frames[e].block] = 0
    BY <2>1 DEF FrameFits
  <2>4. QED
    BY <2>2, <2>3
<1>6. \A c \in 1 .. n : c \in Blocks' <=> c \in Blocks
  BY <1>2, <1>4 DEF Blocks, SameItem
<1>7. Prolongs(cmds, cmds')
  BY <1>2, <1>4 DEF Prolongs
<1>8. /\ \/ pos' = pos + 1 /\ pos < Len(source) /\ source[pos'].code = "end"
            /\ source[pos'].addrs = 0
         \/ pos' = pos /\ pos = Len(source)
      /\ pos' \in Nat /\ nesting' \in Nat
      /\ nesting' = IF pos' = pos THEN nesting ELSE nesting - 1
  BY <1>2 DEF Returning
<1>9. Reads(source, pos, pos', cmds, cmds') /\ SameBlocks(frames, frames', e)
      /\ (pos' # pos => source[pos'].code = "end")
  BY <1>2, <1>3, <1>4, <1>7, <1>8 DEF Reads, SameBlocks, CallExtended
<1>10. /\ FramesRead(source, pos', cmds', frames')
       /\ Closes(source, cmds[b].at, j)
  <2>1. d \in Nat /\ d > 1 /\ d = Len(frames) /\ Len(frames') = d - 1
        /\ SameBlocks(frames, frames', d - 1) /\ FramesRead(source, pos, cmds, frames)
    BY <1>2, <1>3, <1>4, <1>9
  <2> HIDE DEF d
  <2>2. QED
    BY ONLY <1>9, <2>1, FramesReadClose, SMT
<1>11. cmds[b].code = "block"
  <2>1. b # 0 /\ d \in DOMAIN frames
    BY <1>2, <1>3, <1>5 DEF FramesRead
  <2>2. QED
    BY <2>1 DEF Inv, BlocksOpen
<1>0. PICK end2 : end2 = [end EXCEPT ![b] = n + 1]
  OBVIOUS
<1>12. TextClosing(source, pos, pos', n, cmds, cmds', nesting, nesting', end, b, j, end2)
  <2> HIDE DEF n, b
  <2>1. QED
    BY <1>2, <1>3, <1>4, <1>5, <1>7, <1>8, <1>10, <1>11, <1>0, Zenon DEF TextClosing
<1>13. LinksClosed(n, b, frames[d].head, frames[e].tail, cmds, cmds')
  BY <1>4 DEF LinksClosed, SameItem
<1>14. LinksClosed(n, b, frames[d].head, frames[d - 1].tail, cmds, cmds')
       /\ Len(frames') = d - 1 /\ CallExtended(frames, frames', d - 1, b)
  BY <1>4, <1>13
<1>15. b = frames[d].block
  OBVIOUS
<1> HIDE DEF n, d, e, b, j
<1>16. TextFits(source, pos', nesting', cmds', end2)
  <2>1. TextFits(source, pos, nesting, cmds, end)
    BY <1>3
  <2>2. QED
    BY ONLY <1>12, <2>1, TextCloses, Zenon
<1>17. Tree(n, Blocks', par, end2)
  <2>1. Tree(n, Blocks, par, end2)
    BY <1>2, <1>3, <1>5, <1>15, <1>0, TreeCloses
  <2>2. QED
    BY <1>6, <2>1 DEF Tree
<1>18. LinksAre(n, cmds', par, end2, {})
  <2>1. Closing(n, Blocks, par, end, frames, d, b, end2)
    BY <1>2, <1>3, <1>15, <1>0 DEF Closing
  <2>2. LinksAre(n, cmds, par, end, {})
    BY <1>3
  <2>3. QED
    BY ONLY <1>14, <2>1, <2>2, LinksClose, Zenon
<1>19. FramesFit(n, par, end2, frames')
  BY <1>2, <1>3, <1>14, <1>15, <1>0, FramesClose
<1>20. Progress(end2)'
  BY <1>1, <1>3, ProgressWhileParsing
<1>21. Meaning(par, end2)'
  BY <1>1, <1>4, <1>10, <1>16, <1>17, <1>18, <1>19, <1>20, ParseShown
<1>22. QED
  BY <1>21

LEMMA CloseMeaning ==
  ASSUME Inv, CloseBlock, NEW par, NEW end, Meaning(par, end)
  PROVE  \E par2, end2 : Meaning(par2, end2)'
<1>1. /\ stage = "parse" /\ Compile /\ source' = source /\ pos' = pos + 1 /\ stage' = "parse"
      /\ labels' = labels /\ ranges' = ranges /\ nesting' = NestingAfter
      /\ This.code = "end" /\ BlockDone
  BY DEF CloseBlock, Compile, Parsing
<1>2. /\ This = source[pos + 1] /\ pos < Len(source) /\ This.addrs = 0 /\ nesting > 0
      /\ nesting' = nesting - 1
  BY <1>1, NotRefused DEF Closers, NestingAfter
<1>3. Depth > 1
  <2>1. nesting < Depth /\ nesting \in Nat /\ Depth \in Nat
    BY <1>1, <1>2, ParseTypes DEF Inv, ClosesInside, Depth
  <2>2. QED
    BY <1>2, <2>1
<1>4. Returning
  BY <1>1, <1>2, <1>3 DEF Returning
<1>5. QED
  BY <1>4, ReturnMeaning

LEMMA EndOfBlockMeaning ==
  ASSUME Inv, EndOfBlock, NEW par, NEW end, Meaning(par, end)
  PROVE  \E par2, end2 : Meaning(par2, end2)'
<1>1. Returning
  BY DEF EndOfBlock, Returning
<1>2. QED
  BY <1>1, ReturnMeaning

-----------------------------------------------------------------------------
(* The passes, and what the text determines.                               *)

LEMMA PassKnown ==
  ASSUME Inv, stage \in Pass, NEW par, NEW end, Meaning(par, end)
  PROVE  /\ Len(cmds) \in Nat /\ Tree(Len(cmds), Blocks, par, end) /\ Closed(Len(cmds), end)
         /\ LinksAre(Len(cmds), cmds, par, end, Patched(end))
         /\ WalkFits(Len(cmds), par, walk)
         /\ Len(walk) \in Nat \ {0} /\ Level = walk[Len(walk)]
         /\ par \in [1 .. Len(cmds) -> 0 .. Len(cmds)]
         /\ end \in [1 .. Len(cmds) -> 0 .. Len(cmds) + 1]
         /\ Top = (IF Len(cmds) = 0 THEN 0 ELSE 1)
         /\ stage = "patch" =>
              \A k \in 1 .. Len(walk) : ParentFits(Len(cmds), end, walk, k)
         /\ TextFits(source, pos, nesting, cmds, end) /\ pos = Len(source)
         /\ Progress(end)
<1>1. stage # "parse"
  BY DEF Pass
<1>2. Graph(par, end) /\ Progress(end) /\ TextHolds(end)
  BY DEF Meaning
<1>3. /\ Tree(Len(cmds), Blocks, par, end) /\ Closed(Len(cmds), end)
      /\ LinksAre(Len(cmds), cmds, par, end, Patched(end))
      /\ WalkFits(Len(cmds), par, walk)
      /\ Top = (IF Len(cmds) = 0 THEN 0 ELSE 1)
      /\ stage = "patch" =>
           \A k \in 1 .. Len(walk) : ParentFits(Len(cmds), end, walk, k)
  BY <1>1, <1>2, Zenon DEF Graph
<1>4. TextFits(source, pos, nesting, cmds, end) /\ pos = Len(source)
  BY <1>1, <1>2 DEF TextHolds
<1>5. Len(cmds) \in Nat /\ Len(walk) \in Nat \ {0} /\ Level = walk[Len(walk)]
  BY PassTypes DEF Level
<1>6. /\ par \in [1 .. Len(cmds) -> 0 .. Len(cmds)]
      /\ end \in [1 .. Len(cmds) -> 0 .. Len(cmds) + 1]
  BY <1>3 DEF Tree
<1>7. QED
  BY <1>2, <1>3, <1>4, <1>5, <1>6

\* How it is shown of the next state of a pass, or after the last one.
LEMMA PassShown ==
  ASSUME Inv, stage \in Pass, NEW par, NEW end, Meaning(par, end),
         stage' \in Pass \cup {"done"}, source' = source, frames' = frames,
         pos' = pos, nesting' = nesting,
         Len(cmds') = Len(cmds), \A c \in 1 .. Len(cmds) : SameItem(cmds[c], cmds'[c]),
         LinksAre(Len(cmds), cmds', par, end, Patched(end)'),
         stage' \in Pass => WalkFits(Len(cmds), par, walk'),
         stage' = "patch" =>
           \A k \in 1 .. Len(walk') : ParentFits(Len(cmds), end, walk', k),
         Progress(end)'
  PROVE  Meaning(par, end)'
<1>1. stage' # "parse"
  BY DEF Pass
<1>2. /\ Tree(Len(cmds), Blocks, par, end) /\ Closed(Len(cmds), end)
      /\ Top = (IF Len(cmds) = 0 THEN 0 ELSE 1)
      /\ TextFits(source, pos, nesting, cmds, end) /\ pos = Len(source)
      /\ Len(cmds) \in Nat
  BY PassKnown
<1>3. Blocks' = Blocks
  BY DEF Blocks, SameItem
<1>4. Top' = Top
  BY DEF Top
<1>5. Tree(Len(cmds)', Blocks', par, end) /\ Closed(Len(cmds)', end)
      /\ Top' = (IF Len(cmds)' = 0 THEN 0 ELSE 1)
  BY <1>2, <1>3, <1>4
<1>6. LinksAre(Len(cmds)', cmds', par, end, Patched(end)')
  OBVIOUS
<1>7. Graph(par, end)'
  BY <1>1, <1>5, <1>6 DEF Graph
<1>8. Prolongs(cmds, cmds')
  BY DEF Prolongs
<1>9. TextFits(source, pos, nesting, cmds', end)
  BY <1>2, <1>8, TextKept
<1>10. TextHolds(end)'
  BY <1>1, <1>2, <1>9 DEF TextHolds
<1>11. QED
  BY <1>7, <1>10 DEF Meaning

\* The command c that a pass is at.
IsAt(n, par, end, c) ==
  /\ n \in Nat /\ c \in 1 .. n /\ At = cmds[c]
  /\ par[c] \in 0 .. n /\ end[c] \in c + 1 .. n + 1
  /\ (Body = 0 /\ end[c] = c + 1) \/ (Body = c + 1 /\ end[c] # c + 1)
  /\ At.next = OwnNext(n, par, end, c)
  /\ Len(walk) = 1 => par[c] = 0
  /\ Len(walk) # 1 => par[c] = walk[Len(walk) - 1].at

LEMMA AtCommand ==
  ASSUME Inv, stage \in Pass, NEW par, NEW end, Meaning(par, end),
         NEW n, n = Len(cmds), NEW c, c = Level.at, c # 0
  PROVE  IsAt(n, par, end, c)
<1> DEFINE d == Len(walk)
<1>1. /\ n \in Nat /\ Tree(n, Blocks, par, end) /\ Closed(n, end)
      /\ LinksAre(n, cmds, par, end, Patched(end))
      /\ WalkFits(n, par, walk) /\ d \in Nat \ {0} /\ Level = walk[d]
      /\ par \in [1 .. n -> 0 .. n] /\ end \in [1 .. n -> 0 .. n + 1]
  BY PassKnown
<1>2. d \in 1 .. d /\ CallFits(n, par, walk, d)
  BY <1>1 DEF WalkFits
<1>3. /\ c \in 1 .. n /\ At = cmds[c] /\ par[c] = (IF d = 1 THEN 0 ELSE walk[d - 1].at)
      /\ par[c] \in 0 .. n
  BY <1>1, <1>2 DEF CallFits, At
<1>4. end[c] \in c + 1 .. n + 1
  <2>1. end[c] # 0 /\ end[c] \in 0 .. n + 1
    BY <1>1, <1>3 DEF Closed
  <2>2. c < end[c]
    BY <1>1, <1>3, <2>1 DEF Tree
  <2>3. QED
    BY <1>3, <2>1, <2>2
<1>5. (Body = 0 /\ end[c] = c + 1) \/ (Body = c + 1 /\ end[c] # c + 1)
  <2>1. CASE cmds[c].code = "block"
    <3>1. Body = GotoOf(end, c)
      BY <1>1, <1>3, <2>1 DEF LinksAre, Body
    <3>2. end[c] # 0 /\ c + 1 # 0
      BY <1>3, <1>4
    <3>3. QED
      BY <3>1, <3>2 DEF GotoOf
  <2>2. CASE cmds[c].code # "block"
    <3>1. c \notin Blocks /\ Body = 0
      BY <1>3, <2>2 DEF Blocks, Body
    <3>2. end[c] = c + 1
      BY <1>1, <1>3, <3>1 DEF Tree
    <3>3. QED
      BY <3>1, <3>2
  <2>3. QED
    BY <2>1, <2>2
<1>6. par[c] \notin Patched(end)
  <2>1. CASE stage = "patch"
    <3>1. Patched(end) = Visited(n, end, walk)
      BY <2>1 DEF Patched, PassDone
    <3>2. CASE d = 1
      BY <1>3, <3>1, <3>2 DEF Visited
    <3>3. CASE d # 1
      <4>1. d - 1 \in 1 .. d /\ d - 1 < d
        <5>1. PICK x \in Nat \ {0, 1} : x = d
          BY <1>1, <3>3
        <5>2. x - 1 \in 1 .. x /\ x - 1 < x
          OBVIOUS
        <5>3. QED
          BY <5>1, <5>2
      <4>2. CallFits(n, par, walk, d - 1)
        BY <1>1, <4>1 DEF WalkFits
      <4>3. walk[d - 1].entered = TRUE /\ walk[d - 1].at = par[c]
        BY <1>3, <3>3, <4>1, <4>2 DEF CallFits
      <4>4. IsPending(walk, par[c])
        BY <4>1, <4>3 DEF IsPending
      <4>5. QED
        BY <3>1, <4>4 DEF Visited
    <3>4. QED
      BY <3>2, <3>3
  <2>2. CASE stage # "patch"
    <3>1. Patched(end) = {}
      BY <2>2 DEF Patched, PassDone, Pass
    <3>2. QED
      BY <3>1
  <2>3. QED
    BY <2>1, <2>2
<1>7. At.next = OwnNext(n, par, end, c)
  <2>1. At.next = NextOf(n, par, end, Patched(end), c)
    BY <1>1, <1>3 DEF LinksAre
  <2>2. QED
    BY <1>1, <1>3, <1>6, <2>1, UnpatchedNext
<1>8. QED
  BY <1>1, <1>3, <1>4, <1>5, <1>7 DEF IsAt

\* A pass is done with its command.
LEMMA Visits ==
  ASSUME Inv, Visiting, ToNext, NEW par, NEW end, Meaning(par, end), NEW n, n = Len(cmds)
  PROVE  /\ WalkFits(n, par, walk')
         /\ Level.at \in 1 .. n /\ Level.at \notin Visited(n, end, walk)
         /\ Visited(n, end, walk') = Visited(n, end, walk) \cup {Level.at}
         /\ stage = "patch" => \A k \in 1 .. Len(walk') : ParentFits(n, end, walk', k)
<1> DEFINE d == Len(walk)
           c == Level.at
<1>1. stage \in Pass /\ c # 0 /\ (Body = 0 \/ Level.entered)
  BY DEF Visiting
<1>2. /\ n \in Nat /\ Tree(n, Blocks, par, end) /\ Closed(n, end)
      /\ WalkFits(n, par, walk) /\ d \in Nat \ {0} /\ Level = walk[d] /\ d = Len(walk)
      /\ stage = "patch" => \A k \in 1 .. d : ParentFits(n, end, walk, k)
  BY <1>1, PassKnown
<1>3. /\ Body = 0 => end[c] = c + 1
      /\ At.next = OwnNext(n, par, end, c)
  BY <1>1, AtCommand DEF IsAt
<1>4. /\ Len(walk') = d /\ \A k \in 1 .. d - 1 : walk'[k] = walk[k]
      /\ walk'[d].at = OwnNext(n, par, end, c) /\ walk'[d].entered = FALSE
      /\ walk'[d].parent = walk[d].parent
  BY <1>1, <1>2, <1>3, NextWalks
<1>5. c = walk[d].at /\ (walk[d].entered = TRUE \/ end[c] = c + 1)
  <2>1. CASE Body = 0
    BY <1>2, <1>3, <2>1
  <2>2. CASE Level.entered
    <3>1. Level.entered \in BOOLEAN
      <4>1. CallFits(n, par, walk, d)
        BY <1>2 DEF WalkFits
      <4>2. QED
        BY <1>2, <4>1 DEF CallFits
    <3>2. Level.entered = TRUE
      BY <2>2, <3>1, Zenon
    <3>3. QED
      BY <1>2, <3>2
  <2>3. QED
    BY <1>1, <2>1, <2>2
<1>6. ASSUME stage = "patch", NEW k \in 1 .. d PROVE ParentFits(n, end, walk', k)
  <2>1. ParentFits(n, end, walk, k)
    BY <1>2, <1>6
  <2>2. /\ walk'[k].parent = walk[k].parent
        /\ k # 1 => k - 1 \in 1 .. d - 1 /\ walk'[k - 1] = walk[k - 1]
    BY <1>2, <1>4
  <2>3. QED
    BY <2>1, <2>2 DEF ParentFits
<1> HIDE DEF c, d
<1>7. /\ WalkFits(n, par, walk')
      /\ c \in 1 .. n /\ c \notin Visited(n, end, walk)
      /\ Visited(n, end, walk') = Visited(n, end, walk) \cup {c}
  <2>1. WalkAt(n, Blocks, par, end, walk, d, c)
    BY <1>1, <1>2, <1>5 DEF WalkAt
  <2>2. WalksOn(n, par, end, walk, d, c, walk')
    BY <1>4, <1>5 DEF WalksOn
  <2>3. QED
    BY ONLY <2>1, <2>2, WalkNext, SMT
<1>8. QED
  BY <1>4, <1>6, <1>7 DEF c

LEMMA PassEnds ==
  ASSUME Inv, Ended, NEW par, NEW end, Meaning(par, end), NEW n, n = Len(cmds)
  PROVE  Visited(n, end, walk) = 1 .. n
<1>1. stage \in Pass /\ Level.at = 0 /\ Len(walk) = 1
  BY DEF Ended
<1>2. n \in Nat /\ WalkFits(n, par, walk) /\ walk[1].at = 0
  BY <1>1, PassKnown
<1>3. QED
  BY <1>1, <1>2, WalkEnded

LEMMA PassStarts ==
  ASSUME NEW n \in Nat, NEW par, NEW end, Tree(n, Blocks, par, end), Restart,
         Top = (IF n = 0 THEN 0 ELSE 1)
  PROVE  /\ WalkFits(n, par, walk') /\ Visited(n, end, walk') = {}
         /\ \A k \in 1 .. Len(walk') : ParentFits(n, end, walk', k)
<1>1. /\ Len(walk') = 1 /\ walk'[1].entered = FALSE /\ walk'[1].parent = 0
      /\ walk'[1].at = IF n = 0 THEN 0 ELSE 1
  BY DEF Restart, Call
<1>2. WalkFits(n, par, walk') /\ Visited(n, end, walk') = {}
  BY <1>1, WalkStarts
<1>3. QED
  BY <1>1, <1>2 DEF ParentFits

\* A pass calls itself for a body, or returns.
LEMMA SpliceFollows ==
  ASSUME Inv, stage = "patch", NEW par, NEW end, Meaning(par, end),
         NEW n, n = Len(cmds), NEW c, c = Level.at, c # 0
  PROVE  Splice = Follow(n, end, c)
<1> DEFINE d == Len(walk)
<1>0. stage \in Pass
  BY DEF Pass
<1>1. /\ n \in Nat /\ c \in 1 .. n
      /\ par[c] \in 0 .. n /\ end[c] \in c + 1 .. n + 1
      /\ At.next = OwnNext(n, par, end, c)
      /\ d = 1 => par[c] = 0
      /\ d # 1 => par[c] = walk[d - 1].at
  BY <1>0, AtCommand DEF IsAt
<1>2. /\ Tree(n, Blocks, par, end) /\ Closed(n, end)
      /\ d \in Nat \ {0} /\ Level = walk[d] /\ d \in 1 .. d
      /\ ParentFits(n, end, walk, d)
  BY <1>0, PassKnown
<1>3. Level.parent = IF d = 1 THEN 0 ELSE Follow(n, end, par[c])
  BY <1>1, <1>2 DEF ParentFits
<1>4. NextFits(n, par, end, c, OwnNext(n, par, end, c))
  BY <1>1, <1>2, OwnNextFits
<1>5. CASE At.next # 0
  <2>1. At.next = end[c] /\ At.next \in 0 .. n
    BY <1>1, <1>4, <1>5 DEF NextFits
  <2>2. QED
    BY <1>1, <1>5, <2>1 DEF Splice, Follow
<1>6. CASE At.next = 0
  <2>1. end[c] = IF par[c] = 0 THEN n + 1 ELSE end[par[c]]
    BY <1>1, <1>4, <1>6 DEF NextFits
  <2>2. CASE d = 1
    BY <1>1, <1>3, <1>6, <2>1, <2>2 DEF Splice, Follow
  <2>3. CASE d # 1
    <3>1. par[c] # 0
      <4>1. d - 1 \in 1 .. d /\ d - 1 < d
        <5>1. PICK x \in Nat \ {0, 1} : x = d
          BY <1>2, <2>3
        <5>2. x - 1 \in 1 .. x /\ x - 1 < x
          OBVIOUS
        <5>3. QED
          BY <5>1, <5>2
      <4>2. CallFits(n, par, walk, d - 1)
        BY <1>0, <4>1, PassKnown DEF WalkFits
      <4>3. walk[d - 1].entered = TRUE /\ walk[d - 1].at # 0
        BY <1>2, <4>1, <4>2 DEF CallFits
      <4>4. QED
        BY <1>1, <2>3, <4>3
    <3>2. QED
      BY <1>3, <1>6, <2>1, <2>3, <3>1 DEF Splice, Follow
  <2>4. QED
    BY <2>2, <2>3
<1>7. QED
  BY <1>5, <1>6

\* What a pass has found out does not change while it moves on.
LEMMA PassGoesOn ==
  ASSUME Inv, stage \in Pass, NEW par, NEW end, Meaning(par, end),
         UNCHANGED <<source, stage, parseVars, cmds, labels, ranges>>,
         WalkFits(Len(cmds), par, walk'),
         Visited(Len(cmds), end, walk') = Visited(Len(cmds), end, walk),
         stage = "patch" =>
           \A k \in 1 .. Len(walk') : ParentFits(Len(cmds), end, walk', k)
  PROVE  Meaning(par, end)'
<1>1. /\ source' = source /\ stage' = stage /\ pos' = pos /\ nesting' = nesting
      /\ frames' = frames /\ cmds' = cmds /\ labels' = labels /\ ranges' = ranges
  BY DEF parseVars
<1>2. /\ LabelsDone(end)' = LabelsDone(end) /\ RangesDone(end)' = RangesDone(end)
      /\ BranchesDone(end)' = BranchesDone(end) /\ Patched(end)' = Patched(end)
  BY <1>1 DEF LabelsDone, RangesDone, BranchesDone, Patched, PassDone
<1>3. Progress(end)'
  <2>1. Progress(end)
    BY PassKnown
  <2>2. QED
    BY <1>1, <1>2, <2>1 DEF Progress
<1>4. LinksAre(Len(cmds), cmds', par, end, Patched(end)')
  BY <1>1, <1>2, PassKnown
<1>5. /\ Len(cmds') = Len(cmds)
      /\ \A c \in 1 .. Len(cmds) : SameItem(cmds[c], cmds'[c])
  BY <1>1 DEF SameItem
<1>6. QED
  BY <1>1, <1>3, <1>4, <1>5, PassShown

LEMMA DescendMeaning ==
  ASSUME Inv, Descend, NEW par, NEW end, Meaning(par, end)
  PROVE  Meaning(par, end)'
<1> DEFINE n == Len(cmds)
           d == Len(walk)
           c == Level.at
<1>1. /\ stage \in Pass /\ c # 0 /\ Body # 0 /\ ~Level.entered
      /\ UNCHANGED <<source, stage, parseVars, cmds, labels, ranges>>
  BY DEF Descend
<1>2. /\ n \in Nat /\ Tree(n, Blocks, par, end) /\ Closed(n, end)
      /\ WalkFits(n, par, walk) /\ d \in Nat \ {0} /\ Level = walk[d] /\ d = Len(walk)
      /\ stage = "patch" => \A k \in 1 .. d : ParentFits(n, end, walk, k)
  BY <1>1, PassKnown
<1>3. Body = c + 1 /\ end[c] # c + 1
  <2>1. IsAt(n, par, end, c)
    BY <1>1, AtCommand
  <2>2. QED
    BY <1>1, <2>1 DEF IsAt
<1>4. /\ Len(walk') = d + 1 /\ \A k \in 1 .. d - 1 : walk'[k] = walk[k]
      /\ walk'[d].at = c /\ walk'[d].entered = TRUE
      /\ walk'[d].parent = walk[d].parent
      /\ walk'[d + 1].at = c + 1 /\ walk'[d + 1].entered = FALSE
      /\ walk'[d + 1].parent = IF stage = "patch" THEN Splice ELSE 0
  BY <1>2, <1>3, DescendWalks
<1>5. c = walk[d].at /\ walk[d].entered # TRUE
  BY <1>1, <1>2
<1>6. ASSUME stage = "patch", NEW k \in 1 .. d + 1 PROVE ParentFits(n, end, walk', k)
  <2>1. CASE k \in 1 .. d
    <3>1. ParentFits(n, end, walk, k)
      BY <1>2, <1>6, <2>1
    <3>2. /\ walk'[k].parent = walk[k].parent
          /\ k # 1 => k - 1 \in 1 .. d - 1 /\ walk'[k - 1] = walk[k - 1]
      BY <1>2, <1>4, <2>1
    <3>3. QED
      BY <3>1, <3>2 DEF ParentFits
  <2>2. CASE k = d + 1
    <3>1. Splice = Follow(n, end, c)
      BY <1>1, <1>6, SpliceFollows
    <3>2. k # 1 /\ k - 1 = d
      BY <1>2, <2>2
    <3>3. walk'[k].parent = Follow(n, end, walk'[k - 1].at)
      BY <1>4, <1>6, <2>2, <3>1, <3>2
    <3>4. QED
      BY <3>2, <3>3 DEF ParentFits
  <2>3. QED
    BY <1>2, <2>1, <2>2
<1> HIDE DEF c, d
<1>7. WalkFits(n, par, walk') /\ Visited(n, end, walk') = Visited(n, end, walk)
  <2>1. WalkAt(n, Blocks, par, end, walk, d, c)
    BY <1>1, <1>2, <1>5 DEF WalkAt
  <2>2. WalksInto(end, walk, d, c, walk')
    BY <1>3, <1>4, <1>5 DEF WalksInto
  <2> HIDE DEF n
  <2>3. QED
    BY ONLY <2>1, <2>2, WalkDescend, SMT
<1>8. QED
  BY <1>1, <1>4, <1>6, <1>7, PassGoesOn

LEMMA AscendMeaning ==
  ASSUME Inv, Ascend, NEW par, NEW end, Meaning(par, end)
  PROVE  Meaning(par, end)'
<1> DEFINE n == Len(cmds)
           d == Len(walk)
<1>1. /\ stage \in Pass /\ Level.at = 0
      /\ UNCHANGED <<source, stage, parseVars, cmds, labels, ranges>>
  BY DEF Ascend
<1>2. /\ n \in Nat
      /\ WalkFits(n, par, walk) /\ d \in Nat \ {0} /\ Level = walk[d] /\ d = Len(walk)
      /\ stage = "patch" => \A k \in 1 .. d : ParentFits(n, end, walk, k)
  BY <1>1, PassKnown
<1>3. /\ d > 1 /\ Len(walk') = d - 1 /\ \A k \in 1 .. d - 1 : walk'[k] = walk[k]
  BY AscendWalks
<1>4. walk[d].at = 0 /\ d \in Nat
  BY <1>1, <1>2
<1>5. ASSUME stage = "patch", NEW k \in 1 .. d - 1 PROVE ParentFits(n, end, walk', k)
  <2>1. ParentFits(n, end, walk, k)
    BY <1>2, <1>5
  <2>2. walk'[k] = walk[k] /\ (k # 1 => k - 1 \in 1 .. d - 1 /\ walk'[k - 1] = walk[k - 1])
    BY <1>2, <1>3
  <2>3. QED
    BY <2>1, <2>2 DEF ParentFits
<1> HIDE DEF d
<1>6. WalkFits(n, par, walk') /\ Visited(n, end, walk') = Visited(n, end, walk)
  <2>1. WalksOut(n, par, walk, d, walk')
    BY <1>2, <1>3, <1>4 DEF WalksOut
  <2> HIDE DEF n
  <2>2. QED
    BY ONLY <2>1, WalkAscend, SMT
<1>7. QED
  BY <1>1, <1>3, <1>5, <1>6, PassGoesOn

\* A : has a label.
LEMMA LabelGiven ==
  ASSUME Inv, stage \in Pass, NEW par, NEW end, Meaning(par, end),
         NEW c \in 1 .. Len(cmds), cmds[c].code = "label"
  PROVE  cmds[c].label \in LabelName
<1>1. /\ cmds[c] \in Command(Len(cmds), pos)
  BY PassTypes
<1>2. cmds[c].at \in 1 .. pos /\ cmds[c].label \in LabelName \cup {NoLabel}
  BY <1>1 DEF Command
<1>3. TextFits(source, pos, nesting, cmds, end)
  BY PassKnown
<1>4. CommandFits(source, cmds, c) /\ ItemFits(source, cmds, cmds[c].at)
  BY <1>2, <1>3 DEF TextFits
<1>5. source[cmds[c].at].code = "label" /\ source[cmds[c].at].label = cmds[c].label
  BY <1>4 DEF CommandFits
<1>6. cmds[c].label # NoLabel
  BY <1>4, <1>5, Zenon DEF ItemFits
<1>7. QED
  BY <1>2, <1>6

LEMMA PopulateLabelMeaning ==
  ASSUME Inv, PopulateLabel, NEW par, NEW end, Meaning(par, end)
  PROVE  Meaning(par, end)'
<1> DEFINE n == Len(cmds)
           c == Level.at
           l == cmds[c].label
<1>1. /\ stage = "labels" /\ stage' = "labels" /\ Visiting /\ ToNext /\ ~IsDuplicate
      /\ source' = source /\ pos' = pos /\ nesting' = nesting /\ frames' = frames
      /\ cmds' = cmds /\ ranges' = ranges /\ c # 0
      /\ labels' = IF At.code = "label" THEN [labels EXCEPT ![At.label] = c] ELSE labels
  BY DEF PopulateLabel, parseVars, Visiting
<1>2. stage \in Pass /\ stage' \in Pass \cup {"done"}
  BY <1>1 DEF Pass
<1>3. /\ WalkFits(n, par, walk') /\ c \in 1 .. n /\ c \notin Visited(n, end, walk)
      /\ Visited(n, end, walk') = Visited(n, end, walk) \cup {c}
  BY <1>1, Visits
<1>4. /\ LinksAre(n, cmds, par, end, Patched(end)) /\ Progress(end)
      /\ At = cmds[c] /\ labels \in [LabelName -> 0 .. n] /\ n \in Nat
  BY <1>2, PassKnown, PassTypes DEF At
<1>5. /\ Patched(end) = {} /\ Patched(end)' = {} /\ RangesDone(end) = {} /\ RangesDone(end)' = {}
      /\ BranchesDone(end)' = {}
      /\ LabelsDone(end) = Visited(n, end, walk)
      /\ LabelsDone(end)' = Visited(n, end, walk) \cup {c}
  BY <1>1, <1>3 DEF Patched, RangesDone, BranchesDone, LabelsDone, PassDone
<1>6. cmds[c].code = "label" => l \in LabelName /\ labels[l] = 0
  BY <1>1, <1>2, <1>3, <1>4, LabelGiven DEF IsDuplicate
<1>7. /\ cmds[c].code = "label" => labels' = [labels EXCEPT ![l] = c]
      /\ cmds[c].code # "label" => labels' = labels
  BY <1>1, <1>4
<1>8. \A x \in Visited(n, end, walk) : x # 0 /\ x \in 1 .. n
  BY <1>4 DEF Visited
<1> HIDE DEF n, c
<1>9. ASSUME NEW k \in LabelName, labels'[k] # 0 PROVE labels'[k] \in LabelsDone(end)'
  <2>1. CASE cmds[c].code = "label" /\ k = l
    <3>1. labels'[k] = c
      BY <1>4, <1>6, <1>7, <2>1
    <3>2. QED
      BY <1>5, <3>1
  <2>2. CASE ~(cmds[c].code = "label" /\ k = l)
    <3>1. labels'[k] = labels[k]
      BY <1>4, <1>7, <2>2
    <3>2. labels[k] \in LabelsDone(end)
      BY <1>4, <1>9, <3>1 DEF Progress
    <3>3. QED
      BY <1>5, <3>1, <3>2
  <2>3. QED
    BY <2>1, <2>2
<1>10. ASSUME NEW x \in LabelsDone(end)', cmds[x].code = "label"
       PROVE  labels'[cmds[x].label] = x
  <2>1. CASE x = c
    BY <1>4, <1>6, <1>7, <1>10, <2>1
  <2>2. CASE x # c
    <3>1. x \in LabelsDone(end) /\ x # 0
      BY <1>5, <1>8, <1>10, <2>2
    <3>2. labels[cmds[x].label] = x
      BY <1>4, <1>10, <3>1 DEF Progress
    <3>3. cmds[c].code = "label" => cmds[x].label # l
      BY <1>6, <3>1, <3>2
    <3>4. cmds[x].label \in LabelName
      BY <1>2, <1>5, <1>8, <1>10, <3>1, LabelGiven DEF n
    <3>5. QED
      BY <1>4, <1>7, <3>2, <3>3, <3>4
  <2>3. QED
    BY <2>1, <2>2
<1>11. Progress(end)'
  <2>1. /\ \A i \in DOMAIN ranges : ranges[i] \notin 1 .. n
    BY <1>4, <1>5 DEF Progress, n
  <2>2. (\A k \in LabelName : labels[k] # 0 => labels[k] \in LabelsDone(end))'
    BY <1>9
  <2>3. (\A x \in LabelsDone(end) : cmds[x].code = "label" => labels[cmds[x].label] = x)'
    BY <1>1, <1>10
  <2>4. (\A x \in 1 .. Len(cmds) :
           (\E i \in DOMAIN ranges : ranges[i] = x) <=> x \in RangesDone(end) /\ cmds[x].addrs = 2)'
    BY <1>1, <1>5, <2>1 DEF n
  <2>5. (\A i, j \in DOMAIN ranges : ranges[i] = ranges[j] => i = j)'
    BY <1>1, <1>4 DEF Progress
  <2>6. QED
    BY <1>1, <1>5, <2>2, <2>3, <2>4, <2>5 DEF Progress
<1>12. /\ Len(cmds') = Len(cmds) /\ \A x \in 1 .. Len(cmds) : SameItem(cmds[x], cmds'[x])
       /\ LinksAre(Len(cmds), cmds', par, end, Patched(end)')
       /\ stage' # "patch" /\ WalkFits(Len(cmds), par, walk')
  BY <1>1, <1>3, <1>4, <1>5 DEF SameItem, n
<1>13. QED
  BY <1>1, <1>2, <1>11, <1>12, PassShown

LEMMA PopulateRangeMeaning ==
  ASSUME Inv, PopulateRange, NEW par, NEW end, Meaning(par, end)
  PROVE  Meaning(par, end)'
<1> DEFINE n == Len(cmds)
           c == Level.at
           m == Len(ranges)
<1>1. /\ stage = "ranges" /\ stage' = "ranges" /\ Visiting /\ ToNext
      /\ source' = source /\ pos' = pos /\ nesting' = nesting /\ frames' = frames
      /\ cmds' = cmds /\ labels' = labels /\ c # 0
      /\ ranges' = IF At.addrs = 2 THEN Append(ranges, c) ELSE ranges
  BY DEF PopulateRange, parseVars, Visiting, IsRangeCommand
<1>2. stage \in Pass /\ stage' \in Pass \cup {"done"}
  BY <1>1 DEF Pass
<1>3. /\ WalkFits(n, par, walk') /\ c \in 1 .. n /\ c \notin Visited(n, end, walk)
      /\ Visited(n, end, walk') = Visited(n, end, walk) \cup {c}
  BY <1>1, Visits
<1>4. /\ LinksAre(n, cmds, par, end, Patched(end)) /\ Progress(end)
      /\ At = cmds[c] /\ ranges \in Seq(1 .. n) /\ n \in Nat /\ m \in Nat
      /\ DOMAIN ranges = 1 .. m
  BY <1>2, PassKnown, PassTypes DEF At
<1>5. /\ Patched(end) = {} /\ Patched(end)' = {}
      /\ RangesDone(end) = Visited(n, end, walk)
      /\ RangesDone(end)' = Visited(n, end, walk) \cup {c}
      /\ BranchesDone(end)' = {}
      /\ LabelsDone(end) = 1 .. n /\ LabelsDone(end)' = 1 .. n
  BY <1>1, <1>3 DEF Patched, RangesDone, BranchesDone, LabelsDone, PassDone
<1>6. \A i \in 1 .. m : ranges[i] \in 1 .. n
  BY <1>4
<1>7. /\ \A x \in 1 .. n :
           (\E i \in 1 .. m : ranges[i] = x) <=> x \in Visited(n, end, walk) /\ cmds[x].addrs = 2
      /\ \A i, j \in 1 .. m : ranges[i] = ranges[j] => i = j
  <2>1. \A x \in 1 .. n :
          (\E i \in DOMAIN ranges : ranges[i] = x) <=> x \in RangesDone(end) /\ cmds[x].addrs = 2
    BY <1>4, Zenon DEF Progress
  <2>2. \A i, j \in DOMAIN ranges : ranges[i] = ranges[j] => i = j
    BY <1>4, Zenon DEF Progress
  <2>3. DOMAIN ranges = 1 .. m /\ RangesDone(end) = Visited(n, end, walk)
    BY <1>4, <1>5
  <2> HIDE DEF n, m
  <2>4. QED
    BY ONLY <2>1, <2>2, <2>3, Zenon
<1> HIDE DEF n, c
<1>8. /\ \A x \in 1 .. n :
           (\E i \in DOMAIN ranges' : ranges'[i] = x)
             <=> x \in Visited(n, end, walk) \cup {c} /\ cmds[x].addrs = 2
      /\ \A i, j \in DOMAIN ranges' : ranges'[i] = ranges'[j] => i = j
  <2>1. CASE cmds[c].addrs = 2
    <3>1. /\ Len(ranges') = m + 1 /\ DOMAIN ranges' = 1 .. m + 1 /\ ranges'[m + 1] = c
          /\ \A i \in 1 .. m : ranges'[i] = ranges[i]
      BY <1>1, <1>3, <1>4, <2>1
    <3>2. \A i \in 1 .. m + 1 : i \in 1 .. m \/ i = m + 1
      BY <1>4
    <3>3. m + 1 \in 1 .. m + 1 /\ \A i \in 1 .. m : i \in 1 .. m + 1
      BY <1>4
    <3>4. \A i \in 1 .. m : ranges[i] # c
      BY <1>3, <1>7
    <3> HIDE DEF m
    <3>5. ASSUME NEW x \in 1 .. n
          PROVE  (\E i \in 1 .. m + 1 : ranges'[i] = x)
                   <=> x \in Visited(n, end, walk) \cup {c} /\ cmds[x].addrs = 2
      <4>1. (\E i \in 1 .. m + 1 : ranges'[i] = x) <=> (\E i \in 1 .. m : ranges[i] = x) \/ x = c
        BY <3>1, <3>2, <3>3
      <4>2. QED
        BY <1>7, <2>1, <4>1
    <3>6. ASSUME NEW i \in 1 .. m + 1, NEW j \in 1 .. m + 1, ranges'[i] = ranges'[j]
          PROVE  i = j
      <4>1. CASE i \in 1 .. m /\ j \in 1 .. m
        BY <1>7, <3>1, <3>6, <4>1
      <4>2. CASE i \notin 1 .. m
        BY <3>1, <3>2, <3>4, <3>6, <4>2
      <4>3. CASE j \notin 1 .. m
        BY <3>1, <3>2, <3>4, <3>6, <4>3
      <4>4. QED
        BY <4>1, <4>2, <4>3
    <3>7. QED
      BY <3>1, <3>5, <3>6
  <2>2. CASE cmds[c].addrs # 2
    <3>1. ranges' = ranges
      BY <1>1, <1>4, <2>2
    <3>2. QED
      BY <1>4, <1>7, <2>2, <3>1
  <2>3. QED
    BY <2>1, <2>2
<1>9. Progress(end)'
  <2>1. /\ \A k \in LabelName : labels[k] # 0 => labels[k] \in LabelsDone(end)
        /\ \A x \in LabelsDone(end) : cmds[x].code = "label" => labels[cmds[x].label] = x
    BY <1>4 DEF Progress
  <2>2. LabelsDone(end)' = LabelsDone(end)
    BY <1>5
  <2>3. (\A k \in LabelName : labels[k] # 0 => labels[k] \in LabelsDone(end))'
    BY <1>1, <2>1, <2>2
  <2>4. (\A x \in LabelsDone(end) : cmds[x].code = "label" => labels[cmds[x].label] = x)'
    BY <1>1, <2>1, <2>2
  <2>5. (\A x \in 1 .. Len(cmds) :
           (\E i \in DOMAIN ranges : ranges[i] = x) <=> x \in RangesDone(end) /\ cmds[x].addrs = 2)'
    BY <1>1, <1>5, <1>8 DEF n
  <2>6. (\A i, j \in DOMAIN ranges : ranges[i] = ranges[j] => i = j)'
    BY <1>8
  <2>7. QED
    BY <1>1, <1>5, <2>3, <2>4, <2>5, <2>6 DEF Progress
<1>10. /\ Len(cmds') = Len(cmds) /\ \A x \in 1 .. Len(cmds) : SameItem(cmds[x], cmds'[x])
       /\ LinksAre(Len(cmds), cmds', par, end, Patched(end)')
       /\ stage' # "patch" /\ WalkFits(Len(cmds), par, walk')
  BY <1>1, <1>3, <1>4, <1>5 DEF SameItem, n
<1>11. QED
  BY <1>1, <1>2, <1>9, <1>10, PassShown

LEMMA ResolveBranchMeaning ==
  ASSUME Inv, ResolveBranch, NEW par, NEW end, Meaning(par, end)
  PROVE  Meaning(par, end)'
<1> DEFINE n == Len(cmds)
           c == Level.at
           l == cmds[c].label
<1>1. /\ stage = "resolve" /\ stage' = "resolve" /\ Visiting /\ ToNext /\ ~IsUndefined
      /\ source' = source /\ pos' = pos /\ nesting' = nesting /\ frames' = frames
      /\ labels' = labels /\ ranges' = ranges /\ c # 0
  BY DEF ResolveBranch, parseVars, Visiting
<1>2. stage \in Pass /\ stage' \in Pass \cup {"done"}
  BY <1>1 DEF Pass
<1>3. /\ WalkFits(n, par, walk') /\ c \in 1 .. n /\ c \notin Visited(n, end, walk)
      /\ Visited(n, end, walk') = Visited(n, end, walk) \cup {c}
  BY <1>1, Visits
<1>4. /\ LinksAre(n, cmds, par, end, Patched(end)) /\ Progress(end)
      /\ At = cmds[c] /\ n \in Nat
  BY <1>2, PassKnown, PassTypes DEF At
<1>5. /\ Len(cmds') = n
      /\ \A i \in 1 .. n :
           /\ SameItem(cmds[i], cmds'[i]) /\ cmds'[i].next = cmds[i].next
           /\ cmds'[i].goto = IF i = c /\ cmds[i].code = "branch" THEN Target ELSE cmds[i].goto
  BY ResolveWrites
<1>6. \A i \in 1 .. n : /\ cmds'[i].code = cmds[i].code /\ cmds'[i].label = cmds[i].label
                        /\ cmds'[i].addrs = cmds[i].addrs
  BY <1>5 DEF SameItem
<1>7. /\ Patched(end) = {} /\ Patched(end)' = {}
      /\ BranchesDone(end) = Visited(n, end, walk)
      /\ BranchesDone(end)' = Visited(n, end, walk) \cup {c}
      /\ RangesDone(end) = 1 .. n /\ RangesDone(end)' = 1 .. n
      /\ LabelsDone(end) = 1 .. n /\ LabelsDone(end)' = 1 .. n
  BY <1>1, <1>3, <1>5 DEF Patched, RangesDone, BranchesDone, LabelsDone, PassDone
<1>8. \A x \in Visited(n, end, walk) : x \in 1 .. n
  BY <1>4 DEF Visited
<1>9. LinksAre(n, cmds', par, end, {})
  <2>1. ASSUME NEW x \in 1 .. n, cmds'[x].code = "block" PROVE cmds'[x].goto = cmds[x].goto
    BY <1>5, <1>6, <2>1
  <2>2. QED
    BY <1>4, <1>5, <1>6, <1>7, <2>1 DEF LinksAre
<1>10. ASSUME NEW x \in BranchesDone(end)', cmds'[x].code = "branch"
       PROVE  IF cmds'[x].label = NoLabel THEN cmds'[x].goto = 0
              ELSE labels'[cmds'[x].label] # 0 /\ cmds'[x].goto = labels'[cmds'[x].label]
  <2>1. CASE x = c
    <3>1. cmds[c].code = "branch" /\ cmds'[c].goto = Target /\ cmds'[c].label = l
      BY <1>3, <1>5, <1>6, <1>10, <2>1
    <3>2. l # NoLabel => labels[l] # 0
      BY <1>1, <1>4, <3>1 DEF IsUndefined
    <3>3. Target = IF l = NoLabel THEN 0 ELSE labels[l]
      BY <1>4 DEF Target
    <3>4. QED
      BY <1>1, <2>1, <3>1, <3>2, <3>3
  <2>2. CASE x # c
    <3>1. x \in Visited(n, end, walk) /\ x \in BranchesDone(end) /\ x \in 1 .. n
      BY <1>7, <1>8, <1>10, <2>2
    <3>2. /\ cmds'[x].goto = cmds[x].goto /\ cmds'[x].label = cmds[x].label
          /\ cmds[x].code = "branch"
      BY <1>5, <1>6, <1>10, <2>2, <3>1
    <3>3. IF cmds[x].label = NoLabel THEN cmds[x].goto = 0
          ELSE labels[cmds[x].label] # 0 /\ cmds[x].goto = labels[cmds[x].label]
      BY <1>4, <3>1, <3>2, Zenon DEF Progress
    <3>4. QED
      BY <1>1, <3>2, <3>3
  <2>3. QED
    BY <2>1, <2>2
<1>11. Progress(end)'
  <2>0. /\ \A k \in LabelName : labels[k] # 0 => labels[k] \in 1 .. n
        /\ \A x \in 1 .. n : cmds[x].code = "label" => labels[cmds[x].label] = x
        /\ \A x \in 1 .. n : (\E i \in DOMAIN ranges : ranges[i] = x) <=> cmds[x].addrs = 2
        /\ \A i, j \in DOMAIN ranges : ranges[i] = ranges[j] => i = j
    BY <1>4, <1>7 DEF Progress
  <2>1. (\A k \in LabelName : labels[k] # 0 => labels[k] \in LabelsDone(end))'
    BY <1>1, <1>7, <2>0
  <2>2. (\A x \in LabelsDone(end) : cmds[x].code = "label" => labels[cmds[x].label] = x)'
    BY <1>1, <1>6, <1>7, <2>0
  <2>3. (\A x \in 1 .. Len(cmds) :
           (\E i \in DOMAIN ranges : ranges[i] = x) <=> x \in RangesDone(end) /\ cmds[x].addrs = 2)'
    BY <1>1, <1>5, <1>6, <1>7, <2>0
  <2>4. (\A i, j \in DOMAIN ranges : ranges[i] = ranges[j] => i = j)'
    BY <1>1, <2>0
  <2>5. (\A x \in BranchesDone(end) :
       cmds[x].code = "branch" =>
         IF cmds[x].label = NoLabel THEN cmds[x].goto = 0
         ELSE labels[cmds[x].label] # 0 /\ cmds[x].goto = labels[cmds[x].label])'
    BY <1>10
  <2>6. (stage \in {"patch", "done"} => nesting = 0)'
    BY <1>1
  <2>7. QED
    BY <2>1, <2>2, <2>3, <2>4, <2>5, <2>6 DEF Progress
<1>12. /\ Len(cmds') = Len(cmds) /\ \A x \in 1 .. Len(cmds) : SameItem(cmds[x], cmds'[x])
       /\ LinksAre(Len(cmds), cmds', par, end, Patched(end)')
       /\ stage' # "patch" /\ WalkFits(Len(cmds), par, walk')
  BY <1>1, <1>3, <1>5, <1>7, <1>9
<1>13. QED
  BY <1>1, <1>2, <1>11, <1>12, PassShown

\* A pass is over, and the next one begins.
PassOver(to) ==
  /\ Ended /\ stage' = to
  /\ to # "done" => Restart
  /\ to \in {"patch", "done"} => nesting = 0
  /\ \/ stage = "labels" /\ to = "ranges"
     \/ stage = "ranges" /\ to = "resolve"
     \/ stage = "resolve" /\ to = "patch"
     \/ stage = "patch" /\ to = "done"
  /\ UNCHANGED <<source, parseVars, cmds, labels, ranges>>

LEMMA PassOverMeaning ==
  ASSUME Inv, NEW to, PassOver(to), NEW par, NEW end, Meaning(par, end)
  PROVE  Meaning(par, end)'
<1> DEFINE n == Len(cmds)
<1>1. /\ Ended /\ stage' = to
      /\ source' = source /\ pos' = pos /\ nesting' = nesting /\ frames' = frames
      /\ cmds' = cmds /\ labels' = labels /\ ranges' = ranges
      /\ to # "done" => Restart
      /\ to \in {"patch", "done"} => nesting = 0
      /\ \/ stage = "labels" /\ to = "ranges"
         \/ stage = "ranges" /\ to = "resolve"
         \/ stage = "resolve" /\ to = "patch"
         \/ stage = "patch" /\ to = "done"
  BY DEF PassOver, parseVars
<1>2. stage \in Pass /\ stage' \in Pass \cup {"done"} /\ (stage' \in Pass => to # "done")
  BY <1>1 DEF Pass
<1>3. Visited(n, end, walk) = 1 .. n
  BY <1>1, PassEnds
<1>4. /\ n \in Nat /\ Tree(n, Blocks, par, end) /\ Top = (IF n = 0 THEN 0 ELSE 1)
      /\ LinksAre(n, cmds, par, end, Patched(end)) /\ Progress(end)
  BY <1>2, PassKnown
<1>5. to # "done" =>
        /\ WalkFits(n, par, walk') /\ Visited(n, end, walk') = {}
        /\ \A k \in 1 .. Len(walk') : ParentFits(n, end, walk', k)
  BY <1>1, <1>4, PassStarts
<1>6. /\ LabelsDone(end)' = LabelsDone(end) /\ RangesDone(end)' = RangesDone(end)
      /\ BranchesDone(end)' = BranchesDone(end) /\ Patched(end)' = Patched(end)
  BY <1>1, <1>3, <1>5 DEF LabelsDone, RangesDone, BranchesDone, Patched, PassDone
<1>7. Progress(end)'
  BY <1>1, <1>4, <1>6 DEF Progress
<1>8. LinksAre(n, cmds', par, end, Patched(end)')
  BY <1>1, <1>4, <1>6
<1>9. /\ Len(cmds') = Len(cmds)
      /\ \A c \in 1 .. Len(cmds) : SameItem(cmds[c], cmds'[c])
  BY <1>1 DEF SameItem
<1>10. stage' \in Pass => WalkFits(n, par, walk')
  BY <1>2, <1>5
<1>11. stage' = "patch" => \A k \in 1 .. Len(walk') : ParentFits(n, end, walk', k)
  BY <1>1, <1>5
<1>12. QED
  BY <1>1, <1>2, <1>7, <1>8, <1>9, <1>10, <1>11, PassShown

LEMMA EndOfScriptMeaning ==
  ASSUME Inv, EndOfScript, NEW par, NEW end, Meaning(par, end)
  PROVE  Meaning(par, end)'
<1> DEFINE n == Len(cmds)
<1>1. /\ stage = "parse" /\ stage' = "labels" /\ pos = Len(source) /\ Len(frames) = 1
      /\ source' = source /\ pos' = pos /\ nesting' = nesting /\ frames' = frames
      /\ cmds' = cmds /\ labels' = labels /\ ranges' = ranges /\ Restart
  BY DEF EndOfScript, parseVars, Restart, Depth
<1>2. /\ Tree(n, Blocks, par, end) /\ LinksAre(n, cmds, par, end, {})
      /\ FramesFit(n, par, end, frames)
      /\ TextFits(source, pos, nesting, cmds, end)
      /\ Progress(end)
  BY <1>1, ParseKnown
<1>3. n \in Nat
  BY <1>1, ParseTypes
<1>4. Closed(n, end)
  <2>1. ASSUME NEW c \in 1 .. n, end[c] = 0 PROVE FALSE
    <3>1. \E k \in 2 .. 1 : frames[k].block = c
      BY <1>1, <1>2, <2>1 DEF FramesFit
    <3>2. QED
      BY <3>1
  <2>2. QED
    BY <2>1 DEF Closed
<1>5. Top = IF n = 0 THEN 0 ELSE 1
  <2>1. /\ frames[1].block = 0
        /\ IF frames[1].tail = 0 THEN frames[1].head = 0 /\ n + 1 = frames[1].block + 1
           ELSE frames[1].head = frames[1].block + 1 /\ frames[1].tail \in 1 .. n
    BY <1>1, <1>2 DEF FramesFit, Onward
  <2>2. QED
    BY <1>3, <2>1 DEF Top
<1>6. /\ WalkFits(n, par, walk') /\ Visited(n, end, walk') = {}
  BY <1>1, <1>2, <1>3, <1>5, PassStarts
<1>7. /\ LabelsDone(end)' = LabelsDone(end) /\ RangesDone(end)' = RangesDone(end)
      /\ BranchesDone(end)' = BranchesDone(end) /\ Patched(end)' = {}
  BY <1>1, <1>6 DEF LabelsDone, RangesDone, BranchesDone, Patched, PassDone
<1>8. Progress(end)'
  BY <1>1, <1>2, <1>7 DEF Progress
<1>9. Blocks' = Blocks /\ Top' = Top
  BY <1>1 DEF Blocks, Top
<1>10. Graph(par, end)'
  BY <1>1, <1>2, <1>4, <1>5, <1>6, <1>7, <1>9 DEF Graph
<1>11. TextHolds(end)'
  BY <1>1, <1>2 DEF TextHolds
<1>12. QED
  BY <1>8, <1>10, <1>11 DEF Meaning

-----------------------------------------------------------------------------
(* The ends of blocks.                                                     *)

\* The links of the commands from a on lead forward, so that TailFrom has a
\* value for each of them.
LEMMA TailExists ==
  ASSUME NEW n \in Nat, NEW prog,
         \A c \in 1 .. n : prog[c].next \in 0 .. n /\ (prog[c].next # 0 => c < prog[c].next)
  PROVE  \E f : f = [c \in 1 .. n |-> IF prog[c].next = 0 THEN c ELSE f[prog[c].next]]
<1> DEFINE Value(f, c) == IF prog[c].next = 0 THEN c ELSE f[prog[c].next]
           From(a) == \E f : f = [c \in a .. n |-> Value(f, c)]
           S == {m \in Nat : m <= n => From(n + 1 - m)}
<1>1. 0 \in S
  <2>1. n + 1 .. n = {} /\ n + 1 - 0 = n + 1
    OBVIOUS
  <2>2. [c \in n + 1 .. n |-> c] =
           [c \in n + 1 .. n |-> Value([k \in n + 1 .. n |-> k], c)]
    BY <2>1
  <2>3. From(n + 1)
    BY <2>2
  <2>4. QED
    BY <2>1, <2>3
<1>2. ASSUME NEW m \in S PROVE m + 1 \in S
  <2> SUFFICES ASSUME m + 1 <= n PROVE From(n + 1 - (m + 1))
    OBVIOUS
  <2>1. PICK a \in 1 .. n : a = n - m
    OBVIOUS
  <2>2. From(a + 1)
    <3>1. n + 1 - m = a + 1 /\ m <= n
      BY <2>1
    <3>2. From(n + 1 - m)
      BY <1>2, <3>1
    <3>3. QED
      BY <3>1, <3>2
  <2>3. PICK f : f = [c \in a + 1 .. n |-> Value(f, c)]
    BY <2>2
  <2> DEFINE v == IF prog[a].next = 0 THEN a ELSE f[prog[a].next]
             g == [c \in a .. n |-> IF c = a THEN v ELSE f[c]]
  <2>4. ASSUME NEW c \in a .. n PROVE g[c] = Value(g, c)
    <3>1. c \in 1 .. n /\ prog[c].next \in 0 .. n /\ (prog[c].next # 0 => c < prog[c].next)
      OBVIOUS
    <3>2. CASE prog[c].next = 0
      <4>1. CASE c = a
        BY <3>2, <4>1
      <4>2. CASE c # a
        <5>1. c \in a + 1 .. n /\ g[c] = f[c]
          BY <4>2
        <5>2. f[c] = Value(f, c)
          BY <2>3, <5>1
        <5>3. QED
          BY <3>2, <5>1, <5>2
      <4>3. QED
        BY <4>1, <4>2
    <3>3. CASE prog[c].next # 0
      <4>1. PICK y \in a + 1 .. n : y = prog[c].next
        BY <3>1, <3>3
      <4>2. y \in a .. n /\ y # a /\ g[y] = f[y]
        OBVIOUS
      <4>3. CASE c = a
        BY <3>3, <4>1, <4>2, <4>3
      <4>4. CASE c # a
        <5>1. c \in a + 1 .. n /\ g[c] = f[c]
          BY <4>4
        <5>2. f[c] = Value(f, c)
          BY <2>3, <5>1
        <5>3. QED
          BY <3>3, <4>1, <4>2, <5>1, <5>2
      <4>5. QED
        BY <4>3, <4>4
    <3>4. QED
      BY <3>2, <3>3
  <2>5. g = [c \in a .. n |-> Value(g, c)]
    BY <2>4
  <2> HIDE DEF g
  <2>6. From(a)
    BY <2>5
  <2>7. n + 1 - (m + 1) = a
    BY <2>1
  <2>8. QED
    BY <2>6, <2>7
<1>3. S = Nat
  BY <1>1, <1>2, Induction
<1>4. From(1)
  <2>1. n \in S
    BY <1>3
  <2>2. From(n + 1 - n)
    BY <2>1
  <2>3. n + 1 - n = 1
    OBVIOUS
  <2>4. QED
    BY <2>2, <2>3
<1>5. QED
  BY <1>4

LEMMA TailOfChain ==
  ASSUME NEW n \in Nat, n = Len(cmds),
         \A c \in 1 .. n : cmds[c].next \in 0 .. n /\ (cmds[c].next # 0 => c < cmds[c].next)
  PROVE  \A c \in 1 .. n :
           TailFrom[c] = IF cmds[c].next = 0 THEN c ELSE TailFrom[cmds[c].next]
<1>1. PICK f : f = [c \in 1 .. Len(cmds) |->
                      IF cmds[c].next = 0 THEN c ELSE f[cmds[c].next]]
  BY TailExists
<1>2. TailFrom = [c \in 1 .. Len(cmds) |->
                    IF cmds[c].next = 0 THEN c ELSE TailFrom[cmds[c].next]]
  BY <1>1, Zenon DEF TailFrom
<1>3. QED
  BY <1>2

\* Every link leads forward.
LEMMA LinksForward ==
  ASSUME NEW n \in Nat, NEW blocks, NEW par, NEW end, Tree(n, blocks, par, end),
         Closed(n, end), NEW prog, NEW patched, LinksAre(n, prog, par, end, patched),
         NEW c \in 1 .. n
  PROVE  prog[c].next \in 0 .. n /\ (prog[c].next # 0 => c < prog[c].next)
<1>1. end[c] \in c + 1 .. n + 1
  BY OwnNextFits DEF NextFits
<1>2. prog[c].next = NextOf(n, par, end, patched, c)
  BY DEF LinksAre
<1>3. Follow(n, end, c) \in 0 .. n /\ (Follow(n, end, c) # 0 => c < Follow(n, end, c))
  BY <1>1 DEF Follow
<1>4. prog[c].next = 0 \/ prog[c].next = Follow(n, end, c)
  BY <1>2 DEF NextOf
<1>5. QED
  BY <1>3, <1>4

\* y is the last command of the body of b.
IsTail(n, par, end, b, y) == y \in 1 .. n /\ par[y] = b /\ end[y] = end[b]

LEMMA TailOfBody ==
  ASSUME NEW par, NEW end, NEW n \in Nat, n = Len(cmds), NEW blocks,
         Tree(n, blocks, par, end), Closed(n, end),
         NEW patched, LinksAre(n, cmds, par, end, patched),
         NEW b \in 1 .. n, b \notin patched, NEW first \in 1 .. n, par[first] = b
  PROVE  IsTail(n, par, end, b, TailFrom[first])
<1> DEFINE S == {m \in Nat : \A c \in 1 .. n :
                   par[c] = b /\ n < c + m => IsTail(n, par, end, b, TailFrom[c])}
<1>1. \A c \in 1 .. n :
        TailFrom[c] = IF cmds[c].next = 0 THEN c ELSE TailFrom[cmds[c].next]
  BY LinksForward, TailOfChain
<1>2. 0 \in S
  <2>1. \A c \in 1 .. n : ~(n < c + 0)
    OBVIOUS
  <2>2. QED
    BY <2>1
<1>3. ASSUME NEW m \in S PROVE m + 1 \in S
  <2> SUFFICES ASSUME NEW c \in 1 .. n, par[c] = b, n < c + (m + 1)
               PROVE  IsTail(n, par, end, b, TailFrom[c])
    OBVIOUS
  <2>1. cmds[c].next = OwnNext(n, par, end, c)
    BY UnpatchedNext DEF LinksAre
  <2>2. NextFits(n, par, end, c, cmds[c].next)
    BY <2>1, OwnNextFits
  <2>3. CASE cmds[c].next = 0
    <3>1. end[c] = end[b] /\ TailFrom[c] = c
      BY <1>1, <2>2, <2>3 DEF NextFits
    <3>2. QED
      BY <3>1 DEF IsTail
  <2>4. CASE cmds[c].next # 0
    <3>1. PICK y \in 1 .. n : y = cmds[c].next
      BY <2>2, <2>4 DEF NextFits
    <3>2. par[y] = b /\ y > c /\ TailFrom[c] = TailFrom[y]
      BY <1>1, <2>2, <2>4, <3>1 DEF NextFits
    <3>3. n < y + m
      BY <3>2
    <3>4. QED
      BY <1>3, <3>2, <3>3
  <2>5. QED
    BY <2>3, <2>4
<1>4. S = Nat
  BY <1>2, <1>3, Induction
<1>5. n \in S /\ n < first + n
  BY <1>4
<1>6. QED
  BY <1>5

\* The last command y of the body of b, if it has one, is tied to what follows.
LinksPatched(n, end, b, y, s, t) ==
  \A i \in 1 .. n : /\ t[i].code = s[i].code /\ t[i].goto = s[i].goto
                    /\ t[i].next = IF end[b] # b + 1 /\ i = y THEN Follow(n, end, b)
                                   ELSE s[i].next

LEMMA PatchLinks ==
  ASSUME NEW n \in Nat, NEW blocks, NEW par, NEW end, Tree(n, blocks, par, end),
         Closed(n, end), NEW s, NEW t, NEW patched, LinksAre(n, s, par, end, patched),
         NEW b \in 1 .. n, b \notin patched,
         NEW y, end[b] # b + 1 => IsTail(n, par, end, b, y),
         LinksPatched(n, end, b, y, s, t)
  PROVE  LinksAre(n, t, par, end, patched \cup {b})
<1> DEFINE more == patched \cup {b}
<1>1. ASSUME NEW c \in 1 .. n PROVE t[c].next = NextOf(n, par, end, more, c)
  <2>1. s[c].next = NextOf(n, par, end, patched, c)
    BY DEF LinksAre
  <2>2. NextFits(n, par, end, c, OwnNext(n, par, end, c))
    BY OwnNextFits
  <2>3. CASE par[c] # b
    <3>1. t[c].next = s[c].next
      BY <2>3 DEF LinksPatched, IsTail
    <3>2. HasNext(n, par, end, more, c) = HasNext(n, par, end, patched, c)
      BY <2>3 DEF HasNext
    <3>3. QED
      BY <2>1, <3>1, <3>2 DEF NextOf
  <2>4. CASE par[c] = b
    <3>1. b < c /\ end[c] \in c + 1 .. n + 1
      BY <2>2, <2>4 DEF NextFits, Tree
    <3>2. end[b] \in 1 .. n + 1 /\ Limit(n, end, b) = end[b] /\ end[c] <= end[b]
      <4>1. end[b] # 0 /\ end[b] \in 0 .. n + 1 /\ end[c] # 0
        BY DEF Closed, Tree
      <4>2. Limit(n, end, b) = end[b]
        BY <4>1 DEF Limit
      <4>3. end[c] <= Limit(n, end, b)
        BY <2>4, <4>1 DEF Tree
      <4>4. QED
        BY <4>1, <4>2, <4>3
    <3>3. end[b] # b + 1
      BY <3>1, <3>2
    <3>4. IsTail(n, par, end, b, y)
      BY <3>3
    <3>5. CASE end[c] < end[b]
      <4>1. c # y
        BY <3>1, <3>2, <3>4, <3>5 DEF IsTail
      <4>2. t[c].next = s[c].next
        BY <4>1 DEF LinksPatched
      <4>3. HasNext(n, par, end, more, c) = HasNext(n, par, end, patched, c)
        BY <2>4, <3>2, <3>5 DEF HasNext
      <4>4. QED
        BY <2>1, <4>2, <4>3 DEF NextOf
    <3>6. CASE end[c] = end[b]
      <4>1. c = y
        <5>1. y \in 1 .. n /\ par[c] = par[y] /\ end[c] = end[y] /\ end[c] # 0
          BY <2>4, <3>1, <3>4, <3>6 DEF IsTail
        <5>2. QED
          BY <5>1, EndsDiffer
      <4>2. t[c].next = Follow(n, end, b)
        BY <3>3, <4>1 DEF LinksPatched
      <4>3. Follow(n, end, c) = Follow(n, end, b)
        BY <3>6 DEF Follow
      <4>4. HasNext(n, par, end, more, c)
        <5>1. end[c] # 0 /\ ~(end[c] < Limit(n, end, par[c])) /\ par[c] \in more
          BY <2>4, <3>1, <3>2, <3>6
        <5>2. QED
          BY <5>1 DEF HasNext
      <4>5. QED
        BY <4>2, <4>3, <4>4 DEF NextOf
    <3>7. QED
      BY <3>1, <3>2, <3>5, <3>6
  <2>5. QED
    BY <2>3, <2>4
<1>2. \A c \in 1 .. n : t[c].code = "block" => t[c].goto = GotoOf(end, c)
  BY DEF LinksAre, LinksPatched
<1>3. QED
  BY <1>1, <1>2 DEF LinksAre

LEMMA PatchEndingMeaning ==
  ASSUME Inv, PatchEnding, NEW par, NEW end, Meaning(par, end)
  PROVE  Meaning(par, end)'
<1> DEFINE n == Len(cmds)
           c == Level.at
           y == TailFrom[Body]
<1>1. /\ stage = "patch" /\ stage' = "patch" /\ Visiting /\ ToNext
      /\ source' = source /\ pos' = pos /\ nesting' = nesting /\ frames' = frames
      /\ labels' = labels /\ ranges' = ranges /\ c # 0
  BY DEF PatchEnding, parseVars, Visiting
<1>2. stage \in Pass /\ stage' \in Pass \cup {"done"}
  BY <1>1 DEF Pass
<1>3. /\ WalkFits(n, par, walk') /\ c \in 1 .. n /\ c \notin Visited(n, end, walk)
      /\ Visited(n, end, walk') = Visited(n, end, walk) \cup {c}
      /\ \A k \in 1 .. Len(walk') : ParentFits(n, end, walk', k)
  BY <1>1, Visits
<1>4. /\ Tree(n, Blocks, par, end) /\ Closed(n, end) /\ n \in Nat
      /\ LinksAre(n, cmds, par, end, Patched(end)) /\ Progress(end)
  BY <1>2, PassKnown
<1>5. /\ Len(cmds') = n
      /\ \A i \in 1 .. n :
           /\ SameItem(cmds[i], cmds'[i]) /\ cmds'[i].goto = cmds[i].goto
           /\ cmds'[i].next = IF Body # 0 /\ i = y THEN Splice ELSE cmds[i].next
  BY PatchWrites
<1>6. Splice = Follow(n, end, c)
  BY <1>1, SpliceFollows
<1>7. /\ (Body = 0 /\ end[c] = c + 1) \/ (Body = c + 1 /\ end[c] # c + 1)
      /\ end[c] \in c + 1 .. n + 1
  BY <1>1, <1>2, AtCommand DEF IsAt
<1>8. Patched(end) = Visited(n, end, walk) /\ Patched(end)' = Patched(end) \cup {c}
  BY <1>1, <1>3, <1>5 DEF Patched, PassDone
<1>9. end[c] # c + 1 => IsTail(n, par, end, c, y)
  <2> SUFFICES ASSUME end[c] # c + 1 PROVE IsTail(n, par, end, c, y)
    OBVIOUS
  <2>1. Body = c + 1 /\ c + 1 \in 1 .. n
    BY <1>3, <1>4, <1>7
  <2>2. par[c + 1] = c
    <3>1. Limit(n, end, c) = end[c] /\ c + 1 < end[c]
      BY <1>3, <1>7 DEF Limit
    <3>2. QED
      BY <1>3, <1>4, <3>1 DEF Tree
  <2> HIDE DEF n, c
  <2>3. IsTail(n, par, end, c, TailFrom[c + 1])
    BY <1>3, <1>4, <1>8, <2>1, <2>2, TailOfBody DEF n
  <2>4. QED
    BY <2>1, <2>3
<1>10. LinksPatched(n, end, c, y, cmds, cmds')
  <2>1. c + 1 # 0
    BY <1>3
  <2>2. QED
    BY <1>5, <1>6, <1>7, <2>1 DEF LinksPatched, SameItem
<1> HIDE DEF n, c, y
<1>11. LinksAre(n, cmds', par, end, Patched(end)')
  BY <1>3, <1>4, <1>8, <1>9, <1>10, PatchLinks
<1>12. Progress(end)'
  <2>1. /\ LabelsDone(end) = 1 .. n /\ RangesDone(end) = 1 .. n /\ BranchesDone(end) = 1 .. n
        /\ LabelsDone(end)' = 1 .. n /\ RangesDone(end)' = 1 .. n
        /\ BranchesDone(end)' = 1 .. n
    BY <1>1, <1>5 DEF RangesDone, BranchesDone, LabelsDone, PassDone, n
  <2>2. \A i \in 1 .. n : /\ cmds'[i].code = cmds[i].code /\ cmds'[i].label = cmds[i].label
                          /\ cmds'[i].addrs = cmds[i].addrs /\ cmds'[i].goto = cmds[i].goto
    BY <1>5 DEF SameItem
  <2>3. (\A k \in LabelName : labels[k] # 0 => labels[k] \in LabelsDone(end))'
    BY <1>1, <1>4, <2>1 DEF Progress
  <2>4. (\A x \in LabelsDone(end) : cmds[x].code = "label" => labels[cmds[x].label] = x)'
    BY <1>1, <1>4, <2>1, <2>2 DEF Progress
  <2>5. (\A x \in 1 .. Len(cmds) :
           (\E i \in DOMAIN ranges : ranges[i] = x) <=> x \in RangesDone(end) /\ cmds[x].addrs = 2)'
    BY <1>1, <1>4, <1>5, <2>1, <2>2 DEF Progress, n
  <2>6. (\A i, j \in DOMAIN ranges : ranges[i] = ranges[j] => i = j)'
    BY <1>1, <1>4 DEF Progress
  <2>7. (\A x \in BranchesDone(end) :
       cmds[x].code = "branch" =>
         IF cmds[x].label = NoLabel THEN cmds[x].goto = 0
         ELSE labels[cmds[x].label] # 0 /\ cmds[x].goto = labels[cmds[x].label])'
    <3>1. ASSUME NEW x \in 1 .. n, cmds[x].code = "branch"
          PROVE  IF cmds[x].label = NoLabel THEN cmds[x].goto = 0
                 ELSE labels[cmds[x].label] # 0 /\ cmds[x].goto = labels[cmds[x].label]
      BY <1>4, <2>1, <3>1, Zenon DEF Progress
    <3>2. ASSUME NEW x \in 1 .. n, cmds'[x].code = "branch"
          PROVE  IF cmds'[x].label = NoLabel THEN cmds'[x].goto = 0
                 ELSE labels'[cmds'[x].label] # 0 /\ cmds'[x].goto = labels'[cmds'[x].label]
      BY <1>1, <2>2, <3>1, <3>2
    <3>3. QED
      BY <2>1, <3>2
  <2>8. (stage \in {"patch", "done"} => nesting = 0)'
    BY <1>1, <1>4 DEF Progress
  <2>9. QED
    BY <2>3, <2>4, <2>5, <2>6, <2>7, <2>8 DEF Progress
<1>13. /\ Len(cmds') = Len(cmds) /\ \A x \in 1 .. Len(cmds) : SameItem(cmds[x], cmds'[x])
       /\ LinksAre(Len(cmds), cmds', par, end, Patched(end)')
       /\ WalkFits(Len(cmds), par, walk')
       /\ \A k \in 1 .. Len(walk') : ParentFits(Len(cmds), end, walk', k)
  BY <1>3, <1>5, <1>11 DEF n
<1>14. QED
  BY <1>1, <1>2, <1>12, <1>13, PassShown

\* The program that was not refused has a tree which tells its links.
Links == stage # "failed" => \E par, end : Meaning(par, end)

LEMMA PassMeaning ==
  ASSUME Inv, NEW par, NEW end, Meaning(par, end),
         \/ EndOfScript \/ Descend \/ Ascend \/ PopulateLabel \/ PopulateRange
         \/ ResolveBranch \/ PatchEnding
         \/ LabelsPopulated \/ RangesPopulated \/ BranchesResolved \/ EndingsPatched
  PROVE  Meaning(par, end)'
<1>1. CASE EndOfScript \/ Descend \/ Ascend
  BY <1>1, EndOfScriptMeaning, DescendMeaning, AscendMeaning
<1>2. CASE PopulateLabel \/ PopulateRange \/ ResolveBranch \/ PatchEnding
  BY <1>2, PopulateLabelMeaning, PopulateRangeMeaning, ResolveBranchMeaning, PatchEndingMeaning
<1>3. CASE LabelsPopulated
  <2>1. PassOver("ranges")
    BY <1>3 DEF LabelsPopulated, PassOver
  <2>2. QED
    BY <2>1, PassOverMeaning
<1>4. CASE RangesPopulated
  <2>1. PassOver("resolve")
    BY <1>4 DEF RangesPopulated, PassOver
  <2>2. QED
    BY <2>1, PassOverMeaning
<1>5. CASE BranchesResolved
  <2>1. PassOver("patch")
    BY <1>5 DEF BranchesResolved, PassOver
  <2>2. QED
    BY <2>1, PassOverMeaning
<1>6. CASE EndingsPatched
  <2>1. nesting = 0 /\ stage = "patch" /\ stage' = "done" /\ Ended
        /\ UNCHANGED <<source, parseVars, cmds, labels, ranges>>
    BY <1>6 DEF EndingsPatched, Meaning, Progress
  <2>2. PassOver("done")
    BY <2>1 DEF PassOver
  <2>3. QED
    BY <2>2, PassOverMeaning
<1>7. QED
  BY <1>1, <1>2, <1>3, <1>4, <1>5, <1>6

LEMMA StutterMeaning ==
  ASSUME UNCHANGED vars, NEW par, NEW end, Meaning(par, end)
  PROVE  Meaning(par, end)'
<1>1. /\ source' = source /\ stage' = stage /\ pos' = pos /\ nesting' = nesting
      /\ cmds' = cmds /\ frames' = frames /\ labels' = labels /\ ranges' = ranges
      /\ walk' = walk
  BY DEF vars, parseVars
<1>2. Graph(par, end)'
  <2>1. Graph(par, end)
    BY DEF Meaning
  <2>2. Patched(end)' = Patched(end) /\ Blocks' = Blocks /\ Top' = Top
    BY <1>1 DEF Patched, PassDone, Blocks, Top
  <2>3. QED
    BY <1>1, <2>1, <2>2 DEF Graph
<1>3. Progress(end)'
  <2>1. Progress(end)
    BY DEF Meaning
  <2>2. /\ LabelsDone(end)' = LabelsDone(end) /\ RangesDone(end)' = RangesDone(end)
        /\ BranchesDone(end)' = BranchesDone(end)
    BY <1>1 DEF LabelsDone, RangesDone, BranchesDone, PassDone
  <2>3. QED
    BY <1>1, <2>1, <2>2 DEF Progress
<1>4. TextHolds(end)'
  <2>1. TextHolds(end)
    BY DEF Meaning
  <2>2. QED
    BY <1>1, <2>1 DEF TextHolds
<1>5. QED
  BY <1>2, <1>3, <1>4 DEF Meaning

LEMMA NextLinks == Inv /\ Links /\ [Next]_vars => Links'
<1> SUFFICES ASSUME Inv, Links, [Next]_vars, stage' # "failed"
             PROVE  (\E par, end : Meaning(par, end))'
  BY DEF Links
<1>1. stage # "failed"
  <2>1. ASSUME stage = "failed" PROVE stage' = "failed"
    <3>1. CASE UNCHANGED vars
      BY <2>1, <3>1 DEF vars
    <3>2. CASE Next
      BY <2>1, <3>2 DEF Next, AddCommand, Silence, OpenBlock, CloseBlock, EndOfBlock,
         EndOfScript, ScriptError, Descend, Ascend, PopulateLabel, DuplicateLabel,
         LabelsPopulated, PopulateRange, RangesPopulated, ResolveBranch, UndefinedLabel,
         BranchesResolved, Unmatched, PatchEnding, EndingsPatched, Terminated,
         Compile, Parsing, Fail, vars
    <3>3. QED
      BY <3>1, <3>2
  <2>2. QED
    BY <2>1
<1>2. PICK par, end : Meaning(par, end)
  BY <1>1 DEF Links
<1>3. CASE AddCommand \/ Silence \/ OpenBlock
  BY <1>2, <1>3, AddMeaning, SilenceMeaning, OpenMeaning
<1>4. CASE CloseBlock \/ EndOfBlock
  BY <1>2, <1>4, CloseMeaning, EndOfBlockMeaning
<1>5. CASE \/ EndOfScript \/ Descend \/ Ascend \/ PopulateLabel \/ PopulateRange
           \/ ResolveBranch \/ PatchEnding
           \/ LabelsPopulated \/ RangesPopulated \/ BranchesResolved \/ EndingsPatched
  <2>1. Meaning(par, end)'
    BY <1>2, <1>5, PassMeaning
  <2>2. QED
    BY <2>1
<1>6. CASE ScriptError \/ DuplicateLabel \/ UndefinedLabel \/ Unmatched
  BY <1>6 DEF ScriptError, DuplicateLabel, UndefinedLabel, Unmatched, Fail
<1>7. CASE Terminated \/ UNCHANGED vars
  <2>1. Meaning(par, end)'
    BY <1>2, <1>7, StutterMeaning DEF Terminated
  <2>2. QED
    BY <2>1
<1>8. QED
  BY <1>3, <1>4, <1>5, <1>6, <1>7 DEF Next

LEMMA LinksHold == Spec => []Links
<1>1. Init => Links
  BY InitMeaning DEF Links
<1>2. Inv /\ Links /\ [Next]_vars => Links'
  BY NextLinks
<1>3. QED
  BY <1>1, <1>2, InvHolds, PTL DEF Spec

-----------------------------------------------------------------------------
(* Scripts that are refused.                                               *)

\* What the command c says of its item.
IsItem(c, i) ==
  /\ i \in Items /\ cmds[c].at = i
  /\ source[i].code = cmds[c].code /\ source[i].addrs = cmds[c].addrs
  /\ source[i].label = cmds[c].label

LEMMA CommandItem ==
  ASSUME Inv, NEW par, NEW end, Meaning(par, end), NEW c \in 1 .. Len(cmds)
  PROVE  IsItem(c, cmds[c].at)
<1>1. cmds[c] \in Command(Len(cmds), pos) /\ pos \in 0 .. Len(source) /\ Len(source) \in Nat
  <2>1. cmds \in Seq(Command(Len(cmds), pos)) /\ source \in Seq(Item) /\ pos \in 0 .. Len(source)
    BY DEF Inv, TypeOK
  <2>2. QED
    BY <2>1
<1>2. cmds[c].at \in 1 .. pos
  BY <1>1 DEF Command
<1>3. CommandFits(source, cmds, c)
  BY DEF Meaning, TextHolds, TextFits
<1>4. QED
  BY <1>1, <1>2, <1>3 DEF IsItem, CommandFits, Items

\* When all items are compiled each of them has its command.
LEMMA ItemCommand ==
  ASSUME Inv, NEW par, NEW end, Meaning(par, end), stage # "parse", NEW i \in Items,
         source[i].code \notin {"end", "silence"}
  PROVE  \E c \in 1 .. Len(cmds) : IsItem(c, i)
<1>1. ItemFits(source, cmds, i)
  BY DEF Meaning, TextHolds, TextFits, Items
<1>2. PICK c \in 1 .. Len(cmds) : cmds[c].at = i
  BY <1>1 DEF ItemFits
<1>3. IsItem(c, i)
  BY <1>2, CommandItem
<1>4. QED
  BY <1>3

LEMMA ItemsDiffer ==
  ASSUME Inv, NEW par, NEW end, Meaning(par, end), NEW c \in 1 .. Len(cmds),
         NEW d \in 1 .. Len(cmds), cmds[c].at = cmds[d].at
  PROVE  c = d
<1>1. CommandFits(source, cmds, c) /\ CommandFits(source, cmds, d)
  BY DEF Meaning, TextHolds, TextFits
<1>2. IsItem(c, cmds[c].at)
  BY CommandItem
<1>3. cmds[c].at \in Int
  BY <1>2 DEF IsItem, Items
<1>4. ~(c < d) /\ ~(d < c)
  BY <1>1, <1>3 DEF CommandFits
<1>5. QED
  BY <1>4

LEMMA AmongCounts ==
  \A i, m, codes : Among(i, m, codes) = Count(source, i, m, codes)
BY DEF Among, Count, Found

LEMMA LabelledOnce ==
  ASSUME source \in Seq(Item), NEW l
  PROVE  Cardinality(Labelled(l)) <= 1 <=> \A i, j \in Labelled(l) : i = j
<1> DEFINE S == Labelled(l)
<1>1. IsFiniteSet(S) /\ Cardinality(S) \in Nat
  <2>1. IsFiniteSet(Items)
    BY FS_Interval DEF Items
  <2>2. S \in SUBSET Items
    BY DEF Labelled
  <2>3. QED
    BY <2>1, <2>2, FS_Subset, FS_CardinalityType
<1> HIDE DEF S
<1>2. ASSUME Cardinality(S) <= 1, NEW i \in S, NEW j \in S PROVE i = j
  <2>1. Cardinality(S) # 0
    BY <1>1, <1>2, FS_EmptySet
  <2>2. Cardinality(S) = 1
    BY <1>1, <1>2, <2>1
  <2>3. \E x : S = {x}
    BY <1>1, <2>2, FS_Singleton
  <2>4. QED
    BY <1>2, <2>3
<1>3. ASSUME \A i, j \in S : i = j PROVE Cardinality(S) <= 1
  <2>1. CASE S = {}
    BY <2>1, FS_EmptySet
  <2>2. CASE S # {}
    <3>1. PICK x : x \in S
      BY <2>2
    <3>2. S = {x}
      BY <1>3, <3>1
    <3>3. Cardinality(S) = 1
      BY <3>2, FS_Singleton
    <3>4. QED
      BY <3>3
  <2>3. QED
    BY <2>1, <2>2
<1>4. QED
  BY <1>2, <1>3 DEF S

\* A script that compiles is well-formed.
LEMMA DoneWellFormed == ASSUME Inv, Links, stage = "done" PROVE WellFormed
<1>1. PICK par, end : Meaning(par, end)
  BY DEF Links
<1>2. /\ pos = Len(source) /\ TextFits(source, pos, nesting, cmds, end) /\ nesting = 0
      /\ \A i \in Items : ItemFits(source, cmds, i)
  BY <1>1 DEF Meaning, TextHolds, Progress, TextFits, Items
<1>3. source \in Seq(Item) /\ Len(source) \in Nat
  <2>1. source \in Seq(Item)
    BY DEF Inv, TypeOK
  <2>2. QED
    BY <2>1
<1>4. Balanced
  <2>1. \A j \in Items : Among(1, j, {"end", "notEnd"}) <= Among(1, j, {"block"})
    BY <1>2, AmongCounts DEF ItemFits, Closers
  <2>2. Count(source, 1, Len(source), {"block"}) = 0 + Count(source, 1, Len(source), Closers)
    BY <1>2 DEF TextFits
  <2>3. Count(source, 1, Len(source), Closers) \in Nat
    BY <1>3, CountTyped
  <2>4. Among(1, Len(source), {"end", "notEnd"}) = Among(1, Len(source), {"block"})
    BY <2>2, <2>3, AmongCounts DEF Closers
  <2>5. QED
    BY <2>1, <2>4 DEF Balanced
<1>5. \A i \in Items :
        /\ source[i].code \in {"label", "end", "notEnd", "silence"} => source[i].addrs = 0
        /\ source[i].code = "label" => source[i].label # NoLabel
  BY <1>2 DEF ItemFits
<1>6. /\ \A c \in 1 .. Len(cmds) : cmds[c].code = "label" => labels[cmds[c].label] = c
      /\ \A c \in 1 .. Len(cmds) :
           cmds[c].code = "branch" /\ cmds[c].label # NoLabel => labels[cmds[c].label] # 0
  <2>1. LabelsDone(end) = 1 .. Len(cmds) /\ BranchesDone(end) = 1 .. Len(cmds)
    BY DEF LabelsDone, BranchesDone, PassDone
  <2>2. \A c \in 1 .. Len(cmds) : cmds[c].code = "label" => labels[cmds[c].label] = c
    BY <1>1, <2>1 DEF Meaning, Progress
  <2>3. ASSUME NEW c \in 1 .. Len(cmds), cmds[c].code = "branch", cmds[c].label # NoLabel
        PROVE  labels[cmds[c].label] # 0
    BY <1>1, <2>1, <2>3, Zenon DEF Meaning, Progress
  <2>4. QED
    BY <2>2, <2>3
<1>7. ASSUME NEW l \in LabelName, NEW i \in Labelled(l)
      PROVE  \E c \in 1 .. Len(cmds) : IsItem(c, i) /\ labels[l] = c
  <2>1. i \in Items /\ source[i].code = "label" /\ source[i].label = l
    BY <1>7 DEF Labelled
  <2>2. PICK c \in 1 .. Len(cmds) : IsItem(c, i)
    BY <1>1, <2>1, ItemCommand
  <2>3. labels[l] = c
    BY <1>6, <2>1, <2>2 DEF IsItem
  <2>4. QED
    BY <2>2, <2>3
<1>8. \A l \in LabelName : Cardinality(Labelled(l)) <= 1
  <2> SUFFICES ASSUME NEW l \in LabelName, NEW i \in Labelled(l), NEW j \in Labelled(l)
               PROVE  i = j
    BY <1>3, LabelledOnce
  <2>1. PICK c \in 1 .. Len(cmds) : IsItem(c, i) /\ labels[l] = c
    BY <1>7
  <2>2. PICK d \in 1 .. Len(cmds) : IsItem(d, j) /\ labels[l] = d
    BY <1>7
  <2>3. QED
    BY <2>1, <2>2 DEF IsItem
<1>9. \A i \in Branches : Labelled(source[i].label) # {}
  <2> SUFFICES ASSUME NEW i \in Branches PROVE Labelled(source[i].label) # {}
    OBVIOUS
  <2>1. i \in Items /\ source[i].code = "branch" /\ source[i].label # NoLabel
    BY DEF Branches
  <2>2. PICK c \in 1 .. Len(cmds) : IsItem(c, i)
    BY <1>1, <2>1, ItemCommand
  <2>3. source[i].label \in LabelName
    <3>1. source[i] \in Item
      BY <1>3, <2>1 DEF Items
    <3>2. QED
      BY <2>1, <3>1 DEF Item
  <2>4. PICK l \in LabelName : l = source[i].label
    BY <2>3
  <2>5. labels[l] # 0
    BY <1>6, <2>1, <2>2, <2>4 DEF IsItem
  <2>6. PICK g \in 1 .. Len(cmds) : g = labels[l]
    <3>1. labels \in [LabelName -> 0 .. Len(cmds)] /\ Len(cmds) \in Nat
      <4>1. labels \in [LabelName -> 0 .. Len(cmds)] /\ cmds \in Seq(Command(Len(cmds), pos))
        BY DEF Inv, TypeOK
      <4>2. QED
        BY <4>1
    <3>2. labels[l] \in 0 .. Len(cmds)
      BY <3>1
    <3>3. QED
      BY <2>5, <3>1, <3>2
  <2>7. cmds[g].code = "label" /\ cmds[g].label = l
    BY <2>5, <2>6 DEF Inv, LabelsFound
  <2>8. IsItem(g, cmds[g].at)
    BY <1>1, CommandItem
  <2>9. QED
    BY <2>4, <2>7, <2>8 DEF IsItem, Labelled
<1>10. QED
  BY <1>4, <1>5, <1>8, <1>9 DEF WellFormed

\* Each of the four errors has its reason in the text.
LEMMA ScriptErrorRefuses == ASSUME Inv, Links, ScriptError PROVE ~WellFormed
<1> DEFINE i == pos + 1
<1>1. /\ stage = "parse" /\ pos < Len(source) /\ Refused /\ This = source[i]
  BY DEF ScriptError, Parsing, This
<1>2. PICK par, end : Meaning(par, end)
  BY <1>1 DEF Links
<1>3. source \in Seq(Item) /\ Len(source) \in Nat /\ pos \in Nat /\ nesting \in Nat
  BY <1>1, ParseTypes
<1>4. i \in Items /\ source[i].addrs \in 0 .. 2
  <2>1. i \in Items /\ source[i] \in Item
    BY <1>1, <1>3 DEF Items
  <2>2. QED
    BY <2>1 DEF Item
<1>5. CASE This.addrs > MaxAddrs(This.code)
  <2>1. source[i].code \in {"label", "end", "notEnd", "silence"} /\ source[i].addrs # 0
    BY <1>1, <1>4, <1>5 DEF MaxAddrs
  <2>2. QED
    BY <1>4, <2>1 DEF WellFormed
<1>6. CASE This.code = "label" /\ This.label = NoLabel
  BY <1>1, <1>4, <1>6 DEF WellFormed
<1>7. CASE This.code \in {"end", "notEnd"} /\ nesting = 0
  <2>1. Count(source, 1, pos, {"block"}) = nesting + Count(source, 1, pos, Closers)
    BY <1>2 DEF Meaning, TextHolds, TextFits
  <2>2. /\ Count(source, 1, i, {"block"})
             = Count(source, 1, pos, {"block"}) + OneOf(source[i].code, {"block"})
        /\ Count(source, 1, i, Closers)
             = Count(source, 1, pos, Closers) + OneOf(source[i].code, Closers)
    BY <1>3, CountStep
  <2>3. OneOf(source[i].code, {"block"}) = 0 /\ OneOf(source[i].code, Closers) = 1
    BY <1>1, <1>7 DEF OneOf, Closers
  <2>4. Count(source, 1, pos, Closers) \in Nat
    BY <1>3, CountTyped
  <2>5. ~(Count(source, 1, i, Closers) <= Count(source, 1, i, {"block"}))
    BY <1>7, <2>1, <2>2, <2>3, <2>4
  <2>6. ~(Among(1, i, {"end", "notEnd"}) <= Among(1, i, {"block"}))
    BY <2>5, AmongCounts DEF Closers
  <2>7. QED
    BY <1>4, <2>6 DEF WellFormed, Balanced
<1>8. QED
  BY <1>1, <1>5, <1>6, <1>7 DEF Refused

LEMMA VisitingNow ==
  ASSUME Inv, Visiting, NEW par, NEW end, Meaning(par, end), NEW c, c = Level.at
  PROVE  c \in 1 .. Len(cmds) /\ At = cmds[c] /\ c \notin Visited(Len(cmds), end, walk)
<1>1. stage \in Pass /\ c # 0
  BY DEF Visiting
<1>2. c \in 1 .. Len(cmds) /\ At = cmds[c]
  BY <1>1, AtCommand DEF IsAt
<1>3. /\ WalkFits(Len(cmds), par, walk) /\ Len(walk) \in Nat \ {0} /\ Level = walk[Len(walk)]
  BY <1>1, PassKnown
<1>4. CASE Level.entered = TRUE
  <2>1. IsPending(walk, c)
    BY <1>3, <1>4 DEF IsPending
  <2>2. QED
    BY <1>2, <2>1 DEF Visited
<1>5. CASE Level.entered # TRUE
  <2>1. Reached(Len(cmds), end, walk) = c
    BY <1>1, <1>3, <1>5 DEF Reached
  <2>2. QED
    BY <1>2, <2>1 DEF Visited
<1>6. QED
  BY <1>4, <1>5

LEMMA DuplicateRefuses == ASSUME Inv, Links, DuplicateLabel PROVE ~WellFormed
<1>1. Visiting /\ stage = "labels" /\ At.code = "label" /\ labels[At.label] # 0
  BY DEF DuplicateLabel, IsDuplicate
<1>2. PICK par, end : Meaning(par, end)
  BY <1>1 DEF Links
<1>3. PICK c \in 1 .. Len(cmds) : At = cmds[c] /\ c \notin Visited(Len(cmds), end, walk)
  BY <1>1, <1>2, VisitingNow
<1>4. source \in Seq(Item) /\ labels \in [LabelName -> 0 .. Len(cmds)]
  BY DEF Inv, TypeOK
<1>5. IsItem(c, cmds[c].at)
  BY <1>2, CommandItem
<1>6. cmds[c].label = NoLabel => ~WellFormed
  BY <1>1, <1>3, <1>5 DEF IsItem, WellFormed
<1>7. CASE cmds[c].label # NoLabel
  <2>1. PICK l \in LabelName : l = cmds[c].label
    <3>1. source[cmds[c].at] \in Item
      BY <1>4, <1>5 DEF IsItem, Items
    <3>2. QED
      BY <1>5, <1>7, <3>1 DEF IsItem, Item
  <2>2. labels[l] \in LabelsDone(end) /\ labels[l] # 0
    BY <1>1, <1>2, <1>3, <2>1 DEF Meaning, Progress
  <2>3. LabelsDone(end) = Visited(Len(cmds), end, walk)
    BY <1>1 DEF LabelsDone, PassDone
  <2>4. PICK d \in 1 .. Len(cmds) : d = labels[l] /\ d # c
    BY <1>3, <2>2, <2>3 DEF Visited
  <2>5. cmds[d].code = "label" /\ cmds[d].label = l
    BY <2>2, <2>4 DEF Inv, LabelsFound
  <2>6. IsItem(d, cmds[d].at)
    BY <1>2, CommandItem
  <2>7. cmds[c].at # cmds[d].at
    BY <1>2, <2>4, ItemsDiffer
  <2>8. cmds[c].at \in Labelled(l) /\ cmds[d].at \in Labelled(l)
    BY <1>1, <1>3, <1>5, <2>1, <2>5, <2>6 DEF IsItem, Labelled
  <2>9. ~(Cardinality(Labelled(l)) <= 1)
    BY <1>4, <2>7, <2>8, LabelledOnce
  <2>10. QED
    BY <2>9 DEF WellFormed
<1>8. QED
  BY <1>6, <1>7

LEMMA UndefinedRefuses == ASSUME Inv, Links, UndefinedLabel PROVE ~WellFormed
<1>1. /\ Visiting /\ stage = "resolve"
      /\ At.code = "branch" /\ At.label # NoLabel /\ labels[At.label] = 0
  BY DEF UndefinedLabel, IsUndefined
<1>2. PICK par, end : Meaning(par, end)
  BY <1>1 DEF Links
<1>3. PICK c \in 1 .. Len(cmds) : At = cmds[c]
  BY <1>1, <1>2, VisitingNow
<1>4. IsItem(c, cmds[c].at)
  BY <1>2, CommandItem
<1>5. PICK l : l = cmds[c].label
  OBVIOUS
<1>6. cmds[c].at \in Branches /\ source[cmds[c].at].label = l /\ labels[l] = 0
  BY <1>1, <1>3, <1>4, <1>5 DEF IsItem, Branches
<1>7. ASSUME NEW i \in Labelled(l) PROVE FALSE
  <2>1. i \in Items /\ source[i].code = "label" /\ source[i].label = l
    BY <1>7 DEF Labelled
  <2>2. PICK d \in 1 .. Len(cmds) : IsItem(d, i)
    BY <1>1, <1>2, <2>1, ItemCommand
  <2>3. LabelsDone(end) = 1 .. Len(cmds)
    BY <1>1 DEF LabelsDone, PassDone
  <2>4. labels[cmds[d].label] = d
    BY <1>2, <2>1, <2>2, <2>3 DEF Meaning, Progress, IsItem
  <2>5. QED
    BY <1>6, <2>1, <2>2, <2>4 DEF IsItem
<1>8. QED
  BY <1>6, <1>7 DEF WellFormed

LEMMA UnmatchedRefuses == ASSUME Inv, Links, Unmatched PROVE ~WellFormed
<1>1. stage = "resolve" /\ nesting > 0
  BY DEF Unmatched
<1>2. PICK par, end : Meaning(par, end)
  BY <1>1 DEF Links
<1>3. /\ pos = Len(source)
      /\ Count(source, 1, pos, {"block"}) = nesting + Count(source, 1, pos, Closers)
  BY <1>1, <1>2 DEF Meaning, TextHolds, TextFits
<1>4. pos \in Nat /\ nesting \in Nat
  <2>1. source \in Seq(Item) /\ pos \in 0 .. Len(source) /\ nesting \in 0 .. Len(source)
    BY DEF Inv, TypeOK
  <2>2. QED
    BY <2>1
<1>5. Count(source, 1, pos, Closers) \in Nat
  BY <1>4, CountTyped
<1>6. Count(source, 1, pos, {"block"}) # Count(source, 1, pos, Closers)
  BY <1>1, <1>3, <1>4, <1>5
<1>7. Among(1, Len(source), {"end", "notEnd"}) # Among(1, Len(source), {"block"})
  BY <1>3, <1>6, AmongCounts DEF Closers
<1>8. QED
  BY <1>7 DEF WellFormed, Balanced

FailedForReason == stage = "failed" => ~WellFormed

LEMMA NextFailed == Inv /\ Links /\ FailedForReason /\ [Next]_vars => FailedForReason'
<1> SUFFICES ASSUME Inv, Links, FailedForReason, [Next]_vars, stage' = "failed"
             PROVE  ~WellFormed'
  BY DEF FailedForReason
<1>1. /\ source' = source
      /\ \/ stage = "failed" \/ ScriptError \/ DuplicateLabel \/ UndefinedLabel \/ Unmatched
  <2>1. CASE UNCHANGED vars
    BY <2>1 DEF vars
  <2>2. CASE Next
    BY <2>2 DEF Next, AddCommand, Silence, OpenBlock, CloseBlock, EndOfBlock,
       EndOfScript, ScriptError, Descend, Ascend, PopulateLabel, DuplicateLabel,
       LabelsPopulated, PopulateRange, RangesPopulated, ResolveBranch, UndefinedLabel,
       BranchesResolved, Unmatched, PatchEnding, EndingsPatched, Terminated,
       Compile, Parsing, Visiting, Ended, Pass, Fail, vars
  <2>3. QED
    BY <2>1, <2>2
<1>2. ~WellFormed
  BY <1>1, ScriptErrorRefuses, DuplicateRefuses, UndefinedRefuses, UnmatchedRefuses
     DEF FailedForReason
<1>3. QED
  BY <1>1, <1>2 DEF WellFormed, Balanced, Items, Among, Labelled, Branches

-----------------------------------------------------------------------------
(* The links of the script that is compiled.                               *)

\* The { at i is matched by what closes it.
LEMMA MatchingCloses ==
  ASSUME Len(source) \in Nat, NEW i \in Nat, NEW j, Closes(source, i, j)
  PROVE  Matching(i) = j
<1> DEFINE P(x) == /\ x > Len(source) \/ Among(i, x, {"block"}) = Among(i, x, {"end"})
                   /\ \A k \in i .. x - 1 : Among(i, k, {"block"}) > Among(i, k, {"end"})
<1>1. \A x \in i .. Len(source) + 1 : P(x) <=> Closes(source, i, x)
  BY AmongCounts DEF Closes
<1>2. j \in i .. Len(source) + 1
  BY DEF Closes
<1>3. \A x \in i .. Len(source) + 1 : P(x) <=> x = j
  <2>1. ASSUME NEW x \in i .. Len(source) + 1, P(x) PROVE x = j
    <3>1. Closes(source, i, x)
      BY <1>1, <2>1
    <3>2. QED
      BY <3>1, ClosesOnce
  <2>2. P(j)
    BY <1>1, <1>2
  <2>3. QED
    BY <2>1, <2>2
<1> HIDE DEF P
<1>4. (CHOOSE x \in i .. Len(source) + 1 : P(x)) = j
  BY <1>2, <1>3
<1>5. QED
  BY <1>4 DEF Matching, P

\* The script goes on behind item j with the command e.
LEMMA ResumeAt ==
  ASSUME NEW n \in Nat, DOMAIN cmds = 1 .. n, NEW e \in 1 .. n + 1, NEW j \in Nat,
         \A d \in 1 .. n : cmds[d].at \in Nat /\ (d >= e <=> cmds[d].at > j)
  PROVE  Resume(1 + j) = IF e = n + 1 THEN 0 ELSE e
<1> DEFINE later == {c \in DOMAIN cmds : cmds[c].at >= 1 + j}
<1>1. later = e .. n
  <2>1. ASSUME NEW d \in later PROVE d \in e .. n
    <3>1. d \in 1 .. n /\ cmds[d].at \in Nat /\ cmds[d].at >= 1 + j
      OBVIOUS
    <3>2. d >= e
      BY <3>1
    <3>3. QED
      BY <3>1, <3>2
  <2>2. ASSUME NEW d \in e .. n PROVE d \in later
    <3>1. d \in 1 .. n /\ d >= e
      OBVIOUS
    <3>2. cmds[d].at \in Nat /\ cmds[d].at > j
      BY <3>1
    <3>3. QED
      BY <3>1, <3>2
  <2> HIDE DEF later
  <2>3. QED
    BY <2>1, <2>2
<1>2. Resume(1 + j) = IF later = {} THEN 0 ELSE CHOOSE c \in later : \A d \in later : c <= d
  BY DEF Resume
<1> HIDE DEF later
<1>3. CASE e = n + 1
  <2>1. later = {}
    BY <1>1, <1>3
  <2>2. QED
    BY <1>2, <1>3, <2>1
<1>4. CASE e # n + 1
  <2>1. e \in later /\ \A d \in later : e <= d
    BY <1>1, <1>4
  <2>2. \A c \in later : (\A d \in later : c <= d) <=> c = e
    <3>1. ASSUME NEW c \in later, \A d \in later : c <= d PROVE c = e
      <4>1. c <= e /\ e <= c /\ c \in Int
        BY <1>1, <2>1, <3>1
      <4>2. QED
        BY <4>1
    <3>2. QED
      BY <2>1, <3>1
  <2>3. (CHOOSE c \in later : \A d \in later : c <= d) = e
    BY <2>1, <2>2
  <2>4. later # {}
    BY <2>1
  <2>5. QED
    BY <1>2, <1>4, <2>3, <2>4
<1>5. QED
  BY <1>3, <1>4

\* A block with more than #n in it has a command in it.
LEMMA InBlock ==
  ASSUME NEW s, Len(s) \in Nat, NEW i \in Nat, s[i].code = "block", NEW j, Closes(s, i, j),
         NEW k \in i + 1 .. j - 1, s[k].code # "silence"
  PROVE  \E m \in i + 1 .. j - 1 : s[m].code \notin {"end", "silence"}
<1>1. CASE s[k].code # "end"
  BY <1>1
<1>2. CASE s[k].code = "end"
  <2>1. /\ j \in Int /\ k \in Int /\ i < k /\ k \in i .. j - 1
        /\ Count(s, i, k, {"block"}) > Count(s, i, k, {"end"})
    BY DEF Closes
  <2>2. Count(s, i, k, {"end"}) \in Nat /\ Count(s, i, k, {"block"}) \in Nat
    BY <2>1, CountTyped
  <2>3. Count(s, i, k, {"end"}) # 0
    <3>1. k \in Found(s, i, k, {"end"})
      <4>1. k \in i .. k
        BY <2>1
      <4>2. QED
        BY <1>2, <4>1 DEF Found
    <3>2. IsFiniteSet(Found(s, i, k, {"end"}))
      BY <2>1, CountFinite
    <3>3. QED
      BY <3>1, <3>2, FS_EmptySet DEF Count
  <2>4. \E m \in Found(s, i, k, {"block"}) : m # i
    <3> SUFFICES ASSUME \A m \in Found(s, i, k, {"block"}) : m = i PROVE FALSE
      OBVIOUS
    <3>1. i \in Found(s, i, k, {"block"})
      BY <2>1 DEF Found
    <3>2. Found(s, i, k, {"block"}) = {i}
      BY <3>1
    <3>3. Count(s, i, k, {"block"}) = 1
      BY <3>2, FS_Singleton DEF Count
    <3>4. QED
      BY <2>1, <2>2, <2>3, <3>3
  <2>5. PICK m \in i + 1 .. j - 1 : s[m].code = "block"
    BY <2>1, <2>4 DEF Found
  <2>6. QED
    BY <2>5
<1>3. QED
  BY <1>1, <1>2

\* What is known of a command of a script that is compiled.
LEMMA DoneCommand ==
  ASSUME Inv, stage = "done", NEW par, NEW end, Meaning(par, end), NEW n, n = Len(cmds),
         NEW c \in 1 .. n
  PROVE  /\ n \in Nat /\ DOMAIN cmds = 1 .. n /\ Len(source) \in Nat
         /\ \A d \in 1 .. n : IsItem(d, cmds[d].at) /\ cmds[d].at \in 1 .. Len(source)
         /\ \A d \in 1 .. n : d >= c + 1 <=> cmds[d].at > cmds[c].at
         /\ end[c] \in c + 1 .. n + 1
         /\ cmds[c].next = Follow(n, end, c)
         /\ cmds[c].code = "block" => cmds[c].goto = GotoOf(end, c)
<1>1. n \in Nat /\ DOMAIN cmds = 1 .. n /\ Len(source) \in Nat
  <2>1. cmds \in Seq(Command(Len(cmds), pos)) /\ source \in Seq(Item)
    BY DEF Inv, TypeOK
  <2>2. QED
    BY <2>1
<1>2. \A d \in 1 .. n : IsItem(d, cmds[d].at) /\ cmds[d].at \in 1 .. Len(source)
  BY CommandItem DEF IsItem, Items
<1>3. ASSUME NEW d \in 1 .. n PROVE d >= c + 1 <=> cmds[d].at > cmds[c].at
  <2>1. CommandFits(source, cmds, c) /\ CommandFits(source, cmds, d)
    BY DEF Meaning, TextHolds, TextFits
  <2>2. cmds[c].at \in Int /\ cmds[d].at \in Int
    BY <1>2
  <2>3. c < d => cmds[c].at < cmds[d].at
    BY <2>1 DEF CommandFits
  <2>4. d < c => cmds[d].at < cmds[c].at
    BY <2>1 DEF CommandFits
  <2>5. CASE c < d
    BY <2>2, <2>3, <2>5
  <2>6. CASE d < c
    BY <2>2, <2>4, <2>6
  <2>7. CASE c = d
    BY <2>2, <2>7
  <2>8. QED
    BY <1>1, <2>5, <2>6, <2>7
<1>4. Tree(n, Blocks, par, end) /\ Closed(n, end) /\ LinksAre(n, cmds, par, end, 1 .. n)
  <2>1. Patched(end) = 1 .. n
    BY DEF Patched, PassDone
  <2>2. stage # "parse"
    OBVIOUS
  <2>3. QED
    BY <2>1, <2>2, Zenon DEF Meaning, Graph
<1>5. NextFits(n, par, end, c, OwnNext(n, par, end, c))
  BY <1>1, <1>4, OwnNextFits
<1>6. end[c] \in c + 1 .. n + 1 /\ par[c] \in 0 .. n
  BY <1>5 DEF NextFits
<1>7. cmds[c].next = NextOf(n, par, end, 1 .. n, c)
      /\ (cmds[c].code = "block" => cmds[c].goto = GotoOf(end, c))
  BY <1>4 DEF LinksAre
<1>8. NextOf(n, par, end, 1 .. n, c) = Follow(n, end, c)
  <2>1. CASE end[c] = n + 1
    BY <2>1 DEF NextOf, Follow
  <2>2. CASE end[c] # n + 1
    <3>1. end[c] \in 1 .. n /\ end[c] # 0 /\ end[end[c]] # 0
      BY <1>1, <1>4, <1>6, <2>2 DEF Closed
    <3>2. ASSUME ~(end[c] < Limit(n, end, par[c])) PROVE par[c] \in 1 .. n
      <4>1. par[c] # 0
        BY <1>1, <1>6, <2>2, <3>1, <3>2 DEF Limit
      <4>2. QED
        BY <1>1, <1>6, <4>1
    <3>3. HasNext(n, par, end, 1 .. n, c)
      BY <3>1, <3>2 DEF HasNext
    <3>4. QED
      BY <3>3 DEF NextOf
  <2>3. QED
    BY <2>1, <2>2
<1>9. QED
  BY <1>1, <1>2, <1>3, <1>6, <1>7, <1>8
-----------------------------------------------------------------------------
(* Theorems.                                                               *)

\* compile keeps its variables in their types for scripts of any length and
\* nesting: every link leads to a command of the script or to its end.
THEOREM TypeCorrect == Spec => []TypeOK
<1>1. Inv => TypeOK
  BY DEF Inv
<1>2. QED
  BY <1>1, InvHolds, PTL

\* No } ends the outermost compile_sequence, so that no part of a script is
\* left out, with or without negated }.
THEOREM NothingCutOff == Spec => []ClosesInside
<1>1. Inv => ClosesInside
  BY DEF Inv
<1>2. QED
  BY <1>1, InvHolds, PTL

\* A branch that goes anywhere goes to the : command with its label.
BranchesLeadToLabels ==
  \A c \in DOMAIN cmds :
    cmds[c].code = "branch" /\ cmds[c].goto # 0 =>
      /\ cmds[cmds[c].goto].code = "label"
      /\ cmds[cmds[c].goto].label = cmds[c].label

\* Whatever the passes do to links, b, t and T of compiler.rs lead to their
\* labels at every step, and nowhere before the labels are known.
THEOREM BranchesCorrect == Spec => []BranchesLeadToLabels
<1>1. Inv => BranchesLeadToLabels
  BY DEF Inv, LabelsFound, BranchesMapped, BranchesLeadToLabels
<1>2. QED
  BY <1>1, InvHolds, PTL

\* populate_range_commands collects every command with two addresses, in
\* whatever block it is, and each one once: no latch is left out of the reset
\* between separate files.
THEOREM LatchesCollected == Spec => []RangesCollected
<1>1. Inv /\ Links => RangesCollected
  <2> SUFFICES ASSUME Inv, Links, stage \in {"resolve", "patch", "done"}
               PROVE  /\ \A c \in DOMAIN cmds :
                           cmds[c].addrs = 2 <=> \E i \in DOMAIN ranges : ranges[i] = c
                      /\ \A i, j \in DOMAIN ranges : ranges[i] = ranges[j] => i = j
    BY DEF RangesCollected
  <2>1. PICK par, end : Meaning(par, end)
    BY DEF Links
  <2>2. RangesDone(end) = 1 .. Len(cmds)
    BY DEF RangesDone, PassDone
  <2>3. DOMAIN cmds = 1 .. Len(cmds)
    <3>1. cmds \in Seq(Command(Len(cmds), pos))
      BY DEF Inv, TypeOK
    <3>2. QED
      BY <3>1
  <2>4. QED
    BY <2>1, <2>2, <2>3 DEF Meaning, Progress
<1>2. QED
  BY <1>1, InvHolds, LinksHold, PTL

\* A branch leads to its label, whichever blocks the two are in: the compiler
\* resolves b, t and T after all labels are known.
THEOREM BranchesFollow == Spec => []BranchesFollowText
<1>1. Inv /\ Links => BranchesFollowText
  <2> SUFFICES ASSUME Inv, Links, stage = "done", NEW c \in DOMAIN cmds, cmds[c].code = "branch"
               PROVE  IF cmds[c].label = NoLabel THEN cmds[c].goto = 0
                      ELSE cmds[c].goto # 0 /\ cmds[cmds[c].goto].at \in Labelled(cmds[c].label)
    BY DEF BranchesFollowText
  <2>1. PICK par, end : Meaning(par, end)
    BY DEF Links
  <2>2. /\ c \in 1 .. Len(cmds) /\ cmds[c].label \in LabelName \cup {NoLabel}
        /\ labels \in [LabelName -> 0 .. Len(cmds)]
    <3>1. cmds \in Seq(Command(Len(cmds), pos)) /\ labels \in [LabelName -> 0 .. Len(cmds)]
      BY DEF Inv, TypeOK
    <3>2. c \in 1 .. Len(cmds) /\ cmds[c] \in Command(Len(cmds), pos)
      BY <3>1
    <3>3. QED
      BY <3>1, <3>2 DEF Command
  <2>3. c \in BranchesDone(end)
    BY <2>2 DEF BranchesDone, PassDone
  <2>4. IF cmds[c].label = NoLabel THEN cmds[c].goto = 0
        ELSE labels[cmds[c].label] # 0 /\ cmds[c].goto = labels[cmds[c].label]
    BY <2>1, <2>3, Zenon DEF Meaning, Progress
  <2>5. CASE cmds[c].label = NoLabel
    BY <2>4, <2>5
  <2>6. CASE cmds[c].label # NoLabel
    <3>1. PICK l \in LabelName : l = cmds[c].label
      BY <2>2, <2>6
    <3>2. PICK g \in 1 .. Len(cmds) : g = cmds[c].goto /\ g = labels[l] /\ g # 0
      BY <2>2, <2>4, <2>6, <3>1
    <3>3. cmds[g].code = "label" /\ cmds[g].label = l
      BY <3>2 DEF Inv, LabelsFound
    <3>4. IsItem(g, cmds[g].at)
      BY <2>1, CommandItem
    <3>5. cmds[g].at \in Labelled(l)
      BY <3>3, <3>4 DEF IsItem, Labelled
    <3>6. QED
      BY <2>6, <3>1, <3>2, <3>5
  <2>7. QED
    BY <2>5, <2>6
<1>2. QED
  BY <1>1, InvHolds, LinksHold, PTL

\* compile refuses a script if and only if the text gives a reason.
THEOREM MalformedRefused == Spec => []RefusesMalformed
<1>1. Init => FailedForReason
  BY DEF Init, FailedForReason
<1>2. Inv /\ Links /\ FailedForReason /\ [Next]_vars => FailedForReason'
  BY NextFailed
<1>3. Inv /\ Links /\ FailedForReason => RefusesMalformed
  BY DoneWellFormed DEF RefusesMalformed, FailedForReason
<1>4. QED
  BY <1>1, <1>2, <1>3, InvHolds, LinksHold, PTL DEF Spec

\* Each command is followed by the one that the text has behind it and behind
\* the blocks that end there, and a block is entered at its first command: the
\* result of compile_sequence and patch_block_endings.
THEOREM LinksFollow == Spec => []LinksFollowText
<1>1. ASSUME Inv, Links, stage = "done", NEW c \in DOMAIN cmds
      PROVE  /\ cmds[c].next = FollowedBy(cmds[c].at)
             /\ cmds[c].code = "block" /\ ~IsEmptyBlock(cmds[c].at)
                  => cmds[c].goto = Resume(cmds[c].at + 1)
  <2> DEFINE n == Len(cmds)
             i == cmds[c].at
  <2>1. PICK par, end : Meaning(par, end)
    BY <1>1 DEF Links
  <2>2. c \in 1 .. n
    <3>1. cmds \in Seq(Command(Len(cmds), pos))
      BY <1>1 DEF Inv, TypeOK
    <3>2. QED
      BY <1>1, <3>1
  <2>3. /\ n \in Nat /\ DOMAIN cmds = 1 .. n /\ Len(source) \in Nat
        /\ \A d \in 1 .. n : IsItem(d, cmds[d].at) /\ cmds[d].at \in 1 .. Len(source)
        /\ \A d \in 1 .. n : d >= c + 1 <=> cmds[d].at > i
        /\ end[c] \in c + 1 .. n + 1
        /\ cmds[c].next = Follow(n, end, c)
        /\ cmds[c].code = "block" => cmds[c].goto = GotoOf(end, c)
    BY <1>1, <2>1, <2>2, DoneCommand
  <2>4. PICK j \in 1 .. Len(source) + 1 :
          EndsAt(source, cmds[c].code, i, j) /\ Extent(cmds, end, c, j)
    <3>1. TextFits(source, pos, nesting, cmds, end)
      BY <2>1 DEF Meaning, TextHolds
    <3>2. end[c] # 0
      BY <2>2, <2>3
    <3>3. BodyFits(source, pos, cmds, end, c)
      BY <2>2, <3>1, <3>2 DEF TextFits
    <3>4. QED
      BY <3>3 DEF BodyFits
  <2>5. source[i].code = cmds[c].code /\ i \in Nat /\ i \in 1 .. Len(source)
    BY <2>2, <2>3 DEF IsItem
  <2>6. FollowedBy(i) = Resume(1 + j)
    <3>1. cmds[c].code = "block" => Matching(i) = j
      BY <2>3, <2>4, <2>5, MatchingCloses DEF EndsAt
    <3>2. QED
      BY <2>4, <2>5, <3>1 DEF FollowedBy, EndsAt
  <2> HIDE DEF n, i
  <2>7. Resume(1 + j) = IF end[c] = n + 1 THEN 0 ELSE end[c]
    <3>1. \A d \in 1 .. n : cmds[d].at \in Nat /\ (d >= end[c] <=> cmds[d].at > j)
      BY <2>3, <2>4 DEF Extent, n
    <3>2. end[c] \in 1 .. n + 1 /\ j \in Nat
      BY <2>2, <2>3, <2>4
    <3>3. QED
      BY <2>3, <3>1, <3>2, ResumeAt
  <2>8. cmds[c].next = FollowedBy(i)
    BY <2>3, <2>6, <2>7 DEF Follow
  <2>9. ASSUME cmds[c].code = "block", ~IsEmptyBlock(i)
        PROVE  cmds[c].goto = Resume(i + 1)
    <3>1. Closes(source, i, j) /\ Matching(i) = j
      BY <2>3, <2>4, <2>5, <2>9, MatchingCloses DEF EndsAt
    <3>2. PICK k \in i + 1 .. j - 1 : source[k].code # "silence"
      BY <2>9, <3>1 DEF IsEmptyBlock
    <3>3. PICK m \in i + 1 .. j - 1 : source[m].code \notin {"end", "silence"}
      BY <2>3, <2>5, <2>9, <3>1, <3>2, InBlock
    <3>4. m \in Items
      BY <2>3, <2>4, <2>5 DEF Items
    <3>5. PICK d \in 1 .. n : IsItem(d, m)
      BY <1>1, <2>1, <3>3, <3>4, ItemCommand DEF n
    <3>6. d >= c + 1 /\ ~(d >= end[c])
      BY <2>3, <2>4, <2>5, <3>3, <3>5 DEF IsItem, Extent, n
    <3>7. end[c] # c + 1 /\ c + 1 \in 1 .. n
      BY <2>2, <2>3, <3>6
    <3>8. cmds[c].goto = c + 1
      BY <2>2, <2>3, <2>9, <3>7 DEF GotoOf
    <3>9. Resume(1 + i) = c + 1
      <4>1. c + 1 \in 1 .. n + 1 /\ c + 1 # n + 1
        BY <2>3, <3>7
      <4>2. \A x \in 1 .. n : cmds[x].at \in Nat /\ (x >= c + 1 <=> cmds[x].at > i)
        BY <2>3
      <4>3. PICK e \in 1 .. n + 1 : e = c + 1
        BY <4>1
      <4>4. \A x \in 1 .. n : cmds[x].at \in Nat /\ (x >= e <=> cmds[x].at > i)
        BY <4>2, <4>3
      <4>5. n \in Nat /\ DOMAIN cmds = 1 .. n /\ i \in Nat
        BY <2>3, <2>5
      <4>6. Resume(1 + i) = IF e = n + 1 THEN 0 ELSE e
        BY ONLY <4>4, <4>5, e \in 1 .. n + 1, ResumeAt
      <4>7. QED
        BY <4>1, <4>3, <4>6
    <3>10. 1 + i = i + 1
      BY <2>5
    <3>11. QED
      BY <3>8, <3>9, <3>10
  <2>10. QED
    BY <2>8, <2>9 DEF i
<1>2. Inv /\ Links => LinksFollowText
  BY <1>1 DEF LinksFollowText
<1>3. QED
  BY <1>2, InvHolds, LinksHold, PTL
=============================================================================
