------------------------------- MODULE Linker -------------------------------
(***************************************************************************)
(* How compile of compiler.rs makes a graph of commands out of a script:   *)
(* compile_sequence builds a chain of commands, and a chain of its own for *)
(* each block; further passes collect labels and range commands, resolve   *)
(* branches, and tie the end of each block to what follows the block.      *)
(*                                                                         *)
(* A script is the sequence of its items: a command with its code, the     *)
(* number of its addresses and its label, or the } that closes a block.    *)
(* The codes are "block" for {, "end" for }, "notEnd" for a } with a !,    *)
(* "label" for :, "branch" for b, t and T, "other" for a command that only *)
(* the links of its neighbours concern, and "silence" for a comment that   *)
(* starts with #n and is the first line of an -e or -f.                    *)
(* cmds holds the commands in the order of their creation; next and goto   *)
(* are positions in it, 0 standing for None.                               *)
(* The passes are recursive loops of the same shape, a call for each chain *)
(* of the tree: walk is the stack of the calls, each at its command.       *)
(***************************************************************************)
EXTENDS Integers, Sequences, FiniteSets

CONSTANTS LabelName,  \* the labels
          NoLabel,    \* a b without a label
          Sources     \* scripts to compile

ItemCode == {"block", "end", "notEnd", "label", "branch", "other", "silence"}

Item == [code : ItemCode, addrs : 0 .. 2, label : LabelName \cup {NoLabel}]

ASSUME NoLabelAssumption == NoLabel \notin LabelName

ASSUME SourcesAssumption == Sources \subseteq Seq(Item)

VARIABLES source,   \* the script
          stage,    \* where compile stands
          pos,      \* how many items are compiled
          nesting,  \* context.parsed_block_nesting
          quiet,    \* context.quiet, set by #n
          cmds,     \* the commands
          frames,   \* the calls of compile_sequence: head, tail, and { command
          labels,   \* context.label_to_command_map
          ranges,   \* context.range_commands
          walk      \* the calls of the pass that is under way

parseVars == <<pos, nesting, quiet, frames>>
vars == <<source, stage, parseVars, cmds, labels, ranges, walk>>
-----------------------------------------------------------------------------
This == source[pos + 1]
New  == Len(cmds) + 1
Top   == frames[1].head
Depth == Len(frames)
Frame == frames[Depth]
Open(block) == [head |-> 0, tail |-> 0, block |-> block]
Call(c, parent) == [at |-> c, entered |-> FALSE, parent |-> parent]

\* The command this item compiles to, not linked yet.
Compiled == [code |-> This.code, addrs |-> This.addrs, label |-> This.label,
             next |-> 0, goto |-> 0, at |-> pos + 1]

MaxAddrs(code) == IF code \in {"label", "end", "notEnd", "silence"} THEN 0 ELSE 2

\* Mutation: a } with a negation is compiled without looking at the nesting.
RefusedUnlessNegated ==
  \/ This.addrs > MaxAddrs(This.code)
  \/ This.code = "label" /\ This.label = NoLabel
  \/ This.code = "end" /\ nesting = 0

\* get_verified_cmd_spec, and the errors of the handlers of : and }.
Refused ==
  \/ This.addrs > MaxAddrs(This.code)
  \/ This.code = "label" /\ This.label = NoLabel
  \/ This.code \in {"end", "notEnd"} /\ nesting = 0

WithNext(prog, c, next) == [prog EXCEPT ![c].next = next]
WithGoto(prog, c, goto) == [prog EXCEPT ![c].goto = goto]

\* The command c becomes the last one of the chain of frame f.
Chained(prog, f, c) == IF f.tail = 0 THEN prog ELSE WithNext(prog, f.tail, c)

Extended(f, c) ==
  [f EXCEPT !.head = IF f.head = 0 THEN c ELSE f.head, !.tail = c]
-----------------------------------------------------------------------------
(* compile_sequence                                                        *)

Parsing == stage = "parse" /\ pos < Len(source)

Compile == Parsing /\ ~Refused

\* Mutation: the nesting is never left.
NestingKept == nesting

\* A } with a negation has closed the block as far as the nesting goes.
NestingAfter == IF This.code \in {"end", "notEnd"} THEN nesting - 1 ELSE nesting

\* A command that the loop links; !} is one, since what its handler returns is
\* looked at only for the first of the two characters.
AddCommand ==
  /\ Compile /\ This.code \in {"label", "branch", "other", "notEnd"}
  /\ cmds' = Append(Chained(cmds, Frame, New), Compiled)
  /\ frames' = [frames EXCEPT ![Depth] = Extended(@, New)]
  /\ nesting' = NestingAfter
  /\ pos' = pos + 1
  /\ UNCHANGED <<source, stage, quiet, labels, ranges, walk>>

\* #n at the start of a line 1; every -e and -f has one.
Silence ==
  /\ Compile /\ This.code = "silence"
  /\ quiet' = TRUE
  /\ pos' = pos + 1
  /\ UNCHANGED <<source, stage, nesting, frames, cmds, labels, ranges, walk>>

\* {: compile_block_command calls compile_sequence; the command is linked when
\* that returns.
OpenBlock ==
  /\ Compile /\ This.code = "block"
  /\ cmds' = Append(cmds, Compiled)
  /\ frames' = Append(frames, Open(New))
  /\ nesting' = nesting + 1
  /\ pos' = pos + 1
  /\ UNCHANGED <<source, stage, quiet, labels, ranges, walk>>

\* compile_sequence returns to compile_block_command, which makes the chain
\* the body of the block, and the loop around it links the block.
BlockDone ==
  LET outer == frames[Depth - 1]
      block == Frame.block
  IN  /\ cmds' = Chained(WithGoto(cmds, block, Frame.head), outer, block)
      /\ frames' = [SubSeq(frames, 1, Depth - 1) EXCEPT
                      ![Depth - 1] = Extended(@, block)]

CloseBlock ==
  /\ Compile /\ This.code = "end"
  /\ nesting' = NestingAfter
  /\ pos' = pos + 1
  /\ BlockDone
  /\ UNCHANGED <<source, stage, quiet, labels, ranges, walk>>

\* The script ends inside a block: this compile_sequence returns too.
EndOfBlock ==
  /\ stage = "parse" /\ pos = Len(source) /\ Depth > 1
  /\ BlockDone
  /\ UNCHANGED <<source, stage, pos, nesting, quiet, labels, ranges, walk>>

EndOfScript ==
  /\ stage = "parse" /\ pos = Len(source) /\ Depth = 1
  /\ stage' = "labels" /\ walk' = <<Call(Top, 0)>>
  /\ UNCHANGED <<source, parseVars, cmds, labels, ranges>>

Fail ==
  /\ stage' = "failed"
  /\ UNCHANGED <<source, parseVars, cmds, labels, ranges, walk>>

ScriptError == Parsing /\ Refused /\ Fail
-----------------------------------------------------------------------------
(* The passes: labels, range commands, branches, and the ends of blocks.   *)

Pass == {"labels", "ranges", "resolve", "patch"}

Level == walk[Len(walk)]
At    == cmds[Level.at]

\* The body of a block.
Body == IF At.code = "block" THEN At.goto ELSE 0

\* Mutation: the last command of a block is tied only to what follows in the
\* sequence the block is in.
SpliceOwn == At.next

\* What follows the command: the next one, or what follows the block it is in.
Splice == IF At.next # 0 THEN At.next ELSE Level.parent

\* The pass calls itself for the body of a block.
Descend ==
  /\ stage \in Pass /\ Level.at # 0 /\ Body # 0 /\ ~Level.entered
  /\ walk' = Append([walk EXCEPT ![Len(walk)].entered = TRUE],
                    Call(Body, IF stage = "patch" THEN Splice ELSE 0))
  /\ UNCHANGED <<source, stage, parseVars, cmds, labels, ranges>>

\* The end of a chain: the pass returns to the block.
Ascend ==
  /\ stage \in Pass /\ Level.at = 0 /\ Len(walk) > 1
  /\ walk' = SubSeq(walk, 1, Len(walk) - 1)
  /\ UNCHANGED <<source, stage, parseVars, cmds, labels, ranges>>

\* The command itself is dealt with, after its body if it is a block.
Visiting == stage \in Pass /\ Level.at # 0 /\ (Body = 0 \/ Level.entered)

\* Mutation: the loop stays at a block whose body it has passed.
ToNextAgain ==
  walk' = [walk EXCEPT ![Len(walk)] =
             [@ EXCEPT !.at = IF Level.entered THEN @ ELSE At.next, !.entered = FALSE]]

\* The loop goes on along the chain.
ToNext ==
  walk' = [walk EXCEPT ![Len(walk)] = [@ EXCEPT !.at = At.next, !.entered = FALSE]]

Ended == stage \in Pass /\ Level.at = 0 /\ Len(walk) = 1

Restart == walk' = <<Call(Top, 0)>>

\* Mutation: the last of several equal labels counts.
IsDuplicateNever == FALSE

IsDuplicate == At.code = "label" /\ labels[At.label] # 0

\* populate_label_map
PopulateLabel ==
  /\ Visiting /\ stage = "labels" /\ ~IsDuplicate
  /\ labels' = IF At.code = "label" THEN [labels EXCEPT ![At.label] = Level.at] ELSE labels
  /\ ToNext
  /\ UNCHANGED <<source, stage, parseVars, cmds, ranges>>

DuplicateLabel == Visiting /\ stage = "labels" /\ IsDuplicate /\ Fail

LabelsPopulated ==
  /\ Ended /\ stage = "labels"
  /\ stage' = "ranges" /\ Restart
  /\ UNCHANGED <<source, parseVars, cmds, labels, ranges>>

\* Mutation: a block with a range is left out.
IsRangeCommandNoBlock == At.addrs = 2 /\ At.code # "block"

IsRangeCommand == At.addrs = 2

\* populate_range_commands
PopulateRange ==
  /\ Visiting /\ stage = "ranges"
  /\ ranges' = IF IsRangeCommand THEN Append(ranges, Level.at) ELSE ranges
  /\ ToNext
  /\ UNCHANGED <<source, stage, parseVars, cmds, labels>>

RangesPopulated ==
  /\ Ended /\ stage = "ranges"
  /\ stage' = "resolve" /\ Restart
  /\ UNCHANGED <<source, parseVars, cmds, labels, ranges>>

\* Mutation: a branch enters the script after the label's command.
TargetAfter == IF At.label = NoLabel THEN 0 ELSE cmds[labels[At.label]].next

Target == IF At.label = NoLabel THEN 0 ELSE labels[At.label]

IsUndefined == At.code = "branch" /\ At.label # NoLabel /\ labels[At.label] = 0

\* resolve_branch_targets
ResolveBranch ==
  /\ Visiting /\ stage = "resolve" /\ ~IsUndefined
  /\ cmds' = IF At.code = "branch" THEN WithGoto(cmds, Level.at, Target) ELSE cmds
  /\ ToNext
  /\ UNCHANGED <<source, stage, parseVars, labels, ranges>>

UndefinedLabel == Visiting /\ stage = "resolve" /\ IsUndefined /\ Fail

\* compile: no block is open; the ends of the blocks come last.
BranchesResolved ==
  /\ Ended /\ stage = "resolve" /\ nesting = 0
  /\ stage' = "patch" /\ Restart
  /\ UNCHANGED <<source, parseVars, cmds, labels, ranges>>

Unmatched == Ended /\ stage = "resolve" /\ nesting > 0 /\ Fail

\* The last command of the chain that c is in.
TailFrom[c \in 1 .. Len(cmds)] ==
  IF cmds[c].next = 0 THEN c ELSE TailFrom[cmds[c].next]

\* patch_block_endings: the last command of a body goes on behind the block.
PatchEnding ==
  /\ Visiting /\ stage = "patch"
  /\ cmds' = IF Body = 0 THEN cmds ELSE WithNext(cmds, TailFrom[Body], Splice)
  /\ ToNext
  /\ UNCHANGED <<source, stage, parseVars, labels, ranges>>

EndingsPatched ==
  /\ Ended /\ stage = "patch"
  /\ stage' = "done"
  /\ UNCHANGED <<source, parseVars, cmds, labels, ranges, walk>>

Terminated == stage \in {"done", "failed"} /\ UNCHANGED vars

Init ==
  /\ source \in Sources
  /\ stage = "parse" /\ pos = 0 /\ nesting = 0 /\ quiet = FALSE
  /\ cmds = <<>> /\ frames = <<Open(0)>>
  /\ labels = [l \in LabelName |-> 0]
  /\ ranges = <<>> /\ walk = <<>>

Next ==
  \/ AddCommand \/ Silence \/ OpenBlock \/ CloseBlock \/ EndOfBlock
  \/ EndOfScript \/ ScriptError
  \/ Descend \/ Ascend
  \/ PopulateLabel \/ DuplicateLabel \/ LabelsPopulated
  \/ PopulateRange \/ RangesPopulated
  \/ ResolveBranch \/ UndefinedLabel \/ BranchesResolved \/ Unmatched
  \/ PatchEnding \/ EndingsPatched \/ Terminated

Spec == Init /\ [][Next]_vars
FairSpec == Spec /\ WF_vars(Next)
-----------------------------------------------------------------------------
(* What a script means, read from its text.                                *)

Items == 1 .. Len(source)

Among(first, last, codes) ==
  Cardinality({k \in first .. last : source[k].code \in codes})

\* The place of the } with which compile_sequence returns to the { at i, or the end
\* of a script that lacks it.  A } with a negation is none: the code does not
\* return with it, though it lowers the nesting.
Matching(i) ==
  CHOOSE j \in i .. Len(source) + 1 :
    /\ j > Len(source) \/ Among(i, j, {"block"}) = Among(i, j, {"end"})
    /\ \A k \in i .. j - 1 : Among(i, k, {"block"}) > Among(i, k, {"end"})

\* The command to execute from item i on, 0 for the end of the script.
Resume(i) ==
  LET later == {c \in DOMAIN cmds : cmds[c].at >= i}
  IN  IF later = {} THEN 0 ELSE CHOOSE c \in later : \A d \in later : c <= d

FollowedBy(i) == Resume(1 + IF source[i].code = "block" THEN Matching(i) ELSE i)

IsEmptyBlock(i) == \A k \in i + 1 .. Matching(i) - 1 : source[k].code = "silence"

Labelled(l) == {i \in Items : source[i].code = "label" /\ source[i].label = l}

Branches == {i \in Items : source[i].code = "branch" /\ source[i].label # NoLabel}

\* The braces match as compile counts them, } with a negation included.
Balanced ==
  /\ \A j \in Items : Among(1, j, {"end", "notEnd"}) <= Among(1, j, {"block"})
  /\ Among(1, Len(source), {"end", "notEnd"}) = Among(1, Len(source), {"block"})

WellFormed ==
  /\ Balanced
  /\ \A i \in Items :
       /\ source[i].code \in {"label", "end", "notEnd", "silence"} => source[i].addrs = 0
       /\ source[i].code = "label" => source[i].label # NoLabel
  /\ \A l \in LabelName : Cardinality(Labelled(l)) <= 1
  /\ \A i \in Branches : Labelled(source[i].label) # {}
-----------------------------------------------------------------------------
(* Properties.                                                             *)

\* Commands, calls of compile_sequence and calls of a pass that refer to the
\* first n commands, compiled from the first p items.
Command(n, p) == [code : ItemCode, addrs : 0 .. 2, label : LabelName \cup {NoLabel},
                  next : 0 .. n, goto : 0 .. n, at : 1 .. p]
SequenceCall(n) == [head : 0 .. n, tail : 0 .. n, block : 0 .. n]
PassCall(n) == [at : 0 .. n, entered : BOOLEAN, parent : 0 .. n]

\* The variables have their types: no link leads out of the script, which the
\* execution cycle relies on, and every pass stands at a command or an end.
TypeOK ==
  /\ source \in Seq(Item)
  /\ stage \in Pass \cup {"parse", "done", "failed"}
  /\ pos \in 0 .. Len(source)
  /\ nesting \in 0 .. Len(source) /\ quiet \in BOOLEAN
  /\ cmds \in Seq(Command(Len(cmds), pos))
  /\ frames \in Seq(SequenceCall(Len(cmds))) /\ frames # <<>>
  /\ labels \in [LabelName -> 0 .. Len(cmds)]
  /\ ranges \in Seq(1 .. Len(cmds))
  /\ walk \in Seq(PassCall(Len(cmds)))
  /\ stage \in Pass => walk # <<>>

\* A } never ends the outermost compile_sequence, whose caller would take the
\* commands before it for the whole script: the nesting that is counted is
\* less than the number of calls, though a negated } makes them disagree.
ClosesInside ==
  stage = "parse" /\ pos < Len(source) => nesting < Depth

\* The latches that are reset between separate files are those of all commands
\* with two addresses, in whatever block, and each is listed once.
RangesCollected ==
  stage \in {"resolve", "patch", "done"} =>
    /\ \A c \in DOMAIN cmds : cmds[c].addrs = 2 <=> \E i \in DOMAIN ranges : ranges[i] = c
    /\ \A i, j \in DOMAIN ranges : ranges[i] = ranges[j] => i = j

\* Three passes later every command is followed by the one that the text has
\* after it, or after the blocks that end behind it, and a block is entered at
\* its first command.
LinksFollowText ==
  stage = "done" =>
    \A c \in DOMAIN cmds :
      /\ cmds[c].next = FollowedBy(cmds[c].at)
      /\ cmds[c].code = "block" /\ ~IsEmptyBlock(cmds[c].at)
           => cmds[c].goto = Resume(cmds[c].at + 1)

\* A branch leads to its label, whichever blocks the two are in, or nowhere
\* if it has none.
BranchesFollowText ==
  stage = "done" =>
    \A c \in DOMAIN cmds :
      cmds[c].code = "branch" =>
        IF cmds[c].label = NoLabel THEN cmds[c].goto = 0
        ELSE cmds[c].goto # 0 /\ cmds[cmds[c].goto].at \in Labelled(cmds[c].label)

\* A script is refused if and only if it is not well-formed, in whichever
\* order the passes find its errors.  Its braces are counted as the compiler
\* counts them, for which a negated } closes a block.
RefusesMalformed ==
  /\ stage = "done" => WellFormed
  /\ stage = "failed" => ~WellFormed

\* The passes end, also the one that ties the ends of blocks while it walks
\* along the links it changes.
Terminates == <>(stage \in {"done", "failed"})

\* What compiler.rs:84 says: "Link the ends of command blocks to their
\* following commands."  Of an empty block too, one would think.
EveryBlockGoesOn ==
  stage = "done" =>
    \A c \in DOMAIN cmds :
      cmds[c].code = "block" => cmds[c].goto = Resume(cmds[c].at + 1)
=============================================================================
