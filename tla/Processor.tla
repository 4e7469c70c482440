----------------------------- MODULE Processor ------------------------------
(***************************************************************************)
(* The execution cycle of sed: process_all_files and process_file of       *)
(* processor.rs, from the opening of the first input file to the end.      *)
(*                                                                         *)
(* A compiled script is a sequence of command records whose next and goto  *)
(* fields are positions in it, 0 standing for None: the graph the compiler *)
(* leaves behind.  A pattern space is the sequence of its lines (what the  *)
(* embedded newlines separate), never the empty sequence, with a flag for  *)
(* the newline that ended the last line read: empty contents are <<Empty>>.*)
(*                                                                         *)
(* out records every write in order as an event [why, cmd, content, nl,    *)
(* line], whichever file it goes to.  consumed and autoLines are history   *)
(* variables: the lines read, and the lines automatic printing wrote.      *)
(***************************************************************************)
EXTENDS Addressing, FiniteSets

CONSTANTS Seg,      \* what a line may contain
          Empty,    \* the empty line
          Scripts,  \* compiled scripts
          Inputs,   \* sequences of input files
          Options,  \* settings of -n and -s
          Transl,   \* the table of the y command
          Shell     \* what a command run by e may print, as lines

Code == {"{", "a", "b", "c", "d", "D", "e", "F", "g", "G", "h", "H", "i", "l",
         "n", "N", "p", "P", "q", "Q", "r", "s", "t", "T", "w", "W", "x", "y",
         "z", ":", "="}

Address == [kind : AddressKind, n : Nat, re : SUBSET Seg]

\* opts: for s, its p, e and w flags, p distinguished by its order to e; for
\* e, "text" when the command line to run is given in the script.
Command == [code : Code, a1 : Address, a2 : Address, neg : BOOLEAN,
            next : Nat, goto : Nat, re : SUBSET Seg, nth : Nat, rep : Seg,
            opts : SUBSET {"pFirst", "e", "pLast", "w", "text"}]

InputFile == [readable : BOOLEAN, lines : Seq(Seg), nl : BOOLEAN]

ASSUME EmptyAssumption == Empty \in Seg

ASSUME TranslAssumption == Transl \in [Seg -> Seg]

\* No output at all makes one empty line.
ASSUME ShellAssumption == Shell \subseteq Seq(Seg) \ {<<>>}

ASSUME OptionsAssumption == Options \subseteq [quiet : BOOLEAN, separate : BOOLEAN]

\* Links of a compiled script stay inside it.
ASSUME ScriptsAssumption ==
  \A p \in Scripts :
    /\ p \in Seq(Command)
    /\ \A i \in DOMAIN p : p[i].next \in 0 .. Len(p) /\ p[i].goto \in 0 .. Len(p)

\* There is an input file (standard input if none is named), and a last line
\* without a newline is not empty, for else it would not be a line.
ASSUME InputsAssumption ==
  \A f \in Inputs :
    /\ f \in Seq(InputFile) /\ f # <<>>
    /\ \A i \in DOMAIN f :
         f[i].nl \/ (f[i].lines # <<>> /\ f[i].lines[Len(f[i].lines)] # Empty)

VARIABLES job,          \* the script, the input files and -s
          pc,           \* where process_all_files stands
          file, pos,    \* the current file, and how many of its lines are read
          lineNumber,   \* context.line_number
          pattern,      \* the pattern space
          hold,         \* context.hold
          cur,          \* the command to execute next
          quiet,        \* context.quiet
          stop,         \* context.stop_processing
          substituted,  \* context.substitution_made
          appends,      \* context.append_elements: commands that queued one
          inputAction,  \* context.input_action: an N waiting for its line
          startLine,    \* start_line of every command
          lastAddress,  \* context.last_address
          savedRe,      \* context.saved_regex
          out,          \* every write, in order
          consumed,     \* history: the lines read
          autoLines     \* history: the lines printed automatically

inputVars == <<job, file, pos, lineNumber, consumed>>
spaceVars == <<pattern, hold>>
rangeVars == <<startLine, lastAddress, savedRe>>
modeVars  == <<quiet, stop, substituted>>
vars == <<inputVars, spaceVars, rangeVars, modeVars, pc, cur, appends,
          inputAction, out, autoLines>>
-----------------------------------------------------------------------------
NoAction == [pending |-> FALSE, next |-> 0, prepend |-> <<Empty>>]
Blank    == [content |-> <<Empty>>, nl |-> FALSE]     \* IOChunk::clear
NewHold  == [content |-> <<Empty>>, nl |-> TRUE]

Prog  == job.prog
Cmd   == Prog[cur]
Top   == IF Prog = <<>> THEN 0 ELSE 1
Lines == job.files[file].lines

\* Mutation: the newline that ends the line is taken for one inside.
HasNewlineAtEnd(space) == Len(space.content) >= 1

\* There is an embedded newline.
HasNewline(space) == Len(space.content) > 1

IsLastFile == file = Len(job.files)

\* Mutation: the end of any file.
AtLastOfFile == pos = Len(Lines)

\* Address::Last: the end of this file, which is the last one unless -s.
AtLast == pos = Len(Lines) /\ (IsLastFile \/ job.separate)

View == [line |-> lineNumber, content |-> pattern.content,
         last |-> AtLast, saved |-> savedRe]

Event(why, c, content, nl) ==
  [why |-> why, cmd |-> c, content |-> content, nl |-> nl, line |-> Len(consumed)]

\* OutputBuffer::write_chunk drops a chunk without content and newline.
Chunk(why, c, space) ==
  IF space = Blank THEN <<>> ELSE <<Event(why, c, space.content, space.nl)>>

Text(c) == <<Event("text", c, <<Empty>>, TRUE)>>

\* flush_appends
Appended == [i \in DOMAIN appends |-> Event("append", appends[i], <<Empty>>, TRUE)]

Pending(space) == [pending |-> TRUE, next |-> Cmd.next, prepend |-> space.content]
-----------------------------------------------------------------------------
(* The files.                                                              *)

\* Mutation: a new stream in every file.
StartsStreamAlways == TRUE

\* Every file is a stream of its own with -s, all files together without.
StartsStream == job.separate \/ file = 1

\* Mutation: ranges stay active from one file to the next.
ResetLatchesNever == UNCHANGED startLine

ResetLatches == startLine' = [i \in DOMAIN Prog |-> ResetStart(Prog[i])]

OpenFile ==
  /\ pc = "open" /\ job.files[file].readable
  /\ pos' = 0
  /\ IF StartsStream
     THEN /\ lineNumber' = 0
          /\ ResetLatches
          /\ hold' = NewHold
     ELSE UNCHANGED <<lineNumber, startLine, hold>>
  /\ pc' = "zero" /\ cur' = Top
  /\ UNCHANGED <<job, file, consumed, pattern, lastAddress, savedRe, modeVars,
                 appends, inputAction, out, autoLines>>

\* An unreadable file ends the program.
OpenError ==
  /\ pc = "open" /\ ~job.files[file].readable
  /\ pc' = "failed"
  /\ UNCHANGED <<inputVars, spaceVars, rangeVars, modeVars, cur, appends,
                 inputAction, out, autoLines>>

\* process_address_0: a 0r command copies its file before any line is read.
IsAddressZeroRead(c) == c.code = "r" /\ c.a1.kind = "line" /\ c.a1.n = 0 /\ ~IsRange(c)

ReadAtZero ==
  /\ pc = "zero"
  /\ IF cur = 0 THEN pc' = "read" /\ UNCHANGED <<cur, out>>
     ELSE /\ out' = IF IsAddressZeroRead(Cmd) THEN Append(out, Event("zero", cur, <<Empty>>, TRUE)) ELSE out
          /\ cur' = Cmd.next
          /\ UNCHANGED pc
  /\ UNCHANGED <<inputVars, spaceVars, rangeVars, modeVars, appends, inputAction,
                 autoLines>>

\* Read a line, and join it to the pattern space an N left waiting.
ReadLine ==
  /\ pc = "read" /\ pos < Len(Lines)
  /\ LET line == Lines[pos + 1]
         nl   == pos + 1 < Len(Lines) \/ job.files[file].nl
     IN  /\ pattern' = [content |-> IF inputAction.pending
                                    THEN inputAction.prepend \o <<line>>
                                    ELSE <<line>>,
                        nl |-> nl]
         /\ consumed' = Append(consumed, line)
  /\ pos' = pos + 1
  /\ lineNumber' = lineNumber + 1
  /\ substituted' = FALSE
  /\ cur' = IF inputAction.pending THEN inputAction.next ELSE Top
  /\ inputAction' = NoAction
  /\ pc' = "exec"
  /\ UNCHANGED <<job, file, hold, quiet, stop, rangeVars, appends, out, autoLines>>

EndOfFile ==
  /\ pc = "read" /\ pos = Len(Lines)
  /\ pc' = "close"
  /\ UNCHANGED <<inputVars, spaceVars, rangeVars, modeVars, cur, appends,
                 inputAction, out, autoLines>>

\* Mutation: only at the end of the last file.
PrintsPendingAtEnd == inputAction.pending /\ ~quiet /\ IsLastFile

\* Mutation: only at the end of a separate file.
PrintsPendingSeparate == inputAction.pending /\ ~quiet /\ job.separate

\* An N that found no line to join prints the pattern space at the end of the
\* stream; then the next file is opened, unless q or Q was executed.
PrintsPending == inputAction.pending /\ ~quiet /\ (job.separate \/ IsLastFile)

CloseFile ==
  /\ pc = "close"
  /\ IF PrintsPending
     THEN /\ out' = Append(out, Event("eof", 0, inputAction.prepend, TRUE))
          /\ autoLines' = autoLines \o inputAction.prepend
          /\ inputAction' = NoAction
     ELSE UNCHANGED <<out, autoLines, inputAction>>
  /\ IF stop \/ IsLastFile THEN pc' = "done" /\ UNCHANGED file
     ELSE pc' = "open" /\ file' = file + 1
  /\ UNCHANGED <<job, pos, lineNumber, consumed, spaceVars, rangeVars, modeVars,
                 cur, appends>>

\* Mutation: what is queued goes first.
CycleOutputSwapped == Appended \o (IF quiet THEN <<>> ELSE Chunk("auto", 0, pattern))

\* The end of the script: automatic printing, then what a and r queued.
CycleOutput == (IF quiet THEN <<>> ELSE Chunk("auto", 0, pattern)) \o Appended

\* flush_pending_newline: the newline missing at the end of the output, if it is.
Closing == IF stop THEN <<Event("newline", 0, <<Empty>>, TRUE)>> ELSE <<>>

\* Mutation: stop_processing is not looked at.
AfterCycleReading == "read"

AfterCycle == IF stop THEN "close" ELSE "read"

EndCycle ==
  /\ pc = "exec" /\ cur = 0
  /\ out' = out \o CycleOutput \o Closing
  /\ autoLines' = IF quiet \/ pattern = Blank THEN autoLines
                  ELSE autoLines \o pattern.content
  /\ appends' = <<>>
  /\ pc' = AfterCycle
  /\ UNCHANGED <<inputVars, spaceVars, rangeVars, modeVars, cur, inputAction>>
-----------------------------------------------------------------------------
(* The commands.  Every command first tests its addresses, which moves the *)
(* latch of its range and the saved regular expression.                    *)

NoRegex == LacksRe(Cmd, startLine[cur], savedRe)
Tested  == SavedAfter(Cmd, startLine[cur], savedRe)

Latch ==
  /\ startLine' = [startLine EXCEPT ![cur] = StartAfter(Cmd, @, View)]
  /\ lastAddress' = (lastAddress \/ SetsLastAddress(Cmd, startLine[cur], View))

Executing == pc = "exec" /\ cur # 0 /\ ~NoRegex

\* The current command is one of these and is selected.
Selected(codes) ==
  /\ Executing
  /\ Cmd.code \in codes
  /\ Applies(Cmd, startLine[cur], View)
  /\ Latch
  /\ savedRe' = IF Cmd.code = "s" THEN ReOrSaved(Cmd.re, Tested) ELSE Tested
  /\ UNCHANGED inputVars

Continue == cur' = Cmd.next /\ UNCHANGED pc
EndScript == cur' = 0 /\ UNCHANGED pc
Jump == cur' = Cmd.goto /\ UNCHANGED pc       \* no label: to the end

Skip ==
  /\ Executing /\ ~Applies(Cmd, startLine[cur], View)
  /\ Latch /\ savedRe' = Tested
  /\ Continue
  /\ UNCHANGED <<inputVars, spaceVars, modeVars, appends, inputAction, out, autoLines>>

\* re_or_saved_re, of an address or of s, finds no expression to use.
RegexError ==
  /\ pc = "exec" /\ cur # 0
  /\ \/ NoRegex
     \/ /\ Cmd.code = "s" /\ Applies(Cmd, startLine[cur], View)
        /\ ReOrSaved(Cmd.re, Tested) = {}
  /\ pc' = "failed"
  /\ UNCHANGED <<inputVars, spaceVars, rangeVars, modeVars, cur, appends,
                 inputAction, out, autoLines>>

\* { enters the block, b branches, : does nothing.
Enter ==
  /\ Selected({"{", "b"}) /\ Jump
  /\ UNCHANGED <<spaceVars, modeVars, appends, inputAction, out, autoLines>>

Label ==
  /\ Selected({":"}) /\ Continue
  /\ UNCHANGED <<spaceVars, modeVars, appends, inputAction, out, autoLines>>

\* a and r queue their text or file for the end of the cycle.
Queue ==
  /\ Selected({"a", "r"}) /\ Continue
  /\ appends' = Append(appends, cur)
  /\ UNCHANGED <<spaceVars, modeVars, inputAction, out, autoLines>>

\* c deletes the pattern space and writes its text at the end of a range.
Change ==
  /\ Selected({"c"}) /\ EndScript
  /\ pattern' = Blank
  /\ out' = IF ~IsRange(Cmd) \/ lastAddress' \/ pos = Len(Lines)
            THEN out \o Text(cur) ELSE out
  /\ UNCHANGED <<hold, modeVars, appends, inputAction, autoLines>>

Delete ==
  /\ Selected({"d"}) /\ EndScript
  /\ pattern' = Blank
  /\ UNCHANGED <<hold, modeVars, appends, inputAction, out, autoLines>>

\* D deletes the first line and restarts the script without reading.
DeleteFirst ==
  /\ Selected({"D"}) /\ UNCHANGED pc
  /\ IF HasNewline(pattern)
     THEN /\ pattern' = [pattern EXCEPT !.content = Tail(@)]
          /\ cur' = Top
     ELSE pattern' = Blank /\ cur' = 0
  /\ UNCHANGED <<hold, modeVars, appends, inputAction, out, autoLines>>

\* i, F, l, = and e with a command line write something at once.
Write ==
  /\ Selected({"i", "F", "l", "=", "e"}) /\ Continue
  /\ Cmd.code = "e" => "text" \in Cmd.opts
  /\ out' = out \o Text(cur)
  /\ UNCHANGED <<spaceVars, modeVars, appends, inputAction, autoLines>>

\* e alone runs the pattern space and puts the output in its place.
Execute ==
  /\ Selected({"e"}) /\ Continue
  /\ "text" \notin Cmd.opts
  /\ \E s \in Shell : pattern' = [pattern EXCEPT !.content = s]
  /\ UNCHANGED <<hold, modeVars, appends, inputAction, out, autoLines>>

Get ==
  /\ Selected({"g"}) /\ Continue
  /\ pattern' = hold
  /\ UNCHANGED <<hold, modeVars, appends, inputAction, out, autoLines>>

GetAppend ==
  /\ Selected({"G"}) /\ Continue
  /\ pattern' = [content |-> pattern.content \o hold.content, nl |-> hold.nl]
  /\ UNCHANGED <<hold, modeVars, appends, inputAction, out, autoLines>>

Hold ==
  /\ Selected({"h"}) /\ Continue
  /\ hold' = pattern
  /\ UNCHANGED <<pattern, modeVars, appends, inputAction, out, autoLines>>

HoldAppend ==
  /\ Selected({"H"}) /\ Continue
  /\ hold' = [content |-> hold.content \o pattern.content, nl |-> pattern.nl]
  /\ UNCHANGED <<pattern, modeVars, appends, inputAction, out, autoLines>>

\* x exchanges the contents, and the newline flags unless hold is all empty.
Exchange ==
  /\ Selected({"x"}) /\ Continue
  /\ LET swap == hold # Blank
     IN  /\ pattern' = [content |-> hold.content,
                        nl |-> IF swap THEN hold.nl ELSE pattern.nl]
         /\ hold' = [content |-> pattern.content,
                     nl |-> IF swap THEN pattern.nl ELSE hold.nl]
  /\ UNCHANGED <<modeVars, appends, inputAction, out, autoLines>>

\* n ends the cycle.
NextLine ==
  /\ Selected({"n"}) /\ EndScript
  /\ UNCHANGED <<spaceVars, modeVars, appends, inputAction, out, autoLines>>

\* Mutation: N does not write what is queued.
AppendNextUnflushed ==
  /\ Selected({"N"})
  /\ inputAction' = Pending(pattern)
  /\ pc' = "read" /\ cur' = 0
  /\ UNCHANGED <<spaceVars, modeVars, appends, out, autoLines>>

\* N writes what is queued and leaves the cycle to be resumed by ReadLine.
AppendNext ==
  /\ Selected({"N"})
  /\ out' = out \o Appended
  /\ appends' = <<>>
  /\ inputAction' = Pending(pattern)
  /\ pc' = "read" /\ cur' = 0
  /\ UNCHANGED <<spaceVars, modeVars, autoLines>>

PrintPattern ==
  /\ Selected({"p"}) /\ Continue
  /\ out' = out \o Chunk("print", cur, pattern)
  /\ UNCHANGED <<spaceVars, modeVars, appends, inputAction, autoLines>>

\* Mutation: all lines.
FirstLineAll(space) == space

FirstLine(space) ==
  IF HasNewline(space)
  THEN [content |-> <<Head(space.content)>>, nl |-> TRUE] ELSE space

PrintFirst ==
  /\ Selected({"P"}) /\ Continue
  /\ out' = out \o Chunk("print", cur, FirstLine(pattern))
  /\ UNCHANGED <<spaceVars, modeVars, appends, inputAction, autoLines>>

\* w and W write to a file of their own.
WriteFile ==
  /\ Selected({"w", "W"}) /\ Continue
  /\ out' = Append(out, LET s == IF Cmd.code = "w" THEN pattern ELSE FirstLine(pattern)
                        IN  Event("file", cur, s.content, s.nl))
  /\ UNCHANGED <<spaceVars, modeVars, appends, inputAction, autoLines>>

\* q ends the program after this cycle; Q does so without printing.
Quit ==
  /\ Selected({"q", "Q"}) /\ EndScript
  /\ stop' = TRUE
  /\ quiet' = (quiet \/ Cmd.code = "Q")
  /\ UNCHANGED <<spaceVars, substituted, appends, inputAction, out, autoLines>>

\* The lines s replaces: all that match, or the nth of them.
Replaced(c, re, content) ==
  LET matching == {i \in DOMAIN content : content[i] \in re}
  IN  IF c.nth = 0 THEN matching
      ELSE {i \in matching : Cardinality({j \in matching : j <= i}) = c.nth}

\* The writes of a substitution that took place: the pattern space before
\* (old) and after (new) it was executed by the e flag.
SubstituteWrites(c, old, new) ==
  (IF "pFirst" \in c.opts THEN Chunk("print", cur, old) ELSE <<>>)
  \o (IF "pLast" \in c.opts THEN Chunk("print", cur, new) ELSE <<>>)
  \o (IF "w" \in c.opts THEN <<Event("file", cur, new.content, new.nl)>> ELSE <<>>)

Substitute ==
  /\ Selected({"s"}) /\ Continue
  /\ savedRe' # {}
  /\ LET where == Replaced(Cmd, savedRe', pattern.content)
         subst == [pattern EXCEPT !.content =
                     [i \in DOMAIN @ |-> IF i \in where THEN Cmd.rep ELSE @[i]]]
     IN  IF where = {} THEN UNCHANGED <<pattern, out, substituted>>
         ELSE /\ IF "e" \in Cmd.opts
                 THEN \E s \in Shell : pattern' = [pattern EXCEPT !.content = s]
                 ELSE pattern' = subst
              /\ out' = out \o SubstituteWrites(Cmd, subst, pattern')
              /\ substituted' = TRUE
  /\ UNCHANGED <<hold, quiet, stop, appends, inputAction, autoLines>>

\* Mutation: the substitution is not forgotten.
BranchIfAgain ==
  /\ Selected({"t", "T"})
  /\ IF substituted = (Cmd.code = "t") THEN Jump ELSE Continue
  /\ UNCHANGED <<spaceVars, modeVars, appends, inputAction, out, autoLines>>

\* t branches after a substitution, T without one; both forget it.
BranchIf ==
  /\ Selected({"t", "T"})
  /\ IF substituted = (Cmd.code = "t") THEN Jump ELSE Continue
  /\ substituted' = FALSE
  /\ UNCHANGED <<spaceVars, quiet, stop, appends, inputAction, out, autoLines>>

Transliterate ==
  /\ Selected({"y"}) /\ Continue
  /\ pattern' = [pattern EXCEPT !.content = [i \in DOMAIN @ |-> Transl[@[i]]]]
  /\ UNCHANGED <<hold, modeVars, appends, inputAction, out, autoLines>>

Zap ==
  /\ Selected({"z"}) /\ Continue
  /\ pattern' = [pattern EXCEPT !.content = <<Empty>>]
  /\ UNCHANGED <<hold, modeVars, appends, inputAction, out, autoLines>>

Execution ==
  \/ Skip \/ RegexError \/ Enter \/ Label \/ Queue \/ Change \/ Delete
  \/ DeleteFirst \/ Write \/ Execute \/ Get \/ GetAppend \/ Hold \/ HoldAppend
  \/ Exchange \/ NextLine \/ AppendNext \/ PrintPattern \/ PrintFirst \/ WriteFile
  \/ Quit \/ Substitute \/ BranchIf \/ Transliterate \/ Zap

Files ==
  \/ OpenFile \/ OpenError \/ ReadAtZero \/ ReadLine \/ EndOfFile \/ CloseFile
  \/ EndCycle

Terminated == pc \in {"done", "failed"} /\ UNCHANGED vars

Init ==
  /\ \E p \in Scripts, f \in Inputs, o \in Options :
       /\ job = [prog |-> p, files |-> f, separate |-> o.separate]
       /\ quiet = o.quiet
       /\ startLine = [i \in DOMAIN p |-> Unlatched]
  /\ pc = "open" /\ file = 1 /\ pos = 0 /\ lineNumber = 0 /\ cur = 0
  /\ pattern = Blank /\ hold = NewHold
  /\ stop = FALSE /\ substituted = FALSE /\ lastAddress = FALSE /\ savedRe = {}
  /\ appends = <<>> /\ inputAction = NoAction
  /\ out = <<>> /\ consumed = <<>> /\ autoLines = <<>>

Next == Files \/ Execution \/ Terminated

Spec == Init /\ [][Next]_vars

\* One thread executes the cycle and waits for nobody: whenever a step is
\* possible it takes one.
FairSpec == Spec /\ WF_vars(Next)
-----------------------------------------------------------------------------
(* Properties.                                                             *)

Content == Seq(Seg) \ {<<>>}
Space   == [content : Content, nl : BOOLEAN]

\* What the variables may hold; above all, a pattern space or hold space never
\* becomes the empty sequence, and cur and an N's next stay inside the script.
TypeOK ==
  /\ pc \in {"open", "zero", "read", "exec", "close", "done", "failed"}
  /\ file \in 1 .. Len(job.files)
  /\ pos \in Nat /\ lineNumber \in Nat
  /\ pattern \in Space /\ hold \in Space
  /\ cur \in 0 .. Len(Prog)
  /\ quiet \in BOOLEAN /\ stop \in BOOLEAN /\ substituted \in BOOLEAN
  /\ appends \in Seq(1 .. Len(Prog))
  /\ inputAction \in [pending : BOOLEAN, next : 0 .. Len(Prog), prepend : Content]
  /\ startLine \in [1 .. Len(Prog) -> Nat \cup {Unlatched}]
  /\ lastAddress \in BOOLEAN
  /\ savedRe \in SUBSET Seg
  /\ consumed \in Seq(Seg) /\ autoLines \in Seq(Seg)

\* An active range started at or before the current line: the subtraction
\* linenum - start of applies, on unsigned numbers, never wraps around, not
\* even when -s counts the lines of the next file from zero again.
LatchNotAhead ==
  \A i \in DOMAIN startLine : startLine[i] <= lineNumber

\* The line number is the number of lines read in this stream, the file under
\* -s and the whole input without it, whichever of a new cycle and an N read
\* them.
LineNumberCountsStream ==
  pc \in {"zero", "read", "exec", "close"} =>
    lineNumber = IF job.separate THEN pos ELSE Len(consumed)

\* What a and r queued is written before another line is read, before the
\* next file is opened and before the program ends: nothing queued is lost
\* or appears after a later line, even when N reads in mid-script.
AppendsFlushedBeforeRead ==
  pc \in {"read", "close", "open", "done"} => appends = <<>>

\* Within the lines read so far, writes come in the order the cycle promises:
\* what commands write at once, the pattern space, what was queued, the newline
\* that q adds, and what 0r puts before the next file; the pattern space of an N
\* that found no line is not among these writes.
Rank(ev) ==
  CASE ev.why = "zero" -> 4 [] ev.why = "newline" -> 3 [] ev.why = "append" -> 2
    [] ev.why = "auto" -> 1 [] OTHER -> 0
OutputOrder ==
  \A i, j \in DOMAIN out :
    i < j /\ out[i].line = out[j].line /\ "eof" \notin {out[i].why, out[j].why}
      => Rank(out[i]) <= Rank(out[j])

\* The lines read that automatic printing has yet to deal with: at the end of
\* the program there are none.
InFlight ==
  IF pc = "exec" THEN pattern.content
  ELSE IF pc # "done" /\ inputAction.pending THEN inputAction.prepend ELSE <<>>

\* Commands that neither change nor delete the pattern space.
Preserving == {"{", "a", "b", "F", "h", "H", "i", "l", "n", "N", "p", "P", "q",
               "r", "t", "T", "w", "W", ":", "="}

\* A script of such commands prints every line it reads, once and in order,
\* unless it fails: no line is lost or repeated by n, by N, by an N that the
\* end of a file or of the input leaves without a line, or by q.
NoLineLost ==
  (pc # "failed" /\ ~quiet /\ \A i \in DOMAIN Prog : Prog[i].code \in Preserving)
    => autoLines \o InFlight = consumed

\* The text of pattern spaces in a sequence of writes, joined.
TextOf(ev) == IF ev.why \in {"print", "auto", "eof"} THEN ev.content ELSE <<>>
PrintedIn(s) ==
  LET upTo[n \in 0 .. Len(s)] == IF n = 0 THEN <<>> ELSE upTo[n - 1] \o TextOf(s[n])
  IN  upTo[Len(s)]

AlwaysApplies(c) == c.a1.kind = "none" /\ ~IsRange(c) /\ ~c.neg

\* D follows every P and nothing else; all other commands write no pattern
\* space and leave it as it is.
Paired ==
  \A i \in DOMAIN Prog :
    LET c == Prog[i]
    IN  /\ c.code \in (Preserving \ {"p"}) \cup {"D"}
        /\ c.code = "P" => AlwaysApplies(c) /\ c.next # 0 /\ Prog[c.next].code = "D"
        /\ c.code = "D" => AlwaysApplies(c) /\ i # 1
        /\ c.code # "P" /\ c.next # 0 => Prog[c.next].code # "D"
        /\ c.goto # 0 => Prog[c.goto].code # "D"

\* D alone ends the script.
OnlyDEnds ==
  /\ Prog # <<>>
  /\ \A i \in DOMAIN Prog :
       LET c == Prog[i]
       IN  /\ c.code \notin {"n", "q"}
           /\ c.code # "D" => c.next # 0
           /\ c.code \in {"{", "b", "t", "T"} => c.goto # 0

\* With -n an N that finds no line keeps its pattern space from being printed.
Withheld == IF quiet /\ inputAction.pending THEN inputAction.prepend ELSE <<>>

\* Windows that slide over the input, as $!N;P;D, print every line of it once
\* and in order: P prints what D deletes, D restarts on the rest without
\* reading, and N adds the next line.  With -n this takes a script that only
\* its D's end, and holds up to the lines of an N that found none to add.
PairsPrintOnce ==
  (pc = "done" /\ Paired /\ (quiet => OnlyDEnds)) => PrintedIn(out) \o Withheld = consumed

\* The state that begins anew: hold space, active ranges, line count, what a and
\* r queued, and an N in progress.  lastAddress and savedRe are not of it: the
\* code keeps both from one file to the next.
StartsAfresh ==
  /\ lineNumber = 0 /\ hold = NewHold /\ appends = <<>> /\ ~inputAction.pending
  /\ \A i \in DOMAIN Prog : startLine[i] = ResetStart(Prog[i])

\* With -s no hold space, active range, line count, queued text or N in progress
\* of an earlier file is there when the first line of a file is read.  This is so
\* when lines are printed automatically: with -n an N that found no line in its
\* file is not dealt with at the end of the file, and reaches into the next one.
\* It does not make the files independent of each other: 1,2c;/a/,/b/p writes its
\* text for the second of two files alike only, since lastAddress outlives the first.
FreshStreamUnlessQuiet == (pc = "zero" /\ job.separate /\ ~quiet) => StartsAfresh

\* After q or Q no line is read and no file is opened.
NothingReadAfterQuit ==
  [][stop => UNCHANGED <<consumed, file, pos>>]_vars

\* A write by a command addressed with $ alone happens when no file has a
\* line left, or with -s when this file has none.
LastAddressAtEnd ==
  [][\A i \in DOMAIN out' \ DOMAIN out :
       LET c == out'[i].cmd
       IN  c # 0 /\ pc = "exec" /\ out'[i].why \in {"text", "print"}
             /\ Prog[c].a1.kind = "last" /\ ~IsRange(Prog[c]) /\ ~Prog[c].neg
           => /\ pos = Len(Lines)
              /\ \A f \in file + 1 .. Len(job.files) :
                   job.separate \/ job.files[f].lines = <<>>]_vars

\* The program comes to its end.
Termination == <>(pc \in {"done", "failed"})
=============================================================================
