----------------------------- MODULE Arguments -----------------------------
(***************************************************************************)
(* How compiler.rs reads a script: compile_sequence takes a command after  *)
(* the other, with its addresses and the arguments its handler wants.      *)
(* stage is where the code stands in that; cmds are the commands read so   *)
(* far, each { and } one of its own.  Linker goes on from there: it makes  *)
(* the chains of a block and resolves the branches.                        *)
(*                                                                         *)
(* A replacement is a sequence of bytes and of references: WholeMatch for  *)
(* & and WholeMatch + n for \n.                                            *)
(***************************************************************************)
EXTENDS Delimited, Patterns

VARIABLES cmd,      \* the command that is read
          cmds,     \* the commands before it
          nesting,  \* context.parsed_block_nesting
          quiet,    \* context.quiet, set by #n
          opened    \* the files that w has created, in order

inputVars == <<job, source, taken, line>>
textVars == <<inputVars, pos>>
vars == <<textVars, stage, stringVars, cmd, cmds, nesting, quiet, opened>>

NoAddr == [kind |-> "none"]
Line(n) == [kind |-> "line", n |-> n]
NoFlags == [occurrence |-> 1, counted |-> FALSE, print |-> FALSE, printFirst |-> FALSE,
            icase |-> FALSE, multiline |-> FALSE, execute |-> FALSE, file |-> <<>>]
NewCommand ==
  [code |-> 0, negated |-> FALSE, addr1 |-> NoAddr, addr2 |-> NoAddr, sep |-> "",
   arg |-> <<>>, given |-> FALSE, number |-> 0, pattern |-> <<>>, to |-> <<>>, flags |-> NoFlags]

Init ==
  /\ \E jobs \in Jobs : job \in jobs
  /\ source = 0 /\ taken = 0 /\ line = <<>> /\ pos = 0
  /\ stage = "sequence"
  /\ want = "" /\ delim = 0 /\ acc = <<>>
  /\ cmd = NewCommand
  /\ cmds = <<>> /\ nesting = 0 /\ quiet = FALSE /\ opened = <<>>

\* What a step does that only moves in the line and says where to go on.
Goto(where, p) == stage' = where /\ pos' = p /\ UNCHANGED <<inputVars, acc>>
Refuse == Stop("error") /\ UNCHANGED inputVars
Crash == Stop("panic") /\ UNCHANGED inputVars
Same(rest) == UNCHANGED <<rest, nesting, quiet, opened>>

\* The command is complete and the cursor at p.
Complete(c, p) == cmds' = Append(cmds, c) /\ cmd' = c /\ Goto("sequence", p)

\* parse_command_ending: a ; is left behind, a } is not.
Ends(p) == Eol(p) \/ OnAny(p, {";", "}"})
End(c, p) ==
  IF Ends(p) THEN Complete(c, IF On(p, ";") THEN p + 1 ELSE p)
  ELSE Refuse /\ UNCHANGED <<cmd, cmds>>
-----------------------------------------------------------------------------
(* The loop of compile_sequence.                                           *)

Comment(p) == Eol(p) \/ On(p, "#")

\* #n at the very start of a first line; there is one in each script.
Silences(p) == p = 0 /\ LineNumber = 1 /\ On(p, "#") /\ On(p + 1, "n")

\* An empty line or a comment: the next line, or the end of the script.
SequenceLine ==
  LET p == EatSpaces(pos)
  IN  /\ stage = "sequence" /\ Comment(p)
      /\ quiet' = (quiet \/ Silences(p))
      /\ \/ TakeLine /\ stage' = stage
         \/ Exhausted /\ stage' = IF nesting > 0 THEN "error" ELSE "done"
         \/ Unreadable /\ stage' = "error" /\ UNCHANGED <<source, taken, line, pos>>
      /\ UNCHANGED <<job, stringVars, cmd, cmds, nesting, opened>>

SequenceSemicolon ==
  LET p == EatSpaces(pos)
  IN  /\ stage = "sequence" /\ On(p, ";")
      /\ Goto("sequence", p + 1)
      /\ Same(<<want, delim, cmd, cmds>>)

IsAddressChar(p) == ~Eol(p) /\ At(p) \in Digits \cup Bytes("/\\$")

SequenceCommand ==
  LET p == EatSpaces(pos)
  IN  /\ stage = "sequence" /\ ~Comment(p) /\ ~On(p, ";")
      /\ cmd' = NewCommand
      /\ want' = "first"
      /\ Goto(IF IsAddressChar(p) THEN "address" ELSE "command", p)
      /\ Same(<<delim, cmds>>)
-----------------------------------------------------------------------------
(* Addresses: compile_address_range and compile_address.                   *)

StepMatch == cmd.sep \in {"~", "~~"}
StepEnd == cmd.sep = ",~"
Zero1 == cmd.addr1 = Line(0)

First(a, p) ==
  IF a = Line(0) /\ job.posix THEN Refuse /\ UNCHANGED cmd
  ELSE cmd' = [cmd EXCEPT !.addr1 = a] /\ Goto("separator", p)

\* Mutation: only the step of a first~step is looked at.
WrongStepMatch(a) == StepMatch /\ a.kind # "line"

\* A step must be a number.
WrongStep(a) == (StepMatch \/ StepEnd) /\ a.kind # "line"

\* A range from line 0 ends with an expression.
WrongEndOf0(a) == Zero1 /\ a.kind # "re" /\ ~StepMatch

Second(a, p) ==
  IF WrongStep(a) \/ WrongEndOf0(a) THEN Refuse /\ UNCHANGED cmd
  ELSE cmd' = [cmd EXCEPT !.addr2 = a] /\ Goto("command", EatSpaces(p))

Address(a, p) == IF want = "first" THEN First(a, p) ELSE Second(a, p)

\* parse_number of a number that must be there
AddressNumber(kind, p) ==
  LET q == RunEnd(p, Digits)
  IN  IF q = p \/ Usize(p, q) > UsizeMax THEN Refuse /\ UNCHANGED cmd
      ELSE Address([kind |-> kind, n |-> Usize(p, q)], q)

AddressPlain ==
  /\ stage = "address" /\ ~OnAny(pos, {"/", "\\"})
  /\ IF On(pos, "$") THEN Address([kind |-> "last"], pos + 1)
     ELSE IF On(pos, "+") THEN AddressNumber("relative", pos + 1)
     ELSE IF At(pos) \in Digits THEN AddressNumber("line", pos)
     ELSE Crash /\ UNCHANGED cmd
  /\ Same(<<want, delim, cmds>>)

AddressRegex ==
  /\ stage = "address" /\ OnAny(pos, {"/", "\\"})
  /\ Open(IF On(pos, "\\") THEN pos + 1 ELSE pos, "regex", want)
  /\ UNCHANGED inputVars
  /\ Same(<<cmd, cmds>>)

\* compile_regex: a library may refuse the expression.
Refusable(pattern, icase, multiline) ==
  pattern # <<>> /\ Engine(Expression(pattern, icase, multiline)) # "literal"
Unusable(pattern, icase, multiline) ==
  pattern # <<>> /\ ~Encodable(Expression(pattern, icase, multiline))
Crashes(pattern, icase, multiline) ==
  LET e == Expression(pattern, icase, multiline)
  IN  pattern # <<>> /\ Engine(e) = "literal" /\ RemoveEscapes(e) = <<>>

\* The expression of an address is read; an I may follow.
AddressRegexEnds ==
  LET p == EatSpaces(pos + 1)
      icase == On(p, "I")
  IN  /\ stage = "ready" /\ want \in {"first", "second"}
      /\ \/ Crashes(acc, icase, FALSE) /\ Crash /\ UNCHANGED cmd
         \/ (Unusable(acc, icase, FALSE) \/ Refusable(acc, icase, FALSE)) /\ Refuse /\ UNCHANGED cmd
         \/ /\ ~Unusable(acc, icase, FALSE) /\ ~Crashes(acc, icase, FALSE)
            /\ Address([kind |-> "re", pattern |-> acc, icase |-> icase],
                       IF icase THEN p + 1 ELSE p)
      /\ Same(<<want, delim, cmds>>)

\* Without a second address, line 0 is for r alone.
SeparatorNone ==
  LET p == EatSpaces(pos)
  IN  /\ stage = "separator" /\ ~OnAny(p, {",", "~"})
      /\ IF Zero1 /\ ~On(p, "r") THEN Refuse ELSE Goto("command", p)
      /\ Same(<<want, delim, cmd, cmds>>)

\* The code looks for a second ~ without asking whether the line ends.
Separator ==
  LET p == EatSpaces(pos)
      q == EatSpaces(p + 1)
      r == IF On(q, "~") THEN EatSpaces(q + 1) ELSE q
      sep == (IF On(p, "~") THEN "~" ELSE ",") \o (IF On(q, "~") THEN "~" ELSE "")
  IN  /\ stage = "separator" /\ OnAny(p, {",", "~"})
      /\ \/ Eol(q) /\ Crash /\ UNCHANGED <<cmd, want>>
         \/ ~Eol(q) /\ (Eol(r) \/ (sep # "," /\ job.posix)) /\ Refuse /\ UNCHANGED <<cmd, want>>
         \/ /\ ~Eol(r) /\ ~(sep # "," /\ job.posix)
            /\ cmd' = [cmd EXCEPT !.sep = sep]
            /\ want' = "second"
            /\ Goto("address", r)
      /\ Same(<<delim, cmds>>)
-----------------------------------------------------------------------------
(* Commands: get_verified_cmd_spec, and the handlers that end at once.     *)

Known == IF job.posix THEN Bytes("!=:{}aibtcdDgGhHnNpPxlqQerswy")
         ELSE Bytes("!=:{}aibtcdDgGhHnNpPxzlqQeFrsTWwyv")

MaxAddresses(c) ==
  IF c \in Bytes(":}v") THEN 0
  ELSE IF c = Code["Q"] \/ (job.posix /\ c \in Bytes("=aiqr")) THEN 1 ELSE 2

AddressCount(c) == Cardinality({a \in {"addr1", "addr2"} : c[a] # NoAddr})

Verified == ~Eol(pos) /\ At(pos) \in Known /\ AddressCount(cmd) <= MaxAddresses(At(pos))

CommandUnknown ==
  /\ stage = "command" /\ ~Verified
  /\ Refuse
  /\ Same(<<want, delim, cmd, cmds>>)

\* The handler of one of these letters is called.
Command(letters) == stage = "command" /\ Verified /\ At(pos) \in Bytes(letters)
This == [cmd EXCEPT !.code = At(pos)]
Argument == EatSpaces(pos + 1)

\* compile_sequence then looks at the next character for the command.
Negation ==
  /\ Command("!")
  /\ IF cmd.negated THEN Refuse /\ UNCHANGED cmd
     ELSE cmd' = [cmd EXCEPT !.negated = TRUE] /\ Goto("command", Argument)
  /\ Same(<<want, delim, cmds>>)

OpenBlock ==
  /\ Command("{")
  /\ nesting' = nesting + 1
  /\ Complete(This, pos + 1)
  /\ UNCHANGED <<want, delim, quiet, opened>>

CloseBlock ==
  /\ Command("}")
  /\ IF nesting = 0 THEN Refuse /\ UNCHANGED <<cmd, cmds, nesting>>
     ELSE nesting' = nesting - 1 /\ End(This, Argument)
  /\ UNCHANGED <<want, delim, quiet, opened>>

NoArgument ==
  /\ Command("=dDgGhHnNpPxzF")
  /\ End(This, Argument)
  /\ Same(<<want, delim>>)

LabelChars == Letters \cup Digits \cup Bytes("._-")

\* b, t, T and :, which wants a label
LabelArgument ==
  LET q == RunEnd(Argument, LabelChars)
      label == Text(Argument, q)
  IN  /\ Command("btT:")
      /\ IF label = <<>> /\ On(pos, ":") THEN Refuse /\ UNCHANGED <<cmd, cmds>>
         ELSE End([This EXCEPT !.arg = label], EatSpaces(q))
      /\ Same(<<want, delim>>)

TerminalWidth == -1   \* the width of the terminal, which is the number of l without one

NumberArgument ==
  LET q == RunEnd(Argument, Digits)
      n == IF q = Argument /\ On(pos, "l") THEN TerminalWidth ELSE Usize(Argument, q)
  IN  /\ Command("lqQ")
      /\ IF n > UsizeMax THEN Refuse /\ UNCHANGED <<cmd, cmds>>
         ELSE End([This EXCEPT !.number = n], EatSpaces(q))
      /\ Same(<<want, delim>>)

\* The rest of the line is a path.
PathAt(p) == Text(p, Len(line))

ReadArgument ==
  /\ Command("r")
  /\ IF job.sandbox \/ Eol(Argument) THEN Refuse /\ UNCHANGED <<cmd, cmds>>
     ELSE Complete([This EXCEPT !.arg = PathAt(Argument)], Len(line))
  /\ Same(<<want, delim>>)

\* The file is created and truncated now, or cannot be.
WriteArgument ==
  /\ Command("wW")
  /\ \/ Refuse /\ UNCHANGED <<cmd, cmds, opened>>
     \/ /\ ~job.sandbox /\ ~Eol(Argument)
        /\ opened' = Append(opened, PathAt(Argument))
        /\ Complete([This EXCEPT !.arg = PathAt(Argument)], Len(line))
  /\ UNCHANGED <<want, delim, nesting, quiet>>

\* Which part of the version that starts at p the byte at q belongs to
Part(p, q) == Cardinality({d \in p .. q : On(d, ".")})
VersionBytes(p, k) ==
  LET within == {q \in p .. Len(line) - 1 : ~On(q, ".") /\ Part(p, q) = k}
  IN  IF within = {} THEN <<>>
      ELSE LET first == CHOOSE q \in within : \A r \in within : q <= r
           IN  Text(first, first + Cardinality(within))

\* parse::<u8> of a part, 0 if it is empty; -1 is an error.
VersionPart(p, k) ==
  LET text == VersionBytes(p, k)
      digits == IF text # <<>> /\ text[1] = Code["+"] THEN Tail(text) ELSE text
  IN  IF text = <<>> THEN 0
      ELSE IF digits = <<>> \/ (\E i \in DOMAIN digits : digits[i] \notin Digits)
              \/ Number(digits, 10, 255) > 255
      THEN -1 ELSE Number(digits, 10, 255)

\* Version 4.9.0 of GNU sed is claimed; it is what is meant without a first part.
VersionServed(p) ==
  /\ \A q \in p .. Len(line) - 1 : On(q, ".") \/ Part(p, q) <= 2
  /\ \/ VersionBytes(p, 0) = <<>>
     \/ /\ VersionPart(p, 0) \in 0 .. 4
        /\ VersionPart(p, 1) \in 0 .. 9
        /\ VersionPart(p, 2) = 0

VersionArgument ==
  /\ Command("v")
  /\ IF VersionServed(Argument) THEN Complete(This, Len(line)) ELSE Refuse /\ UNCHANGED <<cmd, cmds>>
  /\ Same(<<want, delim>>)
-----------------------------------------------------------------------------
(* Text: a, c, i, and the command of e.                                    *)

TextStart(p) == IF On(p, "\\") THEN p + 1 ELSE p

\* A backslash before the text is skipped; at the end of the line it says that the
\* text is on the next one.
BeginText(p) ==
  /\ cmd' = This
  /\ acc' = <<>>
  /\ pos' = TextStart(p)
  /\ stage' = IF On(p, "\\") /\ Eol(p + 1) THEN "continuation" ELSE "text"
  /\ UNCHANGED <<inputVars, cmds>>

TextArgument ==
  /\ Command("aci") /\ ~job.posix
  /\ IF Eol(Argument) THEN Refuse /\ UNCHANGED <<cmd, cmds>> ELSE BeginText(Argument)
  /\ Same(<<want, delim>>)

ExecuteArgument ==
  /\ Command("e")
  /\ IF job.posix \/ job.sandbox THEN Refuse /\ UNCHANGED <<cmd, cmds>>
     ELSE IF Eol(Argument) THEN Complete(This, Argument) ELSE BeginText(Argument)
  /\ Same(<<want, delim>>)

IsExecute == cmd.code = Code["e"]

\* What a newline that no backslash escapes adds to the text
LineEnd == IF IsExecute THEN <<>> ELSE <<Newline>>
WithText(text) == [cmd EXCEPT !.arg = text, !.given = TRUE]

TextEnds ==
  /\ stage = "text" /\ Eol(pos)
  /\ Complete(WithText(acc \o LineEnd), pos)
  /\ Same(<<want, delim>>)

\* A newline that a backslash escapes is part of the text.
TextEscapes ==
  /\ stage = "text" /\ On(pos, "\\")
  /\ IF Eol(pos + 1)
     THEN stage' = "continuation" /\ acc' = Append(acc, Newline) /\ pos' = pos + 1
     ELSE Feed(Escape(pos + 1, <<At(pos + 1)>>))
  /\ UNCHANGED inputVars
  /\ Same(<<want, delim, cmd, cmds>>)

TextByte ==
  /\ stage = "text" /\ ~Eol(pos) /\ ~On(pos, "\\")
  /\ Feed(Got(<<At(pos)>>, pos + 1))
  /\ UNCHANGED inputVars
  /\ Same(<<want, delim, cmd, cmds>>)

\* The script may end after a backslash: an e that has no text yet has none then.
TextContinues ==
  /\ stage = "continuation"
  /\ \/ TakeLine /\ stage' = "text" /\ UNCHANGED <<cmd, cmds>>
     \/ /\ Exhausted
        /\ cmd' = IF IsExecute /\ acc = <<>> THEN cmd ELSE WithText(acc)
        /\ cmds' = Append(cmds, cmd')
        /\ stage' = "sequence"
     \/ Unreadable /\ Refuse /\ UNCHANGED <<cmd, cmds>>
  /\ Same(<<job, acc, want, delim>>)

\* --posix: a \ ends the line, and the text is on the next ones.
PosixTextArgument ==
  LET p == EatSpaces(Argument + 1)
  IN  /\ Command("aci") /\ job.posix
      /\ IF ~On(Argument, "\\") \/ ~Eol(p) THEN Refuse /\ UNCHANGED cmd
         ELSE /\ cmd' = This /\ acc' = <<>>
              /\ stage' = "posix_text" /\ pos' = p
              /\ UNCHANGED inputVars
      /\ Same(<<want, delim, cmds>>)

ContinuedLine(text) == text # <<>> /\ text[Len(text)] = Backslash
PosixText(text) ==
  acc \o (IF ContinuedLine(text) THEN SubSeq(text, 1, Len(text) - 1) ELSE text) \o <<Newline>>

\* The lines of the text do not become the current one.
PosixTextLine ==
  /\ stage = "posix_text"
  /\ \/ /\ Advance
        /\ acc' = PosixText(NextLine)
        /\ IF ContinuedLine(NextLine) THEN UNCHANGED <<stage, cmd, cmds>>
           ELSE stage' = "sequence" /\ cmd' = WithText(acc') /\ cmds' = Append(cmds, cmd')
        /\ UNCHANGED <<line, pos>>
     \/ /\ Exhausted /\ UNCHANGED acc
        /\ IF acc = <<>> THEN stage' = "error" /\ UNCHANGED <<cmd, cmds>>
           ELSE stage' = "sequence" /\ cmd' = WithText(acc) /\ cmds' = Append(cmds, cmd')
     \/ Unreadable /\ Refuse /\ UNCHANGED <<cmd, cmds>>
  /\ Same(<<job, want, delim>>)
-----------------------------------------------------------------------------
(* Substitution: s with its replacement and its flags.                     *)

WholeMatch == 256
References == WholeMatch .. WholeMatch + 9

StringDelimiter(p, kind, purpose) ==
  IF Eol(p) THEN Crash /\ UNCHANGED <<want, delim, cmd>>
  ELSE IF At(p) = 0 THEN Refuse /\ UNCHANGED <<want, delim, cmd>>
  ELSE Open(p, kind, purpose) /\ cmd' = This /\ UNCHANGED inputVars

Substitute ==
  /\ Command("s")
  /\ StringDelimiter(pos + 1, "regex", "s")
  /\ Same(cmds)

\* parse_regex_for_mode returns, and compile_replacement goes on with the delimiter.
BeginReplacement ==
  /\ stage = "ready" /\ want = "s"
  /\ cmd' = [cmd EXCEPT !.pattern = acc]
  /\ acc' = <<>> /\ stage' = "replacement" /\ pos' = pos + 1
  /\ UNCHANGED inputVars
  /\ Same(<<want, delim, cmds>>)

\* compile_replacement after a backslash, in the order of its cases
ReplacementEscape(p) ==
  IF At(p) \in Digits THEN Got(<<WholeMatch + Value(At(p))>>, p + 1)
  ELSE IF At(p) \in {Backslash, Code["&"], delim} THEN Got(<<At(p)>>, p + 1)
  ELSE Escape(p, <<Backslash, At(p)>>)

ReplacementPiece(p) ==
  IF On(p, "\\") THEN ReplacementEscape(p + 1)
  ELSE IF On(p, "&") THEN Got(<<WholeMatch>>, p + 1)
  ELSE Got(<<At(p)>>, p + 1)

ReplacementEnds(p) == ~Eol(p) /\ At(p) = delim /\ ~On(p, "&")

\* Replacement text; the loop leaves a line only at its end or a backslash there.
Replacement ==
  /\ stage = "replacement" /\ ~Eol(pos) /\ ~(On(pos, "\\") /\ Eol(pos + 1))
  /\ IF ReplacementEnds(pos)
     THEN /\ cmd' = [cmd EXCEPT !.to = acc]
          /\ Goto("flags", pos + 1)
     ELSE Feed(ReplacementPiece(pos)) /\ UNCHANGED <<inputVars, cmd>>
  /\ Same(<<want, delim, cmds>>)

\* An escaped newline is part of the replacement; another one is not, and is not
\* refused.
ReplacementNewline ==
  /\ stage = "replacement" /\ (Eol(pos) \/ (On(pos, "\\") /\ Eol(pos + 1)))
  /\ \/ TakeLine /\ acc' = (IF Eol(pos) THEN acc ELSE Append(acc, Newline)) /\ UNCHANGED stage
     \/ Exhausted /\ stage' = "error" /\ UNCHANGED acc
     \/ Unreadable /\ Refuse
  /\ Same(<<job, want, delim, cmd, cmds>>)

(* The flags: compile_subst_flags.                                         *)

\* g and a number, of which there may be one
Counts(f, p) == ~f.counted /\ (On(p, "g") \/ Usize(p, RunEnd(p, Digits)) <= UsizeMax)

FlagOff(f, p) ==
  \/ At(p) \notin Bytes("gpiImMew123456789")
  \/ (On(p, "g") \/ At(p) \in Digits) /\ ~Counts(f, p)
  \/ job.posix /\ At(p) \in Bytes("iImMe")
  \/ job.sandbox /\ At(p) \in Bytes("ew")
  \/ On(p, "w") /\ Eol(EatSpaces(p + 1))

Flagged(f, p) ==
  CASE On(p, "g") -> [f EXCEPT !.occurrence = 0, !.counted = TRUE]
    [] On(p, "p") -> [f EXCEPT !.print = TRUE, !.printFirst = ~f.execute]
    [] OnAny(p, {"i", "I"}) -> [f EXCEPT !.icase = TRUE]
    [] OnAny(p, {"m", "M"}) -> [f EXCEPT !.multiline = TRUE]
    [] On(p, "e") -> [f EXCEPT !.execute = TRUE]
    [] On(p, "w") -> [f EXCEPT !.file = PathAt(EatSpaces(p + 1))]
    [] OTHER -> [f EXCEPT !.occurrence = Usize(p, RunEnd(p, Digits)), !.counted = TRUE]

FlagEnd(p) == CASE On(p, "w") -> Len(line)
                [] At(p) \in Digits -> RunEnd(p, Digits)
                [] OTHER -> p + 1

FlagsOver(p) == Eol(p) \/ On(p, ";")

\* One flag.  The file of w is created and truncated now, or cannot be.
Flag ==
  LET p == EatSpaces(pos)
      f == cmd.flags
  IN  /\ stage = "flags" /\ ~FlagsOver(p)
      /\ \/ (FlagOff(f, p) \/ On(p, "w")) /\ Refuse /\ UNCHANGED <<cmd, opened>>
         \/ /\ ~FlagOff(f, p)
            /\ cmd' = [cmd EXCEPT !.flags = Flagged(f, p)]
            /\ opened' = IF On(p, "w") THEN Append(opened, PathAt(EatSpaces(p + 1))) ELSE opened
            /\ Goto("flags", FlagEnd(p))
      /\ UNCHANGED <<want, delim, cmds, nesting, quiet>>

MaxReference(to) ==
  LET numbers == {n \in 0 .. 9 : n = 0 \/ \E i \in DOMAIN to : to[i] = WholeMatch + n}
  IN  CHOOSE n \in numbers : \A m \in numbers : m <= n

\* A reference to a group that the expression does not have
ReferenceOff(c) ==
  /\ c.pattern # <<>>
  /\ MaxReference(c.to) > Groups(Expression(c.pattern, c.flags.icase, c.flags.multiline))

\* The expression is compiled with the flags known.
SubstituteEnds ==
  LET p == EatSpaces(pos)
      f == cmd.flags
      off == \/ cmd.pattern = <<>> /\ (f.icase \/ f.multiline)
             \/ Unusable(cmd.pattern, f.icase, f.multiline)
             \/ ReferenceOff(cmd)
      crashes == Crashes(cmd.pattern, f.icase, f.multiline)
  IN  /\ stage = "flags" /\ FlagsOver(p)
      /\ \/ crashes /\ Crash /\ UNCHANGED <<cmd, cmds>>
         \/ /\ ~crashes /\ (off \/ Refusable(cmd.pattern, f.icase, f.multiline))
            /\ Refuse /\ UNCHANGED <<cmd, cmds>>
         \/ ~off /\ ~crashes /\ End(cmd, p)
      /\ Same(<<want, delim>>)
-----------------------------------------------------------------------------
(* Transliteration: y.                                                     *)

Transliterate ==
  /\ Command("y")
  /\ StringDelimiter(pos + 1, "trans", "y")
  /\ Same(cmds)

Readable(bytes) == job.bytes \/ IsUtf8(bytes)

\* The delimiter that ends the first string starts the second one.
TransFirstEnds ==
  /\ stage = "ready" /\ want = "y"
  /\ cmd' = [cmd EXCEPT !.pattern = acc]
  /\ IF Readable(acc) THEN Open(pos, "trans", "to") /\ UNCHANGED inputVars
     ELSE Refuse /\ UNCHANGED <<want, delim>>
  /\ Same(cmds)

TransEnd ==
  /\ stage = "ready" /\ want = "to"
  /\ IF Readable(acc) /\ CharCount(acc) = CharCount(cmd.pattern)
     THEN End([cmd EXCEPT !.to = acc], pos + 1)
     ELSE Refuse /\ UNCHANGED <<cmd, cmds>>
  /\ Same(<<want, delim>>)
-----------------------------------------------------------------------------
String == ReadString /\ Same(<<cmd, cmds>>)

Addresses == AddressPlain \/ AddressRegex \/ AddressRegexEnds \/ SeparatorNone \/ Separator

Handlers ==
  \/ Negation \/ OpenBlock \/ CloseBlock \/ NoArgument \/ LabelArgument \/ NumberArgument
  \/ ReadArgument \/ WriteArgument \/ VersionArgument
  \/ TextArgument \/ ExecuteArgument \/ PosixTextArgument \/ Substitute \/ Transliterate

Texts == TextEnds \/ TextEscapes \/ TextByte \/ TextContinues \/ PosixTextLine

Substitutions ==
  \/ BeginReplacement \/ Replacement \/ ReplacementNewline \/ Flag \/ SubstituteEnds

Next ==
  \/ SequenceLine \/ SequenceSemicolon \/ SequenceCommand
  \/ Addresses \/ CommandUnknown \/ Handlers \/ String \/ Texts \/ Substitutions
  \/ TransFirstEnds \/ TransEnd

Spec == Init /\ [][Next]_vars
-----------------------------------------------------------------------------
Stages == Strings \cup
  {"sequence", "address", "separator", "command", "ready", "text", "continuation",
   "posix_text", "replacement", "flags", "done", "error", "panic"}

\* Whatever is read, the cursor stays in the line: the code moves it without
\* looking whether there is a byte (line[pos] panics).
CursorInLine == pos \in 0 .. Len(line)

\* A string is taken as read only with the cursor on its closing delimiter: the
\* code goes on with the byte after it, and y starts its second string there.
ReadyAtDelimiter == stage = "ready" => ~Eol(pos)

\* Every variable has its type, and the cursor is where the code takes it to be.
TypeOK ==
  /\ stage \in Stages
  /\ CursorInLine /\ ReadyAtDelimiter
  /\ line \in Seq(Byte)
  /\ source \in 0 .. Len(job.scripts) + 1
  /\ taken \in Nat
  /\ want \in {"", "first", "second", "s", "y", "to"}
  /\ delim \in Byte
  /\ acc \in Seq(Byte \cup References)
  /\ nesting \in Nat
  /\ quiet \in BOOLEAN
  /\ opened \in Seq(Seq(Byte))
=============================================================================
