------------------------------- MODULE Ranges -------------------------------
(***************************************************************************)
(* One range command met by a stream of lines: the latch of applies        *)
(* (processor.rs) against what a range of lines is.  The cycle tests the   *)
(* command on some lines and passes it by on others: a branch jumped over  *)
(* it, its block was not entered, or an N earlier in the script read them. *)
(***************************************************************************)
EXTENDS Addressing

CONSTANTS Kinds,     \* what a line may contain
          Commands,  \* the command, with its two addresses
          Lines      \* the number of lines

ASSUME LinesAssumption == Lines \in Nat

Ends == [kind : AddressKind, n : Nat, re : SUBSET Kinds]

\* Compiled ranges: +n and ~n are second addresses only, and a range from line
\* 0 ends at a regular expression or is a step (compile_address_range).
ASSUME CommandsAssumption ==
  \A c \in Commands :
    /\ c \in [a1 : Ends, a2 : Ends, neg : {FALSE}]
    /\ c.a1.kind \in {"re", "line", "last"}
    /\ c.a2.kind # "none"
    /\ c.a1.kind = "re" => c.a1.re # {}
    /\ c.a2.kind = "re" => c.a2.re # {}
    /\ c.a1.kind = "line" /\ c.a1.n = 0 => c.a2.kind \in {"re", "stepmatch"}

VARIABLES command,    \* the range command
          stream,     \* the lines of the input
          line,       \* context.line_number
          startLine,  \* its start_line
          tested,     \* history: the lines the command was tested on
          selected    \* history: the lines it was selected for

vars == <<command, stream, line, startLine, tested, selected>>

ViewAt(l) == [line |-> l, content |-> <<stream[l]>>, last |-> l = Lines, saved |-> {}]

Opens(l) == MatchAddress(command.a1, ViewAt(l))

Init ==
  /\ command \in Commands
  /\ stream \in [1 .. Lines -> Kinds]
  /\ line = 0
  /\ startLine = ResetStart(command)
  /\ tested = {} /\ selected = {}

\* The next line is read and the command tested on it.
Test ==
  /\ line < Lines
  /\ line' = line + 1
  /\ startLine' = StartAfter(command, startLine, ViewAt(line'))
  /\ tested' = tested \cup {line'}
  /\ selected' = IF Applies(command, startLine, ViewAt(line'))
                 THEN selected \cup {line'} ELSE selected
  /\ UNCHANGED <<command, stream>>

\* The next line is read and the command not met.
PassBy ==
  /\ line < Lines
  /\ line' = line + 1
  /\ UNCHANGED <<command, stream, startLine, tested, selected>>

Done == line = Lines /\ UNCHANGED vars

Next == Test \/ PassBy \/ Done

Spec == Init /\ [][Next]_vars
-----------------------------------------------------------------------------
\* The variables have the types of the program's fields.
TypeOK ==
  /\ command \in Commands
  /\ stream \in [1 .. Lines -> Kinds]
  /\ line \in 0 .. Lines
  /\ startLine \in 0 .. Lines \cup {Unlatched}
  /\ tested \in SUBSET (1 .. line)
  /\ selected \in SUBSET tested

\* A range that is active was opened by a line the first address matches, and
\* that was tested; only 0,/re/ and 0~n are active from the start.
Opened(s) == (s = 0 /\ ResetStart(command) = 0) \/ (s \in tested /\ Opens(s))
LatchHasOpener == startLine = Unlatched \/ Opened(startLine)

\* The lines a range opened by line s may reach as far as line arithmetic says.
Reaches(s, l) ==
  /\ s <= l
  /\ command.a2.kind = "line" => l <= command.a2.n \/ l = s
  /\ command.a2.kind = "rel"  => l - s <= command.a2.n
  /\ command.a2.kind = "stepmatch" => IsMultipleOf(l - s, command.a2.n)

\* A line is selected only inside a range: some line at or before it opened one
\* that reaches it, even if the latch was not tested for a while and is stale.
SelectedInsideRange ==
  \A l \in selected : \E s \in 0 .. l : Opened(s) /\ Reaches(s, l)

\* What POSIX and GNU sed mean by a range.  The first line after the line s
\* that opened it which ends it, if there is one.
EndsAt(s, l) ==
  CASE command.a2.kind = "line" -> l >= command.a2.n
    [] command.a2.kind = "rel"  -> l >= s + command.a2.n
    [] command.a2.kind = "stepend" -> l > s /\ IsMultipleOf(l, command.a2.n)
    [] command.a2.kind \in {"re", "last"} -> l > s /\ MatchAddress(command.a2, ViewAt(l))
    [] OTHER -> FALSE

\* The line that opened the range each line is in, or Unlatched outside ranges:
\* a line after the end of a range can open another one.
RangeOf ==
  LET open[l \in 0 .. Lines] ==
        IF l = 0 THEN ResetStart(command)
        ELSE LET s == open[l - 1]
             IN  IF s # Unlatched /\ ~\E k \in s .. l - 1 : k > 0 /\ EndsAt(s, k) THEN s
                 ELSE IF Opens(l) THEN l ELSE Unlatched
  IN  open

\* Tested on every line, the command is selected for the lines of its ranges
\* and no other.
Covered == {l \in 1 .. line : /\ RangeOf[l] # Unlatched
                              /\ command.a2.kind = "stepmatch"
                                   => IsMultipleOf(l - RangeOf[l], command.a2.n)}
SelectsItsRanges == tested = 1 .. line => selected = Covered

\* The same for every range except one that a regular expression opens and a
\* number ends.
EndedByNumber == command.a1.kind = "re" /\ command.a2.kind \in {"line", "rel"}
SelectsMatchEndedRanges == ~EndedByNumber => SelectsItsRanges
=============================================================================
