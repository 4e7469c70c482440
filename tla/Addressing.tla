----------------------------- MODULE Addressing -----------------------------
(***************************************************************************)
(* How a sed command decides whether it is selected: match_address and     *)
(* applies of processor.rs.  The module holds operators only; Processor    *)
(* uses them inside the execution cycle, Ranges studies one range alone.   *)
(*                                                                         *)
(* An address is a record [kind, n, re].                                   *)
(*   "none"       the command has no such address                          *)
(*   "re"         Address::Re; re is the set of lines the expression       *)
(*                matches, {} standing for the empty expression "//",      *)
(*                which means the last expression used                     *)
(*   "line"       Address::Line(n)           "last"     Address::Last      *)
(*   "rel"        Address::RelLine(n)   +n                                 *)
(*   "stepmatch"  Address::StepMatch(n) ~n   "stepend"  StepEnd(n)  ,~n    *)
(*                                                                         *)
(* A view v of the state is a record [line, content, last, saved]: the     *)
(* line number, the lines of the pattern space, whether "$" holds, and the *)
(* saved regular expression ({} when there is none).                       *)
(***************************************************************************)
EXTENDS Integers, Sequences

AddressKind == {"none", "re", "line", "last", "rel", "stepmatch", "stepend"}

Unlatched == -1          \* start_line = None

NoAddress == [kind |-> "none", n |-> 0, re |-> {}]

\* k.is_multiple_of(m): only zero is a multiple of zero.
IsMultipleOf(k, m) == IF m = 0 THEN k = 0 ELSE k % m = 0

\* The expression an address stands for, given the saved one.
ReOrSaved(re, saved) == IF re = {} THEN saved ELSE re

\* A pattern space, a sequence of lines, matches when one of its lines does.
ReMatches(re, content) == \E i \in DOMAIN content : content[i] \in re

MatchAddress(a, v) ==
  \/ a.kind = "re"   /\ ReMatches(ReOrSaved(a.re, v.saved), v.content)
  \/ a.kind = "line" /\ v.line = a.n
  \/ a.kind = "last" /\ v.last

IsRange(c) == c.a2.kind # "none"

\* The address match_address is asked about, if any: the first one, or in a
\* latched range the second one when it is not decided by line arithmetic.
Consulted(c, start) ==
  IF c.a1.kind = "none" \/ ~IsRange(c) \/ start = Unlatched THEN c.a1
  ELSE IF c.a2.kind \in {"re", "last"} THEN c.a2
  ELSE NoAddress

\* "no previous regular expression" (re_or_saved_re).
LacksRe(c, start, saved) ==
  LET asked == Consulted(c, start)
  IN  asked.kind = "re" /\ ReOrSaved(asked.re, saved) = {}

\* The saved expression after the command has been tested.
SavedAfter(c, start, saved) ==
  LET asked == Consulted(c, start)
  IN  IF asked.kind = "re" THEN ReOrSaved(asked.re, saved) ELSE saved

\* A latched range whose numeric end is already behind the current line.
Overrun(c, start, v) ==
  \/ c.a2.kind = "rel"  /\ v.line - start > c.a2.n
  \/ c.a2.kind = "line" /\ v.line > c.a2.n

\* Mutation: a step end is not looked for.
EndsHereAtMatch(c, v) == c.a2.kind \in {"re", "last"} /\ MatchAddress(c.a2, v)

\* The latched range ends on this very line.
EndsHere(c, v) ==
  \/ c.a2.kind = "stepend" /\ IsMultipleOf(v.line, c.a2.n)
  \/ c.a2.kind \in {"re", "last"} /\ MatchAddress(c.a2, v)

\* A range whose first line is also known to be its last.
OneLineRange(c, v) ==
  \/ c.a2.kind = "line" /\ v.line >= c.a2.n
  \/ c.a2.kind = "rel"  /\ c.a2.n = 0

\* Mutation: an active range selects whatever the line number.
InAddressUnbounded(c, start, v) ==
  IF IsRange(c) /\ start # Unlatched
  THEN c.a2.kind = "stepmatch" => IsMultipleOf(v.line - start, c.a2.n)
  ELSE c.a1.kind = "none" \/ MatchAddress(c.a1, v)

\* The addresses select the line, before "!" is taken into account.
InAddress(c, start, v) ==
  IF IsRange(c) /\ start # Unlatched
  THEN /\ ~Overrun(c, start, v)
       /\ c.a2.kind = "stepmatch" => IsMultipleOf(v.line - start, c.a2.n)
  ELSE c.a1.kind = "none" \/ MatchAddress(c.a1, v)

\* The result of applies.
Applies(c, start, v) == InAddress(c, start, v) # c.neg

\* Mutation: the line is latched on which the range will end.
StartAfterLatchingEnd(c, start, v) ==
  IF ~IsRange(c) THEN start
  ELSE IF start # Unlatched
  THEN IF Overrun(c, start, v) \/ EndsHere(c, v) THEN Unlatched ELSE start
  ELSE IF MatchAddress(c.a1, v) /\ ~OneLineRange(c, v) THEN v.line + c.a2.n
  ELSE Unlatched

\* Mutation: the line after the range opens it again.
StartAfterReopening(c, start, v) ==
  IF ~IsRange(c) THEN start
  ELSE IF start # Unlatched
  THEN IF Overrun(c, start, v) THEN v.line
       ELSE IF EndsHere(c, v) THEN Unlatched ELSE start
  ELSE IF MatchAddress(c.a1, v) /\ ~OneLineRange(c, v) THEN v.line
  ELSE Unlatched

\* start_line after applies.
StartAfter(c, start, v) ==
  IF ~IsRange(c) THEN start
  ELSE IF start # Unlatched
  THEN IF Overrun(c, start, v) \/ EndsHere(c, v) THEN Unlatched ELSE start
  ELSE IF MatchAddress(c.a1, v) /\ ~OneLineRange(c, v) THEN v.line
  ELSE Unlatched

\* applies sets context.last_address; nothing in the program clears it.
SetsLastAddress(c, start, v) ==
  /\ IsRange(c)
  /\ IF start # Unlatched
     THEN c.a2.kind \in {"re", "last"} /\ MatchAddress(c.a2, v)
     ELSE MatchAddress(c.a1, v) /\ OneLineRange(c, v)

\* reset_latched_address_ranges: ranges start inactive, 0,/re/ and 0~n active.
ResetStart(c) ==
  IF IsRange(c) /\ c.a1.kind = "line" /\ c.a1.n = 0 THEN 0 ELSE Unlatched
=============================================================================
