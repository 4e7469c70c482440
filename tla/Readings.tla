------------------------------ MODULE Readings ------------------------------
(***************************************************************************)
(* What the text of a script says, stated without a cursor: the readings   *)
(* that Arguments is compared with.                                        *)
(***************************************************************************)
EXTENDS Arguments, SequencesExt

Final == stage \in {"done", "error", "panic"}

Joined(lines) == FlattenSeq([i \in DOMAIN lines |-> Append(lines[i], Newline)])
FirstLine == job.scripts[1].lines[1]
Without(bytes, S) == SelectSeq(bytes, LAMBDA b : b \notin S)
Trimmed(bytes) ==
  LET inked == {i \in DOMAIN bytes : bytes[i] \notin White}
  IN  IF inked = {} THEN <<>> ELSE SubSeq(bytes, Min(inked), Max(inked))
-----------------------------------------------------------------------------
(* Addresses, of a line that ends with a command of one letter.            *)

IsNumber(t) ==
  t # <<>> /\ ToSet(t) \subseteq Digits /\ Number(t, 10, UsizeMax) <= UsizeMax

Addressed(t) ==
  IF t = <<>> THEN {NoAddr}
  ELSE IF t = T("$") THEN {[kind |-> "last"]}
  ELSE IF IsNumber(t) THEN {Line(Number(t, 10, UsizeMax))}
  ELSE IF t[1] = Code["+"] /\ IsNumber(Tail(t))
  THEN {[kind |-> "relative", n |-> Number(Tail(t), 10, UsizeMax)]} ELSE {}

SeparatorText == [s \in {"", ",", "~", ",~", "~~"} |-> T(s)]

\* first, first,last, first~step and first,~step; line 0 only has a step.
Legal(r) ==
  /\ r.addr1.kind # "relative"
  /\ (r.sep = "") = (r.addr2 = NoAddr)
  /\ r.sep # "" => r.addr1 # NoAddr
  /\ r.sep \notin {"", ","} => r.addr2.kind = "line"
  /\ r.addr1 = Line(0) => r.sep \in {"~", "~~"}

\* The ways to take a text apart into two addresses and what is between them
AddressReadings(text) ==
  {r \in UNION {[addr1 : Addressed(Trimmed(SubSeq(text, 1, i))),
                 sep : {s \in DOMAIN SeparatorText :
                          SeparatorText[s] = Without(SubSeq(text, i + 1, j), White)},
                 addr2 : Addressed(Trimmed(SubSeq(text, j + 1, Len(text))))] :
                i, j \in 0 .. Len(text)} : Legal(r)}

\* A script of one command with a letter and no argument is accepted if there is a
\* reading of its addresses, and its command has them.
AddressesAsRead ==
  LET readings == AddressReadings(Front(FirstLine))
  IN  /\ stage = "done" =>
           {[addr1 |-> c.addr1, sep |-> c.sep, addr2 |-> c.addr2] : c \in ToSet(cmds)} = readings
      /\ stage \in {"error", "panic"} => readings = {}
-----------------------------------------------------------------------------
(* The flags of s, from the text behind s/a/b/ up to a semicolon.          *)

UpTo(text, b) == IF b \in ToSet(text) THEN SubSeq(text, 1, SelectInSeq(text, LAMBDA c : c = b) - 1)
                 ELSE text

Places(text, S) == {i \in DOMAIN text : text[i] \in S}
NumberStarts(text) ==
  {i \in Places(text, Digits) : i = 1 \/ text[i - 1] \notin Digits}
NumberAt(text, i) ==
  LET ends == {j \in i .. Len(text) : ToSet(SubSeq(text, i, j)) \subseteq Digits}
  IN  SubSeq(text, i, Max(ends))

FlagsLegal(text) ==
  /\ ToSet(text) \subseteq Bytes("gpe iI") \cup Digits
  /\ Cardinality(Places(text, Bytes("g")) \cup NumberStarts(text)) <= 1
  /\ \A i \in NumberStarts(text) : text[i] # Code["0"] /\ IsNumber(NumberAt(text, i))
  /\ job.posix => Places(text, Bytes("eiI")) = {}
  /\ job.sandbox => Places(text, Bytes("e")) = {}

\* p prints before e runs its command if no e is in front of the last p.
FlagsSaid(text) ==
  LET printed == Places(text, Bytes("p"))
      run == Places(text, Bytes("e"))
  IN  [NoFlags EXCEPT
         !.occurrence = IF Places(text, Bytes("g")) # {} THEN 0
                        ELSE IF NumberStarts(text) = {} THEN 1
                        ELSE Number(NumberAt(text, Min(NumberStarts(text))), 10, UsizeMax),
         !.counted = Places(text, Bytes("g")) \cup NumberStarts(text) # {},
         !.print = printed # {},
         !.printFirst = printed # {} /\ \A i \in run : i > Max(printed),
         !.execute = run # {},
         !.icase = Places(text, Bytes("iI")) # {}]

FlagsAsRead ==
  LET text == UpTo(SubSeq(FirstLine, 7, Len(FirstLine)), Code[";"])
  IN  /\ cmds # <<>> => FlagsLegal(text) /\ cmds[1].flags = FlagsSaid(text)
      /\ (stage = "error" /\ cmds = <<>>) =>
           ~FlagsLegal(text) \/ Refusable(cmd.pattern, cmd.flags.icase, FALSE)
-----------------------------------------------------------------------------
(* Where a regular expression ends.                                        *)

VARIABLE began   \* where the last regular expression starts: a history of Arguments

ReadVars == <<vars, began>>
Begins == stage \notin {"regex", "bracket"} /\ stage' = "regex"
ReadNext == Next /\ began' = IF Begins THEN pos' ELSE began
ReadInit == Init /\ began = 0
ReadSpec == ReadInit /\ [][ReadNext]_ReadVars

\* How the bytes of an expression are meant: outside, escaped or made a control
\* character by \c, just inside a bracket expression, after its ^, further inside,
\* or in a name of one of three kinds between [: and :].
Within(b, next) == IF b = Code["]"] THEN "outside"
                   ELSE IF b = Code["["] /\ next \in Markers THEN "opening" ELSE "inside"
ClosedBy == [class |-> Code[":"], symbol |-> Code["."], equivalence |-> Code["="]]
ModeAfter(mode, b, next, d) ==
  CASE mode = "outside" -> IF b = Backslash THEN "escaped"
                           ELSE IF b = Code["["] /\ d # b THEN "open" ELSE "outside"
    [] mode = "escaped" -> IF b = Code["c"] /\ d # b /\ next < 128 THEN "control" ELSE "outside"
    [] mode = "control" -> "outside"
    [] mode = "open" -> IF b = Code["^"] THEN "negated"
                        ELSE IF b = Code["]"] THEN "inside" ELSE Within(b, next)
    [] mode = "negated" -> IF b = Code["]"] THEN "inside" ELSE Within(b, next)
    [] mode = "inside" -> Within(b, next)
    [] mode = "opening" -> IF b = ClosedBy.class THEN "class"
                           ELSE IF b = ClosedBy.symbol THEN "symbol" ELSE "equivalence"
    [] mode \in DOMAIN ClosedBy -> IF b = ClosedBy[mode] /\ next = Code["]"] THEN "close" ELSE mode
    [] mode = "close" -> "inside"

\* Of the bytes of text from a place on, and of what would come after them
Modes(text, first, d) ==
  LET mode[i \in first .. Len(text) + 1] ==
        IF i = first THEN "outside"
        ELSE ModeAfter(mode[i - 1], text[i - 1], IF i > Len(text) THEN 0 ELSE text[i], d)
  IN  mode

\* The code reads escapes inside of bracket expressions, takes the byte behind a [
\* there as it stands, and a delimiter among the digits of an escape for one of
\* them: such expressions have no reading here.
NoReading(text, mode, d, i) ==
  \/ /\ mode[i] \in {"open", "negated", "inside"}
     /\ text[i] = Backslash \/ (text[i] = Code["["] /\ (i = Len(text) \/ text[i + 1] \notin Markers))
  \/ mode[i] = "escaped" /\ text[i] \in {Code[c] : c \in DOMAIN NumericEscapes} \ {d} /\ Value(d) < 16

\* A regular expression, of an address or of s, ends at the first delimiter that is
\* neither escaped nor in a bracket expression.
RegexEndsAtDelimiter ==
  (stage = "ready" /\ want \in {"first", "second", "s"}) =>
    LET mode == Modes(line, began + 1, delim)
        closing == {i \in began + 1 .. Len(line) : mode[i] = "outside" /\ line[i] = delim}
    IN  \/ \E i \in began + 1 .. pos : NoReading(line, mode, delim, i)
        \/ pos + 1 \in closing /\ \A i \in closing : pos + 1 <= i

-----------------------------------------------------------------------------
(* The text of a, c, i and e.                                              *)

\* What follows the letter and its spaces up to the end of the script, without the
\* backslash that may introduce it and the newline behind that.
TextSource(lines) ==
  LET head == Tail(lines[1])
      inked == {i \in DOMAIN head : head[i] \notin White}
      given == IF inked = {} THEN <<>> ELSE SubSeq(head, Min(inked), Len(head))
      rest == IF given # <<>> /\ given[1] = Backslash THEN Tail(given) ELSE given
  IN  IF given = <<>> THEN <<>>
      ELSE IF rest = <<>> THEN Joined(Tail(lines))
      ELSE rest \o <<Newline>> \o Joined(Tail(lines))

\* Up to the first newline without a backslash, a backslash giving way to what is
\* behind it.
TextSaid(lines) ==
  LET text == TextSource(lines)
      tokens == Tokens(text)
      over == {i \in DOMAIN tokens : tokens[i] = <<Newline>>}
      said == IF over = {} THEN text ELSE FlattenSeq(SubSeq(tokens, 1, Min(over) - 1))
  IN  RemoveEscapes(said)
      \o IF over # {} /\ lines[1][1] # Code["e"] THEN <<Newline>> ELSE <<>>

TextAsRead ==
  LET lines == job.scripts[1].lines
  IN  /\ cmds # <<>> => cmds[1].arg = TextSaid(lines)
      /\ (stage = "error" /\ cmds = <<>>) => Trimmed(Tail(lines[1])) = <<>>
-----------------------------------------------------------------------------
(* What an expression means, as the sequence of its elements.              *)

Elem(kind, bytes) == [kind |-> kind, of |-> bytes]
Byte1(token) == token[Len(token)]
Byte1s(tokens) == {Byte1(tokens[i]) : i \in DOMAIN tokens}

\* A bracket expression: whether it is negated, and its members.
Bracket(tokens, i, j) ==
  IF i < j /\ tokens[i + 1] = T("^") THEN Elem("none of", Byte1s(SubSeq(tokens, i + 2, j - 1)))
  ELSE Elem("one of", Byte1s(SubSeq(tokens, i + 1, j - 1)))

\* A star of a basic expression with nothing before it to repeat, which is literal
StarAtStart(tokens, i) ==
  /\ tokens[i] = T("*")
  /\ \/ i = 1
     \/ i = 2 /\ tokens[1] = T("^")
     \/ i > 1 /\ tokens[i - 1] \in {T("\\("), T("\\|")}

\* In a basic expression an anchor stands at an end, a star behind something, and
\* an operator of extended ones has a backslash.  A brace that closes nothing is
\* literal.
IsOperator(tokens, i, basic) ==
  LET b == Byte1(tokens[i])
      escaped == Len(tokens[i]) = 2
      stray == /\ b = Code["}"]
               /\ \A j \in 1 .. i - 1 : tokens[j] # IF basic THEN T("\\{") ELSE T("{")
  IN  /\ ~stray
      /\ IF ~basic THEN ~escaped /\ b \in EreOnly \cup Bytes(".*^$")
         ELSE IF escaped THEN b \in EreOnly
         ELSE \/ b = Code["."]
              \/ b = Code["*"] /\ ~StarAtStart(tokens, i)
              \/ b = Code["^"] /\ i = 1
              \/ b = Code["$"] /\ i = Len(tokens)

\* A reference of an extended expression goes on in the digits behind it.
Element(tokens, i, basic) ==
  LET b == Byte1(tokens[i])
      escaped == Len(tokens[i]) = 2
  IN  IF IsOperator(tokens, i, basic) THEN Elem("operator", {b})
      ELSE IF escaped /\ b \in Digits
      THEN Elem("reference", {b} \cup (IF ~basic /\ i < Len(tokens)
                                       THEN {256 + c : c \in {tokens[i + 1][1]} \cap Digits}
                                       ELSE {}))
      ELSE Elem(IF escaped /\ b \in Letters THEN "class" ELSE "literal", {b})

\* (?:\1) of an extended expression is a reference.
Meaning(p, basic) ==
  LET tokens == Tokens(p)
      wrapped(i) == ~basic /\ i + 4 <= Len(tokens)
                    /\ SubSeq(tokens, i, i + 2) = <<T("("), T("?"), T(":")>>
      from[i \in 1 .. Len(tokens) + 1] ==
        IF i > Len(tokens) THEN <<>>
        ELSE IF tokens[i] = T("[")
        THEN <<Bracket(tokens, i, BracketEnd(tokens, i))>> \o from[BracketEnd(tokens, i) + 1]
        ELSE IF wrapped(i) THEN <<Element(tokens, i + 3, basic)>> \o from[i + 5]
        ELSE <<Element(tokens, i, basic)>> \o from[i + 1]
  IN  from[1]

PatternRead == stage = "ready" /\ want \in {"first", "second", "s"} /\ acc # <<>>

\* A backslash in a bracket expression is a member of it, but the translation takes
\* it for an escape: [\1] becomes [(?:\1)].
BackslashMember(p) ==
  LET tokens == Tokens(p)
  IN  \E i \in DOMAIN tokens \ Outside(tokens) : Len(tokens[i]) = 2

\* A star that is literal is passed on as it is, and becomes an operator.
LeadingStar(p) ==
  LET tokens == Tokens(p)
  IN  \E i \in Outside(tokens) \cap DOMAIN tokens : StarAtStart(tokens, i)

\* The extended expression that a basic one is translated to has the same elements:
\* operators, anchors, references and bracket expressions.  The two kinds of
\* expression of which this is not true are left out.
TranslationKeepsMeaning ==
  (PatternRead /\ ~job.extended /\ ~BackslashMember(acc) /\ ~LeadingStar(acc)) =>
    Meaning(acc, TRUE) = Meaning(BreToEre(acc), FALSE)

\* The search for literal bytes takes an escaped anchor at an end, and every other ^
\* or $ of an extended expression, for what it is not.
AnchorMistaken(p, meaning) ==
  LET tokens == Tokens(p)
  IN  \/ tokens[1] = T("\\^") \/ tokens[Len(tokens)] = T("\\$")
      \/ job.extended /\ \E i \in DOMAIN meaning :
                           /\ meaning[i].kind = "operator"
                           /\ \/ i > 1 /\ meaning[i].of = Bytes("^")
                              \/ i < Len(meaning) /\ meaning[i].of = Bytes("$")

\* The leftmost place of the literal bytes, at the ends that are anchored
LeftmostMatch(bytes, begin, end, text) ==
  LET matches == {at \in 0 .. Len(text) - Len(bytes) :
                    /\ SubSeq(text, at + 1, at + Len(bytes)) = bytes
                    /\ begin => at = 0
                    /\ end => at + Len(bytes) = Len(text)}
  IN  {[start |-> at, end |-> at + Len(bytes)] : at \in {IF matches = {} THEN -1 ELSE Min(matches)} \ {-1}}

Subjects == SeqOf(Bytes("a.^"), 3)

\* An expression that is searched for as literal bytes has no elements but literal
\* ones and anchors at its ends, and the search finds its leftmost match.  (NEEDS_RE
\* reads characters: it overlooks what follows bytes that are not UTF-8.)
LiteralMeansPattern ==
  LET e == Expression(acc, FALSE, FALSE)
      meaning == Meaning(acc, ~job.extended)
      anchored(i, b) == meaning[i] = Elem("operator", Bytes(b))
      begin == anchored(1, "^")
      end == anchored(Len(meaning), "$")
      middle == SubSeq(meaning, IF begin THEN 2 ELSE 1, Len(meaning) - (IF end THEN 1 ELSE 0))
      bytes == [i \in DOMAIN middle |-> CHOOSE b \in middle[i].of : TRUE]
  IN  (/\ PatternRead /\ IsUtf8(acc) /\ Engine(e) = "literal"
       /\ ~Crashes(acc, FALSE, FALSE) /\ ~AnchorMistaken(acc, meaning)) =>
        /\ \A i \in DOMAIN middle : middle[i].kind = "literal"
        /\ \A text \in Subjects :
             Find(Needle(e), text) = LeftmostMatch(bytes, begin, end, text)
=============================================================================
