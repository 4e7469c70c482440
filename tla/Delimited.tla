----------------------------- MODULE Delimited -----------------------------
(***************************************************************************)
(* The delimited strings of a script (delimited_parser.rs): the regular    *)
(* expression of an address and of s, and the two strings of y.  A step is *)
(* one turn of a loop of the code: it moves the cursor over what it        *)
(* recognised and appends what that stands for.  A string is "ready" with  *)
(* the cursor on its closing delimiter.                                    *)
(***************************************************************************)
EXTENDS ScriptText

CONSTANT DupMax   \* RE_DUP_MAX

ASSUME DupMaxAssumption == DupMax \in Nat

VARIABLES stage,   \* what is being read
          want,    \* what the string is for: "address", "s", "y" or "to", y's second one
          delim,   \* its delimiter
          acc      \* the bytes of it, or of another argument, so far

stringVars == <<want, delim, acc>>

Strings == {"regex", "bracket", "trans"}

Stop(how) == stage' = how /\ UNCHANGED <<pos, acc>>
Feed(piece) ==
  /\ stage' = IF piece.st = "ok" THEN stage ELSE piece.st
  /\ acc' = acc \o piece.bytes
  /\ pos' = piece.at

\* scan_delimiter at p, for the loop that reads the rest
Open(p, kind, purpose) ==
  IF Eol(p) \/ On(p, "\\")
  THEN Stop("error") /\ UNCHANGED <<want, delim>>
  ELSE /\ stage' = kind
       /\ want' = purpose
       /\ delim' = At(p)
       /\ acc' = <<>>
       /\ pos' = p + 1

\* An escape keeps its backslash when it means nothing here.
Kept(p) == IF Eol(p) THEN Bad(p) ELSE Escape(p, <<Backslash, At(p)>>)

Close == stage' = "ready" /\ UNCHANGED <<pos, acc>>
-----------------------------------------------------------------------------
(* Quantifiers.                                                            *)

\* Where the content ends that starts at p, and what must be there to close it.
ContentEnd(p) ==
  RunEnd(p, Byte \ {delim, IF job.extended THEN Code["}"] ELSE Backslash})
Closed(q) == IF job.extended THEN On(q, "}") /\ delim # Code["}"]
             ELSE On(q, "\\") /\ On(q + 1, "}")

\* validate_quantifier_structure of the content from p up to q
WellFormed(p, q) ==
  /\ Closed(q)
  /\ p < q
  /\ \A i \in p .. q - 1 : At(i) \in Digits \cup {Code[","]}
  /\ Cardinality({i \in p .. q - 1 : On(i, ",")}) <= 1

Zero(digits) == IF digits = <<>> THEN <<Code["0"]>> ELSE digits
Bound(digits) == Number(digits, 10, DupMax)

\* validate_quantifier_numbers, at the opening brace: m defaults to 0 and n to no
\* bound.  The cursor is left at what closes the quantifier.
Quantifier(p, opening) ==
  LET q == ContentEnd(p + 1)
      comma == RunEnd(p + 1, Digits)
      m == Text(p + 1, comma)
      n == Text(comma + 1, q)
  IN  IF ~WellFormed(p + 1, q) \/ Bound(m) > DupMax \/ Bound(n) > DupMax
         \/ (n # <<>> /\ Bound(m) > Bound(n))
      THEN Bad(q)
      ELSE Got(opening \o Zero(m) \o Text(comma, q), q)
-----------------------------------------------------------------------------
(* Regular expressions: parse_regex_for_mode.                              *)

RegexEscape(p) ==
  IF Eol(p) THEN Bad(p)
  ELSE IF At(p) = delim THEN Got(<<delim>>, p + 1)
  ELSE IF On(p, "{") /\ ~job.extended THEN Quantifier(p, <<Backslash, Code["{"]>>)
  ELSE IF On(p, "}") THEN Got(<<Backslash, At(p)>>, p + 1)
  ELSE Kept(p)

OpensBracket == On(pos, "[") /\ delim # Code["["]
OpensQuantifier == job.extended /\ On(pos, "{") /\ delim # Code["{"]

RegexEnds == stage = "regex" /\ ~Eol(pos) /\ At(pos) = delim /\ Close
RegexUnterminated == stage = "regex" /\ Eol(pos) /\ Stop("error")
RegexEscapes == stage = "regex" /\ On(pos, "\\") /\ Feed(RegexEscape(pos + 1))
RegexQuantifier == stage = "regex" /\ OpensQuantifier /\ Feed(Quantifier(pos, <<Code["{"]>>))
RegexByte ==
  /\ stage = "regex"
  /\ ~Eol(pos)
  /\ At(pos) \notin {delim, Backslash}
  /\ ~OpensBracket
  /\ ~OpensQuantifier
  /\ Feed(Got(<<At(pos)>>, pos + 1))

\* Mutation: a leading ] ends the bracket expression.
BracketStartPlain(p) == IF On(p, "^") THEN p + 1 ELSE p

\* A bracket expression may start with ^ and then with a ] that is a member.
BracketStart(p) ==
  LET q == IF On(p, "^") THEN p + 1 ELSE p
  IN  IF On(q, "]") THEN q + 1 ELSE q

RegexBracket ==
  /\ stage = "regex"
  /\ OpensBracket
  /\ stage' = "bracket"
  /\ pos' = BracketStart(pos + 1)
  /\ acc' = acc \o Text(pos, BracketStart(pos + 1))
-----------------------------------------------------------------------------
(* Bracket expressions: parse_character_class.                             *)

Markers == {Code[":"], Code["."], Code["="]}

\* A class, a collating symbol or an equivalence, at its second [: where it may end.
NameEnds(p) == {q \in p + 1 .. Len(line) - 2 : At(q) = At(p) /\ On(q + 1, "]")}

\* After a [ that is a member: the code takes the byte behind it as it stands.
BracketOpening(p) ==
  IF Eol(p) THEN Got(<<Code["["]>>, p)
  ELSE IF At(p) \notin Markers THEN Got(<<Code["["], At(p)>>, p + 1)
  ELSE IF NameEnds(p) = {} THEN Bad(Len(line))
  ELSE LET q == CHOOSE q \in NameEnds(p) : \A r \in NameEnds(p) : q <= r
       IN  Got(Text(p - 1, q + 2), q + 2)

BracketEnds ==
  /\ stage = "bracket"
  /\ On(pos, "]")
  /\ stage' = "regex"
  /\ pos' = pos + 1
  /\ acc' = Append(acc, At(pos))
BracketUnterminated == stage = "bracket" /\ Eol(pos) /\ Stop("error")
BracketOpens == stage = "bracket" /\ On(pos, "[") /\ Feed(BracketOpening(pos + 1))
BracketEscapes == stage = "bracket" /\ On(pos, "\\") /\ Feed(Kept(pos + 1))
BracketByte ==
  /\ stage = "bracket"
  /\ ~Eol(pos)
  /\ ~OnAny(pos, {"]", "[", "\\"})
  /\ Feed(Got(<<At(pos)>>, pos + 1))
-----------------------------------------------------------------------------
(* The strings of y: parse_transliteration_bytes.                          *)

TransEscape(p) ==
  IF Eol(p) THEN Bad(p)
  ELSE IF At(p) \in {delim, Backslash} THEN Got(<<At(p)>>, p + 1)
  ELSE Kept(p)

TransEnds == stage = "trans" /\ ~Eol(pos) /\ At(pos) = delim /\ Close
TransUnterminated == stage = "trans" /\ Eol(pos) /\ Stop("error")
TransEscapes == stage = "trans" /\ On(pos, "\\") /\ Feed(TransEscape(pos + 1))
TransByte ==
  /\ stage = "trans"
  /\ ~Eol(pos)
  /\ At(pos) \notin {delim, Backslash}
  /\ Feed(Got(<<At(pos)>>, pos + 1))

ReadString ==
  /\ \/ RegexEnds \/ RegexUnterminated \/ RegexEscapes \/ RegexQuantifier \/ RegexByte
     \/ RegexBracket
     \/ BracketEnds \/ BracketUnterminated \/ BracketOpens \/ BracketEscapes \/ BracketByte
     \/ TransEnds \/ TransUnterminated \/ TransEscapes \/ TransByte
  /\ UNCHANGED <<job, source, taken, line, want, delim>>
-----------------------------------------------------------------------------
\* The characters of a string of y
CharCount(bytes) ==
  IF job.bytes THEN Len(bytes)
  ELSE Cardinality({i \in 1 .. Len(bytes) : bytes[i] \notin 128 .. 191})
=============================================================================
