------------------------------ MODULE Patterns ------------------------------
(***************************************************************************)
(* From the bytes of a regular expression to the engine that matches it:   *)
(* the translation of basic into extended expressions (compiler.rs), and   *)
(* the choice between a search for literal bytes and the two libraries     *)
(* (fast_regex.rs).  The libraries are known here by which expressions     *)
(* they have groups for and may refuse; what they match is not modelled.   *)
(***************************************************************************)
EXTENDS ScriptText, SequencesExt

\* The bytes of an expression, an escaped one with its backslash.
Tokens(p) ==
  LET from[i \in 1 .. Len(p) + 2] ==
        IF i > Len(p) THEN <<>>
        ELSE IF p[i] = Backslash /\ i < Len(p) THEN <<SubSeq(p, i, i + 1)>> \o from[i + 2]
        ELSE <<<<p[i]>>>> \o from[i + 1]
  IN  from[1]

Each(tokens, what(_)) == FlattenSeq([i \in DOMAIN tokens |-> what(i)])
Bytes(text) == {T(text)[i] : i \in 1 .. Len(text)}
-----------------------------------------------------------------------------
(* bre_to_ere                                                              *)

EreOnly == Bytes("+?{}|()")

\* Mutation: the number of a back-reference runs into the digits behind it.
EreEscapeBare(token) == IF token[2] \in EreOnly THEN <<token[2]>> ELSE token

\* A pair of bytes that starts with a backslash
EreEscape(token) ==
  IF token[2] \in EreOnly THEN <<token[2]>>
  ELSE IF token[2] \in Digits THEN T("(?:") \o token \o T(")")
  ELSE token

\* Anchors are literal but at the ends; ^ is kept after a [ for its negation.
BreToEre(p) ==
  LET tokens == Tokens(p)
      literal(i) ==
        LET c == tokens[i][1]
        IN  \/ c \in EreOnly
            \/ c = Code["^"] /\ i > 1 /\ tokens[i - 1] # T("[")
            \/ c = Code["$"] /\ i < Len(tokens)
      ere(i) == IF Len(tokens[i]) = 2 THEN EreEscape(tokens[i])
                ELSE IF literal(i) THEN <<Backslash>> \o tokens[i] ELSE tokens[i]
  IN  Each(tokens, ere)

\* What compile_regex makes of a pattern that is not empty
Expression(pattern, icase, multiline) ==
  LET ere == IF job.extended THEN pattern ELSE BreToEre(pattern)
      flags == (IF icase THEN T("i") ELSE <<>>) \o (IF multiline THEN T("m") ELSE <<>>)
  IN  IF flags = <<>> THEN ere ELSE T("(?") \o flags \o T(")") \o ere
-----------------------------------------------------------------------------
(* Regex::new                                                              *)

\* NEEDS_FANCY_RE
NeedsFancy(p) ==
  \E i \in 1 .. Len(p) - 1 : p[i] = Backslash /\ p[i + 1] \in Digits \ {Code["0"]}

Magic(p, i) ==
  \/ p[i] \in Bytes(".?|+([{*")
  \/ p[i] = Backslash /\ i < Len(p) /\ p[i + 1] \in Bytes("WwDdSsPpAzBb") \cup Digits

\* The first half of NEEDS_RE, which reads characters: what precedes a byte that
\* no backslash escapes.
CharBefore(p, j, i) == OneChar(SubSeq(p, j, i - 1))
Plain(p, j, i) == CharBefore(p, j, i) /\ p[j] # Backslash
Unescaped(p, i) ==
  \/ i = 1
  \/ Plain(p, 1, i)
  \/ \E j \in 2 .. i - 1 :
       \/ Plain(p, j, i) /\ \E k \in 1 .. j - 1 : Plain(p, k, j)
       \/ p[j - 1] = Backslash /\ CharBefore(p, j, i) /\ p[j] # Newline

\* Mutation: a magic character counts only where it is first or preceded by
\* another character that is not a backslash.
NeedsReAfterPlain(p) ==
  \E i \in 1 .. Len(p) : Magic(p, i) /\ (i = 1 \/ Plain(p, i - 1, i))

NeedsRe(p) == \E i \in 1 .. Len(p) : Magic(p, i) /\ Unescaped(p, i)

Engine(p) == IF NeedsFancy(p) THEN "fancy" ELSE IF NeedsRe(p) THEN "regex" ELSE "literal"

\* What the code itself asks of an expression before a library gets it
Encodable(p) == CASE Engine(p) = "fancy" -> ~job.bytes /\ IsUtf8(p)
                  [] Engine(p) = "regex" -> job.bytes \/ IsUtf8(p)
                  [] OTHER -> TRUE
-----------------------------------------------------------------------------
(* The search for literal bytes: LiteralMatcher.                           *)

RemoveEscapes(p) ==
  LET tokens == Tokens(p)
      byte(i) == IF Len(tokens[i]) = 2 THEN <<tokens[i][2]>>
                 ELSE IF tokens[i] = <<Backslash>> THEN <<>> ELSE tokens[i]
  IN  Each(tokens, byte)

\* LiteralMatcher::new panics when there is nothing left.
Needle(p) ==
  LET bytes == RemoveEscapes(p)
      begin == bytes[1] = Code["^"]
      end == bytes[Len(bytes)] = Code["$"]
  IN  [begin |-> begin, end |-> end,
       bytes |-> SubSeq(bytes, IF begin THEN 2 ELSE 1, IF end THEN Len(bytes) - 1 ELSE Len(bytes))]

Occurs(bytes, text, at) == SubSeq(text, at + 1, at + Len(bytes)) = bytes

\* anchored_find: the offsets of the match, if there is one
Find(needle, text) ==
  LET n == Len(needle.bytes)
      room == Len(text) - n
      places == {at \in 0 .. room : /\ Occurs(needle.bytes, text, at)
                                    /\ needle.begin => at = 0
                                    /\ needle.end => at = room}
  IN  {[start |-> at, end |-> at + n] : at \in {p \in places : \A q \in places : p <= q}}
-----------------------------------------------------------------------------
(* The groups of an expression as the libraries count them.                *)

\* The ] at j ends the name of a class that starts after i.
EndsName(tokens, i, j) ==
  \E k \in i + 1 .. j - 3 :
    tokens[k] = T("[") /\ tokens[k + 1] = tokens[j - 1] /\ tokens[j - 1][1] \in Bytes(":.=")

\* The end of the bracket expression that starts at token i
BracketEnd(tokens, i) ==
  LET first == IF i < Len(tokens) /\ tokens[i + 1] = T("^") THEN i + 2 ELSE i + 1
      ends == {j \in first + 1 .. Len(tokens) : tokens[j] = T("]") /\ ~EndsName(tokens, i, j)}
  IN  IF ends = {} THEN Len(tokens) ELSE CHOOSE j \in ends : \A k \in ends : j <= k

\* The tokens that are not inside a bracket expression
Outside(tokens) ==
  LET from[i \in 1 .. Len(tokens) + 1] ==
        IF i > Len(tokens) THEN {}
        ELSE {i} \cup from[IF tokens[i] = T("[") THEN BracketEnd(tokens, i) + 1 ELSE i + 1]
  IN  from[1]

Groups(p) ==
  LET tokens == Tokens(p)
  IN  IF Engine(p) = "literal" THEN 0
      ELSE Cardinality({i \in Outside(tokens) :
             tokens[i] = T("(") /\ ~(i < Len(tokens) /\ tokens[i + 1] = T("?"))})
=============================================================================
