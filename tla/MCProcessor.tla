---------------------------- MODULE MCProcessor -----------------------------
(***************************************************************************)
(* Instances of Processor: a small language to write compiled scripts in,  *)
(* and the scripts and inputs of the runs.  A line is one of e (empty), a  *)
(* and b.                                                                  *)
(***************************************************************************)
EXTENDS Processor

CONSTANTS e, a, b

OneLine == {<<x>> : x \in Seg}
UpToTwoLines == OneLine \cup {<<a, e>>}

Swap == [x \in Seg |-> IF x = a THEN b ELSE IF x = b THEN a ELSE x]

Addr(kind, n, re) == [kind |-> kind, n |-> n, re |-> re]
Line(n) == Addr("line", n, {})     Plus(n) == Addr("rel", n, {})
Every(n) == Addr("stepmatch", n, {})    UpTo(n) == Addr("stepend", n, {})
Dollar == Addr("last", 0, {})      Re(r) == Addr("re", 0, r)

Do(code) == [code |-> code, a1 |-> NoAddress, a2 |-> NoAddress, neg |-> FALSE,
             next |-> 0, goto |-> 0, re |-> {}, nth |-> 1, rep |-> Empty, opts |-> {}]
At(x, c) == [c EXCEPT !.a1 = x]
From(x, y, c) == [c EXCEPT !.a1 = x, !.a2 = y]
Unless(c) == [c EXCEPT !.neg = TRUE]
To(i, c) == [c EXCEPT !.goto = i]
S(re, nth, rep, opts) == [Do("s") EXCEPT !.re = re, !.nth = nth, !.rep = rep, !.opts = opts]

\* Commands in a row; explicit links where there is a block.
Sequence(cs) == [i \in DOMAIN cs |-> [cs[i] EXCEPT !.next = (i + 1) % (Len(cs) + 1)]]
Linked(cs, links) == [i \in DOMAIN cs |-> [cs[i] EXCEPT !.next = links[i]]]

File(lines) == [readable |-> TRUE, lines |-> lines, nl |-> TRUE]
Chopped(lines) == [readable |-> TRUE, lines |-> lines, nl |-> FALSE]
Missing == [readable |-> FALSE, lines |-> <<>>, nl |-> TRUE]

Both == [quiet : BOOLEAN, separate : BOOLEAN]
Printing == [quiet : {FALSE}, separate : BOOLEAN]
-----------------------------------------------------------------------------
(* Every script of one or two of these commands.                           *)

Forms ==
  {Do(c) : c \in {"a", "c", "d", "D", "e", "g", "G", "h", "H", "i", "n", "N", "p",
                  "P", "q", "Q", "r", "W", "x", "y", "z", "t", "T"}}
  \cup {[Do("e") EXCEPT !.opts = {"text"}],
        S({a}, 1, b, {}), S({a, b}, 2, e, {"pLast"}), S({}, 0, a, {"w"}),
        S({b}, 1, a, {"pFirst", "e"}),
        At(Line(0), Do("r")), At(Dollar, Do("p")), At(Re({}), Do("d")),
        At(Line(2), Do("q")), Unless(At(Dollar, Do("N"))), At(Re({a}), Do("w")),
        From(Line(2), Line(3), Do("c")), From(Re({a}), Re({b}), Do("a")),
        From(Re({a}), Plus(1), Do("p")), From(Line(0), Re({a}), Do("i")),
        From(Line(0), Every(2), Do("d")), From(Line(1), UpTo(2), Do("=")),
        Unless(From(Line(2), Dollar, Do("N")))}

StreamScripts ==
  {<<>>} \cup {Sequence(<<c>>) : c \in Forms}
         \cup {Sequence(<<c, d>>) : c \in Forms, d \in Forms}

StreamInputs ==
  {<<File(<<a, b, a>>)>>,
   <<File(<<b>>), File(<<>>), Chopped(<<e, a>>)>>,
   <<Chopped(<<a>>), File(<<a, b>>), Missing>>}
-----------------------------------------------------------------------------
(* Longer scripts, with branches and blocks, that all come to an end.      *)

\* :a;$!{N;ba};P;D and $!N;P;D, windows that slide over the lines.
WindowScripts ==
  {Linked(<<Do(":"), To(3, Unless(At(Dollar, Do("{")))), Do("N"), To(1, Do("b")),
            Do("P"), Do("D")>>, <<2, 5, 4, 5, 6, 0>>),
   Sequence(<<Unless(At(Dollar, Do("N"))), Do("P"), Do("D")>>)}

LoopScripts ==
  WindowScripts \cup
  { \* :a;s/a/b/;ta;a;p
    Sequence(<<Do(":"), S({a}, 1, b, {}), To(1, Do("t")), Do("a"), Do("p")>>),
    \* 1!G;h;$!d
    Sequence(<<Unless(At(Line(1), Do("G"))), Do("h"), Unless(At(Dollar, Do("d")))>>),
    \* /a/,/b/{s/a/e/;Tx;i};:x;r
    Linked(<<To(2, From(Re({a}), Re({b}), Do("{"))), S({a}, 0, e, {}), To(5, Do("T")),
             Do("i"), Do(":"), Do("r")>>, <<5, 3, 4, 5, 6, 0>>),
    \* x;G;s/e/a/2;tx;N;:x;l;$b;F
    Sequence(<<Do("x"), Do("G"), S({e}, 2, a, {"pLast"}), To(6, Do("t")), Do("N"),
               Do(":"), Do("l"), At(Dollar, Do("b")), Do("F")>>),
    \* N;N;a;2,3{P;D};n
    Linked(<<Do("N"), Do("N"), Do("a"), To(5, From(Line(2), Line(3), Do("{"))), Do("P"),
             Do("D"), Do("n")>>, <<2, 3, 4, 7, 6, 7, 0>>),
    \* s/b/a/pe;P;t;e;G;h
    Sequence(<<S({b}, 1, a, {"pFirst", "e"}), Do("P"), Do("t"), Do("e"), Do("G"), Do("h")>>)}

Lines3 == {<<x, y, z>> : x, y, z \in Seg}
LoopInputs ==
  {<<File(ls)>> : ls \in Lines3}
  \cup {<<Chopped(<<x, a>>), File(<<y, z>>)>> : x, y, z \in Seg}

\* The longer scripts run on the inputs of three lines, the short ones on the
\* streams of several files; -s is left out where there is one file.
AllScripts == StreamScripts \cup LoopScripts
AllInputs  == StreamInputs \cup LoopInputs
MCInit ==
  /\ Init
  /\ job.prog \in LoopScripts <=> job.files \in LoopInputs
  /\ job.separate => Len(job.files) > 1
MCSpec == MCInit /\ [][Next]_vars /\ WF_vars(Next)

\* Scripts that branch back, restart with D or slide a window end all the same:
\* t forgets the substitution it has followed, and D leaves less than it found.
LoopsEnd == job.prog \in LoopScripts => Termination
-----------------------------------------------------------------------------
(* Scripts on which the code and what is said about it differ.             *)

NextDeleteScripts == {Sequence(<<Do("n"), Do("d")>>)}
ThreeLines == {<<File(<<a, b, a>>)>>}

\* n;d prints every other line: n "replaces the pattern space with the next
\* line" and goes on to the command after it, which deletes that line.
NextThenDelete ==
  pc = "done" => autoLines = SelectSeq(consumed, LAMBDA x : x = a)

ChangeScripts == {Sequence(<<From(Line(1), Line(2), Do("c"))>>)}

\* c writes its text at the end of its range, once its last line is changed.
ChangeWritesAtRangeEnd ==
  pc = "done" => \E i \in DOMAIN out : out[i].why = "text" /\ out[i].line = 2
=============================================================================
