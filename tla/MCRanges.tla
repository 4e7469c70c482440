------------------------------ MODULE MCRanges ------------------------------
(***************************************************************************)
(* Instances of Ranges.  A line may match neither regular expression, the  *)
(* first ("s"), the second ("f") or both.                                  *)
(***************************************************************************)
EXTENDS Ranges

Plain == {"none", "s", "f", "both"}

Addr(kind, n, re) == [kind |-> kind, n |-> n, re |-> re]
Starts == Addr("re", 0, {"s", "both"})
Stops  == Addr("re", 0, {"f", "both"})
At(n)  == Addr("line", n, {})

Range(x, y) == [a1 |-> x, a2 |-> y, neg |-> FALSE]
Numeric == {At(n) : n \in {0, 2, 3}} \cup {Addr("rel", n, {}) : n \in 0 .. 2}

\* Ranges that end at a match or at the last line, steps, and ranges between
\* line numbers.
ExactRanges ==
  {Range(x, y) : x \in {Starts, At(2), Addr("last", 0, {})},
                 y \in {Stops, Addr("last", 0, {})}}
  \cup {Range(At(0), Stops), Range(At(0), Addr("stepmatch", 2, {})),
        Range(At(2), Addr("stepmatch", 3, {})), Range(At(2), Addr("stepmatch", 0, {}))}
  \cup {Range(x, Addr("stepend", n, {})) : x \in {Starts, At(3)}, n \in {0, 2, 3}}
  \cup {Range(At(2), y) : y \in Numeric}

\* Ranges that a regular expression opens and a number ends.
NumericEndRanges == {Range(Starts, y) : y \in Numeric}

AllRanges == ExactRanges \cup NumericEndRanges
=============================================================================
