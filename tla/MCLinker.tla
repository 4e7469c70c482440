------------------------------ MODULE MCLinker ------------------------------
(***************************************************************************)
(* Scripts for Linker.                                                     *)
(***************************************************************************)
EXTENDS Linker

CONSTANTS x, y

UpTo(n, items) == UNION {[1 .. k -> items] : k \in 0 .. n}

Plain(c, n) == [code |-> c, addrs |-> n, label |-> NoLabel]
Named(c, l) == [code |-> c, addrs |-> 0, label |-> l]

Structure == {Plain("block", 0), Plain("end", 0), Plain("other", 0)}

Jumps == {Plain("branch", 0), Named("branch", x), Named("branch", y), Named("label", x), Named("label", y)}

Others == {Plain("notEnd", 0), Plain("block", 2), Plain("other", 2), Plain("end", 1), Plain("label", 0),
           Plain("silence", 0)}

\* Every script of up to four items of all kinds, of up to seven that open
\* and close blocks, and of up to five with one label and branch or with
\* ranges and negated }.
Small ==
  UNION {UpTo(4, Structure \cup Jumps \cup Others),
         UpTo(7, Structure),
         UpTo(5, Structure \cup {Named("branch", x), Named("label", x)}),
         UpTo(5, {Plain("block", 2), Plain("end", 0), Plain("notEnd", 0), Plain("other", 2)})}

Nested == UpTo(4, Structure)
=============================================================================
