------------------------------ MODULE MCFastIO ------------------------------
(***************************************************************************)
(* Instances of FastIO.  Byte 0 is the newline, and every other byte of an *)
(* input is different, so that order and repetition show.                  *)
(***************************************************************************)
EXTENDS FastIO

\* Lines of two, three and one bytes, and a last one with or without newline;
\* one line longer than all buffers.
FourLines == {<<1, 0, 2, 3, 0, 0, 4>>, <<1, 2, 3, 4, 0, 5, 0>>}

OneInput == {<<1, 0, 2, 3, 0, 0, 4>>}

SmallTexts == {[content |-> <<8>>, nl |-> TRUE], [content |-> <<7>>, nl |-> FALSE],
               [content |-> <<>>, nl |-> TRUE], [content |-> <<>>, nl |-> FALSE]}

OneText == {[content |-> <<8>>, nl |-> TRUE]}

TwoFiles == {<<9, 0>>, <<>>}
=============================================================================
