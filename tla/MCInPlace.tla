----------------------------- MODULE MCInPlace ------------------------------
(***************************************************************************)
(* An instance of InPlace: a file, another one whose backup name is taken, *)
(* and a name that may be a link, a directory or nothing.                  *)
(***************************************************************************)
EXTENDS InPlace

CONSTANTS f, g, l, fBak, gBak, lBak

Suffixed == [n \in User |-> IF n = f THEN fBak ELSE IF n = g THEN gBak ELSE lBak]

AnyMode == [backup : BOOLEAN, follow : BOOLEAN]

UpToThree == UNION {[1 .. k -> User] : k \in 1 .. 3}

Fresh(n) == [kind |-> "file", of |-> n, edits |-> 0, whole |-> TRUE,
             lost |-> FALSE]
LinkTo(n) == [kind |-> "link", to |-> n]

OneOfEach ==
  {[n \in Names |-> CASE n = f -> Fresh(f)
                      [] n = g -> Fresh(g)
                      [] n = l -> third
                      [] n = gBak -> Fresh(l)
                      [] OTHER -> Absent] :
     third \in {Fresh(l), LinkTo(f), LinkTo(g), Other, Absent}}
=============================================================================
