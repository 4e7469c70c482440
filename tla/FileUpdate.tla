----------------------------- MODULE FileUpdate -----------------------------
(***************************************************************************)
(* What editing files in place promises to anybody who looks at their      *)
(* names: a name shows the contents as they were or the complete result of *)
(* editing them, and changes from one to the other in one step.  When a    *)
(* backup is wanted, the old entry first moves to the backup name, and the *)
(* name shows nothing until the result is installed.                       *)
(*                                                                         *)
(* An entry is Absent, a file (the original its contents derive from, how  *)
(* often they were edited, whether they are whole, and whether blocks of   *)
(* them were lost), a link, or something else that is never edited.  The   *)
(* result of editing is always whole: all of the output, in order.  It is  *)
(* no promise that the storage has kept every block of it.                 *)
(***************************************************************************)
EXTENDS Naturals

CONSTANT User          \* the names of files

VARIABLES current,     \* what each name shows
          saved,       \* what the backup name of each shows
          keepBackup   \* backups are wanted

Absent == [kind |-> "absent"]

\* The file an entry is or leads to, as the other names stand now.
Contents(v) == IF v.kind = "link" THEN current[v.to] ELSE v

IsFile(v) == Contents(v).kind = "file"

Results(v) == [kind : {"file"}, of : {v.of}, edits : {v.edits + 1}, whole : {TRUE},
               lost : {v.lost, TRUE}]

Replace(n) ==
  /\ ~keepBackup /\ IsFile(current[n])
  /\ \E result \in Results(Contents(current[n])) :
       current' = [current EXCEPT ![n] = result]
  /\ UNCHANGED <<saved, keepBackup>>

SetAside(n) ==
  /\ keepBackup /\ IsFile(current[n])
  /\ saved' = [saved EXCEPT ![n] = current[n]]
  /\ current' = [current EXCEPT ![n] = Absent]
  /\ UNCHANGED keepBackup

Install(n) ==
  /\ keepBackup /\ current[n] = Absent /\ IsFile(saved[n])
  /\ \E result \in Results(Contents(saved[n])) :
       current' = [current EXCEPT ![n] = result]
  /\ UNCHANGED <<saved, keepBackup>>

Next == \E n \in User : Replace(n) \/ SetAside(n) \/ Install(n)

Spec == [][Next]_<<current, saved, keepBackup>>
=============================================================================
