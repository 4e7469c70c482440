------------------------------ MODULE InPlace -------------------------------
(***************************************************************************)
(* In-place editing: InPlace of in_place.rs as process_all_files of        *)
(* processor.rs drives it, over a directory of files and symbolic links.   *)
(* The edited contents go to a temporary file that takes the place of the  *)
(* original; every system call on the way may fail, and the program may be *)
(* killed between any two.                                                 *)
(*                                                                         *)
(* An entry of the directory is Absent, a link to another name, something  *)
(* that is not a regular file (Other), or a file: the original its         *)
(* contents derive from, how often they were edited, whether they are      *)
(* whole, which is to say that the cycle came to its end and its buffers   *)
(* were flushed, and whether blocks of them were lost on the way: the      *)
(* copy of blocks from the original to the temporary file may fail without *)
(* the program knowing.                                                    *)
(***************************************************************************)
EXTENDS Naturals, Sequences

CONSTANTS User,         \* names given on the command line or linked to
          Backup,       \* the name with the suffix added, for each of them
          Arguments,    \* sequences of names to edit
          Directories,  \* what the names stand for at the start
          Modes         \* settings of the suffix and of --follow-symlinks

BackupNames == {Backup[n] : n \in User}
Names == User \cup BackupNames

Absent == [kind |-> "absent"]
Other  == [kind |-> "other"]
FileEntry == [kind : {"file"}, of : User, edits : Nat, whole : BOOLEAN, lost : BOOLEAN]
LinkEntry == [kind : {"link"}, to : User]
Entry == FileEntry \cup LinkEntry \cup {Absent, Other}

\* No name edited or linked to is the backup name of another.
ASSUME BackupAssumption ==
  /\ DOMAIN Backup = User
  /\ \A m, n \in User : Backup[m] = Backup[n] => m = n
  /\ \A m, n \in User : Backup[m] # n

ASSUME ModesAssumption == Modes \subseteq [backup : BOOLEAN, follow : BOOLEAN]

ASSUME ArgumentsAssumption == \A s \in Arguments : s \in Seq(User) /\ s # <<>>

\* Files are complete to begin with, and links lead to no other link.
ASSUME DirectoriesAssumption ==
  \A d \in Directories :
    /\ d \in [Names -> Entry]
    /\ \A n \in Names : d[n].kind = "file" => d[n].whole /\ ~d[n].lost
    /\ \A n \in Names : d[n].kind = "link" => d[d[n].to].kind # "link"

VARIABLES mode,    \* whether in_place_suffix and follow_symlinks are set
          args,    \* the names to edit
          index,   \* the one being edited
          dir,     \* the directory, without the temporary file
          pc,      \* the next step
          target,  \* original_path
          source,  \* the contents the LineReader has open
          temp,    \* temp_file: whether there is one, and its contents so far
          stop,    \* context.stop_processing
          start    \* history: the directory at the start

vars == <<mode, start, args, index, dir, pc, target, source, temp, stop>>

NoTemp == [made |-> FALSE, whole |-> FALSE, lost |-> FALSE]
NewTemp == [made |-> TRUE, whole |-> FALSE, lost |-> FALSE]

Name == args[index]
Resolve(n) == IF dir[n].kind = "link" THEN dir[n].to ELSE n

\* An error ends the program; dropping the NamedTempFile deletes the file.
Fail ==
  /\ pc' = "failed" /\ temp' = NoTemp
  /\ UNCHANGED <<mode, start, args, index, dir, target, source, stop>>

\* Mutation: links are never followed.
TargetNamed == Name

\* original_path
Target == IF mode.follow THEN Resolve(Name) ELSE Name

\* LineReader::open, then begin: resolve links if asked to, refuse what is not
\* a regular file, create the temporary file and give it the permissions.
Begin ==
  /\ pc = "begin"
  /\ dir[Resolve(Name)].kind = "file"
  /\ source' = dir[Resolve(Name)]
  /\ target' = Target
  /\ temp' = NewTemp
  /\ pc' = "edit"
  /\ UNCHANGED <<mode, start, args, index, dir, stop>>

\* The file cannot be opened, is not regular, or no temporary file can be made.
BeginFails == pc = "begin" /\ Fail

\* Both files are regular, so that ranges of the original are copied block by
\* block, and aligned_copy_file_range discards the error of a copy that fails.
Written(whole) ==
  \E fails \in BOOLEAN :
    temp' = [made |-> TRUE, whole |-> whole, lost |-> temp.lost \/ fails]

\* process_file has written its output, part of it still in buffers; q or Q may
\* have stopped it.
Edit ==
  /\ pc = "edit"
  /\ pc' = "flush"
  /\ stop' \in {stop, TRUE}
  /\ Written(temp.whole)
  /\ UNCHANGED <<mode, start, args, index, dir, target, source>>

\* A run-time error of the script, or a write that fails and is reported.
EditFails == pc = "edit" /\ Fail

\* Mutation: a backup is made in any mode.
AfterFlushBackup == "backup"

AfterFlush == IF mode.backup THEN "backup" ELSE "persist"

\* Mutation: the buffers are left to be flushed later.
FlushLater ==
  /\ pc = "flush"
  /\ pc' = AfterFlush
  /\ UNCHANGED <<mode, start, args, index, dir, target, source, temp, stop>>

\* end: flush the buffers.
Flush ==
  /\ pc = "flush"
  /\ Written(TRUE)
  /\ pc' = AfterFlush
  /\ UNCHANGED <<mode, start, args, index, dir, target, source, stop>>

FlushFails == pc = "flush" /\ Fail

\* Mutation: the original is removed.
BackedUpRemoved == [dir EXCEPT ![target] = Absent]

\* Mutation: the contents are copied, whatever the entry is.
BackedUpCopied == [dir EXCEPT ![Backup[target]] = source, ![target] = Absent]

BackedUp == [dir EXCEPT ![Backup[target]] = dir[target], ![target] = Absent]

\* end: rename the original to its backup.
SaveBackup ==
  /\ pc = "backup"
  /\ dir' = BackedUp
  /\ pc' = "persist"
  /\ UNCHANGED <<mode, start, args, index, target, source, temp, stop>>

BackupFails == pc = "backup" /\ Fail

\* What the temporary file holds.
Result == [kind |-> "file", of |-> source.of, edits |-> source.edits + 1,
           whole |-> temp.whole, lost |-> source.lost \/ temp.lost]

\* Mutation: one file too many.
IsFinishedLate == stop \/ index > Len(args)

\* Mutation: q ends the cycle of one file only.
IsFinishedDespiteQuit == index = Len(args)

IsFinished == stop \/ index = Len(args)

\* end: rename the temporary file to the original, and go on to the next file.
Persist ==
  /\ pc = "persist"
  /\ dir' = [dir EXCEPT ![target] = Result]
  /\ temp' = NoTemp
  /\ IF IsFinished THEN pc' = "done" /\ UNCHANGED index
     ELSE pc' = "begin" /\ index' = index + 1
  /\ UNCHANGED <<mode, start, args, target, source, stop>>

PersistFails == pc = "persist" /\ Fail

\* The process is killed: nothing is cleaned up.
Crash ==
  /\ pc \notin {"done", "failed", "crashed"}
  /\ pc' = "crashed"
  /\ UNCHANGED <<mode, start, args, index, dir, target, source, temp, stop>>

Terminated == pc \in {"done", "failed", "crashed"} /\ UNCHANGED vars

Init ==
  /\ args \in Arguments
  /\ dir \in Directories /\ start = dir
  /\ mode \in Modes
  /\ index = 1 /\ pc = "begin" /\ stop = FALSE
  /\ target = args[1] /\ temp = NoTemp
  /\ source = [kind |-> "file", of |-> args[1], edits |-> 0, whole |-> TRUE, lost |-> FALSE]

Next ==
  \/ Begin \/ BeginFails \/ Edit \/ EditFails \/ Flush \/ FlushFails
  \/ SaveBackup \/ BackupFails \/ Persist \/ PersistFails \/ Crash \/ Terminated

Spec == Init /\ [][Next]_vars
-----------------------------------------------------------------------------
(* Properties.                                                             *)

\* The variables have the types of the program's fields.
TypeOK ==
  /\ mode \in Modes /\ args \in Arguments /\ start \in Directories
  /\ index \in 1 .. Len(args)
  /\ dir \in [Names -> Entry]
  /\ pc \in {"begin", "edit", "flush", "backup", "persist", "done", "failed", "crashed"}
  /\ target \in User /\ source \in FileEntry
  /\ temp \in [made : BOOLEAN, whole : BOOLEAN, lost : BOOLEAN]
  /\ stop \in BOOLEAN

\* Whatever failure is reported and whenever the program is killed, no name ever
\* shows the output of a cycle cut short, of a failed script or of an unflushed
\* buffer.  (Blocks that an unreported failure has lost are another matter: the
\* code installs such a file like any other.)
NoPartialFile ==
  \A n \in Names : dir[n].kind = "file" => dir[n].whole

\* What a name showed at the start is there ever after.  The name shows it still
\* or shows an edited form of it, and with a suffix its backup has it, too, or a
\* form edited before, as soon as the name changes; only then may the name be
\* missing.
HoldsFile(v) == v.kind \in {"file", "link"}
Original(n) == IF start[n].kind = "link" THEN start[start[n].to] ELSE start[n]
ComesFrom(v, n) ==
  \/ v = start[n]
  \/ v.kind = "file" /\ v.of = Original(n).of /\ v.edits > Original(n).edits
ContentsKept ==
  \A n \in User :
    HoldsFile(start[n]) =>
      /\ ComesFrom(dir[n], n) \/ (mode.backup /\ dir[n] = Absent)
      /\ mode.backup /\ dir[n] # start[n] => ComesFrom(dir[Backup[n]], n)

\* Without a suffix a name never goes missing, not even for a moment.
NameAlwaysThere ==
  ~mode.backup => \A n \in User : start[n] # Absent => dir[n] # Absent

\* The backup of a file that is edited once is what the name showed before.
BackupIsOriginal ==
  \A n \in User :
    mode.backup /\ dir[n] # start[n] /\ dir[n].kind = "file" /\ dir[n].edits = 1
      => dir[Backup[n]] = start[n]

\* With --follow-symlinks a link stays a link; without it what the link leads
\* to is not touched unless it is itself to be edited.
LinksRespected ==
  \A n \in User :
    /\ mode.follow /\ start[n].kind = "link" => dir[n] = start[n]
    /\ ~mode.follow /\ (\A i \in DOMAIN args : args[i] # n) => dir[n] = start[n]

\* Only what was completely edited has changed, whatever comes after it: neither
\* an error, nor a kill, nor q changes a file that was still to be edited, and
\* after q no other is begun.  The file in work is as it was, unless it was moved
\* to its backup and the program was stopped before the result was installed.
EditedBy(i, n) == n = args[i] \/ start[args[i]] = [kind |-> "link", to |-> n]
Edited == 1 .. IF pc = "done" THEN index ELSE index - 1
OnlyEarlierFilesChanged ==
  /\ stop => pc # "begin"
  /\ \A n \in User :
       \/ dir[n] = start[n]
       \/ \E i \in Edited : EditedBy(i, n)
       \/ /\ mode.backup /\ pc \in {"persist", "failed", "crashed"}
          /\ EditedBy(index, n) /\ dir[n] = Absent

\* In-place editing keeps the promise made to those who look at the names.
Promise == INSTANCE FileUpdate WITH
             current <- [n \in User |-> dir[n]],
             saved <- [n \in User |-> dir[Backup[n]]],
             keepBackup <- mode.backup
KeepsPromise == Promise!Spec
=============================================================================
