--------------------------- MODULE InPlaceProofs ----------------------------
(***************************************************************************)
(* Theorems about InPlace, for every directory, every list of names and    *)
(* every choice of the suffix and of --follow-symlinks.                    *)
(***************************************************************************)
EXTENDS InPlace, TLAPS

-----------------------------------------------------------------------------
(* Names and their backups.                                                *)

LEMMA BackupFacts ==
  ASSUME NEW n \in User
  PROVE  /\ n \in Names /\ Backup[n] \in Names /\ Backup[n] \notin User
         /\ \A m \in User : m # n => Backup[m] # Backup[n]
BY BackupAssumption DEF Names, BackupNames

\* The name being edited, and the one it stands for.
LEMMA NameFacts ==
  ASSUME TypeOK
  PROVE  /\ Name \in User /\ Resolve(Name) \in User /\ Target \in User
         /\ dir[Name] \in Entry
<1>1. args \in Seq(User) /\ index \in 1 .. Len(args) /\ dir \in [Names -> Entry]
  BY ArgumentsAssumption DEF TypeOK
<1>2. Name \in User
  BY <1>1 DEF Name
<1>3. Name \in Names
  BY <1>2 DEF Names
<1>4. dir[Name] \in Entry
  BY <1>1, <1>3
<1>5. dir[Name].kind = "link" => dir[Name].to \in User
  BY <1>4 DEF Entry, FileEntry, LinkEntry, Absent, Other
<1>6. QED
  BY <1>2, <1>4, <1>5 DEF Resolve, Target

LEMMA FileIsEntry ==
  ASSUME NEW v \in Entry, v.kind = "file"
  PROVE  v \in FileEntry
BY DEF Entry, FileEntry, LinkEntry, Absent, Other

LEMMA ResultType ==
  ASSUME TypeOK
  PROVE  Result \in FileEntry
<1>1. source.of \in User /\ source.edits + 1 \in Nat
  BY DEF TypeOK, FileEntry
<1>2. temp.whole \in BOOLEAN /\ (source.lost \/ temp.lost) \in BOOLEAN
  BY DEF TypeOK, FileEntry
<1>3. QED
  BY <1>1, <1>2 DEF Result, FileEntry

\* The temporary file keeps its type, made, written to or removed.
LEMMA TempType ==
  ASSUME TypeOK
  PROVE  /\ NoTemp \in [made : BOOLEAN, whole : BOOLEAN, lost : BOOLEAN]
         /\ NewTemp \in [made : BOOLEAN, whole : BOOLEAN, lost : BOOLEAN]
         /\ \A whole \in BOOLEAN :
              Written(whole) => temp' \in [made : BOOLEAN, whole : BOOLEAN, lost : BOOLEAN]
<1>1. temp.lost \in BOOLEAN /\ temp.whole \in BOOLEAN
  BY DEF TypeOK
<1>2. /\ NoTemp \in [made : BOOLEAN, whole : BOOLEAN, lost : BOOLEAN]
      /\ NewTemp \in [made : BOOLEAN, whole : BOOLEAN, lost : BOOLEAN]
  BY DEF NoTemp, NewTemp
<1>3. ASSUME NEW whole \in BOOLEAN, Written(whole)
      PROVE  temp' \in [made : BOOLEAN, whole : BOOLEAN, lost : BOOLEAN]
  <2>1. PICK fails \in BOOLEAN :
          temp' = [made |-> TRUE, whole |-> whole, lost |-> temp.lost \/ fails]
    BY <1>3 DEF Written
  <2>2. (temp.lost \/ fails) \in BOOLEAN
    BY <1>1
  <2>3. QED
    BY <2>1, <2>2
<1>4. QED
  BY <1>2, <1>3

-----------------------------------------------------------------------------
(* Type correctness.                                                       *)

LEMMA InitType == Init => TypeOK
<1> SUFFICES ASSUME Init PROVE TypeOK
  OBVIOUS
<1>1. args \in Arguments /\ args \in Seq(User) /\ Len(args) \in Nat /\ Len(args) > 0
  BY ArgumentsAssumption DEF Init
<1>2. args[1] \in User /\ index \in 1 .. Len(args)
  BY <1>1 DEF Init
<1>3. source \in FileEntry
  BY <1>2 DEF Init, FileEntry
<1>4. dir \in [Names -> Entry] /\ start \in Directories /\ mode \in Modes
  BY DirectoriesAssumption DEF Init
<1>5. temp \in [made : BOOLEAN, whole : BOOLEAN, lost : BOOLEAN]
  BY DEF Init, NoTemp
<1>6. QED
  BY <1>1, <1>2, <1>3, <1>4, <1>5 DEF Init, TypeOK

LEMMA StepType == TypeOK /\ [Next]_vars => TypeOK'
<1> SUFFICES ASSUME TypeOK, [Next]_vars PROVE TypeOK'
  OBVIOUS
<1>1. ASSUME Begin PROVE TypeOK'
  <2>1. dir[Resolve(Name)] \in FileEntry
    <3>1. dir[Resolve(Name)] \in Entry
      BY NameFacts, BackupFacts DEF TypeOK
    <3>2. QED
      BY <1>1, <3>1, FileIsEntry DEF Begin
  <2>2. /\ source' = dir[Resolve(Name)] /\ target' = Target /\ temp' = NewTemp /\ pc' = "edit"
        /\ UNCHANGED <<mode, start, args, index, dir, stop>>
    BY <1>1 DEF Begin
  <2>3. QED
    BY <2>1, <2>2, NameFacts, TempType DEF TypeOK
<1>2. ASSUME Fail PROVE TypeOK'
  BY <1>2, TempType DEF Fail, TypeOK
<1>3. ASSUME Edit PROVE TypeOK'
  <2>1. temp.whole \in BOOLEAN
    BY DEF TypeOK
  <2>2. temp' \in [made : BOOLEAN, whole : BOOLEAN, lost : BOOLEAN]
    BY <1>3, <2>1, TempType DEF Edit
  <2>3. QED
    BY <1>3, <2>2 DEF Edit, TypeOK
<1>4. ASSUME Flush PROVE TypeOK'
  BY <1>4, TempType DEF Flush, AfterFlush, TypeOK
<1>5. ASSUME SaveBackup PROVE TypeOK'
  <2>1. dir[target] \in Entry /\ Absent \in Entry
    BY BackupFacts DEF TypeOK, Entry
  <2>2. dir' \in [Names -> Entry]
    BY <1>5, <2>1 DEF SaveBackup, BackedUp, TypeOK
  <2>3. QED
    BY <1>5, <2>2 DEF SaveBackup, TypeOK
<1>6. ASSUME Persist PROVE TypeOK'
  <2>1. Result \in Entry
    BY ResultType DEF Entry
  <2>2. dir' \in [Names -> Entry]
    BY <1>6, <2>1 DEF Persist, TypeOK
  <2>3. index' \in 1 .. Len(args) /\ pc' \in {"done", "begin"}
    <3>1. args \in Seq(User) /\ Len(args) \in Nat /\ index \in 1 .. Len(args)
      BY ArgumentsAssumption DEF TypeOK
    <3>2. QED
      BY <1>6, <3>1 DEF Persist, IsFinished
  <2>4. QED
    BY <1>6, <2>2, <2>3, TempType DEF Persist, TypeOK
<1>7. ASSUME Crash \/ UNCHANGED vars PROVE TypeOK'
  BY <1>7 DEF Crash, vars, TypeOK
<1>8. QED
  BY <1>1, <1>2, <1>3, <1>4, <1>5, <1>6, <1>7
     DEF Next, BeginFails, EditFails, FlushFails, BackupFails, PersistFails, Terminated

\* The variables keep their types; the backup and the target stay names of the
\* directory whatever links it has.
THEOREM TypeCorrect == Spec => []TypeOK
BY InitType, StepType, PTL DEF Spec

-----------------------------------------------------------------------------
(* Partial output.                                                         *)

\* The temporary file is complete once its buffers are flushed.
FlushedFirst == pc \in {"backup", "persist"} => temp.whole

LEMMA InitWhole == Init => NoPartialFile /\ FlushedFirst
BY DirectoriesAssumption DEF Init, NoPartialFile, FlushedFirst

LEMMA StepWhole ==
  ASSUME TypeOK, NoPartialFile, FlushedFirst, [Next]_vars
  PROVE  NoPartialFile' /\ FlushedFirst'
<1>1. ASSUME SaveBackup PROVE NoPartialFile' /\ FlushedFirst'
  <2>1. dir' = [dir EXCEPT ![Backup[target]] = dir[target], ![target] = Absent]
        /\ pc = "backup" /\ UNCHANGED temp
    BY <1>1 DEF SaveBackup, BackedUp
  <2>2. ASSUME NEW n \in Names, dir'[n].kind = "file" PROVE dir'[n].whole
    <3>1. target \in Names /\ n \in DOMAIN dir
      BY BackupFacts DEF TypeOK
    <3>2. dir'[n] \in {dir[n], dir[target], Absent}
      BY <2>1, <3>1 DEF TypeOK
    <3>3. QED
      BY <2>2, <3>1, <3>2 DEF NoPartialFile, Absent
  <2>3. QED
    BY <2>1, <2>2 DEF NoPartialFile, FlushedFirst
<1>2. ASSUME Persist PROVE NoPartialFile' /\ FlushedFirst'
  <2>1. dir' = [dir EXCEPT ![target] = Result] /\ pc' \notin {"backup", "persist"}
    BY <1>2 DEF Persist
  <2>2. Result.whole
    BY <1>2 DEF Persist, FlushedFirst, Result
  <2>3. ASSUME NEW n \in Names, dir'[n].kind = "file" PROVE dir'[n].whole
    <3>1. dir'[n] \in {dir[n], Result}
      BY <2>1 DEF TypeOK
    <3>2. QED
      BY <2>2, <2>3, <3>1 DEF NoPartialFile
  <2>4. QED
    BY <2>1, <2>3 DEF NoPartialFile, FlushedFirst
<1>3. ASSUME Flush PROVE NoPartialFile' /\ FlushedFirst'
  BY <1>3 DEF Flush, Written, NoPartialFile, FlushedFirst
<1>4. ASSUME Begin \/ Fail \/ Edit \/ Crash \/ UNCHANGED vars
      PROVE  NoPartialFile' /\ FlushedFirst'
  BY <1>4 DEF Begin, Fail, Edit, Crash, vars, NoPartialFile, FlushedFirst
<1>5. QED
  BY <1>1, <1>2, <1>3, <1>4
     DEF Next, BeginFails, EditFails, FlushFails, BackupFails, PersistFails, Terminated

\* Whatever failure is reported and whenever the process is killed, no name of
\* the directory shows the output of a cycle that was cut short or of buffers
\* that were not flushed.  Blocks lost in a copy that failed without being
\* reported are not its matter: the code installs such a file like any other.
THEOREM NeverPartial == Spec => []NoPartialFile
BY InitType, StepType, InitWhole, StepWhole, PTL DEF Spec

-----------------------------------------------------------------------------
(* The contents.                                                           *)

\* The entry an entry is or leads to.
LeadsTo(v) == IF v.kind = "link" THEN dir[v.to] ELSE v

\* While a file is edited its name shows it, and once it was renamed its
\* backup does: what the LineReader has open is still in the directory.
SourceKept ==
  /\ pc = "backup" => mode.backup
  /\ pc \in {"edit", "flush", "backup"} \/ (pc = "persist" /\ ~mode.backup)
       => HoldsFile(dir[target]) /\ LeadsTo(dir[target]) = source
  /\ pc = "persist" /\ mode.backup
       => /\ dir[target] = Absent
          /\ HoldsFile(dir[Backup[target]]) /\ LeadsTo(dir[Backup[target]]) = source

\* What SaveBackup and Persist make of each name and of its backup.
LEMMA SaveBackupEffect ==
  ASSUME TypeOK, SaveBackup
  PROVE  /\ dir'[target] = Absent /\ dir'[Backup[target]] = dir[target]
         /\ \A n \in User : n # target => /\ dir'[n] = dir[n]
                                          /\ dir'[Backup[n]] = dir[Backup[n]]
<1>1. target \in User /\ dir \in [Names -> Entry]
  BY DEF TypeOK
<1>2. dir' = [dir EXCEPT ![Backup[target]] = dir[target], ![target] = Absent]
  BY DEF SaveBackup, BackedUp
<1>3. QED
  BY <1>1, <1>2, BackupFacts

LEMMA PersistEffect ==
  ASSUME TypeOK, Persist
  PROVE  /\ dir'[target] = Result
         /\ \A n \in User : /\ n # target => dir'[n] = dir[n]
                            /\ dir'[Backup[n]] = dir[Backup[n]]
<1>1. target \in User /\ dir \in [Names -> Entry]
  BY DEF TypeOK
<1>2. dir' = [dir EXCEPT ![target] = Result]
  BY DEF Persist
<1>3. QED
  BY <1>1, <1>2, BackupFacts

LEMMA StepSource ==
  ASSUME TypeOK, SourceKept, [Next]_vars
  PROVE  SourceKept'
<1>1. ASSUME Begin PROVE SourceKept'
  <2>1. /\ dir[Resolve(Name)].kind = "file" /\ source' = dir[Resolve(Name)]
        /\ target' = Target /\ pc' = "edit" /\ UNCHANGED dir
    BY <1>1 DEF Begin
  <2>2. HoldsFile(dir[Target]) /\ LeadsTo(dir[Target]) = source'
    BY <2>1 DEF Target, Resolve, LeadsTo, HoldsFile
  <2>3. QED
    BY <2>1, <2>2 DEF SourceKept, LeadsTo, HoldsFile
<1>2. ASSUME Edit PROVE SourceKept'
  BY <1>2 DEF Edit, SourceKept, LeadsTo, HoldsFile
<1>3. ASSUME Flush PROVE SourceKept'
  <2>1. /\ pc = "flush" /\ pc' = IF mode.backup THEN "backup" ELSE "persist"
        /\ UNCHANGED <<mode, dir, target, source>>
    BY <1>3 DEF Flush, AfterFlush
  <2>2. QED
    BY <2>1 DEF SourceKept, LeadsTo, HoldsFile
<1>4. ASSUME SaveBackup PROVE SourceKept'
  <2>1. pc = "backup" /\ pc' = "persist" /\ UNCHANGED <<mode, target, source>>
    BY <1>4 DEF SaveBackup
  <2>2. mode.backup /\ HoldsFile(dir[target]) /\ LeadsTo(dir[target]) = source
    BY <2>1 DEF SourceKept
  <2>3. (LeadsTo(dir[target]))' = (IF dir'[target].kind = "link" THEN dir'[dir'[target].to] ELSE dir'[target])
    BY <2>1 DEF LeadsTo
  <2>4. ASSUME dir[target].kind = "link" PROVE dir'[dir[target].to] = source
    <3>1. dir[target].to \in User
      <4>1. dir[target] \in Entry
        BY BackupFacts DEF TypeOK
      <4>2. QED
        BY <2>4, <4>1 DEF Entry, FileEntry, LinkEntry, Absent, Other
    <3>2. dir[dir[target].to] = source /\ source.kind = "file"
      BY <2>2, <2>4 DEF LeadsTo, TypeOK, FileEntry
    <3>3. dir[target].to # target
      BY <2>4, <3>2
    <3>4. QED
      BY <1>4, <3>1, <3>2, <3>3, SaveBackupEffect
  <2>5. dir'[target] = Absent /\ dir'[Backup[target]] = dir[target]
    BY <1>4, SaveBackupEffect
  <2>6. QED
    BY <2>1, <2>2, <2>4, <2>5 DEF SourceKept, LeadsTo, HoldsFile
<1>5. ASSUME Persist \/ Fail \/ Crash PROVE SourceKept'
  <2>1. pc' \in {"done", "begin", "failed", "crashed"}
    BY <1>5 DEF Persist, Fail, Crash
  <2>2. QED
    BY <2>1 DEF SourceKept
<1>6. ASSUME UNCHANGED vars PROVE SourceKept'
  BY <1>6 DEF vars, SourceKept, LeadsTo, HoldsFile
<1>7. QED
  BY <1>1, <1>2, <1>3, <1>4, <1>5, <1>6
     DEF Next, BeginFails, EditFails, FlushFails, BackupFails, PersistFails, Terminated

LEMMA InitSource == Init => SourceKept
BY DEF Init, SourceKept

InWork == pc \in {"edit", "flush", "backup", "persist"}

\* Only names that showed a file at the start, or led to one, have changed.
FilesChange ==
  \A n \in User :
    dir[n] # start[n] => HoldsFile(start[n]) /\ Original(n) \in FileEntry

\* The file in work was there at the start, and what is open comes from it.
SourceDerived ==
  InWork =>
    /\ HoldsFile(start[target]) /\ Original(target) \in FileEntry
    /\ source.of = Original(target).of /\ source.edits >= Original(target).edits

KeptOK == FilesChange /\ SourceDerived /\ ContentsKept

\* A file comes from the one its name showed at the start.
LEMMA FileDerived ==
  ASSUME TypeOK, FilesChange, ContentsKept, NEW n \in User, dir[n].kind = "file"
  PROVE  /\ HoldsFile(start[n]) /\ Original(n) \in FileEntry
         /\ dir[n].of = Original(n).of /\ dir[n].edits >= Original(n).edits
<1>1. dir[n] \in FileEntry
  BY BackupFacts, FileIsEntry DEF TypeOK
<1>2. CASE dir[n] = start[n]
  BY <1>1, <1>2 DEF Original, FileEntry, HoldsFile
<1>3. CASE dir[n] # start[n]
  <2>1. HoldsFile(start[n]) /\ Original(n) \in FileEntry
    BY <1>3 DEF FilesChange
  <2>2. ComesFrom(dir[n], n)
    BY <2>1 DEF ContentsKept, Absent
  <2>3. QED
    BY <1>1, <1>3, <2>1, <2>2 DEF ComesFrom, FileEntry
<1>4. QED
  BY <1>2, <1>3

\* So does what is opened, by that name or by a link to it.
LEMMA BeginDerives ==
  ASSUME TypeOK, FilesChange, ContentsKept, Begin
  PROVE  /\ HoldsFile(start[target']) /\ Original(target') \in FileEntry
         /\ source'.of = Original(target').of
         /\ source'.edits >= Original(target').edits
<1>1. /\ dir[Resolve(Name)].kind = "file" /\ source' = dir[Resolve(Name)]
      /\ target' = Target
  BY DEF Begin
<1>2. Name \in User /\ Resolve(Name) \in User /\ Target \in User /\ dir[Name] \in Entry
  BY NameFacts
<1>3. /\ HoldsFile(start[Resolve(Name)]) /\ Original(Resolve(Name)) \in FileEntry
      /\ source'.of = Original(Resolve(Name)).of
      /\ source'.edits >= Original(Resolve(Name)).edits
  BY <1>1, <1>2, FileDerived
<1>4. CASE Target = Resolve(Name)
  BY <1>1, <1>3, <1>4
<1>5. CASE Target # Resolve(Name)
  <2>1. Target = Name /\ dir[Name].kind = "link" /\ Resolve(Name) = dir[Name].to
    BY <1>5 DEF Target, Resolve
  <2>2. dir[Name] = start[Name]
    BY <1>2, <2>1 DEF FilesChange, ContentsKept, ComesFrom, Absent
  <2>3. start[Resolve(Name)].kind # "link"
    <3>1. start \in Directories /\ Name \in Names
      BY <1>2, BackupFacts DEF TypeOK
    <3>2. QED
      BY <2>1, <2>2, <3>1, DirectoriesAssumption
  <2>4. Original(Name) = Original(Resolve(Name))
    BY <2>1, <2>2, <2>3 DEF Original
  <2>5. HoldsFile(start[Name])
    BY <2>1, <2>2 DEF HoldsFile
  <2>6. QED
    BY <1>1, <1>3, <2>1, <2>4, <2>5
<1>6. QED
  BY <1>4, <1>5

LEMMA SaveBackupKept ==
  ASSUME TypeOK, SourceKept, KeptOK, SaveBackup
  PROVE  KeptOK'
<1>1. /\ pc = "backup" /\ pc' = "persist" /\ UNCHANGED <<mode, start, target, source>>
      /\ target \in User
  BY DEF SaveBackup, TypeOK
<1>2. mode.backup /\ HoldsFile(dir[target])
  BY <1>1 DEF SourceKept
<1>3. /\ dir'[target] = Absent /\ dir'[Backup[target]] = dir[target]
      /\ \A n \in User : n # target => dir'[n] = dir[n] /\ dir'[Backup[n]] = dir[Backup[n]]
  BY SaveBackupEffect
<1>4. /\ HoldsFile(start[target]) /\ Original(target) \in FileEntry
      /\ source.of = Original(target).of /\ source.edits >= Original(target).edits
  BY <1>1 DEF KeptOK, SourceDerived, InWork
<1>5. FilesChange'
  BY <1>1, <1>3, <1>4 DEF KeptOK, FilesChange, Original, HoldsFile
<1>6. SourceDerived'
  BY <1>1, <1>4 DEF SourceDerived, Original, HoldsFile
<1>7. ContentsKept'
  <2>1. ASSUME NEW n \in User, HoldsFile(start[n])
        PROVE  /\ ComesFrom(dir'[n], n) \/ dir'[n] = Absent
               /\ dir'[n] # start[n] => ComesFrom(dir'[Backup[n]], n)
    <3>1. CASE n = target
      <4>1. ComesFrom(dir[target], target)
        BY <1>1, <1>2, <1>4 DEF KeptOK, ContentsKept, HoldsFile, Absent
      <4>2. QED
        BY <1>3, <3>1, <4>1
    <3>2. CASE n # target
      BY <1>2, <1>3, <2>1, <3>2 DEF KeptOK, ContentsKept
    <3>3. QED
      BY <3>1, <3>2
  <2>2. QED
    BY <1>1, <1>2, <2>1 DEF ContentsKept, ComesFrom, Original, HoldsFile, Absent
<1>8. QED
  BY <1>5, <1>6, <1>7 DEF KeptOK

LEMMA PersistKept ==
  ASSUME TypeOK, SourceKept, KeptOK, Persist
  PROVE  KeptOK'
<1>1. /\ pc = "persist" /\ pc' \in {"begin", "done"}
      /\ UNCHANGED <<mode, start, target, source>> /\ target \in User
  BY DEF Persist, TypeOK
<1>2. /\ dir'[target] = Result
      /\ \A n \in User : /\ n # target => dir'[n] = dir[n]
                         /\ dir'[Backup[n]] = dir[Backup[n]]
  BY PersistEffect
<1>3. /\ HoldsFile(start[target]) /\ Original(target) \in FileEntry
      /\ source.of = Original(target).of /\ source.edits >= Original(target).edits
  BY <1>1 DEF KeptOK, SourceDerived, InWork
<1>4. FilesChange'
  BY <1>1, <1>2, <1>3 DEF KeptOK, FilesChange, Original, HoldsFile
<1>5. SourceDerived'
  BY <1>1 DEF SourceDerived, InWork
<1>6. ComesFrom(Result, target)
  <2>1. source.edits \in Nat /\ Original(target).edits \in Nat
    BY <1>3 DEF TypeOK, FileEntry
  <2>2. /\ Result.kind = "file" /\ Result.of = source.of
        /\ Result.edits = source.edits + 1
    BY DEF Result
  <2>3. QED
    BY <1>3, <2>1, <2>2 DEF ComesFrom
<1>7. ContentsKept'
  <2>1. ASSUME NEW n \in User, HoldsFile(start[n])
        PROVE  /\ ComesFrom(dir'[n], n) \/ (mode.backup /\ dir'[n] = Absent)
               /\ mode.backup /\ dir'[n] # start[n] => ComesFrom(dir'[Backup[n]], n)
    <3>1. CASE n = target
      <4>1. mode.backup => dir[target] # start[target]
        BY <1>1, <1>3 DEF SourceKept, HoldsFile, Absent
      <4>2. mode.backup => ComesFrom(dir[Backup[target]], target)
        BY <1>1, <1>3, <4>1 DEF KeptOK, ContentsKept
      <4>3. QED
        BY <1>2, <1>6, <3>1, <4>2
    <3>2. CASE n # target
      BY <1>2, <2>1, <3>2 DEF KeptOK, ContentsKept
    <3>3. QED
      BY <3>1, <3>2
  <2>2. QED
    BY <1>1, <2>1 DEF ContentsKept, ComesFrom, Original, HoldsFile, Absent
<1>8. QED
  BY <1>4, <1>5, <1>7 DEF KeptOK

LEMMA StepKept ==
  ASSUME TypeOK, SourceKept, KeptOK, [Next]_vars
  PROVE  KeptOK'
<1>1. ASSUME Begin PROVE KeptOK'
  <2>1. UNCHANGED <<mode, start, dir>>
    BY <1>1 DEF Begin
  <2>2. FilesChange' /\ ContentsKept'
    BY <2>1 DEF KeptOK, FilesChange, ContentsKept, ComesFrom, Original, HoldsFile, Absent
  <2>3. SourceDerived'
    BY <1>1, <2>1, BeginDerives DEF KeptOK, SourceDerived, Original, HoldsFile
  <2>4. QED
    BY <2>2, <2>3 DEF KeptOK
<1>2. ASSUME Fail \/ Edit \/ Flush \/ Crash \/ UNCHANGED vars PROVE KeptOK'
  <2>1. UNCHANGED <<mode, start, dir, target, source>> /\ (InWork' => InWork)
    BY <1>2 DEF Fail, Edit, Flush, Crash, vars, InWork
  <2>2. FilesChange' /\ ContentsKept'
    BY <2>1 DEF KeptOK, FilesChange, ContentsKept, ComesFrom, Original, HoldsFile, Absent
  <2>3. SourceDerived'
    BY <2>1 DEF KeptOK, SourceDerived, Original, HoldsFile
  <2>4. QED
    BY <2>2, <2>3 DEF KeptOK
<1>3. QED
  BY <1>1, <1>2, SaveBackupKept, PersistKept
     DEF Next, BeginFails, EditFails, FlushFails, BackupFails, PersistFails, Terminated

LEMMA InitKept == Init => KeptOK
<1> SUFFICES ASSUME Init PROVE KeptOK
  OBVIOUS
<1>1. dir = start /\ pc = "begin"
  BY DEF Init
<1>2. QED
  BY <1>1 DEF KeptOK, FilesChange, SourceDerived, InWork, ContentsKept, ComesFrom

\* No failure and no crash loses a file: its name shows what it showed at the
\* start or a form edited from it, and with a suffix the backup of a changed name
\* does; only then is a name missing, between the two renames.
THEOREM NothingLost == Spec => []ContentsKept
<1>1. KeptOK => ContentsKept
  BY DEF KeptOK
<1>2. QED
  BY <1>1, InitType, StepType, InitSource, StepSource, InitKept, StepKept, PTL DEF Spec

LEMMA StepThere ==
  ASSUME TypeOK, SourceKept, NameAlwaysThere, [Next]_vars
  PROVE  NameAlwaysThere'
<1>1. ASSUME SaveBackup PROVE NameAlwaysThere'
  BY <1>1 DEF SaveBackup, SourceKept, NameAlwaysThere
<1>2. ASSUME Persist PROVE NameAlwaysThere'
  <2>1. UNCHANGED <<mode, start>> /\ dir'[target] # Absent
    BY <1>2, PersistEffect DEF Persist, Result, Absent
  <2>2. ASSUME ~mode.backup, NEW n \in User, start[n] # Absent
        PROVE  dir'[n] # Absent
    BY <1>2, <2>1, <2>2, PersistEffect DEF NameAlwaysThere
  <2>3. QED
    BY <2>1, <2>2 DEF NameAlwaysThere, Absent
<1>3. ASSUME Begin \/ Fail \/ Edit \/ Flush \/ Crash \/ UNCHANGED vars
      PROVE  NameAlwaysThere'
  <2>1. UNCHANGED <<mode, start, dir>>
    BY <1>3 DEF Begin, Fail, Edit, Flush, Crash, vars
  <2>2. QED
    BY <2>1 DEF NameAlwaysThere, Absent
<1>4. QED
  BY <1>1, <1>2, <1>3
     DEF Next, BeginFails, EditFails, FlushFails, BackupFails, PersistFails, Terminated

\* Without a suffix no name goes missing for a moment: the original is replaced
\* by the temporary file in one step.
THEOREM AlwaysThere == Spec => []NameAlwaysThere
<1>1. Init => NameAlwaysThere
  BY DEF Init, NameAlwaysThere
<1>2. QED
  BY <1>1, InitType, StepType, InitSource, StepSource, StepThere, PTL DEF Spec

-----------------------------------------------------------------------------
(* Which names change.                                                     *)

\* A name with a backup is as it was, is gone for a moment, or is a file that
\* was edited; so a link that is there was there at the start.
Unedited ==
  \A n \in User :
    \/ dir[n] = start[n] \/ dir[n] = Absent
    \/ dir[n].kind = "file" /\ dir[n].edits >= 1

\* The file in work is the current argument or what it leads to; with
\* --follow-symlinks it is never a link, without it the name itself.
TargetChosen ==
  InWork =>
    /\ EditedBy(index, target)
    /\ mode.follow => start[target].kind # "link"
    /\ ~mode.follow => target = args[index]

\* A name that differs from what it was belongs to an argument that is finished,
\* or is missing between the renames of the one in work.
SetAsideNow(n) ==
  /\ mode.backup /\ pc \in {"persist", "failed", "crashed"}
  /\ EditedBy(index, n) /\ dir[n] = Absent
Attributed ==
  /\ stop => pc \notin {"begin", "edit"}
  /\ \A n \in User :
       dir[n] = start[n] \/ (\E i \in Edited : EditedBy(i, n)) \/ SetAsideNow(n)

\* A file that was never edited is set aside as it was.
FirstBackup ==
  /\ pc \in {"edit", "flush", "backup"} /\ source.edits = 0 => dir[target] = start[target]
  /\ pc = "persist" /\ mode.backup /\ source.edits = 0
       => dir[Backup[target]] = start[target]

ChangesOK ==
  /\ Unedited /\ TargetChosen /\ Attributed /\ FirstBackup
  /\ LinksRespected /\ BackupIsOriginal

LEMMA LinkIsEntry ==
  ASSUME NEW v \in Entry, v.kind = "link"
  PROVE  v.to \in User /\ v = [kind |-> "link", to |-> v.to]
BY DEF Entry, FileEntry, LinkEntry, Absent, Other

\* A link that is in the directory was there at the start.
LEMMA LinkUnchanged ==
  ASSUME Unedited, NEW n \in User, dir[n].kind = "link"
  PROVE  dir[n] = start[n]
BY DEF Unedited, Absent

LEMMA BeginChooses ==
  ASSUME TypeOK, Unedited, LinksRespected, Begin
  PROVE  /\ target' \in User /\ EditedBy(index, target')
         /\ mode.follow => start[target'].kind # "link"
         /\ ~mode.follow => target' = args[index]
         /\ source'.edits = 0 => dir[target'] = start[target']
<1>1. /\ dir[Resolve(Name)].kind = "file" /\ source' = dir[Resolve(Name)]
      /\ target' = Target
  BY DEF Begin
<1>2. /\ Name \in User /\ Resolve(Name) \in User /\ Target \in User
      /\ dir[Name] \in Entry /\ Name = args[index]
  BY NameFacts DEF Name
<1>3. ~mode.follow => Target = Name
  BY DEF Target
<1>4. CASE dir[Name].kind = "link"
  <2>1. dir[Name] = start[Name] /\ Resolve(Name) = dir[Name].to
    BY <1>2, <1>4, LinkUnchanged DEF Resolve
  <2>2. start[Name] = [kind |-> "link", to |-> Resolve(Name)]
    BY <1>2, <1>4, <2>1, LinkIsEntry
  <2>3. start[Resolve(Name)].kind # "link"
    <3>1. start \in Directories /\ Name \in Names
      BY <1>2, BackupFacts DEF TypeOK
    <3>2. QED
      BY <1>4, <2>1, <3>1, DirectoriesAssumption
  <2>4. mode.follow => Target = Resolve(Name)
    BY DEF Target
  <2>5. mode.follow /\ source'.edits = 0 => dir[Target] = start[Target]
    BY <1>1, <1>2, <2>4 DEF Unedited, Absent
  <2>6. QED
    BY <1>1, <1>2, <1>3, <2>1, <2>2, <2>3, <2>4, <2>5 DEF EditedBy
<1>5. CASE dir[Name].kind # "link"
  <2>1. Resolve(Name) = Name /\ Target = Name
    BY <1>5 DEF Resolve, Target
  <2>2. mode.follow => start[Name].kind # "link"
    BY <1>2, <1>5 DEF LinksRespected
  <2>3. source'.edits = 0 => dir[Name] = start[Name]
    BY <1>1, <1>2, <2>1 DEF Unedited, Absent
  <2>4. QED
    BY <1>1, <1>2, <2>1, <2>2, <2>3 DEF EditedBy
<1>6. QED
  BY <1>4, <1>5

LEMMA BeginChanges == ASSUME TypeOK, ChangesOK, Begin PROVE ChangesOK'
<1>1. /\ pc = "begin" /\ pc' = "edit" /\ UNCHANGED <<mode, start, args, index, dir>>
  BY DEF Begin
<1>2. /\ target' \in User /\ EditedBy(index, target')
      /\ mode.follow => start[target'].kind # "link"
      /\ ~mode.follow => target' = args[index]
      /\ source'.edits = 0 => dir[target'] = start[target']
  BY BeginChooses DEF ChangesOK
<1>3. Unedited' /\ LinksRespected' /\ BackupIsOriginal'
  BY <1>1 DEF ChangesOK, Unedited, LinksRespected, BackupIsOriginal, Absent
<1>4. TargetChosen'
  BY <1>1, <1>2 DEF TargetChosen, EditedBy
<1>5. Attributed'
  BY <1>1 DEF Begin, ChangesOK, Attributed, Edited, SetAsideNow, EditedBy
<1>6. FirstBackup'
  BY <1>1, <1>2 DEF FirstBackup
<1>7. QED
  BY <1>3, <1>4, <1>5, <1>6 DEF ChangesOK

LEMMA SaveBackupChanges ==
  ASSUME TypeOK, SourceKept, ChangesOK, SaveBackup
  PROVE  ChangesOK'
<1>1. /\ pc = "backup" /\ pc' = "persist"
      /\ UNCHANGED <<mode, start, args, index, target, source>>
  BY DEF SaveBackup
<1>2. target \in User /\ index \in Nat /\ index >= 1
  BY DEF TypeOK
<1>3. /\ dir'[target] = Absent /\ dir'[Backup[target]] = dir[target]
      /\ \A n \in User : n # target => dir'[n] = dir[n] /\ dir'[Backup[n]] = dir[Backup[n]]
  BY SaveBackupEffect
<1>4. /\ EditedBy(index, target)
      /\ mode.follow => start[target].kind # "link"
      /\ ~mode.follow => target = args[index]
  BY <1>1 DEF ChangesOK, TargetChosen, InWork
<1>5. Unedited'
  BY <1>1, <1>3 DEF ChangesOK, Unedited, Absent
<1>6. TargetChosen'
  BY <1>1, <1>4 DEF TargetChosen, EditedBy
<1>7. Attributed'
  <2>1. mode.backup /\ Edited' = Edited /\ stop' = stop
    BY <1>1 DEF SourceKept, Edited, SaveBackup
  <2>2. ASSUME NEW n \in User
        PROVE  \/ dir'[n] = start[n] \/ \E i \in Edited : EditedBy(i, n)
               \/ EditedBy(index, n) /\ dir'[n] = Absent
    BY <1>1, <1>3, <1>4 DEF ChangesOK, Attributed, SetAsideNow
  <2>3. QED
    BY <1>1, <2>1, <2>2 DEF ChangesOK, Attributed, SetAsideNow, EditedBy, Absent
<1>8. FirstBackup'
  <2>1. source.edits = 0 => dir[target] = start[target]
    BY <1>1 DEF ChangesOK, FirstBackup
  <2>2. QED
    BY <1>1, <1>3, <2>1 DEF FirstBackup
<1>9. LinksRespected'
  <2>1. ASSUME NEW n \in User, mode.follow, start[n].kind = "link"
        PROVE  dir'[n] = start[n]
    BY <1>3, <1>4, <2>1 DEF ChangesOK, LinksRespected
  <2>2. ASSUME NEW n \in User, ~mode.follow, \A i \in DOMAIN args : args[i] # n
        PROVE  dir'[n] = start[n]
    <3>1. index \in DOMAIN args
      BY ArgumentsAssumption DEF TypeOK
    <3>2. QED
      BY <1>3, <1>4, <2>2, <3>1 DEF ChangesOK, LinksRespected
  <2>3. QED
    BY <1>1, <2>1, <2>2 DEF LinksRespected
<1>10. BackupIsOriginal'
  BY <1>1, <1>3 DEF ChangesOK, BackupIsOriginal, Absent
<1>11. QED
  BY <1>5, <1>6, <1>7, <1>8, <1>9, <1>10 DEF ChangesOK

LEMMA PersistChanges ==
  ASSUME TypeOK, SourceKept, ChangesOK, Persist
  PROVE  ChangesOK'
<1>1. /\ pc = "persist" /\ UNCHANGED <<mode, start, args, target, source>>
      /\ pc' = "done" \/ (pc' = "begin" /\ index' = index + 1)
  BY DEF Persist
<1>2. target \in User /\ index \in Nat /\ index >= 1
  BY DEF TypeOK
<1>3. /\ dir'[target] = Result
      /\ \A n \in User : /\ n # target => dir'[n] = dir[n]
                         /\ dir'[Backup[n]] = dir[Backup[n]]
  BY PersistEffect
<1>4. /\ EditedBy(index, target)
      /\ mode.follow => start[target].kind # "link"
      /\ ~mode.follow => target = args[index]
  BY <1>1 DEF ChangesOK, TargetChosen, InWork
<1>5. Result.kind = "file" /\ Result.edits = source.edits + 1 /\ source.edits \in Nat
  BY DEF Result, TypeOK, FileEntry
<1>6. Unedited'
  <2>1. ASSUME NEW n \in User
        PROVE  \/ dir'[n] = start[n] \/ dir'[n] = Absent
               \/ dir'[n].kind = "file" /\ dir'[n].edits >= 1
    <3>1. CASE n = target
      BY <1>3, <1>5, <3>1
    <3>2. CASE n # target
      BY <1>3, <3>2 DEF ChangesOK, Unedited
    <3>3. QED
      BY <3>1, <3>2
  <2>2. QED
    BY <1>1, <2>1 DEF Unedited, Absent
<1>7. TargetChosen'
  BY <1>1 DEF TargetChosen, InWork
<1>8. Attributed'
  <2>1. index \in Edited' /\ \A i \in Edited : i \in Edited'
    BY <1>1, <1>2 DEF Persist, Edited
  <2>2. ASSUME NEW n \in User
        PROVE  dir'[n] = start[n] \/ \E i \in Edited' : EditedBy(i, n)
    <3>1. CASE n = target
      BY <1>4, <2>1, <3>1
    <3>2. CASE n # target
      BY <1>3, <2>1, <3>2 DEF ChangesOK, Attributed, SetAsideNow
    <3>3. QED
      BY <3>1, <3>2
  <2>3. stop' => pc' \notin {"begin", "edit"}
    BY DEF Persist, IsFinished
  <2>4. QED
    BY <1>1, <2>2, <2>3 DEF Attributed, EditedBy
<1>9. FirstBackup'
  BY <1>1 DEF FirstBackup
<1>10. LinksRespected'
  <2>1. ASSUME NEW n \in User, mode.follow, start[n].kind = "link"
        PROVE  dir'[n] = start[n]
    BY <1>3, <1>4, <2>1 DEF ChangesOK, LinksRespected
  <2>2. ASSUME NEW n \in User, ~mode.follow, \A i \in DOMAIN args : args[i] # n
        PROVE  dir'[n] = start[n]
    <3>1. index \in DOMAIN args
      BY ArgumentsAssumption DEF TypeOK
    <3>2. QED
      BY <1>3, <1>4, <2>2, <3>1 DEF ChangesOK, LinksRespected
  <2>3. QED
    BY <1>1, <2>1, <2>2 DEF LinksRespected
<1>11. BackupIsOriginal'
  <2>1. ASSUME NEW n \in User, mode.backup, dir'[n] # start[n], dir'[n].kind = "file",
               dir'[n].edits = 1
        PROVE  dir'[Backup[n]] = start[n]
    <3>1. CASE n = target
      BY <1>1, <1>3, <1>5, <2>1, <3>1 DEF ChangesOK, FirstBackup
    <3>2. CASE n # target
      BY <1>3, <2>1, <3>2 DEF ChangesOK, BackupIsOriginal
    <3>3. QED
      BY <3>1, <3>2
  <2>2. QED
    BY <1>1, <2>1 DEF BackupIsOriginal
<1>12. QED
  BY <1>6, <1>7, <1>8, <1>9, <1>10, <1>11 DEF ChangesOK

LEMMA StepChanges ==
  ASSUME TypeOK, SourceKept, ChangesOK, [Next]_vars
  PROVE  ChangesOK'
<1>1. ASSUME Edit \/ Flush PROVE ChangesOK'
  <2>1. /\ UNCHANGED <<mode, start, args, index, dir, target, source>>
        /\ \/ pc = "edit" /\ pc' = "flush"
           \/ pc = "flush" /\ pc' = "backup"
           \/ pc = "flush" /\ pc' = "persist" /\ ~mode.backup
    BY <1>1 DEF Edit, Flush, AfterFlush
  <2>2. Unedited' /\ LinksRespected' /\ BackupIsOriginal'
    BY <2>1 DEF ChangesOK, Unedited, LinksRespected, BackupIsOriginal, Absent
  <2>3. TargetChosen' /\ FirstBackup'
    BY <2>1 DEF ChangesOK, TargetChosen, FirstBackup, EditedBy, InWork
  <2>4. Attributed'
    BY <2>1 DEF ChangesOK, Attributed, Edited, SetAsideNow, EditedBy, Absent
  <2>5. QED
    BY <2>2, <2>3, <2>4 DEF ChangesOK
<1>2. ASSUME (InWork \/ pc = "begin") /\ (Fail \/ Crash) PROVE ChangesOK'
  <2>1. /\ pc' \in {"failed", "crashed"} /\ pc # "done"
        /\ UNCHANGED <<mode, start, args, index, dir>>
    BY <1>2 DEF Fail, Crash, InWork
  <2>2. Unedited' /\ LinksRespected' /\ BackupIsOriginal'
    BY <2>1 DEF ChangesOK, Unedited, LinksRespected, BackupIsOriginal, Absent
  <2>3. TargetChosen' /\ FirstBackup'
    BY <2>1 DEF TargetChosen, FirstBackup, InWork
  <2>4. Attributed'
    BY <2>1 DEF ChangesOK, Attributed, Edited, SetAsideNow, EditedBy, Absent
  <2>5. QED
    BY <2>2, <2>3, <2>4 DEF ChangesOK
<1>3. ASSUME UNCHANGED vars PROVE ChangesOK'
  <2>1. UNCHANGED <<mode, start, args, index, dir, pc, target, source, stop>>
    BY <1>3 DEF vars
  <2>2. Unedited' /\ LinksRespected' /\ BackupIsOriginal'
    BY <2>1 DEF ChangesOK, Unedited, LinksRespected, BackupIsOriginal, Absent
  <2>3. TargetChosen' /\ FirstBackup' /\ Attributed'
    BY <2>1 DEF ChangesOK, TargetChosen, FirstBackup, Attributed, Edited, SetAsideNow,
                EditedBy, InWork, Absent
  <2>4. QED
    BY <2>2, <2>3 DEF ChangesOK
<1>4. QED
  <2>1. Crash => InWork \/ pc = "begin"
    BY DEF Crash, InWork, TypeOK
  <2>2. QED
    BY <1>1, <1>2, <1>3, <2>1, BeginChanges, SaveBackupChanges, PersistChanges
       DEF Next, BeginFails, EditFails, FlushFails, BackupFails, PersistFails, Terminated,
           InWork

LEMMA InitChanges == Init => ChangesOK
<1> SUFFICES ASSUME Init PROVE ChangesOK
  OBVIOUS
<1>1. dir = start /\ pc = "begin" /\ stop = FALSE
  BY DEF Init
<1>2. QED
  BY <1>1 DEF ChangesOK, Unedited, TargetChosen, Attributed, FirstBackup, LinksRespected,
              BackupIsOriginal, InWork

LEMMA ChangesHold == Spec => []ChangesOK
BY InitType, StepType, InitSource, StepSource, InitChanges, StepChanges, PTL DEF Spec

\* With a suffix the backup of a file that is edited for the first time is what
\* its name showed before, a link if it was one, however many files are edited
\* and whichever of them are links to others.
THEOREM BackupCorrect == Spec => []BackupIsOriginal
<1>1. ChangesOK => BackupIsOriginal
  BY DEF ChangesOK
<1>2. QED
  BY <1>1, ChangesHold, PTL

\* With --follow-symlinks no link is ever replaced by a file; without it no
\* name but those given is touched, though names given may lead to it.
THEOREM LinksKept == Spec => []LinksRespected
<1>1. ChangesOK => LinksRespected
  BY DEF ChangesOK
<1>2. QED
  BY <1>1, ChangesHold, PTL

\* Neither an error, nor a kill, nor q changes a file that was still to be
\* edited, then or later; the file in work is as it was until its result is
\* installed, or missing if it was moved to its backup before that.
THEOREM LaterFilesKept == Spec => []OnlyEarlierFilesChanged
<1>1. ChangesOK => OnlyEarlierFilesChanged
  BY DEF ChangesOK, Attributed, SetAsideNow, OnlyEarlierFilesChanged
<1>2. QED
  BY <1>1, ChangesHold, PTL

-----------------------------------------------------------------------------
(* The promise made to those who look at the names.                        *)

shown == [n \in User |-> dir[n]]
backups == [n \in User |-> dir[Backup[n]]]

LEMMA SaveBackupSetsAside ==
  ASSUME TypeOK, SourceKept, SaveBackup
  PROVE  Promise!SetAside(target)
<1>1. target \in User /\ pc = "backup" /\ UNCHANGED mode
  BY DEF TypeOK, SaveBackup
<1>2. mode.backup /\ HoldsFile(dir[target]) /\ LeadsTo(dir[target]) = source
  BY <1>1 DEF SourceKept
<1>3. Promise!IsFile(shown[target])
  <2>1. dir[target].kind = "link" => dir[target].to \in User
    <3>1. dir[target] \in Entry
      BY <1>1, BackupFacts DEF TypeOK
    <3>2. QED
      BY <3>1 DEF Entry, FileEntry, LinkEntry, Absent, Other
  <2>2. Promise!Contents(dir[target]) = source /\ source.kind = "file"
    BY <1>2, <2>1 DEF Promise!Contents, LeadsTo, TypeOK, FileEntry
  <2>3. QED
    BY <1>1, <2>2 DEF Promise!IsFile, shown
<1>4. shown' = [shown EXCEPT ![target] = Absent]
  BY <1>1, SaveBackupEffect DEF shown
<1>5. backups' = [backups EXCEPT ![target] = shown[target]]
  BY <1>1, SaveBackupEffect DEF shown, backups
<1>6. QED
  BY <1>1, <1>2, <1>3, <1>4, <1>5 DEF Promise!SetAside, Promise!Absent, shown, backups, Absent

LEMMA PersistInstalls ==
  ASSUME TypeOK, FlushedFirst, SourceKept, Persist
  PROVE  Promise!Replace(target) \/ Promise!Install(target)
<1>1. target \in User /\ pc = "persist" /\ temp.whole /\ UNCHANGED mode
  BY DEF TypeOK, Persist, FlushedFirst
<1>2. Result \in Promise!Results(source) /\ source.kind = "file"
  <2>1. temp.lost \in BOOLEAN /\ temp.whole = TRUE
    BY <1>1 DEF TypeOK
  <2>2. source.lost \/ temp.lost \in {source.lost, TRUE}
    BY <2>1 DEF TypeOK, FileEntry
  <2>3. QED
    BY <2>1, <2>2 DEF Result, Promise!Results, TypeOK, FileEntry
<1>3. shown' = [shown EXCEPT ![target] = Result] /\ backups' = backups
  BY <1>1, PersistEffect DEF shown, backups
<1>4. \A v \in Entry : Promise!Contents(v) = LeadsTo(v)
  <2>1. ASSUME NEW v \in Entry, v.kind = "link" PROVE v.to \in User
    BY <2>1 DEF Entry, FileEntry, LinkEntry, Absent, Other
  <2>2. QED
    BY <2>1 DEF Promise!Contents, LeadsTo
<1>5. dir[target] \in Entry /\ dir[Backup[target]] \in Entry
  BY <1>1, BackupFacts DEF TypeOK
<1>6. CASE ~mode.backup
  <2>1. Promise!Contents(shown[target]) = source
    BY <1>1, <1>4, <1>5, <1>6 DEF SourceKept, shown
  <2>2. Promise!Replace(target)
    BY <1>1, <1>2, <1>3, <1>6, <2>1 DEF Promise!Replace, Promise!IsFile, shown, backups
  <2>3. QED
    BY <2>2
<1>7. CASE mode.backup
  <2>1. shown[target] = Absent /\ Promise!Contents(backups[target]) = source
    BY <1>1, <1>4, <1>5, <1>7 DEF SourceKept, shown, backups
  <2>2. Promise!Install(target)
    BY <1>1, <1>2, <1>3, <1>7, <2>1
       DEF Promise!Install, Promise!IsFile, Promise!Absent, Absent, shown, backups
  <2>3. QED
    BY <2>2
<1>8. QED
  BY <1>6, <1>7

\* In-place editing implements FileUpdate: to whoever looks at the names, every
\* step of every run replaces a file by the result of a whole cycle, moves it to
\* its backup, installs its result, or changes nothing.
THEOREM PromiseKept == Spec => KeepsPromise
<1>1. ASSUME TypeOK, FlushedFirst, SourceKept, [Next]_vars
      PROVE  [Promise!Next]_<<shown, backups, mode.backup>>
  <2>1. ASSUME SaveBackup PROVE Promise!Next
    <3>1. target \in User /\ Promise!SetAside(target)
      BY <1>1, <2>1, SaveBackupSetsAside DEF TypeOK
    <3>2. QED
      BY <3>1 DEF Promise!Next, Promise!Replace, Promise!SetAside, Promise!Install
  <2>2. ASSUME Persist PROVE Promise!Next
    <3>1. target \in User /\ (Promise!Replace(target) \/ Promise!Install(target))
      BY <1>1, <2>2, PersistInstalls DEF TypeOK
    <3>2. QED
      BY <3>1 DEF Promise!Next, Promise!Replace, Promise!SetAside, Promise!Install
  <2>3. ASSUME Begin \/ Fail \/ Edit \/ Flush \/ Crash \/ UNCHANGED vars
        PROVE  UNCHANGED <<shown, backups, mode.backup>>
    BY <2>3 DEF Begin, Fail, Edit, Flush, Crash, vars, shown, backups
  <2>4. QED
    BY <1>1, <2>1, <2>2, <2>3
       DEF Next, BeginFails, EditFails, FlushFails, BackupFails, PersistFails, Terminated
<1>2. QED
  BY <1>1, InitType, StepType, InitWhole, StepWhole, InitSource, StepSource, PTL
     DEF Spec, KeepsPromise, Promise!Spec, shown, backups
=============================================================================
