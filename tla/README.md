# Specifications of sed

TLA+ specifications of the stream editor in this repository, TLC runs that check
them on small instances, and TLAPS proofs of their main invariants. Everything is
translated from the Rust sources under `src/sed/`; `PROJECT.json` names, for each
definition, the lines it stands for.

## The system

sed is a single-threaded program. It compiles its script into a graph of commands
(`compiler.rs`) and runs it over its input files (`processor.rs`); nothing runs
concurrently, and what is hard is the long-lived state that commands, cycles and
files share.

| component | state | operations | what makes it hard |
|---|---|---|---|
| execution cycle, `processor.rs` | pattern and hold space, line number, queued text, an `N` in progress, stop and quiet flags | open a file, read a line, 30 commands, end of cycle, end of file | `N` leaves the loop and is resumed by the next read; `q` takes effect three loops up; the state either survives a file or must not, as `-s` says |
| address selection, `applies` of `processor.rs` | `start_line` of each range, `last_address`, the saved regular expression | test a command on a line, reset the latches | a latch is moved only when its command is met, and outlives files |
| in-place editing, `in_place.rs` | temporary file, original path, the directory | begin, end | failures and kills between five system calls; links; a file named twice |
| output buffering, `fast_io.rs` | mapped ranges not copied yet, buffered bytes, an owed newline | write a chunk, write bytes, copy a file, flush | three paths to one file must keep their order |
| input reading, `fast_io.rs` | a mapped or buffered cursor | get a line, is it the last | lookahead, missing last newline |
| named writers, `named_writer.rs` | one buffered file per `w` | write a line, flush all | the same file opened twice |
| script compiler, `compiler.rs`, `script_*_provider.rs` | block nesting, labels, range commands | compile a sequence, link blocks, resolve labels | links are patched in passes |
| delimited text, `delimited_parser.rs`; regular expressions, `fast_regex.rs` | none, the saved expression aside | parse, match | character classes, escapes; choice of matcher |
| command line, `mod.rs`, `error_handling.rs` | the initial context | parse options, report errors | none |

The cycle calls the reader for lines and for "is this the last line" (`$`, `c`),
the output buffer and named writers for each write, and drives in-place editing
around each file (`begin`, the cycle, `end`). The compiler hands it the command
graph and the list of range commands whose latches it resets. They share
`ProcessingContext` (`command.rs`), which is where the state in the table lives.

## Modules

| module | models | extends |
|---|---|---|
| `Addressing` | `applies`, `match_address`, `re_or_saved_re`, `reset_latched_address_ranges`, as operators | |
| `Processor` | `process_all_files` and `process_file` with every command | `Addressing` |
| `MCProcessor` | scripts and inputs for TLC | `Processor` |
| `Ranges` | one range command met, or not met, on each line of a stream | `Addressing` |
| `MCRanges` | ranges for TLC | `Ranges` |
| `FileUpdate` | abstract: what in-place editing promises to whoever looks at the names | |
| `InPlace` | `InPlace` of `in_place.rs` driven by `process_all_files`, over a directory | `FileUpdate` (by INSTANCE) |
| `MCInPlace` | directories and arguments for TLC | `InPlace` |
| `FastIO` | `LineReader` and `OutputBuffer` of `fast_io.rs` on one file | |
| `MCFastIO` | inputs and texts for TLC | `FastIO` |
| `Linker` | `compile`, `compile_sequence` and the four passes of `compiler.rs` | |
| `MCLinker` | scripts for TLC | `Linker` |
| `ScriptText` | the lines of the scripts (`script_line_provider.rs`), the cursor (`script_char_provider.rs`), the escapes of `delimited_parser.rs` | |
| `Delimited` | the loops of `delimited_parser.rs` | `ScriptText` |
| `Patterns` | `bre_to_ere` and `compile_regex` of `compiler.rs`, the choice of a matcher and the search for literal bytes of `fast_regex.rs`, as operators | `ScriptText` |
| `Arguments` | `compile_sequence` of `compiler.rs` with every handler, from the bytes of the script | `Delimited`, `Patterns` |
| `Readings` | what a script says, without a cursor: the definitions that `Arguments` is compared with | `Arguments` |
| `MCArguments` | scripts for TLC | `Readings` |
| `ProcessorProofs` | type correctness of `Processor` | `Processor` |
| `ProcessorSafety` | its safety properties | `ProcessorProofs` |
| `NatInduction` | induction and recursion over the natural numbers, as lemmas about sets and functions | |
| `RangesProofs`, `InPlaceProofs`, `FastIOProofs`, `LinkerProofs`, `ArgumentsProofs` | those of `Ranges`, `InPlace`, `FastIO`, `Linker` and `Arguments` | |

### Processor

A script is a sequence of command records linked by `next` and `goto`, as the
compiler leaves them; 0 is `None`. A pattern space is the sequence of the lines it
holds, what its embedded newlines separate, plus the flag for the newline of the
last line read. A line is a member of `Seg`, and a regular expression the set of
lines it matches. Inputs are sequences of files, any of which may be unreadable,
empty or without a last newline.

`pc` says where the nested loops stand: `open` (the loop over files), `zero` (the
prescan for `0r`), `read` (the loop over lines), `exec` (the loop over commands;
`cur` is the command, 0 the end of the script), `close` (after a file), `done` and
`failed`. Each command is an action; its guard is `Selected`, which evaluates the
addresses, moves the latch and saves the regular expression exactly when `applies`
does, so that a command that is skipped still changes state. `out` is the sequence
of all writes. `consumed` and `autoLines` are history variables.

`n` is modelled as it is coded: it leaves the command loop as the end of the
script does (see Differences below).

Abstracted: bytes within a line, group references in replacements, the widths of
`l`, exit codes, messages, `-z`, `-u` and `--sandbox` (which concern the bytes, the
buffers and the compiler). A command run by `e` may print any member of `Shell`.
Errors of reading and writing, which end the program, are left out of `Processor`
and part of `InPlace`, where they matter.

### Ranges

`Test` reads a line and tests the command on it; `PassBy` reads a line on which the
command is not met, because a branch, a block or an `N` kept the script from it.
`RangeOf` is an independent definition of the range each line is in.

### InPlace

The directory maps names to files, links, other things, or nothing. A file records which
original it derives from, how many edits it went through, whether it is whole, and
whether blocks of it are lost. `Begin`, `Edit`, `Flush`, `SaveBackup` and `Persist` are
the steps that system calls separate; each may fail, which drops the temporary file, and
`Crash` may strike between any two. `Written` is a failure of another kind: both files
are regular, so that the cycle and the flush copy blocks by `copy_file_range`, whose
error is thrown away (`fast_io.rs:1046`); the step succeeds, and the temporary file is
`lost`. A file is therefore whole when the cycle that wrote it came to its end and its
buffers were flushed, which is all the code makes sure of. That a file it installs may
still have lost blocks is why `FileUpdate` promises contents in one piece and in order,
and not that every block of them is there. Backup names are different from all names
edited or linked to: `BackupAssumption`. A link is relative to no directory, and what it
leads to has no other hard links.

### FastIO

A file is a sequence of bytes. `buffer` is the `OutputBuffer` with the file behind it:
`disk` is what was handed to the system, `buf` what the `BufWriter` holds, and `from`
and `to` the mapped range that waits. Every operator of the buffer (`FlushMmap`,
`Settle`, `AddMapped`, `AddOwned`, `Flushed`) gives the set of its possible outcomes,
each action is one call, and `promised` is a history variable, the bytes the calls asked
to be written. `CopyRange` is `copy_file_range` with the fallback around it, and
`Faults` says how the system call may misbehave: it turns out to be unsupported after a
part (`"unsupported"`), says the input has ended (`"ends"`), or fails (`"fails"`). If it
is unsupported from the start the range is written in full, which is what a copy without
faults does, so `Faults = {}` covers that. `Put` is `BufWriter::write_all`: what fits is
kept, a full buffer too, and only what does not fit flushes it. The copy happens between
files that are both regular; otherwise the range goes out by `write`. `WriteFails` is a
failing write at any point, which ends the program. The buffer of each file is a new one
(`in_place.rs:70`), so the model ends with the file. The variant for systems other than
Unix is the unmapped case.

### Linker

A script is the sequence of its items. `stage` says where `compile` stands:
`parse`, then the passes `labels`, `ranges`, `resolve` and `patch`, and `done` or
`failed`. While it parses, `frames` is the stack of the calls of
`compile_sequence`, each with its `head` and `tail` and the `{` it was called for;
`AddCommand`, `OpenBlock`, `CloseBlock`, `EndOfBlock` and `Silence` are what one
turn of its loop does. The four passes are recursive loops of one shape: `Descend`
and `Ascend` are the call for a body and the return from it, `ToNext` the turn of
the loop, and `PopulateLabel`, `PopulateRange`, `ResolveBranch` and `PatchEnding`
what each pass does with a command. `goto` is `CommandData::BranchTarget`: the body
of a block, and the target of a branch once it is resolved. `FollowedBy`,
`Labelled` and `WellFormed` say what a script means from its text alone, without
links, and are what the properties compare the graph with.

Two things that the code does and the text of a script does not suggest are kept.
The value returned by the second handler, the one after a `!`, is dropped
(`compiler.rs:308`): a `!}` lowers the nesting and the sequence goes on, so that
counter and recursion disagree. `ClosesInside` says that this cuts nothing off;
`Matching` and `LinksFollowText` take the braces as `compile_sequence` does, for which
a `!}` closes nothing, so that in `1{p;!};d` the `d` is a command of the block; and
`RefusesMalformed` counts them as the counter does, for which it closes one. It
compiles to a command without addresses and with a negation, which is never
selected; `Processor` therefore has no `}`. And `#n` counts on line 1 of every `-e`
and `-f`, not only of the script, though `compiler.rs:264` speaks of its first two
characters; since only the setting of `quiet` depends on it, no run is spent on it.

Abstracted: the arguments of commands, whose handlers change nothing else, and
with them the errors in arguments and in what may follow a command. They are what
`Arguments` is about.

### ScriptText, Delimited, Patterns, Arguments

These read a script as the compiler does, byte by byte. `source` and `taken` are the
state of `ScriptLineProvider`, `line` and `pos` that of `ScriptCharProvider`, `acc`
the bytes that the loop at hand has gathered, `cmd` the command it is for, and `stage`
says which loop or handler that is. A step is one turn of a loop, or a handler that
has none; runs of digits, spaces, names and paths, which a loop takes without a
decision, are one step. Every early return is there, as `error`, and every `panic!`
or read past the end of a line, as `panic`. `cmds` holds the commands in the order of
the text, a `{` and a `}` as commands of their own, so that the recursion of
`compile_block_command` shows in `nesting` alone: the sequences that it makes are the
subject of `Linker`, whose items are these commands without their arguments. `opened`
is the list of the files that `w` has created, which happens while the script is read
and may fail.

A byte is a number, so that codes, escapes and UTF-8 are what they are in the code.
`Code` gives those of the characters. It is a constant whose value `CodeAssumption`
fixes, the table `Ascii` that the proofs look characters up in; `MCArguments` gives it in
a form that TLC evaluates faster, and TLC checks that it is the table.
The options that matter here are those of `Job`. `Escape` is `parse_char_escape`,
which gives the bytes an escape stands for, an error or a panic, together with the
place of the cursor (`Got`, `Bad`, `Panic`); each string, text and replacement says
what an escape that means nothing stands for. The state of the brace scanner is
replaced by where the content of the braces ends (`ContentEnd`), and `WellFormed` says
what it accepts. `Engine` is the choice made in `Regex::new`; a library may
refuse any expression it gets, which the model leaves open (`Refusable`), and has as
many groups as `Groups` counts.

Not in these modules: what the libraries match, captures and the application of a
replacement at run time, the tables of `y`, and messages.

What the code does and one would not expect, kept in the model as it is:

* A line that ends at the wrong place panics, a final state of the model like the others
  (nothing in the repository says what such a script should do instead): `1,` and `1~`,
  `s` or `y` alone, a `\c` at its end. So do `1,p`, which has no number, `\uD800`, which
  is no character, and `/\d092/p`, which leaves a lone backslash to search for.
* A `}` may not follow the flags of `s`, and may follow every other command.
* A newline in a replacement needs no backslash; it is dropped. The error for it
  (`compiler.rs:795`) cannot occur, since a line holds no newline.
* `\^` at the start and `\$` at the end of an expression without operators are
  anchors, because the backslashes are removed before the anchors are looked for
  (`fast_regex.rs:279`). With `-E` a `^` or `$` elsewhere is searched for literally.
* A backslash in a bracket expression is taken for an escape, so that `[\]` does not
  end, and a `[` there takes the next byte with it, so that `[[]` does not end. `[\1]`
  becomes `[(?:\1)]`.
* A `*` with nothing before it to repeat is literal in a basic expression and becomes an
  operator of the extended one.
* In a basic expression `^` is an anchor only as the first byte: in `a\|^b` and in
  `\(^a\)` it is literal.
* In a locale of bytes `NEEDS_RE` still reads UTF-8, and overlooks an operator behind
  a byte that is none.
* `~~` is accepted as `~`, `$~2` is accepted, a version that starts with a point too, and
  the text of `a\` at the end of a script is empty.
* With `--posix` a text line that ends with two backslashes is continued.

## Runs

| run | what it asks | bounds |
|---|---|---|
| `Stream.cfg` | all safety properties of the cycle; termination of loops; scripts whose `P` and `D` come in pairs, windows of `N` among them, print each line once | all scripts of up to two of 40 commands on three inputs (one file, three files with an empty one and no last newline, two files and an unreadable one) of three possible lines, and eight scripts with labels, branches and blocks on all inputs of three lines in one file or two; all of `-n`, `-s` |
| `Ranges.cfg` | the latch against the definition of a range | thirty ranges, five lines of four kinds, every subset of lines on which the command is met |
| `InPlace.cfg` | in-place editing under failures reported or not, `q` and kills, and that it refines `FileUpdate` | up to three arguments out of three names, of which one may be a file, a link, a directory or absent; one backup name taken |
| `Linker.cfg` | the graph of commands against the text of the script, refusal of malformed scripts, termination of the passes | all scripts of up to four items out of 14, of up to seven that open and close blocks, of up to five with a label and its branch or with ranges and `!}`; about 35000 scripts |
| `Text.cfg` | what is compiled against what the text says; where an expression ends; its translation and its matcher; types, and with them the cursor | see below; about 33000 scripts |
| `Output.cfg` | order and completeness of the output | two inputs of seven bytes with lines of one to five bytes, five calls; blocks of 2, direct writes from 2, ranges up to 3, a `BufWriter` of 3 bytes |

Two commands are enough for the interplay of any two, with a third party being the end
of the cycle or file; what takes more is among the eight longer scripts. Three files are
needed because `-s` acts differently on the first, the middle and the last. Five lines
are enough for a range to open, end, and open again with a line before and after, at
distances of up to three. The sizes of `Output.cfg` put a boundary of each kind next to
every byte: a range can be shorter than a direct write, just as long, longer than the
limit, aligned or not, and a text can fit the buffer or not; five calls fill every stage
and add one more. Seven items of block structure make three levels of blocks, with a
command before, in, and after each of the inner ones; four of all kinds put any error
next to any other.

The scripts of `Text.cfg` come in families, each with all texts of some bytes up to a
length in one place of a line: four characters of addresses before a `p`
(`AddressJobs`), three flags of `s` under three sets of options (`FlagJobs`), the text
of `a` and `e` over two lines and the end of the text on the second or behind it
(`TextJobs`), basic and extended expressions of four characters (`MeaningJobs`),
expressions of four or five with brackets, classes, escapes and delimiters in them, in
an address, in `s`, in the second `s` of a line, and with delimiters that are special
themselves (`PatternJobs`), and quantifiers with each of their parts as the delimiter
(`QuantifierJobs`). To these come a line of every
kind of command, argument, end and error (`CommandJobs`), texts and replacements that
go on or do not (`ContinuedJobs`), bytes that are no ASCII or no UTF-8 (`AccentJobs`)
and several scripts with and without lines and one that cannot be opened
(`ScriptJobs`), each under the options it depends on. The alphabets hold one member of
each class of bytes that the loop at hand tells apart. Four characters put any two
constructs of two next to each other; a bracket expression that opens, is negated, has
a leading `]`, a member and an end takes the five. `UsizeMax` and `DupMax` are 20 and 3,
so that two digits overflow.

`ReadsBack` compares whole commands with readings of the text: the ways to cut a line
into addresses (`AddressesAsRead`), the set of flags (`FlagsAsRead`), the text up to
its first unescaped newline (`TextAsRead`). `RegexEndsAtDelimiter` is checked of
`ReadSpec`, which is `Spec` with a history variable, `began`, for where the last
expression starts. It compares the end the parser found with `Modes`, which says of each
byte from there on whether it is outside, escaped or in a bracket expression, and leaves
out the expressions that the code reads in its own way (`NoReading`): the two forms of
brackets above, and a delimiter among the digits of a numeric escape.
`TranslationKeepsMeaning` leaves out those with a backslash in brackets
(`BackslashMember`) and those with a literal star (`LeadingStar`), and
`LiteralMeansPattern` the mistaken anchors above and bytes that are no UTF-8
(`AnchorMistaken`). The meaning of an expression is the sequence of its elements,
literal, class, operator, reference or bracket expression, not what it matches.

Fairness: only `Stream.cfg` and `Linker.cfg` assume any, `WF_vars(Next)`: the program
has one thread that waits for nobody, so it takes a step whenever one is possible.
Scripts that loop for ever exist, of course (`:a;ba`); the eight longer ones of
`Stream.cfg` do not, and the property is that branches on substitutions and the restart
by `D` come to an end. The passes of `Linker` end on every script.

### Differences between the code and what is said about it

Six runs are expected to find a violation. The property of each says what a
document or a comment of the repository says.

* `NextDelete.cfg`: `n` starts a new cycle instead of going on after itself.
* `RangesNumeric.cfg`: a range `/x/,+n` or `/x/,n` is closed on the line after its
  end, and that line cannot open it again.
* `ChangeRange.cfg`: `1,2c` writes its text at no line of the range.
* `CopyFails.cfg`: `OutputInOrder` with `Faults = {"fails"}`. The result of the copy
  of whole blocks is discarded (`fast_io.rs:1046`) and the blocks are lost silently.
  The other two faults break the same property by the same line and by the early
  `break` and the fallback of `reliable_copy_file_range`.
* `OwedNewline.cfg`: a file of `r` behind an unterminated line is not preceded by the
  newline that is owed, which stays owed after it.
* `EmptyBlock.cfg`: an empty block leads nowhere, so that `{};p` ends the cycle at
  the block.

More behaviours are modelled as they are coded and kept out of the properties that
they would break; the properties say so where it matters.

* With `-n -s` an unfinished `N` reaches into the next file (`FreshStreamUnlessQuiet`
  is about runs without `-n`).
* `last_address` and the saved expression outlive a file under `-s`, too. `c` reads the
  first (`processor.rs:711`) to know whether its range has ended: for
  `1,2c;/a/,/b/p` and two files that are alike it writes its text for the second
  one only, because the range of `p` ended in the first (`StartsAfresh` leaves both out).
* With `a;N` the text for the last line comes out before it (`OutputOrder` is about
  writes other than those of an `N` at the end of the input).
* The discarded error of `CopyFails.cfg` strikes in-place editing in the first place,
  where both files are regular: the flush succeeds, and a file with blocks missing is
  renamed over the original (`lost` in `InPlace`).
* A `!}` lowers the nesting and does not return, a literal star becomes an operator, and
  a `[` in brackets takes the next byte with it, as said above.

## Proofs

The theorems hold for every value of the constants that meets the named
assumptions: scripts whose links stay inside them, at least one input file, a last
line without newline that is not empty, backup names that are nobody's name, and
links that lead to no link.

* `ProcessorProofs`: `TypeCorrect`. `TypeOK` is strengthened by the types of `job`
  and by lengths (a space is never the empty sequence, so `Head` and `Tail` of `P`
  and `D` are defined); one step per action.
* `ProcessorSafety`:
  `LatchBehind` needs that a latch is only ever set to the current line number and
  that the number returns to zero together with the latches.
  `AppendsFlushed`: queued text exists only in `exec` (`QueuedInCycle`).
  `CountingCorrect`: what was consumed by earlier files is counted as long as the
  stream lasts (`LinesCounted`).
  `QuitCorrect`: once `stop` is set `pc` is `exec` with `cur = 0`, `close` or `done`
  (`Stopping`).
  `SeparateFiles`: under `-s` and without `-n` no `N` is in progress outside
  `exec` and `read` (`Separated`). It is about the state that begins anew, `StartsAfresh`:
  hold space, latches, line number, queued text, `N`. `lastAddress` and `savedRe` are not
  of it, since the code carries both over.
  `NothingLost`: the lines printed and those in the pattern space or in an `N` in
  progress make up the lines read at every step (`LinesCarried`).
  `WindowsPrintInput` is about scripts that do change it: where each `P` is followed by
  `D`, and nothing else writes or changes the pattern space (`Paired`), as in
  `$!N;P;D`, each line is printed once, by `P`, at the end of a cycle or by the `N` that
  finds no line, whatever the blocks, branches and addresses of the other commands. The
  invariant (`PairsCarried`) is that what was printed and what is `Unprinted` make up
  what was read, where the first line of the pattern space counts as printed between
  a `P` and its `D`. It needs that a line that
  `D` leaves or `N` adds to is never the empty remainder that `P` would not print
  (`LineEnded`), and that a resumed `N` never enters at a `D` (`Entry`). With `-n` a
  cycle prints nothing at its end, so that the script must have no end but its `D`s
  (`OnlyDEnds`), and the lines of an `N` that finds none are not printed (`Withheld`).
  `OutputOrdered` needs that no write is ahead of the lines read, and that while a
  script is executed only what its commands write at once has been written since
  the last line was read (`Ordered`).
  `LastAddressCorrect`, an action property: in `exec` an event of a command comes from
  an execution to which its addresses apply, or from the end of the cycle, whose
  events have other reasons.
* `InPlaceProofs`: `NeverPartial` needs that the temporary file is whole from the
  flush on (`FlushedFirst`). It says that a name never shows the output of a cycle that was
  cut short or of buffers that were not flushed; blocks lost by the discarded error are
  not its matter. `NothingLost` compares what is shown with the start: its invariant
  (`KeptOK`) is that only names that showed a file at the start, or led to one, change
  (`FilesChange`), that what is read for the target in work derives from the original
  that target had (`SourceDerived`), and `ContentsKept` itself. `AlwaysThere` and
  `PromiseKept` need that an absent target has its contents under the backup name until
  they are replaced, and that this happens only with a suffix (`SourceKept`).
  `PromiseKept` maps `SaveBackup` and `Persist` to steps of `FileUpdate`, all others to
  stutters. The results that `FileUpdate` installs are whole, but may be `lost`.
  `BackupCorrect`, `LinksKept` and `LaterFilesKept` have one invariant (`ChangesOK`): a
  name that differs from the start was edited by an argument that leads to it, before
  the current one unless the program is done, or it is the target in work, moved to its
  backup; and what a name held before its first edit is what the backup is made of.
  `LaterFilesKept` holds in every state, the final ones after `q`, errors and kills
  included.
* `FastIOProofs`: `WritesInOrder`, `FileComplete`, `FileInOrder` and `WaitingShort`
  under `Faults = {}`, that is as long as `copy_file_range` copies what it is asked to,
  and without which they do not hold (`CopyFails.cfg`), and `BufferTyped` for any
  `Faults`. `WriteFails` is part of all of them. Every operator is shown to keep `Out`,
  the bytes in the file, the buffer and the range in this order, or to add to it what it
  was given (`AlignedCopyExact`, `FlushMmapExact`, `SettleExact`, `AddMappedExact`,
  `AddOwnedExact`, `FlushedExact`), on buffers that are `Sound`. The invariant says that
  `Out` is `promised` until a write fails, and that the file holds a beginning of it
  after that. The arguments are equalities of sequences: spans that join (`SpanJoin`)
  and associativity (`Regroup`). `BufferTyped` needs that a copy, whatever it wrote,
  reports no more bytes than the range had (`AlignedCopyReports`), so that the range
  keeps its end and its start stays before it (`FlushMmapShaped`). `WaitingShort` needs
  that the line in the pattern space is one line of the input (`ShortInv`) and that an
  aligned copy leaves less than a block (`CopyLeavesLittle`).
* `LinkerProofs`: `TypeCorrect`, `NothingCutOff` and `BranchesCorrect`. The invariant
  says that the items compiled so far bound the nesting (`NestingCounted`), that the
  command a sequence was called for is a block (`BlocksOpen`), that the label map
  holds commands that define their label (`LabelsFound`) and that only resolved
  branches have a target, the one of the map (`BranchesMapped`). It is needed because
  the passes overwrite the commands: each step is shown to keep code, label and
  position of every command (`Keeps`), one lemma for each action. `NothingCutOff`
  carries over to every nesting what the runs show for small ones: nesting is less
  than the depth of the recursion as long as there are items to compile.
  `TypeCorrect` is what `ScriptsAssumption` of `Processor` takes for granted, links
  that stay inside the script.
  The other four theorems, `LatchesCollected`, `BranchesFollow`, `MalformedRefused` and
  `LinksFollow`, say what the finished script means, and the code has no single
  place that makes it so: what comes behind a block depends on the blocks that are still
  open, `compile_sequence` chains each command behind the last one of its level, and
  the passes write over the links they walk along. Their invariant (`Links`) is that
  there is a tree of commands, `par` the block a command is in and `end` the place
  behind the command and its body, that gives the links their meaning (`Meaning`):
  each `next` and `goto` is the one of the tree, or of its patched form for the bodies
  the last pass has been through (`LinksAre`, `Patched`); the frames of
  `compile_sequence` are the blocks that are open (`FramesFit`); a pass visits each
  command once, in the order of the script, and comes back from a body to where it
  went in (`WalkFits`, `Visited`); what the passes have collected belongs to the commands
  visited (`Progress`); and the tree is the one of the text (`TextFits`). The tree is no
  variable of the model: a step that adds a command or ends a block is shown to have a
  new one. That `patch_block_endings` finds the last command of a body needs `Induction`
  (`TailExists`, `TailOfBody`). For `MalformedRefused` there is one lemma for each error
  (`ScriptErrorRefuses`, `DuplicateRefuses`, `UndefinedRefuses`, `UnmatchedRefuses`) and
  one for the end without any (`DoneWellFormed`).
* `NatInduction`: `Least`, `Induction` and `Recursion`. The library's induction theorems
  take a predicate, which the provers cannot instantiate; these take a set, and follow
  from the well-foundedness of the finite sets of natural numbers. `Recursion` is that a
  function given by its first value and the step to the next one exists, which a
  definition like that of `Modes` or `PrintedIn` needs before its equation may be used.
* `RangesProofs`: `TypeCorrect`, with `startLine <= line` (`RangeTyped`), and from it
  `OpenerKnown` and `InsideRange`. `RangesExact` compares the latch with `RangeOf`, a
  recursive function of the lines: `RangesExist` shows by `Induction` that there is a
  function with its equation, so that the equation may be used. Ranges that a regular
  expression opens and a number ends are left out, since the code errs there
  (`RangesNumeric.cfg`). The invariant (`Follows`) says that the latch is `RangeOf` of
  the current line, except that a range that ended may still be latched where nothing
  opens another one; a test of the command is compared with one step of `RangeOf` inside
  a range (`TestInside`) and outside (`TestOutside`).
* `ArgumentsProofs`: `CursorKept` and `StringsClosed`, for every script. The invariant
  (`CursorInv`) is the two together with the types of the scripts and of the line:
  `compile_regex`, `compile_replacement` and the handler of `y` go on behind the byte a
  string ended at, so that they stay in the line only because a string ends at its
  delimiter. For each piece of text there is a lemma that says where it ends
  (`EscapeAt`, `QuantifierAt`, `BracketOpeningAt`, ...); a step either moves the cursor
  to such a place (`Moves`) or takes a line of the scripts (`LineTyped`). `TypeCorrect`
  adds what the other variables hold (`TypeInv`): each escape gives bytes, a character
  its UTF-8, of which none is larger than a byte, numbers of digits are numbers, and
  what is gathered of a string, text or replacement is bytes and references. That
  `nesting` never gets below 0 is a guard of the code; that the name of a file of `w` is
  bytes needs `ReadyAtDelimiter` and the path to be a part of a line. `RegexEndsRight`
  is `RegexEndsAtDelimiter` for every script, and like it says nothing of an expression
  with a backslash or a lone `[` in its brackets or with a delimiter among the digits of
  an escape (`NoReading`). Its invariant (`ReadInv`) ties each state of the parser to
  the modes of the bytes it has passed (`RegexRead`): unless one of them has no reading,
  no delimiter that was passed is outside (`Unclosed`), the loop of expressions stands
  at a byte that is outside, and that of bracket expressions at one inside. What the
  parser takes in one go (the start of a bracket expression, the name of a class, an
  escape with its digits, a quantifier) is shown to be as long as the modes have it.

Only model-checked:

* `LoopsEnd` and `Terminates`, which are liveness under fairness.
* `ReadsBack`, which says of three families of scripts what a text means, and is only
  about them.
* `TranslationKeepsMeaning` and `LiteralMeansPattern`, which compare two recursive
  functions of a whole expression, one of its bytes and one of its tokens. Neither is a
  property of the steps of the compiler, whose invariants would carry it: they are facts
  about data, to be proved by induction over expressions, which is out of reach
  for translations that look ahead and behind.

## Plan

Done, in the order of their weight for the program: `Addressing`, `Processor`,
`Ranges`, `InPlace` with `FileUpdate`, `FastIO`, `Linker`, `Arguments` with the modules
below it, their runs and the proofs above. What is left:

1. `NamedWriters`: the table of writers, the same file named twice, the final flush,
   composed with `Processor`.
2. Replacement at run time (`ReplacementTemplate`, `substitute`) and the tables of `y`.
3. Reading: UTF-8 checks and standard input of `IOChunk` and `LineReader`.

Not modelled: the matching of regular expressions by the two libraries (external
crates), option parsing and messages, durability after a power failure, and
interference with files by other processes.
