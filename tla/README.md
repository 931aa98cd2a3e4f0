# tinies in TLA+

tinies is a collection of small, mostly unrelated C and C++ programs.  Most of
them are a straight line of library calls; a handful do things that are hard to
get right: they share files without a server, keep a child and a pipe in step,
give up privileges in an order the kernel accepts, or look at a world that
changes while they look.  This directory models those, checks them with TLC, and
proves every safety property that it checks with TLAPS, for any number of processes,
files, commands, keys and failing calls.

    tlc -workers 2 -config CatFight.cfg MCCatFight      # a run
    tlapm CatFightProofs.tla                            # proofs: *Proofs.tla

`PROJECT.json` names, for every definition, the lines of `src/` it stands for.

## 1. Inventory

| component | state it keeps | operations | what is hard | what makes it correct |
|---|---|---|---|---|
| catfight, archiving (`catfight.c`) | block files, their locks, the link `<root>.hint`, the position printed | read the hint, lock a file or pass it over, append a record, print its position, move the hint | any number of invocations at once, each may die between any two system calls | no two records overlap; a printed position gives its record back for ever; the hint hides no room |
| copy engine (`copy.h`) | offset of the source, bytes written, stdio's buffer | `copy_file_range`, `sendfile`, stdio, each tried if the kernel does not know the one before | partial transfers, a change of way, a source that shrinks | bytes arrive once and in order; 0 means all of them |
| catfight -u (`catfight.c`) | a record's header, exit status | find a record, skip its extra data, copy the rest | a record whose writer died, with the next one appended inside its claimed length | from a record that is whole only the archived bytes come out; status 0 means all of the length asked for |
| sponger (`sponger.c`) | temporary file, output file, pipe, child | run a program, rename its output into place if it succeeds | parent and child, signals, programs that leave processes behind, two invocations on one file | the output changes in one step and only to whole outputs; failures are told; it ends |
| xlines (`xlines.c`) | fifos, stdio buffers, children | deal the lines of stdin to copies of a command | blocking opens, opens that fail unchecked on either side, full pipes, commands that quit early | each copy gets its lines whole and in order; nothing is lost unnoticed; everybody ends |
| safe-read (`safe-read.c`, `cap-helper.h`) | capability sets, mount namespace, a new root directory | build the root directory, give up capabilities, run a command in it | every call may fail, capabilities must be raised and dropped in the kernel's order | the host is untouched; the command can read and no more; it gets what it needs |
| grant-read (`grant-read.c`) | capability sets | the end of safe-read without the directory | as above | as above |
| dropped shell (`dropped-shell`, `drop-all-caps.c`, `have-dropped-all-caps.c`, `drop-privs-harder.c`, `all-caps.h`) | securebits, bounding set, `no_new_privs`, seccomp filter of a login | drop all of them, unless that has been done | a chain of programs, each of which may fail; shells in shells | a shell over ssh has no privileges and never gets one back; a shell is always had |
| bmount (`bmount.c`) | mounts below `~/.bmounts` | check a request, bind, unmount | checks by path, then one call by path, while the user works, changes rights and changes them back | who owns no directory above `src` gets bound what was checked; nothing outside `~/.bmounts` is touched |
| powerstatustray (`powerstatustray.cpp`) | the statuses found last, message queue, balloon | ask the drives in turn, tell changes, answer clicks | drives change during a look, clicks and timer share a queue | news is true, told once, and catches up |
| quickkey, topkey, shiftfocus | hot keys, a message queue, windows remembered | register hot keys, handle one message after the other | two instances register at once, windows change between a press and its handling | a program runs once; a press does what the user saw; it is answered |
| keydump, keytoputty | a device's buffer, an event | wait for the event, take what there is | strokes while the last ones are read, an event shared by name | every stroke arrives once and in order |
| mousex (`mousex.cpp`) | the buttons at the last look | look every 10 ms, tell Windows the difference | a controller that goes away, a refused call | the mouse has the buttons that are held |
| leapcmd (`leapcmd.cpp`) | how far each circle has been told | print a line for each turn | frames are missed, circles overlap | no turn is told twice or early |
| foobar2000-loader (`foobar2000-loader.cpp`) | debug events, memory and a thread in another process | debug a program, have it load a library | the loop polls the thread only after an event | memory outlives its reader; every event is continued |
| mkchroot, safenod, seccomp tools, btrfs_puncher, leapimages, one-shot Windows tools, experiments | none | straight lines of calls | nothing interleaves | not modelled, see section 7 |

The programs do not talk to each other.  What they share is code: catfight and
safe-read copy with `copy.h`, safe-read changes its capabilities with `cap-helper.h`
(grant-read has a copy of it), drop-all-caps and have-dropped-all-caps count
capabilities with `all-caps.h`.  Invocations of the same program meet in the file system: catfight's
in the archive, sponger's at the output file; quickkey, topkey and shiftfocus meet
each other, too, at the hot keys and the window in front; keytoputtys at an event.

## 2. Modules

| module | models | extends / instantiates |
|---|---|---|
| `ArchiveStore` | abstract: a store in which positions are published once and never change | |
| `CatFight` | `main` of catfight in archive mode, `read_hint`, `write_hint`, `write_fully` | instantiates `ArchiveStore` |
| `CatFightProofs` | the theorems about it | `CatFight`, `TLAPS` |
| `CopyFile` | `copy_file` and its three ways of copying | |
| `Unarchive` | the two callers of `copy_file` in catfight | extends `CopyFile` |
| `AtomicFile` | abstract: a file that is replaced in one step by whole outputs | |
| `Sponger` | parent and child of sponger, the program it runs, the pipe | instantiates `AtomicFile` |
| `XLines` | parent and children of xlines, fifos and buffers | |
| `Capabilities` | `change_cap_state` and the kernel's rules for capability sets | |
| `SafeRead` | `main` and `create_callback` of safe-read | extends `Capabilities` |
| `GrantRead` | grant-read, and a user who starts one or the other (`ReadersSpec`) | extends `SafeRead` |
| `Bmount` | bmount | extends `Capabilities` |
| `DroppedShell` | the login's chain of programs | |
| `HotKeys` | what the three programs with hot keys share: registering, the message loop, the user | |
| `QuickKey`, `TopKey`, `ShiftFocus` | the handlers of each | extend `HotKeys` |
| `HotKeyTools` | all three on one desktop | extends the three |
| `PowerStatusTray` | the message loop and the looks at the drives | |
| `KeyDumpers` | keydump, keytoputty and their devices | |
| `Mousex`, `LeapCmd`, `FoobarLoader` | the program of that name | |
| `SpongerProofs`, `XLinesProofs`, `UnarchiveProofs`, `DroppedShellProofs`, `BmountProofs` | the theorems, section 5 | the module, `TLAPS` |
| `SafeReadProofs` | those about safe-read and grant-read | `GrantRead`, `TLAPS` |
| `DesktopProofs` | those about the tools for the desktop | `HotKeyTools`, `PowerStatusTray`, `KeyDumpers`, `Mousex`, `LeapCmd`, `FoobarLoader`, `TLAPS` |
| `MCCatFight`, `MCUnarchive`, `MCSponger`, `MCSafeRead`, `MCBmount`, `MCDesktop` | the small instances TLC checks | |

### CatFight

A process is one invocation.  Its program counter names the next system call of
`main`, its locals (`hint`, `target_num`, `skipped`, `seek`) are variables of the
same name, and the world is `size` and `lock` of every block file and `hint_link`.
Each action is one system call with the code around it up to the next one:
`ReadHint`, `InitHint` and `IgnoreHint` are `read_hint`; `Flock`, `WouldBlock` and
`FlockFails` the three outcomes of line 242; `FoundEmpty`, `FoundFull` and
`FoundRoom` those of 252-271; `WriteMagic`, `WriteFileId`, `WriteHeader` and
`CopySource` write, `Close` gives the lock back, `PrintPosition` and `UpdateHint`
end it.  `Die` is a signal or a failing `check()` at any point: the kernel gives the
lock back, what was written stays.

Bytes are not stored.  Process p has written the first `written[p]` bytes of its
record from `seek[p]` of file `target_num[p]`, so that "who wrote the byte at x"
(`WritersOf`) and "whose record does position x give back" (`RecordsAt`, which goes
the way of `unarchive` through `FileOf` and `OffsetOf`) are operators.
`garbled` are the invocations whose header a short `write()` has damaged, which takes data
in which the repeated bytes show (`RepeatDamages`): the eight zero bytes of an empty
`extra_len` do not.
A position is taken for printed when `main` prints it; stdio may hold it until the
process exits, which only delays it.

### CopyFile and Unarchive

A byte is its offset in the source, so that what has arrived is a sequence of
offsets.  `Transfer` is one call of `copy_file_range` or `sendfile`, with any
number of bytes; it returns 0 only at the end of the source.  `TryAnother` is
`COPY_FILE_TRY_ANOTHER`.  `Unarchive` calls it from both places in catfight:
`operation` says from which, `Accepted` how each judges the result (0 in `main`,
anything but -1 in `unarchive`).  A record may end early (`own` is how much of it its
writer has written), and what is there to read may reach beyond that, since the next
catfight appends its record at the next multiple of 16 (`NextRecord`), within the length
that the cut one claims.  `Foreign` are the bytes that were not written with the record.

### Sponger

`pc` is the parent, `child` the child up to and after `execvp`, `wstatus` how it
ended.  `Write`, `ProgramExit`, `DaemonWrites` and `DaemonEnds` are the program,
which may end with any status, sponger's own 241 and 242 included, and may leave
a process behind that has the temporary file and the pipe open.  `ParentKilled`
and `ChildKilled` are signals.  `File` maps this to `AtomicFile`: the content of the
output file is the old one, or whose output it is and how much.

### XLines

`t` is the loop variable that most loops use in turn, `buffer` what the parent's
FILEs hold, `fifo` what is in the pipes, `got` what the commands have read.  Bytes
are numbered; `newline` is any set of them.  `open(2)` of a fifo waits for the other
side: `ReaderWaits` for the child; the parent's begins with `FopenFifo`, and `Fopen` is its
return.  Neither side checks its open.  A child whose `freopen` fails (`FreopenFails`) goes
on to `Unlink` and `Exec` without a stdin: if the parent comes to the name afterwards, it
makes a regular file (`FopenFile`) and writes lines to it that nobody reads.  A parent
whose `fopen` fails (`FopenFails`) keeps a NULL, and crashes at the first `fputc` or
`fclose` of it (`NullStream`).  `Sigpipe` ends the parent when nobody reads.  A command may
quit early, and a child may be killed in its `open`.  `KeptWaiting` is the parent in an
`open` that nobody will answer, `Stuck` a child in one.

### Capabilities, SafeRead, GrantRead, Bmount, DroppedShell

`Call(permitted, done, failed)` is a system call: done if the kernel's rules
permit it, failed if they do not, and failed "of itself" at most `MaxFaults` times
in a run.  `change_cap_state` builds on it, with the case that `cap_free` fails after
the change was made.  SafeRead's actions are the calls of `main` in their order; a
path is a sequence of slashes and names, a file is known by its names and the file
system it is on (`Where`), and mounts belong to a namespace.  GrantRead is the end of
safe-read as a program of its own, with fewer calls in another order, so that both
are held to the same properties.  In Bmount the checks
are actions of their own, between which the user may do what his rights allow: change
`dest` in any way; give himself the right to enter or write to what he owns, or take it
away (`UserChmods`); and put something else in the place of `src` or of a directory above
it, where he may write to the directory it is in, or owns that and so can make himself
able to (`UserReplacesSrc`).  `owned`, `touched` and `exchanged` are history variables: what
was his at the start, what of the two paths he has changed, and whether anything else has
taken the place of `src`.  In DroppedShell one process stands for any
descendant of the login, since credentials are inherited.

### HotKeys, QuickKey, TopKey, ShiftFocus

An instance runs one of the programs.  `owner` says whose each hot key is, `queue` what
waits in the message queue of an instance's window, `foreground` and `windows` what the
user sees.  `RegisterHotKey` takes one key at a time, in the order of the code, so
that instances interleave; `MessageBox` is the refusal, during which the keys
registered so far stay registered.  A message stays at the head of its queue while it
is handled.  What was in front when the key was pressed is kept with the message
for the properties; the programs look again when they handle it.  quickkey's `keymap`
is indexed by the number of the hot key as in the code; topkey's `clean` gets the text of
`WindowTells` and cuts it back to a directory one turn of its loop at a time (`Trim`,
until `Cleaned`); shiftfocus goes on ten pixels at a time along `Beyond`,
the points that lie in each direction from each window, while windows close.

### PowerStatusTray, KeyDumpers, Mousex, LeapCmd, FoobarLoader

- PowerStatusTray: `GetDevicePowerState` asks one drive; `DriveChanges` may happen between
  two.  `lately` and `before` are history variables, used only to state what is news.
- KeyDumpers: `KeyboardDoes` puts a stroke into every device that has room and signals
  its event; several strokes make one signal.  `Report` is one turn of the loop over what
  `GetDeviceData` has returned, `Reported` its end.  `output` is what was printed, or handed to
  `PostMessage`.  keytoputty's event has a name, so that all instances wait for the same one
  and one takes the signal of another.
- Mousex: `Timer` is one `WM_TIMER`: a look, the differences, `SendInput`, and what is kept.
- LeapCmd: a frame is the state and the progress of each circle; `NewFrame` may come any
  number of times between two calls of `onFrame`, which then sees the newest.
- FoobarLoader: an event stops the debuggee until it is continued.  The loader polls the
  thread that loads the library only after an event, or a wait for one that has failed
  (`WaitForDebugEventFails`), so that thread, program and loader interleave in every way
  the debugging interface allows.

## 3. Runs

State counts are distinct states; all runs explore their whole state space.

| run | instance | shows |
|---|---|---|
| `catfight` (171 K) | 3 invocations, 3 files of 40 bytes, records of 16 to 34 bytes | `TypeOK`, `LocksAreHeld`, `NoOverlap`, `PrintedReadsBack`, `SuccessIsPrinted`; `ImplementsStore`: it refines `ArchiveStore` |
| `catfight_faults` (1.2 M) | 3 invocations, 2 files that one record fills, locks that fail, short writes | `HintIsSound` even so; `NeverWaits`: p1 ends though the others may stop for ever |
| `catfight_short_write` | as `catfight` with short writes | finding, section 6 |
| `unarchive` (15 K) | files of 0 to 4 bytes, chunks of 2, 0 to 3 bytes of extra data, cut records with and without the next one behind them, shrinking sources, any call failing | `ArrivesInOrder`, `ZeroMeansWhole`, `UEnds` |
| `copy_file_short` | 5 bytes, a source that shrinks | finding, section 6 |
| `sponger` (68 K) | 2 invocations with one output, programs that write 2 units, one failing call, signals | `ReplacesAtomically` (refines `AtomicFile`), `StatusTells`, `EndsAfterProgram` |
| `xlines` (64 K) | 2 commands, every set of newlines in 5 bytes, buffers of 2, pipes of 1, quitting commands, killed children, failing forks, freopens and fopens | `LinesAreDealt`, `NothingIsLost`, `EverybodyEnds` |
| `safe_read` (60 K) | safe-read: 7 paths, 5 templates, every grant with at most one capability missing, with and without security; grant-read: every grant; one failing call | `HostUntouched`, `OnlyReadingLeft`, `TemplateReadAsUser`, `CommandFindsEverything`, `CommandStarts` |
| `safe_read_root` | `--reading /` | finding, section 6 |
| `dropped_shell` (193) | 4 capabilities, 2 failing calls, root or not, ssh or not | `ShellIsDropped`, `ShellStarts` |
| `bmount` (160 K) | anything at `src` (2 levels, each his own or not) with a good `dest`, and anything at `dest` with a good `src`; one failing call; a user who changes one of the two as often as he likes | `BindsWhatWasChecked`, `StaysInMounts`, `GoodRequestSucceeds` |
| `desktop` (291 K) | the six kinds of desktop tool, one kind in each behaviour | hot keys: `OneInstance`, `LoserHoldsNothing`, `TerminalOpensInDirectory`, `ComesBack`, `PressesAreAnswered`; tray: `NewsIsTrue`, `SettledIsKnown`; dumpers: `KeysInOrder`, `KeysArrive`; `ButtonsFollow` (mousex), `TurnsAreTold` (leapcmd), `NameOutlivesThread`, `EventsAreContinued` (foobar2000-loader) |

`desktop` puts tools side by side that have nothing to do with each other: `tool` chooses
one kind, and the variables of the others keep one initial value, so that the
states are those of the tools added up, not multiplied.

Why the bounds are enough:

- catfight: two invocations are needed for any conflict and a third to meet what
  two leave behind (a skipped file, a half record, a stale hint).  A block of 40
  bytes takes one or two records, so that files get full at different times;
  16 and 34 bytes are a record that ends at a multiple of 16 and one that does not
  and has extra data.  Three files are one per invocation and as many as the search
  can need, which is also why `SuccessIsPrinted` holds: `MaxTarget` stands for
  `UINT64_MAX`.  In `catfight_faults` there are fewer files than invocations.
- copy: two chunks and a rest, a change of way before and a failure after each.  A record
  is cut between the words of its header, behind it, or in any byte that follows; with 16
  bytes or less of it there, the next record begins inside its claimed length.
- sponger: two invocations race for the name; a program's output of two has a
  state that is neither empty nor whole.  `MaxFaults` counts calls that fail of
  themselves; signals and failing `execvp`s are not counted.
- xlines: two children are the fewest among which lines can be misdealt; a fifo of
  one byte and a FILE of two are both filled several times over.
- safe-read: paths with a trailing and a doubled slash, one name and two, under
  `/dev`, and the forms refused; templates with directories, files, links,
  what cannot be read, and what collides with the devices or with `src`.
- dropped shell: the first, an inner and the last capability, and `CAP_SETPCAP` among them.
- bmount: two directories above the root are the fewest for a loop over parents to stop
  early.  `MaxTouched = 1` lets the user change `src` or `dest`, any number of times: the
  checks of one never look at the other, and the properties of each do not depend on the
  other.  With 2 the state space is 1.3 M, and they hold as well.
- hot keys: two instances of one program race for the keys, in the `Taken` case with a
  third program that has the last one; two windows are one to remember and one to
  be in front instead; two presses are a message that waits behind another.  Two
  digits stand for quickkey's ten.  Texts are all those of up to three characters and six
  of four and five: both separators in both orders, and lengths below, at and above
  `MAX_PATH`, which is 4.
- powerstatustray: two drives so that a picture can be one that never was.
- key dumpers: two keytoputtys for the shared event, three strokes for a buffer of two.
- mousex: three changes are a press, a release and a controller that is unplugged between.
- leapcmd: two circles of two turns and a quarter overlap, and a turn can be missed.
- foobar2000-loader: more debug events and failing waits than the loader makes steps with
  the thread.

`MaxLen`, `MaxTarget`, `MaxFaults`, `MaxTouched`, the `Max...` of the desktop tools and the
`MC...` sets are the only bounds; each is a guard or an input set, none a state constraint.

### Fairness

- `MCCatFight!FairSpec`: only p1 gets weak fairness, of its own next step.  Others may
  stop anywhere and keep their locks.  The code never blocks on a lock (`LOCK_NB`).
- `Unarchive`: weak fairness of the program's next step, other than one in which a call
  fails: no failure has to come to the rescue of a loop.
- `Sponger!FairSpec`: of the parent's step and of the child's, for each invocation.
  The program is assumed to end after its writes; what it leaves behind need not,
  and no signal has to come.
- `XLines!FairSpec`: of the parent's step and of each child's.  A command reads its
  input to the end or quits; neither quitting nor being killed nor a failing `freopen` is part
  of the fairness, so that the ending of everybody rests on end-of-file reaching every
  command.
- `ReadersSpec`: of the next call of safe-read and of grant-read; `Bmount`, `DroppedShell`: of
  the program's next call.  The user's steps are free.
- `MCDesktop`: `First`, `Second` and `Third` put the fairness of each tool's own specification
  side by side; since one tool runs in a behaviour, fairness to the disjunction is
  fairness to that tool's disjunct.  These are: each instance's own step; the tray's step and
  its timer, which `SetTimer` makes periodic; each dumper's step; mousex's step and its
  timer; the loader's step, other than a wait that fails, and that of the program it debugs,
  which goes on when its events are continued.  The user, other windows, drives and controllers need do
  nothing, a message box need not be dismissed, and a window that hangs may hang for ever.

All of these are ordinary scheduling: a process that can run does in the end.
Weak fairness is enough, since no step of one process disables another for good.

Deadlock is checked in every run but `desktop`: the ends of the programs are explicit
stuttering steps (`AllEnded`, `Exited`, `Ended`, `Returned`), so that any other standstill is
an error.  The desktop tools really stop: they wait for messages that need not come,
and what they must not wait for is stated as `PressesAreAnswered`, `KeysArrive` and
`EventsAreContinued`.

## 4. Abstract specifications

`ArchiveStore` is what somebody who scripts catfight relies on: a map from positions
to records to which invocations add, each once, at a free position.  `CatFight`
implements it under `store <- [pos printed |-> RecordsAt(pos)]`: the step that
prints is the step that publishes, every other step, death included, leaves the
map alone.  `AtomicFile` is the same for sponger: the file changes in one step from
one whole output to another.  What the program left behind in the background may
still append to its own output (`Append`): the code renames the file away under it.

## 5. Proofs

| module | theorem | states | assumes, besides the module's ASSUME |
|---|---|---|---|
| `CatFightProofs` | `TypeCorrect` | `[]TypeOK` | |
| | `HintSafe` | `[]HintIsSound` | nothing: failing locks and short writes allowed |
| | `LocksSafe` | `[]LocksAreHeld` | `~FlockMayFail` |
| | `RecordsSafe` | `[]NoOverlap` | `~FlockMayFail` |
| | `PositionsSafe` | `[]PrintedReadsBack` | `~FlockMayFail`, `~WriteMayBeShort` |
| | `StoreImplemented` | `ImplementsStore` | `~FlockMayFail`, `~WriteMayBeShort` |
| | `SuccessSafe` | `[]SuccessIsPrinted` | at most as many invocations as files (2^64) |
| `SpongerProofs` | `StatusSafe` | `[]StatusTells` | |
| | `ReplacementSafe` | `ReplacesAtomically` | |
| `XLinesProofs` | `DealSafe` | `[]LinesAreDealt` | |
| | `NothingLost` | `[]NothingIsLost` | |
| `UnarchiveProofs` | `OrderSafe` | `[]ArrivesInOrder` | |
| | `ZeroSafe` | `[]ZeroMeansWhole` | |
| `SafeReadProofs` | `ReadersSafe` | `[]OnlyReadingLeft` | |
| | `HostSafe` | `[]HostUntouched` | |
| | `TemplateSafe` | `[]TemplateReadAsUser` | |
| | `CommandServed` | `[]CommandFindsEverything` | |
| | `AssertFailsForRootOnly` | `[](Len(job.src) > 1 => AssertHolds)` | |
| `DroppedShellProofs` | `NothingComesBack` | `[]ShellIsDropped` | |
| `BmountProofs` | `BindSafe` | `[]BindsWhatWasChecked` | |
| | `PlacesSafe` | `[]StaysInMounts` | |
| `DesktopProofs` | `NeverTwice` | `[]OneInstance` | |
| | `LoserSafe` | `[]LoserHoldsNothing` | |
| | `WindowComesBack` | `ComesBack` | quickkey is among the programs, with its own table of keys |
| | `TerminalSafe` | `[]TerminalOpensInDirectory` | |
| | `NewsSafe` | `NewsIsTrue` | |
| | `KeysSafe` | `[]KeysInOrder` | |
| | `TurnsTold` | `[]TurnsAreTold` | |
| | `NameSafe` | `[]NameOutlivesThread` | |

Each holds for every value of the constants that the module's ASSUME admits.  These are
types, and: `BlockSize > 16`, which `-b` demands (catfight.c:173); safe-read and grant-read
are granted only capabilities they use, as whoever installs them is to see to; the hot keys
of one program are distinct and no other of the programs has them, as the code's tables
show; a directory has a name shorter than `MAX_PATH`, since Windows opens no other.  In
particular there may be any number of processes, instances, windows and
failing calls, and paths, templates and directories of any length.  Every run that
TLC makes evaluates these assumptions for its instance.

None of these invariants is inductive by itself.  The layers that strengthen them, one
lemma each:

CatFight:

- `TargetExists` is added to `TypeOK`: past the loop's condition `target_num` is a file
  (`TypeStep`).
- `HintIsSound` needs to know why a hint may be written: whoever has met no lock has
  seen every file below `target_num` full, and so had the writer of the hint it
  started from (`PassedAreFull`, `PassedStep`).  It rests on files never getting
  shorter (`FilesGrow`, `FullStays`), and on nothing about locks.
- `LocksAreHeld` says that exactly those at work on a file have its lock
  (`LocksStep`); it follows that there is one at most (`OneWriter`).
- `NoOverlap` needs `RecordsArePlaced`: records lie inside their file, and the one who
  is appending does so behind all others.  That relates the place it chose to a
  length it read some steps ago, and is where the lock is used (`PutStep`,
  `PlacedStep`).
- `PrintedReadsBack` needs `PrintedIsWritten`: what is printed is the place of a
  complete record that starts inside its block, so that the division in `unarchive`
  finds the file again (`PrintedStep`, `PositionFacts`, `ReadBack`).
- `ImplementsStore` is then a step simulation: of all steps only `PrintPosition` changes
  the map, at a position that is free because records do not overlap, and no later
  step changes what an old position gives back (`StoreImplemented`).
- `SuccessIsPrinted` fails only if `main` passes over all files, so `SearchInv` finds somebody
  for each file passed: who holds its lock, or has a record in it that left no room.
  Nobody stands for two files, as each appends to one, and nobody for himself: with no
  more invocations than files the search ends at one (`SuccessSafe`, by cardinality).

Sponger: `SpongerInv` ties the parent's place to the child's (`ParentAndChild`), the child's
status to what it has written (`ChildEnded`), the branch the parent is in to that status
(`Decided`) and its own exit status to that branch (`StatusOf`).  A step of one invocation
leaves the others' part alone (`OthersKept`), except that a rename may displace their
output.  The refinement follows from one conjunct: what is renamed is a whole output.

Unarchive: what is in the destination and in stdio's buffer, one behind the other, is the
source from its first offset on (`InOrder`), however `fwrite` cuts it; and during the call
`remaining` is what is left of it (`CopySoFar`).  "In order" says what each position holds, so
that nothing has to be proved by induction over the sequence.  Whose these bytes are follows from
where they end: a record that is whole ends where its header says.

XLines: the bytes dealt to a child are what it has read, its fifo and its buffer, one
behind the other; `DealStep` is the one step at which that grows, by the byte whose turn
it is (`TurnIsRight`, which needs `ModSuccessor`, as the turn is counted up and wrapped and
the line number divided).  The other steps move a byte from one to the next
(`SameDealt`); a file in the place of a fifo counts as one that nobody takes from.
`NothingIsLost` adds that a FILE that was closed has nothing left in its buffer
(`ClosedIsWritten`), that behind the loop of the `fclose`s all have been closed and none was
NULL (`WritersSoFar`), and that a name is left in the directory exactly for a child that has
not opened its fifo (`LitterTells`): a child opens it only together with the parent, and a
parent whose open succeeded without its child has made a file (`OpenedTogether`), which
nobody removes (`NameOfFifo`).

SafeRead and GrantRead: the permitted set only shrinks (`Shrinks`), so it is enough to say
for each capability from which call on it is gone (`Shed`), and that by the end the
process is in the new root (`Confined`).  `HostUntouched` needs `Secluded`: which call has
private mounts, and which has the tmpfs over the directory, behind it.  `ReadAsUser`
adds that before the command runs `dac_read_search` is permitted and never effective.
`CommandFindsEverything` needs `Provided`, how far each loop has come: the devices and the
entries of the template below `next` are there, and all of them from the end of the loop
on; nothing that is made later takes an earlier one away.  `AssertFailsForRootOnly` is the
other side of the finding in section 6: after every turn `buffer` is `src` as far as the
loop has come (`ParentsSoFar`), so that the assertion can fail only if there is no turn.

DroppedShell: the difficulty is that `have-dropped-all-caps` asks only for securebits,
`no_new_privs` and the bounding set, and not for the seccomp filter.  `Progress` says why
this is enough: a process that finds the securebits locked at the start of the
chain comes out of a whole chain, since only the chain sets them and it goes on to a
shell only over the filter (`filtered`); and the loops have cleared every capability below `cap`.

Bmount: what has been looked at stays so unless the user changes it.  For `dest` he can, it is
his: `StaysInMounts` speaks of requests whose `dest` he has left alone (`DestChecked`).  For
`src` it is proved for everybody who owns none of the directories above it (`SrcChecked`):
either one of these can be written to, which he cannot change as it is not his, and then
the loop over the parents has still to come to it and refuse (`WillRefuse`), or none can, and
then `src` stays (`StaysThere`); what else there may be at `src` after an exchange is no
matter in the first case, and in the second there is no exchange.  Whoever owns a directory
above may take the right to write away for the loop and give it back afterwards, and wins
the race that the comment on bmount.c:39 speaks of; he is excepted, and so are the rights on
`src` itself of whoever owns that.

HotKeys: an instance has exactly the first `registered` of its keys (`HasItsKeys`,
`HasNoOthers`) and runs only with all of them (`HowMany`).  Since all instances of a program
register in the same order, whoever loses loses at the first key or to a third program:
that is the invariant behind `LoserHoldsNothing`.

QuickKey: what is remembered and what the user meant are written at different times, and the
messages between them are those of the instance's own keys (`QuickKeyInv`, on top of
`HotKeysInv`); only `Recall` takes a message of WIN alone (`OnlyRecallTakes`).

TopKey: `CutSoFar`: what is left is a beginning of the text that ends where a name ends, and
no directory that comes into question is longer.  A turn cuts at the last separator
(`LastOfThem`), so that it skips none (`TrimStep`).

PowerStatusTray: `TrayInv`: a drive in a list has had that status since that list's look
began, and one that is not there had another when it was asked.

KeyDumpers: `InHand`: what a dumper has in hand, followed by what its device holds, is the
end of what was typed, and what it has told is the rest (`InOrderTells`, `InOrderSkips`).

FoobarLoader: `OnTheWayOut`: from the poll that saw the thread ended the loader does not come
back to the loop.  LeapCmd: `ToldSoFar`: what is told never runs ahead of the progress.

Least and greatest numbers (a last separator, for instance) are had from `WFMin` over the
natural numbers: the provers cannot use the theorems of induction, which take an operator.

Only model-checked is all liveness: `NeverWaits`, `UEnds`, `EndsAfterProgram`, `EverybodyEnds`,
`CommandStarts`, `ShellStarts`, `GoodRequestSucceeds`, `PressesAreAnswered`, `SettledIsKnown`,
`KeysArrive`, `ButtonsFollow` and `EventsAreContinued`.  They rest on fairness, and what
fairness gives takes ENABLED, which the prover does not have.

## 6. Where the code says something else

Runs that end in a violation, on purpose:

- `catfight_short_write`: `write_fully` (line 110) calls `write(fd, data, remaining)` again
  without advancing `data`; after a short write the header repeats its first bytes
  and the printed position no longer gives the record back.
- `copy_file_short`: when `fread` meets the end of the source early,
  `try_fread_fwrite` returns `ferror(src)`, which is 0 (copy.h:76), and catfight prints
  a position for a file that is not all there.
- `safe_read_root`: with `--reading /` the loop at line 277 is not entered, `buffer` still
  ends in `/dev/urandom` and the assertion at line 294 fails.  No other path that gets as
  far as the loop does that: `AssertFailsForRootOnly`.

Met while modelling, without a run of their own:

- `flock()` may return -1 for another reason than `EWOULDBLOCK`; `check("flock", lock)`
  (catfight.c:249) takes -1 for true and goes on without the lock.  With
  `FlockMayFail = TRUE` `LocksAreHeld` and `NoOverlap` do not hold, which is why the theorems
  assume it away; `HintSafe` does not need to.
- A record whose writer died half way claims its whole length, and the next catfight appends
  inside it.  `-u` with the position of the cut record gives what there is of it, zero bytes
  and the record behind, and exits with 0 (catfight.c:141-151): nothing tells it apart.
  catfight has never printed such a position.  `ArrivesInOrder` says that this is the only
  way to get bytes of another record.
- `unarchive` takes 1, 3 and 5, stdio's failures, for success (catfight.c:152);
  `ZeroMeansWhole` excepts them.
- A source that becomes too short makes `copy_file_range` or `sendfile` return 0 for ever,
  and `while (remaining > 0)` goes on (copy.h:32, 54); `UEnds` excepts it.
- xlines checks neither the `freopen` of its children (xlines.c:63) nor its own `fopen` (line
  85).  A command whose `freopen` failed runs without its lines; where its fifo was unlinked
  before the parent came to it, they go to a regular file, xlines ends with status 0, and the
  message of the failing `rmdir` is the one sign of it.  If the parent had already begun to
  open that fifo, it waits for ever (`KeptWaiting`).  A NULL from `fopen` crashes xlines at the
  first byte for that child, or at the end, and leaves the child waiting.
- bmount checks by path and mounts by path.  A comment (bmount.c:39) calls that inherently
  racy, and the owner of a directory above `src` can show it: he takes his right to write
  away, passes `access(W_OK)` (line 63), gives it back and exchanges `src` before the `mount`
  (line 125).  `BindsWhatWasChecked` excepts him, and shows that nobody else can.
- In bmount a first run reads `base` uninitialised (bmount.c:205): the model chooses either
  outcome.  The second `stat` looks at `src` instead of `dest` (line 75); `opendir` makes up
  for it, as `StaysInMounts` shows.
- `foobar2000-loader.cpp:69` has the check of the exit code the wrong way round: it
  reports failure for a library that was loaded (`TakenForFailure`).
- quickkey's loop takes the -1 of `GetMessage` for a message (quickkey.cpp:36): after its
  window has been closed it spins for ever.  topkey and shiftfocus check for it.
- keytoputty's event has a fixed name (keytoputty.cpp:96): with two of them running a
  stroke may wake only one, and the other one's waits until a later signal happens to
  wake it.  `KeysArrive` therefore speaks only of dumpers with an event to themselves.

Behaviour that is as it is, and modelled so: readers of the hint that find no link write
0 later, over a newer hint, which costs only time; safe-read leaves its temporary
directory behind, and with `--disable-security` its mounts; `MS_RDONLY` is ignored by a
bind mount, so that a template with names below `src` writes into `src` where the user
may; xlines whose fork fails leaves earlier children waiting in `open`, and one whose
child is killed there waits in `fopen`; keytoputty does not look whether `PostMessage` has
taken a key (line 128); topkey's broadcast waits for every window, and one that hangs keeps
it; a sponger whose child is killed leaves the
temporary file; and after exit code 242 sponger waits for whatever the program left
behind; grant-read does not change into its new root directory before the command runs;
a hot-key program that was refused a key keeps those it has until its error message is
dismissed; mousex leaves a button pressed if it is ended, or the controller unplugged
for good, while one is held.

## 7. What is left out, and why

- Option parsing, usage messages and wording everywhere.
- catfight: integer overflow of positions (needs 2^64 bytes), the limit on open
  descriptors (skipped files are never closed), different `-b` for one archive.
- sponger: interleaving of stdout and stderr, which have separate offsets.
- xlines: children killed elsewhere than in their `open`, which is a command that quits.
- safe-read: a template that changes while it is walked.
- catfight -u: a record that is appended while it reads.
- safe-read, grant-read and bmount: a program's file capabilities are permitted only (`+p`).
  No build file sets any; it is what the code expects, which raises each before its use.
- key dumpers: what becomes of a key in the message queue of PuTTY.
- quickkey: a `SetForegroundWindow` that Windows refuses.
- powerstatustray: that a balloon with the text of the last one is shown again.
- foobar2000-loader: waits that fail for ever, and foobar2000 ending by itself.
- hot keys: how topkey asks the shell for the folder a window shows, and that shiftfocus
  takes the desktop's list view for the desktop: both are part of what a window
  tells and of what lies in each direction.
- powerstatustray: creating window and icon; the `#if`ed-out console `main`.
- mousex: moving and scrolling, which are functions of the last look alone.

Not modelled at all:

- safenod: the device calls of safe-read in a straight line; where privileges and
  mounts matter to them they are in `SafeRead`.
- seccomp-filter.py, seccomp-tool.c: static tables of names, expanded once before a
  command starts.
- btrfs_puncher: one read loop that punches holes at an offset never initialised, for
  which no property can be stated.
- leapimages: one image to one file.
- mkchroot, nftw, xwinswitch, aukiller, loaddlls, noelev, unsigntool, unrequireadmin,
  media-ctl, topwindow: straight lines of calls, or a loop around a library that
  keeps all state.
- Makefile, CMakeLists.txt, Makefile.wine, releaseme.bat, defines.h: build rules.

## 8. Plan

Modelled, in this order: catfight; copy engine and unarchive; sponger; xlines; safe-read;
dropped shell; bmount; powerstatustray; grant-read; the hot-key programs; key dumpers;
mousex; leapcmd; foobar2000-loader.  Proved, in this order: catfight's invariants, its
refinement of `ArchiveStore`, foobar2000-loader, leapcmd, hot keys, safe-read and grant-read,
dropped shell, sponger and its refinement of `AtomicFile`, bmount, powerstatustray, key
dumpers, xlines, unarchive, the rest of catfight, quickkey, safe-read's directory, topkey.

Left:

1. Theorems: what `pos`, `text` and the other loops have left to do gets less with every step,
   which is the safety half of the liveness properties; the other half stays with TLC.
2. catfight with a limit on open descriptors, and with different `-b` for one archive.
3. safenod beside SafeRead's devices, if it is ever run with fewer rights than root.
