------------------------------ MODULE CatFight ------------------------------
(* The archiver of src/catfight.c.  Any number of invocations append one     *)
(* record each to a family of block files <root>.000..0, <root>.000..1, ...  *)
(* guarded by non-blocking flock(2), and keep the number of a file to start  *)
(* from in the symbolic link <root>.hint.                                    *)
(*                                                                           *)
(* One process of this model is one invocation: it archives one file, prints *)
(* one position and ends, or dies on the way (a signal, or any check() that  *)
(* fails).  A retry after a crash is another process.  The bytes of a file   *)
(* are modelled by who wrote them: process p has put the first written[p]    *)
(* bytes of its record at offset seek[p] of file target_num[p].              *)
(*                                                                           *)
(* All invocations use the same -b, and no source file changes while it is   *)
(* copied (CopyFile.tla is about the copy and a source that shrinks).        *)
EXTENDS Integers

CONSTANTS
    Proc,              \* the invocations
    Nobody,            \* the holder of a free lock
    BlockSize,         \* -b: a file this long takes no further record
    MaxTarget,         \* stands for UINT64_MAX, where the search gives up
    Payload,           \* source and -e lengths that are tried
    FlockMayFail,      \* may flock() fail with another error than EWOULDBLOCK?
    WriteMayBeShort    \* may write() take only part of what it is given?

NoHint     == -1       \* there is no link
NotPrinted == -1

ASSUME CatFightAssumption ==
    /\ Nobody \notin Proc
    /\ BlockSize \in Nat /\ BlockSize > 16
    /\ MaxTarget \in Nat
    /\ Payload \subseteq [src_len : Nat, extra_len : Nat]
    /\ FlockMayFail \in BOOLEAN
    /\ WriteMayBeShort \in BOOLEAN

VARIABLES
    size,              \* length of each block file, 0 if it does not exist
    lock,              \* holder of each file's flock
    hint_link,         \* the number <root>.hint points to
    pc,                \* where each invocation is
    job,               \* what each invocation archives
    hint,              \* local: what read_hint returned
    target_num,        \* local: the file under consideration
    skipped,           \* local: skipped_due_to_locking
    seek,              \* local: where the record starts in the file
    written,           \* how much of the record is in the file
    garbled,           \* the invocations whose header a short write damaged
    printed            \* the position on the invocation's stdout

vars == <<size, lock, hint_link, pc, job, hint, target_num, skipped, seek,
          written, garbled, printed>>

search == <<hint, target_num, skipped>>
record == <<seek, written, garbled>>

File == 0 .. MaxTarget - 1

-----------------------------------------------------------------------------
(* Helpers.                                                                  *)

(* The offset a record goes to in a file of length val > 0: the next         *)
(* multiple of 16 (lines 261-264; the function align16 of the source is not  *)
(* used, and differs on multiples of 16).                                    *)
Align(val) == IF val % 16 = 0 THEN val ELSE val + 16 - (val % 16)

Full(f) == Align(size[f]) >= BlockSize

HeaderLen(p) == 16 + job[p].extra_len
RecordLen(p) == HeaderLen(p) + job[p].src_len

Larger(a, b) == IF a > b THEN a ELSE b

Goto(p, label) == pc' = [pc EXCEPT ![p] = label]

(* The mutant keeps the lock of the file it walks away from.                 *)
Release_Leak(p) == lock' = lock

(* Closing the file, or ending, gives up every flock the invocation holds.   *)
Release(p) == lock' = [f \in File |-> IF lock[f] = p THEN Nobody ELSE lock[f]]

(* Mutants: the loop stays where it is, or counts a file twice.              *)
NextTarget_Stay(p)  == target_num' = target_num
NextTarget_Twice(p) == target_num' = [target_num EXCEPT ![p] = @ + 2]

NextTarget(p) == target_num' = [target_num EXCEPT ![p] = @ + 1]

(* The mutant does not remember the file it could not look into.             *)
Skip_Forget(p) == skipped' = skipped

Skip(p) == skipped' = [skipped EXCEPT ![p] = TRUE]

(* The mutant takes a lock that somebody has for its own.                    *)
Unlocked_Blind(f) == TRUE

Unlocked(f) == lock[f] = Nobody

(* The invocations that have written to offset x of file f ...               *)
WritersOf(f, x) ==
    {q \in Proc : /\ target_num[q] = f
                  /\ seek[q] <= x
                  /\ x < seek[q] + written[q]}

(* ... and what they have put there: byte i of the record of q.              *)
BytesAt(f, x) == {<<q, x - seek[q]>> : q \in WritersOf(f, x)}

(* The mutant forgets that file ids count from zero.                         *)
FileOf_OffByOne(pos) == 1 + (pos \div BlockSize)

FileOf(pos)   == pos \div BlockSize
OffsetOf(pos) == pos % BlockSize

(* The invocations whose whole record -u pos gives back: every byte it reads *)
(* from there on is theirs, and theirs alone.                                *)
RecordsAt(pos) ==
    {p \in Proc \ garbled :
        \A i \in 0 .. RecordLen(p) - 1 :
            BytesAt(FileOf(pos), OffsetOf(pos) + i) = {<<p, i>>}}

-----------------------------------------------------------------------------
Init ==
    /\ size = [f \in File |-> 0]
    /\ lock = [f \in File |-> Nobody]
    /\ hint_link = NoHint
    /\ pc = [p \in Proc |-> "read_hint"]
    /\ job \in [Proc -> Payload]
    /\ hint = [p \in Proc |-> 0]
    /\ target_num = [p \in Proc |-> 0]
    /\ skipped = [p \in Proc |-> FALSE]
    /\ seek = [p \in Proc |-> 0]
    /\ written = [p \in Proc |-> 0]
    /\ garbled = {}
    /\ printed = [p \in Proc |-> NotPrinted]

(* read_hint: the link is there and readable.                                *)
ReadHint(p) ==
    /\ pc[p] = "read_hint"
    /\ hint_link # NoHint
    /\ hint' = [hint EXCEPT ![p] = hint_link]
    /\ target_num' = [target_num EXCEPT ![p] = hint_link]
    /\ Goto(p, "flock")
    /\ UNCHANGED <<size, lock, hint_link, job, skipped, record, printed>>

(* read_hint: readlink fails with ENOENT; write_hint(0) comes next, and      *)
(* another invocation may move the link in between.                          *)
NoHintYet(p) ==
    /\ pc[p] = "read_hint"
    /\ hint_link = NoHint
    /\ Goto(p, "init_hint")
    /\ UNCHANGED <<size, lock, hint_link, job, search, record, printed>>

(* read_hint: readlink fails otherwise, or the link holds no number.         *)
IgnoreHint(p) ==
    /\ pc[p] = "read_hint"
    /\ Goto(p, "flock")
    /\ UNCHANGED <<size, lock, hint_link, job, search, record, printed>>

(* write_hint(n): a fresh link is renamed over the old one, unless one of    *)
(* the calls fails, which only earns a warning.                              *)
WriteHint(n) == hint_link' \in {n, hint_link}

InitHint(p) ==
    /\ pc[p] = "init_hint"
    /\ WriteHint(0)
    /\ Goto(p, "flock")
    /\ UNCHANGED <<size, lock, job, search, record, printed>>

(* open(O_CREAT), flock(LOCK_EX | LOCK_NB): the lock is free.                *)
Flock(p) ==
    /\ pc[p] = "flock"
    /\ target_num[p] < MaxTarget
    /\ Unlocked(target_num[p])
    /\ lock' = [lock EXCEPT ![target_num[p]] = p]
    /\ Goto(p, "lseek")
    /\ UNCHANGED <<size, hint_link, job, search, record, printed>>

(* EWOULDBLOCK: somebody holds the lock, go on to the next file.             *)
WouldBlock(p) ==
    /\ pc[p] = "flock"
    /\ target_num[p] < MaxTarget
    /\ ~Unlocked(target_num[p])
    /\ Skip(p)
    /\ NextTarget(p)
    /\ UNCHANGED <<size, lock, hint_link, pc, job, hint, record, printed>>

(* Any other error (ENOLCK, EINTR, EOPNOTSUPP): check("flock", lock) passes, *)
(* lock being -1, and the file is used without the lock.                     *)
FlockFails(p) ==
    /\ FlockMayFail
    /\ pc[p] = "flock"
    /\ target_num[p] < MaxTarget
    /\ Goto(p, "lseek")
    /\ UNCHANGED <<size, lock, hint_link, job, search, record, printed>>

(* The loop is over: main ends with status 0 and has printed nothing.        *)
GiveUp(p) ==
    /\ pc[p] = "flock"
    /\ target_num[p] >= MaxTarget
    /\ Goto(p, "done")
    /\ UNCHANGED <<size, lock, hint_link, job, search, record, printed>>

(* lseek(SEEK_END) finds an empty file.                                      *)
FoundEmpty(p) ==
    /\ pc[p] = "lseek"
    /\ size[target_num[p]] = 0
    /\ Goto(p, "magic")
    /\ UNCHANGED <<size, lock, hint_link, job, search, record, printed>>

(* The file has no room for another record; close it and look further.       *)
FoundFull(p) ==
    /\ pc[p] = "lseek"
    /\ size[target_num[p]] > 0
    /\ Full(target_num[p])
    /\ Release(p)
    /\ NextTarget(p)
    /\ Goto(p, "flock")
    /\ UNCHANGED <<size, hint_link, job, hint, skipped, record, printed>>

(* The file has room: the record goes to its end, rounded up.                *)
FoundRoom(p) ==
    /\ pc[p] = "lseek"
    /\ size[target_num[p]] > 0
    /\ ~Full(target_num[p])
    /\ seek' = [seek EXCEPT ![p] = Align(size[target_num[p]])]
    /\ Goto(p, "append")
    /\ UNCHANGED <<size, lock, hint_link, job, search, written, garbled,
                   printed>>

(* write_fully of the magic number ...                                       *)
WriteMagic(p) ==
    /\ pc[p] = "magic"
    /\ size' = [size EXCEPT ![target_num[p]] = Larger(@, 8)]
    /\ Goto(p, "file_id")
    /\ UNCHANGED <<lock, hint_link, job, search, record, printed>>

(* ... and of the file's number, 8 bytes each; the first record follows.     *)
WriteFileId(p) ==
    /\ pc[p] = "file_id"
    /\ size' = [size EXCEPT ![target_num[p]] = Larger(@, 16)]
    /\ seek' = [seek EXCEPT ![p] = 16]
    /\ Goto(p, "append")
    /\ UNCHANGED <<lock, hint_link, job, search, written, garbled, printed>>

(* n bytes of p's record are in the file; a crash may leave it at that.      *)
PutRecord(p, n) ==
    /\ written' = [written EXCEPT ![p] = n]
    /\ size' = [size EXCEPT ![target_num[p]] = Larger(@, seek[p] + n)]

(* write_fully of record_end, of extra_len and of extra; each ends at one of *)
(* these bytes of the record.                                                *)
HeaderEnds(p) == {8, 16, HeaderLen(p)}

(* After a short write write_fully starts again at the first byte of its     *)
(* data, and the record has a header of garbage, except where there is       *)
(* nothing to tell the bytes apart: an extra_len of eight zero bytes, or an  *)
(* extra of a single one.                                                    *)
RepeatDamages(p, n) ==
    \/ n = 8
    \/ n = 16 /\ job[p].extra_len > 0
    \/ n > 16 /\ job[p].extra_len > 1

WriteHeader(p) ==
    /\ pc[p] = "append"
    /\ \E n \in HeaderEnds(p) :
          /\ n > written[p]
          /\ \A e \in HeaderEnds(p) : e > written[p] => n <= e
          /\ PutRecord(p, n)
          /\ \/ UNCHANGED garbled
             \/ /\ WriteMayBeShort /\ RepeatDamages(p, n)
                /\ garbled' = garbled \cup {p}
    /\ UNCHANGED <<lock, hint_link, pc, job, search, seek, printed>>

(* copy_file: the source follows in pieces of any length.                    *)
CopySource(p) ==
    /\ pc[p] = "append"
    /\ written[p] >= HeaderLen(p)
    /\ \E n \in written[p] + 1 .. RecordLen(p) : PutRecord(p, n)
    /\ UNCHANGED <<lock, hint_link, pc, job, search, seek, garbled, printed>>

(* close(src_fd), close(fd).                                                 *)
Close(p) ==
    /\ pc[p] = "append"
    /\ written[p] = RecordLen(p)
    /\ Release(p)
    /\ Goto(p, "print")
    /\ UNCHANGED <<size, hint_link, job, search, record, printed>>

(* The mutant prints where the record ends.                                  *)
PositionOf_End(p) == target_num[p] * BlockSize + seek[p] + RecordLen(p)

PositionOf(p) == target_num[p] * BlockSize + seek[p]

(* printf, and whether the hint is to be moved.                              *)
PrintPosition(p) ==
    /\ pc[p] = "print"
    /\ printed' = [printed EXCEPT ![p] = PositionOf(p)]
    /\ Goto(p, IF ~skipped[p] /\ target_num[p] > hint[p] THEN "write_hint"
                                                        ELSE "done")
    /\ UNCHANGED <<size, lock, hint_link, job, search, record>>

(* The link may move backwards: another invocation may be further on.        *)
UpdateHint(p) ==
    /\ pc[p] = "write_hint"
    /\ WriteHint(target_num[p])
    /\ Goto(p, "done")
    /\ UNCHANGED <<size, lock, job, search, record, printed>>

Ended == {"done", "dead"}

(* A signal, or a failing check(): the kernel closes the files.              *)
Die(p) ==
    /\ pc[p] \notin Ended
    /\ Release(p)
    /\ Goto(p, "dead")
    /\ UNCHANGED <<size, hint_link, job, search, record, printed>>

(* main, without the part that fails.                                        *)
Step(p) ==
    \/ ReadHint(p) \/ NoHintYet(p) \/ IgnoreHint(p) \/ InitHint(p)
    \/ Flock(p) \/ WouldBlock(p) \/ FlockFails(p) \/ GiveUp(p)
    \/ FoundEmpty(p) \/ FoundFull(p) \/ FoundRoom(p)
    \/ WriteMagic(p) \/ WriteFileId(p) \/ WriteHeader(p) \/ CopySource(p)
    \/ Close(p) \/ PrintPosition(p) \/ UpdateHint(p)

(* Every invocation has ended.                                               *)
AllEnded == (\A p \in Proc : pc[p] \in Ended) /\ UNCHANGED vars

Next == (\E p \in Proc : Step(p) \/ Die(p)) \/ AllEnded

Spec == Init /\ [][Next]_vars

-----------------------------------------------------------------------------
(* Properties.                                                               *)

Label == {"read_hint", "init_hint", "flock", "lseek", "magic", "file_id",
          "append", "print", "write_hint"} \cup Ended

TypeOK ==
    /\ size \in [File -> Nat]
    /\ lock \in [File -> Proc \cup {Nobody}]
    /\ hint_link \in File \cup {NoHint, 0}
    /\ pc \in [Proc -> Label]
    /\ job \in [Proc -> Payload]
    /\ hint \in [Proc -> File \cup {0}]
    /\ target_num \in [Proc -> 0 .. MaxTarget]
    /\ skipped \in [Proc -> BOOLEAN]
    /\ seek \in [Proc -> Nat]
    /\ written \in [Proc -> Nat]
    /\ garbled \subseteq Proc
    /\ printed \in [Proc -> Nat \cup {NotPrinted}]

(* The invocations that have found a file they may write to.                 *)
Writing(p) == pc[p] \in {"lseek", "magic", "file_id", "append"}

(* An invocation that goes on to read the length of a file and to write to   *)
(* it has that file's lock, as check("flock", ...) on line 249 means to      *)
(* ensure, and has no other: a file that was left, finished or given up by a *)
(* death is free for the next one.                                           *)
LocksAreHeld ==
    /\ \A p \in Proc : Writing(p) => lock[target_num[p]] = p
    /\ \A f \in File, p \in Proc :
          lock[f] = p => Writing(p) /\ target_num[p] = f

Begun(p) == written[p] > 0

(* No two invocations have put a byte at the same place, whether they        *)
(* finished, are at work or died half way.                                   *)
NoOverlap ==
    \A p, q \in Proc :
        p # q /\ Begun(p) /\ Begun(q) /\ target_num[p] = target_num[q]
        => \/ seek[p] + written[p] <= seek[q]
           \/ seek[q] + written[q] <= seek[p]

(* The position an invocation prints gives back exactly what it archived,    *)
(* from then on.                                                             *)
PrintedReadsBack ==
    \A p \in Proc : printed[p] # NotPrinted => RecordsAt(printed[p]) = {p}

(* The hint never hides a file that still has room: whoever starts from it   *)
(* passes over full files only.                                              *)
HintIsSound ==
    hint_link # NoHint => \A f \in File : f < hint_link => Full(f)

(* An invocation that ends with status 0 has archived its file, as long as   *)
(* there are more files than invocations at work: each file it passes over   *)
(* was filled, or is being written, by an invocation of its own.             *)
SuccessIsPrinted ==
    \A p \in Proc : pc[p] = "done" => printed[p] # NotPrinted

-----------------------------------------------------------------------------
(* What the properties rest on, for the proofs.                              *)

(* Past the loop's condition target_num is the number of a file.             *)
TargetExists ==
    \A p \in Proc : Writing(p) \/ pc[p] \in {"print", "write_hint"}
                    => target_num[p] \in File

(* Where the bytes of a record are and how long the files are:               *)
(*  - a record is begun by the last loop of main, in an existing file;       *)
(*  - it lies inside the file;                                               *)
(*  - a file found empty stays so until its header is written;               *)
(*  - an invocation at work appends behind every record of the file.         *)
RecordsArePlaced ==
    /\ \A p \in Proc : Begun(p) =>
          /\ pc[p] \in {"append", "print", "write_hint"} \cup Ended
          /\ target_num[p] \in File
          /\ seek[p] + written[p] <= size[target_num[p]]
    /\ \A p \in Proc : pc[p] = "magic" => size[target_num[p]] = 0
    /\ \A p \in Proc : pc[p] = "file_id" => size[target_num[p]] <= 8
    /\ \A p, q \in Proc :
          /\ p # q
          /\ pc[p] = "append"
          /\ Begun(q)
          /\ target_num[p] = target_num[q]
          => seek[q] + written[q] <= seek[p]

(* Whoever has passed over files without meeting a lock has seen them full,  *)
(* and so had whoever wrote the hint it started from.                        *)
PassedAreFull ==
    /\ \A p \in Proc : \A f \in File : f < hint[p] => Full(f)
    /\ \A p \in Proc : ~skipped[p] =>
          \A f \in File : f < target_num[p] => Full(f)
    /\ \A p \in Proc : pc[p] = "write_hint" =>
          ~skipped[p]

(* What is printed is the place of a record all of which has been written,   *)
(* and which starts inside the block that its position stands for.           *)
PrintedIsWritten ==
    /\ ~WriteMayBeShort => garbled = {}
    /\ \A p \in Proc : pc[p] = "append" => seek[p] < BlockSize
    /\ \A p \in Proc : pc[p] = "print" \/ printed[p] # NotPrinted =>
          /\ written[p] = RecordLen(p)
          /\ seek[p] < BlockSize
          /\ target_num[p] \in File
    /\ \A p \in Proc : printed[p] # NotPrinted =>
          /\ pc[p] \in {"write_hint"} \cup Ended
          /\ printed[p] = PositionOf(p)

(* An invocation that keeps others away from file f: it has written there,   *)
(* is about to, or died there.                                               *)
Occupies(q, f) ==
    /\ target_num[q] = f
    /\ Begun(q) \/ Writing(q) \/ pc[q] = "dead"

(* A record is begun by the last loop of main, ...                           *)
BegunAppends ==
    \A p \in Proc : Begun(p) =>
        pc[p] \in {"append", "print", "write_hint"} \cup Ended

(* ... a file that holds more than its own header has one, ...               *)
FilledHasRecord ==
    \A f \in File : size[f] > 16 =>
        \E q \in Proc : Begun(q) /\ target_num[q] = f

(* ... a lock is held by an invocation that looks at the file, ...           *)
HolderIsWriting ==
    \A f \in File, p \in Proc : lock[f] = p => Writing(p) /\ target_num[p] = f

(* ... and every file that one invocation has passed over is occupied by     *)
(* another, with or without the locks.                                       *)
PassedAreOccupied ==
    \A p \in Proc : \A f \in File : f < target_num[p] =>
        \E q \in Proc : Occupies(q, f)

(* The inductive invariant behind SuccessIsPrinted: no invocation runs out   *)
(* of files while there are as many files as invocations.                    *)
SearchInv ==
    /\ BegunAppends /\ FilledHasRecord /\ HolderIsWriting
    /\ PassedAreOccupied
    /\ \A p \in Proc : pc[p] \in {"write_hint", "done"} =>
          printed[p] # NotPrinted

(* The inductive invariant behind NoOverlap, HintIsSound, PrintedReadsBack:  *)
(* it relates the places invocations have chosen to lengths they read some   *)
(* steps ago.                                                                *)
InductiveInv ==
    TypeOK /\ TargetExists /\ LocksAreHeld /\ RecordsArePlaced /\ NoOverlap
    /\ PassedAreFull /\ HintIsSound /\ PrintedIsWritten

(* CatFight implements ArchiveStore: what the printed positions give back.   *)
Store == INSTANCE ArchiveStore
    WITH Writer <- Proc,
         Position <- 0 .. MaxTarget * BlockSize - 1,
         store <- [pos \in {printed[p] : p \in Proc} \ {NotPrinted} |->
                      RecordsAt(pos)]

(* Positions are published once, never reused, moved or overwritten, however *)
(* invocations interleave and wherever they die.                             *)
ImplementsStore == Store!Spec
=============================================================================
