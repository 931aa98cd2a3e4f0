------------------------------ MODULE CopyFile ------------------------------
(* copy_file of src/copy.h: len bytes go from one file descriptor to another *)
(* by copy_file_range(2), or by sendfile(2), or by stdio; each way is tried  *)
(* when the kernel does not know the one before it.  catfight and safe-read  *)
(* copy with it.  A byte is modelled by its offset in the source, so that    *)
(* what has arrived is a sequence of offsets.                                *)
(*                                                                           *)
(* sendfile's EAGAIN leaves everything as it is, and is a stuttering step.   *)
EXTENDS Integers, Sequences

CONSTANTS
    MaxLen,            \* the longest copy that is tried
    ChunkSize,         \* char buf[8096]
    SourceMayShrink,   \* may somebody truncate the source during the copy?
    StdioMayFail       \* may fdopen, fread, fwrite or fflush fail?

ASSUME CopyFileAssumption ==
    /\ MaxLen \in Nat
    /\ ChunkSize \in Nat \ {0}
    /\ SourceMayShrink \in BOOLEAN
    /\ StdioMayFail \in BOOLEAN

VARIABLES
    pc,                \* the function at work
    len,               \* parameter: how much is to be copied
    remaining,         \* local: how much is left
    avail,             \* the length of the source
    off,               \* the offset of src_fd
    dest,              \* what has arrived at dest_fd
    buffered,          \* what stdio still holds for it
    ret                \* what copy_file returned

vars == <<pc, len, remaining, avail, off, dest, buffered, ret>>

NoResult == -2

-----------------------------------------------------------------------------
Smallest(a, b) == IF a < b THEN a ELSE b

Readable == IF off < avail THEN avail - off ELSE 0

(* The next n bytes of the source.                                           *)
NextBytes(n) == [i \in 1 .. n |-> off + i - 1]

Return(r) == pc' = "done" /\ ret' = r

(* The mutant tests remaining >= 0, which a size_t always is.                *)
LoopOn_Always(left, next) == UNCHANGED <<pc, ret>>

(* while (remaining > 0), and the return 0 (or the fflush) behind the loop.  *)
LoopOn(left, next) ==
    IF left > 0 THEN UNCHANGED <<pc, ret>>
    ELSE IF next = "return" THEN Return(0) ELSE pc' = next /\ UNCHANGED ret

(* copy_file_range or sendfile transfers n bytes.  It returns 0 at the end   *)
(* of the source only, and then the loop goes round once more.               *)
Transfer ==
    \E n \in 0 .. Smallest(remaining, Readable) :
        /\ n = 0 => Smallest(remaining, Readable) = 0
        /\ dest' = dest \o NextBytes(n)
        /\ off' = off + n
        /\ remaining' = remaining - n
        /\ LoopOn(remaining - n, "return")
        /\ UNCHANGED <<len, avail, buffered>>

CopyFileRange == pc = "copy_file_range" /\ Transfer
Sendfile      == pc = "sendfile" /\ Transfer

(* The mutant tries another way in the middle of a copy, too.                *)
MayFallBack_Anytime == TRUE

(* "it's the first loop": nothing has been copied.                           *)
MayFallBack == len = remaining

(* The error is one of those that stand for "not supported" ...              *)
TryAnother ==
    /\ MayFallBack
    /\ \/ pc = "copy_file_range" /\ pc' = "sendfile"
       \/ pc = "sendfile" /\ pc' = "fdopen"
    /\ remaining' = len
    /\ UNCHANGED <<len, avail, off, dest, buffered, ret>>

(* ... or another one, or comes in the middle of the copy.                   *)
KernelFails ==
    /\ pc \in {"copy_file_range", "sendfile"}
    /\ Return(-1)
    /\ UNCHANGED <<len, remaining, avail, off, dest, buffered>>

Fdopen ==
    /\ pc = "fdopen"
    /\ pc' = "fread"
    /\ UNCHANGED <<len, remaining, avail, off, dest, buffered, ret>>

(* stdio writes what it holds when it likes to.                              *)
Buffer(bytes) ==
    \E n \in 0 .. Len(buffered \o bytes) :
        /\ dest' = dest \o SubSeq(buffered \o bytes, 1, n)
        /\ buffered' = SubSeq(buffered \o bytes, n + 1, Len(buffered \o bytes))

ToRead == Smallest(ChunkSize, remaining)

(* One round of the loop: fread finds all it wants, fwrite takes it.         *)
ReadWrite ==
    /\ pc = "fread"
    /\ ToRead <= Readable
    /\ Buffer(NextBytes(ToRead))
    /\ off' = off + ToRead
    /\ remaining' = remaining - ToRead
    /\ LoopOn(remaining - ToRead, "fflush")
    /\ UNCHANGED <<len, avail>>

(* fread meets the end of the file: not an error for ferror, which gives 0.  *)
ReadShort ==
    /\ pc = "fread"
    /\ Readable < ToRead
    /\ off' = off + Readable
    /\ Return(0)
    /\ UNCHANGED <<len, remaining, avail, dest, buffered>>

Fflush ==
    /\ pc = "fflush"
    /\ dest' = dest \o buffered
    /\ buffered' = <<>>
    /\ Return(0)
    /\ UNCHANGED <<len, remaining, avail, off>>

(* fdopen returns NULL (3), fread or fwrite leaves an error (1), fflush (5). *)
StdioFails ==
    /\ StdioMayFail
    /\ \/ pc = "fdopen" /\ Return(3)
       \/ pc = "fread" /\ Return(1)
       \/ pc = "fflush" /\ Return(5)
    /\ UNCHANGED <<len, remaining, avail, off, dest, buffered>>

(* The calls that do what they are for, and those that do not.               *)
CopyGoesOn ==
    CopyFileRange \/ Sendfile \/ Fdopen \/ ReadWrite \/ ReadShort \/ Fflush

CopyStep == CopyGoesOn \/ TryAnother \/ KernelFails \/ StdioFails

(* The environment: the source gets shorter.                                 *)
Shrink ==
    /\ SourceMayShrink
    /\ pc # "done"
    /\ \E n \in 0 .. avail - 1 : avail' = n
    /\ UNCHANGED <<pc, len, remaining, off, dest, buffered, ret>>

Init ==
    /\ pc = "copy_file_range"
    /\ len \in 0 .. MaxLen
    /\ remaining = len
    /\ avail \in len .. MaxLen + 1
    /\ off = 0
    /\ dest = <<>>
    /\ buffered = <<>>
    /\ ret = NoResult

Returned == pc = "done" /\ UNCHANGED vars

Next == CopyStep \/ Shrink \/ Returned

Spec == Init /\ [][Next]_vars

-----------------------------------------------------------------------------
(* 0 means that everything has arrived: check("copy_file", 0 == copy) of     *)
(* src/catfight.c:282 takes it for that before the position is printed.      *)
ZeroMeansCopied == ret = 0 => Len(dest) = len
=============================================================================
