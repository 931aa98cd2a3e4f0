------------------------------- MODULE XLines -------------------------------
(* src/xlines.c: run a command several times in parallel and deal the lines  *)
(* of stdin to the copies in turn, through named pipes in a temporary        *)
(* directory.  A byte of the input is modelled by its number; newline is the *)
(* set of those that end a line.  Pipes and stdio buffers hold few bytes.    *)
(* Neither the freopen in the child nor the fopen in the parent is checked.  *)
EXTENDS Integers, Sequences, FiniteSets

CONSTANTS
    Parallelism,       \* -P
    InputLen,          \* bytes of stdin
    BufSize,           \* what a FILE holds
    PipeSize           \* what a fifo holds

ASSUME XLinesAssumption ==
    /\ Parallelism \in Nat \ {0}
    /\ InputLen \in Nat
    /\ BufSize \in Nat \ {0}
    /\ PipeSize \in Nat \ {0}

Child == 0 .. Parallelism - 1
Byte  == 1 .. InputLen

VARIABLES
    newline,           \* the bytes that are '\n'
    pc,                \* where the parent is
    t,                 \* local: the loop variable of most loops
    read,              \* how many bytes getchar has returned
    output,            \* local: whose turn it is
    child,             \* where each child is
    path,              \* what the name fifo-t stands for
    opened,            \* has the child's freopen opened the fifo?
    writer,            \* what fopen has returned to the parent, or has it closed it
    buffer,            \* bytes in the parent's FILE
    fifo,              \* bytes in the fifo, or in the file in its place
    got                \* bytes the command has read

vars == <<newline, pc, t, read, output, child, path, opened, writer, buffer, fifo, got>>

data == <<writer, buffer, fifo, got>>

-----------------------------------------------------------------------------
Init ==
    /\ newline \in SUBSET Byte
    /\ pc = "fork"
    /\ t = 0
    /\ read = 0
    /\ output = 0
    /\ child = [c \in Child |-> "none"]
    /\ path = [c \in Child |-> "none"]
    /\ opened = [c \in Child |-> FALSE]
    /\ writer = [c \in Child |-> "none"]
    /\ buffer = [c \in Child |-> <<>>]
    /\ fifo = [c \in Child |-> <<>>]
    /\ got = [c \in Child |-> <<>>]

Ended(c) == child[c] \in {"exited", "killed"}

ChildGoto(c, label) == child' = [child EXCEPT ![c] = label]

(* The mutant leaves the last child out.                                     *)
NextChild_OneShort(loop, next) ==
    IF t + 2 < Parallelism THEN t' = t + 1 /\ pc' = loop
                           ELSE t' = 0 /\ pc' = next

(* for (t = 0; t < parallelism; ++t), then the next part of main.            *)
NextChild(loop, next) ==
    IF t + 1 < Parallelism THEN t' = t + 1 /\ pc' = loop
                           ELSE t' = 0 /\ pc' = next

(* mkfifo and fork.                                                          *)
Fork ==
    /\ pc = "fork"
    /\ path' = [path EXCEPT ![t] = "fifo"]
    /\ ChildGoto(t, "open")
    /\ NextChild("fork", "fopen")
    /\ UNCHANGED <<newline, read, output, opened, data>>

(* mkfifo or fork fails: the parent returns, the children it has are left.   *)
ForkFails ==
    /\ pc = "fork"
    /\ pc' = "failed"
    /\ UNCHANGED <<newline, t, read, output, child, path, opened, data>>

(* open(2) of a fifo for reading returns once somebody opens it for writing. *)
ReaderWaits(c) == writer[c] \in {"none", "null"}

(* The child: freopen(fifo_path, "r", stdin).                                *)
Freopen(c) ==
    /\ child[c] = "open"
    /\ ~ReaderWaits(c)
    /\ opened' = [opened EXCEPT ![c] = TRUE]
    /\ ChildGoto(c, "unlink")
    /\ UNCHANGED <<newline, pc, t, read, output, path, data>>

(* It fails instead; nobody looks at that, and stdin is closed.              *)
FreopenFails(c) ==
    /\ child[c] = "open"
    /\ ReaderWaits(c)
    /\ ChildGoto(c, "unlink")
    /\ UNCHANGED <<newline, pc, t, read, output, path, opened, data>>

(* The child: unlink(fifo_path).                                             *)
Unlink(c) ==
    /\ child[c] = "unlink"
    /\ path' = [path EXCEPT ![c] = "none"]
    /\ ChildGoto(c, "exec")
    /\ UNCHANGED <<newline, pc, t, read, output, opened, data>>

(* The child: execvp or execl; a failure ends it, with status 5.             *)
Exec(c) ==
    /\ child[c] = "exec"
    /\ ChildGoto(c, "run") \/ ChildGoto(c, "exited")
    /\ UNCHANGED <<newline, pc, t, read, output, path, opened, data>>

(* The command reads a byte, if it has a stdin to read from.                 *)
ReadByte(c) ==
    /\ child[c] = "run"
    /\ opened[c]
    /\ fifo[c] # <<>>
    /\ got' = [got EXCEPT ![c] = Append(@, Head(fifo[c]))]
    /\ fifo' = [fifo EXCEPT ![c] = Tail(@)]
    /\ UNCHANGED <<newline, pc, t, read, output, child, path, opened, writer, buffer>>

(* The command ends at the end of its input, which comes when the fifo is    *)
(* empty and its writer has closed it or is gone; without stdin, at once.    *)
CommandEnds(c) ==
    /\ child[c] = "run"
    /\ opened[c] => fifo[c] = <<>> /\ writer[c] = "closed"
    /\ ChildGoto(c, "exited")
    /\ UNCHANGED <<newline, pc, t, read, output, path, opened, data>>

(* The command ends earlier, as head(1) does.                                *)
CommandQuits(c) ==
    /\ child[c] = "run"
    /\ ChildGoto(c, "exited")
    /\ UNCHANGED <<newline, pc, t, read, output, path, opened, data>>

(* A signal kills the child while it waits in its open.                      *)
ChildKilled(c) ==
    /\ child[c] = "open"
    /\ ChildGoto(c, "killed")
    /\ UNCHANGED <<newline, pc, t, read, output, path, opened, data>>

(* The parent: fopen(fifo_path, "w"), on to the next one.                    *)
Fopened(file) ==
    /\ writer' = [writer EXCEPT ![t] = file]
    /\ NextChild("fopen", "getchar")

(* The name is that of the fifo, and its open(2) begins.                     *)
FopenFifo ==
    /\ pc = "fopen"
    /\ path[t] = "fifo"
    /\ pc' = "fopen_fifo"
    /\ UNCHANGED <<newline, t, read, output, child, path, opened, data>>

(* It waits for the reader, which is in its open too.                        *)
Fopen ==
    /\ pc = "fopen_fifo"
    /\ child[t] = "open"
    /\ Fopened("open")
    /\ UNCHANGED <<newline, read, output, child, path, opened, buffer, fifo, got>>

(* The child has removed the name already: a regular file is made instead.   *)
FopenFile ==
    /\ pc = "fopen"
    /\ path[t] = "none"
    /\ path' = [path EXCEPT ![t] = "file"]
    /\ Fopened("open")
    /\ UNCHANGED <<newline, read, output, child, opened, buffer, fifo, got>>

(* It fails, which nobody looks at.                                          *)
FopenFails ==
    /\ pc = "fopen"
    /\ Fopened("null")
    /\ UNCHANGED <<newline, read, output, child, path, opened, buffer, fifo, got>>

(* The mutant goes on to the next child after every byte.                    *)
Turn_Always(b) == (output + 1) % Parallelism

(* After a newline it is the next child's turn.                              *)
Turn(b) == IF b \in newline THEN (output + 1) % Parallelism ELSE output

(* getchar, fputc: there is room in the FILE.                                *)
Deal ==
    /\ pc = "getchar"
    /\ read < InputLen
    /\ writer[output] # "null"
    /\ Len(buffer[output]) < BufSize
    /\ buffer' = [buffer EXCEPT ![output] = Append(@, read + 1)]
    /\ read' = read + 1
    /\ output' = Turn(read + 1)
    /\ UNCHANGED <<newline, pc, t, child, path, opened, writer, fifo, got>>

(* fputc: there is none, and stdio starts to write it out.                   *)
StartFlush ==
    /\ pc = "getchar"
    /\ read < InputLen
    /\ writer[output] # "null"
    /\ Len(buffer[output]) = BufSize
    /\ t' = output
    /\ pc' = "flush"
    /\ UNCHANGED <<newline, read, output, child, path, opened, data>>

(* EOF: on to the fcloses.                                                   *)
EndOfInput ==
    /\ pc = "getchar"
    /\ read = InputLen
    /\ t' = 0
    /\ pc' = "fclose"
    /\ UNCHANGED <<newline, read, output, child, path, opened, data>>

(* write(2), from fputc or fclose, a byte at a time; it waits when the fifo  *)
(* is full.  A regular file takes it all, and nobody reads it.               *)
WriteByte ==
    /\ pc \in {"flush", "fclose"}
    /\ buffer[t] # <<>>
    /\ path[t] = "file" \/ (~Ended(t) /\ Len(fifo[t]) < PipeSize)
    /\ buffer' = [buffer EXCEPT ![t] = Tail(@)]
    /\ fifo' = [fifo EXCEPT ![t] = Append(@, Head(buffer[t]))]
    /\ UNCHANGED <<newline, pc, t, read, output, child, path, opened, writer, got>>

(* The process is gone, its files are closed, its buffers lost.              *)
Gone == writer' = [c \in Child |-> IF writer[c] = "open" THEN "closed"
                                                         ELSE writer[c]]

(* Nobody reads the fifo any more: SIGPIPE kills the parent.                 *)
Sigpipe ==
    /\ pc \in {"flush", "fclose"}
    /\ buffer[t] # <<>>
    /\ Ended(t) /\ path[t] # "file"
    /\ pc' = "killed"
    /\ Gone
    /\ UNCHANGED <<newline, t, read, output, child, path, opened, buffer, fifo, got>>

(* fputc or fclose of the NULL that fopen has returned: SIGSEGV.             *)
NullStream ==
    /\ \/ pc = "getchar" /\ read < InputLen /\ writer[output] = "null"
       \/ pc = "fclose" /\ writer[t] = "null"
    /\ pc' = "crashed"
    /\ Gone
    /\ UNCHANGED <<newline, t, read, output, child, path, opened, buffer, fifo, got>>

(* The FILE is empty: fputc goes on.                                         *)
Flushed ==
    /\ pc = "flush"
    /\ buffer[t] = <<>>
    /\ pc' = "getchar"
    /\ UNCHANGED <<newline, t, read, output, child, path, opened, data>>

(* The mutant lets go of what stdio still holds.                             *)
FcloseReady_Never(c) == TRUE

FcloseReady(c) == buffer[c] = <<>>

(* The FILE is empty: fclose closes the fifo.                                *)
Fclose ==
    /\ pc = "fclose"
    /\ writer[t] # "null"
    /\ FcloseReady(t)
    /\ writer' = [writer EXCEPT ![t] = "closed"]
    /\ NextChild("fclose", "waitpid")
    /\ UNCHANGED <<newline, read, output, child, path, opened, buffer, fifo, got>>

Waitpid ==
    /\ pc = "waitpid"
    /\ Ended(t)
    /\ NextChild("waitpid", "rmdir")
    /\ UNCHANGED <<newline, read, output, child, path, opened, data>>

(* rmdir; a directory that is not empty only earns a message.                *)
Rmdir ==
    /\ pc = "rmdir"
    /\ pc' = IF \A c \in Child : path[c] = "none" THEN "done" ELSE "litter"
    /\ UNCHANGED <<newline, t, read, output, child, path, opened, data>>

ParentEnded == pc \in {"done", "litter", "failed", "killed", "crashed"}

ParentStep ==
    \/ Fork \/ ForkFails \/ FopenFifo \/ Fopen \/ FopenFile \/ FopenFails
    \/ Deal \/ StartFlush \/ EndOfInput \/ WriteByte \/ Sigpipe \/ NullStream
    \/ Flushed \/ Fclose \/ Waitpid \/ Rmdir

ChildStep(c) ==
    Freopen(c) \/ Unlink(c) \/ Exec(c) \/ ReadByte(c) \/ CommandEnds(c)

(* The parent is in the open(2) of a fifo nobody opens for reading any more. *)
KeptWaiting == pc = "fopen_fifo" /\ child[t] # "open"

(* A child waits for ever in its open if the parent's has failed, or the     *)
(* parent does not come to it.                                               *)
Stuck(c) == child[c] = "open" /\ (writer[c] = "null" \/ pc = "failed")

AllEnded ==
    /\ KeptWaiting \/ (ParentEnded /\ \A c \in Child : child[c] = "none" \/ Ended(c) \/ Stuck(c))
    /\ UNCHANGED vars

Next ==
    \/ ParentStep
    \/ \E c \in Child : ChildStep(c) \/ FreopenFails(c) \/ CommandQuits(c) \/ ChildKilled(c)
    \/ AllEnded

Spec == Init /\ [][Next]_vars

(* Everybody is scheduled; no command has to end before its input does.      *)
FairSpec ==
    /\ Spec
    /\ WF_vars(ParentStep)
    /\ \A c \in Child : WF_vars(ChildStep(c))

-----------------------------------------------------------------------------
(* The line that byte b is in, counted from 0.                               *)
LineOf(b) == Cardinality({n \in newline : n < b})

(* What child c is to get of the first n bytes, every Parallelism-th line:   *)
(* s holds all of these bytes and no other, each once and in order.          *)
IsShare(s, c, n) ==
    /\ \A i, j \in DOMAIN s : i < j => s[i] < s[j]
    /\ {s[i] : i \in DOMAIN s} = {b \in 1 .. n : LineOf(b) % Parallelism = c}

(* Line k goes to child k modulo -P, whole and in order: at every moment     *)
(* what a command has read, what is in its fifo, or in the regular file that *)
(* was made in its place, and what stdio holds make up its share of the      *)
(* bytes dealt so far.                                                       *)
LinesAreDealt ==
    \A c \in Child : IsShare(got[c] \o fifo[c] \o buffer[c], c, read)

(* When xlines ends of itself, every command has had its share of the whole  *)
(* input, but for what is left in its fifo by one that did not read to the   *)
(* end, or in the file made in the fifo's place.  A child that never opened  *)
(* its fifo does not keep xlines from ending, and the message that the       *)
(* directory cannot be removed is the one sign of it; it is a sure one       *)
(* (src/xlines.c:63, 85 and 109).                                            *)
NothingIsLost ==
    pc \in {"done", "litter"} =>
        /\ pc = "done" <=> \A c \in Child : opened[c]
        /\ \A c \in Child : fifo[c] = <<>> => IsShare(got[c], c, InputLen)

(* xlines ends, and so does every child, whether or not commands end early,  *)
(* children are killed and calls fail, with two exceptions.  A child that is *)
(* killed, or whose freopen fails, while the parent has not opened its fifo  *)
(* keeps it waiting (src/xlines.c:63 and 85); and those children are left    *)
(* waiting whose fifos the parent could not open, which ends it by a signal, *)
(* or has not come to when mkfifo or fork fails.                             *)
EverybodyEnds ==
    <>(KeptWaiting \/ (ParentEnded /\ \A c \in Child : child[c] = "none" \/ Ended(c) \/ Stuck(c)))
=============================================================================
