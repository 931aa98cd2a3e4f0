------------------------------ MODULE Sponger -------------------------------
(* src/sponger.c: run a program with its output in a temporary file, and     *)
(* rename that file to the output file when the program succeeds.  Several   *)
(* invocations may write to the same output file.  An invocation is a parent *)
(* (sponger itself), its child, which becomes the program, and a pipe on     *)
(* which the child says why it could not.  The pipe has no close-on-exec     *)
(* flag, so that what the program leaves behind in the background keeps it   *)
(* open, together with the temporary file.                                   *)
EXTENDS Integers

CONSTANTS
    Proc,              \* the invocations
    Nobody,
    Output,            \* how much a successful program writes
    MaxFaults          \* how many calls may fail of themselves

ASSUME SpongerAssumption ==
    /\ Nobody \notin Proc \cup (Proc \X Nat)
    /\ Output \in Nat
    /\ MaxFaults \in Nat

ESPONGER      == 241
ESPONGER_EXEC == 242
Signalled     == -1    \* the child did not exit but was killed
Unknown       == -2

VARIABLES
    pc,                \* where each parent is
    child,             \* where its child is
    wstatus,           \* how the child ended
    tmp,               \* is the temporary name there?
    written,           \* how much is in the file that had this name
    pipe,              \* is the child's message in the pipe?
    daemon,            \* has the program left somebody behind?
    dest,              \* whose file is the output file
    status,            \* exit status of the parent
    ran,               \* has execvp started the program?
    reported,          \* has the parent printed the child's message?
    faults             \* system calls that have failed

vars == <<pc, child, wstatus, tmp, written, pipe, daemon, dest, status,
          ran, reported, faults>>

childVars  == <<child, wstatus>>
parentVars == <<pc, status>>

-----------------------------------------------------------------------------
(* No memory, no space, a limit reached: a call may fail.                    *)
Fault == faults < MaxFaults /\ faults' = faults + 1

Goto(p, label) == pc' = [pc EXCEPT ![p] = label] /\ UNCHANGED status

Exit(p, s) ==
    /\ pc' = [pc EXCEPT ![p] = "exit"]
    /\ status' = [status EXCEPT ![p] = s]

ChildGoto(p, label) == child' = [child EXCEPT ![p] = label] /\ UNCHANGED wstatus

ChildEnds(p, s) ==
    /\ child' = [child EXCEPT ![p] = "zombie"]
    /\ wstatus' = [wstatus EXCEPT ![p] = s]

Ended(p) == pc[p] \in {"exit", "killed"}

Init ==
    /\ pc = [p \in Proc |-> "mkstemp"]
    /\ child = [p \in Proc |-> "none"]
    /\ wstatus = [p \in Proc |-> Unknown]
    /\ tmp = [p \in Proc |-> FALSE]
    /\ written = [p \in Proc |-> 0]
    /\ pipe = [p \in Proc |-> FALSE]
    /\ daemon = [p \in Proc |-> FALSE]
    /\ dest = Nobody
    /\ status = [p \in Proc |-> Unknown]
    /\ ran = [p \in Proc |-> FALSE]
    /\ reported = [p \in Proc |-> FALSE]
    /\ faults = 0

(* mkstemp gives a name nobody else has.                                     *)
Mkstemp(p) ==
    /\ pc[p] = "mkstemp"
    /\ \/ tmp' = [tmp EXCEPT ![p] = TRUE] /\ Goto(p, "pipe") /\ UNCHANGED faults
       \/ Fault /\ UNCHANGED tmp /\ Exit(p, ESPONGER)
    /\ UNCHANGED <<childVars, written, pipe, daemon, dest, ran, reported>>

(* calloc, strdup, pipe: a failure leaves the temporary file behind.         *)
Pipe(p) ==
    /\ pc[p] = "pipe"
    /\ \/ Goto(p, "fork") /\ UNCHANGED faults
       \/ Fault /\ Exit(p, ESPONGER)
    /\ UNCHANGED <<childVars, tmp, written, pipe, daemon, dest, ran, reported>>

Fork(p) ==
    /\ pc[p] = "fork"
    /\ \/ Goto(p, "waitpid") /\ ChildGoto(p, "freopen") /\ UNCHANGED faults
       \/ Fault /\ Exit(p, ESPONGER) /\ UNCHANGED childVars
    /\ UNCHANGED <<tmp, written, pipe, daemon, dest, ran, reported>>

(* The child: stdout and stderr become the temporary file.                   *)
Freopen(p) ==
    /\ child[p] = "freopen"
    /\ \/ ChildGoto(p, "execvp") /\ UNCHANGED faults
       \/ Fault /\ ChildEnds(p, ESPONGER)
    /\ UNCHANGED <<parentVars, tmp, written, pipe, daemon, dest, ran, reported>>

(* The child: there may be no such program.                                  *)
Execvp(p) ==
    /\ child[p] = "execvp"
    /\ \/ ChildGoto(p, "run") /\ ran' = [ran EXCEPT ![p] = TRUE]
       \/ ChildGoto(p, "failed") /\ UNCHANGED ran
    /\ UNCHANGED <<parentVars, tmp, written, pipe, daemon, dest, reported,
                   faults>>

(* fdopen, fwrite, fclose of the pipe.                                       *)
Tell(p) == pipe' = [pipe EXCEPT ![p] = TRUE]

(* The child: tell the parent why, or be killed by SIGPIPE if it has gone.   *)
ExecFailed(p) ==
    /\ child[p] = "failed"
    /\ \/ ~Ended(p) /\ Tell(p) /\ ChildEnds(p, ESPONGER_EXEC) /\ UNCHANGED faults
       \/ Ended(p) /\ ChildEnds(p, Signalled) /\ UNCHANGED <<pipe, faults>>
       \/ Fault /\ UNCHANGED pipe /\ ChildEnds(p, ESPONGER_EXEC)
    /\ UNCHANGED <<parentVars, tmp, written, daemon, dest, ran, reported>>

(* The program writes.                                                       *)
Write(p) ==
    /\ child[p] = "run"
    /\ written[p] < Output
    /\ written' = [written EXCEPT ![p] = @ + 1]
    /\ UNCHANGED <<parentVars, childVars, tmp, pipe, daemon, dest, ran,
                   reported, faults>>

(* The program ends.  It has written everything when it reports success; it  *)
(* may use sponger's own exit codes.                                         *)
ProgramExit(p) ==
    /\ child[p] = "run"
    /\ \/ written[p] = Output /\ ChildEnds(p, 0)
       \/ \E s \in {1, ESPONGER, ESPONGER_EXEC} : ChildEnds(p, s)
    /\ \/ UNCHANGED daemon
       \/ daemon' = [daemon EXCEPT ![p] = TRUE]
    /\ UNCHANGED <<parentVars, tmp, written, pipe, dest, ran,
                   reported, faults>>

(* A signal kills the child, before or after execvp.                         *)
ChildKilled(p) ==
    /\ child[p] \in {"freopen", "execvp", "failed", "run"}
    /\ ChildEnds(p, Signalled)
    /\ UNCHANGED <<parentVars, tmp, written, pipe, daemon, dest, ran,
                   reported, faults>>

(* What the program has left behind has the temporary file, and goes on      *)
(* writing to it, under whatever name it has by now.                         *)
DaemonWrites(p) ==
    /\ daemon[p]
    /\ written[p] <= Output
    /\ written' = [written EXCEPT ![p] = @ + 1]
    /\ UNCHANGED <<parentVars, childVars, tmp, pipe, daemon, dest, ran,
                   reported, faults>>

(* What the program has left behind ends.                                    *)
DaemonEnds(p) ==
    /\ daemon[p]
    /\ daemon' = [daemon EXCEPT ![p] = FALSE]
    /\ UNCHANGED <<parentVars, childVars, tmp, written, pipe, dest, ran,
                   reported, faults>>

(* The mutant looks at WEXITSTATUS only, which is 0 for a killed child.      *)
AfterWait_NoIfexited(p) ==
    IF wstatus[p] \in {0, Signalled} THEN Goto(p, "rename") ELSE Goto(p, "unlink")

AfterWait(p) ==
    CASE wstatus[p] = Signalled -> Exit(p, ESPONGER)
      [] wstatus[p] = 0         -> Goto(p, "rename")
      [] OTHER                  -> Goto(p, "unlink")

(* waitpid.  A child that was killed leaves the temporary file behind.       *)
Waitpid(p) ==
    /\ pc[p] = "waitpid"
    /\ child[p] = "zombie"
    /\ child' = [child EXCEPT ![p] = "reaped"]
    /\ \/ AfterWait(p) /\ UNCHANGED faults
       \/ Fault /\ Exit(p, ESPONGER)
    /\ UNCHANGED <<wstatus, tmp, written, pipe, daemon, dest, ran, reported>>

(* The mutant keeps the temporary file.                                      *)
Remove_Not(p) == UNCHANGED tmp

Remove(p) == tmp' = [tmp EXCEPT ![p] = FALSE]

(* The program failed: drop its output.                                      *)
Unlink(p) ==
    /\ pc[p] = "unlink"
    /\ \/ Remove(p) /\ UNCHANGED faults
       \/ Fault /\ UNCHANGED tmp
    /\ IF wstatus[p] = ESPONGER_EXEC THEN Goto(p, "fread")
                                     ELSE Exit(p, wstatus[p])
    /\ UNCHANGED <<childVars, written, pipe, daemon, dest, ran, reported>>

(* The mutant keeps its own write end of the pipe.                           *)
PipeClosed_Never(p) == FALSE

(* Nobody can write to the pipe any more.                                    *)
PipeClosed(p) == ~daemon[p]

(* Read the pipe to its end, which comes when its last writer is gone.  A    *)
(* program that ends with 242 itself has left nothing in it.                 *)
Fread(p) ==
    /\ pc[p] = "fread"
    /\ \/ /\ PipeClosed(p)
          /\ reported' = [reported EXCEPT ![p] = pipe[p]]
          /\ UNCHANGED faults
       \/ Fault /\ UNCHANGED reported
    /\ Exit(p, ESPONGER_EXEC)
    /\ UNCHANGED <<childVars, tmp, written, pipe, daemon, dest, ran>>

(* The program succeeded: its output becomes the output file.                *)
Rename(p) ==
    /\ pc[p] = "rename"
    /\ \/ /\ dest' = p
          /\ tmp' = [tmp EXCEPT ![p] = FALSE]
          /\ Exit(p, wstatus[p])
          /\ UNCHANGED faults
       \/ /\ Fault
          /\ UNCHANGED <<dest, tmp>>
          /\ Exit(p, ESPONGER)
    /\ UNCHANGED <<childVars, written, pipe, daemon, ran, reported>>

(* A signal kills the parent; the child goes on.                             *)
ParentKilled(p) ==
    /\ ~Ended(p)
    /\ pc' = [pc EXCEPT ![p] = "killed"]
    /\ UNCHANGED <<childVars, tmp, written, pipe, daemon, dest, status, ran,
                   reported, faults>>

ParentStep(p) ==
    \/ Mkstemp(p) \/ Pipe(p) \/ Fork(p) \/ Waitpid(p) \/ Unlink(p) \/ Fread(p)
    \/ Rename(p)

ChildStep(p) ==
    \/ Freopen(p) \/ Execvp(p) \/ ExecFailed(p) \/ Write(p) \/ ProgramExit(p)

(* Nothing is left to run.                                                   *)
AllEnded ==
    /\ \A p \in Proc : Ended(p) /\ child[p] \in {"none", "zombie", "reaped"}
    /\ UNCHANGED vars

Next ==
    \/ \E p \in Proc : ParentStep(p) \/ ChildStep(p) \/ ChildKilled(p)
                       \/ DaemonWrites(p) \/ DaemonEnds(p) \/ ParentKilled(p)
    \/ AllEnded

Spec == Init /\ [][Next]_vars

(* The parent is scheduled, and the program ends after so many writes.       *)
FairSpec ==
    Spec /\ \A p \in Proc : WF_vars(ParentStep(p)) /\ WF_vars(ChildStep(p))

-----------------------------------------------------------------------------
(* The output file is always the old one or holds the whole output of a      *)
(* program that succeeded, and changes in one step.                          *)
File == INSTANCE AtomicFile
    WITH Run <- Proc, Old <- Nobody, Whole <- Output,
         content <- IF dest = Nobody THEN Nobody ELSE <<dest, written[dest]>>

ReplacesAtomically == File!Spec

(* The exit status tells what has become of the output: 0 that it has been   *)
(* moved into place, any other that the output file was left alone.  A       *)
(* temporary file outlives sponger only after a failed call, or when a       *)
(* signal ended the child: every ending of the program itself cleans up.     *)
(* And with status 242, which may as well be the program's own, "execvp      *)
(* failed" is printed only if execvp failed, and always then unless a call   *)
(* that should have carried the message failed.                              *)
StatusTells ==
    \A p \in Proc : pc[p] = "exit" =>
        /\ status[p] = 0 => ~tmp[p] /\ wstatus[p] = 0
        /\ status[p] # 0 => dest # p
        /\ tmp[p] /\ faults = 0 => wstatus[p] = Signalled
        /\ status[p] = ESPONGER_EXEC /\ reported[p] => ~ran[p]
        /\ status[p] = ESPONGER_EXEC /\ faults = 0 /\ ~ran[p] => reported[p]

(* sponger ends once its program has, even if the program leaves others      *)
(* behind; only after exit code 242 does it wait for those as well.          *)
EndsAfterProgram ==
    \A p \in Proc : \/ <>Ended(p)
                    \/ <>[](daemon[p] /\ wstatus[p] = ESPONGER_EXEC)
=============================================================================
