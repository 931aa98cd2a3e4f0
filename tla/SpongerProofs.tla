--------------------------- MODULE SpongerProofs ---------------------------
(* What the exit status of sponger says, and that the output file changes in *)
(* one step, for any number of invocations, any length of the output and any *)
(* number of failing calls.                                                  *)
EXTENDS Sponger, TLAPS

Code == {Unknown, Signalled, 0, 1, ESPONGER, ESPONGER_EXEC}

Alive == {"freopen", "execvp", "failed", "run"}

Places ==
    /\ pc \in [Proc -> {"mkstemp", "pipe", "fork", "waitpid", "unlink", "fread", "rename",
                        "exit", "killed"}]
    /\ child \in [Proc -> {"none", "zombie", "reaped"} \cup Alive]
    /\ wstatus \in [Proc -> Code] /\ status \in [Proc -> Code]
    /\ written \in [Proc -> Nat]
    /\ dest \in Proc \cup {Nobody}
    /\ faults \in Nat

Marks ==
    /\ tmp \in [Proc -> BOOLEAN] /\ pipe \in [Proc -> BOOLEAN]
    /\ daemon \in [Proc -> BOOLEAN]
    /\ ran \in [Proc -> BOOLEAN] /\ reported \in [Proc -> BOOLEAN]

Types == Places /\ Marks

LEMMA TypesHold == Types /\ [Next]_vars => Types'
<1> SUFFICES ASSUME Types, [Next]_vars PROVE Types'
  OBVIOUS
<1> USE SpongerAssumption
    DEF Types, Places, Marks, Code, Alive, Fault, Goto, Exit, ChildGoto, ChildEnds, parentVars, childVars,
        Unknown, Signalled, ESPONGER, ESPONGER_EXEC
<1>1. ASSUME NEW p \in Proc, Mkstemp(p) PROVE Types'
  <2>1. Places'
    BY <1>1 DEF Mkstemp
  <2>2. tmp' \in [Proc -> BOOLEAN]
    BY <1>1 DEF Mkstemp
  <2>3. UNCHANGED <<pipe, daemon, ran, reported>>
    BY <1>1 DEF Mkstemp
  <2> QED
    BY <2>1, <2>2, <2>3
<1>2. ASSUME NEW p \in Proc, Pipe(p) PROVE Types'
  BY <1>2 DEF Pipe
<1>3. ASSUME NEW p \in Proc, Fork(p) PROVE Types'
  BY <1>3 DEF Fork
<1>4. ASSUME NEW p \in Proc, Freopen(p) PROVE Types'
  BY <1>4 DEF Freopen
<1>5. ASSUME NEW p \in Proc, Execvp(p) PROVE Types'
  <2>1. Places'
    BY <1>5 DEF Execvp
  <2>2. ran' \in [Proc -> BOOLEAN]
    BY <1>5 DEF Execvp
  <2>3. UNCHANGED <<tmp, pipe, daemon, reported>>
    BY <1>5 DEF Execvp
  <2> QED
    BY <2>1, <2>2, <2>3
<1>6. ASSUME NEW p \in Proc, ExecFailed(p) PROVE Types'
  <2>1. Places'
    BY <1>6 DEF ExecFailed, Tell
  <2>2. pipe' \in [Proc -> BOOLEAN]
    BY <1>6 DEF ExecFailed, Tell
  <2>3. UNCHANGED <<tmp, daemon, ran, reported>>
    BY <1>6 DEF ExecFailed, Tell
  <2> QED
    BY <2>1, <2>2, <2>3
<1>7. ASSUME NEW p \in Proc, Write(p) PROVE Types'
  BY <1>7 DEF Write
<1>8. ASSUME NEW p \in Proc, ProgramExit(p) PROVE Types'
  <2>1. Places'
    BY <1>8 DEF ProgramExit
  <2>2. daemon' \in [Proc -> BOOLEAN]
    <3>1. daemon' = daemon \/ daemon' = [daemon EXCEPT ![p] = TRUE]
      BY <1>8 DEF ProgramExit
    <3>2. [daemon EXCEPT ![p] = TRUE] \in [Proc -> BOOLEAN]
      OBVIOUS
    <3> QED
      BY <3>1, <3>2
  <2>3. UNCHANGED <<tmp, pipe, ran, reported>>
    BY <1>8 DEF ProgramExit
  <2> QED
    BY <2>1, <2>2, <2>3
<1>9. ASSUME NEW p \in Proc, ChildKilled(p) PROVE Types'
  BY <1>9 DEF ChildKilled
<1>10. ASSUME NEW p \in Proc, DaemonWrites(p) PROVE Types'
  BY <1>10 DEF DaemonWrites
<1>11. ASSUME NEW p \in Proc, DaemonEnds(p) PROVE Types'
  BY <1>11 DEF DaemonEnds
<1>12. ASSUME NEW p \in Proc, Waitpid(p) PROVE Types'
  BY <1>12 DEF Waitpid, AfterWait
<1>13. ASSUME NEW p \in Proc, Unlink(p) PROVE Types'
  <2>1. Places'
    BY <1>13 DEF Unlink, Remove
  <2>2. tmp' \in [Proc -> BOOLEAN]
    <3>1. tmp' = tmp \/ tmp' = [tmp EXCEPT ![p] = FALSE]
      BY <1>13 DEF Unlink, Remove
    <3> QED
      BY <3>1
  <2>3. UNCHANGED <<pipe, daemon, ran, reported>>
    BY <1>13 DEF Unlink, Remove
  <2> QED
    BY <2>1, <2>2, <2>3
<1>14. ASSUME NEW p \in Proc, Fread(p) PROVE Types'
  BY <1>14 DEF Fread, PipeClosed
<1>15. ASSUME NEW p \in Proc, Rename(p) PROVE Types'
  <2>1. Places'
    BY <1>15 DEF Rename
  <2>2. tmp' \in [Proc -> BOOLEAN]
    BY <1>15 DEF Rename
  <2>3. UNCHANGED <<pipe, daemon, ran, reported>>
    BY <1>15 DEF Rename
  <2> QED
    BY <2>1, <2>2, <2>3
<1>16. ASSUME NEW p \in Proc, ParentKilled(p) PROVE Types'
  BY <1>16 DEF ParentKilled
<1>17. CASE UNCHANGED vars
  BY <1>17 DEF vars
<1> QED
  BY <1>1, <1>2, <1>3, <1>4, <1>5, <1>6, <1>7, <1>8, <1>9, <1>10, <1>11, <1>12, <1>13, <1>14, <1>15, <1>16, <1>17
  DEF Next, ParentStep, ChildStep, AllEnded

-----------------------------------------------------------------------------
(* Where the parent is in relation to its child: it has reaped it before it  *)
(* decides what to do with the output, and has decided when it exits.        *)
ParentAndChild(p) ==
    /\ pc[p] \in {"mkstemp", "pipe", "fork"} => child[p] = "none"
    /\ pc[p] = "waitpid" => child[p] \in {"zombie"} \cup Alive
    /\ pc[p] \in {"unlink", "fread", "rename"} => child[p] = "reaped"
    /\ pc[p] = "exit" => child[p] \in {"none", "reaped"}

(* How the child ended, and what it leaves behind.                           *)
ChildEnded(p) ==
    /\ child[p] = "run" => ran[p]
    /\ child[p] \in {"none", "freopen", "execvp", "failed"} => ~ran[p]
    /\ child[p] \in {"none"} \cup Alive => wstatus[p] = Unknown /\ ~pipe[p]
    /\ child[p] \in {"zombie", "reaped"} => wstatus[p] # Unknown
    /\ wstatus[p] = 0 => written[p] >= Output
    /\ pipe[p] => ~ran[p]
    /\ wstatus[p] = ESPONGER_EXEC /\ faults = 0 /\ ~ran[p] => pipe[p]

(* What the parent makes of it.                                              *)
Decided(p) ==
    /\ pc[p] = "rename" => wstatus[p] = 0
    /\ pc[p] = "unlink" => wstatus[p] \notin {0, Signalled}
    /\ pc[p] = "fread" => wstatus[p] = ESPONGER_EXEC /\ (faults = 0 => ~tmp[p])
    /\ dest = p => pc[p] = "exit" /\ status[p] = 0
    /\ reported[p] => pipe[p]

StatusOf(p) ==
    pc[p] = "exit" =>
        /\ status[p] = 0 => ~tmp[p] /\ wstatus[p] = 0
        /\ status[p] # 0 => dest # p
        /\ tmp[p] /\ faults = 0 => wstatus[p] = Signalled
        /\ status[p] = ESPONGER_EXEC /\ faults = 0 /\ ~ran[p] => reported[p]

SpongerInv ==
    /\ Types
    /\ \A p \in Proc : ParentAndChild(p) /\ ChildEnded(p) /\ Decided(p) /\ StatusOf(p)

-----------------------------------------------------------------------------
(* A step of one invocation leaves the others as they are.                   *)
OwnStep(p) ==
    \/ ParentStep(p) \/ ChildStep(p) \/ ChildKilled(p)
    \/ DaemonWrites(p) \/ DaemonEnds(p) \/ ParentKilled(p)

Kept(q) ==
    /\ pc'[q] = pc[q] /\ child'[q] = child[q] /\ wstatus'[q] = wstatus[q]
    /\ status'[q] = status[q] /\ written'[q] = written[q]
    /\ tmp'[q] = tmp[q] /\ pipe'[q] = pipe[q] /\ ran'[q] = ran[q]
    /\ reported'[q] = reported[q]

LEMMA OthersKept ==
    ASSUME Types, NEW p \in Proc, OwnStep(p), NEW q \in Proc, q # p
    PROVE  Kept(q) /\ dest' \in {p, dest}
<1> USE DEF Types, Places, Marks, Kept, Fault, Goto, Exit, ChildGoto, ChildEnds, parentVars,
            childVars
<1>1. CASE Mkstemp(p)
  BY <1>1 DEF Mkstemp
<1>2. CASE Pipe(p)
  BY <1>2 DEF Pipe
<1>3. CASE Fork(p)
  BY <1>3 DEF Fork
<1>4. CASE Freopen(p)
  BY <1>4 DEF Freopen
<1>5. CASE Execvp(p)
  BY <1>5 DEF Execvp
<1>6. CASE ExecFailed(p)
  BY <1>6 DEF ExecFailed, Tell
<1>7. CASE Write(p)
  BY <1>7 DEF Write
<1>8. CASE ProgramExit(p)
  BY <1>8 DEF ProgramExit
<1>9. CASE ChildKilled(p)
  BY <1>9 DEF ChildKilled
<1>10. CASE DaemonWrites(p)
  BY <1>10 DEF DaemonWrites
<1>11. CASE DaemonEnds(p)
  BY <1>11 DEF DaemonEnds
<1>12. CASE Waitpid(p)
  BY <1>12 DEF Waitpid, AfterWait
<1>13. CASE Unlink(p)
  BY <1>13 DEF Unlink, Remove
<1>14. CASE Fread(p)
  BY <1>14 DEF Fread, PipeClosed
<1>15. CASE Rename(p)
  BY <1>15 DEF Rename
<1>16. CASE ParentKilled(p)
  BY <1>16 DEF ParentKilled
<1> QED
  BY <1>1, <1>2, <1>3, <1>4, <1>5, <1>6, <1>7, <1>8, <1>9, <1>10, <1>11, <1>12, <1>13, <1>14, <1>15, <1>16
  DEF OwnStep, ParentStep, ChildStep

(* What the invocation itself does to its part of the invariant.             *)
LEMMA OwnKept ==
    ASSUME Types, Types', NEW p \in Proc, OwnStep(p), dest \in Proc \cup {Nobody},
           ParentAndChild(p), ChildEnded(p), Decided(p), StatusOf(p)
    PROVE  (ParentAndChild(p) /\ ChildEnded(p) /\ Decided(p) /\ StatusOf(p))'
<1> USE SpongerAssumption
    DEF Types, Places, Marks, Code, Alive, Fault, Goto, Exit, ChildGoto, ChildEnds, parentVars,
        childVars, Ended, Unknown, Signalled, ESPONGER, ESPONGER_EXEC,
        ParentAndChild, ChildEnded, Decided, StatusOf
<1>1. CASE Mkstemp(p)
  BY <1>1 DEF Mkstemp
<1>2. CASE Pipe(p)
  BY <1>2 DEF Pipe
<1>3. CASE Fork(p)
  BY <1>3 DEF Fork
<1>4. CASE Freopen(p)
  BY <1>4 DEF Freopen
<1>5. CASE Execvp(p)
  BY <1>5 DEF Execvp
<1>6. CASE ExecFailed(p)
  BY <1>6 DEF ExecFailed, Tell
<1>7. CASE Write(p)
  BY <1>7 DEF Write
<1>8. CASE ProgramExit(p)
  BY <1>8 DEF ProgramExit
<1>9. CASE ChildKilled(p)
  BY <1>9 DEF ChildKilled
<1>10. CASE DaemonWrites(p)
  BY <1>10 DEF DaemonWrites
<1>11. CASE DaemonEnds(p)
  BY <1>11 DEF DaemonEnds
<1>12. CASE Waitpid(p)
  BY <1>12 DEF Waitpid, AfterWait
<1>13. CASE Unlink(p)
  BY <1>13 DEF Unlink, Remove
<1>14. CASE Fread(p)
  BY <1>14 DEF Fread, PipeClosed
<1>15. CASE Rename(p)
  BY <1>15 DEF Rename
<1>16. CASE ParentKilled(p)
  BY <1>16 DEF ParentKilled
<1> QED
  BY <1>1, <1>2, <1>3, <1>4, <1>5, <1>6, <1>7, <1>8, <1>9, <1>10, <1>11, <1>12, <1>13, <1>14, <1>15, <1>16
  DEF OwnStep, ParentStep, ChildStep

LEMMA InvInit == Init => SpongerInv
BY SpongerAssumption
DEF Init, SpongerInv, Types, Places, Marks, Code, Alive, ParentAndChild, ChildEnded, Decided,
    StatusOf, Unknown, Signalled, ESPONGER, ESPONGER_EXEC

LEMMA InvStep == SpongerInv /\ [Next]_vars => SpongerInv'
<1> SUFFICES ASSUME SpongerInv, [Next]_vars PROVE SpongerInv'
  OBVIOUS
<1>1. Types /\ Types'
  BY TypesHold DEF SpongerInv
<1>2. ASSUME NEW p \in Proc, OwnStep(p), NEW q \in Proc
      PROVE  (ParentAndChild(q) /\ ChildEnded(q) /\ Decided(q) /\ StatusOf(q))'
  <2>1. CASE q = p
    BY <1>1, <1>2, <2>1, OwnKept DEF SpongerInv, Types, Places
  <2>2. CASE q # p
    <3>1. Kept(q) /\ dest' \in {p, dest} /\ (faults' = 0 => faults = 0)
      <4>1. faults' = faults \/ faults' = faults + 1
        BY <1>2
        DEF OwnStep, ParentStep, ChildStep, Mkstemp, Pipe, Fork, Freopen, Execvp, ExecFailed,
            Write, ProgramExit, ChildKilled, DaemonWrites, DaemonEnds, Waitpid, Unlink, Fread,
            Rename, ParentKilled, Fault
      <4> QED
        BY <1>1, <1>2, <2>2, <4>1, OthersKept DEF Types, Places
    <3>2. ParentAndChild(q) /\ ChildEnded(q) /\ Decided(q) /\ StatusOf(q)
      BY DEF SpongerInv
    <3> QED
      BY <2>2, <3>1, <3>2 DEF Kept, ParentAndChild, ChildEnded, Decided, StatusOf
  <2> QED
    BY <2>1, <2>2
<1>3. CASE UNCHANGED vars
  BY <1>1, <1>3
  DEF vars, SpongerInv, ParentAndChild, ChildEnded, Decided, StatusOf
<1> QED
  BY <1>1, <1>2, <1>3 DEF Next, OwnStep, AllEnded, SpongerInv

(* Whichever calls fail, whoever is killed and however the invocations       *)
(* interleave, the exit status tells what has become of the output           *)
(* (src/sponger.c).                                                          *)
THEOREM StatusSafe == Spec => []StatusTells
<1>1. SpongerInv => StatusTells
  BY DEF SpongerInv, ChildEnded, Decided, StatusOf, StatusTells
<1> QED
  BY <1>1, InvInit, InvStep, PTL DEF Spec

-----------------------------------------------------------------------------
(* What the refinement mapping shows of the output file.                     *)
Content == IF dest = Nobody THEN Nobody ELSE <<dest, written[dest]>>

LEMMA ContentIsWhole ==
    ASSUME NEW p \in Proc, NEW n \in Nat, n >= Output
    PROVE  File!IsWhole(<<p, n>>)
BY SpongerAssumption DEF File!IsWhole

(* The output file changes when a program succeeds, or grows when the        *)
(* program has left somebody behind.                                         *)
LEMMA ContentStep ==
    ASSUME SpongerInv, NEW p \in Proc, OwnStep(p)
    PROVE  \/ UNCHANGED Content
           \/ /\ Content' = <<p, written[p]>> /\ written[p] >= Output
              /\ dest # p
           \/ /\ dest = p /\ written[p] >= Output
              /\ Content = <<p, written[p]>> /\ Content' = <<p, written[p] + 1>>
<1> USE SpongerAssumption DEF SpongerInv, Types, Places, Content
<1>1. CASE Rename(p)
  BY <1>1 DEF Rename, ChildEnded, Decided
<1>2. CASE DaemonWrites(p)
  BY <1>2 DEF DaemonWrites, ChildEnded, Decided, StatusOf
<1>3. CASE Write(p)
  <2>1. dest # p
    BY <1>3 DEF Write, Decided, ParentAndChild, Alive
  <2> QED
    BY <1>3, <2>1 DEF Write
<1>4. CASE ~Rename(p) /\ ~DaemonWrites(p) /\ ~Write(p)
  <2>1. UNCHANGED <<dest, written>>
    BY <1>4 DEF OwnStep, ParentStep, ChildStep, Mkstemp, Pipe, Fork, Freopen, Execvp,
                ExecFailed, ProgramExit, ChildKilled, DaemonEnds, Waitpid, Unlink, Fread,
                ParentKilled
  <2> QED
    BY <2>1
<1> QED
  BY <1>1, <1>2, <1>3, <1>4

(* The output file is the old one or the whole output of one successful      *)
(* program at any time, for any number of invocations that write to it.      *)
THEOREM ReplacementSafe == Spec => ReplacesAtomically
<1> USE DEF ReplacesAtomically
<1>1. Init => File!Init
  BY DEF Init, File!Init
<1>2. SpongerInv /\ [Next]_vars => [File!Next]_Content
  <2> SUFFICES ASSUME SpongerInv, [Next]_vars PROVE [File!Next]_Content
    OBVIOUS
  <2>1. ASSUME NEW p \in Proc, OwnStep(p) PROVE [File!Next]_Content
    <3>1. CASE UNCHANGED Content
      BY <3>1
    <3>2. CASE Content' = <<p, written[p]>> /\ written[p] >= Output /\ dest # p
      <4>1. Content = Nobody \/ Content[1] # p
        BY <3>2 DEF Content
      <4>2. File!IsWhole(Content')
        BY <3>2, ContentIsWhole DEF SpongerInv, Types, Places
      <4> QED
        BY <3>2, <4>1, <4>2 DEF File!Next, File!Replace, Content
    <3>3. CASE /\ dest = p /\ written[p] >= Output
               /\ Content = <<p, written[p]>> /\ Content' = <<p, written[p] + 1>>
      <4>1. written[p] \in Nat /\ written[p] + 1 \in Nat /\ written[p] + 1 >= Output
        BY <3>3, SpongerAssumption DEF SpongerInv, Types, Places
      <4>2. File!IsWhole(Content') /\ Content # Nobody
        BY <3>3, <4>1, ContentIsWhole, SpongerAssumption
      <4> QED
        BY <3>3, <4>1, <4>2 DEF File!Next, File!Append, Content
    <3> QED
      BY <2>1, <3>1, <3>2, <3>3, ContentStep
  <2>2. CASE UNCHANGED vars
    BY <2>2 DEF vars, Content
  <2> QED
    BY <2>1, <2>2 DEF Next, OwnStep, AllEnded
<1> QED
  BY <1>1, <1>2, InvInit, InvStep, PTL DEF Spec, File!Spec, Content
=============================================================================
