------------------------- MODULE DroppedShellProofs -------------------------
(* That a login over ssh keeps nothing, for any number of capabilities and   *)
(* of failing calls.                                                         *)
EXTENDS DroppedShell, TLAPS

(* What a process and its descendants cannot undo; any file it executes then *)
(* takes the permitted set away.                                             *)
Stripped == securebits = TRUE /\ no_new_privs = TRUE /\ bounding = {} /\ filtered = TRUE

Asking == {"get_no_new_privs", "read_max_cap", "read_bounding"}
Harder == {"exec_harder", "set_no_new_privs", "seccomp_load"}

(* How far the process has got.  Only drop-privs-harder loads the filter,    *)
(* and have-dropped-all-caps does not look for it: what it finds in its      *)
(* stead are the securebits, which no process of the login has that did not  *)
(* come out of the whole chain.  Both loops have been over the capabilities  *)
(* below cap.                                                                *)
Progress ==
    /\ pc \in {"bash", "exec_bash"} => Stripped
    /\ pc = "bash" => permitted = {}
    /\ pc = "dropped_shell" /\ ~SSH_CONNECTION => Stripped
    /\ pc \in {"dropped_shell", "get_securebits"} /\ securebits => filtered = TRUE
    /\ pc \in Asking => securebits = TRUE /\ filtered = TRUE
    /\ pc \in {"read_max_cap", "read_bounding"} => no_new_privs = TRUE
    /\ pc \in {"find_max_cap", "drop_bounding"} \cup Harder => securebits = TRUE
    /\ pc \in {"read_bounding", "drop_bounding"} =>
          \A c \in Cap : c < cap => c \notin bounding
    /\ pc \in Harder => bounding = {}
    /\ pc = "seccomp_load" => no_new_privs = TRUE

ShellInv ==
    /\ bounding \subseteq Cap /\ cap \in Cap
    /\ SSH_CONNECTION \in BOOLEAN /\ securebits \in BOOLEAN
    /\ remote => Progress

LEMMA InitHolds == Init => ShellInv
<1> SUFFICES ASSUME Init PROVE ShellInv
  OBVIOUS
<1>1. pc = "dropped_shell" /\ SSH_CONNECTION = remote /\ remote \in BOOLEAN
  BY DEF Init
<1>2. bounding = Cap /\ cap = 0 /\ securebits = FALSE
  BY DEF Init
<1>3. bounding \subseteq Cap /\ cap \in Cap
  BY <1>2, DroppedShellAssumption DEF Cap
<1>4. SSH_CONNECTION \in BOOLEAN /\ securebits \in BOOLEAN /\ (remote => SSH_CONNECTION)
  BY <1>1, <1>2, Zenon
<1>5. remote => Progress
  BY <1>1, <1>2, <1>4 DEF Progress, Asking, Harder
<1> QED
  BY <1>3, <1>4, <1>5 DEF ShellInv

(* Nothing is left where the loop has ended.                                 *)
LEMMA LoopOver ==
    ASSUME NEW c \in Cap, NEW B \in SUBSET Cap, \A d \in Cap : d < c => d \notin B,
           c \notin B
    PROVE  /\ c < LastCap => \A d \in Cap : d < c + 1 => d \notin B
           /\ ~(c < LastCap) => B = {}
BY DroppedShellAssumption DEF Cap

(* An execve(2) of a stripped process leaves it so, and with nothing         *)
(* permitted.                                                                *)
LEMMA ExecStripped ==
    ASSUME NEW file, Exec(file)
    PROVE  /\ UNCHANGED <<securebits, no_new_privs, bounding, filtered>>
           /\ bounding = {} => permitted' = {}
BY DEF Exec

(* src/dropped-shell and src/have-dropped-all-caps.c                         *)
LEMMA AskStep ==
    ASSUME ShellInv,
           dropped_shell \/ GetSecurebits \/ GetNoNewPrivs \/ ReadMaxCap \/ ReadBounding
    PROVE  ShellInv'
<1> USE DEF ShellInv, Progress, Stripped, Asking, Harder, session, creds
<1>1. CASE dropped_shell
  BY <1>1 DEF dropped_shell
<1>2. CASE GetSecurebits
  BY <1>2 DEF GetSecurebits, NotDropped
<1>3. CASE GetNoNewPrivs
  BY <1>3 DEF GetNoNewPrivs, NotDropped
<1>4. CASE ReadMaxCap
  BY <1>4, DroppedShellAssumption DEF ReadMaxCap, find_max_cap, NotDropped, Call, Cap
<1>5. CASE ReadBounding
  <2>1. CASE cap \notin bounding /\ NextCap("exec_bash")
    <3>1. ASSUME remote
          PROVE  /\ cap < LastCap => \A d \in Cap : d < cap + 1 => d \notin bounding
                 /\ ~(cap < LastCap) => bounding = {}
      BY <3>1, <1>5, <2>1, LoopOver DEF ReadBounding
    <3>2. pc = "read_bounding" /\ UNCHANGED <<session, SSH_CONNECTION, creds>>
      BY <1>5 DEF ReadBounding
    <3>3. CASE cap < LastCap
      <4>1. cap' = cap + 1 /\ cap + 1 \in Cap /\ pc' = pc
        BY <2>1, <3>3, DroppedShellAssumption DEF NextCap, Cap
      <4> QED
        BY <3>1, <3>2, <3>3, <4>1
    <3>4. CASE ~(cap < LastCap)
      BY <2>1, <3>1, <3>2, <3>4 DEF NextCap
    <3> QED
      BY <3>3, <3>4
  <2>2. CASE UNCHANGED cap /\ NotDropped
    BY <1>5, <2>2 DEF ReadBounding, NotDropped
  <2> QED
    BY <1>5, <2>1, <2>2 DEF ReadBounding, Call
<1> QED
  BY <1>1, <1>2, <1>3, <1>4, <1>5

(* src/drop-all-caps.c, src/drop-privs-harder.c and the shell                *)
LEMMA DropStep ==
    ASSUME ShellInv,
           \/ ExecDropAllCaps \/ SetSecurebits \/ FindMaxCap \/ DropBounding
           \/ ExecHarder \/ SetNoNewPrivs \/ SeccompLoad \/ ExecBash
    PROVE  ShellInv'
<1> USE DEF ShellInv, Progress, Stripped, Asking, Harder, session, creds, Call, Exit
<1>1. CASE ExecDropAllCaps
  BY <1>1, ExecStripped DEF ExecDropAllCaps
<1>2. CASE SetSecurebits
  BY <1>2 DEF SetSecurebits
<1>3. CASE FindMaxCap
  BY <1>3, DroppedShellAssumption DEF FindMaxCap, find_max_cap, Cap
<1>4. CASE DropBounding
  <2>1. CASE bounding' = bounding \ DroppedCaps /\ NextCap("exec_harder")
    <3>1. cap \in Cap /\ cap \notin bounding' /\ bounding' \in SUBSET Cap
      BY <1>4, <2>1 DEF DropBounding, DroppedCaps
    <3>2. ASSUME remote
          PROVE  /\ cap < LastCap => \A d \in Cap : d < cap + 1 => d \notin bounding'
                 /\ ~(cap < LastCap) => bounding' = {}
      <4>1. \A d \in Cap : d < cap => d \notin bounding'
        BY <1>4, <2>1, <3>2 DEF DropBounding
      <4> QED
        BY <3>1, <4>1, LoopOver
    <3>3. pc = "drop_bounding" /\ UNCHANGED <<session, SSH_CONNECTION, securebits>>
      BY <1>4 DEF DropBounding
    <3>4. CASE cap < LastCap
      <4>1. cap' = cap + 1 /\ cap + 1 \in Cap /\ pc' = pc
        BY <2>1, <3>4, DroppedShellAssumption DEF NextCap, Cap
      <4>2. ASSUME remote PROVE Progress'
        <5>1. \A d \in Cap : d < cap' => d \notin bounding'
          BY <3>2, <3>4, <4>1, <4>2
        <5> QED
          BY <3>3, <4>1, <4>2, <5>1
      <4> QED
        BY <3>1, <3>3, <4>1, <4>2
    <3>5. CASE ~(cap < LastCap)
      BY <2>1, <3>1, <3>2, <3>3, <3>5 DEF NextCap
    <3> QED
      BY <3>4, <3>5
  <2>2. CASE UNCHANGED <<bounding, cap>> /\ Exit
    BY <1>4, <2>2 DEF DropBounding
  <2> QED
    BY <1>4, <2>1, <2>2 DEF DropBounding
<1>5. CASE ExecHarder
  BY <1>5, ExecStripped DEF ExecHarder
<1>6. CASE SetNoNewPrivs
  BY <1>6 DEF SetNoNewPrivs
<1>7. CASE SeccompLoad
  BY <1>7 DEF SeccompLoad
<1>8. CASE ExecBash
  BY <1>8, ExecStripped DEF ExecBash
<1> QED
  BY <1>1, <1>2, <1>3, <1>4, <1>5, <1>6, <1>7, <1>8

LEMMA UserStep ==
    ASSUME ShellInv,
           \/ UserExecs \/ UserStartsShell \/ UserUnsets \/ UserSetsNoNewPrivs
           \/ UNCHANGED vars
    PROVE  ShellInv'
<1> USE DEF ShellInv, Progress, Stripped, Asking, Harder, session, creds
<1>1. CASE UserExecs
  BY <1>1, ExecStripped DEF UserExecs
<1>2. CASE UserStartsShell
  BY <1>2, ExecStripped DEF UserStartsShell
<1>3. CASE UserUnsets
  BY <1>3 DEF UserUnsets
<1>4. CASE UserSetsNoNewPrivs
  BY <1>4 DEF UserSetsNoNewPrivs
<1>5. CASE UNCHANGED vars
  BY <1>5 DEF vars
<1> QED
  BY <1>1, <1>2, <1>3, <1>4, <1>5

(* Whoever logs in over ssh has a shell without any privilege or none,       *)
(* whichever calls of the chain fail, whatever he executes from the shell    *)
(* and however often he starts another (src/dropped-shell:9).                *)
THEOREM NothingComesBack == Spec => []ShellIsDropped
<1>1. ShellInv /\ [Next]_vars => ShellInv'
  BY AskStep, DropStep, UserStep DEF Next, ProgramStep, Exited
<1>2. ShellInv => ShellIsDropped
  BY DEF ShellInv, Progress, Stripped, ShellIsDropped
<1> QED
  BY <1>1, <1>2, InitHolds, PTL DEF Spec
=============================================================================
