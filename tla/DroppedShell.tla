---------------------------- MODULE DroppedShell ----------------------------
(* A login whose shell is src/dropped-shell.  Of a session over ssh it makes *)
(* one without privileges, by src/drop-all-caps.c and src/drop-privs-harder.c,*)
(* unless src/have-dropped-all-caps.c finds that this has happened already.  *)
(* What is dropped is an attribute of a process that execve(2) and fork(2)   *)
(* hand on, so that one process which turns into one program after the other *)
(* stands for any descendant of the login.                                   *)
EXTENDS Integers

CONSTANTS
    LastCap,           \* what /proc/sys/kernel/cap_last_cap says
    SetPcap,           \* CAP_SETPCAP
    MaxFaults          \* how many calls may fail that need not

ASSUME DroppedShellAssumption ==
    /\ LastCap \in Nat \ {0}
    /\ SetPcap \in 0 .. LastCap
    /\ MaxFaults \in Nat

Cap == 0 .. LastCap

VARIABLES
    pc,                \* the next thing the process does
    remote,            \* has the user logged in over ssh?
    setcap,            \* does drop-all-caps have cap_setpcap+ep?
    SSH_CONNECTION,    \* is it in the environment?
    root,              \* does the process run as root?
    securebits,        \* are they SECURE_BITS, or those it was born with?
    no_new_privs,
    bounding,          \* the capability bounding set
    permitted,         \* the permitted and the effective set
    filtered,          \* has the seccomp filter been loaded?
    cap,               \* local: the loop over all capabilities
    faults             \* calls that failed though nothing forbade them

session == <<remote, setcap>>
creds   == <<root, securebits, no_new_privs, bounding, permitted, filtered>>
vars    == <<pc, session, SSH_CONNECTION, creds, cap, faults>>

(* The files that are executed: ordinary ones, drop-all-caps, a program that *)
(* has capabilities, and one that is set-user-ID root.                       *)
Plain == [caps |-> {}, setuid |-> FALSE]
Files == {Plain, [caps |-> Cap, setuid |-> FALSE], [caps |-> {}, setuid |-> TRUE]}
DropAllCaps == [caps |-> IF setcap THEN {SetPcap} ELSE {}, setuid |-> FALSE]

-----------------------------------------------------------------------------
Init ==
    /\ pc = "dropped_shell"
    /\ remote \in BOOLEAN /\ SSH_CONNECTION = remote
    /\ setcap \in BOOLEAN
    /\ root \in BOOLEAN
    /\ securebits = FALSE /\ no_new_privs = FALSE
    /\ bounding = Cap
    /\ permitted = IF root THEN Cap ELSE {}
    /\ filtered = FALSE /\ cap = 0 /\ faults = 0

Exit == pc' = "exited"

Fault == faults < MaxFaults /\ faults' = faults + 1

Call(allowed, done, failed) ==
    \/ allowed /\ done /\ UNCHANGED faults
    \/ ~allowed /\ failed /\ UNCHANGED faults
    \/ allowed /\ failed /\ Fault

(* execve(2): capabilities come from the file, or, for root, all of them     *)
(* unless the securebits say that root is nobody special (SECBIT_NOROOT);    *)
(* the bounding set limits both, and no_new_privs lets nothing be gained.    *)
Exec(file) ==
    LET becomesRoot == root \/ (file.setuid /\ ~no_new_privs)
        given  == IF becomesRoot /\ ~securebits THEN Cap ELSE file.caps
        gained == given \cap bounding
    IN  /\ root' = becomesRoot
        /\ permitted' = IF no_new_privs THEN gained \cap permitted ELSE gained
        /\ UNCHANGED <<securebits, no_new_privs, bounding, filtered>>

(* if [ -z "${SSH_CONNECTION+x}" ] || have-dropped-all-caps                  *)
dropped_shell ==
    /\ pc = "dropped_shell"
    /\ pc' = IF SSH_CONNECTION THEN "get_securebits" ELSE "exec_bash"
    /\ UNCHANGED <<session, SSH_CONNECTION, creds, cap, faults>>

(* have-dropped-all-caps, a child, reads attributes it shares with its       *)
(* parent, and tells it by its exit status.                                  *)
NotDropped == pc' = "exec_drop_all_caps"

(* The mutant has the comparison the wrong way round.                        *)
GetSecurebits_Inverted ==
    /\ pc = "get_securebits"
    /\ IF ~securebits THEN pc' = "get_no_new_privs" ELSE NotDropped
    /\ UNCHANGED <<session, SSH_CONNECTION, creds, cap, faults>>

GetSecurebits ==
    /\ pc = "get_securebits"
    /\ IF securebits THEN pc' = "get_no_new_privs" ELSE NotDropped
    /\ UNCHANGED <<session, SSH_CONNECTION, creds, cap, faults>>

GetNoNewPrivs ==
    /\ pc = "get_no_new_privs"
    /\ IF no_new_privs THEN pc' = "read_max_cap" ELSE NotDropped
    /\ UNCHANGED <<session, SSH_CONNECTION, creds, cap, faults>>

(* find_max_cap: what cannot be read or makes no sense ends the program.     *)
find_max_cap(at, then, otherwise) ==
    /\ pc = at
    /\ cap' = 0
    /\ Call(TRUE, then, otherwise)
    /\ UNCHANGED <<session, SSH_CONNECTION, creds>>

ReadMaxCap == find_max_cap("read_max_cap", pc' = "read_bounding", NotDropped)

(* for (cap = 0; cap <= max_cap; ++cap), and what comes after the loop.      *)
NextCap(after) ==
    IF cap < LastCap THEN cap' = cap + 1 /\ UNCHANGED pc
    ELSE UNCHANGED cap /\ pc' = after

ReadBounding ==
    /\ pc = "read_bounding"
    /\ Call(cap \notin bounding, NextCap("exec_bash"), UNCHANGED cap /\ NotDropped)
    /\ UNCHANGED <<session, SSH_CONNECTION, creds>>

-----------------------------------------------------------------------------
(* exec drop-all-caps drop-privs-harder bash                                 *)
ExecDropAllCaps ==
    /\ pc = "exec_drop_all_caps"
    /\ Call(TRUE, Exec(DropAllCaps) /\ pc' = "set_securebits", UNCHANGED creds /\ Exit)
    /\ UNCHANGED <<session, SSH_CONNECTION, cap>>

SetSecurebits ==
    /\ pc = "set_securebits"
    /\ Call(SetPcap \in permitted, securebits' = TRUE /\ pc' = "find_max_cap",
                                   UNCHANGED securebits /\ Exit)
    /\ UNCHANGED <<session, SSH_CONNECTION, root, no_new_privs, bounding,
                   permitted, filtered, cap>>

FindMaxCap == find_max_cap("find_max_cap", pc' = "drop_bounding", Exit)

(* The mutant's loop is for (cap = 0; cap < max_cap; ++cap).                 *)
DroppedCaps_ButLast == {cap} \ {LastCap}

DroppedCaps == {cap}

(* PR_CAPBSET_DROP.  That the kernel does not know the capability (EINVAL)   *)
(* does not happen up to cap_last_cap.                                       *)
DropBounding ==
    /\ pc = "drop_bounding"
    /\ Call(SetPcap \in permitted,
            bounding' = bounding \ DroppedCaps /\ NextCap("exec_harder"),
            UNCHANGED <<bounding, cap>> /\ Exit)
    /\ UNCHANGED <<session, SSH_CONNECTION, root, securebits, no_new_privs,
                   permitted, filtered>>

ExecHarder ==
    /\ pc = "exec_harder"
    /\ Call(TRUE, Exec(Plain) /\ pc' = "set_no_new_privs", UNCHANGED creds /\ Exit)
    /\ UNCHANGED <<session, SSH_CONNECTION, cap>>

SetNoNewPrivs ==
    /\ pc = "set_no_new_privs"
    /\ Call(TRUE, no_new_privs' = TRUE /\ pc' = "seccomp_load",
                  UNCHANGED no_new_privs /\ Exit)
    /\ UNCHANGED <<session, SSH_CONNECTION, root, securebits, bounding,
                   permitted, filtered, cap>>

(* Neither unshare(2) nor clone(2) with CLONE_NEWUSER from now on.           *)
SeccompLoad ==
    /\ pc = "seccomp_load"
    /\ Call(no_new_privs, filtered' = TRUE /\ pc' = "exec_bash",
                          UNCHANGED filtered /\ Exit)
    /\ UNCHANGED <<session, SSH_CONNECTION, root, securebits, no_new_privs,
                   bounding, permitted, cap>>

ExecBash ==
    /\ pc = "exec_bash"
    /\ Call(TRUE, Exec(Plain) /\ pc' = "bash", UNCHANGED creds /\ Exit)
    /\ UNCHANGED <<session, SSH_CONNECTION, cap>>

-----------------------------------------------------------------------------
(* What is executed from the shell: any file, the login shell once more, and *)
(* programs that change what a process may change of itself.                 *)
UserExecs ==
    /\ pc = "bash"
    /\ \E file \in Files : Exec(file)
    /\ UNCHANGED <<pc, session, SSH_CONNECTION, cap, faults>>

UserStartsShell ==
    /\ pc = "bash"
    /\ Exec(Plain)
    /\ pc' = "dropped_shell"
    /\ UNCHANGED <<session, SSH_CONNECTION, cap, faults>>

UserUnsets ==
    /\ pc = "bash"
    /\ SSH_CONNECTION' = FALSE
    /\ UNCHANGED <<pc, session, creds, cap, faults>>

UserSetsNoNewPrivs ==
    /\ pc = "bash"
    /\ no_new_privs' = TRUE
    /\ UNCHANGED <<pc, session, SSH_CONNECTION, root, securebits, bounding,
                   permitted, filtered, cap, faults>>

ProgramStep ==
    \/ dropped_shell
    \/ GetSecurebits \/ GetNoNewPrivs \/ ReadMaxCap \/ ReadBounding
    \/ ExecDropAllCaps \/ SetSecurebits \/ FindMaxCap \/ DropBounding
    \/ ExecHarder \/ SetNoNewPrivs \/ SeccompLoad \/ ExecBash

Exited == pc = "exited" /\ UNCHANGED vars

Next ==
    \/ ProgramStep \/ Exited
    \/ UserExecs \/ UserStartsShell \/ UserUnsets \/ UserSetsNoNewPrivs

Spec == Init /\ [][Next]_vars /\ WF_vars(ProgramStep)

-----------------------------------------------------------------------------
(* A user who logs in over ssh gets no shell at all, or one without any      *)
(* privilege that never gets one back: not when a step of the chain fails,   *)
(* not by executing files with capabilities or set-user-ID root, not by a    *)
(* shell in the shell or one that does not see SSH_CONNECTION.               *)
(* (src/dropped-shell:9 and the error exits of the two programs in it.)      *)
ShellIsDropped ==
    remote /\ pc = "bash" =>
        /\ securebits /\ no_new_privs
        /\ bounding = {} /\ permitted = {}
        /\ filtered

(* Whoever starts the login shell gets a shell, the first time and in every  *)
(* shell, unless a call fails of itself or setcap was forgotten, which       *)
(* src/drop-all-caps.c:20 gives a hint about.                                *)
ShellStarts == pc = "dropped_shell" /\ setcap ~> (pc = "bash" \/ faults > 0)
=============================================================================
