---------------------------- MODULE Capabilities ----------------------------
(* The capability sets of a process, as safe-read changes them:              *)
(* change_cap_state of src/cap-helper.h (src/grant-read.c has a copy of it), *)
(* and what capset(2), prctl(2) and execve(2) do.  Of capabilities(7) only   *)
(* what that program touches is here: it changes neither its user nor its    *)
(* securebits nor its bounding set.  bmount uses the same calls.             *)
EXTENDS Integers

CONSTANT MaxFaults     \* how many calls may fail that need not

Cap == {"sys_admin", "sys_chroot", "mknod", "dac_read_search", "net_raw"}

Flag == {"permitted", "effective", "inheritable"}

CapSets == [permitted : SUBSET Cap, effective : SUBSET Cap,
            inheritable : SUBSET Cap, ambient : SUBSET Cap]

VARIABLES
    caps,              \* the sets of the process
    no_new_privs,      \* has it set PR_SET_NO_NEW_PRIVS?
    faults             \* calls that failed though nothing forbade them

(* A program starts with what setcap gave its file: permitted capabilities   *)
(* only, which is why the programs make each effective by themselves, and    *)
(* none if its caller had given up new privileges.  It inherits the caller's *)
(* inheritable set.                                                          *)
StartCaps(file) ==
    /\ no_new_privs \in BOOLEAN
    /\ \E inherited \in {{}, {"net_raw"}} :
          caps = [permitted   |-> IF no_new_privs THEN {} ELSE file,
                  effective   |-> {},
                  inheritable |-> inherited,
                  ambient     |-> {}]

-----------------------------------------------------------------------------
(* No memory, no space, a limit reached: any call may fail.                  *)
Fault == faults < MaxFaults /\ faults' = faults + 1

(* A call ends in done if the kernel permits it, and may fail otherwise.     *)
Call(permitted, done, failed) ==
    \/ permitted /\ done /\ UNCHANGED faults
    \/ ~permitted /\ failed /\ UNCHANGED faults
    \/ permitted /\ failed /\ Fault

-----------------------------------------------------------------------------
(* The mutant ignores the one-element array.                                 *)
Changed_All(cap, flag, set) ==
    [caps EXCEPT ![flag] = IF set THEN caps.permitted ELSE @ \ {cap}]

Changed(cap, flag, set) ==
    [caps EXCEPT ![flag] = IF set THEN @ \cup {cap} ELSE @ \ {cap}]

(* capset(2): nobody gives himself what is not permitted, and an ambient     *)
(* capability goes when it is no longer both permitted and inheritable.      *)
MayChangeTo(new) ==
    /\ new.permitted \subseteq caps.permitted
    /\ new.effective \subseteq new.permitted
    /\ new.inheritable \subseteq caps.inheritable \cup caps.permitted

ChangeTo(new) ==
    caps' = [new EXCEPT !.ambient = @ \cap new.permitted \cap new.inheritable]

(* change_cap_state returns false, or true: then nothing has changed, or     *)
(* cap_free failed when the change was made already.                         *)
change_cap_state(cap, flag, set, done, failed) ==
    LET new == Changed(cap, flag, set)
    IN  \/ Call(MayChangeTo(new), ChangeTo(new) /\ done, UNCHANGED caps /\ failed)
        \/ MayChangeTo(new) /\ Fault /\ ChangeTo(new) /\ failed

(* prctl(PR_CAP_AMBIENT, PR_CAP_AMBIENT_RAISE, cap)                          *)
MayRaiseAmbient(cap) == cap \in caps.permitted \cap caps.inheritable

RaiseAmbient(cap) == caps' = [caps EXCEPT !.ambient = @ \cup {cap}]

(* execve(2) of a file that has been given the capabilities in file.  One    *)
(* with none runs with the ambient set; one with some runs with those, of    *)
(* which no_new_privs leaves only what the process was permitted before.     *)
ExecCaps(file) ==
    LET next == IF file = {} THEN caps.ambient
                ELSE IF no_new_privs THEN file \cap caps.permitted
                ELSE file
    IN  [caps EXCEPT !.permitted = next, !.effective = next,
                     !.ambient = IF file = {} THEN @ ELSE {}]
=============================================================================
