----------------------------- MODULE GrantRead -----------------------------
(* src/grant-read.c: it changes the root directory, keeps of its             *)
(* capabilities the one to read any file, and becomes the command.  It is    *)
(* the end of safe-read as a program of its own, without the chdir, and with *)
(* a copy of change_cap_state (src/grant-read.c:14-45).                      *)
EXTENDS SafeRead

CONSTANT Grants        \* the capabilities setcap may have given it

GrantReadCaps == {"sys_chroot", "dac_read_search"}

ASSUME GrantReadAssumption == Grants \subseteq SUBSET GrantReadCaps

(* What it is called with that a command can tell: nothing.                  *)
GrantReadJob(file) ==
    [program |-> "grant-read", src |-> <<"/">>, security |-> FALSE, template |-> <<>>,
     writable |-> FALSE, granted |-> file]

GrantInit ==
    /\ \E file \in Grants : job = GrantReadJob(file) /\ StartCaps(file)
    /\ faults = 0
    /\ pc = "grant_raise_chroot"
    /\ tail = <<>> /\ pos = 0 /\ next = 1
    /\ ns = "host" /\ private = FALSE
    /\ mounts = [n \in {"host", "own"} |-> {}]
    /\ files = {}
    /\ root = {} /\ cwd = "host"

GrantRaiseChroot ==
    Warned("grant_raise_chroot", "grant_chroot", "sys_chroot", "effective", TRUE)

(* chroot(argv[2])                                                           *)
GrantChroot ==
    /\ pc = "grant_chroot"
    /\ Call("sys_chroot" \in caps.effective,
            root' = {<<>>} /\ pc' = "grant_lower_chroot",
            UNCHANGED root /\ Exit)
    /\ UNCHANGED <<caps, no_new_privs, job, locals, mounting, files, cwd>>

GrantLowerChroot ==
    Checked("grant_lower_chroot", "grant_drop_chroot", "sys_chroot", "effective", FALSE)

(* The mutant goes on although the call failed.                              *)
GrantDropChroot_Warned ==
    Warned("grant_drop_chroot", "grant_inherit", "sys_chroot", "permitted", FALSE)

GrantDropChroot ==
    Checked("grant_drop_chroot", "grant_inherit", "sys_chroot", "permitted", FALSE)

GrantInherit ==
    Checked("grant_inherit", "grant_ambient", "dac_read_search", "inheritable", TRUE)

GrantAmbient ==
    /\ pc = "grant_ambient"
    /\ Call(MayRaiseAmbient("dac_read_search"),
            RaiseAmbient("dac_read_search") /\ pc' = "grant_no_new_privs",
            UNCHANGED caps /\ Exit)
    /\ UNCHANGED <<no_new_privs, job, locals, mounting, files, place>>

GrantNoNewPrivs ==
    /\ pc = "grant_no_new_privs"
    /\ Call(TRUE, no_new_privs' = TRUE /\ pc' = "grant_exec", UNCHANGED no_new_privs /\ Exit)
    /\ UNCHANGED <<caps, job, locals, mounting, files, place>>

GrantExecvp ==
    /\ pc = "grant_exec"
    /\ Call(TRUE, \E file \in Executables : caps' = ExecCaps(file) /\ pc' = "command",
                  UNCHANGED caps /\ Exit)
    /\ UNCHANGED <<no_new_privs, job, locals, mounting, files, place>>

GrantStep ==
    \/ GrantRaiseChroot \/ GrantChroot \/ GrantLowerChroot \/ GrantDropChroot
    \/ GrantInherit \/ GrantAmbient \/ GrantNoNewPrivs \/ GrantExecvp

(* Either program, by itself.                                                *)
ReadersSpec ==
    /\ Init \/ GrantInit
    /\ [][Next \/ GrantStep]_vars
    /\ WF_vars(MainStep) /\ WF_vars(GrantStep)
=============================================================================
