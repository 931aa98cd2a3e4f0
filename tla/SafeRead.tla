------------------------------ MODULE SafeRead ------------------------------
(* src/safe-read.c: in a mount namespace of its own it builds a small root   *)
(* directory (device nodes, the directory to be read, a copy of a template), *)
(* moves there, keeps of its capabilities the one to read any file, and      *)
(* becomes the command.                                                      *)
(*                                                                           *)
(* A path name is a sequence of tokens, slashes and the names between them;  *)
(* a file is known by its names and by the file system it is on.             *)
EXTENDS Capabilities, SequencesExt

CONSTANT Jobs          \* what it may be called with

(* What safe-read uses; setcap is not meant to give it anything else.        *)
SafeReadCaps == {"sys_admin", "sys_chroot", "mknod", "dac_read_search"}

ASSUME SafeReadAssumption ==
    /\ MaxFaults \in Nat
    /\ \A given \in Jobs :
          /\ given.granted \subseteq SafeReadCaps
          /\ given.src \in Seq(STRING) /\ Len(given.template) \in Nat

VARIABLES
    job,               \* safe-read or grant-read; --reading, --disable-security,
                       \* and the files it meets
    pc,                \* the next call of main
    tail,              \* buffer from chroot_end on
    pos,               \* local: how much of src has been looked at
    next,              \* the number of the next device or template entry
    ns,                \* the mount namespace of the process
    private,           \* are the mounts of that namespace its own?
    mounts,            \* what is mounted in each namespace
    files,             \* all that is in the new root directory or in src
    root,              \* {} or the directory that is the root now
    cwd                \* where the working directory is

vars == <<caps, no_new_privs, faults, job, pc, tail, pos, next, ns, private,
          mounts, files, root, cwd>>

mounting == <<ns, private, mounts>>
place    == <<root, cwd>>
locals   == <<tail, pos, next>>

Devices == <<"null", "zero", "full", "random", "urandom">>

(* What a command may execute: files without capabilities, and with some.    *)
Executables == {{}, {"mknod"}, {"dac_read_search"}, {"net_raw", "sys_admin"}}

-----------------------------------------------------------------------------
(* Path names and files.                                                     *)
Names(path) == SelectSeq(path, LAMBDA token : token # "/")

strstr(path, part) ==
    \E i \in 1 .. Len(path) - Len(part) + 1 : SubSeq(path, i, i + Len(part) - 1) = part

Acceptable(src) ==
    /\ src[1] = "/"
    /\ \A dots \in {".", ".."} :
          /\ ~strstr(src, <<"/", dots, "/">>)
          /\ ~IsSuffix(<<"/", dots>>, src)

(* strchrnul: the slash, or the end, at or after the given offset.           *)
strchrnul(path, from) ==
    CHOOSE i \in from .. Len(path) :
        /\ i = Len(path) \/ path[i + 1] = "/"
        /\ \A j \in from .. i - 1 : path[j + 1] # "/"

(* The file system that holds a file of the new root directory: the bind     *)
(* mount covers what is below src.                                           *)
Where(names) ==
    IF "bind" \in mounts[ns] /\ IsStrictPrefix(Names(job.src), names) THEN "source"
    ELSE IF "tmpfs" \in mounts[ns] THEN "tmpfs"
    ELSE "disk"

File(names, what) == [at |-> Where(names), names |-> names, is |-> what]

Exists(names) == \E f \in files : f.at = Where(names) /\ f.names = names

(* A bind mount is no more read-only than what it shows: mount(2) ignores    *)
(* MS_RDONLY and MS_PRIVATE when there is MS_BIND.                           *)
MayCreate(names) ==
    /\ names = <<>> \/ Exists(Front(names))
            \/ IsPrefix(Names(job.src), Front(names))
    /\ Where(names) = "source" => job.writable

-----------------------------------------------------------------------------
Init ==
    /\ job \in Jobs
    /\ StartCaps(job.granted)
    /\ faults = 0
    /\ pc = "check"
    /\ tail = <<>> /\ pos = 0 /\ next = 1
    /\ ns = "host" /\ private = FALSE
    /\ mounts = [n \in {"host", "own"} |-> {}]
    /\ files = {[at |-> "source", names |-> Append(Names(job.src), "f"), is |-> "old"]}
    /\ root = {} /\ cwd = "host"

Exit == pc' = "exited"

Warned(at, then, cap, flag, set) ==
    /\ pc = at
    /\ change_cap_state(cap, flag, set, pc' = then, pc' = then)
    /\ UNCHANGED <<no_new_privs, job, locals, mounting, files, place>>

Checked(at, then, cap, flag, set) ==
    /\ pc = at
    /\ change_cap_state(cap, flag, set, pc' = then, Exit)
    /\ UNCHANGED <<no_new_privs, job, locals, mounting, files, place>>

(* src is absolute, and has neither "." nor "..".                            *)
CheckSrc ==
    /\ pc = "check"
    /\ IF Acceptable(job.src) THEN pc' = "mkdtemp" ELSE Exit
    /\ UNCHANGED <<caps, no_new_privs, faults, job, locals, mounting, files, place>>

Mkdtemp ==
    /\ pc = "mkdtemp"
    /\ Call(TRUE, files' = files \cup {File(<<>>, "dir")} /\ pc' = "raise_mount",
                  UNCHANGED files /\ Exit)
    /\ UNCHANGED <<caps, no_new_privs, job, locals, mounting, place>>

RaiseMount == Warned("raise_mount", "unshare", "sys_admin", "effective", TRUE)

(* A call that is left out with --disable-security.                          *)
IfSecure(at, then, done) ==
    /\ pc = at
    /\ IF job.security
       THEN Call("sys_admin" \in caps.effective, done /\ pc' = then,
                 UNCHANGED <<mounting, files>> /\ Exit)
       ELSE pc' = then /\ UNCHANGED <<faults, mounting, files>>
    /\ UNCHANGED <<caps, no_new_privs, job, locals, place>>

Unshare == IfSecure("unshare", "private",
                    /\ ns' = "own"
                    /\ mounts' = [mounts EXCEPT !.own = mounts.host]
                    /\ UNCHANGED <<private, files>>)

(* The mutant leaves the mounts shared with the namespace they come from.    *)
MountPrivate_Not == IfSecure("private", "tmpfs", UNCHANGED <<mounting, files>>)

MountPrivate == IfSecure("private", "tmpfs",
                         private' = TRUE /\ UNCHANGED <<ns, mounts, files>>)

(* A mount is seen in the other namespace unless one of them is private.     *)
Mount(what) ==
    mounts' = [n \in {"host", "own"} |->
        IF n = ns \/ (ns = "own" /\ ~private) THEN mounts[n] \cup {what} ELSE mounts[n]]

MountTmpfs == IfSecure("tmpfs", "lower_mount",
                       /\ Mount("tmpfs")
                       /\ files' = files \cup {[at |-> "tmpfs", names |-> <<>>, is |-> "dir"]}
                       /\ UNCHANGED <<ns, private>>)

LowerMount == Checked("lower_mount", "mkdir_dev", "sys_admin", "effective", FALSE)

MkdirDev ==
    /\ pc = "mkdir_dev"
    /\ tail' = <<"/", "dev">>
    /\ Call(TRUE, files' = files \cup {File(<<"dev">>, "dir")} /\ pc' = "raise_mknod",
                  UNCHANGED files /\ Exit)
    /\ UNCHANGED <<caps, no_new_privs, job, pos, next, mounting, place>>

RaiseMknod == Warned("raise_mknod", "make_dev", "mknod", "effective", TRUE)

(* MAKE_DEV, five times                                                      *)
MakeDev ==
    /\ pc = "make_dev"
    /\ tail' = <<"/", "dev", "/", Devices[next]>>
    /\ Call("mknod" \in caps.effective,
            /\ files' = files \cup {File(<<"dev", Devices[next]>>, "device")}
            /\ IF next < Len(Devices) THEN next' = next + 1 /\ UNCHANGED pc
               ELSE next' = 1 /\ pc' = "lower_mknod",
            UNCHANGED <<files, next>> /\ Exit)
    /\ UNCHANGED <<caps, no_new_privs, job, pos, mounting, place>>

LowerMknod == Checked("lower_mknod", "drop_mknod", "mknod", "effective", FALSE)

DropMknod ==
    /\ pc = "drop_mknod"
    /\ change_cap_state("mknod", "permitted", FALSE, pc' = "parents", Exit)
    /\ pos' = 1
    /\ UNCHANGED <<no_new_privs, job, tail, next, mounting, files, place>>

(* The mutant leaves the loop before the last name.                          *)
Parent_AllButLast ==
    LET slash == strchrnul(job.src, pos)
    IN  IF slash = Len(job.src) THEN tail ELSE SubSeq(job.src, 1, slash + 1)

(* strncpy(chroot_end, src, pos): src as far as the next slash.              *)
Parent ==
    LET slash == strchrnul(job.src, pos)
    IN  IF slash = Len(job.src) THEN job.src ELSE SubSeq(job.src, 1, slash + 1)

(* One directory on the way to where src will be mounted.                    *)
MakeParent ==
    /\ pc = "parents" /\ pos < Len(job.src)
    /\ pos' = strchrnul(job.src, pos) + 1
    /\ tail' = Parent
    /\ LET names == Names(Parent)
       IN  Call(Exists(names) \/ MayCreate(names),
                /\ files' = IF Exists(names) THEN files ELSE files \cup {File(names, "dir")}
                /\ UNCHANGED pc,
                UNCHANGED files /\ Exit)
    /\ UNCHANGED <<caps, no_new_privs, job, next, mounting, place>>

(* assert(strlen(buffer) == strlen(src) + strlen(template))                  *)
ParentsMade ==
    /\ pc = "parents" /\ pos >= Len(job.src)
    /\ pc' = IF Len(tail) = Len(job.src) THEN "raise_bind" ELSE "aborted"
    /\ UNCHANGED <<caps, no_new_privs, faults, job, locals, mounting, files, place>>

RaiseBind == Warned("raise_bind", "bind", "sys_admin", "effective", TRUE)

MountBind ==
    /\ pc = "bind"
    /\ Call("sys_admin" \in caps.effective, Mount("bind") /\ pc' = "lower_bind",
                                            UNCHANGED mounts /\ Exit)
    /\ UNCHANGED <<caps, no_new_privs, job, locals, ns, private, files, place>>

LowerBind == Checked("lower_bind", "drop_bind", "sys_admin", "effective", FALSE)

(* The mutant forgets that the permitted set has it still.                   *)
DropBind_Not ==
    /\ pc = "drop_bind"
    /\ pc' = "nftw"
    /\ UNCHANGED <<caps, no_new_privs, faults, job, locals, mounting, files, place>>

DropBind == Checked("drop_bind", "nftw", "sys_admin", "permitted", FALSE)

-----------------------------------------------------------------------------
(* create_callback, which nftw(3) calls for every entry of the template.     *)

(* types & FTW_D: the bit is set in FTW_NS, too.                             *)
IsDir(types) == types \in {"FTW_D", "FTW_NS"}

(* copy_file copies as many bytes as lstat(2) found.  Of a symbolic link     *)
(* that is the length of its text, but open(2) opens what it points to.      *)
Copied(entry) == IF entry.type = "FTW_SL" THEN "part" ELSE "whole"

Entry == job.template[next]

CallbackMkdir ==
    /\ pc = "nftw" /\ next <= Len(job.template) /\ IsDir(Entry.type)
    /\ tail' = Entry.path
    /\ LET names == Names(Entry.path)
       IN  Call(Exists(names) \/ MayCreate(names),
                /\ files' = IF Exists(names) THEN files ELSE files \cup {File(names, "dir")}
                /\ next' = next + 1
                /\ UNCHANGED pc,
                UNCHANGED <<files, next>> /\ Exit)
    /\ UNCHANGED <<caps, no_new_privs, job, pos, mounting, place>>

MayOpen(entry) == entry.readable \/ "dac_read_search" \in caps.effective

(* open, open, copy_file, close, close: what fails late leaves a file.       *)
CallbackCopy ==
    /\ pc = "nftw" /\ next <= Len(job.template) /\ ~IsDir(Entry.type)
    /\ tail' = Entry.path
    /\ LET names == Names(Entry.path)
       IN  Call(MayOpen(Entry) /\ MayCreate(names) /\ ~Exists(names),
                /\ files' = files \cup {File(names, Copied(Entry))}
                /\ next' = next + 1
                /\ UNCHANGED pc,
                /\ \/ UNCHANGED files
                   \/ /\ MayOpen(Entry) /\ MayCreate(names) /\ ~Exists(names)
                      /\ files' = files \cup {File(names, "part")}
                /\ UNCHANGED next
                /\ Exit)
    /\ UNCHANGED <<caps, no_new_privs, job, pos, mounting, place>>

NftwOver ==
    /\ pc = "nftw" /\ next > Len(job.template)
    /\ pc' = "raise_chroot"
    /\ UNCHANGED <<caps, no_new_privs, faults, job, locals, mounting, files, place>>

-----------------------------------------------------------------------------
RaiseChroot == Warned("raise_chroot", "chroot", "sys_chroot", "effective", TRUE)

NewRoot == <<>>

(* *chroot_end = '\0' and chroot(buffer)                                     *)
Chroot ==
    /\ pc = "chroot"
    /\ tail' = NewRoot
    /\ Call("sys_chroot" \in caps.effective, root' = {tail'} /\ pc' = "lower_chroot",
                                             UNCHANGED root /\ Exit)
    /\ UNCHANGED <<caps, no_new_privs, job, pos, next, mounting, files, cwd>>

LowerChroot == Checked("lower_chroot", "drop_chroot", "sys_chroot", "effective", FALSE)

DropChroot == Checked("drop_chroot", "chdir", "sys_chroot", "permitted", FALSE)

Chdir ==
    /\ pc = "chdir"
    /\ Call(TRUE, cwd' = "root" /\ pc' = "inherit", UNCHANGED cwd /\ Exit)
    /\ UNCHANGED <<caps, no_new_privs, job, locals, mounting, files, root>>

Inherit == Checked("inherit", "ambient", "dac_read_search", "inheritable", TRUE)

(* The mutant goes on although the call failed.                              *)
Ambient_Warned ==
    /\ pc = "ambient"
    /\ Call(MayRaiseAmbient("dac_read_search"), RaiseAmbient("dac_read_search"), UNCHANGED caps)
    /\ pc' = "no_new_privs"
    /\ UNCHANGED <<no_new_privs, job, locals, mounting, files, place>>

Ambient ==
    /\ pc = "ambient"
    /\ Call(MayRaiseAmbient("dac_read_search"),
            RaiseAmbient("dac_read_search") /\ pc' = "no_new_privs",
            UNCHANGED caps /\ Exit)
    /\ UNCHANGED <<no_new_privs, job, locals, mounting, files, place>>

NoNewPrivs ==
    /\ pc = "no_new_privs"
    /\ Call(TRUE, no_new_privs' = TRUE /\ pc' = "exec", UNCHANGED no_new_privs /\ Exit)
    /\ UNCHANGED <<caps, job, locals, mounting, files, place>>

Execvp ==
    /\ pc = "exec"
    /\ Call(TRUE, \E file \in Executables : caps' = ExecCaps(file) /\ pc' = "command",
                  UNCHANGED caps /\ Exit)
    /\ UNCHANGED <<no_new_privs, job, locals, mounting, files, place>>

CommandExecs ==
    /\ pc = "command"
    /\ \E file \in Executables : caps' = ExecCaps(file)
    /\ UNCHANGED <<no_new_privs, faults, job, pc, locals, mounting, files, place>>

MainStep ==
    \/ CheckSrc \/ Mkdtemp
    \/ RaiseMount \/ Unshare \/ MountPrivate \/ MountTmpfs \/ LowerMount
    \/ MkdirDev \/ RaiseMknod \/ MakeDev \/ LowerMknod \/ DropMknod
    \/ MakeParent \/ ParentsMade
    \/ RaiseBind \/ MountBind \/ LowerBind \/ DropBind
    \/ CallbackMkdir \/ CallbackCopy \/ NftwOver
    \/ RaiseChroot \/ Chroot \/ LowerChroot \/ DropChroot \/ Chdir
    \/ Inherit \/ Ambient \/ NoNewPrivs \/ Execvp

(* The command runs on as long as it likes.                                  *)
Ended == pc \in {"exited", "aborted", "command"} /\ UNCHANGED vars

Next == MainStep \/ CommandExecs \/ Ended

Spec == Init /\ [][Next]_vars /\ WF_vars(MainStep)

-----------------------------------------------------------------------------
(* The host sees nothing of it, however safe-read ends: no mount gets out of *)
(* the namespace and of the new root directory there is only the empty       *)
(* directory mkdtemp made (nobody removes it).  In src itself something is   *)
(* made only with the user's right to do so, by a template that has names    *)
(* below src.  (src/safe-read.c:221-234; with --disable-security all of it   *)
(* stays behind.)                                                            *)
HostUntouched ==
    job.security =>
        /\ mounts.host = {}
        /\ \A f \in files :
              /\ f.at = "disk" => f.names = <<>>
              /\ f.at = "source" => f.is = "old" \/ job.writable

(* The command and all it executes later has at most the right to read any   *)
(* file, and is inside the new root directory; grant-read leaves the working *)
(* directory where it was.  (src/safe-read.c:236-358 give up every other     *)
(* capability one by one, as do src/grant-read.c:66-92.)                     *)
OnlyReadingLeft ==
    pc = "command" =>
        /\ caps.permitted \subseteq {"dac_read_search"}
        /\ caps.ambient \subseteq {"dac_read_search"}
        /\ root = {<<>>}
        /\ job.program = "safe-read" => cwd = "root"

(* No file of the template gets into the new root directory that its user    *)
(* could not have copied there himself: the capability to read is permitted  *)
(* all the time, effective only in the command.                              *)
TemplateReadAsUser ==
    \A f \in files : f.is \in {"whole", "part"} =>
        \E i \in 1 .. Len(job.template) :
            Names(job.template[i].path) = f.names /\ job.template[i].readable

HasDevice(i) ==
    LET names == <<"dev", Devices[i]>>
    IN  Where(names) = "source" \/ File(names, "device") \in files

HasEntry(i) ==
    LET entry == job.template[i]
        names == Names(entry.path)
    IN  /\ entry.type = "FTW_D" => Exists(names)
        /\ entry.type = "FTW_F" => File(names, "whole") \in files

(* The command finds what it is started for: the capability handed over by   *)
(* the ambient set, and for safe-read the mounted directory, the device      *)
(* nodes, unless the mounted directory covers them, and every directory and  *)
(* complete file of the template.                                            *)
CommandFindsEverything ==
    /\ pc \in {"exec", "grant_exec"} => "dac_read_search" \in caps.ambient
    /\ pc = "exec" =>
        /\ "bind" \in mounts[ns]
        /\ \A i \in 1 .. Len(Devices) : HasDevice(i)
        /\ \A i \in 1 .. Len(job.template) : HasEntry(i)

(* A request that asks for nothing impossible: all capabilities granted, a   *)
(* directory other than the root, a template that is readable and does not   *)
(* get in the way of the devices or of src.                                  *)
Reasonable ==
    /\ pc = "check"
    /\ caps.permitted = SafeReadCaps
    /\ Acceptable(job.src) /\ Names(job.src) # <<>>
    /\ \A i \in 1 .. Len(job.template) :
          LET entry == job.template[i]
              names == Names(entry.path)
          IN  /\ entry.type # "FTW_D" => /\ entry.readable
                                         /\ ~IsPrefix(<<"dev">>, names)
                                         /\ ~IsPrefix(names, Names(job.src))
              /\ ~IsStrictPrefix(Names(job.src), names)

(* Then the command starts, unless some call fails of itself: the kernel     *)
(* refuses nothing main asks for in the order it asks for it.                *)
CommandStarts ==
    (\/ Reasonable
     \/ pc = "grant_raise_chroot" /\ caps.permitted = {"sys_chroot", "dac_read_search"})
        ~> (pc = "command" \/ faults > 0)

(* src/safe-read.c:294 asserts that behind the loop buffer ends in src.       *)
AssertHolds == pc # "aborted"
=============================================================================
