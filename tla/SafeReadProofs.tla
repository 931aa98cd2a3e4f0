--------------------------- MODULE SafeReadProofs ---------------------------
(* For any path, template and grant, and whichever calls fail: what is left  *)
(* of its capabilities to the command of safe-read and of grant-read, and    *)
(* what is left behind on the host.                                          *)
EXTENDS GrantRead, TLAPS, WellFoundedInduction

-----------------------------------------------------------------------------
(* Where a program no longer has what it has dropped, and what else it has   *)
(* behind it.                                                                *)
GrantInRoot == {"grant_inherit", "grant_ambient", "grant_no_new_privs", "grant_exec"}
InRoot == {"chdir", "inherit", "ambient", "no_new_privs", "exec", "command"} \cup GrantInRoot
GrantBefore == {"grant_raise_chroot", "grant_chroot", "grant_lower_chroot",
                "grant_drop_chroot"}

WithoutBind == {"nftw", "raise_chroot", "chroot", "lower_chroot", "drop_chroot"}
                  \cup GrantBefore \cup InRoot
WithoutMknod == {"parents", "raise_bind", "bind", "lower_bind", "drop_bind"}
                  \cup WithoutBind

(* The permitted set shrinks by one capability after the other and none is   *)
(* ever ambient but the last; when the command is executed the process is in *)
(* the new root directory and cannot get anything back.                      *)
Shed ==
    /\ caps \in CapSets
    /\ caps.permitted \subseteq SafeReadCaps
    /\ caps.ambient \subseteq {"dac_read_search"}
    /\ pc \in WithoutMknod => "mknod" \notin caps.permitted
    /\ pc \in WithoutBind => "sys_admin" \notin caps.permitted
    /\ pc \in InRoot => "sys_chroot" \notin caps.permitted

Confined ==
    /\ pc \in InRoot \cup {"lower_chroot", "drop_chroot", "grant_lower_chroot",
                           "grant_drop_chroot"} => root = {<<>>}
    /\ pc \in {"inherit", "ambient", "no_new_privs", "exec"} => cwd = "root"
    /\ pc \in GrantBefore \cup GrantInRoot => job.program = "grant-read"
    /\ pc \in {"exec", "grant_exec", "command"} => no_new_privs = TRUE
    /\ pc = "command" /\ job.program = "safe-read" => cwd = "root"

ReadInv == Shed /\ Confined

-----------------------------------------------------------------------------
(* What change_cap_state leaves of the capabilities.                         *)
Shrinks ==
    /\ caps' \in CapSets
    /\ caps'.permitted \subseteq caps.permitted
    /\ caps'.ambient \subseteq caps.ambient

ShrinksOnly == Shrinks /\ UNCHANGED <<no_new_privs, job, place>>

LEMMA ChangeShrinks ==
    ASSUME caps \in CapSets, NEW cap \in Cap, NEW flag \in Flag, NEW set \in BOOLEAN,
           MayChangeTo(Changed(cap, flag, set)), ChangeTo(Changed(cap, flag, set))
    PROVE  /\ Shrinks
           /\ flag = "permitted" /\ ~set => cap \notin caps'.permitted
<1> DEFINE new == Changed(cap, flag, set)
<1>1. new \in CapSets
  BY SMTT(30) DEF Changed, CapSets, Flag
<1>2. new.ambient = caps.ambient
  BY DEF Changed, CapSets, Flag
<1>3. flag = "permitted" /\ ~set => cap \notin new.permitted
  BY DEF Changed, CapSets
<1>4. new.permitted \subseteq caps.permitted
  BY DEF MayChangeTo
<1> HIDE DEF new
<1>5. caps' = [new EXCEPT !.ambient = @ \cap new.permitted \cap new.inheritable]
  BY DEF ChangeTo, new
<1> QED
  BY <1>1, <1>2, <1>3, <1>4, <1>5 DEF Shrinks, CapSets

(* The steps that change the capabilities and go on whatever comes of it.    *)
LEMMA WarnedShrinks ==
    ASSUME caps \in CapSets, NEW at, NEW then, NEW cap \in Cap, NEW flag \in Flag,
           NEW set \in BOOLEAN, Warned(at, then, cap, flag, set)
    PROVE  pc = at /\ pc' = then /\ ShrinksOnly
<1>1. CASE UNCHANGED caps
  BY <1>1 DEF Warned, change_cap_state, Call, Shrinks, ShrinksOnly
<1>2. CASE MayChangeTo(Changed(cap, flag, set)) /\ ChangeTo(Changed(cap, flag, set))
  BY <1>2, ChangeShrinks DEF Warned, change_cap_state, Call, ShrinksOnly
<1> QED
  BY <1>1, <1>2 DEF Warned, change_cap_state, Call

(* Those that go on only when they have changed them.                        *)
LEMMA CheckedShrinks ==
    ASSUME caps \in CapSets, NEW at, NEW then, NEW cap \in Cap, NEW flag \in Flag,
           NEW set \in BOOLEAN, Checked(at, then, cap, flag, set)
    PROVE  /\ pc = at /\ ShrinksOnly
           /\ \/ pc' = "exited"
              \/ pc' = then /\ (flag = "permitted" /\ ~set => cap \notin caps'.permitted)
<1>1. CASE UNCHANGED caps /\ pc' = "exited"
  BY <1>1 DEF Checked, change_cap_state, Call, Shrinks, ShrinksOnly
<1>2. CASE MayChangeTo(Changed(cap, flag, set)) /\ ChangeTo(Changed(cap, flag, set))
  BY <1>2, ChangeShrinks DEF Checked, change_cap_state, Call, Exit, ShrinksOnly
<1> QED
  BY <1>1, <1>2 DEF Checked, change_cap_state, Call, Exit

-----------------------------------------------------------------------------
LEMMA ReadInvHolds == Init \/ GrantInit => ReadInv
<1> USE DEF ReadInv, Shed, Confined, StartCaps, CapSets, Cap, SafeReadCaps, GrantBefore,
            GrantInRoot, InRoot, WithoutBind, WithoutMknod
<1>1. ASSUME Init PROVE ReadInv
  BY <1>1, SafeReadAssumption DEF Init
<1>2. ASSUME GrantInit PROVE ReadInv
  <2>1. PICK file \in Grants : job = GrantReadJob(file) /\ StartCaps(file)
    BY <1>2 DEF GrantInit
  <2>2. file \subseteq {"sys_chroot", "dac_read_search"}
    BY GrantReadAssumption DEF GrantReadCaps
  <2>3. pc = "grant_raise_chroot" /\ job.program = "grant-read"
    BY <1>2, <2>1 DEF GrantInit, GrantReadJob
  <2>4. caps \in CapSets /\ caps.permitted \subseteq file /\ caps.ambient = {}
    BY <2>1, <2>2
  <2> QED
    BY <2>2, <2>3, <2>4
<1> QED
  BY <1>1, <1>2

(* The calls that have nothing to do with the capabilities.                  *)
LEMMA OtherCalls ==
    ASSUME ReadInv,
           \/ CheckSrc \/ Mkdtemp \/ Unshare \/ MountPrivate \/ MountTmpfs
           \/ MkdirDev \/ MakeDev \/ MakeParent \/ ParentsMade \/ MountBind
           \/ CallbackMkdir \/ CallbackCopy \/ NftwOver
    PROVE  ReadInv'
<1>1. UNCHANGED <<caps, no_new_privs, job, place>>
  BY DEF CheckSrc, Mkdtemp, Unshare, MountPrivate, MountTmpfs, IfSecure, MkdirDev, MakeDev,
         MakeParent, ParentsMade, MountBind, CallbackMkdir, CallbackCopy, NftwOver
<1>2. /\ pc \in {"check", "mkdtemp", "unshare", "private", "tmpfs", "mkdir_dev", "make_dev",
                 "parents", "bind", "nftw"}
      /\ pc' \in {"mkdtemp", "raise_mount", "private", "tmpfs", "lower_mount", "raise_mknod",
                  "make_dev", "lower_mknod", "parents", "raise_bind", "lower_bind", "nftw",
                  "raise_chroot", "aborted", "exited"}
      /\ pc' \in WithoutMknod => pc \in WithoutMknod
      /\ pc' \in WithoutBind => pc \in WithoutBind
  BY DEF CheckSrc, Mkdtemp, Unshare, MountPrivate, MountTmpfs, IfSecure, MkdirDev, MakeDev,
         MakeParent, ParentsMade, MountBind, CallbackMkdir, CallbackCopy, NftwOver, Call, Exit,
         WithoutMknod, WithoutBind, GrantBefore, GrantInRoot, InRoot
<1> QED
  BY <1>1, <1>2 DEF ReadInv, Shed, Confined, place, InRoot, GrantBefore, GrantInRoot

(* Those that make a capability effective, or no longer effective, or        *)
(* inheritable, or drop it.                                                  *)
LEMMA CapCalls ==
    ASSUME ReadInv,
           \/ RaiseMount \/ LowerMount \/ RaiseMknod \/ LowerMknod \/ DropMknod
           \/ RaiseBind \/ LowerBind \/ DropBind
           \/ RaiseChroot \/ LowerChroot \/ DropChroot \/ Inherit
           \/ GrantRaiseChroot \/ GrantLowerChroot \/ GrantDropChroot \/ GrantInherit
    PROVE  ReadInv'
<1>0. /\ caps \in CapSets
      /\ {"sys_admin", "sys_chroot", "mknod", "dac_read_search"} \subseteq Cap
      /\ {"permitted", "effective", "inheritable"} \subseteq Flag
  BY DEF ReadInv, Shed, Cap, Flag
<1> USE DEF ReadInv, Shed, Confined, place, GrantBefore, GrantInRoot, InRoot, WithoutBind,
            WithoutMknod
<1>1. ASSUME \/ RaiseMount \/ RaiseMknod \/ RaiseBind \/ RaiseChroot \/ GrantRaiseChroot
      PROVE  ReadInv'
  <2>1. RaiseMount => /\ pc = "raise_mount" /\ ShrinksOnly
                      /\ pc' = "unshare"
    BY <1>0, WarnedShrinks DEF RaiseMount
  <2>2. RaiseMknod => /\ pc = "raise_mknod" /\ ShrinksOnly
                      /\ pc' = "make_dev"
    BY <1>0, WarnedShrinks DEF RaiseMknod
  <2>3. RaiseBind => /\ pc = "raise_bind" /\ ShrinksOnly
                     /\ pc' = "bind"
    BY <1>0, WarnedShrinks DEF RaiseBind
  <2>4. RaiseChroot => /\ pc = "raise_chroot" /\ ShrinksOnly
                       /\ pc' = "chroot"
    BY <1>0, WarnedShrinks DEF RaiseChroot
  <2>5. GrantRaiseChroot => /\ pc = "grant_raise_chroot" /\ ShrinksOnly
                            /\ pc' = "grant_chroot"
    BY <1>0, WarnedShrinks DEF GrantRaiseChroot
  <2> QED
    BY <1>1, <2>1, <2>2, <2>3, <2>4, <2>5 DEF ShrinksOnly, Shrinks
<1>2. ASSUME \/ LowerMount \/ LowerMknod \/ LowerBind \/ LowerChroot \/ GrantLowerChroot
      PROVE  ReadInv'
  <2>1. LowerMount => /\ pc = "lower_mount" /\ ShrinksOnly
                      /\ pc' \in {"exited", "mkdir_dev"}
    BY <1>0, CheckedShrinks DEF LowerMount
  <2>2. LowerMknod => /\ pc = "lower_mknod" /\ ShrinksOnly
                      /\ pc' \in {"exited", "drop_mknod"}
    BY <1>0, CheckedShrinks DEF LowerMknod
  <2>3. LowerBind => /\ pc = "lower_bind" /\ ShrinksOnly
                     /\ pc' \in {"exited", "drop_bind"}
    BY <1>0, CheckedShrinks DEF LowerBind
  <2>4. LowerChroot => /\ pc = "lower_chroot" /\ ShrinksOnly
                       /\ pc' \in {"exited", "drop_chroot"}
    BY <1>0, CheckedShrinks DEF LowerChroot
  <2>5. GrantLowerChroot => /\ pc = "grant_lower_chroot" /\ ShrinksOnly
                            /\ pc' \in {"exited", "grant_drop_chroot"}
    BY <1>0, CheckedShrinks DEF GrantLowerChroot
  <2> QED
    BY <1>2, <2>1, <2>2, <2>3, <2>4, <2>5 DEF ShrinksOnly, Shrinks
<1>3. ASSUME DropBind \/ DropChroot \/ GrantDropChroot PROVE ReadInv'
  <2>1. DropBind => /\ pc = "drop_bind" /\ ShrinksOnly
                    /\ \/ pc' = "exited"
                       \/ pc' = "nftw" /\ "sys_admin" \notin caps'.permitted
    BY <1>0, CheckedShrinks DEF DropBind
  <2>2. DropChroot => /\ pc = "drop_chroot" /\ ShrinksOnly
                      /\ \/ pc' = "exited"
                         \/ pc' = "chdir" /\ "sys_chroot" \notin caps'.permitted
    BY <1>0, CheckedShrinks DEF DropChroot
  <2>3. GrantDropChroot => /\ pc = "grant_drop_chroot" /\ ShrinksOnly
                           /\ \/ pc' = "exited"
                              \/ pc' = "grant_inherit" /\ "sys_chroot" \notin caps'.permitted
    BY <1>0, CheckedShrinks DEF GrantDropChroot
  <2> QED
    BY <1>3, <2>1, <2>2, <2>3 DEF ShrinksOnly, Shrinks
<1>4. ASSUME Inherit \/ GrantInherit PROVE ReadInv'
  <2>1. Inherit => /\ pc = "inherit" /\ ShrinksOnly
                   /\ pc' \in {"exited", "ambient"}
    BY <1>0, CheckedShrinks DEF Inherit
  <2>2. GrantInherit => /\ pc = "grant_inherit" /\ ShrinksOnly
                        /\ pc' \in {"exited", "grant_ambient"}
    BY <1>0, CheckedShrinks DEF GrantInherit
  <2> QED
    BY <1>4, <2>1, <2>2 DEF ShrinksOnly, Shrinks
<1>5. ASSUME DropMknod PROVE ReadInv'
  <2>1. CASE UNCHANGED caps /\ pc' = "exited"
    BY <1>5, <2>1 DEF DropMknod
  <2>2. CASE /\ MayChangeTo(Changed("mknod", "permitted", FALSE))
             /\ ChangeTo(Changed("mknod", "permitted", FALSE))
    <3>1. Shrinks /\ "mknod" \notin caps'.permitted
      BY <1>0, <2>2, ChangeShrinks
    <3>2. pc = "drop_mknod" /\ pc' \in {"parents", "exited"}
          /\ UNCHANGED <<no_new_privs, job, place>>
      BY <1>5 DEF DropMknod, change_cap_state, Call, Exit
    <3> QED
      BY <3>1, <3>2 DEF Shrinks
  <2> QED
    BY <1>5, <2>1, <2>2 DEF DropMknod, change_cap_state, Call, Exit
<1> QED
  BY <1>1, <1>2, <1>3, <1>4, <1>5

(* The last ones: the new root directory, the ambient capability, the        *)
(* command.                                                                  *)
LEMMA LastCalls ==
    ASSUME ReadInv,
           \/ Chroot \/ GrantChroot \/ Chdir \/ Ambient \/ GrantAmbient
           \/ NoNewPrivs \/ GrantNoNewPrivs \/ Execvp \/ GrantExecvp \/ CommandExecs
    PROVE  ReadInv'
<1> USE DEF ReadInv, Shed, Confined, place, GrantBefore, GrantInRoot, InRoot,
            WithoutBind, WithoutMknod
<1>1. ASSUME Chroot \/ GrantChroot PROVE ReadInv'
  BY <1>1 DEF Chroot, GrantChroot, NewRoot, Call, Exit
<1>2. ASSUME Chdir PROVE ReadInv'
  BY <1>2 DEF Chdir, Call, Exit
<1>3. ASSUME Ambient \/ GrantAmbient PROVE ReadInv'
  <2>1. CASE caps' = caps
    BY <1>3, <2>1 DEF Ambient, GrantAmbient, Call, Exit
  <2>2. CASE RaiseAmbient("dac_read_search")
    <3>1. caps' \in CapSets /\ caps'.permitted = caps.permitted
          /\ caps'.ambient = caps.ambient \cup {"dac_read_search"}
      BY <2>2 DEF RaiseAmbient, CapSets, Cap
    <3> QED
      BY <1>3, <3>1 DEF Ambient, GrantAmbient, Call, Exit
  <2> QED
    BY <1>3, <2>1, <2>2 DEF Ambient, GrantAmbient, Call
<1>4. ASSUME NoNewPrivs \/ GrantNoNewPrivs PROVE ReadInv'
  BY <1>4 DEF NoNewPrivs, GrantNoNewPrivs, Call, Exit
<1>5. ASSUME Execvp \/ GrantExecvp \/ CommandExecs PROVE ReadInv'
  <2>1. no_new_privs = TRUE /\ caps.permitted \subseteq {"dac_read_search"}
    BY <1>5 DEF Execvp, GrantExecvp, CommandExecs, SafeReadCaps
  <2>2. ASSUME NEW file \in Executables
        PROVE  /\ ExecCaps(file) \in CapSets
               /\ ExecCaps(file).permitted \subseteq {"dac_read_search"}
               /\ ExecCaps(file).ambient \subseteq {"dac_read_search"}
    BY <2>1 DEF ExecCaps, CapSets, Cap
  <2>3. CASE caps' = caps
    BY <1>5, <2>1, <2>3 DEF Execvp, GrantExecvp, CommandExecs, Call, Exit
  <2>4. CASE \E file \in Executables : caps' = ExecCaps(file)
    <3>1. /\ caps' \in CapSets /\ caps'.permitted \subseteq {"dac_read_search"}
          /\ caps'.ambient \subseteq {"dac_read_search"}
      BY <2>2, <2>4
    <3>2. /\ pc \in {"exec", "grant_exec", "command"} /\ pc' \in {"command", "exited"}
          /\ UNCHANGED <<no_new_privs, job, place>>
      BY <1>5 DEF Execvp, GrantExecvp, CommandExecs, Call, Exit
    <3> QED
      BY <2>1, <3>1, <3>2 DEF SafeReadCaps
  <2> QED
    BY <1>5, <2>3, <2>4 DEF Execvp, GrantExecvp, CommandExecs, Call
<1> QED
  BY <1>1, <1>2, <1>3, <1>4, <1>5

LEMMA ReadStep == ReadInv /\ [Next \/ GrantStep]_vars => ReadInv'
<1>1. ASSUME ReadInv, UNCHANGED vars PROVE ReadInv'
  BY <1>1 DEF vars, ReadInv, Shed, Confined
<1> QED
  BY <1>1, OtherCalls, CapCalls, LastCalls DEF Next, MainStep, GrantStep, Ended

(* Whatever the path, the template and the grants, and whichever calls fail, *)
(* the command has of the capabilities at most the one to read any file, and *)
(* is inside the new root directory (src/safe-read.c, src/grant-read.c).     *)
THEOREM ReadersSafe == ReadersSpec => []OnlyReadingLeft
<1>1. ReadInv => OnlyReadingLeft
  BY DEF ReadInv, Shed, Confined, OnlyReadingLeft, InRoot, WithoutBind, WithoutMknod,
         SafeReadCaps
<1> QED
  BY <1>1, ReadInvHolds, ReadStep, PTL DEF ReadersSpec

-----------------------------------------------------------------------------
(* With what security a file may be made: in the namespace of the process    *)
(* alone, where something covers the directory from mkdtemp.                 *)
Covered == {"lower_mount", "mkdir_dev", "raise_mknod", "make_dev", "lower_mknod", "drop_mknod",
            "parents", "raise_bind", "bind", "lower_bind", "drop_bind", "nftw"}
Unbound == {"check", "mkdtemp", "raise_mount", "unshare", "private", "tmpfs"}
              \cup (Covered \ {"lower_bind", "drop_bind", "nftw"})

Secluded ==
    /\ mounts \in [{"host", "own"} -> SUBSET {"tmpfs", "bind"}]
    /\ ns \in {"host", "own"}
    /\ job.security =>
          /\ pc \in {"private", "tmpfs"} \cup Covered => ns = "own"
          /\ pc \in {"tmpfs"} \cup Covered => private = TRUE
          /\ pc \in Covered => "tmpfs" \in mounts.own
          /\ pc \in Unbound => "bind" \notin mounts[ns]

HostInv == Secluded /\ HostUntouched

LEMMA HostInvHolds == Init \/ GrantInit => HostInv
  BY DEF Init, GrantInit, GrantReadJob, HostInv, Secluded, HostUntouched, Covered, Unbound

(* The calls that make a file or a directory.                                *)
LEMMA FilesMade ==
    ASSUME HostInv, \/ Mkdtemp \/ MkdirDev \/ MakeDev \/ MakeParent
                    \/ CallbackMkdir \/ CallbackCopy
    PROVE  HostInv'
<1>1. UNCHANGED <<job, mounting>>
  BY DEF Mkdtemp, MkdirDev, MakeDev, MakeParent, CallbackMkdir, CallbackCopy
<1>2. Secluded'
  BY <1>1 DEF HostInv, Secluded, mounting, Covered, Unbound, Mkdtemp, MkdirDev, MakeDev,
              MakeParent, CallbackMkdir, CallbackCopy, Call, Exit
<1>3. ASSUME NEW names, NEW what, job.security, \/ pc = "mkdtemp" /\ names = <<>>
                                                \/ pc \in {"mkdir_dev", "make_dev"}
                                                \/ pc \in Covered /\ MayCreate(names)
      PROVE  /\ File(names, what).at = "disk" => File(names, what).names = <<>>
             /\ File(names, what).at = "source" => job.writable
  BY <1>3 DEF HostInv, Secluded, Covered, Unbound, File, Where, MayCreate
<1>4. ASSUME job.security, NEW f \in files', f \notin files
      PROVE  /\ f.at = "disk" => f.names = <<>>
             /\ f.at = "source" => job.writable
  <2>1. CASE Mkdtemp
    BY <1>3, <1>4, <2>1 DEF Mkdtemp, Call, Exit
  <2>2. CASE MkdirDev
    BY <1>3, <1>4, <2>2 DEF MkdirDev, Call, Exit
  <2>3. CASE MakeDev
    BY <1>3, <1>4, <2>3 DEF MakeDev, Call, Exit
  <2>4. CASE MakeParent
    BY <1>3, <1>4, <2>4 DEF MakeParent, Call, Exit, Covered
  <2>5. CASE CallbackMkdir
    BY <1>3, <1>4, <2>5 DEF CallbackMkdir, Call, Exit, Covered
  <2>6. CASE CallbackCopy
    BY <1>3, <1>4, <2>6 DEF CallbackCopy, Call, Exit, Covered
  <2> QED
    BY <2>1, <2>2, <2>3, <2>4, <2>5, <2>6
<1> QED
  BY <1>1, <1>2, <1>4 DEF HostInv, HostUntouched, mounting

(* The calls that change the mounts or the namespace.                        *)
LEMMA MountsMade ==
    ASSUME HostInv, Unshare \/ MountPrivate \/ MountTmpfs \/ MountBind
    PROVE  HostInv'
<1> USE DEF HostInv, Secluded, HostUntouched, Covered, Unbound, Call, Exit
<1>1. CASE Unshare
  BY <1>1 DEF Unshare, IfSecure, mounting
<1>2. CASE MountPrivate
  BY <1>2 DEF MountPrivate, IfSecure, mounting
<1>3. CASE MountTmpfs
  BY <1>3 DEF MountTmpfs, IfSecure, mounting, Mount
<1>4. CASE MountBind
  BY <1>4 DEF MountBind, Mount
<1> QED
  BY <1>1, <1>2, <1>3, <1>4

(* All others leave both as they are.                                        *)
LEMMA NothingMade ==
    ASSUME HostInv,
           \/ UNCHANGED vars \/ CommandExecs \/ CheckSrc \/ ParentsMade \/ NftwOver
           \/ RaiseMount \/ LowerMount \/ RaiseMknod \/ LowerMknod \/ DropMknod
           \/ RaiseBind \/ LowerBind \/ DropBind
           \/ RaiseChroot \/ Chroot \/ LowerChroot \/ DropChroot \/ Chdir
           \/ Inherit \/ Ambient \/ NoNewPrivs \/ Execvp \/ GrantStep
    PROVE  HostInv'
<1>1. UNCHANGED <<job, mounting, files>>
  BY DEF vars, CommandExecs, CheckSrc, ParentsMade, NftwOver, RaiseMount, LowerMount, RaiseMknod,
         LowerMknod, DropMknod, RaiseBind, LowerBind, DropBind, RaiseChroot, Chroot, LowerChroot,
         DropChroot, Chdir, Inherit, Ambient, NoNewPrivs, Execvp, GrantStep, GrantRaiseChroot,
         GrantChroot, GrantLowerChroot, GrantDropChroot, GrantInherit, GrantAmbient,
         GrantNoNewPrivs, GrantExecvp, Warned, Checked, mounting
<1>2. /\ pc' \in Covered => pc \in Covered
      /\ pc' \in Unbound => pc \in Unbound
      /\ pc' \in {"private", "tmpfs"} => pc' = pc
  <2> USE DEF Covered, Unbound, Exit, Call, change_cap_state
  <2>1. CASE UNCHANGED vars \/ CommandExecs
    BY <2>1 DEF vars, CommandExecs
  <2>2. CASE CheckSrc \/ ParentsMade \/ NftwOver
    BY <2>2 DEF CheckSrc, ParentsMade, NftwOver
  <2>3. CASE RaiseMount \/ RaiseMknod \/ RaiseBind \/ RaiseChroot
    BY <2>3 DEF RaiseMount, RaiseMknod, RaiseBind, RaiseChroot, Warned
  <2>4. CASE LowerMount \/ LowerMknod \/ LowerBind \/ LowerChroot
    BY <2>4 DEF LowerMount, LowerMknod, LowerBind, LowerChroot, Checked
  <2>5. CASE DropMknod \/ DropBind \/ DropChroot
    BY <2>5 DEF DropMknod, DropBind, DropChroot, Checked
  <2>6. CASE Chroot \/ Chdir \/ Inherit \/ Ambient \/ NoNewPrivs \/ Execvp
    BY <2>6 DEF Chroot, Chdir, Inherit, Checked, Ambient, NoNewPrivs, Execvp
  <2>7. CASE GrantStep
    BY <2>7 DEF GrantStep, GrantRaiseChroot, GrantChroot, GrantLowerChroot, GrantDropChroot,
                GrantInherit, GrantAmbient, GrantNoNewPrivs, GrantExecvp, Warned, Checked
  <2> QED
    BY <2>1, <2>2, <2>3, <2>4, <2>5, <2>6, <2>7
<1> QED
  BY <1>1, <1>2 DEF HostInv, Secluded, HostUntouched, mounting

(* With its own namespace nothing of what safe-read builds is seen outside   *)
(* (src/safe-read.c:221-234), wherever it ends.                              *)
THEOREM HostSafe == ReadersSpec => []HostUntouched
<1>1. HostInv /\ [Next \/ GrantStep]_vars => HostInv'
  BY FilesMade, MountsMade, NothingMade DEF Next, MainStep, Ended
<1>2. HostInv => HostUntouched
  BY DEF HostInv
<1> QED
  BY <1>1, <1>2, HostInvHolds, PTL DEF ReadersSpec

-----------------------------------------------------------------------------
(* Before the command runs the capability to read is not effective.          *)
NotReading == "dac_read_search" \notin caps.effective

ReadAsUser ==
    /\ next \in Nat \ {0}
    /\ Len(job.template) \in Nat
    /\ pc # "command" => NotReading
    /\ TemplateReadAsUser

LEMMA ReadAsUserHolds == Init \/ GrantInit => ReadAsUser
<1>1. ASSUME Init PROVE ReadAsUser
  BY <1>1, SafeReadAssumption DEF Init, StartCaps, ReadAsUser, NotReading, TemplateReadAsUser
<1>2. ASSUME GrantInit PROVE ReadAsUser
  BY <1>2 DEF GrantInit, GrantReadJob, StartCaps, ReadAsUser, NotReading, TemplateReadAsUser
<1> QED
  BY <1>1, <1>2

LEMMA ChangeNotReading ==
    ASSUME caps \in CapSets, NotReading, NEW cap \in Cap, NEW flag \in Flag,
           NEW set \in BOOLEAN, flag = "effective" => cap # "dac_read_search",
           ChangeTo(Changed(cap, flag, set))
    PROVE  NotReading'
<1> DEFINE new == Changed(cap, flag, set)
<1>1. new \in CapSets
  BY SMTT(30) DEF Changed, CapSets, Flag
<1>2. "dac_read_search" \notin new.effective
  BY DEF NotReading, Changed, CapSets, Flag
<1> HIDE DEF new
<1>3. caps' = [new EXCEPT !.ambient = @ \cap new.permitted \cap new.inheritable]
  BY DEF ChangeTo, new
<1> QED
  BY <1>1, <1>2, <1>3 DEF NotReading, CapSets

(* What the steps that change the capabilities leave.                        *)
Harmless == UNCHANGED <<next, job, files>> /\ NotReading' /\ pc' # "command"

LEMMA CapsHarmless ==
    ASSUME caps \in CapSets, NotReading, NEW at, NEW then, then # "command", NEW cap \in Cap,
           NEW flag \in Flag, NEW set \in BOOLEAN, flag = "effective" => cap # "dac_read_search",
           Warned(at, then, cap, flag, set) \/ Checked(at, then, cap, flag, set)
    PROVE  Harmless
<1>1. UNCHANGED <<next, job, files>> /\ pc' # "command"
  BY DEF Warned, Checked, change_cap_state, Call, Exit, locals
<1>2. CASE UNCHANGED caps
  BY <1>1, <1>2 DEF Harmless, NotReading
<1>3. CASE ChangeTo(Changed(cap, flag, set))
  BY <1>1, <1>3, ChangeNotReading DEF Harmless
<1> QED
  BY <1>2, <1>3 DEF Warned, Checked, change_cap_state, Call

LEMMA HarmlessStep ==
    ASSUME ReadInv, ReadAsUser, pc # "command",
           \/ RaiseMount \/ LowerMount \/ RaiseMknod \/ LowerMknod \/ DropMknod
           \/ RaiseBind \/ LowerBind \/ DropBind
           \/ RaiseChroot \/ LowerChroot \/ DropChroot \/ Inherit
           \/ GrantRaiseChroot \/ GrantLowerChroot \/ GrantDropChroot \/ GrantInherit
    PROVE  Harmless
<1>0. /\ caps \in CapSets /\ NotReading
      /\ {"sys_admin", "sys_chroot", "mknod", "dac_read_search"} \subseteq Cap
      /\ {"permitted", "effective", "inheritable"} \subseteq Flag
  BY DEF ReadInv, Shed, Cap, Flag, ReadAsUser
<1>1. CASE RaiseMount
  BY <1>0, <1>1, CapsHarmless DEF RaiseMount
<1>2. CASE LowerMount
  BY <1>0, <1>2, CapsHarmless DEF LowerMount
<1>3. CASE RaiseMknod
  BY <1>0, <1>3, CapsHarmless DEF RaiseMknod
<1>4. CASE LowerMknod
  BY <1>0, <1>4, CapsHarmless DEF LowerMknod
<1>5. CASE DropMknod
  <2>1. UNCHANGED <<next, job, files>> /\ pc' # "command"
    BY <1>5 DEF DropMknod, change_cap_state, Call, Exit
  <2>2. CASE UNCHANGED caps
    BY <1>0, <2>1, <2>2 DEF Harmless, NotReading
  <2>3. CASE ChangeTo(Changed("mknod", "permitted", FALSE))
    BY <1>0, <2>1, <2>3, ChangeNotReading DEF Harmless
  <2> QED
    BY <1>5, <2>2, <2>3 DEF DropMknod, change_cap_state, Call
<1>6. CASE RaiseBind
  BY <1>0, <1>6, CapsHarmless DEF RaiseBind
<1>7. CASE LowerBind
  BY <1>0, <1>7, CapsHarmless DEF LowerBind
<1>8. CASE DropBind
  BY <1>0, <1>8, CapsHarmless DEF DropBind
<1>9. CASE RaiseChroot
  BY <1>0, <1>9, CapsHarmless DEF RaiseChroot
<1>10. CASE LowerChroot
  BY <1>0, <1>10, CapsHarmless DEF LowerChroot
<1>11. CASE DropChroot
  BY <1>0, <1>11, CapsHarmless DEF DropChroot
<1>12. CASE Inherit
  BY <1>0, <1>12, CapsHarmless DEF Inherit
<1>13. CASE GrantRaiseChroot
  BY <1>0, <1>13, CapsHarmless DEF GrantRaiseChroot
<1>14. CASE GrantLowerChroot
  BY <1>0, <1>14, CapsHarmless DEF GrantLowerChroot
<1>15. CASE GrantDropChroot
  BY <1>0, <1>15, CapsHarmless DEF GrantDropChroot
<1>16. CASE GrantInherit
  BY <1>0, <1>16, CapsHarmless DEF GrantInherit
<1> QED
  BY <1>1, <1>2, <1>3, <1>4, <1>5, <1>6, <1>7, <1>8, <1>9, <1>10, <1>11, <1>12, <1>13, <1>14,
     <1>15, <1>16

(* What is made but by copying has nothing of the template in it.            *)
LEMMA PlainFile ==
    ASSUME ReadAsUser, NEW names, NEW what \in {"dir", "device"},
           files' \subseteq files \cup {File(names, what)}, UNCHANGED job
    PROVE  TemplateReadAsUser'
BY DEF ReadAsUser, TemplateReadAsUser, File

LEMMA ReadAsUserStep == ReadInv /\ ReadAsUser /\ [Next \/ GrantStep]_vars => ReadAsUser'
<1> SUFFICES ASSUME ReadInv, ReadAsUser, [Next \/ GrantStep]_vars PROVE ReadAsUser'
  OBVIOUS
<1>1. ASSUME UNCHANGED <<job, files>>, next' \in Nat \ {0}, pc' # "command" => NotReading'
      PROVE  ReadAsUser'
  BY <1>1 DEF ReadAsUser, TemplateReadAsUser
<1>2. CASE \/ RaiseMount \/ LowerMount \/ RaiseMknod \/ LowerMknod \/ DropMknod
           \/ RaiseBind \/ LowerBind \/ DropBind
           \/ RaiseChroot \/ LowerChroot \/ DropChroot \/ Inherit
           \/ GrantRaiseChroot \/ GrantLowerChroot \/ GrantDropChroot \/ GrantInherit
  <2>1. pc # "command"
    BY <1>2 DEF RaiseMount, LowerMount, RaiseMknod, LowerMknod, DropMknod, RaiseBind, LowerBind,
                DropBind, RaiseChroot, LowerChroot, DropChroot, Inherit, GrantRaiseChroot,
                GrantLowerChroot, GrantDropChroot, GrantInherit, Warned, Checked
  <2> QED
    BY <1>1, <1>2, <2>1, HarmlessStep DEF Harmless, ReadAsUser
<1>3. CASE \/ CheckSrc \/ Unshare \/ MountPrivate \/ MountTmpfs \/ ParentsMade \/ MountBind
           \/ NftwOver \/ Chroot \/ GrantChroot \/ Chdir \/ NoNewPrivs \/ GrantNoNewPrivs
           \/ UNCHANGED vars
  <2>1. UNCHANGED <<caps, next, job>> /\ (pc = "command" => pc' = pc)
    BY <1>3
    DEF CheckSrc, Unshare, MountPrivate, MountTmpfs, IfSecure, ParentsMade, MountBind, NftwOver,
        Chroot, GrantChroot, Chdir, NoNewPrivs, GrantNoNewPrivs, locals, vars
  <2>2. CASE UNCHANGED files
    BY <1>1, <2>1, <2>2 DEF ReadAsUser, NotReading
  <2>3. CASE MountTmpfs
    <3>1. files' \subseteq files \cup {[at |-> "tmpfs", names |-> <<>>, is |-> "dir"]}
      BY <2>3 DEF MountTmpfs, IfSecure, Call, mounting
    <3> QED
      BY <2>1, <3>1 DEF ReadAsUser, NotReading, TemplateReadAsUser
  <2> QED
    BY <1>3, <2>2, <2>3
    DEF CheckSrc, Unshare, MountPrivate, IfSecure, Call, ParentsMade, MountBind, NftwOver,
        Chroot, GrantChroot, Chdir, NoNewPrivs, GrantNoNewPrivs, vars
<1>4. CASE Mkdtemp \/ MkdirDev \/ MakeDev \/ MakeParent \/ CallbackMkdir
  <2>1. UNCHANGED <<caps, job>> /\ next' \in Nat \ {0} /\ pc # "command"
    BY <1>4 DEF Mkdtemp, MkdirDev, MakeDev, MakeParent, CallbackMkdir, Call, locals, ReadAsUser
  <2>2. PICK names : \E what \in {"dir", "device"} :
            files' \subseteq files \cup {File(names, what)}
    BY <1>4 DEF Mkdtemp, MkdirDev, MakeDev, MakeParent, CallbackMkdir, Call
  <2> QED
    BY <2>1, <2>2, PlainFile DEF ReadAsUser, NotReading
<1>5. CASE CallbackCopy
  <2>1. UNCHANGED <<caps, job>> /\ next' \in Nat \ {0} /\ pc # "command"
        /\ next \in 1 .. Len(job.template)
    BY <1>5 DEF CallbackCopy, Call, ReadAsUser
  <2>2. CASE UNCHANGED files
    BY <1>1, <2>1, <2>2 DEF ReadAsUser, NotReading
  <2>3. CASE MayOpen(Entry) /\ \E what : files' = files \cup {File(Names(Entry.path), what)}
    <3>1. PICK what : files' = files \cup {File(Names(Entry.path), what)}
      BY <2>3
    <3>2. job.template[next].readable
      BY <2>1, <2>3 DEF MayOpen, Entry, ReadAsUser, NotReading
    <3>3. TemplateReadAsUser'
      BY <2>1, <3>1, <3>2 DEF ReadAsUser, TemplateReadAsUser, File, Entry
    <3> QED
      BY <2>1, <3>3 DEF ReadAsUser, NotReading
  <2> QED
    BY <1>5, <2>2, <2>3 DEF CallbackCopy, Call
<1>6. CASE Ambient \/ GrantAmbient \/ Execvp \/ GrantExecvp \/ CommandExecs
  <2>1. UNCHANGED <<job, files, next>>
    BY <1>6 DEF Ambient, GrantAmbient, Execvp, GrantExecvp, CommandExecs, locals
  <2>2. pc' # "command" => NotReading'
    <3>1. CASE UNCHANGED caps
      BY <1>6, <3>1
      DEF Ambient, GrantAmbient, Execvp, GrantExecvp, CommandExecs, ReadAsUser, NotReading
    <3>2. CASE RaiseAmbient("dac_read_search")
      BY <1>6, <3>2
      DEF Ambient, GrantAmbient, Execvp, GrantExecvp, CommandExecs, ReadAsUser, NotReading,
          RaiseAmbient, ReadInv, Shed, CapSets
    <3> QED
      BY <1>6, <3>1, <3>2 DEF Ambient, GrantAmbient, Execvp, GrantExecvp, CommandExecs, Call
  <2> QED
    BY <1>1, <2>1, <2>2 DEF ReadAsUser
<1> QED
  BY <1>2, <1>3, <1>4, <1>5, <1>6 DEF Next, MainStep, GrantStep, Ended

(* Only what the user may read gets into the new root directory, although    *)
(* the process may make the right to read any file effective all the time    *)
(* (src/safe-read.c:97-126).                                                 *)
THEOREM TemplateSafe == ReadersSpec => []TemplateReadAsUser
<1>1. ReadAsUser => TemplateReadAsUser
  BY DEF ReadAsUser
<1> QED
  BY <1>1, ReadInvHolds, ReadStep, ReadAsUserHolds, ReadAsUserStep, PTL DEF ReadersSpec

-----------------------------------------------------------------------------
(* From which call on what the command is to find is there.  Only the bind   *)
(* mount moves a name to another file system.                                *)
Emptied == {"raise_chroot", "chroot", "lower_chroot", "drop_chroot", "chdir", "inherit",
            "ambient", "no_new_privs", "exec"}
Bound == {"lower_bind", "drop_bind", "nftw"} \cup Emptied
WithDevices == {"lower_mknod", "drop_mknod", "parents", "raise_bind", "bind"} \cup Bound

Provided ==
    /\ next \in Nat \ {0}
    /\ next = 1 \/ pc \in {"make_dev", "nftw", "exited", "command"} \cup Emptied
    /\ Len(job.template) \in Nat
    /\ pc = "make_dev" => \A i \in 1 .. Len(Devices) : i < next => HasDevice(i)
    /\ pc \in WithDevices => \A i \in 1 .. Len(Devices) : HasDevice(i)
    /\ pc \in Bound => "bind" \in mounts[ns]
    /\ pc = "nftw" => \A i \in 1 .. Len(job.template) : i < next => HasEntry(i)
    /\ pc \in Emptied => \A i \in 1 .. Len(job.template) : HasEntry(i)
    /\ pc \in {"no_new_privs", "exec", "grant_no_new_privs", "grant_exec"} =>
          "dac_read_search" \in caps.ambient

LEMMA ProvidedHolds == Init \/ GrantInit => Provided
<1>1. ASSUME Init PROVE Provided
  BY <1>1, SafeReadAssumption DEF Init, Provided, WithDevices, Bound, Emptied
<1>2. ASSUME GrantInit PROVE Provided
  BY <1>2 DEF GrantInit, GrantReadJob, Provided, WithDevices, Bound, Emptied
<1> QED
  BY <1>1, <1>2

(* Files are never removed.                                                  *)
LEMMA FilesStay ==
    ASSUME UNCHANGED <<job, mounting>>, files \subseteq files', NEW i
    PROVE  /\ HasDevice(i) => HasDevice(i)'
           /\ HasEntry(i) => HasEntry(i)'
<1>1. HasDevice(i) => HasDevice(i)'
  BY DEF HasDevice, File, Where, mounting
<1>2. HasEntry(i) => HasEntry(i)'
  BY DEF HasEntry, Exists, File, Where, mounting
<1> QED
  BY <1>1, <1>2

(* Such a step disturbs none of it.                                          *)
Onwards ==
    /\ UNCHANGED <<job, mounting, next>>
    /\ files \subseteq files'
    /\ pc' \in {"make_dev", "nftw"} => next = 1
    /\ next = 1 \/ pc' \in {"exited", "command"} \cup Emptied
    /\ pc' \in WithDevices => pc \in WithDevices
    /\ pc' \in Bound => pc \in Bound
    /\ pc' \in Emptied => pc \in Emptied
    /\ pc' \in {"no_new_privs", "exec", "grant_no_new_privs", "grant_exec"} =>
          "dac_read_search" \in caps'.ambient

LEMMA OnwardsKeeps == ASSUME Provided, Onwards PROVE Provided'
<1>1. \A i : /\ HasDevice(i) => HasDevice(i)'
             /\ HasEntry(i) => HasEntry(i)'
  BY FilesStay DEF Onwards
<1>2. UNCHANGED <<job, next>> /\ (mounts[ns])' = mounts[ns]
  BY DEF Onwards, mounting
<1>3. /\ next' \in Nat \ {0}
      /\ next' = 1 \/ pc' \in {"make_dev", "nftw", "exited", "command"} \cup Emptied
      /\ Len(job'.template) \in Nat
  BY <1>2 DEF Provided, Onwards
<1>4. pc' = "make_dev" => \A i \in 1 .. Len(Devices) : i < next' => HasDevice(i)'
  BY <1>2 DEF Onwards
<1>5. pc' \in WithDevices => \A i \in 1 .. Len(Devices) : HasDevice(i)'
  BY <1>1 DEF Provided, Onwards
<1>6. pc' \in Bound => "bind" \in (mounts[ns])'
  BY <1>2 DEF Provided, Onwards
<1>7. pc' = "nftw" => \A i \in 1 .. Len(job'.template) : i < next' => HasEntry(i)'
  BY <1>2 DEF Onwards, Provided
<1>8. pc' \in Emptied => \A i \in 1 .. Len(job'.template) : HasEntry(i)'
  BY <1>1, <1>2 DEF Provided, Onwards
<1> QED
  BY <1>3, <1>4, <1>5, <1>6, <1>7, <1>8 DEF Provided, Onwards

(* The calls that only move on, or that change the capabilities.             *)
LEMMA MovesOn ==
    ASSUME Provided, caps \in CapSets,
           \/ CheckSrc \/ Mkdtemp \/ MkdirDev \/ MakeParent \/ ParentsMade
           \/ RaiseMount \/ LowerMount \/ RaiseMknod \/ LowerMknod \/ DropMknod
           \/ RaiseBind \/ LowerBind \/ DropBind
           \/ RaiseChroot \/ Chroot \/ LowerChroot \/ DropChroot \/ Chdir
           \/ Inherit \/ Ambient \/ NoNewPrivs \/ Execvp
    PROVE  Onwards
<1> USE DEF Provided, Onwards, WithDevices, Bound, Emptied, Exit, Call, locals, mounting
<1>1. CASE CheckSrc \/ Mkdtemp \/ MkdirDev
  BY <1>1 DEF CheckSrc, Mkdtemp, MkdirDev
<1>2. CASE MakeParent \/ ParentsMade
  BY <1>2 DEF MakeParent, ParentsMade
<1>3. CASE RaiseMount \/ RaiseMknod \/ RaiseBind \/ RaiseChroot
  BY <1>3 DEF RaiseMount, RaiseMknod, RaiseBind, RaiseChroot, Warned, change_cap_state
<1>4. CASE LowerMount \/ LowerMknod \/ LowerBind \/ LowerChroot
  BY <1>4 DEF LowerMount, LowerMknod, LowerBind, LowerChroot, Checked, change_cap_state
<1>5. CASE DropMknod \/ DropBind \/ DropChroot \/ Inherit
  BY <1>5 DEF DropMknod, DropBind, DropChroot, Inherit, Checked, change_cap_state
<1>6. CASE Chroot \/ Chdir
  BY <1>6 DEF Chroot, Chdir
<1>7. CASE Ambient
  BY <1>7 DEF Ambient, RaiseAmbient, CapSets
<1>8. CASE NoNewPrivs \/ Execvp
  BY <1>8 DEF NoNewPrivs, Execvp
<1> QED
  BY <1>1, <1>2, <1>3, <1>4, <1>5, <1>6, <1>7, <1>8

(* The calls that change the mounts.                                         *)
LEMMA MountsProvide ==
    ASSUME Provided, Secluded, Unshare \/ MountPrivate \/ MountTmpfs \/ MountBind
    PROVE  Provided'
<1>1. CASE Unshare \/ MountPrivate \/ MountTmpfs
  BY <1>1 DEF Unshare, MountPrivate, MountTmpfs, IfSecure, locals, Call, Exit, Provided,
              WithDevices, Bound, Emptied
<1>2. CASE MountBind
  <2>1. UNCHANGED <<job, next, ns, files>>
        /\ pc = "bind" /\ pc' \in {"exited", "lower_bind"} /\ next = 1
    BY <1>2 DEF MountBind, locals, Call, Exit, Provided, Emptied
  <2>2. CASE pc' = "exited"
    BY <2>1, <2>2 DEF Provided, WithDevices, Bound, Emptied
  <2>3. CASE pc' = "lower_bind"
    <3>1. /\ (mounts[ns])' = mounts[ns] \cup {"bind"}
          /\ \A names : Where(names)' \in {Where(names), "source"}
      <4>1. Mount("bind") /\ ns \in {"host", "own"}
        BY <1>2, <2>3 DEF MountBind, Call, Exit, Secluded
      <4>2. (mounts[ns])' = mounts[ns] \cup {"bind"}
        BY <2>1, <4>1 DEF Mount
      <4> QED
        BY <2>1, <4>2 DEF Where
    <3>2. ASSUME NEW i \in 1 .. Len(Devices), HasDevice(i) PROVE HasDevice(i)'
      BY <2>1, <3>1, <3>2 DEF HasDevice, File
    <3>3. \A i \in 1 .. Len(Devices) : HasDevice(i)
      BY <2>1 DEF Provided, WithDevices
    <3> QED
      BY <2>1, <2>3, <3>1, <3>2, <3>3 DEF Provided, WithDevices, Bound, Emptied
  <2> QED
    BY <2>1, <2>2, <2>3
<1> QED
  BY <1>1, <1>2

(* The loop over the devices.                                                *)
LEMMA MakeDevProvides == ASSUME Provided, MakeDev PROVE Provided'
<1>1. UNCHANGED <<job, mounting>> /\ files \subseteq files' /\ pc = "make_dev"
  BY DEF MakeDev, Call, Exit
<1>2. CASE pc' = "exited"
  BY <1>1, <1>2 DEF MakeDev, Call, Provided, WithDevices, Bound, Emptied
<1>3. CASE pc' # "exited"
  <2>1. /\ files' = files \cup {File(<<"dev", Devices[next]>>, "device")}
        /\ \/ next < Len(Devices) /\ next' = next + 1 /\ pc' = pc
           \/ ~(next < Len(Devices)) /\ next' = 1 /\ pc' = "lower_mknod"
    BY <1>3 DEF MakeDev, Call, Exit
  <2>2. ASSUME NEW i \in 1 .. Len(Devices), i = next PROVE HasDevice(i)'
    <3>1. File(<<"dev", Devices[i]>>, "device")' = File(<<"dev", Devices[i]>>, "device")
      BY <1>1 DEF File, Where, mounting, Devices
    <3> QED
      BY <2>1, <2>2, <3>1 DEF HasDevice
  <2>3. \A i : HasDevice(i) => HasDevice(i)'
    BY <1>1, FilesStay
  <2>4. /\ Len(Devices) = 5 /\ next \in Nat \ {0} /\ Len(job.template) \in Nat
        /\ \A i \in 1 .. Len(Devices) : i < next => HasDevice(i)
    BY <1>1 DEF Provided, Devices
  <2>5. CASE next < Len(Devices)
    <3>1. next' = next + 1 /\ pc' = "make_dev"
      BY <1>1, <2>1, <2>5
    <3>2. \A i \in 1 .. Len(Devices) : i < next' => HasDevice(i)'
      BY <2>2, <2>3, <2>4, <3>1
    <3> QED
      BY <1>1, <2>4, <3>1, <3>2 DEF Provided, WithDevices, Bound, Emptied
  <2>6. CASE ~(next < Len(Devices))
    <3>1. next' = 1 /\ pc' = "lower_mknod"
      BY <2>1, <2>6
    <3>2. \A i \in 1 .. Len(Devices) : HasDevice(i)'
      BY <2>2, <2>3, <2>4, <2>6
    <3> QED
      BY <1>1, <2>4, <3>1, <3>2 DEF Provided, WithDevices, Bound, Emptied
  <2> QED
    BY <2>5, <2>6
<1> QED
  BY <1>2, <1>3

(* The walk through the template: each entry is there when the walk goes on. *)
LEMMA CallbackProvides ==
    ASSUME Provided, CallbackMkdir \/ CallbackCopy PROVE Provided'
<1>1. /\ UNCHANGED <<job, mounting>> /\ files \subseteq files'
      /\ pc = "nftw" /\ next <= Len(job.template)
      /\ \/ pc' = "exited"
         \/ pc' = "nftw" /\ next' = next + 1
  BY DEF CallbackMkdir, CallbackCopy, Call, Exit
<1>2. CASE pc' = "exited"
  BY <1>1, <1>2 DEF CallbackMkdir, CallbackCopy, Call, Provided, WithDevices, Bound, Emptied
<1>3. CASE pc' = "nftw"
  <2>1. ASSUME NEW i, i = next PROVE HasEntry(i)'
    <3> DEFINE entry == job.template[i]
               names == Names(entry.path)
    <3>1. CASE CallbackMkdir
      <4>1. entry.type # "FTW_F"
        BY <2>1, <3>1 DEF CallbackMkdir, Entry, IsDir
      <4>2. \/ Exists(names)
            \/ File(names, "dir") \in files'
        BY <1>3, <2>1, <3>1 DEF CallbackMkdir, Entry, Call, Exit
      <4>3. (Where(names))' = Where(names) /\ entry' = entry
        BY <1>1 DEF Where, mounting
      <4> QED
        BY <1>1, <4>1, <4>2, <4>3 DEF HasEntry, Exists, File
    <3>2. CASE CallbackCopy
      <4>1. entry.type # "FTW_D"
        BY <2>1, <3>2 DEF CallbackCopy, Entry, IsDir
      <4>2. File(names, Copied(entry)) \in files'
        BY <1>3, <2>1, <3>2 DEF CallbackCopy, Entry, Call, Exit
      <4>3. (Where(names))' = Where(names) /\ entry' = entry
        BY <1>1 DEF Where, mounting
      <4> QED
        BY <1>1, <4>1, <4>2, <4>3 DEF HasEntry, Copied, File
    <3> QED
      BY <3>1, <3>2
  <2>2. \A i : /\ HasDevice(i) => HasDevice(i)'
               /\ HasEntry(i) => HasEntry(i)'
    BY <1>1, FilesStay
  <2>3. /\ next \in Nat \ {0} /\ Len(job.template) \in Nat
        /\ \A i \in 1 .. Len(job.template) : i < next => HasEntry(i)
    BY <1>1 DEF Provided
  <2>4. next' = next + 1
    BY <1>1, <1>3
  <2>5. \A i \in 1 .. Len(job'.template) : i < next' => HasEntry(i)'
    BY <1>1, <2>1, <2>2, <2>3, <2>4
  <2>6. /\ (mounts[ns])' = mounts[ns] /\ "bind" \in mounts[ns]
        /\ \A i \in 1 .. Len(Devices) : HasDevice(i)'
    BY <1>1, <2>2 DEF Provided, WithDevices, Bound, mounting
  <2> QED
    BY <1>1, <1>3, <2>3, <2>4, <2>5, <2>6 DEF Provided, WithDevices, Bound, Emptied
<1> QED
  BY <1>1, <1>2, <1>3

LEMMA WalkProvides == ASSUME Provided, NftwOver PROVE Provided'
<1>1. /\ UNCHANGED <<job, mounting, files, next>>
      /\ pc = "nftw" /\ next > Len(job.template) /\ pc' = "raise_chroot"
  BY DEF NftwOver, locals
<1>2. \A i : /\ HasDevice(i) => HasDevice(i)'
             /\ HasEntry(i) => HasEntry(i)'
  BY <1>1, FilesStay
<1>3. /\ next \in Nat \ {0} /\ Len(job.template) \in Nat
      /\ \A i \in 1 .. Len(job.template) : i < next => HasEntry(i)
      /\ \A i \in 1 .. Len(Devices) : HasDevice(i)
      /\ "bind" \in mounts[ns] /\ (mounts[ns])' = mounts[ns]
  BY <1>1 DEF Provided, WithDevices, Bound, mounting
<1>4. \A i \in 1 .. Len(job'.template) : HasEntry(i)'
  BY <1>1, <1>2, <1>3
<1> QED
  BY <1>1, <1>2, <1>3, <1>4 DEF Provided, WithDevices, Bound, Emptied

LEMMA GrantProvides ==
    ASSUME Provided, caps \in CapSets, GrantStep \/ CommandExecs \/ UNCHANGED vars
    PROVE  Provided'
<1>1. UNCHANGED <<job, mounting, next, files>>
  BY DEF GrantStep, GrantRaiseChroot, GrantChroot, GrantLowerChroot, GrantDropChroot,
         GrantInherit, GrantAmbient, GrantNoNewPrivs, GrantExecvp, Warned, Checked,
         CommandExecs, vars, locals, mounting
<1>2. CASE UNCHANGED vars
  <2>1. \A i : (HasDevice(i) => HasDevice(i)') /\ (HasEntry(i) => HasEntry(i)')
    BY <1>1, FilesStay
  <2> QED
    BY <1>2, <2>1 DEF vars, Provided
<1>3. CASE CommandExecs
  BY <1>1, <1>3 DEF CommandExecs, Provided, WithDevices, Bound, Emptied
<1>4. CASE GrantStep
  <2>1. pc' \in {"grant_chroot", "grant_lower_chroot", "grant_drop_chroot", "grant_inherit",
                 "grant_ambient", "grant_no_new_privs", "grant_exec", "command", "exited"}
        /\ pc \in {"grant_raise_chroot", "grant_chroot", "grant_lower_chroot",
                   "grant_drop_chroot", "grant_inherit", "grant_ambient",
                   "grant_no_new_privs", "grant_exec"}
    BY <1>4 DEF GrantStep, GrantRaiseChroot, GrantChroot, GrantLowerChroot, GrantDropChroot,
                GrantInherit, GrantAmbient, GrantNoNewPrivs, GrantExecvp, Warned, Checked,
                change_cap_state, Call, Exit
  <2>2. pc' \in {"grant_no_new_privs", "grant_exec"} => "dac_read_search" \in caps'.ambient
    BY <1>4 DEF GrantStep, GrantRaiseChroot, GrantChroot, GrantLowerChroot, GrantDropChroot,
                GrantInherit, GrantAmbient, GrantNoNewPrivs, GrantExecvp, Warned, Checked,
                change_cap_state, Call, Exit, RaiseAmbient, CapSets, Provided
  <2> QED
    BY <1>1, <2>1, <2>2 DEF Provided, WithDevices, Bound, Emptied
<1> QED
  BY <1>2, <1>3, <1>4

(* The command gets the capability it is started for, and finds the mounted  *)
(* directory, the device nodes and the whole template, whatever the path,    *)
(* the template and the grants, and with or without --disable-security: what *)
(* fails on the way ends safe-read before it (src/safe-read.c:241-355,       *)
(* src/grant-read.c:78-92).                                                  *)
THEOREM CommandServed == ReadersSpec => []CommandFindsEverything
<1> DEFINE All == ReadInv /\ HostInv /\ Provided
<1>1. Init \/ GrantInit => All
  BY ReadInvHolds, HostInvHolds, ProvidedHolds
<1>2. All /\ [Next \/ GrantStep]_vars => All'
  <2>1. All /\ [Next \/ GrantStep]_vars => ReadInv'
    BY ReadStep
  <2>2. All /\ [Next \/ GrantStep]_vars => HostInv'
    BY FilesMade, MountsMade, NothingMade DEF Next, MainStep, Ended
  <2>3. All /\ [Next \/ GrantStep]_vars => Provided'
    <3> SUFFICES ASSUME All, [Next \/ GrantStep]_vars PROVE Provided'
      OBVIOUS
    <3>1. caps \in CapSets /\ Secluded /\ Provided
      BY DEF ReadInv, Shed, HostInv
    <3> HIDE DEF All
    <3> QED
      BY <3>1, MovesOn, OnwardsKeeps, MountsProvide, MakeDevProvides, CallbackProvides,
         WalkProvides, GrantProvides DEF Next, MainStep, Ended
  <2> QED
    BY <2>1, <2>2, <2>3
<1>3. All => CommandFindsEverything
  BY DEF Provided, CommandFindsEverything, WithDevices, Bound, Emptied
<1> QED
  BY <1>1, <1>2, <1>3, PTL DEF ReadersSpec

-----------------------------------------------------------------------------
(* A part of a path, spelt out since no prover knows "/" for a string        *)
Token == STRING \cup {"/"}

(* The loop over the parents of src, and the assertion behind it: after each *)
(* turn buffer is src as far as the loop has come.                           *)
ParentsSoFar ==
    /\ job.src \in Seq(Token)
    /\ pc = "parents" =>
          /\ pos \in 1 .. Len(job.src) + 1
          /\ \/ pos = 1
             \/ Len(tail) = IF pos < Len(job.src) THEN pos ELSE Len(job.src)
    /\ pc = "aborted" => Len(job.src) <= 1

LEMMA LeastNumber ==
    ASSUME NEW S \in SUBSET Nat, S # {}
    PROVE  \E n \in S : \A m \in S : n <= m
<1> DEFINE R == {ss \in Nat \X Nat : ss[1] < ss[2]}
<1>1. IsWellFoundedOn(R, Nat)
  BY NatLessThanWellFounded DEF OpToRel
<1>2. PICK n \in S : \A m \in S : ~ (<<m, n>> \in R)
  BY <1>1, WFMin
<1>3. \A m \in S : ~ (m < n)
  BY <1>2
<1> QED
  BY <1>3

(* strchrnul finds a slash or the end.                                       *)
LEMMA SlashOrEnd ==
    ASSUME NEW path \in Seq(Token), NEW from \in 0 .. Len(path)
    PROVE  strchrnul(path, from) \in from .. Len(path)
<1> DEFINE Stops == {i \in from .. Len(path) : i = Len(path) \/ path[i + 1] = "/"}
<1>1. Len(path) \in Nat /\ Len(path) \in Stops /\ Stops \subseteq Nat
  OBVIOUS
<1>2. PICK i \in Stops : \A j \in Stops : i <= j
  BY <1>1, LeastNumber
<1>3. ASSUME NEW j \in from .. i - 1, path[j + 1] = "/" PROVE FALSE
  <2>1. i \in Nat /\ i <= Len(path)
    BY <1>1
  <2>2. j \in from .. Len(path) /\ j < i
    BY <1>1, <2>1
  <2>3. j \in Stops
    BY <1>3, <2>2
  <2> QED
    BY <1>1, <1>2, <2>1, <2>2, <2>3
<1>4. /\ i \in from .. Len(path)
      /\ i = Len(path) \/ path[i + 1] = "/"
  BY <1>2
<1>5. \E n \in from .. Len(path) : /\ n = Len(path) \/ path[n + 1] = "/"
                                   /\ \A j \in from .. n - 1 : path[j + 1] # "/"
  BY <1>3, <1>4
<1> QED
  BY <1>5, Zenon DEF strchrnul

LEMMA MakeParentStep == ASSUME ParentsSoFar, MakeParent PROVE ParentsSoFar'
<1> DEFINE slash == strchrnul(job.src, pos)
<1>1. /\ job.src \in Seq(Token) /\ Len(job.src) \in Nat
      /\ pos \in 1 .. Len(job.src) /\ pos < Len(job.src)
  BY DEF ParentsSoFar, MakeParent
<1>2. slash \in pos .. Len(job.src)
  BY <1>1, SlashOrEnd
<1>3. pos' = slash + 1 /\ job' = job /\ pc' \in {"parents", "exited"}
  BY DEF MakeParent, Call, Exit
<1>4. tail' = IF slash = Len(job.src) THEN job.src ELSE SubSeq(job.src, 1, slash + 1)
  BY DEF MakeParent, Parent
<1> HIDE DEF slash
<1>5. Len(tail') = IF slash = Len(job.src) THEN Len(job.src) ELSE slash + 1
  BY <1>1, <1>2, <1>4
<1> QED
  BY <1>1, <1>2, <1>3, <1>5 DEF ParentsSoFar

LEMMA WarnedGoesOn ==
    ASSUME NEW at, NEW then, NEW cap, NEW flag, NEW set \in BOOLEAN,
           Warned(at, then, cap, flag, set)
    PROVE  job' = job /\ pc' = then
BY DEF Warned, change_cap_state, Call

LEMMA CheckedGoesOn ==
    ASSUME NEW at, NEW then, NEW cap, NEW flag, NEW set \in BOOLEAN,
           Checked(at, then, cap, flag, set)
    PROVE  job' = job /\ pc' \in {then, "exited"}
BY DEF Checked, change_cap_state, Call, Exit

(* The steps outside the loop.                                               *)
LEMMA OutsideParents ==
    ASSUME [Next \/ GrantStep]_vars, ~MakeParent, ~ParentsMade, ~DropMknod
    PROVE  job' = job /\ (pc' \in {"parents", "aborted"} => UNCHANGED <<pc, tail, pos>>)
<1> USE DEF Exit, Call, locals
<1>1. CASE \/ CheckSrc \/ Mkdtemp \/ MkdirDev \/ MakeDev \/ MountBind \/ CallbackMkdir
           \/ CallbackCopy \/ NftwOver \/ Chroot \/ Chdir \/ Ambient \/ NoNewPrivs \/ Execvp
           \/ CommandExecs
  BY <1>1 DEF CheckSrc, Mkdtemp, MkdirDev, MakeDev, MountBind, CallbackMkdir, CallbackCopy,
              NftwOver, Chroot, Chdir, Ambient, NoNewPrivs, Execvp, CommandExecs
<1>2. CASE Unshare \/ MountPrivate \/ MountTmpfs
  BY <1>2 DEF Unshare, MountPrivate, MountTmpfs, IfSecure
<1>3. CASE RaiseMount \/ RaiseMknod \/ RaiseBind \/ RaiseChroot
  <2>1. RaiseMount => job' = job /\ pc' = "unshare"
    BY WarnedGoesOn DEF RaiseMount
  <2>2. RaiseMknod => job' = job /\ pc' = "make_dev"
    BY WarnedGoesOn DEF RaiseMknod
  <2>3. RaiseBind => job' = job /\ pc' = "bind"
    BY WarnedGoesOn DEF RaiseBind
  <2>4. RaiseChroot => job' = job /\ pc' = "chroot"
    BY WarnedGoesOn DEF RaiseChroot
  <2> QED
    BY <1>3, <2>1, <2>2, <2>3, <2>4
<1>4. CASE \/ LowerMount \/ LowerMknod \/ LowerBind \/ LowerChroot
           \/ DropBind \/ DropChroot \/ Inherit
  <2>1. LowerMount => job' = job /\ pc' \in {"mkdir_dev", "exited"}
    BY CheckedGoesOn DEF LowerMount
  <2>2. LowerMknod => job' = job /\ pc' \in {"drop_mknod", "exited"}
    BY CheckedGoesOn DEF LowerMknod
  <2>3. LowerBind => job' = job /\ pc' \in {"drop_bind", "exited"}
    BY CheckedGoesOn DEF LowerBind
  <2>4. LowerChroot => job' = job /\ pc' \in {"drop_chroot", "exited"}
    BY CheckedGoesOn DEF LowerChroot
  <2>5. DropBind => job' = job /\ pc' \in {"nftw", "exited"}
    BY CheckedGoesOn DEF DropBind
  <2>6. DropChroot => job' = job /\ pc' \in {"chdir", "exited"}
    BY CheckedGoesOn DEF DropChroot
  <2>7. Inherit => job' = job /\ pc' \in {"ambient", "exited"}
    BY CheckedGoesOn DEF Inherit
  <2> QED
    BY <1>4, <2>1, <2>2, <2>3, <2>4, <2>5, <2>6, <2>7
<1>5. CASE GrantStep
  BY <1>5 DEF GrantStep, GrantRaiseChroot, GrantChroot, GrantLowerChroot, GrantDropChroot,
              GrantInherit, GrantAmbient, GrantNoNewPrivs, GrantExecvp, Warned, Checked,
              change_cap_state
<1>6. CASE UNCHANGED vars
  BY <1>6 DEF vars
<1> QED
  BY <1>1, <1>2, <1>3, <1>4, <1>5, <1>6 DEF Next, MainStep, Ended

(* The assertion at src/safe-read.c:294 fails for no path but the one that   *)
(* is a single slash: the loop before it always ends with the whole of src   *)
(* in buffer if it is entered at all.                                        *)
THEOREM AssertFailsForRootOnly ==
    ReadersSpec => [](Len(job.src) > 1 => AssertHolds)
<1>1. Init \/ GrantInit => ParentsSoFar
  <2>1. ASSUME Init PROVE ParentsSoFar
    <3>1. job \in Jobs /\ pc = "check"
      BY <2>1 DEF Init
    <3> QED
      BY <3>1, SafeReadAssumption DEF ParentsSoFar, Token
  <2>2. ASSUME GrantInit PROVE ParentsSoFar
    <3>1. job.src = <<"/">> /\ pc = "grant_raise_chroot"
      <4>1. PICK file \in Grants : job = GrantReadJob(file)
        BY <2>2 DEF GrantInit
      <4> QED
        BY <2>2, <4>1 DEF GrantInit, GrantReadJob
    <3>2. job.src \in Seq(Token)
      BY <3>1 DEF Token
    <3> QED
      BY <3>1, <3>2 DEF ParentsSoFar
  <2> QED
    BY <2>1, <2>2
<1>2. ParentsSoFar /\ [Next \/ GrantStep]_vars => ParentsSoFar'
  <2> SUFFICES ASSUME ParentsSoFar, [Next \/ GrantStep]_vars PROVE ParentsSoFar'
    OBVIOUS
  <2>1. CASE MakeParent
    BY <2>1, MakeParentStep
  <2>2. CASE ParentsMade
    BY <2>2 DEF ParentsMade, ParentsSoFar, locals
  <2>3. CASE DropMknod
    <3>1. job' = job /\ pos' = 1 /\ pc' \in {"parents", "exited"}
      BY <2>3 DEF DropMknod, change_cap_state, Call, Exit
    <3>2. job.src \in Seq(Token) /\ Len(job.src) \in Nat
      BY DEF ParentsSoFar
    <3> QED
      BY <3>1, <3>2 DEF ParentsSoFar
  <2>4. CASE ~MakeParent /\ ~ParentsMade /\ ~DropMknod
    BY <2>4, OutsideParents DEF ParentsSoFar
  <2> QED
    BY <2>1, <2>2, <2>3, <2>4
<1>3. ParentsSoFar => (Len(job.src) > 1 => AssertHolds)
  BY DEF ParentsSoFar, AssertHolds
<1> QED
  BY <1>1, <1>2, <1>3, PTL DEF ReadersSpec
=============================================================================
