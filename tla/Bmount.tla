------------------------------- MODULE Bmount -------------------------------
(* src/bmount.c: it lets a user bind a directory he may not enter to an      *)
(* empty one below ~/.bmounts, and unmount it again.  All checks come before *)
(* the one privileged call, as system calls of their own, and the user goes  *)
(* on working meanwhile: he may chmod and rename what is his.                *)
EXTENDS Capabilities, Sequences, FiniteSets

CONSTANTS
    Requests,          \* what bmount may be called with, and what is there then
    MaxTouched         \* of src and dest, how many the user changes meanwhile

VARIABLES
    op,                \* --bind or --unmount
    src,               \* the directory to be bound
    dest,              \* where to, or what to unmount
    home,              \* what ~/.bmounts/ is
    pc,                \* the next call
    above,             \* local: how far dirname has gone up from src
    status,            \* what main returned
    mounted,           \* is something mounted at dest?
    owned,             \* history: which of the directories were his at the start
    touched,           \* history: what of src and dest he has changed since
    exchanged          \* history: has he put anything else in the place of src?

vars == <<caps, no_new_privs, faults, op, src, dest, home, pc, above, status,
          mounted, owned, touched, exchanged>>

history == <<owned, touched, exchanged>>

world == <<op, src, dest, home, mounted, history>>

(* What there may be at a path: for src, may the user enter it, and may he   *)
(* write to it and to each directory above it (but the root directory), and  *)
(* which of them are his own, so that he may change these rights?            *)
Kind   == {"none", "dir", "file"}
SrcAt  == [kind : Kind, resolved : BOOLEAN, enter : BOOLEAN,
           write : Seq(BOOLEAN), own : Seq(BOOLEAN)]
DestAt == [kind : Kind, resolved : BOOLEAN, inside : BOOLEAN, usable : BOOLEAN,
           empty : BOOLEAN]

(* The loop over the directories above src looks at src itself in any case.   *)
ASSUME BmountAssumption ==
    /\ MaxFaults \in Nat /\ MaxTouched \in Nat
    /\ \A r \in Requests :
          /\ r.op \in {"--bind", "--unmount"}
          /\ r.src \in SrcAt /\ r.src.write # <<>> /\ Len(r.src.own) = Len(r.src.write)
          /\ r.dest \in DestAt
          /\ r.home \in {"own", "other", "none"}

NotEnded == -1

-----------------------------------------------------------------------------
Init ==
    /\ \E r \in Requests :
          /\ op = r.op /\ src = r.src /\ dest = r.dest /\ home = r.home
          /\ mounted = (r.op = "--unmount")
          /\ owned = r.src.own
    /\ StartCaps({"sys_admin"})
    /\ faults = 0
    /\ pc = "set_dumpable" /\ above = 1 /\ status = NotEnded
    /\ touched = {} /\ exchanged = FALSE

Return(code) == pc' = "ended" /\ status' = code
GoTo(next)   == pc' = next /\ UNCHANGED status

(* A check that only looks.                                                  *)
Check(at, holds, next, code) ==
    /\ pc = at
    /\ Call(holds, GoTo(next), Return(code))
    /\ UNCHANGED <<caps, no_new_privs, above, world>>

SetDumpable == Check("set_dumpable", TRUE, "stat_home", 41)

(* stat(root, &base)                                                         *)
StatHome ==
    /\ pc = "stat_home"
    /\ IF home = "none" THEN GoTo("mkdir_home") /\ UNCHANGED faults
       ELSE Call(TRUE, GoTo("check_home"), Return(4))
    /\ UNCHANGED <<caps, no_new_privs, above, world>>

(* mkdir(root, 0700); nothing has been read into base then, and what the     *)
(* next line finds there is anything.                                        *)
MkdirHome ==
    /\ pc = "mkdir_home"
    /\ Call(home = "none",
            /\ home' = "own"
            /\ \/ GoTo("clean_src")
               \/ Return(5),
            UNCHANGED home /\ Return(3))
    /\ UNCHANGED <<caps, no_new_privs, above, op, src, dest, mounted, history>>

CheckHome ==
    /\ pc = "check_home"
    /\ IF home = "own" THEN GoTo("clean_src") ELSE Return(5)
    /\ UNCHANGED <<caps, no_new_privs, faults, above, world>>

(* The mutant has the comparison the wrong way round.                        *)
clean_path_Inverted(path) == path.kind # "none" /\ ~path.resolved

clean_path(path) == path.kind # "none" /\ path.resolved

(* argv[2], which --unmount takes for what is to be unmounted.               *)
CleanSrc ==
    \/ op = "--bind" /\ Check("clean_src", clean_path(src), "clean_dest", 2)
    \/ op = "--unmount" /\ Check("clean_src", clean_path(dest), "umount_in_mounts", 2)

CleanDest == Check("clean_dest", clean_path(dest), "in_mounts", 3)

(* The mutant's strncmp compares nothing.                                    *)
check_in_mounts_Never(path) == TRUE

check_in_mounts(path) == path.inside

InMounts ==
    /\ pc = "in_mounts"
    /\ IF check_in_mounts(dest) THEN GoTo("stat_src") ELSE Return(4)
    /\ UNCHANGED <<caps, no_new_privs, faults, above, world>>

-----------------------------------------------------------------------------
(* do_mount                                                                  *)
StatSrc == Check("stat_src", src.kind = "dir", "access_src", 13)

(* It is an error if access(src, X_OK) succeeds; a failure of any kind is    *)
(* taken for a refusal.                                                      *)
AccessSrc ==
    /\ pc = "access_src"
    /\ Call(src.enter, Return(14), GoTo("access_tree"))
    /\ UNCHANGED <<caps, no_new_privs, above, world>>

(* while (strlen(path) > 1), after the body; the mutant leaves the loop      *)
(* before the last directory.                                                *)
Top_Early(level) == level >= Len(src.write) - 1

Top(level) == level = Len(src.write)

(* Likewise access(path, W_OK); then path = dirname(path).                   *)
AccessTree ==
    /\ pc = "access_tree"
    /\ Call(src.write[above],
            Return(15) /\ UNCHANGED above,
            IF Top(above) THEN GoTo("stat_dest") /\ UNCHANGED above
            ELSE above' = above + 1 /\ UNCHANGED <<pc, status>>)
    /\ UNCHANGED <<caps, no_new_privs, world>>

(* The stat of dest is one of src, once more.                                *)
StatDest == Check("stat_dest", src.kind = "dir", "access_dest", 23)

AccessDest == Check("access_dest", dest.kind # "none" /\ dest.usable, "opendir", 24)

Opendir == Check("opendir", dest.kind = "dir", "readdir", 25)

(* Anything but "." and ".." is too much.                                    *)
Readdir == Check("readdir", dest.empty, "raise", 27)

(* raise() returns nothing, and whoever calls it does not know.              *)
Raise(at, next) ==
    /\ pc = at
    /\ change_cap_state("sys_admin", "effective", TRUE, GoTo(next), GoTo(next))
    /\ UNCHANGED <<no_new_privs, above, world>>

RaiseToMount == Raise("raise", "mount")

Mount ==
    /\ pc = "mount"
    /\ Call("sys_admin" \in caps.effective /\ dest.kind = "dir",
            mounted' = TRUE /\ Return(0), UNCHANGED mounted /\ Return(30))
    /\ UNCHANGED <<caps, no_new_privs, above, op, src, dest, home, history>>

-----------------------------------------------------------------------------
(* --unmount                                                                 *)
UmountInMounts ==
    /\ pc = "umount_in_mounts"
    /\ IF check_in_mounts(dest) THEN GoTo("raise_umount") ELSE Return(5)
    /\ UNCHANGED <<caps, no_new_privs, faults, above, world>>

RaiseToUmount == Raise("raise_umount", "umount")

(* UMOUNT_NOFOLLOW: not if dest is a symbolic link by now.                   *)
Umount2 ==
    /\ pc = "umount"
    /\ Call("sys_admin" \in caps.effective /\ mounted /\ dest.resolved,
            mounted' = FALSE /\ Return(0), UNCHANGED mounted /\ Return(6))
    /\ UNCHANGED <<caps, no_new_privs, above, op, src, dest, home, history>>

(* What the user may do meanwhile, as often as he likes.                     *)
Touch(path) ==
    /\ pc # "ended"
    /\ touched' = touched \cup {path}
    /\ Cardinality(touched') <= MaxTouched
    /\ UNCHANGED <<caps, no_new_privs, faults, pc, above, status, op, home, mounted, owned>>

(* dest is his, and ~/.bmounts is.                                           *)
UserChangesDest ==
    /\ Touch("dest")
    /\ dest' \in [kind : Kind, resolved : BOOLEAN, empty : BOOLEAN,
                 inside : {dest.inside}, usable : {dest.usable}]
    /\ dest' # dest
    /\ UNCHANGED <<src, exchanged>>

(* The rights to a directory are its owner's to change.                      *)
Chmodded(i) ==
    {new \in [kind : {src.kind}, resolved : {src.resolved}, own : {src.own},
              enter : IF i = 1 THEN BOOLEAN ELSE {src.enter},
              write : [1 .. Len(src.write) -> BOOLEAN]] :
        \A k \in 1 .. Len(src.write) : k # i => new.write[k] = src.write[k]}

UserChmods ==
    /\ Touch("src")
    /\ \E i \in 1 .. Len(src.write) :
          /\ src.own[i]
          /\ src' \in Chmodded(i)
    /\ src' # src
    /\ UNCHANGED <<dest, exchanged>>

(* Who may write to a directory, or may give himself the right to, may put   *)
(* anything in the place of what is below it on the way to src, or hide it;  *)
(* what is above is not touched by that.                                     *)
Replaced(i) ==
    {new \in [kind : Kind, resolved : BOOLEAN, enter : BOOLEAN,
              write : [1 .. Len(src.write) -> BOOLEAN], own : [1 .. Len(src.own) -> BOOLEAN]] :
        \A k \in i .. Len(src.write) : new.write[k] = src.write[k] /\ new.own[k] = src.own[k]}

UserReplacesSrc ==
    /\ Touch("src")
    /\ \E i \in 2 .. Len(src.write) :
          /\ src.write[i] \/ src.own[i]
          /\ src' \in Replaced(i)
    /\ src' # src /\ exchanged' = TRUE
    /\ UNCHANGED dest

MainStep ==
    \/ SetDumpable \/ StatHome \/ MkdirHome \/ CheckHome
    \/ CleanSrc \/ CleanDest \/ InMounts
    \/ StatSrc \/ AccessSrc \/ AccessTree
    \/ StatDest \/ AccessDest \/ Opendir \/ Readdir \/ RaiseToMount \/ Mount
    \/ UmountInMounts \/ RaiseToUmount \/ Umount2

Ended == pc = "ended" /\ UNCHANGED vars

Next == MainStep \/ UserChangesDest \/ UserChmods \/ UserReplacesSrc \/ Ended

Spec == Init /\ [][Next]_vars /\ WF_vars(MainStep)

-----------------------------------------------------------------------------
Bound == op = "--bind" /\ mounted

(* The checks are "inherently racy" (src/bmount.c:39), and this is what they *)
(* are worth in spite of it.  Only who owned a directory above src when      *)
(* bmount started can have exchanged it on the way; for anybody else it is a *)
(* directory still, and for a user who does not own src itself either it is  *)
(* one he may not enter, in a tree he may not write to.  That some other     *)
(* user may have made that directory writable to him does not help him.  It  *)
(* does not hold if access(2) fails for another reason than the rights.      *)
BindsWhatWasChecked ==
    Bound /\ faults = 0 =>
        \/ \E i \in 2 .. Len(owned) : owned[i]
        \/ /\ ~exchanged /\ src.kind = "dir"
           /\ \A i \in 2 .. Len(src.write) : ~src.write[i]
           /\ ~owned[1] => ~src.enter /\ ~src.write[1]

(* Nothing is bound or unmounted but at a directory below ~/.bmounts, and    *)
(* nothing is hidden by a mount, unless the user has changed dest on the     *)
(* way, and then it may be anywhere he likes: nothing looks again.  (The     *)
(* stat of dest at src/bmount.c:75 looks at src; opendir makes up for it.)   *)
StaysInMounts ==
    "dest" \notin touched /\ status = 0 =>
        /\ dest.inside /\ dest.resolved /\ home = "own"
        /\ op = "--bind" => dest.kind = "dir" /\ dest.empty

(* Nothing is done without a right reason to, but everything is with one:    *)
(* a request that fulfils the conditions ends in status 0, unless a call     *)
(* fails of itself or the user does something else meanwhile.                *)
GoodRequest ==
    /\ ~no_new_privs /\ home = "own" /\ clean_path(dest) /\ dest.inside
    /\ op = "--bind" =>
          /\ clean_path(src) /\ src.kind = "dir" /\ ~src.enter
          /\ \A i \in 1 .. Len(src.write) : ~src.write[i]
          /\ dest.kind = "dir" /\ dest.usable /\ dest.empty

GoodRequestSucceeds ==
    pc = "set_dumpable" /\ GoodRequest ~> (status = 0 \/ faults > 0 \/ touched # {})
=============================================================================
