---------------------------- MODULE BmountProofs ----------------------------
(* What bmount's checks are worth by the time of the mount, for directories  *)
(* at any depth, and whatever the user changes meanwhile and changes back.   *)
EXTENDS Bmount, TLAPS

-----------------------------------------------------------------------------
(* The places of the program: those behind each check.                       *)
BehindEmpty   == {"raise", "mount"}
BehindDir     == {"readdir"} \cup BehindEmpty
BehindTree    == {"stat_dest", "access_dest", "opendir"} \cup BehindDir
BehindInside  == {"stat_src", "access_src", "access_tree"} \cup BehindTree
Binding       == {"clean_dest", "in_mounts"} \cup BehindInside
BehindUInside == {"raise_umount", "umount"}
Unmounting    == {"umount_in_mounts"} \cup BehindUInside

Values ==
    /\ op \in {"--bind", "--unmount"}
    /\ src \in SrcAt /\ dest \in DestAt
    /\ faults \in Nat
    /\ status \in Int

(* src stays as deep as it was.                                              *)
Shape ==
    /\ Len(src.write) \in Nat \ {0}
    /\ Len(src.own) = Len(src.write) /\ Len(owned) = Len(src.write)
    /\ owned \in Seq(BOOLEAN)
    /\ above \in 1 .. Len(src.write)
    /\ pc \notin {"access_tree", "ended"} \cup BehindTree => above = 1

(* What has been looked at holds still, unless the user has changed dest.    *)
DestChecked ==
    /\ pc \in {"clean_src"} \cup Binding \cup Unmounting => home = "own"
    /\ pc \in (Binding \ {"clean_dest"}) \cup Unmounting => dest.resolved
    /\ pc \in BehindInside \cup BehindUInside => dest.inside
    /\ pc \in BehindDir => dest.kind = "dir"
    /\ pc \in BehindEmpty => dest.empty

(* The user owns nothing above src when bmount starts.                       *)
OwnsNothingAbove == \A i \in 2 .. Len(owned) : owned[i] = FALSE

(* A directory above src is his to write, and neither it nor what is above   *)
(* it is his to chmod: whatever he puts below it, the loop has yet to come   *)
(* to it and refuse.                                                         *)
Refused(j) ==
    /\ src.write[j] = TRUE
    /\ \A k \in j .. Len(src.write) : src.own[k] = FALSE
    /\ pc \notin BehindTree
    /\ pc = "access_tree" => above <= j

WillRefuse == \E j \in 2 .. Len(src.write) : Refused(j)

(* There is none: src stays where it is, and he can change no more than the  *)
(* rights to src itself, and that only if it is his own.                     *)
StaysThere ==
    /\ exchanged = FALSE
    /\ \A k \in 2 .. Len(src.write) : src.own[k] = FALSE /\ src.write[k] = FALSE
    /\ src.own[1] = owned[1]
    /\ pc \in {"access_src", "access_tree"} \cup BehindTree => src.kind = "dir"
    /\ ~owned[1] /\ pc \in {"access_tree"} \cup BehindTree => src.enter = FALSE
    /\ ~owned[1] /\ (above > 1 \/ pc \in BehindTree) => src.write[1] = FALSE

SrcChecked == WillRefuse \/ StaysThere

BmountInv ==
    /\ Values /\ Shape
    /\ pc \in Binding => op = "--bind"
    /\ pc \in Unmounting => op = "--unmount"
    /\ pc # "ended" => status = NotEnded
    /\ Bound => pc = "ended"
    /\ faults = 0 /\ OwnsNothingAbove /\ pc # "ended" => SrcChecked
    /\ "dest" \notin touched => DestChecked
    /\ BindsWhatWasChecked
    /\ StaysInMounts

LEMMA InvInit == Init => BmountInv
<1> SUFFICES ASSUME Init PROVE BmountInv
  OBVIOUS
<1>1. PICK r \in Requests : /\ op = r.op /\ src = r.src /\ dest = r.dest /\ home = r.home
                            /\ mounted = (r.op = "--unmount") /\ owned = r.src.own
  BY DEF Init
<1>2. Values
  BY <1>1, BmountAssumption DEF Values, Init, NotEnded
<1>3. Shape
  <2>1. src.write \in Seq(BOOLEAN) /\ src.write # <<>> /\ src.own \in Seq(BOOLEAN)
        /\ Len(src.own) = Len(src.write) /\ owned = src.own
    BY <1>1, BmountAssumption DEF SrcAt
  <2> QED
    BY <2>1 DEF Init, Shape, BehindTree, BehindDir, BehindEmpty
<1>4. ~Bound
  BY <1>1, BmountAssumption DEF Bound
<1>5. OwnsNothingAbove => SrcChecked
  <2>1. pc = "set_dumpable" /\ above = 1 /\ exchanged = FALSE /\ owned = src.own
        /\ src.write \in Seq(BOOLEAN)
    BY <1>1, <1>2 DEF Init, Values, SrcAt
  <2>2. ASSUME OwnsNothingAbove, NEW j \in 2 .. Len(src.write), src.write[j] = TRUE
        PROVE  WillRefuse
    BY <2>1, <2>2, <1>3
    DEF OwnsNothingAbove, WillRefuse, Refused, Shape, BehindTree, BehindDir, BehindEmpty
  <2>3. ASSUME OwnsNothingAbove, \A j \in 2 .. Len(src.write) : src.write[j] = FALSE
        PROVE  StaysThere
    BY <2>1, <2>3, <1>3 DEF OwnsNothingAbove, StaysThere, Shape, BehindTree, BehindDir, BehindEmpty
  <2>4. \A j \in 2 .. Len(src.write) : src.write[j] \in BOOLEAN
    BY <2>1, <1>3 DEF Shape
  <2> QED
    BY <2>2, <2>3, <2>4 DEF SrcChecked
<1> QED
  BY <1>2, <1>3, <1>4, <1>5
  DEF Init, BmountInv, DestChecked, BindsWhatWasChecked, StaysInMounts, NotEnded,
      BehindEmpty, BehindDir, BehindTree, BehindInside, Binding, BehindUInside, Unmounting

(* raise() goes on whatever comes of it.                                     *)
LEMMA RaiseGoesOn ==
    ASSUME NEW at, NEW next, Raise(at, next)
    PROVE  pc = at /\ GoTo(next) /\ UNCHANGED <<above, world>>
           /\ faults' \in {faults, faults + 1}
BY DEF Raise, change_cap_state, Call, Fault

(* What a step of main leaves of src: where it is, and how far it has come.  *)
LEMMA SrcHolds ==
    ASSUME Shape, SrcChecked, UNCHANGED <<src, owned, exchanged, above>>,
           pc' \notin {"access_src", "access_tree"} \cup BehindTree \/ pc' = pc
              \/ (pc \in BehindTree /\ pc' \in BehindTree)
    PROVE  SrcChecked'
<1>1. CASE StaysThere
  BY <1>1 DEF StaysThere, SrcChecked, Shape, BehindTree, BehindDir, BehindEmpty
<1>2. CASE WillRefuse
  <2>1. PICK j \in 2 .. Len(src.write) : Refused(j)
    BY <1>2 DEF WillRefuse
  <2>2. Refused(j)'
    BY <2>1 DEF Refused, BehindTree, BehindDir, BehindEmpty
  <2> QED
    BY <2>2 DEF WillRefuse, SrcChecked
<1> QED
  BY <1>1, <1>2 DEF SrcChecked

(* The steps that only look, or raise the capability.                        *)
LEMMA LookStep ==
    ASSUME BmountInv,
           \/ SetDumpable \/ StatHome \/ CheckHome \/ CleanSrc \/ CleanDest \/ InMounts
           \/ StatSrc \/ AccessSrc \/ StatDest \/ AccessDest \/ Opendir \/ Readdir
           \/ RaiseToMount \/ UmountInMounts \/ RaiseToUmount
    PROVE  BmountInv'
<1> USE DEF BmountInv, Values, Shape, DestChecked, BindsWhatWasChecked, StaysInMounts,
            Bound, OwnsNothingAbove, world, history, NotEnded, BehindEmpty, BehindDir, BehindTree,
            BehindInside, Binding, BehindUInside, Unmounting, Check, Call, Fault, GoTo, Return
<1>1. CASE SetDumpable
  BY <1>1, SrcHolds DEF SetDumpable
<1>2. CASE StatHome
  BY <1>2, SrcHolds DEF StatHome
<1>3. CASE CheckHome
  BY <1>3, SrcHolds DEF CheckHome
<1>4. CASE CleanSrc
  <2>1. pc = "clean_src" /\ UNCHANGED <<above, world>> /\ faults' \in {faults, faults + 1}
    BY <1>4 DEF CleanSrc
  <2>2. \/ Return(2)
        \/ op = "--bind" /\ GoTo("clean_dest")
        \/ op = "--unmount" /\ GoTo("umount_in_mounts") /\ dest.resolved
    BY <1>4 DEF CleanSrc, clean_path
  <2> QED
    BY <2>1, <2>2, SrcHolds
<1>5. CASE CleanDest
  BY <1>5, SrcHolds DEF CleanDest, clean_path
<1>6. CASE InMounts
  BY <1>6, SrcHolds DEF InMounts, check_in_mounts
<1>7. CASE StatSrc
  <2>1. pc = "stat_src" /\ UNCHANGED <<above, world>>
    BY <1>7 DEF StatSrc
  <2>2. CASE Return(13) /\ faults' \in {faults, faults + 1}
    BY <2>1, <2>2
  <2>3. CASE GoTo("access_src") /\ UNCHANGED faults /\ src.kind = "dir"
    <3>1. ASSUME SrcChecked PROVE SrcChecked'
      BY <2>1, <2>3, <3>1 DEF SrcChecked, WillRefuse, Refused, StaysThere
    <3> QED
      BY <2>1, <2>3, <3>1
  <2> QED
    BY <1>7, <2>1, <2>2, <2>3 DEF StatSrc
<1>8. CASE AccessSrc
  <2>1. pc = "access_src" /\ src.enter \in BOOLEAN /\ UNCHANGED <<above, world>>
    BY <1>8 DEF AccessSrc, SrcAt
  <2>2. CASE Return(14) /\ faults' \in {faults, faults + 1}
    BY <2>1, <2>2
  <2>3. CASE src.enter = FALSE /\ GoTo("access_tree") /\ UNCHANGED faults
    <3>1. ASSUME SrcChecked PROVE SrcChecked'
      BY <2>1, <2>3, <3>1 DEF SrcChecked, WillRefuse, Refused, StaysThere
    <3> QED
      BY <2>1, <2>3, <3>1
  <2>4. CASE GoTo("access_tree") /\ faults' = faults + 1
    BY <2>1, <2>4
  <2> QED
    BY <1>8, <2>1, <2>2, <2>3, <2>4 DEF AccessSrc
<1>9. CASE StatDest
  BY <1>9, SrcHolds DEF StatDest
<1>10. CASE AccessDest
  BY <1>10, SrcHolds DEF AccessDest
<1>11. CASE Opendir
  BY <1>11, SrcHolds DEF Opendir
<1>12. CASE Readdir
  BY <1>12, SrcHolds DEF Readdir
<1>13. CASE RaiseToMount
  <2>1. pc = "raise" /\ GoTo("mount") /\ UNCHANGED <<above, world>>
        /\ faults' \in {faults, faults + 1}
    BY <1>13, RaiseGoesOn DEF RaiseToMount
  <2> QED
    BY <2>1, SrcHolds
<1>14. CASE UmountInMounts
  BY <1>14, SrcHolds DEF UmountInMounts, check_in_mounts
<1>15. CASE RaiseToUmount
  <2>1. pc = "raise_umount" /\ GoTo("umount") /\ UNCHANGED <<above, world>>
        /\ faults' \in {faults, faults + 1}
    BY <1>15, RaiseGoesOn DEF RaiseToUmount
  <2> QED
    BY <2>1, SrcHolds
<1> QED
  BY <1>1, <1>2, <1>3, <1>4, <1>5, <1>6, <1>7, <1>8, <1>9, <1>10, <1>11, <1>12, <1>13, <1>14,
     <1>15

(* One turn of the loop over src and the directories above it.               *)
LEMMA TreeStep ==
    ASSUME BmountInv, AccessTree
    PROVE  BmountInv'
<1> USE DEF BmountInv, Values, Shape, DestChecked, BindsWhatWasChecked, StaysInMounts,
            Bound, OwnsNothingAbove, world, history, NotEnded, BehindEmpty, BehindDir, BehindTree,
            BehindInside, Binding, BehindUInside, Unmounting, Call, Fault, GoTo, Return
<1>1. pc = "access_tree" /\ UNCHANGED world /\ src.write[above] \in BOOLEAN
  BY DEF AccessTree, SrcAt
<1>2. CASE Return(15) /\ UNCHANGED above /\ faults' \in {faults, faults + 1}
  BY <1>1, <1>2
<1> DEFINE Turn ==
    IF Top(above) THEN GoTo("stat_dest") /\ UNCHANGED above
    ELSE above' = above + 1 /\ UNCHANGED <<pc, status>>
<1>3. CASE Turn /\ faults' = faults + 1
  BY <1>1, <1>3 DEF Top
<1>4. CASE Turn /\ UNCHANGED faults /\ src.write[above] = FALSE
  <2>1. ASSUME StaysThere PROVE StaysThere'
    BY <1>1, <1>4, <2>1 DEF StaysThere, Top
  <2>2. ASSUME WillRefuse PROVE WillRefuse'
    <3>1. PICK j \in 2 .. Len(src.write) : Refused(j)
      BY <2>2 DEF WillRefuse
    <3>2. above # j
      BY <1>4, <3>1 DEF Refused
    <3>3. Refused(j)'
      BY <1>1, <1>4, <3>1, <3>2 DEF Refused, Top
    <3> QED
      BY <1>1, <3>3 DEF WillRefuse
  <2>3. SrcChecked => SrcChecked'
    BY <2>1, <2>2 DEF SrcChecked
  <2> QED
    BY <1>1, <1>4, <2>3 DEF Top
<1> QED
  BY <1>1, <1>2, <1>3, <1>4 DEF AccessTree

(* What the user may do to src: its rights if it is his own, and with a      *)
(* directory above it that is his to write or to chmod, anything below that. *)
LEMMA ChmodKeeps ==
    ASSUME BmountInv, UserChmods
    PROVE  /\ src' \in SrcAt /\ Len(src'.write) = Len(src.write)
           /\ src'.own = src.own /\ src'.kind = src.kind
           /\ \A k \in 1 .. Len(src.write) : ~src.own[k] => src'.write[k] = src.write[k]
           /\ ~src.own[1] => src'.enter = src.enter
<1>1. PICK i \in 1 .. Len(src.write) : src.own[i] /\ src' \in Chmodded(i)
  BY DEF UserChmods
<1>2. Len(src.write) \in Nat /\ src \in SrcAt
  BY DEF BmountInv, Values, Shape
<1>3. /\ src' \in [kind : {src.kind}, resolved : {src.resolved}, own : {src.own},
                   enter : IF i = 1 THEN BOOLEAN ELSE {src.enter},
                   write : [1 .. Len(src.write) -> BOOLEAN]]
      /\ \A k \in 1 .. Len(src.write) : k # i => src'.write[k] = src.write[k]
  BY <1>1 DEF Chmodded
<1>4. src'.write \in Seq(BOOLEAN) /\ Len(src'.write) = Len(src.write)
  BY <1>2, <1>3
<1>5. src' \in SrcAt /\ src'.own = src.own /\ src'.kind = src.kind
  BY <1>2, <1>3, <1>4 DEF SrcAt
<1>6. ~src.own[1] => src'.enter = src.enter
  BY <1>1, <1>2, <1>3
<1> QED
  BY <1>1, <1>3, <1>4, <1>5, <1>6

LEMMA ReplaceKeeps ==
    ASSUME BmountInv, UserReplacesSrc
    PROVE  /\ src' \in SrcAt
           /\ Len(src'.write) = Len(src.write) /\ Len(src'.own) = Len(src.write)
           /\ \E i \in 2 .. Len(src.write) :
                 /\ src.write[i] \/ src.own[i]
                 /\ \A k \in i .. Len(src.write) :
                       src'.write[k] = src.write[k] /\ src'.own[k] = src.own[k]
<1>1. PICK i \in 2 .. Len(src.write) : (src.write[i] \/ src.own[i]) /\ src' \in Replaced(i)
  BY DEF UserReplacesSrc
<1>2. Len(src.write) \in Nat /\ Len(src.own) = Len(src.write)
  BY DEF BmountInv, Shape
<1>3. /\ src' \in [kind : Kind, resolved : BOOLEAN, enter : BOOLEAN,
                   write : [1 .. Len(src.write) -> BOOLEAN], own : [1 .. Len(src.own) -> BOOLEAN]]
      /\ \A k \in i .. Len(src.write) : src'.write[k] = src.write[k] /\ src'.own[k] = src.own[k]
  BY <1>1 DEF Replaced
<1>4. src'.write \in [1 .. Len(src.write) -> BOOLEAN] /\ src'.own \in [1 .. Len(src.write) -> BOOLEAN]
  BY <1>2, <1>3
<1>5. src'.write \in Seq(BOOLEAN) /\ src'.own \in Seq(BOOLEAN)
      /\ Len(src'.write) = Len(src.write) /\ Len(src'.own) = Len(src.write)
  BY <1>2, <1>4
<1>6. src' \in SrcAt
  BY <1>3, <1>5 DEF SrcAt
<1> QED
  BY <1>1, <1>3, <1>5, <1>6

(* As long as the loop will refuse, it will whatever the user does: with a   *)
(* directory higher up that is his to write he only makes that one the       *)
(* reason.                                                                   *)
LEMMA SrcStep ==
    ASSUME BmountInv, SrcChecked, UserChmods \/ UserReplacesSrc
    PROVE  SrcChecked'
<1>1. /\ Shape /\ src.write \in Seq(BOOLEAN) /\ src.own \in Seq(BOOLEAN)
      /\ UNCHANGED <<pc, above, owned>>
  BY DEF BmountInv, Values, SrcAt, UserChmods, UserReplacesSrc, Touch
<1> USE DEF Shape, BehindEmpty, BehindDir, BehindTree
<1>2. CASE UserChmods
  <2>1. UNCHANGED exchanged
    BY <1>2 DEF UserChmods
  <2>2. ASSUME NEW j \in 2 .. Len(src.write), Refused(j)
        PROVE  WillRefuse'
    BY <1>1, <1>2, <2>2, ChmodKeeps DEF Refused, WillRefuse
  <2>3. ASSUME StaysThere PROVE StaysThere'
    BY <1>1, <1>2, <2>1, <2>3, ChmodKeeps DEF StaysThere
  <2> QED
    BY <2>2, <2>3 DEF SrcChecked, WillRefuse
<1>3. CASE UserReplacesSrc
  <2>1. PICK i \in 2 .. Len(src.write) :
            /\ src.write[i] \/ src.own[i]
            /\ \A k \in i .. Len(src.write) :
                  src'.write[k] = src.write[k] /\ src'.own[k] = src.own[k]
    BY <1>3, ReplaceKeeps
  <2>2. ~StaysThere
    BY <1>1, <2>1 DEF StaysThere
  <2>3. PICK j \in 2 .. Len(src.write) : Refused(j)
    BY <2>2 DEF SrcChecked, WillRefuse
  <2>4. CASE i <= j
    <3>1. Refused(j)'
      BY <1>1, <1>3, <2>1, <2>3, <2>4, ReplaceKeeps DEF Refused
    <3> QED
      BY <1>3, <3>1, ReplaceKeeps DEF WillRefuse, SrcChecked
  <2>5. CASE j < i
    <3>1. src.own[i] = FALSE /\ src.write[i] = TRUE
      BY <1>1, <2>1, <2>3, <2>5 DEF Refused
    <3>2. Refused(i)'
      BY <1>1, <1>3, <2>1, <2>3, <2>5, <3>1, ReplaceKeeps DEF Refused
    <3> QED
      BY <1>3, <3>2, ReplaceKeeps DEF WillRefuse, SrcChecked
  <2> QED
    BY <1>1, <2>4, <2>5
<1> QED
  BY <1>2, <1>3

LEMMA UserStep ==
    ASSUME BmountInv, UserChangesDest \/ UserChmods \/ UserReplacesSrc
    PROVE  BmountInv'
<1>1. /\ pc # "ended" /\ touched \subseteq touched'
      /\ UNCHANGED <<faults, pc, above, status, op, home, mounted, owned>>
  BY DEF UserChangesDest, UserChmods, UserReplacesSrc, Touch
<1>2. ~Bound' /\ BindsWhatWasChecked' /\ StaysInMounts'
  BY <1>1 DEF BmountInv, Bound, BindsWhatWasChecked, StaysInMounts, NotEnded
<1>3. CASE UserChangesDest
  <2>1. "dest" \in touched' /\ UNCHANGED <<src, exchanged>>
    BY <1>3 DEF UserChangesDest, Touch
  <2>2. dest' \in DestAt
    BY <1>3 DEF UserChangesDest, BmountInv, Values, DestAt
  <2>3. SrcChecked /\ Shape => SrcChecked'
    BY <1>1, <2>1, SrcHolds
  <2> QED
    BY <1>1, <1>2, <2>1, <2>2, <2>3
    DEF BmountInv, Values, Shape, OwnsNothingAbove, BehindTree, BehindDir, BehindEmpty
<1>4. CASE UserChmods \/ UserReplacesSrc
  <2>1. UNCHANGED dest
    BY <1>4 DEF UserChmods, UserReplacesSrc
  <2>2. src' \in SrcAt /\ Len(src'.write) = Len(src.write) /\ Len(src'.own) = Len(src.write)
    BY <1>4, ChmodKeeps, ReplaceKeeps DEF BmountInv, Shape
  <2>3. SrcChecked => SrcChecked'
    BY <1>4, SrcStep
  <2>4. "dest" \notin touched' => DestChecked'
    BY <1>1, <2>1 DEF BmountInv, DestChecked, BehindInside, BehindUInside, BehindTree,
                      BehindDir, BehindEmpty, Binding, Unmounting
  <2> QED
    BY <1>1, <1>2, <2>1, <2>2, <2>3, <2>4
    DEF BmountInv, Values, Shape, OwnsNothingAbove, BehindTree, BehindDir, BehindEmpty
<1> QED
  BY <1>3, <1>4

(* The steps that change something.                                          *)
LEMMA DoStep ==
    ASSUME BmountInv, MkdirHome \/ Mount \/ Umount2 \/ UNCHANGED vars
    PROVE  BmountInv'
<1> USE DEF BmountInv, Values, Shape, DestChecked, BindsWhatWasChecked, StaysInMounts,
            Bound, OwnsNothingAbove, history, NotEnded, BehindEmpty, BehindDir, BehindTree,
            BehindInside, Binding, BehindUInside, Unmounting, Call, Fault, GoTo, Return
<1>1. CASE MkdirHome
  BY <1>1, SrcHolds DEF MkdirHome
<1>2. CASE Mount
  <2>1. pc = "mount" /\ UNCHANGED <<above, op, src, dest, home, history>> /\ pc' = "ended"
    BY <1>2 DEF Mount
  <2>2. CASE UNCHANGED mounted /\ Return(30) /\ faults' \in {faults, faults + 1}
    BY <2>1, <2>2
  <2>3. CASE mounted' = TRUE /\ Return(0) /\ UNCHANGED faults
    <3>1. ASSUME faults = 0, OwnsNothingAbove
          PROVE  StaysThere
      BY <2>1, <3>1 DEF SrcChecked, WillRefuse, Refused
    <3>2. faults = 0 /\ OwnsNothingAbove =>
              /\ ~exchanged /\ src.kind = "dir"
              /\ \A i \in 2 .. Len(src.write) : ~src.write[i]
              /\ ~owned[1] => ~src.enter /\ ~src.write[1]
      BY <2>1, <3>1 DEF StaysThere
    <3>3. ~OwnsNothingAbove => \E i \in 2 .. Len(owned) : owned[i]
      OBVIOUS
    <3>4. BindsWhatWasChecked'
      BY <2>1, <2>3, <3>2, <3>3
    <3> QED
      BY <2>1, <2>3, <3>4
  <2> QED
    BY <1>2, <2>1, <2>2, <2>3 DEF Mount
<1>3. CASE Umount2
  BY <1>3 DEF Umount2
<1>4. CASE UNCHANGED vars
  BY <1>4, SrcHolds DEF vars
<1> QED
  BY <1>1, <1>2, <1>3, <1>4

LEMMA InvStep == BmountInv /\ [Next]_vars => BmountInv'
BY LookStep, TreeStep, UserStep, DoStep DEF Next, MainStep, Ended

(* Whatever the user does between the checks and the mount, chmod and        *)
(* rename included, he can have src exchanged only if a directory above it   *)
(* was his when bmount started, and made accessible only if it was           *)
(* (src/bmount.c:42-71 and 125).                                             *)
THEOREM BindSafe == Spec => []BindsWhatWasChecked
<1>1. BmountInv => BindsWhatWasChecked
  BY DEF BmountInv
<1> QED
  BY <1>1, InvInit, InvStep, PTL DEF Spec

(* Nothing is mounted or unmounted outside ~/.bmounts, nor anything hidden   *)
(* by a mount, as long as the user leaves dest alone                         *)
(* (src/bmount.c:84-101, 139-156).                                           *)
THEOREM PlacesSafe == Spec => []StaysInMounts
<1>1. BmountInv => StaysInMounts
  BY DEF BmountInv
<1> QED
  BY <1>1, InvInit, InvStep, PTL DEF Spec
=============================================================================
