----------------------------- MODULE MCCatFight -----------------------------
(* Small archives for TLC.                                                   *)
EXTENDS CatFight, TLC

CONSTANTS p1, p2, p3

MCProc      == {p1, p2}
MCProc3     == {p1, p2, p3}
MCSymmetry  == Permutations(MCProc3)

(* A record without contents, one that spills over the next multiple of 16,  *)
(* and one with -e data.                                                     *)
MCPayload   == {[src_len |-> 0, extra_len |-> 0],
                [src_len |-> 2, extra_len |-> 16]}
MCOnePayload == {[src_len |-> 1, extra_len |-> 0]}

(* Only one invocation is scheduled fairly: the others may stop for ever, in *)
(* the middle of a record too, and keep their locks.                         *)
FairSpec == Spec /\ WF_vars(Step(p1))

(* No invocation waits for another: p1 ends whatever the others do.          *)
NeverWaits == <>(pc[p1] \in Ended)
=============================================================================
