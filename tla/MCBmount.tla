------------------------------ MODULE MCBmount ------------------------------
(* What bmount may find at src, at dest and in the home directory: anything  *)
(* at src with a good dest, and anything at dest with a good src.            *)
EXTENDS Bmount

MCSrc == {[kind |-> kind, resolved |-> resolved, enter |-> enter, write |-> write, own |-> own] :
            kind \in Kind, resolved \in BOOLEAN, enter \in BOOLEAN,
            write \in [1 .. 2 -> BOOLEAN], own \in [1 .. 2 -> BOOLEAN]}

MCDest == [kind : Kind, resolved : BOOLEAN, inside : BOOLEAN, usable : {TRUE}, empty : BOOLEAN]

MCGoodSrc == [kind |-> "dir", resolved |-> TRUE, enter |-> FALSE,
              write |-> <<FALSE, FALSE>>, own |-> <<FALSE, FALSE>>]

MCGoodDest == [kind |-> "dir", resolved |-> TRUE, inside |-> TRUE, usable |-> TRUE, empty |-> TRUE]

MCRequest(ops, srcs, dests, homes) == [op : ops, src : srcs, dest : dests, home : homes]

(* --unmount does not look at src.                                           *)
MCAll ==
    MCRequest({"--bind"}, MCSrc, {MCGoodDest}, {"own"})
    \cup MCRequest({"--bind", "--unmount"}, {MCGoodSrc},
                   MCDest \cup {[MCGoodDest EXCEPT !.usable = FALSE]}, {"own", "other", "none"})
=============================================================================
