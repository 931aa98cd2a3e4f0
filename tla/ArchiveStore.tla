---------------------------- MODULE ArchiveStore ----------------------------
(* What catfight promises the people who script it: an archive is a store    *)
(* from positions to records.  Archiving a file publishes its record at one  *)
(* position, which was free until then and which nothing moves, overwrites   *)
(* or reuses afterwards, whatever the other invocations do and wherever they *)
(* are killed.  CatFight.tla is shown to implement this specification.       *)

CONSTANTS Writer,    \* the invocations of catfight that archive a file
          Position   \* the numbers an invocation may print

VARIABLE store       \* the published position |-> whose records it gives back

(* A position gives back the record of one writer and nothing of another.    *)
Contents == {{w} : w \in Writer}

Init == store = [pos \in {} |-> {}]

(* Invocation w publishes its record; it does so once, at a free position,  *)
(* and all others stay as they are.                                          *)
Publish(w) ==
    \E pos \in DOMAIN store' \ DOMAIN store :
        /\ pos \in Position
        /\ \A q \in DOMAIN store : store[q] # {w}
        /\ store' = [q \in DOMAIN store \cup {pos} |->
                         IF q = pos THEN {w} ELSE store[q]]

Next == \E w \in Writer : Publish(w)

Spec == Init /\ [][Next]_store
=============================================================================
