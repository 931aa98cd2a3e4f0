----------------------------- MODULE AtomicFile -----------------------------
(* What sponger promises: the output file is the old one until, in one step, *)
(* it is the whole output of one successful run, and then of another; at no  *)
(* time is it a part of an output or a mixture.  Only what a program has     *)
(* left behind in the background may add to its own output.  Sponger.tla is  *)
(* shown to implement this specification.                                    *)
EXTENDS Naturals

CONSTANTS Run,     \* the invocations
          Old,     \* the contents before any of them
          Whole    \* how much a successful run writes

(* Old, or a run and how much of its output is in the file.                  *)
VARIABLE content

Init == content = Old

IsWhole(c) == c # Old /\ c[1] \in Run /\ c[2] >= Whole

(* Another run's file takes the place of the present one.                    *)
Replace ==
    /\ IsWhole(content')
    /\ content # Old => content'[1] # content[1]

(* The present file grows.                                                   *)
Append ==
    /\ content # Old
    /\ IsWhole(content')
    /\ content'[1] = content[1]
    /\ content'[2] > content[2]

Next == Replace \/ Append

Spec == Init /\ [][Next]_content
=============================================================================
