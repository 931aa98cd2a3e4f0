------------------------------ MODULE LeapCmd ------------------------------
(* src/leapcmd.cpp: prints a line for every turn of a finger or tool that    *)
(* draws circles.  The Leap service calls onFrame from a thread of its own;  *)
(* by then the newest frame may be a later one.                              *)
EXTENDS Integers

CONSTANTS
    Gesture,           \* ids of circles
    MaxProgress        \* how far each goes, in quarters of a turn

ASSUME LeapCmdAssumption == MaxProgress \in Nat

VARIABLES
    gestureState,      \* of each circle in the newest frame, or "none"
    progress,          \* how far it has got, in quarters of a turn
    circle_pos,        \* the turns that have been told
    lines,             \* how many lines have been printed for it
    skipped            \* history: the circles of which two looks have been
                       \* more than a turn apart

leapVars == <<gestureState, progress, circle_pos, lines, skipped>>

LeapInit ==
    /\ gestureState = [id \in Gesture |-> "none"]
    /\ progress = [id \in Gesture |-> 0]
    /\ circle_pos = progress /\ lines = progress
    /\ skipped = {}

(* A new frame: a circle begins, goes on or ends.                            *)
NewFrame(id) ==
    /\ \/ /\ gestureState[id] = "none" /\ progress[id] = 0
          /\ gestureState' = [gestureState EXCEPT ![id] = "STATE_START"]
          /\ UNCHANGED progress
       \/ /\ gestureState[id] \in {"STATE_START", "STATE_UPDATE"}
          /\ gestureState' = [gestureState EXCEPT ![id] = "STATE_UPDATE"]
          /\ progress[id] < MaxProgress
          /\ progress' = [progress EXCEPT ![id] = @ + 1]
       \/ /\ gestureState[id] = "STATE_UPDATE"
          /\ gestureState' = [gestureState EXCEPT ![id] = "STATE_END"]
          /\ UNCHANGED progress
       \/ /\ gestureState[id] = "STATE_END"
          /\ gestureState' = [gestureState EXCEPT ![id] = "none"]
          /\ UNCHANGED progress
    /\ UNCHANGED <<circle_pos, lines, skipped>>

(* const int progress = circle.progress()                                    *)
Turns(id) == progress[id] \div 4

(* circle_pos[gesture.id()] = progress, 0 where there is none yet.  The      *)
(* mutant has one position for all circles.                                  *)
Positions_Shared(updated) ==
    [id \in Gesture |-> IF updated = {} THEN circle_pos[id]
                        ELSE Turns(CHOOSE u \in updated : TRUE)]

Positions(updated) ==
    [id \in Gesture |-> IF id \in updated THEN Turns(id) ELSE circle_pos[id]]

onFrame ==
    LET updated == {id \in Gesture : gestureState[id] = "STATE_UPDATE"}
        told    == {id \in updated : Turns(id) # circle_pos[id]}
    IN  /\ lines' = [id \in Gesture |-> IF id \in told THEN lines[id] + 1 ELSE lines[id]]
        /\ circle_pos' = Positions(updated)
        /\ skipped' = skipped \cup {id \in updated : Turns(id) > circle_pos[id] + 1}
        /\ UNCHANGED <<gestureState, progress>>

LeapNext == onFrame \/ \E id \in Gesture : NewFrame(id)

LeapSpec == LeapInit /\ [][LeapNext]_leapVars

-----------------------------------------------------------------------------
(* A circle is never told more turns than it has made, and as long as no     *)
(* look at it came more than a turn late it is told all of them but the ones *)
(* since the last look, however many circles are drawn at the same time.     *)
(* (src/leapcmd.cpp:80-87.)                                                  *)
TurnsAreTold ==
    \A id \in Gesture :
        /\ lines[id] <= Turns(id)
        /\ id \notin skipped => lines[id] = circle_pos[id]
=============================================================================
