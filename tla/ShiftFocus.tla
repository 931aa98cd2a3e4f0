----------------------------- MODULE ShiftFocus -----------------------------
(* src/shiftfocus.cpp: CONTROL+WIN with an arrow key moves on to the window  *)
(* that lies in that direction, looking every ten pixels for one.            *)
EXTENDS HotKeys

CONSTANTS
    Beyond             \* what is to be seen from a window in each direction

VARIABLES
    loc,               \* local: the window that was in front, whose rectangle
                       \* is the place to begin at (NoWindow: the origin)
    distance           \* local: how far it has looked, in steps of ten

shiftfocusVars == <<loc, distance>>

ShiftFocusHotKeys ==
    <<"CONTROL+WIN+LEFT", "CONTROL+WIN+RIGHT", "CONTROL+WIN+UP", "CONTROL+WIN+DOWN">>

ShiftFocusInit ==
    /\ loc = [i \in Instance |-> NoWindow]
    /\ distance = [i \in Instance |-> 0]

(* GetForegroundWindow, getDesktopWindow, GetWindowRect                      *)
GetWindowRect(i) ==
    /\ Handles(i, "shiftfocus")
    /\ loc' = [loc EXCEPT ![i] = foreground]
    /\ distance' = [distance EXCEPT ![i] = 1]
    /\ Goto(i, "search")
    /\ UNCHANGED <<loop, desktop, user>>

(* Beyond[w][key] is what is at each step from w: the points up to the first  *)
(* that is on no monitor, and at each a window, the desktop, or nothing.     *)
Line(i) == Beyond[loc[i]][HotKey(i)]

(* MonitorFromPoint is asked about the point of the step before, so that the *)
(* first point outside is looked at, too; the first is taken to be inside.   *)
(* The mutant does not ask.                                                  *)
OnMonitor_Always(i) == TRUE

OnMonitor(i) == distance[i] > 1 => Line(i)[distance[i] - 1].on

(* What is at p: a window that has been closed shows what is behind it.      *)
RealChildWindowFromPoint(i) ==
    IF distance[i] > Len(Line(i)) THEN "nothing"
    ELSE LET w == Line(i)[distance[i]].shows
         IN  IF w \in Window \ windows THEN "desktop" ELSE w

(* One turn of the loop: to the next point, or there is a window and the     *)
(* focus goes to it, if Windows lets it.                                     *)
SearchOn(i) ==
    /\ at[i] = "search" /\ OnMonitor(i)
    /\ RealChildWindowFromPoint(i) \notin Window
    /\ distance' = [distance EXCEPT ![i] = IF @ > Len(Line(i)) THEN @ ELSE @ + 1]
    /\ UNCHANGED <<at, loop, desktop, user, loc>>

SetForegroundWindow(i) ==
    /\ at[i] = "search" /\ OnMonitor(i)
    /\ RealChildWindowFromPoint(i) \in Window
    /\ foreground' \in {RealChildWindowFromPoint(i), foreground}
    /\ Done(i)
    /\ UNCHANGED <<quitting, program, windows, user, shiftfocusVars>>

OffMonitor(i) ==
    /\ at[i] = "search" /\ ~OnMonitor(i)
    /\ Done(i)
    /\ UNCHANGED <<quitting, desktop, user, shiftfocusVars>>

ShiftFocusError(i) ==
    /\ program[i] = "shiftfocus"
    /\ GetMessageFails(i, "ended")
    /\ UNCHANGED shiftfocusVars

ShiftFocusStep(i) ==
    \/ GetWindowRect(i) \/ SearchOn(i) \/ SetForegroundWindow(i) \/ OffMonitor(i)
    \/ ShiftFocusError(i)
=============================================================================
