------------------------------- MODULE Mousex -------------------------------
(* src/mousex.cpp: every ten milliseconds it looks at the controller and     *)
(* tells Windows what has changed since it last looked.  Only the buttons    *)
(* are modelled; moving and scrolling depend on nothing that was before.     *)
EXTENDS Integers

CONSTANTS
    MaxPadChanges      \* how often somebody presses or lets go of a button,
                       \* or the controller is unplugged

ASSUME MousexAssumption == MaxPadChanges \in Nat

PadButton == {"A", "LEFT_THUMB", "B", "RIGHT_THUMB", "X", "BACK"}

VARIABLES
    pad,               \* the buttons of the controller that are pressed
    plugged,           \* is it there?
    xis,               \* what the last look at it has found
    last_frame,        \* the buttons of the mouse at the last look
    mouse,             \* the buttons that are pressed for Windows
    refused,           \* has SendInput ever failed?
    mousexAt,          \* the loop, or ended
    mousexQuit,        \* PostQuitMessage
    ticks,             \* is there a WM_TIMER to be had?
    padChanges         \* bound

controller == <<pad, plugged, padChanges>>
mousexVars == <<controller, xis, last_frame, mouse, refused, mousexAt, mousexQuit, ticks>>

MousexInit ==
    /\ pad = {} /\ plugged = TRUE /\ padChanges = 0
    /\ xis = {} /\ last_frame = {} /\ mouse = {} /\ refused = FALSE
    /\ mousexAt = "loop" /\ mousexQuit = FALSE /\ ticks = FALSE

(* current, from what the controller has found                               *)
Current(buttons) ==
       (IF buttons \cap {"A", "LEFT_THUMB"} # {} THEN {"bLeft"} ELSE {})
  \cup (IF buttons \cap {"B", "RIGHT_THUMB"} # {} THEN {"bRight"} ELSE {})
  \cup (IF "X" \in buttons THEN {"bMiddle"} ELSE {})

(* last_frame = current; the mutant has lost it.                             *)
NextFrame_Not(current) == last_frame

NextFrame(current) == current

(* WM_TIMER.  If there is no controller it is not said what XInputGetState   *)
(* leaves behind; it is taken to be what was there, or nothing.  SendInput   *)
(* may be refused, which nobody looks at.                                    *)
Timer ==
    /\ mousexAt = "loop" /\ ~mousexQuit /\ ticks
    /\ ticks' = FALSE
    /\ xis' \in IF plugged THEN {pad} ELSE {xis, {}}
    /\ mousexQuit' = ("BACK" \in xis')
    /\ LET current == Current(xis')
           down    == current \ last_frame
           up      == last_frame \ current
       IN  /\ \/ mouse' = (mouse \cup down) \ up /\ UNCHANGED refused
              \/ refused' = TRUE /\ UNCHANGED mouse
           /\ last_frame' = NextFrame(current)
    /\ UNCHANGED <<controller, mousexAt>>

MousexEnds ==
    /\ mousexAt = "loop" /\ mousexQuit
    /\ mousexAt' = "ended"
    /\ UNCHANGED <<controller, xis, last_frame, mouse, refused, mousexQuit, ticks>>

(* Ten milliseconds have passed.                                             *)
Ticks ==
    /\ mousexAt = "loop" /\ ~ticks
    /\ ticks' = TRUE
    /\ UNCHANGED <<controller, xis, last_frame, mouse, refused, mousexAt, mousexQuit>>

PadChanges ==
    /\ padChanges < MaxPadChanges /\ padChanges' = padChanges + 1
    /\ \/ \E b \in PadButton : pad' = (pad \ {b}) \cup ({b} \ pad)
          /\ UNCHANGED plugged
       \/ plugged' = ~plugged /\ UNCHANGED pad
    /\ UNCHANGED <<xis, last_frame, mouse, refused, mousexAt, mousexQuit, ticks>>

MousexStep == Timer \/ MousexEnds

MousexNext == MousexStep \/ Ticks \/ PadChanges

MousexSpec ==
    /\ MousexInit /\ [][MousexNext]_mousexVars
    /\ WF_mousexVars(MousexStep) /\ WF_mousexVars(Ticks)

-----------------------------------------------------------------------------
(* When the player rests, the buttons of the mouse are those he holds: no    *)
(* press and no release is missed for good, whatever comes and goes between  *)
(* two looks, with two buttons that stand for one, and with a controller     *)
(* that was away.  Only three things leave a button pressed that is not: the *)
(* program ends by BACK while one is held, SendInput is refused, or the      *)
(* controller stays away.  (src/mousex.cpp:69-70, 81-107.)                   *)
ButtonsFollow ==
    <>[](mousexAt = "ended" \/ refused \/ ~plugged \/ mouse = Current(pad))
=============================================================================
