--------------------------- MODULE PowerStatusTray ---------------------------
(* src/powerstatustray.cpp: an icon whose balloon tells which drives have    *)
(* been spun up or down, looked up every five seconds, and on a click the    *)
(* status of all of them.  The drives are asked one after the other, and     *)
(* change meanwhile.                                                         *)
EXTENDS Integers, Sequences, FiniteSets

CONSTANTS
    Drives,            \* number of drive letters, asked in this order
    MaxDriveChanges,   \* how often drives change
    MaxTrayClicks      \* how often somebody clicks at the icon

ASSUME PowerStatusTrayAssumption ==
    /\ Drives \in Nat \ {0}
    /\ MaxDriveChanges \in Nat
    /\ MaxTrayClicks \in Nat

Drive == 1 .. Drives
DriveStatus == {"on", "off", "none"}

VARIABLES
    drive,             \* what each drive really is; "none": there is no such
    previous,          \* global: what the last look for a change has found
    trayAt,            \* what the program is doing, or why it asks the drives
    things,            \* local: the drives that are still to be asked
    curr,              \* local: what has been found so far
    clicks,            \* the messages posted by clicks, oldest first
    trayTimer,         \* is there a WM_TIMER to be had?
    trayQuit,          \* PostQuitMessage
    balloon,           \* what the balloon says
    driveChanges,      \* bounds: how often drives have changed
    trayClicked,       \* and somebody has clicked
    lately,            \* history: what each drive has been since the last
                       \* look for a change began
    before             \* history: the same, since the one before that

trayVars == <<drive, previous, trayAt, things, curr, clicks, trayTimer, trayQuit,
              balloon, driveChanges, trayClicked, lately, before>>

trayEnvironment == <<drive, clicks, trayTimer, driveChanges, trayClicked, lately, before>>

Nothing == [on |-> {}, off |-> {}]
NoText  == [title |-> "none", on |-> {}, off |-> {}]

-----------------------------------------------------------------------------
(* Before main, previous is initialised by a first look.                     *)
TrayInit ==
    /\ drive \in [Drive -> DriveStatus]
    /\ lately = [d \in Drive |-> {drive[d]}] /\ before = lately
    /\ previous = Nothing
    /\ trayAt = "start" /\ things = {d \in Drive : drive[d] # "none"} /\ curr = Nothing
    /\ clicks = <<>> /\ trayTimer = FALSE /\ trayQuit = FALSE /\ balloon = NoText
    /\ driveChanges = 0 /\ trayClicked = 0

(* getDrives, at the start of getOnOff                                       *)
getOnOff(why) ==
    /\ trayAt' = why
    /\ things' = {d \in Drive : drive[d] # "none"}
    /\ curr' = Nothing

(* A drive that is gone by now cannot be opened or does not answer.          *)
Inserted(d) ==
    [on  |-> IF drive[d] = "on" THEN curr.on \cup {d} ELSE curr.on,
     off |-> IF drive[d] = "off" THEN curr.off \cup {d} ELSE curr.off]

(* The drives are asked in the order of their letters.                       *)
GetDevicePowerState ==
    /\ trayAt \in {"start", "click", "poll"}
    /\ \E d \in things :
          /\ \A other \in things : d <= other
          /\ things' = things \ {d}
          /\ curr' = Inserted(d)
    /\ UNCHANGED <<previous, trayAt, trayQuit, balloon, trayEnvironment>>

HasFound(why) == trayAt = why /\ things = {} /\ trayAt' = "idle"

Initialised ==
    /\ HasFound("start")
    /\ previous' = curr
    /\ UNCHANGED <<things, curr, trayQuit, balloon, trayEnvironment>>

(* The mutant compares with what it has found before that.                   *)
KeepFound_Not == UNCHANGED previous

KeepFound == previous' = curr

(* The mutant forgets the second of the pair.                                *)
Differs_OnOnly == curr.on # previous.on

Differs == curr # previous

(* What is in now but was not in old.                                        *)
newItems(old, now) == now \ old

(* WM_TIMER, when all drives have been asked                                 *)
TellChange ==
    /\ HasFound("poll")
    /\ IF Differs
       THEN /\ balloon' = [title |-> "Drive status change:",
                           on    |-> newItems(previous.on, curr.on),
                           off   |-> newItems(previous.off, curr.off)]
            /\ KeepFound
       ELSE UNCHANGED <<balloon, previous>>
    /\ UNCHANGED <<things, curr, trayQuit, trayEnvironment>>

(* TRAY_MESSAGE with WM_LBUTTONUP, likewise                                  *)
TellStatus ==
    /\ HasFound("click")
    /\ balloon' = [title |-> "Drive statuses:", on |-> curr.on, off |-> curr.off]
    /\ UNCHANGED <<previous, things, curr, trayQuit, trayEnvironment>>

-----------------------------------------------------------------------------
(* GetMessage: posted messages come first, then WM_QUIT, then WM_TIMER.      *)
LeftClick ==
    /\ trayAt = "idle" /\ clicks # <<>> /\ Head(clicks) = "WM_LBUTTONUP"
    /\ clicks' = Tail(clicks)
    /\ getOnOff("click")
    /\ UNCHANGED <<drive, previous, trayTimer, trayQuit, balloon, driveChanges, trayClicked,
                   lately, before>>

(* PostQuitMessage(0)                                                        *)
RightClick ==
    /\ trayAt = "idle" /\ clicks # <<>> /\ Head(clicks) = "WM_RBUTTONUP"
    /\ clicks' = Tail(clicks)
    /\ trayQuit' = TRUE
    /\ UNCHANGED <<drive, previous, trayAt, things, curr, trayTimer, balloon, driveChanges,
                   trayClicked, lately, before>>

TrayGetQuit ==
    /\ trayAt = "idle" /\ clicks = <<>> /\ trayQuit
    /\ trayAt' = "ended"
    /\ UNCHANGED <<previous, things, curr, trayQuit, balloon, trayEnvironment>>

GetTimer ==
    /\ trayAt = "idle" /\ clicks = <<>> /\ ~trayQuit /\ trayTimer
    /\ trayTimer' = FALSE
    /\ getOnOff("poll")
    /\ lately' = [d \in Drive |-> {drive[d]}] /\ before' = lately
    /\ UNCHANGED <<drive, previous, clicks, trayQuit, balloon, driveChanges, trayClicked>>

(* Five seconds have passed; there is never more than one WM_TIMER.          *)
TrayTimerElapses ==
    /\ trayAt # "ended" /\ ~trayTimer
    /\ trayTimer' = TRUE
    /\ UNCHANGED <<drive, previous, trayAt, things, curr, clicks, trayQuit, balloon,
                   driveChanges, trayClicked, lately, before>>

TrayClick ==
    /\ trayAt # "ended" /\ trayClicked < MaxTrayClicks
    /\ trayClicked' = trayClicked + 1
    /\ \E button \in {"WM_LBUTTONUP", "WM_RBUTTONUP"} : clicks' = Append(clicks, button)
    /\ UNCHANGED <<drive, previous, trayAt, things, curr, trayTimer, trayQuit, balloon,
                   driveChanges, lately, before>>

(* A drive spins up or down, or is plugged in or pulled out.                 *)
DriveChanges ==
    /\ trayAt # "ended" /\ driveChanges < MaxDriveChanges
    /\ driveChanges' = driveChanges + 1
    /\ \E d \in Drive, s \in DriveStatus :
          /\ s # drive[d]
          /\ drive' = [drive EXCEPT ![d] = s]
          /\ lately' = [lately EXCEPT ![d] = @ \cup {s}]
          /\ before' = [before EXCEPT ![d] = @ \cup {s}]
    /\ UNCHANGED <<previous, trayAt, things, curr, clicks, trayTimer, trayQuit, balloon, trayClicked>>

TrayStep ==
    \/ GetDevicePowerState \/ Initialised \/ TellChange \/ TellStatus
    \/ LeftClick \/ RightClick \/ TrayGetQuit \/ GetTimer

TrayNext == TrayStep \/ TrayTimerElapses \/ TrayClick \/ DriveChanges

(* The program runs when it can, and the timer goes on elapsing.             *)
TraySpec ==
    /\ TrayInit /\ [][TrayNext]_trayVars
    /\ WF_trayVars(TrayStep) /\ WF_trayVars(TrayTimerElapses)

-----------------------------------------------------------------------------
(* The balloon never makes a status up: whatever a new one says of a drive,  *)
(* the drive has been so since the program last began to look for changes,   *)
(* though never all of them at once.  And what is told as a change is one:   *)
(* the drive has been something else in the meantime, so that a status is    *)
(* not told twice in a row.  (getOnOff asks the drives one by one,           *)
(* src/powerstatustray.cpp:45-55; previous = curr, src/powerstatustray.cpp:157.) *)
NewsIsTrue ==
    [][balloon' # balloon =>
          /\ \A d \in balloon'.on : "on" \in lately[d]
          /\ \A d \in balloon'.off : "off" \in lately[d]
          /\ trayAt = "poll" =>
                \A d \in balloon'.on \cup balloon'.off : Cardinality(before[d]) > 1
      ]_trayVars

(* When the drives have settled, previous catches up with them, unless the   *)
(* program is told to end: no change is missed for good by a look that runs  *)
(* while the drives change, or by a click that is answered in between.       *)
SettledIsKnown ==
    <>[](\/ trayQuit
         \/ \A d \in Drive : /\ d \in previous.on <=> drive[d] = "on"
                             /\ d \in previous.off <=> drive[d] = "off")
=============================================================================
