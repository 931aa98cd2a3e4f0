------------------------------- MODULE HotKeys -------------------------------
(* What src/quickkey.cpp, src/topkey.cpp and src/shiftfocus.cpp have in      *)
(* common: each makes itself a message-only window, registers hot keys for   *)
(* it in a fixed order, and handles one message after the other.  A hot key  *)
(* has one owner on the whole desktop; all programs look at, and change, the *)
(* same foreground window, which the user changes, too.                      *)
EXTENDS Integers, Sequences, FiniteSets

CONSTANTS
    Instance,          \* processes
    Together,          \* which programs they may be running
    HotKeysOf,         \* the hot keys of each program, in order
    Window, NoWindow,  \* the windows of other programs; none of them
    Nobody, Other,     \* owners of hot keys: nobody, some other program
    Taken,             \* which hot keys other programs may have
    MaxPresses,        \* how often the user presses a hot key
    MaxClicks          \* how often the user does something else

Key == UNION {{HotKeysOf[p][n] : n \in DOMAIN HotKeysOf[p]} : p \in DOMAIN HotKeysOf}

ASSUME HotKeysAssumption ==
    /\ \A p \in DOMAIN HotKeysOf : HotKeysOf[p] \in Seq(Key) \ {<<>>}
    /\ \A p, q \in DOMAIN HotKeysOf :
          \A m \in DOMAIN HotKeysOf[p], n \in DOMAIN HotKeysOf[q] :
             HotKeysOf[p][m] = HotKeysOf[q][n] => p = q /\ m = n
    /\ Together \subseteq [Instance -> DOMAIN HotKeysOf]
    /\ Nobody \notin Instance /\ Other \notin Instance /\ Other # Nobody
    /\ NoWindow \notin Window
    /\ Taken \subseteq SUBSET Key
    /\ MaxPresses \in Nat /\ MaxClicks \in Nat

VARIABLES
    program,           \* the program that each instance runs
    owner,             \* whose each hot key is
    at,                \* what each instance does next
    registered,        \* how many hot keys it has registered
    msgwnd,            \* does its window exist?
    queue,             \* its messages, oldest first; the first is the one it
                       \* is handling, if it is handling one
    quitting,          \* has it called PostQuitMessage?
    windows,           \* the windows that are open
    foreground,        \* the window in front, or NoWindow
    presses, clicked   \* bounds: what the user has done

desktop == <<program, windows, foreground>>
user    == <<presses, clicked>>
loop    == <<owner, registered, msgwnd, queue, quitting>>
hkVars  == <<at, loop, desktop, user>>

Wanted(i) == HotKeysOf[program[i]]

(* A message has the position of the hot key among those of its program; 0   *)
(* stands for WM_CLOSE.  That it knows what was in front when the key was    *)
(* pressed is for the properties only; the programs look for themselves,     *)
(* later.                                                                    *)
Close  == [id |-> 0, seen |-> NoWindow]
HotKey(i) == Wanted(i)[Head(queue[i]).id]

-----------------------------------------------------------------------------
HotKeysInit ==
    /\ \E taken \in Taken : owner = [k \in Key |-> IF k \in taken THEN Other ELSE Nobody]
    /\ program \in Together
    /\ at = [i \in Instance |-> "start"]
    /\ registered = [i \in Instance |-> 0]
    /\ msgwnd = [i \in Instance |-> FALSE]
    /\ queue = [i \in Instance |-> <<>>]
    /\ quitting = [i \in Instance |-> FALSE]
    /\ windows = Window /\ foreground \in Window
    /\ presses = 0 /\ clicked = 0

Goto(i, step) == at' = [at EXCEPT ![i] = step]

(* A window that goes takes its hot keys and its messages along.             *)
DestroyWindow(i) ==
    /\ msgwnd' = [msgwnd EXCEPT ![i] = FALSE]
    /\ owner' = [k \in Key |-> IF owner[k] = i THEN Nobody ELSE owner[k]]
    /\ queue' = [queue EXCEPT ![i] = <<>>]

CreateWindow(i) ==
    /\ at[i] = "start"
    /\ \/ msgwnd' = [msgwnd EXCEPT ![i] = TRUE] /\ Goto(i, "register")
       \/ UNCHANGED msgwnd /\ Goto(i, "error")
    /\ UNCHANGED <<owner, registered, queue, quitting, desktop, user>>

(* The mutant does not look at what RegisterHotKey returns.                  *)
RegisterHotKey_Unchecked(i) ==
    LET key == Wanted(i)[registered[i] + 1]
    IN  /\ at[i] = "register"
        /\ owner' = [owner EXCEPT ![key] = IF @ = Nobody THEN i ELSE @]
        /\ registered' = [registered EXCEPT ![i] = @ + 1]
        /\ Goto(i, IF registered'[i] = Len(Wanted(i)) THEN "loop" ELSE "register")
        /\ UNCHANGED <<msgwnd, queue, quitting, desktop, user>>

(* This one looks only at what it has returned last.                         *)
RegisterHotKey_LastOnly(i) ==
    LET key == Wanted(i)[registered[i] + 1]
    IN  /\ at[i] = "register"
        /\ owner' = [owner EXCEPT ![key] = IF @ = Nobody THEN i ELSE @]
        /\ registered' = [registered EXCEPT ![i] = @ + 1]
        /\ Goto(i, IF registered'[i] < Len(Wanted(i)) THEN "register"
                   ELSE IF owner[key] = Nobody THEN "loop" ELSE "error")
        /\ UNCHANGED <<msgwnd, queue, quitting, desktop, user>>

(* The next hot key; the first that somebody else has ends the program.      *)
RegisterHotKey(i) ==
    LET key == Wanted(i)[registered[i] + 1]
    IN  /\ at[i] = "register"
        /\ \/ /\ owner[key] = Nobody
              /\ owner' = [owner EXCEPT ![key] = i]
              /\ registered' = [registered EXCEPT ![i] = @ + 1]
              /\ Goto(i, IF registered'[i] = Len(Wanted(i)) THEN "loop" ELSE "register")
           \/ /\ owner[key] # Nobody
              /\ Goto(i, "error")
              /\ UNCHANGED <<owner, registered>>
        /\ UNCHANGED <<msgwnd, queue, quitting, desktop, user>>

(* While the message box is up its own loop throws the messages of the hot   *)
(* keys away that have been registered; they are given back only when the    *)
(* user has clicked at OK, or the window is closed.                          *)
MessageBox(i) ==
    /\ at[i] = "error" /\ queue[i] # <<>>
    /\ \/ /\ Head(queue[i]).id > 0
          /\ queue' = [queue EXCEPT ![i] = Tail(@)]
          /\ UNCHANGED <<at, owner, msgwnd>>
       \/ Head(queue[i]).id = 0 /\ DestroyWindow(i) /\ Goto(i, "ended")
    /\ UNCHANGED <<registered, quitting, desktop, user>>

Dismiss(i) ==
    /\ at[i] = "error"
    /\ DestroyWindow(i) /\ Goto(i, "ended")
    /\ UNCHANGED <<registered, quitting, desktop, user>>

-----------------------------------------------------------------------------
(* GetMessage: the next message, or none ever again after PostQuitMessage,   *)
(* or an error if the window is gone.                                        *)
Gets(i) == at[i] = "loop" /\ msgwnd[i] /\ queue[i] # <<>>

GetQuit(i) ==
    /\ at[i] = "loop" /\ msgwnd[i] /\ queue[i] = <<>> /\ quitting[i]
    /\ DestroyWindow(i) /\ Goto(i, "ended")
    /\ UNCHANGED <<registered, quitting, desktop, user>>

GetMessageFails(i, then) ==
    /\ at[i] = "loop" /\ ~msgwnd[i]
    /\ Goto(i, then)
    /\ UNCHANGED <<loop, desktop, user>>

(* WM_CLOSE: the window procedure destroys the window.  The WM_DESTROY it    *)
(* sends goes straight to that procedure; the loop never sees it, and        *)
(* PostQuitMessage is not called.                                            *)
DispatchClose(i) ==
    /\ Gets(i) /\ Head(queue[i]).id = 0
    /\ DestroyWindow(i)
    /\ UNCHANGED <<at, registered, quitting, desktop, user>>

(* WM_HOTKEY in one of the programs, and the end of its handling             *)
Handles(i, name) == Gets(i) /\ program[i] = name /\ Head(queue[i]).id > 0

Done(i) ==
    /\ Goto(i, "loop")
    /\ queue' = [queue EXCEPT ![i] = Tail(@)]
    /\ UNCHANGED <<owner, registered, msgwnd>>

LoopStep(i) ==
    \/ CreateWindow(i) \/ RegisterHotKey(i) \/ MessageBox(i)
    \/ GetQuit(i) \/ DispatchClose(i)

-----------------------------------------------------------------------------
(* The user: presses hot keys, goes to another window or closes one, and has *)
(* the window of an instance closed.                                         *)
Press(key) ==
    /\ presses < MaxPresses /\ presses' = presses + 1
    /\ \E i \in Instance : \E id \in DOMAIN Wanted(i) :
          /\ owner[key] = i /\ Wanted(i)[id] = key
          /\ queue' = [queue EXCEPT ![i] = Append(@, [id |-> id, seen |-> foreground])]
    /\ UNCHANGED <<at, owner, registered, msgwnd, quitting, desktop, clicked>>

Act == clicked < MaxClicks /\ clicked' = clicked + 1

GoTo(w) ==
    /\ Act
    /\ w \in windows /\ w # foreground
    /\ foreground' = w
    /\ UNCHANGED <<at, loop, program, windows, presses>>

CloseWindow(w) ==
    /\ Act
    /\ w \in windows
    /\ windows' = windows \ {w}
    /\ foreground' \in IF foreground = w THEN windows' \cup {NoWindow} ELSE {foreground}
    /\ UNCHANGED <<at, loop, program, presses>>

PostClose(i) ==
    /\ Act
    /\ msgwnd[i]
    /\ queue' = [queue EXCEPT ![i] = Append(@, Close)]
    /\ UNCHANGED <<at, owner, registered, msgwnd, quitting, desktop, presses>>

UserStep ==
    \/ \E i \in Instance : Dismiss(i) \/ PostClose(i)
    \/ \E key \in Key : Press(key)
    \/ \E w \in Window : GoTo(w) \/ CloseWindow(w)

-----------------------------------------------------------------------------
Running(i) == msgwnd[i] /\ at[i] \notin {"start", "register", "error", "ended"}

(* A program never runs twice: of two that are started, at the same time or  *)
(* one while the other is in its loop, at most one gets past registering.    *)
(* No check says so; it follows from both wanting the same keys.  What the   *)
(* programs remember (the windows of quickkey, the toggle of topkey) has     *)
(* therefore one writer.  (src/quickkey.cpp:31-33, src/topkey.cpp:120-128,   *)
(* src/shiftfocus.cpp:12-20.)                                                *)
OneInstance ==
    \A i, j \in Instance :
        program[i] = program[j] /\ Running(i) /\ Running(j) => i = j

(* The one that does not get in holds nothing while its message box waits    *)
(* for the user: they ask for the keys in the same order, so that two that   *)
(* start together cannot each take what the other one needs, and keep both   *)
(* out.  Only where another program has one of the keys does the box hold    *)
(* the keys before it.                                                       *)
LoserHoldsNothing ==
    \A i \in Instance : at[i] = "error" =>
        \/ \A key \in Key : owner[key] # i
        \/ \E n \in DOMAIN Wanted(i) : owner[Wanted(i)[n]] = Other
=============================================================================
