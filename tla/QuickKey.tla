------------------------------ MODULE QuickKey ------------------------------
(* src/quickkey.cpp: CONTROL+WIN+digit remembers the window in front,        *)
(* WIN+digit brings the one remembered for that digit to the front.          *)
EXTENDS HotKeys

VARIABLES
    keymap,            \* the windows remembered, by number of hot key
    meant              \* history: the window that the user saw when he had it
                       \* remembered; NoWindow if another was in front by the
                       \* time the message was handled, or none was remembered

quickkeyVars == <<keymap, meant>>

(* RegisterHotKey(msgwnd, ++counter, ...), twice for each digit; two digits  *)
(* stand for all ten.                                                        *)
QuickKeyHotKeys == <<"WIN+0", "CONTROL+WIN+0", "WIN+1", "CONTROL+WIN+1">>

OnlyWin == {"WIN+0", "WIN+1"}

QuickKeyInit ==
    /\ keymap = [i \in Instance |-> [n \in 0 .. Len(QuickKeyHotKeys) |-> NoWindow]]
    /\ meant = keymap

(* The mutant forgets that WIN+digit has the number before.                  *)
Slot_Same(wParam) == wParam

Slot(wParam) == wParam - 1

(* keymap[msg.wParam-1] = GetForegroundWindow()                              *)
Remember(i) ==
    /\ Handles(i, "quickkey") /\ HotKey(i) \notin OnlyWin
    /\ keymap' = [keymap EXCEPT ![i][Slot(Head(queue[i]).id)] = foreground]
    /\ meant' = [meant EXCEPT ![i][Head(queue[i]).id - 1] =
                    IF foreground = Head(queue[i]).seen THEN foreground ELSE NoWindow]
    /\ Done(i)
    /\ UNCHANGED <<quitting, desktop, user>>

(* SetForegroundWindow(keymap[msg.wParam]), which does nothing for a window  *)
(* that is no more, and is taken not to be refused to a program that has     *)
(* just been given a hot key.                                                *)
Recall(i) ==
    /\ Handles(i, "quickkey") /\ HotKey(i) \in OnlyWin
    /\ LET w == keymap[i][Head(queue[i]).id]
       IN  foreground' = IF w \in windows THEN w ELSE foreground
    /\ Done(i)
    /\ UNCHANGED <<quitting, program, windows, user, quickkeyVars>>

(* -1 is not 0: while(GetMessage(...)) goes on with the message it has got   *)
(* last, the one that closed the window, and does so for ever.               *)
GetsNothing(i) ==
    /\ program[i] = "quickkey"
    /\ GetMessageFails(i, "spinning")
    /\ UNCHANGED quickkeyVars

QuickKeyStep(i) == Remember(i) \/ Recall(i) \/ GetsNothing(i)

-----------------------------------------------------------------------------
(* WIN+digit brings back the very window the user saw when he last pressed   *)
(* CONTROL+WIN with that digit, if it is still open.  Both messages wait in  *)
(* a queue, other programs and other digits change what is in front          *)
(* meanwhile; only if that happens before the message is handled that is to  *)
(* remember the window, another one is remembered.                           *)
(* (src/quickkey.cpp:40-43 looks at the foreground when it gets to it.)      *)
ComesBack ==
    [][\A i \in Instance :
          (Handles(i, "quickkey") /\ HotKey(i) \in OnlyWin /\ queue'[i] = Tail(queue[i]))
              => (meant[i][Head(queue[i]).id] \in windows => foreground' = meant[i][Head(queue[i]).id])
      ]_<<hkVars, quickkeyVars>>
=============================================================================
