---------------------------- MODULE HotKeyTools ----------------------------
(* quickkey, topkey and shiftfocus on one desktop.                           *)
EXTENDS QuickKey, TopKey, ShiftFocus

toolVars == <<hkVars, quickkeyVars, topkeyVars, shiftfocusVars>>

HotKeyToolsInit == HotKeysInit /\ QuickKeyInit /\ TopKeyInit /\ ShiftFocusInit

(* What an instance does, when it can.                                       *)
InstanceStep(i) ==
    \/ LoopStep(i) /\ UNCHANGED <<quickkeyVars, topkeyVars, shiftfocusVars>>
    \/ QuickKeyStep(i) /\ UNCHANGED <<topkeyVars, shiftfocusVars>>
    \/ TopKeyStep(i) /\ UNCHANGED <<quickkeyVars, shiftfocusVars>>
    \/ ShiftFocusStep(i) /\ UNCHANGED <<quickkeyVars, topkeyVars>>

HotKeyToolsNext ==
    \/ \E i \in Instance : InstanceStep(i)
    \/ UserStep /\ UNCHANGED <<quickkeyVars, topkeyVars, shiftfocusVars>>
    \/ WindowHangs /\ UNCHANGED <<quickkeyVars, shiftfocusVars>>

(* Instances run; the user need do nothing, not even click at OK.            *)
HotKeyToolsSpec ==
    /\ HotKeyToolsInit /\ [][HotKeyToolsNext]_toolVars
    /\ \A i \in Instance : WF_toolVars(InstanceStep(i))

-----------------------------------------------------------------------------
(* Every press is answered in the end: no handler of one program goes on for *)
(* ever, whatever becomes of the windows meanwhile, and nothing waits behind *)
(* it.  Only the broadcast of topkey's LOCKOFF waits for others, and a       *)
(* window that hangs keeps it for good.  (src/topkey.cpp:159,                *)
(* src/shiftfocus.cpp:40-80.)                                                *)
PressesAreAnswered ==
    <>[](hung \/ \A i \in Instance : queue[i] = <<>>)
=============================================================================
