----------------------------- MODULE MCDesktop -----------------------------
(* The tools for the desktop, one in each behaviour: they have nothing to do *)
(* with each other, and the others stay in one of their initial states.      *)
EXTENDS HotKeyTools, PowerStatusTray, KeyDumpers, Mousex, LeapCmd, FoobarLoader

VARIABLE tool

MCHotKeysOf == [quickkey |-> QuickKeyHotKeys, topkey |-> TopKeyHotKeys,
                shiftfocus |-> ShiftFocusHotKeys]

(* Two of one kind.  No key is taken, or the last one of quickkey.           *)
MCTogether == {[i \in Instance |-> p] : p \in DOMAIN MCHotKeysOf}
MCTaken == {{}, {"CONTROL+WIN+1"}}

(* w1 is left of w2, with the desktop between them; from nowhere, when there *)
(* is no window in front, it is as from w1.  Up and down there is the        *)
(* desktop and then nothing.                                                 *)
Point(on, shows) == [on |-> on, shows |-> shows]
ToLeft  == <<Point(TRUE, "desktop"), Point(FALSE, "w1")>>
ToRight == <<Point(TRUE, "desktop"), Point(TRUE, "w2"), Point(FALSE, "nothing")>>
ToEdge  == <<Point(TRUE, "desktop"), Point(FALSE, "nothing")>>

Around(left, right) ==
    [k \in {"CONTROL+WIN+LEFT", "CONTROL+WIN+RIGHT", "CONTROL+WIN+UP", "CONTROL+WIN+DOWN"} |->
        CASE k = "CONTROL+WIN+LEFT"  -> left
          [] k = "CONTROL+WIN+RIGHT" -> right
          [] OTHER                   -> ToEdge]

MCBeyond == [w1 |-> Around(ToEdge, ToRight), w2 |-> Around(ToLeft, ToEdge),
             none |-> Around(ToEdge, ToRight)]

(* Texts of up to four characters, of which some are longer than any path    *)
(* may be, and directories of which one is the beginning of another one, and *)
(* one ends with a space.                                                    *)
MCTexts == UNION {[1 .. n -> {"a", "\\", " "}] : n \in 0 .. 3}
              \cup {<<"a", "\\", "a", " ">>, <<"a", "\\", "a", "a">>, <<"a", "a", "a", "a">>,
                    <<"a", "a", " ", "\\">>, <<"a", " ", "\\", "a">>,
                    <<"a", "a", "a", "a", "a">>}
MCDirectories == {<<"a">>, <<"a", "a">>, <<"a", "\\", "a">>, <<"a", " ">>}

(* A key that keytoputty knows, and one that it does not.                    *)
MCStroke == {[dwOfs |-> "A", dwData |-> TRUE], [dwOfs |-> "A", dwData |-> FALSE],
             [dwOfs |-> "F1", dwData |-> TRUE]}

-----------------------------------------------------------------------------
Vars == <<tool, toolVars, trayVars, dumperVars, mousexVars, leapVars, loaderVars>>

MCInit ==
    /\ tool \in {"hotkeys", "tray", "dumpers", "mousex", "leap", "loader"}
    /\ HotKeyToolsInit /\ TrayInit /\ DumpersInit /\ MousexInit /\ LeapInit /\ LoaderInit
    /\ foreground = "w1"
    /\ owner["CONTROL+WIN+1"] = Nobody \/ (tool = "hotkeys" /\ program["a"] = "quickkey")
    /\ program["a"] = "quickkey" \/ tool = "hotkeys"
    /\ tool = "tray" \/ \A d \in Drive : drive[d] = "none"
    /\ {p \in Dumper : dumperAt[p] = "setup"} \in
          IF tool = "dumpers" THEN {{"keydump"}, {"keytoputty1"}, Puttys} ELSE {{}}

(* The steps of one tool, while the others stand still.                      *)
Steps(which, A) ==
    /\ tool = which /\ UNCHANGED tool
    /\ A
    /\ which = "hotkeys" \/ UNCHANGED toolVars
    /\ which = "tray" \/ UNCHANGED trayVars
    /\ which = "dumpers" \/ UNCHANGED dumperVars
    /\ which = "mousex" \/ UNCHANGED mousexVars
    /\ which = "leap" \/ UNCHANGED leapVars
    /\ which = "loader" \/ UNCHANGED loaderVars

MCNext ==
    \/ Steps("hotkeys", HotKeyToolsNext)
    \/ Steps("tray", TrayNext)
    \/ Steps("dumpers", DumpersNext)
    \/ Steps("mousex", MousexNext)
    \/ Steps("leap", LeapNext)
    \/ Steps("loader", LoaderNext)

(* What is fair in the specification of each tool, side by side: as only one *)
(* tool runs, fairness to one of these disjunctions is fairness to the one   *)
(* disjunct of that tool.                                                    *)
First  == \/ Steps("hotkeys", InstanceStep("a")) \/ Steps("tray", TrayStep)
          \/ Steps("dumpers", DumperStep("keydump")) \/ Steps("mousex", MousexStep)
          \/ Steps("loader", LoaderStep)
Second == \/ Steps("hotkeys", InstanceStep("b")) \/ Steps("tray", TrayTimerElapses)
          \/ Steps("dumpers", DumperStep("keytoputty1")) \/ Steps("mousex", Ticks)
          \/ Steps("loader", DebuggeeStep)
Third  == Steps("dumpers", DumperStep("keytoputty2"))

MCSpec == MCInit /\ [][MCNext]_Vars /\ WF_Vars(First) /\ WF_Vars(Second) /\ WF_Vars(Third)
=============================================================================
