------------------------------- MODULE TopKey -------------------------------
(* src/topkey.cpp: hot keys that put the window in front on top of the       *)
(* others, open a terminal where that window is about, lock the workstation, *)
(* and end the program.                                                      *)
EXTENDS HotKeys

CONSTANTS
    Texts,             \* what a window may tell of the place it shows
    Directories,       \* the texts that are names of directories
    MAX_PATH           \* no directory has a longer name, with its final zero

ASSUME TopKeyAssumption ==
    /\ Texts \subseteq Seq(STRING)
    /\ MAX_PATH \in Nat \ {0}
    /\ \A directory \in Directories : Len(directory) < MAX_PATH

VARIABLES
    hung,              \* does some window not answer messages any more?
    text,              \* what the window in front has told an instance; for
                       \* the properties only
    buf                \* what is left of it

topkeyVars == <<hung, text, buf>>

Separator == {"\\", " "}

(* enum Hotkeys, in the order in which they are registered                   *)
Hotkeys == <<"ONTOP", "TERMINAL", "LOCKOFF", "EXIT">>

TopKeyHotKeys ==
    <<"CONTROL+WIN+W", "CONTROL+WIN+RETURN", "CONTROL+ALT+SHIFT+L", "CONTROL+SHIFT+WIN+W">>

TopKeyInit ==
    /\ hung = FALSE
    /\ text = [i \in Instance |-> <<>>]
    /\ buf = [i \in Instance |-> <<>>]

Is(i, hotkey) == Handles(i, "topkey") /\ Hotkeys[Head(queue[i]).id] = hotkey

(* ONTOP: SetWindowPos changes which window covers which, not which of them  *)
(* is in front.                                                              *)
SetWindowPos(i) ==
    /\ Is(i, "ONTOP")
    /\ Done(i)
    /\ UNCHANGED <<quitting, desktop, user, topkeyVars>>

(* LOCKOFF: SendMessage(HWND_BROADCAST, ...) returns when every window has   *)
(* answered.                                                                 *)
LockWorkStation(i) ==
    /\ Is(i, "LOCKOFF")
    /\ Goto(i, "broadcast")
    /\ UNCHANGED <<loop, desktop, user, topkeyVars>>

Broadcast(i) ==
    /\ at[i] = "broadcast" /\ ~hung
    /\ Done(i)
    /\ UNCHANGED <<quitting, desktop, user, topkeyVars>>

-----------------------------------------------------------------------------
(* TERMINAL: of a folder's window and of the desktop the place is known, of  *)
(* any other there is the title.                                             *)
WindowTells(i) ==
    /\ Is(i, "TERMINAL")
    /\ \E told \in Texts : /\ text' = [text EXCEPT ![i] = told]
                          /\ buf' = [buf EXCEPT ![i] = told]
    /\ Goto(i, "clean")
    /\ UNCHANGED <<loop, desktop, user, hung>>

(* The offset of the last character that is one of these, or 0: wcsrchr      *)
wcsrchr(str, chars) ==
    CHOOSE n \in 0 .. Len(str) :
        /\ n = 0 \/ str[n] \in chars
        /\ \A later \in n + 1 .. Len(str) : str[later] \notin chars

(* wcsnlen_s(str, MAX_PATH)                                                  *)
Length(str) == IF Len(str) < MAX_PATH THEN Len(str) ELSE MAX_PATH

(* The mutant cuts at the backslash whenever there is one.                   *)
Cut_SlashFirst(str) ==
    LET slash == wcsrchr(str, {"\\"})
        space == wcsrchr(str, {" "})
    IN  SubSeq(str, 1, (IF slash > 0 THEN slash ELSE IF space > 0 THEN space
                        ELSE Length(str)) - 1)

(* Cut at the later one of both, or else the last character.                 *)
Cut(str) ==
    LET slash == wcsrchr(str, {"\\"})
        space == wcsrchr(str, {" "})
    IN  SubSeq(str, 1, (IF slash > 0 \/ space > 0
                        THEN IF slash > space THEN slash ELSE space
                        ELSE Length(str)) - 1)

Cleaned(i) == buf[i] = <<>> \/ buf[i] \in Directories

(* One turn of the loop in clean.                                            *)
Trim(i) ==
    /\ at[i] = "clean" /\ ~Cleaned(i)
    /\ buf' = [buf EXCEPT ![i] = Cut(@)]
    /\ UNCHANGED <<at, loop, desktop, user, hung, text>>

(* Without a place it is the user's profile.                                 *)
Place(i) == IF buf[i] = <<>> THEN <<"profile">> ELSE buf[i]

ShellExecute(i) ==
    /\ at[i] = "clean" /\ Cleaned(i)
    /\ text' = [text EXCEPT ![i] = <<>>]
    /\ buf' = [buf EXCEPT ![i] = <<>>]
    /\ Done(i)
    /\ UNCHANGED <<quitting, desktop, user, hung>>

(* EXIT: PostQuitMessage(0)                                                  *)
Exit(i) ==
    /\ Is(i, "EXIT")
    /\ quitting' = [quitting EXCEPT ![i] = TRUE]
    /\ Done(i)
    /\ UNCHANGED <<desktop, user, topkeyVars>>

TopKeyError(i) ==
    /\ program[i] = "topkey"
    /\ GetMessageFails(i, "ended")
    /\ UNCHANGED topkeyVars

TopKeyStep(i) ==
    \/ SetWindowPos(i) \/ LockWorkStation(i) \/ Broadcast(i)
    \/ WindowTells(i) \/ Trim(i) \/ ShellExecute(i)
    \/ Exit(i) \/ TopKeyError(i)

WindowHangs ==
    /\ Act /\ ~hung /\ hung' = TRUE
    /\ UNCHANGED <<at, loop, desktop, presses, text, buf>>

-----------------------------------------------------------------------------
(* A terminal opens in the longest directory that the text of the window     *)
(* begins with, cut where a name ends, and in the profile if there is none:  *)
(* whatever the window in front tells when the hot key is handled.  (clean,  *)
(* src/topkey.cpp:92-113.)                                                   *)
Cuts(str) ==
    {n \in 1 .. Len(str) :
        /\ SubSeq(str, 1, n) \in Directories
        /\ \/ n = Len(str) \/ str[n + 1] \in Separator
           \/ \A c \in 1 .. n : str[c] \notin Separator}

TerminalOpensInDirectory ==
    \A i \in Instance : at[i] = "clean" /\ Cleaned(i) =>
        \/ Cuts(text[i]) = {} /\ Place(i) = <<"profile">>
        \/ \E n \in Cuts(text[i]) : /\ \A other \in Cuts(text[i]) : other <= n
                                     /\ Place(i) = SubSeq(text[i], 1, n)
=============================================================================
