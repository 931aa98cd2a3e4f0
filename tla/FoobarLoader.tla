---------------------------- MODULE FoobarLoader ----------------------------
(* src/foobar2000-loader.cpp: it starts foobar2000.exe as its debugger, has  *)
(* it load a library by a thread it creates there, and lets go of it when    *)
(* that thread has ended.  Debugger and program run in turns: an event stops *)
(* the program until it is continued, and while there is none the debugger   *)
(* sleeps.                                                                   *)
EXTENDS Integers

CONSTANTS
    MaxDebugEvents     \* debug events of foobar2000's own, and waits that fail

ASSUME FoobarLoaderAssumption == MaxDebugEvents \in Nat

VARIABLES
    loaderAt,          \* the next call of the loader
    loaderStatus,      \* how the loader has ended, if it has
    event,             \* the debug event that has not been continued yet
    mem,               \* the name of the library, in the memory of foobar2000
    thread,            \* the thread in foobar2000
    library,           \* did its LoadLibraryW find the library?
    foobar,            \* the program: dead (or not born), debugged or free
    caused             \* bound: those so far

loaderVars == <<loaderAt, loaderStatus, event, mem, thread, library, foobar, caused>>

debuggee == <<thread, library, foobar, caused>>

-----------------------------------------------------------------------------
LoaderInit ==
    /\ loaderAt = "start" /\ loaderStatus = "running" /\ event = "none"
    /\ mem = "none" /\ thread = "none" /\ library = "unknown"
    /\ foobar = "dead" /\ caused = 0

(* A debugger that ends takes its debuggee along.                            *)
LoaderEnds(how) ==
    /\ loaderAt' = "ended" /\ loaderStatus' = how
    /\ foobar' = IF foobar = "debugged" THEN "dead" ELSE foobar

(* A debuggee starts with an event.                                          *)
CreateProcess ==
    /\ loaderAt = "start"
    /\ \/ /\ foobar' = "debugged" /\ event' = "create_process" /\ loaderAt' = "wait"
          /\ UNCHANGED loaderStatus
       \/ LoaderEnds("error") /\ UNCHANGED event
    /\ UNCHANGED <<mem, thread, library, caused>>

(* The mutant forgets to continue the events that mean nothing to it.        *)
AfterEvent_Ignored == IF event = "create_process" THEN "alloc" ELSE "poll"

AfterEvent == IF event = "create_process" THEN "alloc" ELSE "continue"

WaitForDebugEvent ==
    /\ loaderAt = "wait" /\ event # "none"
    /\ loaderAt' = AfterEvent
    /\ UNCHANGED <<loaderStatus, event, mem, debuggee>>

(* It returns FALSE, with or without an event: nothing is continued, but the *)
(* thread is looked at.  That it fails for ever is left out.                 *)
WaitForDebugEventFails ==
    /\ loaderAt = "wait" /\ caused < MaxDebugEvents
    /\ caused' = caused + 1
    /\ loaderAt' = "poll"
    /\ UNCHANGED <<loaderStatus, event, mem, thread, library, foobar>>

(* VirtualAllocEx and WriteProcessMemory                                     *)
AllocAndWrite ==
    /\ loaderAt = "alloc"
    /\ \/ mem' = "used" /\ loaderAt' = "create_thread" /\ UNCHANGED <<loaderStatus, foobar>>
       \/ LoaderEnds("error") /\ mem' \in {"none", "used"}
    /\ UNCHANGED <<event, thread, library, caused>>

CreateRemoteThread ==
    /\ loaderAt = "create_thread"
    /\ \/ thread' = "loading" /\ loaderAt' = "continue" /\ UNCHANGED <<loaderStatus, foobar>>
       \/ LoaderEnds("error") /\ UNCHANGED thread
    /\ UNCHANGED <<event, mem, library, caused>>

ContinueDebugEvent ==
    /\ loaderAt = "continue"
    /\ \/ event' = "none" /\ loaderAt' = "poll" /\ UNCHANGED <<loaderStatus, foobar>>
       \/ LoaderEnds("error") /\ UNCHANGED event
    /\ UNCHANGED <<mem, thread, library, caused>>

(* WaitForSingleObject(thread, 0).  Without a thread, or with one that has   *)
(* not ended, it is back to waiting for an event.  The mutant takes the      *)
(* thread for ended.                                                         *)
ThreadEnded_Unasked == thread # "none"

ThreadEnded == thread = "ended"

PollThread ==
    /\ loaderAt = "poll"
    /\ loaderAt' = IF ThreadEnded THEN "exit_code" ELSE "wait"
    /\ UNCHANGED <<loaderStatus, event, mem, debuggee>>

(* LoadLibraryW returns a handle, which is not 0, or 0 if it failed; but the *)
(* code takes what is not 0 for an error.                                    *)
TakenForFailure == library = "loaded"

GetExitCodeThread ==
    /\ loaderAt = "exit_code"
    /\ \/ /\ TakenForFailure
          /\ LoaderEnds("failed")
       \/ /\ ~TakenForFailure
          /\ loaderAt' = "free"
          /\ UNCHANGED <<loaderStatus, foobar>>
       \/ LoaderEnds("error")
    /\ UNCHANGED <<event, mem, thread, library, caused>>

(* CloseHandle and VirtualFreeEx                                             *)
VirtualFreeEx ==
    /\ loaderAt = "free"
    /\ mem' = "freed" /\ loaderAt' = "stop_debugging"
    /\ UNCHANGED <<loaderStatus, event, debuggee>>

stopDebugging ==
    /\ loaderAt = "stop_debugging"
    /\ \/ /\ foobar = "debugged"
          /\ foobar' = "free" /\ loaderAt' = "ended" /\ loaderStatus' = "success"
       \/ LoaderEnds("error")
    /\ UNCHANGED <<event, mem, thread, library, caused>>

-----------------------------------------------------------------------------
(* foobar2000 runs while there is no event to be continued.                  *)
FoobarRuns == event = "none" /\ foobar = "debugged"

(* The thread is in LoadLibraryW, which reads the name; loading is an event. *)
LibraryLoads ==
    /\ FoobarRuns /\ thread = "loading" /\ library = "unknown"
    /\ \/ library' = "loaded" /\ event' = "load_dll"
       \/ library' = "missing" /\ UNCHANGED event
    /\ UNCHANGED <<loaderAt, loaderStatus, mem, thread, foobar, caused>>

(* The end of the thread is an event, too, and only when that has been       *)
(* continued the thread can be seen to have ended, which takes a while.      *)
ThreadExits ==
    /\ FoobarRuns /\ thread = "loading" /\ library # "unknown"
    /\ thread' = "exiting" /\ event' = "exit_thread"
    /\ UNCHANGED <<loaderAt, loaderStatus, mem, library, foobar, caused>>

ThreadIsGone ==
    /\ FoobarRuns /\ thread = "exiting"
    /\ thread' = "ended"
    /\ UNCHANGED <<loaderAt, loaderStatus, event, mem, library, foobar, caused>>

(* A thread of its own, a library, an exception: all are events.             *)
OtherEvent ==
    /\ FoobarRuns /\ caused < MaxDebugEvents
    /\ caused' = caused + 1
    /\ event' = "other"
    /\ UNCHANGED <<loaderAt, loaderStatus, mem, thread, library, foobar>>

LoaderStep ==
    \/ CreateProcess \/ WaitForDebugEvent \/ AllocAndWrite \/ CreateRemoteThread
    \/ ContinueDebugEvent \/ PollThread \/ GetExitCodeThread \/ VirtualFreeEx
    \/ stopDebugging

DebuggeeStep == LibraryLoads \/ ThreadExits \/ ThreadIsGone

LoaderNext == LoaderStep \/ WaitForDebugEventFails \/ DebuggeeStep \/ OtherEvent

LoaderSpec ==
    /\ LoaderInit /\ [][LoaderNext]_loaderVars
    /\ WF_loaderVars(LoaderStep) /\ WF_loaderVars(DebuggeeStep)

-----------------------------------------------------------------------------
(* The name of the library stays in the memory of foobar2000 as long as      *)
(* LoadLibraryW may read it.  (src/foobar2000-loader.cpp:64 and 75.)         *)
NameOutlivesThread == mem = "freed" => thread = "ended"

(* foobar2000 is never left standing in an event, not even by a wait that    *)
(* fails now and then: it goes on, or the loader has ended (and it with it). *)
(* That the loader gets to see the end of the thread is not certain:         *)
(* src/foobar2000-loader.cpp:64 may look too early, and then it waits, for   *)
(* as long as it takes, for one more event.                                  *)
EventsAreContinued == event # "none" ~> (event = "none" \/ loaderAt = "ended")
=============================================================================
