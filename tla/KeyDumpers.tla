----------------------------- MODULE KeyDumpers -----------------------------
(* src/keydump.cpp and src/keytoputty.cpp: DirectInput puts what the         *)
(* keyboard does into a buffer and signals an event; the program waits for   *)
(* the event, takes what there is, and prints it or posts it to a window of  *)
(* PuTTY.  keydump has an event of its own, but all keytoputtys share one,   *)
(* since it has a name (src/keytoputty.cpp:96).                              *)
EXTENDS Integers, Sequences

CONSTANTS
    Dumper, Puttys,    \* instances of keydump and of keytoputty
    Stroke,            \* what the keyboard can do, with a key up or down
    Mapped,            \* the keys that keytoputty knows
    buffer_size,       \* how many strokes a device keeps
    MaxStrokes         \* how many there are

ASSUME KeyDumpersAssumption ==
    /\ Stroke \subseteq [dwOfs : STRING, dwData : BOOLEAN]
    /\ Puttys \subseteq Dumper
    /\ buffer_size \in Nat \ {0} /\ MaxStrokes \in Nat

VARIABLES
    dumperAt,          \* what each does next
    signalled,         \* the events that are signalled
    device,            \* the buffer of each device, oldest first
    buffer,            \* local: what has been taken out of it
    output,            \* what has been printed, or handed to PostMessage
    typed,             \* history: what the device has had room for
    strokes            \* bound

dumperVars == <<dumperAt, signalled, device, buffer, output, typed, strokes>>

(* CreateEvent: auto-reset, with a name or without one                       *)
Event(p) == IF p \in Puttys THEN "lol, dongs, boardjack" ELSE p

DumpersInit ==
    /\ dumperAt \in [Dumper -> {"off", "setup"}]
    /\ signalled = {}
    /\ device = [p \in Dumper |-> <<>>] /\ buffer = device
    /\ output = device /\ typed = device
    /\ strokes = 0

Then(p, step) == dumperAt' = [dumperAt EXCEPT ![p] = step]

(* Everything up to Acquire; whatever fails ends the program.                *)
Acquire(p) ==
    /\ dumperAt[p] = "setup"
    /\ Then(p, "wait") \/ Then(p, "failed")
    /\ UNCHANGED <<signalled, device, buffer, output, typed, strokes>>

Acquired(p) == dumperAt[p] \in {"wait", "read", "report"}

(* The driver: a device that is full keeps what it has.                      *)
KeyboardDoes(stroke) ==
    LET fits(p) == Acquired(p) /\ Len(device[p]) < buffer_size
        append(f) == [p \in Dumper |-> IF fits(p) THEN Append(f[p], stroke) ELSE f[p]]
    IN  /\ strokes < MaxStrokes /\ strokes' = strokes + 1
        /\ \E p \in Dumper : Acquired(p)
        /\ device' = append(device) /\ typed' = append(typed)
        /\ signalled' = signalled \cup {Event(p) : p \in {q \in Dumper : Acquired(q)}}
        /\ UNCHANGED <<dumperAt, buffer, output>>

(* The event is reset for whoever comes first.                               *)
WaitForSingleObject(p) ==
    /\ dumperAt[p] = "wait" /\ Event(p) \in signalled
    /\ signalled' = signalled \ {Event(p)}
    /\ Then(p, "read")
    /\ UNCHANGED <<device, buffer, output, typed, strokes>>

(* How many it takes, and what it leaves.  The mutants ask for one only, and *)
(* only look.                                                                *)
items_One(p) == IF device[p] = <<>> THEN 0 ELSE 1

items(p) == Len(device[p])

Left_Peek(p) == device[p]

Left(p) == SubSeq(device[p], items(p) + 1, Len(device[p]))

GetDeviceData(p) ==
    /\ dumperAt[p] = "read"
    /\ \/ /\ buffer' = [buffer EXCEPT ![p] = SubSeq(device[p], 1, items(p))]
          /\ device' = [device EXCEPT ![p] = Left(p)]
          /\ Then(p, "report")
       \/ Then(p, "failed") /\ UNCHANGED <<buffer, device>>
    /\ UNCHANGED <<signalled, output, typed, strokes>>

(* Keys that go down, and for keytoputty those it knows                      *)
Tells(p, stroke) == stroke.dwData /\ (p \in Puttys => stroke.dwOfs \in Mapped)

(* One turn of the for loop; more strokes may come meanwhile.  PostMessage   *)
(* may refuse a key, when the queue of PuTTY is full or its window is gone:  *)
(* keytoputty does not look (src/keytoputty.cpp:128), and the key is gone.   *)
Report(p) ==
    /\ dumperAt[p] = "report" /\ buffer[p] # <<>>
    /\ output' = [output EXCEPT ![p] = IF Tells(p, Head(buffer[p]))
                                       THEN Append(@, Head(buffer[p])) ELSE @]
    /\ buffer' = [buffer EXCEPT ![p] = Tail(@)]
    /\ UNCHANGED <<dumperAt, signalled, device, typed, strokes>>

Reported(p) ==
    /\ dumperAt[p] = "report" /\ buffer[p] = <<>>
    /\ Then(p, "wait")
    /\ UNCHANGED <<signalled, device, buffer, output, typed, strokes>>

DumperStep(p) ==
    \/ Acquire(p) \/ WaitForSingleObject(p) \/ GetDeviceData(p)
    \/ Report(p) \/ Reported(p)

DumpersNext ==
    \/ \E p \in Dumper : DumperStep(p)
    \/ \E stroke \in Stroke : KeyboardDoes(stroke)

DumpersSpec ==
    /\ DumpersInit /\ [][DumpersNext]_dumperVars
    /\ \A p \in Dumper : WF_dumperVars(DumperStep(p))

-----------------------------------------------------------------------------
(* How many strokes have left the program's hands                            *)
Dealt(p) == Len(typed[p]) - Len(buffer[p]) - Len(device[p])

(* Of the first n strokes of all those are told that are to be, each once,   *)
(* in their order: place[k] is where the k-th that was told is among them.   *)
InOrder(p, told, all, n) ==
    \E place \in [1 .. Len(told) -> 1 .. n] :
        /\ \A j, k \in 1 .. Len(told) : j < k => place[j] < place[k]
        /\ \A k \in 1 .. Len(told) : told[k] = all[place[k]]
        /\ \A m \in 1 .. n :
              Tells(p, all[m]) <=> \E k \in 1 .. Len(told) : place[k] = m

(* Each program tells the keys (it prints them, or calls PostMessage, which  *)
(* may refuse them) in the order in which they went down, each once, and     *)
(* leaves none out of those its device has had room for: what it has told    *)
(* comes from what was typed first, what it has in hand was typed next, and  *)
(* the rest waits in the device; all three together are no more than was     *)
(* typed.  (src/keydump.cpp:82-91, src/keytoputty.cpp:119-130.)              *)
KeysInOrder ==
    \A p \in Dumper :
        /\ Len(buffer[p]) + Len(device[p]) <= Len(typed[p])
        /\ InOrder(p, output[p], typed[p], Dealt(p))
        /\ \A k \in 1 .. Len(buffer[p]) : buffer[p][k] = typed[p][Dealt(p) + k]
        /\ \A k \in 1 .. Len(device[p]) :
              device[p][k] = typed[p][Dealt(p) + Len(buffer[p]) + k]

(* No key is left in a device although several strokes make one signal, and  *)
(* although more come while the last ones are read.  That needs an event of  *)
(* one's own: of two keytoputtys the one that wakes up may not be the one    *)
(* that has something to read, or neither may for the last of two signals.   *)
KeysArrive ==
    <>[]\A p \in Dumper :
          \/ \E q \in Dumper \ {p} : Event(q) = Event(p) /\ dumperAt[q] # "off"
          \/ dumperAt[p] \in {"off", "failed"}
          \/ dumperAt[p] = "wait" /\ device[p] = <<>>
=============================================================================
