--------------------------- MODULE DesktopProofs ---------------------------
(* What is proved of the tools for the desktop, which have nothing to do     *)
(* with each other: each part is about the specification of one module.      *)
EXTENDS HotKeyTools, PowerStatusTray, KeyDumpers, Mousex, LeapCmd, FoobarLoader,
        FiniteSetTheorems, WellFoundedInduction, TLAPS

-----------------------------------------------------------------------------
(* HotKeys: of each program with hot keys one instance runs, for any         *)
(* programs, instances, windows and users.                                   *)

Label == {"start", "register", "error", "loop", "spinning", "broadcast", "clean",
          "search", "ended"}

(* The type of what the proofs are about: who is where, and has which keys.  *)
HotKeysType ==
    /\ program \in Together
    /\ owner \in [Key -> Instance \cup {Nobody, Other}]
    /\ at \in [Instance -> Label]
    /\ registered \in [Instance -> Nat]
    /\ msgwnd \in [Instance -> BOOLEAN]

(* What an instance has registered are its first so many keys, and as long   *)
(* as it has its window they are its own; without a window it has none.      *)
HasItsKeys ==
    \A i \in Instance : msgwnd[i] =>
        \A n \in 1 .. registered[i] : owner[Wanted(i)[n]] = i

HasNoOthers ==
    \A i \in Instance : \A key \in Key : owner[key] = i =>
        /\ msgwnd[i]
        /\ \E n \in 1 .. registered[i] : key = Wanted(i)[n]

(* It is in its loop only with all of them.                                  *)
HowMany ==
    \A i \in Instance :
        /\ registered[i] <= Len(Wanted(i))
        /\ at[i] = "start" => registered[i] = 0 /\ ~msgwnd[i]
        /\ at[i] = "register" => registered[i] < Len(Wanted(i)) /\ msgwnd[i]
        /\ Running(i) => registered[i] = Len(Wanted(i))

HotKeysInv ==
    HotKeysType /\ HasItsKeys /\ HasNoOthers /\ HowMany /\ LoserHoldsNothing

(* Wanted(i) are the keys of a program, at least one, each once, and of no   *)
(* other program.                                                            *)
LEMMA WantedFacts ==
    ASSUME program \in Together, NEW i \in Instance
    PROVE  /\ Wanted(i) \in Seq(Key) /\ Len(Wanted(i)) \in Nat /\ Len(Wanted(i)) >= 1
           /\ \A n \in 1 .. Len(Wanted(i)) : Wanted(i)[n] \in Key
           /\ \A j \in Instance :
                 \A m \in 1 .. Len(Wanted(i)), n \in 1 .. Len(Wanted(j)) :
                    Wanted(i)[m] = Wanted(j)[n] => program[i] = program[j] /\ m = n
<1>1. \A j \in Instance : program[j] \in DOMAIN HotKeysOf
  BY HotKeysAssumption
<1>2. \A j \in Instance : Wanted(j) \in Seq(Key) /\ Wanted(j) # <<>>
  BY <1>1, HotKeysAssumption DEF Wanted
<1>3. /\ Wanted(i) \in Seq(Key) /\ Len(Wanted(i)) \in Nat /\ Len(Wanted(i)) >= 1
      /\ \A n \in 1 .. Len(Wanted(i)) : Wanted(i)[n] \in Key
  BY <1>2
<1>4. \A j \in Instance : DOMAIN Wanted(j) = 1 .. Len(Wanted(j))
  BY <1>2
<1>5. ASSUME NEW j \in Instance,
             NEW m \in 1 .. Len(Wanted(i)), NEW n \in 1 .. Len(Wanted(j)),
             Wanted(i)[m] = Wanted(j)[n]
      PROVE  program[i] = program[j] /\ m = n
  BY <1>1, <1>4, <1>5, HotKeysAssumption DEF Wanted
<1> QED
  BY <1>3, <1>5

(* Most steps move instances about in their loops, and touch no keys.        *)
LEMMA LoopKeepsKeys ==
    ASSUME HotKeysInv, UNCHANGED <<owner, registered, msgwnd, program>>,
           at' \in [Instance -> Label],
           \A i \in Instance : at'[i] # at[i] =>
               /\ at[i] \notin {"start", "register", "error", "ended"}
               /\ at'[i] \notin {"start", "register", "error"}
    PROVE  HotKeysInv'
<1> USE DEF HotKeysInv
<1>1. \A i \in Instance : Wanted(i)' = Wanted(i)
  BY DEF Wanted
<1>2. HotKeysType'
  BY DEF HotKeysType
<1>3. HasItsKeys' /\ HasNoOthers'
  BY <1>1 DEF HasItsKeys, HasNoOthers
<1>4. HowMany'
  BY <1>1 DEF HowMany, Running
<1>5. LoserHoldsNothing'
  BY <1>1 DEF LoserHoldsNothing
<1> QED
  BY <1>2, <1>3, <1>4, <1>5

(* DestroyWindow takes the keys of one instance and nobody else's.           *)
LEMMA DestroyKeepsKeys ==
    ASSUME HotKeysInv, NEW i \in Instance, DestroyWindow(i),
           UNCHANGED <<registered, program>>,
           at' = at \/ at' = [at EXCEPT ![i] = "ended"],
           at'[i] \notin {"start", "register", "error"}
    PROVE  HotKeysInv'
<1>1. /\ HotKeysType /\ HasItsKeys /\ HasNoOthers /\ HowMany /\ LoserHoldsNothing
      /\ \A j \in Instance : Wanted(j)' = Wanted(j)
      /\ registered' = registered /\ program' = program
  BY DEF HotKeysInv, Wanted
<1>2. /\ owner' = [k \in Key |-> IF owner[k] = i THEN Nobody ELSE owner[k]]
      /\ msgwnd' = [msgwnd EXCEPT ![i] = FALSE]
  BY DEF DestroyWindow
<1>3. \A key \in Key, j \in Instance \ {i} : owner'[key] = j <=> owner[key] = j
  BY <1>1, <1>2, HotKeysAssumption DEF HotKeysType
<1>4. \A key \in Key : owner'[key] # i /\ (owner[key] = Other => owner'[key] = Other)
  BY <1>1, <1>2, HotKeysAssumption DEF HotKeysType
<1>5. at' \in [Instance -> Label]
  BY <1>1 DEF HotKeysType, Label
<1>6. \A j \in Instance \ {i} : at'[j] = at[j] /\ msgwnd'[j] = msgwnd[j]
  BY <1>1, <1>2 DEF HotKeysType
<1>7. msgwnd'[i] = FALSE
  BY <1>1, <1>2 DEF HotKeysType
<1>8. \A j \in Instance : \A n \in 1 .. registered[j] : Wanted(j)[n] \in Key
  BY <1>1, WantedFacts DEF HowMany, HotKeysType
<1>9. HotKeysType'
  BY <1>1, <1>2, <1>5 DEF HotKeysType
<1>10. HasItsKeys'
  BY <1>1, <1>3, <1>6, <1>7, <1>8 DEF HasItsKeys
<1>11. HasNoOthers'
  <2> SUFFICES ASSUME NEW j \in Instance, NEW key \in Key, owner'[key] = j
               PROVE  msgwnd'[j] /\ \E n \in 1 .. registered[j] : key = Wanted(j)[n]
    BY <1>1 DEF HasNoOthers
  <2>1. j \in Instance \ {i} /\ owner[key] = j
    BY <1>3, <1>4
  <2> QED
    BY <1>1, <1>6, <2>1 DEF HasNoOthers
<1>12. HowMany'
  BY <1>1, <1>6, <1>7 DEF HowMany, Running
<1>13. LoserHoldsNothing'
  <2> SUFFICES ASSUME NEW j \in Instance, at'[j] = "error"
               PROVE  \/ \A key \in Key : owner'[key] # j
                      \/ \E n \in DOMAIN Wanted(j) : owner'[Wanted(j)[n]] = Other
    BY <1>1 DEF LoserHoldsNothing
  <2>1. j # i /\ at[j] = "error"
    BY <1>6
  <2>2. \A n \in DOMAIN Wanted(j) : Wanted(j)[n] \in Key
    BY <1>1, WantedFacts DEF HotKeysType
  <2>3. CASE \A key \in Key : owner[key] # j
    BY <1>3, <2>1, <2>3
  <2>4. CASE \E n \in DOMAIN Wanted(j) : owner[Wanted(j)[n]] = Other
    BY <1>4, <2>2, <2>4
  <2> QED
    BY <1>1, <2>1, <2>3, <2>4 DEF LoserHoldsNothing
<1> QED
  BY <1>9, <1>10, <1>11, <1>12, <1>13 DEF HotKeysInv

(* The next key is free and becomes the instance's, or is taken: by another  *)
(* program, or by one that must have had all keys before it, too.            *)
LEMMA RegisterKeepsKeys ==
    ASSUME HotKeysInv, NEW i \in Instance, RegisterHotKey(i)
    PROVE  HotKeysInv'
<1> DEFINE n == registered[i] + 1
           key == Wanted(i)[n]
<1>1. \A j \in Instance : Wanted(j)' = Wanted(j)
  BY DEF Wanted, RegisterHotKey, desktop
<1>2. /\ HotKeysType /\ HasItsKeys /\ HasNoOthers /\ HowMany /\ LoserHoldsNothing
      /\ program' = program /\ msgwnd' = msgwnd /\ at[i] = "register" /\ msgwnd[i]
  BY DEF HotKeysInv, RegisterHotKey, desktop, HowMany
<1>3. n \in 1 .. Len(Wanted(i)) /\ key \in Key
  BY <1>2, WantedFacts DEF HowMany, HotKeysType
<1>4. \A j \in Instance : \A m \in 1 .. registered[j] :
         m \in 1 .. Len(Wanted(j)) /\ Wanted(j)[m] \in Key
  BY <1>2, WantedFacts DEF HowMany, HotKeysType
<1>5. CASE /\ owner[key] = Nobody
           /\ owner' = [owner EXCEPT ![key] = i]
           /\ registered' = [registered EXCEPT ![i] = @ + 1]
           /\ Goto(i, IF registered'[i] = Len(Wanted(i)) THEN "loop" ELSE "register")
  <2>1. /\ \A k \in Key \ {key} : owner'[k] = owner[k]
        /\ owner'[key] = i
        /\ \A j \in Instance : j # Nobody
    BY <1>2, <1>3, <1>5, HotKeysAssumption DEF HotKeysType
  <2>2. /\ \A j \in Instance \ {i} : registered'[j] = registered[j] /\ at'[j] = at[j]
        /\ registered'[i] = n
        /\ at'[i] = IF n = Len(Wanted(i)) THEN "loop" ELSE "register"
    BY <1>2, <1>5 DEF HotKeysType, Goto, Label
  <2>3. HotKeysType'
    <3>1. owner' \in [Key -> Instance \cup {Nobody, Other}]
      BY <1>2, <1>5 DEF HotKeysType
    <3>2. registered' \in [Instance -> Nat]
      BY <1>2, <1>5 DEF HotKeysType
    <3>3. at' \in [Instance -> Label]
      BY <1>2, <1>5 DEF HotKeysType, Goto, Label
    <3> QED
      BY <1>2, <3>1, <3>2, <3>3 DEF HotKeysType
  <2>4. ASSUME NEW j \in Instance, msgwnd'[j], NEW m \in 1 .. registered'[j]
        PROVE  owner'[Wanted(j)[m]] = j
    <3>1. CASE j = i /\ m = n
      BY <3>1, <2>1
    <3>2. CASE m \in 1 .. registered[j]
      <4>1. owner[Wanted(j)[m]] = j
        BY <3>2, <1>2, <2>4 DEF HasItsKeys
      <4>2. Wanted(j)[m] \in Key /\ Wanted(j)[m] # key
        BY <3>2, <1>4, <4>1, <1>5, <2>1
      <4> QED
        BY <4>1, <4>2, <2>1
    <3> QED
      BY <3>1, <3>2, <2>2, <2>4, <1>2 DEF HotKeysType
  <2>5. HasItsKeys'
    BY <2>4, <1>1 DEF HasItsKeys
  <2>6. ASSUME NEW j \in Instance, NEW k \in Key, owner'[k] = j
        PROVE  msgwnd'[j] /\ \E m \in 1 .. registered'[j] : k = Wanted(j)[m]
    <3>1. CASE k = key
      <4>1. j = i /\ n \in 1 .. registered'[i] /\ k = Wanted(i)[n]
        BY <3>1, <2>1, <2>2, <2>6, <1>3
      <4> QED
        BY <4>1, <1>2
    <3>2. CASE k # key
      <4>1. msgwnd[j] /\ \E m \in 1 .. registered[j] : k = Wanted(j)[m]
        BY <3>2, <2>1, <2>6, <1>2 DEF HasNoOthers
      <4>2. \A m \in 1 .. registered[j] : m \in 1 .. registered'[j]
        BY <2>2, <1>2 DEF HotKeysType
      <4> QED
        BY <4>1, <4>2, <1>2
    <3> QED
      BY <3>1, <3>2
  <2>7. HasNoOthers'
    BY <2>6, <1>1 DEF HasNoOthers
  <2>8. HowMany'
    <3>1. ASSUME NEW j \in Instance, j # i
          PROVE  /\ registered'[j] <= Len(Wanted(j))
                 /\ at'[j] = "start" => registered'[j] = 0 /\ ~msgwnd'[j]
                 /\ at'[j] = "register" => registered'[j] < Len(Wanted(j)) /\ msgwnd'[j]
                 /\ Running(j)' => registered'[j] = Len(Wanted(j))
      BY <3>1, <2>2, <1>2 DEF HowMany, Running
    <3>2. /\ registered'[i] <= Len(Wanted(i))
          /\ at'[i] # "start"
          /\ at'[i] = "register" => registered'[i] < Len(Wanted(i)) /\ msgwnd'[i]
          /\ Running(i)' => registered'[i] = Len(Wanted(i))
      <4>1. n \in Nat /\ Len(Wanted(i)) \in Nat /\ n <= Len(Wanted(i))
        BY <1>2, <1>3, WantedFacts DEF HotKeysType
      <4> QED
        BY <4>1, <2>2, <1>2 DEF Running
    <3> QED
      BY <3>1, <3>2, <1>1 DEF HowMany
  <2>9. ASSUME NEW j \in Instance, at'[j] = "error"
        PROVE  \/ \A k \in Key : owner'[k] # j
               \/ \E m \in DOMAIN Wanted(j) : owner'[Wanted(j)[m]] = Other
    <3>1. j # i /\ at[j] = "error"
      BY <2>2, <2>9
    <3>2. DOMAIN Wanted(j) = 1 .. Len(Wanted(j))
      BY <1>2, WantedFacts DEF HotKeysType
    <3>3. CASE \A k \in Key : owner[k] # j
      BY <3>1, <3>3, <2>1
    <3>4. CASE \E m \in DOMAIN Wanted(j) : owner[Wanted(j)[m]] = Other
      <4>1. PICK m \in DOMAIN Wanted(j) : owner[Wanted(j)[m]] = Other
        BY <3>4
      <4>2. Wanted(j)[m] \in Key /\ Wanted(j)[m] # key
        BY <4>1, <3>2, <1>2, <1>5, WantedFacts, HotKeysAssumption DEF HotKeysType
      <4> QED
        BY <4>1, <4>2, <2>1
    <3> QED
      BY <3>1, <3>3, <3>4, <1>2 DEF LoserHoldsNothing
  <2>10. LoserHoldsNothing'
    BY <2>9, <1>1 DEF LoserHoldsNothing
  <2> QED
    BY <2>3, <2>5, <2>7, <2>8, <2>10 DEF HotKeysInv
<1>6. CASE /\ owner[key] # Nobody
           /\ Goto(i, "error")
           /\ UNCHANGED <<owner, registered>>
  <2>1. /\ at' = [at EXCEPT ![i] = "error"] /\ at'[i] = "error"
        /\ at' \in [Instance -> Label]
        /\ \A j \in Instance \ {i} : at'[j] = at[j]
    BY <1>2, <1>6 DEF HotKeysType, Goto, Label
  <2>2. HotKeysType' /\ HasItsKeys' /\ HasNoOthers'
    <3>1. HotKeysType'
      BY <1>2, <1>6, <2>1 DEF HotKeysType
    <3>2. HasItsKeys' /\ HasNoOthers'
      BY <1>1, <1>2, <1>6 DEF HasItsKeys, HasNoOthers
    <3> QED
      BY <3>1, <3>2
  <2>3. HowMany'
    BY <1>1, <1>2, <1>6, <2>1 DEF HowMany, Running, HotKeysType
  <2>4. ASSUME \/ \A k \in Key : owner[k] # i
               \/ \E m \in DOMAIN Wanted(i) : owner[Wanted(i)[m]] = Other
        PROVE  LoserHoldsNothing'
    <3> SUFFICES ASSUME NEW j \in Instance, at'[j] = "error"
                 PROVE  \/ \A k \in Key : owner[k] # j
                        \/ \E m \in DOMAIN Wanted(j) : owner[Wanted(j)[m]] = Other
      BY <1>1, <1>6 DEF LoserHoldsNothing
    <3>1. CASE j = i
      BY <3>1, <2>4
    <3>2. CASE j # i
      BY <3>2, <2>1, <1>2 DEF LoserHoldsNothing
    <3> QED
      BY <3>1, <3>2
  <2>5. ASSUME owner[key] = Other PROVE LoserHoldsNothing'
    <3>1. n \in DOMAIN Wanted(i)
      BY <1>2, <1>3, WantedFacts DEF HotKeysType
    <3> QED
      BY <2>5, <2>4, <3>1
  <2>6. ASSUME owner[key] \in Instance PROVE LoserHoldsNothing'
    <3>1. PICK j \in Instance : owner[key] = j
      BY <2>6
    <3>2. PICK m \in 1 .. registered[j] : key = Wanted(j)[m]
      BY <3>1, <1>2, <1>3 DEF HasNoOthers
    <3>3. program[i] = program[j] /\ m = n
      BY <3>2, <1>2, <1>3, <1>4, WantedFacts DEF HotKeysType
    <3>4. Wanted(j) = Wanted(i) /\ j # i
      BY <3>3, <3>2, <1>2 DEF Wanted, HotKeysType
    <3>5. registered[i] = 0
      <4> SUFFICES ASSUME registered[i] >= 1 PROVE FALSE
        BY <1>2 DEF HotKeysType
      <4>1. 1 \in 1 .. registered[i] /\ 1 \in 1 .. registered[j]
        BY <3>2, <1>2 DEF HotKeysType
      <4>2. owner[Wanted(i)[1]] = i
        BY <4>1, <1>2 DEF HasItsKeys
      <4>3. msgwnd[j]
        BY <3>1, <1>2, <1>3 DEF HasNoOthers
      <4>4. owner[Wanted(j)[1]] = j
        BY <4>1, <4>3, <1>2 DEF HasItsKeys
      <4> QED
        BY <4>2, <4>4, <3>4
    <3>6. \A k \in Key : owner[k] # i
      BY <3>5, <1>2 DEF HasNoOthers
    <3> QED
      BY <2>4, <3>6
  <2>7. owner[key] = Other \/ owner[key] \in Instance
    BY <1>2, <1>3, <1>6 DEF HotKeysType
  <2> QED
    BY <2>2, <2>3, <2>5, <2>6, <2>7 DEF HotKeysInv
<1> QED
  BY <1>5, <1>6 DEF RegisterHotKey

(* One step for each step of the tools: six change whose the keys are, and   *)
(* the rest goes round in the loops.                                         *)
LEMMA InstanceKeepsKeys ==
    ASSUME HotKeysInv, NEW i \in Instance, InstanceStep(i)
    PROVE  HotKeysInv'
<1> USE DEF Goto, loop, desktop, user, Done, Label
<1>1. at \in [Instance -> Label]
  BY DEF HotKeysInv, HotKeysType
<1>2. CASE CreateWindow(i)
  <2>1. \A j \in Instance : Wanted(j)' = Wanted(j)
    BY <1>2 DEF CreateWindow, Wanted
  <2>2. registered[i] = 0 /\ ~msgwnd[i]
    BY <1>2 DEF CreateWindow, HotKeysInv, HowMany
  <2>3. Len(Wanted(i)) >= 1 /\ Len(Wanted(i)) \in Nat
    BY WantedFacts DEF HotKeysInv, HotKeysType
  <2>4. /\ at'[i] \in {"register", "error"}
        /\ at'[i] = "register" => msgwnd'[i]
        /\ at' \in [Instance -> Label] /\ msgwnd' \in [Instance -> BOOLEAN]
        /\ \A j \in Instance \ {i} : at'[j] = at[j] /\ msgwnd'[j] = msgwnd[j]
        /\ UNCHANGED <<owner, registered, program>>
    BY <1>2 DEF CreateWindow, HotKeysInv, HotKeysType, Label
  <2>5. HotKeysType'
    BY <2>4 DEF HotKeysInv, HotKeysType
  <2>6. \A key \in Key : owner[key] # i
    BY <2>2 DEF HotKeysInv, HasNoOthers
  <2>7. HasItsKeys'
    BY <2>1, <2>2, <2>4 DEF HotKeysInv, HasItsKeys
  <2>8. HasNoOthers'
    BY <2>1, <2>4, <2>6 DEF HotKeysInv, HasNoOthers
  <2>9. HowMany'
    <3>1. ASSUME NEW j \in Instance, j # i
          PROVE  /\ registered'[j] <= Len(Wanted(j))
                 /\ at'[j] = "start" => registered'[j] = 0 /\ ~msgwnd'[j]
                 /\ at'[j] = "register" => registered'[j] < Len(Wanted(j)) /\ msgwnd'[j]
                 /\ Running(j)' => registered'[j] = Len(Wanted(j))
      BY <3>1, <2>4 DEF HotKeysInv, HowMany, Running
    <3>2. registered'[i] = 0 /\ ~Running(i)' /\ at'[i] # "start"
      BY <2>2, <2>4 DEF Running
    <3> QED
      BY <3>1, <3>2, <2>1, <2>3, <2>4 DEF HowMany
  <2>10. LoserHoldsNothing'
    BY <2>1, <2>4, <2>6 DEF HotKeysInv, LoserHoldsNothing
  <2> QED
    BY <2>5, <2>7, <2>8, <2>9, <2>10 DEF HotKeysInv
<1>3. CASE RegisterHotKey(i)
  BY <1>3, RegisterKeepsKeys
<1>4. CASE MessageBox(i)
  <2>1. CASE DestroyWindow(i) /\ Goto(i, "ended")
    BY <1>1, <1>4, <2>1, DestroyKeepsKeys DEF MessageBox
  <2>2. CASE UNCHANGED <<at, owner, msgwnd>>
    BY <1>1, <1>4, <2>2, LoopKeepsKeys DEF MessageBox
  <2> QED
    BY <1>4, <2>1, <2>2 DEF MessageBox
<1>5. CASE GetQuit(i)
  BY <1>1, <1>5, DestroyKeepsKeys DEF GetQuit
<1>6. CASE DispatchClose(i)
  BY <1>1, <1>6, DestroyKeepsKeys DEF DispatchClose, Gets
<1>7. CASE QuickKeyStep(i)
  BY <1>1, <1>7, LoopKeepsKeys
  DEF QuickKeyStep, Remember, Recall, GetsNothing, GetMessageFails, Handles, Gets
<1>8. CASE TopKeyStep(i)
  BY <1>1, <1>8, LoopKeepsKeys
  DEF TopKeyStep, SetWindowPos, LockWorkStation, Broadcast, WindowTells, Trim,
      ShellExecute, Exit, TopKeyError, Is, GetMessageFails, Handles, Gets
<1>9. CASE ShiftFocusStep(i)
  BY <1>1, <1>9, LoopKeepsKeys
  DEF ShiftFocusStep, GetWindowRect, SearchOn, SetForegroundWindow, OffMonitor,
      ShiftFocusError, GetMessageFails, Handles, Gets
<1> QED
  BY <1>2, <1>3, <1>4, <1>5, <1>6, <1>7, <1>8, <1>9 DEF InstanceStep, LoopStep

LEMMA UserKeepsKeys ==
    ASSUME HotKeysInv, UserStep \/ WindowHangs
    PROVE  HotKeysInv'
<1> USE DEF loop, desktop, user
<1>1. at \in [Instance -> Label]
  BY DEF HotKeysInv, HotKeysType
<1>2. ASSUME NEW i \in Instance, Dismiss(i) PROVE HotKeysInv'
  BY <1>1, <1>2, DestroyKeepsKeys DEF Dismiss, Goto
<1>3. ASSUME NEW i \in Instance, PostClose(i) PROVE HotKeysInv'
  BY <1>1, <1>3, LoopKeepsKeys DEF PostClose
<1>4. ASSUME NEW key \in Key, Press(key) PROVE HotKeysInv'
  BY <1>1, <1>4, LoopKeepsKeys DEF Press
<1>5. ASSUME NEW w \in Window, GoTo(w) \/ CloseWindow(w) PROVE HotKeysInv'
  BY <1>1, <1>5, LoopKeepsKeys DEF GoTo, CloseWindow
<1>6. CASE WindowHangs
  BY <1>1, <1>6, LoopKeepsKeys DEF WindowHangs
<1> QED
  BY <1>2, <1>3, <1>4, <1>5, <1>6 DEF UserStep

LEMMA HotKeysInductive == HotKeyToolsSpec => []HotKeysInv
<1>1. HotKeyToolsInit => HotKeysInv
  <2> SUFFICES ASSUME HotKeysInit PROVE HotKeysInv
    BY DEF HotKeyToolsInit
  <2>1. /\ program \in Together
        /\ at = [i \in Instance |-> "start"]
        /\ registered = [i \in Instance |-> 0]
        /\ msgwnd = [i \in Instance |-> FALSE]
        /\ owner \in [Key -> {Nobody, Other}]
    BY DEF HotKeysInit
  <2>2. HotKeysType
    BY <2>1 DEF HotKeysType, Label
  <2>3. HasItsKeys /\ HasNoOthers /\ LoserHoldsNothing
    BY <2>1, HotKeysAssumption DEF HasItsKeys, HasNoOthers, LoserHoldsNothing
  <2>4. HowMany
    BY <2>1, WantedFacts DEF HowMany, Running
  <2> QED
    BY <2>2, <2>3, <2>4 DEF HotKeysInv
<1>2. HotKeysInv /\ [HotKeyToolsNext]_toolVars => HotKeysInv'
  <2> SUFFICES ASSUME HotKeysInv, [HotKeyToolsNext]_toolVars PROVE HotKeysInv'
    OBVIOUS
  <2>1. CASE UNCHANGED toolVars
    <3>1. at \in [Instance -> Label] /\ at' = at
      BY <2>1 DEF HotKeysInv, HotKeysType, toolVars, hkVars
    <3> QED
      BY <2>1, <3>1, LoopKeepsKeys DEF toolVars, hkVars, loop, desktop
  <2> QED
    BY <2>1, InstanceKeepsKeys, UserKeepsKeys DEF HotKeyToolsNext
<1> QED
  BY <1>1, <1>2, PTL DEF HotKeyToolsSpec

-----------------------------------------------------------------------------
(* A program never runs twice, though the check is only that a hot key       *)
(* cannot be registered twice: two in their loops would both own the first   *)
(* key.  (src/quickkey.cpp:31-33, src/topkey.cpp:120-128.)                   *)
THEOREM NeverTwice == HotKeyToolsSpec => []OneInstance
<1>1. HotKeysInv => OneInstance
  <2> SUFFICES ASSUME HotKeysInv, NEW i \in Instance, NEW j \in Instance,
                      program[i] = program[j], Running(i), Running(j)
               PROVE  i = j
    BY DEF OneInstance
  <2>1. 1 \in 1 .. registered[i] /\ 1 \in 1 .. registered[j]
    BY WantedFacts DEF HotKeysInv, HotKeysType, HowMany
  <2>2. owner[Wanted(i)[1]] = i /\ owner[Wanted(j)[1]] = j
    BY <2>1 DEF HotKeysInv, HasItsKeys, Running
  <2>3. Wanted(i) = Wanted(j)
    BY DEF Wanted
  <2> QED
    BY <2>2, <2>3
<1> QED
  BY <1>1, HotKeysInductive, PTL

(* Of two that are started together one gets in: the other fails at the very *)
(* first key, not with some keys in its hands that the first one needs.      *)
THEOREM LoserSafe == HotKeyToolsSpec => []LoserHoldsNothing
<1>1. HotKeysInv => LoserHoldsNothing
  BY DEF HotKeysInv
<1> QED
  BY <1>1, HotKeysInductive, PTL

-----------------------------------------------------------------------------
(* QuickKey: the window that comes back is the one that was remembered.      *)

(* The messages in a queue are about hot keys the program has asked for.     *)
Message == [id : Nat, seen : Window \cup {NoWindow}]

QueueType ==
    /\ queue \in [Instance -> Seq(Message)]
    /\ \A i \in Instance : \A n \in 1 .. Len(queue[i]) :
          queue[i][n].id <= Len(Wanted(i))
    /\ windows \subseteq Window
    /\ foreground \in Window \cup {NoWindow}

(* Whoever broadcasts, cleans or searches has not done with its message.     *)
BusyHasMessage ==
    \A i \in Instance : at[i] \in {"broadcast", "clean", "search"} => queue[i] # <<>>

(* What was meant is what is remembered, though both are written later.      *)
KeyMap == [0 .. Len(QuickKeyHotKeys) -> Window \cup {NoWindow}]

MeantIsKept ==
    /\ keymap \in [Instance -> KeyMap]
    /\ meant \in [Instance -> KeyMap]
    /\ \A i \in Instance : \A n \in 0 .. Len(QuickKeyHotKeys) :
          meant[i][n] \in {keymap[i][n], NoWindow}

(* What the steps of the tools do to the queues.                             *)
QueueStays(i)   == queue' = queue
QueueLoses(i)   == queue[i] # <<>> /\ queue' = [queue EXCEPT ![i] = Tail(@)]
QueueIsGone(i)  == queue' = [queue EXCEPT ![i] = <<>>]
QueueGets(i, m) == queue' = [queue EXCEPT ![i] = Append(@, m)]

LEMMA HeadIsMessage ==
    ASSUME QueueType, NEW i \in Instance, queue[i] # <<>>
    PROVE  Head(queue[i]) \in Message /\ Head(queue[i]).id <= Len(Wanted(i))
<1>1. queue[i] \in Seq(Message)
  BY DEF QueueType
<1>2. Len(queue[i]) \in Nat /\ 1 \in 1 .. Len(queue[i])
  BY <1>1
<1>3. Head(queue[i]) = queue[i][1] /\ queue[i][1] \in Message
  BY <1>1, <1>2
<1> QED
  BY <1>2, <1>3 DEF QueueType

LEMMA QueueStep ==
    ASSUME QueueType, UNCHANGED program, NEW i \in Instance,
           windows' \subseteq Window, foreground' \in Window \cup {NoWindow},
           \/ QueueStays(i) \/ QueueLoses(i) \/ QueueIsGone(i)
           \/ \E m \in Message : m.id <= Len(Wanted(i)) /\ QueueGets(i, m)
    PROVE  QueueType'
<1> DEFINE q == queue[i]
<1>1. /\ queue \in [Instance -> Seq(Message)] /\ q \in Seq(Message)
      /\ \A j \in Instance : \A n \in 1 .. Len(queue[j]) :
            queue[j][n].id <= Len(Wanted(j))
  BY DEF QueueType
<1>2. \A j \in Instance : Wanted(j)' = Wanted(j)
  BY DEF Wanted
<1>3. CASE QueueStays(i)
  BY <1>1, <1>2, <1>3 DEF QueueType, QueueStays
<1>4. ASSUME NEW new \in Seq(Message), queue' = [queue EXCEPT ![i] = new],
             \A n \in 1 .. Len(new) : new[n].id <= Len(Wanted(i))
      PROVE  QueueType'
  <2>1. queue' \in [Instance -> Seq(Message)]
    BY <1>1, <1>4
  <2>2. ASSUME NEW j \in Instance, NEW n \in 1 .. Len(queue'[j])
        PROVE  queue'[j][n].id <= Len(Wanted(j))
    <3>1. CASE j = i
      BY <1>1, <1>4, <2>2, <3>1
    <3>2. CASE j # i
      BY <1>1, <1>4, <2>2, <3>2
    <3> QED
      BY <3>1, <3>2
  <2> QED
    BY <1>2, <2>1, <2>2 DEF QueueType
<1>5. CASE QueueLoses(i)
  <2>1. /\ Tail(q) \in Seq(Message)
        /\ \A n \in 1 .. Len(Tail(q)) : n + 1 \in 1 .. Len(q) /\ Tail(q)[n] = q[n + 1]
    BY <1>1, <1>5 DEF QueueLoses
  <2>2. \A n \in 1 .. Len(Tail(q)) : Tail(q)[n].id <= Len(Wanted(i))
    BY <1>1, <2>1
  <2> QED
    BY <1>4, <1>5, <2>1, <2>2 DEF QueueLoses
<1>6. CASE QueueIsGone(i)
  <2>1. <<>> \in Seq(Message) /\ \A n \in 1 .. Len(<<>>) : FALSE
    OBVIOUS
  <2> QED
    BY <1>4, <1>6, <2>1 DEF QueueIsGone
<1>7. ASSUME NEW m \in Message, m.id <= Len(Wanted(i)), QueueGets(i, m)
      PROVE  QueueType'
  <2> DEFINE new == Append(q, m)
  <2>1. /\ new \in Seq(Message) /\ Len(q) \in Nat
        /\ Len(new) = Len(q) + 1 /\ new[Len(q) + 1] = m
        /\ \A n \in 1 .. Len(q) : new[n] = q[n]
    BY <1>1
  <2>2. \A n \in 1 .. Len(new) : n \in 1 .. Len(q) \/ n = Len(q) + 1
    BY <2>1
  <2> HIDE DEF new
  <2>3. \A n \in 1 .. Len(new) : new[n].id <= Len(Wanted(i))
    BY <1>1, <1>7, <2>1, <2>2
  <2>4. queue' = [queue EXCEPT ![i] = new]
    BY <1>7 DEF QueueGets, new
  <2> QED
    BY <1>4, <2>1, <2>3, <2>4
<1> QED
  BY <1>3, <1>5, <1>6, <1>7

(* The new slot and the window that was meant for it are written together.   *)
LEMMA MeantStep ==
    ASSUME MeantIsKept, QueueType, NEW i \in Instance, Remember(i)
    PROVE  MeantIsKept'
<1> DEFINE n == Head(queue[i]).id - 1
           w == IF foreground = Head(queue[i]).seen THEN foreground ELSE NoWindow
<1>1. /\ keymap' = [keymap EXCEPT ![i][n] = foreground]
      /\ meant' = [meant EXCEPT ![i][n] = w]
      /\ foreground \in Window \cup {NoWindow}
      /\ w \in {foreground, NoWindow}
  BY DEF Remember, Slot, QueueType
<1> HIDE DEF n, w
<1>2. /\ keymap' \in [Instance -> KeyMap]
      /\ meant' \in [Instance -> KeyMap]
  BY <1>1 DEF MeantIsKept, KeyMap
<1>3. ASSUME NEW j \in Instance, NEW m \in 0 .. Len(QuickKeyHotKeys)
      PROVE  meant'[j][m] \in {keymap'[j][m], NoWindow}
  <2>1. CASE j = i /\ m = n
    BY <1>1, <2>1 DEF MeantIsKept, KeyMap
  <2>2. CASE ~(j = i /\ m = n)
    <3>1. keymap'[j][m] = keymap[j][m] /\ meant'[j][m] = meant[j][m]
      BY <1>1, <2>2 DEF MeantIsKept, KeyMap
    <3> QED
      BY <3>1 DEF MeantIsKept
  <2> QED
    BY <2>1, <2>2
<1> QED
  BY <1>2, <1>3 DEF MeantIsKept

QuickKeyInv == QueueType /\ BusyHasMessage /\ MeantIsKept

LEMMA BusyStep ==
    ASSUME BusyHasMessage, QueueType, at \in [Instance -> Label], NEW i \in Instance,
           \A j \in Instance \ {i} : at'[j] = at[j] /\ queue'[j] = queue[j],
           at'[i] \in {"broadcast", "clean", "search"} => queue'[i] # <<>>
    PROVE  BusyHasMessage'
BY DEF BusyHasMessage

(* One instance moves on, and does with its messages what it may.            *)
LEMMA QuickKeyStays ==
    ASSUME QuickKeyInv, HotKeysType, NEW i \in Instance, UNCHANGED program,
           windows' \subseteq Window, foreground' \in Window \cup {NoWindow},
           \/ QueueStays(i) \/ QueueLoses(i) \/ QueueIsGone(i)
           \/ \E m \in Message : m.id <= Len(Wanted(i)) /\ QueueGets(i, m),
           at' = at \/ \E step \in Label : at' = [at EXCEPT ![i] = step],
           at'[i] \in {"broadcast", "clean", "search"} => queue'[i] # <<>>
    PROVE  QueueType' /\ BusyHasMessage'
<1>1. QueueType'
  BY QueueStep DEF QuickKeyInv
<1>2. \A j \in Instance \ {i} : at'[j] = at[j]
  BY DEF HotKeysType
<1>3. \A j \in Instance \ {i} : queue'[j] = queue[j]
  BY DEF QuickKeyInv, QueueType, QueueStays, QueueLoses, QueueIsGone, QueueGets
<1>4. BusyHasMessage'
  BY <1>2, <1>3, BusyStep DEF QuickKeyInv, HotKeysType
<1> QED
  BY <1>1, <1>4

LEMMA InstanceKeepsMeant ==
    ASSUME QuickKeyInv, HotKeysType, NEW i \in Instance, InstanceStep(i)
    PROVE  QuickKeyInv'
<1> DEFINE Moves ==
               /\ UNCHANGED program
               /\ windows' \subseteq Window /\ foreground' \in Window \cup {NoWindow}
               /\ QueueStays(i) \/ QueueLoses(i) \/ QueueIsGone(i)
               /\ at' = at \/ \E step \in Label : at' = [at EXCEPT ![i] = step]
               /\ at'[i] \in {"broadcast", "clean", "search"} => queue'[i] # <<>>
<1>1. /\ windows \subseteq Window /\ foreground \in Window \cup {NoWindow}
      /\ at \in [Instance -> Label]
      /\ at[i] \in {"broadcast", "clean", "search"} => queue[i] # <<>>
  BY DEF QuickKeyInv, QueueType, HotKeysType, BusyHasMessage
<1>2. ASSUME Moves PROVE QueueType' /\ BusyHasMessage'
  BY <1>2, QuickKeyStays
<1> USE <1>1
        DEF loop, desktop, user, Goto, Label, QueueStays, QueueLoses, QueueIsGone
<1>3. ASSUME LoopStep(i) PROVE Moves
  <2> USE DEF DestroyWindow
  <2>1. ASSUME CreateWindow(i) PROVE Moves
    BY <2>1 DEF CreateWindow
  <2>2. ASSUME RegisterHotKey(i) PROVE Moves
    BY <2>2 DEF RegisterHotKey
  <2>3. ASSUME MessageBox(i) PROVE Moves
    BY <2>3 DEF MessageBox
  <2>4. ASSUME GetQuit(i) PROVE Moves
    BY <2>4 DEF GetQuit
  <2>5. ASSUME DispatchClose(i) PROVE Moves
    BY <2>5 DEF DispatchClose, Gets
  <2> QED
    BY <1>3, <2>1, <2>2, <2>3, <2>4, <2>5 DEF LoopStep
<1>4. ASSUME QuickKeyStep(i) PROVE Moves
  <2> USE DEF Handles, Gets, Done
  <2>1. ASSUME Remember(i) PROVE Moves
    BY <2>1 DEF Remember
  <2>2. ASSUME Recall(i) PROVE Moves
    BY <2>2 DEF Recall
  <2>3. ASSUME GetsNothing(i) PROVE Moves
    BY <2>3 DEF GetsNothing, GetMessageFails
  <2> QED
    BY <1>4, <2>1, <2>2, <2>3 DEF QuickKeyStep
<1>5. ASSUME TopKeyStep(i) PROVE Moves
  <2> USE DEF Is, Handles, Gets, Done
  <2>1. ASSUME SetWindowPos(i) \/ ShellExecute(i) \/ Exit(i) PROVE Moves
    BY <2>1 DEF SetWindowPos, ShellExecute, Exit
  <2>2. ASSUME LockWorkStation(i) PROVE Moves
    BY <2>2 DEF LockWorkStation
  <2>3. ASSUME Broadcast(i) PROVE Moves
    BY <2>3 DEF Broadcast
  <2>4. ASSUME TopKeyError(i) PROVE Moves
    BY <2>4 DEF TopKeyError, GetMessageFails
  <2>5. ASSUME WindowTells(i) \/ Trim(i) PROVE Moves
    BY <2>5 DEF WindowTells, Trim
  <2> QED
    BY <1>5, <2>1, <2>2, <2>3, <2>4, <2>5 DEF TopKeyStep
<1>6. ASSUME ShiftFocusStep(i) PROVE Moves
  <2> USE DEF Handles, Gets, Done
  <2>1. ASSUME GetWindowRect(i) PROVE Moves
    BY <2>1 DEF GetWindowRect
  <2>2. ASSUME SearchOn(i) PROVE Moves
    BY <2>2 DEF SearchOn
  <2>3. ASSUME SetForegroundWindow(i) PROVE Moves
    BY <2>3 DEF SetForegroundWindow
  <2>4. ASSUME OffMonitor(i) PROVE Moves
    BY <2>4 DEF OffMonitor
  <2>5. ASSUME ShiftFocusError(i) PROVE Moves
    BY <2>5 DEF ShiftFocusError, GetMessageFails
  <2> QED
    BY <1>6, <2>1, <2>2, <2>3, <2>4, <2>5 DEF ShiftFocusStep
<1> HIDE DEF Moves
<1>7. Moves
  BY <1>3, <1>4, <1>5, <1>6 DEF InstanceStep
<1>8. Remember(i) \/ UNCHANGED quickkeyVars
  BY DEF InstanceStep, QuickKeyStep, Recall, GetsNothing
<1>9. MeantIsKept'
  BY <1>8, MeantStep DEF QuickKeyInv, MeantIsKept, quickkeyVars
<1> QED
  BY <1>2, <1>7, <1>9 DEF QuickKeyInv

LEMMA UserKeepsMeant ==
    ASSUME QuickKeyInv, HotKeysInv, UserStep \/ WindowHangs,
           UNCHANGED quickkeyVars
    PROVE  QuickKeyInv'
<1> USE DEF loop, desktop, user
<1>1. /\ windows \subseteq Window /\ foreground \in Window \cup {NoWindow}
      /\ at \in [Instance -> Label]
      /\ \A i \in Instance : at[i] \in {"broadcast", "clean", "search"} => queue[i] # <<>>
      /\ queue \in [Instance -> Seq(Message)]
      /\ HotKeysType
  BY DEF QuickKeyInv, QueueType, HotKeysInv, HotKeysType, BusyHasMessage
<1>2. MeantIsKept'
  BY DEF QuickKeyInv, MeantIsKept, quickkeyVars
<1>3. ASSUME NEW i \in Instance, Dismiss(i) PROVE QueueType' /\ BusyHasMessage'
  <2>1. /\ QueueIsGone(i) /\ at' = [at EXCEPT ![i] = "ended"] /\ "ended" \in Label
        /\ at'[i] = "ended" /\ UNCHANGED <<program, windows, foreground>>
    BY <1>1, <1>3 DEF Dismiss, DestroyWindow, Goto, QueueIsGone, Label
  <2> QED
    BY <1>1, <2>1, QuickKeyStays
<1>4. ASSUME NEW i \in Instance, NEW m \in Message, m.id <= Len(Wanted(i)),
             QueueGets(i, m), UNCHANGED <<at, desktop>>
      PROVE  QueueType' /\ BusyHasMessage'
  <2>1. queue'[i] = Append(queue[i], m) /\ Append(queue[i], m) # <<>>
    <3>1. queue[i] \in Seq(Message)
      BY <1>1
    <3>2. Len(Append(queue[i], m)) = Len(queue[i]) + 1 /\ Len(queue[i]) \in Nat
      BY <3>1
    <3>3. Append(queue[i], m) # <<>>
      BY <3>2
    <3> QED
      BY <1>1, <1>4, <3>3 DEF QueueGets
  <2> QED
    BY <1>1, <1>4, <2>1, QuickKeyStays
<1>5. ASSUME NEW i \in Instance, PostClose(i) PROVE QueueType' /\ BusyHasMessage'
  <2>1. Close \in Message /\ Close.id <= Len(Wanted(i))
    BY <1>1, WantedFacts DEF Close, Message, HotKeysType
  <2> QED
    BY <1>4, <1>5, <2>1 DEF PostClose, QueueGets
<1>6. ASSUME NEW key \in Key, Press(key) PROVE QueueType' /\ BusyHasMessage'
  <2>0. PICK i \in Instance : \E id \in DOMAIN Wanted(i) :
            QueueGets(i, [id |-> id, seen |-> foreground])
    BY <1>6 DEF Press, QueueGets
  <2>1. PICK id \in DOMAIN Wanted(i) :
            QueueGets(i, [id |-> id, seen |-> foreground])
    BY <2>0
  <2>2. id \in 1 .. Len(Wanted(i)) /\ Len(Wanted(i)) \in Nat
    BY <1>1, WantedFacts DEF HotKeysType
  <2>3. [id |-> id, seen |-> foreground] \in Message
    BY <1>1, <2>2 DEF Message
  <2>4. [id |-> id, seen |-> foreground].id <= Len(Wanted(i))
    BY <2>2
  <2> QED
    BY <1>4, <1>6, <2>1, <2>3, <2>4 DEF Press
<1>7. ASSUME NEW i \in Instance, UNCHANGED <<at, queue, program>>,
             windows' \subseteq Window, foreground' \in Window \cup {NoWindow}
      PROVE  QueueType' /\ BusyHasMessage'
  BY <1>1, <1>7, QuickKeyStays DEF QueueStays
<1>8. ASSUME UNCHANGED <<at, queue, program>>,
             windows' \subseteq Window, foreground' \in Window \cup {NoWindow}
      PROVE  QueueType' /\ BusyHasMessage'
  <2>1. CASE Instance = {}
    BY <1>1, <1>8, <2>1 DEF QueueType, BusyHasMessage
  <2> QED
    BY <1>7, <1>8, <2>1
<1>9. ASSUME NEW w \in Window, GoTo(w) PROVE QueueType' /\ BusyHasMessage'
  BY <1>1, <1>8, <1>9 DEF GoTo
<1>10. ASSUME NEW w \in Window, CloseWindow(w) PROVE QueueType' /\ BusyHasMessage'
  BY <1>1, <1>8, <1>10 DEF CloseWindow
<1>11. CASE WindowHangs
  BY <1>1, <1>8, <1>2, <1>11 DEF WindowHangs, QuickKeyInv
<1> QED
  BY <1>2, <1>3, <1>5, <1>6, <1>9, <1>10, <1>11 DEF UserStep, QuickKeyInv

LEMMA QuickKeyInductive == HotKeyToolsSpec => []QuickKeyInv
<1>1. HotKeyToolsInit => QuickKeyInv
  <2> SUFFICES ASSUME HotKeysInit, QuickKeyInit PROVE QuickKeyInv
    BY DEF HotKeyToolsInit
  <2>1. <<>> \in Seq(Message) /\ \A n \in 1 .. Len(<<>>) : FALSE
    OBVIOUS
  <2>2. QueueType /\ BusyHasMessage
    BY <2>1 DEF HotKeysInit, QueueType, BusyHasMessage
  <2>3. MeantIsKept
    BY DEF QuickKeyInit, MeantIsKept, KeyMap
  <2> QED
    BY <2>2, <2>3 DEF QuickKeyInv
<1>2. QuickKeyInv /\ HotKeysInv /\ [HotKeyToolsNext]_toolVars => QuickKeyInv'
  <2> SUFFICES ASSUME QuickKeyInv, HotKeysInv, [HotKeyToolsNext]_toolVars
               PROVE  QuickKeyInv'
    OBVIOUS
  <2>1. HotKeysType
    BY DEF HotKeysInv
  <2>2. CASE UNCHANGED toolVars
    <3>1. UNCHANGED <<at, queue, program, windows, foreground, keymap, meant>>
      BY <2>2 DEF toolVars, hkVars, loop, desktop, quickkeyVars
    <3>2. QueueType'
      BY <3>1 DEF QuickKeyInv, QueueType, Wanted
    <3> QED
      BY <3>1, <3>2 DEF QuickKeyInv, BusyHasMessage, MeantIsKept
  <2>3. ASSUME NEW i \in Instance, InstanceStep(i) PROVE QuickKeyInv'
    BY <2>1, <2>3, InstanceKeepsMeant
  <2>4. CASE UserStep /\ UNCHANGED <<quickkeyVars, topkeyVars, shiftfocusVars>>
    BY <2>4, UserKeepsMeant
  <2>5. CASE WindowHangs /\ UNCHANGED <<quickkeyVars, shiftfocusVars>>
    BY <2>5, UserKeepsMeant
  <2> QED
    BY <2>2, <2>3, <2>4, <2>5 DEF HotKeyToolsNext
<1> QED
  BY <1>1, <1>2, HotKeysInductive, PTL DEF HotKeyToolsSpec

(* Only Recall takes the message of a hot key with WIN alone.                *)
LEMMA OnlyRecallTakes ==
    ASSUME QuickKeyInv, [HotKeyToolsNext]_toolVars, NEW i \in Instance,
           Handles(i, "quickkey"), HotKey(i) \in OnlyWin, queue'[i] = Tail(queue[i])
    PROVE  Recall(i)
<1>1. /\ at[i] = "loop" /\ queue[i] # <<>> /\ Head(queue[i]).id > 0
      /\ program[i] = "quickkey"
  BY DEF Handles, Gets
<1>2. queue \in [Instance -> Seq(Message)] /\ queue[i] \in Seq(Message)
  BY DEF QuickKeyInv, QueueType
<1>3. Len(Tail(queue[i])) = Len(queue[i]) - 1 /\ Len(queue[i]) \in Nat
  BY <1>1, <1>2
<1>4. queue'[i] # queue[i]
  <2> SUFFICES ASSUME Tail(queue[i]) = queue[i] PROVE FALSE
    OBVIOUS
  <2>1. Len(queue[i]) = Len(queue[i]) - 1 /\ Len(queue[i]) \in Nat
    BY <1>3
  <2> QED
    BY <2>1
<1>5. \A m : queue'[i] # Append(queue[i], m)
  <2> SUFFICES ASSUME NEW m, Tail(queue[i]) = Append(queue[i], m) PROVE FALSE
    OBVIOUS
  <2>1. Len(Append(queue[i], m)) = Len(queue[i]) + 1
    BY <1>2
  <2>2. Len(queue[i]) + 1 = Len(queue[i]) - 1 /\ Len(queue[i]) \in Nat
    BY <1>3, <2>1
  <2> QED
    BY <2>2
<1> USE DEF loop, desktop, user, DestroyWindow
<1>6. ~(UserStep \/ WindowHangs)
  <2>1. ASSUME NEW j \in Instance, Dismiss(j) PROVE FALSE
    BY <1>1, <1>2, <1>4, <2>1 DEF Dismiss
  <2>2. ASSUME NEW j \in Instance, PostClose(j) PROVE FALSE
    <3>1. queue' = [queue EXCEPT ![j] = Append(queue[j], Close)]
      BY <2>2 DEF PostClose
    <3> QED
      BY <1>2, <1>4, <1>5, <3>1
  <2>3. ASSUME NEW key \in Key, Press(key) PROVE FALSE
    <3>1. PICK j \in Instance : \E m : queue' = [queue EXCEPT ![j] = Append(@, m)]
      BY <2>3 DEF Press
    <3> QED
      BY <1>2, <1>4, <1>5, <3>1
  <2>4. ASSUME UNCHANGED queue PROVE FALSE
    BY <1>4, <2>4
  <2> QED
    BY <2>1, <2>2, <2>3, <2>4 DEF UserStep, GoTo, CloseWindow, WindowHangs
<1>7. ~UNCHANGED toolVars
  BY <1>4 DEF toolVars, hkVars
<1>8. ASSUME NEW j \in Instance, j # i, InstanceStep(j) PROVE FALSE
  <2>1. queue'[i] = queue[i]
    BY <1>2, <1>8
    DEF InstanceStep, LoopStep, CreateWindow, RegisterHotKey, MessageBox, GetQuit,
        DispatchClose, QuickKeyStep, Remember, Recall, GetsNothing, TopKeyStep,
        SetWindowPos, LockWorkStation, Broadcast, WindowTells, Trim, ShellExecute, Exit,
        TopKeyError,
        ShiftFocusStep, GetWindowRect, SearchOn, SetForegroundWindow, OffMonitor,
        ShiftFocusError, GetMessageFails, Done
  <2> QED
    BY <1>4, <2>1
<1>9. ASSUME InstanceStep(i) PROVE Recall(i)
  <2>1. ~LoopStep(i)
    BY <1>1, <1>4 DEF LoopStep, CreateWindow, RegisterHotKey, MessageBox, GetQuit,
                      DispatchClose
  <2>2. ~TopKeyStep(i)
    BY <1>1, <1>4 DEF TopKeyStep, SetWindowPos, LockWorkStation, Broadcast,
                      WindowTells, Trim, ShellExecute, Exit, TopKeyError, Is, Handles, GetMessageFails
  <2>3. ~ShiftFocusStep(i)
    BY <1>1, <1>4 DEF ShiftFocusStep, GetWindowRect, SearchOn, SetForegroundWindow,
                      OffMonitor, ShiftFocusError, Handles, GetMessageFails
  <2>4. QuickKeyStep(i)
    BY <1>9, <2>1, <2>2, <2>3 DEF InstanceStep
  <2> QED
    BY <1>4, <2>4 DEF QuickKeyStep, Remember, GetsNothing, GetMessageFails
<1> QED
  BY <1>6, <1>7, <1>8, <1>9 DEF HotKeyToolsNext

(* For any number of programs, windows and presses: the window that WIN with *)
(* a digit brings to the front is the one the user meant when he last had    *)
(* one remembered for that digit, or that one is closed by now.              *)
(* (src/quickkey.cpp:36-46.)                                                 *)
THEOREM WindowComesBack ==
    ASSUME "quickkey" \in DOMAIN HotKeysOf, HotKeysOf["quickkey"] = QuickKeyHotKeys
    PROVE  HotKeyToolsSpec => ComesBack
<1>1. QuickKeyInv /\ HotKeysInv /\ [HotKeyToolsNext]_toolVars =>
        [\A i \in Instance :
            (Handles(i, "quickkey") /\ HotKey(i) \in OnlyWin /\ queue'[i] = Tail(queue[i]))
              => (meant[i][Head(queue[i]).id] \in windows
                    => foreground' = meant[i][Head(queue[i]).id])
        ]_<<hkVars, quickkeyVars>>
  <2> SUFFICES ASSUME QuickKeyInv, HotKeysInv, [HotKeyToolsNext]_toolVars,
                      NEW i \in Instance, Handles(i, "quickkey"),
                      HotKey(i) \in OnlyWin, queue'[i] = Tail(queue[i]),
                      meant[i][Head(queue[i]).id] \in windows
               PROVE  foreground' = meant[i][Head(queue[i]).id]
    OBVIOUS
  <2> DEFINE id == Head(queue[i]).id
  <2>1. Recall(i)
    BY OnlyRecallTakes
  <2>2. queue[i] # <<>> /\ program[i] = "quickkey"
    BY DEF Handles, Gets
  <2>3. id \in Nat /\ id <= Len(Wanted(i))
    BY <2>2, HeadIsMessage DEF QuickKeyInv, Message
  <2>4. Wanted(i) = QuickKeyHotKeys
    BY <2>2 DEF Wanted
  <2>5. id \in 0 .. Len(QuickKeyHotKeys)
    BY <2>3, <2>4 DEF QuickKeyHotKeys
  <2>6. meant[i][id] # NoWindow
    BY HotKeysAssumption DEF QuickKeyInv, QueueType
  <2>7. meant[i][id] = keymap[i][id]
    BY <2>5, <2>6 DEF QuickKeyInv, MeantIsKept
  <2> QED
    BY <2>1, <2>7 DEF Recall
<1> QED
  BY <1>1, QuickKeyInductive, HotKeysInductive, PTL DEF HotKeyToolsSpec, ComesBack

-----------------------------------------------------------------------------
(* TopKey: the loop in clean ends with the longest directory there is.       *)

(* What is left is a beginning of what the window told, ends where a name    *)
(* ends, and no directory that comes into question is longer.                *)
MayEnd(str, m) ==
    /\ \A n \in Cuts(str) : n <= m
    /\ \/ m = Len(str) \/ str[m + 1] \in Separator
       \/ \A c \in 1 .. m : str[c] \notin Separator

CutSoFar ==
    /\ text \in [Instance -> Seq(STRING)] /\ buf \in [Instance -> Seq(STRING)]
    /\ \A i \in Instance : at[i] = "clean" =>
          \E m \in 0 .. Len(text[i]) :
              buf[i] = SubSeq(text[i], 1, m) /\ MayEnd(text[i], m)

LEMMA LeastNumber ==
    ASSUME NEW S \in SUBSET Nat, S # {}
    PROVE  \E n \in S : \A m \in S : n <= m
<1> DEFINE R == {ss \in Nat \X Nat : ss[1] < ss[2]}
<1>1. IsWellFoundedOn(R, Nat)
  BY NatLessThanWellFounded DEF OpToRel
<1>2. PICK n \in S : \A m \in S : ~ (<<m, n>> \in R)
  BY <1>1, WFMin
<1>3. \A m \in S : ~ (m < n)
  BY <1>2
<1> QED
  BY <1>3

LEMMA LastOfThem ==
    ASSUME NEW C, NEW str \in Seq(C), NEW chars
    PROVE  /\ wcsrchr(str, chars) \in 0 .. Len(str)
           /\ wcsrchr(str, chars) > 0 => str[wcsrchr(str, chars)] \in chars
           /\ \A later \in wcsrchr(str, chars) + 1 .. Len(str) : str[later] \notin chars
<1> DEFINE len == Len(str)
           S == {k \in Nat : k <= len /\ (k = len \/ str[len - k] \in chars)}
<1>1. len \in Nat /\ len \in S
  OBVIOUS
<1>2. PICK k \in S : \A m \in S : k <= m
  BY <1>1, LeastNumber
<1>3. \A later \in len - k + 1 .. len : str[later] \notin chars
  <2> SUFFICES ASSUME NEW later \in len - k + 1 .. len, str[later] \in chars PROVE FALSE
    OBVIOUS
  <2>1. len - later \in Nat /\ len - later < k /\ len - (len - later) = later
    BY <1>1
  <2>2. len - later \in S
    BY <1>1, <2>1
  <2> QED
    BY <1>2, <2>1, <2>2
<1>4. len - k \in 0 .. len /\ (len - k = 0 \/ str[len - k] \in chars)
  BY <1>1
<1>5. \E n \in 0 .. Len(str) :
          /\ n = 0 \/ str[n] \in chars
          /\ \A later \in n + 1 .. Len(str) : str[later] \notin chars
  BY <1>3, <1>4
<1> QED
  BY <1>5 DEF wcsrchr

(* Where a turn of the loop cuts.                                            *)
LEMMA CutFacts ==
    ASSUME NEW C, NEW str \in Seq(C), str # <<>>
    PROVE  \E m \in 0 .. Len(str) - 1 :
               /\ Cut(str) = SubSeq(str, 1, m)
               /\ \/ /\ str[m + 1] \in Separator
                     /\ \A later \in m + 2 .. Len(str) : str[later] \notin Separator
                  \/ /\ m = Length(str) - 1
                     /\ \A c \in 1 .. Len(str) : str[c] \notin Separator
<1> DEFINE backslash == {"\\"}
           blank == {" "}
           slash == wcsrchr(str, backslash)
           space == wcsrchr(str, blank)
           last == IF slash > space THEN slash ELSE space
<1>1. Len(str) \in Nat \ {0} /\ Length(str) \in 1 .. Len(str)
  BY TopKeyAssumption DEF Length
<1>2. Separator = backslash \cup blank
  BY Zenon DEF Separator
<1>3. Cut(str) = SubSeq(str, 1, (IF slash > 0 \/ space > 0 THEN last ELSE Length(str)) - 1)
  BY Zenon DEF Cut
<1> HIDE DEF backslash, blank
<1>4. /\ slash \in 0 .. Len(str) /\ (slash > 0 => str[slash] \in backslash)
      /\ \A later \in slash + 1 .. Len(str) : str[later] \notin backslash
      /\ space \in 0 .. Len(str) /\ (space > 0 => str[space] \in blank)
      /\ \A later \in space + 1 .. Len(str) : str[later] \notin blank
  BY LastOfThem
<1> HIDE DEF slash, space
<1>5. CASE slash > 0 \/ space > 0
  <2>1. /\ last \in 1 .. Len(str) /\ str[last] \in Separator
        /\ \A later \in last + 1 .. Len(str) : str[later] \notin Separator
    BY <1>1, <1>2, <1>4, <1>5
  <2> HIDE DEF last
  <2>2. last - 1 \in 0 .. Len(str) - 1 /\ (last - 1) + 1 = last /\ (last - 1) + 2 = last + 1
    BY <1>1, <2>1
  <2> QED
    BY <1>3, <1>5, <2>1, <2>2
<1>6. CASE ~(slash > 0 \/ space > 0)
  <2>1. \A c \in 1 .. Len(str) : str[c] \notin Separator
    BY <1>1, <1>2, <1>4, <1>6
  <2>2. Length(str) - 1 \in 0 .. Len(str) - 1
    BY <1>1
  <2> QED
    BY <1>3, <1>6, <2>1, <2>2
<1> QED
  BY <1>5, <1>6

LEMMA CutsOf ==
    ASSUME NEW C, NEW str \in Seq(C), NEW n
    PROVE  n \in Cuts(str) <=>
              /\ n \in 1 .. Len(str) /\ SubSeq(str, 1, n) \in Directories
              /\ \/ n = Len(str) \/ str[n + 1] \in Separator
                 \/ \A c \in 1 .. n : str[c] \notin Separator
BY DEF Cuts

(* It cuts off no directory.                                                 *)
LEMMA TrimStep ==
    ASSUME NEW C, NEW str \in Seq(C), NEW m \in 0 .. Len(str), MayEnd(str, m),
           NEW rest, rest = SubSeq(str, 1, m), rest # <<>>, rest \notin Directories
    PROVE  \E k \in 0 .. Len(str) : Cut(rest) = SubSeq(str, 1, k) /\ MayEnd(str, k)
<1>1. /\ rest \in Seq(C) /\ Len(rest) = m /\ m \in Nat \ {0} /\ Len(str) \in Nat
      /\ \A c \in 1 .. m : rest[c] = str[c]
  OBVIOUS
<1>2. PICK k \in 0 .. m - 1 :
               /\ Cut(rest) = SubSeq(rest, 1, k)
               /\ \/ /\ rest[k + 1] \in Separator
                     /\ \A later \in k + 2 .. m : rest[later] \notin Separator
                  \/ /\ k = Length(rest) - 1
                     /\ \A c \in 1 .. m : rest[c] \notin Separator
  BY <1>1, CutFacts
<1>3. SubSeq(rest, 1, k) = SubSeq(str, 1, k)
  BY <1>1
<1>4. ASSUME NEW n \in Cuts(str) PROVE n <= k
  <2>1. /\ n \in 1 .. Len(str) /\ SubSeq(str, 1, n) \in Directories
        /\ \/ n = Len(str) \/ str[n + 1] \in Separator
           \/ \A c \in 1 .. n : str[c] \notin Separator
    BY CutsOf
  <2>2. n <= m
    BY DEF MayEnd
  <2>3. n # m
    BY <2>1
  <2>4. n \in 1 .. m - 1
    BY <1>1, <2>1, <2>2, <2>3
  <2>5. CASE /\ rest[k + 1] \in Separator
             /\ \A later \in k + 2 .. m : rest[later] \notin Separator
    <3> SUFFICES ASSUME n > k PROVE FALSE
      BY <1>1, <2>4
    <3>1. n + 1 \in k + 2 .. m /\ k + 1 \in 1 .. n /\ n + 1 \in 1 .. m /\ k + 1 \in 1 .. m
      BY <1>1, <2>4
    <3>2. str[n + 1] \notin Separator /\ str[k + 1] \in Separator
      BY <1>1, <2>5, <3>1
    <3> QED
      BY <1>1, <2>1, <2>4, <3>1, <3>2
  <2>6. CASE k = Length(rest) - 1
    <3>1. Len(SubSeq(str, 1, n)) = n
      BY <1>1, <2>4
    <3>2. n < MAX_PATH /\ MAX_PATH \in Nat
      BY <2>1, <3>1, TopKeyAssumption
    <3> QED
      BY <1>1, <2>4, <2>6, <3>2 DEF Length
  <2> QED
    BY <1>2, <2>5, <2>6
<1>5. \/ str[k + 1] \in Separator
      \/ \A c \in 1 .. k : str[c] \notin Separator
  <2>1. k + 1 \in 1 .. m /\ \A c \in 1 .. k : c \in 1 .. m
    BY <1>1
  <2> QED
    BY <1>1, <1>2, <2>1
<1>6. k \in 0 .. Len(str)
  BY <1>1
<1> QED
  BY <1>2, <1>3, <1>4, <1>5, <1>6 DEF MayEnd

LEMMA CutSoFarHolds == HotKeyToolsInit => CutSoFar
<1> SUFFICES ASSUME HotKeyToolsInit PROVE CutSoFar
  OBVIOUS
<1>1. \A i \in Instance : at[i] = "start"
  BY DEF HotKeyToolsInit, HotKeysInit
<1>2. text \in [Instance -> Seq(STRING)] /\ buf \in [Instance -> Seq(STRING)]
  BY DEF HotKeyToolsInit, TopKeyInit
<1> QED
  BY <1>1, <1>2 DEF CutSoFar

(* The other steps do not touch an instance that is cleaning.                *)
LEMMA CutUntouched ==
    ASSUME CutSoFar, UNCHANGED <<text, buf>>,
           \A i \in Instance : at'[i] = "clean" => at[i] = "clean"
    PROVE  CutSoFar'
BY DEF CutSoFar

LEMMA CutStep ==
    ASSUME CutSoFar, at \in [Instance -> Label], NEW i \in Instance,
           WindowTells(i) \/ Trim(i) \/ ShellExecute(i)
    PROVE  CutSoFar'
<1>1. /\ text \in [Instance -> Seq(STRING)] /\ buf \in [Instance -> Seq(STRING)]
      /\ \A j \in Instance : at[j] = "clean" =>
            \E m \in 0 .. Len(text[j]) :
                buf[j] = SubSeq(text[j], 1, m) /\ MayEnd(text[j], m)
  BY DEF CutSoFar
<1>2. ASSUME NEW str \in Seq(STRING), NEW rest \in Seq(STRING),
             text' = [text EXCEPT ![i] = str], buf' = [buf EXCEPT ![i] = rest],
             \A j \in Instance \ {i} : at'[j] = at[j],
             at'[i] = "clean" => \E m \in 0 .. Len(str) :
                                     rest = SubSeq(str, 1, m) /\ MayEnd(str, m)
      PROVE  CutSoFar'
  <2>1. /\ text' \in [Instance -> Seq(STRING)] /\ buf' \in [Instance -> Seq(STRING)]
        /\ text'[i] = str /\ buf'[i] = rest
        /\ \A j \in Instance \ {i} : text'[j] = text[j] /\ buf'[j] = buf[j]
    BY <1>1, <1>2
  <2>2. ASSUME NEW j \in Instance, at'[j] = "clean"
        PROVE  \E m \in 0 .. Len(text'[j]) :
                   buf'[j] = SubSeq(text'[j], 1, m) /\ MayEnd(text'[j], m)
    <3>1. CASE j = i
      BY <1>2, <2>1, <2>2, <3>1
    <3>2. CASE j # i
      BY <1>1, <1>2, <2>1, <2>2, <3>2
    <3> QED
      BY <3>1, <3>2
  <2> QED
    BY <2>1, <2>2 DEF CutSoFar, MayEnd, Cuts
<1>3. CASE WindowTells(i)
  <2>1. PICK told \in Texts : /\ text' = [text EXCEPT ![i] = told]
                              /\ buf' = [buf EXCEPT ![i] = told]
    BY <1>3 DEF WindowTells
  <2>2. told \in Seq(STRING) /\ Len(told) \in Nat
    BY TopKeyAssumption
  <2>3. told = SubSeq(told, 1, Len(told)) /\ Len(told) \in 0 .. Len(told)
    BY <2>2
  <2>4. MayEnd(told, Len(told))
    BY <2>2 DEF MayEnd, Cuts
  <2>5. \A j \in Instance \ {i} : at'[j] = at[j]
    BY <1>3 DEF WindowTells, Goto
  <2> QED
    BY <1>2, <2>1, <2>2, <2>3, <2>4, <2>5
<1>4. CASE Trim(i)
  <2>1. /\ at[i] = "clean" /\ at' = at /\ text' = text
        /\ buf[i] # <<>> /\ buf[i] \notin Directories
        /\ buf' = [buf EXCEPT ![i] = Cut(buf[i])]
    BY <1>4 DEF Trim, Cleaned
  <2>2. text[i] \in Seq(STRING) /\ text' = [text EXCEPT ![i] = text[i]]
    BY <1>1, <2>1
  <2>3. PICK m \in 0 .. Len(text[i]) :
                buf[i] = SubSeq(text[i], 1, m) /\ MayEnd(text[i], m)
    BY <1>1, <2>1
  <2>4. PICK k \in 0 .. Len(text[i]) :
                Cut(buf[i]) = SubSeq(text[i], 1, k) /\ MayEnd(text[i], k)
    BY <2>1, <2>2, <2>3, TrimStep
  <2>5. Cut(buf[i]) \in Seq(STRING)
    BY <2>2, <2>4
  <2> QED
    BY <1>2, <2>1, <2>2, <2>4, <2>5
<1>5. CASE ShellExecute(i)
  <2>1. /\ text' = [text EXCEPT ![i] = <<>>] /\ buf' = [buf EXCEPT ![i] = <<>>]
        /\ at' = [at EXCEPT ![i] = "loop"] /\ at[i] = "clean"
    BY <1>5 DEF ShellExecute, Done, Goto
  <2>2. at'[i] = "loop" /\ \A j \in Instance \ {i} : at'[j] = at[j]
    BY <2>1
  <2>3. <<>> \in Seq(STRING)
    OBVIOUS
  <2> QED
    BY <1>2, <2>1, <2>2, <2>3
<1> QED
  BY <1>3, <1>4, <1>5

LEMMA ToolsKeepCut ==
    ASSUME CutSoFar, HotKeysType, [HotKeyToolsNext]_toolVars
    PROVE  CutSoFar'
<1> USE DEF loop, desktop, user, Goto
<1>1. at \in [Instance -> Label]
  BY DEF HotKeysType
<1>2. CASE UNCHANGED toolVars
  BY <1>2, CutUntouched DEF toolVars, hkVars, topkeyVars
<1>3. ASSUME NEW i \in Instance, LoopStep(i), UNCHANGED topkeyVars PROVE CutSoFar'
  <2>1. \A j \in Instance : at'[j] = "clean" => at[j] = "clean"
    BY <1>1, <1>3 DEF LoopStep, CreateWindow, RegisterHotKey, MessageBox, GetQuit,
                      DispatchClose, DestroyWindow
  <2> QED
    BY <1>3, <2>1, CutUntouched DEF topkeyVars
<1>4. ASSUME NEW i \in Instance, QuickKeyStep(i), UNCHANGED topkeyVars PROVE CutSoFar'
  <2>1. \A j \in Instance : at'[j] = "clean" => at[j] = "clean"
    BY <1>1, <1>4 DEF QuickKeyStep, Remember, Recall, GetsNothing, GetMessageFails, Done
  <2> QED
    BY <1>4, <2>1, CutUntouched DEF topkeyVars
<1>5. ASSUME NEW i \in Instance, TopKeyStep(i) PROVE CutSoFar'
  <2>1. CASE WindowTells(i) \/ Trim(i) \/ ShellExecute(i)
    BY <1>1, <2>1, CutStep
  <2>2. CASE SetWindowPos(i) \/ LockWorkStation(i) \/ Broadcast(i) \/ Exit(i) \/ TopKeyError(i)
    <3>1. /\ UNCHANGED topkeyVars
          /\ \A j \in Instance : at'[j] = "clean" => at[j] = "clean"
      BY <1>1, <2>2 DEF SetWindowPos, LockWorkStation, Broadcast, Exit, TopKeyError,
                        GetMessageFails, Done
    <3> QED
      BY <3>1, CutUntouched DEF topkeyVars
  <2> QED
    BY <1>5, <2>1, <2>2 DEF TopKeyStep
<1>6. ASSUME NEW i \in Instance, ShiftFocusStep(i), UNCHANGED topkeyVars PROVE CutSoFar'
  <2>1. \A j \in Instance : at'[j] = "clean" => at[j] = "clean"
    BY <1>1, <1>6 DEF ShiftFocusStep, GetWindowRect, SearchOn, SetForegroundWindow,
                      OffMonitor, ShiftFocusError, GetMessageFails, Done
  <2> QED
    BY <1>6, <2>1, CutUntouched DEF topkeyVars
<1>7. ASSUME (UserStep /\ UNCHANGED topkeyVars) \/ WindowHangs PROVE CutSoFar'
  <2>1. UNCHANGED <<text, buf>>
    BY <1>7 DEF topkeyVars, WindowHangs
  <2>2. \A j \in Instance : at'[j] = "clean" => at[j] = "clean"
    BY <1>1, <1>7 DEF UserStep, Dismiss, DestroyWindow, PostClose, Press, GoTo, CloseWindow,
                      WindowHangs
  <2> QED
    BY <2>1, <2>2, CutUntouched
<1> QED
  BY <1>2, <1>3, <1>4, <1>5, <1>6, <1>7 DEF HotKeyToolsNext, InstanceStep

(* topkey opens the terminal in the longest directory that the window's text *)
(* begins with, whatever it tells, however long, and whatever directories    *)
(* there are (clean, src/topkey.cpp:92-113).                                 *)
THEOREM TerminalSafe == HotKeyToolsSpec => []TerminalOpensInDirectory
<1>1. CutSoFar => TerminalOpensInDirectory
  <2> SUFFICES ASSUME CutSoFar, NEW i \in Instance, at[i] = "clean", Cleaned(i)
               PROVE  \/ Cuts(text[i]) = {} /\ Place(i) = <<"profile">>
                      \/ \E n \in Cuts(text[i]) :
                            /\ \A other \in Cuts(text[i]) : other <= n
                            /\ Place(i) = SubSeq(text[i], 1, n)
    BY DEF TerminalOpensInDirectory
  <2>1. text[i] \in Seq(STRING)
    BY DEF CutSoFar
  <2>2. PICK m \in 0 .. Len(text[i]) :
                buf[i] = SubSeq(text[i], 1, m) /\ MayEnd(text[i], m)
    BY DEF CutSoFar
  <2>3. Len(buf[i]) = m /\ Len(text[i]) \in Nat
    BY <2>1, <2>2
  <2>4. CASE buf[i] = <<>>
    <3>1. m = 0
      BY <2>3, <2>4
    <3>2. \A n \in Cuts(text[i]) : n <= 0 /\ n \in 1 .. Len(text[i])
      BY <2>2, <3>1 DEF MayEnd, Cuts
    <3>3. Cuts(text[i]) = {}
      BY <2>3, <3>2
    <3> QED
      BY <2>4, <3>3 DEF Place
  <2>5. CASE buf[i] # <<>>
    <3>1. buf[i] \in Directories /\ m # 0
      BY <2>1, <2>2, <2>3, <2>5 DEF Cleaned
    <3>2. m \in Cuts(text[i])
      <4>1. m \in 1 .. Len(text[i]) /\ SubSeq(text[i], 1, m) \in Directories
        BY <2>2, <2>3, <3>1
      <4>2. \/ m = Len(text[i]) \/ text[i][m + 1] \in Separator
            \/ \A c \in 1 .. m : text[i][c] \notin Separator
        BY <2>2 DEF MayEnd
      <4> QED
        BY <4>1, <4>2 DEF Cuts
    <3> QED
      BY <2>2, <2>5, <3>2 DEF Place, MayEnd
  <2> QED
    BY <2>4, <2>5
<1>2. HotKeysInv => HotKeysType
  BY DEF HotKeysInv
<1> QED
  BY <1>1, <1>2, CutSoFarHolds, ToolsKeepCut, HotKeysInductive, PTL DEF HotKeyToolsSpec

-----------------------------------------------------------------------------
(* PowerStatusTray: what the balloon says has been so.                       *)

Statuses == [on : SUBSET Drive, off : SUBSET Drive]

TrayType ==
    /\ drive \in [Drive -> DriveStatus]
    /\ lately \in [Drive -> SUBSET DriveStatus]
    /\ before \in [Drive -> SUBSET DriveStatus]
    /\ curr \in Statuses /\ previous \in Statuses /\ things \subseteq Drive
    /\ \A d \in Drive : drive[d] \in lately[d] /\ lately[d] \subseteq before[d]

(* A drive that is listed has had that status, one that is not has had       *)
(* another one: in the list that is being made since the look began, and in  *)
(* the one before since the look before.                                     *)
Listed(list, seen) ==
    \A d \in Drive : /\ d \in list.on => "on" \in seen[d]
                     /\ d \in list.off => "off" \in seen[d]

SinceListed(list, seen, asked) ==
    \A d \in asked : /\ d \notin list.on => \E s \in seen[d] : s # "on"
                     /\ d \notin list.off => \E s \in seen[d] : s # "off"

TrayInv ==
    /\ TrayType
    /\ Listed(curr, lately)
    /\ trayAt \in {"start", "poll"} => SinceListed(curr, lately, Drive \ things)
    /\ trayAt = "poll" => SinceListed(previous, before, Drive)
    /\ trayAt \notin {"start", "poll"} => SinceListed(previous, lately, Drive)

(* What has been seen is not forgotten until the next look begins.           *)
LEMMA SeenGrows ==
    ASSUME NEW list \in Statuses, NEW seen \in [Drive -> SUBSET DriveStatus],
           NEW more \in [Drive -> SUBSET DriveStatus],
           \A d \in Drive : seen[d] \subseteq more[d],
           NEW asked \in SUBSET Drive
    PROVE  /\ Listed(list, seen) => Listed(list, more)
           /\ SinceListed(list, seen, asked) => SinceListed(list, more, asked)
BY DEF Listed, SinceListed

(* A look begins with an empty list and no drive asked but those that are    *)
(* not there.                                                                *)
LEMMA LookBegins ==
    ASSUME TrayType, NEW why, getOnOff(why), TrayType',
           \A d \in Drive : drive[d] \in lately'[d]
    PROVE  Listed(curr, lately)' /\ SinceListed(curr, lately, Drive \ things)'
<1>1. curr'.on = {} /\ curr'.off = {}
  BY DEF getOnOff, Nothing
<1>2. \A d \in Drive \ things' : drive[d] = "none"
  BY DEF getOnOff
<1> QED
  BY <1>1, <1>2 DEF Listed, SinceListed

LEMMA AskedIsSeen ==
    ASSUME TrayInv, NEW d \in things,
           things' = things \ {d}, curr' = Inserted(d), lately' = lately
    PROVE  /\ curr' \in Statuses
           /\ Listed(curr, lately)'
           /\ SinceListed(curr, lately, Drive \ things) =>
                  SinceListed(curr, lately, Drive \ things)'
<1>1. /\ curr.on \subseteq Drive /\ curr.off \subseteq Drive
      /\ d \in Drive /\ drive[d] \in lately[d]
      /\ Listed(curr, lately)
  BY DEF TrayInv, TrayType, Statuses
<1>2. /\ curr'.on = IF drive[d] = "on" THEN curr.on \cup {d} ELSE curr.on
      /\ curr'.off = IF drive[d] = "off" THEN curr.off \cup {d} ELSE curr.off
  BY DEF Inserted
<1>3. curr' \in Statuses
  BY <1>1 DEF Inserted, Statuses
<1>4. Listed(curr, lately)'
  BY <1>1, <1>2 DEF Listed
<1>5. ASSUME SinceListed(curr, lately, Drive \ things), NEW e \in Drive \ things'
      PROVE  /\ e \notin curr'.on => \E s \in lately[e] : s # "on"
             /\ e \notin curr'.off => \E s \in lately[e] : s # "off"
  <2>1. CASE e = d
    BY <1>1, <1>2, <2>1
  <2>2. CASE e \in Drive \ things
    BY <1>2, <1>5, <2>2 DEF SinceListed
  <2> QED
    BY <1>5, <2>1, <2>2
<1> QED
  BY <1>3, <1>4, <1>5 DEF SinceListed

LEMMA TrayInvStep ==
    ASSUME TrayInv, [TrayNext]_trayVars
    PROVE  TrayInv'
<1> USE DEF trayEnvironment
<1>1. /\ TrayType /\ Listed(curr, lately)
      /\ trayAt \in {"start", "poll"} => SinceListed(curr, lately, Drive \ things)
      /\ trayAt = "poll" => SinceListed(previous, before, Drive)
      /\ trayAt \notin {"start", "poll"} => SinceListed(previous, lately, Drive)
      /\ Drive \ things \in SUBSET Drive /\ Drive \in SUBSET Drive
  BY DEF TrayInv
<1>2. CASE GetDevicePowerState
  <2>1. PICK d \in things : things' = things \ {d} /\ curr' = Inserted(d)
    BY <1>2 DEF GetDevicePowerState
  <2>2. UNCHANGED <<previous, trayAt, drive, lately, before>>
    BY <1>2 DEF GetDevicePowerState
  <2>3. /\ curr' \in Statuses
        /\ Listed(curr, lately)'
        /\ SinceListed(curr, lately, Drive \ things) =>
               SinceListed(curr, lately, Drive \ things)'
    BY <2>1, <2>2, AskedIsSeen
  <2>4. TrayType'
    BY <1>1, <2>1, <2>2, <2>3 DEF TrayType
  <2> QED
    BY <1>1, <2>2, <2>3, <2>4 DEF TrayInv
<1>3. CASE Initialised
  <2>1. /\ UNCHANGED <<drive, lately, before, curr, things>> /\ previous' = curr
        /\ trayAt = "start" /\ trayAt' = "idle" /\ things = {}
    BY <1>3 DEF Initialised, HasFound
  <2>2. TrayType'
    BY <1>1, <2>1 DEF TrayType
  <2>3. Drive \ things = Drive
    BY <2>1
  <2> QED
    BY <1>1, <2>1, <2>2, <2>3 DEF TrayInv
<1>4. CASE TellChange
  <2>1. /\ UNCHANGED <<drive, lately, before, curr, things>> /\ previous' = curr
        /\ trayAt = "poll" /\ trayAt' = "idle" /\ things = {}
    BY <1>4 DEF TellChange, HasFound, Differs, KeepFound
  <2>2. TrayType'
    BY <1>1, <2>1 DEF TrayType
  <2>3. Drive \ things = Drive
    BY <2>1
  <2> QED
    BY <1>1, <2>1, <2>2, <2>3 DEF TrayInv
<1>5. CASE TellStatus
  <2>1. /\ UNCHANGED <<drive, lately, before, curr, things, previous>>
        /\ trayAt = "click" /\ trayAt' = "idle"
    BY <1>5 DEF TellStatus, HasFound
  <2>2. TrayType'
    BY <1>1, <2>1 DEF TrayType
  <2> QED
    BY <1>1, <2>1, <2>2 DEF TrayInv
<1>6. CASE LeftClick
  <2>1. /\ UNCHANGED <<drive, lately, before, previous>> /\ getOnOff("click")
        /\ trayAt = "idle" /\ trayAt' = "click"
    BY <1>6 DEF LeftClick, getOnOff
  <2>2. things' \subseteq Drive /\ curr' \in Statuses
    BY <2>1 DEF getOnOff, Nothing, Statuses
  <2>3. TrayType'
    BY <1>1, <2>1, <2>2 DEF TrayType
  <2>4. \A d \in Drive : drive[d] \in lately'[d]
    BY <1>1, <2>1 DEF TrayType
  <2>5. Listed(curr, lately)'
    BY <1>1, <2>1, <2>3, <2>4, LookBegins
  <2> QED
    BY <1>1, <2>1, <2>3, <2>5 DEF TrayInv
<1>7. CASE GetTimer
  <2>1. /\ UNCHANGED <<drive, previous>> /\ getOnOff("poll")
        /\ trayAt = "idle" /\ trayAt' = "poll"
        /\ lately' = [d \in Drive |-> {drive[d]}] /\ before' = lately
    BY <1>7 DEF GetTimer, getOnOff
  <2>2. things' \subseteq Drive /\ curr' \in Statuses
    BY <2>1 DEF getOnOff, Nothing, Statuses
  <2>3. TrayType'
    BY <1>1, <2>1, <2>2 DEF TrayType
  <2>4. \A d \in Drive : drive[d] \in lately'[d]
    BY <2>1
  <2>5. Listed(curr, lately)' /\ SinceListed(curr, lately, Drive \ things)'
    BY <1>1, <2>1, <2>3, <2>4, LookBegins
  <2>6. SinceListed(previous, before, Drive)'
    BY <1>1, <2>1
  <2> QED
    BY <2>1, <2>3, <2>5, <2>6 DEF TrayInv
<1>8. CASE DriveChanges
  <2>1. PICK d \in Drive, s \in DriveStatus :
            /\ drive' = [drive EXCEPT ![d] = s]
            /\ lately' = [lately EXCEPT ![d] = @ \cup {s}]
            /\ before' = [before EXCEPT ![d] = @ \cup {s}]
    BY <1>8 DEF DriveChanges
  <2>2. UNCHANGED <<previous, trayAt, things, curr>>
    BY <1>8 DEF DriveChanges
  <2>3. TrayType'
    BY <1>1, <2>1, <2>2 DEF TrayType
  <2>4. /\ \A e \in Drive : lately[e] \subseteq lately'[e] /\ before[e] \subseteq before'[e]
        /\ lately \in [Drive -> SUBSET DriveStatus]
        /\ lately' \in [Drive -> SUBSET DriveStatus]
        /\ before \in [Drive -> SUBSET DriveStatus]
        /\ before' \in [Drive -> SUBSET DriveStatus]
        /\ curr \in Statuses /\ previous \in Statuses
    BY <1>1, <2>1, <2>3 DEF TrayType
  <2>5. /\ Listed(curr, lately')
        /\ SinceListed(curr, lately, Drive \ things) =>
               SinceListed(curr, lately', Drive \ things)
        /\ SinceListed(previous, lately, Drive) => SinceListed(previous, lately', Drive)
        /\ SinceListed(previous, before, Drive) => SinceListed(previous, before', Drive)
    BY <1>1, <2>4, SeenGrows
  <2> QED
    BY <1>1, <2>2, <2>3, <2>5 DEF TrayInv
<1>9. CASE UNCHANGED <<drive, previous, things, curr, lately, before>>
           /\ (trayAt' = trayAt \/ (trayAt' = "ended" /\ trayAt = "idle"))
  <2>1. TrayType'
    BY <1>1, <1>9 DEF TrayType
  <2> QED
    BY <1>1, <1>9, <2>1 DEF TrayInv
<1>10. ASSUME RightClick \/ TrayGetQuit \/ TrayTimerElapses \/ TrayClick
              \/ UNCHANGED trayVars
       PROVE  /\ UNCHANGED <<drive, previous, things, curr, lately, before>>
              /\ trayAt' = trayAt \/ (trayAt' = "ended" /\ trayAt = "idle")
  <2>1. CASE RightClick
    BY <2>1 DEF RightClick
  <2>2. CASE TrayGetQuit
    BY <2>2 DEF TrayGetQuit
  <2>3. CASE TrayTimerElapses
    BY <2>3 DEF TrayTimerElapses
  <2>4. CASE TrayClick
    BY <2>4 DEF TrayClick
  <2>5. CASE UNCHANGED trayVars
    BY <2>5 DEF trayVars
  <2> QED
    BY <1>10, <2>1, <2>2, <2>3, <2>4, <2>5
<1> QED
  BY <1>2, <1>3, <1>4, <1>5, <1>6, <1>7, <1>8, <1>9, <1>10 DEF TrayNext, TrayStep

LEMMA TrayInductive == TraySpec => []TrayInv
<1>1. TrayInit => TrayInv
  <2> SUFFICES ASSUME TrayInit PROVE TrayInv
    OBVIOUS
  <2>1. TrayType
    BY DEF TrayInit, TrayType, Statuses, Nothing
  <2>2. Listed(curr, lately)
    BY DEF TrayInit, Listed, Nothing
  <2>3. SinceListed(curr, lately, Drive \ things)
    BY DEF TrayInit, SinceListed
  <2> QED
    BY <2>1, <2>2, <2>3 DEF TrayInit, TrayInv
<1> QED
  BY <1>1, TrayInvStep, PTL DEF TraySpec

(* Two statuses of one drive are more than one.                              *)
LEMMA TwoStatuses ==
    ASSUME NEW S \in SUBSET DriveStatus, NEW s \in S, NEW t \in S, s # t
    PROVE  Cardinality(S) > 1
<1>1. IsFiniteSet({s}) /\ Cardinality({s}) = 1
  BY FS_Singleton
<1>2. IsFiniteSet({s} \cup {t}) /\ Cardinality({s} \cup {t}) = 1 + 1
  <2>1. t \notin {s}
    OBVIOUS
  <2> QED
    BY <1>1, <2>1, FS_AddElement, Zenon
<1>3. IsFiniteSet({"on"} \cup {"off"} \cup {"none"})
  <2>1. IsFiniteSet({"on"})
    BY FS_Singleton
  <2>2. IsFiniteSet({"on"} \cup {"off"})
    BY <2>1, FS_AddElement, Zenon
  <2> QED
    BY <2>2, FS_AddElement, Zenon
<1>4. DriveStatus = {"on"} \cup {"off"} \cup {"none"}
  BY DEF DriveStatus
<1>5. IsFiniteSet(S)
  BY <1>3, <1>4, FS_Subset
<1>6. Cardinality({s} \cup {t}) <= Cardinality(S)
  BY <1>5, FS_Subset
<1>7. Cardinality(S) \in Nat
  BY <1>5, FS_CardinalityType
<1> QED
  BY <1>2, <1>6, <1>7

(* Whatever the drives do while they are asked one after the other, and      *)
(* however many there are, a balloon tells of each what it has been since    *)
(* the look began, and a change only if there was one.                       *)
THEOREM NewsSafe == TraySpec => NewsIsTrue
<1> USE DEF trayEnvironment
<1>1. TrayInv /\ [TrayNext]_trayVars =>
        [balloon' # balloon =>
          /\ \A d \in balloon'.on : "on" \in lately[d]
          /\ \A d \in balloon'.off : "off" \in lately[d]
          /\ trayAt = "poll" =>
                \A d \in balloon'.on \cup balloon'.off : Cardinality(before[d]) > 1
        ]_trayVars
  <2> SUFFICES ASSUME TrayInv, [TrayNext]_trayVars, balloon' # balloon
               PROVE  /\ \A d \in balloon'.on : "on" \in lately[d]
                      /\ \A d \in balloon'.off : "off" \in lately[d]
                      /\ trayAt = "poll" => \A d \in balloon'.on \cup balloon'.off :
                                               Cardinality(before[d]) > 1
    OBVIOUS
  <2>1. /\ TrayType /\ Listed(curr, lately)
        /\ trayAt = "poll" => SinceListed(previous, before, Drive)
        /\ curr.on \subseteq Drive /\ curr.off \subseteq Drive
    BY DEF TrayInv, TrayType, Statuses
  <2>2. TellChange \/ TellStatus
    BY DEF TrayNext, TrayStep, GetDevicePowerState, Initialised, LeftClick, RightClick,
           TrayGetQuit, GetTimer, TrayTimerElapses, TrayClick, DriveChanges, trayVars
  <2>3. CASE TellStatus
    <3>1. balloon'.on = curr.on /\ balloon'.off = curr.off /\ trayAt = "click"
      BY <2>3 DEF TellStatus, HasFound
    <3> QED
      BY <2>1, <3>1 DEF Listed
  <2>4. CASE TellChange
    <3>1. /\ balloon'.on = curr.on \ previous.on
          /\ balloon'.off = curr.off \ previous.off
          /\ trayAt = "poll"
      <4>1. Differs
        BY <2>4 DEF TellChange
      <4>2. balloon' = [title |-> "Drive status change:",
                        on    |-> newItems(previous.on, curr.on),
                        off   |-> newItems(previous.off, curr.off)]
        BY <2>4, <4>1 DEF TellChange
      <4>3. trayAt = "poll"
        BY <2>4 DEF TellChange, HasFound
      <4> QED
        BY <4>2, <4>3 DEF newItems
    <3>2. ASSUME NEW d \in balloon'.on
          PROVE  "on" \in lately[d] /\ Cardinality(before[d]) > 1
      <4>1. d \in Drive /\ d \in curr.on /\ d \notin previous.on
        BY <2>1, <3>1, <3>2
      <4>2. "on" \in lately[d] /\ "on" \in before[d] /\ before[d] \in SUBSET DriveStatus
        BY <2>1, <4>1 DEF Listed, TrayType
      <4>3. PICK s \in before[d] : s # "on"
        BY <2>1, <3>1, <4>1 DEF SinceListed
      <4> QED
        BY <4>2, <4>3, TwoStatuses
    <3>3. ASSUME NEW d \in balloon'.off
          PROVE  "off" \in lately[d] /\ Cardinality(before[d]) > 1
      <4>1. d \in Drive /\ d \in curr.off /\ d \notin previous.off
        BY <2>1, <3>1, <3>3
      <4>2. "off" \in lately[d] /\ "off" \in before[d] /\ before[d] \in SUBSET DriveStatus
        BY <2>1, <4>1 DEF Listed, TrayType
      <4>3. PICK s \in before[d] : s # "off"
        BY <2>1, <3>1, <4>1 DEF SinceListed
      <4> QED
        BY <4>2, <4>3, TwoStatuses
    <3> QED
      BY <3>2, <3>3
  <2> QED
    BY <2>2, <2>3, <2>4
<1> QED
  BY <1>1, TrayInductive, PTL DEF TraySpec, NewsIsTrue

-----------------------------------------------------------------------------
(* KeyDumpers: every key once, and in order.                                 *)

DumpersType ==
    /\ device \in [Dumper -> Seq(Stroke)]
    /\ buffer \in [Dumper -> Seq(Stroke)]
    /\ output \in [Dumper -> Seq(Stroke)]
    /\ typed \in [Dumper -> Seq(Stroke)]
    /\ DOMAIN dumperAt = Dumper

(* Strokes are in hand only while they are being told.                       *)
HandsAreEmpty ==
    \A p \in Dumper : dumperAt[p] # "report" => buffer[p] = <<>>

(* What the next strokes are says nothing about the first n.                 *)
LEMMA InOrderStays ==
    ASSUME NEW p, NEW told, NEW all, NEW more, NEW n \in Nat,
           \A m \in 1 .. n : more[m] = all[m],
           InOrder(p, told, all, n)
    PROVE  InOrder(p, told, more, n)
<1>1. PICK place \in [1 .. Len(told) -> 1 .. n] :
        /\ \A j, k \in 1 .. Len(told) : j < k => place[j] < place[k]
        /\ \A k \in 1 .. Len(told) : told[k] = all[place[k]]
        /\ \A m \in 1 .. n :
              Tells(p, all[m]) <=> \E k \in 1 .. Len(told) : place[k] = m
  BY DEF InOrder
<1>2. \A k \in 1 .. Len(told) : told[k] = more[place[k]]
  BY <1>1
<1>3. \A m \in 1 .. n :
         Tells(p, more[m]) <=> \E k \in 1 .. Len(told) : place[k] = m
  BY <1>1
<1> QED
  BY <1>1, <1>2, <1>3 DEF InOrder

(* The next stroke is told, ...                                              *)
LEMMA InOrderTells ==
    ASSUME NEW p, NEW S, NEW told \in Seq(S), NEW all, NEW n \in Nat,
           all[n + 1] \in S, Tells(p, all[n + 1]), InOrder(p, told, all, n)
    PROVE  InOrder(p, Append(told, all[n + 1]), all, n + 1)
<1> DEFINE more == Append(told, all[n + 1])
           l == Len(told)
<1>1. PICK place \in [1 .. l -> 1 .. n] :
        /\ \A j, k \in 1 .. l : j < k => place[j] < place[k]
        /\ \A k \in 1 .. l : told[k] = all[place[k]]
        /\ \A m \in 1 .. n : Tells(p, all[m]) <=> \E k \in 1 .. l : place[k] = m
  BY DEF InOrder
<1>2. /\ l \in Nat /\ Len(more) = l + 1 /\ more[l + 1] = all[n + 1]
      /\ \A k \in 1 .. l : more[k] = told[k]
  OBVIOUS
<1> DEFINE next == [k \in 1 .. l + 1 |-> IF k = l + 1 THEN n + 1 ELSE place[k]]
<1>3. /\ next[l + 1] = n + 1
      /\ \A k \in 1 .. l : next[k] = place[k] /\ next[k] \in 1 .. n
      /\ next \in [1 .. l + 1 -> 1 .. n + 1]
  <2>1. next[l + 1] = n + 1
    BY <1>2
  <2>2. ASSUME NEW k \in 1 .. l PROVE next[k] = place[k] /\ next[k] \in 1 .. n
    <3>1. k \in 1 .. l + 1 /\ k # l + 1
      BY <1>2, <2>2
    <3>2. next[k] = place[k]
      BY <3>1
    <3> QED
      BY <1>1, <3>2
  <2>3. ASSUME NEW k \in 1 .. l + 1
        PROVE  (IF k = l + 1 THEN n + 1 ELSE place[k]) \in 1 .. n + 1
    <3>1. CASE k = l + 1
      BY <3>1
    <3>2. CASE k # l + 1
      <4>1. k \in 1 .. l
        BY <1>2, <3>2
      <4>2. place[k] \in 1 .. n
        BY <1>1, <4>1
      <4> QED
        BY <3>2, <4>2
    <3> QED
      BY <3>1, <3>2
  <2>4. next \in [1 .. l + 1 -> 1 .. n + 1]
    BY <2>3
  <2> QED
    BY <2>1, <2>2, <2>4
<1>4. \A k \in 1 .. l + 1 : k \in 1 .. l \/ k = l + 1
  BY <1>2
<1> HIDE DEF more, l, next
<1>5. ASSUME NEW j \in 1 .. l + 1, NEW k \in 1 .. l + 1, j < k
      PROVE  next[j] < next[k]
  <2>1. j \in 1 .. l
    BY <1>2, <1>5
  <2>2. CASE k = l + 1
    BY <1>3, <2>1, <2>2
  <2>3. CASE k \in 1 .. l
    BY <1>1, <1>3, <1>5, <2>1, <2>3
  <2> QED
    BY <1>4, <2>2, <2>3
<1>6. \A k \in 1 .. l + 1 : more[k] = all[next[k]]
  BY <1>1, <1>2, <1>3, <1>4
<1>7. ASSUME NEW m \in 1 .. n + 1
      PROVE  Tells(p, all[m]) <=> \E k \in 1 .. l + 1 : next[k] = m
  <2>1. CASE m = n + 1
    BY <1>2, <1>3, <2>1
  <2>2. CASE m \in 1 .. n
    <3>1. \A k \in 1 .. l : k \in 1 .. l + 1
      BY <1>2
    <3>2. m # n + 1
      BY <2>2
    <3> QED
      BY <1>1, <1>3, <1>4, <2>2, <3>1, <3>2
  <2> QED
    BY <2>1, <2>2
<1>8. InOrder(p, more, all, n + 1)
  <2>1. 1 .. Len(more) = 1 .. l + 1
    BY <1>2
  <2>2. /\ \A j, k \in 1 .. Len(more) : j < k => next[j] < next[k]
        /\ \A k \in 1 .. Len(more) : more[k] = all[next[k]]
        /\ \A m \in 1 .. n + 1 :
              Tells(p, all[m]) <=> \E k \in 1 .. Len(more) : next[k] = m
        /\ next \in [1 .. Len(more) -> 1 .. n + 1]
    BY <1>3, <1>5, <1>6, <1>7, <2>1
  <2> QED
    BY <2>2 DEF InOrder
<1> QED
  BY <1>8 DEF more

(* ... or it is not one that is.                                             *)
LEMMA InOrderSkips ==
    ASSUME NEW p, NEW told, NEW all, NEW n \in Nat, Len(told) \in Nat,
           ~Tells(p, all[n + 1]), InOrder(p, told, all, n)
    PROVE  InOrder(p, told, all, n + 1)
<1> DEFINE l == Len(told)
<1>1. PICK place \in [1 .. l -> 1 .. n] :
        /\ \A j, k \in 1 .. l : j < k => place[j] < place[k]
        /\ \A k \in 1 .. l : told[k] = all[place[k]]
        /\ \A m \in 1 .. n : Tells(p, all[m]) <=> \E k \in 1 .. l : place[k] = m
  BY DEF InOrder
<1> HIDE DEF l
<1>2. place \in [1 .. l -> 1 .. n + 1]
  BY <1>1
<1>3. ASSUME NEW m \in 1 .. n + 1
      PROVE  Tells(p, all[m]) <=> \E k \in 1 .. l : place[k] = m
  <2>1. CASE m = n + 1
    <3>1. \A k \in 1 .. l : place[k] # m
      BY <1>1, <2>1
    <3> QED
      BY <2>1, <3>1
  <2>2. CASE m \in 1 .. n
    BY <1>1, <2>2
  <2> QED
    BY <2>1, <2>2
<1> QED
  BY <1>1, <1>2, <1>3 DEF InOrder, l

(* What is in the hands of p, and in its device, is what was typed last.     *)
InHand(p) ==
    /\ Len(buffer[p]) + Len(device[p]) <= Len(typed[p])
    /\ InOrder(p, output[p], typed[p], Dealt(p))
    /\ \A k \in 1 .. Len(buffer[p]) : buffer[p][k] = typed[p][Dealt(p) + k]
    /\ \A k \in 1 .. Len(device[p]) :
          device[p][k] = typed[p][Dealt(p) + Len(buffer[p]) + k]

LEMMA DumpersTypeStep ==
    ASSUME DumpersType, HandsAreEmpty, [DumpersNext]_dumperVars
    PROVE  DumpersType' /\ HandsAreEmpty'
<1> DEFINE Goal == DumpersType' /\ HandsAreEmpty'
<1>1. /\ device \in [Dumper -> Seq(Stroke)] /\ buffer \in [Dumper -> Seq(Stroke)]
      /\ output \in [Dumper -> Seq(Stroke)] /\ typed \in [Dumper -> Seq(Stroke)]
      /\ DOMAIN dumperAt = Dumper
      /\ \A p \in Dumper : dumperAt[p] # "report" => buffer[p] = <<>>
  BY DEF DumpersType, HandsAreEmpty
<1>2. ASSUME NEW p \in Dumper, Acquire(p) \/ WaitForSingleObject(p) \/ Reported(p)
      PROVE  Goal
  BY <1>1, <1>2 DEF Acquire, WaitForSingleObject, Reported, Then, DumpersType,
                    HandsAreEmpty
<1>3. ASSUME NEW p \in Dumper, GetDeviceData(p) PROVE Goal
  <2>1. device[p] \in Seq(Stroke) /\ items(p) \in Nat /\ items(p) = Len(device[p])
    BY <1>1 DEF items
  <2>2. SubSeq(device[p], 1, items(p)) \in Seq(Stroke)
    BY <2>1
  <2>3. Left(p) \in Seq(Stroke)
    BY <2>1 DEF Left
  <2>4. /\ buffer' \in [Dumper -> Seq(Stroke)]
        /\ device' \in [Dumper -> Seq(Stroke)]
        /\ UNCHANGED <<output, typed>> /\ DOMAIN dumperAt' = Dumper
    BY <1>1, <1>3, <2>2, <2>3 DEF GetDeviceData, Then
  <2>5. \A q \in Dumper : dumperAt'[q] # "report" => buffer'[q] = <<>>
    BY <1>1, <1>3 DEF GetDeviceData, Then
  <2> QED
    BY <1>1, <2>4, <2>5 DEF DumpersType, HandsAreEmpty
<1>4. ASSUME NEW p \in Dumper, Report(p) PROVE Goal
  <2>1. /\ buffer[p] \in Seq(Stroke) /\ buffer[p] # <<>> /\ output[p] \in Seq(Stroke)
        /\ dumperAt[p] = "report"
    BY <1>1, <1>4 DEF Report
  <2>2. Head(buffer[p]) \in Stroke /\ Tail(buffer[p]) \in Seq(Stroke)
    BY <2>1
  <2>3. Append(output[p], Head(buffer[p])) \in Seq(Stroke)
    BY <2>1, <2>2
  <2>4. /\ buffer' \in [Dumper -> Seq(Stroke)]
        /\ output' \in [Dumper -> Seq(Stroke)]
        /\ UNCHANGED <<device, typed, dumperAt>>
    BY <1>1, <1>4, <2>2, <2>3 DEF Report
  <2>5. \A q \in Dumper : dumperAt'[q] # "report" => buffer'[q] = <<>>
    BY <1>1, <1>4, <2>1 DEF Report
  <2> QED
    BY <1>1, <2>4, <2>5 DEF DumpersType, HandsAreEmpty
<1>5. ASSUME NEW stroke \in Stroke, KeyboardDoes(stroke) PROVE Goal
  <2>1. \A p \in Dumper : /\ Append(device[p], stroke) \in Seq(Stroke)
                          /\ Append(typed[p], stroke) \in Seq(Stroke)
    BY <1>1
  <2>2. /\ device' \in [Dumper -> Seq(Stroke)] /\ typed' \in [Dumper -> Seq(Stroke)]
        /\ UNCHANGED <<buffer, output, dumperAt>>
    BY <1>1, <1>5, <2>1 DEF KeyboardDoes
  <2> QED
    BY <1>1, <2>2 DEF DumpersType, HandsAreEmpty
<1>6. CASE UNCHANGED dumperVars
  BY <1>6 DEF dumperVars, DumpersType, HandsAreEmpty
<1> QED
  BY <1>2, <1>3, <1>4, <1>5, <1>6 DEF DumpersNext, DumperStep

(* A new stroke goes behind the others, in the device and in what was typed. *)
LEMMA StrokeComes ==
    ASSUME DumpersType, NEW p \in Dumper, InHand(p), NEW stroke \in Stroke,
           device'[p] = Append(device[p], stroke),
           typed'[p] = Append(typed[p], stroke),
           buffer'[p] = buffer[p], output'[p] = output[p]
    PROVE  InHand(p)'
<1> DEFINE b == Len(buffer[p])
           d == Len(device[p])
           t == Len(typed[p])
           n == Dealt(p)
<1>1. /\ device[p] \in Seq(Stroke) /\ typed[p] \in Seq(Stroke)
      /\ buffer[p] \in Seq(Stroke)
  BY DEF DumpersType
<1>2. b \in Nat /\ d \in Nat /\ t \in Nat
  BY <1>1
<1>3. /\ Len(device'[p]) = d + 1 /\ device'[p][d + 1] = stroke
      /\ \A k \in 1 .. d : device'[p][k] = device[p][k]
  BY <1>1
<1>4. /\ Len(typed'[p]) = t + 1 /\ typed'[p][t + 1] = stroke
      /\ \A k \in 1 .. t : typed'[p][k] = typed[p][k]
  BY <1>1
<1>5. n = t - b - d /\ b + d <= t
  BY DEF Dealt, InHand
<1>6. Dealt(p)' = n
  BY <1>2, <1>3, <1>4, <1>5 DEF Dealt
<1>7. /\ InOrder(p, output[p], typed[p], n)
      /\ \A k \in 1 .. b : buffer[p][k] = typed[p][n + k]
      /\ \A k \in 1 .. d : device[p][k] = typed[p][n + b + k]
  BY DEF InHand
<1> HIDE DEF b, d, t, n
<1>8. n \in Nat /\ \A m \in 1 .. n : m \in 1 .. t
  BY <1>2, <1>5
<1>9. InOrder(p, output[p], typed'[p], n)
  BY <1>4, <1>7, <1>8, InOrderStays
<1>10. \A k \in 1 .. b : buffer[p][k] = typed'[p][n + k]
  <2>1. \A k \in 1 .. b : n + k \in 1 .. t
    BY <1>2, <1>5
  <2> QED
    BY <1>4, <1>7, <2>1
<1>11. ASSUME NEW k \in 1 .. d + 1
       PROVE  device'[p][k] = typed'[p][n + b + k]
  <2>1. CASE k = d + 1
    <3>1. n + b + k = t + 1
      BY <1>2, <1>5, <2>1
    <3> QED
      BY <1>3, <1>4, <2>1, <3>1
  <2>2. CASE k # d + 1
    <3>1. k \in 1 .. d /\ n + b + k \in 1 .. t
      BY <1>2, <1>5, <2>2
    <3> QED
      BY <1>3, <1>4, <1>7, <3>1
  <2> QED
    BY <2>1, <2>2
<1>12. Len(buffer'[p]) + Len(device'[p]) <= Len(typed'[p])
  BY <1>2, <1>3, <1>4, <1>5 DEF b
<1> QED
  BY <1>3, <1>6, <1>9, <1>10, <1>11, <1>12 DEF InHand, b

(* GetDeviceData moves all there is from the device into empty hands.        *)
LEMMA StrokesAreTaken ==
    ASSUME DumpersType, NEW p \in Dumper, InHand(p), buffer[p] = <<>>,
           buffer'[p] = SubSeq(device[p], 1, items(p)), device'[p] = Left(p),
           typed'[p] = typed[p], output'[p] = output[p]
    PROVE  InHand(p)'
<1> DEFINE d == Len(device[p])
<1>1. /\ device[p] \in Seq(Stroke) /\ typed[p] \in Seq(Stroke)
      /\ d \in Nat /\ items(p) = d /\ Len(typed[p]) \in Nat
  BY DEF DumpersType, items
<1>2. Len(buffer[p]) = 0
  OBVIOUS
<1>3. Len(buffer'[p]) = d /\ \A k \in 1 .. d : buffer'[p][k] = device[p][k]
  <2>1. buffer'[p] = SubSeq(device[p], 1, d)
    BY <1>1
  <2>2. SubSeq(device[p], 1, d) = [k \in 1 .. d |-> device[p][k]]
    BY <1>1
  <2> QED
    BY <1>1, <2>1, <2>2
<1>4. Len(device'[p]) = 0
  <2>1. device'[p] = SubSeq(device[p], d + 1, d)
    BY <1>1 DEF Left
  <2> QED
    BY <1>1, <2>1
<1>5. /\ d <= Len(typed[p])
      /\ Dealt(p) = Len(typed[p]) - d
      /\ InOrder(p, output[p], typed[p], Dealt(p))
      /\ \A k \in 1 .. d : device[p][k] = typed[p][Dealt(p) + Len(buffer[p]) + k]
  <2>1. d <= Len(typed[p])
    BY <1>1, <1>2 DEF InHand
  <2>2. Dealt(p) = Len(typed[p]) - d
    BY <1>1, <1>2 DEF Dealt
  <2> QED
    BY <2>1, <2>2 DEF InHand
<1>6. Dealt(p)' = Dealt(p)
  <2>1. Dealt(p)' = Len(typed'[p]) - Len(buffer'[p]) - Len(device'[p])
    BY DEF Dealt
  <2>2. Dealt(p)' = Len(typed[p]) - d - 0
    BY <1>3, <1>4, <2>1
  <2> QED
    BY <1>1, <1>5, <2>2
<1> HIDE DEF d
<1>7. \A k \in 1 .. d : Dealt(p) + Len(buffer[p]) + k = Dealt(p) + k
  BY <1>1, <1>2, <1>5
<1>8. \A k \in 1 .. d : buffer'[p][k] = typed[p][Dealt(p) + k]
  BY <1>3, <1>5, <1>7
<1>9. Len(buffer'[p]) + Len(device'[p]) <= Len(typed[p])
  BY <1>1, <1>3, <1>4, <1>5
<1>10. \A k \in 1 .. Len(device'[p]) : FALSE
  BY <1>4
<1> QED
  BY <1>3, <1>5, <1>6, <1>8, <1>9, <1>10 DEF InHand

(* The oldest stroke leaves the hands, told or not.                          *)
LEMMA StrokeIsReported ==
    ASSUME DumpersType, NEW p \in Dumper, InHand(p), buffer[p] # <<>>,
           output'[p] = IF Tells(p, Head(buffer[p]))
                        THEN Append(output[p], Head(buffer[p])) ELSE output[p],
           buffer'[p] = Tail(buffer[p]),
           typed'[p] = typed[p], device'[p] = device[p]
    PROVE  InHand(p)'
<1> DEFINE b == Len(buffer[p])
           d == Len(device[p])
           t == Len(typed[p])
           n == Dealt(p)
<1>1. /\ device[p] \in Seq(Stroke) /\ typed[p] \in Seq(Stroke)
      /\ buffer[p] \in Seq(Stroke) /\ output[p] \in Seq(Stroke)
  BY DEF DumpersType
<1>2. b \in Nat /\ d \in Nat /\ t \in Nat /\ b > 0 /\ Len(output[p]) \in Nat
  BY <1>1
<1>3. /\ Head(buffer[p]) = buffer[p][1] /\ Head(buffer[p]) \in Stroke
      /\ Len(buffer'[p]) = b - 1
      /\ \A k \in 1 .. b - 1 : buffer'[p][k] = buffer[p][k + 1]
  BY <1>1, <1>2
<1>4. n = t - b - d /\ b + d <= t
  BY DEF Dealt, InHand
<1>5. /\ InOrder(p, output[p], typed[p], n)
      /\ \A k \in 1 .. b : buffer[p][k] = typed[p][n + k]
      /\ \A k \in 1 .. d : device[p][k] = typed[p][n + b + k]
  BY DEF InHand
<1>6. Dealt(p)' = n + 1
  <2>1. Dealt(p)' = Len(typed'[p]) - Len(buffer'[p]) - Len(device'[p])
    BY DEF Dealt
  <2>2. Dealt(p)' = t - (b - 1) - d
    BY <1>3, <2>1
  <2> QED
    BY <1>2, <1>4, <2>2
<1> HIDE DEF b, d, t, n
<1>7. Head(buffer[p]) = typed[p][n + 1] /\ n \in Nat
  <2>1. 1 \in 1 .. b /\ n \in Nat
    BY <1>2, <1>4
  <2> QED
    BY <1>3, <1>5, <2>1
<1>8. InOrder(p, output'[p], typed[p], n + 1)
  <2>1. CASE Tells(p, typed[p][n + 1])
    <3>1. output'[p] = Append(output[p], typed[p][n + 1])
      BY <1>7, <2>1
    <3>2. InOrder(p, Append(output[p], typed[p][n + 1]), typed[p], n + 1)
      BY <1>1, <1>3, <1>5, <1>7, <2>1, InOrderTells
    <3> QED
      BY <3>1, <3>2
  <2>2. CASE ~Tells(p, typed[p][n + 1])
    <3>1. output'[p] = output[p]
      BY <1>7, <2>2
    <3>2. InOrder(p, output[p], typed[p], n + 1)
      BY <1>2, <1>5, <1>7, <2>2, InOrderSkips
    <3> QED
      BY <3>1, <3>2
  <2> QED
    BY <2>1, <2>2
<1>9. \A k \in 1 .. b - 1 : buffer'[p][k] = typed[p][n + 1 + k]
  <2>1. \A k \in 1 .. b - 1 : k + 1 \in 1 .. b /\ n + (k + 1) = n + 1 + k
    BY <1>2, <1>7
  <2> QED
    BY <1>3, <1>5, <2>1
<1>10. \A k \in 1 .. d : device[p][k] = typed[p][n + 1 + (b - 1) + k]
  <2>1. \A k \in 1 .. d : n + b + k = n + 1 + (b - 1) + k
    BY <1>2, <1>7
  <2> QED
    BY <1>5, <2>1
<1>11. Len(buffer'[p]) + d <= t
  BY <1>2, <1>3, <1>4
<1> QED
  BY <1>3, <1>6, <1>8, <1>9, <1>10, <1>11 DEF InHand, d, t

LEMMA InHandStep ==
    ASSUME DumpersType, HandsAreEmpty, [DumpersNext]_dumperVars,
           NEW p \in Dumper, InHand(p)
    PROVE  InHand(p)'
<1>1. /\ device \in [Dumper -> Seq(Stroke)] /\ buffer \in [Dumper -> Seq(Stroke)]
      /\ output \in [Dumper -> Seq(Stroke)] /\ typed \in [Dumper -> Seq(Stroke)]
  BY DEF DumpersType
<1>2. CASE UNCHANGED <<device[p], buffer[p], output[p], typed[p]>>
  BY <1>2 DEF InHand, Dealt
<1>3. ASSUME NEW q \in Dumper,
             Acquire(q) \/ WaitForSingleObject(q) \/ Reported(q)
      PROVE  UNCHANGED <<device[p], buffer[p], output[p], typed[p]>>
  BY <1>3 DEF Acquire, WaitForSingleObject, Reported
<1>4. ASSUME NEW q \in Dumper, q # p, GetDeviceData(q) \/ Report(q)
      PROVE  UNCHANGED <<device[p], buffer[p], output[p], typed[p]>>
  BY <1>1, <1>4 DEF GetDeviceData, Report
<1>5. CASE GetDeviceData(p)
  <2>1. CASE UNCHANGED <<device, buffer>>
    BY <1>2, <1>5, <2>1 DEF GetDeviceData
  <2>2. CASE /\ buffer' = [buffer EXCEPT ![p] = SubSeq(device[p], 1, items(p))]
             /\ device' = [device EXCEPT ![p] = Left(p)]
    <3>1. buffer[p] = <<>>
      BY <1>5 DEF GetDeviceData, HandsAreEmpty
    <3>2. buffer'[p] = SubSeq(device[p], 1, items(p)) /\ device'[p] = Left(p)
      BY <1>1, <2>2
    <3> QED
      BY <1>5, <3>1, <3>2, StrokesAreTaken DEF GetDeviceData
  <2> QED
    BY <1>5, <2>1, <2>2 DEF GetDeviceData
<1>6. CASE Report(p)
  <2>1. /\ output'[p] = IF Tells(p, Head(buffer[p]))
                        THEN Append(output[p], Head(buffer[p])) ELSE output[p]
        /\ buffer'[p] = Tail(buffer[p])
    BY <1>1, <1>6 DEF Report
  <2> QED
    BY <1>6, <2>1, StrokeIsReported DEF Report
<1>7. ASSUME NEW stroke \in Stroke, KeyboardDoes(stroke) PROVE InHand(p)'
  <2>1. UNCHANGED <<buffer, output>>
    BY <1>7 DEF KeyboardDoes
  <2>2. \/ device'[p] = Append(device[p], stroke) /\ typed'[p] = Append(typed[p], stroke)
        \/ device'[p] = device[p] /\ typed'[p] = typed[p]
    BY <1>7 DEF KeyboardDoes
  <2> QED
    BY <1>2, <2>1, <2>2, StrokeComes
<1>8. CASE UNCHANGED dumperVars
  BY <1>2, <1>8 DEF dumperVars
<1> QED
  BY <1>2, <1>3, <1>4, <1>5, <1>6, <1>7, <1>8 DEF DumpersNext, DumperStep

(* For any number of programs, buffers of any length and any strokes: no key *)
(* is told twice, out of order, or left out although its device had room for *)
(* it, even when more are typed while the last ones are being told.          *)
THEOREM KeysSafe == DumpersSpec => []KeysInOrder
<1> DEFINE Inv == DumpersType /\ HandsAreEmpty /\ \A p \in Dumper : InHand(p)
<1>1. DumpersInit => Inv
  <2> SUFFICES ASSUME DumpersInit PROVE Inv
    OBVIOUS
  <2>1. DumpersType /\ HandsAreEmpty
    BY DEF DumpersInit, DumpersType, HandsAreEmpty
  <2>2. ASSUME NEW p \in Dumper PROVE InHand(p)
    <3>1. /\ Len(buffer[p]) = 0 /\ Len(device[p]) = 0 /\ Len(typed[p]) = 0
          /\ Len(output[p]) = 0
      BY DEF DumpersInit
    <3>2. InOrder(p, output[p], typed[p], 0)
      <4> DEFINE place == [k \in 1 .. 0 |-> 0]
      <4>1. place \in [1 .. Len(output[p]) -> 1 .. 0]
        BY <3>1
      <4>2. /\ \A k \in 1 .. Len(output[p]) : FALSE
            /\ \A m \in 1 .. 0 : FALSE
        BY <3>1
      <4> HIDE DEF place
      <4> QED
        BY <4>1, <4>2 DEF InOrder
    <3> QED
      BY <3>1, <3>2 DEF InHand, Dealt
  <2> QED
    BY <2>1, <2>2
<1>2. Inv /\ [DumpersNext]_dumperVars => Inv'
  BY DumpersTypeStep, InHandStep
<1>3. Inv => KeysInOrder
  BY DEF InHand, KeysInOrder
<1> QED
  BY <1>1, <1>2, <1>3, PTL DEF DumpersSpec

-----------------------------------------------------------------------------
(* LeapCmd: every turn of a circle is told once, for any number of circles   *)
(* What has been told never runs ahead of what has been drawn, because       *)
(* circles only go on; and it keeps up with the lines unless a turn was      *)
(* jumped over.                                                              *)
ToldSoFar ==
    /\ progress \in [Gesture -> Nat]
    /\ circle_pos \in [Gesture -> Nat]
    /\ lines \in [Gesture -> Nat]
    /\ \A id \in Gesture :
          /\ lines[id] <= circle_pos[id]
          /\ circle_pos[id] <= Turns(id)
          /\ id \notin skipped => lines[id] = circle_pos[id]

(* Turns is a whole number that grows with the progress.                     *)
LEMMA TurnsGrow ==
    ASSUME NEW m \in Nat, NEW n \in Nat, m <= n
    PROVE  m \div 4 \in Nat /\ n \div 4 \in Nat /\ m \div 4 <= n \div 4
OBVIOUS

LEMMA ToldSoFarStep == ToldSoFar /\ [LeapNext]_leapVars => ToldSoFar'
<1> SUFFICES ASSUME ToldSoFar, [LeapNext]_leapVars PROVE ToldSoFar'
  OBVIOUS
<1>1. CASE onFrame
  <2> DEFINE updated == {id \in Gesture : gestureState[id] = "STATE_UPDATE"}
  <2>1. \A id \in Gesture : Turns(id) \in Nat
    BY TurnsGrow DEF ToldSoFar, Turns
  <2>2. /\ progress' = progress
        /\ circle_pos' = [id \in Gesture |-> IF id \in updated THEN Turns(id) ELSE circle_pos[id]]
        /\ lines' = [id \in Gesture |->
                        IF id \in updated /\ Turns(id) # circle_pos[id]
                        THEN lines[id] + 1 ELSE lines[id]]
        /\ skipped' = skipped \cup {id \in updated : Turns(id) > circle_pos[id] + 1}
    BY <1>1 DEF onFrame, Positions
  <2>3. \A id \in Gesture : Turns(id)' = Turns(id)
    BY <2>2 DEF Turns
  <2>4. /\ progress' \in [Gesture -> Nat]
        /\ circle_pos' \in [Gesture -> Nat]
        /\ lines' \in [Gesture -> Nat]
    BY <2>1, <2>2 DEF ToldSoFar
  <2>5. ASSUME NEW id \in Gesture
        PROVE  /\ lines'[id] <= circle_pos'[id]
               /\ circle_pos'[id] <= Turns(id)'
               /\ id \notin skipped' => lines'[id] = circle_pos'[id]
    BY <2>1, <2>2, <2>3, <2>5 DEF ToldSoFar
  <2> QED
    BY <2>4, <2>5 DEF ToldSoFar
<1>2. ASSUME NEW id \in Gesture, NewFrame(id) PROVE ToldSoFar'
  <2>1. /\ UNCHANGED <<circle_pos, lines, skipped>>
        /\ progress' \in [Gesture -> Nat]
        /\ \A g \in Gesture : progress[g] <= progress'[g]
    BY <1>2 DEF NewFrame, ToldSoFar
  <2>2. \A g \in Gesture : Turns(g) \in Nat /\ Turns(g)' \in Nat /\ Turns(g) <= Turns(g)'
    BY <2>1, TurnsGrow DEF ToldSoFar, Turns
  <2> QED
    BY <2>1, <2>2 DEF ToldSoFar
<1>3. CASE UNCHANGED leapVars
  BY <1>3 DEF leapVars, ToldSoFar, Turns
<1> QED
  BY <1>1, <1>2, <1>3 DEF LeapNext

(* However many circles are drawn at the same time, how long they are and    *)
(* whichever frames onFrame misses (src/leapcmd.cpp:80-87), no turn is told  *)
(* twice or before it is made, and none is left out of a circle that was     *)
(* looked at in every turn.                                                  *)
THEOREM TurnsTold == LeapSpec => []TurnsAreTold
<1>1. LeapInit => ToldSoFar
  BY DEF LeapInit, ToldSoFar, Turns
<1>2. ASSUME ToldSoFar, NEW id \in Gesture
      PROVE  lines[id] <= Turns(id)
  <2>1. lines[id] \in Nat /\ circle_pos[id] \in Nat /\ Turns(id) \in Nat
    BY <1>2, TurnsGrow DEF ToldSoFar, Turns
  <2>2. lines[id] <= circle_pos[id] /\ circle_pos[id] <= Turns(id)
    BY <1>2 DEF ToldSoFar
  <2> QED
    BY <2>1, <2>2
<1>3. ToldSoFar => TurnsAreTold
  BY <1>2 DEF ToldSoFar, TurnsAreTold
<1> QED
  BY <1>1, <1>3, ToldSoFarStep, PTL DEF LeapSpec

-----------------------------------------------------------------------------
(* FoobarLoader: the name of the library outlives its reader.                *)
(* From the moment it has seen the thread to have ended the loader is on its *)
(* way out, and only on that way is the memory freed.  The thread is created *)
(* before, and a thread that has ended stays so.                             *)
OnTheWayOut ==
    /\ loaderAt \in {"exit_code", "free", "stop_debugging"} => thread = "ended"
    /\ mem = "freed" => loaderAt \in {"stop_debugging", "ended"} /\ thread = "ended"

LEMMA WayOutStep == OnTheWayOut /\ [LoaderNext]_loaderVars => OnTheWayOut'
<1> SUFFICES ASSUME OnTheWayOut, [LoaderNext]_loaderVars PROVE OnTheWayOut'
  OBVIOUS
<1> USE DEF OnTheWayOut, debuggee, LoaderEnds
<1>1. CASE CreateProcess
  BY <1>1 DEF CreateProcess
<1>2. CASE WaitForDebugEvent
  BY <1>2 DEF WaitForDebugEvent, AfterEvent
<1>3. CASE AllocAndWrite
  BY <1>3 DEF AllocAndWrite
<1>4. CASE CreateRemoteThread
  BY <1>4 DEF CreateRemoteThread
<1>5. CASE ContinueDebugEvent
  BY <1>5 DEF ContinueDebugEvent
<1>6. CASE PollThread
  BY <1>6 DEF PollThread, ThreadEnded
<1>7. CASE GetExitCodeThread
  BY <1>7 DEF GetExitCodeThread
<1>8. CASE VirtualFreeEx
  BY <1>8 DEF VirtualFreeEx
<1>9. CASE stopDebugging
  BY <1>9 DEF stopDebugging
<1>10. CASE DebuggeeStep
  BY <1>10 DEF DebuggeeStep, LibraryLoads, ThreadExits, ThreadIsGone
<1>11. CASE OtherEvent
  BY <1>11 DEF OtherEvent
<1>12. CASE WaitForDebugEventFails
  BY <1>12 DEF WaitForDebugEventFails
<1>13. CASE UNCHANGED loaderVars
  BY <1>13 DEF loaderVars
<1> QED
  BY <1>1, <1>2, <1>3, <1>4, <1>5, <1>6, <1>7, <1>8, <1>9, <1>10, <1>11, <1>12, <1>13
  DEF LoaderNext, LoaderStep

(* The name of the library is freed only after the thread that reads it has  *)
(* ended, however the debug events of foobar2000 and the loader's polling    *)
(* (src/foobar2000-loader.cpp:64) interleave.                                *)
THEOREM NameSafe == LoaderSpec => []NameOutlivesThread
<1>1. LoaderInit => OnTheWayOut
  BY DEF LoaderInit, OnTheWayOut
<1>2. OnTheWayOut => NameOutlivesThread
  BY DEF OnTheWayOut, NameOutlivesThread
<1> QED
  BY <1>1, <1>2, WayOutStep, PTL DEF LoaderSpec
=============================================================================
