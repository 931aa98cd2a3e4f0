--------------------------- MODULE CatFightProofs ---------------------------
(* Theorems about CatFight, for any number of invocations, any lengths and   *)
(* any block size.                                                           *)
EXTENDS CatFight, FiniteSetTheorems, TLAPS

LEMMA AlignFacts ==
    ASSUME NEW a \in Nat, NEW b \in Nat, a <= b
    PROVE  Align(a) \in Nat /\ a <= Align(a) /\ Align(a) <= Align(b)
BY DEF Align

LEMMA LargerFacts ==
    ASSUME NEW a \in Nat, NEW b \in Nat
    PROVE  Larger(a, b) \in Nat /\ a <= Larger(a, b) /\ b <= Larger(a, b)
BY DEF Larger

LEMMA ProductFact == ASSUME NEW a \in Nat, NEW b \in Nat PROVE a * b \in Nat
OBVIOUS

(* Lengths are natural numbers, and a header is never empty.                 *)
LEMMA LengthFacts ==
    ASSUME TypeOK, NEW p \in Proc
    PROVE  /\ HeaderLen(p) \in Nat
           /\ RecordLen(p) \in Nat
           /\ 16 <= HeaderLen(p)
           /\ HeaderLen(p) <= RecordLen(p)
BY CatFightAssumption DEF TypeOK, HeaderLen, RecordLen

(* What putting bytes of a record into a file does to the lengths.           *)
LEMMA PutFacts ==
    ASSUME TypeOK, NEW p \in Proc, target_num[p] \in File,
           NEW n \in Nat, PutRecord(p, n)
    PROVE  /\ written' \in [Proc -> Nat]
           /\ written'[p] = n
           /\ \A q \in Proc : q # p => written'[q] = written[q]
           /\ size' \in [File -> Nat]
           /\ \A f \in File : size[f] <= size'[f]
           /\ seek[p] + n <= size'[target_num[p]]
<1> DEFINE f == target_num[p]
<1>1. f \in File /\ size[f] \in Nat /\ seek[p] + n \in Nat
  BY DEF TypeOK
<1>2. size' = [size EXCEPT ![f] = Larger(size[f], seek[p] + n)]
  BY DEF PutRecord
<1>3. /\ Larger(size[f], seek[p] + n) \in Nat
      /\ size[f] <= Larger(size[f], seek[p] + n)
      /\ seek[p] + n <= Larger(size[f], seek[p] + n)
  BY <1>1, LargerFacts
<1>4. QED
  BY <1>1, <1>2, <1>3 DEF TypeOK, PutRecord

-----------------------------------------------------------------------------
(* A step keeps the types, and no invocation is past the last file.          *)
LEMMA TypeStep ==
    ASSUME TypeOK, TargetExists, [Next]_vars
    PROVE  (TypeOK /\ TargetExists)'
<1> USE CatFightAssumption DEF TypeOK, TargetExists, Writing, Goto, Label,
     Ended, File, NoHint, Skip, Unlocked, search, record
<1>1. ASSUME NEW p \in Proc, ReadHint(p) PROVE (TypeOK /\ TargetExists)'
  BY <1>1 DEF ReadHint
<1>2. ASSUME NEW p \in Proc, NoHintYet(p) PROVE (TypeOK /\ TargetExists)'
  BY <1>2 DEF NoHintYet
<1>3. ASSUME NEW p \in Proc, IgnoreHint(p) PROVE (TypeOK /\ TargetExists)'
  BY <1>3 DEF IgnoreHint
<1>4. ASSUME NEW p \in Proc, InitHint(p) PROVE (TypeOK /\ TargetExists)'
  BY <1>4 DEF InitHint, WriteHint
<1>5. ASSUME NEW p \in Proc, Flock(p) PROVE (TypeOK /\ TargetExists)'
  BY <1>5 DEF Flock
<1>6. ASSUME NEW p \in Proc, WouldBlock(p) PROVE (TypeOK /\ TargetExists)'
  <2>1. target_num[p] + 1 \in 0 .. MaxTarget
    BY <1>6 DEF WouldBlock
  <2>2. TypeOK'
    BY <1>6, <2>1 DEF WouldBlock, NextTarget
  <2>3. TargetExists'
    BY <1>6, <2>1 DEF WouldBlock, NextTarget
  <2>4. QED
    BY <2>2, <2>3
<1>7. ASSUME NEW p \in Proc, FlockFails(p) PROVE (TypeOK /\ TargetExists)'
  BY <1>7 DEF FlockFails
<1>8. ASSUME NEW p \in Proc, GiveUp(p) PROVE (TypeOK /\ TargetExists)'
  BY <1>8 DEF GiveUp
<1>9. ASSUME NEW p \in Proc, FoundEmpty(p) PROVE (TypeOK /\ TargetExists)'
  BY <1>9 DEF FoundEmpty
<1>10. ASSUME NEW p \in Proc, FoundFull(p) PROVE (TypeOK /\ TargetExists)'
  <2>1. target_num[p] + 1 \in 0 .. MaxTarget
    BY <1>10 DEF FoundFull
  <2>2. lock' \in [File -> Proc \cup {Nobody}]
    BY <1>10 DEF FoundFull, Release
  <2>3. TypeOK'
    BY <1>10, <2>1, <2>2 DEF FoundFull, NextTarget
  <2>4. TargetExists'
    BY <1>10, <2>1 DEF FoundFull, NextTarget
  <2>5. QED
    BY <2>3, <2>4
<1>11. ASSUME NEW p \in Proc, FoundRoom(p) PROVE (TypeOK /\ TargetExists)'
  <2>1. target_num[p] \in File /\ size[target_num[p]] \in Nat
    BY <1>11 DEF FoundRoom
  <2>2. Align(size[target_num[p]]) \in Nat
    BY <2>1, AlignFacts
  <2>3. QED
    BY <1>11, <2>2 DEF FoundRoom
<1>12. ASSUME NEW p \in Proc, WriteMagic(p) PROVE (TypeOK /\ TargetExists)'
  BY <1>12, LargerFacts DEF WriteMagic
<1>13. ASSUME NEW p \in Proc, WriteFileId(p) PROVE (TypeOK /\ TargetExists)'
  BY <1>13, LargerFacts DEF WriteFileId
<1>14. ASSUME NEW p \in Proc, WriteHeader(p) PROVE (TypeOK /\ TargetExists)'
  <2>1. PICK n \in HeaderEnds(p) : PutRecord(p, n)
    BY <1>14 DEF WriteHeader
  <2>2. n \in Nat
    BY LengthFacts DEF HeaderEnds
  <2>3. QED
    BY <1>14, <2>1, <2>2, PutFacts DEF WriteHeader
<1>15. ASSUME NEW p \in Proc, CopySource(p) PROVE (TypeOK /\ TargetExists)'
  <2>1. PICK n \in written[p] + 1 .. RecordLen(p) : PutRecord(p, n)
    BY <1>15 DEF CopySource
  <2>2. n \in Nat
    BY LengthFacts
  <2>3. QED
    BY <1>15, <2>1, <2>2, PutFacts DEF CopySource
<1>16. ASSUME NEW p \in Proc, Close(p) PROVE (TypeOK /\ TargetExists)'
  BY <1>16 DEF Close, Release
<1>17. ASSUME NEW p \in Proc, PrintPosition(p) PROVE (TypeOK /\ TargetExists)'
  <2>1. PositionOf(p) \in Nat
    <3>1. target_num[p] \in Nat /\ seek[p] \in Nat
      OBVIOUS
    <3>2. target_num[p] * BlockSize \in Nat
      BY <3>1, ProductFact
    <3>3. QED
      BY <3>1, <3>2 DEF PositionOf
  <2>2. QED
    BY <1>17, <2>1 DEF PrintPosition
<1>18. ASSUME NEW p \in Proc, UpdateHint(p) PROVE (TypeOK /\ TargetExists)'
  BY <1>18 DEF UpdateHint, WriteHint
<1>19. ASSUME NEW p \in Proc, Die(p) PROVE (TypeOK /\ TargetExists)'
  BY <1>19 DEF Die, Release

<1>20. CASE AllEnded
  BY <1>20 DEF AllEnded, vars
<1>21. CASE UNCHANGED vars
  BY <1>21 DEF vars
<1>22. QED
  BY <1>1, <1>2, <1>3, <1>4, <1>5, <1>6, <1>7, <1>8, <1>9, <1>10, <1>11,
     <1>12, <1>13, <1>14, <1>15, <1>16, <1>17, <1>18, <1>19, <1>20, <1>21
  DEF Next, Step

LEMMA TypeInvariant == Spec => [](TypeOK /\ TargetExists)
<1>1. Init => TypeOK /\ TargetExists
  BY CatFightAssumption
  DEF Init, TypeOK, TargetExists, Writing, File, NoHint, NotPrinted, Label, Ended
<1>2. TypeOK /\ TargetExists /\ [Next]_vars => (TypeOK /\ TargetExists)'
  BY TypeStep
<1>3. QED
  BY <1>1, <1>2, PTL DEF Spec

(* Every variable keeps its type: in particular no invocation looks at a     *)
(* file beyond the last one, and the hint names a file or none.              *)
THEOREM TypeCorrect == Spec => []TypeOK
BY TypeInvariant, PTL

-----------------------------------------------------------------------------
(* No step shortens a file, ...                                              *)
LEMMA FilesGrow ==
    ASSUME TypeOK, TargetExists, [Next]_vars
    PROVE  \A f \in File : size[f] <= size'[f]
<1> USE DEF TypeOK, TargetExists, Writing, search, record
<1>1. ASSUME UNCHANGED size PROVE \A f \in File : size[f] <= size'[f]
  BY <1>1
<1>2. ASSUME NEW p \in Proc, WriteMagic(p)
      PROVE  \A f \in File : size[f] <= size'[f]
  <2>1. size[target_num[p]] \in Nat
    BY <1>2 DEF WriteMagic
  <2>2. size[target_num[p]] <= Larger(size[target_num[p]], 8)
    BY <2>1, LargerFacts
  <2>3. QED
    BY <1>2, <2>2 DEF WriteMagic
<1>3. ASSUME NEW p \in Proc, WriteFileId(p)
      PROVE  \A f \in File : size[f] <= size'[f]
  <2>1. size[target_num[p]] \in Nat
    BY <1>3 DEF WriteFileId
  <2>2. size[target_num[p]] <= Larger(size[target_num[p]], 16)
    BY <2>1, LargerFacts
  <2>3. QED
    BY <1>3, <2>2 DEF WriteFileId
<1>4. ASSUME NEW p \in Proc, WriteHeader(p)
      PROVE  \A f \in File : size[f] <= size'[f]
  <2>1. PICK n \in HeaderEnds(p) : PutRecord(p, n)
    BY <1>4 DEF WriteHeader
  <2>2. n \in Nat
    BY LengthFacts DEF HeaderEnds
  <2>3. QED
    BY <1>4, <2>1, <2>2, PutFacts DEF WriteHeader
<1>5. ASSUME NEW p \in Proc, CopySource(p)
      PROVE  \A f \in File : size[f] <= size'[f]
  <2>1. PICK n \in written[p] + 1 .. RecordLen(p) : PutRecord(p, n)
    BY <1>5 DEF CopySource
  <2>2. n \in Nat
    BY LengthFacts
  <2>3. QED
    BY <1>5, <2>1, <2>2, PutFacts DEF CopySource
<1>6. QED
  BY <1>1, <1>2, <1>3, <1>4, <1>5
  DEF Next, Step, AllEnded, vars, ReadHint, NoHintYet, IgnoreHint, InitHint,
      Flock, WouldBlock, FlockFails, GiveUp, FoundEmpty, FoundFull, FoundRoom,
      Close, PrintPosition, UpdateHint, Die

(* ... so that a full file stays full.                                       *)
LEMMA FullStays ==
    ASSUME TypeOK, TypeOK', TargetExists, [Next]_vars,
           NEW f \in File, Full(f)
    PROVE  Full(f)'
<1>1. size[f] \in Nat /\ size'[f] \in Nat
  BY DEF TypeOK
<1>2. size[f] <= size'[f]
  BY FilesGrow
<1>3. Align(size[f]) <= Align(size'[f]) /\ Align(size[f]) \in Nat
      /\ Align(size'[f]) \in Nat
  BY <1>1, <1>2, AlignFacts
<1>4. QED
  BY <1>3, CatFightAssumption DEF Full

(* What was passed over without meeting a lock is full, and stays so.        *)
LEMMA PassedStep ==
    ASSUME TypeOK, TypeOK', TargetExists, PassedAreFull, HintIsSound,
           [Next]_vars
    PROVE  (PassedAreFull /\ HintIsSound)'
<1> DEFINE Goal == (PassedAreFull /\ HintIsSound)'
<1>0. \A f \in File : Full(f) => Full(f)'
  BY FullStays
<1> USE <1>0, CatFightAssumption
    DEF TypeOK, PassedAreFull, HintIsSound, Goto, File, NoHint, Ended,
        Skip, search, record
<1>1. ASSUME NEW p \in Proc, ReadHint(p) PROVE Goal
  BY <1>1 DEF ReadHint
<1>2. ASSUME NEW p \in Proc, NoHintYet(p) PROVE Goal
  BY <1>2 DEF NoHintYet
<1>3. ASSUME NEW p \in Proc, IgnoreHint(p) PROVE Goal
  BY <1>3 DEF IgnoreHint
<1>4. ASSUME NEW p \in Proc, InitHint(p) PROVE Goal
  BY <1>4 DEF InitHint, WriteHint
<1>5. ASSUME NEW p \in Proc, Flock(p) PROVE Goal
  BY <1>5 DEF Flock
<1>6. ASSUME NEW p \in Proc, WouldBlock(p) PROVE Goal
  BY <1>6 DEF WouldBlock, NextTarget
<1>7. ASSUME NEW p \in Proc, FlockFails(p) PROVE Goal
  BY <1>7 DEF FlockFails
<1>8. ASSUME NEW p \in Proc, GiveUp(p) PROVE Goal
  BY <1>8 DEF GiveUp
<1>9. ASSUME NEW p \in Proc, FoundEmpty(p) PROVE Goal
  BY <1>9 DEF FoundEmpty
<1>10. ASSUME NEW p \in Proc, FoundFull(p) PROVE Goal
  BY <1>10 DEF FoundFull, NextTarget
<1>11. ASSUME NEW p \in Proc, FoundRoom(p) PROVE Goal
  BY <1>11 DEF FoundRoom
<1>12. ASSUME NEW p \in Proc, WriteMagic(p) PROVE Goal
  BY <1>12 DEF WriteMagic
<1>13. ASSUME NEW p \in Proc, WriteFileId(p) PROVE Goal
  BY <1>13 DEF WriteFileId
<1>14. ASSUME NEW p \in Proc, WriteHeader(p) PROVE Goal
  BY <1>14 DEF WriteHeader
<1>15. ASSUME NEW p \in Proc, CopySource(p) PROVE Goal
  BY <1>15 DEF CopySource
<1>16. ASSUME NEW p \in Proc, Close(p) PROVE Goal
  BY <1>16 DEF Close
<1>17. ASSUME NEW p \in Proc, PrintPosition(p) PROVE Goal
  BY <1>17 DEF PrintPosition
<1>18. ASSUME NEW p \in Proc, UpdateHint(p) PROVE Goal
  BY <1>18 DEF UpdateHint, WriteHint, TargetExists, Writing
<1>19. ASSUME NEW p \in Proc, Die(p) PROVE Goal
  BY <1>19 DEF Die
<1>20. CASE UNCHANGED vars
  BY <1>20 DEF vars
<1>21. QED
  BY <1>1, <1>2, <1>3, <1>4, <1>5, <1>6, <1>7, <1>8, <1>9, <1>10, <1>11,
     <1>12, <1>13, <1>14, <1>15, <1>16, <1>17, <1>18, <1>19, <1>20
  DEF Next, Step, AllEnded

(* The hint never hides a file with room, with or without the locks, even    *)
(* though it may move backwards and its first writer may be late.            *)
THEOREM HintSafe == Spec => []HintIsSound
<1>1. Init => PassedAreFull /\ HintIsSound
  BY CatFightAssumption DEF Init, PassedAreFull, HintIsSound, File, NoHint
<1>2. /\ TypeOK /\ TargetExists /\ PassedAreFull /\ HintIsSound
      /\ TypeOK'
      /\ [Next]_vars
      => (PassedAreFull /\ HintIsSound)'
  BY PassedStep
<1>3. QED
  BY <1>1, <1>2, TypeInvariant, PTL DEF Spec

-----------------------------------------------------------------------------
(* Who writes to a file holds its lock, and nobody holds another lock.       *)
LEMMA LocksStep ==
    ASSUME ~FlockMayFail, TypeOK, TargetExists, LocksAreHeld, [Next]_vars
    PROVE  LocksAreHeld'
<1> USE CatFightAssumption
    DEF TypeOK, TargetExists, LocksAreHeld, Writing, Goto, Ended,
        Unlocked, Skip, search, record
<1>1. ASSUME NEW p \in Proc, ReadHint(p) PROVE LocksAreHeld'
  BY <1>1 DEF ReadHint
<1>2. ASSUME NEW p \in Proc, NoHintYet(p) PROVE LocksAreHeld'
  BY <1>2 DEF NoHintYet
<1>3. ASSUME NEW p \in Proc, IgnoreHint(p) PROVE LocksAreHeld'
  BY <1>3 DEF IgnoreHint
<1>4. ASSUME NEW p \in Proc, InitHint(p) PROVE LocksAreHeld'
  BY <1>4 DEF InitHint
<1>5. ASSUME NEW p \in Proc, Flock(p) PROVE LocksAreHeld'
  <2>1. target_num[p] \in File
    BY <1>5 DEF Flock, File
  <2>2. /\ lock'[target_num[p]] = p
        /\ \A f \in File : f # target_num[p] => lock'[f] = lock[f]
    BY <1>5, <2>1 DEF Flock
  <2>3. \A f \in File : lock[f] # p
    BY <1>5 DEF Flock
  <2>4. QED
    BY <1>5, <2>1, <2>2, <2>3 DEF Flock
<1>6. ASSUME NEW p \in Proc, WouldBlock(p) PROVE LocksAreHeld'
  BY <1>6 DEF WouldBlock, NextTarget
<1>7. ASSUME NEW p \in Proc, FlockFails(p) PROVE LocksAreHeld'
  BY <1>7 DEF FlockFails
<1>8. ASSUME NEW p \in Proc, GiveUp(p) PROVE LocksAreHeld'
  BY <1>8 DEF GiveUp
<1>9. ASSUME NEW p \in Proc, FoundEmpty(p) PROVE LocksAreHeld'
  BY <1>9 DEF FoundEmpty
<1>10. ASSUME NEW p \in Proc, FoundFull(p) PROVE LocksAreHeld'
  BY <1>10 DEF FoundFull, NextTarget, Release
<1>11. ASSUME NEW p \in Proc, FoundRoom(p) PROVE LocksAreHeld'
  BY <1>11 DEF FoundRoom
<1>12. ASSUME NEW p \in Proc, WriteMagic(p) PROVE LocksAreHeld'
  BY <1>12 DEF WriteMagic
<1>13. ASSUME NEW p \in Proc, WriteFileId(p) PROVE LocksAreHeld'
  BY <1>13 DEF WriteFileId
<1>14. ASSUME NEW p \in Proc, WriteHeader(p) PROVE LocksAreHeld'
  BY <1>14 DEF WriteHeader, PutRecord
<1>15. ASSUME NEW p \in Proc, CopySource(p) PROVE LocksAreHeld'
  BY <1>15 DEF CopySource, PutRecord
<1>16. ASSUME NEW p \in Proc, Close(p) PROVE LocksAreHeld'
  BY <1>16 DEF Close, Release
<1>17. ASSUME NEW p \in Proc, PrintPosition(p) PROVE LocksAreHeld'
  BY <1>17 DEF PrintPosition
<1>18. ASSUME NEW p \in Proc, UpdateHint(p) PROVE LocksAreHeld'
  BY <1>18 DEF UpdateHint
<1>19. ASSUME NEW p \in Proc, Die(p) PROVE LocksAreHeld'
  BY <1>19 DEF Die, Release
<1>20. CASE UNCHANGED vars
  BY <1>20 DEF vars
<1>21. QED
  BY <1>1, <1>2, <1>3, <1>4, <1>5, <1>6, <1>7, <1>8, <1>9, <1>10, <1>11,
     <1>12, <1>13, <1>14, <1>15, <1>16, <1>17, <1>18, <1>19, <1>20
  DEF Next, Step, AllEnded

(* As long as flock() fails with EWOULDBLOCK only, whoever looks at a file's *)
(* length or writes to it has the file's lock and no other, and the locks of *)
(* the invocations that left or died are free.                               *)
THEOREM LocksSafe ==
    ASSUME ~FlockMayFail PROVE Spec => []LocksAreHeld
<1>1. Init => LocksAreHeld
  BY CatFightAssumption DEF Init, LocksAreHeld, Writing
<1>2. /\ TypeOK /\ TargetExists /\ LocksAreHeld /\ [Next]_vars
      => LocksAreHeld'
  BY LocksStep
<1>3. QED
  BY <1>1, <1>2, TypeInvariant, PTL DEF Spec

-----------------------------------------------------------------------------
(* A lock has one holder: two invocations do not write to the same file.     *)
LEMMA OneWriter ==
    ASSUME LocksAreHeld, NEW p \in Proc, NEW q \in Proc,
           Writing(p), Writing(q), target_num[p] = target_num[q]
    PROVE  p = q
BY DEF LocksAreHeld

(* Appending n bytes to the record of the one writer of a file.              *)
LEMMA PutStep ==
    ASSUME TypeOK, TargetExists, LocksAreHeld, RecordsArePlaced, NoOverlap,
           NEW p \in Proc, pc[p] = "append", NEW n \in Nat, PutRecord(p, n),
           UNCHANGED <<lock, pc, target_num, seek>>
    PROVE  (RecordsArePlaced /\ NoOverlap)'
<1> DEFINE EndOf(q) == seek[q] + written[q]
<1>1. /\ written' \in [Proc -> Nat] /\ written'[p] = n
      /\ \A q \in Proc : q # p => written'[q] = written[q]
      /\ size' \in [File -> Nat]
      /\ \A f \in File : size[f] <= size'[f]
      /\ seek[p] + n <= size'[target_num[p]]
      /\ \A f \in File : f # target_num[p] => size'[f] = size[f]
  BY PutFacts DEF TargetExists, Writing, PutRecord, TypeOK
<1>2. \A q \in Proc : q # p /\ Writing(q) => target_num[q] # target_num[p]
  BY OneWriter DEF Writing
<1>3. \A q \in Proc : q # p /\ Begun(q)' => Begun(q)
  BY <1>1 DEF Begun
<1>4. ASSUME NEW q \in Proc, Begun(q)'
      PROVE  (/\ pc[q] \in {"append", "print", "write_hint"} \cup Ended
              /\ target_num[q] \in File
              /\ seek[q] + written[q] <= size[target_num[q]])'
  <2>1. CASE q = p
    BY <1>1, <2>1 DEF TargetExists, Writing
  <2>2. CASE q # p
    BY <1>1, <1>3, <1>4, <2>2 DEF TypeOK, RecordsArePlaced
  <2>3. QED
    BY <2>1, <2>2
<1>5. ASSUME NEW q \in Proc, pc[q] = "magic" \/ pc[q] = "file_id"
      PROVE  size'[target_num[q]] = size[target_num[q]]
  BY <1>1, <1>2, <1>5 DEF TargetExists, Writing
<1>6. ASSUME NEW q \in Proc, NEW r \in Proc, q # r, pc[q] = "append",
             Begun(r)', target_num[q] = target_num[r]
      PROVE  (seek[r] + written[r] <= seek[q])'
  <2>1. r # p
    BY <1>2, <1>6 DEF Writing
  <2>2. QED
    BY <1>1, <1>3, <1>6, <2>1 DEF RecordsArePlaced
<1>7. RecordsArePlaced'
  BY <1>4, <1>5, <1>6 DEF RecordsArePlaced
<1>8. ASSUME NEW q \in Proc, NEW r \in Proc, q # r,
             Begun(q)', Begun(r)', target_num[q] = target_num[r]
      PROVE  (\/ seek[q] + written[q] <= seek[r]
              \/ seek[r] + written[r] <= seek[q])'
  <2>1. CASE q = p
    BY <1>1, <1>3, <1>8, <2>1 DEF RecordsArePlaced
  <2>2. CASE r = p
    BY <1>1, <1>3, <1>8, <2>2 DEF RecordsArePlaced
  <2>3. CASE q # p /\ r # p
    BY <1>1, <1>3, <1>8, <2>3 DEF NoOverlap
  <2>4. QED
    BY <2>1, <2>2, <2>3
<1>9. NoOverlap'
  BY <1>8 DEF NoOverlap
<1>10. QED
  BY <1>7, <1>9

(* Every step appends behind what is in the file.                            *)
LEMMA PlacedStep ==
    ASSUME TypeOK, TargetExists, LocksAreHeld, RecordsArePlaced, NoOverlap,
           TypeOK', [Next]_vars
    PROVE  (RecordsArePlaced /\ NoOverlap)'
<1> DEFINE Goal == (RecordsArePlaced /\ NoOverlap)'
<1> USE DEF search, record
<1>1. ASSUME NEW p \in Proc, ReadHint(p) PROVE Goal
  BY <1>1 DEF ReadHint,
     RecordsArePlaced, NoOverlap, Begun, Goto, TypeOK, Ended
<1>2. ASSUME NEW p \in Proc, NoHintYet(p) PROVE Goal
  BY <1>2 DEF NoHintYet,
     RecordsArePlaced, NoOverlap, Begun, Goto, TypeOK, Ended
<1>3. ASSUME NEW p \in Proc, IgnoreHint(p) PROVE Goal
  BY <1>3 DEF IgnoreHint,
     RecordsArePlaced, NoOverlap, Begun, Goto, TypeOK, Ended
<1>4. ASSUME NEW p \in Proc, InitHint(p) PROVE Goal
  BY <1>4 DEF InitHint,
     RecordsArePlaced, NoOverlap, Begun, Goto, TypeOK, Ended
<1>5. ASSUME NEW p \in Proc, Flock(p) PROVE Goal
  BY <1>5 DEF Flock,
     RecordsArePlaced, NoOverlap, Begun, Goto, TypeOK, Ended
<1>6. ASSUME NEW p \in Proc, WouldBlock(p) PROVE Goal
  BY <1>6 DEF WouldBlock, NextTarget,
     RecordsArePlaced, NoOverlap, Begun, Goto, TypeOK, Ended
<1>7. ASSUME NEW p \in Proc, FlockFails(p) PROVE Goal
  BY <1>7 DEF FlockFails,
     RecordsArePlaced, NoOverlap, Begun, Goto, TypeOK, Ended
<1>8. ASSUME NEW p \in Proc, GiveUp(p) PROVE Goal
  BY <1>8 DEF GiveUp,
     RecordsArePlaced, NoOverlap, Begun, Goto, TypeOK, Ended
<1>9. ASSUME NEW p \in Proc, FoundEmpty(p) PROVE Goal
  BY <1>9 DEF FoundEmpty,
     RecordsArePlaced, NoOverlap, Begun, Goto, TypeOK, Ended
<1>10. ASSUME NEW p \in Proc, FoundFull(p) PROVE Goal
  BY <1>10 DEF FoundFull, NextTarget, Release,
     RecordsArePlaced, NoOverlap, Begun, Goto, TypeOK, Ended
<1>11. ASSUME NEW p \in Proc, FoundRoom(p) PROVE Goal
  <2>1. target_num[p] \in File /\ size[target_num[p]] \in Nat
    BY <1>11 DEF FoundRoom, TargetExists, Writing, TypeOK
  <2>2. size[target_num[p]] <= seek'[p]
    BY <1>11, <2>1, AlignFacts DEF FoundRoom, TypeOK
  <2>3. ~Begun(p)
    BY <1>11 DEF FoundRoom, RecordsArePlaced, Ended
  <2>4. \A q \in Proc : q # p => ~(Writing(q) /\ target_num[q] = target_num[p])
    BY <1>11, OneWriter DEF FoundRoom, Writing
  <2>5. \A q \in Proc : Begun(q) /\ target_num[q] = target_num[p]
                        => seek[q] + written[q] <= seek'[p]
    BY <2>1, <2>2 DEF RecordsArePlaced, TypeOK
  <2>6. QED
    BY <1>11, <2>1, <2>3, <2>4, <2>5
    DEF FoundRoom, RecordsArePlaced, NoOverlap, Begun, Goto, TypeOK, Ended
<1>12. ASSUME NEW p \in Proc, WriteMagic(p) PROVE Goal
  <2>1. target_num[p] \in File /\ size[target_num[p]] = 0
    BY <1>12 DEF WriteMagic, TargetExists, Writing, RecordsArePlaced
  <2>2. size' = [size EXCEPT ![target_num[p]] = 8]
    BY <1>12, <2>1 DEF WriteMagic, Larger
  <2>3. \A q \in Proc : q # p => ~(Writing(q) /\ target_num[q] = target_num[p])
    BY <1>12, OneWriter DEF WriteMagic, Writing
  <2>4. QED
    BY <1>12, <2>1, <2>2, <2>3
    DEF WriteMagic, RecordsArePlaced, NoOverlap, Begun, Goto, TypeOK, Ended,
        Writing
<1>13. ASSUME NEW p \in Proc, WriteFileId(p) PROVE Goal
  <2>1. target_num[p] \in File /\ size[target_num[p]] <= 8
        /\ size[target_num[p]] \in Nat
    BY <1>13 DEF WriteFileId, TargetExists, Writing, RecordsArePlaced, TypeOK
  <2>2. size' = [size EXCEPT ![target_num[p]] = 16]
    <3>1. Larger(size[target_num[p]], 16) = 16
      BY <2>1 DEF Larger
    <3>2. QED
      BY <1>13, <3>1 DEF WriteFileId
  <2>3. \A q \in Proc : q # p => ~(Writing(q) /\ target_num[q] = target_num[p])
    BY <1>13, OneWriter DEF WriteFileId, Writing
  <2>4. ~Begun(p)
    BY <1>13 DEF WriteFileId, RecordsArePlaced, Ended
  <2>5. \A q \in Proc : Begun(q) /\ target_num[q] = target_num[p]
                        => seek[q] + written[q] <= 16
    BY <2>1 DEF RecordsArePlaced, TypeOK
  <2>6. QED
    BY <1>13, <2>1, <2>2, <2>3, <2>4, <2>5
    DEF WriteFileId, RecordsArePlaced, NoOverlap, Begun, Goto, TypeOK, Ended,
        Writing
<1>14. ASSUME NEW p \in Proc, WriteHeader(p) PROVE Goal
  <2>1. PICK n \in HeaderEnds(p) : PutRecord(p, n)
    BY <1>14 DEF WriteHeader
  <2>2. n \in Nat
    BY LengthFacts DEF HeaderEnds
  <2>3. QED
    BY <1>14, <2>1, <2>2, PutStep DEF WriteHeader
<1>15. ASSUME NEW p \in Proc, CopySource(p) PROVE Goal
  <2>1. PICK n \in written[p] + 1 .. RecordLen(p) : PutRecord(p, n)
    BY <1>15 DEF CopySource
  <2>2. n \in Nat
    BY LengthFacts DEF TypeOK
  <2>3. QED
    BY <1>15, <2>1, <2>2, PutStep DEF CopySource
<1>16. ASSUME NEW p \in Proc, Close(p) PROVE Goal
  BY <1>16 DEF Close, Release,
     RecordsArePlaced, NoOverlap, Begun, Goto, TypeOK, Ended
<1>17. ASSUME NEW p \in Proc, PrintPosition(p) PROVE Goal
  BY <1>17 DEF PrintPosition,
     RecordsArePlaced, NoOverlap, Begun, Goto, TypeOK, Ended
<1>18. ASSUME NEW p \in Proc, UpdateHint(p) PROVE Goal
  BY <1>18 DEF UpdateHint,
     RecordsArePlaced, NoOverlap, Begun, Goto, TypeOK, Ended
<1>19. ASSUME NEW p \in Proc, Die(p) PROVE Goal
  BY <1>19 DEF Die, Release,
     RecordsArePlaced, NoOverlap, Begun, Goto, TypeOK, Ended
<1>20. CASE UNCHANGED vars
  BY <1>20 DEF vars, RecordsArePlaced, NoOverlap, Begun
<1>21. QED
  BY <1>1, <1>2, <1>3, <1>4, <1>5, <1>6, <1>7, <1>8, <1>9, <1>10, <1>11,
     <1>12, <1>13, <1>14, <1>15, <1>16, <1>17, <1>18, <1>19, <1>20
  DEF Next, Step, AllEnded

(* No byte of one record is written over another's, whatever the order and   *)
(* wherever invocations die, as long as the locks can be taken.              *)
THEOREM RecordsSafe ==
    ASSUME ~FlockMayFail PROVE Spec => []NoOverlap
<1>1. Init => RecordsArePlaced /\ NoOverlap
  BY DEF Init, RecordsArePlaced, NoOverlap, Begun
<1>2. /\ TypeOK /\ TargetExists /\ LocksAreHeld
      /\ RecordsArePlaced /\ NoOverlap
      /\ TypeOK'
      /\ [Next]_vars
      => (RecordsArePlaced /\ NoOverlap)'
  BY PlacedStep
<1>3. QED
  BY <1>1, <1>2, TypeInvariant, LocksSafe, PTL DEF Spec

-----------------------------------------------------------------------------
(* A position printed is the position of a record that is all there.         *)
LEMMA PrintedStep ==
    ASSUME TypeOK, TargetExists, RecordsArePlaced, PrintedIsWritten,
           TypeOK', [Next]_vars
    PROVE  PrintedIsWritten'
<1> USE CatFightAssumption
    DEF TypeOK, PrintedIsWritten, RecordLen, HeaderLen, PositionOf, Goto, Ended,
        search, record
<1>1. ASSUME NEW p \in Proc, ReadHint(p) PROVE PrintedIsWritten'
  BY <1>1 DEF ReadHint
<1>2. ASSUME NEW p \in Proc, NoHintYet(p) PROVE PrintedIsWritten'
  BY <1>2 DEF NoHintYet
<1>3. ASSUME NEW p \in Proc, IgnoreHint(p) PROVE PrintedIsWritten'
  BY <1>3 DEF IgnoreHint
<1>4. ASSUME NEW p \in Proc, InitHint(p) PROVE PrintedIsWritten'
  BY <1>4 DEF InitHint
<1>5. ASSUME NEW p \in Proc, Flock(p) PROVE PrintedIsWritten'
  BY <1>5 DEF Flock
<1>6. ASSUME NEW p \in Proc, WouldBlock(p) PROVE PrintedIsWritten'
  BY <1>6 DEF WouldBlock, NextTarget
<1>7. ASSUME NEW p \in Proc, FlockFails(p) PROVE PrintedIsWritten'
  BY <1>7 DEF FlockFails
<1>8. ASSUME NEW p \in Proc, GiveUp(p) PROVE PrintedIsWritten'
  BY <1>8 DEF GiveUp
<1>9. ASSUME NEW p \in Proc, FoundEmpty(p) PROVE PrintedIsWritten'
  BY <1>9 DEF FoundEmpty
<1>10. ASSUME NEW p \in Proc, FoundFull(p) PROVE PrintedIsWritten'
  BY <1>10 DEF FoundFull, NextTarget
<1>11. ASSUME NEW p \in Proc, FoundRoom(p) PROVE PrintedIsWritten'
  BY <1>11 DEF FoundRoom, Full
<1>12. ASSUME NEW p \in Proc, WriteMagic(p) PROVE PrintedIsWritten'
  BY <1>12 DEF WriteMagic
<1>13. ASSUME NEW p \in Proc, WriteFileId(p) PROVE PrintedIsWritten'
  BY <1>13 DEF WriteFileId
<1>14. ASSUME NEW p \in Proc, WriteHeader(p) PROVE PrintedIsWritten'
  BY <1>14 DEF WriteHeader, PutRecord
<1>15. ASSUME NEW p \in Proc, CopySource(p) PROVE PrintedIsWritten'
  BY <1>15 DEF CopySource, PutRecord
<1>16. ASSUME NEW p \in Proc, Close(p) PROVE PrintedIsWritten'
  BY <1>16 DEF Close, TargetExists, Writing
<1>17. ASSUME NEW p \in Proc, PrintPosition(p) PROVE PrintedIsWritten'
  BY <1>17 DEF PrintPosition, NotPrinted
<1>18. ASSUME NEW p \in Proc, UpdateHint(p) PROVE PrintedIsWritten'
  BY <1>18 DEF UpdateHint
<1>19. ASSUME NEW p \in Proc, Die(p) PROVE PrintedIsWritten'
  BY <1>19 DEF Die
<1>20. CASE UNCHANGED vars
  BY <1>20 DEF vars
<1>21. QED
  BY <1>1, <1>2, <1>3, <1>4, <1>5, <1>6, <1>7, <1>8, <1>9, <1>10, <1>11,
     <1>12, <1>13, <1>14, <1>15, <1>16, <1>17, <1>18, <1>19, <1>20
  DEF Next, Step, AllEnded

(* A position gives its file and its offset back.                            *)
LEMMA PositionFacts ==
    ASSUME NEW t \in Nat, NEW s \in Nat, s < BlockSize
    PROVE  FileOf(t * BlockSize + s) = t /\ OffsetOf(t * BlockSize + s) = s
<1>1. /\ (t * BlockSize + s) \div BlockSize = t
      /\ (t * BlockSize + s) % BlockSize = s
  BY CatFightAssumption
<1>2. QED
  BY <1>1 DEF FileOf, OffsetOf

(* Where records do not overlap, a record that is all there is what its      *)
(* position gives back, and nothing else is.                                 *)
LEMMA ReadBack ==
    ASSUME TypeOK, NoOverlap, PrintedIsWritten, ~WriteMayBeShort
    PROVE  PrintedReadsBack
<1> SUFFICES ASSUME NEW p \in Proc, printed[p] # NotPrinted
             PROVE  RecordsAt(printed[p]) = {p}
  BY DEF PrintedReadsBack
<1> DEFINE t == target_num[p]
           s == seek[p]
<1>1. /\ garbled = {} /\ written[p] = RecordLen(p)
      /\ t \in Nat /\ s \in Nat /\ s < BlockSize
      /\ printed[p] = t * BlockSize + s
  BY DEF PrintedIsWritten, PositionOf, TypeOK, File
<1>2. FileOf(printed[p]) = t /\ OffsetOf(printed[p]) = s
  BY <1>1, PositionFacts
<1>3. ASSUME NEW i \in 0 .. RecordLen(p) - 1
      PROVE  BytesAt(t, s + i) = {<<p, i>>}
  <2>1. i \in Nat /\ i < written[p] /\ RecordLen(p) \in Nat
    BY <1>1, LengthFacts
  <2>2. ASSUME NEW q \in Proc, target_num[q] = t, seek[q] <= s + i,
               s + i < seek[q] + written[q]
        PROVE  q = p
    <3>1. seek[q] \in Nat /\ written[q] \in Nat /\ written[p] \in Nat
      BY DEF TypeOK
    <3>2. Begun(p) /\ Begun(q)
      BY <1>1, <2>1, <2>2, <3>1 DEF Begun
    <3>3. QED
      BY <1>1, <2>1, <2>2, <3>1, <3>2 DEF NoOverlap
  <2>3. seek[p] <= s + i /\ s + i < seek[p] + written[p] /\ (s + i) - seek[p] = i
    BY <1>1, <2>1 DEF TypeOK
  <2>4. WritersOf(t, s + i) = {p}
    BY <2>2, <2>3 DEF WritersOf
  <2>5. \A e : e \in BytesAt(t, s + i) <=>
                 \E r \in WritersOf(t, s + i) : e = <<r, (s + i) - seek[r]>>
    BY DEF BytesAt
  <2>6. \A e : e \in BytesAt(t, s + i) <=> e = <<p, i>>
    BY <2>3, <2>4, <2>5
  <2>7. QED
    BY <2>6
<1>4. p \in RecordsAt(printed[p])
  BY <1>1, <1>2, <1>3 DEF RecordsAt
<1>5. ASSUME NEW q \in RecordsAt(printed[p]) PROVE q = p
  <2>1. q \in Proc /\ 0 \in 0 .. RecordLen(q) - 1 /\ 0 \in 0 .. RecordLen(p) - 1
    BY LengthFacts DEF RecordsAt
  <2>2. BytesAt(t, s + 0) = {<<q, 0>>}
    BY <1>2, <1>5, <2>1 DEF RecordsAt
  <2>3. BytesAt(t, s + 0) = {<<p, 0>>}
    BY <1>3, <2>1
  <2>4. <<q, 0>> = <<p, 0>>
    BY <2>2, <2>3
  <2>5. QED
    BY <2>4
<1>6. QED
  BY <1>4, <1>5

(* What is printed stays the position of a record that is all there.         *)
LEMMA PrintedInvariant ==
    ASSUME ~FlockMayFail, ~WriteMayBeShort
    PROVE  Spec => [](PrintedIsWritten /\ PrintedReadsBack)
<1>1. Init => PrintedIsWritten
  BY DEF Init, PrintedIsWritten
<1>2. Init => RecordsArePlaced /\ NoOverlap
  BY DEF Init, RecordsArePlaced, NoOverlap, Begun
<1>3. /\ TypeOK /\ TargetExists /\ LocksAreHeld
      /\ RecordsArePlaced /\ NoOverlap
      /\ TypeOK'
      /\ [Next]_vars
      => (RecordsArePlaced /\ NoOverlap)'
  BY PlacedStep
<1>4. /\ TypeOK /\ TargetExists /\ RecordsArePlaced /\ PrintedIsWritten
      /\ TypeOK'
      /\ [Next]_vars
      => PrintedIsWritten'
  BY PrintedStep
<1>5. TypeOK /\ NoOverlap /\ PrintedIsWritten => PrintedReadsBack
  BY ReadBack
<1>6. QED
  BY <1>1, <1>2, <1>3, <1>4, <1>5, TypeInvariant, LocksSafe, PTL DEF Spec

(* Whatever the other invocations do, and wherever they or the invocation    *)
(* itself die afterwards, -u with a printed position gives the record back.  *)
THEOREM PositionsSafe ==
    ASSUME ~FlockMayFail, ~WriteMayBeShort PROVE Spec => []PrintedReadsBack
<1>1. QED
  BY PrintedInvariant, PTL

-----------------------------------------------------------------------------
(* The refinement: the positions that have been printed, and what they give  *)
(* back.                                                                     *)
Printed == {printed[p] : p \in Proc} \ {NotPrinted}

Shown == [pos \in Printed |-> RecordsAt(pos)]

(* A position that is printed names the one block it is in.                  *)
LEMMA PositionInRange ==
    ASSUME NEW t \in File, NEW s \in Nat, s < BlockSize
    PROVE  t * BlockSize + s \in 0 .. MaxTarget * BlockSize - 1
<1>1. t \in Nat /\ t + 1 <= MaxTarget /\ BlockSize \in Nat /\ MaxTarget \in Nat
  BY CatFightAssumption DEF File
<1>2. (t + 1) * BlockSize <= MaxTarget * BlockSize
  BY <1>1
<1>3. (t + 1) * BlockSize = t * BlockSize + BlockSize
  BY <1>1
<1>4. t * BlockSize \in Nat /\ MaxTarget * BlockSize \in Nat
  BY <1>1, ProductFact
<1> QED
  BY <1>1, <1>2, <1>3, <1>4

LEMMA ReadsBackAt ==
    ASSUME PrintedReadsBack, NEW p \in Proc, NEW pos, printed[p] = pos, pos # NotPrinted
    PROVE  RecordsAt(pos) = {p}
BY DEF PrintedReadsBack

LEMMA ReadsBackNext ==
    ASSUME PrintedReadsBack', NEW p \in Proc, NEW pos, printed'[p] = pos, pos # NotPrinted
    PROVE  RecordsAt(pos)' = {p}
BY DEF PrintedReadsBack, RecordsAt, BytesAt, WritersOf, FileOf, OffsetOf, RecordLen, HeaderLen

(* Steps other than the printing show nothing new.                           *)
LEMMA ShownStays ==
    ASSUME PrintedReadsBack, PrintedReadsBack', UNCHANGED printed
    PROVE  UNCHANGED Shown
<1>1. Printed' = Printed
  BY DEF Printed
<1>2. ASSUME NEW pos \in Printed PROVE RecordsAt(pos)' = RecordsAt(pos)
  <2>1. PICK p \in Proc : printed[p] = pos /\ printed[p] # NotPrinted
    BY DEF Printed
  <2>2. RecordsAt(pos) = {p} /\ RecordsAt(pos)' = {p}
    BY <2>1, ReadsBackAt, ReadsBackNext
  <2> QED
    BY <2>2
<1> QED
  BY <1>1, <1>2 DEF Shown

(* The printing publishes.                                                   *)
LEMMA PrintPublishes ==
    ASSUME TypeOK, PrintedIsWritten, PrintedReadsBack, PrintedReadsBack',
           NEW p \in Proc, PrintPosition(p)
    PROVE  \E pos \in DOMAIN Shown' \ DOMAIN Shown :
               /\ pos \in 0 .. MaxTarget * BlockSize - 1
               /\ \A q \in DOMAIN Shown : Shown[q] # {p}
               /\ Shown' = [q \in DOMAIN Shown \cup {pos} |->
                                IF q = pos THEN {p} ELSE Shown[q]]
<1>0. PICK pos : pos = PositionOf(p)
  OBVIOUS
<1>1. /\ printed \in [Proc -> Nat \cup {NotPrinted}]
      /\ printed' = [printed EXCEPT ![p] = pos]
      /\ printed[p] = NotPrinted
  BY <1>0 DEF TypeOK, PrintPosition, PrintedIsWritten, Ended
<1>2. pos \in 0 .. MaxTarget * BlockSize - 1 /\ pos # NotPrinted
  <2>1. target_num[p] \in File /\ seek[p] \in Nat /\ seek[p] < BlockSize
    BY DEF TypeOK, PrintPosition, PrintedIsWritten
  <2>2. pos \in 0 .. MaxTarget * BlockSize - 1
    BY <1>0, <2>1, PositionInRange DEF PositionOf
  <2> QED
    BY <2>2 DEF NotPrinted
<1>3. Printed' = Printed \cup {pos}
  BY <1>1, <1>2 DEF Printed
<1>4. RecordsAt(pos)' = {p}
  BY <1>1, <1>2, ReadsBackNext
<1>5. ASSUME NEW q \in Printed
      PROVE  q # pos /\ RecordsAt(q)' = RecordsAt(q) /\ RecordsAt(q) # {p}
  <2>1. PICK r \in Proc : printed[r] = q /\ printed[r] # NotPrinted
    BY DEF Printed
  <2>2. r # p /\ printed'[r] = q
    BY <1>1, <2>1
  <2>3. RecordsAt(q) = {r} /\ RecordsAt(q)' = {r}
    BY <2>1, <2>2, ReadsBackAt, ReadsBackNext
  <2> QED
    BY <1>4, <2>2, <2>3
<1>6. DOMAIN Shown = Printed /\ DOMAIN Shown' = Printed'
  BY DEF Shown
<1>7. Shown' = [q \in Printed \cup {pos} |-> IF q = pos THEN {p} ELSE Shown[q]]
  BY <1>3, <1>4, <1>5 DEF Shown
<1>8. \A q \in Printed : Shown[q] # {p}
  BY <1>5 DEF Shown
<1> QED
  BY <1>2, <1>3, <1>5, <1>6, <1>7, <1>8

(* Seen through what the printed positions give back, catfight is a store:   *)
(* positions are published once, never moved, overwritten or used again,     *)
(* however invocations interleave and wherever they die.                     *)
THEOREM StoreImplemented ==
    ASSUME ~FlockMayFail, ~WriteMayBeShort PROVE Spec => ImplementsStore
<1> USE DEF ImplementsStore
<1>1. Init => Store!Init
  <2> SUFFICES ASSUME Init PROVE Store!Init
    OBVIOUS
  <2>1. Printed = {}
    BY DEF Init, Printed
  <2> QED
    BY <2>1 DEF Store!Init, Printed
<1>2. /\ TypeOK /\ PrintedIsWritten /\ PrintedReadsBack /\ PrintedReadsBack'
      /\ [Next]_vars
      => [Store!Next]_Shown
  <2> SUFFICES ASSUME TypeOK, PrintedIsWritten, PrintedReadsBack, PrintedReadsBack',
                      [Next]_vars
               PROVE  [Store!Next]_Shown
    OBVIOUS
  <2>1. ASSUME NEW p \in Proc, PrintPosition(p) PROVE Store!Next
    <3>1. Store!Publish(p)
      BY <2>1, PrintPublishes DEF Store!Publish, Shown, Printed
    <3> QED
      BY <3>1 DEF Store!Next
  <2>2. CASE UNCHANGED printed
    BY <2>2, ShownStays
  <2>3. (\E p \in Proc : PrintPosition(p)) \/ UNCHANGED printed
    BY DEF Next, Step, AllEnded, vars, ReadHint, NoHintYet, IgnoreHint, InitHint, Flock,
           WouldBlock, FlockFails, GiveUp, FoundEmpty, FoundFull, FoundRoom, WriteMagic,
           WriteFileId, WriteHeader, CopySource, Close, UpdateHint, Die
  <2> QED
    BY <2>1, <2>2, <2>3
<1> QED
  BY <1>1, <1>2, PrintedInvariant, TypeInvariant, PTL DEF Spec, Store!Spec, Shown, Printed

-----------------------------------------------------------------------------
(* A record once begun stays in its file.                                    *)
LEMMA BegunStays ==
    ASSUME TypeOK, TargetExists, BegunAppends, [Next]_vars
    PROVE  /\ BegunAppends'
           /\ \A q \in Proc : Begun(q) => /\ Begun(q)'
                                          /\ target_num'[q] = target_num[q]
<1> DEFINE Goal == /\ BegunAppends'
                   /\ \A q \in Proc : Begun(q) =>
                        /\ Begun(q)'
                        /\ target_num'[q] = target_num[q]
<1> USE DEF BegunAppends, Begun, TypeOK, Goto, Ended, search, record
<1>1. ASSUME NEW p \in Proc, ReadHint(p) PROVE Goal
  BY <1>1 DEF ReadHint
<1>2. ASSUME NEW p \in Proc, NoHintYet(p) PROVE Goal
  BY <1>2 DEF NoHintYet
<1>3. ASSUME NEW p \in Proc, IgnoreHint(p) PROVE Goal
  BY <1>3 DEF IgnoreHint
<1>4. ASSUME NEW p \in Proc, InitHint(p) PROVE Goal
  BY <1>4 DEF InitHint
<1>5. ASSUME NEW p \in Proc, Flock(p) PROVE Goal
  BY <1>5 DEF Flock
<1>6. ASSUME NEW p \in Proc, WouldBlock(p) PROVE Goal
  BY <1>6 DEF WouldBlock, NextTarget
<1>7. ASSUME NEW p \in Proc, FlockFails(p) PROVE Goal
  BY <1>7 DEF FlockFails
<1>8. ASSUME NEW p \in Proc, GiveUp(p) PROVE Goal
  BY <1>8 DEF GiveUp
<1>9. ASSUME NEW p \in Proc, FoundEmpty(p) PROVE Goal
  BY <1>9 DEF FoundEmpty
<1>10. ASSUME NEW p \in Proc, FoundFull(p) PROVE Goal
  BY <1>10 DEF FoundFull, NextTarget
<1>11. ASSUME NEW p \in Proc, FoundRoom(p) PROVE Goal
  BY <1>11 DEF FoundRoom
<1>12. ASSUME NEW p \in Proc, WriteMagic(p) PROVE Goal
  BY <1>12 DEF WriteMagic
<1>13. ASSUME NEW p \in Proc, WriteFileId(p) PROVE Goal
  BY <1>13 DEF WriteFileId
<1>14. ASSUME NEW p \in Proc, WriteHeader(p) PROVE Goal
  <2>1. PICK n \in HeaderEnds(p) : n > written[p] /\ PutRecord(p, n)
    BY <1>14 DEF WriteHeader
  <2>2. n \in Nat
    BY LengthFacts DEF HeaderEnds
  <2>3. QED
    BY <1>14, <2>1, <2>2 DEF WriteHeader, PutRecord
<1>15. ASSUME NEW p \in Proc, CopySource(p) PROVE Goal
  <2>1. PICK n \in written[p] + 1 .. RecordLen(p) : PutRecord(p, n)
    BY <1>15 DEF CopySource
  <2>2. n \in Nat /\ n > 0
    BY LengthFacts
  <2>3. QED
    BY <1>15, <2>1, <2>2 DEF CopySource, PutRecord
<1>16. ASSUME NEW p \in Proc, Close(p) PROVE Goal
  BY <1>16 DEF Close
<1>17. ASSUME NEW p \in Proc, PrintPosition(p) PROVE Goal
  BY <1>17 DEF PrintPosition
<1>18. ASSUME NEW p \in Proc, UpdateHint(p) PROVE Goal
  BY <1>18 DEF UpdateHint
<1>19. ASSUME NEW p \in Proc, Die(p) PROVE Goal
  BY <1>19 DEF Die
<1>20. CASE UNCHANGED vars
  BY <1>20 DEF vars
<1>21. QED
  BY <1>1, <1>2, <1>3, <1>4, <1>5, <1>6, <1>7, <1>8, <1>9, <1>10, <1>11,
     <1>12, <1>13, <1>14, <1>15, <1>16, <1>17, <1>18, <1>19, <1>20
  DEF Next, Step, AllEnded

(* Only records make a file longer than its own header of 16 bytes.          *)
LEMMA FilledStep ==
    ASSUME TypeOK, TargetExists, BegunAppends, FilledHasRecord, [Next]_vars
    PROVE  FilledHasRecord'
<1>1. \A f \in File : (\E q \in Proc : Begun(q) /\ target_num[q] = f)
                      => (\E q \in Proc : Begun(q) /\ target_num[q] = f)'
  BY BegunStays
<1>2. ASSUME NEW f \in File, size'[f] > 16,
             \A g \in File : size'[g] > 16 => size[g] > 16
      PROVE  (\E q \in Proc : Begun(q) /\ target_num[q] = f)'
  BY <1>1, <1>2 DEF FilledHasRecord
<1>3. ASSUME \A g \in File : size'[g] > 16 => size[g] > 16
      PROVE  FilledHasRecord'
  BY <1>2, <1>3 DEF FilledHasRecord
<1>4. ASSUME NEW p \in Proc, target_num[p] \in File, NEW n \in Nat, n > 0,
             PutRecord(p, n), UNCHANGED target_num
      PROVE  FilledHasRecord'
  <2>1. Begun(p)'
    BY <1>4, PutFacts DEF Begun
  <2>2. \A f \in File : f # target_num[p] => size'[f] = size[f]
    BY <1>4 DEF PutRecord, TypeOK
  <2>3. QED
    BY <1>1, <1>4, <2>1, <2>2 DEF FilledHasRecord
<1>5. ASSUME NEW p \in Proc, WriteMagic(p) PROVE FilledHasRecord'
  BY <1>3, <1>5 DEF WriteMagic, TypeOK, TargetExists, Writing, Larger
<1>6. ASSUME NEW p \in Proc, WriteFileId(p) PROVE FilledHasRecord'
  BY <1>3, <1>6 DEF WriteFileId, TypeOK, TargetExists, Writing, Larger
<1>7. ASSUME NEW p \in Proc, WriteHeader(p) PROVE FilledHasRecord'
  <2>1. PICK n \in HeaderEnds(p) : n > written[p] /\ PutRecord(p, n)
    BY <1>7 DEF WriteHeader
  <2>2. n \in Nat /\ n > 0
    BY <2>1, LengthFacts DEF HeaderEnds
  <2>3. target_num[p] \in File /\ UNCHANGED target_num
    BY <1>7 DEF WriteHeader, TargetExists, Writing, search
  <2>4. QED
    BY <1>4, <2>1, <2>2, <2>3
<1>8. ASSUME NEW p \in Proc, CopySource(p) PROVE FilledHasRecord'
  <2>1. PICK n \in written[p] + 1 .. RecordLen(p) : PutRecord(p, n)
    BY <1>8 DEF CopySource
  <2>2. n \in Nat /\ n > 0
    BY LengthFacts DEF TypeOK
  <2>3. target_num[p] \in File /\ UNCHANGED target_num
    BY <1>8 DEF CopySource, TargetExists, Writing, search
  <2>4. QED
    BY <1>4, <2>1, <2>2, <2>3
<1>9. CASE UNCHANGED size
  BY <1>3, <1>9
<1>10. QED
  BY <1>5, <1>6, <1>7, <1>8, <1>9
  DEF Next, Step, AllEnded, vars, ReadHint, NoHintYet, IgnoreHint, InitHint,
      Flock, WouldBlock, FlockFails, GiveUp, FoundEmpty, FoundFull, FoundRoom,
      Close, PrintPosition, UpdateHint, Die

(* A lock is taken for a file by who goes on to look at it, and given up by  *)
(* who leaves it.                                                            *)
LEMMA HolderStep ==
    ASSUME TypeOK, TargetExists, HolderIsWriting, [Next]_vars
    PROVE  HolderIsWriting'
<1> USE CatFightAssumption
    DEF TypeOK, TargetExists, HolderIsWriting, Writing, Goto, Ended,
        search, record
<1>1. ASSUME NEW p \in Proc, ReadHint(p) PROVE HolderIsWriting'
  BY <1>1 DEF ReadHint
<1>2. ASSUME NEW p \in Proc, NoHintYet(p) PROVE HolderIsWriting'
  BY <1>2 DEF NoHintYet
<1>3. ASSUME NEW p \in Proc, IgnoreHint(p) PROVE HolderIsWriting'
  BY <1>3 DEF IgnoreHint
<1>4. ASSUME NEW p \in Proc, InitHint(p) PROVE HolderIsWriting'
  BY <1>4 DEF InitHint
<1>5. ASSUME NEW p \in Proc, Flock(p) PROVE HolderIsWriting'
  BY <1>5 DEF Flock
<1>6. ASSUME NEW p \in Proc, WouldBlock(p) PROVE HolderIsWriting'
  BY <1>6 DEF WouldBlock, NextTarget
<1>7. ASSUME NEW p \in Proc, FlockFails(p) PROVE HolderIsWriting'
  BY <1>7 DEF FlockFails
<1>8. ASSUME NEW p \in Proc, GiveUp(p) PROVE HolderIsWriting'
  BY <1>8 DEF GiveUp
<1>9. ASSUME NEW p \in Proc, FoundEmpty(p) PROVE HolderIsWriting'
  BY <1>9 DEF FoundEmpty
<1>10. ASSUME NEW p \in Proc, FoundFull(p) PROVE HolderIsWriting'
  BY <1>10 DEF FoundFull, NextTarget, Release
<1>11. ASSUME NEW p \in Proc, FoundRoom(p) PROVE HolderIsWriting'
  BY <1>11 DEF FoundRoom
<1>12. ASSUME NEW p \in Proc, WriteMagic(p) PROVE HolderIsWriting'
  BY <1>12 DEF WriteMagic
<1>13. ASSUME NEW p \in Proc, WriteFileId(p) PROVE HolderIsWriting'
  BY <1>13 DEF WriteFileId
<1>14. ASSUME NEW p \in Proc, WriteHeader(p) PROVE HolderIsWriting'
  BY <1>14 DEF WriteHeader, PutRecord
<1>15. ASSUME NEW p \in Proc, CopySource(p) PROVE HolderIsWriting'
  BY <1>15 DEF CopySource, PutRecord
<1>16. ASSUME NEW p \in Proc, Close(p) PROVE HolderIsWriting'
  BY <1>16 DEF Close, Release
<1>17. ASSUME NEW p \in Proc, PrintPosition(p) PROVE HolderIsWriting'
  BY <1>17 DEF PrintPosition
<1>18. ASSUME NEW p \in Proc, UpdateHint(p) PROVE HolderIsWriting'
  BY <1>18 DEF UpdateHint
<1>19. ASSUME NEW p \in Proc, Die(p) PROVE HolderIsWriting'
  BY <1>19 DEF Die, Release
<1>20. CASE UNCHANGED vars
  BY <1>20 DEF vars
<1>21. QED
  BY <1>1, <1>2, <1>3, <1>4, <1>5, <1>6, <1>7, <1>8, <1>9, <1>10, <1>11,
     <1>12, <1>13, <1>14, <1>15, <1>16, <1>17, <1>18, <1>19, <1>20
  DEF Next, Step, AllEnded

(* A full file has a record: its header alone is shorter than any block.     *)
LEMMA FullHasRecord ==
    ASSUME TypeOK, FilledHasRecord, NEW f \in File, Full(f)
    PROVE  \E q \in Proc : Begun(q) /\ target_num[q] = f
<1>1. size[f] \in Nat
  BY DEF TypeOK
<1>2. size[f] > 16
  BY <1>1, CatFightAssumption DEF Full, Align
<1>3. QED
  BY <1>2 DEF FilledHasRecord

(* A file that is occupied stays so: who leaves it for being full leaves it  *)
(* to whoever filled it, and who dies there never moves on.                  *)
LEMMA OccupiedStays ==
    ASSUME TypeOK, TargetExists, BegunAppends, FilledHasRecord, [Next]_vars,
           NEW f \in File, \E q \in Proc : Occupies(q, f)
    PROVE  (\E q \in Proc : Occupies(q, f))'
<1> PICK q \in Proc : Occupies(q, f)
  OBVIOUS
<1>1. ASSUME NEW r \in Proc, Begun(r), target_num[r] = f
      PROVE  (\E s \in Proc : Occupies(s, f))'
  BY <1>1, BegunStays DEF Occupies
<1>2. CASE FoundFull(q)
  <2>1. Full(f)
    BY <1>2, <1>1 DEF FoundFull, Occupies
  <2>2. QED
    BY <1>1, <2>1, FullHasRecord
<1>3. CASE ~Begun(q) /\ ~FoundFull(q)
  <2> DEFINE Goal == Occupies(q, f)'
  <2>1. pc[q] \in {"lseek", "magic", "file_id", "append", "dead"}
        /\ target_num[q] = f
    BY <1>3 DEF Occupies, Writing
  <2> USE <2>1 DEF Occupies, Begun, Writing, TypeOK, Goto, Ended, search, record
  <2>2. ASSUME NEW p \in Proc, ReadHint(p) PROVE Goal
    BY <2>2 DEF ReadHint
  <2>3. ASSUME NEW p \in Proc, NoHintYet(p) PROVE Goal
    BY <2>3 DEF NoHintYet
  <2>4. ASSUME NEW p \in Proc, IgnoreHint(p) PROVE Goal
    BY <2>4 DEF IgnoreHint
  <2>5. ASSUME NEW p \in Proc, InitHint(p) PROVE Goal
    BY <2>5 DEF InitHint
  <2>6. ASSUME NEW p \in Proc, Flock(p) PROVE Goal
    BY <2>6 DEF Flock
  <2>7. ASSUME NEW p \in Proc, WouldBlock(p) PROVE Goal
    BY <2>7 DEF WouldBlock, NextTarget
  <2>8. ASSUME NEW p \in Proc, FlockFails(p) PROVE Goal
    BY <2>8 DEF FlockFails
  <2>9. ASSUME NEW p \in Proc, GiveUp(p) PROVE Goal
    BY <2>9 DEF GiveUp
  <2>10. ASSUME NEW p \in Proc, FoundEmpty(p) PROVE Goal
    BY <2>10 DEF FoundEmpty
  <2>11. ASSUME NEW p \in Proc, FoundFull(p) PROVE Goal
    BY <1>3, <2>11 DEF FoundFull, NextTarget
  <2>12. ASSUME NEW p \in Proc, FoundRoom(p) PROVE Goal
    BY <2>12 DEF FoundRoom
  <2>13. ASSUME NEW p \in Proc, WriteMagic(p) PROVE Goal
    BY <2>13 DEF WriteMagic
  <2>14. ASSUME NEW p \in Proc, WriteFileId(p) PROVE Goal
    BY <2>14 DEF WriteFileId
  <2>15. ASSUME NEW p \in Proc, WriteHeader(p) PROVE Goal
    BY <2>15 DEF WriteHeader
  <2>16. ASSUME NEW p \in Proc, CopySource(p) PROVE Goal
    BY <2>16 DEF CopySource
  <2>17. ASSUME NEW p \in Proc, Close(p) PROVE Goal
    <3>1. Begun(p)
      BY <2>17, LengthFacts DEF Close
    <3>2. QED
      BY <1>3, <2>17, <3>1 DEF Close
  <2>18. ASSUME NEW p \in Proc, PrintPosition(p) PROVE Goal
    BY <2>18 DEF PrintPosition
  <2>19. ASSUME NEW p \in Proc, UpdateHint(p) PROVE Goal
    BY <2>19 DEF UpdateHint
  <2>20. ASSUME NEW p \in Proc, Die(p) PROVE Goal
    BY <2>20 DEF Die
  <2>21. ASSUME UNCHANGED vars PROVE Goal
    BY <2>21 DEF vars
  <2> HIDE <2>1 DEF Occupies, Begun, Writing, TypeOK, Goto, Ended
  <2>22. Goal
    BY <2>2, <2>3, <2>4, <2>5, <2>6, <2>7, <2>8, <2>9, <2>10, <2>11, <2>12,
       <2>13, <2>14, <2>15, <2>16, <2>17, <2>18, <2>19, <2>20, <2>21
    DEF Next, Step, AllEnded
  <2>23. QED
    BY <2>22
<1>4. QED
  BY <1>1, <1>2, <1>3 DEF Occupies

(* Whoever moves on to the next file passes over one that is locked or full. *)
LEMMA PassedOccupiedStep ==
    ASSUME TypeOK, TargetExists, HintIsSound, BegunAppends, FilledHasRecord,
           HolderIsWriting, PassedAreOccupied, [Next]_vars
    PROVE  PassedAreOccupied'
<1>1. ASSUME NEW p \in Proc, NEW f \in File, f < target_num[p]
      PROVE  (\E q \in Proc : Occupies(q, f))'
  BY <1>1, OccupiedStays DEF PassedAreOccupied
<1>2. ASSUME NEW f \in File, Full(f)
      PROVE  (\E q \in Proc : Occupies(q, f))'
  <2>1. \E q \in Proc : Occupies(q, f)
    BY <1>2, FullHasRecord DEF Occupies
  <2>2. QED
    BY <2>1, OccupiedStays
<1>3. ASSUME NEW f \in File, ~Unlocked(f)
      PROVE  (\E q \in Proc : Occupies(q, f))'
  <2>1. lock[f] \in Proc
    BY <1>3 DEF Unlocked, TypeOK
  <2>2. Occupies(lock[f], f)
    BY <2>1 DEF HolderIsWriting, Occupies
  <2>3. QED
    BY <2>1, <2>2, OccupiedStays
<1>4. ASSUME NEW p \in Proc, NEW f \in File, f < target_num'[p]
      PROVE  f < target_num[p] \/ Full(f) \/ ~Unlocked(f)
  <2> SUFFICES ASSUME ~(f < target_num[p])
               PROVE  Full(f) \/ ~Unlocked(f)
    OBVIOUS
  <2> USE <1>4 DEF TypeOK, File, search
  <2>1. ASSUME ReadHint(p) PROVE Full(f)
    BY <2>1 DEF ReadHint, HintIsSound
  <2>2. ASSUME WouldBlock(p) PROVE ~Unlocked(f)
    BY <2>2 DEF WouldBlock, NextTarget
  <2>3. ASSUME FoundFull(p) PROVE Full(f)
    BY <2>3 DEF FoundFull, NextTarget
  <2>4. ASSUME NEW q \in Proc, q # p,
               ReadHint(q) \/ WouldBlock(q) \/ FoundFull(q)
        PROVE  FALSE
    BY <2>4 DEF ReadHint, WouldBlock, FoundFull, NextTarget
  <2>5. CASE UNCHANGED target_num
    BY <2>5
  <2>6. QED
    BY <2>1, <2>2, <2>3, <2>4, <2>5
    DEF Next, Step, AllEnded, vars, NoHintYet, IgnoreHint, InitHint, Flock,
        FlockFails, GiveUp, FoundEmpty, FoundRoom, WriteMagic, WriteFileId,
        WriteHeader, CopySource, Close, PrintPosition, UpdateHint, Die
<1>5. QED
  BY <1>1, <1>2, <1>3, <1>4 DEF PassedAreOccupied

(* Nobody occupies two files, nor one of those it has passed: with as many   *)
(* files as invocations, none passes over all of them.                       *)
LEMMA FilesSuffice ==
    ASSUME IsFiniteSet(Proc), Cardinality(Proc) <= MaxTarget,
           TypeOK, PassedAreOccupied, NEW p \in Proc
    PROVE  target_num[p] < MaxTarget
<1> SUFFICES ASSUME ~(target_num[p] < MaxTarget) PROVE FALSE
  OBVIOUS
<1> DEFINE Rest == Proc \ {p}
<1> DEFINE at   == [f \in File |-> CHOOSE q \in Proc : Occupies(q, f)]
<1>1. target_num[p] = MaxTarget /\ MaxTarget \in Nat
  <2>1. target_num[p] \in 0 .. MaxTarget
    BY DEF TypeOK
  <2>2. QED
    BY <2>1, CatFightAssumption
<1>2. ASSUME NEW f \in File
      PROVE  at[f] \in Rest /\ target_num[at[f]] = f
  <2>1. f < target_num[p]
    BY <1>1 DEF File
  <2>2. \E q \in Proc : Occupies(q, f)
    BY <2>1 DEF PassedAreOccupied
  <2>3. at[f] \in Proc /\ Occupies(at[f], f)
    BY <2>2
  <2>4. target_num[at[f]] = f
    BY <2>3 DEF Occupies
  <2>5. at[f] # p
    BY <2>1, <2>4, <1>1 DEF File
  <2>6. QED
    BY <2>3, <2>4, <2>5
<1>3. at \in [File -> Rest]
  BY <1>2
<1>4. IsFiniteSet(File) /\ Cardinality(File) = MaxTarget
  BY <1>1, FS_Interval DEF File
<1>5. IsFiniteSet(Rest) /\ Cardinality(Rest) = Cardinality(Proc) - 1
  BY FS_RemoveElement
<1>6. Cardinality(Proc) \in Nat
  BY FS_CardinalityType
<1>7. Cardinality(Rest) < Cardinality(File)
  BY <1>1, <1>4, <1>5, <1>6
<1> HIDE DEF at, Rest
<1>8. PICK f, g \in File : f # g /\ at[f] = at[g]
  BY <1>3, <1>4, <1>5, <1>7, FS_PigeonHole
<1>9. QED
  BY <1>2, <1>8

LEMMA SearchStep ==
    ASSUME IsFiniteSet(Proc), Cardinality(Proc) <= MaxTarget,
           TypeOK, TargetExists, HintIsSound, SearchInv, [Next]_vars
    PROVE  SearchInv'
<1> DEFINE Goal == \A q \in Proc : pc'[q] \in {"write_hint", "done"} =>
                                       printed'[q] # NotPrinted
<1> USE DEF SearchInv, TypeOK, Goto
<1>1. ASSUME NEW p \in Proc, GiveUp(p) PROVE Goal
  <2>1. target_num[p] < MaxTarget
    BY FilesSuffice
  <2>2. ~(target_num[p] >= MaxTarget)
    BY <2>1, CatFightAssumption
  <2>3. QED
    BY <1>1, <2>2 DEF GiveUp
<1>2. ASSUME NEW p \in Proc, PrintPosition(p) PROVE Goal
  <2>1. target_num[p] * BlockSize \in Nat
    BY ProductFact, CatFightAssumption
  <2>2. PositionOf(p) # NotPrinted
    BY <2>1 DEF PositionOf, NotPrinted
  <2>3. QED
    BY <1>2, <2>2 DEF PrintPosition
<1>3. ASSUME NEW p \in Proc, Step(p) \/ Die(p), ~GiveUp(p), ~PrintPosition(p)
      PROVE  Goal
  BY <1>3
  DEF Step, ReadHint, NoHintYet, IgnoreHint, InitHint, Flock, WouldBlock,
      FlockFails, FoundEmpty, FoundFull, FoundRoom, WriteMagic, WriteFileId,
      WriteHeader, CopySource, Close, UpdateHint, Die
<1>4. ASSUME UNCHANGED vars PROVE Goal
  BY <1>4 DEF vars
<1> HIDE DEF SearchInv, TypeOK, Goto
<1>5. Goal
  BY <1>1, <1>2, <1>3, <1>4 DEF Next, AllEnded
<1>6. BegunAppends' /\ FilledHasRecord' /\ HolderIsWriting'
  BY BegunStays, FilledStep, HolderStep DEF SearchInv
<1>7. PassedAreOccupied'
  BY PassedOccupiedStep DEF SearchInv
<1>8. QED
  BY <1>5, <1>6, <1>7 DEF SearchInv

(* An invocation that ends with status 0 has archived its file and printed   *)
(* where, whatever the others do, wherever they die and however flock() and  *)
(* write() fail, if there are as many block files as invocations: main ends  *)
(* with 0 and without a line only after it passed over all 2^64.             *)
THEOREM SuccessSafe ==
    ASSUME IsFiniteSet(Proc), Cardinality(Proc) <= MaxTarget
    PROVE  Spec => []SuccessIsPrinted
<1>1. Init => SearchInv
  BY CatFightAssumption
  DEF Init, SearchInv, BegunAppends, FilledHasRecord, HolderIsWriting,
      PassedAreOccupied, Begun, File
<1>2. /\ TypeOK /\ TargetExists /\ HintIsSound /\ SearchInv /\ [Next]_vars
      => SearchInv'
  BY SearchStep
<1>3. SearchInv => SuccessIsPrinted
  BY DEF SearchInv, SuccessIsPrinted
<1>4. QED
  BY <1>1, <1>2, <1>3, TypeInvariant, HintSafe, PTL DEF Spec
=============================================================================
