---------------------------- MODULE XLinesProofs ----------------------------
(* That the lines are dealt whole and in order, and that none is lost: for   *)
(* any input, any number of commands, and buffers and pipes of any size.     *)
EXTENDS XLines, FiniteSetTheorems, SequenceTheorems, TLAPS

ChildLabel == {"none", "open", "unlink", "exec", "run", "exited", "killed"}

XLinesType ==
    /\ newline \in SUBSET Byte
    /\ t \in Child
    /\ read \in 0 .. InputLen
    /\ output \in Child
    /\ child \in [Child -> ChildLabel]
    /\ path \in [Child -> {"none", "fifo", "file"}]
    /\ opened \in [Child -> BOOLEAN]
    /\ writer \in [Child -> {"none", "open", "closed", "null"}]
    /\ buffer \in [Child -> Seq(Byte)]
    /\ fifo \in [Child -> Seq(Byte)]
    /\ got \in [Child -> Seq(Byte)]

(* The name of the fifo is there from the fork to the child's unlink; fopen  *)
(* makes a regular file only for a child whose freopen has failed.           *)
NameOk(c) ==
    /\ child[c] = "none" => path[c] = "none"
    /\ child[c] \in {"open", "unlink", "killed"} => path[c] = "fifo"
    /\ child[c] \in {"exec", "run", "exited"} => path[c] \in {"none", "file"}
    /\ path[c] = "file" => ~opened[c]

NameOfFifo == \A c \in Child : NameOk(c)

(* A child opens the fifo only together with the parent; when it has gone on *)
(* without, what the parent gets is a regular file.                          *)
OpenOk(c) ==
    /\ opened[c] =>
          writer[c] \in {"open", "closed"} /\ child[c] \in {"unlink", "exec", "run", "exited"}
    /\ ~opened[c] /\ writer[c] \in {"open", "closed"} =>
          child[c] \in {"open", "killed"} \/ path[c] = "file"

OpenedTogether == \A c \in Child : OpenOk(c)

(* How far the parent is with its children, and with their fifos.            *)
SoFar ==
    /\ pc = "fork" => \A c \in Child : c < t => child[c] # "none"
    /\ pc \notin {"fork", "failed"} => \A c \in Child : child[c] # "none"
    /\ pc = "waitpid" => \A c \in Child : c < t => Ended(c)
    /\ pc \in {"rmdir", "done", "litter"} => \A c \in Child : Ended(c)

WritersSoFar ==
    \A c \in Child :
        /\ pc \in {"fopen", "fopen_fifo"} =>
              IF c < t THEN writer[c] \in {"open", "null"} ELSE writer[c] = "none"
        /\ pc = "fclose" =>
              IF c < t THEN writer[c] = "closed" ELSE writer[c] \in {"open", "null"}
        /\ pc \in {"fork", "failed"} => writer[c] = "none"
        /\ pc \in {"getchar", "flush"} => writer[c] \in {"open", "null"}
        /\ pc \in {"waitpid", "rmdir", "done", "litter"} => writer[c] = "closed"

(* A fifo is closed when stdio has written everything, unless a signal has   *)
(* ended the parent; the first is closed at the end of the input.            *)
ClosedIsWritten ==
    /\ \A c \in Child :
          writer[c] = "closed" /\ pc \notin {"killed", "crashed"} => buffer[c] = <<>>
    /\ pc \in {"fclose", "waitpid", "rmdir", "done", "litter"} => read = InputLen

(* It is the turn of the child that is to get the next byte.                 *)
TurnIsRight == output = LineOf(read + 1) % Parallelism

(* Litter is the name of a fifo that its child has never opened, or of the   *)
(* file in its place.                                                        *)
LitterTells == pc \in {"done", "litter"} => (pc = "done" <=> \A c \in Child : opened[c])

XLinesInv ==
    /\ XLinesType /\ NameOfFifo /\ OpenedTogether /\ SoFar /\ WritersSoFar
    /\ ClosedIsWritten /\ TurnIsRight /\ LitterTells /\ LinesAreDealt

-----------------------------------------------------------------------------
(* The remainder of a division is unique.                                    *)
LEMMA ModUnique ==
    ASSUME NEW p \in Nat \ {0}, NEW q \in Nat, NEW r \in 0 .. p - 1
    PROVE  (p * q + r) % p = r
<1> DEFINE x == p * q + r
           d == x \div p
           m == x % p
<1>1. x \in Nat /\ p * q \in Nat
  OBVIOUS
<1> HIDE DEF x
<1>2. d \in Nat /\ m \in 0 .. p - 1 /\ x = p * d + m
  BY <1>1
<1> HIDE DEF d, m
<1>3. p * q + r = p * d + m
  BY <1>2 DEF x
<1>4. ASSUME q < d PROVE FALSE
  <2>1. PICK k \in Nat \ {0} : d = q + k
    <3>1. d - q \in Nat \ {0} /\ d = q + (d - q)
      BY <1>2, <1>4
    <3> QED
      BY <3>1
  <2>2. p * d = p * q + p * k /\ p * k >= p
    BY <2>1
  <2> QED
    BY <1>2, <1>3, <2>2
<1>5. ASSUME d < q PROVE FALSE
  <2>1. PICK k \in Nat \ {0} : q = d + k
    <3>1. q - d \in Nat \ {0} /\ q = d + (q - d)
      BY <1>2, <1>5
    <3> QED
      BY <3>1
  <2>2. p * q = p * d + p * k /\ p * k >= p
    BY <1>2, <2>1
  <2> QED
    BY <1>2, <1>3, <2>2
<1>6. q = d
  BY <1>2, <1>4, <1>5
<1> QED
  BY <1>2, <1>3, <1>6 DEF x, m

(* Modulo one more.                                                          *)
LEMMA ModSuccessor ==
    ASSUME NEW x \in Nat, NEW p \in Nat \ {0}
    PROVE  (x + 1) % p = IF (x % p) + 1 = p THEN 0 ELSE (x % p) + 1
<1> DEFINE q == x \div p
           r == x % p
<1>1. q \in Nat /\ r \in 0 .. p - 1 /\ x = p * q + r
  OBVIOUS
<1> HIDE DEF q, r
<1>2. CASE r + 1 = p
  <2>1. x + 1 = p * (q + 1) + 0 /\ q + 1 \in Nat /\ 0 \in 0 .. p - 1
    BY <1>1, <1>2
  <2>2. (p * (q + 1) + 0) % p = 0
    BY <2>1, ModUnique
  <2> QED
    BY <1>2, <2>1, <2>2 DEF r
<1>3. CASE r + 1 # p
  <2>1. x + 1 = p * q + (r + 1) /\ r + 1 \in 0 .. p - 1
    BY <1>1, <1>3
  <2>2. (p * q + (r + 1)) % p = r + 1
    BY <1>1, <2>1, ModUnique
  <2> QED
    BY <1>3, <2>1, <2>2 DEF r
<1> QED
  BY <1>2, <1>3

(* Where a line ends the next one begins.                                    *)
LEMMA NextLine ==
    ASSUME newline \in SUBSET Byte, NEW b \in Nat
    PROVE  /\ LineOf(b) \in Nat
           /\ LineOf(b + 1) = IF b \in newline THEN LineOf(b) + 1 ELSE LineOf(b)
<1> DEFINE before(n) == {k \in newline : k < n}
<1>0. \A k \in newline : k \in Nat /\ k >= 1
  BY XLinesAssumption DEF Byte
<1>1. IsFiniteSet(Byte)
  BY FS_Interval, XLinesAssumption DEF Byte
<1>2. \A n : IsFiniteSet(before(n))
  BY <1>1, FS_Subset
<1>3. LineOf(b) \in Nat
  BY <1>2, FS_CardinalityType DEF LineOf
<1>4. CASE b \in newline
  <2>1. \A k \in newline : k < b + 1 <=> k < b \/ k = b
    BY <1>0
  <2>2. before(b + 1) = before(b) \cup {b}
    BY <1>4, <2>1
  <2>3. b \notin before(b)
    OBVIOUS
  <2> QED
    <3>1. Cardinality(before(b) \cup {b}) = Cardinality(before(b)) + 1
      BY <1>2, <2>3, FS_AddElement
    <3>2. LineOf(b) = Cardinality(before(b)) /\ LineOf(b + 1) = Cardinality(before(b + 1))
      BY DEF LineOf
    <3> QED
      BY <1>3, <1>4, <2>2, <3>1, <3>2
<1>5. CASE b \notin newline
  <2>1. before(b + 1) = before(b)
    BY <1>0, <1>5
  <2> QED
    BY <1>3, <1>5, <2>1 DEF LineOf
<1> QED
  BY <1>3, <1>4, <1>5

(* The first byte is in line 0.                                              *)
LEMMA FirstLine == ASSUME newline \in SUBSET Byte PROVE LineOf(1) = 0
<1>1. \A k \in newline : k \in Nat /\ k >= 1
  BY XLinesAssumption DEF Byte
<1>2. {k \in newline : k < 1} = {}
  BY <1>1
<1> QED
  BY <1>2, FS_EmptySet DEF LineOf

LEMMA TurnFollows ==
    ASSUME newline \in SUBSET Byte, NEW b \in Nat, output = LineOf(b) % Parallelism
    PROVE  Turn(b) = LineOf(b + 1) % Parallelism /\ Turn(b) \in Child
<1>1. Parallelism \in Nat \ {0} /\ LineOf(b) \in Nat
  BY NextLine, XLinesAssumption
<1>2. output \in 0 .. Parallelism - 1
  BY <1>1
<1>3. (LineOf(b) + 1) % Parallelism = (output + 1) % Parallelism
  <2>1. (output + 1) % Parallelism = IF output + 1 = Parallelism THEN 0 ELSE output + 1
    BY <1>1, <1>2
  <2> QED
    BY <1>1, <2>1, ModSuccessor
<1>4. CASE b \in newline
  BY <1>1, <1>2, <1>3, <1>4, NextLine DEF Turn, Child
<1>5. CASE b \notin newline
  BY <1>1, <1>2, <1>5, NextLine DEF Turn, Child
<1> QED
  BY <1>4, <1>5

(* A share grows by the bytes that are the child's.                          *)
LEMMA ShareGrows ==
    ASSUME NEW s \in Seq(Byte), NEW c \in Child, NEW n \in Nat, n < InputLen,
           IsShare(s, c, n)
    PROVE  /\ LineOf(n + 1) % Parallelism = c => IsShare(Append(s, n + 1), c, n + 1)
           /\ LineOf(n + 1) % Parallelism # c => IsShare(s, c, n + 1)
<1> DEFINE Of(k) == {b \in 1 .. k : LineOf(b) % Parallelism = c}
<1>1. \A i \in DOMAIN s : s[i] \in 1 .. n
  BY DEF IsShare
<1>2. CASE LineOf(n + 1) % Parallelism = c
  <2> DEFINE a == Append(s, n + 1)
  <2>1. n + 1 \in Byte /\ Len(s) \in Nat /\ DOMAIN s = 1 .. Len(s)
    BY XLinesAssumption DEF Byte
  <2>2. /\ DOMAIN a = 1 .. Len(s) + 1
        /\ \A i \in DOMAIN s : a[i] = s[i]
        /\ a[Len(s) + 1] = n + 1
    BY <2>1
  <2>3. \A i, j \in DOMAIN a : i < j => a[i] < a[j]
    BY <1>1, <2>1, <2>2 DEF IsShare
  <2>4. {a[i] : i \in DOMAIN a} = {s[i] : i \in DOMAIN s} \cup {n + 1}
    BY <2>1, <2>2
  <2>5. Of(n + 1) = Of(n) \cup {n + 1}
    BY <1>2
  <2> QED
    BY <1>2, <2>3, <2>4, <2>5 DEF IsShare
<1>3. CASE LineOf(n + 1) % Parallelism # c
  <2>1. Of(n + 1) = Of(n)
    BY <1>3
  <2> QED
    BY <1>3, <2>1 DEF IsShare
<1> QED
  BY <1>2, <1>3

(* The first element moves from one sequence to the end of the one before.   *)
LEMMA HeadMoves ==
    ASSUME NEW S, NEW r \in Seq(S), NEW s \in Seq(S), s # <<>>
    PROVE  /\ Append(r, Head(s)) \o Tail(s) = r \o s
           /\ Append(r, Head(s)) \in Seq(S) /\ Tail(s) \in Seq(S)
<1>1. /\ Append(r, Head(s)) = r \o <<Head(s)>> /\ Head(s) \in S
      /\ Tail(s) \in Seq(S)
  BY AppendIsConcat, HeadTailProperties
<1>2. <<Head(s)>> \o Tail(s) = s
  BY HeadTailProperties
<1>3. (r \o <<Head(s)>>) \o Tail(s) = r \o (<<Head(s)>> \o Tail(s))
  BY <1>1, ConcatAssociative
<1> QED
  BY <1>1, <1>2, <1>3

(* What is appended to the last of two sequences is appended to both.        *)
LEMMA AppendLast ==
    ASSUME NEW S, NEW r \in Seq(S), NEW s \in Seq(S), NEW e \in S
    PROVE  r \o Append(s, e) = Append(r \o s, e)
<1>1. r \o s \in Seq(S) /\ <<e>> \in Seq(S)
  BY ConcatProperties
<1>2. Append(s, e) = s \o <<e>>
  BY AppendIsConcat
<1>3. Append(r \o s, e) = (r \o s) \o <<e>>
  BY <1>1, AppendIsConcat
<1>4. (r \o s) \o <<e>> = r \o (s \o <<e>>)
  BY <1>1, ConcatAssociative
<1> QED
  BY <1>2, <1>3, <1>4

(* What is dealt stays the same as long as the bytes are only passed on.     *)
LEMMA SameDealt ==
    ASSUME LinesAreDealt, UNCHANGED <<newline, read>>,
           \A c \in Child : got'[c] \o fifo'[c] \o buffer'[c] = got[c] \o fifo[c] \o buffer[c]
    PROVE  LinesAreDealt'
<1>1. \A b : LineOf(b)' = LineOf(b)
  BY DEF LineOf
<1>2. ASSUME NEW c \in Child
      PROVE  IsShare(got[c] \o fifo[c] \o buffer[c], c, read)'
  <2> DEFINE s == got[c] \o fifo[c] \o buffer[c]
  <2>1. s' = s /\ read' = read
    OBVIOUS
  <2>2. IsShare(s, c, read)
    BY DEF LinesAreDealt
  <2> HIDE DEF s
  <2>3. \A i, j \in DOMAIN s' : i < j => s'[i] < s'[j]
    BY <2>1, <2>2 DEF IsShare
  <2>4. {s'[i] : i \in DOMAIN s'} = {b \in 1 .. read' : LineOf(b)' % Parallelism = c}
    BY <1>1, <2>1, <2>2 DEF IsShare
  <2> QED
    BY <2>3, <2>4 DEF IsShare, s
<1> QED
  BY <1>2 DEF LinesAreDealt

(* The steps that leave all bytes where they are.                            *)
LEMMA DataStays ==
    ASSUME LinesAreDealt, TurnIsRight,
           UNCHANGED <<newline, read, output, buffer, fifo, got>>
    PROVE  LinesAreDealt' /\ TurnIsRight'
BY SameDealt DEF LinesAreDealt, TurnIsRight, LineOf

(* What no child does.                                                       *)
LEMMA ChildChanges ==
    ASSUME XLinesInv, NEW c \in Child, UNCHANGED <<newline, pc, t, read, output, writer, buffer>>,
           child' \in [Child -> ChildLabel], path' \in [Child -> {"none", "fifo", "file"}],
           opened' \in [Child -> BOOLEAN],
           fifo' \in [Child -> Seq(Byte)], got' \in [Child -> Seq(Byte)],
           \A d \in Child \ {c} :
               child'[d] = child[d] /\ path'[d] = path[d] /\ opened'[d] = opened[d],
           NameOk(c)', OpenOk(c)',
           child[c] \notin {"none", "exited", "killed"}, child'[c] # "none",
           got'[c] \o fifo'[c] \o buffer[c] = got[c] \o fifo[c] \o buffer[c],
           \A d \in Child \ {c} : got'[d] = got[d] /\ fifo'[d] = fifo[d]
    PROVE  XLinesInv'
<1>1. XLinesType' /\ NameOfFifo' /\ OpenedTogether'
  <2>1. ASSUME NEW d \in Child, d # c
        PROVE  NameOk(d)' /\ OpenOk(d)'
    <3>1. NameOk(d) /\ OpenOk(d) /\ opened[d] \in BOOLEAN /\ opened'[d] = opened[d]
      BY <2>1 DEF XLinesInv, XLinesType, NameOfFifo, OpenedTogether
    <3>2. child'[d] = child[d] /\ path'[d] = path[d] /\ writer' = writer
      BY <2>1
    <3> QED
      BY <3>1, <3>2 DEF NameOk, OpenOk
  <2>2. \A d \in Child : (NameOk(d) /\ OpenOk(d))'
    BY <2>1
  <2>3. XLinesType'
    BY DEF XLinesInv, XLinesType
  <2> QED
    BY <2>2, <2>3 DEF NameOfFifo, OpenedTogether
<1>2. SoFar' /\ LitterTells'
  <2>1. /\ \A d \in Child : child[d] # "none" => child'[d] # "none"
        /\ \A d \in Child : Ended(d) => child'[d] = child[d] /\ opened'[d] = opened[d]
    BY DEF XLinesInv, XLinesType, Ended
  <2>2. \A d \in Child : Ended(d) => Ended(d)'
    BY <2>1 DEF Ended
  <2> QED
    BY <2>1, <2>2 DEF XLinesInv, SoFar, LitterTells, Ended
<1>3. WritersSoFar' /\ ClosedIsWritten' /\ TurnIsRight'
  BY DEF XLinesInv, WritersSoFar, ClosedIsWritten, TurnIsRight, LineOf
<1>4. LinesAreDealt'
  BY SameDealt DEF XLinesInv, XLinesType
<1> QED
  BY <1>1, <1>2, <1>3, <1>4 DEF XLinesInv

LEMMA ChildSteps ==
    ASSUME XLinesInv, NEW c \in Child,
           ChildStep(c) \/ FreopenFails(c) \/ CommandQuits(c) \/ ChildKilled(c)
    PROVE  XLinesInv'
<1> USE DEF ChildGoto, ChildLabel, data
<1>0. /\ NameOk(c) /\ OpenOk(c) /\ path[c] \in {"none", "fifo", "file"} /\ opened[c] \in BOOLEAN
      /\ writer[c] \in {"none", "open", "closed", "null"}
      /\ got[c] \in Seq(Byte) /\ fifo[c] \in Seq(Byte)
  BY DEF XLinesInv, XLinesType, NameOfFifo, OpenedTogether
<1>1. CASE Freopen(c)
  <2>1. NameOk(c)' /\ OpenOk(c)'
    BY <1>0, <1>1 DEF Freopen, ReaderWaits, XLinesInv, XLinesType, NameOk, OpenOk
  <2> QED
    BY <1>1, <2>1, ChildChanges DEF Freopen, XLinesInv, XLinesType
<1>2. CASE FreopenFails(c)
  <2>1. NameOk(c)' /\ OpenOk(c)'
    BY <1>0, <1>2 DEF FreopenFails, ReaderWaits, XLinesInv, XLinesType, NameOk, OpenOk
  <2> QED
    BY <1>2, <2>1, ChildChanges DEF FreopenFails, XLinesInv, XLinesType
<1>3. CASE Unlink(c)
  <2>1. NameOk(c)' /\ OpenOk(c)'
    BY <1>0, <1>3 DEF Unlink, XLinesInv, XLinesType, NameOk, OpenOk
  <2> QED
    BY <1>3, <2>1, ChildChanges DEF Unlink, XLinesInv, XLinesType
<1>4. CASE Exec(c) \/ CommandEnds(c) \/ CommandQuits(c) \/ ChildKilled(c)
  <2>1. /\ UNCHANGED <<newline, pc, t, read, output, path, opened, writer, buffer, fifo, got>>
        /\ \/ child[c] \in {"exec", "run"} /\ (ChildGoto(c, "run") \/ ChildGoto(c, "exited"))
           \/ child[c] = "open" /\ ChildGoto(c, "killed")
    BY <1>4 DEF Exec, CommandEnds, CommandQuits, ChildKilled
  <2>2. NameOk(c)' /\ OpenOk(c)'
    BY <1>0, <2>1 DEF XLinesInv, XLinesType, NameOk, OpenOk
  <2> QED
    BY <2>1, <2>2, ChildChanges DEF XLinesInv, XLinesType
<1>5. CASE ReadByte(c)
  <2>1. /\ Append(got[c], Head(fifo[c])) \o Tail(fifo[c]) = got[c] \o fifo[c]
        /\ Append(got[c], Head(fifo[c])) \in Seq(Byte) /\ Tail(fifo[c]) \in Seq(Byte)
    BY <1>5, HeadMoves DEF ReadByte, XLinesInv, XLinesType
  <2>2. /\ fifo' \in [Child -> Seq(Byte)] /\ got' \in [Child -> Seq(Byte)]
        /\ \A d \in Child \ {c} : got'[d] = got[d] /\ fifo'[d] = fifo[d]
        /\ got'[c] \o fifo'[c] \o buffer[c] = got[c] \o fifo[c] \o buffer[c]
    BY <1>5, <2>1 DEF ReadByte, XLinesInv, XLinesType
  <2>3. /\ UNCHANGED <<newline, pc, t, read, output, child, path, opened, writer, buffer>>
        /\ child[c] = "run"
    BY <1>5 DEF ReadByte
  <2>4. NameOk(c)' /\ OpenOk(c)'
    BY <1>0, <2>3 DEF NameOk, OpenOk
  <2> QED
    BY <2>2, <2>3, <2>4, ChildChanges DEF XLinesInv, XLinesType
<1> QED
  BY <1>1, <1>2, <1>3, <1>4, <1>5 DEF ChildStep

(* The loops over the children.                                              *)
LEMMA LoopFacts ==
    ASSUME t \in Child, NEW loop, NEW next, NextChild(loop, next)
    PROVE  /\ t' \in Child
           /\ \/ t + 1 \in Child /\ t' = t + 1 /\ pc' = loop
              \/ t' = 0 /\ pc' = next /\ \A c \in Child : c <= t
           /\ \A c \in Child : c < t + 1 <=> c < t \/ c = t
BY XLinesAssumption DEF NextChild, Child

LEMMA ForkSteps == ASSUME XLinesInv, Fork \/ ForkFails PROVE XLinesInv'
<1> USE DEF ChildLabel, data
<1>1. CASE Fork
  <2>1. /\ pc = "fork" /\ pc' \in {"fork", "fopen"}
        /\ path' = [path EXCEPT ![t] = "fifo"] /\ child' = [child EXCEPT ![t] = "open"]
        /\ UNCHANGED <<newline, read, output, opened, writer, buffer, fifo, got>>
        /\ t \in Child /\ NextChild("fork", "fopen")
    BY <1>1, LoopFacts DEF Fork, ChildGoto, XLinesInv, XLinesType
  <2>2. XLinesType'
    BY <2>1, LoopFacts DEF XLinesInv, XLinesType
  <2>3. SoFar'
    <3>1. \A c \in Child : child'[c] = IF c = t THEN "open" ELSE child[c]
      BY <2>1 DEF XLinesInv, XLinesType
    <3>2. \A c \in Child : c < t => child[c] # "none"
      BY <2>1 DEF XLinesInv, SoFar
    <3>3. CASE t + 1 \in Child /\ t' = t + 1 /\ pc' = "fork"
      <4>1. \A c \in Child : c < t' => child'[c] # "none"
        BY <2>1, <3>1, <3>2, <3>3, LoopFacts
      <4> QED
        BY <2>1, <3>3, <4>1 DEF SoFar
    <3>4. CASE t' = 0 /\ pc' = "fopen" /\ \A c \in Child : c <= t
      <4>1. \A c \in Child : c < t \/ c = t
        BY <2>1, <3>4, XLinesAssumption DEF Child
      <4>2. \A c \in Child : child'[c] # "none"
        BY <3>1, <3>2, <4>1
      <4> QED
        BY <3>4, <4>2 DEF SoFar
    <3> QED
      BY <2>1, <3>3, <3>4, LoopFacts
  <2>4. NameOfFifo' /\ OpenedTogether' /\ WritersSoFar'
    <3>1. \A c \in Child : writer[c] = "none"
      BY <2>1 DEF XLinesInv, WritersSoFar
    <3>2. NameOfFifo' /\ OpenedTogether'
      BY <2>1, <3>1 DEF XLinesInv, XLinesType, NameOfFifo, NameOk, OpenedTogether, OpenOk
    <3>3. pc' = "fopen" => t' = 0
      BY <2>1, LoopFacts
    <3>4. \A c \in Child : ~(c < 0)
      BY XLinesAssumption DEF Child
    <3>5. WritersSoFar'
      BY <2>1, <3>1, <3>3, <3>4 DEF WritersSoFar
    <3> QED
      BY <3>2, <3>5
  <2>5. ClosedIsWritten' /\ LitterTells'
    BY <2>1 DEF XLinesInv, ClosedIsWritten, LitterTells
  <2>6. TurnIsRight' /\ LinesAreDealt'
    BY <2>1, DataStays DEF XLinesInv
  <2> QED
    BY <2>2, <2>3, <2>4, <2>5, <2>6 DEF XLinesInv
<1>2. CASE ForkFails
  <2>1. /\ pc = "fork" /\ pc' = "failed"
        /\ UNCHANGED <<newline, t, read, output, child, path, opened, writer, buffer, fifo, got>>
    BY <1>2 DEF ForkFails
  <2>2. TurnIsRight' /\ LinesAreDealt'
    BY <2>1, DataStays DEF XLinesInv
  <2> QED
    BY <2>1, <2>2 DEF XLinesInv, XLinesType, NameOfFifo, NameOk, OpenedTogether, OpenOk, SoFar,
                      WritersSoFar, ClosedIsWritten, LitterTells, Ended
<1> QED
  BY <1>1, <1>2

(* The parent comes to the fifo: the steps of its fopen.                     *)
LEMMA FopenSteps ==
    ASSUME XLinesInv, FopenFifo \/ Fopen \/ FopenFile \/ FopenFails
    PROVE  XLinesInv'
<1>1. /\ pc \in {"fopen", "fopen_fifo"} /\ t \in Child /\ writer[t] = "none"
      /\ NameOk(t) /\ OpenOk(t) /\ \A c \in Child : child[c] # "none"
  <2>1. pc \in {"fopen", "fopen_fifo"} /\ t \in Child /\ ~(t < t)
    BY XLinesAssumption DEF FopenFifo, Fopen, FopenFile, FopenFails, XLinesInv, XLinesType, Child
  <2> QED
    BY <2>1 DEF XLinesInv, WritersSoFar, NameOfFifo, OpenedTogether, SoFar
<1>2. UNCHANGED <<newline, read, output, child, opened, buffer, fifo, got>>
  BY DEF FopenFifo, Fopen, FopenFile, FopenFails, data
<1>3. TurnIsRight' /\ LinesAreDealt'
  BY <1>2, DataStays DEF XLinesInv
<1>4. CASE FopenFifo
  <2>1. pc' = "fopen_fifo" /\ pc = "fopen" /\ UNCHANGED <<t, path, writer>>
    BY <1>4 DEF FopenFifo, data
  <2> QED
    BY <1>2, <1>3, <2>1 DEF XLinesInv, XLinesType, NameOfFifo, NameOk, OpenedTogether, OpenOk,
                            SoFar, WritersSoFar, ClosedIsWritten, LitterTells, Ended
<1>5. CASE Fopen \/ FopenFile \/ FopenFails
  <2>1. PICK file \in {"open", "null"} :
            /\ Fopened(file)
            /\ \/ file = "open" /\ path' = path /\ child[t] = "open"
               \/ file = "open" /\ path' = [path EXCEPT ![t] = "file"] /\ path[t] = "none"
               \/ file = "null" /\ path' = path
    <3>1. CASE Fopen
      BY <3>1 DEF Fopen
    <3>2. CASE FopenFile
      BY <3>2 DEF FopenFile
    <3>3. CASE FopenFails
      BY <3>3 DEF FopenFails
    <3> QED
      BY <1>5, <3>1, <3>2, <3>3
  <2>2. /\ writer' = [writer EXCEPT ![t] = file] /\ NextChild("fopen", "getchar")
        /\ pc' \in {"fopen", "getchar"}
    BY <1>1, <2>1, LoopFacts DEF Fopened
  <2>3. XLinesType'
    BY <1>1, <1>2, <2>1, <2>2, LoopFacts DEF XLinesInv, XLinesType
  <2>4. ASSUME NEW c \in Child, c = t
        PROVE  NameOk(c)' /\ OpenOk(c)'
    <3>1. /\ ~opened[c] /\ opened'[c] = opened[c] /\ opened[c] \in BOOLEAN
          /\ child'[c] = child[c] /\ child[c] \in ChildLabel /\ child[c] # "none"
          /\ writer'[c] = file /\ NameOk(c)
      BY <1>1, <1>2, <2>1, <2>2, <2>4 DEF XLinesInv, XLinesType, OpenOk
    <3>2. \/ file = "open" /\ path'[c] = path[c] /\ child[c] = "open"
          \/ file = "open" /\ path'[c] = "file" /\ path[c] = "none"
          \/ file = "null" /\ path'[c] = path[c]
      BY <1>1, <2>1, <2>4 DEF XLinesInv, XLinesType
    <3> QED
      BY <3>1, <3>2 DEF NameOk, OpenOk, ChildLabel
  <2>5. ASSUME NEW c \in Child, c # t
        PROVE  NameOk(c)' /\ OpenOk(c)'
    <3>1. NameOk(c) /\ OpenOk(c) /\ opened[c] \in BOOLEAN /\ opened'[c] = opened[c]
      BY <1>2 DEF XLinesInv, XLinesType, NameOfFifo, OpenedTogether
    <3>2. child'[c] = child[c] /\ path'[c] = path[c] /\ writer'[c] = writer[c]
      BY <1>1, <1>2, <2>1, <2>2, <2>5 DEF XLinesInv, XLinesType
    <3> QED
      BY <3>1, <3>2 DEF NameOk, OpenOk
  <2>6. NameOfFifo' /\ OpenedTogether'
    <3>1. \A c \in Child : (NameOk(c) /\ OpenOk(c))'
      BY <2>4, <2>5
    <3> QED
      BY <3>1 DEF NameOfFifo, OpenedTogether
  <2>7. SoFar' /\ LitterTells' /\ ClosedIsWritten'
    BY <1>1, <1>2, <2>1, <2>2 DEF XLinesInv, XLinesType, SoFar, LitterTells, ClosedIsWritten
  <2>8. WritersSoFar'
    <3>1. \A c \in Child : IF c < t \/ c = t THEN writer'[c] \in {"open", "null"}
                                            ELSE writer'[c] = "none"
      BY <1>1, <2>1, <2>2 DEF XLinesInv, XLinesType, WritersSoFar
    <3>2. CASE t + 1 \in Child /\ t' = t + 1 /\ pc' = "fopen"
      BY <1>1, <3>1, <3>2, <2>2, LoopFacts DEF WritersSoFar
    <3>3. CASE t' = 0 /\ pc' = "getchar" /\ \A c \in Child : c <= t
      <4>1. \A c \in Child : c < t \/ c = t
        BY <1>1, <3>3, XLinesAssumption DEF Child
      <4> QED
        BY <3>1, <3>3, <4>1 DEF WritersSoFar
    <3> QED
      BY <1>1, <2>2, <3>2, <3>3, LoopFacts
  <2> QED
    BY <1>3, <2>3, <2>6, <2>7, <2>8 DEF XLinesInv
<1> QED
  BY <1>4, <1>5

LEMMA DealStep == ASSUME XLinesInv, Deal PROVE XLinesInv'
<1> DEFINE b == read + 1
<1>1. /\ pc = "getchar" /\ read \in Nat /\ read < InputLen /\ output \in Child
      /\ buffer' = [buffer EXCEPT ![output] = Append(@, b)]
      /\ read' = b /\ output' = Turn(b) /\ b \in Byte
      /\ UNCHANGED <<newline, pc, t, child, path, opened, writer, fifo, got>>
  BY XLinesAssumption DEF Deal, XLinesInv, XLinesType, Byte
<1>2. output = LineOf(b) % Parallelism /\ newline \in SUBSET Byte /\ b \in Nat
  BY <1>1 DEF XLinesInv, XLinesType, TurnIsRight
<1>3. XLinesType'
  <2>1. Append(buffer[output], b) \in Seq(Byte)
    BY <1>1 DEF XLinesInv, XLinesType
  <2>2. Turn(b) \in Child
    BY <1>2, TurnFollows
  <2>3. b \in 0 .. InputLen
    BY <1>1, XLinesAssumption
  <2> QED
    BY <1>1, <2>1, <2>2, <2>3 DEF XLinesInv, XLinesType
<1>4. NameOfFifo' /\ OpenedTogether' /\ SoFar' /\ LitterTells' /\ WritersSoFar'
  BY <1>1 DEF XLinesInv, NameOfFifo, NameOk, OpenedTogether, OpenOk, SoFar, LitterTells,
              WritersSoFar, Ended
<1>5. ClosedIsWritten'
  <2>1. \A c \in Child : writer'[c] # "closed"
    BY <1>1 DEF XLinesInv, WritersSoFar
  <2> QED
    BY <1>1, <2>1 DEF ClosedIsWritten
<1>6. \A n : LineOf(n)' = LineOf(n)
  BY <1>1 DEF LineOf
<1>7. TurnIsRight'
  BY <1>1, <1>2, <1>6, TurnFollows DEF TurnIsRight
<1>8. ASSUME NEW c \in Child
      PROVE  IsShare(got[c] \o fifo[c] \o buffer[c], c, read)'
  <2> DEFINE s == got[c] \o fifo[c] \o buffer[c]
  <2>1. /\ got[c] \in Seq(Byte) /\ fifo[c] \in Seq(Byte) /\ buffer[c] \in Seq(Byte)
        /\ got[c] \o fifo[c] \in Seq(Byte) /\ s \in Seq(Byte)
    BY DEF XLinesInv, XLinesType
  <2>2. IsShare(s, c, read)
    BY DEF XLinesInv, LinesAreDealt
  <2>3. s' = IF c = output THEN Append(s, b) ELSE s
    <3>1. CASE c = output
      <4>1. s' = (got[c] \o fifo[c]) \o Append(buffer[c], b)
        BY <1>1, <3>1 DEF XLinesInv, XLinesType
      <4>2. (got[c] \o fifo[c]) \o Append(buffer[c], b) = Append(s, b)
        <5>1. \A q, r \in Seq(Byte), e \in Byte : q \o Append(r, e) = Append(q \o r, e)
          BY AppendLast
        <5> QED
          BY <1>1, <2>1, <5>1, Zenon
      <4> QED
        BY <3>1, <4>1, <4>2
    <3>2. CASE c # output
      BY <1>1, <3>2 DEF XLinesInv, XLinesType
    <3> QED
      BY <3>1, <3>2
  <2> HIDE DEF s
  <2>4. IsShare(s', c, b)
    BY <1>1, <1>2, <2>1, <2>2, <2>3, ShareGrows
  <2>5. IsShare(s', c, b) = IsShare(s, c, read)'
    BY <1>1, <1>6 DEF IsShare
  <2> QED
    BY <2>4, <2>5 DEF s
<1> QED
  BY <1>3, <1>4, <1>5, <1>7, <1>8 DEF XLinesInv, LinesAreDealt

LEMMA WriteByteStep == ASSUME XLinesInv, WriteByte PROVE XLinesInv'
<1>1. /\ pc \in {"flush", "fclose"} /\ buffer[t] # <<>> /\ t \in Child
      /\ buffer' = [buffer EXCEPT ![t] = Tail(@)]
      /\ fifo' = [fifo EXCEPT ![t] = Append(@, Head(buffer[t]))]
      /\ UNCHANGED <<newline, pc, t, read, output, child, path, opened, writer, got>>
  BY DEF WriteByte, XLinesInv, XLinesType
<1>2. /\ Append(fifo[t], Head(buffer[t])) \o Tail(buffer[t]) = fifo[t] \o buffer[t]
      /\ Append(fifo[t], Head(buffer[t])) \in Seq(Byte) /\ Tail(buffer[t]) \in Seq(Byte)
  BY <1>1, HeadMoves DEF XLinesInv, XLinesType
<1>3. XLinesType'
  BY <1>1, <1>2 DEF XLinesInv, XLinesType
<1>4. NameOfFifo' /\ OpenedTogether' /\ SoFar' /\ LitterTells' /\ WritersSoFar'
  BY <1>1 DEF XLinesInv, NameOfFifo, NameOk, OpenedTogether, OpenOk, SoFar, LitterTells,
              WritersSoFar, Ended
<1>5. ClosedIsWritten'
  BY <1>1 DEF XLinesInv, XLinesType, ClosedIsWritten
<1>6. TurnIsRight'
  BY <1>1 DEF XLinesInv, TurnIsRight, LineOf
<1>7. ASSUME NEW c \in Child
      PROVE  got'[c] \o fifo'[c] \o buffer'[c] = got[c] \o fifo[c] \o buffer[c]
  <2>1. /\ got[c] \in Seq(Byte) /\ fifo[c] \in Seq(Byte) /\ buffer[c] \in Seq(Byte)
    BY DEF XLinesInv, XLinesType
  <2>2. CASE c = t
    <3> DEFINE u == Append(fifo[c], Head(buffer[c]))
               v == Tail(buffer[c])
    <3>1. got'[c] = got[c] /\ fifo'[c] = u /\ buffer'[c] = v
      BY <1>1, <2>2 DEF XLinesInv, XLinesType
    <3>2. u \in Seq(Byte) /\ v \in Seq(Byte) /\ u \o v = fifo[c] \o buffer[c]
      BY <1>2, <2>2
    <3>3. \A x, y, z \in Seq(Byte) : (x \o y) \o z = x \o (y \o z)
      BY ConcatAssociative
    <3> HIDE DEF u, v
    <3>4. (got[c] \o u) \o v = got[c] \o (u \o v)
      BY <2>1, <3>2, <3>3, Zenon
    <3>5. (got[c] \o fifo[c]) \o buffer[c] = got[c] \o (fifo[c] \o buffer[c])
      BY <2>1, <3>3, Zenon
    <3> QED
      BY <3>1, <3>2, <3>4, <3>5, Zenon
  <2>3. CASE c # t
    BY <1>1, <2>3 DEF XLinesInv, XLinesType
  <2> QED
    BY <2>2, <2>3
<1>8. LinesAreDealt'
  BY <1>1, <1>7, SameDealt DEF XLinesInv
<1> QED
  BY <1>3, <1>4, <1>5, <1>6, <1>8 DEF XLinesInv

LEMMA FcloseStep == ASSUME XLinesInv, Fclose PROVE XLinesInv'
<1>1. /\ pc = "fclose" /\ pc' \in {"fclose", "waitpid"} /\ t \in Child
      /\ writer[t] # "null" /\ buffer[t] = <<>> /\ NextChild("fclose", "waitpid")
      /\ writer' = [writer EXCEPT ![t] = "closed"]
      /\ UNCHANGED <<newline, read, output, child, path, opened, buffer, fifo, got>>
  BY LoopFacts DEF Fclose, FcloseReady, XLinesInv, XLinesType
<1>2. XLinesType' /\ NameOfFifo' /\ OpenedTogether'
  <2>1. ~(t < t)
    BY <1>1, XLinesAssumption DEF Child
  <2>2. writer[t] = "open"
    BY <1>1, <2>1 DEF XLinesInv, WritersSoFar
  <2> QED
    BY <1>1, <2>2, LoopFacts
    DEF XLinesInv, XLinesType, NameOfFifo, NameOk, OpenedTogether, OpenOk
<1>3. SoFar' /\ LitterTells' /\ ClosedIsWritten'
  <2>1. pc' = "waitpid" => t' = 0
    BY <1>1, LoopFacts
  <2>2. \A c \in Child : ~(c < 0)
    BY XLinesAssumption DEF Child
  <2> QED
    BY <1>1, <2>1, <2>2 DEF XLinesInv, XLinesType, SoFar, LitterTells, ClosedIsWritten, Ended
<1>4. WritersSoFar'
  <2>1. \A c \in Child : IF c < t \/ c = t THEN writer'[c] = "closed"
                                          ELSE writer'[c] \in {"open", "null"}
    BY <1>1 DEF XLinesInv, XLinesType, WritersSoFar
  <2>2. CASE t + 1 \in Child /\ t' = t + 1 /\ pc' = "fclose"
    BY <1>1, <2>1, <2>2, LoopFacts DEF WritersSoFar
  <2>3. CASE t' = 0 /\ pc' = "waitpid" /\ \A c \in Child : c <= t
    <3>1. \A c \in Child : c < t \/ c = t
      BY <1>1, <2>3, XLinesAssumption DEF Child
    <3> QED
      BY <2>1, <2>3, <3>1 DEF WritersSoFar
  <2> QED
    BY <1>1, <2>2, <2>3, LoopFacts
<1>5. TurnIsRight' /\ LinesAreDealt'
  BY <1>1, DataStays DEF XLinesInv
<1> QED
  BY <1>2, <1>3, <1>4, <1>5 DEF XLinesInv

LEMMA WaitpidStep == ASSUME XLinesInv, Waitpid PROVE XLinesInv'
<1>1. /\ pc = "waitpid" /\ pc' \in {"waitpid", "rmdir"} /\ t \in Child
      /\ Ended(t) /\ NextChild("waitpid", "rmdir")
      /\ UNCHANGED <<newline, read, output, child, path, opened, writer, buffer, fifo, got>>
  BY LoopFacts DEF Waitpid, data, XLinesInv, XLinesType
<1>2. SoFar'
  <2>1. \A c \in Child : Ended(c)' = Ended(c)
    BY <1>1 DEF Ended
  <2>2. \A c \in Child : c < t => Ended(c)
    BY <1>1 DEF XLinesInv, SoFar
  <2>3. \A c \in Child : child[c] # "none"
    BY <1>1 DEF XLinesInv, SoFar
  <2>4. CASE t + 1 \in Child /\ t' = t + 1 /\ pc' = "waitpid"
    <3>1. \A c \in Child : c < t' => Ended(c)
      BY <1>1, <2>2, <2>4, LoopFacts
    <3> QED
      BY <1>1, <2>1, <2>3, <2>4, <3>1 DEF SoFar
  <2>5. CASE t' = 0 /\ pc' = "rmdir" /\ \A c \in Child : c <= t
    <3>1. \A c \in Child : c < t \/ c = t
      BY <1>1, <2>5, XLinesAssumption DEF Child
    <3>2. \A c \in Child : Ended(c)'
      BY <1>1, <2>1, <2>2, <3>1
    <3> QED
      BY <1>1, <2>3, <2>5, <3>2 DEF SoFar
  <2> QED
    BY <1>1, <2>4, <2>5, LoopFacts
<1>3. TurnIsRight' /\ LinesAreDealt'
  BY <1>1, DataStays DEF XLinesInv
<1>4. XLinesType'
  BY <1>1, LoopFacts DEF XLinesInv, XLinesType
<1> QED
  BY <1>1, <1>2, <1>3, <1>4 DEF XLinesInv, NameOfFifo, NameOk, OpenedTogether, OpenOk,
                                WritersSoFar, ClosedIsWritten, LitterTells

(* What is left in the directory are the fifos of children that were killed  *)
(* before they could open and remove them, and the files in the place of     *)
(* those that were removed without having been opened.                       *)
LEMMA RmdirStep == ASSUME XLinesInv, Rmdir PROVE XLinesInv'
<1>1. /\ pc = "rmdir"
      /\ pc' = IF \A c \in Child : path[c] = "none" THEN "done" ELSE "litter"
      /\ UNCHANGED <<newline, t, read, output, child, path, opened, writer, buffer, fifo, got>>
  BY DEF Rmdir, data
<1>2. LitterTells'
  <2>1. \A c \in Child : Ended(c) /\ writer[c] = "closed" /\ NameOk(c) /\ OpenOk(c)
    BY <1>1 DEF XLinesInv, SoFar, WritersSoFar, NameOfFifo, OpenedTogether
  <2>2. \A c \in Child : path[c] = "none" <=> opened[c]
    BY <2>1 DEF NameOk, OpenOk, Ended
  <2> QED
    BY <1>1, <2>2 DEF LitterTells
<1>3. TurnIsRight' /\ LinesAreDealt'
  BY <1>1, DataStays DEF XLinesInv
<1>4. SoFar' /\ WritersSoFar' /\ ClosedIsWritten'
  BY <1>1 DEF XLinesInv, SoFar, WritersSoFar, ClosedIsWritten, Ended
<1>5. XLinesType' /\ NameOfFifo' /\ OpenedTogether'
  BY <1>1 DEF XLinesInv, XLinesType, NameOfFifo, NameOk, OpenedTogether, OpenOk
<1> QED
  BY <1>2, <1>3, <1>4, <1>5 DEF XLinesInv

(* The rest of the parent's steps, and what the kernel does when it is gone. *)
LEMMA PlainSteps ==
    ASSUME XLinesInv,
           StartFlush \/ EndOfInput \/ Flushed \/ Sigpipe \/ NullStream \/ UNCHANGED vars
    PROVE  XLinesInv'
<1>1. UNCHANGED <<newline, read, output, child, path, opened, buffer, fifo, got>>
  BY DEF StartFlush, EndOfInput, Flushed, Sigpipe, NullStream, vars, data
<1>2. TurnIsRight' /\ LinesAreDealt'
  BY <1>1, DataStays DEF XLinesInv
<1>3. NameOfFifo'
  BY <1>1 DEF XLinesInv, NameOfFifo, NameOk
<1>4. 0 \in Child /\ \A c \in Child : ~(c < 0)
  BY XLinesAssumption DEF Child
<1>5. CASE StartFlush \/ EndOfInput \/ Flushed
  <2>1. /\ pc \in {"getchar", "flush"} /\ pc' \in {"getchar", "flush", "fclose"}
        /\ pc' = "fclose" => t' = 0 /\ read = InputLen
        /\ t' \in Child /\ writer' = writer
    BY <1>4, <1>5 DEF StartFlush, EndOfInput, Flushed, data, XLinesInv, XLinesType
  <2>2. \A c \in Child : writer[c] \in {"open", "null"} /\ child[c] # "none"
    BY <2>1 DEF XLinesInv, WritersSoFar, SoFar
  <2>3. XLinesType' /\ OpenedTogether'
    BY <1>1, <2>1 DEF XLinesInv, XLinesType, OpenedTogether, OpenOk
  <2>4. SoFar' /\ LitterTells' /\ ClosedIsWritten'
    BY <1>1, <2>1, <2>2 DEF SoFar, LitterTells, ClosedIsWritten
  <2>5. WritersSoFar'
    BY <1>1, <1>4, <2>1, <2>2 DEF WritersSoFar
  <2> QED
    BY <1>2, <1>3, <2>3, <2>4, <2>5 DEF XLinesInv
<1>6. CASE Sigpipe \/ NullStream
  <2>1. /\ pc \in {"getchar", "flush", "fclose"} /\ pc' \in {"killed", "crashed"} /\ UNCHANGED t
        /\ writer' = [c \in Child |-> IF writer[c] = "open" THEN "closed" ELSE writer[c]]
    BY <1>6 DEF Sigpipe, NullStream, Gone
  <2>2. XLinesType' /\ OpenedTogether'
    BY <1>1, <2>1 DEF XLinesInv, XLinesType, OpenedTogether, OpenOk
  <2>3. SoFar' /\ LitterTells' /\ ClosedIsWritten' /\ WritersSoFar'
    BY <1>1, <2>1 DEF XLinesInv, SoFar, LitterTells, ClosedIsWritten, WritersSoFar
  <2> QED
    BY <1>2, <1>3, <2>2, <2>3 DEF XLinesInv
<1>7. CASE UNCHANGED vars
  BY <1>1, <1>2, <1>3, <1>7 DEF vars, XLinesInv, XLinesType, OpenedTogether, OpenOk, SoFar,
                                WritersSoFar, ClosedIsWritten, LitterTells, Ended
<1> QED
  BY <1>5, <1>6, <1>7

LEMMA XLinesInvInit == Init => XLinesInv
<1> SUFFICES ASSUME Init PROVE XLinesInv
  OBVIOUS
<1>1. 0 \in Child /\ \A c \in Child : ~(c < 0)
  BY XLinesAssumption DEF Child
<1>2. XLinesType
  BY <1>1, XLinesAssumption DEF Init, XLinesType, ChildLabel
<1>3. /\ NameOfFifo /\ OpenedTogether /\ SoFar /\ WritersSoFar /\ ClosedIsWritten
      /\ LitterTells
  BY <1>1 DEF Init, NameOfFifo, NameOk, OpenedTogether, OpenOk, SoFar, WritersSoFar,
              ClosedIsWritten, LitterTells, Ended
<1>4. TurnIsRight
  <2>1. LineOf(1) = 0 /\ read + 1 = 1
    BY FirstLine DEF Init
  <2>2. 0 % Parallelism = 0
    BY XLinesAssumption
  <2> QED
    BY <2>1, <2>2 DEF Init, TurnIsRight
<1>5. ASSUME NEW c \in Child PROVE IsShare(got[c] \o fifo[c] \o buffer[c], c, read)
  <2>1. got[c] \o fifo[c] \o buffer[c] = <<>> /\ read = 0
    BY DEF Init
  <2> QED
    BY <2>1 DEF IsShare
<1> QED
  BY <1>2, <1>3, <1>4, <1>5 DEF XLinesInv, LinesAreDealt

LEMMA XLinesInvStep == XLinesInv /\ [Next]_vars => XLinesInv'
<1> SUFFICES ASSUME XLinesInv, [Next]_vars PROVE XLinesInv'
  OBVIOUS
<1>1. CASE AllEnded
  BY <1>1, PlainSteps DEF AllEnded
<1> QED
  BY <1>1, ForkSteps, FopenSteps, DealStep, WriteByteStep, FcloseStep, WaitpidStep, RmdirStep,
     PlainSteps, ChildSteps DEF Next, ParentStep

(* Whatever the input, the number of children, the sizes of stdio's buffers  *)
(* and of the pipes, whoever ends early or is killed and whichever fopen or  *)
(* freopen fails: what a child has got and what is waiting for it are its    *)
(* lines, whole and in order (src/xlines.c:63, 85 and 90-96).                *)
THEOREM DealSafe == Spec => []LinesAreDealt
<1>1. XLinesInv => LinesAreDealt
  BY DEF XLinesInv
<1> QED
  BY <1>1, XLinesInvInit, XLinesInvStep, PTL DEF Spec

(* When xlines ends of itself, every command has had its share of the input  *)
(* but for what still lies in its fifo or in the file in its place, and the  *)
(* directory is left behind exactly if some child never opened its fifo.     *)
THEOREM NothingLost == Spec => []NothingIsLost
<1>1. ASSUME XLinesInv, pc \in {"done", "litter"}
      PROVE  /\ pc = "done" <=> \A c \in Child : opened[c]
             /\ \A c \in Child : fifo[c] = <<>> => IsShare(got[c], c, InputLen)
  <2>1. pc = "done" <=> \A c \in Child : opened[c]
    BY <1>1 DEF XLinesInv, LitterTells
  <2>2. ASSUME NEW c \in Child, fifo[c] = <<>>
        PROVE  IsShare(got[c], c, InputLen)
    <3>1. buffer[c] = <<>> /\ read = InputLen
      BY <1>1 DEF XLinesInv, WritersSoFar, ClosedIsWritten
    <3>2. got[c] \in Seq(Byte)
      BY <1>1 DEF XLinesInv, XLinesType
    <3>3. got[c] \o fifo[c] \o buffer[c] = got[c]
      BY <2>2, <3>1, <3>2, ConcatEmptySeq
    <3> QED
      BY <1>1, <3>1, <3>3 DEF XLinesInv, LinesAreDealt
  <2> QED
    BY <2>1, <2>2
<1>2. XLinesInv => NothingIsLost
  BY <1>1 DEF NothingIsLost
<1> QED
  BY <1>2, XLinesInvInit, XLinesInvStep, PTL DEF Spec
=============================================================================
