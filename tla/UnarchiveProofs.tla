-------------------------- MODULE UnarchiveProofs --------------------------
(* That what copy_file copies arrives in order, and that an exit status of 0 *)
(* means what it should: for any length, any record, any size of the buffer, *)
(* whichever way the copy takes and whatever fails.                          *)
EXTENDS Unarchive, SequenceTheorems, TLAPS

CopyLabel == {"copy_file_range", "sendfile", "fdopen", "fread", "fflush", "done"}

CopyType ==
    /\ pc \in CopyLabel
    /\ len \in Nat /\ remaining \in Nat /\ avail \in Nat /\ off \in Nat
    /\ dest \in Seq(Nat) /\ buffered \in Seq(Nat)
    /\ ret \in {NoResult, -1, 0, 1, 3, 5}
    /\ operation \in {"archive", "unarchive"}
    /\ step \in {"open", "header", "copy", "exit"}
    /\ operation = "archive" => step \in {"copy", "exit"}
    /\ record_end \in Nat /\ extra_len \in Nat /\ own \in Nat
    /\ operation = "unarchive" => HeaderLen + extra_len <= record_end

(* s is the source from the offset k on.                                     *)
Counts(s, k) == \A i \in 1 .. Len(s) : s[i] = k + i - 1

(* How much has been read of the source, into stdio's buffer or past it.     *)
Taken == Len(dest) + Len(buffered)

NothingYet ==
    /\ pc = "copy_file_range" /\ ret = NoResult
    /\ off = 0 /\ dest = <<>> /\ buffered = <<>>

(* Before its call, copy_file has done nothing; during the call, the source  *)
(* is read up to what has been taken from it, and remaining is what is left. *)
CopySoFar ==
    /\ step \in {"open", "header"} => NothingYet
    /\ step = "copy" => len = End - First
    /\ step = "copy" /\ pc # "done" =>
          /\ off = First + Taken
          /\ off + remaining = End
    /\ pc \in {"copy_file_range", "sendfile", "fdopen"} => buffered = <<>>
    /\ pc = "fflush" => remaining = 0

InOrder ==
    /\ Counts(dest, First)
    /\ Counts(buffered, First + Len(dest))
    /\ First + Taken <= End

(* How copy_file ends, and what its callers make of that.                    *)
CopyResult ==
    /\ pc = "done" <=> ret # NoResult
    /\ ret = 0 => pc = "done" /\ (TooShort \/ Len(dest) = End - First)
    /\ status = 0 => step = "exit" /\ pc = "done" /\ Accepted
    /\ step # "exit" => status = Running

UnarchiveInv == CopyType /\ CopySoFar /\ InOrder /\ CopyResult

-----------------------------------------------------------------------------
LEMMA LengthFacts ==
    ASSUME CopyType
    PROVE  First \in Nat /\ End \in Nat /\ (operation = "unarchive" => SourceLen \in Nat)
BY DEF CopyType, First, End, HeaderLen, SourceLen

LEMMA CountsNext ==
    ASSUME off \in Nat, NEW n \in Nat
    PROVE  NextBytes(n) \in Seq(Nat) /\ Len(NextBytes(n)) = n /\ Counts(NextBytes(n), off)
BY DEF NextBytes, Counts

LEMMA CountsConcat ==
    ASSUME NEW k \in Nat, NEW s \in Seq(Nat), NEW w \in Seq(Nat),
           Counts(s, k), Counts(w, k + Len(s))
    PROVE  s \o w \in Seq(Nat) /\ Len(s \o w) = Len(s) + Len(w) /\ Counts(s \o w, k)
<1>1. /\ s \o w \in Seq(Nat)
      /\ Len(s \o w) = Len(s) + Len(w)
      /\ \A i \in 1 .. Len(s) + Len(w) : (s \o w)[i] =
             IF i <= Len(s) THEN s[i] ELSE w[i - Len(s)]
  BY ConcatProperties, Zenon
<1>2. Len(s) \in Nat /\ Len(w) \in Nat
  OBVIOUS
<1>3. ASSUME NEW i \in 1 .. Len(s) + Len(w)
      PROVE  (s \o w)[i] = k + i - 1
  <2>1. CASE i <= Len(s)
    BY <1>1, <1>2, <2>1 DEF Counts
  <2>2. CASE ~(i <= Len(s))
    <3>1. i - Len(s) \in 1 .. Len(w)
      BY <1>2, <2>2
    <3>2. w[i - Len(s)] = k + Len(s) + (i - Len(s)) - 1
      BY <3>1 DEF Counts
    <3>3. (s \o w)[i] = w[i - Len(s)]
      BY <1>1, <2>2
    <3> QED
      BY <1>2, <3>2, <3>3
  <2> QED
    BY <2>1, <2>2
<1> QED
  BY <1>1, <1>3 DEF Counts

LEMMA CountsCut ==
    ASSUME NEW k \in Nat, NEW b \in Seq(Nat), NEW n \in 0 .. Len(b), Counts(b, k)
    PROVE  /\ SubSeq(b, 1, n) \in Seq(Nat) /\ Len(SubSeq(b, 1, n)) = n
           /\ Counts(SubSeq(b, 1, n), k)
           /\ SubSeq(b, n + 1, Len(b)) \in Seq(Nat)
           /\ Len(SubSeq(b, n + 1, Len(b))) = Len(b) - n
           /\ Counts(SubSeq(b, n + 1, Len(b)), k + n)
BY DEF Counts

(* Wherever stdio cuts what it holds and what it is given, all of it stays   *)
(* in order.                                                                 *)
LEMMA BufferCounts ==
    ASSUME NEW bytes \in Seq(Nat), dest \in Seq(Nat), buffered \in Seq(Nat), Buffer(bytes),
           NEW k \in Nat, Counts(dest, k), Counts(buffered, k + Len(dest)),
           Counts(bytes, k + Len(dest) + Len(buffered))
    PROVE  /\ dest' \in Seq(Nat) /\ buffered' \in Seq(Nat)
           /\ Counts(dest', k) /\ Counts(buffered', k + Len(dest'))
           /\ Len(dest') + Len(buffered') = Len(dest) + Len(buffered) + Len(bytes)
<1> DEFINE b == buffered \o bytes
           m == k + Len(dest)
<1>1. /\ b \in Seq(Nat) /\ Len(b) = Len(buffered) + Len(bytes)
      /\ Counts(b, m) /\ m \in Nat
  BY CountsConcat
<1> HIDE DEF b, m
<1>2. PICK n \in 0 .. Len(b) :
         dest' = dest \o SubSeq(b, 1, n) /\ buffered' = SubSeq(b, n + 1, Len(b))
  BY DEF Buffer, b
<1> DEFINE u == SubSeq(b, 1, n)
           v == SubSeq(b, n + 1, Len(b))
<1>3. /\ u \in Seq(Nat) /\ Len(u) = n /\ Counts(u, m)
      /\ v \in Seq(Nat) /\ Len(v) = Len(b) - n /\ Counts(v, m + n)
  BY <1>1, CountsCut
<1> HIDE DEF u, v
<1>4. dest' = dest \o u /\ buffered' = v
  BY <1>2 DEF u, v
<1>5. dest \o u \in Seq(Nat) /\ Len(dest \o u) = Len(dest) + n /\ Counts(dest \o u, k)
  BY <1>3, CountsConcat DEF m
<1>6. /\ Len(dest) \in Nat /\ Len(buffered) \in Nat /\ Len(bytes) \in Nat
      /\ Len(dest') = Len(dest) + n /\ Len(buffered') = Len(b) - n
  BY <1>3, <1>4, <1>5
<1>7. k + Len(dest') = m + n
  BY <1>1, <1>6 DEF m
<1>8. Len(dest') + Len(buffered') = Len(dest) + Len(buffered) + Len(bytes)
  BY <1>1, <1>6
<1> QED
  BY <1>3, <1>4, <1>5, <1>7, <1>8

LEMMA UnarchiveInvInit == UInit => UnarchiveInv
<1> SUFFICES ASSUME UInit PROVE UnarchiveInv
  OBVIOUS
<1> USE CopyFileAssumption, UnarchiveAssumption
<1>1. CopyType
  <2>1. CASE InitArchive
    BY <2>1 DEF UInit, InitCopy, InitArchive, CopyType, CopyLabel, NoResult
  <2>2. CASE InitUnarchive
    <3>1. PICK e \in Extra, n \in 0 .. MaxLen :
             /\ record_end = HeaderLen + e + n
             /\ own \in {record_end} \cup (IF RecordMayBeCut THEN {8} \cup HeaderLen .. record_end
                                         ELSE {})
             /\ extra_len = IF own < HeaderLen THEN 0 ELSE e
      BY <2>2 DEF InitUnarchive
    <3>2. /\ record_end \in Nat /\ extra_len \in Nat /\ own \in Nat
          /\ HeaderLen + extra_len <= record_end
      BY <3>1 DEF HeaderLen
    <3>3. avail \in Nat
      <4>1. NextRecord(own) \in Nat
        BY <3>2 DEF NextRecord
      <4> QED
        BY <2>2, <3>2, <4>1 DEF InitUnarchive
    <3> QED
      BY <2>2, <3>2, <3>3
      DEF UInit, InitCopy, InitUnarchive, CopyType, CopyLabel, NoResult
  <2> QED
    BY <2>1, <2>2 DEF UInit
<1>2. First \in Nat /\ End \in Nat /\ First <= End
  BY <1>1 DEF CopyType, First, End, HeaderLen
<1>3. InOrder
  BY <1>2 DEF UInit, InitCopy, InOrder, Counts, Taken
<1>4. CopySoFar
  BY <1>1, <1>2 DEF UInit, InitCopy, InitArchive, InitUnarchive, CopySoFar, NothingYet, Taken,
                    First, End, CopyType
<1>5. CopyResult
  BY DEF UInit, InitCopy, InitArchive, InitUnarchive, CopyResult, Running, NoResult
<1> QED
  BY <1>1, <1>3, <1>4, <1>5 DEF UnarchiveInv

(* What main and unarchive do before and behind the call of copy_file.       *)
LEMMA CallerSteps ==
    ASSUME UnarchiveInv, Open \/ HeaderShort \/ ReadHeader \/ CheckCopy
    PROVE  UnarchiveInv'
<1> USE DEF Exit, vars
<1>1. CASE Open \/ HeaderShort \/ CheckCopy
  <2>1. /\ UNCHANGED <<vars, operation, record_end, extra_len, own>>
        /\ \/ step \in {"open", "header"} /\ operation = "unarchive"
           \/ step = "copy" /\ pc = "done"
        /\ \/ step' = "header" /\ status' = status /\ step = "open"
           \/ step' = "exit" /\ status' = 4
           \/ step' = "exit" /\ status' = 0 /\ step = "copy" /\ Accepted
    BY <1>1 DEF Open, HeaderShort, CheckCopy, UnarchiveInv, CopyType
  <2>2. First' = First /\ End' = End /\ Taken' = Taken /\ TooShort' = TooShort
    BY <2>1 DEF First, End, Taken, TooShort
  <2>3. Accepted' = Accepted
    BY <2>1 DEF Accepted
  <2>4. CopyType'
    BY <2>1 DEF UnarchiveInv, CopyType
  <2>5. CopySoFar'
    BY <2>1, <2>2 DEF UnarchiveInv, CopySoFar, NothingYet
  <2>6. InOrder'
    BY <2>1, <2>2 DEF UnarchiveInv, InOrder, Counts
  <2>7. CopyResult'
    BY <2>1, <2>2, <2>3 DEF UnarchiveInv, CopyResult
  <2> QED
    BY <2>4, <2>5, <2>6, <2>7 DEF UnarchiveInv
<1>2. CASE ReadHeader
  <2>1. /\ step = "header" /\ step' = "copy" /\ operation = "unarchive"
        /\ off' = HeaderLen + extra_len /\ len' = SourceLen /\ remaining' = SourceLen
        /\ UNCHANGED <<pc, avail, dest, buffered, ret, operation, record_end, extra_len, own, status>>
    BY <1>2 DEF ReadHeader, UnarchiveInv, CopyType
  <2>2. First' = First /\ End' = End /\ Taken' = Taken /\ TooShort' = TooShort
    BY <2>1 DEF First, End, Taken, TooShort
  <2>3. Taken = 0 /\ pc = "copy_file_range" /\ buffered = <<>>
    BY <2>1 DEF UnarchiveInv, CopySoFar, NothingYet, Taken
  <2>4. /\ SourceLen = End - First /\ First = HeaderLen + extra_len
        /\ First \in Nat /\ SourceLen \in Nat /\ End \in Nat
    BY <2>1 DEF UnarchiveInv, CopyType, First, End, SourceLen, HeaderLen
  <2>5. CopyType'
    BY <2>1, <2>4 DEF UnarchiveInv, CopyType
  <2>6. CopySoFar'
    BY <2>1, <2>2, <2>3, <2>4 DEF CopySoFar
  <2>7. InOrder' /\ CopyResult'
    BY <2>1, <2>2 DEF UnarchiveInv, InOrder, Counts, CopyResult, Accepted
  <2> QED
    BY <2>5, <2>6, <2>7 DEF UnarchiveInv
<1> QED
  BY <1>1, <1>2

(* What is the same in every step of copy_file.                              *)
LEMMA DuringCopy ==
    ASSUME UnarchiveInv, Copy
    PROVE  /\ step = "copy" /\ pc # "done" /\ status = Running
           /\ UNCHANGED <<uvars, len, avail>>
           /\ First' = First /\ End' = End /\ TooShort' = TooShort
           /\ First \in Nat /\ End \in Nat /\ len = End - First
           /\ off = First + Taken /\ off + remaining = End /\ ret = NoResult
           /\ Len(dest) \in Nat /\ Len(buffered) \in Nat /\ Taken \in Nat
<1>1. /\ step = "copy" /\ pc # "done" /\ UNCHANGED <<uvars, len, avail>>
  BY DEF Copy, CopyStep, CopyGoesOn, CopyFileRange, Sendfile, Transfer, Fdopen, ReadWrite,
         ReadShort, Fflush, TryAnother, KernelFails, StdioFails
<1>2. First' = First /\ End' = End /\ TooShort' = TooShort
  BY <1>1 DEF First, End, TooShort, uvars
<1>3. Len(dest) \in Nat /\ Len(buffered) \in Nat /\ Taken \in Nat
  BY DEF UnarchiveInv, CopyType, Taken
<1>4. ret = NoResult
  BY <1>1 DEF UnarchiveInv, CopyType, CopyResult
<1> QED
  BY <1>1, <1>2, <1>3, <1>4, LengthFacts DEF UnarchiveInv, CopySoFar, CopyResult

(* A step that moves bytes keeps the invariant, if what was taken from the   *)
(* source is accounted for and 0 is returned for a reason.                   *)
LEMMA CopyKeeps ==
    ASSUME UnarchiveInv, Copy, pc' \in CopyLabel, off' \in Nat, remaining' \in Nat,
           dest' \in Seq(Nat), buffered' \in Seq(Nat),
           ret' \in {NoResult, -1, 0, 1, 3, 5}, ret' # NoResult <=> pc' = "done",
           Counts(dest', First), Counts(buffered', First + Len(dest')),
           First + Len(dest') + Len(buffered') <= End,
           pc' # "done" => off' = First + Taken' /\ off' + remaining' = End,
           pc' \in {"copy_file_range", "sendfile", "fdopen"} => buffered' = <<>>,
           pc' = "fflush" => remaining' = 0,
           ret' = 0 => TooShort \/ Len(dest') = End - First
    PROVE  UnarchiveInv'
<1> USE DuringCopy DEF uvars
<1>1. CopyType'
  BY DEF UnarchiveInv, CopyType
<1>2. CopySoFar'
  BY DEF CopySoFar
<1>3. InOrder'
  <2>1. Counts(dest, First)' /\ Counts(buffered, First + Len(dest))'
    BY DEF Counts
  <2>2. (First + Taken <= End)'
    <3>1. Len(dest') \in Nat /\ Len(buffered') \in Nat
      OBVIOUS
    <3> QED
      BY <3>1 DEF Taken
  <2> QED
    BY <2>1, <2>2 DEF InOrder
<1>4. CopyResult'
  BY DEF CopyResult, Running, NoResult
<1> QED
  BY <1>1, <1>2, <1>3, <1>4 DEF UnarchiveInv

LEMMA TransferStep ==
    ASSUME UnarchiveInv, Copy, Transfer, pc \in {"copy_file_range", "sendfile"}
    PROVE  UnarchiveInv'
<1>1. PICK n \in 0 .. Smallest(remaining, Readable) :
         /\ dest' = dest \o NextBytes(n) /\ off' = off + n /\ remaining' = remaining - n
         /\ LoopOn(remaining - n, "return")
         /\ UNCHANGED <<len, avail, buffered>>
  BY DEF Transfer
<1>2. n \in Nat /\ n <= remaining /\ remaining \in Nat /\ off \in Nat
  BY DEF Smallest, Readable, UnarchiveInv, CopyType
<1>3. /\ dest \in Seq(Nat) /\ buffered = <<>> /\ Taken = Len(dest)
      /\ Counts(dest, First)
  BY DEF UnarchiveInv, CopyType, CopySoFar, InOrder, Taken
<1>4. NextBytes(n) \in Seq(Nat) /\ Len(NextBytes(n)) = n /\ Counts(NextBytes(n), off)
  BY <1>2, CountsNext
<1>5. /\ off = First + Len(dest) /\ First \in Nat /\ off + remaining = End /\ End \in Nat
      /\ Len(dest) \in Nat
  BY <1>3, DuringCopy
<1>6. /\ dest' \in Seq(Nat) /\ Len(dest') = Len(dest) + n /\ Counts(dest', First)
  BY <1>1, <1>3, <1>4, <1>5, CountsConcat
<1>7. /\ buffered' = <<>> /\ Counts(buffered', First + Len(dest')) /\ Len(buffered') = 0
  BY <1>1, <1>3 DEF Counts
<1>8. Taken' = Len(dest) + n
  BY <1>5, <1>2, <1>6, <1>7 DEF Taken
<1>9. /\ off' = First + Taken' /\ off' + remaining' = End /\ remaining' \in Nat
      /\ off' \in Nat /\ First + Len(dest') + Len(buffered') <= End
  BY <1>1, <1>2, <1>5, <1>6, <1>7, <1>8
<1>10. \/ pc' = pc /\ ret' = ret
       \/ pc' = "done" /\ ret' = 0 /\ remaining' = 0
  BY <1>1, <1>2 DEF LoopOn, Return
<1>11. ret' = 0 => Len(dest') = End - First
  BY <1>2, <1>5, <1>6, <1>8, <1>10, <1>9, DuringCopy DEF NoResult
<1>12. buffered' \in Seq(Nat)
  BY <1>7
<1>13. /\ pc' \in CopyLabel /\ ret' \in {NoResult, -1, 0, 1, 3, 5}
       /\ ret' # NoResult <=> pc' = "done"
       /\ pc' # "fflush"
  BY <1>10, DuringCopy DEF CopyLabel, NoResult
<1> QED
  BY <1>6, <1>7, <1>9, <1>11, <1>12, <1>13, CopyKeeps

LEMMA ReadWriteStep == ASSUME UnarchiveInv, Copy, ReadWrite PROVE UnarchiveInv'
<1> DEFINE n == ToRead
<1>1. /\ pc = "fread" /\ Buffer(NextBytes(n)) /\ off' = off + n /\ remaining' = remaining - n
      /\ LoopOn(remaining - n, "fflush")
  BY DEF ReadWrite
<1>2. n \in Nat /\ n <= remaining /\ remaining \in Nat /\ off \in Nat
  BY CopyFileAssumption DEF ToRead, Smallest, UnarchiveInv, CopyType
<1> HIDE DEF n
<1>3. /\ dest \in Seq(Nat) /\ buffered \in Seq(Nat)
      /\ Counts(dest, First) /\ Counts(buffered, First + Len(dest))
  BY DEF UnarchiveInv, CopyType, InOrder
<1>4. NextBytes(n) \in Seq(Nat) /\ Len(NextBytes(n)) = n /\ Counts(NextBytes(n), off)
  BY <1>2, CountsNext
<1>5. /\ off = First + Len(dest) + Len(buffered) /\ First \in Nat /\ off + remaining = End
      /\ End \in Nat /\ Len(dest) \in Nat /\ Len(buffered) \in Nat
  BY DuringCopy DEF Taken
<1> DEFINE w == NextBytes(n)
<1>6. w \in Seq(Nat) /\ Counts(w, First + Len(dest) + Len(buffered)) /\ Buffer(w) /\ Len(w) = n
  BY <1>1, <1>4, <1>5
<1> HIDE DEF w
<1>7. /\ dest' \in Seq(Nat) /\ buffered' \in Seq(Nat)
      /\ Counts(dest', First) /\ Counts(buffered', First + Len(dest'))
      /\ Len(dest') + Len(buffered') = Len(dest) + Len(buffered) + n
  BY <1>3, <1>5, <1>6, BufferCounts
<1>8. Len(dest') \in Nat /\ Len(buffered') \in Nat
  BY <1>7
<1>9. Taken' = Len(dest) + Len(buffered) + n
  BY <1>7 DEF Taken
<1>10. /\ off' = First + Taken' /\ off' + remaining' = End
       /\ remaining' \in Nat /\ off' \in Nat
  BY <1>1, <1>2, <1>5, <1>9
<1>11. First + Len(dest') + Len(buffered') <= End
  BY <1>5, <1>2, <1>7, <1>8
<1>12. \/ pc' = "fread" /\ ret' = ret
       \/ pc' = "fflush" /\ ret' = ret /\ remaining' = 0
  BY <1>1, <1>2 DEF LoopOn
<1>13. /\ pc' \in CopyLabel /\ ret' = NoResult /\ pc' \in {"fread", "fflush"}
       /\ pc' = "fflush" => remaining' = 0
  BY <1>12, DuringCopy DEF CopyLabel
<1>14. /\ ret' \in {NoResult, -1, 0, 1, 3, 5} /\ ret' # 0
       /\ ret' # NoResult <=> pc' = "done"
       /\ pc' \notin {"copy_file_range", "sendfile", "fdopen"}
  BY <1>13 DEF NoResult
<1> QED
  BY <1>7, <1>10, <1>11, <1>13, <1>14, CopyKeeps

LEMMA FflushStep == ASSUME UnarchiveInv, Copy, Fflush PROVE UnarchiveInv'
<1>1. /\ pc = "fflush" /\ dest' = dest \o buffered /\ buffered' = <<>>
      /\ pc' = "done" /\ ret' = 0 /\ UNCHANGED <<remaining, off>>
  BY DEF Fflush, Return
<1>2. /\ dest \in Seq(Nat) /\ buffered \in Seq(Nat) /\ remaining = 0 /\ off \in Nat
      /\ Counts(dest, First) /\ Counts(buffered, First + Len(dest))
  BY <1>1 DEF UnarchiveInv, CopyType, InOrder, CopySoFar
<1>3. /\ First \in Nat /\ End \in Nat /\ off = First + Taken /\ off + remaining = End
      /\ Taken \in Nat
  BY DuringCopy
<1>4. /\ dest' \in Seq(Nat) /\ Len(dest') = Taken /\ Counts(dest', First)
  BY <1>1, <1>2, <1>3, CountsConcat DEF Taken
<1>5. /\ buffered' \in Seq(Nat) /\ Counts(buffered', First + Len(dest')) /\ Len(buffered') = 0
  BY <1>1 DEF Counts
<1>6. /\ Len(dest') = End - First /\ First + Len(dest') + Len(buffered') <= End
      /\ off' \in Nat /\ remaining' \in Nat
  BY <1>1, <1>2, <1>3, <1>4, <1>5
<1> QED
  BY <1>1, <1>4, <1>5, <1>6, CopyKeeps DEF CopyLabel, NoResult

(* The steps that move no byte.                                              *)
LEMMA OtherCopySteps ==
    ASSUME UnarchiveInv, Copy, Fdopen \/ ReadShort \/ TryAnother \/ KernelFails \/ StdioFails
    PROVE  UnarchiveInv'
<1>1. UNCHANGED <<dest, buffered>>
  BY DEF Fdopen, ReadShort, TryAnother, KernelFails, StdioFails
<1>2. /\ dest \in Seq(Nat) /\ buffered \in Seq(Nat)
      /\ Counts(dest, First) /\ Counts(buffered, First + Len(dest))
      /\ First + Len(dest) + Len(buffered) <= End /\ Taken' = Taken
      /\ off \in Nat /\ remaining \in Nat /\ avail \in Nat
      /\ pc \in {"copy_file_range", "sendfile", "fdopen"} => buffered = <<>>
  BY <1>1, DuringCopy DEF UnarchiveInv, CopyType, InOrder, CopySoFar, Taken
<1>3. CASE ReadShort
  <2>1. /\ pc' = "done" /\ ret' = 0 /\ off' = off + Readable /\ UNCHANGED remaining
        /\ Readable < ToRead
    BY <1>3 DEF ReadShort, Return
  <2>2. Readable \in Nat /\ ToRead <= remaining /\ ToRead \in Nat
    BY <1>2, CopyFileAssumption DEF Readable, ToRead, Smallest
  <2>3. avail < off + remaining
    BY <1>2, <2>1, <2>2 DEF Readable
  <2>4. TooShort
    BY <2>3, DuringCopy DEF TooShort
  <2>5. off' \in Nat /\ remaining' \in Nat
    BY <1>2, <2>1, <2>2
  <2> QED
    BY <1>1, <1>2, <2>1, <2>4, <2>5, CopyKeeps DEF CopyLabel, NoResult
<1>4. CASE Fdopen \/ TryAnother
  <2>1. /\ pc' \in {"sendfile", "fdopen", "fread"} /\ pc \in {"copy_file_range", "sendfile", "fdopen"}
        /\ UNCHANGED <<off, remaining, ret>>
    BY <1>4 DEF Fdopen, TryAnother, MayFallBack
  <2> QED
    BY <1>1, <1>2, <2>1, CopyKeeps, DuringCopy DEF CopyLabel, NoResult
<1>5. CASE KernelFails \/ StdioFails
  <2>1. pc' = "done" /\ ret' \in {-1, 1, 3, 5} /\ UNCHANGED <<off, remaining>>
    BY <1>5 DEF KernelFails, StdioFails, Return
  <2> QED
    BY <1>1, <1>2, <2>1, CopyKeeps DEF CopyLabel, NoResult
<1> QED
  BY <1>3, <1>4, <1>5

(* The source gets shorter: what was too short stays so.                     *)
LEMMA ShrinkStep == ASSUME UnarchiveInv, ShrinkSource PROVE UnarchiveInv'
<1>1. /\ pc # "done" /\ avail' \in Nat /\ avail' < avail
      /\ UNCHANGED <<pc, len, remaining, off, dest, buffered, ret, uvars>>
  BY DEF ShrinkSource, Shrink, UnarchiveInv, CopyType
<1>2. First' = First /\ End' = End /\ Taken' = Taken
  BY <1>1 DEF First, End, Taken, uvars
<1>3. CopyType'
  BY <1>1 DEF UnarchiveInv, CopyType, uvars
<1>4. CopySoFar'
  BY <1>1, <1>2 DEF UnarchiveInv, CopySoFar, NothingYet, uvars
<1>5. InOrder'
  BY <1>1, <1>2 DEF UnarchiveInv, InOrder, Counts
<1>6. CopyResult'
  BY <1>1 DEF UnarchiveInv, CopyResult, Accepted, uvars
<1> QED
  BY <1>3, <1>4, <1>5, <1>6 DEF UnarchiveInv

LEMMA UnarchiveInvStep == UnarchiveInv /\ [UNext]_allvars => UnarchiveInv'
<1> SUFFICES ASSUME UnarchiveInv, [UNext]_allvars PROVE UnarchiveInv'
  OBVIOUS
<1>1. CASE Copy
  BY <1>1, TransferStep, ReadWriteStep, FflushStep, OtherCopySteps
  DEF Copy, CopyStep, CopyGoesOn, CopyFileRange, Sendfile
<1>2. CASE UNCHANGED allvars
  <2>1. UNCHANGED <<pc, len, remaining, avail, off, dest, buffered, ret,
                    operation, step, record_end, extra_len, own, status>>
    BY <1>2 DEF allvars, vars, uvars
  <2>2. First' = First /\ End' = End /\ Taken' = Taken /\ TooShort' = TooShort
    BY <2>1 DEF First, End, Taken, TooShort
  <2>3. CopyType' /\ CopySoFar' /\ InOrder'
    BY <2>1, <2>2 DEF UnarchiveInv, CopyType, CopySoFar, NothingYet, InOrder, Counts
  <2>4. CopyResult'
    BY <2>1, <2>2 DEF UnarchiveInv, CopyResult, Accepted
  <2> QED
    BY <2>3, <2>4 DEF UnarchiveInv
<1> QED
  BY <1>1, <1>2, CallerSteps, ShrinkStep DEF UNext, UStep, Exited

(* Whatever the lengths of the file, the record and its -e data, however     *)
(* much the kernel and stdio take at a time, whatever fails, and even when   *)
(* the source shrinks or the record was cut: what arrives is what was asked  *)
(* for, from its beginning on, and of a record that was written whole only   *)
(* its own bytes (src/copy.h:20-110, src/catfight.c:141-151).                *)
THEOREM OrderSafe == USpec => []ArrivesInOrder
<1>1. ASSUME UnarchiveInv PROVE ArrivesInOrder
  <2>1. /\ dest \in Seq(Nat) /\ buffered \in Seq(Nat) /\ First \in Nat /\ End \in Nat
        /\ Counts(dest, First) /\ Counts(buffered, First + Len(dest)) /\ First + Taken <= End
    BY <1>1, LengthFacts DEF UnarchiveInv, CopyType, InOrder
  <2> DEFINE all == dest \o buffered
  <2>2. Len(all) = Taken /\ Counts(all, First)
    BY <2>1, CountsConcat DEF Taken
  <2>3. Taken \in Nat
    BY <2>1 DEF Taken
  <2>4. ASSUME NEW o \in Nat, o < End, Foreign(o) PROVE own < record_end
    BY <1>1, <2>4 DEF Foreign, End, UnarchiveInv, CopyType
  <2> HIDE DEF all
  <2>5. \A i \in 1 .. Len(all) :
           all[i] = First + i - 1 /\ all[i] < End /\ all[i] \in Nat
    <3>1. First + Taken <= End
      BY <2>1
    <3> QED
      BY <2>1, <2>2, <2>3, <3>1 DEF Counts
  <2>6. \A i \in 1 .. Len(all) :
           all[i] = First + i - 1 /\ all[i] < End /\ (Foreign(all[i]) => own < record_end)
    BY <2>4, <2>5
  <2> QED
    BY <2>6 DEF ArrivesInOrder, all
<1> QED
  BY <1>1, UnarchiveInvInit, UnarchiveInvStep, PTL DEF USpec

(* When the program exits with 0 everything has arrived, unless the source   *)
(* was too short or stdio failed in unarchive (src/catfight.c:152,282).      *)
THEOREM ZeroSafe == USpec => []ZeroMeansWhole
<1>1. UnarchiveInv => ZeroMeansWhole
  BY DEF UnarchiveInv, CopyType, CopyResult, Accepted, ZeroMeansWhole, NoResult
<1> QED
  BY <1>1, UnarchiveInvInit, UnarchiveInvStep, PTL DEF USpec
=============================================================================
