----------------------------- MODULE Unarchive -----------------------------
(* The two uses src/catfight.c makes of copy_file.  `catfight root file`     *)
(* copies the file, whose length it has just read, behind the record's       *)
(* header (CatFight.tla is about the rest of it); `catfight -u position`     *)
(* reads the header of a record, skips its -e data and copies the rest to    *)
(* stdout.  In the second case the source of CopyFile is the block file from *)
(* the record on: offset 0 is the first byte of the record.                  *)
EXTENDS CopyFile

CONSTANTS
    Extra,             \* lengths of the -e data that are tried
    RecordMayBeCut     \* may the record lack its end (its writer was killed)?

ASSUME UnarchiveAssumption ==
    /\ Extra \subseteq Nat
    /\ RecordMayBeCut \in BOOLEAN

VARIABLES
    operation,         \* MODE_ARCHIVE or MODE_UNARCHIVE
    step,              \* where main or unarchive is
    record_end,        \* buf[0] in the file
    extra_len,         \* buf[1] in the file
    own,               \* how much of the record its own writer has written
    status             \* the exit status

uvars == <<operation, step, record_end, extra_len, own, status>>
allvars == <<vars, uvars>>

Running == -1

HeaderLen == 16

Exit(s) == step' = "exit" /\ status' = s

InitCopy ==
    /\ pc = "copy_file_range"
    /\ off = 0
    /\ dest = <<>> /\ buffered = <<>>
    /\ ret = NoResult

(* main has opened the file and written the record's header.                 *)
InitArchive ==
    /\ operation = "archive"
    /\ step = "copy"
    /\ record_end = 0 /\ extra_len = 0 /\ own = 0
    /\ len \in 0 .. MaxLen
    /\ remaining = len
    /\ avail \in len .. MaxLen + 1

(* Where the next catfight puts its record when this one ends at n.          *)
NextRecord(n) == ((n + 15) \div 16) * 16

(* A record of e bytes of -e data and n bytes of a file, at the position     *)
(* that is asked for.  If its writer was killed, by a signal or a full disk, *)
(* it ends early (between the two words of the header, which are written one *)
(* by one, the second reads as 0), and the next catfight may have appended a *)
(* record to what there is, within the length that this one claims: a gap of *)
(* zero bytes up to the next multiple of 16, and that record.                *)
InitUnarchive ==
    /\ operation = "unarchive"
    /\ step = "open"
    /\ \E e \in Extra, n \in 0 .. MaxLen :
          /\ record_end = HeaderLen + e + n
          /\ own \in {record_end} \cup (IF RecordMayBeCut THEN {8} \cup HeaderLen .. record_end
                                      ELSE {})
          /\ extra_len = IF own < HeaderLen THEN 0 ELSE e
    /\ avail \in {own} \cup {NextRecord(own) + n : n \in 1 .. MaxLen + 1}
    /\ len = 0 /\ remaining = 0

UInit == InitCopy /\ status = Running /\ (InitArchive \/ InitUnarchive)

(* open and lseek to the record; check() ends the program if they fail.      *)
Open ==
    /\ step = "open"
    /\ \/ step' = "header" /\ UNCHANGED status
       \/ Exit(4)
    /\ UNCHANGED <<vars, operation, record_end, extra_len, own>>

(* The header is not all there.                                              *)
HeaderShort ==
    /\ step = "header"
    /\ avail < HeaderLen
    /\ Exit(4)
    /\ UNCHANGED <<vars, operation, record_end, extra_len, own>>

(* end - extra - sizeof(buf); it would wrap around for a position where no   *)
(* record starts, but not for one that catfight has printed.                 *)
SourceLen == record_end - (extra_len + HeaderLen)

(* The header is there: skip the -e data and call copy_file.                 *)
ReadHeader ==
    /\ step = "header"
    /\ avail >= HeaderLen
    /\ off' = HeaderLen + extra_len
    /\ len' = SourceLen
    /\ remaining' = SourceLen
    /\ step' = "copy"
    /\ UNCHANGED <<pc, avail, dest, buffered, ret, operation, record_end,
                   extra_len, own, status>>

Copy == step = "copy" /\ CopyStep /\ UNCHANGED uvars

CopyWorks == step = "copy" /\ CopyGoesOn /\ UNCHANGED uvars

(* The file that is being archived gets shorter; block files never do.       *)
ShrinkSource ==
    /\ operation = "archive"
    /\ Shrink
    /\ UNCHANGED uvars

(* The mutant asks in both modes what -u asks.                               *)
Accepted_Loosely == ret # -1

(* check("copy_file", 0 == copy) in main, -1 != copy in unarchive.           *)
Accepted == IF operation = "archive" THEN ret = 0 ELSE ret # -1

(* Closing the files of unarchive can only warn.                             *)
CheckCopy ==
    /\ step = "copy"
    /\ pc = "done"
    /\ Exit(IF Accepted THEN 0 ELSE 4)
    /\ UNCHANGED <<vars, operation, record_end, extra_len, own>>

Exited == step = "exit" /\ UNCHANGED allvars

UStep == Open \/ HeaderShort \/ ReadHeader \/ Copy \/ CheckCopy

UNext == UStep \/ ShrinkSource \/ Exited

(* The program is scheduled, but no call has to fail so that it can end.     *)
USpec ==
    /\ UInit /\ [][UNext]_allvars
    /\ WF_allvars(Open \/ HeaderShort \/ ReadHeader \/ CopyWorks \/ CheckCopy)

-----------------------------------------------------------------------------
(* The part of the source that is to be copied.                              *)
First == IF operation = "archive" THEN 0 ELSE HeaderLen + extra_len
End   == IF operation = "archive" THEN len ELSE record_end

TooShort == avail < End

(* The byte at offset o of what -u reads was not written with the record.    *)
Foreign(o) == operation = "unarchive" /\ o >= own

(* Whichever of its three ways copy_file takes, and after any change of way, *)
(* what has arrived is a beginning of what was asked for: no byte twice, in  *)
(* the wrong place, of the header or from behind the length that the record  *)
(* claims, even from a source that shrinks.  From a record that was written  *)
(* whole -u gives nothing but its own bytes.  From one whose writer was      *)
(* killed half way, which has never printed its position, it goes on with    *)
(* the gap and the record of the next catfight: nothing tells them apart.    *)
ArrivesInOrder ==
    LET all == dest \o buffered IN
    \A i \in 1 .. Len(all) :
        /\ all[i] = First + i - 1
        /\ all[i] < End
        /\ Foreign(all[i]) => own < record_end

(* An exit status of 0 means that all of the length asked for has arrived,   *)
(* unless the source is too short: then stdio may go without the rest, see   *)
(* ZeroMeansCopied.  unarchive also takes the failures of stdio (1, 3, 5)    *)
(* for success.  It says nothing about whose the bytes of a cut record are.  *)
ZeroMeansWhole ==
    status = 0 /\ ~TooShort =>
        \/ Len(dest) = End - First
        \/ operation = "unarchive" /\ ret \in {1, 3, 5}

(* With a source that is long enough the program always ends; with one that  *)
(* is too short copy_file_range and sendfile may return 0 for ever.          *)
UEnds == <>(step = "exit" \/ TooShort)
=============================================================================
