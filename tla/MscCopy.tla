------------------------------ MODULE MscCopy ------------------------------
(***************************************************************************)
(* usbdevice::msc_copy(): sendFile() and getFile() on a device mounted as  *)
(* a drive copy the file block by block, tell the Java notifier about it   *)
(* (jsyncnotifier), and ask it before each block whether to abort.  The    *)
(* answer is set by another thread at any time.  Opening, reading, writing *)
(* and closing may fail.                                                   *)
(*                                                                         *)
(* Bytes are counted, not represented: the first `written' bytes of the    *)
(* source are in the target.                                               *)
(***************************************************************************)
EXTENDS Integers

CONSTANTS
  Sizes,     \* sizes of source files
  MAX_BUF,   \* bytes of a block
  LongMax    \* the largest value of the type long

ASSUME MscAssumption ==
  /\ Sizes \subseteq Nat
  /\ MAX_BUF \in Nat \ {0}
  /\ LongMax \in Nat

VARIABLES
  size,        \* size of the source file
  pc,          \* next step of msc_copy()
  opened,      \* f_to # NULL
  bytesread,   \* bytes of the block in buf
  crtCopied,   \* bytes read so far
  eof,         \* feof(f_from)
  written,     \* bytes in the target
  ret,         \* value returned
  abort,       \* what getAbort() of the notifier answers
  begun,       \* argument of notifyBegin()
  current      \* argument of the latest notifyCurrent(), 0 before

\* History
VARIABLES
  lost,        \* writing to or closing the target has failed
  atAbort      \* bytes in the target when the abort was requested

file  == <<size, opened, bytesread, crtCopied, eof, written>>
notif == <<abort, begun, current, atAbort>>
vars  == <<file, pc, ret, notif, lost>>

-----------------------------------------------------------------------------
Least(m, n) == IF m <= n THEN m ELSE n

\* conversion to long
Long(n) == ((n + LongMax + 1) % (2 * (LongMax + 1))) - (LongMax + 1)

Init ==
  /\ size \in Sizes
  /\ pc = "open" /\ opened = FALSE
  /\ bytesread = 0 /\ crtCopied = 0 /\ eof = FALSE /\ written = 0
  /\ ret = 0
  /\ abort = FALSE /\ begun = 0 /\ current = 0
  /\ lost = FALSE /\ atAbort = 0

RequestAbort ==
  /\ ~abort /\ abort' = TRUE
  /\ atAbort' = written
  /\ UNCHANGED <<file, pc, ret, begun, current, lost>>

SourceNotOpened ==
  /\ pc = "open"
  /\ pc' = "returned" /\ ret' = 1
  /\ UNCHANGED <<file, notif, lost>>

\* The target may not have been opened: the code tests f_from a second time.
\* ftell() fails on a file larger than a long can tell.
Begin ==
  /\ pc = "open"
  /\ pc' = "loop"
  /\ opened' \in BOOLEAN
  /\ begun' = IF size <= LongMax THEN size ELSE -1
  /\ UNCHANGED <<size, bytesread, crtCopied, eof, written, ret, abort, current,
                 lost, atAbort>>

\* Mutant: the notifier is asked before the first block only
AskFirst ==
  /\ pc = "loop"
  /\ pc' = IF abort /\ crtCopied = 0 THEN "end" ELSE "read"
  /\ UNCHANGED <<file, ret, notif, lost>>

\* is_abort()
AskAbort ==
  /\ pc = "loop"
  /\ pc' = IF abort THEN "end" ELSE "read"
  /\ UNCHANGED <<file, ret, notif, lost>>

\* Mutant: the loop does not end at the end of the file
ReadForEver ==
  /\ pc = "read"
  /\ bytesread' = Least(MAX_BUF, size - crtCopied)
  /\ eof' = (bytesread' < MAX_BUF)
  /\ crtCopied' = crtCopied + bytesread'
  /\ pc' = "write"
  /\ UNCHANGED <<size, opened, written, ret, notif, lost>>

\* Mutant: every block counts as a full one
CountFullBlocks ==
  /\ pc = "read"
  /\ bytesread' = Least(MAX_BUF, size - crtCopied)
  /\ eof' = (bytesread' < MAX_BUF)
  /\ crtCopied' = crtCopied + MAX_BUF
  /\ pc' = IF bytesread' = 0 THEN "end" ELSE "write"
  /\ UNCHANGED <<size, opened, written, ret, notif, lost>>

\* fread(): a block that is not full has met the end of the file
ReadBlock ==
  /\ pc = "read"
  /\ bytesread' = Least(MAX_BUF, size - crtCopied)
  /\ eof' = (bytesread' < MAX_BUF)
  /\ crtCopied' = crtCopied + bytesread'
  /\ pc' = IF bytesread' = 0 THEN "end" ELSE "write"
  /\ UNCHANGED <<size, opened, written, ret, notif, lost>>

\* fread() fails after a part of the block
ReadFails ==
  /\ pc = "read"
  /\ \E n \in 0 .. Least(MAX_BUF, size - crtCopied) :
       /\ n < MAX_BUF
       /\ bytesread' = n /\ crtCopied' = crtCopied + n
       /\ pc' = IF n = 0 THEN "end" ELSE "write"
  /\ UNCHANGED <<size, opened, eof, written, ret, notif, lost>>

WriteBlock ==
  /\ pc = "write" /\ opened
  /\ written' = written + bytesread
  /\ pc' = "notify"
  /\ UNCHANGED <<size, opened, bytesread, crtCopied, eof, ret, notif, lost>>

\* fwrite() is short; retcode = 3 is used nowhere
WriteFails ==
  /\ pc = "write" /\ opened
  /\ \E n \in 0 .. bytesread - 1 : written' = written + n
  /\ lost' = TRUE
  /\ pc' = "end"
  /\ UNCHANGED <<size, opened, bytesread, crtCopied, eof, ret, notif>>

\* fwrite() and fclose() on the NULL stream
Crash ==
  /\ pc = "write" \/ (pc = "close" /\ eof)
  /\ ~opened
  /\ pc' = "crashed"
  /\ UNCHANGED <<file, ret, notif, lost>>

\* Mutant: the block is reported instead of the sum
NotifyBlock ==
  /\ pc = "notify"
  /\ current' = Long(bytesread)
  /\ pc' = "loop"
  /\ UNCHANGED <<file, ret, abort, begun, lost, atAbort>>

NotifyCurrent ==
  /\ pc = "notify"
  /\ current' = Long(crtCopied)
  /\ pc' = "loop"
  /\ UNCHANGED <<file, ret, abort, begun, lost, atAbort>>

NotifyEnd ==
  /\ pc = "end"
  /\ pc' = "close"
  /\ UNCHANGED <<file, ret, notif, lost>>

\* Mutant: success is returned before the end of the source
ReturnsSuccess ==
  /\ pc = "close" /\ ~eof
  /\ pc' = "returned" /\ ret' = 0
  /\ UNCHANGED <<file, notif, lost>>

\* both streams stay open
NotAtEnd ==
  /\ pc = "close" /\ ~eof
  /\ pc' = "returned" /\ ret' = 4
  /\ UNCHANGED <<file, notif, lost>>

\* fclose(f_to) may lose what is still in its buffer, which is only printed
Close ==
  /\ pc = "close" /\ eof /\ opened
  /\ pc' = "returned" /\ ret' = 0
  /\ \/ UNCHANGED <<written, lost>>
     \/ /\ \E n \in 0 .. written - 1 : written' = n
        /\ lost' = TRUE
  /\ UNCHANGED <<size, opened, bytesread, crtCopied, eof, notif>>

Copy ==
  \/ SourceNotOpened \/ Begin \/ AskAbort \/ ReadBlock \/ ReadFails
  \/ WriteBlock \/ WriteFails \/ Crash \/ NotifyCurrent \/ NotifyEnd
  \/ NotAtEnd \/ Close

Next == RequestAbort \/ Copy

\* the thread that copies goes on, and every request to the system returns
Spec == Init /\ [][Next]_vars /\ WF_vars(Copy)

-----------------------------------------------------------------------------
(* Properties                                                              *)

\* Types, and the bookkeeping of the loop: what has been read is in the target
\* or in the buffer, unless a write failed.
TypeOK ==
  /\ size \in Sizes
  /\ pc \in {"open", "loop", "read", "write", "notify", "end", "close",
             "returned", "crashed"}
  /\ opened \in BOOLEAN /\ eof \in BOOLEAN
  /\ abort \in BOOLEAN /\ lost \in BOOLEAN
  /\ bytesread \in 0 .. MAX_BUF /\ crtCopied \in 0 .. size
  /\ written \in 0 .. crtCopied /\ atAbort \in 0 .. size
  /\ ret \in {0, 1, 4}
  /\ begun \in Int /\ current \in Int
  /\ ~lost /\ pc # "crashed"
       => written = IF pc = "write" THEN crtCopied - bytesread ELSE crtCopied

\* A copy that returns 0 without a failure on the target has copied the whole
\* file, although an abort and errors on the source leave the loop as the end
\* of the file does: feof() is what tells them apart.
SuccessIsWhole ==
  pc = "returned" /\ ret = 0 /\ ~lost => written = size

\* The notifier is told the truth about a file whose size a long can tell:
\* between two blocks what notifyCurrent() has reported is in the target, it
\* never exceeds what notifyBegin() announced, and a copy that succeeds has
\* reported all of it.
ProgressTruthful ==
  size <= LongMax =>
    /\ current <= size
    /\ pc \in {"loop", "read"} => current = written /\ begun = size
    /\ pc = "returned" /\ ret = 0 /\ ~lost => current = begun

\* An abort is obeyed before the next block: after the request at most the
\* block in hand is still written.
AbortStops == abort => written <= atAbort + MAX_BUF

\* The copy ends, whatever fails, however often a read makes little progress.
CopyEnds == <>(pc \in {"returned", "crashed"})
=============================================================================
