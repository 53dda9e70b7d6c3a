--------------------------- MODULE MscCopy_proofs ---------------------------
(***************************************************************************)
(* Proofs about MscCopy, for every set of file sizes and every block size. *)
(***************************************************************************)
EXTENDS MscCopy, TLAPS

\* What the types leave open: the end of the file has been met only when all
\* of it is read, and what is still to be written after an abort.
LoopInv ==
  /\ eof => crtCopied = size
  /\ pc \notin {"returned", "crashed"} => ret = 0
  /\ pc \in {"open", "loop", "read", "write", "notify"} => ~lost
  /\ pc = "open" => crtCopied = 0
  /\ abort => written <= atAbort + (IF pc \in {"read", "write"} THEN 0
                                                              ELSE MAX_BUF)

IInv == TypeOK /\ LoopInv /\ SuccessIsWhole

\* The least of two numbers.
LEMMA LeastFacts ==
  ASSUME NEW m \in Nat, NEW n \in Nat
  PROVE  /\ Least(m, n) \in Nat
         /\ Least(m, n) <= m /\ Least(m, n) <= n
         /\ Least(m, n) < m => Least(m, n) = n
  BY DEF Least

\* A conversion to long is an integer.
LEMMA LongType == ASSUME NEW n \in Nat PROVE Long(n) \in Int
  BY MscAssumption DEF MscAssumption, Long

\* The initial states satisfy the inductive invariant.
LEMMA InitInv == Init => IInv
  <1> SUFFICES ASSUME Init PROVE IInv
    OBVIOUS
  <1> USE MscAssumption DEF MscAssumption, Init
  <1>1. TypeOK
    <2>1. /\ opened \in BOOLEAN /\ eof \in BOOLEAN
          /\ abort \in BOOLEAN /\ lost \in BOOLEAN
      BY Zenon
    <2>2. size \in Nat /\ 0 \in 0 .. MAX_BUF /\ 0 \in 0 .. size /\ 0 \in 0 .. 0
      OBVIOUS
    <2>3. pc # "write"
      OBVIOUS
    <2> QED
      BY <2>1, <2>2, <2>3 DEF TypeOK
  <1>2. LoopInv
    <2>1. ~eof /\ ~abort /\ ~lost
      BY Zenon
    <2> QED
      BY <2>1 DEF LoopInv
  <1>3. SuccessIsWhole
    BY DEF SuccessIsWhole
  <1> QED
    BY <1>1, <1>2, <1>3 DEF IInv

\* Every step preserves it.
LEMMA NextInv == IInv /\ [Next]_vars => IInv'
  <1> SUFFICES ASSUME IInv, [Next]_vars PROVE IInv'
    OBVIOUS
  <1> USE MscAssumption DEF MscAssumption, IInv, file, notif
  <1>0. /\ size \in Nat /\ MAX_BUF \in Nat /\ MAX_BUF > 0 /\ LongMax \in Nat
        /\ size - crtCopied \in Nat
    BY DEF TypeOK
  <1>1. CASE RequestAbort
    BY <1>0, <1>1 DEF RequestAbort, TypeOK, LoopInv, SuccessIsWhole
  <1>2. CASE SourceNotOpened
    BY <1>0, <1>2 DEF SourceNotOpened, TypeOK, LoopInv, SuccessIsWhole
  <1>3. CASE Begin
    BY <1>0, <1>3 DEF Begin, TypeOK, LoopInv, SuccessIsWhole
  <1>4. CASE AskAbort
    BY <1>0, <1>4 DEF AskAbort, TypeOK, LoopInv, SuccessIsWhole
  <1>5. CASE ReadBlock
    <2>1. /\ bytesread' \in Nat /\ bytesread' <= MAX_BUF
          /\ bytesread' <= size - crtCopied
          /\ bytesread' < MAX_BUF => bytesread' = size - crtCopied
      BY <1>0, <1>5, LeastFacts DEF ReadBlock
    <2> QED
      BY <1>0, <1>5, <2>1 DEF ReadBlock, TypeOK, LoopInv, SuccessIsWhole
  <1>6. CASE ReadFails
    <2>1. /\ bytesread' \in Nat /\ bytesread' < MAX_BUF
          /\ bytesread' <= size - crtCopied
      BY <1>0, <1>6, LeastFacts DEF ReadFails
    <2> QED
      BY <1>0, <1>6, <2>1 DEF ReadFails, TypeOK, LoopInv, SuccessIsWhole
  <1>7. CASE WriteBlock
    BY <1>0, <1>7 DEF WriteBlock, TypeOK, LoopInv, SuccessIsWhole
  <1>8. CASE WriteFails
    BY <1>0, <1>8 DEF WriteFails, TypeOK, LoopInv, SuccessIsWhole
  <1>9. CASE Crash
    BY <1>0, <1>9 DEF Crash, TypeOK, LoopInv, SuccessIsWhole
  <1>10. CASE NotifyCurrent
    <2>1. current' \in Int
      BY <1>0, <1>10, LongType DEF NotifyCurrent, TypeOK
    <2> QED
      BY <1>0, <1>10, <2>1 DEF NotifyCurrent, TypeOK, LoopInv, SuccessIsWhole
  <1>11. CASE NotifyEnd
    BY <1>0, <1>11 DEF NotifyEnd, TypeOK, LoopInv, SuccessIsWhole
  <1>12. CASE NotAtEnd
    BY <1>0, <1>12 DEF NotAtEnd, TypeOK, LoopInv, SuccessIsWhole
  <1>13. CASE Close
    <2>1. CASE UNCHANGED <<written, lost>>
      BY <1>0, <1>13, <2>1 DEF Close, TypeOK, LoopInv, SuccessIsWhole
    <2>2. CASE lost' = TRUE /\ \E n \in 0 .. written - 1 : written' = n
      BY <1>0, <1>13, <2>2 DEF Close, TypeOK, LoopInv, SuccessIsWhole
    <2> QED
      BY <1>13, <2>1, <2>2 DEF Close
  <1>14. CASE UNCHANGED vars
    BY <1>14 DEF vars, TypeOK, LoopInv, SuccessIsWhole
  <1> QED
    BY <1>1, <1>2, <1>3, <1>4, <1>5, <1>6, <1>7, <1>8, <1>9, <1>10, <1>11,
       <1>12, <1>13, <1>14 DEF Next, Copy

\* The invariant holds throughout.
LEMMA Invariance == Spec => []IInv
  BY InitInv, NextInv, PTL DEF Spec

\* The variables keep their types, and all that has been read is in the target
\* or in the buffer unless a write has failed.
THEOREM MscTypeCorrect == Spec => []TypeOK
  <1>1. IInv => TypeOK
    BY DEF IInv
  <1> QED
    BY <1>1, Invariance, PTL

\* A copy that returns 0 with no failure on the target has copied the file.
THEOREM MscSuccessIsWhole == Spec => []SuccessIsWhole
  <1>1. IInv => SuccessIsWhole
    BY DEF IInv
  <1> QED
    BY <1>1, Invariance, PTL

\* After an abort request at most one block is still written.
THEOREM MscAbortStops == Spec => []AbortStops
  <1>1. IInv => AbortStops
    BY MscAssumption DEF MscAssumption, IInv, TypeOK, LoopInv, AbortStops
  <1> QED
    BY <1>1, Invariance, PTL

-----------------------------------------------------------------------------
(* The notifier                                                            *)

\* A number below the divisor is its own remainder.
LEMMA SmallRemainder ==
  ASSUME NEW a \in Nat, NEW b \in Nat, a < b
  PROVE  a % b = a
  OBVIOUS

\* The conversion to long keeps what a long can tell.
LEMMA LongIdentity ==
  ASSUME NEW n \in Nat, n <= LongMax
  PROVE  Long(n) = n
  <1> USE MscAssumption DEF MscAssumption
  <1>1. (n + LongMax + 1) % (2 * (LongMax + 1)) = n + LongMax + 1
    BY SmallRemainder
  <1> QED
    BY <1>1 DEF Long

\* What has been reported at each place of the loop.
ProgressInv ==
  size <= LongMax =>
    /\ current <= crtCopied
    /\ pc \notin {"open", "returned", "crashed"} => begun = size
    /\ pc \in {"open", "loop", "read"} => current = crtCopied
    /\ pc = "write" => current = crtCopied - bytesread
    /\ pc \in {"end", "close"} /\ ~lost => current = crtCopied
    /\ pc = "returned" /\ ret = 0 /\ ~lost => current = begun

\* Every step keeps the reports in line with the copy.
LEMMA ProgressStep == IInv /\ ProgressInv /\ [Next]_vars => ProgressInv'
  <1> SUFFICES ASSUME IInv, ProgressInv, [Next]_vars, (size <= LongMax)'
               PROVE ProgressInv'
    BY DEF ProgressInv
  <1> USE MscAssumption DEF MscAssumption, file, notif
  <1>0. /\ size \in Nat /\ MAX_BUF \in Nat /\ LongMax \in Nat
        /\ size - crtCopied \in Nat /\ crtCopied \in Nat /\ bytesread \in Nat
        /\ current \in Int /\ begun \in Int
    BY DEF IInv, TypeOK
  <1>00. size' = size
    BY DEF Next, Copy, vars, RequestAbort, SourceNotOpened, Begin, AskAbort,
       ReadBlock, ReadFails, WriteBlock, WriteFails, Crash, NotifyCurrent,
       NotifyEnd, NotAtEnd, Close
  <1>1. CASE RequestAbort
    BY <1>0, <1>00, <1>1 DEF RequestAbort, ProgressInv
  <1>2. CASE SourceNotOpened
    BY <1>0, <1>00, <1>2 DEF SourceNotOpened, ProgressInv
  <1>3. CASE Begin
    BY <1>0, <1>00, <1>3 DEF Begin, ProgressInv, IInv, LoopInv
  <1>4. CASE AskAbort
    BY <1>0, <1>00, <1>4 DEF AskAbort, ProgressInv
  <1>5. CASE ReadBlock
    <2>1. bytesread' \in Nat
      BY <1>0, <1>5, LeastFacts DEF ReadBlock
    <2> QED
      BY <1>0, <1>00, <1>5, <2>1 DEF ReadBlock, ProgressInv
  <1>6. CASE ReadFails
    <2>1. bytesread' \in Nat
      BY <1>0, <1>6, LeastFacts DEF ReadFails
    <2> QED
      BY <1>0, <1>00, <1>6, <2>1 DEF ReadFails, ProgressInv
  <1>7. CASE WriteBlock
    BY <1>0, <1>00, <1>7 DEF WriteBlock, ProgressInv
  <1>8. CASE WriteFails
    BY <1>0, <1>00, <1>8 DEF WriteFails, ProgressInv
  <1>9. CASE Crash
    BY <1>0, <1>00, <1>9 DEF Crash, ProgressInv
  <1>10. CASE NotifyCurrent
    <2>1. current' = crtCopied
      BY <1>0, <1>00, <1>10, LongIdentity DEF NotifyCurrent
    <2> QED
      BY <1>0, <1>00, <1>10, <2>1 DEF NotifyCurrent, ProgressInv
  <1>11. CASE NotifyEnd
    BY <1>0, <1>00, <1>11 DEF NotifyEnd, ProgressInv
  <1>12. CASE NotAtEnd
    BY <1>0, <1>00, <1>12 DEF NotAtEnd, ProgressInv
  <1>13. CASE Close
    <2>1. CASE UNCHANGED <<written, lost>>
      BY <1>0, <1>00, <1>13, <2>1 DEF Close, ProgressInv, IInv, LoopInv
    <2>2. CASE lost' = TRUE
      BY <1>0, <1>00, <1>13, <2>2 DEF Close, ProgressInv
    <2> QED
      BY <1>13, <2>1, <2>2 DEF Close
  <1>14. CASE UNCHANGED vars
    BY <1>0, <1>14 DEF vars, ProgressInv
  <1> QED
    BY <1>1, <1>2, <1>3, <1>4, <1>5, <1>6, <1>7, <1>8, <1>9, <1>10, <1>11,
       <1>12, <1>13, <1>14 DEF Next, Copy

\* The notifier is told the truth about every file whose size a long can tell.
THEOREM MscProgressTruthful == Spec => []ProgressTruthful
  <1>1. Init => ProgressInv
    BY DEF Init, ProgressInv
  <1>2. IInv /\ ProgressInv => ProgressTruthful
    <2> SUFFICES ASSUME IInv, ProgressInv, size <= LongMax
                 PROVE  ProgressTruthful
      BY DEF ProgressTruthful
    <2>1. size \in Nat /\ crtCopied \in 0 .. size /\ current \in Int
      BY MscAssumption DEF MscAssumption, IInv, TypeOK
    <2>2. current <= size
      BY <2>1 DEF ProgressInv
    <2>3. pc \in {"loop", "read"} => current = written /\ begun = size
      BY DEF ProgressInv, IInv, TypeOK, LoopInv
    <2>4. pc = "returned" /\ ret = 0 /\ ~lost => current = begun
      BY DEF ProgressInv
    <2> QED
      BY <2>2, <2>3, <2>4 DEF ProgressTruthful
  <1> QED
    BY <1>1, <1>2, ProgressStep, Invariance, PTL DEF Spec
=============================================================================
