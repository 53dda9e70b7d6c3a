--------------------------- MODULE MtpRetag_proofs ---------------------------
(***************************************************************************)
(* Proofs about MtpRetag for every number of workers and jobs and every    *)
(* size of the thread pool.                                                *)
(***************************************************************************)
EXTENDS MtpRetag, FiniteSetTheorems, TLAPS

-----------------------------------------------------------------------------
(* Type correctness                                                        *)

\* Worker numbers are handed out in order, and a copy that is under way has
\* one left: what makes ExecuteWorker write inside its functions.
WorkersFresh ==
  /\ \A w \in Workers : w > lastWorker => pc[w] = "none"
  /\ edt \in {"confirm", "prepare", "enqueue"} \/ resume = "prepare"
       => lastWorker < MaxWorkers
  /\ resume # "idle"
       => edt \in {"scan", "detect", "connError", "release", "released",
                  "crashed"}

TypeInv == TypeOK /\ WorkersFresh

\* The window opens in a state of the type, with no worker created.
LEMMA TypeInit == Init => TypeInv
<1> SUFFICES ASSUME Init PROVE TypeInv
  OBVIOUS
<1>1. WindowTypeOK
  <2>1. lastWorker \in 0 .. MaxWorkers
    BY BoundsAssumption DEF Init
  <2> QED
    BY <2>1 DEF Init, WindowTypeOK, Dispatching, Dialogs
<1>2. QueueTypeOK
  BY BoundsAssumption DEF Init, QueueTypeOK, Workers, Jobs
<1>3. WorkerTypeOK
  BY DEF Init, WorkerTypeOK
<1>4. HistoryTypeOK
  BY DEF Init, HistoryTypeOK, Batches, NoBatch
<1>5. WorkersFresh
  BY BoundsAssumption DEF Init, WorkersFresh, Workers
<1> QED
  BY <1>1, <1>2, <1>3, <1>4, <1>5 DEF TypeInv, TypeOK

\* Settling the job of a worker keeps both functions in their types.
LEMMA SettleType ==
  ASSUME QueueTypeOK, NEW w \in Workers,
         NEW r \in {"ok", "failed", "dropped"}, Settle(w, r), BoundsAssumption
  PROVE  /\ job' \in [Workers -> 0 .. MaxJobs]
         /\ result' \in [Jobs -> {"none", "ok", "failed", "dropped"}]
<1>1. job' \in [Workers -> 0 .. MaxJobs]
  BY DEF QueueTypeOK, Settle
<1>2. result' \in [Jobs -> {"none", "ok", "failed", "dropped"}]
  BY DEF QueueTypeOK, Settle
<1> QED
  BY <1>1, <1>2

\* No handler and no worker takes the fields of the window out of their types.
LEMMA WindowTypeNext == TypeInv /\ [Next]_vars => WindowTypeOK'
<1> SUFFICES ASSUME TypeInv, [Next]_vars PROVE WindowTypeOK'
  OBVIOUS
<1> USE BoundsAssumption DEF TypeInv, TypeOK, WindowTypeOK, vars, edtVars,
      barVars, deviceVars, queueVars, eventVars, workerVars,
      unchangedByDevice, unchangedByTerminate, unchangedByWorker, Step,
      DeleteDevice, Dispatching, Dialogs, Gone
<1>1. CASE ConnectAction
  BY <1>1 DEF ConnectAction
<1>2. CASE ScanDevices
  BY <1>2 DEF ScanDevices
<1>3. CASE PrepareCopy
  BY <1>3 DEF PrepareCopy, SetUpRun, QueueTypeOK
<1>4. CASE ExecuteWorker
  BY <1>4 DEF ExecuteWorker, WorkersFresh
<1>5. ASSUME NEW w \in Workers, PropertyChange(w) PROVE WindowTypeOK'
  <2>1. CASE StepProgressBar
    BY <1>5, <2>1 DEF PropertyChange, StepProgressBar
  <2>2. CASE UNCHANGED barVars
    BY <1>5, <2>2 DEF PropertyChange
  <2> QED
    BY <1>5, <2>1, <2>2 DEF PropertyChange
<1>6. ASSUME NEW w \in Workers, SendCrashes(w) PROVE WindowTypeOK'
  BY <1>6 DEF SendCrashes
<1>7. ASSUME NEW w \in Workers, StoreCounter(w) PROVE WindowTypeOK'
  <2>1. loaded[w] \in Nat
    BY DEF WorkerTypeOK
  <2> QED
    BY <1>7, <2>1 DEF StoreCounter
<1>8. ASSUME NEW w \in Workers, NotifyMe(w) PROVE WindowTypeOK'
  BY <1>8 DEF NotifyMe
<1>9. CASE CopyFiles \/ ConfirmConnect \/ CancelCopy \/ DismissError \/
            Terminate \/ ConnectSucceeds \/ ConnectFails \/ ReleaseDevice \/
            ForgetDevice \/ AddFileToTransferQueue \/ ReadTagsThrows \/
            StopWorker \/ CancelWorker \/ JoinWorker \/ SpuriousWakeup \/
            Stopped
  BY <1>9 DEF CopyFiles, ConfirmConnect, CancelCopy, DismissError,
     Terminate, ConnectSucceeds, ConnectFails, ReleaseDevice, ForgetDevice,
     AddFileToTransferQueue, ReadTagsThrows, StopWorker, CancelWorker,
     JoinWorker, SpuriousWakeup, Stopped
<1>10. ASSUME NEW w \in Workers,
            StartWorker(w) \/ RemoveJob(w) \/ EndOfQueue(w) \/
            CheckNotCancelled(w) \/ CheckCancelled(w) \/ ReadDevice(w) \/
            NullDevice(w) \/ FindDevice(w) \/ DeviceNotMounted(w) \/
            SendOk(w) \/ SendFails(w) \/ LoadCounter(w) \/ SetOldValue(w) \/
            SetNewValue(w) \/ FireFilesCopied(w) \/ SetProgress100(w) \/
            ReturnFromRun(w)
     PROVE WindowTypeOK'
  BY <1>10 DEF StartWorker, RemoveJob, EndOfQueue, CheckNotCancelled,
     CheckCancelled, ReadDevice, NullDevice, FindDevice, DeviceNotMounted,
     SendOk, SendFails, LoadCounter, SetOldValue, SetNewValue,
     FireFilesCopied, SetProgress100, ReturnFromRun
<1>11. CASE UNCHANGED vars
  BY <1>11
<1> QED
  BY <1>1, <1>2, <1>3, <1>4, <1>5, <1>6, <1>7, <1>8, <1>9, <1>10, <1>11 DEF
     Next, UserAction, HandlerStep, WorkerStep

\* The queue never loses more jobs than it was given: remove() throws on an
\* empty queue, and the copy handler queues no more than it counted.
LEMMA QueueTypeNext == TypeInv /\ [Next]_vars => QueueTypeOK'
<1> SUFFICES ASSUME TypeInv, [Next]_vars PROVE QueueTypeOK'
  OBVIOUS
<1> USE BoundsAssumption DEF TypeInv, TypeOK, QueueTypeOK, vars, edtVars,
      barVars, deviceVars, queueVars, eventVars, workerVars,
      unchangedByDevice, unchangedByTerminate, unchangedByWorker,
      DeleteDevice
<1>1. CASE PrepareCopy
  BY <1>1 DEF PrepareCopy, SetUpRun
<1>2. CASE AddFileToTransferQueue
  BY <1>2 DEF AddFileToTransferQueue
<1>3. CASE ReadTagsThrows
  BY <1>3 DEF ReadTagsThrows
<1>4. CASE ExecuteWorker
  BY <1>4 DEF ExecuteWorker
<1>5. ASSUME NEW w \in Workers, RemoveJob(w) PROVE QueueTypeOK'
  <2>1. taken + 1 \in Nat /\ taken + 1 <= added /\ taken + 1 <= MaxJobs
    BY <1>5 DEF RemoveJob, QueueEmpty
  <2> QED
    BY <1>5, <2>1 DEF RemoveJob
<1>6. ASSUME NEW w \in Workers, CheckCancelled(w) PROVE QueueTypeOK'
  BY <1>6, SettleType DEF CheckCancelled
<1>7. ASSUME NEW w \in Workers, NullDevice(w) PROVE QueueTypeOK'
  BY <1>7, SettleType DEF NullDevice
<1>8. ASSUME NEW w \in Workers, DeviceNotMounted(w) PROVE QueueTypeOK'
  BY <1>8, SettleType DEF DeviceNotMounted
<1>9. ASSUME NEW w \in Workers, SendOk(w) PROVE QueueTypeOK'
  BY <1>9, SettleType DEF SendOk
<1>10. ASSUME NEW w \in Workers, SendFails(w) PROVE QueueTypeOK'
  BY <1>10, SettleType DEF SendFails
<1>11. CASE ConnectAction \/ CopyFiles \/ ConfirmConnect \/ CancelCopy \/
            DismissError \/ Terminate \/ ScanDevices \/ ConnectSucceeds \/
            ConnectFails \/ ReleaseDevice \/ ForgetDevice \/ StopWorker \/
            CancelWorker \/ JoinWorker \/ SpuriousWakeup \/ Stopped
  BY <1>11 DEF ConnectAction, CopyFiles, ConfirmConnect, CancelCopy,
     DismissError, Terminate, ScanDevices, ConnectSucceeds, ConnectFails,
     ReleaseDevice, ForgetDevice, StopWorker, CancelWorker, JoinWorker,
     SpuriousWakeup, Stopped
<1>12. ASSUME NEW w \in Workers,
            PropertyChange(w) \/ StartWorker(w) \/ EndOfQueue(w) \/
            CheckNotCancelled(w) \/ ReadDevice(w) \/ FindDevice(w) \/
            SendCrashes(w) \/ LoadCounter(w) \/ StoreCounter(w) \/
            SetOldValue(w) \/ SetNewValue(w) \/ FireFilesCopied(w) \/
            SetProgress100(w) \/ NotifyMe(w) \/ ReturnFromRun(w)
     PROVE QueueTypeOK'
  BY <1>12 DEF PropertyChange, StartWorker, EndOfQueue, CheckNotCancelled,
     ReadDevice, FindDevice, SendCrashes, LoadCounter, StoreCounter,
     SetOldValue, SetNewValue, FireFilesCopied, SetProgress100, NotifyMe,
     ReturnFromRun
<1>13. CASE UNCHANGED vars
  BY <1>13
<1> QED
  BY <1>1, <1>2, <1>3, <1>4, <1>5, <1>6, <1>7, <1>8, <1>9, <1>10, <1>11,
     <1>12, <1>13 DEF Next, UserAction, HandlerStep, WorkerStep

\* The fields of every worker keep their types, whichever thread steps.
LEMMA WorkerTypeNext == TypeInv /\ [Next]_vars => WorkerTypeOK'
<1> SUFFICES ASSUME TypeInv, [Next]_vars PROVE WorkerTypeOK'
  OBVIOUS
<1> USE DEF TypeInv, TypeOK, WorkerTypeOK, vars, edtVars, barVars,
      deviceVars, queueVars, eventVars, workerVars, unchangedByDevice,
      unchangedByTerminate, unchangedByWorker, Step, Running
<1>1. CASE ScanDevices
  BY <1>1 DEF ScanDevices, DeleteDevice
<1>2. CASE ReleaseDevice
  BY <1>2 DEF ReleaseDevice, DeleteDevice
<1>3. CASE PrepareCopy
  BY <1>3 DEF PrepareCopy, SetUpRun
<1>4. CASE ExecuteWorker
  BY <1>4 DEF ExecuteWorker
<1>5. CASE CancelWorker
  BY <1>5 DEF CancelWorker
<1>6. ASSUME NEW w \in Workers, PropertyChange(w) PROVE WorkerTypeOK'
  <2>1. posted[w] - 1 \in Nat
    BY <1>6 DEF PropertyChange
  <2> QED
    BY <1>6, <2>1 DEF PropertyChange, StepProgressBar
<1>7. ASSUME NEW w \in Workers, StartWorker(w) PROVE WorkerTypeOK'
  <2>1. posted[w] + 1 \in Nat
    BY <1>7 DEF StartWorker
  <2> QED
    BY <1>7, <2>1 DEF StartWorker
<1>8. ASSUME NEW w \in Workers, FindDevice(w) PROVE WorkerTypeOK'
  BY <1>8 DEF FindDevice
<1>9. ASSUME NEW w \in Workers, SendOk(w) PROVE WorkerTypeOK'
  BY <1>9 DEF SendOk
<1>10. ASSUME NEW w \in Workers, SendFails(w) PROVE WorkerTypeOK'
  BY <1>10 DEF SendFails
<1>11. ASSUME NEW w \in Workers, LoadCounter(w) PROVE WorkerTypeOK'
  <2>1. transferredOk \in Nat
    BY DEF WindowTypeOK
  <2> QED
    BY <1>11, <2>1 DEF LoadCounter
<1>12. ASSUME NEW w \in Workers, StoreCounter(w) PROVE WorkerTypeOK'
  BY <1>12 DEF StoreCounter
<1>13. ASSUME NEW w \in Workers, SetOldValue(w) PROVE WorkerTypeOK'
  <2>1. filesCopied[w] \in Int
    OBVIOUS
  <2> QED
    BY <1>13, <2>1 DEF SetOldValue
<1>14. ASSUME NEW w \in Workers, SetNewValue(w) PROVE WorkerTypeOK'
  <2>1. filesCopied[w] + 1 \in Int
    OBVIOUS
  <2> QED
    BY <1>14, <2>1 DEF SetNewValue
<1>15. ASSUME NEW w \in Workers, FireFilesCopied(w) PROVE WorkerTypeOK'
  <2>1. filesCopied[w] + 1 \in Nat /\ posted[w] + 1 \in Nat
    OBVIOUS
  <2> QED
    BY <1>15, <2>1 DEF FireFilesCopied
<1>16. ASSUME NEW w \in Workers, SetProgress100(w) PROVE WorkerTypeOK'
  BY <1>16 DEF SetProgress100
<1>17. CASE ConnectAction \/ CopyFiles \/ ConfirmConnect \/ CancelCopy \/
            DismissError \/ Terminate \/ ConnectSucceeds \/ ConnectFails \/
            ForgetDevice \/ AddFileToTransferQueue \/ ReadTagsThrows \/
            StopWorker \/ JoinWorker \/ SpuriousWakeup \/ Stopped
  BY <1>17 DEF ConnectAction, CopyFiles, ConfirmConnect, CancelCopy,
     DismissError, Terminate, ConnectSucceeds, ConnectFails, ForgetDevice,
     AddFileToTransferQueue, ReadTagsThrows, StopWorker, JoinWorker,
     SpuriousWakeup, Stopped
<1>18. ASSUME NEW w \in Workers,
            RemoveJob(w) \/ EndOfQueue(w) \/ CheckNotCancelled(w) \/
            CheckCancelled(w) \/ ReadDevice(w) \/ NullDevice(w) \/
            DeviceNotMounted(w) \/ SendCrashes(w) \/ NotifyMe(w) \/
            ReturnFromRun(w)
     PROVE WorkerTypeOK'
  BY <1>18 DEF RemoveJob, EndOfQueue, CheckNotCancelled, CheckCancelled,
     ReadDevice, NullDevice, DeviceNotMounted, SendCrashes, NotifyMe,
     ReturnFromRun
<1>19. CASE UNCHANGED vars
  BY <1>19
<1> QED
  BY <1>1, <1>2, <1>3, <1>4, <1>5, <1>6, <1>7, <1>8, <1>9, <1>10, <1>11,
     <1>12, <1>13, <1>14, <1>15, <1>16, <1>17, <1>18, <1>19 DEF Next,
     UserAction, HandlerStep, WorkerStep

\* What is remembered of the runs and of the report keeps its type.
LEMMA HistoryTypeNext == TypeInv /\ [Next]_vars => HistoryTypeOK'
<1> SUFFICES ASSUME TypeInv, [Next]_vars PROVE HistoryTypeOK'
  OBVIOUS
<1> USE BoundsAssumption DEF TypeInv, TypeOK, HistoryTypeOK, Batches, vars,
      edtVars, barVars, deviceVars, queueVars, eventVars, workerVars,
      unchangedByDevice, unchangedByTerminate, unchangedByWorker, Step
<1>1. CASE PrepareCopy
  BY <1>1 DEF PrepareCopy, SetUpRun, NewBatch, QueueTypeOK
<1>2. ASSUME NEW w \in Workers, PropertyChange(w) PROVE HistoryTypeOK'
  <2>1. CASE StepProgressBar
    BY <1>2, <2>1 DEF PropertyChange, StepProgressBar, WindowTypeOK
  <2>2. CASE UNCHANGED barVars
    BY <1>2, <2>2 DEF PropertyChange
  <2> QED
    BY <1>2, <2>1, <2>2 DEF PropertyChange
<1>3. CASE ConnectAction \/ CopyFiles \/ ConfirmConnect \/ CancelCopy \/
            DismissError \/ Terminate \/ ScanDevices \/ ConnectSucceeds \/
            ConnectFails \/ ReleaseDevice \/ ForgetDevice \/
            AddFileToTransferQueue \/ ReadTagsThrows \/ ExecuteWorker \/
            StopWorker \/ CancelWorker \/ JoinWorker \/ SpuriousWakeup \/
            Stopped
  BY <1>3 DEF ConnectAction, CopyFiles, ConfirmConnect, CancelCopy,
     DismissError, Terminate, ScanDevices, ConnectSucceeds, ConnectFails,
     ReleaseDevice, ForgetDevice, AddFileToTransferQueue, ReadTagsThrows,
     ExecuteWorker, StopWorker, CancelWorker, JoinWorker, SpuriousWakeup,
     Stopped
<1>4. ASSUME NEW w \in Workers,
            StartWorker(w) \/ RemoveJob(w) \/ EndOfQueue(w) \/
            CheckNotCancelled(w) \/ CheckCancelled(w) \/ ReadDevice(w) \/
            NullDevice(w) \/ FindDevice(w) \/ DeviceNotMounted(w) \/
            SendOk(w) \/ SendFails(w) \/ SendCrashes(w) \/ LoadCounter(w) \/
            StoreCounter(w) \/ SetOldValue(w) \/ SetNewValue(w) \/
            FireFilesCopied(w) \/ SetProgress100(w) \/ NotifyMe(w) \/
            ReturnFromRun(w)
     PROVE HistoryTypeOK'
  BY <1>4 DEF StartWorker, RemoveJob, EndOfQueue, CheckNotCancelled,
     CheckCancelled, ReadDevice, NullDevice, FindDevice, DeviceNotMounted,
     SendOk, SendFails, SendCrashes, LoadCounter, StoreCounter, SetOldValue,
     SetNewValue, FireFilesCopied, SetProgress100, NotifyMe, ReturnFromRun
<1>5. CASE UNCHANGED vars
  BY <1>5
<1> QED
  BY <1>1, <1>2, <1>3, <1>4, <1>5 DEF Next, UserAction, HandlerStep,
     WorkerStep

\* Workers are created in order, one for each copy handler that reaches
\* worker.execute().
LEMMA WorkersFreshNext == TypeInv /\ [Next]_vars => WorkersFresh'
<1> SUFFICES ASSUME TypeInv, [Next]_vars PROVE WorkersFresh'
  OBVIOUS
<1> USE BoundsAssumption DEF TypeInv, TypeOK, WorkersFresh, vars, edtVars,
      barVars, deviceVars, queueVars, eventVars, workerVars,
      unchangedByDevice, unchangedByTerminate, unchangedByWorker,
      WorkerTypeOK, WindowTypeOK, Workers
<1>1. CASE ConnectAction
  BY <1>1 DEF ConnectAction
<1>2. CASE CopyFiles
  BY <1>2 DEF CopyFiles, Bounded
<1>3. CASE ConfirmConnect
  BY <1>3 DEF ConfirmConnect
<1>4. CASE CancelCopy
  BY <1>4 DEF CancelCopy
<1>5. CASE DismissError
  BY <1>5 DEF DismissError
<1>6. CASE Terminate
  BY <1>6 DEF Terminate
<1>7. CASE ScanDevices
  BY <1>7 DEF ScanDevices
<1>8. CASE ConnectSucceeds
  BY <1>8 DEF ConnectSucceeds
<1>9. CASE ConnectFails
  BY <1>9 DEF ConnectFails
<1>10. CASE ReleaseDevice
  BY <1>10 DEF ReleaseDevice
<1>11. CASE ForgetDevice
  BY <1>11 DEF ForgetDevice
<1>12. CASE PrepareCopy
  BY <1>12 DEF PrepareCopy, SetUpRun
<1>13. CASE AddFileToTransferQueue
  BY <1>13 DEF AddFileToTransferQueue
<1>14. CASE ReadTagsThrows
  BY <1>14 DEF ReadTagsThrows
<1>15. CASE ExecuteWorker
  <2>1. lastWorker + 1 \in Workers /\ lastWorker' = lastWorker + 1
    BY <1>15 DEF ExecuteWorker
  <2>2. pc' = [pc EXCEPT ![lastWorker + 1] = "pending"]
    BY <1>15 DEF ExecuteWorker
  <2>3. \A w \in Workers : w > lastWorker' => pc'[w] = "none"
    BY <2>1, <2>2
  <2> QED
    BY <1>15, <2>3 DEF ExecuteWorker
<1>16. CASE StopWorker
  BY <1>16 DEF StopWorker
<1>17. CASE CancelWorker
  BY <1>17 DEF CancelWorker
<1>18. CASE JoinWorker
  BY <1>18 DEF JoinWorker
<1>19. CASE SpuriousWakeup
  BY <1>19 DEF SpuriousWakeup
<1>20. ASSUME NEW w \in Workers, PropertyChange(w) PROVE WorkersFresh'
  BY <1>20 DEF PropertyChange, StepProgressBar
<1>21. ASSUME NEW w \in Workers, SendCrashes(w) PROVE WorkersFresh'
  BY <1>21 DEF SendCrashes
<1>22. ASSUME NEW w \in Workers, NotifyMe(w) PROVE WorkersFresh'
  BY <1>22 DEF NotifyMe, Step
<1>23. CASE Stopped
  BY <1>23 DEF Stopped
<1>24. ASSUME NEW w \in Workers,
            StartWorker(w) \/ RemoveJob(w) \/ EndOfQueue(w) \/
            CheckNotCancelled(w) \/ CheckCancelled(w) \/ ReadDevice(w) \/
            NullDevice(w) \/ FindDevice(w) \/ DeviceNotMounted(w) \/
            SendOk(w) \/ SendFails(w) \/ LoadCounter(w) \/ StoreCounter(w)
            \/ SetOldValue(w) \/ SetNewValue(w) \/ FireFilesCopied(w) \/
            SetProgress100(w) \/ ReturnFromRun(w)
     PROVE WorkersFresh'
  <2>1. /\ pc[w] # "none"
        /\ \E to \in Running \cup {"done"} : pc' = [pc EXCEPT ![w] = to]
    BY <1>24 DEF StartWorker, RemoveJob, EndOfQueue, CheckNotCancelled,
       CheckCancelled, ReadDevice, NullDevice, FindDevice, DeviceNotMounted,
       SendOk, SendFails, LoadCounter, StoreCounter, SetOldValue,
       SetNewValue, FireFilesCopied, SetProgress100, ReturnFromRun, Step,
       Running
  <2>2. lastWorker' = lastWorker /\ resume' = resume /\ edt' = edt
    BY <1>24 DEF StartWorker, RemoveJob, EndOfQueue, CheckNotCancelled,
       CheckCancelled, ReadDevice, NullDevice, FindDevice, DeviceNotMounted,
       SendOk, SendFails, LoadCounter, StoreCounter, SetOldValue,
       SetNewValue, FireFilesCopied, SetProgress100, ReturnFromRun, Step
  <2> QED
    BY <2>1, <2>2
<1>25. CASE UNCHANGED vars
  BY <1>25
<1> QED
  BY <1>1, <1>2, <1>3, <1>4, <1>5, <1>6, <1>7, <1>8, <1>9, <1>10, <1>11,
     <1>12, <1>13, <1>14, <1>15, <1>16, <1>17, <1>18, <1>19, <1>20, <1>21,
     <1>22, <1>23, <1>24, <1>25 DEF Next, UserAction, HandlerStep,
     WorkerStep

\* The inductive form of type correctness holds in every reachable state.
LEMMA TypeInvariant == Spec => []TypeInv
<1>1. TypeInv /\ [Next]_vars => TypeInv'
  BY WindowTypeNext, QueueTypeNext, WorkerTypeNext, HistoryTypeNext,
     WorkersFreshNext DEF TypeInv, TypeOK
<1> QED
  BY TypeInit, <1>1, PTL DEF Spec

\* Every variable keeps its type.
THEOREM TypeCorrect == Spec => []TypeOK
<1>1. TypeInv => TypeOK
  BY DEF TypeInv
<1> QED
  BY <1>1, TypeInvariant, PTL

-----------------------------------------------------------------------------
(* Jobs are owned by one worker, and none is lost                          *)

\* With nothing queued nobody owns a job and none is lost.
LEMMA JobInit == Init => JobInv
<1> SUFFICES ASSUME Init PROVE JobInv
  OBVIOUS
<1>1. HeldJobs
  BY DEF Init, HeldJobs, Holding
<1>2. NoSharedJob
  BY DEF Init, NoSharedJob, Holding
<1>3. NoLostJob
  BY BoundsAssumption DEF Init, NoLostJob, Jobs
<1> QED
  BY <1>1, <1>2, <1>3 DEF JobInv

\* What most steps do to the jobs: nothing.
JobsQuiet ==
  /\ UNCHANGED <<taken, job, result>>
  /\ \A v \in Workers : pc'[v] \in Holding <=> pc[v] \in Holding

\* A step that neither removes nor settles a job, and lets no worker enter or
\* leave the part of doInBackground() that owns one, disturbs no ownership.
LEMMA QuietKeepsJobs == JobInv /\ JobsQuiet => JobInv'
BY DEF JobInv, JobsQuiet, HeldJobs, NoSharedJob, NoLostJob

\* A worker that settles the job it holds, and holds none afterwards.
LEMMA SettleKeepsJobs ==
  ASSUME TypeInv, JobInv, NEW w \in Workers, pc[w] \in Holding,
         NEW to, to \notin Holding, pc' = [pc EXCEPT ![w] = to],
         NEW r \in {"ok", "failed", "dropped"}, Settle(w, r), taken' = taken
  PROVE  JobInv'
<1> USE DEF TypeInv, TypeOK, QueueTypeOK, WorkerTypeOK, JobInv
<1>1. /\ job[w] \in Jobs /\ job[w] \in 1 .. taken
      /\ job' = [job EXCEPT ![w] = 0]
      /\ result' = [result EXCEPT ![job[w]] = r]
  BY DEF HeldJobs, Settle, Jobs
<1>2. \A v \in Workers : v # w => pc'[v] = pc[v] /\ job'[v] = job[v]
  BY <1>1
<1>3. pc'[w] \notin Holding /\ job'[w] = 0
  BY <1>1
<1>4. \A j \in Jobs : result'[j] = IF j = job[w] THEN r ELSE result[j]
  BY <1>1
<1>5. \A v \in Workers : v # w /\ pc[v] \in Holding => job[v] # job[w]
  BY DEF NoSharedJob
<1>6. HeldJobs'
  <2> SUFFICES ASSUME NEW v \in Workers
               PROVE  IF pc'[v] \in Holding
                      THEN job'[v] \in 1 .. taken /\ result'[job'[v]] = "none"
                      ELSE job'[v] = 0
    BY DEF HeldJobs, Holding
  <2>1. CASE v = w
    BY <2>1, <1>3
  <2>2. CASE v # w /\ pc[v] \in Holding
    <3>1. job[v] \in Jobs /\ job[v] \in 1 .. taken /\ result[job[v]] = "none"
      BY <2>2 DEF HeldJobs, Jobs
    <3> QED
      BY <3>1, <2>2, <1>2, <1>4, <1>5
  <2>3. CASE v # w /\ pc[v] \notin Holding
    BY <2>3, <1>2 DEF HeldJobs
  <2> QED
    BY <2>1, <2>2, <2>3
<1>7. NoSharedJob'
  BY <1>2, <1>3 DEF NoSharedJob, Holding
<1>8. NoLostJob'
  <2> SUFFICES ASSUME NEW j \in Jobs
               PROVE  result'[j] = "none"
                        <=> \/ j > taken
                            \/ \E v \in Workers :
                                 pc'[v] \in Holding /\ job'[v] = j
    BY DEF NoLostJob, Holding
  <2>1. CASE j = job[w]
    BY <2>1, <1>1, <1>2, <1>3, <1>4, <1>5
  <2>2. CASE j # job[w]
    BY <2>2, <1>2, <1>3, <1>4 DEF NoLostJob
  <2> QED
    BY <2>1, <2>2
<1> QED
  BY <1>6, <1>7, <1>8

\* A worker that removes the oldest job of the queue.
LEMMA RemoveKeepsJobs ==
  ASSUME TypeInv, JobInv, NEW w \in Workers, RemoveJob(w), BoundsAssumption
  PROVE  JobInv'
<1> USE DEF TypeInv, TypeOK, QueueTypeOK, WorkerTypeOK, JobInv
<1>1. /\ taken + 1 \in Jobs /\ taken' = taken + 1 /\ result' = result
      /\ job' = [job EXCEPT ![w] = taken + 1]
      /\ pc' = [pc EXCEPT ![w] = "check"]
      /\ pc[w] \notin Holding
  BY DEF RemoveJob, QueueEmpty, Step, Jobs, queueVars, Holding
<1>2. \A v \in Workers : v # w => pc'[v] = pc[v] /\ job'[v] = job[v]
  BY <1>1
<1>3. pc'[w] \in Holding /\ job'[w] = taken + 1
  BY <1>1 DEF Holding
<1>4. result[taken + 1] = "none"
  BY <1>1 DEF NoLostJob
<1>5. \A v \in Workers : pc[v] \in Holding => job[v] \in 1 .. taken
  BY DEF HeldJobs
<1>6. HeldJobs'
  BY <1>1, <1>2, <1>3, <1>4 DEF HeldJobs, Holding
<1>7. NoSharedJob'
  BY <1>2, <1>3, <1>5 DEF NoSharedJob, Holding
<1>8. NoLostJob'
  BY <1>1, <1>2, <1>3, <1>4 DEF NoLostJob, Holding, Jobs
<1> QED
  BY <1>6, <1>7, <1>8

\* Every handler and every line of doInBackground() preserves the ownership
\* of jobs.
LEMMA JobNext == TypeInv /\ JobInv /\ [Next]_vars => JobInv'
<1> SUFFICES ASSUME TypeInv, JobInv, [Next]_vars PROVE JobInv'
  OBVIOUS
<1> USE BoundsAssumption DEF TypeInv, TypeOK, vars, edtVars, barVars,
      deviceVars, queueVars, eventVars, workerVars, unchangedByDevice,
      unchangedByTerminate, unchangedByWorker
<1>1. CASE PrepareCopy
  <2>1. JobsQuiet
    BY <1>1 DEF PrepareCopy, JobsQuiet, SetUpRun
  <2> QED
    BY <2>1, QuietKeepsJobs
<1>2. CASE ExecuteWorker
  <2>1. pc[lastWorker + 1] = "none" /\ lastWorker + 1 \in Workers
    BY <1>2 DEF ExecuteWorker, WorkersFresh, WindowTypeOK, Workers
  <2>2. JobsQuiet
    BY <1>2, <2>1 DEF ExecuteWorker, JobsQuiet, Holding, WorkerTypeOK
  <2> QED
    BY <2>2, QuietKeepsJobs
<1>3. ASSUME NEW w \in Workers, RemoveJob(w) PROVE JobInv'
  BY <1>3, RemoveKeepsJobs
<1>4. ASSUME NEW w \in Workers, CheckCancelled(w) PROVE JobInv'
  <2>1. /\ pc[w] \in Holding /\ pc' = [pc EXCEPT ![w] = "finish"]
        /\ Settle(w, "dropped") /\ taken' = taken
    BY <1>4 DEF CheckCancelled, Step, Holding
  <2> QED
    BY <1>4, <2>1, SettleKeepsJobs DEF Holding
<1>5. ASSUME NEW w \in Workers, NullDevice(w) PROVE JobInv'
  <2>1. /\ pc[w] \in Holding /\ pc' = [pc EXCEPT ![w] = "return"]
        /\ Settle(w, "dropped") /\ taken' = taken
    BY <1>5 DEF NullDevice, Step, Holding
  <2> QED
    BY <1>5, <2>1, SettleKeepsJobs DEF Holding
<1>6. ASSUME NEW w \in Workers, DeviceNotMounted(w) PROVE JobInv'
  <2>1. /\ pc[w] \in Holding /\ pc' = [pc EXCEPT ![w] = "setOld"]
        /\ Settle(w, "failed") /\ taken' = taken
    BY <1>6 DEF DeviceNotMounted, Step, Holding
  <2> QED
    BY <1>6, <2>1, SettleKeepsJobs DEF Holding
<1>7. ASSUME NEW w \in Workers, SendOk(w) PROVE JobInv'
  <2>1. /\ pc[w] \in Holding /\ pc' = [pc EXCEPT ![w] = "load"]
        /\ Settle(w, "ok") /\ taken' = taken
    BY <1>7 DEF SendOk, Step, Holding
  <2> QED
    BY <1>7, <2>1, SettleKeepsJobs DEF Holding
<1>8. ASSUME NEW w \in Workers, SendFails(w) PROVE JobInv'
  <2>1. /\ pc[w] \in Holding /\ pc' = [pc EXCEPT ![w] = "setOld"]
        /\ Settle(w, "failed") /\ taken' = taken
    BY <1>8 DEF SendFails, Step, Holding
  <2> QED
    BY <1>8, <2>1, SettleKeepsJobs DEF Holding
<1>9. CASE ConnectAction \/ CopyFiles \/ ConfirmConnect \/ CancelCopy \/
            DismissError \/ Terminate \/ ScanDevices \/ ConnectSucceeds \/
            ConnectFails \/ ReleaseDevice \/ ForgetDevice \/
            AddFileToTransferQueue \/ ReadTagsThrows \/ StopWorker \/
            CancelWorker \/ JoinWorker \/ SpuriousWakeup \/ Stopped
  <2>1. JobsQuiet
    BY <1>9 DEF ConnectAction, CopyFiles, ConfirmConnect, CancelCopy,
       DismissError, Terminate, ScanDevices, ConnectSucceeds, ConnectFails,
       ReleaseDevice, ForgetDevice, AddFileToTransferQueue, ReadTagsThrows,
       StopWorker, CancelWorker, JoinWorker, SpuriousWakeup, Stopped,
       JobsQuiet, DeleteDevice
  <2> QED
    BY <2>1, QuietKeepsJobs
<1>10. ASSUME NEW w \in Workers,
            PropertyChange(w) \/ StartWorker(w) \/ EndOfQueue(w) \/
            CheckNotCancelled(w) \/ ReadDevice(w) \/ FindDevice(w) \/
            SendCrashes(w) \/ LoadCounter(w) \/ StoreCounter(w) \/
            SetOldValue(w) \/ SetNewValue(w) \/ FireFilesCopied(w) \/
            SetProgress100(w) \/ NotifyMe(w) \/ ReturnFromRun(w)
     PROVE JobInv'
  <2>1. JobsQuiet
    BY <1>10 DEF PropertyChange, StartWorker, EndOfQueue, CheckNotCancelled,
       ReadDevice, FindDevice, SendCrashes, LoadCounter, StoreCounter,
       SetOldValue, SetNewValue, FireFilesCopied, SetProgress100, NotifyMe,
       ReturnFromRun, JobsQuiet, WorkerTypeOK, Holding, Step
  <2> QED
    BY <2>1, QuietKeepsJobs
<1>11. CASE UNCHANGED vars
  <2>1. JobsQuiet
    BY <1>11 DEF JobsQuiet
  <2> QED
    BY <2>1, QuietKeepsJobs
<1> QED
  BY <1>1, <1>2, <1>3, <1>4, <1>5, <1>6, <1>7, <1>8, <1>9, <1>10, <1>11 DEF
     Next, UserAction, HandlerStep, WorkerStep

\* A file removed from the queue is owned by exactly one worker until its copy
\* is settled, whatever the number of workers that overlap.
THEOREM JobsOwnedOnce == Spec => []JobInv
<1>1. TypeInv /\ JobInv /\ [Next]_vars => JobInv'
  BY JobNext
<1> QED
  BY JobInit, <1>1, TypeInvariant, PTL DEF Spec

-----------------------------------------------------------------------------
(* The check box, the reference and the registry agree                     *)

\* Where they disagree is inside usbConnect() and usbDisconnect() only.
DeviceInv ==
  /\ edt \notin {"scan", "detect", "release", "released", "crashed"}
       => usbDevice = connected /\ mounted = connected
  /\ edt \in {"scan", "detect"} => ~usbDevice /\ ~mounted
  /\ edt = "released" => ~mounted
  /\ edt \in {"confirm", "connError"} => ~connected

\* Connecting, failing to connect and disconnecting keep the check box, the
\* reference and the registry in step.
LEMMA DeviceNext == TypeInv /\ DeviceInv /\ [Next]_vars => DeviceInv'
<1> SUFFICES ASSUME TypeInv, DeviceInv, [Next]_vars PROVE DeviceInv'
  OBVIOUS
<1> USE DEF TypeInv, TypeOK, WindowTypeOK, WorkersFresh, DeviceInv, vars,
      edtVars, barVars, deviceVars, queueVars, eventVars, workerVars,
      unchangedByDevice, unchangedByTerminate, unchangedByWorker, Step
<1>1. CASE ConnectAction
  BY <1>1 DEF ConnectAction
<1>2. CASE CopyFiles
  BY <1>2 DEF CopyFiles
<1>3. CASE ConfirmConnect
  BY <1>3 DEF ConfirmConnect
<1>4. CASE CancelCopy
  BY <1>4 DEF CancelCopy
<1>5. CASE DismissError
  BY <1>5 DEF DismissError
<1>6. CASE Terminate
  BY <1>6 DEF Terminate
<1>7. CASE ScanDevices
  BY <1>7 DEF ScanDevices, DeleteDevice
<1>8. CASE ConnectSucceeds
  BY <1>8 DEF ConnectSucceeds
<1>9. CASE ConnectFails
  BY <1>9 DEF ConnectFails
<1>10. CASE ReleaseDevice
  BY <1>10 DEF ReleaseDevice, DeleteDevice
<1>11. CASE ForgetDevice
  BY <1>11 DEF ForgetDevice
<1>12. CASE PrepareCopy
  BY <1>12 DEF PrepareCopy, SetUpRun
<1>13. CASE ReadTagsThrows
  BY <1>13 DEF ReadTagsThrows
<1>14. CASE ExecuteWorker
  BY <1>14 DEF ExecuteWorker
<1>15. CASE StopWorker
  BY <1>15 DEF StopWorker
<1>16. CASE CancelWorker
  BY <1>16 DEF CancelWorker
<1>17. CASE JoinWorker
  BY <1>17 DEF JoinWorker
<1>18. CASE SpuriousWakeup
  BY <1>18 DEF SpuriousWakeup
<1>19. ASSUME NEW w \in Workers, PropertyChange(w) PROVE DeviceInv'
  BY <1>19 DEF PropertyChange, StepProgressBar
<1>20. ASSUME NEW w \in Workers, SendCrashes(w) PROVE DeviceInv'
  BY <1>20 DEF SendCrashes, Gone
<1>21. ASSUME NEW w \in Workers, NotifyMe(w) PROVE DeviceInv'
  BY <1>21 DEF NotifyMe
<1>22. CASE AddFileToTransferQueue \/ Stopped
  BY <1>22 DEF AddFileToTransferQueue, Stopped
<1>23. ASSUME NEW w \in Workers,
            StartWorker(w) \/ RemoveJob(w) \/ EndOfQueue(w) \/
            CheckNotCancelled(w) \/ CheckCancelled(w) \/ ReadDevice(w) \/
            NullDevice(w) \/ FindDevice(w) \/ DeviceNotMounted(w) \/
            SendOk(w) \/ SendFails(w) \/ LoadCounter(w) \/ StoreCounter(w)
            \/ SetOldValue(w) \/ SetNewValue(w) \/ FireFilesCopied(w) \/
            SetProgress100(w) \/ ReturnFromRun(w)
     PROVE DeviceInv'
  BY <1>23 DEF StartWorker, RemoveJob, EndOfQueue, CheckNotCancelled,
     CheckCancelled, ReadDevice, NullDevice, FindDevice, DeviceNotMounted,
     SendOk, SendFails, LoadCounter, StoreCounter, SetOldValue, SetNewValue,
     FireFilesCopied, SetProgress100, ReturnFromRun
<1>24. CASE UNCHANGED vars
  BY <1>24
<1> QED
  BY <1>1, <1>2, <1>3, <1>4, <1>5, <1>6, <1>7, <1>8, <1>9, <1>10, <1>11,
     <1>12, <1>13, <1>14, <1>15, <1>16, <1>17, <1>18, <1>19, <1>20, <1>21,
     <1>22, <1>23, <1>24 DEF Next, UserAction, HandlerStep, WorkerStep

\* usbDisconnect() is never called on a null reference and usbConnect() never
\* scans with a device in use.
THEOREM DeviceConsistent == Spec => []DeviceAgrees
<1>1. Init => DeviceInv
  BY DEF Init, DeviceInv
<1>2. TypeInv /\ DeviceInv /\ [Next]_vars => DeviceInv'
  BY DeviceNext
<1>3. DeviceInv => DeviceAgrees
  BY DEF DeviceInv, DeviceAgrees, Dispatching, Dialogs
<1> QED
  BY <1>1, <1>2, <1>3, TypeInvariant, PTL DEF Spec

-----------------------------------------------------------------------------
(* The window implements TransferJobs                                      *)

\* The state of the pipeline depends on the queue and the results only.
LEMMA QuietJobsStutter ==
  UNCHANGED <<added, taken, result>>
    => UNCHANGED [j \in Jobs |-> JobStatus(j)]
BY DEF JobStatus

\* The end of sendFile(), like every way a worker gives a job up, settles that
\* job of the pipeline and changes no other.
LEMMA SettleIsSettle ==
  ASSUME TypeInv, JobInv, NEW w \in Workers, pc[w] \in Holding,
         NEW r \in {"ok", "failed", "dropped"}, Settle(w, r),
         added' = added, taken' = taken
  PROVE  TJ!Next
<1> USE DEF TypeInv, TypeOK, QueueTypeOK, JobInv
<1> DEFINE st == [j \in Jobs |-> JobStatus(j)]
<1>1. /\ job[w] \in Jobs /\ job[w] <= taken /\ result[job[w]] = "none"
      /\ result' = [result EXCEPT ![job[w]] = r]
  BY DEF HeldJobs, Settle, Jobs
<1>2. st[job[w]] = "taken"
  BY <1>1 DEF JobStatus, Jobs
<1>3. st' = [st EXCEPT ![job[w]] = r]
  BY <1>1 DEF JobStatus
<1> QED
  BY <1>1, <1>2, <1>3 DEF TJ!Next, TJ!Settle, TJ!Settled, TJ!Become, TJ!Jobs,
     Jobs

\* transferQueue.remove() takes the oldest queued job of the pipeline.
LEMMA RemoveIsTake ==
  ASSUME TypeInv, JobInv, NEW w \in Workers, RemoveJob(w), BoundsAssumption
  PROVE  TJ!Next
<1> USE DEF TypeInv, TypeOK, QueueTypeOK, JobInv
<1> DEFINE st == [j \in Jobs |-> JobStatus(j)]
<1>1. /\ taken + 1 \in Jobs /\ taken' = taken + 1 /\ added' = added
      /\ result' = result /\ taken + 1 <= added
  BY DEF RemoveJob, QueueEmpty, Jobs
<1>2. result[taken + 1] = "none"
  BY <1>1 DEF NoLostJob
<1>3. st[taken + 1] = "queued"
  BY <1>1, <1>2 DEF JobStatus
<1>4. \A i \in 1 .. (taken + 1) - 1 : st[i] # "queued"
  BY <1>1 DEF JobStatus, Jobs
<1>5. \A j \in Jobs :
        JobStatus(j)' = IF j = taken + 1 THEN "taken" ELSE JobStatus(j)
  BY <1>1, <1>2 DEF JobStatus, Jobs
<1>6. st' = [st EXCEPT ![taken + 1] = "taken"]
  BY <1>5
<1> QED
  BY <1>1, <1>3, <1>4, <1>6 DEF TJ!Next, TJ!Take, TJ!Become, TJ!Jobs, Jobs

\* addFileToTransferQueue() submits the next new job of the pipeline.
LEMMA AddIsSubmit ==
  ASSUME TypeInv, JobInv, AddFileToTransferQueue, BoundsAssumption
  PROVE  TJ!Next
<1> USE DEF TypeInv, TypeOK, QueueTypeOK, JobInv
<1> DEFINE st == [j \in Jobs |-> JobStatus(j)]
<1>1. /\ added + 1 \in Jobs /\ added' = added + 1 /\ taken' = taken
      /\ result' = result /\ taken <= added
  BY DEF AddFileToTransferQueue, Jobs
<1>2. result[added + 1] = "none"
  BY <1>1 DEF NoLostJob
<1>3. st[added + 1] = "new"
  BY <1>1, <1>2 DEF JobStatus
<1>4. \A i \in 1 .. (added + 1) - 1 : st[i] # "new"
  BY <1>1 DEF JobStatus, Jobs
<1>5. \A j \in Jobs :
        JobStatus(j)' = IF j = added + 1 THEN "queued" ELSE JobStatus(j)
  BY <1>1, <1>2 DEF JobStatus, Jobs
<1>6. st' = [st EXCEPT ![added + 1] = "queued"]
  BY <1>5
<1> QED
  BY <1>1, <1>3, <1>4, <1>6 DEF TJ!Next, TJ!Submit, TJ!Become, TJ!Jobs, Jobs

\* Every step of the window or of a worker is a step of the pipeline or leaves
\* the pipeline as it is.
LEMMA StepRefines ==
  TypeInv /\ JobInv /\ [Next]_vars
    => [TJ!Next]_[j \in Jobs |-> JobStatus(j)]
<1> SUFFICES ASSUME TypeInv, JobInv, [Next]_vars
    PROVE  [TJ!Next]_[j \in Jobs |-> JobStatus(j)]
  OBVIOUS
<1> USE BoundsAssumption DEF vars, edtVars, barVars, deviceVars, queueVars,
      eventVars, workerVars, unchangedByDevice, unchangedByTerminate,
      unchangedByWorker
<1>1. CASE PrepareCopy
  <2>1. UNCHANGED <<added, taken, result>>
    BY <1>1 DEF PrepareCopy, SetUpRun
  <2> QED
    BY <2>1, QuietJobsStutter
<1>2. CASE AddFileToTransferQueue
  BY <1>2, AddIsSubmit
<1>3. ASSUME NEW w \in Workers, RemoveJob(w)
     PROVE  [TJ!Next]_[j \in Jobs |-> JobStatus(j)]
  BY <1>3, RemoveIsTake
<1>4. ASSUME NEW w \in Workers, CheckCancelled(w)
     PROVE  [TJ!Next]_[j \in Jobs |-> JobStatus(j)]
  <2>1. /\ pc[w] \in Holding
        /\ Settle(w, "dropped") /\ added' = added /\ taken' = taken
    BY <1>4 DEF CheckCancelled, Step, Holding
  <2> QED
    BY <1>4, <2>1, SettleIsSettle
<1>5. ASSUME NEW w \in Workers, NullDevice(w)
     PROVE  [TJ!Next]_[j \in Jobs |-> JobStatus(j)]
  <2>1. /\ pc[w] \in Holding
        /\ Settle(w, "dropped") /\ added' = added /\ taken' = taken
    BY <1>5 DEF NullDevice, Step, Holding
  <2> QED
    BY <1>5, <2>1, SettleIsSettle
<1>6. ASSUME NEW w \in Workers, DeviceNotMounted(w)
     PROVE  [TJ!Next]_[j \in Jobs |-> JobStatus(j)]
  <2>1. /\ pc[w] \in Holding
        /\ Settle(w, "failed") /\ added' = added /\ taken' = taken
    BY <1>6 DEF DeviceNotMounted, Step, Holding
  <2> QED
    BY <1>6, <2>1, SettleIsSettle
<1>7. ASSUME NEW w \in Workers, SendOk(w)
     PROVE  [TJ!Next]_[j \in Jobs |-> JobStatus(j)]
  <2>1. /\ pc[w] \in Holding
        /\ Settle(w, "ok") /\ added' = added /\ taken' = taken
    BY <1>7 DEF SendOk, Step, Holding
  <2> QED
    BY <1>7, <2>1, SettleIsSettle
<1>8. ASSUME NEW w \in Workers, SendFails(w)
     PROVE  [TJ!Next]_[j \in Jobs |-> JobStatus(j)]
  <2>1. /\ pc[w] \in Holding
        /\ Settle(w, "failed") /\ added' = added /\ taken' = taken
    BY <1>8 DEF SendFails, Step, Holding
  <2> QED
    BY <1>8, <2>1, SettleIsSettle
<1>9. CASE ConnectAction \/ CopyFiles \/ ConfirmConnect \/ CancelCopy \/
            DismissError \/ Terminate \/ ScanDevices \/ ConnectSucceeds \/
            ConnectFails \/ ReleaseDevice \/ ForgetDevice \/ ReadTagsThrows
            \/ ExecuteWorker \/ StopWorker \/ CancelWorker \/ JoinWorker \/
            SpuriousWakeup \/ Stopped
  <2>1. UNCHANGED <<added, taken, result>>
    BY <1>9 DEF ConnectAction, CopyFiles, ConfirmConnect, CancelCopy,
       DismissError, Terminate, ScanDevices, ConnectSucceeds, ConnectFails,
       ReleaseDevice, ForgetDevice, ReadTagsThrows, ExecuteWorker,
       StopWorker, CancelWorker, JoinWorker, SpuriousWakeup, Stopped
  <2> QED
    BY <2>1, QuietJobsStutter
<1>10. ASSUME NEW w \in Workers,
            PropertyChange(w) \/ StartWorker(w) \/ EndOfQueue(w) \/
            CheckNotCancelled(w) \/ ReadDevice(w) \/ FindDevice(w) \/
            SendCrashes(w) \/ LoadCounter(w) \/ StoreCounter(w) \/
            SetOldValue(w) \/ SetNewValue(w) \/ FireFilesCopied(w) \/
            SetProgress100(w) \/ NotifyMe(w) \/ ReturnFromRun(w)
     PROVE [TJ!Next]_[j \in Jobs |-> JobStatus(j)]
  <2>1. UNCHANGED <<added, taken, result>>
    BY <1>10 DEF PropertyChange, StartWorker, EndOfQueue, CheckNotCancelled,
       ReadDevice, FindDevice, SendCrashes, LoadCounter, StoreCounter,
       SetOldValue, SetNewValue, FireFilesCopied, SetProgress100, NotifyMe,
       ReturnFromRun
  <2> QED
    BY <2>1, QuietJobsStutter
<1>11. CASE UNCHANGED vars
  <2>1. UNCHANGED <<added, taken, result>>
    BY <1>11
  <2> QED
    BY <2>1, QuietJobsStutter
<1> QED
  BY <1>1, <1>2, <1>3, <1>4, <1>5, <1>6, <1>7, <1>8, <1>9, <1>10, <1>11 DEF
     Next, UserAction, HandlerStep, WorkerStep

\* The window, its workers and the device implement the pipeline: in order,
\* once each, settled for good.
THEOREM PipelineRefined == Spec => ImplementsTransferJobs
<1>1. Init => TJ!Init
  <2> SUFFICES ASSUME Init PROVE TJ!Init
    OBVIOUS
  <2>1. \A j \in Jobs : JobStatus(j) = "new"
    BY DEF Init, JobStatus, Jobs
  <2> QED
    BY <2>1 DEF TJ!Init, TJ!Jobs, Jobs
<1>2. TypeInv /\ JobInv /\ [Next]_vars
        => [TJ!Next]_[j \in Jobs |-> JobStatus(j)]
  BY StepRefines
<1> QED
  BY <1>1, <1>2, TypeInvariant, JobsOwnedOnce, PTL DEF Spec, TJ!Spec,
     ImplementsTransferJobs

-----------------------------------------------------------------------------
(* The process exits between two files                                     *)

\* Only the break after a cancel sets the progress to 100, and nothing is
\* cancelled before terminate() has come to wait for the worker.
ExitInv ==
  /\ \A w \in Workers :
       progress[w] = 100 => pc[w] \in {"notify", "return", "done"}
  /\ edt \notin {"join", "waiting"} \cup Gone => \A w \in Workers : ~cancelled[w]
  /\ ExitBetweenFiles

LEMMA ExitInit == Init => ExitInv
BY DEF Init, ExitInv, ExitBetweenFiles

\* A handler that neither exits nor touches a worker keeps it.
LEMMA HandlerKeepsExit ==
  ASSUME ExitInv, UNCHANGED <<lastWorker, pc, progress, cancelled>>,
         edt' # "exited",
         edt' \notin {"join", "waiting"} \cup Gone =>
           edt \notin {"join", "waiting"} \cup Gone
             \/ \A w \in Workers : ~cancelled[w]
  PROVE  ExitInv'
BY DEF ExitInv, ExitBetweenFiles

LEMMA ExitNext == TypeInv /\ ExitInv /\ [Next]_vars => ExitInv'
<1> SUFFICES ASSUME TypeInv, ExitInv, [Next]_vars PROVE ExitInv'
  OBVIOUS
<1> USE BoundsAssumption DEF TypeInv, TypeOK, vars, edtVars, barVars,
      deviceVars, queueVars, eventVars, workerVars, unchangedByDevice,
      unchangedByTerminate, unchangedByWorker
<1>1. CASE ExecuteWorker
  <2>1. lastWorker + 1 \in Workers /\ pc[lastWorker + 1] = "none"
    BY <1>1 DEF ExecuteWorker, WorkersFresh, WindowTypeOK, Workers
  <2>2. \A w \in Workers : w # lastWorker + 1 => pc'[w] = pc[w]
    BY <1>1 DEF ExecuteWorker, WorkerTypeOK
  <2>3. progress[lastWorker + 1] # 100
    BY <2>1 DEF ExitInv
  <2> QED
    BY <1>1, <2>1, <2>2, <2>3 DEF ExecuteWorker, ExitInv, ExitBetweenFiles,
       Gone
<1>2. CASE StopWorker
  <2>1. \A w \in Workers : ~cancelled[w]
    BY <1>2 DEF StopWorker, ExitInv, Gone
  <2>2. lastWorker # 0 => lastWorker \in Workers
    BY DEF WindowTypeOK, Workers
  <2>3. edt' = "exited" /\ lastWorker # 0 => pc[lastWorker] = "done"
    BY <1>2, <2>1, <2>2 DEF StopWorker, IsDone
  <2> QED
    BY <1>2, <2>1, <2>3 DEF StopWorker, ExitInv, ExitBetweenFiles
<1>3. CASE CancelWorker
  BY <1>3 DEF CancelWorker, ExitInv, ExitBetweenFiles, Gone
<1>4. CASE JoinWorker
  <2>1. lastWorker # 0 => lastWorker \in Workers
    BY DEF WindowTypeOK, Workers
  <2> QED
    BY <1>4, <2>1 DEF JoinWorker, ExitInv, ExitBetweenFiles, Gone
<1>5. CASE SpuriousWakeup
  BY <1>5 DEF SpuriousWakeup, ExitInv, ExitBetweenFiles, Gone
<1>6. CASE ConnectAction \/ CopyFiles \/ ConfirmConnect \/ CancelCopy \/
            DismissError \/ Terminate \/ ScanDevices \/ ConnectSucceeds \/
            ConnectFails \/ ReleaseDevice \/ ForgetDevice \/ PrepareCopy \/
            AddFileToTransferQueue \/ ReadTagsThrows
  <2>1. /\ UNCHANGED <<lastWorker, pc, progress, cancelled>>
        /\ edt \notin {"join", "waiting"} \cup Gone /\ edt' # "exited"
    BY <1>6 DEF ConnectAction, CopyFiles, ConfirmConnect, CancelCopy,
       DismissError, Terminate, ScanDevices, ConnectSucceeds, ConnectFails,
       ReleaseDevice, ForgetDevice, PrepareCopy, SetUpRun,
       AddFileToTransferQueue, ReadTagsThrows, DeleteDevice, Gone,
       WindowTypeOK
  <2> QED
    BY <2>1, HandlerKeepsExit
<1>7. ASSUME NEW w \in Workers, PropertyChange(w) PROVE ExitInv'
  <2>1. /\ UNCHANGED <<lastWorker, pc, progress, cancelled>>
        /\ edt' = edt /\ edt # "exited"
    BY <1>7 DEF PropertyChange, Dispatching, Dialogs
  <2> QED
    BY <2>1, HandlerKeepsExit
<1>8. ASSUME NEW w \in Workers, SendCrashes(w) PROVE ExitInv'
  <2>1. /\ UNCHANGED <<lastWorker, pc, progress, cancelled>>
        /\ edt' = "crashed"
    BY <1>8 DEF SendCrashes
  <2> QED
    BY <2>1, HandlerKeepsExit DEF Gone
<1>9. ASSUME NEW w \in Workers, SetProgress100(w) PROVE ExitInv'
  BY <1>9 DEF SetProgress100, Step, WorkerTypeOK, ExitInv, ExitBetweenFiles,
     Gone
<1>10. ASSUME NEW w \in Workers, NotifyMe(w) PROVE ExitInv'
  BY <1>10 DEF NotifyMe, Step, WorkerTypeOK, ExitInv, ExitBetweenFiles, Gone
<1>11. ASSUME NEW w \in Workers, ReturnFromRun(w) PROVE ExitInv'
  BY <1>11 DEF ReturnFromRun, Step, WorkerTypeOK, ExitInv, ExitBetweenFiles,
     Gone
<1>12. ASSUME NEW w \in Workers, StartWorker(w) PROVE ExitInv'
  BY <1>12 DEF StartWorker, Step, WorkerTypeOK, ExitInv, ExitBetweenFiles,
     Gone
<1>13. ASSUME NEW w \in Workers,
            RemoveJob(w) \/ EndOfQueue(w) \/ CheckNotCancelled(w) \/
            CheckCancelled(w) \/ ReadDevice(w) \/ NullDevice(w) \/
            FindDevice(w) \/ DeviceNotMounted(w) \/ SendOk(w) \/
            SendFails(w) \/ LoadCounter(w) \/ StoreCounter(w) \/
            SetOldValue(w) \/ SetNewValue(w) \/ FireFilesCopied(w)
       PROVE ExitInv'
  <2>1. /\ UNCHANGED <<edt, lastWorker, progress, cancelled>>
        /\ edt # "exited"
        /\ \A v \in Workers : v # w => pc'[v] = pc[v]
        /\ pc[w] \notin {"notify", "return", "done"}
    BY <1>13 DEF RemoveJob, EndOfQueue, CheckNotCancelled, CheckCancelled,
       ReadDevice, NullDevice, FindDevice, DeviceNotMounted, SendOk,
       SendFails, LoadCounter, StoreCounter, SetOldValue, SetNewValue,
       FireFilesCopied, Step, WorkerTypeOK, Gone
  <2> QED
    BY <2>1 DEF ExitInv, ExitBetweenFiles
<1>14. CASE UNCHANGED vars
  BY <1>14 DEF ExitInv, ExitBetweenFiles
<1> QED
  BY <1>1, <1>2, <1>3, <1>4, <1>5, <1>6, <1>7, <1>8, <1>9, <1>10, <1>11,
     <1>12, <1>13, <1>14 DEF Next, UserAction, HandlerStep, WorkerStep,
     Stopped

\* When terminate() exits the process, the latest worker has copied its file
\* whole or not begun it, whatever wakes terminate() up.
THEOREM ExitClean == Spec => []ExitBetweenFiles
<1>1. TypeInv /\ ExitInv /\ [Next]_vars => ExitInv'
  BY ExitNext
<1>2. ExitInv => ExitBetweenFiles
  BY DEF ExitInv
<1> QED
  BY ExitInit, <1>1, <1>2, TypeInvariant, PTL DEF Spec

\* No wakeup is lost: while terminate() sleeps on a worker that has set its
\* progress to 100, the worker has not called notifyMe() yet.
WakeupPending ==
  edt = "waiting" /\ progress[lastWorker] = 100 => pc[lastWorker] = "notify"

\* terminate() waits for a worker, and goes to sleep and is notified under the
\* monitor.
WaitInv ==
  /\ edt \in {"cancel", "join", "waiting"} => lastWorker # 0
  /\ WakeupPending

\* A step that neither begins to wait nor touches a worker.
LEMMA HandlerKeepsWait ==
  ASSUME WaitInv, UNCHANGED <<lastWorker, pc, progress>>,
         edt' \in {"cancel", "join", "waiting"} => edt \in {"cancel", "join", "waiting"},
         edt' = "waiting" => edt = "waiting" \/ progress[lastWorker] # 100
  PROVE  WaitInv'
BY DEF WaitInv, WakeupPending

LEMMA WaitNext == TypeInv /\ WaitInv /\ [Next]_vars => WaitInv'
<1> SUFFICES ASSUME TypeInv, WaitInv, [Next]_vars PROVE WaitInv'
  OBVIOUS
<1> USE DEF TypeInv, TypeOK, vars, edtVars, barVars, deviceVars, queueVars, eventVars,
      workerVars, unchangedByDevice, unchangedByTerminate, unchangedByWorker
<1>1. CASE ExecuteWorker
  BY <1>1 DEF ExecuteWorker, WaitInv, WakeupPending
<1>2. CASE \/ ConnectAction \/ CopyFiles \/ ConfirmConnect \/ CancelCopy \/ DismissError
           \/ Terminate \/ ScanDevices \/ ConnectSucceeds \/ ConnectFails
           \/ ReleaseDevice \/ ForgetDevice \/ PrepareCopy \/ AddFileToTransferQueue
           \/ ReadTagsThrows
  <2>1. /\ UNCHANGED <<lastWorker, pc, progress>>
        /\ edt' \notin {"cancel", "join", "waiting"}
    BY <1>2 DEF ConnectAction, CopyFiles, ConfirmConnect, CancelCopy, DismissError,
       Terminate, ScanDevices, ConnectSucceeds, ConnectFails, ReleaseDevice,
       ForgetDevice, PrepareCopy, SetUpRun, AddFileToTransferQueue, ReadTagsThrows,
       DeleteDevice, WindowTypeOK
  <2> QED
    BY <2>1, HandlerKeepsWait
<1>3. CASE StopWorker
  BY <1>3 DEF StopWorker, WaitInv, WakeupPending
<1>4. CASE CancelWorker \/ JoinWorker \/ SpuriousWakeup
  BY <1>4, HandlerKeepsWait DEF CancelWorker, JoinWorker, SpuriousWakeup
<1>5. CASE Stopped \/ UNCHANGED vars
  BY <1>5, HandlerKeepsWait DEF Stopped
<1>6. ASSUME NEW w \in Workers, PropertyChange(w) \/ SendCrashes(w) PROVE WaitInv'
  BY <1>6, HandlerKeepsWait DEF PropertyChange, SendCrashes
<1>7. edt = "waiting" => lastWorker \in Workers
  BY DEF WaitInv, WindowTypeOK, Workers
<1>8. ASSUME NEW w \in Workers, NotifyMe(w) PROVE WaitInv'
  <2>1. /\ edt' # "waiting" /\ lastWorker' = lastWorker
        /\ edt' = "join" => edt \in {"join", "waiting"}
        /\ edt' = "cancel" => edt = "cancel"
    BY <1>8 DEF NotifyMe, Step
  <2> QED
    BY <2>1 DEF WaitInv, WakeupPending
<1>9. ASSUME NEW w \in Workers, StartWorker(w) \/ SetProgress100(w) PROVE WaitInv'
  <2>1. /\ UNCHANGED <<edt, lastWorker>> /\ pc[w] # "notify"
        /\ progress'[w] = 100 => pc'[w] = "notify"
        /\ \A v \in Workers \ {w} : pc'[v] = pc[v] /\ progress'[v] = progress[v]
    BY <1>9 DEF StartWorker, SetProgress100, Step, WorkerTypeOK
  <2> QED
    BY <1>7, <2>1 DEF WaitInv, WakeupPending
<1>10. ASSUME NEW w \in Workers,
              \/ RemoveJob(w) \/ EndOfQueue(w) \/ CheckNotCancelled(w)
              \/ CheckCancelled(w) \/ ReadDevice(w) \/ NullDevice(w) \/ FindDevice(w)
              \/ DeviceNotMounted(w) \/ SendOk(w) \/ SendFails(w) \/ LoadCounter(w)
              \/ StoreCounter(w) \/ SetOldValue(w) \/ SetNewValue(w)
              \/ FireFilesCopied(w) \/ ReturnFromRun(w)
       PROVE  WaitInv'
  <2>1. /\ UNCHANGED <<edt, lastWorker, progress>> /\ pc[w] # "notify"
        /\ \A v \in Workers \ {w} : pc'[v] = pc[v]
    BY <1>10 DEF RemoveJob, EndOfQueue, CheckNotCancelled, CheckCancelled, ReadDevice,
       NullDevice, FindDevice, DeviceNotMounted, SendOk, SendFails, LoadCounter,
       StoreCounter, SetOldValue, SetNewValue, FireFilesCopied, ReturnFromRun, Step,
       WorkerTypeOK
  <2> QED
    BY <1>7, <2>1 DEF WaitInv, WakeupPending
<1> QED
  BY <1>1, <1>2, <1>3, <1>4, <1>5, <1>6, <1>8, <1>9, <1>10
     DEF Next, UserAction, HandlerStep, WorkerStep

\* terminate() cannot sleep through the notification it waits for: a worker
\* whose progress is 100 while terminate() sleeps is still to call notifyMe().
THEOREM NoWakeupLost == Spec => []WakeupPending
<1>1. Init => WaitInv
  BY DEF Init, WaitInv, WakeupPending
<1>2. TypeInv /\ WaitInv /\ [Next]_vars => WaitInv'
  BY WaitNext
<1>3. WaitInv => WakeupPending
  BY DEF WaitInv
<1> QED
  BY <1>1, <1>2, <1>3, TypeInvariant, PTL DEF Spec

-----------------------------------------------------------------------------
(* No queued file is stranded                                              *)

\* A worker that will look at the queue again.
Looking == {"pending"} \cup (Running \ {"finish", "notify", "return"})

NothingDropped == \A j \in Jobs : result[j] # "dropped"

\* Outside the loop that fills the queue, somebody looks at it.
QueueWatched ==
  edt # "enqueue" /\ ~QueueEmpty /\ NothingDropped
    => \E w \in Workers : pc[w] \in Looking

LEMMA WatchedInit == Init => QueueWatched
BY DEF Init, QueueWatched, QueueEmpty

\* A step that does not begin or end the filling of the queue and leaves the
\* workers where they are keeps it watched.
LEMMA HandlerKeepsWatched ==
  ASSUME QueueWatched, UNCHANGED <<pc, added, taken, result>>,
         edt = "enqueue" => edt' = "enqueue"
  PROVE  QueueWatched'
BY DEF QueueWatched, QueueEmpty, NothingDropped

\* A worker that goes on looking keeps the queue watched.
LEMMA WorkerKeepsWatched ==
  ASSUME NEW w \in Workers, pc' \in [Workers -> Running \cup {"none",
           "pending", "done"}], pc'[w] \in Looking
  PROVE  QueueWatched'
BY DEF QueueWatched

\* A worker that was not looking changes nothing, wherever it goes.
LEMMA OthersKeepWatched ==
  ASSUME QueueWatched, NEW w \in Workers, pc[w] \notin Looking,
         \A v \in Workers : v # w => pc'[v] = pc[v],
         UNCHANGED <<added, taken, result>>,
         edt = "enqueue" => edt' = "enqueue"
  PROVE  QueueWatched'
BY DEF QueueWatched, QueueEmpty, NothingDropped

\* A job that is dropped frees the others of their claim, for good.
LEMMA DropKeepsWatched ==
  ASSUME TypeInv, JobInv, NEW w \in Workers, pc[w] \in Holding,
         Settle(w, "dropped")
  PROVE  QueueWatched'
<1>1. job[w] \in Jobs
  BY BoundsAssumption DEF JobInv, HeldJobs, TypeInv, TypeOK, QueueTypeOK,
     Jobs
<1>2. result'[job[w]] = "dropped"
  BY <1>1 DEF Settle, TypeInv, TypeOK, QueueTypeOK
<1> QED
  BY <1>1, <1>2 DEF QueueWatched, NothingDropped

LEMMA WatchedNext ==
  ASSUME TagReaderMayThrow = FALSE
  PROVE  TypeInv /\ JobInv /\ QueueWatched /\ [Next]_vars => QueueWatched'
<1> SUFFICES ASSUME TypeInv, JobInv, QueueWatched, [Next]_vars
             PROVE  QueueWatched'
  OBVIOUS
<1> USE BoundsAssumption DEF vars, edtVars, barVars, deviceVars, queueVars,
      eventVars, workerVars, unchangedByDevice, unchangedByTerminate,
      unchangedByWorker
<1>0. /\ pc \in [Workers -> Running \cup {"none", "pending", "done"}]
      /\ pc' \in [Workers -> Running \cup {"none", "pending", "done"}]
  BY WorkerTypeNext DEF TypeInv, TypeOK, WorkerTypeOK
<1>1. CASE ExecuteWorker
  <2>1. lastWorker + 1 \in Workers
    BY <1>1 DEF ExecuteWorker, TypeInv, TypeOK, WorkersFresh, WindowTypeOK,
       Workers
  <2>2. pc'[lastWorker + 1] = "pending"
    BY <1>0, <1>1, <2>1 DEF ExecuteWorker
  <2> QED
    BY <1>0, <2>1, <2>2, WorkerKeepsWatched DEF Looking
<1>2. CASE PrepareCopy \/ AddFileToTransferQueue
  <2>1. edt' = "enqueue"
    BY <1>2 DEF PrepareCopy, SetUpRun, AddFileToTransferQueue
  <2> QED
    BY <2>1 DEF QueueWatched
<1>3. CASE ReadTagsThrows
  BY <1>3 DEF ReadTagsThrows
<1>4. CASE ConnectAction \/ CopyFiles \/ ConfirmConnect \/ CancelCopy \/
            DismissError \/ Terminate \/ ScanDevices \/ ConnectSucceeds \/
            ConnectFails \/ ReleaseDevice \/ ForgetDevice \/ StopWorker \/
            CancelWorker \/ JoinWorker \/ SpuriousWakeup \/ Stopped
  <2>1. /\ UNCHANGED <<pc, added, taken, result>>
        /\ edt # "enqueue"
    BY <1>4 DEF ConnectAction, CopyFiles, ConfirmConnect, CancelCopy,
       DismissError, Terminate, ScanDevices, ConnectSucceeds, ConnectFails,
       ReleaseDevice, ForgetDevice, StopWorker, CancelWorker, JoinWorker,
       SpuriousWakeup, Stopped, Gone
  <2> QED
    BY <2>1, HandlerKeepsWatched
<1>5. ASSUME NEW w \in Workers, PropertyChange(w) \/ SendCrashes(w)
      PROVE  QueueWatched'
  <2>1. UNCHANGED <<pc, added, taken, result>>
    BY <1>5 DEF PropertyChange, SendCrashes
  <2>2. CASE PropertyChange(w)
    BY <2>1, <2>2, HandlerKeepsWatched DEF PropertyChange
  <2>3. CASE SendCrashes(w)
    <3>1. pc'[w] = "send"
      BY <2>1, <2>3 DEF SendCrashes
    <3> QED
      BY <1>0, <3>1, WorkerKeepsWatched DEF Looking, Running
  <2> QED
    BY <1>5, <2>2, <2>3
<1>6. ASSUME NEW w \in Workers,
            StartWorker(w) \/ RemoveJob(w) \/ CheckNotCancelled(w) \/
            ReadDevice(w) \/ FindDevice(w) \/ DeviceNotMounted(w) \/
            SendOk(w) \/ SendFails(w) \/ LoadCounter(w) \/ StoreCounter(w) \/
            SetOldValue(w) \/ SetNewValue(w) \/ FireFilesCopied(w)
      PROVE QueueWatched'
  <2>1. pc'[w] \in {"remove", "check", "deref", "lookup", "send", "setOld",
                    "load", "store", "setNew", "post"}
    BY <1>0, <1>6 DEF StartWorker, RemoveJob, CheckNotCancelled, ReadDevice,
       FindDevice, DeviceNotMounted, SendOk, SendFails, LoadCounter,
       StoreCounter, SetOldValue, SetNewValue, FireFilesCopied, Step
  <2>2. pc'[w] \in Looking
    BY <2>1 DEF Looking, Running
  <2> QED
    BY <1>0, <2>2, WorkerKeepsWatched
<1>7. ASSUME NEW w \in Workers, EndOfQueue(w) PROVE QueueWatched'
  BY <1>7 DEF EndOfQueue, QueueWatched, QueueEmpty
<1>8. ASSUME NEW w \in Workers, CheckCancelled(w) \/ NullDevice(w)
      PROVE  QueueWatched'
  <2>1. pc[w] \in Holding /\ Settle(w, "dropped")
    BY <1>8 DEF CheckCancelled, NullDevice, Step, Holding
  <2> QED
    BY <2>1, DropKeepsWatched
<1>9. ASSUME NEW w \in Workers,
            SetProgress100(w) \/ NotifyMe(w) \/ ReturnFromRun(w)
      PROVE QueueWatched'
  <2>1. /\ pc[w] \in {"finish", "notify", "return"}
        /\ \A v \in Workers : v # w => pc'[v] = pc[v]
        /\ UNCHANGED <<added, taken, result>>
        /\ edt = "enqueue" => edt' = "enqueue"
    BY <1>0, <1>9 DEF SetProgress100, NotifyMe, ReturnFromRun, Step
  <2> QED
    BY <2>1, OthersKeepWatched DEF Looking
<1>10. CASE UNCHANGED vars
  BY <1>10, HandlerKeepsWatched
<1> QED
  BY <1>1, <1>2, <1>3, <1>4, <1>5, <1>6, <1>7, <1>8, <1>9, <1>10 DEF Next,
     UserAction, HandlerStep, WorkerStep

\* If reading tags throws nothing that leaves the copy handler, every file in
\* the queue has a worker that will look at the queue again, unless a null
\* reference has killed one.
THEOREM NoneStranded ==
  ASSUME TagReaderMayThrow = FALSE
  PROVE  Spec => []NoStrandedJob
<1>1. TypeInv /\ JobInv /\ QueueWatched /\ [Next]_vars => QueueWatched'
  BY WatchedNext
<1>2. QueueWatched => NoStrandedJob
  BY DEF QueueWatched, NothingDropped, NoStrandedJob, Looking, Dispatching,
     Dialogs
<1> QED
  BY WatchedInit, <1>1, <1>2, TypeInvariant, JobsOwnedOnce, PTL DEF Spec

-----------------------------------------------------------------------------
(* The report is exact                                                     *)

\* where doInBackground() has settled a job and has not announced it yet
Settling == {"load", "store", "setOld", "setNew", "post"}

NotStarted == {"none", "pending"}

\* A worker that has nothing to do with the latest run.
AtRest(v) == pc[v] \in {"none", "done"} /\ posted[v] = 0

\* A worker counts and posts nothing before it starts.
Uncounted ==
  \A v \in Workers : pc[v] \in NotStarted => filesCopied[v] = 0 /\ posted[v] = 0

\* The bar is as long as the run, and no more than its files are queued.
RunBounds ==
  /\ 1 <= batch.first /\ batch.first <= batch.last + 1 /\ batch.last <= MaxJobs
  /\ barMax = batch.last - batch.first + 1
  /\ added + toAdd <= batch.last

NotBegun ==
  /\ \A v \in Workers : AtRest(v)
  /\ barValue = 0 /\ transferredOk = 0 /\ taken = batch.first - 1

\* The worker copies the files of the run in their order, and has counted those
\* it has announced: all it has taken, but for the one it is busy with.
InOrder(w) ==
  /\ filesCopied[w] <= taken - batch.first + 1
  /\ pc[w] \in Holding \cup Settling => filesCopied[w] = taken - batch.first
  /\ pc[w] \in {"pending", "remove"} => filesCopied[w] = taken - batch.first + 1
  /\ pc[w] \in Holding => job[w] = taken
  /\ pc[w] \in Settling => result[taken] \in {"ok", "failed"}
  /\ \A j \in batch.first .. batch.first + filesCopied[w] - 1 :
       result[j] \in {"ok", "failed"}

\* The bar lags behind the worker: one event announces the run, and then there
\* is one for each file, some of which the bar does not see.
StepsCounted(w) ==
  barValue + posted[w]
    <= filesCopied[w] + (IF pc[w] \in NotStarted THEN 0 ELSE 1)

Succeeded(b) == {j \in b.first .. b.last : result[j] = "ok"}

\* The counter is behind by the file that is about to be added.
OkCounted(w) ==
  /\ Cardinality(Succeeded(batch))
       = transferredOk + (IF pc[w] \in {"load", "store"} THEN 1 ELSE 0)
  /\ pc[w] = "store" => loaded[w] = transferredOk

Begun(w) ==
  /\ \A v \in Workers \ {w} : AtRest(v)
  /\ InOrder(w) /\ StepsCounted(w) /\ OkCounted(w)

\* A clean run is the work of one worker.
RunInv ==
  batch.clean =>
    /\ RunBounds
    /\ NotBegun \/ (edt # "enqueue" /\ \E w \in Workers : Begun(w))

ReportInv ==
  /\ ReportExact
  /\ report.batch.clean => 1 <= report.batch.first /\ report.batch.last <= MaxJobs

LEMMA RunInit == Init => Uncounted /\ RunInv /\ ReportInv
BY DEF Init, Uncounted, RunInv, ReportInv, ReportExact, NoBatch

\* What the run depends on.
runVars == <<batch, barMax, barValue, added, toAdd, taken, transferredOk, pc, job, result,
             loaded, filesCopied, posted>>

\* A handler that has nothing to do with the run.
LEMMA HandlerKeepsRun ==
  ASSUME Uncounted, RunInv, UNCHANGED runVars, edt' = "enqueue" => edt = "enqueue"
  PROVE  Uncounted' /\ RunInv'
BY DEF Uncounted, RunInv, RunBounds, NotBegun, Begun, AtRest, InOrder, StepsCounted,
   OkCounted, Succeeded, runVars

\* A worker that is under way is the worker of the run.
LEMMA WorkerOfRun ==
  ASSUME RunInv, batch.clean, NEW w \in Workers, ~ AtRest(w)
  PROVE  RunBounds /\ edt # "enqueue" /\ Begun(w)
BY DEF RunInv, NotBegun, Begun

\* It goes on with it.
LEMMA RunGoesOn ==
  ASSUME TypeInv, RunInv, NEW w \in Workers, ~ AtRest(w),
         UNCHANGED <<batch, barMax, added, toAdd>>,
         edt' = "enqueue" => edt = "enqueue",
         \A v \in Workers \ {w} : pc'[v] = pc[v] /\ posted'[v] = posted[v],
         batch.clean => InOrder(w)' /\ StepsCounted(w)' /\ OkCounted(w)'
  PROVE  RunInv'
<1> SUFFICES ASSUME batch.clean PROVE RunInv'
  BY DEF RunInv
<1>1. RunBounds /\ edt # "enqueue" /\ Begun(w)
  BY WorkerOfRun
<1>2. RunBounds'
  BY <1>1 DEF RunBounds
<1>3. \A v \in Workers \ {w} : AtRest(v)'
  BY <1>1 DEF Begun, AtRest
<1>4. Begun(w)'
  BY <1>3 DEF Begun
<1> QED
  BY <1>1, <1>2, <1>4 DEF RunInv

\* The types a step of the run is about.
LEMMA RunTypes ==
  ASSUME TypeInv, NEW w \in Workers
  PROVE  /\ filesCopied[w] \in Nat /\ posted[w] \in Nat /\ loaded[w] \in Nat
         /\ taken \in Nat /\ added \in Nat /\ toAdd \in Nat /\ taken <= added
         /\ barValue \in Nat /\ barMax \in Nat /\ transferredOk \in Nat
         /\ batch.first \in Nat /\ batch.last \in Nat /\ MaxJobs \in Nat
         /\ pc \in [Workers -> Running \cup {"none", "pending", "done"}]
         /\ DOMAIN result = Jobs
BY BoundsAssumption DEF TypeInv, TypeOK, WorkerTypeOK, QueueTypeOK, WindowTypeOK,
   HistoryTypeOK, Batches

\* A step of the worker from one line to another that leaves queue, counters and
\* events alone.
LEMMA LineKeepsRun ==
  ASSUME TypeInv, Uncounted, RunInv, NEW w \in Workers,
         pc[w] \notin {"none", "pending", "done", "load", "store"},
         NEW to, pc' = [pc EXCEPT ![w] = to],
         \/ pc[w] \in Holding /\ to \in Holding
         \/ pc[w] \in Settling /\ to \in Settling \ {"load", "store"}
         \/ pc[w] \notin Holding /\ to \in {"notify", "return", "done"},
         UNCHANGED <<batch, barMax, barValue, added, toAdd, taken, transferredOk, job,
                     result, loaded, filesCopied, posted>>,
         edt' = "enqueue" => edt = "enqueue"
  PROVE  Uncounted' /\ RunInv'
<1> USE RunTypes
<1>1. pc'[w] = to /\ \A v \in Workers \ {w} : pc'[v] = pc[v]
  OBVIOUS
<1>2. to \notin {"none", "pending", "remove", "load", "store"}
  BY DEF Holding, Settling
<1>3. Uncounted'
  BY <1>1, <1>2 DEF Uncounted, NotStarted
<1>4. ASSUME batch.clean PROVE InOrder(w)' /\ StepsCounted(w)' /\ OkCounted(w)'
  <2>1. InOrder(w) /\ StepsCounted(w) /\ OkCounted(w)
    BY <1>4, WorkerOfRun DEF Begun, AtRest
  <2>2. InOrder(w)'
    BY <1>1, <2>1 DEF InOrder, Holding, Settling
  <2>3. StepsCounted(w)'
    BY <1>1, <1>2, <2>1 DEF StepsCounted, NotStarted
  <2>4. OkCounted(w)'
    BY <1>1, <1>2, <2>1 DEF OkCounted, Succeeded
  <2> QED
    BY <2>2, <2>3, <2>4
<1>5. ~ AtRest(w)
  BY DEF AtRest
<1> QED
  BY <1>1, <1>3, <1>4, <1>5, RunGoesOn

LEMMA StartKeepsRun ==
  ASSUME TypeInv, Uncounted, RunInv, NEW w \in Workers, StartWorker(w)
  PROVE  Uncounted' /\ RunInv'
<1> USE RunTypes
<1>1. /\ pc[w] = "pending" /\ pc'[w] = "remove" /\ posted'[w] = posted[w] + 1
      /\ \A v \in Workers \ {w} : pc'[v] = pc[v] /\ posted'[v] = posted[v]
  BY DEF StartWorker, Step, TypeInv, TypeOK, WorkerTypeOK
<1>2. UNCHANGED <<edt, batch, barMax, barValue, added, toAdd, taken, transferredOk, job,
                  result, loaded, filesCopied>>
  BY DEF StartWorker, unchangedByWorker, queueVars, barVars
<1>3. Uncounted'
  BY <1>1, <1>2 DEF Uncounted, NotStarted
<1>4. ASSUME batch.clean PROVE InOrder(w)' /\ StepsCounted(w)' /\ OkCounted(w)'
  <2>1. InOrder(w) /\ StepsCounted(w) /\ OkCounted(w)
    BY <1>1, <1>4, WorkerOfRun DEF Begun, AtRest
  <2>2. InOrder(w)'
    BY <1>1, <1>2, <2>1 DEF InOrder, Holding, Settling
  <2>3. StepsCounted(w)'
    BY <1>1, <1>2, <2>1 DEF StepsCounted, NotStarted
  <2>4. OkCounted(w)'
    BY <1>1, <1>2, <2>1 DEF OkCounted, Succeeded
  <2> QED
    BY <2>2, <2>3, <2>4
<1>5. ~ AtRest(w)
  BY <1>1 DEF AtRest
<1> QED
  BY <1>1, <1>2, <1>3, <1>4, <1>5, RunGoesOn

LEMMA RemoveKeepsRun ==
  ASSUME TypeInv, Uncounted, RunInv, NEW w \in Workers, RemoveJob(w)
  PROVE  Uncounted' /\ RunInv'
<1> USE RunTypes
<1>1. /\ pc[w] = "remove" /\ pc'[w] = "check" /\ taken' = taken + 1
      /\ job'[w] = taken + 1 /\ \A v \in Workers \ {w} : pc'[v] = pc[v]
  BY DEF RemoveJob, Step, TypeInv, TypeOK, WorkerTypeOK, QueueTypeOK
<1>2. UNCHANGED <<edt, batch, barMax, barValue, added, toAdd, transferredOk, result,
                  loaded, filesCopied, posted>>
  BY DEF RemoveJob, unchangedByWorker, eventVars, barVars
<1>3. Uncounted'
  BY <1>1, <1>2 DEF Uncounted, NotStarted
<1>4. ASSUME batch.clean PROVE InOrder(w)' /\ StepsCounted(w)' /\ OkCounted(w)'
  <2>1. InOrder(w) /\ StepsCounted(w) /\ OkCounted(w)
    BY <1>1, <1>4, WorkerOfRun DEF Begun, AtRest
  <2>2. InOrder(w)'
    BY <1>1, <1>2, <2>1 DEF InOrder, Holding, Settling
  <2>3. StepsCounted(w)'
    BY <1>1, <1>2, <2>1 DEF StepsCounted, NotStarted
  <2>4. OkCounted(w)'
    BY <1>1, <1>2, <2>1 DEF OkCounted, Succeeded
  <2> QED
    BY <2>2, <2>3, <2>4
<1>5. ~ AtRest(w)
  BY <1>1 DEF AtRest
<1> QED
  BY <1>1, <1>2, <1>3, <1>4, <1>5, RunGoesOn

\* The job that is settled is the latest that has been taken.
LEMMA SettleKeepsRun ==
  ASSUME TypeInv, JobInv, Uncounted, RunInv, NEW w \in Workers, pc[w] \in Holding,
         NEW to, pc' = [pc EXCEPT ![w] = to],
         NEW r \in {"ok", "failed", "dropped"}, Settle(w, r),
         \/ r = "ok" /\ to = "load"
         \/ r = "failed" /\ to = "setOld"
         \/ r = "dropped" /\ to \in {"finish", "return"},
         UNCHANGED <<edt, batch, barMax, barValue, added, toAdd, taken, transferredOk,
                     loaded, filesCopied, posted>>
  PROVE  Uncounted' /\ RunInv'
<1> USE RunTypes
<1>1. pc'[w] = to /\ \A v \in Workers \ {w} : pc'[v] = pc[v]
  OBVIOUS
<1>2. /\ job[w] \in Jobs /\ result[job[w]] = "none"
      /\ \A j : result'[j] = IF j = job[w] THEN r ELSE result[j]
  BY DEF JobInv, HeldJobs, Settle, Jobs, TypeInv, TypeOK, QueueTypeOK
<1>3. Uncounted'
  BY <1>1 DEF Uncounted, NotStarted
<1>4. ASSUME batch.clean PROVE InOrder(w)' /\ StepsCounted(w)' /\ OkCounted(w)'
  <2>1. InOrder(w) /\ StepsCounted(w) /\ OkCounted(w) /\ RunBounds
    BY <1>4, WorkerOfRun DEF Begun, AtRest, Holding
  <2>2. /\ job[w] = taken /\ filesCopied[w] = taken - batch.first
        /\ taken \in batch.first .. batch.last
    BY <2>1 DEF InOrder, RunBounds
  <2>3. InOrder(w)'
    BY <1>1, <1>2, <2>1, <2>2 DEF InOrder, Holding, Settling
  <2>4. StepsCounted(w)'
    BY <1>1, <2>1 DEF StepsCounted, NotStarted, Holding
  <2>5. OkCounted(w)'
    <3>1. IsFiniteSet(Succeeded(batch))
      <4>1. IsFiniteSet(batch.first .. batch.last)
        <5>1. batch.first \in Int /\ batch.last \in Int
          OBVIOUS
        <5> QED
          BY ONLY <5>1, FS_Interval
      <4> QED
        BY <4>1, FS_Subset DEF Succeeded
    <3>2. taken \notin Succeeded(batch)
      BY <1>2, <2>2 DEF Succeeded
    <3>3. CASE r = "ok"
      <4>1. Succeeded(batch)' = Succeeded(batch) \cup {taken}
        BY <1>2, <2>2, <3>3 DEF Succeeded
      <4>2. Cardinality(Succeeded(batch)') = Cardinality(Succeeded(batch)) + 1
        BY <3>1, <3>2, <4>1, FS_AddElement
      <4> QED
        BY <1>1, <2>1, <3>3, <4>2 DEF OkCounted, Holding
    <3>4. CASE r # "ok"
      <4>1. Succeeded(batch)' = Succeeded(batch)
        BY <1>2, <2>2, <3>4 DEF Succeeded
      <4> QED
        BY <1>1, <2>1, <3>4, <4>1 DEF OkCounted, Holding
    <3> QED
      BY <3>3, <3>4
  <2> QED
    BY <2>3, <2>4, <2>5
<1>5. ~ AtRest(w)
  BY DEF AtRest, Holding
<1> QED
  BY <1>1, <1>3, <1>4, <1>5, RunGoesOn

\* transferredOk++ of the only worker of the run loses no update.
LEMMA CounterKeepsRun ==
  ASSUME TypeInv, Uncounted, RunInv, NEW w \in Workers, LoadCounter(w) \/ StoreCounter(w)
  PROVE  Uncounted' /\ RunInv'
<1> USE RunTypes
<1>1. \/ /\ pc[w] = "load" /\ pc'[w] = "store" /\ loaded'[w] = transferredOk
         /\ transferredOk' = transferredOk
      \/ /\ pc[w] = "store" /\ pc'[w] = "setOld" /\ transferredOk' = loaded[w] + 1
  BY DEF LoadCounter, StoreCounter, Step, TypeInv, TypeOK, WorkerTypeOK
<1>2. \A v \in Workers \ {w} : pc'[v] = pc[v]
  BY DEF LoadCounter, StoreCounter, Step
<1>3. UNCHANGED <<edt, batch, barMax, barValue, added, toAdd, taken, job, result,
                  filesCopied, posted>>
  BY DEF LoadCounter, StoreCounter, unchangedByWorker, eventVars, barVars, queueVars
<1>4. Uncounted'
  BY <1>1, <1>2, <1>3 DEF Uncounted, NotStarted
<1>5. ASSUME batch.clean PROVE InOrder(w)' /\ StepsCounted(w)' /\ OkCounted(w)'
  <2>1. InOrder(w) /\ StepsCounted(w) /\ OkCounted(w)
    BY <1>1, <1>5, WorkerOfRun DEF Begun, AtRest
  <2>2. InOrder(w)'
    BY <1>1, <1>3, <2>1 DEF InOrder, Holding, Settling
  <2>3. StepsCounted(w)'
    BY <1>1, <1>3, <2>1 DEF StepsCounted, NotStarted
  <2>4. Succeeded(batch)' = Succeeded(batch)
    BY <1>3 DEF Succeeded
  <2>5. OkCounted(w)'
    BY <1>1, <1>3, <2>1, <2>4 DEF OkCounted
  <2> QED
    BY <2>2, <2>3, <2>5
<1>6. ~ AtRest(w)
  BY <1>1 DEF AtRest
<1> QED
  BY <1>2, <1>3, <1>4, <1>5, <1>6, RunGoesOn

LEMMA FireKeepsRun ==
  ASSUME TypeInv, Uncounted, RunInv, NEW w \in Workers, FireFilesCopied(w)
  PROVE  Uncounted' /\ RunInv'
<1> USE RunTypes
<1>1. /\ pc[w] = "post" /\ pc'[w] = "remove" /\ posted'[w] = posted[w] + 1
      /\ filesCopied'[w] = filesCopied[w] + 1
  BY DEF FireFilesCopied, Step, TypeInv, TypeOK, WorkerTypeOK
<1>2. \A v \in Workers \ {w} : /\ pc'[v] = pc[v] /\ posted'[v] = posted[v]
                               /\ filesCopied'[v] = filesCopied[v]
  BY DEF FireFilesCopied, Step, TypeInv, TypeOK, WorkerTypeOK
<1>3. UNCHANGED <<edt, batch, barMax, barValue, added, toAdd, taken, transferredOk, job,
                  result, loaded>>
  BY DEF FireFilesCopied, unchangedByWorker, queueVars, barVars
<1>4. Uncounted'
  BY <1>1, <1>2, <1>3 DEF Uncounted, NotStarted
<1>5. ASSUME batch.clean PROVE InOrder(w)' /\ StepsCounted(w)' /\ OkCounted(w)'
  <2>1. InOrder(w) /\ StepsCounted(w) /\ OkCounted(w)
    BY <1>1, <1>5, WorkerOfRun DEF Begun, AtRest
  <2>2. InOrder(w)'
    <3>1. filesCopied[w] = taken - batch.first /\ result[taken] \in {"ok", "failed"}
      BY <1>1, <2>1 DEF InOrder, Settling
    <3>2. \A j \in batch.first .. batch.first + filesCopied'[w] - 1 :
            j = taken \/ j \in batch.first .. batch.first + filesCopied[w] - 1
      BY <1>1, <3>1
    <3> QED
      BY <1>1, <1>3, <2>1, <3>1, <3>2 DEF InOrder, Holding, Settling
  <2>3. StepsCounted(w)'
    BY <1>1, <1>3, <2>1 DEF StepsCounted, NotStarted
  <2>4. OkCounted(w)'
    BY <1>1, <1>3, <2>1 DEF OkCounted, Succeeded
  <2> QED
    BY <2>2, <2>3, <2>4
<1>6. ~ AtRest(w)
  BY <1>1 DEF AtRest
<1> QED
  BY <1>2, <1>3, <1>4, <1>5, <1>6, RunGoesOn

\* The bar steps, or does not, when an event is handled.
LEMMA EventKeepsRun ==
  ASSUME TypeInv, Uncounted, RunInv, NEW w \in Workers, PropertyChange(w)
  PROVE  Uncounted' /\ RunInv'
<1> USE RunTypes
<1>1. /\ posted[w] > 0 /\ posted'[w] = posted[w] - 1
      /\ \A v \in Workers \ {w} : posted'[v] = posted[v]
  BY DEF PropertyChange, TypeInv, TypeOK, WorkerTypeOK
<1>2. /\ barValue' \in {0, barValue, barValue + 1}
      /\ UNCHANGED <<barMax, batch>>
  BY DEF PropertyChange, StepProgressBar, barVars
<1>3. UNCHANGED <<edt, added, toAdd, taken, transferredOk, pc, job, result, loaded,
                  filesCopied>>
  BY DEF PropertyChange, edtVars, queueVars, workerVars
<1>4. Uncounted'
  BY <1>1, <1>3 DEF Uncounted, NotStarted
<1>5. ~ AtRest(w)
  BY <1>1 DEF AtRest
<1>6. ASSUME batch.clean PROVE InOrder(w)' /\ StepsCounted(w)' /\ OkCounted(w)'
  <2>1. InOrder(w) /\ StepsCounted(w) /\ OkCounted(w)
    BY <1>5, <1>6, WorkerOfRun DEF Begun
  <2>2. InOrder(w)'
    BY <1>2, <1>3, <2>1 DEF InOrder
  <2>3. StepsCounted(w)'
    BY <1>1, <1>2, <1>3, <2>1 DEF StepsCounted
  <2>4. OkCounted(w)'
    BY <1>2, <1>3, <2>1 DEF OkCounted, Succeeded
  <2> QED
    BY <2>2, <2>3, <2>4
<1> QED
  BY <1>1, <1>2, <1>3, <1>4, <1>5, <1>6, RunGoesOn

\* A clean run starts from nothing.
LEMMA PrepareKeepsRun ==
  ASSUME TypeInv, Uncounted, RunInv, PrepareCopy
  PROVE  Uncounted' /\ RunInv'
<1> USE BoundsAssumption
<1>1. PICK n \in 0 .. MaxJobs - added :
        barMax' = n + barValue /\ toAdd' = n /\ batch' = NewBatch(n)
  BY DEF PrepareCopy, SetUpRun
<1>2. /\ barValue' = 0 /\ transferredOk' = 0 /\ edt' = "enqueue"
      /\ UNCHANGED <<added, taken, pc, posted, filesCopied>>
  BY DEF PrepareCopy, SetUpRun, queueVars, eventVars, workerVars
<1>3. Uncounted'
  BY <1>2 DEF Uncounted
<1>4. ASSUME batch'.clean PROVE RunBounds' /\ NotBegun'
  <2>1. /\ QueueEmpty /\ barValue = 0
        /\ \A v \in Workers : pc[v] \in {"none", "done"} /\ posted[v] = 0
    <3>1. batch'.clean = (/\ QueueEmpty /\ barValue = 0
                          /\ \A v \in Workers : /\ pc[v] \in {"none", "done"}
                                                /\ posted[v] = 0)
      BY <1>1 DEF NewBatch
    <3> QED
      BY <1>4, <3>1, Zenon
  <2>2. batch'.first = added + 1 /\ batch'.last = added + n
    BY <1>1 DEF NewBatch
  <2>3. added \in Nat /\ taken = added /\ MaxJobs \in Nat
    BY <2>1 DEF QueueEmpty, TypeInv, TypeOK, QueueTypeOK
  <2>4. RunBounds'
    BY <1>1, <1>2, <2>1, <2>2, <2>3 DEF RunBounds
  <2>5. NotBegun'
    BY <1>2, <2>1, <2>2, <2>3 DEF NotBegun, AtRest
  <2> QED
    BY <2>4, <2>5
<1> QED
  BY <1>3, <1>4 DEF RunInv

\* Queueing files and creating the worker.
LEMMA QueueingKeepsRun ==
  ASSUME TypeInv, Uncounted, RunInv, AddFileToTransferQueue \/ ReadTagsThrows
  PROVE  Uncounted' /\ RunInv'
<1>1. /\ edt = "enqueue"
      /\ \/ added' = added + 1 /\ toAdd' = toAdd - 1
         \/ added' = added /\ toAdd' = 0
      /\ UNCHANGED <<batch, barMax, barValue, taken, transferredOk, pc, posted,
                     filesCopied>>
  BY DEF AddFileToTransferQueue, ReadTagsThrows, barVars, queueVars, eventVars, workerVars
<1>2. added \in Nat /\ toAdd \in Nat
  BY DEF TypeInv, TypeOK, QueueTypeOK
<1>3. Uncounted'
  BY <1>1 DEF Uncounted
<1>4. ASSUME batch.clean PROVE RunBounds' /\ NotBegun'
  <2>1. RunBounds /\ NotBegun
    BY <1>1, <1>4 DEF RunInv
  <2>2. batch.last \in Nat
    BY DEF TypeInv, TypeOK, HistoryTypeOK, Batches
  <2>3. RunBounds'
    BY <1>1, <1>2, <2>1, <2>2 DEF RunBounds
  <2>4. NotBegun'
    BY <1>1, <2>1 DEF NotBegun, AtRest
  <2> QED
    BY <2>3, <2>4
<1> QED
  BY <1>1, <1>3, <1>4 DEF RunInv

LEMMA ExecuteKeepsRun ==
  ASSUME TypeInv, JobInv, Uncounted, RunInv, ExecuteWorker
  PROVE  Uncounted' /\ RunInv'
<1> USE BoundsAssumption
<1>1. PICK w \in Workers : w = lastWorker + 1 /\ pc[w] = "none"
  BY DEF ExecuteWorker, TypeInv, TypeOK, WorkersFresh, WindowTypeOK, Workers
<1>2. /\ pc'[w] = "pending" /\ \A v \in Workers \ {w} : pc'[v] = pc[v]
      /\ edt = "enqueue" /\ edt' = "idle"
      /\ UNCHANGED <<batch, barMax, barValue, added, toAdd, taken, transferredOk, job,
                     result, loaded, filesCopied, posted>>
  BY <1>1 DEF ExecuteWorker, TypeInv, TypeOK, WorkerTypeOK, barVars, queueVars, eventVars
<1>3. filesCopied[w] = 0 /\ posted[w] = 0
  BY <1>1 DEF Uncounted, NotStarted
<1>4. Uncounted'
  BY <1>2, <1>3 DEF Uncounted, NotStarted
<1>5. ASSUME batch.clean PROVE RunBounds' /\ Begun(w)'
  <2>1. RunBounds /\ NotBegun
    BY <1>2, <1>5 DEF RunInv
  <2>2. RunBounds'
    BY <1>2, <2>1 DEF RunBounds
  <2>3. batch.first \in Nat /\ batch.last \in Nat /\ MaxJobs \in Nat
    BY DEF TypeInv, TypeOK, HistoryTypeOK, Batches
  <2>4. \A v \in Workers \ {w} : AtRest(v)'
    BY <1>2, <2>1 DEF NotBegun, AtRest
  <2>5. InOrder(w)'
    BY <1>2, <1>3, <2>1, <2>3 DEF NotBegun, InOrder, Holding, Settling
  <2>6. StepsCounted(w)'
    BY <1>2, <1>3, <2>1 DEF NotBegun, StepsCounted, NotStarted
  <2>7. \A j \in batch.first .. batch.last : result[j] = "none"
    <3> SUFFICES ASSUME NEW j \in batch.first .. batch.last PROVE result[j] = "none"
      OBVIOUS
    <3>1. j \in Jobs /\ j > taken
      BY <2>1, <2>3 DEF RunBounds, NotBegun, Jobs
    <3> QED
      BY <3>1 DEF JobInv, NoLostJob
  <2>8. Succeeded(batch)' = {}
    BY <1>2, <2>7 DEF Succeeded
  <2>9. OkCounted(w)'
    BY <1>2, <2>1, <2>8, FS_EmptySet DEF OkCounted, NotBegun
  <2> QED
    BY <2>2, <2>4, <2>5, <2>6, <2>9 DEF Begun
<1> QED
  BY <1>2, <1>4, <1>5 DEF RunInv

LEMMA RunNext ==
  TypeInv /\ JobInv /\ Uncounted /\ RunInv /\ [Next]_vars => Uncounted' /\ RunInv'
<1> SUFFICES ASSUME TypeInv, JobInv, Uncounted, RunInv, [Next]_vars
             PROVE  Uncounted' /\ RunInv'
  OBVIOUS
<1> USE DEF vars, edtVars, barVars, deviceVars, queueVars, eventVars, workerVars,
      unchangedByDevice, unchangedByTerminate, unchangedByWorker
<1>1. CASE PrepareCopy
  BY <1>1, PrepareKeepsRun
<1>2. CASE AddFileToTransferQueue \/ ReadTagsThrows
  BY <1>2, QueueingKeepsRun
<1>3. CASE ExecuteWorker
  BY <1>3, ExecuteKeepsRun
<1>4. CASE \/ ConnectAction \/ CopyFiles \/ ConfirmConnect \/ CancelCopy \/ DismissError
           \/ Terminate \/ ScanDevices \/ ConnectSucceeds \/ ConnectFails
           \/ ReleaseDevice \/ ForgetDevice \/ StopWorker \/ CancelWorker \/ JoinWorker
           \/ SpuriousWakeup \/ Stopped
  <2>1. UNCHANGED runVars
    BY <1>4 DEF ConnectAction, CopyFiles, ConfirmConnect, CancelCopy, DismissError,
       Terminate, ScanDevices, ConnectSucceeds, ConnectFails, ReleaseDevice,
       ForgetDevice, StopWorker, CancelWorker, JoinWorker, SpuriousWakeup, Stopped,
       DeleteDevice, runVars
  <2>2. edt' = "enqueue" => edt = "enqueue"
    BY <1>4 DEF ConnectAction, CopyFiles, ConfirmConnect, CancelCopy, DismissError,
       Terminate, ScanDevices, ConnectSucceeds, ConnectFails, ReleaseDevice,
       ForgetDevice, StopWorker, CancelWorker, JoinWorker, SpuriousWakeup, Stopped,
       TypeInv, TypeOK, WindowTypeOK
  <2> QED
    BY <2>1, <2>2, HandlerKeepsRun
<1>5. ASSUME NEW w \in Workers, PropertyChange(w) PROVE Uncounted' /\ RunInv'
  BY <1>5, EventKeepsRun
<1>6. ASSUME NEW w \in Workers, StartWorker(w) PROVE Uncounted' /\ RunInv'
  BY <1>6, StartKeepsRun
<1>7. ASSUME NEW w \in Workers, RemoveJob(w) PROVE Uncounted' /\ RunInv'
  BY <1>7, RemoveKeepsRun
<1>8. ASSUME NEW w \in Workers,
             \/ CheckCancelled(w) \/ NullDevice(w) \/ DeviceNotMounted(w)
             \/ SendOk(w) \/ SendFails(w)
      PROVE  Uncounted' /\ RunInv'
  <2>1. /\ pc[w] \in Holding
        /\ UNCHANGED <<edt, batch, barMax, barValue, added, toAdd, taken, transferredOk,
                       loaded, filesCopied, posted>>
    BY <1>8 DEF CheckCancelled, NullDevice, DeviceNotMounted, SendOk, SendFails, Step,
       Holding
  <2>2. CASE CheckCancelled(w)
    <3>1. pc' = [pc EXCEPT ![w] = "finish"] /\ Settle(w, "dropped")
      BY <2>2 DEF CheckCancelled, Step
    <3> QED
      BY <2>1, <3>1, SettleKeepsRun
  <2>3. CASE NullDevice(w)
    <3>1. pc' = [pc EXCEPT ![w] = "return"] /\ Settle(w, "dropped")
      BY <2>3 DEF NullDevice, Step
    <3> QED
      BY <2>1, <3>1, SettleKeepsRun
  <2>4. CASE DeviceNotMounted(w) \/ SendFails(w)
    <3>1. pc' = [pc EXCEPT ![w] = "setOld"] /\ Settle(w, "failed")
      BY <2>4 DEF DeviceNotMounted, SendFails, Step
    <3> QED
      BY <2>1, <3>1, SettleKeepsRun
  <2>5. CASE SendOk(w)
    <3>1. pc' = [pc EXCEPT ![w] = "load"] /\ Settle(w, "ok")
      BY <2>5 DEF SendOk, Step
    <3> QED
      BY <2>1, <3>1, SettleKeepsRun
  <2> QED
    BY <1>8, <2>2, <2>3, <2>4, <2>5
<1>9. ASSUME NEW w \in Workers, LoadCounter(w) \/ StoreCounter(w)
      PROVE  Uncounted' /\ RunInv'
  BY <1>9, CounterKeepsRun
<1>10. ASSUME NEW w \in Workers, FireFilesCopied(w) PROVE Uncounted' /\ RunInv'
  BY <1>10, FireKeepsRun
<1>11. ASSUME NEW w \in Workers,
              \/ EndOfQueue(w) \/ CheckNotCancelled(w) \/ ReadDevice(w) \/ FindDevice(w)
              \/ SetOldValue(w) \/ SetNewValue(w) \/ SetProgress100(w) \/ NotifyMe(w)
              \/ ReturnFromRun(w)
       PROVE  Uncounted' /\ RunInv'
  <2>1. UNCHANGED <<batch, barMax, barValue, added, toAdd, taken, transferredOk, job,
                    result, loaded, filesCopied, posted>>
    BY <1>11 DEF EndOfQueue, CheckNotCancelled, ReadDevice, FindDevice, SetOldValue,
       SetNewValue, SetProgress100, NotifyMe, ReturnFromRun
  <2>2. edt' = "enqueue" => edt = "enqueue"
    BY <1>11 DEF EndOfQueue, CheckNotCancelled, ReadDevice, FindDevice, SetOldValue,
       SetNewValue, SetProgress100, NotifyMe, ReturnFromRun
  <2>3. PICK to :
          /\ pc' = [pc EXCEPT ![w] = to]
          /\ pc[w] \notin {"none", "pending", "done", "load", "store"}
          /\ \/ pc[w] \in Holding /\ to \in Holding
             \/ pc[w] \in Settling /\ to \in Settling \ {"load", "store"}
             \/ pc[w] \notin Holding /\ to \in {"notify", "return", "done"}
    BY <1>11 DEF EndOfQueue, CheckNotCancelled, ReadDevice, FindDevice, SetOldValue,
       SetNewValue, SetProgress100, NotifyMe, ReturnFromRun, Step, Holding, Settling
  <2> QED
    BY <2>1, <2>2, <2>3, LineKeepsRun
<1>12. ASSUME NEW w \in Workers, SendCrashes(w) PROVE Uncounted' /\ RunInv'
  BY <1>12, HandlerKeepsRun DEF SendCrashes, runVars
<1>13. CASE UNCHANGED vars
  BY <1>13, HandlerKeepsRun DEF runVars
<1> QED
  BY <1>1, <1>2, <1>3, <1>4, <1>5, <1>6, <1>7, <1>8, <1>9, <1>10, <1>11, <1>12, <1>13
     DEF Next, UserAction, HandlerStep, WorkerStep

\* What became of a job is never taken back.
LEMMA ResultsStay ==
  ASSUME TypeInv, JobInv, [Next]_vars
  PROVE  \A j \in Jobs : result[j] # "none" => result'[j] = result[j]
<1> USE DEF vars, queueVars, unchangedByDevice, unchangedByTerminate
<1>1. ASSUME NEW w \in Workers,
             \/ CheckCancelled(w) \/ NullDevice(w) \/ DeviceNotMounted(w)
             \/ SendOk(w) \/ SendFails(w)
      PROVE  \A j \in Jobs : result[j] # "none" => result'[j] = result[j]
  <2>1. /\ pc[w] \in Holding
        /\ \E r : result' = [result EXCEPT ![job[w]] = r]
    BY <1>1 DEF CheckCancelled, NullDevice, DeviceNotMounted, SendOk, SendFails, Step,
       Holding, Settle
  <2>2. result[job[w]] = "none"
    BY <2>1 DEF JobInv, HeldJobs
  <2> QED
    BY <2>1, <2>2 DEF TypeInv, TypeOK, QueueTypeOK
<1>2. CASE result' = result
  BY <1>2
<1>3. ASSUME NEW w \in Workers,
             \/ PropertyChange(w) \/ StartWorker(w) \/ RemoveJob(w) \/ EndOfQueue(w)
             \/ CheckNotCancelled(w) \/ ReadDevice(w) \/ FindDevice(w) \/ SendCrashes(w)
             \/ LoadCounter(w) \/ StoreCounter(w) \/ SetOldValue(w) \/ SetNewValue(w)
             \/ FireFilesCopied(w) \/ SetProgress100(w) \/ NotifyMe(w)
             \/ ReturnFromRun(w)
      PROVE  result' = result
  BY <1>3 DEF PropertyChange, StartWorker, RemoveJob, EndOfQueue, CheckNotCancelled,
     ReadDevice, FindDevice, SendCrashes, LoadCounter, StoreCounter, SetOldValue,
     SetNewValue, FireFilesCopied, SetProgress100, NotifyMe, ReturnFromRun
<1>4. CASE \/ UserAction \/ HandlerStep \/ SpuriousWakeup \/ Stopped \/ UNCHANGED vars
  <2>1. result' = result
    BY <1>4 DEF UserAction, HandlerStep, ConnectAction, CopyFiles, ConfirmConnect,
       CancelCopy, DismissError, Terminate, ScanDevices, ConnectSucceeds, ConnectFails,
       ReleaseDevice, ForgetDevice, PrepareCopy, SetUpRun, AddFileToTransferQueue,
       ReadTagsThrows, ExecuteWorker, StopWorker, CancelWorker, JoinWorker,
       SpuriousWakeup, Stopped
  <2> QED
    BY <2>1
<1> QED
  BY <1>1, <1>2, <1>3, <1>4 DEF Next, WorkerStep

\* A report stays right when it stays: its files are settled for good.
LEMMA ReportStays ==
  ASSUME TypeInv, ReportInv, report' = report,
         \A j \in Jobs : result[j] # "none" => result'[j] = result[j]
  PROVE  ReportInv'
<1> SUFFICES ASSUME report.batch.clean PROVE ReportInv'
  BY DEF ReportInv, ReportExact
<1> DEFINE files == report.batch.first .. report.batch.last
<1>1. /\ 1 <= report.batch.first /\ report.batch.last <= MaxJobs
      /\ report.batch.first \in Nat /\ report.batch.last \in Nat /\ MaxJobs \in Nat
  BY BoundsAssumption DEF ReportInv, TypeInv, TypeOK, HistoryTypeOK, Batches
<1>2. files \subseteq Jobs
  BY <1>1 DEF Jobs
<1>3. /\ \A j \in files : result[j] \in {"ok", "failed"}
      /\ report.of = Cardinality(files)
      /\ report.failed = Cardinality({j \in files : result[j] # "ok"})
  BY DEF ReportInv, ReportExact
<1>4. \A j \in files : result'[j] = result[j]
  BY <1>2, <1>3
<1>5. {j \in files : result'[j] # "ok"} = {j \in files : result[j] # "ok"}
  BY <1>4
<1>6. ReportExact'
  BY <1>3, <1>4, <1>5 DEF ReportExact
<1> QED
  BY <1>1, <1>6 DEF ReportInv

\* The bar is full only when every file of the run has been announced.
LEMMA FullBar ==
  ASSUME TypeInv, Uncounted, RunInv, batch.clean,
         NEW w \in Workers, posted[w] > 0, barMax - barValue < 1
  PROVE  /\ RunBounds
         /\ \A j \in batch.first .. batch.last : result[j] \in {"ok", "failed"}
         /\ Cardinality(Succeeded(batch)) = transferredOk
<1> USE RunTypes
<1>1. RunBounds /\ InOrder(w) /\ StepsCounted(w) /\ OkCounted(w)
  BY WorkerOfRun DEF AtRest, Begun
<1>2. pc[w] \notin NotStarted
  BY DEF Uncounted
<1>3. filesCopied[w] >= barMax
  BY <1>1, <1>2 DEF StepsCounted
<1>4. filesCopied[w] = taken - batch.first + 1 /\ filesCopied[w] = barMax
  BY <1>1, <1>3 DEF InOrder, RunBounds
<1>5. pc[w] \notin Settling
  BY <1>1, <1>4 DEF InOrder
<1>6. batch.first + filesCopied[w] - 1 = batch.last
  BY <1>1, <1>4 DEF RunBounds
<1>7. \A j \in batch.first .. batch.last : result[j] \in {"ok", "failed"}
  BY <1>1, <1>6 DEF InOrder
<1>8. Cardinality(Succeeded(batch)) = transferredOk
  BY <1>1, <1>5 DEF OkCounted, Settling
<1> QED
  BY <1>1, <1>7, <1>8

Unsuccessful(b) == {j \in b.first .. b.last : result[j] # "ok"}

\* Those of an interval of files that are not ok.
LEMMA NotOk ==
  ASSUME NEW b, b.first \in Nat, b.last \in Nat, b.first <= b.last + 1
  PROVE  /\ Cardinality(b.first .. b.last) = b.last - b.first + 1
         /\ Cardinality(Unsuccessful(b))
              = b.last - b.first + 1 - Cardinality(Succeeded(b))
<1> DEFINE files == b.first .. b.last
<1>1. b.first \in Int /\ b.last \in Int
  OBVIOUS
<1>2. /\ IsFiniteSet(files)
      /\ Cardinality(files) = IF b.first > b.last THEN 0 ELSE b.last - b.first + 1
  BY ONLY <1>1, FS_Interval
<1>3. Cardinality(files) = b.last - b.first + 1
  BY <1>2
<1>4. Unsuccessful(b) = files \ Succeeded(b) /\ files \cap Succeeded(b) = Succeeded(b)
  BY DEF Succeeded, Unsuccessful
<1>5. PICK good : good = Succeeded(b)
  OBVIOUS
<1>6. PICK all : all = files
  OBVIOUS
<1>7. IsFiniteSet(all)
  BY <1>2, <1>6
<1>8. Cardinality(all \ good) = Cardinality(all) - Cardinality(all \cap good)
  BY ONLY <1>7, FS_Difference
<1>9. all \ good = Unsuccessful(b) /\ all \cap good = Succeeded(b)
  BY <1>4, <1>5, <1>6
<1>10. Cardinality(all) = b.last - b.first + 1
  BY <1>3, <1>6
<1>11. Cardinality(all \cap good) \in Nat
  BY <1>7, FS_Intersection, FS_CardinalityType
<1>12. Cardinality(Unsuccessful(b)) = Cardinality(all) - Cardinality(Succeeded(b))
  BY <1>8, <1>9, Zenon
<1>13. Cardinality(Succeeded(b)) \in Nat
  BY <1>9, <1>11, Zenon
<1>14. Cardinality(Unsuccessful(b)) = b.last - b.first + 1 - Cardinality(Succeeded(b))
  BY <1>10, <1>12, <1>13
<1> QED
  BY <1>3, <1>14

LEMMA EventKeepsReport ==
  ASSUME TypeInv, Uncounted, RunInv, ReportInv, NEW w \in Workers, PropertyChange(w)
  PROVE  ReportInv'
<1>1. result' = result
  BY DEF PropertyChange, queueVars
<1>2. CASE report' = report
  BY <1>1, <1>2, ReportStays
<1>3. CASE report' # report
  <2>1. /\ barMax - barValue < 1 /\ posted[w] > 0
        /\ report' = [failed |-> barMax - transferredOk, of |-> barMax, batch |-> batch]
    <3>1. ~(barMax - barValue >= 1)
      BY <1>3 DEF PropertyChange, StepProgressBar, barVars
    <3> QED
      BY <1>3, <3>1, RunTypes DEF PropertyChange, StepProgressBar, barVars
  <2> SUFFICES ASSUME batch.clean PROVE ReportInv'
    BY <2>1 DEF ReportInv, ReportExact
  <2>2. PICK b : b = batch
    OBVIOUS
  <2>3. /\ RunBounds
        /\ \A j \in b.first .. b.last : result[j] \in {"ok", "failed"}
        /\ Cardinality(Succeeded(b)) = transferredOk
    BY <2>1, <2>2, FullBar
  <2>4. /\ b.first \in Nat /\ b.last \in Nat /\ b.first <= b.last + 1
        /\ barMax = b.last - b.first + 1 /\ 1 <= b.first /\ b.last <= MaxJobs
        /\ transferredOk \in Nat
    BY <2>2, <2>3, RunTypes DEF RunBounds
  <2>5. /\ barMax = Cardinality(b.first .. b.last)
        /\ barMax - transferredOk = Cardinality(Unsuccessful(b))
    BY <2>3, <2>4, NotOk
  <2>6. /\ report'.batch = b /\ report'.of = barMax
        /\ report'.failed = barMax - transferredOk
    BY <2>1, <2>2
  <2>7. ReportExact'
    BY <1>1, <2>3, <2>5, <2>6 DEF ReportExact, Unsuccessful
  <2> QED
    BY <2>4, <2>6, <2>7 DEF ReportInv
<1> QED
  BY <1>2, <1>3

LEMMA ReportNext ==
  TypeInv /\ JobInv /\ Uncounted /\ RunInv /\ ReportInv /\ [Next]_vars => ReportInv'
<1> SUFFICES ASSUME TypeInv, JobInv, Uncounted, RunInv, ReportInv, [Next]_vars
             PROVE  ReportInv'
  OBVIOUS
<1> USE DEF vars, barVars, unchangedByDevice, unchangedByTerminate, unchangedByWorker
<1>1. ASSUME NEW w \in Workers, PropertyChange(w) PROVE ReportInv'
  BY <1>1, EventKeepsReport
<1>2. CASE report' = report
  BY <1>2, ResultsStay, ReportStays
<1>3. ASSUME NEW w \in Workers, WorkerStep(w) PROVE report' = report
  BY <1>3 DEF WorkerStep, StartWorker, RemoveJob, EndOfQueue, CheckNotCancelled,
     CheckCancelled, ReadDevice, NullDevice, FindDevice, DeviceNotMounted, SendOk,
     SendFails, SendCrashes, LoadCounter, StoreCounter, SetOldValue, SetNewValue,
     FireFilesCopied, SetProgress100, NotifyMe, ReturnFromRun
<1>4. CASE \/ UserAction \/ HandlerStep \/ SpuriousWakeup \/ Stopped \/ UNCHANGED vars
  <2>1. report' = report
    BY <1>4 DEF UserAction, HandlerStep, ConnectAction, CopyFiles, ConfirmConnect,
       CancelCopy, DismissError, Terminate, ScanDevices, ConnectSucceeds, ConnectFails,
       ReleaseDevice, ForgetDevice, PrepareCopy, SetUpRun, AddFileToTransferQueue,
       ReadTagsThrows, ExecuteWorker, StopWorker, CancelWorker, JoinWorker,
       SpuriousWakeup, Stopped
  <2> QED
    BY <2>1, <1>2
<1> QED
  BY <1>1, <1>2, <1>3, <1>4 DEF Next

\* "Finished copying (x of y failed)" is right about a run that began with
\* nothing left of an earlier one, whatever the number of runs before it, the
\* cancellations and the events that are handled late.
THEOREM ReportIsExact == Spec => []ReportExact
<1>1. TypeInv /\ JobInv /\ Uncounted /\ RunInv /\ ReportInv /\ [Next]_vars
        => Uncounted' /\ RunInv' /\ ReportInv'
  BY RunNext, ReportNext
<1>2. ReportInv => ReportExact
  BY DEF ReportInv
<1> QED
  BY RunInit, <1>1, <1>2, TypeInvariant, JobsOwnedOnce, PTL DEF Spec
=============================================================================
