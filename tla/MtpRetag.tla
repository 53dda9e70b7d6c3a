------------------------------ MODULE MtpRetag ------------------------------
(***************************************************************************)
(* The main window of MtpRetag (src/src/mtpretag/MtpRetag.java): the Swing *)
(* event dispatch thread, which runs every handler of the window; the      *)
(* SwingWorker threads that copy files; and what they share: the transfer  *)
(* queue, the success counter, the device reference, the native registry   *)
(* behind it and the monitor of the window, on which terminate() waits.    *)
(*                                                                         *)
(* A handler is split wherever a worker can observe or disturb it.  `edt'  *)
(* is the point the event dispatch thread has reached.  While a dialog is  *)
(* open it still dispatches the workers' property changes, but the user    *)
(* can do nothing else in the window.                                      *)
(***************************************************************************)
EXTENDS Integers, FiniteSets

CONSTANTS
  MaxWorkers,        \* bound: number of copy runs (SwingWorker objects)
  MaxJobs,           \* bound: number of CopyFileDetails ever queued
  PoolSize,          \* threads of the SwingWorker pool (1 or 10, by JDK)
  TagReaderMayThrow  \* can the tag library throw what line 748 does not catch?

ASSUME BoundsAssumption ==
  /\ MaxWorkers \in Nat \ {0}
  /\ MaxJobs \in Nat
  /\ PoolSize \in Nat \ {0}
  /\ TagReaderMayThrow \in BOOLEAN

Workers == 1 .. MaxWorkers
Jobs    == 1 .. MaxJobs

VARIABLES
  \* the event dispatch thread
  edt,            \* the point it has reached
  resume,         \* where it goes on after usbConnect() or usbDisconnect(),
                  \* "idle" when neither is under way
  toAdd,          \* files the loop of menuItemCopyFilesAction has yet to queue
  barValue,       \* progressBar.getValue()
  barMax,         \* progressBar.getMaximum()
  lastWorker,     \* the field `worker': its number, 0 for null
  \* shared with the workers
  connected,      \* menuItemConnect.getState()
  usbDevice,      \* the field usbDevice is not null
  mounted,        \* the native registry holds that device
  added,          \* jobs ever put in transferQueue
  taken,          \* jobs ever removed from it: it holds taken+1 .. added
  transferredOk,  \* files copied without error
  \* one entry for each worker
  pc,             \* the point doInBackground() has reached
  job,            \* the job in `details', 0 when it holds none
  handle,         \* the native device object sendFile() works on
  loaded,         \* transferredOk as read by transferredOk++
  cancelled,      \* isCancelled()
  progress,       \* getProgress()
  oldValue,       \* oldValue[0] and
  newValue,       \* newValue[0]: arrays every event of the worker refers to
  filesCopied,    \* the local counter of that name
  posted,         \* filesCopied events waiting for the event dispatch thread
  \* history
  result,         \* how the copy of each job was settled
  batch,          \* the files of the latest copy run, and whether it ran alone
  report          \* the latest "Finished copying" text and the run it is about

edtVars    == <<edt, resume>>
barVars    == <<barValue, barMax, report, batch>>
deviceVars == <<connected, usbDevice, mounted>>
queueVars  == <<added, taken, result>>
eventVars  == <<oldValue, newValue, filesCopied, posted>>
workerVars == <<pc, job, handle, loaded, cancelled, progress>>
vars == <<edtVars, toAdd, barVars, lastWorker, deviceVars, queueVars,
          transferredOk, eventVars, workerVars>>

-----------------------------------------------------------------------------
\* where the event dispatch thread serves the user, and where it only
\* dispatches the property changes posted by the workers
Dialogs     == {"confirm", "connError"}
Dispatching == {"idle"} \cup Dialogs

\* the process is gone: System.exit(0), or a crash in the native library
Gone == {"exited", "crashed"}

Running == {"remove", "check", "deref", "lookup", "send", "load", "store",
            "setOld", "setNew", "post", "finish", "notify", "return"}

\* where doInBackground() owns a job it has removed from the queue
Holding == {"check", "deref", "lookup", "send"}

\* terminate() is synchronized: the event dispatch thread owns the monitor
\* from its first line to wait() and from the return of wait() to the end
MonitorHeld ==
  \/ edt \in {"stop", "cancel", "join"}
  \/ edt \in {"release", "released"} /\ resume = "stop"

\* FutureTask.isDone()
IsDone(w) == pc[w] = "done" \/ cancelled[w]

QueueEmpty == taken = added

NoBatch == [clean |-> FALSE, first |-> 1, last |-> 0]

WindowTypeOK ==
  /\ edt \in Dispatching \cup Gone \cup
             {"scan", "detect", "prepare", "enqueue", "release", "released",
              "stop", "cancel", "join", "waiting"}
  /\ resume \in {"idle", "prepare", "stop"}
  /\ barValue \in Nat /\ barMax \in Nat
  /\ lastWorker \in 0 .. MaxWorkers
  /\ connected \in BOOLEAN /\ usbDevice \in BOOLEAN /\ mounted \in BOOLEAN
  /\ transferredOk \in Nat

QueueTypeOK ==
  /\ added \in Nat /\ taken \in Nat /\ toAdd \in Nat
  /\ taken <= added /\ added + toAdd <= MaxJobs
  /\ job \in [Workers -> 0 .. MaxJobs]
  /\ result \in [Jobs -> {"none", "ok", "failed", "dropped"}]

WorkerTypeOK ==
  /\ pc \in [Workers -> Running \cup {"none", "pending", "done"}]
  /\ handle \in [Workers -> {"none", "live", "deleted"}]
  /\ loaded \in [Workers -> Nat]
  /\ cancelled \in [Workers -> BOOLEAN]
  /\ progress \in [Workers -> {0, 100}]
  /\ oldValue \in [Workers -> Int]
  /\ newValue \in [Workers -> Int]
  /\ filesCopied \in [Workers -> Nat]
  /\ posted \in [Workers -> Nat]

Batches == [clean : BOOLEAN, first : Nat, last : Nat]

HistoryTypeOK ==
  /\ batch \in Batches
  /\ report \in [failed : Int, of : Nat, batch : Batches]

TypeOK == WindowTypeOK /\ QueueTypeOK /\ WorkerTypeOK /\ HistoryTypeOK

Init ==
  /\ edt = "idle" /\ resume = "idle"
  /\ toAdd = 0
  /\ barValue = 0 /\ barMax = 100
  /\ lastWorker = 0
  /\ connected = FALSE /\ usbDevice = FALSE /\ mounted = FALSE
  /\ added = 0 /\ taken = 0
  /\ transferredOk = 0
  /\ pc = [w \in Workers |-> "none"]
  /\ job = [w \in Workers |-> 0]
  /\ handle = [w \in Workers |-> "none"]
  /\ loaded = [w \in Workers |-> 0]
  /\ cancelled = [w \in Workers |-> FALSE]
  /\ progress = [w \in Workers |-> 0]
  /\ oldValue = [w \in Workers |-> -1]
  /\ newValue = [w \in Workers |-> 0]
  /\ filesCopied = [w \in Workers |-> 0]
  /\ posted = [w \in Workers |-> 0]
  /\ result = [j \in Jobs |-> "none"]
  /\ batch = NoBatch
  /\ report = [failed |-> 0, of |-> 0, batch |-> NoBatch]

-----------------------------------------------------------------------------
(* The event dispatch thread: events of the workers                        *)

\* stepProgressBar()
StepProgressBar ==
  IF barMax - barValue >= 1
  THEN /\ barValue' = barValue + 1
       /\ UNCHANGED <<barMax, report, batch>>
  ELSE /\ barValue' = 0
       /\ report' = [failed |-> barMax - transferredOk, of |-> barMax,
                     batch |-> batch]
       /\ UNCHANGED <<barMax, batch>>

\* propertyChange() for a filesCopied event: old and new value are what the
\* shared arrays hold now, not what they held when the event was fired
PropertyChange(w) ==
  /\ edt \in Dispatching
  /\ posted[w] > 0
  /\ posted' = [posted EXCEPT ![w] = @ - 1]
  /\ IF newValue[w] # oldValue[w] THEN StepProgressBar ELSE UNCHANGED barVars
  /\ UNCHANGED <<edtVars, toAdd, lastWorker, deviceVars, queueVars,
                 transferredOk, oldValue, newValue, filesCopied, workerVars>>

-----------------------------------------------------------------------------
(* The event dispatch thread: the list and the device                      *)

unchangedByDevice == <<toAdd, barVars, lastWorker, queueVars,
                       transferredOk, eventVars>>

\* menuItemConnectAction(): the check box has already changed its state
ConnectAction ==
  /\ edt = "idle"
  /\ connected' = ~connected
  /\ edt' = IF connected THEN "release" ELSE "scan"
  /\ resume' = "idle"
  /\ UNCHANGED <<usbDevice, mounted, unchangedByDevice, workerVars>>

\* every copy in progress on the device loses the object it works on
DeleteDevice ==
  /\ mounted' = FALSE
  /\ handle' = [w \in Workers |->
                  IF handle[w] = "live" THEN "deleted" ELSE handle[w]]

\* usbConnect(): dm.scanDevices() first deletes every known device ...
ScanDevices ==
  /\ edt = "scan"
  /\ DeleteDevice
  /\ edt' = "detect"
  /\ UNCHANGED <<resume, connected, usbDevice, unchangedByDevice,
                 pc, job, loaded, cancelled, progress>>

\* ... then lists what is plugged in: a device is found,
ConnectSucceeds ==
  /\ edt = "detect"
  /\ mounted' = TRUE /\ usbDevice' = TRUE /\ connected' = TRUE
  /\ edt' = resume /\ resume' = "idle"
  /\ UNCHANGED <<unchangedByDevice, workerVars>>

\* Mutant: the error path returns before setConnectedState()
ConnectFailsSilently ==
  /\ edt = "detect"
  /\ edt' = "connError"
  /\ UNCHANGED <<resume, deviceVars, unchangedByDevice, workerVars>>

\* or none is: an error dialog, and the reference keeps its old value
ConnectFails ==
  /\ edt = "detect"
  /\ connected' = FALSE
  /\ edt' = "connError"
  /\ UNCHANGED <<resume, usbDevice, mounted, unchangedByDevice, workerVars>>

DismissError ==
  /\ edt = "connError"
  /\ edt' = resume /\ resume' = "idle"
  /\ UNCHANGED <<deviceVars, unchangedByDevice, workerVars>>

\* usbDisconnect(): the device object is deleted first ...
ReleaseDevice ==
  /\ edt = "release"
  /\ DeleteDevice
  /\ edt' = "released"
  /\ UNCHANGED <<resume, connected, usbDevice, unchangedByDevice,
                 pc, job, loaded, cancelled, progress>>

\* ... the reference to it is cleared afterwards
ForgetDevice ==
  /\ edt = "released"
  /\ usbDevice' = FALSE /\ connected' = FALSE
  /\ edt' = resume /\ resume' = "idle"
  /\ UNCHANGED <<mounted, unchangedByDevice, workerVars>>

-----------------------------------------------------------------------------
(* The event dispatch thread: menuItemCopyFilesAction()                    *)

\* another run fits the bound
Bounded == lastWorker < MaxWorkers

CopyFiles ==
  /\ edt = "idle" /\ Bounded
  /\ edt' = IF connected THEN "prepare" ELSE "confirm"
  /\ UNCHANGED <<resume, deviceVars, unchangedByDevice, workerVars>>

\* "Please connect USB device.": OK goes on with usbConnect(), whose failure
\* does not stop the copy
ConfirmConnect ==
  /\ edt = "confirm"
  /\ edt' = "scan" /\ resume' = "prepare"
  /\ UNCHANGED <<deviceVars, unchangedByDevice, workerVars>>

CancelCopy ==
  /\ edt = "confirm"
  /\ edt' = "idle"
  /\ UNCHANGED <<resume, deviceVars, unchangedByDevice, workerVars>>

\* A run is clean when nothing of an earlier one is left: no job, no live
\* worker, no event, an idle bar.
NewBatch(n) ==
  [clean |-> /\ QueueEmpty /\ barValue = 0
             /\ \A w \in Workers : pc[w] \in {"none", "done"} /\ posted[w] = 0,
   first |-> added + 1,
   last  |-> added + n]

\* The progress bar is set up.  listSize is listModel.getSize(): the user may
\* have listed any number of files that fits the bound (the list itself is
\* not modelled here).
SetUpRun ==
  /\ edt = "prepare"
  /\ \E listSize \in 0 .. MaxJobs - added :
       /\ barMax' = listSize + barValue
       /\ toAdd' = listSize
       /\ batch' = NewBatch(listSize)
  /\ barValue' = 0
  /\ edt' = "enqueue"
  /\ UNCHANGED <<resume, report, lastWorker, deviceVars, queueVars,
                 eventVars, workerVars>>

\* Mutant: the success counter of the previous run is not reset
PrepareCopyKeepsCounter == SetUpRun /\ UNCHANGED transferredOk

PrepareCopy == SetUpRun /\ transferredOk' = 0

\* one pass of the loop: tags are read, addFileToTransferQueue()
AddFileToTransferQueue ==
  /\ edt = "enqueue" /\ toAdd > 0
  /\ added' = added + 1
  /\ toAdd' = toAdd - 1
  /\ UNCHANGED <<edtVars, barVars, lastWorker, deviceVars, taken,
                 result, transferredOk, eventVars, workerVars>>

\* an exception other than CannotReadException leaves the handler: the files
\* queued so far stay in the queue, no worker is created
ReadTagsThrows ==
  /\ edt = "enqueue" /\ toAdd > 0
  /\ TagReaderMayThrow
  /\ toAdd' = 0
  /\ edt' = "idle"
  /\ UNCHANGED <<resume, barVars, lastWorker, deviceVars, queueVars,
                 transferredOk, eventVars, workerVars>>

\* Mutant: no new worker when the previous one is still at work
ExecuteIdleWorker ==
  /\ edt = "enqueue" /\ toAdd = 0
  /\ edt' = "idle"
  /\ IF lastWorker # 0 /\ ~IsDone(lastWorker)
     THEN UNCHANGED <<lastWorker, pc>>
     ELSE /\ lastWorker' = lastWorker + 1
          /\ pc' = [pc EXCEPT ![lastWorker + 1] = "pending"]
  /\ UNCHANGED <<resume, toAdd, barVars, deviceVars, queueVars, transferredOk,
                 eventVars, job, handle, loaded, cancelled, progress>>

ExecuteWorker ==
  /\ edt = "enqueue" /\ toAdd = 0
  /\ lastWorker' = lastWorker + 1
  /\ pc' = [pc EXCEPT ![lastWorker + 1] = "pending"]
  /\ edt' = "idle"
  /\ UNCHANGED <<resume, toAdd, barVars, deviceVars, queueVars, transferredOk,
                 eventVars, job, handle, loaded, cancelled, progress>>

-----------------------------------------------------------------------------
(* The event dispatch thread: terminate()                                  *)

unchangedByTerminate == <<deviceVars, unchangedByDevice, pc, job, handle,
                          loaded, progress>>

Terminate ==
  /\ edt = "idle"
  /\ edt' = IF connected THEN "release" ELSE "stop"
  /\ resume' = IF connected THEN "stop" ELSE "idle"
  /\ UNCHANGED <<deviceVars, unchangedByDevice, workerVars>>

\* worker != null && worker.isDone() == false
StopWorker ==
  /\ edt = "stop"
  /\ edt' = IF lastWorker # 0 /\ ~IsDone(lastWorker) THEN "cancel"
                                                     ELSE "exited"
  /\ UNCHANGED <<resume, cancelled, unchangedByTerminate>>

\* worker.cancel(false) does nothing to a worker that is done by now
CancelWorker ==
  /\ edt = "cancel"
  /\ cancelled' = [cancelled EXCEPT ![lastWorker] = pc[lastWorker] # "done"]
  /\ edt' = "join"
  /\ UNCHANGED <<resume, unchangedByTerminate>>

\* while (worker.getProgress() != 100) wait()
JoinWorker ==
  /\ edt = "join"
  /\ edt' = IF progress[lastWorker] = 100 THEN "exited" ELSE "waiting"
  /\ UNCHANGED <<resume, cancelled, unchangedByTerminate>>

\* Mutant: "if" instead of "while" around wait()
WakeupExits ==
  /\ edt = "waiting"
  /\ edt' = "exited"
  /\ UNCHANGED <<resume, cancelled, unchangedByTerminate>>

\* Object.wait() may return without a notification
SpuriousWakeup ==
  /\ edt = "waiting"
  /\ edt' = "join"
  /\ UNCHANGED <<resume, cancelled, unchangedByTerminate>>

-----------------------------------------------------------------------------
(* The worker threads: doInBackground()                                    *)

Step(w, from, to) ==
  /\ edt \notin Gone
  /\ pc[w] = from
  /\ pc' = [pc EXCEPT ![w] = to]

unchangedByWorker == <<toAdd, barVars, lastWorker, deviceVars, resume>>

\* a thread of the pool runs the worker, unless it was cancelled before:
\* setProgress(0), then the event that announces the run
StartWorker(w) ==
  /\ Step(w, "pending", "remove")
  /\ ~cancelled[w]
  /\ Cardinality({v \in Workers : pc[v] \in Running}) < PoolSize
  /\ oldValue' = [oldValue EXCEPT ![w] = -1]
  /\ newValue' = [newValue EXCEPT ![w] = 0]
  /\ posted' = [posted EXCEPT ![w] = @ + 1]
  /\ progress' = [progress EXCEPT ![w] = 0]
  /\ UNCHANGED <<unchangedByWorker, edt, queueVars, transferredOk,
                 filesCopied, job, handle, loaded, cancelled>>

\* Mutants: the queue is not known to be non-empty; peek() for remove()
RemoveAnyJob(w) ==
  /\ Step(w, "remove", "check")
  /\ taken' = taken + 1
  /\ job' = [job EXCEPT ![w] = taken + 1]
  /\ UNCHANGED <<unchangedByWorker, edt, added, result, transferredOk,
                 eventVars, handle, loaded, cancelled, progress>>

PeekJob(w) ==
  /\ Step(w, "remove", "check")
  /\ ~QueueEmpty
  /\ job' = [job EXCEPT ![w] = taken + 1]
  /\ UNCHANGED <<unchangedByWorker, edt, queueVars, transferredOk,
                 eventVars, handle, loaded, cancelled, progress>>

\* details = transferQueue.remove()
RemoveJob(w) ==
  /\ Step(w, "remove", "check")
  /\ ~QueueEmpty
  /\ taken' = taken + 1
  /\ job' = [job EXCEPT ![w] = taken + 1]
  /\ UNCHANGED <<unchangedByWorker, edt, added, result, transferredOk,
                 eventVars, handle, loaded, cancelled, progress>>

\* Mutant: take() for remove(), which waits for a job
WaitForJob(w) ==
  /\ Step(w, "remove", "return")
  /\ FALSE

\* remove() throws NoSuchElementException: the loop is left through its
\* handler, which neither sets the progress nor notifies
EndOfQueue(w) ==
  /\ Step(w, "remove", "return")
  /\ QueueEmpty
  /\ UNCHANGED <<unchangedByWorker, edt, queueVars, transferredOk, eventVars,
                 job, handle, loaded, cancelled, progress>>

\* the job held by w is settled as r
Settle(w, r) ==
  /\ result' = [result EXCEPT ![job[w]] = r]
  /\ job' = [job EXCEPT ![w] = 0]

CheckNotCancelled(w) ==
  /\ Step(w, "check", "deref")
  /\ ~cancelled[w]
  /\ UNCHANGED <<unchangedByWorker, edt, queueVars, transferredOk, eventVars,
                 job, handle, loaded, cancelled, progress>>

\* Mutants: the job goes back to the queue; the worker returns at once
RequeueCancelled(w) ==
  /\ Step(w, "check", "finish")
  /\ cancelled[w]
  /\ taken' = taken - 1
  /\ job' = [job EXCEPT ![w] = 0]
  /\ UNCHANGED <<unchangedByWorker, edt, added, result, transferredOk,
                 eventVars, handle, loaded, cancelled, progress>>

ReturnCancelled(w) ==
  /\ Step(w, "check", "return")
  /\ cancelled[w]
  /\ Settle(w, "dropped")
  /\ UNCHANGED <<unchangedByWorker, edt, added, taken, transferredOk,
                 eventVars, handle, loaded, cancelled, progress>>

\* break: the job already removed is not copied
CheckCancelled(w) ==
  /\ Step(w, "check", "finish")
  /\ cancelled[w]
  /\ Settle(w, "dropped")
  /\ UNCHANGED <<unchangedByWorker, edt, added, taken, transferredOk,
                 eventVars, handle, loaded, cancelled, progress>>

\* usbDevice.sendFile(): the field is read
ReadDevice(w) ==
  /\ Step(w, "deref", "lookup")
  /\ usbDevice
  /\ UNCHANGED <<unchangedByWorker, edt, queueVars, transferredOk, eventVars,
                 job, handle, loaded, cancelled, progress>>

\* it is null: NullPointerException, caught by the handler of Throwable
NullDevice(w) ==
  /\ Step(w, "deref", "return")
  /\ ~usbDevice
  /\ Settle(w, "dropped")
  /\ UNCHANGED <<unchangedByWorker, edt, added, taken, transferredOk,
                 eventVars, handle, loaded, cancelled, progress>>

\* get_internaldevice(): the registry has it, or sendFile() returns an error
FindDevice(w) ==
  /\ Step(w, "lookup", "send")
  /\ mounted
  /\ handle' = [handle EXCEPT ![w] = "live"]
  /\ UNCHANGED <<unchangedByWorker, edt, queueVars, transferredOk, eventVars,
                 job, loaded, cancelled, progress>>

DeviceNotMounted(w) ==
  /\ Step(w, "lookup", "setOld")
  /\ ~mounted
  /\ Settle(w, "failed")
  /\ UNCHANGED <<unchangedByWorker, edt, added, taken, transferredOk,
                 eventVars, handle, loaded, cancelled, progress>>

\* transfer_file() returns; on a deleted object it may return anything
SendOk(w) ==
  /\ Step(w, "send", "load")
  /\ Settle(w, "ok")
  /\ handle' = [handle EXCEPT ![w] = "none"]
  /\ UNCHANGED <<unchangedByWorker, edt, added, taken, transferredOk,
                 eventVars, loaded, cancelled, progress>>

SendFails(w) ==
  /\ Step(w, "send", "setOld")
  /\ Settle(w, "failed")
  /\ handle' = [handle EXCEPT ![w] = "none"]
  /\ UNCHANGED <<unchangedByWorker, edt, added, taken, transferredOk,
                 eventVars, loaded, cancelled, progress>>

\* ... or bring the process down: transfer_file() and msc_copy() use pointers
\* they have not tested, of a device that is there, too
SendCrashes(w) ==
  /\ edt \notin Gone
  /\ pc[w] = "send"
  /\ edt' = "crashed"
  /\ UNCHANGED <<unchangedByWorker, queueVars, transferredOk, eventVars,
                 workerVars>>

\* transferredOk++ is a read and a write
LoadCounter(w) ==
  /\ Step(w, "load", "store")
  /\ loaded' = [loaded EXCEPT ![w] = transferredOk]
  /\ UNCHANGED <<unchangedByWorker, edt, queueVars, transferredOk, eventVars,
                 job, handle, cancelled, progress>>

StoreCounter(w) ==
  /\ Step(w, "store", "setOld")
  /\ transferredOk' = loaded[w] + 1
  /\ loaded' = [loaded EXCEPT ![w] = 0]
  /\ UNCHANGED <<unchangedByWorker, edt, queueVars, eventVars,
                 job, handle, cancelled, progress>>

SetOldValue(w) ==
  /\ Step(w, "setOld", "setNew")
  /\ oldValue' = [oldValue EXCEPT ![w] = filesCopied[w]]
  /\ UNCHANGED <<unchangedByWorker, edt, queueVars, transferredOk, newValue,
                 filesCopied, posted, job, handle, loaded, cancelled, progress>>

SetNewValue(w) ==
  /\ Step(w, "setNew", "post")
  /\ newValue' = [newValue EXCEPT ![w] = filesCopied[w] + 1]
  /\ UNCHANGED <<unchangedByWorker, edt, queueVars, transferredOk, oldValue,
                 filesCopied, posted, job, handle, loaded, cancelled, progress>>

\* firePropertyChange() posts the event to the event dispatch thread
FireFilesCopied(w) ==
  /\ Step(w, "post", "remove")
  /\ posted' = [posted EXCEPT ![w] = @ + 1]
  /\ filesCopied' = [filesCopied EXCEPT ![w] = @ + 1]
  /\ UNCHANGED <<unchangedByWorker, edt, queueVars, transferredOk, oldValue,
                 newValue, job, handle, loaded, cancelled, progress>>

SetProgress100(w) ==
  /\ Step(w, "finish", "notify")
  /\ progress' = [progress EXCEPT ![w] = 100]
  /\ UNCHANGED <<unchangedByWorker, edt, queueVars, transferredOk, eventVars,
                 job, handle, loaded, cancelled>>

\* Mutant: the waiter is not notified
NotifyNobody(w) ==
  /\ Step(w, "notify", "return")
  /\ ~MonitorHeld
  /\ UNCHANGED <<unchangedByWorker, edt, queueVars, transferredOk, eventVars,
                 job, handle, loaded, cancelled, progress>>

\* notifyMe() needs the monitor
NotifyMe(w) ==
  /\ Step(w, "notify", "return")
  /\ ~MonitorHeld
  /\ edt' = IF edt = "waiting" THEN "join" ELSE edt
  /\ UNCHANGED <<unchangedByWorker, queueVars, transferredOk, eventVars,
                 job, handle, loaded, cancelled, progress>>

\* doInBackground() returns and the future is done
ReturnFromRun(w) ==
  /\ Step(w, "return", "done")
  /\ UNCHANGED <<unchangedByWorker, edt, queueVars, transferredOk, eventVars,
                 job, handle, loaded, cancelled, progress>>

-----------------------------------------------------------------------------
\* what the user does in the window, or does not
UserAction ==
  \/ ConnectAction \/ CopyFiles
  \/ ConfirmConnect \/ CancelCopy \/ DismissError \/ Terminate

\* how a handler goes on once it has started
HandlerStep ==
  \/ ScanDevices \/ ConnectSucceeds \/ ConnectFails
  \/ ReleaseDevice \/ ForgetDevice
  \/ PrepareCopy \/ AddFileToTransferQueue \/ ReadTagsThrows \/ ExecuteWorker
  \/ StopWorker \/ CancelWorker \/ JoinWorker

WorkerStep(w) ==
  \/ StartWorker(w) \/ RemoveJob(w) \/ EndOfQueue(w)
  \/ CheckNotCancelled(w) \/ CheckCancelled(w)
  \/ ReadDevice(w) \/ NullDevice(w) \/ FindDevice(w) \/ DeviceNotMounted(w)
  \/ SendOk(w) \/ SendFails(w) \/ SendCrashes(w)
  \/ LoadCounter(w) \/ StoreCounter(w)
  \/ SetOldValue(w) \/ SetNewValue(w) \/ FireFilesCopied(w)
  \/ SetProgress100(w) \/ NotifyMe(w) \/ ReturnFromRun(w)

\* the process is gone and nothing moves any more
Stopped == edt \in Gone /\ UNCHANGED vars

Next ==
  \/ UserAction
  \/ HandlerStep
  \/ SpuriousWakeup
  \/ \E w \in Workers : PropertyChange(w) \/ WorkerStep(w)
  \/ Stopped

\* Threads are scheduled: a handler that has started goes on, and so does a
\* worker, whose calls into the device return.  Nothing is assumed of the
\* user, of spurious wakeups or of the dispatch of events.
Fairness ==
  /\ WF_vars(HandlerStep)
  /\ \A w \in Workers : WF_vars(WorkerStep(w))

Spec == Init /\ [][Next]_vars /\ Fairness

-----------------------------------------------------------------------------
(* Safety                                                                  *)

\* A job removed from the queue is owned by exactly one worker until its copy
\* is settled: it is neither copied by two workers nor lost between
\* transferQueue.remove() and the end of sendFile().
HeldJobs ==
  \A w \in Workers :
    IF pc[w] \in Holding
    THEN job[w] \in 1 .. taken /\ result[job[w]] = "none"
    ELSE job[w] = 0

NoSharedJob ==
  \A v, w \in Workers :
    v # w /\ pc[v] \in Holding /\ pc[w] \in Holding => job[v] # job[w]

NoLostJob ==
  \A j \in Jobs :
    result[j] = "none"
      <=> j > taken \/ \E w \in Workers : pc[w] \in Holding /\ job[w] = j

JobInv == HeldJobs /\ NoSharedJob /\ NoLostJob

\* Whenever the user can click, the check box, the reference and the native
\* registry agree: usbDisconnect() never meets a null reference, and
\* usbConnect() never scans (which deletes the devices) with one in use.
DeviceAgrees ==
  edt \in Dispatching => usbDevice = connected /\ mounted = connected

\* "Finished copying (x of y failed)" is right about a clean run: y is the
\* number of its files, all of them are settled and x of them are not ok.
ReportExact ==
  report.batch.clean =>
    LET files == report.batch.first .. report.batch.last IN
    /\ \A j \in files : result[j] \in {"ok", "failed"}
    /\ report.of = Cardinality(files)
    /\ report.failed = Cardinality({j \in files : result[j] # "ok"})

\* When terminate() exits the process, the worker it cancelled (the latest
\* one) is not in the middle of a copy: a file is copied whole or not begun.
ExitBetweenFiles ==
  edt = "exited" /\ lastWorker # 0 =>
    pc[lastWorker] \in {"notify", "return", "done"}

\* Every queued job has a worker that will look at the queue again, unless a
\* null reference killed a worker (the one case a job is dropped while the
\* window is open): a worker that saw the queue empty just before files were
\* added does not strand them.
NoStrandedJob ==
  /\ edt \in Dispatching
  /\ ~QueueEmpty
  /\ \A j \in Jobs : result[j] # "dropped"
  => \E w \in Workers :
       pc[w] \in {"pending"} \cup (Running \ {"finish", "notify", "return"})

-----------------------------------------------------------------------------
(* Liveness                                                                *)

\* A worker that is started ends, unless terminate() cancels it first.
WorkerEnds ==
  \A w \in Workers :
    pc[w] = "pending" ~> pc[w] = "done" \/ cancelled[w] \/ edt \in Gone

\* No lost wakeup: once the progress is 100, terminate() does not sleep on.
WaiterWoken ==
  edt = "waiting" /\ progress[lastWorker] = 100 ~> edt \in Gone

\* The case terminate() is written for: the worker it waits for is copying
\* (or has copied) a file, another file is queued behind it and no other
\* worker can take that file away.  Then the process does exit.
ExitAfterCurrentFile ==
  /\ edt = "waiting"
  /\ pc[lastWorker] \in {"send", "load", "store", "setOld", "setNew", "post",
                         "remove", "check", "finish"}
  /\ ~QueueEmpty
  /\ \A w \in Workers \ {lastWorker} : pc[w] \in {"none", "done"}
  ~> edt \in Gone

-----------------------------------------------------------------------------
(* The window implements the pipeline of TransferJobs                      *)

JobStatus(j) ==
  IF result[j] # "none" THEN result[j]
  ELSE IF j > added THEN "new"
  ELSE IF j > taken THEN "queued"
  ELSE "taken"

TJ == INSTANCE TransferJobs
        WITH NumJobs <- MaxJobs, status <- [j \in Jobs |-> JobStatus(j)]

\* Files are taken in the order they were queued, each once, and settled for
\* good, whatever the user, the workers and the device do.
ImplementsTransferJobs == TJ!Spec

-----------------------------------------------------------------------------
(* What comments of the code say and the code does not do                  *)

\* lines 445-446 and 458-459: terminate() ends the application, the worker
\* finishing the file it copies.
TerminateEnds == edt = "stop" ~> edt \in Gone

\* lines 641-643: the bar is stepped before the first file and after each
\* file, so a clean run whose events are all handled has been reported.
CleanRunReported ==
  /\ edt = "idle" /\ lastWorker # 0
  /\ pc[lastWorker] = "done" /\ posted[lastWorker] = 0
  /\ batch.clean /\ batch.last <= taken
  /\ \A j \in batch.first .. batch.last : result[j] \in {"ok", "failed"}
  => report.batch = batch

\* lines 458-459: the worker should finish copying the current file; no copy
\* goes on with a device that has been deleted under it.
CopyKeepsDevice == \A w \in Workers : handle[w] # "deleted"
=============================================================================
