------------------------------ MODULE FileLoader ------------------------------
(***************************************************************************)
(* The download pool (messenger/FileLoader.java) and its operations         *)
(* (messenger/FileLoadOperation.java).                                      *)
(*                                                                         *)
(* Callers on any thread post tasks to fileLoaderQueue, which alone touches *)
(* the pool: the map of file names to operations, the queue of waiting       *)
(* operations and the counter of running ones.  An operation starts there   *)
(* and goes on in tasks of stageQueue; its end is reported back by a task of *)
(* fileLoaderQueue (checkDownloadQueue).  Photos, audio and other documents *)
(* have a pool each with the same code; this is one of them.                *)
(***************************************************************************)
EXTENDS Integers, Sequences, FiniteSets, SequencesExt

CONSTANTS
    Files,       \* file names
    MaxCalls     \* bound: calls of loadFile and cancelLoadFile

ASSUME LoaderAssumption == MaxCalls \in Nat

Ops == 1..MaxCalls     \* operations, in the order they are created; 0 is none

VARIABLES
    fileTasks,           \* fileLoaderQueue
    stageTasks,          \* stageQueue
    delayed,             \* operations whose rename is tried again in 200 ms
    loadOperationPaths,  \* file -> its operation
    loadOperationQueue,  \* operations that wait for a slot
    currentCount,        \* slots in use, as the code counts them
    state,               \* operation -> FileLoadOperation.state, or "none"
    force,               \* operation -> isForceRequest
    retries,             \* operation -> renameRetryCount
    calls

(* History variables. *)
VARIABLES
    holders,   \* operations that were started and whose end is not checked yet
    file,      \* operation -> the file it loads
    reports,   \* operation -> how often its end was reported
    cancelled, \* operations whose cancel() was called
    broken,    \* operations whose start failed
    unearned   \* slots given back that the operation did not hold

pool  == <<loadOperationPaths, loadOperationQueue, currentCount>>
vars  == <<fileTasks, stageTasks, delayed, pool, state, force, retries, calls,
           file, holders, reports, cancelled, broken, unearned>>

LoadTask(f, urgent) == [kind |-> "load", file |-> f, force |-> urgent]
CancelTask(f)       == [kind |-> "cancel", file |-> f, force |-> FALSE]
CheckTask(op)       == [kind |-> "check", op |-> op]

\* How an operation that starts goes on: it cannot be loaded, its temporary
\* file is complete, or the network has to be asked.
Beginnings == {"bad", "complete", "missing"}

FileTask ==
    [kind : {"load", "cancel"}, file : Files, force : BOOLEAN]
        \cup [kind : {"check"}, op : Ops]

StageTask == [kind : Beginnings \cup {"cancel"}, op : Ops]

States == {"none", "idle", "downloading", "failed", "finished"}

Created == {op \in Ops : state[op] # "none"}

Init ==
    /\ fileTasks = <<>> /\ stageTasks = <<>> /\ delayed = {}
    /\ loadOperationPaths = [f \in Files |-> 0]
    /\ loadOperationQueue = <<>> /\ currentCount = 0
    /\ state = [op \in Ops |-> "none"]
    /\ force = [op \in Ops |-> FALSE]
    /\ retries = [op \in Ops |-> 0]
    /\ calls = 0
    /\ file = [op \in Ops |-> 0]
    /\ holders = {} /\ cancelled = {} /\ broken = {} /\ unearned = 0
    /\ reports = [op \in Ops |-> 0]

-----------------------------------------------------------------------------
(* Callers.                                                                *)

Call(task) ==
    /\ calls < MaxCalls
    /\ calls' = calls + 1
    /\ fileTasks' = Append(fileTasks, task)
    /\ UNCHANGED <<stageTasks, delayed, pool, state, file, force, retries, holders,
                   reports, cancelled, broken, unearned>>

LoadFile(f, urgent) == Call(LoadTask(f, urgent))
CancelLoadFile(f)   == Call(CancelTask(f))

-----------------------------------------------------------------------------
(* FileLoadOperation.start, on fileLoaderQueue.                            *)

\* The delegate's didFinishLoadingFile or didFailedLoadingFile, on top of the
\* tasks that fileLoaderQueue holds.
Report(op, tasks) ==
    /\ fileTasks' = Append(tasks, CheckTask(op))
    /\ reports' = [reports EXCEPT ![op] = @ + 1]

\* `tasks` and `slots` are the tasks and the holders besides this operation.
Start(op, tasks, slots) ==
    /\ holders' = slots \cup {op}
    /\ \/ /\ state' = [state EXCEPT ![op] = "finished"]   \* the file is there
          /\ Report(op, tasks)
          /\ UNCHANGED stageTasks
       \/ /\ state' = [state EXCEPT ![op] = "downloading"]
          /\ \E kind \in Beginnings :
                stageTasks' = Append(stageTasks, [kind |-> kind, op |-> op])
          /\ fileTasks' = tasks
          /\ UNCHANGED reports

-----------------------------------------------------------------------------
(* The tasks of fileLoaderQueue.                                           *)

FirstTask(kind) == fileTasks # <<>> /\ Head(fileTasks).kind = kind

\* Mutant: the counter is compared with <=.
LimitPlusOne(urgent) == IF urgent THEN 4 ELSE 2

Limit(urgent) == IF urgent THEN 3 ELSE 1

\* A request for a file that is being loaded moves its operation to the front
\* of the queue, if the request is urgent and the operation waits there.
LoadAgain ==
    /\ FirstTask("load")
    /\ LET op == loadOperationPaths[Head(fileTasks).file] IN
       /\ op # 0
       /\ IF Head(fileTasks).force /\ Contains(loadOperationQueue, op)
          THEN /\ loadOperationQueue' = <<op>> \o RemoveFirst(loadOperationQueue, op)
               /\ force' = [force EXCEPT ![op] = TRUE]
          ELSE UNCHANGED <<loadOperationQueue, force>>
    /\ fileTasks' = Tail(fileTasks)
    /\ UNCHANGED <<stageTasks, delayed, loadOperationPaths, currentCount, state, file,
                   retries, calls, holders, reports, cancelled, broken, unearned>>

\* Mutant: an operation that has to wait is not entered under its name.
LoadNewUnnamed ==
    /\ FirstTask("load")
    /\ LET t == Head(fileTasks)
           op == Cardinality(Created) + 1
       IN
       /\ loadOperationPaths[t.file] = 0
       /\ file' = [file EXCEPT ![op] = t.file]
       /\ \/ /\ currentCount < Limit(t.force)
             /\ currentCount' = currentCount + 1
             /\ loadOperationPaths' = [loadOperationPaths EXCEPT ![t.file] = op]
             /\ Start(op, Tail(fileTasks), holders)
             /\ UNCHANGED loadOperationQueue
          \/ /\ currentCount >= Limit(t.force)
             /\ loadOperationQueue' = IF t.force THEN <<op>> \o loadOperationQueue
                                      ELSE Append(loadOperationQueue, op)
             /\ state' = [state EXCEPT ![op] = "idle"]
             /\ fileTasks' = Tail(fileTasks)
             /\ UNCHANGED <<loadOperationPaths, currentCount, stageTasks, holders,
                            reports>>
    /\ UNCHANGED <<delayed, force, retries, calls, cancelled, broken, unearned>>

\* The first request creates the operation, and starts it if a slot is free.
\* An urgent one goes to the front of the queue and is not marked urgent.
LoadNew ==
    /\ FirstTask("load")
    /\ LET t == Head(fileTasks)
           op == Cardinality(Created) + 1
       IN
       /\ loadOperationPaths[t.file] = 0
       /\ loadOperationPaths' = [loadOperationPaths EXCEPT ![t.file] = op]
       /\ file' = [file EXCEPT ![op] = t.file]
       /\ \/ /\ currentCount < Limit(t.force)
             /\ currentCount' = currentCount + 1
             /\ Start(op, Tail(fileTasks), holders)
             /\ UNCHANGED loadOperationQueue
          \/ /\ currentCount >= Limit(t.force)
             /\ loadOperationQueue' = IF t.force THEN <<op>> \o loadOperationQueue
                                      ELSE Append(loadOperationQueue, op)
             /\ state' = [state EXCEPT ![op] = "idle"]
             /\ fileTasks' = Tail(fileTasks)
             /\ UNCHANGED <<currentCount, stageTasks, holders, reports>>
    /\ UNCHANGED <<delayed, force, retries, calls, cancelled, broken, unearned>>

\* Mutant: the cancelled operation stays in the queue.
CancelKeeping ==
    /\ FirstTask("cancel")
    /\ LET f == Head(fileTasks).file
           op == loadOperationPaths[f]
       IN
       /\ loadOperationPaths' = [loadOperationPaths EXCEPT ![f] = 0]
       /\ IF op # 0
          THEN /\ stageTasks' = Append(stageTasks, [kind |-> "cancel", op |-> op])
               /\ cancelled' = cancelled \cup {op}
          ELSE UNCHANGED <<stageTasks, cancelled>>
    /\ fileTasks' = Tail(fileTasks)
    /\ UNCHANGED <<delayed, loadOperationQueue, currentCount, state, file, force,
                   retries, calls, holders, reports, broken, unearned>>

Cancel ==
    /\ FirstTask("cancel")
    /\ LET f == Head(fileTasks).file
           op == loadOperationPaths[f]
       IN
       /\ loadOperationPaths' = [loadOperationPaths EXCEPT ![f] = 0]
       /\ IF op # 0
          THEN /\ loadOperationQueue' = RemoveFirst(loadOperationQueue, op)
               /\ stageTasks' = Append(stageTasks, [kind |-> "cancel", op |-> op])
               /\ cancelled' = cancelled \cup {op}
          ELSE UNCHANGED <<loadOperationQueue, stageTasks, cancelled>>
    /\ fileTasks' = Tail(fileTasks)
    /\ UNCHANGED <<delayed, currentCount, state, file, force, retries, calls, holders,
                   reports, broken, unearned>>

\* Mutant: the operation that is started is not counted.
CheckDownloadQueueUncounted ==
    /\ FirstTask("check")
    /\ LET op == Head(fileTasks).op
           left == currentCount - 1
           next == Head(loadOperationQueue)
       IN
       /\ loadOperationPaths' = [loadOperationPaths EXCEPT ![file[op]] = 0]
       /\ unearned' = IF op \in holders THEN unearned ELSE unearned + 1
       /\ \/ /\ loadOperationQueue # <<>> /\ left < Limit(force[next])
             /\ loadOperationQueue' = Tail(loadOperationQueue)
             /\ currentCount' = left
             /\ Start(next, Tail(fileTasks), holders \ {op})
          \/ /\ loadOperationQueue # <<>> => left >= Limit(force[next])
             /\ currentCount' = left
             /\ holders' = holders \ {op}
             /\ fileTasks' = Tail(fileTasks)
             /\ UNCHANGED <<loadOperationQueue, state, stageTasks, reports>>
    /\ UNCHANGED <<delayed, file, force, retries, calls, cancelled, broken>>

\* checkDownloadQueue gives a slot back, whether or not the operation held
\* one, forgets the file by its name, whatever operation loads it by now, and
\* starts at most one operation.
CheckDownloadQueue ==
    /\ FirstTask("check")
    /\ LET op == Head(fileTasks).op
           left == currentCount - 1
           next == Head(loadOperationQueue)
       IN
       /\ loadOperationPaths' = [loadOperationPaths EXCEPT ![file[op]] = 0]
       /\ unearned' = IF op \in holders THEN unearned ELSE unearned + 1
       /\ \/ /\ loadOperationQueue # <<>> /\ left < Limit(force[next])
             /\ loadOperationQueue' = Tail(loadOperationQueue)
             /\ currentCount' = left + 1
             /\ Start(next, Tail(fileTasks), holders \ {op})
          \/ /\ loadOperationQueue # <<>> => left >= Limit(force[next])
             /\ currentCount' = left
             /\ holders' = holders \ {op}
             /\ fileTasks' = Tail(fileTasks)
             /\ UNCHANGED <<loadOperationQueue, state, stageTasks, reports>>
    /\ UNCHANGED <<delayed, file, force, retries, calls, cancelled, broken>>

-----------------------------------------------------------------------------
(* The tasks of stageQueue.                                                *)

FirstStage(kinds) == stageTasks # <<>> /\ Head(stageTasks).kind \in kinds

\* The location is bad or the temporary file cannot be opened; the operation
\* is told to have failed but stays in state downloading.
Fail ==
    /\ FirstStage({"bad"})
    /\ Report(Head(stageTasks).op, fileTasks)
    /\ broken' = broken \cup {Head(stageTasks).op}
    /\ stageTasks' = Tail(stageTasks)
    /\ UNCHANGED <<delayed, pool, state, file, force, retries, calls, holders,
                   cancelled, unearned>>

\* startDownloadRequest: the request was taken out of this code, and nothing
\* ever answers.
Request ==
    /\ FirstStage({"missing"})
    /\ stageTasks' = Tail(stageTasks)
    /\ UNCHANGED <<fileTasks, delayed, pool, state, file, force, retries, calls,
                   holders, reports, cancelled, broken, unearned>>

\* Mutant: one rename too many is tried.
FinishOnceMore(op) ==
    \/ /\ state[op] # "downloading"
       /\ UNCHANGED <<fileTasks, state, retries, reports>>
       /\ delayed' = delayed \ {op}
    \/ /\ state[op] = "downloading"
       /\ retries' = [retries EXCEPT ![op] = @ + 1]
       /\ retries[op] + 1 <= 3
       /\ delayed' = delayed \cup {op}
       /\ UNCHANGED <<fileTasks, state, reports>>
    \/ /\ state[op] = "downloading"
       /\ state' = [state EXCEPT ![op] = "finished"]
       /\ Report(op, fileTasks)
       /\ delayed' = delayed \ {op}
       /\ UNCHANGED retries

\* Mutant: the end is reported although the rename is tried again.
FinishWithoutReturn(op) ==
    \/ /\ state[op] # "downloading"
       /\ UNCHANGED <<fileTasks, state, retries, reports>>
       /\ delayed' = delayed \ {op}
    \/ /\ state[op] = "downloading"
       /\ retries' = [retries EXCEPT ![op] = @ + 1]
       /\ retries[op] + 1 < 3
       /\ delayed' = delayed \cup {op}
       /\ Report(op, fileTasks)
       /\ UNCHANGED state
    \/ /\ state[op] = "downloading"
       /\ state' = [state EXCEPT ![op] = "finished"]
       /\ Report(op, fileTasks)
       /\ delayed' = delayed \ {op}
       /\ UNCHANGED retries

\* onFinishLoadingFile renames the temporary file, tries again twice, and
\* makes do with the temporary file then.
Finish(op) ==
    \/ /\ state[op] # "downloading"
       /\ UNCHANGED <<fileTasks, state, retries, reports>>
       /\ delayed' = delayed \ {op}
    \/ /\ state[op] = "downloading"
       /\ retries' = [retries EXCEPT ![op] = @ + 1]
       /\ retries[op] + 1 < 3
       /\ delayed' = delayed \cup {op}
       /\ UNCHANGED <<fileTasks, state, reports>>
    \/ /\ state[op] = "downloading"
       /\ state' = [state EXCEPT ![op] = "finished"]
       /\ Report(op, fileTasks)
       /\ delayed' = delayed \ {op}
       /\ UNCHANGED retries

FinishStage ==
    /\ FirstStage({"complete"})
    /\ Finish(Head(stageTasks).op)
    /\ stageTasks' = Tail(stageTasks)
    /\ UNCHANGED <<pool, file, force, calls, holders, cancelled, broken, unearned>>

RetryStage(op) ==
    /\ op \in delayed
    /\ Finish(op)
    /\ UNCHANGED <<stageTasks, pool, file, force, calls, holders, cancelled, broken,
                   unearned>>

\* Mutant: the state is not looked at.
CancelStageAlways ==
    /\ FirstStage({"cancel"})
    /\ LET op == Head(stageTasks).op IN
       IF state[op] = "failed"
       THEN UNCHANGED <<fileTasks, state, reports>>
       ELSE /\ state' = [state EXCEPT ![op] = "failed"]
            /\ Report(op, fileTasks)
    /\ stageTasks' = Tail(stageTasks)
    /\ UNCHANGED <<delayed, pool, file, force, retries, calls, holders, cancelled,
                   broken, unearned>>

\* Mutant: only an operation that was started is cancelled.
CancelStageStarted ==
    /\ FirstStage({"cancel"})
    /\ LET op == Head(stageTasks).op IN
       IF state[op] # "downloading"
       THEN UNCHANGED <<fileTasks, state, reports>>
       ELSE /\ state' = [state EXCEPT ![op] = "failed"]
            /\ Report(op, fileTasks)
    /\ stageTasks' = Tail(stageTasks)
    /\ UNCHANGED <<delayed, pool, file, force, retries, calls, holders, cancelled,
                   broken, unearned>>

CancelStage ==
    /\ FirstStage({"cancel"})
    /\ LET op == Head(stageTasks).op IN
       IF state[op] \in {"finished", "failed"}
       THEN UNCHANGED <<fileTasks, state, reports>>
       ELSE /\ state' = [state EXCEPT ![op] = "failed"]
            /\ Report(op, fileTasks)
    /\ stageTasks' = Tail(stageTasks)
    /\ UNCHANGED <<delayed, pool, file, force, retries, calls, holders, cancelled,
                   broken, unearned>>

-----------------------------------------------------------------------------
Callers ==
    \E f \in Files : CancelLoadFile(f) \/ \E urgent \in BOOLEAN : LoadFile(f, urgent)

FileLoaderQueue == LoadAgain \/ LoadNew \/ Cancel \/ CheckDownloadQueue

StageQueue ==
    Fail \/ Request \/ FinishStage \/ CancelStage \/ \E op \in Ops : RetryStage(op)

Next == Callers \/ FileLoaderQueue \/ StageQueue

Spec == Init /\ [][Next]_vars

\* Both threads are scheduled.
FairSpec == Spec /\ WF_vars(FileLoaderQueue) /\ WF_vars(StageQueue)

-----------------------------------------------------------------------------
(* Properties.                                                             *)

TypeOK ==
    /\ fileTasks \in Seq(FileTask)
    /\ stageTasks \in Seq(StageTask)
    /\ delayed \in SUBSET Ops
    /\ loadOperationPaths \in [Files -> Ops \cup {0}]
    /\ loadOperationQueue \in Seq(Ops)
    /\ currentCount \in Int
    /\ state \in [Ops -> States]
    /\ file \in [Ops -> Files \cup {0}] /\ \A op \in Created : file[op] \in Files
    /\ force \in [Ops -> BOOLEAN] /\ retries \in [Ops -> 0..2]
    /\ calls \in 0..MaxCalls
    /\ holders \in SUBSET Ops /\ cancelled \in SUBSET Ops /\ broken \in SUBSET Ops
    /\ reports \in [Ops -> Nat] /\ unearned \in Nat

\* The counter is the number of operations that were started and whose end is
\* not processed yet, less one for every slot that was given back by an
\* operation that held none: nothing else makes it drift.
SlotsAreCounted == currentCount = Cardinality(holders) - unearned

\* No more than three operations run at a time, and one more for every slot
\* that was given back by an operation that held none ...
AtMostThree == Cardinality(holders) <= 3 + unearned

\* ... which costs one cancelled operation each: one that waited, or whose
\* start had failed already.
UnearnedNeedsCancel == unearned <= Cardinality(cancelled)

\* When an operation waits, some operation holds the slot whose end starts
\* it; and it is waiting once, and neither cancelled nor started.
WaitingIsWokenUp ==
    /\ loadOperationQueue # <<>> => currentCount >= 1
    /\ IsInjective(loadOperationQueue)
    /\ \A i \in DOMAIN loadOperationQueue : state[loadOperationQueue[i]] = "idle"

\* The end of an operation is reported once, unless its start failed: then a
\* cancellation that overtakes the processing of the failure reports it again.
ReportedOnce ==
    \A op \in Ops : op \notin cancelled \cap broken => reports[op] <= 1

\* Two operations that have not ended load the same file only if a load of it
\* was cancelled: the end of the cancelled one makes the pool forget its
\* successor, so that a third request starts a rival.
OnePerFile ==
    \A a, b \in Created :
        file[a] = file[b] /\ a # b /\ reports[a] = 0 /\ reports[b] = 0
            => \E c \in cancelled : file[c] = file[a]

\* An operation that is cancelled is reported to have ended, whatever it was
\* doing and however its cancellation, its start and its renames interleave.
CancelledEnds ==
    \A op \in Ops :
        (op \in cancelled)
            ~> (state[op] \in {"failed", "finished"} /\ reports[op] > 0)

=============================================================================
