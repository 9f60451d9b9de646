--------------------------- MODULE FileLoaderProofs ---------------------------
(***************************************************************************)
(* The slots and the ends of the download pool for every set of files and  *)
(* every number of calls.                                                  *)
(*                                                                         *)
(* The inductive invariant keeps the three places an operation can be in   *)
(* apart: it waits in the queue, or it holds a slot, or it ended; only     *)
(* what left the queue has tasks on stageQueue.                            *)
(*                                                                         *)
(* A second invariant keeps an account for every operation: the reports of *)
(* its end are its failed start and its end, and those not processed yet   *)
(* are bounded by them, so that only cancelled operations give back a slot *)
(* twice; and the table of names knows every operation that is active.     *)
(***************************************************************************)
EXTENDS FileLoader, ListLemmas

Loads(tasks) == {i \in DOMAIN tasks : tasks[i].kind = "load"}

\* Operations are numbered in the order of their creation, and there is a call
\* left over for each request that waits in fileLoaderQueue.
CreatedInOrder ==
    /\ Created = 1..Cardinality(Created)
    /\ Cardinality(Created) + Cardinality(Loads(fileTasks)) <= calls

\* The table of names has operations that were created.
EnteredAreCreated == \A f \in Files : loadOperationPaths[f] \in Created \cup {0}

\* An operation waits once, and was not started or cancelled.
WaitingIsIdle ==
    /\ IsInjective(loadOperationQueue)
    /\ \A op \in ToSet(loadOperationQueue) : state[op] = "idle"

\* The counter is at most three, and not zero while an operation waits.
CountIsInBounds ==
    /\ currentCount <= 3
    /\ loadOperationQueue # <<>> => currentCount >= 1

Staged(tasks) == {tasks[i].op : i \in DOMAIN tasks}

\* An operation that stageQueue works for has left the queue of the waiting.
StagedIsNotWaiting ==
    Staged(stageTasks) \subseteq Created \ ToSet(loadOperationQueue)

\* An operation in a slot was started.
HoldersStarted ==
    \A op \in holders : state[op] \in {"downloading", "failed", "finished"}

IInv ==
    /\ TypeOK
    /\ CreatedInOrder
    /\ EnteredAreCreated
    /\ WaitingIsIdle
    /\ CountIsInBounds
    /\ StagedIsNotWaiting
    /\ HoldersStarted
    /\ SlotsAreCounted

-----------------------------------------------------------------------------
(* Requests that wait in fileLoaderQueue.                                  *)

\* A list of tasks has finitely many requests, and the empty one has none.
LEMMA LoadsFinite ==
    ASSUME NEW s \in Seq(FileTask)
    PROVE  /\ IsFiniteSet(Loads(s)) /\ Cardinality(Loads(s)) \in Nat
           /\ s = <<>> => Cardinality(Loads(s)) = 0
<1>1. Loads(s) \subseteq 1..Len(s) /\ IsFiniteSet(1..Len(s))
  BY FS_Interval DEF Loads
<1>2. IsFiniteSet(Loads(s))
  BY <1>1, FS_Subset
<1>3. s = <<>> => Loads(s) = {}
  BY DEF Loads
<1>4. QED
  BY <1>2, <1>3, FS_CardinalityType, FS_EmptySet

\* A new task adds a request if it is one.
LEMMA LoadsOfAppend ==
    ASSUME NEW s \in Seq(FileTask), NEW t \in FileTask
    PROVE  /\ Append(s, t) \in Seq(FileTask)
           /\ Cardinality(Loads(Append(s, t)))
                = Cardinality(Loads(s)) + IF t.kind = "load" THEN 1 ELSE 0
<1> DEFINE u == Append(s, t)
<1>1. /\ u \in Seq(FileTask) /\ DOMAIN u = 1..(Len(s) + 1) /\ Len(s) \in Nat
      /\ DOMAIN s = 1..Len(s)
      /\ \A i \in 1..Len(s) : u[i] = s[i]
      /\ u[Len(s) + 1] = t
  OBVIOUS
<1> HIDE DEF u
<1>2. \A i \in 1..(Len(s) + 1) : i \in 1..Len(s) \/ i = Len(s) + 1
  BY <1>1
<1>3. Loads(u) = Loads(s) \cup IF t.kind = "load" THEN {Len(s) + 1} ELSE {}
  BY <1>1, <1>2 DEF Loads
<1>4. Len(s) + 1 \notin Loads(s)
  BY <1>1 DEF Loads
<1>5. IsFiniteSet(Loads(s)) /\ Cardinality(Loads(s)) \in Nat
  BY LoadsFinite
<1>6. Cardinality(Loads(s) \cup {Len(s) + 1}) = Cardinality(Loads(s)) + 1
  BY <1>4, <1>5, FS_AddElement
<1>7. Cardinality(Loads(u)) = Cardinality(Loads(s)) + IF t.kind = "load" THEN 1 ELSE 0
  <2>1. CASE t.kind = "load"
    BY <1>3, <1>6, <2>1
  <2>2. CASE t.kind # "load"
    <3>1. Loads(u) = Loads(s)
      BY <1>3, <2>2
    <3>2. QED
      BY <1>5, <2>2, <3>1
  <2>3. QED
    BY <2>1, <2>2
<1>8. QED
  BY <1>1, <1>7 DEF u

\* The first task takes a request away if it is one.
LEMMA LoadsOfTail ==
    ASSUME NEW s \in Seq(FileTask), s # <<>>
    PROVE  /\ Head(s) \in FileTask /\ Tail(s) \in Seq(FileTask)
           /\ Cardinality(Loads(Tail(s)))
                = Cardinality(Loads(s)) - IF Head(s).kind = "load" THEN 1 ELSE 0
<1> DEFINE shift == [i \in Loads(Tail(s)) |-> i + 1]
<1>1. /\ Head(s) \in FileTask /\ Tail(s) \in Seq(FileTask) /\ Len(Tail(s)) = Len(s) - 1
      /\ \A i \in 1..Len(Tail(s)) : Tail(s)[i] = s[i + 1]
      /\ Len(s) \in Nat \ {0} /\ Head(s) = s[1]
  BY HeadTailProperties, EmptySeq
<1>2. /\ Loads(Tail(s)) = {i \in 1..(Len(s) - 1) : s[i + 1].kind = "load"}
      /\ Loads(s) \ {1} = {i \in 2..Len(s) : s[i].kind = "load"}
      /\ 1 \in Loads(s) <=> Head(s).kind = "load"
  BY <1>1 DEF Loads
<1>3. shift \in Bijection(Loads(Tail(s)), Loads(s) \ {1})
  <2>1. shift \in [Loads(Tail(s)) -> Loads(s) \ {1}]
    BY <1>1, <1>2
  <2>2. \A i, j \in Loads(Tail(s)) : shift[i] = shift[j] => i = j
    BY <1>1, <1>2
  <2>3. \A j \in Loads(s) \ {1} : \E i \in Loads(Tail(s)) : shift[i] = j
    <3> SUFFICES ASSUME NEW j \in Loads(s) \ {1}
                 PROVE  \E i \in Loads(Tail(s)) : shift[i] = j
      OBVIOUS
    <3>1. j \in 2..Len(s) /\ s[j].kind = "load"
      BY <1>2
    <3>2. j - 1 \in 1..(Len(s) - 1) /\ (j - 1) + 1 = j
      BY <1>1, <3>1
    <3>3. j - 1 \in Loads(Tail(s))
      BY <1>2, <3>1, <3>2
    <3>4. QED
      BY <3>2, <3>3
  <2>4. QED
    BY <2>1, <2>2, <2>3 DEF Bijection, Injection, Surjection, IsInjective
<1>4. /\ IsFiniteSet(Loads(s)) /\ Cardinality(Loads(s)) \in Nat
      /\ IsFiniteSet(Loads(Tail(s)))
  BY <1>1, LoadsFinite
<1>5. Cardinality(Loads(s) \ {1}) = Cardinality(Loads(s)) - IF 1 \in Loads(s) THEN 1 ELSE 0
  <2>1. CASE 1 \in Loads(s)
    BY <1>4, <2>1, FS_RemoveElement
  <2>2. CASE 1 \notin Loads(s)
    <3>1. Loads(s) \ {1} = Loads(s)
      BY <2>2
    <3>2. Cardinality(Loads(s) \ {1}) = Cardinality(Loads(s))
      BY <3>1, Zenon
    <3>3. QED
      BY <1>4, <2>2, <3>2
  <2>3. QED
    BY <2>1, <2>2
<1>6. ExistsBijection(Loads(Tail(s)), Loads(s) \ {1})
  BY <1>3 DEF ExistsBijection
<1>7. Cardinality(Loads(s) \ {1}) = Cardinality(Loads(Tail(s)))
  BY <1>4, <1>6, FS_Bijection
<1>8. QED
  BY <1>1, <1>2, <1>5, <1>7

\* The operations of a list of stageQueue's tasks.
LEMMA StagedOfAppend ==
    ASSUME NEW s \in Seq(StageTask), NEW t \in StageTask
    PROVE  /\ Append(s, t) \in Seq(StageTask)
           /\ Staged(Append(s, t)) = Staged(s) \cup {t.op}
<1> DEFINE u == Append(s, t)
<1>1. /\ u \in Seq(StageTask) /\ DOMAIN u = 1..(Len(s) + 1) /\ Len(s) \in Nat
      /\ DOMAIN s = 1..Len(s)
      /\ \A i \in 1..Len(s) : u[i] = s[i]
      /\ u[Len(s) + 1] = t
  OBVIOUS
<1> HIDE DEF u
<1>2. \A i \in 1..(Len(s) + 1) : i \in 1..Len(s) \/ i = Len(s) + 1
  BY <1>1
<1>3. \A i \in 1..Len(s) : i \in 1..(Len(s) + 1)
  BY <1>1
<1>4. Len(s) + 1 \in 1..(Len(s) + 1)
  BY <1>1
<1>5. Staged(u) = Staged(s) \cup {t.op}
  BY <1>1, <1>2, <1>3, <1>4 DEF Staged
<1>6. QED
  BY <1>1, <1>5 DEF u

\* The operations that are left when the first task was taken.
LEMMA StagedOfTail ==
    ASSUME NEW s \in Seq(StageTask), s # <<>>
    PROVE  /\ Head(s) \in StageTask /\ Tail(s) \in Seq(StageTask)
           /\ Head(s).op \in Staged(s) /\ Staged(Tail(s)) \subseteq Staged(s)
<1>1. /\ Head(s) \in StageTask /\ Tail(s) \in Seq(StageTask) /\ Len(Tail(s)) = Len(s) - 1
      /\ \A i \in 1..Len(Tail(s)) : Tail(s)[i] = s[i + 1]
      /\ Len(s) \in Nat \ {0} /\ Head(s) = s[1]
  BY HeadTailProperties, EmptySeq
<1>2. 1 \in DOMAIN s /\ \A i \in 1..Len(Tail(s)) : i + 1 \in DOMAIN s
  BY <1>1
<1>3. DOMAIN Tail(s) = 1..Len(Tail(s))
  BY <1>1
<1>4. QED
  BY <1>1, <1>2, <1>3 DEF Staged

\* The first task of fileLoaderQueue is taken.
LEMMA FirstTaskTaken ==
    ASSUME TypeOK, fileTasks # <<>>
    PROVE  /\ Head(fileTasks) \in FileTask /\ Tail(fileTasks) \in Seq(FileTask)
           /\ Cardinality(Loads(fileTasks)) \in Nat
           /\ Cardinality(Loads(Tail(fileTasks))) \in Nat
           /\ Cardinality(Loads(Tail(fileTasks))) <= Cardinality(Loads(fileTasks))
<1>1. fileTasks \in Seq(FileTask)
  BY DEF TypeOK
<1>2. /\ Head(fileTasks) \in FileTask /\ Tail(fileTasks) \in Seq(FileTask)
      /\ Cardinality(Loads(Tail(fileTasks)))
            = Cardinality(Loads(fileTasks)) - IF Head(fileTasks).kind = "load" THEN 1 ELSE 0
  BY <1>1, LoadsOfTail
<1>3. Cardinality(Loads(fileTasks)) \in Nat /\ Cardinality(Loads(Tail(fileTasks))) \in Nat
  BY <1>1, <1>2, LoadsFinite
<1>4. QED
  BY <1>2, <1>3

-----------------------------------------------------------------------------
(* The parts of the actions.                                               *)

\* A report adds a task that is no request.
LEMMA ReportEffect ==
    ASSUME reports \in [Ops -> Nat], NEW tasks \in Seq(FileTask), NEW op \in Ops,
           Report(op, tasks)
    PROVE  /\ fileTasks' \in Seq(FileTask)
           /\ Cardinality(Loads(fileTasks')) = Cardinality(Loads(tasks))
           /\ reports' \in [Ops -> Nat]
<1>1. CheckTask(op) \in FileTask /\ CheckTask(op).kind # "load"
  BY DEF CheckTask, FileTask
<1>2. /\ Append(tasks, CheckTask(op)) \in Seq(FileTask)
      /\ Cardinality(Loads(Append(tasks, CheckTask(op)))) = Cardinality(Loads(tasks)) + 0
  BY <1>1, LoadsOfAppend
<1>3. Cardinality(Loads(tasks)) \in Nat
  BY LoadsFinite
<1>4. reports' \in [Ops -> Nat]
  BY DEF Report
<1>5. QED
  BY <1>2, <1>3, <1>4 DEF Report

\* An operation that starts is put in a slot and gets at most one task.
LEMMA StartEffect ==
    ASSUME TypeOK, NEW tasks \in Seq(FileTask), NEW op \in Ops, NEW slots,
           Start(op, tasks, slots)
    PROVE  /\ fileTasks' \in Seq(FileTask)
           /\ Cardinality(Loads(fileTasks')) = Cardinality(Loads(tasks))
           /\ reports' \in [Ops -> Nat]
           /\ stageTasks' \in Seq(StageTask)
           /\ Staged(stageTasks') \subseteq Staged(stageTasks) \cup {op}
           /\ holders' = slots \cup {op}
           /\ state' = [state EXCEPT ![op] = state'[op]]
           /\ state'[op] \in {"downloading", "finished"}
<1>1. CASE Report(op, tasks) /\ UNCHANGED stageTasks
           /\ state' = [state EXCEPT ![op] = "finished"]
  <2>1. /\ fileTasks' \in Seq(FileTask) /\ reports' \in [Ops -> Nat]
        /\ Cardinality(Loads(fileTasks')) = Cardinality(Loads(tasks))
    BY <1>1, ReportEffect DEF TypeOK
  <2>2. QED
    BY <1>1, <2>1 DEF TypeOK, Start
<1>2. CASE /\ fileTasks' = tasks /\ UNCHANGED reports
           /\ state' = [state EXCEPT ![op] = "downloading"]
           /\ \E kind \in Beginnings :
                 stageTasks' = Append(stageTasks, [kind |-> kind, op |-> op])
  <2>1. PICK kind \in Beginnings :
            stageTasks' = Append(stageTasks, [kind |-> kind, op |-> op])
    BY <1>2
  <2>2. [kind |-> kind, op |-> op] \in StageTask
    BY DEF StageTask
  <2>3. stageTasks' \in Seq(StageTask) /\ Staged(stageTasks') = Staged(stageTasks) \cup {op}
    BY <2>1, <2>2, StagedOfAppend DEF TypeOK
  <2>4. QED
    BY <1>2, <2>3 DEF TypeOK, Start
<1>3. QED
  BY <1>1, <1>2 DEF Start

\* There are finitely many operations.
LEMMA CreatedFinite == IsFiniteSet(Created) /\ Cardinality(Created) \in Nat
<1>1. Created \subseteq 1..MaxCalls /\ IsFiniteSet(1..MaxCalls)
  BY LoaderAssumption, FS_Interval DEF Created, Ops
<1>2. QED
  BY <1>1, FS_Subset, FS_CardinalityType

\* And finitely many in slots.
LEMMA HoldersFinite ==
    ASSUME IInv
    PROVE  IsFiniteSet(holders) /\ Cardinality(holders) \in Nat
<1>1. holders \subseteq 1..MaxCalls /\ IsFiniteSet(1..MaxCalls)
  BY LoaderAssumption, FS_Interval DEF IInv, TypeOK, Ops
<1>2. QED
  BY <1>1, FS_Subset, FS_CardinalityType

\* A new operation gets the next number.
LEMMA NextNumber ==
    ASSUME IInv, FirstTask("load"), NEW op, op = Cardinality(Created) + 1
    PROVE  /\ op \in Ops /\ op \notin Created /\ state[op] = "none"
           /\ op \notin holders /\ op \notin ToSet(loadOperationQueue)
           /\ Created \cup {op} = 1..op /\ Cardinality(Created \cup {op}) = op
           /\ op + Cardinality(Loads(Tail(fileTasks))) <= calls
           /\ Head(fileTasks).file \in Files
           /\ Tail(fileTasks) \in Seq(FileTask)
<1>1. fileTasks \in Seq(FileTask) /\ fileTasks # <<>> /\ Head(fileTasks).kind = "load"
  BY DEF IInv, TypeOK, FirstTask
<1>2. /\ Cardinality(Loads(Tail(fileTasks))) = Cardinality(Loads(fileTasks)) - 1
      /\ Head(fileTasks) \in FileTask /\ Tail(fileTasks) \in Seq(FileTask)
  BY <1>1, LoadsOfTail
<1>3. Cardinality(Loads(Tail(fileTasks))) \in Nat /\ Cardinality(Loads(fileTasks)) \in Nat
  BY <1>1, <1>2, LoadsFinite
<1>4. IsFiniteSet(Created) /\ Cardinality(Created) \in Nat
  BY CreatedFinite
<1>5. Created = 1..Cardinality(Created) /\ Cardinality(Created) + Cardinality(Loads(fileTasks)) <= calls
  BY DEF IInv, CreatedInOrder
<1>6. op \in Ops /\ op + Cardinality(Loads(Tail(fileTasks))) <= calls
  <2>1. calls \in Nat /\ calls <= MaxCalls
    BY LoaderAssumption DEF IInv, TypeOK
  <2>2. op + Cardinality(Loads(Tail(fileTasks))) <= calls /\ op \in Nat \ {0}
    BY <1>2, <1>3, <1>4, <1>5
  <2>3. op \in 1..MaxCalls
    BY <1>3, <2>1, <2>2, LoaderAssumption
  <2>4. QED
    BY <2>2, <2>3 DEF Ops
<1>7. op \notin Created /\ Created \cup {op} = 1..op
  BY <1>4, <1>5
<1>8. Cardinality(Created \cup {op}) = op
  BY <1>4, <1>7, FS_AddElement
<1>9. state[op] = "none"
  BY <1>6, <1>7 DEF Created
<1>10. op \notin holders /\ op \notin ToSet(loadOperationQueue)
  BY <1>9 DEF IInv, HoldersStarted, WaitingIsIdle
<1>11. Head(fileTasks).file \in Files
  BY <1>1, <1>2 DEF FileTask
<1>12. QED
  BY <1>2, <1>6, <1>7, <1>8, <1>9, <1>10, <1>11

\* An operation that is entered in the table of states is created, and no
\* other is.
LEMMA CreatedAfter ==
    ASSUME state \in [Ops -> States], NEW op \in Ops,
           state' = [state EXCEPT ![op] = state'[op]], state'[op] \in States \ {"none"}
    PROVE  /\ state' \in [Ops -> States]
           /\ Created' = Created \cup {op}
           /\ \A p \in Ops \ {op} : state'[p] = state[p]
<1>1. \A p \in Ops \ {op} : state'[p] = state[p]
  OBVIOUS
<1>2. state' \in [Ops -> States]
  OBVIOUS
<1>3. Created' = Created \cup {op}
  BY <1>1 DEF Created
<1>4. QED
  BY <1>1, <1>2, <1>3

-----------------------------------------------------------------------------
(* The invariant.                                                          *)

LEMMA InitIInv == Init => IInv
<1> SUFFICES ASSUME Init
             PROVE  IInv
  OBVIOUS
<1>1. Created = {}
  BY DEF Init, Created
<1>2. fileTasks = <<>> /\ fileTasks \in Seq(FileTask) /\ Cardinality(Loads(fileTasks)) = 0
  <2>1. fileTasks = <<>> /\ fileTasks \in Seq(FileTask)
    BY DEF Init
  <2>2. QED
    BY <2>1, LoadsFinite
<1>3. TypeOK
  BY <1>1, <1>2, LoaderAssumption DEF Init, TypeOK, Ops, States
<1>4. CreatedInOrder
  BY <1>1, <1>2, FS_EmptySet DEF CreatedInOrder, Init
<1>5. WaitingIsIdle
  BY DEF WaitingIsIdle, Init, IsInjective, ToSet
<1>6. CountIsInBounds
  BY DEF CountIsInBounds, Init
<1>7. StagedIsNotWaiting
  BY DEF StagedIsNotWaiting, Staged, Init
<1>8. HoldersStarted
  BY DEF HoldersStarted, Init
<1>9. SlotsAreCounted
  BY FS_EmptySet DEF SlotsAreCounted, Init
<1>10. EnteredAreCreated
  BY DEF EnteredAreCreated, Init
<1>11. QED
  BY <1>3, <1>4, <1>5, <1>6, <1>7, <1>8, <1>9, <1>10 DEF IInv

\* A call adds a task, and uses up one of the calls.
LEMMA CallKeeps ==
    ASSUME IInv, NEW task \in FileTask, Call(task)
    PROVE  IInv'
<1>1. /\ fileTasks' \in Seq(FileTask)
      /\ Cardinality(Loads(fileTasks')) <= Cardinality(Loads(fileTasks)) + 1
      /\ Cardinality(Loads(fileTasks)) \in Nat /\ Cardinality(Loads(fileTasks')) \in Nat
  <2>1. fileTasks \in Seq(FileTask) /\ fileTasks' = Append(fileTasks, task)
    BY DEF IInv, TypeOK, Call
  <2>2. QED
    BY <2>1, LoadsOfAppend, LoadsFinite
<1>2. Created' = Created
  BY DEF Call, Created
<1>3. TypeOK'
  <2>1. calls' \in 0..MaxCalls
    BY LoaderAssumption DEF IInv, TypeOK, Call
  <2>2. QED
    BY <1>1, <1>2, <2>1 DEF IInv, TypeOK, Call, pool
<1>4. CreatedInOrder'
  <2>1. Cardinality(Created) \in Nat
    BY CreatedFinite
  <2>2. calls \in Nat /\ calls' = calls + 1
    BY LoaderAssumption DEF IInv, TypeOK, Call
  <2>3. Cardinality(Created) + Cardinality(Loads(fileTasks)) <= calls
    BY DEF IInv, CreatedInOrder
  <2>4. Cardinality(Created) + Cardinality(Loads(fileTasks')) <= calls'
    BY <1>1, <2>1, <2>2, <2>3
  <2>5. QED
    BY <1>2, <2>4 DEF IInv, CreatedInOrder
<1>5. /\ EnteredAreCreated' /\ WaitingIsIdle' /\ CountIsInBounds' /\ StagedIsNotWaiting'
      /\ HoldersStarted' /\ SlotsAreCounted'
  BY <1>2 DEF IInv, Call, pool, EnteredAreCreated, WaitingIsIdle, CountIsInBounds,
              StagedIsNotWaiting, HoldersStarted, SlotsAreCounted
<1>6. QED
  BY <1>3, <1>4, <1>5 DEF IInv

\* A repeated request at most moves an operation within the queue.
LEMMA LoadAgainKeeps ==
    ASSUME IInv, LoadAgain
    PROVE  IInv'
<1> DEFINE op == loadOperationPaths[Head(fileTasks).file]
<1>1. /\ fileTasks' \in Seq(FileTask)
      /\ Cardinality(Loads(fileTasks')) <= Cardinality(Loads(fileTasks))
      /\ Cardinality(Loads(fileTasks)) \in Nat /\ Cardinality(Loads(fileTasks')) \in Nat
  <2>1. TypeOK /\ fileTasks # <<>> /\ fileTasks' = Tail(fileTasks)
    BY DEF IInv, LoadAgain, FirstTask
  <2>2. QED
    BY <2>1, FirstTaskTaken
<1>2. Created' = Created
  BY DEF LoadAgain, Created
<1>3. /\ loadOperationQueue' \in Seq(Ops) /\ IsInjective(loadOperationQueue')
      /\ ToSet(loadOperationQueue') = ToSet(loadOperationQueue)
      /\ loadOperationQueue' # <<>> => loadOperationQueue # <<>>
      /\ force' \in [Ops -> BOOLEAN]
  <2>1. loadOperationQueue \in Seq(Ops) /\ IsInjective(loadOperationQueue) /\ force \in [Ops -> BOOLEAN]
    BY DEF IInv, TypeOK, WaitingIsIdle
  <2>2. CASE Head(fileTasks).force /\ Contains(loadOperationQueue, op)
    <3>1. /\ loadOperationQueue' = <<op>> \o RemoveFirst(loadOperationQueue, op)
          /\ force' = [force EXCEPT ![op] = TRUE]
      BY <2>2 DEF LoadAgain
    <3>2. op \in ToSet(loadOperationQueue)
      BY <2>2, ContainsToSet
    <3>3. op \in Ops /\ loadOperationQueue # <<>>
      BY <2>1, <3>2 DEF ToSet
    <3>4. /\ RemoveFirst(loadOperationQueue, op) \in Seq(Ops)
          /\ IsInjective(RemoveFirst(loadOperationQueue, op))
          /\ ToSet(RemoveFirst(loadOperationQueue, op)) = ToSet(loadOperationQueue) \ {op}
      BY <2>1, RemoveFirstOfDistinct
    <3>5. op \notin ToSet(RemoveFirst(loadOperationQueue, op))
      BY <3>4
    <3> HIDE DEF op
    <3>6. /\ loadOperationQueue' \in Seq(Ops) /\ IsInjective(loadOperationQueue')
          /\ ToSet(loadOperationQueue') = (ToSet(loadOperationQueue) \ {op}) \cup {op}
      BY <3>1, <3>3, <3>4, <3>5, PrependToDistinct
    <3>7. QED
      BY <2>1, <3>1, <3>2, <3>3, <3>6
  <2>3. CASE ~(Head(fileTasks).force /\ Contains(loadOperationQueue, op))
    BY <2>1, <2>3 DEF LoadAgain
  <2>4. QED
    BY <2>2, <2>3
<1>4. TypeOK'
  BY <1>1, <1>2, <1>3 DEF IInv, TypeOK, LoadAgain
<1>5. CreatedInOrder'
  BY <1>1, <1>2, CreatedFinite, LoaderAssumption DEF IInv, TypeOK, CreatedInOrder, LoadAgain
<1>6. /\ EnteredAreCreated' /\ WaitingIsIdle' /\ CountIsInBounds' /\ StagedIsNotWaiting'
      /\ HoldersStarted' /\ SlotsAreCounted'
  BY <1>2, <1>3 DEF IInv, LoadAgain, EnteredAreCreated, WaitingIsIdle, CountIsInBounds,
                    StagedIsNotWaiting, HoldersStarted, SlotsAreCounted
<1>7. QED
  BY <1>4, <1>5, <1>6 DEF IInv

\* A first request creates an operation that starts or waits.
LEMMA LoadNewKeeps ==
    ASSUME IInv, LoadNew
    PROVE  IInv'
<1> DEFINE op == Cardinality(Created) + 1
           f == Head(fileTasks).file
<1>1. /\ op \in Ops /\ op \notin Created /\ state[op] = "none"
      /\ op \notin holders /\ op \notin ToSet(loadOperationQueue)
      /\ Created \cup {op} = 1..op /\ Cardinality(Created \cup {op}) = op
      /\ op + Cardinality(Loads(Tail(fileTasks))) <= calls
      /\ f \in Files
      /\ Tail(fileTasks) \in Seq(FileTask)
  BY NextNumber DEF LoadNew
<1>2. /\ loadOperationPaths' = [loadOperationPaths EXCEPT ![f] = op]
      /\ file' = [file EXCEPT ![op] = f]
      /\ UNCHANGED <<delayed, force, retries, calls, cancelled, broken, unearned>>
      /\ \/ /\ currentCount < Limit(Head(fileTasks).force)
            /\ currentCount' = currentCount + 1
            /\ Start(op, Tail(fileTasks), holders)
            /\ UNCHANGED loadOperationQueue
         \/ /\ currentCount >= Limit(Head(fileTasks).force)
            /\ loadOperationQueue' = IF Head(fileTasks).force THEN <<op>> \o loadOperationQueue
                                     ELSE Append(loadOperationQueue, op)
            /\ state' = [state EXCEPT ![op] = "idle"]
            /\ fileTasks' = Tail(fileTasks)
            /\ UNCHANGED <<currentCount, stageTasks, holders, reports>>
  BY DEF LoadNew
<1> HIDE DEF op, f
<1>3. TypeOK /\ loadOperationQueue \in Seq(Ops) /\ IsInjective(loadOperationQueue)
      /\ state \in [Ops -> States] /\ currentCount \in Int
  BY DEF IInv, TypeOK, WaitingIsIdle
<1>4. Limit(Head(fileTasks).force) \in 1..3
  BY DEF Limit
<1>5. /\ fileTasks' \in Seq(FileTask)
      /\ Cardinality(Loads(fileTasks')) = Cardinality(Loads(Tail(fileTasks)))
      /\ reports' \in [Ops -> Nat]
      /\ stageTasks' \in Seq(StageTask)
      /\ state' = [state EXCEPT ![op] = state'[op]] /\ state'[op] \in States \ {"none"}
      /\ currentCount' \in Int
  <2>1. CASE Start(op, Tail(fileTasks), holders) /\ currentCount' = currentCount + 1
    <3>1. /\ fileTasks' \in Seq(FileTask)
          /\ Cardinality(Loads(fileTasks')) = Cardinality(Loads(Tail(fileTasks)))
          /\ reports' \in [Ops -> Nat]
          /\ stageTasks' \in Seq(StageTask)
          /\ state' = [state EXCEPT ![op] = state'[op]]
          /\ state'[op] \in {"downloading", "finished"}
      BY <1>1, <1>3, <2>1, StartEffect
    <3>2. currentCount' \in Int
      BY <1>3, <2>1
    <3>3. QED
      BY <3>1, <3>2 DEF States
  <2>2. CASE /\ state' = [state EXCEPT ![op] = "idle"]
             /\ fileTasks' = Tail(fileTasks)
             /\ UNCHANGED <<currentCount, stageTasks, holders, reports>>
    BY <1>1, <1>3, <2>2 DEF TypeOK, States
  <2>3. QED
    BY <1>2, <2>1, <2>2
<1>6. /\ state' \in [Ops -> States]
      /\ Created' = Created \cup {op}
      /\ \A p \in Ops \ {op} : state'[p] = state[p]
  BY <1>1, <1>3, <1>5, CreatedAfter
<1>7. /\ loadOperationQueue' \in Seq(Ops) /\ IsInjective(loadOperationQueue')
      /\ \/ /\ UNCHANGED loadOperationQueue
            /\ Staged(stageTasks') \subseteq Staged(stageTasks) \cup {op}
            /\ holders' = holders \cup {op}
            /\ state'[op] \in {"downloading", "finished"}
            /\ currentCount' = currentCount + 1 /\ currentCount' <= 3
            /\ loadOperationQueue # <<>> => currentCount' >= 1
         \/ /\ ToSet(loadOperationQueue') = ToSet(loadOperationQueue) \cup {op}
            /\ UNCHANGED <<stageTasks, holders, currentCount>>
            /\ state'[op] = "idle"
            /\ currentCount >= 1
  <2>1. CASE /\ currentCount < Limit(Head(fileTasks).force)
             /\ currentCount' = currentCount + 1
             /\ Start(op, Tail(fileTasks), holders)
             /\ UNCHANGED loadOperationQueue
    <3>1. currentCount' <= 3 /\ (loadOperationQueue # <<>> => currentCount' >= 1)
      BY <1>3, <1>4, <2>1 DEF IInv, CountIsInBounds
    <3>2. QED
      BY <1>1, <1>3, <2>1, <3>1, StartEffect
  <2>2. CASE /\ currentCount >= Limit(Head(fileTasks).force)
             /\ loadOperationQueue' = IF Head(fileTasks).force THEN <<op>> \o loadOperationQueue
                                      ELSE Append(loadOperationQueue, op)
             /\ state' = [state EXCEPT ![op] = "idle"]
             /\ UNCHANGED <<currentCount, stageTasks, holders>>
    <3>1. currentCount >= 1 /\ state'[op] = "idle"
      BY <1>1, <1>3, <1>4, <2>2
    <3>2. /\ <<op>> \o loadOperationQueue \in Seq(Ops)
          /\ IsInjective(<<op>> \o loadOperationQueue)
          /\ ToSet(<<op>> \o loadOperationQueue) = ToSet(loadOperationQueue) \cup {op}
      BY <1>1, <1>3, PrependToDistinct
    <3>3. ~Contains(loadOperationQueue, op)
      BY <1>1, ContainsToSet
    <3>4. /\ Append(loadOperationQueue, op) \in Seq(Ops)
          /\ IsInjective(Append(loadOperationQueue, op))
          /\ ToSet(Append(loadOperationQueue, op)) = ToSet(loadOperationQueue) \cup {op}
      BY <1>1, <1>3, <3>3, AppendToDistinct, ToSetOfAppend
    <3>5. /\ loadOperationQueue' \in Seq(Ops) /\ IsInjective(loadOperationQueue')
          /\ ToSet(loadOperationQueue') = ToSet(loadOperationQueue) \cup {op}
      BY <2>2, <3>2, <3>4
    <3>6. QED
      BY <2>2, <3>1, <3>5
  <2>3. QED
    BY <1>2, <2>1, <2>2
<1>8. TypeOK'
  <2>1. loadOperationPaths' \in [Files -> Ops \cup {0}]
    BY <1>1, <1>2, <1>3 DEF TypeOK
  <2>2. file' \in [Ops -> Files \cup {0}] /\ \A p \in Created' : file'[p] \in Files
    BY <1>1, <1>2, <1>3, <1>6 DEF TypeOK, Created
  <2>3. holders' \in SUBSET Ops
    BY <1>1, <1>3, <1>7 DEF TypeOK
  <2>4. QED
    BY <1>2, <1>3, <1>5, <1>6, <1>7, <2>1, <2>2, <2>3 DEF TypeOK
<1>9. CreatedInOrder'
  BY <1>1, <1>2, <1>5, <1>6 DEF CreatedInOrder
<1>10. WaitingIsIdle'
  <2>1. \A p \in ToSet(loadOperationQueue) : p \in Ops /\ p # op /\ state'[p] = "idle"
    BY <1>1, <1>3, <1>6 DEF IInv, WaitingIsIdle, ToSet
  <2>2. QED
    BY <1>7, <2>1 DEF WaitingIsIdle
<1>11. CountIsInBounds'
  BY <1>7 DEF IInv, CountIsInBounds
<1>12. StagedIsNotWaiting'
  BY <1>1, <1>6, <1>7 DEF IInv, StagedIsNotWaiting
<1>13. HoldersStarted'
  BY <1>1, <1>3, <1>6, <1>7 DEF IInv, TypeOK, HoldersStarted
<1>14. SlotsAreCounted'
  <2>1. IsFiniteSet(holders) /\ Cardinality(holders) \in Nat
    BY HoldersFinite
  <2>2. Cardinality(holders \cup {op}) = Cardinality(holders) + 1
    BY <1>1, <2>1, FS_AddElement
  <2>3. unearned' = unearned /\ unearned \in Nat /\ currentCount = Cardinality(holders) - unearned
    BY <1>2, <1>3 DEF IInv, TypeOK, SlotsAreCounted
  <2>4. currentCount' = Cardinality(holders') - unearned'
    <3>1. CASE holders' = holders \cup {op} /\ currentCount' = currentCount + 1
      <4>1. Cardinality(holders') = Cardinality(holders) + 1
        BY <2>2, <3>1, Zenon
      <4>2. QED
        BY <2>1, <2>3, <3>1, <4>1
    <3>2. CASE UNCHANGED <<holders, currentCount>>
      BY <2>3, <3>2
    <3>3. QED
      BY <1>7, <3>1, <3>2
  <2>5. QED
    BY <2>4 DEF SlotsAreCounted
<1>15. EnteredAreCreated'
  BY <1>1, <1>2, <1>3, <1>6 DEF IInv, TypeOK, EnteredAreCreated
<1>16. QED
  BY <1>8, <1>9, <1>10, <1>11, <1>12, <1>13, <1>14, <1>15 DEF IInv

\* A cancelled operation leaves the queue before stageQueue hears of it.
LEMMA CancelKeeps ==
    ASSUME IInv, Cancel
    PROVE  IInv'
<1> DEFINE f == Head(fileTasks).file
           op == loadOperationPaths[f]
<1>1. /\ fileTasks' \in Seq(FileTask)
      /\ Cardinality(Loads(fileTasks')) <= Cardinality(Loads(fileTasks))
      /\ Cardinality(Loads(fileTasks)) \in Nat /\ Cardinality(Loads(fileTasks')) \in Nat
  <2>1. TypeOK /\ fileTasks # <<>> /\ fileTasks' = Tail(fileTasks)
    BY DEF IInv, Cancel, FirstTask
  <2>2. QED
    BY <2>1, FirstTaskTaken
<1>2. Created' = Created
  BY DEF Cancel, Created
<1>3. TypeOK /\ loadOperationQueue \in Seq(Ops) /\ IsInjective(loadOperationQueue)
      /\ stageTasks \in Seq(StageTask)
  BY DEF IInv, TypeOK, WaitingIsIdle
<1>4. op \in Created \cup {0}
  <2>1. fileTasks \in Seq(FileTask) /\ fileTasks # <<>> /\ Head(fileTasks).kind = "cancel"
    BY <1>3 DEF Cancel, FirstTask, TypeOK
  <2>2. Head(fileTasks) \in FileTask
    BY <1>3, <2>1, FirstTaskTaken
  <2>3. f \in Files
    BY <2>1, <2>2 DEF FileTask
  <2>4. QED
    BY <2>3 DEF IInv, EnteredAreCreated
<1>5. /\ loadOperationPaths' = [loadOperationPaths EXCEPT ![f] = 0]
      /\ IF op # 0
         THEN /\ loadOperationQueue' = RemoveFirst(loadOperationQueue, op)
              /\ stageTasks' = Append(stageTasks, [kind |-> "cancel", op |-> op])
              /\ cancelled' = cancelled \cup {op}
         ELSE UNCHANGED <<loadOperationQueue, stageTasks, cancelled>>
      /\ UNCHANGED <<delayed, currentCount, state, file, force, retries, calls, holders,
                     reports, broken, unearned>>
  BY DEF Cancel
<1> HIDE DEF f, op
<1>6. /\ loadOperationQueue' \in Seq(Ops) /\ IsInjective(loadOperationQueue')
      /\ ToSet(loadOperationQueue') \subseteq ToSet(loadOperationQueue)
      /\ loadOperationQueue' # <<>> => loadOperationQueue # <<>>
      /\ stageTasks' \in Seq(StageTask) /\ cancelled' \in SUBSET Ops
      /\ Staged(stageTasks') \subseteq Created \ ToSet(loadOperationQueue')
  <2>1. CASE op = 0
    BY <1>3, <1>5, <2>1 DEF IInv, TypeOK, StagedIsNotWaiting
  <2>2. CASE op # 0
    <3>1. op \in Created /\ op \in Ops
      BY <1>4, <2>2 DEF Created
    <3>2. /\ loadOperationQueue' \in Seq(Ops) /\ IsInjective(loadOperationQueue')
          /\ ToSet(loadOperationQueue') = ToSet(loadOperationQueue) \ {op}
      BY <1>3, <1>5, <2>2, RemoveFirstOfDistinct
    <3>3. loadOperationQueue' # <<>> => loadOperationQueue # <<>>
      <4>1. ASSUME loadOperationQueue = <<>>
            PROVE  RemoveFirst(loadOperationQueue, op) = loadOperationQueue
        BY <4>1 DEF RemoveFirst
      <4>2. QED
        BY <1>5, <2>2, <4>1
    <3>4. [kind |-> "cancel", op |-> op] \in StageTask
      BY <3>1 DEF StageTask
    <3>5. stageTasks' \in Seq(StageTask) /\ Staged(stageTasks') = Staged(stageTasks) \cup {op}
      BY <1>3, <1>5, <2>2, <3>4, StagedOfAppend
    <3>6. cancelled' \in SUBSET Ops
      BY <1>3, <1>5, <2>2, <3>1 DEF TypeOK
    <3>7. QED
      BY <3>1, <3>2, <3>3, <3>5, <3>6 DEF IInv, StagedIsNotWaiting
  <2>3. QED
    BY <2>1, <2>2
<1>7. TypeOK'
  BY <1>1, <1>2, <1>3, <1>5, <1>6 DEF TypeOK
<1>8. CreatedInOrder'
  BY <1>1, <1>2, <1>5, CreatedFinite, LoaderAssumption DEF IInv, TypeOK, CreatedInOrder
<1>9. EnteredAreCreated'
  BY <1>2, <1>3, <1>5 DEF IInv, TypeOK, EnteredAreCreated
<1>10. WaitingIsIdle' /\ CountIsInBounds' /\ StagedIsNotWaiting' /\ HoldersStarted' /\ SlotsAreCounted'
  BY <1>2, <1>5, <1>6 DEF IInv, WaitingIsIdle, CountIsInBounds, StagedIsNotWaiting,
                          HoldersStarted, SlotsAreCounted
<1>11. QED
  BY <1>7, <1>8, <1>9, <1>10 DEF IInv

\* The end of an operation frees at most the slot that it held, and the
\* operation that waits longest gets the one that is free then.
LEMMA CheckDownloadQueueKeeps ==
    ASSUME IInv, CheckDownloadQueue
    PROVE  IInv'
<1> DEFINE op == Head(fileTasks).op
           next == Head(loadOperationQueue)
           left == currentCount - 1
           slots == holders \ {op}
<1>1. /\ Tail(fileTasks) \in Seq(FileTask)
      /\ Cardinality(Loads(Tail(fileTasks))) <= Cardinality(Loads(fileTasks))
      /\ Cardinality(Loads(fileTasks)) \in Nat /\ Cardinality(Loads(Tail(fileTasks))) \in Nat
  BY FirstTaskTaken DEF IInv, CheckDownloadQueue, FirstTask
<1>2. TypeOK /\ loadOperationQueue \in Seq(Ops) /\ IsInjective(loadOperationQueue)
      /\ state \in [Ops -> States] /\ currentCount \in Int /\ left \in Int
  BY DEF IInv, TypeOK, WaitingIsIdle
<1>3. /\ loadOperationPaths' = [loadOperationPaths EXCEPT ![file[op]] = 0]
      /\ unearned' = IF op \in holders THEN unearned ELSE unearned + 1
      /\ UNCHANGED <<delayed, file, force, retries, calls, cancelled, broken>>
      /\ \/ /\ loadOperationQueue # <<>> /\ left < Limit(force[next])
            /\ loadOperationQueue' = Tail(loadOperationQueue)
            /\ currentCount' = left + 1
            /\ Start(next, Tail(fileTasks), slots)
         \/ /\ loadOperationQueue # <<>> => left >= Limit(force[next])
            /\ currentCount' = left
            /\ holders' = slots
            /\ fileTasks' = Tail(fileTasks)
            /\ UNCHANGED <<loadOperationQueue, state, stageTasks, reports>>
  BY DEF CheckDownloadQueue
<1>4. \A urgent : Limit(urgent) \in 1..3
  BY DEF Limit
<1>5. /\ IsFiniteSet(slots) /\ Cardinality(slots) \in Nat
      /\ Cardinality(slots) - unearned' = left
      /\ unearned' \in Nat
  <2>1. IsFiniteSet(holders) /\ Cardinality(holders) \in Nat
    BY HoldersFinite
  <2>2. unearned \in Nat /\ currentCount = Cardinality(holders) - unearned
    BY DEF IInv, TypeOK, SlotsAreCounted
  <2>3. CASE op \in holders
    <3>1. /\ IsFiniteSet(slots) /\ Cardinality(slots) = Cardinality(holders) - 1
          /\ Cardinality(slots) \in Nat
      BY <2>1, <2>3, FS_RemoveElement, FS_CardinalityType
    <3>2. QED
      BY <1>3, <2>1, <2>2, <2>3, <3>1
  <2>4. CASE op \notin holders
    <3>1. slots = holders
      BY <2>4
    <3>2. Cardinality(slots) = Cardinality(holders) /\ IsFiniteSet(slots)
      BY <2>1, <3>1, Zenon
    <3>3. QED
      BY <1>3, <2>1, <2>2, <2>4, <3>2
  <2>5. QED
    BY <2>3, <2>4
<1> HIDE DEF op, next, left, slots
<1>6. CASE /\ loadOperationQueue # <<>> => left >= Limit(force[next])
           /\ currentCount' = left
           /\ holders' = slots
           /\ fileTasks' = Tail(fileTasks)
           /\ UNCHANGED <<loadOperationQueue, state, stageTasks, reports>>
  <2>1. Created' = Created
    BY <1>6 DEF Created
  <2>2. slots \subseteq holders
    BY DEF slots
  <2>3. TypeOK'
    BY <1>1, <1>2, <1>3, <1>5, <1>6, <2>1, <2>2 DEF TypeOK
  <2>4. CreatedInOrder'
    BY <1>1, <1>3, <1>6, <2>1, CreatedFinite, LoaderAssumption DEF IInv, TypeOK, CreatedInOrder
  <2>5. EnteredAreCreated'
    BY <1>2, <1>3, <2>1 DEF IInv, TypeOK, EnteredAreCreated
  <2>6. CountIsInBounds'
    <3>1. currentCount' <= 3
      BY <1>2, <1>6 DEF IInv, CountIsInBounds, left
    <3>2. loadOperationQueue # <<>> => currentCount' >= 1
      BY <1>2, <1>4, <1>6
    <3>3. QED
      BY <1>6, <3>1, <3>2 DEF CountIsInBounds
  <2>7. SlotsAreCounted'
    <3>1. Cardinality(holders') = Cardinality(slots)
      BY <1>6, Zenon
    <3>2. QED
      BY <1>5, <1>6, <3>1 DEF SlotsAreCounted
  <2>8. WaitingIsIdle' /\ StagedIsNotWaiting' /\ HoldersStarted'
    BY <1>6, <2>1, <2>2 DEF IInv, WaitingIsIdle, StagedIsNotWaiting, HoldersStarted
  <2>9. QED
    BY <2>3, <2>4, <2>5, <2>6, <2>7, <2>8 DEF IInv
<1>7. CASE /\ loadOperationQueue # <<>> /\ left < Limit(force[next])
           /\ loadOperationQueue' = Tail(loadOperationQueue)
           /\ currentCount' = left + 1
           /\ Start(next, Tail(fileTasks), slots)
  <2>1. /\ next \in ToSet(loadOperationQueue) /\ next \in Ops
        /\ loadOperationQueue' \in Seq(Ops) /\ IsInjective(loadOperationQueue')
        /\ ToSet(loadOperationQueue') = ToSet(loadOperationQueue) \ {next}
    BY <1>2, <1>7, TailOfDistinct, ToSetOfTail DEF next
  <2>2. state[next] = "idle" /\ next \in Created /\ next \notin holders
    BY <2>1 DEF IInv, WaitingIsIdle, HoldersStarted, Created
  <2>3. /\ fileTasks' \in Seq(FileTask)
        /\ Cardinality(Loads(fileTasks')) = Cardinality(Loads(Tail(fileTasks)))
        /\ reports' \in [Ops -> Nat]
        /\ stageTasks' \in Seq(StageTask)
        /\ Staged(stageTasks') \subseteq Staged(stageTasks) \cup {next}
        /\ holders' = slots \cup {next}
        /\ state' = [state EXCEPT ![next] = state'[next]]
        /\ state'[next] \in {"downloading", "finished"}
    BY <1>1, <1>2, <1>7, <2>1, StartEffect
  <2>4. /\ state' \in [Ops -> States] /\ Created' = Created
        /\ \A p \in Ops \ {next} : state'[p] = state[p]
    <3>1. state'[next] \in States \ {"none"}
      BY <2>3 DEF States
    <3>2. /\ state' \in [Ops -> States] /\ Created' = Created \cup {next}
          /\ \A p \in Ops \ {next} : state'[p] = state[p]
      BY <1>2, <2>1, <2>3, <3>1, CreatedAfter
    <3>3. Created \cup {next} = Created
      BY <2>2
    <3>4. QED
      BY <3>2, <3>3
  <2>5. slots \subseteq holders /\ holders' \in SUBSET Ops
    BY <1>2, <2>1, <2>3 DEF slots, TypeOK
  <2>6. currentCount' = currentCount /\ currentCount \in Int /\ currentCount <= 3 /\ currentCount >= 1
    BY <1>2, <1>7 DEF left, IInv, CountIsInBounds
  <2>7. TypeOK'
    BY <1>2, <1>3, <1>5, <2>1, <2>3, <2>4, <2>5, <2>6 DEF TypeOK
  <2>8. CreatedInOrder'
    <3>1. calls' = calls /\ calls \in Nat /\ Cardinality(Created) \in Nat
      BY <1>2, <1>3, CreatedFinite, LoaderAssumption DEF TypeOK
    <3>2. Cardinality(Created) + Cardinality(Loads(fileTasks')) <= calls'
      BY <1>1, <2>3, <3>1 DEF IInv, CreatedInOrder
    <3>3. QED
      BY <2>4, <3>2 DEF IInv, CreatedInOrder
  <2>9. EnteredAreCreated'
    BY <1>2, <1>3, <2>4 DEF IInv, TypeOK, EnteredAreCreated
  <2>10. WaitingIsIdle'
    <3>1. ASSUME NEW p \in ToSet(loadOperationQueue')
          PROVE  state'[p] = "idle"
      <4>1. p \in ToSet(loadOperationQueue) /\ p # next
        BY <2>1, <3>1
      <4>2. p \in Ops
        BY <1>2, <4>1 DEF ToSet
      <4>3. QED
        BY <2>4, <4>1, <4>2 DEF IInv, WaitingIsIdle
    <3>2. QED
      BY <2>1, <3>1 DEF WaitingIsIdle
  <2>11. CountIsInBounds'
    BY <2>6 DEF CountIsInBounds
  <2>12. StagedIsNotWaiting'
    BY <2>1, <2>2, <2>3, <2>4 DEF IInv, StagedIsNotWaiting
  <2>13. HoldersStarted'
    BY <1>2, <2>2, <2>3, <2>4, <2>5 DEF IInv, TypeOK, HoldersStarted
  <2>14. SlotsAreCounted'
    <3>1. next \notin slots
      BY <2>2, <2>5
    <3>2. Cardinality(slots \cup {next}) = Cardinality(slots) + 1
      BY <1>5, <3>1, FS_AddElement
    <3>3. Cardinality(holders') = Cardinality(slots) + 1
      BY <2>3, <3>2, Zenon
    <3>4. QED
      BY <1>2, <1>5, <1>7, <3>3 DEF SlotsAreCounted
  <2>15. QED
    BY <2>7, <2>8, <2>9, <2>10, <2>11, <2>12, <2>13, <2>14 DEF IInv
<1>8. QED
  BY <1>3, <1>6, <1>7

\* A task of stageQueue leaves the pool alone: whatever it does to an operation
\* in a slot keeps the invariant.
LEMMA StageStepKeeps ==
    ASSUME IInv,
           UNCHANGED <<pool, file, force, calls, holders, cancelled, unearned>>,
           fileTasks' \in Seq(FileTask),
           Cardinality(Loads(fileTasks')) = Cardinality(Loads(fileTasks)),
           reports' \in [Ops -> Nat], retries' \in [Ops -> 0..2],
           delayed' \in SUBSET Ops, broken' \in SUBSET Ops,
           stageTasks' \in Seq(StageTask),
           Staged(stageTasks') \subseteq Staged(stageTasks),
           state' \in [Ops -> States], Created' = Created,
           \A op \in Ops : state'[op] # state[op] =>
               /\ op \notin ToSet(loadOperationQueue)
               /\ state'[op] \in {"downloading", "failed", "finished"}
    PROVE  IInv'
<1>1. UNCHANGED <<loadOperationPaths, loadOperationQueue, currentCount, file, force,
                  calls, holders, cancelled, unearned>>
  BY DEF pool
<1>2. TypeOK'
  BY <1>1 DEF IInv, TypeOK
<1>3. CreatedInOrder' /\ EnteredAreCreated' /\ CountIsInBounds' /\ SlotsAreCounted'
  BY <1>1 DEF IInv, CreatedInOrder, EnteredAreCreated, CountIsInBounds, SlotsAreCounted
<1>4. WaitingIsIdle'
  <2>1. \A op \in ToSet(loadOperationQueue) : op \in Ops
    BY DEF IInv, TypeOK, ToSet
  <2>2. QED
    BY <1>1, <2>1 DEF IInv, WaitingIsIdle
<1>5. StagedIsNotWaiting'
  BY <1>1 DEF IInv, StagedIsNotWaiting
<1>6. HoldersStarted'
  BY <1>1 DEF IInv, TypeOK, HoldersStarted
<1>7. QED
  BY <1>2, <1>3, <1>4, <1>5, <1>6 DEF IInv

\* The first task of stageQueue is for an operation that does not wait.
LEMMA StageTaskTaken ==
    ASSUME IInv, stageTasks # <<>>
    PROVE  /\ Tail(stageTasks) \in Seq(StageTask)
           /\ Staged(Tail(stageTasks)) \subseteq Staged(stageTasks)
           /\ Head(stageTasks).op \in Ops
           /\ Head(stageTasks).op \in Created \ ToSet(loadOperationQueue)
<1>1. stageTasks \in Seq(StageTask)
  BY DEF IInv, TypeOK
<1>2. /\ Tail(stageTasks) \in Seq(StageTask)
      /\ Head(stageTasks).op \in Staged(stageTasks)
      /\ Staged(Tail(stageTasks)) \subseteq Staged(stageTasks)
  BY <1>1, StagedOfTail
<1>3. QED
  BY <1>2 DEF IInv, StagedIsNotWaiting, Created

\* A failed start is reported, and nothing else.
LEMMA FailKeeps ==
    ASSUME IInv, Fail
    PROVE  IInv'
<1> DEFINE op == Head(stageTasks).op
<1>1. /\ stageTasks # <<>> /\ Report(op, fileTasks)
      /\ broken' = broken \cup {op} /\ stageTasks' = Tail(stageTasks)
      /\ UNCHANGED <<delayed, pool, state, file, force, retries, calls, holders,
                     cancelled, unearned>>
  BY DEF Fail, FirstStage
<1>2. /\ stageTasks' \in Seq(StageTask) /\ Staged(stageTasks') \subseteq Staged(stageTasks)
      /\ op \in Ops
  BY <1>1, StageTaskTaken
<1>3. /\ fileTasks' \in Seq(FileTask) /\ reports' \in [Ops -> Nat]
      /\ Cardinality(Loads(fileTasks')) = Cardinality(Loads(fileTasks))
  BY <1>1, <1>2, ReportEffect DEF IInv, TypeOK
<1> HIDE DEF op
<1>4. /\ broken' \in SUBSET Ops /\ delayed' \in SUBSET Ops
      /\ retries' \in [Ops -> 0..2] /\ state' \in [Ops -> States] /\ state' = state
  BY <1>1, <1>2 DEF IInv, TypeOK
<1>5. Created' = Created
  BY <1>4 DEF Created
<1>6. QED
  BY <1>1, <1>2, <1>3, <1>4, <1>5, StageStepKeeps

\* The request that nobody answers only ends the task.
LEMMA RequestKeeps ==
    ASSUME IInv, Request
    PROVE  IInv'
<1>1. /\ stageTasks # <<>> /\ stageTasks' = Tail(stageTasks)
      /\ UNCHANGED <<fileTasks, delayed, pool, state, file, force, retries, calls,
                     holders, reports, cancelled, broken, unearned>>
  BY DEF Request, FirstStage
<1>2. stageTasks' \in Seq(StageTask) /\ Staged(stageTasks') \subseteq Staged(stageTasks)
  BY <1>1, StageTaskTaken
<1>3. /\ fileTasks' \in Seq(FileTask) /\ reports' \in [Ops -> Nat]
      /\ broken' \in SUBSET Ops /\ delayed' \in SUBSET Ops
      /\ retries' \in [Ops -> 0..2] /\ state' \in [Ops -> States] /\ state' = state
      /\ fileTasks' = fileTasks
  BY <1>1 DEF IInv, TypeOK
<1>4. Created' = Created
  BY <1>3 DEF Created
<1>5. QED
  BY <1>1, <1>2, <1>3, <1>4, StageStepKeeps

\* Finishing touches an operation only if it is downloading, and so does not
\* wait.
LEMMA FinishEffect ==
    ASSUME IInv, NEW op \in Ops, Finish(op)
    PROVE  /\ fileTasks' \in Seq(FileTask)
           /\ Cardinality(Loads(fileTasks')) = Cardinality(Loads(fileTasks))
           /\ reports' \in [Ops -> Nat] /\ retries' \in [Ops -> 0..2]
           /\ delayed' \in SUBSET Ops
           /\ state' \in [Ops -> States] /\ Created' = Created
           /\ \A p \in Ops : state'[p] # state[p] =>
                  /\ p \notin ToSet(loadOperationQueue)
                  /\ state'[p] \in {"downloading", "failed", "finished"}
<1>1. /\ fileTasks \in Seq(FileTask) /\ reports \in [Ops -> Nat]
      /\ retries \in [Ops -> 0..2] /\ delayed \in SUBSET Ops /\ state \in [Ops -> States]
  BY DEF IInv, TypeOK
<1>2. CASE UNCHANGED <<fileTasks, state, retries, reports>> /\ delayed' = delayed \ {op}
  BY <1>1, <1>2 DEF Created
<1>3. CASE /\ retries' = [retries EXCEPT ![op] = @ + 1]
           /\ retries[op] + 1 < 3
           /\ delayed' = delayed \cup {op}
           /\ UNCHANGED <<fileTasks, state, reports>>
  <2>1. retries[op] \in 0..2 /\ retries[op] + 1 \in 0..2
    BY <1>1, <1>3
  <2>2. retries' \in [Ops -> 0..2]
    BY <1>1, <1>3, <2>1
  <2>3. delayed' \in SUBSET Ops /\ UNCHANGED <<fileTasks, state, reports>>
    BY <1>1, <1>3
  <2>4. Created' = Created
    BY <2>3 DEF Created
  <2>5. QED
    BY <1>1, <2>2, <2>3, <2>4
<1>4. CASE /\ state[op] = "downloading"
           /\ state' = [state EXCEPT ![op] = "finished"]
           /\ Report(op, fileTasks)
           /\ delayed' = delayed \ {op}
           /\ UNCHANGED retries
  <2>1. /\ fileTasks' \in Seq(FileTask) /\ reports' \in [Ops -> Nat]
        /\ Cardinality(Loads(fileTasks')) = Cardinality(Loads(fileTasks))
    BY <1>1, <1>4, ReportEffect
  <2>2. state' \in [Ops -> States] /\ Created' = Created
    BY <1>1, <1>4 DEF States, Created
  <2>3. op \notin ToSet(loadOperationQueue)
    BY <1>4 DEF IInv, WaitingIsIdle
  <2>4. QED
    BY <1>1, <1>4, <2>1, <2>2, <2>3
<1>5. QED
  BY <1>2, <1>3, <1>4 DEF Finish

\* The end of a download keeps the invariant ...
LEMMA FinishStageKeeps ==
    ASSUME IInv, FinishStage
    PROVE  IInv'
<1>1. /\ stageTasks # <<>> /\ stageTasks' = Tail(stageTasks)
      /\ Finish(Head(stageTasks).op)
      /\ UNCHANGED <<pool, file, force, calls, holders, cancelled, broken, unearned>>
  BY DEF FinishStage, FirstStage
<1>2. /\ stageTasks' \in Seq(StageTask) /\ Staged(stageTasks') \subseteq Staged(stageTasks)
      /\ Head(stageTasks).op \in Ops
  BY <1>1, StageTaskTaken
<1>3. broken' \in SUBSET Ops
  BY <1>1 DEF IInv, TypeOK
<1>4. QED
  BY <1>1, <1>2, <1>3, FinishEffect, StageStepKeeps

\* ... and so does a rename that is tried again.
LEMMA RetryStageKeeps ==
    ASSUME IInv, NEW op \in Ops, RetryStage(op)
    PROVE  IInv'
<1>1. /\ Finish(op)
      /\ UNCHANGED <<stageTasks, pool, file, force, calls, holders, cancelled, broken,
                     unearned>>
  BY DEF RetryStage
<1>2. stageTasks' \in Seq(StageTask) /\ broken' \in SUBSET Ops /\ stageTasks' = stageTasks
  BY <1>1 DEF IInv, TypeOK
<1>3. QED
  BY <1>1, <1>2, FinishEffect, StageStepKeeps

\* A cancelled operation fails, unless it has ended.
LEMMA CancelStageKeeps ==
    ASSUME IInv, CancelStage
    PROVE  IInv'
<1> DEFINE op == Head(stageTasks).op
<1>1. /\ stageTasks # <<>> /\ stageTasks' = Tail(stageTasks)
      /\ IF state[op] \in {"finished", "failed"}
         THEN UNCHANGED <<fileTasks, state, reports>>
         ELSE /\ state' = [state EXCEPT ![op] = "failed"]
              /\ Report(op, fileTasks)
      /\ UNCHANGED <<delayed, pool, file, force, retries, calls, holders, cancelled,
                     broken, unearned>>
  BY DEF CancelStage, FirstStage
<1>2. /\ stageTasks' \in Seq(StageTask) /\ Staged(stageTasks') \subseteq Staged(stageTasks)
      /\ op \in Ops /\ op \in Created \ ToSet(loadOperationQueue)
  BY <1>1, StageTaskTaken
<1> HIDE DEF op
<1>3. /\ fileTasks \in Seq(FileTask) /\ reports \in [Ops -> Nat] /\ state \in [Ops -> States]
      /\ retries' \in [Ops -> 0..2] /\ delayed' \in SUBSET Ops /\ broken' \in SUBSET Ops
  BY <1>1 DEF IInv, TypeOK
<1>4. CASE state[op] \in {"finished", "failed"}
  <2>1. UNCHANGED <<fileTasks, state, reports>>
    BY <1>1, <1>4
  <2>2. Created' = Created
    BY <2>1 DEF Created
  <2>3. QED
    BY <1>1, <1>2, <1>3, <2>1, <2>2, StageStepKeeps
<1>5. CASE state[op] \notin {"finished", "failed"}
  <2>1. state' = [state EXCEPT ![op] = "failed"] /\ Report(op, fileTasks)
    BY <1>1, <1>5
  <2>2. /\ fileTasks' \in Seq(FileTask) /\ reports' \in [Ops -> Nat]
        /\ Cardinality(Loads(fileTasks')) = Cardinality(Loads(fileTasks))
    BY <1>2, <1>3, <2>1, ReportEffect
  <2>3. /\ state' \in [Ops -> States] /\ Created' = Created
        /\ \A p \in Ops : state'[p] # state[p] => p = op /\ state'[p] = "failed"
    BY <1>2, <1>3, <2>1 DEF States, Created
  <2>4. QED
    BY <1>1, <1>2, <1>3, <2>2, <2>3, StageStepKeeps
<1>6. QED
  BY <1>4, <1>5

\* Every step keeps the invariant.
LEMMA NextIInv == IInv /\ [Next]_vars => IInv'
<1> SUFFICES ASSUME IInv, [Next]_vars
             PROVE  IInv'
  OBVIOUS
<1>1. CASE UNCHANGED vars
  BY <1>1 DEF vars, pool, IInv, TypeOK, CreatedInOrder, EnteredAreCreated, WaitingIsIdle,
              CountIsInBounds, StagedIsNotWaiting, HoldersStarted, SlotsAreCounted, Created
<1>2. ASSUME NEW f \in Files, CancelLoadFile(f)
      PROVE  IInv'
  <2>1. CancelTask(f) \in FileTask
    BY DEF CancelTask, FileTask
  <2>2. QED
    BY <1>2, <2>1, CallKeeps DEF CancelLoadFile
<1>3. ASSUME NEW f \in Files, NEW urgent \in BOOLEAN, LoadFile(f, urgent)
      PROVE  IInv'
  <2>1. LoadTask(f, urgent) \in FileTask
    BY DEF LoadTask, FileTask
  <2>2. QED
    BY <1>3, <2>1, CallKeeps DEF LoadFile
<1>4. CASE FileLoaderQueue
  BY <1>4, LoadAgainKeeps, LoadNewKeeps, CancelKeeps, CheckDownloadQueueKeeps
     DEF FileLoaderQueue
<1>5. CASE StageQueue
  BY <1>5, FailKeeps, RequestKeeps, FinishStageKeeps, CancelStageKeeps, RetryStageKeeps
     DEF StageQueue
<1>6. QED
  BY <1>1, <1>2, <1>3, <1>4, <1>5 DEF Next, Callers

-----------------------------------------------------------------------------
(* How an operation ends.                                                  *)

\* The reports of an operation's end that fileLoaderQueue has not seen yet.
Checks(tasks, op) == {i \in DOMAIN tasks : tasks[i].kind = "check" /\ tasks[i].op = op}
Unchecked(op) == Cardinality(Checks(fileTasks, op))

Ended(op) == state[op] \in {"finished", "failed"}
Ends(op) == IF Ended(op) THEN 1 ELSE 0
Breaks(op) == IF op \in broken THEN 1 ELSE 0

\* The end of an operation is reported when its start fails and when it ends,
\* the second after the first only if it was cancelled.  It is in its slot
\* until the first report is processed, and a report that is processed later
\* is one of a cancelled operation.
Account(op) ==
    /\ reports[op] = Breaks(op) + Ends(op)
    /\ state[op] \in {"none", "idle"} => op \notin broken
    /\ op \in broken /\ Ended(op) => op \in cancelled
    /\ state[op] = "downloading" /\ op \notin broken => op \in holders
    /\ Unchecked(op) <= Ends(op) + (IF op \in holders THEN Breaks(op) ELSE 0)
    /\ op \notin holders /\ Unchecked(op) > 0 => op \in cancelled

\* Cancelled operations that may have given back a slot.
Spent == {op \in cancelled : Ended(op) /\ op \notin holders /\ Unchecked(op) = 0}

\* The first task of an operation on stageQueue begins it ...
Begins(task) == task.kind \in Beginnings

BeginsFirst(tasks) ==
    \A i, j \in DOMAIN tasks : Begins(tasks[i]) /\ tasks[j].op = tasks[i].op => i <= j

\* ... once; it was neither broken nor renamed before ...
BeginsOnce ==
    \A t \in ToSet(stageTasks) :
        Begins(t) => state[t.op] = "downloading" /\ t.op \notin broken \cup delayed

\* ... and the other tasks cancel it.
CancelsAreKnown ==
    /\ \A t \in ToSet(stageTasks) : ~Begins(t) => t.op \in cancelled
    /\ cancelled \subseteq Created

DelayedWasStarted ==
    \A op \in delayed : op \notin broken /\ state[op] \in {"downloading", "failed", "finished"}

StageInv ==
    /\ BeginsFirst(stageTasks)
    /\ BeginsOnce
    /\ CancelsAreKnown
    /\ DelayedWasStarted

AccountInv ==
    /\ \A op \in Ops : Account(op)
    /\ unearned <= Cardinality(Spent)

\* The table of names knows an operation by its file, and every operation whose
\* end is not processed yet, unless a load of the file was cancelled.
PathsAreOwn == \A f \in Files : loadOperationPaths[f] # 0 => file[loadOperationPaths[f]] = f

Active(op) == reports[op] = 0 \/ Unchecked(op) > 0

InCharge ==
    \A op \in Created :
        Active(op) /\ (\A p \in cancelled : file[p] # file[op])
            => loadOperationPaths[file[op]] = op

\* What a step does to one operation.
Untouched(op) ==
    /\ state'[op] = state[op] /\ reports'[op] = reports[op]
    /\ op \in broken' <=> op \in broken
    /\ op \in holders' <=> op \in holders
    /\ Unchecked(op)' = Unchecked(op)

Waits(op) ==
    /\ state[op] = "none" /\ state'[op] = "idle" /\ reports'[op] = reports[op]
    /\ op \in broken' <=> op \in broken
    /\ op \in holders' <=> op \in holders
    /\ Unchecked(op)' = Unchecked(op)

Starts(op) ==
    /\ state[op] \in {"none", "idle"}
    /\ op \in broken' <=> op \in broken
    /\ op \in holders'
    /\ \/ /\ state'[op] = "downloading" /\ reports'[op] = reports[op]
          /\ Unchecked(op)' = Unchecked(op)
       \/ /\ state'[op] = "finished" /\ reports'[op] = reports[op] + 1
          /\ Unchecked(op)' = Unchecked(op) + 1

IsBroken(op) ==
    /\ state[op] = "downloading" /\ op \notin broken /\ op \in broken'
    /\ state'[op] = state[op] /\ reports'[op] = reports[op] + 1
    /\ op \in holders' <=> op \in holders
    /\ Unchecked(op)' = Unchecked(op) + 1

IsEnded(op) ==
    /\ \/ state[op] = "downloading" /\ op \notin broken /\ state'[op] = "finished"
       \/ ~Ended(op) /\ op \in cancelled /\ state'[op] = "failed"
    /\ reports'[op] = reports[op] + 1
    /\ op \in broken' <=> op \in broken
    /\ op \in holders' <=> op \in holders
    /\ Unchecked(op)' = Unchecked(op) + 1

IsChecked(op) ==
    /\ Unchecked(op) > 0 /\ Unchecked(op)' = Unchecked(op) - 1
    /\ op \notin holders'
    /\ state'[op] = state[op] /\ reports'[op] = reports[op]
    /\ op \in broken' <=> op \in broken

Moves(op) ==
    Untouched(op) \/ Waits(op) \/ Starts(op) \/ IsBroken(op) \/ IsEnded(op) \/ IsChecked(op)

\* Reports that wait are finitely many.
LEMMA ChecksFinite ==
    ASSUME NEW s \in Seq(FileTask), NEW op
    PROVE  IsFiniteSet(Checks(s, op)) /\ Cardinality(Checks(s, op)) \in Nat
<1>1. Checks(s, op) \subseteq 1..Len(s) /\ IsFiniteSet(1..Len(s))
  BY FS_Interval DEF Checks
<1>2. QED
  BY <1>1, FS_Subset, FS_CardinalityType

\* A new task adds a report if it is one of this operation.
LEMMA ChecksOfAppend ==
    ASSUME NEW s \in Seq(FileTask), NEW t \in FileTask, NEW op
    PROVE  Cardinality(Checks(Append(s, t), op))
              = Cardinality(Checks(s, op)) + IF t.kind = "check" /\ t.op = op THEN 1 ELSE 0
<1> DEFINE u == Append(s, t)
<1>1. /\ DOMAIN u = 1..(Len(s) + 1) /\ Len(s) \in Nat
      /\ DOMAIN s = 1..Len(s)
      /\ \A i \in 1..Len(s) : u[i] = s[i]
      /\ u[Len(s) + 1] = t
  OBVIOUS
<1> HIDE DEF u
<1>2. \A i \in 1..(Len(s) + 1) : i \in 1..Len(s) \/ i = Len(s) + 1
  BY <1>1
<1>3. Checks(u, op) = Checks(s, op) \cup IF t.kind = "check" /\ t.op = op THEN {Len(s) + 1} ELSE {}
  BY <1>1, <1>2 DEF Checks
<1>4. Len(s) + 1 \notin Checks(s, op)
  BY <1>1 DEF Checks
<1>5. IsFiniteSet(Checks(s, op)) /\ Cardinality(Checks(s, op)) \in Nat
  BY ChecksFinite
<1>6. Cardinality(Checks(s, op) \cup {Len(s) + 1}) = Cardinality(Checks(s, op)) + 1
  BY <1>4, <1>5, FS_AddElement
<1>7. CASE t.kind = "check" /\ t.op = op
  BY <1>3, <1>6, <1>7 DEF u
<1>8. CASE ~(t.kind = "check" /\ t.op = op)
  <2>1. Checks(u, op) = Checks(s, op)
    BY <1>3, <1>8
  <2>2. QED
    BY <1>5, <1>8, <2>1 DEF u
<1>9. QED
  BY <1>7, <1>8

\* The first task takes a report away if it is one of this operation.
LEMMA ChecksOfTail ==
    ASSUME NEW s \in Seq(FileTask), s # <<>>, NEW op
    PROVE  Cardinality(Checks(Tail(s), op))
              = Cardinality(Checks(s, op))
                    - IF Head(s).kind = "check" /\ Head(s).op = op THEN 1 ELSE 0
<1> DEFINE shift == [i \in Checks(Tail(s), op) |-> i + 1]
<1>1. /\ Tail(s) \in Seq(FileTask) /\ Len(Tail(s)) = Len(s) - 1
      /\ \A i \in 1..Len(Tail(s)) : Tail(s)[i] = s[i + 1]
      /\ Len(s) \in Nat \ {0} /\ Head(s) = s[1]
  BY HeadTailProperties, EmptySeq
<1>2. /\ Checks(Tail(s), op) = {i \in 1..(Len(s) - 1) : s[i + 1].kind = "check" /\ s[i + 1].op = op}
      /\ Checks(s, op) \ {1} = {i \in 2..Len(s) : s[i].kind = "check" /\ s[i].op = op}
      /\ 1 \in Checks(s, op) <=> Head(s).kind = "check" /\ Head(s).op = op
  BY <1>1 DEF Checks
<1>3. shift \in Bijection(Checks(Tail(s), op), Checks(s, op) \ {1})
  <2>1. shift \in [Checks(Tail(s), op) -> Checks(s, op) \ {1}]
    BY <1>1, <1>2
  <2>2. \A i, j \in Checks(Tail(s), op) : shift[i] = shift[j] => i = j
    BY <1>1, <1>2
  <2>3. \A j \in Checks(s, op) \ {1} : \E i \in Checks(Tail(s), op) : shift[i] = j
    <3> SUFFICES ASSUME NEW j \in Checks(s, op) \ {1}
                 PROVE  \E i \in Checks(Tail(s), op) : shift[i] = j
      OBVIOUS
    <3>1. j \in 2..Len(s) /\ s[j].kind = "check" /\ s[j].op = op
      BY <1>2
    <3>2. j - 1 \in 1..(Len(s) - 1) /\ (j - 1) + 1 = j
      BY <1>1, <3>1
    <3>3. j - 1 \in Checks(Tail(s), op)
      BY <1>2, <3>1, <3>2
    <3>4. QED
      BY <3>2, <3>3
  <2>4. QED
    BY <2>1, <2>2, <2>3 DEF Bijection, Injection, Surjection, IsInjective
<1>4. /\ IsFiniteSet(Checks(s, op)) /\ Cardinality(Checks(s, op)) \in Nat
      /\ IsFiniteSet(Checks(Tail(s), op))
  BY <1>1, ChecksFinite
<1>5. Cardinality(Checks(s, op) \ {1})
        = Cardinality(Checks(s, op)) - IF 1 \in Checks(s, op) THEN 1 ELSE 0
  <2>1. CASE 1 \in Checks(s, op)
    BY <1>4, <2>1, FS_RemoveElement
  <2>2. CASE 1 \notin Checks(s, op)
    <3>1. Checks(s, op) \ {1} = Checks(s, op)
      BY <2>2
    <3>2. Cardinality(Checks(s, op) \ {1}) = Cardinality(Checks(s, op))
      BY <3>1, Zenon
    <3>3. QED
      BY <1>4, <2>2, <3>2
  <2>3. QED
    BY <2>1, <2>2
<1>6. ExistsBijection(Checks(Tail(s), op), Checks(s, op) \ {1})
  BY <1>3 DEF ExistsBijection
<1>7. Cardinality(Checks(s, op) \ {1}) = Cardinality(Checks(Tail(s), op))
  BY <1>4, <1>6, FS_Bijection
<1>8. QED
  BY <1>2, <1>5, <1>7

\* Whatever a step does to an operation keeps its account ...
LEMMA AccountKept ==
    ASSUME NEW op \in Ops, Account(op), Moves(op), op \in cancelled => op \in cancelled',
           reports[op] \in Nat, Unchecked(op) \in Nat, state[op] \in States
    PROVE  Account(op)'
<1>1. CASE Untouched(op)
  BY <1>1 DEF Untouched, Account, Ended, Ends, Breaks
<1>2. CASE Waits(op)
  BY <1>2 DEF Waits, Account, Ended, Ends, Breaks
<1>3. CASE Starts(op)
  BY <1>3 DEF Starts, Account, Ended, Ends, Breaks
<1>4. CASE IsBroken(op)
  BY <1>4 DEF IsBroken, Account, Ended, Ends, Breaks
<1>5. CASE IsEnded(op)
  BY <1>5 DEF IsEnded, Account, Ended, Ends, Breaks
<1>6. CASE IsChecked(op)
  BY <1>6 DEF IsChecked, Account, Ended, Ends, Breaks
<1>7. QED
  BY <1>1, <1>2, <1>3, <1>4, <1>5, <1>6 DEF Moves

\* ... leaves it spent if it was, and makes a cancelled one spent that gives
\* back a slot it does not hold ...
LEMMA SpentKept ==
    ASSUME NEW op \in Ops, Account(op), Moves(op), op \in cancelled => op \in cancelled',
           reports[op] \in Nat, Unchecked(op) \in Nat, state[op] \in States
    PROVE  /\ op \in Spent => op \in Spent'
           /\ IsChecked(op) /\ op \notin holders => op \notin Spent /\ op \in Spent'
<1>1. op \in Spent => op \in Spent'
  BY DEF Moves, Untouched, Waits, Starts, IsBroken, IsEnded, IsChecked, Spent, Account,
         Ended, Ends, Breaks
<1>2. IsChecked(op) /\ op \notin holders => op \notin Spent /\ op \in Spent'
  BY DEF IsChecked, Spent, Account, Ended, Ends, Breaks
<1>3. QED
  BY <1>1, <1>2

\* ... and lets it be active only if it was, or is cancelled.
LEMMA ActiveKept ==
    ASSUME NEW op \in Ops, Account(op), Moves(op),
           reports[op] \in Nat, Unchecked(op) \in Nat, state[op] \in States
    PROVE  /\ Active(op)' => Active(op) \/ op \in cancelled
           /\ IsChecked(op) => Active(op)
           /\ IsChecked(op) /\ Active(op)' => op \in cancelled
<1>1. Active(op)' => Active(op) \/ op \in cancelled
  BY DEF Moves, Untouched, Waits, Starts, IsBroken, IsEnded, IsChecked, Active, Account,
         Ended, Ends, Breaks
<1>2. IsChecked(op) => Active(op)
  BY DEF IsChecked, Active
<1>3. IsChecked(op) /\ Active(op)' => op \in cancelled
  BY DEF IsChecked, Active, Account, Ended, Ends, Breaks
<1>4. QED
  BY <1>1, <1>2, <1>3

\* The two together, for all operations.
LEMMA AccountsKept ==
    ASSUME IInv, IInv', AccountInv, \A op \in Ops : Moves(op), cancelled \subseteq cancelled',
           \/ unearned' = unearned
           \/ unearned' = unearned + 1 /\ \E op \in Ops : IsChecked(op) /\ op \notin holders
    PROVE  AccountInv'
<1>1. \A op \in Ops : reports[op] \in Nat /\ Unchecked(op) \in Nat /\ state[op] \in States
  <2>1. fileTasks \in Seq(FileTask) /\ reports \in [Ops -> Nat] /\ state \in [Ops -> States]
    BY DEF IInv, TypeOK
  <2>2. QED
    BY <2>1, ChecksFinite DEF Unchecked
<1>2. \A op \in Ops : Account(op) /\ Moves(op) /\ (op \in cancelled => op \in cancelled')
  BY DEF AccountInv
<1>3. \A op \in Ops : Account(op)'
  BY <1>1, <1>2, AccountKept
<1>4. /\ Spent \subseteq Ops /\ Spent' \subseteq Ops /\ Spent \subseteq Spent'
  <2>1. \A op \in Ops : op \in Spent => op \in Spent'
    BY <1>1, <1>2, SpentKept
  <2>2. Spent \subseteq Ops /\ Spent' \subseteq Ops
    BY DEF IInv, TypeOK, Spent
  <2>3. QED
    BY <2>1, <2>2
<1>5. IsFiniteSet(Ops)
  BY LoaderAssumption, FS_Interval DEF Ops
<1>6. /\ IsFiniteSet(Spent) /\ Cardinality(Spent) \in Nat
      /\ IsFiniteSet(Spent') /\ Cardinality(Spent') \in Nat
      /\ Cardinality(Spent) <= Cardinality(Spent')
  BY <1>4, <1>5, FS_Subset, FS_CardinalityType
<1>7. unearned \in Nat /\ unearned <= Cardinality(Spent)
  BY DEF IInv, TypeOK, AccountInv
<1>8. unearned' <= Cardinality(Spent')
  <2>1. CASE unearned' = unearned
    BY <1>6, <1>7, <2>1
  <2>2. CASE unearned' = unearned + 1 /\ \E op \in Ops : IsChecked(op) /\ op \notin holders
    <3>1. PICK op \in Ops : IsChecked(op) /\ op \notin holders
      BY <2>2
    <3>2. op \notin Spent /\ op \in Spent'
      BY <1>1, <1>2, <3>1, SpentKept
    <3>3. Cardinality(Spent \cup {op}) = Cardinality(Spent) + 1
      BY <1>6, <3>2, FS_AddElement
    <3>4. Spent \cup {op} \subseteq Spent'
      BY <1>4, <3>2
    <3>5. Cardinality(Spent \cup {op}) <= Cardinality(Spent')
      BY <1>6, <3>4, FS_Subset
    <3> QED
      BY <1>6, <1>7, <2>2, <3>3, <3>5
  <2> QED
    BY <2>1, <2>2
<1>9. QED
  BY <1>3, <1>8 DEF AccountInv

\* A task behind the first one begins no operation of the first one.
LEMMA TailOfOrdered ==
    ASSUME NEW s \in Seq(StageTask), s # <<>>, BeginsFirst(s)
    PROVE  /\ BeginsFirst(Tail(s))
           /\ Head(s) \in ToSet(s) /\ ToSet(Tail(s)) \subseteq ToSet(s)
           /\ \A t \in ToSet(Tail(s)) : Begins(t) => t.op # Head(s).op
<1>1. /\ Tail(s) \in Seq(StageTask) /\ Len(Tail(s)) = Len(s) - 1
      /\ \A i \in 1..Len(Tail(s)) : Tail(s)[i] = s[i + 1]
      /\ Len(s) \in Nat \ {0} /\ Head(s) = s[1]
      /\ DOMAIN s = 1..Len(s)
  BY HeadTailProperties, EmptySeq
<1> DEFINE u == Tail(s)
<1>2. /\ DOMAIN u = 1..(Len(s) - 1)
      /\ \A i \in DOMAIN u : i \in Nat /\ i # 0 /\ i + 1 \in DOMAIN s /\ u[i] = s[i + 1]
      /\ 1 \in DOMAIN s
  BY <1>1
<1>3. ASSUME NEW i \in DOMAIN u, NEW j \in DOMAIN u, Begins(u[i]), u[j].op = u[i].op
      PROVE  i <= j
  <2>1. /\ i + 1 \in DOMAIN s /\ j + 1 \in DOMAIN s /\ u[i] = s[i + 1] /\ u[j] = s[j + 1]
        /\ i \in Nat /\ j \in Nat
    BY <1>2
  <2>2. i + 1 <= j + 1
    BY <1>3, <2>1 DEF BeginsFirst
  <2>3. QED
    BY <2>1, <2>2
<1>4. ASSUME NEW i \in DOMAIN u, Begins(u[i])
      PROVE  u[i].op # s[1].op
  <2>1. i + 1 \in DOMAIN s /\ u[i] = s[i + 1] /\ i \in Nat /\ i # 0 /\ 1 \in DOMAIN s
    BY <1>2
  <2>2. s[1].op = s[i + 1].op => i + 1 <= 1
    BY <1>4, <2>1 DEF BeginsFirst
  <2>3. QED
    BY <2>1, <2>2
<1>5. Head(s) \in ToSet(s) /\ ToSet(u) \subseteq ToSet(s)
  BY <1>1, <1>2 DEF ToSet
<1> HIDE DEF u
<1>6. BeginsFirst(u)
  BY <1>3 DEF BeginsFirst
<1>7. \A t \in ToSet(u) : Begins(t) => t.op # s[1].op
  BY <1>4 DEF ToSet
<1>8. QED
  BY <1>1, <1>5, <1>6, <1>7 DEF u

\* A task is added: it begins an operation that has none.
LEMMA AppendToOrdered ==
    ASSUME NEW s \in Seq(StageTask), BeginsFirst(s), NEW t \in StageTask,
           Begins(t) => t.op \notin Staged(s)
    PROVE  BeginsFirst(Append(s, t)) /\ ToSet(Append(s, t)) = ToSet(s) \cup {t}
<1> DEFINE u == Append(s, t)
<1>1. /\ DOMAIN u = 1..(Len(s) + 1) /\ Len(s) \in Nat /\ DOMAIN s = 1..Len(s)
      /\ \A i \in 1..Len(s) : u[i] = s[i]
      /\ u[Len(s) + 1] = t
  OBVIOUS
<1>2. ToSet(u) = ToSet(s) \cup {t}
  BY ToSetOfAppend
<1> HIDE DEF u
<1>3. \A i \in DOMAIN u : \/ i \in DOMAIN s /\ u[i] = s[i] /\ i <= Len(s)
                          \/ i = Len(s) + 1 /\ u[i] = t
  BY <1>1
<1>4. ASSUME NEW i \in DOMAIN u, NEW j \in DOMAIN u, Begins(u[i]), u[j].op = u[i].op
      PROVE  i <= j
  <2>1. CASE i \in DOMAIN s /\ u[i] = s[i] /\ j \in DOMAIN s /\ u[j] = s[j]
    BY <1>4, <2>1 DEF BeginsFirst
  <2>2. CASE i \in DOMAIN s /\ i <= Len(s) /\ j = Len(s) + 1
    BY <1>1, <2>2
  <2>3. CASE i = Len(s) + 1 /\ u[i] = t /\ j \in DOMAIN s /\ u[j] = s[j]
    <3>1. s[j].op \in Staged(s)
      BY <2>3 DEF Staged
    <3>2. QED
      BY <1>4, <2>3, <3>1
  <2>4. CASE i = Len(s) + 1 /\ j = Len(s) + 1
    BY <1>1, <2>4
  <2>5. QED
    BY <1>3, <2>1, <2>2, <2>3, <2>4
<1>5. BeginsFirst(u)
  BY <1>4 DEF BeginsFirst
<1>6. QED
  BY <1>2, <1>5 DEF u

\* A task of stageQueue is for an operation.
LEMMA StageTasksHaveOps ==
    ASSUME NEW s \in Seq(StageTask)
    PROVE  \A t \in ToSet(s) : t.op \in Ops
<1>1. \A i \in DOMAIN s : s[i] \in StageTask
  BY ElementOfSeq
<1>2. \A t \in ToSet(s) : t \in StageTask
  BY <1>1 DEF ToSet
<1>3. QED
  BY <1>2 DEF StageTask

\* The tasks of stageQueue stay in order when none is added or taken ...
LEMMA StageUntouched ==
    ASSUME IInv, StageInv, UNCHANGED <<stageTasks, delayed, broken>>,
           cancelled \subseteq cancelled', cancelled' \subseteq Created',
           \A op \in Ops : state[op] \in {"downloading", "failed", "finished"}
                               => state'[op] = state[op]
    PROVE  StageInv'
<1>1. stageTasks \in Seq(StageTask) /\ delayed \in SUBSET Ops
  BY DEF IInv, TypeOK
<1>2. \A t \in ToSet(stageTasks) : t.op \in Ops
  BY <1>1, StageTasksHaveOps
<1>3. BeginsFirst(stageTasks)' /\ BeginsOnce' /\ CancelsAreKnown' /\ DelayedWasStarted'
  BY <1>1, <1>2 DEF StageInv, BeginsOnce, CancelsAreKnown, DelayedWasStarted
<1>4. QED
  BY <1>3 DEF StageInv

\* ... or an operation begins or is cancelled ...
LEMMA StageAdded ==
    ASSUME IInv, StageInv, UNCHANGED <<delayed, broken>>, NEW t \in StageTask,
           stageTasks' = Append(stageTasks, t),
           cancelled \subseteq cancelled', cancelled' \subseteq Created',
           \A op \in Ops : state[op] \in {"downloading", "failed", "finished"}
                               => state'[op] = state[op],
           \/ ~Begins(t) /\ t.op \in cancelled'
           \/ /\ Begins(t) /\ t.op \notin Staged(stageTasks) /\ state'[t.op] = "downloading"
              /\ t.op \notin broken \cup delayed
    PROVE  StageInv'
<1>1. stageTasks \in Seq(StageTask) /\ delayed \in SUBSET Ops
  BY DEF IInv, TypeOK
<1>2. \A s \in ToSet(stageTasks) : s.op \in Ops
  BY <1>1, StageTasksHaveOps
<1>3. BeginsFirst(stageTasks') /\ ToSet(stageTasks') = ToSet(stageTasks) \cup {t}
  BY <1>1, AppendToOrdered DEF StageInv
<1>4. BeginsOnce' /\ CancelsAreKnown' /\ DelayedWasStarted'
  BY <1>1, <1>2, <1>3 DEF StageInv, BeginsOnce, CancelsAreKnown, DelayedWasStarted
<1>5. QED
  BY <1>3, <1>4 DEF StageInv

\* ... or the first task is done, which concerns its own operation only.
LEMMA StageTaken ==
    ASSUME IInv, StageInv, stageTasks # <<>>, NEW op, op = Head(stageTasks).op,
           stageTasks' = Tail(stageTasks), UNCHANGED cancelled, Created' = Created,
           broken \subseteq broken', broken' \subseteq broken \cup {op},
           delayed' \subseteq delayed \cup {op},
           \A p \in Ops \ {op} : state'[p] = state[p],
           op \in delayed' => /\ op \notin broken'
                              /\ state'[op] \in {"downloading", "failed", "finished"}
    PROVE  StageInv'
<1>1. stageTasks \in Seq(StageTask) /\ delayed \in SUBSET Ops
  BY DEF IInv, TypeOK
<1>2. \A s \in ToSet(stageTasks) : s.op \in Ops
  BY <1>1, StageTasksHaveOps
<1>3. /\ BeginsFirst(stageTasks') /\ ToSet(stageTasks') \subseteq ToSet(stageTasks)
      /\ \A t \in ToSet(stageTasks') : Begins(t) => t.op # op
  BY <1>1, TailOfOrdered DEF StageInv
<1>4. BeginsOnce'
  BY <1>1, <1>2, <1>3 DEF StageInv, BeginsOnce
<1>5. CancelsAreKnown'
  BY <1>3 DEF StageInv, CancelsAreKnown
<1>6. DelayedWasStarted'
  BY <1>1 DEF StageInv, DelayedWasStarted
<1>7. QED
  BY <1>3, <1>4, <1>5, <1>6 DEF StageInv

\* In particular an operation that starts may get its beginning.
LEMMA BeginningAdded ==
    ASSUME IInv, StageInv, UNCHANGED <<delayed, broken>>, NEW op \in Ops,
           cancelled \subseteq cancelled', cancelled' \subseteq Created',
           \A p \in Ops : state[p] \in {"downloading", "failed", "finished"}
                               => state'[p] = state[p],
           op \notin Staged(stageTasks), op \notin broken \cup delayed,
           \/ UNCHANGED stageTasks
           \/ /\ state'[op] = "downloading"
              /\ \E kind \in Beginnings :
                     stageTasks' = Append(stageTasks, [kind |-> kind, op |-> op])
    PROVE  StageInv'
<1>1. CASE UNCHANGED stageTasks
  BY <1>1, StageUntouched
<1>2. CASE /\ state'[op] = "downloading"
           /\ \E kind \in Beginnings :
                  stageTasks' = Append(stageTasks, [kind |-> kind, op |-> op])
  <2>1. PICK kind \in Beginnings : stageTasks' = Append(stageTasks, [kind |-> kind, op |-> op])
    BY <1>2
  <2> DEFINE t == [kind |-> kind, op |-> op]
  <2>2. t \in StageTask /\ Begins(t) /\ t.op = op
    BY DEF StageTask, Begins
  <2>3. stageTasks' = Append(stageTasks, t)
    BY <2>1
  <2> HIDE DEF t
  <2>4. QED
    BY <1>2, <2>2, <2>3, StageAdded
<1>3. QED
  BY <1>1, <1>2

\* The end of an operation is reported once, and of no other.
LEMMA ReportCounts ==
    ASSUME IInv, NEW op \in Ops, NEW tasks \in Seq(FileTask), Report(op, tasks)
    PROVE  /\ reports'[op] = reports[op] + 1
           /\ Unchecked(op)' = Cardinality(Checks(tasks, op)) + 1
           /\ \A p \in Ops \ {op} : /\ reports'[p] = reports[p]
                                    /\ Unchecked(p)' = Cardinality(Checks(tasks, p))
<1>1. reports' = [reports EXCEPT ![op] = @ + 1] /\ reports \in [Ops -> Nat]
  BY DEF Report, IInv, TypeOK
<1>2. CheckTask(op) \in FileTask /\ CheckTask(op).kind = "check" /\ CheckTask(op).op = op
  BY DEF CheckTask, FileTask
<1>3. fileTasks' = Append(tasks, CheckTask(op))
  BY DEF Report
<1>4. ASSUME NEW p \in Ops
      PROVE  /\ Unchecked(p)' = Cardinality(Checks(tasks, p)) + IF p = op THEN 1 ELSE 0
             /\ Cardinality(Checks(tasks, p)) \in Nat
  <2>1. Cardinality(Checks(tasks, p)) \in Nat
    BY ChecksFinite
  <2>2. Cardinality(Checks(Append(tasks, CheckTask(op)), p))
            = Cardinality(Checks(tasks, p))
                + IF CheckTask(op).kind = "check" /\ CheckTask(op).op = p THEN 1 ELSE 0
    BY <1>2, ChecksOfAppend
  <2>3. Unchecked(p)' = Cardinality(Checks(Append(tasks, CheckTask(op)), p))
    BY <1>3 DEF Unchecked
  <2>4. QED
    BY <1>2, <2>1, <2>2, <2>3
<1>5. QED
  BY <1>1, <1>4

\* An operation that starts is counted, and has one more report or task.
LEMMA StartCounts ==
    ASSUME IInv, NEW op \in Ops, NEW tasks \in Seq(FileTask), NEW slots,
           Start(op, tasks, slots)
    PROVE  /\ holders' = slots \cup {op}
           /\ \A p \in Ops \ {op} : /\ state'[p] = state[p] /\ reports'[p] = reports[p]
                                    /\ Unchecked(p)' = Cardinality(Checks(tasks, p))
           /\ \/ /\ state'[op] = "finished" /\ reports'[op] = reports[op] + 1
                 /\ Unchecked(op)' = Cardinality(Checks(tasks, op)) + 1
                 /\ UNCHANGED stageTasks
              \/ /\ state'[op] = "downloading" /\ reports'[op] = reports[op]
                 /\ Unchecked(op)' = Cardinality(Checks(tasks, op))
                 /\ \E kind \in Beginnings :
                        stageTasks' = Append(stageTasks, [kind |-> kind, op |-> op])
<1>1. state \in [Ops -> States] /\ holders' = slots \cup {op}
  BY DEF IInv, TypeOK, Start
<1>2. CASE Report(op, tasks) /\ UNCHANGED stageTasks
           /\ state' = [state EXCEPT ![op] = "finished"]
  <2>1. state'[op] = "finished" /\ \A p \in Ops \ {op} : state'[p] = state[p]
    BY <1>1, <1>2
  <2>2. QED
    BY <1>1, <1>2, <2>1, ReportCounts
<1>3. CASE /\ fileTasks' = tasks /\ UNCHANGED reports
           /\ state' = [state EXCEPT ![op] = "downloading"]
           /\ \E kind \in Beginnings :
                 stageTasks' = Append(stageTasks, [kind |-> kind, op |-> op])
  BY <1>1, <1>3 DEF Unchecked
<1>4. QED
  BY <1>2, <1>3 DEF Start

\* A task that is taken and reports no end changes no count ...
LEMMA TakenCounts ==
    ASSUME IInv, fileTasks # <<>>
    PROVE  /\ Tail(fileTasks) \in Seq(FileTask) /\ Head(fileTasks) \in FileTask
           /\ \A op \in Ops :
                /\ Unchecked(op) \in Nat
                /\ Cardinality(Checks(Tail(fileTasks), op)) \in Nat
                /\ Cardinality(Checks(Tail(fileTasks), op))
                    = Unchecked(op) - IF Head(fileTasks).kind = "check" /\ Head(fileTasks).op = op
                                      THEN 1 ELSE 0
<1>1. fileTasks \in Seq(FileTask)
  BY DEF IInv, TypeOK
<1>2. Tail(fileTasks) \in Seq(FileTask) /\ Head(fileTasks) \in FileTask
  BY <1>1, LoadsOfTail
<1>3. QED
  BY <1>1, <1>2, ChecksFinite, ChecksOfTail DEF Unchecked

\* A call concerns no operation.
LEMMA CallAccounts ==
    ASSUME IInv, IInv', AccountInv, StageInv, NEW task \in FileTask, task.kind # "check",
           Call(task)
    PROVE  (\A op \in Ops : Untouched(op)) /\ AccountInv' /\ StageInv'
<1>1. /\ fileTasks' = Append(fileTasks, task) /\ fileTasks \in Seq(FileTask)
      /\ UNCHANGED <<stageTasks, delayed, state, holders, reports, cancelled, broken, unearned>>
  BY DEF Call, IInv, TypeOK
<1>2. \A op \in Ops : Unchecked(op)' = Unchecked(op)
  <2>1. \A op \in Ops : /\ Cardinality(Checks(fileTasks, op)) \in Nat
                        /\ Cardinality(Checks(Append(fileTasks, task), op))
                             = Cardinality(Checks(fileTasks, op)) + 0
    BY <1>1, ChecksFinite, ChecksOfAppend
  <2>2. QED
    BY <1>1, <2>1 DEF Unchecked
<1>3. \A op \in Ops : Untouched(op)
  BY <1>1, <1>2 DEF Untouched
<1>4. AccountInv'
  BY <1>1, <1>3, AccountsKept DEF Moves
<1>5. Created' = Created /\ cancelled' \subseteq Created'
  BY <1>1 DEF Created, StageInv, CancelsAreKnown
<1>6. StageInv'
  BY <1>1, <1>5, StageUntouched
<1>7. QED
  BY <1>3, <1>4, <1>6

\* A repeated request concerns none either.
LEMMA LoadAgainAccounts ==
    ASSUME IInv, IInv', AccountInv, StageInv, LoadAgain
    PROVE  (\A op \in Ops : Untouched(op)) /\ AccountInv' /\ StageInv'
<1>1. /\ fileTasks' = Tail(fileTasks) /\ fileTasks # <<>> /\ Head(fileTasks).kind = "load"
      /\ UNCHANGED <<stageTasks, delayed, state, holders, reports, cancelled, broken, unearned>>
  BY DEF LoadAgain, FirstTask
<1>2. \A op \in Ops : Unchecked(op)' = Unchecked(op)
  BY <1>1, TakenCounts DEF Unchecked
<1>3. \A op \in Ops : Untouched(op)
  BY <1>1, <1>2 DEF Untouched
<1>4. AccountInv'
  BY <1>1, <1>3, AccountsKept DEF Moves
<1>5. Created' = Created /\ cancelled' \subseteq Created'
  BY <1>1 DEF Created, StageInv, CancelsAreKnown
<1>6. StageInv'
  BY <1>1, <1>5, StageUntouched
<1>7. QED
  BY <1>3, <1>4, <1>6

\* A new operation starts or waits.
LEMMA LoadNewAccounts ==
    ASSUME IInv, IInv', AccountInv, StageInv, LoadNew
    PROVE  (\A op \in Ops : Moves(op) /\ ~IsChecked(op)) /\ AccountInv' /\ StageInv'
<1>1. PICK op : op = Cardinality(Created) + 1
  OBVIOUS
<1>2. /\ op \in Ops /\ op \notin Created /\ state[op] = "none" /\ Tail(fileTasks) \in Seq(FileTask)
      /\ fileTasks # <<>> /\ Head(fileTasks).kind = "load"
  BY <1>1, NextNumber DEF LoadNew, FirstTask
<1>3. /\ UNCHANGED <<delayed, force, retries, calls, cancelled, broken, unearned>>
      /\ \/ Start(op, Tail(fileTasks), holders)
         \/ /\ state' = [state EXCEPT ![op] = "idle"]
            /\ fileTasks' = Tail(fileTasks)
            /\ UNCHANGED <<stageTasks, holders, reports>>
  BY <1>1 DEF LoadNew
<1>4. \A p \in Ops : Unchecked(p) \in Nat /\ Cardinality(Checks(Tail(fileTasks), p)) = Unchecked(p)
  BY <1>2, TakenCounts
<1>5. op \notin Staged(stageTasks) /\ op \notin delayed /\ op \notin broken
  <2>1. Account(op)
    BY <1>2 DEF AccountInv
  <2>2. QED
    BY <1>2, <2>1 DEF IInv, StagedIsNotWaiting, StageInv, DelayedWasStarted, Account
<1>6. state \in [Ops -> States]
  BY DEF IInv, TypeOK
<1>7. CASE /\ state' = [state EXCEPT ![op] = "idle"]
           /\ fileTasks' = Tail(fileTasks)
           /\ UNCHANGED <<stageTasks, holders, reports>>
  <2>1. \A p \in Ops : Unchecked(p)' = Unchecked(p)
    BY <1>4, <1>7 DEF Unchecked
  <2>2. \A p \in Ops : p # op => Untouched(p) /\ ~IsChecked(p)
    BY <1>3, <1>4, <1>6, <1>7, <2>1 DEF Untouched, IsChecked
  <2>3. Waits(op) /\ ~IsChecked(op)
    <3>1. state[op] = "none" /\ state'[op] = "idle" /\ UNCHANGED <<reports, broken, holders>>
      BY <1>2, <1>3, <1>6, <1>7
    <3>2. Unchecked(op) \in Nat /\ Unchecked(op)' = Unchecked(op)
      BY <1>2, <1>4, <2>1
    <3>3. QED
      BY <3>1, <3>2 DEF Waits, IsChecked
  <2>4. \A p \in Ops : Moves(p) /\ ~IsChecked(p)
    BY <2>2, <2>3 DEF Moves
  <2>5. AccountInv'
    BY <1>3, <2>4, AccountsKept
  <2>6. \A p \in Ops : state[p] \in {"downloading", "failed", "finished"} => state'[p] = state[p]
    BY <1>2, <1>6, <1>7
  <2>7. cancelled' \subseteq Created'
    BY <1>2, <1>3, <1>6, <1>7 DEF Created, StageInv, CancelsAreKnown
  <2>8. StageInv'
    BY <1>3, <1>7, <2>6, <2>7, StageUntouched
  <2>9. QED
    BY <2>4, <2>5, <2>8
<1>8. CASE Start(op, Tail(fileTasks), holders)
  <2>1. /\ holders' = holders \cup {op}
        /\ \A p \in Ops \ {op} : /\ state'[p] = state[p] /\ reports'[p] = reports[p]
                                 /\ Unchecked(p)' = Unchecked(p)
        /\ \/ /\ state'[op] = "finished" /\ reports'[op] = reports[op] + 1
              /\ Unchecked(op)' = Unchecked(op) + 1
              /\ UNCHANGED stageTasks
           \/ /\ state'[op] = "downloading" /\ reports'[op] = reports[op]
              /\ Unchecked(op)' = Unchecked(op)
              /\ \E kind \in Beginnings :
                     stageTasks' = Append(stageTasks, [kind |-> kind, op |-> op])
    <3>1. Cardinality(Checks(Tail(fileTasks), op)) = Unchecked(op)
      BY <1>2, <1>4
    <3>2. \A p \in Ops \ {op} : Cardinality(Checks(Tail(fileTasks), p)) = Unchecked(p)
      BY <1>4
    <3>3. /\ holders' = holders \cup {op}
          /\ \A p \in Ops \ {op} : /\ state'[p] = state[p] /\ reports'[p] = reports[p]
                                   /\ Unchecked(p)' = Cardinality(Checks(Tail(fileTasks), p))
          /\ \/ /\ state'[op] = "finished" /\ reports'[op] = reports[op] + 1
                /\ Unchecked(op)' = Cardinality(Checks(Tail(fileTasks), op)) + 1
                /\ UNCHANGED stageTasks
             \/ /\ state'[op] = "downloading" /\ reports'[op] = reports[op]
                /\ Unchecked(op)' = Cardinality(Checks(Tail(fileTasks), op))
                /\ \E kind \in Beginnings :
                       stageTasks' = Append(stageTasks, [kind |-> kind, op |-> op])
      BY <1>2, <1>8, StartCounts
    <3>4. QED
      BY <3>1, <3>2, <3>3
  <2>2. \A p \in Ops : p # op => Untouched(p) /\ ~IsChecked(p)
    BY <1>3, <1>4, <2>1 DEF Untouched, IsChecked
  <2>3. Starts(op) /\ ~IsChecked(op)
    BY <1>2, <1>3, <1>4, <2>1 DEF Starts, IsChecked
  <2>4. \A p \in Ops : Moves(p) /\ ~IsChecked(p)
    BY <2>2, <2>3 DEF Moves
  <2>5. AccountInv'
    BY <1>3, <2>4, AccountsKept
  <2>6. \A p \in Ops : state[p] \in {"downloading", "failed", "finished"} => state'[p] = state[p]
    BY <1>2, <2>1
  <2>7. cancelled' \subseteq Created'
    BY <1>2, <1>3, <2>1 DEF Created, StageInv, CancelsAreKnown
  <2>8. StageInv'
    BY <1>2, <1>3, <1>5, <2>1, <2>6, <2>7, BeginningAdded
  <2>9. QED
    BY <2>4, <2>5, <2>8
<1>9. QED
  BY <1>3, <1>7, <1>8

\* A cancelled operation is told so.
LEMMA CancelAccounts ==
    ASSUME IInv, IInv', AccountInv, StageInv, Cancel
    PROVE  (\A op \in Ops : Untouched(op)) /\ AccountInv' /\ StageInv'
<1> DEFINE f == Head(fileTasks).file
           op == loadOperationPaths[f]
           t  == [kind |-> "cancel", op |-> op]
<1>1. /\ fileTasks' = Tail(fileTasks) /\ fileTasks # <<>> /\ Head(fileTasks).kind = "cancel"
      /\ UNCHANGED <<delayed, state, holders, reports, broken, unearned>>
      /\ IF op # 0
         THEN /\ stageTasks' = Append(stageTasks, t)
              /\ cancelled' = cancelled \cup {op}
         ELSE UNCHANGED <<stageTasks, cancelled>>
  BY DEF Cancel, FirstTask
<1>2. \A p \in Ops : Unchecked(p)' = Unchecked(p)
  BY <1>1, TakenCounts DEF Unchecked
<1>3. \A p \in Ops : Untouched(p)
  BY <1>1, <1>2 DEF Untouched
<1>4. AccountInv'
  BY <1>1, <1>3, AccountsKept DEF Moves
<1>5. op \in Created \cup {0}
  <2>1. Head(fileTasks) \in FileTask
    BY <1>1, TakenCounts
  <2>2. f \in Files
    BY <1>1, <2>1 DEF FileTask
  <2>3. QED
    BY <2>2 DEF IInv, EnteredAreCreated
<1>6. Created' = Created /\ cancelled' \subseteq Created'
  BY <1>1, <1>5 DEF Created, StageInv, CancelsAreKnown
<1>7. StageInv'
  <2>1. CASE op = 0
    BY <1>1, <1>6, <2>1, StageUntouched
  <2>2. CASE op # 0
    <3>1. t \in StageTask /\ ~Begins(t) /\ t.op \in cancelled'
      BY <1>1, <1>5, <2>2 DEF StageTask, Begins, Beginnings, Created
    <3> HIDE DEF t, op
    <3>2. QED
      BY <1>1, <1>6, <2>2, <3>1, StageAdded
  <2>3. QED
    BY <2>1, <2>2
<1>8. QED
  BY <1>3, <1>4, <1>7

\* The end of an operation is processed, and another one may start.
LEMMA CheckAccounts ==
    ASSUME IInv, IInv', AccountInv, StageInv, CheckDownloadQueue
    PROVE  /\ \E op \in Ops : /\ op = Head(fileTasks).op /\ IsChecked(op)
                              /\ \A p \in Ops : Moves(p) /\ (IsChecked(p) => p = op)
           /\ AccountInv' /\ StageInv'
<1>1. PICK op, next, rest : /\ op = Head(fileTasks).op
                            /\ next = Head(loadOperationQueue)
                            /\ rest = Tail(fileTasks)
  OBVIOUS
<1>2. /\ fileTasks # <<>> /\ Head(fileTasks).kind = "check"
      /\ unearned' = IF op \in holders THEN unearned ELSE unearned + 1
      /\ UNCHANGED <<delayed, cancelled, broken>>
      /\ \/ loadOperationQueue # <<>> /\ Start(next, rest, holders \ {op})
         \/ /\ holders' = holders \ {op}
            /\ fileTasks' = rest
            /\ UNCHANGED <<state, stageTasks, reports>>
  BY <1>1 DEF CheckDownloadQueue, FirstTask
<1>3. /\ rest \in Seq(FileTask) /\ op \in Ops
      /\ \A p \in Ops : /\ Unchecked(p) \in Nat
                        /\ Cardinality(Checks(rest, p)) \in Nat
                        /\ Cardinality(Checks(rest, p)) = Unchecked(p) - IF p = op THEN 1 ELSE 0
  <2>1. rest \in Seq(FileTask) /\ Head(fileTasks) \in FileTask
    BY <1>1, <1>2, TakenCounts
  <2>2. op \in Ops
    BY <1>1, <1>2, <2>1 DEF FileTask
  <2>3. QED
    BY <1>1, <1>2, <2>1, <2>2, TakenCounts
<1>4. Unchecked(op) > 0
  BY <1>3
<1>5. CASE /\ holders' = holders \ {op}
           /\ fileTasks' = rest
           /\ UNCHANGED <<state, stageTasks, reports>>
  <2>1. \A p \in Ops : Unchecked(p)' = Cardinality(Checks(rest, p))
    BY <1>5 DEF Unchecked
  <2>2. IsChecked(op)
    BY <1>2, <1>3, <1>4, <1>5, <2>1 DEF IsChecked
  <2>3. \A p \in Ops : p # op => Untouched(p) /\ ~IsChecked(p)
    BY <1>2, <1>3, <1>5, <2>1 DEF Untouched, IsChecked
  <2>4. \A p \in Ops : Moves(p) /\ (IsChecked(p) => p = op)
    BY <2>2, <2>3 DEF Moves
  <2>5. AccountInv'
    BY <1>2, <1>3, <2>2, <2>4, AccountsKept
  <2>6. Created' = Created /\ cancelled' \subseteq Created'
    BY <1>2, <1>5 DEF Created, StageInv, CancelsAreKnown
  <2>7. StageInv'
    BY <1>2, <1>5, <2>6, StageUntouched
  <2>8. QED
    BY <1>1, <1>3, <2>2, <2>4, <2>5, <2>7
<1>6. CASE loadOperationQueue # <<>> /\ Start(next, rest, holders \ {op})
  <2>1. /\ next \in Ops /\ next \in ToSet(loadOperationQueue) /\ state[next] = "idle"
        /\ next \notin holders
    <3>1. next \in ToSet(loadOperationQueue) /\ next \in Ops
      BY <1>1, <1>6, ToSetOfTail DEF IInv, TypeOK
    <3>2. state[next] = "idle"
      BY <3>1 DEF IInv, WaitingIsIdle
    <3>3. QED
      BY <3>1, <3>2 DEF IInv, HoldersStarted
  <2>2. /\ Unchecked(next) = 0 /\ next # op
        /\ next \notin Staged(stageTasks) /\ next \notin delayed /\ next \notin broken
    <3>1. Account(next)
      BY <2>1 DEF AccountInv
    <3>2. Unchecked(next) = 0
      BY <1>3, <2>1, <3>1 DEF Account, Ends, Ended
    <3>3. QED
      BY <1>4, <2>1, <3>1, <3>2
         DEF IInv, StagedIsNotWaiting, StageInv, DelayedWasStarted, Account
  <2>3. Cardinality(Checks(rest, next)) = Unchecked(next)
    BY <1>3, <2>1, <2>2
  <2>4. /\ holders' = (holders \ {op}) \cup {next}
        /\ \A p \in Ops \ {next} : /\ state'[p] = state[p] /\ reports'[p] = reports[p]
                                   /\ Unchecked(p)' = Cardinality(Checks(rest, p))
        /\ \/ /\ state'[next] = "finished" /\ reports'[next] = reports[next] + 1
              /\ Unchecked(next)' = Unchecked(next) + 1
              /\ UNCHANGED stageTasks
           \/ /\ state'[next] = "downloading" /\ reports'[next] = reports[next]
              /\ Unchecked(next)' = Unchecked(next)
              /\ \E kind \in Beginnings :
                     stageTasks' = Append(stageTasks, [kind |-> kind, op |-> next])
    <3>1. /\ holders' = (holders \ {op}) \cup {next}
          /\ \A p \in Ops \ {next} : /\ state'[p] = state[p] /\ reports'[p] = reports[p]
                                     /\ Unchecked(p)' = Cardinality(Checks(rest, p))
          /\ \/ /\ state'[next] = "finished" /\ reports'[next] = reports[next] + 1
                /\ Unchecked(next)' = Cardinality(Checks(rest, next)) + 1
                /\ UNCHANGED stageTasks
             \/ /\ state'[next] = "downloading" /\ reports'[next] = reports[next]
                /\ Unchecked(next)' = Cardinality(Checks(rest, next))
                /\ \E kind \in Beginnings :
                       stageTasks' = Append(stageTasks, [kind |-> kind, op |-> next])
      BY <1>3, <1>6, <2>1, StartCounts
    <3>2. QED
      BY <2>3, <3>1
  <2>5. IsChecked(op)
    <3>1. /\ state'[op] = state[op] /\ reports'[op] = reports[op]
          /\ Unchecked(op)' = Cardinality(Checks(rest, op))
      BY <1>3, <2>2, <2>4
    <3>2. op \notin holders'
      BY <2>2, <2>4
    <3>3. QED
      BY <1>2, <1>3, <1>4, <3>1, <3>2 DEF IsChecked
  <2>6. Starts(next) /\ ~IsChecked(next)
    BY <1>2, <1>3, <2>1, <2>4 DEF Starts, IsChecked
  <2>7. ASSUME NEW p \in Ops, p # op, p # next
        PROVE  Untouched(p) /\ ~IsChecked(p)
    <3>1. /\ state'[p] = state[p] /\ reports'[p] = reports[p]
          /\ Unchecked(p)' = Unchecked(p) /\ Unchecked(p) \in Nat
      BY <1>3, <2>4, <2>7
    <3>2. p \in holders' <=> p \in holders
      BY <2>4, <2>7
    <3>3. QED
      BY <1>2, <3>1, <3>2 DEF Untouched, IsChecked
  <2>8. \A p \in Ops : Moves(p) /\ (IsChecked(p) => p = op)
    BY <2>5, <2>6, <2>7 DEF Moves
  <2>9. AccountInv'
    BY <1>2, <1>3, <2>5, <2>8, AccountsKept
  <2>10. \A p \in Ops : state[p] \in {"downloading", "failed", "finished"} => state'[p] = state[p]
    BY <2>1, <2>4
  <2>11. cancelled' \subseteq Created'
    BY <1>2, <2>1, <2>4 DEF Created, StageInv, CancelsAreKnown
  <2>12. StageInv'
    BY <1>2, <2>1, <2>2, <2>4, <2>10, <2>11, BeginningAdded
  <2>13. QED
    BY <1>1, <1>3, <2>5, <2>8, <2>9, <2>12
<1>7. QED
  BY <1>2, <1>5, <1>6

\* The first task of stageQueue is begun by one that is neither broken nor
\* delayed, or is the cancellation of a cancelled operation.
LEMMA FirstStageTask ==
    ASSUME IInv, StageInv, stageTasks # <<>>
    PROVE  /\ Head(stageTasks) \in StageTask /\ Head(stageTasks).op \in Ops
           /\ Begins(Head(stageTasks)) =>
                 /\ state[Head(stageTasks).op] = "downloading"
                 /\ Head(stageTasks).op \notin broken \cup delayed
           /\ ~Begins(Head(stageTasks)) => Head(stageTasks).op \in cancelled
<1>1. stageTasks \in Seq(StageTask) /\ BeginsFirst(stageTasks)
  BY DEF IInv, TypeOK, StageInv
<1>2. Head(stageTasks) \in StageTask /\ Head(stageTasks) \in ToSet(stageTasks)
  BY <1>1, StagedOfTail, TailOfOrdered
<1>3. QED
  BY <1>2 DEF StageInv, BeginsOnce, CancelsAreKnown, StageTask

\* A start that fails breaks its operation.
LEMMA FailAccounts ==
    ASSUME IInv, IInv', AccountInv, StageInv, Fail
    PROVE  (\A p \in Ops : Moves(p) /\ ~IsChecked(p)) /\ AccountInv' /\ StageInv'
<1>1. PICK op : op = Head(stageTasks).op
  OBVIOUS
<1>2. /\ stageTasks # <<>> /\ Head(stageTasks).kind = "bad" /\ Report(op, fileTasks)
      /\ broken' = broken \cup {op} /\ stageTasks' = Tail(stageTasks)
      /\ UNCHANGED <<delayed, state, holders, cancelled, unearned>>
  BY <1>1 DEF Fail, FirstStage
<1>3. op \in Ops /\ state[op] = "downloading" /\ op \notin broken \cup delayed
  BY <1>1, <1>2, FirstStageTask DEF Begins, Beginnings
<1>4. \A p \in Ops : Unchecked(p) \in Nat /\ Cardinality(Checks(fileTasks, p)) = Unchecked(p)
  BY ChecksFinite DEF IInv, TypeOK, Unchecked
<1>5. fileTasks \in Seq(FileTask)
  BY DEF IInv, TypeOK
<1>6. /\ reports'[op] = reports[op] + 1 /\ Unchecked(op)' = Unchecked(op) + 1
      /\ \A p \in Ops \ {op} : reports'[p] = reports[p] /\ Unchecked(p)' = Unchecked(p)
  BY <1>2, <1>3, <1>4, <1>5, ReportCounts
<1>7. IsBroken(op) /\ ~IsChecked(op)
  BY <1>2, <1>3, <1>4, <1>6 DEF IsBroken, IsChecked
<1>8. \A p \in Ops : p # op => Untouched(p) /\ ~IsChecked(p)
  BY <1>2, <1>4, <1>6 DEF Untouched, IsChecked
<1>9. \A p \in Ops : Moves(p) /\ ~IsChecked(p)
  BY <1>7, <1>8 DEF Moves
<1>10. AccountInv'
  BY <1>2, <1>9, AccountsKept
<1>11. Created' = Created
  BY <1>2 DEF Created
<1>12. StageInv'
  BY <1>2, <1>3, <1>1, <1>11, StageTaken
<1>13. QED
  BY <1>9, <1>10, <1>12

\* Nobody hears of the request.
LEMMA RequestAccounts ==
    ASSUME IInv, IInv', AccountInv, StageInv, Request
    PROVE  (\A op \in Ops : Untouched(op)) /\ AccountInv' /\ StageInv'
<1>1. /\ stageTasks # <<>> /\ Head(stageTasks).kind = "missing" /\ stageTasks' = Tail(stageTasks)
      /\ UNCHANGED <<fileTasks, delayed, state, holders, reports, cancelled, broken, unearned>>
  BY DEF Request, FirstStage
<1>2. \A op \in Ops : Untouched(op)
  BY <1>1 DEF Untouched, Unchecked
<1>3. AccountInv'
  BY <1>1, <1>2, AccountsKept DEF Moves
<1>4. Created' = Created
  BY <1>1 DEF Created
<1>5. Head(stageTasks).op \notin delayed
  BY <1>1, FirstStageTask DEF Begins, Beginnings
<1>6. StageInv'
  BY <1>1, <1>4, <1>5, StageTaken
<1>7. QED
  BY <1>2, <1>3, <1>6

\* A download that is not broken ends once, and may be delayed before.
LEMMA FinishMoves ==
    ASSUME IInv, NEW op \in Ops, op \notin broken, Finish(op), UNCHANGED <<holders, broken>>
    PROVE  /\ \A p \in Ops : Moves(p) /\ ~IsChecked(p)
           /\ \A p \in Ops \ {op} : state'[p] = state[p]
           /\ delayed' \subseteq delayed \cup {op} /\ delayed \ {op} \subseteq delayed'
           /\ op \in delayed' => state'[op] = "downloading"
<1>1. \A p \in Ops : Unchecked(p) \in Nat /\ Cardinality(Checks(fileTasks, p)) = Unchecked(p)
  BY ChecksFinite DEF IInv, TypeOK, Unchecked
<1>2. fileTasks \in Seq(FileTask) /\ state \in [Ops -> States]
  BY DEF IInv, TypeOK
<1>3. CASE UNCHANGED <<fileTasks, state, reports>>
  <2>1. \A p \in Ops : Untouched(p) /\ ~IsChecked(p)
    BY <1>1, <1>3 DEF Untouched, Unchecked, IsChecked
  <2>2. delayed' = delayed \ {op} \/ (delayed' = delayed \cup {op} /\ state[op] = "downloading")
    BY DEF Finish
  <2>3. QED
    BY <1>3, <2>1, <2>2 DEF Moves
<1>4. CASE /\ state[op] = "downloading"
           /\ state' = [state EXCEPT ![op] = "finished"]
           /\ Report(op, fileTasks)
           /\ delayed' = delayed \ {op}
  <2>1. /\ reports'[op] = reports[op] + 1 /\ Unchecked(op)' = Unchecked(op) + 1
        /\ \A p \in Ops \ {op} : reports'[p] = reports[p] /\ Unchecked(p)' = Unchecked(p)
    BY <1>1, <1>2, <1>4, ReportCounts
  <2>2. state'[op] = "finished" /\ \A p \in Ops \ {op} : state'[p] = state[p]
    BY <1>2, <1>4
  <2>3. IsEnded(op) /\ ~IsChecked(op)
    BY <1>1, <1>4, <2>1, <2>2 DEF IsEnded, IsChecked
  <2>4. \A p \in Ops : p # op => Untouched(p) /\ ~IsChecked(p)
    BY <1>1, <2>1, <2>2 DEF Untouched, IsChecked
  <2>5. QED
    BY <1>4, <2>2, <2>3, <2>4 DEF Moves
<1>5. QED
  BY <1>3, <1>4 DEF Finish

LEMMA FinishStageAccounts ==
    ASSUME IInv, IInv', AccountInv, StageInv, FinishStage
    PROVE  (\A p \in Ops : Moves(p) /\ ~IsChecked(p)) /\ AccountInv' /\ StageInv'
<1>1. PICK op : op = Head(stageTasks).op
  OBVIOUS
<1>2. /\ stageTasks # <<>> /\ Head(stageTasks).kind = "complete" /\ Finish(op)
      /\ stageTasks' = Tail(stageTasks)
      /\ UNCHANGED <<holders, cancelled, broken, unearned>>
  BY <1>1 DEF FinishStage, FirstStage
<1>3. op \in Ops /\ op \notin broken
  BY <1>1, <1>2, FirstStageTask DEF Begins, Beginnings
<1>4. /\ \A p \in Ops : Moves(p) /\ ~IsChecked(p)
      /\ \A p \in Ops \ {op} : state'[p] = state[p]
      /\ delayed' \subseteq delayed \cup {op}
      /\ op \in delayed' => state'[op] = "downloading"
  BY <1>2, <1>3, FinishMoves
<1>5. AccountInv'
  BY <1>2, <1>4, AccountsKept
<1>6. Created' = Created
  BY <1>2, <1>3, FinishEffect
<1>7. StageInv'
  BY <1>2, <1>3, <1>1, <1>4, <1>6, StageTaken
<1>8. QED
  BY <1>4, <1>5, <1>7

LEMMA RetryStageAccounts ==
    ASSUME IInv, IInv', AccountInv, StageInv, NEW op \in Ops, RetryStage(op)
    PROVE  (\A p \in Ops : Moves(p) /\ ~IsChecked(p)) /\ AccountInv' /\ StageInv'
<1>1. /\ op \in delayed /\ Finish(op)
      /\ UNCHANGED <<stageTasks, holders, cancelled, broken, unearned>>
  BY DEF RetryStage
<1>2. op \notin broken
  BY <1>1 DEF StageInv, DelayedWasStarted
<1>3. /\ \A p \in Ops : Moves(p) /\ ~IsChecked(p)
      /\ \A p \in Ops \ {op} : state'[p] = state[p]
      /\ delayed' \subseteq delayed \cup {op}
      /\ op \in delayed' => state'[op] = "downloading"
  BY <1>1, <1>2, FinishMoves
<1>4. AccountInv'
  BY <1>1, <1>3, AccountsKept
<1>5. Created' = Created
  BY <1>1, FinishEffect
<1>6. /\ stageTasks \in Seq(StageTask) /\ delayed \in SUBSET Ops
      /\ \A t \in ToSet(stageTasks) : t.op \in Ops
  BY StageTasksHaveOps DEF IInv, TypeOK
<1>7. BeginsOnce'
  BY <1>1, <1>3, <1>6 DEF StageInv, BeginsOnce
<1>8. CancelsAreKnown'
  BY <1>1, <1>5 DEF StageInv, CancelsAreKnown
<1>9. DelayedWasStarted'
  BY <1>1, <1>2, <1>3, <1>6 DEF StageInv, DelayedWasStarted
<1>10. QED
  BY <1>1, <1>3, <1>4, <1>7, <1>8, <1>9 DEF StageInv

\* A cancelled operation ends unless it has.
LEMMA CancelStageAccounts ==
    ASSUME IInv, IInv', AccountInv, StageInv, CancelStage
    PROVE  (\A p \in Ops : Moves(p) /\ ~IsChecked(p)) /\ AccountInv' /\ StageInv'
<1>1. PICK op : op = Head(stageTasks).op
  OBVIOUS
<1>2. /\ stageTasks # <<>> /\ Head(stageTasks).kind = "cancel"
      /\ stageTasks' = Tail(stageTasks)
      /\ IF Ended(op)
         THEN UNCHANGED <<fileTasks, state, reports>>
         ELSE /\ state' = [state EXCEPT ![op] = "failed"]
              /\ Report(op, fileTasks)
      /\ UNCHANGED <<delayed, holders, cancelled, broken, unearned>>
  BY <1>1 DEF CancelStage, FirstStage, Ended
<1>3. op \in Ops /\ op \in cancelled /\ op \in Created
  BY <1>1, <1>2, FirstStageTask DEF Begins, Beginnings, StageInv, CancelsAreKnown
<1>4. \A p \in Ops : Unchecked(p) \in Nat /\ Cardinality(Checks(fileTasks, p)) = Unchecked(p)
  BY ChecksFinite DEF IInv, TypeOK, Unchecked
<1>5. fileTasks \in Seq(FileTask) /\ state \in [Ops -> States]
  BY DEF IInv, TypeOK
<1>6. /\ \A p \in Ops : Moves(p) /\ ~IsChecked(p)
      /\ \A p \in Ops \ {op} : state'[p] = state[p]
      /\ state'[op] \in {"finished", "failed"}
  <2>1. CASE Ended(op)
    <3>1. \A p \in Ops : Untouched(p) /\ ~IsChecked(p)
      BY <1>2, <1>4, <2>1 DEF Untouched, Unchecked, IsChecked
    <3>2. QED
      BY <1>2, <2>1, <3>1 DEF Moves, Ended
  <2>2. CASE ~Ended(op)
    <3>1. /\ reports'[op] = reports[op] + 1 /\ Unchecked(op)' = Unchecked(op) + 1
          /\ \A p \in Ops \ {op} : reports'[p] = reports[p] /\ Unchecked(p)' = Unchecked(p)
      BY <1>2, <1>3, <1>4, <1>5, <2>2, ReportCounts
    <3>2. state'[op] = "failed" /\ \A p \in Ops \ {op} : state'[p] = state[p]
      BY <1>2, <1>3, <1>5, <2>2
    <3>3. IsEnded(op) /\ ~IsChecked(op)
      BY <1>2, <1>3, <1>4, <2>2, <3>1, <3>2 DEF IsEnded, IsChecked
    <3>4. \A p \in Ops : p # op => Untouched(p) /\ ~IsChecked(p)
      BY <1>2, <1>4, <3>1, <3>2 DEF Untouched, IsChecked
    <3>5. QED
      BY <3>2, <3>3, <3>4 DEF Moves
  <2>3. QED
    BY <2>1, <2>2
<1>7. AccountInv'
  BY <1>2, <1>6, AccountsKept
<1>8. Created' = Created
  BY <1>3, <1>6 DEF Created
<1>9. op \in delayed => op \notin broken
  BY DEF StageInv, DelayedWasStarted
<1>10. StageInv'
  BY <1>2, <1>1, <1>6, <1>8, <1>9, StageTaken
<1>11. QED
  BY <1>6, <1>7, <1>10

-----------------------------------------------------------------------------
(* Which operation the table of names knows.                               *)

FileInv == PathsAreOwn /\ InCharge

\* What the cases below need of the invariants.
LEMMA FileTypes ==
    ASSUME IInv, StageInv
    PROVE  /\ loadOperationPaths \in [Files -> Ops \cup {0}]
           /\ \A f \in Files : loadOperationPaths[f] \in Created \cup {0}
           /\ file \in [Ops -> Files \cup {0}] /\ \A op \in Created : file[op] \in Files
           /\ Created \subseteq Ops /\ cancelled \subseteq Created /\ 0 \notin Ops
  BY DEF IInv, TypeOK, EnteredAreCreated, Created, StageInv, CancelsAreKnown, Ops

\* An operation is active after a step only if it was, or is cancelled.
LEMMA ActiveAfter ==
    ASSUME IInv, AccountInv, NEW op \in Ops, Moves(op)
    PROVE  /\ Active(op)' => Active(op) \/ op \in cancelled
           /\ IsChecked(op) => Active(op)
           /\ IsChecked(op) /\ Active(op)' => op \in cancelled
<1>1. reports[op] \in Nat /\ Unchecked(op) \in Nat /\ state[op] \in States
  <2>1. fileTasks \in Seq(FileTask) /\ reports \in [Ops -> Nat] /\ state \in [Ops -> States]
    BY DEF IInv, TypeOK
  <2>2. QED
    BY <2>1, ChecksFinite DEF Unchecked
<1>2. Account(op)
  BY DEF AccountInv
<1>3. QED
  BY <1>1, <1>2, ActiveKept

\* A step that leaves the table and the set of operations alone.
LEMMA FilesUntouched ==
    ASSUME IInv, AccountInv, StageInv, FileInv,
           UNCHANGED <<loadOperationPaths, file, cancelled>>, Created' = Created,
           \A op \in Ops : Moves(op)
    PROVE  FileInv'
<1>1. PathsAreOwn'
  BY DEF FileInv, PathsAreOwn
<1>2. InCharge'
  <2> SUFFICES ASSUME NEW op \in Created, Active(op)',
                      \A p \in cancelled : file[p] # file[op]
               PROVE  loadOperationPaths[file[op]] = op
    BY DEF InCharge
  <2>1. op \in Ops
    BY FileTypes
  <2>2. Active(op) \/ op \in cancelled
    BY <2>1, ActiveAfter
  <2>3. QED
    BY <2>2 DEF FileInv, InCharge
<1>3. QED
  BY <1>1, <1>2 DEF FileInv

\* A new operation is entered only if no uncancelled one of its file is active.
LEMMA LoadNewFiles ==
    ASSUME IInv, AccountInv, StageInv, FileInv, LoadNew, \A op \in Ops : Moves(op)
    PROVE  FileInv'
<1>1. PICK op, f : op = Cardinality(Created) + 1 /\ f = Head(fileTasks).file
  OBVIOUS
<1>2. op \in Ops /\ op \notin Created /\ f \in Files /\ state[op] = "none"
  BY <1>1, NextNumber DEF LoadNew
<1>3. /\ loadOperationPaths[f] = 0
      /\ loadOperationPaths' = [loadOperationPaths EXCEPT ![f] = op]
      /\ file' = [file EXCEPT ![op] = f]
      /\ UNCHANGED cancelled
  BY <1>1 DEF LoadNew
<1>4. Created' \subseteq Created \cup {op}
  <2>1. state \in [Ops -> States]
    BY DEF IInv, TypeOK
  <2>2. \A p \in Ops : p # op => state'[p] = state[p]
    BY <1>1, <1>2, <2>1 DEF LoadNew, Start
  <2>3. QED
    BY <2>2 DEF Created
<1>5. /\ file'[op] = f /\ loadOperationPaths'[f] = op
      /\ \A p \in Created : file'[p] = file[p]
      /\ \A g \in Files \ {f} : loadOperationPaths'[g] = loadOperationPaths[g]
  BY <1>2, <1>3, FileTypes
<1>6. PathsAreOwn'
  <2> SUFFICES ASSUME NEW g \in Files, loadOperationPaths'[g] # 0
               PROVE  file'[loadOperationPaths'[g]] = g
    BY DEF PathsAreOwn
  <2>1. CASE g = f
    BY <1>5, <2>1
  <2>2. CASE g # f
    BY <1>5, <2>2, FileTypes DEF FileInv, PathsAreOwn
  <2>3. QED
    BY <2>1, <2>2
<1>7. InCharge'
  <2> SUFFICES ASSUME NEW p \in Created', Active(p)',
                      \A q \in cancelled' : file'[q] # file'[p]
               PROVE  loadOperationPaths'[file'[p]] = p
    BY DEF InCharge
  <2>1. CASE p = op
    BY <1>5, <2>1
  <2>2. CASE p # op
    <3>1. p \in Created /\ p \in Ops /\ file'[p] = file[p] /\ file[p] \in Files /\ p # 0
      BY <1>4, <1>5, <2>2, FileTypes
    <3>2. \A q \in cancelled : file[q] # file[p]
      BY <1>3, <1>5, <3>1, FileTypes
    <3>3. Active(p)
      BY <3>1, <3>2, ActiveAfter
    <3>4. loadOperationPaths[file[p]] = p
      BY <3>1, <3>2, <3>3 DEF FileInv, InCharge
    <3>5. file[p] # f
      BY <1>3, <3>1, <3>4
    <3>6. QED
      BY <1>5, <3>1, <3>4, <3>5
  <2>3. QED
    BY <2>1, <2>2
<1>8. QED
  BY <1>6, <1>7 DEF FileInv

\* A load is cancelled, which the table forgets.
LEMMA CancelFiles ==
    ASSUME IInv, AccountInv, StageInv, FileInv, Cancel, \A op \in Ops : Untouched(op)
    PROVE  FileInv'
<1>1. PICK f, op : f = Head(fileTasks).file /\ op = loadOperationPaths[f]
  OBVIOUS
<1>2. /\ loadOperationPaths' = [loadOperationPaths EXCEPT ![f] = 0]
      /\ op # 0 => cancelled' = cancelled \cup {op}
      /\ op = 0 => cancelled' = cancelled
      /\ UNCHANGED <<file, state>>
  BY <1>1 DEF Cancel
<1>3. Created' = Created
  BY <1>2 DEF Created
<1>4. \A g \in Files : IF g = f THEN loadOperationPaths'[g] = 0
                       ELSE loadOperationPaths'[g] = loadOperationPaths[g]
  BY <1>2, FileTypes
<1>5. PathsAreOwn'
  BY <1>2, <1>4 DEF FileInv, PathsAreOwn
<1>6. InCharge'
  <2> SUFFICES ASSUME NEW p \in Created, Active(p)',
                      \A q \in cancelled' : file[q] # file[p]
               PROVE  loadOperationPaths'[file[p]] = p
    BY <1>2, <1>3 DEF InCharge
  <2>1. p \in Ops /\ p # 0 /\ file[p] \in Files
    BY FileTypes
  <2>2. Active(p)
    BY <2>1 DEF Untouched, Active
  <2>3. \A q \in cancelled : file[q] # file[p]
    BY <1>2
  <2>4. loadOperationPaths[file[p]] = p
    BY <2>2, <2>3 DEF FileInv, InCharge
  <2>5. file[p] # f
    BY <1>1, <1>2, <2>1, <2>4
  <2>6. QED
    BY <1>4, <2>1, <2>4, <2>5
<1>7. QED
  BY <1>5, <1>6 DEF FileInv

\* The end of an operation makes the table forget its file; another active
\* operation of the file would have been known instead of it.
LEMMA CheckFiles ==
    ASSUME IInv, AccountInv, StageInv, FileInv, CheckDownloadQueue,
           NEW op \in Ops, op = Head(fileTasks).op, IsChecked(op),
           \A p \in Ops : Moves(p)
    PROVE  FileInv'
<1>1. /\ loadOperationPaths' = [loadOperationPaths EXCEPT ![file[op]] = 0]
      /\ UNCHANGED <<file, cancelled>>
  BY DEF CheckDownloadQueue
<1>2. Created' = Created
  <2>1. state \in [Ops -> States] /\ loadOperationQueue \in Seq(Ops)
    BY DEF IInv, TypeOK
  <2>2. CASE state' = state
    BY <2>2 DEF Created
  <2>3. ASSUME loadOperationQueue # <<>>, NEW next, next = Head(loadOperationQueue),
               \/ state' = [state EXCEPT ![next] = "finished"]
               \/ state' = [state EXCEPT ![next] = "downloading"]
        PROVE  Created' = Created
    <3>1. next \in ToSet(loadOperationQueue) /\ next \in Ops
      BY <2>1, <2>3, ToSetOfTail
    <3>2. state[next] = "idle"
      BY <3>1 DEF IInv, WaitingIsIdle
    <3>3. state'[next] # "none" /\ \A p \in Ops : p # next => state'[p] = state[p]
      BY <2>1, <2>3, <3>1
    <3>4. QED
      BY <3>1, <3>2, <3>3 DEF Created
  <2>4. QED
    BY <2>2, <2>3 DEF CheckDownloadQueue, Start
<1>3. \A g \in Files : IF g = file[op] THEN loadOperationPaths'[g] = 0
                       ELSE loadOperationPaths'[g] = loadOperationPaths[g]
  BY <1>1, FileTypes
<1>4. PathsAreOwn'
  BY <1>1, <1>3 DEF FileInv, PathsAreOwn
<1>5. InCharge'
  <2> SUFFICES ASSUME NEW p \in Created, Active(p)',
                      \A q \in cancelled : file[q] # file[p]
               PROVE  loadOperationPaths'[file[p]] = p
    BY <1>1, <1>2 DEF InCharge
  <2>1. p \in Ops /\ file[p] \in Files
    BY FileTypes
  <2>2. Active(p) /\ p # op
    BY <2>1, ActiveAfter
  <2>3. loadOperationPaths[file[p]] = p
    BY <2>2 DEF FileInv, InCharge
  <2>4. file[p] # file[op]
    <3>1. Active(op) /\ op \in Created
      <4>1. reports[op] \in Nat /\ Unchecked(op) \in Nat
        <5>1. fileTasks \in Seq(FileTask) /\ reports \in [Ops -> Nat]
          BY DEF IInv, TypeOK
        <5>2. QED
          BY <5>1, ChecksFinite DEF Unchecked
      <4>2. Account(op) /\ Unchecked(op) > 0
        BY DEF AccountInv, IsChecked
      <4>3. state[op] # "none"
        BY <4>1, <4>2 DEF Account, Ends, Ended, Breaks
      <4>4. QED
        BY <4>2, <4>3 DEF Active, Created
    <3>2. QED
      BY <2>2, <2>3, <3>1 DEF FileInv, InCharge
  <2>5. QED
    BY <1>3, <2>1, <2>3, <2>4
<1>6. QED
  BY <1>4, <1>5 DEF FileInv

\* The three together.
EndInv == AccountInv /\ StageInv /\ FileInv

LEMMA InitEndInv == Init => EndInv
<1> SUFFICES ASSUME Init
             PROVE  EndInv
  OBVIOUS
<1>1. fileTasks = <<>> /\ fileTasks \in Seq(FileTask)
  BY DEF Init
<1>2. \A op \in Ops : Unchecked(op) = 0
  <2>1. \A op \in Ops : Checks(fileTasks, op) = {}
    BY <1>1 DEF Checks
  <2>2. QED
    BY <2>1, FS_EmptySet DEF Unchecked
<1>3. \A op \in Ops : Account(op)
  BY <1>2 DEF Init, Account, Ends, Ended, Breaks
<1>4. unearned <= Cardinality(Spent)
  <2>1. Spent = {} /\ unearned = 0
    BY DEF Init, Spent
  <2>2. QED
    BY <2>1, FS_EmptySet
<1>5. StageInv
  BY DEF Init, StageInv, BeginsFirst, BeginsOnce, CancelsAreKnown, DelayedWasStarted, ToSet
<1>6. FileInv
  BY DEF Init, FileInv, PathsAreOwn, InCharge, Created
<1>7. QED
  BY <1>3, <1>4, <1>5, <1>6 DEF EndInv, AccountInv

LEMMA NextEndInv == IInv /\ IInv' /\ EndInv /\ [Next]_vars => EndInv'
<1> SUFFICES ASSUME IInv, IInv', EndInv, [Next]_vars
             PROVE  EndInv'
  OBVIOUS
<1>1. AccountInv /\ StageInv /\ FileInv
  BY DEF EndInv
<1>2. CASE UNCHANGED vars
  <2>1. AccountInv'
    BY <1>1, <1>2 DEF vars, AccountInv, Account, Ends, Ended, Breaks, Unchecked, Spent
  <2>2. StageInv'
    BY <1>1, <1>2 DEF vars, StageInv, BeginsOnce, CancelsAreKnown, DelayedWasStarted, Created
  <2>3. FileInv'
    BY <1>1, <1>2 DEF vars, pool, FileInv, PathsAreOwn, InCharge, Active, Unchecked, Created
  <2>4. QED
    BY <2>1, <2>2, <2>3 DEF EndInv
<1>3. ASSUME NEW task \in FileTask, task.kind # "check", Call(task)
      PROVE  EndInv'
  <2>1. (\A op \in Ops : Untouched(op)) /\ AccountInv' /\ StageInv'
    BY <1>1, <1>3, CallAccounts
  <2>2. UNCHANGED <<loadOperationPaths, file, cancelled>> /\ Created' = Created
    BY <1>3 DEF Call, pool, Created
  <2>3. FileInv'
    BY <1>1, <2>1, <2>2, FilesUntouched DEF Moves
  <2>4. QED
    BY <2>1, <2>3 DEF EndInv
<1>4. ASSUME NEW f \in Files, CancelLoadFile(f)
      PROVE  EndInv'
  <2>1. CancelTask(f) \in FileTask /\ CancelTask(f).kind # "check"
    BY DEF CancelTask, FileTask
  <2>2. QED
    BY <1>3, <1>4, <2>1 DEF CancelLoadFile
<1>5. ASSUME NEW f \in Files, NEW urgent \in BOOLEAN, LoadFile(f, urgent)
      PROVE  EndInv'
  <2>1. LoadTask(f, urgent) \in FileTask /\ LoadTask(f, urgent).kind # "check"
    BY DEF LoadTask, FileTask
  <2>2. QED
    BY <1>3, <1>5, <2>1 DEF LoadFile
<1>6. CASE LoadAgain
  <2>1. (\A op \in Ops : Untouched(op)) /\ AccountInv' /\ StageInv'
    BY <1>1, <1>6, LoadAgainAccounts
  <2>2. UNCHANGED <<loadOperationPaths, file, cancelled>> /\ Created' = Created
    BY <1>6 DEF LoadAgain, Created
  <2>3. FileInv'
    BY <1>1, <2>1, <2>2, FilesUntouched DEF Moves
  <2>4. QED
    BY <2>1, <2>3 DEF EndInv
<1>7. CASE LoadNew
  BY <1>1, <1>7, LoadNewAccounts, LoadNewFiles DEF EndInv
<1>8. CASE Cancel
  BY <1>1, <1>8, CancelAccounts, CancelFiles DEF EndInv
<1>9. CASE CheckDownloadQueue
  BY <1>1, <1>9, CheckAccounts, CheckFiles DEF EndInv
<1>10. CASE Fail
  <2>1. (\A op \in Ops : Moves(op)) /\ AccountInv' /\ StageInv'
    BY <1>1, <1>10, FailAccounts
  <2>2. UNCHANGED <<loadOperationPaths, file, cancelled>> /\ Created' = Created
    BY <1>10 DEF Fail, pool, Created
  <2>3. QED
    BY <1>1, <2>1, <2>2, FilesUntouched DEF EndInv
<1>11. CASE Request
  <2>1. (\A op \in Ops : Untouched(op)) /\ AccountInv' /\ StageInv'
    BY <1>1, <1>11, RequestAccounts
  <2>2. UNCHANGED <<loadOperationPaths, file, cancelled>> /\ Created' = Created
    BY <1>11 DEF Request, pool, Created
  <2>3. FileInv'
    BY <1>1, <2>1, <2>2, FilesUntouched DEF Moves
  <2>4. QED
    BY <2>1, <2>3 DEF EndInv
<1>12. CASE FinishStage
  <2>1. (\A op \in Ops : Moves(op)) /\ AccountInv' /\ StageInv'
    BY <1>1, <1>12, FinishStageAccounts
  <2>2. UNCHANGED <<loadOperationPaths, file, cancelled>>
    BY <1>12 DEF FinishStage, pool
  <2>3. Created' = Created
    BY <1>12, StageTaskTaken, FinishEffect DEF FinishStage, FirstStage
  <2>4. QED
    BY <1>1, <2>1, <2>2, <2>3, FilesUntouched DEF EndInv
<1>13. ASSUME NEW op \in Ops, RetryStage(op)
       PROVE  EndInv'
  <2>1. (\A p \in Ops : Moves(p)) /\ AccountInv' /\ StageInv'
    BY <1>1, <1>13, RetryStageAccounts
  <2>2. UNCHANGED <<loadOperationPaths, file, cancelled>> /\ Created' = Created
    BY <1>13, FinishEffect DEF RetryStage, pool
  <2>3. QED
    BY <1>1, <2>1, <2>2, FilesUntouched DEF EndInv
<1>14. CASE CancelStage
  <2>1. (\A p \in Ops : Moves(p)) /\ AccountInv' /\ StageInv'
    BY <1>1, <1>14, CancelStageAccounts
  <2>2. UNCHANGED <<loadOperationPaths, file, cancelled>>
    BY <1>14 DEF CancelStage, pool
  <2>3. Created' = Created
    <3>1. PICK op \in Ops : op = Head(stageTasks).op /\ op \in Created
      BY <1>14, StageTaskTaken DEF CancelStage, FirstStage
    <3>2. state' = state \/ state' = [state EXCEPT ![op] = "failed"]
      BY <1>14, <3>1 DEF CancelStage
    <3>3. state \in [Ops -> States]
      BY DEF IInv, TypeOK
    <3>4. QED
      BY <3>1, <3>2, <3>3 DEF Created
  <2>4. QED
    BY <1>1, <2>1, <2>2, <2>3, FilesUntouched DEF EndInv
<1>15. QED
  BY <1>2, <1>4, <1>5, <1>6, <1>7, <1>8, <1>9, <1>10, <1>11, <1>12, <1>13, <1>14
     DEF Next, Callers, FileLoaderQueue, StageQueue

-----------------------------------------------------------------------------
(* The theorems.                                                           *)

\* The strengthened invariant holds in every reachable state.
THEOREM Invariance == Spec => []IInv
BY InitIInv, NextIInv, PTL DEF Spec

\* Every variable of the pool keeps its type: in particular a call creates at
\* most one operation, and a rename is tried again at most twice.
THEOREM Typing == Spec => []TypeOK
<1>1. IInv => TypeOK
  BY DEF IInv
<1>2. QED
  BY <1>1, Invariance, PTL

\* The counter of checkDownloadQueue drifts from the number of started
\* operations only by slots that were given back without being held.
THEOREM CounterMatchesSlots == Spec => []SlotsAreCounted
<1>1. IInv => SlotsAreCounted
  BY DEF IInv
<1>2. QED
  BY <1>1, Invariance, PTL

\* More than three operations run at a time only if slots were given back that
\* were not held.
THEOREM ThreeSlots == Spec => []AtMostThree
<1>1. IInv => AtMostThree
  <2> SUFFICES ASSUME IInv
               PROVE  Cardinality(holders) <= 3 + unearned
    BY DEF AtMostThree
  <2>1. Cardinality(holders) \in Nat
    BY HoldersFinite
  <2>2. unearned \in Nat /\ currentCount = Cardinality(holders) - unearned /\ currentCount <= 3
    BY DEF IInv, TypeOK, SlotsAreCounted, CountIsInBounds
  <2>3. QED
    BY <2>1, <2>2
<1>2. QED
  BY <1>1, Invariance, PTL

\* While an operation waits, a slot is in use whose end starts it, and no
\* operation waits that was started or cancelled.
THEOREM WaitingHasASlotAhead == Spec => []WaitingIsWokenUp
<1>1. IInv => WaitingIsWokenUp
  BY DEF IInv, CountIsInBounds, WaitingIsIdle, WaitingIsWokenUp, ToSet
<1>2. QED
  BY <1>1, Invariance, PTL

\* The account of every operation and the table of names are right in every
\* reachable state.
THEOREM Endings == Spec => []EndInv
<1>1. Init => EndInv
  BY InitEndInv
<1>2. IInv /\ IInv' /\ EndInv /\ [Next]_vars => EndInv'
  BY NextEndInv
<1>3. QED
  BY <1>1, <1>2, Invariance, PTL DEF Spec

\* The end of an operation is reported once, unless its start failed and it
\* was cancelled too.
THEOREM EndsAreReportedOnce == Spec => []ReportedOnce
<1>1. IInv /\ EndInv => ReportedOnce
  <2> SUFFICES ASSUME IInv, EndInv, NEW op \in Ops, op \notin cancelled \cap broken
               PROVE  reports[op] <= 1
    BY DEF ReportedOnce
  <2>1. Account(op)
    BY DEF EndInv, AccountInv
  <2>2. QED
    BY <2>1 DEF Account, Ends, Breaks
<1>2. QED
  BY <1>1, Invariance, Endings, PTL

\* A slot that was not held is given back only for a cancelled operation, and
\* once for each.
THEOREM SlotsLostByCancel == Spec => []UnearnedNeedsCancel
<1>1. IInv /\ EndInv => UnearnedNeedsCancel
  <2> SUFFICES ASSUME IInv, EndInv
               PROVE  unearned <= Cardinality(cancelled)
    BY DEF UnearnedNeedsCancel
  <2>1. Spent \subseteq cancelled /\ cancelled \subseteq Ops
    BY DEF Spent, IInv, TypeOK
  <2>2. IsFiniteSet(Ops)
    BY LoaderAssumption, FS_Interval DEF Ops
  <2>3. /\ Cardinality(Spent) \in Nat /\ Cardinality(cancelled) \in Nat
        /\ Cardinality(Spent) <= Cardinality(cancelled)
    BY <2>1, <2>2, FS_Subset, FS_CardinalityType
  <2>4. unearned \in Nat /\ unearned <= Cardinality(Spent)
    BY DEF IInv, TypeOK, EndInv, AccountInv
  <2>5. QED
    BY <2>3, <2>4
<1>2. QED
  BY <1>1, Invariance, Endings, PTL

\* Two operations load the same file at a time only after a load of that file
\* was cancelled.
THEOREM OneOperationPerFile == Spec => []OnePerFile
<1>1. IInv /\ EndInv => OnePerFile
  <2> SUFFICES ASSUME IInv, EndInv, NEW a \in Created, NEW b \in Created,
                      file[a] = file[b], a # b, reports[a] = 0, reports[b] = 0,
                      \A c \in cancelled : file[c] # file[a]
               PROVE  FALSE
    BY DEF OnePerFile
  <2>1. loadOperationPaths[file[a]] = a /\ loadOperationPaths[file[b]] = b
    BY DEF EndInv, FileInv, InCharge, Active
  <2>2. QED
    BY <2>1
<1>2. QED
  BY <1>1, Invariance, Endings, PTL

=============================================================================
