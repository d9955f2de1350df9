--------------------------- MODULE HotReload_proofs ---------------------------
(***************************************************************************)
(* Safety of HotReload for any number of connections, changes and          *)
(* requests.                                                               *)
(*                                                                         *)
(* The argument.  Every change received is done with or counted in         *)
(* changeFiles, the one being counted off is in both (Counted), and no     *)
(* task is due more than was received (DueReceived): when the counter is   *)
(* zero, whatever any task is due is done with.  With one connection, a    *)
(* state that looks free is never written while a reload is pending: the   *)
(* stale writes of the file thread carry a bit, and a stale write of the   *)
(* receiver that looks free was read when nothing was pending, and nothing *)
(* else makes a reload pending (BusyLooksBusy).  The flag the task polls   *)
(* is exact because every load ends in a callback that clears it or posts  *)
(* the one cleanup that does, or is left without a view, and then none is  *)
(* begun again (FlagIsExact); that no request is taken for a cleanup needs *)
(* their numbers (Numbered).                                               *)
(*                                                                         *)
(* Two more invariants are for what may and may not be lost: a busy state  *)
(* that nobody is left to free stays (Stuck), and where no script fails a  *)
(* posted reload waits or has begun with its changes (PostedIsKept).  The  *)
(* last section has a rank for each of the two waits of a reload task.     *)
(***************************************************************************)
EXTENDS HotReload, SequenceTheorems, TLAPS

USE HotReloadAssumption

\* Where a change is, from its receipt to its end.
Counted ==
  /\ changeFiles + done = received + (IF file.at = "count" THEN 1 ELSE 0)
  /\ file.at # "idle" => changeFiles > 0
  /\ file.at = "count" => done > 0

\* No task is due a change that was not received.
DueReceived ==
  /\ \A r \in Receivers : receiver[r].task.due <= received
  /\ \A i \in DOMAIN tasks : tasks[i].due <= received
  /\ reload.task.due <= received

IInv == TypeOK /\ Counted /\ DueReceived /\ SettledBeforeReload

\* A reload is queued or running.
Busy == tasks # <<>> \/ reload.at # "idle"

\* While a reload is pending the state does not look free, nor will a stale
\* write of a receiver make it.
BusyLooksBusy ==
  Busy => /\ ~FreeToReload(reloadState)
          /\ \A r \in Receivers : receiver[r].at = "set" => ~FreeToReload(receiver[r].st)

\* Only one connection delivers messages.
OneConnection == \E r \in Receivers : Receivers = {r}

--------------------------------------------------------------------------------
(* Types.                                                                  *)

\* The types hold at the start.
LEMMA InitType == Init => TypeOK
<1> SUFFICES ASSUME Init PROVE TypeOK
  OBVIOUS
<1>1. 0 \in 0..MaxChanges /\ 0 \in 0..MaxRequests
  OBVIOUS
<1>2. {} \in Masks /\ NoTask \in Tasks
  BY <1>1 DEF Masks, NoTask, Tasks
<1>3. <<>> \in Seq(Tasks) /\ <<>> \in Seq(0..MaxRequests)
  OBVIOUS
<1> QED
  BY <1>1, <1>2, <1>3 DEF Init, TypeOK

ReceiverRecord == [at: {"idle", "accept", "get", "set"}, st: Masks, task: Tasks]

\* A step of a receiver keeps the types.
LEMMA ReceiverType ==
  ASSUME TypeOK, Counted, NEW r \in Receivers,
         ReceiveChange(r) \/ ReceiveReload(r) \/ ReceiverStep(r)
  PROVE  TypeOK'
<1>1. /\ receiver \in [Receivers -> ReceiverRecord]
      /\ receiver[r] \in ReceiverRecord
  BY DEF TypeOK, ReceiverRecord
<1>2. CASE ReceiveChange(r)
  BY <1>2 DEF ReceiveChange, TypeOK, Counted, page
<1>3. CASE ReceiveReload(r)
  <2>1. receiver' \in [Receivers -> ReceiverRecord]
    <3>1. [at   |-> IF FreeToReload(reloadState) THEN "accept" ELSE "get",
           st   |-> reloadState,
           task |-> [request |-> requests + 1, due |-> received]] \in ReceiverRecord
      BY <1>3 DEF ReceiveReload, TypeOK, ReceiverRecord, Tasks
    <3> QED
      BY <1>1, <1>3, <3>1 DEF ReceiveReload
  <2> QED
    BY <1>3, <2>1 DEF ReceiveReload, TypeOK, ReceiverRecord, page
<1>4. CASE AcceptReload(r)
  <2>1. receiver' \in [Receivers -> ReceiverRecord]
    BY <1>1, <1>4 DEF AcceptReload, ReceiverRecord
  <2>2. tasks' \in Seq(Tasks)
    BY <1>1, <1>4 DEF AcceptReload, ReceiverRecord, TypeOK
  <2> QED
    BY <1>4, <2>1, <2>2 DEF AcceptReload, TypeOK, ReceiverRecord, page, Masks, Flags
<1>5. CASE AgainGet(r)
  <2>1. receiver' \in [Receivers -> ReceiverRecord]
    BY <1>1, <1>5 DEF AgainGet, ReceiverRecord, TypeOK
  <2> QED
    BY <1>5, <2>1 DEF AgainGet, TypeOK, ReceiverRecord, page
<1>6. CASE AgainSet(r)
  <2>1. receiver' \in [Receivers -> ReceiverRecord]
    BY <1>1, <1>6 DEF AgainSet, ReceiverRecord
  <2>2. reloadState' \in Masks
    BY <1>1, <1>6 DEF AgainSet, ReceiverRecord, Masks, Flags
  <2> QED
    BY <1>6, <2>1, <2>2 DEF AgainSet, TypeOK, ReceiverRecord, page
<1> QED
  BY <1>2, <1>3, <1>4, <1>5, <1>6 DEF ReceiverStep

\* A step of the file thread keeps the types.
LEMMA FileType ==
  ASSUME TypeOK, Counted, FileStep
  PROVE  TypeOK'
<1>1. file \in [at: {"idle", "check", "get", "set", "apply", "count"}, st: Masks]
  BY DEF TypeOK
<1>2. CASE FileCheck
  BY <1>2 DEF FileCheck, TypeOK, page, asking
<1>3. CASE FileGet
  BY <1>3 DEF FileGet, TypeOK, page, asking
<1>4. CASE FileSet
  <2>1. reloadState' \in Masks
    BY <1>1, <1>4 DEF FileSet, Masks, Flags
  <2> QED
    BY <1>1, <1>4, <2>1 DEF FileSet, TypeOK, page, asking
<1>5. CASE FileApply
  <2>1. done' \in 0..MaxChanges
    BY <1>5 DEF FileApply, TypeOK, Counted
  <2> QED
    BY <1>1, <1>5, <2>1 DEF FileApply, TypeOK, page, asking
<1>6. CASE FileCount
  <2>1. changeFiles' \in 0..MaxChanges
    BY <1>6 DEF FileCount, TypeOK, Counted
  <2>2. file' \in [at: {"idle", "check", "get", "set", "apply", "count"}, st: Masks]
    BY <1>1, <1>6 DEF FileCount
  <2> QED
    BY <1>6, <2>1, <2>2 DEF FileCount, TypeOK, page, asking
<1> QED
  BY <1>2, <1>3, <1>4, <1>5, <1>6 DEF FileStep

\* A step of the reload thread keeps the types.
LEMMA ReloadType ==
  ASSUME TypeOK, ReloadStep
  PROVE  TypeOK'
<1> DEFINE RR == [at: {"idle", "wait", "reload", "post", "poll", "get", "pre", "end"},
                  st: Masks, task: Tasks]
<1>1. reload \in RR
  BY DEF TypeOK
<1>2. {} \in Masks /\ {"WAIT_FILE"} \in Masks /\ {"RELOADING"} \in Masks /\ {"PRE_RELOAD"} \in Masks
  BY DEF Masks, Flags
<1>3. NoTask \in Tasks
  BY DEF NoTask, Tasks
<1>4. CASE TaskStart
  <2>1. Head(tasks) \in Tasks /\ Tail(tasks) \in Seq(Tasks)
    BY <1>4 DEF TaskStart, TypeOK
  <2> QED
    BY <1>2, <1>4, <2>1 DEF TaskStart, TypeOK, page, asking
<1>5. CASE TaskSettled
  BY <1>1, <1>5 DEF TaskSettled, TypeOK, page, asking
<1>6. CASE TaskReloading
  BY <1>1, <1>2, <1>6 DEF TaskReloading, TypeOK, page, asking
<1>7. CASE TaskPost
  <2>1. reload.task.request \in 0..MaxRequests
    BY <1>1 DEF Tasks
  <2>2. looper' \in Seq(0..MaxRequests)
    BY <1>7, <2>1 DEF TaskPost, TypeOK
  <2>3. reload' \in RR
    BY <1>1, <1>7 DEF TaskPost
  <2> QED
    BY <1>7, <2>2, <2>3 DEF TaskPost, TypeOK, asking
<1>8. CASE TaskPoll
  BY <1>1, <1>8 DEF TaskPoll, TypeOK, page, asking
<1>9. CASE TaskGet
  BY <1>1, <1>9 DEF TaskGet, TypeOK, page, asking
<1>10. CASE TaskPre
  BY <1>1, <1>2, <1>10 DEF TaskPre, TypeOK, page, asking
<1>11. CASE TaskEnd
  <2>1. tasks' \in Seq(Tasks) /\ reloadState' \in Masks
    <3>1. reload.task \in Tasks /\ tasks \in Seq(Tasks) /\ reloadState \in Masks
      BY <1>1 DEF TypeOK
    <3>2. Append(tasks, reload.task) \in Seq(Tasks)
      BY <3>1
    <3>3. \/ tasks' = Append(tasks, reload.task) /\ reloadState' = reloadState
          \/ tasks' = tasks /\ reloadState' = {}
      BY <1>11 DEF TaskEnd
    <3> QED
      BY <1>2, <3>1, <3>2, <3>3
  <2>2. reload' \in RR
    BY <1>2, <1>3, <1>11 DEF TaskEnd
  <2> QED
    BY <1>11, <2>1, <2>2 DEF TaskEnd, TypeOK, page, asking
<1> QED
  BY <1>4, <1>5, <1>6, <1>7, <1>8, <1>9, <1>10, <1>11 DEF ReloadStep

\* A step of the main thread keeps the types.
LEMMA MainType ==
  ASSUME TypeOK, MainStep
  PROVE  TypeOK'
<1>1. looper # <<>> => Head(looper) \in 0..MaxRequests /\ Tail(looper) \in Seq(0..MaxRequests)
  BY DEF TypeOK
<1>2. FAILED \in 0..MaxRequests
  BY DEF FAILED
<1>3. Append(looper, FAILED) \in Seq(0..MaxRequests)
  BY <1>2 DEF TypeOK
<1>4. CASE BeginLoad
  BY <1>1, <1>4 DEF BeginLoad, TypeOK, asking
<1>5. CASE DeclineLoad
  BY <1>1, <1>5 DEF DeclineLoad, TypeOK, asking
<1>6. CASE LoadSucceeds
  BY <1>6 DEF LoadSucceeds, TypeOK, asking
<1>7. CASE LoadFails
  BY <1>3, <1>7 DEF LoadFails, TypeOK, asking
<1>8. CASE EndFailedLoad
  BY <1>1, <1>8 DEF EndFailedLoad, TypeOK, asking
<1>9. CASE LoadWithoutView
  BY <1>9 DEF LoadWithoutView, TypeOK, asking
<1> QED
  BY <1>4, <1>5, <1>6, <1>7, <1>8, <1>9 DEF MainStep

--------------------------------------------------------------------------------
(* Where the changes are.                                                  *)

\* A change that was received stays done with or counted.
LEMMA CountedStep ==
  ASSUME TypeOK, Counted, Next
  PROVE  Counted'
<1> USE DEF Counted
<1>1. ASSUME NEW r \in Receivers, ReceiveChange(r)
      PROVE  Counted'
  BY <1>1 DEF ReceiveChange, TypeOK
<1>2. ASSUME NEW r \in Receivers, ReceiveReload(r) \/ ReceiverStep(r)
      PROVE  Counted'
  BY <1>2 DEF ReceiveReload, ReceiverStep, AcceptReload, AgainGet, AgainSet, TypeOK
<1>3. ASSUME FileCheck PROVE Counted'
  BY <1>3 DEF FileCheck, TypeOK, asking
<1>4. ASSUME FileGet \/ FileSet PROVE Counted'
  BY <1>4 DEF FileGet, FileSet, TypeOK, asking
<1>5. ASSUME FileApply PROVE Counted'
  <2>1. /\ done' = done + 1 /\ file.at = "apply"
        /\ UNCHANGED <<received, changeFiles>>
    BY <1>5 DEF FileApply, asking
  <2>2. file'.at = "count"
    BY <1>5 DEF FileApply, TypeOK
  <2> QED
    BY <2>1, <2>2 DEF TypeOK
<1>6. ASSUME FileCount PROVE Counted'
  <2>1. /\ changeFiles' = changeFiles - 1 /\ file.at = "count"
        /\ UNCHANGED <<received, done>>
    BY <1>6 DEF FileCount, asking
  <2>2. file'.at = "idle"
    BY <1>6 DEF FileCount, TypeOK
  <2> QED
    BY <2>1, <2>2 DEF TypeOK
<1>7. ASSUME ReloadStep \/ MainStep PROVE Counted'
  BY <1>7 DEF ReloadStep, TaskStart, TaskSettled, TaskReloading, TaskPost, TaskPoll, TaskGet,
              TaskPre, TaskEnd, MainStep, BeginLoad, DeclineLoad, LoadSucceeds, LoadFails,
              LoadWithoutView, EndFailedLoad, asking
<1> QED
  BY <1>1, <1>2, <1>3, <1>4, <1>5, <1>6, <1>7 DEF Next, FileStep

\* The steps of the file thread and of the main thread change no task and no
\* count of what was received.
LEMMA OthersKeepTasks ==
  ASSUME FileStep \/ MainStep
  PROVE  UNCHANGED <<receiver, tasks, reload, received>>
  BY DEF FileStep, FileCheck, FileGet, FileSet, FileApply, FileCount,
         MainStep, BeginLoad, DeclineLoad, LoadSucceeds, LoadFails, LoadWithoutView,
         EndFailedLoad, asking

\* A request is only ever due changes that were received.
LEMMA DueReceivedStep ==
  ASSUME TypeOK, DueReceived, Next
  PROVE  DueReceived'
<1>0. /\ tasks \in Seq(Tasks) /\ reload.task \in Tasks /\ received \in Nat
      /\ receiver \in [Receivers -> ReceiverRecord]
  BY DEF TypeOK, ReceiverRecord
<1>1. ASSUME NEW r \in Receivers, ReceiveChange(r)
      PROVE  DueReceived'
  <2>1. /\ received' = received + 1
        /\ UNCHANGED <<receiver, tasks, reload>>
    BY <1>1 DEF ReceiveChange
  <2>2. \A q \in Receivers : receiver[q].task.due \in Nat
    BY <1>0 DEF ReceiverRecord, Tasks
  <2>3. \A i \in DOMAIN tasks : tasks[i].due \in Nat
    <3>1. \A i \in DOMAIN tasks : tasks[i] \in Tasks
      BY <1>0
    <3> QED
      BY <3>1 DEF Tasks
  <2>4. reload.task.due \in Nat
    BY <1>0 DEF Tasks
  <2> QED
    BY <1>0, <2>1, <2>2, <2>3, <2>4 DEF DueReceived
<1>2. ASSUME NEW r \in Receivers, ReceiveReload(r)
      PROVE  DueReceived'
  <2>1. UNCHANGED <<received, tasks, reload>>
    BY <1>2 DEF ReceiveReload
  <2>2. ASSUME NEW q \in Receivers
        PROVE  receiver'[q].task.due <= received
    BY <1>0, <1>2 DEF ReceiveReload, DueReceived
  <2> QED
    BY <2>1, <2>2 DEF DueReceived
<1>3. ASSUME NEW r \in Receivers, AcceptReload(r)
      PROVE  DueReceived'
  <2>1. UNCHANGED <<received, reload>> /\ tasks' = Append(tasks, receiver[r].task)
    BY <1>3 DEF AcceptReload
  <2>2. ASSUME NEW q \in Receivers
        PROVE  receiver'[q].task = receiver[q].task
    BY <1>0, <1>3 DEF AcceptReload, ReceiverRecord
  <2>3. ASSUME NEW i \in DOMAIN tasks'
        PROVE  \/ tasks'[i] = receiver[r].task
               \/ i \in DOMAIN tasks /\ tasks'[i] = tasks[i]
    BY <1>0, <2>1, <2>3
  <2> QED
    BY <2>1, <2>2, <2>3 DEF DueReceived
<1>4. ASSUME NEW r \in Receivers, AgainGet(r) \/ AgainSet(r)
      PROVE  DueReceived'
  <2>1. UNCHANGED <<received, tasks, reload>>
    BY <1>4 DEF AgainGet, AgainSet
  <2>2. ASSUME NEW q \in Receivers
        PROVE  receiver'[q].task = receiver[q].task
    BY <1>0, <1>4 DEF AgainGet, AgainSet, ReceiverRecord
  <2> QED
    BY <2>1, <2>2 DEF DueReceived
<1>5. ASSUME FileStep \/ MainStep PROVE DueReceived'
  BY <1>5, OthersKeepTasks DEF DueReceived
<1>6. ASSUME TaskStart PROVE DueReceived'
  <2>1. /\ UNCHANGED <<received, receiver>> /\ tasks # <<>>
        /\ reload'.task = Head(tasks) /\ tasks' = Tail(tasks)
    BY <1>6 DEF TaskStart, asking
  <2>2. 1 \in DOMAIN tasks /\ Head(tasks) = tasks[1]
    BY <1>0, <2>1
  <2>3. ASSUME NEW i \in DOMAIN tasks'
        PROVE  i + 1 \in DOMAIN tasks /\ tasks'[i] = tasks[i + 1]
    BY <1>0, <2>1, <2>3
  <2> QED
    BY <2>1, <2>2, <2>3 DEF DueReceived
<1>7. ASSUME TaskSettled \/ TaskReloading \/ TaskPost \/ TaskPoll \/ TaskGet \/ TaskPre
      PROVE  DueReceived'
  <2>1. UNCHANGED <<received, receiver, tasks>> /\ reload'.task = reload.task
    BY <1>7 DEF TaskSettled, TaskReloading, TaskPost, TaskPoll, TaskGet, TaskPre, asking, TypeOK
  <2> QED
    BY <2>1 DEF DueReceived
<1>8. ASSUME TaskEnd PROVE DueReceived'
  <2>1. /\ UNCHANGED <<received, receiver>> /\ reload'.task = NoTask
        /\ tasks' = tasks \/ tasks' = Append(tasks, reload.task)
    BY <1>8 DEF TaskEnd, asking
  <2>2. ASSUME NEW i \in DOMAIN tasks'
        PROVE  \/ tasks'[i] = reload.task
               \/ i \in DOMAIN tasks /\ tasks'[i] = tasks[i]
    BY <1>0, <2>1, <2>2
  <2>3. NoTask.due <= received
    BY <1>0 DEF NoTask
  <2> QED
    BY <2>1, <2>2, <2>3 DEF DueReceived
<1> QED
  BY <1>1, <1>2, <1>3, <1>4, <1>5, <1>6, <1>7, <1>8 DEF Next, ReceiverStep, ReloadStep

\* The wait for the files ends with everything received done with.
LEMMA SettledStep ==
  ASSUME IInv, Next
  PROVE  SettledBeforeReload'
<1> USE DEF SettledBeforeReload
<1>1. done' >= done /\ done \in Nat /\ done' \in Nat /\ reload.task.due \in Nat
  <2>1. done' = done \/ done' = done + 1
    BY DEF Next, ReceiveChange, ReceiveReload, ReceiverStep, AcceptReload, AgainGet, AgainSet,
           FileStep, FileCheck, FileGet, FileSet, FileApply, FileCount,
           ReloadStep, TaskStart, TaskSettled, TaskReloading, TaskPost, TaskPoll, TaskGet,
           TaskPre, TaskEnd, MainStep, BeginLoad, DeclineLoad, LoadSucceeds, LoadFails,
           LoadWithoutView, EndFailedLoad
  <2>2. done \in Nat /\ reload.task.due \in Nat
    BY DEF IInv, TypeOK, Tasks
  <2> QED
    BY <2>1, <2>2
<1>2. CASE UNCHANGED reload
  BY <1>1, <1>2 DEF IInv
<1>3. CASE TaskSettled
  <2>1. reload'.task = reload.task /\ changeFiles = 0 /\ done' = done
    BY <1>3 DEF TaskSettled, Settled, IInv, TypeOK
  <2>2. done = received
    BY <2>1 DEF IInv, Counted, TypeOK
  <2>3. reload.task.due <= received
    BY DEF IInv, DueReceived
  <2> QED
    BY <2>1, <2>2, <2>3
<1>4. CASE TaskReloading \/ TaskPost
  <2>1. reload'.task = reload.task /\ reload.at \in {"reload", "post"} /\ done' = done
    BY <1>4 DEF TaskReloading, TaskPost, IInv, TypeOK
  <2> QED
    BY <2>1 DEF IInv
<1>5. CASE TaskStart \/ TaskPoll \/ TaskGet \/ TaskPre \/ TaskEnd
  <2>1. reload'.at \in {"wait", "get", "pre", "end", "idle"}
    <3>1. CASE TaskStart \/ TaskEnd
      BY <3>1 DEF TaskStart, TaskEnd
    <3>2. CASE TaskPoll \/ TaskGet \/ TaskPre
      BY <3>2 DEF TaskPoll, TaskGet, TaskPre, IInv, TypeOK
    <3> QED
      BY <1>5, <3>1, <3>2
  <2> QED
    BY <2>1
<1>6. CASE \E r \in Receivers : ReceiveChange(r) \/ ReceiveReload(r) \/ ReceiverStep(r)
  BY <1>2, <1>6 DEF ReceiveChange, ReceiveReload, ReceiverStep, AcceptReload, AgainGet, AgainSet
<1>7. CASE FileStep \/ MainStep
  BY <1>2, <1>7, OthersKeepTasks
<1> QED
  BY <1>3, <1>4, <1>5, <1>6, <1>7 DEF Next, ReloadStep

--------------------------------------------------------------------------------
(* The theorems.                                                           *)

\* The invariant holds in every behaviour.
LEMMA Invariant == Spec => []IInv
<1>1. Init => IInv
  <2> SUFFICES ASSUME Init PROVE IInv
    OBVIOUS
  <2>1. Counted /\ DueReceived /\ SettledBeforeReload
    BY DEF Init, Counted, DueReceived, SettledBeforeReload, NoTask
  <2> QED
    BY <2>1, InitType DEF IInv
<1>2. IInv /\ [Next]_vars => IInv'
  <2> SUFFICES ASSUME IInv, [Next]_vars PROVE IInv'
    OBVIOUS
  <2>1. CASE Next
    <3>1. TypeOK'
      BY <2>1, ReceiverType, FileType, ReloadType, MainType DEF IInv, Next
    <3> QED
      BY <2>1, <3>1, CountedStep, DueReceivedStep, SettledStep DEF IInv
  <2>2. CASE UNCHANGED vars
    BY <2>2 DEF vars, page, asking, IInv, TypeOK, Counted, DueReceived, SettledBeforeReload
  <2> QED
    BY <2>1, <2>2
<1> QED
  BY <1>1, <1>2, PTL DEF Spec

\* The counters stay within what was received, and every thread keeps a state
\* and a snapshot of its own type.
THEOREM TypeCorrect == Spec => []TypeOK
<1>1. IInv => TypeOK
  BY DEF IInv
<1> QED
  BY <1>1, Invariant, PTL

\* However many connections deliver changes and requests, a page that is told
\* to reload finds every change received before the request on disk, as far as
\* it could be written.
THEOREM ReloadsAreSettled == Spec => []SettledBeforeReload
<1>1. IInv => SettledBeforeReload
  BY DEF IInv
<1> QED
  BY <1>1, Invariant, PTL

--------------------------------------------------------------------------------
(* One connection, one reload.                                             *)

\* Which steps make a reload pending, and which write the state.
OneInv == TypeOK /\ OneReloadAtATime /\ BusyLooksBusy

\* With one connection, a step of the receiver starts no second reload.
LEMMA OneReceiverStep ==
  ASSUME OneInv, NEW r, Receivers = {r},
         ReceiveChange(r) \/ ReceiveReload(r) \/ ReceiverStep(r)
  PROVE  (OneReloadAtATime /\ BusyLooksBusy)'
<1>0. /\ receiver \in [{r} -> ReceiverRecord]
      /\ receiver[r] \in ReceiverRecord
      /\ tasks \in Seq(Tasks)
  BY DEF OneInv, TypeOK, ReceiverRecord
<1>1. CASE ReceiveChange(r)
  BY <1>1 DEF ReceiveChange, OneInv, OneReloadAtATime, BusyLooksBusy, Busy
<1>2. CASE ReceiveReload(r)
  <2>1. /\ UNCHANGED <<tasks, reload, reloadState>>
        /\ receiver'[r].at = IF FreeToReload(reloadState) THEN "accept" ELSE "get"
    BY <1>0, <1>2 DEF ReceiveReload
  <2>2. receiver'[r].at = "accept" => ~Busy
    BY <2>1 DEF OneInv, BusyLooksBusy
  <2> QED
    BY <2>1, <2>2 DEF OneInv, OneReloadAtATime, BusyLooksBusy, Busy
<1>3. CASE AcceptReload(r)
  <2>1. tasks = <<>> /\ reload.at = "idle" /\ reload' = reload
    BY <1>3 DEF AcceptReload, OneInv, OneReloadAtATime
  <2>2. receiver'[r].at = "idle"
    BY <1>0, <1>3 DEF AcceptReload, ReceiverRecord
  <2>3. Len(tasks') <= 1
    <3>1. receiver[r].task \in Tasks
      BY <1>0 DEF ReceiverRecord
    <3> QED
      BY <1>0, <1>3, <2>1, <3>1 DEF AcceptReload
  <2>4. ~FreeToReload({"PRE_RELOAD"}) /\ reloadState' = {"PRE_RELOAD"}
    BY <1>3 DEF AcceptReload, FreeToReload
  <2> QED
    BY <2>1, <2>2, <2>3, <2>4 DEF OneReloadAtATime, BusyLooksBusy, Busy
<1>4. CASE AgainGet(r)
  <2>1. /\ UNCHANGED <<tasks, reload, reloadState>>
        /\ receiver'[r].at = "set" /\ receiver'[r].st = reloadState
    BY <1>0, <1>4 DEF AgainGet, ReceiverRecord
  <2> QED
    BY <2>1 DEF OneInv, OneReloadAtATime, BusyLooksBusy, Busy
<1>5. CASE AgainSet(r)
  <2>1. /\ UNCHANGED <<tasks, reload>>
        /\ receiver[r].at = "set" /\ receiver'[r].at = "idle"
        /\ reloadState' = receiver[r].st \cup {"RELOAD_AGAIN"}
    BY <1>0, <1>5 DEF AgainSet, ReceiverRecord
  <2>2. ~FreeToReload(receiver[r].st) => ~FreeToReload(reloadState')
    BY <2>1 DEF FreeToReload
  <2> QED
    BY <2>1, <2>2 DEF OneInv, OneReloadAtATime, BusyLooksBusy, Busy
<1> QED
  BY <1>1, <1>2, <1>3, <1>4, <1>5 DEF ReceiverStep

\* With one connection, a step of the file thread keeps the state busy.
LEMMA OneFileStep ==
  ASSUME OneInv, FileStep
  PROVE  (OneReloadAtATime /\ BusyLooksBusy)'
<1>1. UNCHANGED <<receiver, tasks, reload>>
  BY OthersKeepTasks
<1>2. reloadState' = reloadState \/ "FILE_CHANGE_WHEN_RELOADING" \in reloadState'
  BY DEF FileStep, FileCheck, FileGet, FileSet, FileApply, FileCount
<1>3. "FILE_CHANGE_WHEN_RELOADING" \in reloadState' => ~FreeToReload(reloadState')
  BY DEF FreeToReload
<1> QED
  BY <1>1, <1>2, <1>3 DEF OneInv, OneReloadAtATime, BusyLooksBusy, Busy

\* With one connection, the reload thread frees the state at its end only.
LEMMA OneReloadStep ==
  ASSUME OneInv, ReloadStep
  PROVE  (OneReloadAtATime /\ BusyLooksBusy)'
<1>0. /\ receiver' = receiver /\ tasks \in Seq(Tasks)
      /\ ~FreeToReload({"PRE_RELOAD"}) /\ ~FreeToReload({"RELOADING"})
      /\ ~FreeToReload({"WAIT_FILE"})
  BY DEF ReloadStep, TaskStart, TaskSettled, TaskReloading, TaskPost, TaskPoll, TaskGet,
         TaskPre, TaskEnd, asking, FreeToReload, OneInv, TypeOK
<1>1. Busy
  BY DEF ReloadStep, TaskStart, TaskSettled, TaskReloading, TaskPost, TaskPoll, TaskGet,
         TaskPre, TaskEnd, Busy
<1>2. \A q \in Receivers : /\ receiver[q].at # "accept"
                           /\ receiver[q].at = "set" => ~FreeToReload(receiver[q].st)
  BY <1>1 DEF OneInv, OneReloadAtATime, BusyLooksBusy, Busy
<1>3. CASE TaskStart
  <2>1. /\ reload'.at = "wait" /\ tasks' = Tail(tasks) /\ reloadState' = {"WAIT_FILE"}
        /\ tasks # <<>> /\ Len(tasks) <= 1
    BY <1>3 DEF TaskStart, OneInv, OneReloadAtATime
  <2>2. tasks' = <<>> /\ Len(tasks') = 0
    <3>1. Len(tasks) = 1
      <4>1. \A q \in Seq(Tasks) : q # <<>> => Len(q) \in Nat \ {0}
        BY EmptySeq
      <4>2. Len(tasks) \in Nat \ {0}
        BY <1>0, <2>1, <4>1
      <4>3. Len(tasks) <= 1
        BY DEF OneInv, OneReloadAtATime
      <4>4. \A n \in Nat \ {0} : n <= 1 => n = 1
        OBVIOUS
      <4> QED
        BY <4>2, <4>3, <4>4, Zenon
    <3>2. tasks' \in Seq(Tasks) /\ Len(tasks') = 0
      BY <1>0, <2>1, <3>1
    <3> QED
      BY <3>2, EmptySeq
  <2> QED
    BY <1>0, <1>2, <2>1, <2>2 DEF OneReloadAtATime, BusyLooksBusy, Busy
<1>4. CASE TaskSettled \/ TaskReloading \/ TaskPost \/ TaskPoll \/ TaskGet \/ TaskPre
  <2>1. reload.at # "idle" /\ tasks' = tasks
    BY <1>4 DEF TaskSettled, TaskReloading, TaskPost, TaskPoll, TaskGet, TaskPre
  <2>2. tasks = <<>>
    BY <2>1 DEF OneInv, OneReloadAtATime
  <2>3. reloadState' \in {reloadState, {"RELOADING"}, {"PRE_RELOAD"}}
    BY <1>4 DEF TaskSettled, TaskReloading, TaskPost, TaskPoll, TaskGet, TaskPre
  <2>4. ~FreeToReload(reloadState')
    BY <1>0, <1>1, <2>3 DEF OneInv, BusyLooksBusy
  <2>5. Len(tasks') <= 1 /\ tasks' = <<>>
    BY <2>1, <2>2 DEF OneInv, OneReloadAtATime
  <2> QED
    BY <1>0, <1>2, <2>4, <2>5 DEF OneReloadAtATime, BusyLooksBusy
<1>5. CASE TaskEnd
  <2>1. reload'.at = "idle" /\ tasks = <<>> /\ reload.task \in Tasks
    BY <1>5 DEF TaskEnd, OneInv, OneReloadAtATime, TypeOK
  <2>2. CASE tasks' = tasks
    BY <1>0, <1>2, <2>1, <2>2 DEF OneInv, OneReloadAtATime, BusyLooksBusy, Busy
  <2>3. CASE tasks' = Append(tasks, reload.task) /\ reloadState' = reloadState
    <3>1. Len(tasks') = 1
      BY <1>0, <2>1, <2>3
    <3> QED
      BY <1>0, <1>1, <1>2, <2>1, <2>3, <3>1 DEF OneInv, OneReloadAtATime, BusyLooksBusy
  <2> QED
    BY <1>5, <2>2, <2>3 DEF TaskEnd
<1> QED
  BY <1>3, <1>4, <1>5 DEF ReloadStep

\* With one connection there is never more than one reload on its way, in
\* spite of reads and writes of the state that are not atomic together.
THEOREM OneAtATime == ASSUME OneConnection PROVE Spec => []OneReloadAtATime
<1>1. Init => OneReloadAtATime /\ BusyLooksBusy
  BY DEF Init, OneReloadAtATime, BusyLooksBusy, Busy
<1>2. TypeOK /\ (OneReloadAtATime /\ BusyLooksBusy) /\ [Next]_vars
        => (OneReloadAtATime /\ BusyLooksBusy)'
  <2> SUFFICES ASSUME OneInv, [Next]_vars
               PROVE  (OneReloadAtATime /\ BusyLooksBusy)'
    BY DEF OneInv
  <2>1. CASE \E q \in Receivers : ReceiveChange(q) \/ ReceiveReload(q) \/ ReceiverStep(q)
    <3>1. PICK r : Receivers = {r}
      BY DEF OneConnection
    <3>2. ReceiveChange(r) \/ ReceiveReload(r) \/ ReceiverStep(r)
      BY <2>1, <3>1
    <3> QED
      BY <3>1, <3>2, OneReceiverStep
  <2>2. CASE FileStep
    BY <2>2, OneFileStep
  <2>3. CASE ReloadStep
    BY <2>3, OneReloadStep
  <2>4. CASE MainStep \/ UNCHANGED vars
    <3>1. UNCHANGED <<receiver, tasks, reload, reloadState>>
      BY <2>4 DEF vars, asking, MainStep, BeginLoad, DeclineLoad, LoadSucceeds, LoadFails,
                  LoadWithoutView, EndFailedLoad
    <3> QED
      BY <3>1 DEF OneInv, OneReloadAtATime, BusyLooksBusy, Busy
  <2> QED
    BY <2>1, <2>2, <2>3, <2>4 DEF Next
<1> QED
  BY <1>1, <1>2, TypeCorrect, PTL DEF Spec

--------------------------------------------------------------------------------
(* What the poll for the end of a load waits for.                          *)

\* STATE_HOT_RELOADING is set exactly while one load runs, while the cleanup of
\* one that failed is posted, and that is posted once, or since one was left
\* without a view; only one of the three at a time.  But for the last, a poll
\* for its end, which has no limit, always has something to wait for
\* (MLSInstance.java:735, 1268, 1382).
FlagIsExact ==
  LET cleanups == {i \in DOMAIN looper : looper[i] = FAILED}
  IN  /\ hotReloading <=> loading \/ noView \/ cleanups # {}
      /\ loading => cleanups = {}
      /\ noView => ~loading /\ cleanups = {}
      /\ \A i, j \in cleanups : i = j

\* Requests are numbered from one: no posted reload is taken for a cleanup.
Numbered ==
  /\ \A r \in Receivers : receiver[r].at = "accept" => receiver[r].task.request # FAILED
  /\ \A i \in DOMAIN tasks : tasks[i].request # FAILED
  /\ reload.at # "idle" => reload.task.request # FAILED

\* Every step keeps the numbers of the requests.
LEMMA NumberedStep ==
  ASSUME TypeOK, Numbered, Next
  PROVE  Numbered'
<1>0. /\ tasks \in Seq(Tasks) /\ reload.task \in Tasks /\ requests \in Nat
      /\ receiver \in [Receivers -> ReceiverRecord]
  BY DEF TypeOK, ReceiverRecord
<1>1. ASSUME NEW r \in Receivers, ReceiveChange(r)
      PROVE  Numbered'
  BY <1>1 DEF ReceiveChange, Numbered
<1>2. ASSUME NEW r \in Receivers, ReceiveReload(r)
      PROVE  Numbered'
  <2>1. /\ UNCHANGED <<tasks, reload>> /\ requests + 1 # FAILED
        /\ \A q \in Receivers : q # r => receiver'[q] = receiver[q]
        /\ receiver'[r].task.request = requests + 1
    BY <1>0, <1>2 DEF ReceiveReload, FAILED
  <2> QED
    BY <2>1 DEF Numbered
<1>3. ASSUME NEW r \in Receivers, AcceptReload(r)
      PROVE  Numbered'
  <2>1. /\ reload' = reload /\ tasks' = Append(tasks, receiver[r].task)
        /\ receiver[r].task.request # FAILED /\ receiver[r].task \in Tasks
    BY <1>0, <1>3 DEF AcceptReload, Numbered, ReceiverRecord
  <2>2. \A q \in Receivers : receiver'[q].at = "accept" => receiver'[q] = receiver[q]
    BY <1>0, <1>3 DEF AcceptReload, ReceiverRecord
  <2>3. \A i \in DOMAIN tasks' : tasks'[i] = receiver[r].task
                                \/ (i \in DOMAIN tasks /\ tasks'[i] = tasks[i])
    BY <1>0, <2>1
  <2> QED
    BY <2>1, <2>2, <2>3 DEF Numbered
<1>4. ASSUME NEW r \in Receivers, AgainGet(r) \/ AgainSet(r)
      PROVE  Numbered'
  <2>1. UNCHANGED <<tasks, reload>>
    BY <1>4 DEF AgainGet, AgainSet
  <2>2. \A q \in Receivers : receiver'[q].at = "accept" => receiver'[q] = receiver[q]
    BY <1>0, <1>4 DEF AgainGet, AgainSet, ReceiverRecord
  <2> QED
    BY <2>1, <2>2 DEF Numbered
<1>5. ASSUME FileStep \/ MainStep PROVE Numbered'
  BY <1>5, OthersKeepTasks DEF Numbered
<1>6. ASSUME TaskStart PROVE Numbered'
  <2>1. /\ receiver' = receiver /\ tasks # <<>>
        /\ reload'.task = Head(tasks) /\ tasks' = Tail(tasks)
    BY <1>6 DEF TaskStart, asking
  <2>2. 1 \in DOMAIN tasks /\ Head(tasks) = tasks[1]
    BY <1>0, <2>1
  <2>3. \A i \in DOMAIN tasks' : i + 1 \in DOMAIN tasks /\ tasks'[i] = tasks[i + 1]
    BY <1>0, <2>1
  <2> QED
    BY <2>1, <2>2, <2>3 DEF Numbered
<1>7. ASSUME TaskSettled \/ TaskReloading \/ TaskPost \/ TaskPoll \/ TaskGet \/ TaskPre
      PROVE  Numbered'
  <2>1. UNCHANGED <<receiver, tasks>> /\ reload'.task = reload.task /\ reload.at # "idle"
    BY <1>7 DEF TaskSettled, TaskReloading, TaskPost, TaskPoll, TaskGet, TaskPre, asking, TypeOK
  <2> QED
    BY <2>1 DEF Numbered
<1>8. ASSUME TaskEnd PROVE Numbered'
  <2>1. /\ receiver' = receiver /\ reload'.at = "idle" /\ reload.at # "idle"
        /\ tasks' = tasks \/ tasks' = Append(tasks, reload.task)
    BY <1>8 DEF TaskEnd, asking
  <2>2. \A i \in DOMAIN tasks' : tasks'[i] = reload.task
                                \/ (i \in DOMAIN tasks /\ tasks'[i] = tasks[i])
    BY <1>0, <2>1
  <2> QED
    BY <2>1, <2>2 DEF Numbered
<1> QED
  BY <1>1, <1>2, <1>3, <1>4, <1>5, <1>6, <1>7, <1>8 DEF Next, ReceiverStep, ReloadStep

\* The cleanups posted in a queue of the main thread.
Cleanups(q) == {i \in DOMAIN q : q[i] = FAILED}

\* Taking the head of the queue shifts its cleanups, and may take one.
LEMMA TailCleanups ==
  ASSUME NEW q \in Seq(0..MaxRequests), q # <<>>
  PROVE  /\ \A i \in Nat : i \in Cleanups(Tail(q)) <=> i # 0 /\ i + 1 \in Cleanups(q)
         /\ Cleanups(Tail(q)) \subseteq Nat \ {0} /\ Cleanups(q) \subseteq Nat \ {0}
         /\ 1 \in Cleanups(q) <=> Head(q) = FAILED
<1>1. /\ DOMAIN q = 1..Len(q) /\ Len(q) \in Nat \ {0}
      /\ DOMAIN Tail(q) = 1..(Len(q) - 1)
      /\ \A i \in 1..(Len(q) - 1) : Tail(q)[i] = q[i + 1]
      /\ Head(q) = q[1]
  <2>1. Len(q) \in Nat \ {0}
    BY EmptySeq
  <2>2. Len(q) - 1 \in Nat
    BY <2>1
  <2> QED
    BY <2>1, <2>2
<1>2. \A i \in Nat : i \in 1..(Len(q) - 1) <=> i # 0 /\ i + 1 \in 1..Len(q)
  BY <1>1
<1> QED
  BY <1>1, <1>2 DEF Cleanups

\* Posting adds a cleanup or none.
LEMMA AppendCleanups ==
  ASSUME NEW q \in Seq(0..MaxRequests), NEW n \in 0..MaxRequests
  PROVE  Cleanups(Append(q, n)) = Cleanups(q) \cup (IF n = FAILED THEN {Len(q) + 1} ELSE {})
<1>1. /\ DOMAIN q = 1..Len(q) /\ Len(q) \in Nat
      /\ DOMAIN Append(q, n) = 1..(Len(q) + 1)
      /\ \A i \in 1..Len(q) : Append(q, n)[i] = q[i]
      /\ Append(q, n)[Len(q) + 1] = n
  OBVIOUS
<1>2. 1..(Len(q) + 1) = 1..Len(q) \cup {Len(q) + 1} /\ Len(q) + 1 \notin 1..Len(q)
  BY <1>1
<1> QED
  BY <1>1, <1>2 DEF Cleanups

\* Every step keeps the flag exact.
LEMMA FlagStep ==
  ASSUME TypeOK, Numbered, FlagIsExact, Next
  PROVE  FlagIsExact'
<1>0. /\ looper \in Seq(0..MaxRequests) /\ loading \in BOOLEAN /\ hotReloading \in BOOLEAN
      /\ noView \in BOOLEAN /\ FAILED \in 0..MaxRequests /\ reload.task.request \in 0..MaxRequests
      /\ hotReloading <=> loading \/ noView \/ Cleanups(looper) # {}
      /\ loading => Cleanups(looper) = {}
      /\ noView => ~loading /\ Cleanups(looper) = {}
      /\ \A i, j \in Cleanups(looper) : i = j
  BY DEF TypeOK, FAILED, Tasks, FlagIsExact, Cleanups
<1> SUFFICES /\ hotReloading' <=> loading' \/ noView' \/ Cleanups(looper') # {}
             /\ loading' => Cleanups(looper') = {}
             /\ noView' => ~loading' /\ Cleanups(looper') = {}
             /\ \A i, j \in Cleanups(looper') : i = j
  BY DEF FlagIsExact, Cleanups
<1>1. CASE UNCHANGED <<looper, loading, hotReloading, noView>>
  BY <1>0, <1>1
<1>2. CASE TaskPost
  <2>1. /\ looper' = Append(looper, reload.task.request) /\ reload.task.request # FAILED
        /\ UNCHANGED <<loading, hotReloading, noView>>
    BY <1>2 DEF TaskPost, Numbered
  <2>2. Cleanups(looper') = Cleanups(looper)
    BY <1>0, <2>1, AppendCleanups
  <2> QED
    BY <1>0, <2>1, <2>2
<1>3. CASE BeginLoad
  <2>1. /\ Cleanups(looper) = {} /\ looper # <<>> /\ looper' = Tail(looper)
        /\ loading' = TRUE /\ hotReloading' = TRUE /\ noView' = FALSE
    BY <1>0, <1>3 DEF BeginLoad
  <2>2. Cleanups(looper') = {}
    BY <1>0, <2>1, TailCleanups
  <2> QED
    BY <2>1, <2>2
<1>4. CASE DeclineLoad
  <2>1. /\ ~loading /\ hotReloading /\ looper # <<>> /\ Head(looper) # FAILED
        /\ looper' = Tail(looper) /\ UNCHANGED <<loading, hotReloading, noView>>
    BY <1>4 DEF DeclineLoad
  <2>6. CASE noView
    <3>1. Cleanups(looper') = {}
      BY <1>0, <2>1, <2>6, TailCleanups
    <3> QED
      BY <1>0, <2>1, <2>6, <3>1
  <2> SUFFICES ASSUME ~noView
               PROVE  /\ hotReloading' <=> loading' \/ noView' \/ Cleanups(looper') # {}
                      /\ loading' => Cleanups(looper') = {}
                      /\ noView' => ~loading' /\ Cleanups(looper') = {}
                      /\ \A i, j \in Cleanups(looper') : i = j
    BY <2>6
  <2>2. PICK i \in Cleanups(looper) : TRUE
    BY <1>0, <2>1
  <2>3. i \in Nat \ {0, 1} /\ i - 1 \in Nat /\ i - 1 # 0 /\ (i - 1) + 1 = i
    BY <1>0, <2>1, <2>2, TailCleanups
  <2>4. i - 1 \in Cleanups(looper')
    BY <1>0, <2>1, <2>2, <2>3, TailCleanups
  <2>5. \A j, k \in Cleanups(looper') : j = k
    <3> SUFFICES ASSUME NEW j \in Cleanups(looper'), NEW k \in Cleanups(looper')
                 PROVE  j = k
      OBVIOUS
    <3>1. j \in Nat /\ k \in Nat /\ j + 1 \in Cleanups(looper) /\ k + 1 \in Cleanups(looper)
      BY <1>0, <2>1, TailCleanups
    <3>2. j + 1 = k + 1
      BY <1>0, <3>1
    <3> QED
      BY <3>1, <3>2
  <2> QED
    BY <2>1, <2>4, <2>5
<1>5. CASE LoadSucceeds
  BY <1>0, <1>5 DEF LoadSucceeds
<1>6. CASE LoadFails
  <2>1. /\ Cleanups(looper) = {} /\ looper' = Append(looper, FAILED)
        /\ loading' = FALSE /\ hotReloading' = hotReloading /\ hotReloading
        /\ noView' = FALSE
    BY <1>0, <1>6 DEF LoadFails
  <2>2. Cleanups(looper') = {Len(looper) + 1}
    BY <1>0, <2>1, AppendCleanups
  <2> QED
    BY <2>1, <2>2
<1>7. CASE EndFailedLoad
  <2>1. /\ ~loading /\ looper # <<>> /\ Head(looper) = FAILED
        /\ looper' = Tail(looper) /\ hotReloading' = FALSE /\ loading' = loading
        /\ 1 \in Cleanups(looper) /\ noView' = FALSE
    BY <1>0, <1>7, TailCleanups DEF EndFailedLoad
  <2>2. Cleanups(looper') = {}
    <3> SUFFICES ASSUME NEW j \in Cleanups(looper') PROVE FALSE
      OBVIOUS
    <3>1. j \in Nat \ {0} /\ j + 1 \in Cleanups(looper) /\ 1 \in Cleanups(looper)
      BY <1>0, <2>1, TailCleanups
    <3>2. j + 1 = 1
      BY <1>0, <3>1
    <3> QED
      BY <3>1, <3>2
  <2> QED
    BY <2>1, <2>2
<1>8. CASE LoadWithoutView
  BY <1>0, <1>8 DEF LoadWithoutView
<1> QED
  BY <1>1, <1>2, <1>3, <1>4, <1>5, <1>6, <1>7, <1>8
     DEF Next, ReceiveChange, ReceiveReload, ReceiverStep, AcceptReload, AgainGet, AgainSet,
         FileStep, FileCheck, FileGet, FileSet, FileApply, FileCount,
         ReloadStep, TaskStart, TaskSettled, TaskReloading, TaskPoll, TaskGet, TaskPre,
         TaskEnd, MainStep, page

\* Both hold in every behaviour.
LEMMA FlagInvariant == Spec => [](TypeOK /\ Numbered /\ FlagIsExact)
<1>1. Init => Numbered /\ FlagIsExact
  <2> SUFFICES ASSUME Init PROVE Numbered /\ FlagIsExact
    OBVIOUS
  <2>1. Numbered
    BY DEF Init, Numbered
  <2>2. DOMAIN looper = {} /\ ~loading /\ ~hotReloading /\ ~noView
    BY DEF Init
  <2> QED
    BY <2>1, <2>2 DEF FlagIsExact
<1>2. TypeOK /\ (Numbered /\ FlagIsExact) /\ [Next]_vars => (Numbered /\ FlagIsExact)'
  <2> SUFFICES ASSUME TypeOK, Numbered, FlagIsExact, [Next]_vars
               PROVE  (Numbered /\ FlagIsExact)'
    OBVIOUS
  <2>1. CASE Next
    BY <2>1, NumberedStep, FlagStep
  <2>2. CASE UNCHANGED vars
    BY <2>2 DEF vars, asking, page, Numbered, FlagIsExact
  <2> QED
    BY <2>1, <2>2
<1> QED
  BY <1>1, <1>2, TypeCorrect, PTL DEF Spec

\* However many connections ask for reloads and whatever scripts fail, the flag
\* the reload task polls is set only while something is under way that clears
\* it, or after a load that was left without a view (reloadByHotReload,
\* onScriptExecuted, createLuaView).
THEOREM FlagMeansLoading == Spec => []FlagIsExact
  BY FlagInvariant, PTL

\* A posted reload that the page declines is declined for a script that failed
\* and whose cleanup is in the queue behind it, or for a load that was left
\* without a view, never for a load that runs.
THEOREM DeclinedAfterFailure ==
  Spec => [][DeclineLoad => /\ ~loading
                            /\ noView \/ \E i \in DOMAIN looper : looper[i] = FAILED]_vars
<1>1. FlagIsExact => (DeclineLoad => /\ ~loading
                                     /\ noView \/ \E i \in DOMAIN looper : looper[i] = FAILED)
  BY DEF FlagIsExact, DeclineLoad
<1> QED
  BY <1>1, FlagMeansLoading, PTL

\* After a load that was left without a view the page loads nothing for hot
\* reload, and a task that polls for its end polls for ever, whatever is sent
\* by however many connections: the wait has no limit, and what it waits for
\* was to be done by a script that never ran (HotReloadHelper.java:220-222,
\* MLSInstance.java:735, 1382).
THEOREM PollsForEver ==
  Spec => [](noView => [](~loading /\ hotReloading))
          /\ [](noView /\ reload.at = "poll" => [](reload.at = "poll"))
<1> DEFINE Lost == noView /\ hotReloading /\ ~loading
<1>1. FlagIsExact => (noView => Lost)
  BY DEF FlagIsExact
<1>2. TypeOK /\ FlagIsExact /\ Lost /\ [Next]_vars => Lost'
  <2> SUFFICES ASSUME TypeOK, FlagIsExact, Lost, [Next]_vars PROVE Lost'
    OBVIOUS
  <2>1. ~BeginLoad /\ ~LoadSucceeds /\ ~LoadFails /\ ~LoadWithoutView
    BY DEF BeginLoad, LoadSucceeds, LoadFails, LoadWithoutView
  <2>2. ~EndFailedLoad
    <3>1. looper \in Seq(0..MaxRequests) /\ Cleanups(looper) = {}
      BY DEF TypeOK, FlagIsExact, Cleanups
    <3> QED
      BY <3>1, TailCleanups DEF EndFailedLoad
  <2>3. UNCHANGED <<loading, hotReloading, noView>>
    BY <2>1, <2>2
       DEF vars, page, Next, ReceiveChange, ReceiveReload, ReceiverStep, AcceptReload, AgainGet,
           AgainSet, FileStep, FileCheck, FileGet, FileSet, FileApply, FileCount,
           ReloadStep, TaskStart, TaskSettled, TaskReloading, TaskPost, TaskPoll, TaskGet,
           TaskPre, TaskEnd, MainStep, DeclineLoad
  <2> QED
    BY <2>3
<1>3. TypeOK /\ Lost /\ reload.at = "poll" /\ [Next]_vars => (reload.at = "poll")'
  <2> SUFFICES ASSUME Lost, reload.at = "poll", [Next]_vars
               PROVE  reload'.at = "poll"
    OBVIOUS
  <2>1. ~ReloadStep
    BY DEF ReloadStep, TaskStart, TaskSettled, TaskReloading, TaskPost, TaskPoll, TaskGet,
           TaskPre, TaskEnd
  <2>2. UNCHANGED reload
    BY <2>1, OthersKeepTasks
       DEF vars, Next, ReceiveChange, ReceiveReload, ReceiverStep, AcceptReload, AgainGet, AgainSet
  <2> QED
    BY <2>2
<1> QED
  BY <1>1, <1>2, <1>3, FlagInvariant, PTL DEF Spec

--------------------------------------------------------------------------------
(* What a state that nobody frees costs.                                   *)

\* Nothing is queued or runs, the state is not free, and no stale write of a
\* receiver makes it so.
Stuck ==
  /\ tasks = <<>> /\ reload.at = "idle" /\ looper = <<>> /\ ~loading
  /\ ~FreeToReload(reloadState)
  /\ \A r \in Receivers : /\ receiver[r].at # "accept"
                          /\ receiver[r].at = "set" => ~FreeToReload(receiver[r].st)

\* No step of any thread leads out of it.
LEMMA StuckStep ==
  ASSUME TypeOK, Stuck, Next
  PROVE  Stuck'
<1>0. receiver \in [Receivers -> ReceiverRecord]
  BY DEF TypeOK, ReceiverRecord
<1>1. ASSUME NEW r \in Receivers, ReceiveChange(r)
      PROVE  Stuck'
  BY <1>1 DEF ReceiveChange, Stuck, page
<1>2. ASSUME NEW r \in Receivers, ReceiveReload(r)
      PROVE  Stuck'
  <2>1. /\ UNCHANGED <<tasks, reload, looper, loading, reloadState>>
        /\ receiver'[r].at = "get"
        /\ \A q \in Receivers : q # r => receiver'[q] = receiver[q]
    BY <1>0, <1>2 DEF ReceiveReload, Stuck, page
  <2> QED
    BY <2>1 DEF Stuck
<1>3. ASSUME NEW r \in Receivers, AgainGet(r)
      PROVE  Stuck'
  <2>1. /\ UNCHANGED <<tasks, reload, looper, loading, reloadState>>
        /\ receiver'[r].at = "set" /\ receiver'[r].st = reloadState
        /\ \A q \in Receivers : q # r => receiver'[q] = receiver[q]
    BY <1>0, <1>3 DEF AgainGet, page, ReceiverRecord
  <2> QED
    BY <2>1 DEF Stuck
<1>4. ASSUME NEW r \in Receivers, AgainSet(r)
      PROVE  Stuck'
  <2>1. /\ UNCHANGED <<tasks, reload, looper, loading>>
        /\ reloadState' = receiver[r].st \cup {"RELOAD_AGAIN"}
        /\ ~FreeToReload(receiver[r].st)
        /\ receiver'[r].at = "idle"
        /\ \A q \in Receivers : q # r => receiver'[q] = receiver[q]
    BY <1>0, <1>4 DEF AgainSet, page, ReceiverRecord, Stuck
  <2>2. ~FreeToReload(reloadState')
    BY <2>1 DEF FreeToReload
  <2> QED
    BY <2>1, <2>2 DEF Stuck
<1>5. ASSUME FileStep PROVE Stuck'
  <2>1. UNCHANGED <<receiver, tasks, reload, looper, loading>>
    BY <1>5, OthersKeepTasks DEF FileStep, FileCheck, FileGet, FileSet, FileApply, FileCount, page
  <2>2. reloadState' = reloadState \/ "FILE_CHANGE_WHEN_RELOADING" \in reloadState'
    BY <1>5 DEF FileStep, FileCheck, FileGet, FileSet, FileApply, FileCount
  <2>3. "FILE_CHANGE_WHEN_RELOADING" \in reloadState' => ~FreeToReload(reloadState')
    BY DEF FreeToReload
  <2> QED
    BY <2>1, <2>2, <2>3 DEF Stuck
<1>6. ~\E r \in Receivers : AcceptReload(r)
  BY DEF AcceptReload, Stuck
<1>7. ~ReloadStep
  BY DEF ReloadStep, TaskStart, TaskSettled, TaskReloading, TaskPost, TaskPoll, TaskGet,
         TaskPre, TaskEnd, Stuck
<1>8. ~MainStep
  BY DEF MainStep, BeginLoad, DeclineLoad, LoadSucceeds, LoadFails, LoadWithoutView,
         EndFailedLoad, Stuck
<1> QED
  BY <1>1, <1>2, <1>3, <1>4, <1>5, <1>6, <1>7, <1>8 DEF Next, ReceiverStep

\* A page whose threads come to rest with a busy state never reloads again,
\* whatever is sent to it by however many connections: what NotStuck is
\* violated by is final (onReload, HotReloadHelper.java:195).
THEOREM StuckForEver ==
  Spec => [](Quiet /\ ~FreeToReload(reloadState)
               => [](tasks = <<>> /\ reload.at = "idle" /\ ~loading))
<1>1. Quiet /\ ~FreeToReload(reloadState) => Stuck
  BY DEF Quiet, Stuck
<1>2. TypeOK /\ Stuck /\ [Next]_vars => Stuck'
  <2>1. CASE UNCHANGED vars
    BY <2>1 DEF vars, asking, page, Stuck
  <2> QED
    BY <2>1, StuckStep
<1>3. Stuck => tasks = <<>> /\ reload.at = "idle" /\ ~loading
  BY DEF Stuck
<1> QED
  BY <1>1, <1>2, <1>3, TypeCorrect, PTL DEF Spec

--------------------------------------------------------------------------------
(* What happens to a posted reload when scripts do not fail.               *)

\* Without failures no cleanup is ever posted, and every load has a view.
LEMMA CleanStep ==
  ASSUME ~LoadsMayFail, TypeOK, Numbered, Cleanups(looper) = {}, ~noView, Next
  PROVE  Cleanups(looper') = {} /\ ~noView'
<1>0. /\ looper \in Seq(0..MaxRequests) /\ reload.task.request \in 0..MaxRequests
      /\ noView' = noView
  BY DEF TypeOK, Tasks, page,
         Next, ReceiveChange, ReceiveReload, ReceiverStep, AcceptReload, AgainGet, AgainSet,
         FileStep, FileCheck, FileGet, FileSet, FileApply, FileCount,
         ReloadStep, TaskStart, TaskSettled, TaskReloading, TaskPost, TaskPoll, TaskGet,
         TaskPre, TaskEnd, MainStep, BeginLoad, DeclineLoad, LoadSucceeds, LoadFails,
         LoadWithoutView, EndFailedLoad
<1>1. CASE UNCHANGED looper
  BY <1>0, <1>1
<1>2. CASE TaskPost
  <2>1. looper' = Append(looper, reload.task.request) /\ reload.task.request # FAILED
    BY <1>2 DEF TaskPost, Numbered
  <2> QED
    BY <1>0, <2>1, AppendCleanups
<1>3. CASE looper # <<>> /\ looper' = Tail(looper)
  BY <1>0, <1>3, TailCleanups
<1> QED
  BY <1>1, <1>2, <1>3
     DEF Next, ReceiveChange, ReceiveReload, ReceiverStep, AcceptReload, AgainGet, AgainSet,
         FileStep, FileCheck, FileGet, FileSet, FileApply, FileCount,
         ReloadStep, TaskStart, TaskSettled, TaskReloading, TaskPoll, TaskGet, TaskPre,
         TaskEnd, MainStep, BeginLoad, DeclineLoad, LoadSucceeds, LoadFails, LoadWithoutView,
         EndFailedLoad, page

\* From its post on, the reload of a task is in the queue or was begun with
\* every change it is due done with.
PostedIsKept ==
  reload.at \in {"poll", "get", "pre", "end"} =>
    /\ done >= reload.task.due
    /\ \/ shown >= reload.task.due
       \/ \E i \in DOMAIN looper : looper[i] = reload.task.request

\* Every step keeps it there.
LEMMA KeptStep ==
  ASSUME ~LoadsMayFail, IInv, FlagIsExact, Cleanups(looper) = {}, ~noView, PostedIsKept, Next
  PROVE  PostedIsKept'
<1>0. /\ TypeOK /\ SettledBeforeReload /\ looper \in Seq(0..MaxRequests)
      /\ done \in Nat /\ shown \in Nat
      /\ reload.task.due \in Nat /\ reload.task.request \in 0..MaxRequests
  BY DEF IInv, TypeOK, Tasks
<1>1. CASE \/ \E r \in Receivers : ReceiveChange(r) \/ ReceiveReload(r) \/ ReceiverStep(r)
           \/ FileStep \/ LoadSucceeds
  <2>1. /\ UNCHANGED <<reload, looper, shown>>
        /\ done' = done \/ done' = done + 1
    BY <1>1 DEF ReceiveChange, ReceiveReload, ReceiverStep, AcceptReload, AgainGet, AgainSet,
                FileStep, FileCheck, FileGet, FileSet, FileApply, FileCount, LoadSucceeds, page
  <2> QED
    BY <1>0, <2>1 DEF PostedIsKept
<1>2. CASE TaskStart \/ TaskSettled \/ TaskReloading \/ TaskEnd
  <2>1. reload'.at \notin {"poll", "get", "pre", "end"}
    BY <1>0, <1>2 DEF TaskStart, TaskSettled, TaskReloading, TaskEnd, TypeOK
  <2> QED
    BY <2>1 DEF PostedIsKept
<1>3. CASE TaskPost
  <2>1. /\ looper' = Append(looper, reload.task.request) /\ reload'.task = reload.task
        /\ done' = done /\ reload.at = "post"
    BY <1>0, <1>3 DEF TaskPost, TypeOK
  <2>2. done >= reload.task.due
    BY <1>0, <2>1 DEF SettledBeforeReload
  <2>3. Len(looper) + 1 \in DOMAIN looper' /\ looper'[Len(looper) + 1] = reload'.task.request
    BY <1>0, <2>1
  <2> QED
    BY <2>1, <2>2, <2>3 DEF PostedIsKept
<1>4. CASE TaskPoll \/ TaskGet \/ TaskPre
  <2>1. /\ UNCHANGED <<looper, shown, done>> /\ reload'.task = reload.task
        /\ reload.at \in {"poll", "get", "pre"}
    BY <1>0, <1>4 DEF TaskPoll, TaskGet, TaskPre, TypeOK, page
  <2> QED
    BY <2>1 DEF PostedIsKept
<1>5. CASE BeginLoad
  <2>1. UNCHANGED <<reload, done>> /\ shown' = done
    BY <1>5 DEF BeginLoad
  <2> QED
    BY <2>1 DEF PostedIsKept
<1>6. ~DeclineLoad
  BY DEF DeclineLoad, FlagIsExact, Cleanups
<1>7. ~LoadFails /\ ~LoadWithoutView
  BY DEF LoadFails, LoadWithoutView
<1>8. ~EndFailedLoad
  BY <1>0, TailCleanups DEF EndFailedLoad
<1> QED
  BY <1>1, <1>2, <1>3, <1>4, <1>5, <1>6, <1>7, <1>8 DEF Next, ReloadStep, MainStep

\* Both hold in every behaviour in which no load fails.
LEMMA KeptInvariant ==
  ASSUME ~LoadsMayFail
  PROVE  Spec => [](FlagIsExact /\ Cleanups(looper) = {} /\ ~noView /\ PostedIsKept)
<1>1. Init => Cleanups(looper) = {} /\ ~noView /\ PostedIsKept
  BY DEF Init, Cleanups, PostedIsKept
<1>2. TypeOK /\ Numbered /\ Cleanups(looper) = {} /\ ~noView /\ [Next]_vars
        => (Cleanups(looper) = {} /\ ~noView)'
  <2>1. CASE UNCHANGED vars
    BY <2>1 DEF vars, page
  <2> QED
    BY <2>1, CleanStep
<1>3. IInv /\ FlagIsExact /\ Cleanups(looper) = {} /\ ~noView /\ PostedIsKept /\ [Next]_vars
        => PostedIsKept'
  <2>1. CASE UNCHANGED vars
    BY <2>1 DEF vars, page, PostedIsKept
  <2> QED
    BY <2>1, KeptStep
<1> QED
  BY <1>1, <1>2, <1>3, FlagInvariant, Invariant, PTL DEF Spec

\* As long as no script fails and every load gets a view, the reload a task was
\* submitted for is never lost between the reload thread and the main thread: it
\* waits in the queue until a load began with the changes it is due.
THEOREM NothingLost ==
  ASSUME ~LoadsMayFail
  PROVE  Spec => [](reload.at \in {"poll", "get", "pre", "end"} =>
                      \/ shown >= reload.task.due
                      \/ \E i \in DOMAIN looper : looper[i] = reload.task.request)
<1>1. PostedIsKept => (reload.at \in {"poll", "get", "pre", "end"} =>
                         \/ shown >= reload.task.due
                         \/ \E i \in DOMAIN looper : looper[i] = reload.task.request)
  BY DEF PostedIsKept
<1> QED
  BY <1>1, KeptInvariant, PTL

\* Nor does the page decline one: what it takes from the queue it loads.
THEOREM NothingDeclined == ASSUME ~LoadsMayFail PROVE Spec => [][~DeclineLoad]_vars
<1>1. FlagIsExact /\ Cleanups(looper) = {} /\ ~noView => ~DeclineLoad
  BY DEF DeclineLoad, FlagIsExact, Cleanups
<1> QED
  BY <1>1, KeptInvariant, PTL

--------------------------------------------------------------------------------
(* What the two waits of a reload task run down.                           *)

\* What a receiver may still write: its requests to come, and the one it is in.
AskRank(r) == 3 * (MaxRequests - requests)
              + (IF receiver[r].at = "idle" THEN 0 ELSE IF receiver[r].at = "get" THEN 2 ELSE 1)

\* The changes to come and those not yet counted off.
ChangeRank == 2 * (MaxChanges - received) + changeFiles

\* Where the file thread is with the change at hand.
FileRank ==
  CASE file.at = "idle"  -> 5
    [] file.at = "get"   -> 4
    [] file.at = "set"   -> 3
    [] file.at = "check" -> IF MustNote(reloadState) THEN 5 ELSE 2
    [] file.at = "apply" -> 1
    [] file.at = "count" -> 0

WaitRank(r) == 6 * (AskRank(r) + ChangeRank) + FileRank

\* What the main thread has to do before the flag is down for good.
PollRank == 3 * Len(looper) + (IF loading THEN 4 ELSE 0)
            - (IF hotReloading /\ ~noView THEN 2 ELSE 0)

\* The parts of the rank are numbers.
RanksAreNumbers ==
  /\ ChangeRank \in Nat /\ FileRank \in 0..5
  /\ \A r \in Receivers : AskRank(r) \in Nat /\ WaitRank(r) \in Nat

\* They are whenever the types hold...
LEMMA RankType == TypeOK => RanksAreNumbers
<1> SUFFICES ASSUME TypeOK PROVE RanksAreNumbers
  OBVIOUS
<1>1. /\ requests \in 0..MaxRequests /\ received \in 0..MaxChanges /\ changeFiles \in Nat
      /\ file.at \in {"idle", "check", "get", "set", "apply", "count"}
  BY DEF TypeOK
<1>2. \A r \in Receivers : AskRank(r) \in Nat
  BY <1>1 DEF AskRank
<1>3. ChangeRank \in Nat
  BY <1>1 DEF ChangeRank
<1>4. FileRank \in 0..5
  BY <1>1 DEF FileRank
<1> QED
  BY <1>2, <1>3, <1>4 DEF WaitRank, RanksAreNumbers

\* ...and so after a step.
LEMMA RankTypeAfter == TypeOK' => RanksAreNumbers'
  BY RankType, PTL

\* Every message and every step of a receiver uses up more than the file thread
\* can be set back by it.
LEMMA ReceiverRank ==
  ASSUME TypeOK, TypeOK', NEW r \in Receivers,
         ReceiveChange(r) \/ ReceiveReload(r) \/ ReceiverStep(r)
  PROVE  WaitRank(r)' < WaitRank(r)
<1>0. /\ requests \in Nat /\ received \in Nat /\ changeFiles \in Nat
      /\ receiver \in [Receivers -> ReceiverRecord]
  BY DEF TypeOK, ReceiverRecord
<1>1. /\ AskRank(r) \in Nat /\ ChangeRank \in Nat /\ FileRank \in 0..5
      /\ AskRank(r)' \in Nat /\ ChangeRank' \in Nat /\ FileRank' \in 0..5
  BY RankType, RankTypeAfter DEF RanksAreNumbers
<1>2. AskRank(r)' + ChangeRank' < AskRank(r) + ChangeRank
  <2>1. CASE ReceiveChange(r)
    <3>1. AskRank(r)' = AskRank(r)
      BY <2>1 DEF ReceiveChange, AskRank
    <3>2. ChangeRank' = ChangeRank - 1
      BY <1>0, <2>1 DEF ReceiveChange, ChangeRank
    <3> QED
      BY <1>1, <3>1, <3>2
  <2>2. CASE ReceiveReload(r)
    <3>1. /\ receiver'[r].at \in {"accept", "get"} /\ receiver[r].at = "idle"
          /\ requests' = requests + 1
      BY <1>0, <2>2 DEF ReceiveReload
    <3>2. AskRank(r)' < AskRank(r)
      BY <1>0, <3>1 DEF AskRank
    <3>3. ChangeRank' = ChangeRank
      BY <2>2 DEF ReceiveReload, ChangeRank
    <3> QED
      BY <1>1, <3>2, <3>3
  <2>3. CASE ReceiverStep(r)
    <3>1. \/ receiver[r].at \in {"accept", "set"} /\ receiver'[r].at = "idle"
          \/ receiver[r].at = "get" /\ receiver'[r].at = "set"
      BY <1>0, <2>3 DEF ReceiverStep, AcceptReload, AgainGet, AgainSet, ReceiverRecord
    <3>2. UNCHANGED <<requests, received, changeFiles>>
      BY <2>3 DEF ReceiverStep, AcceptReload, AgainGet, AgainSet
    <3>3. AskRank(r)' < AskRank(r)
      BY <1>0, <3>1, <3>2 DEF AskRank
    <3>4. ChangeRank' = ChangeRank
      BY <3>2 DEF ChangeRank
    <3> QED
      BY <1>1, <3>3, <3>4
  <2> QED
    BY <2>1, <2>2, <2>3
<1> QED
  BY <1>1, <1>2 DEF WaitRank

\* Every step of the file thread brings the change at hand nearer to its end,
\* and with the end of one there is one fewer.
LEMMA FileStepRank ==
  ASSUME TypeOK, TypeOK', NEW r \in Receivers, FileStep
  PROVE  WaitRank(r)' < WaitRank(r)
<1>0. /\ AskRank(r) \in Nat /\ ChangeRank \in Nat /\ FileRank \in 0..5
      /\ AskRank(r)' \in Nat /\ ChangeRank' \in Nat /\ FileRank' \in 0..5
  BY RankType, RankTypeAfter DEF RanksAreNumbers
<1>1. AskRank(r)' = AskRank(r)
  BY DEF FileStep, FileCheck, FileGet, FileSet, FileApply, FileCount, asking, AskRank
<1>2. /\ changeFiles \in Nat /\ received \in 0..MaxChanges /\ received' = received
      /\ file \in [at: {"idle", "check", "get", "set", "apply", "count"}, st: Masks]
  BY DEF FileStep, FileCheck, FileGet, FileSet, FileApply, FileCount, asking, TypeOK
<1>3. CASE FileCount
  <2>1. changeFiles' = changeFiles - 1
    BY <1>3 DEF FileCount
  <2>2. ChangeRank' = ChangeRank - 1
    BY <1>2, <2>1 DEF ChangeRank
  <2>3. FileRank = 0
    BY <1>3 DEF FileCount, FileRank
  <2> QED
    BY <1>0, <1>1, <2>2, <2>3 DEF WaitRank
<1>4. CASE FileCheck \/ FileGet \/ FileSet \/ FileApply
  <2>1. ChangeRank' = ChangeRank
    BY <1>4 DEF FileCheck, FileGet, FileSet, FileApply, asking, ChangeRank
  <2>2. FileRank' < FileRank
    <3>1. CASE FileCheck
      <4>1. FileRank = IF file.at = "idle" \/ MustNote(reloadState) THEN 5 ELSE 2
        BY <3>1 DEF FileCheck, FileRank
      <4>2. FileRank' = IF MustNote(reloadState) THEN 4 ELSE 1
        <5>1. file'.at = IF MustNote(reloadState) THEN "get" ELSE "apply"
          BY <3>1 DEF FileCheck
        <5> QED
          BY <5>1 DEF FileRank
      <4> QED
        BY <4>1, <4>2
    <3>2. CASE FileGet
      <4>1. file.at = "get" /\ file'.at = "set"
        BY <3>2 DEF FileGet
      <4> QED
        BY <4>1 DEF FileRank
    <3>3. CASE FileSet
      <4>1. file.at = "set" /\ file'.at = "check" /\ ~MustNote(reloadState')
        BY <1>2, <3>3 DEF FileSet, MustNote
      <4>2. FileRank = 3
        BY <4>1 DEF FileRank
      <4>3. FileRank' = 2
        BY <4>1 DEF FileRank, MustNote
      <4> QED
        BY <4>2, <4>3
    <3>4. CASE FileApply
      <4>1. file.at = "apply" /\ file'.at = "count"
        BY <1>2, <3>4 DEF FileApply
      <4> QED
        BY <4>1 DEF FileRank
    <3> QED
      BY <1>4, <3>1, <3>2, <3>3, <3>4
  <2> QED
    BY <1>0, <1>1, <2>1, <2>2 DEF WaitRank
<1> QED
  BY <1>3, <1>4 DEF FileStep

\* While a task waits for the files, everything that happens either leaves the
\* files and the state alone or brings the end of the wait nearer: the file
\* thread, which always has a step to take there, takes finitely many
\* (doReload, HotReloadHelper.java:200; waitReloading).
THEOREM WaitComesNearer ==
  ASSUME NEW r, Receivers = {r}
  PROVE  Spec => [][reload.at = "wait" /\ reload'.at = "wait" =>
                      /\ WaitRank(r) \in Nat
                      /\ WaitRank(r)' <= WaitRank(r)
                      /\ FileStep \/ changeFiles' # changeFiles
                           => WaitRank(r)' < WaitRank(r)]_vars
<1> DEFINE Nearer == reload.at = "wait" /\ reload'.at = "wait" =>
                       /\ WaitRank(r) \in Nat
                       /\ WaitRank(r)' <= WaitRank(r)
                       /\ FileStep \/ changeFiles' # changeFiles
                            => WaitRank(r)' < WaitRank(r)
<1>1. TypeOK /\ TypeOK' /\ [Next]_vars => [Nearer]_vars
  <2> SUFFICES ASSUME TypeOK, TypeOK', Next, reload.at = "wait", reload'.at = "wait"
               PROVE  /\ WaitRank(r) \in Nat
                      /\ WaitRank(r)' <= WaitRank(r)
                      /\ FileStep \/ changeFiles' # changeFiles
                           => WaitRank(r)' < WaitRank(r)
    OBVIOUS
  <2>1. WaitRank(r) \in Nat /\ WaitRank(r)' \in Nat
    BY RankType, RankTypeAfter DEF RanksAreNumbers
  <2>2. CASE FileStep \/ \E q \in Receivers : ReceiveChange(q) \/ ReceiveReload(q) \/ ReceiverStep(q)
    BY <2>1, <2>2, FileStepRank, ReceiverRank
  <2>3. CASE MainStep
    <3>1. UNCHANGED <<requests, receiver, received, changeFiles, file, reloadState>>
      BY <2>3 DEF MainStep, BeginLoad, DeclineLoad, LoadSucceeds, LoadFails,
                  LoadWithoutView, EndFailedLoad, asking
    <3>2. WaitRank(r)' = WaitRank(r)
      BY <3>1 DEF WaitRank, AskRank, ChangeRank, FileRank
    <3>3. ~FileStep
      BY <3>1 DEF FileStep, FileCheck, FileGet, FileSet, FileApply, FileCount, TypeOK
    <3> QED
      BY <2>1, <3>1, <3>2, <3>3
  <2>4. ~ReloadStep
    BY DEF ReloadStep, TaskStart, TaskSettled, TaskReloading, TaskPost, TaskPoll, TaskGet,
           TaskPre, TaskEnd, TypeOK
  <2> QED
    BY <2>2, <2>3, <2>4 DEF Next
<1>2. QED
  BY <1>1, TypeCorrect, PTL DEF Spec

\* While a task polls for the end of the load, whatever else happens, every
\* step of the main thread brings the end nearer, and it has one to take as
\* long as the flag is set, unless a load was left without a view: no request
\* can be posted in the meantime (reloadFinish; reloadByHotReload,
\* MLSInstance.java:735).
THEOREM PollComesNearer ==
  Spec => [][reload.at = "poll" /\ reload'.at = "poll" =>
               /\ PollRank \in Nat
               /\ hotReloading => noView \/ loading \/ looper # <<>>
               /\ PollRank' <= PollRank
               /\ MainStep => PollRank' < PollRank]_vars
<1> DEFINE Nearer == reload.at = "poll" /\ reload'.at = "poll" =>
                       /\ PollRank \in Nat
                       /\ hotReloading => noView \/ loading \/ looper # <<>>
                       /\ PollRank' <= PollRank
                       /\ MainStep => PollRank' < PollRank
<1>1. TypeOK /\ FlagIsExact /\ [Next]_vars => [Nearer]_vars
  <2> SUFFICES ASSUME TypeOK, FlagIsExact, Next, reload.at = "poll", reload'.at = "poll"
               PROVE  /\ PollRank \in Nat
                      /\ hotReloading => noView \/ loading \/ looper # <<>>
                      /\ PollRank' <= PollRank
                      /\ MainStep => PollRank' < PollRank
    OBVIOUS
  <2>1. /\ looper \in Seq(0..MaxRequests) /\ Len(looper) \in Nat
        /\ looper # <<>> => Len(looper) \in Nat \ {0} /\ Len(Tail(looper)) = Len(looper) - 1
    <3>1. looper \in Seq(0..MaxRequests)
      BY DEF TypeOK
    <3>2. looper # <<>> => Len(looper) \in Nat \ {0}
      BY <3>1, EmptySeq
    <3>3. looper # <<>> => Len(Tail(looper)) = Len(looper) - 1
      BY <3>1, <3>2
    <3> QED
      BY <3>1, <3>2, <3>3
  <2>2. hotReloading => noView \/ loading \/ looper # <<>>
    BY DEF FlagIsExact
  <2>3. PollRank \in Nat
    <3>1. CASE hotReloading /\ ~noView
      BY <2>1, <2>2, <3>1 DEF PollRank
    <3>2. CASE ~(hotReloading /\ ~noView)
      BY <2>1, <3>2 DEF PollRank
    <3> QED
      BY <3>1, <3>2
  <2>4. CASE BeginLoad
    <3>1. PollRank = 3 * Len(looper)
      BY <2>1, <2>4 DEF BeginLoad, PollRank
    <3>2. PollRank' = 3 * Len(looper') + 2
      BY <2>1, <2>4 DEF BeginLoad, PollRank, FlagIsExact
    <3> QED
      BY <2>1, <2>2, <2>3, <2>4, <3>1, <3>2 DEF BeginLoad
  <2>5. CASE DeclineLoad
    <3>1. /\ Len(looper') = Len(looper) - 1 /\ UNCHANGED <<loading, hotReloading, noView>>
      BY <2>1, <2>5 DEF DeclineLoad
    <3>2. PollRank' = PollRank - 3
      BY <2>1, <3>1 DEF PollRank
    <3> QED
      BY <2>2, <2>3, <3>2
  <2>6. CASE LoadSucceeds
    <3>1. /\ loading /\ hotReloading /\ ~noView
          /\ ~loading' /\ ~hotReloading' /\ looper' = looper
      BY <2>6 DEF LoadSucceeds, FlagIsExact
    <3>2. PollRank = 3 * Len(looper) + 2 /\ PollRank' = 3 * Len(looper)
      BY <2>1, <3>1 DEF PollRank
    <3> QED
      BY <2>1, <2>2, <2>3, <3>2
  <2>7. CASE LoadFails
    <3>1. /\ loading /\ hotReloading /\ ~loading' /\ hotReloading' /\ ~noView /\ ~noView'
          /\ Len(looper') = Len(looper) + 1
      BY <2>1, <2>7 DEF LoadFails, FlagIsExact
    <3>2. PollRank = 3 * Len(looper) + 2
      BY <2>1, <3>1 DEF PollRank
    <3>3. PollRank' = 3 * (Len(looper) + 1) - 2
      BY <2>1, <3>1 DEF PollRank
    <3> QED
      BY <2>1, <2>2, <2>3, <3>2, <3>3
  <2>8. CASE EndFailedLoad
    <3>1. /\ 1 \in DOMAIN looper /\ looper[1] = FAILED /\ looper # <<>>
      BY <2>1, <2>8 DEF EndFailedLoad
    <3>2. /\ ~loading /\ hotReloading /\ ~loading' /\ ~hotReloading' /\ ~noView
          /\ Len(looper') = Len(looper) - 1
      BY <2>1, <2>8, <3>1 DEF EndFailedLoad, FlagIsExact
    <3>3. PollRank = 3 * Len(looper) - 2
      BY <2>1, <3>2 DEF PollRank
    <3>4. PollRank' = 3 * (Len(looper) - 1)
      BY <2>1, <3>2 DEF PollRank
    <3> QED
      BY <2>1, <2>2, <2>3, <3>3, <3>4
  <2>9. CASE \E r \in Receivers : ReceiveChange(r) \/ ReceiveReload(r) \/ ReceiverStep(r)
    <3>1. UNCHANGED <<looper, loading, hotReloading, noView, reload>>
      BY <2>9 DEF ReceiveChange, ReceiveReload, ReceiverStep, AcceptReload, AgainGet, AgainSet, page
    <3>2. ~MainStep
      BY <2>1, <3>1 DEF MainStep, BeginLoad, DeclineLoad, LoadSucceeds, LoadFails,
                        LoadWithoutView, EndFailedLoad
    <3>3. PollRank' = PollRank
      BY <3>1 DEF PollRank
    <3> QED
      BY <2>2, <2>3, <3>2, <3>3
  <2>10. CASE FileStep
    <3>1. UNCHANGED <<looper, loading, hotReloading, noView, reload>>
      BY <2>10 DEF FileStep, FileCheck, FileGet, FileSet, FileApply, FileCount, page
    <3>2. ~MainStep
      BY <2>1, <3>1 DEF MainStep, BeginLoad, DeclineLoad, LoadSucceeds, LoadFails,
                        LoadWithoutView, EndFailedLoad
    <3>3. PollRank' = PollRank
      BY <3>1 DEF PollRank
    <3> QED
      BY <2>2, <2>3, <3>2, <3>3
  <2>12. CASE LoadWithoutView
    <3>1. /\ loading /\ hotReloading /\ ~noView /\ ~loading' /\ noView' /\ looper' = looper
      BY <2>12 DEF LoadWithoutView, FlagIsExact
    <3>2. PollRank = 3 * Len(looper) + 2 /\ PollRank' = 3 * Len(looper)
      BY <2>1, <3>1 DEF PollRank
    <3> QED
      BY <2>1, <2>2, <2>3, <3>2
  <2>11. ~ReloadStep
    BY DEF ReloadStep, TaskStart, TaskSettled, TaskReloading, TaskPost, TaskPoll, TaskGet,
           TaskPre, TaskEnd, TypeOK
  <2> QED
    BY <2>4, <2>5, <2>6, <2>7, <2>8, <2>9, <2>10, <2>11, <2>12
       DEF Next, MainStep
<1>2. QED
  BY <1>1, FlagInvariant, PTL DEF Spec
================================================================================
