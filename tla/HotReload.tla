------------------------------- MODULE HotReload -------------------------------
(***************************************************************************)
(* The reload machine of a page under hot reload: HotReloadImpl in         *)
(* HotReloadHelper.java, with the page (MLSInstance) it drives.            *)
(*                                                                         *)
(* Four kinds of threads take part.  A receiver reads messages of one      *)
(* connection and calls onReload or an onFile... method; the file thread   *)
(* applies file changes in the order they were submitted; the reload       *)
(* thread runs reload tasks; the main thread loads the page.  They share   *)
(* changeFiles, the number of changes still to be made, and reloadState, a *)
(* bit mask in an AtomicInteger that is read with get() and written with   *)
(* set(): each get and each set is a step of its own here.                 *)
(*                                                                         *)
(* Files and scripts are abstracted to the number of changes: done counts  *)
(* the changes the file thread is done with, by writing them or by giving  *)
(* up a file that it cannot create or write (the code does not tell these  *)
(* apart); shown is done when the page last began to load.  Requests are   *)
(* numbered; a request stands for the entry file and the parameters it     *)
(* carries.  The page has been rendered, so reloadByHotReload stops only   *)
(* where a hot reload is under way, and it is neither reloaded by its user *)
(* nor destroyed: a load left without a view is the last.                  *)
(*                                                                         *)
(* Fault_ operators are plausible mistakes the properties are tried        *)
(* against; no action uses them.                                           *)
(***************************************************************************)
EXTENDS Integers, Sequences, FiniteSets

CONSTANTS Receivers,     \* reader threads: one per connection (USB, wifi)
          MaxChanges,    \* bound: file changes sent by the plugin
          MaxRequests,   \* bound: reload requests sent by the plugin
          LoadsMayFail   \* TRUE: a script may fail to compile or to run, and
                         \* its view to be made

ASSUME HotReloadAssumption ==
  /\ Receivers # {} /\ IsFiniteSet(Receivers)
  /\ MaxChanges \in Nat /\ MaxRequests \in Nat
  /\ LoadsMayFail \in BOOLEAN

VARIABLES
  reloadState,   \* AtomicInteger reloadState: the set of its bits
  changeFiles,   \* AtomicInteger changeFiles
  received,      \* file changes received so far
  done,          \* file changes written or given up so far
  requests,      \* reload requests received so far
  receiver,      \* per receiver: where it is in onReload, and what it read
  file,          \* the file thread: where it is, and what it read
  tasks,         \* the queue of reloadThread
  reload,        \* the reload thread: where it is, its task, what it read
  looper,        \* runnables posted to the main thread
  loading,       \* the main thread is inside loadScript
  hotReloading,  \* STATE_HOT_RELOADING of the page
  shown,         \* changes done with when the page last began to load
  noView         \* a load was left without a view and without a callback

asking == <<received, requests, receiver>>
page == <<looper, loading, hotReloading, shown, noView>>
vars == <<reloadState, changeFiles, asking, done, file, tasks, reload, page>>

Flags == {"PRE_RELOAD", "WAIT_FILE", "RELOADING",
          "FILE_CHANGE_WHEN_RELOADING", "RELOAD_AGAIN"}
Masks == SUBSET Flags

\* A reload task, with the parameters it was submitted with (its request)
\* and the changes received before that request.
Tasks == [request: 0..MaxRequests, due: 0..MaxChanges]
NoTask == [request |-> 0, due |-> 0]
FAILED == 0     \* the runnable that ends a failed load; a reload is its request

Init ==
  /\ reloadState = {} /\ changeFiles = 0
  /\ received = 0 /\ done = 0 /\ requests = 0
  /\ receiver = [r \in Receivers |-> [at |-> "idle", st |-> {}, task |-> NoTask]]
  /\ file = [at |-> "idle", st |-> {}]
  /\ tasks = <<>>
  /\ reload = [at |-> "idle", st |-> {}, task |-> NoTask]
  /\ looper = <<>> /\ loading = FALSE /\ hotReloading = FALSE
  /\ shown = 0 /\ noView = FALSE

--------------------------------------------------------------------------------
(***************************************************************************)
(* Receivers                                                               *)
(***************************************************************************)

\* onFileCreate, onFileUpdate, onFileRename, onFileMove, onFileDelete: count
\* the change and hand it to the file thread.
ReceiveChange(r) ==
  /\ receiver[r].at = "idle" /\ received < MaxChanges
  /\ received' = received + 1
  /\ changeFiles' = changeFiles + 1
  /\ UNCHANGED <<reloadState, requests, receiver, done, file, tasks, reload, page>>

\* No reload under way: RELOAD_AGAIN alone does not stop a new one.
Fault_FreeToReload(st) == "RELOADING" \notin st
FreeToReload(st) == st \in {{}, {"RELOAD_AGAIN"}}

\* onReload reads the state...
ReceiveReload(r) ==
  /\ receiver[r].at = "idle" /\ requests < MaxRequests
  /\ requests' = requests + 1
  /\ receiver' = [receiver EXCEPT ![r] =
       [at   |-> IF FreeToReload(reloadState) THEN "accept" ELSE "get",
        st   |-> reloadState,
        task |-> [request |-> requests + 1, due |-> received]]]
  /\ UNCHANGED <<reloadState, changeFiles, received, done, file, tasks, reload, page>>

\* ...and either submits a task (with the set() before it), or...
AcceptReload(r) ==
  /\ receiver[r].at = "accept"
  /\ reloadState' = {"PRE_RELOAD"}
  /\ tasks' = Append(tasks, receiver[r].task)
  /\ receiver' = [receiver EXCEPT ![r].at = "idle"]
  /\ UNCHANGED <<changeFiles, received, requests, done, file, reload, page>>

\* ...reads the state again and writes it back with RELOAD_AGAIN.  The request
\* itself (entry file, parameters) is dropped.
AgainGet(r) ==
  /\ receiver[r].at = "get"
  /\ receiver' = [receiver EXCEPT ![r].at = "set", ![r].st = reloadState]
  /\ UNCHANGED <<reloadState, changeFiles, received, requests, done, file, tasks, reload, page>>

AgainSet(r) ==
  /\ receiver[r].at = "set"
  /\ reloadState' = receiver[r].st \cup {"RELOAD_AGAIN"}
  /\ receiver' = [receiver EXCEPT ![r].at = "idle"]
  /\ UNCHANGED <<changeFiles, received, requests, done, file, tasks, reload, page>>

--------------------------------------------------------------------------------
(***************************************************************************)
(* The file thread                                                         *)
(***************************************************************************)

\* The loop condition of waitReloading.  The loop does not wait for the
\* reload: it ends once the change is noted in the state.
MustNote(st) == /\ "RELOADING" \in st
                /\ "FILE_CHANGE_WHEN_RELOADING" \notin st
                /\ "PRE_RELOAD" \notin st

\* Start the next task, or go round the loop: test the state.
FileCheck ==
  /\ \/ file.at = "idle" /\ changeFiles > 0
     \/ file.at = "check"
  /\ file' = [at |-> IF MustNote(reloadState) THEN "get" ELSE "apply", st |-> reloadState]
  /\ UNCHANGED <<reloadState, changeFiles, asking, done, tasks, reload, page>>

FileGet ==
  /\ file.at = "get"
  /\ file' = [at |-> "set", st |-> reloadState]
  /\ UNCHANGED <<reloadState, changeFiles, asking, done, tasks, reload, page>>

FileSet ==
  /\ file.at = "set"
  /\ reloadState' = file.st \cup {"FILE_CHANGE_WHEN_RELOADING"}
  /\ file' = [file EXCEPT !.at = "check"]
  /\ UNCHANGED <<changeFiles, asking, done, tasks, reload, page>>

\* The change is written, or given up...
FileApply ==
  /\ file.at = "apply"
  /\ done' = done + 1
  /\ file' = [file EXCEPT !.at = "count"]
  /\ UNCHANGED <<reloadState, changeFiles, asking, tasks, reload, page>>

\* ...and is counted off after that.
Fault_FileCount ==
  /\ file.at = "count"
  /\ changeFiles' = changeFiles - 2
  /\ file' = [file EXCEPT !.at = "idle"]
  /\ UNCHANGED <<reloadState, asking, done, tasks, reload, page>>
FileCount ==
  /\ file.at = "count"
  /\ changeFiles' = changeFiles - 1
  /\ file' = [file EXCEPT !.at = "idle"]
  /\ UNCHANGED <<reloadState, asking, done, tasks, reload, page>>

--------------------------------------------------------------------------------
(***************************************************************************)
(* The reload thread                                                       *)
(***************************************************************************)

TaskStart ==
  /\ reload.at = "idle" /\ tasks # <<>>
  /\ reload' = [at |-> "wait", st |-> {}, task |-> Head(tasks)]
  /\ tasks' = Tail(tasks)
  /\ reloadState' = {"WAIT_FILE"}
  /\ UNCHANGED <<changeFiles, asking, done, file, page>>

\* The busy wait ends when no change is on its way.
Fault_Settled == changeFiles < 2
Settled == changeFiles = 0

TaskSettled ==
  /\ reload.at = "wait" /\ Settled
  /\ reload' = [reload EXCEPT !.at = "reload"]
  /\ UNCHANGED <<reloadState, changeFiles, asking, done, file, tasks, page>>

TaskReloading ==
  /\ reload.at = "reload"
  /\ reloadState' = {"RELOADING"}
  /\ reload' = [reload EXCEPT !.at = "post"]
  /\ UNCHANGED <<changeFiles, asking, done, file, tasks, page>>

\* onReload of the page, called off the main thread: post the reload.
TaskPost ==
  /\ reload.at = "post"
  /\ looper' = Append(looper, reload.task.request)
  /\ reload' = [reload EXCEPT !.at = "poll"]
  /\ UNCHANGED <<reloadState, changeFiles, asking, done, file, tasks, loading,
                 hotReloading, shown, noView>>

\* reloadFinish, polled every 100 ms.  Nothing makes the main thread run the
\* posted reload before the first poll.
TaskPoll ==
  /\ reload.at = "poll" /\ ~hotReloading
  /\ reload' = [reload EXCEPT !.at = "get"]
  /\ UNCHANGED <<reloadState, changeFiles, asking, done, file, tasks, page>>

TaskGet ==
  /\ reload.at = "get"
  /\ reload' = [reload EXCEPT !.at = "pre", !.st = reloadState]
  /\ UNCHANGED <<reloadState, changeFiles, asking, done, file, tasks, page>>

TaskPre ==
  /\ reload.at = "pre"
  /\ reloadState' = {"PRE_RELOAD"}
  /\ reload' = [reload EXCEPT !.at = "end"]
  /\ UNCHANGED <<changeFiles, asking, done, file, tasks, page>>

\* Both bits are needed for another round, which reuses this task (this).
TaskEnd ==
  /\ reload.at = "end"
  /\ reload' = [at |-> "idle", st |-> {}, task |-> NoTask]
  /\ IF {"FILE_CHANGE_WHEN_RELOADING", "RELOAD_AGAIN"} \subseteq reload.st
       THEN tasks' = Append(tasks, reload.task) /\ UNCHANGED reloadState
       ELSE reloadState' = {} /\ UNCHANGED tasks
  /\ UNCHANGED <<changeFiles, asking, done, file, page>>

--------------------------------------------------------------------------------
(***************************************************************************)
(* The main thread: reloadByHotReload and the callbacks of the load.  A    *)
(* local entry file is loaded, compiled and run inside the runnable.       *)
(***************************************************************************)

BeginLoad ==
  /\ ~loading /\ looper # <<>> /\ Head(looper) # FAILED /\ ~hotReloading
  /\ loading' = TRUE /\ hotReloading' = TRUE
  /\ shown' = done
  /\ looper' = Tail(looper)
  /\ UNCHANGED <<reloadState, changeFiles, asking, done, file, tasks, reload, noView>>

\* A hot reload is under way: return.
DeclineLoad ==
  /\ ~loading /\ looper # <<>> /\ Head(looper) # FAILED /\ hotReloading
  /\ looper' = Tail(looper)
  /\ UNCHANGED <<reloadState, changeFiles, asking, done, file, tasks, reload, loading,
                 hotReloading, shown, noView>>

Fault_LoadSucceeds ==
  /\ loading /\ loading' = FALSE
  /\ UNCHANGED <<reloadState, changeFiles, asking, done, file, tasks, reload, looper,
                 hotReloading, shown, noView>>
\* onScriptExecuted(SUCCESS) swaps the views in and clears the state at once...
LoadSucceeds ==
  /\ loading /\ loading' = FALSE
  /\ hotReloading' = FALSE
  /\ UNCHANGED <<reloadState, changeFiles, asking, done, file, tasks, reload, looper,
                 shown, noView>>

\* ...on failure it posts the runnable that does.
Fault_LoadFails ==
  /\ LoadsMayFail /\ loading /\ loading' = FALSE
  /\ UNCHANGED <<reloadState, changeFiles, asking, done, file, tasks, reload, looper,
                 hotReloading, shown, noView>>
LoadFails ==
  /\ LoadsMayFail /\ loading /\ loading' = FALSE
  /\ looper' = Append(looper, FAILED)
  /\ UNCHANGED <<reloadState, changeFiles, asking, done, file, tasks, reload,
                 hotReloading, shown, noView>>

\* createLuaView returns none, as it does when making the view throws:
\* onScriptLoadSuccess returns, no script runs, and nothing clears the state.
LoadWithoutView ==
  /\ LoadsMayFail /\ loading /\ loading' = FALSE
  /\ noView' = TRUE
  /\ UNCHANGED <<reloadState, changeFiles, asking, done, file, tasks, reload, looper,
                 hotReloading, shown>>

EndFailedLoad ==
  /\ ~loading /\ looper # <<>> /\ Head(looper) = FAILED
  /\ looper' = Tail(looper)
  /\ hotReloading' = FALSE
  /\ UNCHANGED <<reloadState, changeFiles, asking, done, file, tasks, reload, loading,
                 shown, noView>>

--------------------------------------------------------------------------------
ReceiverStep(r) == AcceptReload(r) \/ AgainGet(r) \/ AgainSet(r)
FileStep == FileCheck \/ FileGet \/ FileSet \/ FileApply \/ FileCount
ReloadStep == \/ TaskStart \/ TaskSettled \/ TaskReloading \/ TaskPost
              \/ TaskPoll \/ TaskGet \/ TaskPre \/ TaskEnd
MainStep == \/ BeginLoad \/ DeclineLoad
            \/ LoadSucceeds \/ LoadFails \/ LoadWithoutView \/ EndFailedLoad

Next == \/ \E r \in Receivers : ReceiveChange(r) \/ ReceiveReload(r) \/ ReceiverStep(r)
        \/ FileStep \/ ReloadStep \/ MainStep

Spec == Init /\ [][Next]_vars

\* Threads that have something to run run it.  Messages arrive unfairly.
Fairness == /\ \A r \in Receivers : WF_vars(ReceiverStep(r))
            /\ WF_vars(FileStep) /\ WF_vars(ReloadStep) /\ WF_vars(MainStep)

FairSpec == Spec /\ Fairness

--------------------------------------------------------------------------------
(***************************************************************************)
(* Properties                                                              *)
(***************************************************************************)

TypeOK ==
  /\ reloadState \in Masks
  /\ changeFiles \in 0..MaxChanges /\ received \in 0..MaxChanges
  /\ done \in 0..MaxChanges /\ shown \in 0..MaxChanges
  /\ requests \in 0..MaxRequests
  /\ receiver \in [Receivers -> [at: {"idle", "accept", "get", "set"}, st: Masks, task: Tasks]]
  /\ file \in [at: {"idle", "check", "get", "set", "apply", "count"}, st: Masks]
  /\ tasks \in Seq(Tasks)
  /\ reload \in [at: {"idle", "wait", "reload", "post", "poll", "get", "pre", "end"},
                 st: Masks, task: Tasks]
  /\ looper \in Seq(0..MaxRequests)
  /\ loading \in BOOLEAN /\ hotReloading \in BOOLEAN /\ noView \in BOOLEAN

\* A page that loads for a request sees every change received before that
\* request, as far as it could be written: the counter that the task waits for
\* cannot reach zero while one of them is still queued or half applied
\* (HotReloadHelper.java:207, with the increments before submit and the
\* decrements after the write).
SettledBeforeReload ==
  reload.at \in {"reload", "post", "poll"} => done >= reload.task.due

\* With one connection, at most one reload is about to be submitted, queued or
\* running: the mixture of get() and set() never makes a busy state look free.
OneReloadAtATime ==
  /\ Len(tasks) <= 1
  /\ tasks # <<>> => reload.at = "idle"
  /\ \A r \in Receivers : receiver[r].at = "accept" => tasks = <<>> /\ reload.at = "idle"

\* A reload task ends: neither the wait for the files nor the poll for the page
\* goes on for ever, even when scripts fail, unless a load was left without a
\* view (HotReloadHelper.java:207, 220-222, MLSInstance.java:1382).
ReloadsEnd == reload.at # "idle" ~> reload.at = "idle" \/ noView

\* The page loads the changes that a submitted reload was submitted for, unless
\* in the meantime a script fails, as a reload that the main thread reaches
\* before the cleanup of the failed load is declined, or a load is left without
\* a view.
AcceptedIsShown ==
  \A n \in 1..MaxChanges :
    (\E i \in DOMAIN tasks : tasks[i].due = n)
      ~> \/ shown >= n \/ noView
         \/ \E i \in DOMAIN looper : looper[i] = FAILED

\* Nothing is left to do on any thread.
Quiet == /\ \A r \in Receivers : receiver[r].at = "idle"
         /\ file.at = "idle" /\ changeFiles = 0
         /\ tasks = <<>> /\ reload.at = "idle"
         /\ looper = <<>> /\ ~loading

\* onReload refreshes the page: when nothing is left to do, the next onReload
\* is accepted.  A get() and set() that straddle the end of a task write its
\* state back after it ended, and onReload never submits again
\* (HotReloadHelper.java:195, 242).
NotStuck == Quiet => FreeToReload(reloadState)
================================================================================
