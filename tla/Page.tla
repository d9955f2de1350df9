--------------------------------- MODULE Page ---------------------------------
(***************************************************************************)
(* A page: MLSInstance.java with the script reader and ScriptLoader, in a  *)
(* debug build.                                                            *)
(*                                                                         *)
(* The page loads a script into a VM, shows the view the script builds,    *)
(* and is reloaded by the user (into a new VM) or by hot reload (into a    *)
(* second VM that takes the place of the first once its script has run).   *)
(* Everything runs on the main thread, except that a script that is not    *)
(* there yet is fetched by a background task, which reports by changing    *)
(* mState and posting a runnable, and that hot reload asks from a thread   *)
(* of its own.  mState |= and mState &= read and write: what a background  *)
(* task writes may undo what the main thread did in between.  A method of  *)
(* the main thread is one step; running the script is a step of its own.   *)
(*                                                                         *)
(* VMs are numbered in the order they are made; a view is known by its VM. *)
(* A null pointer that is followed on the main thread ends the program:    *)
(* crash says where.  A load whose view cannot be made just stops: its     *)
(* state bits stay, and only the user's reload (of a page that ran a       *)
(* script, or missed one, before) or onDestroy gets the page out of that.  *)
(***************************************************************************)
EXTENDS Integers, Sequences, FiniteSets

CONSTANTS
  Tasks,             \* background tasks that may be under way at once
  MaxReloads         \* bound: reloads asked for, by the user and by the plugin

ASSUME PageAssumption == MaxReloads \in Nat

VARIABLES
  mState,      \* the set of its bits (PREPARED, LOADED, ... are never read)
  page,        \* globals, hotReloadGlobals: their VM, or 0; mLuaView,
               \* hotReloadLuaView: the VM of the view, or 0; luaViewManager,
               \* hotReloadLuaViewManager, initData: not null
  open,        \* the VMs that are not destroyed
  made,        \* VMs made so far
  running,     \* the VM whose script runs on the main thread, or 0
  looper,      \* runnables posted to the main thread
  task,        \* per background task: where it is, the bits it read, its result
  callback,    \* HotReloadHelper calls the page
  imediatelyReload,  \* a hot reload drops the old VM first
  gone,        \* onDestroy was called
  asked,       \* reloads asked for so far
  noView,      \* the load begun last was left, without a view and without a
               \* callback to come (kept by the model only)
  crash        \* where a null pointer was followed, or "no"

vms == <<open, made>>
outside == <<callback, imediatelyReload, gone, asked>>
vars == <<mState, page, vms, running, looper, task, outside, noView, crash>>

Bits == {"SCRIPT_LOADING", "SCRIPT_EXECUTED", "RESUME", "ERROR", "DESTROY",
         "HOT_RELOADING", "HOT_RELOAD_IMEDIATELY"}
Runnables == {"load", "reload", "bundle", "loadFailed", "failed", "appear"}
Free == [at |-> "free", bits |-> {}, found |-> FALSE]

TypeOK ==
  /\ mState \subseteq Bits
  /\ page \in [globals : 0 .. made, hotReloadGlobals : 0 .. made,
               mLuaView : 0 .. made, hotReloadLuaView : 0 .. made,
               luaViewManager : BOOLEAN, hotReloadLuaViewManager : BOOLEAN,
               initData : BOOLEAN]
  /\ made \in Nat /\ open \subseteq 1 .. made /\ running \in 0 .. made
  /\ looper \in Seq(Runnables)
  /\ task \in [Tasks -> [at : {"free", "fetch", "read1", "write1", "read2", "write2", "post"},
                         bits : SUBSET Bits, found : BOOLEAN]]
  /\ callback \in BOOLEAN /\ imediatelyReload \in BOOLEAN /\ gone \in BOOLEAN /\ asked \in 0 .. MaxReloads
  /\ noView \in BOOLEAN
  /\ crash \in {"no", "load", "executed", "failed", "loadFailed", "appear", "reload"}

Init ==
  /\ mState = {}
  /\ page = [globals |-> 0, hotReloadGlobals |-> 0, mLuaView |-> 0, hotReloadLuaView |-> 0,
             luaViewManager |-> TRUE, hotReloadLuaViewManager |-> FALSE, initData |-> FALSE]
  /\ open = {} /\ made = 0 /\ running = 0
  /\ looper = <<>> /\ task = [t \in Tasks |-> Free]
  /\ callback = FALSE /\ imediatelyReload = FALSE /\ gone = FALSE /\ asked = 0
  /\ noView = FALSE /\ crash = "no"

isDestroy(bits) == "DESTROY" \in bits
renderFinish(bits) == "SCRIPT_EXECUTED" \in bits
isError(bits) == "ERROR" \in bits

\* A hot reload that goes to a VM of its own.
Aside(bits) == "HOT_RELOADING" \in bits /\ "HOT_RELOAD_IMEDIATELY" \notin bits

\* The main thread is between two runnables or callbacks.
MainFree == running = 0 /\ crash = "no"

-------------------------------------------------------------------------------
(* Loading: loadScript, and the callbacks of the script reader.            *)

Destroy(vm) == open' = open \ {vm}

\* What ends a hot reload whose script was not found or did not run.
DropAside(p) == [p EXCEPT !.hotReloadGlobals = 0, !.hotReloadLuaView = 0,
                          !.hotReloadLuaViewManager = FALSE]

\* onScriptLoadSuccess on the main thread, up to where the script runs.  There
\* may be no view: createLuaView finds no view manager, the VM is closed, or
\* making the view throws, which is caught.  Then the method returns: no script
\* runs, nothing calls the page back, and its bits stay as they are.
Bundle(bits, p, o) ==
  LET vm  == IF Aside(bits) THEN p.hotReloadGlobals ELSE p.globals
      lvm == IF Aside(bits) THEN p.hotReloadLuaViewManager ELSE p.luaViewManager
  IN  /\ mState' = bits /\ open' = o
      /\ \/ /\ isDestroy(bits) \/ ~lvm \/ vm # 0
            /\ noView' = ~isDestroy(bits)
            /\ page' = p /\ UNCHANGED <<running, crash>>
         \/ /\ ~isDestroy(bits) /\ lvm /\ vm = 0
            /\ crash' = "load" /\ noView' = FALSE
            /\ page' = p /\ UNCHANGED running
         \/ /\ ~isDestroy(bits) /\ lvm /\ vm \in o
            /\ running' = vm /\ noView' = FALSE
            /\ page' = IF Aside(bits) THEN [p EXCEPT !.hotReloadLuaView = vm]
                                      ELSE [p EXCEPT !.mLuaView = vm]
            /\ UNCHANGED crash

\* The runnable of onScriptLoadFailed.
LoadFailed(bits, p, o) ==
  IF isDestroy(bits)
    THEN mState' = bits /\ page' = p /\ open' = o /\ UNCHANGED crash
    ELSE /\ mState' = bits \ {"HOT_RELOADING"}
         /\ IF ~Aside(bits) THEN page' = p /\ open' = o /\ UNCHANGED crash
            ELSE /\ page' = DropAside(p) /\ open' = o \ {p.hotReloadGlobals}
                 /\ crash' = IF p.hotReloadGlobals = 0 THEN "loadFailed" ELSE crash

\* A VM is made unless there is one.
Fault_initGlobals(vm) == made' = made
initGlobals(vm) == made' = IF vm = 0 THEN made + 1 ELSE made

\* loadScript, from a page that is p by now, with the VMs o open: the script
\* is there, is not there, or has to be fetched.
LoadScript(bits, p, o) ==
  IF ~p.initData \/ "SCRIPT_LOADING" \in bits \/ isDestroy(bits)
    THEN /\ mState' = bits /\ page' = p /\ open' = o
         /\ UNCHANGED <<made, running, task, noView, crash>>
    ELSE
      LET vm    == IF Aside(bits) THEN p.hotReloadGlobals ELSE p.globals
          next  == made + 1
          q     == IF vm # 0 THEN p
                   ELSE IF Aside(bits) THEN [p EXCEPT !.hotReloadGlobals = next]
                                       ELSE [p EXCEPT !.globals = next]
          oo    == IF vm # 0 THEN o ELSE o \cup {next}
          loading == bits \cup {"SCRIPT_LOADING"}
      IN  /\ initGlobals(vm)
          /\ \/ Bundle(loading, q, oo) /\ UNCHANGED task
             \/ /\ IF q.globals = 0 \/ q.globals \notin oo
                     THEN mState' = loading /\ page' = q /\ open' = oo /\ UNCHANGED crash
                     ELSE LoadFailed((loading \cup {"ERROR"}) \ {"SCRIPT_LOADING"}, q, oo)
                /\ noView' = FALSE /\ UNCHANGED <<running, task>>
             \/ /\ mState' = loading /\ page' = q /\ open' = oo /\ noView' = FALSE
                /\ \E t \in Tasks : /\ task[t].at = "free"
                                    /\ task' = [task EXCEPT ![t].at = "fetch"]
                /\ UNCHANGED <<running, crash>>

-------------------------------------------------------------------------------
(* The background task: BaseTask.run, and the callbacks of the page up to  *)
(* where they post.  Each changes mState twice.                            *)

\* It may be cancelled, or find the page collected.
Cancelled(t) ==
  /\ task[t].at = "fetch" /\ gone
  /\ task' = [task EXCEPT ![t] = Free]
  /\ UNCHANGED <<mState, page, vms, running, looper, outside, noView, crash>>

\* onScriptLoadFailed does nothing once the page's VM is destroyed.
Fetched(t) ==
  /\ task[t].at = "fetch" /\ crash = "no"
  /\ \E found \in BOOLEAN :
       task' = [task EXCEPT ![t] =
         IF ~found /\ (page.globals = 0 \/ page.globals \notin open) THEN Free
         ELSE [at |-> "read1", bits |-> {}, found |-> found]]
  /\ UNCHANGED <<mState, page, vms, running, looper, outside, noView, crash>>

Read(t) ==
  /\ task[t].at \in {"read1", "read2"} /\ crash = "no"
  /\ task' = [task EXCEPT ![t].bits = mState,
                          ![t].at = IF @ = "read1" THEN "write1" ELSE "write2"]
  /\ UNCHANGED <<mState, page, vms, running, looper, outside, noView, crash>>

\* Success adds bits that are not modelled; failure adds ERROR, then removes
\* SCRIPT_LOADING.
Write(t) ==
  /\ task[t].at \in {"write1", "write2"} /\ crash = "no"
  /\ mState' = IF task[t].found THEN task[t].bits
               ELSE IF task[t].at = "write1" THEN task[t].bits \cup {"ERROR"}
               ELSE task[t].bits \ {"SCRIPT_LOADING"}
  /\ task' = [task EXCEPT ![t].bits = {},
                          ![t].at = IF @ = "write1" THEN "read2" ELSE "post"]
  /\ UNCHANGED <<page, vms, running, looper, outside, noView, crash>>

Post(t) ==
  /\ task[t].at = "post" /\ crash = "no"
  /\ looper' = IF isDestroy(mState) THEN looper
               ELSE Append(looper, IF task[t].found THEN "bundle" ELSE "loadFailed")
  /\ task' = [task EXCEPT ![t] = Free]
  /\ UNCHANGED <<mState, page, vms, running, outside, noView, crash>>

-------------------------------------------------------------------------------
(* The script has run: ScriptLoader's callback, onScriptExecuted.          *)

\* The VM, the view and the manager of a hot reload take the old ones' place.
Fault_Switched(p) ==
  [p EXCEPT !.mLuaView = p.hotReloadLuaView, !.hotReloadLuaView = 0,
            !.hotReloadGlobals = 0, !.luaViewManager = p.hotReloadLuaViewManager,
            !.hotReloadLuaViewManager = FALSE]
Switched(p) ==
  [p EXCEPT !.mLuaView = p.hotReloadLuaView, !.hotReloadLuaView = 0,
            !.globals = p.hotReloadGlobals, !.hotReloadGlobals = 0,
            !.luaViewManager = p.hotReloadLuaViewManager,
            !.hotReloadLuaViewManager = FALSE]

\* SUCCESS.  The old view, the old VM and the new VM are used without a check.
Executed ==
  LET bits == (mState \ {"SCRIPT_LOADING"}) \cup {"SCRIPT_EXECUTED"}
      switch == Aside(bits)
  IN  /\ running # 0 /\ crash = "no"
      /\ running' = 0 /\ callback' = TRUE
      /\ mState' = bits \ {"HOT_RELOADING"}
      /\ page' = IF switch THEN Switched(page) ELSE page
      /\ open' = IF switch THEN open \ {page.globals} ELSE open
      /\ crash' = IF switch /\ 0 \in {page.mLuaView, page.globals, page.hotReloadGlobals}
                    THEN "executed" ELSE "no"
      /\ looper' = IF "RESUME" \in bits /\ page'.mLuaView # 0
                     THEN Append(looper, "appear") ELSE looper
      /\ UNCHANGED <<made, task, imediatelyReload, gone, asked, noView>>

Fault_NotExecuted ==
  /\ running # 0 /\ crash = "no"
  /\ running' = 0 /\ callback' = TRUE
  /\ mState' = (mState \ {"SCRIPT_LOADING"}) \cup {"ERROR", "SCRIPT_EXECUTED"}
  /\ UNCHANGED <<page, vms, looper, task, imediatelyReload, gone, asked, noView, crash>>
\* COMPILE_FAILED, EXE_FAILED.
NotExecuted ==
  /\ running # 0 /\ crash = "no"
  /\ running' = 0 /\ callback' = TRUE
  /\ mState' = (mState \ {"SCRIPT_LOADING"}) \cup {"ERROR"}
  /\ looper' = Append(looper, "failed")
  /\ UNCHANGED <<page, vms, task, imediatelyReload, gone, asked, noView, crash>>

-------------------------------------------------------------------------------
(* The main thread's runnables.                                            *)

Take(r) == MainFree /\ looper # <<>> /\ Head(looper) = r /\ looper' = Tail(looper)

\* The runnable of setData.
RunLoad ==
  /\ Take("load")
  /\ LoadScript(mState, page, open)
  /\ UNCHANGED <<outside>>

\* The runnables of onScriptLoadSuccess and onScriptLoadFailed.
RunBundle ==
  /\ Take("bundle")
  /\ Bundle(mState, page, open)
  /\ UNCHANGED <<made, task, outside>>

RunLoadFailed ==
  /\ Take("loadFailed")
  /\ LoadFailed(mState, page, open)
  /\ UNCHANGED <<made, running, task, outside, noView>>

\* The runnable of onScriptExecuted's failure.
RunFailed ==
  /\ Take("failed")
  /\ LET bits == mState \cup {"SCRIPT_EXECUTED"}
     IN  IF Aside(bits)
           THEN /\ mState' = bits \ {"HOT_RELOADING"}
                /\ page' = DropAside(page) /\ Destroy(page.hotReloadGlobals)
                /\ crash' = IF page.hotReloadGlobals = 0 THEN "failed" ELSE "no"
           ELSE /\ mState' = IF "HOT_RELOAD_IMEDIATELY" \in bits
                               THEN bits \ {"HOT_RELOADING"} ELSE bits
                /\ UNCHANGED <<page, open, crash>>
  /\ UNCHANGED <<made, running, task, outside, noView>>

\* The appear event.
RunAppear ==
  /\ Take("appear")
  /\ crash' = IF page.mLuaView = 0 THEN "appear" ELSE "no"
  /\ UNCHANGED <<mState, page, vms, running, task, outside, noView>>

Fault_Replaced(p) == [p EXCEPT !.globals = 0, !.luaViewManager = TRUE]
\* The page without its VM and view, which reload and an immediate hot reload
\* destroy.
Replaced(p) == [p EXCEPT !.globals = 0, !.mLuaView = 0, !.luaViewManager = TRUE]

\* reloadByHotReload, and the runnable around it.
RunReload ==
  /\ Take("reload")
  /\ IF ~page.initData
       THEN /\ crash' = "reload"
            /\ UNCHANGED <<mState, page, vms, running, task, noView>>
     ELSE IF (~renderFinish(mState) /\ ~isError(mState)) \/ "HOT_RELOADING" \in mState
       THEN UNCHANGED <<mState, page, vms, running, task, noView, crash>>
     ELSE IF imediatelyReload
       THEN LoadScript(mState \cup {"HOT_RELOADING", "HOT_RELOAD_IMEDIATELY"},
                       Replaced(page), open \ {page.globals})
     ELSE LoadScript(mState \cup {"HOT_RELOADING"},
                     [page EXCEPT !.hotReloadLuaViewManager = TRUE], open)
  /\ UNCHANGED <<outside>>

-------------------------------------------------------------------------------
(* The Activity, the user and the plugin.                                  *)

SetData ==
  /\ MainFree /\ ~gone /\ ~page.initData
  /\ \/ /\ page' = [page EXCEPT !.initData = TRUE]
        /\ looper' = Append(looper, "load")
        /\ UNCHANGED <<mState, vms, running, task, noView, crash>>
     \/ LoadScript(mState, [page EXCEPT !.initData = TRUE], open) /\ UNCHANGED looper
  /\ UNCHANGED <<outside>>

OnResume ==
  /\ MainFree /\ ~gone
  /\ mState' = mState \cup {"RESUME"} /\ callback' = TRUE
  /\ UNCHANGED <<page, vms, running, looper, task, imediatelyReload, gone, asked, noView, crash>>

OnPause ==
  /\ MainFree /\ ~gone
  /\ mState' = mState \ {"RESUME"} /\ callback' = FALSE
  /\ UNCHANGED <<page, vms, running, looper, task, imediatelyReload, gone, asked, noView, crash>>

\* setHotReloadImediately.
SetImediately ==
  /\ MainFree /\ ~gone
  /\ imediatelyReload' = ~imediatelyReload
  /\ UNCHANGED <<mState, page, vms, running, looper, task, callback, gone, asked, noView, crash>>

\* onDestroy: nothing of the page is left but the two VMs, destroyed.
Fault_OnDestroy ==
  /\ MainFree /\ ~gone
  /\ gone' = TRUE /\ callback' = FALSE /\ mState' = {"DESTROY"}
  /\ page' = [DropAside(page) EXCEPT !.mLuaView = 0, !.luaViewManager = FALSE,
                                      !.initData = FALSE]
  /\ open' = open \ {page.globals}
  /\ UNCHANGED <<made, running, looper, task, imediatelyReload, asked, noView, crash>>
OnDestroy ==
  /\ MainFree /\ ~gone
  /\ gone' = TRUE /\ callback' = FALSE /\ mState' = {"DESTROY"}
  /\ page' = [page EXCEPT !.mLuaView = 0, !.hotReloadLuaView = 0, !.initData = FALSE,
                          !.luaViewManager = FALSE, !.hotReloadLuaViewManager = FALSE]
  /\ open' = open \ {page.globals, page.hotReloadGlobals}
  /\ UNCHANGED <<made, running, looper, task, imediatelyReload, asked, noView, crash>>

\* reload, from the reload button or the empty view: the VM of a hot reload
\* that is under way stays.
Reload ==
  /\ MainFree /\ ~gone /\ asked < MaxReloads
  /\ ~isDestroy(mState) /\ (renderFinish(mState) \/ isError(mState))
  /\ asked' = asked + 1
  /\ LoadScript({"RESUME"}, Replaced(page), open \ {page.globals})
  /\ UNCHANGED <<looper, callback, imediatelyReload, gone>>

\* onReload, on the reload thread, which catches what it throws.
OnReload ==
  /\ callback /\ crash = "no" /\ asked < MaxReloads
  /\ asked' = asked + 1
  /\ IF page.globals \in open
       THEN looper' = Append(looper, "reload") /\ UNCHANGED callback
       ELSE /\ callback' = (callback /\ ~(page.globals # 0 /\ page.luaViewManager))
            /\ UNCHANGED looper
  /\ UNCHANGED <<mState, page, vms, running, task, imediatelyReload, gone, noView, crash>>

Runnable == RunLoad \/ RunBundle \/ RunLoadFailed \/ RunFailed \/ RunAppear \/ RunReload
Script == Executed \/ NotExecuted
Background(t) == Cancelled(t) \/ Fetched(t) \/ Read(t) \/ Write(t) \/ Post(t)

Next == \/ Runnable \/ Script \/ \E t \in Tasks : Background(t)
        \/ SetData \/ OnResume \/ OnPause \/ SetImediately \/ OnDestroy \/ Reload \/ OnReload

Spec == Init /\ [][Next]_vars

\* The looper and the thread pool run what they are given, scripts end.
Fairness == /\ WF_vars(Runnable) /\ WF_vars(Script)
            /\ \A t \in Tasks : WF_vars(Background(t))
FairSpec == Spec /\ Fairness

-------------------------------------------------------------------------------
(* Properties                                                              *)

\* A VM that is open is one that onDestroy will destroy: no order of loads,
\* failures and reloads leaves one behind that the page no longer knows
\* (MLSInstance.java:570-575).
NoVMLeaks == open \subseteq {page.globals, page.hotReloadGlobals}

\* Once the page is destroyed nothing brings it back: no view, no VM and no
\* script, whatever is still posted or fetched, and even when a background
\* task writes the state bit DESTROY away (MLSInstance.java:553-597).
GoneForGood ==
  gone => open = {} /\ running = 0 /\ page.mLuaView = 0 /\ page.hotReloadLuaView = 0

\* The view that is shown runs in the page's VM, and that is open.
ShownIsAlive ==
  page.mLuaView # 0 => page.mLuaView = page.globals /\ page.globals \in open

\* A hot reload ends, whatever its script does, if no script has to be fetched
\* and the load it begins, or the one before it, was not left without a view:
\* HotReloadImpl polls for that without a limit (HotReloadHelper.java:220-222,
\* MLSInstance.java:1268).
LocalReloadEnds ==
  [](\A t \in Tasks : task[t].at = "free")
    => ("HOT_RELOADING" \in mState ~> \/ "HOT_RELOADING" \notin mState
                                      \/ noView \/ crash # "no")

\* "When it has run the VMs are to be switched, the views ..." (MLSInstance.java
\* :858): the switch at the end of a hot reload goes through.
SuccessSwitches == crash # "executed"
===============================================================================
