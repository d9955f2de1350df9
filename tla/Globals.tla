------------------------------- MODULE Globals --------------------------------
(***************************************************************************)
(* The life of a VM as Java sees it: Globals.java, and the calls made      *)
(* through LuaFunction.java.                                               *)
(*                                                                         *)
(* A VM is created at a native address and registered under it; a script   *)
(* is loaded and run; functions of it are called from Java, within one     *)
(* another when Lua calls back; and it is destroyed.  Pages' VMs live on   *)
(* the main thread.  The VM of an isolate lives on a thread of its own,    *)
(* and native code creates and ends it.  Addresses are used again.         *)
(*                                                                         *)
(* Calls of one VM are counted, not stacked: their ends commute.  What     *)
(* runs in a VM that was closed under it is undefined, and stays put.      *)
(* callLoadedDataAndGetResult has no caller in the repository.  require    *)
(* and startDebug run Lua code that the VM does not account for: of these  *)
(* only what startDebug writes to the state is modelled, with Load.        *)
(***************************************************************************)
EXTENDS Integers, FiniteSets

CONSTANTS
  Pages,        \* VMs of the main thread
  Isolates,     \* VMs created by isolate, one thread each
  Address,      \* native addresses
  Nowhere,      \* L_State = 0
  DEBUG,        \* MLNCore.DEBUG
  MaxDepth,     \* bound: scripts, and calls, within one another
  MaxRefused    \* bound: calls that a check refuses

ASSUME GlobalsAssumption ==
  /\ Pages \cap Isolates = {}
  /\ Nowhere \notin Address
  /\ DEBUG \in BOOLEAN
  /\ MaxDepth \in Nat /\ MaxRefused \in Nat

VARIABLES
  phase,          \* per VM: "none", "open", "closing" (destroy() is between
                  \* _close and the registry), "closed", "dangling" (freed,
                  \* and Java was not told)
  at,             \* per VM: where the native VM is, or was
  cache,          \* the registry: addresses to VMs
  state,          \* per VM: the script it loaded: "init", "ok", "calling", "error"
  main,           \* per VM: callLoadedData runs, within one another
  calls,          \* per VM: calls that are running
  calledFunction, \* per VM: the code's count of them
  refused,        \* per VM: calls that checkStatus answered with an error
  overwritten     \* history: the VM loaded a script under the one it runs

registry == <<phase, at, cache>>
counts == <<calls, calledFunction, refused>>
script == <<state, main, overwritten>>
vars == <<registry, script, counts>>

VM == Pages \cup Isolates
Open(v) == phase[v] = "open"
Running(v) == main[v] > 0 \/ calls[v] > 0

TypeOK ==
  /\ phase \in [VM -> {"none", "open", "closing", "closed", "dangling"}]
  /\ at \in [VM -> Address \cup {Nowhere}]
  /\ DOMAIN cache \subseteq Address /\ \A p \in DOMAIN cache : cache[p] \in VM
  /\ state \in [VM -> {"init", "ok", "calling", "error"}]
  /\ main \in [VM -> 0 .. MaxDepth]
  /\ overwritten \in [VM -> BOOLEAN]
  /\ calls \in [VM -> 0 .. MaxDepth]
  /\ refused \in [VM -> 0 .. MaxRefused]
  /\ calledFunction \in [VM -> -MaxRefused .. MaxDepth]

Init ==
  /\ phase = [v \in VM |-> "none"] /\ at = [v \in VM |-> Nowhere]
  /\ cache = [p \in {} |-> Nowhere]
  /\ state = [v \in VM |-> "init"] /\ main = [v \in VM |-> 0]
  /\ overwritten = [v \in VM |-> FALSE]
  /\ calls = [v \in VM |-> 0] /\ calledFunction = [v \in VM |-> 0]
  /\ refused = [v \in VM |-> 0]

\* The main thread is inside destroy(): no other VM of it does anything.
Free(v) == v \in Pages => \A w \in Pages : phase[w] # "closing"

\* Java code of the VM's thread runs, and the VM is there.
Acts(v) == Free(v) /\ Open(v)

-------------------------------------------------------------------------------
(* The registry.                                                           *)

InUse == {at[v] : v \in {w \in VM : Open(w)}}

Put(p, v) == [q \in DOMAIN cache \cup {p} |-> IF q = p THEN v ELSE cache[q]]
Fault_Without(p) == cache
Without(p) == [q \in DOMAIN cache \ {p} |-> cache[q]]

\* createLState, and __onNativeCreateGlobals for an isolate.
Create(v) ==
  /\ phase[v] = "none" /\ Free(v)
  /\ \E p \in Address \ InUse :
       /\ phase' = [phase EXCEPT ![v] = "open"]
       /\ at' = [at EXCEPT ![v] = p]
       /\ cache' = Put(p, v)
  /\ UNCHANGED <<script, counts>>

Fault_MayDestroy(v) == ~DEBUG \/ state[v] # "calling"
\* destroy() refuses a VM that is at work, when debugging.
MayDestroy(v) == DEBUG => state[v] # "calling" /\ calledFunction[v] <= 0

\* destroy() of a page's VM: the native VM is closed, its address is free...
Destroy(v) ==
  /\ v \in Pages /\ Acts(v) /\ MayDestroy(v)
  /\ phase' = [phase EXCEPT ![v] = "closing"]
  /\ UNCHANGED <<at, cache, script, counts>>

\* ...and then whatever is registered there is removed.
Unregister(v) ==
  /\ phase[v] = "closing"
  /\ phase' = [phase EXCEPT ![v] = "closed"]
  /\ cache' = Without(at[v])
  /\ UNCHANGED <<at, script, counts>>

\* Native code ends an isolate that has nothing running and reports it
\* (__onGlobalsDestroyInNative): Java destroys the VM that is registered.
EndIsolate(v) ==
  /\ v \in Isolates /\ Acts(v) /\ ~Running(v)
  /\ IF at[v] \in DOMAIN cache
       THEN /\ phase' = [phase EXCEPT ![cache[at[v]]] = "closed"]
            /\ cache' = Without(at[v])
       ELSE /\ phase' = [phase EXCEPT ![v] = "dangling"]
            /\ UNCHANGED cache
  /\ UNCHANGED <<at, script, counts>>

-------------------------------------------------------------------------------
(* Scripts and calls.                                                      *)

\* loadData, loadFile, loadAssetsFile, setMainEntryFromPreload, startDebug: the
\* state becomes the result, also under a script that runs.
Load(v) ==
  /\ Acts(v)
  /\ \E s \in {"ok", "error"} : state' = [state EXCEPT ![v] = s]
  /\ overwritten' = [overwritten EXCEPT ![v] = main[v] > 0]
  /\ UNCHANGED <<registry, main, counts>>

CallLoadedData(v) ==
  /\ Acts(v) /\ state[v] = "ok" /\ main[v] < MaxDepth
  /\ state' = [state EXCEPT ![v] = "calling"] /\ main' = [main EXCEPT ![v] = @ + 1]
  /\ UNCHANGED <<registry, overwritten, counts>>

Fault_ScriptEnds(v) ==
  /\ Acts(v) /\ main[v] > 0
  /\ \E s \in {"ok", "calling"} : state' = [state EXCEPT ![v] = s]
  /\ main' = [main EXCEPT ![v] = @ - 1]
  /\ overwritten' = [overwritten EXCEPT ![v] = @ /\ main[v] > 1]
  /\ UNCHANGED <<registry, counts>>
\* The script returns, or an error is caught.
ScriptEnds(v) ==
  /\ Acts(v) /\ main[v] > 0
  /\ \E s \in {"ok", "error"} : state' = [state EXCEPT ![v] = s]
  /\ main' = [main EXCEPT ![v] = @ - 1]
  /\ overwritten' = [overwritten EXCEPT ![v] = @ /\ main[v] > 1]
  /\ UNCHANGED <<registry, counts>>

\* invoke, fastInvoke: checkStatus passes and the native call begins.
Invoke(v) ==
  /\ Acts(v) /\ calls[v] < MaxDepth
  /\ calls' = [calls EXCEPT ![v] = @ + 1]
  /\ calledFunction' = [calledFunction EXCEPT ![v] = @ + 1]
  /\ UNCHANGED <<registry, script, refused>>

Fault_InvokeEnds(v) ==
  /\ Acts(v) /\ calls[v] > 0
  /\ calls' = [calls EXCEPT ![v] = @ - 1]
  /\ calledFunction' \in {calledFunction, [calledFunction EXCEPT ![v] = @ - 1]}
  /\ UNCHANGED <<registry, script, refused>>
\* It returns, or functionInvokeError counts it off.
InvokeEnds(v) ==
  /\ Acts(v) /\ calls[v] > 0
  /\ calls' = [calls EXCEPT ![v] = @ - 1]
  /\ calledFunction' = [calledFunction EXCEPT ![v] = @ - 1]
  /\ UNCHANGED <<registry, script, refused>>

\* The VM or the function is destroyed: checkStatus throws before it counts
\* the call, and functionInvokeError counts it off.  Otherwise (not debugging,
\* no script running) the call just returns.
InvokeRefused(v) ==
  /\ Free(v) /\ phase[v] \in {"open", "closed"} /\ refused[v] < MaxRefused
  /\ DEBUG \/ state[v] = "calling"
  /\ refused' = [refused EXCEPT ![v] = @ + 1]
  /\ calledFunction' = [calledFunction EXCEPT ![v] = @ - 1]
  /\ UNCHANGED <<registry, script, calls>>

Next == \E v \in VM :
  \/ Create(v) \/ Destroy(v) \/ Unregister(v) \/ EndIsolate(v)
  \/ Load(v) \/ CallLoadedData(v) \/ ScriptEnds(v)
  \/ Invoke(v) \/ InvokeEnds(v) \/ InvokeRefused(v)

Spec == Init /\ [][Next]_vars

-------------------------------------------------------------------------------
(* Properties                                                              *)

\* "Do not destroy a VM while a function of it is called" (Globals.java:1315):
\* when debugging, a VM is closed under a script only if it loaded another one
\* while that script ran (the load overwrites the state destroy() looks at), and
\* under no more calls than it had refused (each takes one off the count,
\* LuaFunction.java:337-344).
ClosedAtRest ==
  DEBUG => \A v \in VM : phase[v] \in {"closing", "closed"}
    => (main[v] > 0 => overwritten[v]) /\ calls[v] <= refused[v]

\* A VM with nothing running can be destroyed, whatever was called, failed or
\* was refused before (Globals.java:1314).
RestCanBeDestroyed == \A v \in VM : ~Running(v) => MayDestroy(v)

\* An address that is registered leads to the VM at that address, never to one
\* that was there before and is gone (getGlobalsByLState, Globals.java:602).
NeverAnotherVM ==
  \A p \in DOMAIN cache : at[cache[p]] = p /\ phase[cache[p]] \in {"open", "closing"}
===============================================================================
