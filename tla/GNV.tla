-------------------------------- MODULE GNV ---------------------------------
(***************************************************************************)
(* Java handles on Lua tables and functions (NLuaValue, LuaTable,          *)
(* LuaFunction) and the GNV table that keeps their objects alive, for one  *)
(* virtual machine (Globals).                                              *)
(*                                                                         *)
(* Two threads work on a handle: the main thread, which runs Lua, calls    *)
(* destroy() and runs the posted removals of the handler, and the          *)
(* finalizer thread, which calls destroy() on handles Java has lost.       *)
(* Lua's collector frees objects neither Lua nor the table refers to, and  *)
(* its allocator may reuse their addresses.  A VM created on a thread      *)
(* without a looper (an isolate's) has no handler: nothing can be posted   *)
(* to it.                                                                  *)
(***************************************************************************)
EXTENDS GNVTable

CONSTANTS
  Handle,        \* Java handle objects
  Addr,          \* addresses of Lua objects
  NoAddr,        \* the key of a handle that does not exist yet
  MaxUses,       \* bound: times one address is allocated
  MaxRefs,       \* bound: a count up to which a script pins an object
  GcNumValues    \* Globals.LUA_GC_NUM_VALUES

ASSUME GNVAssumption ==
  /\ NoAddr \notin Addr
  /\ MaxUses \in Nat
  /\ MaxRefs \in Nat
  /\ GcNumValues \in Nat

VARIABLES
  open,            \* ~Globals.isDestroyed()
  handler,         \* Globals.handler # null: the VM was created on a Looper
  gnv,             \* the GNV table
  lua,             \* each address: "free", "reachable" from Lua, "unreachable"
  uses,            \* how many objects have lived at each address
  life,            \* each handle: where Java and its finalizer are with it
  key,             \* nativeGlobalKey
  born,            \* which object at key the handle was made for
  called,          \* calledDestroy
  destroyed,       \* LuaValue.destroyed
  posted,          \* handles with a removal in the handler's queue
  gcPosted,        \* a tryFullGc task is in the handler's queue
  destroyedValues, \* removals counted since the last full collection
  inGC,            \* the main thread is inside LuaCApi._lgc
  removals,        \* native removals made for each handle
  usedClosed       \* a native call was made on a closed lua_State

vm == <<open, handler>>
luaVars == <<lua, uses>>
handleVars == <<life, key, born>>
gcVars == <<destroyedValues, inGC>>
vars == <<vm, gnv, luaVars, handleVars, called, destroyed, posted, gcPosted,
          gcVars, removals, usedClosed>>

Lives == {"none", "held", "lost", "finalizing", "posting", "gone"}

TypeOK ==
  /\ open \in BOOLEAN
  /\ handler \in BOOLEAN
  /\ DOMAIN gnv \subseteq {LightUserdata(a) : a \in Addr}
  /\ \A k \in DOMAIN gnv : gnv[k] \in Nat \ {0}
  /\ lua \in [Addr -> {"free", "reachable", "unreachable"}]
  /\ uses \in [Addr -> 0..MaxUses]
  /\ life \in [Handle -> Lives]
  /\ key \in [Handle -> Addr \cup {NoAddr}]
  /\ born \in [Handle -> 0..MaxUses]
  /\ called \in [Handle -> BOOLEAN]
  /\ destroyed \in [Handle -> BOOLEAN]
  /\ posted \subseteq Handle
  /\ gcPosted \in BOOLEAN
  /\ destroyedValues \in Nat
  /\ inGC \in BOOLEAN
  /\ removals \in [Handle -> Nat]
  /\ usedClosed \in BOOLEAN

Init ==
  /\ open = TRUE
  /\ handler \in BOOLEAN
  /\ gnv = NoEntries
  /\ lua = [a \in Addr |-> "free"]
  /\ uses = [a \in Addr |-> 0]
  /\ life = [h \in Handle |-> "none"]
  /\ key = [h \in Handle |-> NoAddr]
  /\ born = [h \in Handle |-> 0]
  /\ called = [h \in Handle |-> FALSE]
  /\ destroyed = [h \in Handle |-> FALSE]
  /\ posted = {}
  /\ gcPosted = FALSE
  /\ destroyedValues = 0
  /\ inGC = FALSE
  /\ removals = [h \in Handle |-> 0]
  /\ usedClosed = FALSE

-----------------------------------------------------------------------------
(* Lua.                                                                    *)

LuaAllocate(a) ==
  /\ open /\ lua[a] = "free" /\ uses[a] < MaxUses
  /\ lua' = [lua EXCEPT ![a] = "reachable"]
  /\ uses' = [uses EXCEPT ![a] = @ + 1]
  /\ UNCHANGED <<vm, gnv, handleVars, called, destroyed, posted, gcPosted,
                 gcVars, removals, usedClosed>>

LuaDrop(a) ==
  /\ lua[a] = "reachable"
  /\ lua' = [lua EXCEPT ![a] = "unreachable"]
  /\ UNCHANGED <<vm, gnv, uses, handleVars, called, destroyed, posted,
                 gcPosted, gcVars, removals, usedClosed>>

LuaCollect(a) ==
  /\ lua[a] = "unreachable"
  /\ LightUserdata(a) \notin DOMAIN gnv
  /\ lua' = [lua EXCEPT ![a] = "free"]
  /\ UNCHANGED <<vm, gnv, uses, handleVars, called, destroyed, posted,
                 gcPosted, gcVars, removals, usedClosed>>

\* ref_strong: a script pins an object it can reach.
RefStrong(a) ==
  /\ lua[a] = "reachable"
  /\ HasNativeValue(gnv, a) => gnv[LightUserdata(a)] < MaxRefs
  /\ gnv' = CopyValueToGNV(gnv, a)
  /\ UNCHANGED <<vm, luaVars, handleVars, called, destroyed, posted,
                 gcPosted, gcVars, removals, usedClosed>>

\* ref_weak: a script takes a reference away, its own or another's.
RefWeak(a) ==
  /\ lua[a] = "reachable"
  /\ gnv' = RemoveValueFromGNV(gnv, a)
  /\ UNCHANGED <<vm, luaVars, handleVars, called, destroyed, posted,
                 gcPosted, gcVars, removals, usedClosed>>

\* newLuaTable and newLuaFunction: a reachable object is passed to Java.
NewHandle(h, a) ==
  /\ lua[a] = "reachable" /\ life[h] = "none"
  /\ gnv' = CopyValueToGNV(gnv, a)
  /\ life' = [life EXCEPT ![h] = "held"]
  /\ key' = [key EXCEPT ![h] = a]
  /\ born' = [born EXCEPT ![h] = uses[a]]
  /\ UNCHANGED <<vm, luaVars, called, destroyed, posted, gcPosted, gcVars,
                 removals, usedClosed>>

\* checkStateByNative and a push (getValueFromGNV): Java uses its handle.
UseHandle(h) ==
  /\ open /\ life[h] = "held"
  /\ destroyed' = [destroyed EXCEPT ![h] = ~HasNativeValue(gnv, key[h])]
  /\ lua' = IF HasNativeValue(gnv, key[h])
            THEN [lua EXCEPT ![key[h]] = "reachable"] ELSE lua
  /\ UNCHANGED <<vm, gnv, uses, handleVars, called, posted, gcPosted, gcVars,
                 removals, usedClosed>>

-----------------------------------------------------------------------------
(* Destroying a handle.  (Fault_ operators are the plausible mistakes the  *)
(* properties are tried against; no action uses them.)                     *)

\* NLuaValue.destroy returns at once on a handle that was destroyed before.
Fault_CalledBefore(h) == destroyed[h]
CalledBefore(h) == called[h]

\* The runnable of removeStack returns at once when the VM is destroyed.
Fault_PostedStillDue == TRUE
PostedStillDue == open

\* What the queue holds once removeStack has posted a removal for h.  A VM
\* without a handler has no queue: the request is dropped there, and
\* removeStack returns true all the same.
Fault_Enqueue(h) == IF handler /\ ~inGC THEN posted \cup {h} ELSE posted
Enqueue(h) == IF handler THEN posted \cup {h} ELSE posted

\* Globals.gc once a removal has been counted.  canGc also asks that the VM
\* has left JUST_INIT and that LUA_GC_OFFSET has passed: timely.
CountAndGc(n) ==
  \E timely \in BOOLEAN :
    IF ~inGC /\ timely /\ n > GcNumValues
    THEN destroyedValues' = 0 /\ inGC' = TRUE
    ELSE destroyedValues' = n /\ inGC' = inGC

\* The body both branches of removeStack run on the main thread.
RemoveNative(h) ==
  LET left == RefsAfterRemove(gnv, key[h])
  IN  /\ gnv' = RemoveValueFromGNV(gnv, key[h])
      /\ destroyed' = [destroyed EXCEPT ![h] = left <= 0]
      /\ IF left <= 0 THEN CountAndGc(destroyedValues + 1)
                      ELSE UNCHANGED gcVars
      /\ removals' = [removals EXCEPT ![h] = @ + 1]
      /\ usedClosed' = (usedClosed \/ ~open)

\* destroy() on the main thread.  canDestroySync: outside a collection, or in
\* its first 10 ms, the removal is made at once; later it is posted.
Destroy(h) ==
  /\ life[h] = "held" /\ ~CalledBefore(h)
  /\ called' = [called EXCEPT ![h] = TRUE]
  /\ IF destroyed[h] \/ ~open
     THEN UNCHANGED <<gnv, destroyed, gcVars, removals, usedClosed, posted>>
     ELSE \/ RemoveNative(h) /\ UNCHANGED posted
          \/ /\ inGC
             /\ posted' = Enqueue(h)
             /\ destroyed' = [destroyed EXCEPT ![h] = TRUE]
             /\ UNCHANGED <<gnv, gcVars, removals, usedClosed>>
  /\ UNCHANGED <<vm, luaVars, handleVars, gcPosted>>

\* The runnable removeStack posted.
RunPosted(h) ==
  /\ h \in posted /\ ~inGC
  /\ posted' = posted \ {h}
  /\ IF PostedStillDue THEN RemoveNative(h)
     ELSE UNCHANGED <<gnv, destroyed, gcVars, removals, usedClosed>>
  /\ UNCHANGED <<vm, luaVars, handleVars, called, gcPosted>>

\* Java loses its last reference; a posted runnable still holds its value.
LoseHandle(h) ==
  /\ life[h] = "held" /\ h \notin posted
  /\ life' = [life EXCEPT ![h] = "lost"]
  /\ UNCHANGED <<vm, gnv, luaVars, key, born, called, destroyed, posted,
                 gcPosted, gcVars, removals, usedClosed>>

\* finalize -> destroy() on the finalizer thread, up to the isDestroyed check.
Finalize(h) ==
  /\ life[h] = "lost"
  /\ called' = [called EXCEPT ![h] = TRUE]
  /\ life' = [life EXCEPT ![h] = IF CalledBefore(h) \/ destroyed[h] \/ ~open
                                 THEN "gone" ELSE "finalizing"]
  /\ UNCHANGED <<vm, gnv, luaVars, key, born, destroyed, posted, gcPosted,
                 gcVars, removals, usedClosed>>

\* removeStack's own checkDestroy, which throws when the VM is destroyed.
FinalizeCheck(h) ==
  /\ life[h] = "finalizing"
  /\ life' = [life EXCEPT ![h] = IF open THEN "posting" ELSE "gone"]
  /\ UNCHANGED <<vm, gnv, luaVars, key, born, called, destroyed, posted,
                 gcPosted, gcVars, removals, usedClosed>>

\* handler.post if there is a handler, and destroyed = removeStack(this).
FinalizePost(h) ==
  /\ life[h] = "posting"
  /\ life' = [life EXCEPT ![h] = "gone"]
  /\ posted' = Enqueue(h)
  /\ destroyed' = [destroyed EXCEPT ![h] = TRUE]
  /\ UNCHANGED <<vm, gnv, luaVars, key, born, called, gcPosted, gcVars,
                 removals, usedClosed>>

-----------------------------------------------------------------------------
(* Collections and the end of the VM.                                      *)

\* Globals.tryFullGc posts gc() to a VM that may collect; post() does nothing
\* without a handler.
TryFullGc ==
  /\ open /\ handler /\ ~inGC /\ ~gcPosted
  /\ gcPosted' = TRUE
  /\ UNCHANGED <<vm, gnv, luaVars, handleVars, called, destroyed, posted,
                 gcVars, removals, usedClosed>>

RunGc ==
  /\ gcPosted /\ ~inGC
  /\ gcPosted' = FALSE
  /\ IF open THEN CountAndGc(destroyedValues) ELSE UNCHANGED gcVars
  /\ UNCHANGED <<vm, gnv, luaVars, handleVars, called, destroyed, posted,
                 removals, usedClosed>>

EndGc ==
  /\ inGC
  /\ inGC' = FALSE
  /\ UNCHANGED <<vm, gnv, luaVars, handleVars, called, destroyed, posted,
                 gcPosted, destroyedValues, removals, usedClosed>>

\* Globals.destroy.  It drops the messages tagged TAG; removals are posted
\* without a tag and stay in the queue.  lua_close frees every object.
DestroyGlobals ==
  /\ open /\ ~inGC
  /\ open' = FALSE
  /\ gnv' = NoEntries
  /\ lua' = [a \in Addr |-> "free"]
  /\ UNCHANGED <<handler, uses, handleVars, called, destroyed, posted, gcPosted,
                 gcVars, removals, usedClosed>>

MainThread ==
  \/ \E a \in Addr : LuaAllocate(a) \/ LuaDrop(a) \/ LuaCollect(a)
  \/ \E a \in Addr : RefStrong(a) \/ RefWeak(a)
  \/ \E h \in Handle, a \in Addr : NewHandle(h, a)
  \/ \E h \in Handle : UseHandle(h) \/ Destroy(h) \/ RunPosted(h)
  \/ TryFullGc \/ RunGc \/ EndGc \/ DestroyGlobals

FinalizerThread ==
  \E h \in Handle : LoseHandle(h) \/ Finalize(h) \/ FinalizeCheck(h) \/ FinalizePost(h)

Next == MainThread \/ FinalizerThread

Spec == Init /\ [][Next]_vars

\* The looper runs what is posted, a collection ends, and the finalizer thread
\* finishes the handles it is given.
Fairness ==
  /\ WF_vars(EndGc)
  /\ \A h \in Handle : /\ WF_vars(RunPosted(h))
                       /\ WF_vars(Finalize(h))
                       /\ WF_vars(FinalizeCheck(h))
                       /\ WF_vars(FinalizePost(h))

FairSpec == Spec /\ Fairness

-----------------------------------------------------------------------------
(* Properties.                                                             *)

\* A handle Java holds and has not destroyed finds the very object it was made
\* for: getValueFromGNV never fails on it, and the object is not collected
\* under it.
HandleSound ==
  \A h \in Handle :
    open /\ life[h] = "held" /\ ~called[h]
      => /\ HasNativeValue(gnv, key[h])
         /\ lua[key[h]] # "free"
         /\ uses[key[h]] = born[h]

\* Whenever hasNativeValue tells any handle, destroyed ones included, that its
\* object is there, it is the object the handle was made for and not a later
\* one at the same address.
NeverAnotherObject ==
  \A h \in Handle :
    open /\ life[h] # "none" /\ HasNativeValue(gnv, key[h]) => uses[key[h]] = born[h]

\* The finalizer and the handler's queue outlive the VM: no removal reaches a
\* lua_State that lua_close has freed.
NoUseAfterClose == ~usedClosed

\* destroy() by the owner, destroy() by the finalizer and the posted runnable
\* together make one native removal for a handle: a request is with the
\* finalizer, in the queue, or carried out, in one of them only, and while the
\* VM is open it is lost only where there is no handler to post it to.
RemovedOnce ==
  \A h \in Handle :
    LET places == removals[h] + (IF h \in posted THEN 1 ELSE 0)
                    + (IF life[h] \in {"finalizing", "posting"} THEN 1 ELSE 0)
    IN  /\ places <= 1
        /\ open /\ places = 1 => called[h]
        /\ open /\ called[h] /\ places = 0 => ~handler

\* On a VM with a handler, a handle the finalizer takes up, or whose removal is
\* posted, has the native removal made, unless the VM is destroyed first: handing
\* destroy() over from thread to thread loses no request.  (Without a handler
\* removeStack drops what it cannot do at once.)
DestroyIsCarriedOut ==
  \A h \in Handle :
    (handler /\ (h \in posted \/ (life[h] = "lost" /\ ~called[h] /\ ~destroyed[h])))
      ~> (removals[h] = 1 \/ ~open)

\* NLuaValue.destroy: "table, function and userdata are removed from the GNV
\* table"; removeStack returns "whether the data was really cleared".  A removal
\* that reports the handle destroyed leaves no entry for its object.
DestroyReleases ==
  [][\A h \in Handle : removals'[h] > removals[h] /\ destroyed'[h]
                          => ~HasNativeValue(gnv', key[h])]_vars
=============================================================================
