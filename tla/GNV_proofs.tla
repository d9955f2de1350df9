---------------------------- MODULE GNV_proofs ----------------------------
(***************************************************************************)
(* Safety of GNV for every number of handles, addresses and collections.   *)
(*                                                                         *)
(* The argument.  removeValueFromGNV looks an entry up under a number, and *)
(* every entry is under a light userdata, so it never finds one            *)
(* (RemoveFindsNothing): an entry, once made, lasts as long as the VM.     *)
(* While the VM is open an entry pins the object at its address, so the    *)
(* address is neither freed nor allocated again (Pins) and a handle always *)
(* finds its own object (Bound).  Independently, calledDestroy is set      *)
(* before a removal is made or posted and is never reset, so each handle   *)
(* gets one removal (OneRequest), and while a VM with a handler is open no *)
(* thread drops one that was asked for (Asked); without a handler nothing  *)
(* is ever posted (NoQueue), and a request that cannot be carried out at   *)
(* once is gone.  The last section is about how far a request is from      *)
(* being carried out.                                                      *)
(***************************************************************************)
EXTENDS GNV, FiniteSetTheorems, TLAPS

\* An entry pins its object.
Pins == \A a \in Addr : HasNativeValue(gnv, a) => lua[a] # "free"

\* The object of every handle is the one at its address, and is pinned.
Bound ==
  \A h \in Handle : open /\ life[h] # "none"
    => /\ key[h] \in Addr
       /\ HasNativeValue(gnv, key[h])
       /\ uses[key[h]] = born[h]

\* The one removal of a handle: not asked for, on its way through the
\* finalizer, posted, or made.
OneRequest ==
  \A h \in Handle :
    /\ removals[h] \in 0..1
    /\ h \in posted \/ removals[h] = 1 \/ life[h] \in {"finalizing", "posting"} => called[h]
    /\ h \in posted => removals[h] = 0 /\ life[h] \notin {"finalizing", "posting"}
    /\ life[h] \in {"finalizing", "posting"} => removals[h] = 0

\* While the VM is open a request is somewhere, if there is a handler to post it
\* to, and only a handle with a request looks destroyed.
Asked ==
  \A h \in Handle : open =>
    /\ destroyed[h] => called[h]
    /\ called[h] /\ handler
         => removals[h] = 1 \/ h \in posted \/ life[h] \in {"finalizing", "posting"}

\* Without a handler there is no queue.
NoQueue == ~handler => posted = {} /\ ~gcPosted

IInv == TypeOK /\ Pins /\ Bound /\ OneRequest /\ Asked /\ NoQueue /\ NoUseAfterClose

-----------------------------------------------------------------------------
(* The GNV table.                                                          *)

\* What every entry of the table satisfies.
GNVTableOK(t) ==
  /\ DOMAIN t \subseteq {LightUserdata(a) : a \in Addr}
  /\ \A k \in DOMAIN t : t[k] \in Nat \ {0}

\* removeValueFromGNV leaves every table the program can build as it is, and
\* returns -1: the number it looks up is the key of no entry.
LEMMA RemoveFindsNothing ==
  ASSUME NEW t, GNVTableOK(t), NEW a
  PROVE  RefsAfterRemove(t, a) = -1 /\ RemoveValueFromGNV(t, a) = t
<1>1. RemoveKey(a) \notin DOMAIN t
  BY DEF GNVTableOK, RemoveKey, Number, LightUserdata
<1>2. RefsAfterRemove(t, a) = -1
  BY <1>1 DEF RefsAfterRemove
<1> QED
  BY <1>2 DEF RemoveValueFromGNV

\* copyValueToGNV keeps a table well formed and adds the entry of its argument
\* and no other.
LEMMA CopyAdds ==
  ASSUME NEW t, GNVTableOK(t), NEW a \in Addr
  PROVE  /\ GNVTableOK(CopyValueToGNV(t, a))
         /\ DOMAIN CopyValueToGNV(t, a) = DOMAIN t \cup {LightUserdata(a)}
<1> DEFINE k == LightUserdata(a)
           u == CopyValueToGNV(t, a)
<1>1. u = [x \in DOMAIN t \cup {k} |->
             IF x # k THEN t[x] ELSE IF k \in DOMAIN t THEN t[k] + 1 ELSE 1]
  BY DEF CopyValueToGNV
<1> HIDE DEF k, u
<1>2. DOMAIN u = DOMAIN t \cup {k}
  BY <1>1
<1>3. ASSUME NEW x \in DOMAIN u
      PROVE  u[x] \in Nat \ {0}
  <2>1. \A y \in DOMAIN t : t[y] \in Nat \ {0}
    BY DEF GNVTableOK
  <2>2. u[x] = IF x # k THEN t[x] ELSE IF k \in DOMAIN t THEN t[k] + 1 ELSE 1
    BY <1>1, <1>2, <1>3
  <2>3. x # k => x \in DOMAIN t
    BY <1>2, <1>3
  <2> QED
    BY <2>1, <2>2, <2>3
<1>4. DOMAIN u \subseteq {LightUserdata(b) : b \in Addr}
  BY <1>2 DEF GNVTableOK, k
<1> QED
  BY <1>2, <1>3, <1>4 DEF GNVTableOK, k, u

\* Different addresses have different entries.
LEMMA KeysDiffer ==
  ASSUME NEW a, NEW b, LightUserdata(a) = LightUserdata(b)
  PROVE  a = b
  BY DEF LightUserdata

\* The table of a well-typed state.
LEMMA TypeOKTable ==
  ASSUME TypeOK
  PROVE  GNVTableOK(gnv)
  BY DEF TypeOK, GNVTableOK

-----------------------------------------------------------------------------
(* What the shared steps do.                                               *)

\* CountAndGc keeps the collection counters well typed.
LEMMA CountAndGcType ==
  ASSUME inGC \in BOOLEAN, NEW n \in Nat, CountAndGc(n)
  PROVE  destroyedValues' \in Nat /\ inGC' \in BOOLEAN
<1>1. \/ destroyedValues' = 0 /\ inGC' = TRUE
      \/ destroyedValues' = n /\ inGC' = inGC
  BY Zenon DEF CountAndGc
<1>2. 0 \in Nat /\ TRUE \in BOOLEAN
  OBVIOUS
<1> QED
  BY <1>1, <1>2, Zenon

\* A native removal changes no entry and reports its handle destroyed.
LEMMA RemoveNativeEffect ==
  ASSUME TypeOK, NEW h \in Handle, RemoveNative(h)
  PROVE  /\ gnv' = gnv
         /\ destroyed' = [destroyed EXCEPT ![h] = TRUE]
         /\ destroyedValues' \in Nat /\ inGC' \in BOOLEAN
         /\ removals' = [removals EXCEPT ![h] = @ + 1]
         /\ usedClosed' = (usedClosed \/ ~open)
<1>1. RefsAfterRemove(gnv, key[h]) = -1 /\ RemoveValueFromGNV(gnv, key[h]) = gnv
  BY TypeOKTable, RemoveFindsNothing
<1>2. CountAndGc(destroyedValues + 1)
  BY <1>1 DEF RemoveNative
<1>3. destroyedValues' \in Nat /\ inGC' \in BOOLEAN
  BY <1>2, CountAndGcType DEF TypeOK
<1>4. destroyed' = [destroyed EXCEPT ![h] = (-1 <= 0)]
  BY <1>1 DEF RemoveNative
<1>5. (-1 <= 0) = TRUE
  OBVIOUS
<1> QED
  BY <1>1, <1>3, <1>4, <1>5 DEF RemoveNative

\* destroy() on the main thread is for a handle not destroyed before: it does
\* nothing more, removes, or posts; and it does something on an open VM with a
\* handler unless the handle looks destroyed.
LEMMA DestroyEffect ==
  ASSUME TypeOK, NEW h \in Handle, Destroy(h)
  PROVE  /\ life[h] = "held" /\ ~called[h]
         /\ called' = [called EXCEPT ![h] = TRUE]
         /\ gnv' = gnv /\ UNCHANGED <<vm, luaVars, handleVars, gcPosted>>
         /\ destroyed' \in {destroyed, [destroyed EXCEPT ![h] = TRUE]}
         /\ destroyed' \in [Handle -> BOOLEAN]
         /\ destroyedValues' \in Nat /\ inGC' \in BOOLEAN
         /\ usedClosed' = usedClosed
         /\ \/ removals' = removals /\ posted' = posted /\ (destroyed[h] \/ ~open \/ ~handler)
            \/ removals' = [removals EXCEPT ![h] = @ + 1] /\ posted' = posted
            \/ removals' = removals /\ posted' = posted \cup {h} /\ handler
<1>1. CASE destroyed[h] \/ ~open
  BY <1>1 DEF Destroy, TypeOK, CalledBefore, gcVars
<1>2. CASE /\ open /\ RemoveNative(h) /\ UNCHANGED posted
  <2>1. destroyed' \in [Handle -> BOOLEAN]
    BY <1>2, RemoveNativeEffect DEF TypeOK
  <2>2. usedClosed' = usedClosed
    BY <1>2, RemoveNativeEffect DEF TypeOK
  <2> QED
    BY <1>2, <2>1, <2>2, RemoveNativeEffect DEF Destroy, CalledBefore
<1>3. CASE /\ open /\ posted' = Enqueue(h)
           /\ destroyed' = [destroyed EXCEPT ![h] = TRUE]
           /\ UNCHANGED <<gnv, gcVars, removals, usedClosed>>
  BY <1>3 DEF Destroy, TypeOK, CalledBefore, Enqueue, gcVars
<1> QED
  BY <1>1, <1>2, <1>3 DEF Destroy

\* The posted runnable removes on an open VM and does nothing on a closed one.
LEMMA RunPostedEffect ==
  ASSUME TypeOK, NEW h \in Handle, RunPosted(h)
  PROVE  /\ h \in posted /\ posted' = posted \ {h}
         /\ gnv' = gnv
         /\ UNCHANGED <<vm, luaVars, handleVars, called, gcPosted>>
         /\ destroyed' \in {destroyed, [destroyed EXCEPT ![h] = TRUE]}
         /\ destroyed' \in [Handle -> BOOLEAN]
         /\ destroyedValues' \in Nat /\ inGC' \in BOOLEAN
         /\ usedClosed' = usedClosed
         /\ removals' = IF open THEN [removals EXCEPT ![h] = @ + 1] ELSE removals
<1>1. CASE open
  <2>1. RemoveNative(h)
    BY <1>1 DEF RunPosted, PostedStillDue
  <2>2. destroyed' \in [Handle -> BOOLEAN] /\ usedClosed' = usedClosed
    BY <1>1, <2>1, RemoveNativeEffect DEF TypeOK
  <2> QED
    BY <1>1, <2>1, <2>2, RemoveNativeEffect DEF RunPosted
<1>2. CASE ~open
  BY <1>2 DEF RunPosted, PostedStillDue, TypeOK, gcVars
<1> QED
  BY <1>1, <1>2

-----------------------------------------------------------------------------
(* Every step keeps the invariant, one conjunct at a time.                 *)

\* The type invariant.
LEMMA TypeOKStep ==
  ASSUME TypeOK, [Next]_vars
  PROVE  TypeOK'
<1>1. ASSUME NEW a \in Addr, LuaAllocate(a)
       PROVE  TypeOK'
  <2>1. uses' \in [Addr -> 0..MaxUses]
    BY <1>1, GNVAssumption DEF TypeOK, LuaAllocate
  <2> QED
    BY <1>1, <2>1 DEF TypeOK, LuaAllocate, handleVars, gcVars, vm
<1>2. ASSUME NEW a \in Addr, LuaDrop(a)
       PROVE  TypeOK'
  BY <1>2 DEF TypeOK, LuaDrop, luaVars, handleVars, gcVars, vm
<1>3. ASSUME NEW a \in Addr, LuaCollect(a)
       PROVE  TypeOK'
  BY <1>3 DEF TypeOK, LuaCollect, luaVars, handleVars, gcVars, vm
<1>4. ASSUME NEW a \in Addr, RefStrong(a)
       PROVE  TypeOK'
  <2>1. GNVTableOK(gnv')
    BY <1>4, TypeOKTable, CopyAdds DEF RefStrong
  <2> QED
    BY <1>4, <2>1 DEF TypeOK, RefStrong, GNVTableOK, luaVars, handleVars, gcVars, vm
<1>5. ASSUME NEW a \in Addr, RefWeak(a)
       PROVE  TypeOK'
  <2>1. gnv' = gnv
    BY <1>5, TypeOKTable, RemoveFindsNothing DEF RefWeak
  <2> QED
    BY <1>5, <2>1 DEF TypeOK, RefWeak, luaVars, handleVars, gcVars, vm
<1>6. ASSUME NEW h \in Handle, NEW a \in Addr, NewHandle(h, a)
       PROVE  TypeOK'
  <2>1. GNVTableOK(gnv')
    BY <1>6, TypeOKTable, CopyAdds DEF NewHandle
  <2> QED
    BY <1>6, <2>1 DEF TypeOK, NewHandle, GNVTableOK, Lives, luaVars, handleVars, gcVars, vm
<1>7. ASSUME NEW h \in Handle, UseHandle(h)
       PROVE  TypeOK'
  <2>1. destroyed' \in [Handle -> BOOLEAN]
    BY <1>7 DEF TypeOK, UseHandle, HasNativeValue
  <2>2. lua' \in [Addr -> {"free", "reachable", "unreachable"}]
    BY <1>7 DEF TypeOK, UseHandle
  <2> QED
    BY <1>7, <2>1, <2>2 DEF TypeOK, UseHandle, handleVars, gcVars, vm
<1>8. ASSUME NEW h \in Handle, Destroy(h)
       PROVE  TypeOK'
  <2>1. called' \in [Handle -> BOOLEAN]
    BY <1>8, DestroyEffect DEF TypeOK
  <2>2. posted' \subseteq Handle /\ removals' \in [Handle -> Nat]
    BY <1>8, DestroyEffect DEF TypeOK
  <2> QED
    BY <1>8, <2>1, <2>2, DestroyEffect DEF TypeOK, luaVars, handleVars, vm
<1>9. ASSUME NEW h \in Handle, RunPosted(h)
       PROVE  TypeOK'
  <2>1. posted' \subseteq Handle /\ removals' \in [Handle -> Nat]
    BY <1>9, RunPostedEffect DEF TypeOK
  <2> QED
    BY <1>9, <2>1, RunPostedEffect DEF TypeOK, luaVars, handleVars, vm
<1>10. CASE TryFullGc
  BY <1>10 DEF TypeOK, TryFullGc, luaVars, handleVars, gcVars, vm
<1>11. CASE RunGc
  <2>1. destroyedValues' \in Nat /\ inGC' \in BOOLEAN
    BY <1>11, CountAndGcType DEF TypeOK, RunGc, gcVars
  <2> QED
    BY <1>11, <2>1 DEF TypeOK, RunGc, luaVars, handleVars, vm
<1>12. CASE EndGc
  BY <1>12 DEF TypeOK, EndGc, luaVars, handleVars, gcVars, vm
<1>13. CASE DestroyGlobals
  <2>1. DOMAIN gnv' = {}
    BY <1>13 DEF DestroyGlobals, NoEntries
  <2> QED
    BY <1>13, <2>1 DEF TypeOK, DestroyGlobals, luaVars, handleVars, gcVars
<1>14. ASSUME NEW h \in Handle, LoseHandle(h)
       PROVE  TypeOK'
  BY <1>14 DEF TypeOK, LoseHandle, Lives, luaVars, gcVars, vm
<1>15. ASSUME NEW h \in Handle, Finalize(h)
       PROVE  TypeOK'
  <2>1. called' \in [Handle -> BOOLEAN] /\ life' \in [Handle -> Lives]
    BY <1>15 DEF TypeOK, Finalize, Lives
  <2> QED
    BY <1>15, <2>1 DEF TypeOK, Finalize, luaVars, gcVars, vm
<1>16. ASSUME NEW h \in Handle, FinalizeCheck(h)
       PROVE  TypeOK'
  <2>1. life' \in [Handle -> Lives]
    BY <1>16 DEF TypeOK, FinalizeCheck, Lives
  <2> QED
    BY <1>16, <2>1 DEF TypeOK, FinalizeCheck, luaVars, gcVars, vm
<1>17. ASSUME NEW h \in Handle, FinalizePost(h)
       PROVE  TypeOK'
  <2>1. life' \in [Handle -> Lives] /\ destroyed' \in [Handle -> BOOLEAN]
    BY <1>17 DEF TypeOK, FinalizePost, Lives
  <2> QED
    BY <1>17, <2>1 DEF TypeOK, FinalizePost, Enqueue, luaVars, gcVars, vm
<1>18. CASE UNCHANGED vars
  BY <1>18 DEF TypeOK, vars, luaVars, handleVars, gcVars, vm
<1> QED
  BY <1>1, <1>2, <1>3, <1>4, <1>5, <1>6, <1>7, <1>8, <1>9,
     <1>10, <1>11, <1>12, <1>13, <1>14, <1>15, <1>16, <1>17, <1>18
     DEF Next, MainThread, FinalizerThread

\* An address with an entry is not freed.
LEMMA PinsStep ==
  ASSUME TypeOK, Pins, [Next]_vars
  PROVE  Pins'
<1>1. ASSUME NEW a \in Addr, LuaAllocate(a)
       PROVE  Pins'
  BY <1>1 DEF TypeOK, Pins, LuaAllocate, HasNativeValue
<1>2. ASSUME NEW a \in Addr, LuaDrop(a)
       PROVE  Pins'
  BY <1>2 DEF TypeOK, Pins, LuaDrop, HasNativeValue
<1>3. ASSUME NEW a \in Addr, LuaCollect(a)
       PROVE  Pins'
  BY <1>3 DEF TypeOK, Pins, LuaCollect, HasNativeValue
<1>4. ASSUME NEW a \in Addr, RefStrong(a)
       PROVE  Pins'
  <2>1. DOMAIN gnv' = DOMAIN gnv \cup {LightUserdata(a)}
    BY <1>4, TypeOKTable, CopyAdds DEF RefStrong
  <2> QED
    BY <1>4, <2>1, KeysDiffer DEF Pins, RefStrong, HasNativeValue, luaVars
<1>5. ASSUME NEW a \in Addr, RefWeak(a)
       PROVE  Pins'
  <2>1. gnv' = gnv
    BY <1>5, TypeOKTable, RemoveFindsNothing DEF RefWeak
  <2> QED
    BY <1>5, <2>1 DEF Pins, RefWeak, HasNativeValue, luaVars
<1>6. ASSUME NEW h \in Handle, NEW a \in Addr, NewHandle(h, a)
       PROVE  Pins'
  <2>1. DOMAIN gnv' = DOMAIN gnv \cup {LightUserdata(a)}
    BY <1>6, TypeOKTable, CopyAdds DEF NewHandle
  <2> QED
    BY <1>6, <2>1, KeysDiffer DEF Pins, NewHandle, HasNativeValue, luaVars
<1>7. ASSUME NEW h \in Handle, UseHandle(h)
       PROVE  Pins'
  BY <1>7 DEF TypeOK, Pins, UseHandle, HasNativeValue
<1>8. ASSUME NEW h \in Handle, Destroy(h)
       PROVE  Pins'
  BY <1>8, DestroyEffect DEF Pins, HasNativeValue, luaVars
<1>9. ASSUME NEW h \in Handle, RunPosted(h)
       PROVE  Pins'
  BY <1>9, RunPostedEffect DEF Pins, HasNativeValue, luaVars
<1>10. CASE TryFullGc
  BY <1>10 DEF Pins, HasNativeValue, TryFullGc, luaVars
<1>11. CASE RunGc
  BY <1>11 DEF Pins, HasNativeValue, RunGc, luaVars
<1>12. CASE EndGc
  BY <1>12 DEF Pins, HasNativeValue, EndGc, luaVars
<1>13. CASE DestroyGlobals
  <2>1. DOMAIN gnv' = {}
    BY <1>13 DEF DestroyGlobals, NoEntries
  <2> QED
    BY <2>1 DEF Pins, HasNativeValue
<1>14. ASSUME NEW h \in Handle, LoseHandle(h)
       PROVE  Pins'
  BY <1>14 DEF Pins, HasNativeValue, LoseHandle, luaVars
<1>15. ASSUME NEW h \in Handle, Finalize(h)
       PROVE  Pins'
  BY <1>15 DEF Pins, HasNativeValue, Finalize, luaVars
<1>16. ASSUME NEW h \in Handle, FinalizeCheck(h)
       PROVE  Pins'
  BY <1>16 DEF Pins, HasNativeValue, FinalizeCheck, luaVars
<1>17. ASSUME NEW h \in Handle, FinalizePost(h)
       PROVE  Pins'
  BY <1>17 DEF Pins, HasNativeValue, FinalizePost, luaVars
<1>18. CASE UNCHANGED vars
  BY <1>18 DEF Pins, HasNativeValue, vars, luaVars
<1> QED
  BY <1>1, <1>2, <1>3, <1>4, <1>5, <1>6, <1>7, <1>8, <1>9,
     <1>10, <1>11, <1>12, <1>13, <1>14, <1>15, <1>16, <1>17, <1>18
     DEF Next, MainThread, FinalizerThread

\* A handle keeps its object.
LEMMA BoundStep ==
  ASSUME TypeOK, Pins, Bound, [Next]_vars
  PROVE  Bound'
<1>1. ASSUME NEW a \in Addr, LuaAllocate(a)
       PROVE  Bound'
  <2>1. \A h \in Handle : open /\ life[h] # "none" => lua[key[h]] # "free"
    BY DEF Pins, Bound
  <2>2. \A h \in Handle : open /\ life[h] # "none" => key[h] # a
    BY <1>1, <2>1 DEF LuaAllocate
  <2> QED
    BY <1>1, <2>2 DEF TypeOK, Bound, LuaAllocate, HasNativeValue, handleVars
<1>2. ASSUME NEW a \in Addr, LuaDrop(a)
       PROVE  Bound'
  BY <1>2 DEF Bound, LuaDrop, HasNativeValue, handleVars, vm
<1>3. ASSUME NEW a \in Addr, LuaCollect(a)
       PROVE  Bound'
  BY <1>3 DEF Bound, LuaCollect, HasNativeValue, handleVars, vm
<1>4. ASSUME NEW a \in Addr, RefStrong(a)
       PROVE  Bound'
  <2>1. DOMAIN gnv' = DOMAIN gnv \cup {LightUserdata(a)}
    BY <1>4, TypeOKTable, CopyAdds DEF RefStrong
  <2> QED
    BY <1>4, <2>1 DEF Bound, RefStrong, HasNativeValue, luaVars, handleVars, vm
<1>5. ASSUME NEW a \in Addr, RefWeak(a)
       PROVE  Bound'
  <2>1. gnv' = gnv
    BY <1>5, TypeOKTable, RemoveFindsNothing DEF RefWeak
  <2> QED
    BY <1>5, <2>1 DEF Bound, RefWeak, HasNativeValue, luaVars, handleVars, vm
<1>6. ASSUME NEW h \in Handle, NEW a \in Addr, NewHandle(h, a)
       PROVE  Bound'
  <2>1. DOMAIN gnv' = DOMAIN gnv \cup {LightUserdata(a)}
    BY <1>6, TypeOKTable, CopyAdds DEF NewHandle
  <2> QED
    BY <1>6, <2>1 DEF TypeOK, Bound, NewHandle, HasNativeValue, luaVars, vm
<1>7. ASSUME NEW h \in Handle, UseHandle(h)
       PROVE  Bound'
  BY <1>7 DEF Bound, UseHandle, HasNativeValue, handleVars
<1>8. ASSUME NEW h \in Handle, Destroy(h)
       PROVE  Bound'
  BY <1>8, DestroyEffect DEF Bound, HasNativeValue, luaVars, handleVars, vm
<1>9. ASSUME NEW h \in Handle, RunPosted(h)
       PROVE  Bound'
  BY <1>9, RunPostedEffect DEF Bound, HasNativeValue, luaVars, handleVars, vm
<1>10. CASE TryFullGc
  BY <1>10 DEF Bound, HasNativeValue, TryFullGc, luaVars, handleVars
<1>11. CASE RunGc
  BY <1>11 DEF Bound, HasNativeValue, RunGc, luaVars, handleVars, vm
<1>12. CASE EndGc
  BY <1>12 DEF Bound, HasNativeValue, EndGc, luaVars, handleVars, vm
<1>13. CASE DestroyGlobals
  BY <1>13 DEF DestroyGlobals, Bound
<1>14. ASSUME NEW h \in Handle, LoseHandle(h)
       PROVE  Bound'
  BY <1>14 DEF TypeOK, LoseHandle, Bound, HasNativeValue, luaVars, vm
<1>15. ASSUME NEW h \in Handle, Finalize(h)
       PROVE  Bound'
  BY <1>15 DEF TypeOK, Finalize, Bound, HasNativeValue, luaVars, vm
<1>16. ASSUME NEW h \in Handle, FinalizeCheck(h)
       PROVE  Bound'
  BY <1>16 DEF TypeOK, FinalizeCheck, Bound, HasNativeValue, luaVars, vm
<1>17. ASSUME NEW h \in Handle, FinalizePost(h)
       PROVE  Bound'
  BY <1>17 DEF TypeOK, FinalizePost, Bound, HasNativeValue, luaVars, vm
<1>18. CASE UNCHANGED vars
  BY <1>18 DEF Bound, HasNativeValue, vars, luaVars, handleVars, vm
<1> QED
  BY <1>1, <1>2, <1>3, <1>4, <1>5, <1>6, <1>7, <1>8, <1>9,
     <1>10, <1>11, <1>12, <1>13, <1>14, <1>15, <1>16, <1>17, <1>18
     DEF Next, MainThread, FinalizerThread

\* A handle is removed once.
LEMMA OneRequestStep ==
  ASSUME TypeOK, OneRequest, [Next]_vars
  PROVE  OneRequest'
<1>1. ASSUME NEW a \in Addr, LuaAllocate(a)
       PROVE  OneRequest'
  BY <1>1 DEF OneRequest, LuaAllocate, handleVars
<1>2. ASSUME NEW a \in Addr, LuaDrop(a)
       PROVE  OneRequest'
  BY <1>2 DEF OneRequest, LuaDrop, handleVars
<1>3. ASSUME NEW a \in Addr, LuaCollect(a)
       PROVE  OneRequest'
  BY <1>3 DEF OneRequest, LuaCollect, handleVars
<1>4. ASSUME NEW a \in Addr, RefStrong(a)
       PROVE  OneRequest'
  BY <1>4 DEF OneRequest, RefStrong, handleVars
<1>5. ASSUME NEW a \in Addr, RefWeak(a)
       PROVE  OneRequest'
  BY <1>5 DEF OneRequest, RefWeak, handleVars
<1>6. ASSUME NEW h \in Handle, NEW a \in Addr, NewHandle(h, a)
       PROVE  OneRequest'
  BY <1>6 DEF TypeOK, OneRequest, NewHandle
<1>7. ASSUME NEW h \in Handle, UseHandle(h)
       PROVE  OneRequest'
  BY <1>7 DEF OneRequest, UseHandle, handleVars
<1>8. ASSUME NEW h \in Handle, Destroy(h)
       PROVE  OneRequest'
  <2>1. removals[h] = 0 /\ h \notin posted
    BY <1>8, DestroyEffect DEF TypeOK, OneRequest
  <2> QED
    BY <1>8, <2>1, DestroyEffect DEF TypeOK, OneRequest, handleVars
<1>9. ASSUME NEW h \in Handle, RunPosted(h)
       PROVE  OneRequest'
  <2>1. removals[h] = 0 /\ called[h] /\ life[h] \notin {"finalizing", "posting"}
    BY <1>9, RunPostedEffect DEF OneRequest
  <2> QED
    BY <1>9, <2>1, RunPostedEffect DEF TypeOK, OneRequest, handleVars
<1>10. CASE TryFullGc
  BY <1>10 DEF OneRequest, TryFullGc, handleVars
<1>11. CASE RunGc
  BY <1>11 DEF OneRequest, RunGc, handleVars
<1>12. CASE EndGc
  BY <1>12 DEF OneRequest, EndGc, handleVars
<1>13. CASE DestroyGlobals
  BY <1>13 DEF OneRequest, DestroyGlobals, handleVars
<1>14. ASSUME NEW h \in Handle, LoseHandle(h)
       PROVE  OneRequest'
  BY <1>14 DEF TypeOK, LoseHandle, OneRequest
<1>15. ASSUME NEW h \in Handle, Finalize(h)
       PROVE  OneRequest'
  BY <1>15 DEF TypeOK, Finalize, OneRequest, CalledBefore
<1>16. ASSUME NEW h \in Handle, FinalizeCheck(h)
       PROVE  OneRequest'
  BY <1>16 DEF TypeOK, FinalizeCheck, OneRequest
<1>17. ASSUME NEW h \in Handle, FinalizePost(h)
       PROVE  OneRequest'
  BY <1>17 DEF TypeOK, FinalizePost, OneRequest, Enqueue
<1>18. CASE UNCHANGED vars
  BY <1>18 DEF OneRequest, vars, handleVars
<1> QED
  BY <1>1, <1>2, <1>3, <1>4, <1>5, <1>6, <1>7, <1>8, <1>9,
     <1>10, <1>11, <1>12, <1>13, <1>14, <1>15, <1>16, <1>17, <1>18
     DEF Next, MainThread, FinalizerThread

\* A request is not lost, and a handle without one does not look destroyed.
LEMMA AskedStep ==
  ASSUME TypeOK, Bound, OneRequest, Asked, [Next]_vars
  PROVE  Asked'
<1>1. ASSUME NEW a \in Addr,
             LuaAllocate(a) \/ LuaDrop(a) \/ LuaCollect(a) \/ RefStrong(a) \/ RefWeak(a)
      PROVE  Asked'
  BY <1>1 DEF Asked, LuaAllocate, LuaDrop, LuaCollect, RefStrong, RefWeak, handleVars, vm
<1>2. ASSUME NEW h \in Handle, NEW a \in Addr, NewHandle(h, a)
      PROVE  Asked'
  BY <1>2 DEF TypeOK, Asked, NewHandle, vm
<1>3. ASSUME NEW h \in Handle, UseHandle(h)
      PROVE  Asked'
  <2>1. HasNativeValue(gnv, key[h])
    BY <1>3 DEF UseHandle, Bound
  <2>2. destroyed' = [destroyed EXCEPT ![h] = FALSE]
    BY <1>3, <2>1 DEF UseHandle
  <2> QED
    BY <1>3, <2>2 DEF TypeOK, Asked, UseHandle, handleVars, vm
<1>4. ASSUME NEW h \in Handle, Destroy(h)
      PROVE  Asked'
  <2> SUFFICES ASSUME NEW g \in Handle, open'
               PROVE  /\ destroyed'[g] => called'[g]
                      /\ called'[g] /\ handler'
                           => \/ removals'[g] = 1 \/ g \in posted'
                              \/ life'[g] \in {"finalizing", "posting"}
    BY DEF Asked
  <2>1. open /\ handler' = handler /\ life' = life /\ ~called[h]
    BY <1>4, DestroyEffect DEF vm, handleVars
  <2>2. CASE g = h
    <3>1. ~destroyed[h] /\ removals[h] = 0 /\ called'[h]
      BY <1>4, <2>1, DestroyEffect DEF TypeOK, Asked, OneRequest
    <3>2. \/ removals' = [removals EXCEPT ![h] = @ + 1]
          \/ posted' = posted \cup {h}
          \/ ~handler
      BY <1>4, <2>1, <3>1, DestroyEffect
    <3>3. removals \in [Handle -> Nat]
      BY DEF TypeOK
    <3>4. removals'[h] = 1 \/ h \in posted' \/ ~handler
      BY <3>1, <3>2, <3>3
    <3> QED
      BY <2>1, <2>2, <3>1, <3>4, Zenon
  <2>3. CASE g # h
    <3>1. destroyed'[g] = destroyed[g] /\ called'[g] = called[g]
      <4>1. /\ destroyed' = destroyed \/ destroyed' = [destroyed EXCEPT ![h] = TRUE]
            /\ called' = [called EXCEPT ![h] = TRUE]
        BY <1>4, DestroyEffect
      <4>2. destroyed \in [Handle -> BOOLEAN] /\ called \in [Handle -> BOOLEAN]
        BY DEF TypeOK
      <4> QED
        BY <2>3, <4>1, <4>2, Zenon
    <3>2. removals'[g] = removals[g] /\ (g \in posted' <=> g \in posted)
      <4>1. removals' = removals \/ removals' = [removals EXCEPT ![h] = @ + 1]
        BY <1>4, DestroyEffect
      <4>2. posted' = posted \/ posted' = posted \cup {h}
        BY <1>4, DestroyEffect
      <4> QED
        BY <2>3, <4>1, <4>2 DEF TypeOK
    <3> QED
      BY <2>1, <3>1, <3>2 DEF Asked
  <2> QED
    BY <2>2, <2>3
<1>5. ASSUME NEW h \in Handle, RunPosted(h)
      PROVE  Asked'
  <2> SUFFICES ASSUME NEW g \in Handle, open'
               PROVE  /\ destroyed'[g] => called'[g]
                      /\ called'[g] /\ handler'
                           => \/ removals'[g] = 1 \/ g \in posted'
                              \/ life'[g] \in {"finalizing", "posting"}
    BY DEF Asked
  <2>1. open /\ handler' = handler /\ life' = life /\ called' = called
    BY <1>5, RunPostedEffect DEF vm, handleVars
  <2>2. CASE g = h
    <3>1. called[h] /\ removals[h] = 0
      BY <1>5, RunPostedEffect DEF OneRequest
    <3>2. removals' = [removals EXCEPT ![h] = @ + 1]
      BY <1>5, <2>1, RunPostedEffect
    <3> QED
      BY <2>1, <2>2, <3>1, <3>2 DEF TypeOK
  <2>3. CASE g # h
    <3>1. /\ destroyed'[g] = destroyed[g]
          /\ removals'[g] = removals[g] /\ (g \in posted' <=> g \in posted)
      BY <1>5, <2>1, <2>3, RunPostedEffect DEF TypeOK
    <3> QED
      BY <2>1, <3>1 DEF Asked
  <2> QED
    BY <2>2, <2>3
<1>6. CASE TryFullGc \/ RunGc \/ EndGc \/ DestroyGlobals
  BY <1>6 DEF Asked, TryFullGc, RunGc, EndGc, DestroyGlobals, handleVars, vm
<1>7. ASSUME NEW h \in Handle, LoseHandle(h)
      PROVE  Asked'
  BY <1>7 DEF TypeOK, Asked, LoseHandle, vm
<1>8. ASSUME NEW h \in Handle, Finalize(h)
      PROVE  Asked'
  BY <1>8 DEF TypeOK, Asked, Finalize, CalledBefore, vm
<1>9. ASSUME NEW h \in Handle, FinalizeCheck(h)
      PROVE  Asked'
  BY <1>9 DEF TypeOK, Asked, FinalizeCheck, vm
<1>10. ASSUME NEW h \in Handle, FinalizePost(h)
      PROVE  Asked'
  <2>1. called[h]
    BY <1>10 DEF FinalizePost, OneRequest
  <2> QED
    BY <1>10, <2>1 DEF TypeOK, Asked, FinalizePost, Enqueue, vm
<1>11. CASE UNCHANGED vars
  BY <1>11 DEF Asked, vars, handleVars, vm
<1> QED
  BY <1>1, <1>2, <1>3, <1>4, <1>5, <1>6, <1>7, <1>8, <1>9, <1>10, <1>11
     DEF Next, MainThread, FinalizerThread

\* What posts a removal or a collection needs the handler.
LEMMA NoQueueStep ==
  ASSUME TypeOK, NoQueue, [Next]_vars
  PROVE  NoQueue'
<1>1. ASSUME NEW a \in Addr,
             \/ LuaAllocate(a) \/ LuaDrop(a) \/ LuaCollect(a) \/ RefStrong(a) \/ RefWeak(a)
             \/ \E h \in Handle : NewHandle(h, a)
      PROVE  UNCHANGED <<handler, posted, gcPosted>>
  BY <1>1 DEF LuaAllocate, LuaDrop, LuaCollect, RefStrong, RefWeak, NewHandle, vm
<1>2. ASSUME NEW h \in Handle, UseHandle(h) \/ LoseHandle(h) \/ Finalize(h) \/ FinalizeCheck(h)
      PROVE  UNCHANGED <<handler, posted, gcPosted>>
  BY <1>2 DEF UseHandle, LoseHandle, Finalize, FinalizeCheck, vm
<1>3. ASSUME NEW h \in Handle, Destroy(h)
      PROVE  NoQueue'
  BY <1>3, DestroyEffect DEF NoQueue, vm
<1>4. ASSUME NEW h \in Handle, RunPosted(h)
      PROVE  NoQueue'
  BY <1>4, RunPostedEffect DEF NoQueue, vm
<1>5. ASSUME NEW h \in Handle, FinalizePost(h)
      PROVE  NoQueue'
  BY <1>5 DEF NoQueue, FinalizePost, Enqueue, vm
<1>6. CASE TryFullGc \/ RunGc \/ EndGc \/ DestroyGlobals
  BY <1>6 DEF NoQueue, TryFullGc, RunGc, EndGc, DestroyGlobals, vm
<1>7. CASE UNCHANGED vars
  BY <1>7 DEF NoQueue, vars, vm
<1> QED
  BY <1>1, <1>2, <1>3, <1>4, <1>5, <1>6, <1>7 DEF NoQueue, Next, MainThread, FinalizerThread

\* No native call reaches a closed VM.
LEMMA NoUseAfterCloseStep ==
  ASSUME TypeOK, NoUseAfterClose, [Next]_vars
  PROVE  NoUseAfterClose'
<1>1. ASSUME NEW a \in Addr, LuaAllocate(a)
       PROVE  NoUseAfterClose'
  BY <1>1 DEF NoUseAfterClose, LuaAllocate
<1>2. ASSUME NEW a \in Addr, LuaDrop(a)
       PROVE  NoUseAfterClose'
  BY <1>2 DEF NoUseAfterClose, LuaDrop
<1>3. ASSUME NEW a \in Addr, LuaCollect(a)
       PROVE  NoUseAfterClose'
  BY <1>3 DEF NoUseAfterClose, LuaCollect
<1>4. ASSUME NEW a \in Addr, RefStrong(a)
       PROVE  NoUseAfterClose'
  BY <1>4 DEF NoUseAfterClose, RefStrong
<1>5. ASSUME NEW a \in Addr, RefWeak(a)
       PROVE  NoUseAfterClose'
  BY <1>5 DEF NoUseAfterClose, RefWeak
<1>6. ASSUME NEW h \in Handle, NEW a \in Addr, NewHandle(h, a)
       PROVE  NoUseAfterClose'
  BY <1>6 DEF NoUseAfterClose, NewHandle
<1>7. ASSUME NEW h \in Handle, UseHandle(h)
       PROVE  NoUseAfterClose'
  BY <1>7 DEF NoUseAfterClose, UseHandle
<1>8. ASSUME NEW h \in Handle, Destroy(h)
       PROVE  NoUseAfterClose'
  BY <1>8, DestroyEffect DEF NoUseAfterClose
<1>9. ASSUME NEW h \in Handle, RunPosted(h)
       PROVE  NoUseAfterClose'
  BY <1>9, RunPostedEffect DEF NoUseAfterClose
<1>10. CASE TryFullGc
  BY <1>10 DEF NoUseAfterClose, TryFullGc
<1>11. CASE RunGc
  BY <1>11 DEF NoUseAfterClose, RunGc
<1>12. CASE EndGc
  BY <1>12 DEF NoUseAfterClose, EndGc
<1>13. CASE DestroyGlobals
  BY <1>13 DEF NoUseAfterClose, DestroyGlobals
<1>14. ASSUME NEW h \in Handle, LoseHandle(h)
       PROVE  NoUseAfterClose'
  BY <1>14 DEF NoUseAfterClose, LoseHandle
<1>15. ASSUME NEW h \in Handle, Finalize(h)
       PROVE  NoUseAfterClose'
  BY <1>15 DEF NoUseAfterClose, Finalize
<1>16. ASSUME NEW h \in Handle, FinalizeCheck(h)
       PROVE  NoUseAfterClose'
  BY <1>16 DEF NoUseAfterClose, FinalizeCheck
<1>17. ASSUME NEW h \in Handle, FinalizePost(h)
       PROVE  NoUseAfterClose'
  BY <1>17 DEF NoUseAfterClose, FinalizePost
<1>18. CASE UNCHANGED vars
  BY <1>18 DEF NoUseAfterClose, vars
<1> QED
  BY <1>1, <1>2, <1>3, <1>4, <1>5, <1>6, <1>7, <1>8, <1>9,
     <1>10, <1>11, <1>12, <1>13, <1>14, <1>15, <1>16, <1>17, <1>18
     DEF Next, MainThread, FinalizerThread

-----------------------------------------------------------------------------
(* The theorems.                                                           *)

\* Every VM starts in the invariant.
LEMMA InitInvariant == Init => IInv
<1> SUFFICES ASSUME Init PROVE IInv
  OBVIOUS
<1>1. DOMAIN gnv = {}
  BY DEF Init, NoEntries
<1>2. TypeOK
  <2>1. 0 \in 0..MaxUses
    BY GNVAssumption
  <2>2. uses \in [Addr -> 0..MaxUses] /\ born \in [Handle -> 0..MaxUses]
    BY <2>1 DEF Init
  <2>3. /\ gcPosted \in BOOLEAN /\ inGC \in BOOLEAN /\ usedClosed \in BOOLEAN
        /\ open \in BOOLEAN /\ handler \in BOOLEAN
    BY DEF Init
  <2>4. /\ lua \in [Addr -> {"free", "reachable", "unreachable"}]
        /\ life \in [Handle -> Lives]
        /\ key \in [Handle -> Addr \cup {NoAddr}]
    BY DEF Init, Lives
  <2>5. called \in [Handle -> BOOLEAN] /\ destroyed \in [Handle -> BOOLEAN]
    BY DEF Init
  <2> QED
    BY <1>1, <2>1, <2>2, <2>3, <2>4, <2>5 DEF Init, TypeOK
<1>3. Pins /\ Bound
  BY <1>1 DEF Init, Pins, Bound, HasNativeValue
<1>4. OneRequest /\ Asked /\ NoQueue /\ NoUseAfterClose
  BY DEF Init, OneRequest, Asked, NoQueue, NoUseAfterClose
<1> QED
  BY <1>2, <1>3, <1>4 DEF IInv

\* Every step of the main thread and of the finalizer thread keeps it.
LEMMA StepInvariant == IInv /\ [Next]_vars => IInv'
  BY TypeOKStep, PinsStep, BoundStep, OneRequestStep, AskedStep, NoQueueStep, NoUseAfterCloseStep
     DEF IInv

\* The strengthened invariant holds of every behaviour of the bridge.
THEOREM Invariant == Spec => []IInv
  BY InitInvariant, StepInvariant, PTL DEF Spec

\* The table, the handles and the queue keep their types: in particular every
\* entry of the GNV table is under a light userdata key and counts at least one.
THEOREM TypeCorrect == Spec => []TypeOK
<1>1. IInv => TypeOK
  BY DEF IInv
<1> QED
  BY <1>1, Invariant, PTL

\* A handle Java holds and has not destroyed finds its own object
\* (copyValueToGNV, getValueFromGNV), however many handles, addresses and
\* collections there are.
THEOREM HandlesAreSound == Spec => []HandleSound
<1>1. IInv => HandleSound
  BY DEF IInv, Pins, Bound, HandleSound
<1> QED
  BY <1>1, Invariant, PTL

\* hasNativeValue never answers for another object at the same address.
THEOREM AddressesAreNotConfused == Spec => []NeverAnotherObject
<1>1. IInv => NeverAnotherObject
  BY DEF IInv, Bound, NeverAnotherObject
<1> QED
  BY <1>1, Invariant, PTL

\* No removal runs on a lua_State that Globals.destroy has closed.
THEOREM ClosedIsNotUsed == Spec => []NoUseAfterClose
<1>1. IInv => NoUseAfterClose
  BY DEF IInv
<1> QED
  BY <1>1, Invariant, PTL

\* What the lookup under a number costs: an entry of the GNV table, and the
\* object it pins, stay until the VM is destroyed, whatever destroy(), ref.weak
\* and the finalizer do.
THEOREM EntriesLast == Spec => [][open' => DOMAIN gnv \subseteq DOMAIN gnv']_vars
<1>1. IInv /\ [Next]_vars => [open' => DOMAIN gnv \subseteq DOMAIN gnv']_vars
  <2> SUFFICES ASSUME IInv, [Next]_vars, open'
               PROVE  DOMAIN gnv \subseteq DOMAIN gnv'
    OBVIOUS
  <2>1. GNVTableOK(gnv)
    BY TypeOKTable DEF IInv
  <2>2. ASSUME NEW a \in Addr, gnv' = CopyValueToGNV(gnv, a)
        PROVE  DOMAIN gnv \subseteq DOMAIN gnv'
    BY <2>1, <2>2, CopyAdds
  <2>3. ASSUME NEW a \in Addr, RefWeak(a) PROVE gnv' = gnv
    BY <2>1, <2>3, RemoveFindsNothing DEF RefWeak
  <2>4. ASSUME NEW h \in Handle, Destroy(h) \/ RunPosted(h) PROVE gnv' = gnv
    BY <2>4, DestroyEffect, RunPostedEffect DEF IInv
  <2>5. ~DestroyGlobals
    BY DEF DestroyGlobals
  <2>6. \/ \E a \in Addr : gnv' = CopyValueToGNV(gnv, a)
        \/ gnv' = gnv
    BY <2>3, <2>4, <2>5
       DEF Next, MainThread, FinalizerThread, LuaAllocate, LuaDrop, LuaCollect, RefStrong,
           NewHandle, UseHandle, TryFullGc, RunGc, EndGc, LoseHandle, Finalize, FinalizeCheck,
           FinalizePost, vars
  <2> QED
    BY <2>2, <2>6
<1> QED
  BY <1>1, Invariant, PTL DEF Spec

\* A request to destroy a handle is carried out once: destroy() by the owner, by
\* the finalizer and its posted runnable never make two removals, and as long as
\* the VM is open a request is in none of the three places only if there is no
\* handler to post it to (destroy, removeStack).
THEOREM RemovalIsOnce == Spec => []RemovedOnce
<1>1. IInv => RemovedOnce
  <2> SUFFICES ASSUME IInv, NEW h \in Handle
               PROVE  LET places == removals[h] + (IF h \in posted THEN 1 ELSE 0)
                            + (IF life[h] \in {"finalizing", "posting"} THEN 1 ELSE 0)
                      IN  /\ places <= 1
                          /\ open /\ places = 1 => called[h]
                          /\ open /\ called[h] /\ places = 0 => ~handler
    BY DEF RemovedOnce
  <2>1. /\ removals[h] = 0 \/ removals[h] = 1
        /\ h \in posted \/ removals[h] = 1 \/ life[h] \in {"finalizing", "posting"} => called[h]
        /\ h \in posted => removals[h] = 0 /\ life[h] \notin {"finalizing", "posting"}
        /\ life[h] \in {"finalizing", "posting"} => removals[h] = 0
    BY DEF IInv, OneRequest
  <2>2. open /\ called[h] /\ handler => \/ removals[h] = 1 \/ h \in posted
                                        \/ life[h] \in {"finalizing", "posting"}
    BY DEF IInv, Asked
  <2>3. CASE removals[h] = 1
    BY <2>1, <2>3
  <2>4. CASE removals[h] = 0
    BY <2>1, <2>2, <2>4
  <2> QED
    BY <2>1, <2>3, <2>4
<1> QED
  BY <1>1, Invariant, PTL

\* On a VM without a handler the only removals are those the owner makes itself,
\* outside a collection or in its first moments: a handle Java has lost is never
\* removed, although destroy() reports it destroyed, and its object is pinned
\* until the VM is (removeStack, finalize).
THEOREM WithoutHandlerNoneIsRemoved ==
  Spec => [][~handler => \A h \in Handle : life[h] # "held" => removals'[h] = removals[h]]_vars
<1>1. ASSUME IInv, Next, ~handler, NEW h \in Handle, life[h] # "held"
      PROVE  removals'[h] = removals[h]
  <2>0. TypeOK /\ posted = {} /\ removals \in [Handle -> Nat]
    BY <1>1 DEF IInv, NoQueue, TypeOK
  <2>1. ASSUME NEW g \in Handle, RunPosted(g) PROVE FALSE
    BY <2>0, <2>1 DEF RunPosted
  <2>2. ASSUME NEW g \in Handle, Destroy(g) PROVE removals'[h] = removals[h]
    <3>1. life[g] = "held" /\ removals' \in {removals, [removals EXCEPT ![g] = @ + 1]}
      BY <2>0, <2>2, DestroyEffect
    <3> QED
      BY <1>1, <2>0, <3>1
  <2>3. (\A g \in Handle : ~Destroy(g)) => removals' = removals
    BY <1>1, <2>1
       DEF Next, MainThread, FinalizerThread, LuaAllocate, LuaDrop, LuaCollect, RefStrong, RefWeak,
           NewHandle, UseHandle, TryFullGc, RunGc, EndGc, DestroyGlobals, LoseHandle, Finalize,
           FinalizeCheck, FinalizePost
  <2> QED
    BY <2>2, <2>3
<1>2. IInv /\ [Next]_vars
        => [~handler => \A h \in Handle : life[h] # "held" => removals'[h] = removals[h]]_vars
  BY <1>1
<1> QED
  BY <1>2, Invariant, PTL DEF Spec

-----------------------------------------------------------------------------
(* What DestroyIsCarriedOut rests on besides fairness: a request only ever *)
(* moves on, and the collections its removal may have to wait for are few. *)

\* How far the request of a handle has come: with the finalizer before and
\* after its check of the VM, in the queue, carried out.
Stage(h) ==
  IF removals[h] = 1 THEN 4
  ELSE IF h \in posted THEN 3
  ELSE IF life[h] = "posting" THEN 2
  ELSE IF life[h] = "finalizing" THEN 1 ELSE 0

\* What a step does to the request of a handle that is called, on a VM with a
\* handler.
LEMMA StageStep ==
  ASSUME IInv, Next, open', handler, NEW h \in Handle, called[h]
  PROVE  Stage(h)' \in {Stage(h), Stage(h) + 1}
<1>0. /\ removals \in [Handle -> Nat] /\ life \in [Handle -> Lives] /\ TypeOK
      /\ removals[h] \in 0..1
      /\ h \in posted => removals[h] = 0 /\ life[h] \notin {"finalizing", "posting"}
      /\ life[h] \in {"finalizing", "posting"} => removals[h] = 0
  BY DEF IInv, TypeOK, OneRequest
<1>1. CASE removals'[h] = removals[h] /\ (h \in posted' <=> h \in posted) /\ life'[h] = life[h]
  BY <1>1 DEF Stage
<1>2. ASSUME NEW a \in Addr,
             \/ LuaAllocate(a) \/ LuaDrop(a) \/ LuaCollect(a) \/ RefStrong(a) \/ RefWeak(a)
      PROVE  UNCHANGED <<removals, posted, life>>
  BY <1>2 DEF LuaAllocate, LuaDrop, LuaCollect, RefStrong, RefWeak, handleVars
<1>3. ASSUME NEW g \in Handle, NEW a \in Addr, NewHandle(g, a)
      PROVE  Stage(h)' = Stage(h)
  <2>1. life' = [life EXCEPT ![g] = "held"] /\ life[g] = "none"
        /\ UNCHANGED <<removals, posted>>
    BY <1>3 DEF NewHandle
  <2> QED
    BY <1>0, <2>1 DEF Stage
<1>4. ASSUME NEW g \in Handle, UseHandle(g) \/ LoseHandle(g)
      PROVE  Stage(h)' = Stage(h)
  <2>1. /\ UNCHANGED <<removals, posted>>
        /\ life' = life \/ (life[g] = "held" /\ life' = [life EXCEPT ![g] = "lost"])
    BY <1>4 DEF UseHandle, LoseHandle, handleVars
  <2> QED
    BY <1>0, <2>1 DEF Stage
<1>5. ASSUME NEW g \in Handle, Destroy(g)
      PROVE  removals'[h] = removals[h] /\ (h \in posted' <=> h \in posted) /\ life'[h] = life[h]
  <2>1. ~called[g] /\ life' = life
    BY <1>0, <1>5, DestroyEffect DEF handleVars
  <2>2. /\ removals' = removals \/ removals' = [removals EXCEPT ![g] = @ + 1]
        /\ posted' = posted \/ posted' = posted \cup {g}
    BY <1>0, <1>5, DestroyEffect
  <2> QED
    BY <1>0, <2>1, <2>2
<1>6. ASSUME NEW g \in Handle, RunPosted(g)
      PROVE  Stage(h)' \in {Stage(h), Stage(h) + 1}
  <2>1. /\ g \in posted /\ posted' = posted \ {g} /\ life' = life /\ open' = open
        /\ removals' = IF open THEN [removals EXCEPT ![g] = @ + 1] ELSE removals
    BY <1>0, <1>6, RunPostedEffect DEF handleVars, vm
  <2>2. removals' = [removals EXCEPT ![g] = @ + 1]
    BY <2>1
  <2>3. CASE g = h
    BY <1>0, <2>1, <2>2, <2>3 DEF Stage
  <2>4. CASE g # h
    BY <1>0, <1>1, <2>1, <2>2, <2>4
  <2> QED
    BY <2>3, <2>4
<1>7. CASE TryFullGc \/ RunGc \/ EndGc \/ DestroyGlobals
  BY <1>1, <1>7 DEF TryFullGc, RunGc, EndGc, DestroyGlobals, handleVars
<1>8. ASSUME NEW g \in Handle, Finalize(g)
      PROVE  Stage(h)' = Stage(h)
  <2>1. /\ life[g] = "lost" /\ UNCHANGED <<removals, posted>>
        /\ life' = [life EXCEPT ![g] = IF called[g] \/ destroyed[g] \/ ~open
                                        THEN "gone" ELSE "finalizing"]
    BY <1>8 DEF Finalize, CalledBefore
  <2> QED
    BY <1>0, <2>1 DEF Stage
<1>9. ASSUME NEW g \in Handle, FinalizeCheck(g)
      PROVE  Stage(h)' \in {Stage(h), Stage(h) + 1}
  <2>1. /\ life[g] = "finalizing" /\ life' = [life EXCEPT ![g] = "posting"]
        /\ UNCHANGED <<removals, posted>>
    BY <1>9 DEF FinalizeCheck, vm
  <2> QED
    BY <1>0, <2>1 DEF Stage
<1>10. ASSUME NEW g \in Handle, FinalizePost(g)
       PROVE  Stage(h)' \in {Stage(h), Stage(h) + 1}
  <2>1. /\ life[g] = "posting" /\ life' = [life EXCEPT ![g] = "gone"]
        /\ posted' = posted \cup {g} /\ removals' = removals
    BY <1>10 DEF FinalizePost, Enqueue
  <2>2. CASE g = h
    BY <1>0, <2>1, <2>2 DEF Stage
  <2>3. CASE g # h
    BY <1>0, <1>1, <2>1, <2>3
  <2> QED
    BY <2>2, <2>3
<1>11. Stage(h) \in Nat
  BY DEF Stage
<1> QED
  BY <1>1, <1>2, <1>3, <1>4, <1>5, <1>6, <1>7, <1>8, <1>9, <1>10, <1>11
     DEF Next, MainThread, FinalizerThread

\* From thread to thread a request never goes back a stage and never skips one,
\* as long as the VM is open and has a handler: with the three weak fairness
\* conditions of its stages it arrives, once the collections let the queue run.
THEOREM RequestsMoveOn ==
  Spec => [][open' /\ handler
               => \A h \in Handle : called[h] => Stage(h)' \in {Stage(h), Stage(h) + 1}]_vars
<1>1. IInv /\ [Next]_vars
        => [open' /\ handler
              => \A h \in Handle : called[h] => Stage(h)' \in {Stage(h), Stage(h) + 1}]_vars
  BY StageStep
<1> QED
  BY <1>1, Invariant, PTL DEF Spec

\* Handles whose removal was not made, and what can still be collected for them.
Unremoved == {h \in Handle : removals[h] = 0}
GcRank == 3 * Cardinality(Unremoved) + (IF destroyedValues > 0 THEN 2 ELSE 0)
            + (IF inGC THEN 1 ELSE 0)

\* What a count of removals does: it is kept, or a collection begins.
LEMMA CountAndGcEffect ==
  ASSUME TypeOK, NEW n \in Nat, CountAndGc(n)
  PROVE  \/ destroyedValues' = n /\ inGC' = inGC
         \/ destroyedValues' = 0 /\ ~inGC /\ inGC' = TRUE /\ n > 0
<1>1. GcNumValues \in Nat
  BY GNVAssumption
<1>2. PICK timely \in BOOLEAN :
         IF ~inGC /\ timely /\ n > GcNumValues
         THEN destroyedValues' = 0 /\ inGC' = TRUE
         ELSE destroyedValues' = n /\ inGC' = inGC
  BY DEF CountAndGc
<1>3. CASE ~inGC /\ timely /\ n > GcNumValues
  <2>1. n > 0
    BY <1>1, <1>3
  <2> QED
    BY <1>2, <1>3, <2>1, Zenon
<1>4. CASE ~(~inGC /\ timely /\ n > GcNumValues)
  BY <1>2, <1>4, Zenon
<1> QED
  BY <1>3, <1>4

\* Which steps count removals, or begin and end a collection.
LEMMA CollectionSteps ==
  ASSUME IInv, Next
  PROVE  \/ UNCHANGED <<removals, destroyedValues, inGC>>
         \/ /\ UNCHANGED <<removals, destroyedValues>> /\ inGC /\ inGC' = FALSE
         \/ /\ UNCHANGED removals /\ destroyedValues > 0 /\ destroyedValues' = 0
            /\ ~inGC /\ inGC' = TRUE
         \/ \E h \in Handle :
              /\ removals[h] = 0 /\ removals' = [removals EXCEPT ![h] = @ + 1]
              /\ \/ destroyedValues' = destroyedValues + 1 /\ inGC' = inGC
                 \/ destroyedValues' = 0 /\ ~inGC /\ inGC' = TRUE
<1>0. TypeOK /\ destroyedValues \in Nat /\ inGC \in BOOLEAN
  BY DEF IInv, TypeOK
<1>1. ASSUME NEW h \in Handle, RemoveNative(h), removals[h] = 0
      PROVE  /\ removals[h] = 0 /\ removals' = [removals EXCEPT ![h] = @ + 1]
             /\ \/ destroyedValues' = destroyedValues + 1 /\ inGC' = inGC
                \/ destroyedValues' = 0 /\ ~inGC /\ inGC' = TRUE
  <2>1. RefsAfterRemove(gnv, key[h]) = -1
    BY <1>0, TypeOKTable, RemoveFindsNothing
  <2>2. CountAndGc(destroyedValues + 1)
    BY <1>1, <2>1 DEF RemoveNative
  <2>3. \/ destroyedValues' = destroyedValues + 1 /\ inGC' = inGC
        \/ destroyedValues' = 0 /\ ~inGC /\ inGC' = TRUE
    <3>1. destroyedValues + 1 \in Nat
      BY <1>0
    <3> QED
      BY <1>0, <2>2, <3>1, CountAndGcEffect, Zenon
  <2> QED
    BY <1>0, <1>1, <2>3, RemoveNativeEffect
<1>2. ASSUME NEW h \in Handle, Destroy(h)
      PROVE  UNCHANGED <<removals, destroyedValues, inGC>> \/ (RemoveNative(h) /\ removals[h] = 0)
  <2>1. ~called[h]
    BY <1>0, <1>2, DestroyEffect
  <2>2. removals[h] = 0
    BY <2>1 DEF IInv, OneRequest
  <2> QED
    BY <1>2, <2>2 DEF Destroy, gcVars
<1>3. ASSUME NEW h \in Handle, RunPosted(h)
      PROVE  UNCHANGED <<removals, destroyedValues, inGC>> \/ (RemoveNative(h) /\ removals[h] = 0)
  <2>1. removals[h] = 0
    BY <1>3 DEF RunPosted, IInv, OneRequest
  <2> QED
    BY <1>3, <2>1 DEF RunPosted, gcVars
<1>4. CASE RunGc
  <2>1. removals' = removals /\ (CountAndGc(destroyedValues) \/ UNCHANGED gcVars)
    BY <1>4 DEF RunGc
  <2> QED
    BY <1>0, <2>1, CountAndGcEffect DEF gcVars
<1>5. CASE EndGc
  BY <1>5 DEF EndGc
<1>6. CASE TryFullGc \/ DestroyGlobals
  BY <1>6 DEF TryFullGc, DestroyGlobals, gcVars
<1>7. ASSUME NEW a \in Addr,
             \/ LuaAllocate(a) \/ LuaDrop(a) \/ LuaCollect(a) \/ RefStrong(a) \/ RefWeak(a)
             \/ \E h \in Handle : NewHandle(h, a)
      PROVE  UNCHANGED <<removals, destroyedValues, inGC>>
  BY <1>7 DEF LuaAllocate, LuaDrop, LuaCollect, RefStrong, RefWeak, NewHandle, gcVars
<1>8. ASSUME NEW h \in Handle,
             \/ UseHandle(h) \/ LoseHandle(h) \/ Finalize(h) \/ FinalizeCheck(h) \/ FinalizePost(h)
      PROVE  UNCHANGED <<removals, destroyedValues, inGC>>
  BY <1>8 DEF UseHandle, LoseHandle, Finalize, FinalizeCheck, FinalizePost, gcVars
<1> QED
  BY <1>1, <1>2, <1>3, <1>4, <1>5, <1>6, <1>7, <1>8
     DEF Next, MainThread, FinalizerThread

\* A collection is begun and ended only at the expense of a number that nothing
\* raises: with finitely many handles the main thread is in _lgc only so often,
\* and a posted removal, which waits for the end of a collection, is not put off
\* for ever (CountAndGc: gc() counts from nought after each collection).
THEOREM CollectionsAreFew ==
  ASSUME IsFiniteSet(Handle)
  PROVE  Spec => [][/\ GcRank \in Nat /\ GcRank' <= GcRank
                    /\ inGC' # inGC => GcRank' < GcRank]_vars
<1>1. ASSUME IInv, Next
      PROVE  /\ GcRank \in Nat /\ GcRank' <= GcRank
             /\ inGC' # inGC => GcRank' < GcRank
  <2> DEFINE u == Cardinality(Unremoved)
             v == Cardinality(Unremoved')
  <2>0. /\ IsFiniteSet(Unremoved) /\ u \in Nat
        /\ destroyedValues \in Nat /\ removals \in [Handle -> Nat]
    <3>1. IsFiniteSet(Unremoved)
      BY FS_Subset DEF Unremoved
    <3> QED
      BY <1>1, <3>1, FS_CardinalityType DEF IInv, TypeOK
  <2>1. /\ GcRank = 3 * u + (IF destroyedValues > 0 THEN 2 ELSE 0) + (IF inGC THEN 1 ELSE 0)
        /\ GcRank' = 3 * v + (IF destroyedValues' > 0 THEN 2 ELSE 0) + (IF inGC' THEN 1 ELSE 0)
    BY DEF GcRank
  <2>2. ASSUME NEW h \in Handle, removals[h] = 0, removals' = [removals EXCEPT ![h] = @ + 1]
        PROVE  v = u - 1
    <3>1. Unremoved' = Unremoved \ {h} /\ h \in Unremoved
      BY <2>0, <2>2 DEF Unremoved
    <3> QED
      BY <2>0, <3>1, FS_RemoveElement
  <2>3. ASSUME UNCHANGED removals PROVE v = u
    BY <2>3 DEF Unremoved
  <2> DEFINE c(b) == IF b THEN 1 ELSE 0
             d(n) == IF n > 0 THEN 2 ELSE 0
  <2>8. GcRank = 3 * u + d(destroyedValues) + c(inGC) /\ GcRank' = 3 * v + d(destroyedValues') + c(inGC')
    BY <2>1
  <2>9. /\ c(TRUE) = 1 /\ c(FALSE) = 0
        /\ \A n \in Nat : d(n) \in {0, 2} /\ d(n) <= 2 /\ (n > 0 => d(n) = 2)
        /\ d(0) = 0 /\ c(inGC) \in {0, 1}
    OBVIOUS
  <2> HIDE DEF u, v, c, d
  <2>4. CASE UNCHANGED <<removals, destroyedValues, inGC>>
    BY <2>0, <2>1, <2>3, <2>4
  <2>5. CASE UNCHANGED <<removals, destroyedValues>> /\ inGC /\ inGC' = FALSE
    <3>1. c(inGC) = 1 /\ c(inGC') = 0
      BY <2>5 DEF c
    <3>2. v = u /\ d(destroyedValues') = d(destroyedValues)
      BY <2>3, <2>5
    <3>3. GcRank = 3 * u + d(destroyedValues) + 1 /\ GcRank' = 3 * u + d(destroyedValues) + 0
      BY <2>8, <3>1, <3>2
    <3>4. d(destroyedValues) \in Nat /\ u \in Nat
      BY <2>0, <2>9
    <3> QED
      BY <3>3, <3>4
  <2>6. CASE /\ UNCHANGED removals /\ destroyedValues > 0 /\ destroyedValues' = 0
             /\ ~inGC /\ inGC' = TRUE
    <3>1. c(inGC) = 0 /\ c(inGC') = 1
      BY <2>6 DEF c
    <3>2. v = u /\ d(destroyedValues') = 0 /\ d(destroyedValues) = 2
      BY <2>0, <2>3, <2>6, <2>9
    <3>3. GcRank = 3 * u + 2 + 0 /\ GcRank' = 3 * u + 0 + 1
      BY <2>8, <3>1, <3>2
    <3> QED
      BY <2>0, <3>3
  <2>7. CASE \E h \in Handle :
               /\ removals[h] = 0 /\ removals' = [removals EXCEPT ![h] = @ + 1]
               /\ \/ destroyedValues' = destroyedValues + 1 /\ inGC' = inGC
                  \/ destroyedValues' = 0 /\ ~inGC /\ inGC' = TRUE
    <3>1. v = u - 1
      BY <2>2, <2>7
    <3>2. \/ destroyedValues' = destroyedValues + 1 /\ inGC' = inGC
          \/ destroyedValues' = 0 /\ ~inGC /\ inGC' = TRUE
      BY <2>7
    <3> QED
      BY <2>0, <2>1, <3>1, <3>2
  <2> QED
    BY <1>1, <2>4, <2>5, <2>6, <2>7, CollectionSteps
<1>2. IInv /\ [Next]_vars => [/\ GcRank \in Nat /\ GcRank' <= GcRank
                              /\ inGC' # inGC => GcRank' < GcRank]_vars
  BY <1>1
<1> QED
  BY <1>2, Invariant, PTL DEF Spec
=============================================================================
