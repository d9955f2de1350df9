--------------------------- MODULE Globals_proofs -----------------------------
(***************************************************************************)
(* Safety of Globals for any number of VMs, addresses and calls.           *)
(*                                                                         *)
(* The argument.  calledFunction is the number of calls that run less the  *)
(* number of those refused (Counted), and the state says that a script     *)
(* runs unless that script was loaded over (Calling): the guard of         *)
(* destroy() sees all that runs, but for the calls that were refused and   *)
(* the scripts loaded over.  A registered VM is at the address it is       *)
(* registered under, open VMs are at different ones, and the registry      *)
(* does not name another VM at the address of one that is open             *)
(* (Registered): so what is ended is what was registered there.            *)
(***************************************************************************)
EXTENDS Globals, TLAPS

USE GlobalsAssumption

Counted == \A v \in VM : calledFunction[v] = calls[v] - refused[v]
Calling ==
  \A v \in VM : /\ state[v] = "calling" => main[v] > 0
                /\ overwritten[v] => main[v] > 0
                /\ main[v] > 0 /\ ~overwritten[v] => state[v] = "calling" /\ main[v] = 1
Registered ==
  /\ \A v, w \in VM : Open(v) /\ Open(w) /\ at[v] = at[w] => v = w
  /\ \A v \in VM : Open(v) => at[v] \in Address
  /\ \A v \in VM : Open(v) /\ at[v] \in DOMAIN cache => cache[at[v]] = v

\* TypeOK without the count, which Counted bounds.
Types ==
  /\ phase \in [VM -> {"none", "open", "closing", "closed", "dangling"}]
  /\ at \in [VM -> Address \cup {Nowhere}]
  /\ DOMAIN cache \subseteq Address /\ \A p \in DOMAIN cache : cache[p] \in VM
  /\ state \in [VM -> {"init", "ok", "calling", "error"}]
  /\ main \in [VM -> 0 .. MaxDepth] /\ overwritten \in [VM -> BOOLEAN]
  /\ calls \in [VM -> 0 .. MaxDepth]
  /\ refused \in [VM -> 0 .. MaxRefused]
  /\ calledFunction \in [VM -> Int]

IInv == Types /\ Counted /\ Calling /\ Registered /\ NeverAnotherVM /\ ClosedAtRest

RegistryStep(v) == Create(v) \/ Destroy(v) \/ Unregister(v) \/ EndIsolate(v)
ScriptStep(v) == Load(v) \/ CallLoadedData(v) \/ ScriptEnds(v)
CallStep(v) == Invoke(v) \/ InvokeEnds(v) \/ InvokeRefused(v)

-------------------------------------------------------------------------------
\* No VM has been made yet.
LEMMA InitIInv == Init => IInv
<1> SUFFICES ASSUME Init PROVE IInv
  OBVIOUS
<1>1. Types
  <2>1. \A v \in VM : /\ phase[v] = "none" /\ calls[v] = 0 /\ refused[v] = 0
                      /\ calledFunction[v] = 0 /\ state[v] = "init" /\ main[v] = 0
                      /\ overwritten[v] = FALSE
    BY DEF Init
  <2> QED
    BY DEF Init, Types
<1>2. Counted /\ Calling
  BY DEF Init, Counted, Calling
<1>3. Registered /\ NeverAnotherVM /\ ClosedAtRest
  BY DEF Init, Registered, NeverAnotherVM, ClosedAtRest, Open
<1> QED
  BY <1>1, <1>2, <1>3 DEF IInv

\* The registry's steps change neither scripts nor calls.
LEMMA RegistryIInv ==
  ASSUME IInv, NEW v \in VM, RegistryStep(v)
  PROVE  IInv'
<1> USE DEF IInv
<1>1. UNCHANGED <<script, counts>>
  BY DEF RegistryStep, Create, Destroy, Unregister, EndIsolate
<1>2. Counted' /\ Calling'
  BY <1>1 DEF Counted, Calling, counts, script
<1>3. CASE Create(v)
  <2>1. PICK p \in Address \ InUse :
          /\ phase' = [phase EXCEPT ![v] = "open"]
          /\ at' = [at EXCEPT ![v] = p]
          /\ cache' = Put(p, v)
    BY <1>3 DEF Create
  <2>2. /\ DOMAIN cache' = DOMAIN cache \cup {p} /\ cache'[p] = v
        /\ \A q \in DOMAIN cache : q # p => cache'[q] = cache[q]
    BY <2>1 DEF Put
  <2>3. phase[v] = "none" /\ \A q \in DOMAIN cache : cache[q] # v
    BY <1>3 DEF Create, NeverAnotherVM
  <2>4. Types'
    BY <1>1, <2>1, <2>2 DEF Types, counts, script
  <2>5. \A w \in VM : w # v => phase'[w] = phase[w] /\ at'[w] = at[w]
    BY <2>1 DEF Types
  <2>6. phase'[v] = "open" /\ at'[v] = p
    BY <2>1 DEF Types
  <2>7. \A w \in VM : Open(w) => at[w] # p
    BY <2>1 DEF InUse
  <2>8. NeverAnotherVM'
    BY <2>2, <2>3, <2>5, <2>6 DEF NeverAnotherVM, Types
  <2>9. Registered'
    BY <2>2, <2>5, <2>6, <2>7 DEF Registered, Open
  <2>10. ClosedAtRest'
    BY <1>1, <2>5, <2>6 DEF ClosedAtRest, counts, script
  <2> QED
    BY <1>2, <2>4, <2>8, <2>9, <2>10
<1>4. CASE Destroy(v)
  <2>1. /\ phase' = [phase EXCEPT ![v] = "closing"] /\ at' = at /\ cache' = cache
        /\ Open(v) /\ MayDestroy(v)
    BY <1>4 DEF Destroy, Acts
  <2>2. /\ \A w \in VM : w # v => phase'[w] = phase[w]
        /\ phase'[v] = "closing"
    BY <2>1 DEF Types
  <2>3. Types'
    BY <1>1, <2>1 DEF Types, counts, script
  <2>4. NeverAnotherVM' /\ Registered'
    BY <2>1, <2>2 DEF NeverAnotherVM, Registered, Open, Types
  <2>5. DEBUG => (main[v] > 0 => overwritten[v]) /\ calls[v] <= refused[v]
    BY <2>1 DEF MayDestroy, Counted, Calling, Types
  <2>6. ClosedAtRest'
    BY <1>1, <2>2, <2>5 DEF ClosedAtRest, counts, script
  <2> QED
    BY <1>2, <2>3, <2>4, <2>6
<1>5. CASE Unregister(v)
  <2>1. /\ phase' = [phase EXCEPT ![v] = "closed"] /\ at' = at
        /\ cache' = Without(at[v]) /\ phase[v] = "closing"
    BY <1>5 DEF Unregister
  <2>2. /\ \A w \in VM : w # v => phase'[w] = phase[w]
        /\ phase'[v] = "closed"
    BY <2>1 DEF Types
  <2>3. /\ DOMAIN cache' = DOMAIN cache \ {at[v]}
        /\ \A q \in DOMAIN cache' : cache'[q] = cache[q]
    BY <2>1 DEF Without
  <2>4. Types'
    BY <1>1, <2>1, <2>3 DEF Types, counts, script
  <2>5. NeverAnotherVM'
    BY <2>1, <2>2, <2>3 DEF NeverAnotherVM, Types
  <2>6. Registered'
    BY <2>1, <2>2, <2>3 DEF Registered, Open
  <2>7. ClosedAtRest'
    BY <1>1, <2>1, <2>2 DEF ClosedAtRest, counts, script
  <2> QED
    BY <1>2, <2>4, <2>5, <2>6, <2>7
<1>6. CASE EndIsolate(v)
  <2>1. Open(v) /\ ~Running(v) /\ at' = at
    BY <1>6 DEF EndIsolate, Acts
  <2>2. CASE at[v] \in DOMAIN cache
    <3>1. cache[at[v]] = v
      BY <2>1, <2>2 DEF Registered
    <3>2. phase' = [phase EXCEPT ![v] = "closed"] /\ cache' = Without(at[v])
      BY <1>6, <2>2, <3>1 DEF EndIsolate
    <3>3. /\ \A w \in VM : w # v => phase'[w] = phase[w]
          /\ phase'[v] = "closed"
      BY <3>2 DEF Types
    <3>4. /\ DOMAIN cache' = DOMAIN cache \ {at[v]}
          /\ \A q \in DOMAIN cache' : cache'[q] = cache[q]
      BY <3>2 DEF Without
    <3>5. Types'
      BY <1>1, <2>1, <3>2, <3>4 DEF Types, counts, script
    <3>6. NeverAnotherVM'
      BY <2>1, <3>3, <3>4 DEF NeverAnotherVM, Types
    <3>7. Registered'
      BY <2>1, <3>3, <3>4 DEF Registered, Open
    <3>8. ClosedAtRest'
      <4>1. main[v] = 0 /\ calls[v] = 0 /\ refused[v] >= 0
        BY <2>1 DEF Running, Types
      <4> QED
        BY <1>1, <3>3, <4>1 DEF ClosedAtRest, counts, script
    <3> QED
      BY <1>2, <3>5, <3>6, <3>7, <3>8
  <2>3. CASE at[v] \notin DOMAIN cache
    <3>1. phase' = [phase EXCEPT ![v] = "dangling"] /\ cache' = cache
      BY <1>6, <2>3 DEF EndIsolate
    <3>2. /\ \A w \in VM : w # v => phase'[w] = phase[w]
          /\ phase'[v] = "dangling"
      BY <3>1 DEF Types
    <3>3. Types'
      BY <1>1, <2>1, <3>1 DEF Types, counts, script
    <3>4. NeverAnotherVM' /\ Registered'
      BY <2>1, <2>3, <3>1, <3>2 DEF NeverAnotherVM, Registered, Open, Types
    <3>5. ClosedAtRest'
      BY <1>1, <3>2 DEF ClosedAtRest, counts, script
    <3> QED
      BY <1>2, <3>3, <3>4, <3>5
  <2> QED
    BY <2>2, <2>3
<1> QED
  BY <1>3, <1>4, <1>5, <1>6 DEF RegistryStep

\* The registry's part of the invariant does not look at scripts and calls.
LEMMA RegistryKept ==
  ASSUME IInv, UNCHANGED registry
  PROVE  Registered' /\ NeverAnotherVM'
BY DEF IInv, registry, Registered, NeverAnotherVM, Open

\* Loading and running a script keeps the invariant.
LEMMA ScriptIInv ==
  ASSUME IInv, NEW v \in VM, ScriptStep(v)
  PROVE  IInv'
<1> USE DEF IInv
<1>1. /\ UNCHANGED <<registry, counts>> /\ Open(v)
      /\ \A w \in VM : w # v => /\ state'[w] = state[w] /\ main'[w] = main[w]
                                /\ overwritten'[w] = overwritten[w]
      /\ state' \in [VM -> {"init", "ok", "calling", "error"}]
      /\ main' \in [VM -> 0 .. MaxDepth] /\ overwritten' \in [VM -> BOOLEAN]
  <2>1. CASE Load(v)
    BY <2>1 DEF Load, Acts, Types
  <2>2. CASE CallLoadedData(v)
    BY <2>2 DEF CallLoadedData, Acts, Types
  <2>3. CASE ScriptEnds(v)
    BY <2>3 DEF ScriptEnds, Acts, Types
  <2> QED
    BY <2>1, <2>2, <2>3 DEF ScriptStep
<1>2. /\ state'[v] = "calling" => main'[v] > 0
      /\ overwritten'[v] => main'[v] > 0
      /\ main'[v] > 0 /\ ~overwritten'[v] => state'[v] = "calling" /\ main'[v] = 1
  <2>0. /\ main[v] \in 0 .. MaxDepth /\ MaxDepth \in Nat /\ overwritten[v] \in BOOLEAN
        /\ state[v] = "calling" => main[v] > 0
        /\ overwritten[v] => main[v] > 0
        /\ main[v] > 0 /\ ~overwritten[v] => state[v] = "calling" /\ main[v] = 1
    BY DEF Types, Calling
  <2>1. CASE Load(v)
    <3>1. state'[v] # "calling" /\ main'[v] = main[v] /\ overwritten'[v] = (main[v] > 0)
      BY <2>1 DEF Load, Types
    <3> QED
      BY <2>0, <3>1
  <2>2. CASE CallLoadedData(v)
    <3>1. /\ state[v] = "ok" /\ state'[v] = "calling" /\ main'[v] = main[v] + 1
          /\ overwritten'[v] = overwritten[v]
      BY <2>2 DEF CallLoadedData, Types
    <3> QED
      BY <2>0, <3>1
  <2>3. CASE ScriptEnds(v)
    <3>1. /\ state'[v] # "calling" /\ main[v] > 0 /\ main'[v] = main[v] - 1
          /\ overwritten'[v] <=> overwritten[v] /\ main[v] > 1
      BY <2>3 DEF ScriptEnds, Types
    <3>2. CASE main[v] = 1
      BY <3>1, <3>2
    <3>3. CASE main[v] > 1
      BY <2>0, <3>1, <3>3
    <3> QED
      BY <2>0, <3>1, <3>2, <3>3
  <2> QED
    BY <2>1, <2>2, <2>3 DEF ScriptStep
<1>3. Types' /\ Counted'
  BY <1>1 DEF Types, Counted, registry, counts
<1>4. Calling'
  BY <1>1, <1>2 DEF Calling
<1>5. ClosedAtRest'
  BY <1>1 DEF ClosedAtRest, Open, registry, counts
<1> QED
  BY <1>1, <1>3, <1>4, <1>5, RegistryKept

\* Calls, and calls that are refused, keep the invariant.
LEMMA CallIInv ==
  ASSUME IInv, NEW v \in VM, CallStep(v)
  PROVE  IInv'
<1> USE DEF IInv
<1>1. UNCHANGED <<registry, script>>
  BY DEF CallStep, Invoke, InvokeEnds, InvokeRefused
<1>2. /\ calls' \in [VM -> 0 .. MaxDepth] /\ refused' \in [VM -> 0 .. MaxRefused]
      /\ calledFunction' \in [VM -> Int]
      /\ \A w \in VM : w # v => calls'[w] = calls[w] /\ refused'[w] = refused[w]
                                /\ calledFunction'[w] = calledFunction[w]
      /\ calledFunction'[v] = calls'[v] - refused'[v]
      /\ Open(v) \/ (calls'[v] = calls[v] /\ refused'[v] >= refused[v])
  <2>1. CASE Invoke(v)
    BY <2>1 DEF Invoke, Acts, Types, Counted
  <2>2. CASE InvokeEnds(v)
    BY <2>2 DEF InvokeEnds, Acts, Types, Counted
  <2>3. CASE InvokeRefused(v)
    BY <2>3 DEF InvokeRefused, Types, Counted
  <2> QED
    BY <2>1, <2>2, <2>3 DEF CallStep
<1>3. Types' /\ Counted' /\ Calling'
  BY <1>1, <1>2 DEF Types, Counted, Calling, registry, script
<1>4. ClosedAtRest'
  <2>1. \A w \in VM : phase'[w] = phase[w] /\ main'[w] = main[w] /\ overwritten'[w] = overwritten[w]
    BY <1>1 DEF registry, script
  <2>2. calls[v] \in Nat /\ refused[v] \in Nat /\ refused'[v] \in Nat
    BY <1>2 DEF Types
  <2> QED
    BY <1>2, <2>1, <2>2 DEF ClosedAtRest, Open
<1> QED
  BY <1>1, <1>3, <1>4, RegistryKept

\* The invariant holds in every behaviour of the VMs.
THEOREM Invariance == Spec => []IInv
<1>1. ASSUME IInv, [Next]_vars PROVE IInv'
  <2>1. CASE Next
    BY <1>1, <2>1, RegistryIInv, ScriptIInv, CallIInv
       DEF Next, RegistryStep, ScriptStep, CallStep
  <2>2. CASE UNCHANGED vars
    BY <1>1, <2>2 DEF vars, registry, script, counts, IInv, Types, Counted, Calling, Registered,
       NeverAnotherVM, ClosedAtRest, Open, Running
  <2> QED
    BY <1>1, <2>1, <2>2
<1> QED
  BY <1>1, InitIInv, PTL DEF Spec

-------------------------------------------------------------------------------
(* The properties.                                                         *)

\* The state has the types it is declared with; the code's count of calls
\* stays within the calls that run and the ones refused.
THEOREM TypeCorrect == Spec => []TypeOK
<1>1. IInv => TypeOK
  BY DEF IInv, Types, TypeOK, Counted
<1> QED
  BY <1>1, Invariance, PTL

\* destroy() never closes a VM under a script, unless that script loaded another
\* one while it ran (Globals.java:812, 833, 853, 938 overwrite the state), nor
\* under more calls than were refused before.
THEOREM NothingRunsInAClosedVM == Spec => []ClosedAtRest
<1>1. IInv => ClosedAtRest
  BY DEF IInv
<1> QED
  BY <1>1, Invariance, PTL

\* A VM with nothing running may be destroyed.
THEOREM AtRestMayBeDestroyed == Spec => []RestCanBeDestroyed
<1>1. IInv => RestCanBeDestroyed
  BY DEF IInv, Types, Counted, Calling, RestCanBeDestroyed, MayDestroy, Running
<1> QED
  BY <1>1, Invariance, PTL

\* A registered address leads to the VM that is there.
THEOREM RegistryIsRight == Spec => []NeverAnotherVM
<1>1. IInv => NeverAnotherVM
  BY DEF IInv
<1> QED
  BY <1>1, Invariance, PTL
===============================================================================
