----------------------------- MODULE Page_proofs ------------------------------
(***************************************************************************)
(* Safety of Page for any number of background tasks and reloads.          *)
(*                                                                         *)
(* The argument.  Every open VM is in one of the page's two fields, and    *)
(* the fields never name the same one (Owned): a VM that is made is newer  *)
(* than both.  Each view runs in the open VM of its field, so a VM that is *)
(* closed takes its view along, and the switch moves both together         *)
(* (Alive).  A page that is gone has no view manager and no data, which    *)
(* every callback needs, whatever the state bits say (Dead).  Where no     *)
(* background task writes mState back, the bits can be trusted: those that *)
(* mark work are set while the work is under way, or from a load that was  *)
(* left without a view until the user reloads (Local).                     *)
(***************************************************************************)
EXTENDS Page, SequenceTheorems, TLAPS

USE PageAssumption

Pages(m) == [globals : 0 .. m, hotReloadGlobals : 0 .. m,
             mLuaView : 0 .. m, hotReloadLuaView : 0 .. m,
             luaViewManager : BOOLEAN, hotReloadLuaViewManager : BOOLEAN,
             initData : BOOLEAN]

\* The VMs o are open, and they are the page's.
Owned(p, o) ==
  /\ o \subseteq {p.globals, p.hotReloadGlobals}
  /\ p.globals = p.hotReloadGlobals => p.globals = 0

\* The views run in the VMs of their fields.
Alive(p, o) ==
  /\ p.mLuaView # 0 => p.mLuaView = p.globals /\ p.globals \in o
  /\ p.hotReloadLuaView # 0 => p.hotReloadLuaView = p.hotReloadGlobals /\ p.hotReloadGlobals \in o

\* What is left of a page that is gone.
Dead(p, o) ==
  /\ o = {} /\ p.mLuaView = 0 /\ p.hotReloadLuaView = 0
  /\ ~p.luaViewManager /\ ~p.hotReloadLuaViewManager /\ ~p.initData

\* The page, with m VMs made.
Sound(p, o, m) == p \in Pages(m) /\ o \subseteq 1 .. m /\ Owned(p, o) /\ Alive(p, o)

Crashes == {"no", "load", "executed", "failed", "loadFailed", "appear", "reload"}

IInv ==
  /\ TypeOK
  /\ Sound(page, open, made)
  /\ gone => Dead(page, open) /\ running = 0

-------------------------------------------------------------------------------
(* What the operators that act on a page leave.                            *)

\* Dropping the second VM leaves a sound page.
LEMMA DropAsideSound ==
  ASSUME NEW m \in Nat, NEW p, NEW o, Sound(p, o, m)
  PROVE  Sound(DropAside(p), o \ {p.hotReloadGlobals}, m)
<1> DEFINE q == DropAside(p)
           oo == o \ {p.hotReloadGlobals}
<1>1. p \in Pages(m) /\ o \subseteq 1 .. m /\ Owned(p, o) /\ Alive(p, o)
  BY DEF Sound
<1>2. /\ q.globals = p.globals /\ q.hotReloadGlobals = 0
      /\ q.mLuaView = p.mLuaView /\ q.hotReloadLuaView = 0
      /\ q \in Pages(m) /\ oo \subseteq 1 .. m
  <2>1. 0 \in 0 .. m
    OBVIOUS
  <2>2. oo \subseteq 1 .. m
    BY <1>1
  <2> QED
    BY <1>1, <2>1, <2>2 DEF Pages, DropAside
<1>3. Owned(q, oo)
  BY <1>1, <1>2 DEF Owned
<1>4. Alive(q, oo)
  BY <1>1, <1>2 DEF Owned, Alive
<1> QED
  BY <1>2, <1>3, <1>4 DEF Sound

\* ... and a dead one dead.
LEMMA DropAsideDead ==
  ASSUME NEW m \in Nat, NEW p \in Pages(m), NEW o, Dead(p, o)
  PROVE  Dead(DropAside(p), o \ {p.hotReloadGlobals})
BY DEF Pages, DropAside, Dead

\* So does the switch at the end of a hot reload, once the old VM is closed.
LEMMA SwitchedSound ==
  ASSUME NEW m \in Nat, NEW p, NEW o, Sound(p, o, m)
  PROVE  Sound(Switched(p), o \ {p.globals}, m)
<1> DEFINE q == Switched(p)
           oo == o \ {p.globals}
<1>1. /\ q.globals = p.hotReloadGlobals /\ q.hotReloadGlobals = 0
      /\ q.mLuaView = p.hotReloadLuaView /\ q.hotReloadLuaView = 0
      /\ q \in Pages(m) /\ oo \subseteq 1 .. m
  <2>1. p \in Pages(m) /\ o \subseteq 1 .. m
    BY DEF Sound
  <2>2. 0 \in 0 .. m
    OBVIOUS
  <2>3. oo \subseteq 1 .. m
    BY <2>1
  <2> QED
    BY <2>1, <2>2, <2>3 DEF Pages, Switched
<1>2. Owned(q, oo)
  BY <1>1 DEF Sound, Owned
<1>3. Alive(q, oo)
  BY <1>1 DEF Sound, Owned, Alive
<1> QED
  BY <1>1, <1>2, <1>3 DEF Sound

\* So does a reload, which drops the VM and its view.
LEMMA ReplacedSound ==
  ASSUME NEW m \in Nat, NEW p, NEW o, Sound(p, o, m)
  PROVE  Sound(Replaced(p), o \ {p.globals}, m)
<1> DEFINE q == Replaced(p)
           oo == o \ {p.globals}
<1>1. /\ q.globals = 0 /\ q.hotReloadGlobals = p.hotReloadGlobals
      /\ q.mLuaView = 0 /\ q.hotReloadLuaView = p.hotReloadLuaView
      /\ q \in Pages(m) /\ oo \subseteq 1 .. m
  <2>1. p \in Pages(m) /\ o \subseteq 1 .. m
    BY DEF Sound
  <2>2. 0 \in 0 .. m
    OBVIOUS
  <2>3. oo \subseteq 1 .. m
    BY <2>1
  <2> QED
    BY <2>1, <2>2, <2>3 DEF Pages, Replaced
<1>2. Owned(q, oo)
  BY <1>1 DEF Sound, Owned, Pages
<1>3. Alive(q, oo)
  BY <1>1 DEF Sound, Owned, Alive
<1> QED
  BY <1>1, <1>2, <1>3 DEF Sound

\* A callback that shows the view.
LEMMA BundleSound ==
  ASSUME NEW m \in Nat, NEW bits \in SUBSET Bits, NEW p, NEW o, Sound(p, o, m),
         running \in 0 .. m, crash \in Crashes, Bundle(bits, p, o)
  PROVE  /\ Sound(page', open', m) /\ mState' \in SUBSET Bits
         /\ running' \in 0 .. m /\ crash' \in Crashes /\ noView' \in BOOLEAN
         /\ ~p.luaViewManager /\ ~p.hotReloadLuaViewManager
              => page' = p /\ open' = o /\ running' = running
<1> DEFINE vm  == IF Aside(bits) THEN p.hotReloadGlobals ELSE p.globals
           lvm == IF Aside(bits) THEN p.hotReloadLuaViewManager ELSE p.luaViewManager
<1>1. mState' = bits /\ open' = o
  BY DEF Bundle
<1>2. CASE page' = p /\ UNCHANGED <<running, crash>> /\ noView' = ~isDestroy(bits)
  BY <1>1, <1>2
<1>3. CASE /\ ~isDestroy(bits) /\ lvm /\ vm = 0
           /\ crash' = "load" /\ noView' = FALSE
           /\ page' = p /\ UNCHANGED running
  BY <1>1, <1>3 DEF Crashes
<1>4. CASE /\ ~isDestroy(bits) /\ lvm /\ vm \in o
           /\ running' = vm /\ noView' = FALSE
           /\ page' = IF Aside(bits) THEN [p EXCEPT !.hotReloadLuaView = vm]
                                     ELSE [p EXCEPT !.mLuaView = vm]
           /\ UNCHANGED crash
  <2>1. vm \in o /\ vm \in 0 .. m /\ vm # 0
    BY <1>4 DEF Sound, Pages
  <2>2. Sound(page', o, m)
    <3>1. CASE Aside(bits)
      BY <1>4, <2>1, <3>1 DEF Sound, Pages, Owned, Alive
    <3>2. CASE ~Aside(bits)
      BY <1>4, <2>1, <3>2 DEF Sound, Pages, Owned, Alive
    <3> QED
      BY <3>1, <3>2
  <2> QED
    BY <1>1, <1>4, <2>1, <2>2
<1>5. noView' \in BOOLEAN
  BY DEF Bundle, isDestroy
<1>6. \/ page' = p /\ UNCHANGED <<running, crash>> /\ noView' = ~isDestroy(bits)
      \/ /\ ~isDestroy(bits) /\ lvm /\ vm = 0
         /\ crash' = "load" /\ noView' = FALSE
         /\ page' = p /\ UNCHANGED running
      \/ /\ ~isDestroy(bits) /\ lvm /\ vm \in o
         /\ running' = vm /\ noView' = FALSE
         /\ page' = IF Aside(bits) THEN [p EXCEPT !.hotReloadLuaView = vm]
                                   ELSE [p EXCEPT !.mLuaView = vm]
         /\ UNCHANGED crash
  BY DEF Bundle
<1> HIDE DEF vm, lvm
<1> QED
  BY <1>2, <1>3, <1>4, <1>5, <1>6

\* So does a script that was not found, for a page that was destroyed too.
LEMMA LoadFailedSound ==
  ASSUME NEW m \in Nat, NEW bits \in SUBSET Bits, NEW p, NEW o, Sound(p, o, m),
         crash \in Crashes, LoadFailed(bits, p, o)
  PROVE  /\ Sound(page', open', m) /\ mState' \in SUBSET Bits /\ crash' \in Crashes
         /\ Dead(p, o) => Dead(page', open')
<1>1. p \in Pages(m)
  BY DEF Sound
<1>2. mState' \in SUBSET Bits /\ crash' \in Crashes
  BY DEF LoadFailed, Crashes
<1>3. \/ page' = p /\ open' = o
      \/ page' = DropAside(p) /\ open' = o \ {p.hotReloadGlobals}
  BY DEF LoadFailed
<1> QED
  BY <1>1, <1>2, <1>3, DropAsideSound, DropAsideDead

TaskRecord == [at : {"free", "fetch", "read1", "write1", "read2", "write2", "post"},
               bits : SUBSET Bits, found : BOOLEAN]

\* A VM that is made is newer than the page's others.
LEMMA MadeSound ==
  ASSUME NEW m \in Nat, NEW p, NEW o, Sound(p, o, m)
  PROVE  /\ Sound(p, o, m + 1)
         /\ p.globals = 0 => Sound([p EXCEPT !.globals = m + 1], o \cup {m + 1}, m + 1)
         /\ p.hotReloadGlobals = 0
              => Sound([p EXCEPT !.hotReloadGlobals = m + 1], o \cup {m + 1}, m + 1)
<1>1. p \in Pages(m) /\ o \subseteq 1 .. m /\ Owned(p, o) /\ Alive(p, o)
  BY DEF Sound
<1>2. 0 .. m \subseteq 0 .. (m + 1) /\ o \subseteq 1 .. (m + 1) /\ m + 1 \in 0 .. (m + 1)
      /\ m + 1 \in 1 .. (m + 1) /\ m + 1 \in Nat /\ m + 1 # 0
  BY <1>1
<1>3. p \in Pages(m + 1)
  BY <1>1, <1>2 DEF Pages
<1>4. Sound(p, o, m + 1)
  BY <1>1, <1>2, <1>3 DEF Sound
<1>5. p.globals < m + 1 /\ p.hotReloadGlobals < m + 1
  BY <1>1 DEF Pages
<1>6. ASSUME p.globals = 0
      PROVE  Sound([p EXCEPT !.globals = m + 1], o \cup {m + 1}, m + 1)
  <2> DEFINE q == [p EXCEPT !.globals = m + 1]
  <2>1. /\ q.globals = m + 1 /\ q.hotReloadGlobals = p.hotReloadGlobals
        /\ q.mLuaView = p.mLuaView /\ q.hotReloadLuaView = p.hotReloadLuaView
        /\ q \in Pages(m + 1)
    BY <1>2, <1>3 DEF Pages
  <2>2. Owned(q, o \cup {m + 1})
    BY <1>1, <1>5, <1>6, <2>1 DEF Owned
  <2>3. Alive(q, o \cup {m + 1})
    BY <1>1, <1>6, <2>1 DEF Alive
  <2> QED
    BY <1>2, <2>1, <2>2, <2>3 DEF Sound
<1>7. ASSUME p.hotReloadGlobals = 0
      PROVE  Sound([p EXCEPT !.hotReloadGlobals = m + 1], o \cup {m + 1}, m + 1)
  <2> DEFINE q == [p EXCEPT !.hotReloadGlobals = m + 1]
  <2>1. /\ q.hotReloadGlobals = m + 1 /\ q.globals = p.globals
        /\ q.mLuaView = p.mLuaView /\ q.hotReloadLuaView = p.hotReloadLuaView
        /\ q \in Pages(m + 1)
    BY <1>2, <1>3 DEF Pages
  <2>2. Owned(q, o \cup {m + 1})
    BY <1>1, <1>5, <1>7, <2>1 DEF Owned
  <2>3. Alive(q, o \cup {m + 1})
    BY <1>1, <1>7, <2>1 DEF Alive
  <2> QED
    BY <1>2, <2>1, <2>2, <2>3 DEF Sound
<1> QED
  BY <1>4, <1>6, <1>7

\* So does loadScript, whichever of its ways it takes.
LEMMA LoadScriptSound ==
  ASSUME made \in Nat, NEW bits \in SUBSET Bits, NEW p, NEW o, Sound(p, o, made),
         running \in 0 .. made, crash \in Crashes, task \in [Tasks -> TaskRecord],
         noView \in BOOLEAN, LoadScript(bits, p, o)
  PROVE  /\ Sound(page', open', made') /\ mState' \in SUBSET Bits
         /\ made' \in Nat /\ running' \in 0 .. made' /\ crash' \in Crashes
         /\ task' \in [Tasks -> TaskRecord] /\ noView' \in BOOLEAN
         /\ ~p.initData => page' = p /\ open' = o /\ running' = running
<1>1. CASE ~p.initData \/ "SCRIPT_LOADING" \in bits \/ isDestroy(bits)
  BY <1>1 DEF LoadScript
<1>2. CASE ~(~p.initData \/ "SCRIPT_LOADING" \in bits \/ isDestroy(bits))
  <2> DEFINE vm  == IF Aside(bits) THEN p.hotReloadGlobals ELSE p.globals
             next == made + 1
             q   == IF vm # 0 THEN p
                    ELSE IF Aside(bits) THEN [p EXCEPT !.hotReloadGlobals = next]
                                        ELSE [p EXCEPT !.globals = next]
             oo  == IF vm # 0 THEN o ELSE o \cup {next}
             loading == bits \cup {"SCRIPT_LOADING"}
             failed == (loading \cup {"ERROR"}) \ {"SCRIPT_LOADING"}
  <2>1. /\ initGlobals(vm)
        /\ \/ Bundle(loading, q, oo) /\ UNCHANGED task
           \/ /\ IF q.globals = 0 \/ q.globals \notin oo
                   THEN mState' = loading /\ page' = q /\ open' = oo /\ UNCHANGED crash
                   ELSE LoadFailed(failed, q, oo)
              /\ noView' = FALSE /\ UNCHANGED <<running, task>>
           \/ /\ mState' = loading /\ page' = q /\ open' = oo /\ noView' = FALSE
              /\ \E t \in Tasks : /\ task[t].at = "free"
                                  /\ task' = [task EXCEPT ![t].at = "fetch"]
              /\ UNCHANGED <<running, crash>>
    BY <1>2 DEF LoadScript
  <2>2. made' = (IF vm = 0 THEN made + 1 ELSE made) /\ made' \in Nat
    BY <2>1 DEF initGlobals
  <2>3. Sound(q, oo, made')
    BY <2>2, MadeSound
  <2>4. running \in 0 .. made'
    BY <2>2
  <2>5. loading \in SUBSET Bits /\ failed \in SUBSET Bits
    BY DEF Bits
  <2> HIDE DEF q, oo, vm, loading, failed
  <2>6. CASE Bundle(loading, q, oo) /\ UNCHANGED task
    BY <1>2, <2>2, <2>3, <2>4, <2>5, <2>6, BundleSound
  <2>7. CASE /\ IF q.globals = 0 \/ q.globals \notin oo
                  THEN mState' = loading /\ page' = q /\ open' = oo /\ UNCHANGED crash
                  ELSE LoadFailed(failed, q, oo)
             /\ noView' = FALSE /\ UNCHANGED <<running, task>>
    <3>1. CASE mState' = loading /\ page' = q /\ open' = oo /\ UNCHANGED crash
      BY <1>2, <2>2, <2>3, <2>4, <2>5, <2>7, <3>1
    <3>2. CASE LoadFailed(failed, q, oo)
      BY <1>2, <2>2, <2>3, <2>4, <2>5, <2>7, <3>2, LoadFailedSound
    <3> QED
      BY <2>7, <3>1, <3>2
  <2>8. CASE /\ mState' = loading /\ page' = q /\ open' = oo /\ noView' = FALSE
             /\ \E t \in Tasks : /\ task[t].at = "free"
                                 /\ task' = [task EXCEPT ![t].at = "fetch"]
             /\ UNCHANGED <<running, crash>>
    <3>1. task' \in [Tasks -> TaskRecord]
      BY <2>8 DEF TaskRecord
    <3> QED
      BY <1>2, <2>2, <2>3, <2>4, <2>5, <2>8, <3>1
  <2> QED
    BY <2>1, <2>6, <2>7, <2>8
<1> QED
  BY <1>1, <1>2

-------------------------------------------------------------------------------
(* The invariant.                                                          *)

\* TypeOK, with the page in Sound.
Types ==
  /\ mState \in SUBSET Bits /\ made \in Nat /\ running \in 0 .. made
  /\ looper \in Seq(Runnables) /\ task \in [Tasks -> TaskRecord]
  /\ callback \in BOOLEAN /\ imediatelyReload \in BOOLEAN /\ gone \in BOOLEAN
  /\ asked \in 0 .. MaxReloads /\ noView \in BOOLEAN /\ crash \in Crashes
Gone == gone => Dead(page, open) /\ running = 0
Parts == Types /\ Sound(page, open, made) /\ Gone

\* The invariant in the parts the steps are proved for.
LEMMA IInvParts == IInv <=> Parts
BY DEF IInv, Parts, Types, TypeOK, Sound, Pages, TaskRecord, Crashes, Gone

\* The parts hold of a page that was just made.
LEMMA InitParts == Init => Parts
<1> SUFFICES ASSUME Init PROVE Parts
  OBVIOUS
<1>1. Types
  <2>1. Free \in TaskRecord
    BY DEF Free, TaskRecord
  <2>2. task \in [Tasks -> TaskRecord] /\ looper \in Seq(Runnables)
    BY <2>1 DEF Init
  <2>3. made \in Nat /\ running \in 0 .. made /\ asked \in 0 .. MaxReloads
    BY DEF Init
  <2>4. mState \in SUBSET Bits /\ noView \in BOOLEAN /\ crash \in Crashes
    BY DEF Init, Crashes
  <2>5. callback \in BOOLEAN /\ imediatelyReload \in BOOLEAN /\ gone \in BOOLEAN
    BY DEF Init
  <2> QED
    BY <2>2, <2>3, <2>4, <2>5 DEF Types
<1>2. Sound(page, open, made)
  BY DEF Init, Sound, Pages, Owned, Alive
<1> QED
  BY <1>1, <1>2 DEF Parts, Gone, Init

\* A step of a background task changes bits, and posts.
LEMMA BackgroundParts ==
  ASSUME Parts, NEW t \in Tasks, Background(t)
  PROVE  Parts'
<1> USE DEF Parts, Types, Gone
<1>1. task[t] \in TaskRecord /\ Free \in TaskRecord
  BY DEF TaskRecord, Free
<1>2. UNCHANGED <<page, vms, running, outside, noView, crash>>
  BY DEF Background, Cancelled, Fetched, Read, Write, Post
<1>3. mState' \in SUBSET Bits
  BY <1>1 DEF Background, Cancelled, Fetched, Read, Write, Post, TaskRecord, Bits
<1>4. looper' \in Seq(Runnables)
  <2>1. looper' = looper \/ looper' = Append(looper, "bundle")
          \/ looper' = Append(looper, "loadFailed")
    BY DEF Background, Cancelled, Fetched, Read, Write, Post
  <2>2. "bundle" \in Runnables /\ "loadFailed" \in Runnables
    BY DEF Runnables
  <2> QED
    BY <2>1, <2>2
<1>5. task' \in [Tasks -> TaskRecord]
  <2>1. CASE Cancelled(t) \/ Post(t)
    BY <1>1, <2>1 DEF Cancelled, Post
  <2>2. CASE Fetched(t)
    <3>1. PICK found \in BOOLEAN :
            task' = [task EXCEPT ![t] =
              IF ~found /\ (page.globals = 0 \/ page.globals \notin open) THEN Free
              ELSE [at |-> "read1", bits |-> {}, found |-> found]]
      BY <2>2 DEF Fetched
    <3>2. [at |-> "read1", bits |-> {}, found |-> found] \in TaskRecord
      BY DEF TaskRecord
    <3> QED
      BY <1>1, <3>1, <3>2
  <2>3. CASE Read(t)
    BY <1>1, <2>3 DEF Read, TaskRecord
  <2>4. CASE Write(t)
    BY <1>1, <2>4 DEF Write, TaskRecord
  <2> QED
    BY <2>1, <2>2, <2>3, <2>4 DEF Background
<1> QED
  BY <1>2, <1>3, <1>4, <1>5 DEF vms, outside

\* The script that ran reports.
LEMMA ScriptParts ==
  ASSUME Parts, Script
  PROVE  Parts'
<1> USE DEF Parts, Types, Gone
<1>1. CASE Executed
  <2> DEFINE bits == (mState \ {"SCRIPT_LOADING"}) \cup {"SCRIPT_EXECUTED"}
  <2>1. /\ running # 0 /\ running' = 0 /\ callback' = TRUE
        /\ mState' = bits \ {"HOT_RELOADING"}
        /\ UNCHANGED <<made, task, imediatelyReload, gone, asked, noView>>
    BY <1>1 DEF Executed
  <2>2. \/ page' = Switched(page) /\ open' = open \ {page.globals}
        \/ page' = page /\ open' = open
    BY <1>1 DEF Executed
  <2>3. crash' \in Crashes
    BY <1>1 DEF Executed, Crashes
  <2>4. looper' = looper \/ looper' = Append(looper, "appear")
    BY <1>1 DEF Executed
  <2>5. looper' \in Seq(Runnables)
    BY <2>4 DEF Runnables
  <2>6. Sound(page', open', made)
    BY <2>2, SwitchedSound
  <2>7. mState' \in SUBSET Bits /\ ~gone
    BY <2>1 DEF Bits
  <2> QED
    BY <2>1, <2>3, <2>5, <2>6, <2>7
<1>2. CASE NotExecuted
  <2>1. looper' \in Seq(Runnables) /\ mState' \in SUBSET Bits
    BY <1>2 DEF NotExecuted, Runnables, Bits
  <2> QED
    BY <1>2, <2>1 DEF NotExecuted, vms
<1> QED
  BY <1>1, <1>2 DEF Script

\* What a runnable needs of the looper.
LEMMA TakeLooper ==
  ASSUME Types, NEW r, Take(r)
  PROVE  looper' \in Seq(Runnables) /\ running = 0 /\ crash = "no"
BY DEF Types, Take, MainFree

\* A runnable of the main thread keeps the parts.
LEMMA RunnableParts ==
  ASSUME Parts, Runnable
  PROVE  Parts'
<1> USE DEF Parts, Types, Gone
<1>1. CASE RunLoad
  <2>1. /\ Take("load") /\ LoadScript(mState, page, open) /\ UNCHANGED outside
    BY <1>1 DEF RunLoad
  <2>2. gone => ~page.initData
    BY DEF Dead
  <2> QED
    BY <2>1, <2>2, TakeLooper, LoadScriptSound DEF outside
<1>2. CASE RunBundle
  <2>1. Take("bundle") /\ Bundle(mState, page, open) /\ UNCHANGED <<made, task, outside>>
    BY <1>2 DEF RunBundle
  <2>2. gone => ~page.luaViewManager /\ ~page.hotReloadLuaViewManager
    BY DEF Dead
  <2> QED
    BY <2>1, <2>2, TakeLooper, BundleSound DEF outside
<1>3. CASE RunLoadFailed
  <2>1. /\ Take("loadFailed") /\ LoadFailed(mState, page, open)
        /\ UNCHANGED <<made, running, task, outside, noView>>
    BY <1>3 DEF RunLoadFailed
  <2> QED
    BY <2>1, TakeLooper, LoadFailedSound DEF outside
<1>4. CASE RunFailed
  <2>1. Take("failed") /\ UNCHANGED <<made, running, task, outside, noView>>
    BY <1>4 DEF RunFailed
  <2>2. mState' \in SUBSET Bits /\ crash' \in Crashes
    BY <1>4 DEF RunFailed, Bits, Crashes
  <2>3. \/ page' = DropAside(page) /\ open' = open \ {page.hotReloadGlobals}
        \/ page' = page /\ open' = open
    BY <1>4 DEF RunFailed, Destroy
  <2>4. Sound(page', open', made) /\ (Dead(page, open) => Dead(page', open'))
    <3>1. page \in Pages(made)
      BY DEF Sound
    <3> QED
      BY <2>3, <3>1, DropAsideSound, DropAsideDead
  <2> QED
    BY <2>1, <2>2, <2>4, TakeLooper DEF outside
<1>5. CASE RunAppear
  <2>1. Take("appear") /\ UNCHANGED <<mState, page, vms, running, task, outside, noView>>
    BY <1>5 DEF RunAppear
  <2>2. crash' \in Crashes
    BY <1>5 DEF RunAppear, Crashes
  <2> QED
    BY <2>1, <2>2, TakeLooper DEF vms, outside
<1>6. CASE RunReload
  <2>1. Take("reload") /\ UNCHANGED outside
    BY <1>6 DEF RunReload
  <2>2. looper' \in Seq(Runnables)
    BY <2>1, TakeLooper
  <2>3. CASE ~page.initData
    <3>1. crash' = "reload" /\ UNCHANGED <<mState, page, vms, running, task, noView>>
      BY <1>6, <2>3 DEF RunReload
    <3> QED
      BY <2>1, <2>2, <3>1 DEF vms, outside, Crashes
  <2>4. CASE page.initData /\ UNCHANGED <<mState, page, vms, running, task, noView, crash>>
    BY <2>1, <2>2, <2>4 DEF vms, outside
  <2>5. CASE /\ page.initData
             /\ LoadScript(mState \cup {"HOT_RELOADING", "HOT_RELOAD_IMEDIATELY"},
                           Replaced(page), open \ {page.globals})
    <3>1. Sound(Replaced(page), open \ {page.globals}, made)
      BY ReplacedSound
    <3>2. mState \cup {"HOT_RELOADING", "HOT_RELOAD_IMEDIATELY"} \in SUBSET Bits
      BY DEF Bits
    <3>3. ~gone
      BY <2>5 DEF Dead
    <3> QED
      BY <2>1, <2>2, <2>5, <3>1, <3>2, <3>3, LoadScriptSound DEF outside
  <2>6. CASE /\ page.initData
             /\ LoadScript(mState \cup {"HOT_RELOADING"},
                           [page EXCEPT !.hotReloadLuaViewManager = TRUE], open)
    <3>1. Sound([page EXCEPT !.hotReloadLuaViewManager = TRUE], open, made)
      BY DEF Sound, Pages, Owned, Alive
    <3>2. mState \cup {"HOT_RELOADING"} \in SUBSET Bits
      BY DEF Bits
    <3>3. ~gone
      BY <2>6 DEF Dead
    <3> QED
      BY <2>1, <2>2, <2>6, <3>1, <3>2, <3>3, LoadScriptSound DEF outside
  <2> QED
    BY <1>6, <2>3, <2>4, <2>5, <2>6 DEF RunReload
<1> QED
  BY <1>1, <1>2, <1>3, <1>4, <1>5, <1>6 DEF Runnable

\* What the Activity, the user and the plugin do.
LEMMA OutsideParts ==
  ASSUME Parts,
         SetData \/ OnResume \/ OnPause \/ SetImediately \/ OnDestroy \/ Reload \/ OnReload
  PROVE  Parts'
<1> USE DEF Parts, Types, Gone
<1>1. CASE SetData
  <2> DEFINE p == [page EXCEPT !.initData = TRUE]
  <2>1. Sound(p, open, made)
    BY DEF Sound, Pages, Owned, Alive
  <2>2. ~gone /\ UNCHANGED outside
    BY <1>1 DEF SetData
  <2>3. CASE page' = p /\ looper' = Append(looper, "load")
             /\ UNCHANGED <<mState, vms, running, task, noView, crash>>
    <3>1. looper' \in Seq(Runnables)
      BY <2>3 DEF Runnables
    <3> QED
      BY <2>1, <2>2, <2>3, <3>1 DEF vms, outside
  <2>4. CASE LoadScript(mState, p, open) /\ UNCHANGED looper
    <3> HIDE DEF p
    <3> QED
      BY <2>1, <2>2, <2>4, LoadScriptSound DEF outside
  <2> QED
    BY <1>1, <2>3, <2>4 DEF SetData
<1>2. CASE OnResume \/ OnPause \/ SetImediately
  <2>1. /\ UNCHANGED <<page, vms, running, looper, task, gone, asked, noView, crash>>
        /\ callback' \in BOOLEAN /\ imediatelyReload' \in BOOLEAN
    BY <1>2 DEF OnResume, OnPause, SetImediately
  <2>2. mState' \in SUBSET Bits
    BY <1>2 DEF OnResume, OnPause, SetImediately, Bits
  <2> QED
    BY <2>1, <2>2 DEF vms
<1>3. CASE OnDestroy
  <2>1. running = 0 /\ crash = "no"
    BY <1>3 DEF OnDestroy, MainFree
  <2>2. /\ gone' = TRUE /\ callback' = FALSE /\ mState' = {"DESTROY"}
        /\ open' = open \ {page.globals, page.hotReloadGlobals}
        /\ UNCHANGED <<made, running, looper, task, imediatelyReload, asked, noView, crash>>
    BY <1>3 DEF OnDestroy
  <2>3. /\ page' \in Pages(made) /\ Dead(page', {})
        /\ page'.globals = page.globals /\ page'.hotReloadGlobals = page.hotReloadGlobals
    <3>1. page \in Pages(made)
      BY DEF Sound
    <3>2. 0 \in 0 .. made
      OBVIOUS
    <3> QED
      BY <1>3, <3>1, <3>2 DEF OnDestroy, Pages, Dead
  <2>4. open' = {}
    BY <2>2 DEF Sound, Owned
  <2>5. Sound(page', open', made)
    BY <2>3, <2>4 DEF Sound, Owned, Alive, Dead
  <2>6. mState' \in SUBSET Bits
    BY <2>2 DEF Bits
  <2> QED
    BY <2>1, <2>2, <2>3, <2>4, <2>5, <2>6
<1>4. CASE Reload
  <2>1. /\ ~gone /\ asked < MaxReloads /\ asked' = asked + 1
        /\ LoadScript({"RESUME"}, Replaced(page), open \ {page.globals})
        /\ UNCHANGED <<looper, callback, imediatelyReload, gone>>
    BY <1>4 DEF Reload
  <2>2. Sound(Replaced(page), open \ {page.globals}, made)
    BY ReplacedSound
  <2>3. {"RESUME"} \in SUBSET Bits
    BY DEF Bits
  <2>4. asked' \in 0 .. MaxReloads
    BY <2>1
  <2> QED
    BY <2>1, <2>2, <2>3, <2>4, LoadScriptSound
<1>5. CASE OnReload
  <2>1. /\ asked < MaxReloads /\ asked' = asked + 1
        /\ UNCHANGED <<mState, page, vms, running, task, imediatelyReload, gone, noView, crash>>
    BY <1>5 DEF OnReload
  <2>2. looper' \in Seq(Runnables) /\ callback' \in BOOLEAN
    <3>1. looper' = Append(looper, "reload") \/ looper' = looper
      BY <1>5 DEF OnReload
    <3>2. looper' \in Seq(Runnables)
      BY <3>1 DEF Runnables
    <3>3. callback' \in BOOLEAN
      BY <1>5 DEF OnReload
    <3> QED
      BY <3>2, <3>3
  <2>3. asked' \in 0 .. MaxReloads
    BY <2>1
  <2> QED
    BY <2>1, <2>2, <2>3 DEF vms
<1> QED
  BY <1>1, <1>2, <1>3, <1>4, <1>5

\* Every step keeps the parts.
LEMMA NextParts ==
  ASSUME Parts, [Next]_vars
  PROVE  Parts'
<1>1. CASE Next
  BY <1>1, BackgroundParts, ScriptParts, RunnableParts, OutsideParts DEF Next
<1>2. CASE UNCHANGED vars
  BY <1>2 DEF vars, vms, outside, Parts, Types, Gone
<1> QED
  BY <1>1, <1>2

\* The invariant holds in every behaviour of a page.
THEOREM Invariance == Spec => []IInv
<1>1. Init => IInv
  BY InitParts, IInvParts
<1>2. IInv /\ [Next]_vars => IInv'
  <2>1. Parts' => IInv'
    BY IInvParts, PTL
  <2> QED
    BY <2>1, IInvParts, NextParts
<1> QED
  BY <1>1, <1>2, PTL DEF Spec

-------------------------------------------------------------------------------
(* The properties.                                                         *)

\* The state of a page has the types it is declared with; a page's fields
\* name only VMs that were made.
THEOREM TypeCorrect == Spec => []TypeOK
<1>1. IInv => TypeOK
  BY DEF IInv
<1> QED
  BY <1>1, Invariance, PTL

\* An open VM is one of the page's two, for any number of reloads and fetches
\* and any order of their ends: onDestroy destroys it.
THEOREM VMsAreOwned == Spec => []NoVMLeaks
<1>1. IInv => NoVMLeaks
  BY DEF IInv, Sound, Owned, NoVMLeaks
<1> QED
  BY <1>1, Invariance, PTL

\* A page that was destroyed has no VM, no view and no script, and gets none.
THEOREM GoneIsGone == Spec => []GoneForGood
<1>1. IInv => GoneForGood
  BY DEF IInv, Dead, GoneForGood
<1> QED
  BY <1>1, Invariance, PTL

\* The view that is shown runs in the page's VM, and that VM is open.
THEOREM ShownAlive == Spec => []ShownIsAlive
<1>1. IInv => ShownIsAlive
  BY DEF IInv, Sound, Alive, ShownIsAlive
<1> QED
  BY <1>1, Invariance, PTL

-------------------------------------------------------------------------------
(* A page whose scripts are all there.                                     *)

\* No background task is under way: every script was found or missed at once.
AllFree == \A t \in Tasks : task[t].at = "free"

FailedPosted == \E i \in DOMAIN looper : looper[i] = "failed"

\* ... and none has posted.
NothingFetched == \A i \in DOMAIN looper : looper[i] \notin {"bundle", "loadFailed"}

\* What the bits promise of a page in use: the VMs they stand for are there,
\* and something is under way that clears the ones that mark work.
InUse(bits, p, o, run, posted) ==
  /\ ~isDestroy(bits) /\ p.luaViewManager
  /\ p.globals # 0 => p.globals \in o /\ p.initData
  /\ p.hotReloadGlobals # 0 => p.hotReloadGlobals \in o
  /\ p.globals = 0 => /\ run = 0 /\ ~posted
                      /\ bits \cap {"SCRIPT_EXECUTED", "ERROR", "HOT_RELOADING"} = {}
  /\ Aside(bits) => p.hotReloadGlobals # 0 /\ p.hotReloadLuaViewManager
  /\ "SCRIPT_LOADING" \in bits => run # 0
  /\ "HOT_RELOADING" \in bits => run # 0 \/ posted

\* What they promise after a load that was left without a view: it counts as
\* under way, so none is begun.
Left(bits, p, o, run) ==
  /\ ~isDestroy(bits) /\ p.luaViewManager /\ p.initData
  /\ p.globals # 0 => p.globals \in o
  /\ p.hotReloadGlobals # 0 => p.hotReloadGlobals \in o
  /\ run = 0 /\ "SCRIPT_LOADING" \in bits

Promise(bits, p, o, run, posted, left) ==
  /\ ~left => InUse(bits, p, o, run, posted)
  /\ left => Left(bits, p, o, run)

Local ==
  /\ NothingFetched
  /\ gone => mState \subseteq {"DESTROY", "SCRIPT_EXECUTED"} /\ isDestroy(mState)
  /\ ~gone /\ crash = "no"
       => Promise(mState, page, open, running, FailedPosted, noView)

\* The looper loses its head; posting adds at its end.
LEMMA LooperFailed ==
  ASSUME looper \in Seq(Runnables), NEW r
  PROVE  /\ Take(r) /\ r # "failed" => (FailedPosted' <=> FailedPosted)
         /\ Take("failed") => FailedPosted /\ (FailedPosted' => FailedPosted)
         /\ r \in Runnables /\ looper' = Append(looper, r)
              => (FailedPosted' <=> FailedPosted \/ r = "failed")
<1>1. ASSUME looper # <<>>
      PROVE  /\ Head(looper) = looper[1] /\ 1 \in DOMAIN looper
             /\ \A i \in DOMAIN Tail(looper) : /\ i + 1 \in DOMAIN looper
                                               /\ Tail(looper)[i] = looper[i + 1]
             /\ \A i \in DOMAIN looper : i # 1 => /\ i - 1 \in DOMAIN Tail(looper)
                                                  /\ Tail(looper)[i - 1] = looper[i]
  <2>1. /\ Len(looper) \in Nat \ {0} /\ DOMAIN looper = 1 .. Len(looper)
        /\ Head(looper) = looper[1] /\ Tail(looper) \in Seq(Runnables)
        /\ Len(Tail(looper)) = Len(looper) - 1
        /\ \A i \in 1 .. Len(Tail(looper)) : Tail(looper)[i] = looper[i+1]
    BY <1>1, HeadTailProperties, LenProperties, EmptySeq
  <2>2. DOMAIN Tail(looper) = 1 .. (Len(looper) - 1)
    BY <2>1, LenProperties
  <2>3. \A i \in 1 .. Len(looper) : i # 1 => i - 1 \in 1 .. (Len(looper) - 1) /\ (i - 1) + 1 = i
    BY <2>1
  <2> QED
    BY <2>1, <2>2, <2>3
<1>2. ASSUME Take(r), r # "failed"
      PROVE  FailedPosted' <=> FailedPosted
  <2>1. looper # <<>> /\ Head(looper) = r /\ looper' = Tail(looper)
    BY <1>2 DEF Take
  <2>2. looper[1] # "failed"
    BY <1>1, <1>2, <2>1
  <2>3. ASSUME FailedPosted PROVE FailedPosted'
    <3>1. PICK i \in DOMAIN looper : looper[i] = "failed"
      BY <2>3 DEF FailedPosted
    <3>2. i - 1 \in DOMAIN Tail(looper) /\ Tail(looper)[i - 1] = "failed"
      BY <1>1, <2>1, <2>2, <3>1
    <3> QED
      BY <2>1, <3>2 DEF FailedPosted
  <2>4. FailedPosted' => FailedPosted
    BY <1>1, <2>1 DEF FailedPosted
  <2> QED
    BY <2>3, <2>4
<1>3. ASSUME Take("failed")
      PROVE  FailedPosted /\ (FailedPosted' => FailedPosted)
  <2>1. looper # <<>> /\ Head(looper) = "failed"
    BY <1>3 DEF Take
  <2> QED
    BY <1>1, <2>1 DEF FailedPosted
<1>4. ASSUME r \in Runnables, looper' = Append(looper, r)
      PROVE  FailedPosted' <=> FailedPosted \/ r = "failed"
  <2>1. /\ Len(looper) \in Nat /\ DOMAIN looper = 1 .. Len(looper)
        /\ DOMAIN looper' = 1 .. (Len(looper) + 1)
        /\ \A i \in 1 .. Len(looper) : looper'[i] = looper[i]
        /\ looper'[Len(looper) + 1] = r
    BY <1>4, AppendProperties, LenProperties
  <2>2. \A i : i \in 1 .. (Len(looper) + 1) <=> i \in 1 .. Len(looper) \/ i = Len(looper) + 1
    BY <2>1
  <2> QED
    BY <2>1, <2>2, Zenon DEF FailedPosted
<1> QED
  BY <1>2, <1>3, <1>4

\* The main thread posts none of a background task's runnables.
LEMMA LooperFetched ==
  ASSUME looper \in Seq(Runnables), NothingFetched, NEW r
  PROVE  /\ Take(r) => NothingFetched' /\ r \notin {"bundle", "loadFailed"}
         /\ r \in Runnables \ {"bundle", "loadFailed"} /\ looper' = Append(looper, r)
              => NothingFetched'
<1>1. ASSUME Take(r)
      PROVE  NothingFetched' /\ r \notin {"bundle", "loadFailed"}
  <2>1. looper # <<>> /\ Head(looper) = r /\ looper' = Tail(looper)
    BY <1>1 DEF Take
  <2>2. /\ Len(looper) \in Nat \ {0} /\ DOMAIN looper = 1 .. Len(looper)
        /\ Head(looper) = looper[1] /\ Tail(looper) \in Seq(Runnables)
        /\ Len(Tail(looper)) = Len(looper) - 1
        /\ \A i \in 1 .. Len(Tail(looper)) : Tail(looper)[i] = looper[i+1]
    BY <2>1, HeadTailProperties, LenProperties, EmptySeq
  <2>3. DOMAIN Tail(looper) = 1 .. (Len(looper) - 1)
    BY <2>2, LenProperties
  <2>4. \A i \in 1 .. (Len(looper) - 1) : i + 1 \in 1 .. Len(looper)
    BY <2>2
  <2>5. 1 \in DOMAIN looper
    BY <2>2
  <2> QED
    BY <2>1, <2>2, <2>3, <2>4, <2>5 DEF NothingFetched
<1>2. ASSUME r \in Runnables \ {"bundle", "loadFailed"}, looper' = Append(looper, r)
      PROVE  NothingFetched'
  <2>1. /\ Len(looper) \in Nat /\ DOMAIN looper = 1 .. Len(looper)
        /\ DOMAIN looper' = 1 .. (Len(looper) + 1)
        /\ \A i \in 1 .. Len(looper) : looper'[i] = looper[i]
        /\ looper'[Len(looper) + 1] = r
    BY <1>2, AppendProperties, LenProperties
  <2>2. \A i : i \in 1 .. (Len(looper) + 1) <=> i \in 1 .. Len(looper) \/ i = Len(looper) + 1
    BY <2>1
  <2> QED
    BY <1>2, <2>1, <2>2, Zenon DEF NothingFetched
<1> QED
  BY <1>1, <1>2

\* A script that was not found ends the reload that asked for it.
LEMMA LoadFailedLocal ==
  ASSUME NEW bits, NEW p, NEW o, NEW posted \in BOOLEAN, NEW m \in Nat, Sound(p, o, m),
         running = 0, ~isDestroy(bits), "SCRIPT_LOADING" \notin bits, p.luaViewManager,
         p.globals # 0 => p.globals \in o /\ p.initData,
         p.hotReloadGlobals # 0 => p.hotReloadGlobals \in o,
         p.globals = 0 => /\ ~posted
                          /\ bits \cap {"SCRIPT_EXECUTED", "ERROR", "HOT_RELOADING"} = {},
         LoadFailed(bits, p, o), UNCHANGED running
  PROVE  InUse(mState', page', open', running', posted)
<1>1. mState' = bits \ {"HOT_RELOADING"} /\ running' = 0
  BY DEF LoadFailed
<1>2. /\ ~isDestroy(mState') /\ ~Aside(mState')
      /\ "SCRIPT_LOADING" \notin mState' /\ "HOT_RELOADING" \notin mState'
      /\ p.globals = 0 => mState' \cap {"SCRIPT_EXECUTED", "ERROR", "HOT_RELOADING"} = {}
  BY <1>1 DEF isDestroy, Aside
<1>3. p \in Pages(m) /\ (p.hotReloadGlobals = p.globals => p.globals = 0)
  BY DEF Sound, Owned
<1>4. \/ page' = p /\ open' = o
      \/ page' = DropAside(p) /\ open' = o \ {p.hotReloadGlobals}
  BY DEF LoadFailed
<1>5. /\ page'.globals = p.globals /\ page'.luaViewManager
      /\ page'.globals # 0 => page'.globals \in open' /\ page'.initData
      /\ page'.hotReloadGlobals # 0 => page'.hotReloadGlobals \in open'
  <2>1. CASE page' = p /\ open' = o
    BY <2>1
  <2>2. CASE page' = DropAside(p) /\ open' = o \ {p.hotReloadGlobals}
    <3>1. /\ page'.globals = p.globals /\ page'.hotReloadGlobals = 0
          /\ page'.initData = p.initData /\ page'.luaViewManager = p.luaViewManager
      BY <1>3, <2>2 DEF DropAside, Pages
    <3> QED
      BY <1>3, <2>2, <3>1
  <2> QED
    BY <1>4, <2>1, <2>2
<1> QED
  BY <1>1, <1>2, <1>5 DEF InUse

\* loadScript of a page in use, whose script is there or missed, starts the
\* script, ends the reload or is left without a view.
LEMMA LoadScriptLocal ==
  ASSUME NEW bits, NEW p, NEW o, NEW posted \in BOOLEAN,
         made \in Nat, Sound(p, o, made), AllFree', task \in [Tasks -> TaskRecord],
         crash = "no", running = 0,
         p.initData, ~isDestroy(bits), "SCRIPT_LOADING" \notin bits, p.luaViewManager,
         p.globals # 0 => p.globals \in o,
         p.hotReloadGlobals # 0 => p.hotReloadGlobals \in o,
         Aside(bits) => p.globals # 0 /\ p.hotReloadLuaViewManager,
         LoadScript(bits, p, o)
  PROVE  crash' = "no" => Promise(mState', page', open', running', posted, noView')
<1> DEFINE vm  == IF Aside(bits) THEN p.hotReloadGlobals ELSE p.globals
           next == made + 1
           q   == IF vm # 0 THEN p
                  ELSE IF Aside(bits) THEN [p EXCEPT !.hotReloadGlobals = next]
                                      ELSE [p EXCEPT !.globals = next]
           oo  == IF vm # 0 THEN o ELSE o \cup {next}
           loading == bits \cup {"SCRIPT_LOADING"}
           failed == (loading \cup {"ERROR"}) \ {"SCRIPT_LOADING"}
<1>1. /\ initGlobals(vm)
      /\ \/ Bundle(loading, q, oo) /\ UNCHANGED task
         \/ /\ IF q.globals = 0 \/ q.globals \notin oo
                 THEN mState' = loading /\ page' = q /\ open' = oo /\ UNCHANGED crash
                 ELSE LoadFailed(failed, q, oo)
            /\ noView' = FALSE /\ UNCHANGED <<running, task>>
         \/ /\ mState' = loading /\ page' = q /\ open' = oo /\ noView' = FALSE
            /\ \E t \in Tasks : /\ task[t].at = "free"
                                /\ task' = [task EXCEPT ![t].at = "fetch"]
            /\ UNCHANGED <<running, crash>>
  BY DEF LoadScript
<1>2. made' = (IF vm = 0 THEN made + 1 ELSE made) /\ made' \in Nat
  BY <1>1 DEF initGlobals
<1>3. Sound(q, oo, made')
  BY <1>2, MadeSound
<1>4. /\ p \in Pages(made) /\ next # 0 /\ next \in o \cup {next}
  BY DEF Sound
<1>5. /\ q.initData /\ q.luaViewManager /\ q.hotReloadLuaViewManager = p.hotReloadLuaViewManager
      /\ q.globals # 0 /\ q.globals \in oo
      /\ q.hotReloadGlobals # 0 => q.hotReloadGlobals \in oo
      /\ Aside(bits) => q.hotReloadGlobals # 0
  <2>1. CASE vm # 0
    <3>1. q = p /\ oo = o
      BY <2>1
    <3>2. Aside(bits) => p.hotReloadGlobals # 0
      BY <2>1
    <3>3. p.globals # 0
      BY <2>1
    <3> HIDE DEF q, oo, vm
    <3> QED
      BY <3>1, <3>2, <3>3
  <2>2. CASE vm = 0 /\ Aside(bits)
    <3>1. q = [p EXCEPT !.hotReloadGlobals = next] /\ oo = o \cup {next}
      BY <2>2
    <3>2. /\ q.hotReloadGlobals = next /\ q.globals = p.globals /\ q.initData = p.initData
          /\ q.luaViewManager = p.luaViewManager
          /\ q.hotReloadLuaViewManager = p.hotReloadLuaViewManager
      BY <1>4, <3>1 DEF Pages
    <3> HIDE DEF q, oo, vm, next
    <3> QED
      BY <1>4, <2>2, <3>1, <3>2
  <2>3. CASE vm = 0 /\ ~Aside(bits)
    <3>1. q = [p EXCEPT !.globals = next] /\ oo = o \cup {next}
      BY <2>3
    <3>2. /\ q.globals = next /\ q.hotReloadGlobals = p.hotReloadGlobals
          /\ q.initData = p.initData
          /\ q.luaViewManager = p.luaViewManager
          /\ q.hotReloadLuaViewManager = p.hotReloadLuaViewManager
      BY <1>4, <3>1 DEF Pages
    <3> HIDE DEF q, oo, vm, next
    <3> QED
      BY <1>4, <2>3, <3>1, <3>2
  <2> QED
    BY <2>1, <2>2, <2>3
<1>6. /\ ~isDestroy(loading) /\ ~isDestroy(failed)
      /\ Aside(loading) <=> Aside(bits)
      /\ Aside(failed) <=> Aside(bits)
      /\ "SCRIPT_LOADING" \notin failed /\ "SCRIPT_LOADING" \in loading
  BY DEF isDestroy, Aside
<1>7. q \in Pages(made') /\ (q.hotReloadGlobals = q.globals => q.globals = 0)
  BY <1>3 DEF Sound, Owned
<1> HIDE DEF q, oo, vm, loading, failed, next
<1>8. CASE Bundle(loading, q, oo)
  <2> DEFINE uvm == IF Aside(loading) THEN q.hotReloadGlobals ELSE q.globals
             lvm == IF Aside(loading) THEN q.hotReloadLuaViewManager ELSE q.luaViewManager
  <2>1. uvm # 0 /\ uvm \in oo /\ lvm
    BY <1>5, <1>6
  <2>2. mState' = loading /\ open' = oo
    BY <1>8 DEF Bundle
  <2>3. \/ page' = q /\ running' = running /\ noView' = TRUE
        \/ /\ running' = uvm /\ noView' = FALSE
           /\ page' = IF Aside(loading) THEN [q EXCEPT !.hotReloadLuaView = uvm]
                                        ELSE [q EXCEPT !.mLuaView = uvm]
    BY <1>6, <1>8, <2>1 DEF Bundle
  <2> HIDE DEF uvm, lvm
  <2>4. CASE page' = q /\ running' = running /\ noView' = TRUE
    BY <1>5, <1>6, <2>2, <2>4 DEF Left, Promise
  <2>5. CASE /\ running' = uvm /\ noView' = FALSE
             /\ page' = IF Aside(loading) THEN [q EXCEPT !.hotReloadLuaView = uvm]
                                          ELSE [q EXCEPT !.mLuaView = uvm]
    <3>1. /\ page'.globals = q.globals /\ page'.hotReloadGlobals = q.hotReloadGlobals
          /\ page'.initData = q.initData /\ page'.luaViewManager = q.luaViewManager
          /\ page'.hotReloadLuaViewManager = q.hotReloadLuaViewManager
      BY <1>7, <2>5 DEF Pages
    <3> QED
      BY <1>5, <1>6, <2>1, <2>2, <2>5, <3>1 DEF InUse, Promise
  <2> QED
    BY <2>3, <2>4, <2>5
<1>9. CASE LoadFailed(failed, q, oo) /\ noView' = FALSE /\ UNCHANGED running
  <2>1. InUse(mState', page', open', running', posted)
    BY <1>2, <1>3, <1>5, <1>6, <1>9, LoadFailedLocal
  <2> QED
    BY <1>9, <2>1 DEF Promise
<1>10. ASSUME NEW t \in Tasks, task' = [task EXCEPT ![t].at = "fetch"]
       PROVE  FALSE
  <2>1. task'[t].at = "fetch"
    BY <1>10 DEF TaskRecord
  <2> QED
    BY <2>1 DEF AllFree
<1> QED
  BY <1>1, <1>5, <1>8, <1>9, <1>10

\* The script reports, and with it the reload that ran it.
LEMMA ScriptLocal ==
  ASSUME Parts, Local, Script
  PROVE  Local'
<1> USE DEF Parts, Types
<1>1. /\ ~gone /\ running # 0 /\ crash = "no" /\ gone' = gone /\ running' = 0
      /\ InUse(mState, page, open, running, FailedPosted)
      /\ page \in Pages(made) /\ noView' = FALSE
  BY DEF Gone, Local, Promise, Left, Script, Executed, NotExecuted, Sound
<1>4. NothingFetched'
  <2>1. looper' = looper \/ looper' = Append(looper, "appear") \/ looper' = Append(looper, "failed")
    BY DEF Script, Executed, NotExecuted
  <2>2. "appear" \in Runnables \ {"bundle", "loadFailed"} /\ "failed" \in Runnables \ {"bundle", "loadFailed"}
    BY DEF Runnables
  <2>3. NothingFetched /\ looper \in Seq(Runnables)
    BY DEF Local
  <2>4. CASE looper' = looper
    BY <2>3, <2>4 DEF NothingFetched
  <2> QED
    BY <2>1, <2>2, <2>3, <2>4, LooperFetched
<1> SUFFICES ASSUME crash' = "no"
             PROVE  InUse(mState', page', open', running', FailedPosted')
  BY <1>1, <1>4 DEF Local, Promise
<1>5. /\ page.globals # 0 /\ page.globals \in open /\ page.initData /\ page.luaViewManager
      /\ page.hotReloadGlobals # 0 => page.hotReloadGlobals \in open
      /\ Aside(mState) => page.hotReloadGlobals # 0 /\ page.hotReloadLuaViewManager
  <2>1. page.globals # 0
    BY <1>1 DEF InUse
  <2> QED
    BY <1>1, <2>1 DEF InUse
<1>2. CASE Executed
  <2> DEFINE bits == (mState \ {"SCRIPT_LOADING"}) \cup {"SCRIPT_EXECUTED"}
  <2>1. /\ mState' = bits \ {"HOT_RELOADING"}
        /\ page' = IF Aside(bits) THEN Switched(page) ELSE page
        /\ open' = IF Aside(bits) THEN open \ {page.globals} ELSE open
    BY <1>2 DEF Executed
  <2>2. /\ "HOT_RELOADING" \notin mState' /\ ~Aside(mState') /\ "SCRIPT_LOADING" \notin mState'
        /\ ~isDestroy(mState') /\ (Aside(bits) <=> Aside(mState))
    BY <1>1, <2>1 DEF Aside, isDestroy, InUse
  <2>3. CASE ~Aside(mState)
    <3>1. page' = page /\ open' = open
      BY <2>1, <2>2, <2>3
    <3> QED
      BY <1>1, <1>5, <2>2, <3>1, Zenon DEF InUse
  <2>4. CASE Aside(mState)
    <3>1. page' = Switched(page) /\ open' = open \ {page.globals}
      BY <2>1, <2>2, <2>4
    <3>2. /\ page'.globals = page.hotReloadGlobals /\ page'.hotReloadGlobals = 0
          /\ page'.luaViewManager = page.hotReloadLuaViewManager
          /\ page'.initData = page.initData
      BY <1>1, <3>1 DEF Switched, Pages
    <3>3. page.globals # 0 /\ page.initData /\ page.hotReloadGlobals # 0
          /\ page.hotReloadGlobals \in open /\ page.hotReloadLuaViewManager
      BY <1>5, <2>4, Zenon
    <3>4. page.globals # page.hotReloadGlobals
      BY <3>3 DEF Sound, Owned
    <3>5. page'.luaViewManager /\ page'.initData
      BY <3>2, <3>3, Zenon
    <3>6. page'.globals # 0 /\ page'.globals \in open' /\ page'.hotReloadGlobals = 0
      BY <3>1, <3>2, <3>3, <3>4
    <3> QED
      BY <2>2, <3>5, <3>6 DEF InUse
  <2> QED
    BY <2>3, <2>4
<1>3. CASE NotExecuted
  <2>1. /\ mState' = (mState \ {"SCRIPT_LOADING"}) \cup {"ERROR"}
        /\ looper' = Append(looper, "failed") /\ UNCHANGED <<page, open>>
    BY <1>3 DEF NotExecuted, vms
  <2>2. FailedPosted'
    <3>1. "failed" \in Runnables
      BY DEF Runnables
    <3> QED
      BY <2>1, <3>1, LooperFailed
  <2>3. /\ Aside(mState') <=> Aside(mState)
        /\ "SCRIPT_LOADING" \notin mState' /\ ~isDestroy(mState')
    BY <1>1, <2>1 DEF Aside, isDestroy, InUse
  <2> QED
    BY <1>1, <2>1, <2>2, <2>3 DEF InUse
<1> QED
  BY <1>2, <1>3 DEF Script

\* A runnable keeps what the bits promise.
LEMMA RunnableLocal ==
  ASSUME Parts, Local, AllFree', Runnable
  PROVE  Local'
<1>0. /\ running = 0 /\ crash = "no" /\ gone' = gone /\ gone \in BOOLEAN
      /\ looper \in Seq(Runnables) /\ made \in Nat /\ task \in [Tasks -> TaskRecord]
      /\ Sound(page, open, made) /\ page \in Pages(made) /\ FailedPosted' \in BOOLEAN
      /\ noView \in BOOLEAN
  BY DEF Parts, Types, Sound, Runnable, RunLoad, RunBundle, RunLoadFailed, RunFailed, RunAppear,
         RunReload, Take, MainFree, outside, FailedPosted
<1>6. NothingFetched' /\ ~RunBundle /\ ~RunLoadFailed
  BY <1>0, LooperFetched DEF Local, Runnable, RunLoad, RunBundle, RunLoadFailed, RunFailed,
                             RunAppear, RunReload
<1>1. CASE gone
  <2>1. /\ mState \subseteq {"DESTROY", "SCRIPT_EXECUTED"} /\ isDestroy(mState)
        /\ ~page.initData
    BY <1>1 DEF Local, Parts, Gone, Dead
  <2>2. mState' \subseteq mState \cup {"SCRIPT_EXECUTED"} /\ isDestroy(mState')
    <3>1. CASE RunLoad \/ RunAppear \/ RunReload
      <4>1. mState' = mState
        BY <2>1, <3>1 DEF RunLoad, RunAppear, RunReload, LoadScript
      <4> QED
        BY <2>1, <4>1
    <3>2. CASE RunFailed
      <4>1. \/ mState' = mState \cup {"SCRIPT_EXECUTED"}
            \/ mState' = (mState \cup {"SCRIPT_EXECUTED"}) \ {"HOT_RELOADING"}
        BY <3>2 DEF RunFailed
      <4> QED
        BY <2>1, <4>1 DEF isDestroy
    <3> QED
      BY <1>6, <3>1, <3>2 DEF Runnable
  <2> QED
    BY <1>0, <1>6, <1>1, <2>1, <2>2 DEF Local
<1> SUFFICES ASSUME ~gone, crash' = "no",
                    Promise(mState, page, open, 0, FailedPosted, noView)
             PROVE  Promise(mState', page', open', running', FailedPosted', noView')
  BY <1>0, <1>6, <1>1 DEF Local
<1>2. CASE RunLoad
  <2>1. /\ LoadScript(mState, page, open) /\ Take("load")
    BY <1>2 DEF RunLoad
  <2>2. FailedPosted' <=> FailedPosted
    BY <1>0, <2>1, LooperFailed
  <2>3. CASE ~page.initData \/ "SCRIPT_LOADING" \in mState \/ isDestroy(mState)
    <3>1. UNCHANGED <<mState, page, open, running, noView>>
      BY <2>1, <2>3 DEF LoadScript
    <3> QED
      BY <1>0, <2>2, <3>1 DEF Promise, InUse, Left
  <2>4. CASE ~(~page.initData \/ "SCRIPT_LOADING" \in mState \/ isDestroy(mState))
    <3>1. /\ page.luaViewManager /\ (page.globals # 0 => page.globals \in open)
          /\ page.hotReloadGlobals # 0 => page.hotReloadGlobals \in open
          /\ Aside(mState) => page.globals # 0 /\ page.hotReloadLuaViewManager
      BY <2>4 DEF Promise, Left, InUse, Aside
    <3> QED
      BY <1>0, <2>1, <2>4, <3>1, LoadScriptLocal
  <2> QED
    BY <2>3, <2>4
<1>3. CASE RunFailed
  <2> DEFINE bits == mState \cup {"SCRIPT_EXECUTED"}
  <2>1. Take("failed") /\ UNCHANGED <<running, noView>>
    BY <1>3 DEF RunFailed
  <2>2. FailedPosted
    BY <1>0, <2>1, LooperFailed
  <2>3. \/ /\ Aside(bits) /\ mState' = bits \ {"HOT_RELOADING"}
           /\ page' = DropAside(page) /\ open' = open \ {page.hotReloadGlobals}
        \/ /\ ~Aside(bits) /\ page' = page /\ open' = open
           /\ mState' = IF "HOT_RELOAD_IMEDIATELY" \in bits THEN bits \ {"HOT_RELOADING"} ELSE bits
    BY <1>3 DEF RunFailed, Destroy
  <2>4. /\ "HOT_RELOADING" \notin mState' /\ ~Aside(mState')
        /\ "SCRIPT_LOADING" \in mState' <=> "SCRIPT_LOADING" \in mState
        /\ ~isDestroy(mState')
    BY <2>3 DEF Aside, isDestroy, InUse, Promise, Left
  <2>5. /\ page.initData /\ page.luaViewManager
        /\ page.globals # 0 => page.globals \in open
        /\ ~noView => page.globals # 0
        /\ page.hotReloadGlobals # 0 => page.hotReloadGlobals \in open
        /\ page.hotReloadGlobals = page.globals => page.globals = 0
    BY <1>0, <2>2 DEF Promise, InUse, Left, Sound, Owned
  <2>6. /\ page'.globals = page.globals /\ page'.initData /\ page'.luaViewManager
        /\ page'.globals # 0 => page'.globals \in open'
        /\ page'.hotReloadGlobals # 0 => page'.hotReloadGlobals \in open'
    <3>1. CASE page' = page /\ open' = open
      BY <2>5, <3>1
    <3>2. CASE page' = DropAside(page) /\ open' = open \ {page.hotReloadGlobals}
      <4>1. /\ page'.globals = page.globals /\ page'.hotReloadGlobals = 0
            /\ page'.initData = page.initData /\ page'.luaViewManager = page.luaViewManager
        BY <1>0, <3>2 DEF DropAside, Pages
      <4> QED
        BY <2>5, <3>2, <4>1
    <3> QED
      BY <2>3, <3>1, <3>2
  <2> QED
    BY <1>0, <2>1, <2>4, <2>5, <2>6 DEF Promise, InUse, Left
<1>4. CASE RunAppear
  <2>1. Take("appear") /\ UNCHANGED <<mState, page, open, running, noView>>
    BY <1>4 DEF RunAppear, vms
  <2>2. FailedPosted' <=> FailedPosted
    BY <1>0, <2>1, LooperFailed
  <2> QED
    BY <1>0, <2>1, <2>2 DEF Promise, InUse, Left
<1>5. CASE RunReload
  <2>1. Take("reload") /\ page.initData
    BY <1>5 DEF RunReload
  <2>2. FailedPosted' <=> FailedPosted
    BY <1>0, <2>1, LooperFailed
  <2>3. CASE UNCHANGED <<mState, page, vms, running, noView>>
    BY <1>0, <2>2, <2>3 DEF Promise, InUse, Left, vms
  <2>4. /\ ~isDestroy(mState) /\ page.luaViewManager
        /\ "SCRIPT_LOADING" \in mState <=> noView
        /\ page.globals # 0 => page.globals \in open
        /\ page.hotReloadGlobals # 0 => page.hotReloadGlobals \in open
        /\ page.hotReloadGlobals = page.globals => page.globals = 0
    BY <1>0 DEF Promise, InUse, Left, Sound, Owned
  <2>5. CASE LoadScript(mState \cup {"HOT_RELOADING", "HOT_RELOAD_IMEDIATELY"},
                        Replaced(page), open \ {page.globals})
    <3> DEFINE bits == mState \cup {"HOT_RELOADING", "HOT_RELOAD_IMEDIATELY"}
               p == Replaced(page)
               o == open \ {page.globals}
    <3>1. /\ ~isDestroy(bits) /\ ~Aside(bits)
          /\ "SCRIPT_LOADING" \in bits <=> noView
      BY <2>4 DEF isDestroy, Aside
    <3>2. Sound(p, o, made)
      BY <1>0, ReplacedSound
    <3>3. /\ p.globals = 0 /\ p.luaViewManager /\ p.initData
          /\ p.hotReloadGlobals = page.hotReloadGlobals
      BY <1>0, <2>1 DEF Replaced, Pages
    <3>4. p.hotReloadGlobals # 0 => p.hotReloadGlobals \in o
      BY <2>4, <3>3
    <3>5. LoadScript(bits, p, o)
      BY <2>5
    <3> HIDE DEF bits, p, o
    <3>6. CASE noView
      <4>1. mState' = bits /\ page' = p /\ open' = o /\ UNCHANGED <<running, noView>>
        BY <3>1, <3>5, <3>6 DEF LoadScript
      <4> QED
        BY <1>0, <3>1, <3>3, <3>4, <3>6, <4>1 DEF Promise, Left
    <3>7. CASE ~noView
      BY <1>0, <3>1, <3>2, <3>3, <3>4, <3>5, <3>7, LoadScriptLocal
    <3> QED
      BY <3>6, <3>7
  <2>6. CASE /\ renderFinish(mState) \/ isError(mState)
             /\ LoadScript(mState \cup {"HOT_RELOADING"},
                           [page EXCEPT !.hotReloadLuaViewManager = TRUE], open)
    <3> DEFINE bits == mState \cup {"HOT_RELOADING"}
               p == [page EXCEPT !.hotReloadLuaViewManager = TRUE]
    <3>1. ~isDestroy(bits) /\ ("SCRIPT_LOADING" \in bits <=> noView)
      BY <2>4 DEF isDestroy
    <3>2. Sound(p, open, made)
      BY <1>0 DEF Sound, Pages, Owned, Alive
    <3>3. /\ p.globals = page.globals /\ p.luaViewManager = page.luaViewManager
          /\ p.initData = page.initData /\ p.hotReloadLuaViewManager
          /\ p.hotReloadGlobals = page.hotReloadGlobals
      BY <1>0 DEF Pages
    <3>4. ~noView => page.globals # 0
      BY <2>6 DEF Promise, InUse, renderFinish, isError
    <3>5. LoadScript(bits, p, open)
      BY <2>6
    <3> HIDE DEF bits, p
    <3>6. CASE noView
      <4>1. mState' = bits /\ page' = p /\ open' = open /\ UNCHANGED <<running, noView>>
        BY <3>1, <3>5, <3>6 DEF LoadScript
      <4> QED
        BY <1>0, <2>1, <2>4, <3>1, <3>3, <3>6, <4>1 DEF Promise, Left
    <3>7. CASE ~noView
      BY <1>0, <2>1, <2>4, <3>1, <3>2, <3>3, <3>4, <3>5, <3>7, LoadScriptLocal
    <3> QED
      BY <3>6, <3>7
  <2> QED
    BY <1>5, <2>1, <2>3, <2>5, <2>6 DEF RunReload
<1> QED
  BY <1>6, <1>2, <1>3, <1>4, <1>5 DEF Runnable

\* So does what comes from outside: it asks for work, and does none.
LEMMA OutsideLocal ==
  ASSUME Parts, Local, AllFree',
         SetData \/ OnResume \/ OnPause \/ SetImediately \/ OnDestroy \/ Reload \/ OnReload
  PROVE  Local'
<1>0. /\ crash = "no" /\ gone \in BOOLEAN
      /\ looper \in Seq(Runnables) /\ made \in Nat /\ task \in [Tasks -> TaskRecord]
      /\ Sound(page, open, made) /\ page \in Pages(made) /\ FailedPosted' \in BOOLEAN
      /\ noView \in BOOLEAN /\ NothingFetched
  BY DEF Parts, Types, Sound, SetData, OnResume, OnPause, SetImediately, OnDestroy, Reload,
         OnReload, MainFree, FailedPosted, Local
<1>6. NothingFetched'
  <2>1. looper' = looper \/ looper' = Append(looper, "load") \/ looper' = Append(looper, "reload")
    BY DEF SetData, OnResume, OnPause, SetImediately, OnDestroy, Reload, OnReload
  <2>2. /\ "load" \in Runnables \ {"bundle", "loadFailed"}
        /\ "reload" \in Runnables \ {"bundle", "loadFailed"}
    BY DEF Runnables
  <2>3. CASE looper' = looper
    BY <1>0, <2>3 DEF NothingFetched
  <2> QED
    BY <1>0, <2>1, <2>2, <2>3, LooperFetched
<1>1. CASE OnDestroy
  <2>1. gone' = TRUE /\ mState' = {"DESTROY"}
    BY <1>1 DEF OnDestroy
  <2> QED
    BY <1>6, <2>1 DEF Local, isDestroy
<1>2. CASE OnReload
  <2>1. /\ UNCHANGED <<mState, page, open, running, gone, noView, crash>>
        /\ looper' = looper \/ looper' = Append(looper, "reload")
    BY <1>2 DEF OnReload, vms
  <2>2. FailedPosted' <=> FailedPosted
    <3>1. CASE looper' = looper
      BY <3>1 DEF FailedPosted
    <3>2. CASE looper' = Append(looper, "reload")
      <4>1. "reload" \in Runnables
        BY DEF Runnables
      <4>2. FailedPosted' <=> FailedPosted \/ "reload" = "failed"
        BY <1>0, <3>2, <4>1, LooperFailed, Zenon
      <4> QED
        BY <4>2
    <3> QED
      BY <2>1, <3>1, <3>2
  <2> QED
    BY <1>6, <2>1, <2>2 DEF Local, Promise, InUse, Left
<1> SUFFICES ASSUME ~gone, ~gone', running = 0, crash' = "no",
                    Promise(mState, page, open, 0, FailedPosted, noView)
             PROVE  Promise(mState', page', open', running', FailedPosted', noView')
  BY <1>0, <1>1, <1>2, <1>6
     DEF Local, SetData, OnResume, OnPause, SetImediately, Reload, MainFree, outside
<1>3. CASE OnResume \/ OnPause \/ SetImediately
  <2>1. /\ UNCHANGED <<page, open, running, looper, noView>>
        /\ mState' = mState \/ mState' = mState \cup {"RESUME"} \/ mState' = mState \ {"RESUME"}
    BY <1>3 DEF OnResume, OnPause, SetImediately, vms
  <2>2. (FailedPosted' <=> FailedPosted) /\ running' = 0
    BY <2>1 DEF FailedPosted
  <2>3. /\ isDestroy(mState') <=> isDestroy(mState)
        /\ Aside(mState') <=> Aside(mState)
        /\ "SCRIPT_LOADING" \in mState' <=> "SCRIPT_LOADING" \in mState
        /\ "HOT_RELOADING" \in mState' <=> "HOT_RELOADING" \in mState
        /\ mState' \cap {"SCRIPT_EXECUTED", "ERROR", "HOT_RELOADING"}
             = mState \cap {"SCRIPT_EXECUTED", "ERROR", "HOT_RELOADING"}
    BY <2>1 DEF isDestroy, Aside
  <2> QED
    BY <2>1, <2>2, <2>3 DEF Promise, InUse, Left
<1>4. CASE SetData
  <2> DEFINE p == [page EXCEPT !.initData = TRUE]
  <2>1. /\ p.globals = page.globals /\ p.hotReloadGlobals = page.hotReloadGlobals
        /\ p.initData /\ p.luaViewManager = page.luaViewManager
        /\ p.hotReloadLuaViewManager = page.hotReloadLuaViewManager
    BY <1>0 DEF Pages
  <2>2. Sound(p, open, made)
    BY <1>0 DEF Sound, Pages, Owned, Alive
  <2>3. CASE page' = p /\ looper' = Append(looper, "load")
             /\ UNCHANGED <<mState, vms, running, task, noView, crash>>
    <3>1. FailedPosted' <=> FailedPosted
      <4>1. "load" \in Runnables
        BY DEF Runnables
      <4>2. FailedPosted' <=> FailedPosted \/ "load" = "failed"
        BY <1>0, <2>3, <4>1, LooperFailed, Zenon
      <4> QED
        BY <4>2
    <3> HIDE DEF p
    <3> QED
      BY <2>1, <2>3, <3>1 DEF Promise, InUse, Left, vms
  <2>4. CASE LoadScript(mState, p, open) /\ UNCHANGED looper
    <3>1. ~noView
      BY <1>4 DEF SetData, Promise, Left
    <3>2. /\ ~isDestroy(mState) /\ "SCRIPT_LOADING" \notin mState /\ page.luaViewManager
          /\ page.globals # 0 => page.globals \in open
          /\ page.hotReloadGlobals # 0 => page.hotReloadGlobals \in open
          /\ Aside(mState) => page.globals # 0 /\ page.hotReloadLuaViewManager
      BY <3>1 DEF Promise, InUse, Aside
    <3> HIDE DEF p
    <3> QED
      BY <1>0, <2>1, <2>2, <2>4, <3>2, LoadScriptLocal
  <2> QED
    BY <1>4, <2>3, <2>4 DEF SetData
<1>5. CASE Reload
  <2> DEFINE p == Replaced(page)
             o == open \ {page.globals}
             bits == {"RESUME"}
  <2>1. LoadScript(bits, p, o)
    BY <1>5 DEF Reload
  <2>2. page.initData
    BY <1>5 DEF Reload, renderFinish, isError, Promise, InUse, Left
  <2>3. Sound(p, o, made)
    BY <1>0, ReplacedSound
  <2>4. /\ p.globals = 0 /\ p.luaViewManager /\ p.initData
        /\ p.hotReloadGlobals = page.hotReloadGlobals
    BY <1>0, <2>2 DEF Replaced, Pages
  <2>5. p.hotReloadGlobals # 0 => p.hotReloadGlobals \in o
    BY <1>0, <2>4 DEF Promise, InUse, Left, Sound, Owned
  <2>6. ~isDestroy(bits) /\ "SCRIPT_LOADING" \notin bits /\ ~Aside(bits)
    BY DEF isDestroy, Aside
  <2> HIDE DEF p, o, bits
  <2> QED
    BY <1>0, <2>1, <2>3, <2>4, <2>5, <2>6, LoadScriptLocal
<1> QED
  BY <1>1, <1>2, <1>3, <1>4, <1>5 DEF Local

\* What the bits promise is kept while no background task is started.
LEMMA NextLocal ==
  ASSUME IInv, Local, AllFree, AllFree', [Next]_vars
  PROVE  Local'
<1>1. Parts
  BY IInvParts
<1>2. ~\E t \in Tasks : Background(t)
  BY DEF AllFree, Background, Cancelled, Fetched, Read, Write, Post
<1>3. CASE UNCHANGED vars
  BY <1>3 DEF vars, vms, outside, Local, Promise, InUse, Left, FailedPosted, NothingFetched
<1> QED
  BY <1>1, <1>2, <1>3, ScriptLocal, RunnableLocal, OutsideLocal DEF Next

\* What the bits promise, as long as no background task is started.
LEMMA LocalInvariance == Spec /\ []AllFree => []Local
<1>1. Init => Local
  <2> SUFFICES ASSUME Init PROVE Local
    OBVIOUS
  <2>1. ~FailedPosted /\ NothingFetched
    BY DEF Init, FailedPosted, NothingFetched
  <2> QED
    BY <2>1 DEF Init, Local, Promise, InUse, isDestroy, Aside
<1>2. IInv /\ Local /\ AllFree /\ AllFree' /\ [Next]_vars => Local'
  BY NextLocal
<1> QED
  BY <1>1, <1>2, Invariance, PTL DEF Spec

\* While scripts are found or missed at once, the bits that mark a load or a
\* hot reload are set only while the script runs, while the runnable is posted
\* that ends it, or once a load was left without a view: but for that, what
\* HotReloadImpl polls for always has something to come from, for any number of
\* reloads by the user and the plugin (loadScript, onScriptLoadFailed,
\* onScriptExecuted, createLuaView).
THEOREM LocalReloadIsUnderWay ==
  Spec /\ []AllFree =>
    [](crash = "no" =>
         /\ "SCRIPT_LOADING" \in mState => running # 0 \/ noView
         /\ "HOT_RELOADING" \in mState => running # 0 \/ FailedPosted \/ noView)
<1>1. IInv /\ Local => (crash = "no" =>
         /\ "SCRIPT_LOADING" \in mState => running # 0 \/ noView
         /\ "HOT_RELOADING" \in mState => running # 0 \/ FailedPosted \/ noView)
  BY DEF IInv, TypeOK, Local, Promise, InUse
<1> QED
  BY <1>1, LocalInvariance, Invariance, PTL

\* ... and a page whose load was left without a view loads nothing again,
\* whatever the plugin sends: SCRIPT_LOADING stays set, loadScript returns at
\* once (MLSInstance.java:930), and only the user's reload, which sets the bits
\* anew, gets the page out of it (MLSInstance.java:809-815, 1382).
THEOREM OnlyTheUserLeavesIt ==
  Spec /\ []AllFree =>
    [][noView /\ ~gone /\ crash = "no" =>
         \/ noView' /\ running' = 0 /\ made' = made
         \/ Reload]_vars
<1> DEFINE Stays == noView /\ ~gone /\ crash = "no" =>
                      \/ noView' /\ running' = 0 /\ made' = made
                      \/ Reload
<1>1. IInv /\ Local /\ AllFree /\ [Next]_vars => [Stays]_vars
  <2> SUFFICES ASSUME IInv, Local, AllFree, Next, noView, ~gone, crash = "no", ~Reload
               PROVE  noView' /\ running' = 0 /\ made' = made
    OBVIOUS
  <2>1. /\ page.initData /\ running = 0 /\ "SCRIPT_LOADING" \in mState
        /\ looper \in Seq(Runnables) /\ NothingFetched
    BY DEF Local, Promise, Left, IInv, TypeOK
  <2>2. ~\E t \in Tasks : Background(t)
    BY DEF AllFree, Background, Cancelled, Fetched, Read, Write, Post
  <2>3. ~Script /\ ~SetData
    BY <2>1 DEF Script, Executed, NotExecuted, SetData
  <2>4. CASE Runnable
    <3>1. ~RunBundle /\ ~RunLoadFailed
      BY <2>1, LooperFetched DEF RunBundle, RunLoadFailed
    <3>2. CASE RunLoad
      BY <2>1, <3>2 DEF RunLoad, LoadScript
    <3>3. CASE RunFailed \/ RunAppear
      BY <2>1, <3>3 DEF RunFailed, RunAppear, vms
    <3>4. CASE RunReload
      BY <2>1, <3>4 DEF RunReload, LoadScript, vms
    <3> QED
      BY <2>4, <3>1, <3>2, <3>3, <3>4 DEF Runnable
  <2>5. CASE OnResume \/ OnPause \/ SetImediately \/ OnDestroy \/ OnReload
    BY <2>1, <2>5 DEF OnResume, OnPause, SetImediately, OnDestroy, OnReload, vms
  <2> QED
    BY <2>2, <2>3, <2>4, <2>5 DEF Next
<1> QED
  BY <1>1, Invariance, LocalInvariance, PTL DEF Spec
===============================================================================
