# MLN-lite in TLA+

MLN-lite runs user interfaces written in Lua on Android. A Lua 5.2 virtual
machine (C) is bound to Java through a JNI bridge (`mlncore`), a service layer
(`mlnservice`) loads scripts and drives pages on top of it, and a hot-reload
client (`HotReload`) pushes edited scripts to a running page. This directory
holds TLA+ models of the parts of that system that carry its own logic, TLC
configurations that check them on small instances, and proofs that TLAPS checks
for every instance.

## 1. Inventory

| Component | State | Operations | Talks to | What is hard | What makes it correct |
|---|---|---|---|---|---|
| **Handles and the GNV table** (`cache.c`, `NLuaValue`, `Globals.removeStack`/`gc`) | `GNV[type][addr] = {object, count}`; a handle's key, `calledDestroy`, `destroyed`; the VM's `inGC`, `destroyedValues`; runnables in the handler | `newLuaTable`, `newLuaFunction`, `ref.strong`, `ref.weak`, `destroy`, `finalize`, the posted removal, `tryFullGc`, `Globals.destroy` | Lua's collector, the finalizer thread, the main looper | `destroy()` runs on two threads and continues in a posted runnable; the VM may be gone by then; addresses are reused | a live handle finds its own object; one removal per handle; none on a closed VM; a removal releases the object |
| **Userdata cache** (`UserdataCache`, `LuaUserdata`, `juserdata.c`, `jinfo.c`) | `cache: id -> object`, `removedCache: id -> SoftReference`; `refCount`, `javaRefCount`; blocks with an id and flags | construction from Java and from Lua, push to Lua, call from Lua, `__gc`, `onJavaRef`, `onJavaRecycle`, `finalize`, `onDestroy` | both collectors, the GNV table | three owners (Lua blocks, declared Java references, Java's reachability) that come and go in any order; objects are dropped and pushed again | a block resolves to its own object and to nothing else; an object in use is not dropped |
| **Memory pool** (`mempool.c`) | blocks of chunks with boundary tags, a bump pointer, per-block use counts | `mp_alloc`, `mp_realloc`, `mp_free`, `alloc_block` | `m_alloc` of `luajapi.c` (Lua's allocator) | coalescing beside the bump pointer, limits in 16-bit arithmetic | tags tile every block, counts add up, no two allocations overlap, the pool stays below its maximum |
| **VM registry and calls** (`Globals`, `LuaFunction`) | `cache: L_State -> Globals`, `g_cahce`, `calledFunction`, `state` | create, isolate, destroy, `invoke`, error paths | every other component | a counter that is decremented on paths that never incremented it | a VM in a call is not destroyed; a registered VM is not closed |
| **Containers** (`map.c`, `list.c`, `m_mem.c`) | hash map and list of the bridge | put, get, remove, re-hash | `cache.c`, `juserdata.c` | ownership of keys, removal while scanning | reference definitions |
| **Memory monitor** (`MemoryMonitor`) | one polling thread, global and per-VM listeners | start, stop, set a listener | the VM registry | a listener replaced while the thread reads it | a removed listener is not called; the thread ends |
| **Page instance** (`MLSInstance`) | a bitmask of states, the VM and view, those of a hot reload beside them | `setData`, `onResume`, `onPause`, `reload`, `onDestroy`, load callbacks | script loader, VM registry, hot reload | callbacks of a load that was superseded or whose page is gone | one VM per page; no callback acts on a destroyed page |
| **Script loading** (`lite/`, `DefaultScriptReaderImpl`, `PreGlobalInitUtils`, `AppCache`) | pending loads, prepared VMs, caches | load, cache, pre-create | threads, page instance | a prepared VM handed out twice, a cache filled late | each prepared VM has one owner |
| **Reload of a page** (`HotReloadHelper.HotReloadImpl`, the hot-reload part of `MLSInstance`) | `reloadState` (five bits), `changeFiles`, two single-thread executors, the page's `STATE_HOT_RELOADING` | `onReload`, `onFileCreate/Update/Rename/Move/Delete`, `waitReloading`, the reload task, `reloadByHotReload`, the callbacks of a load | receiver threads of each connection, the main looper | four kinds of threads on an integer that is read with `get()` and written with `set()`; a poll for a load that may not have begun | a reload sees the changes sent before it; one reload at a time; each one ends; the page ends up showing what was asked for |
| **Hot-reload transport** (`HotReloadServer`, `ClientImpl`, `NetTransporter`, `USBTransporter`, `ReaderImpl`, `WriterImpl`, codec) | sockets, queues, `isStopped`, the bytes of a frame that is not complete | start, stop, reconnect, read, write, encode, decode | sockets, the reload machine | reconnects while a thread is blocked; frames cut anywhere | stopped threads end; one writer at a time; frames are decoded as sent |
| **Type bridge** (`luajapi.c`, `jtable.c`, `jfunction.c`, `jbridge.c`, `compiler.c`) | none of its own | conversions, registration of classes, compilation | everything above | reference leaks on error paths | conversions are inverse to each other |

Outside this development: the Lua VM (`mlncore/src/main/cpp/lua`), SQLite, the
scanner (`scan`), generated protocol buffers, annotation processing
(`processor`, `annotation`), the demo application (`app`) and the widgets of
`mlnservice` (layout, animation, images). They are vendored, generated, or a
mapping of calls to the platform without a protocol of their own. Section 7
says what is left of the first list.

Paths below are short: `Globals.java` is
`src/mlncore/src/main/java/org/luaj/vm2/Globals.java`, `cache.c` is
`src/mlncore/src/main/cpp/japi/cache.c`, and `HotReloadHelper.java` is in
`src/mlnservice/src/main/java/com/immomo/mls/`.

## 2. Modules

| Module | What it is | Used by |
|---|---|---|
| `GNVTable` | the GNV table as operators on a function from keys to counts | `GNV` |
| `GNV` | handles, both threads, the handler's queue, collections, the end of the VM | `MCGNV`, `GNV_proofs` |
| `UserdataCache` | Java objects, userdata blocks, the cache between them | `MCUserdataCache`, `UserdataCache_proofs` |
| `Allocator` | what the Lua VM is promised by its allocator: disjoint cells (abstract) | `MemPool` |
| `MemPool` | the pool and the allocator function above it; implements `Allocator` | `MCMemPool`, `MemPool_proofs`, `MemPoolUpkeep_proofs` |
| `Globals` | VMs, their registry, the calls into them | `MCGlobals`, `Globals_proofs` |
| `Page` | a page: its loads, its reloads, its end | `MCPage`, `Page_proofs` |
| `HotReload` | the reload machine that drives a page | `MCHotReload`, `HotReload_proofs` |
| `Stream` | messages handed over in order, without a gap, replays apart (abstract) | `Transport` |
| `Transport` | the connection hot reload comes over: decoder, threads, queue; implements `Stream` | `MCTransport`, `Transport_proofs` |
| `*_proofs` | theorems and their proofs | |
| `MC*` | symmetry sets and model values for TLC | the `.cfg` files |

How they meet: `Transport` ends where the listener gets a command, `HotReload`
begins there (`ReceiveChange`, `ReceiveReload`) and ends where it posts a reload to
the page, and `Page` begins there (`OnReload`). `HotReload` has a small page for
that (`BeginLoad` ... `EndFailedLoad`) and `Page` a plugin of one action.
`Globals` has the VMs that `Page` makes and destroys; `GNV`, `UserdataCache` and
`MemPool` are inside one VM. `UserdataCache` takes from `GNV` that nothing leaves
the GNV table while the VM is open (theorem `EntriesLast`).

Each module defines operators named `Fault_X` next to some `X`. They are
plausible mistakes in the code `X` stands for (a dropped guard, a missing reset,
an off-by-one). No action uses them; each property is known to fail when the
`Fault_` form takes the place of `X`.

### GNV and GNVTable

`GNV[type][addr] = {object, count}` becomes a function from keys to counts. A
key keeps its Lua type (`LightUserdata(a)` or `Number(a)`), because the code
stores under one and removes under the other. Addresses can be reused: `uses[a]`
counts the objects that have lived at `a`, and `born[h]` remembers which of them
a handle was made for. `handler` says whether the VM was created on a thread with a
looper (`Globals.java:288`). Without one, as for an isolate's VM, nothing can be
posted: `removeStack` drops the request and returns true all the same (`Enqueue`), and
`tryFullGc` does nothing.

| Action | Code |
|---|---|
| `NewHandle` | `newLuaTable`, `newLuaFunction` (`jinfo.c`) with `copyValueToGNV` |
| `RefStrong`, `RefWeak` | `ref.strong`, `ref.weak` (`reflib.c`) |
| `UseHandle` | `NLuaValue.checkStateByNative` and a push |
| `Destroy` | `NLuaValue.destroy` on the main thread: `removeStack` at once, or posted late in a collection |
| `LoseHandle`, `Finalize`, `FinalizeCheck`, `FinalizePost` | `finalize` on the finalizer thread, with a step at each place where it reads state the main thread writes |
| `RunPosted` | the runnable `removeStack` posts where there is a handler |
| `TryFullGc`, `RunGc`, `EndGc` | `Globals.tryFullGc`, `gc`, the end of `_lgc` |
| `DestroyGlobals` | `Globals.destroy` |
| `LuaAllocate`, `LuaDrop`, `LuaCollect` | scripts and Lua's collector (external) |

### UserdataCache

`cache` and `removed` are partial functions from ids to objects: strong
references, and soft references that Java's collector has not cleared. A block
carries an id and two flag bits and holds no reference on its object. What Lua
refers to (`luaRef`), what the GNV table pins (`pinned`) and what Java code holds
(`held`) are the environment's choice within the rules of the two collectors:
`LuaGc` takes a block nothing refers to, `ClearSoft` a soft reference to an object
nothing else holds, `Finalize` an object nothing refers to. `LuaNew` leaves the
flag bits of a block arbitrary where `new_java_obj` does not write them. The
cache type (`MLNCore.UserdataCacheType`) is a constant. `Found` is what the two caches
have for an id and `Get` the set of answers `get` may give: in a debug build an object
only the soft cache has goes through `MLNCore.onNullGet`, whose adapter returns it or
null (`MayWithhold`); every caller of `get` takes either answer.

### MemPool and Allocator

A block is tiled by runs of chunks; `pool.tag` is a function from the first
chunk of a run to its tag (`count`, `pre`, `using`), `pool.current` the bump
pointer, `pool.using` the counter of each block. `mp_alloc`, `mp_realloc`,
`mp_free` and the helpers they share are operators from pools to pools; `Alloc`,
`Realloc` and `Free` are the three uses `m_alloc` makes of them, `Close` and
`FreePool` are `jni_close`. Counts wrap at `CountMod` like `mem_size`. The
platform's `malloc` and `realloc` succeed, fail, or fail half way (`torn`: the
arrays are then shorter than `arr_size` says, and the model stops).

`Allocator` is the contract `luaM_realloc_` relies on (`lmem.c`): who asks holds
cells with room for the bytes asked for, nobody else holds any of them, and no
call changes what another holds. It knows no runs, tags or blocks. `HeldBy` maps
an allocation to the chunks of its run, and `ImplementsAllocator` says that every
step of the pool, with its splits, joins, moves and failures, is a step of
`Allocator` or none. While the VM closes the pool keeps what Lua gives back;
Lua sees no difference.

### Globals

A VM is created at a native address, registered in `cache` under it, loaded, run,
called and destroyed. Pages' VMs share the main thread: `Free(v)` keeps them still
while one of them is inside `destroy()`. An isolate's VM has a thread of its own, so
it can be created between `_close` and `cache.remove` at the address that has just
become free. Addresses return to use as soon as the native VM is closed.

| Action | Code |
|---|---|
| `Create` | `createLState`, `__onNativeCreateGlobals` |
| `Destroy`, `Unregister` | `destroy()` up to `_close`, and from `cache.remove` on; the guard is that of line 1314 |
| `EndIsolate` | `__onGlobalsDestroyInNative`, called by native code |
| `Load`, `CallLoadedData`, `ScriptEnds` | `loadData` and its kind, `callLoadedData`, its return or caught error |
| `Invoke`, `InvokeEnds` | `LuaFunction.invoke` and `fastInvoke`, their return or `functionInvokeError` |
| `InvokeRefused` | `checkStatus` throws before it counts, and `functionInvokeError` counts off |

Calls of a VM, and its scripts within one another, are counted, not stacked. `refused`
and `overwritten` are history variables: the calls whose refusal has made
`calledFunction` one too low, and that the VM loaded a script while another ran
(`loadData` checks no more than that the VM is there, and its result replaces the state
"calling" that `destroy()` looks at). `require` and `startDebug` run Lua code that
neither the state nor `calledFunction` accounts for; of them only what `startDebug`
writes to the state is in the model, with `Load`.

### Page

`mState` is the set of its bits, the bits nothing reads left out. VMs are numbered
as they are made and a view is known by the VM it runs in, so `page.globals`,
`page.mLuaView`, `page.hotReloadGlobals` and `page.hotReloadLuaView` are numbers, 0
for null. A method that runs on the main thread is one step; a script runs in a
step of its own (`running`). A background task changes `mState` in steps (`Read`,
`Write`, each twice): `mState |= ...` is not atomic, and what the main thread did
between is undone. A null pointer that is followed on the main thread ends the
behaviour, and `crash` says where it was. `createLuaView` may give no view (no view
manager, a closed VM, or an exception that it catches, line 811): then
`onScriptLoadSuccess` returns, no script runs and no callback comes. The history
variable `noView` says that this was the end of the load begun last.

| Action | Code (`MLSInstance.java` unless said) |
|---|---|
| `SetData`, `Reload`, `OnReload`, `SetImediately` | `setData`, `reload`, `onReload` on the reload thread, `setHotReloadImediately` |
| `OnResume`, `OnPause`, `OnDestroy` | the methods of these names |
| `LoadScript`, `Bundle`, `LoadFailed` (operators) | `loadScript` with `initGlobals`, `onScriptLoadSuccess`, the runnable of `onScriptLoadFailed` |
| `Fetched`, `Read`, `Write`, `Post`, `Cancelled` | `BaseTask.run` of `DefaultScriptReaderImpl.java` and the page's callbacks up to where they post |
| `Executed`, `NotExecuted` | `onScriptExecuted` with `onLuaScriptExecutedSuccess`, from `ScriptLoader.java` |
| `RunLoad`, `RunBundle`, `RunLoadFailed`, `RunFailed`, `RunAppear`, `RunReload` | the runnables posted to the main thread; `RunReload` is `reloadByHotReload` |

### HotReload

`reloadState` is the set of its bits. Every `get()` and every `set()` is a step
of its own, so each thread is a small program counter with what it has read.
Submitting a task is in the step of the `set()` before it; no other thread reads
the queue.

| Thread | Actions | Code |
|---|---|---|
| receiver of a connection | `ReceiveChange`, `ReceiveReload`, `AcceptReload`, `AgainGet`, `AgainSet` | the `onFile...` methods, `onReload` |
| file thread | `FileCheck`, `FileGet`, `FileSet`, `FileApply`, `FileCount` | the file runnables with `waitReloading` |
| reload thread | `TaskStart` ... `TaskEnd` | the runnable of `onReload` |
| main thread | `BeginLoad`, `DeclineLoad`, `LoadSucceeds`, `LoadFails`, `LoadWithoutView`, `EndFailedLoad` | `MLSInstance.reloadByHotReload` and the callbacks of the load, or none |

Files are abstracted to counts: `done` is the number of changes the file thread is
done with, by writing them or by giving up a file it cannot create or write (lines
267, 304; the code counts both off alike), and `shown` is that number when the page
last began to load. A request is a number that stands for its entry file and
parameters. The entry file is local (USB and wifi write it to the phone), so a load
runs inside one runnable of the main thread. There is one page, rendered; its user
does not reload it and it is not destroyed, so a load that is left without a view
(`noView`) is the last.

### Transport and Stream

Commands are numbered; `sent[k]` has a kind and the byte the command ends at. The
decoder's `rawData` is the bytes between the end of command `consumed` and the byte
`got`, so `push` with any number of new bytes is arithmetic on the two: which
commands are complete (`Complete`), which are decoded before one of unknown type
(`LastDecoded`), and whether `decodeMessage` throws (`Throws`), in which case what
was decoded stays in `rawData` and comes again (`Rest`). What a broken connection
leaves in `rawData` is joined to the next connection's first bytes; from there on
the decoder is not followed (`garbled`).

| Thread | Actions | Code |
|---|---|---|
| accepting thread | `Accept`, `Connected`, `EndOfConnection`, `Receive` | `USBTransporter.run`, `ReaderImpl.read`, `DecoderImpl.push` |
| writer | `WriterStart`, `WriterTake`, `WriterWrites`, `WriterLoses`, `WriterDies`, `WriterEnd` | the runnable of `USBTransporter.run`, `WriterImpl` |
| page and server | `WriteLog`, `Stop` | `writeData`, `stop` |
| plugin | `Send`, `Disconnect` | external |

`Stream` says only that a message is handed over together with all behind the
first few that were handed over before: in order, without gaps, possibly again.

## 3. Runs

Every run whose `expect` is `pass` explores its instance completely. Deadlock is
not checked (`CHECK_DEADLOCK FALSE`): a VM that is closed, a page that is destroyed,
a plugin that sends nothing, and a state at a bound have nothing to do, and may
rest.

| Run | Instance | Properties | What it shows |
|---|---|---|---|
| `gnv` | 2 handles, 2 addresses used twice each, with and without a handler, fair | `TypeOK`, `HandleSound`, `NeverAnotherObject`, `NoUseAfterClose`, `RemovedOnce`, `DestroyIsCarriedOut` | a handle Java holds finds its own object, no later object at a reused address answers for it, no removal reaches a closed VM, none is made twice, an open VM drops one only without a handler, and with one handing `destroy()` from the finalizer to the looper loses no request |
| `gnv_release` | 2 handles, 1 address | `DestroyReleases` (violated) | finding 1 |
| `userdata_remove_cache` | 2 objects, 2 blocks, `TYPE_REMOVE_CACHE`, an adapter that may withhold | `TypeOK`, `RefCountCoversBlocks`, `ResolvesToOwner`, `LuaCreatedResolves`, `HeldResolves`, `DropsOnlyUnreferenced` | counts, ids and both caches stay right with both collectors at work |
| `userdata_resolve` | the same without the adapter | `EveryBlockResolves` (violated) | finding 2 |
| `pool_safety` | 3 allocations, 2 blocks of 4 chunks | `TypeOK`, `Tiled`, `Coalesced`, `BumpIsFree`, `EachItsOwnRun`, `UseCountsAddUp`, `ShrinkingSucceeds`, `ImplementsAllocator` | tags, counters and bump pointer stay consistent in every order of calls and with memory running out at any of them; seen from Lua the pool is an allocator |
| `pool_max` | 4 allocations, up to 6 blocks | `TotalWithinMax` (violated) | finding 3 |
| `hotreload_live` | 1 connection, 2 changes, 2 requests, failing scripts and views, fair | `TypeOK`, `SettledBeforeReload`, `OneReloadAtATime`, `ReloadsEnd`, `AcceptedIsShown` | a reload starts after the changes received ahead of its request are written or given up; lost updates never start a second one; each ends; the page loads what a submitted reload was submitted for, unless a script failed meanwhile; the last two but for a load left without a view |
| `hotreload_stuck` | 1 connection, 1 change, 2 requests | `NotStuck` (violated) | finding 4 |
| `globals` | 2 pages' VMs and an isolate's, 2 addresses, debug | `TypeOK`, `ClosedAtRest`, `RestCanBeDestroyed`, `NeverAnotherVM` | the registry never names a VM that is gone; no VM is closed under a script that did not load another, or under more calls than it refused; a VM at rest can be destroyed |
| `page` | 2 background tasks, 2 reloads, fair | `TypeOK`, `NoVMLeaks`, `GoneForGood`, `ShownIsAlive`, `LocalReloadEnds` | no order of loads, failures, reloads and lost state bits leaves a VM nobody will destroy, shows a view of a dead VM or brings a destroyed page back; a hot reload of a local script ends unless a load is left without a view |
| `page_switch` | 2 background tasks, 1 reload | `SuccessSwitches` (violated) | finding 5 |
| `transport` | 3 commands of 3 kinds, 2 messages, 2 connections, fair | `TypeOK`, `CompleteIsDelivered`, `OnceUnlessSplit`, `LogsInOrder`, `LogsArrive`, `ImplementsStream` | however the stream is cut, a complete command is handed over; once unless a read ended in a header or a type is unknown; in any case in order and without gaps; messages keep their order, and arrive while the first connection lasts |

### Bounds

- `MaxUses = 2`: an address is used by two objects in turn, which is what
  reuse needs; a third adds no new relation between a handle and an address.
- `MaxRefs = 1`: a script pins an object that nothing pins yet; two handles on it
  bring its count to three. `MaxRefCount = 2`: one reference is the last one, two
  are not. `RefStrong` and `PushNewBlock` stop there; nothing the code itself does
  depends on them. The proofs hold for every value of the bounds.
- `GcNumValues = 0`: a collection follows the first removal, so collections come
  as often as they can. The code's value only makes them rarer.
- `MaxJavaRef = 1`: declared and not declared. `onJavaRef` nests in the code.
- `MaxBlocks`: blocks the platform has memory for. Two blocks make the last one
  differ from the ones before it. The proofs hold for any number.
- The pool's numbers are scaled: counts wrap at 16 instead of 65536, a chunk has
  3 bytes of which 1 is the tag (24 and 8), a first block 4 chunks (4096), the
  maximum is 15 (65535). The order between them is the code's. `Sizes` sit at the
  edges of `need_chunk_count`: just fitting one chunk, just not fitting it, the
  size where the rounding needs its correction, and more than a block.
- `MaxChanges`, `MaxRequests`: the second request meets the first one's task at
  any of its steps, and so do the changes before and after it. The counters bound
  what the plugin sends, not what the machine does with it. One connection is
  what liveness needs; `ReloadsAreSettled` is proved for any number.
- `MaxDepth = 2`: a call within a call, a script within a script. `MaxRefused = 1`:
  the count one too low; lower is the same. Two addresses for three VMs force reuse;
  the addresses and the pages are interchangeable (symmetry; `globals` has no
  liveness property).
- `Tasks`, `MaxReloads`: two background tasks can both be between reading and
  writing `mState`, and two reloads meet a first load and each other. `made` is
  bounded by them.
- `HeaderLength = 2` instead of 9, with commands of 4, 2 (a ping, whose header is
  not read) and 3 bytes (of unknown type): a read can end in a header, behind it,
  in a body, and at the end of a command, and hold several commands. Two
  connections are one reconnection; two messages can be overtaken.

### Fairness

- The main looper runs what is posted to it, and a thread of an executor runs
  what is submitted: `WF` of `RunPosted`, `FileStep`, `ReloadStep`, `MainStep`,
  `Runnable`, `WriterStep`, `Background`.
- A method that was entered goes on: `WF` of `FinalizeCheck`, `FinalizePost`,
  `ReceiverStep`, `AcceptorGoesOn`. The last leaves out the end of a read on a
  connection that is up, which may block for as long as it is.
- `LuaCApi._lgc` returns: `WF` of `EndGc`. A script ends: `WF` of `Script` (one that
  does not stops the main thread).
- What was sent arrives while the connection is up: `WF` of `Arrival`.
- The finalizer thread gets to the objects Java lost: `WF` of `Finalize`. This is
  the weakest of them (Java gives no time), and `DestroyIsCarriedOut` says no more
  than that a finalizer that runs is enough.
- Messages, connections, reloads, Java code and the collectors are never required
  to act.

All five liveness properties have an exception, each because the code has it.
`DestroyIsCarriedOut`: only where there is a handler to post to; without one
`WithoutHandlerNoneIsRemoved` is proved. `ReloadsEnd`, `AcceptedIsShown`,
`LocalReloadEnds`: after a load that was left without a view nothing clears the
page's state (`MLSInstance.java:811`, 1382); what follows is proved as `PollsForEver`
and `OnlyTheUserLeavesIt`. `AcceptedIsShown`: a script that fails is cleaned up in a
posted runnable, and a reload that the main thread reaches before that is declined
(`MLSInstance.java:735`) while its task may have polled `reloadFinish` already.
`LocalReloadEnds`: with a script that must be fetched a reload may never end (see
the list in section 5). `LogsArrive`: only on the first connection.

## 4. Proofs

TLAPS checks each theorem for every value of the constants that satisfies the
`ASSUME` of the module. In each module an inductive invariant `IInv` is the
properties with what they need to be inductive; there is a lemma per action or
per operator of the model, and the theorems follow.

**`GNV_proofs`**: `TypeCorrect`, `HandlesAreSound`, `AddressesAreNotConfused`,
`ClosedIsNotUsed`, `RemovalIsOnce`, `WithoutHandlerNoneIsRemoved`, `EntriesLast`,
`RequestsMoveOn`, `CollectionsAreFew`. The invariant is `IInv == TypeOK /\ Pins /\
Bound /\ OneRequest /\ Asked /\ NoQueue /\ NoUseAfterClose`. None of the properties
is inductive: `HandleSound` needs that every entry pins an object at its address
(`Pins`) and that every handle's entry is still the one it was made with (`Bound`),
also after its `destroy()`; `RemovedOnce` needs where a handle's only request is
(`OneRequest`: with the finalizer, in the queue, or done) and that on an open VM
with a handler it is somewhere (`Asked`; a handle that looks destroyed has been
asked to be). Without a handler the queue is empty (`NoQueue`), so what Java has
lost is never removed: its object stays pinned until the VM is closed. The lemma
everything rests on is `RemoveFindsNothing`: in every table the program can build,
`removeValueFromGNV` finds no entry. The handles are safe *because* the table leaks.
Changing the key in `RemoveKey` alone to a light userdata breaks `HandleSound` and
`NeverAnotherObject`: a destroyed handle answers again through `checkStateByNative`
when its address is reused, and `ref.weak` can take the reference of a Java handle
away. A repair has to change these too.

The last two are what `DestroyIsCarriedOut` rests on besides fairness. On an open
VM with a handler a request goes through its stages one at a time and never back
(`Stage`). A
posted removal may find a collection running and be put off; `GcRank` weighs the
handles whose removal is not made, the removals counted since the last collection
and the collection itself, and falls whenever a collection begins or ends, so
with finitely many handles that happens only so often.

**`UserdataCache_proofs`**: `TypeCorrect`, `CountsCoverBlocks`,
`BlocksResolveToOwners`, `ScriptUserdataResolve`, `HeldObjectsResolve`,
`OnlyUnreferencedAreDropped`. The invariant adds to the properties: what is filed
under an id has that id (`Filed`), ids differ (`IdsDiffer`), a block has its
object's id (`BlockIds`), what an unborn object cannot have (`Births`), what keeps
an object from being finalized (`Reachable`), which objects can have a strong block
(`StrongByLua`), that an object a script created is in the cache as long as it has a
block (`LuaCached`), and that a closed VM has no blocks. The theorems hold for each
of the three cache types, with and without the debug hook; the runs take the
default, `TYPE_REMOVE_CACHE`. `HeldObjectsResolve` says that the caches have the
object and that null can only come from the hook; what a script created stays in the
strong cache, so for it the hook is never asked (`ScriptUserdataResolve`). The
counting argument is in lemmas on the cardinality of the blocks of an object.

**`MemPool_proofs`**: `TypeCorrect`, `BlocksAreTiled`, `BumpRunIsFree`, `OwnRuns`,
`ShrinkingNeverFails` and `PoolImplementsAllocator`, all under `SizesFit`: the sizes
Lua asks for fit in as many chunks as 16 bits can count. The assumption cannot be
dropped: `need_chunk_count` cuts the count of any other size (`mempool.c:456`) to
one without the room (`TooLargeIsCut`). In the code it says that nothing larger than
1572832 bytes is asked for (`SizesOfTheCode`). The argument has three layers. `Row`
is what the tags are: they tile the blocks, and each knows the length of the run
before it; every operation on tags is a sequence of splits (`SplitRow`) and joins
(`MergeRow`). `Good` is a row with the bump pointer in its place; for each C
function there is a lemma that it keeps the pool good and changes, of the runs in
use (`Used`), only the one it was called for (`AllocFacts`, `FreeFacts`,
`ReallocFacts`), whichever of its branches is taken. `IInv` is `Good` and the
correspondence between Lua's allocations and the runs in use (`HasRoom`, `Apart`,
`NothingElse`). `NeedFacts` says that the number of chunks asked for is the least
with enough room, and least is what makes a smaller request fit in place
(`ShrinkingSucceeds`). First fit is a `CHOOSE` over a set; that it has a least
element is proved by well-founded induction on pairs of numbers (`LeastElement`).
The refinement adds that a run's cells are as many as its tag says (`CellsCount`)
and that two runs share none (`CellsApart`).

**`MemPoolUpkeep_proofs`** builds on it, under the same `SizesFit`:
`FreeRunsAreJoined` and `CountersAreExact`. Both hold between calls and not inside
them: halfway through `mp_free` two free runs stand side by side, and a counter
changes before or after the tags. So the invariant is of the pool between calls,
`Neat`: `Tight` (no two neighbours are free) and `Counted` (the counter of a block
is the number of chunks of its runs in use). For `Tight` it is enough to know what
a cut and a join do to it: cutting a run in use keeps it (`ShortenedTight`), and a
join moves the one place where it may fail to the joined run (`MergeTight`), so that
`mp_free`, which starts with such a place, ends without one (`ButAt`,
`JoinNextTight`). For `Counted`, a function touches one run in use, by
`MemPool_proofs`, so the counter follows if it changed by the difference in that
run's length (`CountedAfter`). `UseCountsAddUp` counts chunks as elements of sets,
which needs facts about cardinality and no sum over a set.

**`Globals_proofs`**: `TypeCorrect`, `NothingRunsInAClosedVM`,
`AtRestMayBeDestroyed`, `RegistryIsRight`. The invariant adds to the properties
that `calledFunction` is `calls` minus `refused` (`Counted`), that the state
"calling" is that of a running script and a running script's state is "calling" unless
it loaded another (`Calling`), and, for the registry, that open
VMs are at different addresses and that the address of an open VM leads to it if it
is registered at all (`Registered`; an isolate may have lost its entry).

**`Page_proofs`**: `TypeCorrect`, `VMsAreOwned`, `GoneIsGone`, `ShownAlive`,
`LocalReloadIsUnderWay`, `OnlyTheUserLeavesIt`. The invariant says which VMs the
fields own and which of them are open (`Owned`, `Alive`, together `Sound`), and what
a destroyed page looks like (`Dead`: no view manager and no data). The last is the
point: the bit `STATE_DESTROY` may be written away by a background task, and what
then stops a late load is that these two are null. `LocalReloadIsUnderWay` is the
safety half of `LocalReloadEnds`: as long as every script is found or missed at once
(`[]AllFree`; with a fetch it does not hold, see section 5), a bit that marks work
is set only while the script runs, while the runnable that clears it is posted, or
once a load was left without a view. `Local` relates the bits to the fields, the
running script and the queue, and says what remains of them after `onDestroy`. From
it follows also what such a load leaves behind: a page that the plugin cannot get to
load anything again (`OnlyTheUserLeavesIt`).

**`HotReload_proofs`**: `TypeCorrect` and `ReloadsAreSettled` for any number of
connections, `OneAtATime` for one connection (`OneConnection`), `FlagMeansLoading`,
`DeclinedAfterFailure`, `PollsForEver`, `StuckForEver`, `NothingLost`,
`NothingDeclined`, `WaitComesNearer`, `PollComesNearer`. `ReloadsAreSettled` needs
that a change received is done with or still counted, and that the change being
counted off is both (`Counted`): this is what the order increment, submit, write,
decrement gives. `OneAtATime` needs that while a reload is pending neither the state
nor what a receiver is about to write back looks free (`BusyLooksBusy`). With two
connections both may read a free state before either writes, so `OneReloadAtATime`
is only claimed for one.

`FlagIsExact` (the page's hot-reload flag is set exactly while one load runs, while
the cleanup of a failed one is posted, or after a load that was left without a view)
holds for any number of connections: every other load ends in a callback that clears
the flag or posts the one cleanup that does, and no load begins in between. So a
declined reload is always one that came behind a failed script or a lost load
(`DeclinedAfterFailure`), which are the exceptions `AcceptedIsShown` makes; where
neither happens none is declined, and what a task has posted stays in the queue
until a load begins with its changes done (`NothingLost`, by `PostedIsKept`). After
a lost load the flag stays set and a poll for it goes on, for good (`PollsForEver`).
`StuckForEver` completes finding 4: a state that is busy when every thread rests is
never freed, by any number of requests of any number of connections. A reload task
waits twice, for the files and for the flag, and for each wait there is a rank that
nothing raises and the thread it waits for lowers. That a busy state sends the file
thread back to its check is why the first counts what the receiver may still write
(`AskRank`); the second needs `FlagIsExact`.

**`Transport_proofs`**: `TypeCorrect`, `CompleteCommandsAreDelivered`,
`ReplaysAreExplained`, `DecoderImplementsStream`, `MessagesKeepTheirOrder`,
`NothingLostAtFirst`, `MessagesComeNearer`, for every size of commands and header,
and any number of commands, messages and connections. Two invariants that share no
variable: `WInv` (what arrived, what the writer took and what is queued, one behind
the other, is an increasing sequence) and `DInv` (`Behind`: `rawData` begins behind
no command that was not handed over, and what was handed over has arrived; `Within`:
no more has arrived than was sent; `Once`: `OnceUnlessSplit` for what is complete,
because what is not may be cut off; and `CompleteIsDelivered`). The first command of
unknown type is the least element of a set of numbers. A third, `FInv`, is of the
first connection before it breaks: the messages that arrived, the one taken and the
queue have no gap (`NoneMissing`), and the writer is submitted, starting or in its
loop (`WriterThere`). It gives the safety half of `LogsArrive`: no message is lost,
and `Away(n)`, the steps of the accepting thread and the writer that message `n` is
away from the plugin, is lowered by each of their steps and raised by nothing. After
a reconnection neither holds (section 5).

**Only model-checked**: the violations, and the liveness properties
(`DestroyIsCarriedOut`, `ReloadsEnd`, `AcceptedIsShown`, `LocalReloadEnds`,
`LogsArrive`): reasoning from fairness goes through ENABLED, which is out of the
prover's reach here. Their safety half is proved where it could be told apart:
what is waited for is not lost and someone is there to bring it about
(`RemovalIsOnce`, `FlagMeansLoading`, `NothingLost`, `NothingLostAtFirst`,
`LocalReloadIsUnderWay`), and the steps that do so lower a number (`CollectionsAreFew`,
`WaitComesNearer`, `PollComesNearer`, `MessagesComeNearer`) or advance a stage that is
never gone back on (`RequestsMoveOn`). What remains for TLC is that a thread with a
step to take takes it. For `AcceptedIsShown` with failing scripts, and for a page with
a script to fetch, there is no such theorem.

## 5. Findings

Each is a run TLC finds violated by what the code does. The statements they
contradict are quoted in `PROJECT.json`.

1. **GNV entries are never removed** (`cache.c:200`). Stored under a light
   userdata, looked up under a number.
2. **A userdata pushed again may have no object** (`UserdataCache.java:57`).
   An object that left the cache keeps its id and is not cached again.
3. **The pool outgrows its maximum** (`mempool.c:374`). Used chunks are counted
   where sizes should be, and the rest wraps.
4. **Reloading stops for ever** (`HotReloadHelper.java:194`, also 242). `get()`
   and `set()` straddle the end of a task and write its state back. Nothing that is
   sent later frees it (`StuckForEver`).
5. **A hot reload that succeeds fails at the switch** (`MLSInstance.java:869`).
   After a first load that found no script there is no view to switch from.

Known from modelling, without a run of their own:

- `mempool.c:456`: the number of chunks is cut to 16 bits before it is compared
  with a block. The theorems about the pool assume that it fits.
- `mempool.c:395`: a failed growth of the second array leaves `arr_size` raised.
- `HotReloadHelper.java:228` (with 208): a request that comes during a reload is
  served only if a file changed in one window. Line 195 (with 229): its entry file
  and parameters are lost.
- `MLSInstance.java:811` (with 1382): when making the view throws, `createLuaView`
  catches it and returns null, and `onScriptLoadSuccess` returns without a callback.
  `STATE_SCRIPT_LOADING` stays set, and `STATE_HOT_RELOADING` in a hot reload: the page
  takes no hot reload any more and the poll of the reload task never ends. After a
  first load the text "点击重新加载" (click to load again) of line 813 does not help:
  `reloadClickListener` asks for `STATE_ERROR` or a finished page (line 1188).
- `HotReloadHelper.java:222`: `reloadFinish` is polled without a limit. An immediate
  reload while another load is under way whose fetch fails leaves
  `STATE_SCRIPT_LOADING` and `STATE_HOT_RELOADING` set, so the poll never ends and
  no page reloads any more.
- `HotReloadHelper.java:289`: a file task that throws never counts its change off.
- `MLSInstance.java:890`, `1253`, `1343`: the runnable of the appear event, that of a
  hot reload and that of a failed script follow fields that `onDestroy` or `reload`
  may have set to null (`crash` in `Page`).
- `Globals.java:1507`: in a VM without a handler a removal that has to be posted is
  dropped, and `removeStack` returns true (`WithoutHandlerNoneIsRemoved`).
- `Globals.java:812` (and 833, 853, 938): a load under a running script overwrites the
  state "calling", and `destroy()` (line 1314) may then close the VM under that script.
  Line 926: what `require` runs, it never sees.
- `UserdataCache.java:79`: a debug build's adapter may answer null for an object the
  soft cache has; a block collected then does not count its object down.
- `Globals.java:1552`: if `luaGcCast` throws, `inGC` stays set. Line 1339: an
  isolate created at the address of a VM between its `_close` and `cache.remove`
  loses its registration, and its end is not reported to it (`dangling` in
  `Globals`). Line 570: `g_cahce` is looked up with an index above zero only. Line
  1014: `callLoadedDataAndGetResult` leaves the state "calling" when the script
  throws; it has no caller.
- `LuaFunction.java:337`: a refused call is counted off without having been counted.
  `jfunction.c:218`, `238`, `252`, `266`: two arguments are pushed and one is announced.
- `cache.c:150`: a userdata created by a script that is not strong has key 0.
- `USBTransporter.java:77`: the old connection's writer sets the new connection's
  `output` to null; the next message ends its writer, and later ones stay in the
  queue, although the comment at 72 says that each connection starts a thread to
  write. Line 98: the writer blocks in `take()` after the connection is gone.
- `NetTransporter.java:43`: the task is submitted before `isStopped` is cleared, so it
  may find itself stopped. `HotReloadServer.java:199`: a client is replaced under
  the threads of the old one.
- `PreGlobalInitUtils.java:117` to 140: a signal that is given before the wait is
  lost, and the task waits for ever.
- `list.c:89`: `list_relist` does not count the elements in front of the first gap,
  so those behind it are moved over them. `MemoryMonitor.java:207`: a monitor that is
  stopped leaves its wait and follows a null listener. `ScriptLoader.java:84`: the
  callback that "is certain to be called" is not when the VM was destroyed.

## 6. Order of the work, and what is left of it

The pool came first, then handles and userdata, the reload machine, the registry
and calls, the page, and the transport: from what every script uses to what a
developer uses. In that order, what could follow:

1. `HotReload` driving `Page` itself instead of its own small page. The product has
   too many states for one run; what the two share is small enough to be stated as
   an abstract page that both are checked against.
2. `PreGlobalInitUtils` with its lock and signal, between the page and the registry.
3. `NetTransporter` and `HotReloadServer`: a second transport, and which client is
   the current one.

## 7. Not modelled

- **Globals**: Lua code that `require` and `startDebug` run, which the guard of
  `destroy()` does not see; `g_cahce` and the VM of the global isolate, the arguments
  `jfunction.c` pushes, the callbacks registered for the end of a VM.
- **Page**: child life cycles, containers and view contents, key and permission
  events: they are handed on and change no state of the page. The list of pages in
  `HotReloadHelper` and its iterator: `HotReload` has one page, without its user's
  reloads and its end (`Page` has both). Network entry files
  in `HotReload` (`Page` has fetched scripts).
- **Transport**: bytes and protocol buffers; what the decoder reads once the rest
  of a broken command is in front of it; `NetTransporter`, `HotReloadServer`.
- **PreGlobalInitUtils, MemoryMonitor, the containers** (`map.c`, `list.c`): small, and
  apart from the hazards listed for them sequential or a single thread.
- Values that cross the bridge (numbers, strings, conversions of arguments), and
  the content of files and scripts.
- Torn states: a failed array growth in `alloc_block` ends a behaviour of
  `MemPool`; data races on the arrays behind the caches are taken as whole steps.
- Time: the 10 ms of `canDestroySync`, the interval between collections and the
  sleeps of the reload task are free choices.
- The Lua VM and SQLite with its wrapper (`mlnservice/src/main/cpp`), the scanner,
  generated code, widgets and the example pages. They are most of the
  repository's lines, vendored or generated, and are the environment of what is
  modelled: the collector, the allocator's caller, the platform.
