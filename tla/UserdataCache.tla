--------------------------- MODULE UserdataCache ----------------------------
(***************************************************************************)
(* Java objects behind Lua userdata (LuaUserdata), the per-VM cache that   *)
(* keeps them by id (UserdataCache), and the Lua userdata blocks that      *)
(* carry an id (juserdata.c, jinfo.c).                                     *)
(*                                                                         *)
(* A block holds no reference on its object: every call from Lua asks      *)
(* Java for the object of the block's id.  refCount counts the blocks of   *)
(* an object, javaRefCount what Java declares with onJavaRef; when neither *)
(* holds it the object leaves the cache and only Java references, or a     *)
(* SoftReference, keep it.  Lua's collector, Java's collector and its      *)
(* finalizer run at any time.                                              *)
(***************************************************************************)
EXTENDS Integers, FiniteSets

CONSTANTS
  Obj,           \* Java LuaUserdata objects
  Block,         \* Lua userdata blocks (their addresses)
  NoObj,         \* null
  CacheType,     \* MLNCore.UserdataCacheType: "NONE", "REMOVE", "REMOVE_CACHE"
  MayWithhold,   \* MLNCore.DEBUG, and an OnRemovedUserdataAdapter that may return null
  MaxJavaRef,    \* bound on javaRefCount
  MaxRefCount    \* bound: a refCount up to which an object is pushed again

ASSUME UserdataCacheAssumption ==
  /\ NoObj \notin Obj
  /\ CacheType \in {"NONE", "REMOVE", "REMOVE_CACHE"}
  /\ MayWithhold \in BOOLEAN
  /\ MaxJavaRef \in Nat
  /\ MaxRefCount \in Nat
  /\ IsFiniteSet(Block)

VARIABLES
  open,        \* ~Globals.isDestroyed()
  cacheLong,   \* the next id
  cache,       \* id -> object, strong references
  removed,     \* id -> object, soft references not cleared yet
  life,        \* each object: "unborn", "live", "finalized"
  id,          \* LuaUserdata.id, 0 when it was never cached
  key,         \* nativeGlobalKey: "none" (0), "global", "gnv" (its block's address)
  refCount, javaRef,
  held,        \* objects Java code holds
  owner,       \* each block: the object it was made for; NoObj when free
  bid,         \* the id in the block
  strong,      \* JUD_FLAG_STRONG of the block
  skey,        \* JUD_FLAG_SKEY of the block
  luaRef,      \* blocks Lua refers to
  pinned       \* blocks in the GNV table

objVars == <<life, id, key, refCount, javaRef>>
blockVars == <<owner, bid, strong, skey, luaRef, pinned>>
vars == <<open, cacheLong, cache, removed, objVars, held, blockVars>>

Live(b) == owner[b] # NoObj
BlocksOf(o) == {b \in Block : owner[b] = o}
Values(f) == {f[i] : i \in DOMAIN f}
Empty == [i \in {} |-> NoObj]
Without(f, i) == [j \in DOMAIN f \ {i} |-> f[j]]
With(f, i, o) == [j \in DOMAIN f \cup {i} |-> IF j = i THEN o ELSE f[j]]

TypeOK ==
  /\ open \in BOOLEAN
  /\ cacheLong \in Nat \ {0}
  /\ DOMAIN cache \subseteq 1 .. (cacheLong - 1) /\ Values(cache) \subseteq Obj
  /\ DOMAIN removed \subseteq 1 .. (cacheLong - 1) /\ Values(removed) \subseteq Obj
  /\ life \in [Obj -> {"unborn", "live", "finalized"}]
  /\ id \in [Obj -> 0 .. (cacheLong - 1)]
  /\ key \in [Obj -> {"none", "global", "gnv"}]
  /\ refCount \in [Obj -> Int]
  /\ javaRef \in [Obj -> 0 .. MaxJavaRef]
  /\ held \subseteq Obj
  /\ owner \in [Block -> Obj \cup {NoObj}]
  /\ bid \in [Block -> 0 .. (cacheLong - 1)]
  /\ strong \in [Block -> BOOLEAN]
  /\ skey \in [Block -> BOOLEAN]
  /\ luaRef \subseteq {b \in Block : Live(b)}
  /\ pinned \subseteq {b \in Block : Live(b)}

Init ==
  /\ open = TRUE
  /\ cacheLong = 1
  /\ cache = Empty
  /\ removed = Empty
  /\ life = [o \in Obj |-> "unborn"]
  /\ id = [o \in Obj |-> 0]
  /\ key = [o \in Obj |-> "none"]
  /\ refCount = [o \in Obj |-> 0]
  /\ javaRef = [o \in Obj |-> 0]
  /\ held = {}
  /\ owner = [b \in Block |-> NoObj]
  /\ bid = [b \in Block |-> 0]
  /\ strong = [b \in Block |-> FALSE]
  /\ skey = [b \in Block |-> FALSE]
  /\ luaRef = {}
  /\ pinned = {}

-----------------------------------------------------------------------------
(* UserdataCache.                                                          *)

\* What the caches have for an id: the cached object or, with
\* TYPE_REMOVE_CACHE, what the soft reference still has.
Found(i) ==
  IF i \in DOMAIN cache THEN cache[i]
  ELSE IF CacheType = "REMOVE_CACHE" /\ i \in DOMAIN removed THEN removed[i]
  ELSE NoObj

\* The answers get may give.  In a debug build what only a soft reference has
\* goes through MLNCore.onNullGet, whose adapter returns it or null.
Get(i) ==
  IF MayWithhold /\ i \notin DOMAIN cache THEN {Found(i), NoObj} ELSE {Found(i)}

\* (Fault_ operators are the plausible mistakes the properties are tried
\* against; no action uses them.)
Fault_NextId(i) == i
NextId(i) == i + 1

\* put, from both constructors: an id and a place in the cache, unless the VM
\* is destroyed.
Put(o) ==
  IF open
  THEN /\ id' = [id EXCEPT ![o] = cacheLong]
       /\ cacheLong' = NextId(cacheLong)
       /\ cache' = With(cache, cacheLong, o)
  ELSE UNCHANGED <<id, cacheLong, cache>>

\* onUserdataGc(ud, false).
Fault_OnUserdataGc(o) == cache' = Without(cache, id[o]) /\ UNCHANGED removed
OnUserdataGc(o) ==
  \/ CacheType = "NONE" /\ UNCHANGED <<cache, removed>>
  \/ CacheType = "REMOVE" /\ cache' = Without(cache, id[o]) /\ UNCHANGED removed
  \/ /\ CacheType = "REMOVE_CACHE"
     /\ cache' = Without(cache, id[o])
     /\ removed' = With(removed, id[o], o)

-----------------------------------------------------------------------------
(* Java code.                                                              *)

\* LuaUserdata(Globals, T): created by Java, no native reference yet.
JavaNew(o) ==
  /\ life[o] = "unborn"
  /\ life' = [life EXCEPT ![o] = "live"]
  /\ key' = [key EXCEPT ![o] = "global"]
  /\ Put(o)
  /\ held' = held \cup {o}
  /\ UNCHANGED <<open, removed, refCount, javaRef, blockVars>>

OnJavaRef(o) ==
  /\ o \in held /\ javaRef[o] < MaxJavaRef
  /\ javaRef' = [javaRef EXCEPT ![o] = @ + 1]
  /\ UNCHANGED <<open, cacheLong, cache, removed, life, id, key, refCount, held,
                 blockVars>>

\* onJavaRecycle keeps an object that Lua counts; __onLuaGc one that Java
\* counts.
Fault_KeptByLua(o) == FALSE
KeptByLua(o) == refCount[o] > 0

Fault_KeptByJava(o) == FALSE
KeptByJava(o) == javaRef[o] > 0

\* onJavaRecycle, called by holders that called onJavaRef.
OnJavaRecycle(o) ==
  /\ o \in held /\ javaRef[o] > 0
  /\ javaRef' = [javaRef EXCEPT ![o] = @ - 1]
  /\ IF KeptByLua(o) \/ ~open \/ javaRef'[o] > 0
     THEN UNCHANGED <<cache, removed>> ELSE OnUserdataGc(o)
  /\ UNCHANGED <<open, cacheLong, life, id, key, refCount, held, blockVars>>

JavaDrop(o) ==
  /\ o \in held
  /\ held' = held \ {o}
  /\ UNCHANGED <<open, cacheLong, cache, removed, objVars, blockVars>>

\* Java's collector clears a soft reference to an object nothing else holds.
ClearSoft(i) ==
  /\ i \in DOMAIN removed /\ removed[i] \notin held \cup Values(cache)
  /\ removed' = Without(removed, i)
  /\ UNCHANGED <<open, cacheLong, cache, objVars, held, blockVars>>

\* finalize, on an object nothing refers to.
Finalize(o) ==
  /\ life[o] = "live" /\ o \notin held \cup Values(cache) \cup Values(removed)
  /\ life' = [life EXCEPT ![o] = "finalized"]
  /\ javaRef' = [javaRef EXCEPT ![o] = 0]
  /\ refCount' = [refCount EXCEPT ![o] = 0]
  /\ cache' = Without(cache, id[o])
  /\ UNCHANGED <<open, cacheLong, removed, id, key, held, blockVars>>

-----------------------------------------------------------------------------
(* Lua code and the bridge.                                                *)

\* lua_newuserdata for o: the block b is new and Lua refers to it.
NewBlock(b, o, i) ==
  /\ ~Live(b)
  /\ owner' = [owner EXCEPT ![b] = o]
  /\ bid' = [bid EXCEPT ![b] = i]
  /\ luaRef' = luaRef \cup {b}

\* new_java_obj: a script calls the constructor of a registered class.  For a
\* JavaUserdata class (isStrong) the block enters the GNV table at once; for
\* any other class new_java_obj leaves ud->flag as lua_newuserdata's memory
\* has it, so both bits are arbitrary.
LuaNew(o, b, isStrong) ==
  /\ open /\ life[o] = "unborn"
  /\ life' = [life EXCEPT ![o] = "live"]
  /\ Put(o)
  /\ refCount' = [refCount EXCEPT ![o] = 1]
  /\ NewBlock(b, o, cacheLong)
  /\ \E s, k \in BOOLEAN : /\ isStrong => s /\ k
                           /\ strong' = [strong EXCEPT ![b] = s]
                           /\ skey' = [skey EXCEPT ![b] = k]
  /\ key' = [key EXCEPT ![o] = IF isStrong THEN "gnv" ELSE "none"]
  /\ pinned' = IF isStrong THEN pinned \cup {b} ELSE pinned
  /\ UNCHANGED <<open, removed, javaRef, held>>

\* The Java constructor throws after LuaUserdata's ran: no block is made for
\* the object that was cached.
LuaNewThrows(o) ==
  /\ open /\ life[o] = "unborn"
  /\ life' = [life EXCEPT ![o] = "live"]
  /\ Put(o)
  /\ refCount' = [refCount EXCEPT ![o] = 1]
  /\ UNCHANGED <<open, removed, key, javaRef, held, blockVars>>

\* executeJavaUDFunction: a script calls a method; the object may keep itself.
CallMethod(b) ==
  /\ open /\ b \in luaRef
  /\ \E o \in Get(bid[b]) \ {NoObj} : held' = held \cup {o}
  /\ UNCHANGED <<open, cacheLong, cache, removed, objVars, blockVars>>

\* newLuaUserdata: a script passes the userdata to Java.  A strong block that
\* has no key yet is put into the GNV table and its object told the key.
PassToJava(b) ==
  /\ open /\ b \in luaRef
  /\ \E o \in Get(bid[b]) \ {NoObj} :
       /\ held' = held \cup {o}
       /\ IF strong[b] /\ ~skey[b]
          THEN /\ pinned' = pinned \cup {b}
               /\ key' = [key EXCEPT ![o] = "gnv"]
               /\ skey' = [skey EXCEPT ![b] = TRUE]
          ELSE UNCHANGED <<pinned, key, skey>>
  /\ UNCHANGED <<open, cacheLong, cache, removed, life, id, refCount, javaRef,
                 owner, bid, strong, luaRef>>

\* addRef, which pushUserdataFromJUD calls for the block it makes.
Fault_AddRef(o) == refCount' = [refCount EXCEPT ![o] = 1]
AddRef(o) == refCount' = [refCount EXCEPT ![o] = @ + 1]

\* pushUserdataFromJUD: an object Java created gets one more block.
PushNewBlock(o, b) ==
  /\ open /\ o \in held /\ key[o] = "global" /\ refCount[o] < MaxRefCount
  /\ AddRef(o)
  /\ NewBlock(b, o, id[o])
  /\ strong' = [strong EXCEPT ![b] = FALSE]
  /\ skey' = [skey EXCEPT ![b] = FALSE]
  /\ UNCHANGED <<open, cacheLong, cache, removed, life, id, key, javaRef, held,
                 pinned>>

\* pushUserdataFromJUD when the class has no metatable in this VM: luaL_error
\* leaves a block without __gc behind and the reference counted.
PushFails(o) ==
  /\ open /\ o \in held /\ key[o] = "global" /\ refCount[o] < MaxRefCount
  /\ AddRef(o)
  /\ UNCHANGED <<open, cacheLong, cache, removed, life, id, key, javaRef, held,
                 blockVars>>

\* pushJavaUserdata through the GNV table.
PushPinned(o, b) ==
  /\ open /\ o \in held /\ key[o] = "gnv" /\ b \in pinned /\ owner[b] = o
  /\ luaRef' = luaRef \cup {b}
  /\ UNCHANGED <<open, cacheLong, cache, removed, objVars, held, owner, bid,
                 strong, skey, pinned>>

\* ref_strong on a userdata: its block enters the GNV table, its flags and its
\* object's key stay.  Nothing takes a block out again: removeValueFromGNV finds
\* no entry (module GNVTable), so ref_weak and JavaUserdata.destroy leave it.
RefStrong(b) ==
  /\ open /\ b \in luaRef
  /\ pinned' = pinned \cup {b}
  /\ UNCHANGED <<open, cacheLong, cache, removed, objVars, held, owner, bid,
                 strong, skey, luaRef>>

LuaDrop(b) ==
  /\ b \in luaRef
  /\ luaRef' = luaRef \ {b}
  /\ UNCHANGED <<open, cacheLong, cache, removed, objVars, held, owner, bid,
                 strong, skey, pinned>>

\* LuaUserdata.__onLuaGc on an open VM.
OnLuaGc(o) ==
  /\ refCount' = [refCount EXCEPT ![o] = @ - 1]
  /\ IF KeptByJava(o) \/ refCount'[o] > 0
     THEN UNCHANGED <<cache, removed>> ELSE OnUserdataGc(o)

\* gc_userdata: Lua collects a block; nothing happens when get answers null.
LuaGc(b) ==
  /\ open /\ Live(b) /\ b \notin luaRef \cup pinned
  /\ owner' = [owner EXCEPT ![b] = NoObj]
  /\ \E o \in Get(bid[b]) : IF o = NoObj THEN UNCHANGED <<cache, removed, refCount>>
                                         ELSE OnLuaGc(o)
  /\ UNCHANGED <<open, cacheLong, life, id, key, javaRef, held, bid, strong,
                 skey, luaRef, pinned>>

\* Globals.destroy: lua_close collects every block, with isDestroyed() true,
\* then UserdataCache.onDestroy calls __onLuaGc on what is still cached.
DestroyGlobals ==
  /\ open
  /\ open' = FALSE
  /\ \E answer \in [Block -> Obj \cup {NoObj}] :
       /\ \A b \in Block : answer[b] \in Get(bid[b])
       /\ refCount' = [o \in Obj |->
            refCount[o] - Cardinality({b \in Block : Live(b) /\ answer[b] = o})
                        - (IF o \in Values(cache) THEN 1 ELSE 0)]
  /\ cache' = Empty
  /\ removed' = Empty
  /\ owner' = [b \in Block |-> NoObj]
  /\ luaRef' = {}
  /\ pinned' = {}
  /\ UNCHANGED <<cacheLong, life, id, key, javaRef, held, bid, strong, skey>>

JavaStep ==
  \/ \E o \in Obj : \/ JavaNew(o) \/ OnJavaRef(o) \/ OnJavaRecycle(o)
                    \/ JavaDrop(o) \/ Finalize(o)
  \/ \E i \in DOMAIN removed : ClearSoft(i)

LuaStep ==
  \/ \E o \in Obj, b \in Block : \/ \E s \in BOOLEAN : LuaNew(o, b, s)
                                 \/ PushNewBlock(o, b) \/ PushPinned(o, b)
  \/ \E o \in Obj : LuaNewThrows(o) \/ PushFails(o)
  \/ \E b \in Block : \/ CallMethod(b) \/ PassToJava(b) \/ RefStrong(b)
                      \/ LuaDrop(b) \/ LuaGc(b)
  \/ DestroyGlobals

Next == JavaStep \/ LuaStep

Spec == Init /\ [][Next]_vars

-----------------------------------------------------------------------------
(* Properties.                                                             *)

\* The native reference count of an object covers every block made for it, so
\* it cannot reach zero while Lua can still call the object.
RefCountCoversBlocks ==
  \A o \in Obj : open /\ life[o] = "live" => Cardinality(BlocksOf(o)) <= refCount[o]

\* A block never reaches another object than its own: ids are not reused.
ResolvesToOwner ==
  \A b \in Block : Live(b) => Get(bid[b]) \subseteq {owner[b], NoObj}

\* A userdata a script created itself finds its object for as long as the
\* block lives, whatever Java does with the object, whichever flag bits the
\* block started with and whatever the debug hook answers; so copyUDToGNV never
\* meets a null object.
LuaCreatedResolves ==
  \A b \in Block : Live(b) /\ key[owner[b]] # "global" => Get(bid[b]) = {owner[b]}

\* While Java holds an object, Lua finds it by its id, except with TYPE_REMOVE
\* and where the debug hook withholds it.
HeldResolves ==
  \A o \in held : open /\ id[o] # 0 /\ CacheType # "REMOVE"
    => /\ o \in Get(id[o])
       /\ NoObj \in Get(id[o]) => MayWithhold

\* An object leaves the cache of a live VM only when no block was made for it
\* and Java declares no reference on it.
DropsOnlyUnreferenced ==
  [][\A o \in Values(cache) :
       open' /\ o \notin Values(cache') => BlocksOf(o)' = {} /\ javaRef'[o] = 0]_vars

\* UserdataCache: "each object has its own long value, through which the native
\* layer gets the java object and runs its functions".
EveryBlockResolves ==
  \A b \in Block : Live(b) => NoObj \notin Get(bid[b])
=============================================================================
