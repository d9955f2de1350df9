----------------------- MODULE UserdataCache_proofs -----------------------
(***************************************************************************)
(* Safety of UserdataCache for every number of objects and blocks and for  *)
(* every cache type.                                                       *)
(*                                                                         *)
(* The argument.  Ids are handed out once (IdsDiffer), the caches hold an  *)
(* object under its own id (Filed) and a block carries the id of its       *)
(* object (BlockIds), so what a block resolves to is its object or         *)
(* nothing.  Therefore gc of a block takes one from the count of the right *)
(* object, and refCount covers the blocks (RefCountCoversBlocks).  An      *)
(* object leaves the cache only at count zero, when no block of it is      *)
(* left: an object a script created, which is cached before its block      *)
(* exists, is in the cache as long as the block (LuaCached).               *)
(***************************************************************************)
EXTENDS UserdataCache, FiniteSetTheorems, TLAPS

Filed ==
  /\ \A i \in DOMAIN cache : id[cache[i]] = i
  /\ \A i \in DOMAIN removed : id[removed[i]] = i

IdsDiffer == \A o, p \in Obj : id[o] = id[p] /\ id[o] # 0 => o = p

BlockIds == \A b \in Block : Live(b) => bid[b] = id[owner[b]] /\ life[owner[b]] # "unborn"

\* An object has an id from its birth, if the VM is open then.
Births ==
  \A o \in Obj : /\ life[o] = "unborn" => id[o] = 0 /\ key[o] = "none" /\ refCount[o] = 0
                 /\ life[o] # "unborn" /\ open => id[o] # 0

\* What Java's collector sees as reachable is not finalized.
Reachable ==
  \A o \in Obj : o \in held \cup Values(cache) \cup Values(removed) => life[o] = "live"

\* Only a block a script made itself has JUD_FLAG_STRONG.
StrongByLua == \A b \in Block : Live(b) /\ strong[b] => key[owner[b]] # "global"

\* What a script created is in the cache itself while its block lives.
LuaCached ==
  \A b \in Block : Live(b) /\ key[owner[b]] # "global"
    => bid[b] \in DOMAIN cache /\ cache[bid[b]] = owner[b]

\* The caches have every object Java holds.
HeldFound ==
  \A o \in held : open /\ id[o] # 0 /\ CacheType # "REMOVE" => Found(id[o]) = o

\* lua_close leaves no block.
NoBlockWhenClosed == ~open => \A b \in Block : ~Live(b)

IInv ==
  /\ TypeOK
  /\ Filed /\ IdsDiffer /\ BlockIds /\ Births /\ Reachable
  /\ StrongByLua /\ RefCountCoversBlocks /\ LuaCached /\ NoBlockWhenClosed
  /\ HeldFound

-----------------------------------------------------------------------------
(* The maps.                                                               *)

\* What the caches have is an object filed under the id it was asked for.
LEMMA GetIsFiled ==
  ASSUME TypeOK, Filed, NEW i, Found(i) # NoObj
  PROVE  /\ Found(i) \in Obj /\ id[Found(i)] = i /\ i # 0
         /\ Found(i) \in Values(cache) \cup Values(removed)
<1>1. CASE i \in DOMAIN cache
  BY <1>1 DEF Found, TypeOK, Filed, Values
<1>2. CASE i \notin DOMAIN cache /\ i \in DOMAIN removed
  BY <1>2 DEF Found, TypeOK, Filed, Values
<1> QED
  BY <1>1, <1>2 DEF Found

\* What a live block resolves to is its own object.
LEMMA BlockResolves ==
  ASSUME TypeOK, Filed, IdsDiffer, BlockIds,
         NEW b \in Block, Live(b), Found(bid[b]) # NoObj
  PROVE  Found(bid[b]) = owner[b]
<1>1. owner[b] \in Obj
  BY DEF TypeOK, Live
<1>2. /\ Found(bid[b]) \in Obj
      /\ id[Found(bid[b])] = id[owner[b]]
      /\ id[Found(bid[b])] # 0
  BY GetIsFiled DEF BlockIds
<1> QED
  BY <1>1, <1>2 DEF IdsDiffer

\* put on an open VM: the next id, which no object had.
LEMMA PutEffect ==
  ASSUME TypeOK, NEW o \in Obj, Put(o), open
  PROVE  /\ cacheLong \in Nat \ {0} /\ cacheLong' = cacheLong + 1
         /\ id' = [id EXCEPT ![o] = cacheLong]
         /\ cacheLong \notin DOMAIN cache
         /\ DOMAIN cache' = DOMAIN cache \cup {cacheLong}
         /\ cache'[cacheLong] = o
         /\ \A i \in DOMAIN cache : cache'[i] = cache[i]
<1>1. cacheLong \in Nat \ {0} /\ cacheLong \notin DOMAIN cache
  BY DEF TypeOK
<1>2. cacheLong' = cacheLong + 1 /\ id' = [id EXCEPT ![o] = cacheLong]
      /\ cache' = With(cache, cacheLong, o)
  BY DEF Put, NextId
<1>3. /\ DOMAIN cache' = DOMAIN cache \cup {cacheLong}
      /\ cache'[cacheLong] = o
      /\ \A i \in DOMAIN cache : i # cacheLong => cache'[i] = cache[i]
  BY <1>2 DEF With
<1> QED
  BY <1>1, <1>2, <1>3

\* onUserdataGc takes o out of the cache and, with TYPE_REMOVE_CACHE, keeps a
\* soft reference on it; nothing else moves.
LEMMA OnUserdataGcEffect ==
  ASSUME NEW o \in Obj, OnUserdataGc(o)
  PROVE  \/ cache' = cache /\ removed' = removed /\ CacheType = "NONE"
         \/ /\ DOMAIN cache' = DOMAIN cache \ {id[o]}
            /\ \A i \in DOMAIN cache : i # id[o] => cache'[i] = cache[i]
            /\ \/ removed' = removed /\ CacheType = "REMOVE"
               \/ /\ CacheType = "REMOVE_CACHE"
                  /\ DOMAIN removed' = DOMAIN removed \cup {id[o]}
                  /\ removed'[id[o]] = o
                  /\ \A i \in DOMAIN removed : i # id[o] => removed'[i] = removed[i]
<1>1. CASE CacheType = "NONE"
  BY <1>1 DEF OnUserdataGc
<1>2. CASE CacheType = "REMOVE" /\ cache' = Without(cache, id[o]) /\ removed' = removed
  BY <1>2 DEF Without
<1>3. CASE /\ CacheType = "REMOVE_CACHE"
           /\ cache' = Without(cache, id[o])
           /\ removed' = With(removed, id[o], o)
  <2>1. /\ DOMAIN cache' = DOMAIN cache \ {id[o]}
        /\ \A i \in DOMAIN cache : i # id[o] => cache'[i] = cache[i]
    BY <1>3 DEF Without
  <2>2. /\ DOMAIN removed' = DOMAIN removed \cup {id[o]}
        /\ removed'[id[o]] = o
        /\ \A i \in DOMAIN removed : i # id[o] => removed'[i] = removed[i]
    BY <1>3 DEF With
  <2> QED
    BY <1>3, <2>1, <2>2
<1> QED
  BY <1>1, <1>2, <1>3 DEF OnUserdataGc

-----------------------------------------------------------------------------
(* How a step moves objects between the caches.                            *)

\* No object moves.
Quiet ==
  /\ UNCHANGED <<cacheLong, id, removed>>
  /\ DOMAIN cache' = DOMAIN cache
  /\ \A i \in DOMAIN cache : cache'[i] = cache[i]

\* o is born on an open VM and filed.
Filing(o) ==
  /\ open /\ life[o] = "unborn" /\ life'[o] = "live"
  /\ cacheLong' = cacheLong + 1
  /\ id' = [id EXCEPT ![o] = cacheLong]
  /\ DOMAIN cache' = DOMAIN cache \cup {cacheLong}
  /\ cache'[cacheLong] = o
  /\ \A i \in DOMAIN cache : cache'[i] = cache[i]
  /\ removed' = removed

\* o leaves the cache, and is softly kept with TYPE_REMOVE_CACHE.
Leaving(o) ==
  /\ life[o] = "live" /\ life' = life /\ open /\ id[o] # 0
  /\ UNCHANGED <<cacheLong, id>>
  /\ DOMAIN cache' = DOMAIN cache \ {id[o]}
  /\ \A i \in DOMAIN cache : i # id[o] => cache'[i] = cache[i]
  /\ \/ removed' = removed /\ CacheType = "REMOVE"
     \/ /\ CacheType = "REMOVE_CACHE"
        /\ DOMAIN removed' = DOMAIN removed \cup {id[o]}
        /\ removed'[id[o]] = o
        /\ \A i \in DOMAIN removed : i # id[o] => removed'[i] = removed[i]

Clearing(i) ==
  /\ UNCHANGED <<cacheLong, id, cache>>
  /\ removed[i] \notin held
  /\ DOMAIN removed' = DOMAIN removed \ {i}
  /\ \A j \in DOMAIN removed : j # i => removed'[j] = removed[j]

Closing ==
  /\ UNCHANGED <<cacheLong, id>>
  /\ ~open' /\ DOMAIN cache' = {} /\ DOMAIN removed' = {}

Moves == \/ Quiet
         \/ \E o \in Obj : Filing(o)
         \/ \E o \in Obj : Leaving(o)
         \/ \E i \in DOMAIN removed : Clearing(i)
         \/ Closing

\* An object that is live on an open VM and passed to onUserdataGc leaves the
\* cache, or stays with TYPE_NONE.
LEMMA OnUserdataGcMoves ==
  ASSUME IInv, open, NEW o \in Obj, life[o] = "live", OnUserdataGc(o),
         UNCHANGED <<cacheLong, id, life>>
  PROVE  Quiet \/ Leaving(o)
<1>1. id[o] # 0
  BY DEF IInv, Births
<1> QED
  BY <1>1, OnUserdataGcEffect DEF Quiet, Leaving

\* put on an open VM files the new object; on a closed one it does nothing.
LEMMA PutMoves ==
  ASSUME IInv, NEW o \in Obj, life[o] = "unborn", life'[o] = "live", Put(o),
         removed' = removed
  PROVE  Filing(o) \/ (~open /\ Quiet)
<1>1. CASE open
  BY <1>1, PutEffect DEF IInv, Filing
<1>2. CASE ~open
  BY <1>2 DEF Put, Quiet
<1> QED
  BY <1>1, <1>2

\* The object gc_userdata finds for a block is live and is the block's own.
LEMMA FoundIsOwner ==
  ASSUME IInv, NEW b \in Block, Live(b), Found(bid[b]) # NoObj
  PROVE  /\ Found(bid[b]) = owner[b] /\ owner[b] \in Obj
         /\ life[owner[b]] = "live" /\ id[owner[b]] = bid[b]
<1>1. Found(bid[b]) = owner[b]
  BY BlockResolves DEF IInv
<1>2. owner[b] \in Obj /\ owner[b] \in Values(cache) \cup Values(removed)
  BY <1>1, GetIsFiled DEF IInv
<1> QED
  BY <1>1, <1>2 DEF IInv, Reachable, BlockIds

\* A call from a script, a userdata passed to Java and a collected block deal
\* with what the caches have for the block, or, where get may answer null, with
\* nothing.
LEMMA CallEffect ==
  ASSUME NEW b \in Block, CallMethod(b)
  PROVE  Found(bid[b]) # NoObj /\ held' = held \cup {Found(bid[b])}
  BY DEF CallMethod, Get

LEMMA PassEffect ==
  ASSUME NEW b \in Block, PassToJava(b)
  PROVE  /\ Found(bid[b]) # NoObj /\ held' = held \cup {Found(bid[b])}
         /\ \/ UNCHANGED <<pinned, key, skey>>
            \/ /\ strong[b] /\ pinned' = pinned \cup {b}
               /\ key' = [key EXCEPT ![Found(bid[b])] = "gnv"]
               /\ skey' = [skey EXCEPT ![b] = TRUE]
<1>1. PICK o \in Get(bid[b]) \ {NoObj} :
         /\ held' = held \cup {o}
         /\ IF strong[b] /\ ~skey[b]
            THEN /\ pinned' = pinned \cup {b}
                 /\ key' = [key EXCEPT ![o] = "gnv"]
                 /\ skey' = [skey EXCEPT ![b] = TRUE]
            ELSE UNCHANGED <<pinned, key, skey>>
  BY DEF PassToJava
<1>2. o = Found(bid[b]) /\ o # NoObj
  BY <1>1 DEF Get
<1> QED
  BY <1>1, <1>2

LEMMA CollectEffect ==
  ASSUME NEW b \in Block, LuaGc(b)
  PROVE  \/ UNCHANGED <<cache, removed, refCount>>
         \/ Found(bid[b]) # NoObj /\ OnLuaGc(Found(bid[b]))
<1>1. PICK o \in Get(bid[b]) : IF o = NoObj THEN UNCHANGED <<cache, removed, refCount>>
                                           ELSE OnLuaGc(o)
  BY DEF LuaGc
<1>2. o = NoObj \/ o = Found(bid[b])
  BY <1>1 DEF Get
<1> QED
  BY <1>1, <1>2

\* lua_close collects blocks whose answers are what the caches have, or null.
LEMMA CloseEffect ==
  ASSUME DestroyGlobals
  PROVE  \E answer \in [Block -> Obj \cup {NoObj}] :
           /\ \A b \in Block : answer[b] \in {Found(bid[b]), NoObj}
           /\ refCount' = [o \in Obj |->
                refCount[o] - Cardinality({b \in Block : Live(b) /\ answer[b] = o})
                            - (IF o \in Values(cache) THEN 1 ELSE 0)]
  BY DEF DestroyGlobals, Get

\* Every step is one of these moves.
LEMMA EveryStepMoves ==
  ASSUME IInv, [Next]_vars
  PROVE  Moves
<1>1. ASSUME NEW o \in Obj, JavaNew(o)
       PROVE  Moves
  <2>1. life[o] = "unborn" /\ life'[o] = "live"
    BY <1>1 DEF JavaNew, IInv, TypeOK
  <2> QED
    BY <1>1, <2>1, PutMoves DEF JavaNew, Moves
<1>2. ASSUME NEW o \in Obj, OnJavaRef(o)
       PROVE  Moves
  BY <1>2 DEF OnJavaRef, Moves, Quiet, objVars
<1>3. ASSUME NEW o \in Obj, OnJavaRecycle(o)
       PROVE  Moves
  <2>1. life[o] = "live"
    BY <1>3 DEF OnJavaRecycle, IInv, Reachable
  <2>2. CASE KeptByLua(o) \/ ~open \/ javaRef'[o] > 0
    BY <1>3, <2>2 DEF OnJavaRecycle, Moves, Quiet
  <2>3. CASE open /\ OnUserdataGc(o)
    BY <1>3, <2>1, <2>3, OnUserdataGcMoves DEF OnJavaRecycle, Moves
  <2> QED
    BY <1>3, <2>2, <2>3 DEF OnJavaRecycle
<1>4. ASSUME NEW o \in Obj, JavaDrop(o)
       PROVE  Moves
  BY <1>4 DEF JavaDrop, Moves, Quiet, objVars
<1>5. ASSUME NEW o \in Obj, Finalize(o)
       PROVE  Moves
  <2>1. id[o] \notin DOMAIN cache
    <3>1. \A i \in DOMAIN cache : cache[i] \in Obj /\ cache[i] # o /\ i # 0
      BY <1>5 DEF Finalize, Values, IInv, TypeOK
    <3> QED
      BY <3>1 DEF IInv, Filed, IdsDiffer
  <2>2. DOMAIN cache' = DOMAIN cache /\ \A i \in DOMAIN cache : cache'[i] = cache[i]
    BY <1>5, <2>1 DEF Finalize, Without
  <2> QED
    BY <1>5, <2>2 DEF Finalize, Moves, Quiet
<1>6. ASSUME NEW i \in DOMAIN removed, ClearSoft(i)
       PROVE  Moves
  <2>1. DOMAIN removed' = DOMAIN removed \ {i} /\ removed[i] \notin held
    BY <1>6 DEF ClearSoft, Without
  <2>2. \A j \in DOMAIN removed : j # i => removed'[j] = removed[j]
    BY <1>6 DEF ClearSoft, Without
  <2> QED
    BY <1>6, <2>1, <2>2 DEF ClearSoft, Moves, Clearing, objVars
<1>7. ASSUME NEW o \in Obj, NEW b \in Block, NEW s \in BOOLEAN, LuaNew(o, b, s)
       PROVE  Moves
  <2>1. life[o] = "unborn" /\ life'[o] = "live"
    BY <1>7 DEF LuaNew, IInv, TypeOK
  <2> QED
    BY <1>7, <2>1, PutMoves DEF LuaNew, Moves
<1>8. ASSUME NEW o \in Obj, NEW b \in Block, PushNewBlock(o, b)
       PROVE  Moves
  BY <1>8 DEF PushNewBlock, Moves, Quiet, objVars
<1>9. ASSUME NEW o \in Obj, NEW b \in Block, PushPinned(o, b)
       PROVE  Moves
  BY <1>9 DEF PushPinned, Moves, Quiet, objVars
<1>10. ASSUME NEW o \in Obj, LuaNewThrows(o)
       PROVE  Moves
  <2>1. life[o] = "unborn" /\ life'[o] = "live"
    BY <1>10 DEF LuaNewThrows, IInv, TypeOK
  <2> QED
    BY <1>10, <2>1, PutMoves DEF LuaNewThrows, Moves
<1>11. ASSUME NEW o \in Obj, PushFails(o)
       PROVE  Moves
  BY <1>11 DEF PushFails, Moves, Quiet, objVars
<1>12. ASSUME NEW b \in Block, CallMethod(b)
       PROVE  Moves
  BY <1>12 DEF CallMethod, Moves, Quiet, objVars
<1>13. ASSUME NEW b \in Block, PassToJava(b)
       PROVE  Moves
  BY <1>13 DEF PassToJava, Moves, Quiet, objVars
<1>14. ASSUME NEW b \in Block, RefStrong(b)
       PROVE  Moves
  BY <1>14 DEF RefStrong, Moves, Quiet, objVars
<1>15. ASSUME NEW b \in Block, LuaDrop(b)
       PROVE  Moves
  BY <1>15 DEF LuaDrop, Moves, Quiet, objVars
<1>16. ASSUME NEW b \in Block, LuaGc(b)
       PROVE  Moves
  <2>1. CASE UNCHANGED <<cache, removed, refCount>>
    BY <1>16, <2>1 DEF LuaGc, Moves, Quiet
  <2>2. CASE Found(bid[b]) # NoObj /\ OnLuaGc(Found(bid[b]))
    <3> DEFINE o == owner[b]
    <3>1. Found(bid[b]) = o /\ o \in Obj /\ life[o] = "live"
      BY <1>16, <2>2, FoundIsOwner DEF LuaGc
    <3>2. OnLuaGc(o)
      BY <2>2, <3>1
    <3>3. CASE UNCHANGED <<cache, removed>>
      BY <1>16, <3>3 DEF LuaGc, Moves, Quiet
    <3>4. CASE OnUserdataGc(o)
      BY <1>16, <3>1, <3>4, OnUserdataGcMoves DEF LuaGc, Moves
    <3> QED
      BY <3>2, <3>3, <3>4 DEF OnLuaGc
  <2> QED
    BY <1>16, <2>1, <2>2, CollectEffect
<1>17. CASE DestroyGlobals
  BY <1>17 DEF DestroyGlobals, Moves, Closing, Empty
<1>18. CASE UNCHANGED vars
  BY <1>18 DEF vars, objVars, Moves, Quiet
<1> QED
  BY <1>1, <1>2, <1>3, <1>4, <1>5, <1>6, <1>7, <1>8, <1>9,
     <1>10, <1>11, <1>12, <1>13, <1>14, <1>15, <1>16, <1>17, <1>18
     DEF Next, JavaStep, LuaStep

-----------------------------------------------------------------------------
(* Every step keeps the invariant, one conjunct at a time.                 *)

\* The caches and the ids keep their types; ids are never reused.
LEMMA CachesStep ==
  ASSUME IInv, [Next]_vars
  PROVE  /\ cacheLong' \in Nat \ {0} /\ cacheLong <= cacheLong'
         /\ DOMAIN cache' \subseteq 1 .. (cacheLong' - 1) /\ Values(cache') \subseteq Obj
         /\ DOMAIN removed' \subseteq 1 .. (cacheLong' - 1) /\ Values(removed') \subseteq Obj
         /\ id' \in [Obj -> 0 .. (cacheLong' - 1)]
         /\ Filed' /\ IdsDiffer'
<1> DEFINE CL == /\ cacheLong' \in Nat \ {0} /\ cacheLong <= cacheLong'
           C == DOMAIN cache' \subseteq 1 .. (cacheLong' - 1) /\ \A i \in DOMAIN cache' : cache'[i] \in Obj
           R == DOMAIN removed' \subseteq 1 .. (cacheLong' - 1) /\ \A i \in DOMAIN removed' : removed'[i] \in Obj
           I == id' \in [Obj -> 0 .. (cacheLong' - 1)]
<1>1. /\ cacheLong \in Nat \ {0}
      /\ DOMAIN cache \subseteq 1 .. (cacheLong - 1) /\ \A i \in DOMAIN cache : cache[i] \in Obj
      /\ DOMAIN removed \subseteq 1 .. (cacheLong - 1) /\ \A i \in DOMAIN removed : removed[i] \in Obj
      /\ id \in [Obj -> 0 .. (cacheLong - 1)]
      /\ Filed /\ IdsDiffer
  BY DEF IInv, TypeOK, Values
<1>2. CL /\ C /\ R /\ I /\ Filed' /\ IdsDiffer'
  <2>1. CASE Quiet
    BY <1>1, <2>1 DEF Quiet, Filed, IdsDiffer
  <2>2. ASSUME NEW o \in Obj, Filing(o)
        PROVE  CL /\ C /\ R /\ I /\ Filed' /\ IdsDiffer'
    <3>1. id[o] = 0
      BY <2>2 DEF Filing, IInv, Births
    <3>2. CL
      BY <1>1, <2>2 DEF Filing
    <3>3. C
      BY <1>1, <2>2 DEF Filing
    <3>4. R
      BY <1>1, <2>2 DEF Filing
    <3>5. I
      BY <1>1, <2>2 DEF Filing
    <3>6. Filed'
      <4>1. ASSUME NEW i \in DOMAIN cache' PROVE id'[cache'[i]] = i
        <5>1. CASE i = cacheLong
          BY <1>1, <2>2, <5>1 DEF Filing
        <5>2. CASE i \in DOMAIN cache
          <6>1. cache[i] # o /\ cache'[i] = cache[i]
            BY <1>1, <2>2, <3>1, <5>2 DEF Filing, Filed
          <6> QED
            BY <1>1, <2>2, <5>2, <6>1 DEF Filing, Filed
        <5> QED
          BY <2>2, <4>1, <5>1, <5>2 DEF Filing
      <4>2. ASSUME NEW i \in DOMAIN removed' PROVE id'[removed'[i]] = i
        <5>1. i \in DOMAIN removed /\ removed'[i] = removed[i] /\ removed[i] # o
          BY <1>1, <2>2, <3>1, <4>2 DEF Filing, Filed
        <5> QED
          BY <1>1, <2>2, <5>1 DEF Filing, Filed
      <4> QED
        BY <4>1, <4>2 DEF Filed
    <3>7. IdsDiffer'
      BY <1>1, <2>2 DEF Filing, IdsDiffer
    <3> QED
      BY <3>2, <3>3, <3>4, <3>5, <3>6, <3>7
  <2>3. ASSUME NEW o \in Obj, Leaving(o)
        PROVE  CL /\ C /\ R /\ I /\ Filed' /\ IdsDiffer'
    <3>1. id[o] \in 1 .. (cacheLong - 1)
      BY <1>1, <2>3 DEF Leaving
    <3>2. CL /\ C /\ R /\ I
      BY <1>1, <2>3, <3>1 DEF Leaving
    <3>3. Filed'
      BY <1>1, <2>3 DEF Leaving, Filed
    <3> QED
      BY <1>1, <2>3, <3>2, <3>3 DEF Leaving, IdsDiffer
  <2>4. ASSUME NEW i \in DOMAIN removed, Clearing(i)
        PROVE  CL /\ C /\ R /\ I /\ Filed' /\ IdsDiffer'
    BY <1>1, <2>4 DEF Clearing, Filed, IdsDiffer
  <2>5. CASE Closing
    BY <1>1, <2>5 DEF Closing, Filed, IdsDiffer
  <2> QED
    BY <2>1, <2>2, <2>3, <2>4, <2>5, EveryStepMoves DEF Moves
<1> QED
  BY <1>2 DEF Values

\* TypeOK but for the caches and the ids.
OthersTyped ==
  /\ open \in BOOLEAN
  /\ life \in [Obj -> {"unborn", "live", "finalized"}]
  /\ key \in [Obj -> {"none", "global", "gnv"}]
  /\ refCount \in [Obj -> Int]
  /\ javaRef \in [Obj -> 0 .. MaxJavaRef]
  /\ held \subseteq Obj
  /\ owner \in [Block -> Obj \cup {NoObj}]
  /\ bid \in [Block -> 0 .. (cacheLong - 1)]
  /\ strong \in [Block -> BOOLEAN]
  /\ skey \in [Block -> BOOLEAN]
  /\ luaRef \subseteq {b \in Block : Live(b)}
  /\ pinned \subseteq {b \in Block : Live(b)}

\* The part of the type invariant the next lemmas keep.
LEMMA TypeOKParts ==
  ASSUME IInv
  PROVE  OthersTyped /\ cacheLong \in Nat \ {0}
  BY DEF IInv, TypeOK, OthersTyped

\* A block made for an object of o's id is typed, and the other blocks stay.
LEMMA NewBlockTyped ==
  ASSUME OthersTyped, NEW b \in Block, NEW o \in Obj, NEW i \in 0 .. (cacheLong' - 1),
         cacheLong \in Nat \ {0}, cacheLong' \in Nat \ {0}, cacheLong <= cacheLong',
         NewBlock(b, o, i)
  PROVE  /\ owner' \in [Block -> Obj \cup {NoObj}]
         /\ bid' \in [Block -> 0 .. (cacheLong' - 1)]
         /\ luaRef' \subseteq {c \in Block : Live(c)'}
         /\ \A c \in Block : Live(c) => Live(c)'
<1>1. bid \in [Block -> 0 .. (cacheLong' - 1)]
  BY DEF OthersTyped
<1>2. NoObj \notin Obj
  BY UserdataCacheAssumption
<1>3. owner' = [owner EXCEPT ![b] = o] /\ bid' = [bid EXCEPT ![b] = i] /\ luaRef' = luaRef \cup {b}
  BY DEF NewBlock
<1>4. owner' \in [Block -> Obj \cup {NoObj}] /\ bid' \in [Block -> 0 .. (cacheLong' - 1)]
  BY <1>1, <1>3 DEF OthersTyped
<1>5. \A c \in Block : Live(c) \/ c = b => Live(c)'
  BY <1>2, <1>3 DEF OthersTyped, Live
<1> QED
  BY <1>3, <1>4, <1>5 DEF OthersTyped

\* The type invariant but for the caches and the ids.
LEMMA OthersTypedStep ==
  ASSUME IInv, [Next]_vars
  PROVE  OthersTyped'
<1>a. /\ cacheLong' \in Nat \ {0} /\ cacheLong <= cacheLong'
      /\ OthersTyped /\ cacheLong \in Nat \ {0}
  BY CachesStep, TypeOKParts
<1>b. bid \in [Block -> 0 .. (cacheLong' - 1)]
  BY <1>a DEF OthersTyped
<1>1. ASSUME NEW o \in Obj, JavaNew(o)
       PROVE  OthersTyped'
  BY <1>1, <1>a, <1>b DEF OthersTyped, JavaNew, Live, objVars, blockVars
<1>2. ASSUME NEW o \in Obj, OnJavaRef(o)
       PROVE  OthersTyped'
  <2>1. javaRef' \in [Obj -> 0 .. MaxJavaRef]
    BY <1>2, <1>a, UserdataCacheAssumption DEF OthersTyped, OnJavaRef
  <2> QED
    BY <1>2, <1>a, <1>b, <2>1 DEF OthersTyped, OnJavaRef, Live, objVars, blockVars
<1>3. ASSUME NEW o \in Obj, OnJavaRecycle(o)
       PROVE  OthersTyped'
  <2>1. javaRef' \in [Obj -> 0 .. MaxJavaRef]
    BY <1>3, <1>a, UserdataCacheAssumption DEF OthersTyped, OnJavaRecycle
  <2> QED
    BY <1>3, <1>a, <1>b, <2>1 DEF OthersTyped, OnJavaRecycle, Live, objVars, blockVars
<1>4. ASSUME NEW o \in Obj, JavaDrop(o)
       PROVE  OthersTyped'
  BY <1>4, <1>a, <1>b DEF OthersTyped, JavaDrop, Live, objVars, blockVars
<1>5. ASSUME NEW o \in Obj, Finalize(o)
       PROVE  OthersTyped'
  <2>1. javaRef' \in [Obj -> 0 .. MaxJavaRef]
    BY <1>5, <1>a, UserdataCacheAssumption DEF OthersTyped, Finalize
  <2> QED
    BY <1>5, <1>a, <1>b, <2>1 DEF OthersTyped, Finalize, Live, objVars, blockVars
<1>6. ASSUME NEW i \in DOMAIN removed, ClearSoft(i)
       PROVE  OthersTyped'
  BY <1>6, <1>a, <1>b DEF OthersTyped, ClearSoft, Live, objVars, blockVars
<1>7. ASSUME NEW o \in Obj, NEW b \in Block, NEW s \in BOOLEAN, LuaNew(o, b, s)
       PROVE  OthersTyped'
  <2>1. cacheLong \in 0 .. (cacheLong' - 1)
    <3>1. open /\ Put(o) /\ TypeOK
      BY <1>7 DEF LuaNew, IInv
    <3>2. cacheLong' = cacheLong + 1
      BY <3>1, PutEffect
    <3> QED
      BY <1>a, <3>2
  <2>2. /\ owner' \in [Block -> Obj \cup {NoObj}] /\ bid' \in [Block -> 0 .. (cacheLong' - 1)]
        /\ luaRef' \subseteq {c \in Block : Live(c)'}
        /\ \A c \in Block : Live(c) => Live(c)'
    BY <1>7, <1>a, <2>1, NewBlockTyped DEF LuaNew
  <2>3. strong' \in [Block -> BOOLEAN] /\ skey' \in [Block -> BOOLEAN]
    BY <1>7, <1>a DEF OthersTyped, LuaNew
  <2>4. Live(b)' /\ b \in Block
    BY <1>7, <1>a, UserdataCacheAssumption DEF LuaNew, NewBlock, Live, OthersTyped
  <2>5. pinned' \subseteq {c \in Block : Live(c)'}
    BY <1>7, <1>a, <2>2, <2>4 DEF LuaNew, OthersTyped
  <2>6. /\ life' \in [Obj -> {"unborn", "live", "finalized"}]
        /\ key' \in [Obj -> {"none", "global", "gnv"}]
        /\ refCount' \in [Obj -> Int]
    BY <1>7, <1>a DEF OthersTyped, LuaNew
  <2> QED
    BY <1>7, <1>a, <2>2, <2>3, <2>5, <2>6 DEF OthersTyped, LuaNew
<1>8. ASSUME NEW o \in Obj, NEW b \in Block, PushNewBlock(o, b)
       PROVE  OthersTyped'
  <2>1. id[o] \in 0 .. (cacheLong' - 1)
    BY <1>8, <1>a DEF PushNewBlock, IInv, TypeOK
  <2>2. /\ owner' \in [Block -> Obj \cup {NoObj}] /\ bid' \in [Block -> 0 .. (cacheLong' - 1)]
        /\ luaRef' \subseteq {c \in Block : Live(c)'}
        /\ \A c \in Block : Live(c) => Live(c)'
    BY <1>8, <1>a, <2>1, NewBlockTyped DEF PushNewBlock
  <2> QED
    BY <1>8, <1>a, <2>2 DEF OthersTyped, PushNewBlock, AddRef
<1>9. ASSUME NEW o \in Obj, NEW b \in Block, PushPinned(o, b)
       PROVE  OthersTyped'
  BY <1>9, <1>a, <1>b DEF OthersTyped, PushPinned, Live, objVars, blockVars
<1>10. ASSUME NEW o \in Obj, LuaNewThrows(o)
       PROVE  OthersTyped'
  BY <1>10, <1>a, <1>b DEF OthersTyped, LuaNewThrows, Live, objVars, blockVars
<1>11. ASSUME NEW o \in Obj, PushFails(o)
       PROVE  OthersTyped'
  BY <1>11, <1>a, <1>b DEF OthersTyped, PushFails, AddRef, Live, objVars, blockVars
<1>12. ASSUME NEW b \in Block, CallMethod(b)
       PROVE  OthersTyped'
  <2>1. Found(bid[b]) \in Obj
    BY <1>12, CallEffect, GetIsFiled DEF IInv
  <2> QED
    BY <1>12, <1>a, <1>b, <2>1, CallEffect DEF OthersTyped, CallMethod, Live, objVars, blockVars
<1>13. ASSUME NEW b \in Block, PassToJava(b)
       PROVE  OthersTyped'
  <2>1. Found(bid[b]) \in Obj /\ Live(b)
    BY <1>13, <1>a, PassEffect, GetIsFiled DEF PassToJava, IInv, OthersTyped
  <2>2. CASE UNCHANGED <<pinned, key, skey>>
    BY <1>13, <1>a, <1>b, <2>1, <2>2, PassEffect DEF OthersTyped, PassToJava, Live
  <2>3. CASE /\ pinned' = pinned \cup {b}
             /\ key' = [key EXCEPT ![Found(bid[b])] = "gnv"]
             /\ skey' = [skey EXCEPT ![b] = TRUE]
    <3>1. /\ UNCHANGED <<open, life, refCount, javaRef, owner, bid, strong, luaRef>>
          /\ held' = held \cup {Found(bid[b])}
      BY <1>13, PassEffect DEF PassToJava
    <3> QED
      BY <1>a, <1>b, <2>1, <2>3, <3>1 DEF OthersTyped, Live
  <2> QED
    BY <1>13, <2>2, <2>3, PassEffect
<1>14. ASSUME NEW b \in Block, RefStrong(b)
       PROVE  OthersTyped'
  BY <1>14, <1>a, <1>b DEF OthersTyped, RefStrong, Live, objVars, blockVars
<1>15. ASSUME NEW b \in Block, LuaDrop(b)
       PROVE  OthersTyped'
  BY <1>15, <1>a, <1>b DEF OthersTyped, LuaDrop, Live, objVars, blockVars
<1>16. ASSUME NEW b \in Block, LuaGc(b)
       PROVE  OthersTyped'
  <2>1. refCount' \in [Obj -> Int]
    BY <1>16, <1>a, CollectEffect DEF OnLuaGc, OthersTyped
  <2> QED
    BY <1>16, <1>a, <1>b, <2>1 DEF OthersTyped, LuaGc, Live
<1>17. CASE DestroyGlobals
  <2>1. PICK answer \in [Block -> Obj \cup {NoObj}] :
           refCount' = [o \in Obj |->
             refCount[o] - Cardinality({b \in Block : Live(b) /\ answer[b] = o})
                         - (IF o \in Values(cache) THEN 1 ELSE 0)]
    BY <1>17, CloseEffect
  <2>2. \A o \in Obj : Cardinality({b \in Block : Live(b) /\ answer[b] = o}) \in Int
    <3>1. \A o \in Obj : IsFiniteSet({b \in Block : Live(b) /\ answer[b] = o})
      BY FS_Subset, UserdataCacheAssumption
    <3> QED
      BY <3>1, FS_CardinalityType
  <2>3. refCount' \in [Obj -> Int]
    BY <1>a, <2>1, <2>2 DEF OthersTyped
  <2> QED
    BY <1>17, <1>a, <1>b, <2>3 DEF OthersTyped, DestroyGlobals, Live
<1>18. CASE UNCHANGED vars
  BY <1>18, <1>a, <1>b DEF OthersTyped, vars, Live, objVars, blockVars
<1> QED
  BY <1>1, <1>2, <1>3, <1>4, <1>5, <1>6, <1>7, <1>8, <1>9,
     <1>10, <1>11, <1>12, <1>13, <1>14, <1>15, <1>16, <1>17, <1>18
     DEF Next, JavaStep, LuaStep

\* The type invariant.
LEMMA TypeOKStep ==
  ASSUME IInv, [Next]_vars
  PROVE  TypeOK'
  BY CachesStep, OthersTypedStep DEF TypeOK, OthersTyped

\* An object found in a cache after a step was found there before, or is live.
LEMMA ValuesStep ==
  ASSUME IInv, [Next]_vars, NEW p \in Values(cache') \cup Values(removed')
  PROVE  p \in Values(cache) \cup Values(removed) \/ life'[p] = "live"
<1>1. CASE Quiet
  BY <1>1 DEF Quiet, Values
<1>2. ASSUME NEW o \in Obj, Filing(o)
      PROVE  p \in Values(cache) \cup Values(removed) \/ life'[p] = "live"
  BY <1>2 DEF Filing, Values
<1>3. ASSUME NEW o \in Obj, Leaving(o)
      PROVE  p \in Values(cache) \cup Values(removed) \/ life'[p] = "live"
  BY <1>3 DEF Leaving, Values
<1>4. ASSUME NEW i \in DOMAIN removed, Clearing(i)
      PROVE  p \in Values(cache) \cup Values(removed) \/ life'[p] = "live"
  BY <1>4 DEF Clearing, Values
<1>5. CASE Closing
  BY <1>5 DEF Closing, Values
<1> QED
  BY <1>1, <1>2, <1>3, <1>4, <1>5, EveryStepMoves DEF Moves

\* An object that was born keeps its id.
LEMMA BornKeepsId ==
  ASSUME IInv, [Next]_vars, NEW p \in Obj, life[p] # "unborn"
  PROVE  id'[p] = id[p]
<1>1. ASSUME NEW o \in Obj, Filing(o) PROVE id'[p] = id[p]
  BY <1>1 DEF Filing, IInv, TypeOK
<1> QED
  BY <1>1, EveryStepMoves DEF Moves, Quiet, Leaving, Clearing, Closing

\* Only reachable objects are called, and only their owners' blocks found.
LEMMA FoundIsLive ==
  ASSUME IInv, NEW o \in Obj, life[o] # "live"
  PROVE  /\ o \notin Values(cache)
         /\ {b \in Block : Live(b) /\ Found(bid[b]) = o} = {}
<1>1. NoObj # o
  BY UserdataCacheAssumption
<1> QED
  BY <1>1, FoundIsOwner DEF IInv, Reachable

\* A block carries the id of its object, which was born before it.
LEMMA BlockIdsStep ==
  ASSUME IInv, [Next]_vars
  PROVE  BlockIds'
<1>a. /\ \A b \in Block : Live(b) => owner[b] \in Obj /\ bid[b] = id[owner[b]] /\ life[owner[b]] # "unborn"
      /\ life \in [Obj -> {"unborn", "live", "finalized"}]
  BY DEF IInv, TypeOK, BlockIds, Live
<1>b. \A p \in Obj : life[p] # "unborn" => id'[p] = id[p]
  BY BornKeepsId
<1>c. owner \in [Block -> Obj \cup {NoObj}] /\ bid \in [Block -> 0 .. (cacheLong - 1)]
  BY DEF IInv, TypeOK
<1>1. ASSUME NEW o \in Obj, JavaNew(o)
       PROVE  BlockIds'
  BY <1>1, <1>a, <1>b DEF BlockIds, JavaNew, Live, objVars, blockVars
<1>2. ASSUME NEW o \in Obj, OnJavaRef(o)
       PROVE  BlockIds'
  BY <1>2, <1>a, <1>b DEF BlockIds, OnJavaRef, Live, objVars, blockVars
<1>3. ASSUME NEW o \in Obj, OnJavaRecycle(o)
       PROVE  BlockIds'
  BY <1>3, <1>a, <1>b DEF BlockIds, OnJavaRecycle, Live, objVars, blockVars
<1>4. ASSUME NEW o \in Obj, JavaDrop(o)
       PROVE  BlockIds'
  BY <1>4, <1>a, <1>b DEF BlockIds, JavaDrop, Live, objVars, blockVars
<1>5. ASSUME NEW o \in Obj, Finalize(o)
       PROVE  BlockIds'
  BY <1>5, <1>a, <1>b DEF BlockIds, Finalize, Live, objVars, blockVars
<1>6. ASSUME NEW i \in DOMAIN removed, ClearSoft(i)
       PROVE  BlockIds'
  BY <1>6, <1>a, <1>b DEF BlockIds, ClearSoft, Live, objVars, blockVars
<1>7. ASSUME NEW o \in Obj, NEW b \in Block, NEW s \in BOOLEAN, LuaNew(o, b, s)
       PROVE  BlockIds'
  <2>1. /\ owner' = [owner EXCEPT ![b] = o] /\ bid' = [bid EXCEPT ![b] = cacheLong]
        /\ life' = [life EXCEPT ![o] = "live"]
    BY <1>7 DEF LuaNew, NewBlock
  <2>2. id'[o] = cacheLong
    <3>1. open /\ Put(o) /\ TypeOK
      BY <1>7 DEF LuaNew, IInv
    <3> QED
      BY <3>1, PutEffect DEF TypeOK
  <2> QED
    BY <1>a, <1>b, <1>c, <2>1, <2>2 DEF BlockIds, Live
<1>8. ASSUME NEW o \in Obj, NEW b \in Block, PushNewBlock(o, b)
       PROVE  BlockIds'
  <2>1. /\ owner' = [owner EXCEPT ![b] = o] /\ bid' = [bid EXCEPT ![b] = id[o]]
        /\ life' = life /\ id' = id
    BY <1>8 DEF PushNewBlock, NewBlock
  <2>2. life[o] = "live"
    BY <1>8 DEF PushNewBlock, IInv, Reachable
  <2> QED
    BY <1>a, <1>c, <2>1, <2>2 DEF BlockIds, Live
<1>9. ASSUME NEW o \in Obj, NEW b \in Block, PushPinned(o, b)
       PROVE  BlockIds'
  BY <1>9, <1>a, <1>b DEF BlockIds, PushPinned, Live, objVars, blockVars
<1>10. ASSUME NEW o \in Obj, LuaNewThrows(o)
       PROVE  BlockIds'
  BY <1>10, <1>a, <1>b DEF BlockIds, LuaNewThrows, Live, objVars, blockVars
<1>11. ASSUME NEW o \in Obj, PushFails(o)
       PROVE  BlockIds'
  BY <1>11, <1>a, <1>b DEF BlockIds, PushFails, Live, objVars, blockVars
<1>12. ASSUME NEW b \in Block, CallMethod(b)
       PROVE  BlockIds'
  BY <1>12, <1>a, <1>b DEF BlockIds, CallMethod, Live, objVars, blockVars
<1>13. ASSUME NEW b \in Block, PassToJava(b)
       PROVE  BlockIds'
  BY <1>13, <1>a, <1>b DEF BlockIds, PassToJava, Live, objVars, blockVars
<1>14. ASSUME NEW b \in Block, RefStrong(b)
       PROVE  BlockIds'
  BY <1>14, <1>a, <1>b DEF BlockIds, RefStrong, Live, objVars, blockVars
<1>15. ASSUME NEW b \in Block, LuaDrop(b)
       PROVE  BlockIds'
  BY <1>15, <1>a, <1>b DEF BlockIds, LuaDrop, Live, objVars, blockVars
<1>16. ASSUME NEW b \in Block, LuaGc(b)
       PROVE  BlockIds'
  <2>1. owner' = [owner EXCEPT ![b] = NoObj] /\ bid' = bid /\ life' = life /\ id' = id
    BY <1>16 DEF LuaGc
  <2> QED
    BY <1>a, <1>c, <2>1 DEF BlockIds, Live
<1>17. CASE DestroyGlobals
  BY <1>17, <1>a, <1>b DEF BlockIds, DestroyGlobals, Live, objVars, blockVars
<1>18. CASE UNCHANGED vars
  BY <1>18, <1>a DEF BlockIds, vars, Live, objVars, blockVars
<1> QED
  BY <1>1, <1>2, <1>3, <1>4, <1>5, <1>6, <1>7, <1>8, <1>9,
     <1>10, <1>11, <1>12, <1>13, <1>14, <1>15, <1>16, <1>17, <1>18
     DEF Next, JavaStep, LuaStep

\* Born objects have ids; unborn ones have nothing yet.
LEMMA BirthsStep ==
  ASSUME IInv, [Next]_vars
  PROVE  Births'
<1>a. /\ life \in [Obj -> {"unborn", "live", "finalized"}] /\ refCount \in [Obj -> Int]
      /\ id \in [Obj -> 0 .. (cacheLong - 1)] /\ key \in [Obj -> {"none", "global", "gnv"}]
      /\ held \subseteq Obj /\ cacheLong # 0
      /\ Births
  BY DEF IInv, TypeOK
<1>b. \A p \in Obj : p \in held => life[p] = "live"
  BY DEF IInv, Reachable
<1>1. ASSUME NEW o \in Obj, JavaNew(o)
       PROVE  Births'
  <2>1. CASE open
    <3>1. id' = [id EXCEPT ![o] = cacheLong]
      BY <1>1, <2>1, PutEffect DEF JavaNew, IInv
    <3> QED
      BY <1>1, <3>1, <1>a DEF JavaNew, Births
  <2>2. CASE ~open
    BY <1>1, <2>2, <1>a DEF JavaNew, Put, Births
  <2> QED
    BY <2>1, <2>2
<1>2. ASSUME NEW o \in Obj, OnJavaRef(o)
       PROVE  Births'
  BY <1>2, <1>a DEF Births, OnJavaRef, objVars
<1>3. ASSUME NEW o \in Obj, OnJavaRecycle(o)
       PROVE  Births'
  BY <1>3, <1>a DEF Births, OnJavaRecycle, objVars
<1>4. ASSUME NEW o \in Obj, JavaDrop(o)
       PROVE  Births'
  BY <1>4, <1>a DEF Births, JavaDrop, objVars
<1>5. ASSUME NEW o \in Obj, Finalize(o)
       PROVE  Births'
  BY <1>5, <1>a DEF Births, Finalize, objVars
<1>6. ASSUME NEW i \in DOMAIN removed, ClearSoft(i)
       PROVE  Births'
  BY <1>6, <1>a DEF Births, ClearSoft, objVars
<1>7. ASSUME NEW o \in Obj, NEW b \in Block, NEW s \in BOOLEAN, LuaNew(o, b, s)
       PROVE  Births'
  <2>1. CASE open
    <3>1. id' = [id EXCEPT ![o] = cacheLong]
      BY <1>7, <2>1, PutEffect DEF LuaNew, IInv
    <3> QED
      BY <1>7, <3>1, <1>a DEF LuaNew, Births
  <2>2. CASE ~open
    BY <1>7, <2>2, <1>a DEF LuaNew, Put, Births
  <2> QED
    BY <2>1, <2>2
<1>8. ASSUME NEW o \in Obj, NEW b \in Block, PushNewBlock(o, b)
       PROVE  Births'
  BY <1>8, <1>a, <1>b DEF Births, PushNewBlock, AddRef
<1>9. ASSUME NEW o \in Obj, NEW b \in Block, PushPinned(o, b)
       PROVE  Births'
  BY <1>9, <1>a DEF Births, PushPinned, objVars
<1>10. ASSUME NEW o \in Obj, LuaNewThrows(o)
       PROVE  Births'
  <2>1. CASE open
    <3>1. id' = [id EXCEPT ![o] = cacheLong]
      BY <1>10, <2>1, PutEffect DEF LuaNewThrows, IInv
    <3> QED
      BY <1>10, <3>1, <1>a DEF LuaNewThrows, Births
  <2>2. CASE ~open
    BY <1>10, <2>2, <1>a DEF LuaNewThrows, Put, Births
  <2> QED
    BY <2>1, <2>2
<1>11. ASSUME NEW o \in Obj, PushFails(o)
       PROVE  Births'
  BY <1>11, <1>a, <1>b DEF Births, PushFails, AddRef
<1>12. ASSUME NEW b \in Block, CallMethod(b)
       PROVE  Births'
  BY <1>12, <1>a DEF Births, CallMethod, objVars
<1>13. ASSUME NEW b \in Block, PassToJava(b)
       PROVE  Births'
  <2>1. Live(b) /\ Found(bid[b]) # NoObj
    BY <1>13, PassEffect DEF PassToJava, IInv, TypeOK
  <2>2. Found(bid[b]) \in Obj /\ life[Found(bid[b])] = "live"
    BY <2>1, FoundIsOwner
  <2> QED
    BY <1>13, <1>a, <2>2, PassEffect DEF Births, PassToJava
<1>14. ASSUME NEW b \in Block, RefStrong(b)
       PROVE  Births'
  BY <1>14, <1>a DEF Births, RefStrong, objVars
<1>15. ASSUME NEW b \in Block, LuaDrop(b)
       PROVE  Births'
  BY <1>15, <1>a DEF Births, LuaDrop, objVars
<1>16. ASSUME NEW b \in Block, LuaGc(b)
       PROVE  Births'
  <2>1. CASE UNCHANGED <<cache, removed, refCount>>
    BY <1>16, <1>a, <2>1 DEF Births, LuaGc
  <2>2. CASE Found(bid[b]) # NoObj /\ OnLuaGc(Found(bid[b]))
    <3>1. Found(bid[b]) \in Obj /\ life[Found(bid[b])] = "live"
      BY <1>16, <2>2, FoundIsOwner DEF LuaGc
    <3>2. refCount' = [refCount EXCEPT ![Found(bid[b])] = refCount[Found(bid[b])] - 1]
      BY <2>2 DEF OnLuaGc
    <3> QED
      BY <1>16, <1>a, <3>1, <3>2 DEF Births, LuaGc
  <2> QED
    BY <1>16, <2>1, <2>2, CollectEffect
<1>17. CASE DestroyGlobals
  <2>1. ASSUME NEW o \in Obj, life[o] = "unborn" PROVE refCount'[o] = 0
    <3>1. PICK answer \in [Block -> Obj \cup {NoObj}] :
             /\ \A b \in Block : answer[b] \in {Found(bid[b]), NoObj}
             /\ refCount' = [q \in Obj |->
                  refCount[q] - Cardinality({b \in Block : Live(b) /\ answer[b] = q})
                              - (IF q \in Values(cache) THEN 1 ELSE 0)]
      BY <1>17, CloseEffect
    <3>2. refCount[o] = 0 /\ o # NoObj
      BY <1>a, <2>1, UserdataCacheAssumption DEF Births
    <3>3. o \notin Values(cache) /\ {b \in Block : Live(b) /\ answer[b] = o} = {}
      BY <2>1, <3>1, <3>2, FoundIsLive
    <3>4. Cardinality({b \in Block : Live(b) /\ answer[b] = o}) = 0
      BY <3>3, FS_EmptySet
    <3> QED
      BY <3>1, <3>2, <3>3, <3>4
  <2> QED
    BY <1>17, <1>a, <2>1 DEF Births, DestroyGlobals
<1>18. CASE UNCHANGED vars
  BY <1>18, <1>a DEF Births, vars, objVars
<1> QED
  BY <1>1, <1>2, <1>3, <1>4, <1>5, <1>6, <1>7, <1>8, <1>9,
     <1>10, <1>11, <1>12, <1>13, <1>14, <1>15, <1>16, <1>17, <1>18
     DEF Next, JavaStep, LuaStep

\* What is held or cached is live.
LEMMA ReachableStep ==
  ASSUME IInv, [Next]_vars
  PROVE  Reachable'
<1>a. /\ life \in [Obj -> {"unborn", "live", "finalized"}] /\ held \subseteq Obj
      /\ \A p \in Obj : p \in held \cup Values(cache) \cup Values(removed) => life[p] = "live"
  BY DEF IInv, TypeOK, Reachable
<1>b. \A p \in Obj : p \in Values(cache') \cup Values(removed')
        => p \in Values(cache) \cup Values(removed) \/ life'[p] = "live"
  BY ValuesStep
<1>1. ASSUME NEW o \in Obj, JavaNew(o)
       PROVE  Reachable'
  <2>1. life' = [life EXCEPT ![o] = "live"] /\ held' \subseteq held \cup {o}
    BY <1>1 DEF JavaNew
  <2> QED
    BY <2>1, <1>a, <1>b DEF Reachable, Values
<1>2. ASSUME NEW o \in Obj, OnJavaRef(o)
       PROVE  Reachable'
  <2>1. life' = life /\ held' \subseteq held
    BY <1>2 DEF OnJavaRef, objVars
  <2> QED
    BY <2>1, <1>a, <1>b DEF Reachable, Values
<1>3. ASSUME NEW o \in Obj, OnJavaRecycle(o)
       PROVE  Reachable'
  <2>1. life' = life /\ held' \subseteq held
    BY <1>3 DEF OnJavaRecycle, objVars
  <2> QED
    BY <2>1, <1>a, <1>b DEF Reachable, Values
<1>4. ASSUME NEW o \in Obj, JavaDrop(o)
       PROVE  Reachable'
  <2>1. life' = life /\ held' \subseteq held
    BY <1>4 DEF JavaDrop, objVars
  <2> QED
    BY <2>1, <1>a, <1>b DEF Reachable, Values
<1>5. ASSUME NEW o \in Obj, Finalize(o)
       PROVE  Reachable'
  <2>1. /\ life' = [life EXCEPT ![o] = "finalized"] /\ held' = held
        /\ o \notin held \cup Values(cache) \cup Values(removed)
    BY <1>5 DEF Finalize
  <2>2. life'[o] # "live"
    BY <2>1, <1>a
  <2> QED
    BY <2>1, <2>2, <1>a, <1>b DEF Reachable, Values
<1>6. ASSUME NEW i \in DOMAIN removed, ClearSoft(i)
       PROVE  Reachable'
  <2>1. life' = life /\ held' \subseteq held
    BY <1>6 DEF ClearSoft, objVars
  <2> QED
    BY <2>1, <1>a, <1>b DEF Reachable, Values
<1>7. ASSUME NEW o \in Obj, NEW b \in Block, NEW s \in BOOLEAN, LuaNew(o, b, s)
       PROVE  Reachable'
  <2>1. life' = [life EXCEPT ![o] = "live"] /\ held' \subseteq held \cup {o}
    BY <1>7 DEF LuaNew
  <2> QED
    BY <2>1, <1>a, <1>b DEF Reachable, Values
<1>8. ASSUME NEW o \in Obj, NEW b \in Block, PushNewBlock(o, b)
       PROVE  Reachable'
  <2>1. life' = life /\ held' \subseteq held
    BY <1>8 DEF PushNewBlock, objVars
  <2> QED
    BY <2>1, <1>a, <1>b DEF Reachable, Values
<1>9. ASSUME NEW o \in Obj, NEW b \in Block, PushPinned(o, b)
       PROVE  Reachable'
  <2>1. life' = life /\ held' \subseteq held
    BY <1>9 DEF PushPinned, objVars
  <2> QED
    BY <2>1, <1>a, <1>b DEF Reachable, Values
<1>10. ASSUME NEW o \in Obj, LuaNewThrows(o)
       PROVE  Reachable'
  <2>1. life' = [life EXCEPT ![o] = "live"] /\ held' \subseteq held \cup {o}
    BY <1>10 DEF LuaNewThrows
  <2> QED
    BY <2>1, <1>a, <1>b DEF Reachable, Values
<1>11. ASSUME NEW o \in Obj, PushFails(o)
       PROVE  Reachable'
  <2>1. life' = life /\ held' \subseteq held
    BY <1>11 DEF PushFails, objVars
  <2> QED
    BY <2>1, <1>a, <1>b DEF Reachable, Values
<1>12. ASSUME NEW b \in Block, CallMethod(b)
       PROVE  Reachable'
  <2>1. Live(b) /\ Found(bid[b]) # NoObj
    BY <1>12, CallEffect DEF CallMethod, IInv, TypeOK
  <2>2. life[Found(bid[b])] = "live"
    BY <2>1, FoundIsOwner
  <2>3. life' = life /\ held' = held \cup {Found(bid[b])}
    BY <1>12, CallEffect DEF CallMethod, objVars
  <2> QED
    BY <2>2, <2>3, <1>a, <1>b DEF Reachable, Values
<1>13. ASSUME NEW b \in Block, PassToJava(b)
       PROVE  Reachable'
  <2>1. Live(b) /\ Found(bid[b]) # NoObj
    BY <1>13, PassEffect DEF PassToJava, IInv, TypeOK
  <2>2. life[Found(bid[b])] = "live"
    BY <2>1, FoundIsOwner
  <2>3. life' = life /\ held' = held \cup {Found(bid[b])}
    BY <1>13, PassEffect DEF PassToJava, objVars
  <2> QED
    BY <2>2, <2>3, <1>a, <1>b DEF Reachable, Values
<1>14. ASSUME NEW b \in Block, RefStrong(b)
       PROVE  Reachable'
  <2>1. life' = life /\ held' \subseteq held
    BY <1>14 DEF RefStrong, objVars
  <2> QED
    BY <2>1, <1>a, <1>b DEF Reachable, Values
<1>15. ASSUME NEW b \in Block, LuaDrop(b)
       PROVE  Reachable'
  <2>1. life' = life /\ held' \subseteq held
    BY <1>15 DEF LuaDrop, objVars
  <2> QED
    BY <2>1, <1>a, <1>b DEF Reachable, Values
<1>16. ASSUME NEW b \in Block, LuaGc(b)
       PROVE  Reachable'
  <2>1. life' = life /\ held' \subseteq held
    BY <1>16 DEF LuaGc, objVars
  <2> QED
    BY <2>1, <1>a, <1>b DEF Reachable, Values
<1>17. CASE DestroyGlobals
  <2>1. life' = life /\ held' = held
    BY <1>17 DEF DestroyGlobals
  <2> QED
    BY <2>1, <1>a, <1>b DEF Reachable, Values
<1>18. CASE UNCHANGED vars
  <2>1. life' = life /\ held' = held
    BY <1>18 DEF vars, objVars
  <2> QED
    BY <2>1, <1>a, <1>b DEF Reachable, Values
<1> QED
  BY <1>1, <1>2, <1>3, <1>4, <1>5, <1>6, <1>7, <1>8, <1>9,
     <1>10, <1>11, <1>12, <1>13, <1>14, <1>15, <1>16, <1>17, <1>18
     DEF Next, JavaStep, LuaStep

\* JUD_FLAG_STRONG is set on blocks scripts made.
LEMMA StrongByLuaStep ==
  ASSUME IInv, [Next]_vars
  PROVE  StrongByLua'
<1>a. /\ \A b \in Block : Live(b) => owner[b] \in Obj /\ life[owner[b]] # "unborn"
      /\ key \in [Obj -> {"none", "global", "gnv"}]
      /\ strong \in [Block -> BOOLEAN] /\ owner \in [Block -> Obj \cup {NoObj}]
      /\ StrongByLua
  BY DEF IInv, TypeOK, BlockIds, Live
<1>1. ASSUME NEW o \in Obj, JavaNew(o)
       PROVE  StrongByLua'
  <2>1. /\ key' = [key EXCEPT ![o] = "global"] /\ life[o] = "unborn"
        /\ owner' = owner /\ strong' = strong
    BY <1>1 DEF JavaNew, blockVars
  <2> QED
    BY <1>a, <2>1 DEF StrongByLua, Live
<1>2. ASSUME NEW o \in Obj, OnJavaRef(o)
       PROVE  StrongByLua'
  BY <1>2, <1>a DEF StrongByLua, OnJavaRef, Live, objVars, blockVars
<1>3. ASSUME NEW o \in Obj, OnJavaRecycle(o)
       PROVE  StrongByLua'
  BY <1>3, <1>a DEF StrongByLua, OnJavaRecycle, Live, objVars, blockVars
<1>4. ASSUME NEW o \in Obj, JavaDrop(o)
       PROVE  StrongByLua'
  BY <1>4, <1>a DEF StrongByLua, JavaDrop, Live, objVars, blockVars
<1>5. ASSUME NEW o \in Obj, Finalize(o)
       PROVE  StrongByLua'
  BY <1>5, <1>a DEF StrongByLua, Finalize, Live, objVars, blockVars
<1>6. ASSUME NEW i \in DOMAIN removed, ClearSoft(i)
       PROVE  StrongByLua'
  BY <1>6, <1>a DEF StrongByLua, ClearSoft, Live, objVars, blockVars
<1>7. ASSUME NEW o \in Obj, NEW b \in Block, NEW s \in BOOLEAN, LuaNew(o, b, s)
       PROVE  StrongByLua'
  <2>1. PICK k \in {"gnv", "none"}, f \in BOOLEAN :
           /\ key' = [key EXCEPT ![o] = k] /\ strong' = [strong EXCEPT ![b] = f]
           /\ owner' = [owner EXCEPT ![b] = o]
    BY <1>7 DEF LuaNew, NewBlock
  <2> QED
    BY <1>a, <2>1 DEF StrongByLua, Live
<1>8. ASSUME NEW o \in Obj, NEW b \in Block, PushNewBlock(o, b)
       PROVE  StrongByLua'
  <2>1. key' = key /\ strong' = [strong EXCEPT ![b] = FALSE] /\ owner' = [owner EXCEPT ![b] = o]
    BY <1>8 DEF PushNewBlock, NewBlock
  <2> QED
    BY <1>a, <2>1 DEF StrongByLua, Live
<1>9. ASSUME NEW o \in Obj, NEW b \in Block, PushPinned(o, b)
       PROVE  StrongByLua'
  BY <1>9, <1>a DEF StrongByLua, PushPinned, Live, objVars, blockVars
<1>10. ASSUME NEW o \in Obj, LuaNewThrows(o)
       PROVE  StrongByLua'
  BY <1>10, <1>a DEF StrongByLua, LuaNewThrows, Live, objVars, blockVars
<1>11. ASSUME NEW o \in Obj, PushFails(o)
       PROVE  StrongByLua'
  BY <1>11, <1>a DEF StrongByLua, PushFails, Live, objVars, blockVars
<1>12. ASSUME NEW b \in Block, CallMethod(b)
       PROVE  StrongByLua'
  BY <1>12, <1>a DEF StrongByLua, CallMethod, Live, objVars, blockVars
<1>13. ASSUME NEW b \in Block, PassToJava(b)
       PROVE  StrongByLua'
  <2>1. /\ owner' = owner /\ strong' = strong
        /\ key' = key \/ key' = [key EXCEPT ![Found(bid[b])] = "gnv"]
    BY <1>13, PassEffect DEF PassToJava
  <2> QED
    BY <1>a, <2>1 DEF StrongByLua, Live
<1>14. ASSUME NEW b \in Block, RefStrong(b)
       PROVE  StrongByLua'
  BY <1>14, <1>a DEF StrongByLua, RefStrong, Live, objVars, blockVars
<1>15. ASSUME NEW b \in Block, LuaDrop(b)
       PROVE  StrongByLua'
  BY <1>15, <1>a DEF StrongByLua, LuaDrop, Live, objVars, blockVars
<1>16. ASSUME NEW b \in Block, LuaGc(b)
       PROVE  StrongByLua'
  <2>1. owner' = [owner EXCEPT ![b] = NoObj] /\ strong' = strong /\ key' = key
    BY <1>16 DEF LuaGc
  <2> QED
    BY <1>a, <2>1 DEF StrongByLua, Live
<1>17. CASE DestroyGlobals
  BY <1>17, <1>a DEF StrongByLua, DestroyGlobals, Live, objVars, blockVars
<1>18. CASE UNCHANGED vars
  BY <1>18, <1>a DEF StrongByLua, vars, Live, objVars, blockVars
<1> QED
  BY <1>1, <1>2, <1>3, <1>4, <1>5, <1>6, <1>7, <1>8, <1>9,
     <1>10, <1>11, <1>12, <1>13, <1>14, <1>15, <1>16, <1>17, <1>18
     DEF Next, JavaStep, LuaStep

-----------------------------------------------------------------------------
(* Counting blocks.                                                        *)

\* An object has finitely many blocks.
LEMMA BlocksFinite ==
  ASSUME NEW o
  PROVE  IsFiniteSet(BlocksOf(o)) /\ Cardinality(BlocksOf(o)) \in Nat
<1>1. IsFiniteSet(BlocksOf(o))
  BY FS_Subset, UserdataCacheAssumption DEF BlocksOf
<1> QED
  BY <1>1, FS_CardinalityType

\* A new block is one more for its object and none for the others.
LEMMA NewBlockCounts ==
  ASSUME IInv, NEW b \in Block, ~Live(b), NEW o \in Obj, owner' = [owner EXCEPT ![b] = o]
  PROVE  /\ Cardinality(BlocksOf(o)') = Cardinality(BlocksOf(o)) + 1
         /\ \A p \in Obj : p # o => BlocksOf(p)' = BlocksOf(p)
<1>1. owner \in [Block -> Obj \cup {NoObj}] /\ NoObj \notin Obj
  BY UserdataCacheAssumption DEF IInv, TypeOK
<1>2. BlocksOf(o)' = BlocksOf(o) \cup {b} /\ b \notin BlocksOf(o)
  BY <1>1 DEF BlocksOf, Live
<1>3. \A p \in Obj : p # o => BlocksOf(p)' = BlocksOf(p)
  BY <1>1 DEF BlocksOf, Live
<1>4. Cardinality(BlocksOf(o) \cup {b}) = Cardinality(BlocksOf(o)) + 1
  BY <1>2, BlocksFinite, FS_AddElement
<1> QED
  BY <1>2, <1>3, <1>4

\* A collected block is one less for its object and none for the others.
LEMMA GcBlockCounts ==
  ASSUME IInv, NEW b \in Block, Live(b), owner' = [owner EXCEPT ![b] = NoObj]
  PROVE  /\ Cardinality(BlocksOf(owner[b]) \ {b}) = Cardinality(BlocksOf(owner[b])) - 1
         /\ \A p \in Obj : BlocksOf(p)' = BlocksOf(p) \ {b}
         /\ \A p \in Obj : p # owner[b] => BlocksOf(p)' = BlocksOf(p)
<1>1. owner \in [Block -> Obj \cup {NoObj}] /\ NoObj \notin Obj
  BY UserdataCacheAssumption DEF IInv, TypeOK
<1>2. b \in BlocksOf(owner[b])
  BY DEF BlocksOf
<1>3. Cardinality(BlocksOf(owner[b]) \ {b}) = Cardinality(BlocksOf(owner[b])) - 1
  BY <1>2, BlocksFinite, FS_RemoveElement
<1>4. \A p \in Obj : BlocksOf(p)' = BlocksOf(p) \ {b}
  BY <1>1 DEF BlocksOf
<1>5. \A p \in Obj : p # owner[b] => b \notin BlocksOf(p)
  BY DEF BlocksOf
<1> QED
  BY <1>3, <1>4, <1>5

\* An unborn object has no block.
LEMMA UnbornHasNoBlock ==
  ASSUME IInv, NEW o \in Obj, life[o] = "unborn"
  PROVE  BlocksOf(o) = {} /\ Cardinality(BlocksOf(o)) = 0
<1>1. BlocksOf(o) = {}
  BY UserdataCacheAssumption DEF IInv, BlockIds, BlocksOf, Live
<1> QED
  BY <1>1, FS_EmptySet

\* refCount covers the blocks.
LEMMA CoversStep ==
  ASSUME IInv, [Next]_vars
  PROVE  RefCountCoversBlocks'
<1>a. /\ life \in [Obj -> {"unborn", "live", "finalized"}] /\ refCount \in [Obj -> Int]
      /\ \A p \in Obj : open /\ life[p] = "live" => Cardinality(BlocksOf(p)) <= refCount[p]
  BY DEF IInv, TypeOK, RefCountCoversBlocks
<1>b. owner' = owner => \A p \in Obj : BlocksOf(p)' = BlocksOf(p)
  BY DEF BlocksOf
<1>c. \A p \in Obj : Cardinality(BlocksOf(p)) \in Nat
  BY BlocksFinite
<1>1. ASSUME NEW o \in Obj, JavaNew(o)
       PROVE  RefCountCoversBlocks'
  <2>1. life[o] = "unborn" /\ life' = [life EXCEPT ![o] = "live"] /\ owner' = owner
        /\ refCount' = refCount /\ open' = open
    BY <1>1 DEF JavaNew, blockVars
  <2>2. Cardinality(BlocksOf(o)) <= refCount[o]
    BY <2>1, UnbornHasNoBlock DEF IInv, Births
  <2> QED
    BY <1>a, <1>b, <2>1, <2>2 DEF RefCountCoversBlocks
<1>2. ASSUME NEW o \in Obj, OnJavaRef(o)
       PROVE  RefCountCoversBlocks'
  BY <1>2, <1>a, <1>b DEF RefCountCoversBlocks, OnJavaRef, objVars, blockVars
<1>3. ASSUME NEW o \in Obj, OnJavaRecycle(o)
       PROVE  RefCountCoversBlocks'
  BY <1>3, <1>a, <1>b DEF RefCountCoversBlocks, OnJavaRecycle, objVars, blockVars
<1>4. ASSUME NEW o \in Obj, JavaDrop(o)
       PROVE  RefCountCoversBlocks'
  BY <1>4, <1>a, <1>b DEF RefCountCoversBlocks, JavaDrop, objVars, blockVars
<1>5. ASSUME NEW o \in Obj, Finalize(o)
       PROVE  RefCountCoversBlocks'
  BY <1>5, <1>a, <1>b DEF RefCountCoversBlocks, Finalize, objVars, blockVars
<1>6. ASSUME NEW i \in DOMAIN removed, ClearSoft(i)
       PROVE  RefCountCoversBlocks'
  BY <1>6, <1>a, <1>b DEF RefCountCoversBlocks, ClearSoft, objVars, blockVars
<1>7. ASSUME NEW o \in Obj, NEW b \in Block, NEW s \in BOOLEAN, LuaNew(o, b, s)
       PROVE  RefCountCoversBlocks'
  <2>1. life[o] = "unborn" /\ life' = [life EXCEPT ![o] = "live"] /\ ~Live(b)
        /\ refCount' = [refCount EXCEPT ![o] = 1] /\ open' = open
        /\ owner' = [owner EXCEPT ![b] = o]
    BY <1>7 DEF LuaNew, NewBlock
  <2>2. Cardinality(BlocksOf(o)') = 1
    <3>1. Cardinality(BlocksOf(o)') = Cardinality(BlocksOf(o)) + 1
      BY <2>1, NewBlockCounts
    <3>2. Cardinality(BlocksOf(o)) = 0
      BY <2>1, UnbornHasNoBlock
    <3> QED
      BY <3>1, <3>2
  <2>3. \A p \in Obj : p # o => BlocksOf(p)' = BlocksOf(p)
    BY <2>1, NewBlockCounts
  <2> QED
    BY <1>a, <2>1, <2>2, <2>3 DEF RefCountCoversBlocks
<1>8. ASSUME NEW o \in Obj, NEW b \in Block, PushNewBlock(o, b)
       PROVE  RefCountCoversBlocks'
  <2>1. life' = life /\ ~Live(b) /\ open' = open /\ owner' = [owner EXCEPT ![b] = o]
        /\ refCount' = [refCount EXCEPT ![o] = refCount[o] + 1]
    BY <1>8 DEF PushNewBlock, NewBlock, AddRef
  <2>2. /\ Cardinality(BlocksOf(o)') = Cardinality(BlocksOf(o)) + 1
        /\ \A p \in Obj : p # o => BlocksOf(p)' = BlocksOf(p)
    BY <2>1, NewBlockCounts
  <2> QED
    BY <1>a, <1>c, <2>1, <2>2 DEF RefCountCoversBlocks
<1>9. ASSUME NEW o \in Obj, NEW b \in Block, PushPinned(o, b)
       PROVE  RefCountCoversBlocks'
  BY <1>9, <1>a, <1>b DEF RefCountCoversBlocks, PushPinned, objVars, blockVars
<1>10. ASSUME NEW o \in Obj, LuaNewThrows(o)
       PROVE  RefCountCoversBlocks'
  <2>1. life[o] = "unborn" /\ life' = [life EXCEPT ![o] = "live"] /\ owner' = owner
        /\ refCount' = [refCount EXCEPT ![o] = 1] /\ open' = open
    BY <1>10 DEF LuaNewThrows, blockVars
  <2>2. Cardinality(BlocksOf(o)) <= 1
    BY <2>1, UnbornHasNoBlock
  <2> QED
    BY <1>a, <1>b, <2>1, <2>2 DEF RefCountCoversBlocks
<1>11. ASSUME NEW o \in Obj, PushFails(o)
       PROVE  RefCountCoversBlocks'
  <2>1. life' = life /\ open' = open /\ owner' = owner
        /\ refCount' = [refCount EXCEPT ![o] = refCount[o] + 1]
    BY <1>11 DEF PushFails, AddRef, blockVars
  <2> QED
    BY <1>a, <1>b, <1>c, <2>1 DEF RefCountCoversBlocks
<1>12. ASSUME NEW b \in Block, CallMethod(b)
       PROVE  RefCountCoversBlocks'
  BY <1>12, <1>a, <1>b DEF RefCountCoversBlocks, CallMethod, objVars, blockVars
<1>13. ASSUME NEW b \in Block, PassToJava(b)
       PROVE  RefCountCoversBlocks'
  BY <1>13, <1>a, <1>b DEF RefCountCoversBlocks, PassToJava, objVars, blockVars
<1>14. ASSUME NEW b \in Block, RefStrong(b)
       PROVE  RefCountCoversBlocks'
  BY <1>14, <1>a, <1>b DEF RefCountCoversBlocks, RefStrong, objVars, blockVars
<1>15. ASSUME NEW b \in Block, LuaDrop(b)
       PROVE  RefCountCoversBlocks'
  BY <1>15, <1>a, <1>b DEF RefCountCoversBlocks, LuaDrop, objVars, blockVars
<1>16. ASSUME NEW b \in Block, LuaGc(b)
       PROVE  RefCountCoversBlocks'
  <2>1. /\ Live(b) /\ life' = life /\ open' = open /\ owner' = [owner EXCEPT ![b] = NoObj]
    BY <1>16 DEF LuaGc
  <2>0. PICK o \in Obj : o = owner[b]
    BY <2>1 DEF Live, IInv, TypeOK
  <2>2. /\ Cardinality(BlocksOf(o)') = Cardinality(BlocksOf(o)) - 1
        /\ \A p \in Obj : p # o => Cardinality(BlocksOf(p)') = Cardinality(BlocksOf(p))
    <3>1. BlocksOf(o)' = BlocksOf(o) \ {b}
      BY <2>1, GcBlockCounts
    <3>2. Cardinality(BlocksOf(o) \ {b}) = Cardinality(BlocksOf(o)) - 1
      BY <2>0, <2>1, GcBlockCounts
    <3>3. \A p \in Obj : p # o => BlocksOf(p)' = BlocksOf(p)
      BY <2>0, <2>1, GcBlockCounts
    <3> QED
      BY <3>1, <3>2, <3>3
  <2>3. CASE UNCHANGED <<cache, removed, refCount>>
    <3>1. refCount' = refCount
      BY <2>3
    <3> QED
      <4>1. ASSUME NEW p \in Obj, open, life[p] = "live"
            PROVE  Cardinality(BlocksOf(p)') <= refCount[p]
        <5>1. /\ Cardinality(BlocksOf(p)) <= refCount[p]
              /\ Cardinality(BlocksOf(p)) \in Nat /\ refCount[p] \in Int
          BY <1>a, <1>c, <4>1
        <5> QED
          BY <2>2, <5>1
      <4> QED
        BY <2>1, <3>1, <4>1 DEF RefCountCoversBlocks
  <2>4. CASE Found(bid[b]) # NoObj /\ OnLuaGc(Found(bid[b]))
    <3>1. Found(bid[b]) = o
      BY <2>0, <2>1, <2>4, FoundIsOwner
    <3>2. refCount' = [refCount EXCEPT ![o] = refCount[o] - 1]
      BY <2>4, <3>1 DEF OnLuaGc
    <3> QED
      BY <1>a, <1>c, <2>1, <2>2, <3>2 DEF RefCountCoversBlocks
  <2> QED
    BY <1>16, <2>3, <2>4, CollectEffect
<1>17. CASE DestroyGlobals
  BY <1>17 DEF DestroyGlobals, RefCountCoversBlocks
<1>18. CASE UNCHANGED vars
  BY <1>18, <1>a, <1>b DEF RefCountCoversBlocks, vars, objVars, blockVars
<1> QED
  BY <1>1, <1>2, <1>3, <1>4, <1>5, <1>6, <1>7, <1>8, <1>9,
     <1>10, <1>11, <1>12, <1>13, <1>14, <1>15, <1>16, <1>17, <1>18
     DEF Next, JavaStep, LuaStep

-----------------------------------------------------------------------------
(* What a step may take out of the caches.                                 *)

\* On an open VM, a cached object stays cached unless it leaves.
LEMMA CachedStays ==
  ASSUME IInv, [Next]_vars, open', NEW p \in Obj, NEW i \in DOMAIN cache, cache[i] = p,
         ~Leaving(p)
  PROVE  i \in DOMAIN cache' /\ cache'[i] = p
<1>1. id[p] = i
  BY DEF IInv, Filed
<1>2. ASSUME NEW o \in Obj, Leaving(o) PROVE i \in DOMAIN cache' /\ cache'[i] = p
  <2>1. id[o] # i
    BY <1>1, <1>2 DEF IInv, IdsDiffer, Leaving
  <2> QED
    BY <1>2, <2>1 DEF Leaving
<1> QED
  BY <1>2, EveryStepMoves DEF Moves, Quiet, Filing, Clearing, Closing

\* onUserdataGc takes no other object out.
LEMMA LeaverIsArgument ==
  ASSUME IInv, NEW o \in Obj, OnUserdataGc(o), NEW p \in Obj,
         p \in Values(cache), p \notin Values(cache')
  PROVE  o = p
<1>1. PICK i \in DOMAIN cache : cache[i] = p
  BY DEF Values
<1>2. id[p] = i /\ i # 0
  BY <1>1 DEF IInv, TypeOK, Filed
<1>3. CASE i # id[o]
  BY <1>1, <1>3, OnUserdataGcEffect DEF Values
<1>4. CASE i = id[o]
  BY <1>2, <1>4 DEF IInv, IdsDiffer
<1> QED
  BY <1>3, <1>4

\* Only an object without blocks and without Java references leaves.
LEMMA LeavingIsUnreferenced ==
  ASSUME IInv, [Next]_vars, NEW p \in Obj, p \in Values(cache), open', p \notin Values(cache')
  PROVE  BlocksOf(p)' = {} /\ javaRef'[p] = 0
<1>t. javaRef \in [Obj -> 0 .. MaxJavaRef] /\ refCount \in [Obj -> Int] /\ javaRef' \in [Obj -> 0 .. MaxJavaRef]
  BY TypeOKStep DEF IInv, TypeOK
<1>n. ASSUME Cardinality(BlocksOf(p)) <= 0
      PROVE  BlocksOf(p) = {}
  BY <1>n, BlocksFinite, FS_EmptySet
<1>m. ASSUME Cardinality(BlocksOf(p)') <= 0
      PROVE  BlocksOf(p)' = {}
  <2>1. IsFiniteSet(BlocksOf(p)')
    BY FS_Subset, UserdataCacheAssumption DEF BlocksOf
  <2>2. Cardinality(BlocksOf(p)') = 0
    BY <1>m, <2>1, FS_CardinalityType
  <2> QED
    BY <2>1, <2>2, FS_EmptySet
<1>l. life[p] = "live"
  BY DEF IInv, Reachable
<1>q. ~Quiet /\ \A o \in Obj : ~Filing(o)
  BY DEF Quiet, Filing, Values
<1>1. ASSUME NEW o \in Obj, OnJavaRecycle(o)
      PROVE  BlocksOf(p)' = {} /\ javaRef'[p] = 0
  <2>1. /\ ~KeptByLua(o) /\ open /\ ~(javaRef'[o] > 0)
        /\ OnUserdataGc(o) /\ UNCHANGED <<owner, refCount>>
    BY <1>1, <1>q DEF OnJavaRecycle, blockVars, Quiet
  <2>2. o = p
    BY <2>1, LeaverIsArgument
  <2>3. BlocksOf(p)' = BlocksOf(p)
    BY <2>1 DEF BlocksOf
  <2>4. refCount[p] <= 0
    BY <1>t, <2>1, <2>2 DEF KeptByLua
  <2>5. Cardinality(BlocksOf(p)) <= 0
    BY <1>l, <1>t, <2>1, <2>4, BlocksFinite DEF IInv, RefCountCoversBlocks
  <2> QED
    BY <1>n, <1>t, <2>1, <2>2, <2>3, <2>5
<1>2. ASSUME NEW b \in Block, LuaGc(b)
      PROVE  BlocksOf(p)' = {} /\ javaRef'[p] = 0
  <2>1. /\ Found(bid[b]) # NoObj /\ OnLuaGc(Found(bid[b]))
        /\ Live(b) /\ open /\ javaRef' = javaRef /\ life' = life
    BY <1>2, <1>q, CollectEffect DEF LuaGc, Quiet
  <2>2. PICK o \in Obj : o = Found(bid[b])
    BY <2>1, FoundIsOwner
  <2>3. /\ ~(javaRef[o] > 0) /\ ~(refCount'[o] > 0) /\ OnUserdataGc(o)
    BY <1>2, <1>q, <2>1, <2>2 DEF LuaGc, OnLuaGc, KeptByJava, Quiet
  <2>4. o = p
    BY <2>3, LeaverIsArgument
  <2>5. refCount' \in [Obj -> Int]
    BY TypeOKStep DEF TypeOK
  <2>6. Cardinality(BlocksOf(p)') <= refCount'[p]
    BY <1>l, <2>1, CoversStep DEF RefCountCoversBlocks
  <2>7. Cardinality(BlocksOf(p)') \in Nat
    <3>1. IsFiniteSet(BlocksOf(p)')
      BY FS_Subset, UserdataCacheAssumption DEF BlocksOf
    <3> QED
      BY <3>1, FS_CardinalityType
  <2>8. Cardinality(BlocksOf(p)') <= 0
    BY <2>3, <2>4, <2>5, <2>6, <2>7
  <2> QED
    BY <1>m, <1>t, <2>1, <2>3, <2>4, <2>8
<1>3. CASE UNCHANGED cache \/ open' = FALSE
  BY <1>3
<1>4. ASSUME NEW o \in Obj, JavaNew(o) \/ LuaNewThrows(o) \/ (\E b \in Block, s \in BOOLEAN : LuaNew(o, b, s))
      PROVE  FALSE
  <2>1. Put(o) /\ removed' = removed /\ life[o] = "unborn" /\ life' = [life EXCEPT ![o] = "live"]
    BY <1>4 DEF JavaNew, LuaNewThrows, LuaNew
  <2>2. life'[o] = "live"
    BY <2>1 DEF IInv, TypeOK
  <2> QED
    BY <1>q, <2>1, <2>2, PutMoves
<1>5. ASSUME NEW o \in Obj, Finalize(o)
      PROVE  FALSE
  <2>1. p # o /\ cache' = Without(cache, id[o])
    BY <1>5 DEF Finalize
  <2>2. PICK i \in DOMAIN cache : cache[i] = p
    BY DEF Values
  <2>3. id[p] = i /\ i # 0
    BY <2>2 DEF IInv, TypeOK, Filed
  <2>4. i # id[o]
    BY <2>1, <2>3 DEF IInv, IdsDiffer
  <2> QED
    BY <2>1, <2>2, <2>4 DEF Without, Values
<1> QED
  BY <1>1, <1>2, <1>3, <1>4, <1>5
     DEF Next, JavaStep, LuaStep, OnJavaRef, JavaDrop, ClearSoft, PushNewBlock, PushPinned,
         PushFails, CallMethod, PassToJava, RefStrong, LuaDrop, DestroyGlobals, vars, objVars

\* Blocks are made on an open VM only.
LEMMA NoBlockWhenClosedStep ==
  ASSUME IInv, [Next]_vars
  PROVE  NoBlockWhenClosed'
<1>a. NoBlockWhenClosed /\ owner \in [Block -> Obj \cup {NoObj}]
  BY DEF IInv, TypeOK
<1>1. ASSUME NEW o \in Obj, JavaNew(o)
       PROVE  NoBlockWhenClosed'
  BY <1>1, <1>a DEF NoBlockWhenClosed, JavaNew, Live, objVars, blockVars
<1>2. ASSUME NEW o \in Obj, OnJavaRef(o)
       PROVE  NoBlockWhenClosed'
  BY <1>2, <1>a DEF NoBlockWhenClosed, OnJavaRef, Live, objVars, blockVars
<1>3. ASSUME NEW o \in Obj, OnJavaRecycle(o)
       PROVE  NoBlockWhenClosed'
  BY <1>3, <1>a DEF NoBlockWhenClosed, OnJavaRecycle, Live, objVars, blockVars
<1>4. ASSUME NEW o \in Obj, JavaDrop(o)
       PROVE  NoBlockWhenClosed'
  BY <1>4, <1>a DEF NoBlockWhenClosed, JavaDrop, Live, objVars, blockVars
<1>5. ASSUME NEW o \in Obj, Finalize(o)
       PROVE  NoBlockWhenClosed'
  BY <1>5, <1>a DEF NoBlockWhenClosed, Finalize, Live, objVars, blockVars
<1>6. ASSUME NEW i \in DOMAIN removed, ClearSoft(i)
       PROVE  NoBlockWhenClosed'
  BY <1>6, <1>a DEF NoBlockWhenClosed, ClearSoft, Live, objVars, blockVars
<1>7. ASSUME NEW o \in Obj, NEW b \in Block, NEW s \in BOOLEAN, LuaNew(o, b, s)
       PROVE  NoBlockWhenClosed'
  BY <1>7, <1>a DEF NoBlockWhenClosed, LuaNew, Live, objVars, blockVars
<1>8. ASSUME NEW o \in Obj, NEW b \in Block, PushNewBlock(o, b)
       PROVE  NoBlockWhenClosed'
  BY <1>8, <1>a DEF NoBlockWhenClosed, PushNewBlock, Live, objVars, blockVars
<1>9. ASSUME NEW o \in Obj, NEW b \in Block, PushPinned(o, b)
       PROVE  NoBlockWhenClosed'
  BY <1>9, <1>a DEF NoBlockWhenClosed, PushPinned, Live, objVars, blockVars
<1>10. ASSUME NEW o \in Obj, LuaNewThrows(o)
       PROVE  NoBlockWhenClosed'
  BY <1>10, <1>a DEF NoBlockWhenClosed, LuaNewThrows, Live, objVars, blockVars
<1>11. ASSUME NEW o \in Obj, PushFails(o)
       PROVE  NoBlockWhenClosed'
  BY <1>11, <1>a DEF NoBlockWhenClosed, PushFails, Live, objVars, blockVars
<1>12. ASSUME NEW b \in Block, CallMethod(b)
       PROVE  NoBlockWhenClosed'
  BY <1>12, <1>a DEF NoBlockWhenClosed, CallMethod, Live, objVars, blockVars
<1>13. ASSUME NEW b \in Block, PassToJava(b)
       PROVE  NoBlockWhenClosed'
  BY <1>13, <1>a DEF NoBlockWhenClosed, PassToJava, Live, objVars, blockVars
<1>14. ASSUME NEW b \in Block, RefStrong(b)
       PROVE  NoBlockWhenClosed'
  BY <1>14, <1>a DEF NoBlockWhenClosed, RefStrong, Live, objVars, blockVars
<1>15. ASSUME NEW b \in Block, LuaDrop(b)
       PROVE  NoBlockWhenClosed'
  BY <1>15, <1>a DEF NoBlockWhenClosed, LuaDrop, Live, objVars, blockVars
<1>16. ASSUME NEW b \in Block, LuaGc(b)
       PROVE  NoBlockWhenClosed'
  BY <1>16, <1>a DEF NoBlockWhenClosed, LuaGc, Live, objVars, blockVars
<1>17. CASE DestroyGlobals
  BY <1>17, <1>a DEF NoBlockWhenClosed, DestroyGlobals, Live, objVars, blockVars
<1>18. CASE UNCHANGED vars
  BY <1>18, <1>a DEF NoBlockWhenClosed, vars, Live, objVars, blockVars
<1> QED
  BY <1>1, <1>2, <1>3, <1>4, <1>5, <1>6, <1>7, <1>8, <1>9,
     <1>10, <1>11, <1>12, <1>13, <1>14, <1>15, <1>16, <1>17, <1>18
     DEF Next, JavaStep, LuaStep

\* An object that was born does not cease to be of Java's making.
LEMMA BornKeepsMaker ==
  ASSUME IInv, NEW p \in Obj, life[p] # "unborn", key'[p] # "global", [Next]_vars
  PROVE  key[p] # "global"
<1>a. key \in [Obj -> {"none", "global", "gnv"}]
  BY DEF IInv, TypeOK
<1>1. ASSUME NEW o \in Obj, JavaNew(o)
       PROVE  key[p] # "global"
  BY <1>1, <1>a DEF JavaNew, objVars
<1>2. ASSUME NEW o \in Obj, OnJavaRef(o)
       PROVE  key[p] # "global"
  BY <1>2, <1>a DEF OnJavaRef, objVars
<1>3. ASSUME NEW o \in Obj, OnJavaRecycle(o)
       PROVE  key[p] # "global"
  BY <1>3, <1>a DEF OnJavaRecycle, objVars
<1>4. ASSUME NEW o \in Obj, JavaDrop(o)
       PROVE  key[p] # "global"
  BY <1>4, <1>a DEF JavaDrop, objVars
<1>5. ASSUME NEW o \in Obj, Finalize(o)
       PROVE  key[p] # "global"
  BY <1>5, <1>a DEF Finalize, objVars
<1>6. ASSUME NEW i \in DOMAIN removed, ClearSoft(i)
       PROVE  key[p] # "global"
  BY <1>6, <1>a DEF ClearSoft, objVars
<1>7. ASSUME NEW o \in Obj, NEW b \in Block, NEW s \in BOOLEAN, LuaNew(o, b, s)
       PROVE  key[p] # "global"
  BY <1>7, <1>a DEF LuaNew, objVars
<1>8. ASSUME NEW o \in Obj, NEW b \in Block, PushNewBlock(o, b)
       PROVE  key[p] # "global"
  BY <1>8, <1>a DEF PushNewBlock, objVars
<1>9. ASSUME NEW o \in Obj, NEW b \in Block, PushPinned(o, b)
       PROVE  key[p] # "global"
  BY <1>9, <1>a DEF PushPinned, objVars
<1>10. ASSUME NEW o \in Obj, LuaNewThrows(o)
       PROVE  key[p] # "global"
  BY <1>10, <1>a DEF LuaNewThrows, objVars
<1>11. ASSUME NEW o \in Obj, PushFails(o)
       PROVE  key[p] # "global"
  BY <1>11, <1>a DEF PushFails, objVars
<1>12. ASSUME NEW b \in Block, CallMethod(b)
       PROVE  key[p] # "global"
  BY <1>12, <1>a DEF CallMethod, objVars
<1>13. ASSUME NEW b \in Block, PassToJava(b)
       PROVE  key[p] # "global"
  <2>1. CASE key' = key
    BY <2>1
  <2>2. CASE strong[b] /\ key' = [key EXCEPT ![Found(bid[b])] = "gnv"]
    <3>1. Live(b) /\ Found(bid[b]) # NoObj
      BY <1>13, PassEffect DEF PassToJava, IInv, TypeOK
    <3>2. Found(bid[b]) = owner[b] /\ key[owner[b]] # "global"
      BY <2>2, <3>1, FoundIsOwner DEF IInv, StrongByLua
    <3> QED
      BY <1>a, <2>2, <3>2
  <2> QED
    BY <1>13, <2>1, <2>2, PassEffect
<1>14. ASSUME NEW b \in Block, RefStrong(b)
       PROVE  key[p] # "global"
  BY <1>14, <1>a DEF RefStrong, objVars
<1>15. ASSUME NEW b \in Block, LuaDrop(b)
       PROVE  key[p] # "global"
  BY <1>15, <1>a DEF LuaDrop, objVars
<1>16. ASSUME NEW b \in Block, LuaGc(b)
       PROVE  key[p] # "global"
  BY <1>16, <1>a DEF LuaGc, objVars
<1>17. CASE DestroyGlobals
  BY <1>17, <1>a DEF DestroyGlobals, objVars
<1>18. CASE UNCHANGED vars
  BY <1>18 DEF vars, objVars
<1> QED
  BY <1>1, <1>2, <1>3, <1>4, <1>5, <1>6, <1>7, <1>8, <1>9,
     <1>10, <1>11, <1>12, <1>13, <1>14, <1>15, <1>16, <1>17, <1>18
     DEF Next, JavaStep, LuaStep

\* Where a block that lives after a step comes from.
LEMMA BlockOrigin ==
  ASSUME IInv, NEW c \in Block, Live(c)', [Next]_vars
  PROVE  \/ Live(c) /\ owner'[c] = owner[c] /\ bid'[c] = bid[c]
         \/ \E p \in Obj, t \in BOOLEAN : LuaNew(p, c, t)
         \/ \E p \in Obj : PushNewBlock(p, c)
<1>a. owner \in [Block -> Obj \cup {NoObj}] /\ bid \in [Block -> 0 .. (cacheLong - 1)]
  BY DEF IInv, TypeOK
<1>1. ASSUME NEW o \in Obj, JavaNew(o)
       PROVE  \/ Live(c) /\ owner'[c] = owner[c] /\ bid'[c] = bid[c]
              \/ \E p \in Obj, t \in BOOLEAN : LuaNew(p, c, t)
              \/ \E p \in Obj : PushNewBlock(p, c)
  BY <1>1, <1>a DEF JavaNew, Live, blockVars
<1>2. ASSUME NEW o \in Obj, OnJavaRef(o)
       PROVE  \/ Live(c) /\ owner'[c] = owner[c] /\ bid'[c] = bid[c]
              \/ \E p \in Obj, t \in BOOLEAN : LuaNew(p, c, t)
              \/ \E p \in Obj : PushNewBlock(p, c)
  BY <1>2, <1>a DEF OnJavaRef, Live, blockVars
<1>3. ASSUME NEW o \in Obj, OnJavaRecycle(o)
       PROVE  \/ Live(c) /\ owner'[c] = owner[c] /\ bid'[c] = bid[c]
              \/ \E p \in Obj, t \in BOOLEAN : LuaNew(p, c, t)
              \/ \E p \in Obj : PushNewBlock(p, c)
  BY <1>3, <1>a DEF OnJavaRecycle, Live, blockVars
<1>4. ASSUME NEW o \in Obj, JavaDrop(o)
       PROVE  \/ Live(c) /\ owner'[c] = owner[c] /\ bid'[c] = bid[c]
              \/ \E p \in Obj, t \in BOOLEAN : LuaNew(p, c, t)
              \/ \E p \in Obj : PushNewBlock(p, c)
  BY <1>4, <1>a DEF JavaDrop, Live, blockVars
<1>5. ASSUME NEW o \in Obj, Finalize(o)
       PROVE  \/ Live(c) /\ owner'[c] = owner[c] /\ bid'[c] = bid[c]
              \/ \E p \in Obj, t \in BOOLEAN : LuaNew(p, c, t)
              \/ \E p \in Obj : PushNewBlock(p, c)
  BY <1>5, <1>a DEF Finalize, Live, blockVars
<1>6. ASSUME NEW i \in DOMAIN removed, ClearSoft(i)
       PROVE  \/ Live(c) /\ owner'[c] = owner[c] /\ bid'[c] = bid[c]
              \/ \E p \in Obj, t \in BOOLEAN : LuaNew(p, c, t)
              \/ \E p \in Obj : PushNewBlock(p, c)
  BY <1>6, <1>a DEF ClearSoft, Live, blockVars
<1>7. ASSUME NEW o \in Obj, NEW b \in Block, NEW s \in BOOLEAN, LuaNew(o, b, s)
       PROVE  \/ Live(c) /\ owner'[c] = owner[c] /\ bid'[c] = bid[c]
              \/ \E p \in Obj, t \in BOOLEAN : LuaNew(p, c, t)
              \/ \E p \in Obj : PushNewBlock(p, c)
  <2>1. owner' = [owner EXCEPT ![b] = o] /\ bid' = [bid EXCEPT ![b] = cacheLong]
    BY <1>7 DEF LuaNew, NewBlock
  <2> QED
    BY <1>7, <1>a, <2>1 DEF Live
<1>8. ASSUME NEW o \in Obj, NEW b \in Block, PushNewBlock(o, b)
       PROVE  \/ Live(c) /\ owner'[c] = owner[c] /\ bid'[c] = bid[c]
              \/ \E p \in Obj, t \in BOOLEAN : LuaNew(p, c, t)
              \/ \E p \in Obj : PushNewBlock(p, c)
  <2>1. owner' = [owner EXCEPT ![b] = o] /\ bid' = [bid EXCEPT ![b] = id[o]]
    BY <1>8 DEF PushNewBlock, NewBlock
  <2> QED
    BY <1>8, <1>a, <2>1 DEF Live
<1>9. ASSUME NEW o \in Obj, NEW b \in Block, PushPinned(o, b)
       PROVE  \/ Live(c) /\ owner'[c] = owner[c] /\ bid'[c] = bid[c]
              \/ \E p \in Obj, t \in BOOLEAN : LuaNew(p, c, t)
              \/ \E p \in Obj : PushNewBlock(p, c)
  BY <1>9, <1>a DEF PushPinned, Live, blockVars
<1>10. ASSUME NEW o \in Obj, LuaNewThrows(o)
       PROVE  \/ Live(c) /\ owner'[c] = owner[c] /\ bid'[c] = bid[c]
              \/ \E p \in Obj, t \in BOOLEAN : LuaNew(p, c, t)
              \/ \E p \in Obj : PushNewBlock(p, c)
  BY <1>10, <1>a DEF LuaNewThrows, Live, blockVars
<1>11. ASSUME NEW o \in Obj, PushFails(o)
       PROVE  \/ Live(c) /\ owner'[c] = owner[c] /\ bid'[c] = bid[c]
              \/ \E p \in Obj, t \in BOOLEAN : LuaNew(p, c, t)
              \/ \E p \in Obj : PushNewBlock(p, c)
  BY <1>11, <1>a DEF PushFails, Live, blockVars
<1>12. ASSUME NEW b \in Block, CallMethod(b)
       PROVE  \/ Live(c) /\ owner'[c] = owner[c] /\ bid'[c] = bid[c]
              \/ \E p \in Obj, t \in BOOLEAN : LuaNew(p, c, t)
              \/ \E p \in Obj : PushNewBlock(p, c)
  BY <1>12, <1>a DEF CallMethod, Live, blockVars
<1>13. ASSUME NEW b \in Block, PassToJava(b)
       PROVE  \/ Live(c) /\ owner'[c] = owner[c] /\ bid'[c] = bid[c]
              \/ \E p \in Obj, t \in BOOLEAN : LuaNew(p, c, t)
              \/ \E p \in Obj : PushNewBlock(p, c)
  BY <1>13, <1>a DEF PassToJava, Live, blockVars
<1>14. ASSUME NEW b \in Block, RefStrong(b)
       PROVE  \/ Live(c) /\ owner'[c] = owner[c] /\ bid'[c] = bid[c]
              \/ \E p \in Obj, t \in BOOLEAN : LuaNew(p, c, t)
              \/ \E p \in Obj : PushNewBlock(p, c)
  BY <1>14, <1>a DEF RefStrong, Live, blockVars
<1>15. ASSUME NEW b \in Block, LuaDrop(b)
       PROVE  \/ Live(c) /\ owner'[c] = owner[c] /\ bid'[c] = bid[c]
              \/ \E p \in Obj, t \in BOOLEAN : LuaNew(p, c, t)
              \/ \E p \in Obj : PushNewBlock(p, c)
  BY <1>15, <1>a DEF LuaDrop, Live, blockVars
<1>16. ASSUME NEW b \in Block, LuaGc(b)
       PROVE  \/ Live(c) /\ owner'[c] = owner[c] /\ bid'[c] = bid[c]
              \/ \E p \in Obj, t \in BOOLEAN : LuaNew(p, c, t)
              \/ \E p \in Obj : PushNewBlock(p, c)
  BY <1>16, <1>a DEF LuaGc, Live, blockVars
<1>17. CASE DestroyGlobals
  BY <1>17, <1>a DEF DestroyGlobals, Live, blockVars
<1>18. CASE UNCHANGED vars
  BY <1>18 DEF vars, Live, blockVars
<1> QED
  BY <1>1, <1>2, <1>3, <1>4, <1>5, <1>6, <1>7, <1>8, <1>9,
     <1>10, <1>11, <1>12, <1>13, <1>14, <1>15, <1>16, <1>17, <1>18
     DEF Next, JavaStep, LuaStep

\* A cached object with a block stays cached.
LEMMA BlockStaysCached ==
  ASSUME IInv, [Next]_vars, open', NEW c \in Block, NEW p \in Obj,
         Live(c), owner[c] = p, Live(c)', owner'[c] = p,
         bid[c] \in DOMAIN cache, cache[bid[c]] = p
  PROVE  bid[c] \in DOMAIN cache' /\ cache'[bid[c]] = p
<1>1. c \in BlocksOf(p)'
  BY DEF BlocksOf
<1>2. p \in Values(cache)
  BY DEF Values
<1>3. p \in Values(cache')
  BY <1>1, <1>2, LeavingIsUnreferenced
<1>4. PICK j \in DOMAIN cache' : cache'[j] = p
  BY <1>3 DEF Values
<1>5. id'[p] = j
  BY <1>4, CachesStep DEF Filed
<1>6. id'[p] = bid[c]
  BY BornKeepsId DEF IInv, BlockIds
<1> QED
  BY <1>4, <1>5, <1>6

\* What a script created stays in the cache as long as its block lives.
LEMMA LuaCachedStep ==
  ASSUME IInv, [Next]_vars
  PROVE  LuaCached'
<1> SUFFICES ASSUME NEW c \in Block, Live(c)', key'[owner'[c]] # "global"
             PROVE  bid'[c] \in DOMAIN cache' /\ cache'[bid'[c]] = owner'[c]
  BY DEF LuaCached
<1>1. open'
  BY NoBlockWhenClosedStep DEF NoBlockWhenClosed
<1>2. CASE Live(c) /\ owner'[c] = owner[c] /\ bid'[c] = bid[c]
  <2>1. PICK p \in Obj : p = owner[c]
    BY <1>2 DEF Live, IInv, TypeOK
  <2>2. life[p] # "unborn"
    BY <1>2, <2>1 DEF IInv, BlockIds
  <2>3. key[p] # "global"
    BY <1>2, <2>1, <2>2, BornKeepsMaker
  <2>4. bid[c] \in DOMAIN cache /\ cache[bid[c]] = p
    BY <1>2, <2>1, <2>3 DEF IInv, LuaCached
  <2> QED
    BY <1>1, <1>2, <2>1, <2>4, BlockStaysCached
<1>3. ASSUME NEW p \in Obj, NEW t \in BOOLEAN, LuaNew(p, c, t)
      PROVE  bid'[c] \in DOMAIN cache' /\ cache'[bid'[c]] = owner'[c]
  <2>1. /\ open /\ Put(p) /\ TypeOK
        /\ owner' = [owner EXCEPT ![c] = p] /\ bid' = [bid EXCEPT ![c] = cacheLong]
    BY <1>3 DEF LuaNew, NewBlock, IInv
  <2>2. owner'[c] = p /\ bid'[c] = cacheLong
    BY <2>1 DEF TypeOK
  <2> QED
    BY <2>1, <2>2, PutEffect
<1>4. ASSUME NEW p \in Obj, PushNewBlock(p, c)
      PROVE  FALSE
  <2>1. /\ key' = key /\ key[p] = "global"
        /\ owner' = [owner EXCEPT ![c] = p]
    BY <1>4 DEF PushNewBlock, NewBlock
  <2> QED
    BY <2>1 DEF IInv, TypeOK
<1> QED
  BY <1>2, <1>3, <1>4, BlockOrigin

\* The caches keep an object Java holds.
LEMMA GetStays ==
  ASSUME IInv, [Next]_vars, open', CacheType # "REMOVE",
         NEW p \in Obj, p \in held, id[p] # 0, Found(id[p]) = p
  PROVE  Found(id[p])' = p
<1> DEFINE i == id[p]
<1>l. life[p] = "live"
  BY DEF IInv, Reachable
<1>i. id'[p] = i
  BY <1>l, BornKeepsId
<1>t. i \in 1 .. (cacheLong - 1) /\ cacheLong \in Nat
  BY DEF IInv, TypeOK
<1>n. p # NoObj
  BY UserdataCacheAssumption
<1>g. \/ i \in DOMAIN cache /\ cache[i] = p
      \/ i \notin DOMAIN cache /\ CacheType = "REMOVE_CACHE" /\ i \in DOMAIN removed /\ removed[i] = p
  BY <1>n DEF Found
<1> SUFFICES \/ i \in DOMAIN cache' /\ cache'[i] = p
             \/ i \notin DOMAIN cache' /\ CacheType = "REMOVE_CACHE" /\ i \in DOMAIN removed' /\ removed'[i] = p
  BY <1>i DEF Found
<1> HIDE DEF i
<1>1. CASE Quiet
  BY <1>1, <1>g DEF Quiet
<1>2. ASSUME NEW o \in Obj, Filing(o)
      PROVE  \/ i \in DOMAIN cache' /\ cache'[i] = p
             \/ i \notin DOMAIN cache' /\ CacheType = "REMOVE_CACHE" /\ i \in DOMAIN removed' /\ removed'[i] = p
  <2>1. i # cacheLong
    BY <1>t
  <2> QED
    BY <1>2, <1>g, <2>1 DEF Filing
<1>3. ASSUME NEW o \in Obj, Leaving(o)
      PROVE  \/ i \in DOMAIN cache' /\ cache'[i] = p
             \/ i \notin DOMAIN cache' /\ CacheType = "REMOVE_CACHE" /\ i \in DOMAIN removed' /\ removed'[i] = p
  <2>1. CASE o = p
    BY <1>3, <2>1 DEF Leaving, i
  <2>2. CASE o # p
    <3>1. id[o] # i
      BY <2>2, <1>3 DEF IInv, IdsDiffer, Leaving, i
    <3> QED
      BY <1>3, <1>g, <3>1 DEF Leaving
  <2> QED
    BY <2>1, <2>2
<1>4. ASSUME NEW j \in DOMAIN removed, Clearing(j)
      PROVE  \/ i \in DOMAIN cache' /\ cache'[i] = p
             \/ i \notin DOMAIN cache' /\ CacheType = "REMOVE_CACHE" /\ i \in DOMAIN removed' /\ removed'[i] = p
  BY <1>4, <1>g DEF Clearing
<1>5. ~Closing
  BY DEF Closing
<1> QED
  BY <1>1, <1>2, <1>3, <1>4, <1>5, EveryStepMoves DEF Moves

\* Where an object that Java holds after a step comes from.
LEMMA HeldOrigin ==
  ASSUME IInv, NEW p \in Obj, p \in held', [Next]_vars
  PROVE  \/ p \in held
         \/ JavaNew(p)
         \/ Found(id[p])' = p
<1>a. held \subseteq Obj
  BY DEF IInv, TypeOK
<1>1. ASSUME NEW o \in Obj, JavaNew(o)
       PROVE  \/ p \in held
              \/ JavaNew(p)
              \/ Found(id[p])' = p
  BY <1>1 DEF JavaNew
<1>2. ASSUME NEW o \in Obj, OnJavaRef(o)
       PROVE  \/ p \in held
              \/ JavaNew(p)
              \/ Found(id[p])' = p
  BY <1>2 DEF OnJavaRef
<1>3. ASSUME NEW o \in Obj, OnJavaRecycle(o)
       PROVE  \/ p \in held
              \/ JavaNew(p)
              \/ Found(id[p])' = p
  BY <1>3 DEF OnJavaRecycle
<1>4. ASSUME NEW o \in Obj, JavaDrop(o)
       PROVE  \/ p \in held
              \/ JavaNew(p)
              \/ Found(id[p])' = p
  BY <1>4 DEF JavaDrop
<1>5. ASSUME NEW o \in Obj, Finalize(o)
       PROVE  \/ p \in held
              \/ JavaNew(p)
              \/ Found(id[p])' = p
  BY <1>5 DEF Finalize
<1>6. ASSUME NEW i \in DOMAIN removed, ClearSoft(i)
       PROVE  \/ p \in held
              \/ JavaNew(p)
              \/ Found(id[p])' = p
  BY <1>6 DEF ClearSoft
<1>7. ASSUME NEW o \in Obj, NEW b \in Block, NEW s \in BOOLEAN, LuaNew(o, b, s)
       PROVE  \/ p \in held
              \/ JavaNew(p)
              \/ Found(id[p])' = p
  BY <1>7 DEF LuaNew
<1>8. ASSUME NEW o \in Obj, NEW b \in Block, PushNewBlock(o, b)
       PROVE  \/ p \in held
              \/ JavaNew(p)
              \/ Found(id[p])' = p
  BY <1>8 DEF PushNewBlock
<1>9. ASSUME NEW o \in Obj, NEW b \in Block, PushPinned(o, b)
       PROVE  \/ p \in held
              \/ JavaNew(p)
              \/ Found(id[p])' = p
  BY <1>9 DEF PushPinned
<1>10. ASSUME NEW o \in Obj, LuaNewThrows(o)
       PROVE  \/ p \in held
              \/ JavaNew(p)
              \/ Found(id[p])' = p
  BY <1>10 DEF LuaNewThrows
<1>11. ASSUME NEW o \in Obj, PushFails(o)
       PROVE  \/ p \in held
              \/ JavaNew(p)
              \/ Found(id[p])' = p
  BY <1>11 DEF PushFails
<1>12. ASSUME NEW b \in Block, CallMethod(b)
       PROVE  \/ p \in held
              \/ JavaNew(p)
              \/ Found(id[p])' = p
  <2>1. Live(b) /\ Found(bid[b]) # NoObj /\ held' = held \cup {Found(bid[b])}
    BY <1>12, CallEffect DEF CallMethod, IInv, TypeOK
  <2>2. Found(bid[b]) = owner[b] /\ owner[b] \in Obj /\ id[owner[b]] = bid[b]
    BY <2>1, FoundIsOwner
  <2>3. id' = id /\ cache' = cache /\ removed' = removed
    BY <1>12 DEF CallMethod, objVars
  <2>4. CASE p \in held
    BY <2>4
  <2>5. CASE p = owner[b]
    <3>1. Found(id[p])' = Found(id[p])
      BY <2>3 DEF Found
    <3> QED
      BY <2>2, <2>3, <2>5, <3>1
  <2> QED
    BY <2>1, <2>2, <2>4, <2>5
<1>13. ASSUME NEW b \in Block, PassToJava(b)
       PROVE  \/ p \in held
              \/ JavaNew(p)
              \/ Found(id[p])' = p
  <2>1. Live(b) /\ Found(bid[b]) # NoObj /\ held' = held \cup {Found(bid[b])}
    BY <1>13, PassEffect DEF PassToJava, IInv, TypeOK
  <2>2. Found(bid[b]) = owner[b] /\ owner[b] \in Obj /\ id[owner[b]] = bid[b]
    BY <2>1, FoundIsOwner
  <2>3. id' = id /\ cache' = cache /\ removed' = removed
    BY <1>13 DEF PassToJava, objVars
  <2>4. CASE p \in held
    BY <2>4
  <2>5. CASE p = owner[b]
    <3>1. Found(id[p])' = Found(id[p])
      BY <2>3 DEF Found
    <3> QED
      BY <2>2, <2>3, <2>5, <3>1
  <2> QED
    BY <2>1, <2>2, <2>4, <2>5
<1>14. ASSUME NEW b \in Block, RefStrong(b)
       PROVE  \/ p \in held
              \/ JavaNew(p)
              \/ Found(id[p])' = p
  BY <1>14 DEF RefStrong
<1>15. ASSUME NEW b \in Block, LuaDrop(b)
       PROVE  \/ p \in held
              \/ JavaNew(p)
              \/ Found(id[p])' = p
  BY <1>15 DEF LuaDrop
<1>16. ASSUME NEW b \in Block, LuaGc(b)
       PROVE  \/ p \in held
              \/ JavaNew(p)
              \/ Found(id[p])' = p
  BY <1>16 DEF LuaGc
<1>17. CASE DestroyGlobals
  BY <1>17 DEF DestroyGlobals
<1>18. CASE UNCHANGED vars
  BY <1>18 DEF vars
<1> QED
  BY <1>1, <1>2, <1>3, <1>4, <1>5, <1>6, <1>7, <1>8, <1>9,
     <1>10, <1>11, <1>12, <1>13, <1>14, <1>15, <1>16, <1>17, <1>18
     DEF Next, JavaStep, LuaStep

\* The caches have what Java holds.
LEMMA HeldFoundStep ==
  ASSUME IInv, [Next]_vars
  PROVE  HeldFound'
<1> SUFFICES ASSUME NEW p \in Obj, p \in held', open', id'[p] # 0, CacheType # "REMOVE"
             PROVE  Found(id[p])' = p
  BY TypeOKStep DEF HeldFound, TypeOK
<1>1. CASE p \in held
  <2>1. life[p] = "live" /\ id'[p] = id[p] /\ open
    <3>1. life[p] = "live"
      BY <1>1 DEF IInv, Reachable
    <3>2. ~open => ~open'
      BY DEF Next, JavaStep, LuaStep, JavaNew, OnJavaRef, OnJavaRecycle, JavaDrop, Finalize,
             ClearSoft, LuaNew, PushNewBlock, PushPinned, LuaNewThrows, PushFails, CallMethod,
             PassToJava, RefStrong, LuaDrop, LuaGc, DestroyGlobals, vars
    <3> QED
      BY <3>1, <3>2, BornKeepsId
  <2>2. Found(id[p]) = p
    BY <1>1, <2>1 DEF IInv, HeldFound
  <2>3. Found(id[p])' = p
    BY <1>1, <2>1, <2>2, GetStays
  <2> QED
    BY <2>3
<1>2. CASE JavaNew(p)
  <2>1. open /\ Put(p) /\ TypeOK
    BY <1>2 DEF JavaNew, IInv
  <2>2. id' = [id EXCEPT ![p] = cacheLong] /\ cacheLong \in DOMAIN cache' /\ cache'[cacheLong] = p
    BY <2>1, PutEffect
  <2>3. id'[p] = cacheLong
    BY <2>1, <2>2 DEF TypeOK
  <2> QED
    BY <2>2, <2>3 DEF Found
<1> QED
  BY <1>1, <1>2, HeldOrigin

-----------------------------------------------------------------------------
(* The theorems.                                                           *)

\* Every VM starts in the invariant.
LEMMA InitInvariant == Init => IInv
<1> SUFFICES ASSUME Init PROVE IInv
  OBVIOUS
<1>1. DOMAIN cache = {} /\ DOMAIN removed = {}
  BY DEF Init, Empty
<1>2. \A b \in Block : ~Live(b)
  BY DEF Init, Live
<1>3. \A o \in Obj : BlocksOf(o) = {} /\ life[o] = "unborn" /\ id[o] = 0
  BY UserdataCacheAssumption DEF Init, BlocksOf
<1>4. TypeOK
  <2>1. 0 \in 0 .. MaxJavaRef /\ 0 \in 0 .. (1 - 1)
    BY UserdataCacheAssumption
  <2>2. javaRef \in [Obj -> 0 .. MaxJavaRef] /\ refCount \in [Obj -> Int]
        /\ id \in [Obj -> 0 .. (cacheLong - 1)] /\ bid \in [Block -> 0 .. (cacheLong - 1)]
    BY <2>1 DEF Init
  <2>3. /\ life \in [Obj -> {"unborn", "live", "finalized"}]
        /\ key \in [Obj -> {"none", "global", "gnv"}]
        /\ owner \in [Block -> Obj \cup {NoObj}]
    BY DEF Init
  <2>4. open \in BOOLEAN /\ strong \in [Block -> BOOLEAN] /\ skey \in [Block -> BOOLEAN]
    BY DEF Init
  <2>5. Values(cache) = {} /\ Values(removed) = {}
    BY <1>1 DEF Values
  <2> QED
    BY <1>1, <2>2, <2>3, <2>4, <2>5 DEF Init, TypeOK
<1>5. Filed /\ IdsDiffer /\ BlockIds /\ Births
  BY <1>1, <1>2, <1>3 DEF Init, Filed, IdsDiffer, BlockIds, Births
<1>6. Reachable /\ HeldFound
  BY <1>1 DEF Init, Reachable, Values, HeldFound
<1>7. StrongByLua /\ LuaCached /\ NoBlockWhenClosed
  BY <1>2 DEF StrongByLua, LuaCached, NoBlockWhenClosed
<1>8. RefCountCoversBlocks
  BY <1>3 DEF RefCountCoversBlocks
<1> QED
  BY <1>4, <1>5, <1>6, <1>7, <1>8 DEF IInv

\* Every step of Lua, of Java and of its collector keeps it.
LEMMA StepInvariant == IInv /\ [Next]_vars => IInv'
  BY TypeOKStep, CachesStep, BlockIdsStep, BirthsStep, ReachableStep, StrongByLuaStep,
     CoversStep, LuaCachedStep, NoBlockWhenClosedStep, HeldFoundStep DEF IInv

\* The strengthened invariant holds of every behaviour.
THEOREM Invariant == Spec => []IInv
  BY InitInvariant, StepInvariant, PTL DEF Spec

\* Ids, caches, counts and flags keep their types.
THEOREM TypeCorrect == Spec => []TypeOK
<1>1. IInv => TypeOK
  BY DEF IInv
<1> QED
  BY <1>1, Invariant, PTL

\* addRef and __onLuaGc keep refCount at or above the number of blocks, for
\* every number of blocks, whatever Java and the collectors do.
THEOREM CountsCoverBlocks == Spec => []RefCountCoversBlocks
<1>1. IInv => RefCountCoversBlocks
  BY DEF IInv
<1> QED
  BY <1>1, Invariant, PTL

\* __getUserdata answers a block with the block's own object or with null.
THEOREM BlocksResolveToOwners == Spec => []ResolvesToOwner
<1>1. IInv => ResolvesToOwner
  BY BlockResolves DEF IInv, ResolvesToOwner, Get
<1> QED
  BY <1>1, Invariant, PTL

\* Under every cache type, a userdata a script created finds its object as long
\* as the script can reach its block; the debug hook is never asked for it.
THEOREM ScriptUserdataResolve == Spec => []LuaCreatedResolves
<1>1. IInv => LuaCreatedResolves
  <2> SUFFICES ASSUME IInv, NEW b \in Block, Live(b), key[owner[b]] # "global"
               PROVE  Get(bid[b]) = {owner[b]}
    BY DEF LuaCreatedResolves
  <2> QED
    BY DEF IInv, LuaCached, Found, Get
<1> QED
  BY <1>1, Invariant, PTL

\* With TYPE_NONE and TYPE_REMOVE_CACHE the caches have every object Java holds
\* on a live VM, so Lua finds it; null is an answer for it only in a debug build
\* whose adapter may return null (UserdataCache.get, MLNCore.onNullGet).
THEOREM HeldObjectsResolve == Spec => []HeldResolves
<1>1. IInv => HeldResolves
  <2> SUFFICES ASSUME IInv, NEW o \in held, open, id[o] # 0, CacheType # "REMOVE"
               PROVE  o \in Get(id[o]) /\ (NoObj \in Get(id[o]) => MayWithhold)
    BY DEF HeldResolves
  <2>1. Found(id[o]) = o /\ o # NoObj
    BY UserdataCacheAssumption DEF IInv, HeldFound, TypeOK
  <2> QED
    BY <2>1 DEF Get
<1> QED
  BY <1>1, Invariant, PTL

\* onUserdataGc, from __onLuaGc or onJavaRecycle, takes an object out of the
\* cache of a live VM only when no block and no declared Java reference is left.
THEOREM OnlyUnreferencedAreDropped == Spec => DropsOnlyUnreferenced
<1>1. ASSUME IInv, [Next]_vars, NEW o \in Values(cache), open', o \notin Values(cache')
      PROVE  BlocksOf(o)' = {} /\ javaRef'[o] = 0
  <2>1. o \in Obj
    BY <1>1 DEF IInv, TypeOK
  <2> QED
    BY <1>1, <2>1, LeavingIsUnreferenced
<1>2. IInv /\ [Next]_vars
        => [\A o \in Values(cache) :
              open' /\ o \notin Values(cache') => BlocksOf(o)' = {} /\ javaRef'[o] = 0]_vars
  BY <1>1
<1> QED
  BY <1>2, Invariant, PTL DEF Spec, DropsOnlyUnreferenced

=============================================================================
