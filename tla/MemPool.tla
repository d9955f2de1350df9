------------------------------ MODULE MemPool -------------------------------
(***************************************************************************)
(* The memory pool a Lua VM may allocate from (japi/mempool.c) and the     *)
(* allocator function that stands between them (m_alloc of luajapi.c).     *)
(*                                                                         *)
(* The pool is a row of blocks.  A block is tiled by runs of chunks; the   *)
(* first chunk of a run carries a tag: its length (count), the length of   *)
(* the run before it (pre) and whether it is allocated (using).  A pointer *)
(* is a block and a chunk index.  The tag of a run that was merged into    *)
(* another stays in memory and is never read: it leaves the tag function.  *)
(* pool.current is the bump pointer, always in the last block.             *)
(*                                                                         *)
(* mp_clear_pool has no caller.  m_alloc handles a null pointer and a size *)
(* of zero itself, so those branches of mp_realloc are not reached.        *)
(***************************************************************************)
EXTENDS Integers, Sequences, FiniteSets, FiniteSetsExt

CONSTANTS
  Slot,         \* what the Lua VM allocates for: one allocation each
  Null,
  CountMod,     \* 2 ^ MP_CHUNK_BITS: mem_size wraps here (65536)
  ChunkBytes,   \* sizeof(mem_chunk) (24)
  FlagBytes,    \* chunk_flag_size (8)
  InitChunks,   \* mp->init (4096)
  MaxChunks,    \* mp->max (65535)
  Sizes,        \* the sizes Lua asks for, in bytes
  MaxBlocks     \* bound: blocks the platform can supply

ASSUME MemPoolAssumption ==
  /\ CountMod \in Nat /\ ChunkBytes \in Nat /\ FlagBytes \in Nat \ {0}
  /\ FlagBytes < ChunkBytes
  /\ InitChunks \in 1 .. MaxChunks
  /\ MaxChunks \in 1 .. (CountMod - 1)
  /\ Sizes \subseteq Nat \ {0}
  /\ MaxBlocks \in Nat \ {0}
  /\ Null \notin (Nat \X Nat) \cup [at : Nat \X Nat, size : Nat]
  /\ Null \notin [cells : SUBSET (Nat \X Nat), bytes : Nat]

VARIABLES
  pool,    \* [size, using: per block, tag, current, torn]
  live,    \* each slot: Null, or where its allocation is and the size asked for
  phase    \* "open", "closing" (vm_is_closing), "closed" (the pool is freed)

vars == <<pool, live, phase>>

Wrap(n) == n % CountMod

Blocks(p) == 1 .. Len(p.size)
Last(p) == Len(p.size)
End(p, b) == <<b, p.size[b]>>
Heads(p) == DOMAIN p.tag
After(tag, c) == <<c[1], c[2] + tag[c].count>>
InBlock(p, c) == c[2] < p.size[c[1]]
Remain(p, b) == Wrap(p.size[b] - p.using[b])
Tag(count, pre, using) == [count |-> count, pre |-> pre, using |-> using]
Use(p, b, n) == [p EXCEPT !.using[b] = Wrap(@ + n)]

TypeOK ==
  /\ pool.size \in Seq(0 .. InitChunks) /\ Len(pool.size) \in 1 .. MaxBlocks
  /\ pool.using \in Seq(0 .. (CountMod - 1)) /\ Len(pool.using) = Len(pool.size)
  /\ Heads(pool) \subseteq (1 .. MaxBlocks) \X (0 .. InitChunks)
  /\ \A c \in Heads(pool) : pool.tag[c] \in [count : 0 .. InitChunks,
                                             pre : 0 .. InitChunks, using : BOOLEAN]
  /\ pool.current \in (1 .. MaxBlocks) \X (0 .. InitChunks)
  /\ pool.torn \in BOOLEAN
  /\ \A s \in Slot : live[s] # Null =>
        live[s] \in [at : (1 .. MaxBlocks) \X (0 .. InitChunks), size : Sizes]
  /\ phase \in {"open", "closing", "closed"}

\* mp_new_pool: one block of mp->init free chunks.
Init ==
  /\ pool = [size |-> <<InitChunks>>, using |-> <<0>>,
             tag |-> [c \in {<<1, 0>>} |-> Tag(InitChunks, 0, FALSE)],
             current |-> <<1, 0>>, torn |-> FALSE]
  /\ live = [s \in Slot |-> Null]
  /\ phase = "open"

-----------------------------------------------------------------------------
(* The steps the pool's functions are made of.                             *)

\* (Fault_ operators are the plausible mistakes the properties are tried
\* against; no action uses them.)
Fault_NeedChunkCount(bytes) ==
  IF bytes <= ChunkBytes - FlagBytes THEN 1
  ELSE Wrap((bytes - (ChunkBytes - FlagBytes)) \div ChunkBytes + 1)

\* need_chunk_count, in 16 bits.  With n = 0 the comparison of the code is on
\* an unsigned difference below zero, so it does not add one.
NeedChunkCount(bytes) ==
  LET n == Wrap((bytes - (ChunkBytes - FlagBytes)) \div ChunkBytes + 1)
  IN  IF bytes <= ChunkBytes - FlagBytes THEN 1
      ELSE IF n > 0 /\ n * ChunkBytes - FlagBytes < bytes THEN Wrap(n + 1)
      ELSE n

\* set_pre_count(n, c), where n is still inside the block.
SetPre(p, n, c) ==
  IF InBlock(p, n) THEN [p EXCEPT !.tag[n].pre = p.tag[c].count] ELSE p

Fault_CombineNext(p, c, n) ==
  LET t == [x \in Heads(p) \ {n} |->
              IF x = c THEN [p.tag[c] EXCEPT !.count = @ + p.tag[n].count] ELSE p.tag[x]]
  IN  [p EXCEPT !.tag = t, !.current = IF n = p.current THEN c ELSE @]

\* combine_next: the free run n joins the free run c before it.  The bump
\* pointer follows; a run after the bump run there is none.
CombineNext(p, c, n) ==
  LET t == [x \in Heads(p) \ {n} |->
              IF x = c THEN [p.tag[c] EXCEPT !.count = @ + p.tag[n].count] ELSE p.tag[x]]
      q == [p EXCEPT !.tag = t]
  IN  IF n = p.current THEN [q EXCEPT !.current = c]
      ELSE SetPre(q, After(t, c), c)

\* The run c, of total chunks, keeps n; what is left becomes a free run and
\* joins a free run behind it.  (In mp_alloc, mp_realloc shrinking and growing.)
Cut(p, c, total, n) ==
  LET rest == <<c[1], c[2] + n>>
      next == <<c[1], c[2] + total>>
      t    == [x \in Heads(p) \cup (IF n < total THEN {rest} ELSE {}) |->
                 IF x = c THEN [p.tag[c] EXCEPT !.count = n]
                 ELSE IF x = rest THEN Tag(total - n, n, FALSE)
                 ELSE p.tag[x]]
      q    == [p EXCEPT !.tag = IF n = total THEN [p.tag EXCEPT ![c].count = n] ELSE t]
      tail == IF n = total THEN c ELSE rest
  IN  IF n < total /\ InBlock(p, next) /\ ~q.tag[next].using
      THEN CombineNext(q, rest, next)
      ELSE SetPre(q, next, tail)

-----------------------------------------------------------------------------
(* mp_alloc.                                                               *)

\* pool_all_using_size, in 16 bits: what the last block uses, and the blocks
\* before it taken for whole.
AllUsingSize(p) == Wrap(p.using[Last(p)] + InitChunks * (Last(p) - 1))

Fault_NextBlockSize(p) == Wrap(MaxChunks - AllUsingSize(p))

NextBlockSize(p) ==
  LET n == Wrap(MaxChunks - AllUsingSize(p))
  IN  IF n > InitChunks THEN InitChunks ELSE n

\* alloc_block.  The platform's memory is m: "ok"; "none" when the block or the
\* first array cannot be allocated; "torn" when a later array cannot, after
\* arr_size was raised: the arrays are then read past their ends.  A block of
\* no chunks is added like any other, and reported as a failure; its tag lies
\* outside it and is never read.
AllocBlock(p, m) ==
  LET n == NextBlockSize(p)
      b == Last(p) + 1
  IN  IF m = "none" THEN p
      ELSE IF m = "torn" THEN [p EXCEPT !.torn = TRUE]
      ELSE [p EXCEPT !.size = Append(@, n), !.using = Append(@, 0),
                     !.current = <<b, 0>>,
                     !.tag = [x \in Heads(p) \cup (IF n > 0 THEN {<<b, 0>>} ELSE {}) |->
                                IF x = <<b, 0>> THEN Tag(n, 0, FALSE) ELSE p.tag[x]]]

Result(p, c) == [pool |-> p, at |-> c]

Bumps(p, n) == p.current[2] + n <= p.size[Last(p)]

\* The n chunks at the bump pointer.
BumpAlloc(p, n) ==
  LET c == p.current
      rest == <<c[1], c[2] + n>>
      remain == p.tag[c].count - n
      t == [x \in Heads(p) \cup (IF remain > 0 THEN {rest} ELSE {}) |->
              IF x = c THEN Tag(n, p.tag[c].pre, TRUE)
              ELSE IF x = rest THEN Tag(remain, n, FALSE)
              ELSE p.tag[x]]
  IN  Result(Use([p EXCEPT !.tag = t, !.current = rest], c[1], n), c)

Fault_Fits(p, n) == {c \in Heads(p) : Remain(p, c[1]) >= n /\ p.tag[c].count >= n}

\* Free runs of n chunks, in blocks whose counter says there is room, and the
\* first of them in the order the code walks blocks and runs.
Fits(p, n) ==
  {c \in Heads(p) : Remain(p, c[1]) >= n /\ ~p.tag[c].using /\ p.tag[c].count >= n}
First(S) ==
  CHOOSE c \in S : \A d \in S : c[1] < d[1] \/ (c[1] = d[1] /\ c[2] <= d[2])

Fault_CarveFirstFit(p, n) ==
  LET c == First(Fits(p, n))
  IN  Result(Cut([p EXCEPT !.tag[c].using = TRUE], c, p.tag[c].count, n), c)

CarveFirstFit(p, n) ==
  LET c == First(Fits(p, n))
      q == [p EXCEPT !.tag[c].using = TRUE]
  IN  Result(Use(Cut(q, c, p.tag[c].count, n), c[1], n), c)

\* A new block, and the allocation in it if it is large enough.
AllocInNewBlock(p, n, m) ==
  LET q == AllocBlock(p, m)
  IN  IF Last(q) > Last(p) /\ q.size[Last(q)] > 0 /\ Bumps(q, n)
      THEN BumpAlloc(q, n)
      ELSE Result(q, Null)

\* mp_alloc, n = need_chunk_count(size).
MpAlloc(p, n, m) ==
  IF n > InitChunks THEN Result(p, Null)
  ELSE IF Remain(p, Last(p)) < n THEN AllocInNewBlock(p, n, m)
  ELSE IF Bumps(p, n) THEN BumpAlloc(p, n)
  ELSE IF Fits(p, n) # {} THEN CarveFirstFit(p, n)
  ELSE AllocInNewBlock(p, n, m)

-----------------------------------------------------------------------------
(* mp_free, mp_realloc.                                                    *)

Fault_MpFree(p, c) ==
  LET n    == After(p.tag, c)
      q    == Use([p EXCEPT !.tag[c].using = FALSE], c[1], - p.tag[c].count)
  IN  IF InBlock(p, n) /\ ~q.tag[n].using THEN CombineNext(q, c, n) ELSE q

\* mp_free of an allocated run: it joins the free run before it, then the free
\* run behind it.
MpFree(p, c) ==
  LET n    == After(p.tag, c)
      pre  == <<c[1], c[2] - p.tag[c].pre>>
      q    == Use([p EXCEPT !.tag[c].using = FALSE], c[1], - p.tag[c].count)
      back == pre # c /\ ~p.tag[pre].using
      joined == [x \in Heads(q) \ {c} |->
                   IF x = pre THEN [q.tag[pre] EXCEPT !.count = @ + p.tag[c].count]
                   ELSE q.tag[x]]
      r    == IF back THEN SetPre([q EXCEPT !.tag = joined], n, pre) ELSE q
  IN  IF InBlock(p, n) /\ ~r.tag[n].using
      THEN CombineNext(r, IF back THEN pre ELSE c, n)
      ELSE r

\* The run c takes what it lacks of n chunks from the free run behind it.
CanGrow(p, c, n) ==
  LET next == After(p.tag, c)
  IN  InBlock(p, next) /\ ~p.tag[next].using /\ p.tag[c].count + p.tag[next].count >= n

Fault_Grow(p, c, n) ==
  LET next  == After(p.tag, c)
      total == p.tag[c].count + p.tag[next].count
      q     == [p EXCEPT !.tag = [x \in Heads(p) \ {next} |-> p.tag[x]]]
  IN  Use(Cut(q, c, total, n), c[1], n - p.tag[c].count)

Grow(p, c, n) ==
  LET next  == After(p.tag, c)
      total == p.tag[c].count + p.tag[next].count
      q     == [p EXCEPT !.tag = [x \in Heads(p) \ {next} |-> p.tag[x]]]
      r     == Use(Cut(q, c, total, n), c[1], n - p.tag[c].count)
  IN  IF next = p.current THEN [r EXCEPT !.current = <<c[1], c[2] + total>>] ELSE r

Fault_MpRealloc(p, c, n, m) ==
  LET r == MpAlloc(p, n, m)
  IN  IF r.at = Null THEN r ELSE Result(MpFree(r.pool, c), r.at)

\* mp_realloc of a pointer to n > 0 chunks: in place when the run is long
\* enough or can grow, otherwise a new allocation and the old one freed.
MpRealloc(p, c, n, m) ==
  LET count == p.tag[c].count
      r     == MpAlloc(p, n, m)
  IN  IF n = count THEN Result(p, c)
      ELSE IF n < count THEN Result(Use(Cut(p, c, count, n), c[1], n - count), c)
      ELSE IF CanGrow(p, c, n) THEN Result(Grow(p, c, n), c)
      ELSE IF r.at = Null THEN r
      ELSE Result(MpFree(r.pool, c), r.at)

-----------------------------------------------------------------------------
(* m_alloc: what the Lua VM does with the pool, and jni_close.             *)

Memory == {m \in {"ok", "none", "torn"} : m = "ok" => Len(pool.size) < MaxBlocks}

Settle(s, bytes, r) ==
  /\ pool' = r.pool
  /\ live' = IF r.at = Null THEN live
             ELSE [live EXCEPT ![s] = [at |-> r.at, size |-> bytes]]

\* m_alloc(NULL, nsize).
Alloc(s, bytes) ==
  /\ ~pool.torn /\ phase # "closed" /\ live[s] = Null
  /\ \E m \in Memory : Settle(s, bytes, MpAlloc(pool, NeedChunkCount(bytes), m))
  /\ UNCHANGED phase

\* m_alloc(ptr, osize, nsize).  While the VM closes, a block that is large
\* enough stays as it is.
KeepsPtr(s, bytes) == phase = "closing" /\ live[s].size >= bytes

Realloc(s, bytes) ==
  /\ ~pool.torn /\ phase # "closed" /\ live[s] # Null
  /\ \/ /\ KeepsPtr(s, bytes)
        /\ Settle(s, bytes, Result(pool, live[s].at))
     \/ /\ ~KeepsPtr(s, bytes)
        /\ \E m \in Memory :
              Settle(s, bytes, MpRealloc(pool, live[s].at, NeedChunkCount(bytes), m))
  /\ UNCHANGED phase

\* m_alloc(ptr, osize, 0).  While the VM closes nothing is given back.
Free(s) ==
  /\ ~pool.torn /\ phase # "closed" /\ live[s] # Null
  /\ pool' = IF phase = "closing" THEN pool ELSE MpFree(pool, live[s].at)
  /\ live' = [live EXCEPT ![s] = Null]
  /\ UNCHANGED phase

\* jni_close raises vm_is_closing, lua_close frees every object, and the pool
\* goes.
Close == phase = "open" /\ phase' = "closing" /\ UNCHANGED <<pool, live>>

FreePool ==
  /\ phase = "closing" /\ \A s \in Slot : live[s] = Null
  /\ phase' = "closed"
  /\ UNCHANGED <<pool, live>>

Next ==
  \/ \E s \in Slot, bytes \in Sizes : Alloc(s, bytes) \/ Realloc(s, bytes)
  \/ \E s \in Slot : Free(s)
  \/ Close
  \/ FreePool

Spec == Init /\ [][Next]_vars

-----------------------------------------------------------------------------
(* Properties.                                                             *)

Allocated == {s \in Slot : live[s] # Null}

\* The runs of a block follow one another from its first chunk to its last,
\* each knows the length of the one before it, and none begins inside another:
\* what mp_test aborts on, of every block, after any sequence of calls.
Tiled ==
  /\ \A b \in Blocks(pool) :
       pool.size[b] > 0 => <<b, 0>> \in Heads(pool) /\ pool.tag[<<b, 0>>].pre = 0
  /\ \A c \in Heads(pool) :
       LET n == After(pool.tag, c)
       IN  /\ c[1] \in Blocks(pool) /\ pool.tag[c].count > 0
           /\ n = End(pool, c[1]) \/ (n \in Heads(pool) /\ pool.tag[n].pre = pool.tag[c].count)
           /\ \A d \in Heads(pool) : d[1] = c[1] /\ c[2] < d[2] => n[2] <= d[2]

\* No two neighbouring runs are free (mp_test): so memory that was given back
\* in any order is one run again, whatever path gave it back.
Coalesced ==
  \A c \in Heads(pool) :
     LET n == After(pool.tag, c)
     IN  n \in Heads(pool) => pool.tag[c].using \/ pool.tag[n].using

\* The bump pointer is in the last block, at its end or at a free run that
\* reaches its end; BumpAlloc writes its tags without looking further.
BumpIsFree ==
  LET c == pool.current
  IN  /\ c[1] = Last(pool)
      /\ c = End(pool, c[1]) \/ (/\ c \in Heads(pool)
                                 /\ ~pool.tag[c].using
                                 /\ After(pool.tag, c) = End(pool, c[1]))

\* Every allocation Lua holds is a run of its own that is marked as used; with
\* Tiled, no two share a chunk.  Until the VM closes, nothing else is marked.
EachItsOwnRun ==
  /\ \A s \in Allocated : live[s].at \in Heads(pool) /\ pool.tag[live[s].at].using
  /\ \A s, t \in Allocated : s # t => live[s].at # live[t].at
  /\ phase = "open" =>
       \A c \in Heads(pool) : pool.tag[c].using => \E s \in Allocated : live[s].at = c

\* The chunks of the run c.
CellsOf(c) == {<<c[1], i>> : i \in c[2] .. (c[2] + pool.tag[c].count - 1)}

\* using_count_arr is the number of chunks of a block that are in use, and never
\* wraps: mp_alloc passes over a block by this counter alone.
UseCountsAddUp ==
  \A b \in Blocks(pool) :
     LET used == {c \in Heads(pool) : c[1] = b /\ pool.tag[c].using}
     IN  pool.using[b] = Cardinality(UNION {CellsOf(c) : c \in used})

\* luaM_realloc_ relies on it (lmem.c, "realloc cannot fail when shrinking a
\* block"): shrinking succeeds even when no memory is left.
ShrinkingSucceeds ==
  pool.torn \/ \A s \in Allocated, bytes \in Sizes :
     bytes <= live[s].size =>
       MpRealloc(pool, live[s].at, NeedChunkCount(bytes), "none").at # Null

\* mempool.h: mp->max is the largest number of chunks of the pool.
TotalWithinMax ==
  MapThenSumSet(LAMBDA b : pool.size[b], Blocks(pool)) <= MaxChunks
-----------------------------------------------------------------------------
(* The pool implements the allocator the Lua VM is written for.            *)

\* What an allocation is to the Lua VM: the chunks of its run.
HeldBy(s) == IF live[s] = Null THEN Null
             ELSE [cells |-> CellsOf(live[s].at), bytes |-> live[s].size]
RoomIn(cells) == Cardinality(cells) * ChunkBytes - FlagBytes

Lua == INSTANCE Allocator WITH Nothing <- Null, Room <- RoomIn,
                               held <- [s \in Slot |-> HeldBy(s)]

\* m_alloc on the pool does what luaM_realloc_ expects of frealloc: every
\* allocation, moved, grown or shrunk, ends up in cells that no other
\* allocation holds, has room for what was asked, and no call changes the
\* cells of another allocation.
ImplementsAllocator == Lua!Spec
=============================================================================
