--------------------------- MODULE MemPool_proofs ----------------------------
(***************************************************************************)
(* Proofs about the memory pool, for every number of slots, blocks and     *)
(* chunks, and every size that 16 bits of chunks can count (SizesFit).     *)
(*                                                                         *)
(* 1. Row: the tags of the blocks tile them, and each knows the length of  *)
(*    the run before it.  Whatever mp_alloc, mp_free and mp_realloc do to  *)
(*    the tags is a sequence of splits and joins, and each keeps a row.    *)
(* 2. Good: the row, the fields' types, and the place of the bump pointer. *)
(*    For each function: it keeps the pool Good, and of the runs in use    *)
(*    (Used) it changes the one it was called for and no other.            *)
(* 3. need_chunk_count gives the least number of chunks with the room, for *)
(*    a size that 16 bits of chunks can count, and for no other size one   *)
(*    with the room (TooLargeIsCut).                                       *)
(* 4. IInv: the pool is Good, and the allocations Lua holds are runs in    *)
(*    use, each with the room asked for, no two the same, and nothing else *)
(*    is in use while the VM is open.  It is inductive; the properties the *)
(*    runs check follow from it.                                           *)
(* 5. Under the mapping of an allocation to the chunks of its run, every   *)
(*    step is a step of Allocator or a stutter.                            *)
(***************************************************************************)
EXTENDS MemPool, FiniteSetTheorems, FunctionTheorems, WellFoundedInduction, TLAPS

Place == (Nat \ {0}) \X Nat
TagRecord == [count : Nat \ {0}, pre : Nat, using : BOOLEAN]

\* The tags of blocks of these sizes tile them, and know their neighbours.
Row(size, tag) ==
  /\ \A c \in DOMAIN tag :
       /\ c \in Place /\ c[1] \in DOMAIN size /\ tag[c] \in TagRecord
       /\ c[2] + tag[c].count <= size[c[1]]
  /\ \A b \in DOMAIN size : size[b] \in Nat
  /\ \A b \in DOMAIN size : size[b] > 0 => <<b, 0>> \in DOMAIN tag /\ tag[<<b, 0>>].pre = 0
  /\ \A c \in DOMAIN tag :
       \/ c[2] + tag[c].count = size[c[1]]
       \/ After(tag, c) \in DOMAIN tag /\ tag[After(tag, c)].pre = tag[c].count
  /\ \A c, d \in DOMAIN tag : c[1] = d[1] /\ c[2] < d[2] => c[2] + tag[c].count <= d[2]
  /\ \A c \in DOMAIN tag :
       \/ c[2] = 0
       \/ /\ tag[c].pre > 0 /\ <<c[1], c[2] - tag[c].pre>> \in DOMAIN tag
          /\ tag[<<c[1], c[2] - tag[c].pre>>].count = tag[c].pre

Behind(c, n) == <<c[1], c[2] + n>>

\* t with the run c cut behind n chunks.
IsSplit(t, u, c, n) ==
  /\ DOMAIN u = DOMAIN t \cup {Behind(c, n)}
  /\ \A x \in DOMAIN u : u[x] \in TagRecord
  /\ u[c].count = n /\ u[Behind(c, n)].count = t[c].count - n /\ u[Behind(c, n)].pre = n
  /\ \A x \in DOMAIN t \ {c} : u[x].count = t[x].count
  /\ \A x \in DOMAIN t : u[x].pre = IF x = After(t, c) THEN t[c].count - n ELSE t[x].pre

\* Cutting a run in two leaves a row.
LEMMA SplitRow ==
  ASSUME NEW size, NEW t, NEW u, Row(size, t), NEW c \in DOMAIN t, NEW n \in Nat,
         0 < n, n < t[c].count, IsSplit(t, u, c, n)
  PROVE  Row(size, u)
<1> DEFINE rest == Behind(c, n)
           next == After(t, c)
<1>1. /\ c \in Place /\ t[c].count \in Nat /\ c[1] \in DOMAIN size /\ c = <<c[1], c[2]>>
      /\ c[1] \in Nat /\ c[2] \in Nat
      /\ size[c[1]] \in Nat /\ c[2] + t[c].count <= size[c[1]]
  BY DEF Row, Place, TagRecord
<1>2. /\ rest \in Place /\ rest[1] = c[1] /\ rest[2] = c[2] + n /\ rest # c
      /\ next \in Place /\ next[1] = c[1] /\ next[2] = c[2] + t[c].count /\ next # c /\ next # rest
  BY <1>1 DEF Behind, After, Place
<1>3. rest \notin DOMAIN t
  BY <1>1, <1>2 DEF Row
<1>4. \A x \in DOMAIN t : x = <<x[1], x[2]>> /\ x[1] \in Nat /\ x[2] \in Nat
                          /\ t[x].count \in Nat \ {0} /\ t[x].pre \in Nat
  BY DEF Row, Place, TagRecord
<1>5. \A x \in DOMAIN u : x = <<x[1], x[2]>> /\ x[1] \in Nat /\ x[2] \in Nat
                          /\ u[x].count \in Nat \ {0} /\ u[x].pre \in Nat
  BY <1>1, <1>2, <1>4 DEF IsSplit, TagRecord, Place
<1> HIDE DEF rest, next
<1>6. \A x \in DOMAIN u : /\ x \in Place /\ x[1] \in DOMAIN size /\ u[x] \in TagRecord
                          /\ x[2] + u[x].count <= size[x[1]]
  BY <1>1, <1>2, <1>3, <1>4 DEF IsSplit, Row, rest
<1>7. \A b \in DOMAIN size : size[b] > 0 => <<b, 0>> \in DOMAIN u /\ u[<<b, 0>>].pre = 0
  <2> SUFFICES ASSUME NEW b \in DOMAIN size, size[b] > 0
               PROVE  <<b, 0>> \in DOMAIN u /\ u[<<b, 0>>].pre = 0
    OBVIOUS
  <2>1. <<b, 0>> \in DOMAIN t /\ t[<<b, 0>>].pre = 0
    BY DEF Row
  <2>2. <<b, 0>> # next
    BY <1>1, <1>2
  <2> QED BY <2>1, <2>2 DEF IsSplit, next
<1>8. ASSUME NEW x \in DOMAIN u
      PROVE  \/ x[2] + u[x].count = size[x[1]]
             \/ After(u, x) \in DOMAIN u /\ u[After(u, x)].pre = u[x].count
  <2>1. CASE x = c
    BY <2>1, <1>2 DEF IsSplit, After, Behind, rest
  <2>2. CASE x = rest
    <3>1. u[x].count = t[c].count - n
      BY <2>2 DEF IsSplit, rest
    <3>2. After(u, x) = next
      BY <3>1, <2>2, <1>1, <1>2 DEF After, next
    <3>3. next \in DOMAIN t \/ c[2] + t[c].count = size[c[1]]
      BY DEF Row, next
    <3>4. next \in DOMAIN t => next \in DOMAIN u /\ u[next].pre = t[c].count - n
      BY DEF IsSplit, next
    <3> QED BY <3>1, <3>2, <3>3, <3>4, <2>2, <1>1, <1>2
  <2>3. CASE x \in DOMAIN t \ {c}
    <3>1. u[x].count = t[x].count
      BY <2>3 DEF IsSplit
    <3>2. After(u, x) = After(t, x)
      BY <3>1 DEF After
    <3>3. \/ x[2] + t[x].count = size[x[1]]
          \/ After(t, x) \in DOMAIN t /\ t[After(t, x)].pre = t[x].count
      BY <2>3 DEF Row
    <3>4. After(t, x) # next
      <4>1. CASE x[1] # c[1]
        BY <4>1, <1>2 DEF After
      <4>2. CASE x[1] = c[1] /\ x[2] < c[2]
        BY <4>2, <1>1, <1>2, <1>4, <2>3 DEF After, Row
      <4>3. CASE x[1] = c[1] /\ c[2] < x[2]
        BY <4>3, <1>1, <1>2, <1>4, <2>3 DEF After, Row
      <4> QED BY <4>1, <4>2, <4>3, <2>3, <1>1, <1>4
    <3>5. After(t, x) \in DOMAIN t => After(t, x) \in DOMAIN u /\ u[After(t, x)].pre = t[After(t, x)].pre
      BY <3>4 DEF IsSplit, next
    <3> QED BY <3>1, <3>2, <3>3, <3>5
  <2> QED BY <2>1, <2>2, <2>3 DEF IsSplit, rest
<1>9. ASSUME NEW x \in DOMAIN u, NEW y \in DOMAIN u, x[1] = y[1], x[2] < y[2]
      PROVE  x[2] + u[x].count <= y[2]
  <2>1. CASE x \in DOMAIN t /\ y \in DOMAIN t
    <3>1. u[x].count <= t[x].count
      BY <2>1, <1>1, <1>4 DEF IsSplit
    <3>2. x[2] + t[x].count <= y[2]
      BY <2>1, <1>9 DEF Row
    <3> QED BY <3>1, <3>2, <2>1, <1>4, <1>5
  <2>2. CASE x = rest /\ y \in DOMAIN t
    <3>1. x[2] + u[x].count = c[2] + t[c].count
      BY <2>2, <1>1, <1>2 DEF IsSplit, rest
    <3>2. c[2] + t[c].count <= y[2]
      BY <2>2, <1>1, <1>2, <1>9, <1>4 DEF Row
    <3> QED BY <3>1, <3>2
  <2>3. CASE x \in DOMAIN t /\ y = rest
    <3>1. CASE x = c
      BY <3>1, <2>3, <1>1, <1>2 DEF IsSplit
    <3>2. CASE x # c
      <4>1. u[x].count = t[x].count
        BY <3>2, <2>3 DEF IsSplit
      <4>2. x[2] < c[2]
        BY <3>2, <2>3, <1>1, <1>2, <1>4, <1>9 DEF Row
      <4>3. x[2] + t[x].count <= c[2]
        BY <4>2, <2>3, <1>9, <1>2 DEF Row
      <4> QED BY <4>1, <4>3, <2>3, <1>1, <1>2, <1>4
    <3> QED BY <3>1, <3>2
  <2> QED BY <2>1, <2>2, <2>3, <1>1, <1>2, <1>9 DEF IsSplit, rest
<1>10. ASSUME NEW x \in DOMAIN u
       PROVE  \/ x[2] = 0
              \/ /\ u[x].pre > 0 /\ <<x[1], x[2] - u[x].pre>> \in DOMAIN u
                 /\ u[<<x[1], x[2] - u[x].pre>>].count = u[x].pre
  <2>1. CASE x = rest
    BY <2>1, <1>1, <1>2 DEF IsSplit, rest
  <2>2. CASE x = next /\ x \in DOMAIN t
    <3>1. u[x].pre = t[c].count - n
      BY <2>2 DEF IsSplit, next
    <3>2. <<x[1], x[2] - u[x].pre>> = rest
      BY <3>1, <2>2, <1>1, <1>2 DEF Place
    <3> QED BY <3>1, <3>2, <1>1 DEF IsSplit, rest
  <2>3. CASE x # next /\ x \in DOMAIN t
    <3>1. u[x].pre = t[x].pre
      BY <2>3 DEF IsSplit, next
    <3> DEFINE y == <<x[1], x[2] - t[x].pre>>
    <3>2. x[2] = 0 \/ (t[x].pre > 0 /\ y \in DOMAIN t /\ t[y].count = t[x].pre)
      BY <2>3 DEF Row
    <3>3. ASSUME x[2] # 0, y = c PROVE FALSE
      <4>1. x[2] - t[x].pre = c[2] /\ x[1] = c[1] /\ t[c].count = t[x].pre
        BY <3>2, <3>3, <1>1
      <4>2. x = next
        BY <4>1, <2>3, <1>1, <1>2, <1>4 DEF Place
      <4> QED BY <4>2, <2>3
    <3> QED BY <3>1, <3>2, <3>3, <2>3 DEF IsSplit
  <2> QED BY <2>1, <2>2, <2>3 DEF IsSplit, rest
<1> QED
  <2>1. \A b \in DOMAIN size : size[b] \in Nat
    BY DEF Row
  <2> QED BY <2>1, <1>6, <1>7, <1>8, <1>9, <1>10 DEF Row

\* t with the run c and the run behind it made one.
IsMerge(t, u, c) ==
  LET m == After(t, c)
  IN  /\ DOMAIN u = DOMAIN t \ {m}
      /\ \A x \in DOMAIN u : u[x] \in TagRecord
      /\ u[c].count = t[c].count + t[m].count
      /\ \A x \in DOMAIN u \ {c} : u[x].count = t[x].count
      /\ \A x \in DOMAIN u : u[x].pre = IF x = After(t, m) THEN u[c].count ELSE t[x].pre

\* Joining a run with the one behind it leaves a row.
LEMMA MergeRow ==
  ASSUME NEW size, NEW t, NEW u, Row(size, t), NEW c \in DOMAIN t,
         After(t, c) \in DOMAIN t, IsMerge(t, u, c)
  PROVE  Row(size, u)
<1> DEFINE m == After(t, c)
           next == After(t, m)
<1>0. \A x \in DOMAIN t : x = <<x[1], x[2]>> /\ x[1] \in Nat /\ x[2] \in Nat
                          /\ t[x].count \in Nat \ {0} /\ t[x].pre \in Nat
                          /\ After(t, x) \in Place
                          /\ After(t, x) = <<x[1], x[2] + t[x].count>>
  BY DEF Row, Place, TagRecord, After
<1>1. /\ m \in DOMAIN t /\ m # c /\ m[1] = c[1] /\ m[2] = c[2] + t[c].count
      /\ next # m /\ next # c /\ next[1] = c[1] /\ next[2] = c[2] + t[c].count + t[m].count
      /\ next = <<c[1], c[2] + t[c].count + t[m].count>>
  BY <1>0
<1>2. /\ c \in DOMAIN u /\ u[c].count = t[c].count + t[m].count
      /\ DOMAIN u = DOMAIN t \ {m}
      /\ \A x \in DOMAIN u \ {c} : u[x].count = t[x].count
      /\ \A x \in DOMAIN u : u[x].pre = IF x = next THEN u[c].count ELSE t[x].pre
      /\ \A x \in DOMAIN u : u[x] \in TagRecord
  BY <1>1 DEF IsMerge
<1> HIDE DEF m, next
<1>3. m[2] + t[m].count <= size[m[1]]
  BY <1>1 DEF Row
<1>4. \A x \in DOMAIN u : /\ x \in Place /\ x[1] \in DOMAIN size /\ u[x] \in TagRecord
                          /\ x[2] + u[x].count <= size[x[1]]
  <2> SUFFICES ASSUME NEW x \in DOMAIN u
               PROVE  /\ x \in Place /\ x[1] \in DOMAIN size /\ u[x] \in TagRecord
                      /\ x[2] + u[x].count <= size[x[1]]
    OBVIOUS
  <2>1. x \in Place /\ x[1] \in DOMAIN size /\ u[x] \in TagRecord /\ x[2] + t[x].count <= size[x[1]]
    BY <1>2 DEF Row
  <2>2. CASE x = c
    BY <2>1, <2>2, <1>0, <1>1, <1>2, <1>3
  <2>3. CASE x # c
    BY <2>1, <2>3, <1>2
  <2> QED BY <2>1, <2>2, <2>3
<1>5. \A b \in DOMAIN size : size[b] > 0 => <<b, 0>> \in DOMAIN u /\ u[<<b, 0>>].pre = 0
  <2> SUFFICES ASSUME NEW b \in DOMAIN size, size[b] > 0
               PROVE  <<b, 0>> \in DOMAIN u /\ u[<<b, 0>>].pre = 0
    OBVIOUS
  <2>1. <<b, 0>> \in DOMAIN t /\ t[<<b, 0>>].pre = 0
    BY DEF Row
  <2>2. <<b, 0>> # next /\ <<b, 0>> # m
    BY <1>0, <1>1
  <2> QED BY <2>1, <2>2, <1>2
<1>6. ASSUME NEW x \in DOMAIN u
      PROVE  \/ x[2] + u[x].count = size[x[1]]
             \/ After(u, x) \in DOMAIN u /\ u[After(u, x)].pre = u[x].count
  <2>1. CASE x = c
    <3>1. After(u, x) = next
      BY <2>1, <1>0, <1>1, <1>2 DEF After
    <3>2. next \in DOMAIN t \/ next[2] = size[c[1]]
      BY <1>0, <1>1 DEF Row, next
    <3> QED BY <3>1, <3>2, <2>1, <1>0, <1>1, <1>2
  <2>2. CASE x # c
    <3>1. u[x].count = t[x].count /\ x \in DOMAIN t /\ x # m
      BY <2>2, <1>2
    <3>2. After(u, x) = After(t, x)
      BY <3>1 DEF After
    <3>3. \/ x[2] + t[x].count = size[x[1]]
          \/ After(t, x) \in DOMAIN t /\ t[After(t, x)].pre = t[x].count
      BY <3>1 DEF Row
    <3>4. After(t, x) # m
      <4>1. CASE x[1] # c[1]
        BY <4>1, <3>1, <1>0, <1>1
      <4>2. CASE x[1] = c[1] /\ x[2] < c[2]
        <5>1. x[2] + t[x].count <= c[2]
          BY <4>2, <3>1 DEF Row
        <5> QED BY <5>1, <3>1, <1>0, <1>1
      <4>3. CASE x[1] = c[1] /\ c[2] < x[2]
        <5>1. c[2] + t[c].count <= x[2]
          BY <4>3, <3>1 DEF Row
        <5> QED BY <5>1, <3>1, <1>0, <1>1
      <4> QED BY <4>1, <4>2, <4>3, <3>1, <2>2, <1>0
    <3>5. After(t, x) # next
      <4>1. CASE x[1] # c[1]
        BY <4>1, <3>1, <1>0, <1>1
      <4>2. CASE x[1] = c[1] /\ x[2] < m[2]
        <5>1. x[2] + t[x].count <= m[2]
          BY <4>2, <3>1, <1>1 DEF Row
        <5> QED BY <5>1, <3>1, <1>0, <1>1
      <4>3. CASE x[1] = c[1] /\ m[2] < x[2]
        <5>1. m[2] + t[m].count <= x[2]
          BY <4>3, <3>1, <1>1 DEF Row
        <5> QED BY <5>1, <3>1, <1>0, <1>1
      <4> QED BY <4>1, <4>2, <4>3, <3>1, <1>0, <1>1
    <3> QED BY <3>1, <3>2, <3>3, <3>4, <3>5, <1>2
  <2> QED BY <2>1, <2>2
<1>7. ASSUME NEW x \in DOMAIN u, NEW y \in DOMAIN u, x[1] = y[1], x[2] < y[2]
      PROVE  x[2] + u[x].count <= y[2]
  <2>1. x[2] + t[x].count <= y[2]
    BY <1>2, <1>7 DEF Row
  <2>2. CASE x = c
    <3>1. m[2] < y[2]
      <4>1. m[2] <= y[2] /\ m[1] = y[1]
        BY <2>1, <2>2, <1>1, <1>7
      <4>2. y \in DOMAIN t /\ y # m
        BY <1>2
      <4>3. m[2] # y[2]
        BY <4>1, <4>2, <1>0, <1>1
      <4> QED BY <4>1, <4>2, <4>3, <1>0, <1>1
    <3>2. m[2] + t[m].count <= y[2]
      BY <3>1, <2>2, <1>1, <1>2, <1>7 DEF Row
    <3> QED BY <3>2, <2>2, <1>0, <1>1, <1>2
  <2>3. CASE x # c
    BY <2>1, <2>3, <1>2
  <2> QED BY <2>2, <2>3
<1>8. ASSUME NEW x \in DOMAIN u
      PROVE  \/ x[2] = 0
             \/ /\ u[x].pre > 0 /\ <<x[1], x[2] - u[x].pre>> \in DOMAIN u
                /\ u[<<x[1], x[2] - u[x].pre>>].count = u[x].pre
  <2>1. CASE x = next
    <3>1. u[x].pre = t[c].count + t[m].count
      BY <2>1, <1>2
    <3>2. <<x[1], x[2] - u[x].pre>> = c
      BY <3>1, <2>1, <1>0, <1>1
    <3>3. u[x].pre > 0 /\ c \in DOMAIN u /\ u[c].count = u[x].pre
      BY <3>1, <1>0, <1>1, <1>2
    <3> QED BY <3>2, <3>3
  <2>2. CASE x # next
    <3>1. u[x].pre = t[x].pre /\ x \in DOMAIN t /\ x # m
      BY <2>2, <1>2
    <3> DEFINE y == <<x[1], x[2] - t[x].pre>>
    <3>2. x[2] = 0 \/ (t[x].pre > 0 /\ y \in DOMAIN t /\ t[y].count = t[x].pre)
      BY <3>1 DEF Row
    <3>3. ASSUME x[2] # 0 PROVE After(t, y) = x
      BY <3>1, <3>2, <3>3, <1>0
    <3>4. ASSUME x[2] # 0 PROVE y # c /\ y # m
      BY <3>1, <3>2, <3>3, <3>4, <2>2 DEF m, next
    <3> QED BY <3>1, <3>2, <3>4, <1>2
  <2> QED BY <2>1, <2>2
<1> QED
  <2>1. \A b \in DOMAIN size : size[b] \in Nat
    BY DEF Row
  <2> QED BY <2>1, <1>4, <1>5, <1>6, <1>7, <1>8 DEF Row

-----------------------------------------------------------------------------
(* The fields of a pool.                                                   *)

IsPool(p) ==
  /\ p = [size |-> p.size, using |-> p.using, tag |-> p.tag,
          current |-> p.current, torn |-> p.torn]
  /\ p.size \in Seq(0 .. InitChunks) /\ Len(p.size) >= 1
  /\ p.using \in Seq(0 .. (CountMod - 1)) /\ Len(p.using) = Len(p.size)
  /\ p.tag \in [DOMAIN p.tag -> TagRecord]
  /\ p.current \in Place
  /\ p.torn \in BOOLEAN

\* All but the tags and the bump pointer.
SameBlocks(p, q) == q.size = p.size /\ q.torn = p.torn

\* Sixteen bits, whatever the number; a number that fits is itself.
LEMMA WrapRange == \A n \in Int : Wrap(n) \in 0 .. (CountMod - 1)
BY MemPoolAssumption DEF Wrap

\* A number that fits in 16 bits is not changed by them.
LEMMA WrapIdentity == \A n \in 0 .. (CountMod - 1) : Wrap(n) = n
BY MemPoolAssumption DEF Wrap

\* Changing the tags changes nothing else of the pool.
LEMMA TagFields ==
  ASSUME NEW p, IsPool(p), NEW t, t \in [DOMAIN t -> TagRecord]
  PROVE  LET q == [p EXCEPT !.tag = t]
         IN  /\ IsPool(q) /\ q.tag = t /\ SameBlocks(p, q)
             /\ q.using = p.using /\ q.current = p.current
BY DEF IsPool, SameBlocks

\* Moving the bump pointer changes nothing else of the pool.
LEMMA CurrentFields ==
  ASSUME NEW p, IsPool(p), NEW c \in Place
  PROVE  LET q == [p EXCEPT !.current = c]
         IN  /\ IsPool(q) /\ q.current = c /\ SameBlocks(p, q)
             /\ q.using = p.using /\ q.tag = p.tag
BY DEF IsPool, SameBlocks

\* Counting chunks as used changes nothing else of the pool.
LEMMA UseFields ==
  ASSUME NEW p, IsPool(p), NEW b \in 1 .. Len(p.size), NEW n \in Int
  PROVE  LET q == Use(p, b, n)
         IN  IsPool(q) /\ SameBlocks(p, q) /\ q.tag = p.tag /\ q.current = p.current
<1> DEFINE u == [p.using EXCEPT ![b] = Wrap(@ + n)]
<1>1. p.using[b] \in Int /\ b \in 1 .. Len(p.using)
  BY MemPoolAssumption DEF IsPool
<1>2. Wrap(p.using[b] + n) \in 0 .. (CountMod - 1)
  <2>1. p.using[b] + n \in Int
    BY <1>1
  <2> QED BY <2>1, WrapRange
<1>3. u \in Seq(0 .. (CountMod - 1)) /\ Len(u) = Len(p.using)
  BY <1>1, <1>2 DEF IsPool
<1>4. Use(p, b, n) = [p EXCEPT !.using = u]
  BY DEF Use, IsPool
<1> HIDE DEF u
<1> QED BY <1>3, <1>4 DEF IsPool, SameBlocks

\* Only the mark of c is another.
Marks(p, q, c, on) ==
  /\ IsPool(q) /\ SameBlocks(p, q) /\ q.using = p.using /\ q.current = p.current
  /\ DOMAIN q.tag = DOMAIN p.tag
  /\ \A x \in DOMAIN p.tag :
       /\ q.tag[x].count = p.tag[x].count /\ q.tag[x].pre = p.tag[x].pre
       /\ q.tag[x].using = IF x = c THEN on ELSE p.tag[x].using

\* Marking a run changes the mark of that run and nothing else.
LEMMA UsingFields ==
  ASSUME NEW p, IsPool(p), NEW c \in DOMAIN p.tag, NEW on \in BOOLEAN
  PROVE  Marks(p, [p EXCEPT !.tag[c].using = on], c, on)
<1> DEFINE t == [p.tag EXCEPT ![c] = [p.tag[c] EXCEPT !.using = on]]
<1>1. t \in [DOMAIN p.tag -> TagRecord] /\ DOMAIN t = DOMAIN p.tag
  BY DEF IsPool, TagRecord
<1>2. [p EXCEPT !.tag[c].using = on] = [p EXCEPT !.tag = t]
  OBVIOUS
<1>3. \A x \in DOMAIN p.tag :
        /\ t[x].count = p.tag[x].count /\ t[x].pre = p.tag[x].pre
        /\ t[x].using = IF x = c THEN on ELSE p.tag[x].using
  BY DEF IsPool, TagRecord
<1> HIDE DEF t
<1> QED BY <1>1, <1>2, <1>3, TagFields DEF Marks

\* set_pre_count changes one length, if there is a run behind.
LEMMA SetPreFields ==
  ASSUME NEW p, IsPool(p), NEW n, NEW c \in DOMAIN p.tag,
         InBlock(p, n) => n \in DOMAIN p.tag
  PROVE  LET q == SetPre(p, n, c)
         IN  /\ IsPool(q) /\ SameBlocks(p, q) /\ q.using = p.using /\ q.current = p.current
             /\ DOMAIN q.tag = DOMAIN p.tag
             /\ \A x \in DOMAIN p.tag :
                  /\ q.tag[x].count = p.tag[x].count /\ q.tag[x].using = p.tag[x].using
                  /\ q.tag[x].pre = IF InBlock(p, n) /\ x = n THEN p.tag[c].count ELSE p.tag[x].pre
<1>1. CASE ~InBlock(p, n)
  BY <1>1 DEF SetPre, SameBlocks
<1>2. CASE InBlock(p, n)
  <2> DEFINE t == [p.tag EXCEPT ![n] = [p.tag[n] EXCEPT !.pre = p.tag[c].count]]
  <2>1. p.tag[c].count \in Nat /\ p.tag[n] \in TagRecord
    BY <1>2 DEF IsPool, TagRecord
  <2>2. t \in [DOMAIN p.tag -> TagRecord] /\ DOMAIN t = DOMAIN p.tag
    BY <1>2, <2>1 DEF IsPool, TagRecord
  <2>3. SetPre(p, n, c) = [p EXCEPT !.tag = t]
    BY <1>2 DEF SetPre
  <2>4. \A x \in DOMAIN p.tag :
          /\ t[x].count = p.tag[x].count /\ t[x].using = p.tag[x].using
          /\ t[x].pre = IF x = n THEN p.tag[c].count ELSE p.tag[x].pre
    BY <1>2, <2>1 DEF IsPool, TagRecord
  <2> HIDE DEF t
  <2> QED BY <1>2, <2>2, <2>3, <2>4, TagFields
<1> QED BY <1>1, <1>2

-----------------------------------------------------------------------------
(* combine_next.                                                           *)

\* Two tag functions that differ at most in what n knows of its neighbour.
Agree(t, u, n) ==
  /\ DOMAIN u = DOMAIN t
  /\ \A x \in DOMAIN t :
       /\ u[x].count = t[x].count /\ u[x].using = t[x].using
       /\ x # n => u[x].pre = t[x].pre

\* A tag whose count grows keeps its other fields.
LEMMA LongerTag ==
  ASSUME NEW a \in TagRecord, NEW k \in Nat
  PROVE  LET v == [a EXCEPT !.count = @ + k]
         IN  v \in TagRecord /\ v.count = a.count + k /\ v.using = a.using /\ v.pre = a.pre
BY DEF TagRecord

\* Its result is t with c and n made one, where t is what the tags stand for.
LEMMA CombineFacts ==
  ASSUME NEW p, IsPool(p), NEW t, Row(p.size, t), NEW c \in DOMAIN t,
         NEW n \in DOMAIN t, n = After(t, c), Agree(t, p.tag, n),
         n = p.current => n[2] + t[n].count = p.size[n[1]]
  PROVE  LET q == CombineNext(p, c, n)
         IN  /\ IsPool(q) /\ SameBlocks(p, q) /\ q.using = p.using
             /\ q.current = IF n = p.current THEN c ELSE p.current
             /\ IsMerge(t, q.tag, c)
             /\ \A x \in DOMAIN q.tag : q.tag[x].using = t[x].using
<1> DEFINE u == [x \in Heads(p) \ {n} |->
                   IF x = c THEN [p.tag[c] EXCEPT !.count = @ + p.tag[n].count] ELSE p.tag[x]]
           r == [p EXCEPT !.tag = u]
           next == After(t, n)
<1> HIDE DEF u, r
<1>1. /\ DOMAIN p.tag = DOMAIN t /\ n # c /\ c \in Place
      /\ t[c].count \in Nat \ {0} /\ t[n].count \in Nat \ {0}
      /\ c[1] \in Nat /\ c[2] \in Nat
      /\ n[1] = c[1] /\ n[2] = c[2] + t[c].count
      /\ next = <<c[1], c[2] + t[c].count + t[n].count>>
  BY DEF Agree, Row, TagRecord, Place, After, Heads
<1>0. \A x \in DOMAIN p.tag :
        /\ p.tag[x] \in TagRecord /\ p.tag[x].count \in Nat \ {0}
        /\ p.tag[x].pre \in Nat /\ p.tag[x].using \in BOOLEAN
        /\ p.tag[x].count = t[x].count /\ p.tag[x].using = t[x].using
        /\ x # n => p.tag[x].pre = t[x].pre
  <2>1. \A x \in DOMAIN p.tag : p.tag[x] \in TagRecord
    BY DEF IsPool
  <2> QED BY <2>1 DEF TagRecord, Agree
<1> DEFINE v == [p.tag[c] EXCEPT !.count = @ + p.tag[n].count]
<1>d. c \in DOMAIN p.tag /\ n \in DOMAIN p.tag /\ n # c
  BY <1>1
<1>e. p.tag[c] \in TagRecord /\ p.tag[n].count \in Nat
  BY ONLY <1>0, <1>d
<1>a. /\ v \in TagRecord /\ v.count = t[c].count + t[n].count
      /\ v.using = t[c].using /\ v.pre = t[c].pre
  <2>1. /\ v \in TagRecord /\ v.count = p.tag[c].count + p.tag[n].count
        /\ v.using = p.tag[c].using /\ v.pre = p.tag[c].pre
    BY ONLY <1>e, LongerTag
  <2> HIDE DEF v
  <2> QED BY ONLY <1>0, <1>d, <2>1
<1>b. u = [x \in DOMAIN t \ {n} |-> IF x = c THEN v ELSE p.tag[x]]
  BY <1>1 DEF Heads, u
<1> HIDE DEF v
<1>2. u \in [DOMAIN u -> TagRecord] /\ DOMAIN u = DOMAIN t \ {n} /\ c \in DOMAIN u
  <2>1. \A x \in DOMAIN t \ {n} : (IF x = c THEN v ELSE p.tag[x]) \in TagRecord
    <3>1. \A x \in DOMAIN t \ {n} : p.tag[x] \in TagRecord
      BY <1>0 DEF Agree
    <3> QED BY ONLY <3>1, <1>a
  <2>2. c \in DOMAIN t \ {n}
    BY ONLY <1>d, c \in DOMAIN t
  <2> QED BY ONLY <1>b, <2>1, <2>2
<1>3. \A x \in DOMAIN u : /\ u[x].count = IF x = c THEN t[c].count + t[n].count ELSE t[x].count
                          /\ u[x].using = t[x].using /\ u[x].pre = t[x].pre
  <2> SUFFICES ASSUME NEW x \in DOMAIN u
               PROVE  /\ u[x].count = IF x = c THEN t[c].count + t[n].count ELSE t[x].count
                      /\ u[x].using = t[x].using /\ u[x].pre = t[x].pre
    OBVIOUS
  <2>1. x \in DOMAIN p.tag /\ x # n
    BY <1>2 DEF Agree
  <2>2. u[x] = IF x = c THEN v ELSE p.tag[x]
    BY ONLY <1>b, x \in DOMAIN u
  <2> QED BY ONLY <1>0, <1>a, <2>1, <2>2
<1>4. IsPool(r) /\ r.tag = u /\ SameBlocks(p, r) /\ r.using = p.using /\ r.current = p.current
  BY <1>2, TagFields DEF r
<1>5. After(u, c) = next
  <2>1. u[c].count = t[c].count + t[n].count
    BY <1>1, <1>2, <1>3
  <2> HIDE DEF next
  <2> QED BY <1>1, <2>1 DEF After
<1>6. next \in DOMAIN t \/ next[2] = p.size[next[1]]
  <2>1. n[2] + t[n].count = p.size[n[1]] \/ After(t, n) \in DOMAIN t
    BY DEF Row
  <2> QED BY <2>1, <1>1
<1>7. next # n /\ next # c
  BY <1>1
<1>8. next \in DOMAIN t => next[2] < p.size[next[1]]
  BY <1>1 DEF Row, TagRecord, Place
<1>9. CASE n = p.current
  <2>1. CombineNext(p, c, n) = [r EXCEPT !.current = c]
    BY <1>9 DEF CombineNext, u, r
  <2>2. next \notin DOMAIN t
    BY <1>9, <1>1, <1>8
  <2> HIDE DEF u, r, next
  <2>3. LET q == [r EXCEPT !.current = c]
        IN  IsPool(q) /\ q.current = c /\ SameBlocks(r, q) /\ q.using = r.using /\ q.tag = r.tag
    BY <1>1, <1>4, CurrentFields
  <2>4. IsMerge(t, u, c)
    BY <1>1, <1>2, <1>3, <2>2 DEF IsMerge, next
  <2> QED BY <1>3, <1>4, <1>9, <2>1, <2>3, <2>4 DEF SameBlocks
<1>10. CASE n # p.current
  <2>1. CombineNext(p, c, n) = SetPre(r, next, c)
    BY <1>5, <1>10 DEF CombineNext, u, r
  <2> DEFINE q == SetPre(r, next, c)
  <2>2. InBlock(r, next) <=> next \in DOMAIN t
    <3>1. r.size = p.size
      BY <1>4 DEF SameBlocks
    <3>2. next \in DOMAIN t => InBlock(r, next)
      BY <1>8, <3>1 DEF InBlock
    <3>3. p.size[next[1]] \in Nat
      BY <1>1 DEF Row
    <3> QED BY <1>6, <3>1, <3>2, <3>3 DEF InBlock
  <2>3. InBlock(r, next) => next \in DOMAIN r.tag
    BY <1>2, <1>4, <1>7, <2>2
  <2> HIDE DEF u, r, next
  <2>4. /\ IsPool(q) /\ SameBlocks(r, q) /\ q.using = r.using /\ q.current = r.current
        /\ DOMAIN q.tag = DOMAIN r.tag
        /\ \A x \in DOMAIN r.tag :
             /\ q.tag[x].count = r.tag[x].count /\ q.tag[x].using = r.tag[x].using
             /\ q.tag[x].pre = IF InBlock(r, next) /\ x = next THEN r.tag[c].count ELSE r.tag[x].pre
    BY <1>2, <1>4, <2>3, SetPreFields
  <2> HIDE DEF q
  <2>5. \A x \in DOMAIN q.tag : q.tag[x] \in TagRecord
    BY <2>4 DEF IsPool
  <2>6. IsMerge(t, q.tag, c)
    BY <1>1, <1>2, <1>3, <1>4, <2>2, <2>4, <2>5 DEF IsMerge, next
  <2> QED BY <1>2, <1>3, <1>4, <1>10, <2>1, <2>4, <2>6 DEF SameBlocks, q
<1> QED BY <1>9, <1>10

-----------------------------------------------------------------------------
(* Cutting a run.                                                          *)

\* Tags that say the same tile the same blocks.
LEMMA SameRow ==
  ASSUME NEW size, NEW t, NEW u, Row(size, t), DOMAIN u = DOMAIN t,
         \A x \in DOMAIN t : /\ u[x] \in TagRecord
                             /\ u[x].count = t[x].count /\ u[x].pre = t[x].pre
  PROVE  Row(size, u)
<1>1. \A x \in DOMAIN t : After(u, x) = After(t, x)
  BY DEF After
<1>2. \A c \in DOMAIN u :
        /\ c \in Place /\ c[1] \in DOMAIN size /\ u[c] \in TagRecord
        /\ c[2] + u[c].count <= size[c[1]]
  BY DEF Row
<1>3. /\ \A b \in DOMAIN size : size[b] \in Nat
      /\ \A b \in DOMAIN size : size[b] > 0 => <<b, 0>> \in DOMAIN u /\ u[<<b, 0>>].pre = 0
  BY DEF Row
<1>4. \A c \in DOMAIN u :
        \/ c[2] + u[c].count = size[c[1]]
        \/ After(u, c) \in DOMAIN u /\ u[After(u, c)].pre = u[c].count
  BY <1>1 DEF Row
<1>5. \A c, d \in DOMAIN u : c[1] = d[1] /\ c[2] < d[2] => c[2] + u[c].count <= d[2]
  BY DEF Row
<1>6. \A c \in DOMAIN u :
        \/ c[2] = 0
        \/ /\ u[c].pre > 0 /\ <<c[1], c[2] - u[c].pre>> \in DOMAIN u
           /\ u[<<c[1], c[2] - u[c].pre>>].count = u[c].pre
  BY DEF Row
<1> QED BY <1>2, <1>3, <1>4, <1>5, <1>6 DEF Row

\* The tags of a pool stand for t, but for the length of c and what the run
\* behind c knows of it.
StandsFor(t, u, c) ==
  /\ DOMAIN u = DOMAIN t
  /\ \A x \in DOMAIN t :
       /\ u[x].using = t[x].using
       /\ x # c => u[x].count = t[x].count
       /\ x # After(t, c) => u[x].pre = t[x].pre

\* The rest of c is joined to the run behind it.
Joins(t, c, n) ==
  n < t[c].count /\ After(t, c) \in DOMAIN t /\ ~t[After(t, c)].using

\* A tag that is given a count keeps its other fields.
LEMMA NewCount ==
  ASSUME NEW a \in TagRecord, NEW k \in Nat \ {0}
  PROVE  LET v == [a EXCEPT !.count = k]
         IN  v \in TagRecord /\ v.count = k /\ v.pre = a.pre /\ v.using = a.using
BY DEF TagRecord

\* A tag that is given a pre keeps its other fields.
LEMMA NewPre ==
  ASSUME NEW a \in TagRecord, NEW i \in Nat
  PROVE  LET v == [a EXCEPT !.pre = i]
         IN  v \in TagRecord /\ v.pre = i /\ v.count = a.count /\ v.using = a.using
BY DEF TagRecord

\* Where the run behind c is.
LEMMA Places ==
  ASSUME NEW size, NEW t, Row(size, t), NEW c \in DOMAIN t
  PROVE  /\ c \in Place /\ c = <<c[1], c[2]>> /\ c[1] \in Nat \ {0} /\ c[2] \in Nat
         /\ c[1] \in DOMAIN size /\ size[c[1]] \in Nat
         /\ t[c].count \in Nat \ {0} /\ t[c].pre \in Nat /\ t[c].using \in BOOLEAN
         /\ t[c] \in TagRecord
         /\ c[2] + t[c].count <= size[c[1]]
         /\ After(t, c) = <<c[1], c[2] + t[c].count>> /\ After(t, c) \in Place
         /\ After(t, c)[1] = c[1] /\ After(t, c)[2] = c[2] + t[c].count
         /\ After(t, c) # c
         /\ After(t, c) \in DOMAIN t <=> After(t, c)[2] < size[c[1]]
         /\ After(t, c) \in DOMAIN t => t[After(t, c)].pre = t[c].count
         /\ After(t, c) \notin DOMAIN t => c[2] + t[c].count = size[c[1]]
<1>1. /\ c \in Place /\ c[1] \in DOMAIN size /\ size[c[1]] \in Nat /\ t[c] \in TagRecord
      /\ c[2] + t[c].count <= size[c[1]]
  BY DEF Row
<1>2. /\ c = <<c[1], c[2]>> /\ c[1] \in Nat \ {0} /\ c[2] \in Nat
      /\ t[c].count \in Nat \ {0} /\ t[c].pre \in Nat /\ t[c].using \in BOOLEAN
  BY <1>1 DEF Place, TagRecord
<1>3. /\ After(t, c) = <<c[1], c[2] + t[c].count>> /\ After(t, c) \in Place
      /\ After(t, c)[1] = c[1] /\ After(t, c)[2] = c[2] + t[c].count
      /\ After(t, c) # c
  BY <1>2 DEF After, Place
<1>4. \/ c[2] + t[c].count = size[c[1]]
      \/ After(t, c) \in DOMAIN t /\ t[After(t, c)].pre = t[c].count
  BY DEF Row
<1>5. After(t, c) \in DOMAIN t => After(t, c)[2] < size[c[1]]
  <2> SUFFICES ASSUME After(t, c) \in DOMAIN t PROVE After(t, c)[2] < size[c[1]]
    OBVIOUS
  <2> DEFINE m == After(t, c)
  <2>1. m[2] + t[m].count <= size[m[1]] /\ t[m].count \in Nat \ {0} /\ m[2] \in Nat
    BY DEF Row, TagRecord, Place
  <2> QED BY <1>1, <1>2, <1>3, <2>1
<1>6. After(t, c)[2] < size[c[1]] => c[2] + t[c].count # size[c[1]]
  BY <1>1, <1>2, <1>3
<1> QED BY <1>1, <1>2, <1>3, <1>4, <1>5, <1>6

\* The tags of Cut before the neighbours are told.
CutTag(u, c, n, total) ==
  [x \in DOMAIN u \cup {Behind(c, n)} |->
     IF x = c THEN [u[c] EXCEPT !.count = n]
     ELSE IF x = Behind(c, n) THEN Tag(total - n, n, FALSE)
     ELSE u[x]]

\* v stands for t with c cut: only the run behind c is not told yet.
IsCut(t, v, c, n) ==
  LET rest == Behind(c, n)
  IN  /\ v \in [DOMAIN v -> TagRecord] /\ DOMAIN v = DOMAIN t \cup {rest}
      /\ rest \notin DOMAIN t /\ rest # c /\ rest # After(t, c)
      /\ rest \in Place /\ rest[1] = c[1] /\ rest[2] = c[2] + n
      /\ v[c].count = n
      /\ v[rest].count = t[c].count - n /\ v[rest].pre = n /\ ~v[rest].using
      /\ \A x \in DOMAIN t :
           /\ v[x].using = t[x].using
           /\ x # c => v[x].count = t[x].count
           /\ x # After(t, c) => v[x].pre = t[x].pre

\* The tags Cut writes when a part of the run is left over.
LEMMA CutTags ==
  ASSUME NEW size, NEW t, Row(size, t), NEW u, u \in [DOMAIN u -> TagRecord],
         NEW c \in DOMAIN t, StandsFor(t, u, c), NEW n \in Nat, 0 < n, n < t[c].count
  PROVE  IsCut(t, CutTag(u, c, n, t[c].count), c, n)
<1> DEFINE v == CutTag(u, c, n, t[c].count)
           rest == Behind(c, n)
           old == u[c]
           cut == [old EXCEPT !.count = n]
           new == Tag(t[c].count - n, n, FALSE)
<1>1. /\ c = <<c[1], c[2]>> /\ c[1] \in Nat \ {0} /\ c[2] \in Nat /\ t[c].count \in Nat
      /\ After(t, c) = <<c[1], c[2] + t[c].count>>
  BY Places
<1>2. /\ rest \in Place /\ rest[1] = c[1] /\ rest[2] = c[2] + n
      /\ rest # c /\ rest # After(t, c)
  BY ONLY <1>1, n \in Nat, 0 < n, n < t[c].count DEF Behind, Place
<1>3. rest \notin DOMAIN t
  <2>1. \A x \in DOMAIN t : c[1] = x[1] /\ c[2] < x[2] => c[2] + t[c].count <= x[2]
    BY DEF Row
  <2> HIDE DEF rest
  <2> QED BY ONLY <1>1, <1>2, <2>1, n \in Nat, 0 < n, n < t[c].count
<1>4. \A x \in DOMAIN t :
        /\ u[x] \in TagRecord /\ u[x].using = t[x].using
        /\ x # c => u[x].count = t[x].count
        /\ x # After(t, c) => u[x].pre = t[x].pre
  BY DEF StandsFor
<1>5. old \in TagRecord /\ c # After(t, c)
  BY <1>4, Places
<1>6. /\ cut \in TagRecord /\ cut.count = n /\ cut.pre = old.pre /\ cut.using = old.using
  <2> HIDE DEF old
  <2> QED BY ONLY <1>5, NewCount, n \in Nat, 0 < n
<1>7. new \in TagRecord /\ new.count = t[c].count - n /\ new.pre = n /\ new.using = FALSE
  BY <1>1 DEF Tag, TagRecord
<1>8. v = [x \in DOMAIN t \cup {rest} |-> IF x = c THEN cut ELSE IF x = rest THEN new ELSE u[x]]
  BY DEF CutTag, StandsFor
<1> HIDE DEF v, rest, cut, new
<1>9. \A x \in DOMAIN t \cup {rest} : (IF x = c THEN cut ELSE IF x = rest THEN new ELSE u[x]) \in TagRecord
  BY ONLY <1>4, <1>6, <1>7
<1>10. v \in [DOMAIN v -> TagRecord] /\ DOMAIN v = DOMAIN t \cup {rest}
  BY ONLY <1>8, <1>9
<1>11. v[c] = cut /\ v[rest] = new /\ \A x \in DOMAIN t \ {c} : v[x] = u[x]
  BY ONLY <1>2, <1>3, <1>8, c \in DOMAIN t
<1>12. \A x \in DOMAIN t :
         /\ v[x].using = t[x].using
         /\ x # c => v[x].count = t[x].count
         /\ x # After(t, c) => v[x].pre = t[x].pre
  <2> SUFFICES ASSUME NEW x \in DOMAIN t
               PROVE  /\ v[x].using = t[x].using
                      /\ x # c => v[x].count = t[x].count
                      /\ x # After(t, c) => v[x].pre = t[x].pre
    OBVIOUS
  <2>1. CASE x = c
    BY ONLY <2>1, <1>4, <1>6, <1>11, x \in DOMAIN t DEF old
  <2>2. CASE x # c
    BY ONLY <2>2, <1>4, <1>11, x \in DOMAIN t
  <2> QED BY <2>1, <2>2
<1> QED BY <1>2, <1>3, <1>6, <1>7, <1>10, <1>11, <1>12 DEF v, rest, IsCut

\* The tags of Cut stand for t split at rest, which is a row.
LEMMA CutRow ==
  ASSUME NEW size, NEW t, Row(size, t), NEW u, u \in [DOMAIN u -> TagRecord],
         NEW c \in DOMAIN t, StandsFor(t, u, c), NEW n \in Nat, 0 < n, n < t[c].count
  PROVE  \E w : /\ IsSplit(t, w, c, n) /\ Row(size, w)
                /\ Agree(w, CutTag(u, c, n, t[c].count), After(t, c))
                /\ After(w, Behind(c, n)) = After(t, c)
                /\ \A x \in DOMAIN t : w[x].using = t[x].using
                /\ ~w[Behind(c, n)].using
<1> DEFINE v == CutTag(u, c, n, t[c].count)
           rest == Behind(c, n)
           next == After(t, c)
           w == [x \in DOMAIN v |-> IF x = next THEN [v[x] EXCEPT !.pre = t[c].count - n]
                                    ELSE v[x]]
<1>1. /\ v \in [DOMAIN v -> TagRecord] /\ DOMAIN v = DOMAIN t \cup {rest}
      /\ rest \notin DOMAIN t /\ rest # c /\ rest # next
      /\ rest \in Place /\ rest[1] = c[1] /\ rest[2] = c[2] + n
      /\ v[c].count = n
      /\ v[rest].count = t[c].count - n /\ v[rest].pre = n /\ ~v[rest].using
      /\ \A x \in DOMAIN t :
           /\ v[x].using = t[x].using
           /\ x # c => v[x].count = t[x].count
           /\ x # next => v[x].pre = t[x].pre
  <2>1. IsCut(t, v, c, n)
    BY CutTags
  <2> HIDE DEF v, w
  <2> QED BY <2>1 DEF IsCut
<1>2. /\ c[1] \in Nat \ {0} /\ c[2] \in Nat /\ t[c].count \in Nat /\ next # c
      /\ next = <<c[1], c[2] + t[c].count>>
  BY Places
<1> HIDE DEF v, rest, next
<1>3. DOMAIN w = DOMAIN t \cup {rest}
  BY <1>1
<1>4. ASSUME NEW x \in DOMAIN v
      PROVE  /\ w[x] \in TagRecord /\ w[x].count = v[x].count /\ w[x].using = v[x].using
             /\ w[x].pre = IF x = next THEN t[c].count - n ELSE v[x].pre
  <2>1. v[x] \in TagRecord
    BY ONLY <1>1, x \in DOMAIN v
  <2>2. CASE x = next
    <3> DEFINE old == v[x]
               told == [old EXCEPT !.pre = t[c].count - n]
    <3>1. w[x] = told
      BY <2>2
    <3>2. t[c].count - n \in Nat
      BY <1>2
    <3> HIDE DEF old, w
    <3>3. told \in TagRecord /\ told.count = old.count /\ told.using = old.using
          /\ told.pre = t[c].count - n
      BY <2>1, <3>2, NewPre DEF old
    <3> HIDE DEF told
    <3> QED BY ONLY <3>1, <3>3, <2>2 DEF old
  <2>3. CASE x # next
    BY <2>1, <2>3
  <2> QED BY <2>2, <2>3
<1> HIDE DEF w
<1>5. IsSplit(t, w, c, n)
  <2>1. /\ DOMAIN w = DOMAIN t \cup {rest} /\ \A x \in DOMAIN w : w[x] \in TagRecord
    BY <1>1, <1>3, <1>4
  <2>2. w[c].count = n /\ w[rest].count = t[c].count - n /\ w[rest].pre = n
    BY <1>1, <1>4
  <2>3. \A x \in DOMAIN t \ {c} : w[x].count = t[x].count
    BY <1>1, <1>4
  <2>4. \A x \in DOMAIN t : w[x].pre = IF x = next THEN t[c].count - n ELSE t[x].pre
    BY <1>1, <1>4
  <2> QED BY <2>1, <2>2, <2>3, <2>4 DEF IsSplit, rest, next
<1>6. Row(size, w)
  BY <1>5, SplitRow
<1>7. Agree(w, v, next)
  BY <1>1, <1>3, <1>4 DEF Agree
<1>8. After(w, rest) = next
  <2>1. w[rest].count = t[c].count - n
    BY <1>1, <1>4
  <2>2. c[2] + n + (t[c].count - n) = c[2] + t[c].count
    BY <1>2
  <2> QED BY <1>1, <1>2, <2>1, <2>2 DEF After
<1>9. (\A x \in DOMAIN t : w[x].using = t[x].using) /\ ~w[rest].using
  BY <1>1, <1>4
<1> QED BY <1>5, <1>6, <1>7, <1>8, <1>9 DEF v, rest, next

\* What Cut leaves of the tags t: c has n chunks, and behind it a free run when
\* there is more; every other run is as it was, save a free run that was joined.
Shortened(t, u, c, n) ==
  LET rest == Behind(c, n)
      next == After(t, c)
  IN  /\ DOMAIN u = (DOMAIN t \ (IF Joins(t, c, n) THEN {next} ELSE {}))
                      \cup (IF n < t[c].count THEN {rest} ELSE {})
      /\ u[c].count = n
      /\ n < t[c].count =>
           /\ u[rest].count = t[c].count - n + (IF Joins(t, c, n) THEN t[next].count ELSE 0)
           /\ ~u[rest].using /\ rest \notin DOMAIN t
      /\ \A x \in DOMAIN u \cap DOMAIN t :
           u[x].using = t[x].using /\ (x # c => u[x].count = t[x].count)

CutsTo(p, q, t, c, n) ==
  /\ IsPool(q) /\ SameBlocks(p, q) /\ q.using = p.using
  /\ q.current = IF Joins(t, c, n) /\ After(t, c) = p.current THEN Behind(c, n) ELSE p.current
  /\ Row(p.size, q.tag)
  /\ Shortened(t, q.tag, c, n)

\* Cut of a whole run: nothing is left over.
LEMMA CutWhole ==
  ASSUME NEW p, IsPool(p), NEW t, Row(p.size, t), NEW c \in DOMAIN t,
         StandsFor(t, p.tag, c)
  PROVE  CutsTo(p, Cut(p, c, t[c].count, t[c].count), t, c, t[c].count)
<1> DEFINE n == t[c].count
           next == After(t, c)
           old == p.tag[c]
           new == [old EXCEPT !.count = n]
           u == [p.tag EXCEPT ![c] = new]
           r == [p EXCEPT !.tag = u]
           q == SetPre(r, next, c)
<1>1. Cut(p, c, n, n) = q
  BY Places DEF Cut, After
<1>2. /\ n \in Nat \ {0} /\ c # next /\ c[1] \in DOMAIN p.size
      /\ next \in DOMAIN t <=> next[2] < p.size[c[1]]
      /\ next \in DOMAIN t => t[next].pre = n
      /\ next[1] = c[1]
  BY Places
<1>3. /\ p.tag \in [DOMAIN p.tag -> TagRecord] /\ DOMAIN p.tag = DOMAIN t /\ old \in TagRecord
      /\ \A x \in DOMAIN t :
           /\ p.tag[x] \in TagRecord
           /\ p.tag[x].using = t[x].using
           /\ x # c => p.tag[x].count = t[x].count
           /\ x # next => p.tag[x].pre = t[x].pre
  BY DEF IsPool, StandsFor
<1>4. /\ new \in TagRecord /\ new.count = n /\ new.pre = old.pre /\ new.using = old.using
  <2> HIDE DEF old, n
  <2> QED BY <1>2, <1>3, NewCount
<1> HIDE DEF new, n, next, q
<1>5. /\ u \in [DOMAIN u -> TagRecord] /\ DOMAIN u = DOMAIN t
      /\ \A x \in DOMAIN t :
           /\ u[x].using = t[x].using
           /\ u[x].count = t[x].count
           /\ x # next => u[x].pre = t[x].pre
  BY <1>2, <1>3, <1>4 DEF n
<1> HIDE DEF u, old
<1>6. IsPool(r) /\ r.tag = u /\ SameBlocks(p, r) /\ r.using = p.using /\ r.current = p.current
  BY <1>5, TagFields
<1> HIDE DEF r
<1>7. InBlock(r, next) <=> next \in DOMAIN t
  BY <1>2, <1>6 DEF InBlock, SameBlocks
<1>8. /\ IsPool(q) /\ SameBlocks(r, q) /\ q.using = r.using /\ q.current = r.current
      /\ DOMAIN q.tag = DOMAIN r.tag
      /\ \A x \in DOMAIN r.tag :
           /\ q.tag[x].count = r.tag[x].count /\ q.tag[x].using = r.tag[x].using
           /\ q.tag[x].pre = IF InBlock(r, next) /\ x = next THEN r.tag[c].count ELSE r.tag[x].pre
  <2>1. c \in DOMAIN r.tag
    BY <1>5, <1>6
  <2>2. InBlock(r, next) => next \in DOMAIN r.tag
    BY <1>5, <1>6, <1>7
  <2> QED BY <1>6, <2>1, <2>2, SetPreFields DEF q
<1>9. \A x \in DOMAIN t : /\ q.tag[x] \in TagRecord /\ q.tag[x].using = t[x].using
                          /\ q.tag[x].count = t[x].count /\ q.tag[x].pre = t[x].pre
  <2>1. \A x \in DOMAIN t : q.tag[x] \in TagRecord
    BY <1>5, <1>6, <1>8 DEF IsPool
  <2>2. next \in DOMAIN t => r.tag[c].count = t[next].pre
    BY <1>2, <1>5, <1>6 DEF n
  <2> QED BY <1>5, <1>6, <1>7, <1>8, <2>1, <2>2
<1>10. Row(p.size, q.tag)
  <2>1. DOMAIN q.tag = DOMAIN t
    BY <1>5, <1>6, <1>8
  <2> QED BY <1>9, <2>1, SameRow
<1>11. ~Joins(t, c, n)
  BY <1>2 DEF Joins, n
<1>12. Shortened(t, q.tag, c, n)
  <2>1. DOMAIN q.tag = DOMAIN t
    BY <1>5, <1>6, <1>8
  <2>2. ~(n < t[c].count)
    BY <1>2 DEF n
  <2> QED BY <1>9, <1>11, <2>1, <2>2 DEF Shortened, n
<1>13. IsPool(q) /\ SameBlocks(p, q) /\ q.using = p.using /\ q.current = p.current
  BY <1>6, <1>8 DEF SameBlocks
<1> QED BY <1>1, <1>10, <1>11, <1>12, <1>13 DEF CutsTo, n

\* Cut of a part: the rest becomes a free run, joined with a free run
\* behind it.
LEMMA CutPart ==
  ASSUME NEW p, IsPool(p), NEW t, Row(p.size, t), NEW c \in DOMAIN t,
         StandsFor(t, p.tag, c), NEW n \in Nat, 0 < n, n < t[c].count,
         LET next == After(t, c)
         IN  next \in DOMAIN t /\ next = p.current => next[2] + t[next].count = p.size[next[1]]
  PROVE  CutsTo(p, Cut(p, c, t[c].count, n), t, c, n)
<1> DEFINE next == After(t, c)
           rest == Behind(c, n)
           v == CutTag(p.tag, c, n, t[c].count)
           r == [p EXCEPT !.tag = v]
           q == Cut(p, c, t[c].count, n)
<1>1. /\ c[1] \in Nat \ {0} /\ c[2] \in Nat /\ t[c].count \in Nat /\ next # c
      /\ next = <<c[1], c[2] + t[c].count>> /\ c[1] \in DOMAIN p.size /\ next[1] = c[1]
      /\ next \in DOMAIN t <=> next[2] < p.size[c[1]]
  BY Places
<1>2. p.tag \in [DOMAIN p.tag -> TagRecord] /\ DOMAIN p.tag = DOMAIN t
  BY DEF IsPool, StandsFor
<1>3. IsCut(t, v, c, n)
  BY <1>2, CutTags
<1>4. PICK w : /\ IsSplit(t, w, c, n) /\ Row(p.size, w)
               /\ Agree(w, v, next)
               /\ After(w, rest) = next
               /\ \A x \in DOMAIN t : w[x].using = t[x].using
               /\ ~w[rest].using
  BY <1>2, CutRow
<1>5. q = IF InBlock(p, next) /\ ~r.tag[next].using
          THEN CombineNext(r, rest, next) ELSE SetPre(r, next, rest)
  <2>1. n # t[c].count
    BY <1>1
  <2>2. next = <<c[1], c[2] + t[c].count>> /\ rest = <<c[1], c[2] + n>>
    BY <1>1 DEF Behind
  <2> HIDE DEF next, rest
  <2> QED BY <2>1, <2>2 DEF Cut, CutTag, Behind, Heads
<1>6. /\ DOMAIN v = DOMAIN t \cup {rest} /\ v \in [DOMAIN v -> TagRecord]
      /\ rest \notin DOMAIN t /\ rest # c /\ rest # next
      /\ \A x \in DOMAIN t : v[x].using = t[x].using
  BY <1>3 DEF IsCut
<1> HIDE DEF v, next, rest, q
<1>7. IsPool(r) /\ r.tag = v /\ SameBlocks(p, r) /\ r.using = p.using /\ r.current = p.current
  BY <1>6, TagFields
<1> HIDE DEF r
<1>8. /\ InBlock(p, next) <=> next \in DOMAIN t
      /\ InBlock(r, next) <=> next \in DOMAIN t
      /\ r.size = p.size
  BY <1>1, <1>7 DEF InBlock, SameBlocks
<1>9. /\ DOMAIN w = DOMAIN t \cup {rest}
      /\ \A x \in DOMAIN w : w[x] \in TagRecord
      /\ w[c].count = n /\ w[rest].count = t[c].count - n
      /\ \A x \in DOMAIN t \ {c} : w[x].count = t[x].count
      /\ \A x \in DOMAIN t : w[x].using = t[x].using
      /\ ~w[rest].using
  BY <1>4 DEF IsSplit, rest
<1>10. CASE Joins(t, c, n)
  <2>1. next \in DOMAIN t /\ ~t[next].using
    BY <1>10 DEF Joins, next
  <2>2. q = CombineNext(r, rest, next)
    BY <1>5, <1>6, <1>7, <1>8, <2>1
  <2>3. next = r.current => next[2] + w[next].count = r.size[next[1]]
    BY <1>1, <1>7, <1>8, <1>9, <2>1 DEF next
  <2>4. /\ IsPool(q) /\ SameBlocks(r, q) /\ q.using = r.using
        /\ q.current = IF next = r.current THEN rest ELSE r.current
        /\ IsMerge(w, q.tag, rest)
        /\ \A x \in DOMAIN q.tag : q.tag[x].using = w[x].using
    <3>1. rest \in DOMAIN w /\ next \in DOMAIN w /\ next = After(w, rest)
      BY <1>4, <1>9, <2>1
    <3>2. Row(r.size, w) /\ Agree(w, r.tag, next)
      BY <1>4, <1>7, <1>8
    <3> QED BY <1>7, <2>2, <2>3, <3>1, <3>2, CombineFacts
  <2>5. /\ DOMAIN q.tag = (DOMAIN t \cup {rest}) \ {next}
        /\ q.tag[rest].count = t[c].count - n + t[next].count
        /\ \A x \in DOMAIN q.tag \ {rest} : q.tag[x].count = w[x].count
    BY <1>1, <1>4, <1>9, <2>1, <2>4 DEF IsMerge
  <2>6. Row(p.size, q.tag)
    <3>1. rest \in DOMAIN w /\ After(w, rest) \in DOMAIN w
      BY <1>4, <1>9, <2>1
    <3> QED BY <1>4, <2>4, <3>1, MergeRow
  <2>7. Shortened(t, q.tag, c, n)
    <3>1. DOMAIN q.tag = (DOMAIN t \ {next}) \cup {rest}
      BY <1>6, <2>5
    <3>2. q.tag[c].count = n /\ ~q.tag[rest].using
      BY <1>1, <1>6, <1>9, <2>4, <2>5
    <3>3. \A x \in DOMAIN q.tag \cap DOMAIN t :
            q.tag[x].using = t[x].using /\ (x # c => q.tag[x].count = t[x].count)
      BY <1>6, <1>9, <2>4, <2>5
    <3> QED BY <1>6, <1>10, <2>5, <3>1, <3>2, <3>3 DEF Shortened, rest, next
  <2>8. SameBlocks(p, q) /\ q.using = p.using
        /\ q.current = IF next = p.current THEN rest ELSE p.current
    BY <1>7, <2>4 DEF SameBlocks
  <2> QED BY <1>10, <2>4, <2>6, <2>7, <2>8 DEF CutsTo, rest, next, q
<1>11. CASE ~Joins(t, c, n)
  <2>1. next \notin DOMAIN t \/ t[next].using
    BY <1>11 DEF Joins, next
  <2>2. q = SetPre(r, next, rest)
    BY <1>5, <1>6, <1>7, <1>8, <2>1
  <2>3. /\ IsPool(q) /\ SameBlocks(r, q) /\ q.using = r.using /\ q.current = r.current
        /\ DOMAIN q.tag = DOMAIN r.tag
        /\ \A x \in DOMAIN r.tag :
             /\ q.tag[x].count = r.tag[x].count /\ q.tag[x].using = r.tag[x].using
             /\ q.tag[x].pre = IF InBlock(r, next) /\ x = next THEN r.tag[rest].count ELSE r.tag[x].pre
    <3>1. rest \in DOMAIN r.tag
      BY <1>6, <1>7
    <3>2. InBlock(r, next) => next \in DOMAIN r.tag
      BY <1>6, <1>7, <1>8
    <3> QED BY <1>7, <2>2, <3>1, <3>2, SetPreFields
  <2>4. DOMAIN q.tag = DOMAIN w /\ DOMAIN w = DOMAIN t \cup {rest}
    BY <1>6, <1>7, <1>9, <2>3
  <2>5. \A x \in DOMAIN w : /\ q.tag[x] \in TagRecord /\ q.tag[x].using = w[x].using
                            /\ q.tag[x].count = w[x].count /\ q.tag[x].pre = w[x].pre
    <3>1. \A x \in DOMAIN w : q.tag[x] \in TagRecord
      BY <2>3, <2>4 DEF IsPool
    <3>2. \A x \in DOMAIN w : /\ v[x].count = w[x].count /\ v[x].using = w[x].using
                              /\ x # next => v[x].pre = w[x].pre
      BY <1>4 DEF Agree
    <3>3. next \in DOMAIN t => w[next].pre = v[rest].count
      <4>1. next \in DOMAIN t => w[next].pre = t[c].count - n
        BY <1>4 DEF IsSplit, next
      <4> QED BY <1>9, <3>2, <4>1
    <3>4. next \in DOMAIN w => next \in DOMAIN t
      BY <1>6, <1>9
    <3> QED BY <1>6, <1>7, <1>8, <2>3, <2>4, <3>1, <3>2, <3>3, <3>4
  <2>6. Row(p.size, q.tag)
    <3>1. Row(p.size, w) /\ DOMAIN q.tag = DOMAIN w
      BY <1>4, <2>4
    <3> QED BY ONLY <3>1, <2>5, SameRow
  <2>7. Shortened(t, q.tag, c, n)
    <3>1. q.tag[c].count = n /\ q.tag[rest].count = t[c].count - n /\ ~q.tag[rest].using
      BY <1>9, <2>5
    <3>2. \A x \in DOMAIN q.tag \cap DOMAIN t :
            q.tag[x].using = t[x].using /\ (x # c => q.tag[x].count = t[x].count)
      BY <1>9, <2>4, <2>5
    <3>3. t[c].count - n + 0 = t[c].count - n
      BY <1>1
    <3> QED BY <1>6, <1>11, <2>4, <3>1, <3>2, <3>3 DEF Shortened, rest, next
  <2>8. SameBlocks(p, q) /\ q.using = p.using /\ q.current = p.current
    BY <1>7, <2>3 DEF SameBlocks
  <2> QED BY <1>11, <2>3, <2>6, <2>7, <2>8 DEF CutsTo, rest, next, q
<1> QED BY <1>10, <1>11

\* What Cut does to the tags, in both cases.
LEMMA CutFacts ==
  ASSUME NEW p, IsPool(p), NEW t, Row(p.size, t), NEW c \in DOMAIN t,
         StandsFor(t, p.tag, c), NEW n \in Nat, 0 < n, n <= t[c].count,
         LET next == After(t, c)
         IN  next \in DOMAIN t /\ next = p.current => next[2] + t[next].count = p.size[next[1]]
  PROVE  CutsTo(p, Cut(p, c, t[c].count, n), t, c, n)
<1>1. t[c].count \in Nat
  BY Places
<1>2. CASE n = t[c].count
  BY <1>2, CutWhole
<1>3. CASE n < t[c].count
  BY <1>3, CutPart
<1> QED BY <1>1, <1>2, <1>3

-----------------------------------------------------------------------------
(* What a caller sees: the runs in use, and the bump pointer.              *)

Used(t) == {x \in DOMAIN t : t[x].using}

\* Every run in use but c stays where it is and as long as it is.
Others(t, u, c) ==
  /\ Used(u) \ {c} = Used(t) \ {c}
  /\ \A x \in Used(t) \ {c} : u[x].count = t[x].count

\* The bump pointer is at the end of the last block, or at a free run that
\* reaches it.
BumpAt(size, t, c) ==
  /\ c[1] = Len(size)
  /\ \/ c[2] = size[c[1]]
     \/ c \in DOMAIN t /\ ~t[c].using /\ c[2] + t[c].count = size[c[1]]

\* The pool is in order.
Good(p) == IsPool(p) /\ Row(p.size, p.tag) /\ BumpAt(p.size, p.tag, p.current)

\* c has n chunks now, and is in use if it was.
Resized(t, u, c, n) ==
  c \in DOMAIN u /\ u[c].count = n /\ u[c].using = t[c].using /\ Others(t, u, c)

\* A caller sees of Cut only that its own run has another length.
LEMMA CutResizes ==
  ASSUME NEW size, NEW t, Row(size, t), NEW c \in DOMAIN t, NEW u, NEW n, Shortened(t, u, c, n)
  PROVE  Resized(t, u, c, n)
<1> DEFINE next == After(t, c)
           rest == Behind(c, n)
<1>1. c # next
  BY Places
<1> HIDE DEF next, rest
<1>2. /\ DOMAIN u = (DOMAIN t \ (IF Joins(t, c, n) THEN {next} ELSE {}))
                      \cup (IF n < t[c].count THEN {rest} ELSE {})
      /\ u[c].count = n
      /\ n < t[c].count => ~u[rest].using /\ rest \notin DOMAIN t
      /\ \A x \in DOMAIN u \cap DOMAIN t :
           u[x].using = t[x].using /\ (x # c => u[x].count = t[x].count)
  BY DEF Shortened, next, rest
<1>3. Joins(t, c, n) => ~t[next].using
  BY DEF Joins, next
<1>4. c \in DOMAIN u /\ u[c].using = t[c].using
  BY <1>1, <1>2
<1>5. Used(u) = Used(t)
  <2>1. ASSUME NEW x \in Used(u) PROVE x \in Used(t)
    <3>1. x \in DOMAIN t
      BY <2>1, <1>2 DEF Used
    <3> QED BY <2>1, <3>1, <1>2 DEF Used
  <2>2. ASSUME NEW x \in Used(t) PROVE x \in Used(u)
    <3>1. x \in DOMAIN t /\ t[x].using /\ ~(Joins(t, c, n) /\ x = next)
      BY <2>2, <1>3 DEF Used
    <3>2. x \in DOMAIN u
      BY <3>1, <1>2
    <3> QED BY <3>1, <3>2, <1>2 DEF Used
  <2> QED BY <2>1, <2>2
<1>6. \A x \in Used(t) \ {c} : u[x].count = t[x].count
  <2> SUFFICES ASSUME NEW x \in Used(t), x # c PROVE u[x].count = t[x].count
    OBVIOUS
  <2>1. x \in DOMAIN t /\ x \in DOMAIN u
    BY <1>5 DEF Used
  <2> QED BY <2>1, <1>2
<1> QED BY <1>2, <1>4, <1>5, <1>6 DEF Resized, Others

\* Cut keeps the pool in order.
LEMMA CutKeeps ==
  ASSUME NEW p, IsPool(p), NEW t, Row(p.size, t), NEW c \in DOMAIN t,
         StandsFor(t, p.tag, c), NEW n \in Nat, 0 < n, n <= t[c].count,
         BumpAt(p.size, t, p.current), p.current # c
  PROVE  LET q == Cut(p, c, t[c].count, n)
         IN  /\ Good(q) /\ SameBlocks(p, q) /\ q.using = p.using
             /\ Resized(t, q.tag, c, n)
<1> DEFINE next == After(t, c)
           rest == Behind(c, n)
           q == Cut(p, c, t[c].count, n)
           cur == p.current
<1>1. /\ c[1] \in Nat \ {0} /\ c[2] \in Nat /\ t[c].count \in Nat /\ next # c
      /\ next = <<c[1], c[2] + t[c].count>> /\ c[1] \in DOMAIN p.size /\ next[1] = c[1]
      /\ next[2] = c[2] + t[c].count
      /\ next \in DOMAIN t <=> next[2] < p.size[c[1]]
      /\ p.size[c[1]] \in Nat
  BY Places
<1>2. next \in DOMAIN t /\ next = cur => next[2] + t[next].count = p.size[next[1]]
  BY <1>1 DEF BumpAt
<1>3. CutsTo(p, q, t, c, n)
  BY <1>2, CutFacts
<1>4. rest[1] = c[1] /\ rest[2] = c[2] + n /\ rest # c
  BY <1>1 DEF Behind
<1> HIDE DEF next, rest, q
<1>5. /\ IsPool(q) /\ SameBlocks(p, q) /\ q.using = p.using
      /\ q.current = IF Joins(t, c, n) /\ next = cur THEN rest ELSE cur
      /\ Row(p.size, q.tag)
  BY <1>3 DEF CutsTo, next, rest
<1>6. /\ DOMAIN q.tag = (DOMAIN t \ (IF Joins(t, c, n) THEN {next} ELSE {}))
                          \cup (IF n < t[c].count THEN {rest} ELSE {})
      /\ q.tag[c].count = n
      /\ n < t[c].count =>
           /\ q.tag[rest].count = t[c].count - n + (IF Joins(t, c, n) THEN t[next].count ELSE 0)
           /\ ~q.tag[rest].using /\ rest \notin DOMAIN t
      /\ \A x \in DOMAIN q.tag \cap DOMAIN t :
           q.tag[x].using = t[x].using /\ (x # c => q.tag[x].count = t[x].count)
  BY <1>3 DEF CutsTo, Shortened, next, rest
<1>7. Joins(t, c, n) => n < t[c].count /\ next \in DOMAIN t /\ ~t[next].using
  BY DEF Joins, next
<1>8. Resized(t, q.tag, c, n)
  BY <1>3, CutResizes DEF CutsTo
<1>11. BumpAt(p.size, q.tag, q.current)
  <2>0. cur[1] = Len(p.size)
    BY DEF BumpAt
  <2>1. CASE Joins(t, c, n) /\ next = cur
    <3>1. cur[2] + t[cur].count = p.size[cur[1]]
      BY <1>1, <1>2, <1>7, <2>1
    <3>2. rest[2] + q.tag[rest].count = p.size[rest[1]]
      <4>1. t[next].count \in Nat
        BY <1>7, <2>1, Places
      <4> QED BY <1>1, <1>4, <1>6, <1>7, <2>1, <3>1, <4>1
    <3> QED BY <1>1, <1>4, <1>5, <1>6, <1>7, <2>0, <2>1, <3>2 DEF BumpAt
  <2>2. CASE ~(Joins(t, c, n) /\ next = cur)
    <3>1. CASE cur[2] = p.size[cur[1]]
      BY <1>5, <2>0, <2>2, <3>1 DEF BumpAt
    <3>2. CASE cur \in DOMAIN t /\ ~t[cur].using /\ cur[2] + t[cur].count = p.size[cur[1]]
      <4>1. cur \in DOMAIN q.tag
        BY <1>6, <2>2, <3>2
      <4> QED BY <1>5, <1>6, <2>0, <2>2, <3>2, <4>1 DEF BumpAt
    <3> QED BY <3>1, <3>2 DEF BumpAt
  <2> QED BY <2>1, <2>2
<1>12. q.size = p.size
  BY <1>5 DEF SameBlocks
<1> QED BY <1>5, <1>8, <1>11, <1>12 DEF Good, q

-----------------------------------------------------------------------------
(* mp_alloc.                                                               *)

\* r.at, a run that was not in use, is in use now with n chunks, and nothing
\* else changed for those who hold a run.
Granted(t, r, n) ==
  /\ r.at \in Used(r.pool.tag) /\ r.at \notin Used(t)
  /\ r.pool.tag[r.at].count = n
  /\ Others(t, r.pool.tag, r.at)

\* The bump pointer's chunks are a new run, and the pool is in order.
LEMMA BumpAllocFacts ==
  ASSUME NEW p, Good(p), NEW n \in Nat \ {0}, Bumps(p, n)
  PROVE  LET r == BumpAlloc(p, n)
         IN  Good(r.pool) /\ SameBlocks(p, r.pool) /\ Granted(p.tag, r, n)
<1> DEFINE c == p.current
           rest == Behind(c, n)
           remain == p.tag[c].count - n
           u == [x \in Heads(p) \cup (IF remain > 0 THEN {rest} ELSE {}) |->
                   IF x = c THEN Tag(n, p.tag[c].pre, TRUE)
                   ELSE IF x = rest THEN Tag(remain, n, FALSE)
                   ELSE p.tag[x]]
           q1 == [p EXCEPT !.tag = u]
           q2 == [q1 EXCEPT !.current = rest]
           q == Use(q2, c[1], n)
<1>1. BumpAlloc(p, n) = Result(q, c)
  BY DEF BumpAlloc, Behind
<1>2. IsPool(p) /\ Row(p.size, p.tag) /\ BumpAt(p.size, p.tag, c)
  BY DEF Good
<1>3. c \in Place /\ c[1] \in Nat \ {0} /\ c[2] \in Nat /\ c[1] = Len(p.size)
      /\ c[2] + n <= p.size[c[1]] /\ c[1] \in DOMAIN p.size /\ c[1] \in 1 .. Len(p.size)
  BY <1>2 DEF IsPool, BumpAt, Bumps, Last, Place
<1>4. /\ c \in DOMAIN p.tag /\ ~p.tag[c].using /\ c[2] + p.tag[c].count = p.size[c[1]]
  BY <1>2, <1>3 DEF BumpAt, Row
<1>5. /\ p.tag[c].count \in Nat \ {0} /\ p.tag[c].pre \in Nat /\ p.size[c[1]] \in Nat
      /\ After(p.tag, c) \notin DOMAIN p.tag
  BY <1>2, <1>4, Places
<1>6. remain \in Nat /\ p.tag[c].count = n + remain
  BY <1>3, <1>4, <1>5
<1>7. rest \in Place /\ rest[1] = c[1] /\ rest[2] = c[2] + n /\ rest # c
  BY <1>3 DEF Behind, Place
<1> HIDE DEF rest, remain
<1>8. remain > 0 => rest \notin DOMAIN p.tag
  <2>1. \A x \in DOMAIN p.tag : c[1] = x[1] /\ c[2] < x[2] => c[2] + p.tag[c].count <= x[2]
    BY <1>2, <1>4 DEF Row
  <2> QED BY <1>3, <1>6, <1>7, <2>1
<1> DEFINE used == Tag(n, p.tag[c].pre, TRUE)
           left == Tag(remain, n, FALSE)
<1>9. /\ used \in TagRecord
      /\ used.count = n /\ used.pre = p.tag[c].pre /\ used.using
      /\ remain > 0 => left \in TagRecord
      /\ left.count = remain /\ left.pre = n /\ ~left.using
  BY <1>5, <1>6 DEF Tag, TagRecord
<1>10. u = [x \in DOMAIN p.tag \cup (IF remain > 0 THEN {rest} ELSE {}) |->
              IF x = c THEN used ELSE IF x = rest THEN left ELSE p.tag[x]]
  BY DEF Heads
<1> HIDE DEF used, left, u, q1, q2, q
<1>11. /\ DOMAIN u = DOMAIN p.tag \cup (IF remain > 0 THEN {rest} ELSE {})
       /\ u[c] = used
       /\ remain > 0 => u[rest] = left
       /\ \A x \in DOMAIN p.tag \ {c} : (remain > 0 => u[x] = p.tag[x])
       /\ remain = 0 => rest \notin DOMAIN p.tag
  <2>1. remain = 0 => rest = After(p.tag, c)
    BY <1>6, <1>7, <1>3 DEF rest, Behind, After
  <2> QED BY <1>4, <1>5, <1>7, <1>8, <1>10, <2>1
<1>12. \A x \in DOMAIN p.tag \ {c} : u[x] = p.tag[x]
  BY <1>6, <1>10, <1>11
<1>13. \A x \in DOMAIN p.tag : p.tag[x] \in TagRecord
  BY <1>2 DEF Row
<1>14. u \in [DOMAIN u -> TagRecord]
  <2>1. \A x \in DOMAIN u : u[x] \in TagRecord
    BY <1>9, <1>11, <1>12, <1>13
  <2> QED BY <1>10, <2>1
<1>15. Row(p.size, u)
  <2>1. CASE remain = 0
    <3>1. DOMAIN u = DOMAIN p.tag
      BY <1>11, <2>1
    <3>2. \A x \in DOMAIN p.tag : /\ u[x] \in TagRecord
                                  /\ u[x].count = p.tag[x].count /\ u[x].pre = p.tag[x].pre
      <4>1. u[c].count = p.tag[c].count /\ u[c].pre = p.tag[c].pre
        BY <1>5, <1>6, <1>9, <1>11, <2>1
      <4> QED BY <1>12, <1>14, <3>1, <4>1
    <3> QED BY <1>2, <3>1, <3>2, SameRow
  <2>2. CASE remain > 0
    <3>1. IsSplit(p.tag, u, c, n)
      <4>1. u[c].count = n /\ u[rest].count = p.tag[c].count - n /\ u[rest].pre = n
        BY <1>6, <1>9, <1>11, <2>2
      <4>2. DOMAIN u = DOMAIN p.tag \cup {rest} /\ \A x \in DOMAIN u : u[x] \in TagRecord
        BY <1>11, <1>14, <2>2
      <4>3. \A x \in DOMAIN p.tag : u[x].pre = p.tag[x].pre /\ x # After(p.tag, c)
        BY <1>5, <1>9, <1>11, <1>12
      <4> QED BY <1>12, <4>1, <4>2, <4>3 DEF IsSplit, rest
    <3> QED BY <1>2, <1>4, <1>6, <2>2, <3>1, SplitRow
  <2> QED BY <1>6, <2>1, <2>2
<1>16. /\ IsPool(q) /\ SameBlocks(p, q) /\ q.tag = u /\ q.current = rest
  <2>1. IsPool(q1) /\ q1.tag = u /\ SameBlocks(p, q1)
    BY <1>2, <1>14, TagFields DEF q1
  <2>2. IsPool(q2) /\ q2.current = rest /\ SameBlocks(q1, q2) /\ q2.tag = q1.tag
    BY <1>7, <2>1, CurrentFields DEF q2
  <2>3. c[1] \in 1 .. Len(q2.size)
    BY <1>3, <2>1, <2>2 DEF SameBlocks
  <2>4. IsPool(q) /\ SameBlocks(q2, q) /\ q.tag = q2.tag /\ q.current = q2.current
    BY <2>2, <2>3, UseFields DEF q
  <2> QED BY <2>1, <2>2, <2>4 DEF SameBlocks
<1>17. BumpAt(p.size, u, rest)
  <2>1. CASE remain = 0
    BY <1>3, <1>4, <1>5, <1>6, <1>7, <2>1 DEF BumpAt
  <2>2. CASE remain > 0
    BY <1>3, <1>4, <1>5, <1>6, <1>7, <1>9, <1>11, <2>2 DEF BumpAt
  <2> QED BY <1>6, <2>1, <2>2
<1>18. Good(q)
  BY <1>15, <1>16, <1>17 DEF Good, SameBlocks
<1>19. c \in Used(u) /\ c \notin Used(p.tag) /\ u[c].count = n
  BY <1>4, <1>9, <1>11 DEF Used
<1>20. Others(p.tag, u, c)
  <2>1. \A x \in Used(u) \ {c} : x \in Used(p.tag)
    BY <1>9, <1>11, <1>12 DEF Used
  <2>2. \A x \in Used(p.tag) \ {c} : x \in Used(u) /\ u[x].count = p.tag[x].count
    BY <1>11, <1>12 DEF Used
  <2> QED BY <2>1, <2>2 DEF Others
<1> QED BY <1>1, <1>16, <1>18, <1>19, <1>20 DEF Result, Granted

\* Every set of naturals that is not empty has a least element.
LEMMA LeastElement ==
  ASSUME NEW S \in SUBSET Nat, S # {}
  PROVE  \E x \in S : \A y \in S : x <= y
<1>1. PICK x \in S : \A y \in S : ~(<<y, x>> \in OpToRel(<, Nat))
  BY WFMin, NatLessThanWellFounded
<1>2. ASSUME NEW y \in S PROVE x <= y
  <2>1. ~(<<y, x>> \in {ss \in Nat \X Nat : ss[1] < ss[2]})
    BY <1>1, Zenon DEF OpToRel
  <2>2. x \in Nat /\ y \in Nat
    OBVIOUS
  <2> QED BY <2>1, <2>2
<1> QED BY <1>2

\* The walk over blocks and runs meets one run first.
LEMMA FirstIn ==
  ASSUME NEW S \in SUBSET Place, S # {}
  PROVE  First(S) \in S
<1> DEFINE Bs == {c[1] : c \in S}
<1>1. Bs \in SUBSET Nat /\ Bs # {}
  BY DEF Place
<1>2. PICK b \in Bs : \A x \in Bs : b <= x
  BY <1>1, LeastElement
<1> DEFINE Is == {c[2] : c \in {d \in S : d[1] = b}}
<1>3. Is \in SUBSET Nat /\ Is # {}
  BY DEF Place
<1>4. PICK i \in Is : \A x \in Is : i <= x
  BY <1>3, LeastElement
<1>5. PICK c \in S : c[1] = b /\ c[2] = i
  OBVIOUS
<1>6. ASSUME NEW d \in S PROVE c[1] < d[1] \/ (c[1] = d[1] /\ c[2] <= d[2])
  <2>1. c[1] \in Nat /\ d[1] \in Nat /\ c[1] <= d[1]
    BY <1>2, <1>5 DEF Place
  <2>2. d[1] = b => c[2] <= d[2]
    BY <1>4, <1>5
  <2> QED BY <1>5, <2>1, <2>2
<1> QED BY <1>6 DEF First

\* The first fit is never the bump run, which is too short.
LEMMA CarveFacts ==
  ASSUME NEW p, Good(p), NEW n \in Nat \ {0}, ~Bumps(p, n), Fits(p, n) # {}
  PROVE  LET r == CarveFirstFit(p, n)
         IN  Good(r.pool) /\ SameBlocks(p, r.pool) /\ Granted(p.tag, r, n)
<1> DEFINE c == First(Fits(p, n))
           q1 == [p EXCEPT !.tag[c].using = TRUE]
           q2 == Cut(q1, c, p.tag[c].count, n)
           q == Use(q2, c[1], n)
           cur == p.current
<1>0. CarveFirstFit(p, n) = Result(q, c)
  BY DEF CarveFirstFit
<1>1. IsPool(p) /\ Row(p.size, p.tag) /\ BumpAt(p.size, p.tag, cur)
  BY DEF Good
<1>2. c \in Fits(p, n)
  <2>1. Fits(p, n) \in SUBSET Place
    BY <1>1 DEF Fits, Heads, Row
  <2> QED BY <2>1, FirstIn
<1> HIDE DEF c, q1, q2, q
<1>3. c \in DOMAIN p.tag /\ ~p.tag[c].using /\ n <= p.tag[c].count
  <2>1. p.tag[c].count \in Nat /\ c \in DOMAIN p.tag
    BY <1>1, <1>2, Places DEF Fits, Heads
  <2> QED BY <1>2, <2>1 DEF Fits
<1>4. c[1] \in 1 .. Len(p.size)
  <2>1. c[1] \in DOMAIN p.size
    BY <1>1, <1>3 DEF Row
  <2> QED BY <1>1, <2>1 DEF IsPool
<1>5. cur # c
  <2> SUFFICES ASSUME cur = c PROVE FALSE
    OBVIOUS
  <2>1. c[2] + p.tag[c].count <= p.size[c[1]] /\ c[2] \in Nat /\ p.tag[c].count \in Nat \ {0}
        /\ p.size[c[1]] \in Nat
    BY <1>1, <1>3, Places
  <2>2. cur[1] = Len(p.size) /\ c[2] + n <= p.size[Len(p.size)]
    BY <1>1, <1>3, <2>1 DEF BumpAt
  <2> QED BY <2>2 DEF Bumps, Last
<1>6. /\ IsPool(q1) /\ SameBlocks(p, q1) /\ q1.current = cur
      /\ DOMAIN q1.tag = DOMAIN p.tag
      /\ \A x \in DOMAIN p.tag :
           /\ q1.tag[x].count = p.tag[x].count /\ q1.tag[x].pre = p.tag[x].pre
           /\ q1.tag[x].using = IF x = c THEN TRUE ELSE p.tag[x].using
  <2>1. Marks(p, q1, c, TRUE)
    BY <1>1, <1>3, UsingFields DEF q1
  <2> QED BY <2>1 DEF Marks
<1>7. Row(q1.size, q1.tag)
  <2>1. \A x \in DOMAIN p.tag : /\ q1.tag[x] \in TagRecord
                                /\ q1.tag[x].count = p.tag[x].count /\ q1.tag[x].pre = p.tag[x].pre
    BY <1>6 DEF IsPool
  <2>2. q1.size = p.size
    BY <1>6 DEF SameBlocks
  <2> QED BY <1>1, <1>6, <2>1, <2>2, SameRow
<1>8. BumpAt(q1.size, q1.tag, q1.current)
  BY <1>1, <1>5, <1>6 DEF BumpAt, SameBlocks
<1>9. /\ Good(q2) /\ SameBlocks(q1, q2)
      /\ Resized(q1.tag, q2.tag, c, n)
  <2>1. StandsFor(q1.tag, q1.tag, c)
    BY DEF StandsFor
  <2>2. c \in DOMAIN q1.tag /\ p.tag[c].count = q1.tag[c].count /\ q1.current # c
    BY <1>3, <1>5, <1>6
  <2>3. n \in Nat /\ 0 < n /\ n <= q1.tag[c].count
    BY <1>3, <2>2
  <2> QED BY <1>6, <1>7, <1>8, <2>1, <2>2, <2>3, CutKeeps DEF q2
<1>10. Good(q) /\ SameBlocks(q2, q) /\ q.tag = q2.tag
  <2>1. c[1] \in 1 .. Len(q2.size)
    BY <1>4, <1>6, <1>9 DEF SameBlocks
  <2>2. IsPool(q2) /\ Row(q2.size, q2.tag) /\ BumpAt(q2.size, q2.tag, q2.current)
    BY <1>9 DEF Good
  <2>3. IsPool(q) /\ SameBlocks(q2, q) /\ q.tag = q2.tag /\ q.current = q2.current
    BY <2>1, <2>2, UseFields DEF q
  <2> QED BY <2>2, <2>3 DEF Good, SameBlocks
<1>11. SameBlocks(p, q)
  BY <1>6, <1>9, <1>10 DEF SameBlocks
<1>12. c \in Used(q.tag) /\ c \notin Used(p.tag) /\ q.tag[c].count = n
  BY <1>3, <1>6, <1>9, <1>10 DEF Used, Resized
<1>13. Others(p.tag, q.tag, c)
  <2>1. Used(q1.tag) \ {c} = Used(p.tag) \ {c}
    BY <1>6 DEF Used
  <2>2. \A x \in Used(p.tag) \ {c} : q1.tag[x].count = p.tag[x].count
    BY <1>6 DEF Used
  <2> QED BY <1>9, <1>10, <2>1, <2>2 DEF Resized, Others
<1> QED BY <1>0, <1>10, <1>11, <1>12, <1>13 DEF Result, Granted

\* Those who hold a run see no change.
SameUsed(t, u) == Used(u) = Used(t) /\ \A x \in Used(t) : u[x].count = t[x].count

IsRecord(p) == p = [size |-> p.size, using |-> p.using, tag |-> p.tag,
                     current |-> p.current, torn |-> p.torn]

\* [p EXCEPT !.size = a] changes that field alone; and so for the others.
LEMMA SizeOnly ==
  ASSUME NEW p, IsRecord(p), NEW a
  PROVE  LET q == [p EXCEPT !.size = a]
         IN  /\ IsRecord(q) /\ q.size = a
             /\ q.using = p.using /\ q.tag = p.tag /\ q.current = p.current /\ q.torn = p.torn
BY DEF IsRecord

\* The same for the counters.
LEMMA UsingOnly ==
  ASSUME NEW p, IsRecord(p), NEW a
  PROVE  LET q == [p EXCEPT !.using = a]
         IN  /\ IsRecord(q) /\ q.using = a
             /\ q.size = p.size /\ q.tag = p.tag /\ q.current = p.current /\ q.torn = p.torn
BY DEF IsRecord

\* The same for the tags.
LEMMA TagOnly ==
  ASSUME NEW p, IsRecord(p), NEW a
  PROVE  LET q == [p EXCEPT !.tag = a]
         IN  /\ IsRecord(q) /\ q.tag = a
             /\ q.size = p.size /\ q.using = p.using /\ q.current = p.current /\ q.torn = p.torn
BY DEF IsRecord

\* The same for the bump pointer.
LEMMA CurrentOnly ==
  ASSUME NEW p, IsRecord(p), NEW a
  PROVE  LET q == [p EXCEPT !.current = a]
         IN  /\ IsRecord(q) /\ q.current = a
             /\ q.size = p.size /\ q.using = p.using /\ q.tag = p.tag /\ q.torn = p.torn
BY DEF IsRecord

\* q is p with these arrays, bump pointer and tags.
Renewed(p, q, a, b, c, u) ==
  /\ IsRecord(q)
  /\ q.size = a /\ q.using = b /\ q.current = c /\ q.tag = u /\ q.torn = p.torn

\* The fields alloc_block writes.
LEMMA BlockFields ==
  ASSUME NEW p, IsPool(p), NEW a, NEW b, NEW c, NEW u
  PROVE  Renewed(p, [p EXCEPT !.size = a, !.using = b, !.current = c, !.tag = u], a, b, c, u)
<1> DEFINE q1 == [p EXCEPT !.size = a]
           q2 == [q1 EXCEPT !.using = b]
           q3 == [q2 EXCEPT !.current = c]
           q4 == [q3 EXCEPT !.tag = u]
<1>0. q4 = [p EXCEPT !.size = a, !.using = b, !.current = c, !.tag = u]
  OBVIOUS
<1>1. IsRecord(p)
  BY DEF IsPool, IsRecord
<1> HIDE DEF q1, q2, q3, q4
<1>2. IsRecord(q1) /\ q1.size = a /\ q1.torn = p.torn
  BY <1>1, SizeOnly DEF q1
<1>3. IsRecord(q2) /\ q2.using = b /\ q2.size = a /\ q2.torn = p.torn
  BY <1>2, UsingOnly DEF q2
<1>4. IsRecord(q3) /\ q3.current = c /\ q3.using = b /\ q3.size = a /\ q3.torn = p.torn
  BY <1>3, CurrentOnly DEF q3
<1>5. IsRecord(q4) /\ q4.tag = u /\ q4.current = c /\ q4.using = b /\ q4.size = a /\ q4.torn = p.torn
  BY <1>4, TagOnly DEF q4
<1> QED BY <1>0, <1>5 DEF Renewed

\* The arrays cut short: no other field changes.
LEMMA TornFields ==
  ASSUME NEW p, IsPool(p), NEW on \in BOOLEAN
  PROVE  LET q == [p EXCEPT !.torn = on]
         IN  /\ IsPool(q)
             /\ q.size = p.size /\ q.using = p.using /\ q.current = p.current /\ q.tag = p.tag
BY DEF IsPool

\* u is t with the tag of a new block of k chunks, if it has any.
NewHead(t, u, b, k) ==
  /\ DOMAIN u = DOMAIN t \cup (IF k > 0 THEN {<<b, 0>>} ELSE {})
  /\ k > 0 => u[<<b, 0>>] = Tag(k, 0, FALSE)
  /\ \A x \in DOMAIN t : u[x] = t[x]

\* A block more, free as a whole or of no chunks, leaves a row.
LEMMA NewBlockRow ==
  ASSUME NEW size \in Seq(Nat), NEW t, Row(size, t), NEW k \in Nat, NEW u,
         NewHead(t, u, Len(size) + 1, k)
  PROVE  Row(Append(size, k), u)
<1> DEFINE b == Len(size) + 1
           head == <<b, 0>>
           new == Append(size, k)
           tag == Tag(k, 0, FALSE)
<1>1. b \in Nat \ {0} /\ DOMAIN size = 1 .. (b - 1) /\ Len(size) \in Nat
  OBVIOUS
<1>2. DOMAIN new = 1 .. b /\ new[b] = k /\ \A x \in 1 .. (b - 1) : new[x] = size[x]
  BY <1>1
<1>3. head \in Place /\ head[1] = b /\ head[2] = 0
  BY <1>1 DEF Place
<1>4. tag.count = k /\ tag.pre = 0 /\ (k > 0 => tag \in TagRecord)
  BY DEF Tag, TagRecord
<1>5. /\ DOMAIN u = DOMAIN t \cup (IF k > 0 THEN {head} ELSE {})
      /\ k > 0 => u[head] = tag
      /\ \A x \in DOMAIN t : u[x] = t[x]
  BY DEF NewHead
<1>6. \A x \in DOMAIN t : /\ x[1] \in 1 .. (b - 1) /\ x[1] # b /\ x # head
                          /\ x \in Place /\ t[x] \in TagRecord
                          /\ x[2] + t[x].count <= size[x[1]]
  BY <1>1, <1>3 DEF Row
<1> HIDE DEF b, head, new, tag
<1>7. \A x \in DOMAIN t : After(u, x) = After(t, x)
  BY <1>5 DEF After
<1>8. ASSUME NEW x \in DOMAIN u
      PROVE  /\ x \in Place /\ x[1] \in DOMAIN new /\ u[x] \in TagRecord
             /\ x[2] + u[x].count <= new[x[1]]
  <2>1. CASE x \in DOMAIN t
    BY <1>1, <1>2, <1>5, <1>6, <2>1
  <2>2. CASE x \notin DOMAIN t
    <3>1. x = head /\ k > 0
      BY <1>5, <2>2
    <3>2. u[x] = tag /\ new[x[1]] = k /\ x[1] \in DOMAIN new
      BY <1>1, <1>2, <1>3, <1>5, <3>1
    <3> QED BY <1>3, <1>4, <3>1, <3>2
  <2> QED BY <2>1, <2>2
<1>9. ASSUME NEW d \in DOMAIN new
      PROVE  /\ new[d] \in Nat
             /\ new[d] > 0 => <<d, 0>> \in DOMAIN u /\ u[<<d, 0>>].pre = 0
  <2>1. CASE d = b
    BY <1>2, <1>4, <1>5, <2>1 DEF head
  <2>2. CASE d \in 1 .. (b - 1)
    <3>1. /\ size[d] \in Nat
          /\ size[d] > 0 => <<d, 0>> \in DOMAIN t /\ t[<<d, 0>>].pre = 0
      BY <1>1, <2>2 DEF Row
    <3> QED BY <1>2, <1>5, <2>2, <3>1
  <2> QED BY <1>1, <1>2, <2>1, <2>2
<1>10. ASSUME NEW x \in DOMAIN u
       PROVE  \/ x[2] + u[x].count = new[x[1]]
              \/ After(u, x) \in DOMAIN u /\ u[After(u, x)].pre = u[x].count
  <2>1. CASE x \in DOMAIN t
    <3>1. \/ x[2] + t[x].count = size[x[1]]
          \/ After(t, x) \in DOMAIN t /\ t[After(t, x)].pre = t[x].count
      BY <2>1 DEF Row
    <3> QED BY <1>2, <1>5, <1>6, <1>7, <2>1, <3>1
  <2>2. CASE x \notin DOMAIN t
    BY <1>2, <1>3, <1>4, <1>5, <2>2
  <2> QED BY <2>1, <2>2
<1>11. ASSUME NEW x \in DOMAIN u, NEW y \in DOMAIN u, x[1] = y[1], x[2] < y[2]
       PROVE  x[2] + u[x].count <= y[2]
  <2>1. CASE x \in DOMAIN t /\ y \in DOMAIN t
    <3>1. x[2] + t[x].count <= y[2]
      BY <1>11, <2>1 DEF Row
    <3> QED BY <1>5, <2>1, <3>1
  <2>2. CASE x \in DOMAIN t /\ y \notin DOMAIN t
    BY <1>3, <1>5, <1>6, <1>11, <2>2
  <2>3. CASE x \notin DOMAIN t
    BY <1>3, <1>5, <1>6, <1>11, <2>3
  <2> QED BY <2>1, <2>2, <2>3
<1>12. ASSUME NEW x \in DOMAIN u
       PROVE  \/ x[2] = 0
              \/ /\ u[x].pre > 0 /\ <<x[1], x[2] - u[x].pre>> \in DOMAIN u
                 /\ u[<<x[1], x[2] - u[x].pre>>].count = u[x].pre
  <2>1. CASE x \in DOMAIN t
    <3> DEFINE y == <<x[1], x[2] - t[x].pre>>
    <3>1. x[2] = 0 \/ (t[x].pre > 0 /\ y \in DOMAIN t /\ t[y].count = t[x].pre)
      BY <2>1 DEF Row
    <3>2. u[x] = t[x]
      BY <1>5, <2>1
    <3> QED BY <1>5, <3>1, <3>2
  <2>2. CASE x \notin DOMAIN t
    BY <1>3, <1>5, <2>2
  <2> QED BY <2>1, <2>2
<1> QED BY <1>8, <1>9, <1>10, <1>11, <1>12 DEF Row, new

\* A new block is never longer than the first.
LEMMA NextBlockRange ==
  ASSUME NEW p, IsPool(p)
  PROVE  NextBlockSize(p) \in 0 .. InitChunks
<1>1. p.using[Last(p)] \in Int /\ Last(p) - 1 \in Int /\ InitChunks \in Nat /\ MaxChunks \in Nat
  BY MemPoolAssumption DEF IsPool, Last
<1>2. InitChunks * (Last(p) - 1) \in Int
  BY <1>1
<1>3. AllUsingSize(p) \in Int
  BY <1>1, <1>2, WrapRange DEF AllUsingSize
<1>4. Wrap(MaxChunks - AllUsingSize(p)) \in Nat
  BY <1>1, <1>3, WrapRange
<1> QED BY <1>1, <1>4 DEF NextBlockSize

\* alloc_block leaves the pool in order and no caller's run touched,
\* whatever memory the platform has.
LEMMA AllocBlockFacts ==
  ASSUME NEW p, Good(p), NEW m \in {"ok", "none", "torn"}
  PROVE  LET q == AllocBlock(p, m)
         IN  /\ Good(q) /\ SameUsed(p.tag, q.tag)
             /\ IF m = "ok" THEN Last(q) = Last(p) + 1 ELSE q.size = p.size
<1>1. IsPool(p) /\ Row(p.size, p.tag) /\ BumpAt(p.size, p.tag, p.current)
  BY DEF Good
<1>2. CASE m = "none"
  BY <1>2 DEF AllocBlock, SameUsed
<1>3. CASE m = "torn"
  <2> DEFINE q == [p EXCEPT !.torn = TRUE]
  <2>1. AllocBlock(p, m) = q
    BY <1>3 DEF AllocBlock
  <2>2. IsPool(q) /\ q.size = p.size /\ q.tag = p.tag /\ q.current = p.current
    BY <1>1, TornFields
  <2> QED BY <1>1, <1>3, <2>1, <2>2 DEF Good, SameUsed
<1>4. CASE m = "ok"
  <2> DEFINE n == NextBlockSize(p)
             b == Len(p.size) + 1
             head == <<b, 0>>
             new == Tag(n, 0, FALSE)
             u == [x \in Heads(p) \cup (IF n > 0 THEN {head} ELSE {}) |->
                     IF x = head THEN new ELSE p.tag[x]]
             sz == Append(p.size, n)
             us == Append(p.using, 0)
             q == [p EXCEPT !.size = sz, !.using = us, !.current = head, !.tag = u]
  <2>1. AllocBlock(p, m) = q
    BY <1>4 DEF AllocBlock, Last
  <2>2. n \in 0 .. InitChunks /\ n \in Nat
    BY <1>1, NextBlockRange, MemPoolAssumption
  <2>3. /\ p.size \in Seq(0 .. InitChunks) /\ p.size \in Seq(Nat) /\ Len(p.size) \in Nat
        /\ p.using \in Seq(0 .. (CountMod - 1)) /\ Len(p.using) = Len(p.size)
        /\ DOMAIN p.size = 1 .. Len(p.size)
    BY <1>1, MemPoolAssumption DEF IsPool
  <2>4. /\ head \in Place /\ head[1] = b /\ head[2] = 0 /\ head \notin DOMAIN p.tag
    <3>1. \A x \in DOMAIN p.tag : x[1] \in 1 .. Len(p.size)
      BY <1>1, <2>3 DEF Row
    <3> QED BY <2>3, <3>1 DEF Place
  <2>5. new.count = n /\ new.pre = 0 /\ new.using = FALSE /\ (n > 0 => new \in TagRecord)
    BY <2>2 DEF Tag, TagRecord
  <2>6. \A x \in DOMAIN p.tag : p.tag[x] \in TagRecord
    BY <1>1 DEF Row
  <2>u. u = [x \in DOMAIN p.tag \cup (IF n > 0 THEN {head} ELSE {}) |->
               IF x = head THEN new ELSE p.tag[x]]
    BY DEF Heads
  <2> HIDE DEF n, head, new, u
  <2>7. /\ DOMAIN u = DOMAIN p.tag \cup (IF n > 0 THEN {head} ELSE {})
        /\ n > 0 => u[head] = new
        /\ \A x \in DOMAIN p.tag : u[x] = p.tag[x]
        /\ u \in [DOMAIN u -> TagRecord]
    <3>1. /\ DOMAIN u = DOMAIN p.tag \cup (IF n > 0 THEN {head} ELSE {})
          /\ n > 0 => u[head] = new
          /\ \A x \in DOMAIN p.tag : u[x] = p.tag[x]
      BY <2>4, <2>u
    <3>2. \A x \in DOMAIN u : u[x] \in TagRecord
      BY <3>1, <2>5, <2>6
    <3> QED BY <2>u, <3>1, <3>2
  <2>8. Row(Append(p.size, n), u)
    <3>1. NewHead(p.tag, u, Len(p.size) + 1, n)
      BY <2>7 DEF head, new, NewHead
    <3> QED BY ONLY <1>1, <2>2, <2>3, <3>1, NewBlockRow
  <2>9. q = [size |-> q.size, using |-> q.using, tag |-> q.tag,
             current |-> q.current, torn |-> q.torn]
    <3>1. Renewed(p, q, sz, us, head, u)
      BY <1>1, BlockFields
    <3> HIDE DEF sz, us, q
    <3> QED BY <3>1 DEF Renewed, IsRecord
  <2>10. /\ q.size = Append(p.size, n) /\ q.using = Append(p.using, 0) /\ q.tag = u
         /\ q.current = head /\ q.torn = p.torn
    <3>1. Renewed(p, q, sz, us, head, u)
      BY <1>1, BlockFields
    <3> HIDE DEF sz, us, q
    <3>2. q.size = sz /\ q.using = us /\ q.tag = u /\ q.current = head /\ q.torn = p.torn
      BY <3>1 DEF Renewed
    <3> QED BY <3>2 DEF sz, us
  <2> HIDE DEF q
  <2>11. IsPool(q)
    <3>1. q.size \in Seq(0 .. InitChunks) /\ Len(q.size) = Len(p.size) + 1
      BY <2>2, <2>3, <2>10
    <3>2. q.using \in Seq(0 .. (CountMod - 1)) /\ Len(q.using) = Len(p.using) + 1
      <4>1. 0 \in 0 .. (CountMod - 1)
        BY MemPoolAssumption
      <4> QED BY ONLY <2>3, <2>10, <4>1
    <3>3. q = [size |-> q.size, using |-> q.using, tag |-> q.tag,
               current |-> q.current, torn |-> q.torn]
      BY <2>9, <2>10
    <3>4. q.torn \in BOOLEAN
      BY <1>1, <2>10 DEF IsPool
    <3>5. Len(q.size) >= 1 /\ Len(q.using) = Len(q.size)
      BY <2>3, <3>1, <3>2
    <3> QED BY <2>4, <2>7, <2>10, <3>1, <3>2, <3>3, <3>4, <3>5 DEF IsPool
  <2>12. BumpAt(q.size, q.tag, q.current)
    <3>1. q.size[b] = n /\ Len(q.size) = b
      BY <2>2, <2>3, <2>10
    <3>2. n = 0 \/ (head \in DOMAIN u /\ ~u[head].using /\ u[head].count = n)
      BY <2>2, <2>5, <2>7
    <3> QED BY <2>2, <2>4, <2>10, <3>1, <3>2 DEF BumpAt
  <2>13. SameUsed(p.tag, u)
    <3>1. \A x \in Used(u) : x \in Used(p.tag)
      BY <2>5, <2>7 DEF Used
    <3>2. \A x \in Used(p.tag) : x \in Used(u) /\ u[x].count = p.tag[x].count
      BY <2>7 DEF Used
    <3> QED BY <3>1, <3>2 DEF SameUsed
  <2>14. Last(q) = Last(p) + 1
    BY <2>2, <2>3, <2>10 DEF Last
  <2> QED BY <1>4, <2>1, <2>8, <2>10, <2>11, <2>12, <2>13, <2>14 DEF Good
<1> QED BY <1>2, <1>3, <1>4

\* A pointer to a run is not null.
LEMMA PlaceNotNull == \A c \in Place : c # Null
BY MemPoolAssumption DEF Place

\* What mp_alloc comes back with.
AllocGives(p, r, n, m) ==
  /\ Good(r.pool)
  /\ IF r.at = Null THEN SameUsed(p.tag, r.pool.tag) ELSE Granted(p.tag, r, n)
  /\ IF m = "ok" THEN Last(r.pool) \in {Last(p), Last(p) + 1} ELSE Last(r.pool) = Last(p)

\* A run that is granted is what mp_alloc promises.
LEMMA GivesGranted ==
  ASSUME NEW p, Good(p), NEW r, Good(r.pool), NEW n, Granted(p.tag, r, n), NEW m,
         IF m = "ok" THEN Last(r.pool) \in {Last(p), Last(p) + 1} ELSE Last(r.pool) = Last(p)
  PROVE  AllocGives(p, r, n, m)
<1>1. r.at \in Place
  BY DEF Granted, Used, Good, Row
<1> QED BY <1>1, PlaceNotNull DEF AllocGives

\* mp_alloc in a new block.
LEMMA NewBlockGives ==
  ASSUME NEW p, Good(p), NEW n \in Nat \ {0}, NEW m \in {"ok", "none", "torn"}
  PROVE  AllocGives(p, AllocInNewBlock(p, n, m), n, m)
<1> DEFINE q == AllocBlock(p, m)
           r == BumpAlloc(q, n)
<1>1. /\ Good(q) /\ SameUsed(p.tag, q.tag)
      /\ IF m = "ok" THEN Last(q) = Last(p) + 1 ELSE q.size = p.size
  BY AllocBlockFacts
<1>2. IF m = "ok" THEN Last(q) = Last(p) + 1 ELSE Last(q) = Last(p)
  BY <1>1 DEF Last
<1> HIDE DEF q, r
<1>3. CASE Bumps(q, n) /\ AllocInNewBlock(p, n, m) = r
  <2>1. Good(r.pool) /\ SameBlocks(q, r.pool) /\ Granted(q.tag, r, n)
    BY <1>1, <1>3, BumpAllocFacts DEF r
  <2>2. Granted(p.tag, r, n)
    BY <1>1, <2>1 DEF Granted, SameUsed, Others
  <2>3. IF m = "ok" THEN Last(r.pool) \in {Last(p), Last(p) + 1} ELSE Last(r.pool) = Last(p)
    BY <1>2, <2>1 DEF SameBlocks, Last
  <2> QED BY <1>3, <2>1, <2>2, <2>3, GivesGranted
<1>4. CASE AllocInNewBlock(p, n, m) = Result(q, Null)
  BY <1>1, <1>2, <1>4 DEF Result, AllocGives
<1>5. \/ Bumps(q, n) /\ AllocInNewBlock(p, n, m) = r
      \/ AllocInNewBlock(p, n, m) = Result(q, Null)
  BY DEF AllocInNewBlock, q, r
<1> QED BY <1>3, <1>4, <1>5

\* mp_alloc gives a run of n chunks that nobody held, or changes nothing for
\* those who hold one.
LEMMA AllocFacts ==
  ASSUME NEW p, Good(p), NEW n \in Nat \ {0}, NEW m \in {"ok", "none", "torn"}
  PROVE  AllocGives(p, MpAlloc(p, n, m), n, m)
<1>1. CASE MpAlloc(p, n, m) = Result(p, Null)
  BY <1>1 DEF Result, AllocGives, SameUsed
<1>2. CASE MpAlloc(p, n, m) = AllocInNewBlock(p, n, m)
  BY <1>2, NewBlockGives
<1>3. CASE Bumps(p, n) /\ MpAlloc(p, n, m) = BumpAlloc(p, n)
  <2> DEFINE r == BumpAlloc(p, n)
  <2>1. Good(r.pool) /\ SameBlocks(p, r.pool) /\ Granted(p.tag, r, n)
    BY <1>3, BumpAllocFacts
  <2> HIDE DEF r
  <2>2. IF m = "ok" THEN Last(r.pool) \in {Last(p), Last(p) + 1} ELSE Last(r.pool) = Last(p)
    BY <2>1 DEF SameBlocks, Last
  <2> QED BY <1>3, <2>1, <2>2, GivesGranted DEF r
<1>4. CASE ~Bumps(p, n) /\ Fits(p, n) # {} /\ MpAlloc(p, n, m) = CarveFirstFit(p, n)
  <2> DEFINE r == CarveFirstFit(p, n)
  <2>1. Good(r.pool) /\ SameBlocks(p, r.pool) /\ Granted(p.tag, r, n)
    BY <1>4, CarveFacts
  <2> HIDE DEF r
  <2>2. IF m = "ok" THEN Last(r.pool) \in {Last(p), Last(p) + 1} ELSE Last(r.pool) = Last(p)
    BY <2>1 DEF SameBlocks, Last
  <2> QED BY <1>4, <2>1, <2>2, GivesGranted DEF r
<1>5. \/ MpAlloc(p, n, m) = Result(p, Null)
      \/ MpAlloc(p, n, m) = AllocInNewBlock(p, n, m)
      \/ Bumps(p, n) /\ MpAlloc(p, n, m) = BumpAlloc(p, n)
      \/ ~Bumps(p, n) /\ Fits(p, n) # {} /\ MpAlloc(p, n, m) = CarveFirstFit(p, n)
  BY DEF MpAlloc
<1> QED BY <1>1, <1>2, <1>3, <1>4, <1>5

-----------------------------------------------------------------------------
(* mp_free and mp_realloc.                                                 *)

\* Two free runs made one: the bump pointer follows.
LEMMA MergeKeeps ==
  ASSUME NEW p, Good(p), NEW q, IsPool(q), SameBlocks(p, q), NEW c \in DOMAIN p.tag,
         After(p.tag, c) \in DOMAIN p.tag, IsMerge(p.tag, q.tag, c),
         \A x \in DOMAIN q.tag : q.tag[x].using = p.tag[x].using,
         ~p.tag[c].using, ~p.tag[After(p.tag, c)].using,
         q.current = IF After(p.tag, c) = p.current THEN c ELSE p.current
  PROVE  Good(q) /\ SameUsed(p.tag, q.tag)
<1> DEFINE m == After(p.tag, c)
           cur == p.current
<1>1. IsPool(p) /\ Row(p.size, p.tag) /\ BumpAt(p.size, p.tag, cur) /\ q.size = p.size
  BY DEF Good, SameBlocks
<1>2. Row(q.size, q.tag)
  BY <1>1, MergeRow
<1>3. /\ c[1] \in Nat /\ c[2] \in Nat /\ p.tag[c].count \in Nat \ {0}
      /\ m[1] = c[1] /\ m[2] = c[2] + p.tag[c].count /\ m # c
      /\ m[2] < p.size[c[1]] /\ p.size[c[1]] \in Nat
  BY <1>1, Places
<1>4. p.tag[m].count \in Nat \ {0}
  BY <1>1, Places
<1> HIDE DEF m
<1>5. /\ DOMAIN q.tag = DOMAIN p.tag \ {m}
      /\ q.tag[c].count = p.tag[c].count + p.tag[m].count
      /\ \A x \in DOMAIN q.tag \ {c} : q.tag[x].count = p.tag[x].count
  BY DEF IsMerge, m
<1>6. q.current = IF m = cur THEN c ELSE cur
  BY DEF m
<1>7. ~p.tag[c].using /\ ~p.tag[m].using /\ m \in DOMAIN p.tag
  BY DEF m
<1>8. BumpAt(q.size, q.tag, q.current)
  <2>1. CASE m = cur
    <3>1. cur[1] = Len(p.size) /\ cur[2] + p.tag[cur].count = p.size[cur[1]]
      BY <1>1, <1>3, <2>1 DEF BumpAt
    <3>2. c \in DOMAIN q.tag /\ ~q.tag[c].using /\ c[2] + q.tag[c].count = p.size[c[1]]
      BY <1>3, <1>4, <1>5, <1>7, <2>1, <3>1
    <3> QED BY <1>1, <1>3, <1>6, <2>1, <3>1, <3>2 DEF BumpAt
  <2>2. CASE m # cur /\ cur[2] = p.size[cur[1]]
    BY <1>1, <1>6, <2>2 DEF BumpAt
  <2>3. CASE m # cur /\ cur \in DOMAIN p.tag /\ ~p.tag[cur].using
             /\ cur[2] + p.tag[cur].count = p.size[cur[1]]
    <3>1. cur # c
      BY <1>3, <2>3
    <3>2. cur \in DOMAIN q.tag
      BY <1>5, <2>3
    <3> QED BY <1>1, <1>5, <1>6, <2>3, <3>1, <3>2 DEF BumpAt
  <2> QED BY <1>1, <2>1, <2>2, <2>3 DEF BumpAt
<1>9. SameUsed(p.tag, q.tag)
  <2>1. \A x \in Used(q.tag) : x \in Used(p.tag)
    BY <1>5 DEF Used
  <2>2. \A x \in Used(p.tag) : x \in Used(q.tag) /\ q.tag[x].count = p.tag[x].count
    BY <1>5, <1>7 DEF Used
  <2> QED BY <2>1, <2>2 DEF SameUsed
<1> QED BY <1>2, <1>8, <1>9 DEF Good

\* The run c is given up; its neighbours are not told.
Unmarks(p, q, c) ==
  /\ Good(q) /\ SameBlocks(p, q) /\ q.current = p.current
  /\ DOMAIN q.tag = DOMAIN p.tag
  /\ \A x \in DOMAIN p.tag :
       /\ q.tag[x].count = p.tag[x].count /\ q.tag[x].pre = p.tag[x].pre
       /\ q.tag[x].using = IF x = c THEN FALSE ELSE p.tag[x].using

\* The first thing mp_free does: the run is no longer in use.
LEMMA UnmarkFacts ==
  ASSUME NEW p, Good(p), NEW c \in Used(p.tag), NEW k \in Int
  PROVE  Unmarks(p, Use([p EXCEPT !.tag[c].using = FALSE], c[1], k), c)
<1> DEFINE q1 == [p EXCEPT !.tag[c].using = FALSE]
           q == Use(q1, c[1], k)
<1>1. IsPool(p) /\ Row(p.size, p.tag) /\ BumpAt(p.size, p.tag, p.current)
  BY DEF Good
<1>2. c \in DOMAIN p.tag /\ p.tag[c].using
  BY DEF Used
<1>3. c[1] \in DOMAIN p.size /\ c[1] \in 1 .. Len(p.size)
  <2>1. c[1] \in DOMAIN p.size
    BY <1>1, <1>2, Places
  <2> QED BY <1>1, <2>1 DEF IsPool
<1>4. Marks(p, q1, c, FALSE)
  BY <1>1, <1>2, UsingFields
<1> HIDE DEF q1
<1>5. /\ IsPool(q1) /\ SameBlocks(p, q1) /\ q1.current = p.current
      /\ DOMAIN q1.tag = DOMAIN p.tag
      /\ \A x \in DOMAIN p.tag :
           /\ q1.tag[x].count = p.tag[x].count /\ q1.tag[x].pre = p.tag[x].pre
           /\ q1.tag[x].using = IF x = c THEN FALSE ELSE p.tag[x].using
  BY <1>4 DEF Marks
<1>6. c[1] \in 1 .. Len(q1.size)
  BY <1>3, <1>5 DEF SameBlocks
<1>7. IsPool(q) /\ SameBlocks(q1, q) /\ q.tag = q1.tag /\ q.current = q1.current
  BY <1>5, <1>6, UseFields
<1> HIDE DEF q
<1>8. SameBlocks(p, q)
  BY <1>5, <1>7 DEF SameBlocks
<1>9. Row(q.size, q.tag)
  <2>1. \A x \in DOMAIN p.tag : /\ q.tag[x] \in TagRecord
                                /\ q.tag[x].count = p.tag[x].count /\ q.tag[x].pre = p.tag[x].pre
    BY <1>5, <1>7 DEF IsPool
  <2>2. q.size = p.size /\ DOMAIN q.tag = DOMAIN p.tag
    BY <1>5, <1>7, <1>8 DEF SameBlocks
  <2> QED BY <1>1, <2>1, <2>2, SameRow
<1>10. /\ DOMAIN q.tag = DOMAIN p.tag /\ q.current = p.current
       /\ \A x \in DOMAIN p.tag :
            /\ q.tag[x].count = p.tag[x].count /\ q.tag[x].pre = p.tag[x].pre
            /\ q.tag[x].using = IF x = c THEN FALSE ELSE p.tag[x].using
  BY ONLY <1>5, <1>7
<1>11. BumpAt(q.size, q.tag, q.current)
  <2>1. q.size = p.size
    BY <1>8 DEF SameBlocks
  <2>2. \A x \in DOMAIN p.tag :
           ~p.tag[x].using => ~q.tag[x].using /\ q.tag[x].count = p.tag[x].count
    BY ONLY <1>10
  <2> QED BY ONLY <1>1, <1>10, <2>1, <2>2 DEF BumpAt
<1>12. Good(q)
  BY <1>7, <1>9, <1>11 DEF Good
<1> QED BY <1>8, <1>10, <1>12 DEF Unmarks, q, q1

\* Where the run before c is.
LEMMA PlaceBefore ==
  ASSUME NEW size, NEW t, Row(size, t), NEW c \in DOMAIN t
  PROVE  LET pre == <<c[1], c[2] - t[c].pre>>
         IN  pre = c \/ (pre \in DOMAIN t /\ pre # c /\ After(t, pre) = c)
<1> DEFINE pre == <<c[1], c[2] - t[c].pre>>
<1>1. c = <<c[1], c[2]>> /\ c[1] \in Nat /\ c[2] \in Nat /\ t[c].pre \in Nat
  BY Places
<1>2. CASE c[2] = 0
  <2>1. t[c].pre = 0
    <3>1. size[c[1]] > 0 /\ c[1] \in DOMAIN size
      <4>1. c[2] + t[c].count <= size[c[1]] /\ t[c].count \in Nat \ {0} /\ size[c[1]] \in Nat
            /\ c[1] \in DOMAIN size
        BY Places
      <4> QED BY <1>2, <4>1
    <3>2. t[<<c[1], 0>>].pre = 0
      BY <3>1 DEF Row
    <3> QED BY <1>1, <1>2, <3>2
  <2> QED BY <1>1, <2>1
<1>3. CASE c[2] # 0
  <2>1. t[c].pre > 0 /\ pre \in DOMAIN t /\ t[pre].count = t[c].pre
    BY <1>3 DEF Row
  <2>2. After(t, pre) = c
    BY <1>1, <2>1 DEF After
  <2> QED BY <1>1, <2>1, <2>2
<1> QED BY <1>2, <1>3

\* mp_free joins c to the free run before it, pre.
JoinedTag(t, pre, c) ==
  [x \in DOMAIN t \ {c} |->
     IF x = pre THEN [t[pre] EXCEPT !.count = @ + t[c].count] ELSE t[x]]

\* c and the run behind it are one now; the counters are as they were.
Joined(p, q, c) ==
  /\ IsMerge(p.tag, q.tag, c) /\ q.using = p.using
  /\ \A x \in DOMAIN q.tag : q.tag[x].using = p.tag[x].using

\* The freed run joins the free run before it.
LEMMA JoinFacts ==
  ASSUME NEW p, Good(p), NEW pre \in DOMAIN p.tag, NEW c \in DOMAIN p.tag,
         c = After(p.tag, pre), ~p.tag[pre].using, ~p.tag[c].using, p.current # c
  PROVE  LET n == After(p.tag, c)
             q == SetPre([p EXCEPT !.tag = JoinedTag(p.tag, pre, c)], n, pre)
         IN  /\ Good(q) /\ SameBlocks(p, q) /\ SameUsed(p.tag, q.tag)
             /\ pre \in DOMAIN q.tag /\ ~q.tag[pre].using /\ After(q.tag, pre) = n
             /\ q.current = p.current /\ Joined(p, q, pre)
<1> DEFINE t == p.tag
           n == After(t, c)
           old == t[pre]
           new == [old EXCEPT !.count = @ + t[c].count]
           u == JoinedTag(t, pre, c)
           q1 == [p EXCEPT !.tag = u]
           q == SetPre(q1, n, pre)
<1>1. IsPool(p) /\ Row(p.size, t)
  BY DEF Good
<1>2. /\ c # pre /\ n # c /\ n[1] = c[1] /\ n[2] = c[2] + t[c].count
      /\ c[1] = pre[1] /\ c[2] = pre[2] + t[pre].count
      /\ t[c].count \in Nat \ {0} /\ t[pre].count \in Nat \ {0}
      /\ pre[1] \in Nat /\ pre[2] \in Nat
      /\ n = <<c[1], c[2] + t[c].count>>
      /\ n \in DOMAIN t <=> n[2] < p.size[n[1]]
      /\ old \in TagRecord
  BY <1>1, Places
<1>3. n # pre
  BY <1>2
<1>4. new \in TagRecord /\ new.count = t[pre].count + t[c].count
      /\ new.using = t[pre].using /\ new.pre = t[pre].pre
  <2>1. t[c].count \in Nat
    BY <1>2
  <2>2. /\ new \in TagRecord /\ new.count = old.count + t[c].count
        /\ new.using = old.using /\ new.pre = old.pre
    <3> HIDE DEF old, t
    <3> QED BY <1>2, <2>1, LongerTag
  <2> HIDE DEF new
  <2> QED BY <2>2
<1>5. u = [x \in DOMAIN t \ {c} |-> IF x = pre THEN new ELSE t[x]]
  BY DEF JoinedTag
<1>6. \A x \in DOMAIN t : t[x] \in TagRecord
  BY <1>1 DEF Row
<1> HIDE DEF t, n, new, old, u, q1, q
<1>7. u \in [DOMAIN u -> TagRecord] /\ DOMAIN u = DOMAIN t \ {c}
  <2>1. \A x \in DOMAIN t \ {c} : (IF x = pre THEN new ELSE t[x]) \in TagRecord
    BY ONLY <1>4, <1>6
  <2> QED BY ONLY <1>5, <2>1
<1>8. pre \in DOMAIN u /\ u[pre] = new /\ \A x \in DOMAIN u \ {pre} : u[x] = t[x]
  BY <1>2, <1>5, <1>7 DEF t
<1>9. /\ IsPool(q1) /\ q1.tag = u /\ SameBlocks(p, q1) /\ q1.current = p.current
      /\ q1.using = p.using
  BY <1>1, <1>7, TagFields DEF q1
<1>10. InBlock(q1, n) <=> n \in DOMAIN u
  <2>1. q1.size = p.size
    BY <1>9 DEF SameBlocks
  <2> QED BY <1>2, <1>7, <2>1 DEF InBlock
<1>11. /\ IsPool(q) /\ SameBlocks(q1, q) /\ q.current = q1.current /\ q.using = q1.using
       /\ DOMAIN q.tag = DOMAIN u
       /\ \A x \in DOMAIN u :
            /\ q.tag[x].count = u[x].count /\ q.tag[x].using = u[x].using
            /\ q.tag[x].pre = IF InBlock(q1, n) /\ x = n THEN u[pre].count ELSE u[x].pre
  BY <1>8, <1>9, <1>10, SetPreFields DEF q
<1>12. SameBlocks(p, q) /\ q.current = p.current
  BY <1>9, <1>11 DEF SameBlocks
<1>13. IsMerge(t, q.tag, pre)
  <2>1. c = After(t, pre) /\ n = After(t, c)
    BY DEF t, n
  <2>2. DOMAIN q.tag = DOMAIN t \ {c} /\ \A x \in DOMAIN q.tag : q.tag[x] \in TagRecord
    BY <1>7, <1>11 DEF IsPool
  <2>3. /\ q.tag[pre].count = t[pre].count + t[c].count
        /\ \A x \in DOMAIN q.tag \ {pre} : q.tag[x].count = t[x].count
    BY <1>4, <1>8, <1>11
  <2>4. ASSUME NEW x \in DOMAIN q.tag
        PROVE  q.tag[x].pre = IF x = n THEN q.tag[pre].count ELSE t[x].pre
    <3>1. u[x].pre = t[x].pre
      BY <1>4, <1>8, <1>11
    <3>2. q.tag[pre].count = u[pre].count
      BY <1>8, <1>11
    <3> QED BY <1>10, <1>11, <3>1, <3>2
  <2> QED BY <2>1, <2>2, <2>3, <2>4 DEF IsMerge
<1>14. \A x \in DOMAIN q.tag : q.tag[x].using = t[x].using
  BY <1>4, <1>8, <1>11
<1>15. Good(q) /\ SameUsed(t, q.tag)
  BY <1>11, <1>12, <1>13, <1>14, MergeKeeps DEF t
<1>16. pre \in DOMAIN q.tag /\ ~q.tag[pre].using /\ q.tag[pre].count = t[pre].count + t[c].count
  BY <1>4, <1>8, <1>11, <1>14 DEF t
<1>17. After(q.tag, pre) = n
  BY <1>2, <1>16 DEF After
<1>18. Joined(p, q, pre)
  BY <1>9, <1>11, <1>13, <1>14 DEF Joined, t
<1> QED BY <1>12, <1>15, <1>16, <1>17, <1>18 DEF q, q1, u, n, t

\* A free run joins the free run behind it (combine_next).
LEMMA JoinNextFacts ==
  ASSUME NEW p, Good(p), NEW c \in DOMAIN p.tag, ~p.tag[c].using,
         After(p.tag, c) \in DOMAIN p.tag, ~p.tag[After(p.tag, c)].using
  PROVE  LET q == CombineNext(p, c, After(p.tag, c))
         IN  Good(q) /\ SameBlocks(p, q) /\ SameUsed(p.tag, q.tag) /\ Joined(p, q, c)
<1> DEFINE n == After(p.tag, c)
           q == CombineNext(p, c, n)
<1>1. IsPool(p) /\ Row(p.size, p.tag) /\ BumpAt(p.size, p.tag, p.current)
  BY DEF Good
<1>2. n[2] < p.size[n[1]] /\ p.size[n[1]] \in Nat
  BY <1>1, Places
<1>3. n = p.current => n[2] + p.tag[n].count = p.size[n[1]]
  BY <1>1, <1>2 DEF BumpAt
<1>4. Agree(p.tag, p.tag, n)
  BY DEF Agree
<1>5. /\ IsPool(q) /\ SameBlocks(p, q) /\ q.using = p.using
      /\ q.current = IF n = p.current THEN c ELSE p.current
      /\ IsMerge(p.tag, q.tag, c)
      /\ \A x \in DOMAIN q.tag : q.tag[x].using = p.tag[x].using
  BY <1>1, <1>3, <1>4, CombineFacts
<1> HIDE DEF q
<1>6. Good(q) /\ SameUsed(p.tag, q.tag)
  BY <1>5, MergeKeeps
<1> QED BY <1>5, <1>6 DEF q, Joined

\* c is no longer held, and that is all the others see.
Frees(p, q, c) ==
  /\ Good(q) /\ SameBlocks(p, q)
  /\ Used(q.tag) = Used(p.tag) \ {c}
  /\ \A x \in Used(p.tag) \ {c} : q.tag[x].count = p.tag[x].count

\* mp_free takes the run from those in use, touches no other, and leaves
\* the pool in order, whatever its neighbours are.
LEMMA FreeFacts ==
  ASSUME NEW p, Good(p), NEW c \in Used(p.tag)
  PROVE  Frees(p, MpFree(p, c), c)
<1> DEFINE n == After(p.tag, c)
           pre == <<c[1], c[2] - p.tag[c].pre>>
           q == Use([p EXCEPT !.tag[c].using = FALSE], c[1], - p.tag[c].count)
           back == pre # c /\ ~p.tag[pre].using
           j == SetPre([q EXCEPT !.tag = JoinedTag(q.tag, pre, c)], n, pre)
           x == IF back THEN pre ELSE c
           r == IF back THEN j ELSE q
           f == IF InBlock(p, n) /\ ~r.tag[n].using THEN CombineNext(r, x, n) ELSE r
<1>1. /\ IsPool(p) /\ Row(p.size, p.tag) /\ BumpAt(p.size, p.tag, p.current)
      /\ c \in DOMAIN p.tag /\ p.tag[c].using
  BY DEF Good, Used
<1>2. /\ p.tag[c].count \in Nat \ {0}
      /\ n \in DOMAIN p.tag <=> InBlock(p, n)
      /\ n # c
  BY <1>1, Places DEF InBlock
<1>3. Unmarks(p, q, c)
  BY <1>2, UnmarkFacts
<1>4. p.current # c
  <2>1. c[2] < p.size[c[1]]
    <3>1. c[2] + p.tag[c].count <= p.size[c[1]] /\ c[2] \in Nat /\ p.size[c[1]] \in Nat
      BY <1>1, Places
    <3> QED BY <1>2, <3>1
  <2>2. c[2] # p.size[c[1]]
    <3>1. c[2] \in Nat
      BY <1>1, Places
    <3> QED BY <2>1, <3>1
  <2> QED BY <1>1, <2>2 DEF BumpAt
<1>5. pre = c \/ (pre \in DOMAIN p.tag /\ pre # c /\ After(p.tag, pre) = c)
  BY <1>1, PlaceBefore
<1>6. MpFree(p, c) = f
  <2>1. q.tag[c].count = p.tag[c].count /\ Heads(q) = DOMAIN q.tag
    BY <1>1, <1>3 DEF Unmarks, Heads
  <2>2. JoinedTag(q.tag, pre, c) = [y \in Heads(q) \ {c} |->
                   IF y = pre THEN [q.tag[pre] EXCEPT !.count = @ + p.tag[c].count]
                   ELSE q.tag[y]]
    <3> HIDE DEF q, pre
    <3> QED BY <2>1 DEF JoinedTag
  <2> QED BY <2>2 DEF MpFree
<1> HIDE DEF n, pre, q, j, f
<1>7. /\ Good(q) /\ SameBlocks(p, q) /\ q.current = p.current
      /\ DOMAIN q.tag = DOMAIN p.tag
      /\ \A y \in DOMAIN p.tag :
           /\ q.tag[y].count = p.tag[y].count /\ q.tag[y].pre = p.tag[y].pre
           /\ q.tag[y].using = IF y = c THEN FALSE ELSE p.tag[y].using
  BY <1>3 DEF Unmarks
<1>8. /\ Used(q.tag) = Used(p.tag) \ {c}
      /\ \A y \in Used(p.tag) \ {c} : q.tag[y].count = p.tag[y].count
  BY <1>7 DEF Used
<1>9. n = After(q.tag, c)
  BY <1>1, <1>7 DEF n, After
<1>10. /\ Good(r) /\ SameBlocks(q, r) /\ SameUsed(q.tag, r.tag)
       /\ x \in DOMAIN r.tag /\ ~r.tag[x].using /\ After(r.tag, x) = n
  <2>1. CASE back
    <3>1. pre \in DOMAIN q.tag /\ c \in DOMAIN q.tag
      BY <1>1, <1>5, <1>7, <2>1
    <3>2. c = After(q.tag, pre)
      BY <1>5, <1>7, <2>1 DEF After
    <3>3. ~q.tag[pre].using /\ ~q.tag[c].using /\ q.current # c
      BY <1>1, <1>4, <1>5, <1>7, <2>1
    <3>4. /\ Good(j) /\ SameBlocks(q, j) /\ SameUsed(q.tag, j.tag)
          /\ pre \in DOMAIN j.tag /\ ~j.tag[pre].using /\ After(j.tag, pre) = n
      BY <1>7, <1>9, <3>1, <3>2, <3>3, JoinFacts DEF j
    <3> QED BY <2>1, <3>4
  <2>2. CASE ~back
    BY <1>1, <1>7, <1>9, <2>2 DEF SameBlocks, SameUsed
  <2> QED BY <2>1, <2>2
<1> HIDE DEF r, x
<1>11. Good(f) /\ SameBlocks(r, f) /\ SameUsed(r.tag, f.tag)
  <2>1. CASE InBlock(p, n) /\ ~r.tag[n].using
    <3>1. n[2] < r.size[n[1]]
      BY <1>7, <1>10, <2>1 DEF InBlock, SameBlocks
    <3>2. n \in DOMAIN r.tag
      <4>1. x \in DOMAIN r.tag /\ Row(r.size, r.tag)
        BY <1>10 DEF Good
      <4>2. /\ After(r.tag, x)[1] = x[1]
            /\ After(r.tag, x) \in DOMAIN r.tag <=> After(r.tag, x)[2] < r.size[x[1]]
        BY <4>1, Places
      <4> QED BY <1>10, <3>1, <4>2
    <3> QED BY <1>10, <2>1, <3>2, JoinNextFacts DEF f
  <2>2. CASE ~(InBlock(p, n) /\ ~r.tag[n].using)
    BY <1>10, <2>2 DEF f, SameBlocks, SameUsed
  <2> QED BY <2>1, <2>2
<1>12. Used(f.tag) = Used(p.tag) \ {c}
  BY <1>8, <1>10, <1>11 DEF SameUsed
<1>13. \A y \in Used(p.tag) \ {c} : f.tag[y].count = p.tag[y].count
  BY <1>8, <1>10, <1>11 DEF SameUsed
<1>14. SameBlocks(p, f)
  BY <1>7, <1>10, <1>11 DEF SameBlocks
<1> QED BY <1>6, <1>11, <1>12, <1>13, <1>14 DEF Frees

\* u is t with c and the run behind it made one, and the tags v stand for it.
GrownTo(size, t, u, v, c) ==
  /\ IsMerge(t, u, c) /\ Row(size, u) /\ StandsFor(u, v, c)
  /\ \A x \in DOMAIN u : u[x].using = t[x].using

\* Before it is cut again, c with the run behind it is a run of the row.
LEMMA GrownRow ==
  ASSUME NEW size, NEW t, Row(size, t), NEW c \in DOMAIN t, After(t, c) \in DOMAIN t
  PROVE  \E u : GrownTo(size, t, u, [x \in DOMAIN t \ {After(t, c)} |-> t[x]], c)
<1> DEFINE m == After(t, c)
           next == After(t, m)
           total == t[c].count + t[m].count
           old == t[c]
           new == [old EXCEPT !.count = total]
           v == [x \in DOMAIN t \ {m} |-> t[x]]
           u == [x \in DOMAIN t \ {m} |->
                   IF x = c THEN new
                   ELSE IF x = next THEN [v[x] EXCEPT !.pre = total]
                   ELSE t[x]]
<1>1. /\ m # c /\ next # m /\ next # c /\ c[2] \in Nat /\ c[1] \in Nat
      /\ t[c].count \in Nat \ {0} /\ t[m].count \in Nat \ {0} /\ old \in TagRecord
      /\ m = <<c[1], c[2] + t[c].count>> /\ next = <<m[1], m[2] + t[m].count>>
  <2>1. /\ m # c /\ t[c].count \in Nat \ {0} /\ old \in TagRecord /\ c[2] \in Nat
        /\ c = <<c[1], c[2]>> /\ c[1] \in Nat
        /\ m = <<c[1], c[2] + t[c].count>> /\ m[1] = c[1] /\ m[2] = c[2] + t[c].count
    BY Places
  <2>2. /\ next # m /\ t[m].count \in Nat \ {0} /\ next = <<m[1], m[2] + t[m].count>>
    BY Places
  <2> HIDE DEF m, next, old
  <2>3. next # c
    BY ONLY <2>1, <2>2
  <2> QED BY ONLY <2>1, <2>2, <2>3
<1>2. total \in Nat \ {0}
  BY <1>1
<1>3. \A x \in DOMAIN t : t[x] \in TagRecord
  BY DEF Row
<1> HIDE DEF m, next, total, new, u
<1>4. new \in TagRecord /\ new.count = total /\ new.pre = t[c].pre /\ new.using = t[c].using
  <2> HIDE DEF old
  <2>1. new \in TagRecord /\ new.count = total /\ new.pre = old.pre /\ new.using = old.using
    BY <1>1, <1>2, NewCount DEF new
  <2> QED BY <2>1 DEF old
<1>5. DOMAIN u = DOMAIN t \ {m}
  BY DEF u
<1>6. ASSUME NEW x \in DOMAIN u
      PROVE  /\ u[x] \in TagRecord /\ u[x].using = t[x].using
             /\ u[x].count = IF x = c THEN total ELSE t[x].count
             /\ u[x].pre = IF x = next THEN total ELSE t[x].pre
  <2>1. CASE x = c
    <3>1. u[x] = new
      BY <1>5, <2>1 DEF u
    <3> QED BY <1>1, <1>4, <2>1, <3>1
  <2>2. CASE x = next
    <3> DEFINE was == t[x]
               told == [was EXCEPT !.pre = total]
    <3>1. u[x] = told
      BY <1>1, <1>5, <2>2 DEF u
    <3>2. was \in TagRecord
      BY <1>3, <1>5
    <3> HIDE DEF was
    <3>3. told \in TagRecord /\ told.count = was.count /\ told.using = was.using /\ told.pre = total
      BY <1>2, <3>2, NewPre
    <3> HIDE DEF told
    <3> QED BY <1>1, <2>2, <3>1, <3>3 DEF was
  <2>3. CASE x # c /\ x # next
    <3>1. u[x] = t[x]
      BY <1>5, <2>3 DEF u
    <3> QED BY <1>3, <1>5, <2>3, <3>1
  <2> QED BY <2>1, <2>2, <2>3
<1>7. IsMerge(t, u, c)
  <2>1. c \in DOMAIN u
    BY <1>1, <1>5
  <2>2. u[c].count = total
    BY <1>6, <2>1
  <2>3. \A x \in DOMAIN u : u[x].pre = IF x = next THEN u[c].count ELSE t[x].pre
    BY <1>6, <2>2
  <2> QED BY <1>5, <1>6, <2>2, <2>3 DEF IsMerge, m, next, total
<1>8. Row(size, u)
  BY <1>7, MergeRow DEF m
<1>9. After(u, c) = next
  <2>1. u[c].count = total
    BY <1>1, <1>5, <1>6
  <2>2. c[2] + total = c[2] + t[c].count + t[m].count
    BY <1>1 DEF total
  <2> QED BY <1>1, <2>1, <2>2 DEF After
<1>10. StandsFor(u, v, c)
  BY <1>5, <1>6, <1>9 DEF StandsFor
<1>11. \A x \in DOMAIN u : u[x].using = t[x].using
  BY <1>6
<1>12. GrownTo(size, t, u, v, c)
  BY <1>7, <1>8, <1>10, <1>11 DEF GrownTo
<1> QED BY <1>12 DEF m

\* The run c has n chunks now.
Resizes(p, q, c, n) ==
  /\ Good(q) /\ SameBlocks(p, q)
  /\ c \in Used(q.tag) /\ q.tag[c].count = n
  /\ Others(p.tag, q.tag, c)

\* mp_realloc in place: the run grows into the free run behind it, which
\* may be the bump run.
LEMMA GrowFacts ==
  ASSUME NEW p, Good(p), NEW c \in Used(p.tag), NEW n \in Nat, n > p.tag[c].count,
         CanGrow(p, c, n)
  PROVE  Resizes(p, Grow(p, c, n), c, n)
<1> DEFINE next == After(p.tag, c)
           total == p.tag[c].count + p.tag[next].count
           v == [x \in DOMAIN p.tag \ {next} |-> p.tag[x]]
           q == [p EXCEPT !.tag = v]
           k == Cut(q, c, total, n)
           r == Use(k, c[1], n - p.tag[c].count)
           f == IF next = p.current THEN [r EXCEPT !.current = <<c[1], c[2] + total>>] ELSE r
<1>1. /\ IsPool(p) /\ Row(p.size, p.tag) /\ BumpAt(p.size, p.tag, p.current)
      /\ c \in DOMAIN p.tag /\ p.tag[c].using
  BY DEF Good, Used
<1>2. /\ p.tag[c].count \in Nat \ {0} /\ c[1] \in Nat \ {0} /\ c[2] \in Nat /\ next # c
      /\ next[1] = c[1] /\ next[2] = c[2] + p.tag[c].count
      /\ next \in DOMAIN p.tag <=> next[2] < p.size[c[1]]
      /\ c[1] \in DOMAIN p.size /\ p.size[c[1]] \in Nat
  BY <1>1, Places
<1>3. next \in DOMAIN p.tag /\ ~p.tag[next].using /\ n <= total
  <2>1. next \in DOMAIN p.tag /\ ~p.tag[next].using /\ total >= n
    BY <1>2 DEF CanGrow, InBlock
  <2>2. p.tag[next].count \in Nat
    BY <1>1, <2>1, Places
  <2> QED BY <1>2, <2>1, <2>2
<1>4. p.tag[next].count \in Nat \ {0} /\ total \in Nat
  BY <1>1, <1>2, <1>3, Places
<1>5. PICK t : GrownTo(p.size, p.tag, t, v, c)
  BY <1>1, <1>3, GrownRow
<1>6. Grow(p, c, n) = f
  BY DEF Grow, Heads
<1>7. v \in [DOMAIN v -> TagRecord]
  <2>1. \A x \in DOMAIN p.tag : p.tag[x] \in TagRecord
    BY <1>1 DEF Row
  <2> QED BY <2>1
<1> HIDE DEF next, total, v, q, k, r, f
<1>a. /\ IsMerge(p.tag, t, c) /\ Row(p.size, t) /\ StandsFor(t, v, c)
      /\ \A x \in DOMAIN t : t[x].using = p.tag[x].using
  BY <1>5 DEF GrownTo
<1>8. /\ DOMAIN t = DOMAIN p.tag \ {next}
      /\ t[c].count = total
      /\ \A x \in DOMAIN t \ {c} : t[x].count = p.tag[x].count
      /\ \A x \in DOMAIN t : t[x].using = p.tag[x].using
      /\ c \in DOMAIN t
  BY <1>1, <1>2, <1>a DEF IsMerge, next, total
<1>9. IsPool(q) /\ q.tag = v /\ SameBlocks(p, q) /\ q.current = p.current
  BY <1>1, <1>7, TagFields DEF q
<1>10. q.size = p.size
  BY <1>9 DEF SameBlocks
<1>11. p.current # c
  <2>1. c[2] # p.size[c[1]]
    BY <1>2, <1>3
  <2> QED BY <1>1, <2>1 DEF BumpAt
<1>12. Others(p.tag, t, c)
  <2>1. \A x \in Used(t) : x \in Used(p.tag)
    BY <1>8 DEF Used
  <2>2. \A x \in Used(p.tag) : x \in Used(t)
    BY <1>3, <1>8 DEF Used
  <2>3. \A x \in Used(p.tag) \ {c} : t[x].count = p.tag[x].count
    BY <1>8, <2>2 DEF Used
  <2> QED BY <2>1, <2>2, <2>3 DEF Others
<1>13. 0 < n /\ n <= t[c].count
  BY <1>2, <1>3, <1>8
<1>14. After(t, c) = <<c[1], c[2] + total>>
  BY <1>8 DEF After
<1>15. CASE next = p.current
  <2>1. c[2] + total = p.size[c[1]] /\ c[1] = Len(p.size)
    <3>1. next[1] = Len(p.size) /\ next[2] # p.size[next[1]]
      BY <1>1, <1>2, <1>3, <1>15 DEF BumpAt
    <3>2. next[2] + p.tag[next].count = p.size[next[1]]
      BY <1>1, <1>15, <3>1 DEF BumpAt
    <3> QED BY <1>2, <1>4, <3>1, <3>2 DEF total
  <2>2. After(t, c) \notin DOMAIN t
    <3>1. After(t, c)[2] = p.size[c[1]]
      BY <1>14, <2>1
    <3>2. After(t, c) \in DOMAIN t <=> After(t, c)[2] < p.size[c[1]]
      BY <1>a, <1>8, Places
    <3> QED BY <1>2, <3>1, <3>2
  <2>3. CutsTo(q, k, t, c, n)
    <3>1. Row(q.size, t) /\ StandsFor(t, q.tag, c)
      BY <1>a, <1>9, <1>10
    <3> QED BY <1>8, <1>9, <1>13, <2>2, <3>1, CutFacts DEF k
  <2>4. IsPool(k) /\ SameBlocks(q, k) /\ Row(p.size, k.tag) /\ Resized(t, k.tag, c, n)
    BY <1>a, <1>8, <1>10, <2>3, CutResizes DEF CutsTo
  <2>5. IsPool(r) /\ SameBlocks(k, r) /\ r.tag = k.tag
    <3>1. c[1] \in 1 .. Len(k.size) /\ n - p.tag[c].count \in Int
      BY <1>1, <1>2, <1>10, <2>4 DEF IsPool, SameBlocks
    <3> QED BY <2>4, <3>1, UseFields DEF r
  <2>6. IsPool(f) /\ f.current = <<c[1], c[2] + total>> /\ SameBlocks(r, f) /\ f.tag = r.tag
    <3>1. <<c[1], c[2] + total>> \in Place
      BY <1>2, <1>4 DEF Place
    <3> QED BY <1>15, <2>5, <3>1, CurrentFields DEF f
  <2>7. SameBlocks(p, f) /\ f.size = p.size
    BY <1>9, <2>4, <2>5, <2>6 DEF SameBlocks
  <2>8. Good(f)
    BY <2>1, <2>4, <2>5, <2>6, <2>7 DEF Good, BumpAt
  <2>9. c \in Used(f.tag) /\ f.tag[c].count = n
    BY <1>1, <1>8, <2>4, <2>5, <2>6 DEF Used, Resized
  <2>10. Others(p.tag, f.tag, c)
    BY <1>12, <2>4, <2>5, <2>6 DEF Others, Resized
  <2> QED BY <1>6, <2>7, <2>8, <2>9, <2>10 DEF Resizes
<1>16. CASE next # p.current
  <2>1. BumpAt(q.size, t, q.current)
    BY <1>1, <1>8, <1>9, <1>10, <1>11, <1>16 DEF BumpAt
  <2>2. Good(k) /\ SameBlocks(q, k) /\ Resized(t, k.tag, c, n)
    <3>1. Row(q.size, t) /\ StandsFor(t, q.tag, c) /\ q.current # c
      BY <1>a, <1>9, <1>10, <1>11
    <3> QED BY <1>8, <1>9, <1>13, <2>1, <3>1, CutKeeps DEF k
  <2>3. IsPool(r) /\ SameBlocks(k, r) /\ r.tag = k.tag /\ r.current = k.current
    <3>1. c[1] \in 1 .. Len(k.size) /\ n - p.tag[c].count \in Int
      BY <1>1, <1>2, <1>10, <2>2 DEF IsPool, SameBlocks
    <3> QED BY <2>2, <3>1, UseFields DEF r, Good
  <2>4. Good(r)
    BY <2>2, <2>3 DEF Good, SameBlocks
  <2>5. SameBlocks(p, r)
    BY <1>9, <2>2, <2>3 DEF SameBlocks
  <2>6. c \in Used(r.tag) /\ r.tag[c].count = n
    BY <1>1, <1>8, <2>2, <2>3 DEF Used, Resized
  <2>7. Others(p.tag, r.tag, c)
    BY <1>12, <2>2, <2>3 DEF Others, Resized
  <2> QED BY <1>6, <1>16, <2>4, <2>5, <2>6, <2>7 DEF Resizes, f
<1> QED BY <1>15, <1>16

\* What mp_realloc of c comes back with.
ReallocGives(p, r, c, n, m) ==
  /\ Good(r.pool)
  /\ IF r.at = Null THEN SameUsed(p.tag, r.pool.tag)
     ELSE /\ r.at \in Used(r.pool.tag) /\ r.pool.tag[r.at].count = n
          /\ r.at = c \/ r.at \notin Used(p.tag)
          /\ Used(r.pool.tag) \ {r.at} = Used(p.tag) \ {c}
          /\ \A x \in Used(p.tag) \ {c} : r.pool.tag[x].count = p.tag[x].count
  /\ IF m = "ok" THEN Last(r.pool) \in {Last(p), Last(p) + 1} ELSE Last(r.pool) = Last(p)

\* In place.
LEMMA GivesResized ==
  ASSUME NEW p, Good(p), NEW q, NEW c \in Used(p.tag), NEW n, Resizes(p, q, c, n), NEW m
  PROVE  ReallocGives(p, Result(q, c), c, n, m)
<1>1. c # Null
  BY PlaceNotNull DEF Used, Good, Row
<1>2. Last(q) = Last(p) /\ Good(q)
  BY DEF Resizes, SameBlocks, Last
<1>3. /\ c \in Used(q.tag) /\ q.tag[c].count = n
      /\ Used(q.tag) \ {c} = Used(p.tag) \ {c}
      /\ \A x \in Used(p.tag) \ {c} : q.tag[x].count = p.tag[x].count
  BY DEF Resizes, Others
<1> QED BY <1>1, <1>2, <1>3 DEF ReallocGives, Result

\* mp_realloc in place: the run gives back what it no longer needs.
LEMMA ShrinkFacts ==
  ASSUME NEW p, Good(p), NEW c \in Used(p.tag), NEW n \in Nat \ {0}, n < p.tag[c].count
  PROVE  Resizes(p, Use(Cut(p, c, p.tag[c].count, n), c[1], n - p.tag[c].count), c, n)
<1> DEFINE k == Cut(p, c, p.tag[c].count, n)
           r == Use(k, c[1], n - p.tag[c].count)
<1>1. /\ IsPool(p) /\ Row(p.size, p.tag) /\ BumpAt(p.size, p.tag, p.current)
      /\ c \in DOMAIN p.tag /\ p.tag[c].using
  BY DEF Good, Used
<1>2. /\ p.tag[c].count \in Nat \ {0} /\ c[2] \in Nat /\ c[2] + p.tag[c].count <= p.size[c[1]]
      /\ c[1] \in DOMAIN p.size /\ p.size[c[1]] \in Nat
  BY <1>1, Places
<1>3. p.current # c
  <2>1. c[2] # p.size[c[1]]
    BY <1>2
  <2> QED BY <1>1, <2>1 DEF BumpAt
<1>4. StandsFor(p.tag, p.tag, c)
  BY DEF StandsFor
<1>5. Good(k) /\ SameBlocks(p, k) /\ Resized(p.tag, k.tag, c, n)
  <2>1. 0 < n /\ n <= p.tag[c].count /\ n \in Nat
    BY <1>2
  <2> QED BY <1>1, <1>3, <1>4, <2>1, CutKeeps
<1> HIDE DEF k, r
<1>6. IsPool(r) /\ SameBlocks(k, r) /\ r.tag = k.tag /\ r.current = k.current
  <2>1. c[1] \in 1 .. Len(k.size) /\ n - p.tag[c].count \in Int
    BY <1>1, <1>2, <1>5 DEF IsPool, SameBlocks
  <2> QED BY <1>5, <2>1, UseFields DEF r, Good
<1>7. Good(r) /\ SameBlocks(p, r)
  BY <1>5, <1>6 DEF Good, SameBlocks
<1>8. c \in Used(r.tag) /\ r.tag[c].count = n /\ Others(p.tag, r.tag, c)
  BY <1>1, <1>5, <1>6 DEF Used, Resized
<1> QED BY <1>7, <1>8 DEF Resizes, r, k

\* mp_realloc, by each of its paths.
LEMMA ReallocFacts ==
  ASSUME NEW p, Good(p), NEW c \in Used(p.tag), NEW n \in Nat \ {0},
         NEW m \in {"ok", "none", "torn"}
  PROVE  ReallocGives(p, MpRealloc(p, c, n, m), c, n, m)
<1> DEFINE r == MpAlloc(p, n, m)
           count == p.tag[c].count
<1>1. count \in Nat \ {0} /\ c \in Place
  BY Places DEF Used, Good
<1>2. CASE n = count
  <2>1. MpRealloc(p, c, n, m) = Result(p, c)
    BY <1>2 DEF MpRealloc
  <2>2. Resizes(p, p, c, n)
    BY <1>2 DEF Resizes, SameBlocks, Others
  <2> QED BY <2>1, <2>2, GivesResized
<1>3. CASE n < count
  <2>1. MpRealloc(p, c, n, m) = Result(Use(Cut(p, c, count, n), c[1], n - count), c)
    BY <1>1, <1>3 DEF MpRealloc
  <2> QED BY <1>3, <2>1, ShrinkFacts, GivesResized
<1>4. CASE n > count /\ CanGrow(p, c, n)
  <2>1. MpRealloc(p, c, n, m) = Result(Grow(p, c, n), c)
    BY <1>1, <1>4 DEF MpRealloc
  <2> QED BY <1>4, <2>1, GrowFacts, GivesResized
<1>5. CASE n > count /\ ~CanGrow(p, c, n)
  <2>1. MpRealloc(p, c, n, m) = IF r.at = Null THEN r ELSE Result(MpFree(r.pool, c), r.at)
    BY <1>1, <1>5 DEF MpRealloc
  <2>2. AllocGives(p, r, n, m)
    BY AllocFacts
  <2> HIDE DEF r
  <2>3. CASE r.at = Null
    BY <2>1, <2>2, <2>3 DEF AllocGives, ReallocGives
  <2>4. CASE r.at # Null
    <3> DEFINE q == MpFree(r.pool, c)
    <3>1. Good(r.pool) /\ Granted(p.tag, r, n)
      BY <2>2, <2>4 DEF AllocGives
    <3>2. c \in Used(r.pool.tag) /\ r.at # c
      BY <3>1 DEF Granted, Others
    <3>3. Frees(r.pool, q, c)
      BY <3>1, <3>2, FreeFacts
    <3> HIDE DEF q
    <3>4. Good(q) /\ Last(q) = Last(r.pool)
      BY <3>3 DEF Frees, SameBlocks, Last
    <3>5. /\ r.at \in Used(q.tag) /\ q.tag[r.at].count = n
          /\ r.at \notin Used(p.tag)
          /\ Used(q.tag) \ {r.at} = Used(p.tag) \ {c}
      BY <3>1, <3>2, <3>3 DEF Frees, Granted, Others
    <3>6. \A x \in Used(p.tag) \ {c} : q.tag[x].count = p.tag[x].count
      BY <3>1, <3>2, <3>3 DEF Frees, Granted, Others
    <3>7. MpRealloc(p, c, n, m) = Result(q, r.at)
      BY <2>1, <2>4 DEF q
    <3> QED BY <2>2, <2>4, <3>4, <3>5, <3>6, <3>7 DEF AllocGives, ReallocGives, Result
  <2> QED BY <2>3, <2>4
<1> QED BY <1>1, <1>2, <1>3, <1>4, <1>5

-----------------------------------------------------------------------------
(* need_chunk_count, for the sizes 16 bits can count.                      *)

\* Multiplication keeps the order.
LEMMA Times ==
  ASSUME NEW a \in Int, NEW b \in Int, NEW c \in Nat, a <= b
  PROVE  a * c <= b * c
<1>1. (b - a) * c >= 0
  OBVIOUS
<1>2. b * c = a * c + (b - a) * c
  OBVIOUS
<1> QED BY <1>1, <1>2

\* Division rounds down.
LEMMA Divided ==
  ASSUME NEW d \in Nat, NEW c \in Nat \ {0}
  PROVE  /\ d \div c \in Nat /\ (d \div c) * c <= d /\ d < (d \div c) * c + c
OBVIOUS

\* n chunks have room for the bytes and the flag.
Holds(n, bytes) == n * ChunkBytes - FlagBytes >= bytes
\* The bytes fit in as many chunks as 16 bits count.
Representable(bytes) == bytes + FlagBytes <= (CountMod - 1) * ChunkBytes


\* The least number of chunks that has room.
LEMMA NeedFacts ==
  ASSUME NEW bytes \in Nat \ {0}, Representable(bytes)
  PROVE  /\ NeedChunkCount(bytes) \in 1 .. (CountMod - 1)
         /\ Holds(NeedChunkCount(bytes), bytes)
         /\ \A k \in Nat \ {0} : Holds(k, bytes) => NeedChunkCount(bytes) <= k
<1> DEFINE cb == ChunkBytes
           d == bytes - (cb - FlagBytes)
           q == d \div cb
           n == q + 1
<1>1. /\ cb \in Nat \ {0} /\ FlagBytes \in Nat \ {0} /\ CountMod \in Nat /\ CountMod - 1 \in Nat
      /\ CountMod > 1 /\ FlagBytes < cb
  BY MemPoolAssumption
<1>2. d \in Int /\ d = bytes + FlagBytes - cb
  BY <1>1
<1>3. CASE bytes <= cb - FlagBytes
  <2>1. NeedChunkCount(bytes) = 1
    BY <1>3 DEF NeedChunkCount
  <2>2. Holds(1, bytes)
    BY <1>1, <1>3 DEF Holds
  <2> QED BY <1>1, <2>1, <2>2
<1>4. CASE bytes > cb - FlagBytes
  <2>1. d \in Nat \ {0}
    BY <1>1, <1>2, <1>4
  <2>2. q \in Nat /\ q * cb <= d /\ d < q * cb + cb
    BY <1>1, <2>1, Divided
  <2>3. d <= (CountMod - 1) * cb - cb
    BY <1>1, <1>2 DEF Representable
  <2>4. (CountMod - 1) * cb - cb = (CountMod - 2) * cb
    BY <1>1
  <2>d. NeedChunkCount(bytes) = IF Wrap(n) > 0 /\ Wrap(n) * cb - FlagBytes < bytes
                                THEN Wrap(Wrap(n) + 1) ELSE Wrap(n)
    BY <1>1, <1>4 DEF NeedChunkCount
  <2> HIDE DEF q, d, cb
  <2>5. q <= CountMod - 2
    <3> SUFFICES ASSUME q >= CountMod - 1 PROVE FALSE
      BY <1>1, <2>2
    <3>1. (CountMod - 1) * cb <= q * cb
      BY <1>1, <2>2, Times
    <3>2. (CountMod - 1) * cb \in Int /\ q * cb \in Int
      BY <1>1, <2>2
    <3> QED BY <1>1, <2>1, <2>2, <2>3, <3>1, <3>2
  <2>6. Wrap(n) = n /\ n \in Nat \ {0}
    BY <1>1, <2>2, <2>5 DEF Wrap
  <2>7. n * cb = q * cb + cb /\ q * cb \in Nat
    BY <1>1, <2>2
  <2>8. CASE d = q * cb
    <3>1. NeedChunkCount(bytes) = n
      BY <1>1, <1>2, <2>d, <2>6, <2>7, <2>8
    <3>2. Holds(n, bytes)
      BY <1>1, <1>2, <2>7, <2>8 DEF Holds, cb
    <3>3. ASSUME NEW k \in Nat \ {0}, Holds(k, bytes) PROVE n <= k
      <4>1. k * cb >= n * cb
        BY <1>1, <1>2, <2>7, <2>8, <3>3 DEF Holds, cb
      <4> SUFFICES ASSUME k <= q PROVE FALSE
        BY <2>2
      <4>2. k * cb <= q * cb /\ k * cb \in Int
        BY <1>1, <2>2, Times
      <4> QED BY <1>1, <2>7, <4>1, <4>2
    <3> QED BY <1>1, <2>2, <2>5, <3>1, <3>2, <3>3
  <2>9. CASE d > q * cb
    <3>1. q < CountMod - 2
      <4> SUFFICES ASSUME q = CountMod - 2 PROVE FALSE
        BY <1>1, <2>2, <2>5
      <4> QED BY <1>1, <2>1, <2>3, <2>4, <2>7, <2>9
    <3>2. Wrap(n + 1) = n + 1
      BY <1>1, <2>2, <3>1 DEF Wrap
    <3>3. NeedChunkCount(bytes) = n + 1
      BY <1>1, <1>2, <2>d, <2>6, <2>7, <2>9, <3>2
    <3>4. (n + 1) * cb = q * cb + cb + cb
      BY <1>1, <2>2
    <3>5. Holds(n + 1, bytes)
      BY <1>1, <1>2, <2>1, <2>2, <2>7, <3>4 DEF Holds, cb
    <3>6. ASSUME NEW k \in Nat \ {0}, Holds(k, bytes) PROVE n + 1 <= k
      <4>1. k * cb > n * cb
        BY <1>1, <1>2, <2>1, <2>7, <2>9, <3>6 DEF Holds, cb
      <4> SUFFICES ASSUME k <= n PROVE FALSE
        BY <2>2, <2>6
      <4>2. k * cb <= n * cb /\ k * cb \in Int
        BY <1>1, <2>6, Times
      <4> QED BY <1>1, <2>7, <4>1, <4>2
    <3> QED BY <1>1, <2>2, <3>1, <3>3, <3>5, <3>6
  <2> QED BY <2>1, <2>2, <2>7, <2>8, <2>9
<1> QED BY <1>1, <1>3, <1>4

\* Any other size is cut down to a count that has no room for it
\* (mempool.c:456): the theorems that assume SizesFit need it.
THEOREM TooLargeIsCut ==
  ASSUME NEW bytes \in Nat \ {0}, ~Representable(bytes)
  PROVE  ~Holds(NeedChunkCount(bytes), bytes)
<1>1. /\ ChunkBytes \in Nat \ {0} /\ FlagBytes \in Nat \ {0} /\ CountMod \in Nat
      /\ CountMod - 1 \in Nat /\ CountMod > 1 /\ FlagBytes < ChunkBytes
  BY MemPoolAssumption
<1>2. bytes + FlagBytes > (CountMod - 1) * ChunkBytes /\ (CountMod - 1) * ChunkBytes \in Nat
  BY <1>1 DEF Representable
<1>3. bytes > ChunkBytes - FlagBytes
  <2>1. 1 * ChunkBytes <= (CountMod - 1) * ChunkBytes
    BY <1>1, Times
  <2> QED BY <1>1, <1>2, <2>1
<1>4. \E n \in Int : NeedChunkCount(bytes) = Wrap(n)
  <2> DEFINE n == (bytes - (ChunkBytes - FlagBytes)) \div ChunkBytes + 1
  <2>1. n \in Int
    BY <1>1, <1>3
  <2>2. NeedChunkCount(bytes) \in {Wrap(n), Wrap(Wrap(n) + 1)}
    BY <1>1, <1>3 DEF NeedChunkCount
  <2> HIDE DEF n
  <2>3. Wrap(n) \in Int
    BY <1>1, <2>1 DEF Wrap
  <2>4. Wrap(n) + 1 \in Int
    BY <2>3
  <2> QED BY <2>1, <2>2, <2>4
<1>5. NeedChunkCount(bytes) \in Nat /\ NeedChunkCount(bytes) <= CountMod - 1
  BY <1>1, <1>4 DEF Wrap
<1>6. NeedChunkCount(bytes) * ChunkBytes <= (CountMod - 1) * ChunkBytes
  BY <1>1, <1>5, Times
<1>7. NeedChunkCount(bytes) * ChunkBytes \in Nat
  BY <1>1, <1>5
<1> QED BY <1>1, <1>2, <1>6, <1>7 DEF Holds

\* With the widths of a 64-bit build (mempool.h:22, 30) that is every size up to
\* one and a half megabytes, and none above.
THEOREM SizesOfTheCode ==
  ASSUME CountMod = 65536, ChunkBytes = 24, FlagBytes = 8, NEW bytes \in Nat
  PROVE  Representable(bytes) <=> bytes <= 1572832
BY DEF Representable

-----------------------------------------------------------------------------
(* The inductive invariant.                                                *)

\* The sizes Lua asks for are within what 16 bits count.
SizesFit == \A bytes \in Sizes : Representable(bytes)

\* Where an allocation is, with the size asked for.
Allocation == [at : Place, size : Sizes]

LiveTypes ==
  /\ live \in [Slot -> {Null} \cup Allocation]
  /\ phase \in {"open", "closing", "closed"}
  /\ Len(pool.size) <= MaxBlocks

\* Every allocation is a run in use with the room that was asked for.
HasRoom ==
  \A s \in Slot : live[s] # Null =>
     live[s].at \in Used(pool.tag) /\ Holds(pool.tag[live[s].at].count, live[s].size)

Apart ==
  \A s, t \in Slot : live[s] # Null /\ live[t] # Null /\ s # t => live[s].at # live[t].at

NothingElse ==
  phase = "open" => \A c \in Used(pool.tag) : \E s \in Slot : live[s] # Null /\ live[s].at = c

IInv == Good(pool) /\ LiveTypes /\ HasRoom /\ Apart /\ NothingElse

\* What s held before.
OldRuns(s) == IF live[s] = Null THEN {} ELSE {live[s].at}

\* The runs of C gave way to the run at, of n chunks.
Moved(t, u, C, at, n) ==
  /\ at \in Used(u) /\ u[at].count = n
  /\ at \in C \/ at \notin Used(t)
  /\ Used(u) \ {at} = Used(t) \ C
  /\ \A x \in Used(t) \ C : u[x].count = t[x].count

\* A call of m_alloc for s that asked for the bytes came back with r.
Served(s, bytes, r) ==
  /\ Good(r.pool) /\ Len(r.pool.size) <= MaxBlocks
  /\ Settle(s, bytes, r) /\ phase' = phase
  /\ IF r.at = Null THEN SameUsed(pool.tag, r.pool.tag)
     ELSE \E n \in Nat : Holds(n, bytes) /\ Moved(pool.tag, r.pool.tag, OldRuns(s), r.at, n)

\* A call that is served preserves the invariant.
LEMMA ServedKeeps ==
  ASSUME IInv, NEW s \in Slot, NEW bytes \in Sizes, NEW r, Served(s, bytes, r)
  PROVE  IInv'
<1> DEFINE u == r.pool.tag
           old == OldRuns(s)
<1>1. /\ Good(r.pool) /\ Len(r.pool.size) <= MaxBlocks /\ pool' = r.pool /\ phase' = phase
      /\ live' = IF r.at = Null THEN live
                 ELSE [live EXCEPT ![s] = [at |-> r.at, size |-> bytes]]
  BY DEF Served, Settle
<1>2. CASE r.at = Null
  <2>1. SameUsed(pool.tag, u) /\ live' = live
    BY <1>1, <1>2 DEF Served
  <2> HIDE DEF u
  <2>2. HasRoom'
    <3>1. pool.tag' = u
      BY <1>1 DEF u
    <3> QED BY <2>1, <3>1 DEF IInv, HasRoom, SameUsed
  <2>3. NothingElse'
    BY <1>1, <2>1 DEF IInv, NothingElse, SameUsed, u
  <2> QED BY <1>1, <2>1, <2>2, <2>3 DEF IInv, LiveTypes, Apart
<1>3. CASE r.at # Null
  <2>1. PICK n \in Nat : Holds(n, bytes) /\ Moved(pool.tag, u, old, r.at, n)
    BY <1>3 DEF Served
  <2> DEFINE new == [at |-> r.at, size |-> bytes]
  <2>2. r.at \in Place /\ new \in Allocation /\ new # Null
    <3>1. r.at \in Place
      BY <1>1, <2>1 DEF Moved, Used, Good, Row
    <3>2. new \in Allocation
      BY <3>1 DEF Allocation
    <3>3. new \in [at : Nat \X Nat, size : Nat]
      BY <3>1, MemPoolAssumption DEF Place
    <3> QED BY <3>1, <3>2, <3>3, MemPoolAssumption
  <2>3. /\ live' \in [Slot -> {Null} \cup Allocation]
        /\ live'[s] = new /\ \A t \in Slot \ {s} : live'[t] = live[t]
    BY <1>1, <1>3, <2>2 DEF IInv, LiveTypes
  <2>4. new.at = r.at /\ new.size = bytes
    OBVIOUS
  <2>5. pool.tag' = u
    BY <1>1
  <2> HIDE DEF new, u, old
  <2>6. /\ r.at \in Used(u) /\ u[r.at].count = n
        /\ r.at \in old \/ r.at \notin Used(pool.tag)
        /\ Used(u) \ {r.at} = Used(pool.tag) \ old
        /\ \A x \in Used(pool.tag) \ old : u[x].count = pool.tag[x].count
    BY <2>1 DEF Moved
  <2>7. ASSUME NEW t \in Slot \ {s}, live[t] # Null
        PROVE  live[t].at \in Used(pool.tag) \ old /\ live[t].at # r.at
    <3>1. live[t].at \in Used(pool.tag)
      BY <2>7 DEF IInv, HasRoom
    <3>2. live[t].at \notin old
      BY <2>7 DEF IInv, Apart, old, OldRuns
    <3> QED BY <2>6, <3>1, <3>2
  <2>8. HasRoom'
    <3> SUFFICES ASSUME NEW t \in Slot, live'[t] # Null
                 PROVE  live'[t].at \in Used(u) /\ Holds(u[live'[t].at].count, live'[t].size)
      BY <2>5 DEF HasRoom, Holds, Used
    <3>1. CASE t = s
      BY <2>1, <2>3, <2>4, <2>6, <3>1
    <3>2. CASE t # s
      <4>1. live'[t] = live[t] /\ live[t] # Null
        BY <2>3, <3>2
      <4>2. live[t].at \in Used(u) /\ u[live[t].at].count = pool.tag[live[t].at].count
        BY <2>6, <2>7, <3>2, <4>1
      <4> QED BY <4>1, <4>2 DEF IInv, HasRoom
    <3> QED BY <3>1, <3>2
  <2>9. Apart'
    BY <2>3, <2>4, <2>7 DEF IInv, Apart
  <2>10. NothingElse'
    <3> SUFFICES ASSUME phase = "open", NEW c \in Used(u)
                 PROVE  \E t \in Slot : live'[t] # Null /\ live'[t].at = c
      BY <1>1, <2>5 DEF NothingElse, Used
    <3>1. CASE c = r.at
      BY <2>2, <2>3, <2>4, <3>1
    <3>2. CASE c # r.at
      <4>1. c \in Used(pool.tag) \ old
        BY <2>6, <3>2
      <4>2. PICK t \in Slot : live[t] # Null /\ live[t].at = c
        BY <4>1 DEF IInv, NothingElse
      <4>3. t # s
        BY <4>1, <4>2 DEF old, OldRuns
      <4> QED BY <2>3, <4>2, <4>3
    <3> QED BY <3>1, <3>2
  <2> QED BY <1>1, <2>3, <2>8, <2>9, <2>10 DEF IInv, LiveTypes
<1> QED BY <1>2, <1>3

\* The pool mp_new_pool makes is in order.
LEMMA InitInv == Init => IInv
<1> SUFFICES ASSUME Init PROVE IInv
  OBVIOUS
<1> DEFINE head == <<1, 0>>
           tag == Tag(InitChunks, 0, FALSE)
<1>1. InitChunks \in Nat \ {0} /\ 0 \in 0 .. (CountMod - 1) /\ MaxBlocks \in Nat \ {0}
  BY MemPoolAssumption
<1>2. /\ pool.size = <<InitChunks>> /\ pool.using = <<0>> /\ pool.tag = [c \in {head} |-> tag]
      /\ pool.current = head /\ pool.torn = FALSE
      /\ live = [s \in Slot |-> Null] /\ phase = "open"
  BY DEF Init
<1>3. pool = [size |-> pool.size, using |-> pool.using, tag |-> pool.tag,
              current |-> pool.current, torn |-> pool.torn]
  <2>1. pool = [size |-> <<InitChunks>>, using |-> <<0>>, tag |-> [c \in {head} |-> tag],
                current |-> head, torn |-> FALSE]
    BY DEF Init
  <2> HIDE DEF head, tag
  <2> QED BY ONLY <1>2, <2>1
<1>4. tag \in TagRecord /\ tag.count = InitChunks /\ tag.pre = 0 /\ ~tag.using
  BY <1>1 DEF Tag, TagRecord
<1>5. head \in Place /\ head[1] = 1 /\ head[2] = 0
  BY DEF Place
<1> HIDE DEF tag
<1>6. /\ pool.size \in Seq(0 .. InitChunks) /\ Len(pool.size) = 1 /\ pool.size[1] = InitChunks
      /\ DOMAIN pool.size = {1}
      /\ pool.using \in Seq(0 .. (CountMod - 1)) /\ Len(pool.using) = 1
  BY <1>1, <1>2
<1>7. /\ DOMAIN pool.tag = {head} /\ pool.tag[head] = tag
      /\ pool.tag \in [DOMAIN pool.tag -> TagRecord]
  BY <1>2, <1>4
<1>8. IsPool(pool)
  <2>1. pool.torn \in BOOLEAN
    BY <1>2
  <2> QED BY <1>2, <1>3, <1>5, <1>6, <1>7, <2>1 DEF IsPool
<1>9. Row(pool.size, pool.tag)
  BY <1>1, <1>4, <1>5, <1>6, <1>7 DEF Row
<1>10. BumpAt(pool.size, pool.tag, pool.current)
  <2>1. head[1] = 1 /\ head[2] + tag.count = pool.size[1]
    BY <1>1, <1>4, <1>5, <1>6
  <2> QED BY <1>2, <1>4, <1>6, <1>7, <2>1 DEF BumpAt
<1>11. Used(pool.tag) = {}
  BY <1>4, <1>7 DEF Used
<1>12. LiveTypes /\ HasRoom /\ Apart /\ NothingElse
  BY <1>1, <1>2, <1>6, <1>11 DEF LiveTypes, HasRoom, Apart, NothingElse
<1> QED BY <1>8, <1>9, <1>10, <1>12 DEF IInv, Good

\* NeedFacts, for the sizes Lua asks for.
LEMMA NeedOfSize ==
  ASSUME SizesFit, NEW bytes \in Sizes
  PROVE  /\ NeedChunkCount(bytes) \in Nat \ {0}
         /\ Holds(NeedChunkCount(bytes), bytes)
         /\ \A k \in Nat \ {0} : Holds(k, bytes) => NeedChunkCount(bytes) <= k
<1>1. bytes \in Nat \ {0} /\ Representable(bytes)
  BY MemPoolAssumption DEF SizesFit
<1>2. /\ NeedChunkCount(bytes) \in 1 .. (CountMod - 1)
      /\ Holds(NeedChunkCount(bytes), bytes)
      /\ \A k \in Nat \ {0} : Holds(k, bytes) => NeedChunkCount(bytes) <= k
  BY <1>1, NeedFacts
<1> QED BY <1>2, MemPoolAssumption

\* The number of blocks stays within what the platform supplies.
LEMMA BlocksFit ==
  ASSUME IInv, NEW m \in Memory, NEW q, Good(q),
         IF m = "ok" THEN Last(q) \in {Last(pool), Last(pool) + 1} ELSE Last(q) = Last(pool)
  PROVE  Len(q.size) <= MaxBlocks
<1>1. Len(pool.size) \in Nat /\ Len(pool.size) <= MaxBlocks /\ MaxBlocks \in Nat
  BY MemPoolAssumption DEF IInv, LiveTypes, Good, IsPool
<1>2. m = "ok" => Len(pool.size) < MaxBlocks
  BY DEF Memory
<1> QED BY <1>1, <1>2 DEF Last

\* m_alloc of nothing is served by mp_alloc.
LEMMA AllocServed ==
  ASSUME SizesFit, IInv, NEW s \in Slot, NEW bytes \in Sizes, Alloc(s, bytes)
  PROVE  \E r : Served(s, bytes, r)
<1> DEFINE n == NeedChunkCount(bytes)
<1>1. PICK m \in Memory : Settle(s, bytes, MpAlloc(pool, n, m))
  BY DEF Alloc
<1> DEFINE r == MpAlloc(pool, n, m)
<1>2. n \in Nat \ {0} /\ Holds(n, bytes)
  BY NeedOfSize
<1>3. m \in {"ok", "none", "torn"} /\ Good(pool)
  BY DEF Memory, IInv
<1> HIDE DEF n
<1>4. AllocGives(pool, r, n, m)
  BY <1>2, <1>3, AllocFacts
<1> HIDE DEF r
<1>5. /\ Good(r.pool)
      /\ IF r.at = Null THEN SameUsed(pool.tag, r.pool.tag) ELSE Granted(pool.tag, r, n)
      /\ IF m = "ok" THEN Last(r.pool) \in {Last(pool), Last(pool) + 1}
         ELSE Last(r.pool) = Last(pool)
  BY <1>4 DEF AllocGives
<1>6. Len(r.pool.size) <= MaxBlocks
  BY <1>5, BlocksFit
<1>7. OldRuns(s) = {} /\ phase' = phase
  BY DEF Alloc, OldRuns
<1>8. r.at # Null => Moved(pool.tag, r.pool.tag, OldRuns(s), r.at, n)
  BY <1>5, <1>7 DEF Granted, Others, Moved
<1>9. IF r.at = Null THEN SameUsed(pool.tag, r.pool.tag)
      ELSE \E k \in Nat : Holds(k, bytes) /\ Moved(pool.tag, r.pool.tag, OldRuns(s), r.at, k)
  BY <1>2, <1>5, <1>8
<1>10. Settle(s, bytes, r)
  BY <1>1 DEF r
<1> QED BY <1>5, <1>6, <1>7, <1>9, <1>10 DEF Served

\* m_alloc of an allocation is served by mp_realloc, or by the block itself
\* while the VM closes.
LEMMA ReallocServed ==
  ASSUME SizesFit, IInv, NEW s \in Slot, NEW bytes \in Sizes, Realloc(s, bytes)
  PROVE  \E r : Served(s, bytes, r)
<1> DEFINE n == NeedChunkCount(bytes)
           c == live[s].at
<1>1. /\ Good(pool) /\ live[s] # Null /\ phase' = phase /\ OldRuns(s) = {c}
      /\ c \in Used(pool.tag) /\ Holds(pool.tag[c].count, live[s].size)
      /\ live[s] \in Allocation
  BY DEF Realloc, IInv, HasRoom, OldRuns, LiveTypes
<1>2. c \in Place /\ c # Null /\ pool.tag[c].count \in Nat
  <2>1. c \in DOMAIN pool.tag /\ Row(pool.size, pool.tag)
    BY <1>1 DEF Used, Good
  <2> QED BY <2>1, Places, PlaceNotNull
<1> HIDE DEF c
<1>3. CASE KeepsPtr(s, bytes) /\ Settle(s, bytes, Result(pool, c))
  <2> DEFINE r == Result(pool, c)
  <2>1. r.pool = pool /\ r.at = c
    BY DEF Result
  <2> HIDE DEF r
  <2>2. Holds(pool.tag[c].count, bytes)
    <3>1. live[s].size >= bytes /\ live[s].size \in Int /\ bytes \in Int
      <4>1. live[s].size >= bytes
        BY <1>3 DEF KeepsPtr
      <4>2. live[s].size \in Sizes
        BY <1>1 DEF Allocation
      <4>3. \A x \in Sizes : x \in Int
        BY MemPoolAssumption
      <4> QED BY ONLY <4>1, <4>2, <4>3, bytes \in Sizes
    <3>2. pool.tag[c].count * ChunkBytes - FlagBytes \in Int
      BY <1>2, MemPoolAssumption
    <3> QED BY <1>1, <3>1, <3>2 DEF Holds
  <2>3. Moved(pool.tag, pool.tag, OldRuns(s), c, pool.tag[c].count)
    BY <1>1 DEF Moved
  <2>4. Len(pool.size) <= MaxBlocks
    BY DEF IInv, LiveTypes
  <2>5. Settle(s, bytes, r)
    BY <1>3 DEF r
  <2> QED BY <1>1, <1>2, <2>1, <2>2, <2>3, <2>4, <2>5 DEF Served
<1>4. ASSUME NEW m \in Memory, Settle(s, bytes, MpRealloc(pool, c, n, m))
      PROVE  \E r : Served(s, bytes, r)
  <2> DEFINE r == MpRealloc(pool, c, n, m)
  <2>1. n \in Nat \ {0} /\ Holds(n, bytes)
    BY NeedOfSize
  <2>2. m \in {"ok", "none", "torn"}
    BY DEF Memory
  <2> HIDE DEF n
  <2>3. ReallocGives(pool, r, c, n, m)
    BY <1>1, <2>1, <2>2, ReallocFacts
  <2>4. Settle(s, bytes, r)
    BY <1>4
  <2> HIDE DEF r
  <2>5. /\ Good(r.pool)
        /\ IF m = "ok" THEN Last(r.pool) \in {Last(pool), Last(pool) + 1}
           ELSE Last(r.pool) = Last(pool)
    BY <2>3 DEF ReallocGives
  <2>6. Len(r.pool.size) <= MaxBlocks
    BY <2>5, BlocksFit
  <2>7. IF r.at = Null THEN SameUsed(pool.tag, r.pool.tag)
        ELSE Moved(pool.tag, r.pool.tag, OldRuns(s), r.at, n)
    BY <1>1, <2>3 DEF ReallocGives, Moved
  <2>8. IF r.at = Null THEN SameUsed(pool.tag, r.pool.tag)
        ELSE \E k \in Nat : Holds(k, bytes) /\ Moved(pool.tag, r.pool.tag, OldRuns(s), r.at, k)
    BY <2>1, <2>7
  <2> QED BY <1>1, <2>4, <2>5, <2>6, <2>8 DEF Served
<1> QED BY <1>3, <1>4 DEF Realloc, c

\* m_alloc of zero bytes preserves the invariant.
LEMMA FreeKeeps ==
  ASSUME IInv, NEW s \in Slot, Free(s)
  PROVE  IInv'
<1> DEFINE c == live[s].at
<1>1. /\ live[s] # Null /\ phase # "closed" /\ phase' = phase
      /\ live' = [live EXCEPT ![s] = Null]
      /\ pool' = IF phase = "closing" THEN pool ELSE MpFree(pool, c)
  BY DEF Free
<1>2. Good(pool) /\ c \in Used(pool.tag) /\ live \in [Slot -> {Null} \cup Allocation]
  BY <1>1 DEF IInv, HasRoom, LiveTypes
<1>3. /\ live' \in [Slot -> {Null} \cup Allocation]
      /\ live'[s] = Null /\ \A t \in Slot \ {s} : live'[t] = live[t]
  BY <1>1, <1>2
<1>4. Apart'
  BY <1>3 DEF IInv, Apart
<1> HIDE DEF c
<1>5. CASE phase = "closing"
  <2>1. pool' = pool
    BY <1>1, <1>5
  <2>2. HasRoom'
    BY <1>3, <2>1 DEF IInv, HasRoom
  <2>3. NothingElse'
    BY <1>1, <1>5 DEF NothingElse
  <2> QED BY <1>1, <1>3, <1>4, <2>1, <2>2, <2>3 DEF IInv, LiveTypes
<1>6. CASE phase = "open"
  <2>1. Frees(pool, pool', c)
    BY <1>1, <1>2, <1>6, FreeFacts
  <2>2. /\ Good(pool') /\ pool'.size = pool.size
        /\ Used(pool'.tag) = Used(pool.tag) \ {c}
        /\ \A x \in Used(pool.tag) \ {c} : pool'.tag[x].count = pool.tag[x].count
    BY <2>1 DEF Frees, SameBlocks
  <2>3. \A t \in Slot \ {s} : live[t] # Null => live[t].at \in Used(pool.tag) \ {c}
    BY <1>1 DEF IInv, HasRoom, Apart, c
  <2>4. HasRoom'
    <3> SUFFICES ASSUME NEW t \in Slot, live'[t] # Null
                 PROVE  /\ live'[t].at \in Used(pool'.tag)
                        /\ Holds(pool'.tag[live'[t].at].count, live'[t].size)
      BY DEF HasRoom, Holds, Used
    <3>1. t # s /\ live'[t] = live[t] /\ live[t].at \in Used(pool.tag) \ {c}
      BY <1>3, <2>3
    <3> QED BY <2>2, <3>1 DEF IInv, HasRoom
  <2>5. NothingElse'
    <3> SUFFICES ASSUME NEW d \in Used(pool'.tag)
                 PROVE  \E t \in Slot : live'[t] # Null /\ live'[t].at = d
      BY DEF NothingElse, Used
    <3>1. d \in Used(pool.tag) /\ d # c
      BY <2>2
    <3>2. PICK t \in Slot : live[t] # Null /\ live[t].at = d
      BY <1>6, <3>1 DEF IInv, NothingElse
    <3>3. t # s
      BY <3>1, <3>2 DEF c
    <3> QED BY <1>3, <3>2, <3>3
  <2>6. LiveTypes'
    BY <1>1, <1>3, <2>2 DEF IInv, LiveTypes
  <2> QED BY <1>4, <2>2, <2>4, <2>5, <2>6 DEF IInv
<1> QED BY <1>1, <1>5, <1>6 DEF IInv, LiveTypes

\* Every step preserves the invariant.
LEMMA NextInv == SizesFit /\ IInv /\ [Next]_vars => IInv'
<1> SUFFICES ASSUME SizesFit, IInv, [Next]_vars PROVE IInv'
  OBVIOUS
<1>1. ASSUME NEW s \in Slot, NEW bytes \in Sizes, Alloc(s, bytes) PROVE IInv'
  BY <1>1, AllocServed, ServedKeeps
<1>2. ASSUME NEW s \in Slot, NEW bytes \in Sizes, Realloc(s, bytes) PROVE IInv'
  BY <1>2, ReallocServed, ServedKeeps
<1>3. ASSUME NEW s \in Slot, Free(s) PROVE IInv'
  BY <1>3, FreeKeeps
<1>4. CASE Close
  BY <1>4 DEF Close, IInv, LiveTypes, HasRoom, Apart, NothingElse
<1>5. CASE FreePool
  BY <1>5 DEF FreePool, IInv, LiveTypes, HasRoom, Apart, NothingElse
<1>6. CASE UNCHANGED vars
  BY <1>6 DEF vars, IInv, LiveTypes, HasRoom, Apart, NothingElse
<1> QED BY <1>1, <1>2, <1>3, <1>4, <1>5, <1>6 DEF Next

\* The pool is in order and every allocation is a run of its own, after
\* any sequence of calls of m_alloc and any failure of the platform.
THEOREM Invariant == SizesFit /\ Spec => []IInv
<1>1. SizesFit => (Init => IInv)
  BY InitInv
<1>2. SizesFit /\ IInv /\ [Next]_vars => IInv'
  BY NextInv
<1> SUFFICES ASSUME SizesFit PROVE Spec => []IInv
  OBVIOUS
<1>3. IInv /\ [Next]_vars => IInv'
  BY NextInv
<1> QED BY <1>3, InitInv, PTL DEF Spec

-----------------------------------------------------------------------------
(* What the invariant implies.                                             *)

\* The invariant gives each of the properties.
LEMMA InvTypeOK == IInv => TypeOK
<1> SUFFICES ASSUME IInv PROVE TypeOK
  OBVIOUS
<1>1. /\ IsPool(pool) /\ Row(pool.size, pool.tag) /\ BumpAt(pool.size, pool.tag, pool.current)
      /\ Len(pool.size) <= MaxBlocks
  BY DEF IInv, Good, LiveTypes
<1>2. /\ pool.size \in Seq(0 .. InitChunks) /\ Len(pool.size) >= 1
      /\ Len(pool.size) \in Nat /\ DOMAIN pool.size = 1 .. Len(pool.size)
      /\ pool.using \in Seq(0 .. (CountMod - 1)) /\ Len(pool.using) = Len(pool.size)
      /\ pool.torn \in BOOLEAN
      /\ pool.current \in Place
  BY <1>1 DEF IsPool
<1>3. /\ MaxBlocks \in Nat /\ InitChunks \in Nat
      /\ \A b \in 1 .. Len(pool.size) : b \in 1 .. MaxBlocks /\ pool.size[b] \in 0 .. InitChunks
  BY <1>1, <1>2, MemPoolAssumption
<1>4. ASSUME NEW c \in DOMAIN pool.tag
      PROVE  /\ c \in (1 .. MaxBlocks) \X (0 .. InitChunks)
             /\ pool.tag[c] \in [count : 0 .. InitChunks, pre : 0 .. InitChunks, using : BOOLEAN]
  <2>1. /\ c = <<c[1], c[2]>> /\ c[1] \in 1 .. Len(pool.size) /\ c[2] \in Nat
        /\ pool.tag[c].count \in Nat /\ pool.tag[c].pre \in Nat
        /\ c[2] + pool.tag[c].count <= pool.size[c[1]]
        /\ pool.tag[c] \in TagRecord
    BY <1>1, <1>2, Places
  <2>2. c[2] \in 0 .. InitChunks /\ pool.tag[c].count \in 0 .. InitChunks
    BY <1>3, <2>1
  <2>3. pool.tag[c].pre <= c[2]
    <3> DEFINE pre == <<c[1], c[2] - pool.tag[c].pre>>
    <3>1. pre = c \/ pre \in DOMAIN pool.tag
      BY <1>1, PlaceBefore
    <3>2. pre = c => pool.tag[c].pre = 0
      BY <2>1
    <3>3. pre \in DOMAIN pool.tag => c[2] - pool.tag[c].pre \in Nat
      BY <1>1 DEF Row, Place
    <3> QED BY <2>1, <3>1, <3>2, <3>3
  <2>4. c[1] \in 1 .. MaxBlocks
    BY <1>3, <2>1
  <2>5. c \in (1 .. MaxBlocks) \X (0 .. InitChunks)
    BY <2>1, <2>2, <2>4
  <2>6. pool.tag[c].pre \in 0 .. InitChunks
    BY <1>3, <2>1, <2>2, <2>3
  <2> QED BY <2>1, <2>2, <2>5, <2>6 DEF TagRecord
<1>5. pool.current \in (1 .. MaxBlocks) \X (0 .. InitChunks)
  <2>1. pool.current = <<pool.current[1], pool.current[2]>> /\ pool.current[1] = Len(pool.size)
    BY <1>1, <1>2 DEF BumpAt, Place
  <2>2. pool.current[1] \in 1 .. MaxBlocks
    BY <1>2, <1>3, <2>1
  <2>3. CASE pool.current[2] = pool.size[pool.current[1]]
    <3>1. pool.current[1] \in 1 .. Len(pool.size)
      BY <1>2, <2>1
    <3>2. pool.current[2] \in 0 .. InitChunks
      BY <1>3, <2>3, <3>1
    <3> QED BY <2>1, <2>2, <3>2
  <2>4. CASE pool.current \in DOMAIN pool.tag
    BY <1>4, <2>4
  <2> QED BY <1>1, <2>3, <2>4 DEF BumpAt
<1>6. ASSUME NEW s \in Slot, live[s] # Null
      PROVE  live[s] \in [at : (1 .. MaxBlocks) \X (0 .. InitChunks), size : Sizes]
  <2>1. live[s] \in Allocation /\ live[s].at \in DOMAIN pool.tag
    BY <1>6 DEF IInv, LiveTypes, HasRoom, Used
  <2>2. live[s].at \in (1 .. MaxBlocks) \X (0 .. InitChunks)
    BY <1>4, <2>1
  <2> QED BY <2>1, <2>2 DEF Allocation
<1>7. Heads(pool) \subseteq (1 .. MaxBlocks) \X (0 .. InitChunks)
  BY <1>4 DEF Heads
<1>8. Len(pool.size) \in 1 .. MaxBlocks
  BY <1>1, <1>2, <1>3
<1>9. phase \in {"open", "closing", "closed"}
  BY DEF IInv, LiveTypes
<1> QED BY <1>2, <1>4, <1>5, <1>6, <1>7, <1>8, <1>9 DEF TypeOK, Heads

\* A row is tiled.
LEMMA InvTiled == IInv => Tiled
<1> SUFFICES ASSUME IInv PROVE Tiled
  OBVIOUS
<1>1. Row(pool.size, pool.tag) /\ Blocks(pool) = DOMAIN pool.size
  BY DEF IInv, Good, IsPool, Blocks
<1>2. \A b \in Blocks(pool) :
        pool.size[b] > 0 => <<b, 0>> \in Heads(pool) /\ pool.tag[<<b, 0>>].pre = 0
  BY <1>1 DEF Row, Heads
<1>3. ASSUME NEW c \in Heads(pool)
      PROVE  LET n == After(pool.tag, c)
             IN  /\ c[1] \in Blocks(pool) /\ pool.tag[c].count > 0
                 /\ n = End(pool, c[1]) \/ (n \in Heads(pool) /\ pool.tag[n].pre = pool.tag[c].count)
                 /\ \A d \in Heads(pool) : d[1] = c[1] /\ c[2] < d[2] => n[2] <= d[2]
  <2> DEFINE n == After(pool.tag, c)
  <2>1. /\ c[1] \in DOMAIN pool.size /\ pool.tag[c].count \in Nat \ {0}
        /\ n = <<c[1], c[2] + pool.tag[c].count>> /\ n[2] = c[2] + pool.tag[c].count
        /\ n \in DOMAIN pool.tag => pool.tag[n].pre = pool.tag[c].count
        /\ n \notin DOMAIN pool.tag => c[2] + pool.tag[c].count = pool.size[c[1]]
    BY <1>1, Places DEF Heads
  <2> HIDE DEF n
  <2>2. n = End(pool, c[1]) \/ (n \in Heads(pool) /\ pool.tag[n].pre = pool.tag[c].count)
    BY <2>1 DEF End, Heads
  <2>3. \A d \in Heads(pool) : d[1] = c[1] /\ c[2] < d[2] => n[2] <= d[2]
    BY <1>1, <2>1 DEF Row, Heads
  <2> QED BY <1>1, <2>1, <2>2, <2>3 DEF n
<1> QED BY <1>2, <1>3 DEF Tiled

\* Good says where the bump pointer is.
LEMMA InvBumpIsFree == IInv => BumpIsFree
<1> SUFFICES ASSUME IInv PROVE BumpIsFree
  OBVIOUS
<1> DEFINE c == pool.current
<1>1. Row(pool.size, pool.tag) /\ BumpAt(pool.size, pool.tag, c) /\ c \in Place
  BY DEF IInv, Good, IsPool
<1>2. c = <<c[1], c[2]>>
  BY <1>1 DEF Place
<1>3. c[1] = Last(pool)
  BY <1>1 DEF BumpAt, Last
<1>4. c[2] = pool.size[c[1]] => c = End(pool, c[1])
  BY <1>2 DEF End
<1>5. c[2] + pool.tag[c].count = pool.size[c[1]] => After(pool.tag, c) = End(pool, c[1])
  BY DEF After, End
<1> QED BY <1>1, <1>3, <1>4, <1>5 DEF BumpIsFree, BumpAt, Heads

\* HasRoom, Apart and NothingElse.
LEMMA InvEachItsOwnRun == IInv => EachItsOwnRun
BY DEF IInv, HasRoom, Apart, NothingElse, EachItsOwnRun, Allocated, Used, Heads

\* The run of an allocation has the room for what was asked, so a smaller
\* request needs no more chunks than it has, and is served in place.
LEMMA InvShrinkingSucceeds == SizesFit /\ IInv => ShrinkingSucceeds
<1> SUFFICES ASSUME SizesFit, IInv, NEW s \in Allocated, NEW bytes \in Sizes,
                    bytes <= live[s].size
             PROVE  MpRealloc(pool, live[s].at, NeedChunkCount(bytes), "none").at # Null
  BY DEF ShrinkingSucceeds
<1> DEFINE n == NeedChunkCount(bytes)
           c == live[s].at
           count == pool.tag[c].count
<1>1. /\ c \in Used(pool.tag) /\ Holds(count, live[s].size) /\ live[s].size \in Sizes
      /\ s \in Slot
  BY DEF Allocated, IInv, HasRoom, LiveTypes, Allocation
<1>2. c # Null /\ count \in Nat \ {0}
  <2>1. c \in DOMAIN pool.tag /\ Row(pool.size, pool.tag)
    BY <1>1 DEF Used, IInv, Good
  <2> QED BY <2>1, Places, PlaceNotNull
<1>3. n \in Nat \ {0} /\ \A k \in Nat \ {0} : Holds(k, bytes) => n <= k
  BY NeedOfSize
<1> HIDE DEF n, c, count
<1>4. Holds(count, bytes)
  <2>1. \A x \in Sizes : x \in Int
    BY MemPoolAssumption
  <2>2. count * ChunkBytes - FlagBytes \in Int
    BY <1>2, MemPoolAssumption
  <2> QED BY <1>1, <2>1, <2>2 DEF Holds
<1>5. n <= count
  BY <1>2, <1>3, <1>4
<1>6. \/ MpRealloc(pool, c, n, "none") = Result(pool, c)
      \/ MpRealloc(pool, c, n, "none") = Result(Use(Cut(pool, c, count, n), c[1], n - count), c)
  BY <1>2, <1>3, <1>5 DEF MpRealloc, count
<1>7. MpRealloc(pool, c, n, "none").at = c
  BY <1>6 DEF Result
<1> QED BY <1>2, <1>7 DEF n, c

-----------------------------------------------------------------------------
(* The theorems.                                                           *)

\* Type correctness.
THEOREM TypeCorrect == SizesFit /\ Spec => []TypeOK
<1> SUFFICES ASSUME SizesFit PROVE Spec => []TypeOK
  OBVIOUS
<1>1. Spec => []IInv
  BY Invariant
<1> QED BY <1>1, InvTypeOK, PTL

\* Whatever is allocated, moved, grown, shrunk and freed, the runs of a block
\* tile it and know their neighbours (what mp_test checks).
THEOREM BlocksAreTiled == SizesFit /\ Spec => []Tiled
<1> SUFFICES ASSUME SizesFit PROVE Spec => []Tiled
  OBVIOUS
<1>1. Spec => []IInv
  BY Invariant
<1> QED BY <1>1, InvTiled, PTL

\* mp_alloc may write at the bump pointer without looking.
THEOREM BumpRunIsFree == SizesFit /\ Spec => []BumpIsFree
<1> SUFFICES ASSUME SizesFit PROVE Spec => []BumpIsFree
  OBVIOUS
<1>1. Spec => []IInv
  BY Invariant
<1> QED BY <1>1, InvBumpIsFree, PTL

\* An allocation is a run of its own, and nothing else is marked as used.
THEOREM OwnRuns == SizesFit /\ Spec => []EachItsOwnRun
<1> SUFFICES ASSUME SizesFit PROVE Spec => []EachItsOwnRun
  OBVIOUS
<1>1. Spec => []IInv
  BY Invariant
<1> QED BY <1>1, InvEachItsOwnRun, PTL

\* Shrinking never needs memory (lmem.c).
THEOREM ShrinkingNeverFails == SizesFit /\ Spec => []ShrinkingSucceeds
<1> SUFFICES ASSUME SizesFit PROVE Spec => []ShrinkingSucceeds
  OBVIOUS
<1>1. Spec => []IInv
  BY Invariant
<1>2. IInv => ShrinkingSucceeds
  BY InvShrinkingSucceeds
<1> QED BY <1>1, <1>2, PTL

-----------------------------------------------------------------------------
(* Refinement: the pool is an allocator.                                   *)

\* The chunks of the run of c with the tags t.
Cells(t, c) == {<<c[1], i>> : i \in c[2] .. (c[2] + t[c].count - 1)}

\* As many cells as the tag says.
LEMMA CellsCount ==
  ASSUME NEW c \in Place, NEW k \in Nat
  PROVE  LET S == {<<c[1], i>> : i \in c[2] .. (c[2] + k - 1)}
         IN  IsFiniteSet(S) /\ Cardinality(S) = k
<1> DEFINE I == c[2] .. (c[2] + k - 1)
           S == {<<c[1], i>> : i \in I}
           f == [i \in I |-> <<c[1], i>>]
<1>1. c[2] \in Nat
  BY DEF Place
<1>2. IsFiniteSet(I) /\ Cardinality(I) = k
  <2>1. c[2] \in Int /\ c[2] + k - 1 \in Int
    BY <1>1
  <2>2. /\ IsFiniteSet(I)
        /\ Cardinality(I) = IF c[2] > c[2] + k - 1 THEN 0 ELSE (c[2] + k - 1) - c[2] + 1
    BY <2>1, FS_Interval
  <2> QED BY <1>1, <2>2
<1>3. ExistsBijection(I, S)
  <2>1. f \in [I -> S]
    OBVIOUS
  <2>2. \A i, j \in I : f[i] = f[j] => i = j
    OBVIOUS
  <2>3. \A x \in S : \E i \in I : f[i] = x
    OBVIOUS
  <2>4. f \in Bijection(I, S)
    BY <2>1, <2>2, <2>3, Fun_IsBij
  <2> QED BY <2>4 DEF ExistsBijection
<1> QED BY <1>2, <1>3, FS_Bijection

\* Two runs have no chunk in common.
LEMMA CellsApart ==
  ASSUME NEW size, NEW t, Row(size, t), NEW c \in DOMAIN t, NEW d \in DOMAIN t, c # d
  PROVE  Cells(t, c) \cap Cells(t, d) = {}
<1>1. /\ c = <<c[1], c[2]>> /\ c[2] \in Nat /\ t[c].count \in Nat
      /\ d = <<d[1], d[2]>> /\ d[2] \in Nat /\ t[d].count \in Nat
  BY Places
<1>2. CASE c[1] # d[1]
  BY <1>2 DEF Cells
<1>3. CASE c[1] = d[1] /\ c[2] < d[2]
  <2>1. c[2] + t[c].count <= d[2]
    BY <1>3 DEF Row
  <2> QED BY <1>1, <2>1 DEF Cells
<1>4. CASE c[1] = d[1] /\ d[2] < c[2]
  <2>1. d[2] + t[d].count <= c[2]
    BY <1>4 DEF Row
  <2> QED BY <1>1, <2>1 DEF Cells
<1> QED BY <1>1, <1>2, <1>3, <1>4

\* A slot holds cells when it has an allocation.
LEMMA HoldingSlots == IInv => \A s \in Slot : HeldBy(s) # Null <=> live[s] # Null
<1> SUFFICES ASSUME IInv, NEW s \in Slot, live[s] # Null PROVE HeldBy(s) # Null
  BY DEF HeldBy
<1>1. live[s] \in Allocation /\ live[s].at \in DOMAIN pool.tag /\ Row(pool.size, pool.tag)
  BY DEF IInv, LiveTypes, HasRoom, Used, Good
<1>2. live[s].size \in Nat
  BY <1>1, MemPoolAssumption DEF Allocation
<1>3. CellsOf(live[s].at) \in SUBSET (Nat \X Nat)
  <2> DEFINE c == live[s].at
  <2>1. c[1] \in Nat /\ c[2] \in Nat /\ pool.tag[c].count \in Nat
    BY <1>1, Places
  <2> HIDE DEF c
  <2>2. \A i \in c[2] .. (c[2] + pool.tag[c].count - 1) : <<c[1], i>> \in Nat \X Nat
    BY <2>1
  <2> QED BY <2>2 DEF CellsOf, c
<1>4. HeldBy(s) \in [cells : SUBSET (Nat \X Nat), bytes : Nat]
  BY <1>2, <1>3 DEF HeldBy
<1> QED BY <1>4, MemPoolAssumption

\* A call that is served is a step of the allocator.
LEMMA ServedRefines ==
  ASSUME IInv, NEW s \in Slot, NEW bytes \in Sizes, NEW r, Served(s, bytes, r)
  PROVE  [Lua!Next]_([t \in Slot |-> HeldBy(t)])
<1> DEFINE u == r.pool.tag
           old == OldRuns(s)
           held == [t \in Slot |-> HeldBy(t)]
<1>1. /\ Good(r.pool) /\ pool' = r.pool
      /\ live' = IF r.at = Null THEN live
                 ELSE [live EXCEPT ![s] = [at |-> r.at, size |-> bytes]]
      /\ live \in [Slot -> {Null} \cup Allocation]
  BY DEF Served, Settle, IInv, LiveTypes
<1>2. IInv'
  BY ServedKeeps
<1>3. Row(pool.size, pool.tag) /\ Row(r.pool.size, u) /\ pool.tag' = u
  BY <1>1 DEF IInv, Good
<1>4. ASSUME NEW t \in Slot, live'[t] = live[t],
             live[t] # Null => u[live[t].at].count = pool.tag[live[t].at].count
      PROVE  HeldBy(t)' = HeldBy(t)
  BY <1>3, <1>4 DEF HeldBy, CellsOf
<1>5. CASE r.at = Null
  <2>1. SameUsed(pool.tag, u) /\ live' = live
    BY <1>1, <1>5 DEF Served
  <2>2. \A t \in Slot : HeldBy(t)' = HeldBy(t)
    <3> HIDE DEF u
    <3>1. \A t \in Slot : live[t] # Null => u[live[t].at].count = pool.tag[live[t].at].count
      BY <2>1 DEF IInv, HasRoom, SameUsed
    <3> QED BY <1>4, <2>1, <3>1
  <2>3. held' = held
    BY <2>2
  <2> QED BY <2>3
<1>6. CASE r.at # Null
  <2>1. PICK n \in Nat : Holds(n, bytes) /\ Moved(pool.tag, u, old, r.at, n)
    BY <1>6 DEF Served
  <2> DEFINE new == [at |-> r.at, size |-> bytes]
             c == r.at
  <2>2. c \in DOMAIN u /\ c \in Place
    BY <1>3, <2>1 DEF Moved, Used, Row
  <2>3. live' = [live EXCEPT ![s] = new]
    BY <1>1, <1>6
  <2>4. new.at = c /\ new.size = bytes /\ new # Null
    <3>1. new \in [at : Nat \X Nat, size : Nat]
      BY <2>2, MemPoolAssumption DEF Place
    <3> QED BY <3>1, MemPoolAssumption
  <2> HIDE DEF new, c, old, u
  <2>5. live'[s] = new /\ \A t \in Slot \ {s} : live'[t] = live[t]
    BY <1>1, <2>3
  <2>6. /\ c \in Used(u) /\ u[c].count = n
        /\ Used(u) \ {c} = Used(pool.tag) \ old
        /\ \A x \in Used(pool.tag) \ old : u[x].count = pool.tag[x].count
    BY <2>1 DEF Moved, c
  <2>7. ASSUME NEW t \in Slot \ {s}, live[t] # Null
        PROVE  /\ live[t].at \in Used(u) \ {c}
               /\ u[live[t].at].count = pool.tag[live[t].at].count
    <3>1. live[t].at \in Used(pool.tag)
      BY <2>7 DEF IInv, HasRoom
    <3>2. live[t].at \notin old
      BY <2>7 DEF IInv, Apart, old, OldRuns
    <3> QED BY <2>6, <3>1, <3>2
  <2>8. \A t \in Slot \ {s} : HeldBy(t)' = HeldBy(t)
    BY <1>4, <2>5, <2>7
  <2>9. HeldBy(s)' = [cells |-> Cells(u, c), bytes |-> bytes]
    BY <1>3, <2>4, <2>5 DEF HeldBy, CellsOf, Cells
  <2>10. RoomIn(Cells(u, c)) >= bytes
    <3>1. Cardinality(Cells(u, c)) = n
      BY <2>2, <2>6, CellsCount DEF Cells
    <3> QED BY <2>1, <3>1 DEF RoomIn, Holds
  <2>11. ASSUME NEW t \in Slot \ {s}, HeldBy(t) # Null
         PROVE  HeldBy(t).cells \cap Cells(u, c) = {}
    <3>1. live[t] # Null
      BY <2>11 DEF HeldBy
    <3> DEFINE d == live[t].at
    <3>2. d \in DOMAIN u /\ d # c /\ u[d].count = pool.tag[d].count
      BY <2>7, <3>1 DEF Used
    <3>3. HeldBy(t).cells = Cells(u, d)
      BY <3>1, <3>2 DEF HeldBy, CellsOf, Cells
    <3> HIDE DEF d
    <3>4. Cells(u, d) \cap Cells(u, c) = {}
      <4>1. Row(r.pool.size, u)
        BY <1>3
      <4> QED BY <2>2, <3>2, <4>1, CellsApart
    <3> QED BY <3>3, <3>4
  <2>12. HeldBy(s)' # Null
    <3>1. /\ c[1] \in Nat /\ c[2] \in Nat /\ u[c].count \in Nat /\ bytes \in Nat
      <4>1. Row(r.pool.size, u)
        BY <1>3
      <4> QED BY <2>2, <4>1, Places, MemPoolAssumption
    <3>2. \A i \in c[2] .. (c[2] + u[c].count - 1) : <<c[1], i>> \in Nat \X Nat
      BY <3>1
    <3>3. Cells(u, c) \in SUBSET (Nat \X Nat)
      BY <3>2 DEF Cells
    <3>4. [cells |-> Cells(u, c), bytes |-> bytes] \in [cells : SUBSET (Nat \X Nat), bytes : Nat]
      BY <3>1, <3>3
    <3> QED BY <2>9, <3>4, MemPoolAssumption
  <2>13. Lua!Allocate(s)
    <3>1. held'[s] = HeldBy(s)' /\ \A t \in Slot : held[t] = HeldBy(t) /\ held'[t] = HeldBy(t)'
      OBVIOUS
    <3>2. held'[s].cells = Cells(u, c) /\ held'[s].bytes = bytes
      BY <2>9, <3>1
    <3> HIDE DEF held
    <3>3. Lua!OthersKeep(s)
      BY <2>8, <3>1 DEF Lua!OthersKeep, held
    <3>4. Lua!Grants(s, held'[s].cells, held'[s].bytes)
      BY <2>10, <2>11, <3>1, <3>2 DEF Lua!Grants, Lua!Holding, held
    <3> QED BY <2>12, <3>1, <3>2, <3>3, <3>4 DEF Lua!Allocate, held
  <2> QED BY <2>13 DEF Lua!Next
<1> QED BY <1>5, <1>6

\* A block that Lua gives back is no longer its; while the VM closes too,
\* although the pool keeps the run.
LEMMA FreeRefines ==
  ASSUME IInv, NEW s \in Slot, Free(s)
  PROVE  [Lua!Next]_([t \in Slot |-> HeldBy(t)])
<1> DEFINE c == live[s].at
           held == [t \in Slot |-> HeldBy(t)]
<1>1. /\ live[s] # Null /\ phase # "closed" /\ live' = [live EXCEPT ![s] = Null]
      /\ pool' = IF phase = "closing" THEN pool ELSE MpFree(pool, c)
      /\ live \in [Slot -> {Null} \cup Allocation]
  BY DEF Free, IInv, LiveTypes
<1>2. live'[s] = Null /\ \A t \in Slot \ {s} : live'[t] = live[t]
  BY <1>1
<1>3. Good(pool) /\ c \in Used(pool.tag) /\ phase \in {"open", "closing"}
  BY <1>1 DEF IInv, HasRoom, LiveTypes
<1>4. \A t \in Slot \ {s} : live[t] # Null => live[t].at \in Used(pool.tag) \ {c}
  BY <1>1 DEF IInv, HasRoom, Apart
<1> HIDE DEF c
<1>5. \A x \in Used(pool.tag) \ {c} : pool'.tag[x].count = pool.tag[x].count
  <2>1. CASE phase = "closing"
    BY <1>1, <2>1
  <2>2. CASE phase = "open"
    <3>1. Frees(pool, pool', c)
      BY <1>1, <1>3, <2>2, FreeFacts
    <3> QED BY <3>1 DEF Frees
  <2> QED BY <1>3, <2>1, <2>2
<1>6. \A t \in Slot \ {s} : HeldBy(t)' = HeldBy(t)
  <2> SUFFICES ASSUME NEW t \in Slot \ {s} PROVE HeldBy(t)' = HeldBy(t)
    OBVIOUS
  <2>1. live'[t] = live[t]
    BY <1>2
  <2>2. live[t] # Null => pool'.tag[live[t].at].count = pool.tag[live[t].at].count
    BY <1>4, <1>5
  <2> QED BY <2>1, <2>2 DEF HeldBy, CellsOf
<1>7. HeldBy(s)' = Null /\ HeldBy(s) # Null
  BY <1>1, <1>2, HoldingSlots DEF HeldBy
<1>8. Lua!Release(s)
  <2>1. held'[s] = HeldBy(s)' /\ \A t \in Slot : held[t] = HeldBy(t) /\ held'[t] = HeldBy(t)'
    OBVIOUS
  <2> HIDE DEF held
  <2>2. Lua!OthersKeep(s)
    BY <1>6, <2>1 DEF Lua!OthersKeep, held
  <2> QED BY <1>7, <2>1, <2>2 DEF Lua!Release, Lua!Holding, held
<1> QED BY <1>8 DEF Lua!Next

\* At first nobody holds anything.
LEMMA InitRefines == Init => Lua!Init
BY DEF Init, Lua!Init, HeldBy

\* Every step is a step of the allocator or a stutter.
LEMMA StepRefines ==
  SizesFit /\ IInv /\ [Next]_vars => [Lua!Next]_([s \in Slot |-> HeldBy(s)])
<1> SUFFICES ASSUME SizesFit, IInv, [Next]_vars
             PROVE  [Lua!Next]_([s \in Slot |-> HeldBy(s)])
  OBVIOUS
<1>1. ASSUME NEW s \in Slot, NEW bytes \in Sizes, Alloc(s, bytes)
      PROVE  [Lua!Next]_([t \in Slot |-> HeldBy(t)])
  BY <1>1, AllocServed, ServedRefines
<1>2. ASSUME NEW s \in Slot, NEW bytes \in Sizes, Realloc(s, bytes)
      PROVE  [Lua!Next]_([t \in Slot |-> HeldBy(t)])
  BY <1>2, ReallocServed, ServedRefines
<1>3. ASSUME NEW s \in Slot, Free(s)
      PROVE  [Lua!Next]_([t \in Slot |-> HeldBy(t)])
  BY <1>3, FreeRefines
<1>4. ASSUME UNCHANGED <<pool, live>>
      PROVE  [Lua!Next]_([t \in Slot |-> HeldBy(t)])
  BY <1>4 DEF HeldBy, CellsOf
<1> QED BY <1>1, <1>2, <1>3, <1>4 DEF Next, Close, FreePool, vars

\* The pool, of any size, for any sizes it can count, is the allocator that
\* the Lua VM is written for: m_alloc moves, grows, shrinks and frees one
\* allocation and leaves the cells of the others alone.
THEOREM PoolImplementsAllocator == SizesFit /\ Spec => ImplementsAllocator
<1> SUFFICES ASSUME SizesFit PROVE Spec => ImplementsAllocator
  OBVIOUS
<1>1. Spec => []IInv
  BY Invariant
<1>2. IInv /\ [Next]_vars => [Lua!Next]_([s \in Slot |-> HeldBy(s)])
  BY StepRefines
<1> QED BY <1>1, <1>2, InitRefines, PTL DEF ImplementsAllocator, Lua!Spec, Spec
====
