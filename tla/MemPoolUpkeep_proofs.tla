------------------------ MODULE MemPoolUpkeep_proofs -------------------------
(***************************************************************************)
(* Proofs about the order the memory pool keeps its free memory in, for    *)
(* every number of slots, blocks and chunks: no two free runs stand next   *)
(* to each other (Tight), and using_count_arr is the number of chunks in   *)
(* use (Counted).  Both hold between calls only: inside mp_free two free   *)
(* runs do meet, and the counter changes before or after the tags.         *)
(*                                                                         *)
(* 1. Counting: of a change that touches one run in use, the counter needs *)
(*    only the difference of its length (CountedAfter).                    *)
(* 2. Tightness: cutting a run in use keeps it (ShortenedTight); joining   *)
(*    two runs moves the one place it may fail at to the joined run        *)
(*    (MergeTight).                                                        *)
(* 3. Each function keeps both; so does every step.                        *)
(***************************************************************************)
EXTENDS MemPool_proofs

\* The run x and the run behind it are not both free.
TightAt(t, x) == After(t, x) \in DOMAIN t => t[x].using \/ t[After(t, x)].using
Tight(t) == \A x \in DOMAIN t : TightAt(t, x)

\* The chunks of those runs of S that are in the block b.
CellsIn(t, S, b) == UNION {Cells(t, c) : c \in {x \in S : x[1] = b}}

Counted(p) ==
  \A b \in 1 .. Len(p.size) :
     p.using[b] = Cardinality(CellsIn(p.tag, Used(p.tag), b))

Neat(p) == Tight(p.tag) /\ Counted(p)

-----------------------------------------------------------------------------
(* Counting chunks.                                                        *)

\* The runs of a block have at most the chunks of the block.
LEMMA CellsInBlock ==
  ASSUME NEW size, NEW t, Row(size, t), NEW S \in SUBSET DOMAIN t,
         NEW b \in Nat \ {0}, b \in DOMAIN size
  PROVE  /\ IsFiniteSet(CellsIn(t, S, b))
         /\ Cardinality(CellsIn(t, S, b)) \in 0 .. size[b]
<1> DEFINE all == {<<b, i>> : i \in 0 .. (size[b] - 1)}
           c == <<b, 0>>
<1>1. size[b] \in Nat /\ c \in Place
  BY DEF Row, Place
<1>2. c[1] = b /\ c[2] = 0
  OBVIOUS
<1>3. IsFiniteSet(all) /\ Cardinality(all) = size[b]
  <2>1. all = {<<c[1], i>> : i \in c[2] .. (c[2] + size[b] - 1)}
    BY <1>1, <1>2
  <2> HIDE DEF all, c
  <2> QED BY <1>1, <2>1, CellsCount
<1>4. CellsIn(t, S, b) \subseteq all
  <2> SUFFICES ASSUME NEW x \in S, x[1] = b PROVE Cells(t, x) \subseteq all
    BY DEF CellsIn
  <2>1. /\ x[2] \in Nat /\ t[x].count \in Nat /\ x[2] + t[x].count <= size[b]
    BY Places
  <2> QED BY <1>1, <2>1 DEF Cells
<1> HIDE DEF all
<1>5. /\ IsFiniteSet(CellsIn(t, S, b))
      /\ Cardinality(CellsIn(t, S, b)) <= Cardinality(all)
  BY <1>3, <1>4, FS_Subset
<1>6. Cardinality(CellsIn(t, S, b)) \in Nat
  BY <1>5, FS_CardinalityType
<1> QED BY <1>1, <1>3, <1>5, <1>6

\* One run more is its chunks more.
LEMMA OneRunMore ==
  ASSUME NEW size, NEW t, Row(size, t), NEW S \in SUBSET DOMAIN t, NEW c \in S
  PROVE  Cardinality(CellsIn(t, S, c[1])) =
           Cardinality(CellsIn(t, S \ {c}, c[1])) + t[c].count
<1> DEFINE b == c[1]
           A == CellsIn(t, S \ {c}, b)
           B == Cells(t, c)
<1>1. c \in Place /\ t[c].count \in Nat /\ b \in Nat \ {0} /\ b \in DOMAIN size
  BY Places
<1>2. IsFiniteSet(B) /\ Cardinality(B) = t[c].count
  BY <1>1, CellsCount DEF Cells
<1>3. IsFiniteSet(A) /\ Cardinality(A) \in Nat
  BY <1>1, CellsInBlock
<1>4. CellsIn(t, S, b) = A \cup B
  BY DEF CellsIn
<1>5. A \cap B = {}
  <2> SUFFICES ASSUME NEW x \in S \ {c} PROVE Cells(t, x) \cap Cells(t, c) = {}
    BY DEF CellsIn
  <2> QED BY CellsApart
<1> HIDE DEF A, B
<1>6. Cardinality(A \cup B) = Cardinality(A) + Cardinality(B) - Cardinality(A \cap B)
  BY <1>2, <1>3, FS_Union
<1>7. Cardinality(A \cap B) = 0
  BY <1>5, FS_EmptySet
<1> QED BY <1>1, <1>2, <1>3, <1>4, <1>6, <1>7 DEF A

\* The chunks in use of the run c.
UsedBy(t, c) == IF c \in Used(t) THEN t[c].count ELSE 0

\* Of the chunks in use, some are in c.
LEMMA CountOfRun ==
  ASSUME NEW size, NEW t, Row(size, t), NEW c \in Place, c[1] \in DOMAIN size
  PROVE  /\ Cardinality(CellsIn(t, Used(t), c[1])) \in 0 .. size[c[1]]
         /\ Cardinality(CellsIn(t, Used(t) \ {c}, c[1])) \in Nat
         /\ UsedBy(t, c) \in Nat
         /\ Cardinality(CellsIn(t, Used(t), c[1])) =
              Cardinality(CellsIn(t, Used(t) \ {c}, c[1])) + UsedBy(t, c)
<1>1. Used(t) \in SUBSET DOMAIN t /\ c[1] \in Nat \ {0}
  BY DEF Used, Place
<1>2. /\ Cardinality(CellsIn(t, Used(t), c[1])) \in 0 .. size[c[1]]
      /\ Cardinality(CellsIn(t, Used(t) \ {c}, c[1])) \in 0 .. size[c[1]]
  BY <1>1, CellsInBlock
<1>3. size[c[1]] \in Nat
  BY DEF Row
<1>4. CASE c \in Used(t)
  <2>1. t[c].count \in Nat
    BY <1>1, <1>4, Places
  <2>2. Cardinality(CellsIn(t, Used(t), c[1])) =
          Cardinality(CellsIn(t, Used(t) \ {c}, c[1])) + t[c].count
    BY <1>1, <1>4, OneRunMore
  <2> QED BY <1>2, <1>3, <1>4, <2>1, <2>2 DEF UsedBy
<1>5. CASE c \notin Used(t)
  <2>1. Used(t) \ {c} = Used(t)
    BY <1>5
  <2> QED BY <1>2, <1>3, <1>5, <2>1 DEF UsedBy
<1> QED BY <1>4, <1>5

\* What a sequence consists of.
LEMMA ElementIn == \A S : \A s \in Seq(S) : \A i \in 1 .. Len(s) : s[i] \in S
OBVIOUS

\* n more chunks of the block b are in use.
Adds(using, b, n) == [using EXCEPT ![b] = Wrap(@ + n)]

\* The counter of a block follows the one run that changed.
LEMMA CountedAfter ==
  ASSUME NEW p, Good(p), Counted(p), NEW q, Good(q), SameBlocks(p, q),
         NEW c \in Place, c[1] \in 1 .. Len(p.size), NEW k \in Int,
         q.using = Adds(p.using, c[1], k),
         Others(p.tag, q.tag, c), UsedBy(q.tag, c) = UsedBy(p.tag, c) + k
  PROVE  Counted(q)
<1> DEFINE t == p.tag
           u == q.tag
<1>1. /\ IsPool(p) /\ Row(p.size, t) /\ Row(p.size, u) /\ q.size = p.size
      /\ DOMAIN p.size = 1 .. Len(p.size) /\ DOMAIN p.using = 1 .. Len(p.size)
  BY DEF Good, IsPool, SameBlocks
<1>2. Used(u) \ {c} = Used(t) \ {c} /\ \A x \in Used(t) \ {c} : u[x].count = t[x].count
  BY DEF Others
<1>3. \A b : CellsIn(u, Used(u) \ {c}, b) = CellsIn(t, Used(t) \ {c}, b)
  <2>1. \A x \in Used(t) \ {c} : Cells(u, x) = Cells(t, x)
    BY <1>2 DEF Cells
  <2> HIDE DEF t, u
  <2> QED BY <1>2, <2>1 DEF CellsIn
<1> SUFFICES ASSUME NEW b \in 1 .. Len(p.size)
             PROVE  q.using[b] = Cardinality(CellsIn(u, Used(u), b))
  BY <1>1 DEF Counted
<1>4. p.using[b] = Cardinality(CellsIn(t, Used(t), b))
  BY DEF Counted
<1> HIDE DEF t, u
<1>5. CASE b # c[1]
  <2>1. \A v : CellsIn(v, Used(v), b) = CellsIn(v, Used(v) \ {c}, b)
    BY <1>5 DEF CellsIn
  <2>2. q.using[b] = p.using[b]
    BY <1>1, <1>5 DEF Adds
  <2> QED BY <1>3, <1>4, <2>1, <2>2
<1>6. CASE b = c[1]
  <2>0. c[1] \in DOMAIN p.size
    BY <1>1
  <2>1. /\ Cardinality(CellsIn(u, Used(u), b)) \in 0 .. p.size[b]
        /\ UsedBy(u, c) \in Nat
        /\ Cardinality(CellsIn(u, Used(u), b)) =
             Cardinality(CellsIn(u, Used(u) \ {c}, b)) + UsedBy(u, c)
    <3>1. Row(p.size, u)
      BY <1>1 DEF u
    <3> QED BY ONLY <1>6, <2>0, <3>1, CountOfRun, c \in Place
  <2>2. /\ Cardinality(CellsIn(t, Used(t), b)) =
             Cardinality(CellsIn(t, Used(t) \ {c}, b)) + UsedBy(t, c)
        /\ Cardinality(CellsIn(t, Used(t) \ {c}, b)) \in Nat
        /\ UsedBy(t, c) \in Nat
    <3>1. Row(p.size, t)
      BY <1>1 DEF t
    <3> QED BY ONLY <1>6, <2>0, <3>1, CountOfRun, c \in Place
  <2>3. p.using[b] + k = Cardinality(CellsIn(u, Used(u), b))
    <3>1. UsedBy(u, c) = UsedBy(t, c) + k
      BY DEF t, u
    <3>2. CellsIn(u, Used(u) \ {c}, b) = CellsIn(t, Used(t) \ {c}, b)
      BY <1>3
    <3> QED BY <1>4, <2>1, <2>2, <3>1, <3>2
  <2>4. p.size[b] \in 0 .. InitChunks
    <3>1. p.size \in Seq(0 .. InitChunks)
      BY <1>1 DEF IsPool
    <3> QED BY ONLY <3>1, b \in 1 .. Len(p.size), ElementIn
  <2>5. p.using[b] + k \in 0 .. (CountMod - 1)
    BY <2>1, <2>3, <2>4, MemPoolAssumption
  <2>6. q.using[b] = Wrap(p.using[b] + k)
    BY <1>1, <1>6 DEF Adds
  <2> QED BY <2>3, <2>5, <2>6, WrapIdentity
<1> QED BY <1>5, <1>6

\* Use changes one counter, and no tag.
LEMMA UseCounts ==
  ASSUME NEW p, IsRecord(p), NEW b, NEW n
  PROVE  Use(p, b, n).using = Adds(p.using, b, n) /\ Use(p, b, n).tag = p.tag
<1>1. Use(p, b, n) = [p EXCEPT !.using = Adds(p.using, b, n)]
  BY DEF Use, Adds
<1> QED BY <1>1, UsingOnly

\* The fields of a pool.
LEMMA PoolRecord == \A p : IsPool(p) => IsRecord(p)
BY DEF IsPool, IsRecord

-----------------------------------------------------------------------------
(* No two free runs side by side.                                          *)

\* Of two tag functions with the same lengths, what is free in the second is
\* free in the first: tightness goes from the first to the second.
LEMMA MarkedTight ==
  ASSUME NEW t, NEW u, Tight(t), DOMAIN u = DOMAIN t,
         \A x \in DOMAIN t : u[x].count = t[x].count /\ (t[x].using => u[x].using)
  PROVE  Tight(u)
<1>1. \A x \in DOMAIN t : After(u, x) = After(t, x)
  BY DEF After
<1> QED BY <1>1 DEF Tight, TightAt

\* A run in use is cut: what is left over is joined to a free run behind it.
LEMMA ShortenedTight ==
  ASSUME NEW size, NEW t, Row(size, t), Tight(t), NEW c \in DOMAIN t, t[c].using,
         NEW n \in Nat \ {0}, n <= t[c].count, NEW u, Shortened(t, u, c, n)
  PROVE  Tight(u)
<1> DEFINE rest == Behind(c, n)
           next == After(t, c)
<1>1. /\ c = <<c[1], c[2]>> /\ c[1] \in Nat /\ c[2] \in Nat /\ t[c].count \in Nat
      /\ next = <<c[1], c[2] + t[c].count>> /\ next # c
      /\ size[c[1]] \in Nat /\ c[2] + t[c].count <= size[c[1]]
  BY Places
<1>2. rest = <<c[1], c[2] + n>> /\ rest[1] = c[1] /\ rest[2] = c[2] + n /\ rest # c
  BY <1>1 DEF Behind
<1> HIDE DEF rest, next
<1>3. /\ DOMAIN u = (DOMAIN t \ (IF Joins(t, c, n) THEN {next} ELSE {}))
                      \cup (IF n < t[c].count THEN {rest} ELSE {})
      /\ u[c].count = n
      /\ n < t[c].count =>
           /\ u[rest].count = t[c].count - n + (IF Joins(t, c, n) THEN t[next].count ELSE 0)
           /\ ~u[rest].using /\ rest \notin DOMAIN t
      /\ \A x \in DOMAIN u \cap DOMAIN t :
           u[x].using = t[x].using /\ (x # c => u[x].count = t[x].count)
  BY DEF Shortened, rest, next
<1>4. Joins(t, c, n) <=> n < t[c].count /\ next \in DOMAIN t /\ ~t[next].using
  BY DEF Joins, next
<1> SUFFICES ASSUME NEW x \in DOMAIN u, After(u, x) \in DOMAIN u
             PROVE  u[x].using \/ u[After(u, x)].using
  BY DEF Tight, TightAt
<1> DEFINE m == After(u, x)
<1>5. CASE x = c
  BY <1>3, <1>5
<1>6. CASE x \notin DOMAIN t
  <2>1. x = rest /\ n < t[c].count
    BY <1>3, <1>6
  <2>2. CASE Joins(t, c, n)
    <3>1. next \in DOMAIN t /\ ~t[next].using
      BY <1>4, <2>2
    <3>2. /\ t[next].count \in Nat \ {0} /\ next[1] = c[1] /\ next[2] = c[2] + t[c].count
          /\ After(t, next) = <<next[1], next[2] + t[next].count>>
      BY <1>1, <3>1, Places
    <3>3. u[x].count = t[c].count - n + t[next].count
      BY <1>3, <2>1, <2>2
    <3>4. m = <<x[1], x[2] + u[x].count>>
      BY DEF After
    <3>5. m = After(t, next) /\ m # rest
      BY <1>1, <1>2, <2>1, <3>2, <3>3, <3>4
    <3> HIDE DEF m
    <3>6. m \in DOMAIN t /\ m \in DOMAIN u
      BY <1>3, <3>5 DEF m
    <3>7. t[m].using
      BY <3>1, <3>5, <3>6 DEF Tight, TightAt
    <3> QED BY <1>3, <3>6, <3>7 DEF m
  <2>3. CASE ~Joins(t, c, n)
    <3>1. u[x].count = t[c].count - n
      BY <1>1, <1>3, <2>1, <2>3
    <3>2. m = <<x[1], x[2] + u[x].count>>
      BY DEF After
    <3>3. m = next /\ m # rest
      BY <1>1, <1>2, <2>1, <3>1, <3>2
    <3> HIDE DEF m
    <3>4. m \in DOMAIN t /\ m \in DOMAIN u
      BY <1>3, <3>3 DEF m
    <3>5. t[m].using
      BY <1>4, <2>1, <2>3, <3>3, <3>4
    <3> QED BY <1>3, <3>4, <3>5 DEF m
  <2> QED BY <2>2, <2>3
<1>7. CASE x \in DOMAIN t /\ x # c
  <2>1. u[x].using = t[x].using /\ u[x].count = t[x].count
    BY <1>3, <1>7
  <2>2. m = After(t, x)
    BY <2>1 DEF After
  <2>3. m \in DOMAIN t
    <3> SUFFICES ASSUME m \notin DOMAIN t PROVE FALSE
      OBVIOUS
    <3>1. m = rest /\ n < t[c].count
      BY <1>3
    <3>2. /\ m[1] = x[1] /\ m[2] = x[2] + t[x].count
          /\ x[2] + t[x].count = size[x[1]]
      BY <1>7, <2>2, Places
    <3> HIDE DEF m
    <3> QED BY <1>1, <1>2, <3>1, <3>2
  <2>4. t[x].using \/ t[m].using
    BY <1>7, <2>2, <2>3 DEF Tight, TightAt
  <2> QED BY <1>3, <2>1, <2>3, <2>4
<1> QED BY <1>5, <1>6, <1>7

\* Where no run but c and the one behind it was free beside a free run, no run
\* but the joined one is.
LEMMA MergeTight ==
  ASSUME NEW size, NEW t, Row(size, t), NEW c \in DOMAIN t, After(t, c) \in DOMAIN t,
         NEW u, IsMerge(t, u, c), \A x \in DOMAIN u : u[x].using = t[x].using,
         \A x \in DOMAIN t \ {c, After(t, c)} : TightAt(t, x)
  PROVE  /\ \A x \in DOMAIN u \ {c} : TightAt(u, x)
         /\ c \in DOMAIN u /\ After(u, c) = After(t, After(t, c))
         /\ DOMAIN u \subseteq DOMAIN t
<1> DEFINE m == After(t, c)
<1>1. /\ DOMAIN u = DOMAIN t \ {m} /\ u[c].count = t[c].count + t[m].count
      /\ \A x \in DOMAIN u \ {c} : u[x].count = t[x].count
  BY DEF IsMerge
<1>2. /\ m # c /\ t[c].count \in Nat /\ c[2] \in Nat /\ m[1] = c[1]
      /\ m[2] = c[2] + t[c].count
  BY Places
<1>3. t[m].count \in Nat /\ After(t, m) = <<m[1], m[2] + t[m].count>>
  BY Places
<1> HIDE DEF m
<1>4. c \in DOMAIN u
  BY <1>1, <1>2
<1>5. After(u, c) = After(t, m)
  <2>1. After(u, c) = <<c[1], c[2] + (t[c].count + t[m].count)>>
    BY <1>1 DEF After
  <2> QED BY <1>2, <1>3, <2>1
<1>6. ASSUME NEW x \in DOMAIN u \ {c} PROVE TightAt(u, x)
  <2>1. After(u, x) = After(t, x)
    BY <1>1 DEF After
  <2>2. TightAt(t, x)
    BY <1>1 DEF m
  <2> QED BY <1>1, <2>1, <2>2 DEF TightAt
<1> QED BY <1>1, <1>4, <1>5, <1>6 DEF m

\* Only the run before c is followed by c.
LEMMA OneBefore ==
  ASSUME NEW size, NEW t, Row(size, t), NEW c \in DOMAIN t, NEW x \in DOMAIN t,
         After(t, x) = c
  PROVE  x = <<c[1], c[2] - t[c].pre>>
<1>1. /\ x = <<x[1], x[2]>> /\ x[2] \in Nat /\ t[x].count \in Nat
      /\ c[1] = x[1] /\ c[2] = x[2] + t[x].count /\ t[c].pre = t[x].count
  BY Places
<1> QED BY <1>1

-----------------------------------------------------------------------------
(* The counters, for what each function does.                              *)

\* A run in use is a place in a block.
LEMMA UsedPlace ==
  ASSUME NEW p, Good(p), NEW c \in Used(p.tag)
  PROVE  c \in Place /\ c[1] \in 1 .. Len(p.size) /\ p.tag[c].count \in Nat
<1>1. IsPool(p) /\ Row(p.size, p.tag) /\ c \in DOMAIN p.tag
  BY DEF Good, Used
<1>2. c \in Place /\ c[1] \in DOMAIN p.size /\ p.tag[c].count \in Nat
  BY <1>1, Places
<1> QED BY <1>1, <1>2 DEF IsPool

\* A run of n chunks is granted, and n is added.
LEMMA GrantedCounts ==
  ASSUME NEW p, Good(p), Counted(p), NEW r, Good(r.pool), SameBlocks(p, r.pool),
         NEW n \in Nat, Granted(p.tag, r, n),
         r.pool.using = Adds(p.using, r.at[1], n)
  PROVE  Counted(r.pool)
<1> DEFINE c == r.at
           q == r.pool
<1>1. /\ c \in Used(q.tag) /\ c \notin Used(p.tag) /\ q.tag[c].count = n
      /\ Others(p.tag, q.tag, c)
  BY DEF Granted
<1>2. c \in Place /\ c[1] \in 1 .. Len(p.size)
  BY <1>1, UsedPlace DEF SameBlocks
<1> HIDE DEF c, q
<1>3. UsedBy(q.tag, c) = UsedBy(p.tag, c) + n
  BY <1>1 DEF UsedBy
<1> QED BY <1>1, <1>2, <1>3, CountedAfter DEF c, q

\* A run gets n chunks, and the difference is added.
LEMMA ResizedCounts ==
  ASSUME NEW p, Good(p), Counted(p), NEW c \in Used(p.tag), NEW q, NEW n \in Nat,
         Resizes(p, q, c, n),
         q.using = Adds(p.using, c[1], n - p.tag[c].count)
  PROVE  Counted(q)
<1> DEFINE k == n - p.tag[c].count
<1>1. /\ c \in Used(q.tag) /\ q.tag[c].count = n /\ Others(p.tag, q.tag, c)
      /\ Good(q) /\ SameBlocks(p, q)
  BY DEF Resizes
<1>2. c \in Place /\ c[1] \in 1 .. Len(p.size) /\ p.tag[c].count \in Nat
  BY UsedPlace
<1>3. k \in Int /\ UsedBy(q.tag, c) = UsedBy(p.tag, c) + k
  BY <1>1, <1>2 DEF UsedBy
<1>4. q.using = Adds(p.using, c[1], k)
  OBVIOUS
<1> HIDE DEF k
<1> QED BY <1>1, <1>2, <1>3, <1>4, CountedAfter

\* A run is given up, and its length is taken away.
LEMMA FreedCounts ==
  ASSUME NEW p, Good(p), Counted(p), NEW c \in Used(p.tag), NEW q, Frees(p, q, c),
         q.using = Adds(p.using, c[1], - p.tag[c].count)
  PROVE  Counted(q)
<1> DEFINE k == - p.tag[c].count
<1>1. /\ Used(q.tag) = Used(p.tag) \ {c}
      /\ \A x \in Used(p.tag) \ {c} : q.tag[x].count = p.tag[x].count
      /\ Good(q) /\ SameBlocks(p, q)
  BY DEF Frees
<1>2. c \in Place /\ c[1] \in 1 .. Len(p.size) /\ p.tag[c].count \in Nat
  BY UsedPlace
<1>3. k \in Int /\ UsedBy(q.tag, c) = UsedBy(p.tag, c) + k
  BY <1>1, <1>2 DEF UsedBy
<1>4. Others(p.tag, q.tag, c)
  BY <1>1 DEF Others
<1>5. q.using = Adds(p.using, c[1], k)
  OBVIOUS
<1> HIDE DEF k
<1> QED BY <1>1, <1>2, <1>3, <1>4, <1>5, CountedAfter

-----------------------------------------------------------------------------
(* mp_alloc.                                                               *)

\* The bump run is the last of its block: what is left of it has no run
\* behind it.
LEMMA BumpNeat ==
  ASSUME NEW p, Good(p), Neat(p), NEW n \in Nat \ {0}, Bumps(p, n)
  PROVE  Neat(BumpAlloc(p, n).pool)
<1> DEFINE t == p.tag
           c == p.current
           rest == Behind(c, n)
           remain == t[c].count - n
           used == Tag(n, t[c].pre, TRUE)
           u == [x \in DOMAIN t \cup (IF remain > 0 THEN {rest} ELSE {}) |->
                   IF x = c THEN used
                   ELSE IF x = rest THEN Tag(remain, n, FALSE)
                   ELSE t[x]]
           q1 == [p EXCEPT !.tag = u]
           q2 == [q1 EXCEPT !.current = rest]
           q == Use(q2, c[1], n)
           r == BumpAlloc(p, n)
<1>1. r = Result(q, c)
  BY DEF BumpAlloc, Behind, Heads
<1>2. Good(r.pool) /\ SameBlocks(p, r.pool) /\ Granted(t, r, n)
  BY BumpAllocFacts
<1>3. r.pool = q /\ r.at = c
  BY <1>1 DEF Result
<1>4. /\ IsPool(p) /\ Row(p.size, t) /\ BumpAt(p.size, t, c) /\ c \in Place
      /\ p = [size |-> p.size, using |-> p.using, tag |-> t,
              current |-> p.current, torn |-> p.torn]
  BY DEF Good, IsPool
<1>5. used.using /\ Tag(remain, n, FALSE).count = remain
  BY DEF Tag
<1> HIDE DEF r, used
<1>6. q.tag = u /\ q.using = Adds(p.using, c[1], n)
  <2> HIDE DEF u, rest, c, t
  <2>1. IsRecord(p)
    BY <1>4 DEF IsRecord, t, c
  <2>2. IsRecord(q1) /\ q1.tag = u /\ q1.using = p.using
    BY <2>1, TagOnly
  <2>3. IsRecord(q2) /\ q2.tag = u /\ q2.using = p.using
    BY <2>2, CurrentOnly
  <2> HIDE DEF q2
  <2> QED BY <2>3, UseCounts
<1> HIDE DEF q
<1>7. Counted(r.pool)
  BY <1>2, <1>3, <1>6, GrantedCounts DEF Neat
<1>8. Row(p.size, u)
  BY <1>2, <1>3, <1>6 DEF Good, SameBlocks
<1>9. c \in DOMAIN t /\ c[2] + t[c].count = p.size[c[1]] /\ t[c].count \in Nat \ {0}
      /\ c[1] \in Nat /\ c[2] \in Nat
  <2>1. c[2] + n <= p.size[c[1]] /\ c[2] \in Nat /\ c[1] \in Nat
    BY <1>4 DEF Bumps, Last, BumpAt, Place
  <2>2. c[2] # p.size[c[1]]
    <3>1. c[1] \in DOMAIN p.size
      BY <1>4 DEF IsPool, BumpAt
    <3>2. p.size[c[1]] \in Nat
      BY <1>4, <3>1 DEF Row
    <3> QED BY <2>1, <3>2
  <2>3. c \in DOMAIN t /\ c[2] + t[c].count = p.size[c[1]]
    BY <1>4, <2>2 DEF BumpAt
  <2>4. t[c].count \in Nat \ {0}
    BY <1>4, <2>3, Places
  <2> QED BY <2>1, <2>3, <2>4
<1>10. rest = <<c[1], c[2] + n>> /\ rest[1] = c[1] /\ rest[2] = c[2] + n /\ rest # c
  BY <1>9 DEF Behind
<1>11. rest \notin DOMAIN t
  <2> SUFFICES ASSUME rest \in DOMAIN t PROVE FALSE
    OBVIOUS
  <2>1. c[2] + t[c].count <= rest[2]
    BY <1>4, <1>9, <1>10 DEF Row
  <2>2. rest[2] + t[rest].count <= p.size[rest[1]] /\ t[rest].count \in Nat \ {0}
    BY <1>4, Places
  <2> HIDE DEF rest
  <2> QED BY <1>9, <1>10, <2>1, <2>2
<1>12. /\ DOMAIN u = DOMAIN t \cup (IF remain > 0 THEN {rest} ELSE {})
       /\ u[c].using
       /\ remain > 0 => u[rest].count = remain
       /\ \A x \in DOMAIN t \ {c} : u[x] = t[x]
  BY <1>5, <1>9, <1>10, <1>11
<1> HIDE DEF u, rest, q1, q2
<1>a. c \in DOMAIN u /\ u[c].using
  BY <1>9, <1>12
<1>b. \A x \in DOMAIN u : x \in DOMAIN t \/ (remain > 0 /\ x = rest /\ u[x].count = remain)
  BY <1>12
<1>c. \A x \in DOMAIN t \ {c} : u[x] = t[x]
  BY <1>12
<1>13. ASSUME NEW x \in DOMAIN u, After(u, x) \in DOMAIN u
       PROVE  u[x].using \/ u[After(u, x)].using
  <2> DEFINE m == After(u, x)
  <2>1. /\ m[1] = x[1] /\ m[2] = x[2] + u[x].count /\ m[2] < p.size[x[1]]
        /\ p.size[x[1]] \in Nat
    BY <1>8, <1>13, Places
  <2>2. CASE x = c
    BY ONLY <1>a, <2>2
  <2>3. CASE x \notin DOMAIN t
    <3>1. x = rest /\ u[x].count = remain
      BY <1>13, <1>b, <2>3
    <3> HIDE DEF m
    <3>2. m[2] = p.size[x[1]]
      BY <1>9, <1>10, <2>1, <3>1
    <3> QED BY <2>1, <3>2
  <2>4. CASE x \in DOMAIN t /\ x # c
    <3>1. u[x] = t[x]
      BY <1>12, <2>4
    <3>2. m = After(t, x)
      BY <3>1 DEF After
    <3> HIDE DEF m
    <3>3. m \in DOMAIN t
      <4>1. m \notin DOMAIN t => x[2] + t[x].count = p.size[x[1]]
        BY <1>4, <2>4, <3>2, Places
      <4> QED BY <2>1, <3>1, <4>1
    <3>4. t[x].using \/ t[m].using
      BY <2>4, <3>2, <3>3 DEF Neat, Tight, TightAt
    <3>5. t[m].using => u[m].using
      BY ONLY <1>a, <1>c, <3>3
    <3> QED BY ONLY <3>1, <3>4, <3>5 DEF m
  <2> QED BY <2>2, <2>3, <2>4
<1>14. Tight(u)
  BY <1>13 DEF Tight, TightAt
<1> QED BY <1>3, <1>6, <1>7, <1>14 DEF Neat, r

\* Cutting a run in use keeps free runs apart, and no counter changes yet.
LEMMA CutTight ==
  ASSUME NEW p, IsPool(p), NEW t, Row(p.size, t), Tight(t), NEW c \in DOMAIN t, t[c].using,
         StandsFor(t, p.tag, c), NEW n \in Nat \ {0}, n <= t[c].count,
         LET next == After(t, c)
         IN  next \in DOMAIN t /\ next = p.current => next[2] + t[next].count = p.size[next[1]]
  PROVE  LET q == Cut(p, c, t[c].count, n)
         IN  IsPool(q) /\ Tight(q.tag) /\ q.using = p.using
<1> DEFINE q == Cut(p, c, t[c].count, n)
<1>1. CutsTo(p, q, t, c, n)
  <2>1. n \in Nat /\ 0 < n
    OBVIOUS
  <2> QED BY <2>1, CutFacts
<1> HIDE DEF q
<1>2. IsPool(q) /\ q.using = p.using /\ Shortened(t, q.tag, c, n)
  BY <1>1 DEF CutsTo
<1> QED BY <1>2, ShortenedTight DEF q

\* The bump pointer at a run of the row is at its last run.
LEMMA BumpIsLast ==
  ASSUME NEW size, NEW t, Row(size, t), NEW cur, BumpAt(size, t, cur), NEW c \in DOMAIN t
  PROVE  /\ c = cur => c[2] + t[c].count = size[c[1]] /\ ~t[c].using
         /\ LET next == After(t, c)
            IN  next \in DOMAIN t /\ next = cur => next[2] + t[next].count = size[next[1]]
<1>1. \A x \in DOMAIN t : x[2] # size[x[1]]
  <2> SUFFICES ASSUME NEW x \in DOMAIN t PROVE x[2] # size[x[1]]
    OBVIOUS
  <2>1. x[2] + t[x].count <= size[x[1]] /\ t[x].count \in Nat \ {0} /\ x[2] \in Nat
        /\ size[x[1]] \in Nat
    BY Places
  <2> QED BY <2>1
<1> QED BY <1>1 DEF BumpAt

\* The first fit is marked before it is cut, and what is left joins a free run
\* behind it.
LEMMA CarveNeat ==
  ASSUME NEW p, Good(p), Neat(p), NEW n \in Nat \ {0}, ~Bumps(p, n), Fits(p, n) # {}
  PROVE  Neat(CarveFirstFit(p, n).pool)
<1> DEFINE c == First(Fits(p, n))
           q1 == [p EXCEPT !.tag[c].using = TRUE]
           q2 == Cut(q1, c, p.tag[c].count, n)
           q == Use(q2, c[1], n)
           r == CarveFirstFit(p, n)
<1>1. r = Result(q, c)
  BY DEF CarveFirstFit
<1>2. Good(r.pool) /\ SameBlocks(p, r.pool) /\ Granted(p.tag, r, n)
  BY CarveFacts
<1>3. r.pool = q /\ r.at = c
  BY <1>1 DEF Result
<1>4. IsPool(p) /\ Row(p.size, p.tag) /\ BumpAt(p.size, p.tag, p.current)
  BY DEF Good
<1>5. c \in Fits(p, n)
  <2>1. Fits(p, n) \in SUBSET Place
    BY <1>4 DEF Fits, Heads, Row
  <2> QED BY <2>1, FirstIn
<1> HIDE DEF c, q1, q2, q, r
<1>6. c \in DOMAIN p.tag /\ n <= p.tag[c].count
  <2>1. p.tag[c].count \in Nat /\ c \in DOMAIN p.tag
    BY <1>4, <1>5, Places DEF Fits, Heads
  <2> QED BY <1>5, <2>1 DEF Fits
<1>7. Marks(p, q1, c, TRUE)
  BY <1>4, <1>6, UsingFields DEF q1
<1>8. /\ IsPool(q1) /\ q1.size = p.size /\ q1.using = p.using /\ q1.current = p.current
      /\ DOMAIN q1.tag = DOMAIN p.tag
      /\ \A x \in DOMAIN p.tag :
           /\ q1.tag[x].count = p.tag[x].count /\ q1.tag[x].pre = p.tag[x].pre
           /\ q1.tag[x].using = IF x = c THEN TRUE ELSE p.tag[x].using
  BY <1>7 DEF Marks, SameBlocks
<1>9. Row(q1.size, q1.tag)
  <2>1. \A x \in DOMAIN p.tag : /\ q1.tag[x] \in TagRecord
                                /\ q1.tag[x].count = p.tag[x].count /\ q1.tag[x].pre = p.tag[x].pre
    BY <1>8 DEF IsPool
  <2>2. Row(p.size, q1.tag)
    BY <1>4, <1>8, <2>1, SameRow
  <2> QED BY <1>8, <2>2
<1>10. Tight(q1.tag) /\ q1.tag[c].using
  <2>1. Tight(p.tag)
    BY DEF Neat
  <2> QED BY <1>6, <1>8, <2>1, MarkedTight
<1>11. IsPool(q2) /\ Tight(q2.tag) /\ q2.using = p.using
  <2> DEFINE t == q1.tag
             next == After(t, c)
  <2>1. StandsFor(t, q1.tag, c)
    BY DEF StandsFor
  <2>2. c \in DOMAIN t /\ t[c].count = p.tag[c].count
    BY <1>6, <1>8
  <2>3. next \in DOMAIN t /\ next = q1.current => next[2] + t[next].count = q1.size[next[1]]
    <3>1. next = After(p.tag, c) /\ DOMAIN t = DOMAIN p.tag
          /\ \A x \in DOMAIN t : t[x].count = p.tag[x].count
      BY <1>6, <1>8 DEF After
    <3> HIDE DEF next, t
    <3>2. next \in DOMAIN p.tag /\ next = p.current =>
            next[2] + p.tag[next].count = p.size[next[1]]
      BY <1>4, <1>6, <3>1, BumpIsLast
    <3> QED BY <1>8, <3>1, <3>2
  <2> HIDE DEF t
  <2>4. IsPool(q1) /\ Row(q1.size, t) /\ Tight(t) /\ t[c].using /\ StandsFor(t, q1.tag, c)
        /\ n <= t[c].count
    BY <1>6, <1>8, <1>9, <1>10, <2>1, <2>2 DEF t
  <2>5. q2 = Cut(q1, c, t[c].count, n)
    BY <2>2 DEF q2
  <2> QED BY <1>8, <2>2, <2>3, <2>4, <2>5, CutTight
<1>12. q.tag = q2.tag /\ q.using = Adds(p.using, c[1], n)
  <2>1. q.using = Adds(q2.using, c[1], n) /\ q.tag = q2.tag
    BY <1>11, PoolRecord, UseCounts DEF q
  <2> QED BY <1>11, <2>1
<1>13. Counted(r.pool)
  BY <1>2, <1>3, <1>12, GrantedCounts DEF Neat
<1> QED BY <1>3, <1>11, <1>12, <1>13 DEF Neat, r

\* A new block is one free run, after the last, and nothing of it is in use.
LEMMA BlockNeat ==
  ASSUME NEW p, Good(p), Neat(p), NEW m \in {"ok", "none", "torn"}
  PROVE  Neat(AllocBlock(p, m))
<1> DEFINE q == AllocBlock(p, m)
<1>1. IsPool(p) /\ Row(p.size, p.tag) /\ Good(q)
  BY AllocBlockFacts DEF Good
<1>2. CASE m = "none"
  BY <1>2 DEF AllocBlock
<1>3. CASE m = "torn"
  <2>1. q = [p EXCEPT !.torn = TRUE]
    BY <1>3 DEF AllocBlock
  <2>2. q.size = p.size /\ q.using = p.using /\ q.tag = p.tag
    BY <1>1, <2>1, TornFields
  <2> HIDE DEF q
  <2>3. Neat(q)
    BY <2>2 DEF Neat, Counted
  <2> QED BY <2>3 DEF q
<1>4. CASE m = "ok"
  <2> DEFINE n == NextBlockSize(p)
             b == Len(p.size) + 1
             head == <<b, 0>>
             new == Tag(n, 0, FALSE)
             t == p.tag
             u == [x \in DOMAIN t \cup (IF n > 0 THEN {head} ELSE {}) |->
                     IF x = head THEN new ELSE t[x]]
             sz == Append(p.size, n)
             us == Append(p.using, 0)
             k == [p EXCEPT !.size = sz, !.using = us, !.current = head, !.tag = u]
  <2>1. q = k
    BY <1>4 DEF AllocBlock, Last, Heads
  <2>2. q.size = sz /\ q.using = us /\ q.tag = u
    <3>1. Renewed(p, k, sz, us, head, u)
      BY <1>1, BlockFields
    <3> HIDE DEF sz, us, u, k, q
    <3> QED BY <2>1, <3>1 DEF Renewed
  <2>3. n \in Nat
    BY <1>1, NextBlockRange, MemPoolAssumption
  <2>4. /\ p.size \in Seq(0 .. InitChunks) /\ p.using \in Seq(0 .. (CountMod - 1))
        /\ Len(p.size) \in Nat /\ Len(p.using) = Len(p.size)
        /\ DOMAIN p.size = 1 .. Len(p.size)
    BY <1>1 DEF IsPool
  <2>5. Len(q.size) = b /\ q.using[b] = 0 /\ \A i \in 1 .. Len(p.size) : q.using[i] = p.using[i]
    <3> HIDE DEF n, u, q
    <3> QED BY <2>2, <2>3, <2>4
  <2>6. \A x \in DOMAIN t : x \in Place /\ x[1] \in 1 .. Len(p.size) /\ x # head
    <3>1. \A x \in DOMAIN t : x \in Place /\ x[1] \in DOMAIN p.size
      BY <1>1 DEF Row
    <3> QED BY <2>4, <3>1
  <2>7. new.count = n /\ ~new.using
    BY DEF Tag
  <2> HIDE DEF n, new, head, k, sz, us, q
  <2>8. /\ DOMAIN u = DOMAIN t \cup (IF n > 0 THEN {head} ELSE {})
        /\ \A x \in DOMAIN t : u[x] = t[x]
        /\ n > 0 => ~u[head].using
    BY <2>6, <2>7
  <2> HIDE DEF u
  <2>9. Row(q.size, u)
    BY <1>1, <2>2 DEF Good
  <2>10. head[1] = b /\ head[2] = 0
    BY DEF head
  <2>11. ASSUME NEW x \in DOMAIN u, After(u, x) \in DOMAIN u
         PROVE  u[x].using \/ u[After(u, x)].using
    <3> DEFINE y == After(u, x)
    <3>1. y # head
      <4>1. /\ y[1] = x[1] /\ y[2] = x[2] + u[x].count /\ x[2] \in Nat
            /\ u[x].count \in Nat \ {0}
        BY <2>9, Places
      <4> HIDE DEF y
      <4> QED BY <2>10, <4>1
    <3>2. y \in DOMAIN t
      <4> HIDE DEF y
      <4>1. y \in DOMAIN u
        BY <2>11 DEF y
      <4> QED BY <2>8, <3>1, <4>1
    <3>3. x \in DOMAIN t
      <4> SUFFICES ASSUME x \notin DOMAIN t PROVE FALSE
        OBVIOUS
      <4>1. x = head
        BY <2>8
      <4>2. y[1] = x[1]
        BY <2>9, Places
      <4> HIDE DEF y
      <4> QED BY <2>4, <2>6, <2>10, <3>2, <4>1, <4>2
    <3>4. u[x] = t[x]
      BY <2>8, <3>3
    <3>5. y = After(t, x)
      BY <3>4 DEF After
    <3> HIDE DEF y
    <3>6. t[x].using \/ t[y].using
      BY <3>2, <3>3, <3>5 DEF Neat, Tight, TightAt
    <3> QED BY <2>8, <3>2, <3>4, <3>6 DEF y
  <2>12. Tight(u)
    BY <2>11 DEF Tight, TightAt
  <2>13. SameUsed(t, u)
    BY <2>8 DEF SameUsed, Used
  <2>14. ASSUME NEW i \in 1 .. b
         PROVE  q.using[i] = Cardinality(CellsIn(u, Used(u), i))
    <3>1. CellsIn(u, Used(u), i) = CellsIn(t, Used(t), i)
      <4>1. Used(u) = Used(t) /\ \A x \in Used(t) : Cells(u, x) = Cells(t, x)
        BY <2>13 DEF SameUsed, Cells
      <4> HIDE DEF t
      <4> QED BY <4>1 DEF CellsIn
    <3>2. CASE i \in 1 .. Len(p.size)
      BY <2>5, <3>1, <3>2 DEF Neat, Counted
    <3>3. CASE i = b
      <4>1. \A x \in Used(t) : x[1] # i
        BY <2>4, <2>6, <3>3 DEF Used
      <4>2. CellsIn(t, Used(t), i) = {}
        BY <4>1 DEF CellsIn
      <4> QED BY <2>5, <3>1, <3>3, <4>2, FS_EmptySet
    <3> QED BY <2>4, <3>2, <3>3
  <2>15. Counted(q)
    BY <2>2, <2>5, <2>14 DEF Counted
  <2>16. Neat(q)
    BY <2>2, <2>12, <2>15 DEF Neat
  <2> QED BY <2>16 DEF q
<1> QED BY <1>2, <1>3, <1>4

\* mp_alloc, by each of its paths.
LEMMA AllocNeat ==
  ASSUME NEW p, Good(p), Neat(p), NEW n \in Nat \ {0}, NEW m \in {"ok", "none", "torn"}
  PROVE  Neat(MpAlloc(p, n, m).pool)
<1>1. ASSUME MpAlloc(p, n, m) = AllocInNewBlock(p, n, m) PROVE Neat(MpAlloc(p, n, m).pool)
  <2> DEFINE q == AllocBlock(p, m)
  <2>1. Good(q) /\ Neat(q)
    BY AllocBlockFacts, BlockNeat
  <2> HIDE DEF q
  <2>2. \/ Bumps(q, n) /\ AllocInNewBlock(p, n, m) = BumpAlloc(q, n)
        \/ AllocInNewBlock(p, n, m) = Result(q, Null)
    BY DEF AllocInNewBlock, q
  <2> QED BY <1>1, <2>1, <2>2, BumpNeat DEF Result
<1>2. \/ MpAlloc(p, n, m) = Result(p, Null)
      \/ MpAlloc(p, n, m) = AllocInNewBlock(p, n, m)
      \/ Bumps(p, n) /\ MpAlloc(p, n, m) = BumpAlloc(p, n)
      \/ ~Bumps(p, n) /\ Fits(p, n) # {} /\ MpAlloc(p, n, m) = CarveFirstFit(p, n)
  BY DEF MpAlloc
<1> QED BY <1>1, <1>2, BumpNeat, CarveNeat DEF Result

-----------------------------------------------------------------------------
(* mp_free.                                                                *)

\* Free runs stand side by side at x at most.
ButAt(t, x) == \A y \in DOMAIN t \ {x} : TightAt(t, y)

\* The run behind the free run x joins it if it is free; then no two are left.
LEMMA JoinNextTight ==
  ASSUME NEW p, Good(p), NEW x \in DOMAIN p.tag, ~p.tag[x].using, ButAt(p.tag, x)
  PROVE  LET n == After(p.tag, x)
             q == IF InBlock(p, n) /\ ~p.tag[n].using THEN CombineNext(p, x, n) ELSE p
         IN  Tight(q.tag) /\ q.using = p.using
<1> DEFINE t == p.tag
           n == After(t, x)
           q == CombineNext(p, x, n)
<1>1. Row(p.size, t)
  BY DEF Good
<1>2. InBlock(p, n) <=> n \in DOMAIN t
  BY <1>1, Places DEF InBlock
<1>3. ASSUME ~(InBlock(p, n) /\ ~t[n].using) PROVE Tight(t)
  BY <1>2, <1>3 DEF ButAt, Tight, TightAt
<1>4. ASSUME InBlock(p, n), ~t[n].using PROVE Tight(q.tag) /\ q.using = p.using
  <2>1. Joined(p, q, x) /\ n \in DOMAIN t /\ n # x
    BY <1>1, <1>2, <1>4, JoinNextFacts, Places
  <2> DEFINE u == q.tag
  <2> HIDE DEF q
  <2>2. IsMerge(t, u, x) /\ q.using = p.using /\ \A y \in DOMAIN u : u[y].using = t[y].using
    BY <2>1 DEF Joined
  <2>3. \A y \in DOMAIN t \ {x, n} : TightAt(t, y)
    BY DEF ButAt
  <2>4. /\ \A y \in DOMAIN u \ {x} : TightAt(u, y)
        /\ x \in DOMAIN u /\ After(u, x) = After(t, n) /\ DOMAIN u \subseteq DOMAIN t
    BY <1>1, <2>1, <2>2, <2>3, MergeTight
  <2>5. TightAt(u, x)
    <3> DEFINE m == After(t, n)
    <3>1. TightAt(t, n)
      BY <2>1 DEF ButAt
    <3>2. m \in DOMAIN t => t[m].using
      BY <1>4, <3>1 DEF TightAt
    <3> HIDE DEF m, n, t, u
    <3> QED BY <2>2, <2>4, <3>2 DEF TightAt, m
  <2> QED BY <2>2, <2>4, <2>5 DEF Tight
<1> QED BY <1>3, <1>4

\* mp_free: between its steps free runs do meet, at the run it gives up and at
\* the one before it; it joins both sides, and takes the run from the counter.
LEMMA FreeNeat ==
  ASSUME NEW p, Good(p), Neat(p), NEW c \in Used(p.tag)
  PROVE  Neat(MpFree(p, c))
<1> DEFINE n == After(p.tag, c)
           pre == <<c[1], c[2] - p.tag[c].pre>>
           q0 == [p EXCEPT !.tag[c].using = FALSE]
           q == Use(q0, c[1], - p.tag[c].count)
           back == pre # c /\ ~p.tag[pre].using
           j == SetPre([q EXCEPT !.tag = JoinedTag(q.tag, pre, c)], n, pre)
           x == IF back THEN pre ELSE c
           r == IF back THEN j ELSE q
           f == IF InBlock(p, n) /\ ~r.tag[n].using THEN CombineNext(r, x, n) ELSE r
<1>1. /\ IsPool(p) /\ Row(p.size, p.tag) /\ BumpAt(p.size, p.tag, p.current)
      /\ c \in DOMAIN p.tag /\ p.tag[c].using /\ Tight(p.tag) /\ Counted(p)
  BY DEF Good, Used, Neat
<1>2. p.tag[c].count \in Nat \ {0}
  BY <1>1, Places
<1>3. Unmarks(p, q, c)
  BY <1>2, UnmarkFacts
<1>4. p.current # c
  BY <1>1, BumpIsLast
<1>5. pre = c \/ (pre \in DOMAIN p.tag /\ pre # c /\ After(p.tag, pre) = c)
  BY <1>1, PlaceBefore
<1>6. MpFree(p, c) = f
  <2>1. q.tag[c].count = p.tag[c].count /\ Heads(q) = DOMAIN q.tag
    BY <1>1, <1>3 DEF Unmarks, Heads
  <2>2. JoinedTag(q.tag, pre, c) = [y \in Heads(q) \ {c} |->
                   IF y = pre THEN [q.tag[pre] EXCEPT !.count = @ + p.tag[c].count]
                   ELSE q.tag[y]]
    <3> HIDE DEF q, pre
    <3> QED BY <2>1 DEF JoinedTag
  <2> QED BY <2>2 DEF MpFree
<1>7. Marks(p, q0, c, FALSE)
  BY <1>1, UsingFields
<1> HIDE DEF n, pre, q0, q, j, f
<1>8. /\ Good(q) /\ q.size = p.size /\ q.current = p.current
      /\ DOMAIN q.tag = DOMAIN p.tag
      /\ \A y \in DOMAIN p.tag :
           /\ q.tag[y].count = p.tag[y].count /\ q.tag[y].pre = p.tag[y].pre
           /\ q.tag[y].using = IF y = c THEN FALSE ELSE p.tag[y].using
  BY <1>3 DEF Unmarks, SameBlocks
<1>9. q.using = Adds(p.using, c[1], - p.tag[c].count)
  <2>1. IsRecord(q0) /\ q0.using = p.using
    BY <1>7, PoolRecord DEF Marks
  <2> QED BY <2>1, UseCounts DEF q
<1>10. \A y \in DOMAIN q.tag : After(q.tag, y) = After(p.tag, y)
  BY <1>8 DEF After
<1>11. ASSUME NEW y \in DOMAIN q.tag, y # c, y # pre PROVE TightAt(q.tag, y)
  <2>1. After(p.tag, y) # c
    BY <1>1, <1>8, <1>11, OneBefore DEF pre
  <2>2. TightAt(p.tag, y)
    BY <1>1, <1>8 DEF Tight
  <2> QED BY <1>8, <1>10, <1>11, <2>1, <2>2 DEF TightAt
<1>12. /\ Good(r) /\ r.size = p.size /\ r.using = q.using
       /\ x \in DOMAIN r.tag /\ ~r.tag[x].using /\ After(r.tag, x) = n
       /\ ButAt(r.tag, x)
  <2>1. CASE back
    <3>1. pre \in DOMAIN q.tag /\ c \in DOMAIN q.tag
      BY <1>1, <1>5, <1>8, <2>1
    <3>2. c = After(q.tag, pre)
      BY <1>5, <1>10, <2>1, <3>1
    <3>3. ~q.tag[pre].using /\ ~q.tag[c].using /\ q.current # c
      BY <1>1, <1>4, <1>5, <1>8, <2>1
    <3>4. n = After(q.tag, c)
      BY <1>10, <3>1 DEF n
    <3>5. /\ Good(j) /\ SameBlocks(q, j)
          /\ pre \in DOMAIN j.tag /\ ~j.tag[pre].using /\ After(j.tag, pre) = n
          /\ Joined(q, j, pre)
      BY <1>8, <3>1, <3>2, <3>3, <3>4, JoinFacts DEF j
    <3>6. ButAt(j.tag, pre)
      <4>1. IsMerge(q.tag, j.tag, pre) /\ \A y \in DOMAIN j.tag : j.tag[y].using = q.tag[y].using
        BY <3>5 DEF Joined
      <4>2. \A y \in DOMAIN q.tag \ {pre, After(q.tag, pre)} : TightAt(q.tag, y)
        BY <1>11, <3>2
      <4>3. Row(q.size, q.tag) /\ After(q.tag, pre) \in DOMAIN q.tag
        BY <1>8, <3>1, <3>2 DEF Good
      <4> QED BY <3>1, <4>1, <4>2, <4>3, MergeTight DEF ButAt
    <3>7. j.size = p.size /\ j.using = q.using
      BY <1>8, <3>5 DEF SameBlocks, Joined
    <3> QED BY <2>1, <3>5, <3>6, <3>7
  <2>2. CASE ~back
    <3>1. c \in DOMAIN q.tag /\ ~q.tag[c].using /\ After(q.tag, c) = n
      BY <1>1, <1>8, <1>10 DEF n
    <3>2. ButAt(q.tag, c)
      <4> SUFFICES ASSUME NEW y \in DOMAIN q.tag, y # c PROVE TightAt(q.tag, y)
        BY DEF ButAt
      <4>1. CASE y = pre
        <5>1. q.tag[y].using
          BY <1>8, <2>2, <4>1
        <5> QED BY <5>1 DEF TightAt
      <4> QED BY <1>11, <4>1
    <3> QED BY <1>8, <2>2, <3>1, <3>2
  <2> QED BY <2>1, <2>2
<1> HIDE DEF r, x
<1>13. Tight(f.tag) /\ f.using = r.using
  <2>1. InBlock(p, n) <=> InBlock(r, n)
    BY <1>12 DEF InBlock
  <2>2. f = IF InBlock(r, n) /\ ~r.tag[n].using THEN CombineNext(r, x, n) ELSE r
    BY <2>1 DEF f
  <2> QED BY <1>12, <2>2, JoinNextTight
<1>14. Frees(p, f, c)
  BY <1>6, FreeFacts
<1>15. Counted(f)
  BY <1>1, <1>9, <1>12, <1>13, <1>14, FreedCounts
<1> QED BY <1>6, <1>13, <1>15 DEF Neat

-----------------------------------------------------------------------------
(* mp_realloc.                                                             *)

\* mp_realloc in place: what the run gives back joins a free run behind it.
LEMMA ShrinkNeat ==
  ASSUME NEW p, Good(p), Neat(p), NEW c \in Used(p.tag), NEW n \in Nat \ {0},
         n < p.tag[c].count
  PROVE  Neat(Use(Cut(p, c, p.tag[c].count, n), c[1], n - p.tag[c].count))
<1> DEFINE k == Cut(p, c, p.tag[c].count, n)
           r == Use(k, c[1], n - p.tag[c].count)
<1>1. /\ IsPool(p) /\ Row(p.size, p.tag) /\ BumpAt(p.size, p.tag, p.current)
      /\ c \in DOMAIN p.tag /\ p.tag[c].using /\ Tight(p.tag) /\ Counted(p)
  BY DEF Good, Used, Neat
<1>2. IsPool(k) /\ Tight(k.tag) /\ k.using = p.using
  <2>1. StandsFor(p.tag, p.tag, c)
    BY DEF StandsFor
  <2>2. n <= p.tag[c].count
    BY <1>1, Places
  <2>3. LET next == After(p.tag, c)
        IN  next \in DOMAIN p.tag /\ next = p.current =>
              next[2] + p.tag[next].count = p.size[next[1]]
    BY <1>1, BumpIsLast
  <2> QED BY <1>1, <2>1, <2>2, <2>3, CutTight
<1>3. Resizes(p, r, c, n)
  BY ShrinkFacts
<1> HIDE DEF k
<1>4. r.tag = k.tag /\ r.using = Adds(p.using, c[1], n - p.tag[c].count)
  <2>1. r.using = Adds(k.using, c[1], n - p.tag[c].count) /\ r.tag = k.tag
    BY <1>2, PoolRecord, UseCounts
  <2> QED BY <1>2, <2>1
<1> HIDE DEF r
<1>5. Counted(r)
  BY <1>1, <1>3, <1>4, ResizedCounts
<1>6. Neat(r)
  BY <1>2, <1>4, <1>5 DEF Neat
<1> QED BY <1>6 DEF r, k

\* mp_realloc in place: the free run behind c is taken whole, and what is too
\* much of it given back.
LEMMA GrowNeat ==
  ASSUME NEW p, Good(p), Neat(p), NEW c \in Used(p.tag), NEW n \in Nat,
         n > p.tag[c].count, CanGrow(p, c, n)
  PROVE  Neat(Grow(p, c, n))
<1> DEFINE next == After(p.tag, c)
           total == p.tag[c].count + p.tag[next].count
           v == [x \in DOMAIN p.tag \ {next} |-> p.tag[x]]
           q == [p EXCEPT !.tag = v]
           k == Cut(q, c, total, n)
           r == Use(k, c[1], n - p.tag[c].count)
           f == IF next = p.current THEN [r EXCEPT !.current = <<c[1], c[2] + total>>] ELSE r
<1>1. /\ IsPool(p) /\ Row(p.size, p.tag) /\ BumpAt(p.size, p.tag, p.current)
      /\ c \in DOMAIN p.tag /\ p.tag[c].using /\ Tight(p.tag) /\ Counted(p)
  BY DEF Good, Used, Neat
<1>2. /\ p.tag[c].count \in Nat \ {0} /\ next # c
      /\ next \in DOMAIN p.tag <=> next[2] < p.size[c[1]]
      /\ next[1] = c[1]
  BY <1>1, Places
<1>3. next \in DOMAIN p.tag /\ n <= total
  <2>1. next \in DOMAIN p.tag /\ total >= n
    BY <1>2 DEF CanGrow, InBlock
  <2>2. p.tag[next].count \in Nat
    BY <1>1, <2>1, Places
  <2> QED BY <1>2, <2>1, <2>2
<1>4. PICK t : GrownTo(p.size, p.tag, t, v, c)
  BY <1>1, <1>3, GrownRow
<1>5. Grow(p, c, n) = f
  BY DEF Grow, Heads
<1>6. v \in [DOMAIN v -> TagRecord]
  <2>1. \A x \in DOMAIN p.tag : p.tag[x] \in TagRecord
    BY <1>1 DEF Row
  <2> QED BY <2>1
<1> HIDE DEF next, total, v, q, k, r, f
<1>7. /\ IsMerge(p.tag, t, c) /\ Row(p.size, t) /\ StandsFor(t, v, c)
      /\ \A x \in DOMAIN t : t[x].using = p.tag[x].using
  BY <1>4 DEF GrownTo
<1>8. /\ \A x \in DOMAIN t \ {c} : TightAt(t, x)
      /\ c \in DOMAIN t /\ After(t, c) = After(p.tag, next)
      /\ DOMAIN t \subseteq DOMAIN p.tag
  <2>1. \A x \in DOMAIN p.tag \ {c, After(p.tag, c)} : TightAt(p.tag, x)
    BY <1>1 DEF Tight
  <2> QED BY <1>1, <1>3, <1>7, <2>1, MergeTight DEF next
<1>9. t[c].using /\ t[c].count = total /\ \A x \in DOMAIN t \ {c} : t[x].count = p.tag[x].count
  BY <1>1, <1>7, <1>8 DEF IsMerge, next, total
<1>10. Tight(t)
  BY <1>8, <1>9 DEF Tight, TightAt
<1>11. IsPool(q) /\ q.tag = v /\ q.size = p.size /\ q.current = p.current /\ q.using = p.using
  BY <1>1, <1>6, TagFields, PoolRecord, TagOnly DEF q, SameBlocks
<1>12. LET nn == After(t, c)
       IN  nn \in DOMAIN t /\ nn = q.current => nn[2] + t[nn].count = q.size[nn[1]]
  <2> DEFINE nn == After(t, c)
  <2>1. nn \in DOMAIN p.tag /\ nn = p.current => nn[2] + p.tag[nn].count = p.size[nn[1]]
    BY <1>1, <1>3, <1>8, BumpIsLast
  <2>2. nn # c
    BY <1>7, <1>8, Places
  <2> HIDE DEF nn
  <2>3. nn \in DOMAIN t /\ nn = q.current => nn[2] + t[nn].count = q.size[nn[1]]
    BY <1>8, <1>9, <1>11, <2>1, <2>2
  <2> QED BY <2>3 DEF nn
<1>13. IsPool(k) /\ Tight(k.tag) /\ k.using = p.using
  <2>1. Row(q.size, t) /\ StandsFor(t, q.tag, c)
    BY <1>7, <1>11
  <2>2. n \in Nat \ {0} /\ n <= t[c].count
    BY <1>2, <1>3, <1>9
  <2>3. k = Cut(q, c, t[c].count, n)
    BY <1>9 DEF k
  <2> QED BY <1>8, <1>9, <1>10, <1>11, <1>12, <2>1, <2>2, <2>3, CutTight
<1>14. IsRecord(r) /\ r.tag = k.tag /\ r.using = Adds(p.using, c[1], n - p.tag[c].count)
  <2>1. IsRecord(k)
    BY <1>13, PoolRecord
  <2>2. r = [k EXCEPT !.using = Adds(k.using, c[1], n - p.tag[c].count)]
    BY DEF r, Use, Adds
  <2> QED BY <1>13, <2>1, <2>2, UsingOnly
<1>15. f.tag = k.tag /\ f.using = Adds(p.using, c[1], n - p.tag[c].count)
  BY <1>14, CurrentOnly DEF f
<1>16. Resizes(p, f, c, n)
  BY <1>5, GrowFacts
<1>17. Counted(f)
  BY <1>1, <1>15, <1>16, ResizedCounts
<1> QED BY <1>5, <1>13, <1>15, <1>17 DEF Neat

\* mp_realloc, by each of its paths.
LEMMA ReallocNeat ==
  ASSUME NEW p, Good(p), Neat(p), NEW c \in Used(p.tag), NEW n \in Nat \ {0},
         NEW m \in {"ok", "none", "torn"}
  PROVE  Neat(MpRealloc(p, c, n, m).pool)
<1> DEFINE r == MpAlloc(p, n, m)
           count == p.tag[c].count
           cut == Use(Cut(p, c, count, n), c[1], n - count)
<1>1. count \in Nat
  BY UsedPlace
<1>2. CASE n = count
  BY <1>2 DEF MpRealloc, Result
<1>3. CASE n < count
  <2>1. MpRealloc(p, c, n, m) = Result(cut, c)
    BY <1>1, <1>3 DEF MpRealloc
  <2>2. Neat(cut)
    BY <1>3, ShrinkNeat
  <2> QED BY <2>1, <2>2 DEF Result
<1>4. CASE n > count /\ CanGrow(p, c, n)
  <2>1. MpRealloc(p, c, n, m) = Result(Grow(p, c, n), c)
    BY <1>1, <1>4 DEF MpRealloc
  <2>2. Neat(Grow(p, c, n))
    BY <1>4, GrowNeat
  <2> QED BY <2>1, <2>2 DEF Result
<1>5. CASE n > count /\ ~CanGrow(p, c, n)
  <2>1. MpRealloc(p, c, n, m) = IF r.at = Null THEN r ELSE Result(MpFree(r.pool, c), r.at)
    BY <1>1, <1>5 DEF MpRealloc
  <2>2. AllocGives(p, r, n, m) /\ Neat(r.pool)
    BY AllocFacts, AllocNeat
  <2> HIDE DEF r
  <2>3. CASE r.at = Null
    BY <2>1, <2>2, <2>3
  <2>4. CASE r.at # Null
    <3>1. Good(r.pool) /\ Granted(p.tag, r, n)
      BY <2>2, <2>4 DEF AllocGives
    <3>2. c \in Used(r.pool.tag)
      BY <3>1 DEF Granted, Others
    <3>3. Neat(MpFree(r.pool, c))
      BY <2>2, <3>1, <3>2, FreeNeat
    <3> QED BY <2>1, <2>4, <3>3 DEF Result
  <2> QED BY <2>3, <2>4
<1> QED BY <1>1, <1>2, <1>3, <1>4, <1>5

-----------------------------------------------------------------------------
(* The pool between calls.                                                 *)

\* The pool mp_new_pool makes is one free run.
LEMMA InitNeat == Init => Neat(pool)
<1> SUFFICES ASSUME Init PROVE Neat(pool)
  OBVIOUS
<1> DEFINE head == <<1, 0>>
           tag == Tag(InitChunks, 0, FALSE)
<1>1. /\ pool.size = <<InitChunks>> /\ pool.using = <<0>>
      /\ DOMAIN pool.tag = {head} /\ pool.tag[head] = tag
  BY DEF Init
<1>2. tag.count = InitChunks /\ ~tag.using /\ InitChunks \in Nat \ {0}
  BY MemPoolAssumption DEF Tag
<1> HIDE DEF tag
<1>3. After(pool.tag, head) # head
  <2>1. After(pool.tag, head) = <<1, 0 + tag.count>>
    BY <1>1 DEF After
  <2>2. 0 + tag.count # 0
    BY <1>2
  <2> QED BY <2>1, <2>2
<1>4. Tight(pool.tag)
  BY <1>1, <1>3 DEF Tight, TightAt
<1>5. Used(pool.tag) = {}
  BY <1>1, <1>2 DEF Used
<1>6. Len(pool.size) = 1 /\ pool.using[1] = 0
  BY <1>1
<1>7. CellsIn(pool.tag, Used(pool.tag), 1) = {}
  BY <1>5 DEF CellsIn
<1>8. Counted(pool)
  BY <1>6, <1>7, FS_EmptySet DEF Counted
<1> QED BY <1>4, <1>8 DEF Neat

\* Every step leaves the pool neat.
LEMMA NextNeat ==
  ASSUME SizesFit, IInv, Neat(pool), [Next]_vars
  PROVE  Neat(pool')
<1>1. Good(pool)
  BY DEF IInv
<1>2. \A m \in Memory : m \in {"ok", "none", "torn"}
  BY DEF Memory
<1>3. ASSUME NEW s \in Slot, NEW bytes \in Sizes, Alloc(s, bytes) PROVE Neat(pool')
  <2> DEFINE n == NeedChunkCount(bytes)
  <2>1. PICK m \in Memory : pool' = MpAlloc(pool, n, m).pool
    BY <1>3 DEF Alloc, Settle
  <2>2. n \in Nat \ {0}
    BY NeedOfSize
  <2> HIDE DEF n
  <2> QED BY <1>1, <1>2, <2>1, <2>2, AllocNeat
<1>4. ASSUME NEW s \in Slot, live[s] # Null PROVE live[s].at \in Used(pool.tag)
  BY <1>4 DEF IInv, HasRoom
<1>5. ASSUME NEW s \in Slot, NEW bytes \in Sizes, Realloc(s, bytes) PROVE Neat(pool')
  <2> DEFINE n == NeedChunkCount(bytes)
             c == live[s].at
  <2>1. c \in Used(pool.tag)
    BY <1>4, <1>5 DEF Realloc
  <2>2. n \in Nat \ {0}
    BY NeedOfSize
  <2>3. \/ pool' = pool
        \/ \E m \in Memory : pool' = MpRealloc(pool, c, n, m).pool
    BY <1>5 DEF Realloc, Settle, Result
  <2> HIDE DEF n, c
  <2> QED BY <1>1, <1>2, <2>1, <2>2, <2>3, ReallocNeat
<1>6. ASSUME NEW s \in Slot, Free(s) PROVE Neat(pool')
  <2>1. live[s].at \in Used(pool.tag)
    BY <1>4, <1>6 DEF Free
  <2>2. pool' = pool \/ pool' = MpFree(pool, live[s].at)
    BY <1>6 DEF Free
  <2> QED BY <1>1, <2>1, <2>2, FreeNeat
<1>7. ASSUME Close \/ FreePool \/ UNCHANGED vars PROVE Neat(pool')
  BY <1>7 DEF Close, FreePool, vars
<1> QED BY <1>3, <1>5, <1>6, <1>7 DEF Next

\* A neat pool is coalesced, and its counters add up.
LEMMA NeatIs == Neat(pool) => Coalesced /\ UseCountsAddUp
<1> SUFFICES ASSUME Neat(pool) PROVE Coalesced /\ UseCountsAddUp
  OBVIOUS
<1>1. Coalesced
  BY DEF Neat, Tight, TightAt, Coalesced, Heads
<1>2. ASSUME NEW b \in Blocks(pool)
      PROVE  pool.using[b] = Cardinality(UNION {CellsOf(c) :
               c \in {x \in Heads(pool) : x[1] = b /\ pool.tag[x].using}})
  <2>1. {x \in Heads(pool) : x[1] = b /\ pool.tag[x].using} = {x \in Used(pool.tag) : x[1] = b}
    BY DEF Used, Heads
  <2>2. \A c : CellsOf(c) = Cells(pool.tag, c)
    BY DEF CellsOf, Cells
  <2>3. UNION {CellsOf(c) : c \in {x \in Heads(pool) : x[1] = b /\ pool.tag[x].using}}
          = CellsIn(pool.tag, Used(pool.tag), b)
    BY <2>1, <2>2 DEF CellsIn
  <2> QED BY <2>3 DEF Neat, Counted, Blocks
<1> QED BY <1>1, <1>2 DEF UseCountsAddUp

\* The pool is neat after any sequence of calls of m_alloc.
THEOREM AlwaysNeat == SizesFit /\ Spec => [](Neat(pool))
<1> SUFFICES ASSUME SizesFit PROVE Spec => [](Neat(pool))
  OBVIOUS
<1>1. Spec => []IInv
  BY Invariant
<1>2. IInv /\ Neat(pool) /\ [Next]_vars => Neat(pool)'
  BY NextNeat
<1> QED BY <1>1, <1>2, InitNeat, PTL DEF Spec

\* Memory given back in any order is one run again: after any sequence of calls
\* no two neighbouring runs are free.
THEOREM FreeRunsAreJoined == SizesFit /\ Spec => []Coalesced
<1> SUFFICES ASSUME SizesFit PROVE Spec => []Coalesced
  OBVIOUS
<1>1. Spec => [](Neat(pool))
  BY AlwaysNeat
<1>2. Neat(pool) => Coalesced
  BY NeatIs
<1> QED BY <1>1, <1>2, PTL

\* using_count_arr is exact and never wraps, whatever was allocated, moved,
\* resized and freed: the blocks mp_alloc passes over have too few free chunks.
THEOREM CountersAreExact == SizesFit /\ Spec => []UseCountsAddUp
<1> SUFFICES ASSUME SizesFit PROVE Spec => []UseCountsAddUp
  OBVIOUS
<1>1. Spec => [](Neat(pool))
  BY AlwaysNeat
<1>2. Neat(pool) => UseCountsAddUp
  BY NeatIs
<1> QED BY <1>1, <1>2, PTL
=============================================================================
