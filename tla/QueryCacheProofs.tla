--------------------------- MODULE QueryCacheProofs ---------------------------
(***************************************************************************)
(* Theorems about QueryCache, for every set of statements and tables, any  *)
(* number of cursors and any size of the cache.                            *)
(***************************************************************************)
EXTENDS QueryCache, FiniteSetTheorems, WellFoundedInduction, TLAPS

-----------------------------------------------------------------------------
(* The smallest text exists, so eviction only ever drops a cached text. *)

LEMMA SmallestExists ==
  ASSUME NEW S \in SUBSET Nat, S # {}
  PROVE  Smallest(S) \in S
<1>1. PICK x \in S : \A y \in S : ~ (<<y, x>> \in OpToRel(<, Nat))
  BY NatLessThanWellFounded, WFMin, Zenon
<1>2. \A y \in S : ~ (y < x)
  BY <1>1 DEF OpToRel
<1>3. \A y \in S : x <= y
  BY <1>2
<1> QED BY <1>3 DEF Smallest

LEMMA LimitIsNat == Limit \in Nat /\ Limit > 0
BY LimitAssumption

LEMMA EvictedCached ==
  ASSUME NEW c, DOMAIN c \subseteq Text, NEW cmd
  PROVE  Evicted(c, cmd) \subseteq DOMAIN c
<1>1. DOMAIN c \in SUBSET Nat
  BY TextAssumption
<1>2. Full(c) => DOMAIN c # {}
  BY FS_EmptySet, LimitIsNat DEF Full
<1> QED BY <1>1, <1>2, SmallestExists DEF Evicted

-----------------------------------------------------------------------------
(* Rows under deletion. *)

LEMMA FreedTwice ==
  ASSUME NEW h, NEW A, NEW B
  PROVE  Freed(Freed(h, A), B) = Freed(h, A \cup B)
<1>1. DOMAIN Freed(h, A) = DOMAIN h \ A
  BY DEF Freed, Restrict
<1>2. (DOMAIN h \ A) \ B = DOMAIN h \ (A \cup B)
  OBVIOUS
<1>3. \A x \in DOMAIN h \ (A \cup B) : Freed(h, A)[x] = h[x]
  BY DEF Freed, Restrict
<1> QED BY <1>1, <1>2, <1>3 DEF Freed, Restrict

(* A cache c and a heap h whose rows are owned as RowsOwnedOnce demands.   *)
Owned(c, h) ==
  /\ DOMAIN c \subseteq Text
  /\ \A w \in DOMAIN c : c[w] \subseteq Row
  /\ DOMAIN h \subseteq Row
  /\ \A r \in DOMAIN h : h[r] \in [text : Query, value : Content]
  /\ DOMAIN h = RowsIn(c, DOMAIN c)
  /\ \A v, w \in DOMAIN c : v # w => c[v] \cap c[w] = {}
  /\ \A w \in DOMAIN c \ Query : c[w] = {}

(* Of the texts in d only those in New were not in c with the same rows.   *)
Carried(c, h, d, g, New) ==
  \A w \in DOMAIN d \ New :
    /\ w \in DOMAIN c /\ d[w] = c[w]
    /\ \A r \in d[w] : r \in DOMAIN g /\ g[r] = h[r]

\* Dropping texts together with their rows leaves every other row owned.
LEMMA DropOwned ==
  ASSUME NEW c, NEW h, Owned(c, h), NEW W \in SUBSET DOMAIN c
  PROVE  LET d == Restrict(c, DOMAIN c \ W)
             g == Freed(h, RowsIn(c, W))
         IN  Owned(d, g) /\ Carried(c, h, d, g, {})
<1> DEFINE d == Restrict(c, DOMAIN c \ W)
           g == Freed(h, RowsIn(c, W))
<1>1. DOMAIN d = DOMAIN c \ W /\ \A w \in DOMAIN d : d[w] = c[w]
  BY DEF Restrict
<1>2. DOMAIN g = DOMAIN h \ RowsIn(c, W) /\ \A r \in DOMAIN g : g[r] = h[r]
  BY DEF Freed, Restrict
<1> HIDE DEF d, g
<1>3. \A w \in DOMAIN d : \A r \in d[w] : r \in DOMAIN g
  <2> SUFFICES ASSUME NEW w \in DOMAIN d, NEW r \in d[w]
               PROVE  r \in DOMAIN g
    OBVIOUS
  <2>1. r \in c[w] /\ w \in DOMAIN c /\ w \notin W
    BY <1>1
  <2>2. r \in DOMAIN h
    BY <2>1 DEF Owned, RowsIn
  <2>3. \A v \in W : r \notin c[v]
    BY <2>1 DEF Owned
  <2> QED BY <2>2, <2>3, <1>2 DEF RowsIn
<1>4. DOMAIN g = RowsIn(d, DOMAIN d)
  <2>1. RowsIn(d, DOMAIN d) \subseteq DOMAIN g
    BY <1>3 DEF RowsIn
  <2>2. ASSUME NEW r \in DOMAIN g
        PROVE  r \in RowsIn(d, DOMAIN d)
    <3>1. PICK w \in DOMAIN c : r \in c[w]
      BY <1>2 DEF Owned, RowsIn
    <3>2. w \notin W
      BY <3>1, <1>2 DEF RowsIn
    <3> QED BY <3>1, <3>2, <1>1 DEF RowsIn
  <2> QED BY <2>1, <2>2
<1>5. Owned(d, g)
  <2>1. DOMAIN d \subseteq Text /\ DOMAIN g \subseteq Row
    BY <1>1, <1>2 DEF Owned
  <2>2. \A w \in DOMAIN d : d[w] \subseteq Row
    BY <1>1 DEF Owned
  <2>3. \A r \in DOMAIN g : g[r] \in [text : Query, value : Content]
    BY <1>2 DEF Owned
  <2>4. \A v, w \in DOMAIN d : v # w => d[v] \cap d[w] = {}
    BY <1>1 DEF Owned
  <2>5. \A w \in DOMAIN d \ Query : d[w] = {}
    BY <1>1 DEF Owned
  <2> QED BY <2>1, <2>2, <2>3, <2>4, <2>5, <1>4 DEF Owned
<1>6. Carried(c, h, d, g, {})
  BY <1>1, <1>2, <1>3 DEF Carried
<1> QED BY <1>5, <1>6 DEF d, g

\* The heap after new rows of a query have been put into it.
Grown(h, rows, q, v) ==
  [x \in DOMAIN h \cup rows |->
      IF x \in rows THEN [text |-> q, value |-> v] ELSE h[x]]

\* Storing rows nobody owns under a text not cached keeps every row owned.
LEMMA AddOwned ==
  ASSUME NEW c, NEW h, Owned(c, h), NEW cmd \in Text, cmd \notin DOMAIN c,
         NEW rows \in SUBSET Row, rows \cap DOMAIN h = {},
         cmd \in Query \/ rows = {}, NEW v \in Content
  PROVE  LET d == [w \in DOMAIN c \cup {cmd} |->
                      IF w = cmd THEN rows ELSE c[w]]
             g == Grown(h, rows, cmd, v)
         IN  Owned(d, g) /\ Carried(c, h, d, g, {cmd})
<1> DEFINE d == [w \in DOMAIN c \cup {cmd} |-> IF w = cmd THEN rows ELSE c[w]]
           g == Grown(h, rows, cmd, v)
<1>1. /\ DOMAIN d = DOMAIN c \cup {cmd} /\ d[cmd] = rows
      /\ \A w \in DOMAIN c : d[w] = c[w]
  OBVIOUS
<1>2. /\ DOMAIN g = DOMAIN h \cup rows
      /\ \A r \in rows : g[r] = [text |-> cmd, value |-> v]
      /\ \A r \in DOMAIN h : g[r] = h[r]
  BY DEF Grown
<1> HIDE DEF d, g
<1>3. \A w \in DOMAIN c : c[w] \subseteq DOMAIN h
  BY DEF Owned, RowsIn
<1>4. DOMAIN g = RowsIn(d, DOMAIN d)
  <2>1. RowsIn(d, DOMAIN d) = RowsIn(c, DOMAIN c) \cup rows
    BY <1>1 DEF RowsIn
  <2> QED BY <2>1, <1>2 DEF Owned
<1>5. Owned(d, g)
  <2>1. DOMAIN d \subseteq Text /\ DOMAIN g \subseteq Row
    BY <1>1, <1>2 DEF Owned
  <2>2. \A w \in DOMAIN d : d[w] \subseteq Row
    BY <1>1 DEF Owned
  <2>3. \A r \in DOMAIN g : g[r] \in [text : Query, value : Content]
    BY <1>2 DEF Owned
  <2>4. ASSUME NEW u \in DOMAIN d, NEW w \in DOMAIN d, u # w
        PROVE  d[u] \cap d[w] = {}
    <3>1. CASE u # cmd /\ w # cmd
      BY <3>1, <2>4, <1>1 DEF Owned
    <3>2. CASE u = cmd
      BY <3>2, <2>4, <1>1, <1>3
    <3>3. CASE w = cmd
      BY <3>3, <2>4, <1>1, <1>3
    <3> QED BY <3>1, <3>2, <3>3
  <2>5. \A w \in DOMAIN d \ Query : d[w] = {}
    BY <1>1 DEF Owned
  <2> QED BY <2>1, <2>2, <2>3, <2>4, <2>5, <1>4 DEF Owned
<1>6. Carried(c, h, d, g, {cmd})
  BY <1>1, <1>2, <1>3 DEF Carried
<1> QED BY <1>5, <1>6 DEF d, g

LEMMA CarriedOn ==
  ASSUME NEW c, NEW h, NEW d, NEW g, NEW e, NEW k, NEW A, NEW B,
         Carried(c, h, d, g, A), Carried(d, g, e, k, B)
  PROVE  Carried(c, h, e, k, A \cup B)
BY DEF Carried

\* cacheQueryResult: what makes room goes, what is stored is owned.
LEMMA StoreOwned ==
  ASSUME NEW c, NEW h, Owned(c, h), NEW cmd \in Text,
         NEW rows \in SUBSET Row, rows \cap DOMAIN h = {},
         cmd \in Query \/ rows = {}, NEW v \in Content
  PROVE  LET d == Stored(c, cmd, rows)
             g == Grown(Freed(h, RowsIn(c, Evicted(c, cmd))), rows, cmd, v)
         IN  Owned(d, g) /\ Carried(c, h, d, g, {cmd})
<1> DEFINE W == Evicted(c, cmd)
           b == Restrict(c, DOMAIN c \ W)
           k == Freed(h, RowsIn(c, W))
           d == [w \in DOMAIN b \cup {cmd} |-> IF w = cmd THEN rows ELSE b[w]]
           g == Grown(k, rows, cmd, v)
<1>1. W \in SUBSET DOMAIN c
  BY EvictedCached DEF Owned
<1>2. Owned(b, k) /\ Carried(c, h, b, k, {})
  BY <1>1, DropOwned
<1>3. DOMAIN b = DOMAIN c \ W /\ \A w \in DOMAIN b : b[w] = c[w]
  BY DEF Restrict
<1>4. cmd \notin DOMAIN b
  BY <1>3 DEF Evicted
<1>5. rows \cap DOMAIN k = {}
  BY DEF Freed, Restrict
<1>6. Owned(d, g) /\ Carried(b, k, d, g, {cmd})
  <2> HIDE DEF b, k
  <2> QED BY <1>2, <1>4, <1>5, AddOwned
<1>7. d = Stored(c, cmd, rows)
  BY <1>3 DEF Stored
<1>8. Carried(c, h, d, g, {} \cup {cmd})
  BY <1>2, <1>6, CarriedOn, Zenon
<1>9. {} \cup {cmd} = {cmd}
  OBVIOUS
<1> QED BY <1>6, <1>7, <1>8, <1>9

LEMMA GrownByNothing ==
  ASSUME NEW h, NEW A, NEW q, NEW v
  PROVE  Grown(Freed(h, A), {}, q, v) = Freed(h, A)
BY DEF Grown, Freed, Restrict

\* A statement that is no query is stored with no rows.
LEMMA StoreNothing ==
  ASSUME NEW c, NEW h, Owned(c, h), NEW cmd \in Text
  PROVE  LET d == Stored(c, cmd, {})
             g == Freed(h, RowsIn(c, Evicted(c, cmd)))
         IN  Owned(d, g) /\ Carried(c, h, d, g, {cmd})
<1>1. {} \in SUBSET Row /\ {} \cap DOMAIN h = {} /\ 0 \in Content
  BY ContentAssumption
<1> DEFINE A == RowsIn(c, Evicted(c, cmd))
<1>2. LET g == Grown(Freed(h, A), {}, cmd, 0)
      IN  /\ Owned(Stored(c, cmd, {}), g)
          /\ Carried(c, h, Stored(c, cmd, {}), g, {cmd})
  BY <1>1, StoreOwned
<1>3. Grown(Freed(h, A), {}, cmd, 0) = Freed(h, A)
  BY GrownByNothing
<1> QED BY <1>2, <1>3

-----------------------------------------------------------------------------
(* The size of the cache. *)

\* Room is made before a text is stored: the limit is kept.
LEMMA StoreWithin ==
  ASSUME NEW c, DOMAIN c \subseteq Text, Cardinality(DOMAIN c) <= Limit,
         NEW cmd, NEW rows
  PROVE  Cardinality(DOMAIN Stored(c, cmd, rows)) <= Limit
<1> DEFINE D == DOMAIN c
           K == D \ Evicted(c, cmd)
<1>1. IsFiniteSet(D) /\ Cardinality(D) \in Nat
  BY TextAssumption, FS_Subset, FS_CardinalityType
<1>2. DOMAIN Stored(c, cmd, rows) = K \cup {cmd}
  BY DEF Stored
<1>3. IsFiniteSet(K) /\ Cardinality(K) \in Nat
  BY <1>1, FS_Subset, FS_CardinalityType
<1>4. \/ Cardinality(K \cup {cmd}) = Cardinality(K)
      \/ Cardinality(K \cup {cmd}) = Cardinality(K) + 1
  BY <1>3, FS_AddElement
<1>5. CASE Full(c)
  <2> DEFINE m == Smallest(D)
  <2>1. D # {}
    BY <1>5, LimitIsNat, FS_EmptySet DEF Full
  <2>2. m \in D
    BY <2>1, SmallestExists, TextAssumption
  <2>3. K \in SUBSET (D \ {m})
    BY <1>5 DEF Evicted
  <2>4. IsFiniteSet(D \ {m}) /\ Cardinality(D \ {m}) = Cardinality(D) - 1
    BY <1>1, <2>2, FS_RemoveElement
  <2>5. Cardinality(K) <= Cardinality(D) - 1
    BY <2>3, <2>4, FS_Subset
  <2> QED BY <1>1, <1>2, <1>3, <1>4, <2>5, LimitIsNat
<1>6. CASE ~ Full(c)
  <2>1. Cardinality(K) <= Cardinality(D)
    BY <1>1, FS_Subset
  <2>2. Cardinality(D) < Limit
    BY <1>1, <1>6, LimitIsNat DEF Full
  <2> QED BY <1>1, <1>2, <1>3, <1>4, <2>1, <2>2, LimitIsNat
<1> QED BY <1>5, <1>6

LEMMA RefreshWithin ==
  ASSUME NEW c, DOMAIN c \subseteq Text, Cardinality(DOMAIN c) <= Limit, NEW t
  PROVE  Cardinality(DOMAIN Refreshed(c, t)) <= Limit
<1>1. IsFiniteSet(DOMAIN c) /\ Cardinality(DOMAIN c) \in Nat
  BY TextAssumption, FS_Subset, FS_CardinalityType
<1>2. DOMAIN Refreshed(c, t) \in SUBSET DOMAIN c
  BY DEF Refreshed, Restrict
<1>3. /\ Cardinality(DOMAIN Refreshed(c, t)) \in Nat
      /\ Cardinality(DOMAIN Refreshed(c, t)) <= Cardinality(DOMAIN c)
  BY <1>1, <1>2, FS_Subset, FS_CardinalityType
<1> QED BY <1>1, <1>3, LimitIsNat

-----------------------------------------------------------------------------
(* The inductive invariant. *)

\* A text is cached only after a statement has been accepted.
ExecutedBefore == DOMAIN cache # {} => lastCmd # NoCmd

\* The rows of a cursor that may be read are those of its text in the cache.
Shares(d, c) ==
  d.open /\ d.text # NoCmd => d.text \in DOMAIN c /\ d.rows = c[d.text]

CursorsShare == \A c \in Cursor : Shares(cursor[c], cache)

IInv == /\ TypeOK
        /\ RowsOwnedOnce
        /\ CacheCoherent
        /\ CacheWithinLimit
        /\ CursorsShare
        /\ ExecutedBefore

\* A text cached before and after a step has the same rows.
Kept(c, d) == \A w \in DOMAIN c \cap DOMAIN d : d[w] = c[w]

CursorType == [Cursor -> OpenCursor \cup {Closed}]

LEMMA TableTyped ==
  /\ \A w \in Text : w \in Nat /\ w # NoCmd /\ TableOf[w] \in Table
  /\ \A q \in Query : q \in Text
  /\ \A w \in Insertion \cup Change : w \in Text /\ w \notin Query
BY TextAssumption DEF Text, Table

LEMMA OwnedNow ==
  ASSUME TypeOK, RowsOwnedOnce
  PROVE  Owned(cache, heap)
BY DEF TypeOK, RowsOwnedOnce, Owned

LEMMA OwnedThen ==
  ASSUME db' \in [Table -> Content], Owned(cache', heap'),
         result' \in SUBSET Row, lastCmd' \in Text \cup {NoCmd},
         cursor' \in CursorType, repeated' \subseteq Table
  PROVE  TypeOK' /\ RowsOwnedOnce'
BY DEF TypeOK, RowsOwnedOnce, Owned, CursorType

\* What a statement did not touch stays coherent.
LEMMA CarriedCoherent ==
  ASSUME NEW w, CacheCoherent, Carried(cache, heap, cache', heap', {w}),
         NEW q \in (DOMAIN cache' \cap Query) \ {w}, TableOf[q] \notin repeated,
         db'[TableOf[q]] = db[TableOf[q]]
  PROVE  Shows(cache[q], q)'
BY DEF CacheCoherent, Carried, Shows

LEMMA CarriedKept ==
  ASSUME NEW c, NEW h, NEW d, NEW g, NEW w, Carried(c, h, d, g, {w}),
         w \in DOMAIN c \cap DOMAIN d => d[w] = c[w]
  PROVE  Kept(c, d)
BY DEF Carried, Kept

LEMMA OutlivedShares ==
  ASSUME NEW d \in OpenCursor \cup {Closed}, Shares(d, cache),
         Kept(cache, cache')
  PROVE  /\ Outlived(d) \in OpenCursor \cup {Closed}
         /\ Shares(Outlived(d), cache')
<1>1. CASE d = Closed
  BY <1>1 DEF Outlived, Closed, Shares
<1>2. CASE d \in OpenCursor /\ d.text \in DOMAIN cache'
  <2>1. Outlived(d) = d
    BY <1>2 DEF Outlived
  <2> QED BY <1>2, <2>1 DEF Shares, Kept
<1>3. CASE d \in OpenCursor /\ d.text \notin DOMAIN cache'
  <2> DEFINE e == [d EXCEPT !.text = NoCmd]
  <2>1. Outlived(d) = e
    BY <1>3 DEF Outlived, OpenCursor
  <2>2. e \in OpenCursor /\ e.text = NoCmd
    BY <1>3 DEF OpenCursor
  <2> HIDE DEF e
  <2> QED BY <2>1, <2>2 DEF Shares
<1> QED BY <1>1, <1>2, <1>3

\* A query that reaches the database.
LEMMA QueryStep ==
  ASSUME IInv, NEW q \in Query, q \notin DOMAIN cache,
         NEW r \in Row \ DOMAIN heap, ExecQuery(q, r)
  PROVE  /\ Owned(cache', heap') /\ CacheCoherent' /\ CacheWithinLimit'
         /\ q \in DOMAIN cache' /\ cache'[q] = result' /\ Kept(cache, cache')
         /\ result' \in SUBSET Row
         /\ lastCmd' = q /\ db' = db /\ repeated' = repeated
<1> DEFINE rows == Cleared \cup (IF db[TableOf[q]] = 0 THEN {} ELSE {r})
           v == db[TableOf[q]]
           g == Grown(Freed(heap, RowsIn(cache, Evicted(cache, q))), rows, q, v)
<1>1. Owned(cache, heap)
  BY OwnedNow DEF IInv
<1>2. v \in Content /\ q \in Text
  BY TableTyped DEF IInv, TypeOK
<1>3. rows \in SUBSET Row /\ rows \cap DOMAIN heap = {}
  BY DEF Cleared
<1>4. /\ cache' = Stored(cache, q, rows) /\ heap' = g
      /\ result' = rows /\ lastCmd' = q /\ db' = db /\ repeated' = repeated
  BY DEF ExecQuery, Cleared, Executed, Grown
<1>5. Owned(cache', heap') /\ Carried(cache, heap, cache', heap', {q})
  <2> HIDE DEF rows, v
  <2> QED BY <1>1, <1>2, <1>3, <1>4, StoreOwned
<1>6. /\ \A x \in rows : x \in DOMAIN g /\ g[x] = [text |-> q, value |-> v]
      /\ rows = {} <=> v = 0
  BY DEF Grown, Cleared
<1>7. Shows(result, q)'
  BY <1>4, <1>6 DEF Shows
<1>8. q \in DOMAIN cache' /\ cache'[q] = result'
  BY <1>4 DEF Stored
<1>9. CacheCoherent'
  <2> SUFFICES ASSUME NEW p \in DOMAIN cache' \cap Query,
                      TableOf[p] \notin repeated'
               PROVE  Shows(cache[p], p)'
    BY DEF CacheCoherent
  <2>1. CASE p = q
    BY <2>1, <1>7, <1>8 DEF Shows
  <2>2. CASE p # q
    BY <2>2, <1>4, <1>5, CarriedCoherent DEF IInv
  <2> QED BY <2>1, <2>2
<1>10. CacheWithinLimit'
  BY <1>1, <1>4, StoreWithin DEF IInv, CacheWithinLimit, Owned
<1>11. Kept(cache, cache')
  BY <1>5, CarriedKept
<1> QED BY <1>3, <1>4, <1>5, <1>8, <1>9, <1>10, <1>11

\* A write changes no table but its own.
LEMMA OtherTables ==
  ASSUME TypeOK, NEW w \in Text, NEW x, db' = [db EXCEPT ![TableOf[w]] = x],
         NEW q \in Text, TableOf[w] \notin Mentions[q]
  PROVE  TableOf[q] # TableOf[w] /\ db'[TableOf[q]] = db[TableOf[q]]
<1>1. TableOf[q] # TableOf[w] /\ TableOf[q] \in Table
  BY TextAssumption, TableTyped
<1> QED BY <1>1 DEF TypeOK

\* The texts left by refreshTableCache do not mention the table.
LEMMA RefreshedOthers ==
  ASSUME NEW c, NEW t
  PROVE  \A q \in DOMAIN Refreshed(c, t) : t \notin Mentions[q]
BY DEF Refreshed, Restrict, Outdated

\* A refused write: the cache of the table is dropped.
LEMMA RefusedStep ==
  ASSUME IInv, NEW w \in Insertion \cup Change, InsertFails(w)
  PROVE  /\ Owned(cache', heap') /\ CacheCoherent' /\ CacheWithinLimit'
         /\ DOMAIN cache' \subseteq DOMAIN cache /\ Kept(cache, cache')
<1> DEFINE t == TableOf[w]
<1>1. Owned(cache, heap)
  BY OwnedNow DEF IInv
<1>2. Outdated(cache, t) \in SUBSET DOMAIN cache
  BY DEF Outdated
<1>3. /\ cache' = Refreshed(cache, t)
      /\ heap' = Freed(heap, RowsIn(cache, Outdated(cache, t)))
      /\ db' = db /\ repeated' = repeated \ {t}
  BY DEF InsertFails
<1>4. Owned(cache', heap') /\ Carried(cache, heap, cache', heap', {})
  BY <1>1, <1>2, <1>3, DropOwned DEF Refreshed
<1>5. CacheCoherent'
  <2> SUFFICES ASSUME NEW q \in DOMAIN cache' \cap Query,
                      TableOf[q] \notin repeated'
               PROVE  Shows(cache[q], q)'
    BY DEF CacheCoherent
  <2>1. t \notin Mentions[q]
    BY <1>3, RefreshedOthers
  <2>2. TableOf[q] # t
    BY <2>1, TextAssumption, TableTyped
  <2> QED BY <1>3, <1>4, <2>2 DEF IInv, CacheCoherent, Carried, Shows
<1>6. CacheWithinLimit'
  BY <1>1, <1>3, RefreshWithin DEF IInv, CacheWithinLimit, Owned
<1>7. DOMAIN cache' \subseteq DOMAIN cache
  BY <1>3 DEF Refreshed, Restrict
<1>8. Kept(cache, cache')
  BY <1>4 DEF Carried, Kept
<1> QED BY <1>4, <1>5, <1>6, <1>7, <1>8

LEMMA InsertStep ==
  ASSUME IInv, NEW w \in Insertion, NEW x \in Content, InsertSucceeds(w, x)
  PROVE  /\ Owned(cache', heap') /\ CacheCoherent' /\ CacheWithinLimit'
         /\ Kept(cache, cache')
<1> DEFINE t == TableOf[w]
           c1 == Stored(cache, w, {})
           h1 == Freed(heap, RowsIn(cache, Evicted(cache, w)))
           W == Outdated(c1, t)
<1>1. Owned(cache, heap) /\ w \in Text /\ w \notin Query
  BY OwnedNow, TableTyped DEF IInv
<1>2. Owned(c1, h1) /\ Carried(cache, heap, c1, h1, {w})
  BY <1>1, StoreNothing
<1>3. W \in SUBSET DOMAIN c1
  BY DEF Outdated
<1>4. /\ cache' = Refreshed(c1, t)
      /\ heap' = Freed(h1, RowsIn(c1, W))
      /\ db' = [db EXCEPT ![t] = x] /\ repeated' = repeated \ {t}
  BY FreedTwice DEF InsertSucceeds, Cleared
<1>5. Owned(cache', heap') /\ Carried(c1, h1, cache', heap', {})
  <2> HIDE DEF c1, h1
  <2> QED BY <1>2, <1>3, <1>4, DropOwned DEF Refreshed
<1>6. Carried(cache, heap, cache', heap', {w} \cup {})
  BY <1>2, <1>5, CarriedOn, Zenon
<1>7. {w} \cup {} = {w}
  OBVIOUS
<1>8. CacheCoherent'
  <2> SUFFICES ASSUME NEW q \in DOMAIN cache' \cap Query,
                      TableOf[q] \notin repeated'
               PROVE  Shows(cache[q], q)'
    BY DEF CacheCoherent
  <2>1. t \notin Mentions[q]
    BY <1>4, RefreshedOthers
  <2>2. TableOf[q] # t /\ db'[TableOf[q]] = db[TableOf[q]]
    BY <2>1, <1>1, <1>4, OtherTables, TableTyped DEF IInv
  <2>3. TableOf[q] \notin repeated
    BY <2>2, <1>4
  <2> QED BY <2>2, <2>3, <1>1, <1>6, <1>7, CarriedCoherent DEF IInv
<1>9. CacheWithinLimit'
  <2>1. Cardinality(DOMAIN c1) <= Limit
    BY <1>1, StoreWithin DEF IInv, CacheWithinLimit, Owned
  <2> HIDE DEF c1
  <2> QED BY <2>1, <1>2, <1>4, RefreshWithin DEF CacheWithinLimit, Owned
<1>10. Kept(cache, cache')
  <2>1. w \notin DOMAIN cache'
    BY <1>1, <1>4, RefreshedOthers, TextAssumption
  <2> QED BY <2>1, <1>6, <1>7, CarriedKept
<1> QED BY <1>5, <1>8, <1>9, <1>10

LEMMA ChangeStep ==
  ASSUME IInv, NEW w \in Change, NEW x \in Content, ChangeSucceeds(w, x)
  PROVE  /\ Owned(cache', heap') /\ CacheCoherent' /\ CacheWithinLimit'
         /\ Kept(cache, cache')
<1> DEFINE t == TableOf[w]
           W == Outdated(cache, t)
           c1 == Refreshed(cache, t)
           h1 == Freed(heap, RowsIn(cache, W))
<1>1. Owned(cache, heap) /\ w \in Text /\ w \notin Query
  BY OwnedNow, TableTyped DEF IInv
<1>2. W \in SUBSET DOMAIN cache
  BY DEF Outdated
<1>3. Owned(c1, h1) /\ Carried(cache, heap, c1, h1, {})
  BY <1>1, <1>2, DropOwned DEF Refreshed
<1>4. /\ cache' = Stored(c1, w, {})
      /\ heap' = Freed(h1, RowsIn(c1, Evicted(c1, w)))
      /\ db' = [db EXCEPT ![t] = x] /\ repeated' = repeated \ {t}
  BY FreedTwice DEF ChangeSucceeds, Cleared
<1>5. Owned(cache', heap') /\ Carried(c1, h1, cache', heap', {w})
  <2> HIDE DEF c1, h1
  <2> QED BY <1>1, <1>3, <1>4, StoreNothing
<1>6. Carried(cache, heap, cache', heap', {} \cup {w})
  BY <1>3, <1>5, CarriedOn, Zenon
<1>7. {} \cup {w} = {w}
  OBVIOUS
<1>8. CacheCoherent'
  <2> SUFFICES ASSUME NEW q \in DOMAIN cache' \cap Query,
                      TableOf[q] \notin repeated'
               PROVE  Shows(cache[q], q)'
    BY DEF CacheCoherent
  <2>1. q \in DOMAIN c1 /\ q # w
    BY <1>1, <1>4 DEF Stored
  <2>2. t \notin Mentions[q]
    BY <2>1, RefreshedOthers
  <2>3. TableOf[q] # t /\ db'[TableOf[q]] = db[TableOf[q]]
    BY <2>2, <1>1, <1>4, OtherTables, TableTyped DEF IInv
  <2>4. TableOf[q] \notin repeated
    BY <2>3, <1>4
  <2> QED BY <2>1, <2>3, <2>4, <1>6, <1>7, CarriedCoherent DEF IInv
<1>9. CacheWithinLimit'
  <2>1. Cardinality(DOMAIN c1) <= Limit
    BY <1>1, RefreshWithin DEF IInv, CacheWithinLimit, Owned
  <2> HIDE DEF c1
  <2> QED BY <2>1, <1>3, <1>4, StoreWithin DEF CacheWithinLimit, Owned
<1>10. Kept(cache, cache')
  <2>1. cache'[w] = {}
    BY <1>4 DEF Stored
  <2>2. w \in DOMAIN cache => cache[w] = {}
    BY <1>1 DEF IInv, RowsOwnedOnce
  <2> QED BY <2>1, <2>2, <1>6, <1>7, CarriedKept
<1> QED BY <1>5, <1>8, <1>9, <1>10

\* A write repeated by requery() spoils the cache of no table but its own.
LEMMA RepeatedStep ==
  ASSUME IInv, NEW c \in Cursor, NEW x \in Content, RequeryWrites(c, x),
         cursor[c].cmd \in Text
  PROVE  /\ Owned(cache', heap') /\ CacheCoherent' /\ CacheWithinLimit'
         /\ Kept(cache, cache') /\ db' \in [Table -> Content]
         /\ cursor[c].cmd \in DOMAIN cache' /\ cache'[cursor[c].cmd] = {}
<1> DEFINE w == cursor[c].cmd
<1>1. Owned(cache, heap) /\ w \in Text
  BY OwnedNow DEF IInv
<1>2. /\ cache' = Stored(cache, w, {})
      /\ heap' = Freed(heap, RowsIn(cache, Evicted(cache, w)))
      /\ db' = [db EXCEPT ![TableOf[w]] = x]
      /\ repeated' = repeated \cup {TableOf[w]}
      /\ w \notin Query /\ w \notin DOMAIN cache
  BY DEF RequeryWrites, Cleared
<1> HIDE DEF w
<1>3. Owned(cache', heap') /\ Carried(cache, heap, cache', heap', {w})
  BY <1>1, <1>2, StoreNothing
<1>4. CacheCoherent'
  <2> SUFFICES ASSUME NEW q \in DOMAIN cache' \cap Query,
                      TableOf[q] \notin repeated'
               PROVE  Shows(cache[q], q)'
    BY DEF CacheCoherent
  <2>1. TableOf[q] \notin repeated /\ TableOf[q] # TableOf[w] /\ q # w
    BY <1>2
  <2>2. db'[TableOf[q]] = db[TableOf[q]]
    BY <2>1, <1>2, TableTyped DEF IInv, TypeOK
  <2> QED BY <2>1, <2>2, <1>3, CarriedCoherent DEF IInv
<1>5. CacheWithinLimit'
  BY <1>1, <1>2, StoreWithin DEF IInv, CacheWithinLimit, Owned
<1>6. Kept(cache, cache')
  BY <1>2, <1>3, CarriedKept
<1>7. db' \in [Table -> Content]
  BY <1>2 DEF IInv, TypeOK
<1>8. w \in DOMAIN cache' /\ cache'[w] = {}
  BY <1>2 DEF Stored
<1> QED BY <1>3, <1>4, <1>5, <1>6, <1>7, <1>8 DEF w

\* Every cursor but one outlives the statement, as far as its text does.
LEMMA OutlivedCursors ==
  ASSUME IInv, Kept(cache, cache'), NEW c \in Cursor, NEW e \in OpenCursor,
         cursor' = [d \in Cursor |-> IF d = c THEN e ELSE Outlived(cursor[d])],
         Shares(e, cache')
  PROVE  cursor' \in CursorType /\ CursorsShare'
<1>1. ASSUME NEW d \in Cursor \ {c}
      PROVE  /\ cursor'[d] \in OpenCursor \cup {Closed}
             /\ Shares(cursor'[d], cache')
  <2>1. cursor[d] \in OpenCursor \cup {Closed} /\ Shares(cursor[d], cache)
    BY DEF IInv, TypeOK, CursorsShare
  <2>2. cursor'[d] = Outlived(cursor[d])
    OBVIOUS
  <2> QED BY <2>1, <2>2, OutlivedShares
<1>2. cursor'[c] = e
  OBVIOUS
<1>3. CursorsShare'
  BY <1>1, <1>2 DEF CursorsShare
<1>4. cursor' \in CursorType
  BY <1>1, <1>2 DEF CursorType
<1> QED BY <1>3, <1>4

LEMMA AllOutlived ==
  ASSUME IInv, Kept(cache, cache'),
         cursor' = [d \in Cursor |-> Outlived(cursor[d])]
  PROVE  cursor' \in CursorType /\ CursorsShare'
<1>1. ASSUME NEW d \in Cursor
      PROVE  /\ cursor'[d] \in OpenCursor \cup {Closed}
             /\ Shares(cursor'[d], cache')
  <2>1. cursor[d] \in OpenCursor \cup {Closed} /\ Shares(cursor[d], cache)
    BY DEF IInv, TypeOK, CursorsShare
  <2>2. cursor'[d] = Outlived(cursor[d])
    OBVIOUS
  <2> QED BY <2>1, <2>2, OutlivedShares
<1>2. CursorsShare'
  BY <1>1 DEF CursorsShare
<1>3. cursor' \in CursorType
  BY <1>1 DEF CursorType
<1> QED BY <1>2, <1>3

\* A cursor that changes nothing but itself.
LEMMA OneCursor ==
  ASSUME IInv, NEW c \in Cursor, NEW e \in OpenCursor \cup {Closed},
         cursor' = [cursor EXCEPT ![c] = e],
         db' = db, cache' = cache, heap' = heap, lastCmd' = lastCmd,
         repeated' = repeated, result' \in SUBSET Row, Shares(e, cache)
  PROVE  IInv'
<1>1. cursor \in CursorType
  BY DEF IInv, TypeOK, CursorType
<1>2. cursor' \in CursorType
  BY <1>1 DEF CursorType
<1>3. TypeOK'
  BY <1>2 DEF IInv, TypeOK, CursorType
<1>4. CursorsShare'
  <2> SUFFICES ASSUME NEW d \in Cursor PROVE Shares(cursor'[d], cache')
    BY DEF CursorsShare
  <2>1. CASE d = c
    BY <2>1, <1>1 DEF CursorType
  <2>2. CASE d # c
    BY <2>2, <1>1 DEF IInv, CursorsShare, CursorType
  <2> QED BY <2>1, <2>2
<1>5. RowsOwnedOnce' /\ CacheWithinLimit' /\ ExecutedBefore' /\ CacheCoherent'
  BY DEF IInv, RowsOwnedOnce, RowsIn, CacheWithinLimit, ExecutedBefore,
         CacheCoherent, Shows
<1> QED BY <1>3, <1>4, <1>5 DEF IInv

\* An answer from the cache.
LEMMA HitStep ==
  ASSUME IInv, NEW w \in Text, Hit(w)
  PROVE  /\ result' \in SUBSET Row /\ lastCmd \in Text
         /\ w \in DOMAIN cache /\ result' = cache[w]
         /\ db' = db /\ cache' = cache /\ heap' = heap /\ lastCmd' = lastCmd
         /\ repeated' = repeated
BY DEF IInv, TypeOK, ExecutedBefore, Hit

LEMMA OpenFromCacheStep ==
  ASSUME IInv, NEW c \in Cursor, NEW q \in Query, OpenFromCache(c, q)
  PROVE  IInv'
<1> DEFINE e == [open |-> TRUE, query |-> q, cmd |-> lastCmd, rows |-> result',
                 text |-> q]
<1>1. Hit(q) /\ cursor' = [cursor EXCEPT ![c] = e]
  BY DEF OpenFromCache
<1>2. /\ result' \in SUBSET Row /\ lastCmd \in Text
      /\ q \in DOMAIN cache /\ result' = cache[q]
      /\ db' = db /\ cache' = cache /\ heap' = heap /\ lastCmd' = lastCmd
      /\ repeated' = repeated
  BY <1>1, HitStep, TableTyped
<1>3. e \in OpenCursor /\ Shares(e, cache)
  BY <1>2, TableTyped DEF OpenCursor, Shares
<1> HIDE DEF e
<1> QED BY <1>1, <1>2, <1>3, OneCursor

\* What a cursor repeats is some statement.
LEMMA Repeats ==
  ASSUME TypeOK, NEW c \in Cursor, cursor[c].open
  PROVE  cursor[c] \in OpenCursor /\ cursor[c].cmd \in Text
<1>1. cursor[c] \in OpenCursor
  BY DEF TypeOK, Closed
<1> QED BY <1>1 DEF OpenCursor

\* A cursor after requery().
LEMMA RequeriedCursor ==
  ASSUME IInv, NEW c \in Cursor, cursor[c].open, result' \in SUBSET Row
  PROVE  /\ Requeried(c) \in OpenCursor
         /\ Requeried(c).rows = result' /\ Requeried(c).text = cursor[c].cmd
<1>1. cursor[c] \in OpenCursor /\ cursor[c].cmd \in Text
  BY Repeats DEF IInv
<1> QED BY <1>1 DEF Requeried, OpenCursor

LEMMA RequeryFromCacheStep ==
  ASSUME IInv, NEW c \in Cursor, RequeryFromCache(c)
  PROVE  IInv'
<1> DEFINE e == Requeried(c)
<1>1. /\ cursor[c].open /\ Hit(cursor[c].cmd)
      /\ cursor' = [cursor EXCEPT ![c] = e]
  BY DEF RequeryFromCache
<1>2. cursor[c].cmd \in Text
  BY <1>1, Repeats DEF IInv
<1>3. /\ result' \in SUBSET Row
      /\ cursor[c].cmd \in DOMAIN cache /\ result' = cache[cursor[c].cmd]
      /\ db' = db /\ cache' = cache /\ heap' = heap /\ lastCmd' = lastCmd
      /\ repeated' = repeated
  BY <1>1, <1>2, HitStep
<1>4. e \in OpenCursor /\ e.rows = result' /\ e.text = cursor[c].cmd
  BY <1>1, <1>3, RequeriedCursor
<1> HIDE DEF e
<1>5. Shares(e, cache)
  BY <1>3, <1>4 DEF Shares
<1> QED BY <1>1, <1>3, <1>4, <1>5, OneCursor

LEMMA RequeryFailsStep ==
  ASSUME IInv, NEW c \in Cursor, RequeryFails(c)
  PROVE  IInv'
<1> DEFINE e == [cursor[c] EXCEPT !.rows = result', !.text = NoCmd]
<1>1. cursor[c] \in OpenCursor
  BY Repeats DEF RequeryFails, IInv
<1>2. cursor' = [cursor EXCEPT ![c] = e]
  BY DEF RequeryFails, IInv, TypeOK
<1>3. /\ result' \in SUBSET Row /\ repeated' = repeated
      /\ db' = db /\ cache' = cache /\ heap' = heap /\ lastCmd' = lastCmd
  BY DEF RequeryFails, ExecFails, Cleared
<1>4. e \in OpenCursor /\ e.text = NoCmd
  BY <1>1, <1>3 DEF OpenCursor
<1> HIDE DEF e
<1>5. Shares(e, cache)
  BY <1>4 DEF Shares
<1> QED BY <1>2, <1>3, <1>4, <1>5, OneCursor

\* A statement of cursor c that reached the database, and the cursor after it.
LEMMA AskedStep ==
  ASSUME IInv, NEW c \in Cursor, NEW w \in Text, NEW e \in OpenCursor,
         Owned(cache', heap'), CacheCoherent', CacheWithinLimit',
         Kept(cache, cache'), w \in DOMAIN cache', cache'[w] = result',
         result' \in SUBSET Row, lastCmd' = w, db' \in [Table -> Content],
         repeated' \subseteq Table, e.rows = result', e.text = w,
         cursor' = [d \in Cursor |-> IF d = c THEN e ELSE Outlived(cursor[d])]
  PROVE  IInv'
<1>1. Shares(e, cache')
  BY DEF Shares
<1>2. cursor' \in CursorType /\ CursorsShare'
  BY <1>1, OutlivedCursors
<1>3. TypeOK' /\ RowsOwnedOnce'
  BY <1>2, OwnedThen
<1>4. ExecutedBefore'
  BY TableTyped DEF ExecutedBefore
<1> QED BY <1>2, <1>3, <1>4 DEF IInv

LEMMA OpenFromDatabaseStep ==
  ASSUME IInv, NEW c \in Cursor, NEW q \in Query, OpenFromDatabase(c, q)
  PROVE  IInv'
<1> DEFINE e == [open |-> TRUE, query |-> q, cmd |-> lastCmd', rows |-> result',
                 text |-> q]
<1>1. PICK r \in Row \ DOMAIN heap : ExecQuery(q, r)
  BY DEF OpenFromDatabase
<1>2. /\ q \notin DOMAIN cache
      /\ cursor' = [d \in Cursor |-> IF d = c THEN e ELSE Outlived(cursor[d])]
  BY DEF OpenFromDatabase
<1>3. /\ Owned(cache', heap') /\ CacheCoherent' /\ CacheWithinLimit'
      /\ q \in DOMAIN cache' /\ cache'[q] = result' /\ Kept(cache, cache')
      /\ result' \in SUBSET Row
      /\ lastCmd' = q /\ db' = db /\ repeated' = repeated
  BY <1>1, <1>2, QueryStep
<1>4. e \in OpenCursor /\ e.rows = result' /\ e.text = q
  BY <1>3, TableTyped DEF OpenCursor
<1>5. q \in Text /\ db' \in [Table -> Content] /\ repeated' \subseteq Table
  BY <1>3, TableTyped DEF IInv, TypeOK
<1> HIDE DEF e
<1> QED BY <1>2, <1>3, <1>4, <1>5, AskedStep

LEMMA RequeryFromDatabaseStep ==
  ASSUME IInv, NEW c \in Cursor, RequeryFromDatabase(c)
  PROVE  IInv'
<1> DEFINE q == cursor[c].cmd
           e == Requeried(c)
<1>1. PICK r \in Row \ DOMAIN heap : ExecQuery(q, r)
  BY DEF RequeryFromDatabase
<1>2. /\ q \in Query /\ q \notin DOMAIN cache /\ cursor[c].open
      /\ cursor' = [d \in Cursor |-> IF d = c THEN e ELSE Outlived(cursor[d])]
  BY DEF RequeryFromDatabase
<1>3. /\ Owned(cache', heap') /\ CacheCoherent' /\ CacheWithinLimit'
      /\ q \in DOMAIN cache' /\ cache'[q] = result' /\ Kept(cache, cache')
      /\ result' \in SUBSET Row
      /\ lastCmd' = q /\ db' = db /\ repeated' = repeated
  <2> HIDE DEF q
  <2> QED BY <1>1, <1>2, QueryStep
<1>4. e \in OpenCursor /\ e.rows = result' /\ e.text = q
  BY <1>2, <1>3, RequeriedCursor
<1>5. q \in Text /\ db' \in [Table -> Content] /\ repeated' \subseteq Table
  BY <1>2, <1>3, TableTyped DEF IInv, TypeOK
<1> HIDE DEF e, q
<1> QED BY <1>2, <1>3, <1>4, <1>5, AskedStep

LEMMA RequeryWritesStep ==
  ASSUME IInv, NEW c \in Cursor, NEW x \in Content, RequeryWrites(c, x)
  PROVE  IInv'
<1> DEFINE w == cursor[c].cmd
           e == Requeried(c)
<1>1. /\ cursor[c].open /\ result' = {} /\ lastCmd' = w
      /\ repeated' = repeated \cup {TableOf[w]}
      /\ cursor' = [d \in Cursor |-> IF d = c THEN e ELSE Outlived(cursor[d])]
  BY DEF RequeryWrites, Cleared, Executed
<1>2. w \in Text
  BY <1>1, Repeats DEF IInv
<1>3. /\ Owned(cache', heap') /\ CacheCoherent' /\ CacheWithinLimit'
      /\ Kept(cache, cache') /\ db' \in [Table -> Content]
      /\ w \in DOMAIN cache' /\ cache'[w] = {}
  BY <1>2, RepeatedStep
<1>4. result' \in SUBSET Row /\ cache'[w] = result'
  BY <1>1, <1>3
<1>5. e \in OpenCursor /\ e.rows = result' /\ e.text = w
  BY <1>1, <1>4, RequeriedCursor
<1>6. repeated' \subseteq Table
  BY <1>1, <1>2, TableTyped DEF IInv, TypeOK
<1> HIDE DEF e, w
<1> QED BY <1>1, <1>2, <1>3, <1>4, <1>5, <1>6, AskedStep

\* A write, accepted or refused, as far as the cursors are concerned.
LEMMA WrittenStep ==
  ASSUME IInv, db' \in [Table -> Content], Owned(cache', heap'),
         CacheCoherent', CacheWithinLimit', ExecutedBefore', result' = Cleared,
         lastCmd' \in Text \cup {NoCmd}, repeated' \subseteq Table,
         Kept(cache, cache'), cursor' = [d \in Cursor |-> Outlived(cursor[d])]
  PROVE  IInv'
<1>1. cursor' \in CursorType /\ CursorsShare'
  BY AllOutlived
<1>2. TypeOK' /\ RowsOwnedOnce'
  BY <1>1, OwnedThen DEF Cleared
<1> QED BY <1>1, <1>2 DEF IInv

LEMMA InvariantInit == Init => IInv
<1> SUFFICES ASSUME Init PROVE IInv
  OBVIOUS
<1>1. DOMAIN cache = {} /\ DOMAIN heap = {}
  BY DEF Init
<1>2. TypeOK
  BY <1>1 DEF Init, TypeOK
<1>3. RowsOwnedOnce /\ CacheCoherent /\ ExecutedBefore
  BY <1>1 DEF RowsOwnedOnce, RowsIn, CacheCoherent, ExecutedBefore
<1>4. CacheWithinLimit
  BY <1>1, FS_EmptySet, LimitIsNat DEF CacheWithinLimit
<1>5. CursorsShare
  BY DEF Init, CursorsShare, Shares, Closed
<1> QED BY <1>2, <1>3, <1>4, <1>5 DEF IInv

LEMMA InvariantStep == IInv /\ [Next]_vars => IInv'
<1> SUFFICES ASSUME IInv, [Next]_vars PROVE IInv'
  OBVIOUS
<1> USE DEF Text
<1>1. CASE UNCHANGED vars
  BY <1>1 DEF vars, IInv, TypeOK, RowsOwnedOnce, RowsIn, CacheCoherent, Shows,
              CacheWithinLimit, CursorsShare, ExecutedBefore
<1>2. ASSUME NEW q \in Query, OpenFails(q)
      PROVE  IInv'
  BY <1>2 DEF OpenFails, ExecFails, Cleared, IInv, TypeOK, RowsOwnedOnce,
              RowsIn, CacheCoherent, Shows, CacheWithinLimit, CursorsShare,
              ExecutedBefore
<1>3. ASSUME NEW c \in Cursor, Close(c)
      PROVE  IInv'
  <2>1. /\ cursor' = [cursor EXCEPT ![c] = Closed] /\ ~ Closed.open
        /\ db' = db /\ cache' = cache /\ heap' = heap /\ lastCmd' = lastCmd
        /\ repeated' = repeated /\ result' \in SUBSET Row
    BY <1>3 DEF Close, Closed, IInv, TypeOK
  <2>2. Shares(Closed, cache)
    BY <2>1 DEF Shares
  <2> QED BY <2>1, <2>2, OneCursor
<1>4. ASSUME NEW w \in Insertion \cup Change, InsertFails(w)
      PROVE  IInv'
  <2>1. /\ db' = db /\ lastCmd' = lastCmd /\ result' = Cleared
        /\ cursor' = [d \in Cursor |-> Outlived(cursor[d])]
        /\ repeated' \subseteq Table
    BY <1>4 DEF InsertFails, IInv, TypeOK
  <2>2. /\ Owned(cache', heap') /\ CacheCoherent' /\ CacheWithinLimit'
        /\ DOMAIN cache' \subseteq DOMAIN cache /\ Kept(cache, cache')
    BY <1>4, RefusedStep
  <2>3. ExecutedBefore' /\ db' \in [Table -> Content]
        /\ lastCmd' \in Text \cup {NoCmd}
    BY <2>1, <2>2 DEF IInv, ExecutedBefore, TypeOK
  <2> QED BY <2>1, <2>2, <2>3, WrittenStep
<1>5. ASSUME NEW w \in Insertion, NEW x \in Content, InsertSucceeds(w, x)
      PROVE  IInv'
  <2>1. /\ db' = [db EXCEPT ![TableOf[w]] = x] /\ lastCmd' = w
        /\ result' = Cleared
        /\ cursor' = [d \in Cursor |-> Outlived(cursor[d])]
        /\ repeated' \subseteq Table
    BY <1>5 DEF InsertSucceeds, Executed, IInv, TypeOK
  <2>2. /\ Owned(cache', heap') /\ CacheCoherent' /\ CacheWithinLimit'
        /\ Kept(cache, cache')
    BY <1>5, InsertStep
  <2>3. ExecutedBefore' /\ db' \in [Table -> Content]
        /\ lastCmd' \in Text \cup {NoCmd}
    BY <2>1, TableTyped DEF IInv, ExecutedBefore, TypeOK
  <2> QED BY <2>1, <2>2, <2>3, WrittenStep
<1>6. ASSUME NEW w \in Change, NEW x \in Content, ChangeSucceeds(w, x)
      PROVE  IInv'
  <2>1. /\ db' = [db EXCEPT ![TableOf[w]] = x] /\ lastCmd' = w
        /\ result' = Cleared
        /\ cursor' = [d \in Cursor |-> Outlived(cursor[d])]
        /\ repeated' \subseteq Table
    BY <1>6 DEF ChangeSucceeds, Executed, IInv, TypeOK
  <2>2. /\ Owned(cache', heap') /\ CacheCoherent' /\ CacheWithinLimit'
        /\ Kept(cache, cache')
    BY <1>6, ChangeStep
  <2>3. ExecutedBefore' /\ db' \in [Table -> Content]
        /\ lastCmd' \in Text \cup {NoCmd}
    BY <2>1, TableTyped DEF IInv, ExecutedBefore, TypeOK
  <2> QED BY <2>1, <2>2, <2>3, WrittenStep
<1> QED
  BY <1>1, <1>2, <1>3, <1>4, <1>5, <1>6, OpenFromCacheStep,
     OpenFromDatabaseStep, RequeryFromCacheStep, RequeryFromDatabaseStep,
     RequeryWritesStep, RequeryFailsStep DEF Next, ChangeFails

LEMMA Invariant == Spec => []IInv
BY InvariantInit, InvariantStep, PTL DEF Spec

-----------------------------------------------------------------------------
(* Every value the database, its cache and its cursors take is of its      *)
(* type: in particular a cursor always holds the text of a statement.      *)
THEOREM TypeCorrect == Spec => []TypeOK
<1>1. IInv => TypeOK
  BY DEF IInv
<1> QED BY <1>1, Invariant, PTL

(* However statements succeed, fail, evict and invalidate, an answer from  *)
(* the cache is the one the table would give, and only a requery() that    *)
(* repeats a write can spoil it (SQLiteDB.cc:147-178, 300-327).            *)
THEOREM CacheIsCoherent == Spec => []CacheCoherent
<1>1. IInv => CacheCoherent
  BY DEF IInv
<1> QED BY <1>1, Invariant, PTL

(* A row is owned by exactly one cached text as long as it lives: no row   *)
(* is deleted twice and none is lost (SQLiteDB.cc:124-129, 160-176).       *)
THEOREM RowsAreOwnedOnce == Spec => []RowsOwnedOnce
<1>1. IInv => RowsOwnedOnce
  BY DEF IInv
<1> QED BY <1>1, Invariant, PTL

(* The cache never holds more texts than s_cacheItemTotal, the texts of    *)
(* writes included (SQLiteDB.cc:158-178).                                  *)
THEOREM CacheIsBounded == Spec => []CacheWithinLimit
<1>1. IInv => CacheWithinLimit
  BY DEF IInv
<1> QED BY <1>1, Invariant, PTL

(* However many statements come between, a cursor reads live rows with the *)
(* current answer until the answer is dropped from the cache               *)
(* (SQLiteCursor.hh:63-68, SQLiteCursor.cc:105-112, SQLiteDB.cc:161, 306). *)
THEOREM CursorsReadCurrent == Spec => []CursorReadsCurrent
<1>1. IInv => CursorReadsCurrent
  BY TableTyped DEF IInv, CursorsShare, Shares, CacheCoherent,
                    CursorReadsCurrent
<1> QED BY <1>1, Invariant, PTL

=============================================================================
