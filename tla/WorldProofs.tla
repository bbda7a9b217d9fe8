---------------------------- MODULE WorldProofs -----------------------------
(***************************************************************************)
(* Proofs about World for every number of indices and of generations and   *)
(* every set of component types and values.                                *)
(*                                                                         *)
(* The inductive invariant Inv has three parts.  EntitiesOK: an index is   *)
(* in use or free once, and its generation is that of no dead id callers   *)
(* hold.  PoolsOK: every entry of a pool is a living entity whose sparse   *)
(* slot points back at it.  Listed: the component lists and the free list  *)
(* share no node, and an index lists exactly the types whose pools have    *)
(* its entity.                                                             *)
(***************************************************************************)
EXTENDS World, FiniteSetTheorems, SequenceTheorems, WellFoundedInduction, TLAPS

PoolType == [sparse : [Indices -> 0 .. MaxEntities], dense : Seq(IDs), components : Seq(Values)]

(* A pool of the entities L: each entry's sparse slot points back at it.   *)
PoolOK(pool, L) ==
  /\ pool \in PoolType
  /\ Len(pool.components) = Len(pool.dense)
  /\ \A k \in DOMAIN pool.dense : pool.dense[k] \in L /\ pool.sparse[pool.dense[k].index] = k

(* One entity for each index.                                              *)
OneEach(L) == L \subseteq IDs /\ \A a, b \in L : a.index = b.index => a = b

-----------------------------------------------------------------------------
(* A nonempty set of naturals has a least element.                         *)
LEMMA Smallest ==
  ASSUME NEW T \in SUBSET Nat, T # {}
  PROVE  \E x \in T : \A y \in T : x <= y
<1>1. PICK x \in T : \A y \in T : ~(<<y, x>> \in OpToRel(<, Nat))
  BY WFMin, NatLessThanWellFounded
<1>2. \A y \in T : ~(y < x)
  BY <1>1 DEF OpToRel
<1>3. x \in Nat /\ \A y \in T : y \in Nat
  BY <1>1
<1>4. \A y \in T : x <= y
  BY <1>2, <1>3
<1> QED BY <1>1, <1>4

(* A sequence without repetitions is no longer than its range of values.   *)
LEMMA Distinct ==
  ASSUME NEW m \in Nat, NEW n \in Nat, NEW s \in [1 .. n -> 1 .. m],
         \A k, l \in 1 .. n : s[k] = s[l] => k = l
  PROVE  n <= m
<1>1. s \in Injection(1 .. n, 1 .. m)
  BY DEF Injection, IsInjective
<1>2. IsFiniteSet(1 .. m) /\ Cardinality(1 .. m) = m /\ Cardinality(1 .. n) = n
  BY FS_Interval
<1>3. Cardinality(1 .. n) <= Cardinality(1 .. m)
  BY <1>1, <1>2, FS_Injection
<1> QED BY <1>2, <1>3

(* An id is its index and its generation.                                  *)
LEMMA IDFact ==
  /\ \A id \in IDs : id.index \in Indices /\ id.generation \in 0 .. GenerationCount - 1
                     /\ id = EntityID(id.index, id.generation)
  /\ \A i \in Indices, g \in 0 .. GenerationCount - 1 :
       EntityID(i, g) \in IDs /\ EntityID(i, g).index = i /\ EntityID(i, g).generation = g
BY DEF IDs, EntityID

-----------------------------------------------------------------------------
(* A pool has the entities of its dense array, each at its sparse slot.    *)
LEMMA HasFact ==
  ASSUME NEW L, OneEach(L), NEW p, PoolOK(p, L), NEW id \in IDs
  PROVE  /\ Has(p, id) <=> \E k \in DOMAIN p.dense : p.dense[k] = id
         /\ Has(p, id) => id \in L /\ p.sparse[id.index] \in DOMAIN p.dense
                          /\ p.dense[p.sparse[id.index]] = id
         /\ \A k \in DOMAIN p.dense : p.dense[k] = id => p.sparse[id.index] = k
<1>1. \A k \in DOMAIN p.dense : p.dense[k] \in L /\ p.sparse[p.dense[k].index] = k
  BY DEF PoolOK
<1> QED BY <1>1 DEF Has

(* A pool has at most as many entries as there are indices.                *)
LEMMA PoolFits ==
  ASSUME NEW d \in Seq(IDs), \A k, l \in DOMAIN d : d[k].index = d[l].index => k = l
  PROVE  Len(d) <= MaxEntities
<1>1. PICK n \in Nat : n = Len(d) /\ DOMAIN d = 1 .. n
  OBVIOUS
<1>2. \A k \in 1 .. n : d[k] \in IDs
  BY <1>1
<1>3. \A k \in 1 .. n : d[k].index \in 1 .. MaxEntities
  BY <1>2, IDFact DEF Indices
<1>4. PICK s : s = [k \in 1 .. n |-> d[k].index]
  OBVIOUS
<1>5. s \in [1 .. n -> 1 .. MaxEntities] /\ \A k, l \in 1 .. n : s[k] = s[l] => k = l
  BY <1>1, <1>3, <1>4
<1>6. MaxEntities \in Nat
  BY WorldAssumption
<1> QED BY <1>1, <1>5, <1>6, Distinct

(* What add() and remove() leave in a pool: q has the entities of p but id, *)
(* with the components they had.                                           *)
Keeps(p, q, id) ==
  \A x \in IDs : x # id => (Has(q, x) <=> Has(p, x)) /\ (Has(p, x) => tryGet(q, x) = tryGet(p, x))

(* ComponentPool::add gives the entity its component and leaves the others *)
(* alone.                                                                  *)
LEMMA PoolAddFact ==
  ASSUME NEW L, OneEach(L), NEW p, PoolOK(p, L), NEW id \in L, ~ Has(p, id), NEW v \in Values,
         NEW q, q = PoolAdd(p, id, v)
  PROVE  PoolOK(q, L) /\ Keeps(p, q, id) /\ Has(q, id) /\ tryGet(q, id) = v
<1>1. PICK s, d, c, n :
        /\ s = p.sparse /\ d = p.dense /\ c = p.components /\ n = Len(d)
        /\ s \in [Indices -> 0 .. MaxEntities] /\ d \in Seq(IDs) /\ c \in Seq(Values)
        /\ n \in Nat /\ Len(c) = n /\ DOMAIN d = 1 .. n /\ DOMAIN c = 1 .. n
        /\ \A k \in 1 .. n : d[k] \in L /\ s[d[k].index] = k
  BY DEF PoolOK, PoolType
<1>2. id \in IDs /\ id.index \in Indices /\ \A k \in 1 .. n : d[k] \in IDs /\ d[k].index \in Indices
  BY <1>1, IDFact DEF OneEach
<1>3. \A k \in 1 .. n : d[k].index # id.index
  <2>1. \A k \in 1 .. n : d[k] # id
    BY <1>1, <1>2, HasFact
  <2> QED BY <1>1, <2>1 DEF OneEach
<1>4. PICK e, f, r : e = Append(d, id) /\ f = Append(c, v) /\ r = [s EXCEPT ![id.index] = n + 1]
  OBVIOUS
<1>5. /\ e \in Seq(IDs) /\ Len(e) = n + 1 /\ DOMAIN e = 1 .. n + 1 /\ e[n + 1] = id
      /\ \A k \in 1 .. n : e[k] = d[k]
  BY <1>1, <1>2, <1>4
<1>6. /\ f \in Seq(Values) /\ Len(f) = n + 1 /\ DOMAIN f = 1 .. n + 1 /\ f[n + 1] = v
      /\ \A k \in 1 .. n : f[k] = c[k]
  BY <1>1, <1>4
<1>7. \A k : k \in 1 .. n + 1 <=> k \in 1 .. n \/ k = n + 1
  BY <1>1
<1>8. n + 1 <= MaxEntities
  <2>1. \A k, l \in 1 .. n : d[k].index = d[l].index => k = l
    BY <1>1
  <2>2. \A k, l \in DOMAIN e : e[k].index = e[l].index => k = l
    BY <1>3, <1>5, <1>7, <2>1
  <2> QED BY <1>5, <2>2, PoolFits
<1>9. r \in [Indices -> 0 .. MaxEntities] /\ r[id.index] = n + 1 /\ \A i \in Indices : i # id.index => r[i] = s[i]
  <2>1. n + 1 \in 0 .. MaxEntities
    BY <1>1, <1>8, WorldAssumption
  <2> QED BY <1>1, <1>2, <1>4, <2>1
<1>10. q = [sparse |-> r, dense |-> e, components |-> f]
  BY <1>1, <1>4 DEF PoolAdd
<1>11. q.sparse = r /\ q.dense = e /\ q.components = f
  BY <1>10
<1>12. PoolOK(q, L)
  <2>1. q \in PoolType
    BY <1>5, <1>6, <1>9, <1>10 DEF PoolType
  <2>2. \A k \in 1 .. n + 1 : e[k] \in L /\ r[e[k].index] = k
    BY <1>1, <1>2, <1>3, <1>5, <1>7, <1>9
  <2> QED BY <1>5, <1>6, <1>11, <2>1, <2>2 DEF PoolOK
<1>13. Keeps(p, q, id)
  <2>1. SUFFICES ASSUME NEW x \in IDs, x # id
                 PROVE  (Has(q, x) <=> Has(p, x)) /\ (Has(p, x) => tryGet(q, x) = tryGet(p, x))
    BY DEF Keeps
  <2>2. Has(q, x) <=> \E k \in 1 .. n + 1 : e[k] = x
    BY <1>5, <1>11, <1>12, HasFact
  <2>3. Has(p, x) <=> \E k \in 1 .. n : d[k] = x
    BY <1>1, HasFact
  <2>4. Has(q, x) <=> Has(p, x)
    BY <1>5, <1>7, <2>1, <2>2, <2>3
  <2>5. ASSUME Has(p, x) PROVE tryGet(q, x) = tryGet(p, x)
    <3>1. x \in L /\ s[x.index] \in 1 .. n /\ x.index \in Indices
      BY <1>1, <2>5, HasFact, IDFact
    <3>2. x.index # id.index
      BY <2>1, <3>1 DEF OneEach
    <3>3. r[x.index] = s[x.index]
      BY <1>9, <3>1, <3>2
    <3> QED BY <1>1, <1>6, <1>11, <3>1, <3>3 DEF tryGet
  <2> QED BY <2>4, <2>5
<1>14. Has(q, id) /\ tryGet(q, id) = v
  <2>1. n + 1 \in DOMAIN e
    BY <1>5, <1>7
  <2> QED BY <1>5, <1>6, <1>9, <1>11, <2>1 DEF Has, tryGet
<1> QED BY <1>12, <1>13, <1>14

(* ComponentPool::remove takes the entity out, whatever it moves into its  *)
(* place, and leaves the others alone.                                     *)
LEMMA PoolRemoveFact ==
  ASSUME NEW L, OneEach(L), NEW p, PoolOK(p, L), NEW id \in L, NEW q, q = PoolRemove(p, id)
  PROVE  PoolOK(q, L \ {id}) /\ Keeps(p, q, id) /\ ~ Has(q, id)
<1>1. PICK s, d, c, n :
        /\ s = p.sparse /\ d = p.dense /\ c = p.components /\ n = Len(d)
        /\ s \in [Indices -> 0 .. MaxEntities] /\ d \in Seq(IDs) /\ c \in Seq(Values)
        /\ n \in Nat /\ Len(c) = n /\ DOMAIN d = 1 .. n /\ DOMAIN c = 1 .. n
        /\ \A k \in 1 .. n : d[k] \in L /\ s[d[k].index] = k
  BY DEF PoolOK, PoolType
<1>2. id \in IDs /\ id.index \in Indices /\ \A k \in 1 .. n : d[k] \in IDs /\ d[k].index \in Indices
  BY <1>1, IDFact DEF OneEach
<1>3. CASE ~ Has(p, id)
  <2>1. q = p
    BY <1>3 DEF PoolRemove
  <2>2. \A k \in 1 .. n : d[k] # id
    BY <1>1, <1>2, <1>3, HasFact
  <2>3. PoolOK(p, L \ {id})
    BY <1>1, <2>2 DEF PoolOK
  <2> QED BY <1>3, <2>1, <2>3 DEF Keeps
<1>4. CASE Has(p, id)
  <2>1. PICK a : a = s[id.index] /\ a \in 1 .. n /\ d[a] = id
    BY <1>1, <1>2, <1>4, HasFact
  <2>2. PICK z, g, b : z = d[n] /\ g = [d EXCEPT ![a] = z] /\ b = z.index
    OBVIOUS
  <2>3. n \in 1 .. n /\ n - 1 \in Nat /\ (\A k \in 1 .. n - 1 : k \in 1 .. n /\ k # n)
        /\ (\A k \in 1 .. n : k # n => k \in 1 .. n - 1)
    BY <1>1, <2>1
  <2>4. z \in IDs /\ z \in L /\ b \in Indices /\ s[b] = n
    BY <1>1, <1>2, <2>2, <2>3
  <2>5. g \in Seq(IDs) /\ Len(g) = n /\ \A k \in 1 .. n : g[k] = IF k = a THEN z ELSE d[k]
    BY <1>1, <2>1, <2>2, <2>4
  <2>6. PICK y, h : y = c[n] /\ h = [c EXCEPT ![a] = y]
    OBVIOUS
  <2>7. y \in Values
    BY <1>1, <2>3, <2>6
  <2>8. h \in Seq(Values) /\ Len(h) = n /\ \A k \in 1 .. n : h[k] = IF k = a THEN y ELSE c[k]
    BY <1>1, <2>1, <2>6, <2>7
  <2>9. PICK e, f : e = Front(g) /\ f = Front(h)
    OBVIOUS
  <2>10. e \in Seq(IDs) /\ Len(e) = n - 1 /\ DOMAIN e = 1 .. n - 1
        /\ \A k \in 1 .. n - 1 : e[k] = IF k = a THEN z ELSE d[k]
    BY <2>3, <2>5, <2>9 DEF Front
  <2>11. f \in Seq(Values) /\ Len(f) = n - 1 /\ DOMAIN f = 1 .. n - 1
        /\ \A k \in 1 .. n - 1 : f[k] = IF k = a THEN y ELSE c[k]
    BY <2>3, <2>8, <2>9 DEF Front
  <2>12. PICK r : r = [[s EXCEPT ![b] = a] EXCEPT ![id.index] = 0]
    OBVIOUS
  <2>13. r \in [Indices -> 0 .. MaxEntities] /\ r[id.index] = 0
         /\ \A i \in Indices : i # id.index => r[i] = IF i = b THEN a ELSE s[i]
    <3>1. a \in 0 .. MaxEntities
      <4>1. s[b] \in 0 .. MaxEntities
        BY <1>1, <2>4
      <4> QED BY <1>1, <2>1, <2>4, <4>1, WorldAssumption
    <3>2. PICK u : u = [s EXCEPT ![b] = a]
      OBVIOUS
    <3>3. u \in [Indices -> 0 .. MaxEntities] /\ \A i \in Indices : u[i] = IF i = b THEN a ELSE s[i]
      BY <1>1, <2>4, <3>1, <3>2
    <3>4. r = [u EXCEPT ![id.index] = 0] /\ 0 \in 0 .. MaxEntities
      BY <2>12, <3>2, WorldAssumption
    <3> QED BY <1>2, <3>3, <3>4
  <2>14. q = [sparse |-> r, dense |-> e, components |-> f]
    BY <1>1, <1>4, <2>1, <2>2, <2>9, <2>12, <2>6 DEF PoolRemove
  <2>15. q.sparse = r /\ q.dense = e /\ q.components = f
    BY <2>14
  <2>16. \A k \in 1 .. n - 1 : e[k] \in L /\ e[k] # id /\ r[e[k].index] = k
    <3>1. SUFFICES ASSUME NEW k \in 1 .. n - 1 PROVE e[k] \in L /\ e[k] # id /\ r[e[k].index] = k
      OBVIOUS
    <3>2. k \in 1 .. n /\ k # n
      BY <2>3
    <3>3. CASE k = a
      <4>1. e[k] = z /\ z # id
        BY <2>1, <2>2, <2>4, <2>10, <3>2, <3>3
      <4>2. b # id.index
        BY <2>2, <2>4, <4>1 DEF OneEach
      <4> QED BY <2>2, <2>4, <2>13, <3>3, <4>1, <4>2
    <3>4. CASE k # a
      <4>1. e[k] = d[k] /\ d[k] # id /\ d[k] \in L /\ s[d[k].index] = k /\ d[k].index \in Indices
        BY <1>1, <1>2, <2>1, <2>10, <3>2, <3>4
      <4>2. d[k].index # id.index /\ d[k].index # b
        BY <2>1, <2>4, <3>2, <3>4, <4>1
      <4> QED BY <2>13, <4>1, <4>2
    <3> QED BY <3>3, <3>4
  <2>17. PoolOK(q, L \ {id})
    <3>1. q \in PoolType
      BY <2>10, <2>11, <2>13, <2>14 DEF PoolType
    <3> QED BY <2>10, <2>11, <2>15, <2>16, <3>1 DEF PoolOK
  <2>18. OneEach(L \ {id})
    BY DEF OneEach
  <2>19. ~ Has(q, id)
    BY <1>2, <2>17, <2>18, HasFact
  <2>20. Keeps(p, q, id)
    <3>1. SUFFICES ASSUME NEW x \in IDs, x # id
                   PROVE  (Has(q, x) <=> Has(p, x)) /\ (Has(p, x) => tryGet(q, x) = tryGet(p, x))
      BY DEF Keeps
    <3>2. Has(q, x) <=> \E k \in 1 .. n - 1 : e[k] = x
      BY <2>10, <2>15, <2>17, <2>18, HasFact
    <3>3. Has(p, x) <=> \E k \in 1 .. n : d[k] = x
      BY <1>1, HasFact
    <3>4. Has(q, x) => Has(p, x)
      BY <2>2, <2>3, <2>10, <3>2, <3>3
    <3>5. ASSUME Has(p, x) PROVE Has(q, x) /\ tryGet(q, x) = tryGet(p, x)
      <4>1. PICK k : k = s[x.index] /\ k \in 1 .. n /\ d[k] = x /\ x \in L /\ x.index \in Indices
        BY <1>1, <3>5, HasFact, IDFact
      <4>2. k # a /\ x.index # id.index
        BY <2>1, <3>1, <4>1 DEF OneEach
      <4>3. tryGet(p, x) = c[k]
        BY <1>1, <4>1 DEF tryGet
      <4>4. CASE k = n
        <5>1. x = z /\ x.index = b /\ a \in 1 .. n - 1
          BY <2>1, <2>2, <2>3, <4>1, <4>2, <4>4
        <5>2. r[x.index] = a /\ e[a] = x /\ f[a] = c[k]
          BY <2>10, <2>11, <2>13, <2>6, <4>1, <4>2, <4>4, <5>1
        <5> QED BY <2>15, <3>2, <4>3, <5>1, <5>2 DEF tryGet
      <4>5. CASE k # n
        <5>1. k \in 1 .. n - 1 /\ x.index # b
          BY <2>3, <2>4, <4>1, <4>5
        <5>2. r[x.index] = k /\ e[k] = x /\ f[k] = c[k]
          BY <2>10, <2>11, <2>13, <4>1, <4>2, <5>1
        <5> QED BY <2>15, <3>2, <4>3, <5>1, <5>2 DEF tryGet
      <4> QED BY <4>4, <4>5
    <3> QED BY <3>4, <3>5
  <2> QED BY <2>17, <2>19, <2>20
<1> QED BY <1>3, <1>4

-----------------------------------------------------------------------------
(* The lists of nodes.                                                     *)

NodeType == [typeId : Types, next : Nat]

(* A list of nodes, kept as a stack: s ends with the list's head h, and    *)
(* each node's next is the one below it.                                   *)
Nth(s, k) == IF k = 0 THEN 0 ELSE s[k]

Stacked(h, nodes, s) ==
  /\ s \in Seq(DOMAIN nodes)
  /\ h = Nth(s, Len(s))
  /\ \A k \in DOMAIN s : nodes[s[k]].next = Nth(s, k - 1)

(* The walk of Chain: f[k] is the node k links after the head.             *)
Walks(f, head, n) ==
  /\ Chain(head) = [k \in 1 .. Cardinality({k \in 0 .. n : f[k] # 0}) |-> f[k - 1]]
  /\ f[0] = head
  /\ \A k \in 1 .. n : f[k] = IF f[k - 1] = 0 THEN 0 ELSE m_nodes[f[k - 1]].next

(* The recursive function in Chain exists and is defined step by step.     *)
LEMMA Walk ==
  ASSUME NEW head, NEW n \in Nat, n = Len(m_nodes)
  PROVE  \E f : Walks(f, head, n)
<1> DEFINE Link(x) == IF x = 0 THEN 0 ELSE m_nodes[x].next
           Def(f, m) == f = [k \in 0 .. m |-> IF k = 0 THEN head ELSE Link(f[k - 1])]
           Bad == {m \in Nat : ~ \E f : Def(f, m)}
<1>1. Bad = {}
  <2>1. SUFFICES ASSUME Bad # {} PROVE FALSE
    OBVIOUS
  <2>2. PICK m \in Bad : \A k \in Bad : m <= k
    BY <2>1, Smallest
  <2>3. m # 0
    <3>1. Def([k \in 0 .. 0 |-> head], 0)
      OBVIOUS
    <3> QED BY <3>1, <2>2
  <2>4. PICK f : Def(f, m - 1)
    <3>1. m \in Nat /\ m - 1 \in Nat /\ ~(m <= m - 1)
      BY <2>2, <2>3
    <3> HIDE DEF Def
    <3> QED BY <2>2, <3>1
  <2> DEFINE g == [k \in 0 .. m |-> IF k < m THEN f[k] ELSE Link(f[m - 1])]
  <2>5. Def(g, m)
    <3>1. m \in Nat /\ m - 1 \in Nat
      BY <2>2, <2>3
    <3>2. \A k \in 0 .. m - 1 : g[k] = f[k] /\ k \in 0 .. m
      BY <3>1
    <3>3. \A k \in 0 .. m - 1 : f[k] = IF k = 0 THEN head ELSE Link(f[k - 1])
      BY <2>4
    <3>4. \A k \in 0 .. m : g[k] = IF k = 0 THEN head ELSE Link(g[k - 1])
      <4> TAKE k \in 0 .. m
      <4>1. CASE k = m
        <5>1. g[m] = Link(f[m - 1])
          BY <3>1
        <5>2. g[m - 1] = f[m - 1]
          BY <3>1, <3>2
        <5> HIDE DEF Link, g
        <5> QED BY <2>3, <4>1, <5>1, <5>2
      <4>2. CASE k # m
        <5>1. k \in 0 .. m - 1 /\ (k # 0 => k - 1 \in 0 .. m - 1)
          BY <3>1, <4>2
        <5> HIDE DEF g, Link
        <5> QED BY <3>2, <3>3, <5>1
      <4> QED BY <4>1, <4>2
    <3>5. g = [k \in 0 .. m |-> g[k]]
      OBVIOUS
    <3> HIDE DEF g
    <3> QED BY <3>4, <3>5
  <2> QED BY <2>2, <2>5
<1>2. PICK f : f = (CHOOSE G : Def(G, n))
  OBVIOUS
<1>3. Def(f, n)
  <2>1. \E G : Def(G, n)
    <3>1. n \notin Bad
      BY <1>1
    <3> QED BY <3>1
  <2> HIDE DEF Def
  <2> QED BY <1>2, <2>1
<1>4. Chain(head) = [k \in 1 .. Cardinality({k \in 0 .. n : f[k] # 0}) |-> f[k - 1]]
  BY <1>2 DEF Chain
<1>5. f[0] = head /\ \A k \in 1 .. n : f[k] = Link(f[k - 1])
  BY <1>3
<1> QED BY <1>4, <1>5 DEF Walks

(* Chain reads the list from its head: the stack from the top.             *)
LEMMA ChainFact ==
  ASSUME m_nodes \in Seq(NodeType), NEW h, NEW s, Stacked(h, m_nodes, s),
         \A k, l \in DOMAIN s : s[k] = s[l] => k = l
  PROVE  Chain(h) = [k \in 1 .. Len(s) |-> s[Len(s) + 1 - k]]
<1>1. PICK n \in Nat, m \in Nat : n = Len(s) /\ m = Len(m_nodes) /\ DOMAIN s = 1 .. n /\ DOMAIN m_nodes = 1 .. m
  BY DEF Stacked
<1>2. s \in [1 .. n -> 1 .. m]
  BY <1>1 DEF Stacked
<1>3. n <= m
  BY <1>1, <1>2, Distinct
<1>4. PICK f : Walks(f, h, m)
  BY <1>1, Walk
<1>5.          /\ Chain(h) = [k \in 1 .. Cardinality({k \in 0 .. m : f[k] # 0}) |-> f[k - 1]]
               /\ f[0] = h
               /\ \A k \in 1 .. m : f[k] = IF f[k - 1] = 0 THEN 0 ELSE m_nodes[f[k - 1]].next
  BY <1>4 DEF Walks
<1> DEFINE Right(k) == f[k] = IF k < n THEN s[n - k] ELSE 0
           Bad == {k \in 0 .. m : ~ Right(k)}
<1>6. Bad = {}
  <2>1. SUFFICES ASSUME Bad # {} PROVE FALSE
    OBVIOUS
  <2>2. PICK k \in Bad : \A j \in Bad : k <= j
    <3>1. Bad \subseteq Nat
      OBVIOUS
    <3> HIDE DEF Bad
    <3> QED BY <2>1, <3>1, Smallest
  <2>3. k # 0
    <3>1. Right(0)
      BY <1>1, <1>5 DEF Stacked, Nth
    <3> QED BY <2>2, <3>1
  <2>4. k \in 1 .. m /\ k - 1 \in 0 .. m /\ ~(k <= k - 1) /\ k \in Nat
    BY <1>1, <2>2, <2>3
  <2>5. Right(k - 1)
    BY <2>2, <2>4
  <2>6. f[k] = IF f[k - 1] = 0 THEN 0 ELSE m_nodes[f[k - 1]].next
    BY <1>5, <2>4
  <2>7. CASE k - 1 < n
    <3>1. n - (k - 1) \in 1 .. n /\ n - (k - 1) - 1 = n - k
      BY <1>1, <2>4, <2>7
    <3>2. f[k - 1] = s[n - (k - 1)] /\ s[n - (k - 1)] \in 1 .. m
      BY <1>2, <2>5, <2>7, <3>1
    <3>3. m_nodes[s[n - (k - 1)]].next = Nth(s, n - k)
      BY <1>1, <3>1 DEF Stacked
    <3>4. f[k] = Nth(s, n - k)
      BY <2>6, <3>2, <3>3
    <3>5. k < n <=> n - k # 0
      BY <1>1, <2>4, <2>7
    <3> QED BY <2>2, <3>4, <3>5 DEF Nth
  <2>8. CASE ~(k - 1 < n)
    <3>1. f[k - 1] = 0 /\ ~(k < n)
      BY <1>1, <2>4, <2>5, <2>8
    <3> QED BY <2>2, <2>6, <3>1
  <2> QED BY <2>7, <2>8
<1>7. \A k \in 0 .. m : f[k] # 0 <=> k < n
  <2>1. SUFFICES ASSUME NEW k \in 0 .. m PROVE f[k] # 0 <=> k < n
    OBVIOUS
  <2>2. Right(k)
    BY <1>6
  <2>3. k < n => n - k \in 1 .. n
    BY <1>1
  <2>4. k < n => s[n - k] \in 1 .. m
    BY <1>2, <2>3
  <2> QED BY <1>1, <2>2, <2>4
<1>8. Cardinality({k \in 0 .. m : f[k] # 0}) = n
  <2>1. {k \in 0 .. m : f[k] # 0} = 0 .. n - 1
    <3>1. \A k : k \in 0 .. m /\ k < n <=> k \in 0 .. n - 1
      BY <1>1, <1>3
    <3> QED BY <1>7, <3>1
  <2>2. PICK a \in Int, b \in Int : a = 0 /\ b = n - 1
    BY <1>1
  <2>3. Cardinality(a .. b) = IF a > b THEN 0 ELSE b - a + 1
    BY FS_Interval
  <2>4. Cardinality(a .. b) = n
    BY <1>1, <2>2, <2>3
  <2> QED BY <2>1, <2>2, <2>4
<1>9. Chain(h) = [k \in 1 .. n |-> f[k - 1]]
  BY <1>5, <1>8
<1>10. \A k \in 1 .. n : f[k - 1] = s[n + 1 - k]
  <2>1. SUFFICES ASSUME NEW k \in 1 .. n PROVE f[k - 1] = s[n + 1 - k]
    OBVIOUS
  <2>2. k - 1 \in 0 .. m /\ k - 1 < n /\ n - (k - 1) = n + 1 - k
    BY <1>1, <1>3
  <2>3. Right(k - 1)
    BY <1>6, <2>2
  <2> QED BY <2>2, <2>3
<1> QED BY <1>1, <1>9, <1>10

Lists == 0 .. MaxEntities
HeadOf(heads, free, i) == IF i = 0 THEN free ELSE heads[i]

(* The free list and the lists of the indices.                             *)
LEMMA ListsFact ==
  /\ 0 \in Lists /\ Indices \subseteq Lists
  /\ \A i \in Indices : i \in Lists /\ i # 0
  /\ \A i \in Lists : i # 0 => i \in Indices
BY WorldAssumption DEF Indices, Lists

(* No node is in two places.                                               *)
Apart(ch) ==
  \A i, j \in Lists : \A k \in DOMAIN ch[i], l \in DOMAIN ch[j] : ch[i][k] = ch[j][l] => i = j /\ k = l

(* ch[0] is the list of free nodes, ch[i] that of the types of index i.    *)
Chains(ch, heads, nodes, free) ==
  /\ nodes \in Seq(NodeType) /\ \A n \in DOMAIN nodes : nodes[n].next \in 0 .. Len(nodes)
  /\ heads \in [Indices -> Nat]
  /\ ch \in [Lists -> Seq(Nat)]
  /\ \A i \in Lists : Stacked(HeadOf(heads, free, i), nodes, ch[i])
  /\ Apart(ch)

(* The list of index i has type t, and no type twice.                      *)
TypeAt(ch, nodes, i, t) == \E k \in DOMAIN ch[i] : nodes[ch[i][k]].typeId = t
TypesOnce(ch, nodes) ==
  \A i \in Indices : \A k, l \in DOMAIN ch[i] : nodes[ch[i][k]].typeId = nodes[ch[i][l]].typeId => k = l

(* The stack s of n nodes is the list with head h.                         *)
Reads(s, n, h, nodes) ==
  /\ n \in Nat /\ n = Len(s) /\ DOMAIN s = 1 .. n /\ s \in Seq(Nat)
  /\ h = Nth(s, n)
  /\ \A k \in 1 .. n : s[k] \in DOMAIN nodes /\ s[k] \in Nat \ {0} /\ nodes[s[k]].next = Nth(s, k - 1)
  /\ \A k, l \in 1 .. n : s[k] = s[l] => k = l

(* Each stack of Chains is the list of its head.                           *)
LEMMA ListFact ==
  ASSUME NEW ch, NEW heads, NEW nodes, NEW free, Chains(ch, heads, nodes, free), NEW i \in Lists
  PROVE  Reads(ch[i], Len(ch[i]), HeadOf(heads, free, i), nodes)
<1> DEFINE n == Len(ch[i])
<1>1. ch[i] \in Seq(DOMAIN nodes) /\ HeadOf(heads, free, i) = Nth(ch[i], n)
      /\ \A k \in DOMAIN ch[i] : nodes[ch[i][k]].next = Nth(ch[i], k - 1)
  BY DEF Chains, Stacked
<1>2. n \in Nat /\ DOMAIN ch[i] = 1 .. n
  BY <1>1
<1>3. ch[i] \in Seq(Nat) /\ DOMAIN nodes \subseteq Nat \ {0}
  BY DEF Chains
<1>4. \A k \in 1 .. n : ch[i][k] \in DOMAIN nodes
  BY <1>1, <1>2
<1>5. \A k, l \in 1 .. n : ch[i][k] = ch[i][l] => k = l
  BY <1>2 DEF Chains, Apart
<1> HIDE DEF n
<1> QED BY <1>1, <1>2, <1>3, <1>4, <1>5 DEF Reads, n

(* x is the stack s of n nodes read from the top.                          *)
Down(x, s, n) ==
  /\ n \in Nat /\ x = [k \in 1 .. n |-> s[n + 1 - k]]
  /\ DOMAIN x = 1 .. n /\ \A k \in 1 .. n : x[k] = s[n + 1 - k]

(* Chain reads the list of an index.                                       *)
LEMMA ChainDown ==
  ASSUME NEW ch, Chains(ch, m_heads, m_nodes, m_freeNode), NEW i \in Indices
  PROVE  Down(Chain(m_heads[i]), ch[i], Len(ch[i]))
<1>1. i \in Lists /\ HeadOf(m_heads, m_freeNode, i) = m_heads[i] /\ m_nodes \in Seq(NodeType)
  BY ListsFact DEF HeadOf, Chains
<1>2. PICK s : s = ch[i]
  OBVIOUS
<1>3. Stacked(m_heads[i], m_nodes, s)
  BY <1>1, <1>2 DEF Chains
<1>4. Reads(s, Len(s), m_heads[i], m_nodes)
  BY <1>1, <1>2, ListFact
<1>5. Len(s) \in Nat /\ DOMAIN s = 1 .. Len(s) /\ \A k, l \in DOMAIN s : s[k] = s[l] => k = l
  BY <1>4 DEF Reads
<1>6. Chain(m_heads[i]) = [k \in 1 .. Len(s) |-> s[Len(s) + 1 - k]]
  BY <1>1, <1>3, <1>5, ChainFact
<1>7. PICK x, n : x = Chain(m_heads[i]) /\ n = Len(s)
  OBVIOUS
<1>8. Down(x, s, n)
  BY <1>5, <1>6, <1>7 DEF Down
<1> QED BY <1>2, <1>7, <1>8

(* Pushing a node on the list of index i: the free node on top, or a new   *)
(* one.                                                                    *)
LEMMA AddTypeFact ==
  ASSUME NEW ch, Chains(ch, m_heads, m_nodes, m_freeNode), TypesOnce(ch, m_nodes),
         NEW i \in Indices, NEW t \in Types, ~ TypeAt(ch, m_nodes, i, t), addEntityComponentType(i, t)
  PROVE  \E c : /\ Chains(c, m_heads', m_nodes', m_freeNode') /\ TypesOnce(c, m_nodes')
                /\ \A j \in Indices : \A u :
                     TypeAt(c, m_nodes', j, u) <=> TypeAt(ch, m_nodes, j, u) \/ (j = i /\ u = t)
<1>1. PICK s, n, m : s = ch[i] /\ n = Len(s) /\ m = Len(m_nodes)
  OBVIOUS
<1>2. /\ m_nodes \in Seq(NodeType) /\ m \in Nat /\ DOMAIN m_nodes = 1 .. m
      /\ \A x \in 1 .. m : m_nodes[x].next \in 0 .. m
      /\ m_heads \in [Indices -> Nat] /\ ch \in [Lists -> Seq(Nat)]
      /\ i \in Lists /\ i # 0 /\ 0 \in Lists /\ Indices \subseteq Lists
  <2>1. m_nodes \in Seq(NodeType) /\ \A x \in DOMAIN m_nodes : m_nodes[x].next \in 0 .. Len(m_nodes)
    BY DEF Chains
  <2>2. m \in Nat /\ DOMAIN m_nodes = 1 .. m
    BY <1>1, <2>1
  <2>3. m_heads \in [Indices -> Nat] /\ ch \in [Lists -> Seq(Nat)]
    BY DEF Chains
  <2> QED BY <1>1, <2>1, <2>2, <2>3, ListsFact
<1>3. /\ n \in Nat /\ DOMAIN s = 1 .. n /\ s \in Seq(Nat) /\ m_heads[i] = Nth(s, n)
      /\ \A k \in 1 .. n : s[k] \in 1 .. m /\ m_nodes[s[k]].next = Nth(s, k - 1)
      /\ \A k, l \in 1 .. n : s[k] = s[l] => k = l
  <2>1. Reads(s, n, m_heads[i], m_nodes)
    BY <1>1, <1>2, ListFact DEF HeadOf
  <2> QED BY <1>2, <2>1 DEF Reads
<1>4. m_heads[i] \in 0 .. m
  <2>1. n # 0 => n \in 1 .. n
    BY <1>3
  <2>2. n # 0 => s[n] \in 1 .. m
    BY <1>3, <2>1
  <2> QED BY <1>2, <1>3, <2>2 DEF Nth
<1>5. ~ \E k \in DOMAIN Chain(m_heads[i]) : m_nodes[Chain(m_heads[i])[k]].typeId = t
  <2>1. ASSUME NEW k \in 1 .. n, m_nodes[s[n + 1 - k]].typeId = t PROVE FALSE
    <3>1. n + 1 - k \in 1 .. n
      BY <1>3
    <3> QED BY <1>1, <1>3, <2>1, <3>1 DEF TypeAt
  <2>2. DOMAIN Chain(m_heads[i]) = 1 .. n /\ \A k \in 1 .. n : Chain(m_heads[i])[k] = s[n + 1 - k]
    BY <1>1, ChainDown DEF Down
  <2> QED BY <2>1, <2>2
<1>6. PICK node : node = [typeId |-> t, next |-> m_heads[i]]
  OBVIOUS
<1>7. node \in NodeType /\ node.typeId = t /\ node.next = m_heads[i]
  BY <1>2, <1>6 DEF NodeType
<1>8. IF m_freeNode # 0
      THEN /\ m_nodes' = [m_nodes EXCEPT ![m_freeNode] = node]
           /\ m_heads' = [m_heads EXCEPT ![i] = m_freeNode]
           /\ m_freeNode' = m_nodes[m_freeNode].next
      ELSE /\ m_nodes' = Append(m_nodes, node)
           /\ m_heads' = [m_heads EXCEPT ![i] = m + 1]
           /\ m_freeNode' = m_freeNode
  BY <1>1, <1>5, <1>6 DEF addEntityComponentType
(* The new top x of list i, and what is left of the free list.             *)
<1>9. PICK f, p : f = ch[0] /\ p = Len(f)
  OBVIOUS
<1>10. /\ p \in Nat /\ DOMAIN f = 1 .. p /\ f \in Seq(Nat) /\ m_freeNode = Nth(f, p)
       /\ \A k \in 1 .. p : f[k] \in 1 .. m /\ m_nodes[f[k]].next = Nth(f, k - 1)
       /\ \A k, l \in 1 .. p : f[k] = f[l] => k = l
  <2>1. Reads(f, p, m_freeNode, m_nodes)
    BY <1>2, <1>9, ListFact DEF HeadOf
  <2> QED BY <1>2, <2>1 DEF Reads
<1>11. PICK x : x = IF m_freeNode # 0 THEN m_freeNode ELSE m + 1
  OBVIOUS
<1>12. PICK r : r = IF m_freeNode # 0 THEN p - 1 ELSE p
  OBVIOUS
<1>13. /\ x \in Nat \ {0} /\ r \in Nat /\ r <= p /\ m_freeNode' = Nth(f, r)
       /\ \A k \in 1 .. r : k \in 1 .. p /\ f[k] # x /\ k - 1 <= r
       /\ \A j \in Lists : \A k \in DOMAIN ch[j] : ch[j][k] = x => j = 0 /\ k = p /\ r = p - 1 /\ p \in 1 .. p
  <2>1. CASE m_freeNode # 0
    <3>1. p # 0 /\ p \in 1 .. p /\ x = f[p] /\ r = p - 1
      BY <1>10, <1>11, <1>12, <2>1 DEF Nth
    <3>2. \A j \in Lists : \A k \in DOMAIN ch[j] : ch[j][k] = x => j = 0 /\ k = p
      BY <1>2, <1>9, <1>10, <3>1 DEF Chains, Apart
    <3>3. m_freeNode' = Nth(f, r)
      BY <1>8, <1>10, <1>11, <2>1, <3>1
    <3>4. \A k \in 1 .. r : k \in 1 .. p /\ k # p /\ k - 1 <= r
      BY <1>10, <3>1
    <3>5. x \in Nat \ {0}
      BY <1>10, <3>1
    <3> QED BY <1>10, <3>1, <3>2, <3>3, <3>4, <3>5
  <2>2. CASE m_freeNode = 0
    <3>1. x = m + 1 /\ r = p /\ m_freeNode' = m_freeNode /\ x \notin 1 .. m /\ x \in Nat \ {0}
      BY <1>2, <1>8, <1>11, <1>12, <2>2
    <3>2. \A j \in Lists : \A k \in DOMAIN ch[j] : ch[j][k] \in 1 .. m
      <4>1. SUFFICES ASSUME NEW j \in Lists, NEW k \in DOMAIN ch[j] PROVE ch[j][k] \in 1 .. m
        OBVIOUS
      <4>2. Reads(ch[j], Len(ch[j]), HeadOf(m_heads, m_freeNode, j), m_nodes)
        BY ListFact
      <4> QED BY <1>2, <4>2 DEF Reads
    <3> QED BY <1>10, <3>1, <3>2
  <2> QED BY <2>1, <2>2
<1>14. PICK N, q : N = m_nodes' /\ q = Len(N)
  OBVIOUS
<1>15. /\ N \in Seq(NodeType) /\ q \in Nat /\ (\A y \in 0 .. m : y \in 0 .. q) /\ (\A y \in 1 .. m : y \in 1 .. q)
       /\ DOMAIN N = 1 .. q /\ x \in 1 .. q /\ N[x] = node
       /\ \A y \in 1 .. m : y # x => N[y] = m_nodes[y]
       /\ \A y \in 1 .. q : y \in 1 .. m \/ y = x
       /\ m_heads' = [m_heads EXCEPT ![i] = x]
  <2>1. CASE m_freeNode # 0
    <3>1. x \in 1 .. m
      BY <1>10, <1>11, <2>1 DEF Nth
    <3>2. N = [m_nodes EXCEPT ![x] = node] /\ m_heads' = [m_heads EXCEPT ![i] = x]
      BY <1>8, <1>11, <1>14, <2>1
    <3> QED BY <1>2, <1>7, <1>14, <3>1, <3>2
  <2>2. CASE m_freeNode = 0
    <3>1. x = m + 1 /\ N = Append(m_nodes, node) /\ m_heads' = [m_heads EXCEPT ![i] = x]
      BY <1>8, <1>11, <1>14, <2>2
    <3>2. N \in Seq(NodeType) /\ Len(N) = m + 1 /\ DOMAIN N = 1 .. m + 1 /\ N[m + 1] = node
          /\ \A y \in 1 .. m : N[y] = m_nodes[y]
      BY <1>1, <1>2, <1>7, <3>1
    <3>3. \A y \in 1 .. m + 1 : y \in 1 .. m \/ y = m + 1
      BY <1>2
    <3> QED BY <1>2, <1>14, <3>1, <3>2, <3>3
  <2> QED BY <2>1, <2>2
<1>16. PICK a, g, c : a = Append(s, x) /\ g = [k \in 1 .. r |-> f[k]]
                      /\ c = [j \in Lists |-> IF j = i THEN a ELSE IF j = 0 THEN g ELSE ch[j]]
  OBVIOUS
<1>17. /\ a \in Seq(Nat) /\ Len(a) = n + 1 /\ DOMAIN a = 1 .. n + 1 /\ a[n + 1] = x
       /\ \A k \in 1 .. n : a[k] = s[k]
  BY <1>3, <1>13, <1>16
<1>18. g \in Seq(Nat) /\ Len(g) = r /\ DOMAIN g = 1 .. r /\ \A k \in 1 .. r : g[k] = f[k]
  <2>1. \A k \in 1 .. r : f[k] \in Nat
    BY <1>10, <1>13
  <2> QED BY <1>13, <1>16, <2>1
<1>19. \A k : k \in 1 .. n + 1 <=> k \in 1 .. n \/ k = n + 1
  BY <1>3
<1>20. c \in [Lists -> Seq(Nat)]
  BY <1>2, <1>16, <1>17, <1>18
<1>21. \A j \in Lists : \A k \in DOMAIN c[j] :
         \/ j = i /\ k = n + 1 /\ c[j][k] = x
         \/ k \in DOMAIN ch[j] /\ c[j][k] = ch[j][k] /\ c[j][k] # x
  <2>1. SUFFICES ASSUME NEW j \in Lists, NEW k \in DOMAIN c[j]
                 PROVE  \/ j = i /\ k = n + 1 /\ c[j][k] = x
                        \/ k \in DOMAIN ch[j] /\ c[j][k] = ch[j][k] /\ c[j][k] # x
    OBVIOUS
  <2>2. CASE j = i
    BY <1>1, <1>2, <1>3, <1>13, <1>16, <1>17, <1>19, <2>2
  <2>3. CASE j = 0
    BY <1>2, <1>9, <1>10, <1>13, <1>16, <1>18, <2>3
  <2>4. CASE j # i /\ j # 0
    BY <1>13, <1>16, <2>4
  <2> QED BY <2>2, <2>3, <2>4
<1>22. Apart(c)
  <2>1. SUFFICES ASSUME NEW j \in Lists, NEW l \in Lists, NEW k \in DOMAIN c[j], NEW h \in DOMAIN c[l],
                        c[j][k] = c[l][h]
                 PROVE  j = l /\ k = h
    BY DEF Apart
  <2>2. \/ j = i /\ k = n + 1 /\ c[j][k] = x
        \/ k \in DOMAIN ch[j] /\ c[j][k] = ch[j][k] /\ c[j][k] # x
    BY <1>21
  <2>3. \/ l = i /\ h = n + 1 /\ c[l][h] = x
        \/ h \in DOMAIN ch[l] /\ c[l][h] = ch[l][h] /\ c[l][h] # x
    BY <1>21
  <2>4. k \in DOMAIN ch[j] /\ h \in DOMAIN ch[l] /\ ch[j][k] = ch[l][h] => j = l /\ k = h
    BY DEF Chains, Apart
  <2> QED BY <2>1, <2>2, <2>3, <2>4
<1>23. \A y \in 1 .. q : N[y].next \in 0 .. q
  BY <1>2, <1>4, <1>7, <1>15
<1>24. \A j \in Lists : Stacked(HeadOf(m_heads', m_freeNode', j), N, c[j])
  <2>1. CASE \A j \in Lists : j # i /\ j # 0 => Stacked(HeadOf(m_heads', m_freeNode', j), N, c[j])
    <3>1. Stacked(m_heads'[i], N, a)
      <4>1. m_heads'[i] = x /\ Nth(a, n + 1) = x
        BY <1>2, <1>3, <1>15, <1>17 DEF Nth
      <4>2. a \in Seq(DOMAIN N)
        <5>1. \A k \in 1 .. n + 1 : a[k] \in 1 .. q
          BY <1>2, <1>3, <1>15, <1>17, <1>19
        <5> QED BY <1>15, <1>17, <5>1
      <4>3. ASSUME NEW k \in 1 .. n + 1 PROVE N[a[k]].next = Nth(a, k - 1)
        <5>1. CASE k = n + 1
          <6>1. N[a[k]].next = Nth(s, n) /\ k - 1 = n /\ (n # 0 => n \in 1 .. n)
            BY <1>3, <1>7, <1>15, <1>17, <5>1
          <6> QED BY <1>17, <6>1 DEF Nth
        <5>2. CASE k \in 1 .. n
          <6>1. s[k] # x
            BY <1>1, <1>2, <1>3, <1>13, <5>2
          <6>2. N[a[k]].next = Nth(s, k - 1)
            BY <1>3, <1>15, <1>17, <5>2, <6>1
          <6>3. k - 1 # 0 => k - 1 \in 1 .. n
            BY <1>3, <5>2
          <6> QED BY <1>17, <6>2, <6>3 DEF Nth
        <5> QED BY <1>19, <5>1, <5>2
      <4> QED BY <1>17, <4>1, <4>2, <4>3 DEF Stacked
    <3>2. Stacked(m_freeNode', N, g)
      <4>1. m_freeNode' = Nth(g, r)
        <5>1. r # 0 => r \in 1 .. r
          BY <1>13
        <5> QED BY <1>13, <1>18, <5>1 DEF Nth
      <4>2. g \in Seq(DOMAIN N)
        <5>1. \A k \in 1 .. r : g[k] \in 1 .. q
          BY <1>2, <1>10, <1>13, <1>15, <1>18
        <5> QED BY <1>15, <1>18, <5>1
      <4>3. ASSUME NEW k \in 1 .. r PROVE N[g[k]].next = Nth(g, k - 1)
        <5>1. N[g[k]].next = Nth(f, k - 1)
          BY <1>10, <1>13, <1>15, <1>18
        <5>2. k - 1 # 0 => k - 1 \in 1 .. r
          BY <1>13
        <5> QED BY <1>18, <5>1, <5>2 DEF Nth
      <4> QED BY <1>18, <4>1, <4>2, <4>3 DEF Stacked
    <3> QED BY <1>2, <1>16, <2>1, <3>1, <3>2 DEF HeadOf
  <2>2. ASSUME NEW j \in Lists, j # i, j # 0 PROVE Stacked(HeadOf(m_heads', m_freeNode', j), N, c[j])
    <3>1. c[j] = ch[j] /\ j \in Indices
      BY <1>16, <2>2 DEF Lists, Indices
    <3>2. HeadOf(m_heads', m_freeNode', j) = HeadOf(m_heads, m_freeNode, j)
      BY <1>2, <1>15, <2>2, <3>1 DEF HeadOf
    <3>3. PICK b, w : b = ch[j] /\ w = Len(b)
      OBVIOUS
    <3>4. /\ w \in Nat /\ DOMAIN b = 1 .. w /\ b \in Seq(Nat) /\ HeadOf(m_heads, m_freeNode, j) = Nth(b, w)
          /\ \A k \in 1 .. w : b[k] \in 1 .. m /\ m_nodes[b[k]].next = Nth(b, k - 1)
      <4>1. Reads(b, w, HeadOf(m_heads, m_freeNode, j), m_nodes)
        BY <3>3, ListFact
      <4> QED BY <1>2, <4>1 DEF Reads
    <3>5. \A k \in 1 .. w : b[k] # x
      BY <1>13, <2>2, <3>3, <3>4
    <3>6. \A k \in 1 .. w : b[k] \in 1 .. q /\ N[b[k]].next = Nth(b, k - 1)
      BY <1>2, <1>15, <3>4, <3>5
    <3>7. b \in Seq(DOMAIN N)
      <4>1. \A k \in 1 .. w : b[k] \in DOMAIN N
        BY <1>15, <3>6
      <4> QED BY <3>4, <4>1
    <3> QED BY <3>1, <3>2, <3>3, <3>4, <3>6, <3>7 DEF Stacked
  <2> QED BY <2>1, <2>2
<1>25. Chains(c, m_heads', m_nodes', m_freeNode')
  <2>1. m_heads' \in [Indices -> Nat]
    BY <1>2, <1>13, <1>15
  <2> QED BY <1>14, <1>15, <1>20, <1>22, <1>23, <1>24, <2>1 DEF Chains
<1>26. \A j \in Indices : \A k \in DOMAIN c[j] :
         \/ j = i /\ k = n + 1 /\ N[c[j][k]].typeId = t
         \/ k \in DOMAIN ch[j] /\ N[c[j][k]].typeId = m_nodes[ch[j][k]].typeId
  <2>1. SUFFICES ASSUME NEW j \in Indices, NEW k \in DOMAIN c[j], ~(j = i /\ k = n + 1)
                 PROVE  k \in DOMAIN ch[j] /\ N[c[j][k]].typeId = m_nodes[ch[j][k]].typeId
    <3>1. c[i] = a /\ N[c[i][n + 1]].typeId = t
      BY <1>2, <1>7, <1>15, <1>16, <1>17
    <3> QED BY <3>1
  <2>2. k \in DOMAIN ch[j] /\ c[j][k] = ch[j][k] /\ c[j][k] # x
    BY <1>2, <1>21, <2>1
  <2>3. ch[j][k] \in 1 .. m
    <3>1. Reads(ch[j], Len(ch[j]), HeadOf(m_heads, m_freeNode, j), m_nodes)
      BY <1>2, ListFact
    <3> QED BY <1>2, <2>2, <3>1 DEF Reads
  <2> QED BY <1>15, <2>2, <2>3
<1>27. \A j \in Indices : \A k \in DOMAIN ch[j] : k \in DOMAIN c[j]
  <2>1. SUFFICES ASSUME NEW j \in Indices PROVE DOMAIN ch[j] \subseteq DOMAIN c[j]
    OBVIOUS
  <2>2. j # 0 /\ j \in Lists
    BY <1>2 DEF Indices
  <2> QED BY <1>1, <1>3, <1>16, <1>17, <1>19, <2>2
<1>28. TypesOnce(c, N)
  <2>1. SUFFICES ASSUME NEW j \in Indices, NEW k \in DOMAIN c[j], NEW l \in DOMAIN c[j],
                        N[c[j][k]].typeId = N[c[j][l]].typeId
                 PROVE  k = l
    BY DEF TypesOnce
  <2>2. \A y \in DOMAIN ch[i] : m_nodes[ch[i][y]].typeId # t
    BY DEF TypeAt
  <2> QED BY <1>26, <2>1, <2>2 DEF TypesOnce
<1>29. ASSUME NEW j \in Indices, NEW u
       PROVE  TypeAt(c, N, j, u) <=> TypeAt(ch, m_nodes, j, u) \/ (j = i /\ u = t)
  <2>1. TypeAt(c, N, j, u) => TypeAt(ch, m_nodes, j, u) \/ (j = i /\ u = t)
    BY <1>26 DEF TypeAt
  <2>2. ASSUME TypeAt(ch, m_nodes, j, u) PROVE TypeAt(c, N, j, u)
    <3>1. PICK k \in DOMAIN ch[j] : m_nodes[ch[j][k]].typeId = u
      BY <2>2 DEF TypeAt
    <3>2. k \in DOMAIN c[j] /\ ~(j = i /\ k = n + 1)
      BY <1>1, <1>3, <1>27, <3>1
    <3> QED BY <1>26, <3>1, <3>2 DEF TypeAt
  <2>3. TypeAt(c, N, i, t)
    <3>1. c[i] = a /\ n + 1 \in DOMAIN c[i]
      BY <1>2, <1>16, <1>17, <1>19
    <3>2. N[c[i][n + 1]].typeId = t
      BY <1>7, <1>15, <1>17, <3>1
    <3> QED BY <3>1, <3>2 DEF TypeAt
  <2> QED BY <2>1, <2>2, <2>3
<1> QED BY <1>14, <1>25, <1>28, <1>29

(* What is known before a list changes: of the list of index i and of the  *)
(* free list.                                                              *)
Scene(ch, i, m, s, n, f, p) ==
  /\ m_nodes \in Seq(NodeType) /\ m \in Nat /\ m = Len(m_nodes) /\ DOMAIN m_nodes = 1 .. m
  /\ \A x \in 1 .. m : m_nodes[x].next \in 0 .. m
  /\ m_heads \in [Indices -> Nat] /\ ch \in [Lists -> Seq(Nat)]
  /\ i \in Lists /\ i # 0 /\ 0 \in Lists /\ Indices \subseteq Lists
  /\ s = ch[i] /\ n \in Nat /\ DOMAIN s = 1 .. n /\ s \in Seq(Nat) /\ m_heads[i] = Nth(s, n)
  /\ \A k \in 1 .. n : s[k] \in 1 .. m /\ m_nodes[s[k]].next = Nth(s, k - 1)
  /\ \A k, l \in 1 .. n : s[k] = s[l] => k = l
  /\ f = ch[0] /\ p \in Nat /\ DOMAIN f = 1 .. p /\ f \in Seq(Nat) /\ m_freeNode = Nth(f, p)
  /\ \A k \in 1 .. p : f[k] \in 1 .. m /\ m_nodes[f[k]].next = Nth(f, k - 1)
  /\ \A k, l \in 1 .. p : f[k] = f[l] => k = l
  /\ \A k \in 1 .. n, l \in 1 .. p : s[k] # f[l]
  /\ Down(Chain(m_heads[i]), s, n)

(* Every list of Chains sets that scene.                                   *)
LEMMA SceneFact ==
  ASSUME NEW ch, Chains(ch, m_heads, m_nodes, m_freeNode), NEW i \in Indices
  PROVE  \E m, s, n, f, p : Scene(ch, i, m, s, n, f, p)
<1>1. PICK m, s, n, f, p : m = Len(m_nodes) /\ s = ch[i] /\ n = Len(s) /\ f = ch[0] /\ p = Len(f)
  OBVIOUS
<1>2. m_nodes \in Seq(NodeType) /\ m \in Nat /\ DOMAIN m_nodes = 1 .. m
  <2>1. m_nodes \in Seq(NodeType)
    BY DEF Chains
  <2> QED BY <1>1, <2>1
<1>3. /\ \A x \in 1 .. m : m_nodes[x].next \in 0 .. m
      /\ m_heads \in [Indices -> Nat] /\ ch \in [Lists -> Seq(Nat)]
  BY <1>1, <1>2 DEF Chains
<1>4. i \in Lists /\ i # 0 /\ 0 \in Lists /\ Indices \subseteq Lists
  BY ListsFact
<1>5. Reads(s, n, m_heads[i], m_nodes) /\ Reads(f, p, m_freeNode, m_nodes)
  BY <1>1, <1>4, ListFact DEF HeadOf
<1>6. /\ n \in Nat /\ DOMAIN s = 1 .. n /\ s \in Seq(Nat) /\ m_heads[i] = Nth(s, n)
      /\ \A k \in 1 .. n : s[k] \in 1 .. m /\ m_nodes[s[k]].next = Nth(s, k - 1)
      /\ \A k, l \in 1 .. n : s[k] = s[l] => k = l
  BY <1>2, <1>5 DEF Reads
<1>7. /\ p \in Nat /\ DOMAIN f = 1 .. p /\ f \in Seq(Nat) /\ m_freeNode = Nth(f, p)
      /\ \A k \in 1 .. p : f[k] \in 1 .. m /\ m_nodes[f[k]].next = Nth(f, k - 1)
      /\ \A k, l \in 1 .. p : f[k] = f[l] => k = l
  BY <1>2, <1>5 DEF Reads
<1>8. \A k \in 1 .. n, l \in 1 .. p : s[k] # f[l]
  BY <1>1, <1>4, <1>6, <1>7 DEF Chains, Apart
<1>9. Down(Chain(m_heads[i]), s, n)
  BY <1>1, ChainDown
<1>10. Scene(ch, i, m, s, n, f, p)
  BY <1>1, <1>2, <1>3, <1>4, <1>6, <1>7, <1>8, <1>9 DEF Scene
<1> QED BY <1>10

(* M are the nodes N but for the next of node x, which is v.               *)
SetNext(M, N, x, v) ==
  /\ M \in Seq(NodeType) /\ Len(M) = Len(N) /\ DOMAIN M = DOMAIN N
  /\ \A z \in DOMAIN N : M[z].typeId = N[z].typeId /\ M[z].next = IF z = x THEN v ELSE N[z].next

(* Writing the next of one node changes nothing else.                      *)
LEMMA SetNextFact ==
  ASSUME NEW N \in Seq(NodeType), NEW x \in DOMAIN N, NEW v \in Nat, NEW M, M = [N EXCEPT ![x].next = v]
  PROVE  SetNext(M, N, x, v)
<1>1. PICK node : node = [N[x] EXCEPT !.next = v]
  OBVIOUS
<1>2. N[x] \in NodeType
  OBVIOUS
<1>3. node \in NodeType /\ node.next = v /\ node.typeId = N[x].typeId
  BY <1>1, <1>2 DEF NodeType
<1>4. M = [N EXCEPT ![x] = node]
  BY <1>1
<1>5. M \in Seq(NodeType) /\ Len(M) = Len(N) /\ DOMAIN M = DOMAIN N /\ M[x] = node
      /\ \A z \in DOMAIN N : z # x => M[z] = N[z]
  BY <1>3, <1>4
<1> QED BY <1>3, <1>5 DEF SetNext

(* A list whose nodes keep their links is still one.                       *)
LEMMA OtherKept ==
  ASSUME NEW ch, Chains(ch, m_heads, m_nodes, m_freeNode), NEW j \in Lists,
         NEW N \in Seq(NodeType), DOMAIN N = DOMAIN m_nodes,
         \A k \in DOMAIN ch[j] : N[ch[j][k]].next = m_nodes[ch[j][k]].next
  PROVE  Stacked(HeadOf(m_heads, m_freeNode, j), N, ch[j])
<1>1. Stacked(HeadOf(m_heads, m_freeNode, j), m_nodes, ch[j])
  BY DEF Chains
<1> QED BY <1>1 DEF Stacked

(* Removing type t from the list of index i frees its node.                *)
LEMMA RemoveTypeFact ==
  ASSUME NEW ch, Chains(ch, m_heads, m_nodes, m_freeNode), TypesOnce(ch, m_nodes),
         NEW i \in Indices, NEW t, TypeAt(ch, m_nodes, i, t), removeEntityComponentType(i, t)
  PROVE  \E c : /\ Chains(c, m_heads', m_nodes', m_freeNode') /\ TypesOnce(c, m_nodes')
                /\ \A j \in Indices : \A u :
                     TypeAt(c, m_nodes', j, u) <=> TypeAt(ch, m_nodes, j, u) /\ ~(j = i /\ u = t)
<1>1. PICK m, s, n, f, p : Scene(ch, i, m, s, n, f, p)
  BY SceneFact
<1>2. /\ m_nodes \in Seq(NodeType) /\ m \in Nat /\ m = Len(m_nodes) /\ DOMAIN m_nodes = 1 .. m
      /\ \A x \in 1 .. m : m_nodes[x].next \in 0 .. m
      /\ m_heads \in [Indices -> Nat] /\ ch \in [Lists -> Seq(Nat)]
      /\ i \in Lists /\ i # 0 /\ 0 \in Lists /\ Indices \subseteq Lists
  BY <1>1 DEF Scene
<1>3. /\ s = ch[i] /\ n \in Nat /\ DOMAIN s = 1 .. n /\ s \in Seq(Nat) /\ m_heads[i] = Nth(s, n)
      /\ \A k \in 1 .. n : s[k] \in 1 .. m /\ m_nodes[s[k]].next = Nth(s, k - 1)
      /\ \A k, l \in 1 .. n : s[k] = s[l] => k = l
  BY <1>1 DEF Scene
<1>4. /\ f = ch[0] /\ p \in Nat /\ DOMAIN f = 1 .. p /\ f \in Seq(Nat) /\ m_freeNode = Nth(f, p)
      /\ \A k \in 1 .. p : f[k] \in 1 .. m /\ m_nodes[f[k]].next = Nth(f, k - 1)
      /\ \A k, l \in 1 .. p : f[k] = f[l] => k = l
      /\ \A k \in 1 .. n, l \in 1 .. p : s[k] # f[l]
  BY <1>1 DEF Scene
<1> DEFINE found == {k \in DOMAIN Chain(m_heads[i]) : m_nodes[Chain(m_heads[i])[k]].typeId = t}
           first == CHOOSE k \in found : \A l \in found : k <= l
           node == Chain(m_heads[i])[first]
<1>5. found # {} =>
         /\ m_heads' = IF first = 1 THEN [m_heads EXCEPT ![i] = m_nodes[node].next] ELSE m_heads
         /\ m_nodes' = [IF first = 1 THEN m_nodes
                        ELSE [m_nodes EXCEPT ![Chain(m_heads[i])[first - 1]].next = m_nodes[node].next]
                        EXCEPT ![node].next = m_freeNode]
         /\ m_freeNode' = node
  BY Zenon DEF removeEntityComponentType
<1>6. PICK chain : chain = Chain(m_heads[i])
  OBVIOUS
<1>7. DOMAIN chain = 1 .. n /\ \A k \in 1 .. n : chain[k] = s[n + 1 - k]
  BY <1>1, <1>6 DEF Scene, Down
<1>8. PICK y \in 1 .. n : m_nodes[s[y]].typeId = t
  BY <1>3 DEF TypeAt
<1>9. \A l \in 1 .. n : m_nodes[s[l]].typeId = t => l = y
  BY <1>3, <1>8 DEF TypesOnce
<1>10. PICK at : at = found /\ at = {k \in DOMAIN chain : m_nodes[chain[k]].typeId = t}
  BY <1>6
<1> HIDE DEF found
<1>11. at = {n + 1 - y}
  <2>1. n + 1 - y \in 1 .. n /\ n + 1 - (n + 1 - y) = y
    BY <1>3
  <2>2. n + 1 - y \in at
    BY <1>7, <1>8, <1>10, <2>1
  <2>3. ASSUME NEW k \in at PROVE k = n + 1 - y
    <3>1. k \in 1 .. n /\ n + 1 - k \in 1 .. n /\ m_nodes[s[n + 1 - k]].typeId = t
      <4>1. k \in 1 .. n
        BY <1>7, <1>10
      <4>2. n + 1 - k \in 1 .. n
        BY <1>3, <4>1
      <4> QED BY <1>7, <1>10, <4>1, <4>2
    <3>2. n + 1 - k = y
      BY <1>9, <3>1
    <3> QED BY <1>3, <3>1, <3>2
  <2> QED BY <2>2, <2>3
<1>12. PICK z : z = first
  OBVIOUS
<1>13. z = n + 1 - y
  <2>1. PICK e : e = n + 1 - y
    OBVIOUS
  <2>2. e \in Int /\ found = {e}
    BY <1>3, <1>10, <1>11, <2>1
  <2>3. first = e
    BY <2>2
  <2> QED BY <1>12, <2>1, <2>3
<1> HIDE DEF first
<1>14. PICK x, v : x = s[y] /\ v = Nth(s, y - 1)
  OBVIOUS
<1>15. PICK w : w = IF y = n THEN 0 ELSE s[y + 1]
  OBVIOUS
<1>16. x \in 1 .. m /\ v \in 0 .. m /\ m_freeNode \in 0 .. m /\ m_nodes[x].next = v
  <2>1. x \in 1 .. m /\ m_nodes[x].next = v
    BY <1>3, <1>8, <1>14
  <2>2. v \in 0 .. m
    BY <1>2, <2>1
  <2>3. m_freeNode \in 0 .. m
    <3>1. CASE p = 0
      BY <1>2, <1>4, <3>1 DEF Nth
    <3>2. CASE p # 0
      <4>1. p \in 1 .. p
        BY <1>4, <3>2
      <4>2. m_freeNode = f[p] /\ f[p] \in 1 .. m
        BY <1>4, <3>2, <4>1 DEF Nth
      <4> QED BY <1>2, <4>2
    <3> QED BY <3>1, <3>2
  <2> QED BY <2>1, <2>2, <2>3
<1>17. chain[z] = x /\ (z = 1 <=> y = n)
  <2>1. n + 1 - y \in 1 .. n /\ n + 1 - (n + 1 - y) = y /\ (n + 1 - y = 1 <=> y = n)
    BY <1>3
  <2>2. chain[n + 1 - y] = s[n + 1 - (n + 1 - y)]
    BY <1>7, <2>1
  <2> QED BY <1>13, <1>14, <2>1, <2>2
<1>18. (y = n <=> w = 0) /\ (y # n => w = s[y + 1] /\ y + 1 \in 1 .. n /\ w \in 1 .. m)
  <2>1. y # n => y + 1 \in 1 .. n
    BY <1>3
  <2>2. y # n => s[y + 1] \in 1 .. m
    BY <1>3, <2>1
  <2> QED BY <1>2, <1>15, <2>1, <2>2
<1>19. y # n => chain[z - 1] = w
  <2>1. SUFFICES ASSUME y # n PROVE chain[z - 1] = w
    OBVIOUS
  <2>2. PICK e : e = z - 1
    OBVIOUS
  <2>3. e \in 1 .. n /\ n + 1 - e = y + 1
    BY <1>3, <1>13, <2>1, <2>2
  <2>4. chain[e] = s[n + 1 - e]
    BY <1>7, <2>3
  <2> QED BY <1>18, <2>1, <2>2, <2>3, <2>4
(* Where the removed node x and the one linked to it are.                  *)
<1>20. \A l \in 1 .. n : (s[l] = x => l = y) /\ (s[l] = w => y # n /\ l = y + 1)
  <2>1. SUFFICES ASSUME NEW l \in 1 .. n PROVE (s[l] = x => l = y) /\ (s[l] = w => y # n /\ l = y + 1)
    OBVIOUS
  <2>2. s[l] # 0
    <3>1. s[l] \in 1 .. m
      BY <1>3
    <3> QED BY <1>2, <3>1
  <2>3. s[l] = w => y # n
    BY <1>18, <2>2
  <2> QED BY <1>3, <1>14, <1>18, <2>3
<1>21. x # w
  <2>1. y # y + 1
    BY <1>3
  <2> QED BY <1>14, <1>20, <2>1
<1>22. \A j \in Lists : j # i => \A k \in DOMAIN ch[j] : ch[j][k] # x /\ ch[j][k] # w
  <2>1. SUFFICES ASSUME NEW j \in Lists, j # i, NEW k \in DOMAIN ch[j] PROVE ch[j][k] # x /\ ch[j][k] # w
    OBVIOUS
  <2>2. \A l \in 1 .. n : ch[j][k] # s[l]
    BY <1>2, <1>3, <2>1 DEF Chains, Apart
  <2>3. ch[j][k] # 0
    <3>1. Reads(ch[j], Len(ch[j]), HeadOf(m_heads, m_freeNode, j), m_nodes)
      BY ListFact
    <3> QED BY <3>1 DEF Reads
  <2> QED BY <1>14, <1>18, <2>2, <2>3
<1>23. \A k \in 1 .. p : f[k] # x /\ f[k] # w
  BY <1>2, <1>4, <1>22
<1>24. PICK M : M = IF z = 1 THEN m_nodes ELSE [m_nodes EXCEPT ![chain[z - 1]].next = m_nodes[x].next]
  OBVIOUS
<1>25. /\ m_heads' = IF z = 1 THEN [m_heads EXCEPT ![i] = m_nodes[x].next] ELSE m_heads
       /\ m_nodes' = [M EXCEPT ![x].next = m_freeNode]
       /\ m_freeNode' = x
  <2>1. at # {}
    BY <1>11
  <2>2. /\ m_heads' = IF z = 1 THEN [m_heads EXCEPT ![i] = m_nodes[chain[z]].next] ELSE m_heads
        /\ m_nodes' = [IF z = 1 THEN m_nodes
                       ELSE [m_nodes EXCEPT ![chain[z - 1]].next = m_nodes[chain[z]].next]
                       EXCEPT ![chain[z]].next = m_freeNode]
        /\ m_freeNode' = chain[z]
    BY <1>6, <1>10, <1>12, <1>5, <2>1
  <2> QED BY <1>24, <1>17, <2>2
<1>26. /\ M \in Seq(NodeType) /\ Len(M) = m /\ DOMAIN M = 1 .. m
       /\ \A a \in 1 .. m : M[a].typeId = m_nodes[a].typeId
                            /\ M[a].next = IF a = w THEN v ELSE m_nodes[a].next
  <2>1. CASE y = n
    <3>1. M = m_nodes
      BY <1>24, <1>17, <2>1
    <3>2. \A a \in 1 .. m : a # w
      BY <1>2, <1>18, <2>1
    <3> QED BY <1>2, <3>1, <3>2
  <2>2. CASE y # n
    <3>1. M = [m_nodes EXCEPT ![w].next = v]
      BY <1>24, <1>16, <1>17, <1>19, <2>2
    <3>2. w \in DOMAIN m_nodes /\ v \in Nat
      BY <1>2, <1>16, <1>18, <2>2
    <3>3. SetNext(M, m_nodes, w, v)
      BY <1>2, <3>1, <3>2, SetNextFact
    <3> QED BY <1>2, <3>3 DEF SetNext
  <2> QED BY <2>1, <2>2
<1>27. PICK N : N = m_nodes'
  OBVIOUS
<1>28. /\ N \in Seq(NodeType) /\ Len(N) = m /\ DOMAIN N = 1 .. m
       /\ \A a \in 1 .. m : N[a].typeId = m_nodes[a].typeId
                            /\ N[a].next = IF a = x THEN m_freeNode ELSE IF a = w THEN v ELSE m_nodes[a].next
  <2>1. m_freeNode \in Nat /\ x \in DOMAIN M
    BY <1>2, <1>26, <1>16
  <2>2. SetNext(N, M, x, m_freeNode)
    BY <1>25, <1>26, <1>27, <2>1, SetNextFact
  <2> QED BY <1>26, <2>2 DEF SetNext
<1>29. \A a \in 1 .. m : N[a].next \in 0 .. m
  BY <1>2, <1>28, <1>16
<1>30. PICK b, g, c : b = [l \in 1 .. n - 1 |-> IF l < y THEN s[l] ELSE s[l + 1]] /\ g = Append(f, x)
                      /\ c = [j \in Lists |-> IF j = i THEN b ELSE IF j = 0 THEN g ELSE ch[j]]
  OBVIOUS
<1>31. n - 1 \in Nat /\ n \in 1 .. n /\ y - 1 \in Nat
       /\ \A l \in 1 .. n - 1 : (l < y => l \in 1 .. n) /\ (~(l < y) => l + 1 \in 1 .. n /\ l + 1 # y)
  BY <1>3
<1>32. b \in Seq(Nat) /\ Len(b) = n - 1 /\ DOMAIN b = 1 .. n - 1
       /\ \A l \in 1 .. n - 1 : (l < y => b[l] = s[l]) /\ (~(l < y) => b[l] = s[l + 1])
  <2>1. \A l \in 1 .. n : s[l] \in Nat
    BY <1>3
  <2>2. \A l \in 1 .. n - 1 : (IF l < y THEN s[l] ELSE s[l + 1]) \in Nat
    BY <1>31, <2>1
  <2> QED BY <1>30, <1>31, <2>2
<1>33. /\ g \in Seq(Nat) /\ Len(g) = p + 1 /\ DOMAIN g = 1 .. p + 1 /\ g[p + 1] = x
       /\ \A k \in 1 .. p : g[k] = f[k]
  <2>1. x \in Nat /\ g = Append(f, x) /\ Len(f) = p
    BY <1>2, <1>4, <1>30, <1>16
  <2> QED BY <1>4, <2>1
<1>34. \A k : k \in 1 .. p + 1 <=> k \in 1 .. p \/ k = p + 1
  BY <1>4
<1>35. c \in [Lists -> Seq(Nat)]
  BY <1>2, <1>30, <1>32, <1>33
(* Where each entry of c was.                                              *)
<1>36. \A j \in Lists : \A k \in DOMAIN c[j] :
         \/ j = 0 /\ k = p + 1 /\ c[j][k] = x
         \/ j = i /\ k < y /\ k \in 1 .. n - 1 /\ k \in DOMAIN ch[i] /\ c[j][k] = ch[i][k] /\ c[j][k] # x
         \/ j = i /\ ~(k < y) /\ k \in 1 .. n - 1 /\ k + 1 \in DOMAIN ch[i] /\ c[j][k] = ch[i][k + 1] /\ c[j][k] # x
         \/ j # i /\ k \in DOMAIN ch[j] /\ c[j][k] = ch[j][k] /\ c[j][k] # x
  <2>1. SUFFICES ASSUME NEW j \in Lists, NEW k \in DOMAIN c[j]
                 PROVE  \/ j = 0 /\ k = p + 1 /\ c[j][k] = x
                        \/ j = i /\ k < y /\ k \in 1 .. n - 1 /\ k \in DOMAIN ch[i]
                           /\ c[j][k] = ch[i][k] /\ c[j][k] # x
                        \/ j = i /\ ~(k < y) /\ k \in 1 .. n - 1 /\ k + 1 \in DOMAIN ch[i]
                           /\ c[j][k] = ch[i][k + 1] /\ c[j][k] # x
                        \/ j # i /\ k \in DOMAIN ch[j] /\ c[j][k] = ch[j][k] /\ c[j][k] # x
    OBVIOUS
  <2>2. CASE j = i
    <3>1. c[j] = b /\ k \in 1 .. n - 1
      BY <1>30, <1>32, <2>2
    <3>2. CASE k < y
      <4>1. k \in 1 .. n /\ k # y /\ b[k] = s[k]
        BY <1>31, <1>32, <3>1, <3>2
      <4>2. s[k] # x
        BY <1>3, <1>14, <4>1
      <4> QED BY <1>3, <2>2, <3>1, <3>2, <4>1, <4>2
    <3>3. CASE ~(k < y)
      <4>1. k + 1 \in 1 .. n /\ k + 1 # y /\ b[k] = s[k + 1]
        BY <1>31, <1>32, <3>1, <3>3
      <4>2. s[k + 1] # x
        BY <1>3, <1>14, <4>1
      <4> QED BY <1>3, <2>2, <3>1, <3>3, <4>1, <4>2
    <3> QED BY <3>2, <3>3
  <2>3. CASE j = 0
    BY <1>2, <1>3, <1>4, <1>8, <1>14, <1>30, <1>33, <1>34, <2>3
  <2>4. CASE j # i /\ j # 0
    <3>1. c[j] = ch[j]
      BY <1>30, <2>4
    <3>2. \A l \in DOMAIN ch[j] : ch[j][l] # x
      BY <1>22, <2>4
    <3> QED BY <2>4, <3>1, <3>2
  <2> QED BY <2>2, <2>3, <2>4
<1>37. Apart(c)
  <2>1. SUFFICES ASSUME NEW j \in Lists, NEW l \in Lists, NEW k \in DOMAIN c[j], NEW h \in DOMAIN c[l],
                        c[j][k] = c[l][h]
                 PROVE  j = l /\ k = h
    BY DEF Apart
  <2>2. CASE c[j][k] = x
    <3>1. j = 0 /\ k = p + 1
      BY <1>36, <2>2
    <3>2. l = 0 /\ h = p + 1
      BY <1>36, <2>1, <2>2
    <3> QED BY <3>1, <3>2
  <2>3. CASE c[j][k] # x
    <3>1. PICK k2 \in DOMAIN ch[j] :
            c[j][k] = ch[j][k2] /\ (j # i => k2 = k)
            /\ (j = i => k \in 1 .. n - 1 /\ (k < y => k2 = k) /\ (~(k < y) => k2 = k + 1))
      BY <1>36, <2>3
    <3>2. PICK h2 \in DOMAIN ch[l] :
            c[l][h] = ch[l][h2] /\ (l # i => h2 = h)
            /\ (l = i => h \in 1 .. n - 1 /\ (h < y => h2 = h) /\ (~(h < y) => h2 = h + 1))
      BY <1>36, <2>1, <2>3
    <3>3. j = l /\ k2 = h2
      <4>1. ch[j][k2] = ch[l][h2]
        BY <2>1, <3>1, <3>2
      <4> QED BY <4>1 DEF Chains, Apart
    <3>4. CASE j # i
      BY <3>1, <3>2, <3>3, <3>4
    <3>5. CASE j = i
      BY <1>3, <3>1, <3>2, <3>3, <3>5
    <3> QED BY <3>3, <3>4, <3>5
  <2> QED BY <2>2, <2>3
<1>38. Stacked(m_heads'[i], N, b)
  <2>1. m_heads'[i] = Nth(b, n - 1)
    <3>1. CASE y = n
      <4>1. m_heads'[i] = Nth(s, n - 1)
        BY <1>2, <1>14, <1>25, <1>16, <1>17, <3>1
      <4>2. n - 1 # 0 => n - 1 \in 1 .. n - 1 /\ n - 1 < y
        BY <1>31, <3>1
      <4> QED BY <1>32, <4>1, <4>2 DEF Nth
    <3>2. CASE y # n
      <4>1. m_heads'[i] = s[n]
        BY <1>3, <1>25, <1>31, <1>17, <3>2 DEF Nth
      <4>2. n - 1 \in 1 .. n - 1 /\ ~(n - 1 < y) /\ n - 1 + 1 = n /\ n - 1 # 0
        BY <1>3, <3>2
      <4> QED BY <1>32, <4>1, <4>2 DEF Nth
    <3> QED BY <3>1, <3>2
  <2>2. b \in Seq(DOMAIN N)
    <3>1. \A l \in 1 .. n - 1 : b[l] \in 1 .. m
      BY <1>3, <1>31, <1>32
    <3> QED BY <1>28, <1>32, <3>1
  <2>3. ASSUME NEW l \in 1 .. n - 1 PROVE N[b[l]].next = Nth(b, l - 1)
    <3>1. CASE l < y
      <4>1. b[l] = s[l] /\ l \in 1 .. n /\ l # y /\ l # y + 1
        BY <1>3, <1>31, <1>32, <3>1
      <4>2. s[l] # x /\ s[l] # w /\ s[l] \in 1 .. m
        BY <1>3, <1>20, <4>1
      <4>3. N[b[l]].next = Nth(s, l - 1)
        BY <1>3, <1>28, <4>1, <4>2
      <4>4. l - 1 # 0 => l - 1 \in 1 .. n - 1 /\ l - 1 < y
        BY <1>31, <3>1
      <4> QED BY <1>32, <4>3, <4>4 DEF Nth
    <3>2. CASE l = y
      <4>1. y # n /\ b[l] = s[y + 1]
        BY <1>3, <1>32, <3>2
      <4>2. N[b[l]].next = Nth(s, y - 1)
        BY <1>14, <1>28, <1>18, <1>21, <4>1
      <4>3. y - 1 # 0 => y - 1 \in 1 .. n - 1 /\ y - 1 < y
        BY <1>3
      <4> QED BY <1>32, <3>2, <4>2, <4>3 DEF Nth
    <3>3. CASE y < l
      <4>1. /\ b[l] = s[l + 1] /\ l + 1 \in 1 .. n /\ l + 1 # y /\ l + 1 # y + 1 /\ l + 1 - 1 = l /\ l # 0
            /\ l - 1 # 0 /\ l - 1 \in 1 .. n - 1 /\ ~(l - 1 < y) /\ l - 1 + 1 = l
        <5>1. ~(l < y)
          BY <1>3, <3>3
        <5>2. b[l] = s[l + 1] /\ l + 1 \in 1 .. n
          BY <1>31, <1>32, <5>1
        <5> QED BY <1>3, <3>3, <5>2
      <4>2. s[l + 1] # x /\ s[l + 1] # w /\ s[l + 1] \in 1 .. m
        BY <1>3, <1>20, <4>1
      <4>3. m_nodes[s[l + 1]].next = Nth(s, l)
        <5>1. PICK h \in 1 .. n : h = l + 1 /\ h - 1 = l
          BY <4>1
        <5>2. m_nodes[s[h]].next = Nth(s, h - 1)
          BY <1>3
        <5> QED BY <5>1, <5>2
      <4>4. N[b[l]].next = s[l]
        BY <1>28, <4>1, <4>2, <4>3 DEF Nth
      <4> QED BY <1>32, <4>1, <4>4 DEF Nth
    <3>4. l < y \/ l = y \/ y < l
      BY <1>3
    <3> QED BY <3>1, <3>2, <3>3, <3>4
  <2> QED BY <1>32, <2>1, <2>2, <2>3 DEF Stacked
<1>39. Stacked(m_freeNode', N, g)
  <2>1. m_freeNode' = Nth(g, p + 1)
    BY <1>4, <1>25, <1>33 DEF Nth
  <2>2. g \in Seq(DOMAIN N)
    <3>1. \A k \in 1 .. p + 1 : g[k] \in 1 .. m
      BY <1>4, <1>33, <1>34, <1>16
    <3> QED BY <1>28, <1>33, <3>1
  <2>3. ASSUME NEW k \in 1 .. p + 1 PROVE N[g[k]].next = Nth(g, k - 1)
    <3>1. CASE k = p + 1
      <4>1. N[g[k]].next = Nth(f, p) /\ k - 1 = p /\ (p # 0 => p \in 1 .. p)
        BY <1>4, <1>28, <1>33, <1>16, <3>1
      <4> QED BY <1>33, <4>1 DEF Nth
    <3>2. CASE k \in 1 .. p
      <4>1. f[k] # x /\ f[k] # w /\ f[k] \in 1 .. m
        BY <1>4, <1>23, <3>2
      <4>2. g[k] = f[k] /\ m_nodes[f[k]].next = Nth(f, k - 1)
        BY <1>4, <1>33, <3>2
      <4>3. N[g[k]].next = Nth(f, k - 1)
        BY <1>28, <4>1, <4>2
      <4>4. k - 1 # 0 => k - 1 \in 1 .. p
        BY <1>4, <3>2
      <4> QED BY <1>33, <4>3, <4>4 DEF Nth
    <3> QED BY <1>34, <3>1, <3>2
  <2> QED BY <1>33, <2>1, <2>2, <2>3 DEF Stacked
<1>40. \A j \in Lists : Stacked(HeadOf(m_heads', m_freeNode', j), N, c[j])
  <2>1. SUFFICES ASSUME NEW j \in Lists, j # i, j # 0 PROVE Stacked(HeadOf(m_heads', m_freeNode', j), N, c[j])
    <3>1. c[i] = b /\ HeadOf(m_heads', m_freeNode', i) = m_heads'[i]
      BY <1>2, <1>30 DEF HeadOf
    <3>2. c[0] = g /\ HeadOf(m_heads', m_freeNode', 0) = m_freeNode'
      BY <1>2, <1>30 DEF HeadOf
    <3> QED BY <1>38, <1>39, <3>1, <3>2
  <2>2. c[j] = ch[j] /\ j \in Indices
    BY <1>30, <2>1, ListsFact
  <2>3. HeadOf(m_heads', m_freeNode', j) = HeadOf(m_heads, m_freeNode, j)
    BY <1>2, <1>25, <2>1, <2>2 DEF HeadOf
  <2>4. ASSUME NEW k \in DOMAIN ch[j] PROVE N[ch[j][k]].next = m_nodes[ch[j][k]].next
    <3>1. ch[j][k] # x /\ ch[j][k] # w
      BY <1>22, <2>1
    <3>2. Reads(ch[j], Len(ch[j]), HeadOf(m_heads, m_freeNode, j), m_nodes)
      BY ListFact
    <3>3. ch[j][k] \in 1 .. m
      BY <1>2, <3>2 DEF Reads
    <3> QED BY <1>28, <3>1, <3>3
  <2>5. Stacked(HeadOf(m_heads, m_freeNode, j), N, ch[j])
    BY <1>2, <1>28, <2>4, OtherKept
  <2> QED BY <2>2, <2>3, <2>5
<1>41. Chains(c, m_heads', m_nodes', m_freeNode')
  <2>1. m_heads' \in [Indices -> Nat]
    <3>1. m_nodes[x].next \in Nat
      BY <1>2, <1>16
    <3> QED BY <1>2, <1>25, <3>1
  <2> QED BY <1>27, <1>28, <1>29, <1>35, <1>37, <1>40, <2>1 DEF Chains
<1>42. \A j \in Indices : \A k \in DOMAIN c[j] : \E l \in DOMAIN ch[j] :
         c[j][k] = ch[j][l] /\ ch[j][l] # x /\ N[c[j][k]].typeId = m_nodes[ch[j][l]].typeId
  <2>1. SUFFICES ASSUME NEW j \in Indices, NEW k \in DOMAIN c[j]
                 PROVE  \E l \in DOMAIN ch[j] : c[j][k] = ch[j][l] /\ ch[j][l] # x
                          /\ N[c[j][k]].typeId = m_nodes[ch[j][l]].typeId
    OBVIOUS
  <2>2. j \in Lists /\ j # 0
    BY ListsFact
  <2>3. PICK l \in DOMAIN ch[j] : c[j][k] = ch[j][l] /\ c[j][k] # x
    BY <1>36, <2>2
  <2>4. Reads(ch[j], Len(ch[j]), HeadOf(m_heads, m_freeNode, j), m_nodes)
    BY <2>2, ListFact
  <2>5. ch[j][l] \in 1 .. m
    BY <1>2, <2>4 DEF Reads
  <2> QED BY <1>28, <2>3, <2>5
<1>43. \A j \in Indices : \A l \in DOMAIN ch[j] : ch[j][l] # x =>
         \E k \in DOMAIN c[j] : N[c[j][k]].typeId = m_nodes[ch[j][l]].typeId
  <2>1. SUFFICES ASSUME NEW j \in Indices, NEW l \in DOMAIN ch[j], ch[j][l] # x
                 PROVE  \E k \in DOMAIN c[j] : N[c[j][k]].typeId = m_nodes[ch[j][l]].typeId
    OBVIOUS
  <2>2. j \in Lists /\ j # 0
    BY ListsFact
  <2>3. ch[j][l] \in 1 .. m
    <3>1. Reads(ch[j], Len(ch[j]), HeadOf(m_heads, m_freeNode, j), m_nodes)
      BY <2>2, ListFact
    <3> QED BY <1>2, <3>1 DEF Reads
  <2>4. \E k \in DOMAIN c[j] : c[j][k] = ch[j][l]
    <3>1. CASE j = i
      <4>1. c[j] = b /\ l \in 1 .. n /\ l # y
        BY <1>3, <1>14, <1>30, <2>1, <2>2, <3>1
      <4>2. CASE l < y
        <5>1. l \in 1 .. n - 1
          BY <1>3, <4>1, <4>2
        <5> QED BY <1>3, <1>32, <3>1, <4>1, <4>2, <5>1
      <4>3. CASE ~(l < y)
        <5>1. l - 1 \in 1 .. n - 1 /\ ~(l - 1 < y) /\ l - 1 + 1 = l
          BY <1>3, <4>1, <4>3
        <5>2. b[l - 1] = s[l - 1 + 1]
          BY <1>32, <5>1
        <5>3. b[l - 1] = s[l] /\ l - 1 \in DOMAIN b
          BY <1>32, <5>1, <5>2
        <5> QED BY <1>3, <3>1, <4>1, <5>3
      <4> QED BY <4>2, <4>3
    <3>2. CASE j # i
      BY <1>30, <2>1, <2>2, <3>2
    <3> QED BY <3>1, <3>2
  <2> QED BY <1>28, <2>3, <2>4
<1>44. TypesOnce(c, N)
  <2>1. SUFFICES ASSUME NEW j \in Indices, NEW k \in DOMAIN c[j], NEW h \in DOMAIN c[j],
                        N[c[j][k]].typeId = N[c[j][h]].typeId
                 PROVE  k = h
    BY DEF TypesOnce
  <2>2. PICK k2 \in DOMAIN ch[j] : c[j][k] = ch[j][k2] /\ N[c[j][k]].typeId = m_nodes[ch[j][k2]].typeId
    BY <1>42
  <2>3. PICK h2 \in DOMAIN ch[j] : c[j][h] = ch[j][h2] /\ N[c[j][h]].typeId = m_nodes[ch[j][h2]].typeId
    BY <1>42
  <2>4. k2 = h2
    BY <2>1, <2>2, <2>3 DEF TypesOnce
  <2>5. j \in Lists
    BY ListsFact
  <2> QED BY <1>37, <2>2, <2>3, <2>4, <2>5 DEF Apart
<1>45. ASSUME NEW j \in Indices, NEW u
       PROVE  TypeAt(c, N, j, u) <=> TypeAt(ch, m_nodes, j, u) /\ ~(j = i /\ u = t)
  <2>1. ASSUME TypeAt(c, N, j, u) PROVE TypeAt(ch, m_nodes, j, u) /\ ~(j = i /\ u = t)
    <3>1. PICK k \in DOMAIN c[j] : N[c[j][k]].typeId = u
      BY <2>1 DEF TypeAt
    <3>2. PICK l \in DOMAIN ch[j] : ch[j][l] # x /\ m_nodes[ch[j][l]].typeId = u
      BY <1>42, <3>1
    <3>3. ~(j = i /\ u = t)
      BY <1>3, <1>9, <1>14, <3>2
    <3> QED BY <3>2, <3>3 DEF TypeAt
  <2>2. ASSUME TypeAt(ch, m_nodes, j, u), ~(j = i /\ u = t) PROVE TypeAt(c, N, j, u)
    <3>1. PICK l \in DOMAIN ch[j] : m_nodes[ch[j][l]].typeId = u
      BY <2>2 DEF TypeAt
    <3>2. ch[j][l] # x
      <4>1. j \in Lists
        BY ListsFact
      <4>2. ch[j][l] = x => j = i /\ l = y
        BY <1>2, <1>3, <1>8, <1>14, <4>1 DEF Chains, Apart
      <4> QED BY <1>3, <1>8, <2>2, <3>1, <4>2
    <3> QED BY <1>43, <3>1, <3>2 DEF TypeAt
  <2> QED BY <2>1, <2>2
<1>46. TypesOnce(c, m_nodes')
  BY <1>27, <1>44
<1>47. \A j \in Indices : \A u :
         TypeAt(c, m_nodes', j, u) <=> TypeAt(ch, m_nodes, j, u) /\ ~(j = i /\ u = t)
  BY <1>27, <1>45
<1> QED BY <1>41, <1>46, <1>47

(* Destroying an entity drops it from the pool of each type its list has.  *)
LEMMA DestroyPools ==
  ASSUME NEW ch, Chains(ch, m_heads, m_nodes, m_freeNode), NEW id, id.index \in Indices,
         destroyEntityComponents(id)
  PROVE  pools' = [t \in Types |-> IF TypeAt(ch, m_nodes, id.index, t) THEN PoolRemove(pools[t], id) ELSE pools[t]]
<1>1. PICK i, s, n : i = id.index /\ s = ch[i] /\ n = Len(s) /\ i \in Lists
  BY ListsFact
<1>2. n \in Nat /\ DOMAIN s = 1 .. n
  <2>1. Reads(ch[i], Len(ch[i]), HeadOf(m_heads, m_freeNode, i), m_nodes)
    BY <1>1, ListFact
  <2> QED BY <1>1, <2>1 DEF Reads
<1>3. PICK chain : chain = Chain(m_heads[id.index])
  OBVIOUS
<1>4. DOMAIN chain = 1 .. n /\ \A k \in 1 .. n : chain[k] = s[n + 1 - k]
  <2>1. Down(Chain(m_heads[i]), ch[i], Len(ch[i]))
    BY <1>1, ChainDown
  <2>2. Down(chain, s, n)
    BY <1>1, <1>3, <2>1
  <2> QED BY <2>2 DEF Down
<1>5. ASSUME NEW t PROVE TypeAt(ch, m_nodes, i, t) <=> \E k \in DOMAIN chain : m_nodes[chain[k]].typeId = t
  <2>1. \A k \in 1 .. n : n + 1 - k \in 1 .. n /\ n + 1 - (n + 1 - k) = k
    BY <1>2
  <2>2. ASSUME NEW k \in 1 .. n, m_nodes[chain[k]].typeId = t PROVE TypeAt(ch, m_nodes, i, t)
    <3>1. n + 1 - k \in DOMAIN s /\ m_nodes[s[n + 1 - k]].typeId = t
      BY <1>2, <1>4, <2>1, <2>2
    <3> QED BY <1>1, <3>1 DEF TypeAt
  <2>3. ASSUME NEW k \in 1 .. n, m_nodes[s[k]].typeId = t
        PROVE  \E l \in DOMAIN chain : m_nodes[chain[l]].typeId = t
    <3>1. PICK l \in 1 .. n : n + 1 - l = k
      BY <2>1
    <3> QED BY <1>4, <2>3, <3>1
  <2> QED BY <1>1, <1>2, <1>4, <2>2, <2>3 DEF TypeAt
<1>6. pools' = [t \in Types |-> IF \E k \in DOMAIN chain : m_nodes[chain[k]].typeId = t
                                  THEN PoolRemove(pools[t], id) ELSE pools[t]]
  BY <1>3 DEF destroyEntityComponents
<1> QED BY <1>1, <1>5, <1>6

(* And it frees the whole list, its head first.                            *)
LEMMA DestroyLists ==
  ASSUME NEW ch, Chains(ch, m_heads, m_nodes, m_freeNode), TypesOnce(ch, m_nodes),
         NEW id, NEW i \in Indices, i = id.index, destroyEntityComponents(id)
  PROVE  \E c : /\ Chains(c, m_heads', m_nodes', m_freeNode') /\ TypesOnce(c, m_nodes')
                /\ \A j \in Indices : \A u :
                     TypeAt(c, m_nodes', j, u) <=> TypeAt(ch, m_nodes, j, u) /\ j # i
<1>1. PICK m, s, n, f, p : Scene(ch, i, m, s, n, f, p)
  BY SceneFact
<1>2. /\ m_nodes \in Seq(NodeType) /\ m \in Nat /\ m = Len(m_nodes) /\ DOMAIN m_nodes = 1 .. m
      /\ \A x \in 1 .. m : m_nodes[x].next \in 0 .. m
      /\ m_heads \in [Indices -> Nat] /\ ch \in [Lists -> Seq(Nat)]
      /\ i \in Lists /\ i # 0 /\ 0 \in Lists /\ Indices \subseteq Lists
  BY <1>1 DEF Scene
<1>3. /\ s = ch[i] /\ n \in Nat /\ DOMAIN s = 1 .. n /\ s \in Seq(Nat)
      /\ \A k \in 1 .. n : s[k] \in 1 .. m
      /\ \A k, l \in 1 .. n : s[k] = s[l] => k = l
  BY <1>1 DEF Scene
<1>4. /\ f = ch[0] /\ p \in Nat /\ DOMAIN f = 1 .. p /\ f \in Seq(Nat) /\ m_freeNode = Nth(f, p)
      /\ \A k \in 1 .. p : f[k] \in 1 .. m /\ m_nodes[f[k]].next = Nth(f, k - 1)
      /\ \A k, l \in 1 .. p : f[k] = f[l] => k = l
      /\ \A k \in 1 .. n, l \in 1 .. p : s[k] # f[l]
  BY <1>1 DEF Scene
<1>5. PICK chain : chain = Chain(m_heads[i]) /\ chain = Chain(m_heads[id.index])
  OBVIOUS
<1>6. chain \in Seq(Nat) /\ Len(chain) = n /\ DOMAIN chain = 1 .. n /\ \A k \in 1 .. n : chain[k] = s[n + 1 - k]
  <2>1. Down(chain, s, n)
    BY <1>1, <1>5 DEF Scene
  <2>2. chain = [k \in 1 .. n |-> s[n + 1 - k]] /\ DOMAIN chain = 1 .. n /\ \A k \in 1 .. n : chain[k] = s[n + 1 - k]
    BY <2>1 DEF Down
  <2>3. \A k \in 1 .. n : n + 1 - k \in 1 .. n
    BY <1>3
  <2>4. \A k \in 1 .. n : s[n + 1 - k] \in Nat
    BY <1>3, <2>3
  <2>5. chain \in [1 .. n -> Nat]
    BY <2>2, <2>4
  <2>6. chain \in Seq(Nat)
    BY <1>3, <2>5
  <2>7. Len(chain) = n
    BY <1>3, <2>2, <2>6
  <2> QED BY <2>2, <2>6, <2>7
<1>7. \A k \in 1 .. n : chain[k] \in 1 .. m /\ \E l \in 1 .. n : chain[k] = s[l]
  <2>1. SUFFICES ASSUME NEW k \in 1 .. n PROVE chain[k] \in 1 .. m /\ \E l \in 1 .. n : chain[k] = s[l]
    OBVIOUS
  <2>2. n + 1 - k \in 1 .. n
    BY <1>3
  <2>3. s[n + 1 - k] \in 1 .. m
    BY <1>3, <2>2
  <2> QED BY <1>6, <2>2, <2>3
<1>8. \A k, l \in 1 .. n : chain[k] = chain[l] => k = l
  <2>1. SUFFICES ASSUME NEW k \in 1 .. n, NEW l \in 1 .. n, chain[k] = chain[l] PROVE k = l
    OBVIOUS
  <2>2. n + 1 - k \in 1 .. n /\ n + 1 - l \in 1 .. n
    BY <1>3
  <2>3. s[n + 1 - k] = s[n + 1 - l]
    BY <1>6, <2>1
  <2>4. n + 1 - k = n + 1 - l
    BY <1>3, <2>2, <2>3
  <2> QED BY <1>3, <2>4
<1>9. PICK N : N = m_nodes'
  OBVIOUS
<1>10. N = [a \in DOMAIN m_nodes |->
              IF \E k \in DOMAIN chain : chain[k] = a
                THEN LET k == CHOOSE l \in DOMAIN chain : chain[l] = a IN
                     [m_nodes[a] EXCEPT !.next = IF k = 1 THEN m_freeNode ELSE chain[k - 1]]
                ELSE m_nodes[a]]
  BY <1>5, <1>9 DEF destroyEntityComponents
<1>11. PICK heads : heads = m_heads' /\ heads = [m_heads EXCEPT ![i] = 0]
  BY DEF destroyEntityComponents
<1>12. m_freeNode' = IF chain = <<>> THEN m_freeNode ELSE Last(chain)
  BY <1>5 DEF destroyEntityComponents
<1>13. m_freeNode \in 0 .. m
  <2>1. CASE p = 0
    BY <1>2, <1>4, <2>1 DEF Nth
  <2>2. CASE p # 0
    <3>1. p \in 1 .. p
      BY <1>4, <2>2
    <3>2. m_freeNode = f[p] /\ f[p] \in 1 .. m
      BY <1>4, <2>2, <3>1 DEF Nth
    <3> QED BY <1>2, <3>2
  <2> QED BY <2>1, <2>2
<1>14. ASSUME NEW k \in 1 .. n
       PROVE  /\ N[chain[k]] \in NodeType
              /\ N[chain[k]].next = (IF k = 1 THEN m_freeNode ELSE chain[k - 1]) /\ N[chain[k]].next \in 0 .. m
              /\ N[chain[k]].typeId = m_nodes[chain[k]].typeId
  <2>1. PICK a : a = chain[k] /\ a \in 1 .. m
    BY <1>7
  <2>2. (CHOOSE l \in DOMAIN chain : chain[l] = a) = k
    BY <1>6, <1>8, <2>1
  <2>3. PICK w : w = IF k = 1 THEN m_freeNode ELSE chain[k - 1]
    OBVIOUS
  <2>4. w \in 0 .. m
    <3>1. k # 1 => k - 1 \in 1 .. n
      BY <1>3
    <3>2. k # 1 => chain[k - 1] \in 1 .. m
      BY <1>7, <3>1
    <3> QED BY <1>2, <1>13, <2>3, <3>2
  <2>5. m_nodes[a] \in NodeType
    BY <1>2, <2>1
  <2>6. N[a] = [m_nodes[a] EXCEPT !.next = w]
    BY <1>2, <1>6, <1>10, <2>1, <2>2, <2>3
  <2>7. w \in Nat
    BY <2>4
  <2>8. N[a] \in NodeType /\ N[a].next = w /\ N[a].typeId = m_nodes[a].typeId
    BY <2>5, <2>6, <2>7 DEF NodeType
  <2> QED BY <2>1, <2>3, <2>4, <2>8
<1>15. \A a \in 1 .. m : (\A k \in 1 .. n : chain[k] # a) => N[a] = m_nodes[a]
  BY <1>2, <1>6, <1>10
<1>16. \A a \in 1 .. m : N[a] \in NodeType /\ N[a].next \in 0 .. m /\ N[a].typeId = m_nodes[a].typeId
  <2>1. SUFFICES ASSUME NEW a \in 1 .. m
                 PROVE  N[a] \in NodeType /\ N[a].next \in 0 .. m /\ N[a].typeId = m_nodes[a].typeId
    OBVIOUS
  <2>2. CASE \E k \in 1 .. n : chain[k] = a
    BY <1>14, <2>2
  <2>3. CASE \A k \in 1 .. n : chain[k] # a
    <3>1. m_nodes[a] \in NodeType
      BY <1>2
    <3> QED BY <1>2, <1>15, <2>3, <3>1
  <2> QED BY <2>2, <2>3
<1>17. N \in Seq(NodeType) /\ Len(N) = m /\ DOMAIN N = 1 .. m
  <2>1. DOMAIN N = 1 .. m /\ N \in [1 .. m -> NodeType]
    <3>1. DOMAIN N = 1 .. m /\ N = [a \in 1 .. m |-> N[a]]
      BY <1>2, <1>10
    <3> QED BY <1>16, <3>1
  <2>2. m \in Nat
    BY <1>2
  <2>3. N \in Seq(NodeType)
    BY <2>1, <2>2
  <2> QED BY <1>2, <2>1, <2>3
<1>18. PICK g, c : g = f \o chain /\ c = [j \in Lists |-> IF j = i THEN <<>> ELSE IF j = 0 THEN g ELSE ch[j]]
  OBVIOUS
<1>19. p + n \in Nat /\ \A k : k \in 1 .. p + n <=> k \in 1 .. p \/ \E l \in 1 .. n : k = p + l
  <2>1. \A k : k \in 1 .. p + n => k \in 1 .. p \/ (k - p \in 1 .. n /\ k = p + (k - p))
    BY <1>3, <1>4
  <2>2. \A l \in 1 .. n : p + l \in 1 .. p + n
    BY <1>3, <1>4
  <2>3. \A k \in 1 .. p : k \in 1 .. p + n
    BY <1>3, <1>4
  <2> QED BY <1>3, <1>4, <2>1, <2>2, <2>3
<1>20. /\ g \in Seq(Nat) /\ Len(g) = p + n /\ DOMAIN g = 1 .. p + n
       /\ \A k \in 1 .. p : g[k] = f[k]
       /\ \A l \in 1 .. n : g[p + l] = chain[l]
  <2>1. f \in Seq(Nat) /\ chain \in Seq(Nat) /\ Len(f) = p /\ Len(chain) = n
    BY <1>4, <1>6
  <2>2. g \in Seq(Nat) /\ Len(g) = p + n
    BY <1>18, <2>1, ConcatProperties
  <2>3. \A k \in 1 .. p + n : g[k] = IF k <= p THEN f[k] ELSE chain[k - p]
    BY <1>18, <2>1, ConcatProperties
  <2>4. DOMAIN g = 1 .. p + n
    BY <2>2
  <2>5. \A k \in 1 .. p : k \in 1 .. p + n /\ k <= p
    BY <1>3, <1>4
  <2>6. \A l \in 1 .. n : p + l \in 1 .. p + n /\ ~(p + l <= p) /\ p + l - p = l
    BY <1>3, <1>4
  <2>7. \A k \in 1 .. p : g[k] = f[k]
    BY <2>3, <2>5
  <2>8. ASSUME NEW l \in 1 .. n PROVE g[p + l] = chain[l]
    <3>1. PICK k : k = p + l
      OBVIOUS
    <3>2. k = p + l /\ k \in 1 .. p + n /\ ~(k <= p) /\ k - p = l
      BY <1>3, <1>4, <3>1
    <3>3. g[k] = chain[k - p]
      BY <2>3, <3>2
    <3> QED BY <3>2, <3>3
  <2> QED BY <2>2, <2>7, <2>8, <2>4
<1>21. c \in [Lists -> Seq(Nat)] /\ c[i] = <<>> /\ c[0] = g /\ \A j \in Lists : j # i /\ j # 0 => c[j] = ch[j]
  BY <1>2, <1>18, <1>20
<1>22. \A j \in Lists : j # i => \A k \in DOMAIN ch[j] : ch[j][k] \in 1 .. m /\ \A l \in 1 .. n : chain[l] # ch[j][k]
  <2>1. SUFFICES ASSUME NEW j \in Lists, j # i, NEW k \in DOMAIN ch[j]
                 PROVE  ch[j][k] \in 1 .. m /\ \A l \in 1 .. n : chain[l] # ch[j][k]
    OBVIOUS
  <2>2. \A l \in 1 .. n : ch[j][k] # s[l]
    BY <1>2, <1>3, <2>1 DEF Chains, Apart
  <2>3. Reads(ch[j], Len(ch[j]), HeadOf(m_heads, m_freeNode, j), m_nodes)
    BY ListFact
  <2>4. ch[j][k] \in 1 .. m
    BY <1>2, <2>3 DEF Reads
  <2> QED BY <1>7, <2>2, <2>4
(* Where each entry of c was.                                              *)
<1>23. \A j \in Lists : \A k \in DOMAIN c[j] :
         \/ j = 0 /\ \E l \in 1 .. n : k = p + l /\ c[j][k] = chain[l]
         \/ j # i /\ k \in DOMAIN ch[j] /\ c[j][k] = ch[j][k]
  <2>1. SUFFICES ASSUME NEW j \in Lists, NEW k \in DOMAIN c[j]
                 PROVE  \/ j = 0 /\ \E l \in 1 .. n : k = p + l /\ c[j][k] = chain[l]
                        \/ j # i /\ k \in DOMAIN ch[j] /\ c[j][k] = ch[j][k]
    OBVIOUS
  <2>2. CASE j = i
    BY <1>21, <2>2
  <2>3. CASE j = 0
    <3>1. k \in 1 .. p + n
      BY <1>20, <1>21, <2>3
    <3>2. CASE k \in 1 .. p
      BY <1>2, <1>4, <1>20, <1>21, <2>3, <3>2
    <3>3. CASE \E l \in 1 .. n : k = p + l
      BY <1>20, <1>21, <2>3, <3>3
    <3> QED BY <1>19, <3>1, <3>2, <3>3
  <2>4. CASE j # i /\ j # 0
    BY <1>21, <2>4
  <2> QED BY <2>2, <2>3, <2>4
<1>24. Apart(c)
  <2>1. SUFFICES ASSUME NEW j \in Lists, NEW l \in Lists, NEW k \in DOMAIN c[j], NEW h \in DOMAIN c[l],
                        c[j][k] = c[l][h]
                 PROVE  j = l /\ k = h
    BY DEF Apart
  <2>2. CASE j = 0 /\ \E e \in 1 .. n : k = p + e /\ c[j][k] = chain[e]
    <3>1. PICK e \in 1 .. n : k = p + e /\ c[j][k] = chain[e]
      BY <2>2
    <3>2. CASE l = 0 /\ \E d \in 1 .. n : h = p + d /\ c[l][h] = chain[d]
      <4>1. PICK d \in 1 .. n : h = p + d /\ c[l][h] = chain[d]
        BY <3>2
      <4>2. e = d
        BY <1>8, <2>1, <3>1, <4>1
      <4> QED BY <2>2, <3>1, <3>2, <4>1, <4>2
    <3>3. CASE l # i /\ h \in DOMAIN ch[l] /\ c[l][h] = ch[l][h]
      BY <1>22, <2>1, <3>1, <3>3
    <3> QED BY <1>23, <3>2, <3>3
  <2>3. CASE j # i /\ k \in DOMAIN ch[j] /\ c[j][k] = ch[j][k]
    <3>1. CASE l = 0 /\ \E d \in 1 .. n : h = p + d /\ c[l][h] = chain[d]
      BY <1>22, <2>1, <2>3, <3>1
    <3>2. CASE l # i /\ h \in DOMAIN ch[l] /\ c[l][h] = ch[l][h]
      <4>1. ch[j][k] = ch[l][h]
        BY <2>1, <2>3, <3>2
      <4> QED BY <2>3, <3>2, <4>1 DEF Chains, Apart
    <3> QED BY <1>23, <3>1, <3>2
  <2> QED BY <1>23, <2>2, <2>3
<1>25. Stacked(m_freeNode', N, g)
  <2>1. m_freeNode' = Nth(g, p + n)
    <3>1. CASE n = 0
      <4>1. chain = <<>> /\ p + n = p
        BY <1>4, <1>6, <3>1
      <4>2. p # 0 => p \in 1 .. p
        BY <1>4
      <4> QED BY <1>4, <1>12, <1>20, <4>1, <4>2 DEF Nth
    <3>2. CASE n # 0
      <4>1. n \in 1 .. n /\ p + n # 0 /\ chain # <<>>
        BY <1>3, <1>4, <1>6, <3>2
      <4>2. Last(chain) = chain[n]
        BY <1>6 DEF Last
      <4> QED BY <1>12, <1>20, <4>1, <4>2 DEF Nth
    <3> QED BY <3>1, <3>2
  <2>2. g \in Seq(DOMAIN N)
    <3>1. \A k \in 1 .. p : g[k] \in 1 .. m
      BY <1>4, <1>20
    <3>2. \A l \in 1 .. n : g[p + l] \in 1 .. m
      BY <1>7, <1>20
    <3>3. \A k \in 1 .. p + n : g[k] \in 1 .. m
      BY <1>19, <3>1, <3>2
    <3> QED BY <1>17, <1>20, <3>3
  <2>3. ASSUME NEW k \in 1 .. p + n PROVE N[g[k]].next = Nth(g, k - 1)
    <3>1. CASE k \in 1 .. p
      <4>1. f[k] \in 1 .. m /\ \A l \in 1 .. n : chain[l] # f[k]
        BY <1>2, <1>4, <1>22, <3>1
      <4>2. g[k] = f[k] /\ m_nodes[f[k]].next = Nth(f, k - 1)
        BY <1>4, <1>20, <3>1
      <4>3. N[g[k]].next = Nth(f, k - 1)
        BY <1>15, <4>1, <4>2
      <4>4. k - 1 # 0 => k - 1 \in 1 .. p
        BY <1>4, <3>1
      <4> QED BY <1>20, <4>3, <4>4 DEF Nth
    <3>2. CASE \E l \in 1 .. n : k = p + l
      <4>1. PICK l \in 1 .. n : k = p + l
        BY <3>2
      <4>2. N[g[k]].next = IF l = 1 THEN m_freeNode ELSE chain[l - 1]
        BY <1>14, <1>20, <4>1
      <4>3. CASE l = 1
        <5>1. k - 1 = p /\ (p # 0 => p \in 1 .. p)
          BY <1>4, <4>1, <4>3
        <5> QED BY <1>4, <1>20, <4>2, <4>3, <5>1 DEF Nth
      <4>4. CASE l # 1
        <5>1. PICK e \in 1 .. n : e = l - 1 /\ k - 1 = p + e /\ k - 1 # 0
          BY <1>3, <1>4, <4>1, <4>4
        <5>2. g[p + e] = chain[e]
          BY <1>20
        <5> QED BY <4>2, <4>4, <5>1, <5>2 DEF Nth
      <4> QED BY <4>3, <4>4
    <3> QED BY <1>19, <3>1, <3>2
  <2> QED BY <1>20, <2>1, <2>2, <2>3 DEF Stacked
<1>26. Stacked(heads[i], N, <<>>)
  <2>1. heads[i] = 0
    BY <1>2, <1>11
  <2> QED BY <2>1 DEF Stacked, Nth
<1>27. \A j \in Lists : Stacked(HeadOf(heads, m_freeNode', j), N, c[j])
  <2>1. SUFFICES ASSUME NEW j \in Lists, j # i, j # 0 PROVE Stacked(HeadOf(heads, m_freeNode', j), N, c[j])
    <3>1. HeadOf(heads, m_freeNode', i) = heads[i] /\ HeadOf(heads, m_freeNode', 0) = m_freeNode'
      BY <1>2 DEF HeadOf
    <3> QED BY <1>21, <1>25, <1>26, <3>1
  <2>2. c[j] = ch[j] /\ j \in Indices
    BY <1>21, <2>1, ListsFact
  <2>3. HeadOf(heads, m_freeNode', j) = HeadOf(m_heads, m_freeNode, j)
    BY <1>2, <1>11, <2>1, <2>2 DEF HeadOf
  <2>4. \A k \in DOMAIN ch[j] : N[ch[j][k]].next = m_nodes[ch[j][k]].next
    BY <1>15, <1>22, <2>1
  <2>5. Stacked(HeadOf(m_heads, m_freeNode, j), N, ch[j])
    BY <1>2, <1>17, <2>4, OtherKept
  <2> QED BY <2>2, <2>3, <2>5
<1>28. Chains(c, m_heads', m_nodes', m_freeNode')
  <2>1. heads \in [Indices -> Nat]
    BY <1>2, <1>11
  <2>2. \A x \in DOMAIN N : N[x].next \in 0 .. Len(N)
    BY <1>16, <1>17
  <2>3. Chains(c, heads, N, m_freeNode')
    BY <1>17, <1>21, <1>24, <1>27, <2>1, <2>2 DEF Chains
  <2> QED BY <1>9, <1>11, <2>3
<1>29. \A j \in Indices : j # i => c[j] = ch[j] /\ \A k \in DOMAIN ch[j] : N[ch[j][k]].typeId = m_nodes[ch[j][k]].typeId
  <2>1. SUFFICES ASSUME NEW j \in Indices, j # i
                 PROVE  c[j] = ch[j] /\ \A k \in DOMAIN ch[j] : N[ch[j][k]].typeId = m_nodes[ch[j][k]].typeId
    OBVIOUS
  <2>2. j \in Lists /\ j # 0
    BY ListsFact
  <2> QED BY <1>16, <1>21, <1>22, <2>1, <2>2
<1>30. TypesOnce(c, N)
  <2>1. \A j \in Indices : j = i => c[j] = <<>>
    BY <1>21
  <2>2. SUFFICES ASSUME NEW j \in Indices, NEW k \in DOMAIN c[j], NEW h \in DOMAIN c[j],
                        N[c[j][k]].typeId = N[c[j][h]].typeId
                 PROVE  k = h
    BY DEF TypesOnce
  <2>3. j # i
    BY <2>1
  <2>4. m_nodes[ch[j][k]].typeId = m_nodes[ch[j][h]].typeId /\ k \in DOMAIN ch[j] /\ h \in DOMAIN ch[j]
    BY <1>29, <2>2, <2>3
  <2> QED BY <2>4 DEF TypesOnce
<1>31. \A j \in Indices : \A u : TypeAt(c, N, j, u) <=> TypeAt(ch, m_nodes, j, u) /\ j # i
  <2>1. SUFFICES ASSUME NEW j \in Indices, NEW u PROVE TypeAt(c, N, j, u) <=> TypeAt(ch, m_nodes, j, u) /\ j # i
    OBVIOUS
  <2>2. CASE j = i
    BY <1>21, <2>2 DEF TypeAt
  <2>3. CASE j # i
    BY <1>29, <2>3 DEF TypeAt
  <2> QED BY <2>2, <2>3
<1>32. TypesOnce(c, m_nodes') /\ \A j \in Indices : \A u :
         TypeAt(c, m_nodes', j, u) <=> TypeAt(ch, m_nodes, j, u) /\ j # i
  BY <1>9, <1>30, <1>31
<1> QED BY <1>28, <1>32

-----------------------------------------------------------------------------
(* The inductive invariant.                                                *)

(* The entity manager: an index in use is not free, a free one is free     *)
(* once, and the generation of an index is that of no dead id callers hold.*)
EntitiesOK ==
  /\ m_generations \in Seq(0 .. GenerationCount - 1) /\ Len(m_generations) <= MaxEntities
  /\ m_freeIndices \in Seq(DOMAIN m_generations)
  /\ \A k, l \in DOMAIN m_freeIndices : m_freeIndices[k] = m_freeIndices[l] => k = l
  /\ IsFiniteSet(living) /\ m_aliveCount = Cardinality(living)
  /\ living \subseteq IDs
  /\ \A id \in living : alive(id) /\ \A k \in DOMAIN m_freeIndices : m_freeIndices[k] # id.index
  /\ stale \subseteq IDs
  /\ \A id \in stale : id.index \in DOMAIN m_generations /\ ~ alive(id)

PoolsOK == pools = [t \in Types |-> pools[t]] /\ \A t \in Types : PoolOK(pools[t], living)

(* The lists agree with the pools: an index lists the types of its entity. *)
Listed(ch) ==
  /\ Chains(ch, m_heads, m_nodes, m_freeNode) /\ TypesOnce(ch, m_nodes)
  /\ \A i \in Indices : \A t :
       TypeAt(ch, m_nodes, i, t) <=> t \in Types /\ \E id \in living : id.index = i /\ Has(pools[t], id)

Inv == EntitiesOK /\ PoolsOK /\ \E ch : Listed(ch)

-----------------------------------------------------------------------------
(* The ids of the living entities have different indices.                  *)
LEMMA LivingFact ==
  ASSUME EntitiesOK
  PROVE  /\ OneEach(living)
         /\ \A id \in living \cup stale : id \in IDs /\ (alive(id) <=> id \in living)
         /\ \A id \in living : id.index \in Indices /\ id.index \in DOMAIN m_generations
                               /\ m_generations[id.index] = id.generation
<1>1. living \subseteq IDs /\ stale \subseteq IDs /\ \A id \in living : alive(id)
  BY DEF EntitiesOK
<1>2. \A id \in living : id.index \in DOMAIN m_generations /\ m_generations[id.index] = id.generation
  BY <1>1 DEF alive
<1>3. \A id \in IDs : id.index \in Indices /\ id = EntityID(id.index, id.generation)
  BY IDFact
<1>4. \A a, b \in living : a.index = b.index => a = b
  <2>1. SUFFICES ASSUME NEW a \in living, NEW b \in living, a.index = b.index PROVE a = b
    OBVIOUS
  <2>2. a.generation = b.generation
    BY <1>2, <2>1
  <2>3. a = EntityID(a.index, a.generation) /\ b = EntityID(b.index, b.generation)
    BY <1>1, <1>3
  <2> QED BY <2>1, <2>2, <2>3
<1>5. \A id \in living \cup stale : id \in IDs /\ (alive(id) <=> id \in living)
  BY <1>1 DEF EntitiesOK
<1> QED BY <1>1, <1>2, <1>3, <1>4, <1>5 DEF OneEach

(* A larger set of entities keeps a pool in order.                         *)
LEMMA PoolMore ==
  ASSUME NEW p, NEW L, NEW M, PoolOK(p, L), L \subseteq M
  PROVE  PoolOK(p, M)
BY DEF PoolOK

(* Empty pools and lists are in order.                                     *)
LEMMA EmptyFact ==
  /\ \A L : PoolOK(EmptyPool, L)
  /\ \A id \in IDs : ~ Has(EmptyPool, id)
  /\ \E ch : /\ Chains(ch, [i \in Indices |-> 0], <<>>, 0) /\ TypesOnce(ch, <<>>)
             /\ \A i \in Indices : \A t : ~ TypeAt(ch, <<>>, i, t)
<1>1. EmptyPool.sparse = [i \in Indices |-> 0] /\ EmptyPool.dense = <<>> /\ EmptyPool.components = <<>>
  BY DEF EmptyPool
<1>2. \A L : PoolOK(EmptyPool, L)
  <2>1. [i \in Indices |-> 0] \in [Indices -> 0 .. MaxEntities]
    BY WorldAssumption
  <2>2. EmptyPool \in PoolType
    BY <2>1 DEF EmptyPool, PoolType
  <2> QED BY <1>1, <2>2 DEF PoolOK
<1>3. \A id \in IDs : ~ Has(EmptyPool, id)
  BY <1>1 DEF Has
<1>4. PICK ch : ch = [i \in Lists |-> <<>>]
  OBVIOUS
<1>5. \A i \in Lists : ch[i] = <<>>
  BY <1>4
<1>6. Chains(ch, [i \in Indices |-> 0], <<>>, 0)
  <2>1. ch \in [Lists -> Seq(Nat)]
    BY <1>4
  <2>2. \A i \in Lists : HeadOf([j \in Indices |-> 0], 0, i) = 0
    BY ListsFact DEF HeadOf
  <2>3. \A i \in Lists : Stacked(HeadOf([j \in Indices |-> 0], 0, i), <<>>, ch[i])
    <3>1. Stacked(0, <<>>, <<>>)
      BY DEF Stacked, Nth
    <3> QED BY <1>5, <2>2, <3>1
  <2>4. Apart(ch)
    BY <1>5 DEF Apart
  <2>5. <<>> \in Seq(NodeType) /\ [j \in Indices |-> 0] \in [Indices -> Nat]
    OBVIOUS
  <2> QED BY <2>1, <2>3, <2>4, <2>5 DEF Chains
<1>7. \A i \in Indices : ch[i] = <<>>
  BY <1>5, ListsFact
<1>8. TypesOnce(ch, <<>>) /\ \A i \in Indices : \A t : ~ TypeAt(ch, <<>>, i, t)
  BY <1>7 DEF TypesOnce, TypeAt
<1> QED BY <1>2, <1>3, <1>6, <1>8

(* The invariant holds of a world just made.                               *)
LEMMA InitInv == Init => Inv
<1> SUFFICES ASSUME Init PROVE Inv
  OBVIOUS
<1>1. /\ m_generations = <<>> /\ m_freeIndices = <<>> /\ m_aliveCount = 0
      /\ pools = [t \in Types |-> EmptyPool]
      /\ m_heads = [i \in Indices |-> 0] /\ m_nodes = <<>> /\ m_freeNode = 0
      /\ living = {} /\ stale = {}
  BY DEF Init
<1>2. EntitiesOK
  <2>1. IsFiniteSet(living) /\ Cardinality(living) = 0
    BY <1>1, FS_EmptySet
  <2>2. Len(m_generations) <= MaxEntities
    BY <1>1, WorldAssumption
  <2> QED BY <1>1, <2>1, <2>2 DEF EntitiesOK
<1>3. PoolsOK
  BY <1>1, EmptyFact DEF PoolsOK
<1>4. PICK ch : /\ Chains(ch, m_heads, m_nodes, m_freeNode) /\ TypesOnce(ch, m_nodes)
                /\ \A i \in Indices : \A t : ~ TypeAt(ch, m_nodes, i, t)
  BY <1>1, EmptyFact
<1>5. Listed(ch)
  BY <1>1, <1>4 DEF Listed
<1> QED BY <1>2, <1>3, <1>5 DEF Inv

(* World::clear makes the world anew.                                      *)
LEMMA ClearInv == Clear => Inv'
<1>1. Clear => Init'
  BY DEF Clear, Init
<1> QED BY <1>1, InitInv, PTL

-----------------------------------------------------------------------------
(* Entities come and go.                                                   *)
NewEntity(id) == id \in IDs /\ id \notin living \cup stale /\ living' = living \cup {id}

(* The id createEntity returns is of no living entity and of no dead one   *)
(* that callers hold.                                                      *)
LEMMA CreateFact ==
  ASSUME EntitiesOK, CreateEntity
  PROVE  EntitiesOK' /\ \E id : NewEntity(id)
<1>1. PICK n, p : n = Len(m_generations) /\ p = Len(m_freeIndices)
  OBVIOUS
<1>2. /\ m_generations \in Seq(0 .. GenerationCount - 1) /\ n \in Nat /\ n <= MaxEntities
      /\ DOMAIN m_generations = 1 .. n /\ \A k \in 1 .. n : m_generations[k] \in 0 .. GenerationCount - 1
  <2>1. m_generations \in Seq(0 .. GenerationCount - 1) /\ n <= MaxEntities
    BY <1>1 DEF EntitiesOK
  <2>2. n \in Nat /\ DOMAIN m_generations = 1 .. n
    BY <1>1, <2>1
  <2>3. \A k \in 1 .. n : m_generations[k] \in 0 .. GenerationCount - 1
    BY <1>1, <2>1, ElementOfSeq
  <2> QED BY <2>1, <2>2, <2>3
<1>3. /\ m_freeIndices \in Seq(1 .. n) /\ p \in Nat /\ DOMAIN m_freeIndices = 1 .. p
      /\ \A k \in 1 .. p : m_freeIndices[k] \in 1 .. n
      /\ \A k, l \in 1 .. p : m_freeIndices[k] = m_freeIndices[l] => k = l
  <2>1. m_freeIndices \in Seq(1 .. n)
    BY <1>2 DEF EntitiesOK
  <2>2. p \in Nat /\ DOMAIN m_freeIndices = 1 .. p
    BY <1>1, <2>1
  <2>3. \A k \in 1 .. p : m_freeIndices[k] \in 1 .. n
    BY <1>1, <2>1, ElementOfSeq
  <2>4. \A k, l \in 1 .. p : m_freeIndices[k] = m_freeIndices[l] => k = l
    BY <2>2 DEF EntitiesOK
  <2> QED BY <2>1, <2>2, <2>3, <2>4
<1>4. /\ living \subseteq IDs /\ stale \subseteq IDs /\ IsFiniteSet(living) /\ m_aliveCount = Cardinality(living)
      /\ \A id \in living : alive(id) /\ \A k \in 1 .. p : m_freeIndices[k] # id.index
      /\ \A id \in stale : id.index \in 1 .. n /\ ~ alive(id)
  BY <1>2, <1>3 DEF EntitiesOK
<1>5. \A id \in living \cup stale : id.index \in 1 .. n
  BY <1>2, <1>4 DEF alive
<1>6. m_aliveCount' = m_aliveCount + 1 /\ stale' = stale
  BY DEF CreateEntity
<1>7. ASSUME NEW id \in IDs, id \notin living, living' = living \cup {id}
      PROVE  IsFiniteSet(living') /\ m_aliveCount' = Cardinality(living') /\ living' \subseteq IDs
  <2>1. IsFiniteSet(living \cup {id}) /\ Cardinality(living \cup {id}) = Cardinality(living) + 1
    BY <1>4, <1>7, FS_AddElement
  <2> QED BY <1>4, <1>6, <1>7, <2>1
<1>8. CASE m_freeIndices # <<>>
  <2>1. PICK i, id : i = Last(m_freeIndices) /\ id = EntityID(i, m_generations[i])
    OBVIOUS
  <2>2. living' = living \cup {id} /\ m_freeIndices' = Front(m_freeIndices) /\ m_generations' = m_generations
    BY <1>8, <2>1 DEF CreateEntity
  <2>3. p \in 1 .. p /\ p - 1 \in Nat
    BY <1>1, <1>3, <1>8
  <2>4. i = m_freeIndices[p] /\ i \in 1 .. n
    BY <1>1, <1>3, <2>1, <2>3 DEF Last
  <2>5. id \in IDs /\ id.index = i /\ id.generation = m_generations[i]
    <3>1. i \in Indices
      BY <1>2, <2>4, WorldAssumption DEF Indices
    <3> QED BY <1>2, <2>1, <2>4, <3>1, IDFact
  <2>6. id \notin living \cup stale
    <3>1. alive(id)
      BY <1>2, <2>4, <2>5 DEF alive
    <3> QED BY <1>4, <2>3, <2>4, <2>5, <3>1
  <2>7. PICK f : f = Front(m_freeIndices)
    OBVIOUS
  <2>8. f \in Seq(1 .. n) /\ Len(f) = p - 1 /\ \A k \in 1 .. p - 1 : f[k] = m_freeIndices[k]
    <3>1. PICK T : T = 1 .. n
      OBVIOUS
    <3>2. m_freeIndices \in Seq(T) /\ Len(m_freeIndices) = p /\ p \in 1 .. p
      BY <1>1, <1>3, <2>3, <3>1
    <3>3. f \in Seq(T) /\ Len(f) = p - 1 /\ \A k \in 1 .. p - 1 : f[k] = m_freeIndices[k]
      BY <2>7, <3>2 DEF Front
    <3> QED BY <3>1, <3>3
  <2>9. DOMAIN f = 1 .. p - 1 /\ \A k \in 1 .. p - 1 : f[k] = m_freeIndices[k] /\ k \in 1 .. p /\ k # p
    <3>1. DOMAIN f = 1 .. p - 1
      BY <2>8
    <3>2. \A k \in 1 .. p - 1 : k \in 1 .. p /\ k # p
      BY <1>3
    <3> QED BY <2>8, <3>1, <3>2
  <2>10. \A k, l \in DOMAIN f : f[k] = f[l] => k = l
    BY <1>3, <2>9
  <2>11. \A x \in living' : alive(x)' /\ \A k \in DOMAIN f : f[k] # x.index
    <3>1. \A x \in living : alive(x)' /\ \A k \in DOMAIN f : f[k] # x.index
      BY <1>4, <2>2, <2>9 DEF alive
    <3>2. alive(id)'
      BY <1>2, <2>2, <2>4, <2>5 DEF alive
    <3>3. \A k \in DOMAIN f : f[k] # id.index
      BY <1>3, <2>3, <2>4, <2>5, <2>9
    <3> QED BY <2>2, <3>1, <3>2, <3>3
  <2>12. \A x \in stale' : x.index \in DOMAIN m_generations' /\ ~ alive(x)'
    BY <1>2, <1>4, <1>6, <2>2 DEF alive
  <2>13. IsFiniteSet(living') /\ m_aliveCount' = Cardinality(living') /\ living' \subseteq IDs
    BY <1>7, <2>2, <2>5, <2>6
  <2>14. EntitiesOK'
    BY <1>1, <1>2, <1>4, <1>6, <2>2, <2>7, <2>8, <2>10, <2>11, <2>12, <2>13 DEF EntitiesOK
  <2> QED BY <2>2, <2>5, <2>6, <2>14 DEF NewEntity
<1>9. CASE m_freeIndices = <<>>
  <2>1. PICK id : id = EntityID(n + 1, 0)
    OBVIOUS
  <2>2. /\ n < MaxEntities /\ living' = living \cup {id} /\ m_generations' = Append(m_generations, 0)
        /\ m_freeIndices' = m_freeIndices
    BY <1>1, <1>9, <2>1 DEF CreateEntity
  <2>3. 0 \in 0 .. GenerationCount - 1 /\ n + 1 \in Indices /\ n + 1 <= MaxEntities /\ n + 1 \notin 1 .. n
    BY <1>2, <2>2, WorldAssumption DEF Indices
  <2>4. id \in IDs /\ id.index = n + 1 /\ id.generation = 0
    BY <2>1, <2>3, IDFact
  <2>5. id \notin living \cup stale
    BY <1>5, <2>3, <2>4
  <2>6. PICK g : g = m_generations'
    OBVIOUS
  <2>7. /\ g \in Seq(0 .. GenerationCount - 1) /\ Len(g) = n + 1 /\ DOMAIN g = 1 .. n + 1 /\ g[n + 1] = 0
        /\ \A k \in 1 .. n : g[k] = m_generations[k]
    BY <1>1, <1>2, <2>2, <2>3, <2>6
  <2>8. \A k \in 1 .. n : k \in 1 .. n + 1
    BY <1>2
  <2>9. \A x : x.index \in 1 .. n => (alive(x)' <=> alive(x)) /\ x.index \in DOMAIN g
    BY <1>2, <2>6, <2>7, <2>8 DEF alive
  <2>10. n + 1 \in 1 .. n + 1
    BY <1>2
  <2>11. \A x \in living' : alive(x)' /\ \A k \in DOMAIN m_freeIndices' : m_freeIndices'[k] # x.index
    <3>1. DOMAIN m_freeIndices' = {}
      BY <1>9, <2>2
    <3>2. \A x \in living : alive(x)'
      BY <1>4, <1>5, <2>9
    <3>3. alive(id)'
      BY <2>4, <2>6, <2>7, <2>10 DEF alive
    <3> QED BY <2>2, <3>1, <3>2, <3>3
  <2>12. \A x \in stale' : x.index \in DOMAIN m_generations' /\ ~ alive(x)'
    BY <1>4, <1>6, <2>6, <2>9
  <2>13. IsFiniteSet(living') /\ m_aliveCount' = Cardinality(living') /\ living' \subseteq IDs
    BY <1>7, <2>2, <2>4, <2>5
  <2>14. /\ m_freeIndices' \in Seq(DOMAIN g)
         /\ \A k, l \in DOMAIN m_freeIndices' : m_freeIndices'[k] = m_freeIndices'[l] => k = l
    BY <1>9, <2>2
  <2>15. EntitiesOK'
    BY <1>4, <1>6, <2>3, <2>6, <2>7, <2>11, <2>12, <2>13, <2>14 DEF EntitiesOK
  <2> QED BY <2>2, <2>4, <2>5, <2>15 DEF NewEntity
<1> QED BY <1>8, <1>9

(* The generation after another is a different one.                        *)
LEMMA GenerationFact ==
  ASSUME NEW g \in 0 .. GenerationCount - 1
  PROVE  NextGeneration(g) \in 0 .. GenerationCount - 1 /\ NextGeneration(g) # g
<1>1. GenerationCount \in Nat /\ GenerationCount > 1
  BY WorldAssumption
<1>2. CASE g + 1 = GenerationCount
  <2>1. NextGeneration(g) = GenerationCount % GenerationCount
    BY <1>2 DEF NextGeneration
  <2>2. GenerationCount % GenerationCount = 0
    BY <1>1
  <2> QED BY <1>1, <1>2, <2>1, <2>2
<1>3. CASE g + 1 # GenerationCount
  <2>1. g + 1 \in Nat /\ g + 1 < GenerationCount
    BY <1>1, <1>3
  <2>2. (g + 1) % GenerationCount = g + 1
    BY <1>1, <2>1
  <2> QED BY <1>1, <2>1, <2>2 DEF NextGeneration
<1> QED BY <1>2, <1>3

(* A destroyed entity's index is free, and its next generation is that of  *)
(* no id of the index that callers hold.                                   *)
LEMMA DestroyFact ==
  ASSUME EntitiesOK, NEW id \in living \cup stale, DestroyEntity(id)
  PROVE  EntitiesOK' /\ id \in living /\ living' = living \ {id} /\ stale' = stale \cup {id}
<1>1. PICK i, n, p, old, next :
        /\ i = id.index /\ n = Len(m_generations) /\ p = Len(m_freeIndices)
        /\ old = m_generations[i] /\ next = NextGeneration(old)
  OBVIOUS
<1>2. m_generations \in Seq(0 .. GenerationCount - 1) /\ n \in Nat /\ n <= MaxEntities /\ DOMAIN m_generations = 1 .. n
  <2>1. m_generations \in Seq(0 .. GenerationCount - 1) /\ n <= MaxEntities
    BY <1>1 DEF EntitiesOK
  <2> QED BY <1>1, <2>1
<1>3. /\ m_freeIndices \in Seq(1 .. n) /\ p \in Nat /\ DOMAIN m_freeIndices = 1 .. p
      /\ \A k, l \in 1 .. p : m_freeIndices[k] = m_freeIndices[l] => k = l
  <2>1. m_freeIndices \in Seq(1 .. n)
    BY <1>2 DEF EntitiesOK
  <2>2. p \in Nat /\ DOMAIN m_freeIndices = 1 .. p
    BY <1>1, <2>1
  <2>3. \A k, l \in 1 .. p : m_freeIndices[k] = m_freeIndices[l] => k = l
    BY <2>2 DEF EntitiesOK
  <2> QED BY <2>1, <2>2, <2>3
<1>4. /\ living \subseteq IDs /\ stale \subseteq IDs /\ IsFiniteSet(living) /\ m_aliveCount = Cardinality(living)
      /\ \A x \in living : alive(x) /\ \A k \in 1 .. p : m_freeIndices[k] # x.index
      /\ \A x \in stale : x.index \in 1 .. n /\ ~ alive(x)
  BY <1>2, <1>3 DEF EntitiesOK
<1>5. /\ alive(id) /\ EntityID(i, next) \notin stale
      /\ m_generations' = [m_generations EXCEPT ![i] = next]
      /\ m_freeIndices' = Append(m_freeIndices, i) /\ m_aliveCount' = m_aliveCount - 1
      /\ living' = living \ {id} /\ stale' = stale \cup {id}
  BY <1>1 DEF DestroyEntity, Forgotten
<1>6. id \in living /\ id \in IDs
  BY <1>4, <1>5
<1>7. i \in 1 .. n /\ i \in Indices /\ id.generation = old /\ id = EntityID(i, old)
  BY <1>1, <1>2, <1>5, <1>6, IDFact DEF alive
<1>8. next \in 0 .. GenerationCount - 1 /\ next # old
  <2>1. old \in 0 .. GenerationCount - 1
    BY <1>6, <1>7, IDFact
  <2> QED BY <1>1, <2>1, GenerationFact
<1>9. PICK g, f : g = m_generations' /\ f = m_freeIndices'
  OBVIOUS
<1>10. /\ g \in Seq(0 .. GenerationCount - 1) /\ Len(g) = n /\ DOMAIN g = 1 .. n /\ g[i] = next
       /\ \A k \in 1 .. n : k # i => g[k] = m_generations[k]
  <2>1. PICK G : G = 0 .. GenerationCount - 1
    OBVIOUS
  <2>2. m_generations \in Seq(G) /\ next \in G /\ g = [m_generations EXCEPT ![i] = next]
    BY <1>2, <1>5, <1>8, <1>9, <2>1
  <2>3. /\ g \in Seq(G) /\ Len(g) = n /\ DOMAIN g = 1 .. n /\ g[i] = next
        /\ \A k \in 1 .. n : k # i => g[k] = m_generations[k]
    <3>1. i \in 1 .. Len(m_generations) /\ DOMAIN m_generations = 1 .. n /\ Len(m_generations) = n
      BY <1>1, <1>2, <1>7
    <3>2. g \in Seq(G) /\ Len(g) = Len(m_generations)
          /\ \A k \in 1 .. Len(m_generations) : g[k] = IF k = i THEN next ELSE m_generations[k]
      BY <2>2, <3>1, ExceptSeq
    <3>3. DOMAIN g = 1 .. Len(g)
      BY <3>2
    <3> QED BY <3>1, <3>2, <3>3
  <2> QED BY <2>1, <2>3
<1>11. /\ f \in Seq(1 .. n) /\ Len(f) = p + 1 /\ DOMAIN f = 1 .. p + 1 /\ f[p + 1] = i
       /\ \A k \in 1 .. p : f[k] = m_freeIndices[k]
  <2>1. PICK T : T = 1 .. n
    OBVIOUS
  <2>2. m_freeIndices \in Seq(T) /\ i \in T /\ f = Append(m_freeIndices, i) /\ Len(m_freeIndices) = p
    BY <1>1, <1>3, <1>5, <1>7, <1>9, <2>1
  <2>3. /\ f \in Seq(T) /\ Len(f) = p + 1 /\ DOMAIN f = 1 .. p + 1 /\ f[p + 1] = i
        /\ \A k \in 1 .. p : f[k] = m_freeIndices[k]
    BY <1>3, <2>2
  <2> QED BY <2>1, <2>3
<1>12. \A k : k \in 1 .. p + 1 <=> k \in 1 .. p \/ k = p + 1
  BY <1>3
<1>13. \A k \in 1 .. p : m_freeIndices[k] # i
  BY <1>1, <1>4, <1>6
<1>14. \A k, l \in DOMAIN f : f[k] = f[l] => k = l
  BY <1>3, <1>11, <1>12, <1>13
<1>15. \A x \in IDs : x.index # i => (alive(x)' <=> alive(x))
  BY <1>2, <1>9, <1>10 DEF alive
<1>16. \A x \in living' : alive(x)' /\ \A k \in DOMAIN f : f[k] # x.index
  <2>1. SUFFICES ASSUME NEW x \in living' PROVE alive(x)' /\ \A k \in DOMAIN f : f[k] # x.index
    OBVIOUS
  <2>2. x \in living /\ x # id /\ x \in IDs
    BY <1>4, <1>5
  <2>3. x.index # i
    <3>1. OneEach(living)
      BY LivingFact
    <3> QED BY <1>1, <1>6, <2>2, <3>1 DEF OneEach
  <2>4. alive(x)'
    BY <1>4, <1>15, <2>2, <2>3
  <2>5. \A k \in DOMAIN f : f[k] # x.index
    BY <1>4, <1>11, <1>12, <2>2, <2>3
  <2> QED BY <2>4, <2>5
<1>17. \A x \in stale' : x \in IDs /\ x.index \in DOMAIN g /\ ~ alive(x)'
  <2>1. SUFFICES ASSUME NEW x \in stale' PROVE x \in IDs /\ x.index \in DOMAIN g /\ ~ alive(x)'
    OBVIOUS
  <2>2. CASE x = id
    <3>1. g[x.index] # x.generation
      BY <1>1, <1>7, <1>8, <1>10, <2>2
    <3> QED BY <1>1, <1>6, <1>7, <1>9, <1>10, <2>2, <3>1 DEF alive
  <2>3. CASE x \in stale
    <3>1. x \in IDs /\ x.index \in DOMAIN g /\ ~ alive(x) /\ x = EntityID(x.index, x.generation)
      BY <1>4, <1>10, <2>3, IDFact
    <3>2. CASE x.index = i
      <4>1. x.generation # next
        BY <1>5, <2>3, <3>1, <3>2
      <4> QED BY <1>9, <1>10, <3>1, <3>2, <4>1 DEF alive
    <3>3. CASE x.index # i
      BY <1>15, <3>1, <3>3
    <3> QED BY <3>1, <3>2, <3>3
  <2> QED BY <1>5, <2>2, <2>3
<1>18. IsFiniteSet(living') /\ m_aliveCount' = Cardinality(living') /\ living' \subseteq IDs
  <2>1. IsFiniteSet(living \ {id}) /\ Cardinality(living \ {id}) = Cardinality(living) - 1
    BY <1>4, <1>6, FS_RemoveElement
  <2> QED BY <1>4, <1>5, <2>1
<1>19. f \in Seq(DOMAIN g)
  BY <1>10, <1>11
<1>20. EntitiesOK'
  BY <1>2, <1>9, <1>10, <1>14, <1>16, <1>17, <1>18, <1>19 DEF EntitiesOK
<1> QED BY <1>5, <1>6, <1>20

-----------------------------------------------------------------------------
(* The invariant is kept by each operation.                                *)
LEMMA CreateInv ==
  ASSUME Inv, CreateEntity
  PROVE  Inv'
<1>1. EntitiesOK /\ EntitiesOK'
  BY CreateFact DEF Inv
<1>2. PICK id : NewEntity(id)
  BY <1>1, CreateFact
<1>3. pools' = pools /\ m_heads' = m_heads /\ m_nodes' = m_nodes /\ m_freeNode' = m_freeNode
  BY DEF CreateEntity, lists
<1>4. PICK ch : Listed(ch)
  BY DEF Inv
<1>5. \A t \in Types : PoolOK(pools[t], living)
  BY DEF Inv, PoolsOK
<1>6. PoolsOK'
  <2>1. living \subseteq living'
    BY <1>2 DEF NewEntity
  <2>2. \A t \in Types : PoolOK(pools[t], living')
    BY <1>5, <2>1, PoolMore
  <2> QED BY <1>3, <2>2 DEF Inv, PoolsOK
<1>7. \A t \in Types : ~ Has(pools[t], id)
  BY <1>1, <1>2, <1>5, LivingFact, HasFact DEF NewEntity
<1>8. Listed(ch)'
  <2>1. \A i \in Indices : \A t :
          TypeAt(ch, m_nodes, i, t) <=> t \in Types /\ \E x \in living' : x.index = i /\ Has(pools[t], x)
    BY <1>2, <1>4, <1>7 DEF Listed, NewEntity
  <2> QED BY <1>3, <1>4, <2>1 DEF Listed
<1> QED BY <1>1, <1>6, <1>8 DEF Inv

(* Forgetting a dead id preserves the invariant.                           *)
LEMMA ForgetInv ==
  ASSUME Inv, NEW id, Forget(id)
  PROVE  Inv'
<1>1. /\ m_generations' = m_generations /\ m_freeIndices' = m_freeIndices /\ m_aliveCount' = m_aliveCount
      /\ pools' = pools /\ m_heads' = m_heads /\ m_nodes' = m_nodes /\ m_freeNode' = m_freeNode
      /\ living' = living /\ stale' = stale \ {id}
  BY DEF Forget, entityManager, lists
<1>2. EntitiesOK'
  BY <1>1 DEF Inv, EntitiesOK, alive
<1>3. PoolsOK'
  BY <1>1 DEF Inv, PoolsOK
<1>4. PICK ch : Listed(ch)
  BY DEF Inv
<1>5. Listed(ch)'
  BY <1>1, <1>4 DEF Listed
<1> QED BY <1>2, <1>3, <1>5 DEF Inv

(* The entity whose components a list names.                               *)
LEMMA ListedFact ==
  ASSUME EntitiesOK, NEW ch, Listed(ch), NEW id \in living
  PROVE  id.index \in Indices /\ \A t : TypeAt(ch, m_nodes, id.index, t) <=> t \in Types /\ Has(pools[t], id)
<1>1. OneEach(living) /\ id.index \in Indices
  BY LivingFact
<1>2. \A t : TypeAt(ch, m_nodes, id.index, t)
               <=> t \in Types /\ \E x \in living : x.index = id.index /\ Has(pools[t], x)
  BY <1>1 DEF Listed
<1>3. \A x \in living : x.index = id.index => x = id
  BY <1>1 DEF OneEach
<1> QED BY <1>1, <1>2, <1>3

(* destroyEntity preserves the invariant, and in every pool it leaves the  *)
(* other entities' components alone.                                       *)
LEMMA DestroyInv ==
  ASSUME Inv, NEW id \in living \cup stale, DestroyEntity(id)
  PROVE  Inv' /\ \A t \in Types : PoolOK(pools'[t], living') /\ Keeps(pools[t], pools'[t], id)
<1>1. EntitiesOK /\ EntitiesOK' /\ id \in living /\ living' = living \ {id}
  BY DestroyFact DEF Inv
<1>2. OneEach(living) /\ id \in IDs /\ living \subseteq IDs
  BY <1>1, LivingFact DEF EntitiesOK
<1>3. PICK ch : Listed(ch)
  BY DEF Inv
<1>4. PICK i : i = id.index /\ i \in Indices /\ \A t : TypeAt(ch, m_nodes, i, t) <=> t \in Types /\ Has(pools[t], id)
  BY <1>1, <1>3, ListedFact
<1>5. Chains(ch, m_heads, m_nodes, m_freeNode) /\ TypesOnce(ch, m_nodes) /\ destroyEntityComponents(id)
  BY <1>3 DEF Listed, DestroyEntity
<1>6. pools' = [t \in Types |-> IF TypeAt(ch, m_nodes, i, t) THEN PoolRemove(pools[t], id) ELSE pools[t]]
  BY <1>4, <1>5, DestroyPools
<1>7. \A t \in Types : pools'[t] = PoolRemove(pools[t], id)
  <2>1. SUFFICES ASSUME NEW t \in Types PROVE pools'[t] = PoolRemove(pools[t], id)
    OBVIOUS
  <2>2. CASE Has(pools[t], id)
    BY <1>4, <1>6, <2>2
  <2>3. CASE ~ Has(pools[t], id)
    <3>1. PoolRemove(pools[t], id) = pools[t]
      BY <2>3 DEF PoolRemove
    <3> QED BY <1>4, <1>6, <2>3, <3>1
  <2> QED BY <2>2, <2>3
<1>8. \A t \in Types : PoolOK(pools'[t], living') /\ Keeps(pools[t], pools'[t], id) /\ ~ Has(pools'[t], id)
  <2>1. SUFFICES ASSUME NEW t \in Types
                 PROVE  PoolOK(pools'[t], living') /\ Keeps(pools[t], pools'[t], id) /\ ~ Has(pools'[t], id)
    OBVIOUS
  <2>2. PoolOK(pools[t], living)
    BY DEF Inv, PoolsOK
  <2>3. PICK q : q = PoolRemove(pools[t], id)
    OBVIOUS
  <2>4. PoolOK(q, living \ {id}) /\ Keeps(pools[t], q, id) /\ ~ Has(q, id)
    BY <1>1, <1>2, <2>2, <2>3, PoolRemoveFact
  <2> QED BY <1>1, <1>7, <2>3, <2>4
<1>9. PoolsOK'
  <2>1. pools' = [t \in Types |-> pools'[t]]
    BY <1>6
  <2> QED BY <1>8, <2>1 DEF PoolsOK
<1>10. PICK c : /\ Chains(c, m_heads', m_nodes', m_freeNode') /\ TypesOnce(c, m_nodes')
                /\ \A j \in Indices : \A u :
                     TypeAt(c, m_nodes', j, u) <=> TypeAt(ch, m_nodes, j, u) /\ j # i
  BY <1>4, <1>5, DestroyLists
<1>11. \A j \in Indices : \A u :
          TypeAt(c, m_nodes', j, u) <=> u \in Types /\ \E x \in living' : x.index = j /\ Has(pools'[u], x)
  <2>1. SUFFICES ASSUME NEW j \in Indices, NEW u
                 PROVE  TypeAt(c, m_nodes', j, u)
                          <=> u \in Types /\ \E x \in living' : x.index = j /\ Has(pools'[u], x)
    OBVIOUS
  <2>2. TypeAt(ch, m_nodes, j, u) <=> u \in Types /\ \E x \in living : x.index = j /\ Has(pools[u], x)
    BY <1>3 DEF Listed
  <2>3. ASSUME u \in Types, NEW x \in living, x # id PROVE x.index # i /\ (Has(pools'[u], x) <=> Has(pools[u], x))
    <3>1. x.index # i
      BY <1>1, <1>2, <1>4, <2>3 DEF OneEach
    <3> QED BY <1>2, <1>8, <2>3, <3>1 DEF Keeps
  <2>4. \A x : x \in living' <=> x \in living /\ x # id
    BY <1>1
  <2> QED BY <1>4, <1>10, <2>2, <2>3, <2>4
<1>12. Listed(c)'
  BY <1>10, <1>11 DEF Listed
<1>13. Inv'
  BY <1>1, <1>9, <1>12 DEF Inv
<1> QED BY <1>8, <1>13

(* addComponent preserves the invariant, and gives the living entity the   *)
(* component in the one pool.                                              *)
LEMMA AddInv ==
  ASSUME Inv, NEW id \in living \cup stale, NEW t \in Types, NEW v \in Values, AddComponent(id, t, v)
  PROVE  /\ Inv' /\ id \in living /\ ~ Has(pools[t], id) /\ living' = living /\ stale' = stale
         /\ Keeps(pools[t], pools'[t], id) /\ Has(pools'[t], id) /\ tryGet(pools'[t], id) = v
         /\ \A u \in Types : u # t => pools'[u] = pools[u]
<1>1. EntitiesOK /\ alive(id) /\ ~ Has(pools[t], id)
  BY DEF Inv, AddComponent
<1>2. OneEach(living) /\ id \in IDs /\ id \in living
  BY <1>1, LivingFact
<1>3. PICK ch : Listed(ch)
  BY DEF Inv
<1>4. PICK i : i = id.index /\ i \in Indices /\ \A u : TypeAt(ch, m_nodes, i, u) <=> u \in Types /\ Has(pools[u], id)
  BY <1>1, <1>2, <1>3, ListedFact
<1>5. /\ Chains(ch, m_heads, m_nodes, m_freeNode) /\ TypesOnce(ch, m_nodes)
      /\ addEntityComponentType(i, t) /\ ~ TypeAt(ch, m_nodes, i, t)
  BY <1>1, <1>3, <1>4 DEF Listed, AddComponent
<1>6. /\ m_generations' = m_generations /\ m_freeIndices' = m_freeIndices /\ m_aliveCount' = m_aliveCount
      /\ living' = living /\ stale' = stale
  BY DEF AddComponent, entityManager
<1>7. EntitiesOK'
  BY <1>1, <1>6 DEF EntitiesOK, alive
<1>8. PICK q : q = PoolAdd(pools[t], id, v)
  OBVIOUS
<1>9. DOMAIN pools = Types /\ PoolOK(pools[t], living)
  BY DEF Inv, PoolsOK
<1>10. PoolOK(q, living) /\ Keeps(pools[t], q, id) /\ Has(q, id) /\ tryGet(q, id) = v
  BY <1>1, <1>2, <1>8, <1>9, PoolAddFact
<1>11. pools' = [pools EXCEPT ![t] = q]
  BY <1>8 DEF AddComponent
<1>12. DOMAIN pools' = Types /\ pools'[t] = q /\ \A u \in Types : u # t => pools'[u] = pools[u]
  BY <1>9, <1>11
<1>13. PoolsOK'
  <2>1. pools' = [u \in Types |-> pools'[u]]
    BY <1>11, <1>12 DEF Inv, PoolsOK
  <2>2. \A u \in Types : PoolOK(pools'[u], living')
    BY <1>6, <1>10, <1>12 DEF Inv, PoolsOK
  <2> QED BY <2>1, <2>2 DEF PoolsOK
<1>14. PICK c : /\ Chains(c, m_heads', m_nodes', m_freeNode') /\ TypesOnce(c, m_nodes')
                /\ \A j \in Indices : \A u :
                     TypeAt(c, m_nodes', j, u) <=> TypeAt(ch, m_nodes, j, u) \/ (j = i /\ u = t)
  BY <1>4, <1>5, AddTypeFact
<1>15. \A j \in Indices : \A u :
          TypeAt(c, m_nodes', j, u) <=> u \in Types /\ \E x \in living' : x.index = j /\ Has(pools'[u], x)
  <2>1. SUFFICES ASSUME NEW j \in Indices, NEW u
                 PROVE  TypeAt(c, m_nodes', j, u)
                          <=> u \in Types /\ \E x \in living' : x.index = j /\ Has(pools'[u], x)
    OBVIOUS
  <2>2. TypeAt(ch, m_nodes, j, u) <=> u \in Types /\ \E x \in living : x.index = j /\ Has(pools[u], x)
    BY <1>3 DEF Listed
  <2>3. CASE u # t
    BY <1>6, <1>12, <1>14, <2>2, <2>3
  <2>4. CASE u = t
    <3>1. \A x \in living : x # id => (Has(q, x) <=> Has(pools[t], x))
      BY <1>1, <1>10 DEF Keeps, EntitiesOK
    <3>2. \A x \in living : x.index = i <=> x = id
      BY <1>2, <1>4 DEF OneEach
    <3>3. CASE j = i
      BY <1>2, <1>4, <1>6, <1>10, <1>12, <1>14, <2>4, <3>3
    <3>4. CASE j # i
      <4>1. \A x \in living : x.index = j => (Has(q, x) <=> Has(pools[t], x))
        BY <3>1, <3>2, <3>4
      <4> QED BY <1>6, <1>12, <1>14, <2>2, <2>4, <3>4, <4>1
    <3> QED BY <3>3, <3>4
  <2> QED BY <2>3, <2>4
<1>16. Listed(c)'
  BY <1>14, <1>15 DEF Listed
<1>17. Inv'
  BY <1>7, <1>13, <1>16 DEF Inv
<1> QED BY <1>1, <1>2, <1>6, <1>10, <1>12, <1>17

(* removeComponent preserves the invariant, and takes the component from   *)
(* the one pool.                                                           *)
LEMMA RemoveInv ==
  ASSUME Inv, NEW id \in living \cup stale, NEW t \in Types, RemoveComponent(id, t)
  PROVE  /\ Inv' /\ id \in living /\ living' = living /\ stale' = stale
         /\ Keeps(pools[t], pools'[t], id) /\ ~ Has(pools'[t], id)
         /\ \A u \in Types : u # t => pools'[u] = pools[u]
<1>1. EntitiesOK /\ alive(id) /\ Has(pools[t], id)
  BY DEF Inv, RemoveComponent
<1>2. OneEach(living) /\ id \in IDs /\ id \in living
  BY <1>1, LivingFact
<1>3. PICK ch : Listed(ch)
  BY DEF Inv
<1>4. PICK i : i = id.index /\ i \in Indices /\ \A u : TypeAt(ch, m_nodes, i, u) <=> u \in Types /\ Has(pools[u], id)
  BY <1>1, <1>2, <1>3, ListedFact
<1>5. /\ Chains(ch, m_heads, m_nodes, m_freeNode) /\ TypesOnce(ch, m_nodes)
      /\ removeEntityComponentType(i, t) /\ TypeAt(ch, m_nodes, i, t)
  BY <1>1, <1>3, <1>4 DEF Listed, RemoveComponent
<1>6. /\ m_generations' = m_generations /\ m_freeIndices' = m_freeIndices /\ m_aliveCount' = m_aliveCount
      /\ living' = living /\ stale' = stale
  BY DEF RemoveComponent, entityManager
<1>7. EntitiesOK'
  BY <1>1, <1>6 DEF EntitiesOK, alive
<1>8. PICK q : q = PoolRemove(pools[t], id)
  OBVIOUS
<1>9. DOMAIN pools = Types /\ PoolOK(pools[t], living)
  BY DEF Inv, PoolsOK
<1>10. PoolOK(q, living) /\ Keeps(pools[t], q, id) /\ ~ Has(q, id)
  <2>1. PoolOK(q, living \ {id}) /\ Keeps(pools[t], q, id) /\ ~ Has(q, id)
    BY <1>2, <1>8, <1>9, PoolRemoveFact
  <2> QED BY <2>1, PoolMore
<1>11. pools' = [pools EXCEPT ![t] = q]
  BY <1>8 DEF RemoveComponent
<1>12. DOMAIN pools' = Types /\ pools'[t] = q /\ \A u \in Types : u # t => pools'[u] = pools[u]
  BY <1>9, <1>11
<1>13. PoolsOK'
  <2>1. pools' = [u \in Types |-> pools'[u]]
    BY <1>11, <1>12 DEF Inv, PoolsOK
  <2>2. \A u \in Types : PoolOK(pools'[u], living')
    BY <1>6, <1>10, <1>12 DEF Inv, PoolsOK
  <2> QED BY <2>1, <2>2 DEF PoolsOK
<1>14. PICK c : /\ Chains(c, m_heads', m_nodes', m_freeNode') /\ TypesOnce(c, m_nodes')
                /\ \A j \in Indices : \A u :
                     TypeAt(c, m_nodes', j, u) <=> TypeAt(ch, m_nodes, j, u) /\ ~(j = i /\ u = t)
  BY <1>4, <1>5, RemoveTypeFact
<1>15. \A j \in Indices : \A u :
          TypeAt(c, m_nodes', j, u) <=> u \in Types /\ \E x \in living' : x.index = j /\ Has(pools'[u], x)
  <2>1. SUFFICES ASSUME NEW j \in Indices, NEW u
                 PROVE  TypeAt(c, m_nodes', j, u)
                          <=> u \in Types /\ \E x \in living' : x.index = j /\ Has(pools'[u], x)
    OBVIOUS
  <2>2. TypeAt(ch, m_nodes, j, u) <=> u \in Types /\ \E x \in living : x.index = j /\ Has(pools[u], x)
    BY <1>3 DEF Listed
  <2>3. CASE u # t
    BY <1>6, <1>12, <1>14, <2>2, <2>3
  <2>4. CASE u = t
    <3>1. \A x \in living : x # id => (Has(q, x) <=> Has(pools[t], x))
      BY <1>1, <1>10 DEF Keeps, EntitiesOK
    <3>2. \A x \in living : x.index = i <=> x = id
      BY <1>2, <1>4 DEF OneEach
    <3>3. CASE j = i
      BY <1>6, <1>10, <1>12, <1>14, <2>4, <3>2, <3>3
    <3>4. CASE j # i
      <4>1. \A x \in living : x.index = j => (Has(q, x) <=> Has(pools[t], x))
        BY <3>1, <3>2, <3>4
      <4> QED BY <1>6, <1>12, <1>14, <2>2, <2>4, <3>4, <4>1
    <3> QED BY <3>3, <3>4
  <2> QED BY <2>3, <2>4
<1>16. Listed(c)'
  BY <1>14, <1>15 DEF Listed
<1>17. Inv'
  BY <1>7, <1>13, <1>16 DEF Inv
<1> QED BY <1>2, <1>6, <1>10, <1>12, <1>17

(* The invariant is inductive.                                             *)
LEMMA StepInv == Inv /\ [Next]_vars => Inv'
<1> SUFFICES ASSUME Inv, [Next]_vars PROVE Inv'
  OBVIOUS
<1>1. CASE CreateEntity
  BY <1>1, CreateInv
<1>2. CASE \E id \in living \cup stale : DestroyEntity(id)
  BY <1>2, DestroyInv
<1>3. CASE \E id \in living \cup stale, t \in Types : RemoveComponent(id, t)
  BY <1>3, RemoveInv
<1>4. CASE \E id \in living \cup stale, t \in Types, v \in Values : AddComponent(id, t, v)
  BY <1>4, AddInv
<1>5. CASE \E id \in stale : Forget(id)
  BY <1>5, ForgetInv
<1>6. CASE Clear
  BY <1>6, ClearInv
<1>7. CASE UNCHANGED vars
  BY <1>7 DEF Inv, EntitiesOK, PoolsOK, Listed, alive, vars, entityManager, lists
<1> QED BY <1>1, <1>2, <1>3, <1>4, <1>5, <1>6, <1>7 DEF Next

(* The inductive invariant holds in every reachable state.                 *)
LEMMA InvHolds == Spec => []Inv
BY InitInv, StepInv, PTL DEF Spec

-----------------------------------------------------------------------------
(* The theorems.                                                           *)

(* The vectors of EntityManager, the pools and the component lists keep    *)
(* their types and sizes: no pool outgrows the index space, and no link    *)
(* leaves the node vector.                                                 *)
THEOREM TypeCorrect == Spec => []WorldTypeOK
<1>1. Inv => WorldTypeOK
  <2> SUFFICES ASSUME Inv PROVE WorldTypeOK
    OBVIOUS
  <2>1. PICK ch : Listed(ch)
    BY DEF Inv
  <2>2. /\ m_generations \in Seq(0 .. GenerationCount - 1) /\ m_freeIndices \in Seq(DOMAIN m_generations)
        /\ Len(m_generations) <= MaxEntities /\ living \subseteq IDs /\ stale \subseteq IDs
    BY DEF Inv, EntitiesOK
  <2>3. \A i \in DOMAIN m_generations : m_generations[i] \in 0 .. GenerationCount - 1
    <3>1. DOMAIN m_generations = 1 .. Len(m_generations)
      BY <2>2
    <3> QED BY <2>2, <3>1, ElementOfSeq
  <2>4. \A k \in DOMAIN m_freeIndices : m_freeIndices[k] \in DOMAIN m_generations
    BY <2>2, ElementOfSeq
  <2>5. DOMAIN pools = Types
    BY DEF Inv, PoolsOK
  <2>6. ASSUME NEW t \in Types
        PROVE  /\ pools[t].sparse \in [Indices -> 0 .. MaxEntities]
               /\ Len(pools[t].dense) = Len(pools[t].components) /\ Len(pools[t].dense) <= MaxEntities
               /\ \A k \in DOMAIN pools[t].dense : pools[t].dense[k] \in IDs
               /\ \A k \in DOMAIN pools[t].components : pools[t].components[k] \in Values
    <3>1. PoolOK(pools[t], living)
      BY DEF Inv, PoolsOK
    <3>2. /\ pools[t].sparse \in [Indices -> 0 .. MaxEntities] /\ pools[t].dense \in Seq(IDs)
          /\ pools[t].components \in Seq(Values)
      BY <3>1 DEF PoolOK, PoolType
    <3>3. \A k, l \in DOMAIN pools[t].dense : pools[t].dense[k].index = pools[t].dense[l].index => k = l
      BY <3>1 DEF PoolOK
    <3>4. Len(pools[t].dense) <= MaxEntities
      BY <3>2, <3>3, PoolFits
    <3>5. Len(pools[t].components) = Len(pools[t].dense)
      BY <3>1 DEF PoolOK
    <3> QED BY <3>2, <3>4, <3>5
  <2>7. PICK m : m = Len(m_nodes) /\ m \in Nat /\ DOMAIN m_nodes = 1 .. m
    BY <2>1 DEF Listed, Chains
  <2>8. ASSUME NEW i \in Lists PROVE HeadOf(m_heads, m_freeNode, i) \in 0 .. m
    <3>1. PICK s, n : s = ch[i] /\ n = Len(s) /\ Reads(s, n, HeadOf(m_heads, m_freeNode, i), m_nodes)
      BY <2>1, ListFact DEF Listed
    <3>2. n \in Nat /\ HeadOf(m_heads, m_freeNode, i) = Nth(s, n) /\ \A k \in 1 .. n : s[k] \in 1 .. m
      BY <2>7, <3>1 DEF Reads
    <3>3. CASE n = 0
      BY <2>7, <3>2, <3>3 DEF Nth
    <3>4. CASE n # 0
      <4>1. n \in 1 .. n
        BY <3>2, <3>4
      <4>2. s[n] \in 1 .. m
        BY <3>2, <4>1
      <4> QED BY <2>7, <3>2, <3>4, <4>2 DEF Nth
    <3> QED BY <3>3, <3>4
  <2>9. m_heads \in [Indices -> 0 .. Len(m_nodes)]
    <3>1. m_heads = [i \in Indices |-> m_heads[i]]
      BY <2>1 DEF Listed, Chains
    <3>2. \A i \in Indices : HeadOf(m_heads, m_freeNode, i) = m_heads[i] /\ i \in Lists
      BY ListsFact DEF HeadOf
    <3>3. \A i \in Indices : m_heads[i] \in 0 .. m
      BY <2>8, <3>2
    <3> QED BY <2>7, <3>1, <3>3
  <2>10. m_freeNode \in 0 .. Len(m_nodes)
    <3>1. HeadOf(m_heads, m_freeNode, 0) = m_freeNode /\ 0 \in Lists
      BY ListsFact DEF HeadOf
    <3> QED BY <2>7, <2>8, <3>1
  <2>11. \A n \in DOMAIN m_nodes : m_nodes[n] \in [typeId : Types, next : 0 .. Len(m_nodes)]
    <3>1. SUFFICES ASSUME NEW n \in DOMAIN m_nodes PROVE m_nodes[n] \in [typeId : Types, next : 0 .. Len(m_nodes)]
      OBVIOUS
    <3>2. m_nodes \in Seq(NodeType) /\ m_nodes[n].next \in 0 .. Len(m_nodes)
      BY <2>1 DEF Listed, Chains
    <3>3. m_nodes[n] \in NodeType
      BY <3>2, ElementOfSeq
    <3> QED BY <3>2, <3>3 DEF NodeType
  <2> QED BY <2>2, <2>3, <2>4, <2>5, <2>6, <2>9, <2>10, <2>11 DEF WorldTypeOK
<1> QED BY <1>1, InvHolds, PTL

-----------------------------------------------------------------------------
(* Views.                                                                  *)

Matches(ts, anchor, x) == \A t \in ts \ {anchor} : Has(pools[t], x)

(* v[k] is what a view has visited after k entries d of its anchor.        *)
Visits(v, d, n, ts, anchor) ==
  /\ View(ts, anchor) = v[n] /\ v[0] = <<>>
  /\ \A k \in 1 .. n : v[k] = IF Matches(ts, anchor, d[k]) THEN Append(v[k - 1], d[k]) ELSE v[k - 1]

(* The recursive function in View exists and is defined step by step.      *)
LEMMA Visit ==
  ASSUME NEW ts, NEW anchor, NEW d, d = pools[anchor].dense, NEW n \in Nat, n = Len(d)
  PROVE  \E v : Visits(v, d, n, ts, anchor)
<1> DEFINE On(s, k) == IF \A t \in ts \ {anchor} : Has(pools[t], d[k]) THEN Append(s, d[k]) ELSE s
           Def(f, m) == f = [k \in 0 .. m |-> IF k = 0 THEN <<>> ELSE On(f[k - 1], k)]
           Bad == {m \in Nat : ~ \E f : Def(f, m)}
<1>1. Bad = {}
  <2>1. SUFFICES ASSUME Bad # {} PROVE FALSE
    OBVIOUS
  <2>2. PICK m \in Bad : \A k \in Bad : m <= k
    BY <2>1, Smallest
  <2>3. m # 0
    <3> HIDE DEF On
    <3>1. Def([k \in 0 .. 0 |-> <<>>], 0)
      OBVIOUS
    <3> QED BY <3>1, <2>2
  <2>4. PICK f : Def(f, m - 1)
    <3>1. m \in Nat /\ m - 1 \in Nat /\ ~(m <= m - 1)
      BY <2>2, <2>3
    <3> HIDE DEF Def
    <3> QED BY <2>2, <3>1
  <2> DEFINE g == [k \in 0 .. m |-> IF k < m THEN f[k] ELSE On(f[m - 1], m)]
  <2>5. Def(g, m)
    <3>1. m \in Nat /\ m - 1 \in Nat
      BY <2>2, <2>3
    <3>2. \A k \in 0 .. m - 1 : g[k] = f[k] /\ k \in 0 .. m
      BY <3>1
    <3>3. \A k \in 0 .. m - 1 : f[k] = IF k = 0 THEN <<>> ELSE On(f[k - 1], k)
      <4> HIDE DEF On
      <4> QED BY <2>4
    <3>4. \A k \in 0 .. m : g[k] = IF k = 0 THEN <<>> ELSE On(g[k - 1], k)
      <4> TAKE k \in 0 .. m
      <4>1. CASE k = m
        <5>1. g[m] = On(f[m - 1], m)
          BY <3>1
        <5>2. g[m - 1] = f[m - 1]
          BY <3>1, <3>2
        <5> HIDE DEF On, g
        <5> QED BY <2>3, <4>1, <5>1, <5>2
      <4>2. CASE k # m
        <5>1. k \in 0 .. m - 1 /\ (k # 0 => k - 1 \in 0 .. m - 1)
          BY <3>1, <4>2
        <5> HIDE DEF g, On
        <5> QED BY <3>2, <3>3, <5>1
      <4> QED BY <4>1, <4>2
    <3>5. g = [k \in 0 .. m |-> g[k]]
      OBVIOUS
    <3> HIDE DEF g, On
    <3> QED BY <3>4, <3>5
  <2> QED BY <2>2, <2>5
<1>2. PICK f : f = (CHOOSE G : Def(G, n))
  OBVIOUS
<1>3. Def(f, n)
  <2>1. \E G : Def(G, n)
    <3>1. n \notin Bad
      BY <1>1
    <3> QED BY <3>1
  <2> HIDE DEF Def
  <2> QED BY <1>2, <2>1
<1>4. View(ts, anchor) = f[n]
  BY <1>2 DEF View
<1>5. f[0] = <<>> /\ \A k \in 1 .. n : f[k] = On(f[k - 1], k)
  <2> HIDE DEF On
  <2> QED BY <1>3
<1> QED BY <1>4, <1>5 DEF Visits, Matches

(* What a view has visited after k entries of its anchor: those among them *)
(* that match, once each.                                                  *)
VisitedSoFar(s, d, k, ts, anchor) ==
  /\ s \in Seq(IDs)
  /\ \A j \in 1 .. Len(s) : \E l \in 1 .. k : s[j] = d[l] /\ Matches(ts, anchor, d[l])
  /\ \A l \in 1 .. k : Matches(ts, anchor, d[l]) => \E j \in 1 .. Len(s) : s[j] = d[l]
  /\ \A i, j \in 1 .. Len(s) : s[i] = s[j] => i = j

(* One more entry of the anchor is visited if it matches, and was not      *)
(* visited before.                                                         *)
LEMMA VisitStep ==
  ASSUME NEW ts, NEW anchor, NEW d, NEW n \in Nat, \A l \in 1 .. n : d[l] \in IDs,
         \A j, l \in 1 .. n : d[j] = d[l] => j = l,
         NEW k \in 1 .. n, NEW r, VisitedSoFar(r, d, k - 1, ts, anchor),
         NEW s, s = IF Matches(ts, anchor, d[k]) THEN Append(r, d[k]) ELSE r
  PROVE  VisitedSoFar(s, d, k, ts, anchor)
<1>1. PICK m : m = Len(r)
  OBVIOUS
<1>2. /\ r \in Seq(IDs) /\ m \in Nat /\ DOMAIN r = 1 .. m
      /\ \A j \in 1 .. m : \E l \in 1 .. k - 1 : r[j] = d[l] /\ Matches(ts, anchor, d[l])
      /\ \A l \in 1 .. k - 1 : Matches(ts, anchor, d[l]) => \E j \in 1 .. m : r[j] = d[l]
      /\ \A i, j \in 1 .. m : r[i] = r[j] => i = j
  BY <1>1 DEF VisitedSoFar
<1>3. /\ \A l : l \in 1 .. k <=> l \in 1 .. k - 1 \/ l = k
      /\ \A l \in 1 .. k - 1 : l # k /\ l \in 1 .. n
  OBVIOUS
<1>4. CASE ~ Matches(ts, anchor, d[k])
  BY <1>1, <1>2, <1>3, <1>4 DEF VisitedSoFar
<1>5. CASE Matches(ts, anchor, d[k])
  <2>1. /\ s \in Seq(IDs) /\ Len(s) = m + 1 /\ s[m + 1] = d[k]
        /\ \A j \in 1 .. m : s[j] = r[j]
    BY <1>1, <1>2, <1>5
  <2>2. \A j : j \in 1 .. m + 1 <=> j \in 1 .. m \/ j = m + 1
    <3>1. m \in Nat
      BY <1>2
    <3> QED BY <3>1
  <2>3. ASSUME NEW j \in 1 .. m PROVE r[j] # d[k]
    <3>1. PICK l \in 1 .. k - 1 : r[j] = d[l]
      BY <1>2
    <3>2. l \in 1 .. n /\ k \in 1 .. n /\ l # k
      BY <1>3
    <3> QED BY <3>1, <3>2
  <2>4. ASSUME NEW j \in 1 .. m + 1 PROVE \E l \in 1 .. k : s[j] = d[l] /\ Matches(ts, anchor, d[l])
    <3>1. CASE j \in 1 .. m
      <4>1. PICK l \in 1 .. k - 1 : r[j] = d[l] /\ Matches(ts, anchor, d[l])
        BY <1>2, <3>1
      <4>2. l \in 1 .. k /\ s[j] = d[l]
        BY <1>3, <2>1, <3>1, <4>1
      <4> QED BY <4>1, <4>2
    <3>2. CASE j = m + 1
      <4>1. k \in 1 .. k
        OBVIOUS
      <4> QED BY <1>5, <2>1, <3>2, <4>1
    <3> QED BY <2>2, <3>1, <3>2
  <2>5. \A l \in 1 .. k : Matches(ts, anchor, d[l]) => \E j \in 1 .. m + 1 : s[j] = d[l]
    BY <1>2, <1>3, <2>1, <2>2
  <2>6. ASSUME NEW i \in 1 .. m + 1, NEW j \in 1 .. m + 1, s[i] = s[j] PROVE i = j
    <3>1. CASE i \in 1 .. m /\ j \in 1 .. m
      <4>1. r[i] = r[j]
        BY <2>1, <2>6, <3>1
      <4> QED BY <1>2, <3>1, <4>1
    <3>2. CASE i = m + 1 /\ j = m + 1
      BY <3>2
    <3>3. CASE i \in 1 .. m /\ j = m + 1
      BY <2>1, <2>3, <2>6, <3>3
    <3>4. CASE i = m + 1 /\ j \in 1 .. m
      BY <2>1, <2>3, <2>6, <3>4
    <3> QED BY <2>2, <3>1, <3>2, <3>3, <3>4
  <2> QED BY <2>1, <2>4, <2>5, <2>6 DEF VisitedSoFar
<1> QED BY <1>4, <1>5

(* A view visits the living entities that have every type of the view,     *)
(* once each.                                                              *)
LEMMA ViewFact ==
  ASSUME EntitiesOK, PoolsOK, NEW ts \in SUBSET Types, NEW anchor \in ts
  PROVE  LET matching == {id \in living : \A t \in ts : Has(pools[t], id)}
             visited == View(ts, anchor)
         IN  ToSet(visited) = matching /\ Len(visited) = Cardinality(matching)
<1>1. OneEach(living) /\ living \subseteq IDs /\ IsFiniteSet(living)
  BY LivingFact DEF EntitiesOK
<1>2. anchor \in Types /\ PoolOK(pools[anchor], living)
  BY DEF PoolsOK
<1>3. PICK d, n : d = pools[anchor].dense /\ n = Len(d)
  OBVIOUS
<1>4. /\ d \in Seq(IDs) /\ n \in Nat /\ DOMAIN d = 1 .. n /\ \A l \in 1 .. n : d[l] \in IDs /\ d[l] \in living
      /\ \A j, l \in 1 .. n : d[j] = d[l] => j = l
  <2>1. d \in Seq(IDs)
    BY <1>2, <1>3 DEF PoolOK, PoolType
  <2>2. n \in Nat /\ DOMAIN d = 1 .. n
    BY <1>3, <2>1
  <2> QED BY <1>1, <1>2, <1>3, <2>1, <2>2 DEF PoolOK
<1>5. PICK v : Visits(v, d, n, ts, anchor)
  BY <1>3, <1>4, Visit
<1> DEFINE Bad == {k \in 0 .. n : ~ VisitedSoFar(v[k], d, k, ts, anchor)}
<1>6. Bad = {}
  <2>1. SUFFICES ASSUME Bad # {} PROVE FALSE
    OBVIOUS
  <2>2. Bad \subseteq Nat
    BY <1>4
  <2>3. PICK k \in Bad : \A j \in Bad : k <= j
    BY <2>1, <2>2, Smallest
  <2>4. k # 0
    <3>1. v[0] = <<>>
      BY <1>5 DEF Visits
    <3>2. VisitedSoFar(<<>>, d, 0, ts, anchor)
      BY DEF VisitedSoFar
    <3> QED BY <2>3, <3>1, <3>2
  <2>5. k \in 1 .. n /\ k - 1 \in 0 .. n /\ ~(k <= k - 1)
    BY <1>4, <2>3, <2>4
  <2>6. VisitedSoFar(v[k - 1], d, k - 1, ts, anchor)
    BY <2>3, <2>5
  <2>7. v[k] = IF Matches(ts, anchor, d[k]) THEN Append(v[k - 1], d[k]) ELSE v[k - 1]
    BY <1>5, <2>5 DEF Visits
  <2>8. VisitedSoFar(v[k], d, k, ts, anchor)
    BY <1>4, <2>5, <2>6, <2>7, VisitStep
  <2> QED BY <2>3, <2>8
<1>7. PICK s, m : s = View(ts, anchor) /\ m = Len(s) /\ VisitedSoFar(s, d, n, ts, anchor)
  <2>1. n \in 0 .. n
    BY <1>4
  <2>2. VisitedSoFar(v[n], d, n, ts, anchor)
    BY <1>6, <2>1
  <2> QED BY <1>5, <2>2 DEF Visits
<1> HIDE DEF Bad
<1>8. /\ s \in Seq(IDs) /\ m \in Nat /\ DOMAIN s = 1 .. m
      /\ \A j \in 1 .. m : \E l \in 1 .. n : s[j] = d[l] /\ Matches(ts, anchor, d[l])
      /\ \A l \in 1 .. n : Matches(ts, anchor, d[l]) => \E j \in 1 .. m : s[j] = d[l]
      /\ \A i, j \in 1 .. m : s[i] = s[j] => i = j
  BY <1>7 DEF VisitedSoFar
<1>9. PICK matching : matching = {id \in living : \A t \in ts : Has(pools[t], id)}
  OBVIOUS
<1>10. \A x \in living : x \in matching <=> \E l \in 1 .. n : x = d[l] /\ Matches(ts, anchor, d[l])
  <2>1. SUFFICES ASSUME NEW x \in living
                 PROVE  x \in matching <=> \E l \in 1 .. n : x = d[l] /\ Matches(ts, anchor, d[l])
    OBVIOUS
  <2>2. Has(pools[anchor], x) <=> \E l \in 1 .. n : d[l] = x
    BY <1>1, <1>2, <1>3, <1>4, HasFact
  <2> QED BY <1>9, <2>2 DEF Matches
<1>11. \A x : x \in matching <=> \E j \in 1 .. m : s[j] = x
  BY <1>4, <1>8, <1>9, <1>10
<1>12. ToSet(s) = matching
  <2>1. ToSet(s) = {s[j] : j \in 1 .. m}
    BY <1>8 DEF ToSet
  <2>2. \A x : x \in ToSet(s) <=> \E j \in 1 .. m : s[j] = x
    BY <2>1
  <2> QED BY <1>11, <2>2
<1>13. m = Cardinality(matching)
  <2>1. s \in [1 .. m -> matching]
    <3>1. s = [j \in 1 .. m |-> s[j]]
      BY <1>8
    <3> QED BY <1>11, <3>1
  <2>2. s \in Bijection(1 .. m, matching)
    BY <1>8, <1>11, <2>1 DEF Bijection, Injection, Surjection, IsInjective
  <2>3. IsFiniteSet(1 .. m) /\ Cardinality(1 .. m) = m
    BY <1>8, FS_Interval
  <2> QED BY <2>2, <2>3, FS_Bijection DEF ExistsBijection
<1> QED BY <1>7, <1>9, <1>12, <1>13

(* What callers read is what lives: alive(), entityCount(), hasComponent() *)
(* through a dead id, and what every view visits.                          *)
THEOREM QueriesCorrect == Spec => []QueriesExact
<1>1. Inv => QueriesExact
  <2> SUFFICES ASSUME Inv PROVE QueriesExact
    OBVIOUS
  <2>1. EntitiesOK /\ PoolsOK
    BY DEF Inv
  <2>2. m_aliveCount = Cardinality(living) /\ \A id \in living : alive(id)
    BY <2>1 DEF EntitiesOK
  <2>3. ASSUME NEW id \in stale PROVE ~ alive(id) /\ \A t \in Types : ~ Has(pools[t], id)
    <3>1. ~ alive(id) /\ id \in IDs /\ id \notin living /\ OneEach(living)
      BY <2>1, LivingFact DEF EntitiesOK
    <3>2. \A t \in Types : PoolOK(pools[t], living)
      BY <2>1 DEF PoolsOK
    <3> QED BY <3>1, <3>2, HasFact
  <2>4. ASSUME NEW ts \in SUBSET Types \ {{}}, NEW anchor \in Anchors(ts)
        PROVE  LET matching == {id \in living : \A t \in ts : Has(pools[t], id)}
                   visited == View(ts, anchor)
               IN  ToSet(visited) = matching /\ Len(visited) = Cardinality(matching)
    <3>1. anchor \in ts /\ ts \in SUBSET Types
      BY <2>4 DEF Anchors
    <3> QED BY <2>1, <3>1, ViewFact
  <2> QED BY <2>2, <2>3, <2>4 DEF QueriesExact
<1> QED BY <1>1, InvHolds, PTL

-----------------------------------------------------------------------------
(* World implements EntityStore.                                           *)

(* The components an entity has in the pools ps.                           *)
CompOf(ps, id) == [t \in {u \in Types : Has(ps[u], id)} |-> tryGet(ps[t], id)]

(* The refinement mapping: the contents of the pools by entity.            *)
LEMMA ContentsFact ==
  /\ contents = [id \in living |-> CompOf(pools, id)]
  /\ Store!living = living
BY DEF contents, CompOf, Store!living

(* An entity that every pool keeps has the components it had.              *)
LEMMA SameComp ==
  ASSUME NEW p, NEW q, NEW x,
         \A t \in Types : (Has(q[t], x) <=> Has(p[t], x)) /\ (Has(p[t], x) => tryGet(q[t], x) = tryGet(p[t], x))
  PROVE  CompOf(q, x) = CompOf(p, x)
<1>1. PICK S : S = {u \in Types : Has(p[u], x)} /\ S = {u \in Types : Has(q[u], x)}
  OBVIOUS
<1>2. \A t \in S : tryGet(q[t], x) = tryGet(p[t], x)
  BY <1>1
<1>3. CompOf(q, x) = [t \in S |-> tryGet(q[t], x)] /\ CompOf(p, x) = [t \in S |-> tryGet(p[t], x)]
  BY <1>1 DEF CompOf
<1> QED BY <1>2, <1>3

(* Each operation of World does what EntityStore promises.                 *)
LEMMA CreateStore ==
  ASSUME Inv, CreateEntity
  PROVE  \E e \in IDs : Store!Create(e)
<1>1. EntitiesOK /\ pools' = pools /\ stale' = stale
  BY DEF Inv, CreateEntity
<1>2. PICK id : NewEntity(id)
  BY <1>1, CreateFact
<1>3. id \in IDs /\ id \notin living \cup stale /\ living' = living \cup {id}
  BY <1>2 DEF NewEntity
<1>4. \A t \in Types : ~ Has(pools[t], id)
  <2>1. \A t \in Types : PoolOK(pools[t], living)
    BY DEF Inv, PoolsOK
  <2> QED BY <1>1, <1>3, <2>1, LivingFact, HasFact
<1>5. CompOf(pools, id) = Store!Nothing
  <2>1. {u \in Types : Has(pools[u], id)} = {}
    BY <1>4
  <2>2. CompOf(pools, id) = [t \in {} |-> tryGet(pools[t], id)]
    BY <2>1 DEF CompOf
  <2> QED BY <2>2 DEF Store!Nothing
<1>6. contents' = [x \in living' |-> CompOf(pools', x)]
  BY DEF contents, CompOf
<1>7. contents' = [x \in living \cup {id} |-> IF x = id THEN Store!Nothing ELSE contents[x]]
  <2>1. \A x \in living : contents[x] = CompOf(pools, x)
    BY ContentsFact
  <2>2. \A x \in living \cup {id} : CompOf(pools, x) = IF x = id THEN Store!Nothing ELSE contents[x]
    BY <1>5, <2>1
  <2>3. contents' = [x \in living \cup {id} |-> CompOf(pools, x)]
    BY <1>1, <1>3, <1>6
  <2> QED BY <2>2, <2>3
<1> QED BY <1>1, <1>3, <1>7, ContentsFact DEF Store!Create

(* destroyEntity takes the entity away with all its components.            *)
LEMMA DestroyStore ==
  ASSUME Inv, NEW id \in living \cup stale, DestroyEntity(id)
  PROVE  id \in IDs /\ Store!Destroy(id)
<1>1. id \in living /\ living' = living \ {id} /\ stale' = stale \cup {id} /\ living \subseteq IDs
  BY DestroyFact DEF Inv, EntitiesOK
<1>2. \A t \in Types : Keeps(pools[t], pools'[t], id)
  BY DestroyInv
<1>3. contents' = [x \in living' |-> CompOf(pools', x)]
  BY DEF contents, CompOf
<1>4. \A x \in living' : CompOf(pools', x) = contents[x]
  <2>1. SUFFICES ASSUME NEW x \in living' PROVE CompOf(pools', x) = contents[x]
    OBVIOUS
  <2>2. x \in living /\ x \in IDs /\ x # id
    BY <1>1
  <2>3. \A t \in Types : (Has(pools'[t], x) <=> Has(pools[t], x))
                         /\ (Has(pools[t], x) => tryGet(pools'[t], x) = tryGet(pools[t], x))
    BY <1>2, <2>2 DEF Keeps
  <2>4. CompOf(pools', x) = CompOf(pools, x)
    BY <2>3, SameComp
  <2> QED BY <2>2, <2>4, ContentsFact
<1>5. DOMAIN contents \cap (IDs \ {id}) = living'
  BY <1>1, ContentsFact
<1>6. contents' = Store!Only(contents, IDs \ {id})
  BY <1>3, <1>4, <1>5 DEF Store!Only
<1> QED BY <1>1, <1>6, ContentsFact DEF Store!Destroy

(* addComponent gives the entity one component more.                       *)
LEMMA AddStore ==
  ASSUME Inv, NEW id \in living \cup stale, NEW t \in Types, NEW v \in Values, AddComponent(id, t, v)
  PROVE  id \in IDs /\ Store!AddComponent(id, t, v)
<1>1. /\ id \in living /\ ~ Has(pools[t], id) /\ living' = living /\ stale' = stale /\ living \subseteq IDs
      /\ Keeps(pools[t], pools'[t], id) /\ Has(pools'[t], id) /\ tryGet(pools'[t], id) = v
      /\ \A u \in Types : u # t => pools'[u] = pools[u]
  BY AddInv DEF Inv, EntitiesOK
<1>2. contents' = [x \in living |-> CompOf(pools', x)]
  BY <1>1 DEF contents, CompOf
<1>3. contents = [x \in living |-> CompOf(pools, x)]
  BY ContentsFact
<1>4. PICK c : c = CompOf(pools, id)
  OBVIOUS
<1>5. c = [u \in {w \in Types : Has(pools[w], id)} |-> tryGet(pools[u], id)]
  BY <1>4 DEF CompOf
<1>6. CompOf(pools', id) = [u \in DOMAIN c \cup {t} |-> IF u \in DOMAIN c THEN c[u] ELSE v]
  <2>1. PICK D : D = {u \in Types : Has(pools'[u], id)}
    OBVIOUS
  <2>2. D = DOMAIN c \cup {t} /\ t \notin DOMAIN c /\ DOMAIN c \subseteq Types
    BY <1>1, <1>5, <2>1
  <2>3. \A u \in D : tryGet(pools'[u], id) = IF u \in DOMAIN c THEN c[u] ELSE v
    <3>1. SUFFICES ASSUME NEW u \in D PROVE tryGet(pools'[u], id) = IF u \in DOMAIN c THEN c[u] ELSE v
      OBVIOUS
    <3>2. CASE u = t
      BY <1>1, <2>2, <3>2
    <3>3. CASE u # t
      <4>1. u \in DOMAIN c /\ pools'[u] = pools[u]
        BY <1>1, <2>1, <2>2, <3>3
      <4>2. c[u] = tryGet(pools[u], id)
        BY <1>5, <4>1
      <4> QED BY <4>1, <4>2
    <3> QED BY <3>2, <3>3
  <2>4. CompOf(pools', id) = [u \in D |-> tryGet(pools'[u], id)]
    BY <2>1 DEF CompOf
  <2>5. CompOf(pools', id) = [u \in D |-> IF u \in DOMAIN c THEN c[u] ELSE v]
    BY <2>3, <2>4
  <2> QED BY <2>2, <2>5
<1>7. \A x \in living : x # id => CompOf(pools', x) = CompOf(pools, x)
  <2>1. SUFFICES ASSUME NEW x \in living, x # id PROVE CompOf(pools', x) = CompOf(pools, x)
    OBVIOUS
  <2>2. \A u \in Types : (Has(pools'[u], x) <=> Has(pools[u], x))
                         /\ (Has(pools[u], x) => tryGet(pools'[u], x) = tryGet(pools[u], x))
    <3>1. SUFFICES ASSUME NEW u \in Types
                   PROVE  (Has(pools'[u], x) <=> Has(pools[u], x))
                          /\ (Has(pools[u], x) => tryGet(pools'[u], x) = tryGet(pools[u], x))
      OBVIOUS
    <3>2. CASE u = t
      BY <1>1, <2>1, <3>2 DEF Keeps
    <3>3. CASE u # t
      BY <1>1, <3>3
    <3> QED BY <3>2, <3>3
  <2> QED BY <2>2, SameComp
<1>8. PICK b : b = CompOf(pools', id)
  OBVIOUS
<1>9. contents' = [contents EXCEPT ![id] = b]
  <2>1. \A x \in living : CompOf(pools', x) = IF x = id THEN b ELSE CompOf(pools, x)
    BY <1>7, <1>8
  <2>2. contents' = [x \in living |-> IF x = id THEN b ELSE CompOf(pools, x)]
    BY <1>2, <2>1
  <2> QED BY <1>1, <1>3, <2>2
<1>10. contents[id] = c
  BY <1>1, <1>3, <1>4
<1>11. contents' = [contents EXCEPT ![id] = [u \in DOMAIN @ \cup {t} |-> IF u \in DOMAIN @ THEN @[u] ELSE v]]
  BY <1>6, <1>8, <1>9, <1>10
<1> QED BY <1>1, <1>11, ContentsFact DEF Store!AddComponent

(* removeComponent takes one of the entity's components.                   *)
LEMMA RemoveStore ==
  ASSUME Inv, NEW id \in living \cup stale, NEW t \in Types, RemoveComponent(id, t)
  PROVE  id \in IDs /\ Store!RemoveComponent(id, t)
<1>1. /\ id \in living /\ living' = living /\ stale' = stale /\ living \subseteq IDs
      /\ Keeps(pools[t], pools'[t], id) /\ ~ Has(pools'[t], id)
      /\ \A u \in Types : u # t => pools'[u] = pools[u]
  BY RemoveInv DEF Inv, EntitiesOK
<1>2. contents' = [x \in living |-> CompOf(pools', x)]
  BY <1>1 DEF contents, CompOf
<1>3. contents = [x \in living |-> CompOf(pools, x)]
  BY ContentsFact
<1>4. PICK c : c = CompOf(pools, id)
  OBVIOUS
<1>5. c = [u \in {w \in Types : Has(pools[w], id)} |-> tryGet(pools[u], id)]
  BY <1>4 DEF CompOf
<1>6. CompOf(pools', id) = Store!Only(c, Types \ {t})
  <2>1. PICK D : D = {u \in Types : Has(pools'[u], id)}
    OBVIOUS
  <2>2. D = DOMAIN c \cap (Types \ {t})
    BY <1>1, <1>5, <2>1
  <2>3. \A u \in D : tryGet(pools'[u], id) = c[u]
    BY <1>1, <1>5, <2>2
  <2>4. CompOf(pools', id) = [u \in D |-> tryGet(pools'[u], id)]
    BY <2>1 DEF CompOf
  <2>5. CompOf(pools', id) = [u \in D |-> c[u]]
    BY <2>3, <2>4
  <2> QED BY <2>2, <2>5 DEF Store!Only
<1>7. \A x \in living : x # id => CompOf(pools', x) = CompOf(pools, x)
  <2>1. SUFFICES ASSUME NEW x \in living, x # id PROVE CompOf(pools', x) = CompOf(pools, x)
    OBVIOUS
  <2>2. \A u \in Types : (Has(pools'[u], x) <=> Has(pools[u], x))
                         /\ (Has(pools[u], x) => tryGet(pools'[u], x) = tryGet(pools[u], x))
    <3>1. SUFFICES ASSUME NEW u \in Types
                   PROVE  (Has(pools'[u], x) <=> Has(pools[u], x))
                          /\ (Has(pools[u], x) => tryGet(pools'[u], x) = tryGet(pools[u], x))
      OBVIOUS
    <3>2. CASE u = t
      BY <1>1, <2>1, <3>2 DEF Keeps
    <3>3. CASE u # t
      BY <1>1, <3>3
    <3> QED BY <3>2, <3>3
  <2> QED BY <2>2, SameComp
<1>8. PICK b : b = CompOf(pools', id)
  OBVIOUS
<1>9. contents' = [contents EXCEPT ![id] = b]
  <2>1. \A x \in living : CompOf(pools', x) = IF x = id THEN b ELSE CompOf(pools, x)
    BY <1>7, <1>8
  <2>2. contents' = [x \in living |-> IF x = id THEN b ELSE CompOf(pools, x)]
    BY <1>2, <2>1
  <2> QED BY <1>1, <1>3, <2>2
<1>10. contents[id] = c
  BY <1>1, <1>3, <1>4
<1>11. contents' = [contents EXCEPT ![id] = Store!Only(@, Types \ {t})]
  BY <1>6, <1>8, <1>9, <1>10
<1> QED BY <1>1, <1>11, ContentsFact DEF Store!RemoveComponent

(* An empty world is an empty store.                                       *)
LEMMA EmptyStore ==
  ASSUME living = {}
  PROVE  contents = Store!Nothing
<1>1. contents = [id \in {} |-> CompOf(pools, id)]
  BY ContentsFact
<1> QED BY <1>1 DEF Store!Nothing

(* A new World is an empty store.                                          *)
LEMMA InitStore == Init => Store!Init
BY EmptyStore DEF Init, Store!Init

(* World::clear empties the store.                                         *)
LEMMA ClearStore == Clear => Store!Clear
<1>1. Clear => Init'
  BY DEF Clear, Init
<1>2. Store!Init' => contents' = Store!Nothing /\ stale' = {}
  BY DEF Store!Init, Store!Nothing
<1>3. Store!Init' => Store!Clear
  BY <1>2 DEF Store!Clear
<1> QED BY <1>1, <1>3, InitStore, PTL

(* Every step of World is a step of EntityStore or leaves it alone.        *)
LEMMA StoreStep == Inv /\ [Next]_vars => [Store!Next]_(<<contents, stale>>)
<1> SUFFICES ASSUME Inv, [Next]_vars PROVE [Store!Next]_(<<contents, stale>>)
  OBVIOUS
<1>1. CASE CreateEntity
  BY <1>1, CreateStore DEF Store!Next
<1>2. CASE \E id \in living \cup stale : DestroyEntity(id)
  BY <1>2, DestroyStore DEF Store!Next
<1>3. CASE \E id \in living \cup stale, t \in Types : RemoveComponent(id, t)
  BY <1>3, RemoveStore DEF Store!Next
<1>4. CASE \E id \in living \cup stale, t \in Types, v \in Values : AddComponent(id, t, v)
  BY <1>4, AddStore DEF Store!Next
<1>5. CASE \E id \in stale : Forget(id)
  <2>1. PICK id \in stale : Forget(id)
    BY <1>5
  <2>2. id \in IDs
    BY DEF Inv, EntitiesOK
  <2>3. stale' = stale \ {id} /\ contents' = contents
    BY <2>1 DEF Forget, contents
  <2>4. Store!Forget(id)
    BY <2>3 DEF Store!Forget
  <2> QED BY <2>2, <2>4 DEF Store!Next
<1>6. CASE Clear
  BY <1>6, ClearStore DEF Store!Next
<1>7. CASE UNCHANGED vars
  BY <1>7 DEF vars, contents
<1> QED BY <1>1, <1>2, <1>3, <1>4, <1>5, <1>6, <1>7 DEF Next

(* World implements EntityStore: swap removal, list nodes and reused       *)
(* indices never lose, change or mix up a component.                       *)
THEOREM EntityStoreImplemented == Spec => ImplementsEntityStore
<1>1. Inv /\ [Next]_vars => [Store!Next]_(<<contents, stale>>)
  BY StoreStep
<1> QED BY <1>1, InitStore, InvHolds, PTL DEF Spec, ImplementsEntityStore, Store!Spec
=============================================================================
