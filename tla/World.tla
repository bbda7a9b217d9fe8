-------------------------------- MODULE World --------------------------------
(***************************************************************************)
(* The entity-component store of ECS::World: EntityManager (indices,       *)
(* generations, free list), the component pools (sparse set with swap      *)
(* removal), the list of component types of each entity, and views.        *)
(*                                                                         *)
(* Indices count from 1, so 0 stands for ~0u and the invalid node.  A      *)
(* vector that is too short reads like one filled with the invalid value:  *)
(* m_sparse and m_entityComponentHeads are total functions, and a pool not *)
(* made yet is an empty one.  Calls come one at a time: World has no lock. *)
(***************************************************************************)
EXTENDS Naturals, Sequences, SequencesExt, FiniteSets

CONSTANTS MaxEntities,      \* ENTITY_INVALID_INDEX: as many indices there are
          GenerationCount,  \* ENTITY_GENERATION_MASK + 1
          Types,            \* component types
          Values            \* component values

ASSUME WorldAssumption == MaxEntities \in Nat /\ GenerationCount \in Nat \ {0, 1}

VARIABLES m_generations,    \* EntityManager
          m_freeIndices,
          m_aliveCount,
          pools,            \* m_pools: sparse, dense and components of each type
          m_heads,          \* m_entityComponentHeads
          m_nodes,          \* m_entityComponentNodes
          m_freeNode,       \* m_freeEntityComponentNode
          living,           \* history: the ids created and not destroyed
          stale             \* history: ids of dead entities callers still hold

entityManager == <<m_generations, m_freeIndices, m_aliveCount>>
lists == <<m_heads, m_nodes, m_freeNode>>
vars == <<entityManager, pools, lists, living, stale>>

Indices == 1 .. MaxEntities

EntityID(index, generation) == [index |-> index, generation |-> generation]

EmptyPool == [sparse |-> [i \in Indices |-> 0], dense |-> <<>>, components |-> <<>>]

alive(id) == id.index \in DOMAIN m_generations /\ m_generations[id.index] = id.generation

-----------------------------------------------------------------------------
(* ComponentPool.                                                          *)

Has(pool, id) ==
    LET d == pool.sparse[id.index] IN d \in DOMAIN pool.dense /\ pool.dense[d] = id

tryGet(pool, id) == pool.components[pool.sparse[id.index]]

PoolAdd(pool, id, value) ==
    [sparse     |-> [pool.sparse EXCEPT ![id.index] = Len(pool.dense) + 1],
     dense      |-> Append(pool.dense, id),
     components |-> Append(pool.components, value)]

\* mutant: the moved entity keeps its old position
PoolRemoveMutant(pool, id) ==
    LET d == pool.sparse[id.index]
        n == Len(pool.dense)
    IN  IF ~Has(pool, id) THEN pool
        ELSE [sparse     |-> [pool.sparse EXCEPT ![id.index] = 0],
              dense      |-> Front([pool.dense EXCEPT ![d] = pool.dense[n]]),
              components |-> Front([pool.components EXCEPT ![d] = pool.components[n]])]

\* mutant: the moved entity's component is not moved
PoolRemoveMutant2(pool, id) ==
    LET d == pool.sparse[id.index]
        n == Len(pool.dense)
    IN  IF ~Has(pool, id) THEN pool
        ELSE [sparse     |-> [pool.sparse EXCEPT ![pool.dense[n].index] = d, ![id.index] = 0],
              dense      |-> Front([pool.dense EXCEPT ![d] = pool.dense[n]]),
              components |-> Front(pool.components)]

(* The last entity takes the place of the removed one. *)
PoolRemove(pool, id) ==
    LET d == pool.sparse[id.index]
        n == Len(pool.dense)
    IN  IF ~Has(pool, id) THEN pool
        ELSE [sparse     |-> [pool.sparse EXCEPT ![pool.dense[n].index] = d, ![id.index] = 0],
              dense      |-> Front([pool.dense EXCEPT ![d] = pool.dense[n]]),
              components |-> Front([pool.components EXCEPT ![d] = pool.components[n]])]

-----------------------------------------------------------------------------
(* The types of an entity, a list of nodes; released nodes form a list too.*)

(* The nodes from head on: node[k] comes k links later, 0 past the end.    *)
Chain(head) ==
    LET node[k \in 0 .. Len(m_nodes)] ==
          IF k = 0 THEN head
          ELSE LET n == node[k - 1] IN IF n = 0 THEN 0 ELSE m_nodes[n].next
        length == Cardinality({k \in 0 .. Len(m_nodes) : node[k] # 0})
    IN  [k \in 1 .. length |-> node[k - 1]]

addEntityComponentType(index, t) ==
    IF \E k \in DOMAIN Chain(m_heads[index]) : m_nodes[Chain(m_heads[index])[k]].typeId = t
      THEN UNCHANGED lists
      ELSE LET node == [typeId |-> t, next |-> m_heads[index]] IN
           IF m_freeNode # 0
             THEN /\ m_nodes' = [m_nodes EXCEPT ![m_freeNode] = node]
                  /\ m_heads' = [m_heads EXCEPT ![index] = m_freeNode]
                  /\ m_freeNode' = m_nodes[m_freeNode].next
             ELSE /\ m_nodes' = Append(m_nodes, node)
                  /\ m_heads' = [m_heads EXCEPT ![index] = Len(m_nodes) + 1]
                  /\ UNCHANGED m_freeNode

removeEntityComponentType(index, t) ==
    LET chain == Chain(m_heads[index])
        at == {k \in DOMAIN chain : m_nodes[chain[k]].typeId = t}
    IN  IF at = {} THEN UNCHANGED lists
        ELSE LET k == CHOOSE i \in at : \A j \in at : i <= j
                 n == chain[k]
                 relinked == IF k = 1 THEN m_nodes
                             ELSE [m_nodes EXCEPT ![chain[k - 1]].next = m_nodes[n].next]
             IN  /\ m_heads' = IF k = 1 THEN [m_heads EXCEPT ![index] = m_nodes[n].next] ELSE m_heads
                 /\ m_nodes' = [relinked EXCEPT ![n].next = m_freeNode]
                 /\ m_freeNode' = n

(* Each listed type's pool drops the entity; its nodes are released in     *)
(* turn.                                                                   *)
destroyEntityComponents(id) ==
    LET chain == Chain(m_heads[id.index]) IN
    /\ pools' = [t \in Types |-> IF \E k \in DOMAIN chain : m_nodes[chain[k]].typeId = t
                                   THEN PoolRemove(pools[t], id) ELSE pools[t]]
    /\ m_heads' = [m_heads EXCEPT ![id.index] = 0]
    /\ m_nodes' = [n \in DOMAIN m_nodes |->
                     IF \E k \in DOMAIN chain : chain[k] = n
                       THEN LET k == CHOOSE i \in DOMAIN chain : chain[i] = n IN
                            [m_nodes[n] EXCEPT !.next = IF k = 1 THEN m_freeNode ELSE chain[k - 1]]
                       ELSE m_nodes[n]]
    /\ m_freeNode' = IF chain = <<>> THEN m_freeNode ELSE Last(chain)

-----------------------------------------------------------------------------
(* The operations of World, through the id of a living entity or of a dead *)
(* one that a caller still holds.                                          *)

NextGenerationMutant(generation) == generation + 1    \* mutant: not masked

NextGeneration(generation) == (generation + 1) % GenerationCount

(* The callers' part: an id has been forgotten by the time the generation  *)
(* of its index comes round to it (once in 1024 lives of the index).       *)
Forgotten(id) == id \notin stale

(* createEntity.  With no index left it returns the invalid id, which      *)
(* changes nothing.                                                        *)
CreateEntity ==
    /\ \/ /\ m_freeIndices # <<>>
          /\ LET i == Last(m_freeIndices) IN living' = living \cup {EntityID(i, m_generations[i])}
          /\ m_freeIndices' = Front(m_freeIndices)
          /\ UNCHANGED m_generations
       \/ /\ m_freeIndices = <<>> /\ Len(m_generations) < MaxEntities
          /\ living' = living \cup {EntityID(Len(m_generations) + 1, 0)}
          /\ m_generations' = Append(m_generations, 0)
          /\ UNCHANGED m_freeIndices
    /\ m_aliveCount' = m_aliveCount + 1
    /\ UNCHANGED <<pools, lists, stale>>

DestroyEntity(id) ==
    LET i == id.index
        next == NextGeneration(m_generations[i])
    IN  /\ alive(id) /\ Forgotten(EntityID(i, next))
        /\ destroyEntityComponents(id)
        /\ m_generations' = [m_generations EXCEPT ![i] = next]
        /\ m_freeIndices' = Append(m_freeIndices, i)
        /\ m_aliveCount' = m_aliveCount - 1
        /\ living' = living \ {id} /\ stale' = stale \cup {id}

(* addComponent of a living entity (asserted); one it has is kept. *)
AddComponent(id, t, v) ==
    /\ alive(id) /\ ~Has(pools[t], id)
    /\ pools' = [pools EXCEPT ![t] = PoolAdd(@, id, v)]
    /\ addEntityComponentType(id.index, t)
    /\ UNCHANGED <<entityManager, living, stale>>

RemoveComponent(id, t) ==
    /\ alive(id) /\ Has(pools[t], id)
    /\ pools' = [pools EXCEPT ![t] = PoolRemove(@, id)]
    /\ removeEntityComponentType(id.index, t)
    /\ UNCHANGED <<entityManager, living, stale>>

Forget(id) == stale' = stale \ {id} /\ UNCHANGED <<entityManager, pools, lists, living>>

(* World::clear starts the generations over, so no id may outlive it. *)
Clear ==
    /\ m_generations' = <<>> /\ m_freeIndices' = <<>> /\ m_aliveCount' = 0
    /\ pools' = [t \in Types |-> EmptyPool]
    /\ m_heads' = [i \in Indices |-> 0] /\ m_nodes' = <<>> /\ m_freeNode' = 0
    /\ living' = {} /\ stale' = {}

-----------------------------------------------------------------------------
Init ==
    /\ m_generations = <<>> /\ m_freeIndices = <<>> /\ m_aliveCount = 0
    /\ pools = [t \in Types |-> EmptyPool]
    /\ m_heads = [i \in Indices |-> 0] /\ m_nodes = <<>> /\ m_freeNode = 0
    /\ living = {} /\ stale = {}

Next ==
    \/ CreateEntity
    \/ \E id \in living \cup stale : DestroyEntity(id)
    \/ \E id \in living \cup stale, t \in Types : RemoveComponent(id, t)
    \/ \E id \in living \cup stale, t \in Types, v \in Values : AddComponent(id, t, v)
    \/ \E id \in stale : Forget(id)
    \/ Clear

Spec == Init /\ [][Next]_vars

-----------------------------------------------------------------------------
(* Views.                                                                  *)

(* The anchor is a smallest pool; its entities in order, those that every  *)
(* other pool has.                                                         *)
Anchors(ts) == {t \in ts : \A u \in ts : Len(pools[t].dense) <= Len(pools[u].dense)}

View(ts, anchor) ==
    LET dense == pools[anchor].dense
        visited[k \in 0 .. Len(dense)] ==
          IF k = 0 THEN <<>>
          ELSE IF \A t \in ts \ {anchor} : Has(pools[t], dense[k])
          THEN Append(visited[k - 1], dense[k]) ELSE visited[k - 1]
    IN  visited[Len(dense)]

-----------------------------------------------------------------------------
IDs == [index : Indices, generation : 0 .. GenerationCount - 1]

(* The vectors keep their types and sizes: an entity has a node for every  *)
(* component at most, and an index that is in use is not free.             *)
WorldTypeOK ==
    /\ Len(m_generations) <= MaxEntities
    /\ \A i \in DOMAIN m_generations : m_generations[i] \in 0 .. GenerationCount - 1
    /\ \A k \in DOMAIN m_freeIndices : m_freeIndices[k] \in DOMAIN m_generations
    /\ DOMAIN pools = Types
    /\ \A t \in Types :
         /\ pools[t].sparse \in [Indices -> 0 .. MaxEntities]
         /\ Len(pools[t].dense) = Len(pools[t].components) /\ Len(pools[t].dense) <= MaxEntities
         /\ \A k \in DOMAIN pools[t].dense : pools[t].dense[k] \in IDs
         /\ \A k \in DOMAIN pools[t].components : pools[t].components[k] \in Values
    /\ m_heads \in [Indices -> 0 .. Len(m_nodes)] /\ m_freeNode \in 0 .. Len(m_nodes)
    /\ \A n \in DOMAIN m_nodes : m_nodes[n] \in [typeId : Types, next : 0 .. Len(m_nodes)]
    /\ living \subseteq IDs /\ stale \subseteq IDs

(* What callers read is what lives: alive() of every id they hold tells    *)
(* whether its entity lives, entityCount() counts the living, a dead id    *)
(* has no component in any pool, and a view over any types visits every    *)
(* living entity that has them all exactly once, and nothing else,         *)
(* whichever smallest pool it anchors to (alive, hasComponent, each).      *)
QueriesExact ==
    /\ m_aliveCount = Cardinality(living)
    /\ \A id \in living : alive(id)
    /\ \A id \in stale : ~alive(id) /\ \A t \in Types : ~Has(pools[t], id)
    /\ \A ts \in SUBSET Types \ {{}} : \A anchor \in Anchors(ts) :
         LET matching == {id \in living : \A t \in ts : Has(pools[t], id)}
             visited == View(ts, anchor)
         IN  ToSet(visited) = matching /\ Len(visited) = Cardinality(matching)

contents ==
    [id \in living |-> [t \in {u \in Types : Has(pools[u], id)} |-> tryGet(pools[t], id)]]

Store == INSTANCE EntityStore WITH Entities <- IDs, Types <- Types, Values <- Values,
                                   store <- contents, stale <- stale

(* World implements EntityStore: every operation does to its entity what   *)
(* it promises and nothing to the others, and a new entity never gets an   *)
(* id that lives or is held.  Swap removal, list nodes and reused indices  *)
(* never lose, change or mix up a component (createEntity, destroyEntity,  *)
(* addComponent, removeComponent, clear).                                  *)
ImplementsEntityStore == Store!Spec

=============================================================================
