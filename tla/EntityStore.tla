----------------------------- MODULE EntityStore -----------------------------
(***************************************************************************)
(* What ECS::World promises its callers: entities that carry at most one   *)
(* component of each type, reached through ids.  A dead entity never comes *)
(* back while its id is held, and an id of a dead one does nothing.        *)
(***************************************************************************)
CONSTANTS Entities, Types, Values

VARIABLES store,  \* the living entities, each with its components
          stale   \* the dead entities that callers still hold

living == DOMAIN store

Only(f, S) == [x \in DOMAIN f \cap S |-> f[x]]

Nothing == [x \in {} |-> x]

Init == store = Nothing /\ stale = {}

Create(e) ==
    /\ e \notin living \cup stale
    /\ store' = [x \in living \cup {e} |-> IF x = e THEN Nothing ELSE store[x]]
    /\ UNCHANGED stale

Destroy(e) ==
    /\ e \in living
    /\ store' = Only(store, Entities \ {e})
    /\ stale' = stale \cup {e}

(* A component that is there already is kept as it is. *)
AddComponent(e, t, v) ==
    /\ e \in living
    /\ store' = [store EXCEPT ![e] =
                   [u \in DOMAIN @ \cup {t} |-> IF u \in DOMAIN @ THEN @[u] ELSE v]]
    /\ UNCHANGED stale

RemoveComponent(e, t) ==
    /\ e \in living
    /\ store' = [store EXCEPT ![e] = Only(@, Types \ {t})]
    /\ UNCHANGED stale

Forget(e) == stale' = stale \ {e} /\ UNCHANGED store

Clear == store' = Nothing /\ stale' = {}

Next ==
    \/ \E e \in Entities : Create(e) \/ Destroy(e) \/ Forget(e)
    \/ \E e \in Entities, t \in Types : RemoveComponent(e, t)
    \/ \E e \in Entities, t \in Types, v \in Values : AddComponent(e, t, v)
    \/ Clear

Spec == Init /\ [][Next]_<<store, stale>>

=============================================================================
