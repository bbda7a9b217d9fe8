-------------------------- MODULE JobSystemProofs ---------------------------
(***************************************************************************)
(* Proofs about JobSystem for every set of workers and clients, every      *)
(* number of jobs and dependencies, every largest generation and every     *)
(* depth of inline continuations.                                          *)
(*                                                                         *)
(* The inductive invariant Inv says which job each node belongs to, how    *)
(* far its generation has moved on, where the handle of a scheduled job is *)
(* carried, and where the handle of a waiting one is listed.               *)
(***************************************************************************)
EXTENDS JobSystem, FiniteSetTheorems, SequenceTheorems, WellFoundedInduction, TLAPS

NodeType ==
  [func : 0 .. MaxJobs, dependents : Seq(HandleType), generation : 1 .. GenerationLimit,
   remaining : Nat, completed : BOOLEAN, scheduled : BOOLEAN,
   completedGeneration : 0 .. GenerationLimit]

FrameAt == {"enqueue", "take", "run", "complete", "signal", "batch", "retire", "retireNotify"}

FrameType ==
  [at : FrameAt, cur : HandleType, depth : 0 .. s_WorkFirstDepthLimit, fn : 0 .. MaxJobs,
   cont : HandleType, batch : Seq(HandleType)]

Stacks == [Threads -> Seq(FrameType)]

CallAt == {"idle", "resolve", "futex", "asleep", "allLoad", "allFutex", "allAsleep"}

CallType == [at : CallAt, job : 0 .. MaxJobs, seen : Nat, past : SUBSET Jobs]

Types ==
  /\ workers \in WorkerSets
  /\ m_nodes \in Seq(NodeType)
  /\ m_freeNodes \in Seq(1 .. MaxJobs)
  /\ m_pendingJobCount \in Nat
  /\ poolTasks \in Seq(HandleType)
  /\ stack \in Stacks
  /\ call \in [Clients -> CallType]
  /\ handle \in [Jobs -> HandleType]
  /\ state \in [Jobs -> {"none", "pending", "running", "ended"}]
  /\ deps \in [Jobs -> SUBSET Jobs]

(* Jobs are numbered as they come, and each was given a node.              *)
Numbered ==
  /\ submitted = 1 .. Cardinality(submitted)
  /\ Len(m_nodes) <= Cardinality(submitted)
  /\ \A j \in submitted : handle[j].index \in DOMAIN m_nodes /\ handle[j].generation # 0
  /\ \A j \in submitted : deps[j] \subseteq submitted

(* The free nodes, each once.                                              *)
FreeOnce ==
  /\ \A k, l \in DOMAIN m_freeNodes : m_freeNodes[k] = m_freeNodes[l] => k = l
  /\ \A k \in DOMAIN m_freeNodes : m_freeNodes[k] \in DOMAIN m_nodes /\ m_nodes[m_freeNodes[k]].completed
  /\ \A i \in DOMAIN m_nodes : m_nodes[i].completed => \E k \in DOMAIN m_freeNodes : m_freeNodes[k] = i

(* No later job has job j's node; it is still job j's.                     *)
Latest(j) == \A k \in submitted : k > j => handle[k].index # handle[j].index
Live(j) == j \in submitted /\ Latest(j) /\ ~ m_nodes[handle[j].index].completed

(* The generation g of a node after a more jobs have completed on it.      *)
Advance(g, a) == IF g + a <= GenerationLimit THEN g + a ELSE g + a - GenerationLimit
Passed(j) == Age(j) + (IF m_nodes[handle[j].index].completed THEN 1 ELSE 0)

Generations ==
  /\ \A j \in submitted : Passed(j) <= GenerationLimit =>
       m_nodes[handle[j].index].generation = Advance(handle[j].generation, Passed(j))
  /\ \A i \in DOMAIN m_nodes :
       m_nodes[i].completedGeneration # 0 =>
         m_nodes[i].generation = NextGeneration(m_nodes[i].completedGeneration)

(* A node in use has a live job, whose function it holds until it is run.  *)
NodeOK(i) ==
  /\ m_nodes[i].completed =>
       m_nodes[i].func = 0 /\ m_nodes[i].dependents = <<>> /\ ~ m_nodes[i].scheduled
  /\ ~ m_nodes[i].completed => \E j \in submitted : Live(j) /\ handle[j].index = i
  /\ m_nodes[i].func # 0 =>
       /\ Live(m_nodes[i].func) /\ handle[m_nodes[i].func].index = i
       /\ state[m_nodes[i].func] = "pending"
  /\ ~ m_nodes[i].completed /\ ~ m_nodes[i].scheduled => m_nodes[i].func # 0

Owned ==
  /\ \A i \in DOMAIN m_nodes : NodeOK(i)
  /\ \A j \in submitted :
       /\ state[j] # "ended" => Live(j)
       /\ state[j] = "pending" => m_nodes[handle[j].index].func = j

(* What a frame of execute() stands for at each control point.             *)
FrameOK(f) ==
  /\ f.at \in {"enqueue", "take", "run", "complete"} => f.cont = NoHandle /\ f.batch = <<>>
  /\ f.at \in {"retire", "retireNotify"} => f.batch = <<>>
  /\ valid(f.cont) => f.depth < s_WorkFirstDepthLimit
  /\ f.at \in {"enqueue", "take"} => f.fn = 0
  /\ f.at \in {"run", "complete"} =>
       /\ Live(f.fn) /\ handle[f.fn] = f.cur
       /\ m_nodes[f.cur.index].scheduled /\ m_nodes[f.cur.index].func = 0
  /\ f.at = "run" => state[f.fn] = "running"
  /\ f.at = "complete" => state[f.fn] = "ended"
  /\ f.at \in {"signal", "batch", "retire", "retireNotify"} =>
       f.fn \in submitted /\ ~ Live(f.fn) /\ state[f.fn] = "ended"

(* A handle on its way to execute() names a scheduled job that was not     *)
(* started.                                                                *)
Open(h) ==
  /\ h \in HandleType /\ h.index \in DOMAIN m_nodes
  /\ h.generation = m_nodes[h.index].generation /\ ~ m_nodes[h.index].completed
Due(h) == Open(h) /\ m_nodes[h.index].scheduled /\ m_nodes[h.index].func # 0

FrameDue(f) ==
  /\ f.at \in {"enqueue", "take"} => Due(f.cur)
  /\ valid(f.cont) => Due(f.cont)
  /\ \A q \in DOMAIN f.batch : Due(f.batch[q])

PoolDue == \A p \in DOMAIN poolTasks : Due(poolTasks[p])

Frames ==
  /\ \A t \in Threads : \A k \in DOMAIN stack[t] : FrameOK(stack[t][k]) /\ FrameDue(stack[t][k])
  /\ \A t, u \in Threads : \A k \in DOMAIN stack[t], l \in DOMAIN stack[u] :
       stack[t][k].fn = stack[u][l].fn /\ stack[t][k].fn # 0 => t = u /\ k = l

(* Handle h is at position p of the pool's queue; at place q of frame k of *)
(* thread t.                                                               *)
InPool(p, h) == p \in DOMAIN poolTasks /\ poolTasks[p] = h
InFrame(t, k, q, h) == t \in Threads /\ k \in DOMAIN stack[t] /\ Carries(stack[t][k], q, h)

CarriedOnce ==
  /\ \A p, r, h : InPool(p, h) /\ InPool(r, h) => p = r
  /\ \A p, t, k, q, h : ~(InPool(p, h) /\ InFrame(t, k, q, h))
  /\ \A t, k, q, u, l, r, h :
       InFrame(t, k, q, h) /\ InFrame(u, l, r, h) => t = u /\ k = l /\ q = r

Carried(h) == (\E p : InPool(p, h)) \/ (\E t, k, q : InFrame(t, k, q, h))

CarriedSome ==
  \A i \in DOMAIN m_nodes :
    ~ m_nodes[i].completed /\ m_nodes[i].scheduled => Carried(HandleOf(m_nodes, i))

Carriage == PoolDue /\ CarriedOnce /\ CarriedSome

(* The dependents a node lists are waiting, each as often as it counts.    *)
Lists ==
  /\ RemainingExact
  /\ \A i \in DOMAIN m_nodes : ~ m_nodes[i].completed =>
       IsFiniteSet(Listed(m_nodes, HandleOf(m_nodes, i)))
  /\ \A i \in DOMAIN m_nodes : \A q \in DOMAIN m_nodes[i].dependents :
       Open(m_nodes[i].dependents[q])

(* An unfinished dependency of a pending job lists it.                     *)
Linked ==
  \A j \in submitted : state[j] = "pending" =>
    \A d \in deps[j] : Live(d) =>
      \E q \in DOMAIN m_nodes[handle[d].index].dependents :
        m_nodes[handle[d].index].dependents[q] = handle[j]

(* The jobs m_pendingJobCount counts: the live ones, and those that are    *)
(* complete while their round of execute() is not.                         *)
RetiresAt(t, k, j) ==
  /\ t \in Threads /\ k \in DOMAIN stack[t] /\ stack[t][k].fn = j
  /\ stack[t][k].at \in {"signal", "batch", "retire"}
Retiring(j) == \E t, k : RetiresAt(t, k, j)

Unretired == {j \in submitted : Live(j) \/ Retiring(j)}

PendingExact == m_pendingJobCount = Cardinality(Unretired)

(* The callers of wait() and waitAll().                                    *)
CallOK(r) ==
  /\ r.at \in {"resolve", "futex", "asleep"} =>
       r.job \in submitted /\ Age(r.job) < GenerationLimit - 1 /\ r.past = {}
  /\ r.at \in {"allLoad", "allFutex", "allAsleep"} => r.job = 0 /\ r.past \subseteq submitted

Calls == \A c \in Clients : CallOK(call[c])

Inv ==
  /\ Types /\ Numbered /\ FreeOnce /\ Generations /\ Owned /\ Frames
  /\ Carriage /\ Lists /\ Linked /\ PendingExact /\ Calls

-----------------------------------------------------------------------------
(* A set of numbers has a smallest.                                        *)
LEMMA Smallest ==
  ASSUME NEW T \in SUBSET Nat, T # {}
  PROVE  \E x \in T : \A y \in T : x <= y
<1>1. PICK x \in T : \A y \in T : ~(<<y, x>> \in OpToRel(<, Nat))
  BY WFMin, NatLessThanWellFounded
<1>2. \A y \in T : ~(y < x)
  BY <1>1 DEF OpToRel
<1>3. x \in Nat /\ \A y \in T : y \in Nat
  BY <1>1
<1>4. \A y \in T : x <= y
  BY <1>2, <1>3
<1> QED BY <1>1, <1>4

(* The submitted jobs are finitely many, and so are the later users of a   *)
(* node.                                                                   *)
LEMMA JobsFinite ==
  /\ IsFiniteSet(submitted) /\ submitted \subseteq Jobs /\ Cardinality(submitted) \in Nat
  /\ MaxJobs \in Nat /\ Jobs \subseteq Nat \ {0}
  /\ Cardinality(submitted) <= MaxJobs
  /\ \A j : IsFiniteSet({k \in submitted : k > j /\ handle[k].index = handle[j].index})
           /\ Age(j) \in Nat
<1>1. MaxJobs \in Nat /\ Jobs \subseteq Nat \ {0} /\ submitted \subseteq Jobs
  BY JobAssumption DEF Jobs, submitted
<1>2. IsFiniteSet(Jobs) /\ Cardinality(Jobs) = MaxJobs
  BY <1>1, FS_Interval DEF Jobs
<1>3. IsFiniteSet(submitted) /\ Cardinality(submitted) \in Nat /\ Cardinality(submitted) <= MaxJobs
  BY <1>1, <1>2, FS_Subset, FS_CardinalityType
<1>4. ASSUME NEW j
      PROVE  IsFiniteSet({k \in submitted : k > j /\ handle[k].index = handle[j].index})
             /\ Age(j) \in Nat
  BY <1>3, FS_Subset, FS_CardinalityType DEF Age
<1> QED BY <1>1, <1>3, <1>4

(* A live job's handle is the current one of its node.                     *)
LEMMA LiveHandle ==
  ASSUME Types, Numbered, Generations, NEW j, Live(j)
  PROVE  /\ j \in submitted /\ j \in Jobs /\ Age(j) = 0
         /\ handle[j] = HandleOf(m_nodes, handle[j].index)
         /\ Resolves(m_nodes, handle[j])
<1>1. j \in submitted /\ j \in Jobs /\ handle[j] \in HandleType
      /\ handle[j].index \in DOMAIN m_nodes /\ handle[j].generation # 0
      /\ m_nodes[handle[j].index] \in NodeType
  BY JobsFinite DEF Live, Types, Numbered
<1>2. {k \in submitted : k > j /\ handle[k].index = handle[j].index} = {}
  BY DEF Live, Latest
<1>3. Age(j) = 0
  BY <1>2, FS_EmptySet DEF Age
<1>4. Passed(j) = 0
  BY <1>3 DEF Passed, Live
<1>5. m_nodes[handle[j].index].generation = Advance(handle[j].generation, 0)
  BY <1>1, <1>4, JobAssumption DEF Generations
<1>6. m_nodes[handle[j].index].generation = handle[j].generation
  BY <1>1, <1>5, JobAssumption DEF Advance, HandleType
<1>7. handle[j] = HandleOf(m_nodes, handle[j].index)
  BY <1>1, <1>6 DEF HandleOf, HandleType
<1>8. Resolves(m_nodes, handle[j])
  BY <1>1, <1>6 DEF Resolves, valid, NoHandle, Types, Live
<1> QED BY <1>1, <1>3, <1>7, <1>8

(* Until its node was reused too often, a handle resolves only while its   *)
(* job is live.                                                            *)
LEMMA ResolvesLive ==
  ASSUME Types, Numbered, Generations, NEW j \in submitted,
         Age(j) < GenerationLimit, Resolves(m_nodes, handle[j])
  PROVE  Live(j)
<1>1. j \in Jobs /\ handle[j] \in HandleType /\ handle[j].index \in DOMAIN m_nodes
      /\ handle[j].generation # 0 /\ Age(j) \in Nat /\ GenerationLimit \in Nat
  BY JobsFinite, JobAssumption DEF Types, Numbered
<1>2. ~ m_nodes[handle[j].index].completed
      /\ m_nodes[handle[j].index].generation = handle[j].generation
  BY DEF Resolves
<1>3. Passed(j) = Age(j)
  BY <1>1, <1>2 DEF Passed
<1>4. handle[j].generation = Advance(handle[j].generation, Age(j))
  BY <1>1, <1>2, <1>3 DEF Generations
<1>5. Age(j) = 0
  BY <1>1, <1>4 DEF Advance, HandleType
<1>6. {k \in submitted : k > j /\ handle[k].index = handle[j].index} = {}
  BY <1>5, JobsFinite, FS_EmptySet DEF Age
<1>7. Latest(j)
  BY <1>6 DEF Latest
<1> QED BY <1>2, <1>7 DEF Live

(* A node has one live job.                                                *)
LEMMA OneLive ==
  ASSUME NEW j, NEW k, Live(j), Live(k), handle[j].index = handle[k].index
  PROVE  j = k
<1>1. j \in submitted /\ k \in submitted /\ j \in Nat /\ k \in Nat
  BY JobsFinite DEF Live
<1>2. ~(j > k) /\ ~(k > j)
  BY <1>1 DEF Live, Latest
<1> QED BY <1>1, <1>2

-----------------------------------------------------------------------------
(* Stacks.                                                                 *)

LEMMA TopFact ==
  ASSUME stack \in Stacks, NEW t \in Threads, stack[t] # <<>>
  PROVE  /\ Len(stack[t]) \in DOMAIN stack[t] /\ Len(stack[t]) \in Nat \ {0}
         /\ Top(t) = stack[t][Len(stack[t])] /\ Top(t) \in FrameType
         /\ stack[t] \in Seq(FrameType) /\ DOMAIN stack[t] = 1 .. Len(stack[t])
BY EmptySeq DEF Stacks, Top, Last

(* Front keeps all entries of a sequence but the last.                     *)
LEMMA FrontFact ==
  ASSUME NEW S, NEW s \in Seq(S), s # <<>>
  PROVE  /\ Front(s) \in Seq(S) /\ Len(Front(s)) = Len(s) - 1
         /\ \A k \in 1 .. Len(s) - 1 : Front(s)[k] = s[k]
<1>1. Len(s) \in Nat \ {0} /\ DOMAIN s = 1 .. Len(s)
  BY EmptySeq
<1>2. Front(s) = SubSeq(s, 1, Len(s) - 1)
  BY DEF Front
<1>3. Front(s) \in Seq(S)
  BY <1>1, <1>2
<1>4. Len(Front(s)) = Len(s) - 1
  BY <1>1, <1>2
<1>5. \A k \in 1 .. Len(s) - 1 : Front(s)[k] = s[k]
  BY <1>1, <1>2
<1> QED BY <1>3, <1>4, <1>5

(* Writing the innermost frame changes the last entry of a stack and no
   other.                                                                  *)
LEMMA ReplaceLastFact ==
  ASSUME NEW S, NEW s \in Seq(S), s # <<>>, NEW f \in S
  PROVE  /\ Append(Front(s), f) \in Seq(S) /\ Len(Append(Front(s), f)) = Len(s)
         /\ DOMAIN Append(Front(s), f) = 1 .. Len(s)
         /\ \A k \in 1 .. Len(s) : Append(Front(s), f)[k] = IF k = Len(s) THEN f ELSE s[k]
<1>1. PICK n \in Nat : n + 1 = Len(s)
  <2>1. Len(s) \in Nat /\ Len(s) # 0
    OBVIOUS
  <2>2. Len(s) - 1 \in Nat /\ (Len(s) - 1) + 1 = Len(s)
    BY <2>1
  <2> QED BY <2>2
<1>2. PICK r \in Seq(S) : r = Front(s) /\ Len(r) = n /\ \A k \in 1 .. n : r[k] = s[k]
  BY <1>1, FrontFact
<1>3. /\ Append(r, f) \in Seq(S) /\ Len(Append(r, f)) = n + 1
      /\ DOMAIN Append(r, f) = 1 .. n + 1
  BY <1>1, <1>2
<1>4. \A k \in 1 .. n + 1 : Append(r, f)[k] = IF k = n + 1 THEN f ELSE r[k]
  BY <1>1, <1>2
<1>5. \A k \in 1 .. n + 1 : Append(r, f)[k] = IF k = n + 1 THEN f ELSE s[k]
  BY <1>1, <1>2, <1>4
<1> QED BY <1>1, <1>2, <1>3, <1>5

(* SetTop replaces one frame, the innermost of thread t.                   *)
LEMMA SetTopFact ==
  ASSUME stack \in Stacks, NEW t \in Threads, stack[t] # <<>>, NEW f \in FrameType, SetTop(t, f)
  PROVE  /\ stack' \in Stacks
         /\ \A u \in Threads :
              /\ Len(stack'[u]) = Len(stack[u]) /\ DOMAIN stack'[u] = DOMAIN stack[u]
              /\ \A k \in DOMAIN stack[u] :
                   stack'[u][k] = IF u = t /\ k = Len(stack[t]) THEN f ELSE stack[u][k]
<1> DEFINE s == stack[t]
<1>1. s \in Seq(FrameType) /\ s # <<>> /\ Len(s) \in Nat \ {0} /\ DOMAIN s = 1 .. Len(s)
  BY TopFact
<1>3. stack' = [stack EXCEPT ![t] = Append(Front(s), f)]
  BY DEF SetTop
<1>4. /\ Append(Front(s), f) \in Seq(FrameType) /\ Len(Append(Front(s), f)) = Len(s)
      /\ DOMAIN Append(Front(s), f) = 1 .. Len(s)
      /\ \A k \in 1 .. Len(s) : Append(Front(s), f)[k] = IF k = Len(s) THEN f ELSE s[k]
  BY <1>1, ReplaceLastFact
<1>5. stack' \in Stacks
  BY <1>3, <1>4 DEF Stacks
<1>6. ASSUME NEW u \in Threads
      PROVE  /\ Len(stack'[u]) = Len(stack[u]) /\ DOMAIN stack'[u] = DOMAIN stack[u]
             /\ \A k \in DOMAIN stack[u] :
                  stack'[u][k] = IF u = t /\ k = Len(stack[t]) THEN f ELSE stack[u][k]
  <2>1. CASE u = t
    BY <1>1, <1>3, <1>4, <2>1 DEF Stacks
  <2>2. CASE u # t
    BY <1>3, <2>2 DEF Stacks
  <2> QED BY <2>1, <2>2
<1> QED BY <1>5, <1>6

(* Push adds one frame to thread t's stack (enqueueExecution and execute
   being called).                                                          *)
LEMMA PushFact ==
  ASSUME stack \in Stacks, NEW t \in Threads, NEW f \in FrameType, Push(t, f)
  PROVE  /\ stack' \in Stacks
         /\ \A u \in Threads :
              /\ Len(stack'[u]) = IF u = t THEN Len(stack[u]) + 1 ELSE Len(stack[u])
              /\ DOMAIN stack'[u] = IF u = t THEN 1 .. Len(stack[u]) + 1 ELSE DOMAIN stack[u]
              /\ DOMAIN stack[u] = 1 .. Len(stack[u]) /\ Len(stack[u]) \in Nat
              /\ \A k \in DOMAIN stack[u] : stack'[u][k] = stack[u][k]
         /\ stack'[t][Len(stack[t]) + 1] = f
<1> DEFINE s == stack[t]
<1>1. s \in Seq(FrameType) /\ Len(s) \in Nat /\ DOMAIN s = 1 .. Len(s)
  BY DEF Stacks
<1>2. stack' = [stack EXCEPT ![t] = Append(s, f)]
  BY DEF Push
<1> HIDE DEF s
<1>3. /\ Append(s, f) \in Seq(FrameType) /\ Len(Append(s, f)) = Len(s) + 1
      /\ DOMAIN Append(s, f) = 1 .. Len(s) + 1
      /\ \A k \in 1 .. Len(s) : Append(s, f)[k] = s[k]
      /\ Append(s, f)[Len(s) + 1] = f
  BY <1>1, AppendProperties
<1> USE DEF s
<1>4. stack' \in Stacks
  BY <1>2, <1>3 DEF Stacks
<1>5. ASSUME NEW u \in Threads
      PROVE  /\ Len(stack'[u]) = IF u = t THEN Len(stack[u]) + 1 ELSE Len(stack[u])
             /\ DOMAIN stack'[u] = IF u = t THEN 1 .. Len(stack[u]) + 1 ELSE DOMAIN stack[u]
             /\ DOMAIN stack[u] = 1 .. Len(stack[u]) /\ Len(stack[u]) \in Nat
             /\ \A k \in DOMAIN stack[u] : stack'[u][k] = stack[u][k]
  <2>1. CASE u = t
    BY <1>1, <1>2, <1>3, <2>1 DEF Stacks
  <2>2. CASE u # t
    BY <1>2, <2>2 DEF Stacks
  <2> QED BY <2>1, <2>2
<1>6. stack'[t][Len(stack[t]) + 1] = f
  BY <1>2, <1>3 DEF Stacks
<1> QED BY <1>4, <1>5, <1>6

(* Pop removes the innermost frame of thread t (execute() returning).      *)
LEMMA PopFact ==
  ASSUME stack \in Stacks, NEW t \in Threads, stack[t] # <<>>, Pop(t)
  PROVE  /\ stack' \in Stacks
         /\ \A u \in Threads :
              /\ Len(stack'[u]) = IF u = t THEN Len(stack[u]) - 1 ELSE Len(stack[u])
              /\ DOMAIN stack'[u] = {k \in DOMAIN stack[u] : ~(u = t /\ k = Len(stack[t]))}
              /\ \A k \in DOMAIN stack'[u] : stack'[u][k] = stack[u][k]
<1> DEFINE s == stack[t]
<1>1. s \in Seq(FrameType) /\ s # <<>> /\ Len(s) \in Nat \ {0} /\ DOMAIN s = 1 .. Len(s)
  BY TopFact
<1>2. /\ Front(s) \in Seq(FrameType) /\ Len(Front(s)) = Len(s) - 1
      /\ \A k \in 1 .. Len(s) - 1 : Front(s)[k] = s[k]
  BY <1>1, FrontFact
<1>3. DOMAIN Front(s) = 1 .. Len(s) - 1
  BY <1>2
<1>4. stack' = [stack EXCEPT ![t] = Front(s)]
  BY DEF Pop
<1>5. stack' \in Stacks
  BY <1>2, <1>4 DEF Stacks
<1>6. ASSUME NEW u \in Threads
      PROVE  /\ Len(stack'[u]) = IF u = t THEN Len(stack[u]) - 1 ELSE Len(stack[u])
             /\ DOMAIN stack'[u] = {k \in DOMAIN stack[u] : ~(u = t /\ k = Len(stack[t]))}
             /\ \A k \in DOMAIN stack'[u] : stack'[u][k] = stack[u][k]
  <2>1. CASE u = t
    <3>1. stack'[u] = Front(s)
      BY <1>4, <2>1 DEF Stacks
    <3>2. 1 .. Len(s) - 1 = {k \in 1 .. Len(s) : k # Len(s)}
      BY <1>1
    <3> HIDE DEF s
    <3>3. stack[u] = s /\ stack[t] = s
      BY <2>1 DEF s
    <3> QED BY <1>1, <1>2, <1>3, <2>1, <3>1, <3>2, <3>3
  <2>2. CASE u # t
    BY <1>4, <2>2 DEF Stacks
  <2> QED BY <2>1, <2>2
<1> QED BY <1>5, <1>6

-----------------------------------------------------------------------------
(* Carriers: what a step of the stacks and of the pool's queue does to     *)
(* them, whatever the nodes.                                               *)

CarryStep == CarriedOnce' /\ \A h : Carried(h)' <=> Carried(h)

(* The frames carry what they carried.                                     *)
LEMMA CarrySame ==
  ASSUME CarriedOnce, poolTasks' = poolTasks,
         \A u \in Threads : DOMAIN stack'[u] = DOMAIN stack[u],
         \A u \in Threads : \A k \in DOMAIN stack[u] : \A q, h :
           Carries(stack'[u][k], q, h) <=> Carries(stack[u][k], q, h)
  PROVE  CarryStep
<1>1. \A p, h : InPool(p, h)' <=> InPool(p, h)
  BY DEF InPool
<1>2. \A t, k, q, h : InFrame(t, k, q, h)' <=> InFrame(t, k, q, h)
  BY DEF InFrame
<1> QED BY <1>1, <1>2, Zenon DEF CarryStep, CarriedOnce, Carried

(* A frame that carries one handle leaves it to the pool.                  *)
LEMMA CarryToPool ==
  ASSUME Types, CarriedOnce, NEW t \in Threads, At(t, "enqueue"), FrameOK(Top(t)),
         Pop(t), poolTasks' = Append(poolTasks, Top(t).cur)
  PROVE  CarryStep
<1>1. PICK n, m, f, c :
        /\ n = Len(stack[t]) /\ m = Len(poolTasks) + 1 /\ f = Top(t) /\ c = f.cur
  OBVIOUS
<1>2. /\ n \in DOMAIN stack[t] /\ f = stack[t][n] /\ f \in FrameType
      /\ f.at = "enqueue" /\ f.cont = NoHandle /\ f.batch = <<>>
  BY <1>1, TopFact DEF At, Types, FrameOK
<1>3. \A q, h : Carries(f, q, h) <=> q = -1 /\ h = c
  BY <1>1, <1>2 DEF Carries, valid
<1>4. \A q, h : InFrame(t, n, q, h) <=> q = -1 /\ h = c
  BY <1>2, <1>3 DEF InFrame
<1>5. \A u, k, q, h : InFrame(u, k, q, h)' <=> InFrame(u, k, q, h) /\ ~(u = t /\ k = n)
  BY <1>1, PopFact DEF At, Types, InFrame
<1>6. \A p, h : InPool(p, h)' <=> InPool(p, h) \/ (p = m /\ h = c)
  BY <1>1 DEF Types, InPool
<1>7. \A h : ~ InPool(m, h)
  BY <1>1 DEF Types, InPool
<1>8. CarriedOnce'
  <2>1. \A p, r, h : InPool(p, h)' /\ InPool(r, h)' => p = r
    BY <1>4, <1>6, <1>7 DEF CarriedOnce
  <2>2. \A p, u, k, q, h : ~(InPool(p, h)' /\ InFrame(u, k, q, h)')
    BY <1>4, <1>5, <1>6 DEF CarriedOnce
  <2>3. \A v, k, q, u, l, r, h :
          InFrame(v, k, q, h)' /\ InFrame(u, l, r, h)' => v = u /\ k = l /\ q = r
    BY <1>5 DEF CarriedOnce
  <2> QED BY <2>1, <2>2, <2>3 DEF CarriedOnce
<1>9. \A h : Carried(h)' <=> Carried(h)
  BY <1>4, <1>5, <1>6 DEF Carried
<1> QED BY <1>8, <1>9 DEF CarryStep

(* A worker takes the oldest handle of the pool.                           *)
LEMMA CarryFromPool ==
  ASSUME Types, CarriedOnce, NEW w \in Threads, stack[w] = <<>>, poolTasks # <<>>,
         Push(w, Frame("take", Head(poolTasks))), poolTasks' = Tail(poolTasks)
  PROVE  CarryStep
<1>1. PICK c, f : c = poolTasks[1] /\ f = Frame("take", Head(poolTasks))
  OBVIOUS
<1>2. /\ 1 \in DOMAIN poolTasks /\ c = Head(poolTasks) /\ c \in HandleType
      /\ Len(poolTasks) \in Nat \ {0} /\ DOMAIN poolTasks = 1 .. Len(poolTasks)
  BY <1>1 DEF Types
<1>3. f \in FrameType /\ f.cur = c /\ f.at = "take" /\ f.cont = NoHandle /\ f.batch = <<>>
  BY <1>1, <1>2, JobAssumption DEF Frame, FrameType, FrameAt, HandleType, NoHandle
<1>4. \A q, h : Carries(f, q, h) <=> q = -1 /\ h = c
  BY <1>3 DEF Carries, valid
<1>5. Push(w, f) /\ Len(stack[w]) = 0 /\ stack \in Stacks
  BY <1>1 DEF Types
<1>6. \A u, k, q, h : InFrame(u, k, q, h)' <=>
        InFrame(u, k, q, h) \/ (u = w /\ k = 1 /\ q = -1 /\ h = c)
  <2>1. \A u \in Threads : DOMAIN stack'[u] = IF u = w THEN {1} ELSE DOMAIN stack[u]
    <3>1. \A u \in Threads : DOMAIN stack'[u] = IF u = w THEN 1 .. Len(stack[w]) + 1 ELSE DOMAIN stack[u]
      BY <1>3, <1>5, PushFact
    <3>2. 1 .. Len(stack[w]) + 1 = {1}
      BY <1>5
    <3> QED BY <3>1, <3>2
  <2>2. stack'[w][1] = f /\ DOMAIN stack[w] = {}
    BY <1>3, <1>5, PushFact
  <2>3. \A u \in Threads : \A k \in DOMAIN stack[u] : stack'[u][k] = stack[u][k]
    BY <1>3, <1>5, PushFact
  <2> QED BY <1>4, <2>1, <2>2, <2>3 DEF InFrame
<1>7. \A k, q, h : ~ InFrame(w, k, q, h)
  BY <1>5 DEF InFrame
<1>8. \A p, h : InPool(p, h)' <=> p \in Nat \ {0} /\ InPool(p + 1, h)
  BY <1>2 DEF Types, InPool
<1>9. \A h : InPool(1, h) <=> h = c
  BY <1>1, <1>2 DEF InPool
<1>10. \A p, h : InPool(p, h) => p = 1 \/ \E r \in Nat \ {0} : p = r + 1
  <2>1. SUFFICES ASSUME NEW p, NEW h, InPool(p, h), p # 1 PROVE \E r \in Nat \ {0} : p = r + 1
    OBVIOUS
  <2>2. p \in 1 .. Len(poolTasks)
    BY <1>2, <2>1 DEF InPool
  <2>3. p - 1 \in Nat \ {0} /\ p = (p - 1) + 1
    BY <1>2, <2>1, <2>2
  <2> QED BY <2>3
<1>11. CarriedOnce'
  <2>1. ASSUME NEW p, NEW r, NEW h, InPool(p, h)', InPool(r, h)' PROVE p = r
    <3>1. p \in Nat /\ r \in Nat /\ p + 1 = r + 1
      BY <1>8, <2>1 DEF CarriedOnce
    <3> QED BY <3>1
  <2>2. ASSUME NEW p, NEW u, NEW k, NEW q, NEW h, InPool(p, h)', InFrame(u, k, q, h)' PROVE FALSE
    <3>1. p \in Nat \ {0} /\ InPool(p + 1, h) /\ p + 1 # 1
      BY <1>8, <2>2
    <3>2. ~ InFrame(u, k, q, h) /\ h # c
      BY <1>9, <3>1 DEF CarriedOnce
    <3> QED BY <1>6, <2>2, <3>2
  <2>3. \A v, k, q, u, l, r, h :
          InFrame(v, k, q, h)' /\ InFrame(u, l, r, h)' => v = u /\ k = l /\ q = r
    BY <1>6, <1>7, <1>9 DEF CarriedOnce
  <2> QED BY <2>1, <2>2, <2>3 DEF CarriedOnce
<1>12. ASSUME NEW h PROVE Carried(h)' <=> Carried(h)
  <2>1. (\E p : InPool(p, h)) <=> h = c \/ \E r : InPool(r, h)'
    BY <1>8, <1>9, <1>10
  <2>2. (\E u, k, q : InFrame(u, k, q, h)') <=> h = c \/ \E u, k, q : InFrame(u, k, q, h)
    BY <1>6
  <2> QED BY <2>1, <2>2 DEF Carried
<1> QED BY <1>11, <1>12 DEF CarryStep

(* The frame of an execute() round that is over: the inline continuation,  *)
(* or the end.                                                             *)
LEMMA CarryContinue ==
  ASSUME Types, CarriedOnce, NEW t \in Threads, At(t, "retire") \/ At(t, "retireNotify"),
         FrameOK(Top(t)), Continue(t), poolTasks' = poolTasks
  PROVE  CarryStep
<1>1. PICK n, f : n = Len(stack[t]) /\ f = Top(t)
  OBVIOUS
<1>2. /\ n \in DOMAIN stack[t] /\ f = stack[t][n] /\ f \in FrameType /\ f.batch = <<>>
      /\ f.at \in {"retire", "retireNotify"} /\ stack[t] # <<>> /\ stack \in Stacks
  BY <1>1, TopFact DEF At, Types, FrameOK
<1>3. \A q, h : Carries(f, q, h) <=> q = 0 /\ valid(f.cont) /\ h = f.cont
  BY <1>2 DEF Carries
<1>4. \A q, h : InFrame(t, n, q, h) <=> q = 0 /\ valid(f.cont) /\ h = f.cont
  BY <1>2, <1>3 DEF InFrame
<1>5. \A p, h : InPool(p, h)' <=> InPool(p, h)
  BY DEF InPool
<1>6. CASE ~ valid(f.cont)
  <2>1. Pop(t)
    BY <1>1, <1>6 DEF Continue
  <2>2. \A u, k, q, h : InFrame(u, k, q, h)' <=> InFrame(u, k, q, h) /\ ~(u = t /\ k = n)
    BY <1>1, <1>2, <2>1, PopFact DEF InFrame
  <2>3. \A u, k, q, h : InFrame(u, k, q, h)' <=> InFrame(u, k, q, h)
    BY <1>4, <1>6, <2>2
  <2> QED BY <1>5, <2>3, Zenon DEF CarryStep, CarriedOnce, Carried
<1>7. CASE valid(f.cont)
  <2>1. PICK g : g = [Frame("take", f.cont) EXCEPT !.depth = f.depth + 1]
    OBVIOUS
  <2>2. SetTop(t, g)
    BY <1>1, <1>7, <2>1 DEF Continue
  <2>3. g \in FrameType
    <3>1. f.depth \in 0 .. s_WorkFirstDepthLimit /\ f.depth < s_WorkFirstDepthLimit /\ f.cont \in HandleType
      BY <1>1, <1>2, <1>7 DEF FrameType, FrameOK
    <3>2. f.depth + 1 \in 0 .. s_WorkFirstDepthLimit
      BY <3>1, JobAssumption
    <3>3. g = [at |-> "take", cur |-> f.cont, depth |-> f.depth + 1, fn |-> 0,
               cont |-> NoHandle, batch |-> <<>>]
      BY <2>1 DEF Frame
    <3>4. NoHandle \in HandleType /\ <<>> \in Seq(HandleType) /\ 0 \in 0 .. MaxJobs
      BY JobAssumption DEF HandleType, NoHandle
    <3> QED BY <3>1, <3>2, <3>3, <3>4 DEF FrameType, FrameAt
  <2>4. \A q, h : Carries(g, q, h) <=> q = -1 /\ h = f.cont
    BY <2>1 DEF Frame, Carries, valid
  <2>5. \A u, k, q, h : InFrame(u, k, q, h)' <=>
          (InFrame(u, k, q, h) /\ ~(u = t /\ k = n)) \/ (u = t /\ k = n /\ q = -1 /\ h = f.cont)
    BY <1>1, <1>2, <2>2, <2>3, <2>4, SetTopFact DEF InFrame
  <2>6. CarriedOnce'
    <3>1. \A p, u, k, q, h : ~(InPool(p, h)' /\ InFrame(u, k, q, h)')
      BY <1>4, <1>5, <1>7, <2>5 DEF CarriedOnce
    <3>2. \A v, k, q, u, l, r, h :
            InFrame(v, k, q, h)' /\ InFrame(u, l, r, h)' => v = u /\ k = l /\ q = r
      BY <1>4, <1>7, <2>5 DEF CarriedOnce
    <3> QED BY <1>5, <3>1, <3>2 DEF CarriedOnce
  <2>7. ASSUME NEW h PROVE Carried(h)' <=> Carried(h)
    <3>1. CASE h = f.cont
      <4>1. InFrame(t, n, 0, h) /\ InFrame(t, n, -1, h)'
        BY <1>4, <1>7, <2>5, <3>1
      <4> QED BY <4>1 DEF Carried
    <3>2. CASE h # f.cont
      <4>1. \A u, k, q : InFrame(u, k, q, h)' <=> InFrame(u, k, q, h)
        BY <1>4, <2>5, <3>2
      <4> QED BY <1>5, <4>1 DEF Carried
    <3> QED BY <3>1, <3>2
  <2> QED BY <2>6, <2>7 DEF CarryStep
<1> QED BY <1>6, <1>7

(* The top frame is changed and a new one put on it.                       *)
SetTopPush(t, f, g) == stack' = [stack EXCEPT ![t] = Front(@) \o <<f, g>>]

(* enqueueExecutionBatch without workers rewrites the innermost frame and
   calls execute() on top of it.                                           *)
LEMMA SetTopPushFact ==
  ASSUME stack \in Stacks, NEW t \in Threads, stack[t] # <<>>, NEW f \in FrameType, NEW g \in FrameType,
         SetTopPush(t, f, g)
  PROVE  /\ stack' \in Stacks
         /\ \A u \in Threads :
              /\ DOMAIN stack'[u] = IF u = t THEN 1 .. Len(stack[t]) + 1 ELSE DOMAIN stack[u]
              /\ \A k \in DOMAIN stack[u] :
                   stack'[u][k] = IF u = t /\ k = Len(stack[t]) THEN f ELSE stack[u][k]
         /\ stack'[t][Len(stack[t]) + 1] = g
<1>1. PICK s \in Seq(FrameType) : s = stack[t] /\ s # <<>> /\ DOMAIN s = 1 .. Len(s)
  BY DEF Stacks
<1>a. PICK r \in Seq(FrameType) : r = Append(Front(s), f)
  BY <1>1, ReplaceLastFact
<1>b. /\ Len(r) = Len(s) /\ DOMAIN r = 1 .. Len(s)
      /\ \A k \in 1 .. Len(s) : r[k] = IF k = Len(s) THEN f ELSE s[k]
  BY <1>1, <1>a, ReplaceLastFact
<1>c. PICK z : z = Append(r, g)
  OBVIOUS
<1>d. Front(s) \o <<f, g>> = z
  <2>1. PICK e \in Seq(FrameType) : e = Front(s)
    BY <1>1, FrontFact
  <2>2. e \o <<f, g>> = Append(Append(e, f), g)
    OBVIOUS
  <2> QED BY <1>a, <1>c, <2>1, <2>2
<1>2. /\ z \in Seq(FrameType) /\ DOMAIN z = 1 .. Len(s) + 1
      /\ \A k \in 1 .. Len(s) : z[k] = IF k = Len(s) THEN f ELSE s[k]
      /\ z[Len(s) + 1] = g
  <2>1. z \in Seq(FrameType) /\ DOMAIN z = 1 .. Len(s) + 1 /\ z[Len(s) + 1] = g
    BY <1>a, <1>b, <1>c
  <2>2. \A k \in 1 .. Len(s) : z[k] = r[k]
    BY <1>a, <1>b, <1>c
  <2> QED BY <1>b, <2>1, <2>2
<1>3. stack' = [stack EXCEPT ![t] = z]
  BY <1>1, <1>d DEF SetTopPush
<1>4. stack' \in Stacks /\ stack'[t] = z
  BY <1>2, <1>3 DEF Stacks
<1>5. \A u \in Threads : u # t => stack'[u] = stack[u]
  BY <1>3 DEF Stacks
<1>6. ASSUME NEW u \in Threads
      PROVE  /\ DOMAIN stack'[u] = IF u = t THEN 1 .. Len(stack[t]) + 1 ELSE DOMAIN stack[u]
             /\ \A k \in DOMAIN stack[u] :
                  stack'[u][k] = IF u = t /\ k = Len(stack[t]) THEN f ELSE stack[u][k]
  <2>1. CASE u = t
    BY <1>1, <1>2, <1>4, <2>1
  <2>2. CASE u # t
    BY <1>5, <2>2
  <2> QED BY <2>1, <2>2
<1>7. stack'[t][Len(stack[t]) + 1] = g
  BY <1>1, <1>2, <1>4
<1> QED BY <1>4, <1>6, <1>7

(* A frame made by Frame is well typed and carries its job alone.          *)
LEMMA FrameFact ==
  ASSUME NEW at \in FrameAt, NEW h \in HandleType
  PROVE  /\ Frame(at, h) \in FrameType /\ Frame(at, h).at = at /\ Frame(at, h).cur = h
         /\ Frame(at, h).depth = 0 /\ Frame(at, h).fn = 0 /\ Frame(at, h).cont = NoHandle
         /\ Frame(at, h).batch = <<>>
<1>1. NoHandle \in HandleType /\ <<>> \in Seq(HandleType) /\ 0 \in 0 .. MaxJobs
      /\ 0 \in 0 .. s_WorkFirstDepthLimit
  BY JobAssumption DEF HandleType, NoHandle
<1> QED BY <1>1 DEF Frame, FrameType

(* Without workers the batch is run one by one, on the same stack.         *)
LEMMA CarryBatchHere ==
  ASSUME Types, CarriedOnce, NEW t \in Threads, At(t, "batch"), Top(t).batch # <<>>,
         stack' = [stack EXCEPT ![t] = Front(@) \o <<[Top(t) EXCEPT !.batch = Tail(@)],
                                                     Frame("take", Head(Top(t).batch))>>],
         poolTasks' = poolTasks
  PROVE  CarryStep
<1>1. PICK n, f, b : n = Len(stack[t]) /\ f = Top(t) /\ b = f.batch
  OBVIOUS
<1>2. /\ n \in DOMAIN stack[t] /\ n \in Nat \ {0} /\ f = stack[t][n] /\ f \in FrameType
      /\ f.at = "batch" /\ stack[t] # <<>> /\ stack \in Stacks
      /\ DOMAIN stack[t] = 1 .. n
  BY <1>1, TopFact DEF At, Types
<1>3. b \in Seq(HandleType) /\ b # <<>> /\ Len(b) \in Nat \ {0} /\ DOMAIN b = 1 .. Len(b)
      /\ Head(b) = b[1] /\ b[1] \in HandleType
  BY <1>1, <1>2 DEF FrameType
<1>4. /\ Tail(b) \in Seq(HandleType) /\ DOMAIN Tail(b) = 1 .. Len(b) - 1
      /\ \A q \in 1 .. Len(b) - 1 : Tail(b)[q] = b[q + 1]
  BY <1>3
<1>5. PICK f2, g : f2 = [f EXCEPT !.batch = Tail(b)] /\ g = Frame("take", b[1])
  OBVIOUS
<1>6. /\ f2 \in FrameType /\ f2.batch = Tail(b) /\ f2.at = "batch" /\ f2.cont = f.cont
      /\ g \in FrameType /\ g.at = "take" /\ g.cur = b[1] /\ g.cont = NoHandle /\ g.batch = <<>>
  <2>1. /\ f2 \in FrameType /\ f2.batch = Tail(b) /\ f2.at = "batch" /\ f2.cont = f.cont
    BY <1>2, <1>4, <1>5 DEF FrameType
  <2>2. "take" \in FrameAt
    BY DEF FrameAt
  <2> QED BY <1>3, <1>5, <2>1, <2>2, FrameFact
<1>7. \A q, h : Carries(g, q, h) <=> q = -1 /\ h = b[1]
  BY <1>6 DEF Carries, valid
<1>8. \A q, h : Carries(f, q, h) <=>
        \/ q = 0 /\ valid(f.cont) /\ f.cont = h
        \/ q \in DOMAIN b /\ b[q] = h
  BY <1>1, <1>2 DEF Carries
<1>9. \A q, h : Carries(f2, q, h) <=>
        \/ q = 0 /\ Carries(f, 0, h)
        \/ q \in Nat \ {0} /\ Carries(f, q + 1, h)
  <2>1. \A q, h : Carries(f2, q, h) <=>
          \/ q = 0 /\ valid(f.cont) /\ f.cont = h
          \/ q \in 1 .. Len(b) - 1 /\ b[q + 1] = h
    BY <1>4, <1>6 DEF Carries
  <2>2. \A q : q \in 1 .. Len(b) - 1 <=> q \in Nat \ {0} /\ q + 1 \in 1 .. Len(b)
    BY <1>3
  <2>3. \A h : Carries(f, 0, h) <=> valid(f.cont) /\ f.cont = h
    BY <1>3, <1>8
  <2>4. \A q \in Nat \ {0} : \A h : Carries(f, q + 1, h) <=> q + 1 \in 1 .. Len(b) /\ b[q + 1] = h
    BY <1>3, <1>8
  <2> QED BY <2>1, <2>2, <2>3, <2>4
<1>10. SetTopPush(t, f2, g)
  BY <1>1, <1>3, <1>5 DEF SetTopPush
<1>11. /\ \A u \in Threads :
            /\ DOMAIN stack'[u] = IF u = t THEN 1 .. n + 1 ELSE DOMAIN stack[u]
            /\ \A k \in DOMAIN stack[u] : stack'[u][k] = IF u = t /\ k = n THEN f2 ELSE stack[u][k]
       /\ stack'[t][n + 1] = g
  <2>1. f2 \in FrameType /\ g \in FrameType /\ stack[t] # <<>> /\ stack \in Stacks
    BY <1>2, <1>6
  <2>2. /\ \A u \in Threads :
            /\ DOMAIN stack'[u] = IF u = t THEN 1 .. Len(stack[t]) + 1 ELSE DOMAIN stack[u]
            /\ \A k \in DOMAIN stack[u] : stack'[u][k] = IF u = t /\ k = Len(stack[t]) THEN f2 ELSE stack[u][k]
       /\ stack'[t][Len(stack[t]) + 1] = g
    BY <1>10, <2>1, SetTopPushFact
  <2> QED BY <1>1, <2>2
<1>12. \A u, k, q, h : InFrame(u, k, q, h)' <=>
         \/ InFrame(u, k, q, h) /\ ~(u = t /\ k = n)
         \/ u = t /\ k = n /\ Carries(f2, q, h)
         \/ u = t /\ k = n + 1 /\ q = -1 /\ h = b[1]
  <2>1. n + 1 \notin 1 .. n /\ \A k \in 1 .. n + 1 : k \in 1 .. n \/ k = n + 1
    BY <1>2
  <2>2. 1 .. n \subseteq 1 .. n + 1 /\ n \in 1 .. n /\ n + 1 \in 1 .. n + 1 /\ n # n + 1
    BY <1>2
  <2>3. ASSUME NEW k, NEW q, NEW h
        PROVE  InFrame(t, k, q, h)' <=>
                 \/ InFrame(t, k, q, h) /\ k # n
                 \/ k = n /\ Carries(f2, q, h)
                 \/ k = n + 1 /\ q = -1 /\ h = b[1]
    <3>1. k \in DOMAIN stack'[t] <=> k \in 1 .. n \/ k = n + 1
      BY <1>11, <2>1, <2>2
    <3>2. CASE k = n + 1
      <4>1. InFrame(t, k, q, h)' <=> Carries(g, q, h)
        BY <1>11, <3>1, <3>2 DEF InFrame
      <4>2. ~ InFrame(t, k, q, h) /\ k # n
        BY <1>2, <2>1, <2>2, <3>2 DEF InFrame
      <4> QED BY <1>7, <3>2, <4>1, <4>2
    <3>3. CASE k = n
      <4>1. InFrame(t, k, q, h)' <=> Carries(f2, q, h)
        BY <1>2, <1>11, <2>2, <3>1, <3>3 DEF InFrame
      <4> QED BY <2>2, <3>3, <4>1
    <3>4. CASE k # n /\ k # n + 1
      BY <1>2, <1>11, <3>1, <3>4 DEF InFrame
    <3> QED BY <3>2, <3>3, <3>4
  <2>4. ASSUME NEW u, NEW k, NEW q, NEW h, u # t
        PROVE  InFrame(u, k, q, h)' <=> InFrame(u, k, q, h)
    BY <1>11, <2>4 DEF InFrame
  <2> QED BY <2>3, <2>4
<1>13. \A q, h : InFrame(t, n, q, h) <=> Carries(f, q, h)
  BY <1>2 DEF InFrame
<1>14. \A h : Carries(f, 1, h) <=> h = b[1]
  BY <1>3, <1>8
<1>15. \A p, h : InPool(p, h)' <=> InPool(p, h)
  BY DEF InPool
<1>16. \A q, h : InFrame(t, n + 1, q, h) => FALSE
  BY <1>2 DEF InFrame
<1>17. CarriedOnce'
  <2>1. \A p, r, h : InPool(p, h)' /\ InPool(r, h)' => p = r
    BY <1>15 DEF CarriedOnce
  <2>2. \A q, h : Carries(f2, q, h) => \E r : InFrame(t, n, r, h) /\ r # 1
    <3>1. \A q \in Nat \ {0} : q + 1 # 1
      OBVIOUS
    <3> QED BY <1>9, <1>13, <3>1
  <2>3. \A p, u, k, q, h : ~(InPool(p, h)' /\ InFrame(u, k, q, h)')
    <3>1. ASSUME NEW p, NEW u, NEW k, NEW q, NEW h, InPool(p, h), InFrame(u, k, q, h)' PROVE FALSE
      <4>1. \A x, y, z : ~ InFrame(x, y, z, h)
        BY <3>1 DEF CarriedOnce
      <4>2. h # b[1] /\ ~ Carries(f2, q, h)
        BY <1>13, <1>14, <2>2, <4>1
      <4> QED BY <1>12, <3>1, <4>1, <4>2
    <3> QED BY <1>15, <3>1
  <2>4. ASSUME NEW q, NEW r, NEW h, Carries(f2, q, h), Carries(f2, r, h) PROVE q = r
    <3>1. \A v, w : Carries(f, v, h) /\ Carries(f, w, h) => v = w
      BY <1>13 DEF CarriedOnce
    <3>2. \A v \in Nat \ {0} : v + 1 # 0
      OBVIOUS
    <3>3. \A v, w \in Nat \ {0} : v + 1 = w + 1 => v = w
      OBVIOUS
    <3> QED BY <1>9, <2>4, <3>1, <3>2, <3>3
  <2>5. \A q : ~ Carries(f2, q, b[1])
    <3>1. InFrame(t, n, 1, b[1])
      BY <1>13, <1>14
    <3>2. \A r : InFrame(t, n, r, b[1]) => r = 1
      BY <3>1 DEF CarriedOnce
    <3> QED BY <2>2, <3>2
  <2>6. ASSUME NEW v, NEW k, NEW q, NEW u, NEW l, NEW r, NEW h,
               InFrame(v, k, q, h)', InFrame(u, l, r, h)'
        PROVE  v = u /\ k = l /\ q = r
    <3>1. \A x, y, z : InFrame(x, y, z, h) /\ ~(x = t /\ y = n) => ~ \E o : Carries(f2, o, h)
      BY <2>2 DEF CarriedOnce
    <3>2. \A x, y, z : InFrame(x, y, z, h) /\ ~(x = t /\ y = n) => h # b[1]
      BY <1>13, <1>14 DEF CarriedOnce
    <3>3. InFrame(v, k, q, h) /\ InFrame(u, l, r, h) => v = u /\ k = l /\ q = r
      BY DEF CarriedOnce
    <3> QED BY <1>12, <2>4, <2>5, <2>6, <3>1, <3>2, <3>3
  <2> QED BY <2>1, <2>3, <2>6 DEF CarriedOnce
<1>18. ASSUME NEW h PROVE Carried(h)' <=> Carried(h)
  <2>1. CASE h = b[1]
    <3>1. InFrame(t, n, 1, h) /\ InFrame(t, n + 1, -1, h)'
      BY <1>12, <1>13, <1>14, <2>1
    <3> QED BY <3>1 DEF Carried
  <2>2. CASE h # b[1]
    <3>1. (\E q : Carries(f2, q, h)) <=> \E q : Carries(f, q, h)
      <4>1. ASSUME NEW q, Carries(f, q, h) PROVE \E r : Carries(f2, r, h)
        <5>1. q = 0 \/ q \in 2 .. Len(b)
          BY <1>3, <1>8, <2>2, <4>1
        <5>2. CASE q = 0
          BY <1>9, <4>1, <5>2
        <5>3. CASE q \in 2 .. Len(b)
          <6>1. q - 1 \in Nat \ {0} /\ (q - 1) + 1 = q
            BY <1>3, <5>3
          <6> QED BY <1>9, <4>1, <6>1
        <5> QED BY <5>1, <5>2, <5>3
      <4> QED BY <1>9, <4>1
    <3>2. (\E u, k, q : InFrame(u, k, q, h)') <=> \E u, k, q : InFrame(u, k, q, h)
      <4>1. \A u, k, q : ~(u = t /\ k = n) => (InFrame(u, k, q, h)' <=> InFrame(u, k, q, h))
        BY <1>12, <1>16, <2>2
      <4>2. \A q : InFrame(t, n, q, h)' <=> Carries(f2, q, h)
        BY <1>12, <2>2
      <4>3. (\E q : InFrame(t, n, q, h)') <=> \E q : InFrame(t, n, q, h)
        BY <1>13, <3>1, <4>2
      <4> QED BY <4>1, <4>3
    <3> QED BY <1>15, <3>2 DEF Carried
  <2> QED BY <2>1, <2>2
<1> QED BY <1>17, <1>18 DEF CarryStep

(* The batch goes to the pool.                                             *)
LEMMA CarryBatchToPool ==
  ASSUME Types, CarriedOnce, NEW t \in Threads, At(t, "batch"),
         SetTop(t, [Top(t) EXCEPT !.at = "retire", !.batch = <<>>]),
         poolTasks' = poolTasks \o Top(t).batch
  PROVE  CarryStep
<1>1. PICK n, m, f, b : n = Len(stack[t]) /\ m = Len(poolTasks) /\ f = Top(t) /\ b = f.batch
  OBVIOUS
<1>2. /\ n \in DOMAIN stack[t] /\ n \in Nat \ {0} /\ f = stack[t][n] /\ f \in FrameType
      /\ f.at = "batch" /\ stack[t] # <<>> /\ stack \in Stacks
  BY <1>1, TopFact DEF At, Types
<1>3. b \in Seq(HandleType) /\ Len(b) \in Nat /\ DOMAIN b = 1 .. Len(b)
  BY <1>1, <1>2 DEF FrameType
<1>4. PICK g : g = [f EXCEPT !.at = "retire", !.batch = <<>>]
  OBVIOUS
<1>5. g \in FrameType /\ g.at = "retire" /\ g.batch = <<>> /\ g.cont = f.cont
  <2>1. "retire" \in FrameAt
    BY DEF FrameAt
  <2>2. <<>> \in Seq(HandleType)
    OBVIOUS
  <2>3. g \in FrameType /\ g.at = "retire" /\ g.cont = f.cont
    BY <1>2, <1>4, <2>1, <2>2 DEF FrameType
  <2>4. g.batch = <<>>
    BY <1>2, <1>4 DEF FrameType
  <2> QED BY <2>3, <2>4
<1>6. \A q, h : Carries(f, q, h) <=>
        \/ q = 0 /\ valid(f.cont) /\ f.cont = h
        \/ q \in 1 .. Len(b) /\ b[q] = h
  BY <1>1, <1>2, <1>3 DEF Carries
<1>7. \A q, h : Carries(g, q, h) <=> q = 0 /\ Carries(f, q, h)
  <2>1. \A q, h : Carries(g, q, h) <=> q = 0 /\ valid(f.cont) /\ f.cont = h
    BY <1>5 DEF Carries
  <2>2. 0 \notin 1 .. Len(b)
    BY <1>3
  <2> QED BY <1>6, <2>1, <2>2
<1>8. SetTop(t, g)
  BY <1>1, <1>4
<1>9. \A u \in Threads :
        /\ DOMAIN stack'[u] = DOMAIN stack[u]
        /\ \A k \in DOMAIN stack[u] :
             stack'[u][k] = IF u = t /\ k = n THEN g ELSE stack[u][k]
  <2>1. stack[t] # <<>> /\ stack \in Stacks /\ g \in FrameType
    BY <1>2, <1>5
  <2>2. \A u \in Threads :
          /\ DOMAIN stack'[u] = DOMAIN stack[u]
          /\ \A k \in DOMAIN stack[u] :
               stack'[u][k] = IF u = t /\ k = Len(stack[t]) THEN g ELSE stack[u][k]
    BY <1>8, <2>1, SetTopFact
  <2> QED BY <1>1, <2>2
<1>10. \A q, h : InFrame(t, n, q, h) <=> Carries(f, q, h)
  BY <1>2 DEF InFrame
<1>11. \A u, k, q, h : InFrame(u, k, q, h)' <=>
         InFrame(u, k, q, h) /\ (u = t /\ k = n => q = 0)
  <2>1. ASSUME NEW u, NEW k, NEW q, NEW h, ~(u = t /\ k = n)
        PROVE  InFrame(u, k, q, h)' <=> InFrame(u, k, q, h)
    BY <1>9, <2>1 DEF InFrame
  <2>2. ASSUME NEW q, NEW h PROVE InFrame(t, n, q, h)' <=> Carries(g, q, h)
    BY <1>2, <1>9 DEF InFrame
  <2> QED BY <1>7, <1>10, <2>1, <2>2
<1>12. \A p, h : InPool(p, h)' <=>
         InPool(p, h) \/ \E q \in 1 .. Len(b) : p = m + q /\ b[q] = h
  <2>1. PICK a \in Seq(HandleType) : a = poolTasks /\ Len(a) = m /\ m \in Nat /\ DOMAIN a = 1 .. m
    BY <1>1 DEF Types
  <2>2. poolTasks' = a \o b
    BY <1>1, <2>1
  <2>3. /\ DOMAIN (a \o b) = 1 .. m + Len(b)
        /\ \A p \in 1 .. m : (a \o b)[p] = a[p]
    BY <1>3, <2>1
  <2>4. \A q \in 1 .. Len(b) : (a \o b)[m + q] = b[q] /\ m + q \in 1 .. m + Len(b)
    BY <1>3, <2>1
  <2>5. \A p \in 1 .. m + Len(b) : p \in 1 .. m \/ \E q \in 1 .. Len(b) : p = m + q
    <3>1. SUFFICES ASSUME NEW p \in 1 .. m + Len(b), p \notin 1 .. m PROVE \E q \in 1 .. Len(b) : p = m + q
      OBVIOUS
    <3>2. p - m \in 1 .. Len(b) /\ p = m + (p - m)
      BY <1>3, <2>1, <3>1
    <3> QED BY <3>2
  <2>6. 1 .. m \subseteq 1 .. m + Len(b)
    BY <1>3, <2>1
  <2>7. ASSUME NEW p, NEW h PROVE InPool(p, h)' <=> p \in 1 .. m + Len(b) /\ (a \o b)[p] = h
    BY <2>2, <2>3 DEF InPool
  <2>8. ASSUME NEW p, NEW h PROVE InPool(p, h) <=> p \in 1 .. m /\ a[p] = h
    BY <2>1 DEF InPool
  <2> QED BY <2>3, <2>4, <2>5, <2>6, <2>7, <2>8
<1>13. m \in Nat /\ \A p, h : InPool(p, h) => p \in 1 .. m
  BY <1>1 DEF Types, InPool
<1>14. \A q \in 1 .. Len(b) : InFrame(t, n, q, b[q]) /\ q # 0
  BY <1>3, <1>6, <1>10
<1>15. CarriedOnce'
  <2>1. ASSUME NEW p, NEW r, NEW h, InPool(p, h)', InPool(r, h)' PROVE p = r
    <3>1. CASE InPool(p, h)
      <4>1. \A q \in 1 .. Len(b) : b[q] # h
        BY <1>14, <3>1 DEF CarriedOnce
      <4>2. InPool(r, h)
        BY <1>12, <2>1, <4>1
      <4> QED BY <3>1, <4>2 DEF CarriedOnce
    <3>2. CASE ~ InPool(p, h)
      <4>1. PICK q \in 1 .. Len(b) : p = m + q /\ b[q] = h
        BY <1>12, <2>1, <3>2
      <4>2. ~ InPool(r, h)
        BY <1>14, <4>1 DEF CarriedOnce
      <4>3. PICK v \in 1 .. Len(b) : r = m + v /\ b[v] = h
        BY <1>12, <2>1, <4>2
      <4>4. q = v
        BY <1>14, <4>1, <4>3 DEF CarriedOnce
      <4> QED BY <4>1, <4>3, <4>4
    <3> QED BY <3>1, <3>2
  <2>2. ASSUME NEW p, NEW u, NEW k, NEW q, NEW h, InPool(p, h)', InFrame(u, k, q, h)' PROVE FALSE
    <3>1. InFrame(u, k, q, h) /\ (u = t /\ k = n => q = 0)
      BY <1>11, <2>2
    <3>2. ~ InPool(p, h)
      BY <3>1 DEF CarriedOnce
    <3>3. PICK v \in 1 .. Len(b) : p = m + v /\ b[v] = h
      BY <1>12, <2>2, <3>2
    <3>4. InFrame(t, n, v, h) /\ v # 0
      BY <1>14, <3>3
    <3>5. u = t /\ k = n /\ q = v
      BY <3>1, <3>4 DEF CarriedOnce
    <3> QED BY <3>1, <3>4, <3>5
  <2>3. \A v, k, q, u, l, r, h :
          InFrame(v, k, q, h)' /\ InFrame(u, l, r, h)' => v = u /\ k = l /\ q = r
    BY <1>11 DEF CarriedOnce
  <2> QED BY <2>1, <2>2, <2>3 DEF CarriedOnce
<1>16. ASSUME NEW h PROVE Carried(h)' <=> Carried(h)
  <2>1. CASE \E q \in 1 .. Len(b) : b[q] = h
    <3>1. PICK q \in 1 .. Len(b) : b[q] = h
      BY <2>1
    <3>2. InFrame(t, n, q, h) /\ InPool(m + q, h)'
      BY <1>12, <1>14, <3>1
    <3> QED BY <3>2 DEF Carried
  <2>2. CASE ~ \E q \in 1 .. Len(b) : b[q] = h
    <3>1. \A p : InPool(p, h)' <=> InPool(p, h)
      BY <1>12, <2>2
    <3>2. \A u, k, q : InFrame(u, k, q, h)' <=> InFrame(u, k, q, h)
      BY <1>6, <1>10, <1>11, <2>2
    <3> QED BY <3>1, <3>2 DEF Carried
  <2> QED BY <2>1, <2>2
<1> QED BY <1>15, <1>16 DEF CarryStep
-----------------------------------------------------------------------------
(* The frame at a place of a stack keeps what the invariant says of it.    *)
Keeps(u, k) == \A f : f = stack[u][k] => FrameOK(f)' /\ FrameDue(f)'

(* Steps of a stack keep the invariant of the frames.                      *)
LEMMA StackSetTop ==
  ASSUME stack \in Stacks, Frames, NEW t \in Threads, stack[t] # <<>>, NEW g \in FrameType, SetTop(t, g),
         \A u \in Threads : \A k \in DOMAIN stack[u] : Keeps(u, k) \/ (u = t /\ k = Len(stack[t])),
         FrameOK(g)', FrameDue(g)',
         \A u \in Threads : \A k \in DOMAIN stack[u] :
           stack[u][k].fn = g.fn /\ g.fn # 0 => u = t /\ k = Len(stack[t])
  PROVE  stack' \in Stacks /\ Frames'
<1>1. /\ stack' \in Stacks
      /\ \A u \in Threads :
              /\ DOMAIN stack'[u] = DOMAIN stack[u]
              /\ \A k \in DOMAIN stack[u] :
                   stack'[u][k] = IF u = t /\ k = Len(stack[t]) THEN g ELSE stack[u][k]
  BY SetTopFact
<1>2. ASSUME NEW u \in Threads, NEW k \in DOMAIN stack'[u]
      PROVE  (FrameOK(stack[u][k]) /\ FrameDue(stack[u][k]))'
  <2>1. PICK f : f = stack'[u][k]
    OBVIOUS
  <2>2. FrameOK(f)' /\ FrameDue(f)'
    BY <1>1, <2>1 DEF Keeps
  <2> QED BY <2>1, <2>2
<1>3. ASSUME NEW u \in Threads, NEW v \in Threads, NEW k \in DOMAIN stack'[u], NEW l \in DOMAIN stack'[v],
             stack'[u][k].fn = stack'[v][l].fn, stack'[u][k].fn # 0
      PROVE  u = v /\ k = l
  BY <1>1, <1>3 DEF Frames
<1> QED BY <1>1, <1>2, <1>3 DEF Frames

(* Calling execute() or enqueueExecution() keeps the frame invariant if
   the new frame satisfies it and the step is harmless to the others.      *)
LEMMA StackPush ==
  ASSUME stack \in Stacks, Frames, NEW t \in Threads, NEW g \in FrameType, Push(t, g),
         \A u \in Threads : \A k \in DOMAIN stack[u] : Keeps(u, k),
         FrameOK(g)', FrameDue(g)', g.fn = 0
  PROVE  stack' \in Stacks /\ Frames'
<1>1. /\ stack' \in Stacks
      /\ \A u \in Threads :
              /\ DOMAIN stack'[u] = IF u = t THEN 1 .. Len(stack[u]) + 1 ELSE DOMAIN stack[u]
              /\ DOMAIN stack[u] = 1 .. Len(stack[u]) /\ Len(stack[u]) \in Nat
              /\ \A k \in DOMAIN stack[u] : stack'[u][k] = stack[u][k]
      /\ stack'[t][Len(stack[t]) + 1] = g
  BY PushFact
<1>a. \A u \in Threads : \A k \in DOMAIN stack'[u] :
        k \in DOMAIN stack[u] \/ (u = t /\ k = Len(stack[t]) + 1)
  <2>1. \A n \in Nat : \A k \in 1 .. n + 1 : k \in 1 .. n \/ k = n + 1
    OBVIOUS
  <2> QED BY <1>1, <2>1
<1>2. ASSUME NEW u \in Threads, NEW k \in DOMAIN stack'[u]
      PROVE  (FrameOK(stack[u][k]) /\ FrameDue(stack[u][k]))'
  <2>1. PICK f : f = stack'[u][k]
    OBVIOUS
  <2>2. FrameOK(f)' /\ FrameDue(f)'
    BY <1>1, <1>a, <2>1 DEF Keeps
  <2> QED BY <2>1, <2>2
<1>3. ASSUME NEW u \in Threads, NEW v \in Threads, NEW k \in DOMAIN stack'[u], NEW l \in DOMAIN stack'[v],
             stack'[u][k].fn = stack'[v][l].fn, stack'[u][k].fn # 0
      PROVE  u = v /\ k = l
  <2>1. k \in DOMAIN stack[u] /\ l \in DOMAIN stack[v]
    BY <1>1, <1>a, <1>3
  <2> QED BY <1>1, <1>3, <2>1 DEF Frames
<1> QED BY <1>1, <1>2, <1>3 DEF Frames

(* Returning keeps the frame invariant, since the frames that remain keep
   what they stand for.                                                    *)
LEMMA StackPop ==
  ASSUME stack \in Stacks, Frames, NEW t \in Threads, stack[t] # <<>>, Pop(t),
         \A u \in Threads : \A k \in DOMAIN stack[u] : Keeps(u, k) \/ (u = t /\ k = Len(stack[t]))
  PROVE  stack' \in Stacks /\ Frames'
<1>1. /\ stack' \in Stacks
      /\ \A u \in Threads :
              /\ DOMAIN stack'[u] = {k \in DOMAIN stack[u] : ~(u = t /\ k = Len(stack[t]))}
              /\ \A k \in DOMAIN stack'[u] : stack'[u][k] = stack[u][k]
  BY PopFact
<1>2. ASSUME NEW u \in Threads, NEW k \in DOMAIN stack'[u]
      PROVE  (FrameOK(stack[u][k]) /\ FrameDue(stack[u][k]))'
  <2>1. PICK f : f = stack'[u][k]
    OBVIOUS
  <2>2. FrameOK(f)' /\ FrameDue(f)'
    BY <1>1, <2>1 DEF Keeps
  <2> QED BY <2>1, <2>2
<1>3. ASSUME NEW u \in Threads, NEW v \in Threads, NEW k \in DOMAIN stack'[u], NEW l \in DOMAIN stack'[v],
             stack'[u][k].fn = stack'[v][l].fn, stack'[u][k].fn # 0
      PROVE  u = v /\ k = l
  BY <1>1, <1>3 DEF Frames
<1> QED BY <1>1, <1>2, <1>3 DEF Frames

(* Calling execute() for the head of a batch keeps the frame invariant.    *)
LEMMA StackSetTopPush ==
  ASSUME stack \in Stacks, Frames, NEW t \in Threads, stack[t] # <<>>,
         NEW g \in FrameType, NEW e \in FrameType, SetTopPush(t, g, e),
         \A u \in Threads : \A k \in DOMAIN stack[u] : Keeps(u, k) \/ (u = t /\ k = Len(stack[t])),
         FrameOK(g)', FrameDue(g)', g.fn = Top(t).fn, FrameOK(e)', FrameDue(e)', e.fn = 0
  PROVE  stack' \in Stacks /\ Frames'
<1>1. /\ stack' \in Stacks
      /\ \A u \in Threads :
              /\ DOMAIN stack'[u] = IF u = t THEN 1 .. Len(stack[t]) + 1 ELSE DOMAIN stack[u]
              /\ \A k \in DOMAIN stack[u] :
                   stack'[u][k] = IF u = t /\ k = Len(stack[t]) THEN g ELSE stack[u][k]
      /\ stack'[t][Len(stack[t]) + 1] = e
  BY SetTopPushFact
<1>b. Top(t) = stack[t][Len(stack[t])] /\ DOMAIN stack[t] = 1 .. Len(stack[t])
      /\ Len(stack[t]) \in DOMAIN stack[t] /\ Len(stack[t]) \in Nat
  BY TopFact
<1>a. \A u \in Threads : \A k \in DOMAIN stack'[u] :
        k \in DOMAIN stack[u] \/ (u = t /\ k = Len(stack[t]) + 1)
  <2>1. \A n \in Nat : \A k \in 1 .. n + 1 : k \in 1 .. n \/ k = n + 1
    OBVIOUS
  <2> QED BY <1>1, <1>b, <2>1
<1>2. ASSUME NEW u \in Threads, NEW k \in DOMAIN stack'[u]
      PROVE  (FrameOK(stack[u][k]) /\ FrameDue(stack[u][k]))'
  <2>1. PICK f : f = stack'[u][k]
    OBVIOUS
  <2>2. FrameOK(f)' /\ FrameDue(f)'
    BY <1>1, <1>a, <2>1 DEF Keeps
  <2> QED BY <2>1, <2>2
<1>c. \A u \in Threads : \A k \in DOMAIN stack[u] : stack'[u][k].fn = stack[u][k].fn
  BY <1>1, <1>b
<1>3. ASSUME NEW u \in Threads, NEW v \in Threads, NEW k \in DOMAIN stack'[u], NEW l \in DOMAIN stack'[v],
             stack'[u][k].fn = stack'[v][l].fn, stack'[u][k].fn # 0
      PROVE  u = v /\ k = l
  <2>1. k \in DOMAIN stack[u] /\ l \in DOMAIN stack[v]
    BY <1>1, <1>a, <1>3
  <2> QED BY <1>c, <1>3, <2>1 DEF Frames
<1> QED BY <1>1, <1>2, <1>3 DEF Frames

-----------------------------------------------------------------------------
(* Steps that leave the nodes and the jobs alone.                          *)
Quiet == UNCHANGED <<workers, m_nodes, m_freeNodes, handle, state, deps>>

NodeInv == Numbered /\ FreeOnce /\ Generations /\ Owned /\ Lists /\ Linked

(* A step that leaves nodes, handles and job states alone changes no
   meaning built from them.                                                *)
LEMMA QuietFacts ==
  ASSUME Quiet
  PROVE  /\ submitted' = submitted /\ \A j : Age(j)' = Age(j)
         /\ \A j : Live(j)' <=> Live(j)
         /\ \A f : (FrameOK(f)' <=> FrameOK(f)) /\ (FrameDue(f)' <=> FrameDue(f))
         /\ \A h : Due(h)' <=> Due(h)
         /\ NodeInv' <=> NodeInv
<1>1. submitted' = submitted
  BY DEF submitted, Quiet
<1>2. ASSUME NEW j PROVE Age(j)' = Age(j)
  BY <1>1 DEF Age, Quiet
<1>3. ASSUME NEW j PROVE Live(j)' <=> Live(j)
  BY <1>1 DEF Live, Latest, Quiet
<1>4. ASSUME NEW h PROVE Due(h)' <=> Due(h)
  BY DEF Due, Open, Quiet
<1>5. ASSUME NEW f PROVE FrameOK(f)' <=> FrameOK(f)
  BY <1>1, <1>3 DEF FrameOK, Quiet
<1>6. ASSUME NEW f PROVE FrameDue(f)' <=> FrameDue(f)
  BY <1>4 DEF FrameDue, Quiet
<1>7. NodeInv' <=> NodeInv
  <2>1. Numbered' <=> Numbered
    BY <1>1 DEF Numbered, Quiet
  <2>2. FreeOnce' <=> FreeOnce
    BY DEF FreeOnce, Quiet
  <2>3. Generations' <=> Generations
    BY <1>1, <1>2 DEF Generations, Passed, Quiet
  <2>4. Owned' <=> Owned
    BY <1>1, <1>3 DEF Owned, NodeOK, Quiet
  <2>5. Lists' <=> Lists
    BY DEF Lists, RemainingExact, Open, Quiet
  <2>6. Linked' <=> Linked
    BY <1>1, <1>3 DEF Linked, Quiet
  <2> QED BY <2>1, <2>2, <2>3, <2>4, <2>5, <2>6 DEF NodeInv
<1> QED BY <1>1, <1>2, <1>3, <1>4, <1>5, <1>6, <1>7
-----------------------------------------------------------------------------
(* What a quiet step has to show.                                          *)
LEMMA QuietInv ==
  ASSUME Inv, Quiet, stack' \in Stacks, Frames', poolTasks' \in Seq(HandleType), PoolDue', CarryStep,
         m_pendingJobCount' \in Nat, PendingExact', call' \in [Clients -> CallType], Calls'
  PROVE  Inv'
<1>1. Types'
  BY DEF Inv, Types, Quiet
<1>2. NodeInv'
  BY QuietFacts DEF Inv, NodeInv
<1>3. CarriedSome'
  <2>1. \A i : HandleOf(m_nodes', i) = HandleOf(m_nodes, i)
    BY DEF Quiet
  <2>2. SUFFICES ASSUME NEW i \in DOMAIN m_nodes, ~ m_nodes[i].completed, m_nodes[i].scheduled,
                        NEW h, h = HandleOf(m_nodes, i)
                 PROVE  Carried(h)'
    BY <2>1 DEF CarriedSome, Quiet
  <2>3. Carried(h)
    BY <2>2 DEF Inv, Carriage, CarriedSome
  <2> QED BY <2>3 DEF CarryStep
<1> QED BY <1>1, <1>2, <1>3 DEF Inv, NodeInv, Carriage, CarryStep

(* Every frame keeps its invariant in a quiet step.                        *)
LEMMA QuietKeeps ==
  ASSUME Inv, Quiet
  PROVE  /\ \A u \in Threads : \A k \in DOMAIN stack[u] : Keeps(u, k)
         /\ \A r : CallOK(r)' <=> CallOK(r)
<1>1. \A f : (FrameOK(f)' <=> FrameOK(f)) /\ (FrameDue(f)' <=> FrameDue(f))
  BY QuietFacts
<1>2. submitted' = submitted /\ \A j : Age(j)' = Age(j)
  BY QuietFacts
<1>3. ASSUME NEW r PROVE CallOK(r)' <=> CallOK(r)
  BY <1>2 DEF CallOK
<1> QED BY <1>1, <1>3 DEF Inv, Frames, Keeps

(* m_pendingJobCount stays exact over a quiet step that moves no job past
   its retirement.                                                         *)
LEMMA QuietPending ==
  ASSUME Inv, Quiet, m_pendingJobCount' = m_pendingJobCount, \A j : Retiring(j)' <=> Retiring(j)
  PROVE  m_pendingJobCount' \in Nat /\ PendingExact'
<1>1. Unretired' = Unretired
  BY QuietFacts DEF Unretired
<1> QED BY <1>1 DEF Inv, PendingExact, Types

(* The calls of wait() and waitAll().                                      *)
LEMMA SetCallInv ==
  ASSUME Inv, NEW c \in Clients, NEW r \in CallType, SetCall(c, r), CallOK(r)
  PROVE  Inv'
<1>1. Quiet /\ stack' = stack /\ poolTasks' = poolTasks /\ m_pendingJobCount' = m_pendingJobCount
  BY DEF SetCall, Quiet
<1>2. stack' \in Stacks /\ poolTasks' \in Seq(HandleType)
  BY <1>1 DEF Inv, Types
<1>3. Frames'
  <2>1. \A f : (FrameOK(f)' <=> FrameOK(f)) /\ (FrameDue(f)' <=> FrameDue(f))
    BY <1>1, QuietFacts
  <2>2. ASSUME NEW t \in Threads, NEW k \in DOMAIN stack[t]
        PROVE  (FrameOK(stack[t][k]) /\ FrameDue(stack[t][k]))'
    <3>1. PICK f : f = stack[t][k]
      OBVIOUS
    <3>2. FrameOK(f)' /\ FrameDue(f)'
      BY <2>1, <3>1 DEF Inv, Frames
    <3> QED BY <1>1, <3>1, <3>2
  <2> QED BY <1>1, <2>2 DEF Inv, Frames
<1>4. PoolDue'
  <2>1. \A h : Due(h)' <=> Due(h)
    BY <1>1, QuietFacts
  <2> QED BY <1>1, <2>1 DEF Inv, Carriage, PoolDue
<1>5. CarryStep
  BY <1>1, CarrySame DEF Inv, Carriage
<1>6. m_pendingJobCount' \in Nat /\ PendingExact'
  <2>1. \A j : Retiring(j)' <=> Retiring(j)
    BY <1>1 DEF Retiring, RetiresAt
  <2> QED BY <1>1, <2>1, QuietPending
<1>7. call' \in [Clients -> CallType] /\ \A d \in Clients : call'[d] = IF d = c THEN r ELSE call[d]
  BY DEF Inv, Types, SetCall
<1>8. Calls'
  <2>1. \A e : CallOK(e)' <=> CallOK(e)
    BY <1>1, QuietKeeps
  <2>2. ASSUME NEW d \in Clients PROVE CallOK(call[d])'
    <3>1. PICK e : e = call'[d]
      OBVIOUS
    <3>2. CallOK(e)
      BY <1>7, <3>1 DEF Inv, Calls
    <3> QED BY <2>1, <3>1, <3>2
  <2> QED BY <2>2 DEF Calls
<1> QED BY <1>1, <1>2, <1>3, <1>4, <1>5, <1>6, <1>7, <1>8, QuietInv

(* A client outside any call satisfies the invariant of calls.             *)
LEMMA IdleFact ==
  Idle \in CallType /\ CallOK(Idle) /\ Idle.at = "idle" /\ Idle.job = 0 /\ Idle.past = {}
BY JobAssumption DEF Idle, CallType, CallAt, CallOK

(* Entering wait() preserves the invariant.                                *)
LEMMA WaitInv ==
  ASSUME Inv, NEW c \in Clients, NEW j \in Jobs, wait(c, j)
  PROVE  Inv'
<1>1. PICK r : r = [Idle EXCEPT !.at = "resolve", !.job = j]
  OBVIOUS
<1>2. r \in CallType /\ r.at = "resolve" /\ r.job = j /\ r.past = {}
  <2>1. r = [at |-> "resolve", job |-> j, seen |-> 0, past |-> {}]
    BY <1>1 DEF Idle
  <2>2. "resolve" \in CallAt /\ j \in 0 .. MaxJobs /\ 0 \in Nat /\ {} \in SUBSET Jobs
    BY JobAssumption DEF CallAt, Jobs
  <2>3. r \in CallType
    BY <2>1, <2>2 DEF CallType
  <2> QED BY <2>1, <2>3
<1>3. CallOK(r)
  BY <1>2 DEF CallOK, wait
<1> QED BY <1>1, <1>2, <1>3, SetCallInv DEF wait

(* Entering waitAll() preserves the invariant.                             *)
LEMMA WaitAllInv ==
  ASSUME Inv, NEW c \in Clients, waitAll(c)
  PROVE  Inv'
<1>1. PICK r : r = [Idle EXCEPT !.at = "allLoad", !.past = submitted]
  OBVIOUS
<1>2. r \in CallType /\ r.at = "allLoad" /\ r.job = 0 /\ r.past = submitted
  <2>1. r = [at |-> "allLoad", job |-> 0, seen |-> 0, past |-> submitted]
    BY <1>1 DEF Idle
  <2>2. "allLoad" \in CallAt /\ 0 \in 0 .. MaxJobs /\ 0 \in Nat /\ submitted \in SUBSET Jobs
    BY JobAssumption, JobsFinite DEF CallAt
  <2>3. r \in CallType
    BY <2>1, <2>2 DEF CallType
  <2> QED BY <2>1, <2>3
<1>3. CallOK(r)
  BY <1>2 DEF CallOK
<1> QED BY <1>1, <1>2, <1>3, SetCallInv DEF waitAll

(* A call goes from one of its control points to another, or is over.      *)
LEMMA CallMove ==
  ASSUME Inv, NEW c \in Clients, NEW at \in CallAt, NEW seen \in Nat, NEW r,
         r = [call[c] EXCEPT !.at = at, !.seen = seen] \/ r = [call[c] EXCEPT !.at = at],
         \/ {at, call[c].at} \subseteq {"resolve", "futex", "asleep"}
         \/ {at, call[c].at} \subseteq {"allLoad", "allFutex", "allAsleep"}
  PROVE  r \in CallType /\ CallOK(r) /\ r.job = call[c].job /\ r.past = call[c].past
<1>1. call[c] \in CallType /\ CallOK(call[c])
  BY DEF Inv, Types, Calls
<1>2. r \in CallType
  BY <1>1 DEF CallType
<1>3. r.at = at /\ r.job = call[c].job /\ r.past = call[c].past
  BY <1>1 DEF CallType
<1>4. CallOK(r)
  BY <1>1, <1>3 DEF CallOK
<1> QED BY <1>2, <1>3, <1>4

(* Every step inside wait() and waitAll() preserves the invariant.         *)
LEMMA WaitStepInv ==
  ASSUME Inv, NEW c \in Clients, WaitStep(c)
  PROVE  Inv'
<1>0. call[c] \in CallType /\ m_pendingJobCount \in Nat /\ 0 \in Nat
  BY DEF Inv, Types
<1>a. \A at \in {"resolve", "futex", "asleep", "allLoad", "allFutex", "allAsleep"} : at \in CallAt
  BY DEF CallAt
<1>1. CASE waitResolve(c)
  <2>1. PICK h, g : h = handle[call[c].job] /\ g = m_nodes[h.index].completedGeneration
    OBVIOUS
  <2>2. PICK r : r = IF ~ Resolves(m_nodes, h) \/ g = h.generation THEN Idle
                     ELSE [call[c] EXCEPT !.at = "futex", !.seen = g]
    OBVIOUS
  <2>3. SetCall(c, r) /\ call[c].at = "resolve"
    BY <1>1, <2>1, <2>2 DEF waitResolve
  <2>4. CASE r = Idle
    BY <2>3, <2>4, IdleFact, SetCallInv
  <2>5. CASE r # Idle
    <3>1. r = [call[c] EXCEPT !.at = "futex", !.seen = g] /\ Resolves(m_nodes, h)
      BY <2>2, <2>5
    <3>2. call[c].job \in Jobs /\ handle[call[c].job].index \in DOMAIN m_nodes
      BY <2>3, JobsFinite DEF Inv, Calls, CallOK, Numbered
    <3>3. g \in Nat
      <4>1. m_nodes[h.index] \in NodeType
        BY <2>1, <3>2 DEF Inv, Types
      <4> QED BY <2>1, <4>1, JobAssumption DEF NodeType
    <3>4. {"futex", call[c].at} \subseteq {"resolve", "futex", "asleep"} /\ "futex" \in CallAt
      BY <2>3, <1>a
    <3>5. r \in CallType /\ CallOK(r)
      BY <3>1, <3>3, <3>4, CallMove
    <3> QED BY <2>3, <3>5, SetCallInv
  <2> QED BY <2>4, <2>5
<1>2. CASE waitFutex(c)
  <2>1. PICK r : /\ SetCall(c, r) /\ call[c].at = "futex"
                 /\ \/ r = [call[c] EXCEPT !.at = "asleep"]
                    \/ r = [call[c] EXCEPT !.at = "resolve", !.seen = 0]
    BY <1>2 DEF waitFutex
  <2>2. r \in CallType /\ CallOK(r)
    <3>1. {"asleep", call[c].at} \subseteq {"resolve", "futex", "asleep"}
          /\ {"resolve", call[c].at} \subseteq {"resolve", "futex", "asleep"}
      BY <2>1
    <3>2. "asleep" \in CallAt /\ "resolve" \in CallAt
      BY <1>a
    <3>3. CASE r = [call[c] EXCEPT !.at = "asleep"]
      BY <1>0, <3>1, <3>2, <3>3, CallMove
    <3>4. CASE r = [call[c] EXCEPT !.at = "resolve", !.seen = 0]
      BY <1>0, <3>1, <3>2, <3>4, CallMove
    <3> QED BY <2>1, <3>3, <3>4
  <2> QED BY <2>1, <2>2, SetCallInv
<1>3. CASE waitAllLoad(c)
  <2>1. PICK r : /\ SetCall(c, r) /\ call[c].at = "allLoad"
                 /\ \/ r = Idle
                    \/ r = [call[c] EXCEPT !.at = "allFutex", !.seen = m_pendingJobCount]
    BY <1>3 DEF waitAllLoad
  <2>2. r \in CallType /\ CallOK(r)
    <3>1. {"allFutex", call[c].at} \subseteq {"allLoad", "allFutex", "allAsleep"} /\ "allFutex" \in CallAt
      BY <1>a, <2>1
    <3>2. CASE r = Idle
      BY <3>2, IdleFact
    <3>3. CASE r = [call[c] EXCEPT !.at = "allFutex", !.seen = m_pendingJobCount]
      BY <1>0, <3>1, <3>3, CallMove
    <3> QED BY <2>1, <3>2, <3>3
  <2> QED BY <2>1, <2>2, SetCallInv
<1>4. CASE waitAllFutex(c)
  <2>1. PICK r : /\ SetCall(c, r) /\ call[c].at = "allFutex"
                 /\ \/ r = [call[c] EXCEPT !.at = "allAsleep"]
                    \/ r = [call[c] EXCEPT !.at = "allLoad", !.seen = 0]
    BY <1>4 DEF waitAllFutex
  <2>2. r \in CallType /\ CallOK(r)
    <3>1. {"allAsleep", call[c].at} \subseteq {"allLoad", "allFutex", "allAsleep"}
          /\ {"allLoad", call[c].at} \subseteq {"allLoad", "allFutex", "allAsleep"}
      BY <2>1
    <3>2. "allAsleep" \in CallAt /\ "allLoad" \in CallAt
      BY <1>a
    <3>3. CASE r = [call[c] EXCEPT !.at = "allAsleep"]
      BY <1>0, <3>1, <3>2, <3>3, CallMove
    <3>4. CASE r = [call[c] EXCEPT !.at = "allLoad", !.seen = 0]
      BY <1>0, <3>1, <3>2, <3>4, CallMove
    <3> QED BY <2>1, <3>3, <3>4
  <2> QED BY <2>1, <2>2, SetCallInv
<1> QED BY <1>1, <1>2, <1>3, <1>4 DEF WaitStep
-----------------------------------------------------------------------------
(* The innermost frame of a thread satisfies the invariant of frames, and
   no other frame runs its job.                                            *)
LEMMA TopInv ==
  ASSUME Inv, NEW t \in Threads, NEW p, At(t, p)
  PROVE  /\ stack[t] # <<>> /\ stack \in Stacks /\ Top(t) \in FrameType /\ Top(t).at = p
         /\ FrameOK(Top(t)) /\ FrameDue(Top(t)) /\ Top(t) = stack[t][Len(stack[t])]
         /\ Len(stack[t]) \in DOMAIN stack[t]
         /\ \A u \in Threads : \A k \in DOMAIN stack[u] :
              stack[u][k].fn = Top(t).fn /\ Top(t).fn # 0 => u = t /\ k = Len(stack[t])
<1>1. stack[t] # <<>> /\ stack \in Stacks /\ Top(t).at = p
  BY DEF At, Inv, Types
<1>2. Top(t) \in FrameType /\ Top(t) = stack[t][Len(stack[t])] /\ Len(stack[t]) \in DOMAIN stack[t]
  BY <1>1, TopFact
<1> QED BY <1>1, <1>2 DEF Inv, Frames

(* The handles of the pool stay due when due handles are added to it.      *)
LEMMA PoolDueKept ==
  ASSUME Inv, Quiet, \A p \in DOMAIN poolTasks' : \E h : Due(h) /\ poolTasks'[p] = h
  PROVE  PoolDue'
<1>1. \A h : Due(h)' <=> Due(h)
  BY QuietFacts
<1>2. ASSUME NEW p \in DOMAIN poolTasks' PROVE Due(poolTasks[p])'
  <2>1. PICK h : Due(h) /\ poolTasks'[p] = h
    OBVIOUS
  <2>2. Due(h)'
    BY <1>1, <2>1
  <2> QED BY <2>1, <2>2
<1> QED BY <1>2 DEF PoolDue

(* enqueueExecution() preserves the invariant: the handle moves from the
   caller to the pool, or into a nested execute().                         *)
LEMMA EnqueueInv ==
  ASSUME Inv, NEW t \in Threads, enqueueExecution(t)
  PROVE  Inv'
<1>1. PICK f, h, n : f = Top(t) /\ h = f.cur /\ n = Len(stack[t])
  OBVIOUS
<1>2. /\ Quiet /\ m_pendingJobCount' = m_pendingJobCount /\ call' = call /\ At(t, "enqueue")
  BY DEF enqueueExecution, Quiet
<1>3. /\ stack[t] # <<>> /\ stack \in Stacks /\ f \in FrameType /\ f.at = "enqueue"
      /\ FrameOK(f) /\ FrameDue(f) /\ f = stack[t][n] /\ n \in DOMAIN stack[t]
  BY <1>1, <1>2, TopInv
<1>4. h \in HandleType /\ Due(h) /\ f.fn = 0 /\ f.cont = NoHandle /\ f.batch = <<>>
  BY <1>1, <1>3 DEF FrameType, FrameOK, FrameDue
<1>5. \A u \in Threads : \A k \in DOMAIN stack[u] : Keeps(u, k)
  BY <1>2, QuietKeeps
<1>6. call' \in [Clients -> CallType] /\ Calls'
  <2>1. \A r : CallOK(r)' <=> CallOK(r)
    BY <1>2, QuietKeeps
  <2> QED BY <1>2, <2>1 DEF Inv, Types, Calls
<1>7. CASE workers = {}
  <2>1. PICK g : g = Frame("take", h)
    OBVIOUS
  <2>2. SetTop(t, g) /\ poolTasks' = poolTasks
    BY <1>1, <1>7, <2>1 DEF enqueueExecution
  <2>3. /\ g \in FrameType /\ g.at = "take" /\ g.cur = h /\ g.depth = 0 /\ g.fn = 0
        /\ g.cont = NoHandle /\ g.batch = <<>>
    <3>1. "take" \in FrameAt
      BY DEF FrameAt
    <3> QED BY <1>4, <2>1, <3>1, FrameFact
  <2>4. FrameOK(g)' /\ FrameDue(g)'
    <3>1. FrameOK(g) /\ FrameDue(g)
      BY <1>4, <2>3 DEF FrameOK, FrameDue, valid
    <3> QED BY <1>2, <3>1, QuietFacts
  <2>5. stack' \in Stacks /\ Frames'
    <3>1. Frames
      BY DEF Inv
    <3> QED BY <1>3, <1>5, <2>2, <2>3, <2>4, <3>1, StackSetTop
  <2>6. \A u \in Threads :
          /\ DOMAIN stack'[u] = DOMAIN stack[u]
          /\ \A k \in DOMAIN stack[u] : stack'[u][k] = IF u = t /\ k = n THEN g ELSE stack[u][k]
    BY <1>1, <1>3, <2>2, <2>3, SetTopFact
  <2>7. CarryStep
    <3>1. \A q, x : Carries(g, q, x) <=> Carries(f, q, x)
      BY <1>1, <1>3, <1>4, <2>3 DEF Carries
    <3>2. \A u \in Threads : \A k \in DOMAIN stack[u] : \A q, x :
            Carries(stack'[u][k], q, x) <=> Carries(stack[u][k], q, x)
      BY <1>3, <2>6, <3>1
    <3> QED BY <2>2, <2>6, <3>2, CarrySame DEF Inv, Carriage
  <2>8. \A j : Retiring(j)' <=> Retiring(j)
    <3>1. \A u, k, j : RetiresAt(u, k, j)' <=> RetiresAt(u, k, j)
      BY <1>3, <2>3, <2>6 DEF RetiresAt
    <3> QED BY <3>1 DEF Retiring
  <2>9. PoolDue'
    BY <1>2, <2>2, PoolDueKept DEF Inv, Carriage, PoolDue
  <2>10. poolTasks' \in Seq(HandleType)
    BY <2>2 DEF Inv, Types
  <2>11. m_pendingJobCount' \in Nat /\ PendingExact'
    BY <1>2, <2>8, QuietPending
  <2> QED BY <1>2, <1>6, <2>5, <2>7, <2>9, <2>10, <2>11, QuietInv
<1>8. CASE workers # {}
  <2>1. Pop(t) /\ poolTasks' = Append(poolTasks, h)
    BY <1>1, <1>8 DEF enqueueExecution
  <2>2. stack' \in Stacks /\ Frames'
    <3>1. Frames
      BY DEF Inv
    <3> QED BY <1>3, <1>5, <2>1, <3>1, StackPop
  <2>3. \A u \in Threads :
          /\ DOMAIN stack'[u] = {k \in DOMAIN stack[u] : ~(u = t /\ k = n)}
          /\ \A k \in DOMAIN stack'[u] : stack'[u][k] = stack[u][k]
    BY <1>1, <1>3, <2>1, PopFact
  <2>4. CarryStep
    <3>1. Types /\ CarriedOnce /\ FrameOK(Top(t))
      BY <1>1, <1>3 DEF Inv, Carriage
    <3> QED BY <1>1, <1>2, <2>1, <3>1, CarryToPool
  <2>5. \A j : Retiring(j)' <=> Retiring(j)
    <3>1. \A u, k, j : RetiresAt(u, k, j)' <=> RetiresAt(u, k, j)
      BY <1>3, <2>3 DEF RetiresAt
    <3> QED BY <3>1 DEF Retiring
  <2>6. poolTasks \in Seq(HandleType)
    BY DEF Inv, Types
  <2>7. poolTasks' \in Seq(HandleType)
        /\ \A p \in DOMAIN poolTasks' : (p \in DOMAIN poolTasks /\ poolTasks'[p] = poolTasks[p]) \/ poolTasks'[p] = h
    BY <1>4, <2>1, <2>6
  <2>8. PoolDue'
    <3>1. \A p \in DOMAIN poolTasks : Due(poolTasks[p])
      BY DEF Inv, Carriage, PoolDue
    <3> QED BY <1>2, <1>4, <2>7, <3>1, PoolDueKept
  <2>9. m_pendingJobCount' \in Nat /\ PendingExact'
    BY <1>2, <2>5, QuietPending
  <2> QED BY <1>2, <1>6, <2>2, <2>4, <2>7, <2>8, <2>9, QuietInv
<1> QED BY <1>7, <1>8

(* A worker taking a request preserves the invariant: the handle moves
   from the pool to a frame.                                               *)
LEMMA WorkerTakeInv ==
  ASSUME Inv, NEW t \in Threads, WorkerTake(t)
  PROVE  Inv'
<1>1. PICK h, g : h = Head(poolTasks) /\ g = Frame("take", h)
  OBVIOUS
<1>2. /\ Quiet /\ m_pendingJobCount' = m_pendingJobCount /\ call' = call
      /\ stack[t] = <<>> /\ poolTasks # <<>> /\ Push(t, g) /\ poolTasks' = Tail(poolTasks)
  BY <1>1 DEF WorkerTake, Quiet
<1>3. stack \in Stacks /\ poolTasks \in Seq(HandleType) /\ Frames /\ Types /\ CarriedOnce /\ PoolDue
  BY DEF Inv, Types, Carriage
<1>4. h \in HandleType /\ Due(h)
  <2>1. 1 \in DOMAIN poolTasks /\ h = poolTasks[1] /\ h \in HandleType
    BY <1>1, <1>2, <1>3
  <2> QED BY <1>3, <2>1 DEF PoolDue
<1>5. \A u \in Threads : \A k \in DOMAIN stack[u] : Keeps(u, k)
  BY <1>2, QuietKeeps
<1>6. call' \in [Clients -> CallType] /\ Calls'
  <2>1. \A r : CallOK(r)' <=> CallOK(r)
    BY <1>2, QuietKeeps
  <2> QED BY <1>2, <2>1 DEF Inv, Types, Calls
<1>7. /\ g \in FrameType /\ g.at = "take" /\ g.cur = h /\ g.depth = 0 /\ g.fn = 0
      /\ g.cont = NoHandle /\ g.batch = <<>>
  <2>1. "take" \in FrameAt
    BY DEF FrameAt
  <2> QED BY <1>1, <1>4, <2>1, FrameFact
<1>8. FrameOK(g)' /\ FrameDue(g)'
  <2>1. FrameOK(g) /\ FrameDue(g)
    BY <1>4, <1>7 DEF FrameOK, FrameDue, valid
  <2> QED BY <1>2, <2>1, QuietFacts
<1>9. stack' \in Stacks /\ Frames'
  BY <1>2, <1>3, <1>5, <1>7, <1>8, StackPush
<1>10. CarryStep
  BY <1>1, <1>2, <1>3, CarryFromPool
<1>11. \A j : Retiring(j)' <=> Retiring(j)
  <2>1. Len(stack[t]) = 0 /\ DOMAIN stack[t] = {}
    BY <1>2
  <2>2. /\ \A u \in Threads :
             /\ DOMAIN stack'[u] = IF u = t THEN 1 .. Len(stack[u]) + 1 ELSE DOMAIN stack[u]
             /\ \A k \in DOMAIN stack[u] : stack'[u][k] = stack[u][k]
        /\ stack'[t][Len(stack[t]) + 1] = g
    BY <1>2, <1>3, <1>7, PushFact
  <2>3. 1 .. Len(stack[t]) + 1 = {1} /\ Len(stack[t]) + 1 = 1
    BY <2>1
  <2>4. \A u, k, j : RetiresAt(u, k, j)' <=> RetiresAt(u, k, j)
    BY <1>7, <2>1, <2>2, <2>3 DEF RetiresAt
  <2> QED BY <2>4 DEF Retiring
<1>12. poolTasks' \in Seq(HandleType)
       /\ \A p \in DOMAIN poolTasks' : p + 1 \in DOMAIN poolTasks /\ poolTasks'[p] = poolTasks[p + 1]
  BY <1>2, <1>3
<1>13. PoolDue'
  BY <1>2, <1>3, <1>12, PoolDueKept DEF PoolDue
<1>14. m_pendingJobCount' \in Nat /\ PendingExact'
  BY <1>2, <1>11, QuietPending
<1> QED BY <1>2, <1>6, <1>9, <1>10, <1>12, <1>13, <1>14, QuietInv

(* A frame moves on to the next control point after complete()'s lock.     *)
LEMMA NotifyInv ==
  ASSUME Inv, NEW t \in Threads, completeNotify(t)
  PROVE  Inv'
<1>1. PICK f, g, n : f = Top(t) /\ g = [f EXCEPT !.at = "batch"] /\ n = Len(stack[t])
  OBVIOUS
<1>2. /\ Quiet /\ m_pendingJobCount' = m_pendingJobCount /\ At(t, "signal")
      /\ SetTop(t, g) /\ poolTasks' = poolTasks
  BY <1>1 DEF completeNotify, Quiet
<1>3. /\ stack[t] # <<>> /\ stack \in Stacks /\ f \in FrameType /\ f.at = "signal"
      /\ FrameOK(f) /\ FrameDue(f) /\ f = stack[t][n] /\ n \in DOMAIN stack[t]
      /\ \A u \in Threads : \A k \in DOMAIN stack[u] :
           stack[u][k].fn = f.fn /\ f.fn # 0 => u = t /\ k = n
  BY <1>1, <1>2, TopInv
<1>4. Frames /\ poolTasks \in Seq(HandleType) /\ CarriedOnce /\ PoolDue
      /\ call \in [Clients -> CallType] /\ Calls
  BY DEF Inv, Types, Carriage
<1>5. \A u \in Threads : \A k \in DOMAIN stack[u] : Keeps(u, k)
  BY <1>2, QuietKeeps
<1>6. call' \in [Clients -> CallType] /\ Calls'
  <2>1. \A r : CallOK(r)' <=> CallOK(r)
    BY <1>2, QuietKeeps
  <2>2. ASSUME NEW c \in Clients PROVE call'[c] \in CallType /\ CallOK(call[c])'
    <3>1. PICK r : r = call'[c]
      OBVIOUS
    <3>2. r = call[c] \/ (call[c].at = "asleep" /\ r = [call[c] EXCEPT !.at = "futex"])
      BY <3>1 DEF completeNotify
    <3>3. "futex" \in CallAt /\ 0 \in Nat
      BY DEF CallAt
    <3>4. CASE call[c].at = "asleep" /\ r = [call[c] EXCEPT !.at = "futex"]
      <4>1. {"futex", call[c].at} \subseteq {"resolve", "futex", "asleep"}
        BY <3>4
      <4>2. r \in CallType /\ CallOK(r)
        BY <3>3, <3>4, <4>1, CallMove
      <4> QED BY <2>1, <3>1, <4>2
    <3>5. CASE r = call[c]
      BY <1>4, <2>1, <3>1, <3>5 DEF Calls
    <3> QED BY <3>2, <3>4, <3>5
  <2>3. call' = [c \in Clients |-> call'[c]]
    BY DEF completeNotify
  <2> QED BY <2>2, <2>3 DEF Calls
<1>7. /\ g \in FrameType /\ g.at = "batch" /\ g.cur = f.cur /\ g.depth = f.depth /\ g.fn = f.fn
      /\ g.cont = f.cont /\ g.batch = f.batch
  <2>1. "batch" \in FrameAt
    BY DEF FrameAt
  <2> QED BY <1>1, <1>3, <2>1 DEF FrameType
<1>8. FrameOK(g)' /\ FrameDue(g)'
  <2>1. FrameOK(g) /\ FrameDue(g)
    BY <1>3, <1>7 DEF FrameOK, FrameDue
  <2> QED BY <1>2, <2>1, QuietFacts
<1>9. stack' \in Stacks /\ Frames'
  <2>1. \A u \in Threads : \A k \in DOMAIN stack[u] :
          stack[u][k].fn = g.fn /\ g.fn # 0 => u = t /\ k = Len(stack[t])
    BY <1>1, <1>3, <1>7
  <2> QED BY <1>2, <1>3, <1>4, <1>5, <1>7, <1>8, <2>1, StackSetTop
<1>10. \A u \in Threads :
          /\ DOMAIN stack'[u] = DOMAIN stack[u]
          /\ \A k \in DOMAIN stack[u] : stack'[u][k] = IF u = t /\ k = n THEN g ELSE stack[u][k]
  BY <1>1, <1>2, <1>3, <1>7, SetTopFact
<1>11. CarryStep
  <2>1. \A q, x : Carries(g, q, x) <=> Carries(f, q, x)
    BY <1>3, <1>7 DEF Carries
  <2>2. \A u \in Threads : \A k \in DOMAIN stack[u] : \A q, x :
          Carries(stack'[u][k], q, x) <=> Carries(stack[u][k], q, x)
    BY <1>3, <1>10, <2>1
  <2> QED BY <1>2, <1>4, <1>10, <2>2, CarrySame
<1>12. \A j : Retiring(j)' <=> Retiring(j)
  <2>1. \A u, k, j : RetiresAt(u, k, j)' <=> RetiresAt(u, k, j)
    BY <1>3, <1>7, <1>10 DEF RetiresAt
  <2> QED BY <2>1 DEF Retiring
<1>13. PoolDue'
  BY <1>2, <1>4, PoolDueKept DEF PoolDue
<1>14. m_pendingJobCount' \in Nat /\ PendingExact'
  BY <1>2, <1>12, QuietPending
<1> QED BY <1>2, <1>4, <1>6, <1>9, <1>11, <1>13, <1>14, QuietInv

(* enqueueExecutionBatch() preserves the invariant: the batch moves to
   the pool, or its head into a nested execute().                          *)
LEMMA BatchInv ==
  ASSUME Inv, NEW t \in Threads, enqueueExecutionBatch(t)
  PROVE  Inv'
<1>1. PICK f, n, b : f = Top(t) /\ n = Len(stack[t]) /\ b = f.batch
  OBVIOUS
<1>2. /\ Quiet /\ m_pendingJobCount' = m_pendingJobCount /\ At(t, "batch") /\ call' = call
  BY DEF enqueueExecutionBatch, Quiet
<1>3. /\ stack[t] # <<>> /\ stack \in Stacks /\ f \in FrameType /\ f.at = "batch"
      /\ FrameOK(f) /\ FrameDue(f) /\ f = stack[t][n] /\ n \in DOMAIN stack[t]
      /\ \A u \in Threads : \A k \in DOMAIN stack[u] :
           stack[u][k].fn = f.fn /\ f.fn # 0 => u = t /\ k = n
  BY <1>1, <1>2, TopInv
<1>4. Types /\ Frames /\ poolTasks \in Seq(HandleType) /\ CarriedOnce /\ PoolDue
  BY DEF Inv, Types, Carriage
<1>5. \A u \in Threads : \A k \in DOMAIN stack[u] : Keeps(u, k)
  BY <1>2, QuietKeeps
<1>6. call' \in [Clients -> CallType] /\ Calls'
  <2>1. \A r : CallOK(r)' <=> CallOK(r)
    BY <1>2, QuietKeeps
  <2> QED BY <1>2, <2>1 DEF Inv, Types, Calls
<1>a. b \in Seq(HandleType) /\ \A q \in DOMAIN b : Due(b[q])
  BY <1>1, <1>3 DEF FrameType, FrameDue
<1>7. CASE workers = {} /\ b # <<>>
  <2>1. b[1] \in HandleType /\ Head(b) = b[1] /\ Due(b[1]) /\ Tail(b) \in Seq(HandleType)
        /\ \A q \in DOMAIN Tail(b) : q + 1 \in DOMAIN b /\ Tail(b)[q] = b[q + 1]
    BY <1>7, <1>a
  <2>2. PICK g, e : g = [f EXCEPT !.batch = Tail(b)] /\ e = Frame("take", b[1])
    OBVIOUS
  <2>3. /\ stack' = [stack EXCEPT ![t] = Front(@) \o <<[Top(t) EXCEPT !.batch = Tail(@)],
                                                       Frame("take", Head(Top(t).batch))>>]
        /\ poolTasks' = poolTasks
    BY <1>1, <1>7 DEF enqueueExecutionBatch
  <2>4. SetTopPush(t, g, e)
    BY <1>1, <2>1, <2>2, <2>3 DEF SetTopPush
  <2>5. /\ g \in FrameType /\ g.at = "batch" /\ g.cur = f.cur /\ g.depth = f.depth /\ g.fn = f.fn
        /\ g.cont = f.cont /\ g.batch = Tail(b)
    BY <1>3, <2>1, <2>2 DEF FrameType
  <2>6. /\ e \in FrameType /\ e.at = "take" /\ e.cur = b[1] /\ e.depth = 0 /\ e.fn = 0
        /\ e.cont = NoHandle /\ e.batch = <<>>
    <3>1. "take" \in FrameAt
      BY DEF FrameAt
    <3> QED BY <2>1, <2>2, <3>1, FrameFact
  <2>7. FrameOK(g)' /\ FrameDue(g)'
    <3>1. FrameOK(g)
      BY <1>3, <2>5 DEF FrameOK
    <3>2. FrameDue(g)
      BY <1>3, <1>a, <2>1, <2>5 DEF FrameDue
    <3> QED BY <1>2, <3>1, <3>2, QuietFacts
  <2>8. FrameOK(e)' /\ FrameDue(e)'
    <3>1. FrameOK(e) /\ FrameDue(e)
      BY <2>1, <2>6 DEF FrameOK, FrameDue, valid
    <3> QED BY <1>2, <3>1, QuietFacts
  <2>9. stack' \in Stacks /\ Frames'
    BY <1>1, <1>3, <1>4, <1>5, <2>4, <2>5, <2>6, <2>7, <2>8, StackSetTopPush
  <2>10. CarryStep
    BY <1>1, <1>2, <1>4, <1>7, <2>3, CarryBatchHere
  <2>11. \A j : Retiring(j)' <=> Retiring(j)
    <3>1. /\ \A u \in Threads :
               /\ DOMAIN stack'[u] = IF u = t THEN 1 .. n + 1 ELSE DOMAIN stack[u]
               /\ \A k \in DOMAIN stack[u] :
                    stack'[u][k] = IF u = t /\ k = n THEN g ELSE stack[u][k]
          /\ stack'[t][n + 1] = e
      BY <1>1, <1>3, <2>4, <2>5, <2>6, SetTopPushFact
    <3>2. DOMAIN stack[t] = 1 .. n /\ n \in Nat
      BY <1>1, <1>3, TopFact
    <3>3. \A k : k \in 1 .. n + 1 <=> k \in 1 .. n \/ k = n + 1
      BY <3>2
    <3>4. n + 1 \notin 1 .. n
      BY <3>2
    <3>5. \A u, k, j : RetiresAt(u, k, j)' <=> RetiresAt(u, k, j)
      BY <1>3, <2>5, <2>6, <3>1, <3>2, <3>3, <3>4 DEF RetiresAt
    <3> QED BY <3>5 DEF Retiring
  <2>12. PoolDue'
    BY <1>2, <1>4, <2>3, PoolDueKept DEF PoolDue
  <2>13. m_pendingJobCount' \in Nat /\ PendingExact'
    BY <1>2, <2>11, QuietPending
  <2> QED BY <1>2, <1>4, <1>6, <2>3, <2>9, <2>10, <2>12, <2>13, QuietInv
<1>8. CASE ~(workers = {} /\ b # <<>>)
  <2>1. PICK g : g = [f EXCEPT !.at = "retire", !.batch = <<>>]
    OBVIOUS
  <2>2. SetTop(t, g) /\ poolTasks' = poolTasks \o b
        /\ SetTop(t, [Top(t) EXCEPT !.at = "retire", !.batch = <<>>])
    BY <1>1, <1>8, <2>1 DEF enqueueExecutionBatch
  <2>3. /\ g \in FrameType /\ g.at = "retire" /\ g.cur = f.cur /\ g.depth = f.depth /\ g.fn = f.fn
        /\ g.cont = f.cont /\ g.batch = <<>>
    <3>1. "retire" \in FrameAt
      BY DEF FrameAt
    <3>2. <<>> \in Seq(HandleType)
      OBVIOUS
    <3>3. g \in FrameType /\ g.at = "retire" /\ g.cur = f.cur /\ g.depth = f.depth /\ g.fn = f.fn
          /\ g.cont = f.cont
      BY <1>3, <2>1, <3>1, <3>2 DEF FrameType
    <3>4. g.batch = <<>>
      BY <1>3, <2>1 DEF FrameType
    <3> QED BY <3>3, <3>4
  <2>4. FrameOK(g)' /\ FrameDue(g)'
    <3>1. FrameOK(g) /\ FrameDue(g)
      BY <1>3, <2>3 DEF FrameOK, FrameDue
    <3> QED BY <1>2, <3>1, QuietFacts
  <2>5. stack' \in Stacks /\ Frames'
    BY <1>1, <1>3, <1>4, <1>5, <2>2, <2>3, <2>4, StackSetTop
  <2>6. CarryStep
    BY <1>1, <1>2, <1>4, <2>2, CarryBatchToPool
  <2>7. \A u \in Threads :
          /\ DOMAIN stack'[u] = DOMAIN stack[u]
          /\ \A k \in DOMAIN stack[u] : stack'[u][k] = IF u = t /\ k = n THEN g ELSE stack[u][k]
    BY <1>1, <1>3, <2>2, <2>3, SetTopFact
  <2>8. \A j : Retiring(j)' <=> Retiring(j)
    <3>1. \A u, k, j : RetiresAt(u, k, j)' <=> RetiresAt(u, k, j)
      BY <1>3, <2>3, <2>7 DEF RetiresAt
    <3> QED BY <3>1 DEF Retiring
  <2>9. poolTasks' \in Seq(HandleType)
        /\ \A p \in DOMAIN poolTasks' :
             \/ p \in DOMAIN poolTasks /\ poolTasks'[p] = poolTasks[p]
             \/ p - Len(poolTasks) \in DOMAIN b /\ poolTasks'[p] = b[p - Len(poolTasks)]
    BY <1>4, <1>a, <2>2
  <2>10. PoolDue'
    BY <1>2, <1>4, <1>a, <2>9, PoolDueKept DEF PoolDue
  <2>11. m_pendingJobCount' \in Nat /\ PendingExact'
    BY <1>2, <2>8, QuietPending
  <2> QED BY <1>2, <1>6, <2>5, <2>6, <2>9, <2>10, <2>11, QuietInv
<1> QED BY <1>7, <1>8
-----------------------------------------------------------------------------
(* The end of a round of execute().                                        *)
LEMMA ContinueStep ==
  ASSUME Inv, Quiet, NEW t \in Threads, At(t, "retire") \/ At(t, "retireNotify"), Continue(t)
  PROVE  /\ stack' \in Stacks /\ Frames'
         /\ \A u, k, j : RetiresAt(u, k, j)' <=> RetiresAt(u, k, j) /\ ~(u = t /\ k = Len(stack[t]))
<1>1. PICK f, n : f = Top(t) /\ n = Len(stack[t])
  OBVIOUS
<1>2. /\ stack[t] # <<>> /\ stack \in Stacks /\ f \in FrameType
      /\ f.at \in {"retire", "retireNotify"}
      /\ FrameOK(f) /\ FrameDue(f) /\ f = stack[t][n] /\ n \in DOMAIN stack[t]
  BY <1>1, TopInv
<1>3. Frames
  BY DEF Inv
<1>4. \A u \in Threads : \A k \in DOMAIN stack[u] : Keeps(u, k)
  BY QuietKeeps
<1>5. CASE valid(f.cont)
  <2>1. PICK e, g : e = Frame("take", f.cont) /\ g = [e EXCEPT !.depth = f.depth + 1]
    OBVIOUS
  <2>2. SetTop(t, g)
    BY <1>1, <1>5, <2>1 DEF Continue
  <2>3. f.depth + 1 \in 0 .. s_WorkFirstDepthLimit /\ f.cont \in HandleType /\ Due(f.cont)
    <3>1. f.depth \in 0 .. s_WorkFirstDepthLimit /\ f.depth < s_WorkFirstDepthLimit
      BY <1>2, <1>5 DEF FrameType, FrameOK
    <3>2. f.cont \in HandleType /\ Due(f.cont)
      BY <1>2, <1>5 DEF FrameType, FrameDue
    <3> QED BY <3>1, <3>2, JobAssumption
  <2>4. /\ e \in FrameType /\ e.at = "take" /\ e.cur = f.cont /\ e.fn = 0
        /\ e.cont = NoHandle /\ e.batch = <<>>
    <3>1. "take" \in FrameAt
      BY DEF FrameAt
    <3> QED BY <2>1, <2>3, <3>1, FrameFact
  <2>5. /\ g \in FrameType /\ g.at = "take" /\ g.cur = f.cont /\ g.fn = 0
        /\ g.cont = NoHandle /\ g.batch = <<>>
    BY <2>1, <2>3, <2>4 DEF FrameType
  <2>6. FrameOK(g)' /\ FrameDue(g)'
    <3>1. FrameOK(g) /\ FrameDue(g)
      BY <2>3, <2>5 DEF FrameOK, FrameDue, valid
    <3> QED BY <3>1, QuietFacts
  <2>7. stack' \in Stacks /\ Frames'
    BY <1>2, <1>3, <1>4, <2>2, <2>5, <2>6, StackSetTop
  <2>8. \A u \in Threads :
          /\ DOMAIN stack'[u] = DOMAIN stack[u]
          /\ \A k \in DOMAIN stack[u] : stack'[u][k] = IF u = t /\ k = n THEN g ELSE stack[u][k]
    BY <1>1, <1>2, <2>2, <2>5, SetTopFact
  <2>9. \A u, k, j : RetiresAt(u, k, j)' <=> RetiresAt(u, k, j) /\ ~(u = t /\ k = n)
    BY <1>2, <2>5, <2>8 DEF RetiresAt
  <2> QED BY <1>1, <2>7, <2>9
<1>6. CASE ~ valid(f.cont)
  <2>1. Pop(t)
    BY <1>1, <1>6 DEF Continue
  <2>2. stack' \in Stacks /\ Frames'
    BY <1>2, <1>3, <1>4, <2>1, StackPop
  <2>3. \A u \in Threads :
          /\ DOMAIN stack'[u] = {k \in DOMAIN stack[u] : ~(u = t /\ k = n)}
          /\ \A k \in DOMAIN stack'[u] : stack'[u][k] = stack[u][k]
    BY <1>1, <1>2, <2>1, PopFact
  <2>4. \A u, k, j : RetiresAt(u, k, j)' <=> RetiresAt(u, k, j) /\ ~(u = t /\ k = n)
    BY <1>2, <2>3 DEF RetiresAt
  <2> QED BY <1>1, <2>2, <2>4
<1> QED BY <1>5, <1>6

(* The notify of the last job to retire, and the inline continuation
   after it, preserve the invariant.                                       *)
LEMMA RetireNotifyInv ==
  ASSUME Inv, NEW t \in Threads, completeRetireNotify(t)
  PROVE  Inv'
<1>1. /\ Quiet /\ m_pendingJobCount' = m_pendingJobCount /\ At(t, "retireNotify")
      /\ Continue(t) /\ poolTasks' = poolTasks
  BY DEF completeRetireNotify, Quiet
<1>2. stack' \in Stacks /\ Frames'
  BY <1>1, ContinueStep
<1>3. /\ stack[t] # <<>> /\ stack \in Stacks /\ Top(t).at = "retireNotify"
      /\ FrameOK(Top(t)) /\ Top(t) = stack[t][Len(stack[t])]
  BY <1>1, TopInv
<1>4. Types /\ poolTasks \in Seq(HandleType) /\ CarriedOnce /\ PoolDue
      /\ call \in [Clients -> CallType] /\ Calls
  BY DEF Inv, Types, Carriage
<1>5. CarryStep
  BY <1>1, <1>3, <1>4, CarryContinue
<1>6. \A j : Retiring(j)' <=> Retiring(j)
  <2>1. \A u, k, j : RetiresAt(u, k, j)' <=> RetiresAt(u, k, j) /\ ~(u = t /\ k = Len(stack[t]))
    BY <1>1, ContinueStep
  <2>2. \A j : ~ RetiresAt(t, Len(stack[t]), j)
    BY <1>3 DEF RetiresAt
  <2> QED BY <2>1, <2>2 DEF Retiring
<1>7. PoolDue'
  BY <1>1, <1>4, PoolDueKept DEF PoolDue
<1>8. m_pendingJobCount' \in Nat /\ PendingExact'
  BY <1>1, <1>6, QuietPending
<1>9. call' \in [Clients -> CallType] /\ Calls'
  <2>1. \A r : CallOK(r)' <=> CallOK(r)
    BY <1>1, QuietKeeps
  <2>2. ASSUME NEW c \in Clients PROVE call'[c] \in CallType /\ CallOK(call[c])'
    <3>1. PICK r : r = call'[c]
      OBVIOUS
    <3>2. r = call[c] \/ (call[c].at = "allAsleep" /\ r = [call[c] EXCEPT !.at = "allFutex"])
      BY <3>1 DEF completeRetireNotify
    <3>3. "allFutex" \in CallAt /\ 0 \in Nat
      BY DEF CallAt
    <3>4. CASE call[c].at = "allAsleep" /\ r = [call[c] EXCEPT !.at = "allFutex"]
      <4>1. {"allFutex", call[c].at} \subseteq {"allLoad", "allFutex", "allAsleep"}
        BY <3>4
      <4>2. r \in CallType /\ CallOK(r)
        BY <3>3, <3>4, <4>1, CallMove
      <4> QED BY <2>1, <3>1, <4>2
    <3>5. CASE r = call[c]
      BY <1>4, <2>1, <3>1, <3>5 DEF Calls
    <3> QED BY <3>2, <3>4, <3>5
  <2>3. call' = [c \in Clients |-> call'[c]]
    BY DEF completeRetireNotify
  <2> QED BY <2>2, <2>3 DEF Calls
<1> QED BY <1>1, <1>2, <1>4, <1>5, <1>7, <1>8, <1>9, QuietInv

(* m_pendingJobCount.fetch_sub preserves the invariant: the one job that
   stops counting is the one completed by this frame.                      *)
LEMMA RetireInv ==
  ASSUME Inv, NEW t \in Threads, completeRetire(t)
  PROVE  Inv'
<1>1. PICK f, n : f = Top(t) /\ n = Len(stack[t])
  OBVIOUS
<1>2. /\ Quiet /\ m_pendingJobCount' = m_pendingJobCount - 1 /\ At(t, "retire")
      /\ call' = call /\ poolTasks' = poolTasks
  BY DEF completeRetire, Quiet
<1>3. /\ stack[t] # <<>> /\ stack \in Stacks /\ f \in FrameType /\ f.at = "retire"
      /\ FrameOK(f) /\ FrameDue(f) /\ f = stack[t][n] /\ n \in DOMAIN stack[t]
      /\ \A u \in Threads : \A k \in DOMAIN stack[u] :
           stack[u][k].fn = f.fn /\ f.fn # 0 => u = t /\ k = n
  BY <1>1, <1>2, TopInv
<1>4. Types /\ Frames /\ poolTasks \in Seq(HandleType) /\ CarriedOnce /\ PoolDue
  BY DEF Inv, Types, Carriage
<1>5. /\ stack' \in Stacks /\ Frames' /\ CarryStep
      /\ \A u, k, j : RetiresAt(u, k, j)' <=> RetiresAt(u, k, j) /\ ~(u = t /\ k = n)
  <2>1. CASE m_pendingJobCount = 1
    <3>1. PICK g : g = [f EXCEPT !.at = "retireNotify"]
      OBVIOUS
    <3>2. SetTop(t, g)
      BY <1>1, <2>1, <3>1 DEF completeRetire
    <3>3. /\ g \in FrameType /\ g.at = "retireNotify" /\ g.cur = f.cur /\ g.depth = f.depth
          /\ g.fn = f.fn /\ g.cont = f.cont /\ g.batch = f.batch
      <4>1. "retireNotify" \in FrameAt
        BY DEF FrameAt
      <4> QED BY <1>3, <3>1, <4>1 DEF FrameType
    <3>4. FrameOK(g)' /\ FrameDue(g)'
      <4>1. FrameOK(g) /\ FrameDue(g)
        BY <1>3, <3>3 DEF FrameOK, FrameDue
      <4> QED BY <1>2, <4>1, QuietFacts
    <3>5. \A u \in Threads : \A k \in DOMAIN stack[u] : Keeps(u, k)
      BY <1>2, QuietKeeps
    <3>6. \A u \in Threads : \A k \in DOMAIN stack[u] :
            stack[u][k].fn = g.fn /\ g.fn # 0 => u = t /\ k = Len(stack[t])
      BY <1>1, <1>3, <3>3
    <3>7. stack' \in Stacks /\ Frames'
      BY <1>3, <1>4, <3>2, <3>3, <3>4, <3>5, <3>6, StackSetTop
    <3>8. \A u \in Threads :
            /\ DOMAIN stack'[u] = DOMAIN stack[u]
            /\ \A k \in DOMAIN stack[u] : stack'[u][k] = IF u = t /\ k = n THEN g ELSE stack[u][k]
      BY <1>1, <1>3, <3>2, <3>3, SetTopFact
    <3>9. CarryStep
      <4>1. \A q, x : Carries(g, q, x) <=> Carries(f, q, x)
        BY <1>3, <3>3 DEF Carries
      <4>2. \A u \in Threads : \A k \in DOMAIN stack[u] : \A q, x :
              Carries(stack'[u][k], q, x) <=> Carries(stack[u][k], q, x)
        BY <1>3, <3>8, <4>1
      <4> QED BY <1>2, <1>4, <3>8, <4>2, CarrySame
    <3>10. \A u, k, j : RetiresAt(u, k, j)' <=> RetiresAt(u, k, j) /\ ~(u = t /\ k = n)
      BY <1>3, <3>3, <3>8 DEF RetiresAt
    <3> QED BY <3>7, <3>9, <3>10
  <2>2. CASE m_pendingJobCount # 1
    <3>1. Continue(t)
      BY <2>2 DEF completeRetire
    <3>2. /\ stack' \in Stacks /\ Frames'
          /\ \A u, k, j : RetiresAt(u, k, j)' <=> RetiresAt(u, k, j) /\ ~(u = t /\ k = n)
      BY <1>1, <1>2, <3>1, ContinueStep
    <3>3. CarryStep
      BY <1>1, <1>2, <1>3, <1>4, <3>1, CarryContinue
    <3> QED BY <3>2, <3>3
  <2> QED BY <2>1, <2>2
<1>6. f.fn \in submitted /\ ~ Live(f.fn) /\ f.fn # 0
  <2>1. f.fn \in submitted /\ ~ Live(f.fn)
    BY <1>3 DEF FrameOK
  <2> QED BY <2>1, JobsFinite
<1>7. \A j : Retiring(j)' <=> Retiring(j) /\ j # f.fn
  <2>1. \A j : RetiresAt(t, n, j) <=> j = f.fn
    BY <1>3 DEF RetiresAt
  <2>2. \A u, k : RetiresAt(u, k, f.fn) => u = t /\ k = n
    BY <1>3, <1>6 DEF RetiresAt
  <2> QED BY <1>5, <2>1, <2>2 DEF Retiring
<1>8. f.fn \in Unretired /\ Unretired' = Unretired \ {f.fn}
  <2>1. f.fn \in Unretired
    BY <1>3, <1>6 DEF Unretired, Retiring, RetiresAt
  <2>2. submitted' = submitted /\ \A j : Live(j)' <=> Live(j)
    BY <1>2, QuietFacts
  <2>3. Unretired' = Unretired \ {f.fn}
    BY <1>6, <1>7, <2>2 DEF Unretired
  <2> QED BY <2>1, <2>3
<1>9. m_pendingJobCount' \in Nat /\ PendingExact'
  <2>1. IsFiniteSet(Unretired)
    BY JobsFinite, FS_Subset DEF Unretired
  <2>2. Cardinality(Unretired \ {f.fn}) = Cardinality(Unretired) - 1 /\ IsFiniteSet(Unretired \ {f.fn})
    BY <1>8, <2>1, FS_RemoveElement
  <2>3. Cardinality(Unretired \ {f.fn}) \in Nat
    BY <2>2, FS_CardinalityType
  <2> QED BY <1>2, <1>8, <2>2, <2>3 DEF Inv, PendingExact
<1>10. PoolDue'
  BY <1>2, <1>4, PoolDueKept DEF PoolDue
<1>11. call' \in [Clients -> CallType] /\ Calls'
  <2>1. \A r : CallOK(r)' <=> CallOK(r)
    BY <1>2, QuietKeeps
  <2> QED BY <1>2, <2>1 DEF Inv, Types, Calls
<1> QED BY <1>2, <1>4, <1>5, <1>9, <1>10, <1>11, QuietInv
-----------------------------------------------------------------------------
(* An open handle is the current one of its node.                          *)
LEMMA OpenFact ==
  ASSUME Types, NEW h, Open(h)
  PROVE  Resolves(m_nodes, h) /\ h = HandleOf(m_nodes, h.index)
<1>1. h \in HandleType /\ h.index \in 1 .. Len(m_nodes) /\ Len(m_nodes) \in Nat
  BY DEF Open, Types
<1>2. h.index # 0 /\ h.index <= Len(m_nodes)
  BY <1>1
<1>3. valid(h)
  BY <1>2 DEF valid, NoHandle
<1>4. h = HandleOf(m_nodes, h.index)
  BY <1>1 DEF HandleOf, HandleType, Open
<1> QED BY <1>2, <1>3, <1>4 DEF Resolves, Open

(* A step that changes of the nodes only their functions.                  *)
Skeleton ==
  /\ UNCHANGED <<m_freeNodes, handle, deps>> /\ submitted' = submitted
  /\ Len(m_nodes') = Len(m_nodes) /\ DOMAIN m_nodes' = DOMAIN m_nodes
  /\ \A i \in DOMAIN m_nodes :
       /\ m_nodes'[i].dependents = m_nodes[i].dependents
       /\ m_nodes'[i].generation = m_nodes[i].generation
       /\ m_nodes'[i].remaining = m_nodes[i].remaining
       /\ m_nodes'[i].completed = m_nodes[i].completed
       /\ m_nodes'[i].scheduled = m_nodes[i].scheduled
       /\ m_nodes'[i].completedGeneration = m_nodes[i].completedGeneration

(* A step that leaves the identity, generation and links of every node
   alone preserves what is said of them.                                   *)
LEMMA SkeletonFacts ==
  ASSUME Inv, Skeleton
  PROVE  /\ \A j : Age(j)' = Age(j)
         /\ \A j : Live(j)' <=> Live(j)
         /\ \A h : Open(h)' <=> Open(h)
         /\ \A i \in DOMAIN m_nodes : HandleOf(m_nodes', i) = HandleOf(m_nodes, i)
         /\ \A r : CallOK(r)' <=> CallOK(r)
         /\ Numbered' /\ FreeOnce' /\ Generations' /\ Lists'
<1>1. ASSUME NEW j PROVE Age(j)' = Age(j)
  BY DEF Age, Skeleton
<1>2. \A j \in submitted : handle[j].index \in DOMAIN m_nodes
  BY DEF Inv, Numbered
<1>3. ASSUME NEW j PROVE Live(j)' <=> Live(j)
  BY <1>2 DEF Live, Latest, Skeleton
<1>4. ASSUME NEW h PROVE Open(h)' <=> Open(h)
  BY DEF Open, Skeleton
<1>5. \A i \in DOMAIN m_nodes : HandleOf(m_nodes', i) = HandleOf(m_nodes, i)
  BY DEF HandleOf, Skeleton
<1>6. ASSUME NEW r PROVE CallOK(r)' <=> CallOK(r)
  BY <1>1 DEF CallOK, Skeleton
<1>7. Numbered'
  BY DEF Inv, Numbered, Skeleton
<1>8. FreeOnce'
  BY DEF Inv, FreeOnce, Skeleton
<1>9. Generations'
  BY <1>1, <1>2 DEF Inv, Generations, Passed, Skeleton
<1>10. Lists'
  <2>1. ASSUME NEW h PROVE Listed(m_nodes', h) = Listed(m_nodes, h)
    BY DEF Listed, Skeleton
  <2>2. RemainingExact'
    BY <1>5, <2>1 DEF Inv, Lists, RemainingExact, Skeleton
  <2>3. \A i \in DOMAIN m_nodes' : ~ m_nodes'[i].completed =>
          IsFiniteSet(Listed(m_nodes', HandleOf(m_nodes', i)))
    BY <1>5, <2>1 DEF Inv, Lists, Skeleton
  <2>4. ASSUME NEW i \in DOMAIN m_nodes', NEW q \in DOMAIN m_nodes'[i].dependents
        PROVE  Open(m_nodes[i].dependents[q])'
    <3>1. PICK x : x = m_nodes[i].dependents[q] /\ Open(x)
      BY DEF Inv, Lists, Skeleton
    <3>2. m_nodes'[i].dependents[q] = x /\ Open(x)'
      BY <1>4, <3>1 DEF Skeleton
    <3> QED BY <3>2
  <2> QED BY <2>2, <2>3, <2>4 DEF Lists
<1> QED BY <1>1, <1>3, <1>4, <1>5, <1>6, <1>7, <1>8, <1>9, <1>10

(* Every scheduled job stays carried if a step only moves handles.         *)
LEMMA CarriedSomeKept ==
  ASSUME Inv, Skeleton, CarryStep
  PROVE  CarriedSome'
<1>2. SUFFICES ASSUME NEW i \in DOMAIN m_nodes, ~ m_nodes[i].completed, m_nodes[i].scheduled,
                      NEW h, h = HandleOf(m_nodes, i)
               PROVE  Carried(h)'
  <2>1. \A i \in DOMAIN m_nodes : HandleOf(m_nodes', i) = HandleOf(m_nodes, i)
    BY SkeletonFacts
  <2> QED BY <2>1 DEF CarriedSome, Skeleton
<1>3. Carried(h)
  BY <1>2 DEF Inv, Carriage, CarriedSome
<1> QED BY <1>3 DEF CarryStep

(* The return of a job's function preserves the invariant.                 *)
LEMMA RunInv ==
  ASSUME Inv, NEW t \in Threads, ExecuteRun(t)
  PROVE  Inv'
<1>1. PICK f, n, g, j : f = Top(t) /\ n = Len(stack[t]) /\ g = [f EXCEPT !.at = "complete"] /\ j = f.fn
  OBVIOUS
<1>2. /\ At(t, "run") /\ SetTop(t, g)
      /\ state' = [k \in Jobs |-> IF k = j THEN "ended" ELSE state[k]]
      /\ UNCHANGED <<workers, m_nodes, m_freeNodes, m_pendingJobCount, poolTasks, call, handle, deps>>
  BY <1>1 DEF ExecuteRun
<1>3. /\ stack[t] # <<>> /\ stack \in Stacks /\ f \in FrameType /\ f.at = "run"
      /\ FrameOK(f) /\ FrameDue(f) /\ f = stack[t][n] /\ n \in DOMAIN stack[t]
      /\ \A u \in Threads : \A k \in DOMAIN stack[u] :
           stack[u][k].fn = f.fn /\ f.fn # 0 => u = t /\ k = n
  BY <1>1, <1>2, TopInv
<1>4. Types /\ Frames /\ CarriedOnce /\ PoolDue /\ Owned
  BY DEF Inv, Types, Carriage
<1>5. Live(j) /\ j \in submitted /\ j \in Jobs /\ j # 0 /\ state[j] = "running"
  BY <1>1, <1>3, JobsFinite DEF FrameOK, Live
<1>6. Skeleton
  <2>1. submitted' = submitted
    BY <1>2, <1>5 DEF submitted
  <2> QED BY <1>2, <2>1 DEF Skeleton
<1>7. /\ \A k : Live(k)' <=> Live(k)
      /\ \A h : Open(h)' <=> Open(h)
      /\ \A r : CallOK(r)' <=> CallOK(r)
      /\ Numbered' /\ FreeOnce' /\ Generations' /\ Lists'
  BY <1>6, SkeletonFacts
<1>8. \A k \in Jobs : state'[k] = IF k = j THEN "ended" ELSE state[k]
  BY <1>2
<1>9. submitted' = submitted /\ submitted \subseteq Jobs
  BY <1>6, JobsFinite DEF Skeleton
<1>10. Owned'
  <2>1. ASSUME NEW i \in DOMAIN m_nodes PROVE NodeOK(i)'
    <3>1. NodeOK(i)
      BY <1>4 DEF Owned
    <3>2. m_nodes[i].func # 0 => m_nodes[i].func \in Jobs /\ m_nodes[i].func # j
      BY <1>5, <1>9, <3>1 DEF NodeOK, Live
    <3> QED BY <1>2, <1>7, <1>8, <1>9, <3>1, <3>2 DEF NodeOK
  <2>2. ASSUME NEW k \in submitted
        PROVE  (state[k] # "ended" => Live(k))' /\ (state[k] = "pending" => m_nodes[handle[k].index].func = k)'
    BY <1>2, <1>4, <1>7, <1>8, <1>9 DEF Owned
  <2> QED BY <1>2, <1>9, <2>1, <2>2 DEF Owned
<1>11. Linked'
  <2>1. Linked
    BY DEF Inv
  <2> QED BY <1>2, <1>7, <1>8, <1>9, <2>1 DEF Linked
<1>12. \A h : Due(h)' <=> Due(h)
  BY <1>2, <1>7 DEF Due
<1>13. \A u \in Threads : \A k \in DOMAIN stack[u] : Keeps(u, k) \/ (u = t /\ k = Len(stack[t]))
  <2>1. SUFFICES ASSUME NEW u \in Threads, NEW k \in DOMAIN stack[u], ~(u = t /\ k = n),
                        NEW e, e = stack[u][k]
                 PROVE  FrameOK(e)' /\ FrameDue(e)'
    BY <1>1 DEF Keeps
  <2>2. FrameOK(e) /\ FrameDue(e) /\ e.fn # j
    BY <1>1, <1>3, <1>4, <1>5, <2>1 DEF Frames
  <2>3. FrameDue(e)'
    BY <1>12, <2>2 DEF FrameDue
  <2>4. e.at \in {"run", "complete", "signal", "batch", "retire", "retireNotify"} => e.fn \in Jobs
    BY <1>9, <2>2 DEF FrameOK, Live
  <2>5. FrameOK(e)'
    BY <1>2, <1>7, <1>8, <1>9, <2>2, <2>4 DEF FrameOK
  <2> QED BY <2>3, <2>5
<1>14. /\ g \in FrameType /\ g.at = "complete" /\ g.cur = f.cur /\ g.depth = f.depth
       /\ g.fn = j /\ g.cont = f.cont /\ g.batch = f.batch
  <2>1. "complete" \in FrameAt
    BY DEF FrameAt
  <2> QED BY <1>1, <1>3, <2>1 DEF FrameType
<1>15. FrameOK(g)' /\ FrameDue(g)'
  <2>1. FrameDue(g)'
    BY <1>3, <1>12, <1>14 DEF FrameDue
  <2>2. FrameOK(g)'
    BY <1>1, <1>2, <1>3, <1>5, <1>7, <1>8, <1>14 DEF FrameOK
  <2> QED BY <2>1, <2>2
<1>16. stack' \in Stacks /\ Frames'
  <2>1. \A u \in Threads : \A k \in DOMAIN stack[u] :
          stack[u][k].fn = g.fn /\ g.fn # 0 => u = t /\ k = Len(stack[t])
    BY <1>1, <1>3, <1>14
  <2> QED BY <1>2, <1>3, <1>4, <1>13, <1>14, <1>15, <2>1, StackSetTop
<1>17. \A u \in Threads :
          /\ DOMAIN stack'[u] = DOMAIN stack[u]
          /\ \A k \in DOMAIN stack[u] : stack'[u][k] = IF u = t /\ k = n THEN g ELSE stack[u][k]
  BY <1>1, <1>2, <1>3, <1>14, SetTopFact
<1>18. CarryStep
  <2>1. \A q, x : Carries(g, q, x) <=> Carries(f, q, x)
    BY <1>3, <1>14 DEF Carries
  <2>2. \A u \in Threads : \A k \in DOMAIN stack[u] : \A q, x :
          Carries(stack'[u][k], q, x) <=> Carries(stack[u][k], q, x)
    BY <1>3, <1>17, <2>1
  <2> QED BY <1>2, <1>4, <1>17, <2>2, CarrySame
<1>19. Carriage'
  <2>1. PoolDue'
    BY <1>2, <1>4, <1>12 DEF PoolDue
  <2>2. CarriedSome'
    BY <1>6, <1>18, CarriedSomeKept
  <2> QED BY <1>18, <2>1, <2>2 DEF Carriage, CarryStep
<1>20. PendingExact'
  <2>1. \A u, k, i : RetiresAt(u, k, i)' <=> RetiresAt(u, k, i)
    BY <1>3, <1>14, <1>17 DEF RetiresAt
  <2>2. Unretired' = Unretired
    BY <1>7, <1>9, <2>1 DEF Unretired, Retiring
  <2> QED BY <1>2, <2>2 DEF Inv, PendingExact
<1>21. Types'
  <2>1. state' \in [Jobs -> {"none", "pending", "running", "ended"}]
    BY <1>2, <1>4 DEF Types
  <2> QED BY <1>2, <1>4, <1>16, <2>1 DEF Types
<1>22. Calls'
  BY <1>2, <1>7 DEF Inv, Calls
<1> QED BY <1>7, <1>10, <1>11, <1>16, <1>19, <1>20, <1>21, <1>22 DEF Inv
-----------------------------------------------------------------------------
(* A due handle names the job whose function its node holds.               *)
LEMMA DueJob ==
  ASSUME Inv, NEW h, Due(h)
  PROVE  \E j \in submitted :
           /\ j = m_nodes[h.index].func /\ Live(j) /\ handle[j] = h /\ state[j] = "pending"
<1>1. PICK j : j = m_nodes[h.index].func
  OBVIOUS
<1>2. h.index \in DOMAIN m_nodes /\ j # 0 /\ Open(h)
  BY <1>1 DEF Due, Open
<1>3. NodeOK(h.index)
  BY <1>2 DEF Inv, Owned
<1>4. Live(j) /\ handle[j].index = h.index /\ state[j] = "pending"
  BY <1>1, <1>2, <1>3 DEF NodeOK
<1>5. Types /\ Numbered /\ Generations
  BY DEF Inv
<1>6. j \in submitted /\ handle[j] = HandleOf(m_nodes, handle[j].index)
  BY <1>4, <1>5, LiveHandle
<1>7. h = HandleOf(m_nodes, h.index)
  BY <1>2, <1>5, OpenFact
<1> QED BY <1>1, <1>4, <1>6, <1>7

(* execute() taking a job preserves the invariant: the function leaves
   the node, which stays scheduled until complete().                       *)
LEMMA TakeInv ==
  ASSUME Inv, NEW t \in Threads, ExecuteTake(t)
  PROVE  Inv'
<1>1. PICK f, n, h, j : f = Top(t) /\ n = Len(stack[t]) /\ h = f.cur /\ j = m_nodes[h.index].func
  OBVIOUS
<1>2. PICK g : g = [f EXCEPT !.at = "run", !.fn = j]
  OBVIOUS
<1>3. At(t, "take")
  BY DEF ExecuteTake
<1>4. /\ stack[t] # <<>> /\ stack \in Stacks /\ f \in FrameType /\ f.at = "take"
      /\ FrameOK(f) /\ FrameDue(f) /\ f = stack[t][n] /\ n \in DOMAIN stack[t]
  BY <1>1, <1>3, TopInv
<1>5. Types /\ Frames /\ CarriedOnce /\ PoolDue /\ Owned
  BY DEF Inv, Carriage
<1>6. Due(h) /\ Open(h) /\ Resolves(m_nodes, h) /\ h = HandleOf(m_nodes, h.index)
      /\ h.index \in DOMAIN m_nodes /\ m_nodes[h.index].scheduled /\ ~ m_nodes[h.index].completed
  <2>1. Due(h)
    BY <1>1, <1>4 DEF FrameDue
  <2> QED BY <1>5, <2>1, OpenFact DEF Due, Open
<1>7. j \in submitted /\ j \in Jobs /\ j # 0 /\ Live(j) /\ handle[j] = h /\ state[j] = "pending"
  <2>1. j \in submitted /\ Live(j) /\ handle[j] = h /\ state[j] = "pending"
    BY <1>1, <1>6, DueJob
  <2> QED BY <2>1, JobsFinite
<1>8. /\ SetTop(t, g)
      /\ m_nodes' = [m_nodes EXCEPT ![h.index].func = 0]
      /\ state' = [k \in Jobs |-> IF k = j THEN "running" ELSE state[k]]
      /\ UNCHANGED <<workers, m_freeNodes, m_pendingJobCount, poolTasks, call, handle, deps>>
  BY <1>1, <1>2, <1>6 DEF ExecuteTake
<1>9. \A k \in Jobs : state'[k] = IF k = j THEN "running" ELSE state[k]
  BY <1>8
<1>10. submitted' = submitted /\ submitted \subseteq Jobs
  BY <1>7, <1>8, JobsFinite DEF submitted
<1>11. /\ m_nodes' \in Seq(NodeType) /\ Len(m_nodes') = Len(m_nodes) /\ DOMAIN m_nodes' = DOMAIN m_nodes
       /\ \A i \in DOMAIN m_nodes : i # h.index => m_nodes'[i] = m_nodes[i]
       /\ m_nodes'[h.index] = [m_nodes[h.index] EXCEPT !.func = 0]
  <2>1. m_nodes \in Seq(NodeType)
    BY <1>5 DEF Types
  <2>2. [m_nodes[h.index] EXCEPT !.func = 0] \in NodeType
    <3>1. m_nodes[h.index] \in NodeType /\ 0 \in 0 .. MaxJobs
      BY <1>6, <2>1, JobAssumption
    <3> QED BY <3>1 DEF NodeType
  <2> QED BY <1>6, <1>8, <2>1, <2>2
<1>12. m_nodes[h.index] \in NodeType
  BY <1>5, <1>6 DEF Types
<1>13. /\ m_nodes'[h.index].func = 0
       /\ m_nodes'[h.index].dependents = m_nodes[h.index].dependents
       /\ m_nodes'[h.index].generation = m_nodes[h.index].generation
       /\ m_nodes'[h.index].remaining = m_nodes[h.index].remaining
       /\ m_nodes'[h.index].completed = m_nodes[h.index].completed
       /\ m_nodes'[h.index].scheduled = m_nodes[h.index].scheduled
       /\ m_nodes'[h.index].completedGeneration = m_nodes[h.index].completedGeneration
  BY <1>11, <1>12 DEF NodeType
<1>14. Skeleton
  BY <1>8, <1>10, <1>11, <1>13 DEF Skeleton
<1>15. /\ \A k : Live(k)' <=> Live(k)
       /\ \A x : Open(x)' <=> Open(x)
       /\ \A r : CallOK(r)' <=> CallOK(r)
       /\ Numbered' /\ FreeOnce' /\ Generations' /\ Lists'
  BY <1>14, SkeletonFacts
<1>16. \A k \in submitted : handle[k].index \in DOMAIN m_nodes
  BY DEF Inv, Numbered
<1>17. Owned'
  <2>1. ASSUME NEW i \in DOMAIN m_nodes PROVE NodeOK(i)'
    <3>1. NodeOK(i)
      BY <1>5 DEF Owned
    <3>2. CASE i = h.index
      BY <1>6, <1>8, <1>10, <1>11, <1>13, <1>15, <3>1, <3>2 DEF NodeOK
    <3>3. CASE i # h.index
      <4>1. m_nodes'[i] = m_nodes[i]
        BY <1>11, <3>3
      <4>2. m_nodes[i].func # 0 => m_nodes[i].func \in Jobs /\ m_nodes[i].func # j
        BY <1>7, <1>10, <3>1, <3>3 DEF NodeOK, Live
      <4> QED BY <1>8, <1>9, <1>10, <1>11, <1>15, <3>1, <4>1, <4>2 DEF NodeOK
    <3> QED BY <3>2, <3>3
  <2>2. ASSUME NEW k \in submitted
        PROVE  (state[k] # "ended" => Live(k))' /\ (state[k] = "pending" => m_nodes[handle[k].index].func = k)'
    <3>1. k \in Jobs
      BY <1>10
    <3>2. state'[k] # "ended" => Live(k)
      BY <1>5, <1>7, <1>9, <3>1 DEF Owned
    <3>3. ASSUME state'[k] = "pending" PROVE m_nodes'[handle[k].index].func = k
      <4>1. k # j /\ state[k] = "pending"
        BY <1>9, <3>1, <3>3
      <4>2. m_nodes[handle[k].index].func = k
        BY <1>5, <4>1 DEF Owned
      <4>3. handle[k].index # h.index
        BY <1>1, <4>1, <4>2
      <4> QED BY <1>11, <1>16, <4>2, <4>3
    <3> QED BY <1>8, <1>15, <3>2, <3>3
  <2> QED BY <1>10, <1>11, <2>1, <2>2 DEF Owned
<1>18. Linked'
  <2>1. SUFFICES ASSUME NEW k \in submitted, state'[k] = "pending", NEW d \in deps[k], Live(d)
                 PROVE  \E q \in DOMAIN m_nodes'[handle[d].index].dependents :
                          m_nodes'[handle[d].index].dependents[q] = handle[k]
    BY <1>8, <1>10, <1>15 DEF Linked
  <2>2. state[k] = "pending"
    BY <1>9, <1>10, <2>1
  <2>3. handle[d].index \in DOMAIN m_nodes
    BY <1>16, <2>1 DEF Live
  <2>4. \E q \in DOMAIN m_nodes[handle[d].index].dependents :
          m_nodes[handle[d].index].dependents[q] = handle[k]
    BY <2>1, <2>2 DEF Inv, Linked
  <2> QED BY <1>14, <2>3, <2>4 DEF Skeleton
<1>19. \A x : Due(x) /\ x # h => Due(x)'
  <2>1. SUFFICES ASSUME NEW x, Due(x), x # h PROVE Due(x)'
    OBVIOUS
  <2>2. x = HandleOf(m_nodes, x.index) /\ Open(x) /\ x.index \in DOMAIN m_nodes
    BY <1>5, <2>1, OpenFact DEF Due, Open
  <2>3. x.index # h.index
    BY <1>6, <2>1, <2>2
  <2> QED BY <1>11, <1>15, <2>1, <2>2, <2>3 DEF Due
<1>20. InFrame(t, n, -1, h)
  BY <1>1, <1>4 DEF InFrame, Carries
<1>21. PoolDue'
  <2>1. SUFFICES ASSUME NEW p \in DOMAIN poolTasks, NEW x, x = poolTasks[p] PROVE Due(x)'
    BY <1>8 DEF PoolDue
  <2>2. Due(x) /\ InPool(p, x)
    BY <1>5, <2>1 DEF PoolDue, InPool
  <2>3. x # h
    BY <1>5, <1>20, <2>2 DEF CarriedOnce
  <2> QED BY <1>19, <2>2, <2>3
<1>22. \A e : FrameOK(e) => FrameOK(e)' /\ (e.fn = j => e.at \notin
              {"run", "complete", "signal", "batch", "retire", "retireNotify"})
  <2>1. SUFFICES ASSUME NEW e, FrameOK(e)
                 PROVE  FrameOK(e)' /\ (e.fn = j => e.at \notin
                          {"run", "complete", "signal", "batch", "retire", "retireNotify"})
    OBVIOUS
  <2>2. CASE e.at \in {"run", "complete"}
    <3>1. Live(e.fn) /\ handle[e.fn] = e.cur /\ m_nodes[e.cur.index].func = 0 /\ m_nodes[e.cur.index].scheduled
      BY <2>1, <2>2 DEF FrameOK
    <3>2. e.fn # j /\ e.fn \in Jobs /\ e.cur.index \in DOMAIN m_nodes
      BY <1>1, <1>7, <1>10, <1>16, <3>1 DEF Live
    <3>3. e.cur.index # h.index
      BY <1>1, <1>7, <3>1
    <3>4. m_nodes'[e.cur.index] = m_nodes[e.cur.index]
      BY <1>11, <3>2, <3>3
    <3> QED BY <1>8, <1>9, <1>10, <1>15, <2>1, <2>2, <3>2, <3>4 DEF FrameOK
  <2>3. CASE e.at \in {"signal", "batch", "retire", "retireNotify"}
    <3>1. e.fn # j /\ e.fn \in Jobs
      BY <1>7, <1>10, <2>1, <2>3 DEF FrameOK
    <3> QED BY <1>8, <1>9, <1>10, <1>15, <2>1, <2>3, <3>1 DEF FrameOK
  <2>4. CASE e.at \notin {"run", "complete", "signal", "batch", "retire", "retireNotify"}
    BY <2>1, <2>4 DEF FrameOK
  <2> QED BY <2>2, <2>3, <2>4
<1>23. \A u \in Threads : \A k \in DOMAIN stack[u] : Keeps(u, k) \/ (u = t /\ k = Len(stack[t]))
  <2>1. SUFFICES ASSUME NEW u \in Threads, NEW k \in DOMAIN stack[u], ~(u = t /\ k = n),
                        NEW e, e = stack[u][k]
                 PROVE  FrameOK(e)' /\ FrameDue(e)'
    BY <1>1 DEF Keeps
  <2>2. FrameOK(e) /\ FrameDue(e)
    BY <1>5, <2>1 DEF Frames
  <2>3. \A q : ~ Carries(e, q, h)
    <3>1. \A q : ~ InFrame(u, k, q, h)
      BY <1>5, <1>20, <2>1 DEF CarriedOnce
    <3> QED BY <2>1, <3>1 DEF InFrame
  <2>4. FrameDue(e)'
    <3>1. e.at \in {"enqueue", "take"} => e.cur # h
      BY <2>3 DEF Carries
    <3>2. valid(e.cont) => e.cont # h
      BY <2>3 DEF Carries
    <3>3. \A q \in DOMAIN e.batch : e.batch[q] # h
      BY <2>3 DEF Carries
    <3> QED BY <1>19, <2>2, <3>1, <3>2, <3>3 DEF FrameDue
  <2> QED BY <1>22, <2>2, <2>4
<1>24. /\ g \in FrameType /\ g.at = "run" /\ g.cur = h /\ g.depth = f.depth
       /\ g.fn = j /\ g.cont = f.cont /\ g.batch = f.batch
  <2>1. "run" \in FrameAt /\ j \in 0 .. MaxJobs
    BY <1>7 DEF FrameAt, Jobs
  <2> QED BY <1>1, <1>2, <1>4, <2>1 DEF FrameType
<1>25. f.cont = NoHandle /\ f.batch = <<>>
  BY <1>4 DEF FrameOK
<1>26. FrameOK(g)' /\ FrameDue(g)'
  <2>1. FrameDue(g)'
    BY <1>24, <1>25 DEF FrameDue, valid
  <2>2. FrameOK(g)'
    BY <1>6, <1>7, <1>8, <1>9, <1>13, <1>15, <1>24, <1>25 DEF FrameOK, valid
  <2> QED BY <2>1, <2>2
<1>27. stack' \in Stacks /\ Frames'
  <2>1. ASSUME NEW u \in Threads, NEW k \in DOMAIN stack[u], stack[u][k].fn = g.fn
        PROVE  FALSE
    <3>1. PICK e : e = stack[u][k] /\ e \in FrameType /\ FrameOK(e)
      BY <1>4, <1>5, <2>1 DEF Frames, Stacks
    <3>2. e.fn = j /\ e.at \notin {"run", "complete", "signal", "batch", "retire", "retireNotify"}
      BY <1>22, <1>24, <2>1, <3>1
    <3>3. e.at \in {"enqueue", "take"}
      BY <3>1, <3>2 DEF FrameType, FrameAt
    <3> QED BY <1>7, <3>1, <3>2, <3>3 DEF FrameOK
  <2> QED BY <1>4, <1>5, <1>8, <1>23, <1>24, <1>26, <2>1, StackSetTop
<1>28. \A u \in Threads :
          /\ DOMAIN stack'[u] = DOMAIN stack[u]
          /\ \A k \in DOMAIN stack[u] : stack'[u][k] = IF u = t /\ k = n THEN g ELSE stack[u][k]
  BY <1>1, <1>4, <1>8, <1>24, SetTopFact
<1>29. CarryStep
  <2>1. \A q, x : Carries(g, q, x) <=> Carries(f, q, x)
    BY <1>1, <1>4, <1>24 DEF Carries
  <2>2. \A u \in Threads : \A k \in DOMAIN stack[u] : \A q, x :
          Carries(stack'[u][k], q, x) <=> Carries(stack[u][k], q, x)
    BY <1>4, <1>28, <2>1
  <2> QED BY <1>5, <1>8, <1>28, <2>2, CarrySame
<1>30. Carriage'
  <2>1. CarriedSome'
    BY <1>14, <1>29, CarriedSomeKept
  <2> QED BY <1>21, <1>29, <2>1 DEF Carriage, CarryStep
<1>31. PendingExact'
  <2>1. \A u, k, i : RetiresAt(u, k, i)' <=> RetiresAt(u, k, i)
    BY <1>4, <1>24, <1>28 DEF RetiresAt
  <2>2. Unretired' = Unretired
    BY <1>10, <1>15, <2>1 DEF Unretired, Retiring
  <2> QED BY <1>8, <2>2 DEF Inv, PendingExact
<1>32. Types'
  <2>1. state' \in [Jobs -> {"none", "pending", "running", "ended"}]
    BY <1>5, <1>8 DEF Types
  <2> QED BY <1>5, <1>8, <1>11, <1>27, <2>1 DEF Types
<1>33. Calls'
  BY <1>8, <1>15 DEF Inv, Calls
<1> QED BY <1>15, <1>17, <1>18, <1>27, <1>30, <1>31, <1>32, <1>33 DEF Inv
-----------------------------------------------------------------------------
(* The loop of submitWithDependencies() is a recursive function.           *)
LEMMA LinkLoop ==
  ASSUME NEW N, NEW out, NEW S, NEW list \in Seq(S)
  PROVE  \E f : /\ LinkDependencies(N, out, list) = f[Len(list)]
                /\ f[0] = [nodes |-> N, out |-> out, unresolved |-> 0]
                /\ \A k \in 1 .. Len(list) : f[k] = LinkDependency(f[k - 1], handle[list[k]])
<1> DEFINE n == Len(list)
           e0 == [nodes |-> N, out |-> out, unresolved |-> 0]
           Def(f, m) == f = [k \in 0 .. m |->
                               IF k = 0 THEN e0 ELSE LinkDependency(f[k - 1], handle[list[k]])]
           Bad == {m \in Nat : ~ \E f : Def(f, m)}
<1>0. n \in Nat
  OBVIOUS
<1>1. Bad = {}
  <2>1. SUFFICES ASSUME Bad # {} PROVE FALSE
    OBVIOUS
  <2>2. PICK m \in Bad : \A k \in Bad : m <= k
    BY <2>1, Smallest
  <2>3. m # 0
    <3>1. Def([k \in 0 .. 0 |-> e0], 0)
      OBVIOUS
    <3> QED BY <3>1, <2>2
  <2>4. PICK f : Def(f, m - 1)
    <3>1. m \in Nat /\ m - 1 \in Nat /\ ~(m <= m - 1)
      BY <2>2, <2>3
    <3> HIDE DEF Def
    <3> QED BY <2>2, <3>1
  <2> DEFINE g == [k \in 0 .. m |-> IF k < m THEN f[k] ELSE LinkDependency(f[m - 1], handle[list[m]])]
  <2>5. Def(g, m)
    <3>1. m \in Nat /\ m - 1 \in Nat
      BY <2>2, <2>3
    <3>2. \A k \in 0 .. m - 1 : g[k] = f[k] /\ k \in 0 .. m
      BY <3>1
    <3>3. \A k \in 0 .. m - 1 : f[k] = IF k = 0 THEN e0 ELSE LinkDependency(f[k - 1], handle[list[k]])
      BY <2>4
    <3>4. \A k \in 0 .. m : g[k] = IF k = 0 THEN e0 ELSE LinkDependency(g[k - 1], handle[list[k]])
      <4> TAKE k \in 0 .. m
      <4>1. CASE k = m
        <5>1. g[m] = LinkDependency(f[m - 1], handle[list[m]])
          BY <3>1
        <5>2. g[m - 1] = f[m - 1]
          BY <3>1, <3>2
        <5> QED BY <2>3, <4>1, <5>1, <5>2
      <4>2. CASE k # m
        <5>1. k \in 0 .. m - 1 /\ (k # 0 => k - 1 \in 0 .. m - 1)
          BY <3>1, <4>2
        <5> HIDE DEF g
        <5> QED BY <3>2, <3>3, <5>1
      <4> QED BY <4>1, <4>2
    <3>5. g = [k \in 0 .. m |-> g[k]]
      OBVIOUS
    <3> HIDE DEF g
    <3> QED BY <3>4, <3>5
  <2> QED BY <2>2, <2>5
<1>2. PICK f : f = (CHOOSE G : Def(G, n))
  OBVIOUS
<1>3. Def(f, n)
  BY <1>0, <1>1, <1>2
<1>4. LinkDependencies(N, out, list) = f[n]
  BY <1>2 DEF LinkDependencies
<1>5. f[0] = e0 /\ \A k \in 1 .. n : f[k] = LinkDependency(f[k - 1], handle[list[k]])
  BY <1>0, <1>3
<1> QED BY <1>4, <1>5

(* Handle h stands at place q of the list of node i, which is in use.      *)
ListedAt(nodes, i, q, h) ==
  /\ i \in DOMAIN nodes /\ q \in DOMAIN nodes[i].dependents
  /\ ~ nodes[i].completed /\ nodes[i].dependents[q] = h

(* Listed is a set of pairs <<node, position>>, those ListedAt describes.  *)
LEMMA ListedPairs ==
  ASSUME NEW nodes, NEW h
  PROVE  /\ \A i, q : <<i, q>> \in Listed(nodes, h) <=> ListedAt(nodes, i, q, h)
         /\ \A p \in Listed(nodes, h) : \E i, q : p = <<i, q>>
BY DEF Listed, ListedAt

(* Listed depends only on where the handle is listed.                      *)
LEMMA ListedSame ==
  ASSUME NEW M, NEW N, NEW g, NEW h, \A i, q : ListedAt(M, i, q, g) <=> ListedAt(N, i, q, h)
  PROVE  Listed(M, g) = Listed(N, h)
<1>1. \A p \in Listed(M, g) : p \in Listed(N, h)
  BY ListedPairs
<1>2. \A p \in Listed(N, h) : p \in Listed(M, g)
  BY ListedPairs
<1> QED BY <1>1, <1>2

(* The nodes M are the nodes N with out at the end of some lists.          *)
Extends(M, N, out) ==
  /\ M \in Seq(NodeType) /\ Len(M) = Len(N) /\ DOMAIN M = DOMAIN N
  /\ \A i \in DOMAIN N :
       /\ M[i].func = N[i].func /\ M[i].generation = N[i].generation
       /\ M[i].remaining = N[i].remaining /\ M[i].completed = N[i].completed
       /\ M[i].scheduled = N[i].scheduled /\ M[i].completedGeneration = N[i].completedGeneration
       /\ \A q \in DOMAIN N[i].dependents :
            q \in DOMAIN M[i].dependents /\ M[i].dependents[q] = N[i].dependents[q]
       /\ \A q \in DOMAIN M[i].dependents :
            q \in DOMAIN N[i].dependents \/ M[i].dependents[q] = out

(* Linking dependents does not change which handles resolve.               *)
LEMMA ResolvesExtended ==
  ASSUME NEW N, NEW M, NEW out, Extends(M, N, out), NEW h, h.index \in DOMAIN N
  PROVE  Resolves(M, h) <=> Resolves(N, h)
BY DEF Resolves, Extends

AddDependent(M, h, out) == [M EXCEPT ![h.index].dependents = Append(@, out)]

(* The nodes L are the nodes M with out listed once more, by h's node; the
   job of out then waits for one dependency more than c.                   *)
LinkAdds(L, M, N, h, out, c) ==
  /\ Extends(L, N, out)
  /\ IsFiniteSet(Listed(L, out)) /\ Cardinality(Listed(L, out)) = c + 1
  /\ \A i \in DOMAIN N : \A q \in DOMAIN M[i].dependents :
       q \in DOMAIN L[i].dependents /\ L[i].dependents[q] = M[i].dependents[q]
  /\ \A i \in DOMAIN N : i # h.index => L[i].dependents = M[i].dependents
  /\ \E q \in DOMAIN L[h.index].dependents : L[h.index].dependents[q] = out

(* Adding the new job to one dependency's list raises the number of its
   listings by one and disturbs no other entry.                            *)
LEMMA LinkOne ==
  ASSUME NEW N \in Seq(NodeType), NEW out \in HandleType, NEW M, Extends(M, N, out),
         NEW c \in Nat, NEW h \in HandleType, h.index \in DOMAIN N, Resolves(M, h),
         IsFiniteSet(Listed(M, out)), Cardinality(Listed(M, out)) = c,
         NEW L, L = AddDependent(M, h, out)
  PROVE  LinkAdds(L, M, N, h, out, c)
<1>1. PICK a, d, m : a = h.index /\ d = M[a].dependents /\ m = Len(d)
  OBVIOUS
<1>2. /\ M \in Seq(NodeType) /\ DOMAIN M = DOMAIN N /\ Len(M) = Len(N) /\ a \in DOMAIN M
      /\ M[a] \in NodeType /\ ~ M[a].completed
  BY <1>1 DEF Extends, Resolves
<1>3. d \in Seq(HandleType) /\ m \in Nat /\ DOMAIN d = 1 .. m
  BY <1>1, <1>2 DEF NodeType
<1>4. PICK e \in Seq(HandleType) : e = Append(d, out)
  <2>1. Append(d, out) \in Seq(HandleType)
    BY <1>3, AppendProperties
  <2> QED BY <2>1
<1>5. DOMAIN e = 1 .. m + 1 /\ e[m + 1] = out /\ \A q \in 1 .. m : e[q] = d[q]
  BY <1>1, <1>3, <1>4
<1>6. PICK node : node = [M[a] EXCEPT !.dependents = e]
  OBVIOUS
<1>7. /\ node \in NodeType /\ node.dependents = e
      /\ node.func = M[a].func /\ node.generation = M[a].generation
      /\ node.remaining = M[a].remaining /\ node.completed = M[a].completed
      /\ node.scheduled = M[a].scheduled /\ node.completedGeneration = M[a].completedGeneration
  BY <1>2, <1>4, <1>6 DEF NodeType
<1>8. /\ L \in Seq(NodeType) /\ DOMAIN L = DOMAIN M /\ Len(L) = Len(M) /\ L[a] = node
      /\ \A i \in DOMAIN M : i # a => L[i] = M[i]
  <2>1. L = [M EXCEPT ![a] = node]
    BY <1>1, <1>4, <1>6 DEF AddDependent
  <2> QED BY <1>2, <1>7, <2>1
<1>9. \A q : q \in 1 .. m + 1 <=> q \in 1 .. m \/ q = m + 1
  BY <1>3
<1>10. \A i \in DOMAIN N : \A q \in DOMAIN M[i].dependents :
         q \in DOMAIN L[i].dependents /\ L[i].dependents[q] = M[i].dependents[q]
  <2>1. ASSUME NEW i \in DOMAIN N, NEW q \in DOMAIN M[i].dependents
        PROVE  q \in DOMAIN L[i].dependents /\ L[i].dependents[q] = M[i].dependents[q]
    <3>1. CASE i = a
      <4>1. q \in 1 .. m
        BY <1>1, <1>3, <2>1, <3>1
      <4> QED BY <1>1, <1>5, <1>7, <1>8, <1>9, <3>1, <4>1
    <3>2. CASE i # a
      BY <1>2, <1>8, <2>1, <3>2
    <3> QED BY <3>1, <3>2
  <2> QED BY <2>1
<1>11. \A i \in DOMAIN N : \A q \in DOMAIN L[i].dependents :
         q \in DOMAIN M[i].dependents \/ (i = a /\ q = m + 1 /\ L[i].dependents[q] = out)
  <2>1. ASSUME NEW i \in DOMAIN N, NEW q \in DOMAIN L[i].dependents
        PROVE  q \in DOMAIN M[i].dependents \/ (i = a /\ q = m + 1 /\ L[i].dependents[q] = out)
    <3>1. CASE i = a
      BY <1>1, <1>3, <1>5, <1>7, <1>8, <1>9, <2>1, <3>1
    <3>2. CASE i # a
      BY <1>2, <1>8, <2>1, <3>2
    <3> QED BY <3>1, <3>2
  <2> QED BY <2>1
<1>12. \A i \in DOMAIN N :
       /\ L[i].func = M[i].func /\ L[i].generation = M[i].generation
       /\ L[i].remaining = M[i].remaining /\ L[i].completed = M[i].completed
       /\ L[i].scheduled = M[i].scheduled /\ L[i].completedGeneration = M[i].completedGeneration
  BY <1>2, <1>7, <1>8
<1>13. Extends(L, N, out)
  <2>1. ASSUME NEW i \in DOMAIN N
        PROVE  /\ \A q \in DOMAIN N[i].dependents :
                    q \in DOMAIN L[i].dependents /\ L[i].dependents[q] = N[i].dependents[q]
               /\ \A q \in DOMAIN L[i].dependents :
                    q \in DOMAIN N[i].dependents \/ L[i].dependents[q] = out
    <3>1. /\ \A q \in DOMAIN N[i].dependents :
               q \in DOMAIN M[i].dependents /\ M[i].dependents[q] = N[i].dependents[q]
          /\ \A q \in DOMAIN M[i].dependents :
               q \in DOMAIN N[i].dependents \/ M[i].dependents[q] = out
      BY DEF Extends
    <3>2. \A q \in DOMAIN N[i].dependents :
            q \in DOMAIN L[i].dependents /\ L[i].dependents[q] = N[i].dependents[q]
      BY <1>10, <3>1
    <3>3. \A q \in DOMAIN L[i].dependents :
            q \in DOMAIN N[i].dependents \/ L[i].dependents[q] = out
      BY <1>10, <1>11, <3>1
    <3> QED BY <3>2, <3>3
  <2>2. ASSUME NEW i \in DOMAIN N
        PROVE  /\ L[i].func = N[i].func /\ L[i].generation = N[i].generation
               /\ L[i].remaining = N[i].remaining /\ L[i].completed = N[i].completed
               /\ L[i].scheduled = N[i].scheduled /\ L[i].completedGeneration = N[i].completedGeneration
    BY <1>12 DEF Extends
  <2> QED BY <1>2, <1>8, <2>1, <2>2 DEF Extends
<1>14. \A i, q : ListedAt(L, i, q, out) <=> ListedAt(M, i, q, out) \/ (i = a /\ q = m + 1)
  <2>1. ASSUME NEW i, NEW q, ListedAt(L, i, q, out)
        PROVE  ListedAt(M, i, q, out) \/ (i = a /\ q = m + 1)
    <3>1. i \in DOMAIN N /\ q \in DOMAIN L[i].dependents /\ ~ M[i].completed
      BY <1>2, <1>8, <1>12, <2>1 DEF ListedAt
    <3>2. CASE q \in DOMAIN M[i].dependents
      BY <1>2, <1>10, <2>1, <3>1, <3>2 DEF ListedAt
    <3> QED BY <1>11, <3>1, <3>2
  <2>2. ASSUME NEW i, NEW q, ListedAt(M, i, q, out) PROVE ListedAt(L, i, q, out)
    BY <1>2, <1>8, <1>10, <1>12, <2>2 DEF ListedAt
  <2>3. ListedAt(L, a, m + 1, out)
    BY <1>2, <1>5, <1>7, <1>8, <1>9 DEF ListedAt
  <2> QED BY <2>1, <2>2, <2>3
<1>15. ~ ListedAt(M, a, m + 1, out)
  <2>1. m + 1 \notin 1 .. m
    BY <1>3
  <2> QED BY <1>1, <1>3, <2>1 DEF ListedAt
<1>16. Listed(L, out) = Listed(M, out) \cup {<<a, m + 1>>}
  <2>1. \A p \in Listed(L, out) : p \in Listed(M, out) \cup {<<a, m + 1>>}
    <3>1. SUFFICES ASSUME NEW p \in Listed(L, out) PROVE p \in Listed(M, out) \cup {<<a, m + 1>>}
      OBVIOUS
    <3>2. PICK i, q : p = <<i, q>>
      BY ListedPairs
    <3>3. ListedAt(L, i, q, out)
      BY <3>2, ListedPairs
    <3>4. ListedAt(M, i, q, out) => p \in Listed(M, out)
      BY <3>2, ListedPairs
    <3> QED BY <1>14, <3>2, <3>3, <3>4
  <2>2. \A p \in Listed(M, out) : p \in Listed(L, out)
    <3>1. SUFFICES ASSUME NEW p \in Listed(M, out) PROVE p \in Listed(L, out)
      OBVIOUS
    <3>2. PICK i, q : p = <<i, q>>
      BY ListedPairs
    <3>3. ListedAt(L, i, q, out)
      BY <1>14, <3>2, ListedPairs
    <3> QED BY <3>2, <3>3, ListedPairs
  <2>3. <<a, m + 1>> \in Listed(L, out)
    BY <1>14, ListedPairs
  <2> QED BY <2>1, <2>2, <2>3
<1>17. <<a, m + 1>> \notin Listed(M, out)
  BY <1>15, ListedPairs
<1>18. IsFiniteSet(Listed(L, out)) /\ Cardinality(Listed(L, out)) = c + 1
  <2>1. PICK A, x : A = Listed(M, out) /\ x = <<a, m + 1>>
    OBVIOUS
  <2>2. IsFiniteSet(A) /\ Cardinality(A) = c /\ x \notin A /\ Listed(L, out) = A \cup {x}
    BY <1>16, <1>17, <2>1
  <2>3. IsFiniteSet(A \cup {x}) /\ Cardinality(A \cup {x}) = Cardinality(A) + 1
    BY <2>2, FS_AddElement
  <2> QED BY <2>2, <2>3
<1>19. \E q \in DOMAIN L[h.index].dependents : L[h.index].dependents[q] = out
  BY <1>1, <1>5, <1>7, <1>8, <1>9
<1>20. \A i \in DOMAIN N : i # h.index => L[i].dependents = M[i].dependents
  BY <1>1, <1>2, <1>8
<1> QED BY <1>10, <1>13, <1>18, <1>19, <1>20 DEF LinkAdds
-----------------------------------------------------------------------------
(* What the loop has done after the first m dependencies.                  *)
LinkGood(st, N, out, list, m) ==
  \E M, c :
    /\ st = [nodes |-> M, out |-> out, unresolved |-> c] /\ c \in Nat
    /\ Extends(M, N, out)
    /\ IsFiniteSet(Listed(M, out)) /\ Cardinality(Listed(M, out)) = c
    /\ \A k \in DOMAIN list : k <= m /\ Resolves(N, handle[list[k]]) =>
         \E q \in DOMAIN M[handle[list[k]].index].dependents :
           M[handle[list[k]].index].dependents[q] = out
    /\ \A i \in DOMAIN N :
         (\A k \in DOMAIN list : handle[list[k]].index = i => ~ Resolves(N, handle[list[k]])) =>
           M[i].dependents = N[i].dependents

(* One turn of the loop of submitWithDependencies keeps what is known of
   the turns so far.                                                       *)
LEMMA LinkStep ==
  ASSUME NEW N \in Seq(NodeType), NEW out \in HandleType, NEW S, NEW list \in Seq(S),
         \A k \in DOMAIN list : handle[list[k]] \in HandleType /\ handle[list[k]].index \in DOMAIN N,
         NEW m \in 1 .. Len(list), NEW st, LinkGood(st, N, out, list, m - 1)
  PROVE  LinkGood(LinkDependency(st, handle[list[m]]), N, out, list, m)
<1>1. PICK M, c :
        /\ st = [nodes |-> M, out |-> out, unresolved |-> c] /\ c \in Nat
        /\ Extends(M, N, out)
        /\ IsFiniteSet(Listed(M, out)) /\ Cardinality(Listed(M, out)) = c
        /\ \A k \in DOMAIN list : k <= m - 1 /\ Resolves(N, handle[list[k]]) =>
             \E q \in DOMAIN M[handle[list[k]].index].dependents :
               M[handle[list[k]].index].dependents[q] = out
        /\ \A i \in DOMAIN N :
             (\A k \in DOMAIN list : handle[list[k]].index = i => ~ Resolves(N, handle[list[k]])) =>
               M[i].dependents = N[i].dependents
  BY DEF LinkGood
<1>2. PICK h : h = handle[list[m]] /\ h \in HandleType /\ h.index \in DOMAIN N
  OBVIOUS
<1>3. m \in DOMAIN list /\ \A k \in DOMAIN list : k <= m => k <= m - 1 \/ k = m
  OBVIOUS
<1>4. Resolves(M, h) <=> Resolves(N, h)
  BY <1>1, <1>2, ResolvesExtended
<1>5. CASE ~ Resolves(M, h)
  <2>1. LinkDependency(st, h) = st
    BY <1>1, <1>5 DEF LinkDependency
  <2>2. \A k \in DOMAIN list : k <= m /\ Resolves(N, handle[list[k]]) =>
          \E q \in DOMAIN M[handle[list[k]].index].dependents :
            M[handle[list[k]].index].dependents[q] = out
    BY <1>1, <1>2, <1>3, <1>4, <1>5
  <2>3. LinkGood(st, N, out, list, m)
    BY <1>1, <2>2 DEF LinkGood
  <2> QED BY <1>2, <2>1, <2>3
<1>6. CASE Resolves(M, h)
  <2>1. PICK L : L = AddDependent(M, h, out)
    OBVIOUS
  <2>2. LinkDependency(st, h) = [nodes |-> L, out |-> out, unresolved |-> c + 1]
    BY <1>1, <1>6, <2>1 DEF LinkDependency, AddDependent
  <2>3. /\ Extends(L, N, out)
        /\ IsFiniteSet(Listed(L, out)) /\ Cardinality(Listed(L, out)) = c + 1
        /\ \A i \in DOMAIN N : \A q \in DOMAIN M[i].dependents :
             q \in DOMAIN L[i].dependents /\ L[i].dependents[q] = M[i].dependents[q]
        /\ \A i \in DOMAIN N : i # h.index => L[i].dependents = M[i].dependents
        /\ \E q \in DOMAIN L[h.index].dependents : L[h.index].dependents[q] = out
    <3>1. c \in Nat /\ Extends(M, N, out) /\ IsFiniteSet(Listed(M, out)) /\ Cardinality(Listed(M, out)) = c
      BY <1>1
    <3>2. h \in HandleType /\ h.index \in DOMAIN N
      BY <1>2
    <3>3. LinkAdds(L, M, N, h, out, c)
      BY <1>6, <2>1, <3>1, <3>2, LinkOne
    <3> QED BY <3>3 DEF LinkAdds
  <2>4. ASSUME NEW k \in DOMAIN list, k <= m, Resolves(N, handle[list[k]])
        PROVE  \E q \in DOMAIN L[handle[list[k]].index].dependents :
                 L[handle[list[k]].index].dependents[q] = out
    <3>1. CASE k = m
      BY <1>2, <2>3, <3>1
    <3>2. CASE k # m
      <4>1. k <= m - 1 /\ handle[list[k]].index \in DOMAIN N
        BY <1>3, <2>4, <3>2
      <4>2. PICK q \in DOMAIN M[handle[list[k]].index].dependents :
              M[handle[list[k]].index].dependents[q] = out
        BY <1>1, <2>4, <4>1
      <4> QED BY <2>3, <4>1, <4>2
    <3> QED BY <3>1, <3>2
  <2>5. ASSUME NEW i \in DOMAIN N,
               \A k \in DOMAIN list : handle[list[k]].index = i => ~ Resolves(N, handle[list[k]])
        PROVE  L[i].dependents = N[i].dependents
    <3>1. i # h.index
      BY <1>2, <1>3, <1>4, <1>6, <2>5
    <3> QED BY <1>1, <2>3, <2>5, <3>1
  <2>6. c + 1 \in Nat
    BY <1>1
  <2>7. LinkGood([nodes |-> L, out |-> out, unresolved |-> c + 1], N, out, list, m)
    BY <2>3, <2>4, <2>5, <2>6 DEF LinkGood
  <2> QED BY <1>2, <2>2, <2>7
<1> QED BY <1>5, <1>6

(* What submitWithDependencies() has done to the nodes.                    *)
LEMMA LinkFacts ==
  ASSUME NEW N \in Seq(NodeType), NEW out \in HandleType, NEW S, NEW list \in Seq(S),
         \A k \in DOMAIN list : handle[list[k]] \in HandleType /\ handle[list[k]].index \in DOMAIN N,
         Listed(N, out) = {}
  PROVE  LinkGood(LinkDependencies(N, out, list), N, out, list, Len(list))
<1>1. PICK f :
        /\ LinkDependencies(N, out, list) = f[Len(list)]
        /\ f[0] = [nodes |-> N, out |-> out, unresolved |-> 0]
        /\ \A k \in 1 .. Len(list) : f[k] = LinkDependency(f[k - 1], handle[list[k]])
  BY LinkLoop
<1>2. PICK n \in Nat : n = Len(list) /\ DOMAIN list = 1 .. n
  OBVIOUS
<1>3. LinkGood(f[0], N, out, list, 0)
  <2>1. Extends(N, N, out)
    BY DEF Extends
  <2>2. IsFiniteSet(Listed(N, out)) /\ Cardinality(Listed(N, out)) = 0
    BY FS_EmptySet
  <2>3. \A k \in DOMAIN list : ~(k <= 0)
    BY <1>2
  <2>4. 0 \in Nat
    OBVIOUS
  <2> QED BY <1>1, <2>1, <2>2, <2>3, <2>4 DEF LinkGood
<1> DEFINE Bad == {m \in 0 .. n : ~ LinkGood(f[m], N, out, list, m)}
<1>4. Bad = {}
  <2>1. SUFFICES ASSUME Bad # {} PROVE FALSE
    OBVIOUS
  <2>2. PICK m \in Bad : \A k \in Bad : m <= k
    <3>1. Bad \in SUBSET Nat
      BY <1>2
    <3> HIDE DEF Bad
    <3> QED BY <2>1, <3>1, Smallest
  <2>3. m \in 0 .. n /\ m # 0 /\ ~ LinkGood(f[m], N, out, list, m)
    BY <1>3, <2>2
  <2>4. m \in 1 .. n /\ m - 1 \in 0 .. n /\ ~(m <= m - 1)
    BY <1>2, <2>3
  <2>5. m - 1 \notin Bad
    <3> HIDE DEF Bad
    <3> QED BY <2>2, <2>4
  <2>6. LinkGood(f[m - 1], N, out, list, m - 1)
    BY <2>4, <2>5
  <2>7. m \in 1 .. Len(list)
    BY <1>2, <2>4
  <2>8. LinkGood(LinkDependency(f[m - 1], handle[list[m]]), N, out, list, m)
    BY <2>6, <2>7, LinkStep
  <2> QED BY <1>1, <2>3, <2>7, <2>8
<1>5. n \in 0 .. n
  BY <1>2
<1> QED BY <1>1, <1>2, <1>4, <1>5
-----------------------------------------------------------------------------
(* Replacing one entry of a sequence.                                      *)
LEMMA ReplaceFact ==
  ASSUME NEW S, NEW s \in Seq(S), NEW i \in DOMAIN s, NEW x \in S, NEW r, r = [s EXCEPT ![i] = x]
  PROVE  /\ r \in Seq(S) /\ Len(r) = Len(s) /\ DOMAIN r = DOMAIN s /\ r[i] = x
         /\ \A k \in DOMAIN s : k # i => r[k] = s[k]
OBVIOUS

(* acquireNodeLocked() hands out a free node, or a new one.                *)
Acquired(j, a, N) ==
  /\ N \in Seq(NodeType) /\ DOMAIN N = DOMAIN m_nodes \cup {a}
  /\ Len(N) <= Cardinality(submitted) + 1 /\ a \in Nat \ {0} /\ a <= Len(N)
  /\ \A i \in DOMAIN m_nodes : i # a => N[i] = m_nodes[i]
  /\ N[a].func = j /\ N[a].dependents = <<>> /\ ~ N[a].completed
  /\ a \in DOMAIN m_nodes =>
       /\ m_nodes[a].completed /\ N[a].generation = m_nodes[a].generation
       /\ N[a].completedGeneration = m_nodes[a].completedGeneration
  /\ a \notin DOMAIN m_nodes => N[a].completedGeneration = 0

(* acquireNodeLocked() hands out a free node or a new one, and touches no
   other.                                                                  *)
LEMMA AcquireFacts ==
  ASSUME Inv, NEW j \in Jobs, NEW a, a = AcquireIndex, NEW N, N = acquireNodeLocked(j)
  PROVE  Acquired(j, a, N)
<1>1. PICK G : G = IF m_freeNodes # <<>> THEN m_nodes ELSE Append(m_nodes, FreshNode)
  OBVIOUS
<1>2. m_nodes \in Seq(NodeType) /\ m_freeNodes \in Seq(1 .. MaxJobs) /\ FreeOnce
      /\ Len(m_nodes) \in Nat /\ Len(m_nodes) <= Cardinality(submitted)
      /\ DOMAIN m_nodes = 1 .. Len(m_nodes) /\ Cardinality(submitted) \in Nat
  BY JobsFinite DEF Inv, Types, Numbered
<1>3. /\ G \in Seq(NodeType) /\ DOMAIN G = DOMAIN m_nodes \cup {a}
      /\ Len(G) <= Cardinality(submitted) + 1 /\ a \in Nat \ {0} /\ a <= Len(G)
      /\ \A i \in DOMAIN m_nodes : G[i] = m_nodes[i]
      /\ a \in DOMAIN m_nodes => m_nodes[a].completed
      /\ a \notin DOMAIN m_nodes => G[a] = FreshNode
  <2>1. CASE m_freeNodes # <<>>
    <3>1. G = m_nodes /\ a = m_freeNodes[Len(m_freeNodes)]
      BY <1>1, <2>1 DEF AcquireIndex, Last
    <3>2. Len(m_freeNodes) \in DOMAIN m_freeNodes
      BY <1>2, <2>1
    <3>3. a \in DOMAIN m_nodes /\ m_nodes[a].completed
      BY <1>2, <3>1, <3>2 DEF FreeOnce
    <3>4. a \in Nat \ {0} /\ a <= Len(m_nodes) /\ Len(m_nodes) <= Cardinality(submitted) + 1
      BY <1>2, <3>3
    <3> QED BY <1>2, <3>1, <3>3, <3>4
  <2>2. CASE m_freeNodes = <<>>
    <3>1. G = Append(m_nodes, FreshNode) /\ a = Len(m_nodes) + 1
      BY <1>1, <2>2 DEF AcquireIndex
    <3>2. FreshNode \in NodeType
      <4>1. <<>> \in Seq(HandleType) /\ 0 \in 0 .. MaxJobs /\ 1 \in 1 .. GenerationLimit
            /\ 0 \in 0 .. GenerationLimit /\ 0 \in Nat
        BY JobAssumption
      <4> QED BY <4>1 DEF FreshNode, NodeType
    <3>3. /\ G \in Seq(NodeType) /\ Len(G) = Len(m_nodes) + 1 /\ G[a] = FreshNode
          /\ DOMAIN G = 1 .. Len(m_nodes) + 1
          /\ \A i \in 1 .. Len(m_nodes) : G[i] = m_nodes[i]
      BY <1>2, <3>1, <3>2, AppendProperties
    <3>4. a \notin DOMAIN m_nodes /\ 1 .. Len(m_nodes) + 1 = DOMAIN m_nodes \cup {a}
          /\ a \in Nat \ {0} /\ Len(m_nodes) + 1 <= Cardinality(submitted) + 1
      BY <1>2, <3>1
    <3>5. a <= Len(G) /\ Len(G) <= Cardinality(submitted) + 1
      BY <1>2, <3>1, <3>3, <3>4
    <3> QED BY <1>2, <3>3, <3>4, <3>5
  <2> QED BY <2>1, <2>2
<1>4. PICK n, x : n = G[a] /\ x = [n EXCEPT !.func = j, !.dependents = <<>>, !.remaining = 0,
                                  !.completed = FALSE, !.scheduled = FALSE]
  OBVIOUS
<1>5. n \in NodeType
  BY <1>3, <1>4
<1>6. x \in NodeType /\ x.func = j /\ x.dependents = <<>> /\ ~ x.completed
      /\ x.generation = n.generation /\ x.completedGeneration = n.completedGeneration
  <2>1. <<>> \in Seq(HandleType) /\ j \in 0 .. MaxJobs /\ 0 \in Nat /\ FALSE \in BOOLEAN
    BY DEF Jobs
  <2>2. x = [func |-> j, dependents |-> <<>>, generation |-> n.generation, remaining |-> 0,
             completed |-> FALSE, scheduled |-> FALSE, completedGeneration |-> n.completedGeneration]
    BY <1>4, <1>5 DEF NodeType
  <2>3. n.generation \in 1 .. GenerationLimit /\ n.completedGeneration \in 0 .. GenerationLimit
    BY <1>5 DEF NodeType
  <2>4. x \in NodeType
    BY <2>1, <2>2, <2>3 DEF NodeType
  <2> QED BY <2>2, <2>4
<1>7. N = [G EXCEPT ![a] = x]
  BY <1>1, <1>4 DEF acquireNodeLocked
<1>8. N \in Seq(NodeType) /\ Len(N) = Len(G) /\ DOMAIN N = DOMAIN G /\ N[a] = x
      /\ \A i \in DOMAIN G : i # a => N[i] = G[i]
  <2>1. a \in DOMAIN G /\ G \in Seq(NodeType) /\ x \in NodeType
    BY <1>3, <1>6
  <2> QED BY <1>7, <2>1, ReplaceFact
<1>9. a \in DOMAIN m_nodes => n = m_nodes[a]
  BY <1>3, <1>4
<1>10. a \notin DOMAIN m_nodes => n.completedGeneration = 0
  BY <1>3, <1>4 DEF FreshNode
<1> QED BY <1>3, <1>6, <1>8, <1>9, <1>10 DEF Acquired

(* Popping the free list leaves the other free nodes on it, each once.     *)
LEMMA TakeFree ==
  ASSUME Inv, NEW a, a = AcquireIndex, NEW F, F = IF m_freeNodes # <<>> THEN Front(m_freeNodes) ELSE m_freeNodes
  PROVE  /\ F \in Seq(1 .. MaxJobs)
         /\ \A k, l \in DOMAIN F : F[k] = F[l] => k = l
         /\ \A k \in DOMAIN F : F[k] \in DOMAIN m_nodes /\ m_nodes[F[k]].completed /\ F[k] # a
         /\ \A i \in DOMAIN m_nodes : m_nodes[i].completed /\ i # a => \E k \in DOMAIN F : F[k] = i
<1>1. m_freeNodes \in Seq(1 .. MaxJobs) /\ FreeOnce
  BY DEF Inv, Types
<1>2. CASE m_freeNodes = <<>>
  <2>1. F = m_freeNodes /\ DOMAIN m_freeNodes = {}
    BY <1>2
  <2> QED BY <1>1, <2>1 DEF FreeOnce
<1>3. CASE m_freeNodes # <<>>
  <2>1. PICK s \in Seq(1 .. MaxJobs) : s = m_freeNodes /\ s # <<>>
    BY <1>1, <1>3
  <2>2. PICK n \in Nat : n + 1 = Len(s)
    <3>1. Len(s) \in Nat /\ Len(s) # 0
      BY <2>1
    <3>2. Len(s) - 1 \in Nat /\ (Len(s) - 1) + 1 = Len(s)
      BY <3>1
    <3> QED BY <3>2
  <2>3. F = Front(s) /\ a = s[n + 1]
    BY <1>3, <2>1, <2>2 DEF AcquireIndex, Last
  <2>4. F \in Seq(1 .. MaxJobs) /\ Len(F) = Len(s) - 1 /\ \A k \in 1 .. Len(s) - 1 : F[k] = s[k]
    BY <2>1, <2>3, FrontFact
  <2>5. Len(s) - 1 = n /\ DOMAIN F = 1 .. n /\ DOMAIN s = 1 .. n + 1
    BY <2>1, <2>2, <2>4
  <2>6. \A k : k \in 1 .. n + 1 <=> k \in 1 .. n \/ k = n + 1
    BY <2>2
  <2>7. n + 1 \notin 1 .. n
    BY <2>2
  <2>8. \A k \in DOMAIN F : k \in DOMAIN s /\ F[k] = s[k] /\ k # n + 1
    BY <2>4, <2>5, <2>6, <2>7
  <2>9. \A k \in DOMAIN s : k \in DOMAIN F \/ k = n + 1
    BY <2>5, <2>6
  <2>10. n + 1 \in DOMAIN s
    BY <2>5, <2>6
  <2> QED BY <1>1, <2>1, <2>3, <2>4, <2>8, <2>9, <2>10 DEF FreeOnce
<1> QED BY <1>2, <1>3

(* A job is submitted: what changes, field by field.                       *)
SubmitJob(j, out, D) ==
  /\ j = Cardinality(submitted) + 1 /\ j \in Jobs /\ D \subseteq submitted
  /\ out \in HandleType /\ out.generation # 0
  /\ handle' = [handle EXCEPT ![j] = out]
  /\ state' = [state EXCEPT ![j] = "pending"]
  /\ deps' = [deps EXCEPT ![j] = D]
  /\ m_pendingJobCount' = m_pendingJobCount + 1
  /\ UNCHANGED <<workers, poolTasks, call>>

SubmitFree(a) ==
  /\ m_freeNodes' \in Seq(1 .. MaxJobs)
  /\ \A k, l \in DOMAIN m_freeNodes' : m_freeNodes'[k] = m_freeNodes'[l] => k = l
  /\ \A k \in DOMAIN m_freeNodes' :
       m_freeNodes'[k] \in DOMAIN m_nodes /\ m_nodes[m_freeNodes'[k]].completed /\ m_freeNodes'[k] # a
  /\ \A i \in DOMAIN m_nodes : m_nodes[i].completed /\ i # a =>
       \E k \in DOMAIN m_freeNodes' : m_freeNodes'[k] = i

SubmitNode(j, out, a) ==
  /\ out.index = a
  /\ m_nodes' \in Seq(NodeType) /\ DOMAIN m_nodes' = DOMAIN m_nodes \cup {a} /\ Len(m_nodes') <= j
  /\ a \in DOMAIN m_nodes =>
       /\ m_nodes[a].completed /\ out.generation = m_nodes[a].generation
       /\ m_nodes'[a].completedGeneration = m_nodes[a].completedGeneration
  /\ a \notin DOMAIN m_nodes => m_nodes'[a].completedGeneration = 0
  /\ m_nodes'[a].func = j /\ m_nodes'[a].dependents = <<>>
  /\ ~ m_nodes'[a].completed /\ m_nodes'[a].generation = out.generation
  /\ m_nodes'[a].remaining = Cardinality(Listed(m_nodes', out))
  /\ IsFiniteSet(Listed(m_nodes', out))
  /\ m_nodes'[a].scheduled <=> m_nodes'[a].remaining = 0

SubmitOthers(a) ==
  \A i \in DOMAIN m_nodes : i # a =>
    /\ m_nodes'[i].func = m_nodes[i].func /\ m_nodes'[i].generation = m_nodes[i].generation
    /\ m_nodes'[i].remaining = m_nodes[i].remaining
    /\ m_nodes'[i].completed = m_nodes[i].completed
    /\ m_nodes'[i].scheduled = m_nodes[i].scheduled
    /\ m_nodes'[i].completedGeneration = m_nodes[i].completedGeneration

SubmitLists(out, a) ==
  \A i \in DOMAIN m_nodes : i # a =>
    /\ \A q \in DOMAIN m_nodes[i].dependents :
         q \in DOMAIN m_nodes'[i].dependents /\ m_nodes'[i].dependents[q] = m_nodes[i].dependents[q]
    /\ \A q \in DOMAIN m_nodes'[i].dependents :
         q \in DOMAIN m_nodes[i].dependents \/ m_nodes'[i].dependents[q] = out
    /\ m_nodes[i].completed => m_nodes'[i].dependents = m_nodes[i].dependents

SubmitLinks(out, D) ==
  \A d \in D : Live(d) =>
    \E q \in DOMAIN m_nodes'[handle[d].index].dependents :
      m_nodes'[handle[d].index].dependents[q] = out

Submits(j, out, a, D) ==
  /\ SubmitJob(j, out, D) /\ SubmitFree(a) /\ SubmitNode(j, out, a)
  /\ SubmitOthers(a) /\ SubmitLists(out, a) /\ SubmitLinks(out, D)
-----------------------------------------------------------------------------
(* The handle of an earlier job of the node does not name the new one.     *)
LEMMA OldHandle ==
  ASSUME Inv, NEW k \in submitted, NextAge(k) < GenerationLimit, handle[k].index = AcquireIndex,
         m_nodes[AcquireIndex].completed
  PROVE  m_nodes[AcquireIndex].generation # handle[k].generation
<1>1. PICK a, g : a = handle[k].index /\ g = handle[k].generation
  OBVIOUS
<1>2. a \in DOMAIN m_nodes /\ g \in 1 .. GenerationLimit /\ GenerationLimit \in Nat
  <2>1. k \in Jobs /\ handle[k] \in HandleType /\ a \in DOMAIN m_nodes /\ g # 0
    BY <1>1, JobsFinite DEF Inv, Types, Numbered
  <2> QED BY <1>1, <2>1, JobAssumption DEF HandleType
<1>3. Age(k) \in Nat /\ NextAge(k) = Age(k) + 1 /\ Passed(k) = Age(k) + 1
  BY JobsFinite DEF NextAge, Passed
<1>4. m_nodes[a].generation = Advance(g, Age(k) + 1)
  BY <1>1, <1>2, <1>3 DEF Inv, Generations
<1>5. Advance(g, Age(k) + 1) # g
  BY <1>2, <1>3 DEF Advance
<1> QED BY <1>1, <1>4, <1>5

(* Every submit is described by Submits: one job, one node, the
   dependencies that were not complete.                                    *)
LEMMA SubmitShape ==
  ASSUME Inv, NEW t \in Threads, NEW list \in DependencyLists, submitWithDependencies(t, list)
  PROVE  \E j, out :
           /\ Submits(j, out, AcquireIndex, Range(list))
           /\ CanCall(t)
           /\ IF m_nodes'[AcquireIndex].scheduled THEN Push(t, Frame("enqueue", out)) ELSE stack' = stack
           /\ \A k \in Holding : NextAge(k) < GenerationLimit - 1
<1>1. PICK j, a, N : j = Cardinality(submitted) + 1 /\ a = AcquireIndex /\ N = acquireNodeLocked(j)
  OBVIOUS
<1>2. PICK out, st : /\ out = [index |-> a, generation |-> N[a].generation]
                     /\ st = LinkDependencies(N, out, list)
  OBVIOUS
<1>3. /\ CanCall(t) /\ j \in Jobs
      /\ \A k \in Range(list) : NextAge(k) < GenerationLimit
      /\ \A k \in Holding : NextAge(k) < GenerationLimit - 1
      /\ m_nodes' = [st.nodes EXCEPT ![out.index].remaining = st.unresolved,
                                     ![out.index].scheduled = (st.unresolved = 0)]
      /\ m_freeNodes' = IF m_freeNodes # <<>> THEN Front(m_freeNodes) ELSE m_freeNodes
      /\ m_pendingJobCount' = m_pendingJobCount + 1
      /\ IF st.unresolved = 0 THEN Push(t, Frame("enqueue", out)) ELSE UNCHANGED stack
      /\ handle' = [handle EXCEPT ![j] = out]
      /\ state' = [state EXCEPT ![j] = "pending"]
      /\ deps' = [deps EXCEPT ![j] = Range(list)]
      /\ UNCHANGED <<workers, poolTasks, call>>
  BY <1>1, <1>2 DEF submitWithDependencies
<1>4. /\ N \in Seq(NodeType) /\ DOMAIN N = DOMAIN m_nodes \cup {a}
      /\ Len(N) <= Cardinality(submitted) + 1 /\ a \in Nat \ {0} /\ a <= Len(N)
      /\ \A i \in DOMAIN m_nodes : i # a => N[i] = m_nodes[i]
      /\ N[a].func = j /\ N[a].dependents = <<>> /\ ~ N[a].completed
      /\ a \in DOMAIN m_nodes =>
           /\ m_nodes[a].completed /\ N[a].generation = m_nodes[a].generation
           /\ N[a].completedGeneration = m_nodes[a].completedGeneration
      /\ a \notin DOMAIN m_nodes => N[a].completedGeneration = 0
  <2>1. j \in Jobs
    BY <1>3
  <2>2. a = AcquireIndex /\ N = acquireNodeLocked(j)
    BY <1>1
  <2>3. Acquired(j, a, N)
    BY <2>1, <2>2, AcquireFacts
  <2> QED BY <2>3 DEF Acquired
<1>5. PICK n \in Nat : list \in [1 .. n -> submitted]
  BY DEF DependencyLists
<1>6. /\ list \in Seq(submitted) /\ DOMAIN list = 1 .. n /\ Range(list) \subseteq submitted
      /\ \A d \in Range(list) : \E k \in DOMAIN list : list[k] = d
      /\ \A k \in DOMAIN list : list[k] \in Range(list) /\ list[k] \in submitted
  BY <1>5 DEF Range
<1>7. Types /\ Numbered /\ Generations /\ Lists /\ m_nodes \in Seq(NodeType)
  BY DEF Inv, Types
<1>8. a \in DOMAIN N /\ N[a] \in NodeType /\ out \in HandleType /\ out.index = a
      /\ out.generation = N[a].generation /\ out.generation # 0
  <2>1. a \in DOMAIN N /\ N[a] \in NodeType
    BY <1>4
  <2>2. N[a].generation \in 1 .. GenerationLimit /\ GenerationLimit \in Nat /\ MaxJobs \in Nat
    BY <2>1, JobAssumption DEF NodeType
  <2>3. a \in 0 .. MaxJobs
    <3>1. j \in Nat /\ j <= MaxJobs /\ Len(N) \in Nat /\ Len(N) <= j
      BY <1>1, <1>3, <1>4, JobAssumption DEF Jobs
    <3> QED BY <1>4, <2>2, <3>1
  <2>4. out.index = a /\ out.generation = N[a].generation
    BY <1>2
  <2>5. out \in HandleType
    BY <1>2, <2>2, <2>3 DEF HandleType
  <2> QED BY <2>1, <2>2, <2>4, <2>5
<1>9. ~ Open(out)
  BY <1>4, <1>8 DEF Open
<1>10. Listed(N, out) = {}
  <2>1. ASSUME NEW i, NEW q, ListedAt(N, i, q, out) PROVE FALSE
    <3>1. i \in DOMAIN N /\ q \in DOMAIN N[i].dependents /\ N[i].dependents[q] = out
      BY <2>1 DEF ListedAt
    <3>2. CASE i = a
      <4>1. DOMAIN N[a].dependents = {}
        BY <1>4
      <4> QED BY <3>1, <3>2, <4>1
    <3>3. CASE i # a
      <4>1. i \in DOMAIN m_nodes /\ N[i] = m_nodes[i]
        BY <1>4, <3>1, <3>3
      <4>2. Open(m_nodes[i].dependents[q])
        BY <1>7, <3>1, <4>1 DEF Lists
      <4> QED BY <1>9, <3>1, <4>1, <4>2
    <3> QED BY <3>2, <3>3
  <2>2. \A p \in Listed(N, out) : FALSE
    BY <2>1, ListedPairs
  <2> QED BY <2>2
<1>11. \A k \in DOMAIN list : handle[list[k]] \in HandleType /\ handle[list[k]].index \in DOMAIN N
  BY <1>4, <1>6, <1>7, JobsFinite DEF Types, Numbered
<1>12. LinkGood(st, N, out, list, Len(list))
  BY <1>2, <1>4, <1>6, <1>8, <1>10, <1>11, LinkFacts
<1>13. PICK L, c :
        /\ st = [nodes |-> L, out |-> out, unresolved |-> c] /\ c \in Nat
        /\ Extends(L, N, out)
        /\ IsFiniteSet(Listed(L, out)) /\ Cardinality(Listed(L, out)) = c
        /\ \A k \in DOMAIN list : k <= Len(list) /\ Resolves(N, handle[list[k]]) =>
             \E q \in DOMAIN L[handle[list[k]].index].dependents :
               L[handle[list[k]].index].dependents[q] = out
        /\ \A i \in DOMAIN N :
             (\A k \in DOMAIN list : handle[list[k]].index = i => ~ Resolves(N, handle[list[k]])) =>
               L[i].dependents = N[i].dependents
  BY <1>12 DEF LinkGood
<1>14. st.nodes = L /\ st.unresolved = c
  BY <1>13
<1>15. PICK x : x = [L[a] EXCEPT !.remaining = c, !.scheduled = (c = 0)]
  OBVIOUS
<1>16. L \in Seq(NodeType) /\ DOMAIN L = DOMAIN N /\ Len(L) = Len(N) /\ L[a] \in NodeType
  <2>1. L \in Seq(NodeType) /\ DOMAIN L = DOMAIN N /\ Len(L) = Len(N)
    BY <1>13 DEF Extends
  <2> QED BY <1>8, <2>1
<1>17. /\ x \in NodeType /\ x.remaining = c /\ (x.scheduled <=> c = 0)
       /\ x.func = L[a].func /\ x.dependents = L[a].dependents /\ x.completed = L[a].completed
       /\ x.generation = L[a].generation /\ x.completedGeneration = L[a].completedGeneration
  <2>1. c \in Nat /\ (c = 0) \in BOOLEAN
    BY <1>13
  <2>2. x \in NodeType
    BY <1>15, <1>16, <2>1 DEF NodeType
  <2>3. /\ x.remaining = c /\ x.scheduled = (c = 0)
        /\ x.func = L[a].func /\ x.dependents = L[a].dependents /\ x.completed = L[a].completed
        /\ x.generation = L[a].generation /\ x.completedGeneration = L[a].completedGeneration
    BY <1>15, <1>16 DEF NodeType
  <2> QED BY <2>2, <2>3
<1>18. m_nodes' = [L EXCEPT ![a] = x]
  BY <1>3, <1>8, <1>14, <1>15
<1>19. /\ m_nodes' \in Seq(NodeType) /\ Len(m_nodes') = Len(N) /\ DOMAIN m_nodes' = DOMAIN N
       /\ m_nodes'[a] = x /\ \A i \in DOMAIN N : i # a => m_nodes'[i] = L[i]
  BY <1>8, <1>16, <1>17, <1>18, ReplaceFact
<1>20. L[a].dependents = N[a].dependents
  <2>1. ASSUME NEW k \in DOMAIN list, handle[list[k]].index = a PROVE ~ Resolves(N, handle[list[k]])
    <3>1. list[k] \in submitted /\ NextAge(list[k]) < GenerationLimit
      <4>1. \A e \in Range(list) : NextAge(e) < GenerationLimit
        BY <1>3
      <4>2. list[k] \in Range(list) /\ list[k] \in submitted
        BY <1>6, <2>1
      <4> QED BY <4>1, <4>2
    <3>2. a \in DOMAIN m_nodes
      BY <1>7, <2>1, <3>1 DEF Numbered
    <3>3. m_nodes[a].generation # handle[list[k]].generation
      BY <1>1, <1>4, <2>1, <3>1, <3>2, OldHandle
    <3> QED BY <1>4, <2>1, <3>2, <3>3 DEF Resolves
  <2> QED BY <1>8, <1>13, <2>1
<1>21. Listed(m_nodes', out) = Listed(L, out)
  <2>1. \A i, q : ListedAt(m_nodes', i, q, out) <=> ListedAt(L, i, q, out)
    BY <1>8, <1>16, <1>17, <1>19 DEF ListedAt
  <2> QED BY <2>1, ListedSame
<1>22. \A i \in DOMAIN m_nodes : i # a =>
       /\ m_nodes'[i].func = m_nodes[i].func /\ m_nodes'[i].generation = m_nodes[i].generation
       /\ m_nodes'[i].remaining = m_nodes[i].remaining
       /\ m_nodes'[i].completed = m_nodes[i].completed
       /\ m_nodes'[i].scheduled = m_nodes[i].scheduled
       /\ m_nodes'[i].completedGeneration = m_nodes[i].completedGeneration
       /\ \A q \in DOMAIN m_nodes[i].dependents :
            /\ q \in DOMAIN m_nodes'[i].dependents
            /\ m_nodes'[i].dependents[q] = m_nodes[i].dependents[q]
       /\ \A q \in DOMAIN m_nodes'[i].dependents :
            q \in DOMAIN m_nodes[i].dependents \/ m_nodes'[i].dependents[q] = out
  <2>1. SUFFICES ASSUME NEW i \in DOMAIN m_nodes, i # a
        PROVE
       /\ m_nodes'[i].func = m_nodes[i].func /\ m_nodes'[i].generation = m_nodes[i].generation
       /\ m_nodes'[i].remaining = m_nodes[i].remaining
       /\ m_nodes'[i].completed = m_nodes[i].completed
       /\ m_nodes'[i].scheduled = m_nodes[i].scheduled
       /\ m_nodes'[i].completedGeneration = m_nodes[i].completedGeneration
       /\ \A q \in DOMAIN m_nodes[i].dependents :
            /\ q \in DOMAIN m_nodes'[i].dependents
            /\ m_nodes'[i].dependents[q] = m_nodes[i].dependents[q]
       /\ \A q \in DOMAIN m_nodes'[i].dependents :
            q \in DOMAIN m_nodes[i].dependents \/ m_nodes'[i].dependents[q] = out
    OBVIOUS
  <2>2. i \in DOMAIN N /\ N[i] = m_nodes[i] /\ m_nodes'[i] = L[i]
    BY <1>4, <1>19, <2>1
  <2>3. Extends(L, N, out)
    BY <1>13
  <2>4. /\ L[i].func = N[i].func /\ L[i].generation = N[i].generation
        /\ L[i].remaining = N[i].remaining /\ L[i].completed = N[i].completed
        /\ L[i].scheduled = N[i].scheduled /\ L[i].completedGeneration = N[i].completedGeneration
        /\ \A q \in DOMAIN N[i].dependents :
             q \in DOMAIN L[i].dependents /\ L[i].dependents[q] = N[i].dependents[q]
        /\ \A q \in DOMAIN L[i].dependents :
             q \in DOMAIN N[i].dependents \/ L[i].dependents[q] = out
    BY <2>2, <2>3 DEF Extends
  <2> QED BY <2>2, <2>4
<1>23. ASSUME NEW i \in DOMAIN m_nodes, i # a, m_nodes[i].completed
       PROVE  m_nodes'[i].dependents = m_nodes[i].dependents
  <2>1. i \in DOMAIN N /\ N[i] = m_nodes[i] /\ m_nodes'[i] = L[i]
    BY <1>4, <1>19, <1>23
  <2>2. \A k \in DOMAIN list : handle[list[k]].index = i => ~ Resolves(N, handle[list[k]])
    BY <1>23, <2>1 DEF Resolves
  <2> QED BY <1>13, <2>1, <2>2
<1>24. ASSUME NEW d \in Range(list), Live(d)
       PROVE  \E q \in DOMAIN m_nodes'[handle[d].index].dependents :
                m_nodes'[handle[d].index].dependents[q] = out
  <2>1. PICK k \in DOMAIN list : list[k] = d
    BY <1>6
  <2>2. k <= Len(list)
    BY <1>5, <2>1
  <2>3. PICK h : h = handle[d] /\ Resolves(m_nodes, h) /\ h.index \in DOMAIN m_nodes
    BY <1>7, <1>24, LiveHandle DEF Live, Numbered
  <2>4. h.index # a
    BY <1>4, <1>24, <2>3 DEF Live
  <2>5. N[h.index] = m_nodes[h.index] /\ h.index \in DOMAIN N /\ m_nodes'[h.index] = L[h.index]
    BY <1>4, <1>19, <2>3, <2>4
  <2>6. h.index <= Len(N)
    <3>1. N \in Seq(NodeType) /\ h.index \in DOMAIN N
      BY <1>4, <2>5
    <3>2. h.index \in 1 .. Len(N) /\ Len(N) \in Nat
      BY <3>1
    <3> QED BY <3>2
  <2>7. Resolves(N, h)
    BY <2>3, <2>5, <2>6 DEF Resolves
  <2>8. \E q \in DOMAIN L[h.index].dependents : L[h.index].dependents[q] = out
    BY <1>13, <2>1, <2>2, <2>3, <2>7
  <2> QED BY <2>3, <2>5, <2>8
<1>25. /\ L[a].func = N[a].func /\ L[a].generation = N[a].generation /\ L[a].completed = N[a].completed
       /\ L[a].completedGeneration = N[a].completedGeneration
  BY <1>8, <1>13 DEF Extends
<1>26. /\ m_freeNodes' \in Seq(1 .. MaxJobs)
       /\ \A k, l \in DOMAIN m_freeNodes' : m_freeNodes'[k] = m_freeNodes'[l] => k = l
       /\ \A k \in DOMAIN m_freeNodes' :
            /\ m_freeNodes'[k] \in DOMAIN m_nodes /\ m_nodes[m_freeNodes'[k]].completed
            /\ m_freeNodes'[k] # a
       /\ \A i \in DOMAIN m_nodes : m_nodes[i].completed /\ i # a =>
            \E k \in DOMAIN m_freeNodes' : m_freeNodes'[k] = i
  BY <1>1, <1>3, TakeFree
<1>27. /\ m_nodes'[a].func = j /\ m_nodes'[a].dependents = <<>>
       /\ ~ m_nodes'[a].completed /\ m_nodes'[a].generation = out.generation
       /\ m_nodes'[a].remaining = Cardinality(Listed(m_nodes', out))
       /\ IsFiniteSet(Listed(m_nodes', out))
       /\ (m_nodes'[a].scheduled <=> m_nodes'[a].remaining = 0)
       /\ (m_nodes'[a].scheduled <=> c = 0)
  BY <1>4, <1>8, <1>13, <1>17, <1>19, <1>20, <1>21, <1>25
<1>28. /\ a \in DOMAIN m_nodes =>
            /\ m_nodes[a].completed /\ out.generation = m_nodes[a].generation
            /\ m_nodes'[a].completedGeneration = m_nodes[a].completedGeneration
       /\ a \notin DOMAIN m_nodes => m_nodes'[a].completedGeneration = 0
  BY <1>4, <1>8, <1>17, <1>19, <1>25
<1>29. Len(m_nodes') <= j /\ DOMAIN m_nodes' = DOMAIN m_nodes \cup {a}
  BY <1>1, <1>4, <1>19
<1>30. Submits(j, out, a, Range(list))
  <2>1. SubmitJob(j, out, Range(list))
    BY <1>1, <1>3, <1>6, <1>8 DEF SubmitJob
  <2>2. SubmitFree(a)
    BY <1>26 DEF SubmitFree
  <2>3. SubmitNode(j, out, a)
    BY <1>8, <1>19, <1>27, <1>28, <1>29 DEF SubmitNode
  <2>4. SubmitOthers(a)
    BY <1>22 DEF SubmitOthers
  <2>5. SubmitLists(out, a)
    BY <1>22, <1>23 DEF SubmitLists
  <2>6. SubmitLinks(out, Range(list))
    BY <1>24 DEF SubmitLinks
  <2> QED BY <2>1, <2>2, <2>3, <2>4, <2>5, <2>6 DEF Submits
<1>31. IF m_nodes'[a].scheduled THEN Push(t, Frame("enqueue", out)) ELSE stack' = stack
  BY <1>3, <1>14, <1>27
<1> QED BY <1>1, <1>3, <1>30, <1>31
-----------------------------------------------------------------------------
(* A submit adds exactly the next job to those submitted.                  *)
LEMMA SubmitJobs ==
  ASSUME Inv, NEW j, NEW out, NEW a, NEW D, Submits(j, out, a, D)
  PROVE  /\ submitted' = submitted \cup {j} /\ j \notin submitted /\ j \in Nat \ {0}
         /\ Cardinality(submitted') = j /\ submitted' = 1 .. j
         /\ \A k \in submitted : k < j /\ k \in Nat /\ k \in Jobs /\ k # j
         /\ \A k \in Jobs : k # j => handle'[k] = handle[k] /\ state'[k] = state[k] /\ deps'[k] = deps[k]
         /\ handle'[j] = out /\ state'[j] = "pending" /\ deps'[j] = D
         /\ \A k \in submitted : handle[k].index \in DOMAIN m_nodes
<1>1. SubmitJob(j, out, D) /\ Types /\ Numbered
  BY DEF Submits, Inv
<1>2. PICK n : n = Cardinality(submitted) /\ n \in Nat /\ submitted = 1 .. n /\ j = n + 1
  BY <1>1, JobsFinite DEF SubmitJob, Numbered
<1>3. j \in Jobs /\ j \in Nat \ {0} /\ submitted \subseteq Jobs
  BY <1>1, <1>2, JobsFinite DEF SubmitJob
<1>4. /\ \A k \in Jobs : k # j => handle'[k] = handle[k] /\ state'[k] = state[k] /\ deps'[k] = deps[k]
      /\ handle'[j] = out /\ state'[j] = "pending" /\ deps'[j] = D
  BY <1>1, <1>3 DEF SubmitJob, Types
<1>5. j \notin submitted /\ \A k \in submitted : k < j /\ k \in Nat /\ k \in Jobs /\ k # j
  <2>1. \A k \in 1 .. n : k < n + 1 /\ k \in Nat /\ k # n + 1
    BY <1>2
  <2>2. n + 1 \notin 1 .. n
    BY <1>2
  <2> QED BY <1>2, <1>3, <2>1, <2>2
<1>6. submitted' = submitted \cup {j}
  <2>1. submitted' = {k \in Jobs : state'[k] # "none"}
    BY DEF submitted
  <2>2. submitted = {k \in Jobs : state[k] # "none"}
    BY DEF submitted
  <2> QED BY <1>3, <1>4, <1>5, <2>1, <2>2
<1>7. submitted' = 1 .. j
  <2>1. 1 .. n + 1 = (1 .. n) \cup {n + 1}
    BY <1>2
  <2> QED BY <1>2, <1>6, <2>1
<1>8. Cardinality(submitted') = j
  <2>1. Cardinality(1 .. j) = j
    BY <1>3, FS_Interval
  <2> QED BY <1>7, <2>1
<1>9. \A k \in submitted : handle[k].index \in DOMAIN m_nodes
  BY <1>1 DEF Numbered
<1> QED BY <1>3, <1>4, <1>5, <1>6, <1>7, <1>8, <1>9

(* After a submit, the age of every job is the one its guard looked ahead
   to.                                                                     *)
LEMMA SubmitAges ==
  ASSUME Inv, NEW j, NEW out, NEW a, NEW D, Submits(j, out, a, D), a = AcquireIndex
  PROVE  /\ \A k \in submitted : Age(k)' = NextAge(k)
         /\ Age(j)' = 0
<1>1. /\ submitted' = submitted \cup {j} /\ j \notin submitted /\ j \in Nat \ {0}
      /\ \A k \in submitted : k < j /\ k \in Nat /\ k \in Jobs /\ k # j
      /\ \A k \in Jobs : k # j => handle'[k] = handle[k]
      /\ handle'[j] = out
  BY SubmitJobs
<1>2. out.index = a
  BY DEF Submits, SubmitNode
<1>3. ASSUME NEW k \in submitted PROVE Age(k)' = NextAge(k)
  <2>1. PICK A : A = {x \in submitted : x > k /\ handle[x].index = handle[k].index}
    OBVIOUS
  <2>2. IsFiniteSet(A) /\ Age(k) = Cardinality(A) /\ Age(k) \in Nat /\ j \notin A
    BY <1>1, <2>1, JobsFinite DEF Age
  <2>3. handle'[k] = handle[k] /\ j > k
    BY <1>1
  <2>4. \A x \in submitted : handle'[x] = handle[x]
    BY <1>1
  <2>5. {x \in submitted' : x > k /\ handle'[x].index = handle'[k].index} =
          IF handle[k].index = a THEN A \cup {j} ELSE A
    BY <1>1, <1>2, <2>1, <2>3, <2>4
  <2>6. Age(k)' = Cardinality(IF handle[k].index = a THEN A \cup {j} ELSE A)
    BY <2>5 DEF Age
  <2>7. Cardinality(A \cup {j}) = Cardinality(A) + 1
    BY <2>2, FS_AddElement
  <2>8. CASE handle[k].index = a
    <3>1. NextAge(k) = Age(k) + 1
      BY <2>2, <2>8 DEF NextAge
    <3> QED BY <2>2, <2>6, <2>7, <2>8, <3>1
  <2>9. CASE handle[k].index # a
    <3>1. NextAge(k) = Age(k)
      BY <2>2, <2>9 DEF NextAge
    <3> QED BY <2>2, <2>6, <2>9, <3>1
  <2> QED BY <2>8, <2>9
<1>4. Age(j)' = 0
  <2>1. {x \in submitted' : x > j /\ handle'[x].index = handle'[j].index} = {}
    BY <1>1
  <2>2. Age(j)' = Cardinality({})
    BY <2>1 DEF Age
  <2> QED BY <2>2, FS_EmptySet
<1> QED BY <1>3, <1>4

(* A submit opens the handle of the new job, which named nothing before,
   and closes none.                                                        *)
LEMMA SubmitOpens ==
  ASSUME Inv, NEW j, NEW out, NEW a, NEW D, Submits(j, out, a, D)
  PROVE  /\ \A k \in submitted : Live(k)' <=> Live(k)
         /\ \A k : Live(k) => handle[k].index # a /\ k \in submitted
         /\ Live(j)' /\ j \notin submitted /\ ~ Live(j)
         /\ \A h : Open(h) => Open(h)' /\ h.index # a /\ h # out
         /\ Open(out)' /\ ~ Open(out)
         /\ \A h : Due(h) => Due(h)'
         /\ (Due(out)' <=> m_nodes'[a].scheduled)
<1>1. /\ submitted' = submitted \cup {j} /\ j \notin submitted /\ j \in Nat \ {0}
      /\ \A k \in submitted : k < j /\ k \in Nat /\ k \in Jobs /\ k # j
      /\ \A k \in Jobs : k # j => handle'[k] = handle[k]
      /\ handle'[j] = out
      /\ \A k \in submitted : handle[k].index \in DOMAIN m_nodes
  BY SubmitJobs
<1>2. /\ out.index = a
      /\ m_nodes' \in Seq(NodeType) /\ DOMAIN m_nodes' = DOMAIN m_nodes \cup {a}
      /\ a \in DOMAIN m_nodes => m_nodes[a].completed
      /\ m_nodes'[a].func = j
      /\ ~ m_nodes'[a].completed /\ m_nodes'[a].generation = out.generation
  BY DEF Submits, SubmitNode
<1>3. \A i \in DOMAIN m_nodes : i # a =>
        /\ m_nodes'[i].func = m_nodes[i].func /\ m_nodes'[i].generation = m_nodes[i].generation
        /\ m_nodes'[i].completed = m_nodes[i].completed
        /\ m_nodes'[i].scheduled = m_nodes[i].scheduled
  BY DEF Submits, SubmitOthers
<1>4. out \in HandleType
  BY DEF Submits, SubmitJob
<1>5. \A k : Live(k) => handle[k].index # a /\ k \in submitted
  BY <1>1, <1>2 DEF Live
<1>6. ASSUME NEW k \in submitted PROVE Live(k)' <=> Live(k)
  <2>1. handle'[k] = handle[k] /\ k < j /\ handle[k].index \in DOMAIN m_nodes /\ j > k
    BY <1>1
  <2>2. \A x \in submitted : handle'[x] = handle[x]
    BY <1>1
  <2>3. Latest(k)' <=> Latest(k) /\ handle[k].index # a
    BY <1>1, <1>2, <2>1, <2>2 DEF Latest
  <2>4. CASE handle[k].index = a
    BY <1>5, <2>3, <2>4 DEF Live
  <2>5. CASE handle[k].index # a
    BY <1>1, <1>3, <2>1, <2>3, <2>5 DEF Live
  <2> QED BY <2>4, <2>5
<1>7. Live(j)'
  <2>1. \A x \in submitted' : ~(x > j)
    BY <1>1
  <2>2. Latest(j)'
    BY <2>1 DEF Latest
  <2> QED BY <1>1, <1>2, <2>2 DEF Live
<1>8. ~ Open(out)
  BY <1>2 DEF Open
<1>9. ASSUME NEW h, Open(h) PROVE Open(h)' /\ h.index # a /\ h # out
  <2>1. h.index # a
    BY <1>2, <1>9 DEF Open
  <2> QED BY <1>2, <1>3, <1>8, <1>9, <2>1 DEF Open
<1>10. Open(out)'
  BY <1>2, <1>4 DEF Open
<1>11. ASSUME NEW h, Due(h) PROVE Due(h)'
  <2>1. Open(h) /\ h.index \in DOMAIN m_nodes
    BY <1>11 DEF Due, Open
  <2>2. Open(h)' /\ h.index # a
    BY <1>9, <2>1
  <2> QED BY <1>3, <1>11, <2>1, <2>2 DEF Due
<1>12. Due(out)' <=> m_nodes'[a].scheduled
  BY <1>1, <1>2, <1>10 DEF Due
<1>13. ~ Live(j)
  BY <1>1 DEF Live
<1> QED BY <1>1, <1>5, <1>6, <1>7, <1>8, <1>9, <1>10, <1>11, <1>12, <1>13

(* What is carried is open.                                                *)
LEMMA CarriedOpen ==
  ASSUME Inv, NEW h, Carried(h)
  PROVE  Open(h) /\ m_nodes[h.index].scheduled
<1>1. CASE \E p : InPool(p, h)
  <2>1. Due(h)
    BY <1>1 DEF Inv, Carriage, PoolDue, InPool
  <2> QED BY <2>1 DEF Due
<1>2. CASE \E t, k, q : InFrame(t, k, q, h)
  <2>1. PICK t, k, q, f : t \in Threads /\ k \in DOMAIN stack[t] /\ f = stack[t][k] /\ Carries(f, q, h)
    BY <1>2 DEF InFrame
  <2>2. FrameOK(f) /\ FrameDue(f)
    BY <2>1 DEF Inv, Frames
  <2>3. CASE f.at \in {"run", "complete"} /\ f.cur = h
    <3>1. Live(f.fn) /\ handle[f.fn] = h /\ m_nodes[h.index].scheduled
      BY <2>2, <2>3 DEF FrameOK
    <3>2. Types /\ Numbered /\ Generations
      BY DEF Inv
    <3>3. f.fn \in Jobs /\ f.fn \in submitted /\ h = HandleOf(m_nodes, h.index)
      BY <3>1, <3>2, LiveHandle
    <3>4. h \in HandleType /\ h.index \in DOMAIN m_nodes
      BY <3>1, <3>2, <3>3 DEF Types, Numbered
    <3>5. h.generation = m_nodes[h.index].generation /\ ~ m_nodes[h.index].completed
      BY <3>1, <3>3 DEF HandleOf, Live
    <3> QED BY <3>1, <3>4, <3>5 DEF Open
  <2>4. CASE ~(f.at \in {"run", "complete"} /\ f.cur = h)
    <3>1. Due(h)
      BY <2>1, <2>2, <2>4 DEF FrameDue, Carries
    <3> QED BY <3>1 DEF Due
  <2> QED BY <2>3, <2>4
<1> QED BY <1>1, <1>2 DEF Carried
-----------------------------------------------------------------------------
(* A submit preserves the numbering of jobs, the free list and the
   generations.                                                            *)
LEMMA SubmitNumbers ==
  ASSUME Inv, NEW j, NEW out, NEW a, NEW D, Submits(j, out, a, D), a = AcquireIndex
  PROVE  Numbered' /\ FreeOnce' /\ Generations'
<1>1. /\ submitted' = submitted \cup {j} /\ j \notin submitted /\ j \in Nat \ {0}
      /\ Cardinality(submitted') = j /\ submitted' = 1 .. j
      /\ \A k \in submitted : k < j /\ k \in Nat /\ k \in Jobs /\ k # j
      /\ \A k \in Jobs : k # j => handle'[k] = handle[k] /\ state'[k] = state[k] /\ deps'[k] = deps[k]
      /\ handle'[j] = out /\ deps'[j] = D
      /\ \A k \in submitted : handle[k].index \in DOMAIN m_nodes
  BY SubmitJobs
<1>2. SubmitNode(j, out, a) /\ SubmitOthers(a) /\ SubmitFree(a) /\ SubmitJob(j, out, D)
  BY DEF Submits
<1>3. Types /\ Numbered /\ FreeOnce /\ Generations
  BY DEF Inv
<1>4. out.index = a /\ DOMAIN m_nodes' = DOMAIN m_nodes \cup {a} /\ Len(m_nodes') <= j
      /\ ~ m_nodes'[a].completed
  BY <1>2 DEF SubmitNode
<1>5. out.generation # 0 /\ D \subseteq submitted /\ out \in HandleType
  BY <1>2 DEF SubmitJob
<1>6. Numbered'
  <2>1. ASSUME NEW k \in submitted'
        PROVE  /\ handle'[k].index \in DOMAIN m_nodes' /\ handle'[k].generation # 0
               /\ deps'[k] \subseteq submitted'
    <3>1. CASE k = j
      BY <1>1, <1>4, <1>5, <3>1
    <3>2. CASE k # j
      <4>1. k \in submitted /\ handle'[k] = handle[k] /\ deps'[k] = deps[k]
        BY <1>1, <3>2
      <4> QED BY <1>1, <1>3, <1>4, <4>1 DEF Numbered
    <3> QED BY <3>1, <3>2
  <2> QED BY <1>1, <1>4, <2>1 DEF Numbered
<1>7. FreeOnce'
  <2>1. \A i \in DOMAIN m_nodes : i # a => m_nodes'[i].completed = m_nodes[i].completed
    BY <1>2 DEF SubmitOthers
  <2>2. ASSUME NEW k \in DOMAIN m_freeNodes'
        PROVE  m_freeNodes'[k] \in DOMAIN m_nodes' /\ m_nodes'[m_freeNodes'[k]].completed
    BY <1>2, <1>4, <2>1, <2>2 DEF SubmitFree
  <2>3. ASSUME NEW i \in DOMAIN m_nodes', m_nodes'[i].completed
        PROVE  \E k \in DOMAIN m_freeNodes' : m_freeNodes'[k] = i
    BY <1>2, <1>4, <2>1, <2>3 DEF SubmitFree
  <2>4. \A k, l \in DOMAIN m_freeNodes' : m_freeNodes'[k] = m_freeNodes'[l] => k = l
    BY <1>2 DEF SubmitFree
  <2> QED BY <2>2, <2>3, <2>4 DEF FreeOnce
<1>8. Generations'
  <2>1. ASSUME NEW k \in submitted', Passed(k)' <= GenerationLimit
        PROVE  m_nodes'[handle'[k].index].generation = Advance(handle'[k].generation, Passed(k)')
    <3>1. CASE k = j
      <4>1. Passed(j)' = 0
        <5>1. Age(j)' = 0
          BY SubmitAges
        <5> QED BY <1>1, <1>4, <5>1 DEF Passed
      <4>2. m_nodes'[a].generation = out.generation
        BY <1>2 DEF SubmitNode
      <4>3. Advance(out.generation, 0) = out.generation
        BY <1>5, JobAssumption DEF Advance, HandleType
      <4> QED BY <1>1, <1>4, <3>1, <4>1, <4>2, <4>3
    <3>2. CASE k # j
      <4>1. k \in submitted /\ handle'[k] = handle[k] /\ handle[k].index \in DOMAIN m_nodes
        BY <1>1, <3>2
      <4>2. Age(k)' = NextAge(k) /\ Age(k) \in Nat
        BY <4>1, SubmitAges, JobsFinite
      <4>3. Passed(k)' = Passed(k) /\ m_nodes'[handle[k].index].generation = m_nodes[handle[k].index].generation
        <5>1. CASE handle[k].index = a
          <6>1. NextAge(k) = Age(k) + 1
            BY <4>2, <5>1 DEF NextAge
          <6>2. m_nodes[a].completed /\ m_nodes'[a].generation = m_nodes[a].generation
            BY <1>2, <4>1, <5>1 DEF SubmitNode
          <6>3. Passed(k)' = Age(k) + 1 + 0
            BY <1>4, <4>1, <4>2, <5>1, <6>1 DEF Passed
          <6>4. Passed(k) = Age(k) + 1
            BY <5>1, <6>2 DEF Passed
          <6> QED BY <4>2, <5>1, <6>2, <6>3, <6>4
        <5>2. CASE handle[k].index # a
          <6>1. NextAge(k) = Age(k)
            BY <4>2, <5>2 DEF NextAge
          <6>2. /\ m_nodes'[handle[k].index].generation = m_nodes[handle[k].index].generation
                /\ m_nodes'[handle[k].index].completed = m_nodes[handle[k].index].completed
            BY <1>2, <4>1, <5>2 DEF SubmitOthers
          <6> QED BY <4>1, <4>2, <6>1, <6>2 DEF Passed
        <5> QED BY <5>1, <5>2
      <4> QED BY <1>3, <2>1, <4>1, <4>3 DEF Generations
    <3> QED BY <3>1, <3>2
  <2>2. ASSUME NEW i \in DOMAIN m_nodes', m_nodes'[i].completedGeneration # 0
        PROVE  m_nodes'[i].generation = NextGeneration(m_nodes'[i].completedGeneration)
    <3>1. CASE i = a
      <4>1. a \in DOMAIN m_nodes /\ m_nodes'[a].generation = m_nodes[a].generation
            /\ m_nodes'[a].completedGeneration = m_nodes[a].completedGeneration
        BY <1>2, <2>2, <3>1 DEF SubmitNode
      <4> QED BY <1>3, <2>2, <3>1, <4>1 DEF Generations
    <3>2. CASE i # a
      <4>1. i \in DOMAIN m_nodes /\ m_nodes'[i].generation = m_nodes[i].generation
            /\ m_nodes'[i].completedGeneration = m_nodes[i].completedGeneration
        BY <1>2, <1>4, <3>2 DEF SubmitOthers
      <4> QED BY <1>3, <2>2, <4>1 DEF Generations
    <3> QED BY <3>1, <3>2
  <2> QED BY <2>1, <2>2 DEF Generations
<1> QED BY <1>6, <1>7, <1>8

(* A submit preserves the ownership of nodes and the links to
   dependencies.                                                           *)
LEMMA SubmitOwned ==
  ASSUME Inv, NEW j, NEW out, NEW a, NEW D, Submits(j, out, a, D)
  PROVE  Owned' /\ Linked'
<1>1. /\ submitted' = submitted \cup {j} /\ j \notin submitted /\ j \in Nat \ {0}
      /\ \A k \in submitted : k < j /\ k \in Nat /\ k \in Jobs /\ k # j
      /\ \A k \in Jobs : k # j => handle'[k] = handle[k] /\ state'[k] = state[k] /\ deps'[k] = deps[k]
      /\ handle'[j] = out /\ state'[j] = "pending" /\ deps'[j] = D
      /\ \A k \in submitted : handle[k].index \in DOMAIN m_nodes
  BY SubmitJobs
<1>2. /\ \A k \in submitted : Live(k)' <=> Live(k)
      /\ \A k : Live(k) => handle[k].index # a /\ k \in submitted
      /\ Live(j)' /\ ~ Live(j)
  BY SubmitOpens
<1>3. SubmitNode(j, out, a) /\ SubmitOthers(a) /\ SubmitLists(out, a) /\ SubmitLinks(out, D) /\ SubmitJob(j, out, D)
  BY DEF Submits
<1>4. Owned /\ Linked /\ Numbered
  BY DEF Inv
<1>5. /\ out.index = a /\ DOMAIN m_nodes' = DOMAIN m_nodes \cup {a}
      /\ ~ m_nodes'[a].completed /\ m_nodes'[a].func = j
  BY <1>3 DEF SubmitNode
<1>6. \A k \in submitted : handle'[k] = handle[k] /\ state'[k] = state[k] /\ deps'[k] = deps[k]
  BY <1>1
<1>7. ASSUME NEW i \in DOMAIN m_nodes' PROVE NodeOK(i)'
  <2>1. CASE i = a
    BY <1>1, <1>2, <1>5, <2>1 DEF NodeOK
  <2>2. CASE i # a
    <3>1. i \in DOMAIN m_nodes /\ NodeOK(i)
      BY <1>4, <1>5, <2>2 DEF Owned
    <3>2. /\ m_nodes'[i].func = m_nodes[i].func /\ m_nodes'[i].completed = m_nodes[i].completed
          /\ m_nodes'[i].scheduled = m_nodes[i].scheduled
          /\ m_nodes[i].completed => m_nodes'[i].dependents = m_nodes[i].dependents
      BY <1>3, <2>2, <3>1 DEF SubmitOthers, SubmitLists
    <3>3. m_nodes[i].completed =>
            m_nodes[i].func = 0 /\ m_nodes[i].dependents = <<>> /\ ~ m_nodes[i].scheduled
      BY <3>1 DEF NodeOK
    <3>4. ~ m_nodes[i].completed => \E k \in submitted : Live(k) /\ handle[k].index = i
      BY <3>1 DEF NodeOK
    <3>5. ~ m_nodes[i].completed => \E k \in submitted' : Live(k)' /\ handle'[k].index = i
      BY <1>1, <1>2, <1>6, <3>4
    <3>6. m_nodes[i].func # 0 =>
       /\ m_nodes[i].func \in submitted /\ Live(m_nodes[i].func) /\ handle[m_nodes[i].func].index = i
       /\ state[m_nodes[i].func] = "pending"
      BY <3>1 DEF NodeOK, Live
    <3>7. m_nodes[i].func # 0 =>
       /\ Live(m_nodes[i].func)' /\ handle'[m_nodes[i].func].index = i
       /\ state'[m_nodes[i].func] = "pending"
      <4>1. PICK k : k = m_nodes[i].func
        OBVIOUS
      <4>2. k # 0 => k \in submitted /\ Live(k) /\ handle[k].index = i /\ state[k] = "pending"
        BY <3>6, <4>1
      <4>3. k # 0 => Live(k)' /\ handle'[k].index = i /\ state'[k] = "pending"
        BY <1>2, <1>6, <4>2
      <4>4. m_nodes'[i].func = k
        BY <3>2, <4>1
      <4> QED BY <4>1, <4>3, <4>4
    <3>8. ~ m_nodes[i].completed /\ ~ m_nodes[i].scheduled => m_nodes[i].func # 0
      BY <3>1 DEF NodeOK
    <3> QED BY <3>2, <3>3, <3>5, <3>7, <3>8 DEF NodeOK
  <2> QED BY <2>1, <2>2
<1>8. ASSUME NEW k \in submitted'
      PROVE  (state[k] # "ended" => Live(k))' /\ (state[k] = "pending" => m_nodes[handle[k].index].func = k)'
  <2>1. CASE k = j
    BY <1>1, <1>2, <1>5, <2>1
  <2>2. CASE k # j
    <3>1. k \in submitted /\ handle'[k] = handle[k] /\ state'[k] = state[k]
      BY <1>1, <1>6, <2>2
    <3>2. state[k] # "ended" => Live(k) /\ handle[k].index # a
      BY <1>2, <1>4, <3>1 DEF Owned
    <3>3. state[k] = "pending" => m_nodes[handle[k].index].func = k
      BY <1>4, <3>1 DEF Owned
    <3>4. handle[k].index \in DOMAIN m_nodes
      BY <1>1, <3>1
    <3>5. state[k] = "pending" => m_nodes'[handle[k].index].func = k
      BY <1>3, <3>2, <3>3, <3>4 DEF SubmitOthers
    <3> QED BY <1>2, <3>1, <3>2, <3>5
  <2> QED BY <2>1, <2>2
<1>9. Owned'
  BY <1>7, <1>8 DEF Owned
<1>10. Linked'
  <2>1. SUFFICES ASSUME NEW k \in submitted', state'[k] = "pending", NEW d \in deps'[k], Live(d)'
                 PROVE  \E q \in DOMAIN m_nodes'[handle'[d].index].dependents :
                          m_nodes'[handle'[d].index].dependents[q] = handle'[k]
    BY DEF Linked
  <2>2. CASE k = j
    <3>1. d \in D /\ d \in submitted
      BY <1>1, <1>3, <2>1, <2>2 DEF SubmitJob
    <3>2. Live(d)
      BY <1>2, <2>1, <3>1
    <3> QED BY <1>1, <1>3, <1>6, <2>2, <3>1, <3>2 DEF SubmitLinks
  <2>3. CASE k # j
    <3>1. k \in submitted /\ handle'[k] = handle[k] /\ state[k] = "pending" /\ d \in deps[k]
      BY <1>1, <1>6, <2>1, <2>3
    <3>2. d \in submitted
      BY <1>4, <3>1 DEF Numbered
    <3>3. Live(d) /\ handle[d].index # a /\ handle[d].index \in DOMAIN m_nodes /\ handle'[d] = handle[d]
      BY <1>1, <1>2, <1>6, <2>1, <3>2
    <3>4. PICK q \in DOMAIN m_nodes[handle[d].index].dependents :
            m_nodes[handle[d].index].dependents[q] = handle[k]
      BY <1>4, <3>1, <3>3 DEF Linked
    <3>5. /\ q \in DOMAIN m_nodes'[handle[d].index].dependents
          /\ m_nodes'[handle[d].index].dependents[q] = handle[k]
      BY <1>3, <3>3, <3>4 DEF SubmitLists
    <3> QED BY <3>1, <3>3, <3>5
  <2> QED BY <2>2, <2>3
<1> QED BY <1>9, <1>10

(* A submit preserves the exactness of remainingDependencies, for the new
   job and for the others.                                                 *)
LEMMA SubmitListed ==
  ASSUME Inv, NEW j, NEW out, NEW a, NEW D, Submits(j, out, a, D)
  PROVE  Lists'
<1>1. /\ \A h : Open(h) => Open(h)' /\ h.index # a /\ h # out
      /\ Open(out)' /\ ~ Open(out)
  BY SubmitOpens
<1>2. SubmitNode(j, out, a) /\ SubmitOthers(a) /\ SubmitLists(out, a)
  BY DEF Submits
<1>3. Lists /\ Types
  BY DEF Inv
<1>4. /\ out.index = a /\ DOMAIN m_nodes' = DOMAIN m_nodes \cup {a}
      /\ ~ m_nodes'[a].completed /\ m_nodes'[a].dependents = <<>>
      /\ a \in DOMAIN m_nodes => m_nodes[a].completed
      /\ m_nodes'[a].generation = out.generation
  BY <1>2 DEF SubmitNode
<1>5. ASSUME NEW h, h # out PROVE Listed(m_nodes', h) = Listed(m_nodes, h)
  <2>1. ASSUME NEW i, NEW q, ListedAt(m_nodes', i, q, h) PROVE ListedAt(m_nodes, i, q, h)
    <3>1. i \in DOMAIN m_nodes' /\ q \in DOMAIN m_nodes'[i].dependents
          /\ ~ m_nodes'[i].completed /\ m_nodes'[i].dependents[q] = h
      BY <2>1 DEF ListedAt
    <3>2. i # a
      <4>1. DOMAIN m_nodes'[a].dependents = {}
        BY <1>4
      <4> QED BY <3>1, <4>1
    <3>3. i \in DOMAIN m_nodes /\ ~ m_nodes[i].completed
      BY <1>2, <1>4, <3>1, <3>2 DEF SubmitOthers
    <3>4. q \in DOMAIN m_nodes[i].dependents
      BY <1>2, <1>5, <3>1, <3>2, <3>3 DEF SubmitLists
    <3>5. m_nodes[i].dependents[q] = h
      BY <1>2, <3>1, <3>2, <3>3, <3>4 DEF SubmitLists
    <3> QED BY <3>3, <3>4, <3>5 DEF ListedAt
  <2>2. ASSUME NEW i, NEW q, ListedAt(m_nodes, i, q, h) PROVE ListedAt(m_nodes', i, q, h)
    <3>1. i \in DOMAIN m_nodes /\ q \in DOMAIN m_nodes[i].dependents
          /\ ~ m_nodes[i].completed /\ m_nodes[i].dependents[q] = h
      BY <2>2 DEF ListedAt
    <3>2. i # a
      BY <1>4, <3>1
    <3>3. i \in DOMAIN m_nodes' /\ ~ m_nodes'[i].completed
      BY <1>2, <1>4, <3>1, <3>2 DEF SubmitOthers
    <3>4. q \in DOMAIN m_nodes'[i].dependents /\ m_nodes'[i].dependents[q] = h
      BY <1>2, <3>1, <3>2 DEF SubmitLists
    <3> QED BY <3>3, <3>4 DEF ListedAt
  <2> QED BY <2>1, <2>2, ListedSame
<1>6. HandleOf(m_nodes', a) = out
  <2>1. out \in HandleType
    BY DEF Submits, SubmitJob
  <2> QED BY <1>4, <2>1 DEF HandleOf, HandleType
<1>7. ASSUME NEW i \in DOMAIN m_nodes', ~ m_nodes'[i].completed, i # a
      PROVE  /\ i \in DOMAIN m_nodes /\ ~ m_nodes[i].completed
             /\ m_nodes'[i].remaining = m_nodes[i].remaining
             /\ m_nodes'[i].scheduled = m_nodes[i].scheduled
             /\ HandleOf(m_nodes', i) = HandleOf(m_nodes, i)
             /\ Listed(m_nodes', HandleOf(m_nodes', i)) = Listed(m_nodes, HandleOf(m_nodes, i))
  <2>1. /\ i \in DOMAIN m_nodes /\ ~ m_nodes[i].completed
        /\ m_nodes'[i].remaining = m_nodes[i].remaining
        /\ m_nodes'[i].scheduled = m_nodes[i].scheduled
        /\ m_nodes'[i].generation = m_nodes[i].generation
    BY <1>2, <1>4, <1>7 DEF SubmitOthers
  <2>2. PICK h : h = HandleOf(m_nodes, i) /\ h = HandleOf(m_nodes', i)
    BY <2>1 DEF HandleOf
  <2>3. h # out
    BY <1>4, <1>7, <2>2 DEF HandleOf
  <2>4. Listed(m_nodes', h) = Listed(m_nodes, h)
    BY <1>5, <2>3
  <2> QED BY <2>1, <2>2, <2>4
<1>8. RemainingExact'
  <2>1. SUFFICES ASSUME NEW i \in DOMAIN m_nodes', ~ m_nodes'[i].completed
                 PROVE  /\ m_nodes'[i].remaining = Cardinality(Listed(m_nodes', HandleOf(m_nodes', i)))
                        /\ m_nodes'[i].scheduled <=> m_nodes'[i].remaining = 0
    BY DEF RemainingExact
  <2>2. CASE i = a
    BY <1>2, <1>6, <2>2 DEF SubmitNode
  <2>3. CASE i # a
    <3>1. /\ i \in DOMAIN m_nodes /\ ~ m_nodes[i].completed
          /\ m_nodes'[i].remaining = m_nodes[i].remaining
          /\ m_nodes'[i].scheduled = m_nodes[i].scheduled
          /\ Listed(m_nodes', HandleOf(m_nodes', i)) = Listed(m_nodes, HandleOf(m_nodes, i))
      BY <1>7, <2>1, <2>3
    <3> QED BY <1>3, <3>1 DEF Lists, RemainingExact
  <2> QED BY <2>2, <2>3
<1>9. ASSUME NEW i \in DOMAIN m_nodes', ~ m_nodes'[i].completed
      PROVE  IsFiniteSet(Listed(m_nodes', HandleOf(m_nodes', i)))
  <2>1. CASE i = a
    BY <1>2, <1>6, <2>1 DEF SubmitNode
  <2>2. CASE i # a
    <3>1. /\ i \in DOMAIN m_nodes /\ ~ m_nodes[i].completed
          /\ Listed(m_nodes', HandleOf(m_nodes', i)) = Listed(m_nodes, HandleOf(m_nodes, i))
      BY <1>7, <1>9, <2>2
    <3> QED BY <1>3, <3>1 DEF Lists
  <2> QED BY <2>1, <2>2
<1>10. ASSUME NEW i \in DOMAIN m_nodes', NEW q \in DOMAIN m_nodes'[i].dependents
       PROVE  Open(m_nodes[i].dependents[q])'
  <2>1. i # a
    <3>1. DOMAIN m_nodes'[a].dependents = {}
      BY <1>4
    <3> QED BY <1>10, <3>1
  <2>2. i \in DOMAIN m_nodes
    BY <1>4, <1>10, <2>1
  <2>3. PICK h : h = m_nodes'[i].dependents[q]
    OBVIOUS
  <2>4. h = out \/ (q \in DOMAIN m_nodes[i].dependents /\ m_nodes[i].dependents[q] = h)
    BY <1>2, <1>10, <2>1, <2>2, <2>3 DEF SubmitLists
  <2>5. Open(h)'
    BY <1>1, <1>3, <2>2, <2>4 DEF Lists
  <2> QED BY <2>3, <2>5
<1> QED BY <1>8, <1>9, <1>10 DEF Lists
-----------------------------------------------------------------------------
(* A frame is not touched by the submission of another job.                *)
LEMMA SubmitKeeps ==
  ASSUME Inv, NEW j, NEW out, NEW a, NEW D, Submits(j, out, a, D)
  PROVE  \A u \in Threads : \A k \in DOMAIN stack[u] : Keeps(u, k)
<1>1. SUFFICES ASSUME NEW u \in Threads, NEW k \in DOMAIN stack[u], NEW e, e = stack[u][k]
               PROVE  FrameOK(e)' /\ FrameDue(e)'
  BY DEF Keeps
<1>2. FrameOK(e) /\ FrameDue(e)
  BY <1>1 DEF Inv, Frames
<1>3. /\ submitted' = submitted \cup {j} /\ j \notin submitted
      /\ \A i \in submitted : i \in Jobs /\ i # j
      /\ \A i \in Jobs : i # j => handle'[i] = handle[i] /\ state'[i] = state[i]
      /\ \A i \in submitted : handle[i].index \in DOMAIN m_nodes
  BY SubmitJobs
<1>4. /\ \A i \in submitted : Live(i)' <=> Live(i)
      /\ \A i : Live(i) => handle[i].index # a /\ i \in submitted
      /\ \A h : Due(h) => Due(h)'
  BY SubmitOpens
<1>5. \A i \in DOMAIN m_nodes : i # a =>
        m_nodes'[i].func = m_nodes[i].func /\ m_nodes'[i].scheduled = m_nodes[i].scheduled
  BY DEF Submits, SubmitOthers
<1>6. FrameDue(e)'
  BY <1>2, <1>4 DEF FrameDue
<1>7. e.at \in {"run", "complete"} =>
        /\ Live(e.fn) /\ e.fn \in submitted /\ e.fn \in Jobs /\ e.fn # j /\ handle[e.fn] = e.cur
        /\ m_nodes[e.cur.index].scheduled /\ m_nodes[e.cur.index].func = 0
        /\ e.cur.index # a /\ e.cur.index \in DOMAIN m_nodes
  BY <1>2, <1>3, <1>4 DEF FrameOK
<1>8. e.at \in {"run", "complete"} =>
        /\ Live(e.fn)' /\ handle'[e.fn] = e.cur
        /\ m_nodes'[e.cur.index].scheduled /\ m_nodes'[e.cur.index].func = 0
        /\ state'[e.fn] = state[e.fn]
  BY <1>3, <1>4, <1>5, <1>7
<1>9. e.at \in {"signal", "batch", "retire", "retireNotify"} =>
        e.fn \in submitted' /\ ~ Live(e.fn)' /\ state'[e.fn] = "ended"
  BY <1>2, <1>3, <1>4 DEF FrameOK
<1>10. FrameOK(e)'
  BY <1>2, <1>8, <1>9 DEF FrameOK
<1> QED BY <1>6, <1>10

(* A submit preserves the exactness of m_pendingJobCount.                  *)
LEMMA SubmitPending ==
  ASSUME Inv, NEW j, NEW out, NEW a, NEW D, Submits(j, out, a, D), \A i \in submitted : Retiring(i)' <=> Retiring(i)
  PROVE  PendingExact'
<1>1. submitted' = submitted \cup {j} /\ j \notin submitted
  BY SubmitJobs
<1>2. Live(j)' /\ \A k \in submitted : Live(k)' <=> Live(k)
  BY SubmitOpens
<1>3. Unretired' = Unretired \cup {j} /\ j \notin Unretired
  BY <1>1, <1>2 DEF Unretired
<1>4. IsFiniteSet(Unretired)
  <2>1. Unretired \subseteq submitted
    BY DEF Unretired
  <2> QED BY <2>1, JobsFinite, FS_Subset
<1>5. Cardinality(Unretired') = Cardinality(Unretired) + 1
  BY <1>3, <1>4, FS_AddElement
<1>6. m_pendingJobCount' = m_pendingJobCount + 1 /\ PendingExact
  BY DEF Submits, SubmitJob, Inv
<1> QED BY <1>5, <1>6 DEF PendingExact

(* A submit preserves what wait() relies on: the guard keeps the waited
   job within the reach of its handle.                                     *)
LEMMA SubmitCalls ==
  ASSUME Inv, NEW j, NEW out, NEW a, NEW D, Submits(j, out, a, D), a = AcquireIndex,
         \A k \in Holding : NextAge(k) < GenerationLimit - 1
  PROVE  Calls'
<1>1. submitted' = submitted \cup {j} /\ call' = call
  BY SubmitJobs DEF Submits, SubmitJob
<1>2. \A k \in submitted : Age(k)' = NextAge(k)
  BY SubmitAges
<1>3. ASSUME NEW c \in Clients, NEW r, r = call[c] PROVE CallOK(r)'
  <2>1. CallOK(r)
    BY <1>3 DEF Inv, Calls
  <2>2. CASE r.at \in {"resolve", "futex", "asleep"}
    <3>1. r.job \in submitted /\ r.job # 0
      BY <2>1, <2>2, JobsFinite DEF CallOK
    <3>2. r.job \in Holding
      BY <1>3, <2>2, <3>1 DEF Holding
    <3>3. Age(r.job)' < GenerationLimit - 1
      BY <1>2, <3>1, <3>2
    <3> QED BY <1>1, <2>1, <2>2, <3>3 DEF CallOK
  <2>3. CASE r.at \notin {"resolve", "futex", "asleep"}
    BY <1>1, <2>1, <2>3 DEF CallOK
  <2> QED BY <2>2, <2>3
<1> QED BY <1>1, <1>3 DEF Calls

(* The new job is carried by the submitter's frame if it is scheduled.     *)
LEMMA SubmitCarries ==
  ASSUME Inv, NEW j, NEW out, NEW a, NEW D, Submits(j, out, a, D), NEW t \in Threads,
         IF m_nodes'[a].scheduled THEN Push(t, Frame("enqueue", out)) ELSE stack' = stack
  PROVE  /\ stack' \in Stacks /\ Frames' /\ CarriedOnce'
         /\ \A h : Carried(h)' <=> Carried(h) \/ (h = out /\ m_nodes'[a].scheduled)
         /\ \A i : Retiring(i)' <=> Retiring(i)
<1>1. \A u \in Threads : \A k \in DOMAIN stack[u] : Keeps(u, k)
  BY SubmitKeeps
<1>2. stack \in Stacks /\ Frames /\ CarriedOnce
  BY DEF Inv, Types, Carriage
<1>3. poolTasks' = poolTasks /\ out \in HandleType
  BY DEF Submits, SubmitJob
<1>4. \A p, h : InPool(p, h)' <=> InPool(p, h)
  BY <1>3 DEF InPool
<1>5. CASE ~ m_nodes'[a].scheduled
  <2>1. stack' = stack
    BY <1>5
  <2>2. ASSUME NEW u \in Threads, NEW k \in DOMAIN stack[u]
        PROVE  (FrameOK(stack[u][k]) /\ FrameDue(stack[u][k]))'
    <3>1. PICK e : e = stack[u][k]
      OBVIOUS
    <3>2. FrameOK(e)' /\ FrameDue(e)'
      BY <1>1, <3>1 DEF Keeps
    <3> QED BY <2>1, <3>1, <3>2
  <2>3. Frames'
    BY <1>2, <2>1, <2>2 DEF Frames
  <2>4. \A u, k, q, h : InFrame(u, k, q, h)' <=> InFrame(u, k, q, h)
    BY <2>1 DEF InFrame
  <2>5. CarriedOnce'
    BY <1>2, <1>4, <2>4 DEF CarriedOnce
  <2>6. \A h : Carried(h)' <=> Carried(h)
    BY <1>4, <2>4 DEF Carried
  <2>7. \A i : Retiring(i)' <=> Retiring(i)
    BY <2>1 DEF Retiring, RetiresAt
  <2> QED BY <1>2, <1>5, <2>1, <2>3, <2>5, <2>6, <2>7
<1>6. CASE m_nodes'[a].scheduled
  <2>1. PICK g, n : g = Frame("enqueue", out) /\ n = Len(stack[t])
    OBVIOUS
  <2>2. Push(t, g)
    BY <1>6, <2>1
  <2>3. /\ g \in FrameType /\ g.at = "enqueue" /\ g.cur = out /\ g.fn = 0
        /\ g.cont = NoHandle /\ g.batch = <<>>
    <3>1. "enqueue" \in FrameAt
      BY DEF FrameAt
    <3> QED BY <1>3, <2>1, <3>1, FrameFact
  <2>4. Due(out)' /\ ~ Open(out)
    BY <1>6, SubmitOpens
  <2>5. FrameOK(g)' /\ FrameDue(g)'
    <3>1. FrameOK(g)'
      BY <2>3 DEF FrameOK, valid
    <3>2. FrameDue(g)'
      BY <2>3, <2>4 DEF FrameDue, valid
    <3> QED BY <3>1, <3>2
  <2>6. stack' \in Stacks /\ Frames'
    BY <1>1, <1>2, <2>2, <2>3, <2>5, StackPush
  <2>7. /\ \A u \in Threads :
              /\ DOMAIN stack'[u] = IF u = t THEN 1 .. Len(stack[u]) + 1 ELSE DOMAIN stack[u]
              /\ DOMAIN stack[u] = 1 .. Len(stack[u]) /\ Len(stack[u]) \in Nat
              /\ \A k \in DOMAIN stack[u] : stack'[u][k] = stack[u][k]
        /\ stack'[t][Len(stack[t]) + 1] = g
    BY <1>2, <2>2, <2>3, PushFact
  <2>8. /\ n + 1 \notin DOMAIN stack[t] /\ n + 1 \in DOMAIN stack'[t]
        /\ \A k \in DOMAIN stack'[t] : k \in DOMAIN stack[t] \/ k = n + 1
        /\ DOMAIN stack[t] \subseteq DOMAIN stack'[t]
    <3>1. \A m \in Nat : /\ m + 1 \notin 1 .. m /\ m + 1 \in 1 .. m + 1 /\ 1 .. m \subseteq 1 .. m + 1
                         /\ \A k \in 1 .. m + 1 : k \in 1 .. m \/ k = m + 1
      OBVIOUS
    <3> QED BY <2>1, <2>7, <3>1
  <2>9. \A q, h : Carries(g, q, h) <=> q = -1 /\ h = out
    BY <2>3 DEF Carries, valid
  <2>10. \A u, k, q, h : InFrame(u, k, q, h)' <=>
           InFrame(u, k, q, h) \/ (u = t /\ k = n + 1 /\ q = -1 /\ h = out)
    <3>1. ASSUME NEW u, NEW k, NEW q, NEW h, ~(u = t /\ k = n + 1)
          PROVE  InFrame(u, k, q, h)' <=> InFrame(u, k, q, h)
      <4>1. u \in Threads => (k \in DOMAIN stack'[u] <=> k \in DOMAIN stack[u])
        BY <2>7, <2>8, <3>1
      <4> QED BY <2>7, <4>1 DEF InFrame
    <3>2. \A q, h : InFrame(t, n + 1, q, h)' <=> Carries(g, q, h)
      BY <2>1, <2>7, <2>8 DEF InFrame
    <3>3. \A q, h : ~ InFrame(t, n + 1, q, h)
      BY <2>8 DEF InFrame
    <3> QED BY <2>9, <3>1, <3>2, <3>3
  <2>11. ~ Carried(out)
    BY <2>4, CarriedOpen
  <2>12. CarriedOnce'
    <3>1. \A p : ~ InPool(p, out)
      BY <2>11 DEF Carried
    <3>2. \A u, k, q : ~ InFrame(u, k, q, out)
      BY <2>11 DEF Carried
    <3>3. \A p, r, h : InPool(p, h)' /\ InPool(r, h)' => p = r
      BY <1>2, <1>4 DEF CarriedOnce
    <3>4. \A p, u, k, q, h : ~(InPool(p, h)' /\ InFrame(u, k, q, h)')
      BY <1>2, <1>4, <2>10, <3>1 DEF CarriedOnce
    <3>5. \A v, k, q, u, l, r, h :
            InFrame(v, k, q, h)' /\ InFrame(u, l, r, h)' => v = u /\ k = l /\ q = r
      BY <1>2, <2>10, <3>2 DEF CarriedOnce
    <3> QED BY <3>3, <3>4, <3>5 DEF CarriedOnce
  <2>13. \A h : Carried(h)' <=> Carried(h) \/ h = out
    <3>1. Carried(out)'
      <4>1. InFrame(t, n + 1, -1, out)'
        BY <2>10
      <4> QED BY <4>1 DEF Carried
    <3>2. ASSUME NEW h, h # out PROVE Carried(h)' <=> Carried(h)
      BY <1>4, <2>10, <3>2 DEF Carried
    <3> QED BY <3>1, <3>2, <2>11
  <2>14. \A i : Retiring(i)' <=> Retiring(i)
    <3>1. ASSUME NEW u, NEW k, NEW i PROVE RetiresAt(u, k, i)' <=> RetiresAt(u, k, i)
      <4>1. CASE u = t /\ k = n + 1
        BY <2>1, <2>3, <2>7, <2>8, <4>1 DEF RetiresAt
      <4>2. CASE ~(u = t /\ k = n + 1)
        <5>1. u \in Threads => (k \in DOMAIN stack'[u] <=> k \in DOMAIN stack[u])
          BY <2>7, <2>8, <4>2
        <5> QED BY <2>7, <5>1 DEF RetiresAt
      <4> QED BY <4>1, <4>2
    <3> QED BY <3>1 DEF Retiring
  <2> QED BY <1>6, <2>6, <2>12, <2>13, <2>14
<1> QED BY <1>5, <1>6

(* submitWithDependencies() preserves the invariant.                       *)
LEMMA SubmitInv ==
  ASSUME Inv, NEW t \in Threads, NEW list \in DependencyLists, submitWithDependencies(t, list)
  PROVE  Inv'
<1>1. PICK j, out, a, D :
        /\ a = AcquireIndex /\ D = Range(list) /\ Submits(j, out, a, D)
        /\ IF m_nodes'[a].scheduled THEN Push(t, Frame("enqueue", out)) ELSE stack' = stack
        /\ \A k \in Holding : NextAge(k) < GenerationLimit - 1
  BY SubmitShape
<1>2. Numbered' /\ FreeOnce' /\ Generations' /\ Owned' /\ Linked' /\ Lists' /\ Calls'
  BY <1>1, SubmitNumbers, SubmitOwned, SubmitListed, SubmitCalls
<1>3. /\ stack' \in Stacks /\ Frames' /\ CarriedOnce'
      /\ \A h : Carried(h)' <=> Carried(h) \/ (h = out /\ m_nodes'[a].scheduled)
      /\ \A i : Retiring(i)' <=> Retiring(i)
  BY <1>1, SubmitCarries
<1>4. PendingExact'
  BY <1>1, <1>3, SubmitPending
<1>5. /\ SubmitJob(j, out, D) /\ SubmitFree(a) /\ SubmitNode(j, out, a) /\ SubmitOthers(a)
      /\ \A h : Due(h) => Due(h)'
  BY <1>1, SubmitOpens DEF Submits
<1>6. PoolDue'
  <2>1. PoolDue
    BY DEF Inv, Carriage
  <2>2. poolTasks' = poolTasks
    BY <1>5 DEF SubmitJob
  <2>3. ASSUME NEW p \in DOMAIN poolTasks PROVE Due(poolTasks[p])'
    <3>1. PICK h : h = poolTasks[p] /\ Due(h)
      BY <2>1 DEF PoolDue
    <3>2. Due(h)'
      BY <1>5, <3>1
    <3> QED BY <2>2, <3>1, <3>2
  <2> QED BY <2>2, <2>3 DEF PoolDue
<1>7. CarriedSome'
  <2>1. SUFFICES ASSUME NEW i \in DOMAIN m_nodes', ~ m_nodes'[i].completed, m_nodes'[i].scheduled,
                        NEW h, h = HandleOf(m_nodes', i)
                 PROVE  Carried(h)'
    BY DEF CarriedSome
  <2>2. CASE i = a
    <3>1. h = [index |-> a, generation |-> m_nodes'[a].generation]
      BY <2>1, <2>2 DEF HandleOf
    <3>2. out.index = a /\ m_nodes'[a].generation = out.generation /\ out \in HandleType
      BY <1>5 DEF SubmitNode, SubmitJob
    <3>3. out = h
      BY <3>1, <3>2 DEF HandleType
    <3> QED BY <1>3, <2>1, <2>2, <3>3
  <2>3. CASE i # a
    <3>1. i \in DOMAIN m_nodes
      BY <1>5, <2>1, <2>3 DEF SubmitNode
    <3>2. ~ m_nodes[i].completed /\ m_nodes[i].scheduled /\ m_nodes'[i].generation = m_nodes[i].generation
      BY <1>5, <2>1, <2>3, <3>1 DEF SubmitOthers
    <3>3. h = HandleOf(m_nodes, i)
      BY <2>1, <3>2 DEF HandleOf
    <3>4. Carried(h)
      BY <3>1, <3>2, <3>3 DEF Inv, Carriage, CarriedSome
    <3> QED BY <1>3, <3>4
  <2> QED BY <2>2, <2>3
<1>8. Types'
  <2>1. Types /\ j \in Jobs /\ D \subseteq Jobs
    BY <1>5, JobsFinite DEF SubmitJob, Inv
  <2>2. handle' \in [Jobs -> HandleType]
    BY <1>5, <2>1 DEF SubmitJob, Types
  <2>3. state' \in [Jobs -> {"none", "pending", "running", "ended"}]
    BY <1>5, <2>1 DEF SubmitJob, Types
  <2>4. deps' \in [Jobs -> SUBSET Jobs]
    BY <1>5, <2>1 DEF SubmitJob, Types
  <2>5. /\ m_pendingJobCount' \in Nat /\ workers' \in WorkerSets /\ poolTasks' \in Seq(HandleType)
        /\ call' \in [Clients -> CallType]
    BY <1>5, <2>1 DEF SubmitJob, Types
  <2>6. m_nodes' \in Seq(NodeType) /\ m_freeNodes' \in Seq(1 .. MaxJobs)
    BY <1>5 DEF SubmitNode, SubmitFree
  <2> QED BY <1>3, <2>2, <2>3, <2>4, <2>5, <2>6 DEF Types
<1> QED BY <1>2, <1>3, <1>4, <1>6, <1>7, <1>8 DEF Inv, Carriage
-----------------------------------------------------------------------------
(* The loop of complete() is a recursive function.                         *)
LEMMA ReleaseLoop ==
  ASSUME NEW N, NEW allow, NEW S, NEW list \in Seq(S)
  PROVE  \E f : /\ ReleaseDependents(N, list, allow) = f[Len(list)]
                /\ f[0] = [nodes |-> N, allowInline |-> allow, cont |-> NoHandle, batch |-> <<>>]
                /\ \A k \in 1 .. Len(list) : f[k] = ReleaseDependent(f[k - 1], list[k])
<1> DEFINE n == Len(list)
           e0 == [nodes |-> N, allowInline |-> allow, cont |-> NoHandle, batch |-> <<>>]
           Def(f, m) == f = [k \in 0 .. m |->
                               IF k = 0 THEN e0 ELSE ReleaseDependent(f[k - 1], list[k])]
           Bad == {m \in Nat : ~ \E f : Def(f, m)}
<1>0. n \in Nat
  OBVIOUS
<1>1. Bad = {}
  <2>1. SUFFICES ASSUME Bad # {} PROVE FALSE
    OBVIOUS
  <2>2. PICK m \in Bad : \A k \in Bad : m <= k
    BY <2>1, Smallest
  <2>3. m # 0
    <3>1. Def([k \in 0 .. 0 |-> e0], 0)
      OBVIOUS
    <3> QED BY <3>1, <2>2
  <2>4. PICK f : Def(f, m - 1)
    <3>1. m \in Nat /\ m - 1 \in Nat /\ ~(m <= m - 1)
      BY <2>2, <2>3
    <3> HIDE DEF Def
    <3> QED BY <2>2, <3>1
  <2> DEFINE g == [k \in 0 .. m |-> IF k < m THEN f[k] ELSE ReleaseDependent(f[m - 1], list[m])]
  <2>5. Def(g, m)
    <3>1. m \in Nat /\ m - 1 \in Nat
      BY <2>2, <2>3
    <3>2. \A k \in 0 .. m - 1 : g[k] = f[k] /\ k \in 0 .. m
      BY <3>1
    <3>3. \A k \in 0 .. m - 1 : f[k] = IF k = 0 THEN e0 ELSE ReleaseDependent(f[k - 1], list[k])
      BY <2>4
    <3>4. \A k \in 0 .. m : g[k] = IF k = 0 THEN e0 ELSE ReleaseDependent(g[k - 1], list[k])
      <4> TAKE k \in 0 .. m
      <4>1. CASE k = m
        <5>1. g[m] = ReleaseDependent(f[m - 1], list[m])
          BY <3>1
        <5>2. g[m - 1] = f[m - 1]
          BY <3>1, <3>2
        <5> QED BY <2>3, <4>1, <5>1, <5>2
      <4>2. CASE k # m
        <5>1. k \in 0 .. m - 1 /\ (k # 0 => k - 1 \in 0 .. m - 1)
          BY <3>1, <4>2
        <5> HIDE DEF g
        <5> QED BY <3>2, <3>3, <5>1
      <4> QED BY <4>1, <4>2
    <3>5. g = [k \in 0 .. m |-> g[k]]
      OBVIOUS
    <3> HIDE DEF g
    <3> QED BY <3>4, <3>5
  <2> QED BY <2>2, <2>5
<1>2. PICK f : f = (CHOOSE G : Def(G, n))
  OBVIOUS
<1>3. Def(f, n)
  BY <1>0, <1>1, <1>2
<1>4. ReleaseDependents(N, list, allow) = f[n]
  BY <1>2 DEF ReleaseDependents
<1>5. f[0] = e0 /\ \A k \in 1 .. n : f[k] = ReleaseDependent(f[k - 1], list[k])
  BY <1>0, <1>3
<1> QED BY <1>4, <1>5

(* The places where h is listed, without the first m of node d's list.     *)
Ahead(N, d, m, h) == {p \in Listed(N, h) : ~(p[1] = d /\ p[2] <= m)}

(* The nodes N are counted exactly and what node d lists is waiting.       *)
Counted(N, d) ==
  /\ N \in Seq(NodeType) /\ d \in DOMAIN N /\ ~ N[d].completed
  /\ \A i \in DOMAIN N : ~ N[i].completed =>
       /\ IsFiniteSet(Listed(N, HandleOf(N, i)))
       /\ N[i].remaining = Cardinality(Listed(N, HandleOf(N, i)))
       /\ N[i].scheduled <=> N[i].remaining = 0
  /\ \A q \in DOMAIN N[d].dependents :
       /\ N[d].dependents[q] \in HandleType /\ Resolves(N, N[d].dependents[q])
       /\ N[d].dependents[q].index \in DOMAIN N
       /\ N[d].dependents[q] = HandleOf(N, N[d].dependents[q].index)

(* The nodes M are the nodes N but for the counts and the flag they set.   *)
Recounts(M, N) ==
  /\ M \in Seq(NodeType) /\ Len(M) = Len(N) /\ DOMAIN M = DOMAIN N
  /\ \A i \in DOMAIN N :
       /\ M[i].func = N[i].func /\ M[i].dependents = N[i].dependents
       /\ M[i].generation = N[i].generation /\ M[i].completed = N[i].completed
       /\ M[i].completedGeneration = N[i].completedGeneration
       /\ N[i].completed => M[i] = N[i]
       /\ N[i].scheduled => M[i].scheduled

(* h is at place q of the continuation and the batch.                      *)
Gets(cont, batch, q, h) ==
  \/ q = 0 /\ valid(cont) /\ cont = h
  \/ q \in DOMAIN batch /\ batch[q] = h

(* h became scheduled between N and M.                                     *)
Fresh(M, N, h) ==
  \E i \in DOMAIN N : h = HandleOf(N, i) /\ ~ N[i].completed /\ M[i].scheduled /\ ~ N[i].scheduled

Collects(cont, batch, allow, M, N) ==
  /\ cont \in HandleType /\ batch \in Seq(HandleType) /\ (valid(cont) => allow)
  /\ \A q, r, h : Gets(cont, batch, q, h) /\ Gets(cont, batch, r, h) => q = r
  /\ \A h : (\E q : Gets(cont, batch, q, h)) <=> Fresh(M, N, h)

AheadExact(M, N, d, m) ==
  \A i \in DOMAIN N : ~ N[i].completed =>
    /\ M[i].remaining = Cardinality(Ahead(N, d, m, HandleOf(N, i)))
    /\ M[i].scheduled <=> M[i].remaining = 0

(* What the loop has done after the first m dependents.                    *)
ReleaseGood(st, N, d, m, allow) ==
  \E M, cont, batch :
    /\ st = [nodes |-> M, allowInline |-> allow, cont |-> cont, batch |-> batch]
    /\ Recounts(M, N) /\ AheadExact(M, N, d, m) /\ Collects(cont, batch, allow, M, N)

(* One dependent less to wait for.                                         *)
LowerCount(M, x) ==
  [M EXCEPT ![x] = [M[x] EXCEPT !.remaining = M[x].remaining - 1,
                                !.scheduled = (M[x].remaining = 1)]]

(* For a dependent that resolves, complete()'s loop body lowers its count
   and hands it out when it reaches 0.                                     *)
LEMMA ReleaseShape ==
  ASSUME NEW M \in Seq(NodeType), NEW h, h.index \in DOMAIN M, Resolves(M, h),
         M[h.index].remaining # 0, ~ M[h.index].scheduled, NEW allow, NEW cont, NEW batch
  PROVE  LET st == [nodes |-> M, allowInline |-> allow, cont |-> cont, batch |-> batch]
             ready == M[h.index].remaining = 1
             inline == ready /\ allow /\ ~ valid(cont)
         IN  ReleaseDependent(st, h) =
               [nodes |-> LowerCount(M, h.index), allowInline |-> allow,
                cont |-> IF inline THEN h ELSE cont,
                batch |-> IF ready /\ ~ inline THEN Append(batch, h) ELSE batch]
<1>1. PICK x, r : x = h.index /\ r = M[x].remaining
  OBVIOUS
<1>2. M[x] \in NodeType /\ x \in DOMAIN M /\ r \in Nat /\ r # 0 /\ M[x].scheduled = FALSE
  <2>1. M[x] \in NodeType /\ x \in DOMAIN M /\ r # 0 /\ ~ M[x].scheduled
    BY <1>1
  <2>2. r \in Nat /\ M[x].scheduled \in BOOLEAN
    BY <1>1, <2>1 DEF NodeType
  <2> QED BY <2>1, <2>2
<1>3. PICK st : st = [nodes |-> M, allowInline |-> allow, cont |-> cont, batch |-> batch]
  OBVIOUS
<1>4. PICK ready, inline : ready = (r = 1) /\ inline = (ready /\ allow /\ ~ valid(cont))
  OBVIOUS
<1>5. PICK node : node = [M[x] EXCEPT !.remaining = @ - 1, !.scheduled = @ \/ ready]
  OBVIOUS
<1>6. ReleaseDependent(st, h) =
        [st EXCEPT !.nodes[x] = node,
                   !.cont  = IF inline THEN h ELSE @,
                   !.batch = IF ready /\ ~ inline THEN Append(@, h) ELSE @]
  BY <1>1, <1>2, <1>3, <1>4, <1>5 DEF ReleaseDependent
<1>7. ReleaseDependent(st, h) =
        [nodes |-> [M EXCEPT ![x] = node], allowInline |-> allow, cont |-> IF inline THEN h ELSE cont,
         batch |-> IF ready /\ ~ inline THEN Append(batch, h) ELSE batch]
  BY <1>3, <1>6
<1>8. [M EXCEPT ![x] = node] = LowerCount(M, x)
  <2>1. node = [M[x] EXCEPT !.remaining = M[x].remaining - 1, !.scheduled = (M[x].remaining = 1)]
    BY <1>1, <1>2, <1>4, <1>5
  <2> QED BY <2>1 DEF LowerCount
<1> QED BY <1>1, <1>3, <1>4, <1>7, <1>8
-----------------------------------------------------------------------------
(* Lowering the count of one node changes that count and its scheduled
   flag, and nothing else.                                                 *)
LEMMA LowerFacts ==
  ASSUME NEW M \in Seq(NodeType), NEW x \in DOMAIN M, M[x].remaining # 0, NEW L, L = LowerCount(M, x)
  PROVE  /\ L \in Seq(NodeType) /\ Len(L) = Len(M) /\ DOMAIN L = DOMAIN M
         /\ \A i \in DOMAIN M : i # x => L[i] = M[i]
         /\ L[x].func = M[x].func /\ L[x].dependents = M[x].dependents
         /\ L[x].generation = M[x].generation /\ L[x].completed = M[x].completed
         /\ L[x].completedGeneration = M[x].completedGeneration
         /\ L[x].remaining = M[x].remaining - 1 /\ (L[x].scheduled <=> M[x].remaining = 1)
<1>1. PICK r, node : r = M[x].remaining /\ node = [M[x] EXCEPT !.remaining = r - 1, !.scheduled = (r = 1)]
  OBVIOUS
<1>2. M[x] \in NodeType
  OBVIOUS
<1>3. r \in Nat /\ r - 1 \in Nat /\ (r = 1) \in BOOLEAN
  <2>1. r \in Nat
    BY <1>1, <1>2 DEF NodeType
  <2>2. r # 0
    BY <1>1
  <2> QED BY <2>1, <2>2
<1>4. node \in NodeType
  BY <1>1, <1>2, <1>3 DEF NodeType
<1>5. /\ node.func = M[x].func /\ node.dependents = M[x].dependents
      /\ node.generation = M[x].generation /\ node.completed = M[x].completed
      /\ node.completedGeneration = M[x].completedGeneration
      /\ node.remaining = r - 1 /\ (node.scheduled <=> r = 1)
  BY <1>1, <1>2 DEF NodeType
<1>6. L = [M EXCEPT ![x] = node]
  BY <1>1 DEF LowerCount
<1>7. /\ L \in Seq(NodeType) /\ Len(L) = Len(M) /\ DOMAIN L = DOMAIN M
      /\ \A i \in DOMAIN M : i # x => L[i] = M[i]
      /\ L[x] = node
  BY <1>4, <1>6
<1> QED BY <1>1, <1>5, <1>7

(* Turn m of the loop takes its own listing out of those still ahead.      *)
LEMMA AheadLess ==
  ASSUME NEW N, NEW d, Counted(N, d), NEW m \in Nat \ {0}, m \in DOMAIN N[d].dependents, NEW h
  PROVE  /\ Ahead(N, d, m, h) = Ahead(N, d, m - 1, h) \ {<<d, m>>}
         /\ <<d, m>> \in Ahead(N, d, m - 1, h) <=> h = N[d].dependents[m]
<1>1. d \in DOMAIN N /\ ~ N[d].completed
  BY DEF Counted
<1>2. N[d].dependents \in Seq(HandleType) /\ \A q \in DOMAIN N[d].dependents : q \in Nat
  <2>1. N[d] \in NodeType
    BY <1>1 DEF Counted
  <2>2. N[d].dependents \in Seq(HandleType)
    BY <2>1 DEF NodeType
  <2> QED BY <2>2
<1>3. \A i, q : <<i, q>> \in Listed(N, h) <=> ListedAt(N, i, q, h)
  BY ListedPairs
<1>4. \A k, i, q : <<i, q>> \in Ahead(N, d, k, h) <=> ListedAt(N, i, q, h) /\ ~(i = d /\ q <= k)
  BY <1>3 DEF Ahead
<1>5. \A k : \A p \in Ahead(N, d, k, h) : \E i, q : p = <<i, q>>
  BY ListedPairs DEF Ahead
<1>6. \A q \in DOMAIN N[d].dependents : q <= m <=> q <= m - 1 \/ q = m
  BY <1>2
<1>7. \A i, q : <<i, q>> \in Ahead(N, d, m, h) <=>
        <<i, q>> \in Ahead(N, d, m - 1, h) /\ <<i, q>> # <<d, m>>
  <2>1. ASSUME NEW i, NEW q
        PROVE  <<i, q>> \in Ahead(N, d, m, h) <=>
                 <<i, q>> \in Ahead(N, d, m - 1, h) /\ ~(i = d /\ q = m)
    <3>1. CASE i = d /\ ListedAt(N, i, q, h)
      <4>1. q \in DOMAIN N[d].dependents
        BY <3>1 DEF ListedAt
      <4> QED BY <1>4, <1>6, <3>1, <4>1
    <3>2. CASE ~(i = d /\ ListedAt(N, i, q, h))
      BY <1>4, <3>2
    <3> QED BY <3>1, <3>2
  <2> QED BY <2>1
<1>8. Ahead(N, d, m, h) = Ahead(N, d, m - 1, h) \ {<<d, m>>}
  <2>1. \A p \in Ahead(N, d, m, h) : p \in Ahead(N, d, m - 1, h) \ {<<d, m>>}
    BY <1>5, <1>7
  <2>2. \A p \in Ahead(N, d, m - 1, h) \ {<<d, m>>} : p \in Ahead(N, d, m, h)
    BY <1>5, <1>7
  <2> QED BY <2>1, <2>2
<1>9. <<d, m>> \in Ahead(N, d, m - 1, h) <=> ListedAt(N, d, m, h)
  <2>1. ~(m <= m - 1)
    OBVIOUS
  <2> QED BY <1>4, <2>1
<1>10. ListedAt(N, d, m, h) <=> h = N[d].dependents[m]
  BY <1>1 DEF ListedAt
<1> QED BY <1>8, <1>9, <1>10

(* The listing that turn m of the loop takes was still ahead of it.        *)
LEMMA AheadStep ==
  ASSUME NEW N, NEW d, Counted(N, d), NEW m \in Nat \ {0}, m \in DOMAIN N[d].dependents,
         NEW h, h = N[d].dependents[m]
  PROVE  /\ IsFiniteSet(Ahead(N, d, m - 1, h)) /\ <<d, m>> \in Ahead(N, d, m - 1, h)
         /\ Ahead(N, d, m, h) = Ahead(N, d, m - 1, h) \ {<<d, m>>}
<1>1. h = HandleOf(N, h.index) /\ h.index \in DOMAIN N /\ ~ N[h.index].completed
  BY DEF Counted, Resolves
<1>2. IsFiniteSet(Listed(N, h))
  BY <1>1 DEF Counted
<1>3. IsFiniteSet(Ahead(N, d, m - 1, h))
  BY <1>2, FS_Subset DEF Ahead
<1>4. /\ Ahead(N, d, m, h) = Ahead(N, d, m - 1, h) \ {<<d, m>>}
      /\ <<d, m>> \in Ahead(N, d, m - 1, h) <=> h = N[d].dependents[m]
  BY AheadLess
<1> QED BY <1>3, <1>4

(* Turn m of the loop leaves the listings of every other handle alone.     *)
LEMMA AheadOther ==
  ASSUME NEW N, NEW d, Counted(N, d), NEW m \in Nat \ {0}, m \in DOMAIN N[d].dependents,
         NEW h, h # N[d].dependents[m]
  PROVE  Ahead(N, d, m, h) = Ahead(N, d, m - 1, h)
<1>1. /\ Ahead(N, d, m, h) = Ahead(N, d, m - 1, h) \ {<<d, m>>}
      /\ <<d, m>> \in Ahead(N, d, m - 1, h) <=> h = N[d].dependents[m]
  BY AheadLess
<1>2. <<d, m>> \notin Ahead(N, d, m - 1, h)
  BY <1>1
<1> QED BY <1>1, <1>2

(* A turn that makes no job ready leaves the continuation and the batch
   exact.                                                                  *)
LEMMA CollectNone ==
  ASSUME NEW cont, NEW batch, NEW allow, NEW N, NEW M, NEW L, Collects(cont, batch, allow, M, N),
         \A i \in DOMAIN N : L[i].scheduled <=> M[i].scheduled
  PROVE  Collects(cont, batch, allow, L, N)
<1>1. \A h : Fresh(L, N, h) <=> Fresh(M, N, h)
  BY DEF Fresh
<1> QED BY <1>1 DEF Collects

(* A turn that makes one job ready puts it in the continuation or the
   batch, where no other handle was.                                       *)
LEMMA CollectOne ==
  ASSUME NEW cont, NEW batch, NEW allow, NEW N, NEW M, NEW L, Collects(cont, batch, allow, M, N),
         NEW h \in HandleType, valid(h), NEW x \in DOMAIN N, h = HandleOf(N, x), ~ N[x].completed, ~ N[x].scheduled,
         ~ M[x].scheduled, L[x].scheduled,
         \A i \in DOMAIN N : i # x => (L[i].scheduled <=> M[i].scheduled),
         NEW c, NEW b,
         \/ c = h /\ b = batch /\ ~ valid(cont) /\ allow
         \/ c = cont /\ b = Append(batch, h)
  PROVE  Collects(c, b, allow, L, N)
<1>1. /\ cont \in HandleType /\ batch \in Seq(HandleType) /\ (valid(cont) => allow)
      /\ \A q, r, e : Gets(cont, batch, q, e) /\ Gets(cont, batch, r, e) => q = r
      /\ \A e : (\E q : Gets(cont, batch, q, e)) <=> Fresh(M, N, e)
  BY DEF Collects
<1>2. \A i \in DOMAIN N : HandleOf(N, i) = h => i = x
  BY DEF HandleOf
<1>3. \A e : Fresh(L, N, e) <=> Fresh(M, N, e) \/ e = h
  BY <1>2 DEF Fresh
<1>4. ~ Fresh(M, N, h)
  BY <1>2 DEF Fresh
<1>5. \A q : ~ Gets(cont, batch, q, h)
  BY <1>1, <1>4
<1>6. PICK n \in Nat : n = Len(batch) /\ DOMAIN batch = 1 .. n
  BY <1>1
<1>7. 0 \notin 1 .. n /\ n + 1 \notin 1 .. n /\ n + 1 # 0
      /\ \A q : q \in 1 .. n + 1 <=> q \in 1 .. n \/ q = n + 1
  BY <1>6
<1>8. /\ c \in HandleType /\ b \in Seq(HandleType) /\ (valid(c) => allow)
      /\ \E z : \A q, e : Gets(c, b, q, e) <=> Gets(cont, batch, q, e) \/ (q = z /\ e = h)
  <2>1. CASE c = h /\ b = batch /\ ~ valid(cont) /\ allow
    <3>1. \A q, e : Gets(c, b, q, e) <=> Gets(cont, batch, q, e) \/ (q = 0 /\ e = h)
      <4>1. ASSUME NEW q, NEW e
            PROVE  Gets(c, b, q, e) <=> Gets(cont, batch, q, e) \/ (q = 0 /\ e = h)
        <5>1. Gets(h, batch, q, e) <=> (q = 0 /\ h = e) \/ (q \in DOMAIN batch /\ batch[q] = e)
          BY DEF Gets
        <5>2. Gets(cont, batch, q, e) <=> (q \in DOMAIN batch /\ batch[q] = e)
          BY <2>1 DEF Gets
        <5> QED BY <2>1, <5>1, <5>2
      <4> QED BY <4>1
    <3>2. c \in HandleType /\ b \in Seq(HandleType) /\ (valid(c) => allow)
      BY <1>1, <2>1
    <3> QED BY <3>1, <3>2
  <2>2. CASE c = cont /\ b = Append(batch, h)
    <3>1. b \in Seq(HandleType)
      BY <1>1, <2>2, AppendProperties
    <3>2. DOMAIN b = 1 .. n + 1 /\ b[n + 1] = h /\ \A q \in 1 .. n : b[q] = batch[q]
      BY <1>1, <1>6, <2>2
    <3>3. \A q, e : Gets(c, b, q, e) <=> Gets(cont, batch, q, e) \/ (q = n + 1 /\ e = h)
      <4>1. ASSUME NEW q, NEW e
            PROVE  Gets(c, b, q, e) <=> Gets(cont, batch, q, e) \/ (q = n + 1 /\ e = h)
        <5>1. q \in DOMAIN b /\ b[q] = e <=> (q \in DOMAIN batch /\ batch[q] = e) \/ (q = n + 1 /\ e = h)
          BY <1>6, <1>7, <3>2
        <5> QED BY <2>2, <5>1 DEF Gets
      <4> QED BY <4>1
    <3>4. c \in HandleType /\ (valid(c) => allow)
      BY <1>1, <2>2
    <3> QED BY <3>1, <3>3, <3>4
  <2> QED BY <2>1, <2>2
<1>9. PICK z : \A q, e : Gets(c, b, q, e) <=> Gets(cont, batch, q, e) \/ (q = z /\ e = h)
  BY <1>8
<1>10. \A q, r, e : Gets(c, b, q, e) /\ Gets(c, b, r, e) => q = r
  BY <1>1, <1>5, <1>9
<1>11. \A e : (\E q : Gets(c, b, q, e)) <=> Fresh(L, N, e)
  BY <1>1, <1>3, <1>9
<1> QED BY <1>8, <1>10, <1>11 DEF Collects

(* One turn of complete()'s loop keeps what is known of the turns so far:
   counts exact, every job that became ready collected once.               *)
LEMMA ReleaseStep ==
  ASSUME NEW N, NEW d, Counted(N, d), NEW m \in Nat \ {0}, m \in DOMAIN N[d].dependents,
         NEW allow, NEW st, ReleaseGood(st, N, d, m - 1, allow)
  PROVE  ReleaseGood(ReleaseDependent(st, N[d].dependents[m]), N, d, m, allow)
<1>1. PICK M, cont, batch :
        /\ st = [nodes |-> M, allowInline |-> allow, cont |-> cont, batch |-> batch]
        /\ Recounts(M, N) /\ AheadExact(M, N, d, m - 1) /\ Collects(cont, batch, allow, M, N)
  BY DEF ReleaseGood
<1>2. PICK h, x : h = N[d].dependents[m] /\ x = h.index
  OBVIOUS
<1>3. /\ h \in HandleType /\ Resolves(N, h) /\ x \in DOMAIN N /\ h = HandleOf(N, x)
      /\ ~ N[x].completed /\ valid(h) /\ N \in Seq(NodeType) /\ N[x].generation = h.generation
      /\ x <= Len(N)
  BY <1>2 DEF Counted, Resolves
<1>4. /\ M \in Seq(NodeType) /\ Len(M) = Len(N) /\ DOMAIN M = DOMAIN N
      /\ ~ M[x].completed /\ M[x].generation = N[x].generation
      /\ (N[x].scheduled => M[x].scheduled)
  BY <1>1, <1>3 DEF Recounts
<1>5. PICK A, B, p : A = Ahead(N, d, m - 1, h) /\ B = Ahead(N, d, m, h) /\ p = <<d, m>>
  OBVIOUS
<1>6. IsFiniteSet(A) /\ p \in A /\ B = A \ {p}
  BY <1>2, <1>5, AheadStep
<1>7. Cardinality(A) \in Nat \ {0} /\ Cardinality(B) = Cardinality(A) - 1
  <2>1. Cardinality(A) \in Nat
    BY <1>6, FS_CardinalityType
  <2>2. Cardinality(B) = Cardinality(A) - 1
    BY <1>6, FS_RemoveElement
  <2>3. Cardinality(A) # 0
    BY <1>6, FS_EmptySet
  <2> QED BY <2>1, <2>2, <2>3
<1>8. M[x].remaining = Cardinality(A) /\ (M[x].scheduled <=> M[x].remaining = 0)
  BY <1>1, <1>3, <1>5 DEF AheadExact
<1>9. M[x].remaining # 0 /\ ~ M[x].scheduled /\ ~ N[x].scheduled
  BY <1>4, <1>7, <1>8
<1>10. Resolves(M, h)
  BY <1>2, <1>3, <1>4 DEF Resolves
<1>11. PICK L, ready, inline, c, b :
        /\ L = LowerCount(M, x) /\ ready = (M[x].remaining = 1)
        /\ inline = (ready /\ allow /\ ~ valid(cont))
        /\ c = (IF inline THEN h ELSE cont)
        /\ b = (IF ready /\ ~ inline THEN Append(batch, h) ELSE batch)
  OBVIOUS
<1>12. ReleaseDependent(st, h) = [nodes |-> L, allowInline |-> allow, cont |-> c, batch |-> b]
  <2>1. M \in Seq(NodeType) /\ h.index \in DOMAIN M /\ M[h.index].remaining # 0 /\ ~ M[h.index].scheduled
    BY <1>2, <1>3, <1>4, <1>9
  <2>2. ReleaseDependent([nodes |-> M, allowInline |-> allow, cont |-> cont, batch |-> batch], h) =
          [nodes |-> LowerCount(M, h.index), allowInline |-> allow,
           cont |-> IF M[h.index].remaining = 1 /\ allow /\ ~ valid(cont) THEN h ELSE cont,
           batch |-> IF M[h.index].remaining = 1 /\ ~(M[h.index].remaining = 1 /\ allow /\ ~ valid(cont))
                     THEN Append(batch, h) ELSE batch]
    BY <1>10, <2>1, ReleaseShape
  <2> QED BY <1>1, <1>2, <1>11, <2>2
<1>13. /\ L \in Seq(NodeType) /\ Len(L) = Len(M) /\ DOMAIN L = DOMAIN M
       /\ \A i \in DOMAIN M : i # x => L[i] = M[i]
       /\ L[x].func = M[x].func /\ L[x].dependents = M[x].dependents
       /\ L[x].generation = M[x].generation /\ L[x].completed = M[x].completed
       /\ L[x].completedGeneration = M[x].completedGeneration
       /\ L[x].remaining = M[x].remaining - 1 /\ (L[x].scheduled <=> M[x].remaining = 1)
  <2>1. M \in Seq(NodeType) /\ x \in DOMAIN M /\ M[x].remaining # 0 /\ L = LowerCount(M, x)
    BY <1>3, <1>4, <1>9, <1>11
  <2> QED BY <2>1, LowerFacts
<1>14. Recounts(L, N)
  <2>1. ASSUME NEW i \in DOMAIN N
        PROVE  /\ L[i].func = N[i].func /\ L[i].dependents = N[i].dependents
               /\ L[i].generation = N[i].generation /\ L[i].completed = N[i].completed
               /\ L[i].completedGeneration = N[i].completedGeneration
               /\ N[i].completed => L[i] = N[i]
               /\ N[i].scheduled => L[i].scheduled
    <3>1. /\ M[i].func = N[i].func /\ M[i].dependents = N[i].dependents
          /\ M[i].generation = N[i].generation /\ M[i].completed = N[i].completed
          /\ M[i].completedGeneration = N[i].completedGeneration
          /\ N[i].completed => M[i] = N[i]
          /\ N[i].scheduled => M[i].scheduled
      BY <1>1 DEF Recounts
    <3>2. CASE i = x
      BY <1>3, <1>9, <1>13, <3>1, <3>2
    <3>3. CASE i # x
      BY <1>4, <1>13, <3>1, <3>3
    <3> QED BY <3>2, <3>3
  <2> QED BY <1>4, <1>13, <2>1 DEF Recounts
<1>15. AheadExact(L, N, d, m)
  <2>1. SUFFICES ASSUME NEW i \in DOMAIN N, ~ N[i].completed, NEW e, e = HandleOf(N, i)
                 PROVE  /\ L[i].remaining = Cardinality(Ahead(N, d, m, e))
                        /\ L[i].scheduled <=> L[i].remaining = 0
    BY DEF AheadExact
  <2>2. CASE i = x
    <3>1. e = h /\ L[x].remaining = Cardinality(B)
      BY <1>3, <1>7, <1>8, <1>13, <2>1, <2>2
    <3>2. M[x].remaining = 1 <=> M[x].remaining - 1 = 0
      BY <1>7, <1>8
    <3> QED BY <1>5, <1>13, <2>2, <3>1, <3>2
  <2>3. CASE i # x
    <3>1. e # N[d].dependents[m]
      BY <1>2, <1>3, <2>1, <2>3 DEF HandleOf
    <3>2. Ahead(N, d, m, e) = Ahead(N, d, m - 1, e)
      BY <3>1, AheadOther
    <3>3. M[i].remaining = Cardinality(Ahead(N, d, m - 1, e)) /\ (M[i].scheduled <=> M[i].remaining = 0)
      BY <1>1, <2>1 DEF AheadExact
    <3> QED BY <1>4, <1>13, <2>3, <3>2, <3>3
  <2> QED BY <2>2, <2>3
<1>16. Collects(c, b, allow, L, N)
  <2>1. CASE ~ ready
    <3>1. \A i \in DOMAIN N : L[i].scheduled <=> M[i].scheduled
      BY <1>4, <1>9, <1>11, <1>13, <2>1
    <3>2. c = cont /\ b = batch
      BY <1>11, <2>1
    <3> QED BY <1>1, <3>1, <3>2, CollectNone
  <2>2. CASE ready
    <3>1. \A i \in DOMAIN N : i # x => (L[i].scheduled <=> M[i].scheduled)
      BY <1>4, <1>13
    <3>2. L[x].scheduled
      BY <1>11, <1>13, <2>2
    <3>3. \/ c = h /\ b = batch /\ ~ valid(cont) /\ allow
          \/ c = cont /\ b = Append(batch, h)
      BY <1>11, <2>2
    <3>4. Collects(cont, batch, allow, M, N)
      BY <1>1
    <3> QED BY <1>3, <1>9, <3>1, <3>2, <3>3, <3>4, CollectOne
  <2> QED BY <2>1, <2>2
<1>17. ReleaseGood([nodes |-> L, allowInline |-> allow, cont |-> c, batch |-> b], N, d, m, allow)
  BY <1>14, <1>15, <1>16 DEF ReleaseGood
<1> QED BY <1>2, <1>12, <1>17

(* What complete() has done to the nodes of the dependents.                *)
LEMMA ReleaseFacts ==
  ASSUME NEW N, NEW d, Counted(N, d), NEW allow
  PROVE  ReleaseGood(ReleaseDependents(N, N[d].dependents, allow), N, d, Len(N[d].dependents), allow)
<1>1. PICK list : list = N[d].dependents
  OBVIOUS
<1>2. list \in Seq(HandleType)
  <2>1. N[d] \in NodeType
    BY DEF Counted
  <2> QED BY <1>1, <2>1 DEF NodeType
<1>3. PICK f :
        /\ ReleaseDependents(N, list, allow) = f[Len(list)]
        /\ f[0] = [nodes |-> N, allowInline |-> allow, cont |-> NoHandle, batch |-> <<>>]
        /\ \A k \in 1 .. Len(list) : f[k] = ReleaseDependent(f[k - 1], list[k])
  BY <1>2, ReleaseLoop
<1>4. PICK n \in Nat : n = Len(list) /\ DOMAIN list = 1 .. n
  BY <1>2
<1>5. ReleaseGood(f[0], N, d, 0, allow)
  <2>1. Recounts(N, N)
    BY DEF Recounts, Counted
  <2>2. ASSUME NEW h PROVE Ahead(N, d, 0, h) = Listed(N, h)
    <3>1. \A p \in Listed(N, h) : ~(p[1] = d /\ p[2] <= 0)
      <4>1. SUFFICES ASSUME NEW p \in Listed(N, h), p[1] = d PROVE ~(p[2] <= 0)
        OBVIOUS
      <4>2. PICK i, q : p = <<i, q>>
        BY ListedPairs
      <4>3. q \in DOMAIN list
        BY <1>1, <4>1, <4>2, ListedPairs DEF ListedAt
      <4>4. p[2] = q /\ q \in 1 .. n
        BY <1>4, <4>2, <4>3
      <4> QED BY <4>4
    <3> QED BY <3>1 DEF Ahead
  <2>3. AheadExact(N, N, d, 0)
    BY <2>2 DEF AheadExact, Counted
  <2>4. Collects(NoHandle, <<>>, allow, N, N)
    <3>1. NoHandle \in HandleType /\ <<>> \in Seq(HandleType)
      BY JobAssumption DEF NoHandle, HandleType
    <3>2. \A q, h : ~ Gets(NoHandle, <<>>, q, h)
      BY DEF Gets, valid
    <3>3. \A h : ~ Fresh(N, N, h)
      BY DEF Fresh
    <3> QED BY <3>1, <3>2, <3>3 DEF Collects, valid
  <2> QED BY <1>3, <2>1, <2>3, <2>4 DEF ReleaseGood
<1> DEFINE Bad == {m \in 0 .. n : ~ ReleaseGood(f[m], N, d, m, allow)}
<1>6. Bad = {}
  <2>1. SUFFICES ASSUME Bad # {} PROVE FALSE
    OBVIOUS
  <2>2. PICK m \in Bad : \A k \in Bad : m <= k
    <3>1. Bad \in SUBSET Nat
      BY <1>4
    <3> HIDE DEF Bad
    <3> QED BY <2>1, <3>1, Smallest
  <2>3. m \in 0 .. n /\ m # 0 /\ ~ ReleaseGood(f[m], N, d, m, allow)
    BY <1>5, <2>2
  <2>4. m \in 1 .. n /\ m - 1 \in 0 .. n /\ ~(m <= m - 1) /\ m \in Nat \ {0}
    BY <1>4, <2>3
  <2>5. m - 1 \notin Bad
    <3> HIDE DEF Bad
    <3> QED BY <2>2, <2>4
  <2>6. ReleaseGood(f[m - 1], N, d, m - 1, allow)
    BY <2>4, <2>5
  <2>7. m \in 1 .. Len(list) /\ m \in DOMAIN N[d].dependents
    BY <1>1, <1>4, <2>4
  <2>8. ReleaseGood(ReleaseDependent(f[m - 1], N[d].dependents[m]), N, d, m, allow)
    BY <2>4, <2>6, <2>7, ReleaseStep
  <2> QED BY <1>1, <1>3, <2>3, <2>7, <2>8
<1>7. n \in 0 .. n
  BY <1>4
<1> QED BY <1>1, <1>3, <1>4, <1>6, <1>7
-----------------------------------------------------------------------------
(* What complete() does to the nodes when it recycles node d.              *)
Completes(d, j) ==
  /\ d \in DOMAIN m_nodes /\ Live(j) /\ handle[j] = HandleOf(m_nodes, d) /\ state[j] = "ended"
  /\ handle[j].index = d
  /\ m_nodes[d].scheduled /\ m_nodes[d].func = 0 /\ ~ m_nodes[d].completed
  /\ Listed(m_nodes, handle[j]) = {}
  /\ UNCHANGED <<workers, m_pendingJobCount, poolTasks, call, handle, state, deps>>
  /\ m_nodes' \in Seq(NodeType) /\ Len(m_nodes') = Len(m_nodes) /\ DOMAIN m_nodes' = DOMAIN m_nodes
  /\ \A i \in DOMAIN m_nodes : i # d =>
       /\ m_nodes'[i].func = m_nodes[i].func /\ m_nodes'[i].dependents = m_nodes[i].dependents
       /\ m_nodes'[i].generation = m_nodes[i].generation
       /\ m_nodes'[i].completed = m_nodes[i].completed
       /\ m_nodes'[i].completedGeneration = m_nodes[i].completedGeneration
       /\ m_nodes[i].completed => m_nodes'[i] = m_nodes[i]
       /\ m_nodes[i].scheduled => m_nodes'[i].scheduled
       /\ ~ m_nodes[i].completed =>
            /\ m_nodes'[i].remaining =
                 Cardinality({p \in Listed(m_nodes, HandleOf(m_nodes, i)) : p[1] # d})
            /\ m_nodes'[i].scheduled <=> m_nodes'[i].remaining = 0
  /\ m_nodes'[d].func = 0 /\ m_nodes'[d].dependents = <<>> /\ m_nodes'[d].completed
  /\ ~ m_nodes'[d].scheduled
  /\ m_nodes'[d].generation = NextGeneration(m_nodes[d].generation)
  /\ m_nodes'[d].completedGeneration = m_nodes[d].generation
  /\ m_freeNodes' = Append(m_freeNodes, d)

(* The jobs complete() has made ready.                                     *)
Readied(h) == Fresh(m_nodes', m_nodes, h)

(* The invariant gives the loop of complete() the exact counts it starts
   from.                                                                   *)
LEMMA InvCounted ==
  ASSUME Inv, NEW d \in DOMAIN m_nodes, ~ m_nodes[d].completed
  PROVE  Counted(m_nodes, d)
<1>1. Types /\ Lists /\ RemainingExact
  BY DEF Inv, Lists
<1>2. m_nodes \in Seq(NodeType)
  BY <1>1 DEF Types
<1>3. ASSUME NEW i \in DOMAIN m_nodes, ~ m_nodes[i].completed
      PROVE  /\ IsFiniteSet(Listed(m_nodes, HandleOf(m_nodes, i)))
             /\ m_nodes[i].remaining = Cardinality(Listed(m_nodes, HandleOf(m_nodes, i)))
             /\ m_nodes[i].scheduled <=> m_nodes[i].remaining = 0
  BY <1>1, <1>3 DEF Lists, RemainingExact
<1>4. ASSUME NEW q \in DOMAIN m_nodes[d].dependents
      PROVE  /\ m_nodes[d].dependents[q] \in HandleType /\ Resolves(m_nodes, m_nodes[d].dependents[q])
             /\ m_nodes[d].dependents[q].index \in DOMAIN m_nodes
             /\ m_nodes[d].dependents[q] = HandleOf(m_nodes, m_nodes[d].dependents[q].index)
  <2>1. PICK h : h = m_nodes[d].dependents[q] /\ Open(h)
    BY <1>1 DEF Lists
  <2>2. Resolves(m_nodes, h) /\ h = HandleOf(m_nodes, h.index)
    BY <1>1, <2>1, OpenFact
  <2> QED BY <2>1, <2>2 DEF Open
<1> QED BY <1>2, <1>3, <1>4 DEF Counted

Recycle(N, d, g) == [N EXCEPT ![d] = recycleNodeLocked([@ EXCEPT !.completedGeneration = g])]

(* recycleNodeLocked() clears the node, completes it and moves its
   generation on.                                                          *)
LEMMA RecycleFact ==
  ASSUME NEW N \in Seq(NodeType), NEW d \in DOMAIN N, NEW g \in 1 .. GenerationLimit, NEW L,
         L = Recycle(N, d, g)
  PROVE  /\ L \in Seq(NodeType) /\ Len(L) = Len(N) /\ DOMAIN L = DOMAIN N
         /\ \A i \in DOMAIN N : i # d => L[i] = N[i]
         /\ L[d].func = 0 /\ L[d].dependents = <<>> /\ L[d].completed /\ ~ L[d].scheduled
         /\ L[d].generation = NextGeneration(N[d].generation) /\ L[d].completedGeneration = g
<1>1. PICK a, node : a = [N[d] EXCEPT !.completedGeneration = g] /\ node = recycleNodeLocked(a)
  OBVIOUS
<1>2. N[d] \in NodeType
  OBVIOUS
<1>3. a \in NodeType /\ a.generation = N[d].generation /\ a.completedGeneration = g
  <2>1. g \in 0 .. GenerationLimit
    BY JobAssumption
  <2> QED BY <1>1, <1>2, <2>1 DEF NodeType
<1>4. NextGeneration(a.generation) \in 1 .. GenerationLimit
  <2>1. a.generation \in 1 .. GenerationLimit
    BY <1>3 DEF NodeType
  <2> QED BY <2>1, JobAssumption DEF NextGeneration
<1>5. node = [a EXCEPT !.func = 0, !.dependents = <<>>, !.remaining = 0, !.completed = TRUE,
                       !.scheduled = FALSE, !.generation = NextGeneration(a.generation)]
  BY <1>1, <1>3 DEF recycleNodeLocked, NodeType
<1>6. 0 \in 0 .. MaxJobs /\ <<>> \in Seq(HandleType) /\ 0 \in Nat
  BY JobAssumption
<1>7. node \in NodeType
  BY <1>3, <1>4, <1>5, <1>6 DEF NodeType
<1>8. /\ node.func = 0 /\ node.dependents = <<>> /\ node.completed /\ ~ node.scheduled
      /\ node.generation = NextGeneration(N[d].generation) /\ node.completedGeneration = g
  BY <1>3, <1>5 DEF NodeType
<1>9. L = [N EXCEPT ![d] = node]
  BY <1>1 DEF Recycle
<1>10. /\ L \in Seq(NodeType) /\ Len(L) = Len(N) /\ DOMAIN L = DOMAIN N
       /\ \A i \in DOMAIN N : i # d => L[i] = N[i]
       /\ L[d] = node
  BY <1>7, <1>9
<1> QED BY <1>8, <1>10

(* Every complete() of a scheduled job is described by Completes; the
   jobs it readied are its continuation and batch, each once.              *)
LEMMA CompleteShape ==
  ASSUME Inv, NEW t \in Threads, completeLocked(t)
  PROVE  \E d, cont, batch :
           /\ Completes(d, Top(t).fn) /\ d = Top(t).cur.index
           /\ SetTop(t, [Top(t) EXCEPT !.at = "signal", !.cont = cont, !.batch = batch])
           /\ cont \in HandleType /\ batch \in Seq(HandleType)
           /\ valid(cont) => Top(t).depth < s_WorkFirstDepthLimit
           /\ \A q, r, h : Gets(cont, batch, q, h) /\ Gets(cont, batch, r, h) => q = r
           /\ \A h : (\E q : Gets(cont, batch, q, h)) <=> Readied(h)
<1>1. PICK f, h, d, j, allow, rel :
        /\ f = Top(t) /\ h = f.cur /\ d = h.index /\ j = f.fn
        /\ allow = (f.depth < s_WorkFirstDepthLimit)
        /\ rel = ReleaseDependents(m_nodes, m_nodes[d].dependents, allow)
  OBVIOUS
<1>2. At(t, "complete")
  BY DEF completeLocked
<1>3. FrameOK(f) /\ f.at = "complete" /\ f \in FrameType
  BY <1>1, <1>2, TopInv
<1>4. Live(j) /\ handle[j] = h /\ m_nodes[d].scheduled /\ m_nodes[d].func = 0 /\ state[j] = "ended"
  BY <1>1, <1>3 DEF FrameOK
<1>5. Types /\ Numbered /\ Generations /\ Lists /\ RemainingExact
  BY DEF Inv, Lists
<1>6. j \in submitted /\ j \in Jobs /\ h = HandleOf(m_nodes, d) /\ Resolves(m_nodes, h)
  BY <1>1, <1>4, <1>5, LiveHandle
<1>7. d \in DOMAIN m_nodes /\ ~ m_nodes[d].completed /\ m_nodes[d].generation = h.generation
      /\ h.generation \in 1 .. GenerationLimit /\ m_nodes \in Seq(NodeType)
  <2>1. d \in DOMAIN m_nodes /\ h.generation # 0 /\ h \in HandleType
    BY <1>1, <1>4, <1>5, <1>6 DEF Numbered, Types
  <2>2. ~ m_nodes[d].completed /\ m_nodes[d].generation = h.generation
    BY <1>1, <1>6 DEF Resolves
  <2>3. h.generation \in 0 .. GenerationLimit
    BY <2>1 DEF HandleType
  <2>4. h.generation \in 1 .. GenerationLimit
    BY <2>1, <2>3, JobAssumption
  <2> QED BY <1>5, <2>1, <2>2, <2>4 DEF Types
<1>8. Counted(m_nodes, d)
  BY <1>7, InvCounted
<1>9. Listed(m_nodes, h) = {}
  <2>1. IsFiniteSet(Listed(m_nodes, h)) /\ Cardinality(Listed(m_nodes, h)) = 0
    BY <1>4, <1>6, <1>7, <1>8 DEF Counted
  <2> QED BY <2>1, FS_EmptySet
<1>10. ReleaseGood(rel, m_nodes, d, Len(m_nodes[d].dependents), allow)
  BY <1>1, <1>8, ReleaseFacts
<1>11. PICK M, cont, batch, m :
         /\ m = Len(m_nodes[d].dependents)
         /\ rel = [nodes |-> M, allowInline |-> allow, cont |-> cont, batch |-> batch]
         /\ Recounts(M, m_nodes) /\ AheadExact(M, m_nodes, d, m)
         /\ Collects(cont, batch, allow, M, m_nodes)
  BY <1>10 DEF ReleaseGood
<1>12. rel.nodes = M /\ rel.cont = cont /\ rel.batch = batch
  BY <1>11
<1>13. /\ m_nodes' = [M EXCEPT ![d] = recycleNodeLocked([@ EXCEPT !.completedGeneration = h.generation])]
       /\ m_freeNodes' = Append(m_freeNodes, d)
       /\ SetTop(t, [f EXCEPT !.at = "signal", !.cont = cont, !.batch = batch])
       /\ UNCHANGED <<workers, m_pendingJobCount, poolTasks, call, handle, state, deps>>
  <2>1. rel = ReleaseDependents(m_nodes, m_nodes[Top(t).cur.index].dependents,
                                Top(t).depth < s_WorkFirstDepthLimit)
    BY <1>1
  <2> QED BY <1>1, <1>6, <1>12, <2>1 DEF completeLocked
<1>14. /\ M \in Seq(NodeType) /\ Len(M) = Len(m_nodes) /\ DOMAIN M = DOMAIN m_nodes
       /\ M[d].generation = m_nodes[d].generation
  BY <1>7, <1>11 DEF Recounts
<1>15. /\ m_nodes' \in Seq(NodeType) /\ Len(m_nodes') = Len(M) /\ DOMAIN m_nodes' = DOMAIN M
       /\ \A i \in DOMAIN M : i # d => m_nodes'[i] = M[i]
       /\ m_nodes'[d].func = 0 /\ m_nodes'[d].dependents = <<>> /\ m_nodes'[d].completed /\ ~ m_nodes'[d].scheduled
       /\ m_nodes'[d].generation = NextGeneration(M[d].generation) /\ m_nodes'[d].completedGeneration = h.generation
  <2>1. PICK L : L = m_nodes'
    OBVIOUS
  <2>2. d \in DOMAIN M
    BY <1>7, <1>14
  <2>3. L = Recycle(M, d, h.generation)
    BY <1>13, <2>1 DEF Recycle
  <2>4. /\ L \in Seq(NodeType) /\ Len(L) = Len(M) /\ DOMAIN L = DOMAIN M
        /\ \A i \in DOMAIN M : i # d => L[i] = M[i]
        /\ L[d].func = 0 /\ L[d].dependents = <<>> /\ L[d].completed /\ ~ L[d].scheduled
        /\ L[d].generation = NextGeneration(M[d].generation) /\ L[d].completedGeneration = h.generation
    BY <1>7, <1>14, <2>2, <2>3, RecycleFact
  <2> QED BY <2>1, <2>4
<1>16. \A e : Ahead(m_nodes, d, m, e) = {p \in Listed(m_nodes, e) : p[1] # d}
  <2>1. SUFFICES ASSUME NEW e, NEW p \in Listed(m_nodes, e) PROVE ~(p[1] = d /\ p[2] <= m) <=> p[1] # d
    BY DEF Ahead
  <2>2. PICK i, q : p = <<i, q>>
    BY ListedPairs
  <2>3. q \in DOMAIN m_nodes[i].dependents
    BY <2>2, ListedPairs DEF ListedAt
  <2>4. CASE i = d
    <3>1. m_nodes[d] \in NodeType
      BY <1>7
    <3>2. m_nodes[d].dependents \in Seq(HandleType)
      BY <3>1 DEF NodeType
    <3>3. q <= m
      BY <1>11, <2>3, <2>4, <3>2
    <3> QED BY <2>2, <2>4, <3>3
  <2>5. CASE i # d
    BY <2>2, <2>5
  <2> QED BY <2>4, <2>5
<1>17. ASSUME NEW i \in DOMAIN m_nodes, i # d
       PROVE  /\ m_nodes'[i].func = m_nodes[i].func /\ m_nodes'[i].dependents = m_nodes[i].dependents
              /\ m_nodes'[i].generation = m_nodes[i].generation
              /\ m_nodes'[i].completed = m_nodes[i].completed
              /\ m_nodes'[i].completedGeneration = m_nodes[i].completedGeneration
              /\ m_nodes[i].completed => m_nodes'[i] = m_nodes[i]
              /\ m_nodes[i].scheduled => m_nodes'[i].scheduled
              /\ ~ m_nodes[i].completed =>
                   /\ m_nodes'[i].remaining =
                        Cardinality({p \in Listed(m_nodes, HandleOf(m_nodes, i)) : p[1] # d})
                   /\ m_nodes'[i].scheduled <=> m_nodes'[i].remaining = 0
  <2>1. m_nodes'[i] = M[i]
    BY <1>14, <1>15, <1>17
  <2>2. /\ M[i].func = m_nodes[i].func /\ M[i].dependents = m_nodes[i].dependents
        /\ M[i].generation = m_nodes[i].generation /\ M[i].completed = m_nodes[i].completed
        /\ M[i].completedGeneration = m_nodes[i].completedGeneration
        /\ m_nodes[i].completed => M[i] = m_nodes[i]
        /\ m_nodes[i].scheduled => M[i].scheduled
    BY <1>11 DEF Recounts
  <2>3. ~ m_nodes[i].completed =>
          /\ M[i].remaining = Cardinality(Ahead(m_nodes, d, m, HandleOf(m_nodes, i)))
          /\ M[i].scheduled <=> M[i].remaining = 0
    BY <1>11 DEF AheadExact
  <2> QED BY <1>16, <2>1, <2>2, <2>3
<1>18. Completes(d, j)
  BY <1>4, <1>6, <1>7, <1>9, <1>13, <1>14, <1>15, <1>17, <1>1 DEF Completes
<1>19. \A e : Fresh(M, m_nodes, e) <=> Readied(e)
  <2>1. \A i \in DOMAIN m_nodes : i # d => m_nodes'[i] = M[i]
    BY <1>14, <1>15
  <2> QED BY <1>4, <2>1 DEF Fresh, Readied
<1>20. /\ cont \in HandleType /\ batch \in Seq(HandleType)
       /\ valid(cont) => f.depth < s_WorkFirstDepthLimit
       /\ \A q, r, e : Gets(cont, batch, q, e) /\ Gets(cont, batch, r, e) => q = r
       /\ \A e : (\E q : Gets(cont, batch, q, e)) <=> Readied(e)
  BY <1>1, <1>11, <1>19 DEF Collects
<1> QED BY <1>1, <1>13, <1>18, <1>20
-----------------------------------------------------------------------------
(* complete() ends the life of its own job, and of no other; a job it
   readies becomes due.                                                    *)
LEMMA CompleteLives ==
  ASSUME Inv, NEW d, NEW j, Completes(d, j)
  PROVE  /\ j \in submitted /\ j \in Jobs /\ j # 0 /\ submitted' = submitted
         /\ \A k : Age(k)' = Age(k)
         /\ \A k : Live(k)' <=> Live(k) /\ k # j
         /\ \A k : Live(k) /\ k # j => handle[k].index # d /\ handle[k].index \in DOMAIN m_nodes
         /\ \A k : Live(k) /\ k # j => handle[k] # handle[j]
         /\ \A h : Open(h) /\ h # handle[j] => Open(h)' /\ h.index # d
         /\ \A h : Due(h) => Due(h)' /\ h # handle[j]
         /\ \A h : Readied(h) => Due(h)' /\ Open(h) /\ ~ m_nodes[h.index].scheduled /\ h # handle[j]
<1>1. /\ d \in DOMAIN m_nodes /\ Live(j) /\ handle[j] = HandleOf(m_nodes, d)
      /\ handle[j].index = d /\ m_nodes[d].scheduled /\ m_nodes[d].func = 0 /\ ~ m_nodes[d].completed
      /\ handle' = handle /\ state' = state
      /\ DOMAIN m_nodes' = DOMAIN m_nodes /\ m_nodes'[d].completed
  BY DEF Completes
<1>2. \A i \in DOMAIN m_nodes : i # d =>
        /\ m_nodes'[i].func = m_nodes[i].func /\ m_nodes'[i].generation = m_nodes[i].generation
        /\ m_nodes'[i].completed = m_nodes[i].completed
        /\ m_nodes[i].scheduled => m_nodes'[i].scheduled
  BY DEF Completes
<1>3. j \in submitted /\ j \in Jobs /\ j # 0
  BY <1>1, JobsFinite DEF Live
<1>4. submitted' = submitted
  BY <1>1 DEF submitted
<1>5. ASSUME NEW k PROVE Age(k)' = Age(k)
  BY <1>1, <1>4 DEF Age
<1>6. \A k \in submitted : handle[k].index \in DOMAIN m_nodes
  BY DEF Inv, Numbered
<1>7. ASSUME NEW k, Live(k), k # j
      PROVE  handle[k].index # d /\ handle[k].index \in DOMAIN m_nodes /\ handle[k] # handle[j]
  <2>1. handle[k].index # d
    BY <1>1, <1>7, OneLive
  <2> QED BY <1>1, <1>6, <1>7, <2>1 DEF Live
<1>8. ASSUME NEW k PROVE Live(k)' <=> Live(k) /\ k # j
  <2>1. k \in submitted => (Latest(k)' <=> Latest(k))
    BY <1>1, <1>4 DEF Latest
  <2>2. CASE k \in submitted /\ handle[k].index = d
    <3>1. ~ Live(k)'
      BY <1>1, <2>2 DEF Live
    <3> QED BY <1>7, <2>2, <3>1
  <2>3. CASE k \in submitted /\ handle[k].index # d
    <3>1. m_nodes'[handle[k].index].completed = m_nodes[handle[k].index].completed /\ k # j
      BY <1>1, <1>2, <1>6, <2>3
    <3> QED BY <1>1, <1>4, <2>1, <2>3, <3>1 DEF Live
  <2>4. CASE k \notin submitted
    BY <1>4, <2>4 DEF Live
  <2> QED BY <2>2, <2>3, <2>4
<1>9. ASSUME NEW h, Open(h), h # handle[j] PROVE Open(h)' /\ h.index # d
  <2>1. h = HandleOf(m_nodes, h.index)
    BY <1>9, OpenFact DEF Inv
  <2>2. h.index # d
    BY <1>1, <1>9, <2>1
  <2> QED BY <1>1, <1>2, <1>9, <2>2 DEF Open
<1>10. ASSUME NEW h, Due(h) PROVE Due(h)' /\ h # handle[j]
  <2>1. h # handle[j] /\ Open(h)
    BY <1>1, <1>10 DEF Due
  <2>2. Open(h)' /\ h.index # d /\ h.index \in DOMAIN m_nodes
    BY <1>9, <2>1 DEF Open
  <2> QED BY <1>2, <1>10, <2>1, <2>2 DEF Due
<1>11. ASSUME NEW h, Readied(h)
       PROVE  Due(h)' /\ Open(h) /\ ~ m_nodes[h.index].scheduled /\ h # handle[j]
  <2>1. PICK i \in DOMAIN m_nodes :
          h = HandleOf(m_nodes, i) /\ ~ m_nodes[i].completed /\ m_nodes'[i].scheduled /\ ~ m_nodes[i].scheduled
    BY <1>11 DEF Readied, Fresh
  <2>2. i # d
    BY <1>1, <2>1
  <2>3. NodeOK(i) /\ m_nodes \in Seq(NodeType) /\ Types
    BY DEF Inv, Owned, Types
  <2>4. m_nodes[i].func # 0
    BY <2>1, <2>3 DEF NodeOK
  <2>5. h.index = i /\ h.generation = m_nodes[i].generation
    BY <2>1 DEF HandleOf
  <2>6. h \in HandleType
    <3>1. PICK k \in submitted : Live(k) /\ handle[k].index = i
      BY <2>1, <2>3 DEF NodeOK
    <3>2. handle[k] = HandleOf(m_nodes, i) /\ k \in Jobs
      BY <3>1, LiveHandle DEF Inv
    <3> QED BY <2>1, <2>3, <3>2 DEF Types
  <2>7. Open(h)
    BY <2>1, <2>5, <2>6 DEF Open
  <2>8. h # handle[j]
    BY <1>1, <2>2, <2>5
  <2>9. Open(h)'
    BY <1>9, <2>7, <2>8
  <2>10. Due(h)'
    BY <1>2, <2>1, <2>2, <2>4, <2>5, <2>9 DEF Due
  <2> QED BY <2>1, <2>5, <2>7, <2>8, <2>10
<1> QED BY <1>3, <1>4, <1>5, <1>7, <1>8, <1>9, <1>10, <1>11

(* NextGeneration follows Advance until the generation has gone once
   round.                                                                  *)
LEMMA NextAdvance ==
  ASSUME NEW g \in 1 .. GenerationLimit, NEW a \in Nat, a + 1 <= GenerationLimit
  PROVE  NextGeneration(Advance(g, a)) = Advance(g, a + 1)
<1>1. GenerationLimit \in Nat
  BY JobAssumption
<1> QED BY <1>1 DEF NextGeneration, Advance

(* complete() preserves the numbering, the free list and the generations.  *)
LEMMA CompleteNumbers ==
  ASSUME Inv, NEW d, NEW j, Completes(d, j)
  PROVE  Numbered' /\ FreeOnce' /\ Generations' /\ m_freeNodes' \in Seq(1 .. MaxJobs)
<1>1. /\ d \in DOMAIN m_nodes /\ ~ m_nodes[d].completed
      /\ handle' = handle /\ state' = state /\ deps' = deps
      /\ DOMAIN m_nodes' = DOMAIN m_nodes /\ Len(m_nodes') = Len(m_nodes) /\ m_nodes'[d].completed
      /\ m_nodes'[d].generation = NextGeneration(m_nodes[d].generation)
      /\ m_nodes'[d].completedGeneration = m_nodes[d].generation
      /\ m_freeNodes' = Append(m_freeNodes, d)
  BY DEF Completes
<1>2. \A i \in DOMAIN m_nodes : i # d =>
        /\ m_nodes'[i].generation = m_nodes[i].generation /\ m_nodes'[i].completed = m_nodes[i].completed
        /\ m_nodes'[i].completedGeneration = m_nodes[i].completedGeneration
  BY DEF Completes
<1>3. submitted' = submitted /\ \A k : Age(k)' = Age(k)
  BY CompleteLives
<1>4. Types /\ Numbered /\ FreeOnce /\ Generations
  BY DEF Inv
<1>5. Numbered'
  BY <1>1, <1>3, <1>4 DEF Numbered
<1>6. d \in 1 .. MaxJobs
  <2>1. Len(m_nodes) <= Cardinality(submitted) /\ Cardinality(submitted) <= MaxJobs
        /\ Cardinality(submitted) \in Nat /\ MaxJobs \in Nat
    BY <1>4, JobsFinite DEF Numbered
  <2>2. d \in 1 .. Len(m_nodes) /\ Len(m_nodes) \in Nat
    BY <1>1, <1>4 DEF Types
  <2> QED BY <2>1, <2>2
<1>7. PICK F, n : F = m_freeNodes /\ F \in Seq(1 .. MaxJobs) /\ n = Len(F) /\ n \in Nat /\ DOMAIN F = 1 .. n
  BY <1>4 DEF Types
<1>8. PICK E : E = Append(F, d)
  OBVIOUS
<1>9. E \in Seq(1 .. MaxJobs)
  BY <1>6, <1>7, <1>8, AppendProperties
<1>10. DOMAIN E = 1 .. n + 1 /\ E[n + 1] = d /\ \A k \in 1 .. n : E[k] = F[k]
  BY <1>6, <1>7, <1>8
<1>11. n + 1 \notin 1 .. n /\ \A k : k \in 1 .. n + 1 <=> k \in 1 .. n \/ k = n + 1
  BY <1>7
<1>12. m_freeNodes' = E
  BY <1>1, <1>7, <1>8
<1>13. FreeOnce'
  <2>1. \A k \in 1 .. n : F[k] # d
    BY <1>1, <1>4, <1>7 DEF FreeOnce
  <2>2. \A k, l \in DOMAIN E : E[k] = E[l] => k = l
    BY <1>4, <1>7, <1>10, <1>11, <2>1 DEF FreeOnce
  <2>3. \A k \in DOMAIN E : E[k] \in DOMAIN m_nodes /\ m_nodes'[E[k]].completed
    <3>1. SUFFICES ASSUME NEW k \in DOMAIN E PROVE E[k] \in DOMAIN m_nodes /\ m_nodes'[E[k]].completed
      OBVIOUS
    <3>2. CASE k \in 1 .. n
      <4>1. E[k] = F[k] /\ F[k] # d /\ k \in DOMAIN m_freeNodes /\ F[k] = m_freeNodes[k]
        BY <1>7, <1>10, <2>1, <3>2
      <4>2. F[k] \in DOMAIN m_nodes /\ m_nodes[F[k]].completed
        BY <1>4, <4>1 DEF FreeOnce
      <4> QED BY <1>2, <4>1, <4>2
    <3>3. CASE k = n + 1
      BY <1>1, <1>10, <3>3
    <3> QED BY <1>10, <1>11, <3>1, <3>2, <3>3
  <2>4. \A i \in DOMAIN m_nodes : m_nodes'[i].completed => \E k \in DOMAIN E : E[k] = i
    <3>1. SUFFICES ASSUME NEW i \in DOMAIN m_nodes, m_nodes'[i].completed PROVE \E k \in DOMAIN E : E[k] = i
      OBVIOUS
    <3>2. CASE i = d
      BY <1>10, <1>11, <3>2
    <3>3. CASE i # d
      <4>1. PICK k \in DOMAIN F : F[k] = i
        BY <1>2, <1>4, <1>7, <3>1, <3>3 DEF FreeOnce
      <4> QED BY <1>7, <1>10, <1>11, <4>1
    <3> QED BY <3>2, <3>3
  <2> QED BY <1>1, <1>12, <2>2, <2>3, <2>4 DEF FreeOnce
<1>14. Generations'
  <2>1. ASSUME NEW k \in submitted, Passed(k)' <= GenerationLimit
        PROVE  m_nodes'[handle[k].index].generation = Advance(handle[k].generation, Passed(k)')
    <3>1. PICK a, g, i : a = Age(k) /\ g = handle[k].generation /\ i = handle[k].index
      OBVIOUS
    <3>2. /\ i \in DOMAIN m_nodes /\ g \in 1 .. GenerationLimit /\ a \in Nat
          /\ GenerationLimit \in Nat
      <4>1. k \in Jobs /\ handle[k] \in HandleType /\ i \in DOMAIN m_nodes /\ g # 0
        BY <1>4, <3>1, JobsFinite DEF Types, Numbered
      <4>2. g \in 0 .. GenerationLimit /\ GenerationLimit \in Nat
        BY <3>1, <4>1, JobAssumption DEF HandleType
      <4>3. a \in Nat
        BY <3>1, JobsFinite
      <4> QED BY <4>1, <4>2, <4>3
    <3>3. CASE i = d
      <4>1. Passed(k) = a /\ Passed(k)' = a + 1
        <5>1. Passed(k) = a
          BY <1>1, <3>1, <3>2, <3>3 DEF Passed
        <5>2. Passed(k)' = Age(k)' + (IF m_nodes'[handle'[k].index].completed THEN 1 ELSE 0)
          BY DEF Passed
        <5>3. Passed(k)' = a + 1
          BY <1>1, <1>3, <3>1, <3>3, <5>2
        <5> QED BY <5>1, <5>3
      <4>2. a + 1 <= GenerationLimit /\ a <= GenerationLimit
        BY <2>1, <3>2, <4>1
      <4>3. m_nodes[d].generation = Advance(g, a)
        BY <1>4, <3>1, <3>3, <4>1, <4>2 DEF Generations
      <4>4. m_nodes'[d].generation = Advance(g, a + 1)
        BY <1>1, <3>2, <4>2, <4>3, NextAdvance
      <4> QED BY <3>1, <3>3, <4>1, <4>4
    <3>4. CASE i # d
      <4>1. Passed(k)' = Passed(k)
        BY <1>1, <1>2, <1>3, <3>1, <3>2, <3>4 DEF Passed
      <4> QED BY <1>2, <1>4, <2>1, <3>1, <3>2, <3>4, <4>1 DEF Generations
    <3> QED BY <3>3, <3>4
  <2>2. ASSUME NEW i \in DOMAIN m_nodes, m_nodes'[i].completedGeneration # 0
        PROVE  m_nodes'[i].generation = NextGeneration(m_nodes'[i].completedGeneration)
    BY <1>1, <1>2, <1>4, <2>2 DEF Generations
  <2> QED BY <1>1, <1>3, <2>1, <2>2 DEF Generations
<1> QED BY <1>5, <1>9, <1>12, <1>13, <1>14

(* complete() preserves the ownership of nodes and the links to
   dependencies.                                                           *)
LEMMA CompleteOwned ==
  ASSUME Inv, NEW d, NEW j, Completes(d, j)
  PROVE  Owned' /\ Linked'
<1>1. /\ handle[j].index = d /\ state[j] = "ended"
      /\ handle' = handle /\ state' = state /\ deps' = deps
      /\ DOMAIN m_nodes' = DOMAIN m_nodes /\ m_nodes'[d].completed
      /\ m_nodes'[d].func = 0 /\ m_nodes'[d].dependents = <<>> /\ ~ m_nodes'[d].scheduled
  BY DEF Completes
<1>2. \A i \in DOMAIN m_nodes : i # d =>
        /\ m_nodes'[i].func = m_nodes[i].func /\ m_nodes'[i].dependents = m_nodes[i].dependents
        /\ m_nodes'[i].completed = m_nodes[i].completed
        /\ m_nodes[i].completed => m_nodes'[i] = m_nodes[i]
        /\ m_nodes[i].scheduled => m_nodes'[i].scheduled
  BY DEF Completes
<1>3. /\ submitted' = submitted
      /\ \A k : Live(k)' <=> Live(k) /\ k # j
      /\ \A k : Live(k) /\ k # j => handle[k].index # d /\ handle[k].index \in DOMAIN m_nodes
  BY CompleteLives
<1>4. Owned /\ Linked
  BY DEF Inv
<1>5. ASSUME NEW i \in DOMAIN m_nodes PROVE NodeOK(i)'
  <2>1. CASE i = d
    BY <1>1, <2>1 DEF NodeOK
  <2>2. CASE i # d
    <3>1. NodeOK(i)
      BY <1>4 DEF Owned
    <3>2. m_nodes'[i].completed =>
            m_nodes'[i].func = 0 /\ m_nodes'[i].dependents = <<>> /\ ~ m_nodes'[i].scheduled
      BY <1>2, <2>2, <3>1 DEF NodeOK
    <3>3. ~ m_nodes'[i].completed => \E k \in submitted : Live(k)' /\ handle[k].index = i
      BY <1>1, <1>2, <1>3, <2>2, <3>1 DEF NodeOK
    <3>4. PICK k : k = m_nodes[i].func /\ m_nodes'[i].func = k
      BY <1>2, <2>2
    <3>6. k # 0 => Live(k)' /\ handle[k].index = i /\ state[k] = "pending"
      <4>1. k # 0 => Live(k) /\ handle[k].index = i /\ state[k] = "pending"
        BY <3>1, <3>4 DEF NodeOK
      <4> QED BY <1>1, <1>3, <4>1
    <3>7. m_nodes'[i].func # 0 =>
            (Live(m_nodes[i].func) /\ handle[m_nodes[i].func].index = i /\ state[m_nodes[i].func] = "pending")'
      BY <1>1, <3>4, <3>6
    <3>5. ~ m_nodes'[i].completed /\ ~ m_nodes'[i].scheduled => m_nodes'[i].func # 0
      BY <1>2, <2>2, <3>1 DEF NodeOK
    <3> QED BY <1>1, <1>3, <3>2, <3>3, <3>5, <3>7 DEF NodeOK
  <2> QED BY <2>1, <2>2
<1>6. ASSUME NEW k \in submitted
      PROVE  /\ state[k] # "ended" => Live(k)'
             /\ state[k] = "pending" => m_nodes'[handle[k].index].func = k
  <2>1. /\ state[k] # "ended" => Live(k) /\ k # j
        /\ state[k] = "pending" => m_nodes[handle[k].index].func = k
    BY <1>1, <1>4 DEF Owned
  <2> QED BY <1>2, <1>3, <2>1
<1>7. Owned'
  BY <1>1, <1>3, <1>5, <1>6 DEF Owned
<1>8. Linked'
  <2>1. SUFFICES ASSUME NEW k \in submitted, state[k] = "pending", NEW x \in deps[k], Live(x)'
                 PROVE  \E q \in DOMAIN m_nodes'[handle[x].index].dependents :
                          m_nodes'[handle[x].index].dependents[q] = handle[k]
    BY <1>1, <1>3 DEF Linked
  <2>2. Live(x) /\ handle[x].index # d /\ handle[x].index \in DOMAIN m_nodes
    BY <1>3, <2>1
  <2>3. m_nodes'[handle[x].index].dependents = m_nodes[handle[x].index].dependents
    BY <1>2, <2>2
  <2>4. \E q \in DOMAIN m_nodes[handle[x].index].dependents :
          m_nodes[handle[x].index].dependents[q] = handle[k]
    BY <1>4, <2>1, <2>2 DEF Linked
  <2> QED BY <2>3, <2>4
<1> QED BY <1>7, <1>8

(* complete() preserves the exactness of remainingDependencies.            *)
LEMMA CompleteListed ==
  ASSUME Inv, NEW d, NEW j, Completes(d, j)
  PROVE  Lists'
<1>1. /\ handle[j].index = d /\ handle[j] = HandleOf(m_nodes, d) /\ d \in DOMAIN m_nodes
      /\ DOMAIN m_nodes' = DOMAIN m_nodes /\ m_nodes'[d].completed
      /\ m_nodes'[d].dependents = <<>> /\ Listed(m_nodes, handle[j]) = {}
  BY DEF Completes
<1>2. \A i \in DOMAIN m_nodes : i # d =>
        /\ m_nodes'[i].dependents = m_nodes[i].dependents
        /\ m_nodes'[i].generation = m_nodes[i].generation
        /\ m_nodes'[i].completed = m_nodes[i].completed
        /\ ~ m_nodes[i].completed =>
            /\ m_nodes'[i].remaining =
                 Cardinality({p \in Listed(m_nodes, HandleOf(m_nodes, i)) : p[1] # d})
            /\ m_nodes'[i].scheduled <=> m_nodes'[i].remaining = 0
  BY DEF Completes
<1>3. Lists /\ Owned
  BY DEF Inv
<1>4. ASSUME NEW h PROVE Listed(m_nodes', h) = {p \in Listed(m_nodes, h) : p[1] # d}
  <2>1. \A i, q : ListedAt(m_nodes', i, q, h) <=> ListedAt(m_nodes, i, q, h) /\ i # d
    BY <1>1, <1>2 DEF ListedAt
  <2>2. \A p \in Listed(m_nodes', h) : p \in {x \in Listed(m_nodes, h) : x[1] # d}
    <3>1. SUFFICES ASSUME NEW p \in Listed(m_nodes', h) PROVE p \in Listed(m_nodes, h) /\ p[1] # d
      OBVIOUS
    <3>2. PICK i, q : p = <<i, q>>
      BY ListedPairs
    <3>3. ListedAt(m_nodes', i, q, h)
      BY <3>2, ListedPairs
    <3>4. ListedAt(m_nodes, i, q, h) /\ i # d
      BY <2>1, <3>3
    <3>5. p \in Listed(m_nodes, h)
      BY <3>2, <3>4, ListedPairs
    <3> QED BY <3>2, <3>4, <3>5
  <2>3. \A p \in {x \in Listed(m_nodes, h) : x[1] # d} : p \in Listed(m_nodes', h)
    <3>1. SUFFICES ASSUME NEW p \in Listed(m_nodes, h), p[1] # d PROVE p \in Listed(m_nodes', h)
      OBVIOUS
    <3>2. PICK i, q : p = <<i, q>>
      BY ListedPairs
    <3>3. ListedAt(m_nodes, i, q, h) /\ i # d
      BY <3>1, <3>2, ListedPairs
    <3>4. ListedAt(m_nodes', i, q, h)
      BY <2>1, <3>3
    <3> QED BY <3>2, <3>4, ListedPairs
  <2> QED BY <2>2, <2>3
<1>5. ASSUME NEW i \in DOMAIN m_nodes, ~ m_nodes'[i].completed
      PROVE  /\ i # d /\ ~ m_nodes[i].completed
             /\ HandleOf(m_nodes', i) = HandleOf(m_nodes, i)
             /\ m_nodes'[i].remaining = Cardinality(Listed(m_nodes', HandleOf(m_nodes', i)))
             /\ m_nodes'[i].scheduled <=> m_nodes'[i].remaining = 0
             /\ IsFiniteSet(Listed(m_nodes', HandleOf(m_nodes', i)))
  <2>1. i # d /\ ~ m_nodes[i].completed
    BY <1>1, <1>2, <1>5
  <2>2. HandleOf(m_nodes', i) = HandleOf(m_nodes, i)
    BY <1>2, <2>1 DEF HandleOf
  <2>3. PICK h : h = HandleOf(m_nodes, i)
    OBVIOUS
  <2>4. IsFiniteSet(Listed(m_nodes, h))
    BY <1>3, <2>1, <2>3 DEF Lists
  <2>5. IsFiniteSet(Listed(m_nodes', h))
    BY <1>4, <2>4, FS_Subset
  <2>6. m_nodes'[i].remaining = Cardinality(Listed(m_nodes', h)) /\ (m_nodes'[i].scheduled <=> m_nodes'[i].remaining = 0)
    BY <1>2, <1>4, <2>1, <2>3
  <2> QED BY <2>1, <2>2, <2>3, <2>5, <2>6
<1>6. ASSUME NEW i \in DOMAIN m_nodes, NEW q \in DOMAIN m_nodes'[i].dependents
      PROVE  Open(m_nodes[i].dependents[q])'
  <2>1. i # d
    BY <1>1, <1>6
  <2>2. m_nodes'[i].dependents = m_nodes[i].dependents
    BY <1>2, <2>1
  <2>3. PICK x : x = m_nodes[i].dependents[q] /\ Open(x)
    BY <1>3, <1>6, <2>2 DEF Lists
  <2>4. ~ m_nodes[i].completed
    <3>1. m_nodes[i].completed => m_nodes[i].dependents = <<>>
      BY <1>3 DEF Owned, NodeOK
    <3> QED BY <1>6, <2>2, <3>1
  <2>5. x # handle[j]
    <3>1. ListedAt(m_nodes, i, q, x)
      BY <1>6, <2>2, <2>3, <2>4 DEF ListedAt
    <3>2. <<i, q>> \in Listed(m_nodes, x)
      BY <3>1, ListedPairs
    <3> QED BY <1>1, <3>2
  <2>6. Open(x)'
    BY <2>3, <2>5, CompleteLives
  <2> QED BY <2>2, <2>3, <2>6
<1>7. RemainingExact'
  BY <1>1, <1>5 DEF RemainingExact
<1> QED BY <1>1, <1>5, <1>6, <1>7 DEF Lists
-----------------------------------------------------------------------------
(* completeLocked() preserves the invariant.                               *)
LEMMA CompleteInv ==
  ASSUME Inv, NEW t \in Threads, completeLocked(t)
  PROVE  Inv'
<1>1. PICK d, cont, batch, f, n, j, g :
        /\ Completes(d, j) /\ d = f.cur.index /\ j = f.fn /\ f = Top(t) /\ n = Len(stack[t])
        /\ g = [f EXCEPT !.at = "signal", !.cont = cont, !.batch = batch]
        /\ SetTop(t, g)
        /\ cont \in HandleType /\ batch \in Seq(HandleType)
        /\ valid(cont) => f.depth < s_WorkFirstDepthLimit
        /\ \A q, r, h : Gets(cont, batch, q, h) /\ Gets(cont, batch, r, h) => q = r
        /\ \A h : (\E q : Gets(cont, batch, q, h)) <=> Readied(h)
  <2>1. PICK d, cont, batch :
           /\ Completes(d, Top(t).fn) /\ d = Top(t).cur.index
           /\ SetTop(t, [Top(t) EXCEPT !.at = "signal", !.cont = cont, !.batch = batch])
           /\ cont \in HandleType /\ batch \in Seq(HandleType)
           /\ valid(cont) => Top(t).depth < s_WorkFirstDepthLimit
           /\ \A q, r, h : Gets(cont, batch, q, h) /\ Gets(cont, batch, r, h) => q = r
           /\ \A h : (\E q : Gets(cont, batch, q, h)) <=> Readied(h)
    BY CompleteShape
  <2>2. PICK f, n, j, g :
          /\ f = Top(t) /\ n = Len(stack[t]) /\ j = Top(t).fn
          /\ g = [Top(t) EXCEPT !.at = "signal", !.cont = cont, !.batch = batch]
    OBVIOUS
  <2> QED BY <2>1, <2>2
<1>2. At(t, "complete")
  BY DEF completeLocked
<1>3. /\ stack[t] # <<>> /\ stack \in Stacks /\ f \in FrameType /\ f.at = "complete"
      /\ FrameOK(f) /\ FrameDue(f) /\ f = stack[t][n] /\ n \in DOMAIN stack[t]
      /\ \A u \in Threads : \A k \in DOMAIN stack[u] :
           stack[u][k].fn = f.fn /\ f.fn # 0 => u = t /\ k = n
  BY <1>1, <1>2, TopInv
<1>4. Types /\ Frames /\ CarriedOnce /\ PoolDue /\ CarriedSome /\ Calls /\ PendingExact
  BY DEF Inv, Carriage
<1>5. /\ j \in submitted /\ j \in Jobs /\ j # 0 /\ submitted' = submitted
      /\ \A k : Age(k)' = Age(k)
      /\ \A k : Live(k)' <=> Live(k) /\ k # j
      /\ \A k : Live(k) /\ k # j => handle[k].index # d /\ handle[k].index \in DOMAIN m_nodes
      /\ \A h : Due(h) => Due(h)' /\ h # handle[j]
      /\ \A h : Readied(h) => Due(h)' /\ Open(h) /\ ~ m_nodes[h.index].scheduled /\ h # handle[j]
  <2>1. Completes(d, j)
    BY <1>1
  <2> QED BY <2>1, CompleteLives
<1>6. /\ UNCHANGED <<workers, m_pendingJobCount, poolTasks, call, handle, state, deps>>
      /\ state[j] = "ended" /\ m_nodes' \in Seq(NodeType) /\ DOMAIN m_nodes' = DOMAIN m_nodes
      /\ d \in DOMAIN m_nodes /\ m_nodes'[d].completed /\ handle[j] = HandleOf(m_nodes, d)
      /\ \A i \in DOMAIN m_nodes : i # d =>
           /\ m_nodes'[i].func = m_nodes[i].func /\ m_nodes'[i].completed = m_nodes[i].completed
           /\ m_nodes'[i].generation = m_nodes[i].generation
           /\ m_nodes[i].scheduled => m_nodes'[i].scheduled
  BY <1>1 DEF Completes
<1>7. /\ Numbered' /\ FreeOnce' /\ Generations' /\ m_freeNodes' \in Seq(1 .. MaxJobs)
      /\ Owned' /\ Linked' /\ Lists'
  <2>1. Completes(d, j)
    BY <1>1
  <2> QED BY <2>1, CompleteNumbers, CompleteOwned, CompleteListed
<1>8. f.cur = handle[j] /\ f.cont = NoHandle /\ f.batch = <<>>
  BY <1>1, <1>3 DEF FrameOK
<1>9. /\ g \in FrameType /\ g.at = "signal" /\ g.cur = f.cur /\ g.depth = f.depth
      /\ g.fn = j /\ g.cont = cont /\ g.batch = batch
  <2>1. "signal" \in FrameAt
    BY DEF FrameAt
  <2>2. g \in FrameType /\ g.at = "signal" /\ g.cur = f.cur /\ g.depth = f.depth /\ g.fn = f.fn
    BY <1>1, <1>3, <2>1 DEF FrameType
  <2>3. g.cont = cont /\ g.batch = batch
    BY <1>1, <1>3 DEF FrameType
  <2> QED BY <1>1, <2>2, <2>3
<1>10. \A u \in Threads : \A k \in DOMAIN stack[u] : Keeps(u, k) \/ (u = t /\ k = Len(stack[t]))
  <2>1. SUFFICES ASSUME NEW u \in Threads, NEW k \in DOMAIN stack[u], ~(u = t /\ k = n),
                        NEW e, e = stack[u][k]
                 PROVE  FrameOK(e)' /\ FrameDue(e)'
    BY <1>1 DEF Keeps
  <2>2. FrameOK(e) /\ FrameDue(e) /\ e.fn # j
    BY <1>1, <1>3, <1>4, <1>5, <2>1 DEF Frames
  <2>3. FrameDue(e)'
    BY <1>5, <2>2 DEF FrameDue
  <2>4. e.at \in {"run", "complete"} =>
          /\ Live(e.fn)' /\ handle'[e.fn] = e.cur
          /\ m_nodes'[e.cur.index].scheduled /\ m_nodes'[e.cur.index].func = 0
    <3>1. SUFFICES ASSUME e.at \in {"run", "complete"}
                   PROVE  /\ Live(e.fn)' /\ handle'[e.fn] = e.cur
                          /\ m_nodes'[e.cur.index].scheduled /\ m_nodes'[e.cur.index].func = 0
      OBVIOUS
    <3>2. /\ Live(e.fn) /\ handle[e.fn] = e.cur
          /\ m_nodes[e.cur.index].scheduled /\ m_nodes[e.cur.index].func = 0
      BY <2>2, <3>1 DEF FrameOK
    <3>3. e.cur.index # d /\ e.cur.index \in DOMAIN m_nodes
      BY <1>5, <2>2, <3>2
    <3> QED BY <1>5, <1>6, <2>2, <3>2, <3>3
  <2>5. e.at \in {"signal", "batch", "retire", "retireNotify"} =>
          e.fn \in submitted' /\ ~ Live(e.fn)' /\ state'[e.fn] = "ended"
    BY <1>5, <1>6, <2>2 DEF FrameOK
  <2>6. FrameOK(e)'
    BY <1>6, <2>2, <2>4, <2>5 DEF FrameOK
  <2> QED BY <2>3, <2>6
<1>11. FrameOK(g)' /\ FrameDue(g)'
  <2>1. valid(cont) => Gets(cont, batch, 0, cont)
    BY DEF Gets
  <2>2. \A q \in DOMAIN batch : Gets(cont, batch, q, batch[q])
    BY DEF Gets
  <2>3. (valid(cont) => Due(cont)') /\ \A q \in DOMAIN batch : Readied(batch[q])
    BY <1>1, <1>5, <2>1, <2>2
  <2>4. ASSUME NEW q \in DOMAIN batch PROVE Due(batch[q])'
    <3>1. PICK h : h = batch[q]
      OBVIOUS
    <3>2. Readied(h)
      BY <2>3, <3>1
    <3>3. Due(h)'
      BY <1>5, <3>2
    <3> QED BY <3>1, <3>3
  <2>5. FrameDue(g)'
    BY <1>9, <2>3, <2>4 DEF FrameDue
  <2>6. ~ Live(j)' /\ state'[j] = "ended" /\ j \in submitted'
    BY <1>5, <1>6
  <2>7. FrameOK(g)'
    BY <1>1, <1>9, <2>6 DEF FrameOK
  <2> QED BY <2>5, <2>7
<1>12. stack' \in Stacks /\ Frames'
  <2>1. \A u \in Threads : \A k \in DOMAIN stack[u] :
          stack[u][k].fn = g.fn /\ g.fn # 0 => u = t /\ k = Len(stack[t])
    BY <1>1, <1>3, <1>9
  <2>2. SetTop(t, g) /\ g \in FrameType /\ stack[t] # <<>> /\ stack \in Stacks /\ Frames
    BY <1>1, <1>3, <1>4, <1>9
  <2> QED BY <1>10, <1>11, <2>1, <2>2, StackSetTop
<1>13. \A u \in Threads :
          /\ DOMAIN stack'[u] = DOMAIN stack[u]
          /\ \A k \in DOMAIN stack[u] : stack'[u][k] = IF u = t /\ k = n THEN g ELSE stack[u][k]
  <2>1. SetTop(t, g) /\ g \in FrameType /\ stack[t] # <<>> /\ stack \in Stacks
    BY <1>1, <1>3, <1>9
  <2>2. \A u \in Threads :
          /\ DOMAIN stack'[u] = DOMAIN stack[u]
          /\ \A k \in DOMAIN stack[u] :
               stack'[u][k] = IF u = t /\ k = Len(stack[t]) THEN g ELSE stack[u][k]
    BY <2>1, SetTopFact
  <2> QED BY <1>1, <2>2
<1>14. \A q, h : Carries(g, q, h) <=> Gets(cont, batch, q, h)
  BY <1>9 DEF Carries, Gets
<1>15. \A q, h : Carries(f, q, h) <=> q = -1 /\ h = handle[j]
  BY <1>3, <1>8 DEF Carries, valid
<1>16. \A u, k, q, h : InFrame(u, k, q, h)' <=>
         \/ InFrame(u, k, q, h) /\ ~(u = t /\ k = n)
         \/ u = t /\ k = n /\ Gets(cont, batch, q, h)
  <2>1. ASSUME NEW q, NEW h PROVE InFrame(t, n, q, h)' <=> Gets(cont, batch, q, h)
    <3>1. n \in DOMAIN stack'[t] /\ stack'[t][n] = g
      BY <1>3, <1>13
    <3> QED BY <1>14, <3>1 DEF InFrame
  <2>2. ASSUME NEW u, NEW k, NEW q, NEW h, ~(u = t /\ k = n)
        PROVE  InFrame(u, k, q, h)' <=> InFrame(u, k, q, h)
    BY <1>13, <2>2 DEF InFrame
  <2> QED BY <2>1, <2>2
<1>17. InFrame(t, n, -1, handle[j]) /\ \A q, h : InFrame(t, n, q, h) => q = -1 /\ h = handle[j]
  BY <1>3, <1>15 DEF InFrame
<1>18. \A p, h : InPool(p, h)' <=> InPool(p, h)
  BY <1>6 DEF InPool
<1>19. \A h : Readied(h) => ~ Carried(h)
  BY <1>5, CarriedOpen
<1>20. CarriedOnce'
  <2>1. \A p, q, h : Gets(cont, batch, q, h) => ~ InPool(p, h)
    BY <1>1, <1>19 DEF Carried
  <2>2. \A u, k, r, q, h : Gets(cont, batch, q, h) => ~ InFrame(u, k, r, h)
    BY <1>1, <1>19 DEF Carried
  <2>3. \A p, r, h : InPool(p, h)' /\ InPool(r, h)' => p = r
    BY <1>4, <1>18 DEF CarriedOnce
  <2>4. \A p, u, k, q, h : ~(InPool(p, h)' /\ InFrame(u, k, q, h)')
    BY <1>4, <1>16, <1>18, <2>1 DEF CarriedOnce
  <2>5. ASSUME NEW v, NEW k, NEW q, NEW u, NEW l, NEW r, NEW h, InFrame(v, k, q, h)', InFrame(u, l, r, h)'
        PROVE  v = u /\ k = l /\ q = r
    <3>1. \A x, y : Gets(cont, batch, x, h) /\ Gets(cont, batch, y, h) => x = y
      BY <1>1
    <3>2. InFrame(v, k, q, h) /\ InFrame(u, l, r, h) => v = u /\ k = l /\ q = r
      BY <1>4 DEF CarriedOnce
    <3>3. InFrame(v, k, q, h) \/ (v = t /\ k = n /\ Gets(cont, batch, q, h))
      BY <1>16, <2>5
    <3>4. InFrame(u, l, r, h) \/ (u = t /\ l = n /\ Gets(cont, batch, r, h))
      BY <1>16, <2>5
    <3> QED BY <2>2, <3>1, <3>2, <3>3, <3>4
  <2> QED BY <2>3, <2>4, <2>5 DEF CarriedOnce
<1>21. \A h : (Carried(h) /\ h # handle[j]) \/ Readied(h) => Carried(h)'
  <2>1. ASSUME NEW h, Carried(h), h # handle[j] PROVE Carried(h)'
    <3>1. \A u, k, q : InFrame(u, k, q, h) => InFrame(u, k, q, h)'
      BY <1>16, <1>17, <2>1
    <3> QED BY <1>18, <2>1, <3>1 DEF Carried
  <2>2. ASSUME NEW h, Readied(h) PROVE Carried(h)'
    <3>1. PICK q : Gets(cont, batch, q, h)
      BY <1>1, <2>2
    <3>2. InFrame(t, n, q, h)'
      BY <1>16, <3>1
    <3> QED BY <3>2 DEF Carried
  <2> QED BY <2>1, <2>2
<1>22. CarriedSome'
  <2>1. SUFFICES ASSUME NEW i \in DOMAIN m_nodes, ~ m_nodes'[i].completed, m_nodes'[i].scheduled,
                        NEW h, h = HandleOf(m_nodes', i)
                 PROVE  Carried(h)'
    BY <1>6 DEF CarriedSome
  <2>2. i # d
    BY <1>6, <2>1
  <2>3. h = HandleOf(m_nodes, i) /\ ~ m_nodes[i].completed
    BY <1>6, <2>1, <2>2 DEF HandleOf
  <2>4. h # handle[j]
    BY <1>6, <2>2, <2>3 DEF HandleOf
  <2>5. CASE m_nodes[i].scheduled
    <3>1. Carried(h)
      BY <1>4, <2>3, <2>5 DEF CarriedSome
    <3> QED BY <1>21, <2>4, <3>1
  <2>6. CASE ~ m_nodes[i].scheduled
    <3>1. Readied(h)
      BY <2>1, <2>3, <2>6 DEF Readied, Fresh
    <3> QED BY <1>21, <3>1
  <2> QED BY <2>5, <2>6
<1>23. PoolDue'
  <2>1. ASSUME NEW p \in DOMAIN poolTasks PROVE Due(poolTasks[p])'
    <3>1. PICK h : h = poolTasks[p] /\ Due(h)
      BY <1>4 DEF PoolDue
    <3>2. Due(h)'
      BY <1>5, <3>1
    <3> QED BY <1>6, <3>1, <3>2
  <2> QED BY <1>6, <2>1 DEF PoolDue
<1>24. PendingExact'
  <2>1. \A k : Retiring(k)' <=> Retiring(k) \/ k = j
    <3>1. ASSUME NEW u, NEW l, NEW k, ~(u = t /\ l = n) PROVE RetiresAt(u, l, k)' <=> RetiresAt(u, l, k)
      BY <1>13, <3>1 DEF RetiresAt
    <3>2. \A k : RetiresAt(t, n, k)' <=> k = j
      <4>1. n \in DOMAIN stack'[t] /\ stack'[t][n] = g
        BY <1>3, <1>13
      <4> QED BY <1>9, <4>1 DEF RetiresAt
    <3>3. \A k : ~ RetiresAt(t, n, k)
      BY <1>3 DEF RetiresAt
    <3> QED BY <3>1, <3>2, <3>3 DEF Retiring
  <2>2. Live(j)
    BY <1>1 DEF Completes
  <2>3. Unretired' = Unretired
    BY <1>5, <2>1, <2>2 DEF Unretired
  <2> QED BY <1>4, <1>6, <2>3 DEF PendingExact
<1>25. Calls'
  <2>1. ASSUME NEW r PROVE CallOK(r)' <=> CallOK(r)
    BY <1>5 DEF CallOK
  <2> QED BY <1>4, <1>6, <2>1 DEF Calls
<1>26. Types'
  BY <1>4, <1>6, <1>7, <1>12 DEF Types
<1> QED BY <1>7, <1>12, <1>20, <1>22, <1>23, <1>24, <1>25, <1>26 DEF Inv, Carriage

-----------------------------------------------------------------------------
(* The invariant holds before the first submit.                            *)
LEMMA InvInit ==
  ASSUME Init
  PROVE  Inv
<1>1. submitted = {}
  BY DEF Init, submitted
<1>2. /\ m_nodes = <<>> /\ m_freeNodes = <<>> /\ poolTasks = <<>> /\ m_pendingJobCount = 0
      /\ DOMAIN m_nodes = {} /\ DOMAIN m_freeNodes = {} /\ DOMAIN poolTasks = {} /\ Len(m_nodes) = 0
  BY DEF Init
<1>3. \A t \in Threads : stack[t] = <<>> /\ DOMAIN stack[t] = {}
  BY DEF Init
<1>4. \A c \in Clients : call[c] = Idle
  BY DEF Init
<1>5. Types
  <2>1. NoHandle \in HandleType
    BY JobAssumption DEF NoHandle, HandleType
  <2>2. stack \in Stacks
    BY DEF Init, Stacks
  <2>3. handle \in [Jobs -> HandleType]
    BY <2>1 DEF Init
  <2>4. state \in [Jobs -> {"none", "pending", "running", "ended"}] /\ deps \in [Jobs -> SUBSET Jobs]
    BY DEF Init
  <2>5. call \in [Clients -> CallType]
    BY IdleFact DEF Init
  <2>6. workers \in WorkerSets
    BY DEF Init
  <2> QED BY <1>2, <2>2, <2>3, <2>4, <2>5, <2>6 DEF Types
<1>6. Cardinality(submitted) = 0
  BY <1>1, FS_EmptySet
<1>7. Numbered
  BY <1>1, <1>2, <1>6 DEF Numbered
<1>8. FreeOnce /\ Generations /\ Owned
  BY <1>1, <1>2 DEF FreeOnce, Generations, Owned
<1>9. Frames
  BY <1>3 DEF Frames
<1>10. Carriage
  BY <1>2, <1>3 DEF Carriage, PoolDue, CarriedOnce, CarriedSome, InPool, InFrame
<1>11. Lists /\ Linked
  BY <1>1, <1>2 DEF Lists, RemainingExact, Linked
<1>12. PendingExact
  <2>1. Unretired = {}
    BY <1>1 DEF Unretired
  <2> QED BY <1>2, <2>1, FS_EmptySet DEF PendingExact
<1>13. Calls
  BY <1>4, IdleFact DEF Calls
<1> QED BY <1>5, <1>7, <1>8, <1>9, <1>10, <1>11, <1>12, <1>13 DEF Inv

(* The invariant is a state predicate: it survives a stuttering step.      *)
LEMMA InvStutter ==
  ASSUME Inv, UNCHANGED vars
  PROVE  Inv'
<1>1. Quiet /\ stack' = stack /\ poolTasks' = poolTasks /\ m_pendingJobCount' = m_pendingJobCount /\ call' = call
  BY DEF vars, Quiet
<1>2. NodeInv'
  BY <1>1, QuietFacts DEF Inv, NodeInv
<1>3. Types'
  BY <1>1 DEF Inv, Types, Quiet
<1>4. \A f : (FrameOK(f)' <=> FrameOK(f)) /\ (FrameDue(f)' <=> FrameDue(f))
  BY <1>1, QuietFacts
<1>5. Frames'
  <2>1. ASSUME NEW t \in Threads, NEW k \in DOMAIN stack[t]
        PROVE  (FrameOK(stack[t][k]) /\ FrameDue(stack[t][k]))'
    <3>1. PICK f : f = stack[t][k]
      OBVIOUS
    <3>2. FrameOK(f)' /\ FrameDue(f)'
      BY <1>4, <3>1 DEF Inv, Frames
    <3> QED BY <1>1, <3>1, <3>2
  <2> QED BY <1>1, <2>1 DEF Inv, Frames
<1>6. \A h : Due(h)' <=> Due(h)
  BY <1>1, QuietFacts
<1>7. PoolDue'
  <2>1. ASSUME NEW p \in DOMAIN poolTasks PROVE Due(poolTasks[p])'
    <3>1. PICK h : h = poolTasks[p] /\ Due(h)
      BY DEF Inv, Carriage, PoolDue
    <3>2. Due(h)'
      BY <1>6, <3>1
    <3> QED BY <1>1, <3>1, <3>2
  <2> QED BY <1>1, <2>1 DEF PoolDue
<1>8. CarryStep
  <2>1. CarriedOnce
    BY DEF Inv, Carriage
  <2> QED BY <1>1, <2>1, CarrySame
<1>9. CarriedOnce' /\ \A h : Carried(h)' <=> Carried(h)
  BY <1>8 DEF CarryStep
<1>10. CarriedSome'
  <2>1. SUFFICES ASSUME NEW i \in DOMAIN m_nodes, ~ m_nodes[i].completed, m_nodes[i].scheduled,
                        NEW h, h = HandleOf(m_nodes, i)
                 PROVE  Carried(h)'
    BY <1>1 DEF CarriedSome, Quiet
  <2>2. Carried(h)
    BY <2>1 DEF Inv, Carriage, CarriedSome
  <2> QED BY <1>9, <2>2
<1>11. PendingExact'
  <2>1. \A j : Retiring(j)' <=> Retiring(j)
    BY <1>1 DEF Retiring, RetiresAt
  <2> QED BY <1>1, <2>1, QuietPending
<1>12. Calls'
  <2>1. \A r : CallOK(r)' <=> CallOK(r)
    BY <1>1, QuietKeeps
  <2> QED BY <1>1, <2>1 DEF Inv, Calls
<1> QED BY <1>2, <1>3, <1>5, <1>7, <1>9, <1>10, <1>11, <1>12 DEF Inv, Carriage, NodeInv

(* Every step preserves the invariant.                                     *)
LEMMA InvNext ==
  ASSUME Inv, [Next]_vars
  PROVE  Inv'
<1>1. CASE UNCHANGED vars
  BY <1>1, InvStutter
<1>2. ASSUME NEW t \in Threads, Call(t) PROVE Inv'
  BY <1>2, SubmitInv DEF Call
<1>3. ASSUME NEW t \in Threads, Step(t) PROVE Inv'
  BY <1>3, EnqueueInv, WorkerTakeInv, TakeInv, RunInv, CompleteInv, NotifyInv, BatchInv, RetireInv,
     RetireNotifyInv DEF Step
<1>4. ASSUME NEW c \in Waiters, waitAll(c) \/ WaitStep(c) \/ \E j \in Jobs : wait(c, j) PROVE Inv'
  <2>1. c \in Clients
    BY JobAssumption
  <2> QED BY <1>4, <2>1, WaitAllInv, WaitStepInv, WaitInv
<1> QED BY <1>1, <1>2, <1>3, <1>4 DEF Next
-----------------------------------------------------------------------------
(* The inductive invariant holds in every reachable state.                 *)
LEMMA InvSpec == Spec => []Inv
<1>1. Init => Inv
  BY InvInit
<1>2. Inv /\ [Next]_vars => Inv'
  BY InvNext
<1> QED BY <1>1, <1>2, PTL DEF Spec

-----------------------------------------------------------------------------
(* The type invariant of the model follows from the inductive invariant.   *)
LEMMA TypesTypeOK ==
  ASSUME Inv
  PROVE  TypeOK
<1>1. Types /\ FreeOnce /\ PendingExact
  BY DEF Inv
<1>2. workers \in WorkerSets /\ handle \in [Jobs -> HandleType]
  BY <1>1 DEF Types
<1>3. ASSUME NEW i \in DOMAIN m_nodes, NEW n, n = m_nodes[i]
      PROVE  /\ n.func \in 0 .. MaxJobs /\ n.generation \in 1 .. GenerationLimit
             /\ n.remaining \in Nat /\ n.completed \in BOOLEAN /\ n.scheduled \in BOOLEAN
             /\ Range(n.dependents) \subseteq HandleType
             /\ n.completedGeneration \in 0 .. GenerationLimit
  <2>1. n \in NodeType
    BY <1>1, <1>3 DEF Types
  <2>2. n.dependents \in Seq(HandleType)
    BY <2>1 DEF NodeType
  <2>3. Range(n.dependents) \subseteq HandleType
    BY <2>2 DEF Range
  <2> QED BY <2>1, <2>3 DEF NodeType
<1>4. Range(m_freeNodes) \subseteq DOMAIN m_nodes
  BY <1>1 DEF Range, FreeOnce
<1>5. m_pendingJobCount \in 0 .. MaxJobs
  <2>1. Unretired \subseteq submitted
    BY DEF Unretired
  <2>2. IsFiniteSet(submitted) /\ Cardinality(submitted) <= MaxJobs /\ MaxJobs \in Nat
        /\ Cardinality(submitted) \in Nat
    BY JobsFinite
  <2>3. IsFiniteSet(Unretired) /\ Cardinality(Unretired) <= Cardinality(submitted)
        /\ Cardinality(Unretired) \in Nat
    BY <2>1, <2>2, FS_Subset, FS_CardinalityType
  <2> QED BY <1>1, <2>2, <2>3 DEF PendingExact
<1>6. Range(poolTasks) \subseteq HandleType
  <2>1. poolTasks \in Seq(HandleType)
    BY <1>1 DEF Types
  <2> QED BY <2>1 DEF Range
<1>7. ASSUME NEW t \in Threads, NEW k \in DOMAIN stack[t]
      PROVE  stack[t][k].cur \in HandleType /\ stack[t][k].depth \in 0 .. s_WorkFirstDepthLimit
  <2>1. stack[t] \in Seq(FrameType)
    BY <1>1 DEF Types, Stacks
  <2>2. stack[t][k] \in FrameType
    BY <2>1
  <2> QED BY <2>2 DEF FrameType
<1> QED BY <1>2, <1>3, <1>4, <1>5, <1>6, <1>7 DEF TypeOK

(* The node table, counters, queue and frames stay within their types; in
   particular the job counter never wraps below zero.                      *)
THEOREM TypeCorrect == Spec => []TypeOK
<1>1. Inv => TypeOK
  BY TypesTypeOK
<1> QED BY <1>1, InvSpec, PTL

(* remainingDependencies of an unfinished job always equals the number of
   unfinished dependencies that list it, duplicates included, and the job
   is scheduled exactly when it is 0 (submitWithDependencies, complete).   *)
THEOREM RemainingCorrect == Spec => []RemainingExact
<1>1. Inv => RemainingExact
  BY DEF Inv, Lists
<1> QED BY <1>1, InvSpec, PTL

-----------------------------------------------------------------------------
(* The cardinality of an empty set and of a singleton.                     *)
LEMMA OneOrNone ==
  ASSUME NEW A, NEW x
  PROVE  /\ A = {} => Cardinality(A) = 0
         /\ A = {x} => Cardinality(A) = 1
BY FS_EmptySet, FS_Singleton

(* The free list is exact in every state of the inductive invariant.       *)
LEMMA FreeExact ==
  ASSUME Inv
  PROVE  FreeListExact
<1>1. SUFFICES ASSUME NEW i \in DOMAIN m_nodes
               PROVE  Occurrences(i, m_freeNodes) = (IF m_nodes[i].completed THEN 1 ELSE 0)
  BY DEF FreeListExact
<1>2. PICK A : A = {k \in DOMAIN m_freeNodes : m_freeNodes[k] = i}
  OBVIOUS
<1>3. Occurrences(i, m_freeNodes) = Cardinality(A)
  BY <1>2 DEF Occurrences
<1>4. FreeOnce
  BY DEF Inv
<1>5. CASE m_nodes[i].completed
  <2>1. PICK k \in DOMAIN m_freeNodes : m_freeNodes[k] = i
    BY <1>4, <1>5 DEF FreeOnce
  <2>2. A = {k}
    BY <1>2, <1>4, <2>1 DEF FreeOnce
  <2> QED BY <1>3, <1>5, <2>2, OneOrNone
<1>6. CASE ~ m_nodes[i].completed
  <2>1. A = {}
    BY <1>2, <1>4, <1>6 DEF FreeOnce
  <2> QED BY <1>3, <1>6, <2>1, OneOrNone
<1> QED BY <1>5, <1>6

(* A node is on the free list exactly once while its job is complete and
   never while it is in use (acquireNodeLocked, recycleNodeLocked).        *)
THEOREM FreeListCorrect == Spec => []FreeListExact
<1>1. Inv => FreeListExact
  BY FreeExact
<1> QED BY <1>1, InvSpec, PTL

-----------------------------------------------------------------------------
(* The set of places Carriers counts is the one InFrame describes.         *)
LEMMA FramePlaces ==
  ASSUME stack \in Stacks, NEW h
  PROVE  LET F == {p \in UNION {Places(t) : t \in Threads} : Carries(stack[p[1]][p[2]], p[3], h)} IN
         /\ \A t, k, q : <<t, k, q>> \in F <=> InFrame(t, k, q, h)
         /\ \A p \in F : \E t, k, q : p = <<t, k, q>>
<1>1. PICK F : F = {p \in UNION {Places(t) : t \in Threads} : Carries(stack[p[1]][p[2]], p[3], h)}
  OBVIOUS
<1>2. PICK U : U = UNION {Places(t) : t \in Threads}
  OBVIOUS
<1>3. \A p : p \in U <=>
        \E t \in Threads : \E k \in DOMAIN stack[t] : \E q \in -1 .. Len(stack[t][k].batch) : p = <<t, k, q>>
  BY <1>2 DEF Places
<1>4. \A p \in F : \E t, k, q : p = <<t, k, q>>
  BY <1>1, <1>2, <1>3
<1>5. \A t, k, q : <<t, k, q>> \in U <=>
        t \in Threads /\ k \in DOMAIN stack[t] /\ q \in -1 .. Len(stack[t][k].batch)
  BY <1>3
<1>6. \A t \in Threads : \A k \in DOMAIN stack[t] : \A q :
        Carries(stack[t][k], q, h) => q \in -1 .. Len(stack[t][k].batch)
  <2>1. SUFFICES ASSUME NEW t \in Threads, NEW k \in DOMAIN stack[t], NEW q, Carries(stack[t][k], q, h)
                 PROVE  q \in -1 .. Len(stack[t][k].batch)
    OBVIOUS
  <2>2. stack[t] \in Seq(FrameType)
    BY DEF Stacks
  <2>3. stack[t][k] \in FrameType
    BY <2>2
  <2>4. PICK b \in Seq(HandleType) : b = stack[t][k].batch
    BY <2>3 DEF FrameType
  <2>5. Len(b) \in Nat /\ DOMAIN b = 1 .. Len(b)
    OBVIOUS
  <2>6. q = -1 \/ q = 0 \/ q \in 1 .. Len(b)
    BY <2>1, <2>4, <2>5 DEF Carries
  <2> QED BY <2>4, <2>5, <2>6
<1>7. \A t, k, q : <<t, k, q>> \in F <=> <<t, k, q>> \in U /\ Carries(stack[t][k], q, h)
  BY <1>1, <1>2
<1>8. \A t, k, q : <<t, k, q>> \in F <=> InFrame(t, k, q, h)
  BY <1>5, <1>6, <1>7 DEF InFrame
<1> QED BY <1>1, <1>4, <1>8

(* Under the invariant a handle has one carrier or none.                   *)
LEMMA CarriedCount ==
  ASSUME Inv, NEW h
  PROVE  Carriers(h) = IF Carried(h) THEN 1 ELSE 0
<1>1. PICK P, F :
        /\ P = {p \in DOMAIN poolTasks : poolTasks[p] = h}
        /\ F = {p \in UNION {Places(t) : t \in Threads} : Carries(stack[p[1]][p[2]], p[3], h)}
  OBVIOUS
<1>2. Carriers(h) = Cardinality(P) + Cardinality(F)
  BY <1>1 DEF Carriers, Occurrences
<1>3. \A p : p \in P <=> InPool(p, h)
  BY <1>1 DEF InPool
<1>4. (\A t, k, q : <<t, k, q>> \in F <=> InFrame(t, k, q, h)) /\ (\A p \in F : \E t, k, q : p = <<t, k, q>>)
  <2>1. stack \in Stacks
    BY DEF Inv, Types
  <2> QED BY <1>1, <2>1, FramePlaces
<1>5. CarriedOnce
  BY DEF Inv, Carriage
<1>6. CASE \E p : InPool(p, h)
  <2>1. PICK p : InPool(p, h)
    BY <1>6
  <2>2. P = {p}
    BY <1>3, <1>5, <2>1 DEF CarriedOnce
  <2>3. F = {}
    BY <1>4, <1>5, <2>1 DEF CarriedOnce
  <2>4. Cardinality(P) = 1 /\ Cardinality(F) = 0
    BY <2>2, <2>3, OneOrNone
  <2> QED BY <1>2, <1>6, <2>4 DEF Carried
<1>7. CASE \E t, k, q : InFrame(t, k, q, h)
  <2>1. PICK t, k, q : InFrame(t, k, q, h)
    BY <1>7
  <2>2. P = {}
    BY <1>3, <1>5, <2>1 DEF CarriedOnce
  <2>3. F = {<<t, k, q>>}
    <3>1. <<t, k, q>> \in F
      BY <1>4, <2>1
    <3>2. ASSUME NEW p \in F PROVE p = <<t, k, q>>
      <4>1. PICK u, l, r : p = <<u, l, r>>
        BY <1>4
      <4>2. InFrame(u, l, r, h)
        BY <1>4, <4>1
      <4>3. u = t /\ l = k /\ r = q
        BY <1>5, <2>1, <4>2 DEF CarriedOnce
      <4> QED BY <4>1, <4>3
    <3> QED BY <3>1, <3>2
  <2>4. Cardinality(P) = 0 /\ Cardinality(F) = 1
    BY <2>2, <2>3, OneOrNone
  <2> QED BY <1>2, <1>7, <2>4 DEF Carried
<1>8. CASE ~ Carried(h)
  <2>1. P = {} /\ F = {}
    BY <1>3, <1>4, <1>8 DEF Carried
  <2>2. Cardinality(P) = 0 /\ Cardinality(F) = 0
    BY <2>1, OneOrNone
  <2> QED BY <1>2, <1>8, <2>2
<1> QED BY <1>6, <1>7, <1>8 DEF Carried

(* Every scheduled job has exactly one carrier in every state of the
   inductive invariant.                                                    *)
LEMMA CarrierExact ==
  ASSUME Inv
  PROVE  OneCarrier
<1>1. SUFFICES ASSUME NEW i \in DOMAIN m_nodes, NEW h, h = HandleOf(m_nodes, i)
               PROVE  Carriers(h) = (IF ~ m_nodes[i].completed /\ m_nodes[i].scheduled THEN 1 ELSE 0)
  BY DEF OneCarrier
<1>2. Carriers(h) = IF Carried(h) THEN 1 ELSE 0
  BY CarriedCount
<1>3. Carried(h) => ~ m_nodes[i].completed /\ m_nodes[i].scheduled
  <2>1. h.index = i
    BY <1>1 DEF HandleOf
  <2> QED BY <2>1, CarriedOpen DEF Open
<1>4. ~ m_nodes[i].completed /\ m_nodes[i].scheduled => Carried(h)
  BY <1>1 DEF Inv, Carriage, CarriedSome
<1> QED BY <1>2, <1>3, <1>4

(* A scheduled job is carried by exactly one pool task or one activation
   of execute(), and every other handle by none: no job is run twice or
   dropped (complete, enqueueExecutionBatch, execute).                     *)
THEOREM CarrierCorrect == Spec => []OneCarrier
<1>1. Inv => OneCarrier
  BY CarrierExact
<1> QED BY <1>1, InvSpec, PTL

-----------------------------------------------------------------------------
(* A handle that no longer resolves names a job that has ended.            *)
LEMMA UnresolvedEnded ==
  ASSUME Inv, NEW j \in submitted, ~ Resolves(m_nodes, handle[j])
  PROVE  state[j] = "ended"
<1>1. Types /\ Numbered /\ Generations /\ Owned
  BY DEF Inv
<1>2. ~ Live(j)
  BY <1>1, LiveHandle
<1> QED BY <1>1, <1>2 DEF Owned

(* isComplete() reports a job complete only after it has ended, as long
   as its handle is in date.                                               *)
THEOREM CompleteCorrect == Spec => []CompleteMeansEnded
<1>1. Inv => CompleteMeansEnded
  BY UnresolvedEnded DEF CompleteMeansEnded, isComplete
<1> QED BY <1>1, InvSpec, PTL

-----------------------------------------------------------------------------
(* completedGeneration equal to the handle's generation means that its
   job has ended.                                                          *)
LEMMA SignalEnded ==
  ASSUME Inv, NEW j \in submitted, Age(j) < GenerationLimit - 1,
         m_nodes[handle[j].index].completedGeneration = handle[j].generation
  PROVE  state[j] = "ended"
<1>1. SUFFICES ASSUME Live(j) PROVE FALSE
  BY DEF Inv, Owned
<1>2. Types /\ Numbered /\ Generations
  BY DEF Inv
<1>3. PICK g, i : g = handle[j].generation /\ i = handle[j].index
  OBVIOUS
<1>4. /\ Age(j) = 0 /\ j \in Jobs /\ handle[j] = HandleOf(m_nodes, i) /\ i \in DOMAIN m_nodes
      /\ g # 0 /\ handle[j] \in HandleType
  BY <1>1, <1>2, <1>3, LiveHandle DEF Types, Numbered
<1>5. m_nodes[i].generation = g /\ m_nodes[i].completedGeneration = g
  BY <1>3, <1>4 DEF HandleOf
<1>6. g = NextGeneration(g)
  BY <1>2, <1>4, <1>5 DEF Generations
<1>7. GenerationLimit \in Nat /\ g \in 0 .. GenerationLimit /\ GenerationLimit > 1
  BY <1>3, <1>4, JobAssumption DEF HandleType
<1> QED BY <1>4, <1>6, <1>7 DEF NextGeneration

(* m_pendingJobCount is 0 only when every submitted job has ended.         *)
LEMMA NonePending ==
  ASSUME Inv, m_pendingJobCount = 0, NEW j \in submitted
  PROVE  state[j] = "ended"
<1>1. IsFiniteSet(Unretired) /\ Cardinality(Unretired) = 0
  <2>1. Unretired \subseteq submitted
    BY DEF Unretired
  <2> QED BY <2>1, JobsFinite, FS_Subset DEF Inv, PendingExact
<1>2. ~ Live(j)
  BY <1>1, FS_EmptySet DEF Unretired
<1> QED BY <1>2 DEF Inv, Owned

(* The step that ends a wait.                                              *)
LEMMA WaitStepEnds ==
  ASSUME Inv, NEW c \in Clients, call[c].at # "idle", call'[c].at = "idle", WaitStep(c),
         NEW j \in call[c].past \cup ({call[c].job} \ {0})
  PROVE  state[j] = "ended"
<1>1. CallOK(call[c]) /\ call \in [Clients -> CallType] /\ call[c] \in CallType
  BY DEF Inv, Calls, Types
<1>2. \A r : SetCall(c, r) => call'[c] = r
  BY <1>1 DEF SetCall
<1>3. CASE waitResolve(c)
  <2>1. PICK h, g : h = handle[call[c].job] /\ g = m_nodes[h.index].completedGeneration
    OBVIOUS
  <2>2. call[c].at = "resolve"
    BY <1>3 DEF waitResolve
  <2>3. call[c].job \in submitted /\ Age(call[c].job) < GenerationLimit - 1 /\ call[c].past = {}
    BY <1>1, <2>2 DEF CallOK
  <2>4. j = call[c].job
    BY <2>3
  <2>5. call'[c] = IF ~ Resolves(m_nodes, h) \/ g = h.generation
                   THEN Idle ELSE [call[c] EXCEPT !.at = "futex", !.seen = g]
    BY <1>2, <1>3, <2>1 DEF waitResolve
  <2>6. [call[c] EXCEPT !.at = "futex", !.seen = g].at = "futex"
    BY <1>1 DEF CallType
  <2>7. ~ Resolves(m_nodes, h) \/ g = h.generation
    BY <2>5, <2>6
  <2> QED BY <2>1, <2>3, <2>4, <2>7, UnresolvedEnded, SignalEnded
<1>4. CASE waitFutex(c)
  <2>1. PICK g : g = m_nodes[handle[call[c].job].index].completedGeneration
    OBVIOUS
  <2>2. call'[c] = IF g = call[c].seen THEN [call[c] EXCEPT !.at = "asleep"]
                                       ELSE [call[c] EXCEPT !.at = "resolve", !.seen = 0]
    BY <1>2, <1>4, <2>1 DEF waitFutex
  <2>3. call'[c].at \in {"asleep", "resolve"}
    BY <1>1, <2>2 DEF CallType
  <2> QED BY <2>3
<1>5. CASE waitAllLoad(c)
  <2>1. call[c].at = "allLoad"
    BY <1>5 DEF waitAllLoad
  <2>2. call[c].job = 0 /\ call[c].past \subseteq submitted
    BY <1>1, <2>1 DEF CallOK
  <2>3. j \in submitted
    BY <2>2
  <2>4. call'[c] = IF m_pendingJobCount = 0 THEN Idle
                   ELSE [call[c] EXCEPT !.at = "allFutex", !.seen = m_pendingJobCount]
    BY <1>2, <1>5 DEF waitAllLoad
  <2>5. [call[c] EXCEPT !.at = "allFutex", !.seen = m_pendingJobCount].at = "allFutex"
    BY <1>1 DEF CallType
  <2>6. m_pendingJobCount = 0
    BY <2>4, <2>5
  <2> QED BY <2>3, <2>6, NonePending
<1>6. CASE waitAllFutex(c)
  <2>1. call'[c] = IF m_pendingJobCount = call[c].seen THEN [call[c] EXCEPT !.at = "allAsleep"]
                   ELSE [call[c] EXCEPT !.at = "allLoad", !.seen = 0]
    BY <1>2, <1>6 DEF waitAllFutex
  <2>2. call'[c].at \in {"allAsleep", "allLoad"}
    BY <1>1, <2>1 DEF CallType
  <2> QED BY <2>2
<1> QED BY <1>3, <1>4, <1>5, <1>6 DEF WaitStep

(* Only the client's own step ends its call.                               *)
LEMMA CallsOfOthers ==
  ASSUME Inv, NEW c \in Clients, call[c].at # "idle", call'[c].at = "idle", Next
  PROVE  WaitStep(c)
<1>1. call \in [Clients -> CallType]
  BY DEF Inv, Types
<1>2. ASSUME NEW t \in Threads, Call(t) PROVE FALSE
  BY <1>2 DEF Call, submitWithDependencies
<1>3. ASSUME NEW t \in Threads, Step(t) PROVE FALSE
  <2>1. CASE completeNotify(t)
    <3>1. call'[c] = call[c] \/ call'[c] = [call[c] EXCEPT !.at = "futex"]
      BY <2>1 DEF completeNotify
    <3> QED BY <1>1, <3>1 DEF CallType
  <2>2. CASE completeRetireNotify(t)
    <3>1. call'[c] = call[c] \/ call'[c] = [call[c] EXCEPT !.at = "allFutex"]
      BY <2>2 DEF completeRetireNotify
    <3> QED BY <1>1, <3>1 DEF CallType
  <2>3. CASE ~ completeNotify(t) /\ ~ completeRetireNotify(t)
    <3>1. call' = call
      BY <1>3, <2>3 DEF Step, enqueueExecution, WorkerTake, ExecuteTake, ExecuteRun, completeLocked,
         enqueueExecutionBatch, completeRetire
    <3> QED BY <3>1
  <2> QED BY <2>1, <2>2, <2>3
<1>4. ASSUME NEW d \in Waiters, waitAll(d) \/ WaitStep(d) \/ \E j \in Jobs : wait(d, j)
      PROVE  WaitStep(c)
  <2>1. PICK r : SetCall(d, r) /\ d \in Clients
    BY <1>4, JobAssumption DEF waitAll, wait, WaitStep, waitResolve, waitFutex, waitAllLoad, waitAllFutex
  <2>2. d = c
    BY <1>1, <2>1 DEF SetCall
  <2>3. ~ waitAll(d) /\ \A j : ~ wait(d, j)
    BY <2>2 DEF waitAll, wait
  <2> QED BY <1>4, <2>2, <2>3
<1> QED BY <1>2, <1>3, <1>4 DEF Next

(* wait() and waitAll() return only after the jobs they wait for have
   ended.                                                                  *)
THEOREM WaitCorrect == Spec => WaitSeesEnd
<1> DEFINE A == \A c \in Clients : call[c].at # "idle" /\ call'[c].at = "idle" =>
                  \A j \in call[c].past \cup ({call[c].job} \ {0}) : state[j] = "ended"
<1>1. Inv /\ [Next]_vars => [A]_vars
  <2>1. ASSUME Inv, Next PROVE A
    BY <2>1, CallsOfOthers, WaitStepEnds
  <2> QED BY <2>1
<1>2. Spec => [][A]_vars
  BY <1>1, InvSpec, PTL DEF Spec
<1> QED BY <1>2 DEF WaitSeesEnd

-----------------------------------------------------------------------------
(* A job that is started waited for all its dependencies.                  *)
LEMMA StartReady ==
  ASSUME Inv, NEW j \in submitted, Live(j), state[j] = "pending", m_nodes[handle[j].index].scheduled
  PROVE  \A d \in deps[j] : state[d] = "ended"
<1>1. Types /\ Numbered /\ Generations /\ Owned /\ Linked /\ Lists /\ RemainingExact
  BY DEF Inv, Lists
<1>2. PICK i, h : i = handle[j].index /\ h = handle[j] /\ h = HandleOf(m_nodes, i) /\ i \in DOMAIN m_nodes
                  /\ ~ m_nodes[i].completed
  BY <1>1, LiveHandle DEF Numbered, Live
<1>3. Listed(m_nodes, h) = {}
  <2>1. IsFiniteSet(Listed(m_nodes, h)) /\ Cardinality(Listed(m_nodes, h)) = 0
    BY <1>1, <1>2 DEF Lists, RemainingExact
  <2> QED BY <2>1, FS_EmptySet
<1>4. SUFFICES ASSUME NEW d \in deps[j], state[d] # "ended" PROVE FALSE
  OBVIOUS
<1>5. d \in submitted /\ Live(d)
  BY <1>1, <1>4 DEF Numbered, Owned
<1>6. \E q \in DOMAIN m_nodes[handle[d].index].dependents :
        m_nodes[handle[d].index].dependents[q] = handle[j]
  <2>1. \A e \in deps[j] : Live(e) =>
          \E q \in DOMAIN m_nodes[handle[e].index].dependents :
            m_nodes[handle[e].index].dependents[q] = handle[j]
    BY <1>1 DEF Linked
  <2> QED BY <1>4, <1>5, <2>1
<1>8. PICK q \in DOMAIN m_nodes[handle[d].index].dependents :
        m_nodes[handle[d].index].dependents[q] = h
  BY <1>2, <1>6
<1>7. ListedAt(m_nodes, handle[d].index, q, h)
  BY <1>1, <1>5, <1>8 DEF ListedAt, Numbered, Live
<1> QED BY <1>3, <1>7, ListedPairs

(* Every step of the job system is a step of JobGraph or leaves it alone.  *)
LEMMA GraphStep ==
  ASSUME Inv, [Next]_vars
  PROVE  [Graph!Next]_(Graph!graphVars)
<1>1. Types /\ submitted \subseteq Jobs
  BY JobsFinite DEF Inv
<1>2. state \in [Jobs -> {"none", "pending", "running", "ended"}] /\ deps \in [Jobs -> SUBSET Jobs]
  BY <1>1 DEF Types
<1>3. ASSUME NEW t \in Threads, NEW list \in DependencyLists, submitWithDependencies(t, list)
      PROVE  Graph!Next
  <2>1. PICK j, out, D : Submits(j, out, AcquireIndex, D)
    BY <1>3, SubmitShape
  <2>2. /\ j \in Jobs /\ D \subseteq submitted
        /\ state' = [state EXCEPT ![j] = "pending"] /\ deps' = [deps EXCEPT ![j] = D]
    BY <2>1 DEF Submits, SubmitJob
  <2>3. j \notin submitted
    BY <2>1, SubmitJobs
  <2>4. state[j] = "none" /\ \A d \in D : state[d] # "none"
    BY <2>2, <2>3 DEF submitted
  <2>5. Graph!Submit(j, D) /\ D \in SUBSET Jobs
    BY <1>1, <2>2, <2>4 DEF Graph!Submit
  <2> QED BY <2>2, <2>5 DEF Graph!Next
<1>4. ASSUME NEW t \in Threads, ExecuteTake(t) PROVE Graph!Next \/ UNCHANGED Graph!graphVars
  <2>1. PICK h, j : h = Top(t).cur /\ j = m_nodes[h.index].func
    OBVIOUS
  <2>2. Due(h)
    <3>1. At(t, "take")
      BY <1>4 DEF ExecuteTake
    <3>2. FrameDue(Top(t)) /\ Top(t).at = "take"
      BY <3>1, TopInv
    <3> QED BY <2>1, <3>2 DEF FrameDue
  <2>3. Resolves(m_nodes, h) /\ m_nodes[h.index].scheduled
    BY <1>1, <2>2, OpenFact DEF Due
  <2>4. j \in submitted /\ Live(j) /\ handle[j] = h /\ state[j] = "pending"
    BY <2>1, <2>2, DueJob
  <2>5. state' = [k \in Jobs |-> IF k = j THEN "running" ELSE state[k]] /\ deps' = deps
    BY <1>4, <2>1, <2>3 DEF ExecuteTake
  <2>6. state' = [state EXCEPT ![j] = "running"]
    BY <1>1, <1>2, <2>4, <2>5
  <2>7. \A d \in deps[j] : state[d] = "ended"
    BY <2>3, <2>4, StartReady
  <2>8. Graph!Start(j)
    BY <2>4, <2>5, <2>6, <2>7 DEF Graph!Start
  <2> QED BY <1>1, <2>4, <2>8 DEF Graph!Next
<1>5. ASSUME NEW t \in Threads, ExecuteRun(t) PROVE Graph!Next
  <2>1. PICK j : j = Top(t).fn
    OBVIOUS
  <2>2. At(t, "run")
    BY <1>5 DEF ExecuteRun
  <2>3. FrameOK(Top(t)) /\ Top(t).at = "run"
    BY <2>2, TopInv
  <2>4. j \in submitted /\ state[j] = "running"
    BY <2>1, <2>3 DEF FrameOK, Live
  <2>5. state' = [k \in Jobs |-> IF k = j THEN "ended" ELSE state[k]] /\ deps' = deps
    BY <1>5, <2>1 DEF ExecuteRun
  <2>6. state' = [state EXCEPT ![j] = "ended"]
    BY <1>1, <1>2, <2>4, <2>5
  <2>7. Graph!End(j)
    BY <2>4, <2>5, <2>6 DEF Graph!End
  <2> QED BY <1>1, <2>4, <2>7 DEF Graph!Next
<1>6. ASSUME NEW t \in Threads, Step(t), ~ ExecuteTake(t), ~ ExecuteRun(t) PROVE UNCHANGED Graph!graphVars
  <2>1. state' = state /\ deps' = deps
    BY <1>6 DEF Step, enqueueExecution, WorkerTake, completeLocked, completeNotify, enqueueExecutionBatch,
       completeRetire, completeRetireNotify
  <2> QED BY <2>1 DEF Graph!graphVars
<1>7. ASSUME NEW c \in Waiters, waitAll(c) \/ WaitStep(c) \/ \E j \in Jobs : wait(c, j)
      PROVE  UNCHANGED Graph!graphVars
  <2>1. PICK r : SetCall(c, r)
    BY <1>7 DEF waitAll, wait, WaitStep, waitResolve, waitFutex, waitAllLoad, waitAllFutex
  <2> QED BY <2>1 DEF SetCall, Graph!graphVars
<1>8. CASE UNCHANGED vars
  BY <1>8 DEF vars, Graph!graphVars
<1> QED BY <1>3, <1>4, <1>5, <1>6, <1>7, <1>8 DEF Next, Call

(* The job system implements JobGraph: every job starts once, and only
   after all the jobs it depends on have ended.                            *)
THEOREM JobGraphImplemented == Spec => ImplementsJobGraph
<1>1. Init => Graph!Init
  BY DEF Init, Graph!Init
<1>2. Inv /\ [Next]_vars => [Graph!Next]_(Graph!graphVars)
  BY GraphStep
<1> QED BY <1>1, <1>2, InvSpec, PTL DEF Spec, ImplementsJobGraph, Graph!Spec
=============================================================================
