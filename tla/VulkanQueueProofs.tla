-------------------------- MODULE VulkanQueueProofs --------------------------
(***************************************************************************)
(* Proofs about VulkanQueue for every set of queues, recorders and command *)
(* buffers and every largest submission id.                                *)
(*                                                                         *)
(* The lemmas about steps name the actions of VulkanQueue and not its next *)
(* state relation, and what they keep leaves exec, the pending waits and   *)
(* the recording flags aside: the components that are built on the queue   *)
(* take the same steps.                                                    *)
(***************************************************************************)
EXTENDS VulkanQueue, FiniteSetTheorems, SequenceTheorems, WellFoundedInduction, TLAPS

Entries == [id : Ids, buffer : Buffers \cup {NoBuffer}, waits : SUBSET Tokens]

(* The types of the queue's own state.                                     *)
CoreType ==
  /\ m_lastSubmittedID \in [Queues -> 0 .. SubmissionLimit]
  /\ m_lastFinishedID \in [Queues -> 0 .. SubmissionLimit]
  /\ gpuDone \in [Queues -> 0 .. SubmissionLimit]
  /\ m_commandBuffersInFlight \in [Queues -> Seq(Buffers)]
  /\ m_pool \in [Queues -> [Workers -> Seq(Buffers)]]
  /\ m_submissionID \in [Buffers -> 0 .. SubmissionLimit]
  /\ m_recordingWorkerIndex \in [Buffers -> Workers]
  /\ m_currentCmdBuf \in [Recorders -> Buffers \cup {NoBuffer}]
  /\ gpuQueue \in [Queues -> Seq(Entries)]

(* And of what surrounds a submission.                                     *)
CallType ==
  /\ m_waitSemaphores \in [Queues -> SUBSET Tokens]
  /\ m_isRecording \in [Recorders -> BOOLEAN]
  /\ exec \in [Recorders -> [at : {"idle", "open", "begin", "stage", "submit", "book"},
                             waits : SUBSET Tokens]]

(* A command buffer is in one place, once: the lists' buffers, the queues' *)
(* buffers in flight, and the pools.                                       *)
OnePlace(held, flight, pool) ==
  /\ \A r, s \in Recorders : held[r] = held[s] /\ held[r] # NoBuffer => r = s
  /\ \A p, q \in Queues : \A i \in DOMAIN flight[p], j \in DOMAIN flight[q] :
       flight[p][i] = flight[q][j] => p = q /\ i = j
  /\ \A p, q \in Queues, v, w \in Workers : \A i \in DOMAIN pool[p][v], j \in DOMAIN pool[q][w] :
       pool[p][v][i] = pool[q][w][j] => p = q /\ v = w /\ i = j
  /\ \A r \in Recorders, q \in Queues : \A i \in DOMAIN flight[q] : held[r] # flight[q][i]
  /\ \A r \in Recorders, q \in Queues, w \in Workers : \A i \in DOMAIN pool[q][w] :
       held[r] # pool[q][w][i]
  /\ \A p, q \in Queues, w \in Workers : \A i \in DOMAIN flight[p], j \in DOMAIN pool[q][w] :
       flight[p][i] # pool[q][w][j]

Placed == OnePlace(m_currentCmdBuf, m_commandBuffersInFlight, m_pool)

(* What every step of the queue keeps.                                     *)
Core == CoreType /\ TimelineExact /\ ExecutingRetained /\ Placed

-----------------------------------------------------------------------------
(* A set of numbers has a smallest.                                        *)
LEMMA Smallest ==
  ASSUME NEW T \in SUBSET Nat, T # {}
  PROVE  \E x \in T : \A y \in T : x <= y
<1>1. PICK x \in T : \A y \in T : ~(<<y, x>> \in OpToRel(<, Nat))
  BY WFMin, NatLessThanWellFounded
<1>2. \A y \in T : ~(y < x)
  BY <1>1 DEF OpToRel
<1>3. x \in Nat /\ \A y \in T : y \in Nat
  BY <1>1
<1>4. \A y \in T : x <= y
  BY <1>2, <1>3
<1> QED BY <1>1, <1>4

(* What Only selects: the elements of the list that are in the set, each   *)
(* once if the list has each once.                                         *)
LEMMA OnlyFacts ==
  ASSUME NEW B, NEW list \in Seq(B), NEW S
  PROVE  /\ Only(list, S) \in Seq(B)
         /\ \A i \in DOMAIN Only(list, S) :
              /\ Only(list, S)[i] \in S
              /\ \E k \in DOMAIN list : Only(list, S)[i] = list[k]
         /\ \A k \in DOMAIN list : list[k] \in S => \E i \in DOMAIN Only(list, S) : Only(list, S)[i] = list[k]
         /\ (\A j, k \in DOMAIN list : list[j] = list[k] => j = k) =>
              \A j, k \in DOMAIN Only(list, S) : Only(list, S)[j] = Only(list, S)[k] => j = k
<1> DEFINE n == Len(list)
           Def(f, m) == f = [i \in 0 .. m |->
                               IF i = 0 THEN <<>>
                               ELSE IF list[i] \in S THEN Append(f[i - 1], list[i])
                               ELSE f[i - 1]]
           Bad == {m \in Nat : ~ \E f : Def(f, m)}
<1>0. n \in Nat
  OBVIOUS
<1>1. Bad = {}
  <2>1. SUFFICES ASSUME Bad # {} PROVE FALSE
    OBVIOUS
  <2>2. PICK m \in Bad : \A k \in Bad : m <= k
    BY <2>1, Smallest
  <2>3. m # 0
    <3>1. Def([i \in 0 .. 0 |-> <<>>], 0)
      OBVIOUS
    <3> QED BY <3>1, <2>2
  <2>4. PICK f : Def(f, m - 1)
    <3>1. m \in Nat /\ m - 1 \in Nat /\ ~(m <= m - 1)
      BY <2>2, <2>3
    <3> HIDE DEF Def
    <3> QED BY <2>2, <3>1
  <2> DEFINE g == [i \in 0 .. m |-> IF i < m THEN f[i]
                                    ELSE IF list[m] \in S THEN Append(f[m - 1], list[m])
                                    ELSE f[m - 1]]
  <2>5. Def(g, m)
    <3>1. m \in Nat /\ m - 1 \in Nat
      BY <2>2, <2>3
    <3>2. \A i \in 0 .. m - 1 : g[i] = f[i] /\ i \in 0 .. m
      BY <3>1
    <3>3. \A i \in 0 .. m - 1 : f[i] = IF i = 0 THEN <<>>
                               ELSE IF list[i] \in S THEN Append(f[i - 1], list[i])
                               ELSE f[i - 1]
      BY <2>4
    <3>4. \A i \in 0 .. m : g[i] = IF i = 0 THEN <<>>
                               ELSE IF list[i] \in S THEN Append(g[i - 1], list[i])
                               ELSE g[i - 1]
      <4> TAKE i \in 0 .. m
      <4>1. CASE i = m
        <5>1. g[m] = IF list[m] \in S THEN Append(f[m - 1], list[m]) ELSE f[m - 1]
          BY <3>1
        <5>2. g[m - 1] = f[m - 1]
          BY <3>1, <3>2
        <5> QED BY <2>3, <4>1, <5>1, <5>2
      <4>2. CASE i # m
        <5>1. i \in 0 .. m - 1 /\ (i # 0 => i - 1 \in 0 .. m - 1)
          BY <3>1, <4>2
        <5> HIDE DEF g
        <5> QED BY <3>2, <3>3, <5>1
      <4> QED BY <4>1, <4>2
    <3>5. g = [i \in 0 .. m |-> g[i]]
      OBVIOUS
    <3> HIDE DEF g
    <3> QED BY <3>4, <3>5
  <2> QED BY <2>2, <2>5
<1>2. PICK f : f = (CHOOSE G : Def(G, n))
  OBVIOUS
<1>3. Def(f, n)
  BY <1>0, <1>1, <1>2
<1>4. Only(list, S) = f[n]
  BY <1>2 DEF Only
<1> DEFINE Good(i) ==
      /\ f[i] \in Seq(B)
      /\ \A j \in DOMAIN f[i] : /\ f[i][j] \in S
                                /\ \E k \in DOMAIN list : k <= i /\ f[i][j] = list[k]
      /\ \A k \in DOMAIN list : (k <= i /\ list[k] \in S) => \E j \in DOMAIN f[i] : f[i][j] = list[k]
      /\ (\A j, k \in DOMAIN list : list[j] = list[k] => j = k) =>
              \A j, k \in DOMAIN f[i] : f[i][j] = f[i][k] => j = k
    Bads == {i \in 0 .. n : ~Good(i)}
<1>5. Bads = {}
  <2>1. SUFFICES ASSUME Bads # {} PROVE FALSE
    OBVIOUS
  <2>2. PICK m \in Bads : \A k \in Bads : m <= k
    <3>1. Bads \in SUBSET Nat
      BY <1>0
    <3> HIDE DEF Bads
    <3> QED BY <2>1, <3>1, Smallest
  <2>3. f[0] = <<>> /\ Good(0)
    BY <1>0, <1>3
  <2>4. m \in 1 .. n /\ m - 1 \in 0 .. n /\ m - 1 \notin Bads /\ m \in DOMAIN list /\ list[m] \in B
    <3>1. m \in 0 .. n /\ m # 0
      <4>1. m \in 0 .. n /\ ~Good(m)
        BY <2>2
      <4> HIDE DEF Good
      <4> QED BY <2>3, <4>1
    <3>2. m \in 1 .. n /\ m - 1 \in 0 .. n /\ ~(m <= m - 1)
      BY <1>0, <3>1
    <3>3. m - 1 \notin Bads
      <4> HIDE DEF Bads
      <4> QED BY <2>2, <3>2
    <3> QED BY <3>2, <3>3
  <2>5. Good(m - 1)
    BY <2>4
  <2>6. f[m] = IF list[m] \in S THEN Append(f[m - 1], list[m]) ELSE f[m - 1]
    <3>1. m \in 0 .. n /\ m # 0
      BY <1>0, <2>4
    <3> QED BY <1>3, <3>1
  <2>7. CASE list[m] \notin S
    <3>1. \A k \in DOMAIN list : k \in Nat /\ (k <= m => k <= m - 1 \/ k = m)
      BY <1>0, <2>4
    <3>2. PICK g : g = f[m - 1]
      OBVIOUS
    <3>3. g = f[m]
      BY <2>6, <2>7, <3>2
    <3>4. \A k \in DOMAIN list : (k <= m /\ list[k] \in S) => \E j \in DOMAIN g : g[j] = list[k]
      BY <2>5, <2>7, <3>1, <3>2
    <3>5. \A j \in DOMAIN g : /\ g[j] \in S
                              /\ \E k \in DOMAIN list : k <= m /\ g[j] = list[k]
      <4> TAKE j \in DOMAIN g
      <4>1. PICK k \in DOMAIN list : k <= m - 1 /\ g[j] = list[k] /\ g[j] \in S
        BY <2>5, <3>2
      <4>2. k <= m
        BY <2>4, <3>1, <4>1
      <4> QED BY <4>1, <4>2
    <3>6. Good(m)
      BY <2>5, <3>2, <3>3, <3>4, <3>5
    <3> QED BY <2>2, <3>6
  <2>8. CASE list[m] \in S
    <3>1. PICK g : g = f[m - 1]
      OBVIOUS
    <3>2. g \in Seq(B) /\ f[m] = Append(g, list[m])
      BY <2>5, <2>6, <2>8, <3>1
    <3>3. /\ f[m] \in Seq(B) /\ DOMAIN f[m] = 1 .. Len(g) + 1 /\ DOMAIN g = 1 .. Len(g) /\ Len(g) \in Nat
          /\ \A j \in DOMAIN g : f[m][j] = g[j]
          /\ f[m][Len(g) + 1] = list[m]
      BY <2>4, <3>2
    <3>4. PICK L \in Nat : L = Len(g) + 1
      BY <3>3
    <3>5. /\ \A j \in DOMAIN f[m] : (j \in DOMAIN g /\ f[m][j] = g[j]) \/ (j = L /\ f[m][j] = list[m])
      BY <3>3, <3>4
    <3>6. \A j \in DOMAIN g : /\ g[j] \in S
                              /\ \E k \in DOMAIN list : k <= m - 1 /\ g[j] = list[k]
      BY <2>5, <3>1
    <3>7. \A j \in DOMAIN f[m] : /\ f[m][j] \in S
                                 /\ \E k \in DOMAIN list : k <= m /\ f[m][j] = list[k]
      <4> TAKE j \in DOMAIN f[m]
      <4>1. CASE j = L /\ f[m][j] = list[m]
        BY <2>4, <2>8, <4>1
      <4>2. CASE j \in DOMAIN g /\ f[m][j] = g[j]
        <5>1. PICK k \in DOMAIN list : k <= m - 1 /\ g[j] = list[k]
          BY <3>6, <4>2
        <5>2. k <= m
          BY <2>4, <5>1
        <5> QED BY <3>6, <4>2, <5>1, <5>2
      <4> QED BY <3>5, <4>1, <4>2
    <3>8. ASSUME \A j, k \in DOMAIN list : list[j] = list[k] => j = k,
                 NEW j \in DOMAIN f[m], NEW k \in DOMAIN f[m], f[m][j] = f[m][k]
          PROVE  j = k
      <4>1. \A i \in DOMAIN g : g[i] # list[m]
        <5> SUFFICES ASSUME NEW i \in DOMAIN g, g[i] = list[m] PROVE FALSE
          OBVIOUS
        <5>1. PICK h \in DOMAIN list : h <= m - 1 /\ g[i] = list[h]
          BY <3>6
        <5>2. h = m
          BY <2>4, <3>8, <5>1
        <5> QED BY <1>0, <2>4, <5>1, <5>2
      <4>2. \A a, b \in DOMAIN g : g[a] = g[b] => a = b
        BY <2>5, <3>1, <3>8
      <4> QED BY <3>5, <3>8, <4>1, <4>2
    <3>9. \A k \in DOMAIN list : (k <= m /\ list[k] \in S) => \E j \in DOMAIN f[m] : f[m][j] = list[k]
      <4> SUFFICES ASSUME NEW k \in DOMAIN list, k <= m, list[k] \in S
                   PROVE  \E j \in DOMAIN f[m] : f[m][j] = list[k]
        OBVIOUS
      <4>1. CASE k = m
        <5>1. L \in DOMAIN f[m] /\ f[m][L] = list[m]
          BY <3>3, <3>4
        <5> QED BY <4>1, <5>1
      <4>2. CASE k # m
        <5>1. k <= m - 1
          BY <1>0, <2>4, <4>2
        <5>2. PICK j \in DOMAIN g : g[j] = list[k]
          BY <2>5, <3>1, <5>1
        <5>3. j \in DOMAIN f[m] /\ f[m][j] = g[j]
          BY <3>3, <5>2
        <5> QED BY <5>2, <5>3
      <4> QED BY <4>1, <4>2
    <3>10. Good(m)
      BY <3>3, <3>7, <3>8, <3>9
    <3> QED BY <2>2, <3>10
  <2> QED BY <2>7, <2>8
<1>6. Good(n)
  <2>1. n \in 0 .. n
    BY <1>0
  <2>2. ~ ~Good(n)
    <3> HIDE DEF Good
    <3> QED BY <1>5, <2>1
  <2> QED BY <2>2
<1>7. \A k \in DOMAIN list : k <= n
  BY <1>0
<1> QED BY <1>4, <1>6, <1>7

(* What recycleCommandBuffer gives worker w of a list: the buffers of the  *)
(* list that it recorded.                                                  *)
LEMMA OfWorkerFacts ==
  ASSUME NEW list \in Seq(Buffers), NEW w
  PROVE  /\ OfWorker(list, w) \in Seq(Buffers)
         /\ \A i \in DOMAIN OfWorker(list, w) :
              /\ m_recordingWorkerIndex[OfWorker(list, w)[i]] = w
              /\ \E k \in DOMAIN list : OfWorker(list, w)[i] = list[k]
         /\ (\A j, k \in DOMAIN list : list[j] = list[k] => j = k) =>
              \A j, k \in DOMAIN OfWorker(list, w) : OfWorker(list, w)[j] = OfWorker(list, w)[k] => j = k
<1>1. PICK S : S = {b \in Buffers : m_recordingWorkerIndex[b] = w}
  OBVIOUS
<1>2. OfWorker(list, w) = Only(list, S)
  BY <1>1 DEF OfWorker
<1>3. /\ Only(list, S) \in Seq(Buffers)
      /\ \A i \in DOMAIN Only(list, S) : /\ Only(list, S)[i] \in S
                                         /\ \E k \in DOMAIN list : Only(list, S)[i] = list[k]
      /\ (\A j, k \in DOMAIN list : list[j] = list[k] => j = k) =>
           \A j, k \in DOMAIN Only(list, S) : Only(list, S)[j] = Only(list, S)[k] => j = k
  BY OnlyFacts
<1>4. \A b \in S : m_recordingWorkerIndex[b] = w
  BY <1>1
<1> QED BY <1>2, <1>3, <1>4

(* collectCompletedCommandBuffers takes a prefix of completed buffers.     *)
LEMMA CompletedPrefix ==
  ASSUME CoreType, NEW q \in Queues, NEW fin \in 0 .. SubmissionLimit
  PROVE  /\ CompletedCount(q, fin) \in 0 .. Len(m_commandBuffersInFlight[q])
         /\ \A k \in 1 .. CompletedCount(q, fin) :
              m_submissionID[m_commandBuffersInFlight[q][k]] <= fin
<1> DEFINE list == m_commandBuffersInFlight[q]
           Done(i) == \A k \in 1 .. i : m_submissionID[list[k]] <= fin
           S == {i \in DOMAIN list : Done(i)}
           T == {i \in Nat : i + 1 \notin S}
<1>1. list \in Seq(Buffers) /\ Len(list) \in Nat /\ DOMAIN list = 1 .. Len(list)
  BY DEF CoreType
<1>2. PICK m \in T : \A i \in T : m <= i
  <2>1. Len(list) \in T
    BY <1>1
  <2>2. T \in SUBSET Nat /\ T # {}
    BY <2>1
  <2> HIDE DEF T
  <2> QED BY <2>2, Smallest
<1>3. m \in Nat /\ m + 1 \notin S
  BY <1>2
<1>4. \A i \in 1 .. m : i \in S
  <2> SUFFICES ASSUME NEW i \in 1 .. m, i \notin S PROVE FALSE
    OBVIOUS
  <2>1. i - 1 \in Nat /\ (i - 1) + 1 = i /\ ~(m <= i - 1)
    BY <1>3
  <2>2. i - 1 \in T
    <3> HIDE DEF S
    <3> QED BY <2>1
  <2> HIDE DEF T
  <2> QED BY <1>2, <2>1, <2>2
<1>5. \A i \in S : i \in 1 .. m
  <2> SUFFICES ASSUME NEW i \in S, i \notin 1 .. m PROVE FALSE
    OBVIOUS
  <2>1. i \in Nat /\ i >= m + 1 /\ i <= Len(list) /\ Done(i)
    BY <1>1, <1>3
  <2>2. \A k \in 1 .. m + 1 : k \in 1 .. i
    BY <1>3, <2>1
  <2>3. Done(m + 1)
    BY <2>1, <2>2
  <2>4. m + 1 \in DOMAIN list
    BY <1>1, <1>3, <2>1
  <2> QED BY <1>3, <2>3, <2>4
<1>6. S = 1 .. m
  <2> HIDE DEF S
  <2> QED BY <1>4, <1>5
<1>7. Cardinality(S) = m
  <2>1. Cardinality(1 .. m) = IF 1 > m THEN 0 ELSE m - 1 + 1
    BY <1>3, FS_Interval
  <2> HIDE DEF S
  <2> QED BY <1>3, <1>6, <2>1
<1>8. CompletedCount(q, fin) = m
  BY <1>7 DEF CompletedCount
<1>9. m <= Len(list) /\ \A k \in 1 .. m : m_submissionID[list[k]] <= fin
  <2>1. CASE m = 0
    BY <1>1, <2>1
  <2>2. CASE m # 0
    <3>1. m \in 1 .. m
      BY <1>3, <2>2
    <3>2. m \in S
      BY <1>4, <3>1
    <3> QED BY <1>1, <3>2
  <2> QED BY <2>1, <2>2
<1> QED BY <1>1, <1>3, <1>8, <1>9

(* The completed buffers and the ones still in flight.                     *)
LEMMA CollectedSequences ==
  ASSUME CoreType, NEW q \in Queues, NEW fin \in 0 .. SubmissionLimit
  PROVE  LET list == m_commandBuffersInFlight[q]
             c == CompletedCount(q, fin)
         IN  /\ c \in Nat /\ c <= Len(list)
             /\ Completed(q, fin) \in Seq(Buffers) /\ DOMAIN Completed(q, fin) = 1 .. c
             /\ \A k \in 1 .. c : Completed(q, fin)[k] = list[k] /\ m_submissionID[list[k]] <= fin
             /\ StillInFlight(q, fin) \in Seq(Buffers)
             /\ DOMAIN StillInFlight(q, fin) = 1 .. Len(list) - c
             /\ \A k \in 1 .. Len(list) - c : StillInFlight(q, fin)[k] = list[k + c]
<1>1. PICK list \in Seq(Buffers) : list = m_commandBuffersInFlight[q]
  BY DEF CoreType
<1>2. PICK c \in Nat : c = CompletedCount(q, fin) /\ c <= Len(list)
                       /\ \A k \in 1 .. c : m_submissionID[list[k]] <= fin
  BY <1>1, CompletedPrefix
<1>3. Len(list) \in Nat
  OBVIOUS
<1>4. Completed(q, fin) = SubSeq(list, 1, c) /\ StillInFlight(q, fin) = SubSeq(list, c + 1, Len(list))
  BY <1>1, <1>2 DEF Completed, StillInFlight
<1>5. /\ SubSeq(list, 1, c) \in Seq(Buffers) /\ DOMAIN SubSeq(list, 1, c) = 1 .. c
      /\ \A k \in 1 .. c : SubSeq(list, 1, c)[k] = list[k]
  BY <1>2, <1>3
<1>6. /\ SubSeq(list, c + 1, Len(list)) \in Seq(Buffers)
      /\ DOMAIN SubSeq(list, c + 1, Len(list)) = 1 .. Len(list) - c
      /\ \A k \in 1 .. Len(list) - c : SubSeq(list, c + 1, Len(list))[k] = list[k + c]
  BY <1>2, <1>3
<1> QED BY <1>1, <1>2, <1>4, <1>5, <1>6

(* The pools after buffers were recycled.                                  *)
LEMMA RecycleFacts ==
  ASSUME NEW pools \in [Workers -> Seq(Buffers)], NEW list \in Seq(Buffers),
         \A j, k \in DOMAIN list : list[j] = list[k] => j = k
  PROVE  /\ recycle(pools, list) \in [Workers -> Seq(Buffers)]
         /\ \A w \in Workers :
              /\ \A i \in DOMAIN recycle(pools, list)[w] :
                   \/ i \in DOMAIN pools[w] /\ recycle(pools, list)[w][i] = pools[w][i]
                   \/ /\ m_recordingWorkerIndex[recycle(pools, list)[w][i]] = w
                      /\ \E k \in DOMAIN list : recycle(pools, list)[w][i] = list[k]
              /\ \A i, j \in DOMAIN recycle(pools, list)[w] :
                   (i \notin DOMAIN pools[w] /\ j \notin DOMAIN pools[w]
                      /\ recycle(pools, list)[w][i] = recycle(pools, list)[w][j]) => i = j
<1>1. \A w \in Workers : recycle(pools, list)[w] = pools[w] \o OfWorker(list, w)
  BY DEF recycle
<1>2. ASSUME NEW w \in Workers
      PROVE  /\ recycle(pools, list)[w] \in Seq(Buffers)
             /\ \A i \in DOMAIN recycle(pools, list)[w] :
                   \/ i \in DOMAIN pools[w] /\ recycle(pools, list)[w][i] = pools[w][i]
                   \/ /\ m_recordingWorkerIndex[recycle(pools, list)[w][i]] = w
                      /\ \E k \in DOMAIN list : recycle(pools, list)[w][i] = list[k]
             /\ \A i, j \in DOMAIN recycle(pools, list)[w] :
                   (i \notin DOMAIN pools[w] /\ j \notin DOMAIN pools[w]
                      /\ recycle(pools, list)[w][i] = recycle(pools, list)[w][j]) => i = j
  <2>1. PICK t \in Seq(Buffers) : t = OfWorker(list, w)
    BY OfWorkerFacts
  <2>2. /\ \A i \in DOMAIN t : m_recordingWorkerIndex[t[i]] = w /\ \E k \in DOMAIN list : t[i] = list[k]
        /\ \A j, k \in DOMAIN t : t[j] = t[k] => j = k
    BY <2>1, OfWorkerFacts
  <2>3. PICK P \in Seq(Buffers) : P = pools[w]
    OBVIOUS
  <2>4. PICK R : R = recycle(pools, list)[w]
    OBVIOUS
  <2>5. R = P \o t
    BY <1>1, <2>1, <2>3, <2>4
  <2>6. /\ R \in Seq(Buffers) /\ DOMAIN R = 1 .. Len(P) + Len(t) /\ DOMAIN P = 1 .. Len(P)
        /\ DOMAIN t = 1 .. Len(t) /\ Len(P) \in Nat /\ Len(t) \in Nat
        /\ \A i \in 1 .. Len(P) + Len(t) : R[i] = IF i <= Len(P) THEN P[i] ELSE t[i - Len(P)]
    BY <2>5
  <2>7. \A i \in DOMAIN R : \/ i \in DOMAIN P /\ R[i] = P[i]
                            \/ i \notin DOMAIN P /\ i \in Nat /\ i - Len(P) \in DOMAIN t /\ R[i] = t[i - Len(P)]
    BY <2>6
  <2>8. ASSUME NEW i \in DOMAIN R
        PROVE  \/ i \in DOMAIN P /\ R[i] = P[i]
               \/ m_recordingWorkerIndex[R[i]] = w /\ \E k \in DOMAIN list : R[i] = list[k]
    BY <2>2, <2>7
  <2>9. ASSUME NEW i \in DOMAIN R, NEW j \in DOMAIN R, i \notin DOMAIN P, j \notin DOMAIN P, R[i] = R[j]
        PROVE  i = j
    <3>1. i - Len(P) = j - Len(P) /\ i \in Nat /\ j \in Nat
      BY <2>2, <2>7, <2>9
    <3> QED BY <2>6, <3>1
  <2> QED BY <2>3, <2>4, <2>6, <2>8, <2>9
<1>3. recycle(pools, list) = [w \in Workers |-> recycle(pools, list)[w]]
  BY DEF recycle
<1> QED BY <1>2, <1>3
-----------------------------------------------------------------------------
(* Buffers go from one place to another.                                   *)

(* Buffers of the set G leave the lists, or the first c places of q's      *)
(* flight, and enter the pools of the workers that recorded them.          *)
Moved(held, flight, pool, held2, flight2, pool2, q, c, G, rec) ==
  /\ \A r \in Recorders : held2[r] = NoBuffer \/ (held2[r] = held[r] /\ held[r] \notin G)
  /\ \A b \in G : /\ b # NoBuffer
                  /\ \A p \in Queues, w \in Workers : \A i \in DOMAIN pool[p][w] : pool[p][w][i] # b
  /\ \A p \in Queues : \A i \in DOMAIN flight2[p] : flight2[p][i] \notin G /\ flight2[p][i] # NoBuffer
  /\ \A p \in Queues \ {q} : flight2[p] = flight[p] /\ pool2[p] = pool[p]
  /\ \A i \in DOMAIN flight2[q] : /\ i \in Nat /\ i + c \in DOMAIN flight[q]
                                  /\ flight2[q][i] = flight[q][i + c]
  /\ \A p \in Queues, w \in Workers : \A i \in DOMAIN pool2[p][w] : pool2[p][w][i] # NoBuffer
  /\ \A w \in Workers :
       /\ \A i \in DOMAIN pool2[q][w] :
            \/ i \in DOMAIN pool[q][w] /\ pool2[q][w][i] = pool[q][w][i]
            \/ i \notin DOMAIN pool[q][w] /\ rec[pool2[q][w][i]] = w /\ pool2[q][w][i] \in G
       /\ \A i, j \in DOMAIN pool2[q][w] :
            (i \notin DOMAIN pool[q][w] /\ j \notin DOMAIN pool[q][w]
               /\ pool2[q][w][i] = pool2[q][w][j]) => i = j

(* Such a move leaves every buffer in one place.                           *)
LEMMA MoveToPools ==
  ASSUME NEW held, NEW flight, NEW pool, OnePlace(held, flight, pool),
         NEW held2, NEW flight2, NEW pool2, NEW q \in Queues, NEW c \in Nat, NEW G, NEW rec,
         Moved(held, flight, pool, held2, flight2, pool2, q, c, G, rec)
  PROVE  OnePlace(held2, flight2, pool2)
<1> USE DEF Moved
<1>1. \A r, s \in Recorders : held2[r] = held2[s] /\ held2[r] # NoBuffer => r = s
  BY DEF OnePlace
<1>2. ASSUME NEW p \in Queues, NEW i \in DOMAIN flight2[p]
      PROVE  \E k \in DOMAIN flight[p] : flight2[p][i] = flight[p][k] /\ k = IF p = q THEN i + c ELSE i
  OBVIOUS
<1>3. ASSUME NEW p \in Queues, NEW s \in Queues, NEW i \in DOMAIN flight2[p], NEW j \in DOMAIN flight2[s],
             flight2[p][i] = flight2[s][j]
      PROVE  p = s /\ i = j
  <2>1. PICK k \in DOMAIN flight[p] : flight2[p][i] = flight[p][k] /\ k = IF p = q THEN i + c ELSE i
    BY <1>2
  <2>2. PICK m \in DOMAIN flight[s] : flight2[s][j] = flight[s][m] /\ m = IF s = q THEN j + c ELSE j
    BY <1>2
  <2>3. p = s /\ k = m
    <3>1. flight[p][k] = flight[s][m]
      BY <1>3, <2>1, <2>2
    <3>2. \A x, y \in Queues : \A a \in DOMAIN flight[x], b \in DOMAIN flight[y] :
            flight[x][a] = flight[y][b] => x = y /\ a = b
      BY DEF OnePlace
    <3> QED BY <3>1, <3>2
  <2>4. CASE p = q
    <3>1. i \in Nat /\ j \in Nat /\ i + c = j + c
      BY <2>1, <2>2, <2>3, <2>4
    <3> QED BY <2>3, <3>1
  <2>5. CASE p # q
    BY <2>1, <2>2, <2>3, <2>5
  <2> QED BY <2>4, <2>5
<1>4. ASSUME NEW p \in Queues, NEW w \in Workers, NEW i \in DOMAIN pool2[p][w]
      PROVE  \/ i \in DOMAIN pool[p][w] /\ pool2[p][w][i] = pool[p][w][i] /\ pool2[p][w][i] \notin G
             \/ /\ p = q /\ i \notin DOMAIN pool[p][w] /\ rec[pool2[p][w][i]] = w
                /\ pool2[p][w][i] \in G
  BY DEF OnePlace
<1>5. ASSUME NEW p \in Queues, NEW s \in Queues, NEW v \in Workers, NEW w \in Workers,
             NEW i \in DOMAIN pool2[p][v], NEW j \in DOMAIN pool2[s][w], pool2[p][v][i] = pool2[s][w][j]
      PROVE  p = s /\ v = w /\ i = j
  <2>1. CASE pool2[p][v][i] \in G
    <3>1. p = q /\ s = q /\ i \notin DOMAIN pool[q][v] /\ j \notin DOMAIN pool[q][w] /\ v = w
      BY <1>4, <1>5, <2>1
    <3> QED BY <1>5, <3>1
  <2>2. CASE pool2[p][v][i] \notin G
    <3>1. /\ i \in DOMAIN pool[p][v] /\ pool2[p][v][i] = pool[p][v][i]
          /\ j \in DOMAIN pool[s][w] /\ pool2[s][w][j] = pool[s][w][j]
      BY <1>4, <1>5, <2>2
    <3>2. \A x, y \in Queues, f, g \in Workers : \A a \in DOMAIN pool[x][f], e \in DOMAIN pool[y][g] :
            pool[x][f][a] = pool[y][g][e] => x = y /\ f = g /\ a = e
      BY DEF OnePlace
    <3>3. pool[p][v][i] = pool[s][w][j]
      BY <1>5, <3>1
    <3> QED BY <3>1, <3>2, <3>3
  <2> QED BY <2>1, <2>2
<1>6. ASSUME NEW r \in Recorders, NEW p \in Queues, NEW i \in DOMAIN flight2[p]
      PROVE  held2[r] # flight2[p][i]
  BY <1>2 DEF OnePlace
<1>7. ASSUME NEW r \in Recorders, NEW p \in Queues, NEW w \in Workers, NEW i \in DOMAIN pool2[p][w]
      PROVE  held2[r] # pool2[p][w][i]
  BY <1>4 DEF OnePlace
<1>8. ASSUME NEW p \in Queues, NEW s \in Queues, NEW w \in Workers, NEW i \in DOMAIN flight2[p],
             NEW j \in DOMAIN pool2[s][w]
      PROVE  flight2[p][i] # pool2[s][w][j]
  <2>1. CASE pool2[s][w][j] \in G
    BY <2>1
  <2>2. CASE pool2[s][w][j] \notin G
    <3>1. PICK k \in DOMAIN flight[p] : flight2[p][i] = flight[p][k]
      BY <1>2
    <3>2. j \in DOMAIN pool[s][w] /\ pool2[s][w][j] = pool[s][w][j]
      BY <1>4, <2>2
    <3> QED BY <3>1, <3>2 DEF OnePlace
  <2> QED BY <2>1, <2>2
<1> QED BY <1>1, <1>3, <1>5, <1>6, <1>7, <1>8 DEF OnePlace

(* A recorder takes the front of a pool, or a buffer that is nowhere, or   *)
(* gets none; the pool may lose its front (d = 1) either way.              *)
Taken(held, flight, pool, held2, pool2, r, q, w, b, d) ==
  /\ \A s \in Recorders \ {r} : held2[s] = held[s]
  /\ held2[r] = b
  /\ \A p \in Queues, v \in Workers : (p # q \/ v # w) => pool2[p][v] = pool[p][v]
  /\ \A i \in DOMAIN pool2[q][w] : /\ i \in Nat /\ i >= 1 /\ i + d \in DOMAIN pool[q][w]
                                   /\ pool2[q][w][i] = pool[q][w][i + d]
  /\ \A p \in Queues : \A i \in DOMAIN flight[p] : flight[p][i] # NoBuffer
  /\ \A p \in Queues, v \in Workers : \A i \in DOMAIN pool[p][v] : pool[p][v][i] # NoBuffer
  /\ \/ b = NoBuffer
     \/ d = 1 /\ 1 \in DOMAIN pool[q][w] /\ b = pool[q][w][1]
     \/ /\ \A s \in Recorders : held[s] # b
        /\ \A p \in Queues : \A i \in DOMAIN flight[p] : flight[p][i] # b
        /\ \A p \in Queues, v \in Workers : \A i \in DOMAIN pool[p][v] : pool[p][v][i] # b

(* Taking a buffer leaves every buffer in one place.                       *)
LEMMA TakeFromPool ==
  ASSUME NEW held, NEW flight, NEW pool, OnePlace(held, flight, pool),
         NEW held2, NEW pool2, NEW r \in Recorders, NEW q \in Queues, NEW w \in Workers, NEW b,
         NEW d \in {0, 1}, Taken(held, flight, pool, held2, pool2, r, q, w, b, d)
  PROVE  OnePlace(held2, flight, pool2)
<1> USE DEF Taken
<1>1. ASSUME NEW p \in Queues, NEW v \in Workers, NEW i \in DOMAIN pool2[p][v]
      PROVE  \E k \in DOMAIN pool[p][v] : /\ pool2[p][v][i] = pool[p][v][k]
                                          /\ k = IF p = q /\ v = w THEN i + d ELSE i
  OBVIOUS
<1>2. \A s \in Recorders \ {r} : held[s] # b \/ b = NoBuffer
  BY DEF OnePlace
<1>3. ASSUME NEW p \in Queues, NEW v \in Workers, NEW i \in DOMAIN pool2[p][v]
      PROVE  pool2[p][v][i] # b
  <2>1. PICK k \in DOMAIN pool[p][v] : pool2[p][v][i] = pool[p][v][k] /\ k = IF p = q /\ v = w THEN i + d ELSE i
    BY <1>1
  <2>2. CASE d = 1 /\ 1 \in DOMAIN pool[q][w] /\ b = pool[q][w][1]
    <3>1. ~(p = q /\ v = w /\ k = 1)
      <4>1. p = q /\ v = w => i \in Nat /\ i >= 1 /\ k = i + 1
        BY <2>1, <2>2
      <4> QED BY <4>1
    <3> QED BY <2>1, <2>2, <3>1 DEF OnePlace
  <2> QED BY <2>1, <2>2
<1>4. \A p \in Queues : \A i \in DOMAIN flight[p] : flight[p][i] # b
  BY DEF OnePlace
<1>5. \A s, t \in Recorders : held2[s] = held2[t] /\ held2[s] # NoBuffer => s = t
  BY <1>2 DEF OnePlace
<1>6. ASSUME NEW p \in Queues, NEW s \in Queues, NEW u \in Workers, NEW v \in Workers,
             NEW i \in DOMAIN pool2[p][u], NEW j \in DOMAIN pool2[s][v], pool2[p][u][i] = pool2[s][v][j]
      PROVE  p = s /\ u = v /\ i = j
  <2>1. PICK k \in DOMAIN pool[p][u] : pool2[p][u][i] = pool[p][u][k] /\ k = IF p = q /\ u = w THEN i + d ELSE i
    BY <1>1
  <2>2. PICK m \in DOMAIN pool[s][v] : pool2[s][v][j] = pool[s][v][m] /\ m = IF s = q /\ v = w THEN j + d ELSE j
    BY <1>1
  <2>3. p = s /\ u = v /\ k = m
    <3>1. pool[p][u][k] = pool[s][v][m]
      BY <1>6, <2>1, <2>2
    <3>2. \A x, y \in Queues, f, g \in Workers : \A a \in DOMAIN pool[x][f], e \in DOMAIN pool[y][g] :
            pool[x][f][a] = pool[y][g][e] => x = y /\ f = g /\ a = e
      BY DEF OnePlace
    <3> QED BY <3>1, <3>2
  <2>4. CASE p = q /\ u = w
    <3>1. i \in Nat /\ j \in Nat /\ i + d = j + d
      BY <2>1, <2>2, <2>3, <2>4
    <3> QED BY <2>3, <3>1
  <2>5. CASE ~(p = q /\ u = w)
    BY <2>1, <2>2, <2>3, <2>5
  <2> QED BY <2>4, <2>5
<1>7. ASSUME NEW s \in Recorders, NEW p \in Queues, NEW v \in Workers, NEW i \in DOMAIN pool2[p][v]
      PROVE  held2[s] # pool2[p][v][i]
  BY <1>1, <1>3 DEF OnePlace
<1>8. ASSUME NEW p \in Queues, NEW s \in Queues, NEW v \in Workers, NEW i \in DOMAIN flight[p],
             NEW j \in DOMAIN pool2[s][v]
      PROVE  flight[p][i] # pool2[s][v][j]
  BY <1>1 DEF OnePlace
<1>9. \A s \in Recorders, p \in Queues : \A i \in DOMAIN flight[p] : held2[s] # flight[p][i]
  BY <1>4 DEF OnePlace
<1>10. \A p, s \in Queues : \A i \in DOMAIN flight[p], j \in DOMAIN flight[s] :
         flight[p][i] = flight[s][j] => p = s /\ i = j
  BY DEF OnePlace
<1> QED BY <1>5, <1>6, <1>7, <1>8, <1>9, <1>10 DEF OnePlace

(* A recorder gives up its buffer, which goes to the end of its queue's    *)
(* flight (at L) or nowhere.                                               *)
Left(held, flight, pool, held2, flight2, r, q, L) ==
  /\ \A s \in Recorders \ {r} : held2[s] = held[s]
  /\ held2[r] = NoBuffer /\ held[r] # NoBuffer
  /\ \A p \in Queues \ {q} : flight2[p] = flight[p]
  /\ \A p \in Queues : \A i \in DOMAIN flight[p] : flight[p][i] # NoBuffer
  /\ \A p \in Queues, v \in Workers : \A i \in DOMAIN pool[p][v] : pool[p][v][i] # NoBuffer
  /\ L \notin DOMAIN flight[q]
  /\ \A i \in DOMAIN flight2[q] : \/ i \in DOMAIN flight[q] /\ flight2[q][i] = flight[q][i]
                                  \/ i = L /\ flight2[q][i] = held[r]

(* Giving up a buffer leaves every buffer in one place.                    *)
LEMMA LeaveList ==
  ASSUME NEW held, NEW flight, NEW pool, OnePlace(held, flight, pool),
         NEW held2, NEW flight2, NEW r \in Recorders, NEW q \in Queues, NEW L,
         Left(held, flight, pool, held2, flight2, r, q, L)
  PROVE  OnePlace(held2, flight2, pool)
<1> USE DEF Left
<1>1. ASSUME NEW p \in Queues, NEW i \in DOMAIN flight2[p]
      PROVE  \/ i \in DOMAIN flight[p] /\ flight2[p][i] = flight[p][i] /\ flight2[p][i] # held[r]
             \/ p = q /\ i = L /\ flight2[p][i] = held[r]
  BY DEF OnePlace
<1>2. \A s, t \in Recorders : held2[s] = held2[t] /\ held2[s] # NoBuffer => s = t
  BY DEF OnePlace
<1>3. ASSUME NEW p \in Queues, NEW s \in Queues, NEW i \in DOMAIN flight2[p], NEW j \in DOMAIN flight2[s],
             flight2[p][i] = flight2[s][j]
      PROVE  p = s /\ i = j
  BY <1>1, <1>3 DEF OnePlace
<1>4. \A s \in Recorders : held2[s] # held[r]
  BY DEF OnePlace
<1>5. ASSUME NEW s \in Recorders, NEW p \in Queues, NEW i \in DOMAIN flight2[p]
      PROVE  held2[s] # flight2[p][i]
  <2>1. \A k \in DOMAIN flight[p] : held2[s] # flight[p][k]
    BY DEF OnePlace
  <2> QED BY <1>1, <1>4, <2>1
<1>6. \A s \in Recorders, p \in Queues, w \in Workers : \A i \in DOMAIN pool[p][w] : held2[s] # pool[p][w][i]
  BY DEF OnePlace
<1>7. ASSUME NEW p \in Queues, NEW s \in Queues, NEW w \in Workers, NEW i \in DOMAIN flight2[p],
             NEW j \in DOMAIN pool[s][w]
      PROVE  flight2[p][i] # pool[s][w][j]
  BY <1>1 DEF OnePlace
<1>8. \A p, s \in Queues, v, w \in Workers : \A i \in DOMAIN pool[p][v], j \in DOMAIN pool[s][w] :
         pool[p][v][i] = pool[s][w][j] => p = s /\ v = w /\ i = j
  BY DEF OnePlace
<1> QED BY <1>2, <1>3, <1>5, <1>6, <1>7, <1>8 DEF OnePlace
-----------------------------------------------------------------------------
(* The steps of the queue.                                                 *)

(* What is in flight or pooled is a buffer.                                *)
LEMMA NoNull ==
  ASSUME CoreType
  PROVE  /\ NoBuffer \notin Buffers
         /\ \A q \in Queues : \A i \in DOMAIN m_commandBuffersInFlight[q] :
              m_commandBuffersInFlight[q][i] \in Buffers /\ m_commandBuffersInFlight[q][i] # NoBuffer
         /\ \A q \in Queues, w \in Workers : \A i \in DOMAIN m_pool[q][w] :
              m_pool[q][w][i] \in Buffers /\ m_pool[q][w][i] # NoBuffer
<1>1. NoBuffer \notin Buffers
  BY QueueAssumption
<1>2. \A q \in Queues : \A i \in DOMAIN m_commandBuffersInFlight[q] : m_commandBuffersInFlight[q][i] \in Buffers
  <2> TAKE q \in Queues
  <2>1. m_commandBuffersInFlight[q] \in Seq(Buffers)
    BY DEF CoreType
  <2> QED BY <2>1
<1>3. \A q \in Queues, w \in Workers : \A i \in DOMAIN m_pool[q][w] : m_pool[q][w][i] \in Buffers
  <2> TAKE q \in Queues, w \in Workers
  <2>1. m_pool[q][w] \in Seq(Buffers)
    BY DEF CoreType
  <2> QED BY <2>1
<1> QED BY <1>1, <1>2, <1>3

(* The values a poll may leave lie between the last one and the timeline.  *)
LEMMA PollValues ==
  ASSUME CoreType, TimelineExact, NEW q \in Queues, NEW fin,
         fin \in updateLastFinishedID(q) \/ fin = m_lastFinishedID[q]
  PROVE  /\ fin \in 0 .. SubmissionLimit
         /\ fin <= gpuDone[q]
<1>1. /\ SubmissionLimit \in Nat
      /\ m_lastFinishedID[q] \in 0 .. SubmissionLimit /\ gpuDone[q] \in 0 .. SubmissionLimit
      /\ m_lastFinishedID[q] <= gpuDone[q]
  BY QueueAssumption DEF CoreType, TimelineExact
<1>2. CASE fin = m_lastFinishedID[q]
  BY <1>1, <1>2
<1>3. CASE fin \in updateLastFinishedID(q)
  BY <1>1, <1>3 DEF updateLastFinishedID
<1> QED BY <1>2, <1>3

(* The entries of a queue's submissions.                                   *)
LEMMA EntryFacts ==
  ASSUME Core, NEW q \in Queues, NEW e \in Range(gpuQueue[q])
  PROVE  /\ e \in Entries /\ e.id > gpuDone[q] /\ e.id \in Nat
         /\ e.buffer # NoBuffer =>
              /\ e.buffer \in Buffers /\ m_submissionID[e.buffer] = e.id
              /\ \E k \in DOMAIN m_commandBuffersInFlight[q] : m_commandBuffersInFlight[q][k] = e.buffer
<1>1. gpuQueue[q] \in Seq(Entries) /\ gpuDone[q] \in Nat
  BY QueueAssumption DEF Core, CoreType
<1>2. PICK i \in DOMAIN gpuQueue[q] : e = gpuQueue[q][i]
  BY DEF Range
<1>3. e \in Entries /\ i \in Nat /\ i >= 1
  BY <1>1, <1>2
<1>4. e.id = gpuDone[q] + i
  BY <1>2 DEF Core, TimelineExact
<1>5. e.buffer # NoBuffer =>
        /\ e.buffer \in Buffers /\ m_submissionID[e.buffer] = e.id
        /\ \E k \in DOMAIN m_commandBuffersInFlight[q] : m_commandBuffersInFlight[q][k] = e.buffer
  BY <1>3 DEF Core, ExecutingRetained, InFlight, Range, Entries
<1> QED BY <1>1, <1>3, <1>4, <1>5

(* Nothing the queue keeps changes.                                        *)
LEMMA SameCore ==
  ASSUME Core, UNCHANGED <<m_lastSubmittedID, m_lastFinishedID, m_commandBuffersInFlight, m_pool,
                           m_submissionID, m_recordingWorkerIndex, m_currentCmdBuf, gpuQueue, gpuDone>>
  PROVE  Core'
<1>1. CoreType'
  BY DEF Core, CoreType
<1>2. TimelineExact' /\ ExecutingRetained'
  BY DEF Core, TimelineExact, ExecutingRetained, InFlight
<1>3. Placed'
  BY DEF Core, Placed, OnePlace
<1> QED BY <1>1, <1>2, <1>3 DEF Core

(* A poll of the timeline.                                                 *)
LEMMA PollCore ==
  ASSUME Core, NEW q \in Queues, NEW fin,
         fin \in updateLastFinishedID(q) \/ fin = m_lastFinishedID[q],
         m_lastFinishedID' = [m_lastFinishedID EXCEPT ![q] = fin],
         UNCHANGED <<m_lastSubmittedID, m_commandBuffersInFlight, m_pool, m_submissionID,
                     m_recordingWorkerIndex, m_currentCmdBuf, gpuQueue, gpuDone>>
  PROVE  Core'
<1>1. fin \in 0 .. SubmissionLimit /\ fin <= gpuDone[q]
  BY PollValues DEF Core
<1>2. CoreType'
  <2>1. m_lastFinishedID' \in [Queues -> 0 .. SubmissionLimit]
    BY <1>1 DEF Core, CoreType
  <2> QED BY <2>1 DEF Core, CoreType
<1>3. \A p \in Queues : m_lastFinishedID'[p] = IF p = q THEN fin ELSE m_lastFinishedID[p]
  BY DEF Core, CoreType
<1>4. TimelineExact'
  BY <1>1, <1>3 DEF Core, TimelineExact
<1>5. ExecutingRetained'
  BY DEF Core, ExecutingRetained, InFlight
<1>6. Placed'
  BY DEF Core, Placed, OnePlace
<1> QED BY <1>2, <1>4, <1>5, <1>6 DEF Core

(* A list gives up the buffer it holds.                                    *)
LEMMA DropCore ==
  ASSUME Core, NEW r \in Recorders, NEW fin, Drop(r, fin)
  PROVE  Core'
<1> DEFINE q == QueueOf[r]
           b == m_currentCmdBuf[r]
<1>1. q \in Queues
  BY QueueAssumption
<1>2. /\ m_lastFinishedID' = [m_lastFinishedID EXCEPT ![q] = fin]
      /\ fin \in updateLastFinishedID(q) \/ fin = m_lastFinishedID[q]
      /\ m_currentCmdBuf' = [m_currentCmdBuf EXCEPT ![r] = NoBuffer]
      /\ m_submissionID' = [c \in Buffers |-> IF c = b THEN 0 ELSE m_submissionID[c]]
      /\ m_recordingWorkerIndex' = [c \in Buffers |-> IF c = b THEN 0 ELSE m_recordingWorkerIndex[c]]
      /\ UNCHANGED <<m_lastSubmittedID, m_commandBuffersInFlight, m_pool, gpuQueue, gpuDone>>
  <2>1. fin \in updateLastFinishedID(q) \/ fin = m_lastFinishedID[q]
    BY DEF Drop, DiscardPoll
  <2> QED BY <2>1 DEF Drop, DiscardPoll
<1>3. fin \in 0 .. SubmissionLimit /\ fin <= gpuDone[q]
  BY <1>1, <1>2, PollValues DEF Core
<1>4. CoreType'
  <2>1. m_lastFinishedID' \in [Queues -> 0 .. SubmissionLimit]
    BY <1>2, <1>3 DEF Core, CoreType
  <2>2. m_currentCmdBuf' \in [Recorders -> Buffers \cup {NoBuffer}]
    BY <1>2 DEF Core, CoreType
  <2>3. m_submissionID' \in [Buffers -> 0 .. SubmissionLimit]
    BY <1>2, QueueAssumption DEF Core, CoreType
  <2>4. m_recordingWorkerIndex' \in [Buffers -> Workers]
    <3>1. 0 \in Workers
      BY DEF Workers
    <3> QED BY <1>2, <3>1 DEF Core, CoreType
  <2> QED BY <1>2, <2>1, <2>2, <2>3, <2>4 DEF Core, CoreType
<1>5. \A p \in Queues : m_lastFinishedID'[p] = IF p = q THEN fin ELSE m_lastFinishedID[p]
  BY <1>2 DEF Core, CoreType
<1>6. TimelineExact'
  BY <1>2, <1>3, <1>5 DEF Core, TimelineExact
<1>7. ExecutingRetained'
  <2> SUFFICES ASSUME NEW p \in Queues, NEW e \in Range(gpuQueue[p]), e.buffer # NoBuffer
               PROVE  e.buffer \in Range(m_commandBuffersInFlight[p]) /\ m_submissionID'[e.buffer] = e.id
    BY <1>2 DEF ExecutingRetained, InFlight
  <2>1. /\ e.buffer \in Buffers /\ m_submissionID[e.buffer] = e.id
        /\ \E k \in DOMAIN m_commandBuffersInFlight[p] : m_commandBuffersInFlight[p][k] = e.buffer
    BY EntryFacts
  <2>2. e.buffer # b
    BY <2>1 DEF Core, Placed, OnePlace
  <2> QED BY <1>2, <2>1, <2>2 DEF Range
<1>8. Placed'
  <2>1. \A s \in Recorders : m_currentCmdBuf'[s] = IF s = r THEN NoBuffer ELSE m_currentCmdBuf[s]
    BY <1>2 DEF Core, CoreType
  <2>2. CASE b = NoBuffer
    <3>1. \A s \in Recorders : m_currentCmdBuf'[s] = m_currentCmdBuf[s]
      BY <2>1, <2>2
    <3> QED BY <1>2, <3>1 DEF Core, Placed, OnePlace
  <2>3. CASE b # NoBuffer
    <3>1. 0 \notin DOMAIN m_commandBuffersInFlight[q]
      <4>1. m_commandBuffersInFlight[q] \in Seq(Buffers)
        BY <1>1 DEF Core, CoreType
      <4> QED BY <4>1
    <3>2. OnePlace(m_currentCmdBuf', m_commandBuffersInFlight, m_pool)
      <4>1. PICK held2 : held2 = m_currentCmdBuf'
        OBVIOUS
      <4>2. Left(m_currentCmdBuf, m_commandBuffersInFlight, m_pool, held2, m_commandBuffersInFlight, r, q, 0)
        BY <1>1, <2>1, <2>3, <3>1, <4>1, NoNull DEF Core, Left
      <4> QED BY <1>1, <4>1, <4>2, LeaveList DEF Core, Placed
    <3> QED BY <1>2, <3>2 DEF Placed
  <2> QED BY <2>2, <2>3
<1> QED BY <1>4, <1>6, <1>7, <1>8 DEF Core

(* Places that hold nothing the queue's places do not hold, every buffer   *)
(* once, and the buffers of the submissions under way still in flight.     *)
Rearranged(flight2, pool2) ==
  /\ flight2 \in [Queues -> Seq(Buffers)] /\ pool2 \in [Queues -> [Workers -> Seq(Buffers)]]
  /\ OnePlace(m_currentCmdBuf, flight2, pool2)
  /\ \A p \in Queues : \A e \in Range(gpuQueue[p]) :
       e.buffer # NoBuffer => \E k \in DOMAIN flight2[p] : flight2[p][k] = e.buffer
  /\ \A p \in Queues, w \in Workers : \A i \in DOMAIN pool2[p][w] :
       \/ \E v \in Workers : \E j \in DOMAIN m_pool[p][v] : pool2[p][w][i] = m_pool[p][v][j]
       \/ \E j \in DOMAIN m_commandBuffersInFlight[p] : pool2[p][w][i] = m_commandBuffersInFlight[p][j]
  /\ \A p \in Queues : \A i \in DOMAIN flight2[p] :
       \E j \in DOMAIN m_commandBuffersInFlight[p] : flight2[p][i] = m_commandBuffersInFlight[p][j]

(* The places once the completed buffers are pooled.                       *)
LEMMA CollectPlaces ==
  ASSUME Core, NEW q \in Queues, NEW fin \in 0 .. SubmissionLimit, fin <= gpuDone[q],
         NEW flight2, flight2 = [m_commandBuffersInFlight EXCEPT ![q] = StillInFlight(q, fin)],
         NEW pool2, pool2 = [m_pool EXCEPT ![q] = recycle(m_pool[q], Completed(q, fin))]
  PROVE  Rearranged(flight2, pool2)
<1> USE DEF Core
<1>1. PICK list \in Seq(Buffers) : list = m_commandBuffersInFlight[q]
  BY DEF CoreType
<1>2. PICK c \in Nat : c = CompletedCount(q, fin)
  BY CollectedSequences
<1>3. PICK done : done = Completed(q, fin)
  OBVIOUS
<1>4. PICK still : still = StillInFlight(q, fin)
  OBVIOUS
<1>5. /\ c <= Len(list) /\ done \in Seq(Buffers) /\ DOMAIN done = 1 .. c
      /\ \A k \in 1 .. c : done[k] = list[k] /\ m_submissionID[list[k]] <= fin
      /\ still \in Seq(Buffers) /\ DOMAIN still = 1 .. Len(list) - c
      /\ \A k \in 1 .. Len(list) - c : still[k] = list[k + c]
  BY <1>1, <1>2, <1>3, <1>4, CollectedSequences
<1>6. Len(list) \in Nat /\ DOMAIN list = 1 .. Len(list)
  OBVIOUS
<1>7. /\ \A k \in DOMAIN done : k \in DOMAIN list /\ done[k] = list[k] /\ k \in Nat /\ k <= c
      /\ \A k \in DOMAIN still : k \in Nat /\ k >= 1 /\ k + c \in DOMAIN list /\ still[k] = list[k + c]
      /\ \A k \in DOMAIN list : k \in Nat
           /\ ((k \in DOMAIN done /\ m_submissionID[list[k]] <= fin) \/ (k - c \in DOMAIN still /\ still[k - c] = list[k]))
  <2>1. \A k \in DOMAIN done : k \in DOMAIN list /\ done[k] = list[k] /\ k \in Nat /\ k <= c
    BY <1>5, <1>6
  <2>2. \A k \in DOMAIN still : k \in Nat /\ k >= 1 /\ k + c \in DOMAIN list /\ still[k] = list[k + c]
    <3> SUFFICES ASSUME NEW k \in DOMAIN still
                 PROVE  k \in Nat /\ k >= 1 /\ k + c \in DOMAIN list /\ still[k] = list[k + c]
      OBVIOUS
    <3>1. k \in 1 .. Len(list) - c
      BY <1>5
    <3>2. k \in Nat /\ k >= 1 /\ k + c \in 1 .. Len(list)
      BY <1>5, <1>6, <3>1
    <3> QED BY <1>5, <1>6, <3>1, <3>2
  <2>3. ASSUME NEW k \in DOMAIN list
        PROVE  /\ k \in Nat
               /\ \/ k \in DOMAIN done /\ m_submissionID[list[k]] <= fin
                  \/ k - c \in DOMAIN still /\ still[k - c] = list[k]
    <3>1. k \in Nat /\ k >= 1 /\ k <= Len(list)
      BY <1>6
    <3>2. CASE k <= c
      <4>1. k \in 1 .. c
        BY <3>1, <3>2
      <4> QED BY <1>5, <3>1, <4>1
    <3>3. CASE ~(k <= c)
      <4>1. k - c \in 1 .. Len(list) - c /\ (k - c) + c = k
        BY <1>5, <1>6, <3>1, <3>3
      <4> QED BY <1>5, <3>1, <4>1
    <3> QED BY <3>2, <3>3
  <2> QED BY <2>1, <2>2, <2>3
<1>8. \A j, k \in DOMAIN list : list[j] = list[k] => j = k
  BY <1>1 DEF Placed, OnePlace
<1>9. PICK P \in [Workers -> Seq(Buffers)] : P = m_pool[q]
  BY DEF CoreType
<1>10. PICK R : R = recycle(P, done)
  OBVIOUS
<1>11. /\ R \in [Workers -> Seq(Buffers)]
       /\ \A w \in Workers :
            /\ \A i \in DOMAIN R[w] :
                 \/ i \in DOMAIN P[w] /\ R[w][i] = P[w][i]
                 \/ m_recordingWorkerIndex[R[w][i]] = w /\ \E k \in DOMAIN done : R[w][i] = done[k]
            /\ \A i, j \in DOMAIN R[w] : (i \notin DOMAIN P[w] /\ j \notin DOMAIN P[w] /\ R[w][i] = R[w][j]) => i = j
  <2>1. \A j, k \in DOMAIN done : done[j] = done[k] => j = k
    BY <1>7, <1>8
  <2>2. /\ recycle(P, done) \in [Workers -> Seq(Buffers)]
        /\ \A w \in Workers :
             /\ \A i \in DOMAIN recycle(P, done)[w] :
                  \/ i \in DOMAIN P[w] /\ recycle(P, done)[w][i] = P[w][i]
                  \/ /\ m_recordingWorkerIndex[recycle(P, done)[w][i]] = w
                     /\ \E k \in DOMAIN done : recycle(P, done)[w][i] = done[k]
             /\ \A i, j \in DOMAIN recycle(P, done)[w] :
                  (i \notin DOMAIN P[w] /\ j \notin DOMAIN P[w]
                     /\ recycle(P, done)[w][i] = recycle(P, done)[w][j]) => i = j
    BY <1>5, <2>1, RecycleFacts
  <2> QED BY <1>10, <2>2
<1>12. /\ flight2 \in [Queues -> Seq(Buffers)] /\ pool2 \in [Queues -> [Workers -> Seq(Buffers)]]
       /\ flight2[q] = still /\ pool2[q] = R
       /\ \A p \in Queues \ {q} : flight2[p] = m_commandBuffersInFlight[p] /\ pool2[p] = m_pool[p]
  <2>1. flight2 = [m_commandBuffersInFlight EXCEPT ![q] = still] /\ pool2 = [m_pool EXCEPT ![q] = R]
    BY <1>3, <1>4, <1>9, <1>10
  <2>2. /\ m_commandBuffersInFlight \in [Queues -> Seq(Buffers)]
        /\ m_pool \in [Queues -> [Workers -> Seq(Buffers)]]
    BY DEF CoreType
  <2> QED BY <1>5, <1>11, <2>1, <2>2
<1>13. OnePlace(m_currentCmdBuf, flight2, pool2)
  <2> DEFINE G == {done[k] : k \in DOMAIN done}
  <2>1. \A b \in G : \E k \in DOMAIN list : b = list[k] /\ k \in DOMAIN done
    BY <1>7
  <2>2. \A r \in Recorders : m_currentCmdBuf[r] \notin G
    <3>1. \A r \in Recorders : \A k \in DOMAIN list : m_currentCmdBuf[r] # list[k]
      BY <1>1 DEF Placed, OnePlace
    <3> QED BY <2>1, <3>1
  <2>3. \A b \in G : /\ b # NoBuffer
                     /\ \A p \in Queues, w \in Workers : \A i \in DOMAIN m_pool[p][w] : m_pool[p][w][i] # b
    <3>1. \A k \in DOMAIN list : list[k] # NoBuffer
      BY <1>1, NoNull
    <3>2. \A k \in DOMAIN list : \A p \in Queues, w \in Workers : \A i \in DOMAIN m_pool[p][w] :
            list[k] # m_pool[p][w][i]
      BY <1>1 DEF Placed, OnePlace
    <3> TAKE b \in G
    <3>3. PICK k \in DOMAIN list : b = list[k]
      BY <2>1
    <3> QED BY <3>1, <3>2, <3>3
  <2>4. \A p \in Queues : \A i \in DOMAIN flight2[p] : flight2[p][i] \notin G /\ flight2[p][i] # NoBuffer
    <3> SUFFICES ASSUME NEW p \in Queues, NEW i \in DOMAIN flight2[p]
                 PROVE  flight2[p][i] \notin G /\ flight2[p][i] # NoBuffer
      OBVIOUS
    <3>1. CASE p = q
      <4>1. i \in Nat /\ i >= 1 /\ i + c \in DOMAIN list /\ flight2[p][i] = list[i + c]
        BY <1>7, <1>12, <3>1
      <4>2. \A k \in DOMAIN done : done[k] = list[k] /\ k \in DOMAIN list /\ k # i + c
        BY <1>7, <4>1
      <4> QED BY <1>1, <1>8, <4>1, <4>2, NoNull
    <3>2. CASE p # q
      <4>1. flight2[p] = m_commandBuffersInFlight[p]
        BY <1>12, <3>2
      <4>2. \A k \in DOMAIN list : m_commandBuffersInFlight[p][i] # list[k]
        BY <1>1, <3>2, <4>1 DEF Placed, OnePlace
      <4> QED BY <2>1, <4>1, <4>2, NoNull
    <3> QED BY <3>1, <3>2
  <2>5. \A w \in Workers :
           /\ \A i \in DOMAIN pool2[q][w] :
                \/ i \in DOMAIN m_pool[q][w] /\ pool2[q][w][i] = m_pool[q][w][i]
                \/ i \notin DOMAIN m_pool[q][w] /\ m_recordingWorkerIndex[pool2[q][w][i]] = w /\ pool2[q][w][i] \in G
           /\ \A i, j \in DOMAIN pool2[q][w] :
                (i \notin DOMAIN m_pool[q][w] /\ j \notin DOMAIN m_pool[q][w]
                   /\ pool2[q][w][i] = pool2[q][w][j]) => i = j
    <3> SUFFICES ASSUME NEW w \in Workers
                 PROVE  /\ \A i \in DOMAIN R[w] :
                             \/ i \in DOMAIN P[w] /\ R[w][i] = P[w][i]
                             \/ i \notin DOMAIN P[w] /\ m_recordingWorkerIndex[R[w][i]] = w /\ R[w][i] \in G
                        /\ \A i, j \in DOMAIN R[w] :
                             (i \notin DOMAIN P[w] /\ j \notin DOMAIN P[w] /\ R[w][i] = R[w][j]) => i = j
      BY <1>9, <1>12
    <3>1. \A i \in DOMAIN P[w] : i \in DOMAIN R[w] => R[w][i] = P[w][i]
      <4>1. R[w] = P[w] \o OfWorker(done, w)
        BY <1>10 DEF recycle
      <4>2. OfWorker(done, w) \in Seq(Buffers) /\ P[w] \in Seq(Buffers)
        BY <1>5, OfWorkerFacts
      <4> QED BY <4>1, <4>2
    <3> QED BY <1>11, <3>1
  <2>6. \A p \in Queues, w \in Workers : \A i \in DOMAIN pool2[p][w] : pool2[p][w][i] # NoBuffer
    <3> TAKE p \in Queues, w \in Workers
    <3>1. pool2[p][w] \in Seq(Buffers)
      BY <1>12
    <3> QED BY <3>1, NoNull
  <2>7. \A i \in DOMAIN flight2[q] : i \in Nat /\ i + c \in DOMAIN m_commandBuffersInFlight[q]
                                     /\ flight2[q][i] = m_commandBuffersInFlight[q][i + c]
    BY <1>1, <1>7, <1>12
  <2>8. \A r \in Recorders : m_currentCmdBuf[r] = NoBuffer
                               \/ (m_currentCmdBuf[r] = m_currentCmdBuf[r] /\ m_currentCmdBuf[r] \notin G)
    BY <2>2
  <2>9. OnePlace(m_currentCmdBuf, m_commandBuffersInFlight, m_pool)
    BY DEF Placed
  <2>10. \A p \in Queues \ {q} : flight2[p] = m_commandBuffersInFlight[p] /\ pool2[p] = m_pool[p]
    BY <1>12
  <2> HIDE DEF G
  <2>11. PICK rec : rec = m_recordingWorkerIndex
    OBVIOUS
  <2>12. Moved(m_currentCmdBuf, m_commandBuffersInFlight, m_pool, m_currentCmdBuf, flight2, pool2, q, c, G, rec)
    BY <2>3, <2>4, <2>5, <2>6, <2>7, <2>8, <2>10, <2>11 DEF Moved
  <2> QED BY <2>9, <2>12, MoveToPools
<1>14. ASSUME NEW p \in Queues, NEW e \in Range(gpuQueue[p]), e.buffer # NoBuffer
       PROVE  \E k \in DOMAIN flight2[p] : flight2[p][k] = e.buffer
  <2>1. PICK k \in DOMAIN m_commandBuffersInFlight[p] : m_commandBuffersInFlight[p][k] = e.buffer
    BY <1>14, EntryFacts
  <2>2. CASE p # q
    BY <1>12, <2>1, <2>2
  <2>3. CASE p = q
    <3>1. m_submissionID[list[k]] > gpuDone[q] /\ m_submissionID[list[k]] \in Nat
      BY <1>1, <1>14, <2>1, <2>3, EntryFacts
    <3>2. gpuDone[q] \in Nat /\ fin \in Nat
      BY QueueAssumption DEF CoreType
    <3>3. ~(m_submissionID[list[k]] <= fin)
      BY <3>1, <3>2
    <3>4. k - c \in DOMAIN still /\ still[k - c] = list[k]
      BY <1>1, <1>7, <2>1, <2>3, <3>3
    <3> QED BY <1>1, <1>12, <2>1, <2>3, <3>4
  <2> QED BY <2>2, <2>3
<1>15. ASSUME NEW p \in Queues, NEW w \in Workers, NEW i \in DOMAIN pool2[p][w]
       PROVE  \/ \E v \in Workers : \E j \in DOMAIN m_pool[p][v] : pool2[p][w][i] = m_pool[p][v][j]
              \/ \E j \in DOMAIN m_commandBuffersInFlight[p] : pool2[p][w][i] = m_commandBuffersInFlight[p][j]
  <2>1. CASE p # q
    BY <1>12, <2>1
  <2>2. CASE p = q
    BY <1>1, <1>7, <1>9, <1>11, <1>12, <2>2
  <2> QED BY <2>1, <2>2
<1>16. ASSUME NEW p \in Queues, NEW i \in DOMAIN flight2[p]
       PROVE  \E j \in DOMAIN m_commandBuffersInFlight[p] : flight2[p][i] = m_commandBuffersInFlight[p][j]
  BY <1>1, <1>7, <1>12
<1> QED BY <1>12, <1>13, <1>14, <1>15, <1>16 DEF Rearranged

(* The retirement of the completed buffers.                                *)
LEMMA CollectCore ==
  ASSUME Core, NEW q \in Queues, NEW fin \in 0 .. SubmissionLimit, fin <= gpuDone[q],
         Collect(q, fin)
  PROVE  Core'
<1> DEFINE flight2 == [m_commandBuffersInFlight EXCEPT ![q] = StillInFlight(q, fin)]
           pool2 == [m_pool EXCEPT ![q] = recycle(m_pool[q], Completed(q, fin))]
<1>0. Rearranged(flight2, pool2)
  BY CollectPlaces
<1>1. /\ m_lastFinishedID' = [m_lastFinishedID EXCEPT ![q] = fin]
      /\ m_commandBuffersInFlight' = flight2 /\ m_pool' = pool2
      /\ UNCHANGED <<m_lastSubmittedID, m_submissionID, m_recordingWorkerIndex,
                     m_currentCmdBuf, gpuQueue, gpuDone>>
  BY DEF Collect
<1>2. /\ flight2 \in [Queues -> Seq(Buffers)] /\ pool2 \in [Queues -> [Workers -> Seq(Buffers)]]
      /\ OnePlace(m_currentCmdBuf, flight2, pool2)
      /\ \A p \in Queues : \A e \in Range(gpuQueue[p]) :
           e.buffer # NoBuffer => \E k \in DOMAIN flight2[p] : flight2[p][k] = e.buffer
  BY <1>0 DEF Rearranged
<1> HIDE DEF flight2, pool2
<1>3. CoreType'
  <2>1. m_lastFinishedID' \in [Queues -> 0 .. SubmissionLimit]
    BY <1>1 DEF Core, CoreType
  <2> QED BY <1>1, <1>2, <2>1 DEF Core, CoreType
<1>4. \A p \in Queues : m_lastFinishedID'[p] = IF p = q THEN fin ELSE m_lastFinishedID[p]
  BY <1>1 DEF Core, CoreType
<1>5. TimelineExact'
  BY <1>1, <1>4 DEF Core, TimelineExact
<1>6. ExecutingRetained'
  <2> SUFFICES ASSUME NEW p \in Queues, NEW e \in Range(gpuQueue[p]), e.buffer # NoBuffer
               PROVE  e.buffer \in Range(flight2[p]) /\ m_submissionID[e.buffer] = e.id
    BY <1>1 DEF ExecutingRetained, InFlight
  <2> QED BY <1>2, EntryFacts DEF Range
<1>7. Placed'
  BY <1>1, <1>2 DEF Placed
<1> QED BY <1>3, <1>5, <1>6, <1>7 DEF Core

(* What a recording gets: the front of its pool, a new address or nothing. *)
LEMMA AcquireFacts ==
  ASSUME NEW pool \in Seq(Buffers), NEW p \in Acquire(pool)
  PROVE  /\ p[2] \in Seq(Buffers) /\ p[1] \in Buffers \cup {NoBuffer}
         /\ \E d \in {0, 1} :
              /\ \A i \in DOMAIN p[2] : /\ i \in Nat /\ i >= 1 /\ i + d \in DOMAIN pool
                                        /\ p[2][i] = pool[i + d]
              /\ \/ p[1] \in Unused \cup {NoBuffer}
                 \/ d = 1 /\ 1 \in DOMAIN pool /\ p[1] = pool[1]
<1>1. Unused \subseteq Buffers
  BY DEF Unused
<1>2. CASE pool = <<>>
  <2>1. PICK b \in Unused \cup {NoBuffer} : p = <<b, pool>>
    BY <1>2 DEF Acquire, Created
  <2>2. p[1] = b /\ p[2] = pool
    BY <2>1
  <2>3. \A i \in DOMAIN pool : i \in Nat /\ i >= 1 /\ i + 0 = i
    OBVIOUS
  <2> QED BY <1>1, <2>2, <2>3
<1>3. CASE pool # <<>>
  <2>1. /\ Tail(pool) \in Seq(Buffers) /\ Head(pool) = pool[1] /\ pool[1] \in Buffers /\ 1 \in DOMAIN pool
        /\ \A i \in DOMAIN Tail(pool) : i \in Nat /\ i >= 1 /\ i + 1 \in DOMAIN pool /\ Tail(pool)[i] = pool[i + 1]
    BY <1>3
  <2>2. p[2] = Tail(pool) /\ (p[1] = Head(pool) \/ p[1] \in Unused \cup {NoBuffer})
    BY <1>3 DEF Acquire, Created
  <2> QED BY <1>1, <2>1, <2>2
<1> QED BY <1>2, <1>3

(* An unused address is nowhere.                                           *)
LEMMA UnusedFacts ==
  ASSUME NEW b \in Unused, CoreType
  PROVE  /\ b # NoBuffer
         /\ \A s \in Recorders : m_currentCmdBuf[s] # b
         /\ \A p \in Queues : \A i \in DOMAIN m_commandBuffersInFlight[p] : m_commandBuffersInFlight[p][i] # b
         /\ \A p \in Queues, v \in Workers : \A i \in DOMAIN m_pool[p][v] : m_pool[p][v][i] # b
<1>1. b \in Buffers /\ b # NoBuffer
  BY QueueAssumption DEF Unused
<1>2. \A s \in Recorders : m_currentCmdBuf[s] # b
  BY <1>1 DEF Unused, Held
<1>3. ASSUME NEW p \in Queues
      PROVE  b \notin InFlight(p) /\ b \notin Pooled(p)
  BY DEF Unused
<1>4. \A p \in Queues : \A i \in DOMAIN m_commandBuffersInFlight[p] : m_commandBuffersInFlight[p][i] # b
  BY <1>3 DEF InFlight, Range
<1>5. ASSUME NEW p \in Queues, NEW v \in Workers, NEW i \in DOMAIN m_pool[p][v]
      PROVE  m_pool[p][v][i] # b
  <2>1. b \notin Range(m_pool[p][v])
    BY <1>3 DEF Pooled
  <2> QED BY <2>1 DEF Range
<1> QED BY <1>1, <1>2, <1>4, <1>5

(* A list takes a buffer from its pool once the places are flight2 and     *)
(* pool2, which hold nothing that the old ones did not.                    *)
LEMMA HoldCore ==
  ASSUME Core, NEW r \in Recorders, NEW b, NEW q \in Queues, NEW w \in Workers, w = WorkerOf[r],
         NEW fin \in 0 .. SubmissionLimit, fin <= gpuDone[q],
         NEW flight2, NEW pool2, Rearranged(flight2, pool2),
         NEW rest, <<b, rest>> \in Acquire(pool2[q][w]),
         m_pool' = [pool2 EXCEPT ![q] = [pool2[q] EXCEPT ![w] = rest]],
         m_commandBuffersInFlight' = flight2,
         m_lastFinishedID' = [m_lastFinishedID EXCEPT ![q] = fin],
         Hold(r, b)
  PROVE  Core'
<1>0. /\ flight2 \in [Queues -> Seq(Buffers)] /\ pool2 \in [Queues -> [Workers -> Seq(Buffers)]]
      /\ OnePlace(m_currentCmdBuf, flight2, pool2)
  BY DEF Rearranged
<1>1. /\ m_currentCmdBuf' = [m_currentCmdBuf EXCEPT ![r] = b]
      /\ m_recordingWorkerIndex' = IF b = NoBuffer THEN m_recordingWorkerIndex
                                   ELSE [m_recordingWorkerIndex EXCEPT ![b] = w]
      /\ UNCHANGED <<m_lastSubmittedID, m_submissionID, gpuQueue, gpuDone>>
  BY DEF Hold
<1>2. PICK old \in Seq(Buffers) : old = pool2[q][w]
  BY <1>0
<1>3. PICK pair : pair = <<b, rest>> /\ pair \in Acquire(old)
  BY <1>2
<1>4. pair[1] = b /\ pair[2] = rest
  BY <1>3
<1>5. rest \in Seq(Buffers) /\ b \in Buffers \cup {NoBuffer}
  BY <1>3, <1>4, AcquireFacts
<1>6. PICK d \in {0, 1} :
        /\ \A i \in DOMAIN rest : i \in Nat /\ i >= 1 /\ i + d \in DOMAIN old /\ rest[i] = old[i + d]
        /\ \/ b \in Unused \cup {NoBuffer}
           \/ d = 1 /\ 1 \in DOMAIN old /\ b = old[1]
  BY <1>3, <1>4, AcquireFacts
<1>7. CoreType'
  <2>1. m_lastFinishedID' \in [Queues -> 0 .. SubmissionLimit]
    BY DEF Core, CoreType
  <2>2. m_pool' \in [Queues -> [Workers -> Seq(Buffers)]]
    BY <1>0, <1>5
  <2>3. m_currentCmdBuf' \in [Recorders -> Buffers \cup {NoBuffer}]
    BY <1>1, <1>5 DEF Core, CoreType
  <2>4. m_recordingWorkerIndex' \in [Buffers -> Workers]
    <3>1. CASE b = NoBuffer
      BY <1>1, <3>1 DEF Core, CoreType
    <3>2. CASE b # NoBuffer
      BY <1>1, <1>5, <3>2 DEF Core, CoreType
    <3> QED BY <3>1, <3>2
  <2> QED BY <1>0, <1>1, <2>1, <2>2, <2>3, <2>4 DEF Core, CoreType
<1>8. \A p \in Queues : m_lastFinishedID'[p] = IF p = q THEN fin ELSE m_lastFinishedID[p]
  BY DEF Core, CoreType
<1>9. TimelineExact'
  BY <1>1, <1>8 DEF Core, TimelineExact
<1>10. ExecutingRetained'
  <2> SUFFICES ASSUME NEW p \in Queues, NEW e \in Range(gpuQueue[p]), e.buffer # NoBuffer
               PROVE  e.buffer \in Range(flight2[p]) /\ m_submissionID[e.buffer] = e.id
    BY <1>1 DEF ExecutingRetained, InFlight
  <2> QED BY EntryFacts DEF Range, Rearranged
<1>11. Placed'
  <2>1. PICK held2 : held2 = m_currentCmdBuf'
    OBVIOUS
  <2>2. PICK pool3 : pool3 = m_pool'
    OBVIOUS
  <2>3. (\A s \in Recorders \ {r} : held2[s] = m_currentCmdBuf[s]) /\ held2[r] = b
    BY <1>1, <2>1 DEF Core, CoreType
  <2>4. \A p \in Queues, v \in Workers : (p # q \/ v # w) => pool3[p][v] = pool2[p][v]
    BY <1>0, <2>2
  <2>5. \A i \in DOMAIN pool3[q][w] : i \in Nat /\ i >= 1 /\ i + d \in DOMAIN pool2[q][w] /\ pool3[q][w][i] = pool2[q][w][i + d]
    <3>1. pool3[q][w] = rest
      BY <1>0, <1>5, <2>2
    <3> QED BY <1>2, <1>6, <3>1
  <2>6. \A p \in Queues : \A i \in DOMAIN flight2[p] : flight2[p][i] # NoBuffer
    BY NoNull DEF Core, Rearranged
  <2>7. \A p \in Queues, v \in Workers : \A i \in DOMAIN pool2[p][v] : pool2[p][v][i] # NoBuffer
    BY NoNull DEF Core, Rearranged
  <2>8. \/ b = NoBuffer
        \/ d = 1 /\ 1 \in DOMAIN pool2[q][w] /\ b = pool2[q][w][1]
        \/ /\ \A s \in Recorders : m_currentCmdBuf[s] # b
           /\ \A p \in Queues : \A i \in DOMAIN flight2[p] : flight2[p][i] # b
           /\ \A p \in Queues, v \in Workers : \A i \in DOMAIN pool2[p][v] : pool2[p][v][i] # b
    <3>1. CASE b \in Unused
      <4>1. /\ \A s \in Recorders : m_currentCmdBuf[s] # b
            /\ \A p \in Queues : \A i \in DOMAIN m_commandBuffersInFlight[p] : m_commandBuffersInFlight[p][i] # b
            /\ \A p \in Queues, v \in Workers : \A i \in DOMAIN m_pool[p][v] : m_pool[p][v][i] # b
        BY <3>1, UnusedFacts DEF Core
      <4>2. ASSUME NEW p \in Queues, NEW i \in DOMAIN flight2[p]
            PROVE  flight2[p][i] # b
        <5>1. \E j \in DOMAIN m_commandBuffersInFlight[p] : flight2[p][i] = m_commandBuffersInFlight[p][j]
          BY DEF Rearranged
        <5> QED BY <4>1, <5>1
      <4>3. ASSUME NEW p \in Queues, NEW v \in Workers, NEW i \in DOMAIN pool2[p][v]
            PROVE  pool2[p][v][i] # b
        <5>1. \/ \E u \in Workers : \E j \in DOMAIN m_pool[p][u] : pool2[p][v][i] = m_pool[p][u][j]
              \/ \E j \in DOMAIN m_commandBuffersInFlight[p] : pool2[p][v][i] = m_commandBuffersInFlight[p][j]
          BY DEF Rearranged
        <5> QED BY <4>1, <5>1
      <4> QED BY <4>1, <4>2, <4>3
    <3> QED BY <1>2, <1>6, <3>1
  <2>9. OnePlace(held2, flight2, pool3)
    <3>1. Taken(m_currentCmdBuf, flight2, pool2, held2, pool3, r, q, w, b, d)
      BY <2>3, <2>4, <2>5, <2>6, <2>7, <2>8 DEF Taken
    <3> QED BY <1>0, <3>1, TakeFromPool
  <2> QED BY <2>1, <2>2, <2>9 DEF Placed
<1> QED BY <1>7, <1>9, <1>10, <1>11 DEF Core

(* A direct recording polls, collects and takes a buffer.                  *)
LEMMA DirectCore ==
  ASSUME Core, NEW r \in Recorders, NEW fin, NEW b, getOrCreateDirectCommandBuffer(r, fin, b)
  PROVE  Core'
<1>1. PICK q \in Queues : q = QueueOf[r]
  BY QueueAssumption
<1>2. 0 \in Workers /\ WorkerOf[r] = 0
  BY DEF Workers, getOrCreateDirectCommandBuffer
<1>3. fin \in 0 .. SubmissionLimit /\ fin <= gpuDone[q]
  BY <1>1, PollValues DEF Core, getOrCreateDirectCommandBuffer
<1>4. PICK flight2 : flight2 = [m_commandBuffersInFlight EXCEPT ![q] = StillInFlight(q, fin)]
  OBVIOUS
<1>5. PICK pool2 : pool2 = [m_pool EXCEPT ![q] = recycle(m_pool[q], Completed(q, fin))]
  OBVIOUS
<1>6. Rearranged(flight2, pool2)
  BY <1>3, <1>4, <1>5, CollectPlaces
<1>7. PICK coll : coll = recycle(m_pool[q], Completed(q, fin))
  OBVIOUS
<1>8. PICK p \in Acquire(coll[0]) : p[1] = b /\ m_pool' = [m_pool EXCEPT ![q] = [coll EXCEPT ![0] = p[2]]]
  BY <1>1, <1>7 DEF getOrCreateDirectCommandBuffer
<1>9. pool2[q] = coll /\ m_pool \in [Queues -> [Workers -> Seq(Buffers)]]
  BY <1>5, <1>7 DEF Core, CoreType
<1>10. p = <<b, p[2]>>
  BY <1>8 DEF Acquire, Created
<1>11. m_pool' = [pool2 EXCEPT ![q] = [pool2[q] EXCEPT ![0] = p[2]]]
  BY <1>5, <1>7, <1>8, <1>9
<1>12. /\ m_commandBuffersInFlight' = flight2
       /\ m_lastFinishedID' = [m_lastFinishedID EXCEPT ![q] = fin] /\ Hold(r, b)
  BY <1>1, <1>4 DEF getOrCreateDirectCommandBuffer
<1>13. PICK rest : rest = p[2]
  OBVIOUS
<1>14. <<b, rest>> \in Acquire(pool2[q][0]) /\ m_pool' = [pool2 EXCEPT ![q] = [pool2[q] EXCEPT ![0] = rest]]
  BY <1>8, <1>9, <1>10, <1>11, <1>13
<1> QED BY <1>2, <1>3, <1>6, <1>12, <1>14, HoldCore

(* A worker's recording takes a buffer from its own arena.                 *)
LEMMA WorkerCore ==
  ASSUME Core, NEW r \in Recorders, NEW b, getOrCreateWorkerCommandBuffer(r, b)
  PROVE  Core'
<1>1. PICK q \in Queues : q = QueueOf[r]
  BY QueueAssumption
<1>2. PICK w \in Workers : w = WorkerOf[r]
  BY DEF Workers
<1>3. PICK fin : fin = m_lastFinishedID[q]
  OBVIOUS
<1>4. fin \in 0 .. SubmissionLimit /\ fin <= gpuDone[q]
  BY <1>3, PollValues DEF Core
<1>5. PICK flight2 : flight2 = m_commandBuffersInFlight
  OBVIOUS
<1>6. PICK pool2 : pool2 = m_pool
  OBVIOUS
<1>7. Rearranged(flight2, pool2)
  <2>1. \A p \in Queues : \A e \in Range(gpuQueue[p]) :
          e.buffer # NoBuffer => \E k \in DOMAIN flight2[p] : flight2[p][k] = e.buffer
    BY <1>5, EntryFacts
  <2>2. flight2 \in [Queues -> Seq(Buffers)] /\ pool2 \in [Queues -> [Workers -> Seq(Buffers)]]
    BY <1>5, <1>6 DEF Core, CoreType
  <2>3. OnePlace(m_currentCmdBuf, flight2, pool2)
    BY <1>5, <1>6 DEF Core, Placed
  <2> QED BY <1>5, <1>6, <2>1, <2>2, <2>3 DEF Rearranged
<1>8. PICK p \in Acquire(m_pool[q][w]) : p[1] = b /\ m_pool' = [m_pool EXCEPT ![q][w] = p[2]]
  BY <1>1, <1>2 DEF getOrCreateWorkerCommandBuffer
<1>9. p = <<b, p[2]>>
  BY <1>8 DEF Acquire, Created
<1>10. PICK rest : rest = p[2]
  OBVIOUS
<1>11. <<b, rest>> \in Acquire(pool2[q][w]) /\ m_pool' = [pool2 EXCEPT ![q] = [pool2[q] EXCEPT ![w] = rest]]
  BY <1>6, <1>8, <1>9, <1>10
<1>12. m_commandBuffersInFlight' = flight2 /\ Hold(r, b) /\ m_lastFinishedID' = m_lastFinishedID
  BY <1>5 DEF getOrCreateWorkerCommandBuffer
<1>13. m_lastFinishedID' = [m_lastFinishedID EXCEPT ![q] = fin]
  BY <1>3, <1>12 DEF Core, CoreType
<1> QED BY <1>2, <1>4, <1>7, <1>11, <1>12, <1>13, HoldCore

(* What a submission detaches: the list's buffer, if it names one.         *)
LEMMA DetachFacts ==
  ASSUME Core, NEW r \in Recorders, NEW withList \in BOOLEAN, CanSubmit(r, withList), Detach(r, withList),
         NEW b, b = SubmittedBuffer(r, withList)
  PROVE  /\ b \in Buffers \cup {NoBuffer}
         /\ b # NoBuffer => b = m_currentCmdBuf[r]
         /\ \A s \in Recorders : m_currentCmdBuf'[s] = IF s = r /\ b # NoBuffer THEN NoBuffer ELSE m_currentCmdBuf[s]
         /\ m_currentCmdBuf' \in [Recorders -> Buffers \cup {NoBuffer}]
         /\ \A c \in Buffers : m_submissionID'[c] = IF c = b THEN m_lastSubmittedID[QueueOf[r]] + 1 ELSE m_submissionID[c]
         /\ m_submissionID' \in [Buffers -> 0 .. SubmissionLimit]
         /\ m_lastSubmittedID[QueueOf[r]] + 1 \in Ids
         /\ \A p \in Queues : \A e \in Range(gpuQueue[p]) : e.buffer # NoBuffer => e.buffer # b
<1>1. QueueOf[r] \in Queues /\ SubmissionLimit \in Nat
  BY QueueAssumption
<1>2. PICK id : id = m_lastSubmittedID[QueueOf[r]] + 1
  OBVIOUS
<1>3. id \in Ids /\ id \in 0 .. SubmissionLimit
  BY <1>1, <1>2 DEF CanSubmit, Core, CoreType, Ids
<1>4. b \in Buffers \cup {NoBuffer} /\ (b # NoBuffer => b = m_currentCmdBuf[r])
  BY DEF SubmittedBuffer, Core, CoreType
<1>5. /\ m_currentCmdBuf' = IF b = NoBuffer THEN m_currentCmdBuf ELSE [m_currentCmdBuf EXCEPT ![r] = NoBuffer]
      /\ m_submissionID' = IF b = NoBuffer THEN m_submissionID ELSE [m_submissionID EXCEPT ![b] = id]
  BY <1>2 DEF Detach
<1>6. /\ m_currentCmdBuf \in [Recorders -> Buffers \cup {NoBuffer}] /\ m_submissionID \in [Buffers -> 0 .. SubmissionLimit]
      /\ NoBuffer \notin Buffers
  BY QueueAssumption DEF Core, CoreType
<1>7. ASSUME NEW p \in Queues, NEW e \in Range(gpuQueue[p]), e.buffer # NoBuffer
      PROVE  e.buffer # b
  <2>1. PICK k \in DOMAIN m_commandBuffersInFlight[p] : m_commandBuffersInFlight[p][k] = e.buffer
    BY <1>7, EntryFacts
  <2> QED BY <1>4, <1>7, <2>1 DEF Core, Placed, OnePlace
<1>8. CASE b = NoBuffer
  BY <1>2, <1>3, <1>4, <1>5, <1>6, <1>7, <1>8
<1>9. CASE b # NoBuffer
  <2>1. b \in Buffers /\ b = m_currentCmdBuf[r]
    BY <1>4, <1>9
  <2>2. m_currentCmdBuf' = [m_currentCmdBuf EXCEPT ![r] = NoBuffer] /\ m_submissionID' = [m_submissionID EXCEPT ![b] = id]
    BY <1>5, <1>9
  <2>3. /\ \A s \in Recorders : m_currentCmdBuf'[s] = IF s = r THEN NoBuffer ELSE m_currentCmdBuf[s]
        /\ m_currentCmdBuf' \in [Recorders -> Buffers \cup {NoBuffer}]
    BY <1>6, <2>2
  <2>4. /\ \A c \in Buffers : m_submissionID'[c] = IF c = b THEN id ELSE m_submissionID[c]
        /\ m_submissionID' \in [Buffers -> 0 .. SubmissionLimit]
    BY <1>3, <1>6, <2>1, <2>2
  <2> QED BY <1>2, <1>3, <1>7, <1>9, <2>1, <2>3, <2>4
<1> QED BY <1>8, <1>9

(* A submission the driver rejects: the buffer goes back to its pool.      *)
LEMMA RejectedCore ==
  ASSUME Core, NEW r \in Recorders, NEW withList \in BOOLEAN, NEW after, SubmitRejected(r, withList, after)
  PROVE  Core'
<1>1. PICK q \in Queues : q = QueueOf[r]
  BY QueueAssumption
<1>2. PICK b : b = SubmittedBuffer(r, withList)
  OBVIOUS
<1>3. /\ CanSubmit(r, withList) /\ Detach(r, withList)
      /\ m_pool' = [m_pool EXCEPT ![q] = recycle(m_pool[q], DetachedList(r, withList))]
      /\ UNCHANGED <<m_lastSubmittedID, m_lastFinishedID, m_commandBuffersInFlight,
                     m_recordingWorkerIndex, gpuQueue, gpuDone>>
  BY <1>1 DEF SubmitRejected
<1>4. /\ b \in Buffers \cup {NoBuffer}
      /\ b # NoBuffer => b = m_currentCmdBuf[r]
      /\ \A s \in Recorders : m_currentCmdBuf'[s] = IF s = r /\ b # NoBuffer THEN NoBuffer ELSE m_currentCmdBuf[s]
      /\ m_currentCmdBuf' \in [Recorders -> Buffers \cup {NoBuffer}]
      /\ \A c \in Buffers : c # b => m_submissionID'[c] = m_submissionID[c]
      /\ m_submissionID' \in [Buffers -> 0 .. SubmissionLimit]
      /\ \A p \in Queues : \A e \in Range(gpuQueue[p]) : e.buffer # NoBuffer => e.buffer # b
  BY <1>2, <1>3, DetachFacts
<1>5. PICK list : list = DetachedList(r, withList)
  OBVIOUS
<1>6. list \in Seq(Buffers) /\ \A k \in DOMAIN list : k = 1 /\ list[k] = b /\ b # NoBuffer
  BY <1>2, <1>4, <1>5 DEF DetachedList
<1>7. PICK P \in [Workers -> Seq(Buffers)] : P = m_pool[q]
  BY DEF Core, CoreType
<1>8. PICK R : R = recycle(P, list)
  OBVIOUS
<1>9. /\ R \in [Workers -> Seq(Buffers)]
      /\ \A w \in Workers :
           /\ \A i \in DOMAIN R[w] :
                \/ i \in DOMAIN P[w] /\ R[w][i] = P[w][i]
                \/ m_recordingWorkerIndex[R[w][i]] = w /\ \E k \in DOMAIN list : R[w][i] = list[k]
           /\ \A i, j \in DOMAIN R[w] : (i \notin DOMAIN P[w] /\ j \notin DOMAIN P[w] /\ R[w][i] = R[w][j]) => i = j
  <2>1. \A j, k \in DOMAIN list : list[j] = list[k] => j = k
    BY <1>6
  <2>2. /\ recycle(P, list) \in [Workers -> Seq(Buffers)]
        /\ \A w \in Workers :
             /\ \A i \in DOMAIN recycle(P, list)[w] :
                  \/ i \in DOMAIN P[w] /\ recycle(P, list)[w][i] = P[w][i]
                  \/ /\ m_recordingWorkerIndex[recycle(P, list)[w][i]] = w
                     /\ \E k \in DOMAIN list : recycle(P, list)[w][i] = list[k]
             /\ \A i, j \in DOMAIN recycle(P, list)[w] :
                  (i \notin DOMAIN P[w] /\ j \notin DOMAIN P[w]
                     /\ recycle(P, list)[w][i] = recycle(P, list)[w][j]) => i = j
    BY <1>6, <2>1, RecycleFacts
  <2> QED BY <1>8, <2>2
<1>10. PICK pool2 : pool2 = m_pool'
  OBVIOUS
<1>11. pool2 = [m_pool EXCEPT ![q] = R] /\ m_pool \in [Queues -> [Workers -> Seq(Buffers)]]
  BY <1>3, <1>5, <1>7, <1>8, <1>10 DEF Core, CoreType
<1>12. /\ pool2 \in [Queues -> [Workers -> Seq(Buffers)]] /\ pool2[q] = R
       /\ \A p \in Queues \ {q} : pool2[p] = m_pool[p]
  BY <1>9, <1>11
<1>13. CoreType'
  BY <1>3, <1>4, <1>10, <1>12 DEF Core, CoreType
<1>14. TimelineExact'
  BY <1>3 DEF Core, TimelineExact
<1>15. ExecutingRetained'
  <2> SUFFICES ASSUME NEW p \in Queues, NEW e \in Range(gpuQueue[p]), e.buffer # NoBuffer
               PROVE  e.buffer \in Range(m_commandBuffersInFlight[p]) /\ m_submissionID'[e.buffer] = e.id
    BY <1>3 DEF ExecutingRetained, InFlight
  <2> QED BY <1>4, EntryFacts DEF Range
<1>16. Placed'
  <2> DEFINE G == {b} \ {NoBuffer}
  <2>1. PICK held2 : held2 = m_currentCmdBuf'
    OBVIOUS
  <2>2. PICK rec : rec = m_recordingWorkerIndex
    OBVIOUS
  <2>3. OnePlace(m_currentCmdBuf, m_commandBuffersInFlight, m_pool)
    BY DEF Core, Placed
  <2>4. \A s \in Recorders : held2[s] = NoBuffer \/ (held2[s] = m_currentCmdBuf[s] /\ m_currentCmdBuf[s] \notin G)
    BY <1>4, <2>1, <2>3 DEF OnePlace
  <2>5. \A x \in G : /\ x # NoBuffer
                     /\ \A p \in Queues, w \in Workers : \A i \in DOMAIN m_pool[p][w] : m_pool[p][w][i] # x
    <3>1. b # NoBuffer => \A p \in Queues, w \in Workers : \A i \in DOMAIN m_pool[p][w] : b # m_pool[p][w][i]
      BY <1>4, <2>3 DEF OnePlace
    <3> QED BY <3>1
  <2>6. \A p \in Queues : \A i \in DOMAIN m_commandBuffersInFlight[p] :
          m_commandBuffersInFlight[p][i] \notin G /\ m_commandBuffersInFlight[p][i] # NoBuffer
    BY <1>4, <2>3, NoNull DEF OnePlace, Core
  <2>7. \A p \in Queues \ {q} : m_commandBuffersInFlight[p] = m_commandBuffersInFlight[p] /\ pool2[p] = m_pool[p]
    BY <1>12
  <2>8. \A i \in DOMAIN m_commandBuffersInFlight[q] :
          /\ i \in Nat /\ i + 0 \in DOMAIN m_commandBuffersInFlight[q]
          /\ m_commandBuffersInFlight[q][i] = m_commandBuffersInFlight[q][i + 0]
    <3>1. m_commandBuffersInFlight[q] \in Seq(Buffers)
      BY DEF Core, CoreType
    <3>2. \A i \in DOMAIN m_commandBuffersInFlight[q] : i \in Nat /\ i + 0 = i
      BY <3>1
    <3> QED BY <3>2
  <2>9. \A p \in Queues, w \in Workers : \A i \in DOMAIN pool2[p][w] : pool2[p][w][i] # NoBuffer
    <3> TAKE p \in Queues, w \in Workers
    <3>1. pool2[p][w] \in Seq(Buffers)
      BY <1>12
    <3> QED BY <3>1, QueueAssumption
  <2>10. \A w \in Workers :
           /\ \A i \in DOMAIN pool2[q][w] :
                \/ i \in DOMAIN m_pool[q][w] /\ pool2[q][w][i] = m_pool[q][w][i]
                \/ i \notin DOMAIN m_pool[q][w] /\ rec[pool2[q][w][i]] = w /\ pool2[q][w][i] \in G
           /\ \A i, j \in DOMAIN pool2[q][w] :
                (i \notin DOMAIN m_pool[q][w] /\ j \notin DOMAIN m_pool[q][w]
                   /\ pool2[q][w][i] = pool2[q][w][j]) => i = j
    <3> SUFFICES ASSUME NEW w \in Workers
                 PROVE  /\ \A i \in DOMAIN R[w] :
                             \/ i \in DOMAIN P[w] /\ R[w][i] = P[w][i]
                             \/ i \notin DOMAIN P[w] /\ rec[R[w][i]] = w /\ R[w][i] \in G
                        /\ \A i, j \in DOMAIN R[w] :
                             (i \notin DOMAIN P[w] /\ j \notin DOMAIN P[w] /\ R[w][i] = R[w][j]) => i = j
      BY <1>7, <1>12
    <3>1. \A i \in DOMAIN P[w] : i \in DOMAIN R[w] => R[w][i] = P[w][i]
      <4>1. R[w] = P[w] \o OfWorker(list, w)
        BY <1>8 DEF recycle
      <4>2. OfWorker(list, w) \in Seq(Buffers) /\ P[w] \in Seq(Buffers)
        BY <1>6, OfWorkerFacts
      <4> QED BY <4>1, <4>2
    <3>2. \A k \in DOMAIN list : list[k] \in G
      BY <1>6
    <3> QED BY <1>9, <2>2, <3>1, <3>2
  <2> HIDE DEF G
  <2>11. Moved(m_currentCmdBuf, m_commandBuffersInFlight, m_pool, held2, m_commandBuffersInFlight, pool2, q, 0, G, rec)
    BY <2>4, <2>5, <2>6, <2>7, <2>8, <2>9, <2>10 DEF Moved
  <2>12. OnePlace(held2, m_commandBuffersInFlight, pool2)
    BY <2>3, <2>11, MoveToPools
  <2> QED BY <1>3, <1>10, <2>1, <2>12 DEF Placed
<1> QED BY <1>13, <1>14, <1>15, <1>16 DEF Core

(* A submission the driver accepts: its buffer is in flight under its id.  *)
LEMMA AcceptedCore ==
  ASSUME Core, CallType, NEW r \in Recorders, NEW withList \in BOOLEAN, NEW after,
         SubmitAccepted(r, withList, after)
  PROVE  Core'
<1>1. PICK q \in Queues : q = QueueOf[r]
  BY QueueAssumption
<1>2. PICK b : b = SubmittedBuffer(r, withList)
  OBVIOUS
<1>3. PICK id : id = m_lastSubmittedID[q] + 1
  OBVIOUS
<1>4. PICK entry : entry = [id |-> id, buffer |-> b, waits |-> Waits(r)]
  OBVIOUS
<1>5. /\ CanSubmit(r, withList) /\ Detach(r, withList)
      /\ m_lastSubmittedID' = [m_lastSubmittedID EXCEPT ![q] = id]
      /\ m_commandBuffersInFlight' =
           [m_commandBuffersInFlight EXCEPT ![q] = m_commandBuffersInFlight[q] \o DetachedList(r, withList)]
      /\ gpuQueue' = [gpuQueue EXCEPT ![q] = Append(gpuQueue[q], entry)]
      /\ UNCHANGED <<m_lastFinishedID, m_pool, m_recordingWorkerIndex, gpuDone>>
  BY <1>1, <1>2, <1>3, <1>4 DEF SubmitAccepted
<1>6. /\ b \in Buffers \cup {NoBuffer}
      /\ b # NoBuffer => b = m_currentCmdBuf[r]
      /\ \A s \in Recorders : m_currentCmdBuf'[s] = IF s = r /\ b # NoBuffer THEN NoBuffer ELSE m_currentCmdBuf[s]
      /\ m_currentCmdBuf' \in [Recorders -> Buffers \cup {NoBuffer}]
      /\ \A c \in Buffers : m_submissionID'[c] = IF c = b THEN id ELSE m_submissionID[c]
      /\ m_submissionID' \in [Buffers -> 0 .. SubmissionLimit]
      /\ id \in Ids
      /\ \A p \in Queues : \A e \in Range(gpuQueue[p]) : e.buffer # NoBuffer => e.buffer # b
  BY <1>1, <1>2, <1>3, <1>5, DetachFacts
<1>7. PICK old \in Seq(Buffers) : old = m_commandBuffersInFlight[q]
  BY DEF Core, CoreType
<1>8. PICK new : new = old \o DetachedList(r, withList)
  OBVIOUS
<1>9. PICK L \in Nat : L = Len(old) + 1
  BY <1>7
<1>10. /\ new \in Seq(Buffers) /\ L \notin DOMAIN old
       /\ \A i \in DOMAIN old : i \in DOMAIN new /\ new[i] = old[i]
       /\ \A i \in DOMAIN new : (i \in DOMAIN old /\ new[i] = old[i]) \/ (i = L /\ new[i] = b /\ b # NoBuffer)
       /\ b # NoBuffer => L \in DOMAIN new /\ new[L] = b
  <2>1. CASE b = NoBuffer
    <3>1. new = old \o <<>>
      BY <1>2, <1>8, <2>1 DEF DetachedList
    <3> QED BY <1>9, <2>1, <3>1
  <2>2. CASE b # NoBuffer
    <3>1. new = old \o <<b>> /\ b \in Buffers
      BY <1>2, <1>6, <1>8, <2>2 DEF DetachedList
    <3> QED BY <1>9, <2>2, <3>1
  <2> QED BY <2>1, <2>2
<1>11. PICK flight2 : flight2 = m_commandBuffersInFlight'
  OBVIOUS
<1>12. /\ flight2 \in [Queues -> Seq(Buffers)] /\ flight2[q] = new
       /\ \A p \in Queues \ {q} : flight2[p] = m_commandBuffersInFlight[p]
  <2>1. flight2 = [m_commandBuffersInFlight EXCEPT ![q] = new]
    BY <1>5, <1>7, <1>8, <1>11
  <2> QED BY <1>10, <2>1 DEF Core, CoreType
<1>13. PICK queue \in Seq(Entries) : queue = gpuQueue[q]
  BY DEF Core, CoreType
<1>14. entry \in Entries /\ entry.id = id /\ entry.buffer = b
  <2>1. Waits(r) \in SUBSET Tokens
    BY <1>1 DEF Waits, CallType
  <2> QED BY <1>4, <1>6, <2>1 DEF Entries
<1>15. PICK queue2 : queue2 = Append(queue, entry)
  OBVIOUS
<1>16. PICK M \in Nat : M = Len(queue) + 1
  OBVIOUS
<1>17. /\ queue2 \in Seq(Entries) /\ Len(queue2) = M /\ DOMAIN queue2 = 1 .. M /\ queue2[M] = entry
       /\ \A i \in 1 .. M : i # M => i \in DOMAIN queue /\ queue2[i] = queue[i]
  BY <1>14, <1>15, <1>16
<1>18. /\ gpuQueue' \in [Queues -> Seq(Entries)] /\ gpuQueue'[q] = queue2
       /\ \A p \in Queues \ {q} : gpuQueue'[p] = gpuQueue[p]
  BY <1>5, <1>13, <1>15, <1>17 DEF Core, CoreType
<1>19. CoreType'
  <2>1. m_lastSubmittedID' \in [Queues -> 0 .. SubmissionLimit]
    <3>1. id \in 0 .. SubmissionLimit
      BY <1>6, QueueAssumption DEF Ids
    <3> QED BY <1>5, <3>1 DEF Core, CoreType
  <2> QED BY <1>5, <1>6, <1>11, <1>12, <1>18, <2>1 DEF Core, CoreType
<1>20. TimelineExact'
  <2> SUFFICES ASSUME NEW p \in Queues
               PROVE  /\ m_lastFinishedID[p] <= gpuDone[p]
                      /\ m_lastSubmittedID'[p] = gpuDone[p] + Len(gpuQueue'[p])
                      /\ \A i \in DOMAIN gpuQueue'[p] : gpuQueue'[p][i].id = gpuDone[p] + i
    BY <1>5 DEF TimelineExact
  <2>1. CASE p # q
    BY <1>5, <1>18, <2>1 DEF Core, CoreType, TimelineExact
  <2>2. CASE p = q
    <3>1. /\ m_lastSubmittedID[q] = gpuDone[q] + Len(queue) /\ gpuDone[q] \in Nat /\ Len(queue) \in Nat
          /\ \A i \in DOMAIN queue : queue[i].id = gpuDone[q] + i
          /\ m_lastFinishedID[q] <= gpuDone[q]
      <4>1. gpuDone[q] \in Nat /\ Len(queue) \in Nat
        BY <1>13, QueueAssumption DEF Core, CoreType
      <4> QED BY <1>13, <4>1 DEF Core, TimelineExact
    <3>2. m_lastSubmittedID'[q] = id /\ id = gpuDone[q] + M
      BY <1>3, <1>5, <1>16, <3>1 DEF Core, CoreType
    <3>3. \A i \in DOMAIN queue2 : queue2[i].id = gpuDone[q] + i
      BY <1>14, <1>17, <3>1, <3>2
    <3> QED BY <1>17, <1>18, <2>2, <3>1, <3>2, <3>3
  <2> QED BY <2>1, <2>2
<1>21. ExecutingRetained'
  <2> SUFFICES ASSUME NEW p \in Queues, NEW e \in Range(gpuQueue'[p]), e.buffer # NoBuffer
               PROVE  e.buffer \in Range(flight2[p]) /\ m_submissionID'[e.buffer] = e.id
    BY <1>11 DEF ExecutingRetained, InFlight
  <2>1. CASE e \in Range(gpuQueue[p])
    <3>1. /\ e.buffer \in Buffers /\ m_submissionID[e.buffer] = e.id
          /\ \E k \in DOMAIN m_commandBuffersInFlight[p] : m_commandBuffersInFlight[p][k] = e.buffer
      BY <2>1, EntryFacts
    <3>2. m_submissionID'[e.buffer] = e.id
      BY <1>6, <2>1, <3>1
    <3>3. \E k \in DOMAIN flight2[p] : flight2[p][k] = e.buffer
      <4>1. CASE p = q
        BY <1>7, <1>10, <1>12, <3>1, <4>1
      <4>2. CASE p # q
        BY <1>12, <3>1, <4>2
      <4> QED BY <4>1, <4>2
    <3> QED BY <3>2, <3>3 DEF Range
  <2>2. CASE e \notin Range(gpuQueue[p])
    <3>1. p = q /\ e = entry
      <4>1. p = q
        BY <1>18, <2>2
      <4>2. PICK i \in 1 .. M : e = queue2[i]
        BY <1>17, <1>18, <4>1 DEF Range
      <4>3. i = M
        BY <1>13, <1>17, <2>2, <4>1, <4>2 DEF Range
      <4> QED BY <1>17, <4>1, <4>2, <4>3
    <3>2. b # NoBuffer /\ b \in Buffers /\ m_submissionID'[b] = id
      BY <1>6, <1>14, <3>1
    <3>3. L \in DOMAIN flight2[q] /\ flight2[q][L] = b
      BY <1>10, <1>12, <3>2
    <3> QED BY <1>14, <3>1, <3>2, <3>3 DEF Range
  <2> QED BY <2>1, <2>2
<1>22. Placed'
  <2>1. PICK held2 : held2 = m_currentCmdBuf'
    OBVIOUS
  <2>2. OnePlace(m_currentCmdBuf, m_commandBuffersInFlight, m_pool)
    BY DEF Core, Placed
  <2>3. CASE b = NoBuffer
    <3>1. \A s \in Recorders : held2[s] = m_currentCmdBuf[s]
      BY <1>6, <2>1, <2>3
    <3>2. \A p \in Queues : \A i \in DOMAIN flight2[p] :
            i \in DOMAIN m_commandBuffersInFlight[p] /\ flight2[p][i] = m_commandBuffersInFlight[p][i]
      BY <1>7, <1>10, <1>12, <2>3
    <3>3. OnePlace(held2, flight2, m_pool)
      BY <2>2, <3>1, <3>2 DEF OnePlace
    <3> QED BY <1>5, <1>11, <2>1, <3>3 DEF Placed
  <2>4. CASE b # NoBuffer
    <3>1. (\A s \in Recorders \ {r} : held2[s] = m_currentCmdBuf[s]) /\ held2[r] = NoBuffer
      BY <1>6, <2>1, <2>4
    <3>2. /\ L \notin DOMAIN m_commandBuffersInFlight[q]
          /\ \A i \in DOMAIN flight2[q] :
               \/ i \in DOMAIN m_commandBuffersInFlight[q] /\ flight2[q][i] = m_commandBuffersInFlight[q][i]
               \/ i = L /\ flight2[q][i] = m_currentCmdBuf[r]
      BY <1>6, <1>7, <1>10, <1>12, <2>4
    <3>3. m_currentCmdBuf[r] # NoBuffer
      BY <1>6, <2>4
    <3>4. OnePlace(held2, flight2, m_pool)
      <4>1. Left(m_currentCmdBuf, m_commandBuffersInFlight, m_pool, held2, flight2, r, q, L)
        BY <1>12, <3>1, <3>2, <3>3, NoNull DEF Core, Left
      <4> QED BY <2>2, <4>1, LeaveList
    <3> QED BY <1>5, <1>11, <2>1, <3>4 DEF Placed
  <2> QED BY <2>3, <2>4
<1> QED BY <1>19, <1>20, <1>21, <1>22 DEF Core

(* The GPU finishes the first submission of a queue.                       *)
LEMMA FinishCore ==
  ASSUME Core, NEW q \in Queues, GpuFinish(q)
  PROVE  Core'
<1>1. PICK queue \in Seq(Entries) : queue = gpuQueue[q]
  BY DEF Core, CoreType
<1>2. PICK rest : rest = Tail(queue)
  OBVIOUS
<1>3. PICK id : id = Head(queue).id
  OBVIOUS
<1>4. /\ queue # <<>>
      /\ gpuDone' = [gpuDone EXCEPT ![q] = id] /\ gpuQueue' = [gpuQueue EXCEPT ![q] = rest]
      /\ UNCHANGED <<m_lastSubmittedID, m_lastFinishedID, m_commandBuffersInFlight, m_pool,
                     m_submissionID, m_recordingWorkerIndex, m_currentCmdBuf>>
  BY <1>1, <1>2, <1>3 DEF GpuFinish
<1>5. /\ rest \in Seq(Entries) /\ Len(queue) \in Nat /\ Len(rest) = Len(queue) - 1 /\ 1 \in DOMAIN queue /\ Head(queue) = queue[1]
      /\ queue[1] \in Entries
      /\ \A i \in DOMAIN rest : i \in Nat /\ i + 1 \in DOMAIN queue /\ rest[i] = queue[i + 1]
  BY <1>2, <1>4
<1>6. /\ gpuDone[q] \in Nat /\ m_lastFinishedID[q] \in Nat /\ m_lastFinishedID[q] <= gpuDone[q]
      /\ m_lastSubmittedID[q] = gpuDone[q] + Len(queue)
      /\ \A i \in DOMAIN queue : queue[i].id = gpuDone[q] + i
  BY <1>1, QueueAssumption DEF Core, CoreType, TimelineExact
<1>7. id = gpuDone[q] + 1 /\ id \in 0 .. SubmissionLimit
  <2>1. id = gpuDone[q] + 1
    BY <1>3, <1>5, <1>6
  <2>2. id \in Ids
    BY <1>3, <1>5 DEF Entries
  <2> QED BY <2>1, <2>2, QueueAssumption DEF Ids
<1>8. /\ gpuDone' \in [Queues -> 0 .. SubmissionLimit] /\ gpuQueue' \in [Queues -> Seq(Entries)]
      /\ gpuDone'[q] = id /\ gpuQueue'[q] = rest
      /\ \A p \in Queues \ {q} : gpuDone'[p] = gpuDone[p] /\ gpuQueue'[p] = gpuQueue[p]
  BY <1>4, <1>5, <1>7 DEF Core, CoreType
<1>9. CoreType'
  BY <1>4, <1>8 DEF Core, CoreType
<1>10. TimelineExact'
  <2> SUFFICES ASSUME NEW p \in Queues
               PROVE  /\ m_lastFinishedID[p] <= gpuDone'[p]
                      /\ m_lastSubmittedID[p] = gpuDone'[p] + Len(gpuQueue'[p])
                      /\ \A i \in DOMAIN gpuQueue'[p] : gpuQueue'[p][i].id = gpuDone'[p] + i
    BY <1>4 DEF TimelineExact
  <2>1. CASE p # q
    BY <1>8, <2>1 DEF Core, TimelineExact
  <2>2. CASE p = q
    <3>0. PICK g \in Nat : g = gpuDone[q]
      BY <1>6
    <3>1. ASSUME NEW i \in DOMAIN rest
          PROVE  rest[i].id = id + i
      <4>1. rest[i].id = g + (i + 1) /\ i \in Nat /\ id = g + 1
        BY <1>5, <1>6, <1>7, <3>0
      <4> QED BY <4>1
    <3>2. m_lastSubmittedID[q] = id + Len(rest) /\ m_lastFinishedID[q] <= id
      <4>1. PICK n \in Nat : n = Len(queue)
        BY <1>5
      <4>2. Len(rest) = n - 1 /\ m_lastSubmittedID[q] = g + n /\ id = g + 1
        BY <1>5, <1>6, <1>7, <3>0, <4>1
      <4>3. m_lastFinishedID[q] \in Nat /\ m_lastFinishedID[q] <= g
        BY <1>6, <3>0
      <4> QED BY <4>2, <4>3
    <3> QED BY <1>8, <2>2, <3>1, <3>2
  <2> QED BY <2>1, <2>2
<1>11. ExecutingRetained'
  <2> SUFFICES ASSUME NEW p \in Queues, NEW e \in Range(gpuQueue'[p]), e.buffer # NoBuffer
               PROVE  e.buffer \in Range(m_commandBuffersInFlight[p]) /\ m_submissionID[e.buffer] = e.id
    BY <1>4 DEF ExecutingRetained, InFlight
  <2>1. e \in Range(gpuQueue[p])
    <3>1. CASE p # q
      BY <1>8, <3>1
    <3>2. CASE p = q
      <4>1. PICK i \in DOMAIN rest : e = rest[i]
        BY <1>8, <3>2 DEF Range
      <4> QED BY <1>1, <1>5, <3>2, <4>1 DEF Range
    <3> QED BY <3>1, <3>2
  <2> QED BY <2>1, EntryFacts DEF Range
<1>12. Placed'
  BY <1>4 DEF Core, Placed, OnePlace
<1> QED BY <1>9, <1>10, <1>11, <1>12 DEF Core

(* The calls a recorder may be in.                                         *)
Calls == [at : {"idle", "open", "begin", "stage", "submit", "book"}, waits : SUBSET Tokens]

(* A step of one recorder's call leaves the calls well-formed.             *)
LEMMA CallStep ==
  ASSUME CallType, NEW r \in Recorders, NEW after \in Calls, NEW recording \in BOOLEAN,
         exec' = [exec EXCEPT ![r] = after] \/ exec' = exec,
         m_isRecording' = [m_isRecording EXCEPT ![r] = recording] \/ m_isRecording' = m_isRecording,
         m_waitSemaphores' = [m_waitSemaphores EXCEPT ![QueueOf[r]] = {}] \/ m_waitSemaphores' = m_waitSemaphores
  PROVE  CallType'
<1>1. exec' \in [Recorders -> Calls]
  BY DEF CallType, Calls
<1>2. m_isRecording' \in [Recorders -> BOOLEAN]
  BY DEF CallType
<1>3. m_waitSemaphores' \in [Queues -> SUBSET Tokens]
  BY DEF CallType
<1> QED BY <1>1, <1>2, <1>3 DEF CallType, Calls

(* The values Goto leaves.                                                 *)
LEMMA GotoCall ==
  ASSUME NEW at \in {"idle", "open", "begin", "stage", "submit", "book"}
  PROVE  [NotExecuting EXCEPT !.at = at] \in Calls
BY DEF NotExecuting, Calls

(* open() and close().                                                     *)
LEMMA RecordingKeeps ==
  ASSUME Core, CallType, NEW r \in Recorders, Recording(r)
  PROVE  Core' /\ CallType'
<1>1. ASSUME NEW fin, Drop(r, fin), NEW at \in {"idle", "open"}, Goto(r, at) \/ UNCHANGED exec
      PROVE  Core' /\ CallType'
  <2>1. Core'
    BY <1>1, DropCore
  <2>2. PICK call \in Calls : call = [NotExecuting EXCEPT !.at = at]
    BY GotoCall
  <2>3. CallType'
    <3>1. exec' = [exec EXCEPT ![r] = call] \/ exec' = exec
      BY <1>1, <2>2 DEF Goto
    <3>2. m_isRecording' = [m_isRecording EXCEPT ![r] = FALSE] /\ m_waitSemaphores' = m_waitSemaphores
      BY <1>1 DEF Drop
    <3> QED BY <3>1, <3>2, CallStep
  <2> QED BY <2>1, <2>3
<1>2. ASSUME NEW fin, OpenDrop(r, fin) \/ OpenFails(r, fin) \/ CloseFails(r, fin)
      PROVE  Core' /\ CallType'
  BY <1>1, <1>2 DEF OpenDrop, OpenFails, CloseFails
<1>3. ASSUME NEW b, Hold(r, b) PROVE CallType'
  <2>1. PICK at \in {"idle", "begin"} : Goto(r, at)
    BY <1>3 DEF Hold
  <2>2. PICK call \in Calls : call = [NotExecuting EXCEPT !.at = at]
    BY GotoCall
  <2>3. exec' = [exec EXCEPT ![r] = call] /\ m_isRecording' = m_isRecording /\ m_waitSemaphores' = m_waitSemaphores
    BY <1>3, <2>1, <2>2 DEF Hold, Goto
  <2> QED BY <2>2, <2>3, CallStep
<1>4. ASSUME NEW fin, NEW b, getOrCreateDirectCommandBuffer(r, fin, b)
      PROVE  Core' /\ CallType'
  BY <1>3, <1>4, DirectCore DEF getOrCreateDirectCommandBuffer
<1>5. ASSUME NEW b, getOrCreateWorkerCommandBuffer(r, b)
      PROVE  Core' /\ CallType'
  BY <1>3, <1>5, WorkerCore DEF getOrCreateWorkerCommandBuffer
<1>6. CASE OpenBegin(r)
  <2>1. Core'
    BY <1>6, SameCore DEF OpenBegin
  <2>2. PICK call \in Calls : call = [NotExecuting EXCEPT !.at = "idle"]
    BY GotoCall
  <2>3. exec' = [exec EXCEPT ![r] = call] /\ m_isRecording' = [m_isRecording EXCEPT ![r] = TRUE]
        /\ m_waitSemaphores' = m_waitSemaphores
    BY <1>6, <2>2 DEF OpenBegin, Goto
  <2> QED BY <2>1, <2>3, CallStep
<1>7. CASE Close(r)
  <2>1. Core'
    BY <1>7, SameCore DEF Close
  <2>2. NotExecuting \in Calls
    BY DEF NotExecuting, Calls
  <2>3. exec' = exec /\ m_isRecording' = [m_isRecording EXCEPT ![r] = FALSE] /\ m_waitSemaphores' = m_waitSemaphores
    BY <1>7 DEF Close
  <2> QED BY <2>1, <2>2, <2>3, CallStep
<1> QED BY <1>2, <1>4, <1>5, <1>6, <1>7 DEF Recording

(* executeCommandLists, with whatever the caller goes on to do after it.   *)
LEMMA SubmitKeeps ==
  ASSUME Core, CallType, NEW r \in Recorders, NEW withList \in BOOLEAN, NEW after \in Calls,
         \/ \E valid \in BOOLEAN : SubmitRefused(r, withList, valid, after)
         \/ SubmitRejected(r, withList, after)
         \/ SubmitAccepted(r, withList, after)
  PROVE  Core' /\ CallType'
<1>1. CallType'
  <2>1. /\ exec' = [exec EXCEPT ![r] = after] /\ m_isRecording' = m_isRecording
        /\ m_waitSemaphores' = [m_waitSemaphores EXCEPT ![QueueOf[r]] = {}]
    BY DEF SubmitRefused, SubmitRejected, SubmitAccepted, Detach
  <2> QED BY <2>1, CallStep
<1>2. ASSUME NEW valid \in BOOLEAN, SubmitRefused(r, withList, valid, after)
      PROVE  Core'
  BY <1>2, SameCore DEF SubmitRefused
<1>3. Core'
  BY <1>2, RejectedCore, AcceptedCore
<1> QED BY <1>1, <1>3

(* Validation of the tokens.                                               *)
LEMMA ExecutesKeeps ==
  ASSUME Core, CallType, NEW r \in Recorders, Executes(r)
  PROVE  Core' /\ CallType'
<1>1. PICK tokens \in SomeTokens : Execute(r, tokens)
  BY DEF Executes
<1>2. Core'
  BY <1>1, SameCore DEF Execute
<1>3. PICK call : call = [at |-> "submit", waits |-> LocalWaits(QueueOf[r], tokens)]
  OBVIOUS
<1>4. LocalWaits(QueueOf[r], tokens) \in SUBSET Tokens
  BY QueueAssumption DEF SomeTokens, LocalWaits
<1>5. call \in Calls
  BY <1>3, <1>4 DEF Calls
<1>6. exec' = [exec EXCEPT ![r] = call] /\ m_isRecording' = m_isRecording /\ m_waitSemaphores' = m_waitSemaphores
  BY <1>1, <1>3 DEF Execute
<1> QED BY <1>2, <1>5, <1>6, CallStep

(* Polls and collections.                                                  *)
LEMMA CompletionKeeps ==
  ASSUME Core, CallType, NEW q \in Queues, Completion(q)
  PROVE  Core' /\ CallType'
<1>1. PICK fin \in 0 .. SubmissionLimit :
        queueGetCompletedInstance(q, fin) \/ runGarbageCollection(q, fin) \/ waitForIdle(q, fin)
  BY DEF Completion
<1>2. CallType'
  <2>1. UNCHANGED <<exec, m_isRecording, m_waitSemaphores>>
    BY <1>1 DEF queueGetCompletedInstance, runGarbageCollection, waitForIdle, Collect
  <2> QED BY <2>1 DEF CallType
<1>3. CASE queueGetCompletedInstance(q, fin)
  <2>1. Core'
    BY <1>3, PollCore DEF queueGetCompletedInstance
  <2> QED BY <1>2, <2>1
<1>4. CASE runGarbageCollection(q, fin)
  <2>1. fin <= gpuDone[q]
    BY <1>4, PollValues DEF runGarbageCollection, Core
  <2> QED BY <1>2, <1>4, <2>1, CollectCore DEF runGarbageCollection
<1>5. CASE waitForIdle(q, fin)
  <2>1. gpuQueue[q] = <<>> /\ fin = m_lastSubmittedID[q]
    BY <1>5 DEF waitForIdle
  <2>2. fin = gpuDone[q] + Len(gpuQueue[q]) /\ gpuDone[q] \in Nat
    BY <2>1, QueueAssumption DEF Core, CoreType, TimelineExact
  <2>3. fin <= gpuDone[q]
    BY <2>1, <2>2
  <2> QED BY <1>2, <1>5, <2>3, CollectCore DEF waitForIdle
<1> QED BY <1>1, <1>3, <1>4, <1>5

(* The GPU.                                                                *)
LEMMA FinishKeeps ==
  ASSUME Core, CallType, NEW q \in Queues, GpuFinish(q)
  PROVE  Core' /\ CallType'
<1>1. CallType'
  BY DEF GpuFinish, CallType
<1> QED BY <1>1, FinishCore

(* queueWaitForCommandList.                                                *)
LEMMA AddWaitKeeps ==
  ASSUME Core, CallType, NEW q \in Queues, NEW token \in WaitTokens, AddWait(q, token)
  PROVE  Core' /\ CallType'
<1>1. Core'
  BY SameCore DEF AddWait
<1>2. token \in Tokens
  BY QueueAssumption
<1>3. m_waitSemaphores' \in [Queues -> SUBSET Tokens]
  BY <1>2 DEF AddWait, CallType
<1>4. CallType'
  BY <1>3 DEF AddWait, CallType
<1> QED BY <1>1, <1>4
-----------------------------------------------------------------------------
IInv == Core /\ CallType

(* Nothing has happened yet.                                               *)
LEMMA InitIInv == Init => IInv
<1> SUFFICES ASSUME Init PROVE IInv
  OBVIOUS
<1> USE DEF Init
<1>1. SubmissionLimit \in Nat /\ 0 \in Workers
  BY QueueAssumption DEF Workers
<1>2. /\ m_commandBuffersInFlight \in [Queues -> Seq(Buffers)]
      /\ m_pool \in [Queues -> [Workers -> Seq(Buffers)]]
      /\ gpuQueue \in [Queues -> Seq(Entries)]
  OBVIOUS
<1>3. CoreType
  BY <1>1, <1>2 DEF CoreType
<1>4. CallType
  <2>1. NotExecuting \in Calls
    BY DEF NotExecuting, Calls
  <2> QED BY <2>1 DEF CallType, Calls
<1>5. TimelineExact
  BY DEF TimelineExact
<1>6. ExecutingRetained
  BY DEF ExecutingRetained, Range
<1>7. Placed
  BY DEF Placed, OnePlace
<1> QED BY <1>3, <1>4, <1>5, <1>6, <1>7 DEF IInv, Core

(* Every step keeps the invariant.                                         *)
LEMMA NextIInv ==
  ASSUME IInv, [Next]_queueVars
  PROVE  IInv'
<1> USE DEF IInv
<1>1. CASE UNCHANGED queueVars
  <2>1. Core'
    BY <1>1, SameCore DEF queueVars
  <2>2. CallType'
    BY <1>1 DEF queueVars, CallType
  <2> QED BY <2>1, <2>2
<1>2. ASSUME NEW r \in Recorders, Recording(r) PROVE IInv'
  BY <1>2, RecordingKeeps
<1>3. ASSUME NEW r \in Recorders, Executes(r) PROVE IInv'
  BY <1>3, ExecutesKeeps
<1>4. ASSUME NEW r \in Recorders, Submit(r) PROVE IInv'
  <2>1. NotExecuting \in Calls
    BY DEF NotExecuting, Calls
  <2> QED BY <1>4, <2>1, SubmitKeeps DEF Submit
<1>5. ASSUME NEW q \in Queues, Completion(q) PROVE IInv'
  BY <1>5, CompletionKeeps
<1>6. ASSUME NEW q \in Queues, GpuFinish(q) PROVE IInv'
  BY <1>6, FinishKeeps
<1>7. ASSUME NEW q \in Queues, NEW token \in WaitTokens, AddWait(q, token) PROVE IInv'
  BY <1>7, AddWaitKeeps
<1> QED BY <1>1, <1>2, <1>3, <1>4, <1>5, <1>6, <1>7 DEF Next

(* The inductive invariant holds.                                          *)
LEMMA Inductive == Spec => []IInv
BY InitIInv, NextIInv, PTL DEF Spec
-----------------------------------------------------------------------------
(* A set without two elements is finite and has at most one.               *)
LEMMA AtMostOne ==
  ASSUME NEW S, \A x, y \in S : x = y
  PROVE  Cardinality(S) \in {0, 1} /\ (S = {} => Cardinality(S) = 0)
<1>1. CASE S = {}
  BY <1>1, FS_EmptySet
<1>2. CASE S # {}
  <2>1. PICK x : x \in S
    BY <1>2
  <2>2. S = {x}
    BY <2>1
  <2> QED BY <2>2, FS_Singleton
<1> QED BY <1>1, <1>2

(* A buffer in one place has one holder.                                   *)
LEMMA PlacedOnce ==
  ASSUME CoreType, Placed
  PROVE  OneHolder
<1> SUFFICES ASSUME NEW b \in Buffers
             PROVE  Cardinality({r \in Recorders : m_currentCmdBuf[r] = b})
                      + Cardinality({p \in Queues \X (1 .. Cardinality(Buffers)) :
                                       /\ p[2] <= Len(m_commandBuffersInFlight[p[1]])
                                       /\ m_commandBuffersInFlight[p[1]][p[2]] = b})
                      + Cardinality({p \in Queues \X Workers \X (1 .. Cardinality(Buffers) + 1) :
                                       p[3] <= Len(m_pool[p[1]][p[2]]) /\ m_pool[p[1]][p[2]][p[3]] = b}) <= 1
  BY DEF OneHolder
<1> DEFINE H == {r \in Recorders : m_currentCmdBuf[r] = b}
           F == {p \in Queues \X (1 .. Cardinality(Buffers)) :
                   /\ p[2] <= Len(m_commandBuffersInFlight[p[1]])
                   /\ m_commandBuffersInFlight[p[1]][p[2]] = b}
           P == {p \in Queues \X Workers \X (1 .. Cardinality(Buffers) + 1) :
                   p[3] <= Len(m_pool[p[1]][p[2]]) /\ m_pool[p[1]][p[2]][p[3]] = b}
<1>1. b # NoBuffer /\ Cardinality(Buffers) \in Nat
  BY QueueAssumption, FS_CardinalityType
<1>2. \A p \in F : /\ p[1] \in Queues /\ p[2] \in DOMAIN m_commandBuffersInFlight[p[1]] /\ p = <<p[1], p[2]>>
                   /\ m_commandBuffersInFlight[p[1]][p[2]] = b
  <2> TAKE p \in F
  <2>1. /\ p[1] \in Queues /\ p[2] \in 1 .. Cardinality(Buffers) /\ p = <<p[1], p[2]>>
        /\ p[2] <= Len(m_commandBuffersInFlight[p[1]]) /\ m_commandBuffersInFlight[p[1]][p[2]] = b
    OBVIOUS
  <2>2. m_commandBuffersInFlight[p[1]] \in Seq(Buffers)
    BY <2>1 DEF CoreType
  <2>3. p[2] \in DOMAIN m_commandBuffersInFlight[p[1]]
    BY <1>1, <2>1, <2>2
  <2> QED BY <2>1, <2>3
<1>3. \A p \in P : /\ p[1] \in Queues /\ p[2] \in Workers /\ p[3] \in DOMAIN m_pool[p[1]][p[2]]
                   /\ p = <<p[1], p[2], p[3]>> /\ m_pool[p[1]][p[2]][p[3]] = b
  <2> TAKE p \in P
  <2>1. /\ p[1] \in Queues /\ p[2] \in Workers /\ p[3] \in 1 .. Cardinality(Buffers) + 1
        /\ p = <<p[1], p[2], p[3]>>
        /\ p[3] <= Len(m_pool[p[1]][p[2]]) /\ m_pool[p[1]][p[2]][p[3]] = b
    OBVIOUS
  <2>2. m_pool[p[1]][p[2]] \in Seq(Buffers)
    BY <2>1 DEF CoreType
  <2>3. p[3] \in DOMAIN m_pool[p[1]][p[2]]
    BY <1>1, <2>1, <2>2
  <2> QED BY <2>1, <2>3
<1>4. \A r \in H : r \in Recorders /\ m_currentCmdBuf[r] = b
  OBVIOUS
<1> HIDE DEF H, F, P
<1>5. \A x, y \in H : x = y
  BY <1>1, <1>4 DEF Placed, OnePlace
<1>6. \A x, y \in F : x = y
  <2> TAKE x \in F, y \in F
  <2>1. x[1] = y[1] /\ x[2] = y[2]
    BY <1>2 DEF Placed, OnePlace
  <2> QED BY <1>2, <2>1
<1>7. \A x, y \in P : x = y
  <2> TAKE x \in P, y \in P
  <2>1. x[1] = y[1] /\ x[2] = y[2] /\ x[3] = y[3]
    BY <1>3 DEF Placed, OnePlace
  <2> QED BY <1>3, <2>1
<1>8. H = {} \/ F = {}
  BY <1>2, <1>4 DEF Placed, OnePlace
<1>9. H = {} \/ P = {}
  BY <1>3, <1>4 DEF Placed, OnePlace
<1>10. F = {} \/ P = {}
  BY <1>2, <1>3 DEF Placed, OnePlace
<1>11. PICK h, f, g : h = Cardinality(H) /\ f = Cardinality(F) /\ g = Cardinality(P)
  OBVIOUS
<1>12. h \in {0, 1} /\ f \in {0, 1} /\ g \in {0, 1}
  BY <1>5, <1>6, <1>7, <1>11, AtMostOne
<1>13. (H = {} => h = 0) /\ (F = {} => f = 0) /\ (P = {} => g = 0)
  BY <1>5, <1>6, <1>7, <1>11, AtMostOne
<1>14. h + f + g <= 1
  BY <1>8, <1>9, <1>10, <1>12, <1>13
<1> QED BY <1>11, <1>14 DEF H, F, P

(* The variables of the queue, of the command buffers and of the calls     *)
(* keep their types; no submission id passes the largest one.              *)
THEOREM QueueTypes == Spec => []TypeOK
<1>1. IInv => TypeOK
  BY DEF IInv, Core, CoreType, CallType, TypeOK, Entries
<1> QED BY <1>1, Inductive, PTL

(* The ids a queue has handed out are exactly the values its timeline has  *)
(* passed and those of the submissions under way, in order: a rejected     *)
(* submission gives its id back.                                           *)
THEOREM TimelinesExact == Spec => []TimelineExact
<1>1. IInv => TimelineExact
  BY DEF IInv, Core
<1> QED BY <1>1, Inductive, PTL

(* The command buffer of a submission the GPU has not finished stays in    *)
(* its queue's m_commandBuffersInFlight under that submission's id.        *)
THEOREM ExecutingBuffersRetained == Spec => []ExecutingRetained
<1>1. IInv => ExecutingRetained
  BY DEF IInv, Core
<1> QED BY <1>1, Inductive, PTL

(* A command buffer has one holder: a list, a place in one queue's flight  *)
(* or a place in one pool.                                                 *)
THEOREM BuffersHeldOnce == Spec => []OneHolder
<1>1. IInv => OneHolder
  BY PlacedOnce DEF IInv, Core
<1> QED BY <1>1, Inductive, PTL
=============================================================================
