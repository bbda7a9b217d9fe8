-------------------------- MODULE FrameSyncProofs --------------------------
(***************************************************************************)
(* Proofs about FrameSync for every number of swap-chain images, frames in *)
(* flight and faults.                                                      *)
(*                                                                         *)
(* The fences are one argument: a fence that is with the device belongs to *)
(* a started query, once, and is not signalled; a query comes back to the  *)
(* pool unstarted when its wait succeeded, started when it failed.  The    *)
(* semaphores are the other.  A present semaphore has a signal under way   *)
(* only from the image's terminal submission until the engine takes it.    *)
(* The acquire semaphores are taken in turn, their waits executed in that  *)
(* order, and each outstanding one keeps an image of its own away from the *)
(* engine: when the engine has an image to give, fewer semaphores than     *)
(* images are outstanding, and the one whose turn it is, is free.          *)
(***************************************************************************)
EXTENDS FrameSync, FiniteSetTheorems, SequenceTheorems, TLAPS

Indices == 0 .. AcquireCount - 1

AcquireSems == {AcquireSem(a) : a \in Indices}

PresentSems == {PresentSem(i) : i \in Images}

Batches == [waits : SUBSET AcquireSems, signals : SUBSET PresentSems,
            image : Images \cup {None}, fence : Queries \cup {None}]

ControlPoints == {"idle", "acquire", "render", "terminal", "cancel", "present", "fallback",
                  "queuePresent", "throttle", "setQuery", "ended"}

(* The variables' shapes.  The device waits for acquire semaphores only,   *)
(* and signals present semaphores only.                                    *)
MainShape ==
    /\ pc \in ControlPoints /\ chain \in BOOLEAN
    /\ acquireIndex \in Indices /\ image \in Images
    /\ signal \in {"Idle", "Claimed", "Queued", "Accepted"}
    /\ lost \in BOOLEAN

QueueShape ==
    /\ queue \in Seq(Batches)
    /\ pendWaits \subseteq AcquireSems /\ pendSignals \subseteq PresentSems
    /\ sem \subseteq Sems

FenceShape ==
    /\ pool \subseteq Queries /\ started \subseteq Queries /\ fenced \subseteq Queries
    /\ inFlight \in Seq(Queries)

EngineShape ==
    /\ owner \in [Images -> {"engine", "app", "queued"}]
    /\ reading \in [Images -> BOOLEAN]
    /\ release \in [Images -> AcquireSems \cup {NoSem}]
    /\ presents \in Seq(Images)

Shape == MainShape /\ QueueShape /\ FenceShape /\ EngineShape

-----------------------------------------------------------------------------
(* The fences: every query is in the pool or in m_framesInFlight, once; a  *)
(* fence with the device belongs to a started query, in flight or in the   *)
(* pool after a wait that failed, is there once and is not signalled.      *)
PoolOK ==
    /\ \A k \in DOMAIN inFlight : inFlight[k] \notin pool
    /\ \A j, k \in DOMAIN inFlight : inFlight[j] = inFlight[k] => j = k
    /\ Cardinality(pool) + Len(inFlight) = M
    /\ pc = "setQuery" => Len(inFlight) < M

DeviceFences ==
    \A k \in DOMAIN queue : queue[k].fence # None =>
        /\ queue[k].fence \in started /\ queue[k].fence \notin fenced
        /\ \A j \in DOMAIN queue : queue[j].fence = queue[k].fence => j = k

-----------------------------------------------------------------------------
(* What the render thread's place says of the pending semaphores, of the   *)
(* signal and of the image in hand.                                        *)
FramePoints == {"render", "terminal", "cancel", "present", "fallback", "queuePresent"}

PendingOK ==
    /\ pendWaits # {} => /\ pc \in FramePoints \ {"queuePresent"}
                         /\ pc = "present" => signal # "Accepted"
    /\ pendSignals # {} => pc = "fallback" /\ pendSignals = {PresentSem(image)}

SignalOK ==
    /\ pc \notin {"cancel", "present", "idle"} => signal = "Idle"
    /\ pc \in {"present", "idle"} => signal \in {"Idle", "Accepted"}
    /\ pc \in FramePoints \/ (pc = "idle" /\ signal = "Accepted") => owner[image] = "app"

(* The terminal submission of the image in hand has been made, or tried.   *)
Due == \/ pc \in {"fallback", "queuePresent", "ended"}
       \/ pc \in {"present", "idle"} /\ signal = "Accepted"
       \/ pc = "cancel" /\ signal = "Queued"

QueuedSignal(s) == \E k \in DOMAIN queue : s \in queue[k].signals

UnderWay(s) == s \in sem \/ s \in pendSignals \/ QueuedSignal(s)

(* A semaphore's signal is in one place.                                   *)
OneSignal(s) ==
    /\ \A j, k \in DOMAIN queue : (s \in queue[j].signals /\ s \in queue[k].signals) => j = k
    /\ QueuedSignal(s) => s \notin sem /\ s \notin pendSignals
    /\ s \in sem => s \notin pendSignals

(* A present semaphore has a signal under way from the image's terminal    *)
(* submission until the engine takes the image.                            *)
SignalDue(i) ==
    /\ UnderWay(PresentSem(i)) => owner[i] = "queued" \/ (i = image /\ owner[i] = "app" /\ Due)
    /\ owner[i] = "queued" => UnderWay(PresentSem(i))

PresentsOK ==
    /\ \A i \in Images : owner[i] = "queued" <=> \E k \in DOMAIN presents : presents[k] = i
    /\ \A j, k \in DOMAIN presents : presents[j] = presents[k] => j = k
    /\ pc \in {"fallback", "queuePresent"} \/ (pc = "present" /\ signal = "Accepted") =>
           UnderWay(PresentSem(image))

(* How many semaphores were taken after this one; the one whose turn it is *)
(* has the highest age.                                                    *)
Age(a) == IF a < acquireIndex THEN acquireIndex - 1 - a ELSE acquireIndex - 1 - a + AcquireCount

QueuedWait(s) == \E k \in DOMAIN queue : s \in queue[k].waits

Busy(a) == AcquireSem(a) \in pendWaits \/ QueuedWait(AcquireSem(a))

Released(s) == \E i \in Images : release[i] = s

(* One acquire semaphore: its wait is in one place, its signal in one too, *)
(* and there is a wait exactly when there is a signal.                     *)
AcquireOK(a) ==
    LET s == AcquireSem(a) IN
    /\ \A j, k \in DOMAIN queue : (s \in queue[j].waits /\ s \in queue[k].waits) => j = k
    /\ QueuedWait(s) => s \notin pendWaits
    /\ Busy(a) <=> s \in sem \/ Released(s)
    /\ s \in sem => ~Released(s)
    /\ \A i, j \in Images : (release[i] = s /\ release[j] = s) => i = j

(* The waits are in the queue in the order the semaphores were taken.      *)
OrderOK ==
    /\ \A a \in Indices : AcquireSem(a) \in pendWaits => Age(a) = 0
    /\ \A a, b \in Indices, k \in DOMAIN queue :
         (AcquireSem(a) \in queue[k].waits /\ Age(b) < Age(a)) =>
            \/ AcquireSem(b) \in pendWaits
            \/ \E j \in DOMAIN queue : k < j /\ AcquireSem(b) \in queue[j].waits

(* Batch k comes before any submission that lets the engine have image i.  *)
AheadOfPresent(i, k) ==
    /\ owner[i] # "engine" /\ PresentSem(i) \notin sem
    /\ \A j \in DOMAIN queue : PresentSem(i) \in queue[j].signals => k <= j

(* Every outstanding acquire keeps an image of its own from the engine.    *)
Keeps(a, i) ==
    /\ AcquireSem(a) \in pendWaits =>
         owner[i] # "engine" /\ PresentSem(i) \notin sem /\ ~QueuedSignal(PresentSem(i))
    /\ \A k \in DOMAIN queue : AcquireSem(a) \in queue[k].waits => AheadOfPresent(i, k)

KeepOK(img) ==
    /\ \A a \in Indices : Keeps(a, img[a])
    /\ \A a, b \in Indices : (Busy(a) /\ Busy(b) /\ img[a] = img[b]) => a = b

(* A batch that draws to an image comes before its presentation, and after *)
(* the wait for the engine's release of it.                                *)
DrawOK ==
    \A k \in DOMAIN queue : queue[k].image # None =>
        /\ AheadOfPresent(queue[k].image, k)
        /\ release[queue[k].image] # NoSem =>
             \E j \in DOMAIN queue : j <= k /\ release[queue[k].image] \in queue[j].waits

ReadOK == \A i \in Images : reading[i] /\ owner[i] # "engine" => release[i] # NoSem

SemaphoresOK ==
    /\ PendingOK /\ SignalOK /\ PresentsOK /\ OrderOK /\ DrawOK /\ ReadOK
    /\ \A i \in Images : OneSignal(PresentSem(i)) /\ SignalDue(i)
    /\ \A a \in Indices : AcquireOK(a)
    /\ \E img \in [Indices -> Images] : KeepOK(img)

(* The inductive invariant.                                                *)
IInv == Shape /\ PoolOK /\ DeviceFences /\ (~lost => SemaphoresOK)

-----------------------------------------------------------------------------
(* The constants: enough acquire semaphores, and None is no image and no   *)
(* query.                                                                  *)
LEMMA Counts ==
  /\ N \in Nat /\ M \in Nat /\ N > 0 /\ M > 0
  /\ AcquireCount \in Nat /\ AcquireCount >= N /\ AcquireCount >= M
  /\ None \notin Images /\ None \notin Queries
  /\ 0 \in Images /\ 0 \in Indices
  BY FrameAssumption DEF AcquireCount, None, Images, Queries, Indices

(* The semaphores are all different.                                       *)
LEMMA SemsDiffer ==
  /\ \A a, b : AcquireSem(a) = AcquireSem(b) => a = b
  /\ \A i, j : PresentSem(i) = PresentSem(j) => i = j
  /\ \A a, i : AcquireSem(a) # PresentSem(i) /\ AcquireSem(a) # NoSem /\ PresentSem(i) # NoSem
  BY DEF AcquireSem, PresentSem, NoSem

(* Acquire and present semaphores are the swap chain's semaphores.         *)
LEMMA SemSets ==
  /\ Sems = AcquireSems \cup PresentSems
  /\ \A s \in AcquireSems : s \notin PresentSems /\ s # NoSem
  /\ \A i \in Images : PresentSem(i) \in PresentSems
  /\ \A a \in Indices : AcquireSem(a) \in AcquireSems
  BY SemsDiffer DEF Sems, AcquireSems, PresentSems, Indices

(* The index goes round.                                                   *)
LEMMA NextIndex ==
  ASSUME acquireIndex \in Indices
  PROVE  /\ NextAcquireIndex = IF acquireIndex + 1 = AcquireCount THEN 0 ELSE acquireIndex + 1
         /\ NextAcquireIndex \in Indices
<1>1. acquireIndex \in Nat /\ acquireIndex < AcquireCount /\ AcquireCount \in Nat
  BY Counts DEF Indices
<1>2. CASE acquireIndex + 1 = AcquireCount
  <2>1. AcquireCount % AcquireCount = 0
    BY <1>1
  <2> QED BY <1>1, <1>2, <2>1 DEF NextAcquireIndex, Indices
<1>3. CASE acquireIndex + 1 < AcquireCount
  <2>1. (acquireIndex + 1) % AcquireCount = acquireIndex + 1
    BY <1>1, <1>3
  <2> QED BY <1>1, <1>3, <2>1 DEF NextAcquireIndex, Indices
<1> QED BY <1>1, <1>2, <1>3

(* A batch put at the end of the queue.                                    *)
LEMMA AppendBatch ==
  ASSUME queue \in Seq(Batches), NEW w \in SUBSET AcquireSems, NEW s \in SUBSET PresentSems,
         NEW i \in Images \cup {None}, NEW f \in Queries \cup {None},
         queue' = Append(queue, Batch(w, s, i, f))
  PROVE  /\ queue' \in Seq(Batches) /\ Len(queue) \in Nat
         /\ DOMAIN queue = 1 .. Len(queue) /\ DOMAIN queue' = 1 .. Len(queue) + 1
         /\ \A k \in DOMAIN queue : k \in DOMAIN queue' /\ queue'[k] = queue[k]
         /\ LET b == queue'[Len(queue) + 1] IN
              b.waits = w /\ b.signals = s /\ b.image = i /\ b.fence = f
<1> DEFINE x == Batch(w, s, i, f)
<1>1. x \in Batches /\ x.waits = w /\ x.signals = s /\ x.image = i /\ x.fence = f
  BY DEF Batch, Batches
<1>2. queue' = Append(queue, x)
  OBVIOUS
<1> HIDE DEF x
<1>3. /\ queue' \in Seq(Batches) /\ Len(queue) \in Nat
      /\ DOMAIN queue = 1 .. Len(queue) /\ DOMAIN queue' = 1 .. Len(queue) + 1
      /\ \A k \in DOMAIN queue : k \in DOMAIN queue' /\ queue'[k] = queue[k]
      /\ queue'[Len(queue) + 1] = x
  BY <1>1, <1>2
<1> QED BY <1>1, <1>3

(* The first batch leaves the queue.                                       *)
LEMMA TailBatch ==
  ASSUME queue \in Seq(Batches), 1 \in DOMAIN queue, queue' = Tail(queue)
  PROVE  /\ queue' \in Seq(Batches) /\ Len(queue) \in Nat
         /\ DOMAIN queue = 1 .. Len(queue) /\ DOMAIN queue' = 1 .. Len(queue) - 1
         /\ \A k \in DOMAIN queue' : k \in Nat /\ k + 1 \in DOMAIN queue /\ queue'[k] = queue[k + 1]
         /\ \A k \in DOMAIN queue : k = 1 \/ (k - 1 \in DOMAIN queue' /\ queue'[k - 1] = queue[k])
<1>1. queue # <<>>
  OBVIOUS
<1>2. /\ queue' \in Seq(Batches) /\ Len(queue) \in Nat /\ Len(queue) > 0 /\ Len(queue') = Len(queue) - 1
      /\ DOMAIN queue = 1 .. Len(queue) /\ DOMAIN queue' = 1 .. Len(queue) - 1
      /\ \A k \in 1 .. Len(queue) - 1 : queue'[k] = queue[k + 1]
  BY <1>1
<1> QED BY <1>2

(* What the batches in the queue are made of.                              *)
LEMMA QueueBatches ==
  ASSUME queue \in Seq(Batches), NEW k \in DOMAIN queue
  PROVE  /\ k \in Nat /\ k >= 1 /\ 1 \in DOMAIN queue
         /\ queue[k].waits \subseteq AcquireSems /\ queue[k].signals \subseteq PresentSems
         /\ queue[k].image \in Images \cup {None} /\ queue[k].fence \in Queries \cup {None}
<1>1. queue[k] \in Batches /\ k \in Nat /\ k >= 1 /\ 1 \in DOMAIN queue
  OBVIOUS
<1> QED BY <1>1 DEF Batches

(* A submission, accepted or refused, keeps the queue's shape.             *)
LEMMA SubmitShape ==
  ASSUME QueueShape, lost \in BOOLEAN, NEW i \in Images \cup {None}, NEW s \in SUBSET PresentSems,
         SubmitAccepted(i, s) \/ SubmitRefused
  PROVE  /\ queue' \in Seq(Batches) /\ pendWaits' = {} /\ pendSignals' = {} /\ lost' \in BOOLEAN
<1>1. CASE SubmitAccepted(i, s)
  <2>1. queue' = Append(queue, Batch(pendWaits, pendSignals \cup s, i, None))
    BY <1>1 DEF SubmitAccepted
  <2>2. queue' \in Seq(Batches)
    BY <2>1, AppendBatch DEF QueueShape
  <2> QED BY <1>1, <2>2 DEF SubmitAccepted, ClearPending
<1>2. CASE SubmitRefused
  BY <1>2 DEF SubmitRefused, ClearPending, QueueShape
<1> QED BY <1>1, <1>2

(* Every step keeps the shapes.                                            *)
LEMMA ShapeStep ==
  ASSUME Shape, Next
  PROVE  Shape'
<1> USE DEF main, pending, fences, engine, Shape
<1>1. CASE BeginFrame
  <2>1. MainShape'
    BY <1>1 DEF BeginFrame, Cancel, At, MainShape, ControlPoints
  <2>2. QueueShape'
    BY <1>1 DEF BeginFrame, Cancel, At, QueueShape
  <2>3. FenceShape'
    BY <1>1 DEF BeginFrame, Cancel, At, FenceShape
  <2>4. EngineShape'
    BY <1>1 DEF BeginFrame, Cancel, At, EngineShape
  <2> QED BY <2>1, <2>2, <2>3, <2>4
<1>2. CASE AcquireNextImage
  <2>1. MainShape'
    BY <1>2, NextIndex DEF AcquireNextImage, At, MainShape, ControlPoints
  <2>2. QueueShape'
    BY <1>2, SemSets DEF AcquireNextImage, At, MainShape, QueueShape
  <2>3. FenceShape'
    BY <1>2 DEF AcquireNextImage, At, FenceShape
  <2>4. EngineShape'
    BY <1>2, SemSets DEF AcquireNextImage, At, MainShape, EngineShape
  <2> QED BY <2>1, <2>2, <2>3, <2>4
<1>3. CASE AcquireFails
  <2>1. MainShape'
    BY <1>3 DEF AcquireFails, At, MainShape, ControlPoints
  <2>2. QueueShape'
    BY <1>3 DEF AcquireFails, At, QueueShape
  <2>3. FenceShape'
    BY <1>3 DEF AcquireFails, At, FenceShape
  <2>4. EngineShape'
    BY <1>3 DEF AcquireFails, At, EngineShape
  <2> QED BY <2>1, <2>2, <2>3, <2>4
<1>4. CASE RenderSubmit
  <2>z. SubmitAccepted(image, {}) \/ SubmitRefused
    BY <1>4 DEF RenderSubmit
  <2>0. queue' \in Seq(Batches) /\ pendWaits' \subseteq AcquireSems /\ pendSignals' \subseteq PresentSems /\ lost' \in BOOLEAN
    <3>1. image \in Images \cup {None} /\ {} \in SUBSET PresentSems /\ lost \in BOOLEAN /\ QueueShape
      BY DEF MainShape
    <3>2. queue' \in Seq(Batches) /\ pendWaits' = {} /\ pendSignals' = {} /\ lost' \in BOOLEAN
      BY <2>z, <3>1, SubmitShape
    <3> QED BY <3>2
  <2>1. MainShape'
    BY <1>4, <2>0 DEF RenderSubmit, At, MainShape, ControlPoints
  <2>2. QueueShape'
    BY <2>z, <1>4, <2>0 DEF RenderSubmit, At, QueueShape
  <2>3. FenceShape'
    BY <2>z, <1>4 DEF RenderSubmit, At, FenceShape
  <2>4. EngineShape'
    BY <2>z, <1>4 DEF RenderSubmit, At, EngineShape
  <2> QED BY <2>1, <2>2, <2>3, <2>4
<1>5. CASE SubmitTerminal
  <2>0. queue' \in Seq(Batches) /\ pendWaits' \subseteq AcquireSems /\ pendSignals' \subseteq PresentSems /\ lost' \in BOOLEAN
    BY <1>5, SubmitShape, SemSets DEF SubmitTerminal, At, MainShape, QueueShape
  <2>1. MainShape'
    BY <1>5, <2>0 DEF SubmitTerminal, At, MainShape, ControlPoints
  <2>2. QueueShape'
    BY <1>5, <2>0 DEF SubmitTerminal, At, QueueShape
  <2>3. FenceShape'
    BY <1>5 DEF SubmitTerminal, At, FenceShape
  <2>4. EngineShape'
    BY <1>5 DEF SubmitTerminal, At, EngineShape
  <2> QED BY <2>1, <2>2, <2>3, <2>4
<1>6. CASE CancelTerminal
  <2>1. MainShape'
    BY <1>6 DEF CancelTerminal, Cancel, At, MainShape, ControlPoints
  <2>2. QueueShape'
    BY <1>6 DEF CancelTerminal, Cancel, At, QueueShape
  <2>3. FenceShape'
    BY <1>6 DEF CancelTerminal, Cancel, At, FenceShape
  <2>4. EngineShape'
    BY <1>6 DEF CancelTerminal, Cancel, At, EngineShape
  <2> QED BY <2>1, <2>2, <2>3, <2>4
<1>7. CASE RenderNothing
  <2>1. MainShape'
    BY <1>7 DEF RenderNothing, At, MainShape, ControlPoints
  <2>2. QueueShape'
    BY <1>7 DEF RenderNothing, At, QueueShape
  <2>3. FenceShape'
    BY <1>7 DEF RenderNothing, At, FenceShape
  <2>4. EngineShape'
    BY <1>7 DEF RenderNothing, At, EngineShape
  <2> QED BY <2>1, <2>2, <2>3, <2>4
<1>8. CASE AbortFrame
  <2>1. MainShape'
    BY <1>8 DEF AbortFrame, At, MainShape, ControlPoints
  <2>2. QueueShape'
    BY <1>8 DEF AbortFrame, At, QueueShape
  <2>3. FenceShape'
    BY <1>8 DEF AbortFrame, At, FenceShape
  <2>4. EngineShape'
    BY <1>8 DEF AbortFrame, At, EngineShape
  <2> QED BY <2>1, <2>2, <2>3, <2>4
<1>9. CASE QueueFallbackSignal
  <2>1. MainShape'
    BY <1>9 DEF QueueFallbackSignal, At, MainShape, ControlPoints
  <2>2. QueueShape'
    BY <1>9, SemSets DEF QueueFallbackSignal, At, MainShape, QueueShape
  <2>3. FenceShape'
    BY <1>9 DEF QueueFallbackSignal, At, FenceShape
  <2>4. EngineShape'
    BY <1>9 DEF QueueFallbackSignal, At, EngineShape
  <2> QED BY <2>1, <2>2, <2>3, <2>4
<1>10. CASE SubmitFallback
  <2>0. queue' \in Seq(Batches) /\ pendWaits' \subseteq AcquireSems /\ pendSignals' \subseteq PresentSems /\ lost' \in BOOLEAN
    BY <1>10, SubmitShape, SemSets DEF SubmitFallback, At, MainShape, QueueShape
  <2>1. MainShape'
    BY <1>10, <2>0 DEF SubmitFallback, At, MainShape, ControlPoints
  <2>2. QueueShape'
    BY <1>10, <2>0 DEF SubmitFallback, At, QueueShape
  <2>3. FenceShape'
    BY <1>10 DEF SubmitFallback, At, FenceShape
  <2>4. EngineShape'
    BY <1>10 DEF SubmitFallback, At, EngineShape
  <2> QED BY <2>1, <2>2, <2>3, <2>4
<1>11. CASE QueuePresent
  <2>1. MainShape'
    BY <1>11 DEF QueuePresent, At, MainShape, ControlPoints
  <2>2. QueueShape'
    BY <1>11 DEF QueuePresent, At, QueueShape
  <2>3. FenceShape'
    BY <1>11 DEF QueuePresent, At, FenceShape
  <2>d. Append(presents, image) \in Seq(Images) /\ [owner EXCEPT ![image] = "queued"] \in [Images -> {"engine", "app", "queued"}]
    BY DEF EngineShape, MainShape
  <2>4. EngineShape'
    BY <1>11, <2>d DEF QueuePresent, At, EngineShape
  <2> QED BY <2>1, <2>2, <2>3, <2>4
<1>12. CASE Throttle
  <2>1. MainShape'
    BY <1>12 DEF Throttle, At, MainShape, ControlPoints
  <2>2. QueueShape'
    BY <1>12 DEF Throttle, At, QueueShape
  <2>3. FenceShape'
    <3>1. CASE Len(inFlight) >= M
      <4>1. inFlight # <<>>
        BY <3>1, Counts DEF FenceShape
      <4>2. Head(inFlight) \in Queries /\ Tail(inFlight) \in Seq(Queries)
        BY <4>1 DEF FenceShape
      <4> QED BY <1>12, <3>1, <4>2 DEF Throttle, FenceShape
    <3>2. CASE ~(Len(inFlight) >= M)
      BY <1>12, <3>2 DEF Throttle, FenceShape
    <3> QED BY <3>1, <3>2
  <2>4. EngineShape'
    BY <1>12 DEF Throttle, At, EngineShape
  <2> QED BY <2>1, <2>2, <2>3, <2>4
<1>13. CASE SetEventQuery
  <2>1. MainShape'
    BY <1>13 DEF SetEventQuery, At, MainShape, ControlPoints
  <2>a. queue' \in Seq(Batches)
    <3>1. PICK q \in pool : queue' = queue \/ queue' = Append(queue, Batch({}, {}, None, q))
      BY <1>13 DEF SetEventQuery
    <3> QED BY <3>1, AppendBatch DEF QueueShape, FenceShape
  <2>2. QueueShape'
    BY <1>13, <2>a DEF SetEventQuery, At, QueueShape
  <2>3. FenceShape'
    BY <1>13 DEF SetEventQuery, At, FenceShape
  <2>4. EngineShape'
    BY <1>13 DEF SetEventQuery, At, EngineShape
  <2> QED BY <2>1, <2>2, <2>3, <2>4
<1>14. CASE ResizeSwapChain
  <2>1. MainShape'
    BY <1>14, Counts DEF ResizeSwapChain, At, MainShape, ControlPoints
  <2>2. QueueShape'
    BY <1>14 DEF ResizeSwapChain, At, QueueShape
  <2>3. FenceShape'
    BY <1>14 DEF ResizeSwapChain, At, FenceShape
  <2>4. EngineShape'
    BY <1>14 DEF ResizeSwapChain, At, EngineShape
  <2> QED BY <2>1, <2>2, <2>3, <2>4
<1>15. CASE OtherSubmit
  <2>0. queue' \in Seq(Batches) /\ pendWaits' \subseteq AcquireSems /\ pendSignals' \subseteq PresentSems /\ lost' \in BOOLEAN
    BY <1>15, SubmitShape, SemSets DEF OtherSubmit, MainShape, QueueShape
  <2>1. MainShape'
    BY <1>15, <2>0 DEF OtherSubmit, MainShape, ControlPoints
  <2>2. QueueShape'
    BY <1>15, <2>0 DEF OtherSubmit, QueueShape
  <2>3. FenceShape'
    BY <1>15 DEF OtherSubmit, FenceShape
  <2>4. EngineShape'
    BY <1>15 DEF OtherSubmit, EngineShape
  <2> QED BY <2>1, <2>2, <2>3, <2>4
<1>16. CASE ExecuteBatch
  <2>1. MainShape'
    BY <1>16 DEF ExecuteBatch, MainShape, ControlPoints
  <2>a. 1 \in DOMAIN queue /\ queue' = Tail(queue)
    BY <1>16 DEF ExecuteBatch, Ready
  <2>b. queue' \in Seq(Batches)
    BY <2>a, TailBatch DEF QueueShape
  <2>c. queue[1].signals \subseteq Sems
    BY <2>a, QueueBatches, SemSets DEF QueueShape
  <2>2. QueueShape'
    BY <1>16, <2>b, <2>c DEF ExecuteBatch, QueueShape
  <2>3. FenceShape'
    BY <1>16, <2>a, QueueBatches DEF ExecuteBatch, FenceShape, QueueShape
  <2>4. EngineShape'
    BY <1>16 DEF ExecuteBatch, EngineShape
  <2> QED BY <2>1, <2>2, <2>3, <2>4
<1>17. CASE TakePresent
  <2>1. MainShape'
    BY <1>17 DEF TakePresent, MainShape, ControlPoints
  <2>2. QueueShape'
    BY <1>17 DEF TakePresent, QueueShape
  <2>3. FenceShape'
    BY <1>17 DEF TakePresent, FenceShape
  <2>d. Head(presents) \in Images /\ Tail(presents) \in Seq(Images)
    BY <1>17 DEF TakePresent, EngineShape
  <2>4. EngineShape'
    BY <1>17, <2>d DEF TakePresent, EngineShape
  <2> QED BY <2>1, <2>2, <2>3, <2>4
<1>18. ASSUME NEW i \in Images, StopReading(i) PROVE Shape'
  <2>1. MainShape'
    BY <1>18 DEF StopReading, MainShape, ControlPoints
  <2>2. QueueShape'
    BY <1>18, SemSets DEF StopReading, EngineShape, QueueShape
  <2>3. FenceShape'
    BY <1>18 DEF StopReading, FenceShape
  <2>4. EngineShape'
    BY <1>18 DEF StopReading, EngineShape
  <2> QED BY <2>1, <2>2, <2>3, <2>4
<1>19. CASE ResetFenceInUse
  BY <1>19 DEF ResetFenceInUse, MainShape, QueueShape, FenceShape, EngineShape
<1> QED BY <1>1, <1>2, <1>3, <1>4, <1>5, <1>6, <1>7, <1>8, <1>9, <1>10, <1>11, <1>12, <1>13,
    <1>14, <1>15, <1>16, <1>17, <1>18, <1>19 DEF Next, RenderThread

-----------------------------------------------------------------------------
(* The fences.                                                             *)

FencesOK == PoolOK /\ DeviceFences

(* A step away from the fences.                                            *)
LEMMA FencesSame ==
  ASSUME FencesOK, UNCHANGED <<pool, inFlight, started, fenced, queue>>,
         pc' = "setQuery" => pc = "setQuery"
  PROVE  FencesOK'
  BY DEF FencesOK, PoolOK, DeviceFences

(* A submission without a fence.                                           *)
LEMMA FencesSubmit ==
  ASSUME Shape, FencesOK, UNCHANGED <<pool, inFlight, started, fenced>>,
         NEW i \in Images \cup {None}, NEW s \in SUBSET PresentSems,
         SubmitAccepted(i, s) \/ SubmitRefused, pc' = "setQuery" => pc = "setQuery"
  PROVE  FencesOK'
<1>1. CASE SubmitRefused
  BY <1>1, FencesSame DEF SubmitRefused
<1>2. CASE SubmitAccepted(i, s)
  <2>1. queue' = Append(queue, Batch(pendWaits, pendSignals \cup s, i, None))
    BY <1>2 DEF SubmitAccepted
  <2>2. /\ \A k \in DOMAIN queue : queue'[k] = queue[k]
        /\ \A k \in DOMAIN queue' : k \in DOMAIN queue \/ queue'[k].fence = None
    <3>1. /\ Len(queue) \in Nat
          /\ DOMAIN queue = 1 .. Len(queue) /\ DOMAIN queue' = 1 .. Len(queue) + 1
          /\ \A k \in DOMAIN queue : k \in DOMAIN queue' /\ queue'[k] = queue[k]
          /\ queue'[Len(queue) + 1].fence = None
      BY <2>1, AppendBatch DEF Shape, QueueShape
    <3> QED BY <3>1
  <2> QED BY <2>2 DEF FencesOK, PoolOK, DeviceFences
<1> QED BY <1>1, <1>2

(* The query that comes back to the pool was waited for, and its fence is  *)
(* not with the device any more, or it stays started.                      *)
LEMMA FencesThrottle ==
  ASSUME Shape, FencesOK, Throttle
  PROVE  FencesOK'
<1> USE DEF Shape
<1>1. pc' = "setQuery" /\ UNCHANGED <<queue, fenced>>
  BY DEF Throttle
<1>2. Len(inFlight) \in Nat /\ inFlight \in Seq(Queries) /\ M \in Nat /\ M > 0
  BY Counts DEF FenceShape
<1>3. CASE Len(inFlight) >= M
  <2>1. inFlight # <<>>
    BY <1>2, <1>3
  <2>2. PICK q \in Queries : q = Head(inFlight)
    BY <1>2, <2>1
  <2>3. /\ pool' = pool \cup {q} /\ inFlight' = Tail(inFlight)
        /\ \/ started' = started \ {q} /\ (q \in started => q \in fenced)
           \/ started' = started
    BY <1>3, <2>2 DEF Throttle, WaitEventQuery
  <2>4. /\ Len(inFlight') = Len(inFlight) - 1 /\ 1 \in DOMAIN inFlight /\ q = inFlight[1]
        /\ \A k \in DOMAIN inFlight' : k \in Nat /\ k >= 1 /\ k + 1 \in DOMAIN inFlight /\ inFlight'[k] = inFlight[k + 1]
    BY <1>2, <2>1, <2>2, <2>3
  <2>5. q \notin pool /\ \A k \in DOMAIN inFlight : inFlight[k] = q => k = 1
    BY <2>4 DEF FencesOK, PoolOK
  <2>6. PoolOK'
    <3>1. \A k \in DOMAIN inFlight' : inFlight'[k] \notin pool'
      <4>1. ASSUME NEW k \in DOMAIN inFlight' PROVE inFlight'[k] \notin pool'
        <5>1. k + 1 \in DOMAIN inFlight /\ inFlight'[k] = inFlight[k + 1] /\ k + 1 # 1
          BY <2>4
        <5>2. inFlight[k + 1] \notin pool /\ inFlight[k + 1] # q
          BY <2>5, <5>1 DEF FencesOK, PoolOK
        <5> QED BY <2>3, <5>1, <5>2
      <4> QED BY <4>1
    <3>2. \A j, k \in DOMAIN inFlight' : inFlight'[j] = inFlight'[k] => j = k
      <4>1. ASSUME NEW j \in DOMAIN inFlight', NEW k \in DOMAIN inFlight', inFlight'[j] = inFlight'[k]
            PROVE  j = k
        <5>1. j + 1 = k + 1
          BY <2>4, <4>1 DEF FencesOK, PoolOK
        <5> QED BY <2>4, <5>1
      <4> QED BY <4>1
    <3>3. Cardinality(pool') = Cardinality(pool) + 1 /\ Cardinality(pool) \in Nat
      <4>1. IsFiniteSet(Queries)
        BY FS_Interval, Counts DEF Queries
      <4>2. IsFiniteSet(pool)
        BY <4>1, FS_Subset DEF FenceShape
      <4> QED BY <2>3, <2>5, <4>2, FS_AddElement, FS_CardinalityType
    <3> QED BY <1>2, <1>3, <2>4, <3>1, <3>2, <3>3 DEF FencesOK, PoolOK
  <2>7. DeviceFences'
    <3>1. CASE started' = started
      BY <1>1, <3>1 DEF FencesOK, DeviceFences
    <3>2. CASE started' = started \ {q} /\ (q \in started => q \in fenced)
      <4>1. \A k \in DOMAIN queue : queue[k].fence # q
        BY <3>2, Counts DEF FencesOK, DeviceFences
      <4> QED BY <1>1, <3>2, <4>1 DEF FencesOK, DeviceFences
    <3> QED BY <2>3, <3>1, <3>2
  <2> QED BY <2>6, <2>7 DEF FencesOK
<1>4. CASE ~(Len(inFlight) >= M)
  <2>1. UNCHANGED <<pool, inFlight, started>> /\ Len(inFlight) < M
    BY <1>2, <1>4 DEF Throttle, fences
  <2> QED BY <1>1, <2>1 DEF FencesOK, PoolOK, DeviceFences
<1> QED BY <1>3, <1>4

(* A query leaves the pool with its fence reset, and is with the device    *)
(* once, unless its submission failed.                                     *)
LEMMA FencesSet ==
  ASSUME Shape, FencesOK, SetEventQuery
  PROVE  FencesOK'
<1> USE DEF Shape
<1>1. PICK q \in pool :
        /\ ~WithDevice(q)
        /\ pool' = pool \ {q} /\ inFlight' = Append(inFlight, q) /\ fenced' = fenced \ {q}
        /\ \/ queue' = Append(queue, Batch({}, {}, None, q)) /\ started' = started \cup {q}
           \/ started' = started \ {q} /\ queue' = queue
  BY DEF SetEventQuery
<1>2. pc = "setQuery" /\ pc' = "idle" /\ q \in Queries /\ q # None
  BY Counts DEF SetEventQuery, At, FenceShape
<1>3. \A k \in DOMAIN queue : queue[k].fence # q
  BY <1>1 DEF WithDevice
<1>4. PoolOK'
  <2>1. /\ Len(inFlight) \in Nat /\ DOMAIN inFlight = 1 .. Len(inFlight)
        /\ Len(inFlight') = Len(inFlight) + 1
        /\ DOMAIN inFlight' = 1 .. Len(inFlight) + 1
        /\ \A k \in DOMAIN inFlight : inFlight'[k] = inFlight[k]
        /\ inFlight'[Len(inFlight) + 1] = q
    BY <1>1, <1>2 DEF FenceShape
  <2>2. \A k \in DOMAIN inFlight' : k \in DOMAIN inFlight \/ k = Len(inFlight) + 1
    BY <2>1
  <2>3. \A k \in DOMAIN inFlight : inFlight[k] # q
    BY DEF FencesOK, PoolOK
  <2>4. Cardinality(pool') = Cardinality(pool) - 1 /\ Cardinality(pool) \in Nat
    <3>1. IsFiniteSet(Queries)
      BY FS_Interval, Counts DEF Queries
    <3>2. IsFiniteSet(pool)
      BY <3>1, FS_Subset DEF FenceShape
    <3> QED BY <1>1, <3>2, FS_RemoveElement, FS_CardinalityType
  <2>5. \A k \in DOMAIN inFlight' : inFlight'[k] \notin pool'
    BY <1>1, <2>1, <2>2 DEF FencesOK, PoolOK
  <2>6. \A j, k \in DOMAIN inFlight' : inFlight'[j] = inFlight'[k] => j = k
    BY <2>1, <2>2, <2>3 DEF FencesOK, PoolOK
  <2> QED BY <1>2, <2>1, <2>4, <2>5, <2>6 DEF FencesOK, PoolOK
<1>5. DeviceFences'
  <2>1. CASE queue' = queue /\ started' = started \ {q}
    BY <1>1, <1>3, <2>1 DEF FencesOK, DeviceFences
  <2>2. CASE queue' = Append(queue, Batch({}, {}, None, q)) /\ started' = started \cup {q}
    <3>1. /\ Len(queue) \in Nat
          /\ DOMAIN queue = 1 .. Len(queue) /\ DOMAIN queue' = 1 .. Len(queue) + 1
          /\ \A k \in DOMAIN queue : k \in DOMAIN queue' /\ queue'[k] = queue[k]
          /\ queue'[Len(queue) + 1].fence = q
      BY <1>2, <2>2, AppendBatch DEF QueueShape
    <3>2. \A k \in DOMAIN queue' : k \in DOMAIN queue \/ k = Len(queue) + 1
      BY <3>1
    <3> QED BY <1>1, <1>3, <2>2, <3>1, <3>2 DEF FencesOK, DeviceFences
  <2> QED BY <1>1, <2>1, <2>2
<1> QED BY <1>4, <1>5 DEF FencesOK

(* The device signals the fence of the batch it has executed.              *)
LEMMA FencesExecute ==
  ASSUME Shape, FencesOK, ExecuteBatch
  PROVE  FencesOK'
<1> USE DEF Shape
<1>1. /\ 1 \in DOMAIN queue /\ queue' = Tail(queue) /\ UNCHANGED <<pool, inFlight, started, pc>>
      /\ fenced' = IF queue[1].fence = None THEN fenced ELSE fenced \cup {queue[1].fence}
  BY DEF ExecuteBatch, Ready, main, fences
<1>2. \A k \in DOMAIN queue' : k \in Nat /\ k >= 1 /\ k + 1 \in DOMAIN queue /\ queue'[k] = queue[k + 1]
  <2>1. /\ Len(queue) \in Nat /\ DOMAIN queue' = 1 .. Len(queue) - 1
        /\ \A k \in DOMAIN queue' : k \in Nat /\ k + 1 \in DOMAIN queue /\ queue'[k] = queue[k + 1]
    BY <1>1, TailBatch DEF QueueShape
  <2> QED BY <2>1
<1>3. ASSUME NEW k \in DOMAIN queue', queue'[k].fence # None
      PROVE  /\ queue'[k].fence \in started' /\ queue'[k].fence \notin fenced'
             /\ \A j \in DOMAIN queue' : queue'[j].fence = queue'[k].fence => j = k
  <2>1. k + 1 \in DOMAIN queue /\ queue'[k] = queue[k + 1] /\ k + 1 # 1
    BY <1>2
  <2>2. /\ queue[k + 1].fence \in started /\ queue[k + 1].fence \notin fenced
        /\ \A j \in DOMAIN queue : queue[j].fence = queue[k + 1].fence => j = k + 1
    BY <1>3, <2>1 DEF FencesOK, DeviceFences
  <2>3. queue[1].fence # queue[k + 1].fence
    BY <1>1, <2>1, <2>2
  <2>4. ASSUME NEW j \in DOMAIN queue', queue'[j].fence = queue'[k].fence PROVE j = k
    <3>1. j + 1 = k + 1
      BY <1>2, <2>1, <2>2, <2>4
    <3> QED BY <1>2, <3>1
  <2> QED BY <1>1, <2>1, <2>2, <2>3, <2>4
<1> QED BY <1>1, <1>3 DEF FencesOK, PoolOK, DeviceFences

(* Every step keeps the fences in order.                                   *)
LEMMA FencesStep ==
  ASSUME Shape, FencesOK, Next
  PROVE  FencesOK'
<1> USE DEF main, pending, fences, engine
<1>1. CASE \/ BeginFrame \/ AcquireNextImage \/ AcquireFails \/ CancelTerminal \/ RenderNothing
           \/ AbortFrame \/ QueueFallbackSignal \/ QueuePresent
  <2>1. UNCHANGED <<pool, inFlight, started, fenced, queue>> /\ pc' # "setQuery"
    BY <1>1 DEF BeginFrame, AcquireNextImage, AcquireFails, CancelTerminal, RenderNothing,
                AbortFrame, QueueFallbackSignal, QueuePresent
  <2> QED BY <2>1, FencesSame
<1>2. CASE ResizeSwapChain \/ TakePresent \/ \E i \in Images : StopReading(i)
  <2>1. UNCHANGED <<pool, inFlight, started, fenced, queue>> /\ (pc' = "setQuery" => pc = "setQuery")
    BY <1>2 DEF ResizeSwapChain, TakePresent, StopReading
  <2> QED BY <2>1, FencesSame
<1>3. CASE OtherSubmit
  <2>1. SubmitAccepted(None, {}) \/ SubmitRefused
    BY <1>3 DEF OtherSubmit
  <2> QED BY <1>3, <2>1, FencesSubmit DEF OtherSubmit
<1>4. CASE RenderSubmit
  <2>1. SubmitAccepted(image, {}) \/ SubmitRefused
    BY <1>4 DEF RenderSubmit
  <2>2. image \in Images \cup {None} /\ UNCHANGED <<pool, inFlight, started, fenced>> /\ pc' = "terminal"
    BY <1>4 DEF RenderSubmit, Shape, MainShape
  <2>3. {} \in SUBSET PresentSems
    OBVIOUS
  <2> QED BY <2>1, <2>2, <2>3, FencesSubmit
<1>5. CASE SubmitTerminal
  <2>1. /\ image \in Images \cup {None} /\ UNCHANGED <<pool, inFlight, started, fenced>> /\ pc' # "setQuery"
        /\ {PresentSem(image)} \in SUBSET PresentSems
    BY <1>5, SemSets DEF SubmitTerminal, Shape, MainShape
  <2>2. CASE SubmitAccepted(image, {PresentSem(image)}) \/ SubmitRefused
    BY <2>1, <2>2, FencesSubmit
  <2>3. CASE UNCHANGED queue
    BY <2>1, <2>3, FencesSame
  <2> QED BY <1>5, <2>2, <2>3 DEF SubmitTerminal
<1>6. CASE SubmitFallback
  <2>1. UNCHANGED <<pool, inFlight, started, fenced>> /\ pc' # "setQuery"
    BY <1>6 DEF SubmitFallback
  <2>2. CASE SubmitAccepted(None, {}) \/ SubmitRefused
    BY <2>1, <2>2, FencesSubmit
  <2>3. CASE UNCHANGED queue
    BY <2>1, <2>3, FencesSame
  <2> QED BY <1>6, <2>2, <2>3 DEF SubmitFallback
<1>7. CASE ResetFenceInUse
  BY <1>7, FencesSame DEF ResetFenceInUse
<1> QED BY <1>1, <1>2, <1>3, <1>4, <1>5, <1>6, <1>7, FencesThrottle, FencesSet, FencesExecute
        DEF Next, RenderThread

-----------------------------------------------------------------------------
(* The acquire semaphores and the images they keep from the engine.        *)

AcquireHalf ==
  /\ \A a \in Indices : AcquireOK(a)
  /\ OrderOK /\ DrawOK /\ ReadOK
  /\ \E img \in [Indices -> Images] : KeepOK(img)

(* Steps that leave them alone; a present semaphore may lose its signal.   *)
LEMMA AcquireSame ==
  ASSUME Shape, AcquireHalf, UNCHANGED <<queue, pendWaits, acquireIndex, release, reading>>,
         sem' \subseteq sem, \A s \in AcquireSems : s \in sem => s \in sem',
         \A i \in Images : owner'[i] = "engine" <=> owner[i] = "engine"
  PROVE  AcquireHalf'
<1> USE DEF AcquireHalf
<1>0. \A a \in Indices : AcquireSem(a) \in sem' <=> AcquireSem(a) \in sem
  BY SemSets
<1>1. \A a \in Indices : AcquireOK(a)'
  BY <1>0 DEF AcquireOK, QueuedWait, Busy, Released
<1>2. OrderOK'
  BY DEF OrderOK, Age
<1>3. \A i \in Images, k \in DOMAIN queue : AheadOfPresent(i, k) => AheadOfPresent(i, k)'
  BY DEF AheadOfPresent
<1>4. DrawOK'
  <2>1. \A k \in DOMAIN queue : queue[k].image \in Images \cup {None}
    BY QueueBatches DEF Shape, QueueShape
  <2> QED BY <2>1 DEF DrawOK, AheadOfPresent
<1>5. ReadOK'
  BY DEF ReadOK
<1>6. \E img \in [Indices -> Images] : KeepOK(img)'
  <2>1. PICK img \in [Indices -> Images] : KeepOK(img)
    OBVIOUS
  <2>2. \A a \in Indices, i \in Images : Keeps(a, i) => Keeps(a, i)'
    BY <1>3 DEF Keeps, QueuedSignal
  <2>3. KeepOK(img)'
    BY <2>1, <2>2 DEF KeepOK, Busy, QueuedWait
  <2> QED BY <2>3
<1> QED BY <1>1, <1>2, <1>4, <1>5, <1>6

(* A submission takes the pending waits along: they keep their order, and  *)
(* what it draws to or signals comes behind them.                          *)
LEMMA AcquireSubmit ==
  ASSUME Shape, AcquireHalf, NEW S \in SUBSET PresentSems, NEW i \in Images \cup {None},
         NEW f \in Queries \cup {None}, queue' = Append(queue, Batch(pendWaits, S, i, f)),
         pendWaits' = {}, UNCHANGED <<acquireIndex, release, reading, owner, sem>>,
         i # None => /\ owner[i] # "engine" /\ PresentSem(i) \notin sem
                     /\ ~QueuedSignal(PresentSem(i))
  PROVE  AcquireHalf'
<1> USE DEF AcquireHalf
<1>0. PICK L \in Nat :
      /\ L \in DOMAIN queue'
      /\ \A k \in DOMAIN queue : k \in DOMAIN queue' /\ queue'[k] = queue[k] /\ k < L /\ k \in Nat
      /\ \A k \in DOMAIN queue' : k \in DOMAIN queue \/ k = L
      /\ queue'[L].waits = pendWaits /\ queue'[L].signals = S /\ queue'[L].image = i
  <2>1. pendWaits \in SUBSET AcquireSems /\ queue \in Seq(Batches)
    BY DEF Shape, QueueShape
  <2>2. /\ Len(queue) \in Nat /\ DOMAIN queue = 1 .. Len(queue) /\ DOMAIN queue' = 1 .. Len(queue) + 1
        /\ \A k \in DOMAIN queue : k \in DOMAIN queue' /\ queue'[k] = queue[k]
        /\ LET b == queue'[Len(queue) + 1] IN
             b.waits = pendWaits /\ b.signals = S /\ b.image = i /\ b.fence = f
    BY <2>1, AppendBatch
  <2> QED BY <2>2
<1>1. /\ \A s : QueuedWait(s)' <=> QueuedWait(s) \/ s \in pendWaits
      /\ \A a : Busy(a)' <=> Busy(a)
  BY <1>0 DEF QueuedWait, Busy
<1>2. ASSUME NEW a \in Indices PROVE AcquireOK(a)'
  <2>1. AcquireOK(a)
    OBVIOUS
  <2>2. \A j, k \in DOMAIN queue' :
          (AcquireSem(a) \in queue'[j].waits /\ AcquireSem(a) \in queue'[k].waits) => j = k
    BY <1>0, <2>1 DEF AcquireOK, QueuedWait
  <2>3. Released(AcquireSem(a))' <=> Released(AcquireSem(a))
    BY DEF Released
  <2> QED BY <1>1, <2>1, <2>2, <2>3 DEF AcquireOK
<1>3. OrderOK'
  <2>1. \A a \in Indices : Age(a)' = Age(a)
    BY DEF Age
  <2>2. \A a \in Indices : Age(a) \in Nat
    BY Counts DEF Age, Shape, MainShape, Indices
  <2>3. ASSUME NEW a \in Indices, NEW b \in Indices, NEW k \in DOMAIN queue',
               AcquireSem(a) \in queue'[k].waits, Age(b) < Age(a)
        PROVE  \E j \in DOMAIN queue' : k < j /\ AcquireSem(b) \in queue'[j].waits
    <3>1. CASE k \in DOMAIN queue
      <4>1. AcquireSem(a) \in queue[k].waits
        BY <1>0, <2>3, <3>1
      <4>2. \/ AcquireSem(b) \in pendWaits
            \/ \E j \in DOMAIN queue : k < j /\ AcquireSem(b) \in queue[j].waits
        BY <2>3, <3>1, <4>1 DEF OrderOK
      <4> QED BY <1>0, <3>1, <4>2
    <3>2. CASE k = L
      <4>1. Age(a) = 0
        BY <1>0, <2>3, <3>2 DEF OrderOK
      <4> QED BY <2>2, <2>3, <4>1
    <3> QED BY <1>0, <3>1, <3>2
  <2> QED BY <2>1, <2>3 DEF OrderOK
<1>4. \A j \in Images, k \in DOMAIN queue : AheadOfPresent(j, k) => AheadOfPresent(j, k)'
  <2>1. ASSUME NEW j \in Images, NEW k \in DOMAIN queue, AheadOfPresent(j, k),
               NEW m \in DOMAIN queue', PresentSem(j) \in queue'[m].signals
        PROVE  k <= m
    BY <1>0, <2>1 DEF AheadOfPresent
  <2> QED BY <2>1 DEF AheadOfPresent
<1>5. \A j \in Images : (owner[j] # "engine" /\ PresentSem(j) \notin sem /\ ~QueuedSignal(PresentSem(j)))
         => AheadOfPresent(j, L)'
  BY <1>0 DEF AheadOfPresent, QueuedSignal
<1>6. DrawOK'
  <2> SUFFICES ASSUME NEW k \in DOMAIN queue', queue'[k].image # None
               PROVE  /\ AheadOfPresent(queue[k].image, k)'
                      /\ release'[queue'[k].image] # NoSem =>
                           \E j \in DOMAIN queue' : j <= k /\ release'[queue'[k].image] \in queue'[j].waits
    BY DEF DrawOK
  <2>1. CASE k \in DOMAIN queue
    <3>1. queue'[k].image = queue[k].image /\ queue[k].image \in Images
      BY <1>0, <2>1, QueueBatches DEF Shape, QueueShape
    <3>2. PICK x \in Images : x = queue[k].image
      BY <3>1
    <3>3. AheadOfPresent(x, k)' /\ (release[x] # NoSem => \E j \in DOMAIN queue : j <= k /\ release[x] \in queue[j].waits)
      BY <1>4, <2>1, <3>1, <3>2 DEF DrawOK
    <3>4. release[x] # NoSem => \E j \in DOMAIN queue' : j <= k /\ release[x] \in queue'[j].waits
      BY <1>0, <3>3
    <3>5. AheadOfPresent(queue[k].image, k)'
      BY <3>1, <3>2, <3>3 DEF AheadOfPresent
    <3> QED BY <3>1, <3>2, <3>4, <3>5
  <2>2. CASE k = L
    <3>1. i \in Images /\ queue'[k].image = i
      BY <1>0, <2>2
    <3>2. AheadOfPresent(i, L)'
      BY <1>0, <1>5, <2>2, <3>1
    <3>3. ASSUME release[i] # NoSem
          PROVE  \E j \in DOMAIN queue' : j <= L /\ release[i] \in queue'[j].waits
      <4>1. PICK a \in Indices : release[i] = AcquireSem(a)
        BY <3>1, <3>3 DEF Shape, EngineShape, AcquireSems
      <4>2. Busy(a)
        BY <3>1, <4>1 DEF AcquireOK, Released
      <4> QED BY <1>0, <4>1, <4>2 DEF Busy, QueuedWait
    <3>4. AheadOfPresent(queue[k].image, k)'
      BY <2>2, <3>1, <3>2 DEF AheadOfPresent
    <3> QED BY <2>2, <3>1, <3>3, <3>4
  <2> QED BY <1>0, <2>1, <2>2
<1>7. ReadOK'
  BY DEF ReadOK
<1>8. \E img \in [Indices -> Images] : KeepOK(img)'
  <2>1. PICK img \in [Indices -> Images] : KeepOK(img)
    OBVIOUS
  <2>2. ASSUME NEW a \in Indices, NEW j \in Images, Keeps(a, j) PROVE Keeps(a, j)'
    <3>1. ASSUME NEW k \in DOMAIN queue', AcquireSem(a) \in queue'[k].waits
          PROVE  AheadOfPresent(j, k)'
      <4>1. CASE k \in DOMAIN queue
        BY <1>0, <1>4, <2>2, <3>1, <4>1 DEF Keeps
      <4>2. CASE k = L
        BY <1>0, <1>5, <2>2, <3>1, <4>2 DEF Keeps
      <4> QED BY <1>0, <4>1, <4>2
    <3> QED BY <3>1 DEF Keeps
  <2>3. KeepOK(img)'
    BY <1>1, <2>1, <2>2 DEF KeepOK
  <2> QED BY <2>3
<1> QED BY <1>2, <1>3, <1>6, <1>7, <1>8

(* The device executes the oldest batch: its waits are consumed together   *)
(* with their signals, and no batch behind it was ahead of what it signals.*)
LEMMA AcquireExecute ==
  ASSUME Shape, AcquireHalf, ExecuteBatch
  PROVE  AcquireHalf'
<1> USE DEF AcquireHalf
<1>0. /\ 1 \in DOMAIN queue /\ queue' = Tail(queue) /\ queue[1].waits \subseteq sem
      /\ sem' = (sem \ queue[1].waits) \cup queue[1].signals
      /\ UNCHANGED <<acquireIndex, pendWaits, release, reading, owner>>
  BY DEF ExecuteBatch, Ready, main, pending, engine
<1>1. /\ \A k \in DOMAIN queue' : k \in Nat /\ k >= 1 /\ k + 1 \in DOMAIN queue /\ queue'[k] = queue[k + 1]
      /\ \A k \in DOMAIN queue : k \in Nat /\ (k = 1 \/ (k - 1 \in DOMAIN queue' /\ queue'[k - 1] = queue[k]))
  <2>1. /\ Len(queue) \in Nat /\ DOMAIN queue' = 1 .. Len(queue) - 1 /\ DOMAIN queue = 1 .. Len(queue)
        /\ \A k \in DOMAIN queue' : k \in Nat /\ k + 1 \in DOMAIN queue /\ queue'[k] = queue[k + 1]
        /\ \A k \in DOMAIN queue : k = 1 \/ (k - 1 \in DOMAIN queue' /\ queue'[k - 1] = queue[k])
    BY <1>0, TailBatch DEF Shape, QueueShape
  <2> QED BY <2>1
<1>2. ASSUME NEW a \in Indices
      PROVE  /\ QueuedWait(AcquireSem(a))' <=> QueuedWait(AcquireSem(a)) /\ AcquireSem(a) \notin queue[1].waits
             /\ AcquireSem(a) \in queue[1].waits => AcquireSem(a) \notin pendWaits
             /\ AcquireSem(a) \in sem' <=> AcquireSem(a) \in sem /\ AcquireSem(a) \notin queue[1].waits
             /\ Busy(a)' <=> Busy(a) /\ AcquireSem(a) \notin queue[1].waits
  <2>1. AcquireOK(a)
    OBVIOUS
  <2>2. QueuedWait(AcquireSem(a))' => QueuedWait(AcquireSem(a)) /\ AcquireSem(a) \notin queue[1].waits
    <3>1. ASSUME NEW k \in DOMAIN queue', AcquireSem(a) \in queue'[k].waits
          PROVE  QueuedWait(AcquireSem(a)) /\ AcquireSem(a) \notin queue[1].waits
      <4>1. k + 1 \in DOMAIN queue /\ AcquireSem(a) \in queue[k + 1].waits /\ k + 1 # 1
        BY <1>1, <3>1
      <4> QED BY <1>0, <2>1, <4>1 DEF QueuedWait, AcquireOK
    <3> QED BY <3>1 DEF QueuedWait
  <2>3. QueuedWait(AcquireSem(a)) /\ AcquireSem(a) \notin queue[1].waits => QueuedWait(AcquireSem(a))'
    BY <1>1 DEF QueuedWait
  <2>4. AcquireSem(a) \in queue[1].waits => AcquireSem(a) \notin pendWaits
    BY <1>0, <2>1 DEF AcquireOK, QueuedWait
  <2>5. AcquireSem(a) \notin queue[1].signals
    BY <1>0, QueueBatches, SemSets DEF Shape, QueueShape
  <2> QED BY <1>0, <2>2, <2>3, <2>4, <2>5 DEF Busy
<1>3. ASSUME NEW a \in Indices PROVE AcquireOK(a)'
  <2>1. AcquireOK(a)
    OBVIOUS
  <2>2. ASSUME NEW j \in DOMAIN queue', NEW k \in DOMAIN queue',
               AcquireSem(a) \in queue'[j].waits, AcquireSem(a) \in queue'[k].waits
        PROVE  j = k
    <3>1. j + 1 = k + 1
      BY <1>1, <2>1, <2>2 DEF AcquireOK
    <3> QED BY <1>1, <3>1
  <2>3. Released(AcquireSem(a))' <=> Released(AcquireSem(a))
    BY <1>0 DEF Released
  <2>4. AcquireSem(a) \in queue[1].waits => ~Released(AcquireSem(a))
    BY <1>0, <2>1 DEF AcquireOK
  <2>5. \A i, j \in Images : (release'[i] = AcquireSem(a) /\ release'[j] = AcquireSem(a)) => i = j
    BY <1>0, <2>1 DEF AcquireOK
  <2>6. QueuedWait(AcquireSem(a))' => AcquireSem(a) \notin pendWaits'
    BY <1>0, <1>2, <2>1 DEF AcquireOK
  <2>7. /\ Busy(a)' <=> AcquireSem(a) \in sem' \/ Released(AcquireSem(a))'
        /\ AcquireSem(a) \in sem' => ~Released(AcquireSem(a))'
    BY <1>2, <2>1, <2>3, <2>4 DEF AcquireOK
  <2> QED BY <2>2, <2>5, <2>6, <2>7 DEF AcquireOK
<1>4. OrderOK'
  <2>1. \A a \in Indices : Age(a)' = Age(a)
    BY <1>0 DEF Age
  <2>2. ASSUME NEW a \in Indices, NEW b \in Indices, NEW k \in DOMAIN queue',
               AcquireSem(a) \in queue'[k].waits, Age(b) < Age(a), AcquireSem(b) \notin pendWaits
        PROVE  \E j \in DOMAIN queue' : k < j /\ AcquireSem(b) \in queue'[j].waits
    <3>1. k + 1 \in DOMAIN queue /\ AcquireSem(a) \in queue[k + 1].waits /\ k \in Nat
      BY <1>1, <2>2
    <3>2. PICK j \in DOMAIN queue : k + 1 < j /\ AcquireSem(b) \in queue[j].waits
      BY <2>2, <3>1 DEF OrderOK
    <3>3. j - 1 \in DOMAIN queue' /\ queue'[j - 1] = queue[j] /\ k < j - 1
      BY <1>1, <3>1, <3>2
    <3> QED BY <3>2, <3>3
  <2> QED BY <1>0, <2>1, <2>2 DEF OrderOK
<1>5. ASSUME NEW i \in Images, NEW k \in DOMAIN queue', AheadOfPresent(i, k + 1)
      PROVE  AheadOfPresent(i, k)'
  <2>1. k \in Nat /\ k >= 1
    BY <1>1
  <2>2. PresentSem(i) \notin queue[1].signals
    BY <1>0, <1>5, <2>1 DEF AheadOfPresent
  <2>3. ASSUME NEW j \in DOMAIN queue', PresentSem(i) \in queue'[j].signals PROVE k <= j
    <3>1. j \in Nat /\ k + 1 <= j + 1
      BY <1>1, <1>5, <2>3 DEF AheadOfPresent
    <3> QED BY <2>1, <3>1
  <2> QED BY <1>0, <1>5, <2>2, <2>3 DEF AheadOfPresent
<1>6. DrawOK'
  <2> SUFFICES ASSUME NEW k \in DOMAIN queue', queue'[k].image # None
               PROVE  /\ AheadOfPresent(queue[k].image, k)'
                      /\ release'[queue'[k].image] # NoSem =>
                           \E j \in DOMAIN queue' : j <= k /\ release'[queue'[k].image] \in queue'[j].waits
    BY DEF DrawOK
  <2>1. k \in Nat /\ k >= 1 /\ k + 1 \in DOMAIN queue /\ queue'[k] = queue[k + 1]
    BY <1>1
  <2>2. PICK x \in Images : x = queue[k + 1].image /\ x = queue'[k].image
    BY <2>1, QueueBatches DEF Shape, QueueShape
  <2>3. /\ AheadOfPresent(x, k + 1)
        /\ release[x] # NoSem => \E j \in DOMAIN queue : j <= k + 1 /\ release[x] \in queue[j].waits
    BY <2>1, <2>2 DEF DrawOK
  <2>4. AheadOfPresent(queue[k].image, k)'
    <3>1. AheadOfPresent(x, k)'
      BY <1>5, <2>3
    <3> QED BY <2>2, <3>1 DEF AheadOfPresent
  <2>5. ASSUME release[x] # NoSem
        PROVE  \E j \in DOMAIN queue' : j <= k /\ release[x] \in queue'[j].waits
    <3>1. PICK j \in DOMAIN queue : j <= k + 1 /\ release[x] \in queue[j].waits
      BY <2>3, <2>5
    <3>2. PICK a \in Indices : release[x] = AcquireSem(a)
      BY <2>5 DEF Shape, EngineShape, AcquireSems
    <3>3. j # 1
      BY <1>0, <3>1, <3>2 DEF AcquireOK, Released
    <3>4. j - 1 \in DOMAIN queue' /\ queue'[j - 1] = queue[j] /\ j - 1 <= k
      BY <1>1, <2>1, <3>1, <3>3
    <3> QED BY <3>1, <3>4
  <2> QED BY <1>0, <2>2, <2>4, <2>5
<1>7. ReadOK'
  BY <1>0 DEF ReadOK
<1>8. \E img \in [Indices -> Images] : KeepOK(img)'
  <2>1. PICK img \in [Indices -> Images] : KeepOK(img)
    OBVIOUS
  <2>2. ASSUME NEW a \in Indices, NEW i \in Images, Keeps(a, i) PROVE Keeps(a, i)'
    <3>1. ASSUME NEW k \in DOMAIN queue', AcquireSem(a) \in queue'[k].waits
          PROVE  AheadOfPresent(i, k)'
      <4>1. AheadOfPresent(i, k + 1)
        BY <1>1, <2>2, <3>1 DEF Keeps
      <4> QED BY <1>5, <4>1
    <3>2. ~QueuedSignal(PresentSem(i)) => PresentSem(i) \notin queue[1].signals /\ ~QueuedSignal(PresentSem(i))'
      BY <1>0, <1>1 DEF QueuedSignal
    <3> QED BY <1>0, <2>2, <3>1, <3>2 DEF Keeps
  <2>3. KeepOK(img)'
    BY <1>2, <2>1, <2>2 DEF KeepOK
  <2> QED BY <2>3
<1> QED BY <1>3, <1>4, <1>6, <1>7, <1>8

(* The engine takes an image whose present semaphore is signalled: nothing *)
(* in the queue was ahead of that, so nothing needs the image any more.    *)
LEMMA AcquireTake ==
  ASSUME Shape, AcquireHalf, TakePresent
  PROVE  AcquireHalf'
<1> USE DEF AcquireHalf
<1>0. PICK i \in Images :
        /\ PresentSem(i) \in sem /\ sem' = sem \ {PresentSem(i)}
        /\ owner' = [owner EXCEPT ![i] = "engine"] /\ reading' = [reading EXCEPT ![i] = TRUE]
  <2>1. Head(presents) \in Images
    BY DEF TakePresent, Shape, EngineShape
  <2> QED BY <2>1 DEF TakePresent
<1>1. UNCHANGED <<acquireIndex, pendWaits, release, queue>>
  BY DEF TakePresent, main, pending
<1>2. \A j \in Images : owner'[j] = (IF j = i THEN "engine" ELSE owner[j])
                     /\ reading'[j] = (IF j = i THEN TRUE ELSE reading[j])
  BY <1>0 DEF Shape, EngineShape
<1>3. \A a \in Indices : AcquireSem(a) \in sem' <=> AcquireSem(a) \in sem
  BY <1>0, SemsDiffer
<1>4. \A a \in Indices : AcquireOK(a)'
  BY <1>1, <1>3 DEF AcquireOK, QueuedWait, Busy, Released
<1>5. OrderOK'
  BY <1>1 DEF OrderOK, Age
<1>6. \A j \in Images, k \in DOMAIN queue : AheadOfPresent(j, k) => AheadOfPresent(j, k)' /\ j # i
  BY <1>0, <1>1, <1>2 DEF AheadOfPresent
<1>7. DrawOK'
  <2>1. ASSUME NEW k \in DOMAIN queue, queue[k].image # None
        PROVE  AheadOfPresent(queue[k].image, k)'
    <3>1. PICK x \in Images : x = queue[k].image
      BY <2>1, QueueBatches DEF Shape, QueueShape
    <3>2. AheadOfPresent(x, k)'
      BY <1>6, <2>1, <3>1 DEF DrawOK
    <3> QED BY <1>1, <3>1, <3>2 DEF AheadOfPresent
  <2> QED BY <1>1, <2>1 DEF DrawOK
<1>8. ReadOK'
  BY <1>1, <1>2 DEF ReadOK
<1>9. \E img \in [Indices -> Images] : KeepOK(img)'
  <2>1. PICK img \in [Indices -> Images] : KeepOK(img)
    OBVIOUS
  <2>2. \A a \in Indices, j \in Images : Keeps(a, j) => Keeps(a, j)'
    BY <1>0, <1>1, <1>2, <1>6 DEF Keeps, QueuedSignal
  <2>3. KeepOK(img)'
    BY <1>1, <2>1, <2>2 DEF KeepOK, Busy, QueuedWait
  <2> QED BY <2>3
<1> QED BY <1>4, <1>5, <1>7, <1>8, <1>9

(* The engine stops reading: the promised signal becomes a signal.         *)
LEMMA AcquireStop ==
  ASSUME Shape, AcquireHalf, NEW i \in Images, StopReading(i)
  PROVE  AcquireHalf'
<1> USE DEF AcquireHalf
<1>0. /\ UNCHANGED <<acquireIndex, pendWaits, queue, owner>> /\ sem' = sem \cup {release[i]}
      /\ \A j \in Images : release'[j] = (IF j = i THEN NoSem ELSE release[j])
                        /\ reading'[j] = (IF j = i THEN FALSE ELSE reading[j])
  BY DEF StopReading, main, pending, Shape, EngineShape
<1>1. PICK b \in Indices : release[i] = AcquireSem(b)
  BY DEF StopReading, Shape, EngineShape, AcquireSems
<1>2. ASSUME NEW a \in Indices PROVE AcquireOK(a)'
  <2>1. AcquireOK(a) /\ AcquireSem(a) # NoSem
    BY SemsDiffer
  <2>2. Busy(a)' <=> Busy(a)
    BY <1>0 DEF Busy, QueuedWait
  <2>3. CASE a = b
    <3>1. ~Released(AcquireSem(a))' /\ AcquireSem(a) \in sem' /\ Released(AcquireSem(a))
      BY <1>0, <1>1, <2>1, <2>3 DEF AcquireOK, Released
    <3> QED BY <1>0, <2>1, <2>2, <3>1 DEF AcquireOK, QueuedWait, Released
  <2>4. CASE a # b
    <3>1. AcquireSem(a) # AcquireSem(b)
      BY <2>4, SemsDiffer
    <3>2. /\ Released(AcquireSem(a))' <=> Released(AcquireSem(a))
          /\ AcquireSem(a) \in sem' <=> AcquireSem(a) \in sem
      BY <1>0, <1>1, <2>1, <3>1 DEF Released
    <3> QED BY <1>0, <2>1, <2>2, <3>2 DEF AcquireOK, QueuedWait
  <2> QED BY <2>3, <2>4
<1>3. OrderOK'
  BY <1>0 DEF OrderOK, Age
<1>4. \A j \in Images : PresentSem(j) \in sem' <=> PresentSem(j) \in sem
  BY <1>0, <1>1, SemsDiffer
<1>5. \A j \in Images, k \in DOMAIN queue : AheadOfPresent(j, k) => AheadOfPresent(j, k)'
  BY <1>0, <1>4 DEF AheadOfPresent
<1>6. DrawOK'
  <2>1. ASSUME NEW k \in DOMAIN queue, queue[k].image # None
        PROVE  /\ AheadOfPresent(queue[k].image, k)'
               /\ release'[queue[k].image] # NoSem => release'[queue[k].image] = release[queue[k].image]
    <3>1. PICK x \in Images : x = queue[k].image
      BY <2>1, QueueBatches DEF Shape, QueueShape
    <3>2. AheadOfPresent(x, k)'
      BY <1>5, <2>1, <3>1 DEF DrawOK
    <3> QED BY <1>0, <3>1, <3>2 DEF AheadOfPresent
  <2> QED BY <1>0, <2>1 DEF DrawOK
<1>7. ReadOK'
  BY <1>0 DEF ReadOK
<1>8. \E img \in [Indices -> Images] : KeepOK(img)'
  <2>1. PICK img \in [Indices -> Images] : KeepOK(img)
    OBVIOUS
  <2>2. \A a \in Indices, j \in Images : Keeps(a, j) => Keeps(a, j)'
    BY <1>0, <1>4, <1>5 DEF Keeps, QueuedSignal
  <2>3. KeepOK(img)'
    BY <1>0, <2>1, <2>2 DEF KeepOK, Busy, QueuedWait
  <2> QED BY <2>3
<1> QED BY <1>2, <1>3, <1>6, <1>7, <1>8

(* When the engine has an image to give, the semaphore whose turn it is is *)
(* free: were it outstanding, every other one, taken later, would be too,  *)
(* and each keeps another image from the engine.                           *)
LEMMA TurnIsFree ==
  ASSUME Shape, AcquireHalf, pendWaits = {}, NEW i \in Images, owner[i] = "engine"
  PROVE  ~Busy(acquireIndex)
<1> USE DEF AcquireHalf
<1>1. SUFFICES ASSUME Busy(acquireIndex) PROVE FALSE
  OBVIOUS
<1>0. AcquireCount \in Nat /\ acquireIndex \in Indices
  BY Counts DEF Shape, MainShape
<1>2. ASSUME NEW b \in Indices PROVE Busy(b)
  <2>1. CASE b = acquireIndex
    BY <1>1, <2>1
  <2>2. CASE b # acquireIndex
    <3>1. Age(b) < Age(acquireIndex)
      BY <1>0, <2>2 DEF Age, Indices
    <3>2. PICK k \in DOMAIN queue : AcquireSem(acquireIndex) \in queue[k].waits
      BY <1>1 DEF Busy, QueuedWait
    <3> QED BY <1>0, <3>1, <3>2 DEF OrderOK, Busy, QueuedWait
  <2> QED BY <2>1, <2>2
<1>3. PICK img \in [Indices -> Images] : KeepOK(img)
  OBVIOUS
<1>4. \A a \in Indices : img[a] \in Images \ {i}
  <2>1. ASSUME NEW a \in Indices PROVE img[a] \in Images /\ img[a] # i
    <3>1. PICK k \in DOMAIN queue : AcquireSem(a) \in queue[k].waits
      BY <1>2 DEF Busy, QueuedWait
    <3>2. owner[img[a]] # "engine"
      BY <1>3, <3>1 DEF KeepOK, Keeps, AheadOfPresent
    <3> QED BY <3>2
  <2> QED BY <2>1
<1>5. img \in [Indices -> Images \ {i}]
  BY <1>4
<1>6. IsFiniteSet(Indices) /\ Cardinality(Indices) = AcquireCount
  <2>1. 0 \in Int /\ AcquireCount - 1 \in Int /\ ~(0 > AcquireCount - 1) /\ (AcquireCount - 1) - 0 + 1 = AcquireCount
    BY Counts
  <2> QED BY <2>1, FS_Interval DEF Indices
<1>7. IsFiniteSet(Images \ {i}) /\ Cardinality(Images \ {i}) = N - 1
  <2>1. 0 \in Int /\ N - 1 \in Int /\ ~(0 > N - 1) /\ (N - 1) - 0 + 1 = N
    BY Counts
  <2>2. IsFiniteSet(Images) /\ Cardinality(Images) = N
    BY <2>1, FS_Interval DEF Images
  <2> QED BY <2>2, FS_RemoveElement
<1>8. Cardinality(Images \ {i}) < Cardinality(Indices)
  BY <1>6, <1>7, Counts
<1>9. \E x, y \in Indices : x # y /\ img[x] = img[y]
  BY <1>5, <1>6, <1>7, <1>8, FS_PigeonHole
<1> QED BY <1>2, <1>3, <1>9 DEF KeepOK

(* An image is acquired: the free semaphore gets its wait and its promise  *)
(* of a signal, and is the youngest from now on.                           *)
LEMMA AcquireImage ==
  ASSUME Shape, AcquireHalf, AcquireNextImage, pendWaits = {},
         \A i \in Images : owner[i] = "engine" => ~UnderWay(PresentSem(i))
  PROVE  AcquireHalf'
<1> USE DEF AcquireHalf
<1>0. PICK i \in Images :
        /\ owner[i] = "engine" /\ release[i] = NoSem
        /\ owner' = [owner EXCEPT ![i] = "app"]
        /\ release' = [release EXCEPT ![i] = AcquireSem(acquireIndex)]
  BY DEF AcquireNextImage
<1>1. PICK x \in Indices : x = acquireIndex
  BY DEF Shape, MainShape
<1>2. /\ acquireIndex' = (IF x + 1 = AcquireCount THEN 0 ELSE x + 1)
      /\ pendWaits' = {AcquireSem(x)} /\ UNCHANGED <<queue, sem, reading>>
      /\ \A j \in Images : owner'[j] = (IF j = i THEN "app" ELSE owner[j])
                        /\ release'[j] = (IF j = i THEN AcquireSem(x) ELSE release[j])
  BY <1>0, <1>1, NextIndex DEF AcquireNextImage, Shape, EngineShape
<1>3. ~Busy(x) /\ ~UnderWay(PresentSem(i)) /\ AcquireSem(x) \notin sem /\ ~Released(AcquireSem(x))
  BY <1>0, <1>1, TurnIsFree DEF AcquireOK
<1>4. \A a \in Indices : /\ Busy(a)' <=> Busy(a) \/ a = x
                         /\ AcquireSem(a) \in pendWaits' <=> a = x
                         /\ QueuedWait(AcquireSem(a))' <=> QueuedWait(AcquireSem(a))
  BY <1>2, SemsDiffer DEF Busy, QueuedWait
<1>5. ASSUME NEW a \in Indices PROVE AcquireOK(a)'
  <2>1. AcquireOK(a) /\ AcquireSem(a) # NoSem
    BY SemsDiffer
  <2>2. CASE a = x
    <3>1. Released(AcquireSem(a))'
      BY <1>2, <2>2 DEF Released
    <3>2. \A j, k \in Images : (release'[j] = AcquireSem(a) /\ release'[k] = AcquireSem(a)) => j = k
      BY <1>2, <1>3, <2>2 DEF Released
    <3> QED BY <1>2, <1>3, <1>4, <2>1, <2>2, <3>1, <3>2 DEF AcquireOK, Busy
  <2>3. CASE a # x
    <3>1. AcquireSem(a) # AcquireSem(x)
      BY <2>3, SemsDiffer
    <3>2. Released(AcquireSem(a))' <=> Released(AcquireSem(a))
      BY <1>0, <1>2, <2>1, <3>1 DEF Released
    <3>3. \A j, k \in Images : (release'[j] = AcquireSem(a) /\ release'[k] = AcquireSem(a)) => j = k
      BY <1>2, <2>1, <3>1 DEF AcquireOK
    <3> QED BY <1>2, <1>4, <2>1, <2>3, <3>2, <3>3 DEF AcquireOK
  <2> QED BY <2>2, <2>3
<1>6. OrderOK'
  <2>0. AcquireCount \in Nat /\ x \in Nat /\ x < AcquireCount /\ AcquireCount > 0
    BY Counts DEF Indices
  <2>1. \A a \in Indices : Age(a)' = (IF a = x THEN 0 ELSE Age(a) + 1) /\ Age(a) \in Nat
    BY <1>1, <1>2, <2>0 DEF Age, Indices
  <2>2. ASSUME NEW a \in Indices, NEW b \in Indices, NEW k \in DOMAIN queue,
               AcquireSem(a) \in queue[k].waits, Age(b)' < Age(a)'
        PROVE  \/ AcquireSem(b) \in pendWaits'
               \/ \E j \in DOMAIN queue : k < j /\ AcquireSem(b) \in queue[j].waits
    <3>1. CASE b = x
      BY <1>2, <3>1
    <3>2. CASE b # x
      <4>1. a # x
        BY <1>3, <2>2 DEF Busy, QueuedWait
      <4>2. Age(b) < Age(a)
        BY <2>1, <2>2, <3>2, <4>1
      <4> QED BY <2>2, <4>2 DEF OrderOK
    <3> QED BY <3>1, <3>2
  <2>3. \A a \in Indices : AcquireSem(a) \in pendWaits' => Age(a)' = 0
    BY <1>4, <2>1
  <2> QED BY <1>2, <2>2, <2>3 DEF OrderOK
<1>7. \A j \in Images, k \in DOMAIN queue : AheadOfPresent(j, k) => AheadOfPresent(j, k)' /\ j # i
  BY <1>0, <1>2 DEF AheadOfPresent
<1>8. DrawOK'
  <2>1. ASSUME NEW k \in DOMAIN queue, queue[k].image # None
        PROVE  AheadOfPresent(queue[k].image, k)' /\ release'[queue[k].image] = release[queue[k].image]
    <3>1. PICK y \in Images : y = queue[k].image
      BY <2>1, QueueBatches DEF Shape, QueueShape
    <3>2. AheadOfPresent(y, k)' /\ y # i
      BY <1>7, <2>1, <3>1 DEF DrawOK
    <3> QED BY <1>2, <3>1, <3>2 DEF AheadOfPresent
  <2> QED BY <1>2, <2>1 DEF DrawOK
<1>9. ReadOK'
  <2>1. AcquireSem(x) # NoSem
    BY SemsDiffer
  <2> QED BY <1>2, <2>1 DEF ReadOK
<1>10. \E img \in [Indices -> Images] : KeepOK(img)'
  <2>1. PICK img \in [Indices -> Images] : KeepOK(img)
    OBVIOUS
  <2> DEFINE new == [img EXCEPT ![x] = i]
  <2>2. new \in [Indices -> Images] /\ \A a \in Indices : new[a] = (IF a = x THEN i ELSE img[a])
    OBVIOUS
  <2> HIDE DEF new
  <2>3. ASSUME NEW a \in Indices PROVE Keeps(a, new[a])'
    <3>1. CASE a = x
      <4>1. Keeps(x, i)'
        BY <1>2, <1>3 DEF Keeps, UnderWay, QueuedSignal, Busy, QueuedWait
      <4> QED BY <2>2, <3>1, <4>1
    <3>2. CASE a # x
      <4>1. Keeps(a, img[a]) /\ img[a] \in Images /\ AcquireSem(a) \notin pendWaits'
        BY <1>4, <2>1, <3>2 DEF KeepOK
      <4>2. Keeps(a, img[a])'
        BY <1>2, <1>7, <4>1 DEF Keeps
      <4> QED BY <2>2, <3>2, <4>2
    <3> QED BY <3>1, <3>2
  <2>4. ASSUME NEW a \in Indices, Busy(a) PROVE img[a] # i
    <3>1. PICK k \in DOMAIN queue : AcquireSem(a) \in queue[k].waits
      BY <2>4 DEF Busy, QueuedWait
    <3> QED BY <1>0, <2>1, <3>1 DEF KeepOK, Keeps, AheadOfPresent
  <2>5. \A a, b \in Indices : (Busy(a)' /\ Busy(b)' /\ new[a] = new[b]) => a = b
    BY <1>4, <2>1, <2>2, <2>4 DEF KeepOK
  <2>6. KeepOK(new)'
    BY <2>3, <2>5 DEF KeepOK
  <2> QED BY <2>2, <2>6
<1> QED BY <1>5, <1>6, <1>8, <1>9, <1>10

(* A new swap chain: the device is idle, no wait is pending, and so no     *)
(* acquire semaphore is outstanding.                                       *)
LEMMA AcquireResize ==
  ASSUME Shape, Shape', AcquireHalf, ResizeSwapChain, pendWaits = {}
  PROVE  AcquireHalf'
<1> USE DEF AcquireHalf
<1>0. /\ queue = <<>> /\ queue' = <<>> /\ pendWaits' = {} /\ sem' \subseteq sem
      /\ \A i \in Images : release[i] = NoSem /\ release'[i] = NoSem /\ ~reading'[i]
  BY DEF ResizeSwapChain, pending
<1>1. DOMAIN queue = {} /\ DOMAIN queue' = {}
  BY <1>0
<1>2. ASSUME NEW a \in Indices PROVE AcquireOK(a)' /\ ~Busy(a)'
  <2>1. AcquireOK(a) /\ AcquireSem(a) # NoSem
    BY SemsDiffer
  <2>2. ~Busy(a) /\ ~Busy(a)' /\ ~QueuedWait(AcquireSem(a))' /\ ~Released(AcquireSem(a))'
    BY <1>0, <1>1, <2>1 DEF Busy, QueuedWait, Released
  <2> QED BY <1>0, <1>1, <2>1, <2>2 DEF AcquireOK
<1>3. OrderOK' /\ DrawOK' /\ ReadOK'
  BY <1>0, <1>1 DEF OrderOK, DrawOK, ReadOK
<1>4. \E img \in [Indices -> Images] : KeepOK(img)'
  <2>1. PICK img \in [Indices -> Images] : KeepOK(img)
    OBVIOUS
  <2>2. \A a \in Indices : Keeps(a, img[a])'
    BY <1>0, <1>1 DEF Keeps
  <2> QED BY <1>2, <2>2 DEF KeepOK
<1> QED BY <1>2, <1>3, <1>4

-----------------------------------------------------------------------------
(* The present semaphores and the render thread's place.                   *)

OneSignals == \A i \in Images : OneSignal(PresentSem(i))

ControlOK == PendingOK /\ SignalOK /\ PresentsOK /\ \A i \in Images : SignalDue(i)

UnderWaySame == \A i \in Images : UnderWay(PresentSem(i))' <=> UnderWay(PresentSem(i))

(* Steps that leave the signals of the present semaphores alone.           *)
LEMMA SignalsSame ==
  ASSUME OneSignals, UNCHANGED <<queue, pendSignals>>,
         \A i \in Images : PresentSem(i) \in sem' <=> PresentSem(i) \in sem
  PROVE  OneSignals' /\ UnderWaySame
  BY DEF OneSignals, OneSignal, UnderWaySame, UnderWay, QueuedSignal

(* A signalled present semaphore is taken, or replaced by a new one: then  *)
(* it has no signal left.                                                  *)
LEMMA SignalTaken ==
  ASSUME OneSignals, UNCHANGED <<queue, pendSignals>>, NEW i \in Images,
         sem' = sem \ {PresentSem(i)},
         PresentSem(i) \in sem \/ (queue = <<>> /\ pendSignals = {})
  PROVE  /\ OneSignals' /\ ~UnderWay(PresentSem(i))'
         /\ \A j \in Images \ {i} : UnderWay(PresentSem(j))' <=> UnderWay(PresentSem(j))
<1>1. \A j \in Images \ {i} : PresentSem(j) # PresentSem(i)
  BY SemsDiffer
<1>2. OneSignals'
  BY DEF OneSignals, OneSignal, QueuedSignal
<1>3. queue = <<>> => ~QueuedSignal(PresentSem(i))
  BY DEF QueuedSignal
<1> QED BY <1>1, <1>2, <1>3 DEF OneSignals, OneSignal, UnderWay, QueuedSignal

(* A submission takes the pending signals along, and adds one that was not *)
(* under way.                                                              *)
LEMMA SignalsSubmit ==
  ASSUME Shape, OneSignals, NEW S \in SUBSET PresentSems, NEW i \in Images \cup {None},
         NEW f \in Queries \cup {None}, NEW w \in SUBSET AcquireSems,
         NEW T \in SUBSET PresentSems, \A s : s \in T <=> s \in pendSignals \/ s \in S,
         queue' = Append(queue, Batch(w, T, i, f)),
         pendSignals' = {}, sem' = sem,
         \A j \in Images : PresentSem(j) \in S => ~UnderWay(PresentSem(j))
  PROVE  /\ OneSignals'
         /\ \A j \in Images : UnderWay(PresentSem(j))' <=> UnderWay(PresentSem(j)) \/ PresentSem(j) \in S
<1>0. PICK L \in Nat :
      /\ L \in DOMAIN queue'
      /\ \A k \in DOMAIN queue : k \in DOMAIN queue' /\ queue'[k] = queue[k]
      /\ \A k \in DOMAIN queue' : k \in DOMAIN queue \/ k = L
      /\ queue'[L].signals = T
  <2>1. queue \in Seq(Batches)
    BY DEF Shape, QueueShape
  <2>2. /\ Len(queue) \in Nat /\ DOMAIN queue = 1 .. Len(queue) /\ DOMAIN queue' = 1 .. Len(queue) + 1
        /\ \A k \in DOMAIN queue : k \in DOMAIN queue' /\ queue'[k] = queue[k]
        /\ LET b == queue'[Len(queue) + 1] IN
             b.waits = w /\ b.signals = T /\ b.image = i /\ b.fence = f
    BY <2>1, AppendBatch
  <2> QED BY <2>2
<1>1. \A s : QueuedSignal(s)' <=> QueuedSignal(s) \/ s \in pendSignals \/ s \in S
  BY <1>0 DEF QueuedSignal
<1>2. ASSUME NEW j \in Images PROVE OneSignal(PresentSem(j))'
  <2>1. OneSignal(PresentSem(j))
    BY DEF OneSignals
  <2>2. \A m, k \in DOMAIN queue' :
          (PresentSem(j) \in queue'[m].signals /\ PresentSem(j) \in queue'[k].signals) => m = k
    <3>1. PresentSem(j) \in T =>
             \A k \in DOMAIN queue : PresentSem(j) \notin queue[k].signals
      BY <2>1 DEF OneSignal, QueuedSignal, UnderWay
    <3>2. \A m, k \in DOMAIN queue :
             (PresentSem(j) \in queue[m].signals /\ PresentSem(j) \in queue[k].signals) => m = k
      BY <2>1 DEF OneSignal
    <3> QED BY <1>0, <3>1, <3>2
  <2> QED BY <1>1, <2>1, <2>2 DEF OneSignal, UnderWay
<1>3. ASSUME NEW j \in Images
      PROVE  UnderWay(PresentSem(j))' <=> UnderWay(PresentSem(j)) \/ PresentSem(j) \in S
  BY <1>1 DEF UnderWay
<1> QED BY <1>2, <1>3 DEF OneSignals

(* Executing a batch moves its signals from the queue to the semaphores.   *)
LEMMA SignalsExecute ==
  ASSUME Shape, OneSignals, ExecuteBatch
  PROVE  OneSignals' /\ UnderWaySame
<1>0. /\ 1 \in DOMAIN queue /\ queue' = Tail(queue) /\ pendSignals' = pendSignals
      /\ sem' = (sem \ queue[1].waits) \cup queue[1].signals
  BY DEF ExecuteBatch, Ready, pending
<1>1. /\ \A k \in DOMAIN queue' : k \in Nat /\ k >= 1 /\ k + 1 \in DOMAIN queue /\ queue'[k] = queue[k + 1]
      /\ \A k \in DOMAIN queue : k \in Nat /\ (k = 1 \/ (k - 1 \in DOMAIN queue' /\ queue'[k - 1] = queue[k]))
  <2>1. /\ Len(queue) \in Nat /\ DOMAIN queue' = 1 .. Len(queue) - 1 /\ DOMAIN queue = 1 .. Len(queue)
        /\ \A k \in DOMAIN queue' : k \in Nat /\ k + 1 \in DOMAIN queue /\ queue'[k] = queue[k + 1]
        /\ \A k \in DOMAIN queue : k = 1 \/ (k - 1 \in DOMAIN queue' /\ queue'[k - 1] = queue[k])
    BY <1>0, TailBatch DEF Shape, QueueShape
  <2> QED BY <2>1
<1>2. ASSUME NEW i \in Images
      PROVE  /\ PresentSem(i) \in sem' <=> PresentSem(i) \in sem \/ PresentSem(i) \in queue[1].signals
             /\ QueuedSignal(PresentSem(i))' => QueuedSignal(PresentSem(i)) /\ PresentSem(i) \notin queue[1].signals
             /\ QueuedSignal(PresentSem(i)) => QueuedSignal(PresentSem(i))' \/ PresentSem(i) \in queue[1].signals
  <2>1. PresentSem(i) \notin queue[1].waits
    BY <1>0, QueueBatches, SemSets DEF Shape, QueueShape
  <2>2. ASSUME NEW k \in DOMAIN queue', PresentSem(i) \in queue'[k].signals
        PROVE  QueuedSignal(PresentSem(i)) /\ PresentSem(i) \notin queue[1].signals
    <3>1. k + 1 \in DOMAIN queue /\ PresentSem(i) \in queue[k + 1].signals /\ k + 1 # 1
      BY <1>1, <2>2
    <3> QED BY <1>0, <3>1 DEF QueuedSignal, OneSignals, OneSignal
  <2>3. QueuedSignal(PresentSem(i)) => QueuedSignal(PresentSem(i))' \/ PresentSem(i) \in queue[1].signals
    BY <1>1 DEF QueuedSignal
  <2> QED BY <1>0, <2>1, <2>2, <2>3 DEF QueuedSignal
<1>3. ASSUME NEW i \in Images PROVE OneSignal(PresentSem(i))'
  <2>1. OneSignal(PresentSem(i))
    BY DEF OneSignals
  <2>2. ASSUME NEW j \in DOMAIN queue', NEW k \in DOMAIN queue',
               PresentSem(i) \in queue'[j].signals, PresentSem(i) \in queue'[k].signals
        PROVE  j = k
    <3>1. j + 1 = k + 1
      BY <1>1, <2>1, <2>2 DEF OneSignal
    <3> QED BY <1>1, <3>1
  <2>3. PresentSem(i) \in queue[1].signals => QueuedSignal(PresentSem(i))
    BY <1>0 DEF QueuedSignal
  <2> QED BY <1>0, <1>2, <2>1, <2>2, <2>3 DEF OneSignal
<1>4. UnderWaySame
  <2>1. \A i \in Images : PresentSem(i) \in queue[1].signals => QueuedSignal(PresentSem(i))
    BY <1>0 DEF QueuedSignal
  <2> QED BY <1>0, <1>2, <2>1 DEF UnderWaySame, UnderWay
<1> QED BY <1>3, <1>4 DEF OneSignals

SemInv == ControlOK /\ OneSignals /\ AcquireHalf

(* The parts are the whole.                                                *)
LEMMA SemParts == SemaphoresOK <=> SemInv
  BY DEF SemaphoresOK, SemInv, ControlOK, OneSignals, AcquireHalf

(* Cancelling a signal: one that may be under way ends with the device     *)
(* idle and its semaphore new.                                             *)
LEMMA CancelSignals ==
  ASSUME Shape, OneSignals, Cancel, ~lost', UNCHANGED <<queue, pendSignals>>, pendSignals = {}
  PROVE  /\ OneSignals' /\ sem' \subseteq sem /\ \A s \in AcquireSems : s \in sem => s \in sem'
         /\ \A i \in Images : UnderWay(PresentSem(i))' <=>
              UnderWay(PresentSem(i)) /\ (i # image \/ signal \in {"Idle", "Claimed"})
<1>1. CASE signal \in {"Idle", "Claimed"}
  <2>1. sem' = sem
    BY <1>1 DEF Cancel
  <2> QED BY <1>1, <2>1, SignalsSame DEF UnderWaySame
<1>2. CASE signal \notin {"Idle", "Claimed"}
  <2>1. PICK i \in Images : i = image
    BY DEF Shape, MainShape
  <2>2. queue = <<>> /\ sem' = sem \ {PresentSem(i)}
    BY <1>2, <2>1 DEF Cancel
  <2>3. /\ OneSignals' /\ ~UnderWay(PresentSem(i))'
        /\ \A j \in Images \ {i} : UnderWay(PresentSem(j))' <=> UnderWay(PresentSem(j))
    BY <2>2, SignalTaken
  <2>4. PresentSem(i) \notin AcquireSems
    BY SemSets
  <2> QED BY <1>2, <2>1, <2>2, <2>3, <2>4
<1> QED BY <1>1, <1>2

(* beginFrame retires what an abandoned frame left.                        *)
LEMMA BeginFrameStep ==
  ASSUME Shape, SemInv, BeginFrame, ~lost'
  PROVE  SemInv'
<1> USE DEF SemInv
<1>1. /\ pc = "idle" /\ pc' \in {"acquire", "idle"} /\ signal' = "Idle" /\ Cancel
      /\ UNCHANGED <<acquireIndex, image, pendWaits, pendSignals, queue, owner, reading, release, presents>>
  BY DEF BeginFrame, At, Cancel, pending, engine
<1>2. pendWaits = {} /\ pendSignals = {}
  BY <1>1 DEF ControlOK, PendingOK, FramePoints
<1>3. /\ OneSignals' /\ sem' \subseteq sem /\ \A s \in AcquireSems : s \in sem => s \in sem'
      /\ \A i \in Images : UnderWay(PresentSem(i))' <=>
           UnderWay(PresentSem(i)) /\ (i # image \/ signal \in {"Idle", "Claimed"})
  BY <1>1, <1>2, CancelSignals
<1>4. AcquireHalf'
  BY <1>1, <1>3, AcquireSame
<1>5. ControlOK'
  <2>1. signal \in {"Idle", "Accepted"} /\ (signal = "Accepted" => owner[image] = "app")
    BY <1>1 DEF ControlOK, SignalOK
  <2>2. PendingOK' /\ SignalOK' /\ ~Due'
    BY <1>1, <1>2 DEF PendingOK, SignalOK, FramePoints, Due
  <2>3. PresentsOK'
    BY <1>1 DEF ControlOK, PresentsOK
  <2>4. ASSUME NEW i \in Images PROVE SignalDue(i)'
    <3>1. SignalDue(i)
      BY DEF ControlOK
    <3>2. UnderWay(PresentSem(i))' => owner[i] = "queued"
      BY <1>1, <1>3, <2>1, <3>1 DEF SignalDue, Due
    <3>3. owner[i] = "queued" => UnderWay(PresentSem(i))'
      BY <1>3, <2>1, <3>1 DEF SignalDue
    <3> QED BY <1>1, <3>2, <3>3 DEF SignalDue
  <2> QED BY <2>2, <2>3, <2>4 DEF ControlOK
<1> QED BY <1>3, <1>4, <1>5

(* An image is acquired.                                                   *)
LEMMA AcquireNextImageStep ==
  ASSUME Shape, SemInv, AcquireNextImage
  PROVE  SemInv'
<1> USE DEF SemInv
<1>1. /\ pc = "acquire" /\ pc' = "render" /\ UNCHANGED <<signal, pendSignals, queue, sem, presents>>
  BY DEF AcquireNextImage, At
<1>2. pendWaits = {} /\ pendSignals = {} /\ signal = "Idle" /\ ~Due
  BY <1>1 DEF ControlOK, PendingOK, SignalOK, FramePoints, Due
<1>3. OneSignals' /\ UnderWaySame
  BY <1>1, SignalsSame
<1>4. \A i \in Images : UnderWay(PresentSem(i)) <=> owner[i] = "queued"
  BY <1>2 DEF ControlOK, SignalDue
<1>5. AcquireHalf'
  BY <1>2, <1>4, AcquireImage
<1>6. PICK i \in Images : /\ owner[i] = "engine" /\ image' = i
                          /\ owner' = [owner EXCEPT ![i] = "app"]
  BY DEF AcquireNextImage
<1>7. \A j \in Images : owner'[j] = IF j = i THEN "app" ELSE owner[j]
  BY <1>6 DEF Shape, EngineShape
<1>8. ControlOK'
  <2>1. PendingOK' /\ SignalOK'
    BY <1>1, <1>2, <1>6, <1>7 DEF PendingOK, SignalOK, FramePoints
  <2>2. PresentsOK'
    BY <1>1, <1>2, <1>6, <1>7 DEF ControlOK, PresentsOK
  <2>3. \A j \in Images : SignalDue(j)'
    BY <1>3, <1>4, <1>6, <1>7 DEF SignalDue, UnderWaySame
  <2> QED BY <2>1, <2>2, <2>3 DEF ControlOK
<1> QED BY <1>3, <1>5, <1>8

(* Steps of the render thread that only move it on.                        *)
LEMMA MoveOnStep ==
  ASSUME Shape, SemInv, AcquireFails \/ RenderNothing \/ AbortFrame \/ Throttle
  PROVE  SemInv'
<1> USE DEF SemInv
<1>1. /\ UNCHANGED <<acquireIndex, image, signal, pendWaits, pendSignals, queue, sem, owner, reading, release, presents>>
      /\ \/ pc = "acquire" /\ pc' = "idle"
         \/ pc \in {"render", "terminal"} /\ pc' = "present"
         \/ pc = "present" /\ pc' = "idle" /\ signal = "Accepted"
         \/ pc = "throttle" /\ pc' = "setQuery"
  BY DEF AcquireFails, RenderNothing, AbortFrame, Throttle, At, pending, engine
<1>2. OneSignals' /\ UnderWaySame
  BY <1>1, SignalsSame
<1>3. AcquireHalf'
  BY <1>1, AcquireSame
<1>4. ControlOK'
  <2>1. PendingOK' /\ SignalOK'
    BY <1>1 DEF ControlOK, PendingOK, SignalOK, FramePoints
  <2>2. Due' <=> Due
    BY <1>1 DEF ControlOK, SignalOK, Due
  <2>3. \A i \in Images : SignalDue(i)'
    BY <1>1, <1>2, <2>2 DEF ControlOK, SignalDue, UnderWaySame
  <2>4. PresentsOK'
    BY <1>1 DEF ControlOK, PresentsOK, SignalOK
  <2> QED BY <2>1, <2>3, <2>4 DEF ControlOK
<1> QED BY <1>2, <1>3, <1>4

(* A refused submission that drops nothing changes no semaphore.           *)
LEMMA RefusedSame ==
  ASSUME SubmitRefused, ~lost'
  PROVE  pendWaits = {} /\ pendSignals = {} /\ UNCHANGED <<queue, pendWaits, pendSignals>>
  BY DEF SubmitRefused, ClearPending

(* An accepted submission.                                                 *)
LEMMA AcceptedSignals ==
  ASSUME Shape, OneSignals, AcquireHalf, NEW i \in Images \cup {None}, NEW S \in SUBSET PresentSems,
         SubmitAccepted(i, S), UNCHANGED <<acquireIndex, release, reading, owner, sem>>,
         i # None => owner[i] # "engine" /\ ~UnderWay(PresentSem(i)),
         \A j \in Images : PresentSem(j) \in S => ~UnderWay(PresentSem(j))
  PROVE  /\ OneSignals' /\ AcquireHalf' /\ pendWaits' = {} /\ pendSignals' = {}
         /\ \A j \in Images : UnderWay(PresentSem(j))' <=> UnderWay(PresentSem(j)) \/ PresentSem(j) \in S
<1>1. PICK T \in SUBSET PresentSems : T = pendSignals \cup S
  BY DEF Shape, QueueShape
<1>2. /\ queue' = Append(queue, Batch(pendWaits, T, i, None)) /\ pendWaits' = {} /\ pendSignals' = {}
  BY <1>1 DEF SubmitAccepted, ClearPending
<1>3. \A s : s \in T <=> s \in pendSignals \/ s \in S
  BY <1>1
<1>4. pendWaits \in SUBSET AcquireSems
  BY DEF Shape, QueueShape
<1>5. i # None => owner[i] # "engine" /\ PresentSem(i) \notin sem /\ ~QueuedSignal(PresentSem(i))
  BY DEF UnderWay
<1>6. AcquireHalf'
  BY <1>2, <1>4, <1>5, AcquireSubmit
<1>7. /\ OneSignals'
      /\ \A j \in Images : UnderWay(PresentSem(j))' <=> UnderWay(PresentSem(j)) \/ PresentSem(j) \in S
  BY <1>2, <1>3, <1>4, SignalsSubmit
<1> QED BY <1>2, <1>6, <1>7

(* Another thread's submission takes what is pending along.                *)
LEMMA OtherSubmitStep ==
  ASSUME Shape, SemInv, OtherSubmit, ~lost'
  PROVE  SemInv'
<1> USE DEF SemInv
<1>1. UNCHANGED <<pc, image, signal, acquireIndex, sem, owner, reading, release, presents>>
  BY DEF OtherSubmit, main, engine
<1>2. SubmitAccepted(None, {})
  <2>1. SubmitAccepted(None, {}) \/ SubmitRefused
    BY DEF OtherSubmit
  <2>2. ~SubmitRefused
    BY RefusedSame DEF OtherSubmit
  <2> QED BY <2>1, <2>2
<1>3. /\ OneSignals' /\ AcquireHalf' /\ pendWaits' = {} /\ pendSignals' = {}
      /\ UnderWaySame
  <2>1. None \in Images \cup {None} /\ {} \in SUBSET PresentSems
    OBVIOUS
  <2> QED BY <1>1, <1>2, <2>1, AcceptedSignals DEF UnderWaySame
<1>4. ControlOK'
  <2>1. Due' <=> Due
    BY <1>1 DEF Due
  <2>2. \A i \in Images : SignalDue(i)'
    BY <1>1, <1>3, <2>1 DEF ControlOK, SignalDue, UnderWaySame
  <2>3. PendingOK' /\ SignalOK'
    BY <1>1, <1>3 DEF ControlOK, PendingOK, SignalOK
  <2>4. image \in Images
    BY DEF Shape, MainShape
  <2>5. PresentsOK'
    BY <1>1, <1>3, <2>4 DEF ControlOK, PresentsOK, UnderWaySame
  <2> QED BY <2>2, <2>3, <2>5 DEF ControlOK
<1> QED BY <1>3, <1>4

(* A submission ahead of the terminal one.                                 *)
LEMMA RenderSubmitStep ==
  ASSUME Shape, SemInv, RenderSubmit, ~lost'
  PROVE  SemInv'
<1> USE DEF SemInv
<1>1. /\ pc = "render" /\ pc' = "terminal"
      /\ UNCHANGED <<image, signal, acquireIndex, sem, owner, reading, release, presents>>
  BY DEF RenderSubmit, At, engine
<1>2. signal = "Idle" /\ owner[image] = "app" /\ ~Due /\ pendSignals = {} /\ ~Due'
  BY <1>1 DEF ControlOK, SignalOK, Due, FramePoints, PendingOK
<1>3. image \in Images /\ image # None
  BY Counts DEF Shape, MainShape
<1>4. ~UnderWay(PresentSem(image))
  BY <1>2, <1>3 DEF ControlOK, SignalDue
<1>5. /\ OneSignals' /\ AcquireHalf' /\ pendSignals' = {} /\ UnderWaySame
  <2>1. CASE SubmitAccepted(image, {})
    <3>1. PICK i \in Images : i = image
      BY <1>3
    <3>2. {} \in SUBSET PresentSems /\ i \in Images \cup {None}
      OBVIOUS
    <3>3. SubmitAccepted(i, {})
      BY <2>1, <3>1
    <3>4. owner[i] # "engine" /\ ~UnderWay(PresentSem(i))
      BY <1>2, <1>4, <3>1
    <3> QED BY <1>1, <3>2, <3>3, <3>4, AcceptedSignals DEF UnderWaySame
  <2>2. CASE SubmitRefused
    <3>1. pendSignals = {} /\ UNCHANGED <<queue, pendWaits, pendSignals>>
      BY <2>2, RefusedSame
    <3>2. AcquireHalf'
      BY <1>1, <3>1, AcquireSame
    <3> QED BY <1>1, <3>1, <3>2, SignalsSame
  <2> QED BY <2>1, <2>2 DEF RenderSubmit
<1>6. ControlOK'
  <2>1. PendingOK' /\ SignalOK'
    BY <1>1, <1>2, <1>5 DEF PendingOK, SignalOK, FramePoints
  <2>2. \A i \in Images : SignalDue(i)'
    BY <1>1, <1>2, <1>5 DEF ControlOK, SignalDue, UnderWaySame
  <2>3. PresentsOK'
    BY <1>1 DEF ControlOK, PresentsOK
  <2> QED BY <2>1, <2>2, <2>3 DEF ControlOK
<1> QED BY <1>5, <1>6

(* The terminal submission puts the image's present signal under way, if   *)
(* it is accepted.                                                         *)
LEMMA SubmitTerminalStep ==
  ASSUME Shape, SemInv, SubmitTerminal, ~lost'
  PROVE  SemInv'
<1> USE DEF SemInv
<1>1. /\ pc \in {"render", "terminal"}
      /\ UNCHANGED <<image, acquireIndex, sem, owner, reading, release, presents>>
  BY DEF SubmitTerminal, At, engine
<1>2. signal = "Idle" /\ owner[image] = "app" /\ ~Due /\ pendSignals = {}
  BY <1>1 DEF ControlOK, SignalOK, Due, FramePoints, PendingOK
<1>3. PICK i \in Images : i = image
  BY DEF Shape, MainShape
<1>4. i # None /\ ~UnderWay(PresentSem(i)) /\ owner[i] = "app" /\ image' = i
  BY <1>1, <1>2, <1>3, Counts DEF ControlOK, SignalDue
<1>5. \A j \in Images : UnderWay(PresentSem(j)) <=> owner[j] = "queued"
  BY <1>2 DEF ControlOK, SignalDue
<1>6. CASE SubmitAccepted(image, {PresentSem(image)})
           /\ ((signal' = "Accepted" /\ pc' = "present") \/ (signal' = "Queued" /\ pc' = "cancel"))
  <2>1. SubmitAccepted(i, {PresentSem(i)}) /\ i \in Images \cup {None}
    BY <1>3, <1>6
  <2>2. PICK S \in SUBSET PresentSems : S = {PresentSem(i)}
    BY SemSets
  <2>3. \A j \in Images : PresentSem(j) \in S <=> j = i
    BY <2>2, SemsDiffer
  <2>4. SubmitAccepted(i, S)
    BY <2>1, <2>2
  <2>5. \A j \in Images : PresentSem(j) \in S => ~UnderWay(PresentSem(j))
    BY <1>4, <2>3
  <2>6. owner[i] # "engine"
    BY <1>4
  <2>7. /\ OneSignals' /\ AcquireHalf' /\ pendWaits' = {} /\ pendSignals' = {}
        /\ \A j \in Images : UnderWay(PresentSem(j))' <=> UnderWay(PresentSem(j)) \/ PresentSem(j) \in S
    BY <1>1, <1>4, <2>1, <2>4, <2>5, <2>6, AcceptedSignals
  <2>8. PendingOK' /\ SignalOK' /\ Due'
    BY <1>1, <1>2, <1>6, <2>7 DEF PendingOK, SignalOK, FramePoints, Due
  <2>9. \A j \in Images : SignalDue(j)'
    BY <1>1, <1>4, <1>5, <2>3, <2>7, <2>8 DEF SignalDue
  <2>10. PresentsOK'
    BY <1>1, <1>4, <2>3, <2>7 DEF ControlOK, PresentsOK
  <2> QED BY <2>7, <2>8, <2>9, <2>10 DEF ControlOK
<1>7. CASE /\ UNCHANGED <<pendSignals, pendWaits, queue>> /\ pc' = "cancel" /\ signal' \in {"Queued", "Claimed"}
  <2>1. OneSignals' /\ UnderWaySame
    BY <1>1, <1>7, SignalsSame
  <2>2. AcquireHalf'
    BY <1>1, <1>7, AcquireSame
  <2>3. PendingOK' /\ SignalOK'
    BY <1>1, <1>2, <1>7 DEF PendingOK, SignalOK, FramePoints
  <2>4. \A j \in Images : SignalDue(j)'
    BY <1>1, <1>5, <2>1 DEF SignalDue, UnderWaySame
  <2>5. PresentsOK'
    BY <1>1, <1>7 DEF ControlOK, PresentsOK
  <2> QED BY <2>1, <2>2, <2>3, <2>4, <2>5 DEF ControlOK
<1>8. SubmitRefused => UNCHANGED <<pendSignals, pendWaits, queue>>
  BY RefusedSame
<1>9. \/ /\ SubmitAccepted(image, {PresentSem(image)})
         /\ ((signal' = "Accepted" /\ pc' = "present") \/ (signal' = "Queued" /\ pc' = "cancel"))
      \/ SubmitRefused /\ signal' = "Queued" /\ pc' = "cancel"
      \/ signal' = "Claimed" /\ pc' = "cancel" /\ UNCHANGED <<pendSignals, pendWaits, queue>>
  BY DEF SubmitTerminal, pending
<1> HIDE DEF SemInv
<1> QED BY <1>6, <1>7, <1>8, <1>9

(* A terminal submission that did not come through is cancelled.           *)
LEMMA CancelTerminalStep ==
  ASSUME Shape, SemInv, CancelTerminal, ~lost'
  PROVE  SemInv'
<1> USE DEF SemInv
<1>1. /\ pc = "cancel" /\ pc' = "present" /\ signal' = "Idle" /\ Cancel
      /\ UNCHANGED <<acquireIndex, image, pendWaits, pendSignals, queue, owner, reading, release, presents>>
  BY DEF CancelTerminal, At, Cancel, pending, engine
<1>2. pendSignals = {} /\ owner[image] = "app"
  BY <1>1 DEF ControlOK, PendingOK, SignalOK, FramePoints
<1>3. /\ OneSignals' /\ sem' \subseteq sem /\ \A s \in AcquireSems : s \in sem => s \in sem'
      /\ \A i \in Images : UnderWay(PresentSem(i))' <=>
           UnderWay(PresentSem(i)) /\ (i # image \/ signal \in {"Idle", "Claimed"})
  BY <1>1, <1>2, CancelSignals
<1>4. AcquireHalf'
  BY <1>1, <1>3, AcquireSame
<1>5. ControlOK'
  <2>1. PendingOK' /\ SignalOK' /\ ~Due'
    BY <1>1, <1>2 DEF ControlOK, PendingOK, SignalOK, FramePoints, Due
  <2>2. PresentsOK'
    BY <1>1 DEF ControlOK, PresentsOK
  <2>3. ASSUME NEW i \in Images PROVE SignalDue(i)'
    <3>1. SignalDue(i)
      BY DEF ControlOK
    <3>2. UnderWay(PresentSem(i))' => owner[i] = "queued"
      BY <1>1, <1>3, <3>1 DEF SignalDue, Due
    <3>3. owner[i] = "queued" => UnderWay(PresentSem(i))'
      BY <1>2, <1>3, <3>1 DEF SignalDue
    <3> QED BY <1>1, <3>2, <3>3 DEF SignalDue
  <2> QED BY <2>1, <2>2, <2>3 DEF ControlOK
<1> QED BY <1>3, <1>4, <1>5
(* The fallback queues the image's present signal.                         *)
LEMMA QueueFallbackSignalStep ==
  ASSUME Shape, SemInv, QueueFallbackSignal
  PROVE  SemInv'
<1> USE DEF SemInv
<1>1. /\ pc = "present" /\ pc' = "fallback" /\ signal # "Accepted"
      /\ pendSignals' = pendSignals \cup {PresentSem(image)}
      /\ UNCHANGED <<image, signal, pendWaits, queue, acquireIndex, sem, owner, reading, release, presents>>
  BY DEF QueueFallbackSignal, At, engine
<1>2. signal = "Idle" /\ owner[image] = "app" /\ ~Due /\ pendSignals = {} /\ Due'
  BY <1>1 DEF ControlOK, SignalOK, Due, FramePoints, PendingOK
<1>3. PICK i \in Images : i = image
  BY DEF Shape, MainShape
<1>4. ~UnderWay(PresentSem(i)) /\ owner[i] = "app" /\ image' = i
  BY <1>1, <1>2, <1>3 DEF ControlOK, SignalDue
<1>5. \A j \in Images : UnderWay(PresentSem(j)) <=> owner[j] = "queued"
  BY <1>2 DEF ControlOK, SignalDue
<1>6. \A j \in Images : PresentSem(j) \in pendSignals' <=> j = i
  BY <1>1, <1>2, <1>3, SemsDiffer
<1>7. ASSUME NEW j \in Images
      PROVE  /\ QueuedSignal(PresentSem(j))' <=> QueuedSignal(PresentSem(j))
             /\ UnderWay(PresentSem(j))' <=> UnderWay(PresentSem(j)) \/ j = i
             /\ OneSignal(PresentSem(j))'
  <2>1. QueuedSignal(PresentSem(j))' <=> QueuedSignal(PresentSem(j))
    BY <1>1 DEF QueuedSignal
  <2>2. UnderWay(PresentSem(j))' <=> UnderWay(PresentSem(j)) \/ j = i
    BY <1>1, <1>2, <1>6, <2>1 DEF UnderWay
  <2>3. OneSignal(PresentSem(j))
    BY DEF OneSignals
  <2>4. j = i => ~QueuedSignal(PresentSem(j)) /\ PresentSem(j) \notin sem
    BY <1>4 DEF UnderWay
  <2> QED BY <1>1, <1>2, <1>6, <2>1, <2>2, <2>3, <2>4 DEF OneSignal
<1>8. OneSignals'
  BY <1>7 DEF OneSignals
<1>9. AcquireHalf'
  BY <1>1, AcquireSame
<1>10. ControlOK'
  <2>1. PendingOK' /\ SignalOK'
    BY <1>1, <1>2 DEF PendingOK, SignalOK, FramePoints
  <2>2. \A j \in Images : SignalDue(j)'
    BY <1>1, <1>2, <1>4, <1>5, <1>7 DEF SignalDue
  <2>3. PresentsOK'
    BY <1>1, <1>4, <1>7 DEF ControlOK, PresentsOK
  <2> QED BY <2>1, <2>2, <2>3 DEF ControlOK
<1> QED BY <1>8, <1>9, <1>10

(* The fallback's own submission.                                          *)
LEMMA SubmitFallbackStep ==
  ASSUME Shape, SemInv, SubmitFallback, ~lost'
  PROVE  SemInv'
<1> USE DEF SemInv
<1>1. /\ pc = "fallback" /\ pc' = "queuePresent"
      /\ UNCHANGED <<image, signal, acquireIndex, sem, owner, reading, release, presents>>
  BY DEF SubmitFallback, At, engine
<1>2. signal = "Idle" /\ owner[image] = "app" /\ Due /\ Due' /\ UnderWay(PresentSem(image))
  BY <1>1 DEF ControlOK, SignalOK, Due, FramePoints, PresentsOK
<1>3. image \in Images
  BY DEF Shape, MainShape
<1>4. OneSignals' /\ AcquireHalf' /\ pendWaits' = {} /\ pendSignals' = {} /\ UnderWaySame
  <2>1. CASE pendWaits = {} /\ pendSignals = {}
    <3>1. UNCHANGED <<queue, pendWaits, pendSignals>>
      BY <2>1 DEF SubmitFallback, pending
    <3>2. AcquireHalf'
      BY <1>1, <3>1, AcquireSame
    <3> QED BY <1>1, <2>1, <3>1, <3>2, SignalsSame
  <2>2. CASE ~(pendWaits = {} /\ pendSignals = {})
    <3>1. SubmitAccepted(None, {})
      BY <2>2, RefusedSame DEF SubmitFallback
    <3>2. None \in Images \cup {None} /\ {} \in SUBSET PresentSems
      OBVIOUS
    <3> QED BY <1>1, <3>1, <3>2, AcceptedSignals DEF UnderWaySame
  <2> QED BY <2>1, <2>2
<1>5. ControlOK'
  <2>1. PendingOK' /\ SignalOK'
    BY <1>1, <1>2, <1>4 DEF PendingOK, SignalOK, FramePoints
  <2>2. \A j \in Images : SignalDue(j)'
    BY <1>1, <1>2, <1>4 DEF ControlOK, SignalDue, UnderWaySame
  <2>3. PresentsOK'
    BY <1>1, <1>2, <1>3, <1>4 DEF ControlOK, PresentsOK, UnderWaySame
  <2> QED BY <2>1, <2>2, <2>3 DEF ControlOK
<1> QED BY <1>4, <1>5

(* The image is presented: its signal is under way.                        *)
LEMMA QueuePresentStep ==
  ASSUME Shape, SemInv, QueuePresent
  PROVE  SemInv'
<1> USE DEF SemInv
<1>1. /\ pc = "queuePresent" \/ (pc = "present" /\ signal = "Accepted")
      /\ signal' = "Idle"
      /\ UNCHANGED <<image, pendWaits, pendSignals, queue, acquireIndex, sem, reading, release>>
  BY DEF QueuePresent, At, pending
<1>2. owner[image] = "app" /\ Due /\ UnderWay(PresentSem(image)) /\ pendWaits = {} /\ pendSignals = {}
  BY <1>1 DEF ControlOK, SignalOK, Due, FramePoints, PresentsOK, PendingOK
<1>3. PICK i \in Images : i = image
  BY DEF Shape, MainShape
<1>4. OneSignals' /\ UnderWaySame
  BY <1>1, SignalsSame
<1>5. CASE pc' = "ended" /\ UNCHANGED <<presents, owner>>
  <2>1. AcquireHalf'
    BY <1>1, <1>5, AcquireSame
  <2>2. PendingOK' /\ SignalOK' /\ Due'
    BY <1>1, <1>2, <1>5 DEF PendingOK, SignalOK, FramePoints, Due
  <2>3. \A j \in Images : SignalDue(j)'
    BY <1>1, <1>2, <1>4, <1>5, <2>2 DEF ControlOK, SignalDue, UnderWaySame
  <2>4. PresentsOK'
    BY <1>1, <1>5 DEF ControlOK, PresentsOK
  <2> QED BY <1>4, <2>1, <2>2, <2>3, <2>4 DEF ControlOK
<1>6. CASE /\ presents' = Append(presents, i) /\ owner' = [owner EXCEPT ![i] = "queued"]
           /\ pc' = "throttle"
  <2>1. \A j \in Images : owner'[j] = IF j = i THEN "queued" ELSE owner[j]
    BY <1>6 DEF Shape, EngineShape
  <2>2. owner[i] = "app" /\ UnderWay(PresentSem(i))
    BY <1>2, <1>3
  <2>3. AcquireHalf'
    <3>1. \A j \in Images : owner'[j] = "engine" <=> owner[j] = "engine"
      BY <2>1, <2>2
    <3> QED BY <1>1, <3>1, AcquireSame
  <2>4. PendingOK' /\ SignalOK'
    BY <1>1, <1>2, <1>6 DEF PendingOK, SignalOK, FramePoints
  <2>5. \A j \in Images : SignalDue(j)'
    BY <1>3, <1>4, <2>1, <2>2 DEF ControlOK, SignalDue, UnderWaySame
  <2>6. PICK L \in Nat :
           /\ L \in DOMAIN presents' /\ presents'[L] = i
           /\ \A k \in DOMAIN presents : k \in DOMAIN presents' /\ presents'[k] = presents[k]
           /\ \A k \in DOMAIN presents' : k \in DOMAIN presents \/ k = L
    <3>1. presents \in Seq(Images)
      BY DEF Shape, EngineShape
    <3>2. /\ Len(presents) \in Nat /\ DOMAIN presents = 1 .. Len(presents)
          /\ DOMAIN presents' = 1 .. Len(presents) + 1
          /\ \A k \in 1 .. Len(presents) : presents'[k] = presents[k]
          /\ presents'[Len(presents) + 1] = i
      BY <1>6, <3>1
    <3> QED BY <3>2
  <2>7. \A k \in DOMAIN presents : presents[k] \in Images /\ presents[k] # i
    <3>1. \A k \in DOMAIN presents : presents[k] \in Images
      BY DEF Shape, EngineShape
    <3> QED BY <2>2, <3>1 DEF ControlOK, PresentsOK
  <2>8. PresentsOK'
    <3>1. ASSUME NEW j \in Images
          PROVE  owner'[j] = "queued" <=> \E k \in DOMAIN presents' : presents'[k] = j
      <4>1. owner[j] = "queued" <=> \E k \in DOMAIN presents : presents[k] = j
        BY DEF ControlOK, PresentsOK
      <4> QED BY <2>1, <2>6, <4>1
    <3>2. \A j, k \in DOMAIN presents' : presents'[j] = presents'[k] => j = k
      BY <2>6, <2>7 DEF ControlOK, PresentsOK
    <3> QED BY <1>6, <3>1, <3>2 DEF PresentsOK
  <2> QED BY <1>4, <2>3, <2>4, <2>5, <2>8 DEF ControlOK
<1>7. \/ pc' = "ended" /\ UNCHANGED <<presents, owner>>
      \/ presents' = Append(presents, i) /\ owner' = [owner EXCEPT ![i] = "queued"] /\ pc' = "throttle"
  BY <1>3 DEF QueuePresent
<1> QED BY <1>5, <1>6, <1>7

(* A fence is submitted: it carries no semaphore.                          *)
LEMMA SetEventQueryStep ==
  ASSUME Shape, SemInv, SetEventQuery
  PROVE  SemInv'
<1> USE DEF SemInv
<1>1. /\ pc = "setQuery" /\ pc' = "idle"
      /\ UNCHANGED <<image, signal, pendWaits, pendSignals, acquireIndex, sem, owner, reading, release, presents>>
  BY DEF SetEventQuery, At, pending, engine
<1>2. signal = "Idle" /\ ~Due /\ ~Due' /\ pendWaits = {} /\ pendSignals = {}
  BY <1>1 DEF ControlOK, SignalOK, Due, FramePoints, PendingOK
<1>3. PICK q \in pool : queue' = Append(queue, Batch({}, {}, None, q)) \/ queue' = queue
  BY DEF SetEventQuery
<1>4. OneSignals' /\ AcquireHalf' /\ UnderWaySame
  <2>1. CASE queue' = queue
    <3>1. AcquireHalf'
      BY <1>1, <2>1, AcquireSame
    <3> QED BY <1>1, <2>1, <3>1, SignalsSame
  <2>2. CASE queue' = Append(queue, Batch({}, {}, None, q))
    <3>1. PICK S \in SUBSET PresentSems : S = {}
      OBVIOUS
    <3>2. PICK w \in SUBSET AcquireSems : w = {}
      OBVIOUS
    <3>3. q \in Queries \cup {None} /\ None \in Images \cup {None}
      BY DEF Shape, FenceShape
    <3>4. queue' = Append(queue, Batch(w, S, None, q)) /\ w = pendWaits
      BY <1>2, <2>2, <3>1, <3>2
    <3>5. AcquireHalf'
      <4>1. queue' = Append(queue, Batch(pendWaits, S, None, q))
        BY <3>4
      <4>2. pendWaits' = {}
        BY <1>1, <1>2
      <4> QED BY <1>1, <3>3, <4>1, <4>2, AcquireSubmit
    <3>6. (\A s : s \in S <=> s \in pendSignals \/ s \in S) /\ pendSignals' = {}
          /\ \A j \in Images : PresentSem(j) \in S => ~UnderWay(PresentSem(j))
      BY <1>1, <1>2, <3>1
    <3>7. queue' = Append(queue, Batch(w, S, None, q)) /\ sem' = sem
      BY <1>1, <3>4
    <3>8. OneSignals' /\ \A j \in Images : UnderWay(PresentSem(j))' <=> UnderWay(PresentSem(j)) \/ PresentSem(j) \in S
      BY <3>3, <3>6, <3>7, SignalsSubmit
    <3> QED BY <3>1, <3>5, <3>8 DEF UnderWaySame
  <2> QED BY <1>3, <2>1, <2>2
<1>5. ControlOK'
  <2>1. PendingOK' /\ SignalOK'
    BY <1>1, <1>2 DEF PendingOK, SignalOK, FramePoints
  <2>2. \A j \in Images : SignalDue(j)'
    BY <1>1, <1>2, <1>4 DEF ControlOK, SignalDue, UnderWaySame
  <2>3. PresentsOK'
    BY <1>1 DEF ControlOK, PresentsOK
  <2> QED BY <2>1, <2>2, <2>3 DEF ControlOK
<1> QED BY <1>4, <1>5

(* A new swap chain: the device is idle, no image is presented, and an     *)
(* unpresented signal is gone with its semaphore.                          *)
LEMMA ResizeSwapChainStep ==
  ASSUME Shape, Shape', SemInv, ResizeSwapChain, ~lost'
  PROVE  SemInv'
<1> USE DEF SemInv
<1>1. /\ pc \in {"idle", "acquire"} /\ pc' \in {"idle", "acquire"} /\ signal' = "Idle"
      /\ queue = <<>> /\ queue' = <<>> /\ presents = <<>> /\ presents' = <<>>
      /\ UNCHANGED <<pendWaits, pendSignals>>
      /\ \A i \in Images : owner'[i] = "engine"
  BY DEF ResizeSwapChain, At, pending
<1>2. pendWaits = {} /\ pendSignals = {}
  BY <1>1 DEF ControlOK, PendingOK, FramePoints
<1>3. AcquireHalf'
  BY <1>2, AcquireResize
<1>4. /\ sem' \subseteq sem
      /\ signal = "Accepted" => PresentSem(image) \notin sem'
  BY DEF ResizeSwapChain
<1>5. ASSUME NEW i \in Images PROVE ~UnderWay(PresentSem(i))'
  <2>1. owner[i] # "queued"
    <3>1. DOMAIN presents = {}
      BY <1>1
    <3> QED BY <3>1 DEF ControlOK, PresentsOK
  <2>2. UnderWay(PresentSem(i)) => i = image /\ signal = "Accepted"
    BY <1>1, <2>1 DEF ControlOK, SignalDue, Due
  <2>3. PresentSem(i) \notin sem'
    BY <1>4, <2>2 DEF UnderWay
  <2>4. DOMAIN queue' = {}
    BY <1>1
  <2> QED BY <1>1, <1>2, <2>3, <2>4 DEF UnderWay, QueuedSignal
<1>6. OneSignals'
  <2>1. DOMAIN queue' = {}
    BY <1>1
  <2> QED BY <1>1, <1>2, <2>1 DEF OneSignals, OneSignal, QueuedSignal
<1>7. ControlOK'
  <2>1. PendingOK' /\ SignalOK'
    BY <1>1, <1>2 DEF PendingOK, SignalOK, FramePoints
  <2>2. \A j \in Images : SignalDue(j)'
    BY <1>1, <1>5 DEF SignalDue
  <2>3. PresentsOK'
    <3>1. DOMAIN presents' = {}
      BY <1>1
    <3> QED BY <1>1, <3>1 DEF PresentsOK
  <2> QED BY <2>1, <2>2, <2>3 DEF ControlOK
<1> QED BY <1>3, <1>6, <1>7

(* The device executes a batch.                                            *)
LEMMA ExecuteBatchStep ==
  ASSUME Shape, SemInv, ExecuteBatch
  PROVE  SemInv'
<1> USE DEF SemInv
<1>1. UNCHANGED <<pc, image, signal, pendWaits, pendSignals, owner, presents>>
  BY DEF ExecuteBatch, main, pending, engine
<1>2. OneSignals' /\ UnderWaySame
  BY SignalsExecute
<1>3. AcquireHalf'
  BY AcquireExecute
<1>4. ControlOK'
  <2>1. PendingOK' /\ SignalOK' /\ (Due' <=> Due)
    BY <1>1 DEF ControlOK, PendingOK, SignalOK, Due
  <2>2. \A j \in Images : SignalDue(j)'
    BY <1>1, <1>2, <2>1 DEF ControlOK, SignalDue, UnderWaySame
  <2>3. image \in Images
    BY DEF Shape, MainShape
  <2>4. PresentsOK'
    BY <1>1, <1>2, <2>3 DEF ControlOK, PresentsOK, UnderWaySame
  <2> QED BY <2>1, <2>2, <2>4 DEF ControlOK
<1> QED BY <1>2, <1>3, <1>4

(* The engine takes an image.                                              *)
LEMMA TakePresentStep ==
  ASSUME Shape, SemInv, TakePresent
  PROVE  SemInv'
<1> USE DEF SemInv
<1>1. PICK i \in Images :
        /\ i = Head(presents) /\ presents # <<>>
        /\ PresentSem(i) \in sem /\ sem' = sem \ {PresentSem(i)}
        /\ owner' = [owner EXCEPT ![i] = "engine"]
        /\ presents' = Tail(presents)
  <2>1. Head(presents) \in Images
    BY DEF Shape, EngineShape, TakePresent
  <2> QED BY <2>1 DEF TakePresent
<1>2. UNCHANGED <<pc, image, signal, pendWaits, pendSignals, queue>>
  BY DEF TakePresent, main, pending
<1>3. \A j \in Images : owner'[j] = IF j = i THEN "engine" ELSE owner[j]
  BY <1>1 DEF Shape, EngineShape
<1>4. presents \in Seq(Images)
  BY DEF Shape, EngineShape
<1>5. /\ 1 \in DOMAIN presents /\ presents[1] = i
      /\ \A k \in DOMAIN presents' : k \in Nat /\ k >= 1 /\ k + 1 \in DOMAIN presents /\ presents'[k] = presents[k + 1]
      /\ \A k \in DOMAIN presents : k = 1 \/ (k - 1 \in DOMAIN presents' /\ presents'[k - 1] = presents[k])
  BY <1>1, <1>4
<1>6. owner[i] = "queued"
  BY <1>5 DEF ControlOK, PresentsOK
<1>7. /\ OneSignals' /\ ~UnderWay(PresentSem(i))'
      /\ \A j \in Images \ {i} : UnderWay(PresentSem(j))' <=> UnderWay(PresentSem(j))
  BY <1>1, <1>2, SignalTaken
<1>8. AcquireHalf'
  BY AcquireTake
<1>9. ControlOK'
  <2>0. image \in Images
    BY DEF Shape, MainShape
  <2>1. SignalOK'
    <3>1. pc \in FramePoints \/ (pc = "idle" /\ signal = "Accepted") => image # i
      BY <1>6 DEF ControlOK, SignalOK
    <3> QED BY <1>2, <1>3, <2>0, <3>1 DEF ControlOK, SignalOK
  <2>2. PendingOK' /\ (Due' <=> Due)
    BY <1>2 DEF ControlOK, PendingOK, Due
  <2>3. \A j \in Images : SignalDue(j)'
    BY <1>2, <1>3, <1>7, <2>2 DEF ControlOK, SignalDue
  <2>4. ASSUME NEW j \in Images
        PROVE  owner'[j] = "queued" <=> \E k \in DOMAIN presents' : presents'[k] = j
    <3>1. owner[j] = "queued" <=> \E k \in DOMAIN presents : presents[k] = j
      BY DEF ControlOK, PresentsOK
    <3>2. \A k \in DOMAIN presents' : presents'[k] # i
      BY <1>5 DEF ControlOK, PresentsOK
    <3> QED BY <1>3, <1>5, <3>1, <3>2
  <2>5. ASSUME NEW j \in DOMAIN presents', NEW k \in DOMAIN presents', presents'[j] = presents'[k]
        PROVE  j = k
    <3>1. j + 1 = k + 1
      BY <1>5, <2>5 DEF ControlOK, PresentsOK
    <3> QED BY <1>5, <3>1
  <2>6. pc \in {"fallback", "queuePresent"} \/ (pc = "present" /\ signal = "Accepted") =>
           UnderWay(PresentSem(image))'
    <3>1. pc \in {"fallback", "queuePresent"} \/ (pc = "present" /\ signal = "Accepted") =>
             UnderWay(PresentSem(image)) /\ owner[image] = "app"
      BY DEF ControlOK, PresentsOK, SignalOK, FramePoints
    <3> QED BY <1>2, <1>6, <1>7, <2>0, <3>1
  <2>7. PresentsOK'
    BY <1>2, <2>4, <2>5, <2>6 DEF PresentsOK
  <2> QED BY <2>1, <2>2, <2>3, <2>7 DEF ControlOK
<1> QED BY <1>7, <1>8, <1>9

(* The engine stops reading an image it has handed out.                    *)
LEMMA StopReadingStep ==
  ASSUME Shape, SemInv, NEW i \in Images, StopReading(i)
  PROVE  SemInv'
<1> USE DEF SemInv
<1>1. /\ UNCHANGED <<pc, image, signal, pendWaits, pendSignals, queue, owner, presents>>
      /\ sem' = sem \cup {release[i]} /\ release[i] # NoSem
  BY DEF StopReading, main, pending
<1>2. release[i] \in AcquireSems
  BY <1>1 DEF Shape, EngineShape
<1>3. \A j \in Images : PresentSem(j) \in sem' <=> PresentSem(j) \in sem
  BY <1>1, <1>2, SemSets
<1>4. OneSignals' /\ UnderWaySame
  BY <1>1, <1>3, SignalsSame
<1>5. AcquireHalf'
  BY AcquireStop
<1>6. ControlOK'
  <2>1. PendingOK' /\ SignalOK' /\ (Due' <=> Due)
    BY <1>1 DEF ControlOK, PendingOK, SignalOK, Due
  <2>2. \A j \in Images : SignalDue(j)'
    BY <1>1, <1>4, <2>1 DEF ControlOK, SignalDue, UnderWaySame
  <2>3. image \in Images
    BY DEF Shape, MainShape
  <2>4. PresentsOK'
    BY <1>1, <1>4, <2>3 DEF ControlOK, PresentsOK, UnderWaySame
  <2> QED BY <2>1, <2>2, <2>4 DEF ControlOK
<1> QED BY <1>4, <1>5, <1>6
-----------------------------------------------------------------------------
(* Every step keeps the semaphore half, as long as none was dropped.       *)
LEMMA SemStep ==
  ASSUME Shape, SemInv, Next, ~lost'
  PROVE  SemInv'
<1>1. CASE BeginFrame
  BY <1>1, BeginFrameStep
<1>2. CASE AcquireNextImage
  BY <1>2, AcquireNextImageStep
<1>3. CASE AcquireFails \/ RenderNothing \/ AbortFrame \/ Throttle
  BY <1>3, MoveOnStep
<1>4. CASE RenderSubmit
  BY <1>4, RenderSubmitStep
<1>5. CASE SubmitTerminal
  BY <1>5, SubmitTerminalStep
<1>6. CASE CancelTerminal
  BY <1>6, CancelTerminalStep
<1>7. CASE QueueFallbackSignal
  BY <1>7, QueueFallbackSignalStep
<1>8. CASE SubmitFallback
  BY <1>8, SubmitFallbackStep
<1>9. CASE QueuePresent
  BY <1>9, QueuePresentStep
<1>10. CASE SetEventQuery
  BY <1>10, SetEventQueryStep
<1>11. CASE ResizeSwapChain
  BY <1>11, ShapeStep, ResizeSwapChainStep
<1>12. CASE OtherSubmit
  BY <1>12, OtherSubmitStep
<1>13. CASE ExecuteBatch
  BY <1>13, ExecuteBatchStep
<1>14. CASE TakePresent
  BY <1>14, TakePresentStep
<1>15. CASE \E i \in Images : StopReading(i)
  BY <1>15, StopReadingStep
<1>16. ~ResetFenceInUse
  BY DEF ResetFenceInUse
<1> QED
  BY <1>1, <1>2, <1>3, <1>4, <1>5, <1>6, <1>7, <1>8, <1>9, <1>10, <1>11, <1>12, <1>13, <1>14,
      <1>15, <1>16
  DEF Next, RenderThread

(* The model stops where a semaphore was dropped or a fence reset.         *)
LEMMA LostStops ==
  ASSUME Next PROVE ~lost
  BY DEF Next, RenderThread, BeginFrame, AcquireNextImage, AcquireFails, RenderSubmit,
      SubmitTerminal,
         CancelTerminal, RenderNothing, AbortFrame, QueueFallbackSignal, SubmitFallback, QueuePresent,
         Throttle, SetEventQuery, ResetFenceInUse, ResizeSwapChain, OtherSubmit, ExecuteBatch, TakePresent, StopReading, At

(* The first state.                                                        *)
LEMMA InitInv == Init => IInv
<1> SUFFICES ASSUME Init PROVE IInv
  OBVIOUS
<1> USE DEF Init
<1>1. Shape
  BY Counts DEF Shape, MainShape, QueueShape, FenceShape, EngineShape, ControlPoints
<1>2. DOMAIN queue = {} /\ DOMAIN inFlight = {} /\ DOMAIN presents = {} /\ Len(inFlight) = 0
  OBVIOUS
<1>3. Cardinality(pool) = M
  <2>1. 1 \in Int /\ M \in Int /\ M > 0
    BY Counts
  <2>2. Cardinality(1 .. M) = M - 1 + 1
    BY <2>1, FS_Interval
  <2> QED BY <2>1, <2>2 DEF Queries
<1>4. PoolOK /\ DeviceFences
  BY <1>2, <1>3, Counts DEF PoolOK, DeviceFences
<1>5. \A a \in Indices : ~Busy(a) /\ AcquireOK(a)
  <2>1. \A i \in Images : release[i] = NoSem
    OBVIOUS
  <2>2. \A a \in Indices : ~Busy(a)
    BY <1>2 DEF Busy, QueuedWait
  <2>3. \A a \in Indices : ~Released(AcquireSem(a))
    BY <2>1, SemsDiffer DEF Released
  <2> QED BY <1>2, <2>1, <2>2, <2>3, SemsDiffer DEF AcquireOK, Released
<1>6. AcquireHalf
  <2>1. OrderOK /\ DrawOK /\ ReadOK
    BY <1>2 DEF OrderOK, DrawOK, ReadOK
  <2>2. PICK img \in [Indices -> Images] : img = [a \in Indices |-> 0]
    BY Counts
  <2>3. KeepOK(img)
    BY <1>2, <1>5 DEF KeepOK, Keeps
  <2> QED BY <1>5, <2>1, <2>3 DEF AcquireHalf
<1>7. \A i \in Images : ~UnderWay(PresentSem(i)) /\ OneSignal(PresentSem(i)) /\ SignalDue(i)
  BY <1>2 DEF UnderWay, QueuedSignal, OneSignal, SignalDue
<1>8. PendingOK /\ SignalOK /\ PresentsOK
  BY <1>2 DEF PendingOK, SignalOK, PresentsOK, FramePoints
<1>9. SemaphoresOK
  BY <1>6, <1>7, <1>8, SemParts DEF SemInv, ControlOK, OneSignals
<1> QED BY <1>1, <1>4, <1>9 DEF IInv

(* The invariant is inductive.                                             *)
LEMMA StepInv == IInv /\ [Next]_vars => IInv'
<1> SUFFICES ASSUME IInv, [Next]_vars PROVE IInv'
  OBVIOUS
<1>1. CASE Next
  <2>1. Shape /\ FencesOK /\ ~lost /\ SemInv
    BY <1>1, LostStops, SemParts DEF IInv, FencesOK
  <2>2. Shape' /\ FencesOK'
    BY <1>1, <2>1, ShapeStep, FencesStep
  <2>3. ~lost' => SemInv'
    BY <1>1, <2>1, SemStep
  <2>4. SemaphoresOK' <=> SemInv'
    BY DEF SemaphoresOK, SemInv, ControlOK, OneSignals, AcquireHalf
  <2> QED BY <2>2, <2>3, <2>4 DEF IInv, FencesOK
<1>2. CASE UNCHANGED vars
  <2>1. /\ UNCHANGED <<pc, chain, acquireIndex, image, signal, pendWaits, pendSignals, pool, inFlight, started>>
        /\ UNCHANGED <<queue, sem, fenced, owner, reading, release, presents, lost>>
    BY <1>2 DEF vars, main, pending, fences, engine
  <2>2. Shape' <=> Shape
    BY <2>1 DEF Shape, MainShape, QueueShape, FenceShape, EngineShape
  <2>3. FencesOK' <=> FencesOK
    BY <2>1 DEF FencesOK, PoolOK, DeviceFences
  <2>4. ASSUME SemInv PROVE SemInv'
    <3>1. (AcquireHalf <=> AcquireHalf') /\ (OneSignals <=> OneSignals')
      BY <2>1 DEF AcquireHalf, AcquireOK, OrderOK, DrawOK, ReadOK, KeepOK, Keeps, Busy,
          QueuedWait,
         Released, AheadOfPresent, QueuedSignal, Age, OneSignals, OneSignal
    <3>2. ControlOK <=> ControlOK'
      BY <2>1 DEF ControlOK, PendingOK, SignalOK, PresentsOK, SignalDue, Due, UnderWay,
          QueuedSignal
    <3> QED BY <2>4, <3>1, <3>2 DEF SemInv
  <2>5. SemaphoresOK' <=> SemInv'
    BY DEF SemaphoresOK, SemInv, ControlOK, OneSignals, AcquireHalf
  <2> QED BY <2>1, <2>2, <2>3, <2>4, <2>5, SemParts DEF IInv, FencesOK
<1> QED BY <1>1, <1>2

(* It is an invariant.                                                     *)
LEMMA Invariant == Spec => []IInv
  BY InitInv, StepInv, PTL DEF Spec

-----------------------------------------------------------------------------
(* Every variable of the frame path keeps its type: the pending semaphores *)
(* are the swap chain's, indices are in range, the render thread is at one *)
(* of its points.                                                          *)
THEOREM FrameTypes == Spec => []FrameTypeOK
<1>1. IInv => FrameTypeOK
  <2> SUFFICES ASSUME IInv PROVE FrameTypeOK
    OBVIOUS
  <2>1. \A k \in DOMAIN inFlight : inFlight[k] \in Queries
    BY DEF IInv, Shape, FenceShape
  <2>2. pendWaits \subseteq Sems /\ pendSignals \subseteq Sems /\ sem \subseteq Sems
    BY SemSets DEF IInv, Shape, QueueShape
  <2> QED BY <2>1, <2>2 DEF IInv, Shape, MainShape, QueueShape, FenceShape, EngineShape,
      FrameTypeOK,
         ControlPoints, Indices
<1> QED BY <1>1, Invariant, PTL

(* The frame fences: none in m_queryPool is still with the device, but for *)
(* that of a query whose wait failed; present always finds one to take,    *)
(* and none is lost or in two places.                                      *)
THEOREM FencesReusable == Spec => []FenceReusable
<1>1. IInv => FenceReusable
  <2> SUFFICES ASSUME IInv PROVE FenceReusable
    OBVIOUS
  <2>1. \A q \in pool \ started : ~WithDevice(q)
    <3>1. \A q \in pool : q # None
      BY Counts DEF IInv, Shape, FenceShape
    <3> QED BY <3>1 DEF IInv, DeviceFences, WithDevice
  <2>2. Cardinality({}) = 0
    BY FS_EmptySet
  <2>3. inFlight \in Seq(Queries) /\ Len(inFlight) \in Nat /\ M \in Nat
    BY Counts DEF IInv, Shape, FenceShape
  <2>4. ASSUME pc = "setQuery", pool = {} PROVE FALSE
    <3>1. Cardinality(pool) = 0
      BY <2>2, <2>4
    <3>2. Cardinality(pool) + Len(inFlight) = M /\ Len(inFlight) < M
      BY <2>4 DEF IInv, PoolOK
    <3> QED BY <2>3, <3>1, <3>2
  <2> QED BY <2>1, <2>4 DEF IInv, PoolOK, FenceReusable
<1> QED BY <1>1, Invariant, PTL

(* The device draws to an image only when the engine has released it and   *)
(* does not read it, whichever submission took the acquire wait along.     *)
THEOREM ImagesExclusive == Spec => []ImageExclusive
<1>1. IInv => ImageExclusive
  <2> SUFFICES ASSUME IInv, ~lost, 1 \in DOMAIN queue, Ready(1), queue[1].image # None
               PROVE  ~reading[queue[1].image] /\ owner[queue[1].image] # "engine"
    BY DEF ImageExclusive
  <2>0. SemaphoresOK /\ Shape
    BY DEF IInv
  <2>1. PICK i \in Images : i = queue[1].image
    BY <2>0, QueueBatches DEF Shape, QueueShape
  <2>2. owner[i] # "engine"
    BY <2>0, <2>1 DEF SemaphoresOK, DrawOK, AheadOfPresent
  <2>3. release[i] = NoSem
    <3>1. SUFFICES ASSUME release[i] # NoSem PROVE FALSE
      OBVIOUS
    <3>2. PICK j \in DOMAIN queue : j <= 1 /\ release[i] \in queue[j].waits
      BY <2>0, <2>1, <3>1 DEF SemaphoresOK, DrawOK
    <3>3. j = 1
      BY <2>0, <3>2 DEF Shape, QueueShape
    <3>4. release[i] \in sem
      BY <3>2, <3>3 DEF Ready
    <3>5. PICK a \in Indices : release[i] = AcquireSem(a)
      BY <2>0, <3>1 DEF Shape, EngineShape, AcquireSems
    <3> QED BY <2>0, <3>4, <3>5 DEF SemaphoresOK, AcquireOK, Released
  <2> QED BY <2>0, <2>1, <2>2, <2>3 DEF SemaphoresOK, ReadOK
<1> QED BY <1>1, Invariant, PTL

(* A set with at most one element.                                         *)
LEMMA AtMostOne ==
  ASSUME NEW S, \A x, y \in S : x = y
  PROVE  (S = {} => Cardinality(S) = 0) /\ (S # {} => Cardinality(S) = 1)
<1>1. CASE S = {}
  BY <1>1, FS_EmptySet
<1>2. CASE S # {}
  <2>1. PICK x : x \in S
    BY <1>2
  <2>2. S = {x}
    BY <2>1
  <2> QED BY <1>2, <2>2, FS_Singleton
<1> QED BY <1>1, <1>2

(* What is outstanding on an acquire semaphore.                            *)
LEMMA AcquireCounts ==
  ASSUME Shape, SemaphoresOK, NEW a \in Indices
  PROVE  LET s == AcquireSem(a) IN
         /\ Signals(s) = (IF Busy(a) THEN 1 ELSE 0)
         /\ Waits(s) = (IF Busy(a) THEN 1 ELSE 0)
<1> DEFINE s == AcquireSem(a)
           G == {k \in DOMAIN queue : s \in queue[k].signals}
           R == {i \in Images : release[i] = s}
           W == {k \in DOMAIN queue : s \in queue[k].waits}
           P == {k \in DOMAIN presents : PresentSem(presents[k]) = s}
<1>1. AcquireOK(a)
  BY DEF SemaphoresOK
<1>2. Cardinality(G) = 0 /\ Cardinality(P) = 0
  <2>1. G = {}
    <3>1. \A k \in DOMAIN queue : s \notin queue[k].signals
      BY QueueBatches, SemSets DEF Shape, QueueShape
    <3> QED BY <3>1
  <2>2. P = {}
    BY SemsDiffer
  <2> QED BY <2>1, <2>2, FS_EmptySet
<1>3. Cardinality(R) = IF Released(s) THEN 1 ELSE 0
  <2>1. \A x, y \in R : x = y
    BY <1>1 DEF AcquireOK
  <2>2. R # {} <=> Released(s)
    BY DEF Released
  <2> HIDE DEF R
  <2> QED BY <2>1, <2>2, AtMostOne
<1>4. Cardinality(W) = IF QueuedWait(s) THEN 1 ELSE 0
  <2>1. \A x, y \in W : x = y
    BY <1>1 DEF AcquireOK
  <2>2. W # {} <=> QueuedWait(s)
    BY DEF QueuedWait
  <2> HIDE DEF W
  <2> QED BY <2>1, <2>2, AtMostOne
<1>5. s \notin pendSignals
  BY SemSets DEF Shape, QueueShape
<1>6. Signals(s) = IF Busy(a) THEN 1 ELSE 0
  <2>1. Signals(s) = Cardinality(G) + Cardinality(R) + (IF s \in pendSignals THEN 1 ELSE 0)
                       + (IF s \in sem THEN 1 ELSE 0)
    BY DEF Signals
  <2>2. (Busy(a) <=> s \in sem \/ Released(s)) /\ (s \in sem => ~Released(s))
    BY <1>1 DEF AcquireOK
  <2> HIDE DEF s, G, R
  <2> QED BY <1>2, <1>3, <1>5, <2>1, <2>2
<1>7. Waits(s) = IF Busy(a) THEN 1 ELSE 0
  <2>1. Waits(s) = Cardinality(W) + Cardinality(P) + (IF s \in pendWaits THEN 1 ELSE 0)
    BY DEF Waits
  <2>2. (Busy(a) <=> s \in pendWaits \/ QueuedWait(s)) /\ (QueuedWait(s) => s \notin pendWaits)
    BY <1>1 DEF AcquireOK, Busy
  <2> HIDE DEF s, W, P
  <2> QED BY <1>2, <1>4, <2>1, <2>2
<1> QED BY <1>6, <1>7

(* What is outstanding on a present semaphore.                             *)
LEMMA PresentCounts ==
  ASSUME Shape, SemaphoresOK, NEW i \in Images
  PROVE  LET s == PresentSem(i) IN
         /\ Signals(s) = (IF UnderWay(s) THEN 1 ELSE 0)
         /\ Waits(s) = (IF owner[i] = "queued" THEN 1 ELSE 0)
<1> DEFINE s == PresentSem(i)
           G == {k \in DOMAIN queue : s \in queue[k].signals}
           R == {j \in Images : release[j] = s}
           W == {k \in DOMAIN queue : s \in queue[k].waits}
           P == {k \in DOMAIN presents : PresentSem(presents[k]) = s}
<1>1. OneSignal(s)
  BY DEF SemaphoresOK
<1>2. Cardinality(W) = 0 /\ Cardinality(R) = 0
  <2>1. W = {}
    <3>1. \A k \in DOMAIN queue : s \notin queue[k].waits
      BY QueueBatches, SemSets DEF Shape, QueueShape
    <3> QED BY <3>1
  <2>2. R = {}
    <3>1. \A j \in Images : release[j] \in AcquireSems \cup {NoSem}
      BY DEF Shape, EngineShape
    <3> QED BY <3>1, SemSets, SemsDiffer
  <2> QED BY <2>1, <2>2, FS_EmptySet
<1>3. Cardinality(G) = IF QueuedSignal(s) THEN 1 ELSE 0
  <2>1. \A x, y \in G : x = y
    BY <1>1 DEF OneSignal
  <2>2. G # {} <=> QueuedSignal(s)
    BY DEF QueuedSignal
  <2> HIDE DEF G
  <2> QED BY <2>1, <2>2, AtMostOne
<1>4. Cardinality(P) = IF owner[i] = "queued" THEN 1 ELSE 0
  <2>1. \A x, y \in P : x = y
    BY SemsDiffer DEF SemaphoresOK, PresentsOK
  <2>2. P # {} <=> owner[i] = "queued"
    BY SemsDiffer DEF SemaphoresOK, PresentsOK
  <2> HIDE DEF P
  <2> QED BY <2>1, <2>2, AtMostOne
<1>5. s \notin pendWaits
  BY SemSets DEF Shape, QueueShape
<1>6. Signals(s) = IF UnderWay(s) THEN 1 ELSE 0
  <2>1. Signals(s) = Cardinality(G) + Cardinality(R) + (IF s \in pendSignals THEN 1 ELSE 0)
                       + (IF s \in sem THEN 1 ELSE 0)
    BY DEF Signals
  <2>2. /\ UnderWay(s) <=> s \in sem \/ s \in pendSignals \/ QueuedSignal(s)
        /\ QueuedSignal(s) => s \notin sem /\ s \notin pendSignals
        /\ s \in sem => s \notin pendSignals
    BY <1>1 DEF OneSignal, UnderWay
  <2> HIDE DEF s, G, R
  <2> QED BY <1>2, <1>3, <2>1, <2>2
<1>7. Waits(s) = IF owner[i] = "queued" THEN 1 ELSE 0
  <2>1. Waits(s) = Cardinality(W) + Cardinality(P) + (IF s \in pendWaits THEN 1 ELSE 0)
    BY DEF Waits
  <2> HIDE DEF s, W, P
  <2> QED BY <1>2, <1>4, <1>5, <2>1
<1> QED BY <1>6, <1>7

(* No semaphore of the swap chain has two signals outstanding, every wait  *)
(* has its signal, and an acquire semaphore has exactly one wait for its   *)
(* signal, whatever thread's submission took them to the device.           *)
THEOREM SemaphoresDisciplined == Spec => []SemaphoreDiscipline
<1>1. IInv => SemaphoreDiscipline
  <2> SUFFICES ASSUME IInv, ~lost
               PROVE  /\ \A s \in Sems : Waits(s) <= Signals(s) /\ Signals(s) <= 1
                      /\ \A k \in 0 .. AcquireCount - 1 : Signals(AcquireSem(k)) = Waits(AcquireSem(k))
    BY DEF SemaphoreDiscipline
  <2>0. Shape /\ SemaphoresOK
    BY DEF IInv
  <2>1. \A a \in Indices : /\ Signals(AcquireSem(a)) = Waits(AcquireSem(a))
                           /\ Signals(AcquireSem(a)) \in {0, 1}
    BY <2>0, AcquireCounts
  <2>2. ASSUME NEW i \in Images
        PROVE  Waits(PresentSem(i)) <= Signals(PresentSem(i)) /\ Signals(PresentSem(i)) <= 1
    <3>1. owner[i] = "queued" => UnderWay(PresentSem(i))
      BY <2>0 DEF SemaphoresOK, SignalDue
    <3>2. /\ Signals(PresentSem(i)) = (IF UnderWay(PresentSem(i)) THEN 1 ELSE 0)
          /\ Waits(PresentSem(i)) = (IF owner[i] = "queued" THEN 1 ELSE 0)
      BY <2>0, PresentCounts
    <3> QED BY <3>1, <3>2
  <2>3. ASSUME NEW s \in Sems PROVE Waits(s) <= Signals(s) /\ Signals(s) <= 1
    <3>1. CASE \E a \in Indices : s = AcquireSem(a)
      <4>1. Signals(s) = Waits(s) /\ Signals(s) \in {0, 1}
        BY <2>1, <3>1
      <4> QED BY <4>1
    <3>2. CASE \E i \in Images : s = PresentSem(i)
      BY <2>2, <3>2
    <3> QED BY <3>1, <3>2 DEF Sems, Indices
  <2> QED BY <2>1, <2>3 DEF Indices
<1> QED BY <1>1, Invariant, PTL
=============================================================================
