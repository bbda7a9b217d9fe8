------------------------------ MODULE FrameSync ------------------------------
(***************************************************************************)
(* Swap-chain frame synchronisation of the Vulkan backend: beginFrame,     *)
(* the frame presentation signal (claim, prepare, confirm, cancel),        *)
(* present, the frame fences, resize, and what Queue::submit does with the *)
(* binary semaphores that wait in the Graphics queue for the next          *)
(* submission, whichever thread makes it.                                  *)
(*                                                                         *)
(* External, from how the code uses them: the device queue executes its    *)
(* batches in order, each when its waits are signalled; the presentation   *)
(* engine takes presented images in order, each when its semaphore is      *)
(* signalled, reads them, and may hand one out again before it has stopped *)
(* reading (the acquire semaphore is then signalled when it has).          *)
(***************************************************************************)
EXTENDS Naturals, Sequences, FiniteSets

CONSTANTS N,          \* images of the swap chain
          M,          \* m_maxFramesInFlight
          MaxFaults   \* bound: failing calls of the frame path and other threads
                      \*   whose submission is refused

ASSUME FrameAssumption == N \in Nat \ {0} /\ M \in Nat \ {0} /\ MaxFaults \in Nat

Images == 0 .. N - 1

(* createSwapChain: one present semaphore per image, and as many acquire   *)
(* semaphores as the larger of images and frames in flight.                *)
AcquireCount == IF M > N THEN M ELSE N

AcquireSem(k) == <<"acquire", k>>

PresentSem(i) == <<"present", i>>

Sems == {AcquireSem(k) : k \in 0 .. AcquireCount - 1} \cup {PresentSem(i) : i \in Images}

Queries == 1 .. M

None == N + M + 1    \* no image, no fence

NoSem == <<"none", 0>>

VARIABLES pc,          \* where the render thread is
          chain,       \* m_swapChain is there
          acquireIndex,\* m_acquireSemaphoreIndex
          image,       \* m_swapChainIndex
          signal,      \* m_framePresentationSignalState
          pendWaits,   \* Queue::m_waitSemaphores
          pendSignals, \* Queue::m_signalSemaphores
          pool,        \* m_queryPool
          inFlight,    \* m_framesInFlight
          started,     \* EventQuery::m_started
          queue,       \* external: batches the device has accepted
          sem,         \* external: the signalled binary semaphores
          fenced,      \* external: the queries whose fence is signalled
          owner,       \* external: "engine", "app" or "queued" for each image
          reading,     \* external: images the engine reads
          release,     \* external: acquire semaphore to signal after the read
          presents,    \* external: images presented, not yet taken
          faults,      \* faults so far
          lost         \* history: a refused submission dropped a pending semaphore,
                       \*   a signalled semaphore could not be replaced, or a fence
                       \*   was reset while the device had it

main == <<pc, chain, acquireIndex, image, signal>>
pending == <<pendWaits, pendSignals>>
fences == <<pool, inFlight, started>>
engine == <<owner, reading, release, presents>>
vars == <<main, pending, fences, queue, sem, fenced, engine, faults, lost>>

Fault == faults < MaxFaults /\ faults' = faults + 1

(* What that leads to is up to the driver: the model stops.                *)
At(steps) == ~lost /\ pc \in steps

-----------------------------------------------------------------------------
(* Queue::submit: every submission takes all pending semaphores with it;   *)
(* a refused one clears them.                                              *)

Batch(waits, signals, img, fence) ==
    [waits |-> waits, signals |-> signals, image |-> img, fence |-> fence]

ClearPending == pendWaits' = {} /\ pendSignals' = {}

SubmitAcceptedMutant(img, local) ==    \* mutant: the waits go behind the commands
    /\ queue' = queue \o <<Batch({}, pendSignals \cup local, img, None),
                            Batch(pendWaits, {}, None, None)>>
    /\ ClearPending
    /\ UNCHANGED <<faults, lost>>

SubmitAccepted(img, local) ==
    /\ queue' = Append(queue, Batch(pendWaits, pendSignals \cup local, img, None))
    /\ ClearPending
    /\ UNCHANGED <<faults, lost>>

SubmitRefused ==
    /\ Fault
    /\ ClearPending
    /\ lost' = (lost \/ pendWaits # {} \/ pendSignals # {})
    /\ UNCHANGED queue

(* Another thread's submission to the Graphics queue, while semaphores are *)
(* pending: one that finds none changes nothing here and is left out.      *)
OtherSubmit ==
    /\ ~lost /\ (pendWaits # {} \/ pendSignals # {})
    /\ SubmitAccepted(None, {}) \/ SubmitRefused
    /\ UNCHANGED <<main, fences, sem, fenced, engine>>

-----------------------------------------------------------------------------
(* The frame presentation signal.                                          *)

CancelMutant ==    \* mutant: the semaphore is kept
    /\ signal' = "Idle"
    /\ queue = <<>>
    /\ UNCHANGED <<sem, faults, lost>>

(* cancelFramePresentationSignal: a claim is dropped; a signal that may    *)
(* have reached the driver is waited for with the whole device, and its    *)
(* semaphore replaced by a new, unsignalled one.  Either may fail.         *)
Cancel ==
    /\ signal' = "Idle"
    /\ IF signal \in {"Idle", "Claimed"}
         THEN UNCHANGED <<sem, faults, lost>>
         ELSE \/ queue = <<>> /\ sem' = sem \ {PresentSem(image)} /\ UNCHANGED <<faults, lost>>
              \/ Fault /\ lost' = TRUE /\ UNCHANGED sem

-----------------------------------------------------------------------------
(* beginFrame.                                                             *)

BeginFrame ==
    /\ At({"idle"})
    /\ pc' = IF chain THEN "acquire" ELSE "idle"
    /\ Cancel
    /\ UNCHANGED <<chain, acquireIndex, image, pending, fences, queue, fenced, engine>>

NextAcquireIndexMutant == acquireIndex + 1    \* mutant: does not wrap

(* Acquire semaphores are taken in turn. *)
NextAcquireIndex == (acquireIndex + 1) % AcquireCount

(* vkAcquireNextImageKHR gives some image of the engine; the wait for its  *)
(* semaphore goes to the queue, for the next submission.                   *)
AcquireNextImage ==
    /\ At({"acquire"})
    /\ \E i \in Images :
         /\ owner[i] = "engine" /\ release[i] = NoSem
         /\ owner' = [owner EXCEPT ![i] = "app"]
         /\ release' = [release EXCEPT ![i] = AcquireSem(acquireIndex)]
         /\ image' = i
    /\ acquireIndex' = NextAcquireIndex
    /\ pendWaits' = pendWaits \cup {AcquireSem(acquireIndex)}
    /\ pc' = "render"
    /\ UNCHANGED <<chain, signal, pendSignals, fences, queue, sem, fenced, reading, presents,
                   faults, lost>>

(* resizeSwapChain, from beginFrame when the surface is out of date or     *)
(* from the window between frames.  destroySwapChain waits for the device  *)
(* and replaces the semaphore of a signal nobody presented; the images are *)
(* new; the other semaphores are kept and the indices start over.  When    *)
(* the new swap chain cannot be created all semaphores are destroyed.      *)
ResizeSwapChain ==
    LET unpresented == IF signal \in {"Queued", "Accepted"} THEN {PresentSem(image)} ELSE {} IN
    /\ At({"idle", "acquire"}) /\ queue = <<>> /\ presents = <<>>
    /\ \A i \in Images : release[i] = NoSem
    /\ \/ /\ chain' = TRUE /\ sem' = (IF chain THEN sem \ unpresented ELSE {})
          /\ UNCHANGED <<faults, lost>>
       \/ /\ chain' = FALSE /\ sem' = {} /\ Fault /\ UNCHANGED lost
       \/ /\ unpresented # {} /\ Fault /\ lost' = TRUE    \* the replacement fails
          /\ chain' = TRUE /\ UNCHANGED sem
    /\ signal' = "Idle"
    /\ owner' = [i \in Images |-> "engine"] /\ reading' = [i \in Images |-> FALSE]
    /\ acquireIndex' = 0 /\ image' = 0
    /\ pc' = IF chain' THEN pc ELSE "idle"
    /\ UNCHANGED <<pending, fences, queue, fenced, release, presents>>

(* Acquisition fails for another reason: the frame is skipped. *)
AcquireFails ==
    /\ At({"acquire"}) /\ Fault
    /\ pc' = "idle"
    /\ UNCHANGED <<chain, acquireIndex, image, signal, pending, fences, queue, sem, fenced,
                   engine, lost>>

-----------------------------------------------------------------------------
(* The renderer's part of the frame.                                       *)

(* A submission ahead of the terminal one: it may draw to the image. *)
RenderSubmit ==
    /\ At({"render"})
    /\ SubmitAccepted(image, {}) \/ SubmitRefused
    /\ pc' = "terminal"
    /\ UNCHANGED <<chain, acquireIndex, image, signal, fences, sem, fenced, engine>>

(* The terminal packet with the claimed signal.  The hook runs just before *)
(* the driver is called: refused before the hook, refused by the driver,   *)
(* accepted by the driver but not by the graph, or accepted and confirmed. *)
SubmitTerminal ==
    /\ At({"render", "terminal"})
    /\ \/ /\ SubmitAccepted(image, {PresentSem(image)})
          /\ \/ signal' = "Accepted" /\ pc' = "present"
             \/ signal' = "Queued" /\ pc' = "cancel"
       \/ SubmitRefused /\ signal' = "Queued" /\ pc' = "cancel"
       \/ /\ Fault /\ signal' = "Claimed" /\ pc' = "cancel"
          /\ UNCHANGED <<pending, queue, lost>>
    /\ UNCHANGED <<chain, acquireIndex, image, fences, sem, fenced, engine>>

CancelTerminal ==
    /\ At({"cancel"})
    /\ Cancel
    /\ pc' = "present"
    /\ UNCHANGED <<chain, acquireIndex, image, pending, fences, queue, fenced, engine>>

(* No terminal packet this frame: the hook stays empty. *)
RenderNothing ==
    /\ At({"render", "terminal"})
    /\ pc' = "present"
    /\ UNCHANGED <<chain, acquireIndex, image, signal, pending, fences, queue, sem, fenced,
                   engine, faults, lost>>

(* The frame is given up after its terminal packet was accepted, the case  *)
(* beginFrame's first lines are for: it retires the signal.  The image     *)
(* stays acquired until the swap chain is made anew; bound: not the last   *)
(* image.  (Graphics itself ends the session after such a frame.)          *)
AbortFrame ==
    /\ At({"present"}) /\ signal = "Accepted"
    /\ \E i \in Images : owner[i] # "app"
    /\ pc' = "idle"
    /\ UNCHANGED <<chain, acquireIndex, image, signal, pending, fences, queue, sem, fenced,
                   engine, faults, lost>>

-----------------------------------------------------------------------------
(* present.                                                                *)

(* Without an accepted signal: the fallback cancels what is left of it     *)
(* (here it is always Idle already), queues the semaphore and makes an     *)
(* empty submission for it.                                                *)
QueueFallbackSignal ==
    /\ At({"present"}) /\ signal # "Accepted"
    /\ pendSignals' = pendSignals \cup {PresentSem(image)}
    /\ pc' = "fallback"
    /\ UNCHANGED <<chain, acquireIndex, image, signal, pendWaits, fences, queue, sem, fenced,
                   engine, faults, lost>>

(* executeCommandLists(nullptr, 0): nothing to do when another thread's    *)
(* submission has taken the semaphores.  Its result is not looked at.      *)
SubmitFallback ==
    /\ At({"fallback"})
    /\ pc' = "queuePresent"
    /\ IF pendWaits = {} /\ pendSignals = {}
         THEN UNCHANGED <<queue, pending, faults, lost>>
         ELSE SubmitAccepted(None, {}) \/ SubmitRefused
    /\ UNCHANGED <<chain, acquireIndex, image, signal, fences, sem, fenced, engine>>

(* vkQueuePresentKHR; a failure ends the session. *)
QueuePresent ==
    /\ At({"queuePresent"}) \/ (At({"present"}) /\ signal = "Accepted")
    /\ signal' = "Idle"
    /\ \/ /\ presents' = Append(presents, image)
          /\ owner' = [owner EXCEPT ![image] = "queued"]
          /\ pc' = "throttle"
          /\ UNCHANGED faults
       \/ Fault /\ pc' = "ended" /\ UNCHANGED <<presents, owner>>
    /\ UNCHANGED <<chain, acquireIndex, image, pending, fences, queue, sem, fenced, reading,
                   release, lost>>

WaitEventQueryMutant(q) == q \in fenced    \* mutant: waits though nothing was submitted

WaitEventQueryMutant2(q) == TRUE           \* mutant: no wait

(* waitEventQuery: a query whose submission failed is not waited for. *)
WaitEventQuery(q) == q \in started => q \in fenced

(* The frame in flight for longest gives its query back, also when the     *)
(* wait fails: the query then stays started.                               *)
Throttle ==
    /\ At({"throttle"})
    /\ pc' = "setQuery"
    /\ IF Len(inFlight) >= M
         THEN LET q == Head(inFlight) IN
              /\ pool' = pool \cup {q} /\ inFlight' = Tail(inFlight)
              /\ \/ WaitEventQuery(q) /\ started' = started \ {q} /\ UNCHANGED faults
                 \/ q \in started /\ Fault /\ UNCHANGED started
         ELSE UNCHANGED <<fences, faults>>
    /\ UNCHANGED <<chain, acquireIndex, image, signal, pending, queue, sem, fenced, engine,
                   lost>>

WithDevice(q) == \E k \in DOMAIN queue : queue[k].fence = q

(* setEventQuery: reset the fence and submit it; a failed submission       *)
(* leaves the query unstarted in m_framesInFlight.                         *)
SetEventQuery ==
    /\ At({"setQuery"})
    /\ \E q \in pool :
         /\ ~WithDevice(q)
         /\ pool' = pool \ {q} /\ inFlight' = Append(inFlight, q)
         /\ fenced' = fenced \ {q}
         /\ \/ /\ queue' = Append(queue, Batch({}, {}, None, q))
               /\ started' = started \cup {q} /\ UNCHANGED faults
            \/ Fault /\ started' = started \ {q} /\ UNCHANGED queue
    /\ pc' = "idle"
    /\ UNCHANGED <<chain, acquireIndex, image, signal, pending, sem, engine, lost>>

(* Its reset, when the wait for the fence failed and the device still has  *)
(* it.                                                                     *)
ResetFenceInUse ==
    /\ At({"setQuery"}) /\ \E q \in pool : WithDevice(q)
    /\ lost' = TRUE
    /\ UNCHANGED <<main, pending, fences, queue, sem, fenced, engine, faults>>

RenderThread ==
    \/ BeginFrame \/ AcquireNextImage \/ AcquireFails
    \/ RenderSubmit \/ SubmitTerminal \/ CancelTerminal \/ RenderNothing \/ AbortFrame
    \/ QueueFallbackSignal \/ SubmitFallback \/ QueuePresent \/ Throttle \/ SetEventQuery
    \/ ResetFenceInUse

-----------------------------------------------------------------------------
(* External: the device queue and the presentation engine.                 *)

Ready(k) == k \in DOMAIN queue /\ queue[k].waits \subseteq sem

ExecuteBatch ==
    /\ ~lost /\ Ready(1)
    /\ sem' = (sem \ queue[1].waits) \cup queue[1].signals
    /\ fenced' = IF queue[1].fence = None THEN fenced ELSE fenced \cup {queue[1].fence}
    /\ queue' = Tail(queue)
    /\ UNCHANGED <<main, pending, fences, engine, faults, lost>>

TakePresent ==
    /\ ~lost /\ presents # <<>> /\ PresentSem(Head(presents)) \in sem
    /\ LET i == Head(presents) IN
         /\ sem' = sem \ {PresentSem(i)}
         /\ owner' = [owner EXCEPT ![i] = "engine"]
         /\ reading' = [reading EXCEPT ![i] = TRUE]
    /\ presents' = Tail(presents)
    /\ UNCHANGED <<main, pending, fences, queue, fenced, release, faults, lost>>

(* The engine's read of an image ends when it is handed out again, or      *)
(* later: an earlier end cannot be told from one just after the hand-out.  *)
StopReading(i) ==
    /\ ~lost /\ release[i] # NoSem
    /\ reading' = [reading EXCEPT ![i] = FALSE]
    /\ release' = [release EXCEPT ![i] = NoSem]
    /\ sem' = sem \cup {release[i]}
    /\ UNCHANGED <<main, pending, fences, queue, fenced, owner, presents, faults, lost>>

-----------------------------------------------------------------------------
Init ==
    /\ pc = "idle" /\ chain = TRUE /\ acquireIndex = 0 /\ image = 0 /\ signal = "Idle"
    /\ pendWaits = {} /\ pendSignals = {}
    /\ pool = Queries /\ inFlight = <<>> /\ started = {}
    /\ queue = <<>> /\ sem = {} /\ fenced = {}
    /\ owner = [i \in Images |-> "engine"]
    /\ reading = [i \in Images |-> FALSE]
    /\ release = [i \in Images |-> NoSem]
    /\ presents = <<>>
    /\ faults = 0 /\ lost = FALSE

Next ==
    \/ RenderThread \/ ResizeSwapChain \/ OtherSubmit
    \/ ExecuteBatch \/ TakePresent \/ \E i \in Images : StopReading(i)

(* The render thread runs, the device executes what it accepted, and the   *)
(* engine takes and releases images.  Other threads and the window owe     *)
(* nothing.                                                                *)
Fairness ==
    /\ WF_vars(RenderThread)
    /\ WF_vars(ExecuteBatch) /\ WF_vars(TakePresent)
    /\ \A i \in Images : WF_vars(StopReading(i))

Spec == Init /\ [][Next]_vars /\ Fairness

-----------------------------------------------------------------------------
(* Every variable keeps the shape the code gives it. *)
FrameTypeOK ==
    /\ pc \in {"idle", "acquire", "render", "terminal", "cancel", "present", "fallback",
               "queuePresent", "throttle", "setQuery", "ended"}
    /\ chain \in BOOLEAN
    /\ acquireIndex \in 0 .. AcquireCount - 1 /\ image \in Images
    /\ signal \in {"Idle", "Claimed", "Queued", "Accepted"}
    /\ pendWaits \subseteq Sems /\ pendSignals \subseteq Sems /\ sem \subseteq Sems
    /\ pool \subseteq Queries /\ started \subseteq Queries /\ fenced \subseteq Queries
    /\ \A k \in DOMAIN inFlight : inFlight[k] \in Queries
    /\ owner \in [Images -> {"engine", "app", "queued"}]
    /\ presents \in Seq(Images)

Signals(s) ==
    Cardinality({k \in DOMAIN queue : s \in queue[k].signals})
      + Cardinality({i \in Images : release[i] = s})
      + (IF s \in pendSignals THEN 1 ELSE 0) + (IF s \in sem THEN 1 ELSE 0)

Waits(s) ==
    Cardinality({k \in DOMAIN queue : s \in queue[k].waits})
      + Cardinality({k \in DOMAIN presents : PresentSem(presents[k]) = s})
      + (IF s \in pendWaits THEN 1 ELSE 0)

(* A binary semaphore of the swap chain never has two signals outstanding, *)
(* a wait for it never lacks its signal, and no acquire semaphore is left  *)
(* signalled with nobody to wait for it ("so no swap-chain semaphore is    *)
(* signalled twice", beginFrame; the cancel and replace of a queued        *)
(* signal).  Excepted: a refused submission that drops pending semaphores, *)
(* and a replacement that fails.                                           *)
SemaphoreDiscipline ==
    ~lost => /\ \A s \in Sems : Waits(s) <= Signals(s) /\ Signals(s) <= 1
             /\ \A k \in 0 .. AcquireCount - 1 : Signals(AcquireSem(k)) = Waits(AcquireSem(k))

(* The device draws to an image only between the engine's release of it    *)
(* and its presentation: a batch that can run and draws to an image finds  *)
(* the engine not reading it, whoever's submission took the acquire wait.  *)
(* Excepted as above.                                                      *)
ImageExclusive ==
    ~lost => \A k \in DOMAIN queue :
        (k = 1 /\ Ready(k) /\ queue[k].image # None) =>
            ~reading[queue[k].image] /\ owner[queue[k].image] # "engine"

(* The fixed pool of frame fences: none that present() takes is still in   *)
(* the queue (vkResetFences on a pending fence), one is always there to    *)
(* take (the assertion in present), and no query is in two places.  In the *)
(* first, a query is excepted that went back to the pool still started:    *)
(* waitEventQuery only logs that its wait failed.                          *)
FenceReusable ==
    /\ \A q \in pool \ started : ~WithDevice(q)
    /\ pc = "setQuery" => pool # {}
    /\ Cardinality(pool) + Len(inFlight) = M

(* The render thread never waits for ever, in acquire (beginFrame gives    *)
(* vkAcquireNextImageKHR no timeout), in the throttle or for an idle       *)
(* device: a frame that begins comes to its end, unless the session ends   *)
(* or the outcome is up to the driver (`lost`).  The bound of AbortFrame   *)
(* matters here: N frames given up would keep every image.                 *)
FrameProgress == pc # "idle" ~> (pc = "idle" \/ pc = "ended" \/ lost)

=============================================================================
