------------------------ MODULE CrashPipelineProofs ------------------------
(***************************************************************************)
(* Proofs about CrashPipeline for any set of processes, calls, workloads,  *)
(* retention limits and faults.                                            *)
(*                                                                         *)
(* The argument has two halves.  On the transport, a request is in one     *)
(* place at a time, so once it is settled its package is never written any *)
(* more: an acknowledgement stays true however late it is read.  In the    *)
(* spool, a package that is not exposed is in the hands of one handler at  *)
(* most, a completed one has a single copy, a whole one, and its holder    *)
(* always finds it where its next step takes it from.                      *)
(***************************************************************************)
EXTENDS CrashPipeline, SequenceTheorems, TLAPS

ServePoints == {"basics", "symbols", "ackWritten", "ackFailed"}
MovePoints == {"moveRemove", "moveRename"}
UploadPoints == {"mark", "archive", "post", "markUploaded", "markRetry"}
HandPoints == {"off", "exited", "read", "next"} \cup ServePoints \cup MovePoints \cup UploadPoints

(* The moves the code makes between spool directories.                     *)
Moves == {<<"pending", "uploading">>, <<"uploading", "pending">>,
          <<"uploading", "uploaded">>, <<"uploading", "failed">>}

HandFields == {"pc", "phase", "req", "todo", "cur", "move", "left", "archive"}

(* The locals of a handler: it has a package at hand exactly while it      *)
(* moves or uploads one.                                                   *)
HandOK(h) ==
  /\ DOMAIN h = HandFields
  /\ h.pc \in HandPoints
  /\ h.cur # Absent <=> h.pc \in MovePoints \cup UploadPoints
  /\ h.cur \in Calls \cup {Absent}
  /\ h.todo \subseteq Calls
  /\ DOMAIN h.move = {"from", "to"}
  /\ h.pc \in MovePoints => <<h.move.from, h.move.to>> \in Moves

(* The variables' shapes, and what a call's control point says: only a     *)
(* call with a GPU report writes one, and a process has at most one call   *)
(* in its transport.                                                       *)
ClientShape ==
  /\ site \in Sites
  /\ proc \in [Procs -> {"new", "up", "down"}]
  /\ call \in [Calls -> {"idle", "gpuFile", "enter", "done", "send", "wait"}]
  /\ result \in [Calls -> {"none", "written", "writeFailed", "noAnswer"}]
  /\ inFlight \in [Procs -> BOOLEAN]

AckRecords == [id : Calls, packageWritten : BOOLEAN]

PipeShape ==
  /\ reqs \in [Procs -> Seq(Calls)]
  /\ acks \in [Procs -> Seq(AckRecords)]

HandShape ==
  /\ DOMAIN hand = Procs
  /\ \A p \in Procs : HandOK(hand[p]) /\ (proc[p] = "new" => hand[p].pc = "off")

SpoolType == [Dirs -> [Calls -> (SUBSET Files) \cup {Absent}]]

SpoolShape ==
  /\ spool \in SpoolType
  /\ received \in [Calls -> {"none", "part", "whole"}]
  /\ written \subseteq Calls

ShapeOK == ClientShape /\ PipeShape /\ HandShape /\ SpoolShape

TransportOK ==
  /\ \A p \in Procs : inFlight[p] <=> \E c \in Calls : ProcOf(c) = p /\ call[c] \in Transport
  /\ \A b, c \in Calls :
       (ProcOf(b) = ProcOf(c) /\ call[b] \in Transport /\ call[c] \in Transport) => b = c
  /\ \A c \in Calls : call[c] = "gpuFile" => site[c].gpu

-----------------------------------------------------------------------------
Queued(c) == \E i \in DOMAIN reqs[ProcOf(c)] : reqs[ProcOf(c)][i] = c

Serves(c, points) == hand[ProcOf(c)].pc \in points /\ hand[ProcOf(c)].req = c

(* Nothing of the request is under way any more: its package will not be   *)
(* written after this.                                                     *)
Settled(c) ==
  /\ call[c] \in {"wait", "done"}
  /\ ~Queued(c)
  /\ ~Serves(c, {"basics", "symbols"})

(* A request is in one place: in its process's socket, once, or with that  *)
(* process's handler.                                                      *)
RequestOK ==
  \A p \in Procs :
    /\ \A i \in DOMAIN reqs[p] :
         /\ ProcOf(reqs[p][i]) = p
         /\ call[reqs[p][i]] \in {"wait", "done"}
         /\ \A j \in DOMAIN reqs[p] : reqs[p][i] = reqs[p][j] => i = j
    /\ hand[p].pc \in ServePoints =>
         /\ hand[p].req \in Calls /\ ProcOf(hand[p].req) = p
         /\ call[hand[p].req] \in {"wait", "done"}
         /\ \A i \in DOMAIN reqs[p] : reqs[p][i] # hand[p].req

(* What is said of a package's completion is true and stays so.            *)
OutcomeOK ==
  /\ \A c \in written : Settled(c)
  /\ \A p \in Procs :
       /\ hand[p].pc = "ackFailed" => hand[p].req \notin written
       /\ hand[p].pc = "ackWritten" => hand[p].req \in written
       /\ \A i \in DOMAIN acks[p] : \A c \in Calls : acks[p][i].id = c =>
            IF acks[p][i].packageWritten THEN c \in written ELSE c \notin written /\ Settled(c)
  /\ \A c \in Calls : /\ result[c] = "written" => c \in written
                      /\ result[c] = "writeFailed" => c \notin written /\ Settled(c)

-----------------------------------------------------------------------------
(* Where the holder's next step takes the package from.                    *)
Place(h) == IF h.pc \in MovePoints THEN h.move.from ELSE "uploading"

(* The server has the package, whole unless it was exposed.                *)
Reported(c) == received[c] # "none" /\ (c \notin exposed => received[c] = "whole")

(* What lies in uploaded, or is on its way there, was received.            *)
ReportOK(c) ==
  /\ Exists("uploaded", c) => Reported(c)
  /\ \A p \in Procs : hand[p].cur = c =>
       /\ hand[p].pc = "markUploaded" => Reported(c)
       /\ (hand[p].pc \in MovePoints /\ hand[p].move.to = "uploaded") => Reported(c)

(* A package that is not exposed has at most one holder.  One held outside *)
(* pending is complete, and the archive about to be sent is all of it.     *)
HolderOK(c) ==
  \A p \in Procs : hand[p].cur = c =>
    /\ \A q \in Procs : hand[q].cur = c => q = p
    /\ Place(hand[p]) = "uploading" => c \in written
    /\ hand[p].pc = "post" => hand[p].archive = AllFiles(c)

(* A package that is not complete lies in pending only, with the files     *)
(* written so far.                                                         *)
UnfinishedOK(c) ==
  /\ \A d \in Dirs \ {"pending"} : ~Exists(d, c)
  /\ (site[c].gpu /\ ~Settled(c) /\ call[c] \notin {"idle", "gpuFile"}) =>
       Exists("pending", c) /\ "gpu" \in spool["pending"][c]
  /\ Serves(c, {"basics", "symbols"}) => Exists("pending", c)
  /\ Serves(c, {"symbols"}) => "basics" \in spool["pending"][c]

(* A complete package has one copy, a whole one: with a holder, where the  *)
(* holder takes it from.                                                   *)
WholeOK(c) ==
  /\ \A d \in Dirs : Exists(d, c) => spool[d][c] = AllFiles(c)
  /\ \E d \in Dirs : Exists(d, c)
  /\ \A d, e \in Dirs : Exists(d, c) /\ Exists(e, c) => d = e
  /\ \A p \in Procs : hand[p].cur = c => Exists(Place(hand[p]), c)

(* The package of one call in the spool.                                   *)
PackageOK(c) ==
  /\ \A d \in Dirs : Exists(d, c) => spool[d][c] \subseteq AllFiles(c)
  /\ ReportOK(c)
  /\ c \notin exposed => /\ HolderOK(c)
                         /\ c \in written => WholeOK(c)
                         /\ c \notin written => UnfinishedOK(c)

(* The inductive invariant.                                                *)
IInv == ShapeOK /\ TransportOK /\ RequestOK /\ OutcomeOK /\ \A c \in Calls : PackageOK(c)

-----------------------------------------------------------------------------
(* The invariant's shapes.                                                 *)

(* Every call of a workload is made in one of the processes.               *)
LEMMA SiteOK ==
  ASSUME site \in Sites, NEW c \in Calls
  PROVE  ProcOf(c) \in Procs /\ site[c].gpu \in BOOLEAN
  BY CrashAssumption DEF ProcOf

(* The sequences a pipe may become.                                        *)
LEMMA PipeSeq ==
  ASSUME NEW S, NEW s \in Seq(S)
  PROVE  /\ <<>> \in Seq(S)
         /\ \A x \in S : Append(s, x) \in Seq(S)
         /\ s # <<>> => Head(s) \in S /\ Tail(s) \in Seq(S)
  BY EmptySeq, AppendProperties, HeadTailProperties

(* No set of files is Absent.                                              *)
LEMMA AbsentNotFiles == Absent \notin SUBSET Files
  BY CrashAssumption DEF Files

(* The client's steps on the spool: the directory is made or kept, a file  *)
(* added.                                                                  *)
LEMMA EnsureEffect ==
  ASSUME spool \in SpoolType, NEW c \in Calls, EnsurePackage(c)
  PROVE  /\ spool' \in SpoolType
         /\ \A d \in Dirs, b \in Calls :
              spool'[d][b] = IF d = "pending" /\ b = c /\ spool[d][b] = Absent THEN {} ELSE spool[d][b]
<1> DEFINE v == IF spool["pending"][c] = Absent THEN {} ELSE spool["pending"][c]
<1>1. "pending" \in Dirs
  BY DEF Dirs
<1>2. v \in (SUBSET Files) \cup {Absent}
  BY <1>1 DEF SpoolType
<1>3. spool' = [spool EXCEPT !["pending"][c] = v]
  BY DEF EnsurePackage
<1> HIDE DEF v
<1>4. /\ spool' \in SpoolType
      /\ \A d \in Dirs, b \in Calls : spool'[d][b] = IF d = "pending" /\ b = c THEN v ELSE spool[d][b]
  BY <1>1, <1>2, <1>3 DEF SpoolType
<1> QED BY <1>4 DEF v

(* Writing a file adds it to the package in pending and touches nothing    *)
(* else.                                                                   *)
LEMMA WriteEffect ==
  ASSUME spool \in SpoolType, NEW c \in Calls, NEW f \in Files, WriteFile(c, f)
  PROVE  /\ spool' \in SpoolType
         /\ Exists("pending", c)
         /\ \A d \in Dirs, b \in Calls :
              spool'[d][b] = IF d = "pending" /\ b = c THEN spool[d][b] \cup {f} ELSE spool[d][b]
<1>1. "pending" \in Dirs
  BY DEF Dirs
<1>2. spool["pending"][c] \cup {f} \in (SUBSET Files) \cup {Absent}
  BY <1>1 DEF SpoolType, WriteFile, Exists
<1> QED BY <1>1, <1>2 DEF WriteFile, SpoolType

(* The handler's removal of a package, and the rename.                     *)
LEMMA RemoveEffect ==
  ASSUME spool \in SpoolType, NEW p \in Procs, HandOK(hand[p]), RemoveDestination(p)
  PROVE  /\ spool' \in SpoolType
         /\ \A d \in Dirs, b \in Calls :
              spool'[d][b] = IF d = hand[p].move.to /\ b = hand[p].cur THEN Absent ELSE spool[d][b]
<1>1. hand[p].move.to \in Dirs /\ hand[p].cur \in Calls
  BY DEF RemoveDestination, HandOK, IsAt, MovePoints, Moves, Dirs
<1> QED BY <1>1 DEF RemoveDestination, SpoolType

(* The rename moves the package, or does nothing when the source has gone. *)
LEMMA RenameEffect ==
  ASSUME spool \in SpoolType, NEW p \in Procs, HandOK(hand[p]), RenameSource(p)
  PROVE  /\ spool' \in SpoolType
         /\ hand[p].move.from # hand[p].move.to
         /\ hand[p].move.to \in Dirs /\ hand[p].move.from \in Dirs /\ hand[p].cur \in Calls
         /\ ~Exists(hand[p].move.from, hand[p].cur) => spool' = spool
         /\ Exists(hand[p].move.from, hand[p].cur) =>
              \A d \in Dirs, b \in Calls :
                 spool'[d][b] = IF b # hand[p].cur THEN spool[d][b]
                                ELSE IF d = hand[p].move.to THEN spool[hand[p].move.from][b]
                                ELSE IF d = hand[p].move.from THEN Absent ELSE spool[d][b]
<1> DEFINE from == hand[p].move.from  to == hand[p].move.to  c == hand[p].cur
<1>1. to \in Dirs /\ from \in Dirs /\ c \in Calls /\ from # to
  BY DEF RenameSource, HandOK, IsAt, MovePoints, Moves, Dirs
<1> HIDE DEF from, to, c
<1>2. spool' = IF Exists(from, c)
                  THEN [spool EXCEPT ![from][c] = Absent, ![to][c] = spool[from][c]]
                  ELSE spool
  BY DEF RenameSource, from, to, c
<1>3. CASE Exists(from, c)
  <2> DEFINE g == [spool EXCEPT ![from][c] = Absent]
  <2>1. /\ g \in SpoolType
        /\ \A d \in Dirs, b \in Calls : g[d][b] = IF d = from /\ b = c THEN Absent ELSE spool[d][b]
    BY <1>1 DEF SpoolType
  <2>2. spool[from][c] \in (SUBSET Files) \cup {Absent}
    BY <1>1 DEF SpoolType
  <2>3. spool' = [g EXCEPT ![to][c] = spool[from][c]]
    BY <1>2, <1>3
  <2> HIDE DEF g
  <2>4. /\ spool' \in SpoolType
        /\ \A d \in Dirs, b \in Calls :
             spool'[d][b] = IF d = to /\ b = c THEN spool[from][c] ELSE g[d][b]
    BY <2>1, <2>2, <2>3, <1>1 DEF SpoolType
  <2> QED BY <2>1, <2>4, <1>1, <1>3 DEF from, to, c
<1>4. CASE ~Exists(from, c)
  BY <1>1, <1>2, <1>4 DEF from, to, c
<1> QED BY <1>3, <1>4

(* A failing move leaves the source, and of the destination what the       *)
(* removal has not taken.                                                  *)
LEMMA MoveFailsEffect ==
  ASSUME spool \in SpoolType, NEW p \in Procs, HandOK(hand[p]), MoveFails(p)
  PROVE  /\ spool' \in SpoolType
         /\ hand[p].move.from # hand[p].move.to /\ hand[p].cur \in Calls
         /\ hand[p].move.to \in Dirs
         /\ \/ spool' = spool
            \/ /\ Exists(hand[p].move.to, hand[p].cur)
               /\ \E rest \in SUBSET spool[hand[p].move.to][hand[p].cur] :
                    \A d \in Dirs, b \in Calls :
                       spool'[d][b] = IF d = hand[p].move.to /\ b = hand[p].cur THEN rest
                                      ELSE spool[d][b]
<1> DEFINE to == hand[p].move.to  c == hand[p].cur
<1>1. to \in Dirs /\ c \in Calls /\ hand[p].move.from # to
  BY DEF MoveFails, HandOK, MovePoints, Moves, Dirs
<1> HIDE DEF to, c
<1>2. CASE spool' = spool
  BY <1>1, <1>2 DEF to, c
<1>3. ASSUME Exists(to, c), NEW rest \in SUBSET spool[to][c], spool' = [spool EXCEPT ![to][c] = rest]
      PROVE  /\ spool' \in SpoolType
             /\ \A d \in Dirs, b \in Calls : spool'[d][b] = IF d = to /\ b = c THEN rest ELSE spool[d][b]
  <2>1. rest \in (SUBSET Files) \cup {Absent}
    BY <1>1, <1>3 DEF SpoolType, Exists
  <2> QED BY <1>1, <1>3, <2>1 DEF SpoolType
<1>4. \/ spool' = spool
      \/ Exists(to, c) /\ \E rest \in SUBSET spool[to][c] : spool' = [spool EXCEPT ![to][c] = rest]
  BY DEF MoveFails, to, c
<1>5. CASE Exists(to, c) /\ \E rest \in SUBSET spool[to][c] : spool' = [spool EXCEPT ![to][c] = rest]
  <2>1. PICK rest \in SUBSET spool[to][c] : spool' = [spool EXCEPT ![to][c] = rest]
    BY <1>5
  <2>2. /\ spool' \in SpoolType
        /\ \A d \in Dirs, b \in Calls : spool'[d][b] = IF d = to /\ b = c THEN rest ELSE spool[d][b]
    BY <1>3, <1>5, <2>1
  <2> QED BY <1>1, <1>5, <2>2 DEF to, c
<1> QED BY <1>2, <1>4, <1>5

(* Retention empties places of the directory it visits, and only there;    *)
(* what it removes is exposed.                                             *)
LEMMA RetentionEffect ==
  ASSUME SpoolShape, NEW p \in Procs, ApplyRetention(p)
  PROVE  /\ spool' \in SpoolType /\ exposed \subseteq exposed'
         /\ \A d \in Dirs, b \in Calls :
              spool'[d][b] = spool[d][b] \/ (spool'[d][b] = Absent /\ b \in exposed')
<1> DEFINE e == Head(hand[p].left)
           gone == Excess(e, IF hand[p].phase = "recover" /\ e = "pending" THEN {hand[p].req} ELSE {})
<1>1. /\ spool' = [spool EXCEPT ![e] = [c \in Calls |-> IF c \in gone THEN Absent ELSE @[c]]]
      /\ exposed' = exposed \cup gone
  BY DEF ApplyRetention
<1> HIDE DEF gone
<1>3. \A d \in Dirs : spool[d] \in [Calls -> (SUBSET Files) \cup {Absent}]
  BY DEF SpoolShape, SpoolType
<1>4. \A d \in Dirs :
        spool'[d] = IF d = e THEN [c \in Calls |-> IF c \in gone THEN Absent ELSE spool[d][c]] ELSE spool[d]
  BY <1>1 DEF SpoolShape, SpoolType
<1>5. spool' \in SpoolType
  <2>1. \A d \in Dirs : spool'[d] \in [Calls -> (SUBSET Files) \cup {Absent}]
    BY <1>3, <1>4
  <2> QED BY <2>1, <1>1 DEF SpoolShape, SpoolType
<1> QED BY <1>1, <1>3, <1>4, <1>5

(* The effects of the handler's steps on its own locals; the other         *)
(* handlers' stay as they are.                                             *)
OnlyHand(p) == DOMAIN hand' = Procs /\ \A q \in Procs \ {p} : hand'[q] = hand[q]

(* After the acknowledgement a handler has no package at hand.             *)
LEMMA SendAckHand ==
  ASSUME HandShape, NEW p \in Procs, SendAck(p)
  PROVE  /\ OnlyHand(p) /\ HandOK(hand'[p])
         /\ hand'[p].pc \in {"exited", "read", "next"} /\ hand'[p].cur = Absent
         /\ hand[p].pc \in {"ackWritten", "ackFailed"} /\ hand[p].cur = Absent
<1>1. HandOK(hand[p]) /\ hand[p].cur = Absent /\ hand[p].pc \in {"ackWritten", "ackFailed"}
  BY DEF SendAck, HandShape, HandOK, ServePoints, MovePoints, UploadPoints
<1>2. hand'[p] \in {[IdleHand EXCEPT !.pc = "exited"], [IdleHand EXCEPT !.pc = "read"],
                    [hand[p] EXCEPT !.pc = "next", !.phase = "recover", !.left = LimitedDirs,
                                    !.todo = {c \in Calls : Exists("uploading", c)}]}
  BY DEF SendAck, ExitHandler, HandShape
<1>3. OnlyHand(p)
  BY DEF SendAck, ExitHandler, HandShape, OnlyHand
<1> USE <1>1 DEF HandOK, ServePoints, MovePoints, UploadPoints, HandPoints, HandFields
<1>4. CASE \E pc \in {"exited", "read"} : hand'[p] = [IdleHand EXCEPT !.pc = pc]
  BY <1>3, <1>4 DEF IdleHand, NoMove
<1>5. CASE hand'[p] = [hand[p] EXCEPT !.pc = "next", !.phase = "recover", !.left = LimitedDirs,
                                      !.todo = {c \in Calls : Exists("uploading", c)}]
  BY <1>3, <1>5
<1> QED BY <1>2, <1>4, <1>5

(* Nor has one that has ended.                                             *)
LEMMA ExitHand ==
  ASSUME HandShape, NEW p \in Procs, ExitHandler(p)
  PROVE  /\ OnlyHand(p) /\ HandOK(hand'[p])
         /\ hand'[p].pc = "exited" /\ hand'[p].cur = Absent
  BY DEF ExitHandler, HandShape, OnlyHand, HandOK, ServePoints, MovePoints, UploadPoints,
         HandPoints, HandFields, IdleHand, NoMove

(* The pc alone moves on.                                                  *)
LEMMA GotoHand ==
  ASSUME HandShape, NEW p \in Procs, NEW pc \in HandPoints, Goto(p, pc),
         pc \in MovePoints <=> hand[p].pc \in MovePoints,
         pc \in UploadPoints <=> hand[p].pc \in UploadPoints
  PROVE  /\ OnlyHand(p) /\ HandOK(hand'[p])
         /\ hand'[p].pc = pc /\ hand'[p].req = hand[p].req /\ hand'[p].cur = hand[p].cur
         /\ hand'[p].move = hand[p].move /\ hand'[p].archive = hand[p].archive
  BY DEF Goto, HandShape, OnlyHand, HandOK, HandFields

(* The handler goes on with a package it has moved to uploading, and lets  *)
(* every other go.                                                         *)
LEMMA RenameHand ==
  ASSUME HandShape, NEW p \in Procs, RenameSource(p)
  PROVE  /\ OnlyHand(p) /\ HandOK(hand'[p]) /\ hand[p].pc = "moveRename"
         /\ \/ /\ hand'[p].pc = "mark" /\ hand'[p].cur = hand[p].cur
               /\ Exists(hand[p].move.from, hand[p].cur) /\ hand[p].move.to = "uploading"
            \/ hand'[p].pc = "next" /\ hand'[p].cur = Absent
<1>1. HandOK(hand[p]) /\ hand[p].pc = "moveRename" /\ OnlyHand(p)
  BY DEF RenameSource, IsAt, HandShape, OnlyHand
<1>2. hand'[p] = AfterMove(hand[p], Exists(hand[p].move.from, hand[p].cur))
  BY DEF RenameSource, HandShape
<1> QED BY <1>1, <1>2 DEF AfterMove, HandOK, ServePoints, MovePoints, UploadPoints, HandPoints,
                          HandFields, NoMove

(* A failing move lets the package go.                                     *)
LEMMA MoveFailsHand ==
  ASSUME HandShape, NEW p \in Procs, MoveFails(p)
  PROVE  /\ OnlyHand(p) /\ HandOK(hand'[p]) /\ hand[p].pc \in MovePoints
         /\ hand'[p].pc = "next" /\ hand'[p].cur = Absent
<1>1. HandOK(hand[p]) /\ hand[p].pc \in MovePoints /\ OnlyHand(p)
  BY DEF MoveFails, HandShape, OnlyHand, MovePoints
<1>2. hand'[p] = AfterMove(hand[p], FALSE)
  BY DEF MoveFails, HandShape
<1> QED BY <1>1, <1>2 DEF AfterMove, HandOK, ServePoints, MovePoints, UploadPoints, HandPoints,
                          HandFields, NoMove

(* A listed entry is taken up where it was found, or passed over.          *)
LEMMA VisitHand ==
  ASSUME HandShape, NEW p \in Procs, VisitEntry(p)
  PROVE  /\ OnlyHand(p) /\ HandOK(hand'[p]) /\ hand[p].pc = "next" /\ hand[p].cur = Absent
         /\ \/ hand'[p].pc = "next" /\ hand'[p].cur = Absent /\ exposed' = exposed
            \/ \E c \in Calls :
                 /\ hand'[p].pc = "moveRemove" /\ hand'[p].cur = c
                 /\ \/ hand'[p].move.from = "uploading" /\ hand'[p].move.to = "pending"
                    \/ hand'[p].move.from = "pending" /\ hand'[p].move.to = "uploading"
                 /\ Exists(hand'[p].move.from, c)
                 /\ exposed' = IF Others(p, c) THEN exposed \cup {c} ELSE exposed
<1> DEFINE source == IF hand[p].phase = "recover" THEN "uploading" ELSE "pending"
           target == IF hand[p].phase = "recover" THEN "pending" ELSE "uploading"
           h(c) == [hand[p] EXCEPT !.todo = @ \ {c}]
           Visited(c) == IF Exists(source, c) THEN BeginMove(h(c), c, source, target) ELSE h(c)
<1>1. HandOK(hand[p]) /\ hand[p].pc = "next" /\ hand[p].cur = Absent /\ OnlyHand(p)
  BY DEF VisitEntry, IsAt, HandShape, OnlyHand, HandOK, MovePoints, UploadPoints
<1>2. PICK c \in hand[p].todo :
         /\ hand' = [hand EXCEPT ![p] = Visited(c)]
         /\ exposed' = IF Exists(source, c) /\ Others(p, c) THEN exposed \cup {c} ELSE exposed
  BY DEF VisitEntry
<1>3. hand'[p] = Visited(c)
  BY <1>2 DEF HandShape
<1>4. c \in Calls /\ c # Absent
  BY <1>1, CrashAssumption DEF HandOK
<1>5. CASE ~Exists(source, c)
  <2>1. hand'[p] = [hand[p] EXCEPT !.todo = @ \ {c}]
    BY <1>3, <1>5
  <2>2. HandOK(hand'[p]) /\ hand'[p].pc = "next" /\ hand'[p].cur = Absent
    BY <1>1, <2>1 DEF HandOK, HandFields, HandPoints
  <2> QED BY <1>1, <1>2, <1>5, <2>2
<1>6. CASE Exists(source, c)
  <2>1. hand'[p] = [hand[p] EXCEPT !.todo = @ \ {c}, !.pc = "moveRemove", !.cur = c,
                                   !.move = [from |-> source, to |-> target]]
    BY <1>3, <1>6 DEF BeginMove
  <2>2. HandOK(hand'[p])
    BY <1>1, <1>4, <2>1 DEF HandOK, ServePoints, MovePoints, UploadPoints, HandPoints,
        HandFields, Moves
  <2>3. /\ hand'[p].pc = "moveRemove" /\ hand'[p].cur = c
        /\ hand'[p].move.from = source /\ hand'[p].move.to = target
    BY <1>1, <2>1 DEF HandOK, HandFields
  <2> QED BY <1>1, <1>2, <1>4, <1>6, <2>2, <2>3
<1> QED BY <1>5, <1>6

(* The attempt file is written before the archive and before the last      *)
(* move; failing it lets the package go.                                   *)
LEMMA AttemptHand ==
  ASSUME HandShape, NEW p \in Procs, WriteUploadAttempt(p)
  PROVE  /\ OnlyHand(p) /\ HandOK(hand'[p])
         /\ hand[p].pc \in {"mark", "markUploaded", "markRetry"}
         /\ \/ hand'[p].pc = "archive" /\ hand'[p].cur = hand[p].cur
            \/ hand'[p].pc = "next" /\ hand'[p].cur = Absent
            \/ /\ hand'[p].pc = "moveRemove" /\ hand'[p].cur = hand[p].cur
               /\ hand'[p].move.from = "uploading"
               /\ \/ hand'[p].move.to = "uploaded" /\ hand[p].pc = "markUploaded"
                  \/ hand'[p].move.to = "pending"
<1>1. HandOK(hand[p]) /\ hand[p].pc \in {"mark", "markUploaded", "markRetry"} /\ OnlyHand(p)
  BY DEF WriteUploadAttempt, HandShape, OnlyHand
<1>2. hand[p].cur \in Calls /\ hand[p].cur # Absent
  BY <1>1 DEF HandOK, UploadPoints
<1>3. \/ hand'[p] = [hand[p] EXCEPT !.pc = "archive"]
      \/ hand'[p] = Drop(hand[p])
      \/ \E to \in {"uploaded", "pending"} :
           /\ hand'[p] = BeginMove([hand[p] EXCEPT !.archive = {}], hand[p].cur, "uploading", to)
           /\ to = "uploaded" => hand[p].pc = "markUploaded"
  BY DEF WriteUploadAttempt, HandShape
<1> USE <1>1, <1>2 DEF HandOK, ServePoints, MovePoints, UploadPoints, HandPoints, HandFields, Moves
<1>4. CASE hand'[p] = [hand[p] EXCEPT !.pc = "archive"]
  BY <1>4
<1>5. CASE hand'[p] = Drop(hand[p])
  BY <1>5 DEF Drop
<1>6. ASSUME NEW to \in {"uploaded", "pending"},
             hand'[p] = BeginMove([hand[p] EXCEPT !.archive = {}], hand[p].cur, "uploading", to)
      PROVE  /\ HandOK(hand'[p]) /\ hand'[p].pc = "moveRemove" /\ hand'[p].cur = hand[p].cur
             /\ hand'[p].move.from = "uploading" /\ hand'[p].move.to = to
  BY <1>6 DEF BeginMove
<1> QED BY <1>3, <1>4, <1>5, <1>6

(* The archive is what lies in uploading, or the package is moved to       *)
(* failed.                                                                 *)
LEMMA ArchiveHand ==
  ASSUME HandShape, NEW p \in Procs, BuildArchive(p)
  PROVE  /\ OnlyHand(p) /\ HandOK(hand'[p]) /\ hand[p].pc = "archive" /\ hand'[p].cur = hand[p].cur
         /\ \/ /\ hand'[p].pc = "post" /\ hand'[p].archive = spool["uploading"][hand[p].cur]
               /\ Exists("uploading", hand[p].cur)
            \/ /\ hand'[p].pc = "moveRemove"
               /\ hand'[p].move.from = "uploading" /\ hand'[p].move.to = "failed"
<1>1. HandOK(hand[p]) /\ hand[p].pc = "archive" /\ OnlyHand(p)
  BY DEF BuildArchive, IsAt, HandShape, OnlyHand
<1>2. hand[p].cur \in Calls /\ hand[p].cur # Absent
  BY <1>1 DEF HandOK, UploadPoints
<1>3. \/ /\ hand'[p] = [hand[p] EXCEPT !.pc = "post", !.archive = spool["uploading"][hand[p].cur]]
         /\ Exists("uploading", hand[p].cur)
      \/ hand'[p] = BeginMove(hand[p], hand[p].cur, "uploading", "failed")
  BY DEF BuildArchive, HandShape
<1> USE <1>1, <1>2 DEF HandOK, ServePoints, MovePoints, UploadPoints, HandPoints, HandFields, Moves
<1>4. CASE hand'[p] = [hand[p] EXCEPT !.pc = "post", !.archive = spool["uploading"][hand[p].cur]]
  BY <1>3, <1>4 DEF BeginMove
<1>5. CASE hand'[p] = BeginMove(hand[p], hand[p].cur, "uploading", "failed")
  BY <1>5 DEF BeginMove
<1> QED BY <1>3, <1>4, <1>5

(* The listing and retention steps have no package at hand.                *)
LEMMA ListingHand ==
  ASSUME HandShape, NEW p \in Procs, ApplyRetention(p) \/ EndRetention(p) \/ NoServer(p)
  PROVE  /\ OnlyHand(p) /\ HandOK(hand'[p]) /\ hand[p].pc = "next"
         /\ hand'[p].pc \in {"next", "read"} /\ hand'[p].cur = Absent
<1> USE DEF HandShape, OnlyHand, HandOK, ServePoints, MovePoints, UploadPoints, HandPoints,
    HandFields, IsAt
<1>1. CASE ApplyRetention(p)
  BY <1>1 DEF ApplyRetention
<1>2. CASE EndRetention(p)
  BY <1>2 DEF EndRetention, IdleHand, NoMove
<1>3. CASE NoServer(p)
  BY <1>3 DEF NoServer, IdleHand, NoMove
<1> QED BY <1>1, <1>2, <1>3

(* Every step keeps the shapes. *)
LEMMA ShapeStep ==
  ASSUME ShapeOK, RequestOK, Next
  PROVE  ShapeOK'
<1> USE DEF ShapeOK, clientSide, client, history
<1>0. \A c \in Calls : ProcOf(c) \in Procs
  BY SiteOK DEF ClientShape
<1>1. ASSUME NEW c \in Calls, RequestReentered(c) PROVE ShapeOK'
  <2>1. ClientShape'
    BY <1>1, <1>0 DEF RequestReentered, Return, ClientShape
  <2>2. PipeShape'
    BY <1>1 DEF RequestReentered, PipeShape
  <2>3. HandShape'
    BY <1>1 DEF RequestReentered, HandShape
  <2>4. SpoolShape'
    BY <1>1 DEF RequestReentered, SpoolShape
  <2> QED BY <2>1, <2>2, <2>3, <2>4
<1>2. ASSUME NEW c \in Calls, RequestGpuCrashDump(c) PROVE ShapeOK'
  <2>1. ClientShape'
    BY <1>2, <1>0 DEF RequestGpuCrashDump, EnsurePackage, CanCall, Return, NoFault, Fault,
        ClientShape
  <2>2. PipeShape'
    BY <1>2 DEF RequestGpuCrashDump, PipeShape
  <2>3. HandShape'
    BY <1>2 DEF RequestGpuCrashDump, HandShape
  <2>4. SpoolShape'
    BY <1>2, EnsureEffect DEF RequestGpuCrashDump, SpoolShape
  <2> QED BY <2>1, <2>2, <2>3, <2>4
<1>3. ASSUME NEW c \in Calls, WriteGpuFile(c) PROVE ShapeOK'
  <2>1. ClientShape'
    BY <1>3, <1>0 DEF WriteGpuFile, WriteFile, Return, NoFault, Fault, ClientShape
  <2>2. PipeShape'
    BY <1>3 DEF WriteGpuFile, PipeShape
  <2>3. HandShape'
    BY <1>3 DEF WriteGpuFile, HandShape
  <2>4. SpoolShape'
    BY <1>3, WriteEffect DEF WriteGpuFile, SpoolShape, Files
  <2> QED BY <2>1, <2>2, <2>3, <2>4
<1>4. ASSUME NEW c \in Calls, EnterTransport(c) PROVE ShapeOK'
  <2>1. ClientShape'
    BY <1>4, <1>0 DEF EnterTransport, Return, CanCall, ClientShape
  <2>2. PipeShape'
    <3>1. acks \in [Procs -> Seq(AckRecords)] /\ <<>> \in Seq(AckRecords)
      BY EmptySeq DEF PipeShape
    <3>2. acks' = acks \/ acks' = [acks EXCEPT ![ProcOf(c)] = <<>>]
      BY <1>4 DEF EnterTransport
    <3> QED BY <3>1, <3>2, <1>4 DEF EnterTransport, PipeShape
  <2>3. HandShape'
    BY <1>4 DEF EnterTransport, HandShape
  <2>4. SpoolShape'
    BY <1>4 DEF EnterTransport, SpoolShape
  <2> QED BY <2>1, <2>2, <2>3, <2>4
<1>5. ASSUME NEW c \in Calls, SendRequest(c) PROVE ShapeOK'
  <2>1. ClientShape'
    BY <1>5, <1>0 DEF SendRequest, Leave, Return, ClientShape
  <2>2. PipeShape'
    <3>1. reqs' = reqs \/ reqs' = [reqs EXCEPT ![ProcOf(c)] = Append(@, c)]
      BY <1>5 DEF SendRequest
    <3>2. Append(reqs[ProcOf(c)], c) \in Seq(Calls)
      BY <1>0, AppendProperties DEF PipeShape
    <3> QED BY <3>1, <3>2, <1>5 DEF SendRequest, PipeShape
  <2>3. HandShape'
    BY <1>5 DEF SendRequest, HandShape
  <2>4. SpoolShape'
    BY <1>5 DEF SendRequest, SpoolShape
  <2> QED BY <2>1, <2>2, <2>3, <2>4
<1>6. ASSUME NEW c \in Calls, ReadAck(c) PROVE ShapeOK'
  <2>1. ClientShape'
    BY <1>6, <1>0 DEF ReadAck, Leave, Return, CrashAckMatchesRequest, ClientShape
  <2>2. PipeShape'
    BY <1>6, <1>0, PipeSeq DEF ReadAck, PipeShape
  <2>3. HandShape'
    BY <1>6 DEF ReadAck, HandShape
  <2>4. SpoolShape'
    BY <1>6 DEF ReadAck, SpoolShape
  <2> QED BY <2>1, <2>2, <2>3, <2>4
<1>7. ASSUME NEW c \in Calls, GiveUpWaiting(c) PROVE ShapeOK'
  <2>1. ClientShape'
    BY <1>7, <1>0 DEF GiveUpWaiting, Leave, Return, ClientShape
  <2>2. PipeShape'
    BY <1>7 DEF GiveUpWaiting, PipeShape
  <2>3. HandShape'
    BY <1>7 DEF GiveUpWaiting, HandShape
  <2>4. SpoolShape'
    BY <1>7 DEF GiveUpWaiting, SpoolShape
  <2> QED BY <2>1, <2>2, <2>3, <2>4
<1>8. ASSUME NEW p \in Procs, ReadRequest(p) PROVE ShapeOK'
  <2>1. ClientShape'
    BY <1>8, <1>0 DEF ReadRequest, IsAt, ExitHandler, EnsurePackage, Fault, NoFault, ClientShape
  <2>2. PipeShape'
    <3>1. CASE reqs[p] = <<>>
      BY <3>1, <1>8 DEF ReadRequest, PipeShape
    <3>2. CASE reqs[p] # <<>>
      <4>1. Tail(reqs[p]) \in Seq(Calls)
        BY <3>2, HeadTailProperties DEF PipeShape
      <4> QED BY <3>2, <4>1, <1>8 DEF ReadRequest, PipeShape
    <3> QED BY <3>1, <3>2
  <2>3. HandShape'
    BY <1>8 DEF ReadRequest, IsAt, ExitHandler, EnsurePackage, HandShape, HandOK, ServePoints,
        MovePoints, UploadPoints, HandPoints, HandFields, IdleHand, NoMove, Moves
  <2>4. SpoolShape'
    <3>1. reqs[p] # <<>> => Head(reqs[p]) \in Calls
      BY PipeSeq DEF PipeShape
    <3> QED BY <3>1, <1>8, EnsureEffect DEF ReadRequest, SpoolShape
  <2> QED BY <2>1, <2>2, <2>3, <2>4
<1>9. ASSUME NEW p \in Procs, WriteCrashPackage(p) PROVE ShapeOK'
  <2>1. ClientShape'
    BY <1>9, <1>0 DEF WriteCrashPackage, WriteFile, Goto, NoFault, Fault, ClientShape
  <2>2. PipeShape'
    BY <1>9 DEF WriteCrashPackage, PipeShape
  <2>3. HandShape'
    BY <1>9 DEF WriteCrashPackage, WriteFile, Goto, NoFault, Fault, HandShape, HandOK,
        ServePoints, MovePoints, UploadPoints, HandPoints, HandFields, IdleHand, NoMove, Moves
  <2>4. SpoolShape'
    <3>1. hand[p].pc \in Files /\ hand[p].req \in Calls
      BY <1>9 DEF WriteCrashPackage, RequestOK, Files, ServePoints
    <3>2. CASE WriteFile(hand[p].req, hand[p].pc)
      BY <3>1, <3>2, <1>9, WriteEffect DEF WriteCrashPackage, SpoolShape
    <3>3. CASE UNCHANGED <<spool, written>>
      BY <3>3, <1>9 DEF WriteCrashPackage, SpoolShape
    <3> QED BY <3>2, <3>3, <1>9 DEF WriteCrashPackage
  <2> QED BY <2>1, <2>2, <2>3, <2>4
<1>10. ASSUME NEW p \in Procs, SendAck(p) PROVE ShapeOK'
  <2>1. ClientShape'
    BY <1>10, <1>0 DEF SendAck, IsAt, ExitHandler, ClientShape
  <2>2. PipeShape'
    <3> DEFINE a == [id |-> hand[p].req, packageWritten |-> IsAt(p, "ackWritten")]
    <3>1. acks' = acks \/ acks' = [acks EXCEPT ![p] = Append(@, a)]
      BY <1>10 DEF SendAck
    <3>2. a \in AckRecords
      BY <1>10 DEF SendAck, RequestOK, ServePoints, IsAt, AckRecords
    <3> HIDE DEF a
    <3>3. Append(acks[p], a) \in Seq(AckRecords)
      BY <3>2, AppendProperties DEF PipeShape
    <3> QED BY <3>1, <3>3, <1>10 DEF SendAck, PipeShape
  <2>3. HandShape'
    BY <1>10, SendAckHand DEF SendAck, HandShape, OnlyHand
  <2>4. SpoolShape'
    BY <1>10 DEF SendAck, SpoolShape
  <2> QED BY <2>1, <2>2, <2>3, <2>4
<1>11. ASSUME NEW p \in Procs, RemoveDestination(p) PROVE ShapeOK'
  <2>1. ClientShape'
    BY <1>11, <1>0 DEF RemoveDestination, IsAt, Goto, ClientShape
  <2>2. PipeShape'
    BY <1>11 DEF RemoveDestination, PipeShape
  <2>3. HandShape'
    BY <1>11 DEF RemoveDestination, IsAt, Goto, HandShape, HandOK, ServePoints, MovePoints,
        UploadPoints, HandPoints, HandFields, IdleHand, NoMove, Moves
  <2>4. SpoolShape'
    BY <1>11, RemoveEffect DEF RemoveDestination, SpoolShape, HandShape
  <2> QED BY <2>1, <2>2, <2>3, <2>4
<1>12. ASSUME NEW p \in Procs, RenameSource(p) PROVE ShapeOK'
  <2>1. ClientShape'
    BY <1>12, <1>0 DEF RenameSource, IsAt, AfterMove, ClientShape
  <2>2. PipeShape'
    BY <1>12 DEF RenameSource, PipeShape
  <2>3. HandShape'
    BY <1>12, RenameHand DEF RenameSource, HandShape, OnlyHand
  <2>4. SpoolShape'
    BY <1>12, RenameEffect DEF RenameSource, SpoolShape, HandShape
  <2> QED BY <2>1, <2>2, <2>3, <2>4
<1>13. ASSUME NEW p \in Procs, VisitEntry(p) PROVE ShapeOK'
  <2>1. ClientShape'
    BY <1>13, <1>0 DEF VisitEntry, IsAt, BeginMove, ClientShape
  <2>2. PipeShape'
    BY <1>13 DEF VisitEntry, PipeShape
  <2>3. HandShape'
    <3>1. OnlyHand(p) /\ HandOK(hand'[p]) /\ hand[p].pc = "next"
      BY <1>13, VisitHand
    <3>2. proc' = proc
      BY <1>13 DEF VisitEntry
    <3> QED BY <3>1, <3>2 DEF HandShape, OnlyHand
  <2>4. SpoolShape'
    BY <1>13 DEF VisitEntry, SpoolShape
  <2> QED BY <2>1, <2>2, <2>3, <2>4
<1>14. ASSUME NEW p \in Procs, ApplyRetention(p) PROVE ShapeOK'
  <2>1. ClientShape'
    BY <1>14, <1>0 DEF ApplyRetention, IsAt, ClientShape
  <2>2. PipeShape'
    BY <1>14 DEF ApplyRetention, PipeShape
  <2>3. HandShape'
    BY <1>14, ListingHand DEF ApplyRetention, HandShape, OnlyHand
  <2>4. SpoolShape'
    BY <1>14, RetentionEffect DEF ApplyRetention, SpoolShape
  <2> QED BY <2>1, <2>2, <2>3, <2>4
<1>15. ASSUME NEW p \in Procs, EndRetention(p) PROVE ShapeOK'
  <2>1. ClientShape'
    BY <1>15, <1>0 DEF EndRetention, IsAt, ClientShape
  <2>2. PipeShape'
    BY <1>15 DEF EndRetention, PipeShape
  <2>3. HandShape'
    BY <1>15, ListingHand DEF EndRetention, HandShape, OnlyHand
  <2>4. SpoolShape'
    BY <1>15 DEF EndRetention, SpoolShape
  <2> QED BY <2>1, <2>2, <2>3, <2>4
<1>16. ASSUME NEW p \in Procs, NoServer(p) PROVE ShapeOK'
  <2>1. ClientShape'
    BY <1>16, <1>0 DEF NoServer, IsAt, ClientShape
  <2>2. PipeShape'
    BY <1>16 DEF NoServer, PipeShape
  <2>3. HandShape'
    BY <1>16, ListingHand DEF NoServer, HandShape, OnlyHand
  <2>4. SpoolShape'
    BY <1>16 DEF NoServer, SpoolShape
  <2> QED BY <2>1, <2>2, <2>3, <2>4
<1>17. ASSUME NEW p \in Procs, WriteUploadAttempt(p) PROVE ShapeOK'
  <2>1. ClientShape'
    BY <1>17, <1>0 DEF WriteUploadAttempt, BeginMove, Drop, ClientShape
  <2>2. PipeShape'
    BY <1>17 DEF WriteUploadAttempt, PipeShape
  <2>3. HandShape'
    BY <1>17, AttemptHand DEF WriteUploadAttempt, HandShape, OnlyHand
  <2>4. SpoolShape'
    BY <1>17 DEF WriteUploadAttempt, SpoolShape
  <2> QED BY <2>1, <2>2, <2>3, <2>4
<1>18. ASSUME NEW p \in Procs, BuildArchive(p) PROVE ShapeOK'
  <2>1. ClientShape'
    BY <1>18, <1>0 DEF BuildArchive, IsAt, BeginMove, ClientShape
  <2>2. PipeShape'
    BY <1>18 DEF BuildArchive, PipeShape
  <2>3. HandShape'
    BY <1>18, ArchiveHand DEF BuildArchive, HandShape, OnlyHand
  <2>4. SpoolShape'
    BY <1>18 DEF BuildArchive, SpoolShape
  <2> QED BY <2>1, <2>2, <2>3, <2>4
<1>19. ASSUME NEW p \in Procs, UploadPackage(p) PROVE ShapeOK'
  <2>1. ClientShape'
    BY <1>19, <1>0 DEF UploadPackage, IsAt, Goto, Receive, ClientShape
  <2>2. PipeShape'
    BY <1>19 DEF UploadPackage, PipeShape
  <2>3. HandShape'
    BY <1>19 DEF UploadPackage, IsAt, Goto, Receive, HandShape, HandOK, ServePoints,
        MovePoints, UploadPoints, HandPoints, HandFields, IdleHand, NoMove, Moves
  <2>4. SpoolShape'
    <3>1. hand[p].cur \in Calls
      BY <1>19 DEF UploadPackage, IsAt, HandShape, HandOK, UploadPoints
    <3>2. received' = received \/ \E v \in {"whole", "part", received[hand[p].cur]} :
             received' = [received EXCEPT ![hand[p].cur] = v]
      BY <1>19 DEF UploadPackage, Receive
    <3> QED BY <3>1, <3>2, <1>19 DEF UploadPackage, SpoolShape
  <2> QED BY <2>1, <2>2, <2>3, <2>4
<1>20. ASSUME NEW p \in Procs, InstallCrashHandler(p) PROVE ShapeOK'
  <2>1. ClientShape'
    BY <1>20, <1>0 DEF InstallCrashHandler, ClientShape
  <2>2. PipeShape'
    BY <1>20 DEF InstallCrashHandler, PipeShape
  <2>3. HandShape'
    BY <1>20 DEF InstallCrashHandler, HandShape, HandOK, ServePoints, MovePoints,
        UploadPoints, HandPoints, HandFields, IdleHand, NoMove, Moves, ClientShape, Running
  <2>4. SpoolShape'
    BY <1>20 DEF InstallCrashHandler, SpoolShape
  <2> QED BY <2>1, <2>2, <2>3, <2>4
<1>21. ASSUME NEW p \in Procs, ProcessEnds(p) PROVE ShapeOK'
  <2>1. ClientShape'
    BY <1>21, <1>0 DEF ProcessEnds, ClientShape
  <2>2. PipeShape'
    BY <1>21, <1>0, PipeSeq DEF ProcessEnds, PipeShape
  <2>3. HandShape'
    BY <1>21 DEF ProcessEnds, HandShape, ClientShape
  <2>4. SpoolShape'
    BY <1>21 DEF ProcessEnds, SpoolShape
  <2> QED BY <2>1, <2>2, <2>3, <2>4
<1>22. ASSUME NEW p \in Procs, KillHandler(p) PROVE ShapeOK'
  <2>1. ClientShape'
    BY <1>22, <1>0 DEF KillHandler, ExitHandler, ClientShape
  <2>2. PipeShape'
    BY <1>22 DEF KillHandler, PipeShape
  <2>3. HandShape'
    BY <1>22 DEF KillHandler, ExitHandler, HandShape, HandOK, ServePoints, MovePoints,
        UploadPoints, HandPoints, HandFields, IdleHand, NoMove, Moves, ClientShape, Running
  <2>4. SpoolShape'
    BY <1>22 DEF KillHandler, SpoolShape
  <2> QED BY <2>1, <2>2, <2>3, <2>4
<1>23. ASSUME NEW p \in Procs, MoveFails(p) PROVE ShapeOK'
  <2>1. ClientShape'
    BY <1>23, <1>0 DEF MoveFails, ClientShape
  <2>2. PipeShape'
    BY <1>23 DEF MoveFails, PipeShape
  <2>3. HandShape'
    BY <1>23, MoveFailsHand DEF MoveFails, HandShape, OnlyHand
  <2>4. SpoolShape'
    <3>1. spool' \in SpoolType
      BY <1>23, MoveFailsEffect DEF SpoolShape, HandShape
    <3> QED BY <1>23, <3>1 DEF MoveFails, SpoolShape
  <2> QED BY <2>1, <2>2, <2>3, <2>4
<1> QED BY <1>1, <1>2, <1>3, <1>4, <1>5, <1>6, <1>7, <1>8, <1>9, <1>10, <1>11, <1>12,
           <1>13, <1>14, <1>15, <1>16, <1>17, <1>18, <1>19, <1>20, <1>21, <1>22, <1>23 DEF Next,
           ClientStep, HandlerStep

-----------------------------------------------------------------------------
(* The transport.                                                          *)

Core == ShapeOK /\ TransportOK /\ RequestOK /\ OutcomeOK

(* A settled request stays settled.                                        *)
KeepsSettled == \A c \in Calls : Settled(c) => Settled(c)'

(* No handler serves anything new.                                         *)
NoNewService ==
  \A p \in Procs : hand'[p].pc \in ServePoints =>
    hand'[p].pc = hand[p].pc /\ hand'[p].req = hand[p].req

(* Calls go on, results are given that are true, acknowledgements are read *)
(* or dropped; the request sockets and the services are left alone.        *)
CallsGoOn ==
  /\ site' = site /\ reqs' = reqs /\ written' = written /\ NoNewService
  /\ \A c \in Calls :
       /\ call[c] \in {"wait", "done"} => call'[c] \in {"wait", "done"}
       /\ \/ result'[c] = result[c]
          \/ result'[c] \in {"none", "noAnswer"}
          \/ result'[c] = "written" /\ c \in written
          \/ result'[c] = "writeFailed" /\ c \notin written /\ Settled(c)'
  /\ \A p \in Procs : \A i \in DOMAIN acks'[p] : \E j \in DOMAIN acks[p] : acks'[p][i] = acks[p][j]

(* Which process a call belongs to never changes.                          *)
LEMMA ProcOfStep ==
  ASSUME ClientShape, site' = site
  PROVE  \A c \in Calls : ProcOf(c) \in Procs /\ ProcOf(c)' = ProcOf(c)
  BY SiteOK DEF ClientShape, ProcOf

(* The elements of the pipes.                                              *)
LEMMA PipeElements ==
  ASSUME PipeShape, NEW p \in Procs
  PROVE  /\ \A i \in DOMAIN reqs[p] : reqs[p][i] \in Calls
         /\ \A i \in DOMAIN acks[p] :
              acks[p][i].id \in Calls /\ acks[p][i].packageWritten \in BOOLEAN
<1>1. reqs[p] \in Seq(Calls) /\ acks[p] \in Seq(AckRecords)
  BY DEF PipeShape
<1>2. \A i \in DOMAIN reqs[p] : reqs[p][i] \in Calls
  BY <1>1
<1>3. \A i \in DOMAIN acks[p] : acks[p][i] \in AckRecords
  BY <1>1
<1> QED BY <1>2, <1>3 DEF AckRecords

(* What keeps every settled request settled.                               *)
LEMMA SettledStep ==
  ASSUME \A c \in Calls :
           /\ call[c] \in {"wait", "done"} => call'[c] \in {"wait", "done"}
           /\ Queued(c)' => Queued(c) \/ call[c] = "send"
           /\ Serves(c, {"basics", "symbols"})' => Serves(c, {"basics", "symbols"}) \/ Queued(c)
  PROVE  KeepsSettled
  BY DEF KeepsSettled, Settled

(* Such steps keep what the transport and the outcomes promise.            *)
LEMMA CallsGoOnStep ==
  ASSUME Core, CallsGoOn
  PROVE  RequestOK' /\ OutcomeOK' /\ KeepsSettled
<1> USE DEF Core, ShapeOK
<1> USE DEF CallsGoOn
<1>0. \A c \in Calls : ProcOf(c) \in Procs /\ ProcOf(c)' = ProcOf(c)
  BY ProcOfStep
<1>1. \A c \in Calls : Queued(c)' <=> Queued(c)
  BY <1>0 DEF Queued
<1>2. \A c \in Calls : Serves(c, {"basics", "symbols"})' => Serves(c, {"basics", "symbols"})
  BY <1>0 DEF Serves, NoNewService, ServePoints
<1>3. KeepsSettled
  BY <1>1, <1>2, SettledStep
<1>4. RequestOK'
  <2> SUFFICES ASSUME NEW p \in Procs
               PROVE  /\ \A i \in DOMAIN reqs[p] :
                           /\ ProcOf(reqs[p][i])' = p
                           /\ call'[reqs[p][i]] \in {"wait", "done"}
                           /\ \A j \in DOMAIN reqs[p] : reqs[p][i] = reqs[p][j] => i = j
                      /\ hand'[p].pc \in ServePoints =>
                           /\ hand'[p].req \in Calls /\ ProcOf(hand[p].req)' = p
                           /\ call'[hand'[p].req] \in {"wait", "done"}
                           /\ \A i \in DOMAIN reqs[p] : reqs[p][i] # hand'[p].req
                           /\ hand'[p].req = hand[p].req
    BY DEF RequestOK
  <2>1. \A i \in DOMAIN reqs[p] : reqs[p][i] \in Calls
    BY PipeElements
  <2> QED BY <1>0, <1>1, <2>1 DEF RequestOK, NoNewService
<1>5. OutcomeOK'
  <2>1. \A c \in written' : Settled(c)'
    BY <1>3 DEF OutcomeOK, KeepsSettled, SpoolShape
  <2>2. ASSUME NEW p \in Procs
        PROVE  /\ hand'[p].pc = "ackFailed" => hand'[p].req \notin written
               /\ hand'[p].pc = "ackWritten" => hand'[p].req \in written
    BY DEF OutcomeOK, NoNewService, ServePoints
  <2>3. ASSUME NEW p \in Procs, NEW i \in DOMAIN acks'[p], NEW c \in Calls, acks'[p][i].id = c
        PROVE  IF acks'[p][i].packageWritten THEN c \in written ELSE c \notin written /\ Settled(c)'
    <3>1. PICK j \in DOMAIN acks[p] : acks'[p][i] = acks[p][j]
      BY <2>3
    <3>2. IF acks[p][j].packageWritten THEN c \in written ELSE c \notin written /\ Settled(c)
      BY <2>3, <3>1 DEF OutcomeOK
    <3> QED BY <1>3, <3>1, <3>2 DEF KeepsSettled
  <2>4. \A c \in Calls : /\ result'[c] = "written" => c \in written
                         /\ result'[c] = "writeFailed" => c \notin written /\ Settled(c)'
    BY <1>3 DEF OutcomeOK, KeepsSettled
  <2> QED BY <2>1, <2>2, <2>3, <2>4 DEF OutcomeOK
<1> QED BY <1>3, <1>4, <1>5

(* A step that moves no call into or out of the transport.                 *)
LEMMA TransportSame ==
  ASSUME ClientShape, TransportOK, site' = site, inFlight' = inFlight,
         \A c \in Calls : /\ call'[c] \in Transport <=> call[c] \in Transport
                          /\ call'[c] = "gpuFile" => call[c] = "gpuFile" \/ site[c].gpu
  PROVE  TransportOK'
<1>0. \A c \in Calls : ProcOf(c) \in Procs /\ ProcOf(c)' = ProcOf(c)
  BY ProcOfStep
<1> QED BY <1>0 DEF TransportOK

(* Leaving the transport: no other call of the process is in it.           *)
LEMMA TransportLeft ==
  ASSUME ClientShape, TransportOK, NEW c \in Calls, site' = site, call[c] \in Transport,
         NEW status, Leave(c, status)
  PROVE  TransportOK'
<1>0. \A b \in Calls : ProcOf(b) \in Procs /\ ProcOf(b)' = ProcOf(b)
  BY ProcOfStep
<1>1. \A b \in Calls : call'[b] = IF b = c THEN "done" ELSE call[b]
  BY DEF Leave, Return, ClientShape
<1>2. \A p \in Procs : inFlight'[p] = IF p = ProcOf(c) THEN FALSE ELSE inFlight[p]
  BY DEF Leave, ClientShape
<1>3. \A p \in Procs : inFlight'[p] <=> \E b \in Calls : ProcOf(b) = p /\ call'[b] \in Transport
  <2> SUFFICES ASSUME NEW p \in Procs
               PROVE  inFlight'[p] <=> \E b \in Calls : ProcOf(b) = p /\ call'[b] \in Transport
    OBVIOUS
  <2>1. CASE p = ProcOf(c)
    BY <1>1, <1>2, <2>1 DEF TransportOK, Transport
  <2>2. CASE p # ProcOf(c)
    BY <1>1, <1>2, <2>2 DEF TransportOK
  <2> QED BY <2>1, <2>2
<1>4. \A b \in Calls : call'[b] \in Transport \cup {"gpuFile"} => call'[b] = call[b]
  BY <1>1 DEF Transport
<1> QED BY <1>0, <1>3, <1>4 DEF TransportOK

(* A call that has not been sent is nowhere in the transport.              *)
LEMMA Unsent ==
  ASSUME Core, NEW c \in Calls, call[c] \notin {"wait", "done"}
  PROVE  ~Queued(c) /\ ~Serves(c, ServePoints) /\ c \notin written
<1>1. ProcOf(c) \in Procs
  BY SiteOK DEF Core, ShapeOK, ClientShape
<1> QED BY <1>1 DEF Core, RequestOK, OutcomeOK, Queued, Serves, Settled

(* What reading a pipe leaves was there before.                            *)
LEMMA TailElements ==
  ASSUME NEW S, NEW s \in Seq(S), s # <<>>
  PROVE  /\ \A i \in DOMAIN Tail(s) : i + 1 \in DOMAIN s /\ Tail(s)[i] = s[i + 1]
         /\ 1 \in DOMAIN s /\ Head(s) = s[1]
  OBVIOUS

CoreNext == TransportOK' /\ RequestOK' /\ OutcomeOK' /\ KeepsSettled

(* The client's steps but for the sending of a request.                    *)
LEMMA CallStep ==
  ASSUME Core, NEW c \in Calls,
         \/ RequestReentered(c) \/ RequestGpuCrashDump(c) \/ WriteGpuFile(c)
         \/ EnterTransport(c) \/ ReadAck(c) \/ GiveUpWaiting(c)
  PROVE  CoreNext
<1> USE DEF CoreNext
<1> USE DEF Core, ShapeOK
<1> DEFINE p == ProcOf(c)
<1>0. \A b \in Calls : ProcOf(b) \in Procs
  BY SiteOK DEF ClientShape
<1>a. call \in [Calls -> {"idle", "gpuFile", "enter", "done", "send", "wait"}]
      /\ DOMAIN result = Calls /\ DOMAIN inFlight = Procs /\ DOMAIN acks = Procs
  BY DEF ClientShape, PipeShape
<1>b. ASSUME hand' = hand PROVE NoNewService
  BY <1>b DEF NoNewService
<1>c. ASSUME acks' = acks
      PROVE  \A q \in Procs : \A i \in DOMAIN acks'[q] : \E j \in DOMAIN acks[q] : acks'[q][i] = acks[q][j]
  BY <1>c
<1>1. CASE RequestReentered(c)
  <2>1. CallsGoOn
    BY <1>1, <1>a, <1>b, <1>c DEF RequestReentered, Return, CallsGoOn, history
  <2>2. TransportOK'
    BY <1>1, <1>a, TransportSame DEF RequestReentered, Return, Transport
  <2> QED BY <2>1, <2>2, CallsGoOnStep
<1>2. CASE RequestGpuCrashDump(c)
  <2>0. UNCHANGED <<site, inFlight, reqs, acks, hand, written>> /\ call[c] = "idle" /\ site[c].gpu
    BY <1>2 DEF RequestGpuCrashDump, CanCall, history
  <2>1. \/ call' = [call EXCEPT ![c] = "gpuFile"] /\ result' = result
        \/ call' = [call EXCEPT ![c] = "done"] /\ result' = [result EXCEPT ![c] = "writeFailed"]
    BY <1>2 DEF RequestGpuCrashDump, Return
  <2>2. call'[c] = "done" => Settled(c)' /\ c \notin written
    BY <2>0, <1>a, Unsent DEF Settled, Queued, Serves, ServePoints, ProcOf
  <2>3. CallsGoOn
    BY <2>0, <2>1, <2>2, <1>a, <1>b, <1>c DEF CallsGoOn
  <2>4. TransportOK'
    BY <2>0, <2>1, <1>a, TransportSame DEF Transport
  <2> QED BY <2>3, <2>4, CallsGoOnStep
<1>3. CASE WriteGpuFile(c)
  <2>0. UNCHANGED <<site, inFlight, reqs, acks, hand, written>> /\ call[c] = "gpuFile"
    BY <1>3 DEF WriteGpuFile, history
  <2>1. \/ call' = [call EXCEPT ![c] = "enter"] /\ result' = result
        \/ call' = [call EXCEPT ![c] = "done"] /\ result' = [result EXCEPT ![c] = "writeFailed"]
    BY <1>3 DEF WriteGpuFile, Return
  <2>2. call'[c] = "done" => Settled(c)' /\ c \notin written
    BY <2>0, <1>a, Unsent DEF Settled, Queued, Serves, ServePoints, ProcOf
  <2>3. CallsGoOn
    BY <2>0, <2>1, <2>2, <1>a, <1>b, <1>c DEF CallsGoOn
  <2>4. TransportOK'
    BY <2>0, <2>1, <1>a, TransportSame DEF Transport
  <2> QED BY <2>3, <2>4, CallsGoOnStep
<1>4. CASE EnterTransport(c)
  <2>0. /\ UNCHANGED <<site, reqs, hand, written>> /\ call[c] \in {"idle", "enter"}
    BY <1>4 DEF EnterTransport, CanCall, history
  <2>1. CASE inFlight[p]
    <3>1. UNCHANGED <<inFlight, acks>> /\ Return(c, "noAnswer")
      BY <1>4, <2>1 DEF EnterTransport
    <3>2. CallsGoOn
      BY <2>0, <3>1, <1>a, <1>b, <1>c DEF Return, CallsGoOn
    <3>3. TransportOK'
      BY <2>0, <3>1, <1>a, TransportSame DEF Return, Transport
    <3> QED BY <3>2, <3>3, CallsGoOnStep
  <2>2. CASE ~inFlight[p]
    <3>1. /\ inFlight' = [inFlight EXCEPT ![p] = TRUE] /\ acks' = [acks EXCEPT ![p] = <<>>]
          /\ call' = [call EXCEPT ![c] = "send"] /\ result' = result
      BY <1>4, <2>2 DEF EnterTransport
    <3>2. \A q \in Procs : \A i \in DOMAIN acks'[q] : \E j \in DOMAIN acks[q] : acks'[q][i] = acks[q][j]
      <4>1. \A q \in Procs : acks'[q] = IF q = p THEN <<>> ELSE acks[q]
        BY <3>1, <1>a
      <4>2. DOMAIN <<>> = {}
        OBVIOUS
      <4> QED BY <4>1, <4>2
    <3>3. CallsGoOn
      BY <2>0, <3>1, <3>2, <1>a, <1>b DEF CallsGoOn
    <3>4. TransportOK'
      <4>1. \A b \in Calls : ProcOf(b)' = ProcOf(b)
        BY <2>0 DEF ProcOf
      <4>2. \A b \in Calls : call'[b] = IF b = c THEN "send" ELSE call[b]
        BY <3>1, <1>a
      <4>3. \A q \in Procs : inFlight'[q] = IF q = p THEN TRUE ELSE inFlight[q]
        BY <3>1, <1>a
      <4>4. \A b \in Calls : call[b] \in Transport => ProcOf(b) # p
        BY <2>2, <1>0 DEF TransportOK
      <4>5. ASSUME NEW q \in Procs
            PROVE  inFlight'[q] <=> \E b \in Calls : ProcOf(b) = q /\ call'[b] \in Transport
        <5>1. CASE q = p
          BY <4>2, <4>3, <5>1 DEF Transport
        <5>2. CASE q # p
          BY <4>2, <4>3, <5>2 DEF TransportOK
        <5> QED BY <5>1, <5>2
      <4>6. \A b, d \in Calls :
              (ProcOf(b) = ProcOf(d) /\ call'[b] \in Transport /\ call'[d] \in Transport) => b = d
        BY <4>2, <4>4 DEF TransportOK
      <4>7. \A b \in Calls : call'[b] = "gpuFile" => site[b].gpu
        BY <4>2 DEF TransportOK
      <4> QED BY <2>0, <4>1, <4>5, <4>6, <4>7 DEF TransportOK
    <3> QED BY <3>3, <3>4, CallsGoOnStep
  <2> QED BY <2>1, <2>2
<1>5. CASE ReadAck(c)
  <2>0. /\ UNCHANGED <<site, reqs, hand, written>> /\ call[c] = "wait" /\ acks[p] # <<>>
        /\ acks' = [acks EXCEPT ![p] = Tail(@)]
    BY <1>5 DEF ReadAck, history
  <2>1. acks[p] \in Seq(AckRecords) /\ p \in Procs
    BY <1>0 DEF PipeShape
  <2>2. \A q \in Procs : \A i \in DOMAIN acks'[q] : \E j \in DOMAIN acks[q] : acks'[q][i] = acks[q][j]
    <3>1. \A i \in DOMAIN Tail(acks[p]) : \E j \in DOMAIN acks[p] : Tail(acks[p])[i] = acks[p][j]
      BY <2>0, <2>1, TailElements
    <3>2. \A q \in Procs : acks'[q] = IF q = p THEN Tail(acks[p]) ELSE acks[q]
      BY <2>0, <1>a
    <3> QED BY <3>1, <3>2
  <2>3. CASE UNCHANGED <<call, result, inFlight>>
    <3>1. CallsGoOn
      BY <2>0, <2>2, <2>3, <1>b DEF CallsGoOn
    <3>2. TransportOK'
      BY <2>0, <2>3, TransportSame
    <3> QED BY <3>1, <3>2, CallsGoOnStep
  <2>4. ASSUME NEW status, Leave(c, status), acks[p][1].id = c,
               status = IF acks[p][1].packageWritten THEN "written" ELSE "writeFailed"
        PROVE  CoreNext
    <3>1. call' = [call EXCEPT ![c] = "done"] /\ result' = [result EXCEPT ![c] = status]
      BY <2>4 DEF Leave, Return
    <3>2. IF acks[p][1].packageWritten THEN c \in written ELSE c \notin written /\ Settled(c)
      BY <2>0, <2>1, <2>4, TailElements DEF OutcomeOK
    <3>3. Settled(c) => Settled(c)'
      BY <2>0, <3>1, <1>a DEF Settled, Queued, Serves, ProcOf
    <3>4. \/ status = "written" /\ c \in written
          \/ status = "writeFailed" /\ c \notin written /\ Settled(c)'
      BY <2>4, <3>2, <3>3
    <3>5. CallsGoOn
      BY <2>0, <2>2, <3>1, <3>4, <1>a, <1>b DEF CallsGoOn
    <3>6. TransportOK'
      BY <2>0, <2>4, TransportLeft DEF Transport
    <3> QED BY <3>5, <3>6, CallsGoOnStep
  <2>5. Head(acks[p]) = acks[p][1]
    BY <2>0, <2>1, TailElements
  <2> QED BY <1>5, <2>3, <2>4, <2>5 DEF ReadAck, CrashAckMatchesRequest
<1>6. CASE GiveUpWaiting(c)
  <2>1. CallsGoOn
    BY <1>6, <1>a, <1>b, <1>c DEF GiveUpWaiting, Leave, Return, CallsGoOn, history
  <2>2. TransportOK'
    BY <1>6, TransportLeft DEF GiveUpWaiting, Transport
  <2> QED BY <2>1, <2>2, CallsGoOnStep
<1> QED BY <1>1, <1>2, <1>3, <1>4, <1>5, <1>6

(* The request goes out: until now it was nowhere.                         *)
LEMMA SendRequestStep ==
  ASSUME Core, NEW c \in Calls, SendRequest(c)
  PROVE  CoreNext
<1> USE DEF CoreNext
<1> USE DEF Core, ShapeOK
<1> DEFINE p == ProcOf(c)
<1>0. /\ UNCHANGED <<site, acks, hand, written>> /\ call[c] = "send"
      /\ \A b \in Calls : ProcOf(b) \in Procs /\ ProcOf(b)' = ProcOf(b)
  <2>1. UNCHANGED <<site, acks, hand, written>> /\ call[c] = "send"
    BY DEF SendRequest, history
  <2> QED BY <2>1, ProcOfStep
<1>1. CASE ~Running(p)
  <2>1. Leave(c, "noAnswer") /\ reqs' = reqs
    BY <1>1 DEF SendRequest
  <2>2. CallsGoOn
    BY <1>0, <2>1 DEF Leave, Return, CallsGoOn, NoNewService, ClientShape
  <2>3. TransportOK'
    BY <1>0, <2>1, TransportLeft DEF Transport
  <2> QED BY <2>2, <2>3, CallsGoOnStep
<1>2. CASE Running(p)
  <2>0. /\ reqs' = [reqs EXCEPT ![p] = Append(@, c)] /\ call' = [call EXCEPT ![c] = "wait"]
        /\ UNCHANGED <<result, inFlight>>
    BY <1>2 DEF SendRequest
  <2>1. \A b \in Calls : call'[b] = IF b = c THEN "wait" ELSE call[b]
    BY <2>0 DEF ClientShape
  <2>2. TransportOK'
    BY <1>0, <2>0, <2>1, TransportSame DEF Transport
  <2>3. /\ reqs[p] \in Seq(Calls) /\ p \in Procs
        /\ \A q \in Procs : reqs'[q] = IF q = p THEN Append(reqs[p], c) ELSE reqs[q]
    BY <1>0, <2>0 DEF PipeShape
  <2>4. ~Queued(c) /\ ~Serves(c, ServePoints) /\ c \notin written
    BY <1>0, Unsent
  <2>5. /\ DOMAIN Append(reqs[p], c) = DOMAIN reqs[p] \cup {Len(reqs[p]) + 1}
        /\ Append(reqs[p], c)[Len(reqs[p]) + 1] = c
        /\ \A i \in DOMAIN reqs[p] : Append(reqs[p], c)[i] = reqs[p][i] /\ i # Len(reqs[p]) + 1
    BY <2>3, AppendProperties
  <2>6. \A q \in Procs : \A i \in DOMAIN reqs'[q] :
          \/ i \in DOMAIN reqs[q] /\ reqs'[q][i] = reqs[q][i]
          \/ q = p /\ i = Len(reqs[p]) + 1 /\ reqs'[q][i] = c
    BY <2>3, <2>5
  <2>7. \A b \in Calls : Queued(b)' => Queued(b) \/ b = c
    BY <1>0, <2>6 DEF Queued
  <2>8. KeepsSettled
    BY <1>0, <2>1, <2>7, SettledStep DEF Serves
  <2>9. RequestOK'
    <3>1. ASSUME NEW q \in Procs, NEW i \in DOMAIN reqs'[q]
          PROVE  /\ site[reqs'[q][i]].proc = q
                 /\ call'[reqs'[q][i]] \in {"wait", "done"}
                 /\ \A j \in DOMAIN reqs'[q] : reqs'[q][i] = reqs'[q][j] => i = j
      <4>1. \A j \in DOMAIN reqs[q] : reqs[q][j] \in Calls
        BY PipeElements
      <4>2. site[reqs'[q][i]].proc = q /\ call'[reqs'[q][i]] \in {"wait", "done"}
        BY <1>0, <2>1, <2>6, <4>1 DEF RequestOK, ProcOf
      <4>3. ASSUME NEW j \in DOMAIN reqs[q] PROVE reqs[q][j] # c
        <5>1. CASE q = p
          BY <2>4, <5>1 DEF Queued
        <5>2. CASE q # p
          BY <5>2 DEF RequestOK
        <5> QED BY <5>1, <5>2
      <4>4. \A j \in DOMAIN reqs'[q] : reqs'[q][i] = reqs'[q][j] => i = j
        BY <2>6, <4>3 DEF RequestOK
      <4> QED BY <4>2, <4>4
    <3>2. ASSUME NEW q \in Procs, hand'[q].pc \in ServePoints
          PROVE  /\ hand'[q].req \in Calls /\ site[hand'[q].req].proc = q
                 /\ call'[hand'[q].req] \in {"wait", "done"}
                 /\ \A i \in DOMAIN reqs'[q] : reqs'[q][i] # hand'[q].req
      <4>1. /\ hand[q].req \in Calls /\ ProcOf(hand[q].req) = q
            /\ call[hand[q].req] \in {"wait", "done"}
            /\ \A i \in DOMAIN reqs[q] : reqs[q][i] # hand[q].req
        BY <1>0, <3>2 DEF RequestOK
      <4>2. hand[q].req # c
        BY <4>1, <1>0
      <4> QED BY <1>0, <2>1, <2>6, <4>1, <4>2 DEF ProcOf
    <3> QED BY <1>0, <3>1, <3>2 DEF RequestOK, ProcOf
  <2>10. OutcomeOK'
    <3>1. \A b \in written : b \in Calls
      BY DEF SpoolShape
    <3> QED BY <1>0, <2>0, <2>8, <3>1 DEF OutcomeOK, KeepsSettled
  <2> QED BY <2>2, <2>8, <2>9, <2>10
<1> QED BY <1>1, <1>2

(* The handler takes the request out of the socket.                        *)
LEMMA ReadRequestStep ==
  ASSUME Core, NEW p \in Procs, ReadRequest(p)
  PROVE  CoreNext
<1> USE DEF CoreNext
<1> USE DEF Core, ShapeOK
<1>0. /\ UNCHANGED <<site, call, result, inFlight, acks, written>> /\ hand[p].pc = "read"
      /\ \A b \in Calls : ProcOf(b) \in Procs /\ ProcOf(b)' = ProcOf(b)
  <2>1. UNCHANGED <<site, call, result, inFlight, acks, written>> /\ hand[p].pc = "read"
    BY DEF ReadRequest, IsAt, client, history
  <2> QED BY <2>1, ProcOfStep
<1>1. TransportOK'
  BY <1>0, TransportSame
<1>2. CASE reqs[p] = <<>>
  <2>1. reqs' = reqs /\ hand' = [hand EXCEPT ![p] = [IdleHand EXCEPT !.pc = "exited"]]
    BY <1>2 DEF ReadRequest, ExitHandler
  <2>2. NoNewService
    BY <2>1 DEF NoNewService, HandShape, IdleHand, ServePoints
  <2>3. CallsGoOn
    BY <1>0, <2>1, <2>2 DEF CallsGoOn
  <2> QED BY <1>1, <2>3, CallsGoOnStep
<1>3. CASE reqs[p] # <<>>
  <2> DEFINE c == Head(reqs[p])
  <2>0. PICK pc \in {"basics", "ackFailed"} :
          /\ hand' = [hand EXCEPT ![p].pc = pc, ![p].req = c]
          /\ reqs' = [reqs EXCEPT ![p] = Tail(@)]
    BY <1>3 DEF ReadRequest
  <2>1. reqs[p] \in Seq(Calls)
    BY DEF PipeShape
  <2>2. /\ \A i \in DOMAIN Tail(reqs[p]) : i + 1 \in DOMAIN reqs[p] /\ Tail(reqs[p])[i] = reqs[p][i + 1]
        /\ 1 \in DOMAIN reqs[p] /\ c = reqs[p][1] /\ c \in Calls
        /\ DOMAIN Tail(reqs[p]) \subseteq Nat \ {0}
    BY <1>3, <2>1, TailElements
  <2>3. /\ ProcOf(c) = p /\ call[c] \in {"wait", "done"} /\ Queued(c)
    <3>1. ProcOf(c) = p /\ call[c] \in {"wait", "done"}
      BY <2>2 DEF RequestOK
    <3> QED BY <2>2, <3>1 DEF Queued
  <2>4. /\ \A q \in Procs : reqs'[q] = IF q = p THEN Tail(reqs[p]) ELSE reqs[q]
        /\ \A q \in Procs \ {p} : hand'[q] = hand[q]
        /\ hand'[p].pc \in {"basics", "ackFailed"} /\ hand'[p].req = c
    BY <2>0 DEF PipeShape, HandShape, HandOK, HandFields
  <2> HIDE DEF c
  <2>5. \A b \in Calls : Queued(b)' => Queued(b)
    <3> SUFFICES ASSUME NEW b \in Calls, NEW i \in DOMAIN reqs'[ProcOf(b)], reqs'[ProcOf(b)][i] = b
                 PROVE  \E j \in DOMAIN reqs[ProcOf(b)] : reqs[ProcOf(b)][j] = b
      BY <1>0 DEF Queued
    <3>1. CASE ProcOf(b) = p
      <4>1. i \in DOMAIN Tail(reqs[p]) /\ Tail(reqs[p])[i] = b
        BY <2>4, <3>1
      <4>2. i + 1 \in DOMAIN reqs[p] /\ reqs[p][i + 1] = b
        BY <2>2, <4>1
      <4> QED BY <3>1, <4>2
    <3>2. CASE ProcOf(b) # p
      BY <1>0, <2>4, <3>2
    <3> QED BY <3>1, <3>2
  <2>6. KeepsSettled
    <3>1. \A b \in Calls : Serves(b, {"basics", "symbols"})' => Serves(b, {"basics", "symbols"}) \/ b = c
      BY <1>0, <2>4 DEF Serves
    <3> QED BY <1>0, <2>3, <2>5, <3>1, SettledStep
  <2>7. RequestOK'
    <3>1. ASSUME NEW q \in Procs, NEW i \in DOMAIN reqs'[q]
          PROVE  /\ site[reqs'[q][i]].proc = q
                 /\ call'[reqs'[q][i]] \in {"wait", "done"}
                 /\ \A j \in DOMAIN reqs'[q] : reqs'[q][i] = reqs'[q][j] => i = j
                 /\ q = p => reqs'[q][i] # c
      <4>1. \A j \in DOMAIN reqs[q] : reqs[q][j] \in Calls
        BY PipeElements
      <4>2. CASE q # p
        BY <1>0, <2>4, <4>1, <4>2 DEF RequestOK, ProcOf
      <4>3. CASE q = p
        <5>1. i \in Nat \ {0} /\ i + 1 \in DOMAIN reqs[p] /\ reqs'[p][i] = reqs[p][i + 1]
          BY <2>2, <2>4, <4>3
        <5>2. site[reqs'[q][i]].proc = q /\ call'[reqs'[q][i]] \in {"wait", "done"}
          BY <1>0, <4>1, <4>3, <5>1 DEF RequestOK, ProcOf
        <5>3. reqs'[p][i] # c
          BY <2>2, <5>1 DEF RequestOK
        <5>4. ASSUME NEW j \in DOMAIN reqs'[p], reqs'[p][i] = reqs'[p][j] PROVE i = j
          <6>1. j \in Nat \ {0} /\ j + 1 \in DOMAIN reqs[p] /\ reqs'[p][j] = reqs[p][j + 1]
            BY <2>2, <2>4
          <6>2. i + 1 = j + 1
            <7>1. \A k, l \in DOMAIN reqs[p] : reqs[p][k] = reqs[p][l] => k = l
              BY DEF RequestOK
            <7> QED BY <5>1, <5>4, <6>1, <7>1
          <6> QED BY <5>1, <6>1, <6>2
        <5> QED BY <4>3, <5>2, <5>3, <5>4
      <4> QED BY <4>2, <4>3
    <3>2. ASSUME NEW q \in Procs, hand'[q].pc \in ServePoints
          PROVE  /\ hand'[q].req \in Calls /\ site[hand'[q].req].proc = q
                 /\ call'[hand'[q].req] \in {"wait", "done"}
                 /\ \A i \in DOMAIN reqs'[q] : reqs'[q][i] # hand'[q].req
      <4>1. CASE q = p
        BY <1>0, <2>2, <2>3, <2>4, <3>1, <4>1 DEF ProcOf
      <4>2. CASE q # p
        BY <1>0, <2>4, <3>2, <4>2 DEF RequestOK, ProcOf
      <4> QED BY <4>1, <4>2
    <3> QED BY <1>0, <3>1, <3>2 DEF RequestOK, ProcOf
  <2>8. OutcomeOK'
    <3>1. \A b \in written : b \in Calls
      BY DEF SpoolShape
    <3>2. c \notin written
      BY <2>3 DEF OutcomeOK, Settled
    <3> QED BY <1>0, <2>4, <2>6, <3>1, <3>2 DEF OutcomeOK, KeepsSettled
  <2> QED BY <1>1, <2>6, <2>7, <2>8
<1> QED BY <1>2, <1>3

(* The files are written: the request is settled when its handler leaves   *)
(* the files, and complete only then.                                      *)
LEMMA WriteCrashPackageStep ==
  ASSUME Core, NEW p \in Procs, WriteCrashPackage(p)
  PROVE  CoreNext
<1> USE DEF CoreNext
<1> USE DEF Core, ShapeOK
<1> DEFINE c == hand[p].req  f == hand[p].pc
<1>0. /\ UNCHANGED <<site, call, result, inFlight, reqs, acks>> /\ f \in {"basics", "symbols"}
      /\ \A b \in Calls : ProcOf(b) \in Procs /\ ProcOf(b)' = ProcOf(b)
  <2>1. UNCHANGED <<site, call, result, inFlight, reqs, acks>> /\ f \in {"basics", "symbols"}
    BY DEF WriteCrashPackage, clientSide, client
  <2> QED BY <2>1, ProcOfStep
<1>1. TransportOK'
  BY <1>0, TransportSame
<1>2. /\ c \in Calls /\ ProcOf(c) = p /\ call[c] \in {"wait", "done"} /\ ~Queued(c)
      /\ \A i \in DOMAIN reqs[p] : reqs[p][i] # c
      /\ c \notin written
  <2>1. /\ c \in Calls /\ ProcOf(c) = p /\ call[c] \in {"wait", "done"}
        /\ \A i \in DOMAIN reqs[p] : reqs[p][i] # c
    BY <1>0 DEF RequestOK, ServePoints
  <2>2. c \notin written
    BY <1>0, <2>1 DEF OutcomeOK, Settled, Serves
  <2> QED BY <2>1, <2>2 DEF Queued
<1>3. \E pc \in {"symbols", "ackWritten", "ackFailed"} :
         /\ hand' = [hand EXCEPT ![p].pc = pc]
         /\ pc = "ackWritten" => written' = written \cup {c}
         /\ pc # "ackWritten" => written' = written
  <2>1. CASE f = "basics"
    BY <1>0, <2>1 DEF WriteCrashPackage, Goto
  <2>2. CASE f = "symbols"
    BY <1>0, <2>2 DEF WriteCrashPackage, Goto
  <2> QED BY <1>0, <2>1, <2>2
<1>4. /\ \A q \in Procs \ {p} : hand'[q] = hand[q]
      /\ hand'[p].pc \in {"symbols", "ackWritten", "ackFailed"} /\ hand'[p].req = c
      /\ hand'[p].pc = "ackWritten" => written' = written \cup {c}
      /\ hand'[p].pc # "ackWritten" => written' = written
  BY <1>3 DEF HandShape, HandOK, HandFields
<1> HIDE DEF c, f
<1>5. KeepsSettled
  <2>1. \A b \in Calls : Serves(b, {"basics", "symbols"})' => Serves(b, {"basics", "symbols"})
    BY <1>0, <1>4, <1>2 DEF Serves, c, f
  <2>2. \A b \in Calls : Queued(b)' => Queued(b)
    BY <1>0 DEF Queued
  <2> QED BY <1>0, <2>1, <2>2, SettledStep
<1>6. RequestOK'
  <2>1. ASSUME NEW q \in Procs, hand'[q].pc \in ServePoints
        PROVE  /\ hand'[q].req \in Calls /\ site[hand'[q].req].proc = q
               /\ call[hand'[q].req] \in {"wait", "done"}
               /\ \A i \in DOMAIN reqs[q] : reqs[q][i] # hand'[q].req
    <3>1. CASE q = p
      BY <1>2, <1>4, <3>1 DEF ProcOf
    <3>2. CASE q # p
      BY <1>4, <2>1, <3>2 DEF RequestOK, ProcOf
    <3> QED BY <3>1, <3>2
  <2> QED BY <1>0, <2>1 DEF RequestOK, ProcOf
<1>7. ASSUME NEW b \in Calls, b = c, hand'[p].pc \in {"ackWritten", "ackFailed"} PROVE Settled(b)'
  BY <1>0, <1>2, <1>4, <1>7 DEF Settled, Serves, Queued, ProcOf
<1>8. OutcomeOK'
  <2>1. ASSUME NEW b \in written' PROVE Settled(b)'
    <3>1. b \in written \/ (b = c /\ hand'[p].pc = "ackWritten")
      BY <1>4
    <3>2. b \in written => b \in Calls /\ Settled(b)
      BY DEF SpoolShape, OutcomeOK
    <3> QED BY <1>2, <1>5, <1>7, <3>1, <3>2 DEF KeepsSettled
  <2>2. \A b \in Calls : Settled(b) => (b \in written' <=> b \in written)
    <3>1. ~Settled(c)
      BY <1>0, <1>2 DEF Settled, Serves, c, f
    <3> QED BY <1>4, <3>1
  <2>3. ASSUME NEW q \in Procs
        PROVE  /\ hand'[q].pc = "ackFailed" => hand'[q].req \notin written'
               /\ hand'[q].pc = "ackWritten" => hand'[q].req \in written'
    <3>1. CASE q = p
      BY <1>2, <1>4, <3>1
    <3>2. CASE q # p
      <4>1. hand[q].pc \in ServePoints => hand[q].req # c
        BY <1>2, <3>2 DEF RequestOK
      <4> QED BY <1>4, <3>2, <4>1 DEF OutcomeOK, ServePoints
    <3> QED BY <3>1, <3>2
  <2>4. ASSUME NEW q \in Procs, NEW i \in DOMAIN acks[q], NEW b \in Calls, acks[q][i].id = b
        PROVE  IF acks[q][i].packageWritten THEN b \in written' ELSE b \notin written' /\ Settled(b)'
    <3>1. IF acks[q][i].packageWritten THEN b \in written ELSE b \notin written /\ Settled(b)
      BY <2>4 DEF OutcomeOK
    <3>2. b \in written => b \in written'
      BY <1>4
    <3> QED BY <1>5, <2>2, <3>1, <3>2 DEF KeepsSettled
  <2>5. ASSUME NEW b \in Calls
        PROVE  /\ result[b] = "written" => b \in written'
               /\ result[b] = "writeFailed" => b \notin written' /\ Settled(b)'
    BY <1>4, <1>5, <2>2 DEF OutcomeOK, KeepsSettled
  <2> QED BY <1>0, <2>1, <2>3, <2>4, <2>5 DEF OutcomeOK
<1> QED BY <1>1, <1>5, <1>6, <1>8

(* The acknowledgement says what came of a settled request.                *)
LEMMA SendAckStep ==
  ASSUME Core, NEW p \in Procs, SendAck(p)
  PROVE  CoreNext
<1> USE DEF CoreNext
<1> USE DEF Core, ShapeOK
<1> DEFINE c == hand[p].req  ok == IsAt(p, "ackWritten")
           a == [id |-> c, packageWritten |-> ok]
<1>0. /\ UNCHANGED <<site, call, result, inFlight, reqs, written>>
      /\ hand[p].pc \in {"ackWritten", "ackFailed"}
      /\ \A b \in Calls : ProcOf(b) \in Procs /\ ProcOf(b)' = ProcOf(b)
  <2>1. /\ UNCHANGED <<site, call, result, inFlight, reqs, written>>
        /\ hand[p].pc \in {"ackWritten", "ackFailed"}
    BY DEF SendAck, history, client
  <2> QED BY <2>1, ProcOfStep
<1>1. TransportOK'
  BY <1>0, TransportSame
<1>2. hand'[p].pc \in {"exited", "next", "read"} /\ \A q \in Procs \ {p} : hand'[q] = hand[q]
  BY SendAckHand DEF OnlyHand
<1>3. NoNewService
  BY <1>2 DEF NoNewService, ServePoints
<1>4. CASE acks' = acks
  <2>1. CallsGoOn
    BY <1>0, <1>3, <1>4 DEF CallsGoOn
  <2> QED BY <1>1, <2>1, CallsGoOnStep
<1>5. CASE acks' = [acks EXCEPT ![p] = Append(@, a)]
  <2>1. \A b \in Calls : Queued(b)' <=> Queued(b)
    BY <1>0 DEF Queued
  <2>2. \A b \in Calls : Serves(b, {"basics", "symbols"})' => Serves(b, {"basics", "symbols"})
    BY <1>0, <1>3 DEF Serves, NoNewService, ServePoints
  <2>3. KeepsSettled
    BY <1>0, <2>1, <2>2, SettledStep
  <2>4. RequestOK'
    <3>1. ASSUME NEW q \in Procs, hand'[q].pc \in ServePoints
          PROVE  q # p /\ hand'[q] = hand[q]
      BY <1>2, <3>1 DEF ServePoints
    <3> QED BY <1>0, <3>1 DEF RequestOK, ProcOf
  <2>5. /\ c \in Calls /\ ProcOf(c) = p
        /\ IF ok THEN c \in written ELSE c \notin written /\ Settled(c)
    <3>1. /\ c \in Calls /\ ProcOf(c) = p /\ call[c] \in {"wait", "done"}
          /\ \A i \in DOMAIN reqs[p] : reqs[p][i] # c
      BY <1>0 DEF RequestOK, ServePoints
    <3>2. Settled(c)
      BY <1>0, <3>1 DEF Settled, Serves, Queued
    <3> QED BY <1>0, <3>1, <3>2 DEF OutcomeOK, IsAt
  <2>6. \A q \in Procs : \A i \in DOMAIN acks'[q] :
          \/ i \in DOMAIN acks[q] /\ acks'[q][i] = acks[q][i]
          \/ acks'[q][i] = a
    <3> HIDE DEF a
    <3>1. /\ acks[p] \in Seq(AckRecords)
          /\ \A q \in Procs : acks'[q] = IF q = p THEN Append(acks[p], a) ELSE acks[q]
      BY <1>5 DEF PipeShape
    <3>2. /\ DOMAIN Append(acks[p], a) = DOMAIN acks[p] \cup {Len(acks[p]) + 1}
          /\ Append(acks[p], a)[Len(acks[p]) + 1] = a
          /\ \A i \in DOMAIN acks[p] : Append(acks[p], a)[i] = acks[p][i]
      <4>1. acks[p] \in Seq(AckRecords \cup {a}) /\ a \in AckRecords \cup {a}
        BY <3>1
      <4> QED BY <4>1, AppendProperties
    <3> QED BY <3>1, <3>2
  <2>7. OutcomeOK'
    <3>1. \A b \in written' : Settled(b)'
      BY <1>0, <2>3 DEF OutcomeOK, KeepsSettled, SpoolShape
    <3>2. ASSUME NEW q \in Procs
          PROVE  /\ hand'[q].pc = "ackFailed" => hand'[q].req \notin written
                 /\ hand'[q].pc = "ackWritten" => hand'[q].req \in written
      BY <1>2 DEF OutcomeOK
    <3>3. ASSUME NEW q \in Procs, NEW i \in DOMAIN acks'[q], NEW b \in Calls, acks'[q][i].id = b
          PROVE  IF acks'[q][i].packageWritten THEN b \in written ELSE b \notin written /\ Settled(b)'
      <4>1. CASE i \in DOMAIN acks[q] /\ acks'[q][i] = acks[q][i]
        <5>1. IF acks[q][i].packageWritten THEN b \in written ELSE b \notin written /\ Settled(b)
          BY <3>3, <4>1 DEF OutcomeOK
        <5> QED BY <2>3, <4>1, <5>1 DEF KeepsSettled
      <4>2. CASE acks'[q][i] = a
        <5>1. b = c /\ acks'[q][i].packageWritten = ok
          BY <3>3, <4>2
        <5>2. IF ok THEN b \in written ELSE b \notin written /\ Settled(b)
          BY <2>5, <5>1
        <5> HIDE DEF ok
        <5> QED BY <2>3, <5>1, <5>2 DEF KeepsSettled
      <4> QED BY <2>6, <4>1, <4>2
    <3> QED BY <1>0, <2>3, <3>1, <3>2, <3>3 DEF OutcomeOK, KeepsSettled
  <2> QED BY <1>1, <2>3, <2>4, <2>7
<1> QED BY <1>4, <1>5 DEF SendAck

(* The process ends: its calls are over.                                   *)
LEMMA ProcessEndsStep ==
  ASSUME Core, NEW p \in Procs, ProcessEnds(p)
  PROVE  CoreNext
<1> USE DEF CoreNext
<1> USE DEF Core, ShapeOK
<1>0. /\ UNCHANGED <<site, reqs, hand, written>>
      /\ \A b \in Calls : ProcOf(b) \in Procs /\ ProcOf(b)' = ProcOf(b)
  <2>1. UNCHANGED <<site, reqs, hand, written>>
    BY DEF ProcessEnds, history
  <2> QED BY <2>1, ProcOfStep
<1>1. /\ \A c \in Calls : call'[c] = IF ProcOf(c) = p THEN "done" ELSE call[c]
      /\ \A c \in Calls : result'[c] = IF ProcOf(c) = p THEN "none" ELSE result[c]
      /\ \A q \in Procs : inFlight'[q] = IF q = p THEN FALSE ELSE inFlight[q]
      /\ \A q \in Procs : acks'[q] = IF q = p THEN <<>> ELSE acks[q]
  BY DEF ProcessEnds, ClientShape, PipeShape
<1>2. \A q \in Procs : \A i \in DOMAIN acks'[q] : \E j \in DOMAIN acks[q] : acks'[q][i] = acks[q][j]
  <2>1. DOMAIN <<>> = {}
    OBVIOUS
  <2> QED BY <1>1, <2>1
<1>3. CallsGoOn
  BY <1>0, <1>1, <1>2 DEF CallsGoOn, NoNewService
<1>4. TransportOK'
  <2>1. ASSUME NEW q \in Procs
        PROVE  inFlight'[q] <=> \E c \in Calls : ProcOf(c) = q /\ call'[c] \in Transport
    <3>1. CASE q = p
      BY <1>1, <3>1 DEF Transport
    <3>2. CASE q # p
      BY <1>1, <3>2 DEF TransportOK
    <3> QED BY <3>1, <3>2
  <2>2. \A c \in Calls : call'[c] \in Transport \cup {"gpuFile"} => call'[c] = call[c]
    BY <1>1 DEF Transport
  <2> QED BY <1>0, <2>1, <2>2 DEF TransportOK
<1> QED BY <1>3, <1>4, CallsGoOnStep

(* The handler's steps outside a request leave the transport alone.        *)
LEMMA QuietCoreStep ==
  ASSUME Core, NEW p \in Procs,
         UNCHANGED <<site, call, result, inFlight, reqs, acks, written>>,
         \A q \in Procs \ {p} : hand'[q] = hand[q],
         hand'[p].pc \notin ServePoints
  PROVE  CoreNext
<1>1. NoNewService
  BY DEF NoNewService
<1>2. CallsGoOn
  BY <1>1 DEF CallsGoOn
<1>3. TransportOK'
  BY TransportSame DEF Core, ShapeOK
<1> QED BY <1>2, <1>3, CallsGoOnStep DEF CoreNext

(* Every step keeps the transport's half of the invariant.                 *)
LEMMA CoreStep ==
  ASSUME Core, Next
  PROVE  CoreNext
<1> USE DEF Core, ShapeOK
<1>1. ASSUME NEW c \in Calls, ClientStep(c) PROVE CoreNext
  BY <1>1, CallStep, SendRequestStep DEF ClientStep
<1>2. ASSUME NEW p \in Procs, ReadRequest(p) \/ WriteCrashPackage(p) \/ SendAck(p) \/ ProcessEnds(p)
      PROVE  CoreNext
  BY <1>2, ReadRequestStep, WriteCrashPackageStep, SendAckStep, ProcessEndsStep
<1>3. ASSUME NEW p \in Procs, RemoveDestination(p) PROVE CoreNext
  <2>1. UNCHANGED <<site, call, result, inFlight, reqs, acks, written>>
    BY <1>3 DEF RemoveDestination, clientSide, client, history
  <2>2. hand'[p].pc \notin ServePoints /\ \A q \in Procs \ {p} : hand'[q] = hand[q]
    BY <1>3, GotoHand DEF RemoveDestination, IsAt, HandPoints, MovePoints, UploadPoints,
        ServePoints, OnlyHand
  <2> QED BY <2>1, <2>2, QuietCoreStep
<1>4. ASSUME NEW p \in Procs, RenameSource(p) PROVE CoreNext
  <2>1. UNCHANGED <<site, call, result, inFlight, reqs, acks, written>>
    BY <1>4 DEF RenameSource, clientSide, client, history
  <2>2. hand'[p].pc \notin ServePoints /\ \A q \in Procs \ {p} : hand'[q] = hand[q]
    BY <1>4, RenameHand DEF RenameSource, ServePoints, OnlyHand
  <2> QED BY <2>1, <2>2, QuietCoreStep
<1>5. ASSUME NEW p \in Procs, VisitEntry(p) PROVE CoreNext
  <2>1. UNCHANGED <<site, call, result, inFlight, reqs, acks, written>>
    BY <1>5 DEF VisitEntry, clientSide, client, history
  <2>2. hand'[p].pc \notin ServePoints /\ \A q \in Procs \ {p} : hand'[q] = hand[q]
    BY <1>5, VisitHand DEF VisitEntry, ServePoints, OnlyHand
  <2> QED BY <2>1, <2>2, QuietCoreStep
<1>6. ASSUME NEW p \in Procs, ApplyRetention(p) PROVE CoreNext
  <2>1. UNCHANGED <<site, call, result, inFlight, reqs, acks, written>>
    BY <1>6 DEF ApplyRetention, clientSide, client, history
  <2>2. hand'[p].pc \notin ServePoints /\ \A q \in Procs \ {p} : hand'[q] = hand[q]
    BY <1>6, ListingHand DEF ApplyRetention, ServePoints, OnlyHand
  <2> QED BY <2>1, <2>2, QuietCoreStep
<1>7. ASSUME NEW p \in Procs, EndRetention(p) PROVE CoreNext
  <2>1. UNCHANGED <<site, call, result, inFlight, reqs, acks, written>>
    BY <1>7 DEF EndRetention, clientSide, client, history
  <2>2. hand'[p].pc \notin ServePoints /\ \A q \in Procs \ {p} : hand'[q] = hand[q]
    BY <1>7, ListingHand DEF EndRetention, ServePoints, OnlyHand
  <2> QED BY <2>1, <2>2, QuietCoreStep
<1>8. ASSUME NEW p \in Procs, NoServer(p) PROVE CoreNext
  <2>1. UNCHANGED <<site, call, result, inFlight, reqs, acks, written>>
    BY <1>8 DEF NoServer, clientSide, client, history
  <2>2. hand'[p].pc \notin ServePoints /\ \A q \in Procs \ {p} : hand'[q] = hand[q]
    BY <1>8, ListingHand DEF NoServer, ServePoints, OnlyHand
  <2> QED BY <2>1, <2>2, QuietCoreStep
<1>9. ASSUME NEW p \in Procs, WriteUploadAttempt(p) PROVE CoreNext
  <2>1. UNCHANGED <<site, call, result, inFlight, reqs, acks, written>>
    BY <1>9 DEF WriteUploadAttempt, clientSide, client, history
  <2>2. hand'[p].pc \notin ServePoints /\ \A q \in Procs \ {p} : hand'[q] = hand[q]
    BY <1>9, AttemptHand DEF WriteUploadAttempt, ServePoints, OnlyHand
  <2> QED BY <2>1, <2>2, QuietCoreStep
<1>10. ASSUME NEW p \in Procs, BuildArchive(p) PROVE CoreNext
  <2>1. UNCHANGED <<site, call, result, inFlight, reqs, acks, written>>
    BY <1>10 DEF BuildArchive, clientSide, client, history
  <2>2. hand'[p].pc \notin ServePoints /\ \A q \in Procs \ {p} : hand'[q] = hand[q]
    BY <1>10, ArchiveHand DEF BuildArchive, ServePoints, OnlyHand
  <2> QED BY <2>1, <2>2, QuietCoreStep
<1>11. ASSUME NEW p \in Procs, UploadPackage(p) PROVE CoreNext
  <2>1. UNCHANGED <<site, call, result, inFlight, reqs, acks, written>>
    BY <1>11 DEF UploadPackage, clientSide, client, history
  <2>2. hand'[p].pc \notin ServePoints /\ \A q \in Procs \ {p} : hand'[q] = hand[q]
    BY <1>11, GotoHand DEF UploadPackage, IsAt, HandPoints, MovePoints, UploadPoints,
        ServePoints, OnlyHand
  <2> QED BY <2>1, <2>2, QuietCoreStep
<1>12. ASSUME NEW p \in Procs, KillHandler(p) PROVE CoreNext
  <2>1. UNCHANGED <<site, call, result, inFlight, reqs, acks, written>>
    BY <1>12 DEF KillHandler, clientSide, client, history
  <2>2. hand'[p].pc \notin ServePoints /\ \A q \in Procs \ {p} : hand'[q] = hand[q]
    BY <1>12, ExitHand DEF KillHandler, Fault, ServePoints, OnlyHand
  <2> QED BY <2>1, <2>2, QuietCoreStep
<1>13. ASSUME NEW p \in Procs, InstallCrashHandler(p) PROVE CoreNext
  <2>1. UNCHANGED <<site, call, result, inFlight, reqs, acks, written>>
    BY <1>13 DEF InstallCrashHandler, clientSide, client, history
  <2>2. hand'[p].pc \notin ServePoints /\ \A q \in Procs \ {p} : hand'[q] = hand[q]
    BY <1>13 DEF InstallCrashHandler, HandShape, HandOK, HandFields, ServePoints, OnlyHand
  <2> QED BY <2>1, <2>2, QuietCoreStep
<1>14. ASSUME NEW p \in Procs, MoveFails(p) PROVE CoreNext
  <2>1. UNCHANGED <<site, call, result, inFlight, reqs, acks, written>>
    BY <1>14 DEF MoveFails, clientSide, client, history
  <2>2. hand'[p].pc \notin ServePoints /\ \A q \in Procs \ {p} : hand'[q] = hand[q]
    BY <1>14, MoveFailsHand DEF ServePoints, OnlyHand
  <2> QED BY <2>1, <2>2, QuietCoreStep
<1> QED BY <1>1, <1>2, <1>3, <1>4, <1>5, <1>6, <1>7, <1>8, <1>9, <1>10, <1>11, <1>12, <1>13,
           <1>14 DEF Next, HandlerStep

-----------------------------------------------------------------------------
(* The spool, package by package.                                          *)

(* A step that leaves package b alone, or exposes it and at most removes   *)
(* copies of it.                                                           *)
Untouched(b) ==
  /\ \A d \in Dirs : spool'[d][b] = spool[d][b] \/ (spool'[d][b] = Absent /\ b \in exposed')
  /\ received'[b] = received[b]
  /\ b \in written' <=> b \in written
  /\ b \in exposed => b \in exposed'
  /\ \A q \in Procs : hand'[q].cur = b =>
       /\ hand[q].cur = b /\ hand'[q].pc = hand[q].pc
       /\ hand'[q].move = hand[q].move /\ hand'[q].archive = hand[q].archive
  /\ Serves(b, {"symbols"})' => Serves(b, {"symbols"})
  /\ Serves(b, {"basics", "symbols"})' => Serves(b, {"basics", "symbols"})
  /\ (site[b].gpu /\ ~Settled(b)' /\ call'[b] \notin {"idle", "gpuFile"}) =>
       ~Settled(b) /\ call[b] \notin {"idle", "gpuFile"}

(* A holder takes its package from a spool directory.                      *)
LEMMA PlaceInDirs ==
  ASSUME NEW h, HandOK(h)
  PROVE  Place(h) \in Dirs /\ "uploading" \in Dirs /\ "uploaded" \in Dirs /\ "pending" \in Dirs
  BY DEF HandOK, Place, Moves, Dirs

(* A package left alone stays in order.                                    *)
LEMMA UntouchedStep ==
  ASSUME HandShape, HandShape', site' = site, NEW b \in Calls, PackageOK(b), Untouched(b)
  PROVE  PackageOK(b)'
<1>0. AllFiles(b)' = AllFiles(b)
  BY DEF AllFiles
<1>1. \A q \in Procs : hand'[q].cur = b =>
        /\ hand[q].cur = b /\ hand'[q].pc = hand[q].pc /\ hand'[q].archive = hand[q].archive
        /\ hand'[q].move = hand[q].move /\ Place(hand[q])' = Place(hand[q]) /\ Place(hand[q]) \in Dirs
  BY PlaceInDirs DEF Untouched, Place, HandShape
<1>2. \A d \in Dirs : Exists(d, b)' => Exists(d, b) /\ spool'[d][b] = spool[d][b]
  BY DEF Untouched, Exists
<1>3. \A d \in Dirs : Exists(d, b)' => spool'[d][b] \subseteq AllFiles(b)'
  BY <1>0, <1>2 DEF PackageOK
<1>4. ReportOK(b)'
  <2>1. Reported(b) => Reported(b)'
    BY DEF Reported, Untouched
  <2>2. Exists("uploaded", b)' => Exists("uploaded", b)
    BY <1>2 DEF Dirs
  <2> QED BY <1>1, <2>1, <2>2 DEF ReportOK, PackageOK
<1>5. ASSUME b \notin exposed'
      PROVE  /\ HolderOK(b)'
             /\ b \in written' => WholeOK(b)'
             /\ b \notin written' => UnfinishedOK(b)'
  <2>0. b \notin exposed /\ \A d \in Dirs : spool'[d][b] = spool[d][b] /\ (Exists(d, b)' <=> Exists(d, b))
    BY <1>5 DEF Untouched, Exists
  <2>1. HolderOK(b)'
    BY <1>0, <1>1, <2>0 DEF HolderOK, PackageOK, Untouched
  <2>2. ASSUME b \in written' PROVE WholeOK(b)'
    <3>1. WholeOK(b)
      BY <2>0, <2>2 DEF PackageOK, Untouched
    <3>2. \A q \in Procs : hand'[q].cur = b => Exists(Place(hand[q]), b)'
      BY <1>1, <2>0, <3>1 DEF WholeOK, Exists
    <3> QED BY <1>0, <2>0, <3>1, <3>2 DEF WholeOK
  <2>3. ASSUME b \notin written' PROVE UnfinishedOK(b)'
    <3>1. UnfinishedOK(b)
      BY <2>0, <2>3 DEF PackageOK, Untouched
    <3>2. "pending" \in Dirs
      BY DEF Dirs
    <3> QED BY <2>0, <3>1, <3>2 DEF UnfinishedOK, Untouched
  <2> QED BY <2>1, <2>2, <2>3
<1> QED BY <1>3, <1>4, <1>5 DEF PackageOK

PackagesOK == \A c \in Calls : PackageOK(c)

(* Client steps that touch no package.                                     *)
LEMMA ClientPackages ==
  ASSUME IInv, ShapeOK', KeepsSettled, UNCHANGED <<site, hand, spool, received, written, exposed>>,
         \A b \in Calls : (site[b].gpu /\ call[b] \in {"idle", "gpuFile"}) =>
                             call'[b] \in {"idle", "gpuFile"} \/ Settled(b)'
  PROVE  PackagesOK'
<1> SUFFICES ASSUME NEW b \in Calls PROVE PackageOK(b)'
  BY DEF PackagesOK
<1>1. Untouched(b)
  BY DEF Untouched, KeepsSettled, Serves, ProcOf
<1> QED BY <1>1, UntouchedStep DEF IInv, ShapeOK

(* A handler's steps that touch no package: it takes none up.              *)
LEMMA HandlerPackages ==
  ASSUME IInv, ShapeOK', KeepsSettled, NEW p \in Procs,
         UNCHANGED <<site, call, received, written>>, exposed \subseteq exposed',
         \A d \in Dirs, b \in Calls :
            spool'[d][b] = spool[d][b] \/ (spool'[d][b] = Absent /\ b \in exposed'),
         OnlyHand(p), hand'[p].cur = Absent, hand'[p].pc \notin {"basics", "symbols"}
  PROVE  PackagesOK'
<1> SUFFICES ASSUME NEW b \in Calls PROVE PackageOK(b)'
  BY DEF PackagesOK
<1>0. b # Absent /\ ProcOf(b) \in Procs /\ ProcOf(b)' = ProcOf(b)
  BY CrashAssumption, ProcOfStep DEF IInv, ShapeOK
<1>1. Untouched(b)
  BY <1>0 DEF Untouched, KeepsSettled, Serves, OnlyHand
<1> QED BY <1>1, UntouchedStep DEF IInv, ShapeOK

(* The client's steps on its transport change no package.                  *)
LEMMA ClientPackageStep ==
  ASSUME IInv, ShapeOK', KeepsSettled, NEW c \in Calls,
         RequestReentered(c) \/ EnterTransport(c) \/ SendRequest(c) \/ ReadAck(c) \/ GiveUpWaiting(c)
  PROVE  PackagesOK'
<1>1. UNCHANGED <<site, hand, spool, received, written, exposed>>
  BY DEF RequestReentered, EnterTransport, SendRequest, ReadAck, GiveUpWaiting, history
<1>2. \A b \in Calls : (site[b].gpu /\ call[b] \in {"idle", "gpuFile"}) => call'[b] = call[b]
  <2>0. call \in [Calls -> {"idle", "gpuFile", "enter", "done", "send", "wait"}]
    BY DEF IInv, ShapeOK, ClientShape
  <2>1. CASE RequestReentered(c)
    BY <2>0, <2>1 DEF RequestReentered, Return
  <2>2. CASE EnterTransport(c)
    BY <2>0, <2>2 DEF EnterTransport, Return
  <2>3. CASE SendRequest(c)
    BY <2>0, <2>3 DEF SendRequest, Leave, Return
  <2>4. CASE ReadAck(c)
    BY <2>0, <2>4 DEF ReadAck, Leave, Return
  <2>5. CASE GiveUpWaiting(c)
    BY <2>0, <2>5 DEF GiveUpWaiting, Leave, Return
  <2> QED BY <2>1, <2>2, <2>3, <2>4, <2>5
<1> QED BY <1>1, <1>2, ClientPackages

(* A process that ends leaves the spool as it is: calls that had not sent  *)
(* yet will not.                                                           *)
LEMMA ProcessEndsPackages ==
  ASSUME IInv, ShapeOK', KeepsSettled, NEW p \in Procs, ProcessEnds(p)
  PROVE  PackagesOK'
<1>1. UNCHANGED <<site, hand, spool, received, written, exposed, reqs>>
  BY DEF ProcessEnds, history
<1>2. ASSUME NEW b \in Calls, call[b] \in {"idle", "gpuFile"}
      PROVE  call'[b] = call[b] \/ Settled(b)'
  <2>1. call'[b] = call[b] \/ call'[b] = "done"
    BY DEF ProcessEnds
  <2>2. ~Queued(b) /\ ~Serves(b, ServePoints)
    BY <1>2, Unsent DEF IInv, Core
  <2> QED BY <1>1, <2>1, <2>2 DEF Settled, Queued, Serves, ProcOf, ServePoints
<1> QED BY <1>1, <1>2, ClientPackages

(* The client's own steps on its package, before it sends the request.     *)
LEMMA GpuPackageStep ==
  ASSUME IInv, ShapeOK', KeepsSettled, NEW c \in Calls,
         RequestGpuCrashDump(c) \/ WriteGpuFile(c)
  PROVE  PackagesOK'
<1> USE DEF IInv
<1> USE DEF ShapeOK
<1>0. /\ UNCHANGED <<site, hand, received, reqs>> /\ UNCHANGED <<written, exposed>>
      /\ call[c] \in {"idle", "gpuFile"} /\ site[c].gpu
  BY DEF RequestGpuCrashDump, CanCall, WriteGpuFile, history, TransportOK
<1>1. ~Queued(c) /\ ~Serves(c, ServePoints) /\ c \notin written
  BY <1>0, Unsent DEF Core
<1>2. /\ \A b \in Calls \ {c} : call'[b] = call[b]
      /\ \/ call'[c] \in {"gpuFile", "done"} \/ (call'[c] = "enter" /\ WriteFile(c, "gpu"))
  BY DEF RequestGpuCrashDump, WriteGpuFile, Return, ClientShape
<1>3. /\ \A d \in Dirs, b \in Calls : d # "pending" \/ b # c => spool'[d][b] = spool[d][b]
      /\ Exists("pending", c)' => spool'["pending"][c] \subseteq AllFiles(c)
      /\ call'[c] = "enter" => Exists("pending", c)' /\ "gpu" \in spool'["pending"][c]
  <2>0. "pending" \in Dirs /\ spool \in SpoolType /\ "gpu" \in AllFiles(c) /\ AllFiles(c) = Files
        /\ spool' \in SpoolType
    BY <1>0 DEF Dirs, SpoolShape, AllFiles, Files
  <2>1. spool'["pending"][c] \in (SUBSET Files) \cup {Absent}
    BY <2>0 DEF SpoolType
  <2>2. CASE EnsurePackage(c) /\ call' = [call EXCEPT ![c] = "gpuFile"]
    BY <2>0, <2>1, <2>2, EnsureEffect DEF Exists, ClientShape
  <2>3. CASE WriteFile(c, "gpu")
    <3>1. \A d \in Dirs, b \in Calls :
             spool'[d][b] = IF d = "pending" /\ b = c THEN spool[d][b] \cup {"gpu"} ELSE spool[d][b]
      BY <2>0, <2>3, WriteEffect
    <3>2. spool'["pending"][c] # Absent
      BY <2>0, <2>3, <3>1, AbsentNotFiles DEF WriteFile, Exists, SpoolType
    <3> QED BY <2>0, <2>1, <3>1, <3>2 DEF Exists
  <2>4. CASE UNCHANGED spool /\ Return(c, "writeFailed")
    BY <2>0, <2>1, <2>4 DEF Exists, Return, ClientShape
  <2> QED BY <2>2, <2>3, <2>4 DEF RequestGpuCrashDump, WriteGpuFile
<1>4. ASSUME NEW b \in Calls \ {c} PROVE PackageOK(b)'
  <2>1. Untouched(b)
    BY <1>0, <1>2, <1>3 DEF Untouched, KeepsSettled, Serves, ProcOf
  <2> QED BY <1>0, <2>1, UntouchedStep
<1>5. PackageOK(c)'
  <2>0. \A d \in Dirs \ {"pending"} : spool'[d][c] = spool[d][c] /\ (Exists(d, c)' <=> Exists(d, c))
    BY <1>3 DEF Exists
  <2>1. \A d \in Dirs : Exists(d, c)' => spool'[d][c] \subseteq AllFiles(c)'
    BY <1>0, <1>3, <2>0 DEF PackageOK, AllFiles
  <2>2. ReportOK(c)'
    <3>1. Exists("uploaded", c)' <=> Exists("uploaded", c)
      BY <2>0 DEF Dirs
    <3> QED BY <1>0, <3>1 DEF PackageOK, ReportOK, Reported
  <2>3. ASSUME c \notin exposed PROVE HolderOK(c)' /\ UnfinishedOK(c)'
    <3>1. HolderOK(c)'
      BY <1>0, <2>3 DEF PackageOK, HolderOK, Place, AllFiles
    <3>2. ~Serves(c, {"basics", "symbols"})' /\ ~Serves(c, {"symbols"})'
      BY <1>0, <1>1 DEF Serves, ServePoints, ProcOf
    <3>3. call'[c] = "done" => Settled(c)'
      BY <1>0, <1>1, <3>2 DEF Settled, Queued, ProcOf
    <3> QED BY <1>1, <1>2, <1>3, <2>0, <2>3, <3>1, <3>2, <3>3 DEF PackageOK, UnfinishedOK
  <2> QED BY <1>0, <1>1, <2>1, <2>2, <2>3 DEF PackageOK
<1> QED BY <1>4, <1>5 DEF PackagesOK

(* The handler begins with a request: its package is unfinished.           *)
LEMMA ReadRequestPackages ==
  ASSUME IInv, ShapeOK', KeepsSettled, NEW p \in Procs, ReadRequest(p)
  PROVE  PackagesOK'
<1> USE DEF IInv
<1> USE DEF ShapeOK
<1>0. /\ UNCHANGED <<site, call, received, written, exposed>> /\ hand[p].pc = "read"
      /\ \A b \in Calls : ProcOf(b) \in Procs /\ ProcOf(b)' = ProcOf(b)
  <2>1. UNCHANGED <<site, call, received, written, exposed>> /\ hand[p].pc = "read"
    BY DEF ReadRequest, client, history, IsAt
  <2> QED BY <2>1, ProcOfStep
<1>1. CASE reqs[p] = <<>>
  <2>1. ExitHandler(p) /\ spool' = spool
    BY <1>1 DEF ReadRequest
  <2> QED BY <1>0, <2>1, ExitHand, HandlerPackages
<1>2. CASE hand' = [hand EXCEPT ![p].pc = "ackFailed", ![p].req = Head(reqs[p])] /\ spool' = spool
  <2>1. /\ OnlyHand(p) /\ hand'[p].pc = "ackFailed" /\ hand'[p].cur = Absent
    BY <1>0, <1>2 DEF HandShape, HandOK, HandFields, OnlyHand, MovePoints, UploadPoints
  <2> QED BY <1>0, <1>2, <2>1, HandlerPackages
<1>3. CASE /\ reqs[p] # <<>> /\ hand' = [hand EXCEPT ![p].pc = "basics", ![p].req = Head(reqs[p])]
           /\ EnsurePackage(Head(reqs[p]))
  <2>1. PICK c \in Calls : c = Head(reqs[p]) /\ Queued(c) /\ ProcOf(c) = p
    <3>1. reqs[p] \in Seq(Calls)
      BY DEF PipeShape
    <3>2. Head(reqs[p]) \in Calls /\ 1 \in DOMAIN reqs[p] /\ Head(reqs[p]) = reqs[p][1]
      BY <1>3, <3>1
    <3>3. ProcOf(Head(reqs[p])) = p
      BY <3>2 DEF RequestOK
    <3> QED BY <3>2, <3>3 DEF Queued
  <2>2. /\ hand' = [hand EXCEPT ![p].pc = "basics", ![p].req = c]
        /\ EnsurePackage(c)
    BY <1>3, <2>1
  <2>3. /\ OnlyHand(p) /\ hand'[p].pc = "basics" /\ hand'[p].req = c /\ hand'[p].cur = Absent
        /\ hand[p].cur = Absent
    BY <1>0, <2>2 DEF HandShape, HandOK, HandFields, OnlyHand, MovePoints, UploadPoints
  <2>4. \A d \in Dirs, b \in Calls :
          spool'[d][b] = IF d = "pending" /\ b = c /\ spool[d][b] = Absent THEN {} ELSE spool[d][b]
    BY <2>2, EnsureEffect DEF SpoolShape
  <2>5. ASSUME NEW b \in Calls \ {c} PROVE PackageOK(b)'
    <3>1. b # Absent
      BY CrashAssumption
    <3>2. Untouched(b)
      BY <1>0, <2>1, <2>3, <2>4, <3>1 DEF Untouched, KeepsSettled, Serves, OnlyHand
    <3> QED BY <1>0, <3>2, UntouchedStep
  <2>6. c \notin written /\ ~Settled(c)
    BY <2>1 DEF OutcomeOK, Settled
  <2>7. PackageOK(c)'
    <3>1. c # Absent /\ "pending" \in Dirs /\ {} # Absent
      BY CrashAssumption DEF Dirs
    <3>2. \A d \in Dirs \ {"pending"} : spool'[d][c] = spool[d][c] /\ (Exists(d, c)' <=> Exists(d, c))
      BY <2>4 DEF Exists
    <3>3. /\ Exists("pending", c)' /\ (Exists("pending", c) => spool'["pending"][c] = spool["pending"][c])
          /\ ~Exists("pending", c) => spool'["pending"][c] = {}
      BY <2>4, <3>1 DEF Exists
    <3>4. AllFiles(c)' = AllFiles(c)
      BY <1>0 DEF AllFiles
    <3>5. \A d \in Dirs : Exists(d, c)' => spool'[d][c] \subseteq AllFiles(c)'
      BY <3>2, <3>3, <3>4 DEF PackageOK
    <3>6. \A q \in Procs : hand'[q].cur = c => hand'[q] = hand[q]
      BY <2>3, <3>1 DEF OnlyHand
    <3>7. ReportOK(c)'
      <4>1. Exists("uploaded", c)' <=> Exists("uploaded", c)
        BY <3>2 DEF Dirs
      <4> QED BY <1>0, <3>6, <4>1 DEF PackageOK, ReportOK, Reported
    <3>8. ASSUME c \notin exposed PROVE HolderOK(c)' /\ UnfinishedOK(c)'
      <4>1. HolderOK(c)'
        BY <1>0, <3>4, <3>6, <3>8 DEF PackageOK, HolderOK, Place
      <4>2. UnfinishedOK(c)
        BY <2>6, <3>8 DEF PackageOK
      <4>3. ~Serves(c, {"symbols"})'
        BY <1>0, <2>1, <2>3 DEF Serves
      <4> QED BY <1>0, <2>6, <3>2, <3>3, <4>1, <4>2, <4>3 DEF UnfinishedOK
    <3> QED BY <1>0, <2>6, <3>5, <3>7, <3>8 DEF PackageOK
  <2> QED BY <2>5, <2>7 DEF PackagesOK
<1> QED BY <1>1, <1>2, <1>3 DEF ReadRequest

(* The handler writes the files of its request's package into pending,     *)
(* where a package that is not exposed still lies.                         *)
LEMMA WriteCrashPackagePackages ==
  ASSUME IInv, ShapeOK', KeepsSettled, NEW p \in Procs, WriteCrashPackage(p)
  PROVE  PackagesOK'
<1> USE DEF IInv
<1> USE DEF ShapeOK
<1>0. /\ UNCHANGED <<site, call, received, exposed>> /\ hand[p].pc \in {"basics", "symbols"}
      /\ \A b \in Calls : ProcOf(b) \in Procs /\ ProcOf(b)' = ProcOf(b)
  <2>1. UNCHANGED <<site, call, received, exposed>> /\ hand[p].pc \in {"basics", "symbols"}
    BY DEF WriteCrashPackage, clientSide, client
  <2> QED BY <2>1, ProcOfStep
<1>1. PICK c \in Calls : /\ c = hand[p].req /\ ProcOf(c) = p /\ call[c] \in {"wait", "done"}
                         /\ Serves(c, {"basics", "symbols"}) /\ ~Settled(c) /\ c \notin written
  <2>1. /\ hand[p].req \in Calls /\ ProcOf(hand[p].req) = p /\ call[hand[p].req] \in {"wait", "done"}
    BY <1>0 DEF RequestOK, ServePoints
  <2>2. Serves(hand[p].req, {"basics", "symbols"})
    BY <1>0, <2>1 DEF Serves
  <2> QED BY <2>1, <2>2 DEF OutcomeOK, Settled
<1>2. \/ /\ WriteFile(c, hand[p].pc)
         /\ Goto(p, IF hand[p].pc = "basics" THEN "symbols" ELSE "ackWritten")
         /\ written' = IF hand[p].pc = "symbols" THEN written \cup {c} ELSE written
      \/ UNCHANGED <<spool, written>> /\ Goto(p, "ackFailed")
  BY <1>1 DEF WriteCrashPackage
<1>3. /\ OnlyHand(p) /\ hand'[p].req = c /\ hand'[p].cur = Absent
      /\ hand'[p].pc \in {"symbols", "ackWritten", "ackFailed"}
      /\ hand'[p].pc = "symbols" => hand[p].pc = "basics" /\ WriteFile(c, "basics") /\ written' = written
      /\ hand'[p].pc = "ackWritten" =>
           hand[p].pc = "symbols" /\ WriteFile(c, "symbols") /\ written' = written \cup {c}
      /\ hand'[p].pc = "ackFailed" => spool' = spool /\ written' = written
  <2>1. hand[p].cur = Absent
    BY <1>0 DEF HandShape, HandOK, MovePoints, UploadPoints
  <2>2. ASSUME NEW pc \in {"symbols", "ackWritten", "ackFailed"}, Goto(p, pc)
        PROVE  OnlyHand(p) /\ hand'[p].req = c /\ hand'[p].cur = Absent /\ hand'[p].pc = pc
    BY <1>0, <1>1, <2>1, <2>2, GotoHand DEF HandPoints, ServePoints, MovePoints, UploadPoints
  <2>3. CASE hand[p].pc = "basics"
    BY <1>2, <2>2, <2>3
  <2>4. CASE hand[p].pc = "symbols"
    BY <1>2, <2>2, <2>4
  <2> QED BY <1>0, <2>3, <2>4
<1>4. ASSUME hand'[p].pc # "ackFailed"
      PROVE  /\ Exists("pending", c) /\ Exists("pending", c)'
             /\ \A d \in Dirs, b \in Calls :
                  spool'[d][b] = IF d = "pending" /\ b = c THEN spool[d][b] \cup {hand[p].pc} ELSE spool[d][b]
  <2>1. WriteFile(c, hand[p].pc) /\ hand[p].pc \in Files
    BY <1>0, <1>3, <1>4 DEF Files
  <2>2. /\ spool' \in SpoolType /\ Exists("pending", c)
        /\ \A d \in Dirs, b \in Calls :
             spool'[d][b] = IF d = "pending" /\ b = c THEN spool[d][b] \cup {hand[p].pc} ELSE spool[d][b]
    BY <2>1, WriteEffect DEF SpoolShape
  <2>3. spool'["pending"][c] \in SUBSET Files
    BY <2>1, <2>2 DEF Dirs, SpoolShape, SpoolType, Exists
  <2> QED BY <2>2, <2>3, AbsentNotFiles DEF Exists
<1>5. ASSUME NEW b \in Calls \ {c} PROVE PackageOK(b)'
  <2>1. b # Absent
    BY CrashAssumption
  <2>2. \A d \in Dirs : spool'[d][b] = spool[d][b]
    BY <1>3, <1>4
  <2>3. Untouched(b)
    BY <1>0, <1>1, <1>3, <2>1, <2>2 DEF Untouched, KeepsSettled, Serves, OnlyHand
  <2> QED BY <1>0, <2>3, UntouchedStep
<1>6. PackageOK(c)'
  <2>1. c # Absent /\ "pending" \in Dirs /\ AllFiles(c)' = AllFiles(c)
        /\ hand[p].pc \in AllFiles(c)
    BY <1>0, CrashAssumption DEF Dirs, AllFiles, Files
  <2>2. \A d \in Dirs \ {"pending"} : spool'[d][c] = spool[d][c] /\ (Exists(d, c)' <=> Exists(d, c))
    BY <1>3, <1>4 DEF Exists
  <2>3. /\ Exists("pending", c)' => Exists("pending", c) /\ spool'["pending"][c] \subseteq AllFiles(c)
        /\ Exists("pending", c) => Exists("pending", c)' /\ spool["pending"][c] \subseteq spool'["pending"][c]
    <3>0. Exists("pending", c) => spool["pending"][c] \subseteq AllFiles(c)
      BY <2>1 DEF PackageOK
    <3>1. CASE hand'[p].pc = "ackFailed"
      BY <1>3, <3>0, <3>1 DEF Exists
    <3>2. CASE hand'[p].pc # "ackFailed"
      <4>1. spool'["pending"][c] = spool["pending"][c] \cup {hand[p].pc}
        BY <1>4, <2>1, <3>2
      <4> QED BY <1>4, <2>1, <3>0, <3>2, <4>1
    <3> QED BY <3>1, <3>2
  <2>4. \A d \in Dirs : Exists(d, c)' => spool'[d][c] \subseteq AllFiles(c)'
    BY <2>1, <2>2, <2>3 DEF PackageOK
  <2>5. \A q \in Procs : hand'[q].cur = c => hand'[q] = hand[q]
    BY <1>3, <2>1 DEF OnlyHand
  <2>6. ReportOK(c)'
    <3>1. Exists("uploaded", c)' <=> Exists("uploaded", c)
      BY <2>2 DEF Dirs
    <3> QED BY <1>0, <2>5, <3>1 DEF PackageOK, ReportOK, Reported
  <2>7. ASSUME c \notin exposed
        PROVE  /\ HolderOK(c)' /\ (c \in written' => WholeOK(c)') /\ (c \notin written' => UnfinishedOK(c)')
    <3>1. HolderOK(c) /\ UnfinishedOK(c)
      BY <1>1, <2>7 DEF PackageOK
    <3>2. HolderOK(c)'
      BY <1>3, <2>1, <2>5, <3>1 DEF HolderOK, Place
    <3>3. Exists("pending", c) /\ (site[c].gpu => "gpu" \in spool["pending"][c])
          /\ (hand[p].pc = "symbols" => "basics" \in spool["pending"][c])
      BY <1>1, <3>1 DEF UnfinishedOK, Serves
    <3>4. ASSUME c \in written' PROVE WholeOK(c)'
      <4>1. hand'[p].pc = "ackWritten" /\ hand[p].pc = "symbols"
        BY <1>1, <1>3, <3>4
      <4>2. spool'["pending"][c] = AllFiles(c)
        BY <1>4, <2>1, <2>3, <3>3, <4>1 DEF AllFiles, Files
      <4>3. \A d \in Dirs : Exists(d, c)' => spool'[d][c] = AllFiles(c)'
        BY <2>1, <2>2, <3>1, <4>2 DEF UnfinishedOK
      <4>4. \A q \in Procs : hand'[q].cur = c => Place(hand[q])' = "pending"
        <5>1. ASSUME NEW q \in Procs, hand'[q].cur = c PROVE Place(hand[q])' = "pending"
          <6>1. hand'[q] = hand[q] /\ HandOK(hand[q])
            BY <2>5, <5>1 DEF HandShape
          <6>2. Place(hand[q]) # "uploading"
            BY <1>1, <3>1, <5>1, <6>1 DEF HolderOK
          <6> QED BY <6>1, <6>2 DEF HandOK, Place, Moves
        <5> QED BY <5>1
      <4>5. \A d, e \in Dirs : Exists(d, c)' /\ Exists(e, c)' => d = e
        BY <2>2, <3>1 DEF UnfinishedOK
      <4> QED BY <2>1, <2>3, <3>3, <4>3, <4>4, <4>5 DEF WholeOK, Exists
    <3>5. ASSUME c \notin written' PROVE UnfinishedOK(c)'
      <4>1. Serves(c, {"symbols"})' => "basics" \in spool'["pending"][c]
        BY <1>0, <1>1, <1>3, <1>4, <2>1 DEF Serves
      <4>2. site[c].gpu => "gpu" \in spool'["pending"][c]
        BY <2>3, <3>3
      <4> QED BY <1>0, <2>2, <2>3, <3>1, <3>3, <4>1, <4>2 DEF UnfinishedOK
    <3> QED BY <3>2, <3>4, <3>5
  <2> QED BY <1>0, <2>4, <2>6, <2>7 DEF PackageOK
<1> QED BY <1>5, <1>6 DEF PackagesOK

(* A step of the holder p of package c leaves the other packages alone.    *)
LEMMA HolderFrame ==
  ASSUME IInv, ShapeOK', KeepsSettled, NEW p \in Procs, NEW c \in Calls,
         UNCHANGED <<site, call, written>>, OnlyHand(p),
         hand'[p].cur \in {c, Absent}, hand'[p].pc \notin {"basics", "symbols"},
         \A b \in Calls \ {c} : /\ b \in exposed <=> b \in exposed'
                                /\ received'[b] = received[b]
                                /\ \A d \in Dirs : spool'[d][b] = spool[d][b]
  PROVE  \A b \in Calls \ {c} : PackageOK(b)'
<1> SUFFICES ASSUME NEW b \in Calls \ {c} PROVE PackageOK(b)'
  OBVIOUS
<1>0. b # Absent /\ ProcOf(b) \in Procs /\ ProcOf(b)' = ProcOf(b)
  BY CrashAssumption, ProcOfStep DEF IInv, ShapeOK
<1>1. Untouched(b)
  BY <1>0 DEF Untouched, KeepsSettled, Serves, OnlyHand
<1> QED BY <1>1, UntouchedStep DEF IInv, ShapeOK

(* What the steps of a holder say of the package it holds: the file part   *)
(* and the progress of its request are not theirs to change.               *)
LEMMA HolderFacts ==
  ASSUME IInv, KeepsSettled, NEW p \in Procs, NEW c \in Calls,
         UNCHANGED <<site, call, written>>, OnlyHand(p),
         hand'[p].pc \notin {"basics", "symbols"}
  PROVE  /\ AllFiles(c)' = AllFiles(c)
         /\ Serves(c, {"symbols"})' => Serves(c, {"symbols"})
         /\ Serves(c, {"basics", "symbols"})' => Serves(c, {"basics", "symbols"})
         /\ (~Settled(c))' => ~Settled(c)
         /\ \A q \in Procs \ {p} : hand'[q] = hand[q]
<1>0. ProcOf(c) \in Procs /\ ProcOf(c)' = ProcOf(c)
  BY ProcOfStep DEF IInv, ShapeOK
<1> QED BY <1>0 DEF AllFiles, Serves, OnlyHand, KeepsSettled

(* Clearing the destination never takes the copy that is about to be       *)
(* moved.                                                                  *)
LEMMA RemovePackages ==
  ASSUME IInv, ShapeOK', KeepsSettled, NEW p \in Procs, RemoveDestination(p)
  PROVE  PackagesOK'
<1> USE DEF IInv
<1> USE DEF ShapeOK
<1>0. UNCHANGED <<site, call, received, written, exposed>> /\ hand[p].pc = "moveRemove" /\ HandOK(hand[p])
  BY DEF RemoveDestination, clientSide, client, history, IsAt, HandShape
<1>1. PICK c \in Calls : c = hand[p].cur
  BY <1>0 DEF HandOK, MovePoints
<1> DEFINE from == hand[p].move.from  to == hand[p].move.to
<1>2. from \in Dirs /\ to \in Dirs /\ from # to /\ c # Absent /\ "pending" \in Dirs
      /\ Place(hand[p]) = from /\ (from = "uploading" \/ (from = "pending" /\ to = "uploading"))
  BY <1>0, CrashAssumption DEF HandOK, MovePoints, Moves, Dirs, Place
<1>3. \A d \in Dirs, b \in Calls : spool'[d][b] = IF d = to /\ b = c THEN Absent ELSE spool[d][b]
  BY <1>0, <1>1, RemoveEffect DEF SpoolShape
<1>4. /\ OnlyHand(p) /\ hand'[p].pc = "moveRename" /\ hand'[p].cur = c
      /\ hand'[p].move = hand[p].move
  BY <1>0, <1>1, GotoHand DEF RemoveDestination, HandPoints, MovePoints, UploadPoints
<1>5. \A b \in Calls \ {c} : PackageOK(b)'
  BY <1>0, <1>3, <1>4, HolderFrame
<1>6. /\ AllFiles(c)' = AllFiles(c)
      /\ Serves(c, {"symbols"})' => Serves(c, {"symbols"})
      /\ Serves(c, {"basics", "symbols"})' => Serves(c, {"basics", "symbols"})
      /\ (~Settled(c))' => ~Settled(c)
      /\ \A q \in Procs \ {p} : hand'[q] = hand[q]
  BY <1>0, <1>4, HolderFacts
<1>7. PackageOK(c)'
  <2>0. \A d \in Dirs : /\ Exists(d, c)' => d # to /\ Exists(d, c) /\ spool'[d][c] = spool[d][c]
                        /\ d # to => spool'[d][c] = spool[d][c] /\ (Exists(d, c)' <=> Exists(d, c))
    BY <1>3 DEF Exists
  <2>1. Place(hand[p])' = from /\ hand'[p].move.to = to
    BY <1>4 DEF Place, MovePoints
  <2>2. ReportOK(c)'
    <3>1. Exists("uploaded", c)' => Exists("uploaded", c)
      BY <2>0 DEF Dirs
    <3> QED BY <1>0, <1>1, <1>4, <1>6, <2>1, <3>1 DEF PackageOK, ReportOK, Reported, MovePoints
  <2>3. ASSUME c \notin exposed
        PROVE  /\ HolderOK(c)' /\ (c \in written => WholeOK(c)') /\ (c \notin written => UnfinishedOK(c)')
    <3>1. HolderOK(c) /\ \A q \in Procs : hand[q].cur = c => q = p
      BY <1>1, <2>3 DEF PackageOK, HolderOK
    <3>2. \A q \in Procs : hand'[q].cur = c => q = p
      BY <1>6, <3>1
    <3>3. HolderOK(c)'
      BY <1>0, <1>1, <1>2, <1>4, <2>1, <3>1, <3>2 DEF HolderOK
    <3>4. ASSUME c \in written PROVE WholeOK(c)'
      <4>1. WholeOK(c)
        BY <2>3, <3>4 DEF PackageOK
      <4>2. spool'[from][c] # Absent
        BY <1>1, <1>2, <2>0, <4>1 DEF WholeOK, Exists
      <4>3. \E d \in Dirs : Exists(d, c)'
        BY <1>2, <4>2 DEF Exists
      <4>4. \A q \in Procs : hand'[q].cur = c => Exists(Place(hand[q]), c)'
        BY <2>1, <3>2, <4>2 DEF Exists
      <4> QED BY <1>6, <2>0, <4>1, <4>3, <4>4 DEF WholeOK
    <3>5. ASSUME c \notin written PROVE UnfinishedOK(c)'
      <4>1. UnfinishedOK(c) /\ to = "uploading"
        BY <1>1, <1>2, <2>3, <3>1, <3>5 DEF PackageOK, HolderOK
      <4> QED BY <1>0, <1>2, <1>6, <2>0, <4>1 DEF UnfinishedOK
    <3> QED BY <3>3, <3>4, <3>5
  <2> QED BY <1>0, <1>6, <2>0, <2>2, <2>3 DEF PackageOK
<1> QED BY <1>5, <1>7 DEF PackagesOK

(* A move that fails leaves the copy that was to be moved; a removal that  *)
(* fails halfway cuts only a package in two places, which is exposed.      *)
LEMMA MoveFailsPackages ==
  ASSUME IInv, ShapeOK', KeepsSettled, NEW p \in Procs, MoveFails(p)
  PROVE  PackagesOK'
<1> USE DEF IInv
<1> USE DEF ShapeOK
<1>0. UNCHANGED <<site, call, received, written, exposed>> /\ hand[p].pc \in MovePoints /\ HandOK(hand[p])
  BY MoveFailsHand DEF MoveFails, clientSide, client, history, HandShape
<1>1. OnlyHand(p) /\ hand'[p].cur = Absent /\ hand'[p].pc \notin {"basics", "symbols"}
  BY MoveFailsHand
<1>2. CASE spool' = spool
  BY <1>0, <1>1, <1>2, HandlerPackages
<1>3. CASE spool' # spool
  <2>1. PICK c \in Calls : c = hand[p].cur
    BY <1>0 DEF HandOK
  <2> DEFINE from == hand[p].move.from  to == hand[p].move.to
  <2>2. from \in Dirs /\ to \in Dirs /\ from # to /\ c # Absent /\ "pending" \in Dirs
        /\ Place(hand[p]) = from /\ (from = "uploading" \/ (from = "pending" /\ to = "uploading"))
    BY <1>0, CrashAssumption DEF HandOK, MovePoints, Moves, Dirs, Place
  <2>3. PICK rest \in SUBSET spool[to][c] :
          /\ Exists(to, c)
          /\ \A d \in Dirs, b \in Calls : spool'[d][b] = IF d = to /\ b = c THEN rest ELSE spool[d][b]
    <3>1. /\ Exists(hand[p].move.to, hand[p].cur)
          /\ \E rest \in SUBSET spool[hand[p].move.to][hand[p].cur] :
               \A d \in Dirs, b \in Calls :
                  spool'[d][b] = IF d = hand[p].move.to /\ b = hand[p].cur THEN rest ELSE spool[d][b]
      BY <1>0, <1>3, MoveFailsEffect DEF SpoolShape
    <3> QED BY <2>1, <3>1
  <2>4. \A b \in Calls \ {c} : PackageOK(b)'
    BY <1>0, <1>1, <2>1, <2>3, HolderFrame
  <2>5. AllFiles(c)' = AllFiles(c) /\ \A q \in Procs \ {p} : hand'[q] = hand[q]
    BY <1>0, <1>1, HolderFacts
  <2>6. c \in exposed
    <3> SUFFICES ASSUME c \notin exposed PROVE FALSE
      OBVIOUS
    <3>1. CASE c \in written
      <4>1. WholeOK(c)
        BY <3>1 DEF PackageOK
      <4> QED BY <2>1, <2>2, <2>3, <4>1 DEF WholeOK
    <3>2. CASE c \notin written
      <4>1. UnfinishedOK(c) /\ HolderOK(c)
        BY <3>2 DEF PackageOK
      <4>2. to = "uploading"
        BY <2>1, <2>2, <3>2, <4>1 DEF HolderOK
      <4> QED BY <2>3, <4>1, <4>2 DEF UnfinishedOK, Dirs
    <3> QED BY <3>1, <3>2
  <2>7. \A d \in Dirs : Exists(d, c)' => Exists(d, c) /\ spool'[d][c] \subseteq spool[d][c]
    BY <2>3 DEF Exists
  <2>8. \A d \in Dirs : Exists(d, c)' => spool'[d][c] \subseteq AllFiles(c)'
    BY <2>5, <2>7 DEF PackageOK
  <2>9. ReportOK(c)'
    <3>1. Exists("uploaded", c)' => Exists("uploaded", c)
      BY <2>7 DEF Dirs
    <3> QED BY <1>0, <1>1, <2>2, <2>5, <3>1 DEF PackageOK, ReportOK, Reported
  <2>10. PackageOK(c)'
    BY <1>0, <2>6, <2>8, <2>9 DEF PackageOK
  <2> QED BY <2>4, <2>10 DEF PackagesOK
<1> QED BY <1>2, <1>3

(* The rename keeps the copy; one taken from pending before it was         *)
(* complete counts as exposed.                                             *)
LEMMA RenamePackages ==
  ASSUME IInv, ShapeOK', KeepsSettled, NEW p \in Procs, RenameSource(p)
  PROVE  PackagesOK'
<1> USE DEF IInv
<1> USE DEF ShapeOK
<1>0. UNCHANGED <<site, call, received, written>> /\ hand[p].pc = "moveRename" /\ HandOK(hand[p])
  BY DEF RenameSource, clientSide, client, IsAt, HandShape
<1>1. PICK c \in Calls : c = hand[p].cur
  BY <1>0 DEF HandOK, MovePoints
<1> DEFINE from == hand[p].move.from  to == hand[p].move.to
<1>2. from \in Dirs /\ to \in Dirs /\ from # to /\ c # Absent /\ "pending" \in Dirs
      /\ Place(hand[p]) = from /\ from # "uploaded"
      /\ (from = "uploading" \/ (from = "pending" /\ to = "uploading"))
  BY <1>0, CrashAssumption DEF HandOK, MovePoints, Moves, Dirs, Place
<1>3. /\ ~Exists(from, c) => spool' = spool
      /\ Exists(from, c) => \A d \in Dirs, b \in Calls :
            spool'[d][b] = IF b # c THEN spool[d][b]
                           ELSE IF d = to THEN spool[from][c] ELSE IF d = from THEN Absent ELSE spool[d][b]
  BY <1>0, <1>1, RenameEffect DEF SpoolShape
<1>4. /\ OnlyHand(p)
      /\ \/ hand'[p].pc = "mark" /\ hand'[p].cur = c /\ Exists(from, c) /\ to = "uploading"
         \/ hand'[p].pc = "next" /\ hand'[p].cur = Absent
  BY <1>1, RenameHand
<1>5. exposed' = IF from = "pending" /\ Exists(from, c) /\ c \notin written THEN exposed \cup {c} ELSE exposed
  BY <1>1 DEF RenameSource
<1>6. \A b \in Calls \ {c} : PackageOK(b)'
  BY <1>0, <1>3, <1>4, <1>5, HolderFrame
<1>7. /\ AllFiles(c)' = AllFiles(c)
      /\ Serves(c, {"symbols"})' => Serves(c, {"symbols"})
      /\ Serves(c, {"basics", "symbols"})' => Serves(c, {"basics", "symbols"})
      /\ (~Settled(c))' => ~Settled(c)
      /\ \A q \in Procs \ {p} : hand'[q] = hand[q]
  BY <1>0, <1>4, HolderFacts
<1>8. PackageOK(c)'
  <2>0. \A d \in Dirs : Exists(d, c)' =>
          \/ Exists(d, c) /\ spool'[d][c] = spool[d][c]
          \/ d = to /\ Exists(from, c) /\ spool'[d][c] = spool[from][c]
    BY <1>3 DEF Exists
  <2>1. \A d \in Dirs : Exists(d, c)' => spool'[d][c] \subseteq AllFiles(c)
    BY <1>2, <2>0 DEF PackageOK
  <2>2. ReportOK(c)'
    <3>1. Reported(c) => Reported(c)'
      BY <1>0, <1>5 DEF Reported
    <3>2. Exists("uploaded", c)' => Reported(c)
      <4>1. to = "uploaded" => Reported(c)
        BY <1>0, <1>1 DEF PackageOK, ReportOK, MovePoints
      <4> QED BY <2>0, <4>1 DEF PackageOK, ReportOK, Dirs
    <3> QED BY <1>2, <1>4, <1>7, <3>1, <3>2 DEF PackageOK, ReportOK, MovePoints
  <2>3. ASSUME c \notin exposed'
        PROVE  /\ HolderOK(c)' /\ (c \in written => WholeOK(c)') /\ (c \notin written => UnfinishedOK(c)')
    <3>0. c \notin exposed /\ (Exists(from, c) => c \in written)
      <4>1. c \notin exposed /\ (from = "pending" /\ Exists(from, c) => c \in written)
        BY <1>5, <2>3
      <4>2. from = "uploading" => c \in written
        BY <1>1, <1>2, <4>1 DEF PackageOK, HolderOK
      <4> QED BY <1>2, <4>1, <4>2
    <3>1. HolderOK(c) /\ \A q \in Procs : hand[q].cur = c => q = p
      BY <1>1, <3>0 DEF PackageOK, HolderOK
    <3>2. \A q \in Procs : hand'[q].cur = c =>
             q = p /\ hand'[p].pc = "mark" /\ Exists(from, c) /\ to = "uploading" /\ Place(hand[q])' = "uploading"
      BY <1>2, <1>4, <1>7, <3>1 DEF Place, MovePoints
    <3>3. HolderOK(c)'
      BY <1>0, <3>0, <3>2 DEF HolderOK
    <3>4. ASSUME c \in written PROVE WholeOK(c)'
      <4>1. WholeOK(c) /\ Exists(from, c)
        BY <1>1, <1>2, <3>0, <3>4 DEF PackageOK, WholeOK
      <4>2. spool'[to][c] # Absent
        BY <1>2, <1>3, <4>1 DEF Exists
      <4>3. \A d \in Dirs : Exists(d, c)' => spool'[d][c] = AllFiles(c)
        BY <1>2, <2>0, <4>1 DEF WholeOK
      <4>4. \E d \in Dirs : Exists(d, c)'
        BY <1>2, <4>2 DEF Exists
      <4>5. \A q \in Procs : hand'[q].cur = c => Exists(Place(hand[q]), c)'
        BY <3>2, <4>2 DEF Exists
      <4>6. \A d \in Dirs : Exists(d, c)' => d = to
        <5>1. \A d \in Dirs : Exists(d, c) => d = from
          BY <1>2, <4>1 DEF WholeOK
        <5>2. \A d \in Dirs : d = from => spool'[d][c] = Absent
          BY <1>2, <1>3, <4>1
        <5>3. \A d \in Dirs : Exists(d, c)' => d # from
          BY <5>2 DEF Exists
        <5> QED BY <2>0, <5>1, <5>3
      <4> QED BY <1>7, <4>3, <4>4, <4>5, <4>6 DEF WholeOK
    <3>5. ASSUME c \notin written PROVE UnfinishedOK(c)'
      <4>1. UnfinishedOK(c) /\ spool' = spool
        BY <1>3, <3>0, <3>5 DEF PackageOK
      <4> QED BY <1>0, <1>7, <4>1 DEF UnfinishedOK, Exists
    <3> QED BY <3>3, <3>4, <3>5
  <2> QED BY <1>0, <1>7, <2>1, <2>2, <2>3 DEF PackageOK
<1> QED BY <1>6, <1>8 DEF PackagesOK

(* A handler takes up an entry of its listing.  When another live handler  *)
(* has it at hand the package counts as exposed; otherwise it has just     *)
(* this holder, which finds it where it was listed.                        *)
LEMMA VisitPackages ==
  ASSUME IInv, ShapeOK', KeepsSettled, NEW p \in Procs, VisitEntry(p)
  PROVE  PackagesOK'
<1> USE DEF IInv
<1> USE DEF ShapeOK
<1>0. UNCHANGED <<site, call, received, written, spool>>
  BY DEF VisitEntry, clientSide, client
<1>1. CASE hand'[p].pc = "next" /\ hand'[p].cur = Absent /\ exposed' = exposed
  <2>1. OnlyHand(p)
    BY VisitHand
  <2> QED BY <1>0, <1>1, <2>1, HandlerPackages
<1>2. ASSUME NEW c \in Calls, hand'[p].pc = "moveRemove", hand'[p].cur = c,
             \/ hand'[p].move.from = "uploading" /\ hand'[p].move.to = "pending"
             \/ hand'[p].move.from = "pending" /\ hand'[p].move.to = "uploading",
             Exists(hand'[p].move.from, c),
             exposed' = IF Others(p, c) THEN exposed \cup {c} ELSE exposed
      PROVE  PackagesOK'
  <2>0. OnlyHand(p) /\ hand[p].cur = Absent /\ c # Absent
    BY VisitHand, CrashAssumption
  <2>1. \A b \in Calls \ {c} : PackageOK(b)'
    BY <1>0, <1>2, <2>0, HolderFrame
  <2>2. /\ AllFiles(c)' = AllFiles(c)
        /\ Serves(c, {"symbols"})' => Serves(c, {"symbols"})
        /\ Serves(c, {"basics", "symbols"})' => Serves(c, {"basics", "symbols"})
        /\ (~Settled(c))' => ~Settled(c)
        /\ \A q \in Procs \ {p} : hand'[q] = hand[q]
    BY <1>0, <1>2, <2>0, HolderFacts
  <2>3. PICK from \in Dirs : from = hand'[p].move.from /\ spool[from][c] # Absent /\ from \in {"uploading", "pending"}
    BY <1>2 DEF Dirs, Exists
  <2>4. Place(hand[p])' = from /\ hand'[p].move.to # "uploaded"
    BY <1>2, <2>3 DEF Place, MovePoints
  <2>5. \A d \in Dirs : spool'[d][c] = spool[d][c] /\ (Exists(d, c)' <=> Exists(d, c))
    BY <1>0 DEF Exists
  <2>6. PackageOK(c)'
    <3>1. ReportOK(c)'
      <4>1. Reported(c) => Reported(c)'
        BY <1>0, <1>2 DEF Reported
      <4>2. Exists("uploaded", c)' <=> Exists("uploaded", c)
        BY <2>5 DEF Dirs
      <4> QED BY <1>2, <2>2, <2>4, <4>1, <4>2 DEF PackageOK, ReportOK
    <3>2. ASSUME c \notin exposed'
          PROVE  /\ HolderOK(c)' /\ (c \in written => WholeOK(c)') /\ (c \notin written => UnfinishedOK(c)')
      <4>1. ~Others(p, c) /\ c \notin exposed
        BY <1>2, <3>2
      <4>2. \A q \in Procs : hand'[q].cur = c => q = p
        <5>1. ASSUME NEW q \in Procs, q # p, hand[q].cur = c PROVE FALSE
          <6>1. Running(q)
            BY <2>0, <5>1 DEF HandShape, HandOK, Running, MovePoints, UploadPoints
          <6> QED BY <4>1, <5>1, <6>1 DEF Others
        <5> QED BY <2>2, <5>1
      <4>3. ASSUME c \notin written PROVE UnfinishedOK(c)' /\ from = "pending"
        <5>1. UnfinishedOK(c)
          BY <4>1, <4>3 DEF PackageOK
        <5>2. from = "pending"
          BY <2>3, <5>1 DEF UnfinishedOK, Exists
        <5> QED BY <1>0, <2>2, <2>3, <2>5, <5>1, <5>2 DEF UnfinishedOK
      <4>4. HolderOK(c)'
        BY <1>0, <1>2, <2>4, <4>2, <4>3 DEF HolderOK
      <4>5. ASSUME c \in written PROVE WholeOK(c)'
        <5>1. WholeOK(c)
          BY <4>1, <4>5 DEF PackageOK
        <5>2. \A q \in Procs : hand'[q].cur = c => Exists(Place(hand[q]), c)'
          BY <1>0, <2>3, <2>4, <4>2 DEF Exists
        <5> QED BY <2>2, <2>5, <5>1, <5>2 DEF WholeOK
      <4> QED BY <4>3, <4>4, <4>5
    <3>3. \A d \in Dirs : Exists(d, c)' => spool'[d][c] \subseteq AllFiles(c)'
      BY <2>2, <2>5 DEF PackageOK
    <3> QED BY <1>0, <3>1, <3>2, <3>3 DEF PackageOK
  <2> QED BY <2>1, <2>6 DEF PackagesOK
<1> QED BY <1>1, <1>2, VisitHand

(* The steps of an upload change no file.  What they must respect: the     *)
(* package stays in uploading, the archive of one not exposed is all of    *)
(* it, and it goes on towards uploaded only when the server has it.        *)
LEMMA UploadingPackages ==
  ASSUME IInv, ShapeOK', KeepsSettled, NEW p \in Procs, NEW c \in Calls,
         hand[p].cur = c, hand[p].pc \in UploadPoints,
         UNCHANGED <<site, call, written, exposed, spool>>, OnlyHand(p),
         hand'[p].pc \notin {"basics", "symbols"},
         \A b \in Calls \ {c} : received'[b] = received[b],
         Reported(c) => Reported(c)',
         \/ hand'[p].cur = Absent
         \/ /\ hand'[p].cur = c /\ Place(hand[p])' = "uploading"
            /\ (hand'[p].pc = "post" /\ c \notin exposed) => hand'[p].archive = AllFiles(c)
            /\ \/ hand'[p].pc = "markUploaded"
               \/ hand'[p].pc \in MovePoints /\ hand'[p].move.to = "uploaded"
               => Reported(c)'
  PROVE  PackagesOK'
<1> USE DEF IInv
<1> USE DEF ShapeOK
<1>1. \A b \in Calls \ {c} : PackageOK(b)'
  BY HolderFrame
<1>2. /\ AllFiles(c)' = AllFiles(c)
      /\ Serves(c, {"symbols"})' => Serves(c, {"symbols"})
      /\ Serves(c, {"basics", "symbols"})' => Serves(c, {"basics", "symbols"})
      /\ (~Settled(c))' => ~Settled(c)
      /\ \A q \in Procs \ {p} : hand'[q] = hand[q]
  BY HolderFacts
<1>3. /\ \A d \in Dirs : spool'[d][c] = spool[d][c] /\ (Exists(d, c)' <=> Exists(d, c))
      /\ Place(hand[p]) = "uploading" /\ c # Absent
  BY CrashAssumption DEF Exists, Place, MovePoints, UploadPoints
<1>4. ReportOK(c)'
  <2>1. Exists("uploaded", c)' <=> Exists("uploaded", c)
    BY <1>3 DEF Dirs
  <2> QED BY <1>2, <1>3, <2>1 DEF PackageOK, ReportOK
<1>5. ASSUME c \notin exposed
      PROVE  /\ HolderOK(c)' /\ (c \in written => WholeOK(c)') /\ (c \notin written => UnfinishedOK(c)')
  <2>1. c \in written /\ \A q \in Procs : hand[q].cur = c => q = p
    BY <1>3, <1>5 DEF PackageOK, HolderOK
  <2>2. \A q \in Procs : hand'[q].cur = c => q = p /\ Place(hand[q])' = "uploading"
    BY <1>2, <1>3, <2>1
  <2>3. HolderOK(c)'
    BY <1>2, <1>3, <1>5, <2>1, <2>2 DEF HolderOK
  <2>4. WholeOK(c)'
    <3>1. WholeOK(c) /\ Exists("uploading", c)
      BY <1>3, <1>5, <2>1 DEF PackageOK, WholeOK
    <3>2. \A q \in Procs : hand'[q].cur = c => Exists(Place(hand[q]), c)'
      BY <2>2, <3>1 DEF Exists
    <3> QED BY <1>2, <1>3, <3>1, <3>2 DEF WholeOK
  <2> QED BY <2>1, <2>3, <2>4
<1>6. \A d \in Dirs : Exists(d, c)' => spool'[d][c] \subseteq AllFiles(c)'
  BY <1>2, <1>3 DEF PackageOK
<1> QED BY <1>1, <1>4, <1>5, <1>6 DEF PackageOK, PackagesOK

(* The attempt file: only a package the server has goes to uploaded.       *)
LEMMA AttemptPackages ==
  ASSUME IInv, ShapeOK', KeepsSettled, NEW p \in Procs, WriteUploadAttempt(p)
  PROVE  PackagesOK'
<1> USE DEF IInv
<1> USE DEF ShapeOK
<1>0. UNCHANGED <<site, call, written, exposed, spool, received>>
  BY DEF WriteUploadAttempt, clientSide, client, history
<1>1. OnlyHand(p) /\ hand[p].pc \in UploadPoints /\ hand'[p].pc \notin {"basics", "symbols", "post", "markUploaded"}
  BY AttemptHand DEF UploadPoints
<1>2. PICK c \in Calls : c = hand[p].cur
  BY <1>1 DEF HandShape, HandOK
<1>3. Reported(c) => Reported(c)'
  BY <1>0 DEF Reported
<1>4. CASE hand'[p].cur = Absent
  BY <1>0, <1>1, <1>2, <1>3, <1>4, UploadingPackages
<1>5. CASE hand'[p].cur # Absent
  <2>1. hand'[p].cur = c /\ Place(hand[p])' = "uploading"
    BY <1>2, <1>5, AttemptHand DEF Place, MovePoints
  <2>2. (hand'[p].pc \in MovePoints /\ hand'[p].move.to = "uploaded") => Reported(c)
    BY <1>2, <1>5, AttemptHand DEF PackageOK, ReportOK, MovePoints
  <2> QED BY <1>0, <1>1, <1>2, <1>3, <2>1, <2>2, UploadingPackages
<1> QED BY <1>4, <1>5

(* The archive is the package as it lies in uploading.                     *)
LEMMA ArchivePackages ==
  ASSUME IInv, ShapeOK', KeepsSettled, NEW p \in Procs, BuildArchive(p)
  PROVE  PackagesOK'
<1> USE DEF IInv
<1> USE DEF ShapeOK
<1>0. UNCHANGED <<site, call, written, exposed, spool, received>>
  BY DEF BuildArchive, clientSide, client, history
<1>1. /\ OnlyHand(p) /\ hand[p].pc \in UploadPoints /\ hand[p].pc \notin MovePoints
      /\ hand'[p].pc \notin {"basics", "symbols", "markUploaded"}
  BY ArchiveHand DEF UploadPoints, MovePoints
<1>2. PICK c \in Calls : c = hand[p].cur /\ hand'[p].cur = c
  BY <1>1, ArchiveHand DEF HandShape, HandOK
<1>3. Reported(c) => Reported(c)'
  BY <1>0 DEF Reported
<1>4. Place(hand[p])' = "uploading" /\ ~(hand'[p].pc \in MovePoints /\ hand'[p].move.to = "uploaded")
  BY ArchiveHand DEF Place, MovePoints
<1>5. ASSUME hand'[p].pc = "post", c \notin exposed PROVE hand'[p].archive = AllFiles(c)
  <2>1. hand'[p].archive = spool["uploading"][c] /\ Exists("uploading", c)
    BY <1>2, <1>5, ArchiveHand
  <2>2. Place(hand[p]) = "uploading"
    BY <1>1 DEF Place
  <2>3. WholeOK(c)
    BY <1>2, <1>5, <2>2 DEF PackageOK, HolderOK
  <2> QED BY <2>1, <2>3 DEF WholeOK, Dirs
<1> QED BY <1>0, <1>1, <1>2, <1>3, <1>4, <1>5, UploadingPackages

(* The server's answer: a success is the only way to markUploaded, and     *)
(* then the server has what was sent.                                      *)
LEMMA AnswerPackages ==
  ASSUME IInv, ShapeOK', KeepsSettled, NEW p \in Procs, UploadPackage(p)
  PROVE  PackagesOK'
<1> USE DEF IInv
<1> USE DEF ShapeOK
<1>0. UNCHANGED <<site, call, written, exposed, spool>> /\ hand[p].pc = "post"
  BY DEF UploadPackage, IsAt, clientSide, client, history
<1>1. PICK c \in Calls : c = hand[p].cur
  BY <1>0 DEF HandShape, HandOK, UploadPoints
<1>2. PICK got \in BOOLEAN, ok \in BOOLEAN :
        /\ ok => got
        /\ received' = IF got THEN Receive(c, hand[p].archive) ELSE received
        /\ Goto(p, IF ok THEN "markUploaded" ELSE "markRetry")
  BY <1>1 DEF UploadPackage
<1>3. /\ OnlyHand(p) /\ hand'[p].cur = c
      /\ hand'[p].pc = IF ok THEN "markUploaded" ELSE "markRetry"
  <2> DEFINE pc == IF ok THEN "markUploaded" ELSE "markRetry"
  <2>1. /\ pc \in HandPoints /\ Goto(p, pc)
        /\ pc \in MovePoints <=> hand[p].pc \in MovePoints
        /\ pc \in UploadPoints <=> hand[p].pc \in UploadPoints
    BY <1>0, <1>2 DEF HandPoints, MovePoints, UploadPoints
  <2> HIDE DEF pc
  <2>2. OnlyHand(p) /\ hand'[p].cur = c /\ hand'[p].pc = pc
    BY <1>1, <2>1, GotoHand
  <2> QED BY <2>2 DEF pc
<1>4. /\ \A b \in Calls \ {c} : received'[b] = received[b]
      /\ got => received'[c] # "none" /\ (hand[p].archive = AllFiles(c) => received'[c] = "whole")
      /\ ~got => received'[c] = received[c]
      /\ received[c] = "whole" => received'[c] = "whole"
      /\ received[c] # "none" => received'[c] # "none"
  BY <1>2 DEF Receive, SpoolShape
<1>5. Reported(c) => Reported(c)'
  BY <1>0, <1>4 DEF Reported
<1>6. ok => Reported(c)'
  <2>1. c \notin exposed => hand[p].archive = AllFiles(c)
    BY <1>0, <1>1 DEF PackageOK, HolderOK
  <2> QED BY <1>0, <1>2, <1>4, <2>1 DEF Reported
<1>7. hand'[p].pc \notin MovePoints /\ hand'[p].pc \notin {"basics", "symbols", "post"} /\ hand[p].pc \in UploadPoints
  BY <1>0, <1>3 DEF MovePoints, UploadPoints
<1>8. Place(hand[p])' = "uploading"
  BY <1>7 DEF Place
<1> QED BY <1>0, <1>1, <1>3, <1>4, <1>5, <1>6, <1>7, <1>8, UploadingPackages

(* The steps of a handler that takes up no package: listing, retention,    *)
(* acknowledging, starting and dying.                                      *)
LEMMA QuietPackages ==
  ASSUME IInv, ShapeOK', KeepsSettled, NEW p \in Procs,
         \/ SendAck(p) \/ ApplyRetention(p) \/ EndRetention(p) \/ NoServer(p)
         \/ KillHandler(p) \/ InstallCrashHandler(p)
  PROVE  PackagesOK'
<1> USE DEF IInv
<1> USE DEF ShapeOK
<1>1. UNCHANGED <<site, call, received, written>>
  BY DEF SendAck, ApplyRetention, EndRetention, NoServer, KillHandler, InstallCrashHandler,
         clientSide, client, history
<1>2. OnlyHand(p) /\ hand'[p].cur = Absent /\ hand'[p].pc \notin {"basics", "symbols"}
  <2>1. CASE SendAck(p)
    BY <2>1, SendAckHand
  <2>2. CASE ApplyRetention(p) \/ EndRetention(p) \/ NoServer(p)
    BY <2>2, ListingHand
  <2>3. CASE KillHandler(p)
    BY <2>3, ExitHand DEF KillHandler
  <2>4. CASE InstallCrashHandler(p)
    BY <2>4 DEF InstallCrashHandler, HandShape, HandOK, HandFields, OnlyHand, MovePoints,
        UploadPoints
  <2> QED BY <2>1, <2>2, <2>3, <2>4
<1>3. CASE ApplyRetention(p)
  BY <1>1, <1>2, <1>3, RetentionEffect, HandlerPackages
<1>4. CASE UNCHANGED <<spool, exposed>>
  BY <1>1, <1>2, <1>4, HandlerPackages
<1> QED BY <1>3, <1>4 DEF SendAck, EndRetention, NoServer, KillHandler, InstallCrashHandler,
    history

(* Every step keeps every package in order.                                *)
LEMMA PackagesStep ==
  ASSUME IInv, ShapeOK', KeepsSettled, Next
  PROVE  PackagesOK'
<1>1. ASSUME NEW c \in Calls, ClientStep(c) PROVE PackagesOK'
  BY <1>1, ClientPackageStep, GpuPackageStep DEF ClientStep
<1>2. ASSUME NEW p \in Procs, HandlerStep(p) PROVE PackagesOK'
  BY <1>2, ReadRequestPackages, WriteCrashPackagePackages, RemovePackages, RenamePackages,
     MoveFailsPackages, VisitPackages, AttemptPackages, ArchivePackages, AnswerPackages, QuietPackages DEF HandlerStep
<1>3. ASSUME NEW p \in Procs, InstallCrashHandler(p) \/ ProcessEnds(p) \/ KillHandler(p)
      PROVE  PackagesOK'
  BY <1>3, ProcessEndsPackages, QuietPackages
<1> QED BY <1>1, <1>2, <1>3 DEF Next

-----------------------------------------------------------------------------
(* The invariant holds when the system starts: nothing runs, the pipes and *)
(* the spool are empty.                                                    *)
LEMMA InitIInv ==
  ASSUME Init
  PROVE  IInv
<1>1. \A p \in Procs : /\ hand[p] = IdleHand /\ hand[p].pc = "off" /\ hand[p].cur = Absent
                       /\ DOMAIN reqs[p] = {} /\ DOMAIN acks[p] = {}
  BY DEF Init, IdleHand
<1>2. ShapeOK
  <2>1. ClientShape
    BY DEF Init, ClientShape
  <2>2. PipeShape
    BY EmptySeq DEF Init, PipeShape
  <2>3. HandShape
    BY DEF Init, HandShape, HandOK, HandFields, HandPoints, ServePoints, MovePoints,
        UploadPoints,
           IdleHand, NoMove
  <2>4. SpoolShape
    BY DEF Init, SpoolShape, SpoolType
  <2> QED BY <2>1, <2>2, <2>3, <2>4 DEF ShapeOK
<1>3. TransportOK
  BY DEF Init, TransportOK, Transport
<1>4. RequestOK
  BY <1>1 DEF RequestOK, ServePoints
<1>5. OutcomeOK
  BY <1>1 DEF Init, OutcomeOK
<1>6. ASSUME NEW c \in Calls PROVE PackageOK(c)
  <2>1. /\ c # Absent /\ ProcOf(c) \in Procs /\ call[c] = "idle" /\ c \notin written
        /\ \A d \in Dirs : ~Exists(d, c)
    BY CrashAssumption, SiteOK DEF Init, Exists
  <2>2. "uploaded" \in Dirs
    BY DEF Dirs
  <2>3. ReportOK(c) /\ HolderOK(c)
    BY <1>1, <2>1, <2>2 DEF ReportOK, HolderOK
  <2>4. UnfinishedOK(c)
    BY <1>1, <2>1 DEF UnfinishedOK, Serves
  <2> QED BY <2>1, <2>3, <2>4 DEF PackageOK
<1> QED BY <1>2, <1>3, <1>4, <1>5, <1>6 DEF IInv

(* Every step keeps the invariant.                                         *)
LEMMA NextIInv ==
  ASSUME IInv, [Next]_vars
  PROVE  IInv'
<1>1. CASE Next
  <2>1. ShapeOK'
    BY <1>1, ShapeStep DEF IInv
  <2>2. CoreNext
    BY <1>1, CoreStep DEF IInv, Core
  <2>3. PackagesOK'
    BY <1>1, <2>1, <2>2, PackagesStep DEF CoreNext
  <2> QED BY <2>1, <2>2, <2>3 DEF IInv, CoreNext, PackagesOK
<1>2. CASE UNCHANGED vars
  <2>1. ShapeOK'
    BY <1>2 DEF IInv, ShapeOK, ClientShape, PipeShape, HandShape, SpoolShape, HandOK, vars,
        client, history
  <2>2. TransportOK' /\ RequestOK' /\ OutcomeOK'
    BY <1>2 DEF IInv, TransportOK, RequestOK, OutcomeOK, Settled, Queued, Serves, ProcOf,
        vars, client, history
  <2>3. ASSUME NEW b \in Calls PROVE PackageOK(b)'
    <3>1. Untouched(b)
      BY <1>2 DEF Untouched, Settled, Queued, Serves, ProcOf, vars, client, history
    <3> QED BY <1>2, <2>1, <3>1, UntouchedStep DEF IInv, ShapeOK, vars, client
  <2> QED BY <2>1, <2>2, <2>3 DEF IInv
<1> QED BY <1>1, <1>2

(* The invariant of the whole pipeline.                                    *)
LEMMA PipelineInvariant == Spec => []IInv
<1>1. Init => IInv
  BY InitIInv
<1>2. IInv /\ [Next]_vars => IInv'
  BY NextIInv
<1> QED BY <1>1, <1>2, PTL DEF Spec

(* Every variable keeps the shape the code gives it: transportInFlight is  *)
(* set exactly while one call of the process is in its transport, and a    *)
(* package never holds a file that is not one of its own.                  *)
THEOREM CrashTypeCorrect == Spec => []CrashTypeOK
<1>1. IInv => CrashTypeOK
  <2> SUFFICES ASSUME IInv PROVE CrashTypeOK
    OBVIOUS
  <2> USE DEF IInv
  <2> USE DEF ShapeOK
  <2>1. call \in [Calls -> {"idle", "gpuFile", "enter", "done"} \cup Transport]
    BY DEF ClientShape, Transport
  <2>2. \A p \in Procs : hand[p].cur # Absent => hand[p].pc \notin {"off", "exited", "read"}
    BY DEF HandShape, HandOK, MovePoints, UploadPoints
  <2>3. \A d \in Dirs, c \in Calls : Exists(d, c) => spool[d][c] \subseteq AllFiles(c)
    BY DEF PackageOK
  <2> QED BY <2>1, <2>2, <2>3 DEF CrashTypeOK, ClientShape, TransportOK
<1> QED BY <1>1, PipelineInvariant, PTL

(* The status RequestCrashDump returns is about the caller's own package,  *)
(* however many earlier requests timed out and however late their          *)
(* acknowledgements arrive: "written" only for a package the handler       *)
(* completed, "writeFailed" only for one it did not complete.              *)
THEOREM AcknowledgementsHonest == Spec => []AckHonest
<1>1. IInv => AckHonest
  BY DEF IInv, OutcomeOK, AckHonest
<1> QED BY <1>1, PipelineInvariant, PTL

(* A completed package is whole in some spool directory until retention    *)
(* removes it, through every move, failed upload, killed handler and       *)
(* recovery, for any number of handlers on one spool.                      *)
THEOREM PackagesKept == Spec => []NothingLost
<1>1. IInv => NothingLost
  <2>1. IInv => \A c \in written \ exposed : c \in Calls /\ WholeOK(c)
    BY DEF IInv, ShapeOK, SpoolShape, PackageOK
  <2> QED BY <2>1 DEF WholeOK, NothingLost
<1> QED BY <1>1, PipelineInvariant, PTL

(* What lies in uploaded was accepted by the server, with every file of    *)
(* the package unless it was exposed.                                      *)
THEOREM UploadsReceived == Spec => []UploadedReceived
<1>1. IInv => UploadedReceived
  BY DEF IInv, PackageOK, ReportOK, Reported, UploadedReceived
<1> QED BY <1>1, PipelineInvariant, PTL
=============================================================================
