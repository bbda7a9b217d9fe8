---------------------------- MODULE CrashPipeline ----------------------------
(***************************************************************************)
(* The crash pipeline of core/crash, on its Linux transport: the calls of  *)
(* RequestCrashDump in several processes, one handler process beside each, *)
(* the request socket and the acknowledgement pipe between them, and the   *)
(* spool directory that all the instances of an installation share.        *)
(*                                                                         *)
(* A call stands for one crash id: SnapshotCrashState numbers the calls of *)
(* a process.  Assumed: no two calls get the same id, though the process   *)
(* id in it may come again while the spool still has a package of that     *)
(* name.  A package is a directory named after the id, in one or more of   *)
(* the four spool directories; its value is the set of files it holds.     *)
(* The handler's file operations are separate steps, because two handlers  *)
(* take no lock on the spool.  Either process may die between any two.     *)
(***************************************************************************)
EXTENDS Naturals, Sequences, FiniteSets, SequencesExt

CONSTANTS Procs,      \* application processes, each with its own handler process
          Calls,      \* calls of RequestCrashDump, each one crash id
          Sites,      \* the workloads: process, thread and GPU report of each call
          NameOrder,  \* the calls in the order of their package names
          Limit,      \* CrashSpoolRetentionConfig: entries kept per directory, 0 = all
          MaxFaults,  \* bound: failing file operations and killed handlers
          Absent      \* no package

Dirs == {"pending", "uploading", "uploaded", "failed"}

ASSUME CrashAssumption ==
    /\ \A s \in Sites : DOMAIN s = Calls /\ \A c \in Calls : s[c].proc \in Procs /\ s[c].gpu \in BOOLEAN
    /\ \A c \in Calls : \E i \in DOMAIN NameOrder : NameOrder[i] = c
    /\ Limit \in [Dirs -> Nat]
    /\ MaxFaults \in Nat
    /\ Absent \notin Calls /\ \A s \in SUBSET {"gpu", "basics", "symbols"} : Absent # s

VARIABLES site,       \* process and thread each call is made in, and its GPU report
          proc,       \* "new", "up", "down": the application process
          call,       \* where each call is
          result,     \* CrashDumpResult::status of a call that has returned to a live
                      \*   process; "noAnswer" for RequestFailed, Queued and TimedOut
          inFlight,   \* g_State.transportInFlight of each process
          reqs,       \* the request socket of each process
          acks,       \* the acknowledgement pipe of each process
          hand,       \* the handler process: its step and locals
          spool,      \* [directory -> [package -> files or Absent]]
          received,   \* what the log server has of each package: none, part or whole
          faults,     \* faults so far
          written,    \* history: packages WriteCrashPackage completed
          exposed     \* history: packages removed by retention, taken from
                      \*   pending before they were complete, or at hand in two
                      \*   live handlers at once

client == <<site, proc, call, result, inFlight>>
history == <<written, exposed>>
vars == <<client, reqs, acks, hand, spool, received, faults, history>>

-----------------------------------------------------------------------------
(* The files of a package.  The GPU report is written by the client, the   *)
(* rest by the handler; "basics" stands for the files of                   *)
(* WriteCrashPackageBasics and "symbols" for the last one.                 *)

Files == {"gpu", "basics", "symbols"}

AllFiles(c) == IF site[c].gpu THEN Files ELSE Files \ {"gpu"}

Exists(d, c) == spool[d][c] # Absent

(* EnsureDirectories keeps what the directory already holds. *)
EnsurePackage(c) ==
    spool' = [spool EXCEPT !["pending"][c] = IF @ = Absent THEN {} ELSE @]

(* A file can be written only while the directory is where the writer      *)
(* believes it to be.  Assumed: a write that fails is reported; in fact    *)
(* WriteTextFile looks at the stream before it is closed and does not see  *)
(* a failure of the last flush.                                            *)
WriteFile(c, f) ==
    /\ Exists("pending", c)
    /\ spool' = [spool EXCEPT !["pending"][c] = @ \cup {f}]

Fault == faults < MaxFaults /\ faults' = faults + 1

NoFault == faults' = faults

-----------------------------------------------------------------------------
(* RequestCrashDump and the transport, in the application process.         *)

Transport == {"send", "wait"}

ProcOf(c) == site[c].proc

ThreadOf(c) == site[c].thread

Return(c, status) ==
    /\ call' = [call EXCEPT ![c] = "done"]
    /\ result' = [result EXCEPT ![c] = status]

(* InstallCrashHandler: the spool directories and the handler process.  A  *)
(* process that never calls leaves the spool alone and is left out.        *)
InstallCrashHandler(p) ==
    /\ proc[p] = "new" /\ \E c \in Calls : ProcOf(c) = p
    /\ proc' = [proc EXCEPT ![p] = "up"]
    /\ hand' = [hand EXCEPT ![p].pc = "read"]
    /\ UNCHANGED <<site, call, result, inFlight, reqs, acks, spool, received, faults,
                   history>>

(* A call is made in a running process; a thread is in one call at a time. *)
CanCall(c) ==
    /\ proc[ProcOf(c)] = "up" /\ call[c] = "idle"
    /\ \A b \in Calls : ThreadOf(b) = ThreadOf(c) => call[b] \in {"idle", "done"}

(* A fault inside the transport: the signal handler's call on the same     *)
(* thread finds s_inTransport set.                                         *)
RequestReentered(c) ==
    /\ proc[ProcOf(c)] = "up" /\ call[c] = "idle" /\ ~site[c].gpu
    /\ \E b \in Calls : ThreadOf(b) = ThreadOf(c) /\ call[b] \in Transport
    /\ Return(c, "noAnswer")
    /\ UNCHANGED <<site, proc, inFlight, reqs, acks, hand, spool, received, faults,
                   history>>

(* RequestCrashDump of a call with a GPU report: the client writes the     *)
(* file into the package before it asks the handler.                       *)
RequestGpuCrashDump(c) ==
    /\ CanCall(c) /\ site[c].gpu
    /\ \/ /\ EnsurePackage(c) /\ NoFault
          /\ call' = [call EXCEPT ![c] = "gpuFile"]
          /\ UNCHANGED result
       \/ Fault /\ Return(c, "writeFailed") /\ UNCHANGED spool
    /\ UNCHANGED <<site, proc, inFlight, reqs, acks, hand, received, history>>

WriteGpuFile(c) ==
    /\ call[c] = "gpuFile"
    /\ \/ /\ WriteFile(c, "gpu") /\ NoFault
          /\ call' = [call EXCEPT ![c] = "enter"]
          /\ UNCHANGED result
       \/ /\ IF Exists("pending", c) THEN Fault ELSE NoFault
          /\ Return(c, "writeFailed")
          /\ UNCHANGED spool
    /\ UNCHANGED <<site, proc, inFlight, reqs, acks, hand, received, history>>

EnterTransportMutant(c) ==    \* mutant: no check of transportInFlight
    LET p == ProcOf(c) IN
    /\ call[c] = "enter" \/ (CanCall(c) /\ ~site[c].gpu)
    /\ inFlight' = [inFlight EXCEPT ![p] = TRUE]
    /\ acks' = [acks EXCEPT ![p] = <<>>]
    /\ call' = [call EXCEPT ![c] = "send"]
    /\ UNCHANGED <<site, proc, result, reqs, hand, spool, received, faults, history>>

(* The compare-exchange on transportInFlight, the first shared step of any *)
(* other call; the loser reports "queued".  The winner drains the          *)
(* acknowledgements that are there; more may come before it has sent.      *)
EnterTransport(c) ==
    LET p == ProcOf(c) IN
    /\ call[c] = "enter" \/ (CanCall(c) /\ ~site[c].gpu)
    /\ IF inFlight[p]
         THEN Return(c, "noAnswer") /\ UNCHANGED <<inFlight, acks>>
         ELSE /\ inFlight' = [inFlight EXCEPT ![p] = TRUE]
              /\ acks' = [acks EXCEPT ![p] = <<>>]
              /\ call' = [call EXCEPT ![c] = "send"]
              /\ UNCHANGED result
    /\ UNCHANGED <<site, proc, reqs, hand, spool, received, faults, history>>

Running(p) == hand[p].pc \notin {"off", "exited"}

Leave(c, status) ==
    /\ Return(c, status)
    /\ inFlight' = [inFlight EXCEPT ![ProcOf(c)] = FALSE]

(* Sending to a handler that has gone fails. *)
SendRequest(c) ==
    LET p == ProcOf(c) IN
    /\ call[c] = "send"
    /\ IF Running(p)
         THEN /\ reqs' = [reqs EXCEPT ![p] = Append(@, c)]
              /\ call' = [call EXCEPT ![c] = "wait"]
              /\ UNCHANGED <<result, inFlight>>
         ELSE Leave(c, "noAnswer") /\ UNCHANGED reqs
    /\ UNCHANGED <<site, proc, acks, hand, spool, received, faults, history>>

CrashAckMatchesRequestMutant(ack, c) == TRUE    \* mutant: the id is not compared

CrashAckMatchesRequest(ack, c) == ack.id = c

(* An acknowledgement of another request is skipped: the wait goes on. *)
ReadAck(c) ==
    LET p == ProcOf(c)  ack == Head(acks[p]) IN
    /\ call[c] = "wait" /\ acks[p] # <<>>
    /\ acks' = [acks EXCEPT ![p] = Tail(@)]
    /\ IF CrashAckMatchesRequest(ack, c)
         THEN Leave(c, IF ack.packageWritten THEN "written" ELSE "writeFailed")
         ELSE UNCHANGED <<call, result, inFlight>>
    /\ UNCHANGED <<site, proc, reqs, hand, spool, received, faults, history>>

(* The deadline passes, or the pipe hangs up. *)
GiveUpWaiting(c) ==
    /\ call[c] = "wait"
    /\ Leave(c, "noAnswer")
    /\ UNCHANGED <<site, proc, reqs, acks, hand, spool, received, faults, history>>

(* The application ends, by its crash or otherwise, at any point.  Both    *)
(* pipes are closed at its side; the handler still reads what was sent.    *)
(* A flush uses neither pipe, so an end during a flush is the same as one  *)
(* right after it, with the calls not yet returned: only that is a step.   *)
ProcessEnds(p) ==
    /\ proc[p] = "up" /\ hand[p].phase = "none"
    /\ proc' = [proc EXCEPT ![p] = "down"]
    /\ call' = [c \in Calls |-> IF ProcOf(c) = p THEN "done" ELSE call[c]]
    /\ result' = [c \in Calls |-> IF ProcOf(c) = p THEN "none" ELSE result[c]]
    /\ acks' = [acks EXCEPT ![p] = <<>>]
    /\ inFlight' = [inFlight EXCEPT ![p] = FALSE]
    /\ UNCHANGED <<site, reqs, hand, spool, received, faults, history>>

-----------------------------------------------------------------------------
(* The handler process.  pc is its step, req the request it serves, todo   *)
(* what a directory listing has left, cur the package at hand, from and to *)
(* the directories of a move, left the directories retention has left,     *)
(* archive the bytes built.                                                *)

NoMove == [from |-> "pending", to |-> "pending"]

IdleHand == [pc |-> "off", phase |-> "none", req |-> Absent, todo |-> {}, cur |-> Absent,
             move |-> NoMove, left |-> <<>>, archive |-> {}]

IsAt(p, pc) == hand[p].pc = pc

Goto(p, pc) == hand' = [hand EXCEPT ![p].pc = pc]

ExitHandler(p) == hand' = [hand EXCEPT ![p] = [IdleHand EXCEPT !.pc = "exited"]]

clientSide == <<client, reqs, acks>>

(* ReadAllFileDescriptor on the request socket: a request, or end of file  *)
(* when the application has gone.  WriteCrashPackageBasics starts with the *)
(* directory.                                                              *)
ReadRequest(p) ==
    /\ IsAt(p, "read")
    /\ IF reqs[p] # <<>>
         THEN /\ reqs' = [reqs EXCEPT ![p] = Tail(@)]
              /\ \/ /\ EnsurePackage(Head(reqs[p])) /\ NoFault
                    /\ hand' = [hand EXCEPT ![p].pc = "basics", ![p].req = Head(reqs[p])]
                 \/ /\ Fault /\ UNCHANGED spool
                    /\ hand' = [hand EXCEPT ![p].pc = "ackFailed", ![p].req = Head(reqs[p])]
         ELSE /\ proc[p] = "down"
              /\ ExitHandler(p)
              /\ UNCHANGED <<reqs, spool, faults>>
    /\ UNCHANGED <<client, acks, received, history>>

(* The files one after another; the first that cannot be written ends it. *)
WriteCrashPackage(p) ==
    LET f == hand[p].pc  c == hand[p].req IN
    /\ f \in {"basics", "symbols"}
    /\ \/ /\ WriteFile(c, f) /\ NoFault
          /\ Goto(p, IF f = "basics" THEN "symbols" ELSE "ackWritten")
          /\ written' = IF f = "symbols" THEN written \cup {c} ELSE written
       \/ /\ IF Exists("pending", c) THEN Fault ELSE NoFault
          /\ Goto(p, "ackFailed")
          /\ UNCHANGED <<spool, written>>
    /\ UNCHANGED <<clientSide, received, exposed>>

RetentionOrder == <<"pending", "uploaded", "failed", "uploading">>

(* A limit of 0 keeps everything. *)
LimitedDirs == SelectSeq(RetentionOrder, LAMBDA d : Limit[d] > 0)

(* The acknowledgement; when the application has gone the write fails and  *)
(* the handler ends without flushing.  A flush starts by listing uploading.*)
SendAck(p) ==
    LET ok == IsAt(p, "ackWritten") IN
    /\ hand[p].pc \in {"ackWritten", "ackFailed"}
    /\ IF proc[p] = "down"
         THEN ExitHandler(p) /\ UNCHANGED acks
         ELSE /\ acks' = [acks EXCEPT ![p] = Append(@, [id |-> hand[p].req, packageWritten |-> ok])]
              /\ hand' = [hand EXCEPT
                   ![p] = IF ok THEN [@ EXCEPT !.pc = "next", !.phase = "recover",
                                               !.left = LimitedDirs,
                                               !.todo = {c \in Calls : Exists("uploading", c)}]
                                ELSE [IdleHand EXCEPT !.pc = "read"]]
    /\ UNCHANGED <<client, reqs, spool, received, faults, history>>

-----------------------------------------------------------------------------
(* MovePathToDirectory: what is at the destination goes, then the source   *)
(* is renamed.  Two system calls, and nothing between two handlers.        *)

BeginMove(h, c, from, to) ==
    [h EXCEPT !.pc = "moveRemove", !.cur = c, !.move = [from |-> from, to |-> to]]

Others(p, c) == \E q \in Procs \ {p} : Running(q) /\ hand[q].cur = c

RemoveDestination(p) ==
    LET c == hand[p].cur  to == hand[p].move.to IN
    /\ IsAt(p, "moveRemove")
    /\ spool' = [spool EXCEPT ![to][c] = Absent]
    /\ Goto(p, "moveRename")
    /\ UNCHANGED <<clientSide, received, faults, history>>

(* After the move: a package just moved to uploading goes on, every other  *)
(* one is finished.                                                        *)
AfterMove(h, moved) ==
    IF moved /\ h.phase = "upload" /\ h.move.to = "uploading"
      THEN [h EXCEPT !.pc = "mark", !.move = NoMove]
      ELSE [h EXCEPT !.pc = "next", !.move = NoMove, !.cur = Absent]

\* mutant: the destination is removed after the rename
RenameSourceMutant(p) ==
    LET c == hand[p].cur  from == hand[p].move.from  to == hand[p].move.to IN
    /\ IsAt(p, "moveRename")
    /\ spool' = [spool EXCEPT ![from][c] = Absent, ![to][c] = Absent]
    /\ hand' = [hand EXCEPT ![p] = AfterMove(@, TRUE)]
    /\ UNCHANGED <<clientSide, received, faults, history>>

RenameSource(p) ==
    LET c == hand[p].cur  from == hand[p].move.from  to == hand[p].move.to IN
    /\ IsAt(p, "moveRename")
    /\ spool' = IF Exists(from, c)
                  THEN [spool EXCEPT ![from][c] = Absent, ![to][c] = spool[from][c]]
                  ELSE spool
    /\ hand' = [hand EXCEPT ![p] = AfterMove(@, Exists(from, c))]
    /\ exposed' = IF from = "pending" /\ Exists(from, c) /\ c \notin written
                    THEN exposed \cup {c} ELSE exposed
    /\ UNCHANGED <<clientSide, received, faults, written>>

(* The destination directory cannot be made, the removal fails, perhaps    *)
(* with some files gone, or the rename does: the source stays.             *)
MoveFails(p) ==
    LET c == hand[p].cur  to == hand[p].move.to IN
    /\ hand[p].pc \in {"moveRemove", "moveRename"} /\ Fault
    /\ \/ UNCHANGED spool
       \/ /\ IsAt(p, "moveRemove") /\ Exists(to, c)
          /\ \E rest \in SUBSET spool[to][c] : spool' = [spool EXCEPT ![to][c] = rest]
    /\ hand' = [hand EXCEPT ![p] = AfterMove(@, FALSE)]
    /\ UNCHANGED <<clientSide, received, history>>

-----------------------------------------------------------------------------
(* FlushPendingCrashReportsImpl.                                           *)

(* One entry of the listing.  RecoverUploadingPackageDirectories moves it  *)
(* back to pending, UploadPackageDirectory takes it to uploading; an entry *)
(* that is no directory any more is passed over.                           *)
VisitEntry(p) ==
    LET source == IF hand[p].phase = "recover" THEN "uploading" ELSE "pending"
        target == IF hand[p].phase = "recover" THEN "pending" ELSE "uploading" IN
    /\ IsAt(p, "next")
    /\ \E c \in hand[p].todo :
         /\ hand' = [hand EXCEPT ![p] =
              LET h == [hand[p] EXCEPT !.todo = hand[p].todo \ {c}]
              IN IF Exists(source, c) THEN BeginMove(h, c, source, target) ELSE h]
         /\ exposed' = IF Exists(source, c) /\ Others(p, c) THEN exposed \cup {c} ELSE exposed
    /\ UNCHANGED <<clientSide, spool, received, faults, written>>

(* ApplyDirectoryRetention: the entries in the order of their names, the   *)
(* first ones removed until Limit are left.                                *)
Excess(d, protected) ==
    LET entries == SelectSeq(NameOrder, LAMBDA c : Exists(d, c) /\ c \notin protected)
    IN IF Len(entries) <= Limit[d] THEN {}
       ELSE {entries[i] : i \in 1 .. (Len(entries) - Limit[d])}

(* ApplyCrashSpoolRetention after a listing is done, a directory a step;   *)
(* before the uploads the request's own package is protected in pending.   *)
ApplyRetention(p) ==
    LET d == Head(hand[p].left)
        protected == IF hand[p].phase = "recover" /\ d = "pending" THEN {hand[p].req} ELSE {}
        gone == Excess(d, protected) IN
    /\ IsAt(p, "next") /\ hand[p].todo = {} /\ hand[p].left # <<>>
    /\ spool' = [spool EXCEPT ![d] = [c \in Calls |-> IF c \in gone THEN Absent ELSE @[c]]]
    /\ exposed' = exposed \cup gone
    /\ hand' = [hand EXCEPT ![p].left = Tail(@)]
    /\ UNCHANGED <<clientSide, received, faults, written>>

(* Without a server address the flush ends here; otherwise pending is      *)
(* listed.  After the second retention the handler reads again.            *)
EndRetention(p) ==
    /\ IsAt(p, "next") /\ hand[p].todo = {} /\ hand[p].left = <<>>
    /\ hand' = [hand EXCEPT ![p] =
         IF @.phase = "recover"
           THEN [@ EXCEPT !.phase = "upload", !.req = Absent, !.left = LimitedDirs,
                          !.todo = {c \in Calls : Exists("pending", c)}]
           ELSE [IdleHand EXCEPT !.pc = "read"]]
    /\ UNCHANGED <<clientSide, spool, received, faults, history>>

(* CrashUploadUrl is empty, or curl cannot be initialised. *)
NoServer(p) ==
    /\ IsAt(p, "next") /\ hand[p].todo = {} /\ hand[p].left = <<>> /\ hand[p].phase = "recover"
    /\ hand' = [hand EXCEPT ![p] = [IdleHand EXCEPT !.pc = "read"]]
    /\ UNCHANGED <<clientSide, spool, received, faults, history>>

(* Upload steps: every one names the package that should be in uploading. *)

Drop(h) == [h EXCEPT !.pc = "next", !.cur = Absent, !.archive = {}]

(* WriteUploadAttemptText before and after the upload: when it fails the   *)
(* package is left where it is.                                            *)
WriteUploadAttempt(p) ==
    LET c == hand[p].cur  pc == hand[p].pc IN
    /\ pc \in {"mark", "markUploaded", "markRetry"}
    /\ \/ /\ Exists("uploading", c) /\ NoFault
          /\ hand' = [hand EXCEPT ![p] =
               CASE pc = "mark"         -> [@ EXCEPT !.pc = "archive"]
                 [] pc = "markUploaded" -> BeginMove([@ EXCEPT !.archive = {}], c, "uploading", "uploaded")
                 [] pc = "markRetry"    -> BeginMove([@ EXCEPT !.archive = {}], c, "uploading", "pending")]
       \/ /\ IF Exists("uploading", c) THEN Fault ELSE NoFault
          /\ hand' = [hand EXCEPT ![p] = Drop(@)]
    /\ UNCHANGED <<clientSide, spool, received, history>>

(* BuildPackageArchive reads the files that are there. *)
BuildArchive(p) ==
    LET c == hand[p].cur IN
    /\ IsAt(p, "archive")
    /\ \/ /\ Exists("uploading", c) /\ NoFault
          /\ hand' = [hand EXCEPT ![p].pc = "post", ![p].archive = spool["uploading"][c]]
       \/ /\ IF Exists("uploading", c) THEN Fault ELSE NoFault
          /\ hand' = [hand EXCEPT ![p] = BeginMove(@, c, "uploading", "failed")]
    /\ UNCHANGED <<clientSide, spool, received, history>>

Receive(c, archive) ==
    [received EXCEPT ![c] = IF archive = AllFiles(c) THEN "whole" ELSE IF @ = "none" THEN "part" ELSE @]

UploadPackageMutant(p) ==    \* mutant: an answer that is no success is taken for one
    LET c == hand[p].cur IN
    /\ IsAt(p, "post")
    /\ \E got \in BOOLEAN :
         /\ received' = IF got THEN Receive(c, hand[p].archive) ELSE received
         /\ Goto(p, "markUploaded")
    /\ UNCHANGED <<clientSide, spool, faults, history>>

(* UploadPackage: accepted; refused or unreachable; or accepted with the   *)
(* answer lost to the time limit.                                          *)
UploadPackage(p) ==
    LET c == hand[p].cur IN
    /\ IsAt(p, "post")
    /\ \E got \in BOOLEAN, ok \in BOOLEAN :
         /\ ok => got
         /\ received' = IF got THEN Receive(c, hand[p].archive) ELSE received
         /\ Goto(p, IF ok THEN "markUploaded" ELSE "markRetry")
    /\ UNCHANGED <<clientSide, spool, faults, history>>

(* The handler process is killed. *)
KillHandler(p) ==
    /\ Running(p) /\ Fault
    /\ ExitHandler(p)
    /\ UNCHANGED <<clientSide, spool, received, history>>

-----------------------------------------------------------------------------
Init ==
    /\ site \in Sites
    /\ proc = [p \in Procs |-> "new"]
    /\ call = [c \in Calls |-> "idle"]
    /\ result = [c \in Calls |-> "none"]
    /\ inFlight = [p \in Procs |-> FALSE]
    /\ reqs = [p \in Procs |-> <<>>]
    /\ acks = [p \in Procs |-> <<>>]
    /\ hand = [p \in Procs |-> IdleHand]
    /\ spool = [d \in Dirs |-> [c \in Calls |-> Absent]]
    /\ received = [c \in Calls |-> "none"]
    /\ faults = 0
    /\ written = {} /\ exposed = {}

ClientStep(c) ==
    \/ RequestReentered(c) \/ RequestGpuCrashDump(c) \/ WriteGpuFile(c)
    \/ EnterTransport(c) \/ SendRequest(c)
    \/ ReadAck(c) \/ GiveUpWaiting(c)

HandlerStep(p) ==
    \/ ReadRequest(p) \/ WriteCrashPackage(p) \/ SendAck(p)
    \/ RemoveDestination(p) \/ RenameSource(p) \/ MoveFails(p)
    \/ VisitEntry(p) \/ ApplyRetention(p) \/ EndRetention(p) \/ NoServer(p)
    \/ WriteUploadAttempt(p) \/ BuildArchive(p) \/ UploadPackage(p)

Next ==
    \/ \E c \in Calls : ClientStep(c)
    \/ \E p \in Procs : HandlerStep(p) \/ InstallCrashHandler(p) \/ ProcessEnds(p) \/ KillHandler(p)

Spec == Init /\ [][Next]_vars

-----------------------------------------------------------------------------
(* Every variable keeps the shape the code gives it. *)
CrashTypeOK ==
    /\ proc \in [Procs -> {"new", "up", "down"}]
    /\ call \in [Calls -> {"idle", "gpuFile", "enter", "done"} \cup Transport]
    /\ result \in [Calls -> {"none", "written", "writeFailed", "noAnswer"}]
    /\ inFlight \in [Procs -> BOOLEAN]
    /\ \A d \in Dirs, c \in Calls : Exists(d, c) => spool[d][c] \subseteq AllFiles(c)
    /\ \A p \in Procs : inFlight[p] <=> \E c \in Calls : ProcOf(c) = p /\ call[c] \in Transport
    /\ \A p \in Procs : hand[p].cur # Absent => hand[p].pc \notin {"off", "exited", "read"}

(* CrashDumpStatus of RequestCrashDump is about the caller's own package:  *)
(* "written" is returned only when the handler completed the package of    *)
(* this very request, "writeFailed" only when it did not, whatever earlier *)
(* requests timed out and whenever their acknowledgements arrive           *)
(* (WaitForAck's comparison of the crash id).                              *)
AckHonest ==
    \A c \in Calls : /\ result[c] = "written" => c \in written
                     /\ result[c] = "writeFailed" => c \notin written

(* A package that WriteCrashPackage completed is never lost or cut: it is  *)
(* whole in one of the spool directories until retention removes it,       *)
(* through every move, also one that fails, upload failure, killed handler *)
(* and recovery.  Three cases the code leaves open.  Two are excepted: two *)
(* live handlers that share the spool at work on the package at the same   *)
(* time, and a package taken from pending while it was still being         *)
(* written.  The third is assumed away with the ids: a later call whose    *)
(* process id and number name the same package writes into it, and a move  *)
(* of the one removes the other.                                           *)
NothingLost ==
    \A c \in written \ exposed :
        \E d \in Dirs : spool[d][c] = AllFiles(c)

(* What lies in uploaded was received by the server (UploadPackageDirectory*)
(* moves it there only after a 2xx answer), and, with the exceptions of    *)
(* NothingLost, the archive received holds every file of the package, the  *)
(* client's GPU report included.                                           *)
UploadedReceived ==
    \A c \in Calls : Exists("uploaded", c) =>
        /\ received[c] # "none"
        /\ (c \notin exposed => received[c] = "whole")

=============================================================================
