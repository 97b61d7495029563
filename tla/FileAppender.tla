---------------------------- MODULE FileAppender ----------------------------
(***************************************************************************)
(* The file appender of Appender/appender.go (CYLoggerFileAppender, and    *)
(* CYLoggerMainAppender which shares it): producers append formatted lines *)
(* to a bounded batch buffer, one writer goroutine swaps the batch out and *)
(* writes it through a bufio.Writer, a ticker goroutine flushes and        *)
(* rotates, Flush is a handshake with the writer, UnInit stops everybody.  *)
(*                                                                         *)
(* One step is one critical section of pmu or a.mu, one channel operation, *)
(* or one line written while a.mu is held.  A line is named by its place   *)
(* in the order in which Write appended lines to `pending`; every producer *)
(* is sequential, so its own order is part of that order.  Every line has  *)
(* a length of its own, and sizes are sums of lengths; only the capacity   *)
(* of the bufio.Writer is in lines, since when it spills is a matter of    *)
(* when a line moves on to the file, not of how long the file gets.        *)
(***************************************************************************)
EXTENDS Integers, Sequences, FiniteSets

CONSTANTS
  Producers,    \* goroutines that call Write
  Flushers,     \* goroutines that call Flush
  Writer,       \* the goroutine that executes Run
  PendingCap,   \* fileAppenderPendingCap
  BufCap,       \* lines the bufio.Writer holds
  Lengths,      \* lengths of the formatted lines, repeated when there are more
  Limit,        \* nCheckFileSize, the size at which a file is rotated
  FoundSizes,   \* sizes the file may have when the appender first opens it
  TimeMode,     \* openFile may come to a new name (LogFileModeTime); FALSE
                \* when the name is fixed
  IoMayFail,    \* os.Rename, os.Remove and os.OpenFile may return an error
  EntityLock,   \* Flush and UnInit come through CYLoggerEntity, whose RWMutex
                \* keeps them apart; FALSE for an appender used on its own
  FlushStages,  \* the stages of the appender's life at which Flush is called
  MaxLines,     \* bound of the model: lines accepted
  MaxFlushes,   \* bound of the model: calls of Flush
  MaxAdmin      \* bound of the model: ForceNewFile, Copy, ClearContents calls

Stages == {"mounted", "inited", "failed", "started",
           "stopping", "barred", "joining", "closing", "closed"}

ASSUME ThreadAssumption == Writer \notin Flushers
ASSUME SizeAssumption ==
  /\ PendingCap \in Nat \ {0}
  /\ BufCap \in Nat \ {0}
  /\ Limit \in Nat \ {0}
ASSUME LengthAssumption ==
  /\ Lengths \in Seq(Nat) /\ Lengths # <<>>
  /\ FoundSizes \subseteq Nat
ASSUME ModeAssumption ==
  /\ TimeMode \in BOOLEAN
  /\ IoMayFail \in BOOLEAN
  /\ EntityLock \in BOOLEAN
  /\ FlushStages \subseteq Stages

VARIABLES
  life,      \* where AddAppender / UnInit are with this appender
  ppc,       \* what each producer is doing
  pending,   \* the batch buffer, guarded by pmu
  notifyCh,  \* number of tokens in the channel, whose capacity is 1
  accepted,  \* number of lines Write has appended so far
  dpc,       \* what the writer and each flusher is doing
  batch,     \* what a thread swapped out and has not written yet
  why,       \* the select case Run is serving: "data", "flush" or "stop"
  file,      \* a.file, and with it a.bufw: "open" or "nil"
  bufw,      \* lines in the bufio.Writer
  disk,      \* lines in the file at szCurrentFile
  found,     \* size that file had before this appender wrote to it
  past,      \* lines that left that file: rotated to an archive, cleared, or
             \* in a file whose name the appender left
  size,      \* nCurrentSize
  lost,      \* number of lines discarded, by a nil file or a failed Remove
  ticker,    \* the goroutine Init starts: "alive" or "gone"
  mark,      \* history: lines accepted when each flusher called Flush
  stopMark,  \* history: lines accepted when UnInit was called
  flushes, admins  \* calls of Flush and of the admin operations, for the bounds

queueVars == <<ppc, pending, notifyCh, accepted>>
drainVars == <<dpc, batch, why>>
fileVars  == <<file, bufw, disk, found, past, size, lost>>
histVars  == <<mark, stopMark, flushes, admins>>
vars == <<life, queueVars, drainVars, fileVars, ticker, histVars>>

Drainers == {Writer} \cup Flushers

-----------------------------------------------------------------------------
(* What the code reads from its flags and locks.                           *)

\* close(a.stopCh) has happened.
StopChClosed == life \in {"stopping", "barred", "joining", "closing", "closed"}

\* bClosedForWrite.
ClosedForWrite == life \in {"barred", "joining", "closing", "closed"}

\* Mutant of IsRunning: the flag tells whether Run is waiting in its select.
IsRunningIfWaiting == dpc[Writer] = "select"

\* CYNamedThread.bRunning: set by Start, reset by Stop and when Run is over.
IsRunning == /\ dpc[Writer] \notin {"off", "exited"}
             /\ life \notin {"joining", "closing", "closed"}

\* a.mu is held across the lines of a batch, and for single steps otherwise.
FileMutexFree == \A t \in Drainers : dpc[t] # "write"

\* Whether a call to the operating system succeeds.
Outcome == IF IoMayFail THEN {"ok", "error"} ELSE {"ok"}

\* Whether openFile comes to a new name: it is made of the time of the call.
Renamings == IF TimeMode THEN BOOLEAN ELSE {FALSE}

\* What WriteString returns for a line.
Length(line) == Lengths[((line - 1) % Len(Lengths)) + 1]

\* The bytes of a sequence of lines: the j-th byte of its i-th line is <<i, j>>.
Bytes(s) == UNION {{i} \X (1..Length(s[i])) : i \in DOMAIN s}
Size(s)  == Cardinality(Bytes(s))

-----------------------------------------------------------------------------
Init ==
  /\ life = "mounted"
  /\ ppc = [p \in Producers |-> "idle"]
  /\ pending = <<>>
  /\ notifyCh = 0
  /\ accepted = 0
  /\ dpc = [t \in Drainers |-> IF t = Writer THEN "off" ELSE "idle"]
  /\ batch = [t \in Drainers |-> <<>>]
  /\ why = "data"
  /\ file = "nil"
  /\ bufw = <<>>
  /\ disk = <<>>
  /\ found \in FoundSizes
  /\ past = <<>>
  /\ size = 0
  /\ lost = 0
  /\ ticker = "gone"
  /\ mark = [f \in Flushers |-> 0]
  /\ stopMark = 0
  /\ flushes = 0
  /\ admins = 0

-----------------------------------------------------------------------------
(* Write, on the goroutine of a producer.                                  *)

\* A producer about to evaluate the loop condition under pmu: on entry, or
\* woken from spaceCond.Wait.  MaxLines bounds the calls.
AtDoor(p) ==
  \/ ppc[p] = "woken"
  \/ /\ ppc[p] = "idle"
     /\ accepted + Cardinality({q \in Producers : ppc[q] \in {"blocked", "woken"}})
          < MaxLines

HasRoom == Len(pending) < PendingCap

Enqueue(p) ==
  /\ AtDoor(p)
  /\ HasRoom
  /\ ~ClosedForWrite
  /\ accepted' = accepted + 1
  /\ pending' = Append(pending, accepted + 1)
  /\ ppc' = [ppc EXCEPT ![p] = "notify"]
  /\ UNCHANGED <<life, notifyCh, drainVars, fileVars, ticker, histVars>>

\* spaceCond.Wait: the buffer is full.
Block(p) ==
  /\ AtDoor(p)
  /\ ~HasRoom
  /\ ~ClosedForWrite
  /\ ppc' = [ppc EXCEPT ![p] = "blocked"]
  /\ UNCHANGED <<life, pending, notifyCh, accepted, drainVars, fileVars, ticker, histVars>>

\* Write returns false: the appender is shut down.
Reject(p) ==
  /\ AtDoor(p)
  /\ ClosedForWrite
  /\ ppc' = [ppc EXCEPT ![p] = "idle"]
  /\ UNCHANGED <<life, pending, notifyCh, accepted, drainVars, fileVars, ticker, histVars>>

\* Mutant of Notify: the channel takes a token for every line.
NotifyCounting(p) ==
  /\ ppc[p] = "notify"
  /\ notifyCh' = notifyCh + 1
  /\ ppc' = [ppc EXCEPT ![p] = "idle"]
  /\ UNCHANGED <<life, pending, accepted, drainVars, fileVars, ticker, histVars>>

\* Mutant of Notify: the channel is unbuffered.
NotifyUnbuffered(p) ==
  /\ ppc[p] = "notify"
  /\ notifyCh' = IF dpc[Writer] = "select" THEN 1 ELSE notifyCh
  /\ ppc' = [ppc EXCEPT ![p] = "idle"]
  /\ UNCHANGED <<life, pending, accepted, drainVars, fileVars, ticker, histVars>>

\* The non-blocking send to notifyCh, after pmu is released; Write returns.
Notify(p) ==
  /\ ppc[p] = "notify"
  /\ notifyCh' = 1
  /\ ppc' = [ppc EXCEPT ![p] = "idle"]
  /\ UNCHANGED <<life, pending, accepted, drainVars, fileVars, ticker, histVars>>

\* Mutant of Broadcast: nobody is woken.
NoBroadcast == UNCHANGED ppc

\* spaceCond.Broadcast.
Broadcast == ppc' = [p \in Producers |-> IF ppc[p] = "blocked" THEN "woken" ELSE ppc[p]]

-----------------------------------------------------------------------------
(* The file, under a.mu.                                                   *)

\* Mutant of FlushFile: what is buffered is dropped.
FlushFileDropping == bufw' = <<>> /\ UNCHANGED disk

\* bufw.Flush.
FlushFile ==
  /\ disk' = disk \o bufw
  /\ bufw' = <<>>

FileAfter(open) == IF open = "ok" THEN "open" ELSE "nil"

\* What becomes of the content of szCurrentFile: it stays there, or the
\* appender is done with it and goes on with a file that does not exist yet.
Settle(content, leave) ==
  /\ past' = IF leave THEN past \o content ELSE past
  /\ disk' = IF leave THEN <<>> ELSE content
  /\ found' = IF leave THEN 0 ELSE found

\* Mutant of Reopen: nCurrentSize is reset instead of seeded.
ReopenFromZero(open) ==
  /\ file' = FileAfter(open)
  /\ size' = IF open = "ok" THEN 0 ELSE size

\* openFile: nCurrentSize is seeded from the length of the file it finds.
Reopen(open) ==
  /\ file' = FileAfter(open)
  /\ size' = IF open = "ok" THEN found' + Size(disk') ELSE size

\* Mutant of Archive: the buffer is not flushed before the rename.
ArchiveUnflushed(move) == Settle(disk, move = "ok")

\* rotateFileLocked up to its openFile: flush, close, rename to an archive.
\* When the rename fails the same file is opened again, or, in time mode, a new
\* one, which is what "ok" stands for as well.
Archive(move) == Settle(disk \o bufw, move = "ok")

\* WriteString: a buffer without room is written out first.
BufferLine(line) ==
  IF Len(bufw) < BufCap
    THEN bufw' = Append(bufw, line) /\ disk' = disk
    ELSE bufw' = <<line>> /\ disk' = disk \o bufw

\* Mutant of NeedsRotation: off by one.
NeedsRotationLate == size > Limit

\* restriction.IsCreateNewLog(nCurrentSize).
NeedsRotation == size >= Limit

\* writeLineLocked: with a nil file the line is dropped; a file over the limit
\* is rotated first, and the line is dropped if that leaves no file.
WriteLineLocked(line) ==
  \/ /\ file = "nil"
     /\ lost' = lost + 1
     /\ UNCHANGED <<file, bufw, disk, found, past, size>>
  \/ /\ file = "open" /\ ~NeedsRotation
     /\ BufferLine(line)
     /\ size' = size + Length(line)
     /\ UNCHANGED <<file, found, past, lost>>
  \/ /\ file = "open" /\ NeedsRotation
     /\ \E move, open \in Outcome :
          /\ Archive(move)
          /\ file' = FileAfter(open)
          /\ bufw' = IF open = "ok" THEN <<line>> ELSE <<>>
          /\ size' = IF open = "ok" THEN found' + Size(disk') + Length(line) ELSE size
          /\ lost' = IF open = "ok" THEN lost ELSE lost + 1

-----------------------------------------------------------------------------
(* writePending, by the writer or by a Flush that found it not running.    *)

\* Mutants of AfterDrain: a Flush is answered without flushBuffer; Run goes back
\* to its select whatever it was serving.
AfterDrainUnsynced(t) ==
  IF t = Writer THEN IF why = "stop" THEN "returned" ELSE "ack" ELSE "return"
AfterDrainForever(t) == IF t = Writer THEN "select" ELSE "sync"

\* Where a thread continues after writePending.
AfterDrain(t) ==
  IF t # Writer THEN "sync"
  ELSE CASE why = "data"  -> "select"
         [] why = "flush" -> "sync"
         [] why = "stop"  -> "returned"

\* Mutant of Swap: the batch buffer is not reset.
SwapKeeping(t) ==
  /\ dpc[t] = "swap"
  /\ pending # <<>>
  /\ batch' = [batch EXCEPT ![t] = pending]
  /\ Broadcast
  /\ dpc' = [dpc EXCEPT ![t] = "lock"]
  /\ UNCHANGED <<life, pending, notifyCh, accepted, why, fileVars, ticker, histVars>>

\* Under pmu: take the whole batch and wake the blocked producers.
Swap(t) ==
  /\ dpc[t] = "swap"
  /\ pending # <<>>
  /\ batch' = [batch EXCEPT ![t] = pending]
  /\ pending' = <<>>
  /\ Broadcast
  /\ dpc' = [dpc EXCEPT ![t] = "lock"]
  /\ UNCHANGED <<life, notifyCh, accepted, why, fileVars, ticker, histVars>>

SwapNothing(t) ==
  /\ dpc[t] = "swap"
  /\ pending = <<>>
  /\ dpc' = [dpc EXCEPT ![t] = AfterDrain(t)]
  /\ UNCHANGED <<life, queueVars, batch, why, fileVars, ticker, histVars>>

LockFile(t) ==
  /\ dpc[t] = "lock"
  /\ FileMutexFree
  /\ dpc' = [dpc EXCEPT ![t] = "write"]
  /\ UNCHANGED <<life, queueVars, batch, why, fileVars, ticker, histVars>>

WriteLine(t) ==
  /\ dpc[t] = "write"
  /\ batch[t] # <<>>
  /\ WriteLineLocked(Head(batch[t]))
  /\ batch' = [batch EXCEPT ![t] = Tail(@)]
  /\ UNCHANGED <<life, queueVars, dpc, why, ticker, histVars>>

UnlockFile(t) ==
  /\ dpc[t] = "write"
  /\ batch[t] = <<>>
  /\ dpc' = [dpc EXCEPT ![t] = AfterDrain(t)]
  /\ UNCHANGED <<life, queueVars, batch, why, fileVars, ticker, histVars>>

\* flushBuffer, on behalf of Flush.
FlushBuffer(t) ==
  /\ dpc[t] = "sync"
  /\ FileMutexFree
  /\ FlushFile
  /\ dpc' = [dpc EXCEPT ![t] = IF t = Writer THEN "ack" ELSE "return"]
  /\ UNCHANGED <<life, queueVars, batch, why, file, found, past, size, lost, ticker, histVars>>

-----------------------------------------------------------------------------
(* Run, the select loop of the writer goroutine, and Flush.                *)

TakeToken ==
  /\ dpc[Writer] = "select"
  /\ notifyCh = 1
  /\ notifyCh' = 0
  /\ why' = "data"
  /\ dpc' = [dpc EXCEPT ![Writer] = "swap"]
  /\ UNCHANGED <<life, ppc, pending, accepted, batch, fileVars, ticker, histVars>>

TakeStop ==
  /\ dpc[Writer] = "select"
  /\ StopChClosed
  /\ why' = "stop"
  /\ dpc' = [dpc EXCEPT ![Writer] = "swap"]
  /\ UNCHANGED <<life, queueVars, batch, fileVars, ticker, histVars>>

\* a.flushCh is unbuffered: send and receive are one step.
Handshake(f) ==
  /\ dpc[Writer] = "select"
  /\ dpc[f] = "select"
  /\ why' = "flush"
  /\ dpc' = [dpc EXCEPT ![Writer] = "swap", ![f] = "await"]
  /\ UNCHANGED <<life, queueVars, batch, fileVars, ticker, histVars>>

\* close(done).
Ack ==
  /\ dpc[Writer] = "ack"
  /\ dpc' = [t \in Drainers |-> IF t = Writer THEN "select"
                                ELSE IF dpc[t] = "await" THEN "return" ELSE dpc[t]]
  /\ UNCHANGED <<life, queueVars, batch, why, fileVars, ticker, histVars>>

\* The goroutine of CYNamedThread.Start after Run returned: bRunning = false.
RunDone ==
  /\ dpc[Writer] = "returned"
  /\ dpc' = [dpc EXCEPT ![Writer] = "exited"]
  /\ UNCHANGED <<life, queueVars, batch, why, fileVars, ticker, histVars>>

\* Flush is called and reads IsRunning.
Flush(f) ==
  /\ dpc[f] = "idle"
  /\ life \in FlushStages
  /\ flushes < MaxFlushes
  /\ flushes' = flushes + 1
  /\ mark' = [mark EXCEPT ![f] = accepted]
  /\ dpc' = [dpc EXCEPT ![f] = IF IsRunning THEN "select" ELSE "swap"]
  /\ UNCHANGED <<life, queueVars, batch, why, fileVars, ticker, stopMark, admins>>

\* The <-a.stopCh case of Flush.
FlushSeesStop(f) ==
  /\ dpc[f] = "select"
  /\ StopChClosed
  /\ dpc' = [dpc EXCEPT ![f] = "sync"]
  /\ UNCHANGED <<life, queueVars, batch, why, fileVars, ticker, histVars>>

FlushReturn(f) ==
  /\ dpc[f] = "return"
  /\ dpc' = [dpc EXCEPT ![f] = "idle"]
  /\ UNCHANGED <<life, queueVars, batch, why, fileVars, ticker, histVars>>

-----------------------------------------------------------------------------
(* The ticker goroutine of Init.                                           *)

TickFlush ==
  /\ ticker = "alive"
  /\ FileMutexFree
  /\ FlushFile
  /\ UNCHANGED <<life, queueVars, drainVars, file, found, past, size, lost, ticker, histVars>>

\* checkTimeRotation.
TickRotate ==
  /\ ticker = "alive"
  /\ FileMutexFree
  /\ file = "open"
  /\ NeedsRotation
  /\ \E move, open \in Outcome : Archive(move) /\ Reopen(open)
  /\ bufw' = <<>>
  /\ UNCHANGED <<life, queueVars, drainVars, lost, ticker, histVars>>

TickerExit ==
  /\ ticker = "alive"
  /\ StopChClosed
  /\ ticker' = "gone"
  /\ UNCHANGED <<life, queueVars, drainVars, fileVars, histVars>>

-----------------------------------------------------------------------------
(* Operations on the live appender, each one section of a.mu.              *)

Admin ==
  /\ life \in {"failed", "started"}
  /\ FileMutexFree
  /\ admins < MaxAdmin
  /\ admins' = admins + 1
  /\ bufw' = <<>>
  /\ UNCHANGED <<life, queueVars, drainVars, ticker, mark, stopMark, flushes>>

ForceNewFile ==
  /\ Admin
  /\ \E move, open \in Outcome : Archive(move) /\ Reopen(open)
  /\ UNCHANGED lost

\* Mutant of Copy: the file is closed without flushing the buffer.
CopyUnflushed ==
  /\ Admin
  /\ \E leave \in Renamings, open \in Outcome : Settle(disk, leave) /\ Reopen(open)
  /\ UNCHANGED lost

\* Copy closes the file, copies it and opens it again.
Copy ==
  /\ Admin
  /\ \E leave \in Renamings, open \in Outcome :
       Settle(disk \o bufw, leave) /\ Reopen(open)
  /\ UNCHANGED lost

\* ClearContents drops the buffer, removes the file and opens it again; when
\* the file cannot be removed, what was buffered is missing from it.
ClearContents ==
  /\ Admin
  /\ \E remove, open \in Outcome, leave \in Renamings :
       /\ IF remove = "ok" THEN Settle(disk \o bufw, TRUE) ELSE Settle(disk, leave)
       /\ lost' = IF remove = "ok" THEN lost ELSE lost + Len(bufw)
       /\ Reopen(open)

-----------------------------------------------------------------------------
(* The life of the appender: AddAppender mounts it in its entity, then     *)
(* calls Init and Start; the entity's UnInit calls UnInit.                 *)

InitAppender ==
  /\ life = "mounted"
  /\ UNCHANGED <<queueVars, drainVars, bufw, disk, found, past, lost, histVars>>
  /\ \E open \in Outcome :
       /\ life' = IF open = "ok" THEN "inited" ELSE "failed"
       /\ Reopen(open)
       /\ ticker' = IF open = "ok" THEN "alive" ELSE "gone"

Start ==
  /\ life = "inited"
  /\ life' = "started"
  /\ dpc' = [dpc EXCEPT ![Writer] = "select"]
  /\ UNCHANGED <<queueVars, batch, why, fileVars, ticker, histVars>>

\* close(a.stopCh).
UnInitStop ==
  /\ life \in {"failed", "started"}
  /\ EntityLock => \A f \in Flushers : dpc[f] = "idle"
  /\ life' = "stopping"
  /\ stopMark' = accepted
  /\ UNCHANGED <<queueVars, drainVars, fileVars, ticker, mark, flushes, admins>>

\* bClosedForWrite = true and the broadcast, under pmu.
UnInitBar ==
  /\ life = "stopping"
  /\ life' = "barred"
  /\ Broadcast
  /\ UNCHANGED <<pending, notifyCh, accepted, drainVars, fileVars, ticker, histVars>>

\* The base UnInit: Stop, then wg.Wait for Run to return.
UnInitBaseStop ==
  /\ life = "barred"
  /\ life' = "joining"
  /\ UNCHANGED <<queueVars, drainVars, fileVars, ticker, histVars>>

UnInitJoin ==
  /\ life = "joining"
  /\ dpc[Writer] \in {"off", "returned", "exited"}
  /\ life' = "closing"
  /\ UNCHANGED <<queueVars, drainVars, fileVars, ticker, histVars>>

\* closeFileLocked.
UnInitClose ==
  /\ life = "closing"
  /\ FileMutexFree
  /\ FlushFile
  /\ file' = "nil"
  /\ life' = "closed"
  /\ UNCHANGED <<queueVars, drainVars, found, past, size, lost, ticker, histVars>>

-----------------------------------------------------------------------------
Produce(p) == Enqueue(p) \/ Block(p) \/ Reject(p) \/ Notify(p)

Drain(t) == \/ Swap(t) \/ SwapNothing(t)
            \/ LockFile(t) \/ WriteLine(t) \/ UnlockFile(t)
            \/ FlushBuffer(t)

RunStep == TakeToken \/ TakeStop \/ Ack \/ RunDone

FlushStep(f) == Handshake(f) \/ FlushSeesStop(f) \/ FlushReturn(f)

Tick == TickFlush \/ TickRotate \/ TickerExit

Operate == ForceNewFile \/ Copy \/ ClearContents

Mount == InitAppender \/ Start

UnInit == UnInitBar \/ UnInitBaseStop \/ UnInitJoin \/ UnInitClose

Next ==
  \/ \E p \in Producers : Produce(p)
  \/ \E t \in Drainers : Drain(t)
  \/ RunStep
  \/ \E f \in Flushers : Flush(f) \/ FlushStep(f)
  \/ Tick
  \/ Operate
  \/ Mount
  \/ UnInitStop
  \/ UnInit

Spec == Init /\ [][Next]_vars

\* What the Go runtime and the code guarantee: a goroutine that can run is run;
\* a sync.Mutex is starvation-free; select chooses among its ready cases at
\* random, so a case that is ready again and again is taken.  Nobody has to call
\* Write, Flush or UnInit, and the rotation tick has no bearing on progress.
Fairness ==
  /\ \A p \in Producers :
       /\ WF_vars(Notify(p))
       /\ WF_vars(ppc[p] = "woken" /\ Produce(p))
  /\ \A t \in Drainers : WF_vars(Drain(t))
  /\ WF_vars(TakeToken) /\ SF_vars(TakeStop) /\ WF_vars(Ack) /\ WF_vars(RunDone)
  /\ \A f \in Flushers :
       /\ SF_vars(Handshake(f))
       /\ WF_vars(FlushSeesStop(f) \/ FlushReturn(f))
  /\ WF_vars(TickFlush) /\ WF_vars(TickerExit)
  /\ WF_vars(Mount) /\ WF_vars(UnInit)

FairSpec == Spec /\ Fairness

-----------------------------------------------------------------------------
(* Properties.                                                             *)

\* Where the writer and the flushers can be in their code.
Places == {"off", "idle", "select", "await", "swap", "lock", "write",
           "sync", "ack", "return", "returned", "exited"}

TypeOK ==
  /\ life \in Stages
  /\ ppc \in [Producers -> {"idle", "blocked", "woken", "notify"}]
  /\ pending \in Seq(Nat)
  /\ notifyCh \in 0..1
  /\ accepted \in Nat
  /\ dpc \in [Drainers -> Places]
  /\ batch \in [Drainers -> Seq(Nat)]
  /\ why \in {"data", "flush", "stop"}
  /\ file \in {"open", "nil"}
  /\ bufw \in Seq(Nat)
  /\ disk \in Seq(Nat)
  /\ found \in Nat
  /\ past \in Seq(Nat)
  /\ size \in Nat
  /\ lost \in Nat
  /\ ticker \in {"alive", "gone"}
  /\ mark \in [Flushers -> Nat]
  /\ stopMark \in Nat
  /\ flushes \in Nat
  /\ admins \in Nat

\* Everything handed to the file so far, in the order it was handed over.
Content == past \o (disk \o bufw)

\* Only one thread at a time is between the swap and the last write of its
\* batch ("so the swap is sequential"): what makes the recycling of the batch
\* storage by writePending safe.
SwapIsSequential ==
  \A t, u \in Drainers :
    dpc[t] \in {"lock", "write"} /\ dpc[u] \in {"lock", "write"} => t = u

\* Lines reach the file in the order in which Write accepted them, each at most
\* once, and without a gap unless a line was discarded.
FileInOrder ==
  /\ \A i, j \in 1..Len(Content) : i < j => Content[i] < Content[j]
  /\ lost = 0 => \A i \in 1..Len(Content) : Content[i] = i

\* No accepted line disappears: it is in the batch buffer, in the batch being
\* written, handed to the file, or counted as discarded.
EveryLineAccounted ==
  \A t \in Drainers :
    (\A u \in Drainers \ {t} : batch[u] = <<>>) =>
      Len(Content) + lost + Len(batch[t]) + Len(pending) = accepted

\* "Every line enqueued before Flush is visible in the file on return."
FlushVisible ==
  \A f \in Flushers : dpc[f] = "return" => mark[f] <= Len(past) + Len(disk) + lost

\* "No line enqueued before UnInit is lost": the appender closes its file only
\* after every line accepted before UnInit was called is in it.
UnInitWritesEarlierLines ==
  life = "closed" /\ dpc[Writer] # "off" => stopMark <= Len(past) + Len(disk) + lost

\* The wakeup protocol of notifyCh, a channel of one token sent to without
\* blocking, loses no wakeup: the writer waits in its select with lines pending
\* only while it has been, or is about to be, told of them.
NoLostWakeup ==
  pending # <<>> /\ dpc[Writer] = "select" =>
    notifyCh = 1 \/ \E p \in Producers : ppc[p] = "notify"

\* A producer sleeps on spaceCond only while the buffer is full and somebody is
\* left to empty it or to release it.
BlockedOnlyWhenFull ==
  (\E p \in Producers : ppc[p] = "blocked") => Len(pending) >= PendingCap /\ ~ClosedForWrite

\* nCurrentSize "includes bytes still sitting in bufw": it is the length of the
\* file, with what was there before, plus what is buffered, through rotations,
\* reopens and their failures.
SizeIsLogical == file = "open" => size = found + Size(disk) + Size(bufw)

\* No line is added to a file that is at the limit: the lines before any line
\* of a file, with what the appender found in it, are below the limit, so a
\* file outgrows the limit by no more than its last line.
GenerationBounded ==
  LET lines == disk \o bufw
  IN  \A n \in 1..Len(lines) : found + Size(SubSeq(lines, 1, n - 1)) < Limit

\* The appender's Init failed: AddAppender leaves it mounted and never starts
\* the writer, so nobody empties its buffer but a Flush.
NeverStarted == life = "failed"

\* A line that was accepted is on disk in the end, unless the appender is
\* shut down, was never started, or a line was discarded.
EventuallyDurable ==
  \A n \in 1..MaxLines :
    accepted >= n ~> \/ Len(past) + Len(disk) >= n
                     \/ StopChClosed \/ NeverStarted \/ lost > 0

\* A call of Flush returns.
FlushReturns == \A f \in Flushers : dpc[f] # "idle" ~> dpc[f] = "idle"

\* A producer blocked on a full buffer gets its line in, or is told that the
\* appender is shut down.
BlockedIsReleased ==
  \A p \in Producers : ppc[p] = "blocked" ~> ppc[p] = "idle" \/ NeverStarted

\* UnInit comes to its end, with the writer and the ticker gone.
UnInitCompletes ==
  life = "stopping" ~> life = "closed" /\ ticker = "gone" /\ dpc[Writer] \in {"off", "exited"}

\* Lines appended before bClosedForWrite is set "stay in pending and are
\* drained by Run on exit".
ClosedIsDrained == life = "closed" /\ dpc[Writer] # "off" => pending = <<>>

-----------------------------------------------------------------------------
(* The appender implements the log of DurableLog.                          *)

Wanted(f) == IF dpc[f] = "idle" THEN -1 ELSE mark[f]

Abstract == INSTANCE DurableLog
              WITH log <- accepted,
                   durable <- past \o disk,
                   want <- [f \in Flushers |-> Wanted(f)]

\* Lines become durable in the order in which Write accepted them, and Flush
\* keeps its contract: the steps of producers, writer, ticker, flushers and
\* UnInit are together no more than accept, persist, call and return.
ImplementsDurableLog == Abstract!Spec
=============================================================================
