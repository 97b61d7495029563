---------------------------- MODULE QueueAppender ----------------------------
(***************************************************************************)
(* The two-queue consumer of Appender/appender.go (CYLoggerBaseAppender),  *)
(* as the console appender runs it: producers send messages to the front   *)
(* queue without blocking, one consumer goroutine writes them out and now  *)
(* and then swaps front and back queue, Flush asks it to drain and drains  *)
(* itself when it is busy, UnInit stops it and closes the queues.          *)
(*                                                                         *)
(* One step is one channel operation, one section of a.mu, or one message  *)
(* written.  A message is named by its place in the order of acceptance.   *)
(* The control calls Flush under its read lock and UnInit under its write  *)
(* lock; Write runs under neither.                                         *)
(***************************************************************************)
EXTENDS Integers, Sequences, FiniteSets

CONSTANTS
  Producers,    \* goroutines that call Write
  Flushers,     \* goroutines that call Flush
  Writer,       \* the goroutine that executes Run
  QueueCap,     \* the capacity of each queue
  MaxMessages,  \* bound of the model: messages accepted
  MaxFlushes    \* bound of the model: calls of Flush

ASSUME ThreadAssumption == Writer \notin Producers \cup Flushers /\ Producers \cap Flushers = {}
ASSUME CapAssumption == QueueCap \in Nat \ {0}

VARIABLES
  life,     \* where UnInit is
  queue,    \* the contents of the two channels
  public,   \* which channel PublicQueue names; 0 is nil
  closed,   \* the channels that are closed
  swapCh,   \* number of tokens in the channel, whose capacity is 1
  accepted, \* number of messages Write has sent so far
  ppc,      \* what each producer is doing
  dpc,      \* what the consumer and each flusher is doing
  snap,     \* the channel each thread has read from PublicQueue or PrivateQueue
  why,      \* the select case Run is serving: "swap", "flush" or "stop"
  hand,     \* the message a thread has received and not yet written; 0 is none
  out,      \* the messages written, in order
  mark,     \* history: messages accepted when each flusher called Flush
  how,      \* history: "handshake" or "fallback", the way each Flush went
  stopMark, \* history: messages accepted when UnInit was called
  flushes   \* calls of Flush, for the bound

queueVars == <<public, closed, queue, swapCh>>
sendVars  == <<accepted, ppc>>
drainVars == <<dpc, why, hand, out>>
histVars  == <<mark, how, stopMark, flushes>>
vars == <<life, queueVars, sendVars, snap, drainVars, histVars>>

Drainers == {Writer} \cup Flushers

Stages == {"running", "stopping", "stopped", "joined", "closing", "cleared", "closed"}

\* Mutant of StopChClosed: Stop only resets bRunning.
StopChNeverClosed == FALSE

\* close(a.stopCh) has happened.
StopChClosed == life # "running"

\* CYNamedThread.bRunning.
IsRunning == life \in {"running", "stopping"} /\ dpc[Writer] \notin {"returned", "exited"}

\* The channel PrivateQueue names while PublicQueue names one.
Private == 3 - public

-----------------------------------------------------------------------------
\* The constructor of the console appender starts the consumer.
Init ==
  /\ life = "running"
  /\ queue = [q \in 1..2 |-> <<>>]
  /\ public = 1
  /\ closed = {}
  /\ swapCh = 0
  /\ accepted = 0
  /\ ppc = [p \in Producers |-> "idle"]
  /\ dpc = [t \in Drainers |-> IF t = Writer THEN "loop" ELSE "idle"]
  /\ snap = [t \in Producers \cup Drainers |-> 0]
  /\ why = "swap"
  /\ hand = [t \in Drainers |-> 0]
  /\ out = <<>>
  /\ mark = [f \in Flushers |-> 0]
  /\ how = [f \in Flushers |-> "fallback"]
  /\ stopMark = 0
  /\ flushes = 0

-----------------------------------------------------------------------------
(* Write.                                                                  *)

\* The queue pointer is read under a.mu.
Snapshot(p) ==
  /\ ppc[p] = "idle"
  /\ accepted + Cardinality({q \in Producers : ppc[q] = "send"}) < MaxMessages
  /\ snap' = [snap EXCEPT ![p] = public]
  /\ ppc' = [ppc EXCEPT ![p] = "send"]
  /\ UNCHANGED <<life, queueVars, accepted, drainVars, histVars>>

HasRoom(q) == Len(queue[q]) < QueueCap

\* The message goes to the channel read before.
Send(p) ==
  /\ ppc[p] = "send"
  /\ snap[p] # 0 /\ snap[p] \notin closed
  /\ HasRoom(snap[p])
  /\ accepted' = accepted + 1
  /\ queue' = [queue EXCEPT ![snap[p]] = Append(@, accepted + 1)]
  /\ ppc' = [ppc EXCEPT ![p] = "idle"]
  /\ snap' = [snap EXCEPT ![p] = 0]
  /\ UNCHANGED <<life, public, closed, swapCh, drainVars, histVars>>

\* Write returns false: there is no queue, or it is full.
Refuse(p) ==
  /\ ppc[p] = "send"
  /\ snap[p] # 0 => snap[p] \notin closed /\ ~HasRoom(snap[p])
  /\ ppc' = [ppc EXCEPT ![p] = "idle"]
  /\ snap' = [snap EXCEPT ![p] = 0]
  /\ UNCHANGED <<life, queueVars, accepted, drainVars, histVars>>

\* A send on a closed channel panics.  The caller may recover: the others go on.
Panic(p) ==
  /\ ppc[p] = "send"
  /\ snap[p] \in closed
  /\ ppc' = [ppc EXCEPT ![p] = "panicked"]
  /\ UNCHANGED <<life, queueVars, accepted, snap, drainVars, histVars>>

-----------------------------------------------------------------------------
(* Receiving and writing, by the consumer or by a Flush that found it busy. *)

\* The places of a thread that is emptying the queue it has read.
Draining == {"private", "public"}

\* Mutant of AfterDrain: a Flush is answered when the former front queue is empty.
AfterDrainOneQueue(t) ==
  IF t # Writer THEN "return"
  ELSE IF why = "flush" THEN "ack" ELSE IF why = "swap" THEN "loop" ELSE "returned"

\* Where a thread continues when the queue it drains is empty.
AfterDrain(t) ==
  IF t # Writer THEN "return"
  ELSE CASE dpc[t] = "private" -> IF why = "flush" THEN "reread" ELSE "loop"
         [] dpc[t] = "public"  -> IF why = "flush" THEN "ack" ELSE "returned"

\* Mutant of Receive: the message stays in the queue until it is written.
ReceivePeeking(t) ==
  /\ dpc[t] \in Draining
  /\ hand[t] = 0
  /\ snap[t] # 0
  /\ queue[snap[t]] # <<>>
  /\ hand' = [hand EXCEPT ![t] = Head(queue[snap[t]])]
  /\ UNCHANGED <<life, queueVars, sendVars, snap, dpc, why, out, histVars>>

Receive(t) ==
  /\ dpc[t] \in Draining
  /\ hand[t] = 0
  /\ snap[t] # 0
  /\ queue[snap[t]] # <<>>
  /\ hand' = [hand EXCEPT ![t] = Head(queue[snap[t]])]
  /\ queue' = [queue EXCEPT ![snap[t]] = Tail(@)]
  /\ UNCHANGED <<life, public, closed, swapCh, sendVars, snap, dpc, why, out, histVars>>

\* The default case of the drain, or no queue to drain.
Drained(t) ==
  /\ dpc[t] \in Draining
  /\ hand[t] = 0
  /\ snap[t] # 0 => queue[snap[t]] = <<>>
  /\ dpc' = [dpc EXCEPT ![t] = AfterDrain(t)]
  /\ snap' = [snap EXCEPT ![t] = 0]
  /\ UNCHANGED <<life, queueVars, sendVars, why, hand, out, histVars>>

\* writeMessage.
WriteMessage(t) ==
  /\ hand[t] # 0
  /\ out' = Append(out, hand[t])
  /\ hand' = [hand EXCEPT ![t] = 0]
  /\ dpc' = [dpc EXCEPT ![t] = IF @ = "message" THEN "loop" ELSE @]
  /\ UNCHANGED <<life, queueVars, sendVars, snap, why, histVars>>

\* processMessages reads PublicQueue under a.mu.
Reread(t) ==
  /\ dpc[t] = "reread"
  /\ snap' = [snap EXCEPT ![t] = public]
  /\ dpc' = [dpc EXCEPT ![t] = "public"]
  /\ UNCHANGED <<life, queueVars, sendVars, why, hand, out, histVars>>

-----------------------------------------------------------------------------
(* Run, with the swap ticker.                                              *)

\* The condition of the loop.
CheckRunning ==
  /\ dpc[Writer] = "loop"
  /\ dpc' = [dpc EXCEPT ![Writer] = IF IsRunning THEN "select" ELSE "returned"]
  /\ UNCHANGED <<life, queueVars, sendVars, snap, why, hand, out, histVars>>

\* Mutant of TakeMessage: what is received after the stop is not handled.
TakeMessageDropping ==
  /\ dpc[Writer] = "select"
  /\ queue[public] # <<>>
  /\ hand' = [hand EXCEPT ![Writer] = IF IsRunning THEN Head(queue[public]) ELSE 0]
  /\ queue' = [queue EXCEPT ![public] = Tail(@)]
  /\ dpc' = [dpc EXCEPT ![Writer] = IF IsRunning THEN "message" ELSE "loop"]
  /\ UNCHANGED <<life, public, closed, swapCh, sendVars, snap, why, out, histVars>>

TakeMessage ==
  /\ dpc[Writer] = "select"
  /\ queue[public] # <<>>
  /\ hand' = [hand EXCEPT ![Writer] = Head(queue[public])]
  /\ queue' = [queue EXCEPT ![public] = Tail(@)]
  /\ dpc' = [dpc EXCEPT ![Writer] = "message"]
  /\ UNCHANGED <<life, public, closed, swapCh, sendVars, snap, why, out, histVars>>

\* swapAndProcess up to its drain: what was the front queue is drained.
SwapQueues ==
  /\ public' = Private
  /\ snap' = [snap EXCEPT ![Writer] = public]
  /\ UNCHANGED <<closed, queue>>

TakeSwap ==
  /\ dpc[Writer] = "select"
  /\ swapCh = 1
  /\ swapCh' = 0
  /\ SwapQueues
  /\ why' = "swap"
  /\ dpc' = [dpc EXCEPT ![Writer] = "private"]
  /\ UNCHANGED <<life, sendVars, hand, out, histVars>>

\* A Flush found Run in its select: a.flushCh is unbuffered, so send and receive
\* are one step.
Handshake(f) ==
  /\ dpc[f] = "offer"
  /\ dpc[Writer] = "select"
  /\ SwapQueues
  /\ why' = "flush"
  /\ how' = [how EXCEPT ![f] = "handshake"]
  /\ dpc' = [dpc EXCEPT ![Writer] = "private", ![f] = "await"]
  /\ UNCHANGED <<life, swapCh, sendVars, hand, out, mark, stopMark, flushes>>

\* Mutant of Ack: done is not closed.
AckForgotten ==
  /\ dpc[Writer] = "ack"
  /\ dpc' = [dpc EXCEPT ![Writer] = "loop"]
  /\ UNCHANGED <<life, queueVars, sendVars, snap, why, hand, out, histVars>>

\* close(done).
Ack ==
  /\ dpc[Writer] = "ack"
  /\ dpc' = [t \in Drainers |-> IF t = Writer THEN "loop"
                                ELSE IF dpc[t] = "await" THEN "return" ELSE dpc[t]]
  /\ UNCHANGED <<life, queueVars, sendVars, snap, why, hand, out, histVars>>

TakeStop ==
  /\ dpc[Writer] = "select"
  /\ StopChClosed
  /\ why' = "stop"
  /\ dpc' = [dpc EXCEPT ![Writer] = "reread"]
  /\ UNCHANGED <<life, queueVars, sendVars, snap, hand, out, histVars>>

\* wg.Done, and bRunning = false behind it.
RunDone ==
  /\ dpc[Writer] = "returned"
  /\ dpc' = [dpc EXCEPT ![Writer] = "exited"]
  /\ UNCHANGED <<life, queueVars, sendVars, snap, why, hand, out, histVars>>

\* Mutants of Tick: the channel takes a token for every tick; the queues are
\* swapped only while messages wait in the front queue.
TickCounting ==
  /\ IsRunning
  /\ swapCh' = swapCh + 1
  /\ UNCHANGED <<life, public, closed, queue, sendVars, snap, drainVars, histVars>>
TickWhenBusy ==
  /\ IsRunning
  /\ queue[public] # <<>>
  /\ swapCh' = 1
  /\ UNCHANGED <<life, public, closed, queue, sendVars, snap, drainVars, histVars>>

\* swapLoop, while the consumer is running: the send does not block.
Tick ==
  /\ IsRunning
  /\ swapCh' = 1
  /\ UNCHANGED <<life, public, closed, queue, sendVars, snap, drainVars, histVars>>

-----------------------------------------------------------------------------
(* Flush and UnInit.                                                       *)

\* Flush is called and reads IsRunning.
Flush(f) ==
  /\ dpc[f] = "idle"
  /\ life \in {"running", "closed"}
  /\ flushes < MaxFlushes
  /\ flushes' = flushes + 1
  /\ mark' = [mark EXCEPT ![f] = accepted]
  /\ how' = [how EXCEPT ![f] = "fallback"]
  /\ dpc' = [dpc EXCEPT ![f] = IF IsRunning THEN "offer" ELSE "reread"]
  /\ UNCHANGED <<life, queueVars, sendVars, snap, why, hand, out, stopMark>>

\* The default case of Flush: Run is not waiting in its select.  It may still be
\* on its way to wait there.
FindBusy(f) ==
  /\ dpc[f] = "offer"
  /\ dpc' = [dpc EXCEPT ![f] = "reread"]
  /\ UNCHANGED <<life, queueVars, sendVars, snap, why, hand, out, histVars>>

FlushReturn(f) ==
  /\ dpc[f] = "return"
  /\ dpc' = [dpc EXCEPT ![f] = "idle"]
  /\ UNCHANGED <<life, queueVars, sendVars, snap, why, hand, out, histVars>>

\* Stop closes stopCh, then resets bRunning.
UnInitStop ==
  /\ life = "running"
  /\ \A f \in Flushers : dpc[f] = "idle"
  /\ life' = "stopping"
  /\ stopMark' = accepted
  /\ UNCHANGED <<queueVars, sendVars, snap, drainVars, mark, how, flushes>>

UnInitNotRunning ==
  /\ life = "stopping"
  /\ life' = "stopped"
  /\ UNCHANGED <<queueVars, sendVars, snap, drainVars, histVars>>

\* Mutant of UnInitJoin: nobody waits for Run.
UnInitNoJoin ==
  /\ life = "stopped"
  /\ life' = "joined"
  /\ UNCHANGED <<queueVars, sendVars, snap, drainVars, histVars>>

\* wg.Wait.
UnInitJoin ==
  /\ life = "stopped"
  /\ dpc[Writer] \in {"returned", "exited"}
  /\ life' = "joined"
  /\ UNCHANGED <<queueVars, sendVars, snap, drainVars, histVars>>

\* close(a.PublicQueue), a.PublicQueue = nil, close(a.PrivateQueue).
UnInitClosePublic ==
  /\ life = "joined"
  /\ life' = "closing"
  /\ closed' = {public}
  /\ UNCHANGED <<public, queue, swapCh, sendVars, snap, drainVars, histVars>>

UnInitNil ==
  /\ life = "closing"
  /\ life' = "cleared"
  /\ public' = 0
  /\ UNCHANGED <<closed, queue, swapCh, sendVars, snap, drainVars, histVars>>

UnInitClosePrivate ==
  /\ life = "cleared"
  /\ life' = "closed"
  /\ closed' = {1, 2}
  /\ UNCHANGED <<public, queue, swapCh, sendVars, snap, drainVars, histVars>>

-----------------------------------------------------------------------------
Produce(p) == Snapshot(p) \/ Send(p) \/ Refuse(p) \/ Panic(p)

Drain(t) == Receive(t) \/ Drained(t) \/ WriteMessage(t) \/ Reread(t)

RunStep == CheckRunning \/ TakeMessage \/ TakeSwap \/ Ack \/ TakeStop \/ RunDone

FlushStep(f) == Handshake(f) \/ FindBusy(f) \/ FlushReturn(f)

UnInit == \/ UnInitNotRunning \/ UnInitJoin
          \/ UnInitClosePublic \/ UnInitNil \/ UnInitClosePrivate

Next ==
  \/ \E p \in Producers : Produce(p)
  \/ \E t \in Drainers : Drain(t)
  \/ RunStep
  \/ Tick
  \/ \E f \in Flushers : Flush(f) \/ FlushStep(f)
  \/ UnInitStop
  \/ UnInit

Spec == Init /\ [][Next]_vars

\* A goroutine that can run is run, select chooses among its ready cases at
\* random, and the ticker ticks.  Nobody has to call Write, Flush or UnInit.
Fairness ==
  /\ \A t \in Drainers : WF_vars(Drain(t))
  /\ WF_vars(CheckRunning) /\ WF_vars(Ack) /\ WF_vars(RunDone)
  /\ SF_vars(TakeMessage) /\ SF_vars(TakeSwap) /\ SF_vars(TakeStop)
  /\ WF_vars(Tick)
  /\ \A f \in Flushers : WF_vars(FlushStep(f))
  /\ WF_vars(UnInit)

FairSpec == Spec /\ Fairness

-----------------------------------------------------------------------------
(* Properties.                                                             *)

\* Where the consumer and the flushers can be in their code.
Places == {"idle", "loop", "select", "message", "private", "reread", "public", "ack",
           "offer", "await", "return", "returned", "exited"}

TypeOK ==
  /\ life \in Stages
  /\ queue \in [1..2 -> Seq(Nat)]
  /\ public \in 0..2
  /\ closed \subseteq 1..2
  /\ swapCh \in 0..1
  /\ accepted \in Nat
  /\ ppc \in [Producers -> {"idle", "send", "panicked"}]
  /\ dpc \in [Drainers -> Places]
  /\ snap \in [Producers \cup Drainers -> 0..2]
  /\ why \in {"swap", "flush", "stop"}
  /\ hand \in [Drainers -> Nat]
  /\ out \in Seq(Nat)
  /\ mark \in [Flushers -> Nat]
  /\ how \in [Flushers -> {"handshake", "fallback"}]
  /\ stopMark \in Nat
  /\ flushes \in Nat

InQueue(m) == \E q \in 1..2 : \E i \in 1..Len(queue[q]) : queue[q][i] = m
InHand(m)  == \E t \in Drainers : hand[t] = m
Written(m) == \E i \in 1..Len(out) : out[i] = m

\* No accepted message disappears while the queues are swapped and two threads
\* drain them: it is in a queue, in the hand of a thread, or written.
NothingVanishes == \A m \in 1..accepted : InQueue(m) \/ InHand(m) \/ Written(m)

\* And none is written twice: what is written is neither queued nor in a hand,
\* and was written once.
WrittenOnce ==
  /\ \A i, j \in 1..Len(out) : out[i] = out[j] => i = j
  /\ \A i \in 1..Len(out) : ~InQueue(out[i]) /\ ~InHand(out[i])

\* A Flush that went through the consumer finds, in front and back queue, every
\* message accepted before it, those of late senders included: on return each
\* is written, or in the hand of another Flush.
HandshakeFlushes ==
  \A f \in Flushers : dpc[f] = "return" /\ how[f] = "handshake" =>
    \A m \in 1..mark[f] : Written(m) \/ \E g \in Flushers : hand[g] = m

\* The queues are closed only when nobody receives from them any more ("so the
\* data channels are only closed once there are no remaining receivers").
ClosedWithoutReceivers ==
  closed # {} => /\ dpc[Writer] \in {"returned", "exited"}
                 /\ \A t \in Drainers : hand[t] = 0

\* A message sent late to the back queue is not stranded: the swaps bring it to
\* the front in the end.
EventuallyWritten ==
  \A n \in 1..MaxMessages : accepted >= n ~> Written(n) \/ StopChClosed

\* A call of Flush returns, whether the consumer is ready, busy or gone.
FlushReturns == \A f \in Flushers : dpc[f] # "idle" ~> dpc[f] = "idle"

\* UnInit comes to its end.
UnInitCompletes == life = "stopping" ~> life = "closed"

\* "The channel object itself stays valid for the duration of the send."
SendIsSafe == \A p \in Producers : ppc[p] # "panicked"

\* "Stop requested: drain any pending messages, then exit."
StopDrains == life = "closed" => \A m \in 1..stopMark : Written(m)
=============================================================================
