------------------------ MODULE QueueAppenderProofs ------------------------
(* Theorems about QueueAppender, for every number of senders and flushers   *)
(* and every capacity: its types, that no accepted message vanishes and     *)
(* none is written twice, that the queues are closed without receivers, and *)
(* what Flush's handshake finds.                                            *)
EXTENDS QueueAppender, TLAPS, SequenceTheorems


\* What the shutdown relies on: which places hold a message, and what each stage
\* of UnInit knows of the consumer, the flushers and the queues.
CloseInv ==
  /\ public = 0 <=> life \in {"cleared", "closed"}
  /\ closed # {} => life \in {"closing", "cleared", "closed"}
  /\ life \in {"joined", "closing", "cleared", "closed"} => dpc[Writer] \in {"returned", "exited"}
  /\ hand[Writer] # 0 => dpc[Writer] \in {"message", "private", "public"}
  /\ \A f \in Flushers : dpc[f] # "private" /\ (hand[f] # 0 => dpc[f] = "public")
  /\ life \notin {"running", "closed"} => \A f \in Flushers : dpc[f] = "idle"
  /\ life = "closed" => \A f \in Flushers : hand[f] = 0 /\ (dpc[f] = "public" => snap[f] = 0)

-----------------------------------------------------------------------------
(* Types.                                                                  *)

LEMMA TypeInit == Init => TypeOK
<1> SUFFICES ASSUME Init PROVE TypeOK
  OBVIOUS
<1>1. queue \in [1..2 -> Seq(Nat)] /\ out \in Seq(Nat)
  BY DEF Init
<1>2. QED
  BY <1>1, CapAssumption DEF Init, TypeOK, Stages, Places

\* While Run is in its loop, PublicQueue names one of the two queues.
LEMMA PublicInLoop ==
  ASSUME TypeOK, CloseInv, dpc[Writer] \notin {"returned", "exited"}
  PROVE  public \in 1..2 /\ Private \in 1..2 /\ queue[public] \in Seq(Nat)
<1>1. public # 0
  BY DEF CloseInv
<1>2. public \in 1..2
  BY <1>1 DEF TypeOK
<1>3. QED
  BY <1>2 DEF TypeOK, Private

LEMMA TypeStep == TypeOK /\ CloseInv /\ [Next]_vars => TypeOK'
<1> SUFFICES ASSUME TypeOK, CloseInv, [Next]_vars PROVE TypeOK'
  OBVIOUS
<1> USE DEF TypeOK
<1>0. Writer \in Drainers /\ Writer \in Producers \cup Drainers
  BY DEF Drainers
<1>1. ASSUME NEW p \in Producers, Snapshot(p) PROVE TypeOK'
  BY <1>1 DEF Snapshot, queueVars, drainVars, histVars
<1>2. ASSUME NEW p \in Producers, Send(p) PROVE TypeOK'
  <2>1. snap[p] \in 1..2
    BY <1>2 DEF Send
  <2>2. queue[snap[p]] \in Seq(Nat) /\ accepted + 1 \in Nat
    BY <2>1
  <2>3. Append(queue[snap[p]], accepted + 1) \in Seq(Nat)
    BY <2>2
  <2>4. queue' \in [1..2 -> Seq(Nat)]
    BY <1>2, <2>1, <2>3 DEF Send
  <2>5. QED
    BY <1>2, <2>4 DEF Send, drainVars, histVars
<1>3. ASSUME NEW p \in Producers, Refuse(p) PROVE TypeOK'
  BY <1>3 DEF Refuse, queueVars, drainVars, histVars
<1>4. ASSUME NEW p \in Producers, Panic(p) PROVE TypeOK'
  BY <1>4 DEF Panic, queueVars, drainVars, histVars
<1>5. ASSUME NEW t \in Drainers, Receive(t) PROVE TypeOK'
  <2>1. snap[t] \in 1..2 /\ queue[snap[t]] # <<>>
    BY <1>5 DEF Receive
  <2>2. queue[snap[t]] \in Seq(Nat)
    BY <2>1
  <2>3. Head(queue[snap[t]]) \in Nat /\ Tail(queue[snap[t]]) \in Seq(Nat)
    BY <2>1, <2>2, HeadTailProperties
  <2>4. QED
    BY <1>5, <2>1, <2>3 DEF Receive, sendVars, histVars
<1>6. ASSUME NEW t \in Drainers, Drained(t) PROVE TypeOK'
  <2>1. AfterDrain(t) \in Places
    BY <1>6 DEF Drained, Draining, AfterDrain, Places
  <2>2. QED
    BY <1>6, <2>1 DEF Drained, queueVars, sendVars, histVars
<1>7. ASSUME NEW t \in Drainers, WriteMessage(t) PROVE TypeOK'
  <2>1. Append(out, hand[t]) \in Seq(Nat)
    OBVIOUS
  <2>2. QED
    BY <1>7, <2>1 DEF WriteMessage, Places, queueVars, sendVars, histVars
<1>8. ASSUME NEW t \in Drainers, Reread(t) PROVE TypeOK'
  BY <1>8 DEF Reread, Places, queueVars, sendVars, histVars
<1>9. CASE CheckRunning \/ Ack \/ TakeStop \/ RunDone
  BY <1>9 DEF CheckRunning, Ack, TakeStop, RunDone, Places, queueVars, sendVars, histVars
<1>10. CASE TakeMessage
  <2>1. public \in 1..2 /\ queue[public] \in Seq(Nat) /\ queue[public] # <<>>
    BY <1>10, PublicInLoop DEF TakeMessage
  <2>2. Head(queue[public]) \in Nat /\ Tail(queue[public]) \in Seq(Nat)
    BY <2>1, HeadTailProperties
  <2>3. Writer \in Drainers
    BY DEF Drainers
  <2>4. QED
    BY <1>10, <2>1, <2>2, <2>3 DEF TakeMessage, Places, sendVars, histVars
<1>11. CASE TakeSwap
  <2>1. public \in 1..2 /\ Private \in 1..2
    BY <1>11, PublicInLoop DEF TakeSwap
  <2>2. QED
    BY <1>0, <1>11, <2>1 DEF TakeSwap, SwapQueues, Places, sendVars, histVars
<1>12. ASSUME NEW f \in Flushers, Handshake(f) PROVE TypeOK'
  <2>1. public \in 1..2 /\ Private \in 1..2
    BY <1>12, PublicInLoop DEF Handshake
  <2>2. dpc' \in [Drainers -> Places]
    BY <1>12 DEF Handshake, Places
  <2>3. how' \in [Flushers -> {"handshake", "fallback"}]
    BY <1>12 DEF Handshake
  <2>4. snap' \in [Producers \cup Drainers -> 0..2] /\ public' \in 0..2
    BY <1>0, <1>12, <2>1 DEF Handshake, SwapQueues
  <2>5. why' = "flush" /\ UNCHANGED <<life, closed, queue, swapCh, sendVars, hand, out, mark, stopMark, flushes>>
    BY <1>12 DEF Handshake, SwapQueues
  <2>6. QED
    BY <2>2, <2>3, <2>4, <2>5 DEF sendVars
<1>13. ASSUME NEW f \in Flushers, Flush(f) PROVE TypeOK'
  <2>1. (IF IsRunning THEN "offer" ELSE "reread") \in Places
    BY DEF Places
  <2>2. dpc' \in [Drainers -> Places]
    BY <1>13, <2>1 DEF Flush
  <2>3. /\ how' \in [Flushers -> {"handshake", "fallback"}]
        /\ mark' \in [Flushers -> Nat] /\ flushes' \in Nat
    BY <1>13 DEF Flush
  <2>4. UNCHANGED <<life, queueVars, sendVars, snap, why, hand, out, stopMark>>
    BY <1>13 DEF Flush
  <2>5. QED
    BY <2>2, <2>3, <2>4 DEF queueVars, sendVars
<1>14. ASSUME NEW f \in Flushers, FindBusy(f) \/ FlushReturn(f) PROVE TypeOK'
  BY <1>14 DEF FindBusy, FlushReturn, Places, queueVars, sendVars, histVars
<1>15. CASE Tick
  BY <1>15 DEF Tick, sendVars, drainVars, histVars
<1>16. CASE UnInitStop
  BY <1>16 DEF UnInitStop, Stages, queueVars, sendVars, drainVars
<1>17. CASE UnInit
  <2>1. ASSUME UnInitNotRunning \/ UnInitJoin PROVE TypeOK'
    BY <2>1 DEF UnInitNotRunning, UnInitJoin, Stages, queueVars, sendVars, drainVars, histVars
  <2>2. ASSUME UnInitClosePublic PROVE TypeOK'
    <3>1. public \in 1..2
      BY <2>2 DEF UnInitClosePublic, CloseInv
    <3>2. {public} \subseteq 1..2
      BY <3>1
    <3>3. QED
      BY <2>2, <3>2 DEF UnInitClosePublic, Stages, sendVars, drainVars, histVars
  <2>3. ASSUME UnInitNil PROVE TypeOK'
    BY <2>3 DEF UnInitNil, Stages, sendVars, drainVars, histVars
  <2>4. ASSUME UnInitClosePrivate PROVE TypeOK'
    BY <2>4 DEF UnInitClosePrivate, Stages, sendVars, drainVars, histVars
  <2>5. QED
    BY <1>17, <2>1, <2>2, <2>3, <2>4 DEF UnInit
<1>18. CASE UNCHANGED vars
  BY <1>18 DEF vars, queueVars, sendVars, drainVars, histVars
<1>19. QED
  BY <1>1, <1>2, <1>3, <1>4, <1>5, <1>6, <1>7, <1>8, <1>9, <1>10, <1>11, <1>12, <1>13,
     <1>14, <1>15, <1>16, <1>17, <1>18
     DEF Next, Produce, Drain, RunStep, FlushStep

-----------------------------------------------------------------------------
(* The shutdown.                                                           *)

LEMMA CloseInit == Init => CloseInv
BY ThreadAssumption DEF Init, CloseInv, Drainers

LEMMA CloseStep == TypeOK /\ CloseInv /\ [Next]_vars => CloseInv'
<1> SUFFICES ASSUME TypeOK, CloseInv, [Next]_vars PROVE CloseInv'
  OBVIOUS
<1> USE ThreadAssumption DEF CloseInv, TypeOK, Drainers
<1>1. ASSUME NEW p \in Producers, Produce(p) PROVE CloseInv'
  BY <1>1 DEF Produce, Snapshot, Send, Refuse, Panic, queueVars, drainVars, histVars
<1>5. ASSUME NEW t \in Drainers, Receive(t) PROVE CloseInv'
  BY <1>5 DEF Receive, Draining, sendVars, histVars
<1>6. ASSUME NEW t \in Drainers, Drained(t) PROVE CloseInv'
  BY <1>6 DEF Drained, Draining, AfterDrain, queueVars, sendVars, histVars
<1>7. ASSUME NEW t \in Drainers, WriteMessage(t) PROVE CloseInv'
  BY <1>7 DEF WriteMessage, queueVars, sendVars, histVars
<1>8. ASSUME NEW t \in Drainers, Reread(t) PROVE CloseInv'
  BY <1>8 DEF Reread, queueVars, sendVars, histVars
<1>9. CASE CheckRunning \/ Ack \/ TakeStop \/ RunDone
  <2>1. CASE CheckRunning
    BY <2>1 DEF CheckRunning, queueVars, sendVars, histVars
  <2>2. CASE Ack
    BY <2>2 DEF Ack, queueVars, sendVars, histVars
  <2>3. CASE TakeStop
    BY <2>3 DEF TakeStop, queueVars, sendVars, histVars
  <2>4. CASE RunDone
    BY <2>4 DEF RunDone, queueVars, sendVars, histVars
  <2>5. QED
    BY <1>9, <2>1, <2>2, <2>3, <2>4
<1>10. CASE TakeMessage
  BY <1>10 DEF TakeMessage, sendVars, histVars
<1>11. CASE TakeSwap
  BY <1>11, PublicInLoop DEF TakeSwap, SwapQueues, sendVars, histVars
<1>12. ASSUME NEW f \in Flushers, Handshake(f) PROVE CloseInv'
  BY <1>12, PublicInLoop DEF Handshake, SwapQueues, sendVars
<1>13. ASSUME NEW f \in Flushers, Flush(f) PROVE CloseInv'
  BY <1>13 DEF Flush, queueVars, sendVars
<1>14. ASSUME NEW f \in Flushers, FindBusy(f) \/ FlushReturn(f) PROVE CloseInv'
  BY <1>14 DEF FindBusy, FlushReturn, queueVars, sendVars, histVars
<1>15. CASE Tick
  BY <1>15 DEF Tick, sendVars, drainVars, histVars
<1>16. CASE UnInitStop
  BY <1>16 DEF UnInitStop, queueVars, sendVars, drainVars
<1>17. CASE UnInit
  BY <1>17 DEF UnInit, UnInitNotRunning, UnInitJoin, UnInitClosePublic, UnInitNil,
     UnInitClosePrivate, queueVars, sendVars, drainVars, histVars
<1>18. CASE UNCHANGED vars
  BY <1>18 DEF vars, queueVars, sendVars, drainVars, histVars
<1>19. QED
  BY <1>1, <1>5, <1>6, <1>7, <1>8, <1>9, <1>10, <1>11, <1>12, <1>13,
     <1>14, <1>15, <1>16, <1>17, <1>18
     DEF Next, Drain, RunStep, FlushStep
-----------------------------------------------------------------------------
(* How messages move.                                                      *)

Occurs(m, s) == \E i \in 1..Len(s) : s[i] = m

Somewhere(m) == InQueue(m) \/ InHand(m) \/ Written(m)

\* Written, or on its way from the hand of a flusher.
Settled(m) == Written(m) \/ \E g \in Flushers : hand[g] = m

\* What a step does to the messages: at most one is accepted, the queues gain no
\* other, and none gets lost on its way.
Moved ==
  /\ accepted' \in {accepted, accepted + 1}
  /\ \A m \in Nat : \A q \in 1..2 :
       Occurs(m, queue'[q]) => Occurs(m, queue[q]) \/ (m = accepted' /\ accepted' = accepted + 1)
  /\ accepted' = accepted + 1 => Somewhere(accepted)'
  /\ \A m \in Nat \ {0} : Somewhere(m) => Somewhere(m)'
  /\ \A m \in Nat \ {0} : Settled(m) => Settled(m)'

\* A message of a queue is its head or in its tail.
LEMMA TailOccurs ==
  ASSUME NEW s \in Seq(Nat), s # <<>>, NEW m
  PROVE  Occurs(m, s) <=> m = Head(s) \/ Occurs(m, Tail(s))
<1>1. /\ Tail(s) \in Seq(Nat) /\ Len(Tail(s)) = Len(s) - 1
      /\ Head(s) = s[1] /\ Len(s) \in Nat /\ Len(s) >= 1
  OBVIOUS
<1>2. ASSUME NEW i \in 1..Len(s) - 1 PROVE Tail(s)[i] = s[i + 1]
  OBVIOUS
<1>3. ASSUME NEW i \in 1..Len(s), s[i] = m, i # 1 PROVE Occurs(m, Tail(s))
  <2>1. i - 1 \in 1..Len(s) - 1
    BY <1>1, <1>3
  <2>2. Tail(s)[i - 1] = s[(i - 1) + 1]
    BY <1>2, <2>1
  <2>3. (i - 1) + 1 = i
    BY <1>1
  <2>4. i - 1 \in 1..Len(Tail(s)) /\ Tail(s)[i - 1] = m
    BY <1>1, <1>3, <2>1, <2>2, <2>3
  <2>5. QED
    BY <2>4 DEF Occurs
<1>4. ASSUME NEW i \in 1..Len(Tail(s)), Tail(s)[i] = m PROVE Occurs(m, s)
  <2>1. i \in 1..Len(s) - 1 /\ i + 1 \in 1..Len(s)
    BY <1>1
  <2>2. s[i + 1] = m
    BY <1>2, <1>4, <2>1
  <2>3. QED
    BY <2>1, <2>2 DEF Occurs
<1>5. Occurs(m, s) => m = Head(s) \/ Occurs(m, Tail(s))
  BY <1>1, <1>3 DEF Occurs
<1>6. Occurs(Head(s), s)
  <2>1. 1 \in 1..Len(s) /\ s[1] = Head(s)
    BY <1>1
  <2>2. QED
    BY <2>1 DEF Occurs
<1>7. Occurs(m, Tail(s)) => Occurs(m, s)
  BY <1>4 DEF Occurs
<1>8. QED
  BY <1>5, <1>6, <1>7

\* Appending adds one message and keeps the others.
LEMMA AppendOccurs ==
  ASSUME NEW s \in Seq(Nat), NEW a \in Nat, NEW m
  PROVE  Occurs(m, Append(s, a)) <=> m = a \/ Occurs(m, s)
<1> DEFINE t == Append(s, a)
<1>1. /\ Len(t) = Len(s) + 1 /\ Len(s) \in Nat
      /\ \A i \in 1..Len(s) : t[i] = s[i]
      /\ t[Len(s) + 1] = a
  OBVIOUS
<1> HIDE DEF t
<1>2. ASSUME NEW i \in 1..Len(t), t[i] = m PROVE m = a \/ Occurs(m, s)
  <2>1. CASE i = Len(s) + 1
    BY <1>1, <1>2, <2>1
  <2>2. CASE i # Len(s) + 1
    <3>1. i \in 1..Len(s)
      BY <1>1, <2>2
    <3>2. s[i] = m
      BY <1>1, <1>2, <3>1
    <3>3. QED
      BY <3>1, <3>2 DEF Occurs
  <2>3. QED
    BY <2>1, <2>2
<1>3. ASSUME NEW i \in 1..Len(s), s[i] = m PROVE Occurs(m, t)
  <2>1. i \in 1..Len(t) /\ t[i] = m
    BY <1>1, <1>3
  <2>2. QED
    BY <2>1 DEF Occurs
<1>4. Occurs(a, t)
  <2>1. Len(s) + 1 \in 1..Len(t)
    BY <1>1
  <2>2. QED
    BY <1>1, <2>1 DEF Occurs
<1>5. Occurs(m, t) <=> m = a \/ Occurs(m, s)
  BY <1>2, <1>3, <1>4 DEF Occurs
<1>6. QED
  BY <1>5 DEF t

\* A step that leaves queues, hands and output alone.
LEMMA Unmoved ==
  TypeOK /\ UNCHANGED <<accepted, queue, hand, out>> => Moved
<1> SUFFICES ASSUME TypeOK, UNCHANGED <<accepted, queue, hand, out>> PROVE Moved
  OBVIOUS
<1>1. accepted' = accepted /\ queue' = queue /\ hand' = hand /\ out' = out
  OBVIOUS
<1>2. accepted' # accepted + 1
  BY <1>1 DEF TypeOK
<1>3. ASSUME NEW m PROVE /\ Somewhere(m) => Somewhere(m)'
                         /\ Settled(m) => Settled(m)'
  BY <1>1 DEF Somewhere, Settled, InQueue, InHand, Written
<1>4. QED
  BY <1>1, <1>2, <1>3 DEF Moved

\* Taking the head of a queue into an empty hand moves that message.
LEMMA Taken ==
  ASSUME NEW t \in Drainers, NEW q \in 1..2
  PROVE  /\ TypeOK /\ queue[q] # <<>> /\ hand[t] = 0
         /\ hand' = [hand EXCEPT ![t] = Head(queue[q])]
         /\ queue' = [queue EXCEPT ![q] = Tail(@)]
         /\ UNCHANGED <<accepted, out>>
         => Moved
<1> SUFFICES ASSUME TypeOK, queue[q] # <<>>, hand[t] = 0,
                    hand' = [hand EXCEPT ![t] = Head(queue[q])],
                    queue' = [queue EXCEPT ![q] = Tail(@)],
                    UNCHANGED <<accepted, out>>
             PROVE  Moved
  OBVIOUS
<1>1. queue[q] \in Seq(Nat) /\ accepted \in Nat
  BY DEF TypeOK
<1>2. /\ queue'[q] = Tail(queue[q])
      /\ \A r \in 1..2 : r # q => queue'[r] = queue[r]
      /\ hand'[t] = Head(queue[q])
      /\ \A u \in Drainers : u # t => hand'[u] = hand[u]
  BY DEF TypeOK
<1>3. accepted' = accepted /\ out' = out /\ accepted' # accepted + 1
  BY <1>1
<1>4. ASSUME NEW m PROVE Occurs(m, queue[q]) <=> m = Head(queue[q]) \/ Occurs(m, Tail(queue[q]))
  BY <1>1, TailOccurs
<1>5. ASSUME NEW m \in Nat, NEW r \in 1..2, Occurs(m, queue'[r]) PROVE Occurs(m, queue[r])
  <2>1. CASE r = q
    BY <1>2, <1>4, <1>5, <2>1
  <2>2. CASE r # q
    BY <1>2, <1>5, <2>2
  <2>3. QED
    BY <2>1, <2>2
<1>6. ASSUME NEW m \in Nat \ {0}, Somewhere(m) PROVE Somewhere(m)'
  <2>1. CASE InQueue(m)
    <3>1. PICK r \in 1..2 : Occurs(m, queue[r])
      BY <2>1 DEF InQueue, Occurs
    <3>2. Occurs(m, queue'[r]) \/ hand'[t] = m
      <4>1. CASE r = q
        BY <1>2, <1>4, <3>1, <4>1
      <4>2. CASE r # q
        BY <1>2, <3>1, <4>2
      <4>3. QED
        BY <4>1, <4>2
    <3>3. QED
      BY <3>2 DEF Somewhere, InQueue, InHand, Occurs
  <2>2. CASE InHand(m)
    BY <1>2, <2>2 DEF Somewhere, InHand
  <2>3. CASE Written(m)
    BY <1>3, <2>3 DEF Somewhere, Written
  <2>4. QED
    BY <1>6, <2>1, <2>2, <2>3 DEF Somewhere
<1>7. ASSUME NEW m \in Nat \ {0}, Settled(m) PROVE Settled(m)'
  <2>1. CASE Written(m)
    BY <1>3, <2>1 DEF Settled, Written
  <2>2. ASSUME NEW g \in Flushers, hand[g] = m PROVE Settled(m)'
    BY <1>2, <2>2 DEF Settled, Drainers
  <2>3. QED
    BY <1>7, <2>1, <2>2 DEF Settled
<1>8. QED
  BY <1>3, <1>5, <1>6, <1>7 DEF Moved

\* Writing moves a message from a hand to the output.
LEMMA WriteMoves ==
  ASSUME NEW t \in Drainers
  PROVE  TypeOK /\ WriteMessage(t) => Moved
<1> SUFFICES ASSUME TypeOK, WriteMessage(t) PROVE Moved
  OBVIOUS
<1>1. out \in Seq(Nat) /\ hand[t] \in Nat /\ accepted \in Nat
  BY DEF TypeOK
<1>2. /\ out' = Append(out, hand[t]) /\ accepted' = accepted /\ queue' = queue
      /\ \A u \in Drainers : u # t => hand'[u] = hand[u]
  BY DEF WriteMessage, TypeOK, queueVars, sendVars
<1>3. ASSUME NEW m PROVE Occurs(m, out') <=> m = hand[t] \/ Occurs(m, out)
  BY <1>1, <1>2, AppendOccurs
<1>4. ASSUME NEW m PROVE /\ Written(m) <=> Occurs(m, out)
                         /\ Written(m)' <=> Occurs(m, out')
  BY DEF Written, Occurs
<1>5. accepted' # accepted + 1
  BY <1>1, <1>2
<1>6. ASSUME NEW m, InHand(m) PROVE InHand(m)' \/ Written(m)'
  BY <1>2, <1>3, <1>4, <1>6 DEF InHand
<1>7. ASSUME NEW m PROVE Somewhere(m) => Somewhere(m)'
  <2>1. InQueue(m) => InQueue(m)'
    BY <1>2 DEF InQueue
  <2>2. QED
    BY <1>3, <1>4, <1>6, <2>1 DEF Somewhere
<1>8. ASSUME NEW m PROVE Settled(m) => Settled(m)'
  BY <1>2, <1>3, <1>4 DEF Settled, Drainers
<1>9. QED
  BY <1>2, <1>5, <1>7, <1>8 DEF Moved

\* Sending puts the accepted message into a queue.
LEMMA SendMoves ==
  ASSUME NEW p \in Producers
  PROVE  TypeOK /\ Send(p) => Moved
<1> SUFFICES ASSUME TypeOK, Send(p) PROVE Moved
  OBVIOUS
<1>1. snap[p] \in 1..2
  BY DEF Send, TypeOK
<1>2. PICK q \in 1..2 : q = snap[p]
  BY <1>1
<1>3. /\ queue' = [queue EXCEPT ![q] = Append(@, accepted + 1)]
      /\ accepted' = accepted + 1 /\ hand' = hand /\ out' = out
  BY <1>2 DEF Send, drainVars
<1>4. queue[q] \in Seq(Nat) /\ accepted + 1 \in Nat /\ queue \in [1..2 -> Seq(Nat)]
  BY DEF TypeOK
<1>5. /\ queue'[q] = Append(queue[q], accepted + 1)
      /\ \A r \in 1..2 : r # q => queue'[r] = queue[r]
  BY <1>3, <1>4
<1>6. ASSUME NEW m PROVE Occurs(m, queue'[q]) <=> m = accepted + 1 \/ Occurs(m, queue[q])
  BY <1>4, <1>5, AppendOccurs
<1>7. ASSUME NEW m \in Nat, NEW r \in 1..2, Occurs(m, queue'[r])
      PROVE  Occurs(m, queue[r]) \/ m = accepted'
  <2>1. CASE r = q
    BY <1>3, <1>6, <1>7, <2>1
  <2>2. CASE r # q
    BY <1>5, <1>7, <2>2
  <2>3. QED
    BY <2>1, <2>2
<1>8. ASSUME NEW m, InQueue(m) \/ m = accepted' PROVE InQueue(m)'
  <2>1. CASE m = accepted'
    BY <1>3, <1>6, <2>1 DEF InQueue, Occurs
  <2>2. CASE InQueue(m)
    <3>1. PICK r \in 1..2 : Occurs(m, queue[r])
      BY <2>2 DEF InQueue, Occurs
    <3>2. Occurs(m, queue'[r])
      <4>1. CASE r = q
        BY <1>6, <3>1, <4>1
      <4>2. CASE r # q
        BY <1>5, <3>1, <4>2
      <4>3. QED
        BY <4>1, <4>2
    <3>3. QED
      BY <3>2 DEF InQueue, Occurs
  <2>3. QED
    BY <1>8, <2>1, <2>2
<1>9. ASSUME NEW m PROVE /\ Somewhere(m) => Somewhere(m)'
                         /\ Settled(m) => Settled(m)'
  BY <1>3, <1>8 DEF Somewhere, Settled, InHand, Written
<1>10. Somewhere(accepted)'
  <2>1. InQueue(accepted)'
    BY <1>8 DEF InQueue
  <2>2. QED
    BY <2>1 DEF Somewhere
<1>11. QED
  BY <1>3, <1>7, <1>9, <1>10 DEF Moved

-----------------------------------------------------------------------------
(* The steps and the messages.                                             *)

\* A thread with an empty hand takes the head of a queue.
Takes(t, q) ==
  /\ queue[q] # <<>> /\ hand[t] = 0
  /\ hand' = [hand EXCEPT ![t] = Head(queue[q])]
  /\ queue' = [queue EXCEPT ![q] = Tail(@)]
  /\ UNCHANGED <<accepted, out>>

\* What a step may do to the messages: send one, take one, write one, or nothing.
MessageStep ==
  \/ \E p \in Producers : Send(p)
  \/ \E t \in Drainers, q \in 1..2 : Takes(t, q)
  \/ \E t \in Drainers : WriteMessage(t)
  \/ UNCHANGED <<accepted, queue, hand, out>>

LEMMA StepKinds == TypeOK /\ CloseInv /\ [Next]_vars => MessageStep
<1> SUFFICES ASSUME TypeOK, CloseInv, [Next]_vars PROVE MessageStep
  OBVIOUS
<1>1. ASSUME NEW p \in Producers, Send(p) PROVE MessageStep
  BY <1>1 DEF MessageStep
<1>2. ASSUME NEW p \in Producers, Snapshot(p) \/ Refuse(p) \/ Panic(p) PROVE MessageStep
  <2>1. UNCHANGED <<accepted, queue, hand, out>>
    BY <1>2 DEF Snapshot, Refuse, Panic, queueVars, drainVars
  <2>2. QED
    BY <2>1 DEF MessageStep
<1>3. ASSUME NEW t \in Drainers, Receive(t) PROVE MessageStep
  <2>1. snap[t] \in 1..2
    BY <1>3 DEF Receive, TypeOK, Drainers
  <2>2. PICK q \in 1..2 : q = snap[t]
    BY <2>1
  <2>3. /\ queue[q] # <<>> /\ hand[t] = 0
        /\ hand' = [hand EXCEPT ![t] = Head(queue[q])]
        /\ queue' = [queue EXCEPT ![q] = Tail(@)]
        /\ UNCHANGED <<accepted, out>>
    BY <1>3, <2>2 DEF Receive, sendVars
  <2>4. QED
    BY <2>3 DEF MessageStep, Takes
<1>4. ASSUME NEW t \in Drainers, WriteMessage(t) PROVE MessageStep
  BY <1>4 DEF MessageStep
<1>5. ASSUME NEW t \in Drainers, Drained(t) \/ Reread(t) PROVE MessageStep
  <2>1. UNCHANGED <<accepted, queue, hand, out>>
    BY <1>5 DEF Drained, Reread, queueVars, sendVars
  <2>2. QED
    BY <2>1 DEF MessageStep
<1>6. CASE TakeMessage
  <2>1. Writer \in Drainers /\ public \in 1..2
    BY <1>6, PublicInLoop DEF TakeMessage, Drainers
  <2>2. PICK q \in 1..2 : q = public
    BY <2>1
  <2>3. hand[Writer] = 0
    BY <1>6 DEF TakeMessage, CloseInv
  <2>4. /\ queue[q] # <<>>
        /\ hand' = [hand EXCEPT ![Writer] = Head(queue[q])]
        /\ queue' = [queue EXCEPT ![q] = Tail(@)]
        /\ UNCHANGED <<accepted, out>>
    BY <1>6, <2>2 DEF TakeMessage, sendVars
  <2>5. QED
    BY <2>1, <2>3, <2>4 DEF MessageStep, Takes
<1>7. CASE CheckRunning \/ TakeSwap \/ Ack \/ TakeStop \/ RunDone \/ Tick
  <2>1. UNCHANGED <<accepted, queue, hand, out>>
    BY <1>7 DEF CheckRunning, TakeSwap, Ack, TakeStop, RunDone, Tick, SwapQueues,
                queueVars, sendVars, drainVars
  <2>2. QED
    BY <2>1 DEF MessageStep
<1>8. ASSUME NEW f \in Flushers, Flush(f) \/ FlushStep(f) PROVE MessageStep
  <2>1. UNCHANGED <<accepted, queue, hand, out>>
    BY <1>8 DEF Flush, FlushStep, Handshake, FindBusy, FlushReturn, SwapQueues,
                queueVars, sendVars
  <2>2. QED
    BY <2>1 DEF MessageStep
<1>9. CASE UnInitStop \/ UnInit \/ UNCHANGED vars
  <2>1. UNCHANGED <<accepted, queue, hand, out>>
    BY <1>9 DEF UnInitStop, UnInit, UnInitNotRunning, UnInitJoin, UnInitClosePublic,
                UnInitNil, UnInitClosePrivate, vars, queueVars, sendVars, drainVars
  <2>2. QED
    BY <2>1 DEF MessageStep
<1>10. QED
  BY <1>1, <1>2, <1>3, <1>4, <1>5, <1>6, <1>7, <1>8, <1>9
     DEF Next, Produce, Drain, RunStep

LEMMA StepMoves == TypeOK /\ CloseInv /\ [Next]_vars => Moved
<1> SUFFICES ASSUME TypeOK, MessageStep PROVE Moved
  BY StepKinds
<1>1. ASSUME NEW t \in Drainers, NEW q \in 1..2, Takes(t, q) PROVE Moved
  BY <1>1, Taken DEF Takes
<1>2. QED
  BY <1>1, SendMoves, WriteMoves, Unmoved DEF MessageStep

LEMMA VanishInit == Init => NothingVanishes
BY DEF Init, NothingVanishes

LEMMA VanishStep == TypeOK /\ CloseInv /\ NothingVanishes /\ [Next]_vars => NothingVanishes'
<1> SUFFICES ASSUME TypeOK, CloseInv, NothingVanishes, [Next]_vars,
                    NEW m \in 1..accepted'
             PROVE  Somewhere(m)'
  BY DEF NothingVanishes, Somewhere
<1>1. Moved /\ accepted \in Nat
  BY StepMoves DEF TypeOK
<1>2. CASE m \in 1..accepted
  <2>1. Somewhere(m) /\ m \in Nat \ {0}
    BY <1>1, <1>2 DEF NothingVanishes, Somewhere
  <2>2. QED
    BY <1>1, <2>1 DEF Moved
<1>3. CASE m \notin 1..accepted
  <2>1. accepted' = accepted + 1 /\ m = accepted'
    BY <1>1, <1>3 DEF Moved
  <2>2. Somewhere(accepted)'
    BY <1>1, <2>1 DEF Moved
  <2>3. QED
    BY <2>1, <2>2
<1>4. QED
  BY <1>2, <1>3

-----------------------------------------------------------------------------
(* The handshake of Flush.                                                 *)

\* No message that a flusher asked for is in the queue.
Emptied(f, q) == \A m \in 1..mark[f] : ~Occurs(m, queue[q])

\* How far the consumer has come with the flushers that wait for it.
AwaitInv(f) ==
  dpc[f] = "await" =>
    /\ how[f] = "handshake" /\ why = "flush"
    /\ public \in 1..2
    /\ dpc[Writer] \in {"private", "reread", "public", "ack"}
    /\ dpc[Writer] = "private" => snap[Writer] = Private
    /\ dpc[Writer] = "public" => snap[Writer] = public
    /\ dpc[Writer] # "private" => Emptied(f, Private)
    /\ dpc[Writer] = "ack" => Emptied(f, public)

ReturnInv(f) ==
  /\ mark[f] <= accepted
  /\ dpc[f] \in {"offer", "reread", "public"} => how[f] = "fallback"
  /\ dpc[f] = "return" /\ how[f] = "handshake" => \A m \in 1..mark[f] : Settled(m)

FlushInv == \A f \in Flushers : AwaitInv(f) /\ ReturnInv(f)

\* A queue without a flusher's messages gets none of them later.
LEMMA StaysEmptied ==
  ASSUME NEW f \in Flushers, NEW q \in 1..2
  PROVE  TypeOK /\ Moved /\ ReturnInv(f) /\ mark'[f] = mark[f] /\ Emptied(f, q)
         => \A m \in 1..mark'[f] : ~Occurs(m, queue'[q])
<1> SUFFICES ASSUME TypeOK, Moved, ReturnInv(f), mark'[f] = mark[f], Emptied(f, q),
                    NEW m \in 1..mark[f], Occurs(m, queue'[q])
             PROVE  FALSE
  OBVIOUS
<1>1. mark[f] <= accepted /\ accepted \in Nat /\ mark[f] \in Nat
  BY DEF ReturnInv, TypeOK
<1>2. m \in Nat /\ m < accepted + 1
  BY <1>1
<1>3. Occurs(m, queue[q]) \/ m = accepted + 1
  BY <1>2 DEF Moved
<1>4. QED
  BY <1>2, <1>3 DEF Emptied

\* A step that neither the flusher nor the consumer takes.
LEMMA AwaitKept ==
  ASSUME NEW f \in Flushers
  PROVE  /\ TypeOK /\ Moved /\ AwaitInv(f) /\ ReturnInv(f)
         /\ mark'[f] = mark[f] /\ how'[f] = how[f] /\ why' = why
         /\ dpc'[f] = dpc[f] /\ dpc'[Writer] = dpc[Writer] /\ snap'[Writer] = snap[Writer]
         /\ public' = public
         => AwaitInv(f)'
<1> SUFFICES ASSUME TypeOK, Moved, AwaitInv(f), ReturnInv(f), mark'[f] = mark[f],
                    how'[f] = how[f], why' = why, dpc'[f] = dpc[f],
                    dpc'[Writer] = dpc[Writer], snap'[Writer] = snap[Writer],
                    public' = public, dpc[f] = "await"
             PROVE  AwaitInv(f)'
  BY DEF AwaitInv
<1>1. public \in 1..2 /\ Private \in 1..2 /\ Private' = Private
  BY DEF AwaitInv, Private
<1>2. Emptied(f, Private) => Emptied(f, Private)'
  <2>1. PICK q \in 1..2 : q = Private
    BY <1>1
  <2>2. Emptied(f, q) => \A m \in 1..mark'[f] : ~Occurs(m, queue'[q])
    BY StaysEmptied
  <2>3. QED
    BY <1>1, <2>1, <2>2 DEF Emptied
<1>3. Emptied(f, public) => Emptied(f, public)'
  <2>1. PICK q \in 1..2 : q = public
    BY <1>1
  <2>2. Emptied(f, q) => \A m \in 1..mark'[f] : ~Occurs(m, queue'[q])
    BY StaysEmptied
  <2>3. QED
    BY <2>1, <2>2 DEF Emptied
<1>4. QED
  BY <1>1, <1>2, <1>3 DEF AwaitInv

\* A step in which no Flush is called and none returns from its handshake.
LEMMA ReturnKept ==
  ASSUME NEW f \in Flushers
  PROVE  /\ TypeOK /\ Moved /\ ReturnInv(f) /\ mark'[f] = mark[f] /\ how'[f] = how[f]
         /\ dpc'[f] \in {"offer", "reread", "public"} => dpc[f] \in {"offer", "reread", "public"}
         /\ dpc'[f] = "return" /\ how[f] = "handshake" => dpc[f] = "return"
         => ReturnInv(f)'
<1> SUFFICES ASSUME TypeOK, Moved, ReturnInv(f), mark'[f] = mark[f], how'[f] = how[f],
                    dpc'[f] \in {"offer", "reread", "public"} => dpc[f] \in {"offer", "reread", "public"},
                    dpc'[f] = "return" /\ how[f] = "handshake" => dpc[f] = "return"
             PROVE  ReturnInv(f)'
  OBVIOUS
<1>1. mark'[f] <= accepted'
  BY DEF ReturnInv, Moved, TypeOK
<1>2. ASSUME dpc'[f] = "return", how'[f] = "handshake", NEW m \in 1..mark'[f]
      PROVE  Settled(m)'
  <2>1. m \in Nat \ {0} /\ m \in 1..mark[f]
    BY DEF TypeOK
  <2>2. Settled(m)
    BY <1>2, <2>1 DEF ReturnInv
  <2>3. QED
    BY <2>1, <2>2 DEF Moved
<1>3. QED
  BY <1>1, <1>2 DEF ReturnInv

LEMMA FlushInit == Init => FlushInv
<1> SUFFICES ASSUME Init, NEW f \in Flushers PROVE AwaitInv(f) /\ ReturnInv(f)
  BY DEF FlushInv
<1>1. f # Writer /\ f \in Drainers
  BY ThreadAssumption DEF Drainers
<1>2. dpc[f] = "idle" /\ mark[f] = 0 /\ accepted = 0
  BY <1>1 DEF Init
<1>3. QED
  BY <1>2 DEF AwaitInv, ReturnInv

\* What every step but the flusher's own and the consumer's leaves alone.
Bystander(f) ==
  /\ UNCHANGED <<why, mark, how, public>>
  /\ dpc'[f] = dpc[f] /\ dpc'[Writer] = dpc[Writer] /\ snap'[Writer] = snap[Writer]

LEMMA BystanderStep ==
  ASSUME NEW f \in Flushers
  PROVE  TypeOK /\ Moved /\ AwaitInv(f) /\ ReturnInv(f) /\ Bystander(f)
         => AwaitInv(f)' /\ ReturnInv(f)'
<1> SUFFICES ASSUME TypeOK, Moved, AwaitInv(f), ReturnInv(f), Bystander(f)
             PROVE  AwaitInv(f)' /\ ReturnInv(f)'
  OBVIOUS
<1>1. AwaitInv(f)'
  BY AwaitKept DEF Bystander
<1>2. ReturnInv(f)'
  BY ReturnKept DEF Bystander
<1>3. QED
  BY <1>1, <1>2

\* The consumer, while nobody waits for it.
LEMMA AloneStep ==
  ASSUME NEW f \in Flushers
  PROVE  TypeOK /\ Moved /\ ReturnInv(f) /\ UNCHANGED <<mark, how>>
         /\ dpc'[f] = dpc[f] /\ dpc[f] # "await"
         => AwaitInv(f)' /\ ReturnInv(f)'
<1> SUFFICES ASSUME TypeOK, Moved, ReturnInv(f), UNCHANGED <<mark, how>>,
                    dpc'[f] = dpc[f], dpc[f] # "await"
             PROVE  AwaitInv(f)' /\ ReturnInv(f)'
  OBVIOUS
<1>1. ReturnInv(f)'
  BY ReturnKept
<1>2. QED
  BY <1>1 DEF AwaitInv

\* Run finds a queue empty: if a flusher waits, none of its messages is there.
LEMMA WriterDrainedStep ==
  ASSUME NEW f \in Flushers
  PROVE  TypeOK /\ CloseInv /\ Moved /\ AwaitInv(f) /\ ReturnInv(f) /\ Drained(Writer)
         => AwaitInv(f)' /\ ReturnInv(f)'
<1> SUFFICES ASSUME TypeOK, CloseInv, Moved, AwaitInv(f), ReturnInv(f), Drained(Writer)
             PROVE  AwaitInv(f)' /\ ReturnInv(f)'
  OBVIOUS
<1>1. f # Writer /\ f \in Drainers /\ Writer \in Drainers
  BY ThreadAssumption DEF Drainers
<1>2. /\ UNCHANGED <<why, mark, how, public, queue>> /\ dpc'[f] = dpc[f]
      /\ dpc'[Writer] = AfterDrain(Writer) /\ snap'[Writer] = 0
      /\ dpc[Writer] \in Draining
      /\ snap[Writer] # 0 => queue[snap[Writer]] = <<>>
  BY <1>1 DEF Drained, TypeOK, queueVars, histVars
<1>3. CASE dpc[f] # "await"
  BY <1>2, <1>3, AloneStep
<1>4. CASE dpc[f] = "await"
  <2>1. ReturnInv(f)'
    BY <1>2, ReturnKept
  <2>2. /\ public \in 1..2 /\ Private \in 1..2 /\ Private' = Private
        /\ why = "flush" /\ how[f] = "handshake"
    BY <1>2, <1>4 DEF AwaitInv, Private
  <2>3. ASSUME NEW q, queue[q] = <<>> PROVE Emptied(f, q)
    BY <2>3 DEF Emptied, Occurs
  <2>4. CASE dpc[Writer] = "private"
    <3>1. queue[Private] = <<>>
      BY <1>2, <1>4, <2>2, <2>4 DEF AwaitInv
    <3>2. Emptied(f, Private)'
      BY <1>2, <2>2, <2>3, <3>1 DEF Emptied
    <3>3. dpc'[Writer] = "reread"
      BY <1>2, <2>2, <2>4 DEF AfterDrain
    <3>4. QED
      BY <1>2, <2>1, <2>2, <3>2, <3>3 DEF AwaitInv
  <2>5. CASE dpc[Writer] = "public"
    <3>1. queue[public] = <<>> /\ Emptied(f, Private)
      BY <1>2, <1>4, <2>2, <2>5 DEF AwaitInv
    <3>2. Emptied(f, Private)' /\ Emptied(f, public)'
      BY <1>2, <2>2, <2>3, <3>1 DEF Emptied
    <3>3. dpc'[Writer] = "ack"
      BY <1>2, <2>2, <2>5 DEF AfterDrain
    <3>4. QED
      BY <1>2, <2>1, <2>2, <3>2, <3>3 DEF AwaitInv
  <2>6. QED
    BY <1>2, <2>4, <2>5 DEF Draining
<1>5. QED
  BY <1>3, <1>4

\* Run goes on to the new front queue.
LEMMA WriterRereadStep ==
  ASSUME NEW f \in Flushers
  PROVE  TypeOK /\ Moved /\ AwaitInv(f) /\ ReturnInv(f) /\ Reread(Writer)
         => AwaitInv(f)' /\ ReturnInv(f)'
<1> SUFFICES ASSUME TypeOK, Moved, AwaitInv(f), ReturnInv(f), Reread(Writer)
             PROVE  AwaitInv(f)' /\ ReturnInv(f)'
  OBVIOUS
<1>1. f # Writer /\ f \in Drainers /\ Writer \in Drainers
  BY ThreadAssumption DEF Drainers
<1>2. /\ UNCHANGED <<why, mark, how, public, queue>> /\ dpc'[f] = dpc[f]
      /\ dpc'[Writer] = "public" /\ snap'[Writer] = public /\ dpc[Writer] = "reread"
  BY <1>1 DEF Reread, TypeOK, queueVars, histVars
<1>3. ReturnInv(f)'
  BY <1>2, ReturnKept
<1>4. CASE dpc[f] # "await"
  BY <1>2, <1>4, AloneStep
<1>5. CASE dpc[f] = "await"
  <2>1. Private' = Private
    BY <1>2 DEF Private
  <2>2. Emptied(f, Private)'
    BY <1>2, <1>5, <2>1 DEF AwaitInv, Emptied
  <2>3. QED
    BY <1>2, <1>3, <1>5, <2>2 DEF AwaitInv
<1>6. QED
  BY <1>4, <1>5

\* done is closed: each message the flusher asked for has left both queues.
LEMMA AckStep ==
  ASSUME NEW f \in Flushers
  PROVE  TypeOK /\ CloseInv /\ NothingVanishes /\ Moved /\ AwaitInv(f) /\ ReturnInv(f) /\ Ack
         => AwaitInv(f)' /\ ReturnInv(f)'
<1> SUFFICES ASSUME TypeOK, CloseInv, NothingVanishes, Moved, AwaitInv(f), ReturnInv(f), Ack
             PROVE  AwaitInv(f)' /\ ReturnInv(f)'
  OBVIOUS
<1>1. f # Writer /\ f \in Drainers /\ Writer \in Drainers
  BY ThreadAssumption DEF Drainers
<1>2. /\ UNCHANGED <<mark, how, accepted, hand, out>> /\ dpc[Writer] = "ack"
      /\ dpc'[f] = IF dpc[f] = "await" THEN "return" ELSE dpc[f]
  BY <1>1 DEF Ack, sendVars, histVars
<1>3. CASE dpc[f] # "await"
  BY <1>2, <1>3, AloneStep
<1>4. CASE dpc[f] = "await"
  <2>1. dpc'[f] = "return"
    BY <1>2, <1>4
  <2>2. public \in 1..2 /\ Private = 3 - public /\ hand[Writer] = 0
    BY <1>2, <1>4 DEF AwaitInv, Private, CloseInv
  <2>3. ASSUME NEW m \in 1..mark[f] PROVE Settled(m)'
    <3>1. m \in 1..accepted /\ m # 0
      BY DEF ReturnInv, TypeOK
    <3>2. ASSUME NEW q \in 1..2 PROVE ~Occurs(m, queue[q])
      <4>1. q = public \/ q = Private
        BY <2>2
      <4>2. QED
        BY <1>2, <1>4, <4>1 DEF AwaitInv, Emptied
    <3>3. ~InQueue(m)
      BY <3>2 DEF InQueue, Occurs
    <3>4. InHand(m) \/ Written(m)
      BY <3>1, <3>3 DEF NothingVanishes
    <3>5. Settled(m)
      BY <2>2, <3>1, <3>4 DEF Settled, InHand, Drainers
    <3>6. QED
      BY <1>2, <3>5 DEF Settled, Written
  <2>4. mark'[f] <= accepted'
    BY <1>2 DEF ReturnInv
  <2>5. ReturnInv(f)'
    BY <1>2, <2>1, <2>3, <2>4 DEF ReturnInv
  <2>6. QED
    BY <2>1, <2>5 DEF AwaitInv
<1>5. QED
  BY <1>3, <1>4

\* Run serves a Flush: the former front queue is drained first.
LEMMA HandshakeStep ==
  ASSUME NEW f \in Flushers, NEW g \in Flushers
  PROVE  TypeOK /\ CloseInv /\ Moved /\ AwaitInv(f) /\ ReturnInv(f) /\ Handshake(g)
         => AwaitInv(f)' /\ ReturnInv(f)'
<1> SUFFICES ASSUME TypeOK, CloseInv, Moved, AwaitInv(f), ReturnInv(f), Handshake(g)
             PROVE  AwaitInv(f)' /\ ReturnInv(f)'
  OBVIOUS
<1>1. f # Writer /\ g # Writer /\ f \in Drainers /\ g \in Drainers /\ Writer \in Drainers
  BY ThreadAssumption DEF Drainers
<1>2. /\ mark' = mark /\ dpc[Writer] = "select" /\ dpc[g] = "offer" /\ why' = "flush"
      /\ public' = Private /\ snap'[Writer] = public
      /\ dpc'[Writer] = "private" /\ dpc'[g] = "await" /\ how'[g] = "handshake"
      /\ f # g => dpc'[f] = dpc[f] /\ how'[f] = how[f]
  BY <1>1 DEF Handshake, SwapQueues, TypeOK
<1>3. dpc[f] # "await"
  BY <1>2 DEF AwaitInv
<1>4. mark'[f] <= accepted'
  BY <1>2 DEF ReturnInv, Moved, TypeOK
<1>5. CASE f = g
  <2>1. public \in 1..2 /\ Private \in 1..2
    BY <1>2, PublicInLoop
  <2>2. public' \in 1..2 /\ Private' = public
    BY <1>2, <2>1 DEF Private
  <2>3. AwaitInv(f)'
    BY <1>2, <1>5, <2>2 DEF AwaitInv
  <2>4. ReturnInv(f)'
    BY <1>2, <1>4, <1>5 DEF ReturnInv
  <2>5. QED
    BY <2>3, <2>4
<1>6. CASE f # g
  <2>1. ReturnInv(f)'
    BY <1>2, <1>6, ReturnKept
  <2>2. QED
    BY <1>2, <1>3, <1>6, <2>1 DEF AwaitInv
<1>7. QED
  BY <1>5, <1>6

\* A Flush is called.
LEMMA FlushCallStep ==
  ASSUME NEW f \in Flushers, NEW g \in Flushers
  PROVE  TypeOK /\ Moved /\ AwaitInv(f) /\ ReturnInv(f) /\ Flush(g)
         => AwaitInv(f)' /\ ReturnInv(f)'
<1> SUFFICES ASSUME TypeOK, Moved, AwaitInv(f), ReturnInv(f), Flush(g)
             PROVE  AwaitInv(f)' /\ ReturnInv(f)'
  OBVIOUS
<1>1. f # Writer /\ g # Writer /\ f \in Drainers /\ g \in Drainers /\ Writer \in Drainers
  BY ThreadAssumption DEF Drainers
<1>2. /\ UNCHANGED <<why, public, snap, accepted>>
      /\ dpc'[g] \in {"offer", "reread"} /\ mark'[g] = accepted /\ how'[g] = "fallback"
      /\ dpc'[Writer] = dpc[Writer]
      /\ f # g => dpc'[f] = dpc[f] /\ mark'[f] = mark[f] /\ how'[f] = how[f]
  BY <1>1 DEF Flush, TypeOK, queueVars, sendVars
<1>3. CASE f = g
  BY <1>2, <1>3 DEF AwaitInv, ReturnInv, TypeOK
<1>4. CASE f # g
  <2>1. AwaitInv(f)'
    BY <1>2, <1>4, AwaitKept
  <2>2. ReturnInv(f)'
    BY <1>2, <1>4, ReturnKept
  <2>3. QED
    BY <2>1, <2>2
<1>5. QED
  BY <1>3, <1>4

\* A flusher drains for itself or returns.
LEMMA FlusherStep ==
  ASSUME NEW f \in Flushers, NEW g \in Flushers
  PROVE  TypeOK /\ CloseInv /\ Moved /\ AwaitInv(f) /\ ReturnInv(f)
         /\ (Drained(g) \/ Reread(g) \/ FindBusy(g) \/ FlushReturn(g))
         => AwaitInv(f)' /\ ReturnInv(f)'
<1> SUFFICES ASSUME TypeOK, CloseInv, Moved, AwaitInv(f), ReturnInv(f),
                    Drained(g) \/ Reread(g) \/ FindBusy(g) \/ FlushReturn(g)
             PROVE  AwaitInv(f)' /\ ReturnInv(f)'
  OBVIOUS
<1>1. f # Writer /\ g # Writer /\ f \in Drainers /\ g \in Drainers /\ Writer \in Drainers
  BY ThreadAssumption DEF Drainers
<1>2. /\ UNCHANGED <<why, mark, how, public>>
      /\ dpc'[Writer] = dpc[Writer] /\ snap'[Writer] = snap[Writer]
      /\ f # g => dpc'[f] = dpc[f]
  BY <1>1 DEF Drained, Reread, FindBusy, FlushReturn, TypeOK, queueVars, histVars
<1>3. \/ dpc[g] \in Draining /\ dpc'[g] = AfterDrain(g)
      \/ dpc[g] = "reread" /\ dpc'[g] = "public"
      \/ dpc[g] = "offer" /\ dpc'[g] = "reread"
      \/ dpc[g] = "return" /\ dpc'[g] = "idle"
  BY <1>1 DEF Drained, Reread, FindBusy, FlushReturn, TypeOK
<1>4. CASE f # g
  BY <1>2, <1>4, BystanderStep DEF Bystander
<1>5. CASE f = g
  <2>1. dpc[f] \in Draining => dpc[f] = "public" /\ AfterDrain(f) = "return"
    BY <1>1 DEF CloseInv, Draining, AfterDrain
  <2>2. dpc'[f] # "await"
    BY <1>3, <1>5, <2>1
  <2>3. dpc'[f] \in {"offer", "reread", "public"} => dpc[f] \in {"offer", "reread", "public"}
    BY <1>3, <1>5, <2>1
  <2>4. dpc'[f] = "return" /\ how[f] = "handshake" => dpc[f] = "return"
    BY <1>3, <1>5, <2>1 DEF ReturnInv
  <2>5. ReturnInv(f)'
    BY <1>2, <2>3, <2>4, ReturnKept
  <2>6. QED
    BY <2>2, <2>5 DEF AwaitInv
<1>6. QED
  BY <1>4, <1>5

LEMMA FlushInvStep ==
  TypeOK /\ CloseInv /\ NothingVanishes /\ FlushInv /\ [Next]_vars => FlushInv'
<1> SUFFICES ASSUME TypeOK, CloseInv, NothingVanishes, FlushInv, [Next]_vars,
                    NEW f \in Flushers
             PROVE  AwaitInv(f)' /\ ReturnInv(f)'
  BY DEF FlushInv
<1> DEFINE Goal == AwaitInv(f)' /\ ReturnInv(f)'
<1>0. /\ Moved /\ AwaitInv(f) /\ ReturnInv(f)
      /\ f # Writer /\ f \in Drainers /\ Writer \in Drainers
  BY StepMoves, ThreadAssumption DEF FlushInv, Drainers
<1>1. ASSUME Bystander(f) PROVE Goal
  BY <1>0, <1>1, BystanderStep
<1>2. ASSUME UNCHANGED <<mark, how>>, dpc'[f] = dpc[f], dpc[Writer] \in {"loop", "select", "message", "returned"}
      PROVE  Goal
  <2>1. dpc[f] # "await"
    BY <1>0, <1>2 DEF AwaitInv
  <2>2. QED
    BY <1>0, <1>2, <2>1, AloneStep
<1>3. ASSUME NEW p \in Producers, Produce(p) PROVE Goal
  <2>1. p # Writer
    BY ThreadAssumption
  <2>2. Bystander(f)
    BY <1>0, <1>3, <2>1 DEF Produce, Snapshot, Send, Refuse, Panic, Bystander, TypeOK,
                      queueVars, drainVars, histVars
  <2>3. QED
    BY <1>1, <2>2
<1>4. ASSUME NEW t \in Drainers, Receive(t) \/ WriteMessage(t) PROVE Goal
  <2>1. CASE Receive(t)
    <3>1. Bystander(f)
      BY <2>1 DEF Receive, Bystander, histVars
    <3>2. QED
      BY <1>1, <3>1
  <2>2. CASE WriteMessage(t) /\ dpc[t] # "message"
    <3>1. Bystander(f)
      BY <1>0, <2>2 DEF WriteMessage, Bystander, TypeOK, queueVars, histVars
    <3>2. QED
      BY <1>1, <3>1
  <2>3. CASE WriteMessage(t) /\ dpc[t] = "message"
    <3>1. t = Writer
      BY <2>3 DEF WriteMessage, CloseInv, Drainers
    <3>2. UNCHANGED <<mark, how>> /\ dpc'[f] = dpc[f]
      BY <1>0, <2>3, <3>1 DEF WriteMessage, TypeOK, histVars
    <3>3. QED
      BY <1>2, <2>3, <3>1, <3>2
  <2>4. QED
    BY <1>4, <2>1, <2>2, <2>3
<1>5. ASSUME NEW t \in Drainers, Drained(t) \/ Reread(t) PROVE Goal
  <2>1. CASE t = Writer
    BY <1>0, <1>5, <2>1, WriterDrainedStep, WriterRereadStep
  <2>2. CASE t \in Flushers
    BY <1>0, <1>5, <2>2, FlusherStep
  <2>3. QED
    BY <2>1, <2>2 DEF Drainers
<1>6. CASE CheckRunning \/ TakeMessage \/ TakeSwap \/ TakeStop \/ RunDone
  <2>1. /\ UNCHANGED <<mark, how>> /\ dpc'[f] = dpc[f]
        /\ dpc[Writer] \in {"loop", "select", "returned"}
    BY <1>0, <1>6 DEF CheckRunning, TakeMessage, TakeSwap, TakeStop, RunDone, TypeOK, histVars
  <2>2. QED
    BY <1>2, <2>1
<1>7. CASE Ack
  BY <1>0, <1>7, AckStep
<1>8. ASSUME NEW g \in Flushers, Flush(g) \/ FlushStep(g) PROVE Goal
  BY <1>0, <1>8, FlushCallStep, HandshakeStep, FlusherStep DEF FlushStep
<1>9. CASE Tick \/ UnInitStop \/ UNCHANGED vars
  <2>1. Bystander(f)
    BY <1>9 DEF Tick, UnInitStop, Bystander, vars, queueVars, drainVars, histVars
  <2>2. QED
    BY <1>1, <2>1
<1>10. CASE UnInit
  <2>1. CASE UnInitNil
    <3>1. dpc[f] = "idle" /\ UNCHANGED <<mark, how, dpc>>
      BY <2>1 DEF UnInitNil, CloseInv, drainVars, histVars
    <3>2. QED
      BY <1>0, <3>1, AloneStep
  <2>2. CASE ~UnInitNil
    <3>1. Bystander(f)
      BY <1>10, <2>2 DEF UnInit, UnInitNotRunning, UnInitJoin, UnInitClosePublic,
         UnInitClosePrivate, Bystander, queueVars, drainVars, histVars
    <3>2. QED
      BY <1>1, <3>1
  <2>3. QED
    BY <2>1, <2>2
<1>11. QED
  BY <1>3, <1>4, <1>5, <1>6, <1>7, <1>8, <1>9, <1>10 DEF Next, Drain, RunStep

LEMMA HandshakeHolds == FlushInv => HandshakeFlushes
BY DEF FlushInv, ReturnInv, HandshakeFlushes, Settled

LEMMA ClosedHolds == TypeOK /\ CloseInv => ClosedWithoutReceivers
<1> SUFFICES ASSUME TypeOK, CloseInv, closed # {}
             PROVE  /\ dpc[Writer] \in {"returned", "exited"}
                    /\ \A t \in Drainers : hand[t] = 0
  BY DEF ClosedWithoutReceivers
<1>1. life \in {"closing", "cleared", "closed"}
  BY DEF CloseInv
<1>2. dpc[Writer] \in {"returned", "exited"} /\ hand[Writer] = 0
  BY <1>1 DEF CloseInv
<1>3. ASSUME NEW f \in Flushers PROVE hand[f] = 0
  BY <1>1 DEF CloseInv
<1>4. QED
  BY <1>2, <1>3 DEF Drainers

-----------------------------------------------------------------------------
(* No message is written twice: a number is at one place only.             *)

Distinct(s) == \A i, j \in 1..Len(s) : s[i] = s[j] => i = j

\* Numbers are those of accepted messages.
Numbered ==
  /\ \A q \in 1..2 : \A m : Occurs(m, queue[q]) => m \in 1..accepted
  /\ \A t \in Drainers : hand[t] \in 0..accepted
  /\ \A m : Occurs(m, out) => m \in 1..accepted

\* Each is once in one queue, in one hand, or once in the output.
Queued(m)  == \E q \in 1..2 : Occurs(m, queue[q])
OnePlace ==
  /\ \A q \in 1..2 : Distinct(queue[q])
  /\ \A m : \A q, r \in 1..2 : Occurs(m, queue[q]) /\ Occurs(m, queue[r]) => q = r
  /\ \A t, u \in Drainers : hand[t] # 0 /\ hand[t] = hand[u] => t = u
  /\ \A t \in Drainers : ~Queued(hand[t])
  /\ Distinct(out)
  /\ \A m : Occurs(m, out) => ~Queued(m) /\ \A t \in Drainers : hand[t] # m

OnceInv == Numbered /\ OnePlace

LEMMA TailDistinct ==
  ASSUME NEW s \in Seq(Nat), s # <<>>, Distinct(s)
  PROVE  Distinct(Tail(s)) /\ ~Occurs(Head(s), Tail(s))
<1>1. /\ Tail(s) \in Seq(Nat) /\ Len(Tail(s)) = Len(s) - 1
      /\ Head(s) = s[1] /\ Len(s) \in Nat /\ Len(s) >= 1
  OBVIOUS
<1>2. ASSUME NEW i \in 1..Len(s) - 1 PROVE Tail(s)[i] = s[i + 1]
  OBVIOUS
<1>3. ASSUME NEW i \in 1..Len(Tail(s)), NEW j \in 1..Len(Tail(s)), Tail(s)[i] = Tail(s)[j] PROVE i = j
  <2>1. i \in 1..Len(s) - 1 /\ j \in 1..Len(s) - 1 /\ i + 1 \in 1..Len(s) /\ j + 1 \in 1..Len(s)
    BY <1>1
  <2>2. s[i + 1] = s[j + 1]
    BY <1>2, <1>3, <2>1
  <2>3. i + 1 = j + 1
    BY <2>1, <2>2 DEF Distinct
  <2>4. QED
    BY <2>1, <2>3
<1>4. ASSUME NEW i \in 1..Len(Tail(s)), Tail(s)[i] = Head(s) PROVE FALSE
  <2>1. i \in 1..Len(s) - 1 /\ i + 1 \in 1..Len(s) /\ 1 \in 1..Len(s) /\ i + 1 # 1
    BY <1>1
  <2>2. s[i + 1] = s[1]
    BY <1>1, <1>2, <1>4, <2>1
  <2>3. QED
    BY <2>1, <2>2 DEF Distinct
<1>5. QED
  BY <1>3, <1>4 DEF Distinct, Occurs

LEMMA AppendDistinct ==
  ASSUME NEW s \in Seq(Nat), NEW a \in Nat, Distinct(s), ~Occurs(a, s)
  PROVE  Distinct(Append(s, a))
<1> DEFINE t == Append(s, a)
<1>1. /\ Len(t) = Len(s) + 1 /\ Len(s) \in Nat
      /\ \A i \in 1..Len(s) : t[i] = s[i]
      /\ t[Len(s) + 1] = a
  OBVIOUS
<1> HIDE DEF t
<1>2. \A i \in 1..Len(s) : s[i] # a
  BY DEF Occurs
<1>3. ASSUME NEW i \in 1..Len(t), NEW j \in 1..Len(t), t[i] = t[j] PROVE i = j
  <2>1. i \in 1..Len(s) \/ i = Len(s) + 1
    BY <1>1
  <2>2. j \in 1..Len(s) \/ j = Len(s) + 1
    BY <1>1
  <2>3. QED
    BY <1>1, <1>2, <1>3, <2>1, <2>2 DEF Distinct
<1>4. Distinct(t)
  BY <1>3 DEF Distinct
<1>5. QED
  BY <1>4 DEF t

LEMMA OnceTakes ==
  ASSUME TypeOK, OnceInv, NEW t \in Drainers, NEW q \in 1..2, Takes(t, q)
  PROVE  OnceInv'
<1>1. queue[q] \in Seq(Nat) /\ queue[q] # <<>> /\ accepted' = accepted /\ out' = out
  BY DEF TypeOK, Takes
<1>2. /\ queue'[q] = Tail(queue[q])
      /\ \A r \in 1..2 : r # q => queue'[r] = queue[r]
      /\ hand'[t] = Head(queue[q])
      /\ \A u \in Drainers : u # t => hand'[u] = hand[u]
  BY DEF TypeOK, Takes
<1>3. PICK h : h = Head(queue[q])
  OBVIOUS
<1>4. \A m : Occurs(m, queue[q]) <=> m = h \/ Occurs(m, Tail(queue[q]))
  BY <1>1, <1>3, TailOccurs
<1>5. Distinct(Tail(queue[q])) /\ ~Occurs(h, Tail(queue[q]))
  BY <1>1, <1>3, TailDistinct DEF OnceInv, OnePlace
<1>6. h \in 1..accepted /\ Occurs(h, queue[q])
  BY <1>4 DEF OnceInv, Numbered
<1>7. \A m : \A r \in 1..2 : Occurs(m, queue'[r]) => Occurs(m, queue[r]) /\ m # h
  <2>1. \A m : Occurs(m, queue'[q]) => Occurs(m, queue[q]) /\ m # h
    BY <1>2, <1>4, <1>5
  <2>2. \A m : \A r \in 1..2 : r # q /\ Occurs(m, queue'[r]) => Occurs(m, queue[r]) /\ m # h
    BY <1>2, <1>6 DEF OnceInv, OnePlace
  <2>3. QED
    BY <2>1, <2>2
<1>8. Numbered'
  BY <1>1, <1>2, <1>3, <1>6, <1>7 DEF OnceInv, Numbered
<1>9. \A r \in 1..2 : Distinct(queue'[r])
  BY <1>2, <1>5 DEF OnceInv, OnePlace
<1>10. \A u, v \in Drainers : hand'[u] # 0 /\ hand'[u] = hand'[v] => u = v
  <2>1. \A u \in Drainers : hand[u] # h
    BY <1>6 DEF OnceInv, OnePlace, Queued
  <2>2. QED
    BY <1>2, <1>3, <2>1 DEF OnceInv, OnePlace
<1>11. \A u \in Drainers : ~Queued(hand[u])' 
  BY <1>2, <1>3, <1>7 DEF OnceInv, OnePlace, Queued
<1>12. \A m : Occurs(m, out') => ~Queued(m)' /\ \A u \in Drainers : hand'[u] # m
  <2>1. ~Occurs(h, out)
    BY <1>6 DEF OnceInv, OnePlace, Queued
  <2>2. QED
    BY <1>1, <1>2, <1>3, <1>7, <2>1 DEF OnceInv, OnePlace, Queued
<1>13. OnePlace'
  BY <1>1, <1>7, <1>9, <1>10, <1>11, <1>12 DEF OnceInv, OnePlace, Queued
<1>14. QED
  BY <1>8, <1>13 DEF OnceInv

LEMMA OnceWrites ==
  ASSUME TypeOK, OnceInv, NEW t \in Drainers, WriteMessage(t)
  PROVE  OnceInv'
<1>1. out \in Seq(Nat) /\ hand[t] \in Nat /\ accepted \in Nat /\ hand[t] # 0
  BY DEF TypeOK, WriteMessage
<1>2. /\ out' = Append(out, hand[t]) /\ accepted' = accepted /\ queue' = queue /\ hand'[t] = 0
      /\ \A u \in Drainers : u # t => hand'[u] = hand[u]
  BY DEF WriteMessage, TypeOK, queueVars, sendVars
<1>3. \A m : Occurs(m, out') <=> m = hand[t] \/ Occurs(m, out)
  BY <1>1, <1>2, AppendOccurs
<1>4. ~Occurs(hand[t], out) /\ ~Queued(hand[t])
  BY DEF OnceInv, OnePlace
<1>5. Distinct(out')
  BY <1>1, <1>2, <1>4, AppendDistinct DEF OnceInv, OnePlace
<1>6. Numbered'
  BY <1>1, <1>2, <1>3 DEF OnceInv, Numbered
<1>7. \A u, v \in Drainers : hand'[u] # 0 /\ hand'[u] = hand'[v] => u = v
  BY <1>2 DEF OnceInv, OnePlace
<1>8. \A u \in Drainers : ~Queued(hand[u])'
  <2>1. ~Queued(0)
    BY DEF OnceInv, Numbered, Queued
  <2>2. QED
    BY <1>2, <2>1 DEF OnceInv, OnePlace, Queued
<1>9. \A m : Occurs(m, out') => ~Queued(m)' /\ \A u \in Drainers : hand'[u] # m
  <2>1. \A u \in Drainers : hand'[u] # hand[t]
    BY <1>1, <1>2 DEF OnceInv, OnePlace
  <2>2. ASSUME NEW m, Occurs(m, out) PROVE ~Queued(m)' /\ \A u \in Drainers : hand'[u] # m
    <3>1. m # 0
      BY <1>1, <2>2 DEF OnceInv, Numbered
    <3>2. QED
      BY <1>2, <2>2, <3>1 DEF OnceInv, OnePlace, Queued
  <2>3. ~Queued(hand[t])
    BY <1>4
  <2>4. QED
    BY <1>2, <1>3, <2>1, <2>2, <2>3 DEF Queued
<1>10. OnePlace'
  BY <1>2, <1>5, <1>7, <1>8, <1>9 DEF OnceInv, OnePlace, Queued
<1>11. QED
  BY <1>6, <1>10 DEF OnceInv

LEMMA OnceSends ==
  ASSUME TypeOK, OnceInv, NEW p \in Producers, Send(p)
  PROVE  OnceInv'
<1>1. snap[p] \in 1..2 /\ accepted \in Nat
  BY DEF Send, TypeOK
<1>2. PICK q \in 1..2 : q = snap[p]
  BY <1>1
<1>3. PICK n \in Nat : n = accepted + 1
  BY <1>1
<1>4. queue[q] \in Seq(Nat) /\ queue \in [1..2 -> Seq(Nat)]
  BY DEF TypeOK
<1>5. /\ queue'[q] = Append(queue[q], n)
      /\ \A r \in 1..2 : r # q => queue'[r] = queue[r]
      /\ accepted' = n /\ hand' = hand /\ out' = out
  BY <1>2, <1>3, <1>4 DEF Send, drainVars
<1>6. n \notin 0..accepted /\ 0..accepted \subseteq 0..n /\ 1..accepted \subseteq 1..n /\ n \in 1..n
  BY <1>1, <1>3
<1>7. \A m : Occurs(m, queue'[q]) <=> m = n \/ Occurs(m, queue[q])
  BY <1>4, <1>5, AppendOccurs
<1>8. \A m : \A r \in 1..2 : Occurs(m, queue'[r]) <=> (Occurs(m, queue[r]) \/ (m = n /\ r = q))
  BY <1>5, <1>7
<1>9. \A r \in 1..2 : ~Occurs(n, queue[r])
  BY <1>1, <1>6 DEF OnceInv, Numbered
<1>10. Distinct(queue'[q])
  BY <1>4, <1>5, <1>9, AppendDistinct DEF OnceInv, OnePlace
<1>11. (\A u \in Drainers : hand[u] # n) /\ ~Occurs(n, out)
  BY <1>1, <1>6 DEF OnceInv, Numbered
<1>12. Numbered'
  BY <1>5, <1>6, <1>8 DEF OnceInv, Numbered
<1>13. \A m : \A r, s \in 1..2 : Occurs(m, queue'[r]) /\ Occurs(m, queue'[s]) => r = s
  BY <1>8, <1>9 DEF OnceInv, OnePlace
<1>14. \A m : m # n => (Queued(m)' <=> Queued(m))
  BY <1>8 DEF Queued
<1>15. OnePlace'
  BY <1>5, <1>10, <1>11, <1>13, <1>14 DEF OnceInv, OnePlace
<1>16. QED
  BY <1>12, <1>15 DEF OnceInv

LEMMA OnceInit == Init => OnceInv
<1> SUFFICES ASSUME Init PROVE OnceInv
  OBVIOUS
<1>1. /\ \A q \in 1..2 : queue[q] = <<>>
      /\ out = <<>> /\ accepted = 0 /\ \A t \in Drainers : hand[t] = 0
  BY DEF Init
<1>2. \A m : ~Occurs(m, <<>>)
  BY DEF Occurs
<1>3. Distinct(<<>>)
  BY DEF Distinct
<1>4. Numbered /\ OnePlace
  BY <1>1, <1>2, <1>3 DEF Numbered, OnePlace, Queued
<1>5. QED
  BY <1>4 DEF OnceInv

LEMMA OnceStep == TypeOK /\ CloseInv /\ OnceInv /\ [Next]_vars => OnceInv'
<1> SUFFICES ASSUME TypeOK, OnceInv, MessageStep PROVE OnceInv'
  BY StepKinds
<1>1. ASSUME UNCHANGED <<accepted, queue, hand, out>> PROVE OnceInv'
  BY <1>1 DEF OnceInv, Numbered, OnePlace, Queued
<1>2. QED
  BY <1>1, OnceTakes, OnceWrites, OnceSends DEF MessageStep

LEMMA OnceHolds == OnceInv => WrittenOnce
<1> SUFFICES ASSUME OnceInv
             PROVE  /\ \A i, j \in 1..Len(out) : out[i] = out[j] => i = j
                    /\ \A i \in 1..Len(out) : ~InQueue(out[i]) /\ ~InHand(out[i])
  BY DEF WrittenOnce
<1>1. \A i, j \in 1..Len(out) : out[i] = out[j] => i = j
  BY DEF OnceInv, OnePlace, Distinct
<1>2. ASSUME NEW i \in 1..Len(out) PROVE ~InQueue(out[i]) /\ ~InHand(out[i])
  <2>1. Occurs(out[i], out)
    BY DEF Occurs
  <2>2. ~Queued(out[i]) /\ \A t \in Drainers : hand[t] # out[i]
    BY <2>1 DEF OnceInv, OnePlace
  <2>3. InQueue(out[i]) => Queued(out[i])
    BY DEF InQueue, Queued, Occurs
  <2>4. QED
    BY <2>2, <2>3 DEF InHand
<1>3. QED
  BY <1>1, <1>2

-----------------------------------------------------------------------------
(* The theorems.                                                           *)

LEMMA SpecInv == Spec => [](TypeOK /\ CloseInv /\ NothingVanishes /\ FlushInv)
<1> DEFINE Inv == TypeOK /\ CloseInv /\ NothingVanishes /\ FlushInv
<1>1. Init => Inv
  BY TypeInit, CloseInit, VanishInit, FlushInit
<1>2. Inv /\ [Next]_vars => Inv'
  BY TypeStep, CloseStep, VanishStep, FlushInvStep
<1>3. QED
  BY <1>1, <1>2, PTL DEF Spec

\* Every variable stays in its range, the queue pointer included: it is nil only
\* at the end of UnInit, when no one dereferences it any more.
THEOREM TypeCorrect == Spec => []TypeOK
<1>1. TypeOK /\ CloseInv /\ NothingVanishes /\ FlushInv => TypeOK
  OBVIOUS
<1>2. QED
  BY <1>1, SpecInv, PTL

\* An accepted message is in a queue, in the hand of the thread that took it, or
\* written, at every step of every interleaving of senders, Run, Flush and UnInit.
THEOREM NoMessageVanishes == Spec => []NothingVanishes
<1>1. TypeOK /\ CloseInv /\ NothingVanishes /\ FlushInv => NothingVanishes
  OBVIOUS
<1>2. QED
  BY <1>1, SpecInv, PTL

\* UnInit closes the channels after Run's last receive, and no Flush holds a message
\* then.
THEOREM QueuesClosedWithoutReceivers == Spec => []ClosedWithoutReceivers
<1>1. TypeOK /\ CloseInv /\ NothingVanishes /\ FlushInv => ClosedWithoutReceivers
  BY ClosedHolds
<1>2. QED
  BY <1>1, SpecInv, PTL

\* What Flush promises when Run answers it: the messages accepted before the call are
\* written when it returns, or another Flush is writing them.
THEOREM HandshakeFlushesAll == Spec => []HandshakeFlushes
<1>1. TypeOK /\ CloseInv /\ NothingVanishes /\ FlushInv => HandshakeFlushes
  BY HandshakeHolds
<1>2. QED
  BY <1>1, SpecInv, PTL

\* However queues are swapped and two threads drain them, no accepted message is
\* written twice, and none that is written waits to be written again.
THEOREM WritesOnce == Spec => []WrittenOnce
<1>1. TypeOK /\ CloseInv /\ OnceInv /\ [Next]_vars => (TypeOK /\ CloseInv /\ OnceInv)'
  BY TypeStep, CloseStep, OnceStep
<1>2. Init => TypeOK /\ CloseInv /\ OnceInv
  BY TypeInit, CloseInit, OnceInit
<1>3. TypeOK /\ CloseInv /\ OnceInv => WrittenOnce
  BY OnceHolds
<1>4. QED
  BY <1>1, <1>2, <1>3, PTL DEF Spec
=============================================================================
