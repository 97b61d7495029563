------------------------- MODULE FileAppenderProofs -------------------------
(***************************************************************************)
(* Proofs about FileAppender, for every value of its constants.            *)
(***************************************************************************)
EXTENDS FileAppender, TLAPS, SequenceTheorems, FiniteSetTheorems

-----------------------------------------------------------------------------
(* Sizes: what the length of a sequence of lines is made of.                *)

\* Every line has a length.
LEMMA LengthType == ASSUME NEW line \in Nat PROVE Length(line) \in Nat
<1>1. Len(Lengths) \in Nat \ {0}
  BY LengthAssumption
<1>2. (line - 1) % Len(Lengths) \in 0..(Len(Lengths) - 1)
  BY <1>1
<1>3. ((line - 1) % Len(Lengths)) + 1 \in 1..Len(Lengths)
  BY <1>1, <1>2
<1>4. QED
  BY <1>3, LengthAssumption DEF Length

LEMMA UpTo == \A n \in Nat : IsFiniteSet(1..n) /\ Cardinality(1..n) = n
<1> SUFFICES ASSUME NEW n \in Nat PROVE IsFiniteSet(1..n) /\ Cardinality(1..n) = n
  OBVIOUS
<1>1. /\ IsFiniteSet(1..n)
      /\ Cardinality(1..n) = IF 1 > n THEN 0 ELSE n - 1 + 1
  BY FS_Interval
<1>2. QED
  BY <1>1

\* The bytes of a sequence are finitely many.
LEMMA SizeType ==
  ASSUME NEW s \in Seq(Nat)
  PROVE  IsFiniteSet(Bytes(s)) /\ Size(s) \in Nat
<1> DEFINE Part(i) == {i} \X (1..Length(s[i]))
<1>1. IsFiniteSet(1..Len(s))
  BY UpTo
<1>2. \A i \in 1..Len(s) : IsFiniteSet(Part(i))
  <2> SUFFICES ASSUME NEW i \in 1..Len(s) PROVE IsFiniteSet(Part(i))
    OBVIOUS
  <2>1. Length(s[i]) \in Nat
    BY LengthType
  <2>2. IsFiniteSet({i}) /\ IsFiniteSet(1..Length(s[i]))
    BY <2>1, FS_Singleton, UpTo
  <2>3. QED
    BY <2>2, FS_Product
<1>3. IsFiniteSet({Part(i) : i \in 1..Len(s)})
  <2> DEFINE parts == [i \in 1..Len(s) |-> Part(i)]
  <2>1. parts \in Surjection(1..Len(s), {Part(i) : i \in 1..Len(s)})
    BY DEF Surjection
  <2>2. QED
    BY <1>1, <2>1, FS_Surjection
<1>4. IsFiniteSet(UNION {Part(i) : i \in 1..Len(s)})
  BY <1>2, <1>3, FS_UNION
<1>5. DOMAIN s = 1..Len(s)
  OBVIOUS
<1>6. QED
  BY <1>4, <1>5, FS_CardinalityType DEF Bytes, Size

LEMMA SizeEmpty == Size(<<>>) = 0
<1>1. Bytes(<<>>) = {}
  BY DEF Bytes
<1>2. QED
  BY <1>1, FS_EmptySet DEF Size

\* A line at the end adds its length.
LEMMA SizeAppend ==
  ASSUME NEW s \in Seq(Nat), NEW line \in Nat
  PROVE  Size(Append(s, line)) = Size(s) + Length(line)
<1> DEFINE last == {Len(s) + 1} \X (1..Length(line))
<1>0. Length(line) \in Nat
  BY LengthType
<1>1. IsFiniteSet(last) /\ Cardinality(last) = Length(line)
  <2>1. /\ IsFiniteSet({Len(s) + 1}) /\ Cardinality({Len(s) + 1}) = 1
        /\ IsFiniteSet(1..Length(line)) /\ Cardinality(1..Length(line)) = Length(line)
    BY <1>0, FS_Singleton, UpTo
  <2>2. QED
    BY <1>0, <2>1, FS_Product
<1>2. Bytes(Append(s, line)) = Bytes(s) \cup last
  <2>1. DOMAIN Append(s, line) = DOMAIN s \cup {Len(s) + 1}
    OBVIOUS
  <2>2. Append(s, line)[Len(s) + 1] = line /\ \A i \in DOMAIN s : Append(s, line)[i] = s[i]
    OBVIOUS
  <2>3. QED
    BY <2>1, <2>2 DEF Bytes
<1>3. Bytes(s) \cap last = {}
  <2>1. \A b \in Bytes(s) : b[1] \in 1..Len(s)
    BY DEF Bytes
  <2>2. \A b \in last : b[1] = Len(s) + 1
    OBVIOUS
  <2>3. QED
    BY <2>1, <2>2
<1>4. Cardinality(Bytes(s) \cup last) = Size(s) + Length(line) - Cardinality(Bytes(s) \cap last)
  BY <1>1, SizeType, FS_Union DEF Size
<1>5. Size(Append(s, line)) = Cardinality(Bytes(s) \cup last)
  BY <1>2 DEF Size
<1>6. Cardinality(Bytes(s) \cap last) = 0
  BY <1>3, FS_EmptySet
<1>7. Size(s) \in Nat
  BY SizeType
<1>8. QED
  BY <1>0, <1>4, <1>5, <1>6, <1>7

LEMMA SizeOfOne == ASSUME NEW line \in Nat PROVE Size(<<line>>) = Length(line)
<1>1. <<line>> = Append(<<>>, line)
  OBVIOUS
<1>2. <<>> \in Seq(Nat)
  OBVIOUS
<1>3. QED
  <2>1. Size(Append(<<>>, line)) = Size(<<>>) + Length(line)
    BY <1>2, SizeAppend
  <2>2. Length(line) \in Nat
    BY LengthType
  <2>3. QED
    BY <1>1, <2>1, <2>2, SizeEmpty

\* The bytes of two sequences one after the other are those of the first and,
\* further on, those of the second.
LEMMA SizeConcat ==
  ASSUME NEW s \in Seq(Nat), NEW t \in Seq(Nat)
  PROVE  Size(s \o t) = Size(s) + Size(t)
<1> DEFINE further == {<<Len(s) + b[1], b[2]>> : b \in Bytes(t)}
           move == [b \in Bytes(t) |-> <<Len(s) + b[1], b[2]>>]
<1>1. \A b \in Bytes(t) : b[1] \in 1..Len(t) /\ b = <<b[1], b[2]>>
  BY DEF Bytes
<1>2. IsFiniteSet(further) /\ Cardinality(further) = Size(t)
  <2>1. move \in Surjection(Bytes(t), further)
    BY DEF Surjection
  <2>2. move \in Injection(Bytes(t), further)
    <3>1. ASSUME NEW b \in Bytes(t), NEW c \in Bytes(t), move[b] = move[c] PROVE b = c
      <4>1. Len(s) + b[1] = Len(s) + c[1] /\ b[2] = c[2]
        BY <3>1
      <4>2. b[1] = c[1]
        BY <1>1, <4>1
      <4>3. QED
        BY <1>1, <4>1, <4>2
    <3>2. QED
      BY <3>1 DEF Injection, IsInjective
  <2>3. QED
    BY <2>1, <2>2, SizeType, FS_Surjection DEF Size
<1>3. Bytes(s \o t) = Bytes(s) \cup further
  <2>0. /\ DOMAIN s = 1..Len(s) /\ DOMAIN t = 1..Len(t)
        /\ DOMAIN (s \o t) = 1..(Len(s) + Len(t))
        /\ Len(s) \in Nat /\ Len(t) \in Nat
    OBVIOUS
  <2>1. DOMAIN (s \o t) = DOMAIN s \cup {Len(s) + i : i \in DOMAIN t}
    <3>1. ASSUME NEW k \in 1..(Len(s) + Len(t)), k \notin 1..Len(s)
          PROVE  k - Len(s) \in 1..Len(t) /\ k = Len(s) + (k - Len(s))
      BY <2>0, <3>1
    <3>2. \A i \in 1..Len(t) : Len(s) + i \in 1..(Len(s) + Len(t))
      BY <2>0
    <3>3. \A k \in 1..Len(s) : k \in 1..(Len(s) + Len(t))
      BY <2>0
    <3>4. QED
      BY <2>0, <3>1, <3>2, <3>3
  <2>2. \A i \in DOMAIN s : (s \o t)[i] = s[i]
    OBVIOUS
  <2>3. \A i \in DOMAIN t : (s \o t)[Len(s) + i] = t[i]
    OBVIOUS
  <2>4. ASSUME NEW i \in DOMAIN t, NEW j \in 1..Length(t[i]) PROVE <<Len(s) + i, j>> \in further
    <3>1. <<i, j>> \in Bytes(t)
      BY <2>4 DEF Bytes
    <3>2. QED
      BY <3>1
  <2>5. Bytes(s \o t) \subseteq Bytes(s) \cup further
    BY <2>1, <2>2, <2>3, <2>4 DEF Bytes
  <2>6. Bytes(s) \subseteq Bytes(s \o t)
    BY <2>1, <2>2 DEF Bytes
  <2>7. ASSUME NEW b \in Bytes(t) PROVE <<Len(s) + b[1], b[2]>> \in Bytes(s \o t)
    <3>1. PICK i \in DOMAIN t : b \in {i} \X (1..Length(t[i]))
      BY <2>7 DEF Bytes
    <3>2. Len(s) + i \in DOMAIN (s \o t) /\ (s \o t)[Len(s) + i] = t[i]
      BY <2>1, <2>3
    <3>3. <<Len(s) + b[1], b[2]>> \in {Len(s) + i} \X (1..Length((s \o t)[Len(s) + i]))
      BY <3>1, <3>2
    <3>4. QED
      BY <3>2, <3>3 DEF Bytes
  <2>8. QED
    BY <2>5, <2>6, <2>7
<1>4. Bytes(s) \cap further = {}
  <2>1. \A b \in Bytes(s) : b[1] \in 1..Len(s)
    BY DEF Bytes
  <2>2. \A b \in further : b[1] \in Int /\ b[1] > Len(s)
    BY <1>1
  <2>3. QED
    BY <2>1, <2>2
<1>5. Cardinality(Bytes(s) \cup further) = Size(s) + Size(t) - Cardinality(Bytes(s) \cap further)
  BY <1>2, SizeType, FS_Union DEF Size
<1>6. Size(s \o t) = Cardinality(Bytes(s) \cup further)
  BY <1>3 DEF Size
<1>7. Cardinality(Bytes(s) \cap further) = 0
  BY <1>4, FS_EmptySet
<1>8. Size(s) \in Nat /\ Size(t) \in Nat
  BY SizeType
<1>9. QED
  BY <1>5, <1>6, <1>7, <1>8

-----------------------------------------------------------------------------
(* What each thread may do, as facts about single steps.                    *)

LEMMA OutcomeType == Outcome \subseteq {"ok", "error"}
BY DEF Outcome

\* Going on with the file, or leaving it, keeps its state well-typed.
LEMMA SettleType ==
  ASSUME TypeOK, NEW content \in Seq(Nat), NEW leave, Settle(content, leave)
  PROVE  disk' \in Seq(Nat) /\ past' \in Seq(Nat) /\ found' \in Nat
<1>1. past \o content \in Seq(Nat) /\ <<>> \in Seq(Nat)
  BY DEF TypeOK
<1>2. QED
  BY <1>1 DEF TypeOK, Settle

\* Writing one line keeps the state of the file well-typed.
LEMMA WriteLineLockedType ==
  ASSUME TypeOK, NEW line \in Nat, WriteLineLocked(line)
  PROVE  /\ file' \in {"open", "nil"}
         /\ bufw' \in Seq(Nat) /\ disk' \in Seq(Nat) /\ past' \in Seq(Nat)
         /\ found' \in Nat /\ size' \in Nat /\ lost' \in Nat
<1>0. Length(line) \in Nat
  BY LengthType
<1>1. /\ <<line>> \in Seq(Nat) /\ <<>> \in Seq(Nat)
      /\ Append(bufw, line) \in Seq(Nat)
      /\ disk \o bufw \in Seq(Nat) /\ past \o (disk \o bufw) \in Seq(Nat)
  BY DEF TypeOK
<1>2. CASE file = "nil" /\ lost' = lost + 1 /\ UNCHANGED <<file, bufw, disk, found, past, size>>
  BY <1>2 DEF TypeOK
<1>3. CASE /\ BufferLine(line)
           /\ size' = size + Length(line)
           /\ UNCHANGED <<file, found, past, lost>>
  <2>1. bufw' \in Seq(Nat) /\ disk' \in Seq(Nat)
    BY <1>1, <1>3 DEF TypeOK, BufferLine
  <2>2. QED
    BY <1>0, <1>3, <2>1 DEF TypeOK
<1>4. ASSUME NEW move \in Outcome, NEW open \in Outcome,
             Archive(move),
             file' = FileAfter(open),
             bufw' = IF open = "ok" THEN <<line>> ELSE <<>>,
             size' = IF open = "ok" THEN found' + Size(disk') + Length(line) ELSE size,
             lost' = IF open = "ok" THEN lost ELSE lost + 1
      PROVE  /\ file' \in {"open", "nil"}
             /\ bufw' \in Seq(Nat) /\ disk' \in Seq(Nat) /\ past' \in Seq(Nat)
             /\ found' \in Nat /\ size' \in Nat /\ lost' \in Nat
  <2>1. disk' \in Seq(Nat) /\ past' \in Seq(Nat) /\ found' \in Nat
    BY <1>1, <1>4, SettleType DEF Archive
  <2>a. Size(disk') \in Nat
    BY <2>1, SizeType
  <2>2. size' \in Nat /\ lost' \in Nat
    BY <1>0, <1>4, <2>1, <2>a DEF TypeOK
  <2>3. bufw' \in Seq(Nat) /\ file' \in {"open", "nil"}
    BY <1>1, <1>4 DEF FileAfter
  <2>4. QED
    BY <2>1, <2>2, <2>3
<1>5. QED
  BY <1>2, <1>3, <1>4 DEF WriteLineLocked

\* So does archiving the file and opening a new one.
LEMMA ReopenType ==
  ASSUME TypeOK, NEW open \in Outcome, disk' \in Seq(Nat), found' \in Nat, Reopen(open)
  PROVE  file' \in {"open", "nil"} /\ size' \in Nat
<1>1. Size(disk') \in Nat
  BY SizeType
<1>2. QED
  BY <1>1 DEF TypeOK, Reopen, FileAfter

LEMMA ArchiveType ==
  ASSUME TypeOK, NEW move \in Outcome, Archive(move)
  PROVE  disk' \in Seq(Nat) /\ past' \in Seq(Nat) /\ found' \in Nat
<1>1. disk \o bufw \in Seq(Nat)
  BY DEF TypeOK
<1>2. QED
  BY <1>1, SettleType DEF Archive

\* TypeOK is an invariant.
THEOREM TypeCorrect == Spec => []TypeOK
<1>1. Init => TypeOK
  BY SizeAssumption, LengthAssumption DEF Init, TypeOK, Stages, Places
<1>2. TypeOK /\ [Next]_vars => TypeOK'
  <2> SUFFICES ASSUME TypeOK, [Next]_vars PROVE TypeOK'
    OBVIOUS
  <2>0. disk \o bufw \in Seq(Nat) /\ past \o (disk \o bufw) \in Seq(Nat) /\ <<>> \in Seq(Nat)
    BY DEF TypeOK
  <2>1. ASSUME NEW p \in Producers, Enqueue(p) PROVE TypeOK'
    <3>1. Append(pending, accepted + 1) \in Seq(Nat)
      BY DEF TypeOK
    <3>2. QED
      BY <2>1, <3>1 DEF TypeOK, Enqueue, drainVars, fileVars, histVars
  <2>2. ASSUME NEW p \in Producers, Block(p) PROVE TypeOK'
    BY <2>2 DEF TypeOK, Block, drainVars, fileVars, histVars
  <2>3. ASSUME NEW p \in Producers, Reject(p) PROVE TypeOK'
    BY <2>3 DEF TypeOK, Reject, drainVars, fileVars, histVars
  <2>4. ASSUME NEW p \in Producers, Notify(p) PROVE TypeOK'
    BY <2>4 DEF TypeOK, Notify, drainVars, fileVars, histVars
  <2>5. ASSUME NEW t \in Drainers, Swap(t) PROVE TypeOK'
    <3>1. ppc' \in [Producers -> {"idle", "blocked", "woken", "notify"}]
      BY <2>5 DEF TypeOK, Swap, Broadcast
    <3>2. QED
      BY <2>0, <2>5, <3>1 DEF TypeOK, Swap, Places, fileVars, histVars
  <2>6. ASSUME NEW t \in Drainers, SwapNothing(t) PROVE TypeOK'
    BY <2>6 DEF TypeOK, SwapNothing, Places, AfterDrain, queueVars, fileVars, histVars
  <2>7. ASSUME NEW t \in Drainers, LockFile(t) PROVE TypeOK'
    BY <2>7 DEF TypeOK, LockFile, Places, queueVars, fileVars, histVars
  <2>8. ASSUME NEW t \in Drainers, WriteLine(t) PROVE TypeOK'
    <3>1. Head(batch[t]) \in Nat /\ Tail(batch[t]) \in Seq(Nat)
      BY <2>8 DEF TypeOK, WriteLine
    <3>2. WriteLineLocked(Head(batch[t]))
      BY <2>8 DEF WriteLine
    <3>3. /\ file' \in {"open", "nil"}
          /\ bufw' \in Seq(Nat) /\ disk' \in Seq(Nat) /\ past' \in Seq(Nat)
          /\ found' \in Nat /\ size' \in Nat /\ lost' \in Nat
      BY <3>1, <3>2, WriteLineLockedType
    <3>4. batch' \in [Drainers -> Seq(Nat)]
      BY <2>8, <3>1 DEF TypeOK, WriteLine
    <3>5. QED
      BY <2>8, <3>3, <3>4 DEF TypeOK, WriteLine, queueVars, histVars
  <2>9. ASSUME NEW t \in Drainers, UnlockFile(t) PROVE TypeOK'
    BY <2>9 DEF TypeOK, UnlockFile, Places, AfterDrain, queueVars, fileVars, histVars
  <2>10. ASSUME NEW t \in Drainers, FlushBuffer(t) PROVE TypeOK'
    BY <2>0, <2>10 DEF TypeOK, FlushBuffer, Places, FlushFile, queueVars, histVars
  <2>11. CASE TakeToken
    <3>1. /\ notifyCh' \in 0..1
          /\ why' \in {"data", "flush", "stop"}
          /\ UNCHANGED <<life, ppc, pending, accepted, batch, fileVars, ticker, histVars>>
      BY <2>11 DEF TakeToken
    <3>2. dpc' \in [Drainers -> Places]
      BY <2>11 DEF TypeOK, TakeToken, Places
    <3>3. QED
      BY <3>1, <3>2 DEF TypeOK, fileVars, histVars
  <2>12. CASE TakeStop
    BY <2>12 DEF TypeOK, TakeStop, Places, queueVars, fileVars, histVars
  <2>13. CASE Ack
    BY <2>13 DEF TypeOK, Ack, Places, queueVars, fileVars, histVars
  <2>14. CASE RunDone
    BY <2>14 DEF TypeOK, RunDone, Places, queueVars, fileVars, histVars
  <2>15. ASSUME NEW f \in Flushers, Flush(f) PROVE TypeOK'
    <3>1. dpc' \in [Drainers -> Places]
      <4>1. CASE IsRunning
        BY <2>15, <4>1 DEF TypeOK, Flush, Places
      <4>2. CASE ~IsRunning
        BY <2>15, <4>2 DEF TypeOK, Flush, Places
      <4>3. QED
        BY <4>1, <4>2
    <3>2. mark' \in [Flushers -> Nat] /\ flushes' \in Nat
      BY <2>15 DEF TypeOK, Flush
    <3>3. UNCHANGED <<life, queueVars, batch, why, fileVars, ticker, stopMark, admins>>
      BY <2>15 DEF Flush
    <3>4. QED
      BY <3>1, <3>2, <3>3 DEF TypeOK, queueVars, fileVars
  <2>16. ASSUME NEW f \in Flushers, Handshake(f) PROVE TypeOK'
    BY <2>16 DEF TypeOK, Handshake, Places, queueVars, fileVars, histVars
  <2>17. ASSUME NEW f \in Flushers, FlushSeesStop(f) PROVE TypeOK'
    BY <2>17 DEF TypeOK, FlushSeesStop, Places, queueVars, fileVars, histVars
  <2>18. ASSUME NEW f \in Flushers, FlushReturn(f) PROVE TypeOK'
    BY <2>18 DEF TypeOK, FlushReturn, Places, queueVars, fileVars, histVars
  <2>19. CASE TickFlush
    BY <2>0, <2>19 DEF TypeOK, TickFlush, FlushFile, queueVars, drainVars, histVars
  <2>20. CASE TickRotate
    <3>1. PICK move \in Outcome, open \in Outcome : Archive(move) /\ Reopen(open)
      BY <2>20 DEF TickRotate
    <3>2. disk' \in Seq(Nat) /\ past' \in Seq(Nat) /\ found' \in Nat
      BY <3>1, ArchiveType
    <3>3. file' \in {"open", "nil"} /\ size' \in Nat
      BY <3>1, <3>2, ReopenType
    <3>4. QED
      BY <2>0, <2>20, <3>2, <3>3 DEF TypeOK, TickRotate, queueVars, drainVars, histVars
  <2>21. CASE TickerExit
    BY <2>21 DEF TypeOK, TickerExit, queueVars, drainVars, fileVars, histVars
  <2>22. CASE ForceNewFile
    <3>1. PICK move \in Outcome, open \in Outcome : Archive(move) /\ Reopen(open)
      BY <2>22 DEF ForceNewFile
    <3>2. disk' \in Seq(Nat) /\ past' \in Seq(Nat) /\ found' \in Nat
      BY <3>1, ArchiveType
    <3>3. file' \in {"open", "nil"} /\ size' \in Nat
      BY <3>1, <3>2, ReopenType
    <3>4. QED
      BY <2>0, <2>22, <3>2, <3>3 DEF TypeOK, ForceNewFile, Admin, queueVars, drainVars
  <2>23. CASE Copy
    <3>1. PICK leave \in Renamings, open \in Outcome :
            Settle(disk \o bufw, leave) /\ Reopen(open)
      BY <2>23 DEF Copy
    <3>2. disk' \in Seq(Nat) /\ past' \in Seq(Nat) /\ found' \in Nat
      BY <2>0, <3>1, SettleType
    <3>3. file' \in {"open", "nil"} /\ size' \in Nat
      BY <3>1, <3>2, ReopenType
    <3>4. QED
      BY <2>0, <2>23, <3>2, <3>3 DEF TypeOK, Copy, Admin, queueVars, drainVars
  <2>24. CASE ClearContents
    <3>1. PICK remove \in Outcome, open \in Outcome, leave \in Renamings :
            /\ IF remove = "ok" THEN Settle(disk \o bufw, TRUE) ELSE Settle(disk, leave)
            /\ lost' = IF remove = "ok" THEN lost ELSE lost + Len(bufw)
            /\ Reopen(open)
      BY <2>24 DEF ClearContents
    <3>a. disk \in Seq(Nat) /\ Len(bufw) \in Nat /\ lost \in Nat
      BY DEF TypeOK
    <3>2. disk' \in Seq(Nat) /\ past' \in Seq(Nat) /\ found' \in Nat
      <4>1. CASE remove = "ok"
        BY <2>0, <3>1, <4>1, SettleType
      <4>2. CASE remove # "ok"
        BY <3>1, <3>a, <4>2, SettleType
      <4>3. QED
        BY <4>1, <4>2
    <3>3. lost' \in Nat
      BY <3>1, <3>a
    <3>4. file' \in {"open", "nil"} /\ size' \in Nat
      BY <3>1, <3>2, ReopenType
    <3>5. QED
      BY <2>0, <2>24, <3>2, <3>3, <3>4 DEF TypeOK, ClearContents, Admin, queueVars, drainVars
  <2>25. CASE InitAppender
    <3>1. PICK open \in Outcome :
            /\ life' = IF open = "ok" THEN "inited" ELSE "failed"
            /\ Reopen(open)
            /\ ticker' = IF open = "ok" THEN "alive" ELSE "gone"
      BY <2>25 DEF InitAppender
    <3>2. UNCHANGED <<queueVars, drainVars, bufw, disk, found, past, lost, histVars>>
      BY <2>25 DEF InitAppender
    <3>3. file' \in {"open", "nil"} /\ size' \in Nat
      BY <3>1, <3>2, ReopenType DEF TypeOK
    <3>4. QED
      BY <3>1, <3>2, <3>3 DEF TypeOK, Stages, queueVars, drainVars, histVars
  <2>26. CASE Start
    BY <2>26 DEF TypeOK, Start, Places, Stages, queueVars, fileVars, histVars
  <2>27. CASE UnInitStop
    BY <2>27 DEF TypeOK, UnInitStop, Stages, queueVars, drainVars, fileVars
  <2>28. CASE UnInitBar
    <3>1. ppc' \in [Producers -> {"idle", "blocked", "woken", "notify"}]
      BY <2>28 DEF TypeOK, UnInitBar, Broadcast
    <3>2. QED
      BY <2>28, <3>1 DEF TypeOK, UnInitBar, Stages, drainVars, fileVars, histVars
  <2>29. CASE UnInitBaseStop
    BY <2>29 DEF TypeOK, UnInitBaseStop, Stages, queueVars, drainVars, fileVars, histVars
  <2>30. CASE UnInitJoin
    BY <2>30 DEF TypeOK, UnInitJoin, Stages, queueVars, drainVars, fileVars, histVars
  <2>31. CASE UnInitClose
    BY <2>0, <2>31 DEF TypeOK, UnInitClose, FlushFile, Stages, queueVars, drainVars, histVars
  <2>32. CASE UNCHANGED vars
    BY <2>32 DEF TypeOK, vars, queueVars, drainVars, fileVars, histVars
  <2>33. QED
    BY <2>1, <2>2, <2>3, <2>4, <2>5, <2>6, <2>7, <2>8, <2>9, <2>10, <2>11, <2>12, <2>13,
       <2>14, <2>15, <2>16, <2>17, <2>18, <2>19, <2>20, <2>21, <2>22, <2>23, <2>24, <2>25,
       <2>26, <2>27, <2>28, <2>29, <2>30, <2>31, <2>32
       DEF Next, Produce, Drain, RunStep, FlushStep, Tick, Operate, Mount, UnInit
<1>3. QED
  BY <1>1, <1>2, PTL DEF Spec

-----------------------------------------------------------------------------
(* The life of the writer goroutine.                                        *)

\* The writer goroutine does not exist before Start, and never if Init failed.
WriterOff == life \in {"mounted", "inited", "failed"} => dpc[Writer] = "off"

LEMMA WriterOffStep == TypeOK /\ WriterOff /\ [Next]_vars => WriterOff'
<1> SUFFICES ASSUME TypeOK, WriterOff, [Next]_vars PROVE WriterOff'
  OBVIOUS
<1> USE DEF WriterOff
<1>0. Writer \in Drainers
  BY DEF Drainers
<1>1. ASSUME NEW p \in Producers, Produce(p) PROVE WriterOff'
  BY <1>1 DEF Produce, Enqueue, Block, Reject, Notify, drainVars
<1>2. ASSUME NEW t \in Drainers, Drain(t) PROVE WriterOff'
  <2>1. UNCHANGED life /\ (dpc[Writer] = "off" => dpc'[Writer] = "off")
    BY <1>0, <1>2 DEF TypeOK, Drain, Swap, SwapNothing, LockFile, UnlockFile, FlushBuffer, WriteLine
  <2>2. QED
    BY <2>1
<1>3. CASE RunStep
  <2>1. UNCHANGED life /\ dpc[Writer] # "off"
    BY <1>3 DEF RunStep, TakeToken, TakeStop, Ack, RunDone
  <2>2. QED
    BY <2>1
<1>4. ASSUME NEW f \in Flushers, Flush(f) \/ FlushStep(f) PROVE WriterOff'
  <2>1. f # Writer /\ f \in Drainers
    BY ThreadAssumption DEF Drainers
  <2>2. UNCHANGED life /\ (dpc[Writer] = "off" => dpc'[Writer] = "off")
    BY <1>0, <1>4, <2>1 DEF TypeOK, Flush, FlushStep, Handshake, FlushSeesStop, FlushReturn
  <2>3. QED
    BY <2>2
<1>5. CASE Tick \/ Operate
  BY <1>5 DEF Tick, TickFlush, TickRotate, TickerExit,
              Operate, ForceNewFile, Copy, ClearContents, Admin, drainVars
<1>6. CASE InitAppender
  BY <1>6 DEF InitAppender, drainVars
<1>7. CASE Start
  BY <1>7 DEF Start
<1>8. CASE UnInitStop \/ UnInit
  <2>1. life' \in {"stopping", "barred", "joining", "closing", "closed"}
    BY <1>8 DEF UnInitStop, UnInit, UnInitBar, UnInitBaseStop, UnInitJoin, UnInitClose
  <2>2. QED
    BY <2>1
<1>9. CASE UNCHANGED vars
  BY <1>9 DEF vars, drainVars
<1>10. QED
  BY <1>1, <1>2, <1>3, <1>4, <1>5, <1>6, <1>7, <1>8, <1>9 DEF Next, Mount

LEMMA WriterOffInvariant == Spec => []WriterOff
<1>1. Init => WriterOff
  BY DEF Init, WriterOff, Drainers
<1>2. QED
  BY <1>1, WriterOffStep, TypeCorrect, PTL DEF Spec

-----------------------------------------------------------------------------
(* The wakeup protocol between Write and Run.                               *)

\* The strengthening of NoLostWakeup: wherever the writer is, pending lines
\* are announced by a token, by a producer about to send one, or to a writer
\* that is on its way to swap them out.
Announced ==
  pending # <<>> =>
    \/ notifyCh = 1
    \/ \E p \in Producers : ppc[p] = "notify"
    \/ dpc[Writer] = "swap"

LEMMA BroadcastKeepsNotify ==
  ASSUME TypeOK, Broadcast
  PROVE  \A p \in Producers : ppc'[p] = "notify" <=> ppc[p] = "notify"
BY DEF TypeOK, Broadcast

LEMMA AnnouncedStep == TypeOK /\ WriterOff /\ Announced /\ [Next]_vars => Announced'
<1> SUFFICES ASSUME TypeOK, WriterOff, Announced, [Next]_vars PROVE Announced'
  OBVIOUS
<1> USE DEF Announced
<1>0. Writer \in Drainers
  BY DEF Drainers
<1>1. ASSUME NEW p \in Producers, Enqueue(p) PROVE Announced'
  <2>1. ppc'[p] = "notify"
    BY <1>1 DEF TypeOK, Enqueue
  <2>2. QED
    BY <2>1
<1>2. ASSUME NEW p \in Producers, Block(p) \/ Reject(p) PROVE Announced'
  <2>1. ppc[p] # "notify"
    BY <1>2 DEF Block, Reject, AtDoor
  <2>2. \A q \in Producers : ppc[q] = "notify" => ppc'[q] = "notify"
    BY <1>2, <2>1 DEF TypeOK, Block, Reject
  <2>3. UNCHANGED <<pending, notifyCh, dpc>>
    BY <1>2 DEF Block, Reject, drainVars
  <2>4. QED
    BY <2>2, <2>3
<1>3. ASSUME NEW p \in Producers, Notify(p) PROVE Announced'
  BY <1>3 DEF Notify
<1>4. ASSUME NEW t \in Drainers, Swap(t) PROVE Announced'
  BY <1>4 DEF Swap
<1>5. ASSUME NEW t \in Drainers, SwapNothing(t) PROVE Announced'
  BY <1>5 DEF SwapNothing, queueVars
<1>6. ASSUME NEW t \in Drainers, LockFile(t) \/ UnlockFile(t) \/ FlushBuffer(t) \/ WriteLine(t)
      PROVE  Announced'
  <2>1. UNCHANGED <<ppc, pending, notifyCh>>
    BY <1>6 DEF LockFile, UnlockFile, FlushBuffer, WriteLine, queueVars
  <2>2. dpc[Writer] = "swap" => dpc'[Writer] = "swap"
    BY <1>0, <1>6 DEF TypeOK, LockFile, UnlockFile, FlushBuffer, WriteLine
  <2>3. QED
    BY <2>1, <2>2
<1>7. CASE TakeToken
  <2>1. dpc'[Writer] = "swap"
    BY <1>0, <1>7 DEF TypeOK, TakeToken
  <2>2. QED
    BY <2>1
<1>8. CASE TakeStop
  <2>1. dpc'[Writer] = "swap"
    BY <1>0, <1>8 DEF TypeOK, TakeStop
  <2>2. QED
    BY <2>1
<1>9. CASE Ack \/ RunDone
  <2>1. UNCHANGED <<ppc, pending, notifyCh>>
    BY <1>9 DEF Ack, RunDone, queueVars
  <2>2. dpc[Writer] # "swap"
    BY <1>9 DEF Ack, RunDone
  <2>3. QED
    BY <2>1, <2>2
<1>10. ASSUME NEW f \in Flushers, Flush(f) \/ FlushStep(f) PROVE Announced'
  <2>1. UNCHANGED <<ppc, pending, notifyCh>>
    BY <1>10 DEF Flush, FlushStep, Handshake, FlushSeesStop, FlushReturn, queueVars
  <2>2. f # Writer /\ f \in Drainers
    BY ThreadAssumption DEF Drainers
  <2>3. dpc[Writer] = "swap" => dpc'[Writer] = "swap"
    BY <1>0, <1>10, <2>2 DEF TypeOK, Flush, FlushStep, Handshake, FlushSeesStop, FlushReturn
  <2>4. QED
    BY <2>1, <2>3
<1>11. CASE Tick \/ Operate \/ InitAppender \/ UnInitStop
  <2>1. UNCHANGED <<queueVars, drainVars>>
    BY <1>11 DEF Tick, TickFlush, TickRotate, TickerExit,
                 Operate, ForceNewFile, Copy, ClearContents, Admin, InitAppender, UnInitStop
  <2>2. QED
    BY <2>1 DEF queueVars, drainVars
<1>12. CASE Start
  <2>1. dpc[Writer] = "off"
    BY <1>12 DEF Start, WriterOff
  <2>2. UNCHANGED <<ppc, pending, notifyCh>>
    BY <1>12 DEF Start, queueVars
  <2>3. QED
    BY <2>1, <2>2
<1>13. CASE UnInitBar
  <2>1. UNCHANGED <<pending, notifyCh, dpc>> /\ Broadcast
    BY <1>13 DEF UnInitBar, drainVars
  <2>2. QED
    BY <2>1, BroadcastKeepsNotify
<1>14. CASE UnInitBaseStop \/ UnInitJoin \/ UnInitClose
  <2>1. UNCHANGED <<queueVars, drainVars>>
    BY <1>14 DEF UnInitBaseStop, UnInitJoin, UnInitClose
  <2>2. QED
    BY <2>1 DEF queueVars, drainVars
<1>15. CASE UNCHANGED vars
  BY <1>15 DEF vars, queueVars, drainVars
<1>16. QED
  BY <1>1, <1>2, <1>3, <1>4, <1>5, <1>6, <1>7, <1>8, <1>9, <1>10, <1>11, <1>12, <1>13,
     <1>14, <1>15
     DEF Next, Produce, Drain, RunStep, Mount, UnInit

\* A line never waits unannounced in front of a waiting writer, whatever the
\* capacities, the number of goroutines, and the way Flush and UnInit are used.
THEOREM NoWakeupIsLost == Spec => []NoLostWakeup
<1>1. Init => Announced
  BY DEF Init, Announced
<1>2. Announced => NoLostWakeup
  BY DEF Announced, NoLostWakeup
<1>3. QED
  BY <1>1, <1>2, AnnouncedStep, TypeCorrect, WriterOffInvariant, PTL DEF Spec

-----------------------------------------------------------------------------
(* The bounded batch buffer.                                                *)

\* Every way of making room, or of shutting the door, wakes the producers that
\* sleep on spaceCond.
THEOREM BlockedMeansFull == Spec => []BlockedOnlyWhenFull
<1> USE DEF BlockedOnlyWhenFull
<1>1. Init => BlockedOnlyWhenFull
  BY DEF Init
<1>2. TypeOK /\ BlockedOnlyWhenFull /\ [Next]_vars => BlockedOnlyWhenFull'
  <2> SUFFICES ASSUME TypeOK, BlockedOnlyWhenFull, [Next]_vars PROVE BlockedOnlyWhenFull'
    OBVIOUS
  <2>0. Broadcast => \A p \in Producers : ppc'[p] # "blocked"
    BY DEF Broadcast
  <2>1. ASSUME NEW p \in Producers, Enqueue(p) PROVE BlockedOnlyWhenFull'
    <3>1. \A q \in Producers : ppc[q] # "blocked"
      BY <2>1, SizeAssumption DEF Enqueue, HasRoom, TypeOK
    <3>2. \A q \in Producers : ppc'[q] # "blocked"
      BY <2>1, <3>1 DEF Enqueue, TypeOK
    <3>3. QED
      BY <3>2
  <2>2. ASSUME NEW p \in Producers, Block(p) PROVE BlockedOnlyWhenFull'
    <3>1. Len(pending) >= PendingCap /\ ~ClosedForWrite
      BY <2>2, SizeAssumption DEF Block, HasRoom, TypeOK
    <3>2. UNCHANGED <<pending, life>>
      BY <2>2 DEF Block
    <3>3. QED
      BY <3>1, <3>2 DEF ClosedForWrite
  <2>3. ASSUME NEW p \in Producers, Reject(p) \/ Notify(p) PROVE BlockedOnlyWhenFull'
    <3>1. \A q \in Producers : ppc'[q] = "blocked" => ppc[q] = "blocked"
      BY <2>3 DEF Reject, Notify, TypeOK
    <3>2. UNCHANGED <<pending, life>>
      BY <2>3 DEF Reject, Notify
    <3>3. QED
      BY <3>1, <3>2 DEF ClosedForWrite
  <2>4. ASSUME NEW t \in Drainers, Swap(t) PROVE BlockedOnlyWhenFull'
    BY <2>0, <2>4 DEF Swap
  <2>5. CASE UnInitBar
    BY <2>0, <2>5 DEF UnInitBar
  <2>6. ASSUME UNCHANGED queueVars, ~ClosedForWrite => ~ClosedForWrite'
        PROVE  BlockedOnlyWhenFull'
    BY <2>6 DEF queueVars
  <2>7. ASSUME NEW t \in Drainers, Drain(t), ~Swap(t) PROVE BlockedOnlyWhenFull'
    <3>1. UNCHANGED queueVars /\ UNCHANGED life
      BY <2>7 DEF Drain, SwapNothing, LockFile, WriteLine, UnlockFile, FlushBuffer
    <3>2. QED
      BY <2>6, <3>1 DEF ClosedForWrite
  <2>8. CASE TakeToken
    BY <2>8 DEF TakeToken, ClosedForWrite
  <2>9. CASE TakeStop \/ Ack \/ RunDone
    <3>1. UNCHANGED queueVars /\ UNCHANGED life
      BY <2>9 DEF TakeStop, Ack, RunDone
    <3>2. QED
      BY <2>6, <3>1 DEF ClosedForWrite
  <2>10. ASSUME NEW f \in Flushers, Flush(f) \/ FlushStep(f) PROVE BlockedOnlyWhenFull'
    <3>1. UNCHANGED queueVars /\ UNCHANGED life
      BY <2>10 DEF Flush, FlushStep, Handshake, FlushSeesStop, FlushReturn
    <3>2. QED
      BY <2>6, <3>1 DEF ClosedForWrite
  <2>11. CASE Tick \/ Operate
    <3>1. UNCHANGED queueVars /\ UNCHANGED life
      BY <2>11 DEF Tick, TickFlush, TickRotate, TickerExit,
                   Operate, ForceNewFile, Copy, ClearContents, Admin
    <3>2. QED
      BY <2>6, <3>1 DEF ClosedForWrite
  <2>12. CASE Mount \/ UnInitStop
    <3>1. UNCHANGED queueVars
      BY <2>12 DEF Mount, InitAppender, Start, UnInitStop
    <3>2. life' \in {"inited", "failed", "started", "stopping"}
      BY <2>12 DEF Mount, InitAppender, Start, UnInitStop
    <3>3. QED
      BY <2>6, <3>1, <3>2 DEF ClosedForWrite
  <2>13. CASE UnInitBaseStop \/ UnInitJoin \/ UnInitClose
    <3>1. UNCHANGED queueVars
      BY <2>13 DEF UnInitBaseStop, UnInitJoin, UnInitClose
    <3>2. life \in {"barred", "joining", "closing"}
      BY <2>13 DEF UnInitBaseStop, UnInitJoin, UnInitClose
    <3>3. QED
      BY <2>6, <3>1, <3>2 DEF ClosedForWrite
  <2>14. CASE UNCHANGED vars
    BY <2>6, <2>14 DEF vars, ClosedForWrite
  <2>15. QED
    BY <2>1, <2>2, <2>3, <2>4, <2>5, <2>7, <2>8, <2>9, <2>10, <2>11, <2>12, <2>13, <2>14
       DEF Next, Produce, Drain, RunStep, UnInit
<1>3. QED
  BY <1>1, <1>2, TypeCorrect, PTL DEF Spec

-----------------------------------------------------------------------------
(* nCurrentSize.                                                            *)

\* The strengthening of SizeIsLogical: there is no buffer without a file, and
\* before Init there is neither a file nor a ticker.
SizeInv ==
  /\ file = "nil" => bufw = <<>>
  /\ life = "mounted" => file = "nil" /\ ticker = "gone"
  /\ SizeIsLogical

\* What flushing the buffer leaves of the lengths and of the sizes.
LEMMA FlushFileLengths ==
  ASSUME TypeOK, FlushFile
  PROVE  Len(disk') = Len(disk) + Len(bufw) /\ bufw' = <<>> /\ Len(bufw') = 0
BY DEF TypeOK, FlushFile

LEMMA SizesType ==
  ASSUME TypeOK
  PROVE  /\ Size(disk) \in Nat /\ Size(bufw) \in Nat
         /\ Size(disk \o bufw) = Size(disk) + Size(bufw)
BY SizeType, SizeConcat DEF TypeOK

LEMMA FlushFileSizes ==
  ASSUME TypeOK, FlushFile
  PROVE  Size(disk') + Size(bufw') = Size(disk) + Size(bufw)
<1>1. Size(disk') = Size(disk) + Size(bufw) /\ Size(bufw') = 0
  BY SizesType, SizeEmpty DEF FlushFile
<1>2. QED
  BY <1>1, SizesType

LEMMA ReopenSize ==
  ASSUME TypeOK', NEW open \in Outcome, Reopen(open), bufw' = <<>>
  PROVE  SizeIsLogical'
<1>1. Size(disk') \in Nat /\ found' \in Nat
  BY SizeType DEF TypeOK
<1>2. Size(bufw') = 0
  BY SizeEmpty
<1>3. QED
  BY <1>1, <1>2 DEF Reopen, FileAfter, SizeIsLogical

\* A buffered line adds its length to the file and the buffer together.
LEMMA BufferLineSize ==
  ASSUME TypeOK, NEW line \in Nat, BufferLine(line)
  PROVE  Size(disk') + Size(bufw') = Size(disk) + Size(bufw) + Length(line)
<1>0. Length(line) \in Nat /\ Size(disk) \in Nat /\ Size(bufw) \in Nat
  BY LengthType, SizesType
<1>1. CASE bufw' = Append(bufw, line) /\ disk' = disk
  <2>1. Size(bufw') = Size(bufw) + Length(line)
    BY <1>1, SizeAppend DEF TypeOK
  <2>2. QED
    BY <1>0, <1>1, <2>1
<1>2. CASE bufw' = <<line>> /\ disk' = disk \o bufw
  <2>1. Size(bufw') = Length(line) /\ Size(disk') = Size(disk) + Size(bufw)
    BY <1>2, SizesType, SizeOfOne
  <2>2. QED
    BY <1>0, <2>1
<1>3. QED
  BY <1>1, <1>2 DEF BufferLine

LEMMA WriteLineSize ==
  ASSUME TypeOK, TypeOK', SizeInv, NEW line \in Nat, WriteLineLocked(line)
  PROVE  (file' = "nil" => bufw' = <<>>) /\ SizeIsLogical'
<1>0. Length(line) \in Nat /\ Size(disk) \in Nat /\ Size(bufw) \in Nat
  BY LengthType, SizesType
<1>1. CASE file = "nil" /\ UNCHANGED <<file, bufw, disk, found, past, size>>
  BY <1>1 DEF SizeInv, SizeIsLogical
<1>2. CASE /\ file = "open" /\ BufferLine(line)
           /\ size' = size + Length(line) /\ UNCHANGED <<file, found>>
  <2>1. Size(disk') + Size(bufw') = Size(disk) + Size(bufw) + Length(line)
    BY <1>2, BufferLineSize
  <2>2. size = found + Size(disk) + Size(bufw)
    BY <1>2 DEF SizeInv, SizeIsLogical
  <2>3. Size(disk') \in Nat /\ Size(bufw') \in Nat /\ found \in Nat
    BY SizeType DEF TypeOK
  <2>4. size' = found' + Size(disk') + Size(bufw')
    <3>1. size' = found + Size(disk) + Size(bufw) + Length(line)
      BY <1>2, <2>2
    <3>2. found' + Size(disk') + Size(bufw') = found + (Size(disk') + Size(bufw'))
      BY <1>2, <2>3
    <3>3. QED
      BY <1>0, <2>1, <2>3, <3>1, <3>2
  <2>5. QED
    BY <1>2, <2>4 DEF SizeIsLogical
<1>3. ASSUME NEW move \in Outcome, NEW open \in Outcome,
             file' = FileAfter(open),
             bufw' = IF open = "ok" THEN <<line>> ELSE <<>>,
             size' = IF open = "ok" THEN found' + Size(disk') + Length(line) ELSE size
      PROVE  (file' = "nil" => bufw' = <<>>) /\ SizeIsLogical'
  <2>1. CASE open = "ok"
    <3>1. Size(bufw') = Length(line)
      BY <1>3, <2>1, SizeOfOne
    <3>2. QED
      BY <1>3, <2>1, <3>1 DEF FileAfter, SizeIsLogical
  <2>2. CASE open # "ok"
    BY <1>3, <2>2 DEF FileAfter, SizeIsLogical
  <2>3. QED
    BY <2>1, <2>2
<1>4. QED
  BY <1>1, <1>2, <1>3 DEF WriteLineLocked

LEMMA SizeInvStep == TypeOK /\ TypeOK' /\ SizeInv /\ [Next]_vars => SizeInv'
<1> SUFFICES ASSUME TypeOK, TypeOK', SizeInv, [Next]_vars PROVE SizeInv'
  OBVIOUS
<1>1. ASSUME UNCHANGED fileVars, life' # "mounted" \/ UNCHANGED <<life, ticker>>
      PROVE  SizeInv'
  BY <1>1 DEF SizeInv, SizeIsLogical, fileVars
<1>2. ASSUME NEW p \in Producers, Produce(p) PROVE SizeInv'
  BY <1>1, <1>2 DEF Produce, Enqueue, Block, Reject, Notify
<1>3. ASSUME NEW t \in Drainers, Swap(t) \/ SwapNothing(t) \/ LockFile(t) \/ UnlockFile(t)
      PROVE  SizeInv'
  BY <1>1, <1>3 DEF Swap, SwapNothing, LockFile, UnlockFile
<1>4. ASSUME NEW t \in Drainers, WriteLine(t) PROVE SizeInv'
  <2>a. batch[t] \in Seq(Nat) /\ batch[t] # <<>> /\ WriteLineLocked(Head(batch[t]))
    BY <1>4 DEF WriteLine, TypeOK
  <2>1. Head(batch[t]) \in Nat /\ WriteLineLocked(Head(batch[t]))
    BY <2>a, HeadTailProperties
  <2>2. (file' = "nil" => bufw' = <<>>) /\ SizeIsLogical'
    BY <2>1, WriteLineSize
  <2>3. UNCHANGED <<life, ticker>>
    BY <1>4 DEF WriteLine
  <2>4. file = "nil" => UNCHANGED file
    BY <2>1 DEF WriteLineLocked
  <2>5. QED
    BY <2>2, <2>3, <2>4 DEF SizeInv
<1>5. ASSUME FlushFile, UNCHANGED <<file, found, size, ticker>>,
             life' # "mounted" \/ UNCHANGED life
      PROVE  SizeInv'
  <2>1. Size(disk') + Size(bufw') = Size(disk) + Size(bufw) /\ bufw' = <<>>
    BY <1>5, FlushFileLengths, FlushFileSizes
  <2>2. /\ Size(disk) \in Nat /\ Size(bufw) \in Nat /\ found \in Nat
        /\ Size(disk') \in Nat /\ Size(bufw') \in Nat
    BY SizeType DEF TypeOK
  <2>3. found + Size(disk') + Size(bufw') = found + Size(disk) + Size(bufw)
    BY <2>1, <2>2
  <2>4. QED
    BY <1>5, <2>1, <2>3 DEF SizeInv, SizeIsLogical
<1>6. ASSUME NEW t \in Drainers, FlushBuffer(t) PROVE SizeInv'
  BY <1>5, <1>6 DEF FlushBuffer
<1>7. CASE RunStep
  BY <1>1, <1>7 DEF RunStep, TakeToken, TakeStop, Ack, RunDone
<1>8. ASSUME NEW f \in Flushers, Flush(f) \/ FlushStep(f) PROVE SizeInv'
  BY <1>1, <1>8 DEF Flush, FlushStep, Handshake, FlushSeesStop, FlushReturn
<1>9. CASE TickFlush
  BY <1>5, <1>9 DEF TickFlush
<1>10. ASSUME NEW open \in Outcome, Reopen(open), bufw' = <<>>, life' # "mounted"
       PROVE  SizeInv'
  BY <1>10, ReopenSize DEF SizeInv
<1>11. CASE TickRotate
  <2>1. life' # "mounted"
    BY <1>11 DEF TickRotate, SizeInv
  <2>2. QED
    BY <1>10, <1>11, <2>1 DEF TickRotate
<1>12. CASE TickerExit
  BY <1>12 DEF TickerExit, SizeInv, SizeIsLogical, fileVars
<1>13. CASE Operate
  <2>1. life' # "mounted" /\ bufw' = <<>>
    BY <1>13 DEF Operate, ForceNewFile, Copy, ClearContents, Admin
  <2>2. QED
    BY <1>10, <1>13, <2>1 DEF Operate, ForceNewFile, Copy, ClearContents
<1>14. CASE InitAppender
  <2>1. UNCHANGED bufw /\ bufw = <<>> /\ life' # "mounted"
    BY <1>14 DEF InitAppender, SizeInv
  <2>2. QED
    BY <1>10, <1>14, <2>1 DEF InitAppender
<1>15. CASE Start \/ UnInitStop \/ UnInitBar \/ UnInitBaseStop \/ UnInitJoin
  BY <1>1, <1>15 DEF Start, UnInitStop, UnInitBar, UnInitBaseStop, UnInitJoin
<1>16. CASE UnInitClose
  BY <1>16 DEF UnInitClose, FlushFile, SizeInv, SizeIsLogical
<1>17. CASE UNCHANGED vars
  BY <1>1, <1>17 DEF vars
<1>18. QED
  BY <1>2, <1>3, <1>4, <1>6, <1>7, <1>8, <1>9, <1>11, <1>12, <1>13, <1>14, <1>15, <1>16, <1>17
     DEF Next, Drain, Tick, Mount, UnInit

LEMMA SizeInvariant == Spec => []SizeInv
<1>1. Init => SizeInv
  BY DEF Init, SizeInv, SizeIsLogical
<1>2. QED
  BY <1>1, SizeInvStep, TypeCorrect, PTL DEF Spec

\* nCurrentSize is the logical length of the open file, through every rotation,
\* reopening, copy and clearing, and through every failure of the three.
THEOREM SizeCorrect == Spec => []SizeIsLogical
<1>1. SizeInv => SizeIsLogical
  BY DEF SizeInv
<1>2. QED
  BY <1>1, SizeInvariant, PTL

LEMMA AppendLast ==
  ASSUME NEW a \in Seq(Nat), NEW b \in Seq(Nat), NEW n \in Nat
  PROVE  /\ a \o Append(b, n) = Append(a \o b, n)
         /\ b \o <<n>> = Append(b, n)
  BY SMT

\* The lines before any line of s, after what the file had, are below the limit.
Below(before, s) == \A n \in 1..Len(s) : before + Size(SubSeq(s, 1, n - 1)) < Limit

LEMMA BelowBounded == GenerationBounded <=> Below(found, disk \o bufw)
BY DEF GenerationBounded, Below

LEMMA BelowAppend ==
  ASSUME NEW before \in Nat, NEW s \in Seq(Nat), NEW line \in Nat,
         Below(before, s), before + Size(s) < Limit
  PROVE  Below(before, Append(s, line))
<1> SUFFICES ASSUME NEW n \in 1..Len(Append(s, line))
             PROVE  before + Size(SubSeq(Append(s, line), 1, n - 1)) < Limit
  BY DEF Below
<1>1. Len(Append(s, line)) = Len(s) + 1 /\ Len(s) \in Nat
  OBVIOUS
<1>2. CASE n \in 1..Len(s)
  <2>1. SubSeq(Append(s, line), 1, n - 1) = SubSeq(s, 1, n - 1)
    BY <1>2
  <2>2. QED
    BY <1>2, <2>1 DEF Below
<1>3. CASE n = Len(s) + 1
  <2>1. SubSeq(Append(s, line), 1, n - 1) = s
    BY <1>3
  <2>2. QED
    BY <2>1
<1>4. QED
  BY <1>1, <1>2, <1>3

LEMMA WriteLineBelow ==
  ASSUME TypeOK, SizeIsLogical, GenerationBounded, ~IoMayFail,
         NEW line \in Nat, WriteLineLocked(line)
  PROVE  GenerationBounded'
<1>0. /\ disk \in Seq(Nat) /\ bufw \in Seq(Nat) /\ disk \o bufw \in Seq(Nat)
      /\ found \in Nat
  BY DEF TypeOK
<1>1. CASE UNCHANGED <<bufw, disk, found>>
  BY <1>1 DEF GenerationBounded
<1>2. CASE file = "open" /\ ~NeedsRotation /\ BufferLine(line) /\ UNCHANGED found
  <2>1. disk' \o bufw' = Append(disk \o bufw, line)
    <3>1. disk \o Append(bufw, line) = Append(disk \o bufw, line)
      BY <1>0, AppendLast
    <3>2. (disk \o bufw) \o <<line>> = Append(disk \o bufw, line)
      BY <1>0, AppendLast
    <3>3. QED
      BY <1>2, <3>1, <3>2 DEF BufferLine
  <2>2. size = found + Size(disk) + Size(bufw) /\ size < Limit
    BY <1>2, SizeAssumption DEF SizeIsLogical, NeedsRotation, TypeOK
  <2>3. found + Size(disk \o bufw) < Limit
    BY <1>0, <2>2, SizesType
  <2>4. Below(found, Append(disk \o bufw, line))
    BY <1>0, <2>3, BelowAppend, BelowBounded
  <2>5. QED
    BY <1>2, <2>1, <2>4 DEF GenerationBounded, Below
<1>3. ASSUME NEW move \in Outcome, NEW open \in Outcome,
             Archive(move),
             bufw' = IF open = "ok" THEN <<line>> ELSE <<>>
      PROVE  GenerationBounded'
  <2>1. move = "ok" /\ open = "ok"
    BY DEF Outcome
  <2>2. disk' = <<>> /\ bufw' = <<line>> /\ found' = 0
    BY <1>3, <2>1 DEF Archive, Settle
  <2>3. <<>> \in Seq(Nat) /\ <<>> \o <<line>> = Append(<<>>, line) /\ Len(<<>>) = 0
    OBVIOUS
  <2>a. 0 + Size(<<>>) < Limit
    BY SizeEmpty, SizeAssumption
  <2>b. Below(0, <<>>)
    BY <2>3 DEF Below
  <2>4. Below(0, Append(<<>>, line))
    BY <2>3, <2>a, <2>b, BelowAppend
  <2>5. QED
    BY <2>2, <2>3, <2>4 DEF GenerationBounded, Below
<1>4. QED
  BY <1>1, <1>2, <1>3 DEF WriteLineLocked

\* Without I/O errors every line of the log, whatever its length, goes to a file
\* that is below the limit at that moment: no file, active or rotated, outgrows
\* the limit by more than its last line.
THEOREM GenerationIsBounded == ~IoMayFail => (Spec => []GenerationBounded)
<1> SUFFICES ASSUME ~IoMayFail PROVE Spec => []GenerationBounded
  OBVIOUS
<1>0. Outcome = {"ok"}
  BY DEF Outcome
<1>1. Init => GenerationBounded
  BY DEF Init, GenerationBounded
<1>2. TypeOK /\ SizeIsLogical /\ GenerationBounded /\ [Next]_vars => GenerationBounded'
  <2> SUFFICES ASSUME TypeOK, SizeIsLogical, GenerationBounded, [Next]_vars
               PROVE  GenerationBounded'
    OBVIOUS
  <2>1. ASSUME UNCHANGED <<bufw, disk, found>> PROVE GenerationBounded'
    BY <2>1 DEF GenerationBounded
  <2>2. ASSUME FlushFile, UNCHANGED found PROVE GenerationBounded'
    <3>1. (disk \o bufw) \o <<>> = disk \o bufw
      BY ConcatEmptySeq DEF TypeOK
    <3>2. QED
      BY <2>2, <3>1 DEF FlushFile, GenerationBounded
  <2>3. ASSUME disk' = <<>>, bufw' = <<>> PROVE GenerationBounded'
    BY <2>3 DEF GenerationBounded
  <2>4. ASSUME NEW p \in Producers, Produce(p) PROVE GenerationBounded'
    BY <2>1, <2>4 DEF Produce, Enqueue, Block, Reject, Notify, fileVars
  <2>5. ASSUME NEW t \in Drainers, Drain(t) PROVE GenerationBounded'
    <3>1. CASE Swap(t) \/ SwapNothing(t) \/ LockFile(t) \/ UnlockFile(t)
      BY <2>1, <3>1 DEF Swap, SwapNothing, LockFile, UnlockFile, fileVars
    <3>2. CASE WriteLine(t)
      <4>1. Head(batch[t]) \in Nat /\ WriteLineLocked(Head(batch[t]))
        BY <3>2 DEF WriteLine, TypeOK
      <4>2. QED
        BY <4>1, WriteLineBelow
    <3>3. CASE FlushBuffer(t)
      BY <2>2, <3>3 DEF FlushBuffer
    <3>4. QED
      BY <2>5, <3>1, <3>2, <3>3 DEF Drain
  <2>6. CASE RunStep
    BY <2>1, <2>6 DEF RunStep, TakeToken, TakeStop, Ack, RunDone, fileVars
  <2>7. ASSUME NEW f \in Flushers, Flush(f) \/ FlushStep(f) PROVE GenerationBounded'
    BY <2>1, <2>7 DEF Flush, FlushStep, Handshake, FlushSeesStop, FlushReturn, fileVars
  <2>8. CASE TickFlush
    BY <2>2, <2>8 DEF TickFlush
  <2>9. CASE TickRotate
    BY <1>0, <2>3, <2>9 DEF TickRotate, Archive, Settle
  <2>10. CASE TickerExit
    BY <2>1, <2>10 DEF TickerExit, fileVars
  <2>11. CASE ForceNewFile
    BY <1>0, <2>3, <2>11 DEF ForceNewFile, Admin, Archive, Settle
  <2>12. CASE Copy
    <3>1. PICK leave \in Renamings : Settle(disk \o bufw, leave) /\ bufw' = <<>>
      BY <2>12 DEF Copy, Admin
    <3>2. QED
      BY <2>2, <2>3, <3>1 DEF Settle, FlushFile
  <2>13. CASE ClearContents
    BY <1>0, <2>3, <2>13 DEF ClearContents, Admin, Settle
  <2>14. CASE Mount \/ UnInitStop
    BY <2>1, <2>14 DEF Mount, InitAppender, Start, UnInitStop, fileVars
  <2>15. CASE UnInitBar \/ UnInitBaseStop \/ UnInitJoin
    BY <2>1, <2>15 DEF UnInitBar, UnInitBaseStop, UnInitJoin, fileVars
  <2>16. CASE UnInitClose
    BY <2>2, <2>16 DEF UnInitClose
  <2>17. CASE UNCHANGED vars
    BY <2>1, <2>17 DEF vars, fileVars
  <2>18. QED
    BY <2>4, <2>5, <2>6, <2>7, <2>8, <2>9, <2>10, <2>11, <2>12, <2>13, <2>14, <2>15, <2>16, <2>17
       DEF Next, Tick, Operate, UnInit
<1>3. QED
  BY <1>1, <1>2, TypeCorrect, SizeCorrect, PTL DEF Spec

-----------------------------------------------------------------------------
(***************************************************************************)
(* FileAppender as the logger uses it: Flush and UnInit come through the   *)
(* entity, whose lock keeps them apart, and Flush is called while the      *)
(* appender is started.  Under that discipline the writer is the only      *)
(* thread that ever swaps a batch out, and everything the appender         *)
(* promises follows from it.                                               *)
(***************************************************************************)

Disciplined == EntityLock /\ FlushStages \subseteq {"started"}

WriterPlaces == {"off", "select", "swap", "lock", "write", "sync", "ack", "returned", "exited"}

\* The writer runs from Start until stopCh is closed, a stopping writer has
\* seen stopCh closed, and what it serves agrees with where it is.
WriterInv ==
  /\ dpc[Writer] \in WriterPlaces
  /\ life = "started" => dpc[Writer] # "off"
  /\ dpc[Writer] \in {"returned", "exited"} => why = "stop"
  /\ why = "stop" => StopChClosed
  /\ dpc[Writer] \in {"sync", "ack"} => why = "flush"
  /\ dpc[Writer] \notin {"lock", "write"} => batch[Writer] = <<>>
  /\ life \in {"closing", "closed"} => dpc[Writer] \in {"off", "returned", "exited"}

\* A flusher never swaps: it waits for the handshake, for the answer, or for
\* nothing, and while stopCh is closed there is no call of Flush.
FlusherInv ==
  \A f \in Flushers :
    /\ dpc[f] \in {"idle", "select", "await", "return"}
    /\ batch[f] = <<>>
    /\ StopChClosed => dpc[f] = "idle"
    /\ dpc[f] = "await" => why = "flush" /\ dpc[Writer] \in {"swap", "lock", "write", "sync", "ack"}

SerialInv == WriterInv /\ FlusherInv

LEMMA WriterIsDrainer == Writer \in Drainers /\ \A f \in Flushers : f \in Drainers /\ f # Writer
BY ThreadAssumption DEF Drainers

\* Under the discipline only the writer is found in writePending or flushBuffer.
LEMMA OnlyWriterDrains ==
  ASSUME SerialInv, NEW t \in Drainers,
         dpc[t] \in {"swap", "lock", "write", "sync"}
  PROVE  t = Writer
BY DEF SerialInv, FlusherInv, Drainers

LEMMA SerialInit == Disciplined /\ Init => SerialInv
BY WriterIsDrainer DEF Init, SerialInv, WriterInv, FlusherInv, WriterPlaces, StopChClosed

\* A drain step of the writer.
LEMMA SerialDrain ==
  ASSUME TypeOK, SerialInv, NEW t \in Drainers, Drain(t)
  PROVE  SerialInv'
<1> USE WriterIsDrainer
<1>1. t = Writer
  BY OnlyWriterDrains
     DEF Drain, Swap, SwapNothing, LockFile, WriteLine, UnlockFile, FlushBuffer
<1>2. UNCHANGED <<life, why>>
  BY DEF Drain, Swap, SwapNothing, LockFile, WriteLine, UnlockFile, FlushBuffer
<1>3. \A f \in Flushers : dpc'[f] = dpc[f] /\ batch'[f] = batch[f]
  BY <1>1 DEF TypeOK, Drain, Swap, SwapNothing, LockFile, WriteLine, UnlockFile, FlushBuffer
<1>4. CASE Swap(Writer)
  <2>1. dpc[Writer] = "swap" /\ dpc'[Writer] = "lock"
    BY <1>4 DEF Swap, TypeOK
  <2>2. QED
    BY <1>2, <1>3, <2>1 DEF SerialInv, WriterInv, FlusherInv, WriterPlaces, StopChClosed
<1>5. CASE SwapNothing(Writer) \/ UnlockFile(Writer)
  <2>1. /\ dpc[Writer] \in {"swap", "write"} /\ dpc'[Writer] = AfterDrain(Writer)
        /\ batch' = batch
        /\ batch[Writer] = <<>>
    BY <1>5 DEF SwapNothing, UnlockFile, TypeOK, SerialInv, WriterInv
  <2>2. CASE why = "data"
    <3>1. dpc'[Writer] = "select"
      BY <2>1, <2>2 DEF AfterDrain
    <3>2. QED
      BY <1>2, <1>3, <2>1, <2>2, <3>1
         DEF SerialInv, WriterInv, FlusherInv, WriterPlaces, StopChClosed
  <2>3. CASE why = "flush"
    <3>1. dpc'[Writer] = "sync"
      BY <2>1, <2>3 DEF AfterDrain
    <3>2. QED
      BY <1>2, <1>3, <2>1, <2>3, <3>1
         DEF SerialInv, WriterInv, FlusherInv, WriterPlaces, StopChClosed
  <2>4. CASE why = "stop"
    <3>1. dpc'[Writer] = "returned"
      BY <2>1, <2>4 DEF AfterDrain
    <3>2. QED
      BY <1>2, <1>3, <2>1, <2>4, <3>1
         DEF SerialInv, WriterInv, FlusherInv, WriterPlaces, StopChClosed
  <2>5. QED
    BY <2>2, <2>3, <2>4 DEF TypeOK
<1>6. CASE LockFile(Writer)
  <2>1. dpc[Writer] = "lock" /\ dpc'[Writer] = "write" /\ batch' = batch
    BY <1>6 DEF LockFile, TypeOK
  <2>2. QED
    BY <1>2, <1>3, <2>1 DEF SerialInv, WriterInv, FlusherInv, WriterPlaces, StopChClosed
<1>7. CASE WriteLine(Writer)
  <2>1. dpc[Writer] = "write" /\ dpc' = dpc
    BY <1>7 DEF WriteLine
  <2>2. QED
    BY <1>2, <1>3, <2>1 DEF SerialInv, WriterInv, FlusherInv, WriterPlaces, StopChClosed
<1>8. CASE FlushBuffer(Writer)
  <2>1. dpc[Writer] = "sync" /\ dpc'[Writer] = "ack" /\ batch' = batch
    BY <1>8 DEF FlushBuffer, TypeOK
  <2>2. QED
    BY <1>2, <1>3, <2>1 DEF SerialInv, WriterInv, FlusherInv, WriterPlaces, StopChClosed
<1>9. QED
  BY <1>1, <1>4, <1>5, <1>6, <1>7, <1>8 DEF Drain

\* A step of the select loop of Run.
LEMMA SerialRun ==
  ASSUME TypeOK, SerialInv, RunStep
  PROVE  SerialInv'
<1> USE WriterIsDrainer
<1>1. UNCHANGED <<life, batch>>
  BY DEF RunStep, TakeToken, TakeStop, Ack, RunDone
<1>2. CASE TakeToken
  <2>1. /\ dpc[Writer] = "select" /\ dpc'[Writer] = "swap" /\ why' = "data"
        /\ \A f \in Flushers : dpc'[f] = dpc[f]
    BY <1>2 DEF TakeToken, TypeOK
  <2>2. QED
    BY <1>1, <2>1 DEF SerialInv, WriterInv, FlusherInv, WriterPlaces, StopChClosed
<1>3. CASE TakeStop
  <2>1. /\ dpc[Writer] = "select" /\ dpc'[Writer] = "swap" /\ why' = "stop"
        /\ \A f \in Flushers : dpc'[f] = dpc[f]
    BY <1>3 DEF TakeStop, TypeOK
  <2>2. life \in {"stopping", "barred", "joining", "closing", "closed"}
    BY <1>3 DEF TakeStop, StopChClosed
  <2>3. QED
    BY <1>1, <2>1, <2>2 DEF SerialInv, WriterInv, FlusherInv, WriterPlaces, StopChClosed
<1>4. CASE Ack
  <2>1. /\ dpc[Writer] = "ack" /\ dpc'[Writer] = "select" /\ why' = why
        /\ \A f \in Flushers : dpc'[f] = IF dpc[f] = "await" THEN "return" ELSE dpc[f]
    BY <1>4 DEF Ack, TypeOK
  <2>2. why = "flush"
    BY <2>1 DEF SerialInv, WriterInv
  <2>3. \A f \in Flushers : dpc'[f] = "return" \/ (dpc'[f] = dpc[f] /\ dpc[f] # "await")
    BY <2>1
  <2>4. WriterInv'
    BY <1>1, <2>1, <2>2 DEF SerialInv, WriterInv, WriterPlaces
  <2>5. FlusherInv'
    BY <1>1, <2>1, <2>3 DEF SerialInv, FlusherInv, StopChClosed
  <2>6. QED
    BY <2>4, <2>5 DEF SerialInv
<1>5. CASE RunDone
  <2>1. /\ dpc[Writer] = "returned" /\ dpc'[Writer] = "exited" /\ why' = why
        /\ \A f \in Flushers : dpc'[f] = dpc[f]
    BY <1>5 DEF RunDone, TypeOK
  <2>2. QED
    BY <1>1, <2>1 DEF SerialInv, WriterInv, FlusherInv, WriterPlaces, StopChClosed
<1>6. QED
  BY <1>2, <1>3, <1>4, <1>5 DEF RunStep

\* A step of a call of Flush.
LEMMA SerialFlush ==
  ASSUME TypeOK, Disciplined, SerialInv, NEW f \in Flushers, Flush(f) \/ FlushStep(f)
  PROVE  SerialInv'
<1> USE WriterIsDrainer
<1>1. UNCHANGED <<life, batch>>
  BY DEF Flush, FlushStep, Handshake, FlushSeesStop, FlushReturn
<1>2. CASE Flush(f)
  <2>1. life = "started"
    BY <1>2 DEF Flush, Disciplined
  <2>2. dpc[Writer] \notin {"off", "exited"}
    BY <2>1 DEF SerialInv, WriterInv, StopChClosed
  <2>3. IsRunning
    BY <2>1, <2>2 DEF IsRunning
  <2>4. dpc' = [dpc EXCEPT ![f] = "select"] /\ why' = why
    BY <1>2, <2>3 DEF Flush
  <2>5. dpc'[Writer] = dpc[Writer] /\ \A g \in Flushers : dpc'[g] = dpc[g] \/ dpc'[g] = "select"
    BY <2>4 DEF TypeOK
  <2>6. QED
    BY <1>1, <2>1, <2>4, <2>5 DEF SerialInv, WriterInv, FlusherInv, StopChClosed
<1>3. CASE Handshake(f)
  <2>1. /\ dpc[Writer] = "select" /\ dpc'[Writer] = "swap" /\ why' = "flush"
        /\ dpc[f] = "select" /\ dpc'[f] = "await"
        /\ \A g \in Flushers \ {f} : dpc'[g] = dpc[g]
    BY <1>3 DEF Handshake, TypeOK
  <2>2. ~StopChClosed
    BY <2>1 DEF SerialInv, FlusherInv
  <2>3. QED
    BY <1>1, <2>1, <2>2 DEF SerialInv, WriterInv, FlusherInv, WriterPlaces, StopChClosed
<1>4. CASE FlushSeesStop(f)
  BY <1>4 DEF FlushSeesStop, SerialInv, FlusherInv
<1>5. CASE FlushReturn(f)
  <2>1. dpc'[Writer] = dpc[Writer] /\ why' = why
    BY <1>5 DEF FlushReturn, TypeOK
  <2>2. \A g \in Flushers : dpc'[g] = dpc[g] \/ dpc'[g] = "idle"
    BY <1>5 DEF FlushReturn, TypeOK
  <2>3. QED
    BY <1>1, <2>1, <2>2 DEF SerialInv, WriterInv, FlusherInv, StopChClosed
<1>6. QED
  BY <1>2, <1>3, <1>4, <1>5 DEF FlushStep

LEMMA SerialStep ==
  TypeOK /\ WriterOff /\ Disciplined /\ SerialInv /\ [Next]_vars => SerialInv'
<1> SUFFICES ASSUME TypeOK, WriterOff, Disciplined, SerialInv, [Next]_vars PROVE SerialInv'
  OBVIOUS
<1> USE WriterIsDrainer
<1>1. ASSUME UNCHANGED drainVars, UNCHANGED life PROVE SerialInv'
  BY <1>1 DEF SerialInv, WriterInv, FlusherInv, StopChClosed, drainVars
<1>2. ASSUME NEW p \in Producers, Produce(p) PROVE SerialInv'
  BY <1>1, <1>2 DEF Produce, Enqueue, Block, Reject, Notify
<1>3. ASSUME NEW t \in Drainers, Drain(t) PROVE SerialInv'
  BY <1>3, SerialDrain
<1>4. CASE RunStep
  BY <1>4, SerialRun
<1>5. ASSUME NEW f \in Flushers, Flush(f) \/ FlushStep(f) PROVE SerialInv'
  BY <1>5, SerialFlush
<1>6. CASE Tick \/ Operate
  BY <1>1, <1>6 DEF Tick, TickFlush, TickRotate, TickerExit,
                    Operate, ForceNewFile, Copy, ClearContents, Admin
<1>7. CASE InitAppender
  <2>1. life = "mounted" /\ life' \in {"inited", "failed"} /\ UNCHANGED drainVars
    BY <1>7 DEF InitAppender
  <2>2. QED
    BY <2>1 DEF SerialInv, WriterInv, FlusherInv, StopChClosed, drainVars
<1>8. CASE Start
  <2>1. /\ life = "inited" /\ life' = "started"
        /\ dpc'[Writer] = "select" /\ UNCHANGED <<why, batch>>
        /\ \A f \in Flushers : dpc'[f] = dpc[f]
    BY <1>8 DEF Start, TypeOK
  <2>2. dpc[Writer] = "off"
    BY <2>1 DEF WriterOff
  <2>3. WriterInv'
    BY <2>1, <2>2 DEF SerialInv, WriterInv, WriterPlaces, StopChClosed
  <2>4. FlusherInv'
    BY <2>1, <2>2 DEF SerialInv, FlusherInv, StopChClosed
  <2>5. QED
    BY <2>3, <2>4 DEF SerialInv
<1>9. CASE UnInitStop
  <2>1. life' = "stopping" /\ UNCHANGED drainVars /\ \A f \in Flushers : dpc[f] = "idle"
    BY <1>9 DEF UnInitStop, Disciplined
  <2>2. QED
    BY <2>1 DEF SerialInv, WriterInv, FlusherInv, StopChClosed, drainVars
<1>10. CASE UnInitBar \/ UnInitBaseStop
  <2>1. /\ life \in {"stopping", "barred"} /\ life' \in {"barred", "joining"}
        /\ UNCHANGED drainVars
    BY <1>10 DEF UnInitBar, UnInitBaseStop
  <2>2. QED
    BY <2>1 DEF SerialInv, WriterInv, FlusherInv, StopChClosed, drainVars
<1>11. CASE UnInitJoin
  <2>1. /\ life = "joining" /\ life' = "closing" /\ UNCHANGED drainVars
        /\ dpc[Writer] \in {"off", "returned", "exited"}
    BY <1>11 DEF UnInitJoin
  <2>2. QED
    BY <2>1 DEF SerialInv, WriterInv, FlusherInv, StopChClosed, drainVars
<1>12. CASE UnInitClose
  <2>1. life = "closing" /\ life' = "closed" /\ UNCHANGED drainVars
    BY <1>12 DEF UnInitClose
  <2>2. QED
    BY <2>1 DEF SerialInv, WriterInv, FlusherInv, StopChClosed, drainVars
<1>13. CASE UNCHANGED vars
  BY <1>1, <1>13 DEF vars
<1>14. QED
  BY <1>2, <1>3, <1>4, <1>5, <1>6, <1>7, <1>8, <1>9, <1>10, <1>11, <1>12, <1>13
     DEF Next, Mount, UnInit

LEMMA SerialInvariant == Disciplined => (Spec => []SerialInv)
<1> SUFFICES ASSUME Disciplined PROVE Spec => []SerialInv
  OBVIOUS
<1>1. QED
  BY SerialInit, SerialStep, TypeCorrect, WriterOffInvariant, PTL DEF Spec

\* "So the swap is sequential": used through the logger, no two threads are
\* ever between the swap and the last line of their batch, however many
\* producers and flushers there are and whatever fails.
THEOREM SwapSequential == Disciplined => (Spec => []SwapIsSequential)
<1> SUFFICES ASSUME Disciplined PROVE Spec => []SwapIsSequential
  OBVIOUS
<1>1. SerialInv => SwapIsSequential
  BY OnlyWriterDrains DEF SwapIsSequential
<1>2. QED
  BY <1>1, SerialInvariant, PTL

-----------------------------------------------------------------------------
(***************************************************************************)
(* What that implies for the lines themselves: their order, their number,  *)
(* what Flush and UnInit promise about them, and that the appender         *)
(* implements DurableLog.                                                  *)
(***************************************************************************)

(* Sequences of line numbers.                                               *)

\* s holds, in increasing order, lines among 1..n of which l are missing.
Ordered(s, n, l) ==
  /\ Len(s) + l = n
  /\ \A i, j \in 1..Len(s) : i < j => s[i] < s[j]
  /\ \A i \in 1..Len(s) : s[i] <= n
  /\ l = 0 => \A i \in 1..Len(s) : s[i] = i

\* s holds the lines that follow line k.
Numbered(s, k) == \A i \in 1..Len(s) : s[i] = k + i

\* Joining sequences of lines is associative, and adds their lengths.
LEMMA JoinAssoc ==
  ASSUME NEW a \in Seq(Nat), NEW b \in Seq(Nat), NEW c \in Seq(Nat)
  PROVE  a \o (b \o c) = (a \o b) \o c
<1>1. (a \o b) \o c = a \o (b \o c)
  BY ConcatAssociative, SMT
<1>2. QED
  BY <1>1

LEMMA JoinLen == \A a, b \in Seq(Nat) : Len(a \o b) = Len(a) + Len(b)
  BY ConcatProperties

LEMMA OrderedAppend ==
  ASSUME NEW s \in Seq(Nat), NEW n \in Nat, NEW l \in Nat, Ordered(s, n, l)
  PROVE  Ordered(Append(s, n + 1), n + 1, l)
<1> DEFINE a == Append(s, n + 1)
<1>1. /\ Len(a) = Len(s) + 1
      /\ \A i \in 1..Len(s) : a[i] = s[i]
      /\ a[Len(s) + 1] = n + 1
  BY AppendProperties
<1>2. Len(s) \in Nat /\ \A i \in 1..Len(s) : s[i] \in Nat
  OBVIOUS
<1> HIDE DEF a
<1>3. Len(a) + l = n + 1
  BY <1>1, <1>2 DEF Ordered
<1>4. \A i, j \in 1..Len(a) : i < j => a[i] < a[j]
  <2> SUFFICES ASSUME NEW i \in 1..Len(a), NEW j \in 1..Len(a), i < j PROVE a[i] < a[j]
    OBVIOUS
  <2>1. i \in 1..Len(s) /\ a[i] = s[i] /\ s[i] <= n /\ s[i] \in Nat
    BY <1>1, <1>2 DEF Ordered
  <2>2. CASE j = Len(s) + 1
    <3>1. a[j] = n + 1
      BY <1>1, <2>2
    <3>2. QED
      BY <2>1, <3>1
  <2>3. CASE j \in 1..Len(s)
    BY <1>1, <2>1, <2>3 DEF Ordered
  <2>4. j = Len(s) + 1 \/ j \in 1..Len(s)
    BY <1>1, <1>2
  <2>5. QED
    BY <2>2, <2>3, <2>4
<1>5. \A i \in 1..Len(a) : a[i] <= n + 1
  <2> SUFFICES ASSUME NEW i \in 1..Len(a) PROVE a[i] <= n + 1
    OBVIOUS
  <2>1. CASE i = Len(s) + 1
    BY <1>1, <2>1
  <2>2. CASE i \in 1..Len(s)
    BY <1>1, <1>2, <2>2 DEF Ordered
  <2>3. QED
    BY <1>1, <1>2, <2>1, <2>2
<1>6. ASSUME l = 0, NEW i \in 1..Len(a) PROVE a[i] = i
  <2>1. CASE i = Len(s) + 1
    BY <1>1, <1>2, <1>6, <2>1 DEF Ordered
  <2>2. CASE i \in 1..Len(s)
    BY <1>1, <1>6, <2>2 DEF Ordered
  <2>3. QED
    BY <1>1, <1>2, <2>1, <2>2
<1>7. Ordered(a, n + 1, l)
  BY <1>3, <1>4, <1>5, <1>6 DEF Ordered
<1>8. QED
  BY <1>7 DEF a

LEMMA OrderedSkip ==
  ASSUME NEW s \in Seq(Nat), NEW n \in Nat, NEW l \in Nat, Ordered(s, n, l)
  PROVE  Ordered(s, n + 1, l + 1)
<1>1. Len(s) \in Nat /\ \A i \in 1..Len(s) : s[i] \in Nat
  OBVIOUS
<1>2. QED
  BY <1>1 DEF Ordered

LEMMA OrderedPrefix ==
  ASSUME NEW s \in Seq(Nat), NEW u \in Seq(Nat), NEW n \in Nat, NEW l \in Nat,
         Ordered(s \o u, n, l)
  PROVE  Ordered(s, n, l + Len(u))
<1>1. /\ Len(s \o u) = Len(s) + Len(u)
      /\ Len(s) \in Nat /\ Len(u) \in Nat
      /\ \A i \in 1..Len(s) : i \in 1..Len(s \o u) /\ (s \o u)[i] = s[i]
  BY ConcatProperties
<1>2. QED
  BY <1>1 DEF Ordered

-----------------------------------------------------------------------------
(* What the operations on the file do to the lines handed to it.            *)

\* Lines in the file or its archives, and lines that will never be there.
Settled == Len(past) + Len(disk) + lost

LEMMA ContentType ==
  ASSUME TypeOK
  PROVE  /\ disk \o bufw \in Seq(Nat)
         /\ Content \in Seq(Nat)
         /\ Len(Content) = Len(past) + Len(disk) + Len(bufw)
         /\ Len(past) \in Nat /\ Len(disk) \in Nat /\ Len(bufw) \in Nat
         /\ Settled \in Nat
BY DEF TypeOK, Content, Settled

\* Flushing the buffer and closing the file moves lines and keeps their order.
LEMMA FlushKeepsContent ==
  ASSUME TypeOK, FlushFile, past' = past
  PROVE  Content' = Content /\ Len(past') + Len(disk') = Len(past) + Len(disk) + Len(bufw)
<1>1. (disk \o bufw) \o <<>> = disk \o bufw
  BY ContentType, ConcatEmptySeq
<1>2. Len(disk') = Len(disk) + Len(bufw)
  BY FlushFileLengths
<1>3. QED
  BY <1>1, <1>2, ContentType DEF Content, FlushFile

\* So does going on with the file, or leaving it for an archive or a new name.
LEMMA ArchiveKeepsContent ==
  ASSUME TypeOK, NEW leave, Settle(disk \o bufw, leave), bufw' = <<>>
  PROVE  Content' = Content /\ Len(past') + Len(disk') = Len(past) + Len(disk) + Len(bufw)
<1>1. CASE leave
  <2>1. past' = Content /\ disk' = <<>>
    BY <1>1 DEF Settle, Content
  <2>2. <<>> \o <<>> = <<>> /\ Content \o <<>> = Content
    BY ContentType, ConcatEmptySeq, EmptySeq
  <2>3. Content' = Content
    BY <2>1, <2>2 DEF Content
  <2>4. QED
    BY <2>1, <2>3, ContentType
<1>2. CASE ~leave
  BY <1>2, FlushKeepsContent DEF Settle, FlushFile
<1>3. QED
  BY <1>1, <1>2

\* What buffering a line does to the content, with and without writing the
\* buffer out first.
LEMMA BufferAppended ==
  ASSUME TypeOK, NEW line \in Nat,
         bufw' = Append(bufw, line), disk' = disk, past' = past, lost' = lost
  PROVE  Content' = Append(Content, line) /\ Settled' = Settled
<1>1. past \in Seq(Nat) /\ disk \in Seq(Nat) /\ bufw \in Seq(Nat) /\ disk \o bufw \in Seq(Nat)
  BY DEF TypeOK
<1>2. disk \o Append(bufw, line) = Append(disk \o bufw, line)
  BY <1>1, AppendLast
<1>3. past \o Append(disk \o bufw, line) = Append(past \o (disk \o bufw), line)
  BY <1>1, AppendLast
<1>4. QED
  BY <1>2, <1>3 DEF Content, Settled

LEMMA BufferReplaced ==
  ASSUME TypeOK, NEW line \in Nat,
         bufw' = <<line>>, disk' = disk \o bufw, past' = past
  PROVE  /\ Content' = Append(Content, line)
         /\ Len(past') + Len(disk') = Len(past) + Len(disk) + Len(bufw)
<1>1. past \in Seq(Nat) /\ disk \in Seq(Nat) /\ bufw \in Seq(Nat) /\ disk \o bufw \in Seq(Nat)
  BY DEF TypeOK
<1>2. (disk \o bufw) \o <<line>> = Append(disk \o bufw, line)
  BY <1>1, AppendLast
<1>3. past \o Append(disk \o bufw, line) = Append(past \o (disk \o bufw), line)
  BY <1>1, AppendLast
<1>4. Content' = Append(Content, line)
  BY <1>2, <1>3 DEF Content
<1>5. Len(disk \o bufw) = Len(disk) + Len(bufw) /\ Len(past) \in Nat
      /\ Len(disk) \in Nat /\ Len(bufw) \in Nat
  BY <1>1, JoinLen
<1>6. QED
  BY <1>4, <1>5

\* Writing a line appends it to the content, or discards it.
LEMMA WriteLineContent ==
  ASSUME TypeOK, NEW line \in Nat, WriteLineLocked(line)
  PROVE  /\ \/ Content' = Append(Content, line) /\ lost' = lost
            \/ Content' = Content /\ lost' = lost + 1
         /\ Settled <= Settled'
<1> USE ContentType
<1>1. CASE lost' = lost + 1 /\ UNCHANGED <<file, bufw, disk, found, past, size>>
  BY <1>1 DEF Content, Settled, TypeOK
<1>2. CASE BufferLine(line) /\ past' = past /\ lost' = lost
  <2>1. CASE bufw' = Append(bufw, line) /\ disk' = disk
    <3>1. Content' = Append(Content, line) /\ Settled' = Settled
      BY BufferAppended, <1>2, <2>1
    <3>2. QED
      BY <1>2, <3>1
  <2>2. CASE bufw' = <<line>> /\ disk' = disk \o bufw
    BY BufferReplaced, <1>2, <2>2 DEF Settled, TypeOK
  <2>3. QED
    BY <1>2, <2>1, <2>2 DEF BufferLine
<1>3. ASSUME NEW move \in Outcome, NEW open \in Outcome,
             Archive(move),
             bufw' = IF open = "ok" THEN <<line>> ELSE <<>>,
             lost' = IF open = "ok" THEN lost ELSE lost + 1
      PROVE  /\ \/ Content' = Append(Content, line) /\ lost' = lost
                \/ Content' = Content /\ lost' = lost + 1
             /\ Settled <= Settled'
  <2>1. CASE open # "ok"
    <3>1. /\ Content' = Content /\ lost' = lost + 1
          /\ Len(past') + Len(disk') = Len(past) + Len(disk) + Len(bufw)
      BY <1>3, <2>1, ArchiveKeepsContent DEF Archive
    <3>2. QED
      BY <3>1 DEF Settled, TypeOK
  <2>2. CASE open = "ok" /\ move # "ok"
    <3>1. /\ Content' = Append(Content, line) /\ lost' = lost
          /\ Len(past') + Len(disk') = Len(past) + Len(disk) + Len(bufw)
      BY BufferReplaced, <1>3, <2>2 DEF Archive, Settle
    <3>2. QED
      BY <3>1 DEF Settled, TypeOK
  <2>3. CASE open = "ok" /\ move = "ok"
    <3>1. past' = Content /\ disk' = <<>> /\ bufw' = <<line>> /\ lost' = lost
      BY <1>3, <2>3 DEF Archive, Settle, Content
    <3>2. <<>> \o <<line>> = <<line>> /\ Append(Content, line) = Content \o <<line>>
      BY AppendLast
    <3>3. Content' = Append(Content, line)
      BY <3>1, <3>2 DEF Content
    <3>4. Len(past') + Len(disk') = Len(past) + Len(disk) + Len(bufw)
      BY <3>1
    <3>5. QED
      BY <3>1, <3>3, <3>4 DEF Settled, TypeOK
  <2>4. QED
    BY <2>1, <2>2, <2>3
<1>4. QED
  BY <1>1, <1>2, <1>3 DEF WriteLineLocked

\* What a step of the other goroutines and of the file operations does to the
\* lines: nothing, unless ClearContents fails to remove the file and the lines
\* that were still in the buffer are gone.
KeepsLines == Content' = Content /\ lost' = lost /\ Settled <= Settled'

DropsBuffer ==
  /\ past' \in Seq(Nat) /\ disk' \in Seq(Nat) /\ bufw' = <<>>
  /\ past' \o disk' = past \o disk
  /\ Len(past') + Len(disk') = Len(past) + Len(disk)
  /\ lost' = lost + Len(bufw)

LEMMA DropSettles == TypeOK /\ DropsBuffer => Settled <= Settled'
<1> SUFFICES ASSUME TypeOK, DropsBuffer PROVE Settled <= Settled'
  OBVIOUS
<1>1. /\ Len(past) \in Nat /\ Len(disk) \in Nat /\ Len(bufw) \in Nat /\ lost \in Nat
      /\ Len(past') \in Nat /\ Len(disk') \in Nat
  BY DEF TypeOK, DropsBuffer
<1>2. QED
  BY <1>1 DEF DropsBuffer, Settled

LEMMA KeepsIfMoved ==
  ASSUME TypeOK, Content' = Content, lost' = lost,
         Len(past') + Len(disk') = Len(past) + Len(disk) + Len(bufw)
  PROVE  KeepsLines
BY ContentType DEF KeepsLines, Settled, TypeOK

LEMMA OtherSteps ==
  ASSUME TypeOK,
         \/ UNCHANGED fileVars
         \/ \E t \in Drainers : FlushBuffer(t)
         \/ Tick \/ Operate \/ InitAppender \/ UnInitClose
  PROVE  KeepsLines \/ DropsBuffer
<1> USE ContentType
<1>1. CASE UNCHANGED fileVars
  BY <1>1 DEF KeepsLines, Content, Settled, fileVars
<1>2. ASSUME NEW t \in Drainers, FlushBuffer(t) PROVE KeepsLines
  BY <1>2, FlushKeepsContent, KeepsIfMoved DEF FlushBuffer
<1>3. CASE TickFlush
  BY <1>3, FlushKeepsContent, KeepsIfMoved DEF TickFlush
<1>4. CASE TickRotate
  BY <1>4, ArchiveKeepsContent, KeepsIfMoved DEF TickRotate, Archive
<1>5. CASE TickerExit
  BY <1>1, <1>5 DEF TickerExit
<1>6. CASE ForceNewFile
  BY <1>6, ArchiveKeepsContent, KeepsIfMoved DEF ForceNewFile, Admin, Archive
<1>7. CASE Copy
  <2>1. PICK leave \in Renamings : Settle(disk \o bufw, leave)
    BY <1>7 DEF Copy
  <2>2. bufw' = <<>> /\ UNCHANGED lost
    BY <1>7 DEF Copy, Admin
  <2>3. QED
    BY <2>1, <2>2, ArchiveKeepsContent, KeepsIfMoved
<1>8. CASE ClearContents
  <2>1. PICK remove \in Outcome, leave \in Renamings :
          /\ IF remove = "ok" THEN Settle(disk \o bufw, TRUE) ELSE Settle(disk, leave)
          /\ lost' = IF remove = "ok" THEN lost ELSE lost + Len(bufw)
    BY <1>8 DEF ClearContents
  <2>2. bufw' = <<>>
    BY <1>8 DEF ClearContents, Admin
  <2>3. CASE remove = "ok"
    BY <2>1, <2>2, <2>3, ArchiveKeepsContent, KeepsIfMoved
  <2>4. CASE remove # "ok"
    <3>1. Settle(disk, leave) /\ lost' = lost + Len(bufw)
      BY <2>1, <2>4
    <3>2. past \in Seq(Nat) /\ disk \in Seq(Nat) /\ past \o disk \in Seq(Nat)
      BY DEF TypeOK
    <3>3. Len(past \o disk) = Len(past) + Len(disk) /\ (past \o disk) \o <<>> = past \o disk
      BY <3>2, JoinLen, ConcatEmptySeq
    <3>4. /\ past' \o disk' = past \o disk
          /\ Len(past') + Len(disk') = Len(past) + Len(disk)
      <4>1. CASE leave
        <5>1. past' = past \o disk /\ disk' = <<>> /\ Len(<<>>) = 0
          BY <3>1, <4>1, EmptySeq DEF Settle
        <5>2. Len(past \o disk) \in Nat
          BY <3>2, LenProperties
        <5>3. QED
          BY <3>3, <5>1, <5>2
      <4>2. CASE ~leave
        BY <3>1, <4>2 DEF Settle
      <4>3. QED
        BY <4>1, <4>2
    <3>5. past' \in Seq(Nat) /\ disk' \in Seq(Nat)
      BY <3>1, <3>2, SettleType
    <3>6. QED
      BY <2>2, <3>1, <3>4, <3>5 DEF DropsBuffer
  <2>5. QED
    BY <2>3, <2>4
<1>9. CASE InitAppender
  BY <1>9 DEF InitAppender, KeepsLines, Content, Settled
<1>10. CASE UnInitClose
  BY <1>10, FlushKeepsContent, KeepsIfMoved DEF UnInitClose
<1>11. QED
  BY <1>1, <1>2, <1>3, <1>4, <1>5, <1>6, <1>7, <1>8, <1>9, <1>10 DEF Tick, Operate

-----------------------------------------------------------------------------
(* The order of the lines.                                                  *)

\* Number of lines handed to the file so far.
Handed == accepted - Len(pending) - Len(batch[Writer])

\* The lines are numbered without a gap through the file, the batch that the
\* writer holds, and the batch buffer.
OrderInv ==
  /\ Ordered(Content, Handed, lost)
  /\ Numbered(batch[Writer], Handed)
  /\ Numbered(pending, accepted - Len(pending))

LEMMA OrderInit == TypeOK /\ Init => OrderInv
<1> SUFFICES ASSUME TypeOK, Init PROVE OrderInv
  OBVIOUS
<1>1. <<>> \o (<<>> \o <<>>) = <<>>
  BY ConcatEmptySeq, EmptySeq
<1>2. Content = <<>> /\ lost = 0 /\ accepted = 0 /\ pending = <<>> /\ batch[Writer] = <<>>
  BY <1>1, WriterIsDrainer DEF Init, Content
<1>3. Len(<<>>) = 0 /\ \A i \in 1..0 : FALSE
  BY EmptySeq
<1>4. Len(pending) = 0 /\ Len(batch[Writer]) = 0 /\ accepted = 0
  BY <1>2, <1>3
<1>5. Handed = 0 /\ accepted - Len(pending) = 0
  BY <1>4 DEF Handed
<1>6. Ordered(<<>>, 0, 0)
  BY <1>3 DEF Ordered
<1>7. Numbered(<<>>, 0)
  BY <1>3 DEF Numbered
<1>8. QED
  BY <1>2, <1>4, <1>5, <1>6, <1>7 DEF OrderInv

\* Facts about the queue that the step lemmas share.
LEMMA HandedType ==
  ASSUME TypeOK, OrderInv
  PROVE  /\ Handed \in Nat /\ Content \in Seq(Nat) /\ lost \in Nat
         /\ batch[Writer] \in Seq(Nat) /\ Len(batch[Writer]) \in Nat
         /\ pending \in Seq(Nat) /\ Len(pending) \in Nat /\ accepted \in Nat
<1>1. /\ Content \in Seq(Nat) /\ lost \in Nat
      /\ batch[Writer] \in Seq(Nat) /\ pending \in Seq(Nat) /\ accepted \in Nat
  BY ContentType, WriterIsDrainer DEF TypeOK
<1>2. Len(Content) \in Nat /\ Len(pending) \in Nat /\ Len(batch[Writer]) \in Nat
  BY <1>1
<1>3. Len(Content) + lost = Handed
  BY DEF OrderInv, Ordered
<1>4. QED
  BY <1>1, <1>2, <1>3

LEMMA OrderOther ==
  ASSUME TypeOK, OrderInv, KeepsLines \/ DropsBuffer,
         UNCHANGED <<pending, accepted>>, batch'[Writer] = batch[Writer]
  PROVE  OrderInv'
<1>1. Handed' = Handed
  BY DEF Handed
<1>2. CASE KeepsLines
  BY <1>1, <1>2 DEF KeepsLines, OrderInv
<1>3. CASE DropsBuffer
  <2>1. past \in Seq(Nat) /\ disk \in Seq(Nat) /\ bufw \in Seq(Nat) /\ <<>> \in Seq(Nat)
    BY DEF TypeOK
  <2>a. past \o (disk \o bufw) = (past \o disk) \o bufw
    BY <2>1, JoinAssoc, Zenon
  <2>2. Content = (past \o disk) \o bufw
    BY <2>a DEF Content
  <2>3. disk' \o <<>> = disk'
    BY ConcatEmptySeq DEF TypeOK
  <2>4. Content' = past \o disk
    BY <1>3, <2>3 DEF Content, DropsBuffer
  <2>5. past \o disk \in Seq(Nat)
    BY <2>1, ConcatProperties
  <2>6. Ordered(past \o disk, Handed, lost + Len(bufw))
    BY <2>1, <2>2, <2>5, HandedType, OrderedPrefix DEF OrderInv
  <2>7. lost' = lost + Len(bufw)
    BY <1>3 DEF DropsBuffer
  <2>8. QED
    BY <1>1, <2>4, <2>6, <2>7 DEF OrderInv
<1>4. QED
  BY <1>2, <1>3

LEMMA OrderEnqueue ==
  ASSUME TypeOK, OrderInv, NEW p \in Producers, Enqueue(p)
  PROVE  OrderInv'
<1> USE HandedType
<1>1. /\ accepted' = accepted + 1 /\ pending' = Append(pending, accepted + 1)
      /\ UNCHANGED <<batch, fileVars>>
  BY DEF Enqueue, drainVars
<1>2. /\ Len(pending') = Len(pending) + 1
      /\ \A i \in 1..Len(pending) : pending'[i] = pending[i]
      /\ pending'[Len(pending) + 1] = accepted + 1
  BY <1>1, AppendProperties
<1>3. Handed' = Handed
  BY <1>1, <1>2 DEF Handed
<1>4. ASSUME NEW i \in 1..Len(pending') PROVE pending'[i] = accepted' - Len(pending') + i
  <2>1. CASE i = Len(pending) + 1
    BY <1>1, <1>2, <2>1
  <2>2. CASE i \in 1..Len(pending)
    BY <1>1, <1>2, <2>2 DEF OrderInv, Numbered
  <2>3. i \in 1..(Len(pending) + 1)
    BY <1>2
  <2>4. i = Len(pending) + 1 \/ i \in 1..Len(pending)
    BY <2>3
  <2>5. QED
    BY <2>1, <2>2, <2>4
<1>5. Content' = Content /\ lost' = lost
  BY <1>1 DEF fileVars, Content
<1>6. QED
  BY <1>1, <1>3, <1>4, <1>5 DEF OrderInv, Numbered

LEMMA OrderSwap ==
  ASSUME TypeOK, SerialInv, OrderInv, Swap(Writer)
  PROVE  OrderInv'
<1> USE HandedType
<1>1. /\ batch'[Writer] = pending /\ pending' = <<>> /\ accepted' = accepted
      /\ Content' = Content /\ lost' = lost
  BY WriterIsDrainer DEF Swap, TypeOK, fileVars, Content
<1>2. batch[Writer] = <<>>
  BY DEF Swap, SerialInv, WriterInv
<1>3. Handed' = Handed /\ Handed = accepted - Len(pending)
  BY <1>1, <1>2 DEF Handed
<1>4. QED
  BY <1>1, <1>3 DEF OrderInv, Numbered

LEMMA OrderWriteLine ==
  ASSUME TypeOK, OrderInv, WriteLine(Writer)
  PROVE  OrderInv'
<1> USE HandedType
<1> DEFINE b == batch[Writer]
<1>1. b # <<>> /\ b \in Seq(Nat) /\ WriteLineLocked(Head(b))
  BY DEF WriteLine
<1>2. /\ batch'[Writer] = Tail(b)
      /\ UNCHANGED <<pending, accepted>>
  BY WriterIsDrainer DEF WriteLine, TypeOK, queueVars
<1>3. Head(b) = b[1] /\ 1 \in 1..Len(b)
  BY <1>1
<1>4. Head(b) = Handed + 1
  BY <1>3 DEF OrderInv, Numbered
<1>5. /\ Len(Tail(b)) = Len(b) - 1
      /\ \A i \in 1..Len(Tail(b)) : Tail(b)[i] = b[i + 1]
  BY <1>1, HeadTailProperties
<1>6. Handed' = Handed + 1
  BY <1>2, <1>5 DEF Handed
<1>7. Numbered(Tail(b), Handed + 1)
  <2> SUFFICES ASSUME NEW i \in 1..Len(Tail(b)) PROVE Tail(b)[i] = Handed + 1 + i
    BY DEF Numbered
  <2>1. i + 1 \in 1..Len(b)
    BY <1>5
  <2>2. b[i + 1] = Handed + (i + 1)
    BY <2>1 DEF OrderInv, Numbered
  <2>3. QED
    BY <1>5, <2>2
<1>8. Ordered(Content', Handed + 1, lost')
  <2>1. CASE Content' = Append(Content, Handed + 1) /\ lost' = lost
    BY <2>1, OrderedAppend DEF OrderInv
  <2>2. CASE Content' = Content /\ lost' = lost + 1
    BY <2>2, OrderedSkip DEF OrderInv
  <2>3. QED
    BY <1>1, <1>4, <2>1, <2>2, WriteLineContent
<1>9. QED
  BY <1>2, <1>6, <1>7, <1>8 DEF OrderInv

LEMMA OrderStep ==
  TypeOK /\ SerialInv /\ OrderInv /\ [Next]_vars => OrderInv'
<1> SUFFICES ASSUME TypeOK, SerialInv, OrderInv, [Next]_vars PROVE OrderInv'
  OBVIOUS
<1> USE WriterIsDrainer
<1>1. ASSUME UNCHANGED <<pending, accepted, batch, fileVars>> PROVE OrderInv'
  BY <1>1, OtherSteps, OrderOther
<1>2. ASSUME NEW p \in Producers, Produce(p) PROVE OrderInv'
  <2>1. CASE Enqueue(p)
    BY <2>1, OrderEnqueue
  <2>2. CASE Block(p) \/ Reject(p) \/ Notify(p)
    BY <1>1, <2>2 DEF Block, Reject, Notify, drainVars
  <2>3. QED
    BY <1>2, <2>1, <2>2 DEF Produce
<1>3. ASSUME NEW t \in Drainers, Drain(t) PROVE OrderInv'
  <2>1. t = Writer
    BY <1>3, OnlyWriterDrains
       DEF Drain, Swap, SwapNothing, LockFile, WriteLine, UnlockFile, FlushBuffer
  <2>2. CASE Swap(Writer)
    BY <2>2, OrderSwap
  <2>3. CASE WriteLine(Writer)
    BY <2>3, OrderWriteLine
  <2>4. CASE FlushBuffer(Writer)
    <3>1. UNCHANGED <<pending, accepted>> /\ batch'[Writer] = batch[Writer]
      BY <2>4 DEF FlushBuffer, queueVars
    <3>2. QED
      BY <2>4, <3>1, OtherSteps, OrderOther
  <2>5. CASE SwapNothing(Writer) \/ LockFile(Writer) \/ UnlockFile(Writer)
    BY <1>1, <2>5 DEF SwapNothing, LockFile, UnlockFile, queueVars
  <2>6. QED
    BY <1>3, <2>1, <2>2, <2>3, <2>4, <2>5 DEF Drain
<1>4. CASE RunStep
  BY <1>1, <1>4 DEF RunStep, TakeToken, TakeStop, Ack, RunDone, queueVars
<1>5. ASSUME NEW f \in Flushers, Flush(f) \/ FlushStep(f) PROVE OrderInv'
  BY <1>1, <1>5 DEF Flush, FlushStep, Handshake, FlushSeesStop, FlushReturn, queueVars
<1>6. CASE Tick \/ Operate \/ InitAppender \/ UnInitClose
  <2>1. UNCHANGED <<pending, accepted>> /\ batch'[Writer] = batch[Writer]
    BY <1>6 DEF Tick, TickFlush, TickRotate, TickerExit,
                Operate, ForceNewFile, Copy, ClearContents, Admin,
                InitAppender, UnInitClose, queueVars, drainVars
  <2>2. QED
    BY <1>6, <2>1, OtherSteps, OrderOther
<1>7. CASE Start \/ UnInitStop \/ UnInitBar \/ UnInitBaseStop \/ UnInitJoin
  BY <1>1, <1>7 DEF Start, UnInitStop, UnInitBar, UnInitBaseStop, UnInitJoin, queueVars, drainVars
<1>8. CASE UNCHANGED vars
  BY <1>1, <1>8 DEF vars, queueVars, drainVars
<1>9. QED
  BY <1>2, <1>3, <1>4, <1>5, <1>6, <1>7, <1>8 DEF Next, Mount, UnInit

LEMMA OrderInvariant == Disciplined => (Spec => []OrderInv)
<1> SUFFICES ASSUME Disciplined PROVE Spec => []OrderInv
  OBVIOUS
<1>1. QED
  BY OrderInit, OrderStep, TypeCorrect, SerialInvariant, PTL DEF Spec

\* The lines are in the files in the order in which Write accepted them, each
\* at most once, and without a gap unless a line was discarded.
THEOREM FilesInOrder == Disciplined => (Spec => []FileInOrder)
<1> SUFFICES ASSUME Disciplined PROVE Spec => []FileInOrder
  OBVIOUS
<1>1. OrderInv => FileInOrder
  BY DEF OrderInv, Ordered, FileInOrder
<1>2. QED
  BY <1>1, OrderInvariant, PTL

\* No accepted line disappears, whatever fails.
THEOREM LinesAccounted == Disciplined => (Spec => []EveryLineAccounted)
<1> SUFFICES ASSUME Disciplined PROVE Spec => []EveryLineAccounted
  OBVIOUS
<1>1. TypeOK /\ SerialInv /\ OrderInv => EveryLineAccounted
  <2> SUFFICES ASSUME TypeOK, SerialInv, OrderInv, NEW t \in Drainers,
                      \A u \in Drainers \ {t} : batch[u] = <<>>
               PROVE  Len(Content) + lost + Len(batch[t]) + Len(pending) = accepted
    BY DEF EveryLineAccounted
  <2>1. Len(Content) + lost = Handed /\ Len(Content) \in Nat
    BY HandedType DEF OrderInv, Ordered
  <2>2. CASE t = Writer
    BY <2>1, <2>2, HandedType DEF Handed
  <2>3. CASE t # Writer
    <3>1. batch[Writer] = <<>> /\ batch[t] = <<>>
      BY <2>3, WriterIsDrainer DEF SerialInv, FlusherInv, Drainers
    <3>2. QED
      BY <2>1, <3>1, HandedType DEF Handed
  <2>4. QED
    BY <2>2, <2>3
<1>2. QED
  BY <1>1, OrderInvariant, SerialInvariant, TypeCorrect, PTL

-----------------------------------------------------------------------------
(* How far the lines have come.                                             *)

\* Number of lines that left the batch buffer.
Swapped == accepted - Len(pending)

HowFar ==
  /\ Settled \in Nat /\ Handed \in Nat /\ Swapped \in Nat /\ accepted \in Nat
  /\ Handed = Settled + Len(bufw) /\ Len(bufw) \in Nat
  /\ Swapped = Handed + Len(batch[Writer]) /\ Len(batch[Writer]) \in Nat
  /\ accepted = Swapped + Len(pending) /\ Len(pending) \in Nat

LEMMA HowFarHolds == TypeOK /\ OrderInv => HowFar
<1> SUFFICES ASSUME TypeOK, OrderInv PROVE HowFar
  OBVIOUS
<1>1. Len(Content) + lost = Handed /\ lost \in Nat
  BY HandedType DEF OrderInv, Ordered
<1>2. /\ Len(Content) = Len(past) + Len(disk) + Len(bufw)
      /\ Len(past) \in Nat /\ Len(disk) \in Nat /\ Len(bufw) \in Nat
  BY ContentType
<1>3. Settled \in Nat /\ Handed = Settled + Len(bufw)
  BY <1>1, <1>2 DEF Settled
<1>4. /\ Handed = accepted - Len(pending) - Len(batch[Writer])
      /\ Swapped = accepted - Len(pending)
  BY DEF Handed, Swapped
<1>5. Handed \in Nat /\ accepted \in Nat /\ Len(pending) \in Nat /\ Len(batch[Writer]) \in Nat
  BY HandedType
<1>6. /\ Swapped = Handed + Len(batch[Writer]) /\ accepted = Swapped + Len(pending)
      /\ Swapped \in Nat
  BY <1>4, <1>5
<1>7. QED
  BY <1>2, <1>3, <1>5, <1>6 DEF HowFar

\* No step takes a line back.
Forward ==
  accepted <= accepted' /\ Swapped <= Swapped' /\ Handed <= Handed' /\ Settled <= Settled'

LEMMA ForwardOther ==
  ASSUME TypeOK, OrderInv, KeepsLines \/ DropsBuffer,
         UNCHANGED <<pending, accepted>>, batch'[Writer] = batch[Writer]
  PROVE  Forward
<1>1. Handed' = Handed /\ Swapped' = Swapped
  BY DEF Handed, Swapped
<1>2. Settled <= Settled'
  BY DropSettles DEF KeepsLines
<1>3. QED
  BY <1>1, <1>2, HowFarHolds DEF Forward, HowFar

LEMMA ForwardStep ==
  ASSUME TypeOK, TypeOK', SerialInv, OrderInv, OrderInv', [Next]_vars
  PROVE  Forward
<1> USE WriterIsDrainer
<1>1. ASSUME UNCHANGED <<pending, accepted, batch, fileVars>> PROVE Forward
  BY <1>1, OtherSteps, ForwardOther
<1>2. ASSUME NEW p \in Producers, Produce(p) PROVE Forward
  <2>1. CASE Enqueue(p)
    <3>1. /\ accepted' = accepted + 1 /\ pending' = Append(pending, accepted + 1)
          /\ UNCHANGED <<batch, fileVars>>
      BY <2>1 DEF Enqueue, drainVars
    <3>2. Len(pending') = Len(pending) + 1
      BY <3>1, HandedType, AppendProperties
    <3>3. Handed' = Handed /\ Swapped' = Swapped /\ Settled' = Settled
      BY <3>1, <3>2, HandedType DEF Handed, Swapped, Settled, fileVars
    <3>4. QED
      BY <3>1, <3>3, HowFarHolds DEF Forward, HowFar
  <2>2. CASE Block(p) \/ Reject(p) \/ Notify(p)
    BY <1>1, <2>2 DEF Block, Reject, Notify, drainVars
  <2>3. QED
    BY <1>2, <2>1, <2>2 DEF Produce
<1>3. ASSUME NEW t \in Drainers, Drain(t) PROVE Forward
  <2>1. t = Writer
    BY <1>3, OnlyWriterDrains
       DEF Drain, Swap, SwapNothing, LockFile, WriteLine, UnlockFile, FlushBuffer
  <2>2. CASE Swap(Writer)
    <3>1. /\ batch'[Writer] = pending /\ pending' = <<>> /\ UNCHANGED <<accepted, fileVars>>
      BY <2>2 DEF Swap, TypeOK
    <3>2. batch[Writer] = <<>> /\ Len(pending') = 0
      BY <2>2, <3>1 DEF Swap, SerialInv, WriterInv
    <3>3. Handed' = Handed /\ Swapped' = accepted /\ Settled' = Settled
      BY <3>1, <3>2, HandedType DEF Handed, Swapped, Settled, fileVars
    <3>4. QED
      BY <3>1, <3>3, HowFarHolds DEF Forward, HowFar
  <2>3. CASE WriteLine(Writer)
    <3>1. batch[Writer] # <<>> /\ WriteLineLocked(Head(batch[Writer]))
      BY <2>3 DEF WriteLine
    <3>2. batch'[Writer] = Tail(batch[Writer]) /\ UNCHANGED <<pending, accepted>>
      BY <2>3 DEF WriteLine, TypeOK, queueVars
    <3>3. /\ Head(batch[Writer]) \in Nat
          /\ Len(batch'[Writer]) = Len(batch[Writer]) - 1
      BY <3>1, <3>2, HandedType, HeadTailProperties
    <3>4. Handed' = Handed + 1 /\ Swapped' = Swapped
      BY <3>2, <3>3, HandedType DEF Handed, Swapped
    <3>5. Settled <= Settled'
      BY <3>1, <3>3, WriteLineContent
    <3>6. QED
      BY <3>2, <3>4, <3>5, HowFarHolds DEF Forward, HowFar
  <2>4. CASE FlushBuffer(Writer)
    <3>1. UNCHANGED <<pending, accepted>> /\ batch'[Writer] = batch[Writer]
      BY <2>4 DEF FlushBuffer, queueVars
    <3>2. QED
      BY <2>4, <3>1, OtherSteps, ForwardOther
  <2>5. CASE SwapNothing(Writer) \/ LockFile(Writer) \/ UnlockFile(Writer)
    BY <1>1, <2>5 DEF SwapNothing, LockFile, UnlockFile, queueVars
  <2>6. QED
    BY <1>3, <2>1, <2>2, <2>3, <2>4, <2>5 DEF Drain
<1>4. CASE RunStep
  BY <1>1, <1>4 DEF RunStep, TakeToken, TakeStop, Ack, RunDone, queueVars
<1>5. ASSUME NEW f \in Flushers, Flush(f) \/ FlushStep(f) PROVE Forward
  BY <1>1, <1>5 DEF Flush, FlushStep, Handshake, FlushSeesStop, FlushReturn, queueVars
<1>6. CASE Tick \/ Operate \/ InitAppender \/ UnInitClose
  <2>1. UNCHANGED <<pending, accepted>> /\ batch'[Writer] = batch[Writer]
    BY <1>6 DEF Tick, TickFlush, TickRotate, TickerExit,
                Operate, ForceNewFile, Copy, ClearContents, Admin,
                InitAppender, UnInitClose, queueVars, drainVars
  <2>2. QED
    BY <1>6, <2>1, OtherSteps, ForwardOther
<1>7. CASE Start \/ UnInitStop \/ UnInitBar \/ UnInitBaseStop \/ UnInitJoin
  BY <1>1, <1>7 DEF Start, UnInitStop, UnInitBar, UnInitBaseStop, UnInitJoin, queueVars, drainVars
<1>8. CASE UNCHANGED vars
  BY <1>1, <1>8 DEF vars, queueVars, drainVars
<1>9. QED
  BY <1>2, <1>3, <1>4, <1>5, <1>6, <1>7, <1>8 DEF Next, Mount, UnInit

\* Flushing or closing the file settles every line handed to it.
LEMMA FlushSettles ==
  ASSUME TypeOK, HowFar, FlushFile, UNCHANGED <<past, lost>>
  PROVE  Settled' = Handed
<1>1. Len(disk') = Len(disk) + Len(bufw)
  BY FlushFileLengths
<1>2. /\ Len(past) \in Nat /\ Len(disk) \in Nat /\ Len(bufw) \in Nat /\ lost \in Nat
      /\ Len(past') = Len(past) /\ lost' = lost
  BY ContentType DEF TypeOK
<1>3. Settled' = Settled + Len(bufw)
  BY <1>1, <1>2 DEF Settled
<1>4. QED
  BY <1>3 DEF HowFar

-----------------------------------------------------------------------------
(* Flush and UnInit.                                                        *)

\* The lines a call of Flush waits for have come at least as far as the writer
\* has come in serving it.
FlushInv ==
  \A f \in Flushers :
    /\ mark[f] <= accepted
    /\ dpc[f] = "await" /\ dpc[Writer] \in {"lock", "write"} => mark[f] <= Swapped
    /\ dpc[f] = "await" /\ dpc[Writer] = "sync" => mark[f] <= Handed
    /\ dpc[f] = "await" /\ dpc[Writer] = "ack" => mark[f] <= Settled
    /\ dpc[f] = "return" => mark[f] <= Settled

\* Likewise the lines accepted before UnInit was called.
StopInv ==
  /\ stopMark <= accepted
  /\ why = "stop" /\ dpc[Writer] \in {"lock", "write"} => stopMark <= Swapped
  /\ dpc[Writer] \in {"returned", "exited"} => stopMark <= Handed
  /\ life = "closed" /\ dpc[Writer] # "off" => stopMark <= Settled

MarkInv == FlushInv /\ StopInv

LEMMA MarkInit == TypeOK /\ OrderInv /\ Init => MarkInv
<1> SUFFICES ASSUME TypeOK, OrderInv, Init PROVE MarkInv
  OBVIOUS
<1>1. /\ dpc[Writer] = "off" /\ stopMark = 0 /\ accepted = 0 /\ life = "mounted"
      /\ \A f \in Flushers : dpc[f] = "idle" /\ mark[f] = 0
  BY WriterIsDrainer DEF Init
<1>2. QED
  BY <1>1 DEF MarkInv, FlushInv, StopInv

\* The marks and the lines are numbers, before and after a step.
MarkType ==
  /\ stopMark \in Nat /\ \A f \in Flushers : mark[f] \in Nat
  /\ accepted \in Nat /\ Swapped \in Nat /\ Handed \in Nat /\ Settled \in Nat

LEMMA MarkTypeHolds == TypeOK /\ HowFar => MarkType
BY DEF TypeOK, HowFar, MarkType

LEMMA MarkDrain ==
  ASSUME TypeOK, SerialInv, HowFar, MarkType, MarkType', MarkInv, Forward,
         NEW t \in Drainers, Drain(t)
  PROVE  MarkInv'
<1> USE WriterIsDrainer DEF MarkInv, FlushInv, StopInv, Forward, MarkType
<1>1. t = Writer
  BY OnlyWriterDrains
     DEF Drain, Swap, SwapNothing, LockFile, WriteLine, UnlockFile, FlushBuffer
<1>2. UNCHANGED <<life, why, mark, stopMark>>
  BY DEF Drain, Swap, SwapNothing, LockFile, WriteLine, UnlockFile, FlushBuffer, histVars
<1>3. \A f \in Flushers : dpc'[f] = dpc[f]
  BY <1>1 DEF TypeOK, Drain, Swap, SwapNothing, LockFile, WriteLine, UnlockFile, FlushBuffer
<1>4. life # "closed" \/ dpc[Writer] \in {"off", "returned", "exited"}
  BY DEF SerialInv, WriterInv
<1>5. CASE Swap(Writer)
  <2>1. dpc[Writer] = "swap" /\ dpc'[Writer] = "lock" /\ accepted' = accepted
    BY <1>5 DEF Swap, TypeOK
  <2>2. Len(pending') = 0
    BY <1>5 DEF Swap
  <2>3. Swapped' = accepted
    BY <2>1, <2>2 DEF Swapped
  <2>4. QED
    BY <1>2, <1>3, <1>4, <2>1, <2>3
<1>6. CASE SwapNothing(Writer) \/ UnlockFile(Writer)
  <2>1. /\ dpc[Writer] \in {"swap", "write"} /\ dpc'[Writer] = AfterDrain(Writer)
        /\ batch[Writer] = <<>>
    BY <1>6 DEF SwapNothing, UnlockFile, TypeOK, SerialInv, WriterInv
  <2>2. dpc[Writer] = "swap" => pending = <<>>
    BY <1>6 DEF SwapNothing, UnlockFile
  <2>3. Handed = Swapped /\ (dpc[Writer] = "swap" => Handed = accepted)
    BY <2>1, <2>2 DEF HowFar
  <2>4. CASE why = "data"
    <3>1. dpc'[Writer] = "select"
      BY <2>1, <2>4 DEF AfterDrain
    <3>2. \A f \in Flushers : dpc[f] # "await"
      BY <2>4 DEF SerialInv, FlusherInv
    <3>3. QED
      BY <1>2, <1>3, <1>4, <2>1, <3>1, <3>2
  <2>5. CASE why = "flush"
    <3>1. dpc'[Writer] = "sync"
      BY <2>1, <2>5 DEF AfterDrain
    <3>2. QED
      BY <1>2, <1>3, <1>4, <2>1, <2>3, <3>1
  <2>6. CASE why = "stop"
    <3>1. dpc'[Writer] = "returned"
      BY <2>1, <2>6 DEF AfterDrain
    <3>2. QED
      BY <1>2, <1>3, <1>4, <2>1, <2>3, <2>6, <3>1
  <2>7. QED
    BY <2>4, <2>5, <2>6 DEF TypeOK
<1>7. CASE LockFile(Writer)
  <2>1. dpc[Writer] = "lock" /\ dpc'[Writer] = "write"
    BY <1>7 DEF LockFile, TypeOK
  <2>2. QED
    BY <1>2, <1>3, <1>4, <2>1
<1>8. CASE WriteLine(Writer)
  <2>1. dpc' = dpc
    BY <1>8 DEF WriteLine
  <2>2. QED
    BY <1>2, <2>1
<1>9. CASE FlushBuffer(Writer)
  <2>1. dpc[Writer] = "sync" /\ dpc'[Writer] = "ack"
    BY <1>9 DEF FlushBuffer, TypeOK
  <2>2. Settled' = Handed
    BY <1>9, FlushSettles DEF FlushBuffer
  <2>3. QED
    BY <1>2, <1>3, <1>4, <2>1, <2>2
<1>10. QED
  BY <1>1, <1>5, <1>6, <1>7, <1>8, <1>9 DEF Drain

LEMMA MarkRun ==
  ASSUME TypeOK, SerialInv, MarkType, MarkType', MarkInv, Forward, RunStep
  PROVE  MarkInv'
<1> USE WriterIsDrainer DEF MarkInv, FlushInv, StopInv, Forward, MarkType
<1>1. UNCHANGED <<life, mark, stopMark>>
  BY DEF RunStep, TakeToken, TakeStop, Ack, RunDone, histVars
<1>2. life # "closed" \/ dpc[Writer] \in {"off", "returned", "exited"}
  BY DEF SerialInv, WriterInv
<1>3. CASE TakeToken \/ TakeStop
  <2>1. /\ dpc[Writer] = "select" /\ dpc'[Writer] = "swap"
        /\ \A f \in Flushers : dpc'[f] = dpc[f]
    BY <1>3 DEF TakeToken, TakeStop, TypeOK
  <2>2. QED
    BY <1>1, <1>2, <2>1
<1>4. CASE Ack
  <2>1. /\ dpc[Writer] = "ack" /\ dpc'[Writer] = "select" /\ why' = why
        /\ \A f \in Flushers : dpc'[f] = IF dpc[f] = "await" THEN "return" ELSE dpc[f]
    BY <1>4 DEF Ack, TypeOK
  <2>2. \A f \in Flushers : dpc'[f] = "return" => dpc[f] \in {"await", "return"}
    BY <2>1
  <2>3. \A f \in Flushers : dpc'[f] = "return" => mark[f] <= Settled
    BY <2>1, <2>2
  <2>4. FlushInv'
    BY <1>1, <2>1, <2>3
  <2>5. StopInv'
    BY <1>1, <1>2, <2>1
  <2>6. QED
    BY <2>4, <2>5
<1>5. CASE RunDone
  <2>1. /\ dpc[Writer] = "returned" /\ dpc'[Writer] = "exited" /\ why' = why
        /\ \A f \in Flushers : dpc'[f] = dpc[f]
    BY <1>5 DEF RunDone, TypeOK
  <2>2. QED
    BY <1>1, <2>1
<1>6. QED
  BY <1>3, <1>4, <1>5 DEF RunStep

LEMMA MarkFlush ==
  ASSUME TypeOK, SerialInv, MarkType, MarkType', MarkInv, Forward,
         NEW f \in Flushers, Flush(f) \/ FlushStep(f)
  PROVE  MarkInv'
<1> USE WriterIsDrainer DEF MarkInv, FlushInv, StopInv, Forward, MarkType
<1>1. UNCHANGED <<life, stopMark, accepted>>
  BY DEF Flush, FlushStep, Handshake, FlushSeesStop, FlushReturn, histVars, queueVars
<1>2. CASE Flush(f)
  <2>1. /\ mark' = [mark EXCEPT ![f] = accepted]
        /\ why' = why
    BY <1>2 DEF Flush
  <2>2. /\ dpc[f] = "idle" /\ dpc'[f] \in {"select", "swap"}
        /\ dpc'[Writer] = dpc[Writer]
        /\ \A g \in Flushers \ {f} : dpc'[g] = dpc[g]
    <3>1. CASE IsRunning
      BY <1>2, <3>1 DEF Flush, TypeOK
    <3>2. CASE ~IsRunning
      BY <1>2, <3>2 DEF Flush, TypeOK
    <3>3. QED
      BY <3>1, <3>2
  <2>3. /\ mark'[f] = accepted
        /\ \A g \in Flushers \ {f} : mark'[g] = mark[g]
    BY <2>1 DEF TypeOK
  <2>4. FlushInv'
    BY <1>1, <2>2, <2>3
  <2>5. StopInv'
    BY <1>1, <2>1, <2>2
  <2>6. QED
    BY <2>4, <2>5
<1>3. CASE Handshake(f)
  <2>1. /\ dpc[Writer] = "select" /\ dpc'[Writer] = "swap" /\ dpc'[f] = "await"
        /\ mark' = mark
        /\ \A g \in Flushers \ {f} : dpc'[g] = dpc[g]
    BY <1>3 DEF Handshake, TypeOK, histVars
  <2>2. life # "closed"
    BY <2>1 DEF SerialInv, WriterInv
  <2>3. FlushInv'
    BY <1>1, <2>1
  <2>4. StopInv'
    BY <1>1, <2>1, <2>2
  <2>5. QED
    BY <2>3, <2>4
<1>4. CASE FlushSeesStop(f)
  BY <1>4 DEF FlushSeesStop, SerialInv, FlusherInv
<1>5. CASE FlushReturn(f)
  <2>1. /\ dpc'[Writer] = dpc[Writer] /\ dpc'[f] = "idle" /\ why' = why /\ mark' = mark
        /\ \A g \in Flushers \ {f} : dpc'[g] = dpc[g]
    BY <1>5 DEF FlushReturn, TypeOK, histVars
  <2>2. QED
    BY <1>1, <2>1
<1>6. QED
  BY <1>2, <1>3, <1>4, <1>5 DEF FlushStep

LEMMA MarkStep ==
  ASSUME TypeOK, SerialInv, WriterOff, HowFar, MarkType, MarkType', MarkInv, Forward, [Next]_vars
  PROVE  MarkInv'
<1> USE WriterIsDrainer
<1>1. ASSUME UNCHANGED <<life, dpc, why, mark, stopMark>> PROVE MarkInv'
  BY <1>1 DEF MarkInv, FlushInv, StopInv, Forward, MarkType
<1>2. ASSUME NEW p \in Producers, Produce(p) PROVE MarkInv'
  BY <1>1, <1>2 DEF Produce, Enqueue, Block, Reject, Notify, drainVars, histVars
<1>3. ASSUME NEW t \in Drainers, Drain(t) PROVE MarkInv'
  BY <1>3, MarkDrain
<1>4. CASE RunStep
  BY <1>4, MarkRun
<1>5. ASSUME NEW f \in Flushers, Flush(f) \/ FlushStep(f) PROVE MarkInv'
  BY <1>5, MarkFlush
<1>6. CASE Tick \/ Operate
  BY <1>1, <1>6 DEF Tick, TickFlush, TickRotate, TickerExit,
                    Operate, ForceNewFile, Copy, ClearContents, Admin, drainVars, histVars
<1>7. ASSUME life' # "closed", UNCHANGED <<dpc, why, mark, stopMark>> PROVE MarkInv'
  BY <1>7 DEF MarkInv, FlushInv, StopInv, Forward, MarkType
<1>8. CASE InitAppender \/ UnInitBar \/ UnInitBaseStop \/ UnInitJoin
  <2>1. life' # "closed" /\ UNCHANGED <<dpc, why, mark, stopMark>>
    BY <1>8 DEF InitAppender, UnInitBar, UnInitBaseStop, UnInitJoin, drainVars, histVars
  <2>2. QED
    BY <1>7, <2>1
<1>9. CASE Start
  <2>1. /\ dpc'[Writer] = "select" /\ life' = "started" /\ UNCHANGED <<why, mark, stopMark>>
        /\ \A f \in Flushers : dpc'[f] = dpc[f]
    BY <1>9 DEF Start, TypeOK, histVars
  <2>2. QED
    BY <2>1 DEF MarkInv, FlushInv, StopInv, Forward, MarkType
<1>10. CASE UnInitStop
  <2>1. /\ life \in {"failed", "started"} /\ life' = "stopping"
        /\ stopMark' = accepted /\ accepted' = accepted /\ UNCHANGED <<dpc, why, mark>>
    BY <1>10 DEF UnInitStop, drainVars, queueVars
  <2>2. why # "stop" /\ dpc[Writer] \notin {"returned", "exited"}
    BY <2>1 DEF SerialInv, WriterInv, StopChClosed
  <2>3. QED
    BY <2>1, <2>2 DEF MarkInv, FlushInv, StopInv, Forward, MarkType
<1>11. CASE UnInitClose
  <2>1. UNCHANGED <<dpc, why, mark, stopMark>> /\ life = "closing"
    BY <1>11 DEF UnInitClose, drainVars, histVars
  <2>2. dpc[Writer] \in {"off", "returned", "exited"}
    BY <2>1 DEF SerialInv, WriterInv
  <2>3. Settled' = Handed
    BY <1>11, FlushSettles DEF UnInitClose
  <2>4. QED
    BY <2>1, <2>2, <2>3 DEF MarkInv, FlushInv, StopInv, Forward, MarkType
<1>12. CASE UNCHANGED vars
  BY <1>1, <1>12 DEF vars, drainVars, histVars
<1>13. QED
  BY <1>2, <1>3, <1>4, <1>5, <1>6, <1>8, <1>9, <1>10, <1>11, <1>12 DEF Next, Mount, UnInit

LEMMA MarkInvariant == Disciplined => (Spec => []MarkInv)
<1> SUFFICES ASSUME Disciplined PROVE Spec => []MarkInv
  OBVIOUS
<1>1. /\ TypeOK /\ TypeOK' /\ SerialInv /\ WriterOff /\ OrderInv /\ OrderInv'
      /\ HowFar /\ MarkType /\ MarkType' /\ MarkInv /\ [Next]_vars
      => MarkInv'
  BY ForwardStep, MarkStep
<1>2. QED
  BY <1>1, MarkInit, HowFarHolds, MarkTypeHolds,
     TypeCorrect, SerialInvariant, WriterOffInvariant, OrderInvariant, PTL DEF Spec

\* "Every line enqueued before Flush is visible in the file on return."
THEOREM FlushIsDurable == Disciplined => (Spec => []FlushVisible)
<1> SUFFICES ASSUME Disciplined PROVE Spec => []FlushVisible
  OBVIOUS
<1>1. MarkInv => FlushVisible
  BY DEF MarkInv, FlushInv, FlushVisible, Settled
<1>2. QED
  BY <1>1, MarkInvariant, PTL

\* UnInit closes the file only after every line accepted before it was called
\* is in it.
THEOREM UnInitIsDurable == Disciplined => (Spec => []UnInitWritesEarlierLines)
<1> SUFFICES ASSUME Disciplined PROVE Spec => []UnInitWritesEarlierLines
  OBVIOUS
<1>1. MarkInv => UnInitWritesEarlierLines
  BY DEF MarkInv, StopInv, UnInitWritesEarlierLines, Settled
<1>2. QED
  BY <1>1, MarkInvariant, PTL

-----------------------------------------------------------------------------
(* The appender implements DurableLog.                                      *)

\* Without I/O errors there is a file from Init to the end of UnInit, and no
\* line is discarded.
NothingLost ==
  /\ lost = 0
  /\ life # "failed"
  /\ file = "open" \/ life \in {"mounted", "closed"}

LEMMA NothingLostStep ==
  ASSUME ~IoMayFail, TypeOK, WriterOff, SerialInv, NothingLost, [Next]_vars
  PROVE  NothingLost'
<1> USE DEF NothingLost
<1>0. Outcome = {"ok"} /\ FileAfter("ok") = "open"
  BY DEF Outcome, FileAfter
<1>1. ASSUME UNCHANGED <<life, file, lost>> PROVE NothingLost'
  BY <1>1
<1>2. ASSUME NEW p \in Producers, Produce(p) PROVE NothingLost'
  BY <1>1, <1>2 DEF Produce, Enqueue, Block, Reject, Notify, fileVars
<1>3. ASSUME NEW t \in Drainers, Drain(t) PROVE NothingLost'
  <2>1. CASE Swap(t) \/ SwapNothing(t) \/ LockFile(t) \/ UnlockFile(t) \/ FlushBuffer(t)
    BY <1>1, <2>1 DEF Swap, SwapNothing, LockFile, UnlockFile, FlushBuffer, fileVars
  <2>2. CASE WriteLine(t)
    <3>1. t = Writer /\ dpc[Writer] = "write"
      BY <2>2, OnlyWriterDrains DEF WriteLine
    <3>2. life \notin {"mounted", "closed"} /\ life' = life
      BY <2>2, <3>1 DEF WriterOff, SerialInv, WriterInv, WriteLine
    <3>3. file = "open"
      BY <3>2
    <3>4. WriteLineLocked(Head(batch[t]))
      BY <2>2 DEF WriteLine
    <3>5. file' = "open" /\ lost' = lost
      BY <1>0, <3>3, <3>4 DEF WriteLineLocked
    <3>6. QED
      BY <3>2, <3>5
  <2>3. QED
    BY <1>3, <2>1, <2>2 DEF Drain
<1>4. CASE RunStep
  BY <1>1, <1>4 DEF RunStep, TakeToken, TakeStop, Ack, RunDone, fileVars
<1>5. ASSUME NEW f \in Flushers, Flush(f) \/ FlushStep(f) PROVE NothingLost'
  BY <1>1, <1>5 DEF Flush, FlushStep, Handshake, FlushSeesStop, FlushReturn, fileVars
<1>6. CASE TickFlush \/ TickerExit
  BY <1>1, <1>6 DEF TickFlush, TickerExit, fileVars
<1>7. CASE TickRotate
  BY <1>0, <1>7 DEF TickRotate, Reopen
<1>8. CASE Operate
  BY <1>0, <1>8 DEF Operate, ForceNewFile, Copy, ClearContents, Admin, Reopen
<1>9. CASE InitAppender
  BY <1>0, <1>9 DEF InitAppender, Reopen
<1>10. CASE Start \/ UnInitStop \/ UnInitBar \/ UnInitBaseStop \/ UnInitJoin
  <2>1. /\ life \notin {"mounted", "closed"} /\ life' # "failed"
        /\ UNCHANGED <<file, lost>>
    BY <1>10 DEF Start, UnInitStop, UnInitBar, UnInitBaseStop, UnInitJoin, fileVars
  <2>2. QED
    BY <2>1
<1>11. CASE UnInitClose
  BY <1>11 DEF UnInitClose
<1>12. CASE UNCHANGED vars
  BY <1>1, <1>12 DEF vars, fileVars
<1>13. QED
  BY <1>2, <1>3, <1>4, <1>5, <1>6, <1>7, <1>8, <1>9, <1>10, <1>11, <1>12
     DEF Next, Tick, Mount, UnInit

\* What is durable is the lines 1, 2, 3, ... up to some line.
DurableIsPrefix ==
  /\ past \o disk = Abstract!Prefix(Settled)
  /\ Len(past \o disk) = Settled

LEMMA DurableIsPrefixHolds == TypeOK /\ OrderInv /\ HowFar /\ NothingLost => DurableIsPrefix
<1> SUFFICES ASSUME TypeOK, OrderInv, HowFar, NothingLost PROVE DurableIsPrefix
  OBVIOUS
<1>1. past \in Seq(Nat) /\ disk \in Seq(Nat) /\ bufw \in Seq(Nat)
  BY DEF TypeOK
<1>2. past \o disk \in Seq(Nat) /\ Len(past \o disk) = Len(past) + Len(disk)
  BY <1>1, ConcatProperties
<1>3. Len(past) + Len(disk) \in Nat /\ lost = 0
  BY <1>1 DEF NothingLost
<1>4. Len(past \o disk) = Settled /\ Settled \in Nat
  BY <1>2, <1>3 DEF Settled
<1>a. past \o (disk \o bufw) = (past \o disk) \o bufw
  BY <1>1, JoinAssoc, Zenon
<1>5. Content = (past \o disk) \o bufw
  BY <1>a DEF Content
<1>6. \A i \in 1..Settled : i \in 1..Len(Content) /\ Content[i] = (past \o disk)[i]
  BY <1>1, <1>2, <1>4, <1>5, ConcatProperties
<1>7. \A i \in 1..Len(Content) : Content[i] = i
  BY <1>3 DEF OrderInv, Ordered
<1>8. \A i \in 1..Settled : (past \o disk)[i] = i
  BY <1>6, <1>7
<1>9. past \o disk = [i \in 1..Settled |-> (past \o disk)[i]]
  <2>1. past \o disk \in [1..Settled -> Nat]
    BY <1>2, <1>4, LenProperties
  <2>2. QED
    BY <2>1
<1>10. [i \in 1..Settled |-> (past \o disk)[i]] = [i \in 1..Settled |-> i]
  BY <1>8
<1>11. Abstract!Prefix(Settled) = [i \in 1..Settled |-> i]
  BY DEF Abstract!Prefix
<1>12. QED
  BY <1>4, <1>9, <1>10, <1>11 DEF DurableIsPrefix

LEMMA AbstractInit == Init => Abstract!Init
<1> SUFFICES ASSUME Init PROVE Abstract!Init
  OBVIOUS
<1>1. past \o disk = <<>>
  BY ConcatEmptySeq, EmptySeq DEF Init
<1>2. \A f \in Flushers : dpc[f] = "idle"
  BY WriterIsDrainer DEF Init
<1>3. [f \in Flushers |-> Wanted(f)] = [f \in Flushers |-> -1]
  BY <1>2 DEF Wanted
<1>4. accepted = 0
  BY DEF Init
<1>5. QED
  BY <1>1, <1>3, <1>4 DEF Abstract!Init, Abstract!NoCall

Bounds == Settled \in Nat /\ accepted \in Nat /\ Settled <= accepted

LEMMA BoundsHold == HowFar => Bounds
<1> SUFFICES ASSUME HowFar PROVE Bounds
  OBVIOUS
<1>1. \A a, b \in Nat : a <= a + b
  OBVIOUS
<1>2. Settled <= Handed /\ Handed <= Swapped /\ Swapped <= accepted
  BY <1>1, Zenon DEF HowFar
<1>3. /\ Settled \in Nat /\ Handed \in Nat /\ Swapped \in Nat /\ accepted \in Nat
  BY DEF HowFar
<1>4. QED
  BY <1>2, <1>3 DEF Bounds

\* A step that neither accepts a line nor begins or ends a call of Flush can
\* only make more lines durable.
LEMMA AbstractPersist ==
  ASSUME DurableIsPrefix, DurableIsPrefix', Bounds, Bounds', Forward,
         accepted' = accepted, mark' = mark,
         \A f \in Flushers : dpc'[f] = "idle" <=> dpc[f] = "idle"
  PROVE  Abstract!Persist
<1>1. [f \in Flushers |-> Wanted(f)]' = [f \in Flushers |-> Wanted(f)]
  BY DEF Wanted
<1>2. Settled \in Nat /\ Settled' \in Nat /\ accepted \in Nat
  BY DEF Bounds
<1>3. Settled' \in Settled..accepted
  <2>1. Settled <= Settled' /\ Settled' <= accepted
    BY DEF Forward, Bounds
  <2>2. QED
    BY <1>2, <2>1
<1>4. (past \o disk)' = Abstract!Prefix(Settled')
  BY DEF DurableIsPrefix, Abstract!Prefix
<1>5. Len(past \o disk) = Settled
  BY DEF DurableIsPrefix
<1>6. QED
  BY <1>1, <1>3, <1>4, <1>5 DEF Abstract!Persist

LEMMA AbstractAccept ==
  ASSUME NEW p \in Producers, Enqueue(p)
  PROVE  Abstract!Accept
<1>1. accepted' = accepted + 1 /\ UNCHANGED <<past, disk, dpc, mark>>
  BY DEF Enqueue, drainVars, fileVars, histVars
<1>2. (past \o disk)' = past \o disk
  BY <1>1
<1>3. [f \in Flushers |-> Wanted(f)]' = [f \in Flushers |-> Wanted(f)]
  BY <1>1 DEF Wanted
<1>4. QED
  BY <1>1, <1>2, <1>3 DEF Abstract!Accept

LEMMA AbstractCall ==
  ASSUME TypeOK, NEW f \in Flushers, Flush(f)
  PROVE  Abstract!Call(f)
<1> USE WriterIsDrainer
<1>1. /\ dpc[f] = "idle" /\ dpc'[f] # "idle"
      /\ \A g \in Flushers \ {f} : dpc'[g] = dpc[g]
  <2>1. CASE IsRunning
    BY <2>1 DEF Flush, TypeOK
  <2>2. CASE ~IsRunning
    BY <2>2 DEF Flush, TypeOK
  <2>3. QED
    BY <2>1, <2>2
<1>2. /\ mark'[f] = accepted
      /\ \A g \in Flushers \ {f} : mark'[g] = mark[g]
  BY DEF Flush, TypeOK
<1>3. accepted' = accepted /\ (past \o disk)' = past \o disk
  BY DEF Flush, queueVars, fileVars
<1>4. [g \in Flushers |-> Wanted(g)]'
      = [[g \in Flushers |-> Wanted(g)] EXCEPT ![f] = accepted]
  BY <1>1, <1>2 DEF Wanted
<1>5. [g \in Flushers |-> Wanted(g)][f] = -1
  BY <1>1 DEF Wanted
<1>6. QED
  BY <1>3, <1>4, <1>5 DEF Abstract!Call, Abstract!NoCall

LEMMA AbstractReturn ==
  ASSUME TypeOK, HowFar, NothingLost, DurableIsPrefix, FlushVisible,
         NEW f \in Flushers, FlushReturn(f)
  PROVE  Abstract!Return(f)
<1> USE WriterIsDrainer
<1>1. /\ dpc[f] = "return" /\ dpc'[f] = "idle" /\ mark' = mark
      /\ \A g \in Flushers \ {f} : dpc'[g] = dpc[g]
  BY DEF FlushReturn, TypeOK, histVars
<1>2. accepted' = accepted /\ (past \o disk)' = past \o disk
  BY DEF FlushReturn, queueVars, fileVars
<1>3. [g \in Flushers |-> Wanted(g)][f] = mark[f] /\ mark[f] \in Nat
  BY <1>1 DEF Wanted, TypeOK
<1>4. mark[f] <= Len(past \o disk)
  BY <1>1 DEF FlushVisible, DurableIsPrefix, Settled
<1>5. [g \in Flushers |-> Wanted(g)]'
      = [[g \in Flushers |-> Wanted(g)] EXCEPT ![f] = -1]
  BY <1>1 DEF Wanted
<1>6. QED
  BY <1>2, <1>3, <1>4, <1>5 DEF Abstract!Return, Abstract!NoCall

LEMMA AbstractStep ==
  ASSUME TypeOK, SerialInv, HowFar, Bounds, Bounds', NothingLost, Forward,
         DurableIsPrefix, DurableIsPrefix', FlushVisible, [Next]_vars
  PROVE  [Abstract!Next]_(Abstract!absVars)
<1> USE WriterIsDrainer
<1>1. ASSUME accepted' = accepted, mark' = mark,
             \A f \in Flushers : dpc'[f] = "idle" <=> dpc[f] = "idle"
      PROVE  Abstract!Next
  BY <1>1, AbstractPersist DEF Abstract!Next
<1>2. ASSUME NEW p \in Producers, Produce(p) PROVE Abstract!Next
  <2>1. CASE Enqueue(p)
    BY <2>1, AbstractAccept DEF Abstract!Next
  <2>2. CASE Block(p) \/ Reject(p) \/ Notify(p)
    BY <1>1, <2>2 DEF Block, Reject, Notify, drainVars, histVars
  <2>3. QED
    BY <1>2, <2>1, <2>2 DEF Produce
<1>3. ASSUME NEW t \in Drainers, Drain(t) PROVE Abstract!Next
  <2>1. t = Writer
    BY <1>3, OnlyWriterDrains
       DEF Drain, Swap, SwapNothing, LockFile, WriteLine, UnlockFile, FlushBuffer
  <2>2. accepted' = accepted /\ mark' = mark
    BY <1>3 DEF Drain, Swap, SwapNothing, LockFile, WriteLine, UnlockFile, FlushBuffer,
                queueVars, histVars
  <2>3. \A f \in Flushers : dpc'[f] = dpc[f]
    BY <1>3, <2>1
       DEF TypeOK, Drain, Swap, SwapNothing, LockFile, WriteLine, UnlockFile, FlushBuffer
  <2>4. QED
    BY <1>1, <2>2, <2>3
<1>4. CASE RunStep
  <2>1. accepted' = accepted /\ mark' = mark
    BY <1>4 DEF RunStep, TakeToken, TakeStop, Ack, RunDone, queueVars, histVars
  <2>2. \A f \in Flushers : dpc'[f] = "idle" <=> dpc[f] = "idle"
    BY <1>4 DEF TypeOK, RunStep, TakeToken, TakeStop, Ack, RunDone
  <2>3. QED
    BY <1>1, <2>1, <2>2
<1>5. ASSUME NEW f \in Flushers, Flush(f) \/ FlushStep(f) PROVE Abstract!Next
  <2>1. CASE Flush(f)
    BY <2>1, AbstractCall DEF Abstract!Next
  <2>2. CASE Handshake(f) \/ FlushSeesStop(f)
    <3>1. accepted' = accepted /\ mark' = mark
      BY <2>2 DEF Handshake, FlushSeesStop, queueVars, histVars
    <3>2. \A g \in Flushers : dpc'[g] = "idle" <=> dpc[g] = "idle"
      BY <2>2 DEF TypeOK, Handshake, FlushSeesStop
    <3>3. QED
      BY <1>1, <3>1, <3>2
  <2>3. CASE FlushReturn(f)
    BY <2>3, AbstractReturn DEF Abstract!Next
  <2>4. QED
    BY <1>5, <2>1, <2>2, <2>3 DEF FlushStep
<1>6. CASE Tick \/ Operate
  BY <1>1, <1>6 DEF Tick, TickFlush, TickRotate, TickerExit,
                    Operate, ForceNewFile, Copy, ClearContents, Admin,
                    queueVars, drainVars, histVars
<1>7. CASE Start
  <2>1. accepted' = accepted /\ mark' = mark /\ \A f \in Flushers : dpc'[f] = dpc[f]
    BY <1>7 DEF Start, TypeOK, queueVars, histVars
  <2>2. QED
    BY <1>1, <2>1
<1>8. CASE InitAppender \/ UnInitStop \/ UnInit
  BY <1>1, <1>8 DEF InitAppender, UnInitStop, UnInit, UnInitBar, UnInitBaseStop, UnInitJoin,
                    UnInitClose, queueVars, drainVars, histVars
<1>9. CASE UNCHANGED vars
  BY <1>1, <1>9 DEF vars, queueVars, drainVars, histVars
<1>10. QED
  BY <1>2, <1>3, <1>4, <1>5, <1>6, <1>7, <1>8, <1>9 DEF Next, Mount

\* Used through the logger and without I/O errors, the appender implements
\* DurableLog.
THEOREM ImplementsLog == Disciplined /\ ~IoMayFail => (Spec => ImplementsDurableLog)
<1> SUFFICES ASSUME Disciplined, ~IoMayFail PROVE Spec => Abstract!Spec
  BY DEF ImplementsDurableLog
<1>1. Init => NothingLost
  BY DEF Init, NothingLost
<1>2. TypeOK /\ WriterOff /\ SerialInv /\ NothingLost /\ [Next]_vars => NothingLost'
  BY NothingLostStep
<1>3. Spec => [](TypeOK /\ WriterOff /\ SerialInv /\ OrderInv /\ HowFar /\ NothingLost)
  BY <1>1, <1>2, HowFarHolds,
     TypeCorrect, WriterOffInvariant, SerialInvariant, OrderInvariant, PTL DEF Spec
<1>4. /\ TypeOK /\ TypeOK' /\ SerialInv /\ OrderInv /\ OrderInv'
      /\ HowFar /\ Bounds /\ Bounds' /\ NothingLost
      /\ DurableIsPrefix /\ DurableIsPrefix' /\ FlushVisible /\ [Next]_vars
      => [Abstract!Next]_(Abstract!absVars)
  BY ForwardStep, AbstractStep
<1>5. QED
  BY <1>3, <1>4, AbstractInit, BoundsHold, DurableIsPrefixHolds, FlushIsDurable, PTL
     DEF Spec, Abstract!Spec
=============================================================================
