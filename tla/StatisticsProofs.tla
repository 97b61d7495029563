-------------------------- MODULE StatisticsProofs --------------------------
(* Theorems about Statistics, for all writers, readers, resetters and log  *)
(* types and any number of lines, reports and resets.                      *)
EXTENDS Statistics, FiniteSetTheorems, FunctionTheorems, SequenceTheorems, TLAPS

-----------------------------------------------------------------------------
(* Sums                                                                    *)

Blocks(count) == UNION {{c} \X (1..count[c]) : c \in TypeSet}

\* A set of lines is finite.
LEMMA FewLines ==
  ASSUME NEW n \in Nat, NEW S \in SUBSET (1..n)
  PROVE  IsFiniteSet(S) /\ Cardinality(S) \in Nat /\ Cardinality(S) <= n
<1>1. IsFiniteSet(1..n) /\ Cardinality(1..n) = n
  BY FS_Interval
<1>2. QED
  BY <1>1, FS_Subset, FS_CardinalityType

\* A set of lines is as large as its parts of the types together.
LEMMA SumOfParts ==
  ASSUME NEW n \in Nat, NEW M \in [TypeSet -> SUBSET (1..n)],
         NEW count, \A c \in TypeSet : count[c] = Cardinality(M[c]),
         \A c, d \in TypeSet : c # d => M[c] \cap M[d] = {}
  PROVE  IsFiniteSet(Blocks(count)) /\ OfTypes(count) = Cardinality(UNION {M[c] : c \in TypeSet})
<1> DEFINE All == UNION {M[c] : c \in TypeSet}
           F   == [c \in TypeSet |-> CHOOSE f \in Bijection(1..count[c], M[c]) : TRUE]
           g   == [x \in Blocks(count) |-> F[x[1]][x[2]]]
<1>0. IsFiniteSet(1..n)
  BY FS_Interval
<1>1. ASSUME NEW c \in TypeSet PROVE F[c] \in Bijection(1..count[c], M[c])
  <2>1. M[c] \in SUBSET (1..n)
    OBVIOUS
  <2>2. IsFiniteSet(M[c])
    BY <1>0, <2>1, FS_Subset
  <2>3. ExistsBijection(1..count[c], M[c])
    BY <2>2, FS_CardinalityType
  <2>4. QED
    BY <2>3 DEF ExistsBijection
<1>2. IsFiniteSet(All)
  <2>1. ASSUME NEW m \in All PROVE m \in 1..n
    <3>1. PICK c \in TypeSet : m \in M[c]
      OBVIOUS
    <3>2. M[c] \in SUBSET (1..n)
      OBVIOUS
    <3>3. QED
      BY <3>1, <3>2
  <2>2. QED
    BY <1>0, <2>1, FS_Subset
<1> HIDE DEF F
<1>3. ASSUME NEW x \in Blocks(count)
      PROVE  x[1] \in TypeSet /\ x[2] \in 1..count[x[1]] /\ x = <<x[1], x[2]>>
  BY DEF Blocks
<1>4. ASSUME NEW c \in TypeSet, NEW i \in 1..count[c]
      PROVE  <<c, i>> \in Blocks(count)
  BY DEF Blocks
<1>5. ASSUME NEW x \in Blocks(count) PROVE g[x] \in M[x[1]]
  <2>1. x[1] \in TypeSet /\ x[2] \in 1..count[x[1]] /\ g[x] = F[x[1]][x[2]]
    BY <1>3
  <2>2. F[x[1]] \in [1..count[x[1]] -> M[x[1]]]
    BY <1>1, <2>1 DEF Bijection, Injection
  <2>3. QED
    BY <2>1, <2>2
<1>6. ASSUME NEW x \in Blocks(count), NEW y \in Blocks(count), g[x] = g[y]
      PROVE  x = y
  <2>1. x[1] = y[1]
    <3>1. x[1] \in TypeSet /\ y[1] \in TypeSet
      BY <1>3
    <3>2. g[x] \in M[x[1]] /\ g[x] \in M[y[1]]
      BY <1>5, <1>6
    <3>3. QED
      BY <3>1, <3>2
  <2>2. x[2] = y[2]
    <3> PICK c \in TypeSet : c = x[1]
      BY <1>3
    <3>1. F[c][x[2]] = F[c][y[2]] /\ x[2] \in 1..count[c] /\ y[2] \in 1..count[c]
      BY <1>3, <1>6, <2>1
    <3>2. F[c] \in [1..count[c] -> M[c]] /\ IsInjective(F[c])
      BY <1>1 DEF Bijection, Injection
    <3>3. QED
      BY <3>1, <3>2 DEF IsInjective
  <2>3. QED
    BY <1>3, <2>1, <2>2
<1>7. ASSUME NEW m \in All PROVE \E x \in Blocks(count) : g[x] = m
  <2>1. PICK c \in TypeSet : m \in M[c]
    OBVIOUS
  <2>2. PICK i \in 1..count[c] : F[c][i] = m
    BY <1>1, <2>1 DEF Bijection, Surjection
  <2>3. g[<<c, i>>] = m
    BY <1>4, <2>2
  <2>4. QED
    BY <1>4, <2>3
<1>8. \A x \in Blocks(count) : g[x] \in All
  BY <1>3, <1>5
<1>9. DOMAIN g = Blocks(count) /\ g \in [Blocks(count) -> All]
  BY <1>8
<1> HIDE DEF g, All
<1>10. g \in Injection(Blocks(count), All) /\ g \in Surjection(Blocks(count), All)
  BY <1>6, <1>7, <1>9 DEF Injection, Surjection, IsInjective
<1>11. IsFiniteSet(Blocks(count)) /\ Cardinality(Blocks(count)) = Cardinality(All)
  BY <1>2, <1>10, FS_Injection
<1>12. QED
  BY <1>11 DEF OfTypes, Blocks, All

\* A larger count has a larger sum.
LEMMA SumGrows ==
  ASSUME NEW low, NEW high, IsFiniteSet(Blocks(high)),
         \A c \in TypeSet : low[c] \in Nat /\ high[c] \in Nat /\ low[c] <= high[c]
  PROVE  IsFiniteSet(Blocks(low)) /\ OfTypes(low) <= OfTypes(high)
<1>1. Blocks(low) \in SUBSET Blocks(high)
  <2>1. ASSUME NEW x \in Blocks(low) PROVE x \in Blocks(high)
    <3>1. PICK c \in TypeSet : x \in {c} \X (1..low[c])
      BY DEF Blocks
    <3>2. x \in {c} \X (1..high[c])
      BY <3>1
    <3>3. QED
      BY <3>2 DEF Blocks
  <2>2. QED
    BY <2>1
<1>2. QED
  BY <1>1, FS_Subset DEF OfTypes, Blocks

-----------------------------------------------------------------------------
(* The invariant.  Every counter stands for a set of lines: those that     *)
(* were counted there since it was cleared.  A line that no Reset ran into *)
(* is in all of its counters, or has been cleared out of all of them; only *)
(* while a Reset runs some of them are cleared and others are not yet.     *)

Keys  == {"line", "frames"} \X Counters
Steps == {"idle", "total", "totalFrames", "totalUpdate", "totalSwap", "line", "frames", "update", "swap"}

\* A writer at step s has counted its line at key k, if the line goes there.
Past(s, k) ==
  IF k[2] = Total THEN (IF k[1] = "line" THEN s # "total" ELSE s \notin {"total", "totalFrames"})
                  ELSE (IF k[1] = "line" THEN s \in {"idle", "frames", "update", "swap"}
                                         ELSE s \in {"idle", "update", "swap"})

StatsType ==
  /\ nLine \in [Counters -> Nat] /\ nFrames \in [Counters -> Nat] /\ taken \in [Counters -> Nat]
  /\ writer \in [Writers -> Steps]
  /\ line \in [Writers -> [n : Nat, type : Counters]]
  /\ clearing \in [Resetters -> Seq(Keys)]
  /\ reading \in [Readers -> Seq(Counters)]
  /\ report = [g \in Readers |-> report[g]] /\ \A g \in Readers : DOMAIN report[g] \subseteq Counters
  /\ atOpen \in [Readers -> Nat]
  /\ begun \in Nat /\ ended \in Nat /\ torn \subseteq 1..begun
  /\ nResets \in Nat /\ nReports \in Nat

EndedLines == {n \in 1..begun : \A w \in Busy : line[w].n # n}

LinesDiffer ==
  /\ \A w \in Busy : line[w].n \in 1..begun /\ line[w].type \in TypeSet
  /\ \A w, v \in Busy : line[w].n = line[v].n => w = v
  /\ Resetting => \A w \in Busy : line[w].n \in torn
  /\ nResets = 0 => ~Resetting /\ torn = {}
  /\ ended = Cardinality(EndedLines)

\* T gives the type of each line, P the lines that a counter stands for, and
\* B the lines that are neither torn nor cleared.
GoesTo(T, n, c) == c = Total \/ T[n] = c
Done(n, k)      == \A w \in Busy : line[w].n = n => Past(writer[w], k)
Whole(T, B, k)  == {n \in B : GoesTo(T, n, k[2]) /\ Done(n, k)}

Stands(P) ==
  /\ \A c \in Counters : nLine[c] = Cardinality(P[<<"line", c>>])
  /\ \A c \in Counters : taken[c] + nFrames[c] = Cardinality(P[<<"frames", c>>])

Counted(T, P, B) ==
  /\ \A k \in Keys, n \in 1..begun : n \in P[k] => GoesTo(T, n, k[2]) /\ Done(n, k)
  /\ \A w \in Busy : T[line[w].n] = line[w].type /\ line[w].n \in B \cup torn
  /\ B \cap torn = {}
  /\ \A k \in Keys : P[k] \ torn = Whole(T, B, k) \/ (Resetting /\ P[k] \ torn = {})
  /\ \A r \in Resetters : clearing[r] # <<>> =>
       \A k \in Keys : (\E i \in 1..Len(clearing[r]) : clearing[r][i] = k) \/ P[k] \ torn = {}
  /\ nResets = 0 => B = 1..begun

\* A report has every line that was counted before it; L are these.
Reported(T) ==
  nResets = 0 => \A g \in Readers : \E L \in SUBSET EndedLines :
    /\ atOpen[g] = Cardinality(L)
    /\ \A c \in DOMAIN report[g] :
         /\ report[g][c] \in Nat /\ report[g][c] <= nLine[c]
         /\ Cardinality({n \in L : GoesTo(T, n, c)}) <= report[g][c]

StatsInv ==
  /\ StatsType /\ LinesDiffer
  /\ \E T \in [1..begun -> TypeSet], P \in [Keys -> SUBSET (1..begun)], B \in SUBSET (1..begun) :
       Stands(P) /\ Counted(T, P, B) /\ Reported(T)

LEMMA StatsInvInit == StatsInit => StatsInv
<1> SUFFICES ASSUME StatsInit PROVE StatsInv
  OBVIOUS
<1> USE DEF StatsInit
<1>1. StatsType
  BY DEF StatsType, Steps, Counters
<1>2. Busy = {} /\ ~Resetting /\ EndedLines = {}
  BY DEF Busy, Resetting, EndedLines
<1>3. LinesDiffer
  BY <1>2, FS_EmptySet DEF LinesDiffer
<1> DEFINE T == [n \in 1..0 |-> CHOOSE c \in TypeSet : TRUE]
           P == [k \in Keys |-> {}]
<1>4. T \in [1..begun -> TypeSet] /\ P \in [Keys -> SUBSET (1..begun)] /\ \A k \in Keys : P[k] = {}
  OBVIOUS
<1> HIDE DEF T, P
<1>5. Stands(P)
  <2>1. \A c \in Counters : P[<<"line", c>>] = {} /\ P[<<"frames", c>>] = {}
    BY <1>4 DEF Keys
  <2>2. Cardinality({}) = 0
    BY FS_EmptySet
  <2>3. \A c \in Counters : nLine[c] = 0 /\ taken[c] + nFrames[c] = 0
    OBVIOUS
  <2> HIDE DEF StatsInit
  <2>4. QED
    BY <2>1, <2>2, <2>3 DEF Stands
<1>6. Counted(T, P, {})
  BY <1>2, <1>4 DEF Counted, Whole
<1>7. Reported(T)
  BY <1>2, FS_EmptySet DEF Reported
<1>8. QED
  BY <1>1, <1>3, <1>4, <1>5, <1>6, <1>7 DEF StatsInv

-----------------------------------------------------------------------------
(* The steps                                                               *)

\* A step of one writer changes what is counted of its own line only.
LEMMA WriterStep ==
  ASSUME StatsType, LinesDiffer, NEW w \in Busy, NEW to \in Steps,
         writer' = [writer EXCEPT ![w] = to], UNCHANGED line
  PROVE  /\ Busy' = IF to = "idle" THEN Busy \ {w} ELSE Busy
         /\ \A m, k : m # line[w].n => (Done(m, k)' <=> Done(m, k))
         /\ \A k : Done(line[w].n, k) <=> Past(writer[w], k)
         /\ \A k \in Keys : Done(line[w].n, k)' <=> Past(to, k)
<1>1. w \in Writers /\ \A v \in Writers : writer'[v] = IF v = w THEN to ELSE writer[v]
  BY DEF Busy, StatsType
<1>2. Busy' = IF to = "idle" THEN Busy \ {w} ELSE Busy
  BY <1>1 DEF Busy
<1>3. \A v \in Busy : line[v].n = line[w].n => v = w
  BY DEF LinesDiffer
<1>4. ASSUME NEW m, NEW k, m # line[w].n PROVE Done(m, k)' <=> Done(m, k)
  <2>1. \A v \in Writers : v # w => writer'[v] = writer[v] /\ (v \in Busy' <=> v \in Busy)
    BY <1>1, <1>2
  <2>2. Busy \subseteq Writers /\ Busy' \subseteq Writers
    BY DEF Busy
  <2>3. QED
    BY <1>4, <2>1, <2>2 DEF Done
<1>5. ASSUME NEW k PROVE Done(line[w].n, k) <=> Past(writer[w], k)
  BY <1>3 DEF Done
<1>6. ASSUME NEW k \in Keys PROVE Done(line[w].n, k)' <=> Past(to, k)
  <2>1. CASE to = "idle"
    <3>1. Past(to, k)
      BY <2>1 DEF Past
    <3>2. \A v \in Busy' : line'[v].n # line[w].n
      BY <1>2, <1>3, <2>1
    <3>3. QED
      BY <3>1, <3>2 DEF Done
  <2>2. CASE to # "idle"
    <3>1. w \in Busy' /\ writer'[w] = to /\ \A v \in Busy' : line'[v].n = line[w].n => v = w
      BY <1>1, <1>2, <1>3, <2>2
    <3>2. QED
      BY <3>1 DEF Done
  <2>3. QED
    BY <2>1, <2>2
<1>7. QED
  BY <1>2, <1>4, <1>5, <1>6

\* A report keeps its lines while no count goes down.
LEMMA StaysReported ==
  ASSUME NEW T, NEW U, Reported(T), nResets' = 0 => nResets = 0,
         EndedLines \subseteq EndedLines', \A n \in 1..begun : U[n] = T[n],
         \A c \in Counters : nLine[c] \in Nat /\ nLine'[c] \in Nat /\ nLine[c] <= nLine'[c],
         \A g \in Readers : DOMAIN report[g] \subseteq Counters,
         UNCHANGED <<report, atOpen>>
  PROVE  Reported(U)'
<1> SUFFICES ASSUME nResets = 0, NEW g \in Readers
    PROVE \E L \in SUBSET EndedLines' :
            /\ atOpen[g] = Cardinality(L)
            /\ \A c \in DOMAIN report[g] :
                 /\ report[g][c] \in Nat /\ report[g][c] <= nLine'[c]
                 /\ Cardinality({n \in L : GoesTo(U, n, c)}) <= report[g][c]
  BY DEF Reported
<1>1. PICK L \in SUBSET EndedLines :
        /\ atOpen[g] = Cardinality(L)
        /\ \A c \in DOMAIN report[g] :
             /\ report[g][c] \in Nat /\ report[g][c] <= nLine[c]
             /\ Cardinality({n \in L : GoesTo(T, n, c)}) <= report[g][c]
  BY DEF Reported
<1>2. L \in SUBSET EndedLines' /\ L \subseteq 1..begun
  BY <1>1 DEF EndedLines
<1>3. ASSUME NEW c \in DOMAIN report[g]
      PROVE  /\ report[g][c] \in Nat /\ report[g][c] <= nLine'[c]
             /\ Cardinality({n \in L : GoesTo(U, n, c)}) <= report[g][c]
  <2>1. {n \in L : GoesTo(U, n, c)} = {n \in L : GoesTo(T, n, c)}
    BY <1>2 DEF GoesTo
  <2>2. c \in Counters
    OBVIOUS
  <2>3. report[g][c] \in Nat /\ report[g][c] <= nLine'[c]
    <3>1. report[g][c] \in Nat /\ report[g][c] <= nLine[c]
      BY <1>1
    <3>2. nLine[c] \in Nat /\ nLine'[c] \in Nat /\ nLine[c] <= nLine'[c]
      BY <2>2
    <3>3. QED
      BY <3>1, <3>2
  <2>4. QED
    BY <1>1, <2>1, <2>3
<1>4. QED
  BY <1>1, <1>2, <1>3

\* A new line is the writer's, and nowhere counted.
LEMMA BeginKeeps ==
  ASSUME StatsInv, NEW w \in Writers, Begin(w)
  PROVE  StatsInv'
<1> PICK T \in [1..begun -> TypeSet], P \in [Keys -> SUBSET (1..begun)], B \in SUBSET (1..begun) :
      Stands(P) /\ Counted(T, P, B) /\ Reported(T)
  BY DEF StatsInv
<1>1. PICK t \in TypeSet : line' = [line EXCEPT ![w] = [n |-> begun + 1, type |-> t]]
  BY DEF Begin
<1>2. /\ writer[w] = "idle" /\ begun' = begun + 1 /\ writer' = [writer EXCEPT ![w] = "total"]
      /\ torn' = IF Resetting THEN torn \cup {begun + 1} ELSE torn
      /\ UNCHANGED <<nLine, nFrames, taken, ended, clearing, reading, report, atOpen, nResets, nReports>>
  BY DEF Begin, UnchangedOthers
<1>3. /\ begun \in Nat /\ writer \in [Writers -> Steps] /\ line \in [Writers -> [n : Nat, type : Counters]]
      /\ torn \subseteq 1..begun
  BY DEF StatsInv, StatsType
<1>4. /\ Busy' = Busy \cup {w} /\ w \notin Busy /\ writer'[w] = "total"
      /\ line'[w].n = begun + 1 /\ line'[w].type = t
      /\ \A v \in Busy : line'[v] = line[v] /\ writer'[v] = writer[v]
  BY <1>1, <1>2, <1>3 DEF Busy
<1>5. \A v \in Busy : line[v].n \in 1..begun
  BY DEF StatsInv, LinesDiffer
<1>6. Resetting' <=> Resetting
  BY <1>2 DEF Resetting
<1>7. StatsType'
  <2>1. writer' \in [Writers -> Steps] /\ line' \in [Writers -> [n : Nat, type : Counters]]
    BY <1>1, <1>2, <1>3 DEF Steps, Counters
  <2>2. torn' \subseteq 1..begun' /\ begun' \in Nat
    BY <1>2, <1>3
  <2>3. QED
    BY <1>2, <2>1, <2>2 DEF StatsInv, StatsType
<1>8. EndedLines' = EndedLines
  <2>1. \A n \in 1..begun' : n = begun + 1 \/ n \in 1..begun
    BY <1>2, <1>3
  <2>2. 1..begun \subseteq 1..begun' /\ begun + 1 \notin 1..begun
    BY <1>2, <1>3
  <2>3. QED
    BY <1>4, <2>1, <2>2 DEF EndedLines
<1>9. LinesDiffer'
  <2>1. \A v \in Busy' : line'[v].n \in 1..begun' /\ line'[v].type \in TypeSet
    <3>1. \A v \in Busy : line'[v].n \in 1..begun /\ line'[v].type \in TypeSet
      BY <1>4 DEF StatsInv, LinesDiffer
    <3>2. begun + 1 \in 1..begun' /\ 1..begun \subseteq 1..begun'
      BY <1>2, <1>3
    <3>3. QED
      BY <1>4, <3>1, <3>2
  <2>2. \A v, u \in Busy' : line'[v].n = line'[u].n => v = u
    BY <1>3, <1>4, <1>5 DEF StatsInv, LinesDiffer
  <2>3. Resetting' => \A v \in Busy' : line'[v].n \in torn'
    BY <1>2, <1>4, <1>6 DEF StatsInv, LinesDiffer
  <2>4. nResets' = 0 => ~Resetting' /\ torn' = {}
    BY <1>2, <1>6 DEF StatsInv, LinesDiffer
  <2>5. ended' = Cardinality(EndedLines')
    BY <1>2, <1>8 DEF StatsInv, LinesDiffer
  <2>6. QED
    BY <2>1, <2>2, <2>3, <2>4, <2>5 DEF LinesDiffer
<1> DEFINE U == [n \in 1..(begun + 1) |-> IF n = begun + 1 THEN t ELSE T[n]]
           C == IF Resetting THEN B ELSE B \cup {begun + 1}
<1>10. /\ U \in [1..(begun + 1) -> TypeSet] /\ U[begun + 1] = t /\ \A n \in 1..begun : U[n] = T[n]
       /\ 1..begun \subseteq 1..(begun + 1)
  BY <1>3
<1>11. C \in SUBSET (1..(begun + 1)) /\ B \subseteq C /\ \A n \in C : n \in B \/ (n = begun + 1 /\ ~Resetting)
  BY <1>3
<1> HIDE DEF U
<1>12. PICK V, D : V = U /\ D = C
  OBVIOUS
<1>13. Stands(P)'
  BY <1>2 DEF Stands
<1>14. \A n \in 1..begun : \A k : Done(n, k)' <=> Done(n, k)
  <2>1. \A n \in 1..begun : n # begun + 1
    BY <1>3
  <2>2. QED
    BY <1>4, <2>1 DEF Done
<1>15. ASSUME NEW k \in Keys, NEW n, n = begun + 1 PROVE ~Done(n, k)' \/ ~GoesTo(V, n, k[2])
  <2>1. ~Past("total", k) \/ ~GoesTo(V, n, k[2])
    BY DEF Past, Keys
  <2>2. Done(n, k)' => Past("total", k)
    BY <1>4, <1>15 DEF Done
  <2>3. QED
    BY <2>1, <2>2
<1>16. Counted(V, P, D)'
  <2>1. ASSUME NEW k \in Keys, NEW n \in P[k] PROVE GoesTo(V, n, k[2]) /\ Done(n, k)'
    <3>1. n \in 1..begun
      OBVIOUS
    <3>2. QED
      BY <1>10, <1>12, <1>14, <2>1, <3>1 DEF Counted, GoesTo
  <2>2. ASSUME NEW v \in Busy' PROVE V[line'[v].n] = line'[v].type /\ line'[v].n \in D \cup torn'
    <3>1. CASE v = w
      BY <1>2, <1>4, <1>10, <1>12, <3>1
    <3>2. CASE v # w
      BY <1>2, <1>4, <1>5, <1>10, <1>11, <1>12, <3>2 DEF Counted
    <3>3. QED
      BY <3>1, <3>2
  <2>3. D \cap torn' = {}
    BY <1>2, <1>3, <1>12 DEF Counted
  <2>4. ASSUME NEW k \in Keys PROVE P[k] \ torn' = P[k] \ torn /\ Whole(V, D, k)' = Whole(T, B, k)
    <3>1. P[k] \ torn' = P[k] \ torn
      <4>1. begun + 1 \notin P[k]
        BY <1>3
      <4>2. QED
        BY <1>2, <4>1
    <3>2. \A n \in B : n \in Whole(V, D, k)' <=> n \in Whole(T, B, k)
      BY <1>10, <1>11, <1>12, <1>14 DEF Whole, GoesTo
    <3>3. ASSUME NEW n \in Whole(V, D, k)' PROVE n \in B
      <4>1. n \in D /\ GoesTo(V, n, k[2]) /\ Done(n, k)'
        BY DEF Whole
      <4>2. QED
        BY <1>11, <1>12, <1>15, <4>1
    <3>4. QED
      BY <3>1, <3>2, <3>3 DEF Whole
  <2>5. nResets' = 0 => D = 1..begun'
    <3>1. ASSUME nResets = 0 PROVE B = 1..begun /\ ~Resetting
      BY <3>1 DEF StatsInv, LinesDiffer, Counted
    <3>2. QED
      BY <1>2, <1>3, <1>12, <3>1
  <2>6. QED
    BY <1>2, <1>6, <2>1, <2>2, <2>3, <2>4, <2>5 DEF Counted
<1>17. Reported(V)'
  <2>1. \A c \in Counters : nLine[c] \in Nat /\ nLine'[c] \in Nat /\ nLine[c] <= nLine'[c]
    BY <1>2 DEF StatsInv, StatsType
  <2>2. QED
    BY <1>2, <1>8, <1>10, <1>12, <2>1, StaysReported DEF StatsInv, StatsType
<1>18. QED
  BY <1>2, <1>7, <1>9, <1>10, <1>11, <1>12, <1>13, <1>16, <1>17 DEF StatsInv

\* The key at which a writer counts next.
CountsAt(w, k, to) ==
  /\ k \in Keys /\ k[2] = At(w) /\ to = After(w) /\ to \in Steps \ {"idle"}
  /\ k[2] \in {Total, line[w].type}
  /\ ~Past(writer[w], k) /\ Past(to, k)
  /\ \A j \in Keys : /\ Past(writer[w], j) => Past(to, j)
                     /\ j # k /\ j[2] \in {Total, line[w].type} => (Past(to, j) <=> Past(writer[w], j))

LEMMA CountedKey ==
  ASSUME StatsType, LinesDiffer, NEW w \in Busy
  PROVE  /\ writer[w] \in {"total", "line"} => CountsAt(w, <<"line", At(w)>>, After(w))
         /\ writer[w] \in {"totalFrames", "frames"} => CountsAt(w, <<"frames", At(w)>>, After(w))
<1>1. line[w].type \in TypeSet /\ line[w].type # Total /\ w \in Writers
  BY TypesAssumption DEF LinesDiffer, Busy
<1>2. CASE writer[w] = "total"
  <2>1. At(w) = Total /\ After(w) = "totalFrames"
    BY <1>2 DEF At, After
  <2>2. QED
    BY <1>1, <1>2, <2>1 DEF CountsAt, Past, Keys, Counters, Steps
<1>3. CASE writer[w] = "line"
  <2>1. At(w) = line[w].type /\ After(w) = "frames"
    BY <1>3 DEF At, After
  <2>2. QED
    BY <1>1, <1>3, <2>1 DEF CountsAt, Past, Keys, Counters, Steps
<1>4. CASE writer[w] = "totalFrames"
  <2>1. At(w) = Total /\ After(w) = "totalUpdate"
    BY <1>4 DEF At, After
  <2>2. QED
    BY <1>1, <1>4, <2>1 DEF CountsAt, Past, Keys, Counters, Steps
<1>5. CASE writer[w] = "frames"
  <2>1. At(w) = line[w].type /\ After(w) = "update"
    BY <1>5 DEF At, After
  <2>2. QED
    BY <1>1, <1>5, <2>1 DEF CountsAt, Past, Keys, Counters, Steps
<1>6. QED
  BY <1>2, <1>3, <1>4, <1>5

\* A line is counted at one key more.
LEMMA CountKeeps ==
  ASSUME StatsInv, NEW w \in Writers, CountLine(w) \/ CountFrame(w)
  PROVE  StatsInv'
<1> PICK T \in [1..begun -> TypeSet], P \in [Keys -> SUBSET (1..begun)], B \in SUBSET (1..begun) :
      Stands(P) /\ Counted(T, P, B) /\ Reported(T)
  BY DEF StatsInv
<1>1. w \in Busy
  BY DEF CountLine, CountFrame, Busy
<1>2. PICK k \in Keys, to \in Steps :
        /\ CountsAt(w, k, to)
        /\ writer' = [writer EXCEPT ![w] = to] /\ to # "idle"
        /\ \/ k = <<"line", At(w)>> /\ nLine' = [nLine EXCEPT ![At(w)] = @ + 1] /\ UNCHANGED nFrames
           \/ k = <<"frames", At(w)>> /\ nFrames' = [nFrames EXCEPT ![At(w)] = @ + 1] /\ UNCHANGED nLine
        /\ UNCHANGED ended
  <2>1. CASE CountLine(w)
    <3>1. writer[w] \in {"total", "line"} /\ nLine' = [nLine EXCEPT ![At(w)] = @ + 1] /\ UNCHANGED nFrames
          /\ Goes(w, After(w))
      BY <2>1 DEF CountLine, CountsLine
    <3>2. CountsAt(w, <<"line", At(w)>>, After(w))
      BY <1>1, <3>1, CountedKey DEF StatsInv
    <3>3. QED
      BY <3>1, <3>2 DEF Goes, CountsAt
  <2>2. CASE CountFrame(w)
    <3>1. writer[w] \in {"totalFrames", "frames"} /\ nFrames' = [nFrames EXCEPT ![At(w)] = @ + 1] /\ UNCHANGED nLine
          /\ Goes(w, After(w))
      BY <2>2 DEF CountFrame
    <3>2. CountsAt(w, <<"frames", At(w)>>, After(w))
      BY <1>1, <3>1, CountedKey DEF StatsInv
    <3>3. QED
      BY <3>1, <3>2 DEF Goes, CountsAt
  <2>3. QED
    BY <2>1, <2>2
<1>3. UNCHANGED <<taken, line, begun, torn, clearing, reading, report, atOpen, nResets, nReports>>
  BY DEF CountLine, CountFrame, UnchangedOthers
<1>4. PICK m \in 1..begun : m = line[w].n /\ T[m] = line[w].type /\ m \in B \cup torn
  BY <1>1 DEF StatsInv, LinesDiffer, Counted
<1>5. /\ Busy' = Busy
      /\ \A n, j : n # m => (Done(n, j)' <=> Done(n, j))
      /\ \A j : Done(m, j) <=> Past(writer[w], j)
      /\ \A j \in Keys : Done(m, j)' <=> Past(to, j)
  <2>1. StatsType /\ LinesDiffer
    BY DEF StatsInv
  <2>2. /\ Busy' = IF to = "idle" THEN Busy \ {w} ELSE Busy
        /\ \A n, j : n # line[w].n => (Done(n, j)' <=> Done(n, j))
        /\ \A j : Done(line[w].n, j) <=> Past(writer[w], j)
        /\ \A j \in Keys : Done(line[w].n, j)' <=> Past(to, j)
    BY <1>1, <1>2, <1>3, <2>1, WriterStep
  <2>3. \A j : (Done(m, j) <=> Done(line[w].n, j)) /\ (Done(m, j)' <=> Done(line[w].n, j)')
    BY <1>3, <1>4 DEF Done
  <2>4. QED
    BY <1>2, <1>4, <2>2, <2>3
<1>6. \A n \in 1..begun, j \in Keys : Done(n, j) => Done(n, j)'
  BY <1>2, <1>5 DEF CountsAt
<1>7. \A n \in 1..begun, j \in Keys : j # k /\ GoesTo(T, n, j[2]) => (Done(n, j) <=> Done(n, j)')
  BY <1>2, <1>4, <1>5 DEF CountsAt, GoesTo
<1>8. m \notin P[k] /\ GoesTo(T, m, k[2]) /\ Done(m, k)'
  BY <1>2, <1>4, <1>5 DEF Counted, CountsAt, GoesTo
<1>9. (Resetting' <=> Resetting) /\ EndedLines' = EndedLines /\ (Resetting => m \in torn)
  BY <1>1, <1>3, <1>4, <1>5 DEF Resetting, EndedLines, StatsInv, LinesDiffer
<1>10. At(w) \in Counters /\ nLine \in [Counters -> Nat] /\ nFrames \in [Counters -> Nat] /\ taken \in [Counters -> Nat]
  BY <1>2 DEF StatsInv, StatsType, CountsAt, Keys
<1>11. /\ nLine' \in [Counters -> Nat] /\ nFrames' \in [Counters -> Nat]
       /\ \A c \in Counters : nLine[c] <= nLine'[c]
  BY <1>2, <1>10
<1>12. StatsType'
  BY <1>2, <1>3, <1>11 DEF StatsInv, StatsType
<1>13. LinesDiffer'
  BY <1>2, <1>3, <1>5, <1>9 DEF StatsInv, LinesDiffer
<1> DEFINE Q == [P EXCEPT ![k] = @ \cup {m}]
<1>14. /\ Q \in [Keys -> SUBSET (1..begun)] /\ Q[k] = P[k] \cup {m}
       /\ \A j \in Keys : j # k => Q[j] = P[j]
  OBVIOUS
<1> HIDE DEF Q
<1>15. PICK R : R = Q
  OBVIOUS
<1>16. Cardinality(R[k]) = Cardinality(P[k]) + 1
  <2>1. begun \in Int /\ P[k] \in SUBSET (1..begun)
    BY DEF StatsInv, StatsType
  <2>2. IsFiniteSet(P[k])
    BY <2>1, FewLines DEF StatsInv, StatsType
  <2>3. QED
    BY <1>8, <1>14, <1>15, <2>2, FS_AddElement
<1>17. Stands(R)'
  <2>1. ASSUME NEW c \in Counters PROVE nLine'[c] = Cardinality(R[<<"line", c>>])
    <3>1. <<"line", c>> \in Keys
      BY DEF Keys
    <3>2. CASE k = <<"line", c>>
      <4>1. nLine'[c] = nLine[c] + 1
        BY <1>2, <1>10, <3>2
      <4>2. QED
        BY <1>16, <3>2, <4>1 DEF Stands
    <3>3. CASE k # <<"line", c>>
      <4>1. nLine'[c] = nLine[c]
        BY <1>2, <1>10, <3>3
      <4>2. QED
        BY <1>14, <1>15, <3>1, <3>3, <4>1 DEF Stands
    <3>4. QED
      BY <3>2, <3>3
  <2>2. ASSUME NEW c \in Counters PROVE taken'[c] + nFrames'[c] = Cardinality(R[<<"frames", c>>])
    <3>1. <<"frames", c>> \in Keys
      BY DEF Keys
    <3>2. CASE k = <<"frames", c>>
      <4>1. nFrames'[c] = nFrames[c] + 1 /\ taken'[c] = taken[c] /\ taken[c] \in Nat /\ nFrames[c] \in Nat
        BY <1>2, <1>3, <1>10, <3>2
      <4>2. taken[c] + nFrames[c] = Cardinality(P[k])
        BY <3>2 DEF Stands
      <4>3. QED
        BY <1>16, <3>2, <4>1, <4>2
    <3>3. CASE k # <<"frames", c>>
      <4>1. nFrames'[c] = nFrames[c] /\ taken'[c] = taken[c]
        BY <1>2, <1>3, <1>10, <3>3
      <4>2. QED
        BY <1>14, <1>15, <3>1, <3>3, <4>1 DEF Stands
    <3>4. QED
      BY <3>2, <3>3
  <2>3. \A c \in Counters : taken'[c] + nFrames'[c] = Cardinality(R[<<"frames", c>>])
    BY <2>2
  <2>4. QED
    BY <2>1, <2>3 DEF Stands
<1>18. Counted(T, R, B)'
  <2>1. ASSUME NEW j \in Keys, NEW n \in R[j] PROVE GoesTo(T, n, j[2]) /\ Done(n, j)'
    <3>1. CASE j = k /\ n = m
      BY <1>8, <3>1
    <3>2. CASE ~(j = k /\ n = m)
      <4>1. n \in P[j] /\ n \in 1..begun
        BY <1>14, <1>15, <3>2
      <4>2. QED
        BY <1>6, <4>1 DEF Counted
    <3>3. QED
      BY <3>1, <3>2
  <2>2. ASSUME NEW j \in Keys
        PROVE  R[j] \ torn = Whole(T, B, j)' \/ (Resetting /\ R[j] \ torn = {})
    <3>1. CASE j # k
      <4>1. Whole(T, B, j)' = Whole(T, B, j)
        BY <1>7, <3>1 DEF Whole
      <4>2. QED
        BY <1>14, <1>15, <3>1, <4>1 DEF Counted
    <3>2. CASE j = k /\ m \in torn
      <4>1. R[k] \ torn = P[k] \ torn
        BY <1>14, <1>15, <3>2
      <4>2. m \notin B
        BY <3>2 DEF Counted
      <4>3. Whole(T, B, k)' = Whole(T, B, k)
        BY <1>5, <4>2 DEF Whole
      <4>4. QED
        BY <3>2, <4>1, <4>3 DEF Counted
    <3>3. CASE j = k /\ m \notin torn
      <4>1. m \in B /\ ~Resetting
        BY <1>4, <1>9, <3>3
      <4>2. Whole(T, B, k)' = Whole(T, B, k) \cup {m}
        BY <1>5, <1>8, <4>1 DEF Whole
      <4>3. R[k] \ torn = (P[k] \ torn) \cup {m}
        BY <1>14, <1>15, <3>3
      <4>4. QED
        BY <3>3, <4>1, <4>2, <4>3 DEF Counted
    <3>4. QED
      BY <3>1, <3>2, <3>3
  <2>3. ASSUME NEW r \in Resetters, clearing[r] # <<>>, NEW j \in Keys
        PROVE  (\E i \in 1..Len(clearing[r]) : clearing[r][i] = j) \/ R[j] \ torn = {}
    <3>1. m \in torn
      BY <1>9, <2>3 DEF Resetting
    <3>2. R[j] \ torn = P[j] \ torn
      BY <1>14, <1>15, <3>1
    <3>3. QED
      BY <2>3, <3>2 DEF Counted
  <2>4. /\ \A v \in Busy' : T[line'[v].n] = line'[v].type /\ line'[v].n \in B \cup torn'
        /\ B \cap torn' = {} /\ (nResets' = 0 => B = 1..begun')
    BY <1>3, <1>5 DEF Counted
  <2>5. QED
    BY <1>3, <1>9, <2>1, <2>2, <2>3, <2>4 DEF Counted
<1>19. Reported(T)'
  <2>1. \A c \in Counters : nLine[c] \in Nat /\ nLine'[c] \in Nat /\ nLine[c] <= nLine'[c]
    BY <1>10, <1>11
  <2>2. QED
    BY <1>3, <1>9, <2>1, StaysReported DEF StatsInv, StatsType
<1>20. QED
  BY <1>3, <1>12, <1>13, <1>14, <1>15, <1>17, <1>18, <1>19 DEF StatsInv

\* An update counts nothing, and takes frames into account at most.
LEMMA UpdateKeeps ==
  ASSUME StatsInv, NEW w \in Writers, Update(w) \/ SwapFrames(w)
  PROVE  StatsInv'
<1> PICK T \in [1..begun -> TypeSet], P \in [Keys -> SUBSET (1..begun)], B \in SUBSET (1..begun) :
      Stands(P) /\ Counted(T, P, B) /\ Reported(T)
  BY DEF StatsInv
<1>1. w \in Busy /\ writer[w] \in {"totalUpdate", "update", "totalSwap", "swap"}
  BY DEF Update, SwapFrames, Busy
<1>2. PICK to \in Steps :
        /\ writer' = [writer EXCEPT ![w] = to] /\ ended' = IF to = "idle" THEN ended + 1 ELSE ended
        /\ \A k \in Keys : Past(to, k) <=> Past(writer[w], k)
  <2>1. After(w) = IF writer[w] \in {"totalUpdate", "totalSwap"} THEN "line" ELSE "idle"
    BY <1>1 DEF After
  <2>2. \E to \in {After(w), IF writer[w] = "update" THEN "swap" ELSE "totalSwap"} :
          /\ Goes(w, to)
          /\ writer[w] \in {"update", "swap"} => to \in {"idle", "swap"}
          /\ writer[w] \in {"totalUpdate", "totalSwap"} => to \in {"line", "totalSwap"}
    BY <1>1, <2>1 DEF Update, SwapFrames
  <2>3. PICK to : /\ Goes(w, to)
                  /\ writer[w] \in {"update", "swap"} => to \in {"idle", "swap"}
                  /\ writer[w] \in {"totalUpdate", "totalSwap"} => to \in {"line", "totalSwap"}
    BY <2>2
  <2>4. \A k \in Keys : Past(to, k) <=> Past(writer[w], k)
    BY <1>1, <2>3 DEF Past
  <2>5. to \in Steps
    BY <1>1, <2>3 DEF Steps
  <2>6. QED
    BY <2>3, <2>4, <2>5 DEF Goes
<1>3. UNCHANGED <<nLine, line, begun, torn, clearing, reading, report, atOpen, nResets, nReports>>
  BY DEF Update, SwapFrames, UnchangedOthers
<1>4. PICK m \in 1..begun : m = line[w].n
  BY <1>1 DEF StatsInv, LinesDiffer
<1>5. /\ Busy' = IF to = "idle" THEN Busy \ {w} ELSE Busy
      /\ \A n : \A k \in Keys : Done(n, k)' <=> Done(n, k)
  <2>1. StatsType /\ LinesDiffer
    BY DEF StatsInv
  <2>2. /\ Busy' = IF to = "idle" THEN Busy \ {w} ELSE Busy
        /\ \A n, k : n # line[w].n => (Done(n, k)' <=> Done(n, k))
        /\ \A k : Done(line[w].n, k) <=> Past(writer[w], k)
        /\ \A k \in Keys : Done(line[w].n, k)' <=> Past(to, k)
    BY <1>1, <1>2, <1>3, <2>1, WriterStep
  <2>3. \A k : (Done(m, k) <=> Done(line[w].n, k)) /\ (Done(m, k)' <=> Done(line[w].n, k)')
    BY <1>3, <1>4 DEF Done
  <2>4. ASSUME NEW n, NEW k \in Keys PROVE Done(n, k)' <=> Done(n, k)
    BY <1>2, <1>4, <2>2, <2>3
  <2>5. QED
    BY <2>2, <2>4
<1>6. /\ taken' \in [Counters -> Nat] /\ nFrames' \in [Counters -> Nat]
      /\ \A c \in Counters : taken'[c] + nFrames'[c] = taken[c] + nFrames[c]
  <2>1. taken \in [Counters -> Nat] /\ nFrames \in [Counters -> Nat]
    BY DEF StatsInv, StatsType
  <2>2. CASE Update(w)
    BY <2>1, <2>2 DEF Update
  <2>3. CASE SwapFrames(w)
    <3>1. At(w) \in Counters
      BY <1>1, <1>4 DEF At, Counters, StatsInv, LinesDiffer
    <3>2. taken' = [taken EXCEPT ![At(w)] = @ + nFrames[At(w)]] /\ nFrames' = [nFrames EXCEPT ![At(w)] = 0]
      BY <2>3 DEF SwapFrames
    <3>3. QED
      BY <2>1, <3>1, <3>2
  <2>4. QED
    BY <2>2, <2>3
<1>7. Resetting' <=> Resetting
  BY <1>3 DEF Resetting
<1>8. EndedLines' = (IF to = "idle" THEN EndedLines \cup {m} ELSE EndedLines) /\ m \notin EndedLines
  <2>1. \A v \in Busy : line[v].n = m <=> v = w
    BY <1>1, <1>4 DEF StatsInv, LinesDiffer
  <2>2. QED
    BY <1>1, <1>3, <1>4, <1>5, <2>1 DEF EndedLines
<1>9. ended' \in Nat /\ ended' = Cardinality(EndedLines')
  <2>1. begun \in Int /\ EndedLines \in SUBSET (1..begun) /\ ended = Cardinality(EndedLines) /\ ended \in Nat
    BY DEF StatsInv, StatsType, LinesDiffer, EndedLines
  <2>2. IsFiniteSet(EndedLines)
    BY <2>1, FewLines DEF StatsInv, StatsType
  <2>3. Cardinality(EndedLines \cup {m}) = Cardinality(EndedLines) + 1
    BY <1>8, <2>2, FS_AddElement
  <2>4. QED
    BY <1>2, <1>8, <2>1, <2>3
<1>10. StatsType'
  BY <1>2, <1>3, <1>6, <1>9 DEF StatsInv, StatsType
<1>11. LinesDiffer'
  BY <1>3, <1>5, <1>7, <1>9 DEF StatsInv, LinesDiffer
<1>12. Stands(P)'
  BY <1>3, <1>6 DEF Stands
<1>13. Counted(T, P, B)'
  <2>1. \A k \in Keys : Whole(T, B, k)' = Whole(T, B, k)
    BY <1>5 DEF Whole
  <2>2. \A v \in Busy' : T[line'[v].n] = line'[v].type /\ line'[v].n \in B \cup torn'
    BY <1>3, <1>5 DEF Counted
  <2>3. QED
    BY <1>3, <1>5, <1>7, <2>1, <2>2 DEF Counted
<1>14. Reported(T)'
  <2>1. \A c \in Counters : nLine[c] \in Nat /\ nLine'[c] \in Nat /\ nLine[c] <= nLine'[c]
    BY <1>3 DEF StatsInv, StatsType
  <2>2. QED
    BY <1>3, <1>8, <2>1, StaysReported DEF StatsInv, StatsType
<1>15. QED
  BY <1>3, <1>10, <1>11, <1>12, <1>13, <1>14 DEF StatsInv

\* Reset has every key in its order.
LEMMA ResetOrderAll ==
  /\ ResetOrder \in Seq(Keys) /\ ResetOrder # <<>>
  /\ \A k \in Keys : \E i \in 1..Len(ResetOrder) : ResetOrder[i] = k
<1> DEFINE n == Len(CountedTypes)
           tail == [i \in 1..2 * n |-> <<IF i % 2 = 1 THEN "line" ELSE "frames", CountedTypes[(i + 1) \div 2]>>]
           head == <<<<"line", Total>>, <<"frames", Total>>>>
<1>1. n \in Nat /\ DOMAIN CountedTypes = 1..n
  BY TypesAssumption
<1>2. \A i \in 1..2 * n : (i + 1) \div 2 \in 1..n
  BY <1>1
<1>3. \A i \in 1..2 * n : tail[i] \in Keys
  <2>1. \A j \in 1..n : CountedTypes[j] \in Counters
    BY <1>1 DEF Counters, TypeSet
  <2>2. ASSUME NEW i \in 1..2 * n PROVE CountedTypes[(i + 1) \div 2] \in Counters
    BY <1>2, <2>1
  <2>3. ASSUME NEW i \in 1..2 * n PROVE tail[i] \in Keys
    <3>1. tail[i] = <<"line", CountedTypes[(i + 1) \div 2]>> \/ tail[i] = <<"frames", CountedTypes[(i + 1) \div 2]>>
      OBVIOUS
    <3>2. QED
      BY <2>2, <3>1 DEF Keys
  <2>4. QED
    BY <2>3
<1>4. tail \in Seq(Keys) /\ Len(tail) = 2 * n
  BY <1>1, <1>3
<1>5. head \in Seq(Keys) /\ Len(head) = 2 /\ head[1] = <<"line", Total>> /\ head[2] = <<"frames", Total>>
  BY DEF Keys, Counters
<1>6. ASSUME NEW j \in 1..n
      PROVE  /\ 2 * j - 1 \in 1..2 * n /\ tail[2 * j - 1] = <<"line", CountedTypes[j]>>
             /\ 2 * j \in 1..2 * n /\ tail[2 * j] = <<"frames", CountedTypes[j]>>
  <2>1. /\ 2 * j - 1 \in 1..2 * n /\ 2 * j \in 1..2 * n
        /\ (2 * j - 1) % 2 = 1 /\ (2 * j) % 2 = 0 /\ (2 * j - 1 + 1) \div 2 = j /\ (2 * j + 1) \div 2 = j
    BY <1>1
  <2>2. QED
    BY <2>1
<1>7. ResetOrder = head \o tail
  BY DEF ResetOrder
<1> HIDE DEF head, tail, n
<1>8. /\ ResetOrder \in Seq(Keys) /\ Len(ResetOrder) = 2 + 2 * n
      /\ ResetOrder[1] = <<"line", Total>> /\ ResetOrder[2] = <<"frames", Total>>
      /\ \A i \in 1..2 * n : ResetOrder[i + 2] = tail[i]
  <2>1. ResetOrder \in Seq(Keys) /\ Len(ResetOrder) = Len(head) + Len(tail)
        /\ \A i \in 1..(Len(head) + Len(tail)) :
             ResetOrder[i] = IF i <= Len(head) THEN head[i] ELSE tail[i - Len(head)]
    BY <1>4, <1>5, <1>7, ConcatProperties
  <2>2. \A i \in 1..2 * n : /\ i + 2 \in 1..(Len(head) + Len(tail)) /\ ~(i + 2 <= Len(head))
                           /\ i + 2 - Len(head) = i
    BY <1>1, <1>4, <1>5
  <2>3. \A i \in 1..2 * n : ResetOrder[i + 2] = tail[i]
    BY <2>1, <2>2
  <2>4. ResetOrder[1] = head[1] /\ ResetOrder[2] = head[2]
    BY <1>1, <1>4, <1>5, <2>1
  <2>5. QED
    BY <1>4, <1>5, <2>1, <2>3, <2>4
<1>9. ASSUME NEW k \in Keys PROVE \E i \in 1..Len(ResetOrder) : ResetOrder[i] = k
  <2>1. CASE k[2] = Total
    <3>1. k = <<"line", Total>> \/ k = <<"frames", Total>>
      BY <2>1 DEF Keys
    <3>2. 1 \in 1..Len(ResetOrder) /\ 2 \in 1..Len(ResetOrder)
      BY <1>1, <1>8
    <3>3. QED
      BY <1>8, <3>1, <3>2
  <2>2. CASE k[2] # Total
    <3>1. PICK j \in 1..n : k[2] = CountedTypes[j]
      BY <1>1, <2>2 DEF Keys, Counters, TypeSet
    <3>2. k = <<"line", CountedTypes[j]>> \/ k = <<"frames", CountedTypes[j]>>
      BY <3>1 DEF Keys
    <3>3. PICK i \in 1..2 * n : tail[i] = k
      BY <1>6, <3>2
    <3>4. i + 2 \in 1..Len(ResetOrder)
      BY <1>1, <1>8
    <3>5. QED
      BY <1>8, <3>3, <3>4
  <2>3. QED
    BY <2>1, <2>2
<1>10. QED
  BY <1>1, <1>8, <1>9

\* A Reset that begins tears the lines that are being counted.
LEMMA StartResetKeeps ==
  ASSUME StatsInv, NEW r \in Resetters, StartReset(r)
  PROVE  StatsInv'
<1> PICK T \in [1..begun -> TypeSet], P \in [Keys -> SUBSET (1..begun)], B \in SUBSET (1..begun) :
      Stands(P) /\ Counted(T, P, B) /\ Reported(T)
  BY DEF StatsInv
<1>1. /\ clearing' = [clearing EXCEPT ![r] = ResetOrder]
      /\ torn' = torn \cup {line[w].n : w \in Busy} /\ nResets' = nResets + 1
      /\ UNCHANGED <<nLine, nFrames, taken, writer, line, begun, ended, reading, report, atOpen, nReports>>
  BY DEF StartReset
<1>2. nResets \in Nat /\ nResets' # 0 /\ clearing \in [Resetters -> Seq(Keys)] /\ torn \subseteq 1..begun
  BY <1>1 DEF StatsInv, StatsType
<1>3. clearing'[r] = ResetOrder /\ \A q \in Resetters : q # r => clearing'[q] = clearing[q]
  BY <1>1, <1>2
<1>4. Resetting'
  BY <1>3, ResetOrderAll DEF Resetting
<1>5. Busy' = Busy /\ torn' \subseteq 1..begun /\ torn \subseteq torn' /\ \A w \in Busy : line[w].n \in torn'
  BY <1>1, <1>2 DEF Busy, StatsInv, LinesDiffer
<1>6. StatsType'
  <2>1. clearing' \in [Resetters -> Seq(Keys)]
    BY <1>1, <1>2, ResetOrderAll
  <2>2. QED
    BY <1>1, <1>5, <2>1 DEF StatsInv, StatsType
<1>7. LinesDiffer'
  BY <1>1, <1>2, <1>4, <1>5 DEF StatsInv, LinesDiffer, EndedLines
<1> PICK C \in SUBSET (1..begun) : C = B \ torn'
  OBVIOUS
<1>8. Stands(P)'
  BY <1>1 DEF Stands
<1>9. \A n, k : Done(n, k)' <=> Done(n, k)
  BY <1>1, <1>5 DEF Done
<1>10. Counted(T, P, C)'
  <2>1. \A k \in Keys, n \in 1..begun' : n \in P[k] => GoesTo(T, n, k[2]) /\ Done(n, k)'
    BY <1>1, <1>9 DEF Counted
  <2>2. \A w \in Busy' : T[line'[w].n] = line'[w].type /\ line'[w].n \in C \cup torn'
    BY <1>1, <1>5 DEF Counted
  <2>3. ASSUME NEW k \in Keys
        PROVE  P[k] \ torn' = Whole(T, C, k)' \/ P[k] \ torn' = {}
    <3>1. Whole(T, C, k)' = Whole(T, B, k) \ torn'
      BY <1>9 DEF Whole
    <3>2. P[k] \ torn' = (P[k] \ torn) \ torn'
      BY <1>5
    <3>3. QED
      BY <3>1, <3>2 DEF Counted
  <2>4. ASSUME NEW q \in Resetters, clearing'[q] # <<>>, NEW k \in Keys
        PROVE  (\E i \in 1..Len(clearing'[q]) : clearing'[q][i] = k) \/ P[k] \ torn' = {}
    <3>1. CASE q = r
      BY <1>3, <3>1, ResetOrderAll
    <3>2. CASE q # r
      <4>1. (\E i \in 1..Len(clearing[q]) : clearing[q][i] = k) \/ P[k] \ torn = {}
        BY <1>3, <2>4, <3>2 DEF Counted
      <4>2. QED
        BY <1>3, <1>5, <3>2, <4>1
    <3>3. QED
      BY <3>1, <3>2
  <2>5. QED
    BY <1>2, <1>4, <2>1, <2>2, <2>3, <2>4 DEF Counted
<1>11. Reported(T)'
  BY <1>2 DEF Reported
<1>12. QED
  BY <1>1, <1>6, <1>7, <1>8, <1>10, <1>11 DEF StatsInv

\* Reset clears one key; with the last one every whole line is gone.
LEMMA ResetKeeps ==
  ASSUME StatsInv, NEW r \in Resetters, ResetCounter(r)
  PROVE  StatsInv'
<1> PICK T \in [1..begun -> TypeSet], P \in [Keys -> SUBSET (1..begun)], B \in SUBSET (1..begun) :
      Stands(P) /\ Counted(T, P, B) /\ Reported(T)
  BY DEF StatsInv
<1>1. clearing \in [Resetters -> Seq(Keys)] /\ clearing[r] # <<>> /\ Resetting /\ nResets # 0
  BY DEF StatsInv, StatsType, LinesDiffer, ResetCounter, Resetting
<1>2. PICK k \in Keys : k = Head(clearing[r])
  BY <1>1
<1>3. /\ clearing' = [clearing EXCEPT ![r] = Tail(@)]
      /\ IF k[1] = "line" THEN nLine' = [nLine EXCEPT ![k[2]] = 0] /\ UNCHANGED <<nFrames, taken>>
         ELSE nFrames' = [nFrames EXCEPT ![k[2]] = 0] /\ taken' = [taken EXCEPT ![k[2]] = 0] /\ UNCHANGED nLine
      /\ UNCHANGED <<writer, line, begun, ended, torn, reading, report, atOpen, nResets, nReports>>
  BY <1>2 DEF ResetCounter
<1>4. /\ clearing'[r] = Tail(clearing[r]) /\ \A q \in Resetters : q # r => clearing'[q] = clearing[q]
      /\ clearing' \in [Resetters -> Seq(Keys)]
  BY <1>1, <1>3
<1>5. \A i \in 1..Len(clearing[r]) : clearing[r][i] = k \/ \E j \in 1..Len(clearing'[r]) : clearing'[r][j] = clearing[r][i]
  <2>1. \A i \in 1..Len(clearing[r]) : i # 1 => i - 1 \in 1..Len(clearing'[r]) /\ clearing'[r][i - 1] = clearing[r][i]
    BY <1>1, <1>4
  <2>2. clearing[r][1] = k
    BY <1>1, <1>2
  <2>3. QED
    BY <2>1, <2>2
<1>6. Busy' = Busy /\ EndedLines' = EndedLines /\ \A w \in Busy : line[w].n \in torn
  BY <1>1, <1>3 DEF Busy, EndedLines, StatsInv, LinesDiffer
<1>7. k \in {"line", "frames"} \X Counters /\ nLine \in [Counters -> Nat] /\ nFrames \in [Counters -> Nat]
      /\ taken \in [Counters -> Nat]
  BY DEF Keys, StatsInv, StatsType
<1>8. nLine' \in [Counters -> Nat] /\ nFrames' \in [Counters -> Nat] /\ taken' \in [Counters -> Nat]
  <2> PICK c \in Counters : c = k[2]
    BY <1>7
  <2>1. nLine' = [nLine EXCEPT ![c] = 0] \/ nLine' = nLine
    BY <1>3
  <2>2. nFrames' = [nFrames EXCEPT ![c] = 0] \/ nFrames' = nFrames
    BY <1>3
  <2>3. taken' = [taken EXCEPT ![c] = 0] \/ taken' = taken
    BY <1>3
  <2>4. QED
    BY <1>7, <2>1, <2>2, <2>3
<1>9. StatsType'
  BY <1>3, <1>4, <1>8 DEF StatsInv, StatsType
<1>10. LinesDiffer'
  BY <1>1, <1>3, <1>6 DEF StatsInv, LinesDiffer
<1> DEFINE Q == [P EXCEPT ![k] = {}]
<1>11. /\ Q \in [Keys -> SUBSET (1..begun)] /\ Q[k] = {} /\ \A j \in Keys : j # k => Q[j] = P[j]
  OBVIOUS
<1> HIDE DEF Q
<1> PICK R : R = Q
  OBVIOUS
<1> PICK C \in SUBSET (1..begun) : C = IF Resetting' THEN B ELSE {}
  OBVIOUS
<1>12. Stands(R)'
  <2>1. Cardinality({}) = 0
    BY FS_EmptySet
  <2>2. ASSUME NEW c \in Counters PROVE nLine'[c] = Cardinality(R[<<"line", c>>])
    <3>1. <<"line", c>> \in Keys
      BY DEF Keys
    <3>2. CASE k = <<"line", c>>
      <4>1. nLine'[c] = 0
        BY <1>3, <1>7, <3>2
      <4>2. R[<<"line", c>>] = {}
        BY <1>11, <3>2
      <4>3. QED
        BY <2>1, <4>1, <4>2
    <3>3. CASE k # <<"line", c>>
      <4>1. nLine'[c] = nLine[c]
        BY <1>3, <1>7, <3>3
      <4>2. QED
        BY <1>11, <3>1, <3>3, <4>1 DEF Stands
    <3>4. QED
      BY <3>2, <3>3
  <2>3. ASSUME NEW c \in Counters PROVE taken'[c] + nFrames'[c] = Cardinality(R[<<"frames", c>>])
    <3>1. <<"frames", c>> \in Keys
      BY DEF Keys
    <3>2. CASE k = <<"frames", c>>
      <4>1. taken'[c] = 0 /\ nFrames'[c] = 0
        BY <1>3, <1>7, <3>2
      <4>2. QED
        <5>1. R[<<"frames", c>>] = {}
          BY <1>11, <3>2
        <5>2. taken'[c] + nFrames'[c] = 0
          BY <4>1
        <5>3. QED
          BY <2>1, <5>1, <5>2
    <3>3. CASE k # <<"frames", c>>
      <4>1. nFrames'[c] = nFrames[c] /\ taken'[c] = taken[c]
        BY <1>3, <1>7, <3>3
      <4>2. QED
        BY <1>11, <3>1, <3>3, <4>1 DEF Stands
    <3>4. QED
      BY <3>2, <3>3
  <2>4. \A c \in Counters : nLine'[c] = Cardinality(R[<<"line", c>>])
    BY <2>2
  <2>5. \A c \in Counters : taken'[c] + nFrames'[c] = Cardinality(R[<<"frames", c>>])
    BY <2>3
  <2>6. QED
    BY <2>4, <2>5 DEF Stands
<1>13. \A n, j : Done(n, j)' <=> Done(n, j)
  BY <1>3, <1>6 DEF Done
<1>14. \A j \in Keys : R[j] \subseteq P[j]
  BY <1>11
<1>15. ASSUME ~Resetting', NEW j \in Keys PROVE R[j] \ torn = {}
  <2>1. clearing'[r] = <<>>
    BY <1>15 DEF Resetting
  <2>2. j = k \/ P[j] \ torn = {}
    BY <1>1, <1>5, <2>1 DEF Counted
  <2>3. QED
    BY <1>11, <2>2
<1>16. Counted(T, R, C)'
  <2>1. \A j \in Keys, n \in 1..begun' : n \in R[j] => GoesTo(T, n, j[2]) /\ Done(n, j)'
    BY <1>3, <1>13, <1>14 DEF Counted
  <2>2. \A w \in Busy' : T[line'[w].n] = line'[w].type /\ line'[w].n \in C \cup torn'
    BY <1>3, <1>6 DEF Counted
  <2>3. ASSUME NEW j \in Keys
        PROVE  R[j] \ torn = Whole(T, C, j)' \/ (Resetting' /\ R[j] \ torn = {})
    <3>1. CASE ~Resetting'
      BY <1>15, <3>1 DEF Whole
    <3>2. CASE Resetting'
      <4>1. Whole(T, C, j)' = Whole(T, B, j)
        BY <1>13, <3>2 DEF Whole
      <4>2. R[j] = P[j] \/ R[j] = {}
        BY <1>11
      <4>3. QED
        BY <3>2, <4>1, <4>2 DEF Counted
    <3>3. QED
      BY <3>1, <3>2
  <2>4. ASSUME NEW q \in Resetters, clearing'[q] # <<>>, NEW j \in Keys
        PROVE  (\E i \in 1..Len(clearing'[q]) : clearing'[q][i] = j) \/ R[j] \ torn = {}
    <3>1. CASE q = r
      <4>1. (\E i \in 1..Len(clearing[r]) : clearing[r][i] = j) \/ P[j] \ torn = {}
        BY <1>1 DEF Counted
      <4>2. QED
        BY <1>5, <1>11, <1>14, <3>1, <4>1
    <3>2. CASE q # r
      <4>1. (\E i \in 1..Len(clearing[q]) : clearing[q][i] = j) \/ P[j] \ torn = {}
        BY <1>4, <2>4, <3>2 DEF Counted
      <4>2. QED
        BY <1>4, <1>14, <3>2, <4>1
    <3>3. QED
      BY <3>1, <3>2
  <2>5. C \cap torn' = {} /\ nResets' # 0
    BY <1>1, <1>3 DEF Counted
  <2>6. QED
    BY <1>3, <2>1, <2>2, <2>3, <2>4, <2>5 DEF Counted
<1>17. Reported(T)'
  BY <1>1, <1>3 DEF Reported
<1>18. QED
  BY <1>3, <1>9, <1>10, <1>11, <1>12, <1>16, <1>17 DEF StatsInv

\* A report opens with the lines that have been counted.
LEMMA StartReportKeeps ==
  ASSUME StatsInv, NEW g \in Readers, StartReport(g)
  PROVE  StatsInv'
<1> PICK T \in [1..begun -> TypeSet], P \in [Keys -> SUBSET (1..begun)], B \in SUBSET (1..begun) :
      Stands(P) /\ Counted(T, P, B) /\ Reported(T)
  BY DEF StatsInv
<1>1. /\ reading' = [reading EXCEPT ![g] = ReportOrder]
      /\ report' = [report EXCEPT ![g] = [c \in {} |-> 0]]
      /\ atOpen' = [atOpen EXCEPT ![g] = ended] /\ nReports' = nReports + 1
      /\ UNCHANGED <<nLine, nFrames, taken, writer, line, clearing, begun, ended, torn, nResets>>
  BY DEF StartReport
<1>2. ReportOrder \in Seq(Counters)
  <2>1. CountedTypes \in Seq(Counters)
    BY TypesAssumption DEF Counters, TypeSet
  <2>2. QED
    BY <2>1 DEF ReportOrder, Counters
<1>3. /\ report' = [h \in Readers |-> report'[h]] /\ DOMAIN report'[g] = {}
      /\ \A h \in Readers : h # g => report'[h] = report[h] /\ atOpen'[h] = atOpen[h]
      /\ atOpen'[g] = ended
  BY <1>1 DEF StatsInv, StatsType
<1>4. Busy' = Busy /\ (Resetting' <=> Resetting) /\ EndedLines' = EndedLines
  BY <1>1 DEF Busy, Resetting, EndedLines
<1>5. StatsType'
  BY <1>1, <1>2, <1>3 DEF StatsInv, StatsType
<1>6. LinesDiffer'
  BY <1>1, <1>4 DEF StatsInv, LinesDiffer
<1>7. Stands(P)'
  BY <1>1 DEF Stands
<1>8. Counted(T, P, B)'
  BY <1>1, <1>4 DEF Counted, Whole, Done
<1>9. Reported(T)'
  <2> SUFFICES ASSUME nResets = 0, NEW h \in Readers
      PROVE \E L \in SUBSET EndedLines :
              /\ atOpen'[h] = Cardinality(L)
              /\ \A c \in DOMAIN report'[h] :
                   /\ report'[h][c] \in Nat /\ report'[h][c] <= nLine[c]
                   /\ Cardinality({n \in L : GoesTo(T, n, c)}) <= report'[h][c]
    BY <1>1, <1>4 DEF Reported
  <2>1. CASE h = g
    BY <1>3, <2>1 DEF StatsInv, LinesDiffer
  <2>2. CASE h # g
    BY <1>3, <2>2 DEF Reported
  <2>3. QED
    BY <2>1, <2>2
<1>10. QED
  BY <1>1, <1>5, <1>6, <1>7, <1>8, <1>9 DEF StatsInv

\* A count that is read has the lines of the report that go there.
LEMMA GetStatsKeeps ==
  ASSUME StatsInv, NEW g \in Readers, GetStats(g)
  PROVE  StatsInv'
<1> PICK T \in [1..begun -> TypeSet], P \in [Keys -> SUBSET (1..begun)], B \in SUBSET (1..begun) :
      Stands(P) /\ Counted(T, P, B) /\ Reported(T)
  BY DEF StatsInv
<1>1. reading \in [Readers -> Seq(Counters)] /\ reading[g] # <<>>
  BY DEF StatsInv, StatsType, GetStats
<1> PICK c \in Counters : c = Head(reading[g])
  BY <1>1
<1>2. /\ report' = [report EXCEPT ![g] = [d \in DOMAIN report[g] \cup {c} |-> IF d = c THEN nLine[c] ELSE report[g][d]]]
      /\ reading' = [reading EXCEPT ![g] = Tail(@)]
      /\ UNCHANGED <<nLine, nFrames, taken, writer, line, clearing, begun, ended, torn, atOpen, nResets, nReports>>
  BY DEF GetStats, StatsInv, StatsType
<1>3. /\ report' = [h \in Readers |-> report'[h]] /\ DOMAIN report'[g] = DOMAIN report[g] \cup {c}
      /\ report'[g][c] = nLine[c] /\ \A d \in DOMAIN report[g] : d # c => report'[g][d] = report[g][d]
      /\ \A h \in Readers : h # g => report'[h] = report[h]
  BY <1>2 DEF StatsInv, StatsType
<1>4. Busy' = Busy /\ (Resetting' <=> Resetting) /\ EndedLines' = EndedLines
  BY <1>2 DEF Busy, Resetting, EndedLines
<1>5. StatsType'
  <2>1. reading' \in [Readers -> Seq(Counters)]
    BY <1>1, <1>2
  <2>2. QED
    BY <1>2, <1>3, <2>1 DEF StatsInv, StatsType
<1>6. LinesDiffer'
  BY <1>2, <1>4 DEF StatsInv, LinesDiffer
<1>7. Stands(P)'
  BY <1>2 DEF Stands
<1>8. Counted(T, P, B)'
  BY <1>2, <1>4 DEF Counted, Whole, Done
<1>9. Reported(T)'
  <2> SUFFICES ASSUME nResets = 0, NEW h \in Readers
      PROVE \E L \in SUBSET EndedLines :
              /\ atOpen[h] = Cardinality(L)
              /\ \A d \in DOMAIN report'[h] :
                   /\ report'[h][d] \in Nat /\ report'[h][d] <= nLine[d]
                   /\ Cardinality({n \in L : GoesTo(T, n, d)}) <= report'[h][d]
    BY <1>2, <1>4 DEF Reported
  <2>1. PICK L \in SUBSET EndedLines :
          /\ atOpen[h] = Cardinality(L)
          /\ \A d \in DOMAIN report[h] :
               /\ report[h][d] \in Nat /\ report[h][d] <= nLine[d]
               /\ Cardinality({n \in L : GoesTo(T, n, d)}) <= report[h][d]
    BY DEF Reported
  <2>2. CASE h # g
    BY <1>3, <2>1, <2>2
  <2>3. CASE h = g
    <3>1. nLine[c] \in Nat /\ begun \in Nat /\ ~Resetting /\ torn = {} /\ B = 1..begun
      BY DEF StatsInv, StatsType, LinesDiffer, Counted
    <3>2. PICK k \in Keys : k = <<"line", c>>
      BY DEF Keys
    <3>3. P[k] = Whole(T, B, k) /\ nLine[c] = Cardinality(P[k])
      BY <3>1, <3>2 DEF Counted, Stands
    <3>4. ASSUME NEW n \in L, GoesTo(T, n, c) PROVE n \in P[k]
      <4>1. n \in 1..begun /\ Done(n, k)
        BY DEF EndedLines, Done
      <4>2. QED
        BY <3>1, <3>2, <3>3, <3>4, <4>1 DEF Whole
    <3>5. Cardinality({n \in L : GoesTo(T, n, c)}) <= nLine[c]
      <4>1. P[k] \in SUBSET (1..begun)
        OBVIOUS
      <4>2. IsFiniteSet(P[k])
        BY <3>1, <4>1, FewLines
      <4>3. {n \in L : GoesTo(T, n, c)} \in SUBSET P[k]
        BY <3>4
      <4>4. QED
        BY <3>3, <4>2, <4>3, FS_Subset
    <3>6. ASSUME NEW d \in DOMAIN report'[g]
          PROVE  /\ report'[g][d] \in Nat /\ report'[g][d] <= nLine[d]
                 /\ Cardinality({n \in L : GoesTo(T, n, d)}) <= report'[g][d]
      <4>1. CASE d = c
        <5>1. nLine[c] <= nLine[c]
          BY <3>1
        <5>2. QED
          BY <1>3, <3>1, <3>5, <4>1, <5>1
      <4>2. CASE d # c
        BY <1>3, <2>1, <2>3, <4>2
      <4>3. QED
        BY <4>1, <4>2
    <3>7. QED
      BY <2>1, <2>3, <3>6
  <2>4. QED
    BY <2>2, <2>3
<1>10. QED
  BY <1>2, <1>5, <1>6, <1>7, <1>8, <1>9 DEF StatsInv

LEMMA StatsInvStep ==
  ASSUME StatsInv, StatsNext \/ UNCHANGED statsVars
  PROVE  StatsInv'
<1>1. CASE UNCHANGED statsVars
  <2>1. PICK T \in [1..begun -> TypeSet], P \in [Keys -> SUBSET (1..begun)], B \in SUBSET (1..begun) :
          Stands(P) /\ Counted(T, P, B) /\ Reported(T)
    BY DEF StatsInv
  <2> USE <1>1 DEF statsVars
  <2>2. Busy' = Busy /\ (Resetting' <=> Resetting) /\ EndedLines' = EndedLines
    BY DEF Busy, Resetting, EndedLines
  <2>3. StatsType' /\ LinesDiffer'
    BY <2>2 DEF StatsInv, StatsType, LinesDiffer
  <2>4. Stands(P)' /\ Counted(T, P, B)'
    BY <2>1, <2>2 DEF Stands, Counted, Whole, Done
  <2>5. Reported(T)'
    BY <2>1, <2>2 DEF Reported
  <2>6. QED
    BY <2>3, <2>4, <2>5 DEF StatsInv
<1>2. ASSUME NEW w \in Writers, Begin(w) PROVE StatsInv'
  BY <1>2, BeginKeeps
<1>3. ASSUME NEW w \in Writers, CountLine(w) \/ CountFrame(w) PROVE StatsInv'
  BY <1>3, CountKeeps
<1>4. ASSUME NEW w \in Writers, Update(w) \/ SwapFrames(w) PROVE StatsInv'
  BY <1>4, UpdateKeeps
<1>5. ASSUME NEW r \in Resetters, StartReset(r) PROVE StatsInv'
  BY <1>5, StartResetKeeps
<1>6. ASSUME NEW r \in Resetters, ResetCounter(r) PROVE StatsInv'
  BY <1>6, ResetKeeps
<1>7. ASSUME NEW g \in Readers, StartReport(g) PROVE StatsInv'
  BY <1>7, StartReportKeeps
<1>8. ASSUME NEW g \in Readers, GetStats(g) PROVE StatsInv'
  BY <1>8, GetStatsKeeps
<1>9. QED
  BY <1>1, <1>2, <1>3, <1>4, <1>5, <1>6, <1>7, <1>8 DEF StatsNext

-----------------------------------------------------------------------------
(* The theorem                                                             *)

\* The sum of counts is the number of lines that they stand for.
LEMMA SumOfCounts ==
  ASSUME StatsInv, NEW T \in [1..begun -> TypeSet], NEW P \in [Keys -> SUBSET (1..begun)],
         NEW B \in SUBSET (1..begun), Stands(P), Counted(T, P, B)
  PROVE  /\ IsFiniteSet(Blocks(nLine))
         /\ OfTypes(nLine) = Cardinality(UNION {P[<<"line", c>>] : c \in TypeSet})
<1> DEFINE M == [c \in TypeSet |-> P[<<"line", c>>]]
<1>1. \A c \in TypeSet : <<"line", c>> \in Keys /\ c \in Counters
  BY DEF Keys, Counters
<1>2. M \in [TypeSet -> SUBSET (1..begun)] /\ \A c \in TypeSet : M[c] = P[<<"line", c>>]
  BY <1>1
<1>3. \A c \in TypeSet : nLine[c] = Cardinality(M[c])
  BY <1>1, <1>2 DEF Stands
<1>4. \A c \in TypeSet, n \in 1..begun : n \in M[c] => T[n] = c
  BY <1>1, <1>2, TypesAssumption DEF Counted, GoesTo
<1> HIDE DEF M
<1>5. \A c, d \in TypeSet : c # d => M[c] \cap M[d] = {}
  BY <1>2, <1>4
<1>6. begun \in Nat
  BY DEF StatsInv, StatsType
<1>7. IsFiniteSet(Blocks(nLine)) /\ OfTypes(nLine) = Cardinality(UNION {M[c] : c \in TypeSet})
  BY <1>2, <1>3, <1>5, <1>6, SumOfParts
<1>8. UNION {M[c] : c \in TypeSet} = UNION {P[<<"line", c>>] : c \in TypeSet}
  BY <1>2
<1>9. QED
  BY <1>7, <1>8

\* Two sets that differ in few lines are nearly as large.
LEMMA NearlyAsLarge ==
  ASSUME NEW n \in Nat, NEW X \in SUBSET (1..n), NEW Y \in SUBSET (1..n), NEW Z \in SUBSET (1..n),
         X \ Z = Y \ Z
  PROVE  Gap(Cardinality(X), Cardinality(Y)) <= Cardinality(Z)
<1>1. \A S \in SUBSET (1..n) : IsFiniteSet(S) /\ Cardinality(S) \in Nat
  BY FewLines
<1>2. ASSUME NEW S \in SUBSET (1..n), NEW R \in SUBSET (1..n), S \subseteq R \cup Z
      PROVE  Cardinality(S) <= Cardinality(R) + Cardinality(Z)
  <2>1. IsFiniteSet(R \cup Z) /\ Cardinality(R \cup Z) = Cardinality(R) + Cardinality(Z) - Cardinality(R \cap Z)
    BY <1>1, FS_Union
  <2>2. Cardinality(S) <= Cardinality(R \cup Z)
    BY <1>2, <2>1, FS_Subset
  <2>3. R \cap Z \in SUBSET (1..n) /\ R \cup Z \in SUBSET (1..n)
    OBVIOUS
  <2>4. /\ Cardinality(R \cap Z) \in Nat /\ Cardinality(R \cup Z) \in Nat /\ Cardinality(S) \in Nat
        /\ Cardinality(R) \in Nat /\ Cardinality(Z) \in Nat
    BY <1>1, <2>3
  <2>5. QED
    BY <2>1, <2>2, <2>4
<1>3. X \subseteq Y \cup Z /\ Y \subseteq X \cup Z
  OBVIOUS
<1>4. Cardinality(X) <= Cardinality(Y) + Cardinality(Z) /\ Cardinality(Y) <= Cardinality(X) + Cardinality(Z)
  BY <1>2, <1>3
<1>5. Cardinality(X) \in Nat /\ Cardinality(Y) \in Nat /\ Cardinality(Z) \in Nat
  BY <1>1
<1>6. QED
  BY <1>4, <1>5 DEF Gap

LEMMA StatsInvAgrees == StatsInv => CountsAgree
<1> SUFFICES ASSUME StatsInv PROVE CountsAgree
  OBVIOUS
<1> PICK T \in [1..begun -> TypeSet], P \in [Keys -> SUBSET (1..begun)], B \in SUBSET (1..begun) :
      Stands(P) /\ Counted(T, P, B) /\ Reported(T)
  BY DEF StatsInv
<1> DEFINE X == P[<<"line", Total>>]
           Y == UNION {P[<<"line", c>>] : c \in TypeSet}
<1>1. begun \in Nat /\ torn \in SUBSET (1..begun)
  BY DEF StatsInv, StatsType
<1>2. \A c \in Counters : <<"line", c>> \in Keys /\ <<"frames", c>> \in Keys
  BY DEF Keys
<1>3. Total \in Counters /\ TypeSet \subseteq Counters
  BY DEF Counters
<1>4. X \in SUBSET (1..begun)
  BY <1>2, <1>3
<1>5. Y \in SUBSET (1..begun)
  <2>1. ASSUME NEW n \in Y PROVE n \in 1..begun
    <3>1. PICK c \in TypeSet : n \in P[<<"line", c>>]
      OBVIOUS
    <3>2. P[<<"line", c>>] \in SUBSET (1..begun)
      BY <1>2, <1>3
    <3>3. QED
      BY <3>1, <3>2
  <2>2. QED
    BY <2>1
<1>6. nLine[Total] = Cardinality(X)
  BY <1>3 DEF Stands
<1>7. IsFiniteSet(Blocks(nLine)) /\ OfTypes(nLine) = Cardinality(Y)
  BY SumOfCounts
<1>8. ASSUME Busy = {}, ~Resetting, NEW k \in Keys
      PROVE  P[k] \ torn = {n \in B : GoesTo(T, n, k[2])}
  BY <1>8 DEF Counted, Whole, Done
<1>9. ASSUME Quiet PROVE Gap(nLine[Total], OfTypes(nLine)) <= Cardinality(torn)
  <2>1. \A k \in Keys : P[k] \ torn = {n \in B : GoesTo(T, n, k[2])}
    BY <1>8, <1>9 DEF Quiet
  <2>2. X \ torn = B
    BY <1>2, <1>3, <2>1 DEF GoesTo
  <2>3. ASSUME NEW n \in Y \ torn PROVE n \in B
    <3>1. PICK c \in TypeSet : n \in P[<<"line", c>>] \ torn
      OBVIOUS
    <3>2. QED
      BY <1>2, <1>3, <2>1, <3>1
  <2>4. ASSUME NEW n \in B PROVE n \in Y \ torn
    <3>1. PICK c \in TypeSet : T[n] = c
      OBVIOUS
    <3>2. P[<<"line", c>>] \ torn = {m \in B : GoesTo(T, m, c)}
      BY <1>2, <1>3, <2>1
    <3>3. n \in P[<<"line", c>>] \ torn
      BY <3>1, <3>2 DEF GoesTo
    <3>4. n \in Y
      BY <3>3
    <3>5. QED
      BY <3>3, <3>4
  <2> HIDE DEF X, Y
  <2>5. X \ torn = Y \ torn
    BY <2>2, <2>3, <2>4
  <2>6. QED
    BY <1>1, <1>4, <1>5, <1>6, <1>7, <2>5, NearlyAsLarge
<1>10. ASSUME NEW g \in Readers, DOMAIN report[g] = Counters, nResets = 0
       PROVE  /\ atOpen[g] <= report[g][Total] /\ report[g][Total] <= begun
              /\ atOpen[g] <= OfTypes(report[g]) /\ OfTypes(report[g]) <= begun
  <2>1. PICK L \in SUBSET EndedLines :
          /\ atOpen[g] = Cardinality(L)
          /\ \A c \in DOMAIN report[g] :
               /\ report[g][c] \in Nat /\ report[g][c] <= nLine[c]
               /\ Cardinality({n \in L : GoesTo(T, n, c)}) <= report[g][c]
    BY <1>10 DEF Reported
  <2>2. L \in SUBSET (1..begun)
    BY DEF EndedLines
  <2>3. Cardinality(X) \in Nat /\ Cardinality(X) <= begun /\ Cardinality(Y) \in Nat /\ Cardinality(Y) <= begun
    BY <1>1, <1>4, <1>5, FewLines
  <2>4. /\ report[g][Total] \in Nat /\ report[g][Total] <= nLine[Total]
        /\ Cardinality({n \in L : GoesTo(T, n, Total)}) <= report[g][Total]
    BY <1>3, <1>10, <2>1
  <2>5. {n \in L : GoesTo(T, n, Total)} = L
    BY DEF GoesTo
  <2>6. \A c \in TypeSet : report[g][c] \in Nat /\ nLine[c] \in Nat /\ report[g][c] <= nLine[c]
    BY <1>3, <1>10, <2>1 DEF StatsInv, StatsType
  <2>7. IsFiniteSet(Blocks(report[g])) /\ OfTypes(report[g]) <= OfTypes(nLine)
    BY <1>7, <2>6, SumGrows
  <2> DEFINE M   == [c \in TypeSet |-> {n \in L : T[n] = c}]
             low == [c \in TypeSet |-> Cardinality(M[c])]
  <2>8. /\ M \in [TypeSet -> SUBSET (1..begun)]
        /\ \A c, d \in TypeSet : c # d => M[c] \cap M[d] = {}
    BY <2>2
  <2>9. UNION {M[c] : c \in TypeSet} = L
    <3>1. ASSUME NEW n \in L PROVE n \in UNION {M[c] : c \in TypeSet}
      <4>1. n \in 1..begun /\ T[n] \in TypeSet
        BY <2>2
      <4>2. n \in M[T[n]]
        BY <4>1
      <4>3. QED
        BY <4>1, <4>2
    <3>2. QED
      BY <3>1
  <2>10. \A c \in TypeSet : M[c] = {n \in L : GoesTo(T, n, c)} /\ low[c] = Cardinality(M[c])
    BY TypesAssumption DEF GoesTo
  <2> HIDE DEF M, low
  <2>11. OfTypes(low) = Cardinality(L)
    BY <1>1, <2>8, <2>9, <2>10, SumOfParts
  <2>12. \A c \in TypeSet : low[c] \in Nat /\ low[c] <= report[g][c] /\ report[g][c] \in Nat
    <3>1. ASSUME NEW c \in TypeSet PROVE low[c] \in Nat /\ low[c] <= report[g][c] /\ report[g][c] \in Nat
      <4>1. M[c] \in SUBSET (1..begun)
        BY <2>8
      <4>2. Cardinality(M[c]) \in Nat
        BY <1>1, <4>1, FewLines
      <4>3. QED
        BY <1>3, <1>10, <2>1, <2>10, <4>2
    <3>2. QED
      BY <3>1
  <2>13. OfTypes(low) <= OfTypes(report[g])
    BY <2>7, <2>12, SumGrows
  <2>14. Cardinality(L) \in Nat
    BY <1>1, <2>2, FewLines
  <2>15. OfTypes(report[g]) \in Nat
    BY <2>7, FS_CardinalityType DEF OfTypes, Blocks
  <2>16. atOpen[g] <= report[g][Total] /\ report[g][Total] <= begun
    <3>1. atOpen[g] <= report[g][Total]
      BY <2>1, <2>4, <2>5
    <3>2. report[g][Total] <= begun
      BY <1>1, <1>6, <2>3, <2>4
    <3>3. QED
      BY <3>1, <3>2
  <2>17. OfTypes(report[g]) <= begun
    BY <1>1, <1>7, <2>3, <2>7, <2>15
  <2>18. atOpen[g] <= OfTypes(report[g])
    BY <2>1, <2>11, <2>13
  <2>19. QED
    BY <2>16, <2>17, <2>18
<1>11. ASSUME Quiet, torn = {}, NEW c \in Counters PROVE taken[c] + nFrames[c] = nLine[c]
  <2>1. \A k \in Keys : P[k] = {n \in B : GoesTo(T, n, k[2])}
    BY <1>8, <1>11 DEF Quiet
  <2>2. P[<<"line", c>>] = P[<<"frames", c>>]
    BY <1>2, <2>1
  <2>3. QED
    BY <2>2 DEF Stands
<1>12. QED
  BY <1>9, <1>10, <1>11 DEF CountsAgree

\* However writers, Resets and reports interleave, for any number of each: when
\* nobody counts or clears, the total and the counts of the types differ by no
\* more than the lines that a Reset ran into; a report without a Reset has every
\* line counted before it; and no frame is lost.
THEOREM CountsAgreeHolds == StatsSpec => []CountsAgree
<1>1. StatsInv /\ [StatsNext]_statsVars => StatsInv'
  BY StatsInvStep
<1>2. QED
  BY <1>1, StatsInvInit, StatsInvAgrees, PTL DEF StatsSpec
=============================================================================
