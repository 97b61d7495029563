--------------------------- MODULE LogLineProofs ---------------------------
(* Theorems about LogLine, for all callers, appenders, mountings, layouts   *)
(* with filters, capacities, objects and numbers of calls: every message    *)
(* object has one owner, and every line shows the values of its own call.   *)
EXTENDS LogLine, FiniteSetTheorems, SequenceTheorems, WellFoundedInduction, TLAPS

-----------------------------------------------------------------------------
(* The owners of objects.                                                  *)

\* A set of numbers has a least element, since the numbers are well-founded.
LEMMA Least ==
  ASSUME NEW T \in SUBSET Nat, T # {}
  PROVE  \E m \in T : \A k \in T : m <= k
<1>1. PICK m \in T : \A k \in T : ~(<<k, m>> \in OpToRel(<, Nat))
  BY WFMin, NatLessThanWellFounded, Zenon
<1>2. \A k \in T : ~(k < m)
  BY <1>1, Zenon DEF OpToRel
<1>3. QED
  BY <1>2

\* sync.Pool hands out what is in the pool, or what is new.
LEMMA GetGives ==
  ASSUME fresh \subseteq Objects, NEW pool, NEW o \in Get(pool)
  PROVE  o \in pool \/ o \in fresh
<1>1. CASE fresh = {}
  BY <1>1 DEF Get
<1>2. CASE fresh # {}
  <2>1. \E p \in fresh : \A q \in fresh : p <= q
    BY <1>2, Least, ObjectsAssumption
  <2>2. (CHOOSE p \in fresh : \A q \in fresh : p <= q) \in fresh
    BY <2>1
  <2>3. QED
    BY <1>2, <2>2 DEF Get
<1>3. QED
  BY <1>1, <1>2

Places == ({"pool"} \X {"fresh", "base", "escape"}) \cup ({"caller"} \X LogCallers)
            \cup ({"queue", "hand"} \X QueueTypes)

LineType ==
  /\ fresh \subseteq Objects /\ basePool \subseteq Objects /\ escapePool \subseteq Objects
  /\ object \in [LogCallers -> Objects \cup {NoObject}]
  /\ queue \in [QueueTypes -> Seq(Objects)]
  /\ hand \in [QueueTypes -> Objects \cup {NoObject}]
  /\ step \in [LogCallers -> {"idle", "route", "write"}]
  /\ \A c \in LogCallers : object[c] = NoObject <=> step[c] = "idle"
  /\ \A a \in QueueTypes : IsInjective(queue[a])

\* An object is at one place, and at no other.
PlacedAt(o, p) ==
  /\ o \in fresh <=> p = <<"pool", "fresh">>
  /\ o \in basePool <=> p = <<"pool", "base">>
  /\ o \in escapePool <=> p = <<"pool", "escape">>
  /\ \A c \in LogCallers : object[c] = o <=> p = <<"caller", c>>
  /\ \A a \in QueueTypes : o \in Range(queue[a]) <=> p = <<"queue", a>>
  /\ \A a \in QueueTypes : hand[a] = o <=> p = <<"hand", a>>

Owned == \A o \in Objects : \E p \in Places : PlacedAt(o, p)

OwnInv == LineType /\ Owned

LEMMA OwnInit == LineInit => OwnInv
<1> SUFFICES ASSUME LineInit PROVE OwnInv
  OBVIOUS
<1> USE DEF LineInit
<1>1. LineType
  BY DEF LineType, IsInjective
<1>2. ASSUME NEW o \in Objects PROVE PlacedAt(o, <<"pool", "fresh">>)
  BY ObjectsAssumption DEF PlacedAt, Range
<1>3. QED
  BY <1>1, <1>2 DEF OwnInv, Owned, Places

\* If one object moves and the others stay, each still has its one place.
StaysThere(x) ==
  /\ x \in fresh' <=> x \in fresh
  /\ x \in basePool' <=> x \in basePool
  /\ x \in escapePool' <=> x \in escapePool
  /\ \A c \in LogCallers : object'[c] = x <=> object[c] = x
  /\ \A a \in QueueTypes : x \in Range(queue'[a]) <=> x \in Range(queue[a])
  /\ \A a \in QueueTypes : hand'[a] = x <=> hand[a] = x

LEMMA Moved ==
  ASSUME OwnInv, NEW o \in Objects, NEW place \in Places, PlacedAt(o, place)',
         \A x \in Objects \ {o} : StaysThere(x)
  PROVE  Owned'
<1>1. ASSUME NEW x \in Objects \ {o}, NEW p \in Places, PlacedAt(x, p) PROVE PlacedAt(x, p)'
  <2>1. StaysThere(x)
    OBVIOUS
  <2>2. QED
    BY <1>1, <2>1 DEF PlacedAt, StaysThere
<1>2. QED
  BY <1>1 DEF Owned, OwnInv

\* A sequence gains an element at its end, and loses the one at its front.
LEMMA Appended ==
  ASSUME NEW s \in Seq(Objects), NEW o \in Objects
  PROVE  /\ Append(s, o) \in Seq(Objects)
         /\ Range(Append(s, o)) = Range(s) \cup {o}
         /\ IsInjective(s) /\ o \notin Range(s) => IsInjective(Append(s, o))
<1> DEFINE t == Append(s, o)
<1>1. /\ t \in Seq(Objects) /\ Len(t) = Len(s) + 1 /\ t[Len(s) + 1] = o
      /\ \A i \in 1..Len(s) : t[i] = s[i]
      /\ Len(s) \in Nat /\ DOMAIN s = 1..Len(s) /\ DOMAIN t = 1..Len(t)
  OBVIOUS
<1> HIDE DEF t
<1>2. ASSUME IsInjective(s), o \notin Range(s) PROVE IsInjective(t)
  <2>1. \A i \in 1..Len(s) : t[i] # o
    BY <1>1, <1>2 DEF Range
  <2>2. \A i \in DOMAIN t : i = Len(s) + 1 \/ i \in DOMAIN s
    BY <1>1
  <2>3. QED
    BY <1>1, <1>2, <2>1, <2>2 DEF IsInjective
<1>3. Range(t) = Range(s) \cup {o}
  <2>1. \A i \in DOMAIN t : i = Len(s) + 1 \/ i \in DOMAIN s
    BY <1>1
  <2>2. Len(s) + 1 \in DOMAIN t /\ DOMAIN s \subseteq DOMAIN t
    BY <1>1
  <2>3. QED
    BY <1>1, <2>1, <2>2 DEF Range
<1>4. QED
  BY <1>1, <1>2, <1>3 DEF t

LEMMA Headed ==
  ASSUME NEW s \in Seq(Objects), s # <<>>
  PROVE  /\ Tail(s) \in Seq(Objects) /\ Head(s) \in Objects
         /\ Head(s) \in Range(s)
         /\ IsInjective(s) => IsInjective(Tail(s)) /\ Range(Tail(s)) = Range(s) \ {Head(s)}
<1>1. /\ Tail(s) \in Seq(Objects) /\ Head(s) \in Objects /\ Head(s) = s[1]
      /\ Len(Tail(s)) = Len(s) - 1 /\ \A i \in 1..Len(Tail(s)) : Tail(s)[i] = s[i + 1]
      /\ Len(s) \in Nat /\ Len(s) > 0 /\ DOMAIN s = 1..Len(s) /\ DOMAIN Tail(s) = 1..Len(Tail(s))
  OBVIOUS
<1>2. ASSUME IsInjective(s) PROVE IsInjective(Tail(s))
  BY <1>1, <1>2 DEF IsInjective
<1>3. ASSUME IsInjective(s) PROVE Range(Tail(s)) = Range(s) \ {Head(s)}
  <2>1. ASSUME NEW i \in DOMAIN s, i # 1 PROVE s[i] \in Range(Tail(s)) /\ s[i] # Head(s)
    <3>1. i - 1 \in DOMAIN Tail(s) /\ Tail(s)[i - 1] = s[i]
      BY <1>1, <2>1
    <3>2. QED
      BY <1>1, <1>3, <2>1, <3>1 DEF Range, IsInjective
  <2>2. ASSUME NEW j \in DOMAIN Tail(s) PROVE Tail(s)[j] \in Range(s) /\ Tail(s)[j] # Head(s)
    <3>1. j + 1 \in DOMAIN s /\ j + 1 # 1 /\ Tail(s)[j] = s[j + 1]
      BY <1>1, <2>2
    <3>2. QED
      BY <1>1, <1>3, <3>1 DEF Range, IsInjective
  <2>3. QED
    BY <1>1, <2>1, <2>2 DEF Range
<1>4. Head(s) \in Range(s)
  BY <1>1 DEF Range
<1>5. QED
  BY <1>1, <1>2, <1>3, <1>4

\* A call takes an object out of a pool.
LEMMA CallOwns ==
  ASSUME OwnInv, NEW c \in LogCallers, NEW k, Call(c, k)
  PROVE  OwnInv'
<1>1. PICK o \in Get(Pool(k)) :
        /\ object' = [object EXCEPT ![c] = o] /\ fresh' = fresh \ {o}
        /\ IF k.kind = "escape" THEN escapePool' = escapePool \ {o} /\ UNCHANGED basePool
                                ELSE basePool' = basePool \ {o} /\ UNCHANGED escapePool
  BY DEF Call
<1>2. o \in Objects /\ (o \in fresh \/ (IF k.kind = "escape" THEN o \in escapePool ELSE o \in basePool))
  BY <1>1, GetGives DEF Pool, OwnInv, LineType
<1>3. step[c] = "idle" /\ step' = [step EXCEPT ![c] = "route"] /\ UNCHANGED <<queue, hand>>
  BY DEF Call
<1>4. LineType'
  BY <1>1, <1>2, <1>3, ObjectsAssumption DEF OwnInv, LineType
<1>5. PICK p \in Places : PlacedAt(o, p)
  BY <1>2 DEF OwnInv, Owned
<1>6. p \in {<<"pool", "fresh">>, <<"pool", "base">>, <<"pool", "escape">>}
  BY <1>2, <1>5 DEF PlacedAt
<1>7. object[c] = NoObject /\ object \in [LogCallers -> Objects \cup {NoObject}]
  BY <1>3 DEF OwnInv, LineType
<1>8. \A d \in LogCallers : object'[d] = IF d = c THEN o ELSE object[d]
  BY <1>1, <1>7
<1>9. PlacedAt(o, <<"caller", c>>)'
  <2>1. o \notin fresh' /\ o \notin basePool' /\ o \notin escapePool'
    BY <1>1, <1>2, <1>5 DEF PlacedAt
  <2>2. \A d \in LogCallers : object'[d] = o <=> d = c
    BY <1>5, <1>6, <1>8 DEF PlacedAt
  <2>3. \A a \in QueueTypes : o \notin Range(queue'[a]) /\ hand'[a] # o
    BY <1>3, <1>5, <1>6 DEF PlacedAt
  <2>4. QED
    BY <2>1, <2>2, <2>3 DEF PlacedAt
<1>10. \A x \in Objects \ {o} : StaysThere(x)
  <2>1. ASSUME NEW x \in Objects \ {o}, NEW d \in LogCallers PROVE object'[d] = x <=> object[d] = x
    BY <1>7, <1>8, ObjectsAssumption
  <2>2. QED
    BY <1>1, <1>3, <2>1 DEF StaysThere
<1>11. <<"caller", c>> \in Places
  BY DEF Places
<1>12. QED
  BY <1>2, <1>4, <1>9, <1>10, <1>11, Moved DEF OwnInv

\* Route and the rendering of a file's line leave the objects where they are.
LEMMA StayOwns ==
  ASSUME OwnInv, UNCHANGED <<fresh, basePool, escapePool, object, queue, hand>>,
         step' \in [LogCallers -> {"idle", "route", "write"}],
         \A c \in LogCallers : step'[c] = "idle" <=> step[c] = "idle"
  PROVE  OwnInv'
BY DEF OwnInv, LineType, Owned, PlacedAt

\* A clone comes out of the pool into a queue, or goes back.
LEMMA QueueOwns ==
  ASSUME OwnInv, NEW c \in LogCallers, WriteQueue(c)
  PROVE  OwnInv'
<1> PICK a \in QueueTypes : a = Head(todo[c])
  BY DEF WriteQueue
<1>1. PICK o \in Objects :
        /\ o \in Get(basePool) /\ fresh' = fresh \ {o}
        /\ \/ queue' = [queue EXCEPT ![a] = Append(@, o)] /\ basePool' = basePool \ {o}
           \/ basePool' = basePool \cup {o} /\ UNCHANGED queue
  BY DEF WriteQueue, Clone
<1>2. o \in fresh \/ o \in basePool
  BY <1>1, GetGives DEF OwnInv, LineType
<1>3. UNCHANGED <<escapePool, step, object, hand>>
  BY DEF WriteQueue
<1>4. PICK p \in Places : PlacedAt(o, p)
  BY DEF OwnInv, Owned
<1>5. p \in {<<"pool", "fresh">>, <<"pool", "base">>}
  BY <1>2, <1>4 DEF PlacedAt
<1>6. /\ o \notin escapePool /\ \A d \in LogCallers : object[d] # o
      /\ \A b \in QueueTypes : o \notin Range(queue[b]) /\ hand[b] # o
  BY <1>4, <1>5 DEF PlacedAt
<1>7. CASE queue' = [queue EXCEPT ![a] = Append(@, o)] /\ basePool' = basePool \ {o}
  <2>1. queue \in [QueueTypes -> Seq(Objects)] /\ IsInjective(queue[a])
    BY DEF OwnInv, LineType
  <2>2. /\ queue'[a] \in Seq(Objects) /\ IsInjective(queue'[a])
        /\ Range(queue'[a]) = Range(queue[a]) \cup {o}
        /\ \A b \in QueueTypes \ {a} : queue'[b] = queue[b]
    BY <1>6, <1>7, <2>1, Appended
  <2>3. queue' \in [QueueTypes -> Seq(Objects)]
    BY <1>7, <2>1, Appended
  <2>4. LineType'
    BY <1>1, <1>3, <1>7, <2>2, <2>3 DEF OwnInv, LineType
  <2>5. PlacedAt(o, <<"queue", a>>)'
    <3>1. o \notin fresh' /\ o \notin basePool' /\ o \notin escapePool'
      BY <1>1, <1>3, <1>6, <1>7
    <3>2. \A d \in LogCallers : object'[d] # o
      BY <1>3, <1>6
    <3>3. \A b \in QueueTypes : (o \in Range(queue'[b]) <=> b = a) /\ hand'[b] # o
      BY <1>3, <1>6, <2>2
    <3>4. QED
      BY <3>1, <3>2, <3>3 DEF PlacedAt
  <2>6. \A x \in Objects \ {o}, b \in QueueTypes : x \in Range(queue'[b]) <=> x \in Range(queue[b])
    BY <2>2
  <2>7. \A x \in Objects \ {o} : StaysThere(x)
    BY <1>1, <1>3, <1>7, <2>6 DEF StaysThere
  <2>8. <<"queue", a>> \in Places
    BY DEF Places
  <2>9. QED
    BY <2>4, <2>5, <2>7, <2>8, Moved DEF OwnInv
<1>8. CASE basePool' = basePool \cup {o} /\ UNCHANGED queue
  <2>1. LineType'
    BY <1>1, <1>3, <1>8 DEF OwnInv, LineType
  <2>2. PlacedAt(o, <<"pool", "base">>)'
    BY <1>1, <1>3, <1>6, <1>8 DEF PlacedAt
  <2>3. \A x \in Objects \ {o} : StaysThere(x)
    BY <1>1, <1>3, <1>8 DEF StaysThere
  <2>4. <<"pool", "base">> \in Places
    BY DEF Places
  <2>5. QED
    BY <2>1, <2>2, <2>3, <2>4, Moved DEF OwnInv
<1>9. QED
  BY <1>1, <1>7, <1>8

\* A released object goes into the pool that the method chooses.
LEMMA ReleaseOwns ==
  ASSUME OwnInv, NEW c \in LogCallers, Release(c)
  PROVE  OwnInv'
<1>1. /\ step[c] = "write" /\ step' = [step EXCEPT ![c] = "idle"]
      /\ object' = [object EXCEPT ![c] = NoObject] /\ UNCHANGED <<fresh, queue, hand>>
  BY DEF Release
<1>2. object \in [LogCallers -> Objects \cup {NoObject}] /\ object[c] # NoObject
  BY <1>1 DEF OwnInv, LineType
<1> PICK o \in Objects : o = object[c]
  BY <1>2
<1>3. PICK pool \in {"base", "escape"} :
        /\ basePool' = IF pool = "base" THEN basePool \cup {o} ELSE basePool
        /\ escapePool' = IF pool = "escape" THEN escapePool \cup {o} ELSE escapePool
  <2>1. CASE Kind(c).kind = "escape"
    BY <2>1 DEF Release
  <2>2. CASE Kind(c).kind # "escape"
    BY <2>2 DEF Release
  <2>3. QED
    BY <2>1, <2>2
<1>4. PICK p \in Places : PlacedAt(o, p)
  BY DEF OwnInv, Owned
<1>5. p = <<"caller", c>>
  BY <1>4 DEF PlacedAt
<1>6. /\ o \notin fresh /\ o \notin basePool /\ o \notin escapePool
      /\ \A d \in LogCallers \ {c} : object[d] # o
      /\ \A a \in QueueTypes : o \notin Range(queue[a]) /\ hand[a] # o
  BY <1>4, <1>5 DEF PlacedAt
<1>7. \A d \in LogCallers : object'[d] = IF d = c THEN NoObject ELSE object[d]
  BY <1>1, <1>2
<1>8. LineType'
  BY <1>1, <1>2, <1>3, <1>7 DEF OwnInv, LineType
<1>9. PlacedAt(o, <<"pool", pool>>)'
  BY <1>1, <1>3, <1>6, <1>7, ObjectsAssumption DEF PlacedAt
<1>10. \A x \in Objects \ {o} : StaysThere(x)
  <2>1. ASSUME NEW x \in Objects \ {o}, NEW d \in LogCallers PROVE object'[d] = x <=> object[d] = x
    BY <1>7, ObjectsAssumption
  <2>2. QED
    BY <1>1, <1>3, <2>1 DEF StaysThere
<1>11. <<"pool", pool>> \in Places
  BY DEF Places
<1>12. QED
  BY <1>8, <1>9, <1>10, <1>11, Moved DEF OwnInv

\* The consumer takes the first object of its queue ...
LEMMA TakeOwns ==
  ASSUME OwnInv, NEW a \in QueueTypes, Take(a)
  PROVE  OwnInv'
<1>1. /\ queue \in [QueueTypes -> Seq(Objects)] /\ IsInjective(queue[a]) /\ queue[a] # <<>>
      /\ hand \in [QueueTypes -> Objects \cup {NoObject}] /\ hand[a] = NoObject
  BY DEF OwnInv, LineType, Take
<1> PICK o \in Objects : o = Head(queue[a])
  BY <1>1, Headed
<1>2. /\ hand' = [hand EXCEPT ![a] = o] /\ queue' = [queue EXCEPT ![a] = Tail(@)]
      /\ UNCHANGED <<fresh, basePool, escapePool, step, object>>
  BY DEF Take
<1>3. /\ o \in Range(queue[a]) /\ Range(queue'[a]) = Range(queue[a]) \ {o}
      /\ queue'[a] \in Seq(Objects) /\ IsInjective(queue'[a])
      /\ \A b \in QueueTypes \ {a} : queue'[b] = queue[b]
  BY <1>1, <1>2, Headed
<1>4. queue' \in [QueueTypes -> Seq(Objects)]
  BY <1>1, <1>2, Headed
<1>5. PICK p \in Places : PlacedAt(o, p)
  BY DEF OwnInv, Owned
<1>6. p = <<"queue", a>>
  BY <1>3, <1>5 DEF PlacedAt
<1>7. /\ o \notin fresh /\ o \notin basePool /\ o \notin escapePool
      /\ \A d \in LogCallers : object[d] # o
      /\ \A b \in QueueTypes : (b # a => o \notin Range(queue[b])) /\ hand[b] # o
  BY <1>5, <1>6 DEF PlacedAt
<1>8. \A b \in QueueTypes : hand'[b] = IF b = a THEN o ELSE hand[b]
  BY <1>1, <1>2
<1>9. LineType'
  BY <1>1, <1>2, <1>3, <1>4 DEF OwnInv, LineType
<1>10. PlacedAt(o, <<"hand", a>>)'
  BY <1>2, <1>3, <1>7, <1>8 DEF PlacedAt
<1>11. \A x \in Objects \ {o}, b \in QueueTypes : x \in Range(queue'[b]) <=> x \in Range(queue[b])
  BY <1>3
<1>12. \A x \in Objects \ {o} : StaysThere(x)
  <2>1. ASSUME NEW x \in Objects \ {o}, NEW b \in QueueTypes PROVE hand'[b] = x <=> hand[b] = x
    BY <1>1, <1>8, ObjectsAssumption
  <2>2. QED
    BY <1>2, <1>11, <2>1 DEF StaysThere
<1>13. <<"hand", a>> \in Places
  BY DEF Places
<1>14. QED
  BY <1>9, <1>10, <1>12, <1>13, Moved DEF OwnInv

\* ... and releases it when its line is written.
LEMMA WriteMessageOwns ==
  ASSUME OwnInv, NEW a \in QueueTypes, WriteMessage(a)
  PROVE  OwnInv'
<1>1. hand \in [QueueTypes -> Objects \cup {NoObject}] /\ hand[a] # NoObject
  BY DEF OwnInv, LineType, WriteMessage
<1> PICK o \in Objects : o = hand[a]
  BY <1>1
<1>2. /\ hand' = [hand EXCEPT ![a] = NoObject] /\ basePool' = basePool \cup {o}
      /\ UNCHANGED <<fresh, escapePool, step, object, queue>>
  BY DEF WriteMessage
<1>3. PICK p \in Places : PlacedAt(o, p)
  BY DEF OwnInv, Owned
<1>4. p = <<"hand", a>>
  BY <1>3 DEF PlacedAt
<1>5. /\ o \notin fresh /\ o \notin escapePool /\ \A d \in LogCallers : object[d] # o
      /\ \A b \in QueueTypes : o \notin Range(queue[b]) /\ (b # a => hand[b] # o)
  BY <1>3, <1>4 DEF PlacedAt
<1>6. \A b \in QueueTypes : hand'[b] = IF b = a THEN NoObject ELSE hand[b]
  BY <1>1, <1>2
<1>7. LineType'
  BY <1>1, <1>2 DEF OwnInv, LineType
<1>8. PlacedAt(o, <<"pool", "base">>)'
  BY <1>2, <1>5, <1>6, ObjectsAssumption DEF PlacedAt
<1>9. \A x \in Objects \ {o} : StaysThere(x)
  <2>1. ASSUME NEW x \in Objects \ {o}, NEW b \in QueueTypes PROVE hand'[b] = x <=> hand[b] = x
    BY <1>6, ObjectsAssumption
  <2>2. QED
    BY <1>2, <2>1 DEF StaysThere
<1>10. <<"pool", "base">> \in Places
  BY DEF Places
<1>11. QED
  BY <1>7, <1>8, <1>9, <1>10, Moved DEF OwnInv

-----------------------------------------------------------------------------
(* What is in an object: the message of its call, and what was rendered    *)
(* from it.                                                                *)

\* The steps of LogLine, for the proofs of its invariants.
LEMMA OwnStep ==
  ASSUME OwnInv, LineNext \/ UNCHANGED lineVars
  PROVE  OwnInv'
<1>1. CASE UNCHANGED lineVars
  BY <1>1 DEF lineVars, OwnInv, LineType, Owned, PlacedAt
<1>2. ASSUME NEW c \in LogCallers, NEW k, Call(c, k) PROVE OwnInv'
  BY <1>2, CallOwns
<1>3. ASSUME NEW c \in LogCallers, Route(c) PROVE OwnInv'
  <2>1. step \in [LogCallers -> {"idle", "route", "write"}]
    BY DEF OwnInv, LineType
  <2>2. QED
    BY <1>3, <2>1, StayOwns DEF Route
<1>4. ASSUME NEW c \in LogCallers, WriteFile(c) PROVE OwnInv'
  <2>1. step \in [LogCallers -> {"idle", "route", "write"}]
    BY DEF OwnInv, LineType
  <2>2. QED
    BY <1>4, <2>1, StayOwns DEF WriteFile
<1>5. ASSUME NEW c \in LogCallers, WriteQueue(c) PROVE OwnInv'
  BY <1>5, QueueOwns
<1>6. ASSUME NEW c \in LogCallers, Release(c) PROVE OwnInv'
  BY <1>6, ReleaseOwns
<1>7. ASSUME NEW a \in QueueTypes, Take(a) PROVE OwnInv'
  BY <1>7, TakeOwns
<1>8. ASSUME NEW a \in QueueTypes, WriteMessage(a) PROVE OwnInv'
  BY <1>8, WriteMessageOwns
<1>9. QED
  BY <1>1, <1>2, <1>3, <1>4, <1>5, <1>6, <1>7, <1>8 DEF LineNext

\* What a caller, a queue or a consumer has is in no pool.
InPool(o) == o \in fresh \cup basePool \cup escapePool

Apart ==
  /\ \A c \in LogCallers : step[c] # "idle" => object[c] \in Objects /\ ~InPool(object[c])
  /\ \A a \in QueueTypes, o \in Objects : o \in Range(queue[a]) \/ hand[a] = o => ~InPool(o)

LEMMA OwnedApart == OwnInv => Apart
<1> SUFFICES ASSUME OwnInv PROVE Apart
  OBVIOUS
<1>1. ASSUME NEW c \in LogCallers, step[c] # "idle" PROVE object[c] \in Objects /\ ~InPool(object[c])
  <2>1. object[c] \in Objects
    BY <1>1 DEF OwnInv, LineType
  <2>2. PICK p \in Places : PlacedAt(object[c], p)
    BY <2>1 DEF OwnInv, Owned
  <2>3. QED
    BY <2>1, <2>2 DEF PlacedAt, InPool
<1>2. ASSUME NEW a \in QueueTypes, NEW o \in Objects, o \in Range(queue[a]) \/ hand[a] = o PROVE ~InPool(o)
  <2>1. PICK p \in Places : PlacedAt(o, p)
    BY DEF OwnInv, Owned
  <2>2. QED
    BY <1>2, <2>1 DEF PlacedAt, InPool
<1>3. QED
  BY <1>1, <1>2 DEF Apart

LEMMA OwnedApartNext == OwnInv' => Apart'
BY OwnedApart, PTL

\* A message that was filled for call n, whatever was rendered from it.
Filled(m, n) ==
  /\ n \in 1..Len(logged)
  /\ m = [FillCh(Blank, n, logged[n]) EXCEPT !.cache = m.cache]
  /\ m.cache.line = <<>> \/ m.cache.line = GetFormatMessage(m.cache.layout, m, m.cache.ch, m.cache.escape)

\* The line of call n for appender a.
LineOf(a, n) ==
  LET m == FillCh(Blank, n, logged[n])
  IN  GetFormatMessage(setting[a].layout, m, ChannelOf(a, m), setting[a].escape)

Content ==
  /\ memory = [o \in Objects |-> memory[o]]
  /\ logged \in Seq(ApiCalls)
  /\ \A o \in Objects : IF InPool(o) THEN memory[o] = Reset(memory[o]) ELSE \E n \in Nat : Filled(memory[o], n)
  /\ \A e \in lines : \E n \in 1..Len(logged) : e.line = LineOf(e.app, n)

\* A layout reads the type, the text, the place and the time only.
LEMMA RenderedFrom ==
  ASSUME NEW m, NEW q, NEW layout, NEW ch, NEW escape,
         m.type = q.type, m.text = q.text, m.place = q.place, m.time = q.time
  PROVE  GetFormatMessage(layout, m, ch, escape) = GetFormatMessage(layout, q, ch, escape)
<1>1. \A field, ext : Value(field, m, ch, ext) = Value(field, q, ch, ext)
  BY DEF Value
<1>2. QED
  BY <1>1 DEF GetFormatMessage

LEMMA FillChIs ==
  ASSUME NEW m, m = Reset(m), NEW n, NEW k
  PROVE  /\ FillCh(m, n, k) = FillCh(Blank, n, k)
         /\ FillCh(m, n, k) = [type |-> k.type, text |-> n,
                               place |-> IF k.kind = "log" THEN NoPlace ELSE n,
                               ch |-> IF k.ch = NoChannel THEN NoChannel ELSE k.ch,
                               time |-> n, cache |-> NoCache]
BY DEF FillCh, FillFmt, FillLog, Blank, Reset

\* What an appender renders from a filled message is the line of the call.
LEMMA FormatsItsOwn ==
  ASSUME NEW a, NEW m, NEW n \in Nat, Filled(m, n)
  PROVE  FormatMessage(a, m) = LineOf(a, n) /\ Filled(Rendered(a, m), n)
<1> DEFINE q == FillCh(Blank, n, logged[n])
<1>1. m = [q EXCEPT !.cache = m.cache]
  BY DEF Filled
<1>2. q = [type |-> q.type, text |-> q.text, place |-> q.place, ch |-> q.ch, time |-> q.time, cache |-> q.cache]
  BY DEF FillCh, FillFmt, FillLog, Blank
<1> HIDE DEF q
<1>3. m = [type |-> q.type, text |-> q.text, place |-> q.place, ch |-> q.ch, time |-> q.time, cache |-> m.cache]
  BY <1>1, <1>2
<1>4. /\ m.type = q.type /\ m.text = q.text /\ m.place = q.place /\ m.time = q.time /\ m.ch = q.ch
  BY <1>3
<1>5. \A layout, ch, escape : GetFormatMessage(layout, m, ch, escape) = GetFormatMessage(layout, q, ch, escape)
  BY <1>4, RenderedFrom
<1>6. FormatMessage(a, m) = GetFormatMessage(setting[a].layout, m, ChannelOf(a, m), setting[a].escape)
  BY DEF FormatMessage, CacheHits, Filled
<1>7. ChannelOf(a, m) = ChannelOf(a, q)
  BY <1>4 DEF ChannelOf
<1>8. FormatMessage(a, m) = LineOf(a, n)
  BY <1>5, <1>6, <1>7 DEF LineOf, q
<1>9. Filled(Rendered(a, m), n)
  <2>1. CASE setting[a].layout = NoLayout
    BY <2>1 DEF Rendered
  <2>2. CASE setting[a].layout # NoLayout
    <3> DEFINE kept == [line |-> FormatMessage(a, m), layout |-> setting[a].layout,
                        ch |-> ChannelOf(a, m), escape |-> setting[a].escape]
               r    == Rendered(a, m)
    <3>1. r = [type |-> q.type, text |-> q.text, place |-> q.place, ch |-> q.ch, time |-> q.time, cache |-> kept]
      BY <1>3, <2>2 DEF Rendered
    <3>2. /\ kept.line = FormatMessage(a, m) /\ kept.layout = setting[a].layout
          /\ kept.ch = ChannelOf(a, m) /\ kept.escape = setting[a].escape
      OBVIOUS
    <3> HIDE DEF kept, r
    <3>3. r.cache = kept
      BY <3>1
    <3>4. r = [q EXCEPT !.cache = r.cache]
      BY <1>2, <3>1, <3>3
    <3>5. \A layout, ch, escape : GetFormatMessage(layout, m, ch, escape) = GetFormatMessage(layout, r, ch, escape)
      <4>1. r.type = m.type /\ r.text = m.text /\ r.place = m.place /\ r.time = m.time
        BY <1>4, <3>1
      <4>2. QED
        BY <4>1, RenderedFrom
    <3>6. r.cache.line = GetFormatMessage(r.cache.layout, r, r.cache.ch, r.cache.escape)
      BY <1>6, <3>2, <3>3, <3>5
    <3>7. Filled(r, n)
      BY <3>4, <3>6 DEF Filled, q
    <3>8. QED
      BY <3>7 DEF r
  <2>3. QED
    BY <2>1, <2>2
<1>10. QED
  BY <1>8, <1>9

\* Calls are only added, so a message stays that of its call.
LEMMA Older ==
  ASSUME Content, NEW k \in ApiCalls, logged' = Append(logged, k) \/ UNCHANGED logged
  PROVE  /\ logged' \in Seq(ApiCalls)
         /\ \A n \in 1..Len(logged) : n \in 1..Len(logged') /\ logged'[n] = logged[n]
BY DEF Content

LEMMA StillFilled ==
  ASSUME NEW m, NEW n, Filled(m, n), n \in 1..Len(logged'), logged'[n] = logged[n]
  PROVE  Filled(m, n)'
BY DEF Filled

LEMMA StillLine ==
  ASSUME NEW a, NEW n, logged'[n] = logged[n], UNCHANGED setting
  PROVE  LineOf(a, n)' = LineOf(a, n)
BY DEF LineOf, ChannelOf, GetFormatMessage

\* One object changes: it is filled and out of the pools, or reset and in one.
LEMMA OneChanges ==
  ASSUME Content, NEW o \in Objects, NEW v, memory' = [memory EXCEPT ![o] = v],
         \A x \in Objects \ {o} : InPool(x)' <=> InPool(x),
         IF InPool(o)' THEN v = Reset(v) ELSE \E n \in Nat : Filled(v, n)',
         logged' \in Seq(ApiCalls),
         \A n \in 1..Len(logged) : n \in 1..Len(logged') /\ logged'[n] = logged[n],
         UNCHANGED setting,
         \A e \in lines' : e \in lines \/ \E n \in 1..Len(logged') : e.line = LineOf(e.app, n)'
  PROVE  Content'
<1>1. /\ memory' = [x \in Objects |-> memory'[x]] /\ memory'[o] = v
      /\ \A x \in Objects \ {o} : memory'[x] = memory[x]
  BY DEF Content
<1>2. ASSUME NEW x \in Objects
      PROVE  (IF InPool(x) THEN memory[x] = Reset(memory[x]) ELSE \E n \in Nat : Filled(memory[x], n))'
  <2>1. CASE x = o
    <3>1. memory'[x] = v
      BY <1>1, <2>1
    <3>2. CASE InPool(x)'
      BY <2>1, <3>1, <3>2
    <3>3. CASE ~InPool(x)'
      <4>1. PICK n \in Nat : Filled(v, n)'
        BY <2>1, <3>3
      <4>2. Filled(memory[x], n)'
        BY <3>1, <4>1 DEF Filled
      <4>3. QED
        BY <3>3, <4>2
    <3>4. QED
      BY <3>2, <3>3
  <2>2. CASE x # o
    <3> memory'[x] = memory[x] /\ (InPool(x)' <=> InPool(x))
      BY <1>1, <2>2
    <3>1. CASE InPool(x)
      BY <3>1 DEF Content
    <3>2. CASE ~InPool(x)
      <4>1. PICK n \in Nat : Filled(memory[x], n)
        BY <3>2 DEF Content
      <4>2. n \in 1..Len(logged') /\ logged'[n] = logged[n]
        BY <4>1 DEF Filled
      <4>3. Filled(memory[x], n)'
        BY <4>1, <4>2 DEF Filled
      <4>4. QED
        BY <3>2, <4>3
    <3>3. QED
      BY <3>1, <3>2
  <2>3. QED
    BY <2>1, <2>2
<1>3. ASSUME NEW e \in lines' PROVE \E n \in 1..Len(logged') : e.line = LineOf(e.app, n)'
  <2>1. CASE e \in lines
    <3>1. PICK n \in 1..Len(logged) : e.line = LineOf(e.app, n)
      BY <2>1 DEF Content
    <3>2. QED
      BY <3>1, StillLine
  <2>2. QED
    BY <2>1
<1>4. QED
  BY <1>1, <1>2, <1>3 DEF Content

LEMMA ContentInit == LineInit => Content
BY DEF LineInit, Content, InPool, Reset, Blank

\* A call fills the object that it takes.
LEMMA CallContent ==
  ASSUME OwnInv, OwnInv', Content, NEW c \in LogCallers, NEW k \in CallsMade \cap ApiCalls, Call(c, k)
  PROVE  Content'
<1>1. PICK o \in Get(Pool(k)) :
        /\ memory' = [memory EXCEPT ![o] = FillCh(@, Len(logged) + 1, k)]
        /\ object' = [object EXCEPT ![c] = o] /\ fresh' = fresh \ {o}
        /\ IF k.kind = "escape" THEN escapePool' = escapePool \ {o} /\ UNCHANGED basePool
                                ELSE basePool' = basePool \ {o} /\ UNCHANGED escapePool
  BY DEF Call
<1>2. o \in Objects /\ InPool(o)
  BY <1>1, GetGives DEF Pool, InPool, OwnInv, LineType
<1>3. ~InPool(o)'
  <2>1. step' = [step EXCEPT ![c] = "route"]
    BY DEF Call
  <2>2. object \in [LogCallers -> Objects \cup {NoObject}] /\ step \in [LogCallers -> {"idle", "route", "write"}]
    BY DEF OwnInv, LineType
  <2>3. step'[c] # "idle"
    BY <2>1, <2>2
  <2>4. object'[c] = o
    <3>1. object' = [object EXCEPT ![c] = o]
      BY <1>1
    <3>2. QED
      BY <2>2, <3>1
  <2>5. QED
    BY <2>3, <2>4, OwnedApartNext DEF Apart
<1>4. \A x \in Objects \ {o} : InPool(x)' <=> InPool(x)
  BY <1>1 DEF InPool
<1>5. logged' = Append(logged, k) /\ logged \in Seq(ApiCalls) /\ UNCHANGED <<setting, lines>>
  BY DEF Call, Content
<1> DEFINE n == Len(logged) + 1
           v == FillCh(memory[o], n, k)
<1>6. /\ logged' \in Seq(ApiCalls) /\ n \in 1..Len(logged') /\ n \in Nat /\ logged'[n] = k
      /\ \A j \in 1..Len(logged) : j \in 1..Len(logged') /\ logged'[j] = logged[j]
  BY <1>5
<1>7. memory' = [memory EXCEPT ![o] = v]
  BY <1>1, <1>2 DEF Content
<1>8. /\ v = FillCh(Blank, n, k)
      /\ v = [v EXCEPT !.cache = v.cache] /\ v.cache.line = <<>>
  <2>1. memory[o] = Reset(memory[o])
    BY <1>2 DEF Content
  <2> HIDE DEF n
  <2>2. /\ v = FillCh(Blank, n, k)
        /\ v = [type |-> k.type, text |-> n, place |-> IF k.kind = "log" THEN NoPlace ELSE n,
                ch |-> IF k.ch = NoChannel THEN NoChannel ELSE k.ch, time |-> n, cache |-> NoCache]
    BY <2>1, FillChIs
  <2> HIDE DEF v
  <2>3. v.cache = NoCache /\ NoCache.line = <<>>
    BY <2>2 DEF NoCache
  <2>4. QED
    BY <2>2, <2>3
<1> HIDE DEF n, v
<1>9. PICK w : w = v
  OBVIOUS
<1>10. PICK j \in Nat : j = n
  BY <1>6
<1>11. Filled(w, j)'
  BY <1>6, <1>8, <1>9, <1>10 DEF Filled
<1>12. QED
  BY <1>2, <1>3, <1>4, <1>5, <1>6, <1>7, <1>9, <1>11, OneChanges

\* Write of a file appender adds the line of the call, and keeps it.
LEMMA FileContent ==
  ASSUME OwnInv, Content, NEW c \in LogCallers, WriteFile(c)
  PROVE  Content'
<1> PICK o : o = object[c]
  OBVIOUS
<1> PICK a : a = Head(todo[c])
  OBVIOUS
<1>1. o \in Objects /\ ~InPool(o)
  BY OwnedApart DEF WriteFile, Apart
<1>2. PICK n \in Nat : Filled(memory[o], n)
  BY <1>1 DEF Content
<1>3. FormatMessage(a, memory[o]) = LineOf(a, n) /\ Filled(Rendered(a, memory[o]), n)
  BY <1>2, FormatsItsOwn
<1>4. n \in 1..Len(logged)
  BY <1>2 DEF Filled
<1>5. /\ lines' = lines \cup {[app |-> a, line |-> LineOf(a, n)]}
      /\ memory' = [memory EXCEPT ![o] = Rendered(a, memory[o])]
      /\ UNCHANGED <<setting, fresh, basePool, escapePool, logged>>
  BY <1>1, <1>3 DEF WriteFile, Written, Content
<1> PICK v : v = Rendered(a, memory[o])
  OBVIOUS
<1>6. Filled(v, n)'
  BY <1>3, <1>4, <1>5, StillFilled
<1>7. \A e \in lines' : e \in lines \/ e.line = LineOf(e.app, n)
  BY <1>5
<1>8. \A e \in lines' : e \in lines \/ \E j \in 1..Len(logged') : e.line = LineOf(e.app, j)'
  <2>1. \A b : LineOf(b, n)' = LineOf(b, n)
    BY <1>5, StillLine
  <2>2. QED
    BY <1>4, <1>5, <1>7, <2>1
<1>9. \A x : InPool(x)' <=> InPool(x)
  BY <1>5 DEF InPool
<1>10. QED
  BY <1>1, <1>5, <1>6, <1>8, <1>9, OneChanges DEF Content

\* A clone holds what the message holds; the one without room is reset.
LEMMA QueueContent ==
  ASSUME OwnInv, OwnInv', Content, NEW c \in LogCallers, WriteQueue(c)
  PROVE  Content'
<1> PICK a \in QueueTypes : a = Head(todo[c])
  BY DEF WriteQueue
<1>1. PICK o \in Objects :
        /\ o \in Get(basePool) /\ fresh' = fresh \ {o}
        /\ \/ /\ queue' = [queue EXCEPT ![a] = Append(@, o)] /\ basePool' = basePool \ {o}
              /\ memory' = [memory EXCEPT ![o] = memory[object[c]]]
           \/ /\ basePool' = basePool \cup {o} /\ UNCHANGED queue
              /\ memory' = [memory EXCEPT ![o] = Reset(memory[object[c]])]
  BY DEF WriteQueue, Clone
<1>2. object[c] \in Objects /\ ~InPool(object[c])
  BY OwnedApart DEF WriteQueue, Apart
<1>3. PICK n \in Nat : Filled(memory[object[c]], n)
  BY <1>2 DEF Content
<1>4. UNCHANGED <<setting, escapePool, logged, lines>>
  BY DEF WriteQueue
<1>5. \A x \in Objects \ {o} : InPool(x)' <=> InPool(x)
  BY <1>1, <1>4 DEF InPool
<1>6. CASE /\ queue' = [queue EXCEPT ![a] = Append(@, o)]
           /\ memory' = [memory EXCEPT ![o] = memory[object[c]]]
  <2>1. o \in Range(queue'[a])
    BY <1>6, Appended DEF OwnInv, LineType
  <2>2. ~InPool(o)'
    BY <2>1, OwnedApartNext DEF Apart
  <2> PICK v : v = memory[object[c]]
    OBVIOUS
  <2>3. Filled(v, n)'
    BY <1>3, <1>4, StillFilled DEF Filled
  <2>4. QED
    BY <1>4, <1>5, <1>6, <2>2, <2>3, OneChanges DEF Content
<1>7. CASE /\ basePool' = basePool \cup {o}
           /\ memory' = [memory EXCEPT ![o] = Reset(memory[object[c]])]
  <2> PICK v : v = Reset(memory[object[c]])
    OBVIOUS
  <2>1. v = Reset(v)
    BY DEF Reset, Blank
  <2>2. InPool(o)'
    BY <1>7 DEF InPool
  <2>3. QED
    BY <1>4, <1>5, <1>7, <2>1, <2>2, OneChanges DEF Content
<1>8. QED
  BY <1>1, <1>6, <1>7

\* A release resets the object.
LEMMA ReleaseContent ==
  ASSUME OwnInv, Content, NEW c \in LogCallers, Release(c)
  PROVE  Content'
<1> PICK o : o = object[c]
  OBVIOUS
<1>1. o \in Objects
  BY OwnedApart DEF Release, Apart
<1>2. UNCHANGED <<setting, fresh, logged, lines>>
  BY DEF Release
<1> PICK v : v = Reset(memory[o])
  OBVIOUS
<1>3. v = Reset(v)
  BY DEF Reset, Blank
<1>4. memory' = [memory EXCEPT ![o] = v]
  BY DEF Release, Content
<1>5. InPool(o)' /\ \A x \in Objects \ {o} : InPool(x)' <=> InPool(x)
  <2>1. CASE Kind(c).kind = "escape"
    BY <1>2, <2>1 DEF Release, InPool
  <2>2. CASE Kind(c).kind # "escape"
    BY <1>2, <2>2 DEF Release, InPool
  <2>3. QED
    BY <2>1, <2>2
<1>6. QED
  BY <1>1, <1>2, <1>3, <1>4, <1>5, OneChanges DEF Content

\* The consumer adds the line of the call, and resets the object.
LEMMA MessageContent ==
  ASSUME OwnInv, Content, NEW a \in QueueTypes, WriteMessage(a)
  PROVE  Content'
<1> PICK o : o = hand[a]
  OBVIOUS
<1>1. o \in Objects /\ ~InPool(o)
  <2>1. o \in Objects
    BY DEF WriteMessage, OwnInv, LineType
  <2>2. QED
    BY <2>1, OwnedApart DEF Apart
<1>2. PICK n \in Nat : Filled(memory[o], n)
  BY <1>1 DEF Content
<1>3. FormatMessage(a, memory[o]) = LineOf(a, n) /\ n \in 1..Len(logged)
  BY <1>2, FormatsItsOwn DEF Filled
<1> PICK v : v = Reset(memory[o])
  OBVIOUS
<1>4. v = Reset(v)
  BY DEF Reset, Blank
<1>5. /\ lines' = lines \cup {[app |-> a, line |-> LineOf(a, n)]}
      /\ memory' = [memory EXCEPT ![o] = v] /\ basePool' = basePool \cup {o}
      /\ UNCHANGED <<setting, fresh, escapePool, logged>>
  BY <1>1, <1>3 DEF WriteMessage, Written, Content
<1>6. InPool(o)' /\ \A x \in Objects \ {o} : InPool(x)' <=> InPool(x)
  BY <1>5 DEF InPool
<1>7. \A e \in lines' : e \in lines \/ \E j \in 1..Len(logged') : e.line = LineOf(e.app, j)'
  <2>1. \A b : LineOf(b, n)' = LineOf(b, n)
    BY <1>5, StillLine
  <2>2. \A e \in lines' : e \in lines \/ e.line = LineOf(e.app, n)
    BY <1>5
  <2>3. QED
    BY <1>3, <1>5, <2>1, <2>2
<1>8. QED
  BY <1>1, <1>4, <1>5, <1>6, <1>7, OneChanges DEF Content

LEMMA ContentStep ==
  ASSUME OwnInv, OwnInv', Content, LineNext \/ UNCHANGED lineVars
  PROVE  Content'
<1>1. ASSUME UNCHANGED <<setting, memory, fresh, basePool, escapePool, logged, lines>> PROVE Content'
  BY <1>1 DEF Content, InPool, Filled, LineOf, ChannelOf
<1>2. CASE UNCHANGED lineVars
  BY <1>1, <1>2 DEF lineVars
<1>3. ASSUME NEW c \in LogCallers, NEW k \in CallsMade \cap ApiCalls, Call(c, k) PROVE Content'
  BY <1>3, CallContent
<1>4. ASSUME NEW c \in LogCallers, Route(c) PROVE Content'
  BY <1>1, <1>4 DEF Route
<1>5. ASSUME NEW c \in LogCallers, WriteFile(c) PROVE Content'
  BY <1>5, FileContent
<1>6. ASSUME NEW c \in LogCallers, WriteQueue(c) PROVE Content'
  BY <1>6, QueueContent
<1>7. ASSUME NEW c \in LogCallers, Release(c) PROVE Content'
  BY <1>7, ReleaseContent
<1>8. ASSUME NEW a \in QueueTypes, Take(a) PROVE Content'
  BY <1>1, <1>8 DEF Take
<1>9. ASSUME NEW a \in QueueTypes, WriteMessage(a) PROVE Content'
  BY <1>9, MessageContent
<1>10. QED
  BY <1>2, <1>3, <1>4, <1>5, <1>6, <1>7, <1>8, <1>9 DEF LineNext

-----------------------------------------------------------------------------
(* The theorems                                                            *)

LEMMA LineInvariant == LineSpec => [](OwnInv /\ Content)
<1>1. LineInit => OwnInv /\ Content
  BY OwnInit, ContentInit
<1>2. OwnInv /\ Content /\ [LineNext]_lineVars => (OwnInv /\ Content)'
  BY OwnStep, ContentStep
<1>3. QED
  BY <1>1, <1>2, PTL DEF LineSpec

\* The one place of an object is its only owner.
LEMMA PlaceIsOwner ==
  ASSUME NEW o \in Objects, NEW p \in Places, PlacedAt(o, p)
  PROVE  Owners(o) = {p}
<1>1. DOMAIN Pools = {"fresh", "base", "escape"} /\ Pools["fresh"] = fresh
      /\ Pools["base"] = basePool /\ Pools["escape"] = escapePool
  BY DEF Pools
<1>2. ASSUME NEW q \in Owners(o) PROVE q = p
  <2>1. ASSUME NEW x \in DOMAIN Pools, o \in Pools[x] PROVE <<"pool", x>> = p
    BY <1>1, <2>1 DEF PlacedAt
  <2>2. QED
    BY <2>1 DEF Owners, PlacedAt
<1>3. p \in Owners(o)
  <2>1. ASSUME NEW x \in {"fresh", "base", "escape"}, p = <<"pool", x>> PROVE o \in Pools[x]
    BY <1>1, <2>1 DEF PlacedAt
  <2>2. QED
    BY <1>1, <2>1 DEF Owners, PlacedAt, Places
<1>4. QED
  BY <1>2, <1>3

\* Every message object is in one pool, or has one owner: one caller, one
\* place in one queue, or one consumer; and what is in a pool is reset.
THEOREM OneOwnerHolds == LineSpec => []OneOwner
<1>1. OwnInv /\ Content => OneOwner
  <2> SUFFICES ASSUME OwnInv, Content PROVE OneOwner
    OBVIOUS
  <2>1. ASSUME NEW o \in Objects PROVE Cardinality(Owners(o)) = 1
    <3>1. PICK p \in Places : PlacedAt(o, p)
      BY DEF OwnInv, Owned
    <3>2. QED
      BY <3>1, PlaceIsOwner, FS_Singleton
  <2>2. ASSUME NEW o \in basePool \cup escapePool PROVE memory[o] = Reset(memory[o])
    BY DEF Content, InPool, OwnInv, LineType
  <2>3. QED
    BY <2>1, <2>2 DEF OneOwner, OwnInv, LineType
<1>2. QED
  BY <1>1, LineInvariant, PTL

\* Every layout writes the text.
LEMMA LayoutsWriteText ==
  ASSUME NEW layout
  PROVE  \E i \in DOMAIN LayoutFields(layout) : LayoutFields(layout)[i] = "text"
<1>1. CASE layout \in {1, 3}
  <2>1. LayoutFields(layout) = IF layout = 1 THEN Layout1 ELSE Layout3
    BY <1>1 DEF LayoutFields
  <2>2. Layout1[8] = "text" /\ 8 \in DOMAIN Layout1
    BY DEF Layout1
  <2>3. Layout3[7] = "text" /\ 7 \in DOMAIN Layout3
    BY DEF Layout3
  <2>4. QED
    BY <2>1, <2>2, <2>3
<1>2. CASE layout \in {2, 4, 6}
  <2>1. LayoutFields(layout) = IF layout = 2 THEN Layout2 ELSE IF layout = 4 THEN Layout4 ELSE Layout6
    BY <1>2 DEF LayoutFields
  <2>2. Layout2[7] = "text" /\ 7 \in DOMAIN Layout2
    BY DEF Layout2
  <2>3. Layout4[7] = "text" /\ 7 \in DOMAIN Layout4
    BY DEF Layout4
  <2>4. Layout6[7] = "text" /\ 7 \in DOMAIN Layout6
    BY DEF Layout6
  <2>5. QED
    BY <2>1, <2>2, <2>3, <2>4
<1>3. CASE layout = 5
  BY <1>3 DEF LayoutFields, Layout5
<1>4. CASE layout \notin 1..6
  BY <1>4 DEF LayoutFields, LayoutCustom
<1>5. QED
  BY <1>1, <1>2, <1>3, <1>4

\* The text of a line tells its call.
LEMMA TextTellsCall ==
  ASSUME NEW layout, NEW m, NEW ch, NEW escape
  PROVE  LET line == GetFormatMessage(layout, m, ch, escape)
         IN  line[TextOf(line)][2] = m.text
<1> DEFINE line == GetFormatMessage(layout, m, ch, escape)
           f    == LayoutFields(layout)
<1>1. /\ DOMAIN line = DOMAIN f
      /\ \A i \in DOMAIN f : line[i] = <<f[i], Value(f[i], m, ch, escape /\ layout \in Escaping)>>
  BY DEF GetFormatMessage
<1>2. PICK i \in DOMAIN f : f[i] = "text"
  BY LayoutsWriteText
<1> HIDE DEF line, f
<1>3. \A j \in DOMAIN f : line[j][1] = f[j] /\ line[j][2] = Value(f[j], m, ch, escape /\ layout \in Escaping)
  BY <1>1
<1>4. TextOf(line) \in DOMAIN line /\ line[TextOf(line)][1] = "text"
  BY <1>1, <1>2, <1>3 DEF TextOf
<1>5. \A ext : Value("text", m, ch, ext) = m.text
  BY DEF Value
<1>6. line[TextOf(line)][2] = m.text
  BY <1>1, <1>3, <1>4, <1>5
<1>7. QED
  BY <1>6 DEF line

\* Every line that any appender writes is that of its own call: its time, type,
\* place and text, in the layout of the appender and with the channel of the
\* message or the appender; whatever object, cache or queue it went through.
THEOREM LinesAreTheirOwnHolds == LineSpec => []LinesAreTheirOwn
<1>1. OwnInv /\ Content => LinesAreTheirOwn
  <2> SUFFICES ASSUME Content, NEW e \in lines
      PROVE  LET n == e.line[TextOf(e.line)][2] IN n \in DOMAIN logged /\ e.line = LineOf(e.app, n)
    BY DEF LinesAreTheirOwn, LineOf
  <2>1. PICK n \in 1..Len(logged) : e.line = LineOf(e.app, n)
    BY DEF Content
  <2>2. FillCh(Blank, n, logged[n]).text = n
    BY DEF FillCh, FillFmt, FillLog, Blank
  <2>3. e.line[TextOf(e.line)][2] = n
    BY <2>1, <2>2, TextTellsCall DEF LineOf
  <2>4. n \in DOMAIN logged
    BY DEF Content
  <2>5. QED
    BY <2>1, <2>3, <2>4
<1>2. QED
  BY <1>1, LineInvariant, PTL
=============================================================================
