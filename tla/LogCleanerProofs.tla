-------------------------- MODULE LogCleanerProofs --------------------------
(* Theorems about LogCleaner, for all types, modes, leftovers, limits and   *)
(* numbers of lives, when Close is not called before the first pass is      *)
(* over: in append mode no pass removes an open file, every life that is    *)
(* enabled has had a full pass, and a full pass reaches its limits.         *)
EXTENDS LogCleaner, FiniteSetTheorems, FunctionTheorems, WellFoundedInduction, TLAPS

-----------------------------------------------------------------------------
(* Which goroutine can be where in the life of the logger.                 *)

Stages == {"down", "mounting", "up", "stopping", "closing"}
Phases == {"collect", "purge", "list", "expire", "count", "size", "done"}

\* A first pass waits or runs only while the logger is up, which is what the
\* orderly use gives, and the scheduled goroutine is gone before the registry
\* is emptied, which is what Close waits for.
Housed ==
  /\ life \in Stages /\ firsts \in Nat
  /\ firsts > 0 \/ runner = "first" => life = "up"
  /\ ticker # "none" => life \in {"up", "stopping"}
  /\ runner \in {"nobody", "first", "ticker"}
  /\ runner = "ticker" => ticker = "clearing"
  /\ runner = "nobody" <=> phase \notin Phases

LEMMA HousedInit == Init => Housed
BY DEF Init, Housed, Stages, Phases

LEMMA HousedStep == OrderlyUse /\ Housed /\ [Next]_vars => Housed'
<1> SUFFICES ASSUME OrderlyUse, Housed, [Next]_vars PROVE Housed'
  OBVIOUS
<1> USE DEF Housed, Stages, Phases
<1>1. CASE LoggerInit \/ StopSchedule \/ StopReturn \/ LoggerDown
  BY <1>1 DEF LoggerInit, StopSchedule, StopReturn, LoggerDown, taskVars, passVars
<1>2. ASSUME NEW enable \in BOOLEAN, StartSchedule(enable) PROVE Housed'
  BY <1>2 DEF StartSchedule, Rearm, Spawn, passVars
<1>3. ASSUME NEW t \in Types, CloseFile(t) \/ Mount(t) \/ Rotate(t) PROVE Housed'
  BY <1>3 DEF CloseFile, Mount, Rotate, taskVars, passVars
<1>4. ASSUME NEW f \in DOMAIN disk, DoZipLog(f) PROVE Housed'
  BY <1>4 DEF DoZipLog, taskVars, passVars
<1>5. CASE Tick \/ TickerExit
  BY <1>5 DEF Tick, TickerExit, logVars, passVars
<1>6. CASE Begin("ticker") \/ Begin("first")
  BY <1>6 DEF Begin, logVars, passVars
<1>7. CASE collectInUseFiles \/ ProcessClearNonLog \/ enumerateLogFiles \/ CheckSizes
  BY <1>7 DEF collectInUseFiles, ProcessClearNonLog, enumerateLogFiles, CheckSizes,
              outside, logVars, taskVars
<1>8. CASE EmptyDirectory \/ SkipSizes \/ DoneClear
  BY <1>8 DEF EmptyDirectory, SkipSizes, DoneClear, End, logVars
<1>9. ASSUME NEW k \in todo, RemoveExpired(k) \/ LimitTypeSize(k) PROVE Housed'
  BY <1>9 DEF RemoveExpired, LimitTypeSize, outside, logVars, taskVars
<1>10. CASE LimitCount \/ LimitAllSize
  BY <1>10 DEF LimitCount, LimitAllSize, outside, logVars, taskVars
<1>11. CASE UNCHANGED vars
  BY <1>11 DEF vars, logVars, taskVars, passVars
<1>12. QED
  BY <1>1, <1>2, <1>3, <1>4, <1>5, <1>6, <1>7, <1>8, <1>9, <1>10, <1>11
     DEF Next, LoggerStep, TaskStep, PassStep

-----------------------------------------------------------------------------
(* The open files.                                                         *)

\* While the files are open their appenders are registered, and a pass knows
\* every open file from its collection on.  A rotation gives the same name
\* again, and what the pass lists for removal is not in use.
Known ==
  /\ NoFile \notin DOMAIN disk
  /\ current = [t \in Types |-> current[t]]
  /\ \A t \in Types : current[t] \in {NoFile, Name(t, "fixed", 0)}
  /\ life = "down" => \A t \in Types : current[t] = NoFile
  /\ life \in {"mounting", "up", "stopping"} =>
       \A t \in Types : current[t] # NoFile => t \in registered
  /\ phase \in Phases \ {"collect"} =>
       \A t \in Types : current[t] # NoFile => current[t] \in pass.inUse
  /\ phase \in {"expire", "count", "size", "done"} => Listed \cap pass.inUse = {}

KeepInv == mode = "append" => Known /\ OpenFilesStay

\* What remains of a directory.
LEMMA Remains ==
  /\ \A d, gone : DOMAIN Without(d, gone) = DOMAIN d \ gone
  /\ \A d, f, stat : DOMAIN With(d, f, stat) = DOMAIN d \cup {f}
  /\ \A d, f : DOMAIN Opened(d, f) = DOMAIN d \cup {f}
BY DEF Without, With, Opened

LEMMA Named ==
  /\ \A t, form, moment : form \in Forms => Name(t, form, moment) # NoFile
  /\ \A f : [f EXCEPT !.form = "package"] # NoFile
<1>1. \A t, form, moment : Name(t, form, moment).form = form
  BY DEF Name
<1>2. NoFile.form = "none" /\ DOMAIN NoFile = {"type", "form", "moment"}
  BY DEF Name, NoFile
<1>3. ASSUME NEW f, [f EXCEPT !.form = "package"] = NoFile PROVE FALSE
  <2>1. DOMAIN f = {"type", "form", "moment"}
    BY <1>2, <1>3
  <2>2. [f EXCEPT !.form = "package"].form = "package"
    BY <2>1
  <2>3. QED
    BY <1>2, <1>3, <2>2
<1>4. QED
  BY <1>1, <1>2, <1>3 DEF Forms

LEMMA KeepInit == Init => KeepInv
<1>1. NoFile.form \notin Forms
  BY DEF NoFile, Name, Forms
<1>2. \A d \in Leftovers : NoFile \notin DOMAIN d
  BY <1>1, LeftoverAssumption
<1>3. QED
  BY <1>2 DEF Init, KeepInv, Known, OpenFilesStay, Phases

\* Mounting happens when no pass runs, and rotating brings the name back.
LEMMA LoggerKeeps ==
  ASSUME OrderlyUse, Housed, mode = "append", Known, OpenFilesStay,
         \/ LoggerInit \/ StopSchedule \/ LoggerStep
         \/ \E t \in Types : Mount(t) \/ Rotate(t)
  PROVE  Known' /\ OpenFilesStay'
<1> USE DEF Known, OpenFilesStay, Listed
<1>1. CASE LoggerInit \/ StopSchedule \/ StopReturn \/ LoggerDown
  BY <1>1 DEF LoggerInit, StopSchedule, StopReturn, LoggerDown, passVars
<1>2. ASSUME NEW enable \in BOOLEAN, StartSchedule(enable) PROVE Known' /\ OpenFilesStay'
  BY <1>2 DEF StartSchedule, passVars
<1>3. ASSUME NEW t \in Types, CloseFile(t) PROVE Known' /\ OpenFilesStay'
  BY <1>3 DEF CloseFile, passVars
<1>4. ASSUME NEW t \in Types, Mount(t) PROVE Known' /\ OpenFilesStay'
  <2>1. life = "mounting" /\ phase \notin Phases
    BY <1>4 DEF Mount, Housed
  <2> DEFINE name == Name(t, "fixed", 0)
  <2>2. current' = [current EXCEPT ![t] = name] /\ DOMAIN disk' = DOMAIN disk \cup {name}
    BY <1>4, Remains DEF Mount, ActiveName
  <2>3. registered' = registered \cup {t} /\ UNCHANGED <<mode, life, phase, pass>>
    BY <1>4 DEF Mount, passVars
  <2>4. name # NoFile
    BY Named DEF Forms
  <2> HIDE DEF name
  <2>5. /\ NoFile \notin DOMAIN disk' /\ current' = [u \in Types |-> current'[u]]
        /\ \A u \in Types : IF u = t THEN current'[u] = name ELSE current'[u] = current[u]
    BY <2>2, <2>4
  <2>6. \A u \in Types : current'[u] \in {NoFile, Name(u, "fixed", 0)}
    BY <2>5 DEF name
  <2>7. \A u \in Types : current'[u] # NoFile => u \in registered' /\ current'[u] \in DOMAIN disk'
    BY <2>1, <2>2, <2>3, <2>5
  <2>8. life' # "down" /\ phase' \notin Phases
    BY <2>1, <2>3
  <2>9. QED
    BY <2>5, <2>6, <2>7, <2>8 DEF Phases
<1>5. ASSUME NEW t \in Types, Rotate(t) PROVE Known' /\ OpenFilesStay'
  <2>1. UNCHANGED <<mode, life, registered, phase, pass>>
    BY <1>5 DEF Rotate, passVars
  <2> DEFINE name == Name(t, "fixed", 0)
  <2>2. current[t] = name /\ name # NoFile
    BY <1>5, Named DEF Rotate, Forms
  <2>3. DOMAIN disk' = (DOMAIN disk \ {name}) \cup {RotatedName(t), name}
    <3> DEFINE kept == With(Without(disk, {current[t]}), RotatedName(t), disk[current[t]])
    <3>1. DOMAIN kept = (DOMAIN disk \ {current[t]}) \cup {RotatedName(t)}
      BY DEF With, Without
    <3>2. disk' = Opened(kept, name)
      BY <1>5 DEF Rotate, ActiveName
    <3> HIDE DEF kept
    <3>3. QED
      BY <2>2, <3>1, <3>2, Remains
  <2>4. RotatedName(t) # NoFile
    BY Named DEF RotatedName, Forms
  <2>5. current' = current
    BY <1>5, <2>2 DEF Rotate, ActiveName
  <2> HIDE DEF name
  <2>6. DOMAIN disk \subseteq DOMAIN disk' /\ NoFile \notin DOMAIN disk'
    BY <2>2, <2>3, <2>4
  <2>7. QED
    BY <2>1, <2>5, <2>6
<1>6. QED
  BY <1>1, <1>2, <1>3, <1>4, <1>5 DEF LoggerStep

\* What a pass does: it leaves the logger alone, and it removes nothing that
\* it found in use.
Spares ==
  /\ UNCHANGED <<life, current, registered>>
  /\ DOMAIN disk' \subseteq DOMAIN disk
  /\ phase \in Phases \ {"collect"} => \A f \in DOMAIN disk : f \in pass.inUse => f \in DOMAIN disk'
  /\ phase \notin Phases \ {"collect"} => disk' = disk

LEMMA PassSpares == Known /\ PassStep => Spares
<1> SUFFICES ASSUME Known, PassStep PROVE Spares
  OBVIOUS
<1> USE DEF Spares, Phases
<1>1. CASE collectInUseFiles \/ enumerateLogFiles \/ CheckSizes
  BY <1>1 DEF collectInUseFiles, enumerateLogFiles, CheckSizes, outside, logVars
<1>2. CASE EmptyDirectory \/ SkipSizes \/ DoneClear
  BY <1>2 DEF EmptyDirectory, SkipSizes, DoneClear, End, logVars
<1>3. ASSUME NEW policy, NEW gone, Delete(policy, gone), gone \cap pass.inUse = {} PROVE
        /\ DOMAIN disk' \subseteq DOMAIN disk
        /\ \A f \in DOMAIN disk : f \in pass.inUse => f \in DOMAIN disk'
  BY <1>3 DEF Delete, Without
<1>4. CASE ProcessClearNonLog
  BY <1>4, <1>3 DEF ProcessClearNonLog, outside, logVars
<1>5. phase \in {"expire", "count", "size", "done"} => Listed \cap pass.inUse = {}
  BY DEF Known
<1>6. ASSUME NEW k \in todo, RemoveExpired(k) PROVE Spares
  BY <1>3, <1>5, <1>6 DEF RemoveExpired, Group, outside, logVars
<1>7. ASSUME NEW k \in todo, LimitTypeSize(k) PROVE Spares
  BY <1>3, <1>5, <1>7 DEF LimitTypeSize, LimitSize, Excess, outside, logVars
<1>8. CASE LimitCount
  BY <1>3, <1>5, <1>8 DEF LimitCount, Group, outside, logVars
<1>9. CASE LimitAllSize
  BY <1>3, <1>5, <1>9 DEF LimitAllSize, LimitSize, Excess, outside, logVars
<1>10. QED
  BY <1>1, <1>2, <1>4, <1>6, <1>7, <1>8, <1>9 DEF PassStep

\* What a pass knows: nothing of its lists changes but where it says so.
LEMMA PassKnows ==
  ASSUME Housed, Known, PassStep
  PROVE  /\ phase' \in Phases \ {"collect"} =>
              \A t \in Types : current[t] # NoFile => current[t] \in pass'.inUse
         /\ phase' \in {"expire", "count", "size", "done"} => Listed' \cap pass'.inUse = {}
<1> USE DEF Phases, Listed
<1>1. CASE collectInUseFiles
  <2>1. life \in {"up", "stopping"}
    BY <1>1 DEF collectInUseFiles, Housed, Stages
  <2>2. pass'.inUse = {current[t] : t \in registered}
    BY <1>1 DEF collectInUseFiles
  <2>3. QED
    BY <1>1, <2>1, <2>2 DEF collectInUseFiles, Known
<1>2. CASE enumerateLogFiles
  BY <1>2 DEF enumerateLogFiles, Known
<1>3. CASE EmptyDirectory \/ SkipSizes \/ DoneClear
  BY <1>3 DEF EmptyDirectory, SkipSizes, DoneClear, End
<1>4. CASE ProcessClearNonLog
  BY <1>4 DEF ProcessClearNonLog, Known
<1>5. ASSUME NEW k \in todo, RemoveExpired(k) \/ LimitTypeSize(k)
      PROVE  pass' = pass /\ phase \in {"expire", "size"}
  BY <1>5 DEF RemoveExpired, LimitTypeSize
<1>6. CASE LimitCount \/ CheckSizes \/ LimitAllSize
  BY <1>6 DEF LimitCount, CheckSizes, LimitAllSize, Known
<1>7. QED
  BY <1>1, <1>2, <1>3, <1>4, <1>5, <1>6 DEF PassStep, Known

LEMMA KeepStep == OrderlyUse /\ Housed /\ KeepInv /\ [Next]_vars => KeepInv'
<1> SUFFICES ASSUME OrderlyUse, Housed, KeepInv, [Next]_vars, mode' = "append"
             PROVE  Known' /\ OpenFilesStay'
  BY DEF KeepInv
<1>1. mode = "append"
  BY DEF Next, LoggerInit, StopSchedule, LoggerStep, StartSchedule, StopReturn, LoggerDown,
         CloseFile, Mount, Rotate, DoZipLog, Tick, TaskStep, TickerExit, Begin, PassStep,
         collectInUseFiles, ProcessClearNonLog, enumerateLogFiles, EmptyDirectory,
         RemoveExpired, LimitTypeSize, LimitCount, CheckSizes, SkipSizes, LimitAllSize,
         DoneClear, End, outside, logVars, vars
<1>2. Known /\ OpenFilesStay
  BY <1>1 DEF KeepInv
<1>3. CASE LoggerInit \/ StopSchedule \/ LoggerStep \/ \E t \in Types : Mount(t) \/ Rotate(t)
  BY <1>1, <1>2, <1>3, LoggerKeeps
<1>4. ASSUME NEW f \in DOMAIN disk, DoZipLog(f) PROVE Known' /\ OpenFilesStay'
  <2>1. UNCHANGED <<life, current, registered, phase, pass>>
    BY <1>4 DEF DoZipLog, passVars
  <2>2. DOMAIN disk' = DOMAIN disk \cup {[f EXCEPT !.form = "package"]}
    BY <1>4, Remains DEF DoZipLog
  <2>3. NoFile \notin DOMAIN disk'
    BY <1>2, <2>2, Named DEF Known
  <2>4. QED
    BY <1>2, <2>1, <2>2, <2>3 DEF Known, OpenFilesStay, Listed
<1>5. CASE Tick \/ TickerExit
  BY <1>2, <1>5 DEF Tick, TickerExit, logVars, passVars, Known, OpenFilesStay, Listed
<1>6. CASE Begin("ticker") \/ Begin("first")
  <2>1. /\ UNCHANGED <<life, current, registered, disk>>
        /\ \/ phase' = "collect"
           \/ UNCHANGED <<phase, pass>>
    BY <1>6 DEF Begin, logVars, passVars
  <2>2. QED
    BY <1>2, <2>1 DEF Known, OpenFilesStay, Listed, Phases
<1>7. CASE PassStep
  <2>1. Spares
    BY <1>2, <1>7, PassSpares
  <2>2. life \in {"up", "stopping"}
    BY <1>7 DEF Housed, Stages, Phases, PassStep, collectInUseFiles, ProcessClearNonLog,
                enumerateLogFiles, EmptyDirectory, RemoveExpired, LimitTypeSize,
                LimitCount, CheckSizes, SkipSizes, LimitAllSize, DoneClear
  <2>3. QED
    BY <1>2, <1>7, <2>1, <2>2, PassKnows DEF Known, OpenFilesStay, Spares
<1>8. CASE UNCHANGED vars
  BY <1>2, <1>8 DEF vars, logVars, passVars, Known, OpenFilesStay, Listed
<1>9. QED
  BY <1>3, <1>4, <1>5, <1>6, <1>7, <1>8 DEF Next, TaskStep

-----------------------------------------------------------------------------
(* The full pass of every life.                                            *)

\* Until a full pass has ended the marker is set, every pass that runs has
\* read it, and while the logger is up a first pass waits or runs.
Owed == ~cleaned /\ bEnable

CleanInv ==
  /\ bEnable \in BOOLEAN /\ cleaned \in BOOLEAN /\ bFirstProcess \in BOOLEAN
  /\ pass = [first |-> pass.first, inUse |-> pass.inUse, listed |-> pass.listed]
  /\ pass.first \in BOOLEAN
  /\ life \in {"up", "stopping", "closing"} /\ Owed =>
       /\ bFirstProcess
       /\ runner # "nobody" => pass.first
       /\ life = "up" /\ (firsts > 0 \/ runner = "first")

LEMMA CleanInit == Init => CleanInv
<1> SUFFICES ASSUME Init PROVE CleanInv
  OBVIOUS
<1>1. life = "down" /\ bEnable = FALSE /\ cleaned = FALSE /\ bFirstProcess = TRUE
  BY DEF Init
<1>2. pass = [first |-> FALSE, inUse |-> {}, listed |-> <<>>]
  BY DEF Init, NoPass
<1>3. QED
  BY <1>1, <1>2 DEF CleanInv

LEMMA CleanStep == OrderlyUse /\ Housed /\ CleanInv /\ [Next]_vars => CleanInv'
<1> SUFFICES ASSUME OrderlyUse, Housed, CleanInv, [Next]_vars PROVE CleanInv'
  OBVIOUS
<1> USE DEF CleanInv, Owed, Housed, Stages, Phases
<1>1. CASE LoggerInit \/ StopSchedule \/ StopReturn \/ LoggerDown
  BY <1>1 DEF LoggerInit, StopSchedule, StopReturn, LoggerDown, taskVars, passVars
<1>2. ASSUME NEW enable \in BOOLEAN, StartSchedule(enable) PROVE CleanInv'
  <2>1. /\ life' = "up" /\ bEnable' \in BOOLEAN /\ cleaned' = FALSE
        /\ bFirstProcess' = TRUE /\ firsts' = firsts + 1 /\ runner' = runner /\ pass' = pass
        /\ life = "mounting"
    BY <1>2 DEF StartSchedule, Rearm, Spawn, passVars
  <2>2. firsts' > 0 /\ runner' = "nobody"
    BY <2>1
  <2>3. QED
    BY <2>1, <2>2
<1>3. ASSUME NEW t \in Types, CloseFile(t) \/ Mount(t) \/ Rotate(t) PROVE CleanInv'
  BY <1>3 DEF CloseFile, Mount, Rotate, taskVars, passVars
<1>4. ASSUME NEW f \in DOMAIN disk, DoZipLog(f) PROVE CleanInv'
  BY <1>4 DEF DoZipLog, taskVars, passVars
<1>5. CASE Tick \/ TickerExit
  BY <1>5 DEF Tick, TickerExit, logVars, passVars
<1>6. CASE Begin("ticker") \/ Begin("first")
  <2>1. UNCHANGED <<life, bEnable, bFirstProcess, cleaned>>
    BY <1>6 DEF Begin, logVars
  <2>2. CASE ~bEnable
    <3>1. pass' = pass
      BY <1>6, <2>2 DEF Begin, passVars
    <3>2. QED
      BY <2>1, <2>2, <3>1
  <2>3. CASE bEnable
    <3>1. pass'.first = bFirstProcess
      BY <1>6, <2>3 DEF Begin, NoPass
    <3>2. runner' = "first" \/ (runner' = "ticker" /\ firsts' = firsts)
      BY <1>6, <2>3 DEF Begin
    <3>3. runner = "nobody"
      BY <1>6 DEF Begin
    <3>4. pass' = [first |-> pass'.first, inUse |-> pass'.inUse, listed |-> pass'.listed]
      BY <1>6, <2>3 DEF Begin, NoPass
    <3>5. QED
      BY <2>1, <2>3, <3>1, <3>2, <3>3, <3>4
  <2>4. QED
    BY <2>2, <2>3
<1>7. CASE collectInUseFiles \/ ProcessClearNonLog \/ enumerateLogFiles \/ CheckSizes
  <2>1. /\ UNCHANGED <<life, bEnable, bFirstProcess, firsts, runner, cleaned>>
        /\ pass'.first = pass.first
        /\ pass' = [first |-> pass'.first, inUse |-> pass'.inUse, listed |-> pass'.listed]
    BY <1>7 DEF collectInUseFiles, ProcessClearNonLog, enumerateLogFiles, CheckSizes,
                outside, logVars, taskVars
  <2>2. QED
    BY <2>1
<1>8. CASE EmptyDirectory \/ SkipSizes \/ DoneClear
  <2>1. /\ UNCHANGED <<life, bEnable, firsts>>
        /\ bFirstProcess' = FALSE /\ cleaned' = (cleaned \/ pass.first)
        /\ runner' = "nobody" /\ pass' = NoPass /\ runner # "nobody"
    BY <1>8 DEF EmptyDirectory, SkipSizes, DoneClear, End, logVars
  <2>2. cleaned' \in BOOLEAN /\ (pass.first => cleaned')
    BY <2>1
  <2>3. life \in {"up", "stopping"}
    BY <2>1
  <2>4. ~Owed'
    BY <2>1, <2>2, <2>3
  <2>5. QED
    BY <2>1, <2>2, <2>4 DEF NoPass
<1>9. ASSUME NEW k \in todo, RemoveExpired(k) \/ LimitTypeSize(k) PROVE CleanInv'
  <2>1. UNCHANGED <<life, bEnable, bFirstProcess, firsts, runner, pass, cleaned>>
    BY <1>9 DEF RemoveExpired, LimitTypeSize, outside, logVars, taskVars
  <2>2. QED
    BY <2>1
<1>10. CASE LimitCount \/ LimitAllSize
  <2>1. UNCHANGED <<life, bEnable, bFirstProcess, firsts, runner, pass, cleaned>>
    BY <1>10 DEF LimitCount, LimitAllSize, outside, logVars, taskVars
  <2>2. QED
    BY <2>1
<1>11. CASE UNCHANGED vars
  BY <1>11 DEF vars, logVars, taskVars, passVars
<1>12. QED
  BY <1>1, <1>2, <1>3, <1>4, <1>5, <1>6, <1>7, <1>8, <1>9, <1>10, <1>11
     DEF Next, LoggerStep, TaskStep, PassStep

-----------------------------------------------------------------------------
(* Sizes and orders of finite sets of files.                               *)

\* A set of natural numbers that is not empty has a least element.
LEMMA LeastPosition ==
  ASSUME NEW T \in SUBSET Nat, T # {}
  PROVE  \E m \in T : \A k \in T : m <= k
<1>1. PICK m \in T : \A k \in T : ~(<<k, m>> \in OpToRel(<, Nat))
  BY WFMin, NatLessThanWellFounded, Zenon
<1>2. \A k \in T : ~(k < m)
  BY <1>1, Zenon DEF OpToRel
<1>3. QED
  BY <1>2

\* Finitely many files have finitely many bytes ...
LEMMA SizeIsFinite ==
  ASSUME NEW S, IsFiniteSet(S), \A f \in S : pass.listed[f] \in Nat
  PROVE  IsFiniteSet(Bytes(S)) /\ Size(S) \in Nat
<1> DEFINE part == [f \in S |-> {f} \X (1..pass.listed[f])]
           Parts == {part[f] : f \in S}
<1>1. \A f \in S : IsFiniteSet(part[f])
  <2>1. ASSUME NEW f \in S PROVE IsFiniteSet({f} \X (1..pass.listed[f]))
    <3>1. IsFiniteSet({f})
      BY FS_Singleton
    <3>2. IsFiniteSet(1..pass.listed[f])
      BY FS_Interval
    <3>3. QED
      BY <3>1, <3>2, FS_Product
  <2>2. QED
    BY <2>1
<1>2. Bytes(S) = UNION Parts
  BY DEF Bytes
<1> HIDE DEF part
<1>3. part \in Surjection(S, Parts)
  <2>1. part = [f \in S |-> part[f]]
    BY DEF part
  <2>2. QED
    BY <2>1 DEF Surjection
<1>4. IsFiniteSet(Parts)
  BY <1>3, FS_Surjection
<1>5. QED
  BY <1>1, <1>2, <1>4, FS_UNION, FS_CardinalityType DEF Size

\* ... of which fewer files have no more ...
LEMMA SizeOfFewer ==
  ASSUME NEW S, NEW R \in SUBSET S, IsFiniteSet(S), \A f \in S : pass.listed[f] \in Nat
  PROVE  Size(R) \in Nat /\ Size(S) \in Nat /\ Size(R) <= Size(S)
<1>1. Bytes(R) \in SUBSET Bytes(S)
  BY DEF Bytes
<1>2. IsFiniteSet(Bytes(S)) /\ Size(S) \in Nat
  BY SizeIsFinite
<1>3. QED
  BY <1>1, <1>2, FS_Subset, FS_CardinalityType DEF Size

\* ... and what two parts have together.
LEMMA SizeOfParts ==
  ASSUME NEW S, NEW R \in SUBSET S, NEW D \in SUBSET S, R \cap D = {},
         IsFiniteSet(S), \A f \in S : pass.listed[f] \in Nat
  PROVE  /\ Size(R) \in Nat /\ Size(D) \in Nat /\ Size(S) \in Nat
         /\ Size(R) + Size(D) <= Size(S)
<1>1. IsFiniteSet(R) /\ IsFiniteSet(D) /\ IsFiniteSet(R \cup D)
  BY FS_Subset
<1>2. IsFiniteSet(Bytes(R)) /\ IsFiniteSet(Bytes(D)) /\ Size(R) \in Nat /\ Size(D) \in Nat
  BY <1>1, SizeIsFinite
<1>3. Bytes(R) \cup Bytes(D) = Bytes(R \cup D)
  BY DEF Bytes
<1>4. Bytes(R) \cap Bytes(D) = {}
  BY DEF Bytes
<1>5. Size(R \cup D) = Size(R) + Size(D) - Cardinality(Bytes(R) \cap Bytes(D))
  BY <1>2, <1>3, FS_Union DEF Size
<1>6. Cardinality(Bytes(R) \cap Bytes(D)) = 0
  BY <1>4, FS_EmptySet
<1>7. R \cup D \in SUBSET S
  OBVIOUS
<1>8. Size(R \cup D) <= Size(S) /\ Size(S) \in Nat
  BY <1>7, SizeOfFewer
<1>9. QED
  BY <1>2, <1>5, <1>6, <1>8

\* The files in the order of sort.Slice: each has one position.
LEMMA SortedIsOrder ==
  ASSUME NEW S, IsFiniteSet(S), NEW s \in sortByModTime(S)
  PROVE  s \in Bijection(1..Cardinality(S), S) /\ Cardinality(S) \in Nat
<1>1. Cardinality(S) \in Nat
  BY FS_CardinalityType
<1>2. s \in [1..Cardinality(S) -> S] /\ \A i, j \in 1..Cardinality(S) : i # j => s[i] # s[j]
  BY DEF sortByModTime, SetToSeqs
<1>3. s \in Injection(1..Cardinality(S), S)
  BY <1>2 DEF Injection, IsInjective
<1>4. Cardinality(1..Cardinality(S)) = Cardinality(S)
  BY <1>1, FS_Interval
<1>5. s \in Surjection(1..Cardinality(S), S)
  BY <1>3, <1>4, FS_Injection
<1>6. QED
  BY <1>1, <1>3, <1>5 DEF Bijection

\* Without its first files a group has only as many as may stay.
LEMMA CountFits ==
  ASSUME NEW G, IsFiniteSet(G), NEW s \in sortByModTime(G), NEW extra \in Nat,
         extra <= Cardinality(G),
         NEW R \in SUBSET G, \A f \in R : \A i \in 1..extra : s[i] # f
  PROVE  Cardinality(R) <= Cardinality(G) - extra
<1> DEFINE gone == {s[i] : i \in 1..extra}
           first == [i \in 1..extra |-> s[i]]
<1>1. s \in Bijection(1..Cardinality(G), G) /\ Cardinality(G) \in Nat
  BY SortedIsOrder
<1>2. s \in [1..Cardinality(G) -> G] /\ IsInjective(s) /\ DOMAIN s = 1..Cardinality(G)
  BY <1>1 DEF Bijection, Injection
<1>3. 1..extra \in SUBSET (1..Cardinality(G))
  BY <1>1
<1>4. first \in Bijection(1..extra, gone)
  <2>1. \A i, j \in 1..extra : first[i] = first[j] => i = j
    BY <1>2, <1>3 DEF IsInjective
  <2>2. first \in [1..extra -> gone] /\ \A f \in gone : \E i \in 1..extra : first[i] = f
    OBVIOUS
  <2>3. QED
    BY <2>1, <2>2 DEF Bijection, Injection, Surjection, IsInjective
<1>5. IsFiniteSet(1..extra) /\ Cardinality(1..extra) = extra
  BY FS_Interval
<1>6. IsFiniteSet(gone) /\ Cardinality(gone) = extra
  BY <1>4, <1>5, FS_Bijection DEF ExistsBijection
<1>7. R \cap gone = {} /\ R \cup gone \in SUBSET G
  BY <1>2, <1>3
<1> HIDE DEF gone
<1>8. IsFiniteSet(R) /\ Cardinality(R) \in Nat
  BY FS_Subset, FS_CardinalityType
<1>9. Cardinality(R \cup gone) = Cardinality(R) + extra - Cardinality(R \cap gone)
  BY <1>6, <1>8, FS_Union
<1>10. Cardinality(R \cap gone) = 0
  BY <1>7, FS_EmptySet
<1>11. Cardinality(R \cup gone) <= Cardinality(G)
  BY <1>7, FS_Subset
<1>12. QED
  BY <1>1, <1>8, <1>9, <1>10, <1>11

\* Without what exceeds the limit the rest of the files fits, but for what the
\* books are short of.
LEMMA SizeFits ==
  ASSUME NEW S \in SUBSET Listed, IsFiniteSet(S), \A f \in S : pass.listed[f] \in Nat,
         NEW s \in sortByModTime(S), NEW total \in Int, NEW limit \in Nat, NEW short \in Nat,
         Size(S \cap DOMAIN disk) <= total + short
  PROVE  Size((S \cap DOMAIN disk) \ Excess(s, total, limit)) <= limit + short
<1> DEFINE R == (S \cap DOMAIN disk) \ Excess(s, total, limit)
           Places == {i \in DOMAIN s : s[i] \in R}
<1>1. s \in Bijection(1..Cardinality(S), S) /\ Cardinality(S) \in Nat
  BY SortedIsOrder
<1>2. /\ s \in [1..Cardinality(S) -> S] /\ DOMAIN s = 1..Cardinality(S)
      /\ \A f \in S : \E i \in 1..Cardinality(S) : s[i] = f
  BY <1>1 DEF Bijection, Injection, Surjection
<1>3. CASE R = {}
  <2>1. Bytes(R) = {}
    BY <1>3 DEF Bytes
  <2>2. Size(R) = 0
    BY <2>1, FS_EmptySet DEF Size
  <2>3. QED
    BY <2>2
<1>4. CASE R # {}
  <2>1. PICK f \in R : TRUE
    BY <1>4
  <2>2. Places \in SUBSET Nat /\ Places # {}
    BY <1>2, <2>1
  <2>3. PICK i \in Places : \A h \in Places : i <= h
    BY <2>2, LeastPosition
  <2> DEFINE front == {s[h] : h \in 1..(i - 1)} \cap DOMAIN disk
  <2>4. i \in 1..Cardinality(S) /\ s[i] \in R /\ s[i] \in Listed
    BY <1>2
  <2>5. ~(total - Size(front) > limit)
    BY <1>2, <2>4 DEF Excess
  <2>6. \A h \in 1..(i - 1) : h \in DOMAIN s /\ s[h] \in S
    BY <1>1, <1>2, <2>4
  <2>7. front \in SUBSET (S \cap DOMAIN disk)
    BY <2>6
  <2>8. \A h \in 1..(i - 1) : s[h] \notin R
    BY <2>2, <2>3, <2>6
  <2>9. R \cap front = {} /\ R \in SUBSET (S \cap DOMAIN disk)
    BY <2>8
  <2>10. IsFiniteSet(S \cap DOMAIN disk)
    BY FS_Intersection
  <2> HIDE DEF front, R
  <2>11. /\ Size(R) \in Nat /\ Size(front) \in Nat /\ Size(S \cap DOMAIN disk) \in Nat
         /\ Size(R) + Size(front) <= Size(S \cap DOMAIN disk)
    BY <2>7, <2>9, <2>10, SizeOfParts
  <2>12. QED
    BY <2>5, <2>11 DEF R
<1>5. QED
  BY <1>3, <1>4

-----------------------------------------------------------------------------
(* The names of the files.                                                 *)

Seen == DOMAIN disk \cup Listed

\* Whatever is in the directory or on the list of a pass has a name of an
\* earlier moment than every rotation to come, and the file that an appender
\* has open in time mode has not been numbered yet.
CurrentNames ==
  \A t \in Types : current[t] # NoFile =>
    /\ clock > 1
    /\ mode = "append" => current[t] = Name(t, "fixed", 0)
    /\ mode = "time"   => \E m \in 0..(clock - 1) : current[t] = Name(t, "timed", m)

SeenNames ==
  \A f \in Seen :
    /\ f \in [type : Nat, form : Forms, moment : Nat]
    /\ f.moment < clock \/ f.moment <= 1
    /\ f.form = "numbered" =>
         /\ f.moment < clock
         /\ \A t \in Types : current[t] # Name(f.type, "timed", f.moment)

Names ==
  /\ mode \in {"append", "time"} /\ clock \in Nat /\ clock > 0
  /\ current = [t \in Types |-> current[t]]
  /\ CurrentNames
  /\ SeenNames

LEMMA NamesInit == Init => Names
<1> SUFFICES ASSUME Init PROVE Names
  OBVIOUS
<1>1. /\ mode \in {"append", "time"} /\ clock = 1 /\ disk \in Leftovers
      /\ current = [t \in Types |-> NoFile] /\ pass = NoPass
  BY CleanerAssumption DEF Init
<1>2. DOMAIN pass.listed = {}
  BY <1>1 DEF NoPass
<1>3. Seen = DOMAIN disk
  BY <1>2 DEF Seen, Listed
<1>4. \A f \in Seen : /\ f \in [type : Nat, form : Forms, moment : {0, 1}]
                      /\ f.form = "numbered" => f.moment = 0
  BY <1>1, <1>3, LeftoverAssumption
<1>5. ASSUME NEW f \in Seen, NEW t \in Types PROVE current[t] # Name(f.type, "timed", f.moment)
  BY <1>1, Named DEF Forms
<1>6. CurrentNames
  BY <1>1 DEF CurrentNames
<1>7. SeenNames
  BY <1>1, <1>4, <1>5 DEF SeenNames
<1>8. QED
  BY <1>1, <1>6, <1>7 DEF Names

\* The names that a new moment adds.
NewNames(new) ==
  \A f \in new :
    /\ f \in [type : Nat, form : Forms, moment : Nat]
    /\ f.moment < clock' \/ f.moment <= 1
    /\ f.form = "numbered" =>
         /\ f.moment < clock'
         /\ \A t \in Types : current'[t] # Name(f.type, "timed", f.moment)

LEMMA NamesGrow ==
  ASSUME Names, NEW new, Seen' \subseteq Seen \cup new, NewNames(new),
         UNCHANGED mode, clock' \in Nat, clock <= clock',
         current' = [t \in Types |-> current'[t]], CurrentNames',
         \A t \in Types : \/ current'[t] = current[t] \/ current'[t] = NoFile
                          \/ current'[t] = Name(t, "fixed", 0)
                          \/ current'[t] = Name(t, "timed", clock)
  PROVE  Names'
<1>1. /\ mode \in {"append", "time"} /\ clock \in Nat /\ clock > 0 /\ SeenNames
  BY DEF Names
<1>2. ASSUME NEW f \in Seen
      PROVE  /\ f \in [type : Nat, form : Forms, moment : Nat]
             /\ f.moment < clock' \/ f.moment <= 1
             /\ f.form = "numbered" => f.moment < clock'
  <2>1. /\ f \in [type : Nat, form : Forms, moment : Nat]
        /\ f.moment < clock \/ f.moment <= 1
        /\ f.form = "numbered" => f.moment < clock
    BY <1>1 DEF SeenNames
  <2>2. f.moment \in Nat
    BY <2>1
  <2>3. QED
    BY <1>1, <2>1, <2>2
<1>3. ASSUME NEW f \in Seen, f.form = "numbered", NEW t \in Types
      PROVE  current'[t] # Name(f.type, "timed", f.moment)
  <2>1. f.moment < clock /\ current[t] # Name(f.type, "timed", f.moment) /\ f.moment \in Nat
    BY <1>1, <1>3 DEF SeenNames
  <2>2. Name(t, "timed", clock) # Name(f.type, "timed", f.moment)
    <3>1. Name(t, "timed", clock).moment = clock /\ Name(f.type, "timed", f.moment).moment = f.moment
      BY DEF Name
    <3>2. QED
      BY <1>1, <2>1, <3>1
  <2>3. Name(t, "fixed", 0) # Name(f.type, "timed", f.moment)
    <3>1. Name(t, "fixed", 0).form = "fixed" /\ Name(f.type, "timed", f.moment).form = "timed"
      BY DEF Name
    <3>2. QED
      BY <3>1
  <2>4. NoFile # Name(f.type, "timed", f.moment)
    BY Named DEF Forms
  <2>5. QED
    BY <2>1, <2>2, <2>3, <2>4
<1>4. SeenNames'
  BY <1>2, <1>3 DEF SeenNames, NewNames
<1>5. QED
  BY <1>1, <1>4 DEF Names

\* What an appender has open, by the mode.
LEMMA OpenNames ==
  ASSUME Names, NEW t \in Types, current[t] # NoFile
  PROVE  \/ /\ mode = "append" /\ current[t] = Name(t, "fixed", 0)
            /\ ActiveName(t) = current[t] /\ RotatedName(t) = Name(t, "archive", clock)
         \/ /\ mode = "time" /\ ActiveName(t) = Name(t, "timed", clock)
            /\ \E m \in 0..(clock - 1) : /\ current[t] = Name(t, "timed", m)
                                         /\ RotatedName(t) = Name(t, "numbered", m)
<1>1. CASE mode = "append"
  BY <1>1 DEF Names, CurrentNames, ActiveName, RotatedName
<1>2. CASE mode = "time"
  <2>1. PICK m \in 0..(clock - 1) : current[t] = Name(t, "timed", m)
    BY <1>2 DEF Names, CurrentNames
  <2>2. [current[t] EXCEPT !.form = "numbered"] = Name(t, "numbered", m)
    BY <2>1 DEF Name
  <2>3. ActiveName(t) = Name(t, "timed", clock) /\ RotatedName(t) = Name(t, "numbered", m)
    BY <1>2, <2>2 DEF ActiveName, RotatedName
  <2>4. QED
    BY <1>2, <2>1, <2>3
<1>3. QED
  BY <1>1, <1>2 DEF Names

\* A rotation takes the open file away and adds two names.
LEMMA RotateAdds ==
  ASSUME NEW t \in Types, Rotate(t)
  PROVE  DOMAIN disk' = (DOMAIN disk \ {current[t]}) \cup {RotatedName(t), ActiveName(t)}
<1> DEFINE kept == With(Without(disk, {current[t]}), RotatedName(t), disk[current[t]])
<1>1. DOMAIN kept = (DOMAIN disk \ {current[t]}) \cup {RotatedName(t)}
  BY DEF With, Without
<1>2. disk' = Opened(kept, ActiveName(t))
  BY DEF Rotate
<1> HIDE DEF kept
<1>3. QED
  BY <1>1, <1>2, Remains

LEMMA MountNames ==
  ASSUME Names, NEW t \in Types, Mount(t)
  PROVE  Names'
<1>1. /\ UNCHANGED <<mode, pass>> /\ clock' = clock + 1
      /\ current' = [current EXCEPT ![t] = ActiveName(t)]
      /\ DOMAIN disk' = DOMAIN disk \cup {ActiveName(t)}
  BY Remains DEF Mount, passVars
<1>2. /\ mode \in {"append", "time"} /\ clock \in Nat /\ clock > 0
      /\ current = [u \in Types |-> current[u]] /\ t \in Nat
  BY CleanerAssumption DEF Names
<1> DEFINE name == ActiveName(t)
<1>3. /\ mode = "append" => name = Name(t, "fixed", 0)
      /\ mode = "time" => name = Name(t, "timed", clock)
  BY DEF ActiveName
<1> HIDE DEF name
<1>4. /\ name \in [type : Nat, form : Forms, moment : Nat]
      /\ name.moment < clock' \/ name.moment <= 1
      /\ name.form # "numbered"
  BY <1>1, <1>2, <1>3 DEF Name, Forms
<1>5. NewNames({name})
  BY <1>4 DEF NewNames
<1>6. Seen' \subseteq Seen \cup {name}
  BY <1>1 DEF Seen, Listed, name
<1>7. /\ current' = [u \in Types |-> current'[u]] /\ current'[t] = name
      /\ \A u \in Types : u # t => current'[u] = current[u]
  BY <1>1, <1>2 DEF name
<1>8. CurrentNames'
  <2>1. ASSUME NEW u \in Types, current'[u] # NoFile
        PROVE  /\ clock' > 1
               /\ mode' = "append" => current'[u] = Name(u, "fixed", 0)
               /\ mode' = "time"   => \E m \in 0..(clock' - 1) : current'[u] = Name(u, "timed", m)
    <3>1. CASE u = t
      <4>1. clock \in 0..(clock' - 1) /\ clock' > 1
        BY <1>1, <1>2
      <4>2. QED
        BY <1>1, <1>3, <1>7, <3>1, <4>1
    <3>2. CASE u # t
      <4>1. current'[u] = current[u] /\ mode' = mode
        BY <1>1, <1>7, <3>2
      <4>2. /\ clock > 1
            /\ mode = "append" => current[u] = Name(u, "fixed", 0)
            /\ mode = "time"   => \E m \in 0..(clock - 1) : current[u] = Name(u, "timed", m)
        BY <2>1, <4>1 DEF Names, CurrentNames
      <4>3. \A m \in 0..(clock - 1) : m \in 0..(clock' - 1)
        BY <1>1, <1>2
      <4>4. clock' > 1
        BY <1>1, <1>2
      <4>5. QED
        BY <4>1, <4>2, <4>3, <4>4
    <3>3. QED
      BY <3>1, <3>2
  <2>2. QED
    BY <2>1 DEF CurrentNames
<1>9. \A u \in Types : \/ current'[u] = current[u]
                       \/ current'[u] = Name(u, "fixed", 0)
                       \/ current'[u] = Name(u, "timed", clock)
  BY <1>2, <1>3, <1>7
<1>10. QED
  BY <1>1, <1>2, <1>5, <1>6, <1>7, <1>8, <1>9, NamesGrow

LEMMA RotateNames ==
  ASSUME Names, NEW t \in Types, Rotate(t)
  PROVE  Names'
<1>1. /\ UNCHANGED <<mode, pass>> /\ clock' = clock + 1
      /\ current' = [current EXCEPT ![t] = ActiveName(t)]
      /\ current[t] \in DOMAIN disk
  BY DEF Rotate, passVars
<1>2. /\ mode \in {"append", "time"} /\ clock \in Nat /\ clock > 0
      /\ current = [u \in Types |-> current[u]] /\ t \in Nat
  BY CleanerAssumption DEF Names
<1>3. current[t] # NoFile
  <2>1. current[t].form \in Forms
    BY <1>1 DEF Names, SeenNames, Seen
  <2>2. NoFile.form = "none"
    BY DEF NoFile, Name
  <2>3. QED
    BY <2>1, <2>2 DEF Forms
<1> DEFINE new == {RotatedName(t), ActiveName(t)}
<1>4. Seen' \subseteq Seen \cup new
  BY <1>1, RotateAdds DEF Seen, Listed
<1>5. clock > 1
  BY <1>3 DEF Names, CurrentNames
<1>6. /\ current' = [u \in Types |-> current'[u]] /\ current'[t] = ActiveName(t)
      /\ \A u \in Types : u # t => current'[u] = current[u]
  BY <1>1, <1>2
<1>7. ASSUME NEW u \in Types, current'[u] # NoFile, u # t
      PROVE  /\ mode = "append" => current'[u] = Name(u, "fixed", 0)
             /\ mode = "time"   => \E m \in 0..(clock' - 1) : current'[u] = Name(u, "timed", m)
  <2>1. current'[u] = current[u]
    BY <1>6, <1>7
  <2>2. /\ mode = "append" => current[u] = Name(u, "fixed", 0)
        /\ mode = "time"   => \E m \in 0..(clock - 1) : current[u] = Name(u, "timed", m)
    BY <1>7, <2>1 DEF Names, CurrentNames
  <2>3. \A m \in 0..(clock - 1) : m \in 0..(clock' - 1)
    BY <1>1, <1>2
  <2>4. QED
    BY <2>1, <2>2, <2>3
<1>8. CASE mode = "append"
  <2>1. /\ current[t] = Name(t, "fixed", 0) /\ ActiveName(t) = current[t]
        /\ RotatedName(t) = Name(t, "archive", clock)
    BY <1>3, <1>8, OpenNames
  <2>2. current' = current
    BY <1>1, <1>2, <2>1
  <2>3. CurrentNames'
    <3>1. clock' > 1 /\ mode' = "append"
      BY <1>1, <1>2, <1>8
    <3>2. QED
      BY <1>8, <2>2, <3>1 DEF Names, CurrentNames
  <2>4. NewNames(new)
    <3>1. \A f \in new : f = Name(t, "fixed", 0) \/ f = Name(t, "archive", clock)
      BY <2>1
    <3> HIDE DEF new
    <3>2. \A f \in new : /\ f \in [type : Nat, form : Forms, moment : Nat]
                         /\ f.moment = 0 \/ f.moment = clock
                         /\ f.form # "numbered"
      BY <1>2, <3>1 DEF Name, Forms
    <3>3. clock < clock' /\ 0 < clock'
      BY <1>1, <1>2
    <3>4. QED
      BY <3>2, <3>3 DEF NewNames
  <2>5. clock' \in Nat /\ clock <= clock'
    BY <1>1, <1>2
  <2>6. QED
    BY <1>1, <1>2, <1>4, <2>2, <2>3, <2>4, <2>5, NamesGrow
<1>9. CASE mode = "time"
  <2>1. PICK m \in 0..(clock - 1) : /\ current[t] = Name(t, "timed", m)
                                    /\ RotatedName(t) = Name(t, "numbered", m)
    BY <1>3, <1>9, OpenNames
  <2>2. ActiveName(t) = Name(t, "timed", clock)
    BY <1>9 DEF ActiveName
  <2>3. m \in Nat /\ m < clock /\ m < clock' /\ clock < clock' /\ clock \in 0..(clock' - 1) /\ clock' > 1
    BY <1>1, <1>2
  <2>4. CurrentNames'
    <3>1. mode' = "time"
      BY <1>1, <1>9
    <3>2. \E h \in 0..(clock' - 1) : current'[t] = Name(t, "timed", h)
      BY <1>6, <2>2, <2>3
    <3>3. QED
      BY <1>7, <1>9, <2>3, <3>1, <3>2 DEF CurrentNames
  <2>5. ASSUME NEW u \in Types PROVE current'[u] # Name(t, "timed", m)
    <3>1. Name(t, "timed", clock) # Name(t, "timed", m)
      <4>1. Name(t, "timed", clock).moment = clock /\ Name(t, "timed", m).moment = m
        BY DEF Name
      <4>2. QED
        BY <2>3, <4>1
    <3>2. CASE u = t
      BY <1>6, <2>2, <3>1, <3>2
    <3>3. CASE u # t /\ current'[u] # NoFile
      <4>1. PICK h \in 0..(clock' - 1) : current'[u] = Name(u, "timed", h)
        BY <1>7, <1>9, <3>3
      <4>2. Name(u, "timed", h).type = u /\ Name(t, "timed", m).type = t
        BY DEF Name
      <4>3. QED
        BY <3>3, <4>1, <4>2
    <3>4. CASE current'[u] = NoFile
      BY <3>4, Named DEF Forms
    <3>5. QED
      BY <3>2, <3>3, <3>4
  <2>6. NewNames(new)
    <3>1. /\ RotatedName(t) \in [type : Nat, form : Forms, moment : Nat]
          /\ RotatedName(t).moment = m /\ RotatedName(t).type = t
      BY <1>2, <2>1, <2>3 DEF Name, Forms
    <3>2. /\ ActiveName(t) \in [type : Nat, form : Forms, moment : Nat]
          /\ ActiveName(t).moment = clock /\ ActiveName(t).form = "timed"
      BY <1>2, <2>2 DEF Name, Forms
    <3>3. QED
      BY <2>3, <2>5, <3>1, <3>2 DEF NewNames
  <2>7. \A u \in Types : current'[u] = current[u] \/ current'[u] = Name(u, "timed", clock)
    BY <1>6, <2>2
  <2>8. clock' \in Nat /\ clock <= clock'
    BY <1>1, <1>2
  <2>9. QED
    BY <1>1, <1>4, <1>6, <2>4, <2>6, <2>7, <2>8, NamesGrow
<1>10. QED
  BY <1>2, <1>8, <1>9

LEMMA ZipNames ==
  ASSUME Names, NEW f \in DOMAIN disk, DoZipLog(f)
  PROVE  Names'
<1>1. /\ UNCHANGED <<mode, current, pass>> /\ clock' = clock + 1
      /\ DOMAIN disk' = DOMAIN disk \cup {[f EXCEPT !.form = "package"]}
  BY Remains DEF DoZipLog, passVars
<1>2. clock \in Nat
  BY DEF Names
<1> DEFINE package == [f EXCEPT !.form = "package"]
<1>3. f \in [type : Nat, form : Forms, moment : Nat] /\ (f.moment < clock \/ f.moment <= 1)
  BY DEF Names, SeenNames, Seen
<1>4. /\ package \in [type : Nat, form : Forms, moment : Nat]
      /\ package.moment = f.moment /\ package.form = "package"
  BY <1>3 DEF Forms
<1>5. Seen' \subseteq Seen \cup {package}
  BY <1>1 DEF Seen, Listed
<1> HIDE DEF package
<1>6. f.moment < clock' \/ f.moment <= 1
  BY <1>1, <1>2, <1>3
<1>7. NewNames({package})
  BY <1>4, <1>6 DEF NewNames
<1>8. clock' \in Nat /\ clock <= clock' /\ (clock > 1 => clock' > 1)
  BY <1>1, <1>2
<1>9. CurrentNames'
  <2>1. \A m \in 0..(clock - 1) : m \in 0..(clock' - 1)
    BY <1>1, <1>2
  <2>2. QED
    BY <1>1, <1>8, <2>1 DEF Names, CurrentNames
<1>10. current' = [t \in Types |-> current'[t]]
  BY <1>1 DEF Names
<1>11. QED
  BY <1>1, <1>5, <1>7, <1>8, <1>9, <1>10, NamesGrow

\* Every other step adds no name.
LEMMA NoNewNames ==
  ASSUME Names, Seen' \subseteq Seen, UNCHANGED <<mode, clock>>,
         \/ current' = current
         \/ \E t \in Types : current' = [current EXCEPT ![t] = NoFile]
  PROVE  Names'
<1>1. NewNames({})
  BY DEF NewNames
<1>2. /\ current' = [t \in Types |-> current'[t]]
      /\ \A t \in Types : current'[t] = current[t] \/ current'[t] = NoFile
  BY DEF Names
<1>3. CurrentNames'
  BY <1>2 DEF Names, CurrentNames
<1>4. clock' \in Nat /\ clock <= clock' /\ mode' = mode
  BY DEF Names
<1>5. Seen' \subseteq Seen \cup {}
  OBVIOUS
<1>6. QED
  BY <1>1, <1>2, <1>3, <1>4, <1>5, NamesGrow

\* A pass adds no name, and lists what is there.
LEMMA PassNames ==
  ASSUME PassStep
  PROVE  /\ UNCHANGED <<mode, clock, current>>
         /\ DOMAIN disk' \subseteq DOMAIN disk
         /\ Seen' \subseteq Seen
<1> USE DEF Seen, Listed
<1>1. CASE collectInUseFiles
  BY <1>1 DEF collectInUseFiles, outside, logVars
<1>2. CASE enumerateLogFiles
  BY <1>2 DEF enumerateLogFiles, Logs, outside, logVars
<1>3. CASE EmptyDirectory \/ SkipSizes \/ DoneClear
  BY <1>3 DEF EmptyDirectory, SkipSizes, DoneClear, End, NoPass, logVars
<1>4. ASSUME NEW policy, NEW gone, Delete(policy, gone) PROVE DOMAIN disk' \subseteq DOMAIN disk
  BY <1>4 DEF Delete, Without
<1>5. CASE ProcessClearNonLog
  BY <1>4, <1>5 DEF ProcessClearNonLog, outside, logVars
<1>6. ASSUME NEW k \in todo, RemoveExpired(k) \/ LimitTypeSize(k)
      PROVE  /\ UNCHANGED <<mode, clock, current, pass>>
             /\ DOMAIN disk' \subseteq DOMAIN disk
  BY <1>4, <1>6 DEF RemoveExpired, LimitTypeSize, LimitSize, outside, logVars
<1>7. CASE LimitCount
  BY <1>4, <1>7 DEF LimitCount, outside, logVars
<1>8. CASE LimitAllSize
  BY <1>4, <1>8 DEF LimitAllSize, LimitSize, outside, logVars
<1>9. CASE CheckSizes
  BY <1>9 DEF CheckSizes, outside, logVars
<1>10. QED
  BY <1>1, <1>2, <1>3, <1>5, <1>6, <1>7, <1>8, <1>9 DEF PassStep

LEMMA NamesStep == Names /\ [Next]_vars => Names'
<1> SUFFICES ASSUME Names, [Next]_vars PROVE Names'
  OBVIOUS
<1>1. CASE LoggerInit \/ StopSchedule \/ StopReturn \/ LoggerDown
  BY <1>1, NoNewNames DEF LoggerInit, StopSchedule, StopReturn, LoggerDown, passVars, Seen, Listed
<1>2. ASSUME NEW enable \in BOOLEAN, StartSchedule(enable) PROVE Names'
  BY <1>2, NoNewNames DEF StartSchedule, passVars, Seen, Listed
<1>3. ASSUME NEW t \in Types, CloseFile(t) PROVE Names'
  BY <1>3, NoNewNames DEF CloseFile, passVars, Seen, Listed
<1>4. ASSUME NEW t \in Types, Mount(t) \/ Rotate(t) PROVE Names'
  BY <1>4, MountNames, RotateNames
<1>5. ASSUME NEW f \in DOMAIN disk, DoZipLog(f) PROVE Names'
  BY <1>5, ZipNames
<1>6. CASE Tick \/ TickerExit
  BY <1>6, NoNewNames DEF Tick, TickerExit, logVars, passVars, Seen, Listed
<1>7. CASE Begin("ticker") \/ Begin("first")
  <2>1. UNCHANGED <<mode, clock, current, disk>>
    BY <1>7 DEF Begin, logVars
  <2>2. DOMAIN pass'.listed \subseteq DOMAIN pass.listed
    <3>1. pass' = pass \/ pass' = [NoPass EXCEPT !.first = bFirstProcess]
      BY <1>7 DEF Begin, passVars
    <3>2. DOMAIN [NoPass EXCEPT !.first = bFirstProcess].listed = {}
      BY DEF NoPass
    <3>3. QED
      BY <3>1, <3>2
  <2>3. QED
    BY <2>1, <2>2, NoNewNames DEF Seen, Listed
<1>8. CASE PassStep
  BY <1>8, PassNames, NoNewNames
<1>9. CASE UNCHANGED vars
  BY <1>9, NoNewNames DEF vars, logVars, passVars, Seen, Listed
<1>10. QED
  BY <1>1, <1>2, <1>3, <1>4, <1>5, <1>6, <1>7, <1>8, <1>9 DEF Next, LoggerStep, TaskStep

-----------------------------------------------------------------------------
(* The sizes of the files.                                                 *)

Measured(d) == IsFiniteSet(DOMAIN d) /\ \A f \in DOMAIN d : d[f].size \in Nat

\* The directory and the list of the pass are finite, with sizes.
Sizes ==
  /\ Measured(disk)
  /\ IsFiniteSet(Listed) /\ \A f \in Listed : pass.listed[f] \in Nat

LEMMA MeasuredWith ==
  ASSUME NEW d, Measured(d), NEW f, NEW stat, stat.size \in Nat
  PROVE  Measured(With(d, f, stat))
<1>1. IsFiniteSet(DOMAIN d \cup {f})
  BY FS_AddElement DEF Measured
<1>2. QED
  BY <1>1 DEF Measured, With

LEMMA MeasuredWithout ==
  ASSUME NEW d, Measured(d), NEW gone
  PROVE  Measured(Without(d, gone))
<1>1. IsFiniteSet(DOMAIN d \ gone)
  BY FS_Difference DEF Measured
<1>2. QED
  BY <1>1 DEF Measured, Without

LEMMA MeasuredOpened ==
  ASSUME NEW d, Measured(d), NEW f
  PROVE  Measured(Opened(d, f))
<1>1. Measured(With(d, f, [written |-> clock, size |-> 1]))
  BY MeasuredWith
<1>2. QED
  BY <1>1 DEF Opened

LEMMA MeasuredDelete ==
  ASSUME Measured(disk), NEW policy, NEW gone, Delete(policy, gone)
  PROVE  Measured(disk')
BY MeasuredWithout DEF Delete

LEMMA SizesInit == Init => Sizes
<1> SUFFICES ASSUME Init PROVE Sizes
  OBVIOUS
<1>1. disk \in Leftovers /\ pass = NoPass
  BY DEF Init
<1>2. Measured(disk)
  BY <1>1, LeftoverAssumption DEF Measured
<1>3. Listed = {}
  BY <1>1 DEF Listed, NoPass
<1>4. QED
  BY <1>2, <1>3, FS_EmptySet DEF Sizes

LEMMA SizesKept ==
  ASSUME Sizes, Measured(disk'), pass' = pass
  PROVE  Sizes'
BY DEF Sizes, Listed, Measured

LEMMA SizesNoList ==
  ASSUME Sizes, disk' = disk, DOMAIN pass'.listed = {}
  PROVE  Sizes'
BY FS_EmptySet DEF Sizes, Listed, Measured

LEMMA SizesStep == CleanInv /\ Sizes /\ [Next]_vars => Sizes'
<1> SUFFICES ASSUME CleanInv, Sizes, [Next]_vars PROVE Sizes'
  OBVIOUS
<1>0. Measured(disk)
  BY DEF Sizes
<1>1. CASE LoggerInit \/ StopSchedule \/ StopReturn \/ LoggerDown
  BY <1>0, <1>1, SizesKept DEF LoggerInit, StopSchedule, StopReturn, LoggerDown, passVars
<1>2. ASSUME NEW enable \in BOOLEAN, StartSchedule(enable) PROVE Sizes'
  BY <1>0, <1>2, SizesKept DEF StartSchedule, passVars
<1>3. ASSUME NEW t \in Types, CloseFile(t) PROVE Sizes'
  BY <1>0, <1>3, SizesKept DEF CloseFile, passVars
<1>4. ASSUME NEW t \in Types, Mount(t) PROVE Sizes'
  BY <1>0, <1>4, SizesKept, MeasuredOpened DEF Mount, passVars
<1>5. ASSUME NEW t \in Types, Rotate(t) PROVE Sizes'
  <2> DEFINE kept == With(Without(disk, {current[t]}), RotatedName(t), disk[current[t]])
  <2>1. current[t] \in DOMAIN disk /\ disk' = Opened(kept, ActiveName(t)) /\ pass' = pass
    BY <1>5 DEF Rotate, passVars
  <2>2. disk[current[t]].size \in Nat
    BY <1>0, <2>1 DEF Measured
  <2>3. Measured(Without(disk, {current[t]}))
    BY <1>0, MeasuredWithout
  <2>4. Measured(kept)
    BY <2>2, <2>3, MeasuredWith
  <2> HIDE DEF kept
  <2>5. Measured(Opened(kept, ActiveName(t)))
    BY <2>4, MeasuredOpened
  <2>6. QED
    BY <2>1, <2>5, SizesKept
<1>6. ASSUME NEW f \in DOMAIN disk, DoZipLog(f) PROVE Sizes'
  <2>1. Measured(With(disk, [f EXCEPT !.form = "package"], [written |-> clock, size |-> 1]))
    BY <1>0, MeasuredWith
  <2>2. QED
    BY <1>6, <2>1, SizesKept DEF DoZipLog, passVars
<1>7. CASE Tick \/ TickerExit
  BY <1>0, <1>7, SizesKept DEF Tick, TickerExit, logVars, passVars
<1>8. CASE Begin("ticker") \/ Begin("first")
  <2>1. disk' = disk /\ (pass' = pass \/ pass' = [NoPass EXCEPT !.first = bFirstProcess])
    BY <1>8 DEF Begin, passVars
  <2>2. DOMAIN [NoPass EXCEPT !.first = bFirstProcess].listed = {}
    BY DEF NoPass
  <2>3. QED
    BY <1>0, <2>1, <2>2, SizesKept, SizesNoList
<1>9. CASE collectInUseFiles
  <2>1. pass'.listed = pass.listed /\ disk' = disk
    BY <1>9 DEF collectInUseFiles, CleanInv
  <2>2. QED
    BY <2>1 DEF Sizes, Listed, Measured
<1>10. CASE enumerateLogFiles
  <2>1. pass'.listed = [f \in Logs \ pass.inUse |-> disk[f].size] /\ disk' = disk
    BY <1>10 DEF enumerateLogFiles, CleanInv
  <2>2. Logs \ pass.inUse \in SUBSET DOMAIN disk
    BY DEF Logs
  <2>3. IsFiniteSet(Logs \ pass.inUse)
    BY <1>0, <2>2, FS_Subset DEF Measured
  <2>4. QED
    BY <1>0, <2>1, <2>2, <2>3 DEF Sizes, Listed, Measured
<1>11. CASE EmptyDirectory \/ SkipSizes \/ DoneClear
  <2>1. disk' = disk /\ pass' = NoPass
    BY <1>11 DEF EmptyDirectory, SkipSizes, DoneClear, End
  <2>2. QED
    BY <2>1, SizesNoList DEF NoPass
<1>12. CASE ProcessClearNonLog
  BY <1>0, <1>12, MeasuredDelete, SizesKept DEF ProcessClearNonLog
<1>13. ASSUME NEW k \in todo, RemoveExpired(k) PROVE Sizes'
  BY <1>0, <1>13, MeasuredDelete, SizesKept DEF RemoveExpired
<1>14. ASSUME NEW k \in todo, LimitTypeSize(k) PROVE Sizes'
  BY <1>0, <1>14, MeasuredDelete, SizesKept DEF LimitTypeSize, LimitSize
<1>15. CASE LimitCount
  BY <1>0, <1>15, MeasuredDelete, SizesKept DEF LimitCount
<1>16. CASE LimitAllSize
  BY <1>0, <1>16, MeasuredDelete, SizesKept DEF LimitAllSize, LimitSize
<1>17. CASE CheckSizes
  BY <1>0, <1>17, SizesKept DEF CheckSizes
<1>18. CASE UNCHANGED vars
  BY <1>0, <1>18, SizesKept DEF vars, passVars
<1>19. QED
  BY <1>1, <1>2, <1>3, <1>4, <1>5, <1>6, <1>7, <1>8, <1>9, <1>10, <1>11, <1>12, <1>13,
     <1>14, <1>15, <1>16, <1>17, <1>18 DEF Next, LoggerStep, TaskStep, PassStep

-----------------------------------------------------------------------------
(* What a full pass has done so far.                                       *)

Selecting == phase \in {"expire", "count", "size", "done"}
Keys      == {typeKey(f) : f \in Listed}

\* The groups that have been counted, and those whose size has been treated.
Treated == {k \in Keys : /\ phase = "expire" => k \notin todo
                         /\ phase = "count" => k \notin todo /\ k # group}
Fitting == {k \in Keys : phase = "done" \/ (phase = "size" /\ k \notin todo)}

Limited ==
  /\ \A k \in Treated : Cardinality(Left(Group(k)) \ Refused("count")) <= CountLimit
  /\ \A k \in Fitting : Size(Left(Group(k)) \ Refused("type")) <= TypeLimit + Overdrawn(k)
  /\ phase = "done" => Size(Left(Listed) \ Refused("all")) <= AllLimit

\* What a pass has removed of its list stays away, so that a limit that has
\* been reached stays reached.
Tidy ==
  /\ ~Selecting => \A f \in removed : ~IsLog(f)
  /\ Selecting => removed \cap Left(Listed) = {} /\ \A f \in Listed : IsLog(f)
  /\ Selecting /\ pass.first => Limited

LEMMA TidyInit == Init => Tidy
BY DEF Init, Tidy, Selecting

\* Of what is listed nothing comes back: a rotation, and a package, take new
\* names, and no appender is mounted while a pass runs.
LEMMA GoneStaysGone ==
  ASSUME OrderlyUse, Housed, Names, Tidy, Selecting,
         \/ LoggerInit \/ StopSchedule \/ LoggerStep
         \/ \E t \in Types : Mount(t) \/ Rotate(t)
         \/ \E f \in DOMAIN disk : DoZipLog(f)
         \/ Tick \/ TickerExit
  PROVE  UNCHANGED passVars /\ Listed \cap DOMAIN disk' \subseteq DOMAIN disk
<1>1. life \in {"up", "stopping"}
  BY DEF Housed, Selecting, Stages, Phases
<1>2. CASE LoggerInit \/ StopSchedule \/ StopReturn \/ LoggerDown
  BY <1>2 DEF LoggerInit, StopSchedule, StopReturn, LoggerDown
<1>3. ASSUME NEW enable \in BOOLEAN, StartSchedule(enable) PROVE FALSE
  BY <1>1, <1>3 DEF StartSchedule
<1>4. ASSUME NEW t \in Types, CloseFile(t) \/ Mount(t) PROVE FALSE
  BY <1>1, <1>4 DEF CloseFile, Mount
<1>5. ASSUME NEW t \in Types, Rotate(t)
      PROVE  UNCHANGED passVars /\ Listed \cap DOMAIN disk' \subseteq DOMAIN disk
  <2>1. UNCHANGED passVars /\ current[t] \in DOMAIN disk
    BY <1>5 DEF Rotate
  <2>2. DOMAIN disk' = (DOMAIN disk \ {current[t]}) \cup {RotatedName(t), ActiveName(t)}
    BY <1>5, RotateAdds
  <2>3. clock \in Nat /\ clock > 0 /\ current[t] # NoFile
    <3>1. current[t].form \in Forms
      BY <2>1 DEF Names, SeenNames, Seen
    <3>2. NoFile.form = "none"
      BY DEF NoFile, Name
    <3>3. QED
      BY <3>1, <3>2 DEF Names, Forms
  <2>4. clock > 1
    BY <2>3 DEF Names, CurrentNames
  <2>5. \A f \in Listed : f.moment # clock
    <3>1. \A f \in Listed : f.moment \in Nat /\ (f.moment < clock \/ f.moment <= 1)
      BY DEF Names, SeenNames, Seen
    <3>2. QED
      BY <2>3, <2>4, <3>1
  <2>6. CASE mode = "append"
    <3>1. ActiveName(t) = current[t] /\ RotatedName(t) = Name(t, "archive", clock)
      BY <2>3, <2>6, OpenNames
    <3>2. Name(t, "archive", clock).moment = clock
      BY DEF Name
    <3>3. RotatedName(t) \notin Listed
      BY <2>5, <3>1, <3>2
    <3>4. QED
      BY <2>1, <2>2, <3>1, <3>3
  <2>7. CASE mode = "time"
    <3>1. PICK m \in 0..(clock - 1) : /\ current[t] = Name(t, "timed", m)
                                      /\ RotatedName(t) = Name(t, "numbered", m)
      BY <2>3, <2>7, OpenNames
    <3>2. ActiveName(t) = Name(t, "timed", clock)
      BY <2>7 DEF ActiveName
    <3>3. Name(t, "timed", clock).moment = clock
      BY DEF Name
    <3>4. ActiveName(t) \notin Listed
      BY <2>5, <3>2, <3>3
    <3>5. RotatedName(t) \notin Listed
      <4>1. \A f \in Listed : f.form = "numbered" => current[t] # Name(f.type, "timed", f.moment)
        BY DEF Names, SeenNames, Seen
      <4>2. /\ Name(t, "numbered", m).form = "numbered"
            /\ Name(t, "numbered", m).type = t
            /\ Name(t, "numbered", m).moment = m
        BY DEF Name
      <4>3. QED
        BY <3>1, <4>1, <4>2
    <3>6. QED
      BY <2>1, <2>2, <3>4, <3>5
  <2>8. QED
    BY <2>6, <2>7 DEF Names
<1>6. ASSUME NEW f \in DOMAIN disk, DoZipLog(f)
      PROVE  UNCHANGED passVars /\ Listed \cap DOMAIN disk' \subseteq DOMAIN disk
  <2>1. UNCHANGED passVars /\ DOMAIN disk' = DOMAIN disk \cup {[f EXCEPT !.form = "package"]}
    BY <1>6, Remains DEF DoZipLog
  <2>2. f \in [type : Nat, form : Forms, moment : Nat]
    BY DEF Names, SeenNames, Seen
  <2>3. ~IsLog([f EXCEPT !.form = "package"])
    BY <2>2 DEF IsLog
  <2>4. \A g \in Listed : IsLog(g)
    BY DEF Tidy
  <2>5. QED
    BY <2>1, <2>3, <2>4
<1>7. CASE Tick \/ TickerExit
  BY <1>7 DEF Tick, TickerExit
<1>8. QED
  BY <1>2, <1>3, <1>4, <1>5, <1>6, <1>7 DEF LoggerStep

\* While the list stays, the groups stay.
LEMMA SameGroups ==
  ASSUME pass' = pass
  PROVE  Listed' = Listed /\ Keys' = Keys /\ \A k : Group(k)' = Group(k)
<1>1. Listed' = Listed
  BY DEF Listed
<1>2. QED
  BY <1>1 DEF Keys, Group

\* The listed sizes are those of the list, and some files have no more than all.
LEMMA SizeOfSome ==
  ASSUME Sizes, pass' = pass, NEW CONSTANT S, S \in SUBSET Listed,
         NEW CONSTANT R, R \in SUBSET S
  PROVE  /\ IsFiniteSet(S) /\ IsFiniteSet(R)
         /\ Size(S) \in Nat /\ Size(R) \in Nat /\ Size(R) <= Size(S)
         /\ Size(S)' = Size(S) /\ Size(R)' = Size(R)
<1>1. IsFiniteSet(Listed) /\ \A f \in Listed : pass.listed[f] \in Nat
  BY DEF Sizes
<1>2. IsFiniteSet(S) /\ \A f \in S : pass.listed[f] \in Nat
  BY <1>1, FS_Subset
<1>3. IsFiniteSet(R)
  BY <1>2, FS_Subset
<1>4. Size(S) \in Nat /\ Size(R) \in Nat /\ Size(R) <= Size(S)
  BY <1>2, SizeOfFewer
<1>5. Size(S)' = Size(S) /\ Size(R)' = Size(R)
  BY DEF Size, Bytes
<1>6. QED
  BY <1>2, <1>3, <1>4, <1>5

\* While files only go, and refusals only come, what a policy answers for does
\* not grow.
LEMMA NothingGrows ==
  ASSUME Sizes, pass' = pass, Listed \cap DOMAIN disk' \subseteq DOMAIN disk,
         refused \subseteq refused', NEW CONSTANT S, S \in SUBSET Listed, NEW CONSTANT policy
  PROVE  /\ Cardinality(Left(S) \ Refused(policy)) \in Nat
         /\ Cardinality(Left(S) \ Refused(policy))' \in Nat
         /\ Cardinality(Left(S) \ Refused(policy))' <= Cardinality(Left(S) \ Refused(policy))
         /\ Size(Left(S) \ Refused(policy)) \in Nat
         /\ Size(Left(S) \ Refused(policy))' \in Nat
         /\ Size(Left(S) \ Refused(policy))' <= Size(Left(S) \ Refused(policy))
<1> PICK Q : Q = Left(S) \ Refused(policy)
  OBVIOUS
<1> PICK R : R = (Left(S) \ Refused(policy))'
  OBVIOUS
<1>1. Listed' = Listed
  BY SameGroups
<1>2. Refused(policy) \subseteq Refused(policy)'
  BY <1>1 DEF Refused
<1>3. Left(S)' \subseteq Left(S)
  BY DEF Left
<1>4. R \in SUBSET Q /\ Q \in SUBSET Listed
  BY <1>2, <1>3 DEF Left
<1>5. /\ IsFiniteSet(Q) /\ IsFiniteSet(R)
      /\ Size(Q) \in Nat /\ Size(R) \in Nat /\ Size(R) <= Size(Q) /\ Size(R)' = Size(R)
  BY <1>4, SizeOfSome
<1>6. Cardinality(Q) \in Nat /\ Cardinality(R) \in Nat /\ Cardinality(R) <= Cardinality(Q)
  BY <1>4, <1>5, FS_Subset, FS_CardinalityType
<1>7. Size(Left(S) \ Refused(policy))' = Size(R)'
  BY DEF Size, Bytes
<1>8. QED
  BY <1>5, <1>6, <1>7

\* ... and the books do not recover.
LEMMA BooksWorsen ==
  ASSUME Sizes, pass' = pass, refused \subseteq refused', NEW CONSTANT k
  PROVE  Overdrawn(k) \in Nat /\ Overdrawn(k)' \in Nat /\ Overdrawn(k) <= Overdrawn(k)'
<1>1. ASSUME NEW CONSTANT policy
      PROVE  /\ Size(Group(k) \cap Refused(policy)) \in Nat
             /\ Size(Group(k) \cap Refused(policy))' \in Nat
             /\ Size(Group(k) \cap Refused(policy)) <= Size(Group(k) \cap Refused(policy))'
  <2> PICK R : R = Group(k) \cap Refused(policy)
    OBVIOUS
  <2> PICK Q : Q = (Group(k) \cap Refused(policy))'
    OBVIOUS
  <2>1. Listed' = Listed /\ Group(k)' = Group(k)
    BY SameGroups
  <2>2. Refused(policy) \subseteq Refused(policy)'
    BY <2>1 DEF Refused
  <2>3. R \in SUBSET Q /\ Q \in SUBSET Listed
    BY <2>1, <2>2 DEF Group
  <2>4. Size(Q) \in Nat /\ Size(R) \in Nat /\ Size(R) <= Size(Q) /\ Size(Q)' = Size(Q)
    BY <2>3, SizeOfSome
  <2>5. Size(Group(k) \cap Refused(policy))' = Size(Q)'
    BY DEF Size, Bytes
  <2>6. QED
    BY <2>4, <2>5
<1>2. QED
  BY <1>1 DEF Overdrawn

\* What has been reached stays reached.
LEMMA LimitedStays ==
  ASSUME Sizes, pass' = pass, Listed \cap DOMAIN disk' \subseteq DOMAIN disk,
         refused \subseteq refused', Limited
  PROVE  /\ \A k \in Treated : Cardinality(Left(Group(k)) \ Refused("count"))' <= CountLimit
         /\ \A k \in Fitting :
              Size(Left(Group(k)) \ Refused("type"))' <= TypeLimit + Overdrawn(k)'
         /\ phase = "done" => Size(Left(Listed) \ Refused("all"))' <= AllLimit
<1>1. CountLimit \in Nat /\ TypeLimit \in Nat /\ AllLimit \in Nat
  BY CleanerAssumption
<1>2. ASSUME NEW CONSTANT S, NEW CONSTANT policy, S \in SUBSET Listed
      PROVE  /\ Cardinality(Left(S) \ Refused(policy)) \in Nat
             /\ Cardinality(Left(S) \ Refused(policy))' \in Nat
             /\ Cardinality(Left(S) \ Refused(policy))' <= Cardinality(Left(S) \ Refused(policy))
             /\ Size(Left(S) \ Refused(policy)) \in Nat
             /\ Size(Left(S) \ Refused(policy))' \in Nat
             /\ Size(Left(S) \ Refused(policy))' <= Size(Left(S) \ Refused(policy))
  BY <1>2, NothingGrows
<1>3. ASSUME NEW a \in Nat, NEW b \in Nat, NEW c \in Nat, a <= b, b <= c PROVE a <= c
  BY <1>3
<1>4. ASSUME NEW CONSTANT k, k \in Treated
      PROVE  Cardinality(Left(Group(k)) \ Refused("count"))' <= CountLimit
  <2> PICK S : S = Group(k)
    OBVIOUS
  <2>1. S \in SUBSET Listed /\ Group(k)' = S
    BY SameGroups DEF Group
  <2>2. (Left(Group(k)) \ Refused("count"))' = (Left(S) \ Refused("count"))'
    BY <2>1 DEF Left
  <2>3. Cardinality(Left(S) \ Refused("count")) <= CountLimit
    BY <1>4 DEF Limited
  <2>4. /\ Cardinality(Left(S) \ Refused("count")) \in Nat
        /\ Cardinality(Left(S) \ Refused("count"))' \in Nat
        /\ Cardinality(Left(S) \ Refused("count"))' <= Cardinality(Left(S) \ Refused("count"))
    BY <1>2, <2>1
  <2>5. Cardinality(Left(S) \ Refused("count"))' <= CountLimit
    BY <1>1, <1>3, <2>3, <2>4
  <2>6. QED
    BY <2>2, <2>5
<1>5. ASSUME NEW CONSTANT k, k \in Fitting
      PROVE  Size(Left(Group(k)) \ Refused("type"))' <= TypeLimit + Overdrawn(k)'
  <2> PICK S : S = Group(k)
    OBVIOUS
  <2>1. S \in SUBSET Listed /\ Group(k)' = S
    BY SameGroups DEF Group
  <2>2. Size(Left(Group(k)) \ Refused("type"))' = Size(Left(S) \ Refused("type"))'
    BY <2>1 DEF Left, Size, Bytes
  <2>3. Size(Left(S) \ Refused("type")) <= TypeLimit + Overdrawn(k)
    BY <1>5 DEF Limited
  <2>4. Overdrawn(k) \in Nat /\ Overdrawn(k)' \in Nat /\ Overdrawn(k) <= Overdrawn(k)'
    BY BooksWorsen
  <2>5. /\ TypeLimit + Overdrawn(k) \in Nat /\ TypeLimit + Overdrawn(k)' \in Nat
        /\ TypeLimit + Overdrawn(k) <= TypeLimit + Overdrawn(k)'
    BY <1>1, <2>4
  <2>6. /\ Size(Left(S) \ Refused("type")) \in Nat
        /\ Size(Left(S) \ Refused("type"))' \in Nat
        /\ Size(Left(S) \ Refused("type"))' <= Size(Left(S) \ Refused("type"))
    BY <1>2, <2>1
  <2>7. Size(Left(S) \ Refused("type"))' <= TypeLimit + Overdrawn(k)
    BY <1>3, <2>3, <2>5, <2>6
  <2>8. Size(Left(S) \ Refused("type"))' <= TypeLimit + Overdrawn(k)'
    BY <1>3, <2>5, <2>6, <2>7
  <2>9. QED
    BY <2>2, <2>8
<1>6. ASSUME phase = "done" PROVE Size(Left(Listed) \ Refused("all"))' <= AllLimit
  <2> PICK S : S = Listed
    OBVIOUS
  <2>1. S \in SUBSET Listed /\ Listed' = S
    BY SameGroups
  <2>2. Size(Left(Listed) \ Refused("all"))' = Size(Left(S) \ Refused("all"))'
    BY <2>1 DEF Left, Size, Bytes
  <2>3. Size(Left(S) \ Refused("all")) <= AllLimit
    BY <1>6 DEF Limited
  <2>4. /\ Size(Left(S) \ Refused("all")) \in Nat
        /\ Size(Left(S) \ Refused("all"))' \in Nat
        /\ Size(Left(S) \ Refused("all"))' <= Size(Left(S) \ Refused("all"))
    BY <1>2, <2>1
  <2>5. Size(Left(S) \ Refused("all"))' <= AllLimit
    BY <1>1, <1>3, <2>3, <2>4
  <2>6. QED
    BY <2>2, <2>5
<1>7. QED
  BY <1>4, <1>5, <1>6

\* A step that deletes, and so leaves nothing of what it removes.
LEMMA DeleteTidies ==
  ASSUME Tidy, Selecting, pass' = pass,
         \/ \E policy, gone : Delete(policy, gone)
         \/ UNCHANGED <<disk, removed, refused>>
  PROVE  /\ Listed \cap DOMAIN disk' \subseteq DOMAIN disk
         /\ Listed' = Listed
         /\ refused \subseteq refused'
         /\ removed' \cap Left(Listed)' = {}
<1>1. CASE \E policy, gone : Delete(policy, gone)
  <2>1. PICK policy, gone : Delete(policy, gone)
    BY <1>1
  <2>2. PICK kept \in SUBSET (gone \cap DOMAIN disk) :
          /\ disk' = Without(disk, gone \ kept)
          /\ removed' = removed \cup ((gone \ kept) \cap DOMAIN disk)
          /\ refused' = refused \cup ({policy} \X kept)
    BY <2>1 DEF Delete
  <2>3. DOMAIN disk' = DOMAIN disk \ (gone \ kept)
    BY <2>2 DEF Without
  <2>4. removed \cap (Listed \cap DOMAIN disk) = {}
    BY DEF Tidy, Left
  <2>5. QED
    BY <2>2, <2>3, <2>4 DEF Left, Listed
<1>2. CASE UNCHANGED <<disk, removed, refused>>
  BY <1>2 DEF Tidy, Left, Listed
<1>3. QED
  BY <1>1, <1>2

\* What a policy has tried and not refused is gone.
LEMMA TriedIsGone ==
  ASSUME NEW policy, NEW gone, Delete(policy, gone), pass' = pass, NEW f \in Listed, f \in gone
  PROVE  f \notin DOMAIN disk' \/ f \in Refused(policy)'
<1>1. PICK kept \in SUBSET (gone \cap DOMAIN disk) :
        disk' = Without(disk, gone \ kept) /\ refused' = refused \cup ({policy} \X kept)
  BY DEF Delete
<1>2. CASE f \in kept
  BY <1>1, <1>2 DEF Refused, Listed
<1>3. CASE f \notin kept
  BY <1>1, <1>3 DEF Without
<1>4. QED
  BY <1>2, <1>3

\* What a removal leaves was there.
LEMMA DeleteLeaves ==
  ASSUME NEW policy, NEW gone, Delete(policy, gone)
  PROVE  DOMAIN disk' \subseteq DOMAIN disk
BY DEF Delete, Without

\* The files of a group that are left have not been removed.
LEMMA LeftNotRemoved ==
  ASSUME Sizes, Tidy, Selecting, NEW S \in SUBSET Listed
  PROVE  /\ S \cap DOMAIN disk \in SUBSET (S \ removed)
         /\ IsFiniteSet(S) /\ \A f \in S : pass.listed[f] \in Nat
         /\ Size(S \cap DOMAIN disk) \in Nat
         /\ Size(S \ removed) \in Nat /\ Size(S) \in Nat
         /\ Size(S \cap DOMAIN disk) <= Size(S \ removed)
         /\ Size(S \cap DOMAIN disk) <= Size(S)
<1>1. removed \cap (Listed \cap DOMAIN disk) = {}
  BY DEF Tidy, Left
<1>2. S \cap DOMAIN disk \in SUBSET (S \ removed)
  BY <1>1
<1>3. IsFiniteSet(S) /\ \A f \in S : pass.listed[f] \in Nat
  BY FS_Subset DEF Sizes
<1>4. IsFiniteSet(S \ removed) /\ \A f \in S \ removed : pass.listed[f] \in Nat
  BY <1>3, FS_Difference
<1>5. /\ Size(S \cap DOMAIN disk) \in Nat /\ Size(S \ removed) \in Nat
      /\ Size(S \cap DOMAIN disk) <= Size(S \ removed)
  BY <1>2, <1>4, SizeOfFewer
<1>6. Size(S) \in Nat /\ Size(S \cap DOMAIN disk) <= Size(S)
  <2>1. S \cap DOMAIN disk \in SUBSET S
    OBVIOUS
  <2>2. QED
    BY <1>3, <2>1, SizeOfFewer
<1>7. QED
  BY <1>2, <1>3, <1>5, <1>6

\* A size policy leaves no more than its limit of the files that it can remove,
\* and of what its books are short of.
LEMMA LimitSizeFits ==
  ASSUME Sizes, NEW CONSTANT S, S \in SUBSET Listed, NEW CONSTANT policy,
         NEW CONSTANT total \in Int, NEW CONSTANT limit \in Nat, NEW CONSTANT short \in Nat,
         Size(S \cap DOMAIN disk) <= total + short,
         LimitSize(policy, S, total, limit), pass' = pass
  PROVE  Size(Left(S) \ Refused(policy))' <= limit + short
<1> PICK R : R = (Left(S) \ Refused(policy))'
  OBVIOUS
<1>1. Size(Left(S) \ Refused(policy))' = Size(R)'
  BY DEF Size, Bytes
<1>2. CASE total <= limit /\ UNCHANGED <<disk, removed, refused>>
  <2> PICK Q : Q = S \cap DOMAIN disk
    OBVIOUS
  <2>1. R \in SUBSET Q /\ Q \in SUBSET Listed
    BY <1>2 DEF Left
  <2>2. Size(Q) \in Nat /\ Size(R) \in Nat /\ Size(R) <= Size(Q) /\ Size(R)' = Size(R)
    BY <2>1, SizeOfSome
  <2>3. Size(R) <= limit + short
    BY <1>2, <2>2
  <2>4. QED
    BY <1>1, <2>2, <2>3
<1>3. CASE \E s \in sortByModTime(S) : Delete(policy, Excess(s, total, limit))
  <2>1. PICK s \in sortByModTime(S) : Delete(policy, Excess(s, total, limit))
    BY <1>3
  <2> PICK Q : Q = (S \cap DOMAIN disk) \ Excess(s, total, limit)
    OBVIOUS
  <2>2. IsFiniteSet(S) /\ \A f \in S : pass.listed[f] \in Nat
    BY FS_Subset DEF Sizes
  <2>3. Size(Q) <= limit + short
    BY <2>2, SizeFits
  <2>4. R \in SUBSET Q
    <3>1. R \subseteq S \cap DOMAIN disk
      BY <2>1, DeleteLeaves DEF Left
    <3>2. ASSUME NEW f \in R PROVE f \notin Excess(s, total, limit)
      BY <2>1, <3>1, <3>2, TriedIsGone DEF Left
    <3>3. QED
      BY <3>1, <3>2
  <2>5. Size(Q) \in Nat /\ Size(R) \in Nat /\ Size(R) <= Size(Q) /\ Size(R)' = Size(R)
    BY <2>4, SizeOfSome
  <2>6. Size(R) <= limit + short
    BY <2>3, <2>5
  <2>7. QED
    BY <1>1, <2>5, <2>6
<1>4. QED
  BY <1>2, <1>3 DEF LimitSize

LEMMA CountTidies ==
  ASSUME Sizes, Tidy, LimitCount, pass.first
  PROVE  Limited'
<1>1. phase = "count" /\ phase' = "expire" /\ UNCHANGED <<pass, todo, group>>
  BY DEF LimitCount
<1>2. Selecting /\ Limited
  BY <1>1 DEF Tidy, Selecting
<1>3. /\ Listed \cap DOMAIN disk' \subseteq DOMAIN disk
      /\ refused \subseteq refused'
  BY <1>1, <1>2, DeleteTidies DEF LimitCount
<1>4. Keys' = Keys /\ Listed' = Listed /\ \A k : Group(k)' = Group(k)
  BY <1>1, SameGroups
<1>5. \A k \in Treated : Cardinality(Left(Group(k)) \ Refused("count"))' <= CountLimit
  BY <1>1, <1>2, <1>3, LimitedStays
<1>6. Cardinality(Left(Group(group)) \ Refused("count"))' <= CountLimit
  <2> PICK k : k = group
    OBVIOUS
  <2> PICK G : G = Group(k)
    OBVIOUS
  <2>1. G \in SUBSET Listed /\ group' = k /\ Group(k)' = G
    BY <1>1, <1>4 DEF Group
  <2>2. IsFiniteSet(G) /\ Cardinality(G) \in Nat /\ CountLimit \in Nat
    BY <2>1, FS_Subset, FS_CardinalityType, CleanerAssumption DEF Sizes
  <2>3. (Left(Group(group)) \ Refused("count"))' = (G \cap DOMAIN disk') \ Refused("count")'
    BY <2>1 DEF Left
  <2> PICK R : R = (G \cap DOMAIN disk') \ Refused("count")'
    OBVIOUS
  <2>4. R \in SUBSET G
    OBVIOUS
  <2> DEFINE extra == Cardinality(G) - CountLimit
  <2>5. CASE extra <= 0
    <3>1. Cardinality(R) <= Cardinality(G) /\ Cardinality(R) \in Nat
      BY <2>2, <2>4, FS_Subset, FS_CardinalityType
    <3>2. QED
      BY <2>2, <2>3, <2>5, <3>1
  <2>6. CASE extra > 0
    <3>1. PICK s \in sortByModTime(G) :
            Delete("count", {f \in G : \E i \in 1..extra : s[i] = f})
      <4>1. Group(group) = G
        OBVIOUS
      <4>2. ~(extra <= 0 \/ ~pass.first)
        BY <2>2, <2>6
      <4>3. \E s \in sortByModTime(G) : Delete("count", {f \in G : \E i \in 1..extra : s[i] = f})
        BY <4>1, <4>2, Zenon DEF LimitCount
      <4>4. QED
        BY <4>3
    <3>2. extra \in Nat /\ extra <= Cardinality(G)
      BY <2>2, <2>6
    <3> DEFINE tried == {f \in G : \E i \in 1..extra : s[i] = f}
    <3>3. ASSUME NEW f \in R PROVE f \notin tried
      <4>1. f \in Listed /\ f \in DOMAIN disk' /\ f \notin Refused("count")'
        BY <2>1, <3>3
      <4> HIDE DEF tried
      <4>2. Delete("count", tried)
        BY <3>1 DEF tried
      <4>3. QED
        BY <1>1, <4>1, <4>2, TriedIsGone
    <3>4. \A f \in R : \A i \in 1..extra : s[i] # f
      BY <2>4, <3>3
    <3>5. Cardinality(R) <= Cardinality(G) - extra
      BY <2>2, <2>4, <3>1, <3>2, <3>4, CountFits
    <3>6. QED
      BY <2>2, <2>3, <3>5
  <2>7. QED
    BY <2>2, <2>5, <2>6
<1>7. ASSUME NEW CONSTANT k, k \in Treated'
      PROVE  Cardinality(Left(Group(k)) \ Refused("count"))' <= CountLimit
  <2>1. k \in Treated \/ k = group
    BY <1>1, <1>4, <1>7 DEF Treated
  <2>2. CASE k = group
    <3>1. (Left(Group(k)) \ Refused("count"))' = (Left(Group(group)) \ Refused("count"))'
      BY <1>1, <2>2
    <3>2. QED
      BY <1>6, <3>1
  <2>3. QED
    BY <1>5, <2>1, <2>2
<1>8. Fitting' = {} /\ phase' # "done"
  BY <1>1 DEF Fitting
<1>9. QED
  BY <1>7, <1>8 DEF Limited

LEMMA TypeSizeTidies ==
  ASSUME Sizes, Tidy, NEW k \in todo, LimitTypeSize(k), pass.first
  PROVE  Limited'
<1>1. phase = "size" /\ UNCHANGED <<phase, pass, group>> /\ todo' = todo \ {k}
  BY DEF LimitTypeSize
<1>2. Selecting /\ Limited
  BY <1>1 DEF Tidy, Selecting
<1>3. /\ Listed \cap DOMAIN disk' \subseteq DOMAIN disk
      /\ refused \subseteq refused'
  BY <1>1, <1>2, DeleteTidies DEF LimitTypeSize, LimitSize
<1>4. Keys' = Keys /\ \A j : Group(j)' = Group(j)
  BY <1>1, SameGroups
<1>5. /\ \A j \in Treated : Cardinality(Left(Group(j)) \ Refused("count"))' <= CountLimit
      /\ \A j \in Fitting :
           Size(Left(Group(j)) \ Refused("type"))' <= TypeLimit + Overdrawn(j)'
  BY <1>1, <1>2, <1>3, LimitedStays
<1>6. Treated' = Treated /\ phase' # "done"
  BY <1>1, <1>4 DEF Treated
<1>7. Size(Left(Group(k)) \ Refused("type"))' <= TypeLimit + Overdrawn(k)'
  <2> PICK S : S = Group(k)
    OBVIOUS
  <2> PICK short : short = Overdrawn(k)
    OBVIOUS
  <2>1. S \in SUBSET Listed /\ Group(k)' = S
    BY <1>4 DEF Group
  <2>2. short \in Nat /\ Overdrawn(k)' \in Nat /\ short <= Overdrawn(k)'
    <3> PICK j : j = k
      OBVIOUS
    <3>1. Overdrawn(j) \in Nat /\ Overdrawn(j)' \in Nat /\ Overdrawn(j) <= Overdrawn(j)'
      BY <1>1, <1>3, BooksWorsen
    <3>2. QED
      BY <3>1
  <2> PICK total : total = Size(S \ removed) - short
    OBVIOUS
  <2>3. /\ Size(S \cap DOMAIN disk) \in Nat /\ Size(S \ removed) \in Nat
        /\ Size(S \cap DOMAIN disk) <= Size(S \ removed)
    BY <1>2, <2>1, LeftNotRemoved
  <2>4. total \in Int /\ Size(S \cap DOMAIN disk) <= total + short
    BY <2>2, <2>3
  <2>5. LimitSize("type", S, total, TypeLimit)
    BY DEF LimitTypeSize
  <2>6. TypeLimit \in Nat
    BY CleanerAssumption
  <2>7. Size(Left(S) \ Refused("type"))' <= TypeLimit + short
    BY <1>1, <2>1, <2>2, <2>4, <2>5, <2>6, LimitSizeFits
  <2>8. Size(Left(S) \ Refused("type"))' \in Nat
    BY <1>1, <1>3, <2>1, NothingGrows
  <2>9. Size(Left(Group(k)) \ Refused("type"))' = Size(Left(S) \ Refused("type"))'
    BY <2>1 DEF Left, Size, Bytes
  <2>10. QED
    BY <2>2, <2>6, <2>7, <2>8, <2>9
<1>8. ASSUME NEW CONSTANT j, j \in Fitting'
      PROVE  Size(Left(Group(j)) \ Refused("type"))' <= TypeLimit + Overdrawn(j)'
  <2>1. j \in Fitting \/ j = k
    BY <1>1, <1>4, <1>8 DEF Fitting
  <2>2. QED
    BY <1>5, <1>7, <2>1
<1>9. QED
  BY <1>5, <1>6, <1>8 DEF Limited

LEMMA AllSizeTidies ==
  ASSUME Sizes, Tidy, LimitAllSize, pass.first
  PROVE  Limited'
<1>1. phase = "size" /\ phase' = "done" /\ todo = {} /\ UNCHANGED <<pass, todo, group>>
  BY DEF LimitAllSize
<1>2. Selecting /\ Limited
  BY <1>1 DEF Tidy, Selecting
<1>3. /\ Listed \cap DOMAIN disk' \subseteq DOMAIN disk
      /\ refused \subseteq refused'
  BY <1>1, <1>2, DeleteTidies DEF LimitAllSize, LimitSize
<1>4. Keys' = Keys /\ Listed' = Listed
  BY <1>1, SameGroups
<1>5. /\ \A j \in Treated : Cardinality(Left(Group(j)) \ Refused("count"))' <= CountLimit
      /\ \A j \in Fitting :
           Size(Left(Group(j)) \ Refused("type"))' <= TypeLimit + Overdrawn(j)'
  BY <1>1, <1>2, <1>3, LimitedStays
<1>6. Treated' = Treated /\ Fitting' = Fitting
  BY <1>1, <1>4 DEF Treated, Fitting
<1>7. Size(Left(Listed) \ Refused("all"))' <= AllLimit
  <2> PICK S : S = Listed
    OBVIOUS
  <2> PICK total : total = Size(S)
    OBVIOUS
  <2>1. /\ Size(S \cap DOMAIN disk) \in Nat /\ total \in Nat
        /\ Size(S \cap DOMAIN disk) <= total
    BY <1>2, LeftNotRemoved
  <2>2. total \in Int /\ Size(S \cap DOMAIN disk) <= total + 0
    BY <2>1
  <2>3. LimitSize("all", S, total, AllLimit)
    BY DEF LimitAllSize
  <2>4. AllLimit \in Nat
    BY CleanerAssumption
  <2>5. Size(Left(S) \ Refused("all"))' <= AllLimit + 0
    BY <1>1, <2>2, <2>3, <2>4, LimitSizeFits
  <2>6. Size(Left(Listed) \ Refused("all"))' = Size(Left(S) \ Refused("all"))'
    BY <1>4 DEF Left, Size, Bytes
  <2>7. QED
    BY <2>4, <2>5, <2>6
<1>8. QED
  BY <1>5, <1>6, <1>7 DEF Limited

LEMMA PassTidies ==
  ASSUME Housed, CleanInv, Sizes, Tidy, PassStep
  PROVE  Tidy'
<1>1. CASE collectInUseFiles
  <2>1. ~Selecting /\ ~Selecting' /\ removed' = removed
    BY <1>1 DEF collectInUseFiles, Selecting
  <2>2. QED
    BY <2>1 DEF Tidy
<1>2. CASE ProcessClearNonLog
  <2>1. ~Selecting /\ ~Selecting'
    BY <1>2 DEF ProcessClearNonLog, Selecting
  <2>2. \A f \in removed' : f \in removed \/ ~IsLog(f)
    BY <1>2 DEF ProcessClearNonLog, Delete
  <2>3. QED
    BY <2>1, <2>2 DEF Tidy, IsLog
<1>3. CASE enumerateLogFiles
  <2>1. /\ ~Selecting /\ phase' = "expire" /\ UNCHANGED <<disk, removed>>
        /\ pass'.listed = [f \in Logs \ pass.inUse |-> disk[f].size]
        /\ todo' = {typeKey(f) : f \in Logs \ pass.inUse}
    BY <1>3 DEF enumerateLogFiles, Selecting, CleanInv
  <2>2. Listed' = Logs \ pass.inUse
    BY <2>1 DEF Listed
  <2>3. Keys' = todo'
    BY <2>1, <2>2 DEF Keys
  <2>4. \A f \in Listed' : IsLog(f)
    BY <2>2 DEF Logs
  <2>5. removed' \cap Left(Listed)' = {}
    BY <2>1, <2>4 DEF Tidy, Left
  <2>6. Treated' = {} /\ Fitting' = {} /\ phase' # "done"
    BY <2>1, <2>3 DEF Treated, Fitting
  <2>7. Selecting' /\ Limited'
    BY <2>1, <2>6 DEF Selecting, Limited
  <2>8. QED
    BY <2>4, <2>5, <2>7 DEF Tidy, IsLog
<1>4. CASE EmptyDirectory \/ SkipSizes \/ DoneClear
  <2>1. phase' = "none" /\ removed' = {}
    BY <1>4 DEF EmptyDirectory, SkipSizes, DoneClear, End
  <2>2. QED
    BY <2>1 DEF Tidy, Selecting
<1>5. ASSUME Selecting, Selecting', pass' = pass, pass.first => Limited',
             (\E policy, gone : Delete(policy, gone)) \/ UNCHANGED <<disk, removed, refused>>
      PROVE  Tidy'
  <2>1. Listed' = Listed /\ removed' \cap Left(Listed)' = {}
    BY <1>5, DeleteTidies
  <2>2. \A f \in Listed' : IsLog(f)
    BY <1>5, <2>1 DEF Tidy
  <2>3. QED
    BY <1>5, <2>1, <2>2 DEF Tidy, IsLog
<1>6. ASSUME NEW k \in todo, RemoveExpired(k) PROVE Tidy'
  <2>1. /\ Selecting /\ Selecting' /\ pass' = pass /\ todo' = todo \ {k} /\ group' = k
        /\ phase = "expire" /\ phase' = "count"
        /\ \E policy, gone : Delete(policy, gone)
    BY <1>6 DEF RemoveExpired, Selecting
  <2>2. ASSUME pass.first PROVE Limited'
    <3>1. /\ Limited /\ Listed \cap DOMAIN disk' \subseteq DOMAIN disk
          /\ refused \subseteq refused'
      BY <2>1, <2>2, DeleteTidies DEF Tidy
    <3>2. Keys' = Keys
      BY <2>1, SameGroups
    <3>3. Treated' \subseteq Treated /\ Fitting' = {} /\ phase' # "done"
      BY <2>1, <3>2 DEF Treated, Fitting
    <3>4. \A j \in Treated : Cardinality(Left(Group(j)) \ Refused("count"))' <= CountLimit
      BY <2>1, <3>1, LimitedStays
    <3>5. QED
      BY <3>3, <3>4 DEF Limited
  <2>3. QED
    BY <1>5, <2>1, <2>2
<1>7. CASE LimitCount
  <2>1. /\ Selecting /\ Selecting' /\ pass' = pass
        /\ (\E policy, gone : Delete(policy, gone)) \/ UNCHANGED <<disk, removed, refused>>
    BY <1>7 DEF LimitCount, Selecting
  <2>2. QED
    BY <1>5, <1>7, <2>1, CountTidies
<1>8. CASE CheckSizes
  <2>1. /\ Selecting /\ Selecting' /\ pass' = pass /\ UNCHANGED <<disk, removed, refused>>
        /\ phase = "expire" /\ phase' = "size" /\ todo = {} /\ todo' = Keys
    BY <1>8 DEF CheckSizes, Selecting, Keys
  <2>2. ASSUME pass.first PROVE Limited'
    <3>1. /\ Limited /\ Listed \cap DOMAIN disk' \subseteq DOMAIN disk
          /\ refused \subseteq refused'
      BY <2>1, <2>2 DEF Tidy
    <3>2. Keys' = Keys
      BY <2>1, SameGroups
    <3>3. Treated' \subseteq Treated /\ Fitting' = {} /\ phase' # "done"
      BY <2>1, <3>2 DEF Treated, Fitting
    <3>4. \A j \in Treated : Cardinality(Left(Group(j)) \ Refused("count"))' <= CountLimit
      BY <2>1, <3>1, LimitedStays
    <3>5. QED
      BY <3>3, <3>4 DEF Limited
  <2>3. QED
    BY <1>5, <2>1, <2>2
<1>9. ASSUME NEW k \in todo, LimitTypeSize(k) PROVE Tidy'
  <2>1. /\ Selecting /\ Selecting' /\ pass' = pass
        /\ (\E policy, gone : Delete(policy, gone)) \/ UNCHANGED <<disk, removed, refused>>
    BY <1>9 DEF LimitTypeSize, LimitSize, Selecting
  <2>2. pass.first => Limited'
    BY <1>9, TypeSizeTidies
  <2>3. QED
    BY <1>5, <2>1, <2>2
<1>10. CASE LimitAllSize
  <2>1. /\ Selecting /\ Selecting' /\ pass' = pass
        /\ (\E policy, gone : Delete(policy, gone)) \/ UNCHANGED <<disk, removed, refused>>
    BY <1>10 DEF LimitAllSize, LimitSize, Selecting
  <2>2. QED
    BY <1>5, <1>10, <2>1, AllSizeTidies
<1>11. QED
  BY <1>1, <1>2, <1>3, <1>4, <1>6, <1>7, <1>8, <1>9, <1>10 DEF PassStep

LEMMA TidyStep ==
  OrderlyUse /\ Housed /\ CleanInv /\ Names /\ Sizes /\ Tidy /\ [Next]_vars => Tidy'
<1> SUFFICES ASSUME OrderlyUse, Housed, CleanInv, Names, Sizes, Tidy, [Next]_vars PROVE Tidy'
  OBVIOUS
<1>1. ASSUME UNCHANGED passVars, Selecting => Listed \cap DOMAIN disk' \subseteq DOMAIN disk
      PROVE  Tidy'
  <2>1. UNCHANGED <<phase, pass, todo, group, removed, refused>> /\ Listed' = Listed
    BY <1>1 DEF passVars, Listed
  <2>2. CASE ~Selecting
    BY <2>1, <2>2 DEF Tidy, Selecting, IsLog
  <2>3. CASE Selecting
    <3>1. Listed \cap DOMAIN disk' \subseteq DOMAIN disk
      BY <1>1, <2>3
    <3>2. removed' \cap Left(Listed)' = {}
      BY <2>1, <2>3, <3>1 DEF Tidy, Left
    <3>3. Keys' = Keys
      BY <2>1, SameGroups
    <3>4. Treated' = Treated /\ Fitting' = Fitting
      BY <2>1, <3>3 DEF Treated, Fitting
    <3>5. ASSUME pass.first PROVE Limited'
      <4>1. Limited
        BY <2>3, <3>5 DEF Tidy
      <4>2. /\ \A k \in Treated : Cardinality(Left(Group(k)) \ Refused("count"))' <= CountLimit
            /\ \A k \in Fitting :
                 Size(Left(Group(k)) \ Refused("type"))' <= TypeLimit + Overdrawn(k)'
            /\ phase = "done" => Size(Left(Listed) \ Refused("all"))' <= AllLimit
        BY <2>1, <3>1, <4>1, LimitedStays
      <4>3. QED
        BY <2>1, <3>4, <4>2 DEF Limited
    <3>6. \A f \in Listed' : IsLog(f)
      BY <2>1, <2>3 DEF Tidy
    <3>7. Selecting' /\ pass'.first = pass.first
      BY <2>1, <2>3 DEF Selecting
    <3>8. QED
      BY <3>2, <3>5, <3>6, <3>7 DEF Tidy, IsLog
  <2>4. QED
    BY <2>2, <2>3
<1>2. ASSUME \/ LoggerInit \/ StopSchedule \/ LoggerStep
             \/ \E t \in Types : Mount(t) \/ Rotate(t)
             \/ \E f \in DOMAIN disk : DoZipLog(f)
             \/ Tick \/ TickerExit
      PROVE  Tidy'
  <2>1. UNCHANGED passVars
    BY <1>2 DEF LoggerInit, StopSchedule, LoggerStep, StartSchedule, StopReturn, LoggerDown,
                CloseFile, Mount, Rotate, DoZipLog, Tick, TickerExit
  <2>2. QED
    BY <1>1, <1>2, <2>1, GoneStaysGone
<1>3. CASE Begin("ticker") \/ Begin("first")
  <2>1. runner = "nobody" /\ disk' = disk /\ removed' = removed
    BY <1>3 DEF Begin, passVars
  <2>2. phase' = "collect" \/ UNCHANGED passVars
    BY <1>3 DEF Begin
  <2>3. ~Selecting
    BY <2>1 DEF Housed, Selecting, Phases
  <2>4. CASE phase' = "collect"
    BY <2>1, <2>3, <2>4 DEF Tidy, Selecting, IsLog
  <2>5. QED
    BY <1>1, <2>2, <2>3, <2>4
<1>4. CASE PassStep
  BY <1>4, PassTidies
<1>5. CASE UNCHANGED vars
  <2>1. UNCHANGED passVars /\ disk' = disk
    BY <1>5 DEF vars
  <2>2. QED
    BY <1>1, <2>1
<1>6. QED
  BY <1>2, <1>3, <1>4, <1>5 DEF Next, TaskStep

LEMMA TidyLimits == CleanInv /\ Tidy => LimitsHold
<1> SUFFICES ASSUME Tidy, pass.first PROVE
      /\ phase \in {"size", "done"} =>
           \A k \in Keys : Cardinality(Left(Group(k)) \ Refused("count")) <= CountLimit
      /\ phase = "done" =>
           /\ \A k \in Keys : Size(Left(Group(k)) \ Refused("type")) <= TypeLimit + Overdrawn(k)
           /\ Size(Left(Listed) \ Refused("all")) <= AllLimit
  BY DEF LimitsHold, Keys
<1>1. CASE phase \in {"size", "done"}
  <2>1. Limited
    BY <1>1 DEF Tidy, Selecting
  <2>2. Treated = Keys /\ (phase = "done" => Fitting = Keys)
    BY <1>1 DEF Treated, Fitting
  <2>3. QED
    BY <2>1, <2>2 DEF Limited
<1>2. QED
  BY <1>1

-----------------------------------------------------------------------------
(* The theorems.                                                           *)

\* In append mode no file that an appender has open is removed (schedule
\* 173-175, 366-367), whatever rotates beside the passes and however often
\* the logger is closed and initialised again.
THEOREM OpenFilesSurvive == OrderlyUse /\ Spec => []KeepsOpenFiles
<1> SUFFICES ASSUME OrderlyUse PROVE Spec => []KeepsOpenFiles
  OBVIOUS
<1>1. Init => Housed /\ KeepInv
  BY HousedInit, KeepInit
<1>2. Housed /\ KeepInv /\ [Next]_vars => Housed' /\ KeepInv'
  BY HousedStep, KeepStep
<1>3. KeepInv => KeepsOpenFiles
  BY DEF KeepInv, KeepsOpenFiles
<1>4. QED
  BY <1>1, <1>2, <1>3, PTL DEF Spec

\* In every life whose cleaning is enabled a full pass has ended when Close
\* begins, though the marker is one variable that every pass resets and every
\* Init sets.
THEOREM EveryLifeIsCleaned == OrderlyUse /\ Spec => []EveryLifeCleans
<1> SUFFICES ASSUME OrderlyUse PROVE Spec => []EveryLifeCleans
  OBVIOUS
<1>1. Init => Housed /\ CleanInv
  BY HousedInit, CleanInit
<1>2. Housed /\ CleanInv /\ [Next]_vars => Housed' /\ CleanInv'
  BY HousedStep, CleanStep
<1>3. CleanInv => EveryLifeCleans
  BY DEF CleanInv, Owed, EveryLifeCleans
<1>4. QED
  BY <1>1, <1>2, <1>3, PTL DEF Spec

\* A full pass leaves no group with more files than its limit, and then none
\* with more bytes, and not more bytes altogether (schedule 171-174), of those
\* files that let themselves be removed: what exceeds the limits is what the
\* policy failed to remove and, in a group, at most as many bytes as were taken
\* off its total for files that stayed.  This is so however the files are
\* ordered, whichever removals fail and whatever is rotated, packed or removed
\* meanwhile: nothing of what it has removed comes back under the same name.
THEOREM FullPassLimits == OrderlyUse /\ Spec => []LimitsHold
<1> SUFFICES ASSUME OrderlyUse PROVE Spec => []LimitsHold
  OBVIOUS
<1> DEFINE Inv == Housed /\ CleanInv /\ Names /\ Sizes /\ Tidy
<1>1. Init => Inv
  BY HousedInit, CleanInit, NamesInit, SizesInit, TidyInit
<1>2. Inv /\ [Next]_vars => Inv'
  BY HousedStep, CleanStep, NamesStep, SizesStep, TidyStep
<1>3. Inv => LimitsHold
  BY TidyLimits
<1>4. QED
  BY <1>1, <1>2, <1>3, PTL DEF Spec
=============================================================================
