----------------------------- MODULE LogCleaner -----------------------------
(***************************************************************************)
(* The retention of log files: CYLoggerClearLogFile and CYLoggerSchedule   *)
(* of Schedule/CYLoggerSchedule.go, with what they meet in the directory:  *)
(* the files that the appenders open, rotate and close while the logger is *)
(* initialised, closed and initialised again.                              *)
(*                                                                         *)
(* A pass of DoClear is a step per policy and group of files.  The         *)
(* scheduled goroutine and the first pass that StartSchedule spawns run    *)
(* it, one at a time (runMu).  Elapsed times are not counted: whether an   *)
(* interval is over, or the ticker has fired, is open at every moment.     *)
(* A removal may fail, and the pass does not notice.  An open file keeps   *)
(* its size, and one that a pass has removed is not rotated any more.  A   *)
(* moment is at least a second, so that the names of time mode are fresh.  *)
(***************************************************************************)
EXTENDS Integers, Sequences, FiniteSets, SequencesExt

CONSTANTS
  Types,       \* the log types with a file, as numbers in their names' order
  Modes,       \* the file modes used: "append", "time"
  Leftovers,   \* what earlier processes may have left in the directory
  Horizon,     \* files last written before this moment are expired
  DayLength,   \* moments in a day, as archive names show it
  CountLimit,  \* nFileCountPerType
  TypeLimit,   \* nCheckFileTypeSize
  AllLimit,    \* nCheckAllFileSize
  OrderlyUse,  \* Close is not called before the first pass is over
  MaxRefused,  \* bound of the model: removals that fail in a pass
  LastMoment,  \* bound of the model: moments
  MaxLives     \* bound of the model: calls of Init

ASSUME CleanerAssumption ==
  /\ Types \subseteq Nat /\ IsFiniteSet(Types)
  /\ CountLimit \in Nat /\ TypeLimit \in Nat /\ AllLimit \in Nat
  /\ Modes \subseteq {"append", "time"}
  /\ OrderlyUse \in BOOLEAN

VARIABLES
  life,       \* of the logger
  lives,      \* calls of Init, for the bound
  mode,       \* the file mode of this process
  clock,      \* the present moment
  disk,       \* the directory: per name, when it was written last and its size
  current,    \* per type, the name of the file its appender has open
  registered, \* the types whose appender the factory knows
  bEnable, bFirstProcess,
  ticker,     \* the scheduled goroutine
  firsts,     \* first passes that wait for runMu
  runner,     \* whose pass holds runMu
  phase,      \* where that pass is
  pass,       \* what it has read: bFirstProcess, the files in use, the files
  todo,       \* the groups it has still to treat
  group,      \* the group it treats
  removed,    \* the files it has removed
  refused,    \* the removals that failed, each with the policy it was for
  cleaned     \* history: a full pass has ended in this life

logVars  == <<life, lives, mode, clock, current, registered>>
taskVars == <<bEnable, bFirstProcess, ticker, firsts>>
passVars == <<runner, phase, pass, todo, group, removed, refused>>
vars == <<logVars, disk, taskVars, passVars, cleaned>>

(* A file has a fixed name (append mode) or one with its first moment      *)
(* (time mode); rotation renames the one to an archive with the moment of  *)
(* the rotation and adds a number to the other.  A package has no .log.    *)
Forms == {"archive", "fixed", "numbered", "timed", "package"}
Name(t, form, moment) == [type |-> t, form |-> form, moment |-> moment]
NoFile == Name(0, "none", 0)

\* What a process leaves it has named by moments that were over when the next
\* one starts, at 1, or were the moment of that start.
ASSUME LeftoverAssumption ==
  \A d \in Leftovers :
    /\ IsFiniteSet(DOMAIN d) /\ \A f \in DOMAIN d : d[f].size \in Nat
    /\ DOMAIN d \subseteq [type : Nat, form : Forms, moment : {0, 1}]
    /\ \A f \in DOMAIN d : f.form = "numbered" => f.moment = 0

\* The group of a file: what stands before the first '_' of its name.  In
\* Info.20060102_150405.000000.log that is the type and the day.
typeKey(f) == [type |-> f.type,
               day  |-> IF f.form = "archive" THEN f.moment \div DayLength ELSE -1]

NoPass  == [first |-> FALSE, inUse |-> {}, listed |-> <<>>]
NoGroup == typeKey(NoFile)

Init ==
  /\ life = "down" /\ lives = 0 /\ clock = 1
  /\ mode \in Modes
  /\ disk \in Leftovers
  /\ current = [t \in Types |-> NoFile]
  /\ registered = {}
  /\ bEnable = FALSE /\ bFirstProcess = TRUE
  /\ ticker = "none" /\ firsts = 0
  /\ runner = "nobody" /\ phase = "none" /\ pass = NoPass
  /\ todo = {} /\ group = NoGroup /\ removed = {} /\ refused = {}
  /\ cleaned = FALSE

-----------------------------------------------------------------------------
(* The logger and its appenders *)

With(d, f, stat)  == [g \in DOMAIN d \cup {f} |-> IF g = f THEN stat ELSE d[g]]
Without(d, gone)  == [g \in DOMAIN d \ gone |-> d[g]]
ActiveName(t)     == IF mode = "append" THEN Name(t, "fixed", 0) ELSE Name(t, "timed", clock)
RotatedName(t)    == IF mode = "append" THEN Name(t, "archive", clock)
                                        ELSE [current[t] EXCEPT !.form = "numbered"]
\* Opening appends to a file that is there and creates one that is not.
Opened(d, f) == IF f \in DOMAIN d THEN d ELSE With(d, f, [written |-> clock, size |-> 1])

\* Init, until the schedule is started.
LoggerInit ==
  /\ life = "down" /\ lives < MaxLives
  /\ life' = "mounting" /\ lives' = lives + 1
  /\ UNCHANGED <<mode, clock, disk, current, registered, taskVars, passVars, cleaned>>

\* Init mounts what the level asks for; the switches mount later.
Mount(t) ==
  /\ life = "mounting" \/ (life = "up" /\ ~OrderlyUse)
  /\ current[t] = NoFile /\ clock < LastMoment
  /\ current' = [current EXCEPT ![t] = ActiveName(t)]
  /\ registered' = registered \cup {t}
  /\ disk' = Opened(disk, ActiveName(t))
  /\ clock' = clock + 1
  /\ UNCHANGED <<life, lives, mode, taskVars, passVars, cleaned>>

\* Rotation by size, ForceNewFile and ResetLogFile: close, rename, open.
Rotate(t) ==
  /\ current[t] \in DOMAIN disk /\ clock < LastMoment
  /\ disk' = LET kept == With(Without(disk, {current[t]}), RotatedName(t), disk[current[t]])
             IN  Opened(kept, ActiveName(t))
  /\ current' = [current EXCEPT ![t] = ActiveName(t)]
  /\ clock' = clock + 1
  /\ UNCHANGED <<life, lives, mode, registered, taskVars, passVars, cleaned>>

\* A log file is packed; the package stands beside it.
DoZipLog(f) ==
  /\ f \in DOMAIN disk /\ f.form # "package" /\ clock < LastMoment
  /\ disk' = With(disk, [f EXCEPT !.form = "package"], [written |-> clock, size |-> 1])
  /\ clock' = clock + 1
  /\ UNCHANGED <<life, lives, mode, current, registered, taskVars, passVars, cleaned>>

\* Mutant: a second Init leaves the marker of the first as it is.
RearmOnce == UNCHANGED bFirstProcess

\* Init of the schedule makes the next pass a full one ...
Rearm == bFirstProcess' = TRUE

\* ... and its start leaves two goroutines: the scheduled one, and one pass.
Spawn == ticker' = "idle" /\ firsts' = firsts + 1

\* The schedule is initialised, configured and started: the end of Init.
StartSchedule(enable) ==
  /\ life = "mounting"
  /\ Rearm /\ Spawn
  /\ bEnable' = enable
  /\ life' = "up"
  /\ cleaned' = FALSE
  /\ UNCHANGED <<lives, mode, clock, disk, current, registered, passVars>>

\* UnInit tells the schedule to stop ...
StopSchedule ==
  /\ life = "up"
  /\ OrderlyUse => firsts = 0 /\ runner # "first"
  /\ life' = "stopping"
  /\ UNCHANGED <<lives, mode, clock, disk, current, registered, taskVars, passVars, cleaned>>

\* Mutant: Close does not wait.
StopReturnAtOnce ==
  /\ life = "stopping"
  /\ life' = "closing"
  /\ registered' = {}
  /\ UNCHANGED <<lives, mode, clock, disk, current, taskVars, passVars, cleaned>>

\* ... waits for the scheduled goroutine, and empties the registry ...
StopReturn ==
  /\ life = "stopping" /\ ticker = "none"
  /\ life' = "closing"
  /\ registered' = {}
  /\ UNCHANGED <<lives, mode, clock, disk, current, taskVars, passVars, cleaned>>

\* ... before it closes the files.
CloseFile(t) ==
  /\ life = "closing" /\ current[t] # NoFile
  /\ current' = [current EXCEPT ![t] = NoFile]
  /\ UNCHANGED <<life, lives, mode, clock, disk, registered, taskVars, passVars, cleaned>>

LoggerDown ==
  /\ life = "closing" /\ \A t \in Types : current[t] = NoFile
  /\ life' = "down"
  /\ UNCHANGED <<lives, mode, clock, disk, current, registered, taskVars, passVars, cleaned>>

-----------------------------------------------------------------------------
(* The goroutines that run DoClear *)

Tick ==
  /\ ticker = "idle" /\ bEnable
  /\ ticker' = "clearing"
  /\ UNCHANGED <<logVars, disk, bEnable, bFirstProcess, firsts, passVars, cleaned>>

TickerExit ==
  /\ ticker = "idle" /\ life = "stopping"
  /\ ticker' = "none"
  /\ UNCHANGED <<logVars, disk, bEnable, bFirstProcess, firsts, passVars, cleaned>>

\* DoClear's lock, its copy of the configuration and its early return.
Begin(r) ==
  /\ runner = "nobody"
  /\ \/ r = "ticker" /\ ticker = "clearing" /\ UNCHANGED firsts
     \/ r = "first" /\ firsts > 0 /\ firsts' = firsts - 1
  /\ IF bEnable
       THEN /\ runner' = r /\ phase' = "collect"
            /\ pass' = [NoPass EXCEPT !.first = bFirstProcess]
            /\ UNCHANGED <<ticker, todo, group, removed, refused>>
       ELSE /\ ticker' = IF r = "ticker" THEN "idle" ELSE ticker
            /\ UNCHANGED passVars
  /\ UNCHANGED <<logVars, disk, bEnable, bFirstProcess, cleaned>>

\* The end of a pass, and the unlock.
End ==
  /\ bFirstProcess' = FALSE
  /\ ticker' = IF runner = "ticker" THEN "idle" ELSE ticker
  /\ cleaned' = (cleaned \/ pass.first)
  /\ runner' = "nobody" /\ phase' = "none" /\ pass' = NoPass
  /\ todo' = {} /\ group' = NoGroup /\ removed' = {} /\ refused' = {}
  /\ UNCHANGED <<logVars, disk, bEnable, firsts>>

-----------------------------------------------------------------------------
(* A pass *)

outside == <<logVars, taskVars, runner, cleaned>>

collectInUseFiles ==
  /\ phase = "collect"
  /\ pass' = [pass EXCEPT !.inUse = {current[t] : t \in registered}]
  /\ phase' = IF pass.first THEN "purge" ELSE "list"
  /\ UNCHANGED <<outside, disk, todo, group, removed, refused>>

IsLog(f) == f.form # "package"
Logs     == {f \in DOMAIN disk : IsLog(f)}

\* os.Remove for some files, on behalf of a policy.  Nobody looks at its error:
\* a file that stays is treated as gone by the policy that tried it.
Delete(policy, tried) ==
  \E kept \in SUBSET (tried \cap DOMAIN disk) :
    /\ disk' = Without(disk, tried \ kept)
    /\ removed' = removed \cup ((tried \ kept) \cap DOMAIN disk)
    /\ refused' = refused \cup ({policy} \X kept)
    /\ Cardinality(refused') <= MaxRefused

\* The first pass removes what is no log file (WithClearUnLogFile's default).
ProcessClearNonLog ==
  /\ phase = "purge"
  /\ Delete("purge", {f \in DOMAIN disk : ~IsLog(f)} \ pass.inUse)
  /\ phase' = "list"
  /\ UNCHANGED <<outside, pass, todo, group>>

\* The log files that are not in use, with their sizes, in groups.
enumerateLogFiles ==
  LET free == Logs \ pass.inUse IN
  /\ phase = "list" /\ Logs # {}
  /\ pass' = [pass EXCEPT !.listed = [f \in free |-> disk[f].size]]
  /\ todo' = {typeKey(f) : f \in free}
  /\ phase' = "expire"
  /\ UNCHANGED <<outside, disk, group, removed, refused>>

\* Mutant: the early return forgets the unlock.
EmptyDirectoryLocked ==
  /\ phase = "list" /\ Logs = {} /\ bFirstProcess
  /\ bFirstProcess' = FALSE /\ cleaned' = (cleaned \/ pass.first)
  /\ UNCHANGED <<logVars, disk, bEnable, ticker, firsts, passVars>>

EmptyDirectory == phase = "list" /\ Logs = {} /\ End

\* By their last write, but a file that is gone can only be compared by name.
NameRank(f) ==
  LET place == CASE f.form = "archive" -> 0 [] f.form = "fixed" -> 1 [] OTHER -> 2
  IN  2 * ((3 * f.type + place) * (LastMoment + 1) + f.moment) + (IF f.form = "timed" THEN 1 ELSE 0)
Before(f, g) ==
  IF {f, g} \subseteq DOMAIN disk /\ disk[f].written # disk[g].written
    THEN disk[f].written < disk[g].written
    ELSE NameRank(f) < NameRank(g)

\* What sort.Slice may make of the files: no two neighbours are in the wrong
\* order.  That is one sequence, until some are gone and Before is no order.
\* (Orders has what SetToSeqs has; permutations are faster to enumerate.)
Orders(S) == {[i \in 1..Cardinality(S) |-> p[one[i]]] : p \in Permutations(S), one \in {SetToSeq(S)}}
sortByModTime(S) ==
  {s \in Orders(S) : s \in SetToSeqs(S) /\ \A i \in 2..Cardinality(S) : ~Before(s[i], s[i - 1])}

Listed   == DOMAIN pass.listed
Group(k) == {f \in Listed : typeKey(f) = k}
Bytes(S) == UNION {{f} \X (1..pass.listed[f]) : f \in S}
Size(S)  == Cardinality(Bytes(S))

\* What goes from the front of s, of that total, until the rest fits.
Excess(s, total, limit) ==
  {f \in Listed : \E i \in DOMAIN s :
     s[i] = f /\ total - Size({s[h] : h \in 1..(i - 1)} \cap DOMAIN disk) > limit}

LimitSize(policy, S, total, limit) ==
  \/ total <= limit /\ UNCHANGED <<disk, removed, refused>>
  \/ total > limit /\ \E s \in sortByModTime(S) : Delete(policy, Excess(s, total, limit))

\* 1) The expired files of a group ...
RemoveExpired(k) ==
  /\ phase = "expire" /\ k \in todo
  /\ Delete("expire", {f \in Group(k) \cap DOMAIN disk : disk[f].written < Horizon})
  /\ todo' = todo \ {k}
  /\ group' = k
  /\ phase' = "count"
  /\ UNCHANGED <<outside, pass>>

\* Mutant: the files that have expired are no longer counted.
LimitCountOfRest ==
  LET extra == Cardinality(Group(group) \ removed) - CountLimit IN
  /\ phase = "count"
  /\ \/ /\ extra > 0
        /\ \E s \in sortByModTime(Group(group)) :
             Delete("count", {f \in Group(group) : \E i \in 1..extra : s[i] = f})
     \/ (extra <= 0 \/ ~pass.first) /\ UNCHANGED <<disk, removed, refused>>
  /\ phase' = "expire"
  /\ UNCHANGED <<outside, pass, todo, group>>

\* 2) ... and the oldest of too many, those counted that have just expired;
\* in later passes only when the interval is over.
LimitCount ==
  LET extra == Cardinality(Group(group)) - CountLimit IN
  /\ phase = "count"
  /\ \/ /\ extra > 0
        /\ \E s \in sortByModTime(Group(group)) :
             Delete("count", {f \in Group(group) : \E i \in 1..extra : s[i] = f})
     \/ (extra <= 0 \/ ~pass.first) /\ UNCHANGED <<disk, removed, refused>>
  /\ phase' = "expire"
  /\ UNCHANGED <<outside, pass, todo, group>>

\* The sizes are looked at in the first pass, or when that interval is over.
CheckSizes ==
  /\ phase = "expire" /\ todo = {}
  /\ todo' = {typeKey(f) : f \in Listed}
  /\ phase' = "size"
  /\ UNCHANGED <<outside, disk, pass, group, removed, refused>>

SkipSizes == phase = "expire" /\ todo = {} /\ ~pass.first /\ End

\* The files that a policy has tried to remove in vain.
Refused(policy) == {f \in Listed : <<policy, f>> \in refused}

\* What the books of a group are short of: the sizes of files that were taken
\* off its total although they stayed, by each policy that tried them.
Overdrawn(k) == Size(Group(k) \cap Refused("expire")) + Size(Group(k) \cap Refused("count"))

\* 3) The oldest of a group that is too large, by its books ...
LimitTypeSize(k) ==
  /\ phase = "size" /\ k \in todo
  /\ LimitSize("type", Group(k), Size(Group(k) \ removed) - Overdrawn(k), TypeLimit)
  /\ todo' = todo \ {k}
  /\ UNCHANGED <<outside, phase, pass, group>>

\* 4) ... and of all files, from the total before any was removed.
LimitAllSize ==
  /\ phase = "size" /\ todo = {}
  /\ LimitSize("all", Listed, Size(Listed), AllLimit)
  /\ phase' = "done"
  /\ UNCHANGED <<outside, pass, todo, group>>

DoneClear == phase = "done" /\ End

PassStep ==
  \/ collectInUseFiles \/ ProcessClearNonLog \/ enumerateLogFiles \/ EmptyDirectory
  \/ \E k \in todo : RemoveExpired(k) \/ LimitTypeSize(k)
  \/ LimitCount \/ CheckSizes \/ SkipSizes \/ LimitAllSize \/ DoneClear

TaskStep == TickerExit \/ Begin("ticker") \/ Begin("first") \/ PassStep

LoggerStep ==
  \/ \E enable \in BOOLEAN : StartSchedule(enable)
  \/ StopReturn \/ LoggerDown
  \/ \E t \in Types : CloseFile(t)

Next ==
  \/ LoggerInit \/ StopSchedule \/ LoggerStep
  \/ \E t \in Types : Mount(t) \/ Rotate(t)
  \/ \E f \in DOMAIN disk : DoZipLog(f)
  \/ Tick \/ TaskStep

\* A pass, Init and Close go on when they can; nobody has to call.  A mutex
\* is handed to everyone who waits, and a select that finds both a tick and
\* the stop signal takes the latter in the end.
Fairness ==
  /\ WF_vars(PassStep) /\ WF_vars(LoggerStep)
  /\ SF_vars(Begin("first")) /\ SF_vars(Begin("ticker"))
  /\ SF_vars(TickerExit)

Spec == Init /\ [][Next]_vars /\ Fairness

-----------------------------------------------------------------------------
(* Properties *)

\* No file that is open for writing is ever removed (schedule 173-175,
\* 366-367) ...
OpenFilesStay == \A t \in Types : current[t] # NoFile => current[t] \in DOMAIN disk

\* ... which is so in append mode, where the name of the open file outlives a
\* rotation, as long as no pass outlives Close.
KeepsOpenFiles == mode = "append" => OpenFilesStay

Left(S) == S \cap DOMAIN disk

\* A full pass leaves no group with too many files, and then none with too
\* many bytes, and not too many bytes altogether, among the files that it may
\* remove (schedule 171-174) and that let themselves be removed: beyond that
\* there are only the files on which the policy itself has failed and, in a
\* group, as many bytes as earlier failures have spoiled its books by.
LimitsHold ==
  pass.first =>
    /\ phase \in {"size", "done"} =>
         \A k \in {typeKey(f) : f \in Listed} :
           Cardinality(Left(Group(k)) \ Refused("count")) <= CountLimit
    /\ phase = "done" =>
         /\ \A k \in {typeKey(f) : f \in Listed} :
              Size(Left(Group(k)) \ Refused("type")) <= TypeLimit + Overdrawn(k)
         /\ Size(Left(Listed) \ Refused("all")) <= AllLimit

\* In every life that is enabled a full pass has ended before Close.
EveryLifeCleans == life \in {"stopping", "closing"} /\ bEnable => cleaned

\* Close gets past the schedule.
StopReturns == (life = "stopping") ~> (life = "down")
=============================================================================
