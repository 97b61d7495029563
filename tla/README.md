# A TLA+ model of ICYLogger

This directory holds a formal model of the asynchronous logging library under
`src/ICYLogger`: TLA+ modules, the TLC configurations that model-check small
instances of them, and proofs checked by TLAPS that hold for instances of every
size. `PROJECT.json` maps every definition to the source lines it stands for and
lists the runs, the hazards, the findings and the theorems.

## 1. The system

A program calls `WriteLog*` of the global control. The control filters by level,
looks up the entities that take the message and calls `Write` of each appender of
such an entity. An appender queues the message and returns; a goroutine of its own
writes it. A scheduler deletes old files beside them.

| component | state | operations | correct when |
|---|---|---|---|
| file appender (`Appender/appender.go` 504-977) | `pending` under `pmu`; `file`, `bufw`, `nCurrentSize` under `a.mu`; `stopCh`, `notifyCh`, `flushCh`; writer and ticker goroutines | Write, Flush, Init, Start, UnInit, ForceNewFile, Copy, ClearContents; writePending, rotateFileLocked | lines reach the files in order, once, without gaps; Flush and UnInit keep their promises; no line is added to a file at its limit |
| queue appenders (97-446 base, console 449-487, buffer 980-1133, remote 1142-1261, system 1278-1455) | two bounded channels, `PublicQueue` and `PrivateQueue`, exchanged under `a.mu`; `swapCh`, `stopCh`, `flushCh` | Write (never blocks), Run, swapAndProcess, Flush, UnInit | no message vanishes or is written twice; channels are closed without receivers |
| entities and registries (`Entity/entity.go`, `Appender/appender.go` 1458-1559) | which appenders an entity holds; who is registered | AddAppender, Init, Flush, UnInit, Write | Flush and UnInit exclude each other; writers use a snapshot |
| control (`Logger/logger.go`, `early_filter.go`, `api.go`) | the level and its mirror `gLevelFilter`, the mounted types, `bInit`/`bExit` | Init, UnInit, AddAppender, Write, SetLogLevel, SetWriteRemote/Sys | the two levels agree; one appender per type; no write into a closed appender |
| configuration (`Core/config.go`, the options of `api.go`) | a singleton under one lock, which outlives Close; copies in the control, its restriction and the cleanup task | With..., setters, getters, Init | an Init that nobody disturbs runs on the configuration, with nothing of the life before |
| cleaner and schedule (`Schedule/CYLoggerSchedule.go`) | limits, `bFirstProcess`, time of the last checks | DoClear, StartSchedule, StopSchedule, Init | only files over a limit, and none in use, are deleted |
| messages, pools, layouts (`Common/common.go`, `Layout/layout.go`, the functions of `api.go`) | two pools of messages, a render cache in each message | Acquire, Clone, Reset, Release; the logging functions; formatMessage | a line shows the values of its own call; a message has one owner |
| restriction, threads, conditions (`Common/common.go`) | limits; `bRunning` and a WaitGroup; a condition with a timeout | setters, Start/Stop, WaitForEvent/SetEvent | a file outgrows its limit by its last line at most; a stop ends the thread |
| statistics (`Statistics/statistics.go`) | counters, total and per type | IncrementLine, Reset, GetStats | totals agree with their parts |
| FTP upload (`UpLoad`) | the control connection, replies unread on it | Init, Upload, UnInit | every command reads its own reply |
| filters, exceptions, encryption, names | values behind one lock, or none | formatting, getters and setters | see section 8 |

How they interact. The control's lock comes before the registry's, the entity's and
the appender's. `Control.Flush` holds the control's read lock and `Control.UnInit`
its write lock, and `Entity.Flush` and `Entity.UnInit` do the same with theirs, so
**Flush and UnInit exclude each other** for an appender used through the logger. A
write takes its targets under these locks and **writes outside of them**, so it can
meet anything. `AddAppender` mounts the appender in its entity, then calls `Init`,
then `Start` (`logger.go` 321-328).

What is hard here: two goroutines that drain (`Run` and a `Flush` that finds `Run`
not running, or busy); wakeups sent without blocking; a shutdown in five steps under
three locks; a rotation in which close, rename and open can each fail; a queue
pointer used after the lock that protected it is released; flags read without a lock.
`PROJECT.json` lists the hazards at their lines.

Between the components: `Control.Init` gives its settings, read one by one from the
configuration, to the appenders it mounts, to the restriction that the file appenders
share, and to the cleanup task, then starts the schedule. A pass of the cleaner asks the
registry for the open files once and works on the directory while appenders rotate in it.
A logging function fills a pooled message, the control routes it, a file appender renders
it at once and a queue appender takes a clone; the line is cached in the message for the
next appender. Writers count each line in the statistics. A packed or uploaded file is a
closed one.

## 2. Modules

| module | models | state and actions |
|---|---|---|
| `FileAppender` | the file appender, the main appender with it | `pending`, `notifyCh` and `ppc` are Write's side; `dpc`, `batch` and `why` tell where Run and each Flush are; `file`, `bufw`, `disk`, `found`, `past` and `size` are the file; `life` is where AddAppender or UnInit is |
| `DurableLog` | what a file appender promises | accept, persist, call and return of Flush |
| `QueueAppender` | the base appender's queues, as the console uses them | `queue`, `public`, `closed` are the two channels; `snap` is the pointer a thread read; `hand` is the message it took and has not written; `dpc`, `why` as above |
| `LoggerControl` | control, entities, the two factories, and routing | `level` and `mirror` are the two filters; `entity`, `made` and `registry` are the three views of what is mounted, kept by control, entity factory and appender factory; `pc` is where a caller is in Init, AddAppender, SetLogLevel, SetWrite, Flush or Close; `wpc` where a writer is |
| `Configuration` | the way of every setting | `config` is the singleton, `running` what Init has read, `restriction` and `task` the copies; `at` is the field that an Init is at |
| `LogCleaner` | schedule and retention, with the appenders that change the directory | `disk` is the directory, `current` the open files, `registered` what the factory knows; `phase`, `pass`, `todo` and `group` are where a pass is, `removed` and `refused` what became of its removals; `ticker` and `firsts` the goroutines |
| `LogLine` | the way of a message to its lines | `memory` has the fields of each message object, `basePool` and `escapePool` the pools; `call`, `object` and `todo` a caller's side, `queue` and `hand` a consumer's; `lines` what was written |
| `Statistics` | the counters | `nLine`, `nFrames`; `writer` is where one is in IncrementLine, `clearing` a Reset, `reading` a GetStats, one counter at a time |
| `FtpUpload` | a session of uploads, and a server | `replies` and `commands` on the control connection, `data`, and `client`, the step of the client |

`MCFileAppender`, `MCQueueAppender`, `MCLoggerControl` and `MCLogCleaner` have the values
of constants and the symmetry for TLC. `MCServices` extends `Configuration`, `LogLine`,
`Statistics` and `FtpUpload`, which share no name and no variable: the initial state picks
the unit that moves. The modules of proofs are in section 6.

One step is one critical section, one atomic access, one channel operation, or one line
written while `a.mu` is held. Where the code keeps a lock over several steps, the model
keeps a program counter at certain places, and whoever needs the lock asks for it:
`FileMutexFree` in `FileAppender`, `HoldsLogger`, `WritesControl` and `Flushing` in
`LoggerControl`, `runner` in `LogCleaner`, `LoggerFree` in `Configuration`.

*Appenders.* A message is its number in the order of acceptance, so order, loss
and repetition can be seen and the text cannot. Every line has a length (`Lengths`), and a
size is the cardinality of a set of bytes, of which more can be proved than of a sum. The
file that Init opens may hold something already, `found`, also more than the limit. `Handshake`
is a send and a receive on an unbuffered channel; `select` with several ready cases is a
choice between actions. A nil `a.file` drops the line, which `lost` counts: the code does
not. A file has no name: `disk` is the file at `szCurrentFile`, `past` what was renamed
away or cleared, or stands under a name that the appender has left: in time mode `openFile`
makes a name of the time of the call, and whether that is a new one is open (`Renamings`).
`Archive`, `Reopen` and `WriteLineLocked` choose the outcome of each
rename, remove and open when `IoMayFail`, since the code ignores most of them and goes on.
The restriction is switched on, as `Control.Init` leaves it. `Panic` of `QueueAppender` is
the panic of a send on a closed channel; whether the program dies or a `recover` of the
caller catches it, the model lets the others go on.

*Control.* An entity is a type and a number, since `ReleaseLoggerEntity` makes the factory
forget one entity of a type and `CreateEntity` make the next. An entity holds a set of
appenders; the order within an entity is left out. What Init has still to mount is a set
too, taken in `MountOrder`. `Closed` appenders drop what they are given; what an open one
does with it is the subject of the other modules, so Init and Start of an appender, and
their failure, are no steps here. A filter is a set of types, as each level belongs to a
type. Main is the exception, and is modelled as it is: `api.go` asks for Info's level at
the entry (161), route for the console's (`logger.go` 429).

*Configuration.* A setting is a number, 0 for zero, false and the empty string. Every
setter and getter is one section of the configuration's lock, so an Init can meet half of
a policy. The path of the error log is read by nothing, and `WithCallerSkip` keeps a copy
beside the configuration in an atomic: both are left out.

*Cleaner.* A name is a type, a form and a moment, so `typeKey` can be modelled as what it
does. `sortByModTime` is every sequence that `sort.Slice` may leave when the comparison is
no order any more, because some files are gone. A removal may fail (`Delete`), and the code
does not notice: `refused` has the files that a policy has tried in vain, and `Overdrawn` what
their sizes took off the total of a group that they are still in. Sizes are cardinalities
here too. Whether an interval is over is open at every moment. A moment is a second at
least, so a name of time mode is fresh at each; an open file that a pass has removed is not
rotated any more, since its appender has lost it already.

*Lines.* A layout is the sequence of its fields, and a line the sequence of their values,
each the number of the call it came from. `Reset` leaves the time as it is, as the code
does. `sync.Pool` may hand out any object it has, or a new one.

## 3. Runs

| run | question | instance | result |
|---|---|---|---|
| `file_appender` | order, Flush, UnInit, the limit of a file, refinement of `DurableLog` | 2 producers, 2 flushers, buffers of 2, lines of length 1, 2, 3 and 1, limit 2, a file found empty or with 3, time mode, 2 flushes, 1 admin call | holds |
| `file_appender_faults` | size and accounting with failing I/O and a Flush racing UnInit; liveness | 2 producers, 1 flusher, pending of 1, lines of length 1 and 2, limit 2, a file found with 1, fixed name | holds |
| `mount_window` | "so the swap is sequential" | Flush allowed before Start | violated |
| `shutdown_window` | "drained by Run on exit" | as the first, 3 lines | violated |
| `queue_appender` | nothing vanishes or is repeated, what a handshake finds; every message and call comes to its end | 2 senders, 1 flusher, capacity 1, 2 messages, 2 flushes | holds |
| `send_after_close` | "the channel stays valid for the duration of the send" | 1 sender | violated |
| `stop_without_drain` | "drain any pending messages, then exit" | 1 sender | violated |
| `logger_control` | mounting, levels, Close and the next Init, locks, what a message reaches | 2 callers, 1 writer, 5 calls, one file type, Main, one switch, console | holds |
| `levels_diverge` | "so the two can never diverge" | 2 callers, 3 calls, not orderly | violated |
| `log_cleaner` | limits, open files, a full pass per life, Close | 1 type and a leftover of a second, both modes, 3 moments, 2 lives, limits 1, 2 and 3, 2 failing removals per pass | holds |
| `open_file_removed` | "never removed" | as above, time mode, 4 moments, 1 life, limits 1, 2 and 2, 1 failing removal | violated |
| `message_services` | lines, owners, counters, upload, settings | see below | holds |

The bounds. Two producers are enough for one to be blocked, or to hold an old queue
pointer, while the other goes on; two flushers are enough for a handshake, a fallback
drain and Run to be under way together. Four lines, below, at and above a limit of two,
fill two generations of the file, take one past its limit, and leave lines in `pending`, in
a batch, in `bufw` and on disk at once; a file found with three is rotated before its first
line, and one found with one after it. Two messages and queues of one fill a queue and put a message in each side of a
swap. In `LoggerControl` five
calls are Init, off, on, Close and Init, or any others, by two goroutines, so two calls are under
way at once; one type with a file and one with a switch go through all that several would,
as types share nothing but Main and the locks. A message counts for two calls. Two of
the options differ in the filter, one with Main mounted and refused by route. In `LogCleaner` three moments
are two events out of mounts, rotations and packages, in either life and beside the files left
from before, and four are three of them; limits
of one file, two and three units make the count and the two size policies delete one after the
other; a leftover of a second type is counted in the global limit and not in the others.
Two removals that fail in one pass let the expiry and the count policy fail on one file,
or on two, and the books of a group be wrong by more than its limit.
`message_services` has two callers that log 2 calls among five kinds, over 6 objects and a
queue of one, with layouts and channels that are equal, different and missing; two writers,
2 lines and one Reset or report; two uploads in a session; and two callers with 3 calls among three
offers of options and four settings, some of them zero.

`MaxLines`, `MaxMessages`, `MaxFlushes`, `MaxAdmin`, `MaxCalls`, `MaxLives`, `LastMoment`, `MaxRefused`,
`MaxVisits`, `MaxUploads` and `Objects` bound the runs, nothing else. Runs with liveness
use no symmetry. `CHECK_DEADLOCK` is off because the calls are bounded and nobody has to
make them.

Every property has a mutant in `PROJECT.json`: a change of one definition that a
plausible bug would make (a token channel of capacity zero, a rotation that does not
flush, a consumer that acknowledges after one queue, a Close that does not wait for the
schedule, a cache that forgets the channel) and that TLC finds with the same
configuration. The mutated forms stand beside what they mutate.

## 4. The findings

* **The mount window.** `AddAppender` makes an appender reachable before its writer
  runs. A `Flush` in that window drains by itself and `Run`, started meanwhile, drains
  too. `writePending` recycles the batch storage on the ground that this cannot happen
  (`appender.go` 832-833).
* **The shutdown window.** `UnInit` closes `stopCh` before it sets `bClosedForWrite`.
  A line accepted in between can come after Run's last drain (629-630).
* **A send after the close.** The base `Write` sends outside `a.mu`; `UnInit` joins
  the consumer, not the senders, before it closes the channel (264-265).
* **A stop without a drain.** `Run` also ends through `for a.IsRunning()`, which
  `Stop` makes false, and then drains nothing (330).
* **Two filters.** `SetLogLevel` stores the two filters in two steps; two calls can
  leave them different (`early_filter.go` 18-19 says they never are). `OrderlyUse = FALSE`
  allows such calls.
* **An open file is removed.** In time mode, the default, a rotation opens a file of a
  new name. A pass that asked for the open files before it (`CYLoggerSchedule.go` 203) and
  lists the directory after it (211) takes that file for one that is not in use, and
  `LimitAllSize`, whose total is taken at 260 and never reduced by what the other policies
  removed (312), goes on until it removes it. Comments at 173-174 and 369 say that never
  happens. In append mode it does not: `KeepsOpenFiles`.

The runs of the control that hold assume `OrderlyUse`: the goroutine that sets levels and
switches does so after Init, and not beside another setter, Init or Close. The code has nothing that
would enforce it. Init, Close, Flush and writes may race, and do in the runs. The runs of
the cleaner assume that Close is not called before the first pass is over
and that nothing is mounted by a switch: that pass is a goroutine that
`StopSchedule` does not wait for (499), against its comment.

`Main(...)` with `LogFilterWarnsAndErrors` passes the entry, where it counts as Info, and is
refused by route, where it counts as the console (`logger_test.go` 75 asserts the latter).
`Reaches` states this as it is: both levels must be on.

What is kept, in spite of these: a line that the file appender accepted before `UnInit`
**was called** is in the file when it ends (`UnInitWritesEarlierLines`), used through the
logger. Nothing of the kind holds for the console: `StopDrains` is violated.

A reader of `HandshakeFlushes` will notice "or in the hand of another Flush": a Flush
that finds Run busy drains on its own goroutine, and another Flush served by Run at
the same time returns while that one still writes. The Flush that drains by itself promises
less: it returns before Run has written the message in its hand, and what it writes
overtakes that message, so on this path neither order nor completeness holds of the code
(`appender.go` 245). `WrittenOnce` and `NothingVanishes` are what is left.

A file may be larger than the restriction: the test (`common.go` 1055) comes before a line
of any length. `GenerationBounded` says that no line is added at or beyond the limit. A full
pass may end above its limits: `LimitsHold` says that it does so only by files that the
policy could not remove and, in a group, by the sizes that failed removals took off its total.

What the liveness properties exempt, they exempt because the code does not do it. An
appender whose Init failed has no writer (`NeverStarted`): the producer that fills its
buffer sleeps until shutdown. `RunsAsConfigured` speaks of an Init
that nothing is stored beside: otherwise what Init took may be half of each.
`UploadOkMeansStored` holds until an upload of the session fails (`failed`): a session
that is used again after an aborted transfer reads the old reply as its next. `UploadFile`
makes one upload per session, so it never does that.

Places where a comment or a document says something else, found while modelling and not
worth a run:

* `SetFilter(nil)` does not fall back to the default filter (`api.go` 786-789); no appender's
  filter reaches a layout anyway, since nothing sets `escape` of a layout, so filters have
  no visible effect. `SetLayout` and `SetFilter` reach only what is mounted afterwards.
* "When omitted, sane defaults are applied automatically during Init" (`api.go` 526-529):
  the configuration keeps the options of the life before.
* The task's setters of the two intervals refuse zero, so the interval of the life before
  stays; `SetRestriction` at run time does not reach the task at all.
* Two concurrent `WithCallerSkip` can leave the configuration and the atomic different.
* `AddAppender(LogTypeNone)` gets a console appender that its constructor has started
  (`appender.go` 453-460) and starts it again (`logger.go` 328): the WaitGroup counts two
  goroutines and runs one, and the next Close never returns.
* "Drain any remaining messages before exiting" (`appender.go` ~1354): `UnInit` of the
  system appender closes the writer at once, so the drain writes into a closed one.
* The retention limits per type hold per group: `typeKey` cuts the archives of append mode
  at the day.

## 5. Fairness

`Fairness` of each module names what liveness rests on: a goroutine that can run is
run; `sync.Mutex` hands over after a millisecond of starvation; `select` chooses at
random among its ready cases, so a case that is ready again and again is chosen (strong
fairness of `TakeStop`, `Handshake`, and of the cases of the queue consumer); a ticker
ticks. `Handshake` of the queue appender has no strong fairness: `Flush` tries it once and
falls back (`default`). In `LoggerControl` a goroutine inside a call goes on
(weak fairness of `CallerStep` and `WriterStep`), and every lock is free in the end because calls are bounded
and each is given up. In `LogCleaner` a pass, Init and Close go on (weak); whoever waits
for `runMu` gets it (strong fairness of `Begin`), and a goroutine that finds a tick and the
stop signal ready again and again takes the stop (strong fairness of `TickerExit`).
Nobody is obliged to call Write, Flush or UnInit, or anything of the control. An endless
stream of lines can keep a draining Flush busy for ever in the code; the bound on the
messages excludes that.

## 6. Proofs

The theorems hold for all producers, flushers, callers, types, options, capacities, limits,
settings and numbers of calls. They assume what the modules `ASSUME`: the writer is nobody
else, capacities and limits are positive, lengths are numbers and there is one, there is a caller. Some hold for a discipline of
use, in the statement of the theorem: `Disciplined` is `EntityLock` (Flush and UnInit
exclude each other) and `FlushStages \subseteq {"started"}` (no Flush in the mount
window); `~IoMayFail` where a failed open would make the promise void; `OrderlyUse` as in
section 4; `SettingsAssumption`, that settings are numbers and options have the form of
one of the setters; `LeftoverAssumption`, that what an earlier process left is finitely
many files, named by moments that were over, or just now, when the next one starts; and
that the marks for nothing (no file, no object) are nothing else.

`FileAppenderProofs`
: `TypeCorrect` is inductive as it stands, and so is the formula of `BlockedMeansFull`.
  `SizeCorrect` needs `SizeInv`: a nil file has nothing buffered, and before Init there is
  nothing at all. It rests on the lemmas `SizeAppend` and `SizeConcat`, which say of sets of
  bytes what one expects of sums. `GenerationIsBounded` is inductive with it: `Below` looks at
  a file line by line, so a line of any length may be added (`BelowAppend`) when what is there is
  below the limit, and the size, which is what the code compares, is what is there. `NoWakeupIsLost` follows from `Announced`: a non-empty `pending` has a token, a
  producer about to send one, or Run about to swap, wherever Run is.

  `SwapSequential` rests on `SerialInv`, which says where Run and the flushers can be and
  when they hold a batch: a flusher drains only when it found Run not running, and under
  the discipline that is never so while Flush can be called. `OrderInv` says that archive,
  file, buffer, the batch of the one thread that has one, and `pending` are, one after the
  other, the numbers up to `accepted` (with gaps for discarded lines). `MarkInv` relates
  the place of each flusher to the lines it waits for, and `NothingLost` says that without
  I/O errors nothing is discarded. From these: `FilesInOrder`, `LinesAccounted`,
  `FlushIsDurable`, `UnInitIsDurable`, and `ImplementsLog`, the refinement of `DurableLog`,
  action by action.

`QueueAppenderProofs`
: `CloseInv` tells what each stage of UnInit knows of the consumer, the flushers
  and the queue pointer: `TypeCorrect` needs it, since a nil pointer must not be used as a
  queue, and `QueuesClosedWithoutReceivers` is part of it. `Moved` is what any step does to
  the messages; with it `NoMessageVanishes` is one case analysis. `HandshakeFlushesAll` rests
  on `FlushInv`: while a flusher waits, Run is at one of four places, and behind each of
  them one more queue holds none of the flusher's messages. The former front queue stays
  so because later sends carry larger numbers. `StepKinds` sorts every step as a send, a
  take, a write or nothing of them, and `WritesOnce` follows from `OnceInv`: a number is at
  one place only, in a queue, in one hand, or once in the output.

`LoggerControlProofs`
: `TypeCorrect` adds that an entity or appender that a call, a Close or a writer has kept
  exists: appenders and entities are only added. `FiltersAgree` rests on `Orderly`: a place
  belongs to its call, a setter is alone, and **at most one caller is anywhere where
  something is changed**, which is what `l.mu` and `OrderlyUse` give together. Then
  `FiltersMove` is inductive: while a call is between its two stores, the first filter is
  the one that it will store.

  With at most one caller changing anything, what is mounted can be described by the place
  of that one (`OthersStill`). `Holding` is what the entity factory has of a type.
  `HeldSound`: only the factory's entities hold appenders, one at most, open and of the
  entity's type. `Sound` relates the control, the registry and the open appenders to that,
  with the exceptions of the places between the steps of AddAppender and UnInit;
  `Mounting` and `Closing` are what a call knows that mounts or shuts down. From
  these `OneLive`, `OneViewAlways` and `CloseLeavesNothing`. `FilesFollow` adds `Life`
  (without `bInit` only an Init at work has mounted anything) and `Plan` (what it
  has mounted and what it has still to mount are together what it planned).

  `MessageReaches` looks at the writers, who hold no lock between two entities. `RouteOK`
  says of each what it has collected and reached: at most one appender of a type,
  and none of a type that it has still to ask for. That must survive a mount or a release
  while the message is on its way, which is why it needs the whole of `MountInv`. `QuietOK`
  says that a message which no call has disturbed has reached, has copied, or will still
  find, exactly the open appenders that are due. `FlagsOK` (both flags are set only while a
  Close is at work) is what its first check needs.

`LogCleanerProofs`
: `Housed` says in which stages of the logger each goroutine exists: a first pass only
  between Init and Close, by `OrderlyUse`; the scheduled one until Close has waited for it.
  So no pass runs while an appender is mounted or unregistered. `Known` then says that from
  the collection on every open file is in use for the pass, since a rotation in append mode
  brings the same name back, and that what is listed for removal is not in use:
  `OpenFilesSurvive`. `EveryLifeIsCleaned` needs `CleanInv`: while the full pass is owed, the
  marker is set, a pass that runs has read it, and one of those that Init spawned is to come
  or at work. Neither looks at the order of the files, so the sorting stays unexpanded.
  `FullPassLimits` does: that a size policy ends below its limit means that the files it
  tried suffice, those that refused counted with them. `Names` says that a rotation never
  brings back a name that a pass has removed, `Sizes` that everything is finite, and `Tidy`
  that what was removed stays away and that the groups which a full pass has treated are
  within their limits (`Limited`), but for what refused and what the books of a group are
  short of. Later steps of the pass keep that, since they only remove files
  (`NothingGrows`) and only add refusals (`BooksWorsen`).

`LogLineProofs`
: `OwnInv` gives each message object one place: a pool, a caller, a queue or a consumer.
  That is `OneOwnerHolds`. `Content` then says what is in it: in a pool, what `Reset` leaves;
  elsewhere the fields of one call of the log, with no cache or the line of that very message
  under the layout, channel and escape flag that the cache names. So a hit gives what rendering
  would have given, and `LinesAreTheirOwnHolds`.

`StatisticsProofs`
: The counters are numbers, but what keeps them together is which lines they stand for.
  `StatsInv` says that there are such sets: each line has a type, each counter stands for a
  set of lines of its size, and a line that no Reset ran into is in a set exactly when the
  writer is past that counter. `CountsAgreeHolds` compares sizes of sets that differ by the
  lines that a Reset ran into; what a report has read is bounded the same way.

`FtpUploadProofs`
: `InStep`, until an upload fails: at each step of the client, what is unread on the
  connection, what the server has still to answer and whether it is in a transfer. Its
  core is `AddressIsLast`: the address of a 227 is the last reply there is, so everything
  before it has been read when the data connection is dialled. The login need not be in
  step, so no greeting or refusal is excluded.

`ConfigurationProofs`
: `RunsOnConfiguration` from an invariant over the place of the one Init that holds `l.mu`:
  the fields before `at` are read, the settings before `at` are asserted, and while `quiet`
  they are the configuration's. The positive period needs that the configuration's and
  the task's are always positive.

Every safety property of the runs that hold is stated by a theorem. Only model-checked
are the liveness properties: `EventuallyDurable`, `FlushReturns`, `BlockedIsReleased` and
`UnInitCompletes` of the file appender, `EventuallyWritten`, `FlushReturns` and
`UnInitCompletes` of the queues, `CallsReturn` and `StopReturns`. Their proofs need
ENABLED, which TLAPS does not treat.

Induction over data is out of reach as a rule, for the same tool. Two devices stand in for
it. Where a loop stops at the first index that suffices, the proof takes the least such
index, which exists since the order of the numbers is well-founded (`WFMin`,
`NatLessThanWellFounded`). Where the code adds up a total, the model takes the cardinality
of a set of units, for which the theorems on finite sets give what a sum would need
induction for.

## 7. What could come next

1. An abstract specification of the control (a set of mounted types and one level), which
   `LoggerControl` implements between calls.
2. A composition of control and appenders: Write through route into two appenders, with
   UnInit in between; the public AddAppender with it.

## 8. Not modelled

* The system, remote and buffer appenders replace parts of the base: the system appender
  has a queue and Run of its own, the remote one reconnects, the buffer one sorts. The
  buffer's queues are not reachable through the library. The remote appender's `reconnectLoop`
  ends after its first success, and `connect` overwrites a connection without closing it.
  Their hazards are listed. Console and remote define a `doWrite` of their own, which the base's
  `writeMessage` never reaches, as Go embedding does not dispatch to it; `WriteMessage`
  models the base's.
* Names of archives in `FileAppender` (they carry microseconds or a sequence number), write
  errors of `bufio.Writer`, the byte at which it spills (its capacity is in lines; `size`
  counts what is buffered, so no size depends on it), the counters of statistics within Write, and
  the identity of the recycled batch storage, for which `SwapIsSequential` stands.
* The public `AddAppender` (a second appender of a type, which `Entity.Init` makes the first
  re-open; `LogTypeNone`, section 4).
* A second call of `UnInit`, which the control excludes by clearing its registries.
* The text of a line: how a field is formatted, hex dumps, escapes; the chain of filters,
  which is a sequential list that no line passes; the registration of layouts.
* Bytes, queue lengths and averages of the statistics, which go the way of lines or are
  quotients, and lines of a type outside the switch of `IncrementLine` (`LogTypeNone`), which
  count in the total only.
* `CYNamedCondition`: nothing in the library waits on one. The exceed and time marks,
  `CheckFileSize` and `GetNewLogName` of the restriction: called by nothing.
* Exception reports and the simple log (one mutex around a file write each), encryption,
  and re-exported names: values without behaviour over time.
