--------------------------- MODULE Configuration ---------------------------
(***************************************************************************)
(* The way of a setting: from the options of InitDefaultWithOpts and the   *)
(* setters of Core/config.go into the configuration, a singleton that      *)
(* outlives Close, and from there, by Init, into the control, into its     *)
(* restriction, which the file appenders share, and into the cleanup task  *)
(* of the schedule, which outlives Close too.                              *)
(*                                                                         *)
(* Every setter and getter is a section of the configuration's lock of its *)
(* own, so a step stores one option or reads one field.  A setting is a    *)
(* number: 0 stands for zero, false and the empty string.  What nothing in *)
(* the library reads is left out: the path of the error log, and the skip  *)
(* of frames, which is kept a second time beside the configuration.        *)
(***************************************************************************)
EXTENDS Integers, Sequences, FiniteSets, Functions

CONSTANTS
  Callers,   \* goroutines that configure, initialise and close the logger
  Cwd,       \* the working directory, for an empty path
  Offers,    \* the arguments of InitDefaultWithOpts that are used
  Tunings,   \* what is stored or set at run time
  MaxCalls   \* bound of the model: calls

VARIABLES
  config,      \* CYLoggerConfig
  running,     \* what Init has read, and the control and its appenders use
  restriction, \* c.restriction, shared with the file appenders
  task,        \* the settings of schedule.clearTask, NoTask if it is nil
  bInit,
  pc,          \* where each caller is
  options,     \* the options it has still to store
  at,          \* how far its Init is in the fields, or in the task's settings
  quiet,       \* history: nothing was stored or set since its Init began
  calls        \* calls, for the bound

vars == <<config, running, restriction, task, bInit, pc, options, at, quiet, calls>>

\* The ten settings of SetRestriction.
Policy == {"enable", "clear", "clearTime", "expired", "sizeTime", "countTime",
           "size", "count", "typeSize", "allSize"}

\* What Init reads, in this order: the thread ids, the arguments of
\* control.Init, the layout, the level, Main, and the policy.
ReadOrder == <<"thread", "path", "console", "remote", "sys", "mode", "addr",
               "layout", "level", "main",
               "enable", "clear", "clearTime", "expired", "sizeTime", "countTime",
               "size", "count", "typeSize", "allSize">>

\* What a remote appender reads when it is made, and the schedule at its
\* start, comes on top.
Fields == Range(ReadOrder) \cup {"proto", "period"}

\* The settings of the task in the order in which Init asserts them.
AssertOrder == <<{"path"}, {"expired"}, {"period"}, {"enable"}, {"count", "typeSize", "allSize"},
                 {"sizeTime"}, {"countTime"}, {"clear"}>>
TaskFields == UNION Range(AssertOrder)

\* The defaults: no path, the sinks other than files off, all else on or 1.
Defaults == [f \in Fields |-> IF f \in {"thread", "path", "console", "remote", "sys"} THEN 0 ELSE 1]
TaskDefaults == [f \in TaskFields |-> 1]
NoTask == <<>>

Init ==
  /\ config = Defaults
  /\ running = [f \in Fields |-> 0]
  /\ restriction = [f \in Policy |-> 1]
  /\ task = NoTask
  /\ bInit = FALSE
  /\ pc = [c \in Callers |-> "idle"]
  /\ options = [c \in Callers |-> <<>>]
  /\ at = [c \in Callers |-> 0]
  /\ quiet = [c \in Callers |-> FALSE]
  /\ calls = 0

-----------------------------------------------------------------------------
(* The setters of the configuration *)

\* An option is a function of the fields that it sets.  Most setters of one
\* field store what they get; these refuse zero, and the empty address.
Guarded == {"addr", "period", "expired", "sizeTime", "countTime", "size", "count", "typeSize", "allSize"}

SetLogPath(cfg, v) == [cfg EXCEPT !["path"] = IF v = 0 THEN Cwd ELSE v]

SetOne(cfg, f, v) ==
  IF f = "path" THEN SetLogPath(cfg, v)
  ELSE IF f \in Guarded /\ v <= 0 THEN cfg
  ELSE [cfg EXCEPT ![f] = v]

\* SetRestriction takes the ten as they come; its clear time, if it has one,
\* becomes the period.
SetRestriction(cfg, policy) ==
  [f \in Fields |->
     IF f \in Policy THEN policy[f]
     ELSE IF f = "period" /\ policy["clearTime"] > 0 THEN policy["clearTime"]
     ELSE cfg[f]]

Stored(cfg, option) ==
  IF DOMAIN option = Policy THEN SetRestriction(cfg, option)
  ELSE LET f == CHOOSE g \in DOMAIN option : TRUE IN SetOne(cfg, f, option[f])

-----------------------------------------------------------------------------
(* Calls *)

Goto(c, place) == pc' = [pc EXCEPT ![c] = place]
Called(c) == pc[c] = "idle" /\ calls < MaxCalls /\ calls' = calls + 1
Disturb == quiet' = [c \in Callers |-> FALSE]

\* Init holds l.mu from its second check of bInit to its end.
LoggerFree == \A c \in Callers : pc[c] \notin {"read", "policy", "schedule", "assert", "done"}

\* InitDefaultWithOpts and its options, the path first.
InitDefaultWithOpts(c) ==
  /\ Called(c)
  /\ \E offer \in Offers : options' = [options EXCEPT ![c] = offer]
  /\ Goto(c, "store")
  /\ UNCHANGED <<config, running, restriction, task, bInit, at, quiet>>

StoreOption(c) ==
  /\ pc[c] = "store" /\ options[c] # <<>>
  /\ config' = Stored(config, Head(options[c]))
  /\ options' = [options EXCEPT ![c] = Tail(@)]
  /\ Disturb
  /\ UNCHANGED <<running, restriction, task, bInit, pc, at, calls>>

\* The checks of bInit without and with the lock: what was stored stays
\* stored when the logger is initialised already.
InitLock(c) ==
  /\ pc[c] = "store" /\ options[c] = <<>> /\ (bInit \/ LoggerFree)
  /\ IF bInit
       THEN Goto(c, "idle") /\ UNCHANGED <<at, quiet>>
       ELSE /\ Goto(c, "read")
            /\ at' = [at EXCEPT ![c] = 1]
            /\ quiet' = [quiet EXCEPT ![c] = TRUE]
  /\ UNCHANGED <<config, running, restriction, task, bInit, options, calls>>

\* A setter is called by itself: by SetWriteRemote, SetWriteSys, SetLogLevel
\* and SetConfig, or on the configuration, which is public.
Set(c) ==
  /\ Called(c)
  /\ \E option \in Tunings : config' = Stored(config, option)
  /\ Disturb
  /\ UNCHANGED <<running, restriction, task, bInit, pc, options, at>>

\* SetRestriction of the logger sets the control's restriction, not the
\* configuration and not the task.
SetRunningRestriction(c) ==
  /\ Called(c)
  /\ \E option \in Tunings : DOMAIN option = Policy /\ restriction' = option
  /\ Disturb
  /\ UNCHANGED <<config, running, task, bInit, pc, options, at>>

Close(c) ==
  /\ Called(c) /\ LoggerFree /\ bInit
  /\ bInit' = FALSE
  /\ UNCHANGED <<config, running, restriction, task, pc, options, at, quiet>>

-----------------------------------------------------------------------------
(* Init *)

\* The fields are read one by one.  A remote appender, made after Main's,
\* reads the protocol.
ReadField(c) ==
  LET f == ReadOrder[at[c]] IN
  /\ pc[c] = "read"
  /\ running' = IF f = "main" /\ running["remote"] # 0
                  THEN [running EXCEPT ![f] = config[f], !["proto"] = config["proto"]]
                  ELSE [running EXCEPT ![f] = config[f]]
  /\ IF at[c] < Len(ReadOrder)
       THEN at' = [at EXCEPT ![c] = @ + 1] /\ UNCHANGED pc
       ELSE at' = [at EXCEPT ![c] = 1] /\ Goto(c, "policy")
  /\ UNCHANGED <<config, restriction, task, bInit, options, quiet, calls>>

\* control.SetRestriction, with the ten that were read.
ApplyPolicy(c) ==
  /\ pc[c] = "policy"
  /\ restriction' = [f \in Policy |-> running[f]]
  /\ Goto(c, "schedule")
  /\ UNCHANGED <<config, running, task, bInit, options, at, quiet, calls>>

\* The schedule makes its task once.
ScheduleInit(c) ==
  /\ pc[c] = "schedule"
  /\ task' = IF task = NoTask
               THEN [TaskDefaults EXCEPT !["path"] = running["path"], !["expired"] = config["expired"]]
               ELSE task
  /\ Goto(c, "assert")
  /\ UNCHANGED <<config, running, restriction, bInit, options, at, quiet, calls>>

\* Mutant: the directory is the task's own business once it has been made.
SourceAtMaking(f) ==
  IF f = "path" THEN task[f]
  ELSE IF f \in {"expired", "period", "enable"} THEN config[f]
  ELSE restriction[f]

\* Where Init takes a setting of the task from.
Source(f) ==
  IF f = "path" THEN running[f]
  ELSE IF f \in {"expired", "period", "enable"} THEN config[f]
  ELSE restriction[f]

\* The setters of the task; those of a time refuse zero.
Asserted(f) == IF f \in {"period", "sizeTime", "countTime"} /\ Source(f) <= 0 THEN task[f] ELSE Source(f)

AssertSetting(c) ==
  /\ pc[c] = "assert" /\ at[c] <= Len(AssertOrder)
  /\ task' = [f \in TaskFields |-> IF f \in AssertOrder[at[c]] THEN Asserted(f) ELSE task[f]]
  /\ at' = [at EXCEPT ![c] = @ + 1]
  /\ UNCHANGED <<config, running, restriction, bInit, pc, options, quiet, calls>>

\* The schedule starts and Init is over.
InitDone(c) ==
  /\ pc[c] = "assert" /\ at[c] > Len(AssertOrder)
  /\ bInit' = TRUE
  /\ at' = [at EXCEPT ![c] = 0]
  /\ Goto(c, "done")
  /\ UNCHANGED <<config, running, restriction, task, options, quiet, calls>>

InitReturn(c) ==
  /\ pc[c] = "done"
  /\ Goto(c, "idle")
  /\ quiet' = [quiet EXCEPT ![c] = FALSE]
  /\ UNCHANGED <<config, running, restriction, task, bInit, options, at, calls>>

Next ==
  \E c \in Callers :
    \/ InitDefaultWithOpts(c) \/ StoreOption(c) \/ InitLock(c)
    \/ Set(c) \/ SetRunningRestriction(c) \/ Close(c)
    \/ ReadField(c) \/ ApplyPolicy(c) \/ ScheduleInit(c) \/ AssertSetting(c)
    \/ InitDone(c) \/ InitReturn(c)

Spec == Init /\ [][Next]_vars

-----------------------------------------------------------------------------
(* Properties *)

\* When an Init that nothing was stored beside ends, the logger runs on the
\* configuration, and the control, its restriction and the task of the
\* schedule agree about it: nothing of the life before is left, neither in
\* the task, which outlived it, nor in the restriction (logger.go 219-222).
\* Only the two intervals of the task stay as they were if the configured
\* one is not positive.  The period of the ticker, which must be positive,
\* is never in doubt, whatever SetRestriction was called with (config.go
\* 387-392).
RunsAsConfigured ==
  \A c \in Callers : pc[c] = "done" /\ quiet[c] =>
    /\ \A f \in Range(ReadOrder) : running[f] = config[f]
    /\ running["remote"] # 0 => running["proto"] = config["proto"]
    /\ \A f \in Policy : restriction[f] = config[f]
    /\ \A f \in TaskFields : task[f] = config[f] \/ (f \in {"sizeTime", "countTime"} /\ config[f] <= 0)
    /\ task["period"] > 0
=============================================================================
