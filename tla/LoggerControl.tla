--------------------------- MODULE LoggerControl ---------------------------
(***************************************************************************)
(* The logger's control: Init, Close, Flush, SetLogLevel, SetWriteRemote   *)
(* and SetWriteSys of api.go and Logger/logger.go, with the entities of    *)
(* Entity/entity.go and the registry of Appender/appender.go that they     *)
(* change, and the routing of a message to its appenders.                  *)
(*                                                                         *)
(* One step is one section of a mutex, or one atomic load or store.  A     *)
(* lock that a call keeps across several steps is held while the call is   *)
(* at one of the places that HoldsLogger, WritesControl, ... name.  What   *)
(* an appender does with a message is the subject of FileAppender and      *)
(* QueueAppender: here it is only reached or not.                          *)
(***************************************************************************)
EXTENDS Integers, Sequences, FiniteSets, Functions

CONSTANTS
  Callers,     \* goroutines that configure, flush and close the logger
  Writers,     \* goroutines that log
  FileOrder,   \* the types with a level and a file, in the order of mounting
  Main,        \* the type that aggregates the others
  SwitchOrder, \* the types mounted by a switch: sys and remote
  Console,     \* the type of the console; its level is Main's in route
  Info,        \* the type whose level is Main's at the entry
  MountMain,   \* the option WithMountMain
  Options,     \* the level filters, as sets of types, and switches that are used
  OrderlyUse,  \* SetLogLevel, SetWriteRemote and SetWriteSys are called after
               \* Init, and not beside each other or beside Init and Close
  MaxCalls     \* bound of the model: calls by Callers

Files    == Range(FileOrder)
Switches == Range(SwitchOrder)
Types    == Files \cup Switches \cup {Main, Console}

ASSUME TypesAssumption ==
  /\ Info \in Files
  /\ Main # Console /\ {Main, Console} \cap (Files \cup Switches) = {}
  /\ Files \cap Switches = {}
  /\ IsInjective(FileOrder) /\ IsInjective(SwitchOrder)
  /\ Options \subseteq [filter : SUBSET (Types \ {Main}), on : SUBSET (Switches \cup {Console})]
ASSUME CallersAssumption == Callers # {}
ASSUME BoundAssumption == MaxCalls \in Nat
ASSUME ModeAssumption == MountMain \in BOOLEAN /\ OrderlyUse \in BOOLEAN

VARIABLES
  bound,      \* l.control and l.config are set
  bInit, bExit,
  config,     \* of CYLoggerConfig: the level filter and the switches
  level,      \* c.eLogLevel
  mirror,     \* gLevelFilter
  consoleApp, \* c.consoleApp, NoApp if nil
  entity,     \* c.entities: per type, the number of an entity
  made,       \* the entity factory's map, NoEntity if deleted
  appenders,  \* per type and number of an entity, the set of appenders it holds
  apps,       \* per appender ever created, its type and its state
  registry,   \* the appenders the appender factory knows
  op,         \* what each caller has called
  pc,         \* where in that call it is
  filter,     \* the level filter it stores
  todo,       \* the types it has still to mount, or switches still on
  new,        \* the type it mounts or releases, the appender and its entity
  ents,       \* the entities it has still to shut down
  wpc,        \* what each writer is doing
  message,    \* its message: the type, and the function it came through
  targets,    \* the entities it has still to write to
  snapshot,   \* the appenders of the entity that it has still to write to
  reached,    \* history: the appenders that took its message
  quiet,      \* history: no call has changed the logger since its call began
  calls       \* calls of Callers, for the bound

lifeVars  == <<bound, bInit, bExit>>
levelVars == <<level, mirror>>
mountVars == <<consoleApp, entity, made, appenders, apps, registry>>
callVars  == <<op, pc, filter, todo, new, ents>>
writeVars == <<wpc, message, targets, snapshot, reached>>
settings  == <<lifeVars, config, levelVars>>
elsewhere == <<writeVars, quiet, calls>>
vars == <<settings, mountVars, callVars, elsewhere>>

NoApp    == 0
NoEntity == 0
NoNew    == [type |-> Console, app |-> NoApp, ent |-> NoEntity]
NoMessage == [type |-> Main, via |-> "macro"]

Init ==
  /\ bound = FALSE /\ bInit = FALSE /\ bExit = FALSE
  /\ config = [filter |-> Types \ {Main}, on |-> {}]
  /\ level = Types \ {Main}
  /\ mirror = Types \ {Main}
  /\ consoleApp = NoApp
  /\ entity = [t \in Types |-> 1]
  /\ made = [t \in Types |-> 1]
  /\ appenders = [t \in Types |-> << {} >>]
  /\ apps = <<>>
  /\ registry = {}
  /\ op = [c \in Callers |-> "none"]
  /\ pc = [c \in Callers |-> "idle"]
  /\ filter = [c \in Callers |-> {}]
  /\ todo = [c \in Callers |-> {}]
  /\ new = [c \in Callers |-> NoNew]
  /\ ents = [c \in Callers |-> {}]
  /\ wpc = [w \in Writers |-> "idle"]
  /\ message = [w \in Writers |-> NoMessage]
  /\ targets = [w \in Writers |-> <<>>]
  /\ snapshot = [w \in Writers |-> {}]
  /\ reached = [w \in Writers |-> <<>>]
  /\ quiet = [w \in Writers |-> FALSE]
  /\ calls = 0

-----------------------------------------------------------------------------
(***************************************************************************)
(* The locks that are held across steps: l.mu by Init and UnInit, c.mu by  *)
(* control.UnInit (for writing) and control.Flush (for reading), and the   *)
(* entity factory's f.mu by FlushAll (for reading).                        *)
(***************************************************************************)
HoldsLogger(c) ==
  \/ op[c] = "init"  /\ pc[c] \notin {"init", "lock"}
  \/ op[c] = "close" /\ pc[c] \in {"exit", "reset", "collect", "shut"}
\* Mutated: Init keeps c.mu from the console to its end.
WritesControlInInit(c) ==
  \/ pc[c] \in {"reset", "collect", "shut"}
  \/ op[c] = "init" /\ pc[c] \notin {"init", "lock", "console"}

WritesControl(c) == pc[c] \in {"reset", "collect", "shut"}
Flushing(c)      == pc[c] = "flushing"

LoggerFree  == \A c \in Callers : ~HoldsLogger(c)
ControlFree == \A c \in Callers : ~WritesControl(c) /\ ~Flushing(c)
ControlRead == \A c \in Callers : ~WritesControl(c)
FactoryFree == \A c \in Callers : ~Flushing(c)

Open(a) == apps[a].open
Closed(S) == [a \in DOMAIN apps |-> [apps[a] EXCEPT !.open = @ /\ a \notin S]]
Created(t) == Append(apps, [type |-> t, open |-> TRUE])

\* Entity.UnInit: the appenders are shut down, unregistered and dropped.
ShutEntity(t, n) ==
  LET held == appenders[t][n] IN
  /\ apps' = Closed(held)
  /\ registry' = registry \ held
  /\ appenders' = [appenders EXCEPT ![t][n] = {}]

Goto(c, place) ==
  /\ pc' = [pc EXCEPT ![c] = place]
  /\ UNCHANGED op
Return(c) ==
  /\ pc' = [pc EXCEPT ![c] = "idle"]
  /\ op' = [op EXCEPT ![c] = "none"]

\* May `name` be called while another goroutine is in a call of `other`?
Beside(name, other) ==
  \/ name = "flush" \/ other \in {"none", "flush"}
  \/ {name, other} \cap {"level", "on", "off"} = {}

\* A goroutine calls one of the functions of api.go.
Call(c, name, place) ==
  /\ pc[c] = "idle" /\ calls < MaxCalls
  /\ OrderlyUse => \A d \in Callers \ {c} : Beside(name, op[d])
  /\ calls' = calls + 1
  /\ op' = [op EXCEPT ![c] = name]
  /\ pc' = [pc EXCEPT ![c] = place]
  /\ quiet' = [w \in Writers |-> quiet[w] /\ name = "flush"]
  /\ UNCHANGED <<lifeVars, levelVars, mountVars, ents, writeVars>>

-----------------------------------------------------------------------------
(* Init *)

\* InitDefaultWithOpts: the options are stored before anything is checked.
InitCall(c, f, on) ==
  /\ Call(c, "init", "init")
  /\ config' = [filter |-> f, on |-> on]
  /\ UNCHANGED <<filter, todo, new>>

\* The check of bInit without the lock.
InitCheck(c) ==
  /\ pc[c] = "init"
  /\ IF bInit THEN Return(c) ELSE Goto(c, "lock")
  /\ UNCHANGED <<settings, mountVars, filter, todo, new, ents, elsewhere>>

\* The check under l.mu.  What the options switch on is read here.
InitLock(c) ==
  /\ pc[c] = "lock" /\ LoggerFree
  /\ IF bInit
       THEN Return(c) /\ UNCHANGED <<bound, todo>>
       ELSE /\ Goto(c, "console")
            /\ bound' = TRUE
            /\ todo' = [todo EXCEPT ![c] = config.on]
  /\ UNCHANGED <<bInit, bExit, config, levelVars, mountVars, filter, new, ents, elsewhere>>

\* The console appender is replaced or dropped, in one section of c.mu.
InitConsole(c) ==
  LET show == Console \in todo[c]
      old  == Closed({consoleApp}) IN
  /\ pc[c] = "console" /\ ControlFree
  /\ apps' = IF show THEN Append(old, [type |-> Console, open |-> TRUE]) ELSE old
  /\ consoleApp' = IF show THEN Len(apps) + 1 ELSE NoApp
  /\ todo' = [todo EXCEPT ![c] = @ \ {Console}]
  /\ filter' = [filter EXCEPT ![c] = config.filter]
  /\ Goto(c, "level")
  /\ UNCHANGED <<settings, entity, made, appenders, registry, new, ents, elsewhere>>

\* Main is mounted when it is wanted and some level is on.
Planned == (Files \cap level) \cup (IF MountMain /\ level # {} THEN {Main} ELSE {})

\* Init reads the level back and decides what to mount.
InitPlan(c) ==
  /\ pc[c] = "plan" /\ ControlRead
  /\ todo' = [todo EXCEPT ![c] = Planned \cup @]
  /\ Goto(c, "next")
  /\ UNCHANGED <<settings, mountVars, filter, new, ents, elsewhere>>

HasAppender(t) == appenders[t][entity[t]] # {}

\* The types are mounted in this order.
MountOrder == FileOrder \o <<Main>> \o SwitchOrder
Before(t, u) == \E i, j \in DOMAIN MountOrder : i < j /\ MountOrder[i] = t /\ MountOrder[j] = u

\* The next type, unless hasAppender finds it mounted.
InitNext(c) ==
  /\ pc[c] = "next" /\ ControlRead
  /\ \E t \in todo[c] :
       /\ \A u \in todo[c] \ {t} : Before(t, u)
       /\ todo' = [todo EXCEPT ![c] = @ \ {t}]
       /\ IF HasAppender(t)
            THEN UNCHANGED <<op, pc, new>>
            ELSE Goto(c, "create") /\ new' = [new EXCEPT ![c].type = t]
  /\ UNCHANGED <<settings, mountVars, filter, ents, elsewhere>>

\* Mutated: the exit flag of the last Close stays set.
InitFinishStillClosed(c) ==
  /\ pc[c] = "next" /\ todo[c] = {} /\ ControlFree
  /\ bInit' = TRUE
  /\ Return(c)
  /\ UNCHANGED <<bound, bExit, config, levelVars, mountVars, filter, todo, new, ents, elsewhere>>

\* The schedule is started under c.mu; then writes are accepted.
InitFinish(c) ==
  /\ pc[c] = "next" /\ todo[c] = {} /\ ControlFree
  /\ bExit' = FALSE
  /\ bInit' = TRUE
  /\ Return(c)
  /\ UNCHANGED <<bound, config, levelVars, mountVars, filter, todo, new, ents, elsewhere>>

-----------------------------------------------------------------------------
(* AddAppender, called by Init and by SetWriteRemote and SetWriteSys *)

\* CreateAppender, then CreateEntity, which finds the entity or makes one.
CreateEntity(c) ==
  LET t == new[c].type
      n == IF made[t] = NoEntity THEN Len(appenders[t]) + 1 ELSE made[t] IN
  /\ pc[c] = "create" /\ FactoryFree
  /\ apps' = Created(t)
  /\ made' = [made EXCEPT ![t] = n]
  /\ appenders' = IF n \in DOMAIN appenders[t] THEN appenders
                  ELSE [appenders EXCEPT ![t] = Append(@, {})]
  /\ new' = [new EXCEPT ![c] = [type |-> t, app |-> Len(apps) + 1, ent |-> n]]
  /\ Goto(c, "mount")
  /\ UNCHANGED <<settings, consoleApp, entity, registry, filter, todo, ents, elsewhere>>

\* Mutated: the control keeps the entity it has.
MountNothing(c) ==
  /\ pc[c] = "mount" /\ ControlFree
  /\ Goto(c, "attach")
  /\ UNCHANGED <<settings, mountVars, filter, todo, new, ents, elsewhere>>

\* The control's entry is set under c.mu.
Mount(c) ==
  /\ pc[c] = "mount" /\ ControlFree
  /\ entity' = [entity EXCEPT ![new[c].type] = new[c].ent]
  /\ Goto(c, "attach")
  /\ UNCHANGED <<settings, consoleApp, made, appenders, apps, registry, filter, todo, new, ents, elsewhere>>

\* Entity.AddAppender.
Attach(c) ==
  /\ pc[c] = "attach"
  /\ appenders' = [appenders EXCEPT ![new[c].type][new[c].ent] = @ \cup {new[c].app}]
  /\ Goto(c, "register")
  /\ UNCHANGED <<settings, consoleApp, entity, made, apps, registry, filter, todo, new, ents, elsewhere>>

\* Mutated: what a switch mounts is not registered.
RegisterInInit(c) ==
  /\ pc[c] = "register"
  /\ registry' = IF op[c] = "init" THEN registry \cup {new[c].app} ELSE registry
  /\ new' = [new EXCEPT ![c] = NoNew]
  /\ IF op[c] = "init" THEN Goto(c, "next") ELSE Return(c)
  /\ UNCHANGED <<settings, consoleApp, entity, made, appenders, apps, filter, todo, ents, elsewhere>>

\* RegisterAppender; the Init and Start that follow, and whether they
\* succeed, change nothing that this module tells apart.
Register(c) ==
  /\ pc[c] = "register"
  /\ registry' = registry \cup {new[c].app}
  /\ new' = [new EXCEPT ![c] = NoNew]
  /\ IF op[c] = "init" THEN Goto(c, "next") ELSE Return(c)
  /\ UNCHANGED <<settings, consoleApp, entity, made, appenders, apps, filter, todo, ents, elsewhere>>

-----------------------------------------------------------------------------
(* SetLogLevel, by itself and within Init *)

\* The configuration is changed first; without a control nothing happens.
SetLogLevelCall(c, f) ==
  /\ bound
  /\ Call(c, "level", "level")
  /\ config' = [config EXCEPT !.filter = f]
  /\ filter' = [filter EXCEPT ![c] = f]
  /\ UNCHANGED <<todo, new>>

\* The filter that route reads is stored under c.mu ...
StoreLevel(c) ==
  /\ pc[c] = "level" /\ ControlFree
  /\ level' = filter[c]
  /\ Goto(c, "mirror")
  /\ UNCHANGED <<lifeVars, config, mirror, mountVars, filter, todo, new, ents, elsewhere>>

\* Mutated: Init stores the level past SetLogLevel, without the mirror.
StoreMirrorAtRuntime(c) ==
  /\ pc[c] = "mirror"
  /\ mirror' = IF op[c] = "init" THEN mirror ELSE filter[c]
  /\ filter' = [filter EXCEPT ![c] = {}]
  /\ IF op[c] = "init" THEN Goto(c, "plan") ELSE Return(c)
  /\ UNCHANGED <<lifeVars, config, level, mountVars, todo, new, ents, elsewhere>>

\* ... and the one that the functions of api.go read after the unlock.
StoreMirror(c) ==
  /\ pc[c] = "mirror"
  /\ mirror' = filter[c]
  /\ filter' = [filter EXCEPT ![c] = {}]
  /\ IF op[c] = "init" THEN Goto(c, "plan") ELSE Return(c)
  /\ UNCHANGED <<lifeVars, config, level, mountVars, todo, new, ents, elsewhere>>

-----------------------------------------------------------------------------
(* SetWriteRemote and SetWriteSys *)

SetWriteCall(c, t, on) ==
  /\ OrderlyUse => bInit
  /\ Call(c, IF on THEN "on" ELSE "off", "switch")
  /\ config' = [config EXCEPT !.on = IF on THEN @ \cup {t} ELSE @ \ {t}]
  /\ new' = [new EXCEPT ![c].type = t]
  /\ UNCHANGED <<filter, todo>>

Registered(t) == \E a \in registry : apps[a].type = t

\* The registry tells whether there is something to do.
SetWriteCheck(c) ==
  /\ pc[c] = "switch"
  /\ IF (op[c] = "on") = Registered(new[c].type) \/ (op[c] = "on" /\ ~bound)
       THEN Return(c) /\ new' = [new EXCEPT ![c] = NoNew]
       ELSE Goto(c, IF op[c] = "on" THEN "create" ELSE "release") /\ UNCHANGED new
  /\ UNCHANGED <<settings, mountVars, filter, todo, ents, elsewhere>>

\* Mutated: the control's entry is cleared with the factory's.
ReleaseBoth(c) ==
  LET t == new[c].type IN
  /\ pc[c] = "release" /\ FactoryFree
  /\ IF made[t] = NoEntity
       THEN UNCHANGED <<made, appenders, apps, registry>>
       ELSE ShutEntity(t, made[t]) /\ made' = [made EXCEPT ![t] = NoEntity]
  /\ entity' = [entity EXCEPT ![t] = NoEntity]
  /\ new' = [new EXCEPT ![c] = NoNew]
  /\ Return(c)
  /\ UNCHANGED <<settings, consoleApp, filter, todo, ents, elsewhere>>

\* ReleaseLoggerEntity: the factory forgets the entity, the control does not.
Release(c) ==
  LET t == new[c].type IN
  /\ pc[c] = "release" /\ FactoryFree
  /\ IF made[t] = NoEntity
       THEN UNCHANGED <<made, appenders, apps, registry>>
       ELSE ShutEntity(t, made[t]) /\ made' = [made EXCEPT ![t] = NoEntity]
  /\ new' = [new EXCEPT ![c] = NoNew]
  /\ Return(c)
  /\ UNCHANGED <<settings, consoleApp, entity, filter, todo, ents, elsewhere>>

-----------------------------------------------------------------------------
(* Flush and Close *)

FlushCall(c) == Call(c, "flush", "flush") /\ UNCHANGED <<config, filter, todo, new>>
CloseCall(c) == Call(c, "close", "flush") /\ UNCHANGED <<config, filter, todo, new>>

\* control.Flush takes c.mu and FlushAll the factory's lock, for reading.
FlushLock(c) ==
  /\ pc[c] = "flush" /\ bound /\ ControlRead
  /\ Goto(c, "flushing")
  /\ UNCHANGED <<settings, mountVars, filter, todo, new, ents, elsewhere>>

\* The flush is over, or there is no control; Close goes on.
FlushDone(c) ==
  /\ pc[c] = "flushing" \/ (pc[c] = "flush" /\ ~bound)
  /\ IF op[c] = "close" THEN Goto(c, "uninit") ELSE Return(c)
  /\ UNCHANGED <<settings, mountVars, filter, todo, new, ents, elsewhere>>

\* The check of bInit without the lock.
UnInitCheck(c) ==
  /\ pc[c] = "uninit"
  /\ IF bInit THEN Goto(c, "close") ELSE Return(c)
  /\ UNCHANGED <<settings, mountVars, filter, todo, new, ents, elsewhere>>

\* The check under l.mu; from here writes are refused.
UnInitLock(c) ==
  /\ pc[c] = "close" /\ LoggerFree
  /\ IF bInit
       THEN Goto(c, "exit") /\ bExit' = TRUE
       ELSE Return(c) /\ UNCHANGED bExit
  /\ UNCHANGED <<bound, bInit, config, levelVars, mountVars, filter, todo, new, ents, elsewhere>>

\* control.UnInit takes c.mu, stops the schedule and drops the console.
UnInitConsole(c) ==
  /\ pc[c] = "exit" /\ ControlFree
  /\ apps' = Closed({consoleApp})
  /\ consoleApp' = NoApp
  /\ Goto(c, "reset")
  /\ UNCHANGED <<settings, entity, made, appenders, registry, filter, todo, new, ents, elsewhere>>

\* The registry is emptied first.
UnInitReset(c) ==
  /\ pc[c] = "reset"
  /\ registry' = {}
  /\ Goto(c, "collect")
  /\ UNCHANGED <<settings, consoleApp, entity, made, appenders, apps, filter, todo, new, ents, elsewhere>>

Entities == {<<t, made[t]>> : t \in {u \in Types : made[u] # NoEntity}}

\* Mutated: only the types that the registry names are shut down.
UnInitCollectRegistered(c) ==
  /\ pc[c] = "collect"
  /\ ents' = [ents EXCEPT ![c] = {e \in Entities : Registered(e[1])}]
  /\ Goto(c, "shut")
  /\ UNCHANGED <<settings, mountVars, filter, todo, new, elsewhere>>

\* UnInitAll: the entities of the factory's map ...
UnInitCollect(c) ==
  /\ pc[c] = "collect"
  /\ ents' = [ents EXCEPT ![c] = Entities]
  /\ Goto(c, "shut")
  /\ UNCHANGED <<settings, mountVars, filter, todo, new, elsewhere>>

\* Mutated: the entity is shut down and keeps its appenders.
UnInitEntityKeeping(c) ==
  /\ pc[c] = "shut"
  /\ \E e \in ents[c] :
       /\ apps' = Closed(appenders[e[1]][e[2]])
       /\ registry' = registry \ appenders[e[1]][e[2]]
       /\ ents' = [ents EXCEPT ![c] = @ \ {e}]
  /\ UNCHANGED <<settings, consoleApp, entity, made, appenders, op, pc, filter, todo, new, elsewhere>>

\* ... are shut down in the order of the map.
UnInitEntity(c) ==
  /\ pc[c] = "shut"
  /\ \E e \in ents[c] :
       /\ ShutEntity(e[1], e[2])
       /\ ents' = [ents EXCEPT ![c] = @ \ {e}]
  /\ UNCHANGED <<settings, consoleApp, entity, made, op, pc, filter, todo, new, elsewhere>>

UnInitFinish(c) ==
  /\ pc[c] = "shut" /\ ents[c] = {}
  /\ bInit' = FALSE
  /\ Return(c)
  /\ UNCHANGED <<bound, bExit, config, levelVars, mountVars, filter, todo, new, ents, elsewhere>>

-----------------------------------------------------------------------------
(* Writing a message *)

(* Messages come through the functions of api.go, which look at the mirror  *)
(* first, through the LOG_* functions of logger.go, which do not, or        *)
(* through the Direct functions, which are not subject to a level.          *)
Entries == {"api", "macro", "direct"}

\* The level that decides about a type at the entry, and in route.
EntryLevel(t)   == IF t = Main THEN Info ELSE t
LevelForType(t) == IF t = Main THEN Console ELSE t

WriteCall(w, t, via) ==
  /\ wpc[w] = "idle" /\ calls + 1 < MaxCalls  \* bound: a message counts for two
  /\ calls' = calls + 2
  /\ message' = [message EXCEPT ![w] = [type |-> t, via |-> via]]
  /\ quiet' = [quiet EXCEPT ![w] = \A c \in Callers : op[c] \in {"none", "flush"}]
  /\ wpc' = [wpc EXCEPT ![w] = IF via = "api" => EntryLevel(t) \in mirror THEN "flags" ELSE "done"]
  /\ UNCHANGED <<settings, mountVars, callVars, targets, snapshot, reached>>

\* bInit, then bExit.
CheckFlags(w) ==
  /\ wpc[w] = "flags"
  /\ wpc' = [wpc EXCEPT ![w] = IF bInit /\ ~bExit THEN "route" ELSE "done"]
  /\ UNCHANGED <<settings, mountVars, callVars, message, targets, snapshot, reached, quiet, calls>>

\* The entities that a message of type t goes to.
Targets(t) == <<<<t, entity[t]>>>>
                \o (IF t # Main /\ HasAppender(Main) THEN <<<<Main, entity[Main]>>>> ELSE <<>>)

\* route, and its twin in WriteDirect: console and entities, under c.mu.
Route(w) ==
  /\ wpc[w] = "route" /\ ControlRead
  /\ IF message[w].via # "direct" => LevelForType(message[w].type) \in level
       THEN /\ wpc' = [wpc EXCEPT ![w] = "write"]
            /\ targets' = [targets EXCEPT ![w] = Targets(message[w].type)]
            /\ snapshot' = [snapshot EXCEPT ![w] = {consoleApp} \ {NoApp}]
       ELSE /\ wpc' = [wpc EXCEPT ![w] = "done"]
            /\ UNCHANGED <<targets, snapshot>>
  /\ UNCHANGED <<settings, mountVars, callVars, message, reached, quiet, calls>>

\* An appender that was closed in the meantime does not take the message.
WriteAppender(w) ==
  /\ wpc[w] = "write"
  /\ \E a \in snapshot[w] :
       /\ reached' = [reached EXCEPT ![w] = IF Open(a) THEN Append(@, a) ELSE @]
       /\ snapshot' = [snapshot EXCEPT ![w] = @ \ {a}]
  /\ UNCHANGED <<settings, mountVars, callVars, wpc, message, targets, quiet, calls>>

\* Entity.Write: the entity's appenders, under its lock.
WriteEntity(w) ==
  /\ wpc[w] = "write" /\ snapshot[w] = {} /\ targets[w] # <<>>
  /\ LET e == Head(targets[w]) IN snapshot' = [snapshot EXCEPT ![w] = appenders[e[1]][e[2]]]
  /\ targets' = [targets EXCEPT ![w] = Tail(@)]
  /\ UNCHANGED <<settings, mountVars, callVars, wpc, message, reached, quiet, calls>>

WriteDone(w) ==
  /\ wpc[w] = "write" /\ snapshot[w] = {} /\ targets[w] = <<>>
  /\ wpc' = [wpc EXCEPT ![w] = "done"]
  /\ UNCHANGED <<settings, mountVars, callVars, message, targets, snapshot, reached, quiet, calls>>

WriteReturn(w) ==
  /\ wpc[w] = "done"
  /\ wpc' = [wpc EXCEPT ![w] = "idle"]
  /\ message' = [message EXCEPT ![w] = NoMessage]
  /\ reached' = [reached EXCEPT ![w] = <<>>]
  /\ quiet' = [quiet EXCEPT ![w] = FALSE]
  /\ UNCHANGED <<settings, mountVars, callVars, targets, snapshot, calls>>

-----------------------------------------------------------------------------
Calls(c) ==
  \/ \E o \in Options : InitCall(c, o.filter, o.on)
  \/ \E o \in Options : SetLogLevelCall(c, o.filter)
  \/ \E t \in Switches, on \in BOOLEAN : SetWriteCall(c, t, on)
  \/ FlushCall(c)
  \/ CloseCall(c)

InitStep(c) ==
  \/ InitCheck(c) \/ InitLock(c) \/ InitConsole(c)
  \/ InitPlan(c) \/ InitNext(c) \/ InitFinish(c)
MountStep(c)  == CreateEntity(c) \/ Mount(c) \/ Attach(c) \/ Register(c)
LevelStep(c)  == StoreLevel(c) \/ StoreMirror(c)
SwitchStep(c) == SetWriteCheck(c) \/ Release(c)
CloseStep(c) ==
  \/ FlushLock(c) \/ FlushDone(c) \/ UnInitCheck(c) \/ UnInitLock(c)
  \/ UnInitConsole(c) \/ UnInitReset(c)
  \/ UnInitCollect(c) \/ UnInitEntity(c) \/ UnInitFinish(c)
CallerStep(c) == InitStep(c) \/ MountStep(c) \/ LevelStep(c) \/ SwitchStep(c) \/ CloseStep(c)

WriterStep(w) ==
  \/ CheckFlags(w) \/ Route(w)
  \/ WriteAppender(w) \/ WriteEntity(w) \/ WriteDone(w) \/ WriteReturn(w)

Next ==
  \/ \E c \in Callers : Calls(c) \/ CallerStep(c)
  \/ \E w \in Writers : \/ \E t \in Types, via \in Entries : WriteCall(w, t, via)
                        \/ WriterStep(w)

\* A goroutine that has begun a call and can go on does.  Nobody has to
\* begin one.
Fairness ==
  /\ \A c \in Callers : WF_vars(CallerStep(c))
  /\ \A w \in Writers : WF_vars(WriterStep(w))

Spec == Init /\ [][Next]_vars /\ Fairness

-----------------------------------------------------------------------------
(* Properties *)

App == 1..Len(apps)
Level == SUBSET (Types \ {Main})
Places == {"idle", "init", "lock", "console", "level", "mirror", "plan", "next",
           "create", "mount", "attach", "register", "switch", "release", "flush",
           "flushing", "uninit", "close", "exit", "reset", "collect", "shut"}

\* The types of the variables.  The control never has a nil entity, and
\* always one that was made: route (logger.go 372) relies on that.
TypeOK ==
  /\ bound \in BOOLEAN /\ bInit \in BOOLEAN /\ bExit \in BOOLEAN
  /\ config \in [filter : Level, on : SUBSET (Switches \cup {Console})]
  /\ level \in Level /\ mirror \in Level
  /\ apps \in Seq([type : Types, open : BOOLEAN])
  /\ consoleApp \in App \cup {NoApp}
  /\ registry \subseteq App
  /\ appenders \in [Types -> Seq(SUBSET App)]
  /\ entity \in [Types -> Nat] /\ made \in [Types -> Nat]
  /\ \A t \in Types : /\ entity[t] \in DOMAIN appenders[t]
                      /\ made[t] \in DOMAIN appenders[t] \cup {NoEntity}
  /\ op \in [Callers -> {"none", "init", "level", "on", "off", "flush", "close"}]
  /\ pc \in [Callers -> Places]
  /\ filter \in [Callers -> Level]
  /\ todo \in [Callers -> SUBSET Types]
  /\ new \in [Callers -> [type : Types, app : App \cup {NoApp}, ent : Nat]]
  /\ ents \in [Callers -> SUBSET (Types \X Nat)]
  /\ wpc \in [Writers -> {"idle", "flags", "route", "write", "done"}]
  /\ message \in [Writers -> [type : Types, via : Entries]]
  /\ targets \in [Writers -> Seq(Types \X Nat)]
  /\ snapshot \in [Writers -> SUBSET App]
  /\ reached \in [Writers -> Seq(App)]
  /\ quiet \in [Writers -> BOOLEAN]
  /\ calls \in 0..MaxCalls

LiveOf(t) == {a \in App : Open(a) /\ apps[a].type = t}
Settled   == \A c \in Callers : op[c] \in {"none", "flush"}

\* However Init, Close and the switches follow each other, and however two
\* Inits and Closes race, a type never has two appenders that are open: two
\* would write the same file (logger.go 240-241).
OneLivePerType == \A t \in Types : Cardinality(LiveOf(t)) <= 1

\* Between calls the filter at the entry and the filter in route agree
\* (early_filter.go 18-19).
LevelsAgree == Settled => mirror = level

\* Between calls what Write reaches through the control, what Flush and
\* Close reach through the entity factory, and what SetWriteRemote and
\* SetWriteSys see in the registry are the same appenders, all of them open.
OneView ==
  Settled =>
    /\ \A t \in Types :
         appenders[t][entity[t]] = IF made[t] = NoEntity THEN {} ELSE appenders[t][made[t]]
    /\ registry = UNION {appenders[t][entity[t]] : t \in Types}
    /\ registry \cup ({consoleApp} \ {NoApp}) = {a \in App : Open(a)}

\* A message reaches no appender twice, no two of one type and none of a
\* type it is not for.  With no call in its way it reaches all of them, if
\* the logger is initialised and the level is on, at the entry as in route:
\* the open ones of its type, of Main and of the console (logger.go 361-404).
Wanted(m) ==
  /\ m.via = "api" => EntryLevel(m.type) \in level
  /\ m.via # "direct" => LevelForType(m.type) \in level
Reaches ==
  \A w \in Writers : wpc[w] = "done" =>
    LET t == message[w].type
        typeOf(i) == apps[reached[w][i]].type
    IN /\ \A i, j \in DOMAIN reached[w] : i # j => typeOf(i) # typeOf(j)
       /\ \A i \in DOMAIN reached[w] : typeOf(i) \in {t, Main, Console}
       /\ quiet[w] => Range(reached[w]) = IF bInit /\ Wanted(message[w])
                                            THEN LiveOf(t) \cup LiveOf(Main) \cup LiveOf(Console)
                                            ELSE {}

\* When Close ends nothing is left open or registered, whatever was mounted,
\* released and mounted again before (api.go 719, logger.go 261-264).
CloseReleases ==
  [][(bInit /\ ~bInit') => registry = {} /\ \A a \in App : ~Open(a)]_vars

\* When Init ends the files that are mounted are those of the level, Main's
\* included: nothing of an earlier life is left (logger.go 136-141).
FilesFollowLevel ==
  [][(\E c \in Callers : InitFinish(c)) =>
       {t \in Files \cup {Main} : HasAppender(t)} = Planned]_vars

\* Every call returns: no two calls wait for each other's locks, and Init
\* never for its own (logger.go 143-146).
CallsReturn == \A c \in Callers : (pc[c] # "idle") ~> (pc[c] = "idle")
=============================================================================
