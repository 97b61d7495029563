------------------------------ MODULE LogLine ------------------------------
(***************************************************************************)
(* The way of a message to its lines: the functions of api.go, the methods *)
(* of CYLoggerImpl, control.Write and WriteDirect, the pooled message      *)
(* objects (Common/common.go), the appenders' Write and formatMessage with *)
(* its render cache, and the layouts (Layout/layout.go).                   *)
(*                                                                         *)
(* Queues that swap, files and levels that change are other modules; here  *)
(* the level is fixed and a queue is its messages in order.  What is kept  *)
(* is who may touch which object, and which values a line shows.  Values   *)
(* are abstract: a message is the number of its call, and so is every      *)
(* value that differs from call to call.                                   *)
(***************************************************************************)
EXTENDS Naturals, Sequences, FiniteSets, SequencesExt, Functions

CONSTANTS
  LogCallers,  \* the goroutines that log
  FileTypes,   \* the log types with a file appender (Main is one)
  QueueTypes,  \* the log types with a queue of messages (the console is one)
  Main, Console, Info, Trace,
  Levels,      \* the levels that are on
  ChannelNames,\* the channels that callers name
  Mountings,   \* what the appenders are mounted with: layout, channel, filter
  Escaping,    \* the layouts whose own filter somebody has set
  CallsMade,   \* bound of the model: the kinds of calls that are made
  Objects,     \* bound of the model: message objects, numbered
  QueueCap,
  MaxLogged    \* bound of the model

VARIABLES
  setting,     \* per appender, what it was mounted with
  memory,      \* per object, its fields
  fresh,       \* objects that no pool has made yet
  basePool, escapePool,
  logged,      \* history: the calls, in order
  step,        \* per caller, its next step
  call, object, todo, \* per caller: its call, its message, the appenders to go
  queue,       \* per queued appender, the objects in its queue
  hand,        \* and the one that its consumer holds
  lines        \* history: the lines that the appenders have been given

lineVars == <<setting, memory, fresh, basePool, escapePool, logged, step, call, object, todo, queue, hand, lines>>

AppTypes  == FileTypes \cup QueueTypes
NoObject  == 0
NoChannel == "-"
NoPlace   == 0

ASSUME ObjectsAssumption == Objects \subseteq Nat \ {NoObject}

-----------------------------------------------------------------------------
(* Messages *)

NoCache == [line |-> <<>>, layout |-> 0, ch |-> NoChannel, escape |-> FALSE]

Blank == [type |-> "none", text |-> 0, place |-> NoPlace, ch |-> NoChannel, time |-> 0, cache |-> NoCache]

\* Reset leaves the time as it is.
Reset(m) == [Blank EXCEPT !.time = m.time]

LineInit ==
  /\ setting \in Mountings
  /\ memory = [o \in Objects |-> Blank]
  /\ fresh = Objects /\ basePool = {} /\ escapePool = {}
  /\ logged = <<>>
  /\ step = [c \in LogCallers |-> "idle"]
  /\ call = [c \in LogCallers |-> 0]
  /\ object = [c \in LogCallers |-> NoObject]
  /\ todo = [c \in LogCallers |-> <<>>]
  /\ queue = [a \in QueueTypes |-> <<>>]
  /\ hand = [a \in QueueTypes |-> NoObject]
  /\ lines = {}

\* What sync.Pool.Get may return: an object of the pool, or a new one.
Get(pool) == pool \cup (IF fresh = {} THEN {} ELSE {CHOOSE o \in fresh : \A p \in fresh : o <= p})

-----------------------------------------------------------------------------
(* Calls: the method they end in, and the arguments they pass to it *)

Variant(kind, direct, entry, chs) ==
  [kind : {kind}, direct : {direct}, entry : {entry}, type : AppTypes, ch : chs]

\* Trace to Console, and with a channel; these look at the level first.
Convenience   == Variant("fmt", FALSE, TRUE, {NoChannel})
ConvenienceCh == Variant("fmt", FALSE, TRUE, ChannelNames)
\* TraceWithCaller and TraceChWithCaller, and a Scope's ENTER and EXIT, the
\* latter without a look at the level.
WithCaller    == {k \in Variant("fmt", FALSE, TRUE, {NoChannel} \cup ChannelNames) : k.type = Trace}
ScopeExit     == {k \in Variant("fmt", FALSE, FALSE, {NoChannel}) : k.type = Trace}
\* DirectTrace to DirectSys, which ask no level.
Direct        == Variant("fmt", TRUE, FALSE, {NoChannel})
DirectCh      == Variant("fmt", TRUE, FALSE, ChannelNames)
\* HexTrace to HexSys, EscapeTrace to EscapeSys.
Hex           == Variant("hex", FALSE, TRUE, {NoChannel})
HexCh         == Variant("hex", FALSE, TRUE, ChannelNames)
Escape        == Variant("escape", FALSE, TRUE, {NoChannel})
EscapeCh      == Variant("escape", FALSE, TRUE, ChannelNames)
\* The methods themselves are public; WriteLog and its variants set no place.
Kinds           == {"log", "fmt", "escape", "hex"}
Methods         == UNION {Variant(kind, FALSE, FALSE, {NoChannel} \cup ChannelNames) : kind \in Kinds}
DirectMethods   == UNION {Variant(kind, TRUE, FALSE, {NoChannel}) : kind \in Kinds}
DirectChMethods == UNION {Variant(kind, TRUE, FALSE, ChannelNames) : kind \in Kinds}

ApiCalls == Convenience \cup ConvenienceCh \cup WithCaller \cup ScopeExit \cup Direct \cup DirectCh
              \cup Hex \cup HexCh \cup Escape \cup EscapeCh
              \cup Methods \cup DirectMethods \cup DirectChMethods

EntryLevel(t)   == IF t = Main THEN Info ELSE t
LevelForType(t) == IF t = Main THEN Console ELSE t
Enters(k)  == k.entry => EntryLevel(k.type) \in Levels
Passes(k)  == k.direct \/ LevelForType(k.type) \in Levels

\* WriteLog: everything but the place; the time and the ids are always set.
FillLog(m, n, k) == [m EXCEPT !.type = k.type, !.text = n, !.time = n]

\* The other methods also set file, function and line.
FillFmt(m, n, k) == IF k.kind = "log" THEN FillLog(m, n, k) ELSE [FillLog(m, n, k) EXCEPT !.place = n]

\* Those with a channel set it too.
FillCh(m, n, k) == IF k.ch = NoChannel THEN FillFmt(m, n, k) ELSE [FillFmt(m, n, k) EXCEPT !.ch = k.ch]

\* The pool of the method: only the escape methods have another one.
Pool(k) == IF k.kind = "escape" THEN escapePool ELSE basePool

\* A call passes the level at its entry and fills a message of its own.
Call(c, k) ==
  LET n == Len(logged) + 1 IN
  /\ step[c] = "idle" /\ n <= MaxLogged /\ Enters(k)
  /\ \E o \in Get(Pool(k)) :
       /\ memory' = [memory EXCEPT ![o] = FillCh(@, n, k)]
       /\ object' = [object EXCEPT ![c] = o]
       /\ fresh' = fresh \ {o}
       /\ IF k.kind = "escape" THEN escapePool' = escapePool \ {o} /\ UNCHANGED basePool
                               ELSE basePool' = basePool \ {o} /\ UNCHANGED escapePool
  /\ logged' = Append(logged, k)
  /\ call' = [call EXCEPT ![c] = n]
  /\ step' = [step EXCEPT ![c] = "route"]
  /\ UNCHANGED <<setting, todo, queue, hand, lines>>

\* The console, the type's own appender, and Main.
Targets(t) == <<Console>> \o (IF t = Console THEN <<>> ELSE <<t>>)
                          \o (IF t = Main THEN <<>> ELSE <<Main>>)

Kind(c) == logged[call[c]]

Route(c) ==
  /\ step[c] = "route"
  /\ todo' = [todo EXCEPT ![c] = IF Passes(Kind(c)) THEN Targets(Kind(c).type) ELSE <<>>]
  /\ step' = [step EXCEPT ![c] = "write"]
  /\ UNCHANGED <<setting, memory, fresh, basePool, escapePool, logged, call, object, queue, hand, lines>>

-----------------------------------------------------------------------------
(* Lines *)

\* The fields of the built-in layouts, in their order.
Layout1 == <<"time", "type", "ids", "ext", "file", "func", "channel", "text">>
Layout2 == <<"time", "type", "ids", "ext", "func", "channel", "text">>
Layout3 == <<"clock", "type", "ids", "ext", "func", "channel", "text", "file">>
Layout4 == <<"time", "type", "ids", "ext", "channel", "func", "text">>
Layout5 == <<"time", "type", "ids", "channel", "func", "text">>
Layout6 == <<"time", "type", "ids", "ext", "channel", "func", "text">>
\* A custom layout without an inner one.
LayoutCustom == <<"text">>

\* No layout at all writes the text too, but nothing is cached.
NoLayout == 0

LayoutFields(layout) == IF layout \in 1..6 THEN <<Layout1, Layout2, Layout3, Layout4, Layout5, Layout6>>[layout]
                                     ELSE LayoutCustom

\* The letter of a type; the console has none of its own.
LayoutTypeCode(t) == IF t = Console THEN "U" ELSE t

\* A field's value; brackets without a content are not written.
Value(field, m, ch, ext) ==
  CASE field \in {"time", "clock", "ids"} -> m.time
    [] field = "type" -> LayoutTypeCode(m.type)
    [] field = "ext" -> ext
    [] field \in {"file", "func"} -> m.place
    [] field = "channel" -> ch
    [] field = "text" -> m.text

\* GetFormatMessage: the extension field takes a filter of the appender and
\* one of the layout.
GetFormatMessage(layout, m, ch, escape) ==
  LET f == LayoutFields(layout) IN
  [i \in DOMAIN f |-> <<f[i], Value(f[i], m, ch, escape /\ layout \in Escaping)>>]

\* The channel of the message, or else that of the appender.
ChannelOf(a, m) == IF m.ch = NoChannel THEN setting[a].ch ELSE m.ch

\* Mutant: the channel of the appender is forgotten.
CacheHitsAnyChannel(a, m) ==
  /\ m.cache.line # <<>> /\ m.cache.layout = setting[a].layout
  /\ m.cache.escape = setting[a].escape

\* Is the line of the last rendering this appender's line too?
CacheHits(a, m) ==
  /\ m.cache.line # <<>> /\ m.cache.layout = setting[a].layout
  /\ m.cache.ch = ChannelOf(a, m) /\ m.cache.escape = setting[a].escape

FormatMessage(a, m) ==
  IF CacheHits(a, m) THEN m.cache.line
  ELSE GetFormatMessage(setting[a].layout, m, ChannelOf(a, m), setting[a].escape)

\* A rendering leaves its line and what it depends on in the message.
Rendered(a, m) ==
  IF setting[a].layout = NoLayout THEN m
  ELSE [m EXCEPT !.cache = [line |-> FormatMessage(a, m), layout |-> setting[a].layout,
                            ch |-> ChannelOf(a, m), escape |-> setting[a].escape]]

Written(a, m) == lines' = lines \cup {[app |-> a, line |-> FormatMessage(a, m)]}

\* Write of a file appender: the caller renders the line.
WriteFile(c) ==
  LET a == Head(todo[c]) IN
  /\ step[c] = "write" /\ todo[c] # <<>> /\ a \in FileTypes
  /\ Written(a, memory[object[c]])
  /\ memory' = [memory EXCEPT ![object[c]] = Rendered(a, @)]
  /\ todo' = [todo EXCEPT ![c] = Tail(@)]
  /\ UNCHANGED <<setting, fresh, basePool, escapePool, logged, step, call, object, queue, hand>>

\* Mutant: the message itself is queued.
CloneOf(c, o) == o = object[c]

\* Clone copies the message, its cached line too, into an object of the pool.
Clone(c, o) == o \in Get(basePool)

\* Write of the other appenders: a clone is queued, or released if there is
\* no room.
WriteQueue(c) ==
  LET a == Head(todo[c]) IN
  /\ step[c] = "write" /\ todo[c] # <<>> /\ a \in QueueTypes
  /\ \E o \in Objects :
       /\ Clone(c, o)
       /\ fresh' = fresh \ {o}
       /\ \/ /\ Len(queue[a]) < QueueCap
             /\ queue' = [queue EXCEPT ![a] = Append(@, o)]
             /\ memory' = [memory EXCEPT ![o] = memory[object[c]]]
             /\ basePool' = basePool \ {o}
          \/ /\ Len(queue[a]) = QueueCap
             /\ memory' = [memory EXCEPT ![o] = Reset(memory[object[c]])]
             /\ basePool' = basePool \cup {o}
             /\ UNCHANGED queue
  /\ todo' = [todo EXCEPT ![c] = Tail(@)]
  /\ UNCHANGED <<setting, escapePool, logged, step, call, object, hand, lines>>

\* The caller releases its message into the pool that it came from.
Release(c) ==
  /\ step[c] = "write" /\ todo[c] = <<>>
  /\ IF Kind(c).kind = "escape" THEN escapePool' = escapePool \cup {object[c]} /\ UNCHANGED basePool
                                ELSE basePool' = basePool \cup {object[c]} /\ UNCHANGED escapePool
  /\ memory' = [memory EXCEPT ![object[c]] = Reset(@)]
  /\ object' = [object EXCEPT ![c] = NoObject]
  /\ step' = [step EXCEPT ![c] = "idle"]
  /\ UNCHANGED <<setting, fresh, logged, call, todo, queue, hand, lines>>

\* The consumer of a queue takes a message ...
Take(a) ==
  /\ hand[a] = NoObject /\ queue[a] # <<>>
  /\ hand' = [hand EXCEPT ![a] = Head(queue[a])]
  /\ queue' = [queue EXCEPT ![a] = Tail(@)]
  /\ UNCHANGED <<setting, memory, fresh, basePool, escapePool, logged, step, call, object, todo, lines>>

\* ... renders it, and releases it.
WriteMessage(a) ==
  /\ hand[a] # NoObject
  /\ Written(a, memory[hand[a]])
  /\ memory' = [memory EXCEPT ![hand[a]] = Reset(@)]
  /\ basePool' = basePool \cup {hand[a]}
  /\ hand' = [hand EXCEPT ![a] = NoObject]
  /\ UNCHANGED <<setting, fresh, escapePool, logged, step, call, object, todo, queue>>

LineNext ==
  \/ \E c \in LogCallers :
       \/ \E k \in CallsMade \cap ApiCalls : Call(c, k)
       \/ Route(c) \/ WriteFile(c) \/ WriteQueue(c) \/ Release(c)
  \/ \E a \in QueueTypes : Take(a) \/ WriteMessage(a)

LineSpec == LineInit /\ [][LineNext]_lineVars

-----------------------------------------------------------------------------
(* Properties *)

TextOf(line) == (CHOOSE i \in DOMAIN line : line[i][1] = "text")

\* Every line shows the values of its own call, in the layout and with the
\* channel of its appender: nothing of an earlier user of the object, and
\* nothing that was rendered for another appender (common.go 333-345).
LinesAreTheirOwn ==
  \A e \in lines :
    LET n == e.line[TextOf(e.line)][2] IN
    /\ n \in DOMAIN logged
    /\ LET m == FillCh(Blank, n, logged[n])
       IN  e.line = GetFormatMessage(setting[e.app].layout, m, ChannelOf(e.app, m), setting[e.app].escape)

\* Who has an object: a pool, a caller, a queue or a consumer.
Pools     == [fresh |-> fresh, base |-> basePool, escape |-> escapePool]
Owners(o) ==
  ({"pool"} \X {p \in DOMAIN Pools : o \in Pools[p]})
    \cup ({"caller"} \X {c \in LogCallers : object[c] = o})
    \cup ({"queue"}  \X {a \in QueueTypes : o \in Range(queue[a])})
    \cup ({"hand"}   \X {a \in QueueTypes : hand[a] = o})

\* An object is in one pool, or has one owner: its caller, one place in one
\* queue, or one consumer (appender.go 252-256).  What is in a pool holds
\* nothing of its last message but the time.
OneOwner ==
  /\ \A o \in Objects : Cardinality(Owners(o)) = 1
  /\ \A a \in QueueTypes : IsInjective(queue[a])
  /\ \A o \in basePool \cup escapePool : memory[o] = Reset(memory[o])
=============================================================================
