------------------------ MODULE ConfigurationProofs ------------------------
(* Theorems about Configuration, for every number of callers and whatever   *)
(* options they use: an Init that nothing was stored beside runs on the     *)
(* configuration.                                                           *)
EXTENDS Configuration, TLAPS

\* The options there are: ten numbers for SetRestriction, one for the others.
Option == [Policy -> Int] \cup UNION {[{f} -> Int] : f \in Fields}

SettingsAssumption ==
  /\ Cwd \in Int
  /\ Offers \subseteq Seq(Option)
  /\ Tunings \subseteq Option

InitPlaces == {"read", "policy", "schedule", "assert", "done"}

TypeOK ==
  /\ config \in [Fields -> Int]
  /\ running \in [Fields -> Int]
  /\ restriction \in [Policy -> Int]
  /\ task = NoTask \/ task \in [TaskFields -> Int]
  /\ pc \in [Callers -> {"idle", "store"} \cup InitPlaces]
  /\ options \in [Callers -> Seq(Option)]
  /\ at \in [Callers -> Nat]
  /\ quiet \in [Callers -> BOOLEAN]

\* l.mu: one caller at a time is in Init.
OneInit == \A c, d \in Callers : pc[c] \in InitPlaces /\ pc[d] \in InitPlaces => c = d

\* The ticker's period is positive where it is stored and where it is used.
PeriodPositive == config["period"] > 0 /\ (task # NoTask => task["period"] > 0)

\* How far an Init is.
Progress(c) ==
  /\ pc[c] = "read" => at[c] \in 1..20
  /\ pc[c] \in {"policy", "schedule"} => at[c] = 1
  /\ pc[c] = "assert" => at[c] \in 1..9
  /\ pc[c] \in {"assert", "done"} => task # NoTask

\* What has been read so far, and what has been applied so far.
ReadUpTo(n) ==
  /\ \A i \in 1..n : running[ReadOrder[i]] = config[ReadOrder[i]]
  /\ n >= 10 /\ running["remote"] # 0 => running["proto"] = config["proto"]
Agrees(f) == task[f] = config[f] \/ (f \in {"sizeTime", "countTime"} /\ config[f] <= 0)
Applied == \A f \in Policy : restriction[f] = config[f]
AssertedUpTo(n) == \A i \in 1..n : \A f \in AssertOrder[i] : Agrees(f)

Fidelity(c) ==
  /\ pc[c] = "read" => ReadUpTo(at[c] - 1)
  /\ pc[c] \in {"policy", "schedule", "assert", "done"} => ReadUpTo(20)
  /\ pc[c] \in {"schedule", "assert", "done"} => Applied
  /\ pc[c] = "assert" => AssertedUpTo(at[c] - 1)
  /\ pc[c] = "done" => AssertedUpTo(8)

Inv ==
  /\ TypeOK
  /\ OneInit
  /\ PeriodPositive
  /\ \A c \in Callers : Progress(c)
  /\ \A c \in Callers : quiet[c] => Fidelity(c)

-----------------------------------------------------------------------------
(* The tables of fields.                                                   *)

LEMMA ReadTable ==
  /\ Len(ReadOrder) = 20
  /\ \A i \in 1..20 : ReadOrder[i] \in Fields
  /\ \A f \in Policy : \E i \in 1..20 : ReadOrder[i] = f
  /\ \A f \in Range(ReadOrder) : \E i \in 1..20 : ReadOrder[i] = f
<1>1. Len(ReadOrder) = 20 /\ DOMAIN ReadOrder = 1..20
  BY DEF ReadOrder
<1>2. \A i \in 1..20 : ReadOrder[i] \in Range(ReadOrder)
  BY <1>1 DEF Range
<1>3. \A f \in Range(ReadOrder) : \E i \in 1..20 : ReadOrder[i] = f
  BY <1>1 DEF Range
<1>4. /\ ReadOrder[11] = "enable" /\ ReadOrder[12] = "clear" /\ ReadOrder[13] = "clearTime"
      /\ ReadOrder[14] = "expired" /\ ReadOrder[15] = "sizeTime" /\ ReadOrder[16] = "countTime"
      /\ ReadOrder[17] = "size" /\ ReadOrder[18] = "count" /\ ReadOrder[19] = "typeSize"
      /\ ReadOrder[20] = "allSize"
  BY DEF ReadOrder
<1>5. \A f \in Policy : \E i \in 1..20 : ReadOrder[i] = f
  BY <1>4 DEF Policy
<1>6. QED
  BY <1>1, <1>2, <1>3, <1>5 DEF Fields

\* Where the fields with a part of their own stand in the order.
LEMMA ReadPlaces ==
  /\ ReadOrder[2] = "path" /\ ReadOrder[4] = "remote" /\ ReadOrder[10] = "main"
  /\ \A i \in 1..20 : /\ ReadOrder[i] = "main" => i = 10
                      /\ ReadOrder[i] = "remote" => i = 4
                      /\ ReadOrder[i] # "proto"
  BY DEF ReadOrder

LEMMA FieldFacts ==
  /\ Policy \subseteq Fields
  /\ {"path", "remote", "proto", "period", "main", "expired", "enable"} \subseteq Fields
<1>1. Policy \subseteq Fields
  BY ReadTable
<1>2. "path" \in Fields /\ "remote" \in Fields /\ "main" \in Fields
  BY ReadTable, ReadPlaces
<1>3. "expired" \in Policy /\ "enable" \in Policy
  BY DEF Policy
<1>4. "proto" \in Fields /\ "period" \in Fields
  BY DEF Fields
<1>5. QED
  BY <1>1, <1>2, <1>3, <1>4

LEMMA TaskTable ==
  /\ Len(AssertOrder) = 8
  /\ TaskFields = {"path", "expired", "period", "enable", "count", "typeSize", "allSize",
                   "sizeTime", "countTime", "clear"}
  /\ \A i \in 1..8 : AssertOrder[i] \subseteq TaskFields
  /\ \A f \in TaskFields : \E i \in 1..8 : f \in AssertOrder[i]
<1>1. Len(AssertOrder) = 8 /\ DOMAIN AssertOrder = 1..8
  BY DEF AssertOrder
<1>2. TaskFields = {"path", "expired", "period", "enable", "count", "typeSize", "allSize",
                    "sizeTime", "countTime", "clear"}
  BY DEF TaskFields, AssertOrder, Range
<1>3. \A f \in TaskFields : \E i \in 1..8 : f \in AssertOrder[i]
  BY <1>1 DEF TaskFields, Range
<1>4. \A i \in 1..8 : AssertOrder[i] \subseteq TaskFields
  BY <1>1 DEF TaskFields, Range
<1>5. QED
  BY <1>1, <1>2, <1>3, <1>4

\* A task is not no task.
LEMMA TaskMade == \A t : t \in [TaskFields -> Int] => t # NoTask
<1>1. DOMAIN NoTask = {}
  BY DEF NoTask
<1>2. TaskFields # {}
  BY TaskTable
<1>3. QED
  BY <1>1, <1>2

-----------------------------------------------------------------------------
(* The setters.                                                            *)

\* An option leaves a configuration, with a positive period.
LEMMA StoredSound ==
  ASSUME SettingsAssumption, NEW cfg \in [Fields -> Int], cfg["period"] > 0, NEW o \in Option
  PROVE  Stored(cfg, o) \in [Fields -> Int] /\ Stored(cfg, o)["period"] > 0
<1>1. CASE DOMAIN o = Policy
  <2>1. o \in [Policy -> Int]
    <3>1. SUFFICES ASSUME NEW f \in Fields, o \in [{f} -> Int] PROVE FALSE
      BY DEF Option
    <3>2. {f} = Policy
      BY <1>1, <3>1
    <3>3. "enable" \in Policy /\ "clear" \in Policy
      BY DEF Policy
    <3>4. QED
      BY <3>2, <3>3
  <2>2. "clearTime" \in Policy /\ "period" \in Fields /\ "period" \notin Policy
    BY FieldFacts DEF Policy
  <2>3. \A f \in Fields : SetRestriction(cfg, o)[f] \in Int
    BY <2>1, <2>2 DEF SetRestriction
  <2>4. SetRestriction(cfg, o) \in [Fields -> Int]
    BY <2>3 DEF SetRestriction
  <2>5. SetRestriction(cfg, o)["period"] > 0
    BY <2>1, <2>2 DEF SetRestriction
  <2>6. QED
    BY <1>1, <2>4, <2>5 DEF Stored
<1>2. CASE DOMAIN o # Policy
  <2>1. PICK g \in Fields : o \in [{g} -> Int]
    BY <1>2 DEF Option
  <2>2. (CHOOSE h \in DOMAIN o : TRUE) = g
    BY <2>1
  <2>3. o[g] \in Int
    BY <2>1
  <2>4. Stored(cfg, o) = SetOne(cfg, g, o[g])
    BY <1>2, <2>2 DEF Stored
  <2>5. SetOne(cfg, g, o[g]) \in [Fields -> Int]
    BY <2>3 DEF SetOne, SetLogPath, SettingsAssumption
  <2>6. SetOne(cfg, g, o[g])["period"] > 0
    <3>1. CASE g = "path"
      BY <3>1, FieldFacts DEF SetOne, SetLogPath
    <3>2. CASE g = "period"
      BY <2>3, <3>2, FieldFacts DEF SetOne, Guarded
    <3>3. CASE g \notin {"path", "period"}
      BY <3>3, FieldFacts DEF SetOne
    <3>4. QED
      BY <3>1, <3>2, <3>3
  <2>7. QED
    BY <2>4, <2>5, <2>6
<1>3. QED
  BY <1>1, <1>2
-----------------------------------------------------------------------------
(* Every step keeps the invariant.                                         *)

LEMMA InitInv ==
  ASSUME SettingsAssumption
  PROVE  Init => Inv
<1> SUFFICES ASSUME Init PROVE Inv
  OBVIOUS
<1>1. config \in [Fields -> Int] /\ config["period"] = 1
  BY FieldFacts DEF Init, Defaults
<1>2. TypeOK
  BY <1>1 DEF Init, TypeOK
<1>3. PeriodPositive
  BY <1>1 DEF Init, PeriodPositive
<1>4. OneInit /\ \A c \in Callers : Progress(c) /\ ~quiet[c]
  BY DEF Init, OneInit, Progress, InitPlaces
<1>5. QED
  BY <1>2, <1>3, <1>4 DEF Inv

\* A call outside of Init that moves nobody into Init, out of it or on: what
\* the callers in Init know is kept if nobody is quiet any more.
LEMMA OutsideStep ==
  ASSUME Inv, NEW c \in Callers, pc[c] \in {"idle", "store"},
         pc' = pc \/ pc' = [pc EXCEPT ![c] = "idle"] \/ pc' = [pc EXCEPT ![c] = "store"],
         at' = at, task' = task
  PROVE  OneInit' /\ \A d \in Callers : Progress(d)'
<1>1. \A d \in Callers : pc'[d] = pc[d] \/ (d = c /\ pc'[d] \in {"idle", "store"})
  BY DEF Inv, TypeOK
<1>2. OneInit'
  BY <1>1 DEF Inv, OneInit, InitPlaces
<1>3. ASSUME NEW d \in Callers PROVE Progress(d)'
  BY <1>1 DEF Inv, Progress
<1>4. QED
  BY <1>2, <1>3

LEMMA CallStep ==
  ASSUME SettingsAssumption, Inv, NEW c \in Callers
  PROVE  InitDefaultWithOpts(c) => Inv'
<1> SUFFICES ASSUME InitDefaultWithOpts(c) PROVE Inv'
  OBVIOUS
<1>1. PICK offer \in Offers : options' = [options EXCEPT ![c] = offer]
  BY DEF InitDefaultWithOpts
<1>2. pc[c] = "idle" /\ pc' = [pc EXCEPT ![c] = "store"] /\ UNCHANGED <<config, running, restriction, task, at, quiet>>
  BY DEF InitDefaultWithOpts, Called, Goto
<1>3. TypeOK'
  BY <1>1, <1>2 DEF Inv, TypeOK, SettingsAssumption
<1>4. OneInit' /\ \A d \in Callers : Progress(d)'
  BY <1>2, OutsideStep
<1>5. ASSUME NEW d \in Callers, quiet'[d] PROVE Fidelity(d)'
  <2>1. pc'[d] = pc[d] \/ pc'[d] = "store"
    BY <1>2 DEF Inv, TypeOK
  <2>2. Fidelity(d)
    BY <1>2, <1>5 DEF Inv
  <2>3. QED
    BY <1>2, <2>1, <2>2 DEF Fidelity, ReadUpTo, Applied, AssertedUpTo, Agrees
<1>6. QED
  BY <1>2, <1>3, <1>4, <1>5 DEF Inv, PeriodPositive

LEMMA StoreStep ==
  ASSUME SettingsAssumption, Inv, NEW c \in Callers
  PROVE  StoreOption(c) \/ Set(c) => Inv'
<1> SUFFICES ASSUME StoreOption(c) \/ Set(c) PROVE Inv'
  OBVIOUS
<1>1. PICK o \in Option : config' = Stored(config, o)
  <2>1. CASE StoreOption(c)
    <3>1. options[c] \in Seq(Option) /\ options[c] # <<>>
      BY <2>1 DEF StoreOption, Inv, TypeOK
    <3>2. Head(options[c]) \in Option
      BY <3>1
    <3>3. QED
      BY <2>1, <3>2 DEF StoreOption
  <2>2. CASE Set(c)
    BY <2>2 DEF Set, SettingsAssumption
  <2>3. QED
    BY <2>1, <2>2
<1>2. config' \in [Fields -> Int] /\ config'["period"] > 0
  BY <1>1, StoredSound DEF Inv, TypeOK, PeriodPositive
<1>3. options' \in [Callers -> Seq(Option)]
  <2>1. CASE StoreOption(c)
    <3>1. options[c] \in Seq(Option) /\ options[c] # <<>>
      BY <2>1 DEF StoreOption, Inv, TypeOK
    <3>2. Tail(options[c]) \in Seq(Option)
      BY <3>1
    <3>3. QED
      BY <2>1, <3>2 DEF StoreOption, Inv, TypeOK
  <2>2. CASE Set(c)
    BY <2>2 DEF Set, Inv, TypeOK
  <2>3. QED
    BY <2>1, <2>2
<1>4. /\ quiet' = [d \in Callers |-> FALSE] /\ pc[c] \in {"idle", "store"}
      /\ UNCHANGED <<running, restriction, task, pc, at>>
  BY DEF StoreOption, Set, Called, Disturb
<1>5. TypeOK'
  BY <1>2, <1>3, <1>4 DEF Inv, TypeOK
<1>6. OneInit' /\ \A d \in Callers : Progress(d)'
  BY <1>4, OutsideStep
<1>7. PeriodPositive'
  BY <1>2, <1>4 DEF Inv, PeriodPositive
<1>8. \A d \in Callers : ~quiet'[d]
  BY <1>4
<1>9. QED
  BY <1>5, <1>6, <1>7, <1>8 DEF Inv

LEMMA SetRunningStep ==
  ASSUME SettingsAssumption, Inv, NEW c \in Callers
  PROVE  SetRunningRestriction(c) => Inv'
<1> SUFFICES ASSUME SetRunningRestriction(c) PROVE Inv'
  OBVIOUS
<1>1. PICK o \in Tunings : DOMAIN o = Policy /\ restriction' = o
  BY DEF SetRunningRestriction
<1>2. o \in [Policy -> Int]
  <2>1. SUFFICES ASSUME NEW f \in Fields, o \in [{f} -> Int] PROVE FALSE
    BY <1>1 DEF Option, SettingsAssumption
  <2>2. {f} = Policy
    BY <1>1, <2>1
  <2>3. "enable" \in Policy /\ "clear" \in Policy
    BY DEF Policy
  <2>4. QED
    BY <2>2, <2>3
<1>3. /\ quiet' = [d \in Callers |-> FALSE] /\ pc[c] = "idle"
      /\ UNCHANGED <<config, running, task, pc, options, at>>
  BY DEF SetRunningRestriction, Called, Disturb
<1>4. TypeOK'
  BY <1>1, <1>2, <1>3 DEF Inv, TypeOK
<1>5. OneInit' /\ \A d \in Callers : Progress(d)'
  BY <1>3, OutsideStep
<1>6. \A d \in Callers : ~quiet'[d]
  BY <1>3
<1>7. QED
  BY <1>3, <1>4, <1>5, <1>6 DEF Inv, PeriodPositive

LEMMA CloseStep ==
  ASSUME Inv, NEW c \in Callers
  PROVE  Close(c) => Inv'
<1> SUFFICES ASSUME Close(c) PROVE Inv'
  OBVIOUS
<1>1. UNCHANGED <<config, running, restriction, task, pc, options, at, quiet>>
  BY DEF Close
<1>2. TypeOK' /\ OneInit' /\ PeriodPositive' /\ \A d \in Callers : Progress(d)'
  BY <1>1 DEF Inv, TypeOK, OneInit, PeriodPositive, Progress
<1>3. ASSUME NEW d \in Callers, quiet'[d] PROVE Fidelity(d)'
  BY <1>1, <1>3 DEF Inv, Fidelity, ReadUpTo, Applied, AssertedUpTo, Agrees
<1>4. QED
  BY <1>2, <1>3 DEF Inv

LEMMA LockStep ==
  ASSUME Inv, NEW c \in Callers
  PROVE  InitLock(c) => Inv'
<1> SUFFICES ASSUME InitLock(c) PROVE Inv'
  OBVIOUS
<1>1. pc[c] = "store" /\ UNCHANGED <<config, running, restriction, task, options>>
  BY DEF InitLock
<1>2. CASE bInit
  <2>1. pc' = [pc EXCEPT ![c] = "idle"] /\ UNCHANGED <<at, quiet>>
    BY <1>2 DEF InitLock, Goto
  <2>2. OneInit' /\ \A d \in Callers : Progress(d)'
    BY <1>1, <2>1, OutsideStep
  <2>3. ASSUME NEW d \in Callers, quiet'[d] PROVE Fidelity(d)'
    <3>1. pc'[d] = pc[d] \/ pc'[d] = "idle"
      BY <2>1 DEF Inv, TypeOK
    <3>2. Fidelity(d)
      BY <2>1, <2>3 DEF Inv
    <3>3. QED
      BY <1>1, <2>1, <3>1, <3>2 DEF Fidelity, ReadUpTo, Applied, AssertedUpTo, Agrees
  <2>4. QED
    BY <1>1, <2>1, <2>2, <2>3 DEF Inv, TypeOK, PeriodPositive
<1>3. CASE ~bInit
  <2>1. /\ pc' = [pc EXCEPT ![c] = "read"] /\ at' = [at EXCEPT ![c] = 1]
        /\ quiet' = [quiet EXCEPT ![c] = TRUE] /\ LoggerFree
    BY <1>3 DEF InitLock, Goto
  <2>2. \A d \in Callers : pc[d] \notin InitPlaces
    BY <2>1 DEF LoggerFree, InitPlaces
  <2>3. \A d \in Callers : d # c => pc'[d] \notin InitPlaces
    BY <2>1, <2>2 DEF Inv, TypeOK
  <2>4. pc'[c] = "read" /\ at'[c] = 1
    BY <2>1 DEF Inv, TypeOK
  <2>5. TypeOK'
    BY <1>1, <2>1 DEF Inv, TypeOK, InitPlaces
  <2>6. OneInit'
    BY <2>3 DEF OneInit
  <2>7. ASSUME NEW d \in Callers PROVE Progress(d)' /\ Fidelity(d)'
    <3>1. CASE d = c
      BY <2>4, <3>1 DEF Progress, Fidelity, ReadUpTo
    <3>2. CASE d # c
      BY <2>3, <3>2 DEF Progress, Fidelity, InitPlaces
    <3>3. QED
      BY <3>1, <3>2
  <2>8. QED
    BY <1>1, <2>5, <2>6, <2>7 DEF Inv, PeriodPositive
<1>4. QED
  BY <1>2, <1>3

\* A step of the caller in Init disturbs nobody else.
LEMMA InsideStep ==
  ASSUME Inv, NEW c \in Callers, pc[c] \in InitPlaces,
         \A d \in Callers : d # c => pc'[d] = pc[d]
  PROVE  /\ OneInit'
         /\ \A d \in Callers : d # c => Progress(d)' /\ Fidelity(d)'
<1>1. \A d \in Callers : d # c => pc'[d] \notin InitPlaces
  BY DEF Inv, OneInit
<1>2. OneInit'
  BY <1>1 DEF OneInit
<1>3. ASSUME NEW d \in Callers, d # c PROVE Progress(d)' /\ Fidelity(d)'
  BY <1>1, <1>3 DEF Progress, Fidelity, InitPlaces
<1>4. QED
  BY <1>2, <1>3

LEMMA ReadStep ==
  ASSUME Inv, NEW c \in Callers
  PROVE  ReadField(c) => Inv'
<1> SUFFICES ASSUME ReadField(c) PROVE Inv'
  OBVIOUS
<1>1. pc[c] = "read" /\ UNCHANGED <<config, restriction, task, options, quiet>>
  BY DEF ReadField
<1>a. PICK i \in 1..20 : i = at[c]
  BY <1>1 DEF Inv, Progress
<1>b. PICK f \in Fields : f = ReadOrder[i]
  BY ReadTable
<1>2. i \in 1..20 /\ f \in Fields /\ f = ReadOrder[i]
  BY <1>b
<1>3. running' = IF f = "main" /\ running["remote"] # 0
                   THEN [running EXCEPT ![f] = config[f], !["proto"] = config["proto"]]
                   ELSE [running EXCEPT ![f] = config[f]]
  BY <1>a, <1>b DEF ReadField
<1>4. running' \in [Fields -> Int]
  BY <1>2, <1>3, FieldFacts DEF Inv, TypeOK
<1>5. \/ i < 20 /\ at' = [at EXCEPT ![c] = i + 1] /\ pc' = pc
      \/ i = 20 /\ at' = [at EXCEPT ![c] = 1] /\ pc' = [pc EXCEPT ![c] = "policy"]
  BY <1>a, ReadTable DEF ReadField, Goto
<1>6. TypeOK'
  <2>1. pc' \in [Callers -> {"idle", "store"} \cup InitPlaces]
    BY <1>5 DEF Inv, TypeOK, InitPlaces
  <2>2. at' \in [Callers -> Nat]
    BY <1>5 DEF Inv, TypeOK
  <2>3. QED
    BY <1>1, <1>4, <2>1, <2>2 DEF Inv, TypeOK
<1>7. OneInit' /\ \A d \in Callers : d # c => Progress(d)' /\ Fidelity(d)'
  <2>1. pc[c] \in InitPlaces
    BY <1>1 DEF InitPlaces
  <2>2. \A d \in Callers : d # c => pc'[d] = pc[d]
    BY <1>5 DEF Inv, TypeOK
  <2>3. QED
    BY <2>1, <2>2, InsideStep
<1>8. \/ i < 20 /\ at'[c] = i + 1 /\ pc'[c] = "read"
      \/ i = 20 /\ at'[c] = 1 /\ pc'[c] = "policy"
  BY <1>1, <1>5 DEF Inv, TypeOK
<1>9. Progress(c)'
  BY <1>2, <1>8 DEF Progress
<1>10. quiet[c] => ReadUpTo(i)'
  <2> SUFFICES ASSUME quiet[c] PROVE ReadUpTo(i)'
    OBVIOUS
  <2>1. ReadUpTo(i - 1)
    BY <1>1, <1>a DEF Inv, Fidelity
  <2>2. running'[f] = config[f]
    BY <1>2, <1>3, ReadPlaces, FieldFacts DEF Inv, TypeOK
  <2>3. ASSUME NEW j \in 1..(i - 1) PROVE running'[ReadOrder[j]] = config[ReadOrder[j]]
    <3>1. ReadOrder[j] \in Fields /\ ReadOrder[j] # "proto" /\ j \in 1..20
      BY <1>2, ReadTable, ReadPlaces
    <3>2. running[ReadOrder[j]] = config[ReadOrder[j]]
      BY <2>1 DEF ReadUpTo
    <3>3. QED
      BY <1>2, <1>3, <3>1, <3>2 DEF Inv, TypeOK
  <2>4. \A j \in 1..i : running'[ReadOrder[j]] = config[ReadOrder[j]]
    <3>1. \A j \in 1..i : j = i \/ j \in 1..(i - 1)
      BY <1>2
    <3>2. QED
      BY <1>2, <2>2, <2>3, <3>1
  <2>5. ASSUME i >= 10, running'["remote"] # 0 PROVE running'["proto"] = config["proto"]
    <3>1. f # "remote"
      BY <1>2, <2>5, ReadPlaces
    <3>2. running["remote"] # 0
      BY <1>2, <1>3, <2>5, <3>1, FieldFacts DEF Inv, TypeOK
    <3>3. CASE i = 10
      BY <1>2, <1>3, <3>2, <3>3, ReadPlaces, FieldFacts DEF Inv, TypeOK
    <3>4. CASE i > 10
      <4>1. running["proto"] = config["proto"]
        BY <1>2, <2>1, <3>2, <3>4 DEF ReadUpTo
      <4>2. f # "main" /\ f # "proto"
        BY <1>2, <3>4, ReadPlaces
      <4>3. QED
        BY <1>2, <1>3, <4>1, <4>2, FieldFacts DEF Inv, TypeOK
    <3>5. QED
      BY <1>2, <2>5, <3>3, <3>4
  <2>6. QED
    BY <1>1, <2>4, <2>5 DEF ReadUpTo
<1>11. quiet'[c] => Fidelity(c)'
  <2>1. i \in Int
    BY <1>2
  <2>2. at'[c] = i + 1 => at'[c] - 1 = i
    BY <2>1
  <2>3. QED
    BY <1>1, <1>8, <1>10, <2>2 DEF Fidelity, ReadUpTo
<1>12. QED
  BY <1>1, <1>6, <1>7, <1>9, <1>11 DEF Inv, PeriodPositive

LEMMA PolicyStep ==
  ASSUME Inv, NEW c \in Callers
  PROVE  ApplyPolicy(c) => Inv'
<1> SUFFICES ASSUME ApplyPolicy(c) PROVE Inv'
  OBVIOUS
<1>1. /\ pc[c] = "policy" /\ UNCHANGED <<config, running, task, options, at, quiet>>
      /\ restriction' = [f \in Policy |-> running[f]]
      /\ pc' = [pc EXCEPT ![c] = "schedule"]
  BY DEF ApplyPolicy, Goto
<1>2. restriction' \in [Policy -> Int]
  BY <1>1, FieldFacts DEF Inv, TypeOK
<1>3. TypeOK'
  BY <1>1, <1>2 DEF Inv, TypeOK, InitPlaces
<1>4. OneInit' /\ \A d \in Callers : d # c => Progress(d)' /\ Fidelity(d)'
  <2>1. pc[c] \in InitPlaces
    BY <1>1 DEF InitPlaces
  <2>2. QED
    BY <1>1, <2>1, InsideStep DEF Inv, TypeOK
<1>5. pc'[c] = "schedule"
  BY <1>1 DEF Inv, TypeOK
<1>6. Progress(c)'
  BY <1>1, <1>5 DEF Inv, Progress
<1>7. ASSUME quiet'[c] PROVE Fidelity(c)'
  <2>1. ReadUpTo(20)
    BY <1>1, <1>7 DEF Inv, Fidelity
  <2>2. \A f \in Policy : running[f] = config[f]
    BY <2>1, ReadTable DEF ReadUpTo
  <2>3. Applied'
    BY <1>1, <2>2 DEF Applied
  <2>4. QED
    BY <1>1, <1>5, <2>1, <2>3 DEF Fidelity, ReadUpTo
<1>8. QED
  BY <1>1, <1>3, <1>4, <1>6, <1>7 DEF Inv, PeriodPositive

LEMMA ScheduleStep ==
  ASSUME Inv, NEW c \in Callers
  PROVE  ScheduleInit(c) => Inv'
<1> SUFFICES ASSUME ScheduleInit(c) PROVE Inv'
  OBVIOUS
<1>1. /\ pc[c] = "schedule" /\ UNCHANGED <<config, running, restriction, options, at, quiet>>
      /\ pc' = [pc EXCEPT ![c] = "assert"]
  BY DEF ScheduleInit, Goto
<1>2. task' \in [TaskFields -> Int] /\ task' # NoTask /\ task'["period"] > 0
  <2>1. CASE task = NoTask
    <3>1. task' = [TaskDefaults EXCEPT !["path"] = running["path"], !["expired"] = config["expired"]]
      BY <2>1 DEF ScheduleInit
    <3>2. TaskDefaults \in [TaskFields -> Int] /\ TaskDefaults["period"] = 1
      BY TaskTable DEF TaskDefaults
    <3>3. running["path"] \in Int /\ config["expired"] \in Int
      BY FieldFacts DEF Inv, TypeOK
    <3>4. task' \in [TaskFields -> Int] /\ task'["period"] = 1
      BY <3>1, <3>2, <3>3, TaskTable
    <3>5. QED
      BY <3>4, TaskMade
  <2>2. CASE task # NoTask
    BY <2>2 DEF ScheduleInit, Inv, TypeOK, PeriodPositive
  <2>3. QED
    BY <2>1, <2>2
<1>3. TypeOK'
  BY <1>1, <1>2 DEF Inv, TypeOK, InitPlaces
<1>4. OneInit' /\ \A d \in Callers : d # c => Progress(d)' /\ Fidelity(d)'
  <2>1. pc[c] \in InitPlaces
    BY <1>1 DEF InitPlaces
  <2>2. QED
    BY <1>1, <2>1, InsideStep DEF Inv, TypeOK
<1>5. pc'[c] = "assert" /\ at'[c] = 1
  BY <1>1 DEF Inv, TypeOK, Progress
<1>6. Progress(c)'
  BY <1>2, <1>5 DEF Progress
<1>7. ASSUME quiet'[c] PROVE Fidelity(c)'
  <2>1. ReadUpTo(20) /\ Applied
    BY <1>1, <1>7 DEF Inv, Fidelity
  <2>2. ReadUpTo(20)' /\ Applied'
    BY <1>1, <2>1 DEF ReadUpTo, Applied
  <2>3. AssertedUpTo(0)' /\ at'[c] - 1 = 0
    BY <1>5 DEF AssertedUpTo
  <2>4. QED
    BY <1>5, <2>2, <2>3 DEF Fidelity
<1>8. QED
  BY <1>1, <1>2, <1>3, <1>4, <1>6, <1>7 DEF Inv, PeriodPositive

LEMMA AssertStep ==
  ASSUME Inv, NEW c \in Callers
  PROVE  AssertSetting(c) => Inv'
<1> SUFFICES ASSUME AssertSetting(c) PROVE Inv'
  OBVIOUS
<1>0. pc[c] = "assert" /\ at[c] \in 1..8
  BY TaskTable DEF AssertSetting, Inv, Progress
<1>a. PICK i \in 1..8 : i = at[c]
  BY <1>0
<1>1. /\ pc[c] = "assert" /\ UNCHANGED <<config, running, restriction, pc, options, quiet>>
      /\ task' = [f \in TaskFields |-> IF f \in AssertOrder[i] THEN Asserted(f) ELSE task[f]]
      /\ at' = [at EXCEPT ![c] = i + 1]
  BY <1>a DEF AssertSetting
<1>2. i \in 1..8
  OBVIOUS
<1>3. task # NoTask /\ task \in [TaskFields -> Int]
  BY <1>1 DEF Inv, Progress, TypeOK
<1>4. \A f \in TaskFields : Source(f) \in Int
  <2>1. \A f \in TaskFields : f \in {"path", "expired", "period", "enable"} \/ f \in Policy
    BY TaskTable DEF Policy
  <2>2. QED
    BY <2>1, FieldFacts DEF Source, Inv, TypeOK
<1>5. task' \in [TaskFields -> Int]
  BY <1>1, <1>3, <1>4 DEF Asserted
<1>6. "period" \in TaskFields /\ Asserted("period") > 0
  BY <1>3, TaskTable, FieldFacts DEF Asserted, Source, Inv, PeriodPositive, TypeOK
<1>7. task' # NoTask /\ task'["period"] > 0
  <2>1. task'["period"] > 0
    BY <1>1, <1>3, <1>6 DEF Inv, PeriodPositive
  <2>2. QED
    BY <1>5, <2>1, TaskMade
<1>8. TypeOK'
  BY <1>1, <1>2, <1>5 DEF Inv, TypeOK
<1>9. OneInit' /\ \A d \in Callers : d # c => Progress(d)' /\ Fidelity(d)'
  <2>1. pc[c] \in InitPlaces
    BY <1>1 DEF InitPlaces
  <2>2. QED
    BY <1>1, <2>1, InsideStep
<1>10. pc'[c] = "assert" /\ at'[c] = i + 1 /\ at'[c] - 1 = i
  BY <1>1, <1>2 DEF Inv, TypeOK
<1>11. Progress(c)'
  BY <1>2, <1>7, <1>10 DEF Progress
<1>12. ASSUME quiet'[c] PROVE Fidelity(c)'
  <2>1. ReadUpTo(20) /\ Applied /\ AssertedUpTo(i - 1)
    BY <1>1, <1>12, <1>a DEF Inv, Fidelity
  <2>2. ReadUpTo(20)' /\ Applied'
    BY <1>1, <2>1 DEF ReadUpTo, Applied
  <2>3. running["path"] = config["path"]
    BY <2>1, ReadPlaces DEF ReadUpTo
  <2>4. \A f \in TaskFields : Source(f) = config[f]
    <3>1. \A f \in TaskFields : f \in {"path", "expired", "period", "enable"} \/ f \in Policy
      BY TaskTable DEF Policy
    <3>2. QED
      BY <2>1, <2>3, <3>1 DEF Source, Applied
  <2>5. ASSUME NEW f \in TaskFields, f \in AssertOrder[i] PROVE Agrees(f)'
    <3>1. task'[f] = Asserted(f) /\ Source(f) = config[f] /\ config'[f] = config[f]
      BY <1>1, <2>4, <2>5
    <3>2. f = "period" => config[f] > 0
      BY DEF Inv, PeriodPositive
    <3>3. Source(f) \in Int
      BY <1>4
    <3>4. QED
      BY <3>1, <3>2, <3>3 DEF Asserted, Agrees
  <2>6. ASSUME NEW f \in TaskFields, f \notin AssertOrder[i], Agrees(f) PROVE Agrees(f)'
    BY <1>1, <2>6 DEF Agrees
  <2>7. ASSUME NEW j \in 1..i, NEW f \in AssertOrder[j] PROVE Agrees(f)'
    <3>1. f \in TaskFields
      BY <1>2, TaskTable
    <3>2. j = i \/ j \in 1..(i - 1)
      BY <1>2
    <3>3. CASE f \in AssertOrder[i]
      BY <2>5, <3>1, <3>3
    <3>4. CASE f \notin AssertOrder[i]
      <4>1. j \in 1..(i - 1)
        BY <2>7, <3>2, <3>4
      <4>2. Agrees(f)
        BY <2>1, <4>1 DEF AssertedUpTo
      <4>3. QED
        BY <2>6, <3>1, <3>4, <4>2
    <3>5. QED
      BY <3>3, <3>4
  <2>8. AssertedUpTo(i)'
    BY <2>7 DEF AssertedUpTo
  <2>9. QED
    BY <1>10, <2>2, <2>8 DEF Fidelity
<1>13. QED
  BY <1>1, <1>7, <1>8, <1>9, <1>11, <1>12 DEF Inv, PeriodPositive

LEMMA DoneStep ==
  ASSUME Inv, NEW c \in Callers
  PROVE  InitDone(c) => Inv'
<1> SUFFICES ASSUME InitDone(c) PROVE Inv'
  OBVIOUS
<1>1. /\ pc[c] = "assert" /\ UNCHANGED <<config, running, restriction, task, options, quiet>>
      /\ at' = [at EXCEPT ![c] = 0] /\ pc' = [pc EXCEPT ![c] = "done"]
  BY DEF InitDone, Goto
<1>2. at[c] = 9
  BY <1>1, TaskTable DEF InitDone, Inv, Progress
<1>3. TypeOK'
  BY <1>1 DEF Inv, TypeOK, InitPlaces
<1>4. OneInit' /\ \A d \in Callers : d # c => Progress(d)' /\ Fidelity(d)'
  <2>1. pc[c] \in InitPlaces
    BY <1>1 DEF InitPlaces
  <2>2. QED
    BY <1>1, <2>1, InsideStep DEF Inv, TypeOK
<1>5. pc'[c] = "done"
  BY <1>1 DEF Inv, TypeOK
<1>6. Progress(c)'
  BY <1>1, <1>5 DEF Inv, Progress
<1>7. ASSUME quiet'[c] PROVE Fidelity(c)'
  <2>1. at[c] - 1 = 8
    BY <1>2
  <2>2. ReadUpTo(20) /\ Applied /\ AssertedUpTo(8)
    BY <1>1, <1>7, <2>1 DEF Inv, Fidelity
  <2>3. ReadUpTo(20)' /\ Applied' /\ AssertedUpTo(8)'
    BY <1>1, <2>2 DEF ReadUpTo, Applied, AssertedUpTo, Agrees
  <2>4. QED
    BY <1>5, <2>3 DEF Fidelity
<1>8. QED
  BY <1>1, <1>3, <1>4, <1>6, <1>7 DEF Inv, PeriodPositive

LEMMA ReturnStep ==
  ASSUME Inv, NEW c \in Callers
  PROVE  InitReturn(c) => Inv'
<1> SUFFICES ASSUME InitReturn(c) PROVE Inv'
  OBVIOUS
<1>1. /\ pc[c] = "done" /\ UNCHANGED <<config, running, restriction, task, options, at>>
      /\ pc' = [pc EXCEPT ![c] = "idle"] /\ quiet' = [quiet EXCEPT ![c] = FALSE]
  BY DEF InitReturn, Goto
<1>2. TypeOK'
  BY <1>1 DEF Inv, TypeOK
<1>3. OneInit' /\ \A d \in Callers : d # c => Progress(d)' /\ Fidelity(d)'
  <2>1. pc[c] \in InitPlaces
    BY <1>1 DEF InitPlaces
  <2>2. QED
    BY <1>1, <2>1, InsideStep DEF Inv, TypeOK
<1>4. pc'[c] = "idle" /\ ~quiet'[c]
  BY <1>1 DEF Inv, TypeOK
<1>5. Progress(c)'
  BY <1>4 DEF Progress
<1>6. QED
  BY <1>1, <1>2, <1>3, <1>4, <1>5 DEF Inv, PeriodPositive

\* No action, and no stuttering, breaks the invariant.
LEMMA InvStep == SettingsAssumption /\ Inv /\ [Next]_vars => Inv'
<1> SUFFICES ASSUME SettingsAssumption, Inv, [Next]_vars PROVE Inv'
  OBVIOUS
<1>1. CASE UNCHANGED vars
  <2>1. UNCHANGED <<config, running, restriction, task, pc, options, at, quiet>>
    BY <1>1 DEF vars
  <2>2. TypeOK' /\ OneInit' /\ PeriodPositive' /\ \A d \in Callers : Progress(d)'
    BY <2>1 DEF Inv, TypeOK, OneInit, PeriodPositive, Progress
  <2>3. ASSUME NEW d \in Callers, quiet'[d] PROVE Fidelity(d)'
    BY <2>1, <2>3 DEF Inv, Fidelity, ReadUpTo, Applied, AssertedUpTo, Agrees
  <2>4. QED
    BY <2>2, <2>3 DEF Inv
<1>2. ASSUME NEW c \in Callers, InitDefaultWithOpts(c) PROVE Inv'
  BY <1>2, CallStep
<1>3. ASSUME NEW c \in Callers, StoreOption(c) \/ Set(c) PROVE Inv'
  BY <1>3, StoreStep
<1>4. ASSUME NEW c \in Callers, SetRunningRestriction(c) PROVE Inv'
  BY <1>4, SetRunningStep
<1>5. ASSUME NEW c \in Callers, Close(c) PROVE Inv'
  BY <1>5, CloseStep
<1>6. ASSUME NEW c \in Callers, InitLock(c) PROVE Inv'
  BY <1>6, LockStep
<1>7. ASSUME NEW c \in Callers, ReadField(c) PROVE Inv'
  BY <1>7, ReadStep
<1>8. ASSUME NEW c \in Callers, ApplyPolicy(c) PROVE Inv'
  BY <1>8, PolicyStep
<1>9. ASSUME NEW c \in Callers, ScheduleInit(c) PROVE Inv'
  BY <1>9, ScheduleStep
<1>10. ASSUME NEW c \in Callers, AssertSetting(c) PROVE Inv'
  BY <1>10, AssertStep
<1>11. ASSUME NEW c \in Callers, InitDone(c) PROVE Inv'
  BY <1>11, DoneStep
<1>12. ASSUME NEW c \in Callers, InitReturn(c) PROVE Inv'
  BY <1>12, ReturnStep
<1>13. QED
  BY <1>1, <1>2, <1>3, <1>4, <1>5, <1>6, <1>7, <1>8, <1>9, <1>10, <1>11, <1>12 DEF Next

-----------------------------------------------------------------------------
(* The theorem.                                                            *)

LEMMA InvImpliesRunsAsConfigured == Inv => RunsAsConfigured
<1> SUFFICES ASSUME Inv, NEW c \in Callers, pc[c] = "done", quiet[c]
             PROVE  /\ \A f \in Range(ReadOrder) : running[f] = config[f]
                    /\ running["remote"] # 0 => running["proto"] = config["proto"]
                    /\ \A f \in Policy : restriction[f] = config[f]
                    /\ \A f \in TaskFields : Agrees(f)
                    /\ task["period"] > 0
  BY DEF RunsAsConfigured, Agrees
<1>1. ReadUpTo(20) /\ Applied /\ AssertedUpTo(8)
  BY DEF Inv, Fidelity
<1>2. \A f \in Range(ReadOrder) : running[f] = config[f]
  BY <1>1, ReadTable DEF ReadUpTo
<1>3. \A f \in TaskFields : Agrees(f)
  BY <1>1, TaskTable DEF AssertedUpTo
<1>4. task["period"] > 0
  BY DEF Inv, Progress, PeriodPositive
<1>5. QED
  BY <1>1, <1>2, <1>3, <1>4 DEF ReadUpTo, Applied

\* Whatever numbers the settings are, however many callers store them and in
\* whatever order: when an Init that nothing was stored beside ends, the
\* control, its restriction and the cleanup task have the configuration, and
\* the ticker has a positive period (logger.go 176-275).
THEOREM RunsOnConfiguration ==
  SettingsAssumption /\ Spec => []RunsAsConfigured
<1>1. SettingsAssumption /\ Init => Inv
  BY InitInv
<1>2. SettingsAssumption /\ Inv /\ [Next]_vars => Inv'
  BY InvStep
<1>3. Inv => RunsAsConfigured
  BY InvImpliesRunsAsConfigured
<1> SUFFICES ASSUME SettingsAssumption PROVE Spec => []RunsAsConfigured
  OBVIOUS
<1>4. Init => Inv
  BY <1>1
<1>5. Inv /\ [Next]_vars => Inv'
  BY <1>2
<1>6. QED
  BY <1>3, <1>4, <1>5, PTL DEF Spec
=============================================================================
