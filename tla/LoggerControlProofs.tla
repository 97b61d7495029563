------------------------ MODULE LoggerControlProofs ------------------------
(***************************************************************************)
(* Theorems about LoggerControl, for all types, callers, writers, options  *)
(* and numbers of calls: the types of its variables, the agreement of the  *)
(* two level filters, what is mounted, and what a message reaches.         *)
(***************************************************************************)
EXTENDS LoggerControl, FiniteSetTheorems, SequenceTheorems, TLAPS

-----------------------------------------------------------------------------
(***************************************************************************)
(* The types.  Sequences of appenders and of entities only grow, so a      *)
(* number that a call or a writer keeps stays in its range.                *)
(***************************************************************************)
SettingsOK ==
  /\ bound \in BOOLEAN /\ bInit \in BOOLEAN /\ bExit \in BOOLEAN
  /\ config \in [filter : Level, on : SUBSET (Switches \cup {Console})]
  /\ level \in Level /\ mirror \in Level

MountOK ==
  /\ apps \in Seq([type : Types, open : BOOLEAN])
  /\ consoleApp \in App \cup {NoApp}
  /\ registry \subseteq App
  /\ appenders \in [Types -> Seq(SUBSET App)]
  /\ entity \in [Types -> Nat] /\ made \in [Types -> Nat]
  /\ \A t \in Types : /\ entity[t] \in DOMAIN appenders[t]
                      /\ made[t] \in DOMAIN appenders[t] \cup {NoEntity}

CallOK ==
  /\ op \in [Callers -> {"none", "init", "level", "on", "off", "flush", "close"}]
  /\ pc \in [Callers -> Places]
  /\ filter \in [Callers -> Level]
  /\ todo \in [Callers -> SUBSET Types]
  /\ new \in [Callers -> [type : Types, app : App \cup {NoApp}, ent : Nat]]
  /\ ents \in [Callers -> SUBSET (Types \X Nat)]

WriteOK ==
  /\ wpc \in [Writers -> {"idle", "flags", "route", "write", "done"}]
  /\ message \in [Writers -> [type : Types, via : Entries]]
  /\ targets \in [Writers -> Seq(Types \X Nat)]
  /\ snapshot \in [Writers -> SUBSET App]
  /\ reached \in [Writers -> Seq(App)]

CountOK == quiet \in [Writers -> BOOLEAN] /\ calls \in 0..MaxCalls

\* What a call, a Close and a writer have kept are appenders and entities.
NewMade == \A c \in Callers :
  /\ pc[c] \in {"mount", "attach"} => new[c].ent \in DOMAIN appenders[new[c].type]
  /\ pc[c] \in {"mount", "attach", "register"} => new[c].app \in App
EntsMade    == \A c \in Callers : \A e \in ents[c] : e[2] \in DOMAIN appenders[e[1]]
TargetsMade == \A w \in Writers : \A i \in DOMAIN targets[w] : targets[w][i][2] \in DOMAIN appenders[targets[w][i][1]]

TypeInv ==
  /\ SettingsOK /\ MountOK /\ CallOK /\ WriteOK /\ CountOK
  /\ NewMade /\ EntsMade /\ TargetsMade

LEMMA TypeInvTypeOK == TypeInv => TypeOK
BY DEF TypeInv, TypeOK, SettingsOK, MountOK, CallOK, WriteOK, CountOK

\* The constants.
LEMMA TypeFacts ==
  /\ Main \in Types /\ Console \in Types
  /\ Switches \subseteq Types /\ Files \subseteq Types
  /\ \A o \in Options : o.filter \in Level /\ o.on \subseteq Switches \cup {Console}
  /\ Types \ {Main} \in Level
  /\ MaxCalls \in Nat
<1>1. \A o \in Options : o.filter \in Level /\ o.on \subseteq Switches \cup {Console}
  BY TypesAssumption DEF Level
<1>2. QED
  BY <1>1, BoundAssumption DEF Types, Level

LEMMA InitType == Init => TypeInv
<1> SUFFICES ASSUME Init PROVE TypeInv
  OBVIOUS
<1>1. SettingsOK
  BY TypeFacts DEF Init, SettingsOK
<1>2. MountOK
  <2>1. apps \in Seq([type : Types, open : BOOLEAN]) /\ registry = {} /\ consoleApp = NoApp
    BY DEF Init
  <2>2. << {} >> \in Seq(SUBSET App) /\ DOMAIN << {} >> = 1..1
    OBVIOUS
  <2>3. appenders \in [Types -> Seq(SUBSET App)] /\ \A t \in Types : DOMAIN appenders[t] = 1..1
    BY <2>2 DEF Init
  <2>4. entity \in [Types -> Nat] /\ made \in [Types -> Nat] /\ \A t \in Types : entity[t] = 1 /\ made[t] = 1
    BY DEF Init
  <2>5. QED
    BY <2>1, <2>3, <2>4 DEF MountOK
<1>3. CallOK
  BY TypeFacts DEF Init, CallOK, NoNew, NoApp, NoEntity, Places, Level
<1>4. WriteOK
  <2>1. targets \in [Writers -> Seq(Types \X Nat)] /\ reached \in [Writers -> Seq(App)]
    BY DEF Init
  <2>2. QED
    BY <2>1, TypeFacts DEF Init, WriteOK, NoMessage, Entries
<1>5. CountOK
  BY TypeFacts DEF Init, CountOK
<1>6. NewMade /\ EntsMade /\ TargetsMade
  <2>1. \A w \in Writers : DOMAIN targets[w] = {}
    BY DEF Init
  <2>2. QED
    BY <2>1 DEF Init, NewMade, EntsMade, TargetsMade
<1>7. QED
  BY <1>1, <1>2, <1>3, <1>4, <1>5, <1>6 DEF TypeInv

\* Appenders and entities are only added.
Grows ==
  /\ App \subseteq App'
  /\ \A t \in Types : DOMAIN appenders[t] \subseteq DOMAIN appenders'[t]

LEMMA SameGrows == UNCHANGED mountVars => Grows
BY DEF mountVars, Grows, App

LEMMA SameMount == MountOK /\ UNCHANGED mountVars => MountOK'
BY DEF mountVars, MountOK, App

\* What is kept stays in its range.
LEMMA KeptWriters == TypeInv /\ Grows /\ UNCHANGED writeVars => WriteOK' /\ TargetsMade'
<1> SUFFICES ASSUME TypeInv, Grows, UNCHANGED writeVars PROVE WriteOK' /\ TargetsMade'
  OBVIOUS
<1>1. reached \in [Writers -> Seq(App')]
  <2>1. \A w \in Writers : reached[w] \in Seq(App) => reached[w] \in Seq(App')
    BY DEF Grows
  <2>2. QED
    BY <2>1 DEF TypeInv, WriteOK
<1>2. snapshot \in [Writers -> SUBSET (App')]
  BY DEF TypeInv, WriteOK, Grows
<1>3. WriteOK'
  BY <1>1, <1>2 DEF TypeInv, WriteOK, writeVars
<1>4. TargetsMade'
  <2>1. \A w \in Writers : \A i \in DOMAIN targets[w] : targets[w][i] \in Types \X Nat
    BY DEF TypeInv, WriteOK
  <2>2. QED
    BY <2>1 DEF TypeInv, TargetsMade, Grows, writeVars
<1>5. QED
  BY <1>3, <1>4

LEMMA KeptNew ==
  TypeInv /\ Grows => /\ new \in [Callers -> [type : Types, app : App' \cup {NoApp}, ent : Nat]]
                      /\ \A c \in Callers : \A e \in ents[c] : e[2] \in DOMAIN appenders'[e[1]]
<1> SUFFICES ASSUME TypeInv, Grows
             PROVE  /\ new \in [Callers -> [type : Types, app : App' \cup {NoApp}, ent : Nat]]
                    /\ \A c \in Callers : \A e \in ents[c] : e[2] \in DOMAIN appenders'[e[1]]
  OBVIOUS
<1>1. \A c \in Callers : new[c] \in [type : Types, app : App' \cup {NoApp}, ent : Nat]
  BY DEF TypeInv, CallOK, Grows
<1>2. \A c \in Callers : \A e \in ents[c] : e \in Types \X Nat
  BY DEF TypeInv, CallOK
<1>3. QED
  BY <1>1, <1>2 DEF TypeInv, CallOK, EntsMade, Grows

-----------------------------------------------------------------------------
(* Steps that create no appender and no entity. *)

Plain == Places \ {"mount", "attach", "register"}

\* A caller at a plain place keeps nothing that has to be made.
LEMMA PlainNew ==
  ASSUME TypeInv, NEW c \in Callers, NEW p \in Plain
  PROVE  Grows /\ pc' = [pc EXCEPT ![c] = p] /\ (\A d \in Callers \ {c} : new'[d] = new[d]) => NewMade'
<1> SUFFICES ASSUME Grows, pc' = [pc EXCEPT ![c] = p], \A d \in Callers \ {c} : new'[d] = new[d]
             PROVE  NewMade'
  OBVIOUS
<1>1. pc'[c] = p /\ \A d \in Callers \ {c} : pc'[d] = pc[d]
  BY DEF TypeInv, CallOK
<1>2. \A d \in Callers : new[d].type \in Types
  BY DEF TypeInv, CallOK
<1>3. ASSUME NEW d \in Callers, pc'[d] \in {"mount", "attach"} PROVE new'[d].ent \in DOMAIN appenders'[new'[d].type]
  <2>1. d # c
    BY <1>1, <1>3 DEF Plain
  <2>2. QED
    BY <1>1, <1>2, <1>3, <2>1 DEF TypeInv, NewMade, Grows
<1>4. ASSUME NEW d \in Callers, pc'[d] \in {"mount", "attach", "register"} PROVE new'[d].app \in App'
  <2>1. d # c
    BY <1>1, <1>4 DEF Plain
  <2>2. QED
    BY <1>1, <1>4, <2>1 DEF TypeInv, NewMade, Grows
<1>5. QED
  BY <1>3, <1>4 DEF NewMade

\* A step of a caller's call that leaves alone what is mounted.
LEMMA PlainStep ==
  ASSUME TypeInv, NEW c \in Callers, NEW p \in Plain
  PROVE  /\ UNCHANGED <<mountVars, elsewhere>> /\ SettingsOK' /\ EntsMade'
         /\ pc' = [pc EXCEPT ![c] = p]
         /\ op' = op \/ op' = [op EXCEPT ![c] = "none"]
         /\ filter' \in [Callers -> Level] /\ todo' \in [Callers -> SUBSET Types]
         /\ ents' \in [Callers -> SUBSET (Types \X Nat)]
         /\ \/ new' = new \/ new' = [new EXCEPT ![c] = NoNew]
            \/ \E t \in Types : new' = [new EXCEPT ![c].type = t]
         => TypeInv'
<1> SUFFICES ASSUME /\ UNCHANGED <<mountVars, elsewhere>> /\ SettingsOK' /\ EntsMade'
                    /\ pc' = [pc EXCEPT ![c] = p]
                    /\ op' = op \/ op' = [op EXCEPT ![c] = "none"]
                    /\ filter' \in [Callers -> Level] /\ todo' \in [Callers -> SUBSET Types]
                    /\ ents' \in [Callers -> SUBSET (Types \X Nat)]
                    /\ \/ new' = new \/ new' = [new EXCEPT ![c] = NoNew]
                       \/ \E t \in Types : new' = [new EXCEPT ![c].type = t]
             PROVE  TypeInv'
  OBVIOUS
<1>1. Grows /\ App' = App
  BY SameGrows DEF mountVars, App
<1>2. MountOK'
  BY SameMount DEF TypeInv
<1>3. WriteOK' /\ TargetsMade' /\ CountOK'
  BY <1>1, KeptWriters DEF elsewhere, TypeInv, CountOK
<1>4. new' \in [Callers -> [type : Types, app : App' \cup {NoApp}, ent : Nat]] /\ \A d \in Callers \ {c} : new'[d] = new[d]
  <2>1. NoNew \in [type : Types, app : App \cup {NoApp}, ent : Nat]
    BY TypeFacts DEF NoNew, NoApp, NoEntity
  <2>2. new \in [Callers -> [type : Types, app : App \cup {NoApp}, ent : Nat]]
    BY DEF TypeInv, CallOK
  <2>3. CASE new' = new
    BY <1>1, <2>2, <2>3
  <2>4. CASE new' = [new EXCEPT ![c] = NoNew]
    BY <1>1, <2>1, <2>2, <2>4
  <2>5. ASSUME NEW t \in Types, new' = [new EXCEPT ![c].type = t]
        PROVE  new' \in [Callers -> [type : Types, app : App' \cup {NoApp}, ent : Nat]] /\ \A d \in Callers \ {c} : new'[d] = new[d]
    BY <1>1, <2>2, <2>5
  <2>6. QED
    BY <2>3, <2>4, <2>5
<1>5. NewMade'
  BY <1>1, <1>4, PlainNew
<1>6. op' \in [Callers -> {"none", "init", "level", "on", "off", "flush", "close"}] /\ pc' \in [Callers -> Places]
  BY DEF TypeInv, CallOK, Plain
<1>7. CallOK'
  BY <1>4, <1>6 DEF CallOK, Level
<1>8. QED
  BY <1>2, <1>3, <1>5, <1>7 DEF TypeInv

LEMMA CallsType ==
  ASSUME TypeInv, NEW c \in Callers
  PROVE  Calls(c) => TypeInv'
<1>1. ASSUME NEW name \in {"init", "level", "on", "off", "flush", "close"},
             NEW place \in {"init", "level", "switch", "flush"},
             Call(c, name, place),
             config' \in [filter : Level, on : SUBSET (Switches \cup {Console})],
             filter' \in [Callers -> Level], todo' = todo,
             new' = new \/ \E t \in Types : new' = [new EXCEPT ![c].type = t]
      PROVE  TypeInv'
  <2>1. /\ UNCHANGED <<mountVars, writeVars, lifeVars, levelVars, ents>>
        /\ pc' = [pc EXCEPT ![c] = place] /\ op' = [op EXCEPT ![c] = name]
    BY <1>1 DEF Call
  <2>2. Grows /\ App' = App
    BY <2>1, SameGrows DEF mountVars, App
  <2>3. SettingsOK'
    BY <1>1, <2>1 DEF TypeInv, SettingsOK, lifeVars, levelVars, Level
  <2>4. MountOK' /\ WriteOK' /\ TargetsMade'
    BY <2>1, <2>2, SameMount, KeptWriters DEF TypeInv
  <2>5. CountOK'
    BY <1>1, TypeFacts DEF Call, TypeInv, CountOK
  <2>6. new' \in [Callers -> [type : Types, app : App' \cup {NoApp}, ent : Nat]] /\ \A d \in Callers \ {c} : new'[d] = new[d]
    <3>1. new \in [Callers -> [type : Types, app : App \cup {NoApp}, ent : Nat]]
      BY DEF TypeInv, CallOK
    <3>2. CASE new' = new
      BY <2>2, <3>1, <3>2
    <3>3. ASSUME NEW t \in Types, new' = [new EXCEPT ![c].type = t]
          PROVE  new' \in [Callers -> [type : Types, app : App' \cup {NoApp}, ent : Nat]] /\ \A d \in Callers \ {c} : new'[d] = new[d]
      BY <2>2, <3>1, <3>3
    <3>4. QED
      BY <1>1, <3>2, <3>3
  <2>7. place \in Plain
    BY DEF Plain, Places
  <2>8. NewMade'
    BY <2>1, <2>2, <2>6, <2>7, PlainNew
  <2>9. EntsMade'
    BY <2>1, <2>2, KeptNew DEF EntsMade
  <2>10. CallOK'
    <3>1. pc' \in [Callers -> Places] /\ op' \in [Callers -> {"none", "init", "level", "on", "off", "flush", "close"}]
      BY <2>1, <2>7 DEF TypeInv, CallOK, Plain
    <3>2. QED
      BY <1>1, <2>1, <2>6, <3>1 DEF TypeInv, CallOK, Level
  <2>11. QED
    BY <2>3, <2>4, <2>5, <2>8, <2>9, <2>10 DEF TypeInv
<1>2. filter \in [Callers -> Level] /\ config \in [filter : Level, on : SUBSET (Switches \cup {Console})]
  BY DEF TypeInv, CallOK, SettingsOK
<1>3. ASSUME NEW o \in Options, InitCall(c, o.filter, o.on) PROVE TypeInv'
  BY <1>1, <1>2, <1>3, TypeFacts DEF InitCall
<1>4. ASSUME NEW o \in Options, SetLogLevelCall(c, o.filter) PROVE TypeInv'
  BY <1>1, <1>2, <1>4, TypeFacts DEF SetLogLevelCall
<1>5. ASSUME NEW t \in Switches, NEW on \in BOOLEAN, SetWriteCall(c, t, on) PROVE TypeInv'
  <2>1. t \in Types
    BY TypeFacts
  <2>2. config' \in [filter : Level, on : SUBSET (Switches \cup {Console})]
    BY <1>2, <1>5 DEF SetWriteCall
  <2>3. QED
    BY <1>1, <1>2, <1>5, <2>1, <2>2 DEF SetWriteCall
<1>6. ASSUME FlushCall(c) \/ CloseCall(c) PROVE TypeInv'
  BY <1>1, <1>2, <1>6 DEF FlushCall, CloseCall
<1>7. QED
  BY <1>3, <1>4, <1>5, <1>6 DEF Calls

\* The members of a type that the next lemmas rest on.
LEMMA TypeParts ==
  TypeInv => /\ filter \in [Callers -> Level] /\ todo \in [Callers -> SUBSET Types]
             /\ ents \in [Callers -> SUBSET (Types \X Nat)]
             /\ config.filter \in Level /\ config.on \subseteq Switches \cup {Console}
             /\ SettingsOK /\ EntsMade
BY DEF TypeInv, CallOK, SettingsOK

LEMMA InitType1 ==
  ASSUME TypeInv, NEW c \in Callers
  PROVE  InitCheck(c) \/ InitLock(c) \/ InitPlan(c) \/ InitNext(c) \/ InitFinish(c) => TypeInv'
<1>1. {"idle", "lock", "console", "next", "create"} \subseteq Plain
  BY DEF Plain, Places
<1>2. EntsMade /\ UNCHANGED <<ents, mountVars>> => EntsMade'
  BY DEF EntsMade, mountVars
<1>3. ASSUME InitCheck(c) PROVE TypeInv'
  <2>1. UNCHANGED <<settings, mountVars, filter, todo, new, ents, elsewhere>>
    BY <1>3 DEF InitCheck
  <2>2. SettingsOK'
    BY <2>1 DEF TypeInv, SettingsOK, settings, lifeVars, levelVars, Level
  <2>3. \/ pc' = [pc EXCEPT ![c] = "idle"] /\ op' = [op EXCEPT ![c] = "none"]
        \/ pc' = [pc EXCEPT ![c] = "lock"] /\ op' = op
    BY <1>3 DEF InitCheck, Return, Goto
  <2>4. QED
    BY <1>1, <1>2, <2>1, <2>2, <2>3, TypeParts, PlainStep
<1>4. ASSUME InitLock(c) PROVE TypeInv'
  <2>1. UNCHANGED <<bInit, bExit, config, levelVars, mountVars, filter, new, ents, elsewhere>>
    BY <1>4 DEF InitLock
  <2>2. bound' \in BOOLEAN
    BY <1>4 DEF InitLock, TypeInv, SettingsOK
  <2>3. SettingsOK'
    BY <2>1, <2>2 DEF TypeInv, SettingsOK, levelVars, Level
  <2>4. \/ pc' = [pc EXCEPT ![c] = "idle"] /\ op' = [op EXCEPT ![c] = "none"] /\ todo' = todo
        \/ pc' = [pc EXCEPT ![c] = "console"] /\ op' = op /\ todo' = [todo EXCEPT ![c] = config.on]
    BY <1>4 DEF InitLock, Return, Goto
  <2>5. todo' \in [Callers -> SUBSET Types]
    BY <2>4, TypeParts, TypeFacts
  <2>6. QED
    BY <1>1, <1>2, <2>1, <2>3, <2>4, <2>5, TypeParts, PlainStep
<1>5. ASSUME InitPlan(c) PROVE TypeInv'
  <2>1. UNCHANGED <<settings, mountVars, filter, new, ents, elsewhere>>
    BY <1>5 DEF InitPlan
  <2>2. SettingsOK'
    BY <2>1 DEF TypeInv, SettingsOK, settings, lifeVars, levelVars, Level
  <2>3. pc' = [pc EXCEPT ![c] = "next"] /\ op' = op /\ todo' = [todo EXCEPT ![c] = Planned \cup @]
    BY <1>5 DEF InitPlan, Goto
  <2>4. Planned \subseteq Types
    BY TypeFacts DEF Planned
  <2>5. todo' \in [Callers -> SUBSET Types]
    BY <2>3, <2>4, TypeParts
  <2>6. QED
    BY <1>1, <1>2, <2>1, <2>2, <2>3, <2>5, TypeParts, PlainStep
<1>6. ASSUME InitNext(c) PROVE TypeInv'
  <2>1. UNCHANGED <<settings, mountVars, filter, ents, elsewhere>> /\ pc[c] = "next"
    BY <1>6 DEF InitNext
  <2>2. SettingsOK'
    BY <2>1 DEF TypeInv, SettingsOK, settings, lifeVars, levelVars, Level
  <2>3. PICK t \in todo[c] :
          /\ todo' = [todo EXCEPT ![c] = @ \ {t}]
          /\ \/ pc' = pc /\ op' = op /\ new' = new
             \/ pc' = [pc EXCEPT ![c] = "create"] /\ op' = op /\ new' = [new EXCEPT ![c].type = t]
    BY <1>6 DEF InitNext, Goto
  <2>4. t \in Types /\ todo' \in [Callers -> SUBSET Types]
    BY <2>3, TypeParts
  <2>5. pc' = pc => pc' = [pc EXCEPT ![c] = "next"]
    BY <2>1 DEF TypeInv, CallOK
  <2>6. QED
    BY <1>1, <1>2, <2>1, <2>2, <2>3, <2>4, <2>5, TypeParts, PlainStep
<1>7. ASSUME InitFinish(c) PROVE TypeInv'
  <2>1. UNCHANGED <<bound, config, levelVars, mountVars, filter, todo, new, ents, elsewhere>> /\ bExit' = FALSE /\ bInit' = TRUE
    BY <1>7 DEF InitFinish
  <2>2. SettingsOK'
    BY <2>1 DEF TypeInv, SettingsOK, levelVars, Level
  <2>3. pc' = [pc EXCEPT ![c] = "idle"] /\ op' = [op EXCEPT ![c] = "none"]
    BY <1>7 DEF InitFinish, Return
  <2>4. QED
    BY <1>1, <1>2, <2>1, <2>2, <2>3, TypeParts, PlainStep
<1>8. QED
  BY <1>3, <1>4, <1>5, <1>6, <1>7

LEMMA LevelType ==
  ASSUME TypeInv, NEW c \in Callers
  PROVE  LevelStep(c) => TypeInv'
<1>1. {"idle", "mirror", "plan"} \subseteq Plain
  BY DEF Plain, Places
<1>2. EntsMade /\ UNCHANGED <<ents, mountVars>> => EntsMade'
  BY DEF EntsMade, mountVars
<1>3. filter[c] \in Level /\ {} \in Level
  BY TypeParts DEF Level
<1>4. ASSUME StoreLevel(c) PROVE TypeInv'
  <2>1. UNCHANGED <<lifeVars, config, mirror, mountVars, filter, todo, new, ents, elsewhere>> /\ level' = filter[c]
    BY <1>4 DEF StoreLevel
  <2>2. SettingsOK'
    BY <1>3, <2>1 DEF TypeInv, SettingsOK, lifeVars, Level
  <2>3. pc' = [pc EXCEPT ![c] = "mirror"] /\ op' = op
    BY <1>4 DEF StoreLevel, Goto
  <2>4. QED
    BY <1>1, <1>2, <2>1, <2>2, <2>3, TypeParts, PlainStep
<1>5. ASSUME StoreMirror(c) PROVE TypeInv'
  <2>1. /\ UNCHANGED <<lifeVars, config, level, mountVars, todo, new, ents, elsewhere>>
        /\ mirror' = filter[c] /\ filter' = [filter EXCEPT ![c] = {}]
    BY <1>5 DEF StoreMirror
  <2>2. SettingsOK'
    BY <1>3, <2>1 DEF TypeInv, SettingsOK, lifeVars, Level
  <2>3. \/ pc' = [pc EXCEPT ![c] = "plan"] /\ op' = op
        \/ pc' = [pc EXCEPT ![c] = "idle"] /\ op' = [op EXCEPT ![c] = "none"]
    BY <1>5 DEF StoreMirror, Goto, Return
  <2>4. filter' \in [Callers -> Level]
    BY <1>3, <2>1, TypeParts
  <2>5. QED
    BY <1>1, <1>2, <2>1, <2>2, <2>3, <2>4, TypeParts, PlainStep
<1>6. QED
  BY <1>4, <1>5 DEF LevelStep

LEMMA CloseType1 ==
  ASSUME TypeInv, NEW c \in Callers
  PROVE  SetWriteCheck(c) \/ FlushLock(c) \/ FlushDone(c) \/ UnInitCheck(c) \/ UnInitLock(c)
           \/ UnInitCollect(c) \/ UnInitFinish(c) => TypeInv'
<1>1. {"idle", "create", "release", "flushing", "uninit", "close", "exit", "shut"} \subseteq Plain
  BY DEF Plain, Places
<1>2. EntsMade /\ UNCHANGED <<ents, mountVars>> => EntsMade'
  BY DEF EntsMade, mountVars
<1>3. SettingsOK /\ UNCHANGED settings => SettingsOK'
  BY DEF SettingsOK, settings, lifeVars, levelVars, Level
<1>4. ASSUME SetWriteCheck(c) PROVE TypeInv'
  <2>1. UNCHANGED <<settings, mountVars, filter, todo, ents, elsewhere>>
    BY <1>4 DEF SetWriteCheck
  <2>2. \/ pc' = [pc EXCEPT ![c] = "idle"] /\ op' = [op EXCEPT ![c] = "none"] /\ new' = [new EXCEPT ![c] = NoNew]
        \/ pc' = [pc EXCEPT ![c] = "create"] /\ op' = op /\ new' = new
        \/ pc' = [pc EXCEPT ![c] = "release"] /\ op' = op /\ new' = new
    BY <1>4 DEF SetWriteCheck, Goto, Return
  <2>3. QED
    BY <1>1, <1>2, <1>3, <2>1, <2>2, TypeParts, PlainStep
<1>5. ASSUME FlushLock(c) \/ FlushDone(c) \/ UnInitCheck(c) PROVE TypeInv'
  <2>1. UNCHANGED <<settings, mountVars, filter, todo, new, ents, elsewhere>>
    BY <1>5 DEF FlushLock, FlushDone, UnInitCheck
  <2>2. \E p \in {"idle", "flushing", "uninit", "close"} :
          pc' = [pc EXCEPT ![c] = p] /\ (op' = op \/ op' = [op EXCEPT ![c] = "none"])
    BY <1>5 DEF FlushLock, FlushDone, UnInitCheck, Goto, Return
  <2>3. QED
    BY <1>1, <1>2, <1>3, <2>1, <2>2, TypeParts, PlainStep
<1>6. ASSUME UnInitLock(c) PROVE TypeInv'
  <2>1. UNCHANGED <<bound, bInit, config, levelVars, mountVars, filter, todo, new, ents, elsewhere>>
    BY <1>6 DEF UnInitLock
  <2>2. bExit' \in BOOLEAN
    BY <1>6 DEF UnInitLock, TypeInv, SettingsOK
  <2>3. SettingsOK'
    BY <2>1, <2>2 DEF TypeInv, SettingsOK, levelVars, Level
  <2>4. \E p \in {"idle", "exit"} : pc' = [pc EXCEPT ![c] = p] /\ (op' = op \/ op' = [op EXCEPT ![c] = "none"])
    BY <1>6 DEF UnInitLock, Goto, Return
  <2>5. QED
    BY <1>1, <1>2, <2>1, <2>3, <2>4, TypeParts, PlainStep
<1>7. ASSUME UnInitCollect(c) PROVE TypeInv'
  <2>1. UNCHANGED <<settings, mountVars, filter, todo, new, elsewhere>> /\ ents' = [ents EXCEPT ![c] = Entities]
    BY <1>7 DEF UnInitCollect
  <2>2. \A e \in Entities : e \in Types \X Nat /\ e[2] \in DOMAIN appenders[e[1]]
    BY DEF Entities, TypeInv, MountOK
  <2>3. ents' \in [Callers -> SUBSET (Types \X Nat)]
    BY <2>1, <2>2, TypeParts
  <2>4. EntsMade'
    <3>1. appenders' = appenders
      BY <2>1 DEF mountVars
    <3>2. \A d \in Callers : ents'[d] = ents[d] \/ ents'[d] = Entities
      BY <2>1, TypeParts
    <3>3. QED
      BY <2>2, <3>1, <3>2, TypeParts DEF EntsMade
  <2>5. pc' = [pc EXCEPT ![c] = "shut"] /\ op' = op
    BY <1>7 DEF UnInitCollect, Goto
  <2>6. QED
    BY <1>1, <1>3, <2>1, <2>3, <2>4, <2>5, TypeParts, PlainStep
<1>8. ASSUME UnInitFinish(c) PROVE TypeInv'
  <2>1. UNCHANGED <<bound, bExit, config, levelVars, mountVars, filter, todo, new, ents, elsewhere>> /\ bInit' = FALSE
    BY <1>8 DEF UnInitFinish
  <2>2. SettingsOK'
    BY <2>1 DEF TypeInv, SettingsOK, levelVars, Level
  <2>3. pc' = [pc EXCEPT ![c] = "idle"] /\ op' = [op EXCEPT ![c] = "none"]
    BY <1>8 DEF UnInitFinish, Return
  <2>4. QED
    BY <1>1, <1>2, <2>1, <2>2, <2>3, TypeParts, PlainStep
<1>9. QED
  BY <1>4, <1>5, <1>6, <1>7, <1>8

-----------------------------------------------------------------------------
(* Steps that change what is mounted. *)

LEMMA FunctionIsSeq ==
  ASSUME NEW T, NEW n \in Nat, NEW f \in [1..n -> T]
  PROVE  f \in Seq(T)
OBVIOUS

\* Closing appenders keeps their number and their types.
LEMMA ClosedSeq ==
  ASSUME MountOK, NEW S
  PROVE  /\ Closed(S) \in Seq([type : Types, open : BOOLEAN])
         /\ Len(Closed(S)) = Len(apps)
         /\ \A a \in App : Closed(S)[a].type = apps[a].type /\ Closed(S)[a].open = (Open(a) /\ a \notin S)
<1>0. apps \in Seq([type : Types, open : BOOLEAN])
  BY DEF MountOK
<1>1. DOMAIN apps = App /\ Len(apps) \in Nat /\ \A a \in App : apps[a] \in [type : Types, open : BOOLEAN]
  <2>1. DOMAIN apps = 1..Len(apps) /\ Len(apps) \in Nat
    BY <1>0, LenProperties
  <2>2. \A a \in 1..Len(apps) : apps[a] \in [type : Types, open : BOOLEAN]
    BY <1>0, ElementOfSeq
  <2>3. QED
    BY <2>1, <2>2 DEF App
<1>2. \A a \in App : apps[a].open \in BOOLEAN /\ apps[a].type \in Types
  BY <1>1
<1>3. ASSUME NEW a \in App PROVE [apps[a] EXCEPT !.open = @ /\ a \notin S] \in [type : Types, open : BOOLEAN]
  BY <1>1, <1>2
<1>4. Closed(S) = [a \in App |-> [apps[a] EXCEPT !.open = @ /\ a \notin S]]
  BY <1>1 DEF Closed
<1>5. Closed(S) \in [1..Len(apps) -> [type : Types, open : BOOLEAN]]
  BY <1>3, <1>4 DEF App
<1>6. Closed(S) \in Seq([type : Types, open : BOOLEAN]) /\ Len(Closed(S)) = Len(apps)
  <2>1. Closed(S) \in Seq([type : Types, open : BOOLEAN])
    BY <1>1, <1>5, FunctionIsSeq
  <2>2. DOMAIN Closed(S) = 1..Len(apps)
    BY <1>5
  <2>3. QED
    BY <1>1, <2>1, <2>2, LenProperties
<1>7. ASSUME NEW a \in App PROVE Closed(S)[a].type = apps[a].type /\ Closed(S)[a].open = (Open(a) /\ a \notin S)
  BY <1>1, <1>4 DEF Open
<1>8. QED
  BY <1>6, <1>7

\* A new appender comes last.
LEMMA NewApp ==
  ASSUME NEW s \in Seq([type : Types, open : BOOLEAN]), NEW r \in [type : Types, open : BOOLEAN]
  PROVE  /\ Append(s, r) \in Seq([type : Types, open : BOOLEAN])
         /\ Len(Append(s, r)) = Len(s) + 1
         /\ Append(s, r)[Len(s) + 1] = r
         /\ \A a \in 1..Len(s) : Append(s, r)[a] = s[a]
OBVIOUS

\* What one entity holds is changed.
LEMMA PutIn ==
  ASSUME NEW S, NEW f \in [Types -> Seq(S)], NEW t \in Types, NEW n \in DOMAIN f[t], NEW v \in S
  PROVE  /\ [f EXCEPT ![t][n] = v] \in [Types -> Seq(S)]
         /\ \A u \in Types : DOMAIN [f EXCEPT ![t][n] = v][u] = DOMAIN f[u]
         /\ \A u \in Types : \A m \in DOMAIN f[u] :
              [f EXCEPT ![t][n] = v][u][m] = IF u = t /\ m = n THEN v ELSE f[u][m]
<1>1. [f[t] EXCEPT ![n] = v] \in Seq(S) /\ DOMAIN [f[t] EXCEPT ![n] = v] = DOMAIN f[t]
  BY f[t] \in Seq(S)
<1>2. [f EXCEPT ![t][n] = v] = [f EXCEPT ![t] = [f[t] EXCEPT ![n] = v]]
  OBVIOUS
<1>3. QED
  BY <1>1, <1>2

\* An entity is made.
LEMMA PutNew ==
  ASSUME NEW S, NEW f \in [Types -> Seq(S)], NEW t \in Types, NEW v \in S
  PROVE  /\ [f EXCEPT ![t] = Append(@, v)] \in [Types -> Seq(S)]
         /\ DOMAIN [f EXCEPT ![t] = Append(@, v)][t] = 1..(Len(f[t]) + 1)
         /\ [f EXCEPT ![t] = Append(@, v)][t][Len(f[t]) + 1] = v
         /\ \A m \in DOMAIN f[t] : [f EXCEPT ![t] = Append(@, v)][t][m] = f[t][m]
         /\ \A u \in Types \ {t} : [f EXCEPT ![t] = Append(@, v)][u] = f[u]
<1>1. f[t] \in Seq(S)
  OBVIOUS
<1>2. Append(f[t], v) \in Seq(S) /\ DOMAIN Append(f[t], v) = 1..(Len(f[t]) + 1)
  BY <1>1
<1>3. Append(f[t], v)[Len(f[t]) + 1] = v /\ \A m \in DOMAIN f[t] : Append(f[t], v)[m] = f[t][m]
  BY <1>1
<1>4. QED
  BY <1>2, <1>3

\* A step of a call that changes what is mounted.
LEMMA MountingStep ==
  TypeInv /\ UNCHANGED <<settings, elsewhere>> /\ Grows /\ MountOK' /\ CallOK' /\ NewMade' /\ EntsMade' => TypeInv'
<1> SUFFICES ASSUME TypeInv, UNCHANGED <<settings, elsewhere>>, Grows, MountOK', CallOK', NewMade', EntsMade'
             PROVE  TypeInv'
  OBVIOUS
<1>1. SettingsOK'
  BY DEF TypeInv, SettingsOK, settings, lifeVars, levelVars, Level
<1>2. WriteOK' /\ TargetsMade' /\ CountOK'
  BY KeptWriters DEF elsewhere, TypeInv, CountOK
<1>3. QED
  BY <1>1, <1>2 DEF TypeInv

\* The sequences of appenders and of entities keep their lengths.
LEMMA SameLength ==
  Len(apps') = Len(apps) /\ appenders' = appenders => Grows /\ App' = App
BY DEF Grows, App

LEMMA ConsoleType ==
  ASSUME TypeInv, NEW c \in Callers
  PROVE  InitConsole(c) \/ UnInitConsole(c) \/ UnInitReset(c) => TypeInv'
<1> SUFFICES ASSUME InitConsole(c) \/ UnInitConsole(c) \/ UnInitReset(c) PROVE TypeInv'
  OBVIOUS
<1>1. /\ UNCHANGED <<settings, entity, made, appenders, new, ents, elsewhere>>
      /\ \E p \in {"level", "reset", "collect"} : pc' = [pc EXCEPT ![c] = p]
      /\ op' = op
  BY DEF InitConsole, UnInitConsole, UnInitReset, Goto
<1>2. todo' \in [Callers -> SUBSET Types] /\ filter' \in [Callers -> Level]
  <2>1. CASE InitConsole(c)
    BY <2>1, TypeParts DEF InitConsole
  <2>2. CASE UnInitConsole(c) \/ UnInitReset(c)
    BY <2>2, TypeParts DEF UnInitConsole, UnInitReset
  <2>3. QED
    BY <2>1, <2>2
<1>3. /\ apps' \in Seq([type : Types, open : BOOLEAN]) /\ App \subseteq App'
      /\ consoleApp' \in App' \cup {NoApp} /\ registry' \subseteq App
  <2>1. CASE InitConsole(c)
    <3>1. registry' = registry
      BY <2>1 DEF InitConsole
    <3>2. CASE Console \in todo[c]
      <4>1. apps' = Append(Closed({consoleApp}), [type |-> Console, open |-> TRUE]) /\ consoleApp' = Len(apps) + 1
        BY <2>1, <3>2 DEF InitConsole
      <4>2. [type |-> Console, open |-> TRUE] \in [type : Types, open : BOOLEAN]
        BY TypeFacts
      <4>3. apps' \in Seq([type : Types, open : BOOLEAN]) /\ Len(apps') = Len(apps) + 1 /\ Len(apps) \in Nat
        <5>1. MountOK /\ Len(apps) \in Nat
          BY LenProperties DEF TypeInv, MountOK
        <5>2. Closed({consoleApp}) \in Seq([type : Types, open : BOOLEAN]) /\ Len(Closed({consoleApp})) = Len(apps)
          BY <5>1, ClosedSeq
        <5>3. QED
          BY <4>1, <4>2, <5>1, <5>2, NewApp
      <4>4. App \subseteq App' /\ Len(apps) + 1 \in App'
        BY <4>3 DEF App
      <4>5. registry \subseteq App
        BY DEF TypeInv, MountOK
      <4>6. QED
        BY <3>1, <4>1, <4>3, <4>4, <4>5
    <3>3. CASE Console \notin todo[c]
      <4>1. apps' = Closed({consoleApp}) /\ consoleApp' = NoApp
        BY <2>1, <3>3 DEF InitConsole
      <4>2. QED
        BY <3>1, <4>1, ClosedSeq DEF App, TypeInv, MountOK
    <3>4. QED
      BY <3>2, <3>3
  <2>2. CASE UnInitConsole(c)
    BY <2>2, ClosedSeq DEF UnInitConsole, App, TypeInv, MountOK
  <2>3. CASE UnInitReset(c)
    BY <2>3 DEF UnInitReset, App, TypeInv, MountOK
  <2>4. QED
    BY <2>1, <2>2, <2>3
<1>4. Grows
  BY <1>1, <1>3 DEF Grows
<1>5. MountOK'
  <2>1. appenders' \in [Types -> Seq(SUBSET (App'))]
    <3>1. \A s : s \in Seq(SUBSET App) => s \in Seq(SUBSET (App'))
      BY <1>3
    <3>2. QED
      BY <1>1, <3>1 DEF TypeInv, MountOK
  <2>2. QED
    BY <1>1, <1>3, <2>1 DEF TypeInv, MountOK
<1>6. {"level", "reset", "collect"} \subseteq Plain
  BY DEF Plain, Places
<1>7. NewMade'
  BY <1>1, <1>4, <1>6, PlainNew
<1>8. EntsMade'
  BY <1>1, <1>4, KeptNew DEF EntsMade
<1>9. CallOK'
  <2>1. new' \in [Callers -> [type : Types, app : App' \cup {NoApp}, ent : Nat]]
    BY <1>1, <1>4, KeptNew
  <2>2. pc' \in [Callers -> Places]
    BY <1>1, <1>6 DEF TypeInv, CallOK, Plain
  <2>3. QED
    BY <1>1, <1>2, <2>1, <2>2 DEF TypeInv, CallOK, Level
<1>10. QED
  BY <1>1, <1>4, <1>5, <1>7, <1>8, <1>9, MountingStep

LEMMA CreateType ==
  ASSUME TypeInv, NEW c \in Callers
  PROVE  CreateEntity(c) => TypeInv'
<1> SUFFICES ASSUME CreateEntity(c) PROVE TypeInv'
  OBVIOUS
<1>0. PICK t \in Types : t = new[c].type
  BY DEF TypeInv, CallOK
<1>1. PICK n \in Nat : n = IF made[t] = NoEntity THEN Len(appenders[t]) + 1 ELSE made[t]
  BY LenProperties DEF TypeInv, MountOK
<1>2. /\ apps' = Append(apps, [type |-> t, open |-> TRUE])
      /\ made' = [made EXCEPT ![t] = n]
      /\ appenders' = IF n \in DOMAIN appenders[t] THEN appenders ELSE [appenders EXCEPT ![t] = Append(@, {})]
      /\ new' = [new EXCEPT ![c] = [type |-> t, app |-> Len(apps) + 1, ent |-> n]]
      /\ pc' = [pc EXCEPT ![c] = "mount"] /\ op' = op
      /\ UNCHANGED <<settings, consoleApp, entity, registry, filter, todo, ents, elsewhere>>
  BY <1>0, <1>1 DEF CreateEntity, Created, Goto
<1>3. apps \in Seq([type : Types, open : BOOLEAN]) /\ Len(apps) \in Nat
  BY LenProperties DEF TypeInv, MountOK
<1>4. /\ apps' \in Seq([type : Types, open : BOOLEAN])
      /\ App \subseteq App' /\ Len(apps) + 1 \in App'
  <2>1. [type |-> t, open |-> TRUE] \in [type : Types, open : BOOLEAN]
    OBVIOUS
  <2>2. apps' \in Seq([type : Types, open : BOOLEAN]) /\ Len(apps') = Len(apps) + 1
    BY <1>2, <1>3, <2>1, NewApp
  <2>3. QED
    BY <1>3, <2>2 DEF App
<1>5. appenders \in [Types -> Seq(SUBSET (App'))]
  <2>1. \A s : s \in Seq(SUBSET App) => s \in Seq(SUBSET (App'))
    BY <1>4
  <2>2. QED
    BY <2>1 DEF TypeInv, MountOK
<1>6. /\ appenders' \in [Types -> Seq(SUBSET (App'))] /\ n \in DOMAIN appenders'[t]
      /\ \A u \in Types : DOMAIN appenders[u] \subseteq DOMAIN appenders'[u]
  <2>1. CASE n \in DOMAIN appenders[t]
    BY <1>2, <1>5, <2>1
  <2>2. CASE n \notin DOMAIN appenders[t]
    <3>1. n = Len(appenders[t]) + 1 /\ Len(appenders[t]) \in Nat /\ DOMAIN appenders[t] = 1..Len(appenders[t])
      <4>1. made[t] \in DOMAIN appenders[t] \cup {NoEntity} /\ appenders[t] \in Seq(SUBSET App)
        BY DEF TypeInv, MountOK
      <4>2. QED
        BY <1>1, <2>2, <4>1, LenProperties
    <3>2. {} \in SUBSET (App')
      OBVIOUS
    <3>3. appenders' = [appenders EXCEPT ![t] = Append(@, {})]
      BY <1>2, <2>2
    <3>4. /\ appenders' \in [Types -> Seq(SUBSET (App'))]
          /\ DOMAIN appenders'[t] = 1..(Len(appenders[t]) + 1)
          /\ \A u \in Types \ {t} : appenders'[u] = appenders[u]
      BY <1>5, <3>2, <3>3, PutNew
    <3>5. QED
      BY <3>1, <3>4
  <2>3. QED
    BY <2>1, <2>2
<1>7. Grows
  BY <1>4, <1>6 DEF Grows
<1>8. MountOK'
  <2>1. consoleApp' \in App' \cup {NoApp} /\ registry' \subseteq App'
    BY <1>2, <1>4 DEF TypeInv, MountOK
  <2>2. entity' \in [Types -> Nat] /\ made' \in [Types -> Nat]
    BY <1>2 DEF TypeInv, MountOK
  <2>3. \A u \in Types : entity'[u] \in DOMAIN appenders'[u] /\ made'[u] \in DOMAIN appenders'[u] \cup {NoEntity}
    BY <1>2, <1>6 DEF TypeInv, MountOK
  <2>4. QED
    BY <1>4, <1>6, <2>1, <2>2, <2>3 DEF MountOK
<1>9. /\ new' \in [Callers -> [type : Types, app : App' \cup {NoApp}, ent : Nat]]
      /\ new'[c] = [type |-> t, app |-> Len(apps) + 1, ent |-> n]
      /\ \A d \in Callers \ {c} : new'[d] = new[d]
  BY <1>2, <1>4, <1>7, KeptNew
<1>10. NewMade'
  <2>1. ASSUME NEW d \in Callers, pc'[d] \in {"mount", "attach"} PROVE new'[d].ent \in DOMAIN appenders'[new'[d].type]
    <3>1. CASE d = c
      BY <1>6, <1>9, <3>1
    <3>2. CASE d # c
      <4>1. pc'[d] = pc[d] /\ new[d].type \in Types
        BY <1>2, <3>2 DEF TypeInv, CallOK
      <4>2. QED
        BY <1>6, <1>9, <2>1, <3>2, <4>1 DEF TypeInv, NewMade
    <3>3. QED
      BY <3>1, <3>2
  <2>2. ASSUME NEW d \in Callers, pc'[d] \in {"mount", "attach", "register"} PROVE new'[d].app \in App'
    <3>1. CASE d = c
      BY <1>4, <1>9, <3>1
    <3>2. CASE d # c
      <4>1. pc'[d] = pc[d]
        BY <1>2, <3>2 DEF TypeInv, CallOK
      <4>2. QED
        BY <1>4, <1>9, <2>2, <3>2, <4>1 DEF TypeInv, NewMade
    <3>3. QED
      BY <3>1, <3>2
  <2>3. QED
    BY <2>1, <2>2 DEF NewMade
<1>11. EntsMade'
  BY <1>2, <1>7, KeptNew DEF EntsMade
<1>12. CallOK'
  <2>1. pc' \in [Callers -> Places]
    BY <1>2 DEF TypeInv, CallOK, Places
  <2>2. QED
    BY <1>2, <1>9, <2>1 DEF TypeInv, CallOK, Level
<1>13. QED
  BY <1>2, <1>7, <1>8, <1>10, <1>11, <1>12, MountingStep

LEMMA MountType ==
  ASSUME TypeInv, NEW c \in Callers
  PROVE  Mount(c) \/ Attach(c) => TypeInv'
<1> SUFFICES ASSUME Mount(c) \/ Attach(c) PROVE TypeInv'
  OBVIOUS
<1>0. PICK t \in Types, n \in Nat, a \in App \cup {NoApp} : t = new[c].type /\ n = new[c].ent /\ a = new[c].app
  BY DEF TypeInv, CallOK
<1>1. /\ UNCHANGED <<settings, consoleApp, made, apps, registry, filter, todo, new, ents, elsewhere>>
      /\ \E p \in {"attach", "register"} : pc' = [pc EXCEPT ![c] = p]
      /\ op' = op /\ pc[c] \in {"mount", "attach"}
  BY DEF Mount, Attach, Goto
<1>2. n \in DOMAIN appenders[t] /\ a \in App
  BY <1>0, <1>1 DEF TypeInv, NewMade
<1>3. App' = App
  BY <1>1 DEF App
<1>4. /\ appenders' \in [Types -> Seq(SUBSET App)] /\ \A u \in Types : DOMAIN appenders'[u] = DOMAIN appenders[u]
      /\ entity' \in [Types -> Nat] /\ \A u \in Types : entity'[u] \in DOMAIN appenders[u]
  <2>1. CASE Mount(c)
    <3>1. entity' = [entity EXCEPT ![t] = n] /\ appenders' = appenders
      BY <1>0, <2>1 DEF Mount
    <3>2. QED
      BY <1>2, <3>1 DEF TypeInv, MountOK
  <2>2. CASE Attach(c)
    <3>1. entity' = entity /\ appenders' = [appenders EXCEPT ![t][n] = appenders[t][n] \cup {a}]
      BY <1>0, <2>2 DEF Attach
    <3>2. appenders \in [Types -> Seq(SUBSET App)] /\ appenders[t][n] \cup {a} \in SUBSET App
      <4>1. appenders \in [Types -> Seq(SUBSET App)]
        BY DEF TypeInv, MountOK
      <4>2. appenders[t][n] \in SUBSET App
        BY <1>2, <4>1, LenProperties, ElementOfSeq
      <4>3. QED
        BY <1>2, <4>1, <4>2
    <3>3. appenders' \in [Types -> Seq(SUBSET App)] /\ \A u \in Types : DOMAIN appenders'[u] = DOMAIN appenders[u]
      BY <1>2, <3>1, <3>2, PutIn
    <3>4. QED
      BY <3>1, <3>3 DEF TypeInv, MountOK
  <2>3. QED
    BY <2>1, <2>2
<1>5. Grows
  BY <1>3, <1>4 DEF Grows
<1>6. MountOK'
  BY <1>1, <1>3, <1>4 DEF TypeInv, MountOK
<1>7. NewMade'
  <2>1. \A d \in Callers : pc'[d] = pc[d] \/ d = c
    BY <1>1 DEF TypeInv, CallOK
  <2>2. \A d \in Callers : new[d].type \in Types
    BY DEF TypeInv, CallOK
  <2>3. QED
    BY <1>0, <1>1, <1>2, <1>3, <1>4, <2>1, <2>2 DEF TypeInv, NewMade
<1>8. EntsMade'
  BY <1>1, <1>5, KeptNew DEF EntsMade
<1>9. CallOK'
  <2>1. pc' \in [Callers -> Places]
    BY <1>1 DEF TypeInv, CallOK, Places
  <2>2. QED
    BY <1>1, <1>3, <2>1 DEF TypeInv, CallOK, Level
<1>10. QED
  BY <1>1, <1>5, <1>6, <1>7, <1>8, <1>9, MountingStep

\* An entity is shut down.
LEMMA ShutFacts ==
  ASSUME TypeInv, NEW t \in Types, NEW n \in DOMAIN appenders[t]
  PROVE  ShutEntity(t, n) /\ consoleApp' = consoleApp /\ entity' = entity /\ made' \in [Types -> Nat]
           /\ (\A u \in Types : made'[u] \in {made[u], NoEntity})
         => Grows /\ App' = App /\ MountOK' /\ \A u \in Types : DOMAIN appenders'[u] = DOMAIN appenders[u]
<1> SUFFICES ASSUME ShutEntity(t, n), consoleApp' = consoleApp, entity' = entity, made' \in [Types -> Nat],
                    \A u \in Types : made'[u] \in {made[u], NoEntity}
             PROVE  Grows /\ App' = App /\ MountOK' /\ \A u \in Types : DOMAIN appenders'[u] = DOMAIN appenders[u]
  OBVIOUS
<1>1. /\ apps' = Closed(appenders[t][n]) /\ registry' = registry \ appenders[t][n]
      /\ appenders' = [appenders EXCEPT ![t][n] = {}]
  BY DEF ShutEntity
<1>2. apps' \in Seq([type : Types, open : BOOLEAN]) /\ Len(apps') = Len(apps)
  BY <1>1, ClosedSeq DEF TypeInv
<1>3. App' = App
  BY <1>2 DEF App
<1>4. appenders' \in [Types -> Seq(SUBSET App)] /\ \A u \in Types : DOMAIN appenders'[u] = DOMAIN appenders[u]
  <2>1. appenders \in [Types -> Seq(SUBSET App)] /\ {} \in SUBSET App
    BY DEF TypeInv, MountOK
  <2>2. QED
    BY <1>1, <2>1, PutIn
<1>5. Grows
  BY <1>3, <1>4 DEF Grows
<1>6. MountOK'
  <2>1. registry' \subseteq App' /\ consoleApp' \in App' \cup {NoApp}
    BY <1>1, <1>3 DEF TypeInv, MountOK
  <2>2. entity' \in [Types -> Nat] /\ \A u \in Types : entity'[u] \in DOMAIN appenders'[u]
    BY <1>4 DEF TypeInv, MountOK
  <2>3. \A u \in Types : made'[u] \in DOMAIN appenders'[u] \cup {NoEntity}
    BY <1>4 DEF TypeInv, MountOK
  <2>4. QED
    BY <1>2, <1>3, <1>4, <2>1, <2>2, <2>3 DEF MountOK
<1>7. QED
  BY <1>3, <1>4, <1>5, <1>6

LEMMA ReleaseType ==
  ASSUME TypeInv, NEW c \in Callers
  PROVE  Register(c) \/ Release(c) \/ UnInitEntity(c) => TypeInv'
<1>1. ASSUME Register(c) PROVE TypeInv'
  <2>1. /\ UNCHANGED <<settings, consoleApp, entity, made, appenders, apps, filter, todo, ents, elsewhere>>
        /\ registry' = registry \cup {new[c].app} /\ new' = [new EXCEPT ![c] = NoNew] /\ pc[c] = "register"
        /\ \/ pc' = [pc EXCEPT ![c] = "next"] /\ op' = op
           \/ pc' = [pc EXCEPT ![c] = "idle"] /\ op' = [op EXCEPT ![c] = "none"]
    BY <1>1 DEF Register, Goto, Return
  <2>2. Grows /\ App' = App
    BY <2>1, SameLength
  <2>3. new[c].app \in App
    BY <2>1 DEF TypeInv, NewMade
  <2>4. MountOK'
    BY <2>1, <2>2, <2>3 DEF TypeInv, MountOK
  <2>5. {"next", "idle"} \subseteq Plain
    BY DEF Plain, Places
  <2>6. new' \in [Callers -> [type : Types, app : App' \cup {NoApp}, ent : Nat]] /\ \A d \in Callers \ {c} : new'[d] = new[d]
    <3>1. NoNew \in [type : Types, app : App' \cup {NoApp}, ent : Nat]
      BY TypeFacts DEF NoNew, NoApp, NoEntity
    <3>2. QED
      BY <2>1, <2>2, <3>1, KeptNew
  <2>7. NewMade'
    BY <2>1, <2>2, <2>5, <2>6, PlainNew
  <2>8. EntsMade'
    BY <2>1, <2>2, KeptNew DEF EntsMade
  <2>9. CallOK'
    <3>0. pc \in [Callers -> Places] /\ op \in [Callers -> {"none", "init", "level", "on", "off", "flush", "close"}]
          /\ {"next", "idle"} \subseteq Places
      BY <2>5 DEF TypeInv, CallOK, Plain
    <3>1. pc' \in [Callers -> Places] /\ op' \in [Callers -> {"none", "init", "level", "on", "off", "flush", "close"}]
      BY <2>1, <3>0
    <3>2. UNCHANGED <<filter, todo, ents>>
      BY <2>1
    <3>3. QED
      BY <2>6, <3>1, <3>2 DEF TypeInv, CallOK, Level
  <2>10. QED
    BY <2>1, <2>2, <2>4, <2>7, <2>8, <2>9, MountingStep
<1>2. ASSUME Release(c) PROVE TypeInv'
  <2>0. PICK t \in Types : t = new[c].type
    BY DEF TypeInv, CallOK
  <2>1. /\ UNCHANGED <<settings, consoleApp, entity, filter, todo, ents, elsewhere>>
        /\ new' = [new EXCEPT ![c] = NoNew]
        /\ pc' = [pc EXCEPT ![c] = "idle"] /\ op' = [op EXCEPT ![c] = "none"]
    BY <1>2 DEF Release, Return
  <2>2. Grows /\ App' = App /\ MountOK' /\ \A u \in Types : DOMAIN appenders'[u] = DOMAIN appenders[u]
    <3>1. CASE made[t] = NoEntity
      <4>1. UNCHANGED mountVars
        BY <1>2, <2>0, <2>1, <3>1 DEF Release, mountVars
      <4>2. QED
        BY <4>1, SameGrows, SameMount DEF mountVars, App, TypeInv
    <3>2. CASE made[t] # NoEntity
      <4>1. made[t] \in DOMAIN appenders[t]
        BY <3>2 DEF TypeInv, MountOK
      <4>2. ShutEntity(t, made[t]) /\ made' = [made EXCEPT ![t] = NoEntity]
        BY <1>2, <2>0, <3>2 DEF Release
      <4>3. made' \in [Types -> Nat] /\ \A u \in Types : made'[u] \in {made[u], NoEntity}
        BY <4>2 DEF TypeInv, MountOK, NoEntity
      <4>4. QED
        BY <2>1, <4>1, <4>2, <4>3, ShutFacts
    <3>3. QED
      BY <3>1, <3>2
  <2>3. "idle" \in Plain
    BY DEF Plain, Places
  <2>4. new' \in [Callers -> [type : Types, app : App' \cup {NoApp}, ent : Nat]] /\ \A d \in Callers \ {c} : new'[d] = new[d]
    <3>1. NoNew \in [type : Types, app : App' \cup {NoApp}, ent : Nat]
      BY TypeFacts DEF NoNew, NoApp, NoEntity
    <3>2. QED
      BY <2>1, <2>2, <3>1, KeptNew
  <2>5. NewMade'
    BY <2>1, <2>2, <2>3, <2>4, PlainNew
  <2>6. EntsMade'
    BY <2>1, <2>2, KeptNew DEF EntsMade
  <2>7. CallOK'
    <3>1. pc' \in [Callers -> Places] /\ op' \in [Callers -> {"none", "init", "level", "on", "off", "flush", "close"}]
      BY <2>1, <2>3 DEF TypeInv, CallOK, Plain
    <3>2. QED
      BY <2>1, <2>4, <3>1 DEF TypeInv, CallOK, Level
  <2>8. QED
    BY <2>1, <2>2, <2>5, <2>6, <2>7, MountingStep
<1>3. ASSUME UnInitEntity(c) PROVE TypeInv'
  <2>1. PICK e \in ents[c] : ShutEntity(e[1], e[2]) /\ ents' = [ents EXCEPT ![c] = @ \ {e}]
    BY <1>3 DEF UnInitEntity
  <2>2. UNCHANGED <<settings, consoleApp, entity, made, op, pc, filter, todo, new, elsewhere>> /\ pc[c] = "shut"
    BY <1>3 DEF UnInitEntity
  <2>3. e[1] \in Types /\ e[2] \in DOMAIN appenders[e[1]]
    <3>1. e \in Types \X Nat
      BY <2>1, TypeParts
    <3>2. QED
      BY <2>1, <3>1 DEF TypeInv, EntsMade
  <2>4. Grows /\ App' = App /\ MountOK' /\ \A u \in Types : DOMAIN appenders'[u] = DOMAIN appenders[u]
    <3>1. made' \in [Types -> Nat] /\ \A u \in Types : made'[u] \in {made[u], NoEntity}
      BY <2>2 DEF TypeInv, MountOK
    <3>2. QED
      BY <2>1, <2>2, <2>3, <3>1, ShutFacts
  <2>5. NewMade'
    <3>1. \A d \in Callers : new[d].type \in Types
      BY DEF TypeInv, CallOK
    <3>2. QED
      BY <2>2, <2>4, <3>1 DEF TypeInv, NewMade
  <2>6. ents' \in [Callers -> SUBSET (Types \X Nat)] /\ \A d \in Callers : ents'[d] \subseteq ents[d]
    BY <2>1, TypeParts
  <2>7. EntsMade'
    BY <2>4, <2>6, KeptNew DEF EntsMade
  <2>8. CallOK'
    BY <2>2, <2>4, <2>6 DEF TypeInv, CallOK, Level
  <2>9. QED
    BY <2>2, <2>4, <2>5, <2>7, <2>8, MountingStep
<1>4. QED
  BY <1>1, <1>2, <1>3

-----------------------------------------------------------------------------
(* Steps of the writers. *)

LEMMA WriterFrame ==
  TypeInv /\ UNCHANGED <<settings, mountVars, callVars>> /\ WriteOK' /\ TargetsMade' /\ CountOK' => TypeInv'
<1> SUFFICES ASSUME TypeInv, UNCHANGED <<settings, mountVars, callVars>>, WriteOK', TargetsMade', CountOK'
             PROVE  TypeInv'
  OBVIOUS
<1>1. SettingsOK'
  BY DEF TypeInv, SettingsOK, settings, lifeVars, levelVars, Level
<1>2. MountOK' /\ App' = App
  BY SameMount DEF TypeInv, mountVars, App
<1>3. CallOK'
  BY <1>2 DEF TypeInv, CallOK, callVars, Level
<1>4. NewMade' /\ EntsMade'
  BY <1>2 DEF TypeInv, NewMade, EntsMade, callVars, mountVars
<1>5. QED
  BY <1>1, <1>2, <1>3, <1>4 DEF TypeInv

LEMMA TargetsType ==
  ASSUME TypeInv, NEW t \in Types
  PROVE  /\ Targets(t) \in Seq(Types \X Nat)
         /\ \A i \in DOMAIN Targets(t) : Targets(t)[i][2] \in DOMAIN appenders[Targets(t)[i][1]]
<1> DEFINE Made == {e \in Types \X Nat : e[2] \in DOMAIN appenders[e[1]]}
<1>1. <<t, entity[t]>> \in Made /\ <<Main, entity[Main]>> \in Made
  BY TypeFacts DEF TypeInv, MountOK
<1>2. PICK own : own = <<<<t, entity[t]>>>>
  OBVIOUS
<1>3. PICK main : main = IF t # Main /\ HasAppender(Main) THEN <<<<Main, entity[Main]>>>> ELSE <<>>
  OBVIOUS
<1>4. own \in Seq(Made) /\ main \in Seq(Made)
  BY <1>1, <1>2, <1>3
<1>5. Targets(t) = own \o main
  BY <1>2, <1>3 DEF Targets
<1>6. Targets(t) \in Seq(Made)
  BY <1>4, <1>5, ConcatProperties
<1>7. \A i \in DOMAIN Targets(t) : Targets(t)[i] \in Made
  BY <1>6
<1>8. QED
  BY <1>6, <1>7

LEMMA WriterType ==
  ASSUME TypeInv, NEW w \in Writers
  PROVE  (\E t \in Types, via \in Entries : WriteCall(w, t, via)) \/ WriterStep(w) => TypeInv'
<1>0. UNCHANGED mountVars => App' = App /\ appenders' = appenders
  BY DEF mountVars, App
<1>1. ASSUME NEW t \in Types, NEW via \in Entries, WriteCall(w, t, via) PROVE TypeInv'
  <2>1. UNCHANGED <<settings, mountVars, callVars, targets, snapshot, reached>>
    BY <1>1 DEF WriteCall
  <2>2. /\ message' = [message EXCEPT ![w] = [type |-> t, via |-> via]]
        /\ \E p \in {"flags", "done"} : wpc' = [wpc EXCEPT ![w] = p]
        /\ \E b \in BOOLEAN : quiet' = [quiet EXCEPT ![w] = b]
    BY <1>1 DEF WriteCall
  <2>3. WriteOK' /\ TargetsMade'
    <3>1. wpc' \in [Writers -> {"idle", "flags", "route", "write", "done"}]
      BY <2>2 DEF TypeInv, WriteOK
    <3>2. message' \in [Writers -> [type : Types, via : Entries]]
      BY <2>2 DEF TypeInv, WriteOK
    <3>3. TargetsMade'
      BY <1>0, <2>1 DEF TypeInv, TargetsMade
    <3>4. QED
      BY <1>0, <2>1, <3>1, <3>2, <3>3 DEF TypeInv, WriteOK
  <2>4. CountOK'
    <3>1. calls' \in 0..MaxCalls
      <4>1. calls' = calls + 2 /\ calls + 1 < MaxCalls
        BY <1>1 DEF WriteCall
      <4>2. calls \in 0..MaxCalls
        BY DEF TypeInv, CountOK
      <4>3. QED
        BY <4>1, <4>2, TypeFacts
    <3>2. quiet' \in [Writers -> BOOLEAN]
      BY <2>2 DEF TypeInv, CountOK
    <3>3. QED
      BY <3>1, <3>2 DEF CountOK
  <2>5. QED
    BY <2>1, <2>3, <2>4, WriterFrame
<1>2. ASSUME CheckFlags(w) \/ WriteDone(w) PROVE TypeInv'
  <2>1. UNCHANGED <<settings, mountVars, callVars, message, targets, snapshot, reached, quiet, calls>>
    BY <1>2 DEF CheckFlags, WriteDone
  <2>2. \E p \in {"route", "done"} : wpc' = [wpc EXCEPT ![w] = p]
    BY <1>2 DEF CheckFlags, WriteDone
  <2>3. WriteOK' /\ TargetsMade' /\ CountOK'
    BY <1>0, <2>1, <2>2 DEF TypeInv, WriteOK, TargetsMade, CountOK
  <2>4. QED
    BY <2>1, <2>3, WriterFrame
<1>3. ASSUME Route(w) PROVE TypeInv'
  <2>0. PICK t \in Types : t = message[w].type
    BY DEF TypeInv, WriteOK
  <2>1. UNCHANGED <<settings, mountVars, callVars, message, reached, quiet, calls>>
    BY <1>3 DEF Route
  <2>2. \/ /\ wpc' = [wpc EXCEPT ![w] = "write"]
           /\ targets' = [targets EXCEPT ![w] = Targets(t)]
           /\ snapshot' = [snapshot EXCEPT ![w] = {consoleApp} \ {NoApp}]
        \/ wpc' = [wpc EXCEPT ![w] = "done"] /\ targets' = targets /\ snapshot' = snapshot
    BY <1>3, <2>0 DEF Route
  <2>3. snapshot' \in [Writers -> SUBSET App]
    <3>1. {consoleApp} \ {NoApp} \subseteq App
      BY DEF TypeInv, MountOK
    <3>2. QED
      BY <2>2, <3>1 DEF TypeInv, WriteOK
  <2>4. targets' \in [Writers -> Seq(Types \X Nat)] /\ \A v \in Writers : targets'[v] \in {targets[v], Targets(t)}
    <3>1. PICK s \in Seq(Types \X Nat) : s = Targets(t)
      BY TargetsType
    <3>2. targets \in [Writers -> Seq(Types \X Nat)]
      BY DEF TypeInv, WriteOK
    <3>3. targets' = [targets EXCEPT ![w] = s] \/ targets' = targets
      BY <2>2, <3>1
    <3>4. QED
      BY <3>1, <3>2, <3>3
  <2>5. TargetsMade'
    BY <1>0, <2>1, <2>4, TargetsType DEF TypeInv, TargetsMade
  <2>6. WriteOK' /\ CountOK'
    <3>1. wpc' \in [Writers -> {"idle", "flags", "route", "write", "done"}]
      BY <2>2 DEF TypeInv, WriteOK
    <3>2. QED
      BY <1>0, <2>1, <2>3, <2>4, <3>1 DEF TypeInv, WriteOK, CountOK
  <2>7. QED
    BY <2>1, <2>5, <2>6, WriterFrame
<1>4. ASSUME WriteAppender(w) PROVE TypeInv'
  <2>1. UNCHANGED <<settings, mountVars, callVars, wpc, message, targets, quiet, calls>>
    BY <1>4 DEF WriteAppender
  <2>2. PICK a \in snapshot[w] :
          /\ \/ reached' = [reached EXCEPT ![w] = Append(reached[w], a)]
             \/ reached' = [reached EXCEPT ![w] = reached[w]]
          /\ snapshot' = [snapshot EXCEPT ![w] = @ \ {a}]
    BY <1>4 DEF WriteAppender
  <2>3. a \in App /\ reached[w] \in Seq(App) /\ snapshot' \in [Writers -> SUBSET App]
    BY <2>2 DEF TypeInv, WriteOK
  <2>4. reached' \in [Writers -> Seq(App)]
    <3>1. Append(reached[w], a) \in Seq(App)
      BY <2>3
    <3>2. QED
      BY <2>2, <2>3, <3>1 DEF TypeInv, WriteOK
  <2>5. WriteOK' /\ TargetsMade' /\ CountOK'
    BY <1>0, <2>1, <2>3, <2>4 DEF TypeInv, WriteOK, TargetsMade, CountOK
  <2>6. QED
    BY <2>1, <2>5, WriterFrame
<1>5. ASSUME WriteEntity(w) PROVE TypeInv'
  <2>1. UNCHANGED <<settings, mountVars, callVars, wpc, message, reached, quiet, calls>> /\ targets[w] # <<>>
    BY <1>5 DEF WriteEntity
  <2>2. PICK e : e = Head(targets[w])
    OBVIOUS
  <2>3. snapshot' = [snapshot EXCEPT ![w] = appenders[e[1]][e[2]]] /\ targets' = [targets EXCEPT ![w] = Tail(@)]
    BY <1>5, <2>2 DEF WriteEntity
  <2>4. targets[w] \in Seq(Types \X Nat)
    BY DEF TypeInv, WriteOK
  <2>5. /\ e \in Types \X Nat /\ e[2] \in DOMAIN appenders[e[1]]
        /\ Tail(targets[w]) \in Seq(Types \X Nat)
        /\ \A i \in DOMAIN Tail(targets[w]) : \E j \in DOMAIN targets[w] : Tail(targets[w])[i] = targets[w][j]
    <3>1. Len(targets[w]) \in Nat \ {0} /\ DOMAIN targets[w] = 1..Len(targets[w])
      BY <2>1, <2>4, EmptySeq, LenProperties
    <3>2. e = targets[w][1] /\ 1 \in DOMAIN targets[w]
      BY <2>2, <2>4, <3>1
    <3>3. e \in Types \X Nat
      BY <2>4, <3>1, <3>2, ElementOfSeq
    <3>4. e[2] \in DOMAIN appenders[e[1]]
      BY <3>2 DEF TypeInv, TargetsMade
    <3>5. Tail(targets[w]) \in Seq(Types \X Nat) /\ Len(Tail(targets[w])) = Len(targets[w]) - 1
          /\ \A i \in 1..Len(targets[w]) - 1 : Tail(targets[w])[i] = targets[w][i + 1]
      BY <2>1, <2>4, <3>1, HeadTailProperties
    <3>6. ASSUME NEW i \in DOMAIN Tail(targets[w]) PROVE \E j \in DOMAIN targets[w] : Tail(targets[w])[i] = targets[w][j]
      <4>1. i \in 1..(Len(targets[w]) - 1)
        BY <3>5, LenProperties
      <4>2. i + 1 \in DOMAIN targets[w]
        BY <3>1, <4>1
      <4>3. QED
        BY <3>5, <4>1, <4>2
    <3>7. QED
      BY <3>3, <3>4, <3>5, <3>6
  <2>6. snapshot' \in [Writers -> SUBSET App]
    <3>1. appenders[e[1]] \in Seq(SUBSET App)
      BY <2>5 DEF TypeInv, MountOK
    <3>2. appenders[e[1]][e[2]] \in SUBSET App
      BY <2>5, <3>1, LenProperties, ElementOfSeq
    <3>3. QED
      BY <2>3, <3>2 DEF TypeInv, WriteOK
  <2>7. targets' \in [Writers -> Seq(Types \X Nat)]
    BY <2>3, <2>5 DEF TypeInv, WriteOK
  <2>8. TargetsMade'
    <3>1. \A v \in Writers : targets'[v] = targets[v] \/ (v = w /\ targets'[v] = Tail(targets[w]))
      BY <2>3 DEF TypeInv, WriteOK
    <3>2. ASSUME NEW v \in Writers, NEW i \in DOMAIN targets'[v]
          PROVE  targets'[v][i][2] \in DOMAIN appenders[targets'[v][i][1]]
      <4>1. \E j \in DOMAIN targets[v] : targets'[v][i] = targets[v][j]
        BY <2>5, <3>1, <3>2
      <4>2. QED
        BY <4>1 DEF TypeInv, TargetsMade
    <3>3. QED
      BY <1>0, <2>1, <3>2 DEF TargetsMade
  <2>9. WriteOK' /\ CountOK'
    BY <1>0, <2>1, <2>6, <2>7 DEF TypeInv, WriteOK, CountOK
  <2>10. QED
    BY <2>1, <2>8, <2>9, WriterFrame
<1>6. ASSUME WriteReturn(w) PROVE TypeInv'
  <2>1. UNCHANGED <<settings, mountVars, callVars, targets, snapshot, calls>>
    BY <1>6 DEF WriteReturn
  <2>2. /\ wpc' = [wpc EXCEPT ![w] = "idle"] /\ message' = [message EXCEPT ![w] = NoMessage]
        /\ reached' = [reached EXCEPT ![w] = <<>>] /\ quiet' = [quiet EXCEPT ![w] = FALSE]
    BY <1>6 DEF WriteReturn
  <2>3. NoMessage \in [type : Types, via : Entries]
    BY TypeFacts DEF NoMessage, Entries
  <2>4. reached' \in [Writers -> Seq(App)]
    <3>1. <<>> \in Seq(App)
      OBVIOUS
    <3>2. QED
      BY <2>2, <3>1 DEF TypeInv, WriteOK
  <2>5. WriteOK' /\ TargetsMade' /\ CountOK'
    BY <1>0, <2>1, <2>2, <2>3, <2>4 DEF TypeInv, WriteOK, TargetsMade, CountOK
  <2>6. QED
    BY <2>1, <2>5, WriterFrame
<1>7. QED
  BY <1>1, <1>2, <1>3, <1>4, <1>5, <1>6 DEF WriterStep

LEMMA TypeStutter == TypeInv /\ UNCHANGED vars => TypeInv'
<1> SUFFICES ASSUME TypeInv, UNCHANGED vars PROVE TypeInv'
  OBVIOUS
<1>1. UNCHANGED <<settings, mountVars, callVars>> /\ UNCHANGED <<writeVars, quiet, calls>>
  BY DEF vars, elsewhere
<1>2. WriteOK' /\ TargetsMade' /\ CountOK'
  BY <1>1, SameGrows, KeptWriters DEF TypeInv, CountOK
<1>3. QED
  BY <1>1, <1>2, WriterFrame

LEMMA TypeStep == TypeInv /\ [Next]_vars => TypeInv'
<1> SUFFICES ASSUME TypeInv, [Next]_vars PROVE TypeInv'
  OBVIOUS
<1>1. ASSUME NEW c \in Callers, Calls(c) \/ CallerStep(c) PROVE TypeInv'
  <2>1. CASE Calls(c)
    BY <2>1, CallsType
  <2>2. CASE InitStep(c)
    BY <2>2, InitType1, ConsoleType DEF InitStep
  <2>3. CASE MountStep(c)
    BY <2>3, CreateType, MountType, ReleaseType DEF MountStep
  <2>4. CASE LevelStep(c)
    BY <2>4, LevelType
  <2>5. CASE SwitchStep(c)
    BY <2>5, CloseType1, ReleaseType DEF SwitchStep
  <2>6. CASE CloseStep(c)
    BY <2>6, CloseType1, ConsoleType, ReleaseType DEF CloseStep
  <2>7. QED
    BY <1>1, <2>1, <2>2, <2>3, <2>4, <2>5, <2>6 DEF CallerStep
<1>2. ASSUME NEW w \in Writers, (\E t \in Types, via \in Entries : WriteCall(w, t, via)) \/ WriterStep(w) PROVE TypeInv'
  BY <1>2, WriterType
<1>3. CASE UNCHANGED vars
  BY <1>3, TypeStutter
<1>4. QED
  BY <1>1, <1>2, <1>3 DEF Next

\* Every variable keeps its type, however calls and messages meet: a writer
\* or a Close that comes back to an entity or an appender finds it there
\* (logger.go 372, entity.go 130-140).
THEOREM TypeCorrect == Spec => []TypeOK
<1>1. Init => TypeInv
  BY InitType
<1>2. TypeInv /\ [Next]_vars => TypeInv'
  BY TypeStep
<1>3. TypeInv => TypeOK
  BY TypeInvTypeOK
<1>4. QED
  BY <1>1, <1>2, <1>3, PTL DEF Spec

-----------------------------------------------------------------------------
(***************************************************************************)
(* What two calls may be doing at the same time when the library is used   *)
(* in order.  A call that may change what is mounted or the level has the  *)
(* place to itself: Init and Close by l.mu, the setters by that order.     *)
(***************************************************************************)
Setters == {"level", "on", "off"}

\* The places of each call.
Placed(name, place) ==
  \/ name = "none"  /\ place = "idle"
  \/ name = "init"  /\ place \in {"init", "lock", "console", "level", "mirror", "plan", "next",
                                  "create", "mount", "attach", "register"}
  \/ name = "level" /\ place \in {"level", "mirror"}
  \/ name = "on"    /\ place \in {"switch", "create", "mount", "attach", "register"}
  \/ name = "off"   /\ place \in {"switch", "release"}
  \/ name = "flush" /\ place \in {"flush", "flushing"}
  \/ name = "close" /\ place \in {"flush", "flushing", "uninit", "close", "exit", "reset", "collect", "shut"}

Changing(name, place) ==
  \/ name = "init"  /\ place \notin {"init", "lock"}
  \/ name = "close" /\ place \in {"exit", "reset", "collect", "shut"}
  \/ name \in Setters

InPlace     == \A c \in Callers : Placed(op[c], pc[c])
Alone       == \A c, d \in Callers : c # d /\ op[c] \in Setters => op[d] \in {"none", "flush"}
OneChanging == \A c, d \in Callers : Changing(op[c], pc[c]) /\ Changing(op[d], pc[d]) => c = d
Orderly     == InPlace /\ Alone /\ OneChanging

\* A step within a call: only the caller moves, and it starts to change
\* something when nobody holds the logger.
Moved(c) ==
  /\ op' = [op EXCEPT ![c] = op'[c]] /\ pc' = [pc EXCEPT ![c] = pc'[c]]
  /\ op'[c] \in {op[c], "none"}
  /\ Placed(op'[c], pc'[c])
  /\ Changing(op'[c], pc'[c]) => Changing(op[c], pc[c]) \/ LoggerFree

LEMMA CallerMoved ==
  ASSUME TypeInv, InPlace, NEW c \in Callers
  PROVE  CallerStep(c) => Moved(c)
<1>1. op \in [Callers -> {"none", "init", "level", "on", "off", "flush", "close"}] /\ pc \in [Callers -> Places]
  BY DEF TypeInv, CallOK
<1>2. Placed(op[c], pc[c])
  BY DEF InPlace
<1>3. ASSUME UNCHANGED <<op, pc>> PROVE Moved(c)
  BY <1>1, <1>2, <1>3 DEF Moved
<1>4. ASSUME Return(c) PROVE Moved(c)
  BY <1>1, <1>4 DEF Return, Moved, Placed, Changing, Setters
<1>5. ASSUME NEW p \in Places, Goto(c, p), Placed(op[c], p),
             Changing(op[c], p) => Changing(op[c], pc[c]) \/ LoggerFree
      PROVE  Moved(c)
  BY <1>1, <1>5 DEF Goto, Moved
<1>6. InitCheck(c) => Moved(c)
  BY <1>2, <1>4, <1>5 DEF InitCheck, Placed, Changing, Setters, Places
<1>7. InitLock(c) => Moved(c)
  BY <1>2, <1>4, <1>5 DEF InitLock, Placed, Places
<1>8. InitConsole(c) => Moved(c)
  BY <1>2, <1>5 DEF InitConsole, Placed, Changing, Setters, Places
<1>9. InitPlan(c) => Moved(c)
  BY <1>2, <1>5 DEF InitPlan, Placed, Changing, Setters, Places
<1>10. InitNext(c) => Moved(c)
  <2>1. InitNext(c) => pc[c] = "next" /\ (UNCHANGED <<op, pc>> \/ Goto(c, "create"))
    BY DEF InitNext
  <2>2. QED
    BY <1>2, <1>3, <1>5, <2>1 DEF Placed, Changing, Setters, Places
<1>11. InitFinish(c) => Moved(c)
  BY <1>4 DEF InitFinish
<1>12. CreateEntity(c) \/ Mount(c) \/ Attach(c) => Moved(c)
  <2>1. CreateEntity(c) \/ Mount(c) \/ Attach(c) =>
          /\ pc[c] \in {"create", "mount", "attach"}
          /\ Goto(c, "mount") \/ Goto(c, "attach") \/ Goto(c, "register")
    BY DEF CreateEntity, Mount, Attach
  <2>2. QED
    BY <1>2, <1>5, <2>1 DEF Placed, Changing, Setters, Places
<1>13. Register(c) => Moved(c)
  BY <1>2, <1>4, <1>5 DEF Register, Placed, Changing, Setters, Places
<1>14. LevelStep(c) => Moved(c)
  BY <1>2, <1>4, <1>5 DEF LevelStep, StoreLevel, StoreMirror, Placed, Changing, Setters, Places
<1>15. SwitchStep(c) => Moved(c)
  <2>1. SwitchStep(c) => \/ Return(c)
                         \/ pc[c] = "switch" /\ op[c] = "on" /\ Goto(c, "create")
                         \/ pc[c] = "switch" /\ op[c] # "on" /\ Goto(c, "release")
    BY DEF SwitchStep, SetWriteCheck, Release
  <2>2. QED
    BY <1>2, <1>4, <1>5, <2>1 DEF Placed, Changing, Setters, Places
<1>16. FlushLock(c) => Moved(c)
  BY <1>2, <1>5 DEF FlushLock, Placed, Changing, Setters, Places
<1>17. FlushDone(c) => Moved(c)
  BY <1>2, <1>4, <1>5 DEF FlushDone, Placed, Changing, Setters, Places
<1>18. UnInitCheck(c) => Moved(c)
  BY <1>2, <1>4, <1>5 DEF UnInitCheck, Placed, Changing, Setters, Places
<1>19. UnInitLock(c) => Moved(c)
  BY <1>2, <1>4, <1>5 DEF UnInitLock, Placed, Places
<1>20. UnInitConsole(c) \/ UnInitReset(c) \/ UnInitCollect(c) => Moved(c)
  <2>1. UnInitConsole(c) \/ UnInitReset(c) \/ UnInitCollect(c) =>
          /\ pc[c] \in {"exit", "reset", "collect"}
          /\ Goto(c, "reset") \/ Goto(c, "collect") \/ Goto(c, "shut")
    BY DEF UnInitConsole, UnInitReset, UnInitCollect
  <2>2. QED
    BY <1>2, <1>5, <2>1 DEF Placed, Changing, Setters, Places
<1>21. UnInitEntity(c) => Moved(c)
  BY <1>3 DEF UnInitEntity
<1>22. UnInitFinish(c) => Moved(c)
  BY <1>4 DEF UnInitFinish
<1>23. QED
  BY <1>6, <1>7, <1>8, <1>9, <1>10, <1>11, <1>12, <1>13, <1>14, <1>15, <1>16, <1>17,
     <1>18, <1>19, <1>20, <1>21, <1>22 DEF CallerStep, InitStep, MountStep, CloseStep

LEMMA MovedOrderly ==
  ASSUME TypeInv, Orderly, NEW c \in Callers, Moved(c)
  PROVE  Orderly'
<1>1. /\ op'[c] \in {op[c], "none"} /\ Placed(op'[c], pc'[c])
      /\ Changing(op'[c], pc'[c]) => Changing(op[c], pc[c]) \/ LoggerFree
      /\ \A d \in Callers \ {c} : op'[d] = op[d] /\ pc'[d] = pc[d]
  BY DEF Moved, TypeInv, CallOK
<1>2. InPlace'
  BY <1>1 DEF Orderly, InPlace
<1>3. Alone'
  BY <1>1 DEF Orderly, Alone, Setters
<1>4. ASSUME NEW d \in Callers \ {c}, Changing(op'[c], pc'[c]), Changing(op[d], pc[d]) PROVE FALSE
  <2>1. LoggerFree
    BY <1>1, <1>4 DEF Orderly, OneChanging
  <2>2. ~HoldsLogger(d)
    BY <2>1 DEF LoggerFree
  <2>3. op[d] \in Setters
    BY <1>4, <2>2 DEF Changing, HoldsLogger
  <2>4. op[c] \in {"none", "flush"}
    BY <2>3 DEF Orderly, Alone
  <2>5. QED
    BY <1>1, <1>4, <2>4 DEF Changing, Setters
<1>5. OneChanging'
  BY <1>1, <1>4 DEF Orderly, OneChanging
<1>6. QED
  BY <1>2, <1>3, <1>5 DEF Orderly

\* A call begins.
Called(c) ==
  /\ pc[c] = "idle"
  /\ op' = [op EXCEPT ![c] = op'[c]] /\ pc' = [pc EXCEPT ![c] = pc'[c]]
  /\ op'[c] # "none" /\ Placed(op'[c], pc'[c])
  /\ pc'[c] \in {"init", "level", "switch", "flush"}
  /\ Changing(op'[c], pc'[c]) => op'[c] \in Setters
  /\ OrderlyUse => \A d \in Callers \ {c} : Beside(op'[c], op[d])

LEMMA CallsCalled ==
  ASSUME TypeInv, NEW c \in Callers
  PROVE  Calls(c) => Called(c)
<1>1. op \in [Callers -> {"none", "init", "level", "on", "off", "flush", "close"}] /\ pc \in [Callers -> Places]
  BY DEF TypeInv, CallOK
<1>2. ASSUME NEW name, NEW place \in {"init", "level", "switch", "flush"},
             Call(c, name, place), Placed(name, place), name # "none",
             Changing(name, place) => name \in Setters
      PROVE  Called(c)
  <2>1. op' = [op EXCEPT ![c] = name] /\ pc' = [pc EXCEPT ![c] = place]
    BY <1>2 DEF Call
  <2>2. op'[c] = name /\ pc'[c] = place
    BY <1>1, <2>1
  <2>3. QED
    BY <1>2, <2>1, <2>2 DEF Call, Called
<1>3. Calls(c) => \/ Call(c, "init", "init") \/ Call(c, "level", "level")
                  \/ Call(c, "on", "switch") \/ Call(c, "off", "switch")
                  \/ Call(c, "flush", "flush") \/ Call(c, "close", "flush")
  BY DEF Calls, InitCall, SetLogLevelCall, SetWriteCall, FlushCall, CloseCall
<1>4. QED
  BY <1>2, <1>3 DEF Placed, Changing, Setters

LEMMA CalledOrderly ==
  ASSUME OrderlyUse, TypeInv, Orderly, NEW c \in Callers, Called(c)
  PROVE  Orderly'
<1>1. /\ Placed(op'[c], pc'[c]) /\ op'[c] # "none"
      /\ \A d \in Callers \ {c} : op'[d] = op[d] /\ pc'[d] = pc[d] /\ Beside(op'[c], op[d])
      /\ Changing(op'[c], pc'[c]) => op'[c] \in Setters
  BY DEF Called, TypeInv, CallOK
<1>2. InPlace'
  BY <1>1 DEF Orderly, InPlace
<1>3. ASSUME NEW d \in Callers \ {c}
      PROVE  /\ op'[c] \in Setters => op[d] \in {"none", "flush"}
             /\ op[d] \in Setters => op'[c] \in {"none", "flush"}
  BY <1>1, <1>3 DEF Beside, Setters
<1>4. Alone'
  BY <1>1, <1>3 DEF Orderly, Alone
<1>5. \A d \in Callers \ {c} : op'[c] \in Setters => ~Changing(op[d], pc[d])
  BY <1>3 DEF Changing, Setters
<1>6. OneChanging'
  BY <1>1, <1>5 DEF Orderly, OneChanging
<1>7. QED
  BY <1>2, <1>4, <1>6 DEF Orderly

-----------------------------------------------------------------------------
(***************************************************************************)
(* The two level filters: they differ only while a call is between its     *)
(* two stores, and then the first is the one that the call will store.     *)
(***************************************************************************)
FiltersMove ==
  /\ \A c \in Callers : pc[c] = "mirror" => level = filter[c]
  /\ (\A c \in Callers : pc[c] # "mirror") => mirror = level

\* A step that stores no level.
LEMMA FiltersStay ==
  ASSUME FiltersMove, NEW c \in Callers, UNCHANGED levelVars,
         pc[c] # "mirror", pc'[c] # "mirror",
         \A d \in Callers \ {c} : pc'[d] = pc[d] /\ filter'[d] = filter[d]
  PROVE  FiltersMove'
<1>1. level' = level /\ mirror' = mirror
  BY DEF levelVars
<1>2. (\A d \in Callers : pc'[d] # "mirror") => \A d \in Callers : pc[d] # "mirror"
  OBVIOUS
<1>3. \A d \in Callers : pc'[d] = "mirror" => d # c
  OBVIOUS
<1>4. QED
  BY <1>1, <1>2, <1>3 DEF FiltersMove

LEMMA FiltersStep ==
  ASSUME OrderlyUse, TypeInv, Orderly, FiltersMove, NEW c \in Callers, Calls(c) \/ CallerStep(c)
  PROVE  FiltersMove'
<1>1. filter \in [Callers -> Level] /\ pc \in [Callers -> Places]
  BY DEF TypeInv, CallOK
<1>2. CASE Calls(c)
  <2>1. Called(c)
    BY <1>2, CallsCalled
  <2>2. pc[c] = "idle" /\ pc'[c] # "mirror" /\ \A d \in Callers \ {c} : pc'[d] = pc[d]
    BY <1>1, <2>1 DEF Called
  <2>3. UNCHANGED levelVars
    BY <1>2 DEF Calls, InitCall, SetLogLevelCall, SetWriteCall, FlushCall, CloseCall, Call
  <2>4. \A d \in Callers \ {c} : filter'[d] = filter[d]
    BY <1>1, <1>2 DEF Calls, InitCall, SetLogLevelCall, SetWriteCall, FlushCall, CloseCall
  <2>5. QED
    BY <2>2, <2>3, <2>4, FiltersStay
<1>3. CASE StoreLevel(c)
  <2>1. pc[c] = "level" /\ level' = filter[c] /\ filter' = filter /\ pc' = [pc EXCEPT ![c] = "mirror"]
    BY <1>3 DEF StoreLevel, Goto
  <2>2. \A d \in Callers : pc'[d] = "mirror" => d = c
    <3>1. Changing(op[c], pc[c])
      BY <2>1 DEF Orderly, InPlace, Placed, Changing, Setters
    <3>2. \A d \in Callers : pc[d] = "mirror" => Changing(op[d], pc[d])
      BY DEF Orderly, InPlace, Placed, Changing, Setters
    <3>3. \A d \in Callers \ {c} : pc[d] # "mirror"
      BY <3>1, <3>2 DEF Orderly, OneChanging
    <3>4. QED
      BY <1>1, <2>1, <3>3
  <2>3. pc'[c] = "mirror"
    BY <1>1, <2>1
  <2>4. QED
    BY <2>1, <2>2, <2>3 DEF FiltersMove
<1>4. CASE StoreMirror(c)
  <2>1. pc[c] = "mirror" /\ mirror' = filter[c] /\ level' = level
    BY <1>4 DEF StoreMirror
  <2>2. \A d \in Callers : pc[d] = "mirror" => d = c
    <3>1. \A d \in Callers : pc[d] = "mirror" => Changing(op[d], pc[d])
      BY DEF Orderly, InPlace, Placed, Changing, Setters
    <3>2. QED
      BY <2>1, <3>1 DEF Orderly, OneChanging
  <2>3. \A d \in Callers : pc'[d] # "mirror"
    <3>1. pc'[c] # "mirror" /\ \A d \in Callers \ {c} : pc'[d] = pc[d]
      BY <1>1, <1>4 DEF StoreMirror, Goto, Return
    <3>2. QED
      BY <2>2, <3>1
  <2>4. mirror' = level'
    BY <2>1 DEF FiltersMove
  <2>5. QED
    BY <2>3, <2>4 DEF FiltersMove
<1>5. CASE CallerStep(c) /\ ~StoreLevel(c) /\ ~StoreMirror(c)
  <2>1. Moved(c)
    BY <1>5, CallerMoved DEF Orderly
  <2>2. \A d \in Callers \ {c} : pc'[d] = pc[d]
    BY <1>1, <2>1 DEF Moved
  <2>3. UNCHANGED levelVars /\ \A d \in Callers \ {c} : filter'[d] = filter[d]
    <3>1. InitStep(c) => UNCHANGED levelVars /\ \A d \in Callers \ {c} : filter'[d] = filter[d]
      BY <1>1 DEF InitStep, InitCheck, InitLock, InitConsole, InitPlan, InitNext, InitFinish, settings
    <3>2. MountStep(c) \/ SwitchStep(c) => UNCHANGED levelVars /\ filter' = filter
      BY DEF MountStep, CreateEntity, Mount, Attach, Register, SwitchStep, SetWriteCheck, Release, settings
    <3>3. CloseStep(c) => UNCHANGED levelVars /\ filter' = filter
      BY DEF CloseStep, FlushLock, FlushDone, UnInitCheck, UnInitLock, UnInitConsole, UnInitReset,
             UnInitCollect, UnInitEntity, UnInitFinish, settings
    <3>4. QED
      BY <1>5, <3>1, <3>2, <3>3 DEF CallerStep, LevelStep
  <2>4. pc[c] # "mirror" /\ pc'[c] # "mirror"
    <3>1. InitStep(c) => pc[c] # "mirror" /\ pc'[c] # "mirror"
      <4>1. InitNext(c) => pc[c] = "next" /\ pc'[c] \in {"next", "create"}
        BY <1>1 DEF InitNext, Goto
      <4>2. QED
        BY <1>1, <4>1 DEF InitStep, InitCheck, InitLock, InitConsole, InitPlan, InitFinish, Goto, Return
    <3>2. MountStep(c) \/ SwitchStep(c) => pc[c] # "mirror" /\ pc'[c] # "mirror"
      BY <1>1 DEF MountStep, CreateEntity, Mount, Attach, Register, SwitchStep, SetWriteCheck, Release, Goto, Return
    <3>3. CloseStep(c) => pc[c] # "mirror" /\ pc'[c] # "mirror"
      BY <1>1 DEF CloseStep, FlushLock, FlushDone, UnInitCheck, UnInitLock, UnInitConsole, UnInitReset,
             UnInitCollect, UnInitEntity, UnInitFinish, Goto, Return
    <3>4. QED
      BY <1>5, <3>1, <3>2, <3>3 DEF CallerStep, LevelStep
  <2>5. QED
    BY <2>2, <2>3, <2>4, FiltersStay
<1>6. QED
  BY <1>2, <1>3, <1>4, <1>5

LEMMA WriterElsewhere ==
  ASSUME NEW w \in Writers
  PROVE  (\E t \in Types, via \in Entries : WriteCall(w, t, via)) \/ WriterStep(w) => UNCHANGED <<settings, mountVars, callVars>>
BY DEF WriteCall, WriterStep, CheckFlags, Route, WriteAppender, WriteEntity, WriteDone, WriteReturn

\* The order of the calls and the state of the two filters are invariant.
FilterInv == TypeInv /\ Orderly /\ FiltersMove

LEMMA FilterInit == Init => FilterInv
<1>1. Init => Orderly /\ FiltersMove
  BY DEF Init, Orderly, InPlace, Placed, Alone, OneChanging, Changing, Setters, FiltersMove
<1>2. QED
  BY <1>1, InitType DEF FilterInv

LEMMA FilterNext == OrderlyUse /\ FilterInv /\ [Next]_vars => FilterInv'
<1> SUFFICES ASSUME OrderlyUse, FilterInv, [Next]_vars PROVE FilterInv'
  OBVIOUS
<1>1. TypeInv'
  BY TypeStep DEF FilterInv
<1>2. ASSUME UNCHANGED <<settings, mountVars, callVars>> PROVE Orderly' /\ FiltersMove'
  <2>1. UNCHANGED <<op, pc, filter, level, mirror>>
    BY <1>2 DEF settings, levelVars, callVars
  <2>2. QED
    BY <2>1 DEF FilterInv, Orderly, InPlace, Alone, OneChanging, FiltersMove
<1>3. ASSUME NEW c \in Callers, Calls(c) \/ CallerStep(c) PROVE Orderly' /\ FiltersMove'
  BY <1>3, CallsCalled, CalledOrderly, CallerMoved, MovedOrderly, FiltersStep DEF FilterInv, Orderly
<1>4. ASSUME NEW w \in Writers, (\E t \in Types, via \in Entries : WriteCall(w, t, via)) \/ WriterStep(w)
      PROVE  Orderly' /\ FiltersMove'
  BY <1>2, <1>4, WriterElsewhere
<1>5. CASE UNCHANGED vars
  BY <1>1, <1>2, <1>5 DEF vars, FilterInv
<1>6. QED
  BY <1>1, <1>3, <1>4, <1>5 DEF Next, FilterInv

\* Between calls the filter that the functions of api.go look at and the one
\* that route looks at are the same (early_filter.go 18-19), for any number
\* of goroutines, however Init, Close and Flush run beside each other, when
\* the setters are not called beside each other.
THEOREM FiltersAgree == OrderlyUse /\ Spec => []LevelsAgree
<1>1. OrderlyUse /\ FilterInv /\ [Next]_vars => FilterInv'
  BY FilterNext
<1>2. FilterInv => LevelsAgree
  <2>1. FilterInv /\ Settled => \A c \in Callers : pc[c] # "mirror"
    BY DEF FilterInv, Orderly, InPlace, Placed, Settled
  <2>2. QED
    BY <2>1 DEF FilterInv, FiltersMove, LevelsAgree
<1> SUFFICES ASSUME OrderlyUse PROVE Spec => []LevelsAgree
  OBVIOUS
<1>3. Init => FilterInv
  BY FilterInit
<1>4. FilterInv /\ [Next]_vars => FilterInv'
  BY <1>1
<1>5. QED
  BY <1>2, <1>3, <1>4, PTL DEF Spec
-----------------------------------------------------------------------------
(***************************************************************************)
(* What is mounted, when the setters are not called beside each other: one *)
(* open appender per type; control, entity factory and registry know the   *)
(* same appenders; Close leaves nothing behind; after Init the files are   *)
(* those of the level.                                                     *)
(***************************************************************************)

-----------------------------------------------------------------------------
(***************************************************************************)
(* The places where a call changes nothing.  At most one caller is         *)
(* anywhere else, so the state of what is mounted can be described by the  *)
(* place of that one.                                                      *)
(***************************************************************************)
Still == {"idle", "init", "lock", "flush", "flushing", "uninit", "close"}
OthersStill(c) == \A d \in Callers \ {c} : pc[d] \in Still

LEMMA ChangingPlaces ==
  ASSUME InPlace, NEW c \in Callers
  PROVE  Changing(op[c], pc[c]) <=> pc[c] \notin Still
BY DEF InPlace, Placed, Changing, Setters, Still

LEMMA ChangingAlone ==
  ASSUME Orderly, NEW c \in Callers, pc[c] \notin Still
  PROVE  OthersStill(c)
BY ChangingPlaces DEF Orderly, OneChanging, OthersStill

\* What the entity factory holds of a type: the appenders of the entity it
\* has made for it.
Holding == [t \in Types |-> IF made[t] = NoEntity THEN {} ELSE appenders[t][made[t]]]

\* Only that entity holds appenders; it holds one of its type, and open, if
\* any; nothing holds a console, which the control keeps by itself.
OneEntity   == \A t \in Types : \A n \in DOMAIN appenders[t] : n # made[t] => appenders[t][n] = {}
HeldOpen    == \A t \in Types : \A a \in Holding[t] : a \in App /\ apps[a].type = t /\ Open(a)
HeldOne     == \A t \in Types : \A a, b \in Holding[t] : a = b
ConsoleKept == /\ Holding[Console] = {}
               /\ consoleApp # NoApp => Open(consoleApp) /\ apps[consoleApp].type = Console
HeldSound   == OneEntity /\ HeldOpen /\ HeldOne /\ ConsoleKept

\* The appender that a call has created and not registered yet.
Pending(c) == IF pc[c] \in {"mount", "attach", "register"} THEN {new[c].app} ELSE {}

\* The control, the registry and the open appenders, against the factory.
ControlSound(c)  == \A t \in Types : made[t] = NoEntity \/ entity[t] = made[t] \/ (pc[c] = "mount" /\ t = new[c].type)
RegistrySound(c) == \A a \in App : a \in registry <=>
                      pc[c] \notin {"collect", "shut"} /\ a \in Holding[apps[a].type] /\ a \notin Pending(c)
OpenSound(c)     == \A a \in App : Open(a) => a = consoleApp \/ a \in Holding[apps[a].type] \/ a \in Pending(c)
Sound(c)         == ControlSound(c) /\ RegistrySound(c) /\ OpenSound(c)

\* A call that mounts or releases a type.
Mounting(c) ==
  /\ pc[c] \in {"switch", "create", "mount", "attach", "register", "release"} => new[c].type # Console
  /\ pc[c] \in {"create", "mount", "attach"} => Holding[new[c].type] = {}
  /\ pc[c] \in {"mount", "attach", "register"} =>
       /\ apps[new[c].app].type = new[c].type /\ Open(new[c].app)
       /\ new[c].ent = made[new[c].type] /\ made[new[c].type] # NoEntity
  /\ pc[c] = "register" => new[c].app \in Holding[new[c].type]
  /\ op[c] = "init" /\ pc[c] \notin {"init", "lock", "console"} => Console \notin todo[c]

\* A call that shuts down what is mounted.
Closing(c) ==
  /\ pc[c] \in {"reset", "collect", "shut"} => consoleApp = NoApp
  /\ pc[c] = "shut" =>
       /\ \A e \in ents[c] : e[2] = made[e[1]] /\ made[e[1]] # NoEntity
       /\ \A t \in Types : Holding[t] # {} => <<t, made[t]>> \in ents[c]

Good(c)   == Sound(c) /\ Mounting(c) /\ Closing(c)
MountGood == HeldSound /\ \A c \in Callers : OthersStill(c) => Good(c)
MountInv  == TypeInv /\ Orderly /\ MountGood

\* What follows from the types.
LEMMA HoldingType ==
  ASSUME TypeInv
  PROVE  /\ Holding \in [Types -> SUBSET App]
         /\ \A t \in Types : entity[t] # NoEntity /\ entity[t] \in DOMAIN appenders[t]
         /\ \A a \in App : apps[a].type \in Types /\ apps[a].open \in BOOLEAN
         /\ NoApp \notin App
         /\ \A c \in Callers : new[c].type \in Types
         /\ \A c \in Callers : pc[c] \in {"mount", "attach", "register"} => new[c].app \in App
<1>1. /\ appenders \in [Types -> Seq(SUBSET App)] /\ apps \in Seq([type : Types, open : BOOLEAN])
      /\ \A t \in Types : entity[t] \in DOMAIN appenders[t] /\ made[t] \in DOMAIN appenders[t] \cup {NoEntity}
  BY DEF TypeInv, MountOK
<1>2. \A t \in Types : appenders[t] \in Seq(SUBSET App) /\ DOMAIN appenders[t] = 1..Len(appenders[t])
  BY <1>1, LenProperties
<1>3. \A t \in Types : entity[t] # NoEntity
  BY <1>1, <1>2 DEF NoEntity
<1>4. \A t \in Types : \A n \in DOMAIN appenders[t] : appenders[t][n] \in SUBSET App
  BY <1>2, ElementOfSeq
<1>5. Holding \in [Types -> SUBSET App]
  BY <1>1, <1>4 DEF Holding
<1>6. \A a \in App : apps[a] \in [type : Types, open : BOOLEAN]
  BY <1>1, ElementOfSeq DEF App
<1>7. NoApp \notin App
  BY DEF NoApp, App
<1>8. /\ \A c \in Callers : new[c].type \in Types
      /\ \A c \in Callers : pc[c] \in {"mount", "attach", "register"} => new[c].app \in App
  BY DEF TypeInv, CallOK, NewMade
<1>9. QED
  BY <1>1, <1>3, <1>5, <1>6, <1>7, <1>8

\* The control finds a type mounted when the factory holds an appender of it.
LEMMA MountedHeld ==
  ASSUME TypeInv, HeldSound, NEW c \in Callers, ControlSound(c), Mounting(c), NEW t \in Types
  PROVE  appenders[t][entity[t]] = Holding[t]
<1>1. entity[t] # NoEntity /\ entity[t] \in DOMAIN appenders[t]
  BY HoldingType
<1>2. CASE entity[t] = made[t]
  BY <1>1, <1>2 DEF Holding
<1>3. CASE entity[t] # made[t]
  <2>1. appenders[t][entity[t]] = {}
    BY <1>1, <1>3 DEF HeldSound, OneEntity
  <2>2. made[t] = NoEntity \/ (pc[c] = "mount" /\ t = new[c].type)
    BY <1>3 DEF ControlSound
  <2>3. Holding[t] = {}
    BY <2>2 DEF Holding, Mounting
  <2>4. QED
    BY <2>1, <2>3
<1>4. QED
  BY <1>2, <1>3

-----------------------------------------------------------------------------
(* Steps that mount and release nothing. *)

LEMMA SameHeld == UNCHANGED mountVars => Holding' = Holding /\ App' = App /\ apps' = apps /\ consoleApp' = consoleApp
                                          /\ registry' = registry /\ made' = made /\ entity' = entity
                                          /\ appenders' = appenders
BY DEF mountVars, Holding, App

LEMMA SameSound == HeldSound /\ UNCHANGED mountVars => HeldSound'
<1> SUFFICES ASSUME HeldSound, UNCHANGED mountVars PROVE HeldSound'
  OBVIOUS
<1>1. QED
  BY SameHeld DEF HeldSound, OneEntity, HeldOpen, HeldOne, ConsoleKept, Open

\* Who stays still changes nothing for the others.
LEMMA GoodStays ==
  ASSUME MountGood, NEW c \in Callers, UNCHANGED mountVars,
         pc[c] \in Still, pc'[c] \in Still,
         \A d \in Callers \ {c} : pc'[d] = pc[d] /\ op'[d] = op[d] /\ new'[d] = new[d] /\ todo'[d] = todo[d] /\ ents'[d] = ents[d],
         op'[c] = "init" => pc'[c] \in {"init", "lock"}
  PROVE  MountGood'
<1>1. HeldSound'
  BY SameSound DEF MountGood
<1>2. ASSUME NEW d \in Callers, OthersStill(d)' PROVE Good(d)'
  <2>1. OthersStill(d)
    BY <1>2 DEF OthersStill
  <2>2. Sound(d) /\ Mounting(d) /\ Closing(d)
    BY <2>1 DEF MountGood, Good
  <2>3. CASE d # c
    BY <2>2, <2>3, SameHeld DEF Good, Sound, ControlSound, RegistrySound, OpenSound, Pending, Mounting, Closing, Open
  <2>4. CASE d = c
    <3>1. Sound(c)'
      BY <2>2, <2>4, SameHeld DEF Sound, ControlSound, RegistrySound, OpenSound, Pending, Still, Open
    <3>2. Mounting(c)' /\ Closing(c)'
      BY DEF Mounting, Closing, Still
    <3>3. QED
      BY <2>4, <3>1, <3>2 DEF Good
  <2>5. QED
    BY <2>3, <2>4
<1>3. QED
  BY <1>1, <1>2 DEF MountGood

\* When the others are still, it is enough to look at the caller that moves.
LEMMA GoodSettles ==
  ASSUME NEW c \in Callers, OthersStill(c)', HeldSound', Good(c)', InPlace'
  PROVE  MountGood'
<1>1. ASSUME NEW d \in Callers, OthersStill(d)' PROVE Good(d)'
  <2>1. CASE d # c
    <3>1. pc'[c] \in Still /\ pc'[d] \in Still
      BY <1>1, <2>1 DEF OthersStill
    <3>2. Sound(d)'
      BY <3>1 DEF Good, Sound, ControlSound, RegistrySound, OpenSound, Pending, Still
    <3>3. op'[d] = "init" => pc'[d] \in {"init", "lock"}
      BY <3>1 DEF InPlace, Placed, Still
    <3>4. Mounting(d)' /\ Closing(d)'
      BY <3>1, <3>3 DEF Mounting, Closing, Still
    <3>5. QED
      BY <3>2, <3>4 DEF Good
  <2>2. QED
    BY <2>1
<1>2. QED
  BY <1>1 DEF MountGood

\* A call that mounts nothing leaves the control, the registry and the open
\* appenders as they are.
LEMMA SoundStays ==
  ASSUME NEW c \in Callers, Sound(c), UNCHANGED mountVars,
         pc[c] \notin {"mount", "attach", "register", "collect", "shut"},
         pc'[c] \notin {"mount", "attach", "register", "collect", "shut"}
  PROVE  Sound(c)'
BY SameHeld DEF Sound, ControlSound, RegistrySound, OpenSound, Pending, Open

\* Calls begin.
LEMMA CallsGood ==
  ASSUME MountInv, NEW c \in Callers, Calls(c), OthersStill(c)
  PROVE  HeldSound' /\ Good(c)'
<1>1. UNCHANGED mountVars /\ pc[c] = "idle"
  BY DEF Calls, InitCall, SetLogLevelCall, SetWriteCall, FlushCall, CloseCall, Call
<1>2. HeldSound /\ Sound(c)
  BY DEF MountInv, MountGood, Good
<1>3. pc'[c] \in {"init", "level", "switch", "flush"} /\ op'[c] \in {"init", "level", "on", "off", "flush", "close"}
      /\ (op'[c] = "init" => pc'[c] = "init")
  <2>1. pc \in [Callers -> Places] /\ op \in [Callers -> {"none", "init", "level", "on", "off", "flush", "close"}]
    BY DEF MountInv, TypeInv, CallOK
  <2>2. QED
    BY <2>1 DEF Calls, InitCall, SetLogLevelCall, SetWriteCall, FlushCall, CloseCall, Call
<1>4. Sound(c)'
  BY <1>1, <1>2, <1>3, SoundStays
<1>5. pc'[c] = "switch" => new'[c].type # Console
  <2>1. new \in [Callers -> [type : Types, app : App \cup {NoApp}, ent : Nat]] /\ Console \notin Switches
    BY TypesAssumption DEF MountInv, TypeInv, CallOK
  <2>2. pc'[c] = "switch" => \E t \in Switches : new' = [new EXCEPT ![c].type = t]
    <3>1. pc \in [Callers -> Places]
      BY DEF MountInv, TypeInv, CallOK
    <3>2. QED
      BY <3>1 DEF Calls, InitCall, SetLogLevelCall, SetWriteCall, FlushCall, CloseCall, Call
  <2>3. QED
    BY <2>1, <2>2
<1>6. Mounting(c)' /\ Closing(c)'
  BY <1>3, <1>5 DEF Mounting, Closing
<1>7. QED
  BY <1>1, <1>2, <1>4, <1>6, SameSound DEF Good

LEMMA InitGood ==
  ASSUME MountInv, NEW c \in Callers, OthersStill(c),
         InitCheck(c) \/ InitLock(c) \/ InitPlan(c) \/ InitNext(c) \/ InitFinish(c) \/ LevelStep(c)
  PROVE  HeldSound' /\ Good(c)'
<1>1. UNCHANGED mountVars /\ UNCHANGED ents
  BY DEF InitCheck, InitLock, InitPlan, InitNext, InitFinish, LevelStep, StoreLevel, StoreMirror
<1>2. HeldSound /\ Sound(c) /\ Mounting(c) /\ TypeInv /\ Placed(op[c], pc[c])
  BY DEF MountInv, MountGood, Good, Orderly, InPlace
<1>3. /\ pc \in [Callers -> Places] /\ op \in [Callers -> {"none", "init", "level", "on", "off", "flush", "close"}]
      /\ todo \in [Callers -> SUBSET Types] /\ config.on \subseteq Switches \cup {Console}
      /\ new \in [Callers -> [type : Types, app : App \cup {NoApp}, ent : Nat]]
  BY DEF MountInv, TypeInv, CallOK, SettingsOK
<1>4. HeldSound' /\ Holding' = Holding
  BY <1>1, <1>2, SameSound, SameHeld
<1>5. ASSUME pc[c] \notin {"mount", "attach", "register", "collect", "shut"},
             pc'[c] \in {"idle", "lock", "console", "level", "mirror", "plan", "next", "create"},
             pc'[c] = "create" => new'[c].type # Console /\ Holding[new'[c].type] = {},
             op'[c] = "init" /\ pc'[c] \notin {"lock", "console"} => Console \notin todo'[c]
      PROVE  HeldSound' /\ Good(c)'
  <2>1. Sound(c)'
    BY <1>1, <1>2, <1>5, SoundStays
  <2>2. Mounting(c)' /\ Closing(c)'
    BY <1>4, <1>5 DEF Mounting, Closing
  <2>3. QED
    BY <1>4, <2>1, <2>2 DEF Good
<1>6. CASE InitCheck(c) \/ InitLock(c)
  <2>1. pc[c] \in {"init", "lock"} /\ ((pc'[c] = "idle" /\ op'[c] = "none") \/ pc'[c] \in {"lock", "console"})
    BY <1>3, <1>6 DEF InitCheck, InitLock, Goto, Return
  <2>2. QED
    BY <1>5, <2>1
<1>7. CASE InitPlan(c)
  <2>1. pc[c] = "plan" /\ pc'[c] = "next" /\ op'[c] = op[c] /\ todo'[c] = Planned \cup todo[c]
    BY <1>3, <1>7 DEF InitPlan, Goto
  <2>2. Console \notin todo[c]
    BY <1>2, <2>1 DEF Mounting, Placed
  <2>3. Console \notin Planned
    BY TypesAssumption DEF Planned
  <2>4. QED
    BY <1>5, <2>1, <2>2, <2>3
<1>8. CASE InitNext(c)
  <2>1. PICK t \in todo[c] : /\ todo' = [todo EXCEPT ![c] = @ \ {t}] /\ pc[c] = "next"
                             /\ \/ UNCHANGED <<op, pc, new>>
                                \/ ~HasAppender(t) /\ Goto(c, "create") /\ new' = [new EXCEPT ![c].type = t]
    BY <1>8 DEF InitNext
  <2>2. t \in Types /\ Console \notin todo[c]
    BY <1>2, <1>3, <2>1 DEF Mounting, Placed
  <2>3. ~HasAppender(t) => Holding[t] = {}
    BY <1>2, <2>2, MountedHeld DEF HasAppender, Sound
  <2>4. pc'[c] \in {"next", "create"} /\ op'[c] = op[c] /\ (pc'[c] = "create" => ~HasAppender(t) /\ new'[c].type = t)
    BY <1>3, <2>1, <2>2 DEF Goto
  <2>5. Console \notin todo'[c] /\ t # Console
    BY <1>3, <2>1, <2>2
  <2>6. QED
    BY <1>5, <2>1, <2>3, <2>4, <2>5
<1>9. CASE InitFinish(c)
  <2>1. pc[c] = "next" /\ pc'[c] = "idle" /\ op'[c] = "none"
    BY <1>3, <1>9 DEF InitFinish, Return
  <2>2. QED
    BY <1>5, <2>1
<1>10. CASE LevelStep(c)
  <2>1. /\ pc[c] \in {"level", "mirror"} /\ pc'[c] \in {"mirror", "plan", "idle"} /\ todo' = todo
        /\ op'[c] = "init" => op[c] = "init"
    BY <1>3, <1>10 DEF LevelStep, StoreLevel, StoreMirror, Goto, Return
  <2>2. QED
    BY <1>2, <1>5, <2>1 DEF Mounting
<1>11. QED
  BY <1>6, <1>7, <1>8, <1>9, <1>10

LEMMA SwitchGood ==
  ASSUME MountInv, NEW c \in Callers, OthersStill(c), SetWriteCheck(c)
  PROVE  HeldSound' /\ Good(c)'
<1>1. UNCHANGED mountVars /\ pc[c] = "switch" /\ todo' = todo
  BY DEF SetWriteCheck
<1>2. HeldSound /\ Sound(c) /\ Mounting(c) /\ TypeInv /\ Placed(op[c], pc[c])
  BY DEF MountInv, MountGood, Good, Orderly, InPlace
<1>3. /\ pc \in [Callers -> Places] /\ op \in [Callers -> {"none", "init", "level", "on", "off", "flush", "close"}]
      /\ new \in [Callers -> [type : Types, app : App \cup {NoApp}, ent : Nat]]
  BY <1>2 DEF TypeInv, CallOK
<1>4. HeldSound' /\ Holding' = Holding
  BY <1>1, <1>2, SameSound, SameHeld
<1>5. op[c] \in {"on", "off"}
  BY <1>1, <1>2 DEF Placed
<1>6. \/ pc'[c] = "idle" /\ op'[c] = "none"
      \/ pc'[c] = "create" /\ new' = new /\ op'[c] = op[c] /\ op[c] = "on" /\ ~Registered(new[c].type)
      \/ pc'[c] = "release" /\ new' = new /\ op'[c] = op[c]
  BY <1>3, <1>5 DEF SetWriteCheck, Return, Goto
<1>7. ~Registered(new[c].type) => Holding[new[c].type] = {}
  <2>1. ASSUME NEW a \in Holding[new[c].type] PROVE Registered(new[c].type)
    <3>1. a \in App /\ apps[a].type = new[c].type
      BY <1>2, HoldingType DEF HeldSound, HeldOpen
    <3>2. a \in registry
      BY <1>1, <1>2, <3>1 DEF Sound, RegistrySound, Pending
    <3>3. QED
      BY <3>1, <3>2 DEF Registered
  <2>2. QED
    BY <2>1
<1>8. Sound(c)'
  BY <1>1, <1>2, <1>6, SoundStays
<1>9. new[c].type # Console
  BY <1>1, <1>2 DEF Mounting
<1>10. Mounting(c)' /\ Closing(c)'
  BY <1>4, <1>5, <1>6, <1>7, <1>9 DEF Mounting, Closing
<1>11. QED
  BY <1>4, <1>8, <1>10 DEF Good

LEMMA CloseGood1 ==
  ASSUME MountInv, NEW c \in Callers, OthersStill(c),
         FlushLock(c) \/ FlushDone(c) \/ UnInitCheck(c) \/ UnInitLock(c)
  PROVE  HeldSound' /\ Good(c)'
<1>1. UNCHANGED mountVars
  BY DEF FlushLock, FlushDone, UnInitCheck, UnInitLock
<1>2. HeldSound /\ Sound(c) /\ Placed(op[c], pc[c])
  BY DEF MountInv, MountGood, Good, Orderly, InPlace
<1>3. pc \in [Callers -> Places] /\ op \in [Callers -> {"none", "init", "level", "on", "off", "flush", "close"}]
  BY DEF MountInv, TypeInv, CallOK
<1>4. /\ pc[c] \in {"flush", "flushing", "uninit", "close"} /\ op[c] # "init"
      /\ pc'[c] \in {"flushing", "uninit", "close", "exit", "idle"} /\ op'[c] \in {op[c], "none"}
  BY <1>2, <1>3 DEF FlushLock, FlushDone, UnInitCheck, UnInitLock, Goto, Return, Placed
<1>5. Sound(c)'
  BY <1>1, <1>2, <1>4, SoundStays
<1>6. Mounting(c)' /\ Closing(c)'
  BY <1>4 DEF Mounting, Closing
<1>7. QED
  BY <1>1, <1>2, <1>5, <1>6, SameSound DEF Good

LEMMA CloseGood2 ==
  ASSUME MountInv, NEW c \in Callers, UnInitCollect(c) \/ UnInitFinish(c), OthersStill(c)
  PROVE  HeldSound' /\ Good(c)'
<1>1. UNCHANGED mountVars
  BY DEF UnInitCollect, UnInitFinish
<1>2. HeldSound /\ Sound(c) /\ Closing(c) /\ Placed(op[c], pc[c])
  BY DEF MountInv, MountGood, Good, Orderly, InPlace
<1>3. /\ pc \in [Callers -> Places] /\ op \in [Callers -> {"none", "init", "level", "on", "off", "flush", "close"}]
      /\ ents \in [Callers -> SUBSET (Types \X Nat)]
  BY DEF MountInv, TypeInv, CallOK
<1>4. HeldSound'
  BY <1>1, <1>2, SameSound
<1>5. CASE UnInitCollect(c)
  <2>1. pc[c] = "collect" /\ pc'[c] = "shut" /\ op'[c] = op[c] /\ op[c] = "close" /\ ents'[c] = Entities
    BY <1>2, <1>3, <1>5 DEF UnInitCollect, Goto, Placed
  <2>2. Sound(c)'
    BY <1>1, <1>2, <2>1, SameHeld DEF Sound, ControlSound, RegistrySound, OpenSound, Pending, Open
  <2>3. /\ \A e \in Entities : e[2] = made[e[1]] /\ made[e[1]] # NoEntity
        /\ \A t \in Types : Holding[t] # {} => <<t, made[t]>> \in Entities
    BY DEF Entities, Holding
  <2>4. Closing(c)'
    BY <1>1, <1>2, <2>1, <2>3, SameHeld DEF Closing
  <2>5. Mounting(c)'
    BY <2>1 DEF Mounting
  <2>6. QED
    BY <1>4, <2>2, <2>4, <2>5 DEF Good
<1>6. CASE UnInitFinish(c)
  <2>1. pc[c] = "shut" /\ pc'[c] = "idle" /\ op'[c] = "none" /\ ents[c] = {}
    BY <1>3, <1>6 DEF UnInitFinish, Return
  <2>2. \A t \in Types : Holding[t] = {}
    BY <1>2, <2>1 DEF Closing
  <2>3. \A a \in App : apps[a].type \in Types
    BY HoldingType DEF MountInv
  <2>4. Sound(c)'
    BY <1>1, <1>2, <2>1, <2>2, <2>3, SameHeld DEF Sound, ControlSound, RegistrySound, OpenSound, Pending, Open
  <2>5. Mounting(c)' /\ Closing(c)'
    BY <2>1 DEF Mounting, Closing
  <2>6. QED
    BY <1>4, <2>4, <2>5 DEF Good
<1>7. QED
  BY <1>5, <1>6

-----------------------------------------------------------------------------
(* The console. *)

\* The factory holds no console, so closing the console closes nothing of it.
LEMMA ConsoleApart ==
  ASSUME TypeInv, HeldSound
  PROVE  \A t \in Types : consoleApp \notin Holding[t]
<1> SUFFICES ASSUME NEW t \in Types, consoleApp \in Holding[t] PROVE FALSE
  OBVIOUS
<1>1. consoleApp \in App /\ consoleApp # NoApp /\ apps[consoleApp].type = t
  BY HoldingType DEF HeldSound, HeldOpen
<1>2. t = Console
  BY <1>1 DEF HeldSound, ConsoleKept
<1>3. QED
  BY <1>2 DEF HeldSound, ConsoleKept

LEMMA ConsoleGood ==
  ASSUME MountInv, TypeInv', NEW c \in Callers, OthersStill(c), InitConsole(c) \/ UnInitConsole(c)
  PROVE  HeldSound' /\ Good(c)'
<1>1. /\ UNCHANGED <<entity, made, appenders, registry>> /\ pc[c] \in {"console", "exit"}
      /\ \/ InitConsole(c) /\ op[c] = "init" /\ op'[c] = "init" /\ pc'[c] = "level" /\ todo'[c] = todo[c] \ {Console}
         \/ UnInitConsole(c) /\ op[c] # "init" /\ op'[c] = op[c] /\ pc'[c] = "reset" /\ consoleApp' = NoApp
  <2>1. /\ pc \in [Callers -> Places] /\ op \in [Callers -> {"none", "init", "level", "on", "off", "flush", "close"}]
        /\ todo \in [Callers -> SUBSET Types] /\ Placed(op[c], pc[c])
    BY DEF MountInv, TypeInv, CallOK, Orderly, InPlace
  <2>2. QED
    BY <2>1 DEF InitConsole, UnInitConsole, Goto, Placed
<1>2. Holding' = Holding
  BY <1>1 DEF Holding
<1>3. HeldSound /\ Sound(c) /\ TypeInv
  BY DEF MountInv, MountGood, Good
<1>4. /\ \A a \in App : a \in App' /\ apps'[a].type = apps[a].type
      /\ \A a \in App : apps'[a].open <=> (Open(a) /\ a # consoleApp)
      /\ \A a \in App' \ App : a = consoleApp'
      /\ consoleApp' # NoApp => consoleApp' \notin App /\ apps'[consoleApp'] = [type |-> Console, open |-> TRUE]
  <2>0. /\ Closed({consoleApp}) \in Seq([type : Types, open : BOOLEAN]) /\ Len(Closed({consoleApp})) = Len(apps)
        /\ \A a \in App : Closed({consoleApp})[a].type = apps[a].type
        /\ \A a \in App : Closed({consoleApp})[a].open = (Open(a) /\ a \notin {consoleApp})
        /\ Len(apps) \in Nat
    BY <1>3, ClosedSeq, LenProperties DEF TypeInv, MountOK
  <2>1. PICK old \in Seq([type : Types, open : BOOLEAN]) : old = Closed({consoleApp})
    BY <2>0
  <2>2. Len(old) = Len(apps) /\ \A a \in App : old[a].type = apps[a].type /\ (old[a].open <=> (Open(a) /\ a # consoleApp))
    BY <2>0, <2>1
  <2>3. CASE apps' = old /\ consoleApp' = NoApp
    BY <2>2, <2>3 DEF App
  <2>4. CASE apps' = Append(old, [type |-> Console, open |-> TRUE]) /\ consoleApp' = Len(apps) + 1
    <3>1. [type |-> Console, open |-> TRUE] \in [type : Types, open : BOOLEAN]
      BY TypeFacts
    <3>2. Len(apps') = Len(apps) + 1 /\ apps'[Len(apps) + 1] = [type |-> Console, open |-> TRUE]
          /\ \A a \in 1..Len(apps) : apps'[a] = old[a]
      BY <2>2, <2>4, <3>1, NewApp
    <3>3. App' = App \cup {Len(apps) + 1} /\ Len(apps) + 1 \notin App
      BY <2>0, <3>2 DEF App
    <3>4. \A a \in App : apps'[a] = old[a]
      BY <3>2 DEF App
    <3>5. QED
      BY <2>2, <2>4, <3>2, <3>3, <3>4
  <2>5. QED
    BY <1>1, <2>1, <2>3, <2>4 DEF InitConsole, UnInitConsole
<1>5. \A t \in Types : consoleApp \notin Holding[t] /\ Holding[t] \subseteq App
  BY <1>3, ConsoleApart, HoldingType
<1>6. HeldSound'
  <2>1. OneEntity' /\ HeldOne'
    BY <1>1, <1>2, <1>3 DEF HeldSound, OneEntity, HeldOne
  <2>2. HeldOpen'
    BY <1>2, <1>3, <1>4, <1>5 DEF HeldSound, HeldOpen, Open
  <2>3. ConsoleKept'
    BY <1>2, <1>3, <1>4 DEF HeldSound, ConsoleKept, Open
  <2>4. QED
    BY <2>1, <2>2, <2>3 DEF HeldSound
<1>7. Sound(c)'
  <2>1. ControlSound(c)'
    BY <1>1, <1>3 DEF Sound, ControlSound
  <2>2. \A a \in App' \ App : a \notin registry /\ (apps'[a].type \in Types => a \notin Holding[apps'[a].type])
    BY <1>3, <1>5 DEF TypeInv, MountOK
  <2>3. \A a \in App' : apps'[a].type \in Types
    <3>1. apps' \in Seq([type : Types, open : BOOLEAN]) /\ App' = 1..Len(apps')
      BY DEF TypeInv, MountOK, App
    <3>2. \A a \in App' : apps'[a] \in [type : Types, open : BOOLEAN]
      BY <3>1, ElementOfSeq
    <3>3. QED
      BY <3>2
  <2>4. RegistrySound(c)'
    BY <1>1, <1>2, <1>3, <1>4, <2>2, <2>3 DEF Sound, RegistrySound, Pending
  <2>5. OpenSound(c)'
    BY <1>1, <1>2, <1>3, <1>4 DEF Sound, OpenSound, Pending, Open
  <2>6. QED
    BY <2>1, <2>4, <2>5 DEF Sound
<1>8. Mounting(c)' /\ Closing(c)'
  BY <1>1 DEF Mounting, Closing
<1>9. QED
  BY <1>6, <1>7, <1>8 DEF Good

LEMMA ResetGood ==
  ASSUME MountInv, NEW c \in Callers, OthersStill(c), UnInitReset(c)
  PROVE  HeldSound' /\ Good(c)'
<1>1. /\ UNCHANGED <<consoleApp, entity, made, appenders, apps>> /\ registry' = {}
      /\ pc[c] = "reset" /\ pc'[c] = "collect" /\ op[c] = "close" /\ op'[c] = "close"
  <2>1. /\ pc \in [Callers -> Places] /\ op \in [Callers -> {"none", "init", "level", "on", "off", "flush", "close"}]
        /\ Placed(op[c], pc[c])
    BY DEF MountInv, TypeInv, CallOK, Orderly, InPlace
  <2>2. QED
    BY <2>1 DEF UnInitReset, Goto, Placed
<1>2. Holding' = Holding /\ App' = App
  BY <1>1 DEF Holding, App
<1>3. HeldSound /\ Sound(c) /\ Closing(c)
  BY DEF MountInv, MountGood, Good
<1>4. HeldSound'
  BY <1>1, <1>2, <1>3 DEF HeldSound, OneEntity, HeldOpen, HeldOne, ConsoleKept, Open
<1>5. Sound(c)'
  BY <1>1, <1>2, <1>3 DEF Sound, ControlSound, RegistrySound, OpenSound, Pending, Open
<1>6. Mounting(c)' /\ Closing(c)'
  BY <1>1, <1>3 DEF Mounting, Closing
<1>7. QED
  BY <1>4, <1>5, <1>6 DEF Good

-----------------------------------------------------------------------------
(* AddAppender. *)

MakesEntity(t, n) ==
  /\ \A u \in Types \ {t} : made'[u] = made[u] /\ appenders'[u] = appenders[u]
  /\ made'[t] = n /\ n # NoEntity
  /\ \/ made[t] = n /\ appenders' = appenders
     \/ /\ made[t] = NoEntity /\ appenders'[t][n] = {} /\ DOMAIN appenders'[t] = DOMAIN appenders[t] \cup {n}
        /\ \A m \in DOMAIN appenders[t] : appenders'[t][m] = appenders[t][m] /\ m # NoEntity

\* CreateEntity makes an entity that holds nothing, or finds the one there is.
LEMMA CreateHeld ==
  ASSUME TypeInv, NEW c \in Callers, CreateEntity(c), NEW t \in Types, t = new[c].type, Holding[t] = {},
         NEW n \in Nat, n = IF made[t] = NoEntity THEN Len(appenders[t]) + 1 ELSE made[t]
  PROVE  MakesEntity(t, n) /\ Holding' = Holding
<1>1. /\ made' = [made EXCEPT ![t] = n]
      /\ appenders' = IF n \in DOMAIN appenders[t] THEN appenders ELSE [appenders EXCEPT ![t] = Append(@, {})]
  BY DEF CreateEntity
<1>2. MakesEntity(t, n)
  <2>1. /\ appenders \in [Types -> Seq(SUBSET App)] /\ made \in [Types -> Nat]
        /\ made[t] \in DOMAIN appenders[t] \cup {NoEntity}
    BY DEF TypeInv, MountOK
  <2>2. appenders[t] \in Seq(SUBSET App)
    BY <2>1
  <2>3. DOMAIN appenders[t] = 1..Len(appenders[t]) /\ Len(appenders[t]) \in Nat
    BY <2>2, LenProperties
  <2>4. CASE made[t] = NoEntity
    <3>1. n = Len(appenders[t]) + 1 /\ n \notin DOMAIN appenders[t] /\ n # NoEntity
      BY <2>3, <2>4 DEF NoEntity
    <3>2. appenders' = [appenders EXCEPT ![t] = Append(@, {})]
      BY <1>1, <3>1
    <3>3. {} \in SUBSET App
      OBVIOUS
    <3>4. /\ DOMAIN appenders'[t] = 1..(Len(appenders[t]) + 1)
          /\ appenders'[t][Len(appenders[t]) + 1] = {}
          /\ \A m \in DOMAIN appenders[t] : appenders'[t][m] = appenders[t][m]
          /\ \A u \in Types \ {t} : appenders'[u] = appenders[u]
      BY <2>1, <3>2, <3>3, PutNew
    <3>5. 1..(Len(appenders[t]) + 1) = 1..Len(appenders[t]) \cup {Len(appenders[t]) + 1}
          /\ \A m \in 1..Len(appenders[t]) : m # NoEntity
      BY <2>3 DEF NoEntity
    <3>6. made'[t] = n /\ \A u \in Types \ {t} : made'[u] = made[u]
      BY <1>1, <2>1
    <3>7. QED
      BY <2>3, <2>4, <3>1, <3>4, <3>5, <3>6 DEF MakesEntity
  <2>5. CASE made[t] # NoEntity
    <3>1. n = made[t] /\ n \in DOMAIN appenders[t]
      BY <2>1, <2>5
    <3>2. QED
      BY <1>1, <2>1, <2>5, <3>1 DEF MakesEntity
  <2>6. QED
    BY <2>4, <2>5 DEF MakesEntity
<1>3. Holding' = Holding
  <2>1. \A u \in Types \ {t} : Holding'[u] = Holding[u]
    BY <1>2 DEF Holding, MakesEntity
  <2>2. Holding'[t] = {}
    BY <1>2 DEF Holding, MakesEntity
  <2>3. \A u \in Types : Holding'[u] = Holding[u]
    BY <2>1, <2>2
  <2>4. Holding' = [u \in Types |-> Holding'[u]] /\ Holding = [u \in Types |-> Holding[u]]
    BY DEF Holding
  <2>5. QED
    BY <2>3, <2>4
<1>4. QED
  BY <1>2, <1>3

LEMMA CreateGood ==
  ASSUME MountInv, TypeInv', NEW c \in Callers, OthersStill(c), CreateEntity(c)
  PROVE  HeldSound' /\ Good(c)'
<1>0. PICK t \in Types : t = new[c].type
  BY HoldingType DEF MountInv
<1>1. PICK n \in Nat : n = IF made[t] = NoEntity THEN Len(appenders[t]) + 1 ELSE made[t]
  BY LenProperties DEF MountInv, TypeInv, MountOK
<1>2. PICK k : k = Len(apps) + 1
  OBVIOUS
<1>3. /\ apps' = Append(apps, [type |-> t, open |-> TRUE])
      /\ made' = [made EXCEPT ![t] = n]
      /\ appenders' = IF n \in DOMAIN appenders[t] THEN appenders ELSE [appenders EXCEPT ![t] = Append(@, {})]
      /\ new' = [new EXCEPT ![c] = [type |-> t, app |-> k, ent |-> n]]
      /\ pc' = [pc EXCEPT ![c] = "mount"] /\ op' = op /\ pc[c] = "create"
      /\ UNCHANGED <<consoleApp, entity, registry, todo>>
  BY <1>0, <1>1, <1>2 DEF CreateEntity, Created, Goto
<1>4. HeldSound /\ Sound(c) /\ Mounting(c) /\ TypeInv
  BY DEF MountInv, MountGood, Good
<1>5. /\ App' = App \cup {k} /\ k \notin App /\ apps'[k] = [type |-> t, open |-> TRUE]
      /\ \A a \in App : apps'[a] = apps[a]
  <2>1. apps \in Seq([type : Types, open : BOOLEAN]) /\ Len(apps) \in Nat
    BY <1>4, LenProperties DEF TypeInv, MountOK
  <2>2. [type |-> t, open |-> TRUE] \in [type : Types, open : BOOLEAN]
    OBVIOUS
  <2>3. Len(apps') = Len(apps) + 1 /\ apps'[Len(apps) + 1] = [type |-> t, open |-> TRUE] /\ \A a \in 1..Len(apps) : apps'[a] = apps[a]
    BY <1>3, <2>1, <2>2, NewApp
  <2>4. QED
    BY <1>2, <2>1, <2>3 DEF App
<1>6a. Holding[t] = {}
  BY <1>0, <1>3, <1>4 DEF Mounting
<1>6. MakesEntity(t, n)
  BY <1>0, <1>1, <1>4, <1>6a, CreateHeld
<1>7. Holding' = Holding /\ Holding[t] = {}
  BY <1>0, <1>1, <1>4, <1>6a, CreateHeld
<1>8. OneEntity'
  BY <1>4, <1>6 DEF HeldSound, OneEntity, MakesEntity
<1>9. \A u \in Types : Holding[u] \subseteq App
  BY <1>4, HoldingType
<1>10. HeldSound'
  <2>1. HeldOpen' /\ HeldOne'
    BY <1>4, <1>5, <1>7, <1>9 DEF HeldSound, HeldOpen, HeldOne, Open
  <2>2. consoleApp \in App \cup {NoApp}
    BY <1>4 DEF TypeInv, MountOK
  <2>3. ConsoleKept'
    BY <1>3, <1>4, <1>5, <1>7, <2>2 DEF HeldSound, ConsoleKept, Open
  <2>4. QED
    BY <1>8, <2>1, <2>3 DEF HeldSound
<1>11. pc'[c] = "mount" /\ new'[c] = [type |-> t, app |-> k, ent |-> n]
  BY <1>3, <1>4 DEF TypeInv, CallOK
<1>12. UNCHANGED <<consoleApp, entity, registry, todo>> /\ pc[c] = "create" /\ op' = op
  BY <1>3
<1>13. Sound(c)'
  <2>1. ControlSound(c)'
    BY <1>3, <1>4, <1>6, <1>11 DEF Sound, ControlSound, MakesEntity
  <2>2. registry \subseteq App /\ \A a \in App : apps[a].type \in Types
    BY <1>4, HoldingType DEF TypeInv, MountOK
  <2>3. RegistrySound(c)'
    <3>1. \A a \in App : a \in registry <=> a \in Holding[apps[a].type]
      BY <1>4, <1>12 DEF Sound, RegistrySound, Pending
    <3>2. Pending(c)' = {k}
      BY <1>11 DEF Pending
    <3>3. ASSUME NEW a \in App' PROVE a \in registry' <=> a \in Holding'[apps'[a].type] /\ a # k
      <4>1. CASE a \in App
        BY <1>5, <1>7, <1>12, <3>1, <4>1
      <4>2. CASE a = k
        BY <1>5, <1>12, <2>2, <4>2
      <4>3. QED
        BY <1>5, <4>1, <4>2
    <3>4. QED
      BY <1>11, <3>2, <3>3 DEF RegistrySound
  <2>4. OpenSound(c)'
    <3>1. \A a \in App : apps[a].open => a = consoleApp \/ a \in Holding[apps[a].type]
      BY <1>4, <1>12 DEF Sound, OpenSound, Pending, Open
    <3>2. Pending(c)' = {k}
      BY <1>11 DEF Pending
    <3>3. QED
      BY <1>5, <1>7, <1>12, <3>1, <3>2 DEF OpenSound, Open
  <2>5. QED
    BY <2>1, <2>3, <2>4 DEF Sound
<1>14. Mounting(c)'
  <2>1. t # Console
    BY <1>0, <1>4, <1>12 DEF Mounting
  <2>2. op'[c] = "init" => Console \notin todo'[c]
    BY <1>4, <1>12 DEF Mounting
  <2>3. apps'[k].type = t /\ Open(k)'
    BY <1>5 DEF Open
  <2>4. QED
    BY <1>6, <1>7, <1>11, <2>1, <2>2, <2>3 DEF Mounting, MakesEntity
<1>15. Closing(c)'
  BY <1>11 DEF Closing
<1>16. QED
  BY <1>10, <1>13, <1>14, <1>15 DEF Good

LEMMA MountStepGood ==
  ASSUME MountInv, NEW c \in Callers, OthersStill(c), Mount(c)
  PROVE  HeldSound' /\ Good(c)'
<1>0. PICK t \in Types : t = new[c].type
  BY HoldingType DEF MountInv
<1>1. HeldSound /\ Sound(c) /\ Mounting(c) /\ TypeInv
  BY DEF MountInv, MountGood, Good
<1>2. /\ entity' = [entity EXCEPT ![t] = new[c].ent] /\ pc[c] = "mount"
      /\ pc' = [pc EXCEPT ![c] = "attach"] /\ op' = op
      /\ UNCHANGED <<consoleApp, made, appenders, apps, registry, new, todo>>
  BY <1>0 DEF Mount, Goto
<1>3. pc'[c] = "attach"
  BY <1>1, <1>2 DEF TypeInv, CallOK
<1>4. Holding' = Holding /\ App' = App
  BY <1>2 DEF Holding, App
<1>5. HeldSound'
  BY <1>1, <1>2, <1>4 DEF HeldSound, OneEntity, HeldOpen, HeldOne, ConsoleKept, Open
<1>6. ControlSound(c)'
  <2>1. entity \in [Types -> Nat] /\ new[c].ent = made[t]
    BY <1>0, <1>1, <1>2 DEF TypeInv, MountOK, Mounting
  <2>2. \A u \in Types : entity'[u] = IF u = t THEN made[t] ELSE entity[u]
    BY <1>2, <2>1
  <2>3. QED
    BY <1>0, <1>1, <1>2, <2>2 DEF Sound, ControlSound
<1>7. RegistrySound(c)' /\ OpenSound(c)'
  BY <1>1, <1>2, <1>3, <1>4 DEF Sound, RegistrySound, OpenSound, Pending, Open
<1>8. Mounting(c)' /\ Closing(c)'
  BY <1>1, <1>2, <1>3, <1>4 DEF Mounting, Closing, Open
<1>9. QED
  BY <1>5, <1>6, <1>7, <1>8 DEF Good, Sound

HoldsOnly(t, n, a) ==
  /\ \A u \in Types : DOMAIN appenders'[u] = DOMAIN appenders[u]
  /\ \A u \in Types : \A m \in DOMAIN appenders[u] :
       appenders'[u][m] = IF u = t /\ m = n THEN {a} ELSE appenders[u][m]
HoldingSet(t, S) == \A u \in Types : Holding'[u] = IF u = t THEN S ELSE Holding[u]

\* Attach gives the entity its appender.
LEMMA AttachHeld ==
  ASSUME TypeInv, NEW c \in Callers, Attach(c), NEW t \in Types, t = new[c].type, NEW a \in App, a = new[c].app,
         NEW n \in DOMAIN appenders[t], n = made[t], new[c].ent = n, n # NoEntity, appenders[t][n] = {}
  PROVE  HoldsOnly(t, n, a) /\ HoldingSet(t, {a})
<1>1. appenders' = [appenders EXCEPT ![t][n] = {a}] /\ made' = made
  BY DEF Attach
<1>2. HoldsOnly(t, n, a)
  <2>1. appenders \in [Types -> Seq(SUBSET App)] /\ {a} \in SUBSET App
    BY DEF TypeInv, MountOK
  <2>2. QED
    BY <1>1, <2>1, PutIn DEF HoldsOnly
<1>3. HoldingSet(t, {a})
  <2>1. \A u \in Types : made[u] \in DOMAIN appenders[u] \cup {NoEntity}
    BY DEF TypeInv, MountOK
  <2>2. \A u \in Types : Holding'[u] = IF made[u] = NoEntity THEN {} ELSE appenders'[u][made[u]]
    BY <1>1 DEF Holding
  <2>3. \A u \in Types : Holding[u] = IF made[u] = NoEntity THEN {} ELSE appenders[u][made[u]]
    BY DEF Holding
  <2>4. Holding'[t] = {a}
    BY <1>2, <2>2 DEF HoldsOnly
  <2>5. ASSUME NEW u \in Types \ {t} PROVE Holding'[u] = Holding[u]
    BY <1>2, <2>1, <2>2, <2>3 DEF HoldsOnly
  <2>6. QED
    BY <2>4, <2>5 DEF HoldingSet
<1>4. QED
  BY <1>2, <1>3

LEMMA AttachGood ==
  ASSUME MountInv, NEW c \in Callers, OthersStill(c), Attach(c)
  PROVE  HeldSound' /\ Good(c)'
<1>0. PICK t \in Types, a \in App : t = new[c].type /\ a = new[c].app
  BY HoldingType DEF MountInv, Attach
<1>1. HeldSound /\ Sound(c) /\ Mounting(c) /\ TypeInv
  BY DEF MountInv, MountGood, Good
<1>2. PICK n \in DOMAIN appenders[t] : n = made[t] /\ new[c].ent = n /\ n # NoEntity
  BY <1>0, <1>1 DEF Attach, Mounting, TypeInv, NewMade
<1>3. appenders[t][n] = {}
  BY <1>0, <1>1, <1>2 DEF Attach, Mounting, Holding
<1>4. /\ appenders' = [appenders EXCEPT ![t][n] = {a}] /\ pc[c] = "attach"
      /\ pc' = [pc EXCEPT ![c] = "register"] /\ op' = op
      /\ UNCHANGED <<consoleApp, entity, made, apps, registry, new, todo>>
  BY <1>0, <1>2, <1>3 DEF Attach, Goto
<1>5. pc'[c] = "register" /\ App' = App
  BY <1>1, <1>4 DEF TypeInv, CallOK, App
<1>6. HoldsOnly(t, n, a)
  BY <1>0, <1>1, <1>2, <1>3, AttachHeld
<1>7. HoldingSet(t, {a})
  BY <1>0, <1>1, <1>2, <1>3, AttachHeld
<1>8. apps[a].type = t /\ Open(a) /\ t # Console /\ Holding[t] = {}
  BY <1>0, <1>1, <1>4 DEF Mounting
<1>9. HeldSound'
  <2>1. OneEntity'
    BY <1>1, <1>2, <1>4, <1>6 DEF HeldSound, OneEntity, HoldsOnly
  <2>2. HeldOpen' /\ HeldOne'
    BY <1>1, <1>4, <1>5, <1>7, <1>8 DEF HeldSound, HeldOpen, HeldOne, Open, HoldingSet
  <2>3. ConsoleKept'
    BY <1>1, <1>4, <1>7, <1>8, TypeFacts DEF HeldSound, ConsoleKept, Open, HoldingSet
  <2>4. QED
    BY <2>1, <2>2, <2>3 DEF HeldSound
<1>10. \A b \in App : apps[b].type \in Types
  BY <1>1, HoldingType
<1>11. ControlSound(c)'
  BY <1>1, <1>4, <1>5 DEF Sound, ControlSound
<1>12. RegistrySound(c)'
  BY <1>0, <1>1, <1>4, <1>5, <1>7, <1>8, <1>10 DEF Sound, RegistrySound, Pending, HoldingSet
<1>13. OpenSound(c)'
  BY <1>0, <1>1, <1>4, <1>5, <1>7, <1>8, <1>10 DEF Sound, OpenSound, Pending, Open, HoldingSet
<1>14. Mounting(c)' /\ Closing(c)'
  BY <1>0, <1>1, <1>4, <1>5, <1>7, <1>8 DEF Mounting, Closing, Open, HoldingSet
<1>15. QED
  BY <1>9, <1>11, <1>12, <1>13, <1>14 DEF Good, Sound

LEMMA RegisterGood ==
  ASSUME MountInv, NEW c \in Callers, OthersStill(c), Register(c)
  PROVE  HeldSound' /\ Good(c)'
<1>0. PICK t \in Types, a \in App : t = new[c].type /\ a = new[c].app
  BY HoldingType DEF MountInv, Register
<1>1. HeldSound /\ Sound(c) /\ Mounting(c) /\ TypeInv /\ Placed(op[c], pc[c])
  BY DEF MountInv, MountGood, Good, Orderly, InPlace
<1>2. /\ registry' = registry \cup {a} /\ pc[c] = "register"
      /\ UNCHANGED <<consoleApp, entity, made, appenders, apps, todo>>
      /\ \/ pc'[c] = "next" /\ op'[c] = op[c] /\ op[c] = "init"
         \/ pc'[c] = "idle" /\ op'[c] = "none"
  <2>1. pc \in [Callers -> Places] /\ op \in [Callers -> {"none", "init", "level", "on", "off", "flush", "close"}]
    BY <1>1 DEF TypeInv, CallOK
  <2>2. QED
    BY <1>0, <2>1 DEF Register, Goto, Return
<1>3. Holding' = Holding /\ App' = App
  BY <1>2 DEF Holding, App
<1>4. HeldSound'
  BY <1>1, <1>2, <1>3 DEF HeldSound, OneEntity, HeldOpen, HeldOne, ConsoleKept, Open
<1>5. a \in Holding[t] /\ apps[a].type = t
  BY <1>0, <1>1, <1>2 DEF Mounting
<1>6. Sound(c)'
  BY <1>0, <1>1, <1>2, <1>3, <1>5 DEF Sound, ControlSound, RegistrySound, OpenSound, Pending, Open
<1>7. Mounting(c)' /\ Closing(c)'
  BY <1>1, <1>2 DEF Mounting, Closing
<1>8. QED
  BY <1>4, <1>6, <1>7 DEF Good

-----------------------------------------------------------------------------
(* Entities are shut down, by a switch or by Close. *)

LEMMA ShutHeld ==
  ASSUME TypeInv, HeldSound, NEW t \in Types, made[t] # NoEntity, ShutEntity(t, made[t]),
         made' = made \/ made' = [made EXCEPT ![t] = NoEntity],
         consoleApp' = consoleApp, t # Console \/ Holding[t] = {}
  PROVE  /\ HeldSound' /\ App' = App
         /\ \A u \in Types : Holding'[u] = IF u = t THEN {} ELSE Holding[u]
         /\ \A a \in App : apps'[a].type = apps[a].type /\ (apps'[a].open <=> (Open(a) /\ a \notin Holding[t]))
         /\ registry' = registry \ Holding[t]
<1>1. PICK n \in DOMAIN appenders[t] : n = made[t] /\ n # NoEntity
  BY DEF TypeInv, MountOK
<1>2. appenders[t][n] = Holding[t]
  BY <1>1 DEF Holding
<1>3. /\ apps' = Closed(Holding[t]) /\ registry' = registry \ Holding[t]
      /\ appenders' = [appenders EXCEPT ![t][n] = {}]
  BY <1>1, <1>2 DEF ShutEntity
<1>4. /\ App' = App
      /\ \A a \in App : apps'[a].type = apps[a].type /\ (apps'[a].open <=> (Open(a) /\ a \notin Holding[t]))
  <2>1. /\ Len(Closed(Holding[t])) = Len(apps)
        /\ \A a \in App : Closed(Holding[t])[a].type = apps[a].type
        /\ \A a \in App : Closed(Holding[t])[a].open = (Open(a) /\ a \notin Holding[t])
    BY ClosedSeq DEF TypeInv
  <2>2. QED
    BY <1>3, <2>1 DEF App
<1>5. /\ \A u \in Types : DOMAIN appenders'[u] = DOMAIN appenders[u]
      /\ \A u \in Types : \A m \in DOMAIN appenders[u] :
           appenders'[u][m] = IF u = t /\ m = n THEN {} ELSE appenders[u][m]
  <2>1. appenders \in [Types -> Seq(SUBSET App)] /\ {} \in SUBSET App
    BY DEF TypeInv, MountOK
  <2>2. QED
    BY <1>3, <2>1, PutIn
<1>6. made \in [Types -> Nat] /\ \A u \in Types : made[u] \in DOMAIN appenders[u] \cup {NoEntity}
  BY DEF TypeInv, MountOK
<1>7. made'[t] \in {n, NoEntity} /\ \A u \in Types \ {t} : made'[u] = made[u]
  BY <1>1, <1>6
<1>8. \A u \in Types : Holding'[u] = IF u = t THEN {} ELSE Holding[u]
  <2>1. \A u \in Types : Holding'[u] = IF made'[u] = NoEntity THEN {} ELSE appenders'[u][made'[u]]
    BY DEF Holding
  <2>2. Holding'[t] = {}
    BY <1>1, <1>5, <1>7, <2>1
  <2>3. ASSUME NEW u \in Types \ {t} PROVE Holding'[u] = Holding[u]
    BY <1>5, <1>6, <1>7, <2>1 DEF Holding
  <2>4. QED
    BY <2>2, <2>3
<1>9. OneEntity'
  <2>1. ASSUME NEW u \in Types, NEW m \in DOMAIN appenders'[u], m # made'[u] PROVE appenders'[u][m] = {}
    <3>1. CASE u = t /\ m = n
      BY <1>5, <3>1
    <3>2. CASE ~(u = t /\ m = n)
      <4>1. m \in DOMAIN appenders[u] /\ m # made[u]
        BY <1>1, <1>5, <1>7, <2>1, <3>2
      <4>2. appenders[u][m] = {}
        BY <4>1 DEF HeldSound, OneEntity
      <4>3. QED
        BY <1>5, <3>2, <4>1, <4>2
    <3>3. QED
      BY <3>1, <3>2
  <2>2. QED
    BY <2>1 DEF OneEntity
<1>10. HeldOpen' /\ HeldOne'
  BY <1>4, <1>8 DEF HeldSound, HeldOpen, HeldOne, Open
<1>11. ConsoleKept'
  <2>1. consoleApp # NoApp => consoleApp \in App
    BY DEF TypeInv, MountOK
  <2>2. consoleApp \notin Holding[t]
    BY ConsoleApart
  <2>3. QED
    BY <1>4, <1>8, <2>1, <2>2, TypeFacts DEF HeldSound, ConsoleKept, Open
<1>12. QED
  BY <1>3, <1>4, <1>8, <1>9, <1>10, <1>11 DEF HeldSound

LEMMA ReleaseGood ==
  ASSUME MountInv, NEW c \in Callers, OthersStill(c), Release(c)
  PROVE  HeldSound' /\ Good(c)'
<1>0. PICK t \in Types : t = new[c].type
  BY HoldingType DEF MountInv
<1>1. HeldSound /\ Sound(c) /\ Mounting(c) /\ TypeInv
  BY DEF MountInv, MountGood, Good
<1>2. pc[c] = "release" /\ pc'[c] = "idle" /\ op'[c] = "none" /\ consoleApp' = consoleApp /\ entity' = entity /\ t # Console
  BY <1>0, <1>1 DEF Release, Return, TypeInv, CallOK, Mounting
<1>3. Mounting(c)' /\ Closing(c)'
  BY <1>2 DEF Mounting, Closing
<1>4. CASE made[t] = NoEntity
  <2>1. UNCHANGED mountVars
    BY <1>0, <1>4 DEF Release, mountVars
  <2>2. QED
    BY <1>1, <1>2, <1>3, <2>1, SameSound, SoundStays DEF Good
<1>5. CASE made[t] # NoEntity
  <2>1. ShutEntity(t, made[t]) /\ made' = [made EXCEPT ![t] = NoEntity]
    BY <1>0, <1>5 DEF Release
  <2>2. /\ HeldSound' /\ App' = App
        /\ \A u \in Types : Holding'[u] = IF u = t THEN {} ELSE Holding[u]
        /\ \A a \in App : apps'[a].type = apps[a].type /\ (apps'[a].open <=> (Open(a) /\ a \notin Holding[t]))
        /\ registry' = registry \ Holding[t]
    BY <1>1, <1>2, <1>5, <2>1, ShutHeld
  <2>3. ControlSound(c)'
    <3>1. made'[t] = NoEntity /\ \A u \in Types \ {t} : made'[u] = made[u]
      BY <1>1, <2>1 DEF TypeInv, MountOK
    <3>2. \A u \in Types : made[u] = NoEntity \/ entity[u] = made[u]
      BY <1>1, <1>2 DEF Sound, ControlSound
    <3>3. QED
      BY <1>2, <3>1, <3>2 DEF ControlSound
  <2>4. \A a \in App : apps[a].type \in Types
    BY <1>1, HoldingType
  <2>5. RegistrySound(c)'
    <3>1. \A a \in App : a \in registry <=> a \in Holding[apps[a].type]
      BY <1>1, <1>2 DEF Sound, RegistrySound, Pending
    <3>2. \A a \in Holding[t] : apps[a].type = t
      BY <1>1 DEF HeldSound, HeldOpen
    <3>3. QED
      BY <1>2, <2>2, <2>4, <3>1, <3>2 DEF RegistrySound, Pending
  <2>6. OpenSound(c)'
    <3>1. \A a \in App : Open(a) => a = consoleApp \/ a \in Holding[apps[a].type]
      BY <1>1, <1>2 DEF Sound, OpenSound, Pending
    <3>2. QED
      BY <1>2, <2>2, <2>4, <3>1 DEF OpenSound, Pending, Open
  <2>7. QED
    BY <1>3, <2>2, <2>3, <2>5, <2>6 DEF Good, Sound
<1>6. QED
  BY <1>4, <1>5

LEMMA EntityGood ==
  ASSUME MountInv, NEW c \in Callers, OthersStill(c), UnInitEntity(c)
  PROVE  HeldSound' /\ Good(c)'
<1>1. HeldSound /\ Sound(c) /\ Closing(c) /\ TypeInv /\ Placed(op[c], pc[c])
  BY DEF MountInv, MountGood, Good, Orderly, InPlace
<1>2. pc[c] = "shut" /\ UNCHANGED <<consoleApp, entity, made, op, pc>>
  BY DEF UnInitEntity
<1>3. PICK e \in ents[c] : ShutEntity(e[1], e[2]) /\ ents' = [ents EXCEPT ![c] = @ \ {e}]
  BY DEF UnInitEntity
<1>4. ents \in [Callers -> SUBSET (Types \X Nat)]
  BY <1>1 DEF TypeInv, CallOK
<1>5. e \in Types \X Nat /\ e[2] = made[e[1]] /\ made[e[1]] # NoEntity
  BY <1>1, <1>2, <1>3, <1>4 DEF Closing
<1>6. PICK t \in Types : t = e[1] /\ e = <<t, made[t]>> /\ made[t] # NoEntity
  BY <1>5
<1>7. t # Console \/ Holding[t] = {}
  BY <1>1 DEF HeldSound, ConsoleKept
<1>8. /\ HeldSound' /\ App' = App
      /\ \A u \in Types : Holding'[u] = IF u = t THEN {} ELSE Holding[u]
      /\ \A a \in App : apps'[a].type = apps[a].type /\ (apps'[a].open <=> (Open(a) /\ a \notin Holding[t]))
      /\ registry' = registry \ Holding[t]
  <2>1. ShutEntity(t, made[t])
    BY <1>3, <1>5, <1>6
  <2>2. QED
    BY <1>1, <1>2, <1>6, <1>7, <2>1, ShutHeld
<1>9. \A a \in App : apps[a].type \in Types
  BY <1>1, HoldingType
<1>10. ControlSound(c)'
  BY <1>1, <1>2 DEF Sound, ControlSound
<1>11. RegistrySound(c)'
  BY <1>1, <1>2, <1>8 DEF Sound, RegistrySound
<1>12. OpenSound(c)'
  <2>1. \A a \in App : Open(a) => a = consoleApp \/ a \in Holding[apps[a].type]
    BY <1>1, <1>2 DEF Sound, OpenSound, Pending
  <2>2. QED
    BY <1>2, <1>8, <1>9, <2>1 DEF OpenSound, Pending, Open
<1>13. Closing(c)'
  <2>1. ents'[c] = ents[c] \ {<<t, made[t]>>}
    BY <1>3, <1>4, <1>6
  <2>2. \A u \in Types : Holding'[u] # {} => u # t /\ Holding[u] # {}
    BY <1>8
  <2>3. \A u \in Types : u # t => <<u, made[u]>> # <<t, made[t]>>
    OBVIOUS
  <2>4. QED
    BY <1>1, <1>2, <2>1, <2>2, <2>3 DEF Closing
<1>14. Mounting(c)'
  BY <1>1, <1>2 DEF Mounting, Placed
<1>15. QED
  BY <1>8, <1>10, <1>11, <1>12, <1>13, <1>14 DEF Good, Sound

-----------------------------------------------------------------------------
(* The invariant is kept. *)

LEMMA CallerGood ==
  ASSUME MountInv, TypeInv', NEW c \in Callers, OthersStill(c), Calls(c) \/ CallerStep(c)
  PROVE  HeldSound' /\ Good(c)'
BY CallsGood, InitGood, SwitchGood, CloseGood1, CloseGood2, ConsoleGood, ResetGood,
   CreateGood, MountStepGood, AttachGood, RegisterGood, ReleaseGood, EntityGood
   DEF CallerStep, InitStep, MountStep, SwitchStep, CloseStep

\* A caller that is still, and stays it, changes nothing that is mounted.
LEMMA StillStep ==
  ASSUME TypeInv, NEW c \in Callers, pc[c] \in Still, Calls(c) \/ CallerStep(c)
  PROVE  /\ UNCHANGED mountVars
         /\ \A d \in Callers \ {c} : new'[d] = new[d] /\ todo'[d] = todo[d] /\ ents'[d] = ents[d]
<1>1. /\ new \in [Callers -> [type : Types, app : App \cup {NoApp}, ent : Nat]]
      /\ todo \in [Callers -> SUBSET Types]
  BY DEF TypeInv, CallOK
<1>2. CASE Calls(c)
  BY <1>1, <1>2 DEF Calls, InitCall, SetLogLevelCall, SetWriteCall, FlushCall, CloseCall, Call
<1>3. CASE InitStep(c)
  <2>1. InitCheck(c) \/ InitLock(c)
    BY <1>3 DEF InitStep, InitConsole, InitPlan, InitNext, InitFinish, Still
  <2>2. QED
    BY <1>1, <2>1 DEF InitCheck, InitLock
<1>4. CASE CloseStep(c)
  <2>1. FlushLock(c) \/ FlushDone(c) \/ UnInitCheck(c) \/ UnInitLock(c)
    BY <1>4 DEF CloseStep, UnInitConsole, UnInitReset, UnInitCollect, UnInitEntity, UnInitFinish, Still
  <2>2. QED
    BY <1>1, <2>1 DEF FlushLock, FlushDone, UnInitCheck, UnInitLock
<1>5. ~MountStep(c) /\ ~LevelStep(c) /\ ~SwitchStep(c)
  BY DEF MountStep, CreateEntity, Mount, Attach, Register, LevelStep, StoreLevel, StoreMirror,
         SwitchStep, SetWriteCheck, Release, Still
<1>6. QED
  BY <1>2, <1>3, <1>4, <1>5 DEF CallerStep

LEMMA CallerInv ==
  ASSUME OrderlyUse, MountInv, TypeInv', NEW c \in Callers, Calls(c) \/ CallerStep(c)
  PROVE  MountInv'
<1>1. TypeInv /\ Orderly /\ MountGood /\ InPlace
  BY DEF MountInv, Orderly
<1>2. Orderly'
  BY <1>1, CallsCalled, CalledOrderly, CallerMoved, MovedOrderly
<1>3. \A d \in Callers \ {c} : pc'[d] = pc[d] /\ op'[d] = op[d]
  <2>1. Called(c) \/ Moved(c)
    BY <1>1, CallsCalled, CallerMoved
  <2>2. QED
    BY <1>1, <2>1 DEF Called, Moved, TypeInv, CallOK
<1>4. InPlace' /\ OneChanging'
  BY <1>2 DEF Orderly
<1>5. CASE OthersStill(c)
  <2>1. HeldSound' /\ Good(c)'
    BY <1>5, CallerGood
  <2>2. OthersStill(c)'
    BY <1>3, <1>5 DEF OthersStill
  <2>3. QED
    BY <1>2, <1>4, <2>1, <2>2, GoodSettles DEF MountInv
<1>6. CASE ~OthersStill(c)
  <2>1. PICK d \in Callers \ {c} : pc[d] \notin Still
    BY <1>6 DEF OthersStill
  <2>2. pc[c] \in Still
    BY <1>1, <1>6, ChangingAlone
  <2>3. pc'[c] \in Still
    <3>1. SUFFICES ASSUME pc'[c] \notin Still PROVE FALSE
      OBVIOUS
    <3>2. pc'[d] \notin Still
      BY <1>3, <2>1
    <3>3. Changing(op'[c], pc'[c]) /\ Changing(op'[d], pc'[d])
      BY <1>4, <3>1, <3>2 DEF InPlace, Placed, Changing, Setters, Still
    <3>4. QED
      BY <1>4, <3>3 DEF OneChanging
  <2>4. op'[c] = "init" => pc'[c] \in {"init", "lock"}
    BY <1>4, <2>3 DEF InPlace, Placed, Still
  <2>5. MountGood'
    BY <1>1, <1>3, <2>2, <2>3, <2>4, StillStep, GoodStays
  <2>6. QED
    BY <1>2, <2>5 DEF MountInv
<1>7. QED
  BY <1>5, <1>6

LEMMA MountStutter == MountGood /\ Orderly /\ UNCHANGED <<mountVars, callVars>> => MountGood' /\ Orderly'
<1> SUFFICES ASSUME MountGood, Orderly, UNCHANGED <<mountVars, callVars>> PROVE MountGood' /\ Orderly'
  OBVIOUS
<1>1. UNCHANGED mountVars /\ UNCHANGED <<op, pc, filter, todo, new, ents>>
  BY DEF callVars
<1>2. Orderly'
  BY <1>1 DEF Orderly, InPlace, Alone, OneChanging
<1>3. HeldSound'
  BY <1>1, SameSound DEF MountGood
<1>4. ASSUME NEW d \in Callers, OthersStill(d)' PROVE Good(d)'
  <2>1. Sound(d) /\ Mounting(d) /\ Closing(d)
    BY <1>1, <1>4 DEF MountGood, Good, OthersStill
  <2>2. QED
    BY <1>1, <2>1, SameHeld DEF Good, Sound, ControlSound, RegistrySound, OpenSound, Pending, Mounting, Closing, Open
<1>5. QED
  BY <1>2, <1>3, <1>4 DEF MountGood

LEMMA MountInit == Init => MountInv
<1> SUFFICES ASSUME Init PROVE MountInv
  OBVIOUS
<1>1. TypeInv
  BY InitType
<1>2. Orderly
  BY FilterInit DEF FilterInv
<1>3. /\ apps = <<>> /\ registry = {} /\ consoleApp = NoApp
      /\ \A t \in Types : entity[t] = made[t] /\ appenders[t] = << {} >> /\ made[t] = 1
      /\ \A c \in Callers : pc[c] = "idle" /\ op[c] = "none"
  BY DEF Init
<1>4. App = {}
  BY <1>3 DEF App
<1>5. \A t \in Types : Holding[t] = {} /\ \A n \in DOMAIN appenders[t] : appenders[t][n] = {}
  BY <1>3 DEF Holding
<1>6. HeldSound
  BY <1>3, <1>5, TypeFacts DEF HeldSound, OneEntity, HeldOpen, HeldOne, ConsoleKept
<1>7. \A c \in Callers : Good(c)
  BY <1>3, <1>4 DEF Good, Sound, ControlSound, RegistrySound, OpenSound, Mounting, Closing
<1>8. QED
  BY <1>1, <1>2, <1>6, <1>7 DEF MountInv, MountGood

LEMMA MountNext == OrderlyUse /\ MountInv /\ [Next]_vars => MountInv'
<1> SUFFICES ASSUME OrderlyUse, MountInv, [Next]_vars PROVE MountInv'
  OBVIOUS
<1>1. TypeInv'
  BY TypeStep DEF MountInv
<1>2. ASSUME UNCHANGED <<mountVars, callVars>> PROVE MountInv'
  BY <1>1, <1>2, MountStutter DEF MountInv
<1>3. ASSUME NEW c \in Callers, Calls(c) \/ CallerStep(c) PROVE MountInv'
  BY <1>1, <1>3, CallerInv
<1>4. ASSUME NEW w \in Writers, (\E t \in Types, via \in Entries : WriteCall(w, t, via)) \/ WriterStep(w)
      PROVE  MountInv'
  <2>1. UNCHANGED <<settings, mountVars, callVars>>
    BY <1>4, WriterElsewhere
  <2>2. QED
    BY <1>2, <2>1
<1>5. CASE UNCHANGED vars
  <2>1. UNCHANGED <<mountVars, callVars>>
    BY <1>5 DEF vars
  <2>2. QED
    BY <1>2, <2>1
<1>6. QED
  BY <1>3, <1>4, <1>5 DEF Next

LEMMA MountAlways == OrderlyUse /\ Spec => []MountInv
<1>1. OrderlyUse /\ MountInv /\ [Next]_vars => MountInv'
  BY MountNext
<1> SUFFICES ASSUME OrderlyUse PROVE Spec => []MountInv
  OBVIOUS
<1>2. Init => MountInv
  BY MountInit
<1>3. MountInv /\ [Next]_vars => MountInv'
  BY <1>1
<1>4. QED
  BY <1>2, <1>3, PTL DEF Spec

-----------------------------------------------------------------------------
(* The theorems. *)

\* Somebody sees the others still: the one who is not, or anyone.
LEMMA SomeGood ==
  ASSUME MountInv
  PROVE  \E c \in Callers : OthersStill(c) /\ Good(c)
<1>1. CASE \E c \in Callers : pc[c] \notin Still
  BY <1>1, ChangingAlone DEF MountInv, MountGood
<1>2. CASE \A c \in Callers : pc[c] \in Still
  BY <1>2, CallersAssumption DEF MountInv, MountGood, OthersStill
<1>3. QED
  BY <1>1, <1>2

LEMMA InvOneLive == MountInv => OneLivePerType
<1> SUFFICES ASSUME MountInv, NEW t \in Types PROVE Cardinality(LiveOf(t)) <= 1
  BY DEF OneLivePerType
<1>1. PICK c \in Callers : Sound(c) /\ Mounting(c)
  BY SomeGood DEF Good
<1>2. HeldSound /\ TypeInv
  BY DEF MountInv, MountGood
<1>3. ASSUME NEW a \in LiveOf(t)
      PROVE  \/ t = Console /\ a = consoleApp
             \/ a \in Holding[t]
             \/ pc[c] \in {"mount", "attach"} /\ a = new[c].app /\ Holding[t] = {}
  <2>1. a \in App /\ Open(a) /\ apps[a].type = t /\ a # NoApp
    BY <1>2, HoldingType DEF LiveOf
  <2>2. a = consoleApp \/ a \in Holding[t] \/ a \in Pending(c)
    BY <1>1, <2>1 DEF Sound, OpenSound
  <2>3. a = consoleApp => t = Console
    BY <1>2, <2>1 DEF HeldSound, ConsoleKept
  <2>4. a \in Pending(c) => /\ pc[c] \in {"mount", "attach", "register"}
                            /\ a = new[c].app /\ new[c].type = t
    BY <1>1, <2>1 DEF Pending, Mounting
  <2>5. QED
    BY <1>1, <2>2, <2>3, <2>4 DEF Mounting
<1>4. \A a \in LiveOf(t) : t = Console => a = consoleApp
  <2>1. \A a \in LiveOf(t) : a \in Pending(c) => t # Console
    BY <1>1 DEF LiveOf, Pending, Mounting
  <2>2. \A a \in LiveOf(t) : a = consoleApp \/ a \in Holding[t] \/ a \in Pending(c)
    BY <1>1 DEF LiveOf, Sound, OpenSound
  <2>3. QED
    BY <1>2, <2>1, <2>2 DEF HeldSound, ConsoleKept
<1>5. \A a, b \in LiveOf(t) : a = b
  BY <1>2, <1>3, <1>4 DEF HeldSound, HeldOne
<1>6. CASE LiveOf(t) = {}
  BY <1>6, FS_EmptySet
<1>7. CASE LiveOf(t) # {}
  <2>1. PICK a : LiveOf(t) = {a}
    BY <1>5, <1>7
  <2>2. Cardinality(LiveOf(t)) = 1
    BY <2>1, FS_Singleton
  <2>3. QED
    BY <2>2
<1>8. QED
  BY <1>6, <1>7

LEMMA InvOneView == MountInv => OneView
<1> SUFFICES ASSUME MountInv, Settled
             PROVE  /\ \A t \in Types :
                         appenders[t][entity[t]] = IF made[t] = NoEntity THEN {} ELSE appenders[t][made[t]]
                    /\ registry = UNION {appenders[t][entity[t]] : t \in Types}
                    /\ registry \cup ({consoleApp} \ {NoApp}) = {a \in App : Open(a)}
  BY DEF OneView
<1>1. PICK c \in Callers : Sound(c) /\ Mounting(c)
  BY SomeGood DEF Good
<1>2. HeldSound /\ TypeInv
  BY DEF MountInv, MountGood
<1>3. pc[c] \in {"idle", "flush", "flushing"}
  BY DEF MountInv, Orderly, InPlace, Placed, Settled
<1>4. \A t \in Types : appenders[t][entity[t]] = Holding[t]
  BY <1>1, <1>2, MountedHeld DEF Sound
<1>5. \A t \in Types : Holding[t] = IF made[t] = NoEntity THEN {} ELSE appenders[t][made[t]]
  BY DEF Holding
<1>6. /\ \A a \in App : a \in registry <=> a \in Holding[apps[a].type]
      /\ \A a \in App : Open(a) => a = consoleApp \/ a \in Holding[apps[a].type]
  BY <1>1, <1>3 DEF Sound, RegistrySound, OpenSound, Pending
<1>7. /\ registry \subseteq App /\ consoleApp \in App \cup {NoApp} /\ NoApp \notin App
      /\ \A a \in App : apps[a].type \in Types
      /\ \A t \in Types : Holding[t] \subseteq App
  BY <1>2, HoldingType DEF TypeInv, MountOK
<1>8. \A t \in Types : \A a \in Holding[t] : apps[a].type = t /\ Open(a)
  BY <1>2 DEF HeldSound, HeldOpen
<1>9. registry = UNION {Holding[t] : t \in Types}
  BY <1>6, <1>7, <1>8
<1>10. {Holding[t] : t \in Types} = {appenders[t][entity[t]] : t \in Types}
  BY <1>4
<1>11. registry \cup ({consoleApp} \ {NoApp}) = {a \in App : Open(a)}
  <2>1. consoleApp # NoApp => Open(consoleApp)
    BY <1>2 DEF HeldSound, ConsoleKept
  <2>2. \A a \in registry : Open(a)
    BY <1>6, <1>7, <1>8
  <2>3. \A a \in App : Open(a) => a = consoleApp \/ a \in registry
    BY <1>6
  <2>4. QED
    BY <1>7, <2>1, <2>2, <2>3
<1>12. QED
  BY <1>4, <1>5, <1>9, <1>10, <1>11

LEMMA InvCloses ==
  MountInv /\ [Next]_vars => (bInit /\ ~bInit' => registry = {} /\ \A a \in App : ~Open(a))
<1> SUFFICES ASSUME MountInv, [Next]_vars, bInit, ~bInit' PROVE registry = {} /\ \A a \in App : ~Open(a)
  OBVIOUS
<1>1. PICK c \in Callers : UnInitFinish(c)
  <2>1. \A c \in Callers : Calls(c) => bInit' = bInit
    BY DEF Calls, InitCall, SetLogLevelCall, SetWriteCall, FlushCall, CloseCall, Call, lifeVars
  <2>2. \A c \in Callers : InitStep(c) \/ MountStep(c) \/ LevelStep(c) \/ SwitchStep(c) => bInit' = bInit \/ bInit' = TRUE
    BY DEF InitStep, InitCheck, InitLock, InitConsole, InitPlan, InitNext, InitFinish,
           MountStep, CreateEntity, Mount, Attach, Register, LevelStep, StoreLevel, StoreMirror,
           SwitchStep, SetWriteCheck, Release, settings, lifeVars
  <2>3. \A c \in Callers : CloseStep(c) => UnInitFinish(c) \/ bInit' = bInit
    BY DEF CloseStep, FlushLock, FlushDone, UnInitCheck, UnInitLock, UnInitConsole, UnInitReset,
           UnInitCollect, UnInitEntity, settings, lifeVars
  <2>4. \A w \in Writers : (\E t \in Types, via \in Entries : WriteCall(w, t, via)) \/ WriterStep(w) => bInit' = bInit
    BY WriterElsewhere DEF settings, lifeVars
  <2>5. UNCHANGED vars => bInit' = bInit
    BY DEF vars, settings, lifeVars
  <2>6. QED
    BY <2>1, <2>2, <2>3, <2>4, <2>5 DEF Next, CallerStep
<1>2. pc[c] = "shut" /\ ents[c] = {}
  BY <1>1 DEF UnInitFinish
<1>3. OthersStill(c)
  BY <1>2, ChangingAlone DEF MountInv, Still
<1>4. Sound(c) /\ Closing(c) /\ TypeInv
  BY <1>3 DEF MountInv, MountGood, Good
<1>5. consoleApp = NoApp /\ \A t \in Types : Holding[t] = {}
  BY <1>2, <1>4 DEF Closing
<1>6. registry \subseteq App /\ NoApp \notin App /\ \A a \in App : apps[a].type \in Types
  BY <1>4, HoldingType DEF TypeInv, MountOK
<1>7. registry = {}
  BY <1>2, <1>4, <1>6 DEF Sound, RegistrySound
<1>8. \A a \in App : ~Open(a)
  BY <1>2, <1>4, <1>5, <1>6 DEF Sound, OpenSound, Pending
<1>9. QED
  BY <1>7, <1>8

\* A type never has two open appenders, so no file two writers
\* (logger.go 240-241), for any types and options, however Init, Close and
\* the switches follow each other and however many Inits and Closes race.
THEOREM OneLive == OrderlyUse /\ Spec => []OneLivePerType
BY MountAlways, InvOneLive, PTL

\* Between calls what Write reaches through the control, what Flush and Close
\* reach through the entity factory, and what the switches see in the
\* registry are the same appenders, and they are the open ones.
THEOREM OneViewAlways == OrderlyUse /\ Spec => []OneView
BY MountAlways, InvOneView, PTL

\* When Close ends nothing is open or registered, whatever was mounted,
\* released and mounted again before (api.go 719, logger.go 261-264).
THEOREM CloseLeavesNothing == OrderlyUse /\ Spec => CloseReleases
<1>1. MountInv /\ [Next]_vars => [bInit /\ ~bInit' => registry = {} /\ \A a \in App : ~Open(a)]_vars
  BY InvCloses
<1> SUFFICES ASSUME OrderlyUse PROVE Spec => CloseReleases
  OBVIOUS
<1>2. Spec => []MountInv
  BY MountAlways
<1>3. QED
  BY <1>1, <1>2, PTL DEF Spec, CloseReleases

-----------------------------------------------------------------------------
(***************************************************************************)
(* The files that are mounted follow the level.  Init starts from nothing, *)
(* since Close has shut down all that there was, and what it has mounted   *)
(* and what it has still to mount are together what it planned.            *)
(***************************************************************************)
FileTypes == Files \cup {Main}
Mounted   == {t \in FileTypes : Holding[t] # {}}

\* Init is past its locks, and past its plan.
Within(c)  == op[c] = "init" /\ pc[c] \notin {"init", "lock"}
Filling(c) == op[c] = "init" /\ pc[c] \in {"next", "create", "mount", "attach", "register"}

\* bInit is set while something is shut down or switched, and clear while
\* Init is at work; without it only an Init at work has mounted anything.
Life(c) ==
  /\ pc[c] \in {"exit", "reset", "collect", "shut"} => bInit
  /\ op[c] \in {"on", "off"} => bInit
  /\ Within(c) => ~bInit
  /\ bInit \/ (\A t \in Types : Holding[t] = {}) \/ Filling(c)
Plan(c) ==
  /\ op[c] = "init" /\ pc[c] \in {"console", "level", "mirror", "plan"} => todo[c] \cap FileTypes = {}
  /\ op[c] = "init" /\ pc[c] = "next" => Mounted \cup (todo[c] \cap FileTypes) = Planned
  /\ Filling(c) /\ pc[c] # "next" => Mounted \cup ((todo[c] \cup {new[c].type}) \cap FileTypes) = Planned
Follow(c)  == Life(c) /\ Plan(c)
FollowGood == \A c \in Callers : OthersStill(c) => Follow(c)

LEMMA PlannedFiles ==
  Planned \subseteq FileTypes /\ FileTypes \subseteq Types /\ (Switches \cup {Console}) \cap FileTypes = {}
BY TypesAssumption, TypeFacts DEF Planned, FileTypes

LEMMA SameMounted == Holding' = Holding => Mounted' = Mounted
BY DEF Mounted, FileTypes

\* The parts of the state that the next lemmas rest on.
LEMMA FollowParts ==
  ASSUME MountInv, FollowGood, NEW c \in Callers, OthersStill(c)
  PROVE  /\ TypeInv /\ Placed(op[c], pc[c]) /\ Sound(c) /\ Mounting(c) /\ Closing(c) /\ HeldSound /\ Life(c) /\ Plan(c)
         /\ pc \in [Callers -> Places] /\ op \in [Callers -> {"none", "init", "level", "on", "off", "flush", "close"}]
         /\ todo \in [Callers -> SUBSET Types]
         /\ new \in [Callers -> [type : Types, app : App \cup {NoApp}, ent : Nat]]
         /\ bInit \in BOOLEAN
BY DEF MountInv, MountGood, Good, FollowGood, Follow, Orderly, InPlace, TypeInv, CallOK, SettingsOK

LEMMA CallsFollow ==
  ASSUME OrderlyUse, MountInv, FollowGood, NEW c \in Callers, OthersStill(c), Calls(c)
  PROVE  Follow(c)'
<1>1. UNCHANGED mountVars /\ pc[c] = "idle" /\ bInit' = bInit
  BY DEF Calls, InitCall, SetLogLevelCall, SetWriteCall, FlushCall, CloseCall, Call, lifeVars
<1>2. /\ pc'[c] \in {"init", "level", "switch", "flush"}
      /\ op'[c] = "init" => pc'[c] = "init"
      /\ op'[c] \in {"on", "off"} => bInit
  BY FollowParts DEF Calls, InitCall, SetLogLevelCall, SetWriteCall, FlushCall, CloseCall, Call
<1>3. bInit \/ \A t \in Types : Holding[t] = {}
  BY <1>1, FollowParts DEF Life, Filling
<1>4. Holding' = Holding
  BY <1>1, SameHeld
<1>5. Life(c)'
  BY <1>1, <1>2, <1>3, <1>4 DEF Life, Within, Filling
<1>6. Plan(c)'
  BY <1>2 DEF Plan, Filling
<1>7. QED
  BY <1>5, <1>6 DEF Follow

LEMMA InitFollow1 ==
  ASSUME MountInv, FollowGood, NEW c \in Callers, OthersStill(c),
         InitCheck(c) \/ InitLock(c) \/ InitConsole(c) \/ LevelStep(c)
  PROVE  Follow(c)'
<1>1. bInit' = bInit
  BY DEF InitCheck, InitLock, InitConsole, LevelStep, StoreLevel, StoreMirror, settings, lifeVars
<1>2. Holding' = Holding
  BY SameHeld DEF InitCheck, InitLock, InitConsole, LevelStep, StoreLevel, StoreMirror, Holding
<1>3. /\ pc[c] \in {"init", "lock", "console", "level", "mirror"} /\ op'[c] \in {op[c], "none"}
      /\ pc'[c] \in {"idle", "lock", "console", "level", "mirror", "plan"}
  BY FollowParts DEF InitCheck, InitLock, InitConsole, LevelStep, StoreLevel, StoreMirror, Goto, Return
<1>4. op'[c] = "init" /\ pc'[c] # "lock" => ~bInit /\ todo'[c] \cap FileTypes = {}
  <2>1. CASE InitCheck(c)
    BY <2>1, FollowParts DEF InitCheck, Goto, Return
  <2>2. CASE InitLock(c)
    <3>1. config.on \subseteq Switches \cup {Console}
      BY FollowParts, TypeParts
    <3>2. op'[c] = "init" => ~bInit /\ todo'[c] = config.on
      BY <2>2, FollowParts DEF InitLock, Goto, Return
    <3>3. QED
      BY <3>1, <3>2, PlannedFiles
  <2>3. CASE InitConsole(c)
    <3>1. op[c] = "init" /\ pc[c] = "console" /\ todo'[c] = todo[c] \ {Console}
      BY <2>3, FollowParts DEF InitConsole, Placed
    <3>2. QED
      BY <3>1, FollowParts DEF Life, Within, Plan
  <2>4. CASE LevelStep(c)
    <3>1. op'[c] = "init" => op[c] = "init" /\ pc[c] \in {"level", "mirror"} /\ todo'[c] = todo[c]
      BY <2>4, FollowParts DEF LevelStep, StoreLevel, StoreMirror, Goto, Return
    <3>2. QED
      BY <3>1, FollowParts DEF Life, Within, Plan
  <2>5. QED
    BY <2>1, <2>2, <2>3, <2>4
<1>5. bInit \/ \A t \in Types : Holding[t] = {}
  BY <1>3, FollowParts DEF Life, Filling
<1>6. op'[c] \in {"on", "off"} => bInit
  BY <1>3, FollowParts DEF Life
<1>7. Life(c)'
  BY <1>1, <1>2, <1>3, <1>4, <1>5, <1>6 DEF Life, Within, Filling
<1>8. Plan(c)'
  BY <1>3, <1>4 DEF Plan, Filling
<1>9. QED
  BY <1>7, <1>8 DEF Follow

LEMMA InitFollow2 ==
  ASSUME MountInv, FollowGood, NEW c \in Callers, OthersStill(c), InitPlan(c) \/ InitNext(c) \/ InitFinish(c)
  PROVE  Follow(c)'
<1>1. op[c] = "init" /\ pc[c] \in {"plan", "next"} /\ Within(c) /\ ~bInit
  BY FollowParts DEF InitPlan, InitNext, InitFinish, Placed, Within, Life
<1>2. Holding' = Holding /\ Mounted' = Mounted
  BY SameHeld, SameMounted DEF InitPlan, InitNext, InitFinish
<1>3. CASE InitFinish(c)
  <2>1. bInit' /\ pc'[c] = "idle" /\ op'[c] = "none"
    BY <1>3, FollowParts DEF InitFinish, Return
  <2>2. QED
    BY <2>1 DEF Follow, Life, Plan, Within, Filling
<1>4. CASE InitPlan(c) \/ InitNext(c)
  <2>1. bInit' = bInit /\ level' = level /\ Planned' = Planned
    BY <1>4 DEF InitPlan, InitNext, settings, lifeVars, levelVars, Planned
  <2>2. op'[c] = "init" /\ pc'[c] \in {"next", "create"}
    <3>1. InitPlan(c) => op'[c] = "init" /\ pc'[c] = "next"
      BY <1>1, FollowParts DEF InitPlan, Goto
    <3>2. InitNext(c) => op'[c] = "init" /\ pc'[c] \in {"next", "create"}
      BY <1>1, FollowParts DEF InitNext, Goto
    <3>3. QED
      BY <1>4, <3>1, <3>2
  <2>3. Life(c)'
    BY <1>1, <2>1, <2>2 DEF Life, Within, Filling
  <2>4. CASE InitPlan(c)
    <3>1. pc[c] = "plan" /\ pc'[c] = "next" /\ todo'[c] = Planned \cup todo[c]
      BY <2>4, FollowParts DEF InitPlan, Goto
    <3>2. todo[c] \cap FileTypes = {}
      BY <1>1, <3>1, FollowParts DEF Plan
    <3>3. Mounted = {}
      BY <1>1, <3>1, FollowParts, PlannedFiles DEF Life, Filling, Mounted
    <3>4. Mounted \cup (todo'[c] \cap FileTypes) = Planned
      BY <3>1, <3>2, <3>3, PlannedFiles
    <3>5. Plan(c)'
      BY <1>2, <2>1, <3>1, <3>4 DEF Plan, Filling, FileTypes
    <3>6. QED
      BY <2>3, <3>5 DEF Follow
  <2>5. CASE InitNext(c)
    <3>1. PICK t \in todo[c] : /\ todo' = [todo EXCEPT ![c] = @ \ {t}] /\ pc[c] = "next"
                               /\ \/ UNCHANGED <<op, pc, new>> /\ HasAppender(t)
                                  \/ Goto(c, "create") /\ new' = [new EXCEPT ![c].type = t]
      BY <2>5 DEF InitNext
    <3>2. t \in Types /\ todo'[c] = todo[c] \ {t}
      BY <3>1, FollowParts
    <3>3. Mounted \cup (todo[c] \cap FileTypes) = Planned
      BY <1>1, <3>1, FollowParts DEF Plan
    <3>4. CASE UNCHANGED <<op, pc, new>> /\ HasAppender(t)
      <4>1. Holding[t] # {}
        BY <3>2, <3>4, FollowParts, MountedHeld DEF HasAppender, Sound
      <4>2. Mounted \cup (todo'[c] \cap FileTypes) = Planned
        BY <3>2, <3>3, <4>1 DEF Mounted
      <4>3. pc'[c] = "next"
        BY <3>1, <3>4
      <4>4. Plan(c)'
        BY <1>2, <2>1, <4>2, <4>3 DEF Plan, Filling, FileTypes
      <4>5. QED
        BY <2>3, <4>4 DEF Follow
    <3>5. CASE Goto(c, "create") /\ new' = [new EXCEPT ![c].type = t]
      <4>1. pc'[c] = "create" /\ new'[c].type = t
        BY <3>5, FollowParts DEF Goto
      <4>2. todo'[c] \cup {t} = todo[c]
        BY <3>1, <3>2
      <4>3. Plan(c)'
        BY <1>2, <2>1, <3>3, <4>1, <4>2 DEF Plan, Filling, FileTypes
      <4>4. QED
        BY <2>3, <4>3 DEF Follow
    <3>6. QED
      BY <3>1, <3>4, <3>5
  <2>6. QED
    BY <1>4, <2>4, <2>5
<1>5. QED
  BY <1>3, <1>4

LEMMA MountFollow ==
  ASSUME MountInv, FollowGood, NEW c \in Callers, OthersStill(c), MountStep(c)
  PROVE  Follow(c)'
<1>1. /\ bInit' = bInit /\ level' = level /\ Planned' = Planned /\ todo' = todo
      /\ pc[c] \in {"create", "mount", "attach", "register"}
  BY DEF MountStep, CreateEntity, Mount, Attach, Register, settings, lifeVars, levelVars, Planned
<1>2. PICK t \in Types : t = new[c].type
  BY FollowParts
<1>3. \A u \in Types \ {t} : Holding'[u] = Holding[u]
  <2>1. CASE CreateEntity(c)
    <3>1. PICK n \in Nat : n = IF made[t] = NoEntity THEN Len(appenders[t]) + 1 ELSE made[t]
      BY FollowParts, LenProperties DEF TypeInv, MountOK
    <3>2. Holding[t] = {}
      BY <1>2, <2>1, FollowParts DEF Mounting, CreateEntity
    <3>3. Holding' = Holding
      BY <1>2, <2>1, <3>1, <3>2, FollowParts, CreateHeld
    <3>4. QED
      BY <3>3
  <2>2. CASE Attach(c)
    <3>1. PICK a \in App : a = new[c].app
      BY <2>2, FollowParts, HoldingType DEF Attach
    <3>2. PICK n \in DOMAIN appenders[t] : n = made[t] /\ new[c].ent = n /\ n # NoEntity
      BY <1>2, <2>2, FollowParts DEF Attach, Mounting, TypeInv, NewMade
    <3>3. appenders[t][n] = {}
      BY <1>2, <2>2, <3>2, FollowParts DEF Attach, Mounting, Holding
    <3>4. HoldingSet(t, {a})
      BY <1>2, <2>2, <3>1, <3>2, <3>3, FollowParts, AttachHeld
    <3>5. QED
      BY <3>4 DEF HoldingSet
  <2>3. CASE Mount(c) \/ Register(c)
    BY <2>3 DEF Mount, Register, Holding
  <2>4. QED
    BY <2>1, <2>2, <2>3 DEF MountStep
<1>4. CASE op[c] # "init"
  <2>1. bInit /\ op'[c] \in {op[c], "none"} /\ pc'[c] \in {"mount", "attach", "register", "idle"}
    <3>1. op[c] = "on" /\ bInit
      BY <1>1, <1>4, FollowParts DEF Placed, Life
    <3>2. QED
      BY <1>1, <1>4, <3>1, FollowParts DEF MountStep, CreateEntity, Mount, Attach, Register, Goto, Return
  <2>2. QED
    BY <1>1, <1>4, <2>1 DEF Follow, Life, Plan, Within, Filling
<1>5. CASE op[c] = "init"
  <2>1. op'[c] = "init" /\ ~bInit
    BY <1>1, <1>5, FollowParts DEF MountStep, CreateEntity, Mount, Attach, Register, Goto, Life, Within
  <2>2. pc'[c] \in {"mount", "attach", "register", "next"}
    BY <1>5, FollowParts DEF MountStep, CreateEntity, Mount, Attach, Register, Goto
  <2>3. Mounted \cup ((todo[c] \cup {t}) \cap FileTypes) = Planned
    BY <1>1, <1>2, <1>5, FollowParts DEF Plan, Filling
  <2>4. Mounted' \cup ((todo[c] \cup {t}) \cap FileTypes) = Planned
    <3>1. Mounted' \cup {t} = Mounted \cup {t}
      BY <1>3, PlannedFiles DEF Mounted, FileTypes
    <3>2. Mounted' \subseteq FileTypes /\ Mounted \subseteq FileTypes
      BY DEF Mounted, FileTypes
    <3>3. QED
      BY <2>3, <3>1, <3>2
  <2>5. Life(c)'
    BY <1>1, <2>1, <2>2 DEF Life, Within, Filling
  <2>6. CASE pc'[c] # "next"
    <3>1. new'[c].type = t
      BY <1>2, <1>5, <2>6, FollowParts DEF MountStep, CreateEntity, Mount, Attach, Register, Goto
    <3>2. Plan(c)'
      BY <1>1, <2>2, <2>4, <2>6, <3>1 DEF Plan, Filling, FileTypes
    <3>3. QED
      BY <2>5, <3>2 DEF Follow
  <2>7. CASE pc'[c] = "next"
    <3>1. Register(c)
      BY <2>7, FollowParts DEF MountStep, CreateEntity, Mount, Attach, Goto
    <3>2. Holding[t] # {} /\ Holding' = Holding
      BY <1>2, <3>1, FollowParts DEF Register, Mounting, Holding
    <3>3. Mounted' \cup (todo[c] \cap FileTypes) = Planned
      BY <2>4, <3>2 DEF Mounted, FileTypes
    <3>4. Plan(c)'
      BY <1>1, <2>7, <3>3 DEF Plan, Filling, FileTypes
    <3>5. QED
      BY <2>5, <3>4 DEF Follow
  <2>8. QED
    BY <2>6, <2>7
<1>6. QED
  BY <1>4, <1>5

LEMMA CloseFollow ==
  ASSUME MountInv, FollowGood, NEW c \in Callers, OthersStill(c), SwitchStep(c) \/ CloseStep(c)
  PROVE  Follow(c)'
<1>1. CASE SwitchStep(c)
  <2>1. op[c] \in {"on", "off"} /\ bInit /\ bInit' = bInit
    BY <1>1, FollowParts DEF SwitchStep, SetWriteCheck, Release, Placed, Life, settings, lifeVars
  <2>2. op'[c] \in {op[c], "none"} /\ pc'[c] \in {"idle", "create", "release"}
    BY <1>1, FollowParts DEF SwitchStep, SetWriteCheck, Release, Goto, Return
  <2>3. QED
    BY <2>1, <2>2 DEF Follow, Life, Plan, Within, Filling
<1>2. CASE FlushLock(c) \/ FlushDone(c) \/ UnInitCheck(c) \/ UnInitLock(c)
  <2>1. bInit' = bInit /\ Holding' = Holding
    BY <1>2, SameHeld DEF FlushLock, FlushDone, UnInitCheck, UnInitLock, settings, lifeVars
  <2>2. /\ op[c] \in {"flush", "close"} /\ op'[c] \in {op[c], "none"} /\ pc[c] \in {"flush", "flushing", "uninit", "close"}
        /\ pc'[c] \in {"flushing", "uninit", "close", "exit", "idle"} /\ (pc'[c] = "exit" => bInit)
    BY <1>2, FollowParts DEF FlushLock, FlushDone, UnInitCheck, UnInitLock, Goto, Return, Placed
  <2>3. bInit \/ \A t \in Types : Holding[t] = {}
    BY <2>2, FollowParts DEF Life, Filling
  <2>4. QED
    BY <2>1, <2>2, <2>3 DEF Follow, Life, Plan, Within, Filling
<1>3. CASE UnInitConsole(c) \/ UnInitReset(c) \/ UnInitCollect(c) \/ UnInitEntity(c)
  <2>1. op[c] = "close" /\ bInit /\ bInit' = bInit /\ op'[c] = op[c]
    BY <1>3, FollowParts
       DEF UnInitConsole, UnInitReset, UnInitCollect, UnInitEntity, Goto, Placed, Life, settings, lifeVars
  <2>2. QED
    BY <2>1 DEF Follow, Life, Plan, Within, Filling
<1>4. CASE UnInitFinish(c)
  <2>1. pc[c] = "shut" /\ ents[c] = {} /\ pc'[c] = "idle" /\ op'[c] = "none" /\ Holding' = Holding
    BY <1>4, SameHeld, FollowParts DEF UnInitFinish, Return
  <2>2. \A t \in Types : Holding[t] = {}
    BY <2>1, FollowParts DEF Closing
  <2>3. QED
    BY <2>1, <2>2 DEF Follow, Life, Plan, Within, Filling
<1>5. QED
  BY <1>1, <1>2, <1>3, <1>4 DEF CloseStep

-----------------------------------------------------------------------------
LEMMA CallerFollow ==
  ASSUME OrderlyUse, MountInv, FollowGood, NEW c \in Callers, OthersStill(c), Calls(c) \/ CallerStep(c)
  PROVE  Follow(c)'
BY CallsFollow, InitFollow1, InitFollow2, MountFollow, CloseFollow DEF CallerStep, InitStep

\* When the others are still, it is enough to look at the caller that moves.
LEMMA FollowSettles ==
  ASSUME NEW c \in Callers, OthersStill(c)', Follow(c)', InPlace'
  PROVE  FollowGood'
<1>1. ASSUME NEW d \in Callers \ {c}, OthersStill(d)' PROVE Follow(d)'
  <2>1. pc'[c] \in Still /\ pc'[d] \in Still
    BY <1>1 DEF OthersStill
  <2>2. /\ op'[d] = "init" => pc'[d] \in {"init", "lock"}
        /\ op'[d] \notin {"on", "off"}
        /\ op'[c] = "init" => pc'[c] \in {"init", "lock"}
    BY <2>1 DEF InPlace, Placed, Still
  <2>3. bInit' \/ (\A t \in Types : Holding'[t] = {})
    BY <2>2 DEF Follow, Life, Filling
  <2>4. Life(d)'
    BY <2>1, <2>2, <2>3 DEF Life, Within, Filling, Still
  <2>5. Plan(d)'
    BY <2>2 DEF Plan, Filling
  <2>6. QED
    BY <2>4, <2>5 DEF Follow
<1>2. QED
  BY <1>1 DEF FollowGood

\* A step that leaves alone what `d` looks at.
LEMMA FollowSame ==
  ASSUME NEW d \in Callers, Follow(d), UNCHANGED <<mountVars, bInit, level>>,
         op'[d] = op[d], pc'[d] = pc[d], new'[d] = new[d], todo'[d] = todo[d]
  PROVE  Follow(d)'
<1>1. Holding' = Holding /\ Mounted' = Mounted /\ Planned' = Planned
  <2>1. Holding' = Holding
    BY SameHeld
  <2>2. QED
    BY <2>1, SameMounted DEF Planned
<1>2. Life(d)'
  BY <1>1 DEF Follow, Life, Within, Filling
<1>3. Plan(d)'
  BY <1>1 DEF Follow, Plan, Filling, FileTypes
<1>4. QED
  BY <1>2, <1>3 DEF Follow

LEMMA StillSettings ==
  ASSUME NEW c \in Callers, pc[c] \in Still, Calls(c) \/ CallerStep(c)
  PROVE  UNCHANGED <<bInit, level>>
<1>1. CASE Calls(c)
  BY <1>1 DEF Calls, InitCall, SetLogLevelCall, SetWriteCall, FlushCall, CloseCall, Call, lifeVars, levelVars
<1>2. CASE InitStep(c)
  <2>1. InitCheck(c) \/ InitLock(c)
    BY <1>2 DEF InitStep, InitConsole, InitPlan, InitNext, InitFinish, Still
  <2>2. QED
    BY <2>1 DEF InitCheck, InitLock, settings, lifeVars, levelVars
<1>3. CASE CloseStep(c)
  <2>1. FlushLock(c) \/ FlushDone(c) \/ UnInitCheck(c) \/ UnInitLock(c)
    BY <1>3 DEF CloseStep, UnInitConsole, UnInitReset, UnInitCollect, UnInitEntity, UnInitFinish, Still
  <2>2. QED
    BY <2>1 DEF FlushLock, FlushDone, UnInitCheck, UnInitLock, settings, lifeVars, levelVars
<1>4. ~MountStep(c) /\ ~LevelStep(c) /\ ~SwitchStep(c)
  BY DEF MountStep, CreateEntity, Mount, Attach, Register, LevelStep, StoreLevel, StoreMirror,
         SwitchStep, SetWriteCheck, Release, Still
<1>5. QED
  BY <1>1, <1>2, <1>3, <1>4 DEF CallerStep

LEMMA FollowCaller ==
  ASSUME OrderlyUse, MountInv, FollowGood, MountInv', NEW c \in Callers, Calls(c) \/ CallerStep(c)
  PROVE  FollowGood'
<1>1. TypeInv /\ Orderly /\ InPlace /\ InPlace'
  BY DEF MountInv, Orderly
<1>2. \A d \in Callers \ {c} : pc'[d] = pc[d] /\ op'[d] = op[d]
  <2>1. Called(c) \/ Moved(c)
    BY <1>1, CallsCalled, CallerMoved
  <2>2. QED
    BY <1>1, <2>1 DEF Called, Moved, TypeInv, CallOK
<1>3. CASE OthersStill(c)
  <2>1. Follow(c)'
    BY <1>3, CallerFollow
  <2>2. OthersStill(c)'
    BY <1>2, <1>3 DEF OthersStill
  <2>3. QED
    BY <1>1, <2>1, <2>2, FollowSettles
<1>4. CASE ~OthersStill(c)
  <2>1. pc[c] \in Still
    BY <1>1, <1>4, ChangingAlone
  <2>2. ~OthersStill(c)'
    BY <1>2, <1>4 DEF OthersStill
  <2>3. ASSUME NEW d \in Callers, OthersStill(d)' PROVE Follow(d)'
    <3>1. d # c
      BY <2>2, <2>3
    <3>2. Follow(d)
      BY <1>2, <2>1, <2>3 DEF FollowGood, OthersStill
    <3>3. UNCHANGED <<mountVars, bInit, level>> /\ new'[d] = new[d] /\ todo'[d] = todo[d]
      BY <1>1, <2>1, <3>1, StillStep, StillSettings
    <3>4. op'[d] = op[d] /\ pc'[d] = pc[d]
      BY <1>2, <3>1
    <3>5. QED
      BY <3>2, <3>3, <3>4, FollowSame
  <2>4. QED
    BY <2>3 DEF FollowGood
<1>5. QED
  BY <1>3, <1>4

LEMMA FollowStutter ==
  ASSUME FollowGood, UNCHANGED <<settings, mountVars, callVars>>
  PROVE  FollowGood'
<1>1. UNCHANGED <<mountVars, bInit, level>> /\ UNCHANGED <<op, pc, filter, todo, new, ents>>
  BY DEF settings, lifeVars, levelVars, callVars
<1>2. ASSUME NEW d \in Callers, OthersStill(d)' PROVE Follow(d)'
  <2>1. Follow(d)
    BY <1>1, <1>2 DEF FollowGood, OthersStill
  <2>2. QED
    BY <1>1, <2>1, FollowSame
<1>3. QED
  BY <1>2 DEF FollowGood

LEMMA FollowNext == OrderlyUse /\ MountInv /\ FollowGood /\ [Next]_vars => FollowGood'
<1> SUFFICES ASSUME OrderlyUse, MountInv, FollowGood, [Next]_vars PROVE FollowGood'
  OBVIOUS
<1>1. MountInv'
  BY MountNext
<1>2. ASSUME NEW c \in Callers, Calls(c) \/ CallerStep(c) PROVE FollowGood'
  BY <1>1, <1>2, FollowCaller
<1>3. ASSUME NEW w \in Writers, (\E t \in Types, via \in Entries : WriteCall(w, t, via)) \/ WriterStep(w)
      PROVE  FollowGood'
  BY <1>3, WriterElsewhere, FollowStutter
<1>4. CASE UNCHANGED vars
  <2>1. UNCHANGED <<settings, mountVars, callVars>>
    BY <1>4 DEF vars
  <2>2. QED
    BY <2>1, FollowStutter
<1>5. QED
  BY <1>2, <1>3, <1>4 DEF Next

LEMMA FollowInit == Init => FollowGood
<1> SUFFICES ASSUME Init, NEW c \in Callers PROVE Follow(c)
  BY DEF FollowGood
<1>1. op[c] = "none" /\ pc[c] = "idle" /\ \A t \in Types : Holding[t] = {}
  BY DEF Init, Holding
<1>2. QED
  BY <1>1 DEF Follow, Life, Plan, Within, Filling

LEMMA FollowFiles ==
  MountInv /\ FollowGood => ((\E c \in Callers : InitFinish(c)) => {t \in Files \cup {Main} : HasAppender(t)} = Planned)
<1> SUFFICES ASSUME MountInv, FollowGood, NEW c \in Callers, InitFinish(c)
             PROVE  {t \in FileTypes : HasAppender(t)} = Planned
  BY DEF FileTypes
<1>1. pc[c] = "next" /\ todo[c] = {}
  BY DEF InitFinish
<1>2. OthersStill(c)
  BY <1>1, ChangingAlone DEF MountInv, Still
<1>3. op[c] = "init" /\ Sound(c) /\ Mounting(c) /\ Plan(c) /\ HeldSound /\ TypeInv
  BY <1>1, <1>2, FollowParts DEF Placed
<1>4. Mounted = Planned
  BY <1>1, <1>3 DEF Plan
<1>5. \A t \in FileTypes : appenders[t][entity[t]] = Holding[t]
  BY <1>3, MountedHeld, PlannedFiles DEF Sound
<1>6. {t \in FileTypes : HasAppender(t)} = Mounted
  BY <1>5 DEF HasAppender, Mounted
<1>7. QED
  BY <1>4, <1>6

\* When Init ends the files that are mounted are those of the level, Main's
\* included, whatever an earlier life had mounted (logger.go 136-141).
THEOREM FilesFollow == OrderlyUse /\ Spec => FilesFollowLevel
<1>1. OrderlyUse /\ MountInv /\ FollowGood /\ [Next]_vars => FollowGood'
  BY FollowNext
<1>2. MountInv /\ FollowGood /\ [Next]_vars =>
        [(\E c \in Callers : InitFinish(c)) => {t \in Files \cup {Main} : HasAppender(t)} = Planned]_vars
  BY FollowFiles
<1> SUFFICES ASSUME OrderlyUse PROVE Spec => FilesFollowLevel
  OBVIOUS
<1>3. Spec => []MountInv
  BY MountAlways
<1>4. MountInv /\ FollowGood /\ [Next]_vars => FollowGood'
  BY <1>1
<1>5. Init => FollowGood
  BY FollowInit
<1>6. QED
  BY <1>2, <1>3, <1>4, <1>5, PTL DEF Spec, FilesFollowLevel

-----------------------------------------------------------------------------
(***************************************************************************)
(* What a message reaches.  A writer keeps the entities it has chosen, and *)
(* then the appenders of one of them, while calls may mount and release    *)
(* types: neither the type of an appender nor what an entity may hold      *)
(* changes, and an appender that has been closed is passed over.           *)
(***************************************************************************)

\* The types that a message may go to.
Goal(w) == {message[w].type, Main, Console}

\* A writer that is not writing has nothing before it, and one that has not
\* come to route has reached nothing.
Clear(w) ==
  /\ wpc[w] # "write" => targets[w] = <<>> /\ snapshot[w] = {}
  /\ wpc[w] \in {"idle", "flags", "route"} => reached[w] = <<>>

\* What a writer has reached, then what it reaches next, then the entities it
\* has still to write to: each of a type of its own.  Only the entity of the
\* console's type, which holds nothing, may follow the console.
Past(w) ==
  /\ \A i \in DOMAIN reached[w] : apps[reached[w][i]].type \in Goal(w)
  /\ \A i, j \in DOMAIN reached[w] : i # j => apps[reached[w][i]].type # apps[reached[w][j]].type
Present(w) ==
  /\ \A a, b \in snapshot[w] : a = b
  /\ \A a \in snapshot[w] : /\ apps[a].type \in Goal(w)
                            /\ \A i \in DOMAIN reached[w] : apps[reached[w][i]].type # apps[a].type
Later(w) ==
  /\ \A k \in DOMAIN targets[w] : targets[w][k][1] \in Goal(w)
  /\ \A k, l \in DOMAIN targets[w] : k # l => targets[w][k][1] # targets[w][l][1]
  /\ \A k \in DOMAIN targets[w] : targets[w][k][1] # Console =>
       /\ \A a \in snapshot[w] : apps[a].type # targets[w][k][1]
       /\ \A i \in DOMAIN reached[w] : apps[reached[w][i]].type # targets[w][k][1]
RouteOK(w) == Clear(w) /\ Past(w) /\ Present(w) /\ Later(w)

\* Both flags are set only while a Close is at work.
Shutting == {"exit", "reset", "collect", "shut"}
FlagsOK  == bInit /\ bExit => \E c \in Callers : pc[c] \in Shutting

\* A message that no call has disturbed is on its way to all that is due: the
\* open appenders of the types it may go to.
Due(w, a)  == Open(a) /\ apps[a].type \in Goal(w)
Took(w, a) == \E i \in DOMAIN reached[w] : reached[w][i] = a
Sees(w, a) ==
  \/ Took(w, a) \/ a \in snapshot[w]
  \/ \E k \in DOMAIN targets[w] : a \in appenders[targets[w][k][1]][targets[w][k][2]]
Entered(m) == m.via = "api" => EntryLevel(m.type) \in level
QuietOK(w) == quiet[w] = TRUE =>
  /\ Settled
  /\ wpc[w] \in {"flags", "route"} => Entered(message[w])
  /\ wpc[w] \in {"route", "write"} => bInit = TRUE
  /\ wpc[w] = "write" => Wanted(message[w]) /\ \A a \in App : Sees(w, a) <=> Due(w, a)
  /\ wpc[w] = "done" => \A a \in App : Took(w, a) <=> bInit = TRUE /\ Wanted(message[w]) /\ Due(w, a)

WriterOK(w) == RouteOK(w) /\ QuietOK(w)
RouteInv    == MountInv /\ FiltersMove /\ FlagsOK /\ \A w \in Writers : WriterOK(w)

-----------------------------------------------------------------------------
(* The calls, as the writers see them. *)

\* An appender keeps its number and its type.
TypesKept == \A a \in App : a \in App' /\ apps'[a].type = apps[a].type

LEMMA SameTypes == apps' = apps => TypesKept
BY DEF TypesKept, App

LEMMA ClosedTypes ==
  ASSUME TypeInv, NEW S, apps' = Closed(S)
  PROVE  TypesKept
<1>1. Len(apps') = Len(apps) /\ \A a \in App : apps'[a].type = apps[a].type
  BY ClosedSeq DEF TypeInv
<1>2. QED
  BY <1>1 DEF TypesKept, App

LEMMA AppendTypes ==
  ASSUME TypeInv, NEW s \in Seq([type : Types, open : BOOLEAN]), NEW r \in [type : Types, open : BOOLEAN],
         Len(s) = Len(apps), \A a \in App : s[a].type = apps[a].type, apps' = Append(s, r)
  PROVE  TypesKept
<1>1. Len(apps') = Len(s) + 1 /\ \A a \in 1..Len(s) : apps'[a] = s[a]
  BY NewApp
<1>2. Len(apps) \in Nat
  BY LenProperties DEF TypeInv, MountOK
<1>3. QED
  BY <1>1, <1>2 DEF TypesKept, App

LEMMA CallerTypes ==
  ASSUME TypeInv, NEW c \in Callers, Calls(c) \/ CallerStep(c)
  PROVE  TypesKept
<1>0. /\ apps \in Seq([type : Types, open : BOOLEAN]) /\ new[c].type \in Types
      /\ Console \in Types
  BY TypeFacts DEF TypeInv, MountOK, CallOK
<1>1. CASE InitConsole(c)
  <2>1. apps' = Closed({consoleApp}) \/ apps' = Append(Closed({consoleApp}), [type |-> Console, open |-> TRUE])
    BY <1>1 DEF InitConsole
  <2>2. CASE apps' = Closed({consoleApp})
    BY <2>2, ClosedTypes
  <2>3. CASE apps' = Append(Closed({consoleApp}), [type |-> Console, open |-> TRUE])
    <3>1. PICK s : s = Closed({consoleApp})
      OBVIOUS
    <3>2. PICK r : r = [type |-> Console, open |-> TRUE]
      OBVIOUS
    <3>3. /\ s \in Seq([type : Types, open : BOOLEAN]) /\ Len(s) = Len(apps)
          /\ \A a \in App : s[a].type = apps[a].type
      BY <3>1, ClosedSeq DEF TypeInv
    <3>4. r \in [type : Types, open : BOOLEAN] /\ apps' = Append(s, r)
      BY <1>0, <2>3, <3>1, <3>2
    <3>5. QED
      BY <3>3, <3>4, AppendTypes
  <2>4. QED
    BY <2>1, <2>2, <2>3
<1>2. CASE CreateEntity(c)
  <2>1. PICK r : r = [type |-> new[c].type, open |-> TRUE]
    OBVIOUS
  <2>2. r \in [type : Types, open : BOOLEAN] /\ apps' = Append(apps, r)
    BY <1>0, <1>2, <2>1 DEF CreateEntity, Created
  <2>3. QED
    BY <1>0, <2>2, AppendTypes
<1>3. CASE Release(c)
  <2>1. apps' = apps \/ \E t \in Types, n \in Nat : apps' = Closed(appenders[t][n])
    BY <1>0, <1>3 DEF Release, ShutEntity, TypeInv, MountOK
  <2>2. QED
    BY <2>1, SameTypes, ClosedTypes
<1>4. CASE UnInitConsole(c)
  BY <1>4, ClosedTypes DEF UnInitConsole
<1>5. CASE UnInitEntity(c)
  <2>1. PICK e \in ents[c] : apps' = Closed(appenders[e[1]][e[2]])
    BY <1>5 DEF UnInitEntity, ShutEntity
  <2>2. QED
    BY <2>1, ClosedTypes
<1>6. CASE Calls(c)
  <2>1. apps' = apps
    BY <1>6 DEF Calls, InitCall, SetLogLevelCall, SetWriteCall, FlushCall, CloseCall, Call, mountVars
  <2>2. QED
    BY <2>1, SameTypes
<1>7. CASE InitCheck(c) \/ InitLock(c) \/ InitPlan(c) \/ InitNext(c) \/ InitFinish(c)
  <2>1. apps' = apps
    BY <1>7 DEF InitCheck, InitLock, InitPlan, InitNext, InitFinish, mountVars
  <2>2. QED
    BY <2>1, SameTypes
<1>8. CASE Mount(c) \/ Attach(c) \/ Register(c) \/ LevelStep(c) \/ SetWriteCheck(c)
  <2>1. apps' = apps
    BY <1>8 DEF Mount, Attach, Register, LevelStep, StoreLevel, StoreMirror, SetWriteCheck, mountVars
  <2>2. QED
    BY <2>1, SameTypes
<1>9. CASE FlushLock(c) \/ FlushDone(c) \/ UnInitCheck(c) \/ UnInitLock(c) \/ UnInitReset(c)
           \/ UnInitCollect(c) \/ UnInitFinish(c)
  <2>1. apps' = apps
    BY <1>9 DEF FlushLock, FlushDone, UnInitCheck, UnInitLock, UnInitReset, UnInitCollect,
                UnInitFinish, mountVars
  <2>2. QED
    BY <2>1, SameTypes
<1>10. QED
  BY <1>1, <1>2, <1>3, <1>4, <1>5, <1>6, <1>7, <1>8, <1>9
     DEF CallerStep, InitStep, MountStep, SwitchStep, CloseStep

\* A call leaves the writers alone, but for the note that it has begun.
LEMMA CallerElsewhere ==
  ASSUME TypeInv, NEW c \in Callers, Calls(c) \/ CallerStep(c)
  PROVE  /\ UNCHANGED writeVars
         /\ Calls(c) \/ quiet' = quiet
<1>1. CASE Calls(c)
  BY <1>1 DEF Calls, InitCall, SetLogLevelCall, SetWriteCall, FlushCall, CloseCall, Call
<1>2. CASE InitStep(c)
  BY <1>2 DEF InitStep, InitCheck, InitLock, InitConsole, InitPlan, InitNext, InitFinish, elsewhere
<1>3. CASE MountStep(c) \/ LevelStep(c) \/ SwitchStep(c)
  BY <1>3 DEF MountStep, CreateEntity, Mount, Attach, Register, LevelStep, StoreLevel, StoreMirror,
              SwitchStep, SetWriteCheck, Release, elsewhere
<1>4. CASE CloseStep(c)
  BY <1>4 DEF CloseStep, FlushLock, FlushDone, UnInitCheck, UnInitLock, UnInitConsole, UnInitReset,
              UnInitCollect, UnInitEntity, UnInitFinish, elsewhere
<1>5. QED
  BY <1>1, <1>2, <1>3, <1>4 DEF CallerStep

\* The only call that leaves a message undisturbed is Flush.
LEMMA QuietCaller ==
  ASSUME TypeInv, Orderly, NEW c \in Callers, Calls(c) \/ CallerStep(c),
         NEW w \in Writers, quiet'[w] = TRUE, quiet[w] = TRUE => Settled
  PROVE  quiet[w] = TRUE /\ Settled' /\ UNCHANGED <<settings, mountVars>>
<1>0. /\ op \in [Callers -> {"none", "init", "level", "on", "off", "flush", "close"}]
      /\ pc \in [Callers -> Places] /\ quiet \in [Writers -> BOOLEAN] /\ Placed(op[c], pc[c])
  BY DEF TypeInv, CallOK, CountOK, Orderly, InPlace
<1>1. CASE Calls(c)
  <2>1. ASSUME NEW name, NEW place, Call(c, name, place)
        PROVE  quiet[w] = TRUE /\ name = "flush" /\ op' = [op EXCEPT ![c] = name]
    <3>1. quiet' = [v \in Writers |-> quiet[v] /\ name = "flush"]
      BY <2>1 DEF Call
    <3>2. quiet'[w] <=> quiet[w] /\ name = "flush"
      BY <3>1
    <3>3. quiet[w] /\ name = "flush"
      BY <3>2
    <3>4. QED
      BY <1>0, <2>1, <3>3 DEF Call
  <2>2. quiet[w] = TRUE
    <3>1. \E name, place : Call(c, name, place)
      BY <1>1 DEF Calls, InitCall, SetLogLevelCall, SetWriteCall, FlushCall, CloseCall
    <3>2. QED
      BY <2>1, <3>1
  <2>3. \A name, place : Call(c, name, place) => name = "flush"
    BY <2>1
  <2>4. FlushCall(c)
    BY <1>1, <2>3 DEF Calls, InitCall, SetLogLevelCall, SetWriteCall, CloseCall
  <2>5. UNCHANGED <<settings, mountVars>>
    BY <2>4 DEF FlushCall, Call, settings
  <2>6. op' = [op EXCEPT ![c] = "flush"]
    BY <2>1, <2>4 DEF FlushCall
  <2>7. Settled'
    BY <1>0, <2>2, <2>6 DEF Settled
  <2>8. QED
    BY <2>2, <2>5, <2>7
<1>2. CASE CallerStep(c) /\ ~Calls(c)
  <2>1. quiet[w] = TRUE /\ Settled
    BY <1>2, CallerElsewhere
  <2>2. pc[c] \in {"idle", "flush", "flushing"} /\ op[c] \in {"none", "flush"}
    BY <1>0, <2>1 DEF Settled, Placed
  <2>3. FlushLock(c) \/ FlushDone(c)
    <3>1. ~InitStep(c)
      BY <2>2 DEF InitStep, InitCheck, InitLock, InitConsole, InitPlan, InitNext, InitFinish
    <3>2. ~MountStep(c) /\ ~LevelStep(c) /\ ~SwitchStep(c)
      BY <2>2 DEF MountStep, CreateEntity, Mount, Attach, Register, LevelStep, StoreLevel, StoreMirror,
                  SwitchStep, SetWriteCheck, Release
    <3>3. CloseStep(c) => FlushLock(c) \/ FlushDone(c)
      BY <2>2 DEF CloseStep, UnInitCheck, UnInitLock, UnInitConsole, UnInitReset,
                  UnInitCollect, UnInitEntity, UnInitFinish
    <3>4. QED
      BY <1>2, <3>1, <3>2, <3>3 DEF CallerStep
  <2>4. op'[c] \in {op[c], "none"} /\ \A d \in Callers \ {c} : op'[d] = op[d]
    BY <1>0, <2>3 DEF FlushLock, FlushDone, Goto, Return
  <2>5. Settled'
    BY <2>1, <2>4 DEF Settled
  <2>6. QED
    BY <2>1, <2>3, <2>5 DEF FlushLock, FlushDone
<1>3. QED
  BY <1>1, <1>2

\* Both flags are set by nobody but UnInit, which clears the first one before
\* it ends.
LEMMA FlagsCaller ==
  ASSUME TypeInv, FlagsOK, NEW c \in Callers, Calls(c) \/ CallerStep(c)
  PROVE  FlagsOK'
<1>0. pc \in [Callers -> Places]
  BY DEF TypeInv, CallOK
<1>1. ASSUME UNCHANGED lifeVars, pc[c] \in Shutting => pc'[c] \in Shutting,
             \A d \in Callers \ {c} : pc'[d] = pc[d]
      PROVE  FlagsOK'
  <2>1. bInit' = bInit /\ bExit' = bExit
    BY <1>1 DEF lifeVars
  <2>2. (\E d \in Callers : pc[d] \in Shutting) => \E d \in Callers : pc'[d] \in Shutting
    BY <1>1
  <2>3. QED
    BY <2>1, <2>2 DEF FlagsOK
<1>2. CASE Calls(c)
  <2>1. UNCHANGED lifeVars /\ pc[c] = "idle" /\ \A d \in Callers \ {c} : pc'[d] = pc[d]
    BY <1>0, <1>2 DEF Calls, InitCall, SetLogLevelCall, SetWriteCall, FlushCall, CloseCall, Call
  <2>2. QED
    BY <1>1, <2>1 DEF Shutting
<1>3. CASE InitCheck(c) \/ InitConsole(c) \/ InitPlan(c) \/ InitNext(c) \/ MountStep(c) \/ LevelStep(c) \/ SwitchStep(c)
  <2>1. UNCHANGED lifeVars /\ pc[c] \notin Shutting
    BY <1>3 DEF InitCheck, InitConsole, InitPlan, InitNext, MountStep, CreateEntity, Mount, Attach, Register,
                LevelStep, StoreLevel, StoreMirror, SwitchStep, SetWriteCheck, Release, settings, Shutting
  <2>2. \A d \in Callers \ {c} : pc'[d] = pc[d]
    BY <1>0, <1>3 DEF InitCheck, InitConsole, InitPlan, InitNext, MountStep, CreateEntity, Mount, Attach, Register,
                LevelStep, StoreLevel, StoreMirror, SwitchStep, SetWriteCheck, Release, Goto, Return
  <2>3. QED
    BY <1>1, <2>1, <2>2
<1>4. CASE InitLock(c)
  <2>1. bInit' = bInit /\ bExit' = bExit /\ pc[c] = "lock" /\ \A d \in Callers \ {c} : pc'[d] = pc[d]
    BY <1>0, <1>4 DEF InitLock, Goto, Return
  <2>2. QED
    BY <2>1 DEF FlagsOK, Shutting
<1>5. CASE InitFinish(c)
  BY <1>5 DEF InitFinish, FlagsOK
<1>6. CASE UnInitLock(c)
  <2>1. CASE bInit
    <3>1. pc'[c] = "exit"
      BY <1>0, <1>6, <2>1 DEF UnInitLock, Goto
    <3>2. QED
      BY <3>1 DEF FlagsOK, Shutting
  <2>2. CASE ~bInit
    BY <1>6, <2>2 DEF UnInitLock, FlagsOK
  <2>3. QED
    BY <2>1, <2>2
<1>7. CASE FlushLock(c) \/ FlushDone(c) \/ UnInitCheck(c) \/ UnInitConsole(c) \/ UnInitReset(c)
           \/ UnInitCollect(c) \/ UnInitEntity(c)
  <2>1. UNCHANGED lifeVars
    BY <1>7 DEF FlushLock, FlushDone, UnInitCheck, UnInitConsole, UnInitReset, UnInitCollect, UnInitEntity, settings
  <2>2. \A d \in Callers \ {c} : pc'[d] = pc[d]
    BY <1>0, <1>7 DEF FlushLock, FlushDone, UnInitCheck, UnInitConsole, UnInitReset, UnInitCollect, UnInitEntity, Goto, Return
  <2>3. pc[c] \in Shutting => pc'[c] \in Shutting
    BY <1>0, <1>7 DEF FlushLock, FlushDone, UnInitCheck, UnInitConsole, UnInitReset, UnInitCollect, UnInitEntity, Goto, Shutting
  <2>4. QED
    BY <1>1, <2>1, <2>2, <2>3
<1>8. CASE UnInitFinish(c)
  BY <1>8 DEF UnInitFinish, FlagsOK
<1>9. QED
  BY <1>2, <1>3, <1>4, <1>5, <1>6, <1>7, <1>8 DEF CallerStep, InitStep, CloseStep

\* A writer that does not move keeps what it had.
Stands(w) == /\ wpc'[w] = wpc[w] /\ message'[w] = message[w] /\ targets'[w] = targets[w]
             /\ snapshot'[w] = snapshot[w] /\ reached'[w] = reached[w]

LEMMA RouteStands ==
  ASSUME TypeInv, TypesKept, NEW w \in Writers, RouteOK(w), Stands(w)
  PROVE  RouteOK(w)'
<1>1. /\ \A i \in DOMAIN reached[w] : reached[w][i] \in App
      /\ \A a \in snapshot[w] : a \in App
  <2>1. reached[w] \in Seq(App) /\ snapshot[w] \in SUBSET App
    BY DEF TypeInv, WriteOK
  <2>2. QED
    BY <2>1, ElementOfSeq
<1>2. /\ \A i \in DOMAIN reached[w] : apps'[reached[w][i]].type = apps[reached[w][i]].type
      /\ \A a \in snapshot[w] : apps'[a].type = apps[a].type
  BY <1>1 DEF TypesKept
<1>3. Clear(w)' /\ Goal(w)' = Goal(w)
  BY DEF RouteOK, Clear, Stands, Goal
<1>4. Past(w)'
  BY <1>2, <1>3 DEF RouteOK, Past, Stands
<1>5. Present(w)'
  BY <1>2, <1>3 DEF RouteOK, Present, Stands
<1>6. Later(w)'
  BY <1>2, <1>3 DEF RouteOK, Later, Stands
<1>7. QED
  BY <1>3, <1>4, <1>5, <1>6 DEF RouteOK

LEMMA QuietStands ==
  ASSUME NEW w \in Writers, QuietOK(w), Stands(w),
         quiet'[w] = TRUE => quiet[w] = TRUE /\ Settled' /\ UNCHANGED <<settings, mountVars>>
  PROVE  QuietOK(w)'
<1> SUFFICES ASSUME quiet'[w] = TRUE, quiet[w] = TRUE, Settled', UNCHANGED <<settings, mountVars>> PROVE QuietOK(w)'
  BY DEF QuietOK
<1>1. bInit' = bInit /\ level' = level /\ apps' = apps /\ appenders' = appenders /\ App' = App
  BY DEF settings, lifeVars, levelVars, mountVars, App
<1>2. Entered(message[w])' <=> Entered(message[w])
  BY <1>1 DEF Entered, EntryLevel, Stands
<1>3. Wanted(message[w])' <=> Wanted(message[w])
  BY <1>1 DEF Wanted, EntryLevel, LevelForType, Stands
<1>4. ASSUME NEW a \in App
      PROVE  /\ Due(w, a)' <=> Due(w, a)
             /\ Took(w, a)' <=> Took(w, a)
             /\ Sees(w, a)' <=> Sees(w, a)
  BY <1>1 DEF Due, Goal, Took, Sees, Open, Stands
<1>5. QED
  BY <1>1, <1>2, <1>3, <1>4 DEF QuietOK, Stands

LEMMA CallerRoutes ==
  ASSUME RouteInv, NEW c \in Callers, Calls(c) \/ CallerStep(c), NEW w \in Writers
  PROVE  WriterOK(w)'
<1>1. TypeInv /\ Orderly /\ RouteOK(w) /\ QuietOK(w)
  BY DEF RouteInv, MountInv, WriterOK
<1>2. Stands(w)
  BY <1>1, CallerElsewhere DEF Stands, writeVars
<1>3. RouteOK(w)'
  BY <1>1, <1>2, CallerTypes, RouteStands
<1>4. quiet'[w] = TRUE => quiet[w] = TRUE /\ Settled' /\ UNCHANGED <<settings, mountVars>>
  BY <1>1, QuietCaller DEF QuietOK
<1>5. QuietOK(w)'
  BY <1>1, <1>2, <1>4, QuietStands
<1>6. QED
  BY <1>3, <1>5 DEF WriterOK

-----------------------------------------------------------------------------
(* The writers. *)

LEMMA WriterAlone ==
  ASSUME TypeInv, NEW w \in Writers, (\E t \in Types, via \in Entries : WriteCall(w, t, via)) \/ WriterStep(w)
  PROVE  \A v \in Writers \ {w} : Stands(v) /\ quiet'[v] = quiet[v]
<1>1. /\ wpc \in [Writers -> {"idle", "flags", "route", "write", "done"}]
      /\ message \in [Writers -> [type : Types, via : Entries]] /\ targets \in [Writers -> Seq(Types \X Nat)]
      /\ snapshot \in [Writers -> SUBSET App] /\ reached \in [Writers -> Seq(App)] /\ quiet \in [Writers -> BOOLEAN]
  BY DEF TypeInv, WriteOK, CountOK
<1>2. CASE \E t \in Types, via \in Entries : WriteCall(w, t, via)
  BY <1>1, <1>2 DEF WriteCall, Stands
<1>3. CASE CheckFlags(w) \/ WriteDone(w)
  BY <1>1, <1>3 DEF CheckFlags, WriteDone, Stands
<1>4. CASE Route(w)
  BY <1>1, <1>4 DEF Route, Stands
<1>5. CASE WriteAppender(w)
  BY <1>1, <1>5 DEF WriteAppender, Stands
<1>6. CASE WriteEntity(w)
  BY <1>1, <1>6 DEF WriteEntity, Stands
<1>7. CASE WriteReturn(w)
  BY <1>1, <1>7 DEF WriteReturn, Stands
<1>8. QED
  BY <1>2, <1>3, <1>4, <1>5, <1>6, <1>7 DEF WriterStep

\* The state that a writer leaves alone.
LEMMA MountedSame ==
  ASSUME UNCHANGED <<settings, mountVars, callVars>>
  PROVE  /\ apps' = apps /\ App' = App /\ appenders' = appenders /\ bInit' = bInit /\ level' = level
         /\ op' = op /\ Settled' = Settled
<1>1. UNCHANGED <<apps, appenders, bInit, level, op>>
  BY DEF settings, lifeVars, levelVars, mountVars, callVars
<1>2. QED
  BY <1>1 DEF App, Settled

LEMMA NothingYet ==
  ASSUME NEW w \in Writers, wpc'[w] # "write", targets'[w] = <<>>, snapshot'[w] = {}, reached'[w] = <<>>
  PROVE  RouteOK(w)'
<1>1. DOMAIN reached'[w] = {} /\ DOMAIN targets'[w] = {}
  OBVIOUS
<1>2. QED
  BY <1>1 DEF RouteOK, Clear, Past, Present, Later

LEMMA TookNothing ==
  ASSUME NEW w \in Writers, reached'[w] = <<>>, NEW a
  PROVE  ~Took(w, a)'
<1>1. DOMAIN reached'[w] = {}
  OBVIOUS
<1>2. QED
  BY <1>1 DEF Took

\* At the entry the mirror stands for the level.
LEMMA CallRoutes ==
  ASSUME RouteInv, NEW w \in Writers, NEW t \in Types, NEW via \in Entries, WriteCall(w, t, via)
  PROVE  WriterOK(w)'
<1>0. TypeInv /\ Orderly /\ RouteOK(w) /\ FiltersMove
  BY DEF RouteInv, MountInv, WriterOK
<1>1. /\ wpc[w] = "idle" /\ UNCHANGED <<settings, mountVars, callVars>> /\ UNCHANGED <<targets, snapshot, reached>>
      /\ message' = [message EXCEPT ![w] = [type |-> t, via |-> via]]
      /\ quiet' = [quiet EXCEPT ![w] = Settled]
      /\ wpc' = [wpc EXCEPT ![w] = IF via = "api" => EntryLevel(t) \in mirror THEN "flags" ELSE "done"]
  BY DEF WriteCall, Settled
<1>2. /\ message'[w].type = t /\ message'[w].via = via
      /\ wpc'[w] = IF via = "api" => EntryLevel(t) \in mirror THEN "flags" ELSE "done"
  BY <1>0, <1>1 DEF TypeInv, WriteOK
<1>3. quiet'[w] <=> Settled
  BY <1>0, <1>1 DEF TypeInv, CountOK
<1>4. targets'[w] = <<>> /\ snapshot'[w] = {} /\ reached'[w] = <<>>
  BY <1>0, <1>1 DEF RouteOK, Clear
<1>5. RouteOK(w)'
  BY <1>2, <1>4, NothingYet
<1>6. ASSUME quiet'[w] = TRUE
      PROVE  /\ Settled' /\ wpc'[w] \in {"flags", "done"}
             /\ wpc'[w] = "flags" => Entered(message[w])'
             /\ wpc'[w] = "done" => ~Wanted(message[w])'
  <2>1. Settled
    BY <1>3, <1>6
  <2>2. mirror = level
    <3>1. \A c \in Callers : pc[c] # "mirror"
      BY <1>0, <2>1 DEF Orderly, InPlace, Placed, Settled
    <3>2. QED
      BY <1>0, <3>1 DEF FiltersMove
  <2>3. level' = level /\ Settled' = Settled
    BY <1>1, MountedSame
  <2>4. QED
    BY <1>2, <2>1, <2>2, <2>3 DEF Entered, Wanted, EntryLevel
<1>7. QuietOK(w)'
  BY <1>4, <1>6, TookNothing DEF QuietOK
<1>8. QED
  BY <1>5, <1>7 DEF WriterOK

\* With no call at work the logger is initialised, or not, and not half.
LEMMA FlagsRoutes ==
  ASSUME RouteInv, NEW w \in Writers, CheckFlags(w)
  PROVE  WriterOK(w)'
<1>0. TypeInv /\ Orderly /\ RouteOK(w) /\ QuietOK(w) /\ FlagsOK
  BY DEF RouteInv, MountInv, WriterOK
<1>1. /\ wpc[w] = "flags" /\ UNCHANGED <<settings, mountVars, callVars>>
      /\ UNCHANGED <<message, targets, snapshot, reached, quiet>>
      /\ wpc' = [wpc EXCEPT ![w] = IF bInit /\ ~bExit THEN "route" ELSE "done"]
  BY DEF CheckFlags
<1>2. wpc'[w] = IF bInit /\ ~bExit THEN "route" ELSE "done"
  BY <1>0, <1>1 DEF TypeInv, WriteOK
<1>3. targets'[w] = <<>> /\ snapshot'[w] = {} /\ reached'[w] = <<>>
  BY <1>0, <1>1 DEF RouteOK, Clear
<1>4. RouteOK(w)'
  BY <1>2, <1>3, NothingYet
<1>5. /\ level' = level /\ Settled' = Settled /\ bInit' = bInit /\ bInit \in BOOLEAN
  BY <1>0, <1>1, MountedSame DEF TypeInv, SettingsOK
<1>6. ASSUME quiet'[w] = TRUE
      PROVE  /\ Settled' /\ Entered(message[w])'
             /\ wpc'[w] = "route" => bInit' = TRUE
             /\ wpc'[w] = "done" => bInit' = FALSE
  <2>1. Settled /\ Entered(message[w])
    BY <1>0, <1>1, <1>6 DEF QuietOK
  <2>2. ~(bInit /\ bExit)
    BY <1>0, <2>1 DEF FlagsOK, Orderly, InPlace, Placed, Settled, Shutting
  <2>3. Entered(message[w])'
    BY <1>1, <1>5, <2>1 DEF Entered
  <2>4. QED
    BY <1>2, <1>5, <2>1, <2>2, <2>3
<1>7. QuietOK(w)'
  BY <1>2, <1>3, <1>6, TookNothing DEF QuietOK
<1>8. QED
  BY <1>4, <1>7 DEF WriterOK

\* What route chooses, with no call at work: the entity of the message's type
\* and Main's, with what the factory holds of the two.
LEMMA TargetsAre ==
  ASSUME TypeInv, NEW t \in Types
  PROVE  /\ 1 \in DOMAIN Targets(t) /\ Targets(t)[1] = <<t, entity[t]>>
         /\ \A k \in DOMAIN Targets(t) \ {1} :
              k = 2 /\ t # Main /\ HasAppender(Main) /\ Targets(t)[k] = <<Main, entity[Main]>>
         /\ t # Main /\ HasAppender(Main) => 2 \in DOMAIN Targets(t)
<1>1. PICK own : own = <<t, entity[t]>>
  OBVIOUS
<1>2. PICK main : main = <<Main, entity[Main]>>
  OBVIOUS
<1>3. CASE t # Main /\ HasAppender(Main)
  <2>1. Targets(t) = <<own>> \o <<main>>
    BY <1>1, <1>2, <1>3 DEF Targets
  <2>2. /\ <<own>> \in Seq({own, main}) /\ Len(<<own>>) = 1 /\ <<own>>[1] = own
        /\ <<main>> \in Seq({own, main}) /\ Len(<<main>>) = 1 /\ <<main>>[1] = main
    OBVIOUS
  <2>3. /\ Targets(t) \in Seq({own, main}) /\ Len(Targets(t)) = 2
        /\ Targets(t)[1] = own /\ Targets(t)[2] = main
    BY <2>1, <2>2, ConcatProperties
  <2>4. DOMAIN Targets(t) = {1, 2} /\ Targets(t)[1] = own /\ Targets(t)[2] = main
    BY <2>3, LenProperties
  <2>5. QED
    BY <1>1, <1>2, <1>3, <2>4
<1>4. CASE ~(t # Main /\ HasAppender(Main))
  <2>1. Targets(t) = <<own>> \o <<>>
    BY <1>1, <1>4 DEF Targets
  <2>2. Targets(t) = <<own>>
    BY <2>1
  <2>3. DOMAIN Targets(t) = {1} /\ Targets(t)[1] = own
    BY <2>2
  <2>4. QED
    BY <1>1, <1>4, <2>3
<1>5. QED
  BY <1>3, <1>4

\* With no call at work what is open is the console and what the control's
\* entities hold.
LEMMA SettledHolds ==
  ASSUME MountInv, Settled
  PROVE  /\ \A t \in Types : appenders[t][entity[t]] = Holding[t]
         /\ \A a \in App : Open(a) => a = consoleApp \/ a \in Holding[apps[a].type]
<1>1. PICK c \in Callers : Sound(c) /\ Mounting(c)
  BY SomeGood DEF Good
<1>2. HeldSound /\ TypeInv
  BY DEF MountInv, MountGood
<1>3. pc[c] \in {"idle", "flush", "flushing"}
  BY DEF MountInv, Orderly, InPlace, Placed, Settled
<1>4. \A t \in Types : appenders[t][entity[t]] = Holding[t]
  BY <1>1, <1>2, MountedHeld DEF Sound
<1>5. QED
  BY <1>1, <1>3, <1>4 DEF Sound, OpenSound, Pending

\* route: all that is due is before the writer.
LEMMA RouteRoutes ==
  ASSUME RouteInv, NEW w \in Writers, Route(w)
  PROVE  WriterOK(w)'
<1>0. TypeInv /\ MountInv /\ HeldSound /\ RouteOK(w) /\ QuietOK(w)
  BY DEF RouteInv, MountInv, MountGood, WriterOK
<1>1. /\ wpc[w] = "route" /\ UNCHANGED <<settings, mountVars, callVars>>
      /\ UNCHANGED <<message, reached, quiet>>
  BY DEF Route
<1>2. /\ apps' = apps /\ App' = App /\ appenders' = appenders /\ bInit' = bInit /\ level' = level
      /\ Settled' = Settled
  BY <1>1, MountedSame
<1>3. reached'[w] = <<>> /\ targets[w] = <<>> /\ snapshot[w] = {}
  BY <1>0, <1>1 DEF RouteOK, Clear
<1>4. PICK t \in Types : t = message[w].type
  BY <1>0 DEF TypeInv, WriteOK
<1>5. CASE message[w].via # "direct" /\ LevelForType(message[w].type) \notin level
  <2>1. wpc'[w] = "done" /\ targets'[w] = <<>> /\ snapshot'[w] = {}
    BY <1>0, <1>3, <1>5 DEF Route, TypeInv, WriteOK
  <2>2. RouteOK(w)'
    BY <1>3, <2>1, NothingYet
  <2>3. ~Wanted(message[w])'
    BY <1>1, <1>2, <1>5 DEF Wanted, LevelForType
  <2>4. quiet'[w] = TRUE => Settled'
    BY <1>0, <1>1, <1>2 DEF QuietOK
  <2>5. QuietOK(w)'
    BY <1>3, <2>1, <2>3, <2>4, TookNothing DEF QuietOK
  <2>6. QED
    BY <2>2, <2>5 DEF WriterOK
<1>6. CASE message[w].via # "direct" => LevelForType(message[w].type) \in level
  <2>1. wpc'[w] = "write" /\ targets'[w] = Targets(t) /\ snapshot'[w] = {consoleApp} \ {NoApp}
    BY <1>0, <1>4, <1>6 DEF Route, TypeInv, WriteOK
  <2>2. consoleApp # NoApp => consoleApp \in App /\ Open(consoleApp) /\ apps[consoleApp].type = Console
    BY <1>0 DEF HeldSound, ConsoleKept, TypeInv, MountOK
  <2>3. DOMAIN reached'[w] = {}
    BY <1>3
  <2>4. /\ 1 \in DOMAIN targets'[w] /\ targets'[w][1] = <<t, entity[t]>>
        /\ \A k \in DOMAIN targets'[w] \ {1} :
             k = 2 /\ t # Main /\ HasAppender(Main) /\ targets'[w][k] = <<Main, entity[Main]>>
        /\ t # Main /\ HasAppender(Main) => 2 \in DOMAIN targets'[w]
    BY <1>0, <2>1, TargetsAre
  <2>5. Goal(w)' = {t, Main, Console} /\ Goal(w) = {t, Main, Console}
    BY <1>1, <1>4 DEF Goal
  <2>6. Clear(w)' /\ Past(w)'
    BY <2>1, <2>3 DEF Clear, Past
  <2>7. Present(w)'
    BY <1>2, <2>1, <2>2, <2>3, <2>5 DEF Present
  <2>8. Later(w)'
    <3>1. \A k \in DOMAIN targets'[w] : targets'[w][k][1] = IF k = 1 THEN t ELSE Main
      BY <2>4
    <3>2. \A k \in DOMAIN targets'[w] : k = 1 \/ (k = 2 /\ t # Main)
      BY <2>4
    <3>3. \A a \in snapshot'[w] : apps'[a].type = Console
      BY <1>2, <2>1, <2>2
    <3>4. \A k, l \in DOMAIN targets'[w] : k # l => targets'[w][k][1] # targets'[w][l][1]
      BY <3>1, <3>2
    <3>5. \A k \in DOMAIN targets'[w] : targets'[w][k][1] \in Goal(w)'
      BY <2>5, <3>1
    <3>6. QED
      BY <2>3, <3>3, <3>4, <3>5 DEF Later
  <2>9. ASSUME quiet'[w] = TRUE
        PROVE  /\ Settled' /\ bInit' = TRUE /\ Wanted(message[w])'
               /\ \A a \in App : Sees(w, a)' <=> Due(w, a)'
    <3>1. Settled /\ bInit = TRUE /\ Entered(message[w])
      BY <1>0, <1>1, <2>9 DEF QuietOK
    <3>2. Wanted(message[w])'
      BY <1>1, <1>2, <1>6, <3>1 DEF Wanted, Entered, LevelForType, EntryLevel
    <3>3. /\ \A u \in Types : appenders[u][entity[u]] = Holding[u]
          /\ \A a \in App : Open(a) => a = consoleApp \/ a \in Holding[apps[a].type]
      BY <1>0, <3>1, SettledHolds
    <3>4. /\ \A u \in Types : \A a \in Holding[u] : apps[a].type = u /\ Open(a)
          /\ Holding[Console] = {}
      BY <1>0 DEF HeldSound, HeldOpen, ConsoleKept
    <3>5. HasAppender(Main) <=> Holding[Main] # {}
      BY <3>3, TypeFacts DEF HasAppender
    <3>6. NoApp \notin App
      BY <1>0, HoldingType
    <3>7. ASSUME NEW a \in App
          PROVE  /\ Due(w, a)' <=> Open(a) /\ apps[a].type \in {t, Main, Console}
                 /\ Sees(w, a)' <=> a = consoleApp \/ \E k \in DOMAIN targets'[w] :
                                       a \in appenders[targets'[w][k][1]][targets'[w][k][2]]
      <4>1. Due(w, a)' <=> Open(a) /\ apps[a].type \in {t, Main, Console}
        BY <1>2, <2>5 DEF Due, Open
      <4>2. ~Took(w, a)'
        BY <1>3, TookNothing
      <4>3. a \in snapshot'[w] <=> a = consoleApp
        BY <2>1, <3>6, <3>7
      <4>4. QED
        BY <1>2, <4>1, <4>2, <4>3 DEF Sees
    <3>8. ASSUME NEW a \in App, Due(w, a)' PROVE Sees(w, a)'
      <4>1. a = consoleApp \/ a \in Holding[apps[a].type]
        BY <3>3, <3>7, <3>8
      <4>2. CASE a \in Holding[t]
        <5>1. a \in appenders[targets'[w][1][1]][targets'[w][1][2]]
          BY <2>4, <3>3, <4>2
        <5>2. QED
          BY <2>4, <3>7, <5>1
      <4>3. CASE a \in Holding[Main] /\ t # Main
        <5>1. 2 \in DOMAIN targets'[w] /\ targets'[w][2] = <<Main, entity[Main]>>
          BY <2>4, <3>5, <4>3
        <5>2. a \in appenders[targets'[w][2][1]][targets'[w][2][2]]
          BY <3>3, <4>3, <5>1, TypeFacts
        <5>3. QED
          BY <3>7, <5>1, <5>2
      <4>4. apps[a].type \in {t, Main, Console}
        BY <3>7, <3>8
      <4>5. CASE a = consoleApp
        BY <3>7, <4>5
      <4>6. QED
        BY <3>4, <4>1, <4>2, <4>3, <4>4, <4>5
    <3>9. ASSUME NEW a \in App, Sees(w, a)' PROVE Due(w, a)'
      <4>1. CASE a = consoleApp
        BY <2>2, <3>6, <3>7, <4>1
      <4>2. CASE \E k \in DOMAIN targets'[w] : a \in appenders[targets'[w][k][1]][targets'[w][k][2]]
        <5>1. PICK k \in DOMAIN targets'[w] : a \in appenders[targets'[w][k][1]][targets'[w][k][2]]
          BY <4>2
        <5>2. targets'[w][k] = <<t, entity[t]>> \/ targets'[w][k] = <<Main, entity[Main]>>
          BY <2>4, <5>1
        <5>3. a \in Holding[t] \/ a \in Holding[Main]
          BY <3>3, <5>1, <5>2, TypeFacts
        <5>4. QED
          BY <3>4, <3>7, <5>3, TypeFacts
      <4>3. QED
        BY <3>7, <3>9, <4>1, <4>2
    <3>10. QED
      BY <1>2, <3>1, <3>2, <3>8, <3>9
  <2>10. QuietOK(w)'
    BY <1>2, <2>1, <2>9 DEF QuietOK
  <2>11. QED
    BY <2>6, <2>7, <2>8, <2>10 DEF WriterOK, RouteOK
<1>7. QED
  BY <1>5, <1>6

\* One more appender takes the message, or has been closed.
LEMMA AppenderRoutes ==
  ASSUME RouteInv, NEW w \in Writers, WriteAppender(w)
  PROVE  WriterOK(w)'
<1>0. TypeInv /\ RouteOK(w) /\ QuietOK(w) /\ quiet \in [Writers -> BOOLEAN]
  BY DEF RouteInv, MountInv, WriterOK, TypeInv, CountOK
<1>1. /\ wpc[w] = "write" /\ UNCHANGED <<settings, mountVars, callVars>>
      /\ UNCHANGED <<wpc, message, targets, quiet>>
  BY DEF WriteAppender
<1>2. /\ apps' = apps /\ App' = App /\ appenders' = appenders /\ bInit' = bInit /\ level' = level
      /\ Settled' = Settled
  BY <1>1, MountedSame
<1>3. PICK a \in snapshot[w] :
        /\ reached' = [reached EXCEPT ![w] = IF Open(a) THEN Append(@, a) ELSE @]
        /\ snapshot' = [snapshot EXCEPT ![w] = @ \ {a}]
  BY DEF WriteAppender
<1>4. /\ a \in App /\ reached[w] \in Seq(App)
      /\ reached'[w] = IF Open(a) THEN Append(reached[w], a) ELSE reached[w]
      /\ snapshot'[w] = snapshot[w] \ {a}
  BY <1>0, <1>3 DEF TypeInv, WriteOK
<1>5. snapshot'[w] = {} /\ snapshot[w] = {a}
  BY <1>0, <1>3, <1>4 DEF RouteOK, Present
<1>6. PICK n \in Nat : n = Len(reached[w]) /\ DOMAIN reached[w] = 1..n
  BY <1>4, LenProperties
<1>7. /\ Open(a) => /\ DOMAIN reached'[w] = 1..(n + 1) /\ reached'[w][n + 1] = a
                    /\ \A i \in 1..n : reached'[w][i] = reached[w][i]
      /\ ~Open(a) => reached'[w] = reached[w]
  BY <1>4, <1>6
<1>8. Goal(w)' = Goal(w)
  BY <1>1 DEF Goal
<1>9. Clear(w)'
  BY <1>1 DEF Clear
<1>10. Past(w)' /\ Later(w)'
  <2>1. /\ apps[a].type \in Goal(w)
        /\ \A i \in DOMAIN reached[w] : apps[reached[w][i]].type # apps[a].type
        /\ \A k \in DOMAIN targets[w] : targets[w][k][1] # Console => apps[a].type # targets[w][k][1]
    BY <1>0, <1>3 DEF RouteOK, Present, Later
  <2>2. CASE ~Open(a)
    BY <1>0, <1>1, <1>2, <1>5, <1>7, <1>8, <2>2 DEF RouteOK, Past, Later
  <2>3. CASE Open(a)
    <3>1. \A i \in DOMAIN reached'[w] : \/ i \in 1..n /\ reached'[w][i] = reached[w][i]
                                        \/ i = n + 1 /\ reached'[w][i] = a
      BY <1>6, <1>7, <2>3
    <3>2. Past(w)'
      BY <1>0, <1>2, <1>6, <1>8, <2>1, <3>1 DEF RouteOK, Past
    <3>3. Later(w)'
      BY <1>0, <1>1, <1>2, <1>5, <1>6, <1>8, <2>1, <3>1 DEF RouteOK, Later
    <3>4. QED
      BY <3>2, <3>3
  <2>4. QED
    BY <2>2, <2>3
<1>11. Present(w)'
  BY <1>5 DEF Present
<1>12. ASSUME quiet'[w] = TRUE
       PROVE  /\ Settled' /\ bInit' = TRUE /\ Wanted(message[w])'
              /\ \A b \in App : Sees(w, b)' <=> Due(w, b)'
  <2>1. /\ Settled /\ bInit = TRUE /\ Wanted(message[w])
        /\ \A b \in App : Sees(w, b) <=> Due(w, b)
    BY <1>0, <1>1, <1>12 DEF QuietOK
  <2>2. Wanted(message[w])'
    BY <1>1, <1>2, <2>1 DEF Wanted, LevelForType, EntryLevel
  <2>3. Open(a)
    BY <1>3, <1>4, <2>1 DEF Sees, Due
  <2>4. ASSUME NEW b \in App
        PROVE  /\ Due(w, b)' <=> Due(w, b)
               /\ Sees(w, b)' <=> Sees(w, b)
    <3>1. Due(w, b)' <=> Due(w, b)
      BY <1>2, <1>8 DEF Due, Open
    <3>2. Took(w, b)' <=> Took(w, b) \/ b = a
      <4>1. \A i \in 1..n : i \in DOMAIN reached'[w] /\ reached'[w][i] = reached[w][i]
        BY <1>6, <1>7, <2>3
      <4>2. n + 1 \in DOMAIN reached'[w] /\ reached'[w][n + 1] = a
        BY <1>6, <1>7, <2>3
      <4>3. \A i \in DOMAIN reached'[w] : i \in 1..n \/ i = n + 1
        BY <1>6, <1>7, <2>3
      <4>4. QED
        BY <1>6, <4>1, <4>2, <4>3 DEF Took
    <3>3. Sees(w, b)' <=> Sees(w, b)
      BY <1>1, <1>2, <1>5, <3>2 DEF Sees
    <3>4. QED
      BY <3>1, <3>3
  <2>5. QED
    BY <1>2, <2>1, <2>2, <2>4
<1>13. QuietOK(w)'
  BY <1>1, <1>2, <1>12 DEF QuietOK
<1>14. QED
  BY <1>9, <1>10, <1>11, <1>13 DEF WriterOK, RouteOK

LEMMA TailOf ==
  ASSUME NEW S, NEW s \in Seq(S), s # <<>>
  PROVE  /\ 1 \in DOMAIN s /\ Head(s) = s[1] /\ s[1] \in S
         /\ \A k \in DOMAIN Tail(s) : k + 1 \in DOMAIN s /\ Tail(s)[k] = s[k + 1] /\ k + 1 # 1
         /\ \A k \in DOMAIN s : k = 1 \/ (k - 1 \in DOMAIN Tail(s) /\ Tail(s)[k - 1] = s[k])
         /\ \A k, l \in DOMAIN Tail(s) : k # l => k + 1 # l + 1
<1>1. Tail(s) \in Seq(S) /\ Len(Tail(s)) = Len(s) - 1 /\ Len(s) \in Nat /\ Len(s) # 0
  OBVIOUS
<1>2. DOMAIN s = 1..Len(s) /\ DOMAIN Tail(s) = 1..(Len(s) - 1)
  BY <1>1, LenProperties
<1>3. Head(s) = s[1] /\ 1 \in DOMAIN s
  BY <1>1, <1>2
<1>4. \A k \in 1..(Len(s) - 1) : Tail(s)[k] = s[k + 1]
  BY <1>1
<1>5. s[1] \in S
  BY <1>3, ElementOfSeq, <1>2
<1>6. \A k \in DOMAIN Tail(s) : k + 1 \in DOMAIN s /\ Tail(s)[k] = s[k + 1] /\ k + 1 # 1
  BY <1>1, <1>2, <1>4
<1>7. ASSUME NEW k \in DOMAIN s, k # 1 PROVE k - 1 \in DOMAIN Tail(s) /\ Tail(s)[k - 1] = s[k]
  <2>1. k \in Int /\ k - 1 \in 1..(Len(s) - 1) /\ (k - 1) + 1 = k
    BY <1>1, <1>2, <1>7
  <2>2. PICK j : j = k - 1
    OBVIOUS
  <2>3. Tail(s)[j] = s[j + 1] /\ j + 1 = k
    BY <1>4, <2>1, <2>2
  <2>4. QED
    BY <1>2, <2>1, <2>2, <2>3
<1>8. \A k, l \in DOMAIN Tail(s) : k # l => k + 1 # l + 1
  BY <1>2
<1>9. QED
  BY <1>3, <1>5, <1>6, <1>7, <1>8

\* What an entity holds when its turn comes is of its type, one and open; the
\* console's entity holds nothing.
LEMMA EntityHolds ==
  ASSUME TypeInv, HeldSound, NEW t \in Types, NEW n \in DOMAIN appenders[t]
  PROVE  /\ \A a \in appenders[t][n] : a \in App /\ apps[a].type = t /\ t # Console
         /\ \A a, b \in appenders[t][n] : a = b
<1>1. n # made[t] => appenders[t][n] = {}
  BY DEF HeldSound, OneEntity
<1>2. n # NoEntity
  <2>1. appenders[t] \in Seq(SUBSET App)
    BY DEF TypeInv, MountOK
  <2>2. DOMAIN appenders[t] = 1..Len(appenders[t])
    BY <2>1, LenProperties
  <2>3. QED
    BY <2>2 DEF NoEntity
<1>3. n = made[t] => appenders[t][n] = Holding[t]
  BY <1>2 DEF Holding
<1>4. /\ \A a \in Holding[t] : a \in App /\ apps[a].type = t
      /\ \A a, b \in Holding[t] : a = b
      /\ Holding[Console] = {}
  BY DEF HeldSound, HeldOpen, HeldOne, ConsoleKept
<1>5. QED
  BY <1>1, <1>3, <1>4

\* The next entity's turn.
LEMMA EntityRoutes ==
  ASSUME RouteInv, NEW w \in Writers, WriteEntity(w)
  PROVE  WriterOK(w)'
<1>0. TypeInv /\ HeldSound /\ RouteOK(w) /\ QuietOK(w) /\ targets[w] \in Seq(Types \X Nat)
  BY DEF RouteInv, MountInv, MountGood, WriterOK, TypeInv, WriteOK
<1>1. /\ wpc[w] = "write" /\ snapshot[w] = {} /\ targets[w] # <<>>
      /\ UNCHANGED <<settings, mountVars, callVars>> /\ UNCHANGED <<wpc, message, reached, quiet>>
  BY DEF WriteEntity
<1>2. /\ apps' = apps /\ App' = App /\ appenders' = appenders /\ bInit' = bInit /\ level' = level
      /\ Settled' = Settled
  BY <1>1, MountedSame
<1>3. PICK t, n : t = Head(targets[w])[1] /\ n = Head(targets[w])[2]
  OBVIOUS
<1>4. snapshot'[w] = appenders[t][n] /\ targets'[w] = Tail(targets[w])
  BY <1>0, <1>3 DEF WriteEntity, TypeInv, WriteOK
<1>5. /\ 1 \in DOMAIN targets[w] /\ targets[w][1] \in Types \X Nat
      /\ targets[w][1][1] = t /\ targets[w][1][2] = n
      /\ \A k \in DOMAIN targets'[w] : k + 1 \in DOMAIN targets[w] /\ targets'[w][k] = targets[w][k + 1] /\ k + 1 # 1
      /\ \A k \in DOMAIN targets[w] : k = 1 \/ (k - 1 \in DOMAIN targets'[w] /\ targets'[w][k - 1] = targets[w][k])
      /\ \A k, l \in DOMAIN targets'[w] : k # l => k + 1 # l + 1
  BY <1>0, <1>1, <1>3, <1>4, TailOf
<1>6. t \in Types /\ n \in DOMAIN appenders[t]
  BY <1>0, <1>5 DEF TypeInv, TargetsMade
<1>7. /\ \A a \in snapshot'[w] : a \in App /\ apps[a].type = t /\ t # Console
      /\ \A a, b \in snapshot'[w] : a = b
  BY <1>0, <1>4, <1>6, EntityHolds
<1>8. Goal(w)' = Goal(w)
  BY <1>1 DEF Goal
<1>9. Clear(w)' /\ Past(w)'
  BY <1>0, <1>1, <1>2, <1>8 DEF RouteOK, Clear, Past
<1>10. Present(w)'
  <2>1. t \in Goal(w) /\ (t # Console => \A i \in DOMAIN reached[w] : apps[reached[w][i]].type # t)
    BY <1>0, <1>5 DEF RouteOK, Later
  <2>2. QED
    BY <1>1, <1>2, <1>7, <1>8, <2>1 DEF Present
<1>11. Later(w)'
  <2>1. \A k \in DOMAIN targets'[w] :
          /\ targets'[w][k][1] \in Goal(w) /\ targets'[w][k][1] # t
          /\ targets'[w][k][1] # Console => \A i \in DOMAIN reached[w] : apps[reached[w][i]].type # targets'[w][k][1]
    BY <1>0, <1>5 DEF RouteOK, Later
  <2>2. \A k, l \in DOMAIN targets'[w] : k # l => targets'[w][k][1] # targets'[w][l][1]
    BY <1>0, <1>5 DEF RouteOK, Later
  <2>3. QED
    BY <1>1, <1>2, <1>7, <1>8, <2>1, <2>2 DEF Later
<1>12. ASSUME quiet'[w] = TRUE
       PROVE  /\ Settled' /\ bInit' = TRUE /\ Wanted(message[w])'
              /\ \A b \in App : Sees(w, b)' <=> Due(w, b)'
  <2>1. /\ Settled /\ bInit = TRUE /\ Wanted(message[w])
        /\ \A b \in App : Sees(w, b) <=> Due(w, b)
    BY <1>0, <1>1, <1>12 DEF QuietOK
  <2>2. Wanted(message[w])'
    BY <1>1, <1>2, <2>1 DEF Wanted, LevelForType, EntryLevel
  <2>3. ASSUME NEW b \in App
        PROVE  /\ Due(w, b)' <=> Due(w, b)
               /\ Sees(w, b)' <=> Sees(w, b)
    <3>1. Due(w, b)' <=> Due(w, b)
      BY <1>2, <1>8 DEF Due, Open
    <3>2. Took(w, b)' <=> Took(w, b)
      BY <1>1 DEF Took
    <3>3. (\E k \in DOMAIN targets[w] : b \in appenders[targets[w][k][1]][targets[w][k][2]])
            <=> \/ b \in appenders[t][n]
                \/ \E k \in DOMAIN targets'[w] : b \in appenders[targets'[w][k][1]][targets'[w][k][2]]
      <4>1. ASSUME NEW k \in DOMAIN targets[w], b \in appenders[targets[w][k][1]][targets[w][k][2]]
            PROVE  \/ b \in appenders[t][n]
                   \/ \E j \in DOMAIN targets'[w] : b \in appenders[targets'[w][j][1]][targets'[w][j][2]]
        BY <1>5, <4>1
      <4>2. ASSUME NEW k \in DOMAIN targets'[w], b \in appenders[targets'[w][k][1]][targets'[w][k][2]]
            PROVE  \E j \in DOMAIN targets[w] : b \in appenders[targets[w][j][1]][targets[w][j][2]]
        BY <1>5, <4>2
      <4>3. b \in appenders[t][n] => \E j \in DOMAIN targets[w] : b \in appenders[targets[w][j][1]][targets[w][j][2]]
        BY <1>5
      <4>4. QED
        BY <4>1, <4>2, <4>3
    <3>4. Sees(w, b)' <=> Sees(w, b)
      BY <1>1, <1>2, <1>4, <3>2, <3>3 DEF Sees
    <3>5. QED
      BY <3>1, <3>4
  <2>4. QED
    BY <1>2, <2>1, <2>2, <2>3
<1>13. QuietOK(w)'
  BY <1>1, <1>2, <1>12 DEF QuietOK
<1>14. QED
  BY <1>9, <1>10, <1>11, <1>13 DEF WriterOK, RouteOK

LEMMA DoneRoutes ==
  ASSUME RouteInv, NEW w \in Writers, WriteDone(w)
  PROVE  WriterOK(w)'
<1>0. TypeInv /\ RouteOK(w) /\ QuietOK(w)
  BY DEF RouteInv, MountInv, WriterOK
<1>1. /\ wpc[w] = "write" /\ snapshot[w] = {} /\ targets[w] = <<>>
      /\ UNCHANGED <<settings, mountVars, callVars>>
      /\ UNCHANGED <<message, targets, snapshot, reached, quiet>>
  BY DEF WriteDone
<1>2. /\ apps' = apps /\ App' = App /\ appenders' = appenders /\ bInit' = bInit /\ level' = level
      /\ Settled' = Settled
  BY <1>1, MountedSame
<1>3. wpc'[w] = "done"
  BY <1>0 DEF WriteDone, TypeInv, WriteOK
<1>4. Goal(w)' = Goal(w) /\ DOMAIN targets[w] = {}
  BY <1>1 DEF Goal
<1>5. RouteOK(w)'
  BY <1>0, <1>1, <1>2, <1>3, <1>4 DEF RouteOK, Clear, Past, Present, Later
<1>6. ASSUME quiet'[w] = TRUE
      PROVE  /\ Settled' /\ bInit' = TRUE /\ Wanted(message[w])'
             /\ \A b \in App : Took(w, b)' <=> Due(w, b)'
  <2>1. /\ Settled /\ bInit = TRUE /\ Wanted(message[w])
        /\ \A b \in App : Sees(w, b) <=> Due(w, b)
    BY <1>0, <1>1, <1>6 DEF QuietOK
  <2>2. Wanted(message[w])'
    BY <1>1, <1>2, <2>1 DEF Wanted, LevelForType, EntryLevel
  <2>3. ASSUME NEW b \in App
        PROVE  (Due(w, b)' <=> Due(w, b)) /\ (Took(w, b)' <=> Sees(w, b))
    BY <1>1, <1>2, <1>4 DEF Due, Open, Took, Sees
  <2>4. QED
    BY <1>2, <2>1, <2>2, <2>3
<1>7. QuietOK(w)'
  BY <1>2, <1>3, <1>6 DEF QuietOK
<1>8. QED
  BY <1>5, <1>7 DEF WriterOK

LEMMA ReturnRoutes ==
  ASSUME RouteInv, NEW w \in Writers, WriteReturn(w)
  PROVE  WriterOK(w)'
<1>0. TypeInv /\ RouteOK(w)
  BY DEF RouteInv, MountInv, WriterOK
<1>1. /\ wpc[w] = "done" /\ UNCHANGED <<targets, snapshot>>
      /\ wpc'[w] = "idle" /\ reached'[w] = <<>> /\ quiet'[w] = FALSE
  BY <1>0 DEF WriteReturn, TypeInv, WriteOK, CountOK
<1>2. targets'[w] = <<>> /\ snapshot'[w] = {}
  BY <1>0, <1>1 DEF RouteOK, Clear
<1>3. RouteOK(w)'
  BY <1>1, <1>2, NothingYet
<1>4. QED
  BY <1>1, <1>3 DEF WriterOK, QuietOK

LEMMA WriterRoutes ==
  ASSUME RouteInv, NEW w \in Writers, (\E t \in Types, via \in Entries : WriteCall(w, t, via)) \/ WriterStep(w)
  PROVE  \A v \in Writers : WriterOK(v)'
<1>0. TypeInv /\ UNCHANGED <<settings, mountVars, callVars>>
  BY WriterElsewhere DEF RouteInv, MountInv
<1>1. WriterOK(w)'
  BY CallRoutes, FlagsRoutes, RouteRoutes, AppenderRoutes, EntityRoutes, DoneRoutes, ReturnRoutes DEF WriterStep
<1>2. ASSUME NEW v \in Writers \ {w} PROVE WriterOK(v)'
  <2>1. Stands(v) /\ quiet'[v] = quiet[v] /\ RouteOK(v) /\ QuietOK(v)
    BY <1>0, WriterAlone DEF RouteInv, WriterOK
  <2>2. TypesKept
    BY <1>0, MountedSame, SameTypes
  <2>3. Settled' = Settled
    BY <1>0, MountedSame
  <2>4. RouteOK(v)'
    BY <1>0, <2>1, <2>2, RouteStands
  <2>5. quiet'[v] = TRUE => quiet[v] = TRUE /\ Settled' /\ UNCHANGED <<settings, mountVars>>
    BY <1>0, <2>1, <2>3 DEF QuietOK
  <2>6. QuietOK(v)'
    BY <2>1, <2>5, QuietStands
  <2>7. QED
    BY <2>4, <2>6 DEF WriterOK
<1>3. QED
  BY <1>1, <1>2

-----------------------------------------------------------------------------
(* The theorem. *)

LEMMA RouteInit == Init => RouteInv
<1> SUFFICES ASSUME Init PROVE RouteInv
  OBVIOUS
<1>1. MountInv /\ FiltersMove
  BY MountInit, FilterInit DEF FilterInv
<1>2. FlagsOK
  BY DEF Init, FlagsOK
<1>3. ASSUME NEW w \in Writers PROVE WriterOK(w)
  <2>1. /\ wpc[w] = "idle" /\ targets[w] = <<>> /\ snapshot[w] = {} /\ reached[w] = <<>> /\ quiet[w] = FALSE
    BY DEF Init
  <2>2. DOMAIN targets[w] = {} /\ DOMAIN reached[w] = {}
    BY <2>1
  <2>3. RouteOK(w)
    BY <2>1, <2>2 DEF RouteOK, Clear, Past, Present, Later
  <2>4. QED
    BY <2>1, <2>3 DEF WriterOK, QuietOK
<1>4. QED
  BY <1>1, <1>2, <1>3 DEF RouteInv

LEMMA RouteNext == OrderlyUse /\ RouteInv /\ [Next]_vars => RouteInv'
<1> SUFFICES ASSUME OrderlyUse, RouteInv, [Next]_vars PROVE RouteInv'
  OBVIOUS
<1>1. MountInv' /\ FiltersMove'
  BY MountNext, FilterNext DEF RouteInv, MountInv, FilterInv
<1>2. ASSUME NEW c \in Callers, Calls(c) \/ CallerStep(c)
      PROVE  FlagsOK' /\ \A w \in Writers : WriterOK(w)'
  BY <1>2, FlagsCaller, CallerRoutes DEF RouteInv, MountInv
<1>3. ASSUME NEW w \in Writers, (\E t \in Types, via \in Entries : WriteCall(w, t, via)) \/ WriterStep(w)
      PROVE  FlagsOK' /\ \A v \in Writers : WriterOK(v)'
  <2>1. UNCHANGED <<bInit, bExit, pc>>
    BY <1>3, WriterElsewhere DEF settings, lifeVars, callVars
  <2>2. FlagsOK'
    BY <2>1 DEF RouteInv, FlagsOK
  <2>3. QED
    BY <1>3, <2>2, WriterRoutes
<1>4. CASE UNCHANGED vars
  <2>1. UNCHANGED <<bInit, bExit, pc, wpc, message, targets, snapshot, reached, quiet, apps>>
        /\ UNCHANGED <<settings, mountVars, callVars>>
    BY <1>4 DEF vars, settings, lifeVars, mountVars, callVars, elsewhere, writeVars
  <2>2. FlagsOK'
    BY <2>1 DEF RouteInv, FlagsOK
  <2>3. TypesKept /\ Settled' = Settled
    BY <2>1, SameTypes, MountedSame
  <2>4. ASSUME NEW w \in Writers PROVE WriterOK(w)'
    <3>1. Stands(w) /\ RouteOK(w) /\ QuietOK(w) /\ TypeInv
      BY <2>1 DEF Stands, RouteInv, WriterOK, MountInv
    <3>2. RouteOK(w)'
      BY <2>3, <3>1, RouteStands
    <3>3. quiet'[w] = TRUE => quiet[w] = TRUE /\ Settled' /\ UNCHANGED <<settings, mountVars>>
      BY <2>1, <2>3, <3>1 DEF QuietOK
    <3>4. QED
      BY <3>1, <3>2, <3>3, QuietStands DEF WriterOK
  <2>5. QED
    BY <1>1, <2>2, <2>4 DEF RouteInv
<1>5. QED
  BY <1>1, <1>2, <1>3, <1>4 DEF Next, RouteInv

LEMMA InvReaches == RouteInv => Reaches
<1> SUFFICES ASSUME RouteInv, NEW w \in Writers, wpc[w] = "done", NEW t, t = message[w].type
    PROVE  /\ \A i, j \in DOMAIN reached[w] : i # j => apps[reached[w][i]].type # apps[reached[w][j]].type
           /\ \A i \in DOMAIN reached[w] : apps[reached[w][i]].type \in {t, Main, Console}
           /\ quiet[w] => Range(reached[w]) = IF bInit /\ Wanted(message[w])
                                                THEN LiveOf(t) \cup LiveOf(Main) \cup LiveOf(Console)
                                                ELSE {}
  BY DEF Reaches
<1>0. TypeInv /\ RouteOK(w) /\ QuietOK(w)
  BY DEF RouteInv, MountInv, WriterOK
<1>1. \A i, j \in DOMAIN reached[w] : i # j => apps[reached[w][i]].type # apps[reached[w][j]].type
  BY <1>0 DEF RouteOK, Past
<1>2. \A i \in DOMAIN reached[w] : apps[reached[w][i]].type \in {t, Main, Console}
  BY <1>0 DEF RouteOK, Past, Goal
<1>3. ASSUME quiet[w]
      PROVE  Range(reached[w]) = IF bInit /\ Wanted(message[w])
                                   THEN LiveOf(t) \cup LiveOf(Main) \cup LiveOf(Console)
                                   ELSE {}
  <2>1. /\ quiet[w] = TRUE /\ bInit \in BOOLEAN
        /\ \A i \in DOMAIN reached[w] : reached[w][i] \in App
    <3>1. quiet[w] \in BOOLEAN /\ bInit \in BOOLEAN /\ reached[w] \in Seq(App)
      BY <1>0 DEF TypeInv, CountOK, WriteOK, SettingsOK
    <3>2. QED
      BY <1>3, <3>1, ElementOfSeq
  <2>2. \A a \in App : Took(w, a) <=> bInit = TRUE /\ Wanted(message[w]) /\ Due(w, a)
    BY <1>0, <2>1 DEF QuietOK
  <2>3. /\ Range(reached[w]) \subseteq App
        /\ \A a \in App : a \in Range(reached[w]) <=> Took(w, a)
    BY <2>1 DEF Took, Range
  <2>4. \A a \in App : Due(w, a) <=> a \in LiveOf(t) \cup LiveOf(Main) \cup LiveOf(Console)
    BY DEF Due, Goal, LiveOf
  <2>5. LiveOf(t) \cup LiveOf(Main) \cup LiveOf(Console) \subseteq App
    BY DEF LiveOf
  <2>6. CASE bInit /\ Wanted(message[w])
    <3>1. \A a \in App : a \in Range(reached[w]) <=> a \in LiveOf(t) \cup LiveOf(Main) \cup LiveOf(Console)
      BY <2>1, <2>2, <2>3, <2>4, <2>6
    <3>2. Range(reached[w]) = LiveOf(t) \cup LiveOf(Main) \cup LiveOf(Console)
      BY <2>3, <2>5, <3>1
    <3>3. QED
      BY <2>6, <3>2
  <2>7. CASE ~(bInit /\ Wanted(message[w]))
    <3>1. \A a \in App : a \notin Range(reached[w])
      BY <2>1, <2>2, <2>3, <2>7
    <3>2. Range(reached[w]) = {}
      BY <2>3, <3>1
    <3>3. QED
      BY <2>7, <3>2
  <2>8. QED
    BY <2>6, <2>7
<1>4. QED
  BY <1>1, <1>2, <1>3

\* A message reaches no two appenders of one type and none of a type that is
\* not its own, Main's or the console's, whatever is mounted and released
\* while it is on its way; and if no call has disturbed it, it reaches exactly
\* the open ones of these three types, or none if the logger is not
\* initialised or a level is off (logger.go 361-404).
THEOREM MessageReaches == OrderlyUse /\ Spec => []Reaches
<1>1. OrderlyUse /\ RouteInv /\ [Next]_vars => RouteInv'
  BY RouteNext
<1> SUFFICES ASSUME OrderlyUse PROVE Spec => []Reaches
  OBVIOUS
<1>2. Init => RouteInv
  BY RouteInit
<1>3. RouteInv /\ [Next]_vars => RouteInv'
  BY <1>1
<1>4. QED
  BY <1>2, <1>3, InvReaches, PTL DEF Spec
=============================================================================
