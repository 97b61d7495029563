----------------------------- MODULE Statistics -----------------------------
(***************************************************************************)
(* The counters of Statistics/statistics.go and the frame counters of      *)
(* Common/common.go they hold.  Every counter is an atomic of its own, and *)
(* nothing locks: writers count a line in several steps, Reset clears the  *)
(* counters one after the other, GetStats reads them one after the other.  *)
(* Bytes are counted and cleared next to lines, and are left out; so are   *)
(* the averages, which are quotients of a count and a time.  A type        *)
(* without counters of its own (LogTypeNone), which IncrementLine counts   *)
(* in the total only, is left out too.                                     *)
(***************************************************************************)
EXTENDS Integers, Sequences, FiniteSets

CONSTANTS
  Writers, Readers, Resetters,
  CountedTypes, \* the log types, in the order of the code: a sequence
  MaxLines,     \* bound of the model
  MaxVisits     \* bound of the model: the calls of Reset and GetStats together

Total    == "total"
TypeSet  == {CountedTypes[i] : i \in DOMAIN CountedTypes}
Counters == {Total} \cup TypeSet

ASSUME TypesAssumption == CountedTypes \in Seq(STRING) /\ Total \notin TypeSet

VARIABLES
  nLine,           \* per counter: nTotalLine, and nLine of each type
  nFrames,         \* per counter: the frames since the last update
  taken,           \* history: the frames that updates took since the last Reset
  writer, line,    \* per writer: its next step, and the number and type of its line
  clearing,        \* per resetter: the steps that are left of Reset
  reading, report, \* per reader: the counts left to read, and those read
  begun, ended,    \* history: lines begun and lines counted to the end
  torn,            \* history: lines counted while a Reset ran
  atOpen,          \* history, per reader: ended when the report began
  nResets, nReports

statsVars == <<nLine, nFrames, taken, writer, line, clearing, reading, report, begun, ended, torn, atOpen, nResets, nReports>>

\* Reset: the lines and then the frames of the total, and so for each type.
ResetOrder == <<<<"line", Total>>, <<"frames", Total>>>>
                \o [i \in 1..2 * Len(CountedTypes) |-> <<IF i % 2 = 1 THEN "line" ELSE "frames", CountedTypes[(i + 1) \div 2]>>]

ReportOrder == <<Total>> \o CountedTypes

StatsInit ==
  /\ nLine = [c \in Counters |-> 0]
  /\ nFrames = [c \in Counters |-> 0] /\ taken = [c \in Counters |-> 0]
  /\ writer = [w \in Writers |-> "idle"]
  /\ line = [w \in Writers |-> [n |-> 0, type |-> Total]]
  /\ clearing = [r \in Resetters |-> <<>>]
  /\ reading = [g \in Readers |-> <<>>] /\ report = [g \in Readers |-> [c \in {} |-> 0]]
  /\ begun = 0 /\ ended = 0 /\ torn = {}
  /\ atOpen = [g \in Readers |-> 0]
  /\ nResets = 0 /\ nReports = 0

Resetting == \E r \in Resetters : clearing[r] # <<>>
Busy      == {w \in Writers : writer[w] # "idle"}

UnchangedOthers == UNCHANGED <<clearing, reading, report, atOpen, nResets, nReports>>

-----------------------------------------------------------------------------
(* Writers: IncrementLine *)

\* The counter that the writer is at: the total first, then the line's type.
At(w) == IF writer[w] \in {"total", "totalFrames", "totalUpdate", "totalSwap"} THEN Total ELSE line[w].type

\* The step after one: the total, then the type, in the same steps.
After(w) == [total |-> "totalFrames", totalFrames |-> "totalUpdate", totalUpdate |-> "line", totalSwap |-> "line",
             line |-> "frames", frames |-> "update", update |-> "idle", swap |-> "idle"][writer[w]]

Goes(w, to) ==
  /\ writer' = [writer EXCEPT ![w] = to]
  /\ ended' = IF to = "idle" THEN ended + 1 ELSE ended

Begin(w) ==
  /\ writer[w] = "idle" /\ begun < MaxLines
  /\ \E t \in TypeSet : line' = [line EXCEPT ![w] = [n |-> begun + 1, type |-> t]]
  /\ begun' = begun + 1
  /\ writer' = [writer EXCEPT ![w] = "total"]
  /\ torn' = IF Resetting THEN torn \cup {begun + 1} ELSE torn
  /\ UNCHANGED <<nLine, nFrames, taken, ended>> /\ UnchangedOthers

\* Mutant: the last type of the switch is forgotten.
CountsLineButLast(w, c) == nLine' = IF c = CountedTypes[Len(CountedTypes)] THEN nLine ELSE [nLine EXCEPT ![c] = @ + 1]

CountsLine(w, c) == nLine' = [nLine EXCEPT ![c] = @ + 1]

CountLine(w) ==
  /\ writer[w] \in {"total", "line"}
  /\ CountsLine(w, At(w))
  /\ Goes(w, After(w))
  /\ UNCHANGED <<nFrames, taken, line, begun, torn>> /\ UnchangedOthers

\* CYFPSCounter.Increment: a frame more, and an update.
CountFrame(w) ==
  /\ writer[w] \in {"totalFrames", "frames"}
  /\ nFrames' = [nFrames EXCEPT ![At(w)] = @ + 1]
  /\ Goes(w, After(w))
  /\ UNCHANGED <<nLine, taken, line, begun, torn>> /\ UnchangedOthers

\* update looks whether lastTick is a period ago, which it may be or not ...
Update(w) ==
  /\ writer[w] \in {"totalUpdate", "update"}
  /\ Goes(w, After(w)) \/ Goes(w, IF writer[w] = "update" THEN "swap" ELSE "totalSwap")
  /\ UNCHANGED <<nLine, nFrames, taken, line, begun, torn>> /\ UnchangedOthers

\* ... takes the frames, which are the published rate, and sets lastTick.  A
\* second writer that looked before it was set takes what has come since, and
\* its rate is the one that stays.
SwapFrames(w) ==
  /\ writer[w] \in {"totalSwap", "swap"}
  /\ taken' = [taken EXCEPT ![At(w)] = @ + nFrames[At(w)]]
  /\ nFrames' = [nFrames EXCEPT ![At(w)] = 0]
  /\ Goes(w, After(w))
  /\ UNCHANGED <<nLine, line, begun, torn>> /\ UnchangedOthers

-----------------------------------------------------------------------------
(* Reset and GetStats *)

StartReset(r) ==
  /\ clearing[r] = <<>> /\ nResets + nReports < MaxVisits
  /\ clearing' = [clearing EXCEPT ![r] = ResetOrder]
  /\ torn' = torn \cup {line[w].n : w \in Busy}
  /\ nResets' = nResets + 1
  /\ UNCHANGED <<nLine, nFrames, taken, writer, line, begun, ended, reading, report, atOpen, nReports>>

ResetCounter(r) ==
  LET c == Head(clearing[r])[2] IN
  /\ clearing[r] # <<>>
  /\ IF Head(clearing[r])[1] = "line"
     THEN nLine' = [nLine EXCEPT ![c] = 0] /\ UNCHANGED <<nFrames, taken>>
     ELSE /\ nFrames' = [nFrames EXCEPT ![c] = 0]
          /\ taken' = [taken EXCEPT ![c] = 0]
          /\ UNCHANGED nLine
  /\ clearing' = [clearing EXCEPT ![r] = Tail(@)]
  /\ UNCHANGED <<writer, line, begun, ended, torn, reading, report, atOpen, nResets, nReports>>

StartReport(g) ==
  /\ reading[g] = <<>> /\ nResets + nReports < MaxVisits
  /\ reading' = [reading EXCEPT ![g] = ReportOrder]
  /\ report' = [report EXCEPT ![g] = [c \in {} |-> 0]]
  /\ atOpen' = [atOpen EXCEPT ![g] = ended]
  /\ nReports' = nReports + 1
  /\ UNCHANGED <<nLine, nFrames, taken, writer, line, clearing, begun, ended, torn, nResets>>

GetStats(g) ==
  LET c == Head(reading[g]) IN
  /\ reading[g] # <<>>
  /\ report' = [report EXCEPT ![g] = [d \in DOMAIN @ \cup {c} |-> IF d = c THEN nLine[c] ELSE @[d]]]
  /\ reading' = [reading EXCEPT ![g] = Tail(@)]
  /\ UNCHANGED <<nLine, nFrames, taken, writer, line, clearing, begun, ended, torn, atOpen, nResets, nReports>>

StatsNext ==
  \/ \E w \in Writers : Begin(w) \/ CountLine(w) \/ CountFrame(w) \/ Update(w) \/ SwapFrames(w)
  \/ \E r \in Resetters : StartReset(r) \/ ResetCounter(r)
  \/ \E g \in Readers : StartReport(g) \/ GetStats(g)

StatsSpec == StatsInit /\ [][StatsNext]_statsVars

-----------------------------------------------------------------------------
(* Properties *)

\* The sum over the types: the size of a block of count[c] for each type c.
OfTypes(count) == Cardinality(UNION {{c} \X (1..count[c]) : c \in TypeSet})
Gap(a, b) == IF a > b THEN a - b ELSE b - a

\* Nobody is counting or clearing.
Quiet == Busy = {} /\ ~Resetting

\* When nobody counts or clears, the total and the counts of the types differ
\* by no more than the lines that a Reset ran into; a report without a Reset
\* has every line that was counted before it, in the total and in the types.
CountsAgree ==
  /\ Quiet => Gap(nLine[Total], OfTypes(nLine)) <= Cardinality(torn)
  /\ \A g \in Readers :
       (reading[g] = <<>> /\ DOMAIN report[g] = Counters /\ nResets = 0) =>
         /\ atOpen[g] <= report[g][Total] /\ report[g][Total] <= begun
         /\ atOpen[g] <= OfTypes(report[g]) /\ OfTypes(report[g]) <= begun
  /\ (Quiet /\ torn = {}) => \A c \in Counters : taken[c] + nFrames[c] = nLine[c]
=============================================================================
