----------------------------- MODULE DurableLog -----------------------------
(***************************************************************************)
(* What a file appender promises: accepted lines become durable in the     *)
(* order of acceptance, without gaps or repetitions, and a Flush returns   *)
(* only when every line accepted before it was called is durable.  Lines   *)
(* are named 1, 2, 3, ... in the order of acceptance.                      *)
(***************************************************************************)
EXTENDS Integers, Sequences

CONSTANT Flushers

VARIABLES
  log,      \* number of lines accepted
  durable,  \* the lines in the log's files, oldest first
  want      \* per flusher: the lines its call waits for, NoCall if none

absVars == <<log, durable, want>>

NoCall == -1

Prefix(n) == [i \in 1..n |-> i]

Init ==
  /\ log = 0
  /\ durable = <<>>
  /\ want = [f \in Flushers |-> NoCall]

Accept ==
  /\ log' = log + 1
  /\ UNCHANGED <<durable, want>>

Persist ==
  /\ \E n \in Len(durable)..log : durable' = Prefix(n)
  /\ UNCHANGED <<log, want>>

Call(f) ==
  /\ want[f] = NoCall
  /\ want' = [want EXCEPT ![f] = log]
  /\ UNCHANGED <<log, durable>>

Return(f) ==
  /\ want[f] # NoCall
  /\ want[f] <= Len(durable)
  /\ want' = [want EXCEPT ![f] = NoCall]
  /\ UNCHANGED <<log, durable>>

Next ==
  \/ Accept
  \/ Persist
  \/ \E f \in Flushers : Call(f) \/ Return(f)

Spec == Init /\ [][Next]_absVars
=============================================================================
