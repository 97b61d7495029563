----------------------------- MODULE MCServices -----------------------------
(***************************************************************************)
(* Four units that share no variable, each checked on its own: the way of  *)
(* a message to its lines, the statistics, the upload of a file, and the   *)
(* way of a setting.  The initial state picks the unit that moves; their   *)
(* steps side by side would add states and nothing to see.                 *)
(***************************************************************************)
EXTENDS Configuration, LogLine, Statistics, FtpUpload

VARIABLE unit

-----------------------------------------------------------------------------
(* Bounds *)

MCMount(layout, ch, escape) == [layout |-> layout, ch |-> ch, escape |-> escape]

\* Two files of one layout: in one channel, in two channels; and a file of a
\* layout that escapes, next to a layout that is not there.
MCMountings ==
  LET Of(i, m, c) == [info |-> i, main |-> m, console |-> c]
  IN  {Of(MCMount(1, "a", FALSE), MCMount(1, "a", FALSE), MCMount(1, "a", FALSE)),
       Of(MCMount(1, "a", FALSE), MCMount(1, "b", FALSE), MCMount(3, "a", FALSE)),
       Of(MCMount(2, "a", TRUE),  MCMount(2, "a", FALSE), MCMount(0, "a", FALSE))}

MCKind(kind, direct, entry, type, ch) == [kind |-> kind, direct |-> direct, entry |-> entry, type |-> type, ch |-> ch]

\* An Info, a DirectInfoCh, an EscapeInfo, a WriteLog to Main and an Info of
\* a level that is off.
MCCalls == {MCKind("fmt", FALSE, TRUE, "info", "-"), MCKind("fmt", TRUE, FALSE, "info", "x"),
            MCKind("escape", FALSE, TRUE, "info", "-"), MCKind("log", FALSE, FALSE, "main", "-"),
            MCKind("log", FALSE, FALSE, "trace", "-")}

MCCountedTypes == <<"info", "sys">>

With(f, v) == [x \in {f} |-> v]

\* A policy with zeros, of which the clear time and the interval are the
\* ones that somebody refuses, and one without.
MCPolicy(n, z) == [f \in {"enable", "clear", "clearTime", "expired", "sizeTime", "countTime",
                          "size", "count", "typeSize", "allSize"} |->
                     IF f \in {"clearTime", "sizeTime"} THEN z ELSE n]

MCOffers == {<<With("path", 0), With("console", 1)>>,
             <<With("path", 2), With("period", 2), MCPolicy(2, 0)>>,
             <<With("path", 3), With("remote", 1), MCPolicy(3, 3), With("count", 0)>>}

MCTunings == {With("remote", 1), With("level", 2), With("period", 0), MCPolicy(2, 2)}

-----------------------------------------------------------------------------
(* The specification *)

ServicesInit ==
  /\ unit \in {"line", "statistics", "upload", "configuration"}
  /\ LineInit /\ StatsInit /\ UploadInit /\ Init

ServicesNext ==
  \/ unit = "line" /\ LineNext /\ UNCHANGED <<unit, statsVars, uploadVars, vars>>
  \/ unit = "statistics" /\ StatsNext /\ UNCHANGED <<unit, lineVars, uploadVars, vars>>
  \/ unit = "upload" /\ UploadNext /\ UNCHANGED <<unit, lineVars, statsVars, vars>>
  \/ unit = "configuration" /\ Next /\ UNCHANGED <<unit, lineVars, statsVars, uploadVars>>

ServicesSpec == ServicesInit /\ [][ServicesNext]_<<unit, lineVars, statsVars, uploadVars, vars>>
=============================================================================
