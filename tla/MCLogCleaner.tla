---------------------------- MODULE MCLogCleaner ----------------------------
(* The instances of LogCleaner for TLC.                                    *)
EXTENDS LogCleaner, TLC

File(t, form, moment, written, size) == Name(t, form, moment) :> [written |-> written, size |-> size]

MCLeftovers == {
  <<>>,
  File(1, "timed", 0, 0, 2) @@ File(1, "timed", 1, 1, 1),
  File(1, "fixed", 0, 0, 1) @@ File(1, "archive", 0, 0, 1) @@ File(1, "archive", 1, 1, 1) @@ File(2, "fixed", 0, 1, 1)}
=============================================================================
