-------------------------- MODULE MCLoggerControl --------------------------
(***************************************************************************)
(* The instances of LoggerControl for TLC: one type with a file, one with  *)
(* a switch.                                                               *)
(***************************************************************************)
EXTENDS LoggerControl

MCFileOrder   == <<"info">>
MCSwitchOrder == <<"sys">>

\* Everything on, and only one level: the console is dropped, the switches
\* are off, and Main is mounted and passes the entry, but not route.
MCOptions == {[filter |-> {"sys"}, on |-> {}],
              [filter |-> {"info", "sys", "console"}, on |-> {"sys", "console"}]}
=============================================================================
