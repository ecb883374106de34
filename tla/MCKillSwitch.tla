---------------------------- MODULE MCKillSwitch ----------------------------
(***************************************************************************)
(* Instances of KillSwitch for TLC: a daemon alone, or a daemon beside the *)
(* API server, with a log of a few lines and windows shorter than it.      *)
(***************************************************************************)
EXTENDS KillSwitch

CONSTANTS daemon, server

Alone   == {daemon}
Both    == {daemon, server}
Daemons == {daemon}

Operators == {"boot", "r1"}

AllEvents ==
  {SetEvent(s, r) : s \in States, r \in Operators} \union {OrderEvent, Telemetry}

Garbled == [kind |-> "unreadable", state |-> "HALTED", reason |-> "boot"]

=============================================================================
