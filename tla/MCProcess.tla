------------------------------ MODULE MCProcess ------------------------------
(* Small instances of Process for TLC. *)
EXTENDS Process

CONSTANTS c1, c2
TwoCallers == {c1, c2}
OneCaller == {c1}

\* the methods the callers use
StartOnly == {"Start"}
StartKill == {"Start", "Kill"}
StartStop == {"Start", "Stop"}
StartKillWait == {"Start", "KillWait"}
StartStopWait == {"Start", "StopWait"}
StartStopKill == {"Start", "Stop", "Kill"}
=============================================================================
