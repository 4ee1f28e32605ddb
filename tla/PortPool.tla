-------------------------------- MODULE PortPool --------------------------------
(***************************************************************************)
(* What a Portranger promises (core/net/port.go:9-19): Get hands out a port*)
(* of the range that nobody has, and fails only when all are handed out.   *)
(***************************************************************************)
EXTENDS Integers

CONSTANT Ports    \* the ports of the range

VARIABLES
    out,          \* the ports handed out
    reply         \* what the last Get returned, -1 for an error

Init == out = {} /\ reply = -1

Get ==
    \/ \E p \in Ports \ out : out' = out \cup {p} /\ reply' = p
    \/ out = Ports /\ reply' = -1 /\ UNCHANGED out

Put(p) == out' = out \ {p} /\ UNCHANGED reply

Next == Get \/ \E p \in Ports : Put(p)

Spec == Init /\ [][Next]_<<out, reply>>
=============================================================================
