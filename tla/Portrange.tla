------------------------------- MODULE Portrange -------------------------------
(***************************************************************************)
(* core/net/port.go: the pool of playout ports, an array of flags with the *)
(* index of the first free one kept beside it. Get and Put hold r.lock for *)
(* all they do. A Put of a port outside the range does nothing.            *)
(***************************************************************************)
EXTENDS Integers

CONSTANTS
    min, max,     \* the arguments of NewPortrange
    Top           \* the largest port number, 65535

\* what the validation of the configuration lets through (config/value/network.go:186,
\* config/config.go:408); for other arguments NewPortrange may panic
ASSUME RangeAssumption == /\ Top \in Nat /\ min \in 0..Top /\ max \in 0..Top
                          /\ min < max

VARIABLES
    ports,        \* r.ports: which ports are used
    minUnused,    \* r.minUnused
    reply         \* what the last Get returned, -1 for an error

vars == <<ports, minUnused, reply>>

\* the range, from r.min on
Lo == IF min <= 0 THEN 1 ELSE min
Hi == IF max > Top THEN Top ELSE max
Indices == 0..(Hi - Lo)

TypeOK ==
    /\ ports \in [Indices -> BOOLEAN]
    /\ minUnused \in Indices \cup {-1}
    /\ reply \in Lo..Hi \cup {-1}

Init ==
    /\ ports = [i \in Indices |-> FALSE]
    /\ minUnused = 0
    /\ reply = -1

\* m is the first unused index of f, or -1 if there is none
IsFirst(m, f) ==
    \/ m \in Indices /\ ~f[m] /\ \A i \in Indices : i < m => f[i]
    \/ m = -1 /\ \A i \in Indices : f[i]

Get ==
    \/ minUnused = -1 /\ reply' = -1 /\ UNCHANGED <<ports, minUnused>>
    \/ /\ minUnused # -1
       /\ reply' = Lo + minUnused
       /\ ports' = [ports EXCEPT ![minUnused] = TRUE]
       /\ \E m \in Indices \cup {-1} : IsFirst(m, ports') /\ minUnused' = m

\* mutant: the index is the port
Put_NoTranslation(p) ==
    /\ p \in Lo..Hi
    /\ ports' = [ports EXCEPT ![p - Lo] = FALSE]
    /\ minUnused' = IF p - Lo < minUnused \/ minUnused = -1 THEN p ELSE minUnused
    /\ UNCHANGED reply

\* mutant: an exhausted pool stays exhausted
Put_KeepsNone(p) ==
    /\ p \in Lo..Hi
    /\ ports' = [ports EXCEPT ![p - Lo] = FALSE]
    /\ minUnused' = IF p - Lo < minUnused THEN p - Lo ELSE minUnused
    /\ UNCHANGED reply

\* mutant: the index moves whenever a port comes back
Put_Last(p) ==
    /\ p \in Lo..Hi
    /\ ports' = [ports EXCEPT ![p - Lo] = FALSE]
    /\ minUnused' = p - Lo
    /\ UNCHANGED reply

\* the port may be free already
Put(p) ==
    /\ p \in Lo..Hi
    /\ ports' = [ports EXCEPT ![p - Lo] = FALSE]
    /\ minUnused' = IF p - Lo < minUnused \/ minUnused = -1 THEN p - Lo ELSE minUnused
    /\ UNCHANGED reply

Next == Get \/ \E p \in Lo..Hi : Put(p)

Spec == Init /\ [][Next]_vars

-----------------------------------------------------------------------------
\* The index kept beside the flags is the first unused one, in every order of Get
\* and Put, double Puts included, and -1 only when no port is left. Get relies on it
\* instead of searching.
FirstUnused == IsFirst(minUnused, ports)

\* Portrange implements what Portranger promises.
Pool == INSTANCE PortPool WITH Ports <- Lo..Hi, out <- {p \in Lo..Hi : ports[p - Lo]}
PoolSpec == Pool!Spec
=============================================================================
