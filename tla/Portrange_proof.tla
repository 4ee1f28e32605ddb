---------------------------- MODULE Portrange_proof ----------------------------
(***************************************************************************)
(* Portrange keeps its index right and implements PortPool, for every      *)
(* range the configuration admits.                                         *)
(***************************************************************************)
EXTENDS Portrange, TLAPS

Inv == TypeOK /\ FirstUnused

\* The range is not empty, its first index is 0.
LEMMA RangeOK == Lo \in Int /\ Hi \in Int /\ Lo <= Hi /\ 0 \in Indices /\ Lo >= 1
BY RangeAssumption DEF Lo, Hi, Indices

LEMMA InvInit == Init => Inv
BY RangeOK DEF Init, Inv, TypeOK, FirstUnused, IsFirst, Indices

LEMMA InvStep == Inv /\ [Next]_vars => Inv'
<1> SUFFICES ASSUME Inv, [Next]_vars PROVE Inv'
  OBVIOUS
<1> USE RangeOK
<1>1. CASE UNCHANGED vars
  BY <1>1 DEF vars, Inv, TypeOK, FirstUnused, IsFirst
<1>2. CASE Get
  <2>1. CASE minUnused = -1 /\ reply' = -1 /\ UNCHANGED <<ports, minUnused>>
    BY <2>1 DEF Inv, TypeOK, FirstUnused, IsFirst
  <2>2. CASE /\ minUnused # -1 /\ reply' = Lo + minUnused
             /\ ports' = [ports EXCEPT ![minUnused] = TRUE]
             /\ \E m \in Indices \cup {-1} : IsFirst(m, ports') /\ minUnused' = m
    <3>1. minUnused' \in Indices \cup {-1} /\ FirstUnused'
      BY <2>2 DEF FirstUnused
    <3>2. ports' \in [Indices -> BOOLEAN]
      BY <2>2 DEF Inv, TypeOK
    <3>3. reply' \in Lo..Hi \cup {-1}
      BY <2>2 DEF Inv, TypeOK, Indices
    <3> QED
      BY <3>1, <3>2, <3>3 DEF Inv, TypeOK
  <2> QED
    BY <1>2, <2>1, <2>2 DEF Get
<1>3. CASE \E p \in Lo..Hi : Put(p)
  <2> PICK p \in Lo..Hi : Put(p)
    BY <1>3
  <2>1. p - Lo \in Indices
    BY DEF Indices
  <2>2. ports' \in [Indices -> BOOLEAN] /\ reply' = reply
    BY <2>1 DEF Put, Inv, TypeOK
  <2>3. minUnused' \in Indices \cup {-1}
    BY <2>1 DEF Put, Inv, TypeOK
  <2>4. FirstUnused'
    \* what lies below the new index was below the old one, or there was none
    BY <2>1 DEF Put, Inv, TypeOK, FirstUnused, IsFirst, Indices
  <2> QED
    BY <2>2, <2>3, <2>4 DEF Inv, TypeOK
<1> QED
  BY <1>1, <1>2, <1>3 DEF Next

\* The index kept beside the flags is the first free one in every reachable state.
THEOREM IndexRight == Spec => [](TypeOK /\ FirstUnused)
BY InvInit, InvStep, PTL DEF Spec, Inv

\* Get and Put keep the flags and the index in their ranges, so no array access of
\* port.go is out of bounds.
THEOREM FlagsTyped == Spec => []TypeOK
BY IndexRight, PTL

\* Every step of the array is a step of the pool of free ports or leaves it alone.
THEOREM Implements == Spec => PoolSpec
<1> USE RangeOK
<1>1. Init => Pool!Init
  BY DEF Init, Pool!Init, Indices
<1>2. Inv /\ [Next]_vars => [Pool!Next]_<<{p \in Lo..Hi : ports[p - Lo]}, reply>>
  <2> SUFFICES ASSUME Inv, Next
               PROVE  Pool!Next \/ UNCHANGED <<{p \in Lo..Hi : ports[p - Lo]}, reply>>
    BY DEF vars
  <2>a. ports \in [Indices -> BOOLEAN] /\ \A p \in Lo..Hi : p - Lo \in Indices
    BY DEF Inv, TypeOK, Indices
  <2>1. CASE minUnused = -1 /\ reply' = -1 /\ UNCHANGED <<ports, minUnused>>
    BY <2>1, <2>a DEF Inv, TypeOK, FirstUnused, IsFirst, Indices, Pool!Next, Pool!Get
  <2>2. CASE /\ minUnused # -1 /\ reply' = Lo + minUnused
             /\ ports' = [ports EXCEPT ![minUnused] = TRUE]
    <3> DEFINE p == Lo + minUnused
    <3>1. minUnused \in Indices /\ ~ports[minUnused]
      BY <2>2 DEF Inv, TypeOK, FirstUnused, IsFirst
    <3>2. p \in Lo..Hi /\ p - Lo = minUnused
      BY <3>1 DEF Indices
    <3>3. {q \in Lo..Hi : ports'[q - Lo]} = {q \in Lo..Hi : ports[q - Lo]} \cup {p}
      BY <2>2, <2>a, <3>1, <3>2
    <3>4. p \notin {q \in Lo..Hi : ports[q - Lo]}
      BY <3>1, <3>2
    <3> QED
      BY <2>2, <3>2, <3>3, <3>4 DEF Pool!Next, Pool!Get
  <2>3. CASE \E p \in Lo..Hi : Put(p)
    <3> PICK p \in Lo..Hi : Put(p)
      BY <2>3
    <3>1. {q \in Lo..Hi : ports'[q - Lo]} = {q \in Lo..Hi : ports[q - Lo]} \ {p}
      BY <2>a DEF Put
    <3> QED
      BY <3>1 DEF Put, Pool!Next, Pool!Put
  <2> QED
    BY <2>1, <2>2, <2>3 DEF Next, Get
<1> QED
  BY <1>1, <1>2, InvInit, InvStep, PTL DEF Spec, PoolSpec, Pool!Spec
=============================================================================
