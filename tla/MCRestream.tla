----------------------------- MODULE MCRestream -----------------------------
(* Instances of Restream for TLC. *)
EXTENDS Restream, TLC

CONSTANTS i1, i2, i3, p1, p2, p3, p4, t1, t2

\* a configuration by what differs from a live channel without options
Live(id) == [id |-> id, ref |-> NoId, playout |-> 0, disk |-> FALSE,
             cleanup |-> FALSE, autostart |-> TRUE]

\* i1 has two playout inputs, i2 has one and takes its input from i1, i3 changes
\* between none and two. What has clean up rules does not start by itself: a refused
\* start would leave the rules of a process that is not entered (AddInsert)
PlayoutConfigs ==
    {[Live(i1) EXCEPT !.playout = 2],
     [Live(i2) EXCEPT !.playout = 1, !.ref = i1, !.disk = TRUE,
                      !.autostart = FALSE, !.cleanup = TRUE],
     Live(i3), [Live(i3) EXCEPT !.playout = 2, !.autostart = FALSE, !.cleanup = TRUE]}

\* nothing but processes that start at once or when they are told to
PlainConfigs == {Live(i1), Live(i2), [Live(i2) EXCEPT !.autostart = FALSE], Live(i3)}

\* i2 takes its input from i1
RefConfigs == {Live(i1), [Live(i2) EXCEPT !.ref = i1], [Live(i2) EXCEPT !.autostart = FALSE]}
RefStopConfigs == {Live(i1), [Live(i2) EXCEPT !.ref = i1, !.autostart = FALSE]}

Symmetry == Permutations({p1, p2, p3, p4}) \cup Permutations({t1, t2})
=============================================================================
