------------------------------ MODULE MCSession ------------------------------
(* Small instances of Session for TLC. *)
EXTENDS Session, TLC

CONSTANTS p1, p2, l1, l2
TwoPolls == {p1, p2}
TwoLogouts == {l1, l2}


NetworkOnly == {"network"}

\* The views ask for the same path, and for About, within 950 ms. The other
\* answers (of refreshes, of _init) are too old when they are asked for again.
Key(t, fn) ==
    CASE fn = "about" -> "about"
      [] fn = "call" /\ t \in Polls -> "poll"
      [] OTHER -> "not asked again"
Together == [t \in Tasks |-> [fn \in Fns |-> Key(t, fn)]]
AboutAndPoll == {"about", "poll"}
=============================================================================
