------------------------------ MODULE MCChannels ------------------------------
(* Small instances of the channels: the jobs of a page next to what it does by
   itself, the jobs on channels and on publications two at a time, calls that fail, and
   two windows that remove recordings at the same time. *)
EXTENDS Channels

Running(ids) == [id \in ids |-> [order |-> "start", running |-> TRUE]]
One == Running({Ingest("c1"), Snapshot("c1"), Preview("c1"), Egress("c1", "e1")})
Two == Running({Ingest("c1"), Snapshot("c1"), Egress("c1", "e1"), Ingest("c2"), Egress("c2", "e2")})
Recorders == Running({Ingest("c1"), Ingest("c2")})
Single == Running({Ingest("c1")})

OnMain == {"connect", "disconnect", "reconnect", "refresh"}
OnEdit == {"add", "delete", "save", "wizard", "edit"}
OnPublications == {"publish", "update", "unpublish", "start egress", "stop egress",
                   "restart egress", "reconnect egress"}
First == {<<"w1", 1>>}
Both == {<<"w1", 1>>, <<"w1", 2>>}
TwoWindows == {<<"w1", 1>>, <<"w2", 1>>}
Environment(used, jobs, number, failing) ==
    [tasks |-> used, jobs |-> jobs, number |-> number, failures |-> failing, recorded |-> {"c1", "c2"},
     autostart |-> {"ingest", "h264", "egress"}]
MCStarts ==
    { [env |-> Environment(First, OnMain \cup OnEdit \cup OnPublications, 2, 0), process |-> One],
      [env |-> Environment(First, OnEdit \cup OnPublications, 1, 1), process |-> Two],
      [env |-> Environment(Both, OnMain, 2, 0), process |-> One],
      [env |-> Environment(Both, OnEdit \cup OnPublications, 2, 0), process |-> One],
      [env |-> Environment(First, {"purge"}, 2, 1), process |-> Recorders],
      [env |-> Environment(Both, {"purge", "disconnect", "delete"}, 2, 0), process |-> Single],
      [env |-> Environment(TwoWindows, {"purge", "disconnect", "delete"}, 1, 0), process |-> Single],
      [env |-> Environment(TwoWindows, {"purge", "connect"}, 1, 0), process |-> Single],
      [env |-> Environment(TwoWindows, {"publish", "delete"}, 1, 1), process |-> One] }
\* One removal in one window, and no call fails
MCOneRemoval == { [env |-> Environment(First, {"purge"}, 1, 0), process |-> Recorders] }
=============================================================================
