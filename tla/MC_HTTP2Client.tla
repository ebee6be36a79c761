--------------------------- MODULE MC_HTTP2Client ---------------------------
(* Instances of HTTP2Client for TLC. *)
EXTENDS HTTP2Client

CONSTANTS r1, r2

Get     == [body |-> "none", len |-> 0, delay |-> FALSE, cancel |-> FALSE, timeout |-> FALSE, close |-> FALSE]
Post(n) == [Get EXCEPT !.body = "getbody", !.len = n]
Two(a, b) == [r \in Reqs |-> IF r = r1 THEN a ELSE b]
Case0   == [who |-> {r1, r2}, reqs |-> Two(Get, Get), peer |-> {}, user |-> {}, max |-> 3, win |-> 1, resp |-> 0,
            strict |-> FALSE, dials |-> 1]
One     == [Case0 EXCEPT !.who = {r1}]

\* Two requests and one slot.
Slots    == [Case0 EXCEPT !.max = 1, !.strict = TRUE, !.peer = {"hangup", "rst"}, !.reqs = Two(Get, [Get EXCEPT !.cancel = TRUE])]
Leaving  == [Case0 EXCEPT !.max = 1, !.strict = TRUE, !.user = {"shutdown"}]
\* A server that goes away or refuses: the request is repeated, on another connection or on the same.
Away     == [Case0 EXCEPT !.dials = 2, !.peer = {"goaway"}]
Refused  == [One EXCEPT !.peer = {"refuse", "hangup"}, !.reqs = Two([Get EXCEPT !.cancel = TRUE], Get)]
Repeated == [One EXCEPT !.dials = 2, !.peer = {"goaway"}, !.reqs = Two([Get EXCEPT !.body = "once", !.len = 1], Get)]
\* Request bodies, and windows that change.
Bodies   == [Case0 EXCEPT !.reqs = Two(Post(1), Get)]
Grants   == [One EXCEPT !.reqs = Two(Post(3), Get), !.peer = {"window"}]
Windows  == [One EXCEPT !.peer = {"settings"}, !.reqs = Two(Post(2), Get)]
Early    == [One EXCEPT !.peer = {"4xx", "100", "error"},
                        !.reqs = Two([Post(2) EXCEPT !.delay = TRUE, !.timeout = TRUE], Get)]
Stops    == [One EXCEPT !.peer = {"hangup", "bad"}, !.win = 0, !.reqs = Two([Post(1) EXCEPT !.cancel = TRUE], Get)]
\* Response bodies.
Reads2   == [One EXCEPT !.peer = {"pad"}, !.user = {"closebody"}, !.resp = 3]
Watched  == [One EXCEPT !.peer = {"rst"}, !.user = {"closebody"}, !.resp = 2, !.reqs = Two([Get EXCEPT !.cancel = TRUE], Get)]
\* Connections that are closed under requests.
Closing  == [One EXCEPT !.user = {"close", "nodial"}, !.resp = 1, !.reqs = Two([Get EXCEPT !.cancel = TRUE], Get)]
Idle     == [Case0 EXCEPT !.user = {"idle", "closeidle"}]
OwnConn  == [Case0 EXCEPT !.dials = 2, !.reqs = Two([Get EXCEPT !.close = TRUE], Get)]

MCCases == {Slots, Leaving, Away, Refused, Repeated, Bodies, Grants, Windows, Early, Stops, Reads2, Watched, Closing, Idle, OwnConn}
=============================================================================
