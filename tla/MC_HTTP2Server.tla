--------------------------- MODULE MC_HTTP2Server ---------------------------
(* Instances of HTTP2Server for TLC. *)
EXTENDS HTTP2Server

F(t, id, n) == [t |-> t, id |-> id, n |-> n, pad |-> 0, end |-> FALSE, bad |-> FALSE]
Plain == [head |-> FALSE, hdrs |-> FALSE, trailers |-> FALSE, cont |-> FALSE]
Case0 == [frames |-> {}, sends |-> 0, calls |-> 1, ops |-> {}, shapes |-> {Plain}, timers |-> {}, fits |-> {TRUE}]

Hello    == F("SETTINGS", 0, DefaultWin)
Get(i)   == [F("HEADERS", i, 0) EXCEPT !.end = TRUE]
Post(i)  == F("HEADERS", i, 0)
Data(i)  == F("DATA", i, 1)
End(i)   == [F("DATA", i, 0) EXCEPT !.end = TRUE]

\* Bodies: padding, the end, a reset, a body declared one long.
Upload == [Case0 EXCEPT !.frames = {Hello, Post(1), Data(1), [Data(1) EXCEPT !.pad = 1, !.end = TRUE], F("RST", 1, 0)},
                        !.sends = 4, !.ops = {"read", "flush"}, !.calls = 2]
Declared == [Case0 EXCEPT !.frames = {Hello, [Post(1) EXCEPT !.n = 2], Data(1), End(1), [Post(1) EXCEPT !.end = TRUE]},
                          !.sends = 4, !.ops = {"read", "close"}, !.calls = 1]
\* Responses: two streams, windows that grow and shrink.
Windows == [Case0 EXCEPT !.frames = {F("SETTINGS", 0, 1), F("SETTINGS", 0, 7), Get(1), F("WINDOW", 1, 2), F("WINDOW", 0, 1)},
                         !.sends = 4, !.ops = {"write", "flush"}, !.calls = 3]
Trailers == [Case0 EXCEPT !.frames = {Hello, Get(1)}, !.sends = 2, !.ops = {"write"}, !.calls = 1, !.fits = BOOLEAN,
                          !.shapes = [head : BOOLEAN, hdrs : BOOLEAN, trailers : BOOLEAN, cont : {FALSE}]]
Late == [Case0 EXCEPT !.frames = {Hello, Post(1), Data(1)}, !.sends = 3, !.ops = {"flush"}, !.timers = {"write"}, !.fits = BOOLEAN]
Flood == [Case0 EXCEPT !.frames = {Hello, F("PING", 0, 0)}, !.sends = 7, !.fits = {FALSE}]
Deadline == [Case0 EXCEPT !.frames = {Hello, Get(1), F("RST", 1, 0)}, !.sends = 3, !.ops = {"write"}, !.calls = 1,
                          !.timers = {"write"}]
Pushes == [Case0 EXCEPT !.frames = {Hello, [Hello EXCEPT !.bad = TRUE], Get(1), F("RST", 2, 0), F("GOAWAY", 0, 0)}, !.sends = 3,
                        !.ops = {"push"}, !.calls = 1]
Goes == [Case0 EXCEPT !.frames = {Hello, Get(1), Get(3)}, !.sends = 3, !.ops = {"goaway"}, !.calls = 1,
                      !.timers = {"idle", "shutdown", "settings"}]
Fails == [Case0 EXCEPT !.frames = {Hello, Post(1), Data(1)}, !.sends = 3, !.ops = {"panic", "read", "flush"}, !.calls = 1,
                       !.shapes = {[Plain EXCEPT !.cont = TRUE]}, !.timers = {"leave"}, !.fits = BOOLEAN]
Errors == [Case0 EXCEPT !.frames = {Hello, F("SETTINGSACK", 0, 0), F("PING", 0, 0), F("BAD", 0, 0), Get(2), [Post(1) EXCEPT !.bad = TRUE],
                                    Data(1), F("WINDOW", 3, 1), F("RST", 3, 0), F("WINDOW", 0, 7)}, !.sends = 4]
MCCases == {Upload, Declared, Windows, Trailers, Deadline, Pushes, Goes, Fails, Errors, Flood, Late}
=============================================================================
