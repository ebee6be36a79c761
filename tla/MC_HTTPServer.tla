---------------------------- MODULE MC_HTTPServer ----------------------------
(* Instances of HTTPServer for TLC. *)
EXTENDS HTTPServer

Get == NoShape

MCShapes ==
  << {Get, [Get EXCEPT !.body = 2], [Get EXCEPT !.framing = "chunked", !.body = 2],
      [Get EXCEPT !.framing = "broken", !.head = TRUE], [Get EXCEPT !.body = 1, !.expect = TRUE],
      [Get EXCEPT !.v11 = FALSE, !.keep10 = TRUE], [Get EXCEPT !.close = TRUE, !.body = 1],
      [Get EXCEPT !.bad = "toolarge"], [Get EXCEPT !.bad = "expectation"]},
     {Get} >>
MCCalls == <<2, 0>>

Set(t, x, o) == [timeouts |-> t, wrapped |-> x, operator |-> o]
MCSettings == {Set(FALSE, FALSE, "nokeep"), Set(TRUE, FALSE, "shutdown"), Set(FALSE, TRUE, "close")}

MCHeaders == {OK, [OK EXCEPT !.length = 1]}
=============================================================================
