-------------------------- MODULE MC_TransportPool --------------------------
(* Instances of TransportPool for TLC. *)
EXTENDS TransportPool, TLC

CONSTANTS r1, r2, r3, c1, c2, c3, ka, kb

Plain == [limit |-> 0, keepAlives |-> TRUE, idlePerHost |-> 1, idleTotal |-> 0,
          idleTimer |-> FALSE, http2 |-> FALSE, http2Fails |-> FALSE,
          hosts |-> {ka}, requests |-> 3,
          retried |-> 0, closes |-> 0]

\* A limit with retries and the idle timer; a limit with shared connections; a pool its
\* user empties; a total maximum, over two hosts; HTTP/2 connections that refuse requests;
\* no keep-alives.
Settings ==
  {[Plain EXCEPT !.limit = 1, !.retried = 1, !.idleTimer = TRUE],
   [Plain EXCEPT !.limit = 1, !.http2 = TRUE],
   [Plain EXCEPT !.limit = 1, !.http2 = TRUE, !.idleTimer = TRUE,
                 !.requests = 2, !.retried = 2, !.closes = 1],
   [Plain EXCEPT !.limit = 2, !.http2 = TRUE, !.idleTotal = 1, !.idlePerHost = 2,
                 !.hosts = {ka, kb}, !.requests = 2, !.retried = 1, !.closes = 1],
   [Plain EXCEPT !.http2 = TRUE, !.http2Fails = TRUE, !.requests = 2, !.retried = 1],
   [Plain EXCEPT !.limit = 1, !.keepAlives = FALSE]}

Symmetry == Permutations(Reqs) \cup Permutations(Conns)
=============================================================================
