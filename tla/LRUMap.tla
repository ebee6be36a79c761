------------------------------- MODULE LRUMap -------------------------------
(***************************************************************************)
(* What a ClientSessionCache "that uses an LRU caching strategy" promises  *)
(* (the interface and NewLRUClientSessionCache in tls/common.go): a map of *)
(* at most Capacity keys.  A Put or a successful Get makes its key the     *)
(* most recently used; a Put of a new key into a full map drops the least  *)
(* recently used one.                                                      *)
(***************************************************************************)
EXTENDS Integers, Sequences, FiniteSets

CONSTANTS
  Keys, States,  \* session keys and session states
  Nil,           \* the zero of both
  Capacity       \* how many keys the map holds

VARIABLES
  order,     \* the keys present, the most recently used first
  contents,  \* the state under each key, or Nil
  got        \* the key and the result of the last Get

vars == <<order, contents, got>>

Present == {k \in Keys : contents[k] # Nil}

\* k in front, and the keys that were used after the one at position i behind it.
Front(k, i) ==
  [j \in 1..Len(order) |-> IF j = 1 THEN k ELSE IF j <= i THEN order[j - 1] ELSE order[j]]
Touch(k) == \E i \in 1..Len(order) : order[i] = k /\ order' = Front(k, i)

Init ==
  /\ order = <<>>
  /\ contents = [k \in Keys |-> Nil]
  /\ got = [sessionKey |-> Nil, state |-> Nil]

Put(k, s) ==
  /\ \/ /\ k \in Present
        /\ Touch(k)
        /\ contents' = [contents EXCEPT ![k] = s]
     \/ /\ k \notin Present /\ Len(order) < Capacity
        /\ order' = <<k>> \o order
        /\ contents' = [contents EXCEPT ![k] = s]
     \/ /\ k \notin Present /\ Len(order) = Capacity
        /\ order' = Front(k, Capacity)
        /\ contents' = [contents EXCEPT ![order[Capacity]] = Nil, ![k] = s]
  /\ UNCHANGED got

Get(k) ==
  /\ got' = [sessionKey |-> k, state |-> contents[k]]
  /\ IF k \in Present THEN Touch(k) ELSE UNCHANGED order
  /\ UNCHANGED contents

Next == \E k \in Keys : Get(k) \/ \E s \in States : Put(k, s)

Spec == Init /\ [][Next]_vars
=============================================================================
