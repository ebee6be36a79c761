----------------------------- MODULE HTTPHeader -----------------------------
(***************************************************************************)
(* A Header (http/header.go): a function from names to the sequences of    *)
(* their values.                                                           *)
(***************************************************************************)
EXTENDS Sequences

HeaderGet(h, k) == IF k \in DOMAIN h /\ h[k] # <<>> THEN h[k][1] ELSE ""
Values(h, k) == IF k \in DOMAIN h THEN h[k] ELSE <<>>
Without(h, ks) == [k \in DOMAIN h \ ks |-> h[k]]
=============================================================================
