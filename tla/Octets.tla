------------------------------- MODULE Octets -------------------------------
(***************************************************************************)
(* Octets, big-endian numbers and vectors (a length of w octets, then as   *)
(* many octets), for the modules that model encodings.                     *)
(***************************************************************************)
EXTENDS Integers, Sequences, SequencesExt

Bytes(n, w) == [i \in 1..w |-> (n \div 256^(w - i)) % 256]
RECURSIVE Num(_)
Num(s) == IF s = <<>> THEN 0 ELSE 256 * Num(Front(s)) + Last(s)
From(d, i) == SubSeq(d, i, Len(d))
Zeros(n) == [i \in 1..n |-> 0]
If(present, s) == IF present THEN s ELSE <<>>

Vec(s, w) == Bytes(Len(s), w) \o s
Vecs(ss, w) == FlattenSeq([i \in DOMAIN ss |-> Vec(ss[i], w)])
U16s(s) == FlattenSeq([i \in DOMAIN s |-> Bytes(s[i], 2)])
HasVec(d, w) == Len(d) >= w /\ Len(d) - w >= Num(SubSeq(d, 1, w))
VecOf(d, w) == SubSeq(d, w + 1, w + Num(SubSeq(d, 1, w)))
After(d, w) == From(d, w + 1 + Num(SubSeq(d, 1, w)))
IsVec(d, w) == HasVec(d, w) /\ After(d, w) = <<>>
U16sOf(d) == [i \in 1..(Len(d) \div 2) |-> Num(SubSeq(d, 2 * i - 1, 2 * i))]

\* Words of four octets whose top bit is reserved or means something else.
Word(n) == <<0, 0, 0, n>>
High(w) == w[1] >= 128
Mask(w) == [w EXCEPT ![1] = @ % 128]
SetHigh(w) == [w EXCEPT ![1] = (@ % 128) + 128]
=============================================================================
