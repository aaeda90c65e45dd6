-------------------------------- MODULE Walks --------------------------------
(***************************************************************************)
(* What a derivation is meant to find: the nodes at the end of a walk of    *)
(* active edges, of at least one hop and at most a bound (PATENT.md's       *)
(* reference query without its bookkeeping).  E is a set of pairs of nodes. *)
(***************************************************************************)
EXTENDS Naturals, Sequences

CONSTANT Node

\* p is a walk of E, of Len(p) - 1 hops.
Walk(E, p) == \A i \in 1 .. Len(p) - 1 : <<p[i], p[i + 1]>> \in E

\* Where one can get from s in this many hops, at least one.
EndsOf(E, s, hops) ==
  {q[hops] : q \in {p \in [1 .. hops -> Node] : Walk(E, <<s>> \o p)}}

Within(E, s, depth) == UNION {EndsOf(E, s, hops) : hops \in 1 .. depth}
=============================================================================
