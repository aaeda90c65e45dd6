----------------------------- MODULE MCDerivation -----------------------------
(* Small instances of Derivation for TLC. *)
EXTENDS Derivation
CONSTANTS s, j, r, o, c

Nodes == {s, j, r, o, c}

\* The edges build_graph makes, and some only a compliance officer would add:
\* a shortcut, a self-loop, and cycles back to the AI system and the regulation.
Built  == {<<s, j>>, <<j, r>>, <<r, o>>, <<o, c>>}
Manual == {<<s, r>>, <<r, r>>, <<r, s>>, <<o, r>>, <<j, o>>, <<c, j>>}
AllGraphs == SUBSET (Built \cup Manual)
=============================================================================
