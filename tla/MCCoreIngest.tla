----------------------------- MODULE MCCoreIngest -----------------------------
(* Small instances of CoreIngest for TLC. *)
EXTENDS CoreIngest, TLC
CONSTANTS s1, s2, o1, c1

One   == [sys |-> s1, ids |-> {o1}]
Both  == [sys |-> s1, ids |-> {o1, c1}]
First == [sys |-> s2, ids |-> {}]

\* A sweep's batch of two systems.
Batch == {<<First, Both>>}

\* o1 is an obligation that needs the control c1.
Needed == o1 :> {c1} @@ c1 :> {}

\* Handlers are alike.
Symmetry == Permutations(Handler)

OneBody == {<<One>>}
=============================================================================
