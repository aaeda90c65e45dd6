--------------------------- MODULE MCHybridTrigger ---------------------------
(* Small instances of HybridTrigger for TLC. *)
EXTENDS HybridTrigger, TLC
CONSTANTS o0, o1, o2

\* Each write to a system makes one more obligation apply.
GrowingApplies ==
  [s \in System |-> [v \in Version |->
     CASE v = 0 -> {o0} [] v = 1 -> {o0, o1} [] OTHER -> {o0, o1, o2}]]

\* An obligation comes in with one write and goes with the next.
MixedApplies ==
  [s \in System |-> [v \in Version |->
     CASE v = 0 -> {o0} [] v = 1 -> {o0, o1} [] OTHER -> {o1}]]

\* The write makes an obligation stop applying.
ShrinkingApplies ==
  [s \in System |-> [v \in Version |-> IF v = 0 THEN {o0, o1} ELSE {o0}]]

\* Every system is written to.
AllWritten == [s \in System |-> MaxVersion]

\* One system is written to, the others keep their first version.
OneWritten ==
  LET written == CHOOSE s \in System : TRUE
  IN  [s \in System |-> IF s = written THEN MaxVersion ELSE 0]

\* Tasks are interchangeable.
Symmetry == Permutations(Worker)
=============================================================================
