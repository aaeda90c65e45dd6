----------------------------- MODULE MCEventPath -----------------------------
(* A small instance of EventPath for TLC. *)
EXTENDS EventPath, TLC
CONSTANTS note, garbage, task

\* note may arrive ahead of its stamp, on time or late; garbage is no event.
Stamps == note :> 2 @@ garbage :> 1
Versions == note :> 1 @@ garbage :> 0

\* ai-systems: a system comes to use a data category; regulations-catalog: the
\* category comes to trigger a regulation; jurisdictions: its own comes to have
\* another.
GrowingFacts ==
     "ai-systems" :> (0 :> {<<"s", "j">>} @@ 1 :> {<<"s", "j">>, <<"s", "d">>})
  @@ "regulations-catalog" :> (0 :> {} @@ 1 :> {<<"d", "r">>})
  @@ "jurisdictions" :> (0 :> {} @@ 1 :> {<<"j", "r">>})
ByHand == {<<"s", "r">>}
AllEdges == {<<"s", "j">>, <<"s", "d">>, <<"d", "r">>, <<"j", "r">>} \cup ByHand

\* What s reaches within two hops.
Reaches(E) ==
  LET next == {e[2] : e \in {f \in E : f[1] = "s"}}
  IN  next \cup {e[2] : e \in {f \in E : f[1] \in next}}
=============================================================================
