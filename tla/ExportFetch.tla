----------------------------- MODULE ExportFetch -----------------------------
(***************************************************************************)
(* One run of the satellite seen from its data: fetch_and_build_graph reads *)
(* three exports one after the other while core's tables change between the *)
(* GETs, then the graph's structure is pushed and the derivation submitted  *)
(* (graph_builder.py, event_listener.py, scheduler.py; core's export routes *)
(* and data_providers.py).  The exports need not fit together: a graph may  *)
(* be torn, one that core's tables never held.                              *)
(*                                                                          *)
(* Each export has a version of its own and contributes edges of its own    *)
(* kinds; core's graph tables hold whatever was ever pushed (GraphStructure)*)
(* or added by hand, and both sides derive alike (Derivation).  Version 0   *)
(* also stands for an export that a run has not read.                       *)
(***************************************************************************)
EXTENDS Naturals, Sequences

CONSTANTS
  Thread,        \* threads of the satellite that run
  Edge,
  ManualEdge,    \* edges a compliance officer may add
  Facts,         \* the edges build_graph makes of each version of an export
  Derives(_),    \* what is derived from a set of edges, for every system
  MaxVersion,    \* bound on the changes of an export
  MaxAttempts    \* stop_after_attempt(3)

Exports == <<"ai-systems", "regulations-catalog", "jurisdictions">>
Export == {"ai-systems", "regulations-catalog", "jurisdictions"}
Version == 0 .. MaxVersion

ASSUME FactsAssumption ==
  /\ MaxVersion \in Nat
  /\ Facts \in [Export -> [Version -> SUBSET Edge]]
  /\ ManualEdge \subseteq Edge
ASSUME FetchAssumption == MaxAttempts \in Nat \ {0}

\* Data that is only ever added to.
Growing ==
  \A x \in Export : \A v, w \in Version :
    v <= w => Facts[x][v] \subseteq Facts[x][w]

VARIABLES
  source,     \* the version of each export in core's tables
  stored,     \* the edges of governance_graph_edges
  manual,     \* those of them that were added by hand
  stage,      \* where each thread's run is
  tries,      \* failed attempts at the current GET
  got,        \* the version of each export the run has read
  began,      \* source when the run began (history)
  disturbed   \* the run's push failed or another's landed meanwhile (history)

run == <<stage, tries, got, began>>
fetchVars == <<source, stored, manual, run, disturbed>>

Idle == 0   \* stages 1 to 3 are the GETs
Push == 4
Submit == 5
Unread == [x \in Export |-> 0]

FInit ==
  /\ source = Unread
  /\ stored = {}
  /\ manual = {}
  /\ stage = [a \in Thread |-> Idle]
  /\ tries = [a \in Thread |-> 0]
  /\ got = [a \in Thread |-> Unread]
  /\ began = [a \in Thread |-> Unread]
  /\ disturbed = [a \in Thread |-> FALSE]

\* build_graph: the edges of three exports, here at the given versions.
EdgesOf(versions) == UNION {Facts[x][versions[x]] : x \in Export}
Graph(a) == EdgesOf(got[a])

UpTo(v, w) == \A x \in Export : v[x] <= w[x]

\* A transaction of core changes what some of the exports return.
Change ==
  /\ \E s \in [Export -> Version] :
       /\ s # source /\ UpTo(source, s)
       /\ source' = s
  /\ UNCHANGED <<stored, manual, run, disturbed>>

-----------------------------------------------------------------------------
(* A run. *)

Begin(a) ==
  /\ stage[a] = Idle
  /\ stage' = [stage EXCEPT ![a] = 1]
  /\ began' = [began EXCEPT ![a] = source]
  /\ disturbed' = [disturbed EXCEPT ![a] = FALSE]
  /\ UNCHANGED <<source, stored, manual, tries, got>>

End(a) ==
  /\ stage' = [stage EXCEPT ![a] = Idle]
  /\ tries' = [tries EXCEPT ![a] = 0]
  /\ got' = [got EXCEPT ![a] = Unread]
  /\ began' = [began EXCEPT ![a] = Unread]

Getting(a) == stage[a] \in 1 .. 3

\* Mutant: the export comes out of a cache and may be of an earlier run.
GetFromCache(a) ==
  /\ Getting(a)
  /\ LET x == Exports[stage[a]]
     IN  \E v \in 0 .. source[x] : got' = [got EXCEPT ![a][x] = v]
  /\ stage' = [stage EXCEPT ![a] = @ + 1]
  /\ tries' = [tries EXCEPT ![a] = 0]
  /\ UNCHANGED <<source, stored, manual, began, disturbed>>

\* A GET is answered with what its data source lists now (changed_since is None).
GetOk(a) ==
  /\ Getting(a)
  /\ LET x == Exports[stage[a]]
     IN  got' = [got EXCEPT ![a][x] = source[x]]
  /\ stage' = [stage EXCEPT ![a] = @ + 1]
  /\ tries' = [tries EXCEPT ![a] = 0]
  /\ UNCHANGED <<source, stored, manual, began, disturbed>>

\* No connection, a timeout or a 5xx: _get_json tries again.
GetFails(a) ==
  /\ Getting(a)
  /\ tries[a] + 1 < MaxAttempts
  /\ tries' = [tries EXCEPT ![a] = @ + 1]
  /\ UNCHANGED <<source, stored, manual, stage, got, began, disturbed>>

\* Mutant: an export that cannot be had is left out.
GetGivesUpAndGoesOn(a) ==
  /\ Getting(a)
  /\ stage' = [stage EXCEPT ![a] = @ + 1]
  /\ tries' = [tries EXCEPT ![a] = 0]
  /\ UNCHANGED <<source, stored, manual, got, began, disturbed>>

\* The last attempt fails, or a 4xx comes: GraphBuildIncompleteError ends the run.
GetGivesUp(a) ==
  /\ Getting(a)
  /\ End(a)
  /\ UNCHANGED <<source, stored, manual, disturbed>>

\* push_graph_structure lands, under the eyes of the other runs.
PushLands(a) ==
  /\ stage[a] = Push
  /\ stored' = stored \cup Graph(a)
  /\ disturbed' = [b \in Thread |-> disturbed[b] \/ (b # a /\ stage[b] # Idle)]
  /\ stage' = [stage EXCEPT ![a] = Submit]
  /\ UNCHANGED <<source, manual, tries, got, began>>

\* push_graph_structure fails, and the run goes on.
PushFails(a) ==
  /\ stage[a] = Push
  /\ disturbed' = [disturbed EXCEPT ![a] = TRUE]
  /\ stage' = [stage EXCEPT ![a] = Submit]
  /\ UNCHANGED <<source, stored, manual, tries, got, began>>

\* A push from elsewhere lands: one the client gave up and core still held, one
\* of a run that a restart cut off, one of another process.  Its graph may be
\* as torn as any, and as old.
OtherPushLands ==
  /\ \E v \in [Export -> Version] :
       /\ UpTo(v, source)
       /\ stored' = stored \cup EdgesOf(v)
  /\ disturbed' = [a \in Thread |-> disturbed[a] \/ stage[a] # Idle]
  /\ UNCHANGED <<source, manual, run>>

\* The derivation is submitted, or that fails too; the run is over.
SubmitAndEnd(a) ==
  /\ stage[a] = Submit
  /\ End(a)
  /\ UNCHANGED <<source, stored, manual, disturbed>>

\* create_manual_edge_endpoint: core's tables have the edge, no export does.
AddManualEdge ==
  /\ \E e \in ManualEdge :
       /\ manual' = manual \cup {e}
       /\ stored' = stored \cup {e}
  /\ UNCHANGED <<source, run, disturbed>>

\* The satellite restarts.
FRestart ==
  /\ stage' = [a \in Thread |-> Idle]
  /\ tries' = [a \in Thread |-> 0]
  /\ got' = [a \in Thread |-> Unread]
  /\ began' = [a \in Thread |-> Unread]
  /\ UNCHANGED <<source, stored, manual, disturbed>>

\* Any step of a run but its beginning and its structure push landing.
RunStep(a) ==
  \/ GetOk(a) \/ GetFails(a) \/ GetGivesUp(a) \/ PushFails(a) \/ SubmitAndEnd(a)

FNext ==
  \/ Change \/ OtherPushLands \/ AddManualEdge \/ FRestart
  \/ \E a \in Thread : Begin(a) \/ RunStep(a) \/ PushLands(a)

FSpec == FInit /\ [][FNext]_fetchVars

-----------------------------------------------------------------------------
FTypeOK ==
  /\ source \in [Export -> Version]
  /\ stored \subseteq Edge
  /\ manual \subseteq Edge
  /\ stage \in [Thread -> 0 .. 5]
  /\ tries \in [Thread -> 0 .. MaxAttempts - 1]
  /\ got \in [Thread -> [Export -> Version]]
  /\ began \in [Thread -> [Export -> Version]]
  /\ disturbed \in [Thread -> BOOLEAN]

\* "There is no path that produces a partial/incomplete graph object"
\* (GraphBuildIncompleteError): whatever GETs failed and were repeated, a graph
\* that is pushed or derived from has all three exports, and each as core's
\* tables had it at some moment of this very run.
WholeGraphs ==
  \A a \in Thread : stage[a] \in {Push, Submit} =>
    UpTo(began[a], got[a]) /\ UpTo(got[a], source)

\* compare_derivation, asked about a run that is about to submit.
CoreAgrees(a) == Derives(Graph(a)) = Derives(stored)

\* A torn graph alone never makes core flag a derivation: as long as data is
\* only added to and nobody adds edges by hand, core disagrees with a run only
\* if its structure push failed or somebody else's landed after it had begun.
FlagsNeedARival ==
  \A a \in Thread :
    stage[a] = Submit /\ ~CoreAgrees(a) => disturbed[a] \/ manual # {}
=============================================================================
