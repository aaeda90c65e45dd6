--------------------------- MODULE DerivationLedger ---------------------------
(***************************************************************************)
(* What core's ingest promises of its tables: a ledger of results.  A       *)
(* derivation is recorded in one step; with one that core confirms or makes *)
(* itself, and only with such, its obligations are linked in the same step, *)
(* and only obligations that core's own graph derives are ever linked.      *)
(***************************************************************************)
EXTENDS Naturals

CONSTANTS System, Obligation, Derivation

Status == {"validated", "flagged_mismatch", "self_derived"}

VARIABLES
  graph,    \* the obligations core derives for each system
  ledger,   \* how often each derivation was recorded with each status
  linked    \* the obligations linked to each system

ledgerVars == <<graph, ledger, linked>>

LInit ==
  /\ graph = [s \in System |-> {}]
  /\ ledger = [d \in Derivation |-> [st \in Status |-> 0]]
  /\ linked = [s \in System |-> {}]

\* Core's graph comes to derive more.
Learn ==
  /\ graph' \in [System -> SUBSET Obligation]
  /\ \A s \in System : graph[s] \subseteq graph'[s]
  /\ UNCHANGED <<ledger, linked>>

Record(d, st) == ledger' = [ledger EXCEPT ![d][st] = @ + 1]

Confirmed(d) ==
  /\ d.ids \subseteq graph[d.sys]
  /\ Record(d, "validated") \/ Record(d, "self_derived")
  /\ linked' = [linked EXCEPT ![d.sys] = @ \cup d.ids]
  /\ UNCHANGED graph

Flagged(d) ==
  /\ Record(d, "flagged_mismatch")
  /\ UNCHANGED <<graph, linked>>

LNext == Learn \/ \E d \in Derivation : Confirmed(d) \/ Flagged(d)

LSpec == LInit /\ [][LNext]_ledgerVars

-----------------------------------------------------------------------------
\* A result of d that core confirmed or made itself.
Bound(d) == ledger[d]["validated"] + ledger[d]["self_derived"] > 0

\* Links and ledger can be told from each other: what is linked to a system is
\* what its bound results derived, no more and no less, and core's graph still
\* derives all of it.
LinksMatchLedger ==
  /\ \A d \in Derivation : Bound(d) => d.ids \subseteq linked[d.sys]
  /\ \A s \in System : \A o \in linked[s] :
       /\ o \in graph[s]
       /\ \E d \in Derivation : d.sys = s /\ o \in d.ids /\ Bound(d)
=============================================================================
