------------------------------ MODULE EventPath ------------------------------
(***************************************************************************)
(* From the webhook to core's graph tables: Webhook accepts a notification, *)
(* a thread of the pool begins its background task, and that task is a run  *)
(* of ExportFetch.  One process holds all of it.  What the poll pushes next *)
(* to the tasks is among OtherPushLands.                                    *)
(***************************************************************************)
EXTENDS Webhook, ExportFetch

CONSTANT Announces    \* the version of ai-systems each notification tells of

ASSUME AnnouncesAssumption == Announces \in [Notice -> Version]

VARIABLES
  cause,    \* the notification each thread's run is for, as a set
  landed    \* notifications whose run had its structure pushed (history)

vars == <<webhookVars, fetchVars, cause, landed>>

Init ==
  /\ WInit
  /\ FInit
  /\ cause = [a \in Thread |-> {}]
  /\ landed = {}

\* Mutant: core notifies and then commits.
ArrivesAnyTime(d, ip) ==
  /\ Deliver(d, ip)
  /\ UNCHANGED <<fetchVars, cause, landed>>

\* Core signs and sends a notification once the change is committed.
Arrives(d, ip) ==
  /\ source["ai-systems"] >= Announces[d]
  /\ Deliver(d, ip)
  /\ UNCHANGED <<fetchVars, cause, landed>>

\* process_ai_system_changed.
BeginRun(a, d) ==
  /\ BeginTask(d)
  /\ Begin(a)
  /\ cause' = [cause EXCEPT ![a] = {d}]
  /\ UNCHANGED landed

\* The system is in some other run's hands (HybridTrigger): the task ends at once.
SkipRun(d) ==
  /\ BeginTask(d)
  /\ UNCHANGED <<fetchVars, cause, landed>>

Run(a) ==
  /\ \/ RunStep(a) /\ UNCHANGED landed
     \/ PushLands(a) /\ landed' = landed \cup cause[a]
  /\ UNCHANGED <<webhookVars, cause>>

\* Core's tables change by somebody else's hand.
Elsewhere ==
  /\ Change \/ OtherPushLands \/ AddManualEdge
  /\ UNCHANGED <<webhookVars, cause, landed>>

Clock ==
  /\ Tick
  /\ UNCHANGED <<fetchVars, cause, landed>>

Restart ==
  /\ WRestart
  /\ FRestart
  /\ cause' = [a \in Thread |-> {}]
  /\ UNCHANGED landed

Next ==
  \/ \E d \in Notice, ip \in Sender : Arrives(d, ip)
  \/ \E a \in Thread, d \in Notice : BeginRun(a, d)
  \/ \E d \in Notice : SkipRun(d)
  \/ \E a \in Thread : Run(a)
  \/ Elsewhere
  \/ Clock
  \/ Restart

Spec == Init /\ [][Next]_vars

-----------------------------------------------------------------------------
TypeOK ==
  /\ WTypeOK
  /\ FTypeOK
  /\ cause \in [Thread -> SUBSET Notice]
  /\ landed \subseteq Notice

\* End to end: the change that a notification tells of is in core's graph tables
\* once a run for it has pushed its structure, however torn that run's graph was,
\* whatever failed before, and whoever pushes next to it or later.
ActedOnIsStored ==
  \A d \in landed : Facts["ai-systems"][Announces[d]] \subseteq stored
=============================================================================
