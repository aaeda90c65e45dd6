------------------------------- MODULE Webhook -------------------------------
(***************************************************************************)
(* p2_satellite/event_listener.py: the signed webhook.  A notification is   *)
(* signed once, for the second it is stamped with, and may then arrive any  *)
(* number of times and at any time, or never.  The route awaits nothing     *)
(* after the body, so that one delivery is one step: allowlist, freshness,  *)
(* replay cache, body, background task.  Deliveries that are turned away    *)
(* without touching the cache (403, a wrong signature, a stale stamp) are   *)
(* stuttering steps.                                                        *)
(*                                                                          *)
(* The module's operators carry names of their own (WInit, WNext), because  *)
(* EventPath composes it with ExportFetch.                                  *)
(***************************************************************************)
EXTENDS Integers, FiniteSets

CONSTANTS
  Notice,      \* signed notifications, one (t, hex) pair each
  Stamp,       \* the second t each is stamped with, by core's clock
  Readable,    \* those whose body is an AiSystemChangedEvent
  Sender,      \* client addresses
  Allowlist,   \* settings.event_listener_ip_allowlist
  Skew,        \* settings.event_webhook_max_clock_skew_seconds
  Margin,      \* the 5 s a record outlasts the skew
  Cap,         \* MAX_REPLAY_CACHE_SIZE
  MaxTime,     \* bound on the clock
  MaxTaken     \* bound on how often one process accepts a notification

ASSUME NoticeAssumption ==
  /\ Stamp \in [Notice -> Int]
  /\ Readable \subseteq Notice
ASSUME RetentionAssumption ==
  /\ Skew \in Nat /\ Margin \in Nat \ {0} /\ Cap \in Nat \ {0}
  /\ MaxTime \in Nat \ {0} /\ MaxTaken \in Nat \ {0}

VARIABLES
  now,     \* the satellite's clock; time.time() and time.monotonic() keep pace
  seen,    \* _seen_signatures: when each record expires, Unseen without one
  tasks,   \* background tasks accepted and not begun, by notification
  begun,   \* background tasks this process has begun (history)
  used     \* when this process last let the notification pass (history)

webhookVars == <<now, seen, tasks, begun, used>>

Unseen == 0   \* the clock starts at 1, so no record expires at 0
Nothing == [d \in Notice |-> 0]

WInit ==
  /\ now = 1
  /\ seen = Nothing
  /\ tasks = Nothing
  /\ begun = Nothing
  /\ used = Nothing

\* _client_ip_allowed: an empty list lets everyone pass.
Allowed(ip) == Allowlist = {} \/ ip \in Allowlist

\* verify_signature, check 2: abs(now - t) is within the skew.
Fresh(d) == now - Stamp[d] <= Skew /\ Stamp[d] - now <= Skew

\* _is_first_use sweeps first: records whose time has come are dropped.
Swept == [d \in Notice |-> IF seen[d] <= now THEN Unseen ELSE seen[d]]
Live == {d \in Notice : Swept[d] # Unseen}

\* Mutant: nothing makes room.
RoomForAll == {Swept}

\* At the cap, a record with the earliest expiry makes room for the new one.
Earliest == {d \in Live : \A o \in Live : seen[d] <= seen[o]}
Room ==
  IF Cardinality(Live) < Cap THEN {Swept}
  ELSE {[Swept EXCEPT ![d] = Unseen] : d \in Earliest}

\* Mutant: the record is kept for the skew alone.
RecordForSkew(d) ==
  /\ \E kept \in Room : seen' = [kept EXCEPT ![d] = now + Skew]
  /\ used' = [used EXCEPT ![d] = now]

\* The pair is recorded and passes.
Record(d) ==
  /\ \E kept \in Room : seen' = [kept EXCEPT ![d] = now + Skew + Margin]
  /\ used' = [used EXCEPT ![d] = now]

FirstUse(d, ip) == Allowed(ip) /\ Fresh(d) /\ Swept[d] = Unseen

Taken(d) == tasks[d] + begun[d]

\* 202: the background task is added; it begins after the answer is sent.
Accept(d, ip) ==
  /\ FirstUse(d, ip)
  /\ d \in Readable
  /\ Taken(d) < MaxTaken
  /\ Record(d)
  /\ tasks' = [tasks EXCEPT ![d] = @ + 1]
  /\ UNCHANGED <<now, begun>>

\* 422: the signature is good and now used up, the body is no event.
Unreadable(d, ip) ==
  /\ FirstUse(d, ip)
  /\ d \notin Readable
  /\ Record(d)
  /\ UNCHANGED <<now, tasks, begun>>

\* 401: the pair was seen before.  The sweep has happened all the same.
Refuse(d, ip) ==
  /\ Allowed(ip) /\ Fresh(d)
  /\ Swept[d] # Unseen
  /\ seen' = Swept
  /\ UNCHANGED <<now, tasks, begun, used>>

\* process_ai_system_changed begins on a thread of the pool.
BeginTask(d) ==
  /\ tasks[d] > 0
  /\ tasks' = [tasks EXCEPT ![d] = @ - 1]
  /\ begun' = [begun EXCEPT ![d] = @ + 1]
  /\ UNCHANGED <<now, seen, used>>

Tick ==
  /\ now < MaxTime
  /\ now' = now + 1
  /\ UNCHANGED <<seen, tasks, begun, used>>

\* Mutant: the cache outlives the process, its tasks do not.
WRestartKeepingCache ==
  /\ tasks' = Nothing
  /\ begun' = Nothing
  /\ UNCHANGED <<now, seen, used>>

\* The process restarts: cache and accepted tasks are in its memory only.
WRestart ==
  /\ seen' = Nothing
  /\ tasks' = Nothing
  /\ begun' = Nothing
  /\ used' = Nothing
  /\ UNCHANGED now

Deliver(d, ip) == Accept(d, ip) \/ Unreadable(d, ip) \/ Refuse(d, ip)

WNext ==
  \/ \E d \in Notice, ip \in Sender : Deliver(d, ip)
  \/ \E d \in Notice : BeginTask(d)
  \/ Tick
  \/ WRestart

WSpec == WInit /\ [][WNext]_webhookVars

-----------------------------------------------------------------------------
Recorded == {d \in Notice : seen[d] # Unseen}

\* The types; "MAX_REPLAY_CACHE_SIZE caps the physical dict size".
WTypeOK ==
  /\ now \in 1 .. MaxTime
  /\ seen \in [Notice -> Nat]
  /\ tasks \in [Notice -> Nat]
  /\ begun \in [Notice -> Nat]
  /\ used \in [Notice -> Nat]
  /\ IsFiniteSet(Recorded) /\ Cardinality(Recorded) <= Cap

\* What passed since d did.
UsedSince(d) == {o \in Notice \ {d} : used[o] # 0 /\ used[o] >= used[d]}

\* "This exact (t, hex) pair has not already been accepted before"
\* (verify_signature).  A process takes a notification on again only if Cap
\* others passed in between, so that the cache had to forget it, or if core's
\* clock was so far ahead (Margin or more) that the notification was still fresh
\* when its record expired.
AcceptedOnce ==
  [][\A d \in Readable :
       Taken(d) > 0 /\ Taken(d)' > Taken(d) =>
         \/ Cardinality(UsedSince(d)) >= Cap
         \/ Stamp[d] >= used[d] + Margin]_webhookVars

\* A 401 for a repeated notification loses nothing: its task waits in this
\* process or has begun in it.  After a restart, which loses waiting tasks, the
\* sender's repetition is accepted again.
RefusalsAreHonest ==
  \A d \in Readable : seen[d] # Unseen => Taken(d) > 0
=============================================================================
