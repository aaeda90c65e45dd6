------------------------- MODULE HybridTrigger_proofs -------------------------
(***************************************************************************)
(* Proofs about HybridTrigger for every set of systems, workers and         *)
(* obligations and every value of the bounds.                               *)
(***************************************************************************)
EXTENDS HybridTrigger, TLAPS

(***************************************************************************)
(* Type correctness.                                                        *)
(***************************************************************************)

\* Giving up a run's locks and locals keeps the types (Finish: the exit of the
\* lock's `with` block).
LEMMA FinishType ==
  ASSUME TypeOK, NEW a \in Actor, Finish(a)
  PROVE  /\ lock' \in [System -> Actor \cup {NoOne}]
         /\ pc' \in [Actor -> {"idle", "fetch", "structure", "acquire", "push"}]
         /\ since' \in [Actor -> Version]
         /\ graph' \in [Actor -> Snapshot]
         /\ batch' \in [Actor -> SUBSET System]
         /\ todo' \in [Actor -> SUBSET System]
<1>1. 0 \in Version /\ NoSnapshot \in Snapshot
  BY BoundAssumption DEF Version, NoSnapshot, Snapshot
<1>2. QED
  BY <1>1 DEF Finish, TypeOK

\* What a structure push meets in core's tables is a report (Meets).
LEMMA ReportType ==
  /\ NoReport \in Report
  /\ TypeOK => \A g \in Snapshot : Meets(g) \in Report
<1>1. NoEdges \in Edges
  BY DEF NoEdges, Edges
<1>2. NoReport \in Report
  BY <1>1 DEF NoReport, Report
<1>3. ASSUME TypeOK, NEW g \in Snapshot PROVE Meets(g) \in Report
  <2>1. [s \in System |-> Applies[s][g[s]] \ structure[s]] \in Edges
    BY AppliesAssumption DEF Snapshot, Edges
  <2>2. QED
    BY <1>1, <2>1 DEF Meets, Report
<1>4. QED
  BY <1>2, <1>3

\* Going on after a POST keeps the types (AfterPost).
LEMMA AfterPostType ==
  ASSUME TypeOK, NEW a \in Actor, AfterPost(a)
  PROVE  /\ lock' \in [System -> Actor \cup {NoOne}]
         /\ pc' \in [Actor -> {"idle", "fetch", "structure", "acquire", "push"}]
         /\ since' \in [Actor -> Version]
         /\ graph' \in [Actor -> Snapshot]
         /\ batch' \in [Actor -> SUBSET System]
         /\ todo' \in [Actor -> SUBSET System]
         /\ chunk' \in [Actor -> SUBSET System]
         /\ call' \in [Actor -> {"none", "sent", "gone"}]
         /\ tries' \in [Actor -> 0 .. MaxAttempts]
         /\ met' \in [Actor -> Report]
<1>1. /\ chunk' \in [Actor -> SUBSET System]
      /\ call' \in [Actor -> {"none", "sent", "gone"}]
      /\ tries' \in [Actor -> 0 .. MaxAttempts]
      /\ met' \in [Actor -> Report]
  BY BoundAssumption, ReportType DEF AfterPost, TypeOK
<1>2. CASE pc[a] = "structure"
  BY <1>1, <1>2 DEF AfterPost, TypeOK
<1>3. CASE pc[a] = "push" /\ todo[a] # chunk[a]
  BY <1>1, <1>3 DEF AfterPost, TypeOK
<1>4. CASE pc[a] = "push" /\ todo[a] = chunk[a]
  BY <1>1, <1>4, FinishType DEF AfterPost
<1>5. QED
  BY <1>2, <1>3, <1>4 DEF AfterPost

\* Sending a request keeps the types (Send).
LEMMA SendType ==
  ASSUME TypeOK, NEW a \in Actor, Send(a)
  PROVE  /\ call' \in [Actor -> {"none", "sent", "gone"}]
         /\ met' \in [Actor -> Report]
<1>1. graph[a] \in Snapshot
  BY DEF TypeOK
<1>2. QED
  BY <1>1, ReportType DEF Send, TypeOK

\* Landing a structure push or derivations in core keeps core's types.
LEMMA LandType ==
  ASSUME TypeOK, NEW g \in Snapshot, NEW done \in SUBSET System, NEW was,
         LandStructure(g, was) \/ LandDerivations(g, done)
  PROVE  /\ published' \in BOOLEAN
         /\ structure' \in Edges
         /\ doubled' \in Edges
         /\ latest' \in [System -> Result]
         /\ links' \in Edges
<1>1. \A s \in System : g[s] \in Version /\ Applies[s][g[s]] \subseteq Obligation
  BY AppliesAssumption DEF Snapshot
<1>2. CASE LandStructure(g, was)
  BY <1>1, <1>2 DEF LandStructure, TypeOK, Edges
<1>3. CASE LandDerivations(g, done)
  BY <1>1, <1>3 DEF LandDerivations, Matches, TypeOK, Result, Edges
<1>4. QED
  BY <1>2, <1>3

\* The request a thread abandons is a request (Abandoned).
LEMMA AbandonedType ==
  ASSUME TypeOK, NEW a \in Actor
  PROVE  Abandoned(a) \in Request \cup {NoCall}
BY DEF Abandoned, CurrentRequest, Request, TypeOK

\* Every variable keeps its type whatever the satellite, core and the network do.
THEOREM TypeCorrect == Spec => []TypeOK
<1>1. Init => TypeOK
  <2> SUFFICES ASSUME Init PROVE TypeOK
    OBVIOUS
  <2>1. 0 \in Version /\ NoSnapshot \in Snapshot
    BY BoundAssumption DEF Version, NoSnapshot, Snapshot
  <2>2. latest \in [System -> Result]
    BY <2>1 DEF Init, Result
  <2>3. tries \in [Actor -> 0 .. MaxAttempts]
    BY BoundAssumption DEF Init
  <2>4. late \in [Actor -> Request \cup {NoCall}]
    BY DEF Init
  <2>5. /\ met \in [Actor -> Report]
        /\ structure \in Edges /\ doubled \in Edges /\ links \in Edges
    BY ReportType DEF Init, NoEdges, Edges
  <2>6. QED
    BY <2>1, <2>2, <2>3, <2>4, <2>5 DEF Init, TypeOK
<1>2. TypeOK /\ [Next]_vars => TypeOK'
  <2> SUFFICES ASSUME TypeOK, [Next]_vars PROVE TypeOK'
    OBVIOUS
  <2>0. 0 \in Version /\ NoSnapshot \in Snapshot
    BY BoundAssumption DEF Version, NoSnapshot, Snapshot
  <2>1. ASSUME NEW s \in System, CoreWrite(s) PROVE TypeOK'
    <3>1. facts[s] + 1 \in Version
      <4>1. facts[s] \in 0 .. MaxVersion /\ MaxWrites[s] \in 0 .. MaxVersion
        BY BoundAssumption DEF TypeOK, Snapshot, Version
      <4>2. facts[s] < MaxWrites[s]
        BY <2>1 DEF CoreWrite
      <4>3. QED
        BY <4>1, <4>2, BoundAssumption DEF Version
    <3>2. facts' \in Snapshot /\ queue' \subseteq Notification
      BY <2>1, <3>1 DEF CoreWrite, TypeOK, Snapshot, Notification
    <3>3. QED
      BY <2>1, <3>2 DEF CoreWrite, TypeOK, threadVars, coreVars
  <2>2. ASSUME NEW w \in Actor, TaskAcquire(w) PROVE TypeOK'
    BY <2>2 DEF TaskAcquire, TypeOK, coreVars, Notification
  <2>3. ASSUME NEW w \in Actor, TaskSkip(w) PROVE TypeOK'
    BY <2>3 DEF TaskSkip, TypeOK, coreVars, threadVars
  <2>4. ASSUME NEW a \in Actor, Fetch(a) PROVE TypeOK'
    BY <2>4 DEF Fetch, TypeOK, coreVars
  <2>5. ASSUME NEW a \in Actor, FetchFail(a) PROVE TypeOK'
    <3>1. Finish(a)
      BY <2>5 DEF FetchFail
    <3>2. QED
      BY <2>5, <3>1, FinishType DEF FetchFail, TypeOK, coreVars
  <2>6. CASE PollFire
    BY <2>6 DEF PollFire, TypeOK, coreVars
  <2>7. ASSUME NEW s \in System, PollVisit(s) PROVE TypeOK'
    BY <2>7 DEF PollVisit, TypeOK, coreVars, Actor
  <2>8. CASE PollSend
    <3>0. Poll \in Actor
      BY DEF Actor
    <3>1. CASE batch[Poll] # {}
      BY <2>8, <3>0, <3>1 DEF PollSend, TypeOK, coreVars
    <3>2. CASE batch[Poll] = {}
      <4>1. Finish(Poll)
        BY <2>8, <3>2 DEF PollSend
      <4>2. QED
        BY <2>8, <3>0, <4>1, FinishType DEF PollSend, TypeOK, coreVars
    <3>3. QED
      BY <3>1, <3>2
  <2>9. ASSUME NEW a \in Actor, PostStep(a) PROVE TypeOK'
    <3>0. /\ graph[a] \in Snapshot
          /\ chunk[a] \in SUBSET System
          /\ tries[a] \in 0 .. MaxAttempts
      BY DEF TypeOK
    <3>1. CASE Post(a)
      <4>1. chunk' \in [Actor -> SUBSET System]
        BY <3>1 DEF Post, TypeOK
      <4>2. tries' \in [Actor -> 0 .. MaxAttempts]
        BY <3>1, BoundAssumption DEF Post, TypeOK
      <4>3. Send(a)
        BY <3>1 DEF Post
      <4>4. QED
        BY <3>1, <4>1, <4>2, <4>3, SendType DEF Post, TypeOK, coreVars
    <3>2. CASE CoreAnswers(a)
      <4>1. AfterPost(a)
        BY <3>2 DEF CoreAnswers
      <4>2. \/ LandStructure(graph[a], met[a])
            \/ LandDerivations(graph[a], chunk[a])
        BY <3>2 DEF CoreAnswers
      <4>3. QED
        BY <3>0, <3>2, <4>1, <4>2, AfterPostType, LandType
        DEF CoreAnswers, TypeOK
    <3>3. CASE CoreAnswerLost(a)
      <4>1. \E done \in SUBSET System : \/ LandStructure(graph[a], met[a])
                                        \/ LandDerivations(graph[a], done)
        BY <3>0, <3>3 DEF CoreAnswerLost
      <4>2. met' \in [Actor -> Report]
        BY <3>3, ReportType DEF CoreAnswerLost, TypeOK
      <4>3. QED
        BY <3>0, <3>3, <4>1, <4>2, LandType DEF CoreAnswerLost, TypeOK
    <3>4. CASE Unreachable(a)
      <4>1. met' \in [Actor -> Report]
        BY <3>4, ReportType DEF Unreachable, TypeOK
      <4>2. QED
        BY <3>4, <4>1 DEF Unreachable, TypeOK, coreVars
    <3>5. CASE CoreRefuses(a)
      BY <3>5, AfterPostType DEF CoreRefuses, TypeOK, coreVars
    <3>6. CASE Retry(a)
      <4>1. late' \in [Actor -> Request \cup {NoCall}]
        BY <3>6, AbandonedType DEF Retry, LeaveBehind, TypeOK
      <4>2. tries' \in [Actor -> 0 .. MaxAttempts]
        BY <3>0, <3>6, BoundAssumption DEF Retry, TypeOK
      <4>3. Send(a)
        BY <3>6 DEF Retry
      <4>4. QED
        BY <3>6, <4>1, <4>2, <4>3, SendType DEF Retry, TypeOK, coreVars
    <3>7. CASE GiveUp(a)
      <4>1. late' \in [Actor -> Request \cup {NoCall}]
        BY <3>7, AbandonedType DEF GiveUp, LeaveBehind, TypeOK
      <4>2. AfterPost(a)
        BY <3>7 DEF GiveUp
      <4>3. QED
        BY <3>7, <4>1, <4>2, AfterPostType DEF GiveUp, TypeOK, coreVars
    <3>8. QED
      BY <2>9, <3>1, <3>2, <3>3, <3>4, <3>5, <3>6, <3>7 DEF PostStep
  <2>10. ASSUME NEW a \in Actor, LateLands(a) PROVE TypeOK'
    <3>1. late[a] \in Request \cup {NoCall} /\ late[a] # NoCall
      BY <2>10 DEF LateLands, TypeOK
    <3>2. late[a].graph \in Snapshot /\ late[a].items \in SUBSET System
      BY <3>1 DEF Request
    <3>3. \/ LandStructure(late[a].graph, late[a].met)
          \/ LandDerivations(late[a].graph, late[a].items)
      BY <2>10 DEF LateLands
    <3>4. QED
      BY <2>10, <3>2, <3>3, LandType DEF LateLands, TypeOK, threadVars
  <2>11. ASSUME NEW a \in Actor, LateDropped(a) PROVE TypeOK'
    BY <2>11 DEF LateDropped, TypeOK, threadVars, coreVars
  <2>12. CASE Restart
    <3>1. late' \in [Actor -> Request \cup {NoCall}]
      BY <2>12, AbandonedType DEF Restart
    <3>2. tries' \in [Actor -> 0 .. MaxAttempts]
      BY <2>12, BoundAssumption DEF Restart
    <3>3. met' \in [Actor -> Report]
      BY <2>12, ReportType DEF Restart
    <3>4. QED
      BY <2>0, <2>12, <3>1, <3>2, <3>3 DEF Restart, TypeOK, coreVars
  <2>13. CASE UNCHANGED vars
    BY <2>13 DEF vars, TypeOK
  <2>14. QED
    BY <2>1, <2>2, <2>3, <2>4, <2>5, <2>6, <2>7, <2>8, <2>9, <2>10, <2>11,
       <2>12, <2>13
    DEF Next, TaskStep, PollStep, Actor
<1>3. QED
  BY <1>1, <1>2, PTL DEF Spec

(***************************************************************************)
(* The lock registry.  LocksMatchRuns is inductive given the types: a       *)
(* thread's lock set and its run's batch change together, in every step.    *)
(***************************************************************************)

\* Leaving a run releases exactly the locks it took (Finish).
LEMMA FinishLocks ==
  ASSUME TypeOK, LocksMatchRuns, NEW a \in Actor, Finish(a)
  PROVE  LocksMatchRuns'
<1>1. SUFFICES ASSUME NEW b \in Actor
               PROVE  /\ \A s \in System : lock'[s] = b <=> s \in batch'[b]
                      /\ pc'[b] = "idle" => batch'[b] = {}
  BY DEF LocksMatchRuns
<1>2. batch'[b] = IF a = b THEN {} ELSE batch[b]
  BY DEF Finish, TypeOK
<1>3. CASE b = a
  <2>1. \A s \in System : lock'[s] # a
    BY ActorAssumption DEF Finish, LocksMatchRuns
  <2>2. QED
    BY <1>2, <1>3, <2>1
<1>4. CASE b # a
  <2>1. ASSUME NEW s \in System PROVE lock'[s] = b <=> s \in batch'[b]
    BY <1>2, <1>4, ActorAssumption DEF Finish, LocksMatchRuns
  <2>2. pc'[b] = pc[b]
    BY <1>4 DEF Finish, TypeOK
  <2>3. QED
    BY <1>2, <1>4, <2>1, <2>2 DEF LocksMatchRuns
<1>5. QED
  BY <1>3, <1>4

\* Going on after a POST either keeps every lock or ends the run (AfterPost).
LEMMA AfterPostLocks ==
  ASSUME TypeOK, LocksMatchRuns, NEW a \in Actor, AfterPost(a)
  PROVE  LocksMatchRuns'
<1>1. CASE pc[a] = "structure"
  BY <1>1 DEF AfterPost, LocksMatchRuns, TypeOK
<1>2. CASE pc[a] = "push" /\ todo[a] # chunk[a]
  BY <1>2 DEF AfterPost, LocksMatchRuns
<1>3. CASE pc[a] = "push" /\ todo[a] = chunk[a]
  BY <1>3, FinishLocks DEF AfterPost
<1>4. QED
  BY <1>1, <1>2, <1>3 DEF AfterPost

\* One step of the system keeps LocksMatchRuns.
LEMMA LocksStep ==
  ASSUME TypeOK, LocksMatchRuns, [Next]_vars
  PROVE  LocksMatchRuns'
<1>1. ASSUME UNCHANGED <<lock, pc, batch>> PROVE LocksMatchRuns'
  BY <1>1 DEF LocksMatchRuns
<1>2. ASSUME NEW s \in System, CoreWrite(s) PROVE LocksMatchRuns'
  BY <1>1, <1>2 DEF CoreWrite, threadVars
<1>3. ASSUME NEW w \in Worker, TaskAcquire(w) PROVE LocksMatchRuns'
  <2>0. w \in Actor
    BY DEF Actor
  <2>1. PICK n \in queue :
          /\ lock[n.sys] = NoOne
          /\ lock' = [lock EXCEPT ![n.sys] = w]
          /\ batch' = [batch EXCEPT ![w] = {n.sys}]
    BY <1>3 DEF TaskAcquire
  <2>2. n.sys \in System
    BY <2>1 DEF TypeOK, Notification
  <2>3. batch[w] = {} /\ pc' = [pc EXCEPT ![w] = "fetch"]
    BY <1>3, <2>0 DEF TaskAcquire, LocksMatchRuns
  <2>4. ASSUME NEW b \in Actor, NEW s \in System
        PROVE  lock'[s] = b <=> s \in batch'[b]
    BY <2>0, <2>1, <2>2, <2>3, <2>4, ActorAssumption DEF LocksMatchRuns, TypeOK
  <2>5. ASSUME NEW b \in Actor, pc'[b] = "idle" PROVE batch'[b] = {}
    BY <2>0, <2>1, <2>3, <2>5 DEF LocksMatchRuns, TypeOK
  <2>6. QED
    BY <2>4, <2>5 DEF LocksMatchRuns
<1>4. ASSUME NEW w \in Worker, TaskSkip(w) PROVE LocksMatchRuns'
  BY <1>1, <1>4 DEF TaskSkip, threadVars
<1>5. ASSUME NEW a \in Actor, Fetch(a) PROVE LocksMatchRuns'
  BY <1>5 DEF Fetch, LocksMatchRuns, TypeOK
<1>6. ASSUME NEW a \in Actor, FetchFail(a) PROVE LocksMatchRuns'
  BY <1>6, FinishLocks DEF FetchFail
<1>7. CASE PollFire
  BY <1>7 DEF PollFire, LocksMatchRuns, TypeOK, Actor
<1>8. ASSUME NEW s \in System, PollVisit(s) PROVE LocksMatchRuns'
  <2>0. Poll \in Actor
    BY DEF Actor
  <2>1. CASE lock[s] = NoOne
    <3>1. /\ lock' = [lock EXCEPT ![s] = Poll]
          /\ batch' = [batch EXCEPT ![Poll] = @ \cup {s}]
          /\ pc' = pc /\ pc[Poll] = "acquire"
      BY <1>8, <2>1 DEF PollVisit
    <3>2. ASSUME NEW b \in Actor, NEW t \in System
          PROVE  lock'[t] = b <=> t \in batch'[b]
      BY <2>0, <2>1, <3>1, ActorAssumption DEF LocksMatchRuns, TypeOK
    <3>3. QED
      BY <2>0, <3>1, <3>2 DEF LocksMatchRuns, TypeOK
  <2>2. CASE lock[s] # NoOne
    BY <1>1, <1>8, <2>2 DEF PollVisit
  <2>3. QED
    BY <2>1, <2>2
<1>9. CASE PollSend
  <2>0. Poll \in Actor
    BY DEF Actor
  <2>1. CASE batch[Poll] # {}
    BY <1>9, <2>0, <2>1 DEF PollSend, LocksMatchRuns, TypeOK
  <2>2. CASE batch[Poll] = {}
    BY <1>9, <2>0, <2>2, FinishLocks DEF PollSend
  <2>3. QED
    BY <2>1, <2>2
<1>10. ASSUME NEW a \in Actor, PostStep(a) PROVE LocksMatchRuns'
  <2>1. CASE Post(a) \/ CoreAnswerLost(a) \/ Unreachable(a) \/ Retry(a)
    BY <1>1, <2>1 DEF Post, CoreAnswerLost, Unreachable, Retry
  <2>2. CASE CoreAnswers(a) \/ CoreRefuses(a) \/ GiveUp(a)
    BY <2>2, AfterPostLocks DEF CoreAnswers, CoreRefuses, GiveUp
  <2>3. QED
    BY <1>10, <2>1, <2>2 DEF PostStep
<1>11. ASSUME NEW a \in Actor, LateLands(a) \/ LateDropped(a)
       PROVE  LocksMatchRuns'
  BY <1>1, <1>11 DEF LateLands, LateDropped, threadVars
<1>12. CASE Restart
  BY <1>12, ActorAssumption DEF Restart, LocksMatchRuns
<1>13. CASE UNCHANGED vars
  BY <1>1, <1>13 DEF vars
<1>14. QED
  BY <1>2, <1>3, <1>4, <1>5, <1>6, <1>7, <1>8, <1>9, <1>10, <1>11, <1>12, <1>13
  DEF Next, TaskStep, PollStep, Actor

\* No lock leaks and none is released early, whatever fails in a run.
THEOREM LocksMatch == Spec => []LocksMatchRuns
<1>1. Init => LocksMatchRuns
  BY ActorAssumption DEF Init, LocksMatchRuns
<1>2. TypeOK /\ LocksMatchRuns /\ [Next]_vars => LocksMatchRuns'
  BY LocksStep
<1>3. QED
  BY <1>1, <1>2, TypeCorrect, PTL DEF Spec

\* Two runs never cover the same system (concurrency.py).
THEOREM RunsExcludeEachOther == Spec => []MutualExclusion
<1>1. TypeOK /\ LocksMatchRuns => MutualExclusion
  BY DEF TypeOK, LocksMatchRuns, MutualExclusion
<1>2. QED
  BY <1>1, TypeCorrect, LocksMatch, PTL

(***************************************************************************)
(* The threads implement ProcessingGuard: a run's batch is what it holds.   *)
(***************************************************************************)

\* A lock that no one owns is on a system that no run covers.
LEMMA FreeLock ==
  ASSUME TypeOK, LocksMatchRuns, NEW s \in System, lock[s] = NoOne
  PROVE  Guard!Free(s)
BY ActorAssumption DEF Guard!Free, LocksMatchRuns

\* The end of a run gives back all it held and nothing else.
LEMMA FinishGivesBack ==
  ASSUME NEW a \in Actor, Finish(a)
  PROVE  Guard!GiveBack(a)
BY DEF Finish, Guard!GiveBack

\* Every step of the trigger is a step of the guard or changes no holding.
LEMMA GuardStep ==
  ASSUME TypeOK, LocksMatchRuns, [Next]_vars
  PROVE  [Guard!GNext]_batch
<1>1. ASSUME NEW a \in Actor, Finish(a) PROVE [Guard!GNext]_batch
  BY <1>1, FinishGivesBack DEF Guard!GNext
<1>2. ASSUME NEW a \in Actor, AfterPost(a) PROVE [Guard!GNext]_batch
  BY <1>1, <1>2 DEF AfterPost
<1>3. ASSUME NEW w \in Worker, TaskAcquire(w) PROVE [Guard!GNext]_batch
  <2>1. PICK n \in queue : /\ lock[n.sys] = NoOne
                           /\ batch' = [batch EXCEPT ![w] = {n.sys}]
    BY <1>3 DEF TaskAcquire
  <2>2. n.sys \in System /\ w \in Actor
    BY <2>1 DEF TypeOK, Notification, Actor
  <2>3. batch[w] = {}
    BY <1>3, <2>2 DEF TaskAcquire, LocksMatchRuns
  <2>4. batch' = [batch EXCEPT ![w] = @ \cup {n.sys}]
    BY <2>1, <2>2, <2>3 DEF TypeOK
  <2>5. QED
    BY <2>1, <2>2, <2>4, FreeLock DEF Guard!GNext, Guard!Take
<1>4. ASSUME NEW s \in System, PollVisit(s) PROVE [Guard!GNext]_batch
  <2>1. CASE lock[s] = NoOne
    BY <1>4, <2>1, FreeLock DEF PollVisit, Guard!GNext, Guard!Take, Actor
  <2>2. CASE lock[s] # NoOne
    BY <1>4, <2>2 DEF PollVisit
  <2>3. QED
    BY <2>1, <2>2
<1>5. ASSUME NEW a \in Actor, FetchFail(a) PROVE [Guard!GNext]_batch
  BY <1>1, <1>5 DEF FetchFail
<1>6. CASE PollSend
  BY <1>1, <1>6 DEF PollSend, Actor
<1>7. ASSUME NEW a \in Actor, PostStep(a) PROVE [Guard!GNext]_batch
  <2>1. CASE Post(a) \/ CoreAnswerLost(a) \/ Unreachable(a) \/ Retry(a)
    BY <2>1 DEF Post, CoreAnswerLost, Unreachable, Retry
  <2>2. CASE CoreAnswers(a) \/ CoreRefuses(a) \/ GiveUp(a)
    BY <1>2, <2>2 DEF CoreAnswers, CoreRefuses, GiveUp
  <2>3. QED
    BY <1>7, <2>1, <2>2 DEF PostStep
<1>8. CASE Restart
  BY <1>8 DEF Restart, Guard!GNext, Guard!Forget
<1>9. CASE \/ \E s \in System : CoreWrite(s)
           \/ \E w \in Worker : TaskSkip(w)
           \/ \E a \in Actor : Fetch(a) \/ LateLands(a) \/ LateDropped(a)
           \/ PollFire
           \/ UNCHANGED vars
  BY <1>9 DEF CoreWrite, TaskSkip, Fetch, LateLands, LateDropped, PollFire,
              vars, threadVars
<1>10. QED
  BY <1>3, <1>4, <1>5, <1>6, <1>7, <1>8, <1>9
  DEF Next, TaskStep, PollStep, Actor

\* The hybrid trigger implements the guard that concurrency.py promises.
THEOREM ImplementsGuard == Spec => GuardSpec
<1>1. Init => Guard!GInit
  BY DEF Init, Guard!GInit
<1>2. TypeOK /\ LocksMatchRuns /\ [Next]_vars => [Guard!GNext]_batch
  BY GuardStep
<1>3. QED
  BY <1>1, <1>2, TypeCorrect, LocksMatch, PTL DEF Spec, GuardSpec, Guard!GSpec

(***************************************************************************)
(* What core ends up with.  LinksSupported and ValidatedMeansLinked are     *)
(* inductive together: with its links within its graph, a system whose      *)
(* derivation matches that graph is linked to exactly what it derived.      *)
(***************************************************************************)

CoreInv == LinksSupported /\ ValidatedMeansLinked

\* A structure push only adds to core's graph; a derivation adds the links the
\* graph supports, all of them or none.
LEMMA LandKeepsCoreInv ==
  ASSUME TypeOK, CoreInv, NEW g, NEW done, NEW was,
         LandStructure(g, was) \/ LandDerivations(g, done)
  PROVE  CoreInv'
<1>1. CASE LandStructure(g, was)
  BY <1>1 DEF LandStructure, CoreInv, LinksSupported, ValidatedMeansLinked
<1>2. CASE LandDerivations(g, done)
  <2>1. ASSUME NEW s \in System, published /\ s \in done, Matches(g, s)
        PROVE  /\ latest'[s].version = g[s]
               /\ links'[s] = Applies[s][g[s]]
               /\ links'[s] = structure'[s]
    BY <1>2, <2>1 DEF LandDerivations, Matches, CoreInv, LinksSupported
  <2>2. ASSUME NEW s \in System, published /\ s \in done, ~Matches(g, s)
        PROVE  /\ latest'[s].status # "validated"
               /\ links'[s] = links[s] /\ structure'[s] = structure[s]
    BY <1>2, <2>2 DEF LandDerivations
  <2>3. ASSUME NEW s \in System, ~(published /\ s \in done)
        PROVE  /\ latest'[s] = latest[s]
               /\ links'[s] = links[s] /\ structure'[s] = structure[s]
    BY <1>2, <2>3 DEF LandDerivations
  <2>4. QED
    BY <2>1, <2>2, <2>3 DEF CoreInv, LinksSupported, ValidatedMeansLinked
<1>3. QED
  BY <1>1, <1>2

\* One step keeps core's links, results and graph in agreement.
LEMMA CoreInvStep ==
  ASSUME TypeOK, CoreInv, [Next]_vars
  PROVE  CoreInv'
<1>1. ASSUME UNCHANGED coreVars PROVE CoreInv'
  BY <1>1 DEF coreVars, CoreInv, LinksSupported, ValidatedMeansLinked
<1>2. ASSUME NEW a \in Actor, PostStep(a) PROVE CoreInv'
  <2>1. CASE CoreAnswers(a) \/ CoreAnswerLost(a)
    <3>1. \E done : \/ LandStructure(graph[a], met[a])
                   \/ LandDerivations(graph[a], done)
      BY <2>1 DEF CoreAnswers, CoreAnswerLost
    <3>2. QED
      BY <3>1, LandKeepsCoreInv
  <2>2. CASE \/ Post(a) \/ Unreachable(a) \/ CoreRefuses(a) \/ Retry(a)
             \/ GiveUp(a)
    BY <1>1, <2>2 DEF Post, Unreachable, CoreRefuses, Retry, GiveUp
  <2>3. QED
    BY <1>2, <2>1, <2>2 DEF PostStep
<1>3. ASSUME NEW a \in Actor, LateLands(a) PROVE CoreInv'
  BY <1>3, LandKeepsCoreInv DEF LateLands
<1>4. CASE \/ \E s \in System : CoreWrite(s) \/ PollVisit(s)
           \/ \E w \in Worker : TaskAcquire(w) \/ TaskSkip(w)
           \/ \E a \in Actor : Fetch(a) \/ FetchFail(a) \/ LateDropped(a)
           \/ PollFire \/ PollSend \/ Restart
  <2>1. UNCHANGED coreVars
    BY <1>4 DEF CoreWrite, PollVisit, TaskAcquire, TaskSkip, Fetch,
       FetchFail, LateDropped, PollFire, PollSend, Restart
  <2>2. QED
    BY <1>1, <2>1
<1>5. CASE UNCHANGED vars
  BY <1>1, <1>5 DEF vars, coreVars
<1>6. QED
  BY <1>2, <1>3, <1>4, <1>5 DEF Next, TaskStep, PollStep, Actor

\* CoreInv holds throughout.
LEMMA CoreAgrees == Spec => []CoreInv
<1>1. Init => CoreInv
  BY DEF Init, CoreInv, LinksSupported, ValidatedMeansLinked, NoEdges
<1>2. TypeOK /\ CoreInv /\ [Next]_vars => CoreInv'
  BY CoreInvStep
<1>3. QED
  BY <1>1, <1>2, TypeCorrect, PTL DEF Spec

\* No interleaving, retry or late request makes core link a system to an
\* obligation that core's own graph does not support.
THEOREM LinksAreSupported == Spec => []LinksSupported
<1>1. CoreInv => LinksSupported
  BY DEF CoreInv
<1>2. QED
  BY <1>1, CoreAgrees, PTL

\* When a system's newest result is validated, its links are exactly what that
\* result lists, whatever was derived, flagged, linked or removed before.
THEOREM ValidatedLinks == Spec => []ValidatedMeansLinked
<1>1. CoreInv => ValidatedMeansLinked
  BY DEF CoreInv
<1>2. QED
  BY <1>1, CoreAgrees, PTL

(***************************************************************************)
(* How fresh a task's data is.  The announcement a task works on is never   *)
(* ahead of the data, so the fetch that follows it sees the change.         *)
(***************************************************************************)

Announced ==
  /\ \A n \in queue : n.version <= facts[n.sys]
  /\ \A w \in Worker : \A s \in batch[w] :
       pc[w] = "fetch" => since[w] <= facts[s]

FreshInv == Announced /\ EventSeesItsChange

\* Ending a run, or going on after a POST, keeps what is known of the others.
LEMMA AfterPostFresh ==
  ASSUME TypeOK, FreshInv, NEW a \in Actor, Finish(a) \/ AfterPost(a),
         UNCHANGED <<facts, queue>>
  PROVE  FreshInv'
<1>1. CASE Finish(a)
  <2>1. ASSUME NEW w \in Worker, NEW s \in batch'[w]
        PROVE  /\ s \in batch[w] /\ pc'[w] = pc[w]
               /\ since'[w] = since[w] /\ graph'[w] = graph[w]
    BY <1>1, <2>1 DEF Finish, TypeOK, Actor
  <2>2. QED
    BY <2>1 DEF FreshInv, Announced, EventSeesItsChange
<1>2. CASE AfterPost(a) /\ ~Finish(a)
  <2>1. UNCHANGED <<since, graph, batch>>
    BY <1>2 DEF AfterPost
  <2>2. ASSUME NEW w \in Worker
        PROVE  /\ pc'[w] = "fetch" => pc[w] = "fetch"
               /\ pc'[w] \in {"structure", "push"} =>
                    pc[w] \in {"structure", "push"}
    BY <1>2 DEF AfterPost, TypeOK, Actor
  <2>3. QED
    BY <2>1, <2>2 DEF FreshInv, Announced, EventSeesItsChange
<1>3. QED
  BY <1>1, <1>2

\* One step keeps FreshInv.
LEMMA FreshStep ==
  ASSUME TypeOK, LocksMatchRuns, FreshInv, [Next]_vars
  PROVE  FreshInv'
<1>0. facts \in [System -> Nat] /\ facts \in [System -> Version]
  BY BoundAssumption DEF TypeOK, Snapshot, Version
<1>1. ASSUME UNCHANGED <<facts, queue, pc, since, graph, batch>>
      PROVE  FreshInv'
  BY <1>1 DEF FreshInv, Announced, EventSeesItsChange
<1>2. ASSUME NEW s \in System, CoreWrite(s) PROVE FreshInv'
  <2>1. \A t \in System : facts'[t] >= facts[t] /\ facts'[t] \in Nat
    BY <1>0, <1>2 DEF CoreWrite
  <2>2. \A n \in queue' : n.version <= facts'[n.sys]
    <3>1. \A n \in queue : /\ n.version \in Nat /\ n.sys \in System
                           /\ n.version <= facts'[n.sys]
      BY <1>0, <2>1, BoundAssumption
      DEF FreshInv, Announced, TypeOK, Notification, Version
    <3>2. facts'[s] = facts[s] + 1
      BY <1>0, <1>2 DEF CoreWrite
    <3>3. QED
      BY <1>0, <1>2, <3>1, <3>2 DEF CoreWrite
  <2>3. ASSUME NEW w \in Worker, NEW t \in batch[w], pc[w] = "fetch"
        PROVE  since[w] <= facts'[t]
    <3>1. t \in System /\ since[w] \in Nat
      BY BoundAssumption DEF TypeOK, Actor, Version
    <3>2. QED
      BY <1>0, <2>1, <2>3, <3>1 DEF FreshInv, Announced
  <2>4. QED
    BY <1>2, <2>2, <2>3
    DEF CoreWrite, threadVars, FreshInv, Announced, EventSeesItsChange
<1>3. ASSUME NEW w \in Worker, TaskAcquire(w) PROVE FreshInv'
  <2>0. w \in Actor
    BY DEF Actor
  <2>1. PICK n \in queue : /\ batch' = [batch EXCEPT ![w] = {n.sys}]
                           /\ since' = [since EXCEPT ![w] = n.version]
                           /\ queue' = queue \ {n}
    BY <1>3 DEF TaskAcquire
  <2>2. /\ pc' = [pc EXCEPT ![w] = "fetch"]
        /\ UNCHANGED <<facts, graph>>
    BY <1>3 DEF TaskAcquire
  <2>3. ASSUME NEW v \in Worker, NEW t \in batch'[v]
        PROVE  /\ pc'[v] = "fetch" => since'[v] <= facts'[t]
               /\ pc'[v] \in {"structure", "push"} => graph'[v][t] >= since'[v]
    <3>1. CASE v = w
      BY <2>0, <2>1, <2>2, <3>1 DEF TypeOK, FreshInv, Announced
    <3>2. CASE v # w
      BY <2>0, <2>1, <2>2, <3>2
      DEF TypeOK, FreshInv, Announced, EventSeesItsChange, Actor
    <3>3. QED
      BY <3>1, <3>2
  <2>4. QED
    BY <2>1, <2>2, <2>3 DEF FreshInv, Announced, EventSeesItsChange
<1>4. ASSUME NEW w \in Worker, TaskSkip(w) PROVE FreshInv'
  BY <1>4 DEF TaskSkip, threadVars, FreshInv, Announced, EventSeesItsChange
<1>5. ASSUME NEW a \in Actor, Fetch(a) PROVE FreshInv'
  <2>1. ASSUME NEW w \in Worker, NEW t \in batch[w]
        PROVE  /\ pc'[w] = "fetch" => since[w] <= facts[t]
               /\ pc'[w] \in {"structure", "push"} => graph'[w][t] >= since[w]
    <3>0. t \in System /\ w \in Actor /\ since[w] \in Nat /\ facts[t] \in Nat
      BY <1>0, BoundAssumption DEF TypeOK, Actor, Version
    <3>1. CASE w = a
      BY <1>5, <3>0, <3>1 DEF Fetch, TypeOK, FreshInv, Announced
    <3>2. CASE w # a
      BY <1>5, <3>0, <3>2
      DEF Fetch, TypeOK, FreshInv, Announced, EventSeesItsChange
    <3>3. QED
      BY <3>1, <3>2
  <2>2. QED
    BY <1>5, <2>1 DEF Fetch, FreshInv, Announced, EventSeesItsChange
<1>6. ASSUME NEW a \in Actor, FetchFail(a) PROVE FreshInv'
  BY <1>6, AfterPostFresh DEF FetchFail
<1>7. CASE PollFire \/ PollSend \/ \E s \in System : PollVisit(s)
  <2>0. Poll \in Actor /\ Poll \notin Worker
    BY ActorAssumption DEF Actor
  <2>1. CASE Finish(Poll)
    BY <1>7, <2>0, <2>1, AfterPostFresh DEF PollFire, PollSend, PollVisit
  <2>2. CASE ~Finish(Poll)
    <3>1. /\ UNCHANGED <<facts, queue, since, graph>>
          /\ \A w \in Worker : pc'[w] = pc[w] /\ batch'[w] = batch[w]
      BY <1>7, <2>0, <2>2 DEF PollFire, PollSend, PollVisit, TypeOK, Actor
    <3>2. QED
      BY <3>1 DEF FreshInv, Announced, EventSeesItsChange
  <2>3. QED
    BY <2>1, <2>2
<1>8. ASSUME NEW a \in Actor, PostStep(a) PROVE FreshInv'
  <2>1. CASE Post(a) \/ CoreAnswerLost(a) \/ Unreachable(a) \/ Retry(a)
    BY <1>1, <2>1 DEF Post, CoreAnswerLost, Unreachable, Retry
  <2>2. CASE CoreAnswers(a) \/ CoreRefuses(a) \/ GiveUp(a)
    BY <2>2, AfterPostFresh DEF CoreAnswers, CoreRefuses, GiveUp
  <2>3. QED
    BY <1>8, <2>1, <2>2 DEF PostStep
<1>9. ASSUME NEW a \in Actor, LateLands(a) \/ LateDropped(a) PROVE FreshInv'
  BY <1>1, <1>9 DEF LateLands, LateDropped, threadVars
<1>10. CASE Restart
  BY <1>10 DEF Restart, FreshInv, Announced, EventSeesItsChange, Actor
<1>11. CASE UNCHANGED vars
  BY <1>1, <1>11 DEF vars
<1>12. QED
  BY <1>2, <1>3, <1>4, <1>5, <1>6, <1>7, <1>8, <1>9, <1>10, <1>11
  DEF Next, TaskStep, PollStep, Actor

\* A task never derives from data older than the change announced to it.
THEOREM TasksSeeTheirChange == Spec => []EventSeesItsChange
<1>1. Init => FreshInv
  BY DEF Init, FreshInv, Announced, EventSeesItsChange, Actor
<1>2. TypeOK /\ LocksMatchRuns /\ FreshInv /\ [Next]_vars => FreshInv'
  BY FreshStep
<1>3. FreshInv => EventSeesItsChange
  BY DEF FreshInv
<1>4. QED
  BY <1>1, <1>2, <1>3, TypeCorrect, LocksMatch, PTL DEF Spec
=============================================================================
