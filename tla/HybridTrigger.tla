---------------------------- MODULE HybridTrigger ----------------------------
(***************************************************************************)
(* The satellite's hybrid trigger.  Two kinds of thread re-derive the       *)
(* obligations of an AI system and push them to core: background tasks      *)
(* started by change notifications (event_listener.py) and the one          *)
(* safety-net poll job (scheduler.py).  Both take the per-system,           *)
(* non-blocking lock of concurrency.py and both push with the retrying      *)
(* client of ingest_client.py.                                              *)
(*                                                                          *)
(* Data.  The exported facts about a system are a version number; Applies   *)
(* gives the obligations a traversal derives from them.  Core's stored      *)
(* graph is, per system, the set of obligations reachable in it: build_graph*)
(* exports active edges only and upsert_graph_structure never removes one,  *)
(* so a structure push adds to that set, one edge for each obligation.  It  *)
(* looks for each edge before it inserts it and nothing keeps two pushes    *)
(* apart: an edge that both look for before either commits gets two rows,   *)
(* and one_or_none() raises in every later push that has it.                *)
(*                                                                          *)
(* Requests.  A POST is "sent" until core is done with it.  The client may  *)
(* time out first; core then still holds the request, in late[a] (the       *)
(* model keeps one such request per thread in Tracked: others are lost).    *)
(***************************************************************************)
EXTENDS Integers, FiniteSets

CONSTANTS
  System,       \* the AI systems of the organisation
  Worker,       \* background tasks that can run at once
  Poll,         \* the safety-net poll job (APScheduler: max_instances = 1)
  NoOne,        \* the owner of a free lock
  NoCall,       \* no request left behind
  Obligation,
  Applies,      \* Applies[s][v]: obligations derived for s from version v
  MaxVersion,   \* bound on the versions of a system's facts
  MaxWrites,    \* MaxWrites[s]: bound on the writes to s
  ChunkSize,    \* settings.ingest_batch_chunk_size
  MaxAttempts,  \* stop_after_attempt(3)
  MaxRestarts,  \* bound on process restarts
  Tracked,      \* threads whose abandoned requests stay with core (a bound)
  Overrun       \* which chunks of a sweep core's rate limit refuses each time:
                \* see SafetyNetSweep; none, or the second one as shipped

Actor   == Worker \cup {Poll}
Version == 0 .. MaxVersion

ASSUME ActorAssumption ==
  /\ Poll \notin Worker
  /\ NoOne \notin Actor
  /\ Tracked \subseteq Actor
ASSUME BoundAssumption ==
  /\ MaxVersion \in Nat
  /\ MaxWrites \in [System -> Version]
  /\ MaxRestarts \in Nat
  /\ ChunkSize \in Nat \ {0}
  /\ MaxAttempts \in Nat \ {0}
  /\ Overrun \subseteq Nat \ {0}
ASSUME AppliesAssumption ==
  Applies \in [System -> [Version -> SUBSET Obligation]]

VARIABLES
  facts,      \* version of the data core exports about each system
  queue,      \* accepted notifications whose background task has not begun
  lock,       \* _locks: who is processing the system
  pc,         \* where each thread is
  since,      \* version announced by the notification a task works on
  graph,      \* snapshot fetched by each thread
  batch,      \* systems whose lock the thread took in this run
  todo,       \* poll: nodes still to visit; then derivations still to send
  chunk,      \* derivations in the request being posted
  call,       \* fate of the request being posted
  tries,      \* attempts made for it
  met,        \* what a structure push met in core's tables when it was sent
  late,       \* a request the client gave up on and core still holds
  published,  \* core's node table has been filled by a structure push
  structure,  \* obligations reachable from each system in core's tables
  doubled,    \* those whose edge has two rows
  latest,     \* newest governance_graph_traversal_results row
  links,      \* ai_system_obligation_links
  restarts    \* process restarts so far

threadVars == <<pc, since, graph, batch, todo, chunk, call, tries, met>>
coreVars   == <<published, structure, doubled, latest, links>>
vars == <<facts, queue, lock, pc, since, graph, batch, todo, chunk, call,
          tries, met, late, published, structure, doubled, latest, links,
          restarts>>

Notification == [sys : System, version : Version]
Snapshot     == [System -> Version]
Edges        == [System -> SUBSET Obligation]
Report       == [new : Edges, fails : BOOLEAN]
Request      == [kind : {"structure", "derivation"}, graph : Snapshot,
                 items : SUBSET System, met : Report]
Result       == [version : Version,
                 status : {"none", "validated", "flagged_mismatch"}]
NoSnapshot   == [s \in System |-> 0]
NoEdges      == [s \in System |-> {}]
NoReport     == [new |-> NoEdges, fails |-> FALSE]

Init ==
  /\ facts = NoSnapshot
  /\ queue = {}
  /\ lock = [s \in System |-> NoOne]
  /\ pc = [a \in Actor |-> "idle"]
  /\ since = [a \in Actor |-> 0]
  /\ graph = [a \in Actor |-> NoSnapshot]
  /\ batch = [a \in Actor |-> {}]
  /\ todo = [a \in Actor |-> {}]
  /\ chunk = [a \in Actor |-> {}]
  /\ call = [a \in Actor |-> "none"]
  /\ tries = [a \in Actor |-> 0]
  /\ met = [a \in Actor |-> NoReport]
  /\ late = [a \in Actor |-> NoCall]
  /\ published = FALSE
  /\ structure = NoEdges
  /\ doubled = NoEdges
  /\ latest = [s \in System |-> [version |-> 0, status |-> "none"]]
  /\ links = NoEdges
  /\ restarts = 0

-----------------------------------------------------------------------------
(* The environment: core's data changes.                                    *)

\* A watched field of s changes.  Core's outbox announces the new version;
\* the notification reaches the listener and is accepted (202), or is lost.
CoreWrite(s) ==
  /\ facts[s] < MaxWrites[s]
  /\ facts' = [facts EXCEPT ![s] = @ + 1]
  /\ \/ queue' = queue \cup {[sys |-> s, version |-> facts[s] + 1]}
     \/ queue' = queue
  /\ UNCHANGED <<lock, threadVars, late, coreVars, restarts>>

-----------------------------------------------------------------------------
(* Threads: taking and releasing the locks.                                 *)

\* Leaving the `with` block of try_acquire_ai_system_processing (the task) or
\* the ExitStack (the poll): every lock this run took is released and its
\* locals are gone.
Finish(a) ==
  /\ pc' = [pc EXCEPT ![a] = "idle"]
  /\ lock' = [s \in System |-> IF s \in batch[a] THEN NoOne ELSE lock[s]]
  /\ batch' = [batch EXCEPT ![a] = {}]
  /\ todo' = [todo EXCEPT ![a] = {}]
  /\ since' = [since EXCEPT ![a] = 0]
  /\ graph' = [graph EXCEPT ![a] = NoSnapshot]

\* Mutant: the task does not look whether the lock is taken.
TaskAcquireBlindly(w) ==
  /\ pc[w] = "idle"
  /\ \E n \in queue :
       /\ lock' = [lock EXCEPT ![n.sys] = w]
       /\ batch' = [batch EXCEPT ![w] = {n.sys}]
       /\ since' = [since EXCEPT ![w] = n.version]
       /\ queue' = queue \ {n}
  /\ pc' = [pc EXCEPT ![w] = "fetch"]
  /\ UNCHANGED <<facts, graph, todo, chunk, call, tries, met, late, coreVars,
                 restarts>>

\* A background task begins and gets the lock of its system.
TaskAcquire(w) ==
  /\ pc[w] = "idle"
  /\ \E n \in queue :
       /\ lock[n.sys] = NoOne
       /\ lock' = [lock EXCEPT ![n.sys] = w]
       /\ batch' = [batch EXCEPT ![w] = {n.sys}]
       /\ since' = [since EXCEPT ![w] = n.version]
       /\ queue' = queue \ {n}
  /\ pc' = [pc EXCEPT ![w] = "fetch"]
  /\ UNCHANGED <<facts, graph, todo, chunk, call, tries, met, late, coreVars,
                 restarts>>

\* The lock is taken: the task returns at once and the event is dropped.
TaskSkip(w) ==
  /\ pc[w] = "idle"
  /\ \E n \in queue :
       /\ lock[n.sys] # NoOne
       /\ queue' = queue \ {n}
  /\ UNCHANGED <<facts, lock, threadVars, late, coreVars, restarts>>

\* The interval trigger fires; the job body begins.
PollFire ==
  /\ pc[Poll] = "idle"
  /\ pc' = [pc EXCEPT ![Poll] = "fetch"]
  /\ UNCHANGED <<facts, queue, lock, since, graph, batch, todo, chunk, call,
                 tries, met, late, coreVars, restarts>>

\* Mutant: a thread reuses the graph the poll has at hand.
FetchCached(a) ==
  /\ pc[a] = "fetch"
  /\ graph' = [graph EXCEPT ![a] = IF pc[Poll] \in {"idle", "fetch"}
                                   THEN facts ELSE graph[Poll]]
  /\ pc' = [pc EXCEPT ![a] = "structure"]
  /\ UNCHANGED <<facts, queue, lock, since, batch, todo, chunk, call, tries,
                 met, late, coreVars, restarts>>

\* fetch_and_build_graph returns a graph of the data as it is now.  The facts
\* that vary here all come from the one ai-systems export.
Fetch(a) ==
  /\ pc[a] = "fetch"
  /\ graph' = [graph EXCEPT ![a] = facts]
  /\ pc' = [pc EXCEPT ![a] = "structure"]
  /\ UNCHANGED <<facts, queue, lock, since, batch, todo, chunk, call, tries,
                 met, late, coreVars, restarts>>

\* Mutant: a failed fetch ends the run without releasing its lock.
FetchFailLeaks(a) ==
  /\ pc[a] = "fetch"
  /\ pc' = [pc EXCEPT ![a] = "idle"]
  /\ batch' = [batch EXCEPT ![a] = {}]
  /\ since' = [since EXCEPT ![a] = 0]
  /\ UNCHANGED <<facts, queue, lock, graph, todo, chunk, call, tries, met, late,
                 coreVars, restarts>>

\* GraphBuildIncompleteError: it propagates out of the job or task.
FetchFail(a) ==
  /\ pc[a] = "fetch"
  /\ Finish(a)
  /\ UNCHANGED <<facts, queue, chunk, call, tries, met, late, coreVars,
                 restarts>>

\* Mutant: the lock is given back right after deriving, before the batch push.
PollVisitReleasing(s) ==
  /\ pc[Poll] = "acquire"
  /\ s \in todo[Poll]
  /\ todo' = [todo EXCEPT ![Poll] = @ \ {s}]
  /\ batch' = [batch EXCEPT ![Poll] = IF lock[s] = NoOne THEN @ \cup {s}
                                                        ELSE @]
  /\ UNCHANGED <<facts, queue, lock, pc, since, graph, chunk, call, tries,
                 met, late, coreVars, restarts>>

\* Mutant: the poll passes over systems whose newest result is validated.
PollVisitUnconfirmed(s) ==
  /\ pc[Poll] = "acquire"
  /\ s \in todo[Poll]
  /\ todo' = [todo EXCEPT ![Poll] = @ \ {s}]
  /\ \/ /\ lock[s] = NoOne /\ latest[s].status # "validated"
        /\ lock' = [lock EXCEPT ![s] = Poll]
        /\ batch' = [batch EXCEPT ![Poll] = @ \cup {s}]
     \/ /\ lock[s] # NoOne \/ latest[s].status = "validated"
        /\ UNCHANGED <<lock, batch>>
  /\ UNCHANGED <<facts, queue, pc, since, graph, chunk, call, tries, met, late,
                 coreVars, restarts>>

\* The poll's loop over the ai_system nodes: take the lock and derive, or skip.
PollVisit(s) ==
  /\ pc[Poll] = "acquire"
  /\ s \in todo[Poll]
  /\ todo' = [todo EXCEPT ![Poll] = @ \ {s}]
  /\ \/ /\ lock[s] = NoOne
        /\ lock' = [lock EXCEPT ![s] = Poll]
        /\ batch' = [batch EXCEPT ![Poll] = @ \cup {s}]
     \/ /\ lock[s] # NoOne
        /\ UNCHANGED <<lock, batch>>
  /\ UNCHANGED <<facts, queue, pc, since, graph, chunk, call, tries, met, late,
                 coreVars, restarts>>

\* Every node has been visited: start sending the chunks, if there are any.
PollSend ==
  /\ pc[Poll] = "acquire"
  /\ todo[Poll] = {}
  /\ \/ /\ batch[Poll] # {}
        /\ pc' = [pc EXCEPT ![Poll] = "push"]
        /\ todo' = [todo EXCEPT ![Poll] = batch[Poll]]
        /\ UNCHANGED <<lock, since, graph, batch>>
     \/ /\ batch[Poll] = {}
        /\ Finish(Poll)
  /\ UNCHANGED <<facts, queue, chunk, call, tries, met, late, coreVars,
                 restarts>>

-----------------------------------------------------------------------------
(* Core's two ingest routes.                                                *)

\* What a structure push meets as it is sent: the edges core would insert now,
\* and whether it has one with two rows, on which it will fail.  Pushes that meet
\* the very first one collide on its nodes before they come to any edge.
Meets(g) ==
  [new   |-> IF published
             THEN [s \in System |-> Applies[s][g[s]] \ structure[s]]
             ELSE NoEdges,
   fails |-> \E s \in System : Applies[s][g[s]] \cap doubled[s] # {}]

\* The edges that were new when a push was sent and have come in since.
Raced(was) ==
  {e \in System \X Obligation : e[2] \in structure[e[1]] \cap was.new[e[1]]}

\* POST /graph-structure: upsert_graph_structure looks for each edge at some
\* time after the request was sent, perhaps before that edge came in: then this
\* push inserts it once more.
LandStructure(g, was) ==
  /\ ~was.fails
  /\ published' = TRUE
  /\ structure' = [s \in System |-> structure[s] \cup Applies[s][g[s]]]
  /\ \E again \in SUBSET Raced(was) :
       doubled' = [s \in System |->
                     doubled[s] \cup {o \in Obligation : <<s, o>> \in again}]
  /\ UNCHANGED <<latest, links>>

Matches(g, s) == Applies[s][g[s]] = structure[s]

\* Mutant: links are written for flagged derivations too.
LandDerivationsUnchecked(g, done) ==
  /\ latest' = [s \in System |->
       IF published /\ s \in done
       THEN [version |-> g[s],
             status |-> IF Matches(g, s) THEN "validated"
                                         ELSE "flagged_mismatch"]
       ELSE latest[s]]
  /\ links' = [s \in System |->
       IF published /\ s \in done THEN links[s] \cup Applies[s][g[s]]
                                  ELSE links[s]]
  /\ UNCHANGED <<published, structure, doubled>>

\* Mutant: links are inserted for a system that has none, never added to.
LandDerivationsOnce(g, done) ==
  /\ latest' = [s \in System |->
       IF published /\ s \in done
       THEN [version |-> g[s],
             status |-> IF Matches(g, s) THEN "validated"
                                         ELSE "flagged_mismatch"]
       ELSE latest[s]]
  /\ links' = [s \in System |->
       IF published /\ s \in done /\ Matches(g, s) /\ links[s] = {}
       THEN Applies[s][g[s]]
       ELSE links[s]]
  /\ UNCHANGED <<published, structure, doubled>>

\* POST /obligation-derivation, or a batch, for the systems in done.  Before
\* the first structure push every item is refused (422: unknown ids).
LandDerivations(g, done) ==
  /\ latest' = [s \in System |->
       IF published /\ s \in done
       THEN [version |-> g[s],
             status |-> IF Matches(g, s) THEN "validated"
                                         ELSE "flagged_mismatch"]
       ELSE latest[s]]
  /\ links' = [s \in System |->
       IF published /\ s \in done /\ Matches(g, s)
       THEN links[s] \cup Applies[s][g[s]]
       ELSE links[s]]
  /\ UNCHANGED <<published, structure, doubled>>

-----------------------------------------------------------------------------
(* Posting with retries: ingest_client._post_with_retry.                    *)

CurrentRequest(a) ==
  [kind  |-> IF pc[a] = "structure" THEN "structure" ELSE "derivation",
   graph |-> graph[a],
   items |-> chunk[a],
   met   |-> met[a]]

\* The request goes out.
Send(a) ==
  /\ call' = [call EXCEPT ![a] = "sent"]
  /\ met' = [met EXCEPT ![a] = IF pc[a] = "structure"
                               THEN Meets(graph[a])
                               ELSE NoReport]

\* Core's rate limit refuses the poll's next chunk, in this sweep as in others.
OverLimit(a) ==
  /\ a = Poll
  /\ Cardinality(batch[a] \ todo[a]) \div ChunkSize + 1 \in Overrun

\* The thread posts the structure, its one derivation, or the next chunk.
Post(a) ==
  /\ call[a] = "none"
  /\ \/ /\ pc[a] = "structure"
        /\ UNCHANGED chunk
     \/ /\ pc[a] = "push"
        /\ \E c \in SUBSET todo[a] :
             /\ \/ Cardinality(c) = ChunkSize
                \/ c = todo[a] /\ Cardinality(c) <= ChunkSize
             /\ chunk' = [chunk EXCEPT ![a] = c]
  /\ Send(a)
  /\ tries' = [tries EXCEPT ![a] = 1]
  /\ UNCHANGED <<facts, queue, lock, pc, since, graph, batch, todo, late,
                 coreVars, restarts>>

\* Both kinds of push swallow every failure, so the thread goes on alike
\* whatever became of the POST.
AfterPost(a) ==
  /\ call' = [call EXCEPT ![a] = "none"]
  /\ met' = [met EXCEPT ![a] = NoReport]
  /\ tries' = [tries EXCEPT ![a] = 0]
  /\ chunk' = [chunk EXCEPT ![a] = {}]
  /\ \/ /\ pc[a] = "structure"
        /\ pc' = [pc EXCEPT ![a] = IF a = Poll THEN "acquire" ELSE "push"]
        /\ todo' = [todo EXCEPT ![a] = IF a = Poll THEN System ELSE batch[a]]
        /\ UNCHANGED <<lock, since, graph, batch>>
     \/ /\ pc[a] = "push"
        /\ todo[a] # chunk[a]
        /\ todo' = [todo EXCEPT ![a] = @ \ chunk[a]]
        /\ UNCHANGED <<lock, pc, since, graph, batch>>
     \/ /\ pc[a] = "push"
        /\ todo[a] = chunk[a]
        /\ Finish(a)

\* Core handles the request and its 200 reaches the waiting client.
CoreAnswers(a) ==
  /\ call[a] = "sent"
  /\ \/ pc[a] = "structure" /\ LandStructure(graph[a], met[a])
     \/ pc[a] = "push" /\ ~OverLimit(a) /\ LandDerivations(graph[a], chunk[a])
  /\ AfterPost(a)
  /\ UNCHANGED <<facts, queue, late, restarts>>

\* Core handles the request and the answer is lost, or a batch fails with a
\* 500 after some of its items were committed.
CoreAnswerLost(a) ==
  /\ call[a] = "sent"
  /\ \/ pc[a] = "structure" /\ LandStructure(graph[a], met[a])
     \/ /\ pc[a] = "push" /\ ~OverLimit(a)
        /\ \E done \in SUBSET chunk[a] : LandDerivations(graph[a], done)
  /\ call' = [call EXCEPT ![a] = "gone"]
  /\ met' = [met EXCEPT ![a] = NoReport]
  /\ UNCHANGED <<facts, queue, lock, pc, since, graph, batch, todo, chunk,
                 tries, late, restarts>>

\* The request never reached core, or failed there without effect (a 500).
Unreachable(a) ==
  /\ call[a] = "sent"
  /\ call' = [call EXCEPT ![a] = "gone"]
  /\ met' = [met EXCEPT ![a] = NoReport]
  /\ UNCHANGED <<facts, queue, lock, pc, since, graph, batch, todo, chunk,
                 tries, late, coreVars, restarts>>

\* PermanentIngestError: core answers 4xx (429 rate limit, 422); never retried.
CoreRefuses(a) ==
  /\ call[a] = "sent"
  /\ AfterPost(a)
  /\ UNCHANGED <<facts, queue, late, coreVars, restarts>>

\* A request the client stops waiting for stays with core.
Abandoned(a) == IF call[a] = "sent" /\ late[a] = NoCall /\ a \in Tracked
                THEN CurrentRequest(a)
                ELSE late[a]
LeaveBehind(a) == late' = [late EXCEPT ![a] = Abandoned(a)]

\* Mutant: one attempt too many.
RetryOnceMore(a) ==
  /\ call[a] \in {"sent", "gone"}
  /\ tries[a] <= MaxAttempts
  /\ tries' = [tries EXCEPT ![a] = @ + 1]
  /\ Send(a)
  /\ LeaveBehind(a)
  /\ UNCHANGED <<facts, queue, lock, pc, since, graph, batch, todo, chunk,
                 coreVars, restarts>>

\* TransientIngestError (timeout, connection error, 5xx): the same body again.
Retry(a) ==
  /\ call[a] \in {"sent", "gone"}
  /\ tries[a] < MaxAttempts
  /\ tries' = [tries EXCEPT ![a] = @ + 1]
  /\ Send(a)
  /\ LeaveBehind(a)
  /\ UNCHANGED <<facts, queue, lock, pc, since, graph, batch, todo, chunk,
                 coreVars, restarts>>

\* The attempts are used up: the error is raised, logged and swallowed.
GiveUp(a) ==
  /\ call[a] \in {"sent", "gone"}
  /\ tries[a] = MaxAttempts
  /\ LeaveBehind(a)
  /\ AfterPost(a)
  /\ UNCHANGED <<facts, queue, coreVars, restarts>>

\* Core gets to a request its client no longer waits for.
LateLands(a) ==
  /\ late[a] # NoCall
  /\ \/ late[a].kind = "structure" /\ LandStructure(late[a].graph, late[a].met)
     \/ /\ late[a].kind = "derivation"
        /\ LandDerivations(late[a].graph, late[a].items)
  /\ late' = [late EXCEPT ![a] = NoCall]
  /\ UNCHANGED <<facts, queue, lock, threadVars, restarts>>

LateDropped(a) ==
  /\ late[a] # NoCall
  /\ late' = [late EXCEPT ![a] = NoCall]
  /\ UNCHANGED <<facts, queue, lock, threadVars, coreVars, restarts>>

-----------------------------------------------------------------------------
\* Mutant: the lock registry outlives the process.
RestartKeepsLocks ==
  /\ restarts < MaxRestarts
  /\ restarts' = restarts + 1
  /\ queue' = {}
  /\ pc' = [a \in Actor |-> "idle"]
  /\ since' = [a \in Actor |-> 0]
  /\ graph' = [a \in Actor |-> NoSnapshot]
  /\ batch' = [a \in Actor |-> {}]
  /\ todo' = [a \in Actor |-> {}]
  /\ chunk' = [a \in Actor |-> {}]
  /\ call' = [a \in Actor |-> "none"]
  /\ tries' = [a \in Actor |-> 0]
  /\ met' = [a \in Actor |-> NoReport]
  /\ late' = [a \in Actor |-> Abandoned(a)]
  /\ UNCHANGED <<facts, lock, coreVars>>

\* The satellite process is restarted: locks, tasks, the poll and the accepted
\* notifications live in its memory only; requests on the wire survive.
Restart ==
  /\ restarts < MaxRestarts
  /\ restarts' = restarts + 1
  /\ queue' = {}
  /\ lock' = [s \in System |-> NoOne]
  /\ pc' = [a \in Actor |-> "idle"]
  /\ since' = [a \in Actor |-> 0]
  /\ graph' = [a \in Actor |-> NoSnapshot]
  /\ batch' = [a \in Actor |-> {}]
  /\ todo' = [a \in Actor |-> {}]
  /\ chunk' = [a \in Actor |-> {}]
  /\ call' = [a \in Actor |-> "none"]
  /\ tries' = [a \in Actor |-> 0]
  /\ met' = [a \in Actor |-> NoReport]
  /\ late' = [a \in Actor |-> Abandoned(a)]
  /\ UNCHANGED <<facts, coreVars>>

PostStep(a) == \/ Post(a) \/ CoreAnswers(a) \/ CoreAnswerLost(a)
               \/ Unreachable(a) \/ CoreRefuses(a) \/ Retry(a) \/ GiveUp(a)

TaskStep(w) == \/ TaskAcquire(w) \/ TaskSkip(w) \/ Fetch(w) \/ FetchFail(w)
               \/ PostStep(w)

PollStep == \/ PollFire \/ Fetch(Poll) \/ FetchFail(Poll)
            \/ \E s \in System : PollVisit(s)
            \/ PollSend
            \/ PostStep(Poll)

Next ==
  \/ \E s \in System : CoreWrite(s)
  \/ \E w \in Worker : TaskStep(w)
  \/ PollStep
  \/ \E a \in Actor : LateLands(a) \/ LateDropped(a)
  \/ Restart

Spec == Init /\ [][Next]_vars

\* Threads keep running, and no POST of theirs stays unanswered for ever (weak
\* fairness).  The exports and the ingest routes are not down for ever: of
\* the poll's attempts to fetch, to push a structure that core can take, and to
\* push a system's derivation in a chunk that core's rate limit admits, not all
\* fail (strong fairness).  Nothing is assumed of a push that core's own tables
\* or limit refuse: there CoreAnswers is not enabled.
Fairness ==
  /\ \A w \in Worker : WF_vars(TaskStep(w))
  /\ WF_vars(PollStep)
  /\ SF_vars(Fetch(Poll))
  /\ SF_vars(pc[Poll] = "structure" /\ CoreAnswers(Poll))
  /\ \A s \in System : SF_vars(s \in chunk[Poll] /\ CoreAnswers(Poll))

FairSpec == Spec /\ Fairness

-----------------------------------------------------------------------------
TypeOK ==
  /\ facts \in Snapshot
  /\ queue \subseteq Notification
  /\ lock \in [System -> Actor \cup {NoOne}]
  /\ pc \in [Actor -> {"idle", "fetch", "structure", "acquire", "push"}]
  /\ since \in [Actor -> Version]
  /\ graph \in [Actor -> Snapshot]
  /\ batch \in [Actor -> SUBSET System]
  /\ todo \in [Actor -> SUBSET System]
  /\ chunk \in [Actor -> SUBSET System]
  /\ call \in [Actor -> {"none", "sent", "gone"}]
  /\ tries \in [Actor -> 0 .. MaxAttempts]
  /\ met \in [Actor -> Report]
  /\ late \in [Actor -> Request \cup {NoCall}]
  /\ published \in BOOLEAN
  /\ structure \in Edges
  /\ doubled \in Edges
  /\ latest \in [System -> Result]
  /\ links \in Edges
  /\ restarts \in Nat

-----------------------------------------------------------------------------
(* Properties. *)

\* README "Failure modes" and concurrency.py: only one of the two paths
\* processes a system at a time, from before its derivation until its push has
\* been attempted -- for the poll, until the last chunk has.
MutualExclusion ==
  \A a, b \in Actor : a # b => batch[a] \cap batch[b] = {}

\* The threads use the lock registry as ProcessingGuard says: this module
\* implements that one, a run's systems being the ones it holds.
Guard == INSTANCE ProcessingGuard WITH held <- batch
GuardSpec == Guard!GSpec

\* No lock leaks and none is released early: a lock is owned by a thread
\* exactly while that thread's run still covers the system, whatever failed in
\* that run.  A leaked lock would exclude the system from every later poll.
LocksMatchRuns ==
  \A a \in Actor :
    /\ \A s \in System : lock[s] = a <=> s \in batch[a]
    /\ pc[a] = "idle" => batch[a] = {}

\* A task's derivation is never based on data older than the change that
\* triggered it, however long the notification waited for its task.
EventSeesItsChange ==
  \A w \in Worker : \A s \in batch[w] :
    pc[w] \in {"structure", "push"} => graph[w][s] >= since[w]

\* "Core decides": whatever the interleaving of the two paths, retries and late
\* requests, a system is linked to an obligation only if core's own graph
\* supports the link.
LinksSupported ==
  \A s \in System : links[s] \subseteq structure[s]

\* The newest result of a system and its links agree: once core has validated it
\* the links are exactly the obligations it lists, whatever was derived, flagged
\* or linked before, and whatever is pushed until the next result.
ValidatedMeansLinked ==
  \A s \in System :
    latest[s].status = "validated"
      => links[s] = Applies[s][latest[s].version]

Reconciled(s) == latest[s] = [version |-> facts[s], status |-> "validated"]

\* Core's graph of s is not what is exported, and an exported edge with two rows
\* keeps core from taking any push that would change that.
Blocked(s) ==
  /\ structure[s] # Applies[s][facts[s]]
  /\ \E t \in System : doubled[t] \cap Applies[t][facts[t]] # {}

\* The chunk with s is in a place where core's rate limit refuses it.
TurnedAway(s) == pc[Poll] = "push" /\ s \in chunk[Poll] /\ OverLimit(Poll)

\* The poll comes to s in sweep after sweep, always too late for the limit.
LeftOut(s) == /\ []<>TurnedAway(s)
              /\ <>[](s \in chunk[Poll] => TurnedAway(s))

\* Missed, skipped and failed events are caught by the safety-net poll: once
\* the data stops changing, the newest result of every system becomes, and
\* stays, a validated derivation from the current data.  The exceptions are a
\* system whose every chunk is overrun, and one whose changes are kept out of
\* core's graph by an edge that two overlapping pushes have inserted twice.
EventuallyReconciled ==
  \A s \in System : LeftOut(s) \/ <>[](Reconciled(s) \/ Blocked(s))
=============================================================================
