------------------------------ MODULE CoreIngest ------------------------------
(***************************************************************************)
(* Core's derivation routes, statement by statement: the satellite's two    *)
(* (routers/patent_ingest_p2.py) and the customer's, who has core derive on *)
(* demand (routers/patent_knowledge_graph_p2.py, graph_query.py).  Threads  *)
(* of core's pool handle requests side by side, each item in a transaction  *)
(* of its own (READ COMMITTED), the audit entry after the commit.  The      *)
(* satellite retries a POST whose answer it did not get, while core may     *)
(* still be handling the earlier attempt.                                   *)
(*                                                                          *)
(* Data.  Obligations and controls are treated alike by every step and are  *)
(* one set here.  A derivation's hash is a digest of its system and ids (and*)
(* the constant methodology version): derivations with equal hashes are     *)
(* equal.  Core derives for a system what its active edges reach: a set that*)
(* only grows (see HybridTrigger).                                          *)
(***************************************************************************)
EXTENDS Naturals, Sequences, FiniteSets

CONSTANTS
  System,
  Obligation,    \* obligation and control_type nodes
  Body,          \* request bodies: sequences of derivations
  Handler,       \* threads of core's request pool
  NoBody,
  MaxAttempts,   \* stop_after_attempt(3)
  MaxFailures,   \* bound on failed statements and restarts
  MaxAsks,       \* bound on the on-demand requests
  Requires       \* the controls each obligation needs (obligation_needs edges)

Derivation == [sys : System, ids : SUBSET Obligation]

ASSUME BodyAssumption ==
  /\ Body \subseteq Seq(Derivation) \ {<<>>}
  /\ NoBody \notin Body
ASSUME AttemptAssumption ==
  MaxAttempts \in Nat \ {0} /\ MaxFailures \in Nat /\ MaxAsks \in Nat
ASSUME HandlerAssumption == IsFiniteSet(Handler)
ASSUME RequiresAssumption == Requires \in [Obligation -> SUBSET Obligation]

VARIABLES
  nodes,     \* AI systems that have a node
  catalog,   \* active obligation nodes (load_active_catalog)
  derived,   \* what derive_obligations_reference returns for each system
  results,   \* rows of governance_graph_traversal_results
  links,     \* rows of ai_system_obligation_links
  audits,    \* audit entries for derivations
  pc,        \* where each handler is
  body,      \* the body it was given
  item,      \* index of the derivation it is at
  status,    \* validation_status of that derivation
  adds,      \* link rows it will insert (to_add)
  reply,     \* its answer so far
  attempts,  \* how often each body was posted
  answers,   \* the 200 answers the satellite got
  told,      \* what the answers to on-demand requests say
  failures,
  asks       \* how many on-demand requests came in

tables  == <<results, links, audits>>
graphOf == <<nodes, catalog, derived>>
thread  == <<pc, body, item, status, adds, reply>>
client  == <<attempts, answers, told>>
vars == <<graphOf, tables, thread, client, failures, asks>>

Status == {"validated", "flagged_mismatch", "self_derived"}
Binding == {"validated", "self_derived"}   \* results that make links
Reply  == [item : Derivation, status : Status \cup {"rejected"}]

Init ==
  /\ nodes = {}
  /\ catalog = {}
  /\ derived = [s \in System |-> {}]
  /\ results = [d \in Derivation |-> [st \in Status |-> 0]]
  /\ links = [s \in System |-> [o \in Obligation |-> 0]]
  /\ audits = [d \in Derivation |-> [st \in Status |-> 0]]
  /\ pc = [h \in Handler |-> "idle"]
  /\ body = [h \in Handler |-> NoBody]
  /\ item = [h \in Handler |-> 1]
  /\ status = [h \in Handler |-> "flagged_mismatch"]
  /\ adds = [h \in Handler |-> {}]
  /\ reply = [h \in Handler |-> {}]
  /\ attempts = [b \in Body |-> 0]
  /\ answers = [b \in Body |-> {}]
  /\ told = {}
  /\ failures = 0
  /\ asks = 0

\* POST /graph-structure: more nodes and edges (GraphStructure has the detail).
StructurePush ==
  /\ nodes' \in SUBSET System /\ nodes \subseteq nodes'
  /\ catalog' \in SUBSET Obligation /\ catalog \subseteq catalog'
  /\ derived' \in [System -> SUBSET catalog']
  /\ \A s \in System : derived[s] \subseteq derived'[s]
  /\ \A s \in System \ nodes' : derived'[s] = {}
  /\ UNCHANGED <<tables, thread, client, failures, asks>>

-----------------------------------------------------------------------------
(* One request. *)

\* The satellite posts a body, again if no answer reached it.
Receive(h) ==
  /\ pc[h] = "idle"
  /\ \E b \in Body :
       /\ answers[b] = {}
       /\ attempts[b] < MaxAttempts
       /\ attempts' = [attempts EXCEPT ![b] = @ + 1]
       /\ body' = [body EXCEPT ![h] = b]
  /\ pc' = [pc EXCEPT ![h] = "validate"]
  /\ UNCHANGED <<graphOf, tables, item, status, adds, reply, answers, told,
                 failures, asks>>

Current(h) == body[h][item[h]]

\* The thread has no request any more.
Dismiss(h) ==
  /\ pc' = [pc EXCEPT ![h] = "idle"]
  /\ body' = [body EXCEPT ![h] = NoBody]
  /\ item' = [item EXCEPT ![h] = 1]
  /\ status' = [status EXCEPT ![h] = "flagged_mismatch"]
  /\ adds' = [adds EXCEPT ![h] = {}]
  /\ reply' = [reply EXCEPT ![h] = {}]

\* Mutant: one item too many.
ItemDoneOneMore(h, st) ==
  /\ reply' = [reply EXCEPT ![h] = @ \cup {[item |-> Current(h), status |-> st]}]
  /\ item' = [item EXCEPT ![h] = @ + 1]
  /\ pc' = [pc EXCEPT ![h] = IF item[h] <= Len(body[h]) THEN "validate"
                                                       ELSE "answer"]
  /\ adds' = [adds EXCEPT ![h] = {}]
  /\ UNCHANGED body

\* The item's part of the answer is known; go on with the next item.
ItemDone(h, st) ==
  /\ reply' = [reply EXCEPT ![h] = @ \cup {[item |-> Current(h), status |-> st]}]
  /\ \/ /\ item[h] < Len(body[h])
        /\ item' = [item EXCEPT ![h] = @ + 1]
        /\ pc' = [pc EXCEPT ![h] = "validate"]
     \/ /\ item[h] = Len(body[h])
        /\ item' = item
        /\ pc' = [pc EXCEPT ![h] = "answer"]
  /\ adds' = [adds EXCEPT ![h] = {}]
  /\ UNCHANGED body

Known(d) == d.ids \subseteq catalog /\ d.sys \in nodes

\* Mutant: a rejected item ends the batch.
RejectAll(h) ==
  /\ pc[h] = "validate"
  /\ ~Known(Current(h))
  /\ reply' = [reply EXCEPT
       ![h] = @ \cup {[item |-> Current(h), status |-> "rejected"]}]
  /\ pc' = [pc EXCEPT ![h] = "answer"]
  /\ UNCHANGED <<graphOf, tables, body, item, status, adds, client, failures, asks>>

\* Steps 1 and 2, ids or system unknown: 422 for this item (rollback).
Reject(h) ==
  /\ pc[h] = "validate"
  /\ ~Known(Current(h))
  /\ ItemDone(h, "rejected")
  /\ UNCHANGED <<graphOf, tables, status, client, failures, asks>>

\* Steps 1 and 2, both known.
Validate(h) ==
  /\ pc[h] = "validate"
  /\ Known(Current(h))
  /\ pc' = [pc EXCEPT ![h] = "compare"]
  /\ UNCHANGED <<graphOf, tables, body, item, status, adds, reply, client,
                 failures, asks>>

\* Mutant: a derivation that misses obligations is let pass.
CompareSubset(h) ==
  /\ pc[h] = "compare"
  /\ status' = [status EXCEPT
       ![h] = IF derived[Current(h).sys] \subseteq Current(h).ids
              THEN "validated" ELSE "flagged_mismatch"]
  /\ pc' = [pc EXCEPT ![h] = "write"]
  /\ UNCHANGED <<graphOf, tables, body, item, adds, reply, client, failures, asks>>

\* Step 2: derive independently, compare exactly.
Compare(h) ==
  /\ pc[h] = "compare"
  /\ status' = [status EXCEPT
       ![h] = IF Current(h).ids = derived[Current(h).sys]
              THEN "validated" ELSE "flagged_mismatch"]
  /\ pc' = [pc EXCEPT ![h] = "write"]
  /\ UNCHANGED <<graphOf, tables, body, item, adds, reply, client, failures, asks>>

\* upsert_ai_system_obligation_links: the links that are missing now.
ToAdd(h) == {o \in Current(h).ids : links[Current(h).sys][o] = 0}

\* Mutant: links are added whether they are there or not.
WriteBlindly(h) ==
  /\ pc[h] = "write"
  /\ adds' = [adds EXCEPT
       ![h] = IF status[h] \in Binding THEN Current(h).ids ELSE {}]
  /\ pc' = [pc EXCEPT ![h] = "commit"]
  /\ UNCHANGED <<graphOf, tables, body, item, status, reply, client, failures, asks>>

\* Mutant: a flagged derivation is linked, too.
WriteFlagged(h) ==
  /\ pc[h] = "write"
  /\ adds' = [adds EXCEPT ![h] = ToAdd(h)]
  /\ pc' = [pc EXCEPT ![h] = "commit"]
  /\ UNCHANGED <<graphOf, tables, body, item, status, reply, client, failures, asks>>

\* Step 3: add the result row; if validated, its links.
Write(h) ==
  /\ pc[h] = "write"
  /\ adds' = [adds EXCEPT
       ![h] = IF status[h] \in Binding THEN ToAdd(h) ELSE {}]
  /\ pc' = [pc EXCEPT ![h] = "commit"]
  /\ UNCHANGED <<graphOf, tables, body, item, status, reply, client, failures, asks>>

\* session.commit().
Commit(h) ==
  /\ pc[h] = "commit"
  /\ results' = [results EXCEPT ![Current(h)][status[h]] = @ + 1]
  /\ links' = [links EXCEPT ![Current(h).sys] =
       [o \in Obligation |-> IF o \in adds[h] THEN @[o] + 1 ELSE @[o]]]
  /\ pc' = [pc EXCEPT ![h] = "audit"]
  /\ UNCHANGED <<graphOf, audits, body, item, status, adds, reply,
                 client, failures, asks>>

\* Mutant: a flagged result gets no audit entry.
AuditPassed(h) ==
  /\ pc[h] = "audit"
  /\ audits' = IF status[h] \in Binding
               THEN [audits EXCEPT ![Current(h)][status[h]] = @ + 1]
               ELSE audits
  /\ ItemDone(h, status[h])
  /\ UNCHANGED <<graphOf, results, links, status, client, failures, asks>>

\* Step 4: the audit entry, pass or flagged.
Audit(h) ==
  /\ pc[h] = "audit"
  /\ audits' = [audits EXCEPT ![Current(h)][status[h]] = @ + 1]
  /\ ItemDone(h, status[h])
  /\ UNCHANGED <<graphOf, results, links, status, client, failures, asks>>

\* The answer reaches the satellite, or it has stopped waiting.
Answer(h) ==
  /\ pc[h] = "answer" /\ status[h] # "self_derived"
  /\ \/ answers' = [answers EXCEPT ![body[h]] = reply[h]]
     \/ answers' = answers
  /\ Dismiss(h)
  /\ UNCHANGED <<graphOf, tables, attempts, told, failures, asks>>

-----------------------------------------------------------------------------
(* A customer's request to derive on demand.  From the transaction on it     *)
(* takes the same statements: Write, Commit and Audit.                       *)

\* Mutant: the derivation is kept as a preview, without its links.
DeriveOnDemandPreview(h) ==
  /\ pc[h] = "idle" /\ asks < MaxAsks
  /\ asks' = asks + 1
  /\ \E s \in nodes :
       body' = [body EXCEPT ![h] = <<[sys |-> s, ids |-> derived[s]]>>]
  /\ status' = [status EXCEPT ![h] = "self_derived"]
  /\ pc' = [pc EXCEPT ![h] = "commit"]
  /\ UNCHANGED <<graphOf, tables, item, adds, reply, client, failures>>

\* derive_and_persist_traversal: the system has a node (404) and the limiter lets
\* the request pass (429, RateLimiter); core derives for it.
DeriveOnDemand(h) ==
  /\ pc[h] = "idle" /\ asks < MaxAsks
  /\ asks' = asks + 1
  /\ \E s \in nodes :
       body' = [body EXCEPT ![h] = <<[sys |-> s, ids |-> derived[s]]>>]
  /\ status' = [status EXCEPT ![h] = "self_derived"]
  /\ pc' = [pc EXCEPT ![h] = "write"]
  /\ UNCHANGED <<graphOf, tables, item, adds, reply, client, failures>>

\* The answer is given.
Tell(h) ==
  /\ pc[h] = "answer" /\ status[h] = "self_derived"
  /\ told' = told \cup reply[h]
  /\ Dismiss(h)
  /\ UNCHANGED <<graphOf, tables, attempts, answers, failures, asks>>

-----------------------------------------------------------------------------

\* Mutant: an item whose audit entry could not be written is taken again.
StatementFailsRetaking(h) ==
  /\ pc[h] \in {"validate", "compare", "write", "commit", "audit"}
  /\ failures < MaxFailures
  /\ failures' = failures + 1
  /\ \/ pc[h] # "audit" /\ Dismiss(h)
     \/ /\ pc[h] = "audit"
        /\ pc' = [pc EXCEPT ![h] = "write"]
        /\ UNCHANGED <<body, item, status, adds, reply>>
  /\ UNCHANGED <<graphOf, tables, client, asks>>

\* A statement raises something other than an HTTPException: 500, the open
\* transaction is rolled back, the rest of the batch is not looked at.
StatementFails(h) ==
  /\ pc[h] \in {"validate", "compare", "write", "commit", "audit"}
  /\ failures < MaxFailures
  /\ failures' = failures + 1
  /\ Dismiss(h)
  /\ UNCHANGED <<graphOf, tables, client, asks>>

\* Core's process restarts.
Restart ==
  /\ failures < MaxFailures
  /\ failures' = failures + 1
  /\ pc' = [h \in Handler |-> "idle"]
  /\ body' = [h \in Handler |-> NoBody]
  /\ item' = [h \in Handler |-> 1]
  /\ status' = [h \in Handler |-> "flagged_mismatch"]
  /\ adds' = [h \in Handler |-> {}]
  /\ reply' = [h \in Handler |-> {}]
  /\ UNCHANGED <<graphOf, tables, client, asks>>

HandlerStep(h) ==
  \/ Receive(h) \/ Reject(h) \/ Validate(h) \/ Compare(h) \/ Write(h)
  \/ Commit(h) \/ Audit(h) \/ Answer(h) \/ StatementFails(h)
  \/ DeriveOnDemand(h) \/ Tell(h)

Next == StructurePush \/ (\E h \in Handler : HandlerStep(h)) \/ Restart

Spec == Init /\ [][Next]_vars

-----------------------------------------------------------------------------
TypeOK ==
  /\ nodes \subseteq System
  /\ catalog \subseteq Obligation
  /\ derived \in [System -> SUBSET Obligation]
  /\ results \in [Derivation -> [Status -> Nat]]
  /\ links \in [System -> [Obligation -> Nat]]
  /\ audits \in [Derivation -> [Status -> Nat]]
  /\ pc \in [Handler -> {"idle", "validate", "compare", "write", "commit",
                         "audit", "answer"}]
  /\ body \in [Handler -> Seq(Derivation) \cup {NoBody}]
  /\ item \in [Handler -> Nat \ {0}]
  /\ status \in [Handler -> Status]
  /\ adds \in [Handler -> SUBSET Obligation]
  /\ reply \in [Handler -> SUBSET Reply]
  /\ attempts \in [Body -> 0 .. MaxAttempts]
  /\ answers \in [Body -> SUBSET Reply]
  /\ told \subseteq Reply
  /\ failures \in Nat
  /\ asks \in 0 .. MaxAsks
  /\ \A h \in Handler :
       pc[h] # "idle" => body[h] \in Seq(Derivation) /\ item[h] \in 1 .. Len(body[h])

Linked == [s \in System |-> {o \in Obligation : links[s][o] > 0}]

\* Core decides, and decides in one step: whatever other requests, structure
\* pushes, failures and restarts come between a handler's statements, the
\* tables change as DerivationLedger says.
Ledger == INSTANCE DerivationLedger
            WITH graph <- derived, ledger <- results, linked <- Linked
LedgerSpec == Ledger!LSpec

\* Whatever comes between statements, no link is left without a result that
\* accounts for it, no result that binds without its links, and none goes beyond
\* core's graph.
LinksMatchResults == Ledger!LinksMatchLedger

\* What an answer says of a derivation is so: it has its result row and its
\* audit entry and, unless it was flagged, its links.
IsSo(r) ==
  r.status # "rejected" =>
    /\ results[r.item][r.status] > 0
    /\ audits[r.item][r.status] > 0
    /\ r.status \in Binding => r.item.ids \subseteq Linked[r.item.sys]

\* What core reports it has done, to the satellite and to customers: an answer to
\* the satellite covers every item of its batch, good ones next to bad ones, and
\* what an answer says of an item is so.
AnswersAreTrue ==
  /\ \A b \in Body :
       answers[b] # {} =>
         /\ \A i \in 1 .. Len(b) : \E r \in answers[b] : r.item = b[i]
         /\ \A r \in answers[b] : IsSo(r)
  /\ \A r \in told : IsSo(r)

\* find_coverage_gaps, for a result of d that is the latest of its system: what
\* needs controls of which none is linked.
Gaps(d) ==
  {o \in d.ids : Requires[o] # {} /\ Requires[o] \cap Linked[d.sys] = {}}

\* A gap is never a control that core itself confirmed together with its
\* obligation: whichever of its results is the latest, and whatever ingest or
\* on-demand request wrote it, only a flagged result can be answered with gaps
\* that its own controls would fill.
GapsAreOpen ==
  \A d \in Derivation, st \in Binding :
    results[d][st] > 0 => \A o \in Gaps(d) : Requires[o] \cap d.ids = {}

\* ai_system_obligation_links has no unique constraint, and handlers look before
\* they insert without a lock; but however often a derivation is posted or asked
\* for, only handlers that overlap can insert the same link.
LinkRowsAreFew ==
  \A s \in System, o \in Obligation : links[s][o] <= Cardinality(Handler)

\* Handlers that have committed a result and owe its audit entry.
ToAudit(d, st) ==
  {h \in Handler : pc[h] = "audit" /\ Current(h) = d /\ status[h] = st}

\* "Pass or flagged", each result has one audit entry, unless core fails or is
\* restarted just between the commit and the entry: of the results some have
\* their entry, some are owed one by a handler at that place, and any others lost
\* it there, at most one for each handler a failure has stopped.
AuditsMatchResults ==
  \A d \in Derivation, st \in Status :
    LET owned == audits[d][st] + Cardinality(ToAudit(d, st))
    IN  /\ owned <= results[d][st]
        /\ results[d][st] <= owned + failures * Cardinality(Handler)

\* Result rows that posts of the satellite's made.
Posted(d) == results[d]["validated"] + results[d]["flagged_mismatch"]

\* A derivation that is one item of one body.
OnlyItem(b, i) ==
  \A c \in Body : \A j \in 1 .. Len(c) : c[j] = b[i] => c = b /\ j = i

\* Core does not look for what it recorded before, but a post of a batch records
\* each of its items once at most, whatever fails after the item's commit and
\* whichever attempts overlap: duplicates come from posts alone.
RecordedPerPost ==
  \A b \in Body : \A i \in 1 .. Len(b) :
    OnlyItem(b, i) => Posted(b[i]) <= attempts[b]

\* "Core dedupes on that hash" (README, ingest_client.py): a derivation posted
\* once by the satellite's logic, however often on the wire, is recorded once.
RecordedOnce ==
  \A d \in Derivation : Posted(d) <= 1
=============================================================================
