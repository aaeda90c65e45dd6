-------------------------- MODULE CoreIngest_proofs --------------------------
(***************************************************************************)
(* Proofs about CoreIngest for every set of systems, obligations,           *)
(* derivations and batches, any number of handler threads, attempts,        *)
(* failures and restarts.                                                   *)
(***************************************************************************)
EXTENDS CoreIngest, FiniteSetTheorems, TLAPS

(***************************************************************************)
(* Type correctness.  A thread without a request starts at the first item;  *)
(* one with a request has a batch of the satellite's or, its status tells,  *)
(* the one derivation that core made on demand.                             *)
(***************************************************************************)
IdleAtStart ==
  \A h \in Handler : pc[h] = "idle" => item[h] = 1 /\ status[h] # "self_derived"

RouteKnown ==
  \A h \in Handler : pc[h] # "idle" =>
    \/ status[h] # "self_derived" /\ body[h] \in Body
    \/ /\ status[h] = "self_derived" /\ Len(body[h]) = 1
       /\ pc[h] \in {"write", "commit", "audit", "answer"}

TypeInv == TypeOK /\ IdleAtStart /\ RouteKnown

\* A busy thread is at one of the derivations of its body.
LEMMA CurrentType ==
  ASSUME TypeOK, NEW h \in Handler, pc[h] # "idle"
  PROVE  /\ body[h] \in Seq(Derivation) /\ item[h] \in 1 .. Len(body[h])
         /\ Len(body[h]) \in Nat
         /\ Current(h) \in Derivation
         /\ Current(h).sys \in System /\ Current(h).ids \subseteq Obligation
<1>1. body[h] \in Seq(Derivation) /\ item[h] \in 1 .. Len(body[h])
  BY DEF TypeOK
<1>2. Current(h) \in Derivation /\ Len(body[h]) \in Nat
  BY <1>1 DEF Current
<1>3. QED
  BY <1>1, <1>2 DEF Derivation

\* The request of a thread, as TypeInv has it.
Requested(h) ==
  /\ pc[h] = "idle" => item[h] = 1 /\ status[h] # "self_derived"
  /\ pc[h] # "idle" => body[h] \in Seq(Derivation) /\ item[h] \in 1 .. Len(body[h])
  /\ pc[h] # "idle" =>
       \/ status[h] # "self_derived" /\ body[h] \in Body
       \/ /\ status[h] = "self_derived" /\ Len(body[h]) = 1
          /\ pc[h] \in {"write", "commit", "audit", "answer"}

\* What TypeInv says of the variables of threads.
ThreadTypes ==
  /\ pc \in [Handler -> {"idle", "validate", "compare", "write", "commit",
                         "audit", "answer"}]
  /\ body \in [Handler -> Seq(Derivation) \cup {NoBody}]
  /\ item \in [Handler -> Nat \ {0}]
  /\ status \in [Handler -> Status]
  /\ adds \in [Handler -> SUBSET Obligation]
  /\ reply \in [Handler -> SUBSET Reply]

\* And of the others.
TableTypes ==
  /\ nodes \subseteq System
  /\ catalog \subseteq Obligation
  /\ derived \in [System -> SUBSET Obligation]
  /\ results \in [Derivation -> [Status -> Nat]]
  /\ links \in [System -> [Obligation -> Nat]]
  /\ audits \in [Derivation -> [Status -> Nat]]
  /\ attempts \in [Body -> 0 .. MaxAttempts]
  /\ answers \in [Body -> SUBSET Reply]
  /\ told \subseteq Reply
  /\ failures \in Nat
  /\ asks \in 0 .. MaxAsks

LEMMA TypeParts ==
  TypeInv <=> ThreadTypes /\ TableTypes /\ \A h \in Handler : Requested(h)
BY DEF TypeInv, TypeOK, ThreadTypes, TableTypes, IdleAtStart, RouteKnown, Requested

\* Going on after an item keeps the thread typed.
LEMMA ItemDoneType ==
  ASSUME TypeInv, NEW h \in Handler, pc[h] # "idle",
         NEW st \in Status \cup {"rejected"}, ItemDone(h, st), status' = status
  PROVE  ThreadTypes' /\ \A k \in Handler : Requested(k)'
<1>0. ThreadTypes /\ \A k \in Handler : Requested(k)
  BY TypeParts
<1>1. [item |-> Current(h), status |-> st] \in Reply
  BY CurrentType DEF TypeInv, Reply
<1>2. body[h] \in Seq(Derivation) /\ item[h] \in 1 .. Len(body[h]) /\ Len(body[h]) \in Nat
  BY CurrentType DEF TypeInv
<1>3. /\ body' = body /\ adds' = [adds EXCEPT ![h] = {}]
      /\ reply' = [reply EXCEPT ![h] = @ \cup {[item |-> Current(h), status |-> st]}]
      /\ \/ /\ item[h] < Len(body[h])
            /\ item' = [item EXCEPT ![h] = @ + 1] /\ pc' = [pc EXCEPT ![h] = "validate"]
         \/ item' = item /\ pc' = [pc EXCEPT ![h] = "answer"]
  BY DEF ItemDone
<1>4. ThreadTypes'
  BY <1>0, <1>1, <1>3 DEF ThreadTypes
<1>5. ASSUME NEW k \in Handler, k # h PROVE Requested(k)'
  <2>1. pc'[k] = pc[k] /\ item'[k] = item[k]
    BY <1>0, <1>3, <1>5 DEF ThreadTypes
  <2>2. QED
    BY <1>0, <1>3, <2>1 DEF Requested
<1>6. Requested(h)'
  <2>1. \/ item[h] < Len(body[h]) /\ item'[h] = item[h] + 1 /\ pc'[h] = "validate"
        \/ item'[h] = item[h] /\ pc'[h] = "answer"
    BY <1>0, <1>3 DEF ThreadTypes
  <2>2. item'[h] \in 1 .. Len(body[h]) /\ pc'[h] # "idle"
    BY <1>2, <2>1
  <2>3. \/ status[h] # "self_derived" /\ body[h] \in Body
        \/ status[h] = "self_derived" /\ Len(body[h]) = 1 /\ pc'[h] = "answer"
    <3>0. \A n \in Nat : \A i \in 1 .. n : i < n => n # 1
      OBVIOUS
    <3>1. item[h] < Len(body[h]) => Len(body[h]) # 1
      BY <1>2, <3>0, Zenon
    <3>2. \/ status[h] # "self_derived" /\ body[h] \in Body
          \/ status[h] = "self_derived" /\ Len(body[h]) = 1
      BY <1>0 DEF Requested
    <3>3. QED
      BY <2>1, <3>1, <3>2
  <2>4. QED
    BY <1>2, <1>3, <2>2, <2>3 DEF Requested
<1>7. QED
  BY <1>4, <1>5, <1>6

\* Giving up a request does, too.
LEMMA DismissType ==
  ASSUME TypeInv, NEW h \in Handler, Dismiss(h)
  PROVE  ThreadTypes' /\ \A k \in Handler : Requested(k)'
<1>0. ThreadTypes /\ \A k \in Handler : Requested(k)
  BY TypeParts
<1>1. ThreadTypes'
  BY <1>0 DEF Dismiss, ThreadTypes, Status
<1>2. ASSUME NEW k \in Handler, k # h PROVE Requested(k)'
  <2>1. pc'[k] = pc[k] /\ item'[k] = item[k] /\ body'[k] = body[k] /\ status'[k] = status[k]
    BY <1>0, <1>2 DEF Dismiss, ThreadTypes
  <2>2. QED
    BY <1>0, <2>1 DEF Requested
<1>3. Requested(h)'
  <2>1. pc'[h] = "idle" /\ item'[h] = 1 /\ status'[h] = "flagged_mismatch"
    BY <1>0 DEF Dismiss, ThreadTypes
  <2>2. QED
    BY <2>1 DEF Requested
<1>4. QED
  BY <1>1, <1>2, <1>3

\* So does going from one statement of an item to the next.
LEMMA MoveType ==
  ASSUME TypeInv, NEW h \in Handler, pc[h] # "idle",
         NEW p \in {"compare", "write", "commit", "audit"},
         pc' = [pc EXCEPT ![h] = p],
         UNCHANGED <<body, item, status>>,
         status[h] = "self_derived" => p # "compare"
  PROVE  \A k \in Handler : Requested(k)'
<1>0. ThreadTypes /\ \A k \in Handler : Requested(k)
  BY TypeParts
<1>1. ASSUME NEW k \in Handler, k # h PROVE Requested(k)'
  <2>1. pc'[k] = pc[k]
    BY <1>0, <1>1 DEF ThreadTypes
  <2>2. QED
    BY <1>0, <2>1 DEF Requested
<1>2. Requested(h)'
  <2>1. pc'[h] = p /\ p # "idle"
    BY <1>0 DEF ThreadTypes
  <2>2. QED
    BY <1>0, <2>1 DEF Requested
<1>3. QED
  BY <1>1, <1>2

\* One step keeps the types.
LEMMA TypeStep == TypeInv /\ [Next]_vars => TypeInv'
<1> SUFFICES ASSUME TypeInv, [Next]_vars PROVE TypeInv'
  OBVIOUS
<1> USE DEF graphOf, tables, thread, client
<1>0. ThreadTypes /\ TableTypes /\ \A h \in Handler : Requested(h)
  BY TypeParts
<1>a. ASSUME ThreadTypes', TableTypes', \A h \in Handler : Requested(h)' PROVE TypeInv'
  BY <1>a DEF TypeInv, TypeOK, ThreadTypes, TableTypes, IdleAtStart, RouteKnown, Requested
<1>1. CASE StructurePush
  <2>1. TableTypes'
    BY <1>0, <1>1 DEF StructurePush, TableTypes
  <2>2. ThreadTypes' /\ \A h \in Handler : Requested(h)'
    BY <1>0, <1>1 DEF StructurePush, ThreadTypes, Requested
  <2>3. QED
    BY <1>a, <2>1, <2>2
<1>2. ASSUME NEW h \in Handler, Receive(h) PROVE TypeInv'
  <2>1. PICK b \in Body :
          /\ attempts[b] < MaxAttempts
          /\ attempts' = [attempts EXCEPT ![b] = @ + 1]
          /\ body' = [body EXCEPT ![h] = b]
    BY <1>2 DEF Receive
  <2>2. attempts' \in [Body -> 0 .. MaxAttempts]
    BY <1>0, <2>1, AttemptAssumption DEF TableTypes
  <2>3. b # <<>> /\ b \in Seq(Derivation)
    BY BodyAssumption
  <2>4. 1 \in 1 .. Len(b)
    BY <2>3
  <2>5. TableTypes'
    BY <1>0, <1>2, <2>2 DEF Receive, TableTypes
  <2>6. ThreadTypes'
    BY <1>0, <1>2, <2>1, <2>3 DEF Receive, ThreadTypes
  <2>7. ASSUME NEW k \in Handler, k # h PROVE Requested(k)'
    <3>1. pc'[k] = pc[k] /\ item'[k] = item[k] /\ body'[k] = body[k] /\ status'[k] = status[k]
      BY <1>0, <1>2, <2>1, <2>7 DEF Receive, ThreadTypes
    <3>2. QED
      BY <1>0, <3>1 DEF Requested
  <2>8. Requested(h)'
    <3>1. /\ pc'[h] = "validate" /\ item'[h] = 1 /\ body'[h] = b
          /\ status'[h] # "self_derived"
      BY <1>0, <1>2, <2>1 DEF Receive, ThreadTypes, Requested
    <3>2. QED
      BY <2>3, <2>4, <3>1 DEF Requested
  <2>9. QED
    BY <1>a, <2>5, <2>6, <2>7, <2>8
<1>3. ASSUME NEW h \in Handler, Reject(h) PROVE TypeInv'
  <2>1. TableTypes'
    BY <1>0, <1>3 DEF Reject, TableTypes
  <2>2. QED
    BY <1>3, <1>a, <2>1, ItemDoneType DEF Reject
<1>4. ASSUME NEW h \in Handler, Validate(h) PROVE TypeInv'
  <2>1. status[h] # "self_derived"
    BY <1>0, <1>4 DEF Validate, Requested
  <2>2. \A k \in Handler : Requested(k)'
    BY <1>4, <2>1, MoveType DEF Validate
  <2>3. ThreadTypes' /\ TableTypes'
    BY <1>0, <1>4 DEF Validate, ThreadTypes, TableTypes
  <2>4. QED
    BY <1>a, <2>2, <2>3
<1>5. ASSUME NEW h \in Handler, Compare(h) PROVE TypeInv'
  <2>1. ThreadTypes' /\ TableTypes'
    BY <1>0, <1>5 DEF Compare, ThreadTypes, TableTypes, Status
  <2>2. ASSUME NEW k \in Handler, k # h PROVE Requested(k)'
    <3>1. pc'[k] = pc[k] /\ status'[k] = status[k]
      BY <1>0, <1>5, <2>2 DEF Compare, ThreadTypes
    <3>2. QED
      BY <1>0, <1>5, <3>1 DEF Compare, Requested
  <2>3. Requested(h)'
    <3>1. pc[h] = "compare" /\ pc'[h] = "write" /\ status'[h] # "self_derived"
      BY <1>0, <1>5 DEF Compare, ThreadTypes
    <3>2. body[h] \in Body
      BY <1>0, <3>1 DEF Requested
    <3>3. QED
      BY <1>0, <1>5, <3>1, <3>2 DEF Compare, Requested
  <2>4. QED
    BY <1>a, <2>1, <2>2, <2>3
<1>6. ASSUME NEW h \in Handler, Write(h) PROVE TypeInv'
  <2>1. ToAdd(h) \subseteq Obligation
    BY <1>6, CurrentType DEF Write, ToAdd, TypeInv
  <2>2. \A k \in Handler : Requested(k)'
    BY <1>6, MoveType DEF Write
  <2>3. ThreadTypes' /\ TableTypes'
    BY <1>0, <1>6, <2>1 DEF Write, ThreadTypes, TableTypes
  <2>4. QED
    BY <1>a, <2>2, <2>3
<1>7. ASSUME NEW h \in Handler, Commit(h) PROVE TypeInv'
  <2>1. Current(h) \in Derivation /\ Current(h).sys \in System /\ status[h] \in Status
    BY <1>7, CurrentType DEF Commit, TypeInv, TypeOK
  <2>2. results' \in [Derivation -> [Status -> Nat]]
    BY <1>0, <1>7, <2>1 DEF Commit, TableTypes
  <2>3. links' \in [System -> [Obligation -> Nat]]
    BY <1>0, <1>7, <2>1 DEF Commit, TableTypes
  <2>4. \A k \in Handler : Requested(k)'
    BY <1>7, MoveType DEF Commit
  <2>5. ThreadTypes' /\ TableTypes'
    BY <1>0, <1>7, <2>2, <2>3 DEF Commit, ThreadTypes, TableTypes
  <2>6. QED
    BY <1>a, <2>4, <2>5
<1>8. ASSUME NEW h \in Handler, Audit(h) PROVE TypeInv'
  <2>1. Current(h) \in Derivation /\ status[h] \in Status
    BY <1>8, CurrentType DEF Audit, TypeInv, TypeOK
  <2>2. audits' \in [Derivation -> [Status -> Nat]]
    BY <1>0, <1>8, <2>1 DEF Audit, TableTypes
  <2>3. TableTypes'
    BY <1>0, <1>8, <2>2 DEF Audit, TableTypes
  <2>4. QED
    BY <1>8, <1>a, <2>1, <2>3, ItemDoneType DEF Audit
<1>9. ASSUME NEW h \in Handler, Answer(h) PROVE TypeInv'
  <2>1. body[h] \in Body /\ reply[h] \subseteq Reply
    BY <1>0, <1>9 DEF Answer, ThreadTypes, Requested
  <2>2. answers' \in [Body -> SUBSET Reply]
    BY <1>0, <1>9, <2>1 DEF Answer, TableTypes
  <2>3. TableTypes'
    BY <1>0, <1>9, <2>2 DEF Answer, TableTypes
  <2>4. QED
    BY <1>9, <1>a, <2>3, DismissType DEF Answer
<1>10. ASSUME NEW h \in Handler, StatementFails(h) PROVE TypeInv'
  <2>1. TableTypes'
    BY <1>0, <1>10 DEF StatementFails, TableTypes
  <2>2. QED
    BY <1>10, <1>a, <2>1, DismissType DEF StatementFails
<1>11. CASE Restart
  <2>1. ThreadTypes' /\ TableTypes'
    BY <1>0, <1>11 DEF Restart, ThreadTypes, TableTypes, Status
  <2>2. \A k \in Handler :
          pc'[k] = "idle" /\ item'[k] = 1 /\ status'[k] = "flagged_mismatch"
    BY <1>11 DEF Restart
  <2>3. \A k \in Handler : Requested(k)'
    BY <2>2 DEF Requested
  <2>4. QED
    BY <1>a, <2>1, <2>3
<1>12. ASSUME NEW h \in Handler, DeriveOnDemand(h) PROVE TypeInv'
  <2>1. PICK s \in nodes : body' = [body EXCEPT ![h] = <<[sys |-> s, ids |-> derived[s]]>>]
    BY <1>12 DEF DeriveOnDemand
  <2>2. [sys |-> s, ids |-> derived[s]] \in Derivation
    BY <1>0 DEF TableTypes, Derivation
  <2> DEFINE b == <<[sys |-> s, ids |-> derived[s]]>>
  <2>3. b \in Seq(Derivation) /\ Len(b) = 1 /\ 1 \in 1 .. Len(b)
    BY <2>2
  <2>4. body' = [body EXCEPT ![h] = b]
    BY <2>1
  <2>5. /\ pc[h] = "idle" /\ pc' = [pc EXCEPT ![h] = "write"] /\ item' = item
        /\ status' = [status EXCEPT ![h] = "self_derived"]
        /\ asks < MaxAsks /\ asks' = asks + 1
        /\ UNCHANGED <<nodes, catalog, derived, results, links, audits, adds, reply,
                       attempts, answers, told, failures>>
    BY <1>12 DEF DeriveOnDemand
  <2> HIDE DEF b
  <2>6. ThreadTypes'
    BY <1>0, <2>3, <2>4, <2>5 DEF ThreadTypes, Status
  <2>7. TableTypes'
    BY <1>0, <2>5, AttemptAssumption DEF TableTypes
  <2>8. ASSUME NEW k \in Handler, k # h PROVE Requested(k)'
    <3>1. pc'[k] = pc[k] /\ item'[k] = item[k] /\ body'[k] = body[k] /\ status'[k] = status[k]
      BY <1>0, <2>4, <2>5, <2>8 DEF ThreadTypes
    <3>2. QED
      BY <1>0, <3>1 DEF Requested
  <2>9. Requested(h)'
    <3>1. /\ pc'[h] = "write" /\ item'[h] = 1 /\ body'[h] = b /\ status'[h] = "self_derived"
      BY <1>0, <2>4, <2>5 DEF ThreadTypes, Requested
    <3>2. QED
      BY <2>3, <3>1 DEF Requested
  <2>10. QED
    BY <1>a, <2>6, <2>7, <2>8, <2>9
<1>13. ASSUME NEW h \in Handler, Tell(h) PROVE TypeInv'
  <2>1. TableTypes'
    BY <1>0, <1>13 DEF Tell, TableTypes, ThreadTypes
  <2>2. QED
    BY <1>13, <1>a, <2>1, DismissType DEF Tell
<1>14. CASE UNCHANGED vars
  <2>1. ThreadTypes' /\ TableTypes' /\ \A h \in Handler : Requested(h)'
    BY <1>0, <1>14 DEF vars, ThreadTypes, TableTypes, Requested
  <2>2. QED
    BY <1>a, <2>1
<1>15. QED
  BY <1>1, <1>2, <1>3, <1>4, <1>5, <1>6, <1>7, <1>8, <1>9, <1>10, <1>11, <1>12, <1>13, <1>14
  DEF Next, HandlerStep

\* The types hold initially.
LEMMA InitType == Init => TypeInv
BY AttemptAssumption DEF Init, TypeInv, TypeOK, IdleAtStart, RouteKnown, Status

\* Every variable of CoreIngest keeps its type; a thread never runs past the
\* end of its batch.
THEOREM TypeCorrect == Spec => []TypeOK
<1>1. TypeInv => TypeOK
  BY DEF TypeInv
<1>2. QED
  BY <1>1, InitType, TypeStep, PTL DEF Spec

(***************************************************************************)
(* What a thread knows between its statements stays true while the others   *)
(* work, because nothing a step does takes anything away: core's graph, the *)
(* rows and the audit log only grow.                                        *)
(***************************************************************************)
Grows ==
  /\ \A s \in System : derived[s] \subseteq derived'[s] /\ Linked[s] \subseteq Linked'[s]
  /\ \A d \in Derivation, st \in Status :
       /\ results[d][st] > 0 => results'[d][st] > 0
       /\ audits[d][st] > 0 => audits'[d][st] > 0

\* What Compare and Write established for the coming commit.
InFlight(h) ==
  LET d == Current(h) IN
  /\ pc[h] \in {"write", "commit"} /\ status[h] \in Binding =>
       d.ids \subseteq derived[d.sys]
  /\ pc[h] = "commit" /\ status[h] \in Binding =>
       adds[h] \subseteq d.ids /\ d.ids \subseteq adds[h] \cup Linked[d.sys]
  /\ pc[h] = "commit" /\ status[h] \notin Binding => adds[h] = {}

\* A result of d with this status is in the tables, with its links.
Recorded(d, st) ==
  results[d][st] > 0 /\ (st \in Binding => d.ids \subseteq Linked[d.sys])

Honest(r) ==
  r.status # "rejected" =>
    Recorded(r.item, r.status) /\ audits[r.item][r.status] > 0

\* What the thread has put into its answer so far, and is about to.
ReplyHonest(h) ==
  /\ pc[h] = "audit" => Recorded(Current(h), status[h])
  /\ \A r \in reply[h] : Honest(r)
  /\ pc[h] # "idle" =>
       \A i \in 1 .. Len(body[h]) :
         i < item[h] \/ pc[h] = "answer" => \E r \in reply[h] : r.item = body[h][i]

AnswersHonest ==
  \A b \in Body :
    answers[b] # {} =>
      /\ \A i \in 1 .. Len(b) : \E r \in answers[b] : r.item = b[i]
      /\ \A r \in answers[b] : Honest(r)

CoreInv ==
  /\ \A h \in Handler : InFlight(h) /\ ReplyHonest(h)
  /\ AnswersHonest
  /\ \A r \in told : Honest(r)

\* Only h's own variables change in a step of h.
Own(h) ==
  \A k \in Handler \ {h} :
    /\ pc'[k] = pc[k] /\ body'[k] = body[k] /\ item'[k] = item[k]
    /\ status'[k] = status[k] /\ adds'[k] = adds[k] /\ reply'[k] = reply[k]

\* No step of h touches another thread's variables.
LEMMA OwnStep ==
  ASSUME TypeInv, NEW h \in Handler, HandlerStep(h)
  PROVE  Own(h)
<1> USE DEF TypeInv, TypeOK, Own, thread, tables, graphOf, client
<1>1. CASE Receive(h)
  BY <1>1 DEF Receive
<1>2. CASE Reject(h) \/ Audit(h)
  BY <1>2 DEF Reject, Audit, ItemDone
<1>3. CASE Validate(h) \/ Compare(h) \/ Write(h) \/ Commit(h)
  BY <1>3 DEF Validate, Compare, Write, Commit
<1>4. CASE Answer(h) \/ Tell(h) \/ StatementFails(h)
  BY <1>4 DEF Answer, Tell, StatementFails, Dismiss
<1>5. CASE DeriveOnDemand(h)
  BY <1>5 DEF DeriveOnDemand
<1>6. QED
  BY <1>1, <1>2, <1>3, <1>4, <1>5 DEF HandlerStep

\* No step takes anything away.
LEMMA GrowsStep == TypeInv /\ [Next]_vars => Grows
<1> SUFFICES ASSUME TypeInv, [Next]_vars PROVE Grows
  OBVIOUS
<1> USE DEF TypeInv, TypeOK
<1>1. CASE UNCHANGED <<derived, results, links, audits>>
  BY <1>1 DEF Grows, Linked
<1>2. CASE StructurePush
  BY <1>2 DEF StructurePush, Grows, Linked, tables
<1>3. ASSUME NEW h \in Handler, Commit(h) PROVE Grows
  <2>1. Current(h) \in Derivation /\ Current(h).sys \in System /\ status[h] \in Status
    BY <1>3, CurrentType DEF Commit
  <2>2. \A s \in System, o \in Obligation : links[s][o] > 0 => links'[s][o] > 0
    BY <1>3, <2>1 DEF Commit
  <2>3. \A d \in Derivation, st \in Status : results[d][st] > 0 => results'[d][st] > 0
    BY <1>3, <2>1 DEF Commit
  <2>4. derived' = derived /\ audits' = audits
    BY <1>3 DEF Commit, graphOf
  <2>5. QED
    BY <2>2, <2>3, <2>4 DEF Grows, Linked
<1>4. ASSUME NEW h \in Handler, Audit(h) PROVE Grows
  <2>1. Current(h) \in Derivation /\ status[h] \in Status
    BY <1>4, CurrentType DEF Audit
  <2>2. \A d \in Derivation, st \in Status : audits[d][st] > 0 => audits'[d][st] > 0
    BY <1>4, <2>1 DEF Audit
  <2>3. UNCHANGED <<derived, results, links>>
    BY <1>4 DEF Audit, graphOf
  <2>4. QED
    BY <2>2, <2>3 DEF Grows, Linked
<1>5. QED
  BY <1>1, <1>2, <1>3, <1>4 DEF Next, HandlerStep, Receive, Reject, Validate,
     Compare, Write, Answer, DeriveOnDemand, Tell, StatementFails, Restart, vars,
     graphOf, tables

\* What is honest stays so.
LEMMA HonestStays ==
  ASSUME TypeInv, Grows
  PROVE  /\ \A d \in Derivation, st \in Status : Recorded(d, st) => Recorded(d, st)'
         /\ \A r \in Reply : Honest(r) => Honest(r)'
<1>1. \A d \in Derivation : d.sys \in System
  BY DEF Derivation
<1>2. \A d \in Derivation, st \in Status : Recorded(d, st) => Recorded(d, st)'
  BY <1>1 DEF Recorded, Grows
<1>3. \A r \in Reply : r.item \in Derivation /\ (r.status # "rejected" => r.status \in Status)
  BY DEF Reply
<1>4. \A r \in Reply : Honest(r) => Honest(r)'
  BY <1>2, <1>3 DEF Honest, Grows
<1>5. QED
  BY <1>2, <1>4

\* A thread that does not move keeps what it knows.
LEMMA OthersKeep ==
  ASSUME TypeInv, Grows, NEW k \in Handler, InFlight(k), ReplyHonest(k),
         pc'[k] = pc[k], body'[k] = body[k], item'[k] = item[k],
         status'[k] = status[k], adds'[k] = adds[k], reply'[k] = reply[k]
  PROVE  InFlight(k)' /\ ReplyHonest(k)'
<1>1. Current(k)' = Current(k)
  BY DEF Current
<1>2. pc[k] # "idle" => Current(k) \in Derivation /\ Current(k).sys \in System
  BY CurrentType DEF TypeInv
<1>3. InFlight(k)'
  BY <1>1, <1>2 DEF InFlight, Grows
<1>4. reply[k] \subseteq Reply /\ status[k] \in Status
  BY DEF TypeInv, TypeOK
<1>5. ReplyHonest(k)'
  BY <1>1, <1>2, <1>4, HonestStays DEF ReplyHonest
<1>6. QED
  BY <1>3, <1>5

\* An item that was rejected, or is honestly recorded, may be put into the answer.
LEMMA ItemDoneHonest ==
  ASSUME TypeInv, Grows, NEW h \in Handler, pc[h] # "idle", pc[h] # "answer",
         ReplyHonest(h), NEW st \in Status \cup {"rejected"}, ItemDone(h, st),
         NEW r, r = [item |-> Current(h), status |-> st], Honest(r)'
  PROVE  InFlight(h)' /\ ReplyHonest(h)'
<1>1. /\ body[h] \in Seq(Derivation) /\ item[h] \in 1 .. Len(body[h]) /\ Len(body[h]) \in Nat
      /\ Current(h) \in Derivation
  BY CurrentType DEF TypeInv
<1>2. r \in Reply /\ reply[h] \subseteq Reply /\ h \in DOMAIN reply /\ h \in DOMAIN pc
      /\ h \in DOMAIN item
  BY <1>1 DEF Reply, TypeInv, TypeOK
<1>3. reply'[h] = reply[h] \cup {r} /\ body' = body
  BY <1>2 DEF ItemDone
<1>4. \A q \in reply'[h] : Honest(q)'
  <2>1. \A q \in reply[h] : Honest(q)'
    BY <1>2, HonestStays DEF ReplyHonest
  <2>2. Honest(r)'
    OBVIOUS
  <2>3. QED
    BY <1>3, <2>1, <2>2
<1>5. pc'[h] \in {"validate", "answer"}
  BY <1>2 DEF ItemDone
<1>6. \A i \in 1 .. Len(body'[h]) :
        i < item'[h] \/ pc'[h] = "answer" => \E q \in reply'[h] : q.item = body'[h][i]
  <2> SUFFICES ASSUME NEW i \in 1 .. Len(body[h]), i < item'[h] \/ pc'[h] = "answer"
               PROVE  \E q \in reply'[h] : q.item = body[h][i]
    BY <1>3
  <2>1. i <= item[h]
    <3>1. \/ item'[h] = item[h] + 1
          \/ item'[h] = item[h] /\ item[h] = Len(body[h])
      BY <1>2 DEF ItemDone
    <3>2. pc'[h] = "answer" => item[h] = Len(body[h])
      BY <1>2 DEF ItemDone
    <3>3. i \in Nat /\ i <= Len(body[h]) /\ item[h] \in Nat
      BY <1>1
    <3>4. QED
      BY <3>1, <3>2, <3>3
  <2>2. CASE i = item[h]
    <3>1. r \in reply'[h] /\ r.item = body[h][i]
      BY <1>3, <2>2 DEF Current
    <3>2. QED
      BY <3>1
  <2>3. CASE i < item[h]
    <3>1. PICK q \in reply[h] : q.item = body[h][i]
      BY <2>3 DEF ReplyHonest
    <3>2. QED
      BY <1>3, <3>1
  <2>4. QED
    BY <1>1, <2>1, <2>2, <2>3
<1>7. QED
  BY <1>4, <1>5, <1>6 DEF InFlight, ReplyHonest

\* A step of h keeps what h knows.
LEMMA OwnKept ==
  ASSUME TypeInv, CoreInv, Grows, NEW h \in Handler, HandlerStep(h)
  PROVE  InFlight(h)' /\ ReplyHonest(h)'
<1> USE DEF thread, tables, graphOf, client
<1>1. InFlight(h) /\ ReplyHonest(h)
  BY DEF CoreInv
<1>2. CASE Receive(h)
  <2>1. reply'[h] = reply[h] /\ pc'[h] = "validate" /\ item'[h] = 1
    BY <1>2 DEF Receive, TypeInv, TypeOK, IdleAtStart
  <2>2. \A r \in reply'[h] : Honest(r)'
    BY <1>1, <2>1, HonestStays DEF ReplyHonest, TypeInv, TypeOK
  <2>3. \A i \in 1 .. Len(body'[h]) : ~(i < item'[h])
    BY <2>1
  <2>4. QED
    BY <2>1, <2>2, <2>3 DEF InFlight, ReplyHonest
<1>3. CASE Reject(h)
  <2>1. PICK r : r = [item |-> Current(h), status |-> "rejected"]
    OBVIOUS
  <2>2. Honest(r)'
    BY <2>1 DEF Honest
  <2>3. QED
    BY <1>1, <1>3, <2>1, <2>2, ItemDoneHonest DEF Reject
<1>4. ASSUME /\ reply' = reply /\ body' = body /\ item' = item
             /\ pc[h] # "idle" /\ pc'[h] \notin {"idle", "answer", "audit"}
             /\ pc[h] # "answer"
      PROVE  ReplyHonest(h)'
  BY <1>1, <1>4, HonestStays DEF ReplyHonest, TypeInv, TypeOK
<1>5. CASE Validate(h)
  <2>1. pc'[h] = "compare"
    BY <1>5 DEF Validate, TypeInv, TypeOK
  <2>2. QED
    BY <1>4, <1>5, <2>1 DEF Validate, InFlight
<1>6. CASE Compare(h)
  <2>1. pc'[h] = "write" /\ Current(h)' = Current(h) /\ derived' = derived
    BY <1>6 DEF Compare, Current, TypeInv, TypeOK
  <2>2. status'[h] \in Binding => Current(h).ids = derived[Current(h).sys]
    BY <1>6 DEF Compare, TypeInv, TypeOK, Binding
  <2>3. InFlight(h)'
    BY <2>1, <2>2 DEF InFlight
  <2>4. QED
    BY <1>4, <1>6, <2>1, <2>3 DEF Compare
<1>7. CASE Write(h)
  <2>1. /\ pc'[h] = "commit" /\ Current(h)' = Current(h)
        /\ UNCHANGED <<derived, links, status>>
    BY <1>7 DEF Write, Current, TypeInv, TypeOK
  <2>2. Current(h).sys \in System /\ Current(h).ids \subseteq Obligation
    BY <1>7, CurrentType DEF Write, TypeInv
  <2>3. adds'[h] = IF status[h] \in Binding
                   THEN {o \in Current(h).ids : links[Current(h).sys][o] = 0} ELSE {}
    BY <1>7 DEF Write, ToAdd, TypeInv, TypeOK
  <2>4. \A o \in Obligation : links[Current(h).sys][o] \in Nat
    BY <2>2 DEF TypeInv, TypeOK
  <2>5. status[h] \in Binding =>
          Current(h).ids \subseteq adds'[h] \cup Linked[Current(h).sys]
    BY <2>2, <2>3, <2>4 DEF Linked
  <2>6. Linked' = Linked
    BY <2>1 DEF Linked
  <2>7. status[h] \in Binding => Current(h).ids \subseteq derived[Current(h).sys]
    BY <1>1, <1>7 DEF Write, InFlight
  <2>8. InFlight(h)'
    BY <2>1, <2>3, <2>5, <2>6, <2>7 DEF InFlight
  <2>9. QED
    BY <1>4, <1>7, <2>1, <2>8 DEF Write
<1>8. CASE Commit(h)
  <2>1. /\ pc'[h] = "audit" /\ Current(h)' = Current(h) /\ status' = status
        /\ body' = body /\ item' = item /\ reply' = reply /\ pc[h] = "commit"
    BY <1>8 DEF Commit, Current, TypeInv, TypeOK
  <2>2. /\ Current(h) \in Derivation /\ Current(h).sys \in System
        /\ Current(h).ids \subseteq Obligation /\ status[h] \in Status
    BY <2>1, CurrentType DEF TypeInv, TypeOK
  <2>3. results'[Current(h)][status[h]] > 0
    BY <1>8, <2>2 DEF Commit, TypeInv, TypeOK
  <2>4. \A o \in adds[h] \cap Obligation : links'[Current(h).sys][o] > 0
    BY <1>8, <2>2 DEF Commit, TypeInv, TypeOK
  <2>5. status[h] \in Binding => Current(h).ids \subseteq Linked'[Current(h).sys]
    BY <1>1, <2>1, <2>2, <2>4 DEF InFlight, Grows, Linked
  <2>6. Recorded(Current(h), status[h])'
    BY <2>1, <2>3, <2>5 DEF Recorded
  <2>7. \A r \in reply'[h] : Honest(r)'
    BY <1>1, <2>1, HonestStays DEF ReplyHonest, TypeInv, TypeOK
  <2>8. QED
    BY <1>1, <2>1, <2>6, <2>7 DEF ReplyHonest, InFlight
<1>9. CASE Audit(h)
  <2>1. Current(h) \in Derivation /\ status[h] \in Status /\ pc[h] = "audit"
    BY <1>9, CurrentType DEF Audit, TypeInv, TypeOK
  <2>2. Recorded(Current(h), status[h])
    BY <1>1, <2>1 DEF ReplyHonest
  <2>3. audits'[Current(h)][status[h]] > 0
    BY <1>9, <2>1 DEF Audit, TypeInv, TypeOK
  <2>4. results' = results /\ Linked' = Linked
    BY <1>9 DEF Audit, Linked
  <2>5. PICK r : r = [item |-> Current(h), status |-> status[h]]
    OBVIOUS
  <2>6. Honest(r)'
    BY <2>2, <2>3, <2>4, <2>5 DEF Honest, Recorded
  <2>7. QED
    BY <1>1, <1>9, <2>1, <2>5, <2>6, ItemDoneHonest DEF Audit
<1>10. CASE Answer(h) \/ Tell(h) \/ StatementFails(h)
  <2>1. pc'[h] = "idle" /\ reply'[h] = {}
    BY <1>10 DEF Answer, Tell, StatementFails, Dismiss, TypeInv, TypeOK
  <2>2. QED
    BY <2>1 DEF InFlight, ReplyHonest
<1>11. CASE DeriveOnDemand(h)
  <2>1. PICK s \in nodes : body' = [body EXCEPT ![h] = <<[sys |-> s, ids |-> derived[s]]>>]
    BY <1>11 DEF DeriveOnDemand
  <2>2. /\ pc'[h] = "write" /\ item'[h] = 1 /\ item[h] = 1 /\ reply'[h] = reply[h]
        /\ body'[h] = <<[sys |-> s, ids |-> derived[s]]>> /\ derived' = derived
    BY <1>11, <2>1 DEF DeriveOnDemand, TypeInv, TypeOK, IdleAtStart
  <2>3. Current(h)' = [sys |-> s, ids |-> derived[s]]
    BY <2>2 DEF Current
  <2>4. InFlight(h)'
    BY <2>2, <2>3 DEF InFlight
  <2>5. \A r \in reply'[h] : Honest(r)'
    BY <1>1, <2>2, HonestStays DEF ReplyHonest, TypeInv, TypeOK
  <2>6. \A i \in 1 .. Len(body'[h]) : ~(i < item'[h])
    BY <2>2
  <2>7. QED
    BY <2>2, <2>4, <2>5, <2>6 DEF ReplyHonest
<1>12. QED
  BY <1>2, <1>3, <1>5, <1>6, <1>7, <1>8, <1>9, <1>10, <1>11 DEF HandlerStep

\* One step keeps the invariant.
LEMMA CoreInvStep == TypeInv /\ CoreInv /\ [Next]_vars => CoreInv'
<1> SUFFICES ASSUME TypeInv, CoreInv, [Next]_vars PROVE CoreInv'
  OBVIOUS
<1>1. Grows
  BY GrowsStep
<1>2. ASSUME UNCHANGED <<pc, body, item, status, adds, reply>>
      PROVE  \A h \in Handler : InFlight(h)' /\ ReplyHonest(h)'
  BY <1>1, <1>2, OthersKeep DEF CoreInv
<1>3. ASSUME UNCHANGED answers PROVE AnswersHonest'
  <2>1. \A b \in Body : answers[b] \subseteq Reply
    BY DEF TypeInv, TypeOK
  <2>2. QED
    BY <1>1, <1>3, <2>1, HonestStays DEF CoreInv, AnswersHonest
<1>4. \A r \in told : Honest(r)'
  BY <1>1, HonestStays DEF CoreInv, TypeInv, TypeOK
<1>5. CASE StructurePush \/ UNCHANGED vars
  <2>1. UNCHANGED <<pc, body, item, status, adds, reply, answers, told>>
    BY <1>5 DEF StructurePush, vars, thread, client
  <2>2. QED
    BY <1>2, <1>3, <1>4, <2>1 DEF CoreInv
<1>6. ASSUME NEW h \in Handler, HandlerStep(h) PROVE CoreInv'
  <2>1. \A k \in Handler : InFlight(k)' /\ ReplyHonest(k)'
    <3> TAKE k \in Handler
    <3>1. CASE k = h
      BY <1>1, <1>6, <3>1, OwnKept
    <3>2. CASE k # h
      BY <1>1, <1>6, <3>2, OwnStep, OthersKeep DEF Own, CoreInv
    <3>3. QED
      BY <3>1, <3>2
  <2>2. CASE Answer(h) /\ answers' # answers
    <3>1. /\ answers' = [answers EXCEPT ![body[h]] = reply[h]]
          /\ pc[h] = "answer"
      BY <2>2 DEF Answer
    <3>2. body[h] \in Body /\ reply[h] \subseteq Reply /\ told' = told
      BY <2>2 DEF Answer, TypeInv, TypeOK, RouteKnown
    <3>3. \A r \in reply[h] : Honest(r)'
      BY <1>1, <3>2, HonestStays DEF CoreInv, ReplyHonest
    <3>4. \A i \in 1 .. Len(body[h]) : \E r \in reply[h] : r.item = body[h][i]
      BY <3>1 DEF CoreInv, ReplyHonest
    <3>5. \A b \in Body : answers[b] \subseteq Reply /\ b \in DOMAIN answers
      BY DEF TypeInv, TypeOK
    <3>6. \A b \in Body : \A r \in answers[b] : answers[b] # {} => Honest(r)'
      BY <1>1, <3>5, HonestStays DEF CoreInv, AnswersHonest
    <3>7. ASSUME NEW b \in Body, answers'[b] # {}
          PROVE  /\ \A i \in 1 .. Len(b) : \E r \in answers'[b] : r.item = b[i]
                 /\ \A r \in answers'[b] : Honest(r)'
      <4>1. CASE b = body[h]
        BY <3>1, <3>3, <3>4, <3>5, <4>1
      <4>2. CASE b # body[h]
        <5>1. answers'[b] = answers[b]
          BY <3>1, <3>5, <4>2
        <5>2. QED
          BY <3>6, <3>7, <5>1 DEF CoreInv, AnswersHonest
      <4>3. QED
        BY <4>1, <4>2
    <3>8. QED
      BY <1>4, <2>1, <3>2, <3>7 DEF CoreInv, AnswersHonest
  <2>3. CASE answers' = answers /\ told' = told
    BY <1>3, <1>4, <2>1, <2>3 DEF CoreInv
  <2>4. CASE Tell(h)
    <3>1. told' = told \cup reply[h] /\ reply[h] \subseteq Reply /\ answers' = answers
      BY <2>4 DEF Tell, TypeInv, TypeOK
    <3>2. \A r \in reply[h] : Honest(r)'
      BY <1>1, <3>1, HonestStays DEF CoreInv, ReplyHonest
    <3>3. QED
      BY <1>3, <1>4, <2>1, <3>1, <3>2 DEF CoreInv
  <2>5. QED
    BY <1>6, <2>2, <2>3, <2>4 DEF HandlerStep, Receive, Reject, Validate, Compare, Write,
       Commit, Audit, Answer, DeriveOnDemand, StatementFails, client
<1>7. CASE Restart
  <2>1. \A h \in Handler : pc'[h] = "idle" /\ reply'[h] = {}
    BY <1>7 DEF Restart
  <2>2. \A h \in Handler : InFlight(h)' /\ ReplyHonest(h)'
    BY <2>1 DEF InFlight, ReplyHonest
  <2>3. QED
    BY <1>3, <1>7, <1>4, <2>2 DEF Restart, CoreInv, client
<1>8. QED
  BY <1>5, <1>6, <1>7 DEF Next

\* Nothing is known, in flight or answered initially.
LEMMA InitCore == Init => CoreInv
BY DEF Init, CoreInv, InFlight, ReplyHonest, AnswersHonest

\* The invariant the theorems below follow from.
LEMMA CoreInvariant == Spec => [](TypeInv /\ CoreInv)
<1>1. TypeInv /\ CoreInv /\ [Next]_vars => (TypeInv /\ CoreInv)'
  BY TypeStep, CoreInvStep
<1>2. QED
  BY <1>1, InitType, InitCore, PTL DEF Spec

\* Whatever core reports as recorded is recorded, audited and, if validated,
\* linked, and stays so; an answer leaves out no item of its batch.
THEOREM AnswersTrue == Spec => []AnswersAreTrue
<1>1. CoreInv => AnswersAreTrue
  BY DEF CoreInv, AnswersHonest, AnswersAreTrue, IsSo, Honest, Recorded
<1>2. QED
  BY <1>1, CoreInvariant, PTL

(***************************************************************************)
(* Every result that was not flagged has its links.                         *)
(***************************************************************************)
RowsLinked == \A d \in Derivation, st \in Status : results[d][st] > 0 => Recorded(d, st)

\* One step keeps it: what it adds was in flight, with its links.
LEMMA RowsStep == TypeInv /\ CoreInv /\ RowsLinked /\ [Next]_vars => RowsLinked'
<1> SUFFICES ASSUME TypeInv, CoreInv, RowsLinked, [Next]_vars PROVE RowsLinked'
  OBVIOUS
<1>1. Grows
  BY GrowsStep
<1>2. CASE results' = results
  BY <1>1, <1>2, HonestStays DEF RowsLinked
<1>3. ASSUME NEW h \in Handler, Commit(h) PROVE RowsLinked'
  <2>1. /\ Current(h) \in Derivation /\ status[h] \in Status
        /\ pc'[h] = "audit" /\ Current(h)' = Current(h) /\ status' = status
        /\ results' = [results EXCEPT ![Current(h)][status[h]] = @ + 1]
    BY <1>3, CurrentType DEF Commit, Current, TypeInv, TypeOK
  <2>2. Recorded(Current(h), status[h])'
    BY <1>1, <1>3, <2>1, OwnKept DEF ReplyHonest, HandlerStep
  <2>3. \A d \in Derivation, st \in Status :
          results'[d][st] = results[d][st] \/ (d = Current(h) /\ st = status[h])
    BY <2>1 DEF TypeInv, TypeOK
  <2>4. ASSUME NEW d \in Derivation, NEW st \in Status, results'[d][st] > 0
        PROVE  Recorded(d, st)'
    <3>1. CASE d = Current(h) /\ st = status[h]
      <4>1. Recorded(d, st)' <=> Recorded(Current(h), status[h])'
        BY <2>1, <3>1 DEF Recorded
      <4>2. QED
        BY <2>2, <4>1
    <3>2. CASE results'[d][st] = results[d][st]
      BY <1>1, <2>4, <3>2, HonestStays DEF RowsLinked
    <3>3. QED
      BY <2>3, <3>1, <3>2
  <2>5. QED
    BY <2>4 DEF RowsLinked
<1>4. QED
  BY <1>2, <1>3 DEF Next, HandlerStep, Receive, Reject, Validate, Compare, Write, Audit,
     Answer, DeriveOnDemand, Tell, StatementFails, Restart, StructurePush, vars, tables

\* Whichever result is the latest of its system, a gap that core reports from
\* one it confirmed or made itself is open: no control derived with it fills it.
THEOREM GapsOpen == Spec => []GapsAreOpen
<1>1. Init => RowsLinked
  BY DEF Init, RowsLinked
<1>2. TypeInv /\ RowsLinked => GapsAreOpen
  <2> SUFFICES ASSUME RowsLinked, NEW d \in Derivation, NEW st \in Binding,
                      results[d][st] > 0, NEW o \in Gaps(d)
               PROVE  Requires[o] \cap d.ids = {}
    BY DEF GapsAreOpen
  <2>1. d.ids \subseteq Linked[d.sys]
    BY DEF RowsLinked, Recorded, Binding, Status
  <2>2. QED
    BY <2>1 DEF Gaps
<1>3. QED
  BY <1>1, <1>2, RowsStep, CoreInvariant, PTL DEF Spec

(***************************************************************************)
(* Core's ingest implements DerivationLedger: a commit is Confirmed or      *)
(* Flagged, a structure push is Learn, every other step is a stutter.       *)
(***************************************************************************)
\* Every step is a step of the ledger or leaves it alone.
LEMMA LedgerStep ==
  TypeInv /\ CoreInv /\ [Next]_vars => [Ledger!LNext]_(Ledger!ledgerVars)
<1> SUFFICES ASSUME TypeInv, CoreInv, [Next]_vars
             PROVE  Ledger!LNext \/ UNCHANGED Ledger!ledgerVars
  OBVIOUS
<1>1. CASE UNCHANGED <<derived, results, links>>
  BY <1>1 DEF Ledger!ledgerVars, Linked
<1>2. CASE StructurePush
  <2>1. UNCHANGED <<results, links>>
    BY <1>2 DEF StructurePush, tables
  <2>2. derived' \in [System -> SUBSET Obligation]
    BY <1>2 DEF StructurePush
  <2>3. \A s \in System : derived[s] \subseteq derived'[s]
    BY <1>2 DEF StructurePush
  <2>4. Ledger!Learn
    BY <2>1, <2>2, <2>3 DEF Ledger!Learn, Linked
  <2>5. QED
    BY <2>4 DEF Ledger!LNext
<1>3. ASSUME NEW h \in Handler, Commit(h) PROVE Ledger!LNext
  <2> DEFINE d == Current(h)
  <2>1. d \in Derivation /\ d.sys \in System /\ d.ids \subseteq Obligation
    BY <1>3, CurrentType DEF Commit, TypeInv
  <2>2. status[h] \in Binding \/ status[h] = "flagged_mismatch"
    BY DEF TypeInv, TypeOK, Status, Binding
  <2>3. /\ results' = [results EXCEPT ![d][status[h]] = @ + 1]
        /\ links' = [links EXCEPT ![d.sys] =
              [o \in Obligation |-> IF o \in adds[h] THEN @[o] + 1 ELSE @[o]]]
        /\ pc[h] = "commit" /\ derived' = derived
    BY <1>3 DEF Commit, graphOf
  <2>4. \A s \in System, o \in Obligation : links[s][o] \in Nat
    BY DEF TypeInv, TypeOK
  <2>5. DOMAIN links = System /\ \A s \in System : DOMAIN links[s] = Obligation
    BY DEF TypeInv, TypeOK
  <2>6. \A o \in Obligation :
          links'[d.sys][o] = IF o \in adds[h] THEN links[d.sys][o] + 1
                                              ELSE links[d.sys][o]
    BY <2>1, <2>3, <2>5
  <2>7. \A s \in System : s # d.sys => links'[s] = links[s]
    BY <2>1, <2>3, <2>5
  <2>8. Linked'[d.sys] = Linked[d.sys] \cup (adds[h] \cap Obligation)
    BY <2>1, <2>4, <2>6 DEF Linked
  <2>9. \A s \in System : s # d.sys => Linked'[s] = Linked[s]
    BY <2>7 DEF Linked
  <2>10. Linked' = [Linked EXCEPT ![d.sys] = @ \cup (adds[h] \cap Obligation)]
    BY <2>1, <2>8, <2>9 DEF Linked
  <2>11. CASE status[h] \in Binding
    <3>1. /\ d.ids \subseteq derived[d.sys]
          /\ adds[h] \subseteq d.ids /\ d.ids \subseteq adds[h] \cup Linked[d.sys]
      BY <2>3, <2>11 DEF CoreInv, InFlight
    <3>2. Linked[d.sys] \cup (adds[h] \cap Obligation) = Linked[d.sys] \cup d.ids
      BY <2>1, <3>1
    <3>3. Linked' = [Linked EXCEPT ![d.sys] = @ \cup d.ids]
      BY <2>1, <2>10, <3>2 DEF Linked
    <3>4. Ledger!Confirmed(d)
      BY <2>3, <2>11, <3>1, <3>3 DEF Ledger!Confirmed, Ledger!Record, Binding
    <3>5. QED
      BY <2>1, <3>4 DEF Ledger!LNext
  <2>12. CASE status[h] = "flagged_mismatch"
    <3>1. adds[h] = {}
      BY <2>3, <2>12 DEF CoreInv, InFlight, Binding
    <3>2. Linked' = Linked
      BY <2>1, <2>10, <3>1 DEF Linked
    <3>3. Ledger!Flagged(d)
      BY <2>3, <2>12, <3>2 DEF Ledger!Flagged, Ledger!Record
    <3>4. QED
      BY <2>1, <3>3 DEF Ledger!LNext
  <2>13. QED
    BY <2>2, <2>11, <2>12
<1>4. QED
  BY <1>1, <1>2, <1>3 DEF Next, HandlerStep, Receive, Reject, Validate, Compare,
     Write, Audit, Answer, DeriveOnDemand, Tell, StatementFails, Restart, vars, graphOf, tables

\* Core decides, and in one step: interleavings, failures and restarts can
\* neither link what core's graph does not derive nor split a result from its links.
THEOREM ImplementsLedger == Spec => LedgerSpec
<1>1. Init => Ledger!LInit
  BY DEF Init, Ledger!LInit, Linked, Status, Ledger!Status
<1>2. QED
  BY <1>1, LedgerStep, CoreInvariant, PTL DEF Spec, LedgerSpec, Ledger!LSpec

(***************************************************************************)
(* What the ledger keeps, core's tables keep: shown of the ledger's steps,  *)
(* which every step of core is.                                             *)
(***************************************************************************)
\* Recording d with a status makes it bound if the status binds.
LEMMA RecordBinds ==
  ASSUME TypeInv, NEW d \in Derivation, NEW st \in Status, Ledger!Record(d, st)
  PROVE  \A c \in Derivation :
           Ledger!Bound(c)' <=> Ledger!Bound(c) \/ (c = d /\ st \in Binding)
<1> TAKE c \in Derivation
<1>1. results' = [results EXCEPT ![d][st] = @ + 1]
  BY DEF Ledger!Record
<1>2. \A u \in Status :
        /\ results[c][u] \in Nat
        /\ results'[c][u] = IF c = d /\ u = st THEN results[c][u] + 1 ELSE results[c][u]
  BY <1>1 DEF TypeInv, TypeOK
<1>3. QED
  BY <1>2 DEF Ledger!Bound, Status, Binding

\* A step of the ledger keeps links and results matched.
LEMMA MatchStep ==
  TypeInv /\ LinksMatchResults /\ [Ledger!LNext]_(Ledger!ledgerVars) => LinksMatchResults'
<1> SUFFICES ASSUME TypeInv, LinksMatchResults, [Ledger!LNext]_(Ledger!ledgerVars)
             PROVE  LinksMatchResults'
  OBVIOUS
<1> USE DEF LinksMatchResults, Ledger!LinksMatchLedger
<1>1. CASE UNCHANGED Ledger!ledgerVars
  BY <1>1 DEF Ledger!ledgerVars, Ledger!Bound
<1>2. CASE Ledger!Learn
  BY <1>2 DEF Ledger!Learn, Ledger!Bound
<1>3. ASSUME NEW d \in Derivation, Ledger!Flagged(d) PROVE LinksMatchResults'
  <2>1. Ledger!Record(d, "flagged_mismatch") /\ UNCHANGED <<derived, Linked>>
    BY <1>3 DEF Ledger!Flagged
  <2>2. \A c \in Derivation : Ledger!Bound(c)' <=> Ledger!Bound(c)
    BY <2>1, RecordBinds DEF Status, Binding
  <2>3. QED
    BY <2>1, <2>2
<1>4. ASSUME NEW d \in Derivation, Ledger!Confirmed(d) PROVE LinksMatchResults'
  <2>1. /\ d.ids \subseteq derived[d.sys] /\ derived' = derived
        /\ Linked' = [Linked EXCEPT ![d.sys] = @ \cup d.ids]
    BY <1>4 DEF Ledger!Confirmed
  <2>2. \A c \in Derivation : Ledger!Bound(c)' <=> Ledger!Bound(c) \/ c = d
    BY <1>4, RecordBinds DEF Ledger!Confirmed, Status, Binding
  <2>3. d.sys \in System /\ DOMAIN Linked = System
    BY DEF Derivation, Linked
  <2>4. /\ Linked'[d.sys] = Linked[d.sys] \cup d.ids
        /\ \A s \in System : s # d.sys => Linked'[s] = Linked[s]
    BY <2>1, <2>3
  <2>5. ASSUME NEW c \in Derivation, Ledger!Bound(c)' PROVE c.ids \subseteq Linked'[c.sys]
    <3>1. c.sys \in System
      BY DEF Derivation
    <3>2. c = d \/ c.ids \subseteq Linked[c.sys]
      BY <2>2, <2>5
    <3>3. QED
      BY <2>4, <3>1, <3>2
  <2>6. ASSUME NEW s \in System, NEW o \in Linked'[s]
        PROVE  /\ o \in derived[s]
               /\ \E c \in Derivation : c.sys = s /\ o \in c.ids /\ Ledger!Bound(c)'
    <3>1. CASE o \in Linked[s]
      BY <2>2, <3>1
    <3>2. CASE o \notin Linked[s]
      <4>1. s = d.sys /\ o \in d.ids
        BY <2>4, <2>6, <3>2
      <4>2. QED
        BY <2>1, <2>2, <4>1
    <3>3. QED
      BY <3>1, <3>2
  <2>7. QED
    BY <2>1, <2>5, <2>6
<1>5. QED
  BY <1>1, <1>2, <1>3, <1>4 DEF Ledger!LNext

\* However handlers, pushes, failures and restarts interleave, each link is
\* accounted for by a result that binds, each such result has its links, and none
\* is beyond what core's graph derives.
THEOREM LinksAccountedFor == Spec => []LinksMatchResults
<1>1. Init => LinksMatchResults
  BY DEF Init, LinksMatchResults, Ledger!LinksMatchLedger, Ledger!Bound, Linked, Status
<1>2. QED
  BY <1>1, LedgerStep, MatchStep, CoreInvariant, PTL DEF Spec

(***************************************************************************)
(* Duplicate links are few: the rows of a link and the threads about to     *)
(* commit another.  One that finds no row joins threads only, and one that  *)
(* commits leaves them.                                                     *)
(***************************************************************************)
ToLink(s, o) ==
  {h \in Handler : pc[h] = "commit" /\ o \in adds[h] /\ Current(h).sys = s}

LinkInv ==
  \A s \in System, o \in Obligation :
    links[s][o] + Cardinality(ToLink(s, o)) <= Cardinality(Handler)

\* There are no more of them than handlers.
LEMMA ToLinkFinite ==
  ASSUME NEW s, NEW o
  PROVE  /\ IsFiniteSet(ToLink(s, o)) /\ Cardinality(ToLink(s, o)) \in Nat
         /\ Cardinality(ToLink(s, o)) <= Cardinality(Handler)
         /\ Cardinality(Handler) \in Nat
BY HandlerAssumption, FS_Subset, FS_CardinalityType DEF ToLink

LEMMA ToLinkFiniteNext ==
  ASSUME NEW s, NEW o
  PROVE  /\ IsFiniteSet(ToLink(s, o)') /\ Cardinality(ToLink(s, o)') \in Nat
         /\ Cardinality(ToLink(s, o)') <= Cardinality(Handler)
BY HandlerAssumption, FS_Subset, FS_CardinalityType DEF ToLink

\* Nobody comes to the commit and the links are left alone.
LEMMA FewerToLink ==
  ASSUME TypeInv, NEW s \in System, NEW o \in Obligation,
         links[s][o] + Cardinality(ToLink(s, o)) <= Cardinality(Handler),
         links'[s][o] = links[s][o], ToLink(s, o)' \subseteq ToLink(s, o)
  PROVE  links'[s][o] + Cardinality(ToLink(s, o)') <= Cardinality(Handler)
<1>1. Cardinality(ToLink(s, o)') <= Cardinality(ToLink(s, o))
  BY ToLinkFinite, FS_Subset
<1>2. links[s][o] \in Nat
  BY DEF TypeInv, TypeOK
<1>3. QED
  BY <1>1, <1>2, ToLinkFinite, ToLinkFiniteNext

\* One step keeps the count.
LEMMA LinkStep == TypeInv /\ LinkInv /\ [Next]_vars => LinkInv'
<1> SUFFICES ASSUME TypeInv, LinkInv, [Next]_vars,
                    NEW s \in System, NEW o \in Obligation
             PROVE  links'[s][o] + Cardinality(ToLink(s, o)') <= Cardinality(Handler)
  BY DEF LinkInv
<1>i. links[s][o] + Cardinality(ToLink(s, o)) <= Cardinality(Handler)
  BY DEF LinkInv
<1>1. CASE StructurePush \/ Restart \/ UNCHANGED vars
  <2>1. links' = links
    BY <1>1 DEF StructurePush, Restart, vars, tables
  <2>2. ToLink(s, o)' \subseteq ToLink(s, o)
    BY <1>1 DEF StructurePush, Restart, vars, thread, ToLink, Current
  <2>3. QED
    BY <1>i, <2>1, <2>2, FewerToLink
<1>2. ASSUME NEW h \in Handler, HandlerStep(h), ~Commit(h), ~Write(h)
      PROVE  links'[s][o] + Cardinality(ToLink(s, o)') <= Cardinality(Handler)
  <2>1. Own(h)
    BY <1>2, OwnStep
  <2>2. pc'[h] # "commit"
    BY <1>2 DEF HandlerStep, Receive, Reject, ItemDone, Validate, Compare, Audit,
       Answer, DeriveOnDemand, Tell, StatementFails, Dismiss, TypeInv, TypeOK
  <2>3. links' = links
    BY <1>2 DEF HandlerStep, Receive, Reject, Validate, Compare, Audit, Answer,
       DeriveOnDemand, Tell, StatementFails, tables
  <2>4. ToLink(s, o)' \subseteq ToLink(s, o)
    BY <2>1, <2>2 DEF Own, ToLink, Current
  <2>5. QED
    BY <1>i, <2>3, <2>4, FewerToLink
<1>3. ASSUME NEW h \in Handler, Write(h)
      PROVE  links'[s][o] + Cardinality(ToLink(s, o)') <= Cardinality(Handler)
  <2>1. Own(h)
    BY <1>3, OwnStep DEF HandlerStep
  <2>2. /\ links' = links /\ Current(h)' = Current(h)
        /\ adds'[h] \subseteq ToAdd(h)
    BY <1>3 DEF Write, tables, Current, TypeInv, TypeOK
  <2>3. CASE h \in ToLink(s, o)'
    <3>1. links[s][o] = 0
      BY <2>2, <2>3 DEF ToLink, ToAdd
    <3>2. QED
      BY <2>2, <3>1, ToLinkFinite, ToLinkFiniteNext
  <2>4. CASE h \notin ToLink(s, o)'
    <3>1. ToLink(s, o)' \subseteq ToLink(s, o)
      BY <2>1, <2>4 DEF Own, ToLink, Current
    <3>2. QED
      BY <1>i, <2>2, <3>1, FewerToLink
  <2>5. QED
    BY <2>3, <2>4
<1>4. ASSUME NEW h \in Handler, Commit(h)
      PROVE  links'[s][o] + Cardinality(ToLink(s, o)') <= Cardinality(Handler)
  <2>1. Own(h)
    BY <1>4, OwnStep DEF HandlerStep
  <2>2. /\ pc[h] = "commit" /\ pc'[h] = "audit" /\ Current(h).sys \in System
    BY <1>4, CurrentType DEF Commit, TypeInv, TypeOK
  <2>3. ToLink(s, o)' = ToLink(s, o) \ {h}
    BY <2>1, <2>2 DEF Own, ToLink, Current
  <2>4. links[s][o] \in Nat
    BY DEF TypeInv, TypeOK
  <2>5. CASE h \in ToLink(s, o)
    <3>1. Cardinality(ToLink(s, o)') = Cardinality(ToLink(s, o)) - 1
      BY <2>3, <2>5, ToLinkFinite, FS_RemoveElement
    <3>2. links'[s][o] = links[s][o] + 1
      BY <1>4, <2>5 DEF Commit, ToLink, TypeInv, TypeOK
    <3>3. QED
      BY <1>i, <2>4, <3>1, <3>2, ToLinkFinite
  <2>6. CASE h \notin ToLink(s, o)
    <3>1. ToLink(s, o)' \subseteq ToLink(s, o)
      BY <2>3
    <3>2. s # Current(h).sys \/ o \notin adds[h]
      BY <2>2, <2>6 DEF ToLink
    <3>3. links'[s][o] = links[s][o]
      BY <1>4, <2>2, <3>2 DEF Commit, TypeInv, TypeOK
    <3>4. QED
      BY <1>i, <3>1, <3>3, FewerToLink
  <2>7. QED
    BY <2>5, <2>6
<1>5. QED
  BY <1>1, <1>2, <1>3, <1>4 DEF Next

\* However often a derivation is posted or asked for, and however handlers
\* overlap, a link has at most one row for each handler.
THEOREM LinkRowsFew == Spec => []LinkRowsAreFew
<1>1. Init => LinkInv
  <2> SUFFICES ASSUME Init, NEW s \in System, NEW o \in Obligation
               PROVE  links[s][o] + Cardinality(ToLink(s, o)) <= Cardinality(Handler)
    BY DEF LinkInv
  <2>1. ToLink(s, o) = {} /\ links[s][o] = 0
    BY DEF Init, ToLink
  <2>2. QED
    BY <2>1, FS_EmptySet, ToLinkFinite
<1>2. TypeInv /\ LinkInv => LinkRowsAreFew
  <2> SUFFICES ASSUME TypeInv, LinkInv, NEW s \in System, NEW o \in Obligation
               PROVE  links[s][o] <= Cardinality(Handler)
    BY DEF LinkRowsAreFew
  <2>1. links[s][o] \in Nat /\ links[s][o] + Cardinality(ToLink(s, o)) <= Cardinality(Handler)
    BY DEF LinkInv, TypeInv, TypeOK
  <2>2. QED
    BY <2>1, ToLinkFinite
<1>3. QED
  BY <1>1, <1>2, InitType, TypeStep, LinkStep, PTL DEF Spec

(***************************************************************************)
(* Results and audit entries.  AuditsMatchResults is inductive: a commit    *)
(* makes a result and its handler owe the entry, the audit step pays, and   *)
(* only a failure can end a handler that owes.                              *)
(***************************************************************************)

\* Cardinalities below are numbers, and no more entries are owed than there are
\* handlers.
LEMMA ToAuditFinite ==
  ASSUME NEW d, NEW st
  PROVE  /\ IsFiniteSet(ToAudit(d, st))
         /\ Cardinality(ToAudit(d, st)) \in Nat
         /\ Cardinality(Handler) \in Nat
         /\ Cardinality(ToAudit(d, st)) <= Cardinality(Handler)
BY HandlerAssumption, FS_Subset, FS_CardinalityType DEF ToAudit

\* What failures may have cost is a number, and one more may cost an entry for
\* each handler.
LEMMA CostOfFailures ==
  ASSUME TypeInv
  PROVE  /\ failures * Cardinality(Handler) \in Nat
         /\ (failures + 1) * Cardinality(Handler)
              = failures * Cardinality(Handler) + Cardinality(Handler)
<1>1. failures \in Nat /\ Cardinality(Handler) \in Nat
  BY HandlerAssumption, FS_CardinalityType DEF TypeInv, TypeOK
<1>2. ASSUME NEW f \in Nat, NEW n \in Nat
      PROVE  f * n \in Nat /\ (f + 1) * n = f * n + n
  OBVIOUS
<1>3. QED
  BY <1>1, <1>2

\* No handler comes to the audit step, the tables are left alone, and none
\* leaves that step but in a failure.
LEMMA FewerToAudit ==
  ASSUME TypeInv, AuditsMatchResults, UNCHANGED <<results, audits>>,
         \A k \in Handler : pc'[k] = "audit" =>
           pc[k] = "audit" /\ body'[k] = body[k] /\ item'[k] = item[k]
                          /\ status'[k] = status[k],
         \/ failures' = failures + 1
         \/ failures' = failures /\ \A k \in Handler : pc[k] = "audit" => pc'[k] = "audit"
  PROVE  AuditsMatchResults'
<1> DEFINE n == Cardinality(Handler)
<1> SUFFICES ASSUME NEW d \in Derivation, NEW st \in Status
             PROVE  LET owned == audits[d][st] + Cardinality(ToAudit(d, st)')
                    IN  owned <= results[d][st]
                        /\ results[d][st] <= owned + failures' * n
  BY DEF AuditsMatchResults
<1>1. /\ audits[d][st] \in Nat /\ results[d][st] \in Nat
      /\ Cardinality(ToAudit(d, st)) \in Nat /\ n \in Nat
      /\ Cardinality(ToAudit(d, st)) <= n
  BY ToAuditFinite DEF TypeInv, TypeOK
<1>2. /\ audits[d][st] + Cardinality(ToAudit(d, st)) <= results[d][st]
      /\ results[d][st]
           <= audits[d][st] + Cardinality(ToAudit(d, st)) + failures * n
  BY DEF AuditsMatchResults
<1>3. CASE failures' = failures + 1
  <2>1. ToAudit(d, st)' \subseteq ToAudit(d, st)
    BY DEF ToAudit, Current
  <2>2. /\ Cardinality(ToAudit(d, st)') <= Cardinality(ToAudit(d, st))
        /\ Cardinality(ToAudit(d, st)') \in Nat
    BY <2>1, ToAuditFinite, FS_Subset, FS_CardinalityType
  <2>3. failures' * n = failures * n + n /\ failures * n \in Nat
    BY <1>3, CostOfFailures
  <2> HIDE DEF n
  <2>4. QED
    BY <1>1, <1>2, <2>2, <2>3
<1>4. CASE failures' = failures /\ \A k \in Handler : pc[k] = "audit" => pc'[k] = "audit"
  <2>1. ToAudit(d, st)' = ToAudit(d, st)
    BY <1>4 DEF ToAudit, Current
  <2>2. QED
    BY <1>2, <1>4, <2>1
<1>5. QED
  BY <1>3, <1>4

\* One step keeps the count.
LEMMA AuditStep ==
  TypeInv /\ AuditsMatchResults /\ [Next]_vars => AuditsMatchResults'
<1> SUFFICES ASSUME TypeInv, AuditsMatchResults, [Next]_vars PROVE AuditsMatchResults'
  OBVIOUS
<1>1. CASE StructurePush \/ Restart \/ UNCHANGED vars
  <2>1. UNCHANGED <<results, audits>>
    BY <1>1 DEF StructurePush, Restart, vars, tables
  <2>2. \A k \in Handler : pc'[k] = "audit" =>
          pc[k] = "audit" /\ body'[k] = body[k] /\ item'[k] = item[k]
                         /\ status'[k] = status[k]
    BY <1>1 DEF StructurePush, Restart, vars, thread
  <2>3. \/ failures' = failures + 1
        \/ failures' = failures /\ pc' = pc
    BY <1>1 DEF StructurePush, Restart, vars, thread
  <2>4. QED
    BY <2>1, <2>2, <2>3, FewerToAudit
<1>2. ASSUME NEW h \in Handler, HandlerStep(h), ~Commit(h), ~Audit(h) PROVE AuditsMatchResults'
  <2>1. Own(h)
    BY <1>2, OwnStep
  <2>2. pc'[h] # "audit"
    BY <1>2 DEF HandlerStep, Receive, Reject, ItemDone, Validate, Compare, Write,
       Answer, DeriveOnDemand, Tell, StatementFails, Dismiss, TypeInv, TypeOK
  <2>3. UNCHANGED <<results, audits>>
    BY <1>2 DEF HandlerStep, Receive, Reject, Validate, Compare, Write, Answer,
       DeriveOnDemand, Tell, StatementFails, tables
  <2>4. \/ failures' = failures + 1
        \/ failures' = failures /\ pc[h] # "audit"
    BY <1>2 DEF HandlerStep, Receive, Reject, Validate, Compare, Write, Answer,
       DeriveOnDemand, Tell, StatementFails
  <2>5. QED
    BY <2>1, <2>2, <2>3, <2>4, FewerToAudit DEF Own
<1>3. ASSUME NEW h \in Handler, Commit(h) PROVE AuditsMatchResults'
  <2>1. Own(h)
    BY <1>3, OwnStep DEF HandlerStep
  <2>2. /\ pc[h] = "commit" /\ pc'[h] = "audit" /\ Current(h)' = Current(h)
        /\ status' = status /\ audits' = audits /\ failures' = failures
    BY <1>3 DEF Commit, Current, TypeInv, TypeOK
  <2>3. Current(h) \in Derivation /\ status[h] \in Status
    BY <2>2, CurrentType DEF TypeInv, TypeOK
  <2> DEFINE lost == failures * Cardinality(Handler)
  <2> SUFFICES ASSUME NEW d \in Derivation, NEW st \in Status
               PROVE  LET owned == audits[d][st] + Cardinality(ToAudit(d, st)')
                      IN  /\ owned <= results'[d][st]
                          /\ results'[d][st] <= owned + lost
    BY <2>2 DEF AuditsMatchResults
  <2>4. audits[d][st] \in Nat /\ results[d][st] \in Nat /\ lost \in Nat
    BY CostOfFailures DEF TypeInv, TypeOK
  <2>5. /\ audits[d][st] + Cardinality(ToAudit(d, st)) <= results[d][st]
        /\ results[d][st] <= audits[d][st] + Cardinality(ToAudit(d, st)) + lost
    BY DEF AuditsMatchResults
  <2> HIDE DEF lost
  <2>6. \A k \in Handler \ {h} : k \in ToAudit(d, st)' <=> k \in ToAudit(d, st)
    BY <2>1 DEF Own, ToAudit, Current
  <2>7. h \notin ToAudit(d, st)
    BY <2>2 DEF ToAudit
  <2>8. CASE d = Current(h) /\ st = status[h]
    <3>1. ToAudit(d, st)' = ToAudit(d, st) \cup {h}
      BY <2>2, <2>6, <2>8 DEF ToAudit
    <3>2. Cardinality(ToAudit(d, st)') = Cardinality(ToAudit(d, st)) + 1
      BY <2>7, <3>1, ToAuditFinite, FS_AddElement
    <3>3. results'[d][st] = results[d][st] + 1
      BY <1>3, <2>3, <2>8 DEF Commit, TypeInv, TypeOK
    <3>4. QED
      BY <2>4, <2>5, <3>2, <3>3, ToAuditFinite
  <2>9. CASE ~(d = Current(h) /\ st = status[h])
    <3>1. h \notin ToAudit(d, st)'
      BY <2>2, <2>9 DEF ToAudit
    <3>2. ToAudit(d, st)' = ToAudit(d, st)
      BY <2>6, <2>7, <3>1 DEF ToAudit
    <3>3. results'[d][st] = results[d][st]
      BY <1>3, <2>3, <2>9 DEF Commit, TypeInv, TypeOK
    <3>4. QED
      BY <2>5, <3>2, <3>3
  <2>10. QED
    BY <2>8, <2>9
<1>4. ASSUME NEW h \in Handler, Audit(h) PROVE AuditsMatchResults'
  <2>1. Own(h)
    BY <1>4, OwnStep DEF HandlerStep
  <2>2. /\ pc[h] = "audit" /\ pc'[h] # "audit" /\ results' = results
        /\ failures' = failures
    BY <1>4 DEF Audit, ItemDone, TypeInv, TypeOK
  <2>3. Current(h) \in Derivation /\ status[h] \in Status
    BY <2>2, CurrentType DEF TypeInv, TypeOK
  <2> DEFINE lost == failures * Cardinality(Handler)
  <2> SUFFICES ASSUME NEW d \in Derivation, NEW st \in Status
               PROVE  LET owned == audits'[d][st] + Cardinality(ToAudit(d, st)')
                      IN  /\ owned <= results[d][st]
                          /\ results[d][st] <= owned + lost
    BY <2>2 DEF AuditsMatchResults
  <2>4. audits[d][st] \in Nat /\ results[d][st] \in Nat /\ lost \in Nat
    BY CostOfFailures DEF TypeInv, TypeOK
  <2>5. /\ audits[d][st] + Cardinality(ToAudit(d, st)) <= results[d][st]
        /\ results[d][st] <= audits[d][st] + Cardinality(ToAudit(d, st)) + lost
    BY DEF AuditsMatchResults
  <2> HIDE DEF lost
  <2>6. \A k \in Handler \ {h} : k \in ToAudit(d, st)' <=> k \in ToAudit(d, st)
    BY <2>1 DEF Own, ToAudit, Current
  <2>7. ToAudit(d, st)' = ToAudit(d, st) \ {h}
    BY <2>2, <2>6 DEF ToAudit
  <2>8. CASE d = Current(h) /\ st = status[h]
    <3>1. h \in ToAudit(d, st)
      BY <2>2, <2>8 DEF ToAudit
    <3>2. Cardinality(ToAudit(d, st)') = Cardinality(ToAudit(d, st)) - 1
      BY <2>7, <3>1, ToAuditFinite, FS_RemoveElement
    <3>3. audits'[d][st] = audits[d][st] + 1
      BY <1>4, <2>3, <2>8 DEF Audit, TypeInv, TypeOK
    <3>4. QED
      BY <2>4, <2>5, <3>2, <3>3, ToAuditFinite
  <2>9. CASE ~(d = Current(h) /\ st = status[h])
    <3>1. h \notin ToAudit(d, st)
      BY <2>9 DEF ToAudit
    <3>2. ToAudit(d, st)' = ToAudit(d, st)
      BY <2>7, <3>1
    <3>3. audits'[d][st] = audits[d][st]
      BY <1>4, <2>3, <2>9 DEF Audit, TypeInv, TypeOK
    <3>4. QED
      BY <2>5, <3>2, <3>3
  <2>10. QED
    BY <2>8, <2>9
<1>5. QED
  BY <1>1, <1>2, <1>3, <1>4 DEF Next

\* However handlers, failures and restarts interleave, results and audit entries
\* match but for the entries that failures between commit and entry have cost.
THEOREM AuditsMatch == Spec => []AuditsMatchResults
<1>1. Init => AuditsMatchResults
  <2> SUFFICES ASSUME Init, NEW d \in Derivation, NEW st \in Status
               PROVE  LET owned == audits[d][st] + Cardinality(ToAudit(d, st))
                      IN  /\ owned <= results[d][st]
                          /\ results[d][st] <= owned + failures * Cardinality(Handler)
    BY DEF AuditsMatchResults
  <2>1. ToAudit(d, st) = {}
    BY DEF Init, ToAudit
  <2>2. audits[d][st] = 0 /\ results[d][st] = 0 /\ failures = 0
    BY DEF Init
  <2>3. 0 * Cardinality(Handler) = 0
    BY HandlerAssumption, FS_CardinalityType
  <2>4. QED
    BY <2>1, <2>2, <2>3, FS_EmptySet
<1>2. QED
  BY <1>1, InitType, TypeStep, AuditStep, PTL DEF Spec

(***************************************************************************)
(* Posts.  The rows that posts made of an item and the threads that may yet *)
(* make one for a post have a post each: a thread joins by a post, and one  *)
(* that commits the item is past it.                                        *)
(***************************************************************************)
BeforeCommit == {"validate", "compare", "write", "commit"}
ToPost(b, i) ==
  {h \in Handler :
     /\ pc[h] # "idle" /\ body[h] = b /\ status[h] # "self_derived"
     /\ item[h] < i \/ (item[h] = i /\ pc[h] \in BeforeCommit)}

PostOf(b, i) == Posted(b[i]) + Cardinality(ToPost(b, i)) <= attempts[b]
PostInv == \A b \in Body : \A i \in 1 .. Len(b) : OnlyItem(b, i) => PostOf(b, i)

\* There are no more of them than handlers.
LEMMA ToPostFinite ==
  ASSUME NEW b, NEW i
  PROVE  IsFiniteSet(ToPost(b, i)) /\ Cardinality(ToPost(b, i)) \in Nat
BY HandlerAssumption, FS_Subset, FS_CardinalityType DEF ToPost

LEMMA ToPostFiniteNext ==
  ASSUME NEW b, NEW i
  PROVE  IsFiniteSet(ToPost(b, i)') /\ Cardinality(ToPost(b, i)') \in Nat
BY HandlerAssumption, FS_Subset, FS_CardinalityType DEF ToPost

\* The numbers in PostOf.
LEMMA PostTypes ==
  ASSUME TypeInv, NEW b \in Body, NEW i \in 1 .. Len(b)
  PROVE  /\ b[i] \in Derivation /\ attempts[b] \in Nat
         /\ Posted(b[i]) \in Nat
<1>1. b \in Seq(Derivation)
  BY BodyAssumption
<1>2. b[i] \in Derivation
  BY <1>1
<1>3. /\ results[b[i]]["validated"] \in Nat
      /\ results[b[i]]["flagged_mismatch"] \in Nat
  BY <1>2 DEF TypeInv, TypeOK, Status
<1>4. attempts[b] \in Nat
  BY AttemptAssumption DEF TypeInv, TypeOK
<1>5. QED
  BY <1>2, <1>3, <1>4 DEF Posted

\* Nobody comes to an item of this body anew, and nothing is recorded.
LEMMA FewerToPost ==
  ASSUME TypeInv, NEW b \in Body, NEW i \in 1 .. Len(b), PostOf(b, i),
         Posted(b[i])' = Posted(b[i]), attempts'[b] = attempts[b],
         ToPost(b, i)' \subseteq ToPost(b, i)
  PROVE  PostOf(b, i)'
<1>1. Cardinality(ToPost(b, i)') <= Cardinality(ToPost(b, i))
  BY ToPostFinite, FS_Subset
<1>2. QED
  BY <1>1, PostTypes, ToPostFinite, ToPostFiniteNext DEF PostOf

\* The body a thread has been posted is at the item it records.
LEMMA RecordsItsOwn ==
  ASSUME TypeInv, NEW h \in Handler, pc[h] = "commit", status[h] # "self_derived"
  PROVE  /\ body[h] \in Body /\ item[h] \in 1 .. Len(body[h])
         /\ Current(h) = body[h][item[h]]
BY CurrentType DEF TypeInv, RouteKnown, Current

\* A commit records the thread's item, for its route.
LEMMA CommitPosts ==
  ASSUME TypeInv, NEW h \in Handler, Commit(h), NEW d \in Derivation
  PROVE  /\ d = Current(h) /\ status[h] # "self_derived" => Posted(d)' = Posted(d) + 1
         /\ d # Current(h) \/ status[h] = "self_derived" => Posted(d)' = Posted(d)
<1>1. Current(h) \in Derivation /\ status[h] \in Status
  BY CurrentType DEF Commit, TypeInv, TypeOK
<1>2. results' = [results EXCEPT ![Current(h)][status[h]] = @ + 1]
  BY DEF Commit
<1>3. \A st \in Status :
        /\ results[d][st] \in Nat
        /\ results'[d][st] = IF d = Current(h) /\ st = status[h]
                             THEN results[d][st] + 1 ELSE results[d][st]
  BY <1>1, <1>2 DEF TypeInv, TypeOK
<1>4. QED
  BY <1>1, <1>3 DEF Posted, Status

\* A step of a thread that is neither a post nor a commit lets nobody join.
LEMMA NobodyJoins ==
  ASSUME TypeInv, NEW h \in Handler, HandlerStep(h), ~Receive(h), ~Commit(h),
         NEW b \in Body, NEW i \in 1 .. Len(b)
  PROVE  ToPost(b, i)' \subseteq ToPost(b, i)
<1> SUFFICES ASSUME h \in ToPost(b, i)' PROVE h \in ToPost(b, i)
  BY OwnStep DEF Own, ToPost
<1>1. /\ pc'[h] # "idle" /\ body'[h] = b /\ status'[h] # "self_derived"
      /\ item'[h] < i \/ (item'[h] = i /\ pc'[h] \in BeforeCommit)
  BY DEF ToPost
<1>t. ThreadTypes /\ Requested(h)
  BY TypeParts
<1>2. CASE Reject(h) \/ Audit(h)
  <2>1. PICK st : ItemDone(h, st) /\ pc[h] \in {"validate", "audit"} /\ status' = status
    BY <1>2 DEF Reject, Audit
  <2>2. /\ body' = body
        /\ \/ item'[h] = item[h] + 1
           \/ item'[h] = item[h] /\ pc'[h] = "answer"
    BY <1>t, <2>1 DEF ItemDone, ThreadTypes
  <2>3. item[h] \in Nat /\ i \in Nat
    BY <1>t DEF ThreadTypes
  <2>4. item[h] < i
    BY <1>1, <2>2, <2>3 DEF BeforeCommit
  <2>5. QED
    BY <1>1, <2>1, <2>2, <2>4 DEF ToPost
<1>3. CASE Validate(h) \/ Write(h)
  BY <1>t, <1>1, <1>3 DEF Validate, Write, ThreadTypes, ToPost, BeforeCommit
<1>4. CASE Compare(h)
  <2>1. pc[h] = "compare" /\ body' = body /\ item' = item
    BY <1>4 DEF Compare
  <2>2. status[h] # "self_derived"
    BY <1>t, <2>1 DEF Requested
  <2>3. QED
    BY <1>1, <2>1, <2>2 DEF ToPost, BeforeCommit
<1>5. ~(Answer(h) \/ Tell(h) \/ StatementFails(h))
  BY <1>t, <1>1 DEF Answer, Tell, StatementFails, Dismiss, ThreadTypes
<1>6. ~DeriveOnDemand(h)
  BY <1>t, <1>1 DEF DeriveOnDemand, ThreadTypes
<1>7. QED
  BY <1>2, <1>3, <1>4, <1>5, <1>6 DEF HandlerStep

\* One step keeps the count.
LEMMA PostStep == TypeInv /\ PostInv /\ [Next]_vars => PostInv'
<1> SUFFICES ASSUME TypeInv, PostInv, [Next]_vars,
                    NEW b \in Body, NEW i \in 1 .. Len(b), OnlyItem(b, i)
             PROVE  PostOf(b, i)'
  BY DEF PostInv, OnlyItem
<1>i. PostOf(b, i)
  BY DEF PostInv
<1>1. CASE StructurePush \/ Restart \/ UNCHANGED vars
  <2>1. results' = results /\ attempts' = attempts
    BY <1>1 DEF StructurePush, Restart, vars, tables, client
  <2>2. ToPost(b, i)' \subseteq ToPost(b, i)
    BY <1>1 DEF StructurePush, Restart, vars, thread, ToPost
  <2>3. QED
    BY <1>i, <2>1, <2>2, FewerToPost DEF Posted
<1>2. ASSUME NEW h \in Handler, HandlerStep(h), ~Receive(h), ~Commit(h)
      PROVE  PostOf(b, i)'
  <2>1. results' = results /\ attempts' = attempts
    BY <1>2 DEF HandlerStep, Reject, Validate, Compare, Write, Audit, Answer,
       DeriveOnDemand, Tell, StatementFails, tables, client
  <2>2. QED
    BY <1>i, <1>2, <2>1, FewerToPost, NobodyJoins DEF Posted
<1>3. ASSUME NEW h \in Handler, Receive(h) PROVE PostOf(b, i)'
  <2>1. Own(h)
    BY <1>3, OwnStep DEF HandlerStep
  <2>2. PICK c \in Body :
          /\ attempts' = [attempts EXCEPT ![c] = @ + 1]
          /\ body' = [body EXCEPT ![h] = c]
    BY <1>3 DEF Receive
  <2>3. pc[h] = "idle" /\ body'[h] = c /\ results' = results
    BY <1>3, <2>2 DEF Receive, tables, TypeInv, TypeOK
  <2>4. h \notin ToPost(b, i)
    BY <2>3 DEF ToPost
  <2>5. CASE c = b
    <3>1. ToPost(b, i)' \subseteq ToPost(b, i) \cup {h}
      BY <2>1 DEF Own, ToPost
    <3>2. Cardinality(ToPost(b, i)') <= Cardinality(ToPost(b, i)) + 1
      <4>1. /\ IsFiniteSet(ToPost(b, i) \cup {h})
            /\ Cardinality(ToPost(b, i) \cup {h}) = Cardinality(ToPost(b, i)) + 1
        BY <2>4, ToPostFinite, FS_AddElement
      <4>2. QED
        BY <3>1, <4>1, FS_Subset
    <3>3. attempts'[b] = attempts[b] + 1
      BY <2>2, <2>5 DEF TypeInv, TypeOK
    <3>4. Posted(b[i])' = Posted(b[i])
      BY <2>3 DEF Posted
    <3>5. QED
      BY <1>i, <3>2, <3>3, <3>4, PostTypes, ToPostFinite, ToPostFiniteNext DEF PostOf
  <2>6. CASE c # b
    <3>1. ToPost(b, i)' \subseteq ToPost(b, i)
      BY <2>1, <2>3, <2>6 DEF Own, ToPost
    <3>2. attempts'[b] = attempts[b] /\ Posted(b[i])' = Posted(b[i])
      BY <2>2, <2>3, <2>6 DEF Posted, TypeInv, TypeOK
    <3>3. QED
      BY <1>i, <3>1, <3>2, FewerToPost
  <2>7. QED
    BY <2>5, <2>6
<1>4. ASSUME NEW h \in Handler, Commit(h) PROVE PostOf(b, i)'
  <2>1. Own(h)
    BY <1>4, OwnStep DEF HandlerStep
  <2>2. /\ pc[h] = "commit" /\ pc'[h] = "audit" /\ attempts' = attempts
        /\ UNCHANGED <<body, item, status>>
    BY <1>4 DEF Commit, client, TypeInv, TypeOK
  <2>3. ToPost(b, i)' \subseteq ToPost(b, i)
    BY <2>1, <2>2 DEF Own, ToPost, BeforeCommit
  <2>4. b[i] \in Derivation
    BY PostTypes
  <2>5. CASE b[i] = Current(h) /\ status[h] # "self_derived"
    <3>1. body[h] = b /\ item[h] = i
      BY <2>2, <2>5, RecordsItsOwn DEF OnlyItem
    <3>2. i \in Nat
      OBVIOUS
    <3>3. h \in ToPost(b, i) /\ h \notin ToPost(b, i)'
      BY <2>2, <2>5, <3>1, <3>2 DEF ToPost, BeforeCommit
    <3>4. ToPost(b, i)' \subseteq ToPost(b, i) \ {h}
      BY <2>3, <3>3
    <3>5. Cardinality(ToPost(b, i)') <= Cardinality(ToPost(b, i)) - 1
      <4>1. /\ IsFiniteSet(ToPost(b, i) \ {h})
            /\ Cardinality(ToPost(b, i) \ {h}) = Cardinality(ToPost(b, i)) - 1
        BY <3>3, ToPostFinite, FS_RemoveElement
      <4>2. QED
        BY <3>4, <4>1, FS_Subset
    <3>6. Posted(b[i])' = Posted(b[i]) + 1
      BY <1>4, <2>4, <2>5, CommitPosts
    <3>7. QED
      BY <1>i, <2>2, <3>5, <3>6, PostTypes, ToPostFinite, ToPostFiniteNext DEF PostOf
  <2>6. CASE ~(b[i] = Current(h) /\ status[h] # "self_derived")
    <3>1. Posted(b[i])' = Posted(b[i])
      BY <1>4, <2>4, <2>6, CommitPosts
    <3>2. QED
      BY <1>i, <2>2, <2>3, <3>1, FewerToPost
  <2>7. QED
    BY <2>5, <2>6
<1>5. QED
  BY <1>1, <1>2, <1>3, <1>4 DEF Next

LEMMA PostInit == Init => PostInv
<1> SUFFICES ASSUME Init, NEW b \in Body, NEW i \in 1 .. Len(b) PROVE PostOf(b, i)
  BY DEF PostInv
<1>1. ToPost(b, i) = {}
  BY DEF Init, ToPost
<1>2. b[i] \in Derivation
  BY InitType, PostTypes
<1>3. Posted(b[i]) = 0 /\ attempts[b] = 0
  BY <1>2 DEF Init, Posted, Status
<1>4. QED
  BY <1>1, <1>3, FS_EmptySet DEF PostOf

LEMMA PostBounds == TypeInv /\ PostInv => RecordedPerPost
<1> SUFFICES ASSUME TypeInv, PostInv, NEW b \in Body, NEW i \in 1 .. Len(b),
                    OnlyItem(b, i)
             PROVE  Posted(b[i]) <= attempts[b]
  BY DEF RecordedPerPost
<1>1. PostOf(b, i)
  BY DEF PostInv
<1>2. QED
  BY <1>1, PostTypes, ToPostFinite DEF PostOf

\* However attempts overlap, fail and are answered, a derivation that is one
\* item of one batch is recorded no more often than the batch was posted.
THEOREM PostsRecordOnce == Spec => []RecordedPerPost
BY InitType, TypeStep, PostInit, PostStep, PostBounds, PTL DEF Spec

\* What posts recorded is an item of a batch.
PostedIsItem ==
  \A d \in Derivation :
    Posted(d) # 0 => \E b \in Body : \E i \in 1 .. Len(b) : b[i] = d

LEMMA PostedStep == TypeInv /\ PostedIsItem /\ [Next]_vars => PostedIsItem'
<1> SUFFICES ASSUME TypeInv, PostedIsItem, [Next]_vars PROVE PostedIsItem'
  OBVIOUS
<1>1. CASE results' = results
  BY <1>1 DEF PostedIsItem, Posted
<1>2. ASSUME NEW h \in Handler, Commit(h) PROVE PostedIsItem'
  <2> SUFFICES ASSUME NEW d \in Derivation, Posted(d)' # 0
               PROVE  \E b \in Body : \E i \in 1 .. Len(b) : b[i] = d
    BY DEF PostedIsItem
  <2>1. CASE d = Current(h) /\ status[h] # "self_derived"
    <3>1. pc[h] = "commit"
      BY <1>2 DEF Commit
    <3>2. QED
      BY <2>1, <3>1, RecordsItsOwn
  <2>2. CASE ~(d = Current(h) /\ status[h] # "self_derived")
    BY <1>2, <2>2, CommitPosts DEF PostedIsItem
  <2>3. QED
    BY <2>1, <2>2
<1>3. QED
  BY <1>1, <1>2 DEF Next, HandlerStep, Receive, Reject, Validate, Compare, Write, Audit,
     Answer, DeriveOnDemand, Tell, StatementFails, Restart, StructurePush, vars, tables

\* The retry is the only cause of duplicates: a satellite that posts a batch once
\* and derives each system once has each derivation recorded once.
THEOREM RecordedOnceWithoutRetries ==
  ASSUME MaxAttempts = 1,
         \A b \in Body : \A i \in 1 .. Len(b) : OnlyItem(b, i)
  PROVE  Spec => []RecordedOnce
<1>1. Init => PostedIsItem
  BY DEF Init, PostedIsItem, Posted, Status
<1>2. TypeInv /\ RecordedPerPost /\ PostedIsItem => RecordedOnce
  <2> SUFFICES ASSUME TypeInv, RecordedPerPost, PostedIsItem, NEW d \in Derivation
               PROVE  Posted(d) <= 1
    BY DEF RecordedOnce
  <2>1. CASE Posted(d) = 0
    BY <2>1
  <2>2. CASE Posted(d) # 0
    <3>0. PICK b \in Body : \E i \in 1 .. Len(b) : b[i] = d
      BY <2>2 DEF PostedIsItem
    <3>1. PICK i \in 1 .. Len(b) : b[i] = d
      BY <3>0
    <3>2. Posted(d) <= attempts[b] /\ Posted(d) \in Nat
      BY <3>1, PostTypes DEF RecordedPerPost
    <3>3. attempts[b] \in 0 .. 1
      BY DEF TypeInv, TypeOK
    <3>4. QED
      BY <3>2, <3>3
  <2>3. QED
    BY <2>1, <2>2
<1>3. QED
  BY <1>1, <1>2, InitType, TypeStep, PostedStep, PostsRecordOnce, PTL DEF Spec
=============================================================================
