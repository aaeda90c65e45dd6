-------------------------- MODULE Derivation_proofs --------------------------
(***************************************************************************)
(* Proofs about Derivation for every graph and every depth: what either     *)
(* derivation collects is within reach, and when its stack is empty nothing *)
(* within reach is missing.                                                 *)
(***************************************************************************)
EXTENDS Derivation, WellFoundedInduction, TLAPS

(***************************************************************************)
(* Every entry of the stack is a walk from the AI system, and short enough  *)
(* for another hop to be within the bound; core drops those that are not.   *)
(***************************************************************************)
Entry(p) ==
  /\ p \in Seq(Node)
  /\ Len(p) \in 1 .. max + 1
  /\ who = "satellite" => Len(p) <= max
  /\ p[1] = System
  /\ Walk(edges, p)

Inv ==
  /\ who \in {"satellite", "core"}
  /\ edges \in Graphs
  /\ max \in Depths
  /\ \A p \in stack : Entry(p)
  /\ found \subseteq Terminal \cap Within(edges, System, max)
  /\ visited \subseteq Regulation \cap Within(edges, System, max)

\* A walk of one hop more, and where it leads.
LEMMA OneHop ==
  ASSUME Inv, NEW p \in stack, Len(p) <= max, NEW t \in Out(Last(p))
  PROVE  /\ Append(p, t) \in Seq(Node)
         /\ Len(Append(p, t)) = Len(p) + 1
         /\ Append(p, t)[1] = System
         /\ Walk(edges, Append(p, t))
         /\ Last(Append(p, t)) = t
         /\ t \in Within(edges, System, max)
<1> DEFINE q == Append(p, t)
           n == Len(p)
<1>1. /\ p \in Seq(Node) /\ n \in Nat /\ n >= 1 /\ p[1] = System
      /\ Walk(edges, p) /\ max \in Nat
  BY DepthAssumption DEF Inv, Entry
<1>2. t \in Node /\ <<p[n], t>> \in edges
  BY <1>1 DEF Out, Last
<1>3. /\ q \in Seq(Node) /\ Len(q) = n + 1 /\ q[n + 1] = t
      /\ \A i \in 1 .. n : q[i] = p[i]
  BY <1>1, <1>2
<1>4. Walk(edges, q)
  <2> SUFFICES ASSUME NEW i \in 1 .. n PROVE <<q[i], q[i + 1]>> \in edges
    BY <1>3 DEF Walk
  <2>1. CASE i = n
    BY <1>1, <1>2, <1>3, <2>1
  <2>2. CASE i < n
    BY <1>1, <1>3, <2>2 DEF Walk
  <2>3. QED
    BY <1>1, <2>1, <2>2
<1>5. t \in Within(edges, System, max)
  <2> DEFINE w == [i \in 1 .. n |-> q[i + 1]]
  <2>1. w \in [1 .. n -> Node] /\ w[n] = t /\ w \in Seq(Node) /\ Len(w) = n
    BY <1>1, <1>3
  <2>2. System \in Node /\ <<System>> \in Seq(Node)
    BY NodeAssumption
  <2>3. /\ Len(<<System>> \o w) = n + 1
        /\ \A i \in 1 .. n + 1 : (<<System>> \o w)[i] = q[i]
    BY <1>1, <1>3, <2>1, <2>2
  <2>4. Walk(edges, <<System>> \o w)
    BY <1>1, <1>3, <1>4, <2>3 DEF Walk
  <2>5. t \in EndsOf(edges, System, n)
    BY <2>1, <2>4 DEF EndsOf
  <2>6. QED
    BY <1>1, <2>5 DEF Within
<1>6. QED
  BY <1>1, <1>3, <1>4, <1>5 DEF Last

\* One step keeps the invariant.
LEMMA InvStep == Inv /\ [Next]_vars => Inv'
<1> SUFFICES ASSUME Inv, [Next]_vars PROVE Inv'
  OBVIOUS
<1>1. ASSUME NEW p \in stack, SatelliteExpand(p) PROVE Inv'
  <2> DEFINE next == {Append(p, t) : t \in Out(Last(p)) \ Range(p)}
  <2>1. /\ stack' = (stack \ {p}) \cup {q \in next : Depth(q) < max}
        /\ found' = found \cup ({Last(q) : q \in next} \cap Terminal)
        /\ visited' = visited \cup ({Last(q) : q \in next} \cap Regulation)
        /\ UNCHANGED <<who, edges, max>> /\ who = "satellite"
    BY <1>1 DEF SatelliteExpand
  <2>2. Len(p) \in Nat /\ Len(p) <= max /\ max \in Nat
    BY <2>1, DepthAssumption DEF Inv, Entry
  <2>3. \A q \in next :
          /\ q \in Seq(Node) /\ q[1] = System /\ Walk(edges, q) /\ Len(q) \in Nat
          /\ Len(q) = Len(p) + 1 /\ Last(q) \in Within(edges, System, max)
    <3> SUFFICES ASSUME NEW t \in Out(Last(p)), NEW q, q = Append(p, t)
                 PROVE  /\ q \in Seq(Node) /\ q[1] = System /\ Walk(edges, q)
                        /\ Len(q) \in Nat /\ Len(q) = Len(p) + 1
                        /\ Last(q) \in Within(edges, System, max)
      OBVIOUS
    <3>1. QED
      BY <2>2, OneHop
  <2>4. \A q \in {r \in next : Depth(r) < max} : Entry(q)'
    BY <2>1, <2>2, <2>3 DEF Entry, Depth
  <2>5. \A q \in stack : Entry(q)'
    BY <2>1 DEF Inv, Entry
  <2>6. {Last(q) : q \in next} \subseteq Within(edges, System, max)
    BY <2>3
  <2>7. \A q \in stack' : Entry(q)'
    BY <2>1, <2>4, <2>5
  <2>8. /\ found' \subseteq Terminal \cap Within(edges', System, max')
        /\ visited' \subseteq Regulation \cap Within(edges', System, max')
    BY <2>1, <2>6 DEF Inv
  <2>9. QED
    BY <2>1, <2>7, <2>8 DEF Inv
<1>2. ASSUME NEW p \in stack, CoreExpand(p) PROVE Inv'
  <2> DEFINE next == {Append(p, t) : t \in Out(Last(p)) \ Range(Front(p))}
  <2>1. /\ stack' = (stack \ {p}) \cup next
        /\ found' = found \cup ({Last(q) : q \in next} \cap Terminal)
        /\ UNCHANGED <<who, edges, max, visited>> /\ who = "core"
        /\ Len(p) - 1 < max
    BY <1>2 DEF CoreExpand, Depth
  <2>2. Len(p) \in Nat /\ Len(p) <= max /\ max \in Nat
    BY <2>1, DepthAssumption DEF Inv, Entry
  <2>3. \A q \in next :
          /\ q \in Seq(Node) /\ q[1] = System /\ Walk(edges, q) /\ Len(q) \in Nat
          /\ Len(q) = Len(p) + 1 /\ Last(q) \in Within(edges, System, max)
    <3> SUFFICES ASSUME NEW t \in Out(Last(p)), NEW q, q = Append(p, t)
                 PROVE  /\ q \in Seq(Node) /\ q[1] = System /\ Walk(edges, q)
                        /\ Len(q) \in Nat /\ Len(q) = Len(p) + 1
                        /\ Last(q) \in Within(edges, System, max)
      OBVIOUS
    <3>1. QED
      BY <2>2, OneHop
  <2>4. \A q \in next : Entry(q)'
    BY <2>1, <2>2, <2>3 DEF Entry
  <2>5. \A q \in stack : Entry(q)'
    BY <2>1 DEF Inv, Entry
  <2>6. {Last(q) : q \in next} \subseteq Within(edges, System, max)
    BY <2>3
  <2>7. \A q \in stack' : Entry(q)'
    BY <2>1, <2>4, <2>5
  <2>8. /\ found' \subseteq Terminal \cap Within(edges', System, max')
        /\ visited' \subseteq Regulation \cap Within(edges', System, max')
    BY <2>1, <2>6 DEF Inv
  <2>9. QED
    BY <2>1, <2>7, <2>8 DEF Inv
<1>3. ASSUME NEW p \in stack, CoreDrop(p) PROVE Inv'
  BY <1>3 DEF CoreDrop, Inv, Entry
<1>4. CASE UNCHANGED vars
  BY <1>4 DEF vars, Inv, Entry
<1>5. QED
  BY <1>1, <1>2, <1>3, <1>4 DEF Next

\* It holds initially: the walk of no hops.
LEMMA InvInit == Init => Inv
<1> SUFFICES ASSUME Init PROVE Inv
  OBVIOUS
<1>1. <<System>> \in Seq(Node) /\ Len(<<System>>) = 1 /\ <<System>>[1] = System
  BY NodeAssumption
<1>2. max \in Nat \ {0}
  BY DepthAssumption DEF Init
<1>3. Entry(<<System>>)
  BY <1>1, <1>2 DEF Entry, Walk
<1>4. QED
  BY <1>3 DEF Init, Inv

\* Every variable keeps its type; no walk is longer than the bound.
THEOREM TypeCorrect == Spec => []TypeOK
<1>1. Inv => TypeOK
  BY DEF Inv, Entry, TypeOK
<1>2. QED
  BY <1>1, InvInit, InvStep, PTL DEF Spec

\* Neither derivation ever reports an obligation, a control or a regulation
\* that is not within reach of the AI system in the active graph.
THEOREM DerivationsSound == Spec => []Sound
<1>1. Inv => Sound
  BY DEF Inv, Sound
<1>2. QED
  BY <1>1, InvInit, InvStep, PTL DEF Spec

-----------------------------------------------------------------------------
(* Completeness.  Every node within reach is at the end of a walk without a   *)
(* repeated node: a shortest one.                                             *)

\* A set of numbers has a least one.  The library's induction theorems take the
\* induction hypothesis as an operator; this one takes a set instead.
LEMMA LeastNumber ==
  ASSUME NEW S, S \subseteq Nat, S # {}
  PROVE  \E n \in S : \A m \in S : n <= m
<1> DEFINE R == OpToRel(<, Nat)
<1>1. IsWellFoundedOn(R, Nat)
  BY NatLessThanWellFounded
<1>2. PICK n \in S : \A m \in S : <<m, n>> \notin R
  <2> HIDE DEF R
  <2>1. QED
    BY <1>1, WFMin
<1>3. \A m \in S : ~(m < n)
  BY <1>2 DEF OpToRel
<1>4. QED
  BY <1>3

\* Walks by their nodes, the first included.
Route(E, from, to, hops) ==
  {q \in [1 .. hops + 1 -> Node] :
     /\ q[1] = from /\ q[hops + 1] = to
     /\ \A i \in 1 .. hops : <<q[i], q[i + 1]>> \in E}

LEMMA EndsAreRoutes ==
  ASSUME NEW E, NEW s \in Node, NEW t, NEW hops \in Nat \ {0}
  PROVE  t \in EndsOf(E, s, hops) <=> Route(E, s, t, hops) # {}
<1> DEFINE joined(w) == <<s>> \o w
<1>1. \A w \in [1 .. hops -> Node] :
        /\ joined(w) \in [1 .. hops + 1 -> Node]
        /\ Len(joined(w)) = hops + 1
        /\ joined(w)[1] = s
        /\ \A i \in 1 .. hops : joined(w)[i + 1] = w[i]
  <2> SUFFICES ASSUME NEW w \in [1 .. hops -> Node]
               PROVE  /\ joined(w) \in [1 .. hops + 1 -> Node]
                      /\ Len(joined(w)) = hops + 1
                      /\ joined(w)[1] = s
                      /\ \A i \in 1 .. hops : joined(w)[i + 1] = w[i]
    OBVIOUS
  <2>1. w \in Seq(Node) /\ Len(w) = hops /\ <<s>> \in Seq(Node) /\ Len(<<s>>) = 1
    OBVIOUS
  <2>2. joined(w) \in Seq(Node) /\ Len(joined(w)) = hops + 1
    BY <2>1
  <2>3. \A i \in 1 .. hops + 1 : joined(w)[i] = IF i <= 1 THEN <<s>>[i] ELSE w[i - 1]
    BY <2>1
  <2>4. joined(w)[1] = s
    BY <2>3
  <2>5. \A i \in 1 .. hops : joined(w)[i + 1] = w[i]
    BY <2>3
  <2>6. joined(w) \in [1 .. hops + 1 -> Node]
    <3> HIDE DEF joined
    <3>1. QED
      BY <2>2
  <2>7. QED
    BY <2>2, <2>4, <2>5, <2>6
<1> HIDE DEF joined
<1>2. ASSUME t \in EndsOf(E, s, hops) PROVE Route(E, s, t, hops) # {}
  <2>1. PICK w \in [1 .. hops -> Node] : Walk(E, joined(w)) /\ w[hops] = t
    BY <1>2 DEF EndsOf, joined
  <2>2. joined(w) \in Route(E, s, t, hops)
    BY <1>1, <2>1 DEF Walk, Route
  <2>3. QED
    BY <2>2
<1>3. ASSUME Route(E, s, t, hops) # {} PROVE t \in EndsOf(E, s, hops)
  <2>1. PICK q \in [1 .. hops + 1 -> Node] :
          /\ q[1] = s /\ q[hops + 1] = t
          /\ \A i \in 1 .. hops : <<q[i], q[i + 1]>> \in E
    BY <1>3 DEF Route
  <2> DEFINE w == [i \in 1 .. hops |-> q[i + 1]]
  <2>2. w \in [1 .. hops -> Node] /\ w[hops] = t
    BY <2>1
  <2>3. \A i \in 1 .. hops + 1 : joined(w)[i] = q[i]
    <3> SUFFICES ASSUME NEW i \in 1 .. hops + 1 PROVE joined(w)[i] = q[i]
      OBVIOUS
    <3>1. CASE i = 1
      BY <1>1, <2>1, <2>2, <3>1
    <3>2. CASE i # 1
      <4>1. i - 1 \in 1 .. hops /\ (i - 1) + 1 = i
        BY <3>2
      <4>2. joined(w)[(i - 1) + 1] = w[i - 1] /\ w[i - 1] = q[(i - 1) + 1]
        BY <1>1, <2>2, <4>1
      <4>3. QED
        BY <4>1, <4>2
    <3>3. QED
      BY <3>1, <3>2
  <2> HIDE DEF w
  <2>4. Walk(E, joined(w))
    BY <1>1, <2>1, <2>2, <2>3 DEF Walk
  <2>5. QED
    BY <2>2, <2>4 DEF EndsOf, joined
<1>4. QED
  BY <1>2, <1>3

\* A cycle can be cut out of a walk.
LEMMA CutCycle ==
  ASSUME NEW E, NEW s \in Node, NEW t \in Node \ {s}, NEW hops \in Nat \ {0},
         NEW q \in Route(E, s, t, hops),
         NEW i \in 1 .. hops + 1, NEW j \in 1 .. hops + 1, i < j, q[i] = q[j]
  PROVE  \E h \in Nat \ {0} : h < hops /\ Route(E, s, t, h) # {}
<1> DEFINE d == j - i
           h == hops - d
           r == [k \in 1 .. h + 1 |-> IF k <= i THEN q[k] ELSE q[k + d]]
<1>1. /\ q \in [1 .. hops + 1 -> Node] /\ q[1] = s /\ q[hops + 1] = t
      /\ \A k \in 1 .. hops : <<q[k], q[k + 1]>> \in E
  BY DEF Route
<1>2. d \in Nat \ {0} /\ d <= hops /\ i <= hops + 1 - d /\ i + d = j
  OBVIOUS
<1>3. h \in Nat /\ h < hops /\ h # 0
  <2>1. ASSUME h = 0 PROVE FALSE
    <3>1. i = 1 /\ j = hops + 1
      BY <1>2, <2>1
    <3>2. QED
      BY <1>1, <3>1
  <2>2. QED
    BY <1>2, <2>1
<1>4. \A k \in 1 .. h + 1 :
        /\ k <= i => k \in 1 .. hops + 1 /\ r[k] = q[k]
        /\ ~(k <= i) => k + d \in 1 .. hops + 1 /\ r[k] = q[k + d]
  BY <1>2, <1>3
<1>5. r \in [1 .. h + 1 -> Node]
  BY <1>1, <1>4
<1> HIDE DEF d, r
<1>6. r[1] = s
  BY <1>1, <1>3, <1>4
<1>7. r[h + 1] = t
  <2>1. CASE h + 1 <= i
    <3>1. h + 1 = i /\ j = hops + 1
      BY <1>2, <1>3, <2>1
    <3>2. QED
      BY <1>1, <1>3, <1>4, <2>1, <3>1
  <2>2. CASE ~(h + 1 <= i)
    <3>1. h + 1 + d = hops + 1 /\ h + 1 \in 1 .. h + 1
      BY <1>2, <1>3
    <3>2. QED
      BY <1>1, <1>4, <2>2, <3>1
  <2>3. QED
    BY <2>1, <2>2
<1>8. \A k \in 1 .. h : <<r[k], r[k + 1]>> \in E
  <2> SUFFICES ASSUME NEW k \in 1 .. h PROVE <<r[k], r[k + 1]>> \in E
    OBVIOUS
  <2>0. k \in 1 .. h + 1 /\ k + 1 \in 1 .. h + 1
    BY <1>3
  <2>1. CASE k + 1 <= i
    <3>1. k <= i /\ k \in 1 .. hops
      BY <1>3, <2>1
    <3>2. QED
      BY <1>1, <1>4, <2>0, <2>1, <3>1
  <2>2. CASE k = i
    <3>1. ~(k + 1 <= i) /\ k + 1 + d = j + 1 /\ j \in 1 .. hops
      BY <1>2, <1>3, <2>2
    <3>2. r[k] = q[j] /\ r[k + 1] = q[j + 1]
      BY <1>4, <2>0, <2>2, <3>1
    <3>3. QED
      BY <1>1, <3>1, <3>2
  <2>3. CASE k > i
    <3>1. ~(k <= i) /\ ~(k + 1 <= i) /\ k + d \in 1 .. hops /\ (k + 1) + d = (k + d) + 1
      BY <1>2, <1>3, <2>3
    <3>2. r[k] = q[k + d] /\ r[k + 1] = q[(k + d) + 1]
      BY <1>4, <2>0, <3>1
    <3>3. QED
      BY <1>1, <3>1, <3>2
  <2>4. QED
    BY <1>3, <2>1, <2>2, <2>3
<1>9. r \in Route(E, s, t, h)
  BY <1>5, <1>6, <1>7, <1>8 DEF Route
<1>10. QED
  BY <1>3, <1>9

\* A shortest walk repeats no node.
LEMMA ShortestIsSimple ==
  ASSUME NEW E, NEW s \in Node, NEW t \in Node \ {s}, NEW depth \in Nat,
         t \in Within(E, s, depth)
  PROVE  \E hops \in 1 .. depth : \E q \in Route(E, s, t, hops) :
           \A i, j \in 1 .. hops + 1 : q[i] = q[j] => i = j
<1> DEFINE S == {h \in Nat \ {0} : Route(E, s, t, h) # {}}
<1>1. PICK k \in 1 .. depth : Route(E, s, t, k) # {}
  BY EndsAreRoutes DEF Within
<1>2. k \in S
  BY <1>1
<1>3. PICK n \in S : \A m \in S : n <= m
  BY <1>2, LeastNumber
<1>4. n \in 1 .. depth
  BY <1>2, <1>3
<1>5. PICK q : q \in Route(E, s, t, n)
  BY <1>3
<1>6. ASSUME NEW i \in 1 .. n + 1, NEW j \in 1 .. n + 1, q[i] = q[j], i < j
      PROVE  FALSE
  <2>1. PICK h \in Nat \ {0} : h < n /\ Route(E, s, t, h) # {}
    BY <1>3, <1>5, <1>6, CutCycle
  <2>2. QED
    BY <1>3, <2>1
<1>7. ASSUME NEW i \in 1 .. n + 1, NEW j \in 1 .. n + 1, q[i] = q[j] PROVE i = j
  <2>1. i \in Int /\ j \in Int /\ (i = j \/ i < j \/ j < i)
    BY <1>3
  <2>2. QED
    BY <1>6, <1>7, <2>1
<1>8. QED
  BY <1>4, <1>5, <1>7

-----------------------------------------------------------------------------
(* A walk without a repeated node is never lost: its end has been collected,  *)
(* or the stack has an entry that it goes on from.  Neither cycle guard cuts  *)
(* such a walk, and neither depth test does while the bound allows it.        *)

SimpleWalk(q) ==
  /\ q \in Seq(Node)
  /\ Len(q) \in 2 .. max + 1
  /\ q[1] = System
  /\ Walk(edges, q)
  /\ \A i, j \in 1 .. Len(q) : q[i] = q[j] => i = j

LeadsOn(p, q) == Len(p) < Len(q) /\ \A i \in 1 .. Len(p) : p[i] = q[i]

Collected(n) ==
  /\ n \in Terminal => n \in found
  /\ who = "satellite" /\ n \in Regulation => n \in visited

Pending(q) == Collected(q[Len(q)]) \/ \E p \in stack : LeadsOn(p, q)

Complete == \A q \in Seq(Node) : SimpleWalk(q) => Pending(q)

\* The entry that a simple walk goes on from is expanded to one more of its nodes.
LEMMA NextNode ==
  ASSUME Inv, NEW p \in stack, NEW q \in Seq(Node), SimpleWalk(q), LeadsOn(p, q),
         NEW t, t = q[Len(p) + 1]
  PROVE  /\ p \in Seq(Node) /\ Len(p) \in Nat \ {0} /\ Len(p) <= max
         /\ t \in Out(Last(p)) /\ t \notin Range(p) /\ t \notin Range(Front(p))
         /\ Append(p, t) \in Seq(Node) /\ Len(Append(p, t)) = Len(p) + 1
         /\ Last(Append(p, t)) = t
         /\ \A i \in 1 .. Len(p) + 1 : Append(p, t)[i] = q[i]
<1> DEFINE n == Len(p)
<1>1. /\ p \in Seq(Node) /\ n \in Nat /\ n >= 1 /\ max \in Nat
      /\ Len(q) \in Nat /\ n < Len(q) /\ Len(q) <= max + 1
      /\ \A i \in 1 .. n : p[i] = q[i]
  BY DepthAssumption DEF Inv, Entry, SimpleWalk, LeadsOn
<1>2. n + 1 \in 1 .. Len(q) /\ t \in Node /\ n <= max
  BY <1>1
<1>3. t \in Out(Last(p))
  <2>1. n \in 1 .. Len(q) - 1
    BY <1>1
  <2>2. <<q[n], q[n + 1]>> \in edges
    BY <2>1 DEF SimpleWalk, Walk
  <2>3. Last(p) = q[n]
    BY <1>1 DEF Last
  <2>4. QED
    BY <1>2, <2>2, <2>3 DEF Out
<1>4. \A i \in 1 .. n : p[i] # t
  BY <1>1, <1>2 DEF SimpleWalk
<1>5. DOMAIN p = 1 .. n /\ t \notin Range(p)
  BY <1>1, <1>4 DEF Range
<1>6. t \notin Range(Front(p))
  <2>1. Front(p) = [i \in 1 .. n - 1 |-> p[i]]
    BY <1>1 DEF Front
  <2>2. QED
    BY <1>1, <1>4, <2>1 DEF Range
<1>7. /\ Append(p, t) \in Seq(Node) /\ Len(Append(p, t)) = n + 1
      /\ \A i \in 1 .. n + 1 : Append(p, t)[i] = IF i = n + 1 THEN t ELSE p[i]
  BY <1>1, <1>2
<1>8. /\ Last(Append(p, t)) = t
      /\ \A i \in 1 .. n + 1 : Append(p, t)[i] = q[i]
  BY <1>1, <1>7 DEF Last
<1>9. QED
  BY <1>1, <1>2, <1>3, <1>5, <1>6, <1>7, <1>8

LEMMA CompleteInit == Init => Complete
<1> SUFFICES ASSUME Init, NEW q \in Seq(Node), SimpleWalk(q) PROVE Pending(q)
  BY DEF Complete
<1>1. <<System>> \in stack /\ Len(<<System>>) = 1 /\ <<System>>[1] = System
  BY DEF Init
<1>2. LeadsOn(<<System>>, q)
  BY <1>1 DEF SimpleWalk, LeadsOn
<1>3. QED
  BY <1>1, <1>2 DEF Pending

LEMMA CompleteStep == Inv /\ Complete /\ [Next]_vars => Complete'
<1> SUFFICES ASSUME Inv, Complete, [Next]_vars,
                    NEW q \in Seq(Node), SimpleWalk(q)'
             PROVE  Pending(q)'
  BY DEF Complete
<1>0. UNCHANGED <<who, edges, max>> /\ found \subseteq found' /\ visited \subseteq visited'
  BY DEF Next, SatelliteExpand, CoreExpand, CoreDrop, vars
<1>1. SimpleWalk(q) /\ Len(q) \in Nat
  BY <1>0 DEF SimpleWalk
<1>2. Collected(q[Len(q)]) => Pending(q)'
  BY <1>0 DEF Collected, Pending
<1>3. CASE \E p \in stack : LeadsOn(p, q)
  <2>1. PICK p \in stack : LeadsOn(p, q)
    BY <1>3
  <2> DEFINE t == q[Len(p) + 1]
             r == Append(p, t)
  <2>2. /\ p \in Seq(Node) /\ Len(p) \in Nat \ {0} /\ Len(p) <= max
        /\ t \in Out(Last(p)) /\ t \notin Range(p) /\ t \notin Range(Front(p))
        /\ Len(r) = Len(p) + 1 /\ Last(r) = t
        /\ \A i \in 1 .. Len(p) + 1 : r[i] = q[i]
    BY <1>1, <2>1, NextNode
  <2>3. Len(p) < Len(q) /\ Len(q) <= max + 1 /\ max \in Nat
    BY <1>1, <2>1, DepthAssumption DEF LeadsOn, SimpleWalk, Inv
  <2> HIDE DEF t, r
  <2>4. Len(q) = Len(p) + 1 => t = q[Len(q)]
    BY DEF t
  <2>5. Len(q) # Len(p) + 1 => LeadsOn(r, q) /\ Len(p) < max
    BY <1>1, <2>2, <2>3 DEF LeadsOn
  <2>6. ASSUME NEW o \in stack, SatelliteExpand(o) PROVE Pending(q)'
    <3> DEFINE next == {Append(o, u) : u \in Out(Last(o)) \ Range(o)}
    <3>1. /\ stack' = (stack \ {o}) \cup {v \in next : Depth(v) < max}
          /\ found' = found \cup ({Last(v) : v \in next} \cap Terminal)
          /\ visited' = visited \cup ({Last(v) : v \in next} \cap Regulation)
      BY <2>6 DEF SatelliteExpand
    <3>2. CASE o # p
      BY <2>1, <3>1, <3>2 DEF Pending
    <3>3. CASE o = p
      <4>1. r \in next
        BY <2>2, <3>3 DEF r
      <4>2. CASE Len(q) = Len(p) + 1
        <5>1. q[Len(q)] \in {Last(v) : v \in next}
          BY <2>2, <2>4, <4>1, <4>2
        <5>2. QED
          BY <3>1, <5>1 DEF Pending, Collected
      <4>3. CASE Len(q) # Len(p) + 1
        <5>1. Depth(r) < max
          BY <2>2, <2>3, <2>5, <4>3 DEF Depth
        <5>2. r \in stack'
          BY <3>1, <4>1, <5>1
        <5>3. QED
          BY <2>5, <4>3, <5>2 DEF Pending
      <4>4. QED
        BY <4>2, <4>3
    <3>4. QED
      BY <3>2, <3>3
  <2>7. ASSUME NEW o \in stack, CoreExpand(o) PROVE Pending(q)'
    <3> DEFINE next == {Append(o, u) : u \in Out(Last(o)) \ Range(Front(o))}
    <3>1. /\ stack' = (stack \ {o}) \cup next /\ who = "core"
          /\ found' = found \cup ({Last(v) : v \in next} \cap Terminal)
      BY <2>7 DEF CoreExpand
    <3>2. CASE o # p
      BY <2>1, <3>1, <3>2 DEF Pending
    <3>3. CASE o = p
      <4>1. r \in next
        BY <2>2, <3>3 DEF r
      <4>2. CASE Len(q) = Len(p) + 1
        <5>1. q[Len(q)] \in {Last(v) : v \in next}
          BY <2>2, <2>4, <4>1, <4>2
        <5>2. QED
          BY <1>0, <3>1, <5>1 DEF Pending, Collected
      <4>3. CASE Len(q) # Len(p) + 1
        <5>1. r \in stack'
          BY <3>1, <4>1
        <5>2. QED
          BY <2>5, <4>3, <5>1 DEF Pending
      <4>4. QED
        BY <4>2, <4>3
    <3>4. QED
      BY <3>2, <3>3
  <2>8. ASSUME NEW o \in stack, CoreDrop(o) PROVE Pending(q)'
    <3>1. stack' = stack \ {o} /\ Len(o) - 1 >= max
      BY <2>8 DEF CoreDrop, Depth
    <3>2. o # p
      BY <2>2, <2>3, <3>1
    <3>3. QED
      BY <2>1, <3>1, <3>2 DEF Pending
  <2>9. CASE UNCHANGED vars
    BY <2>1, <2>9 DEF vars, Pending
  <2>10. QED
    BY <2>6, <2>7, <2>8, <2>9 DEF Next
<1>4. QED
  BY <1>1, <1>2, <1>3 DEF Complete, Pending

LEMMA AlwaysComplete == Spec => [](Inv /\ Complete)
BY InvInit, InvStep, CompleteInit, CompleteStep, PTL DEF Spec

\* With nothing left on the stack, what is within reach has been collected.
LEMMA NothingMissing ==
  ASSUME Inv, Complete, stack = {}, NEW n \in Within(edges, System, max), n # System
  PROVE  Collected(n)
<1>0. max \in Nat /\ System \in Node
  BY DepthAssumption, NodeAssumption DEF Inv
<1>1. n \in Node
  <2>1. PICK hops \in 1 .. max : n \in EndsOf(edges, System, hops)
    BY DEF Within
  <2>2. hops \in 1 .. hops
    BY <1>0
  <2>3. QED
    BY <2>1, <2>2 DEF EndsOf
<1>2. PICK hops \in 1 .. max : \E q \in Route(edges, System, n, hops) :
        \A i, j \in 1 .. hops + 1 : q[i] = q[j] => i = j
  BY <1>0, <1>1, ShortestIsSimple
<1>3. PICK q \in [1 .. hops + 1 -> Node] :
        /\ q[1] = System /\ q[hops + 1] = n
        /\ \A i \in 1 .. hops : <<q[i], q[i + 1]>> \in edges
        /\ \A i, j \in 1 .. hops + 1 : q[i] = q[j] => i = j
  BY <1>2 DEF Route
<1>4. q \in Seq(Node) /\ Len(q) = hops + 1 /\ hops \in Nat /\ hops >= 1 /\ hops <= max
  BY <1>0
<1>5. SimpleWalk(q)
  BY <1>0, <1>3, <1>4 DEF SimpleWalk, Walk
<1>6. QED
  BY <1>3, <1>4, <1>5 DEF Complete, Pending

\* On every graph and bound the satellite's derivation and core's each collect
\* exactly the obligations and controls within reach, and so the same ones.
THEOREM DerivationsExact == Spec => []Exact
<1>1. Inv /\ Complete => Exact
  <2> SUFFICES ASSUME Inv, Complete, stack = {},
                      NEW n \in Within(edges, System, max) \cap Terminal
               PROVE  n \in found
    BY DEF Exact, Inv
  <2>1. n # System
    BY NodeAssumption DEF Terminal
  <2>2. QED
    BY <2>1, NothingMissing DEF Collected
<1>2. QED
  BY <1>1, AlwaysComplete, PTL

\* The satellite reports as incompletely covered exactly the regulations within
\* reach that have no obligation seeded.
THEOREM GapReportsExact == Spec => []GapsExact
<1>1. Inv /\ Complete => GapsExact
  <2> SUFFICES ASSUME Inv, Complete, who = "satellite", stack = {}
               PROVE  Uncovered = {r \in Within(edges, System, max) \cap Regulation :
                                     ~\E o \in Obligation : <<r, o>> \in edges}
    BY DEF GapsExact
  <2>1. visited = Within(edges, System, max) \cap Regulation
    <3>1. ASSUME NEW n \in Within(edges, System, max) \cap Regulation PROVE n \in visited
      <4>1. n # System
        BY NodeAssumption
      <4>2. QED
        BY <4>1, NothingMissing DEF Collected
    <3>2. QED
      BY <3>1 DEF Inv
  <2>2. \A r \in visited : Out(r) \cap Obligation = {}
                            <=> ~\E o \in Obligation : <<r, o>> \in edges
    BY NodeAssumption DEF Out
  <2>3. QED
    BY <2>1, <2>2 DEF Uncovered
<1>2. QED
  BY <1>1, AlwaysComplete, PTL
=============================================================================
