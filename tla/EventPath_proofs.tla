--------------------------- MODULE EventPath_proofs ---------------------------
(***************************************************************************)
(* Theorems about EventPath and the two components it is made of.           *)
(***************************************************************************)
EXTENDS EventPath, FiniteSetTheorems, TLAPS

-----------------------------------------------------------------------------
(* The webhook.  What the cache knows, in terms of when a notification last *)
(* passed: a record expires Skew + Margin later, and one that is gone has   *)
(* either expired or made room after Cap others passed.                     *)

Passed == {d \in Notice : used[d] # 0}

Expiry ==
  \A d \in Notice : seen[d] # Unseen =>
    used[d] # 0 /\ seen[d] = used[d] + Skew + Margin

Forgotten ==
  \A d \in Notice : used[d] # 0 /\ seen[d] = Unseen =>
    \/ now >= used[d] + Skew + Margin
    \/ Cardinality(UsedSince(d)) >= Cap

History ==
  /\ IsFiniteSet(Passed)
  /\ \A d \in Notice : used[d] <= now
  /\ \A d \in Notice : Taken(d) > 0 => used[d] # 0

WInv == WTypeOK /\ Expiry /\ Forgotten /\ History /\ RefusalsAreHonest

LEMMA NothingIsTyped == Nothing \in [Notice -> Nat]
BY DEF Nothing

\* What the sweep leaves.
LEMMA SweepFacts ==
  ASSUME WInv
  PROVE  /\ Swept \in [Notice -> Nat]
         /\ \A d \in Notice : Swept[d] # Unseen => Swept[d] = seen[d]
         /\ \A d \in Notice : Swept[d] = Unseen => seen[d] <= now
         /\ Live \subseteq Recorded
         /\ IsFiniteSet(Live) /\ Cardinality(Live) <= Cap /\ Cardinality(Live) \in Nat
<1>0. RetentionAssumption
  BY RetentionAssumption
<1>1. /\ Swept \in [Notice -> Nat]
      /\ \A d \in Notice : Swept[d] # Unseen => Swept[d] = seen[d]
      /\ \A d \in Notice : Swept[d] = Unseen => seen[d] <= now
  BY DEF WInv, WTypeOK, Swept, Unseen
<1>2. Live \subseteq Recorded
  BY <1>1 DEF Live, Recorded
<1>3. /\ IsFiniteSet(Recorded) /\ Cardinality(Recorded) <= Cap
  BY DEF WInv, WTypeOK
<1>4. /\ IsFiniteSet(Live) /\ Cardinality(Live) <= Cardinality(Recorded)
  BY <1>2, <1>3, FS_Subset
<1>5. Cardinality(Live) \in Nat /\ Cardinality(Recorded) \in Nat
  BY <1>3, <1>4, FS_CardinalityType
<1>6. Cardinality(Live) <= Cap
  BY <1>3, <1>4, <1>5, RetentionAssumption DEF RetentionAssumption
<1> QED
  BY <1>1, <1>2, <1>4, <1>5, <1>6

\* What making room leaves: records that were there, and not more than Cap - 1.
LEMMA RoomFacts ==
  ASSUME WInv, NEW kept \in Room
  PROVE  /\ kept \in [Notice -> Nat]
         /\ \A d \in Notice : kept[d] # Unseen => kept[d] = seen[d] /\ d \in Live
         /\ IsFiniteSet({d \in Notice : kept[d] # Unseen})
         /\ Cardinality({d \in Notice : kept[d] # Unseen}) + 1 <= Cap
         /\ \A d \in Live : kept[d] = Unseen =>
              d \in Earliest /\ Cardinality(Live) >= Cap
<1> USE RetentionAssumption DEF RetentionAssumption
<1> DEFINE K == {d \in Notice : kept[d] # Unseen}
<1>0. /\ Swept \in [Notice -> Nat]
      /\ \A d \in Notice : Swept[d] # Unseen => Swept[d] = seen[d]
      /\ IsFiniteSet(Live) /\ Cardinality(Live) <= Cap /\ Cardinality(Live) \in Nat
  BY SweepFacts
<1>1. CASE Cardinality(Live) < Cap
  <2>1. kept = Swept
    BY <1>1 DEF Room
  <2>2. K = Live
    BY <2>1 DEF Live
  <2> QED
    BY <1>0, <1>1, <2>1, <2>2 DEF Live
<1>2. CASE ~(Cardinality(Live) < Cap)
  <2>1. PICK v \in Earliest : kept = [Swept EXCEPT ![v] = Unseen]
    BY <1>2 DEF Room
  <2>2. v \in Live /\ v \in Notice
    BY <2>1 DEF Earliest, Live
  <2>3. K = Live \ {v}
    BY <1>0, <2>1, <2>2 DEF Live
  <2>4. IsFiniteSet(K) /\ Cardinality(K) = Cardinality(Live) - 1
    BY <1>0, <2>2, <2>3, FS_RemoveElement
  <2>5. kept \in [Notice -> Nat]
    BY <1>0, <2>1, <2>2 DEF Unseen
  <2>6. \A d \in Notice : kept[d] # Unseen => kept[d] = seen[d] /\ d \in Live
    BY <1>0, <2>1, <2>2 DEF Live
  <2>7. \A d \in Live : kept[d] = Unseen => d = v
    BY <1>0, <2>1 DEF Live
  <2>8. Cardinality(Live) >= Cap
    BY <1>0, <1>2
  <2>9. Cardinality(K) + 1 <= Cap
    BY <1>0, <2>4
  <2> QED
    BY <2>1, <2>4, <2>5, <2>6, <2>7, <2>8, <2>9
<1> QED
  BY <1>1, <1>2

\* More notifications passed since d, never fewer, as long as d itself did not.
LEMMA SinceGrows ==
  ASSUME WInv, NEW d \in Notice, NEW e \in Notice, d # e,
         used' = [used EXCEPT ![e] = now], used[d] # 0
  PROVE  /\ UsedSince(d) \cup {e} \subseteq UsedSince(d)'
         /\ IsFiniteSet(UsedSince(d)')
         /\ Cardinality(UsedSince(d)') \in Nat
         /\ Cardinality(UsedSince(d)) <= Cardinality(UsedSince(d)')
         /\ Cardinality(UsedSince(d)) \in Nat
<1>1. now \in Nat /\ now # 0 /\ used \in [Notice -> Nat] /\ \A o \in Notice : used[o] <= now
  BY DEF WInv, WTypeOK, History
<1>2. UsedSince(d) \cup {e} \subseteq UsedSince(d)'
  BY <1>1 DEF UsedSince
<1>3. IsFiniteSet(Passed \cup {e})
  BY FS_AddElement DEF WInv, History
<1>4. UsedSince(d)' \subseteq Passed \cup {e}
  BY <1>1 DEF UsedSince, Passed
<1>5. IsFiniteSet(UsedSince(d)')
  BY <1>3, <1>4, FS_Subset
<1>6. IsFiniteSet(UsedSince(d)) /\ Cardinality(UsedSince(d)) <= Cardinality(UsedSince(d)')
  BY <1>2, <1>5, FS_Subset
<1> QED
  BY <1>2, <1>5, <1>6, FS_CardinalityType

\* A record that makes room for e has outlived Cap others, e among them.
LEMMA EvictedIsOld ==
  ASSUME WInv, NEW d \in Earliest, NEW e \in Notice, Swept[e] = Unseen,
         Cardinality(Live) >= Cap, used' = [used EXCEPT ![e] = now]
  PROVE  Cardinality(UsedSince(d)') >= Cap
<1> USE RetentionAssumption DEF RetentionAssumption
<1>0. /\ \A o \in Notice : Swept[o] # Unseen => Swept[o] = seen[o]
      /\ IsFiniteSet(Live) /\ Cardinality(Live) \in Nat
  BY SweepFacts
<1>1. d \in Live /\ d \in Notice /\ e \notin Live /\ d # e
  BY DEF Earliest, Live
<1>2. \A o \in Live : /\ o \in Notice /\ used[o] # 0 /\ seen[o] = used[o] + Skew + Margin
                      /\ used[o] \in Nat
  BY <1>0 DEF Live, WInv, Expiry, WTypeOK
<1>3. \A o \in Live : used[o] >= used[d]
  BY <1>1, <1>2 DEF Earliest
<1>4. Live \ {d} \subseteq UsedSince(d)
  BY <1>2, <1>3 DEF UsedSince
<1>5. /\ UsedSince(d) \cup {e} \subseteq UsedSince(d)'
      /\ IsFiniteSet(UsedSince(d)')
      /\ Cardinality(UsedSince(d)') \in Nat
  BY <1>1, <1>2, SinceGrows
<1>6. (Live \ {d}) \cup {e} \subseteq UsedSince(d)'
  BY <1>4, <1>5
<1>7. IsFiniteSet(Live \ {d}) /\ Cardinality(Live \ {d}) = Cardinality(Live) - 1
  BY <1>0, <1>1, FS_RemoveElement
<1>8. Cardinality((Live \ {d}) \cup {e}) = Cardinality(Live)
  <2>1. e \notin Live \ {d}
    BY <1>1
  <2>2. Cardinality((Live \ {d}) \cup {e}) = Cardinality(Live \ {d}) + 1
    BY <1>7, <2>1, FS_AddElement
  <2> QED
    BY <1>0, <1>7, <2>2
<1>9. Cardinality((Live \ {d}) \cup {e}) <= Cardinality(UsedSince(d)')
  BY <1>5, <1>6, FS_Subset
<1> QED
  BY <1>0, <1>5, <1>8, <1>9

\* Everything the cache and its history promise survives a record being made.
RecordInv ==
  /\ seen \in [Notice -> Nat] /\ used \in [Notice -> Nat]
  /\ IsFiniteSet(Recorded) /\ Cardinality(Recorded) <= Cap
  /\ Expiry /\ Forgotten
  /\ IsFiniteSet(Passed) /\ \A o \in Notice : used[o] <= now

LEMMA RecordKeeps ==
  ASSUME WInv, NEW d \in Notice, Swept[d] = Unseen, Record(d), now' = now
  PROVE  /\ RecordInv'
         /\ used'[d] # 0 /\ \A o \in Notice : used[o] # 0 => used'[o] # 0
         /\ \A o \in Notice \ {d} : seen'[o] # Unseen => seen[o] # Unseen
<1> USE RetentionAssumption DEF RetentionAssumption
<1>0. PICK kept \in Room : seen' = [kept EXCEPT ![d] = now + Skew + Margin]
  BY DEF Record
<1>1. /\ kept \in [Notice -> Nat]
      /\ \A o \in Notice : kept[o] # Unseen => kept[o] = seen[o] /\ o \in Live
      /\ IsFiniteSet({o \in Notice : kept[o] # Unseen})
      /\ Cardinality({o \in Notice : kept[o] # Unseen}) + 1 <= Cap
      /\ \A o \in Live : kept[o] = Unseen => o \in Earliest /\ Cardinality(Live) >= Cap
  BY RoomFacts
<1>2. /\ now \in Nat /\ now # 0 /\ seen \in [Notice -> Nat] /\ used \in [Notice -> Nat]
      /\ \A o \in Notice : used[o] <= now
      /\ IsFiniteSet(Passed)
  BY DEF WInv, WTypeOK, History
<1>3. used' = [used EXCEPT ![d] = now]
  BY DEF Record
<1>4. seen' \in [Notice -> Nat] /\ used' \in [Notice -> Nat]
  BY <1>0, <1>1, <1>2, <1>3
<1>5. seen'[d] = now + Skew + Margin /\ \A o \in Notice \ {d} : seen'[o] = kept[o]
  BY <1>0, <1>1
<1>6. used'[d] = now /\ \A o \in Notice \ {d} : used'[o] = used[o]
  BY <1>2, <1>3
<1>7. IsFiniteSet(Recorded') /\ Cardinality(Recorded') <= Cap
  <2> DEFINE K == {o \in Notice : kept[o] # Unseen}
  <2>1. Recorded' \subseteq K \cup {d}
    BY <1>5 DEF Recorded
  <2>2. IsFiniteSet(K) /\ Cardinality(K) + 1 <= Cap /\ Cardinality(K) \in Nat
    BY <1>1, FS_CardinalityType
  <2>3. /\ IsFiniteSet(K \cup {d})
        /\ d \in K => Cardinality(K \cup {d}) = Cardinality(K)
        /\ d \notin K => Cardinality(K \cup {d}) = Cardinality(K) + 1
    <3> HIDE DEF K
    <3> QED
      BY <2>2, FS_AddElement
  <2>4. Cardinality(K \cup {d}) <= Cap /\ Cardinality(K \cup {d}) \in Nat
    BY <2>2, <2>3, FS_CardinalityType
  <2>5. IsFiniteSet(Recorded') /\ Cardinality(Recorded') <= Cardinality(K \cup {d})
    <3> HIDE DEF K
    <3> QED
      BY <2>1, <2>3, FS_Subset
  <2>6. Cardinality(Recorded') \in Nat
    BY <2>5, FS_CardinalityType
  <2> QED
    BY <2>4, <2>5, <2>6
<1>8. Expiry'
  <2> SUFFICES ASSUME NEW o \in Notice, seen'[o] # Unseen
               PROVE  used'[o] # 0 /\ seen'[o] = used'[o] + Skew + Margin
    BY DEF Expiry
  <2>1. CASE o = d
    BY <1>2, <1>5, <1>6, <2>1
  <2>2. CASE o # d
    <3>1. seen'[o] = seen[o] /\ seen[o] # Unseen /\ used'[o] = used[o]
      BY <1>1, <1>5, <1>6, <2>2
    <3> QED
      BY <3>1 DEF WInv, Expiry
  <2> QED
    BY <2>1, <2>2
<1>9. Forgotten'
  <2> SUFFICES ASSUME NEW o \in Notice, used'[o] # 0, seen'[o] = Unseen
               PROVE  \/ now >= used'[o] + Skew + Margin
                      \/ Cardinality(UsedSince(o)') >= Cap
    BY DEF Forgotten
  <2>1. o # d
    BY <1>2, <1>5 DEF Unseen
  <2>2. used'[o] = used[o] /\ used[o] # 0 /\ kept[o] = Unseen
    BY <1>5, <1>6, <2>1
  <2>3. CASE seen[o] = Unseen
    <3>1. \/ now >= used[o] + Skew + Margin
          \/ Cardinality(UsedSince(o)) >= Cap
      BY <2>2, <2>3 DEF WInv, Forgotten
    <3>2. /\ Cardinality(UsedSince(o)') \in Nat /\ Cardinality(UsedSince(o)) \in Nat
          /\ Cardinality(UsedSince(o)) <= Cardinality(UsedSince(o)')
      BY <1>3, <2>1, <2>2, SinceGrows
    <3> QED
      BY <2>2, <3>1, <3>2
  <2>4. CASE seen[o] # Unseen /\ Swept[o] = Unseen
    <3>1. seen[o] <= now
      BY <2>4, SweepFacts
    <3>2. seen[o] = used[o] + Skew + Margin
      BY <2>4 DEF WInv, Expiry
    <3> QED
      BY <2>2, <3>1, <3>2
  <2>5. CASE Swept[o] # Unseen
    <3>1. o \in Earliest /\ Cardinality(Live) >= Cap
      BY <1>1, <2>2, <2>5 DEF Live
    <3> QED
      BY <1>3, <3>1, EvictedIsOld
  <2> QED
    BY <2>3, <2>4, <2>5
<1>10. IsFiniteSet(Passed')
  <2>1. Passed' \subseteq Passed \cup {d}
    BY <1>6 DEF Passed
  <2>2. IsFiniteSet(Passed \cup {d})
    BY <1>2, FS_AddElement
  <2> QED
    BY <2>1, <2>2, FS_Subset
<1>11. \A o \in Notice : used'[o] <= now'
  BY <1>2, <1>6
<1>12. \A o \in Notice \ {d} : seen'[o] # Unseen => seen[o] # Unseen
  BY <1>1, <1>5
<1> QED
  BY <1>2, <1>4, <1>6, <1>7, <1>8, <1>9, <1>10, <1>11, <1>12 DEF RecordInv

LEMMA WInitInv == WInit => WInv
<1> SUFFICES ASSUME WInit PROVE WInv
  OBVIOUS
<1> USE RetentionAssumption DEF RetentionAssumption
<1>1. Recorded = {} /\ Passed = {}
  BY DEF WInit, Recorded, Passed, Nothing, Unseen
<1>2. IsFiniteSet({}) /\ Cardinality({}) = 0
  BY FS_EmptySet
<1>3. WTypeOK
  BY <1>1, <1>2, NothingIsTyped DEF WInit, WTypeOK
<1>4. Expiry /\ Forgotten /\ RefusalsAreHonest
  BY NoticeAssumption
     DEF NoticeAssumption, WInit, Nothing, Expiry, Forgotten, RefusalsAreHonest, Unseen
<1>5. History
  BY <1>1, <1>2 DEF WInit, Nothing, History, Taken
<1> QED
  BY <1>3, <1>4, <1>5 DEF WInv

LEMMA AcceptKeeps ==
  ASSUME WInv, NEW d \in Notice, NEW ip, Accept(d, ip)
  PROVE  WInv'
<1> USE RetentionAssumption DEF RetentionAssumption
<1>1. Record(d) /\ Swept[d] = Unseen /\ now' = now /\ begun' = begun
  BY DEF Accept, FirstUse
<1>2. tasks \in [Notice -> Nat] /\ begun \in [Notice -> Nat] /\ tasks' = [tasks EXCEPT ![d] = @ + 1]
  BY DEF Accept, WInv, WTypeOK
<1>3. /\ RecordInv'
      /\ used'[d] # 0 /\ \A o \in Notice : used[o] # 0 => used'[o] # 0
      /\ \A o \in Notice \ {d} : seen'[o] # Unseen => seen[o] # Unseen
  BY <1>1, RecordKeeps
<1>4. tasks' \in [Notice -> Nat] /\ \A o \in Notice : tasks'[o] = IF o = d THEN tasks[o] + 1 ELSE tasks[o]
  BY <1>2
<1>5. WTypeOK'
  BY <1>1, <1>2, <1>3, <1>4 DEF RecordInv, WTypeOK, WInv
<1>6. \A o \in Notice : Taken(o)' = IF o = d THEN Taken(o) + 1 ELSE Taken(o)
  BY <1>1, <1>2, <1>4 DEF Taken
<1>7. \A o \in Notice : Taken(o) \in Nat
  BY <1>2 DEF Taken
<1>8. History'
  BY <1>3, <1>6, <1>7 DEF RecordInv, History, WInv
<1>9. RefusalsAreHonest'
  BY <1>3, <1>6, <1>7, NoticeAssumption DEF RefusalsAreHonest, WInv, NoticeAssumption
<1> QED
  BY <1>3, <1>5, <1>8, <1>9 DEF WInv, RecordInv

LEMMA UnreadableKeeps ==
  ASSUME WInv, NEW d \in Notice, NEW ip, Unreadable(d, ip)
  PROVE  WInv'
<1>1. Record(d) /\ Swept[d] = Unseen /\ now' = now /\ begun' = begun /\ tasks' = tasks /\ d \notin Readable
  BY DEF Unreadable, FirstUse
<1>2. /\ RecordInv'
      /\ used'[d] # 0 /\ \A o \in Notice : used[o] # 0 => used'[o] # 0
      /\ \A o \in Notice \ {d} : seen'[o] # Unseen => seen[o] # Unseen
  BY <1>1, RecordKeeps
<1>3. WTypeOK'
  BY <1>1, <1>2 DEF RecordInv, WTypeOK, WInv
<1>4. \A o \in Notice : Taken(o)' = Taken(o)
  BY <1>1 DEF Taken
<1>5. History'
  BY <1>2, <1>4 DEF RecordInv, History, WInv
<1>6. RefusalsAreHonest'
  BY <1>1, <1>2, <1>4, NoticeAssumption DEF RefusalsAreHonest, WInv, NoticeAssumption
<1> QED
  BY <1>2, <1>3, <1>5, <1>6 DEF WInv, RecordInv

LEMMA RefuseKeeps ==
  ASSUME WInv, NEW d \in Notice, NEW ip, Refuse(d, ip)
  PROVE  WInv'
<1> USE RetentionAssumption DEF RetentionAssumption
<1>1. /\ Swept \in [Notice -> Nat]
      /\ \A o \in Notice : Swept[o] # Unseen => Swept[o] = seen[o]
      /\ \A o \in Notice : Swept[o] = Unseen => seen[o] <= now
      /\ IsFiniteSet(Live) /\ Cardinality(Live) <= Cap
  BY SweepFacts
<1>2. seen' = Swept /\ UNCHANGED <<now, tasks, begun, used>>
  BY DEF Refuse
<1>3. Recorded' = Live
  BY <1>2 DEF Recorded, Live
<1>4. WTypeOK'
  BY <1>1, <1>2, <1>3 DEF WInv, WTypeOK
<1>5. Expiry'
  BY <1>1, <1>2 DEF WInv, Expiry
<1>6. Forgotten'
  <2> SUFFICES ASSUME NEW o \in Notice, used[o] # 0, Swept[o] = Unseen
               PROVE  \/ now >= used[o] + Skew + Margin
                      \/ Cardinality(UsedSince(o)) >= Cap
    BY <1>2 DEF Forgotten, UsedSince
  <2>1. CASE seen[o] = Unseen
    BY <2>1 DEF WInv, Forgotten
  <2>2. CASE seen[o] # Unseen
    BY <1>1, <2>2 DEF WInv, Expiry
  <2> QED
    BY <2>1, <2>2
<1>7. History' /\ RefusalsAreHonest'
  BY <1>1, <1>2, NoticeAssumption
     DEF NoticeAssumption, WInv, History, Passed, Taken, RefusalsAreHonest
<1> QED
  BY <1>4, <1>5, <1>6, <1>7 DEF WInv

LEMMA BeginTaskKeeps ==
  ASSUME WInv, NEW d \in Notice, BeginTask(d)
  PROVE  WInv' /\ \A o \in Notice : Taken(o)' = Taken(o)
<1>1. /\ tasks \in [Notice -> Nat] /\ begun \in [Notice -> Nat]
      /\ tasks[d] > 0
      /\ tasks' = [tasks EXCEPT ![d] = @ - 1] /\ begun' = [begun EXCEPT ![d] = @ + 1]
      /\ UNCHANGED <<now, seen, used>>
  BY DEF WInv, WTypeOK, BeginTask
<1>2. tasks' \in [Notice -> Nat] /\ begun' \in [Notice -> Nat]
  BY <1>1
<1>3. \A o \in Notice : Taken(o)' = Taken(o)
  BY <1>1 DEF Taken
<1>4. WTypeOK'
  BY <1>1, <1>2 DEF WInv, WTypeOK, Recorded
<1>5. Expiry' /\ Forgotten'
  BY <1>1 DEF WInv, Expiry, Forgotten, UsedSince
<1>6. History' /\ RefusalsAreHonest'
  BY <1>1, <1>3, NoticeAssumption DEF NoticeAssumption, WInv, History, Passed, RefusalsAreHonest
<1> QED
  BY <1>3, <1>4, <1>5, <1>6 DEF WInv

LEMMA TickKeeps ==
  ASSUME WInv, Tick
  PROVE  WInv'
<1> USE RetentionAssumption DEF RetentionAssumption
<1>1. /\ now \in 1 .. MaxTime /\ now < MaxTime /\ now' = now + 1
      /\ used \in [Notice -> Nat]
      /\ UNCHANGED <<seen, tasks, begun, used>>
  BY DEF WInv, WTypeOK, Tick
<1>2. WTypeOK'
  BY <1>1 DEF WInv, WTypeOK, Recorded
<1>3. Expiry' /\ Forgotten'
  BY <1>1 DEF WInv, Expiry, Forgotten, UsedSince
<1>4. History' /\ RefusalsAreHonest'
  BY <1>1 DEF WInv, History, Passed, Taken, RefusalsAreHonest
<1> QED
  BY <1>2, <1>3, <1>4 DEF WInv

LEMMA WRestartKeeps ==
  ASSUME WInv, WRestart
  PROVE  WInv'
<1> USE RetentionAssumption DEF RetentionAssumption
<1>1. Recorded' = {} /\ Passed' = {}
  BY DEF WRestart, Recorded, Passed, Nothing, Unseen
<1>2. IsFiniteSet({}) /\ Cardinality({}) = 0
  BY FS_EmptySet
<1>3. WTypeOK'
  BY <1>1, <1>2, NothingIsTyped DEF WRestart, WInv, WTypeOK
<1>4. Expiry' /\ Forgotten' /\ RefusalsAreHonest'
  BY NoticeAssumption
     DEF NoticeAssumption, WRestart, Nothing, Expiry, Forgotten, RefusalsAreHonest, Unseen
<1>5. History'
  BY <1>1, <1>2 DEF WRestart, WInv, WTypeOK, Nothing, History, Taken
<1> QED
  BY <1>3, <1>4, <1>5 DEF WInv

LEMMA WNextInv == WInv /\ [WNext]_webhookVars => WInv'
<1> SUFFICES ASSUME WInv, [WNext]_webhookVars PROVE WInv'
  OBVIOUS
<1>1. ASSUME NEW d \in Notice, NEW ip \in Sender, Deliver(d, ip) PROVE WInv'
  BY <1>1, AcceptKeeps, UnreadableKeeps, RefuseKeeps DEF Deliver
<1>2. ASSUME NEW d \in Notice, BeginTask(d) PROVE WInv'
  BY <1>2, BeginTaskKeeps
<1>3. CASE Tick
  BY <1>3, TickKeeps
<1>4. CASE WRestart
  BY <1>4, WRestartKeeps
<1>5. CASE UNCHANGED webhookVars
  BY <1>5 DEF webhookVars, WInv, WTypeOK, Recorded, Expiry, Forgotten, UsedSince,
              History, Passed, Taken, RefusalsAreHonest
<1> QED
  BY <1>1, <1>2, <1>3, <1>4, <1>5 DEF WNext

\* The body of AcceptedOnce: a step that takes a notification on again finds its
\* record expired, or gone because Cap others passed.
TakenOnce ==
  \A d \in Readable :
    Taken(d) > 0 /\ Taken(d)' > Taken(d) =>
      \/ Cardinality(UsedSince(d)) >= Cap
      \/ Stamp[d] >= used[d] + Margin

LEMMA WNextOnce == WInv /\ [WNext]_webhookVars => TakenOnce
<1> USE RetentionAssumption, NoticeAssumption DEF RetentionAssumption, NoticeAssumption
<1> SUFFICES ASSUME WInv, [WNext]_webhookVars,
                    NEW d \in Readable, Taken(d) > 0, Taken(d)' > Taken(d)
             PROVE  \/ Cardinality(UsedSince(d)) >= Cap
                    \/ Stamp[d] >= used[d] + Margin
  BY DEF TakenOnce
<1>0. /\ d \in Notice /\ Stamp[d] \in Int /\ now \in Nat
      /\ used[d] \in Nat /\ seen[d] \in Nat
      /\ tasks \in [Notice -> Nat] /\ begun \in [Notice -> Nat]
  BY DEF WInv, WTypeOK
<1>1. ASSUME NEW ip, Accept(d, ip) PROVE Cardinality(UsedSince(d)) >= Cap \/ Stamp[d] >= used[d] + Margin
  <2>1. Swept[d] = Unseen /\ now - Stamp[d] <= Skew
    BY <1>1 DEF Accept, FirstUse, Fresh
  <2>2. used[d] # 0
    BY <1>0 DEF WInv, History
  <2>3. \/ now >= used[d] + Skew + Margin
        \/ Cardinality(UsedSince(d)) >= Cap
    <3>1. CASE seen[d] = Unseen
      BY <1>0, <2>2, <3>1 DEF WInv, Forgotten
    <3>2. CASE seen[d] # Unseen
      BY <1>0, <2>1, <3>2, SweepFacts DEF WInv, Expiry
    <3> QED
      BY <3>1, <3>2
  <2> QED
    BY <1>0, <2>1, <2>3
<1>2. ASSUME NEW o \in Notice, NEW ip, Accept(o, ip), o # d PROVE FALSE
  BY <1>0, <1>2 DEF Accept, Taken
<1>3. ASSUME NEW o \in Notice, NEW ip, Unreadable(o, ip) \/ Refuse(o, ip) PROVE FALSE
  BY <1>0, <1>3 DEF Unreadable, Refuse, Taken
<1>4. ASSUME NEW o \in Notice, BeginTask(o) PROVE FALSE
  BY <1>0, <1>4 DEF BeginTask, Taken
<1>5. CASE Tick
  BY <1>0, <1>5 DEF Tick, Taken
<1>6. CASE WRestart
  <2>1. Taken(d)' = 0
    BY <1>0, <1>6 DEF WRestart, Nothing, Taken
  <2> QED
    BY <1>0, <2>1 DEF Taken
<1>7. CASE UNCHANGED webhookVars
  BY <1>0, <1>7 DEF webhookVars, Taken
<1> QED
  BY <1>1, <1>2, <1>3, <1>4, <1>5, <1>6, <1>7 DEF WNext, Deliver

\* The webhook on its own: its cache stays within its cap, a refusal loses
\* nothing, and a repetition is not taken on but in the two cases named.
THEOREM WebhookPromises ==
  WSpec => [](WTypeOK /\ RefusalsAreHonest) /\ AcceptedOnce
<1>1. WInv => WTypeOK /\ RefusalsAreHonest
  BY DEF WInv
<1>2. WInv /\ [WNext]_webhookVars => [TakenOnce]_webhookVars
  BY WNextOnce
<1>3. AcceptedOnce <=> [][TakenOnce]_webhookVars
  BY PTL DEF AcceptedOnce, TakenOnce
<1> QED
  BY WInitInv, WNextInv, <1>1, <1>2, <1>3, PTL DEF WSpec

-----------------------------------------------------------------------------
(* The fetch.  First without any assumption about the data: what a run has  *)
(* read lies between the sources at its beginning and the sources now.       *)

LEMMA ExportsListed ==
  /\ \A i \in 1 .. 3 : Exports[i] \in Export
  /\ \A x \in Export : \E i \in 1 .. 3 : x = Exports[i]
  /\ \A i, j \in 1 .. 3 : i # j => Exports[i] # Exports[j]
<1>1. \A i \in 1 .. 3 : i = 1 \/ i = 2 \/ i = 3
  OBVIOUS
<1>2. /\ Exports[1] = "ai-systems" /\ Exports[2] = "regulations-catalog"
      /\ Exports[3] = "jurisdictions"
  BY DEF Exports
<1>3. Export = {Exports[1], Exports[2], Exports[3]}
  BY <1>2 DEF Export
<1>4. /\ Exports[1] # Exports[2] /\ Exports[1] # Exports[3] /\ Exports[2] # Exports[3]
  BY <1>2
<1>5. 1 \in 1 .. 3 /\ 2 \in 1 .. 3 /\ 3 \in 1 .. 3
  OBVIOUS
<1> QED
  BY <1>1, <1>3, <1>4, <1>5

Read ==
  \A a \in Thread :
    /\ UpTo(began[a], source)
    /\ \A i \in 1 .. 3 : stage[a] > i =>
         /\ began[a][Exports[i]] <= got[a][Exports[i]]
         /\ got[a][Exports[i]] <= source[Exports[i]]

FInv == FTypeOK /\ Read

LEMMA UnreadIsTyped == Unread \in [Export -> Version] /\ \A v \in [Export -> Version] : UpTo(Unread, v)
BY FactsAssumption DEF FactsAssumption, Unread, Version, UpTo

LEMMA FInitInv == FInit => FInv
BY UnreadIsTyped, FetchAssumption, ExportsListed
   DEF FInit, FInv, FTypeOK, Read, Idle, FetchAssumption

\* A step that leaves the reading alone and lets sources only grow.
LEMMA ReadGrows ==
  ASSUME FInv, source' \in [Export -> Version], UpTo(source, source'),
         UNCHANGED <<stage, got, began>>
  PROVE  Read'
<1>1. /\ source \in [Export -> Version]
      /\ got \in [Thread -> [Export -> Version]]
      /\ began \in [Thread -> [Export -> Version]]
  BY DEF FInv, FTypeOK
<1>2. \A v \in Version : v \in Nat
  BY FactsAssumption DEF FactsAssumption, Version
<1> SUFFICES ASSUME NEW a \in Thread
             PROVE  /\ UpTo(began[a], source')
                    /\ \A i \in 1 .. 3 : stage[a] > i =>
                         /\ began[a][Exports[i]] <= got[a][Exports[i]]
                         /\ got[a][Exports[i]] <= source'[Exports[i]]
  BY DEF Read
<1>3. \A x \in Export : source[x] <= source'[x] /\ source[x] \in Nat /\ source'[x] \in Nat
                        /\ began[a][x] \in Nat /\ got[a][x] \in Nat
  BY <1>1, <1>2 DEF UpTo
<1>4. UpTo(began[a], source')
  BY <1>3 DEF UpTo, FInv, Read
<1>5. \A i \in 1 .. 3 : stage[a] > i =>
        /\ began[a][Exports[i]] <= got[a][Exports[i]]
        /\ got[a][Exports[i]] <= source'[Exports[i]]
  BY <1>3, ExportsListed DEF FInv, Read
<1> QED
  BY <1>4, <1>5

LEMMA EndKeeps ==
  ASSUME FInv, NEW a \in Thread, End(a), UNCHANGED <<source, stored, manual, disturbed>>
  PROVE  FInv'
BY UnreadIsTyped, FetchAssumption
   DEF End, FInv, FTypeOK, Read, Idle, FetchAssumption

LEMMA GetOkKeeps ==
  ASSUME FInv, NEW a \in Thread, GetOk(a)
  PROVE  FInv'
<1> DEFINE n == stage[a]
           x == Exports[stage[a]]
<1>1. /\ n \in 1 .. 3 /\ x \in Export
      /\ got' = [got EXCEPT ![a][x] = source[x]]
      /\ stage' = [stage EXCEPT ![a] = @ + 1] /\ tries' = [tries EXCEPT ![a] = 0]
      /\ UNCHANGED <<source, stored, manual, began, disturbed>>
  BY ExportsListed DEF GetOk, Getting
<1>2. /\ source \in [Export -> Version] /\ stage \in [Thread -> 0 .. 5]
      /\ got \in [Thread -> [Export -> Version]]
      /\ began \in [Thread -> [Export -> Version]]
  BY DEF FInv, FTypeOK
<1>3. \A v \in Version : v \in Nat
  BY FactsAssumption DEF FactsAssumption, Version
<1>4. /\ got' \in [Thread -> [Export -> Version]] /\ stage' \in [Thread -> 0 .. 5]
      /\ got'[a][x] = source[x]
      /\ \A y \in Export \ {x} : got'[a][y] = got[a][y]
      /\ \A b \in Thread \ {a} : got'[b] = got[b] /\ stage'[b] = stage[b]
      /\ stage'[a] = n + 1
  <2> HIDE DEF n, x
  <2>1. got' \in [Thread -> [Export -> Version]]
    BY <1>1, <1>2
  <2>2. /\ got'[a][x] = source[x]
        /\ \A y \in Export \ {x} : got'[a][y] = got[a][y]
        /\ \A b \in Thread \ {a} : got'[b] = got[b]
    BY <1>1, <1>2
  <2>3. /\ stage' \in [Thread -> 0 .. 5] /\ stage'[a] = n + 1
        /\ \A b \in Thread \ {a} : stage'[b] = stage[b]
    BY <1>1, <1>2 DEF n
  <2> QED
    BY <2>1, <2>2, <2>3
<1>5. FTypeOK'
  BY <1>1, <1>2, <1>4, FetchAssumption DEF FInv, FTypeOK, FetchAssumption
<1>6. Read'
  <2> SUFFICES ASSUME NEW b \in Thread
               PROVE  /\ UpTo(began[b], source)
                      /\ \A i \in 1 .. 3 : stage'[b] > i =>
                           /\ began[b][Exports[i]] <= got'[b][Exports[i]]
                           /\ got'[b][Exports[i]] <= source[Exports[i]]
    BY <1>1 DEF Read, UpTo
  <2>1. /\ UpTo(began[b], source)
        /\ \A i \in 1 .. 3 : stage[b] > i =>
             /\ began[b][Exports[i]] <= got[b][Exports[i]]
             /\ got[b][Exports[i]] <= source[Exports[i]]
    BY DEF FInv, Read
  <2>2. CASE b # a
    BY <1>4, <2>1, <2>2
  <2>3. CASE b = a
    <3> SUFFICES ASSUME NEW i \in 1 .. 3, n + 1 > i
                 PROVE  /\ began[a][Exports[i]] <= got'[a][Exports[i]]
                        /\ got'[a][Exports[i]] <= source[Exports[i]]
      BY <1>4, <2>1, <2>3
    <3>1. CASE i = n
      <4>1. Exports[i] = x
        BY <3>1
      <4>2. began[a][x] <= source[x] /\ source[x] \in Nat
        BY <1>1, <1>2, <1>3, <2>1, <2>3 DEF UpTo
      <4> QED
        BY <1>4, <4>1, <4>2
    <3>2. CASE i # n
      <4>1. n > i /\ Exports[i] # x /\ Exports[i] \in Export
        BY <1>1, <3>2, ExportsListed
      <4>2. got'[a][Exports[i]] = got[a][Exports[i]]
        BY <1>4, <4>1
      <4> QED
        BY <2>1, <2>3, <4>1, <4>2
    <3> QED
      BY <3>1, <3>2
  <2> QED
    BY <2>2, <2>3
<1> QED
  BY <1>5, <1>6 DEF FInv

LEMMA BeginKeeps ==
  ASSUME FInv, NEW a \in Thread, Begin(a)
  PROVE  FInv'
<1>1. FTypeOK'
  BY DEF Begin, FInv, FTypeOK
<1>2. \A v \in Version : v \in Nat
  BY FactsAssumption DEF FactsAssumption, Version
<1>3. UpTo(source, source)
  BY <1>2 DEF UpTo, FInv, FTypeOK
<1>4. Read'
  BY <1>3 DEF Begin, FInv, FTypeOK, Read, UpTo
<1> QED
  BY <1>1, <1>4 DEF FInv

LEMMA StepsKeep ==
  ASSUME FInv, NEW a \in Thread, RunStep(a) \/ PushLands(a)
  PROVE  FInv'
<1>1. CASE GetOk(a)
  BY <1>1, GetOkKeeps
<1>2. CASE GetFails(a)
  <2>1. FTypeOK'
    BY <1>2, FetchAssumption DEF FetchAssumption, GetFails, FInv, FTypeOK
  <2>2. Read'
    BY <1>2 DEF GetFails, FInv, Read, UpTo
  <2> QED
    BY <2>1, <2>2 DEF FInv
<1>3. CASE GetGivesUp(a) \/ SubmitAndEnd(a)
  BY <1>3, EndKeeps DEF GetGivesUp, SubmitAndEnd
<1>4. CASE PushFails(a)
  <2>1. FTypeOK'
    BY <1>4 DEF PushFails, Push, Submit, FInv, FTypeOK
  <2>2. Read'
    BY <1>4 DEF PushFails, Push, Submit, FInv, FTypeOK, Read
  <2> QED
    BY <2>1, <2>2 DEF FInv
<1>5. CASE PushLands(a)
  <2>1. Graph(a) \subseteq Edge
    BY FactsAssumption DEF FactsAssumption, Graph, EdgesOf, FInv, FTypeOK
  <2>2. FTypeOK'
    BY <1>5, <2>1 DEF PushLands, Push, Submit, FInv, FTypeOK
  <2>3. Read'
    BY <1>5 DEF PushLands, Push, Submit, FInv, FTypeOK, Read
  <2> QED
    BY <2>2, <2>3 DEF FInv
<1> QED
  BY <1>1, <1>2, <1>3, <1>4, <1>5 DEF RunStep

LEMMA OthersKeep ==
  ASSUME FInv, Change \/ OtherPushLands \/ AddManualEdge \/ FRestart
  PROVE  FInv'
<1>1. CASE Change
  <2>1. source' \in [Export -> Version] /\ UpTo(source, source')
        /\ UNCHANGED <<stored, manual, run, disturbed>>
    BY <1>1 DEF Change
  <2>2. Read'
    BY <2>1, ReadGrows DEF run
  <2>3. FTypeOK'
    BY <2>1 DEF FInv, FTypeOK, run
  <2> QED
    BY <2>2, <2>3 DEF FInv
<1>2. CASE OtherPushLands
  <2>1. \A v \in [Export -> Version] : EdgesOf(v) \subseteq Edge
    BY FactsAssumption DEF FactsAssumption, EdgesOf
  <2>2. FTypeOK'
    BY <1>2, <2>1 DEF OtherPushLands, run, FInv, FTypeOK
  <2>3. Read'
    BY <1>2 DEF OtherPushLands, run, FInv, Read
  <2> QED
    BY <2>2, <2>3 DEF FInv
<1>3. CASE AddManualEdge
  <2>1. FTypeOK'
    BY <1>3, FactsAssumption DEF FactsAssumption, AddManualEdge, run, FInv, FTypeOK
  <2>2. Read'
    BY <1>3 DEF AddManualEdge, run, FInv, Read, UpTo
  <2> QED
    BY <2>1, <2>2 DEF FInv
<1>4. CASE FRestart
  <2>1. FTypeOK'
    BY <1>4, UnreadIsTyped, FetchAssumption
       DEF FRestart, Idle, FInv, FTypeOK, FetchAssumption
  <2>2. Read'
    BY <1>4, UnreadIsTyped DEF FRestart, Idle, FInv, FTypeOK, Read
  <2> QED
    BY <2>1, <2>2 DEF FInv
<1> QED
  BY <1>1, <1>2, <1>3, <1>4

LEMMA FNextInv == FInv /\ [FNext]_fetchVars => FInv'
<1> SUFFICES ASSUME FInv, [FNext]_fetchVars PROVE FInv'
  OBVIOUS
<1>1. CASE UNCHANGED fetchVars
  BY <1>1 DEF fetchVars, run, FInv, FTypeOK, Read, UpTo
<1> QED
  BY <1>1, BeginKeeps, StepsKeep, OthersKeep DEF FNext

LEMMA ReadIsWhole == FInv => WholeGraphs
<1> SUFFICES ASSUME FInv, NEW a \in Thread, stage[a] \in {Push, Submit}
             PROVE  UpTo(began[a], got[a]) /\ UpTo(got[a], source)
  BY DEF WholeGraphs
<1>1. \A i \in 1 .. 3 : stage[a] > i
  BY DEF Push, Submit
<1> QED
  BY <1>1, ExportsListed DEF FInv, Read, UpTo

\* Whatever GETs fail and are repeated, and however the data changes, a graph
\* that is pushed is whole, and fresh to the run.
THEOREM FetchesWholeGraphs ==
  FSpec => [](FTypeOK /\ WholeGraphs)
<1>1. FInv => FTypeOK /\ WholeGraphs
  BY ReadIsWhole DEF FInv
<1> QED
  BY FInitInv, FNextInv, <1>1, PTL DEF FSpec

-----------------------------------------------------------------------------
(* With data that only grows: what core's tables hold, seen from a run whose *)
(* push has not failed and that no other push has disturbed.                 *)

Supported == stored \subseteq EdgesOf(source) \cup manual

Undisturbed ==
  \A a \in Thread : ~disturbed[a] =>
    /\ stage[a] \in 1 .. 4 => stored \subseteq EdgesOf(began[a]) \cup manual
    /\ stage[a] = Submit => Graph(a) \subseteq stored /\ stored \subseteq Graph(a) \cup manual

GInv == FInv /\ Supported /\ Undisturbed

LEMMA EdgesGrow ==
  ASSUME Growing, NEW v \in [Export -> Version], NEW w \in [Export -> Version], UpTo(v, w)
  PROVE  EdgesOf(v) \subseteq EdgesOf(w)
BY DEF Growing, EdgesOf, UpTo

LEMMA GInitInv == FInit => GInv
<1> SUFFICES ASSUME FInit PROVE GInv
  OBVIOUS
<1>1. Supported /\ Undisturbed
  BY DEF FInit, Supported, Undisturbed, Idle, Submit
<1> QED
  BY <1>1, FInitInv DEF GInv

\* Runs that are not at their push when something else happens.
LEMMA GBegin ==
  ASSUME GInv, NEW a \in Thread, Begin(a)
  PROVE  Supported' /\ Undisturbed'
<1>1. Supported'
  BY DEF Begin, GInv, Supported, EdgesOf
<1>2. ASSUME NEW b \in Thread, b # a
      PROVE  /\ stage'[b] = stage[b] /\ began'[b] = began[b] /\ got'[b] = got[b]
             /\ disturbed'[b] = disturbed[b]
  BY <1>2 DEF Begin, GInv, FInv, FTypeOK
<1>3. stage'[a] = 1 /\ began'[a] = source /\ stored' = stored /\ manual' = manual
  BY DEF Begin, GInv, FInv, FTypeOK
<1>4. Undisturbed'
  BY <1>2, <1>3 DEF GInv, Supported, Undisturbed, Graph, EdgesOf, Submit
<1> QED
  BY <1>1, <1>4

LEMMA GEnd ==
  ASSUME GInv, NEW a \in Thread, End(a), UNCHANGED <<source, stored, manual, disturbed>>
  PROVE  Supported' /\ Undisturbed'
<1>1. Supported'
  BY DEF GInv, Supported, EdgesOf
<1>2. ASSUME NEW b \in Thread, b # a
      PROVE  /\ stage'[b] = stage[b] /\ began'[b] = began[b] /\ got'[b] = got[b]
  BY <1>2 DEF End, GInv, FInv, FTypeOK
<1>3. stage'[a] = Idle
  BY DEF End, GInv, FInv, FTypeOK
<1>4. Undisturbed'
  BY <1>2, <1>3 DEF GInv, Undisturbed, Graph, EdgesOf, Submit, Idle
<1> QED
  BY <1>1, <1>4

LEMMA GRunStep ==
  ASSUME GInv, NEW a \in Thread, RunStep(a)
  PROVE  Supported' /\ Undisturbed'
<1>1. CASE GetOk(a)
  <2>1. /\ stage[a] \in 1 .. 3 /\ stage' = [stage EXCEPT ![a] = @ + 1]
        /\ UNCHANGED <<source, stored, manual, began, disturbed>>
        /\ \A b \in Thread : b # a => got'[b] = got[b]
    BY <1>1 DEF GetOk, Getting, GInv, FInv, FTypeOK
  <2>2. stage'[a] \in 1 .. 4 /\ \A b \in Thread : b # a => stage'[b] = stage[b]
    BY <2>1 DEF GInv, FInv, FTypeOK
  <2>3. Supported'
    BY <2>1 DEF GInv, Supported, EdgesOf
  <2>4. Undisturbed'
    BY <2>1, <2>2 DEF GInv, Undisturbed, Graph, EdgesOf, Submit
  <2> QED
    BY <2>3, <2>4
<1>2. CASE GetFails(a)
  BY <1>2 DEF GetFails, GInv, Supported, Undisturbed, Graph, EdgesOf
<1>3. CASE GetGivesUp(a) \/ SubmitAndEnd(a)
  BY <1>3, GEnd DEF GetGivesUp, SubmitAndEnd
<1>4. CASE PushFails(a)
  <2>1. /\ UNCHANGED <<source, stored, manual, began, got>>
        /\ disturbed'[a] = TRUE
        /\ \A b \in Thread : b # a => stage'[b] = stage[b] /\ disturbed'[b] = disturbed[b]
    BY <1>4 DEF PushFails, GInv, FInv, FTypeOK
  <2> QED
    BY <2>1 DEF GInv, Supported, Undisturbed, Graph, EdgesOf
<1> QED
  BY <1>1, <1>2, <1>3, <1>4 DEF RunStep

LEMMA GPushLands ==
  ASSUME Growing, GInv, NEW a \in Thread, PushLands(a)
  PROVE  Supported' /\ Undisturbed'
<1>1. /\ stage[a] = Push /\ stored' = stored \cup Graph(a)
      /\ stage'[a] = Submit
      /\ UNCHANGED <<source, manual, got, began>>
      /\ disturbed'[a] = disturbed[a]
      /\ \A b \in Thread \ {a} : /\ stage'[b] = stage[b]
                                 /\ ~disturbed'[b] => stage[b] = Idle
  BY DEF PushLands, GInv, FInv, FTypeOK
<1>2. /\ source \in [Export -> Version] /\ got[a] \in [Export -> Version]
      /\ began[a] \in [Export -> Version]
  BY DEF GInv, FInv, FTypeOK
<1>3. UpTo(began[a], got[a]) /\ UpTo(got[a], source)
  BY <1>1, ReadIsWhole DEF GInv, WholeGraphs
<1>4. EdgesOf(began[a]) \subseteq Graph(a) /\ Graph(a) \subseteq EdgesOf(source)
  BY <1>2, <1>3, EdgesGrow DEF Graph
<1>5. Supported'
  BY <1>1, <1>4 DEF GInv, Supported, EdgesOf
<1>6. ~disturbed[a] => stored \subseteq EdgesOf(began[a]) \cup manual
  BY <1>1 DEF GInv, Undisturbed, Push
<1>7. Graph(a)' = Graph(a)
  BY <1>1 DEF Graph, EdgesOf
<1>8. ~disturbed'[a] => Graph(a) \subseteq stored' /\ stored' \subseteq Graph(a) \cup manual
  BY <1>1, <1>4, <1>6
<1>9. Undisturbed'
  BY <1>1, <1>7, <1>8 DEF Undisturbed, Idle, Submit
<1> QED
  BY <1>5, <1>9

LEMMA GOthers ==
  ASSUME Growing, GInv, Change \/ OtherPushLands \/ AddManualEdge \/ FRestart
  PROVE  Supported' /\ Undisturbed'
<1>1. CASE Change
  <2>1. source' \in [Export -> Version] /\ UpTo(source, source')
        /\ UNCHANGED <<stored, manual, stage, got, began, disturbed>>
    BY <1>1 DEF Change, run
  <2>2. EdgesOf(source) \subseteq EdgesOf(source')
    BY <2>1, EdgesGrow DEF GInv, FInv, FTypeOK
  <2>3. Supported'
    BY <2>1, <2>2 DEF GInv, Supported, EdgesOf
  <2>4. Undisturbed'
    BY <2>1 DEF GInv, Undisturbed, Graph, EdgesOf
  <2> QED
    BY <2>3, <2>4
<1>2. CASE OtherPushLands
  <2>1. PICK v \in [Export -> Version] : UpTo(v, source) /\ stored' = stored \cup EdgesOf(v)
    BY <1>2 DEF OtherPushLands
  <2>2. EdgesOf(v) \subseteq EdgesOf(source)
    BY <2>1, EdgesGrow DEF GInv, FInv, FTypeOK
  <2>3. UNCHANGED <<source, manual, stage>> /\ \A a \in Thread : ~disturbed'[a] => stage[a] = Idle
    BY <1>2 DEF OtherPushLands, run
  <2>4. Supported'
    BY <2>1, <2>2, <2>3 DEF GInv, Supported, EdgesOf
  <2>5. Undisturbed'
    BY <2>3 DEF Undisturbed, Idle, Submit
  <2> QED
    BY <2>4, <2>5
<1>3. CASE AddManualEdge
  <2>1. PICK e \in ManualEdge : manual' = manual \cup {e} /\ stored' = stored \cup {e}
    BY <1>3 DEF AddManualEdge
  <2>2. UNCHANGED <<source, stage, got, began, disturbed>>
    BY <1>3 DEF AddManualEdge, run
  <2>3. Supported'
    BY <2>1, <2>2 DEF GInv, Supported, EdgesOf
  <2>4. Undisturbed'
    BY <2>1, <2>2 DEF GInv, Undisturbed, Graph, EdgesOf
  <2> QED
    BY <2>3, <2>4
<1>4. CASE FRestart
  <2>1. UNCHANGED <<source, stored, manual>> /\ \A a \in Thread : stage'[a] = Idle
    BY <1>4 DEF FRestart
  <2> QED
    BY <2>1 DEF GInv, Supported, Undisturbed, EdgesOf, Idle, Submit
<1> QED
  BY <1>1, <1>2, <1>3, <1>4

LEMMA GNextInv == Growing /\ GInv /\ [FNext]_fetchVars => GInv'
<1> SUFFICES ASSUME Growing, GInv, [FNext]_fetchVars PROVE GInv'
  OBVIOUS
<1>1. FInv'
  BY FNextInv DEF GInv
<1>2. Supported' /\ Undisturbed'
  <2>1. CASE UNCHANGED fetchVars
    BY <2>1 DEF fetchVars, run, GInv, Supported, Undisturbed, Graph, EdgesOf
  <2> QED
    BY <2>1, GBegin, GRunStep, GPushLands, GOthers DEF FNext
<1> QED
  BY <1>1, <1>2 DEF GInv

LEMMA UndisturbedAgrees == GInv => FlagsNeedARival
<1> SUFFICES ASSUME GInv, NEW a \in Thread, stage[a] = Submit, ~disturbed[a], manual = {}
             PROVE  CoreAgrees(a)
  BY DEF FlagsNeedARival, GInv, FInv, FTypeOK
<1>1. Graph(a) = stored
  BY DEF GInv, Undisturbed
<1> QED
  BY <1>1 DEF CoreAgrees

\* As long as data is only added to, a torn graph alone never makes core flag
\* a derivation.
THEOREM TornGraphsAgree ==
  ASSUME Growing
  PROVE  FSpec => []FlagsNeedARival
<1>1. GInv /\ [FNext]_fetchVars => GInv'
  BY GNextInv
<1> QED
  BY GInitInv, <1>1, UndisturbedAgrees, PTL DEF FSpec

-----------------------------------------------------------------------------
(* The composition.  Its steps are steps of the two components, so that both *)
(* promises carry over; its own is about where a notification's change ends. *)

LEMMA StepsAreTheirs == [Next]_vars => [WNext]_webhookVars /\ [FNext]_fetchVars
<1> SUFFICES ASSUME [Next]_vars PROVE [WNext]_webhookVars /\ [FNext]_fetchVars
  OBVIOUS
<1>1. ASSUME NEW d \in Notice, NEW ip \in Sender, Arrives(d, ip)
      PROVE  WNext /\ UNCHANGED fetchVars
  BY <1>1 DEF Arrives, WNext
<1>2. ASSUME NEW a \in Thread, NEW d \in Notice, BeginRun(a, d) PROVE WNext /\ FNext
  BY <1>2 DEF BeginRun, WNext, FNext
<1>3. ASSUME NEW a \in Thread, Run(a) PROVE UNCHANGED webhookVars /\ FNext
  BY <1>3 DEF Run, FNext
<1>4. CASE Elsewhere
  BY <1>4 DEF Elsewhere, FNext
<1>5. CASE Clock
  BY <1>5 DEF Clock, WNext
<1>6. CASE Restart
  BY <1>6 DEF Restart, WNext, FNext
<1>7. CASE UNCHANGED vars
  BY <1>7 DEF vars
<1>8. ASSUME NEW d \in Notice, SkipRun(d) PROVE WNext /\ UNCHANGED fetchVars
  BY <1>8 DEF SkipRun, WNext
<1> QED
  BY <1>1, <1>2, <1>3, <1>4, <1>5, <1>6, <1>7, <1>8 DEF Next

\* EventPath implements its two components.
THEOREM EventPathIsBoth == Spec => WSpec /\ FSpec
<1>1. Init => WInit /\ FInit
  BY DEF Init
<1> QED
  BY <1>1, StepsAreTheirs, PTL DEF Spec, WSpec, FSpec

\* A 401 for a repeated notification loses nothing, and a process takes a
\* notification on once, whatever its runs do.
THEOREM EventPathTakesOnce == Spec => []RefusalsAreHonest /\ AcceptedOnce
BY EventPathIsBoth, WebhookPromises, PTL

\* Every graph a background task pushes is whole.
THEOREM EventPathWholeGraphs == Spec => []WholeGraphs
BY EventPathIsBoth, FetchesWholeGraphs, PTL

\* Core flags an undisturbed run only over edges added by hand.
THEOREM EventPathFlags ==
  ASSUME Growing
  PROVE  Spec => []FlagsNeedARival
BY EventPathIsBoth, TornGraphsAgree, PTL

CauseType ==
  /\ cause \in [Thread -> SUBSET Notice]
  /\ landed \subseteq Notice

\* What is waiting or running was announced: the change was there when the
\* notification came, and so when its run began.
Announced ==
  /\ \A d \in Notice : tasks[d] > 0 => Announces[d] <= source["ai-systems"]
  /\ \A a \in Thread : stage[a] # Idle =>
       \A d \in cause[a] : Announces[d] <= began[a]["ai-systems"]

PInv == WInv /\ FInv /\ CauseType /\ Announced

LEMMA PInitInv == Init => PInv
<1> SUFFICES ASSUME Init PROVE PInv
  OBVIOUS
<1>1. WInv /\ FInv
  BY WInitInv, FInitInv DEF Init
<1>2. CauseType /\ Announced
  BY DEF Init, WInit, FInit, Nothing, CauseType, Announced
<1> QED
  BY <1>1, <1>2 DEF PInv

LEMMA CauseTypeKept == CauseType /\ [Next]_vars => CauseType'
<1> SUFFICES ASSUME CauseType, [Next]_vars PROVE CauseType'
  OBVIOUS
<1>1. ASSUME NEW d \in Notice, NEW ip \in Sender, Arrives(d, ip) PROVE CauseType'
  BY <1>1 DEF Arrives, CauseType
<1>2. ASSUME NEW a \in Thread, NEW d \in Notice, BeginRun(a, d) PROVE CauseType'
  BY <1>2 DEF BeginRun, CauseType
<1>6. ASSUME NEW d \in Notice, SkipRun(d) PROVE CauseType'
  BY <1>6 DEF SkipRun, CauseType
<1>3. ASSUME NEW a \in Thread, Run(a) PROVE CauseType'
  BY <1>3 DEF Run, CauseType
<1>4. CASE Elsewhere \/ Clock \/ Restart
  BY <1>4 DEF Elsewhere, Clock, Restart, CauseType
<1>5. CASE UNCHANGED vars
  BY <1>5 DEF vars, CauseType
<1> QED
  BY <1>1, <1>2, <1>3, <1>4, <1>5, <1>6 DEF Next

LEMMA AnnouncedKept == PInv /\ [Next]_vars => Announced'
<1> SUFFICES ASSUME PInv, [Next]_vars PROVE Announced'
  OBVIOUS
<1>0. /\ "ai-systems" \in Export
      /\ tasks \in [Notice -> Nat] /\ source \in [Export -> Version]
      /\ stage \in [Thread -> 0 .. 5] /\ began \in [Thread -> [Export -> Version]]
      /\ cause \in [Thread -> SUBSET Notice]
      /\ \A d \in Notice : Announces[d] \in Version
      /\ \A v \in Version : v \in Nat
      /\ Announced
  BY FactsAssumption, AnnouncesAssumption
     DEF FactsAssumption, AnnouncesAssumption, Version, Export, PInv, WInv, WTypeOK, FInv,
         FTypeOK, CauseType
<1>1. ASSUME NEW d \in Notice, NEW ip \in Sender, Arrives(d, ip) PROVE Announced'
  <2>1. UNCHANGED <<source, stage, began, cause>> /\ Announces[d] <= source["ai-systems"]
    BY <1>1 DEF Arrives, fetchVars, run
  <2>2. \A o \in Notice : o # d => tasks'[o] = tasks[o]
    BY <1>0, <1>1 DEF Arrives, Deliver, Accept, Unreadable, Refuse
  <2> QED
    BY <1>0, <2>1, <2>2 DEF Announced
<1>2. ASSUME NEW a \in Thread, NEW d \in Notice, BeginRun(a, d) PROVE Announced'
  <2>1. /\ tasks[d] > 0 /\ tasks' = [tasks EXCEPT ![d] = @ - 1]
        /\ UNCHANGED source
        /\ began'[a] = source /\ cause'[a] = {d}
        /\ \A b \in Thread : b # a =>
             stage'[b] = stage[b] /\ began'[b] = began[b] /\ cause'[b] = cause[b]
    BY <1>0, <1>2 DEF BeginRun, BeginTask, Begin
  <2>2. \A o \in Notice : tasks'[o] > 0 => tasks[o] > 0
    BY <1>0, <2>1
  <2> QED
    BY <1>0, <2>1, <2>2 DEF Announced
<1>8. ASSUME NEW d \in Notice, SkipRun(d) PROVE Announced'
  <2>1. /\ tasks[d] > 0 /\ tasks' = [tasks EXCEPT ![d] = @ - 1]
        /\ UNCHANGED <<source, stage, began, cause>>
    BY <1>8 DEF SkipRun, BeginTask, fetchVars, run
  <2>2. \A o \in Notice : tasks'[o] > 0 => tasks[o] > 0
    BY <1>0, <2>1
  <2> QED
    BY <1>0, <2>1, <2>2 DEF Announced
<1>3. ASSUME NEW a \in Thread, Run(a) PROVE Announced'
  <2>1. UNCHANGED <<tasks, source, cause>>
    BY <1>3 DEF Run, RunStep, PushLands, GetOk, GetFails, GetGivesUp, PushFails, SubmitAndEnd,
                webhookVars
  <2>2. \A b \in Thread : stage'[b] # Idle => stage[b] # Idle /\ began'[b] = began[b]
    BY <1>0, <1>3 DEF Run, RunStep, PushLands, GetOk, Getting, GetFails, GetGivesUp, PushFails,
                      SubmitAndEnd, End, Idle, Push, Submit
  <2> QED
    BY <1>0, <2>1, <2>2 DEF Announced
<1>4. CASE Elsewhere
  <2>1. UNCHANGED <<tasks, stage, began, cause>>
    BY <1>4 DEF Elsewhere, Change, OtherPushLands, AddManualEdge, run, webhookVars
  <2>2. source' \in [Export -> Version] /\ source["ai-systems"] <= source'["ai-systems"]
    BY <1>0, <1>4 DEF Elsewhere, Change, OtherPushLands, AddManualEdge, UpTo
  <2> QED
    BY <1>0, <2>1, <2>2 DEF Announced
<1>5. CASE Clock
  BY <1>0, <1>5 DEF Clock, Tick, fetchVars, run, Announced
<1>6. CASE Restart
  <2>1. (\A d \in Notice : tasks'[d] = 0) /\ (\A a \in Thread : stage'[a] = Idle)
    BY <1>6 DEF Restart, WRestart, FRestart, Nothing
  <2> QED
    BY <2>1 DEF Announced
<1>7. CASE UNCHANGED vars
  BY <1>0, <1>7 DEF vars, webhookVars, fetchVars, run, Announced
<1> QED
  BY <1>1, <1>2, <1>3, <1>4, <1>5, <1>6, <1>7, <1>8 DEF Next

LEMMA PNextInv == PInv /\ [Next]_vars => PInv'
<1> SUFFICES ASSUME PInv, [Next]_vars PROVE PInv'
  OBVIOUS
<1>1. WInv' /\ FInv'
  BY StepsAreTheirs, WNextInv, FNextInv DEF PInv
<1> QED
  BY <1>1, CauseTypeKept, AnnouncedKept DEF PInv

\* Type correctness, and with it the cap of the replay cache.
THEOREM EventPathTypes == Spec => []TypeOK
<1>1. PInv => TypeOK
  BY DEF PInv, WInv, FInv, CauseType, TypeOK
<1> QED
  BY PInitInv, PNextInv, <1>1, PTL DEF Spec

LEMMA LandedKept ==
  ASSUME Growing, PInv, ActedOnIsStored, [Next]_vars
  PROVE  ActedOnIsStored'
<1>2. ASSUME NEW a \in Thread, Run(a), PushLands(a), landed' = landed \cup cause[a]
      PROVE  ActedOnIsStored'
  <2>1. /\ stage[a] = Push /\ stored' = stored \cup Graph(a)
    BY <1>2 DEF PushLands
  <2>2. UpTo(began[a], got[a])
    BY <2>1, ReadIsWhole DEF PInv, WholeGraphs
  <2>3. /\ "ai-systems" \in Export
        /\ got[a] \in [Export -> Version] /\ began[a] \in [Export -> Version]
        /\ \A d \in Notice : Announces[d] \in Version
        /\ \A v \in Version : v \in Nat
        /\ cause[a] \subseteq Notice
    BY FactsAssumption, AnnouncesAssumption
       DEF FactsAssumption, AnnouncesAssumption, Version, Export, PInv, FInv, FTypeOK, CauseType
  <2>4. \A d \in cause[a] : Announces[d] <= began[a]["ai-systems"]
    BY <2>1 DEF PInv, Announced, Push, Idle
  <2>5. began[a]["ai-systems"] <= got[a]["ai-systems"]
    BY <2>2, <2>3 DEF UpTo
  <2>6. ASSUME NEW d \in cause[a]
        PROVE  Facts["ai-systems"][Announces[d]] \subseteq Graph(a)
    <3>1. Announces[d] <= got[a]["ai-systems"]
      BY <2>3, <2>4, <2>5, Announces[d] \in Nat, began[a]["ai-systems"] \in Nat,
         got[a]["ai-systems"] \in Nat
    <3>2. Facts["ai-systems"][Announces[d]] \subseteq Facts["ai-systems"][got[a]["ai-systems"]]
      BY <2>3, <3>1 DEF Growing
    <3>3. Facts["ai-systems"][got[a]["ai-systems"]] \subseteq Graph(a)
      BY <2>3 DEF Graph, EdgesOf
    <3> QED
      BY <3>2, <3>3
  <2> QED
    BY <1>2, <2>1, <2>6 DEF ActedOnIsStored
<1>3. landed' = landed /\ stored \subseteq stored' => ActedOnIsStored'
  BY DEF ActedOnIsStored
<1>4. CASE Elsewhere
  BY <1>3, <1>4 DEF Elsewhere, Change, OtherPushLands, AddManualEdge
<1>5. ASSUME NEW a \in Thread, NEW d \in Notice, BeginRun(a, d) PROVE ActedOnIsStored'
  BY <1>3, <1>5 DEF BeginRun, Begin
<1>6. ASSUME NEW a \in Thread, RunStep(a), UNCHANGED landed PROVE ActedOnIsStored'
  BY <1>3, <1>6 DEF RunStep, GetOk, GetFails, GetGivesUp, PushFails, SubmitAndEnd
<1>7. CASE UNCHANGED vars
  BY <1>3, <1>7 DEF vars, fetchVars
<1>8. CASE Clock
  BY <1>3, <1>8 DEF Clock, fetchVars
<1>9. CASE Restart
  BY <1>3, <1>9 DEF Restart, FRestart
<1>10. ASSUME NEW d \in Notice, NEW ip \in Sender, Arrives(d, ip) PROVE ActedOnIsStored'
  BY <1>3, <1>10 DEF Arrives, fetchVars
<1>11. ASSUME NEW a \in Thread, Run(a) PROVE ActedOnIsStored'
  BY <1>2, <1>6, <1>11 DEF Run
<1>12. ASSUME NEW d \in Notice, SkipRun(d) PROVE ActedOnIsStored'
  BY <1>3, <1>12 DEF SkipRun, fetchVars
<1> QED
  BY <1>4, <1>5, <1>7, <1>8, <1>9, <1>10, <1>11, <1>12 DEF Next

\* End to end, as long as data is only added to: once a run for a notification
\* has pushed, the change the notification tells of is in core's graph tables.
THEOREM EventPathStoresTheChange ==
  ASSUME Growing
  PROVE  Spec => []ActedOnIsStored
<1>1. Init => ActedOnIsStored
  BY DEF Init, ActedOnIsStored
<1>2. PInv /\ ActedOnIsStored /\ [Next]_vars => ActedOnIsStored'
  BY LandedKept
<1> QED
  BY PInitInv, PNextInv, <1>1, <1>2, PTL DEF Spec
=============================================================================
