------------------------ MODULE SafetyNetSweep_proofs ------------------------
(***************************************************************************)
(* Proofs about SafetyNetSweep for every limit, window, chunk size, pace,   *)
(* number of attempts, fleet size and other traffic.                        *)
(***************************************************************************)
EXTENDS SafetyNetSweep, TLAPS

(***************************************************************************)
(* Type correctness.                                                        *)
(***************************************************************************)
Record == [age : 0 .. Window, count : 0 .. Limit]

\* The window a caller without lag is charged to (InUse).
LEMMA InUseType ==
  ASSUME window \in Record \cup {NoWindow}
  PROVE  /\ InUse(window, 0) \in Record
         /\ InUse(window, 0).count # 0 =>
              /\ window # NoWindow /\ window.age < Window
              /\ InUse(window, 0) = window
BY LimitAssumption, WindowAssumption DEF InUse, Record, NoWindow

\* Charging units that fit keeps the count within the limit (Charged).
LEMMA ChargedType ==
  ASSUME NEW w \in Record, NEW n \in Nat, Fits(w, n)
  PROVE  /\ Charged(w, n) \in Record
         /\ Charged(w, n) = [age |-> w.age, count |-> w.count + n]
BY LimitAssumption DEF Charged, Fits, Record

\* A POST of the sweep costs at least one unit and a chunk at most ChunkSize.
LEMMA UnitsType ==
  ASSUME TypeOK, Posting
  PROVE  /\ Units \in Nat \ {0}
         /\ pc = "structure" => Units = 1
         /\ pc = "push" => Units <= ChunkSize /\ Units = ChunkLength
BY SweepAssumption DEF TypeOK, Posting, Units, ChunkLength

\* Going on to the next POST, or ending, keeps the sweep's variables typed.
LEMMA ProceedType ==
  ASSUME TypeOK, Posting, Proceed \/ Attempted
  PROVE  /\ pc' \in {"idle", "structure", "push", "pacing"}
         /\ left' \in Nat
         /\ tries' \in 0 .. MaxAttempts - 1
         /\ wait' \in 0 .. Pace
         /\ pc' \in {"push", "pacing"} => left' > 0
<1>1. CASE Proceed
  <2>1. pc = "push" => ChunkLength \in Nat /\ ChunkLength <= left
    BY SweepAssumption DEF TypeOK, ChunkLength
  <2>2. QED
    BY <1>1, <2>1, SweepAssumption DEF Proceed, TypeOK
<1>2. CASE Attempted /\ ~Proceed
  BY <1>2, SweepAssumption DEF Attempted, TypeOK
<1>3. QED
  BY <1>1, <1>2

\* One step keeps the types.
LEMMA TypeStep == TypeOK /\ [Next]_vars => TypeOK'
<1> SUFFICES ASSUME TypeOK, [Next]_vars PROVE TypeOK'
  OBVIOUS
<1>0. window \in Record \cup {NoWindow} /\ InUse(window, 0) \in Record
  BY InUseType DEF TypeOK, Record
<1>1. CASE Start
  BY <1>1, SweepAssumption DEF Start, TypeOK
<1>2. CASE Accepted \/ AnswerLost
  <2>1. window' \in Record
    BY <1>0, <1>2, UnitsType, ChargedType DEF Accepted, AnswerLost
  <2>2. QED
    BY <1>2, <2>1, ProceedType DEF Accepted, AnswerLost, TypeOK, Record
<1>3. CASE Unreached
  BY <1>3, ProceedType DEF Unreached, TypeOK
<1>4. CASE Refused
  BY <1>0, <1>4, ProceedType DEF Refused, TypeOK, Record
<1>5. CASE WakeUp
  BY <1>5 DEF WakeUp, TypeOK
<1>6. CASE OtherTraffic
  <2>1. PICK n \in Traffic :
          window' = IF Fits(InUse(window, 0), n)
                    THEN Charged(InUse(window, 0), n) ELSE InUse(window, 0)
    BY <1>6 DEF OtherTraffic
  <2>2. window' \in Record
    BY <1>0, <2>1, ChargedType, SweepAssumption
  <2>3. QED
    BY <1>6, <2>2 DEF OtherTraffic, TypeOK, Record
<1>7. CASE CoreRestart
  BY <1>7 DEF CoreRestart, TypeOK
<1>8. CASE Tick
  <2>1. window' \in Record \cup {NoWindow}
    BY <1>0, <1>8, WindowAssumption DEF Tick, Older, Record
  <2>2. wait' \in 0 .. Pace
    BY <1>8, SweepAssumption DEF Tick, TypeOK
  <2>3. QED
    BY <1>8, <2>1, <2>2 DEF Tick, TypeOK, Record
<1>9. CASE UNCHANGED vars
  BY <1>9 DEF vars, TypeOK
<1>10. QED
  BY <1>1, <1>2, <1>3, <1>4, <1>5, <1>6, <1>7, <1>8, <1>9 DEF Next, SweepStep

\* Every variable keeps its type; the key is never charged beyond the limit.
THEOREM TypeCorrect == Spec => []TypeOK
<1>1. Init => TypeOK
  <2> SUFFICES ASSUME Init PROVE TypeOK
    OBVIOUS
  <2>1. tries \in 0 .. MaxAttempts - 1 /\ wait \in 0 .. Pace
    BY SweepAssumption DEF Init
  <2>2. QED
    BY <2>1 DEF Init, TypeOK
<1>2. QED
  BY <1>1, TypeStep, PTL DEF Spec

(***************************************************************************)
(* A quiet sweep is never refused if its chunks fit.  Within one window it  *)
(* can begin at most K chunks, K pauses being at least a window long.  Of   *)
(* the chunks that came before, m were charged to the window in use: then   *)
(* m pauses have passed since it was opened, and each of the m cost at most *)
(* its length in every attempt.                                             *)
(***************************************************************************)
ChunkCost == MaxAttempts * ChunkSize

Running == window # NoWindow /\ window.age < Window

Before(m) ==
  IF pc = "pacing"
  THEN /\ window.count <= MaxAttempts + m * ChunkCost
       /\ window.age + wait >= m * Pace
  ELSE /\ window.count <= MaxAttempts + m * ChunkCost + tries * ChunkSize
       /\ window.age >= m * Pace

QuietInv ==
  quiet =>
    /\ ~refused
    /\ pc = "structure" /\ Running => window.count <= tries
    /\ pc \in {"push", "pacing"} /\ Running => \E m \in Nat : Before(m)

\* Sized: what is assumed of the settings.
Sized(K) == /\ K \in Nat \ {0}
            /\ K * Pace >= Window
            /\ MaxAttempts + K * ChunkCost <= Limit

\* Arithmetic of m chunks (or pauses) and one more.
LEMMA OneMore ==
  ASSUME NEW m \in Nat, NEW c \in Nat
  PROVE  (m + 1) * c = m * c + c /\ m * c \in Nat
BY SMT

\* While a window runs, fewer than K chunks can have been charged to it.
LEMMA FewChunks ==
  ASSUME NEW K, Sized(K), NEW m \in Nat, m * Pace < Window
  PROVE  m + 1 <= K /\ (m + 1) * ChunkCost <= K * ChunkCost
<1>1. m < K
  <2> SUFFICES ASSUME m >= K PROVE FALSE
    BY DEF Sized
  <2>1. m * Pace >= K * Pace
    BY SweepAssumption DEF Sized
  <2>2. QED
    BY <2>1, WindowAssumption, SweepAssumption DEF Sized
<1>2. ChunkCost \in Nat
  BY SweepAssumption DEF ChunkCost
<1>3. QED
  BY <1>1, <1>2 DEF Sized

\* Every attempt at a chunk but its last leaves room for one more attempt.
LEMMA TriesCost ==
  ASSUME TypeOK
  PROVE  /\ tries * ChunkSize \in Nat
         /\ (tries + 1) * ChunkSize = tries * ChunkSize + ChunkSize
         /\ tries * ChunkSize + ChunkSize <= ChunkCost
         /\ ChunkCost \in Nat
<1>1. tries \in Nat /\ tries + 1 <= MaxAttempts
  BY SweepAssumption DEF TypeOK
<1>2. (tries + 1) * ChunkSize <= MaxAttempts * ChunkSize
  BY <1>1, SweepAssumption
<1>3. QED
  BY <1>1, <1>2, OneMore, SweepAssumption DEF ChunkCost

\* A running window is the one that is charged.
LEMMA RunningInUse ==
  ASSUME TypeOK, Running
  PROVE  InUse(window, 0) = window /\ window \in Record
<1>1. window \in Record
  BY DEF TypeOK, Running, Record
<1>2. window.age \in Int /\ window.age < Window /\ window # NoWindow
  BY <1>1 DEF Record, Running
<1>3. QED
  BY <1>1, <1>2, WindowAssumption DEF InUse

\* A window that does not run is replaced by an empty one.
LEMMA NotRunningInUse ==
  ASSUME TypeOK, ~Running
  PROVE  InUse(window, 0) = [age |-> 0, count |-> 0]
<1>1. CASE window = NoWindow
  BY <1>1 DEF InUse
<1>2. CASE window # NoWindow
  <2>1. window.age \in Int /\ ~(window.age < Window)
    BY <1>2 DEF TypeOK, Running
  <2>2. QED
    BY <2>1, WindowAssumption DEF InUse
<1>3. QED
  BY <1>1, <1>2

\* In a quiet sweep the POST the sweep is at fits into the window.
LEMMA QuietFits ==
  ASSUME NEW K, Sized(K), TypeOK, QuietInv, quiet, Posting
  PROVE  Fits(InUse(window, 0), Units)
<1>0. ChunkCost \in Nat /\ K * ChunkCost \in Nat /\ ChunkCost <= K * ChunkCost
  BY SweepAssumption DEF ChunkCost, Sized
<1>1. CASE ~Running
  <2>1. InUse(window, 0).count = 0
    BY <1>1, NotRunningInUse
  <2>2. Units <= MaxAttempts + ChunkCost
    BY UnitsType, TriesCost, SweepAssumption DEF Posting, TypeOK
  <2>3. QED
    BY <1>0, <2>1, <2>2, UnitsType, LimitAssumption, SweepAssumption
    DEF Fits, Sized
<1>2. CASE Running
  <2>0. InUse(window, 0) = window /\ window \in Record
    BY <1>2, RunningInUse
  <2>1. CASE pc = "structure"
    BY <1>0, <1>2, <2>0, <2>1, UnitsType, SweepAssumption, LimitAssumption
    DEF QuietInv, TypeOK, Fits, Sized, Record
  <2>2. CASE pc = "push"
    <3>1. PICK m \in Nat : Before(m)
      BY <1>2, <2>2 DEF QuietInv
    <3>2. /\ window.count <= MaxAttempts + m * ChunkCost + tries * ChunkSize
          /\ m * Pace < Window
          /\ m * Pace \in Nat
      BY <1>2, <2>0, <2>2, <3>1, WindowAssumption, SweepAssumption
      DEF Before, Running, Record
    <3>3. (m + 1) * ChunkCost <= K * ChunkCost
      BY <3>2, FewChunks
    <3>4. (m + 1) * ChunkCost = m * ChunkCost + ChunkCost /\ m * ChunkCost \in Nat
      BY <1>0, OneMore
    <3>5. window.count \in Nat /\ Units \in Nat /\ Units <= ChunkSize
      BY <2>0, <2>2, UnitsType, LimitAssumption DEF Record
    <3>6. tries * ChunkSize + ChunkSize <= ChunkCost /\ tries * ChunkSize \in Nat
      BY TriesCost
    <3>7. QED
      BY <1>0, <2>0, <3>2, <3>3, <3>4, <3>5, <3>6, SweepAssumption,
         LimitAssumption DEF Fits, Sized
  <2>3. QED
    BY <2>1, <2>2 DEF Posting
<1>3. QED
  BY <1>1, <1>2

\* What one more attempt adds to the window, whether it was charged or not.
OneAttemptMore ==
  /\ pc = "structure" /\ Running' => window'.count <= tries + 1
  /\ pc = "push" /\ Running' =>
       \E m \in Nat :
         /\ window'.count <= MaxAttempts + m * ChunkCost
                              + tries * ChunkSize + ChunkSize
         /\ window'.age >= m * Pace

\* An attempt adds at most that much (the charge precedes everything else).
LEMMA AttemptCounted ==
  ASSUME TypeOK, QuietInv, quiet, Posting,
         \/ window' = window
         \/ /\ Fits(InUse(window, 0), Units)
            /\ window' = Charged(InUse(window, 0), Units)
  PROVE  OneAttemptMore
<1>0. /\ tries \in Nat /\ tries * ChunkSize \in Nat /\ ChunkCost \in Nat
      /\ Units \in Nat /\ ChunkSize \in Nat /\ MaxAttempts \in Nat
  BY TriesCost, UnitsType, SweepAssumption DEF TypeOK
<1>1. CASE window' = window /\ Running
  <2>1. window.count \in Nat
    BY <1>1, RunningInUse, LimitAssumption DEF Record
  <2>2. CASE pc = "structure"
    BY <1>0, <1>1, <2>1, <2>2 DEF QuietInv, OneAttemptMore
  <2>3. CASE pc = "push"
    <3>1. PICK m \in Nat : Before(m)
      BY <1>1, <2>3 DEF QuietInv
    <3>2. m * ChunkCost \in Nat
      BY <1>0, OneMore
    <3>3. /\ window.count <= MaxAttempts + m * ChunkCost + tries * ChunkSize
          /\ window.age >= m * Pace
      BY <2>3, <3>1 DEF Before
    <3>4. window.count <= MaxAttempts + m * ChunkCost
                            + tries * ChunkSize + ChunkSize
      BY <1>0, <2>1, <3>2, <3>3
    <3>5. QED
      BY <1>1, <2>3, <3>3, <3>4 DEF OneAttemptMore
  <2>4. QED
    BY <2>2, <2>3 DEF Posting
<1>2. CASE window' = window /\ ~Running
  BY <1>2 DEF OneAttemptMore, Running
<1>3. CASE /\ Fits(InUse(window, 0), Units)
           /\ window' = Charged(InUse(window, 0), Units)
  <2>0. /\ pc = "structure" => Units = 1
        /\ pc = "push" => Units <= ChunkSize
    BY UnitsType
  <2>1. CASE ~Running
    <3>1. window'.age = 0 /\ window'.count = Units
      BY <1>0, <1>3, <2>1, NotRunningInUse DEF Charged
    <3>2. 0 * Pace = 0 /\ 0 * ChunkCost = 0
      BY <1>0, SweepAssumption
    <3>3. CASE pc = "structure"
      BY <1>0, <2>0, <3>1, <3>3 DEF OneAttemptMore
    <3>4. CASE pc = "push"
      <4>1. /\ window'.count <= MaxAttempts + 0 * ChunkCost
                                  + tries * ChunkSize + ChunkSize
            /\ window'.age >= 0 * Pace
        BY <1>0, <2>0, <3>1, <3>2, <3>4
      <4>2. QED
        BY <3>4, <4>1 DEF OneAttemptMore
    <3>5. QED
      BY <3>3, <3>4 DEF Posting
  <2>2. CASE Running
    <3>1. window.count \in Nat /\ window \in Record
      BY <2>2, RunningInUse, LimitAssumption DEF Record
    <3>2. window'.age = window.age /\ window'.count = window.count + Units
      BY <1>0, <1>3, <2>2, <3>1, RunningInUse DEF Charged, Record
    <3>3. CASE pc = "structure"
      BY <1>0, <2>0, <2>2, <3>1, <3>2, <3>3 DEF QuietInv, OneAttemptMore
    <3>4. CASE pc = "push"
      <4>1. PICK m \in Nat : Before(m)
        BY <2>2, <3>4 DEF QuietInv
      <4>2. m * ChunkCost \in Nat
        BY <1>0, OneMore
      <4>3. /\ window.count <= MaxAttempts + m * ChunkCost + tries * ChunkSize
            /\ window.age >= m * Pace
        BY <3>4, <4>1 DEF Before
      <4>4. /\ window'.count <= MaxAttempts + m * ChunkCost
                                  + tries * ChunkSize + ChunkSize
            /\ window'.age >= m * Pace
        BY <1>0, <2>0, <3>1, <3>2, <3>4, <4>2, <4>3
      <4>5. QED
        BY <3>4, <4>4 DEF OneAttemptMore
    <3>5. QED
      BY <3>3, <3>4 DEF Posting
  <2>3. QED
    BY <2>1, <2>2
<1>4. QED
  BY <1>1, <1>2, <1>3

\* Going on after an attempt, again or with the next chunk, keeps QuietInv.
LEMMA ProceedQuiet ==
  ASSUME TypeOK, TypeOK', Posting, OneAttemptMore, ~refused,
         Proceed \/ Attempted, UNCHANGED refused
  PROVE  QuietInv'
<1>0. /\ tries \in Nat /\ tries + 1 <= MaxAttempts
      /\ tries * ChunkSize + ChunkSize <= ChunkCost
      /\ tries * ChunkSize \in Nat
      /\ (tries + 1) * ChunkSize = tries * ChunkSize + ChunkSize
      /\ ChunkCost \in Nat /\ ChunkSize \in Nat
      /\ MaxAttempts \in Nat /\ Pace \in Nat
  BY TriesCost, SweepAssumption DEF TypeOK
<1>1. Running' => window'.count \in Nat /\ window'.age \in Nat
  BY LimitAssumption, WindowAssumption DEF Running, TypeOK
<1>2. SUFFICES ASSUME Running', pc' # "idle"
      PROVE  /\ pc' = "structure" => window'.count <= tries'
             /\ pc' \in {"push", "pacing"} => \E m \in Nat : Before(m)'
  BY DEF QuietInv
<1>3. CASE Proceed /\ pc = "structure"
  <2>1. pc' = "push" /\ tries' = 0
    BY <1>2, <1>3 DEF Proceed
  <2>2. 0 * ChunkCost = 0 /\ 0 * ChunkSize = 0 /\ 0 * Pace = 0
    BY <1>0
  <2>3. window'.count <= MaxAttempts
    BY <1>0, <1>1, <1>2, <1>3 DEF OneAttemptMore
  <2>4. Before(0)'
    BY <1>0, <1>1, <1>2, <2>1, <2>2, <2>3 DEF Before
  <2>5. QED
    BY <2>1, <2>4
<1>4. CASE Proceed /\ pc = "push"
  <2>1. pc' = "pacing" /\ wait' = Pace
    BY <1>2, <1>4 DEF Proceed
  <2>2. PICK m \in Nat :
          /\ window'.count <= MaxAttempts + m * ChunkCost
                               + tries * ChunkSize + ChunkSize
          /\ window'.age >= m * Pace
    BY <1>2, <1>4 DEF OneAttemptMore
  <2>3. /\ (m + 1) * ChunkCost = m * ChunkCost + ChunkCost
        /\ m * ChunkCost \in Nat
        /\ (m + 1) * Pace = m * Pace + Pace
        /\ m * Pace \in Nat
    BY <1>0, OneMore
  <2>4. /\ window'.count <= MaxAttempts + (m + 1) * ChunkCost
        /\ window'.age + wait' >= (m + 1) * Pace
    BY <1>0, <1>1, <1>2, <2>1, <2>2, <2>3
  <2>5. Before(m + 1)'
    BY <2>1, <2>4 DEF Before
  <2>6. QED
    BY <2>1, <2>5
<1>5. CASE ~Proceed
  <2>1. tries' = tries + 1 /\ UNCHANGED pc
    BY <1>5 DEF Attempted
  <2>2. CASE pc = "structure"
    BY <1>2, <2>1, <2>2 DEF OneAttemptMore
  <2>3. CASE pc = "push"
    <3>1. PICK m \in Nat :
            /\ window'.count <= MaxAttempts + m * ChunkCost
                                 + tries * ChunkSize + ChunkSize
            /\ window'.age >= m * Pace
      BY <1>2, <2>3 DEF OneAttemptMore
    <3>2. m * ChunkCost \in Nat
      BY <1>0, OneMore
    <3>3. window'.count <= MaxAttempts + m * ChunkCost + tries' * ChunkSize
      BY <1>0, <1>1, <1>2, <2>1, <3>1, <3>2
    <3>4. Before(m)'
      BY <2>1, <2>3, <3>1, <3>3 DEF Before
    <3>5. QED
      BY <2>1, <2>3, <3>4
  <2>4. QED
    BY <2>2, <2>3 DEF Posting
<1>6. QED
  BY <1>3, <1>4, <1>5 DEF Posting

\* One step keeps QuietInv.
LEMMA QuietStep ==
  ASSUME NEW K, Sized(K), TypeOK, TypeOK', QuietInv, [Next]_vars
  PROVE  QuietInv'
<1>0. SUFFICES ASSUME quiet' PROVE QuietInv'
  BY DEF QuietInv
<1>1. CASE Start
  <2>1. window' = window /\ pc' = "structure" /\ ~refused' /\ tries' = tries
    BY <1>1 DEF Start
  <2>2. Running => window.count = 0
    BY <1>0, <1>1, RunningInUse DEF Start
  <2>3. tries \in Nat
    BY SweepAssumption DEF TypeOK
  <2>4. QED
    BY <2>1, <2>2, <2>3 DEF QuietInv, Running
<1>2. CASE Accepted \/ AnswerLost \/ Unreached
  <2>1. /\ quiet /\ UNCHANGED refused /\ Posting /\ (Proceed \/ Attempted)
        /\ \/ window' = window
           \/ /\ Fits(InUse(window, 0), Units)
              /\ window' = Charged(InUse(window, 0), Units)
    BY <1>0, <1>2 DEF Accepted, AnswerLost, Unreached
  <2>2. ~refused
    BY <2>1 DEF QuietInv
  <2>3. OneAttemptMore
    BY <2>1, AttemptCounted
  <2>4. QED
    BY <2>1, <2>2, <2>3, ProceedQuiet
<1>3. CASE Refused
  <2>1. quiet /\ Posting /\ ~Fits(InUse(window, 0), Units)
    BY <1>0, <1>3 DEF Refused
  <2>2. QED
    BY <2>1, QuietFits
<1>4. CASE WakeUp
  <2>0. /\ tries * ChunkSize \in Nat /\ ChunkCost \in Nat
        /\ MaxAttempts \in Nat /\ Pace \in Nat
    BY TriesCost, SweepAssumption
  <2>1. /\ quiet /\ ~refused' /\ pc = "pacing" /\ pc' = "push" /\ wait = 0
        /\ UNCHANGED <<window, tries>>
    BY <1>0, <1>4 DEF WakeUp, QuietInv
  <2>2. ASSUME Running PROVE \E m \in Nat : Before(m)'
    <3>1. PICK m \in Nat : Before(m)
      BY <2>1, <2>2 DEF QuietInv
    <3>2. window.count \in Nat /\ window.age \in Nat
      BY <2>2, RunningInUse, LimitAssumption, WindowAssumption DEF Record
    <3>3. m * ChunkCost \in Nat
      BY <2>0, OneMore
    <3>4. /\ window.count <= MaxAttempts + m * ChunkCost
          /\ window.age + wait >= m * Pace
      BY <2>1, <3>1 DEF Before
    <3>5. /\ window.count <= MaxAttempts + m * ChunkCost + tries * ChunkSize
          /\ window.age >= m * Pace
      BY <2>0, <2>1, <3>2, <3>3, <3>4
    <3>6. Before(m)'
      BY <2>1, <3>5 DEF Before
    <3>7. QED
      BY <3>6
  <2>3. QED
    BY <2>1, <2>2 DEF QuietInv, Running
<1>5. CASE OtherTraffic
  BY <1>0, <1>5 DEF OtherTraffic
<1>6. CASE CoreRestart
  BY <1>6 DEF CoreRestart, QuietInv, Running
<1>7. CASE Tick
  <2>1. /\ quiet /\ ~refused' /\ UNCHANGED <<pc, tries>>
        /\ wait' = IF wait = 0 THEN 0 ELSE wait - 1
    BY <1>0, <1>7 DEF Tick, QuietInv
  <2>2. ASSUME Running'
        PROVE  /\ Running /\ window.age \in Nat
               /\ window'.age = window.age + 1 /\ window'.count = window.count
    BY <1>7, <2>2, WindowAssumption DEF Tick, Older, Running, TypeOK
  <2>3. wait \in Nat
    BY SweepAssumption DEF TypeOK
  <2>4. ASSUME Running', pc \in {"push", "pacing"}
        PROVE  \E m \in Nat : Before(m)'
    <3>1. PICK m \in Nat : Before(m)
      BY <2>1, <2>2, <2>4 DEF QuietInv
    <3>2. m * Pace \in Nat
      BY OneMore, SweepAssumption
    <3>3. CASE pc = "pacing"
      <4>1. window'.age + wait' >= m * Pace
        BY <2>1, <2>2, <2>3, <2>4, <3>1, <3>2, <3>3 DEF Before
      <4>2. Before(m)'
        BY <2>1, <2>2, <2>4, <3>1, <3>3, <4>1 DEF Before
      <4>3. QED
        BY <4>2
    <3>4. CASE pc = "push"
      <4>1. window'.age >= m * Pace
        BY <2>2, <2>4, <3>1, <3>2, <3>4 DEF Before
      <4>2. Before(m)'
        BY <2>1, <2>2, <2>4, <3>1, <3>4, <4>1 DEF Before
      <4>3. QED
        BY <4>2
    <3>5. QED
      BY <2>4, <3>3, <3>4
  <2>5. pc = "structure" /\ Running' => window'.count <= tries
    BY <2>1, <2>2 DEF QuietInv
  <2>6. QED
    BY <2>1, <2>4, <2>5 DEF QuietInv
<1>8. CASE UNCHANGED vars
  BY <1>8 DEF vars, QuietInv, Before, Running
<1>9. QED
  BY <1>1, <1>2, <1>3, <1>4, <1>5, <1>6, <1>7, <1>8 DEF Next, SweepStep

\* If K pauses last a window and K chunks and the structure push, each charged
\* in every attempt, fit into the limit, then no POST of a sweep that has the
\* key to itself is refused.
THEOREM SizedSweepNeverRefused ==
  ASSUME NEW CONSTANT K, Sized(K)
  PROVE  Spec => []QuietSweepNeverRefused
<1>1. Init => QuietInv
  BY DEF Init, QuietInv
<1>2. TypeOK /\ TypeOK' /\ QuietInv /\ [Next]_vars => QuietInv'
  BY QuietStep
<1>3. QuietInv => QuietSweepNeverRefused
  BY DEF QuietInv, QuietSweepNeverRefused
<1>4. QED
  BY <1>1, <1>2, <1>3, TypeCorrect, PTL DEF Spec
=============================================================================
