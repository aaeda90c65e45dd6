--------------------------- MODULE RateLimiter_proofs ---------------------------
(***************************************************************************)
(* Proofs about RateLimiter for any limit, window, keys, threads, sizes and *)
(* lag: the type of every variable, and with it that no window is ever      *)
(* charged beyond the limit; how much a burst across boundaries can be; and *)
(* that nobody is refused on account of units that were not granted.        *)
(***************************************************************************)
EXTENDS RateLimiter, TLAPS

-----------------------------------------------------------------------------
(* One window. *)

LEMMA NoWindowIsNone == NoWindow.age = -1 /\ NoWindow.count = 0
BY DEF NoWindow

\* The window in use is a record, and no older than what is kept.
LEMMA InUseType ==
  ASSUME NEW w \in WindowRecord \cup {NoWindow}, NEW lag \in 0 .. MaxLag
  PROVE  InUse(w, lag) \in WindowRecord
<1>1. OldestAge \in Nat /\ lag \in 0 .. OldestAge /\ 0 \in 0 .. Limit
  BY WindowAssumption, LagAssumption, LimitAssumption DEF OldestAge
<1>2. QED
  BY <1>1 DEF InUse, WindowRecord

\* Units that fit stay within the limit.
LEMMA ChargedType ==
  ASSUME NEW w \in WindowRecord, NEW n \in Size, Fits(w, n)
  PROVE  Charged(w, n) \in WindowRecord
<1>1. n \in Nat /\ w.count \in 0 .. Limit /\ w.age \in 0 .. OldestAge /\ Limit \in Nat
  BY SizeAssumption, LimitAssumption DEF WindowRecord
<1>2. w.count + n \in 0 .. Limit
  BY <1>1 DEF Fits
<1>3. Charged(w, n) = [age |-> w.age, count |-> w.count + n]
  BY DEF Charged, WindowRecord
<1>4. QED
  BY <1>1, <1>2, <1>3 DEF WindowRecord

\* A window gets older, up to the oldest age kept.
LEMMA OlderType ==
  ASSUME NEW w \in WindowRecord \cup {NoWindow}
  PROVE  Older(w, OldestAge) \in WindowRecord \cup {NoWindow}
<1>1. CASE w = NoWindow \/ w.age = OldestAge
  BY <1>1 DEF Older
<1>2. CASE ~(w = NoWindow \/ w.age = OldestAge)
  <2>1. w \in WindowRecord /\ w.age \in 0 .. OldestAge /\ w.age # OldestAge
    BY <1>2 DEF WindowRecord
  <2>2. OldestAge \in Nat
    BY WindowAssumption, LagAssumption DEF OldestAge
  <2>3. w.age + 1 \in 0 .. OldestAge
    BY <2>1, <2>2
  <2>4. Older(w, OldestAge) = [age |-> w.age + 1, count |-> w.count]
    BY <1>2, <2>1 DEF Older, WindowRecord
  <2>5. QED
    BY <2>1, <2>3, <2>4 DEF WindowRecord
<1>3. QED
  BY <1>1, <1>2

-----------------------------------------------------------------------------
(* All of them. *)

\* A thread that has read the clock is in a call.
LEMMA CallType ==
  ASSUME TypeOK, NEW t \in Thread, calls[t] # Idle
  PROVE  /\ calls[t] \in Call
         /\ calls[t].key \in Key /\ calls[t].n \in Size /\ calls[t].lag \in 0 .. MaxLag
BY DEF TypeOK, Call

LEMMA TypeInit == Init => TypeOK
BY DEF Init, TypeOK

LEMMA TypeStep == TypeOK /\ [Next]_vars => TypeOK'
<1> SUFFICES ASSUME TypeOK, [Next]_vars PROVE TypeOK'
  OBVIOUS
<1>t. /\ windows \in [Key -> WindowRecord \cup {NoWindow}]
      /\ calls \in [Thread -> Call \cup {Idle}]
      /\ recent \in [Key -> [Ticks -> Nat]]
      /\ last \in [key : Key, ok : BOOLEAN] \cup {NoDecision}
  BY DEF TypeOK
<1>1. ASSUME NEW t \in Thread, ReadClock(t) PROVE TypeOK'
  <2>1. PICK k \in Key, n \in Size :
          calls' = [calls EXCEPT ![t] = [key |-> k, n |-> n, lag |-> 0]]
    BY <1>1 DEF ReadClock
  <2>2. [key |-> k, n |-> n, lag |-> 0] \in Call
    BY LagAssumption DEF Call
  <2>3. QED
    BY <1>t, <1>1, <2>1, <2>2 DEF ReadClock, TypeOK
<1>2. ASSUME NEW t \in Thread, Admit(t) PROVE TypeOK'
  <2> DEFINE k == calls[t].key
             w == InUse(windows[k], calls[t].lag)
  <2>1. k \in Key /\ calls[t].n \in Size /\ calls[t].lag \in 0 .. MaxLag
    BY <1>2, CallType DEF Admit
  <2>2. /\ Fits(w, calls[t].n)
        /\ windows' = [windows EXCEPT ![k] = Charged(w, calls[t].n)]
        /\ recent' = [recent EXCEPT ![k] = Raised(@, calls[t].n)]
        /\ last' = [key |-> k, ok |-> TRUE]
        /\ calls' = [calls EXCEPT ![t] = Idle]
    BY <1>2 DEF Admit
  <2>3. w \in WindowRecord
    BY <1>t, <2>1, InUseType
  <2>4. Charged(w, calls[t].n) \in WindowRecord
    BY <2>1, <2>2, <2>3, ChargedType
  <2> HIDE DEF w
  <2>5. windows' \in [Key -> WindowRecord \cup {NoWindow}]
    BY <1>t, <2>1, <2>2, <2>4
  <2>6. recent' \in [Key -> [Ticks -> Nat]]
    <3>1. calls[t].n \in Nat
      BY <2>1, SizeAssumption
    <3>2. Raised(recent[k], calls[t].n) \in [Ticks -> Nat]
      BY <1>t, <2>1, <3>1 DEF Raised
    <3>3. recent' = [recent EXCEPT ![k] = Raised(recent[k], calls[t].n)]
      BY <2>2
    <3>4. QED
      BY <1>t, <2>1, <3>2, <3>3
  <2>7. QED
    BY <1>t, <2>1, <2>2, <2>5, <2>6 DEF TypeOK
<1>3. ASSUME NEW t \in Thread, Refuse(t) PROVE TypeOK'
  <2> DEFINE k == calls[t].key
             w == InUse(windows[k], calls[t].lag)
  <2>1. k \in Key /\ calls[t].lag \in 0 .. MaxLag
    BY <1>3, CallType DEF Refuse
  <2>2. /\ windows' = [windows EXCEPT ![k] = w]
        /\ last' = [key |-> k, ok |-> FALSE]
        /\ calls' = [calls EXCEPT ![t] = Idle]
        /\ recent' = recent
    BY <1>3 DEF Refuse
  <2>3. w \in WindowRecord
    BY <1>t, <2>1, InUseType
  <2> HIDE DEF w
  <2>4. QED
    BY <1>t, <2>1, <2>2, <2>3 DEF TypeOK
<1>4. CASE Tick
  <2>1. windows' \in [Key -> WindowRecord \cup {NoWindow}]
    BY <1>t, <1>4, OlderType DEF Tick
  <2>2. calls' \in [Thread -> Call \cup {Idle}]
    <3>1. ASSUME NEW t \in Thread, calls[t] # Idle
          PROVE  [calls[t] EXCEPT !.lag = @ + 1] \in Call
      <4>1. /\ calls[t] \in Call /\ calls[t].lag \in 0 .. MaxLag /\ calls[t].lag < MaxLag
        BY <1>4, <3>1, CallType DEF Tick
      <4>2. calls[t].lag + 1 \in 0 .. MaxLag
        BY <4>1, LagAssumption
      <4>3. QED
        BY <4>1, <4>2 DEF Call
    <3>2. QED
      BY <1>4, <3>1 DEF Tick
  <2>3. recent' \in [Key -> [Ticks -> Nat]]
    <3>1. ASSUME NEW k \in Key, NEW i \in Ticks
          PROVE  (IF i = 0 THEN 0 ELSE recent[k][i - 1]) \in Nat
      <4>1. i # 0 => i - 1 \in Ticks
        BY WindowAssumption DEF Ticks
      <4>2. QED
        BY <1>t, <4>1
    <3>2. QED
      BY <1>4, <3>1 DEF Tick
  <2>4. QED
    BY <1>4, <2>1, <2>2, <2>3 DEF Tick, TypeOK
<1>5. CASE UNCHANGED vars
  BY <1>t, <1>5 DEF vars, TypeOK
<1>6. QED
  BY <1>1, <1>2, <1>3, <1>4, <1>5 DEF Next

\* Every variable of the limiter keeps its type: however calls, sizes, lags and
\* windows meet, no window is ever charged more than the limit.
THEOREM TypeCorrect == Spec => []TypeOK
BY TypeInit, TypeStep, PTL DEF Spec

-----------------------------------------------------------------------------
(* What was admitted, seen from a key's window.  Units that the window before *)
(* it admitted are at least as old as its beginning, less what a thread may    *)
(* have waited for the lock; those of the window before that are older by      *)
(* Window, because a window begins only when the one before it has elapsed.    *)

Spent(w, sums) ==
  IF w = NoWindow THEN \A i \in Ticks : sums[i] = 0
  ELSE \A i \in Ticks :
         /\ i <= w.age - Window - MaxLag => sums[i] = 0
         /\ i <= w.age - MaxLag => sums[i] <= w.count
         /\ i <= w.age + Window - MaxLag => sums[i] <= w.count + Limit
         /\ i <= w.age + 2 * Window - MaxLag => sums[i] <= w.count + 2 * Limit

Granted(w, sums) ==
  w.age \in 0 .. Window - 1 => w.count <= sums[w.age]

Books(w, sums) == Spent(w, sums) /\ Granted(w, sums)

BooksInv == TypeOK /\ \A k \in Key : Books(windows[k], recent[k])

\* Replacing an elapsed window by a fresh one keeps the books right.
LEMMA InUseBooks ==
  ASSUME NEW w \in WindowRecord \cup {NoWindow}, NEW lag \in 0 .. MaxLag,
         NEW sums \in [Ticks -> Nat], Books(w, sums)
  PROVE  Books(InUse(w, lag), sums) /\ InUse(w, lag).age - lag < Window
<1>0. /\ Limit \in Nat /\ Limit >= 1 /\ Window \in Nat /\ Window >= 1
      /\ MaxLag \in Nat /\ MaxLag <= Window /\ lag \in Nat /\ lag <= MaxLag
  BY LimitAssumption, WindowAssumption, LagAssumption
<1> DEFINE fresh == [age |-> lag, count |-> 0]
<1>1. fresh # NoWindow /\ fresh.age = lag /\ fresh.count = 0
  BY <1>0 DEF NoWindow
<1>2. CASE w = NoWindow
  <2>1. InUse(w, lag) = fresh
    BY <1>2 DEF InUse
  <2>2. \A i \in Ticks : sums[i] = 0
    BY <1>2 DEF Books, Spent
  <2>3. Spent(fresh, sums)
    BY <1>0, <1>1, <2>2 DEF Spent
  <2>4. Granted(fresh, sums)
    BY <1>0, <1>1 DEF Granted, Ticks
  <2>5. QED
    BY <1>0, <1>1, <2>1, <2>3, <2>4 DEF Books
<1>3. CASE w # NoWindow /\ w.age - lag >= Window
  <2>1. InUse(w, lag) = fresh
    BY <1>3 DEF InUse
  <2>2. /\ w.age \in Int /\ w.count \in Nat /\ w.count <= Limit
    BY <1>0, <1>3 DEF WindowRecord, OldestAge
  <2>3. Spent(fresh, sums)
    <3> SUFFICES ASSUME NEW i \in Ticks
                 PROVE  /\ i <= lag - Window - MaxLag => sums[i] = 0
                        /\ i <= lag - MaxLag => sums[i] <= 0
                        /\ i <= lag + Window - MaxLag => sums[i] <= 0 + Limit
                        /\ i <= lag + 2 * Window - MaxLag => sums[i] <= 0 + 2 * Limit
      BY <1>1 DEF Spent
    <3>1. i \in Nat /\ sums[i] \in Nat
      BY <1>0 DEF Ticks
    <3>2. /\ i <= w.age - Window - MaxLag => sums[i] = 0
          /\ i <= w.age - MaxLag => sums[i] <= w.count
          /\ i <= w.age + Window - MaxLag => sums[i] <= w.count + Limit
      BY <1>3 DEF Books, Spent
    <3>3. QED
      BY <1>0, <1>3, <2>2, <3>1, <3>2
  <2>4. Granted(fresh, sums)
    BY <1>0, <1>1 DEF Granted, Ticks
  <2>5. QED
    BY <1>0, <1>1, <2>1, <2>3, <2>4 DEF Books
<1>4. CASE w # NoWindow /\ ~(w.age - lag >= Window)
  <2>1. InUse(w, lag) = w /\ w.age \in Int
    BY <1>0, <1>4 DEF InUse, WindowRecord, OldestAge
  <2>2. QED
    BY <1>0, <1>4, <2>1
<1>5. QED
  BY <1>2, <1>3, <1>4

\* So does charging a window that is in use.
LEMMA ChargedBooks ==
  ASSUME NEW w \in WindowRecord, NEW lag \in 0 .. MaxLag, NEW n \in Size,
         NEW sums \in [Ticks -> Nat], Books(w, sums), w.age - lag < Window
  PROVE  Books(Charged(w, n), Raised(sums, n))
<1>0. /\ Limit \in Nat /\ Window \in Nat /\ MaxLag \in Nat
      /\ lag \in Nat /\ lag <= MaxLag /\ n \in Nat
      /\ w.age \in Nat /\ w.count \in Nat
  BY LimitAssumption, WindowAssumption, LagAssumption, SizeAssumption
     DEF WindowRecord, OldestAge
<1>1. Charged(w, n) = [age |-> w.age, count |-> w.count + n]
  BY DEF Charged, WindowRecord
<1>2. w # NoWindow /\ Charged(w, n) # NoWindow
  BY <1>0, <1>1 DEF NoWindow
<1>3. \A i \in Ticks : Raised(sums, n)[i] = sums[i] + n /\ sums[i] \in Nat /\ i \in Nat
  BY <1>0 DEF Raised, Ticks
<1>4. Spent(Charged(w, n), Raised(sums, n))
  <2> SUFFICES ASSUME NEW i \in Ticks
               PROVE  /\ i <= w.age - Window - MaxLag => sums[i] + n = 0
                      /\ i <= w.age - MaxLag => sums[i] + n <= w.count + n
                      /\ i <= w.age + Window - MaxLag => sums[i] + n <= w.count + n + Limit
                      /\ i <= w.age + 2 * Window - MaxLag
                           => sums[i] + n <= w.count + n + 2 * Limit
    BY <1>1, <1>2, <1>3 DEF Spent
  <2>1. /\ i <= w.age - MaxLag => sums[i] <= w.count
        /\ i <= w.age + Window - MaxLag => sums[i] <= w.count + Limit
        /\ i <= w.age + 2 * Window - MaxLag => sums[i] <= w.count + 2 * Limit
    BY <1>2 DEF Books, Spent
  <2>2. QED
    BY <1>0, <1>3, <2>1
<1>5. Granted(Charged(w, n), Raised(sums, n))
  <2> SUFFICES ASSUME w.age \in 0 .. Window - 1
               PROVE  w.count + n <= Raised(sums, n)[w.age]
    BY <1>1 DEF Granted
  <2>1. w.age \in Ticks /\ w.count <= sums[w.age]
    BY <1>0 DEF Books, Granted, Ticks
  <2>2. QED
    BY <1>0, <1>3, <2>1
<1>6. QED
  BY <1>4, <1>5 DEF Books

\* And so does a tick.
LEMMA OlderBooks ==
  ASSUME NEW w \in WindowRecord \cup {NoWindow}, NEW sums \in [Ticks -> Nat],
         Books(w, sums)
  PROVE  Books(Older(w, OldestAge),
               [i \in Ticks |-> IF i = 0 THEN 0 ELSE sums[i - 1]])
<1> DEFINE shifted == [i \in Ticks |-> IF i = 0 THEN 0 ELSE sums[i - 1]]
           v == Older(w, OldestAge)
<1>0. Limit \in Nat /\ Window \in Nat /\ MaxLag \in Nat
  BY LimitAssumption, WindowAssumption, LagAssumption
<1>1. \A i \in Ticks :
        /\ i \in Nat /\ shifted[i] \in Nat
        /\ i = 0 => shifted[i] = 0
        /\ i # 0 => i - 1 \in Ticks /\ shifted[i] = sums[i - 1]
  BY <1>0 DEF Ticks
<1> SUFFICES Books(v, shifted)
  OBVIOUS
<1> HIDE DEF shifted
<1>2. CASE w = NoWindow
  <2>1. v = w
    BY <1>2 DEF Older
  <2>2. \A i \in Ticks : sums[i] = 0
    BY <1>2 DEF Books, Spent
  <2>3. \A i \in Ticks : shifted[i] = 0
    BY <1>1, <2>2
  <2>4. QED
    BY <1>2, <2>1, <2>3, NoWindowIsNone DEF Books, Spent, Granted
<1>3. CASE w # NoWindow
  <2>1. w.age \in Nat /\ w.count \in Nat
    BY <1>0, <1>3 DEF WindowRecord, OldestAge
  <2>2. /\ v.count = w.count /\ v.age \in Nat /\ v.age <= w.age + 1
        /\ v.age = w.age + 1 \/ (v.age = w.age /\ w.age = OldestAge)
        /\ v # NoWindow
    <3>1. w = [age |-> w.age, count |-> w.count]
      BY <1>3 DEF WindowRecord
    <3>2. v = IF w.age = OldestAge THEN w ELSE [age |-> w.age + 1, count |-> w.count]
      BY <1>3, <3>1 DEF Older
    <3>3. QED
      BY <1>3, <2>1, <3>1, <3>2 DEF NoWindow
  <2>3. Spent(v, shifted)
    <3> SUFFICES ASSUME NEW i \in Ticks
                 PROVE  /\ i <= v.age - Window - MaxLag => shifted[i] = 0
                        /\ i <= v.age - MaxLag => shifted[i] <= w.count
                        /\ i <= v.age + Window - MaxLag => shifted[i] <= w.count + Limit
                        /\ i <= v.age + 2 * Window - MaxLag
                             => shifted[i] <= w.count + 2 * Limit
      BY <2>2 DEF Spent
    <3>1. CASE i = 0
      BY <1>0, <1>1, <2>1, <3>1
    <3>2. CASE i # 0
      <4>1. /\ i - 1 <= w.age - Window - MaxLag => sums[i - 1] = 0
            /\ i - 1 <= w.age - MaxLag => sums[i - 1] <= w.count
            /\ i - 1 <= w.age + Window - MaxLag => sums[i - 1] <= w.count + Limit
            /\ i - 1 <= w.age + 2 * Window - MaxLag
                 => sums[i - 1] <= w.count + 2 * Limit
        BY <1>1, <1>3, <3>2 DEF Books, Spent
      <4>2. shifted[i] = sums[i - 1] /\ i \in Nat
        BY <1>1, <3>2
      <4>3. QED
        BY <1>0, <2>1, <2>2, <4>1, <4>2
    <3>3. QED
      BY <3>1, <3>2
  <2>4. Granted(v, shifted)
    <3> SUFFICES ASSUME v.age \in 0 .. Window - 1 PROVE w.count <= shifted[v.age]
      BY <2>2 DEF Granted
    <3>1. v.age = w.age + 1 /\ w.age \in 0 .. Window - 1 /\ v.age \in Ticks
      BY <1>0, <2>1, <2>2 DEF OldestAge, Ticks
    <3>2. QED
      BY <1>1, <2>1, <3>1 DEF Books, Granted
  <2>5. QED
    BY <2>3, <2>4 DEF Books
<1>4. QED
  BY <1>2, <1>3

LEMMA BooksInit == Init => BooksInv
<1> SUFFICES ASSUME Init PROVE BooksInv
  OBVIOUS
<1>1. \A k \in Key : windows[k] = NoWindow /\ \A i \in Ticks : recent[k][i] = 0
  BY DEF Init
<1>2. \A k \in Key : Books(windows[k], recent[k])
  BY <1>1, NoWindowIsNone DEF Books, Spent, Granted
<1>3. QED
  BY <1>2, TypeInit DEF BooksInv

LEMMA BooksStep == BooksInv /\ [Next]_vars => BooksInv'
<1> SUFFICES ASSUME BooksInv, [Next]_vars
             PROVE  \A k \in Key : Books(windows'[k], recent'[k])
  BY TypeStep DEF BooksInv
<1>t. /\ TypeOK
      /\ windows \in [Key -> WindowRecord \cup {NoWindow}]
      /\ recent \in [Key -> [Ticks -> Nat]]
      /\ \A k \in Key : Books(windows[k], recent[k])
  BY DEF BooksInv, TypeOK
<1>1. ASSUME NEW t \in Thread, ReadClock(t)
      PROVE  \A k \in Key : Books(windows'[k], recent'[k])
  BY <1>t, <1>1 DEF ReadClock
<1>2. ASSUME NEW t \in Thread, Admit(t)
      PROVE  \A k \in Key : Books(windows'[k], recent'[k])
  <2> DEFINE key == calls[t].key
             n == calls[t].n
             w == InUse(windows[key], calls[t].lag)
  <2>1. key \in Key /\ n \in Size /\ calls[t].lag \in 0 .. MaxLag
    BY <1>t, <1>2, CallType DEF Admit
  <2>2. /\ windows' = [windows EXCEPT ![key] = Charged(w, n)]
        /\ recent' = [recent EXCEPT ![key] = Raised(@, n)]
    BY <1>2 DEF Admit
  <2>3. w \in WindowRecord /\ Books(w, recent[key]) /\ w.age - calls[t].lag < Window
    BY <1>t, <2>1, InUseType, InUseBooks
  <2> HIDE DEF w
  <2>4. Books(Charged(w, n), Raised(recent[key], n))
    BY <1>t, <2>1, <2>3, ChargedBooks
  <2> HIDE DEF key, n
  <2>5. QED
    BY <1>t, <2>1, <2>2, <2>4
<1>3. ASSUME NEW t \in Thread, Refuse(t)
      PROVE  \A k \in Key : Books(windows'[k], recent'[k])
  <2> DEFINE key == calls[t].key
             w == InUse(windows[key], calls[t].lag)
  <2>1. key \in Key /\ calls[t].lag \in 0 .. MaxLag
    BY <1>t, <1>3, CallType DEF Refuse
  <2>2. windows' = [windows EXCEPT ![key] = w] /\ recent' = recent
    BY <1>3 DEF Refuse
  <2>3. Books(w, recent[key])
    BY <1>t, <2>1, InUseBooks
  <2> HIDE DEF w, key
  <2>4. QED
    BY <1>t, <2>1, <2>2, <2>3
<1>4. CASE Tick
  <2> SUFFICES ASSUME NEW k \in Key PROVE Books(windows'[k], recent'[k])
    OBVIOUS
  <2>1. /\ windows'[k] = Older(windows[k], OldestAge)
        /\ recent'[k] = [i \in Ticks |-> IF i = 0 THEN 0 ELSE recent[k][i - 1]]
    BY <1>4 DEF Tick
  <2>2. QED
    BY <1>t, <2>1, OlderBooks
<1>5. CASE UNCHANGED vars
  BY <1>t, <1>5 DEF vars
<1>6. QED
  BY <1>1, <1>2, <1>3, <1>4, <1>5 DEF Next

\* However windows, boundaries and waiting threads meet, a key is admitted no
\* more than two limits in window_seconds less the longest wait for the lock, and
\* no more than three in window_seconds.
THEOREM BurstsAreBounded == Spec => []BurstBounded
<1>1. BooksInv => BurstBounded
  <2> SUFFICES ASSUME BooksInv, NEW k \in Key
               PROVE  /\ recent[k][Window - MaxLag] <= 2 * Limit
                      /\ recent[k][Window] <= 3 * Limit
    BY DEF BurstBounded
  <2>0. /\ Limit \in Nat /\ Window \in Nat /\ MaxLag \in Nat /\ MaxLag <= Window
        /\ Window - MaxLag \in Ticks /\ Window \in Ticks
    BY LimitAssumption, WindowAssumption, LagAssumption DEF Ticks
  <2>1. /\ windows[k] \in WindowRecord \cup {NoWindow}
        /\ recent[k][Window - MaxLag] \in Nat /\ recent[k][Window] \in Nat
        /\ Spent(windows[k], recent[k])
    BY <2>0 DEF BooksInv, TypeOK, Books
  <2>2. CASE windows[k] = NoWindow
    BY <2>0, <2>1, <2>2 DEF Spent
  <2>3. CASE windows[k] # NoWindow
    <3>1. windows[k].age \in Nat /\ windows[k].count \in Nat /\ windows[k].count <= Limit
      BY <2>0, <2>1, <2>3 DEF WindowRecord, OldestAge
    <3>2. /\ recent[k][Window - MaxLag] <= windows[k].count + Limit
          /\ recent[k][Window] <= windows[k].count + 2 * Limit
      BY <2>0, <2>1, <2>3, <3>1 DEF Spent
    <3>3. QED
      BY <2>0, <2>1, <3>1, <3>2
  <2>4. QED
    BY <2>2, <2>3
<1>2. QED
  BY <1>1, BooksInit, BooksStep, PTL DEF Spec

\* The count that a call is refused on never exceeds what was really admitted
\* since the window began.
THEOREM CountsAreGranted == Spec => []NoPhantomUnits
<1>1. BooksInv => NoPhantomUnits
  BY DEF BooksInv, Books, Granted, NoPhantomUnits
<1>2. QED
  BY <1>1, BooksInit, BooksStep, PTL DEF Spec
=============================================================================
