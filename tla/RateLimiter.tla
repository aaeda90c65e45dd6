----------------------------- MODULE RateLimiter -----------------------------
(***************************************************************************)
(* core-side-patch/rate_limiter.py: the limiter as the threads of core's    *)
(* request pool use it.  A thread reads the clock, then takes the limiter's *)
(* lock and decides; other threads, and up to MaxLag ticks, may come in     *)
(* between.  Both limiters of core (per scoped key, per organisation) are   *)
(* instances of the one class.                                              *)
(***************************************************************************)
EXTENDS FixedWindow

CONSTANTS
  Key,
  Thread,
  Size,      \* units asked for in one call: 1, or the length of a batch
  MaxLag     \* bound on the ticks between reading the clock and the lock

ASSUME SizeAssumption == Size \subseteq Nat \ {0}
ASSUME LagAssumption == MaxLag \in 0 .. Window

VARIABLES
  windows,   \* _windows
  calls,     \* calls whose thread has read the clock and not yet the lock
  recent,    \* units admitted in this tick and the i before it (history)
  last       \* the decision taken in the latest step (history)

vars == <<windows, calls, recent, last>>

Call  == [key : Key, n : Size, lag : 0 .. MaxLag]
Idle  == [key |-> "none", n |-> 0, lag |-> 0]
OldestAge == Window + MaxLag
Ticks == 0 .. Window
NoDecision == [key |-> "none", ok |-> FALSE]
Raised(sums, n) == [i \in Ticks |-> sums[i] + n]

Init ==
  /\ windows = [k \in Key |-> NoWindow]
  /\ calls = [t \in Thread |-> Idle]
  /\ recent = [k \in Key |-> [i \in Ticks |-> 0]]
  /\ last = NoDecision

\* allow(key), allow_n(key, n): `now = time.monotonic()`.
ReadClock(t) ==
  /\ calls[t] = Idle
  /\ \E k \in Key, n \in Size :
       calls' = [calls EXCEPT ![t] = [key |-> k, n |-> n, lag |-> 0]]
  /\ last' = NoDecision
  /\ UNCHANGED <<windows, recent>>

\* Mutant: an elapsed window gets a new count but keeps its start.
AdmitKeepingStart(t) ==
  /\ calls[t] # Idle
  /\ LET k == calls[t].key
         w == [InUse(windows[k], calls[t].lag) EXCEPT !.age =
                 IF windows[k] = NoWindow THEN @ ELSE windows[k].age]
     IN  /\ Fits(w, calls[t].n)
         /\ windows' = [windows EXCEPT ![k] = Charged(w, calls[t].n)]
         /\ recent' = [recent EXCEPT ![k] = Raised(@, calls[t].n)]
         /\ last' = [key |-> k, ok |-> TRUE]
  /\ calls' = [calls EXCEPT ![t] = Idle]

\* `with self._lock`: the units fit and are recorded.
Admit(t) ==
  /\ calls[t] # Idle
  /\ LET k == calls[t].key
         w == InUse(windows[k], calls[t].lag)
     IN  /\ Fits(w, calls[t].n)
         /\ windows' = [windows EXCEPT ![k] = Charged(w, calls[t].n)]
         /\ recent' = [recent EXCEPT ![k] = Raised(@, calls[t].n)]
         /\ last' = [key |-> k, ok |-> TRUE]
  /\ calls' = [calls EXCEPT ![t] = Idle]

\* Mutant: a refused call restarts the window.
RefuseRestarting(t) ==
  /\ calls[t] # Idle
  /\ LET k == calls[t].key
         w == InUse(windows[k], calls[t].lag)
     IN  /\ ~Fits(w, calls[t].n)
         /\ windows' = [windows EXCEPT ![k] = [w EXCEPT !.age = calls[t].lag]]
         /\ last' = [key |-> k, ok |-> FALSE]
  /\ calls' = [calls EXCEPT ![t] = Idle]
  /\ UNCHANGED recent

\* Mutant: a refused call is recorded like an admitted one.
RefuseCharging(t) ==
  /\ calls[t] # Idle
  /\ LET k == calls[t].key
         w == InUse(windows[k], calls[t].lag)
     IN  /\ ~Fits(w, calls[t].n)
         /\ windows' = [windows EXCEPT ![k] = Charged(w, calls[t].n)]
         /\ last' = [key |-> k, ok |-> FALSE]
  /\ calls' = [calls EXCEPT ![t] = Idle]
  /\ UNCHANGED recent

\* `with self._lock`: too many; the window is recorded, uncharged (429).
Refuse(t) ==
  /\ calls[t] # Idle
  /\ LET k == calls[t].key
         w == InUse(windows[k], calls[t].lag)
     IN  /\ ~Fits(w, calls[t].n)
         /\ windows' = [windows EXCEPT ![k] = w]
         /\ last' = [key |-> k, ok |-> FALSE]
  /\ calls' = [calls EXCEPT ![t] = Idle]
  /\ UNCHANGED recent

Tick ==
  /\ \A t \in Thread : calls[t] # Idle => calls[t].lag < MaxLag
  /\ windows' = [k \in Key |-> Older(windows[k], OldestAge)]
  /\ calls' = [t \in Thread |->
       IF calls[t] = Idle THEN Idle ELSE [calls[t] EXCEPT !.lag = @ + 1]]
  /\ recent' = [k \in Key |->
       [i \in Ticks |-> IF i = 0 THEN 0 ELSE recent[k][i - 1]]]
  /\ last' = NoDecision

Next ==
  \/ \E t \in Thread : ReadClock(t) \/ Admit(t) \/ Refuse(t)
  \/ Tick

Spec == Init /\ [][Next]_vars

\* Time passes, and a thread that has read the clock gets the lock.
FairSpec ==
  Spec /\ WF_vars(Tick) /\ \A t \in Thread : WF_vars(Admit(t) \/ Refuse(t))

-----------------------------------------------------------------------------
WindowRecord == [age : 0 .. OldestAge, count : 0 .. Limit]

TypeOK ==
  /\ windows \in [Key -> WindowRecord \cup {NoWindow}]
  /\ calls \in [Thread -> Call \cup {Idle}]
  /\ recent \in [Key -> [Ticks -> Nat]]
  /\ last \in [key : Key, ok : BOOLEAN] \cup {NoDecision}

\* "A burst can occur across a window boundary, which is an accepted
\* stopgap-level imprecision" (FixedWindowRateLimiter).  It is at most two limits in a time that
\* is shorter than window_seconds by what a thread may wait for the lock, and at
\* most three in window_seconds: a thread that read the clock before the boundary
\* is charged to the old window even after it.
BurstBounded ==
  \A k \in Key :
    /\ recent[k][Window - MaxLag] <= 2 * Limit
    /\ recent[k][Window] <= 3 * Limit

\* The units of a window never exceed what was admitted since it began: a refused
\* caller is never refused on account of units nobody was granted.
NoPhantomUnits ==
  \A k \in Key :
    windows[k].age \in 0 .. Window - 1 =>
      windows[k].count <= recent[k][windows[k].age]

\* "Still record the window_start so we don't keep resetting it on every
\* rejected call": callers that are refused again and again cannot keep the
\* key closed; one of them is admitted in the end.
RefusedInTheEndAdmitted ==
  \A k \in Key : []<>(last = [key |-> k, ok |-> FALSE])
                => []<>(last = [key |-> k, ok |-> TRUE])
=============================================================================
