----------------------------- MODULE FixedWindow -----------------------------
(***************************************************************************)
(* One key's window of rate_limiter.FixedWindowRateLimiter: the pair        *)
(* (window_start, count) of _windows[key].  Times are in ticks and relative:*)
(* a window has an age, the ticks since window_start, and a caller a lag,   *)
(* the ticks since it read the clock (time.monotonic() is read before the   *)
(* limiter's lock is taken).  So `now - window_start` is age - lag.         *)
(***************************************************************************)
EXTENDS Integers

CONSTANTS
  Limit,     \* self.limit
  Window     \* self.window_seconds, in ticks

ASSUME LimitAssumption == Limit \in Nat \ {0}
ASSUME WindowAssumption == Window \in Nat \ {0}

\* A key that was never charged: _windows has no entry for it.
NoWindow == [age |-> -1, count |-> 0]

\* Mutant: an elapsed window starts again with the count it had.
InUseKeepingCount(w, lag) ==
  IF w = NoWindow \/ w.age - lag >= Window THEN [age |-> lag, count |-> w.count]
                                            ELSE w

\* The window a call is charged to: a fresh one, which starts when the caller
\* read the clock, if the key has none or its window has elapsed.
InUse(w, lag) ==
  IF w = NoWindow \/ w.age - lag >= Window THEN [age |-> lag, count |-> 0]
                                            ELSE w

\* allow, allow_n: all n units are admitted or none is.
Fits(w, n) == w.count + n <= Limit
Charged(w, n) == [w EXCEPT !.count = @ + n]

\* A tick passes.  Ages beyond top are not told apart.
Older(w, top) ==
  IF w = NoWindow \/ w.age = top THEN w ELSE [w EXCEPT !.age = @ + 1]
=============================================================================
