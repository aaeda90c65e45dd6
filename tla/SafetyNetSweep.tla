---------------------------- MODULE SafetyNetSweep ----------------------------
(***************************************************************************)
(* The safety-net poll against core's ingest rate limit: scheduler.py sends *)
(* one structure push, then its derivations in chunks with a pause between  *)
(* them; every POST is charged by rate_limiter.py to the satellite's one    *)
(* scoped key before core does anything else, so each retry of a POST whose *)
(* answer was lost is charged again; a 429 is a PermanentIngestError and is *)
(* never retried.  The event-triggered tasks use the same key.              *)
(* The locks and what the pushes contain are in HybridTrigger.              *)
(***************************************************************************)
EXTENDS FixedWindow

CONSTANTS
  ChunkSize,    \* settings.ingest_batch_chunk_size
  Pace,         \* settings.ingest_batch_pace_seconds, in ticks
  MaxAttempts,  \* stop_after_attempt(3)
  Fleet,        \* how many derivations a sweep may have to send
  Traffic       \* units one other request with the same key may cost

ASSUME SweepAssumption ==
  /\ ChunkSize \in Nat \ {0}
  /\ Pace \in Nat
  /\ MaxAttempts \in Nat \ {0}
  /\ Fleet \subseteq Nat
  /\ Traffic \subseteq Nat \ {0}

VARIABLES
  window,   \* core's window for the satellite's key
  pc,       \* where the sweep is
  left,     \* derivations not yet sent
  tries,    \* failed attempts at the current POST
  wait,     \* ticks left of time.sleep
  quiet,    \* no other use of the key since before this sweep (history)
  refused   \* a POST of this sweep was answered 429 (history)

vars == <<window, pc, left, tries, wait, quiet, refused>>

Init ==
  /\ window = NoWindow
  /\ pc = "idle"
  /\ left = 0
  /\ tries = 0
  /\ wait = 0
  /\ quiet = FALSE
  /\ refused = FALSE

\* The units of the POST the sweep is at: chunks are slices of the list.
ChunkLength == IF left < ChunkSize THEN left ELSE ChunkSize
Units == IF pc = "structure" THEN 1 ELSE ChunkLength

\* The job starts; its structure push comes first.
Start ==
  /\ pc = "idle"
  /\ pc' = "structure"
  /\ left' \in Fleet
  /\ quiet' = (InUse(window, 0).count = 0)
  /\ refused' = FALSE
  /\ UNCHANGED <<window, tries, wait>>

\* Mutant: no sleep between chunks.
ProceedAtOnce ==
  /\ tries' = 0
  /\ \/ /\ pc = "structure"
        /\ pc' = IF left = 0 THEN "idle" ELSE "push"
        /\ UNCHANGED <<left, wait>>
     \/ /\ pc = "push"
        /\ left' = left - ChunkLength
        /\ pc' = IF left = ChunkLength THEN "idle" ELSE "pacing"
        /\ UNCHANGED wait

\* Mutant: a chunk that failed stays at the head of the list.
ProceedSameChunk ==
  /\ tries' = 0
  /\ \/ /\ pc = "structure"
        /\ pc' = IF left = 0 THEN "idle" ELSE "push"
        /\ UNCHANGED <<left, wait>>
     \/ /\ pc = "push"
        /\ left' = IF refused THEN left ELSE left - ChunkLength
        /\ pc' = IF left' = 0 THEN "idle" ELSE "pacing"
        /\ wait' = IF left' = 0 THEN 0 ELSE Pace

\* Whatever became of a POST the sweep goes on: after the structure push at
\* once, between chunks after a sleep, after the last chunk it ends.
Proceed ==
  /\ tries' = 0
  /\ \/ /\ pc = "structure"
        /\ pc' = IF left = 0 THEN "idle" ELSE "push"
        /\ UNCHANGED <<left, wait>>
     \/ /\ pc = "push"
        /\ left' = left - ChunkLength
        /\ pc' = IF left' = 0 THEN "idle" ELSE "pacing"
        /\ wait' = IF left' = 0 THEN 0 ELSE Pace

\* One attempt failed in a way that is retried, at most MaxAttempts times.
Attempted ==
  \/ /\ tries + 1 < MaxAttempts
     /\ tries' = tries + 1
     /\ UNCHANGED <<pc, left, wait>>
  \/ /\ tries + 1 = MaxAttempts
     /\ Proceed

Posting == pc \in {"structure", "push"}

\* Mutant: core charges the units even when it refuses.
RefusedCharging ==
  /\ Posting
  /\ ~Fits(InUse(window, 0), Units)
  /\ window' = Charged(InUse(window, 0), Units)
  /\ refused' = TRUE
  /\ Proceed
  /\ UNCHANGED quiet

\* 200: charged and answered.
Accepted ==
  /\ Posting
  /\ Fits(InUse(window, 0), Units)
  /\ window' = Charged(InUse(window, 0), Units)
  /\ Proceed
  /\ UNCHANGED <<quiet, refused>>

\* Charged, then the answer was lost or was a 5xx.
AnswerLost ==
  /\ Posting
  /\ Fits(InUse(window, 0), Units)
  /\ window' = Charged(InUse(window, 0), Units)
  /\ Attempted
  /\ UNCHANGED <<quiet, refused>>

\* The attempt never reached the limiter.
Unreached ==
  /\ Posting
  /\ Attempted
  /\ UNCHANGED <<window, quiet, refused>>

\* 429: not charged and not retried.
Refused ==
  /\ Posting
  /\ ~Fits(InUse(window, 0), Units)
  /\ window' = InUse(window, 0)
  /\ refused' = TRUE
  /\ Proceed
  /\ UNCHANGED quiet

\* The sleep is over.
WakeUp ==
  /\ pc = "pacing"
  /\ wait = 0
  /\ pc' = "push"
  /\ UNCHANGED <<window, left, tries, wait, quiet, refused>>

\* Another request with the key: an event task's pushes, or a POST of this
\* sweep that the client gave up on before core came to charge it.
OtherTraffic ==
  /\ \E n \in Traffic :
       LET w == InUse(window, 0) IN
       window' = IF Fits(w, n) THEN Charged(w, n) ELSE w
  /\ quiet' = FALSE
  /\ UNCHANGED <<pc, left, tries, wait, refused>>

\* Core restarts: the limiter's counts are in its memory.
CoreRestart ==
  /\ window' = NoWindow
  /\ UNCHANGED <<pc, left, tries, wait, quiet, refused>>

Tick ==
  /\ window' = Older(window, Window)
  /\ wait' = IF wait = 0 THEN 0 ELSE wait - 1
  /\ UNCHANGED <<pc, left, tries, quiet, refused>>

SweepStep == Start \/ Accepted \/ AnswerLost \/ Unreached \/ Refused \/ WakeUp

Next == SweepStep \/ OtherTraffic \/ CoreRestart \/ Tick

Spec == Init /\ [][Next]_vars

\* The job's thread runs and time passes.
FairSpec == Spec /\ WF_vars(SweepStep) /\ WF_vars(Tick)

-----------------------------------------------------------------------------
TypeOK ==
  /\ window \in [age : 0 .. Window, count : 0 .. Limit] \cup {NoWindow}
  /\ pc \in {"idle", "structure", "push", "pacing"}
  /\ left \in Nat
  /\ tries \in 0 .. MaxAttempts - 1
  /\ wait \in 0 .. Pace
  /\ quiet \in BOOLEAN
  /\ refused \in BOOLEAN
  /\ pc \in {"push", "pacing"} => left > 0

\* Chunk size and pace are there so that a sweep never trips core's flood
\* protection (scheduler.py, config.py, PERFORMANCE.md): no POST of a sweep that
\* has the key to itself is answered 429, retries included.
QuietSweepNeverRefused == quiet => ~refused

\* A sweep ends, and gives its locks back, whatever core answers: neither a
\* 429 nor a lost answer holds it at one chunk for ever.
SweepEnds == pc # "idle" ~> pc = "idle"
=============================================================================
