--------------------------- MODULE ProcessingGuard ---------------------------
(***************************************************************************)
(* What concurrency.try_acquire_ai_system_processing promises its callers:  *)
(* a system is held by at most one thread; a thread takes systems one by    *)
(* one, never waiting for another thread, and gives them all back together. *)
(* The lock registry itself is not visible here, only who holds what.       *)
(***************************************************************************)
CONSTANTS System, Actor

VARIABLE held     \* the systems each thread holds

Free(s) == \A b \in Actor : s \notin held[b]

GInit == held = [a \in Actor |-> {}]

\* The non-blocking acquire succeeded.
Take(a, s) ==
  /\ Free(s)
  /\ held' = [held EXCEPT ![a] = @ \cup {s}]

\* The `with` block (or the ExitStack) is left, normally or by an exception.
GiveBack(a) == held' = [held EXCEPT ![a] = {}]

\* The process ends and its locks with it.
Forget == held' = [a \in Actor |-> {}]

GNext ==
  \/ \E a \in Actor, s \in System : Take(a, s)
  \/ \E a \in Actor : GiveBack(a)
  \/ Forget

GSpec == GInit /\ [][GNext]_held
=============================================================================
