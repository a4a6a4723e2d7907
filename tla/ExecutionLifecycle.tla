-------------------------- MODULE ExecutionLifecycle --------------------------
(***************************************************************************)
(* What the execution fence promises about one queue item (a job or a task *)
(* group), independently of rows, workers and files: it is started at most *)
(* once, a cancellation that arrives before the start wins for ever, one   *)
(* that arrives during the run is honoured when the run ends, and the      *)
(* outcome, once published, never changes.                                 *)
(***************************************************************************)
CONSTANT Item

VARIABLE phase   \* phase[i]: where item i stands in its single execution

Phase == {"waiting", "running", "stopping", "completed", "cancelled"}

LifecycleTypeOK == phase \in [Item -> Phase]

LifecycleInit == phase = [i \in Item |-> "waiting"]

\* Item i moves from one phase to another; nothing else changes.
Move(i, from, to) ==
  /\ phase[i] = from
  /\ phase' = [phase EXCEPT ![i] = to]

Start(i)          == Move(i, "waiting", "running")
CancelUnstarted(i) == Move(i, "waiting", "cancelled")
AskToStop(i)      == Move(i, "running", "stopping")
Complete(i)       == Move(i, "running", "completed")
StopSafely(i)     == Move(i, "stopping", "cancelled")

LifecycleNext ==
  \E i \in Item :
    \/ Start(i)
    \/ CancelUnstarted(i)
    \/ AskToStop(i)
    \/ Complete(i)
    \/ StopSafely(i)

LifecycleSpec == LifecycleInit /\ [][LifecycleNext]_phase
===============================================================================
