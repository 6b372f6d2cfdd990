-------------------------- MODULE RunnerLifecycle --------------------------
(***************************************************************************)
(* The life of a PoolRunner as the pool may rely on it: the states of      *)
(* RunnerState and the steps between them, whatever happens inside.  A     *)
(* stopped runner is stopped for ever, a runner that failed to start may   *)
(* be started again, and an operation under way ends before the next       *)
(* begins.                                                                 *)
(***************************************************************************)
VARIABLE state

Idle == "idle"
Starting == "starting"
Started == "started"
StartFailure == "failed"
Stopping == "stopping"
Stopped == "stopped"

Init == state = Idle

Start == state \in {Idle, StartFailure} /\ state' = Starting

StartSettles == state = Starting /\ state' \in {Started, StartFailure}

\* stop() of a worker that runs, or that never came up.
Stop == state \in {Started, StartFailure} /\ state' = Stopping

StopSettles == state = Stopping /\ state' = Stopped

\* The worker is gone before anyone stopped it.
Crash == state = Started /\ state' = Stopped

Next == Start \/ StartSettles \/ Stop \/ StopSettles \/ Crash

Spec == Init /\ [][Next]_state
=============================================================================
