---------------------------- MODULE HealthPoller ----------------------------
(***************************************************************************)
(* The health poller: a task that checks every configured pod in rounds    *)
(* and moves pods in and out of the registry's alive bitmap.               *)
(*                                                                         *)
(* The poller is not the only writer of that bitmap.  Cache events and     *)
(* successful responses write it too, and the poller acts on its own       *)
(* marked_alive flag, never on the bitmap: it writes only when the flag    *)
(* flips.  Those other writers are the environment of this module.         *)
(***************************************************************************)
EXTENDS Integers, FiniteSets

CONSTANTS Pods,                \* the configured pods
          HealthyThreshold,    \* health.healthy_threshold, after max(1)
          UnhealthyThreshold,  \* health.unhealthy_threshold, after max(1)
          U8Max,               \* u8::MAX (255), where the counters saturate
          MaxFaults,           \* bound: pod failures, slow or lost checks
          RunCap               \* bound: where the history of results stops counting

ASSUME HealthAssumption ==
    /\ U8Max \in Nat \ {0}
    /\ HealthyThreshold \in 1 .. U8Max
    /\ UnhealthyThreshold \in 1 .. U8Max
    /\ MaxFaults \in Nat
    /\ RunCap \in Nat /\ RunCap >= U8Max

VARIABLES
    alive,      \* the registry's alive bitmap
    checks,     \* per pod: its check in this round
    successes,  \* per pod: consecutive_successes
    failures,   \* per pod: consecutive_failures
    marked,     \* per pod: marked_alive
    running,    \* the pods that can answer (environment)
    faults,     \* how many faults there have been
    okRun,      \* history, per pod: healthy results in a row, not saturated
    badRun,     \* history, per pod: unhealthy results in a row
    ours        \* history: the pods whose bit the poller was last to write

poller == <<checks, successes, failures, marked>>
history == <<okRun, badRun, ours>>
vars == <<alive, poller, running, faults, history>>

Init ==
    /\ alive = {}
    /\ checks = [p \in Pods |-> "none"]
    /\ successes = [p \in Pods |-> 0]
    /\ failures = [p \in Pods |-> 0]
    /\ marked = [p \in Pods |-> FALSE]
    /\ running \in SUBSET Pods
    /\ faults = 0
    /\ okRun = [p \in Pods |-> 0]
    /\ badRun = [p \in Pods |-> 0]
    /\ ours = Pods

-----------------------------------------------------------------------------
(* The environment of the poller.                                          *)

\* A pod stops answering, or answers again.
Flip(p) ==
    /\ faults < MaxFaults
    /\ faults' = faults + 1
    /\ running' = IF p \in running THEN running \ {p} ELSE running \cup {p}
    /\ UNCHANGED <<alive, poller, history>>

\* Somebody else writes the bit of p: mark_pod_alive or shutdown_pod.
OtherMarksAlive(p) ==
    /\ alive' = alive \cup {p}
    /\ ours' = ours \ {p}
    /\ UNCHANGED <<poller, running, faults, okRun, badRun>>

OtherShutsDown(p) ==
    /\ alive' = alive \ {p}
    /\ ours' = ours \ {p}
    /\ UNCHANGED <<poller, running, faults, okRun, badRun>>

-----------------------------------------------------------------------------
(* start_health_poller.                                                    *)

\* Mutant: only pods that are marked alive are checked.
TickMarked ==
    /\ \A p \in Pods : checks[p] = "none"
    /\ checks' = [p \in Pods |-> IF marked[p] THEN "sent" ELSE "none"]
    /\ UNCHANGED <<alive, successes, failures, marked, running, faults, history>>

\* interval.tick(), then one spawned check per pod.  The checks of a round
\* are all joined before the next tick is awaited.
Tick ==
    /\ \A p \in Pods : checks[p] = "none"
    /\ checks' = [p \in Pods |-> "sent"]
    /\ UNCHANGED <<alive, successes, failures, marked, running, faults, history>>

\* check_pod_health of p ends: a 2xx within the timeout, or not.
Answer(p) ==
    /\ checks[p] = "sent"
    /\ checks' = [checks EXCEPT ![p] = IF p \in running THEN "healthy" ELSE "unhealthy"]
    /\ UNCHANGED <<alive, successes, failures, marked, running, faults, history>>

\* The check of a pod that runs times out, or gets another status.
SlowAnswer(p) ==
    /\ checks[p] = "sent"
    /\ p \in running
    /\ faults < MaxFaults
    /\ faults' = faults + 1
    /\ checks' = [checks EXCEPT ![p] = "unhealthy"]
    /\ UNCHANGED <<alive, successes, failures, marked, running, history>>

\* join_next yields an error for the task: no result for p in this round.
CheckLost(p) ==
    /\ checks[p] # "none"
    /\ faults < MaxFaults
    /\ faults' = faults + 1
    /\ checks' = [checks EXCEPT ![p] = "none"]
    /\ UNCHANGED <<alive, successes, failures, marked, running, history>>

\* The history counts results in a row, up to RunCap.
Longer(n) == IF n < RunCap THEN n + 1 ELSE n

\* Mutants: an increment that does not saturate, one that saturates early.
PlainInc(n) == n + 1
EarlyInc(n) == IF n < U8Max - 1 THEN n + 1 ELSE U8Max - 1

SaturatingInc(n) == IF n < U8Max THEN n + 1 ELSE U8Max

\* observe: the threshold is reached by a pod whose flag says otherwise.
FlipsUp(p) == ~marked[p] /\ SaturatingInc(successes[p]) >= HealthyThreshold
FlipsDown(p) == marked[p] /\ SaturatingInc(failures[p]) >= UnhealthyThreshold

\* observe(Healthy), and mark_pod_alive if the flag flips.
ApplyHealthy(p) ==
    /\ checks[p] = "healthy"
    /\ checks' = [checks EXCEPT ![p] = "none"]
    /\ successes' = [successes EXCEPT ![p] = SaturatingInc(@)]
    /\ failures' = [failures EXCEPT ![p] = 0]
    /\ marked' = [marked EXCEPT ![p] = @ \/ FlipsUp(p)]
    /\ alive' = IF FlipsUp(p) THEN alive \cup {p} ELSE alive
    /\ okRun' = [okRun EXCEPT ![p] = Longer(@)]
    /\ badRun' = [badRun EXCEPT ![p] = 0]
    /\ ours' = IF FlipsUp(p) THEN ours \cup {p} ELSE ours
    /\ UNCHANGED <<running, faults>>

\* Mutant: the flag flips but the registry is not told.
UnhealthySilent(p) ==
    /\ checks[p] = "unhealthy"
    /\ checks' = [checks EXCEPT ![p] = "none"]
    /\ failures' = [failures EXCEPT ![p] = SaturatingInc(@)]
    /\ successes' = [successes EXCEPT ![p] = 0]
    /\ marked' = [marked EXCEPT ![p] = @ /\ ~FlipsDown(p)]
    /\ badRun' = [badRun EXCEPT ![p] = Longer(@)]
    /\ okRun' = [okRun EXCEPT ![p] = 0]
    /\ UNCHANGED <<alive, running, faults, ours>>

\* Mutant: a failure does not reset the count of successes.
UnhealthyNoReset(p) ==
    /\ checks[p] = "unhealthy"
    /\ checks' = [checks EXCEPT ![p] = "none"]
    /\ failures' = [failures EXCEPT ![p] = SaturatingInc(@)]
    /\ marked' = [marked EXCEPT ![p] = @ /\ ~FlipsDown(p)]
    /\ alive' = IF FlipsDown(p) THEN alive \ {p} ELSE alive
    /\ badRun' = [badRun EXCEPT ![p] = Longer(@)]
    /\ okRun' = [okRun EXCEPT ![p] = 0]
    /\ ours' = IF FlipsDown(p) THEN ours \cup {p} ELSE ours
    /\ UNCHANGED <<successes, running, faults>>

\* observe(Unhealthy), and shutdown_pod if the flag flips.
ApplyUnhealthy(p) ==
    /\ checks[p] = "unhealthy"
    /\ checks' = [checks EXCEPT ![p] = "none"]
    /\ failures' = [failures EXCEPT ![p] = SaturatingInc(@)]
    /\ successes' = [successes EXCEPT ![p] = 0]
    /\ marked' = [marked EXCEPT ![p] = @ /\ ~FlipsDown(p)]
    /\ alive' = IF FlipsDown(p) THEN alive \ {p} ELSE alive
    /\ badRun' = [badRun EXCEPT ![p] = Longer(@)]
    /\ okRun' = [okRun EXCEPT ![p] = 0]
    /\ ours' = IF FlipsDown(p) THEN ours \cup {p} ELSE ours
    /\ UNCHANGED <<running, faults>>

-----------------------------------------------------------------------------
Poll(p) == Answer(p) \/ ApplyHealthy(p) \/ ApplyUnhealthy(p)
Fault(p) == Flip(p) \/ SlowAnswer(p) \/ CheckLost(p)
Other(p) == OtherMarksAlive(p) \/ OtherShutsDown(p)

Next == Tick \/ \E p \in Pods : Poll(p) \/ Fault(p) \/ Other(p)

\* The interval keeps ticking, a check ends by its timeout at the latest, and
\* the join loop applies every result it gets.
Fairness == WF_vars(Tick) /\ \A p \in Pods : WF_vars(Poll(p))

Spec == Init /\ [][Next]_vars
FairSpec == Spec /\ Fairness

-----------------------------------------------------------------------------
(* Properties.                                                             *)

\* The counters stay in a u8, a check is in one of the stages of a round.
TypeOK ==
    /\ alive \subseteq Pods
    /\ checks \in [Pods -> {"none", "sent", "healthy", "unhealthy"}]
    /\ successes \in [Pods -> 0 .. U8Max]
    /\ failures \in [Pods -> 0 .. U8Max]
    /\ marked \in [Pods -> BOOLEAN]
    /\ running \subseteq Pods
    /\ faults \in 0 .. MaxFaults
    /\ okRun \in [Pods -> 0 .. RunCap]
    /\ badRun \in [Pods -> 0 .. RunCap]
    /\ ours \subseteq Pods

\* observe never misses a threshold: a pod with HealthyThreshold healthy
\* results in a row is marked, one with UnhealthyThreshold unhealthy ones is
\* not, also when the threshold is where the counters saturate.
ThresholdNotMissed ==
    \A p \in Pods : /\ okRun[p] >= HealthyThreshold => marked[p]
                    /\ badRun[p] >= UnhealthyThreshold => ~marked[p]

\* observe never flips early: marked_alive changes only with a full run of
\* results of the new kind.
FlipNeedsFullRun ==
    [][\A p \in Pods :
          /\ ~marked[p] /\ marked'[p] => okRun'[p] >= HealthyThreshold
          /\ marked[p] /\ ~marked'[p] => badRun'[p] >= UnhealthyThreshold]_vars

\* The poller's flag tells the pod's bit as long as nobody else has written
\* the bit since the flag flipped; after that it may not.
FlagIsBitUnlessOverwritten == \A p \in ours : p \in alive <=> marked[p]

\* The poller follows a pod that settles: its flag ends up telling whether
\* the pod answers, whatever checks were slow or lost before.
PollerConverges ==
    \A p \in Pods : /\ <>[](p \in running) => <>[](marked[p])
                    /\ <>[](p \notin running) => <>[](~marked[p])
=============================================================================
