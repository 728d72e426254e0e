-------------------------- MODULE HealthPollerProofs --------------------------
(***************************************************************************)
(* The poller's thresholds, for every number of pods and every threshold a *)
(* u8 can hold.                                                            *)
(***************************************************************************)
EXTENDS HealthPoller, TLAPS

\* A counter is the history of its results, up to where it saturates.
Saturated(n) == IF n < U8Max THEN n ELSE U8Max
CountersTellRuns ==
    \A p \in Pods : /\ successes[p] = Saturated(okRun[p])
                    /\ failures[p] = Saturated(badRun[p])

Inv == /\ TypeOK
       /\ CountersTellRuns
       /\ ThresholdNotMissed
       /\ FlagIsBitUnlessOverwritten

\* Saturating loses nothing that a threshold can tell: the counter of a longer
\* run is the incremented counter, and both reach a threshold together.
LEMMA SaturatingCounts ==
    ASSUME NEW n \in 0 .. RunCap
    PROVE  /\ Saturated(n) \in 0 .. U8Max
           /\ Longer(n) \in 0 .. RunCap
           /\ SaturatingInc(Saturated(n)) = Saturated(Longer(n))
           /\ \A k \in 1 .. U8Max : Saturated(Longer(n)) >= k <=> Longer(n) >= k
  BY HealthAssumption DEF Saturated, Longer, SaturatingInc

\* The poller starts with every counter at zero, every flag and bit cleared.
LEMMA InitInv == Init => Inv
  BY HealthAssumption DEF Init, Inv, TypeOK, CountersTellRuns, Saturated,
     ThresholdNotMissed, FlagIsBitUnlessOverwritten

\* apply_health_result of a healthy check.
LEMMA ApplyHealthyInv ==
    ASSUME Inv, NEW p \in Pods, ApplyHealthy(p)
    PROVE  Inv'
<1>1. PICK flips \in BOOLEAN :
        /\ flips <=> ~marked[p] /\ SaturatingInc(successes[p]) >= HealthyThreshold
        /\ checks' = [checks EXCEPT ![p] = "none"]
        /\ successes' = [successes EXCEPT ![p] = SaturatingInc(@)]
        /\ failures' = [failures EXCEPT ![p] = 0]
        /\ marked' = [marked EXCEPT ![p] = @ \/ flips]
        /\ alive' = IF flips THEN alive \cup {p} ELSE alive
        /\ okRun' = [okRun EXCEPT ![p] = Longer(@)]
        /\ badRun' = [badRun EXCEPT ![p] = 0]
        /\ ours' = IF flips THEN ours \cup {p} ELSE ours
        /\ UNCHANGED <<running, faults>>
  BY DEF ApplyHealthy, FlipsUp
<1>2. okRun[p] \in 0 .. RunCap /\ successes[p] = Saturated(okRun[p])
  BY DEF Inv, TypeOK, CountersTellRuns
<1>3. /\ SaturatingInc(successes[p]) = Saturated(Longer(okRun[p]))
      /\ Saturated(Longer(okRun[p])) \in 0 .. U8Max
      /\ Longer(okRun[p]) \in 0 .. RunCap
      /\ SaturatingInc(successes[p]) >= HealthyThreshold
            <=> Longer(okRun[p]) >= HealthyThreshold
  BY <1>2, SaturatingCounts, HealthAssumption
<1>4. TypeOK'
  BY <1>1, <1>3, HealthAssumption DEF Inv, TypeOK
<1>5. CountersTellRuns'
  BY <1>1, <1>3, HealthAssumption DEF Inv, TypeOK, CountersTellRuns, Saturated
<1>6. ThresholdNotMissed'
  <2>1. ~(badRun'[p] >= UnhealthyThreshold)
    BY <1>1, HealthAssumption DEF Inv, TypeOK
  <2>2. okRun'[p] >= HealthyThreshold => marked'[p]
    BY <1>1, <1>3 DEF Inv, TypeOK
  <2>3. \A q \in Pods \ {p} : /\ marked'[q] = marked[q]
                              /\ okRun'[q] = okRun[q]
                              /\ badRun'[q] = badRun[q]
    BY <1>1 DEF Inv, TypeOK
  <2> QED
    BY <2>1, <2>2, <2>3 DEF Inv, ThresholdNotMissed
<1>7. FlagIsBitUnlessOverwritten'
  BY <1>1 DEF Inv, TypeOK, FlagIsBitUnlessOverwritten
<1> QED
  BY <1>4, <1>5, <1>6, <1>7 DEF Inv

\* apply_health_result of an unhealthy check.
LEMMA ApplyUnhealthyInv ==
    ASSUME Inv, NEW p \in Pods, ApplyUnhealthy(p)
    PROVE  Inv'
<1>1. PICK flips \in BOOLEAN :
        /\ flips <=> marked[p] /\ SaturatingInc(failures[p]) >= UnhealthyThreshold
        /\ checks' = [checks EXCEPT ![p] = "none"]
        /\ failures' = [failures EXCEPT ![p] = SaturatingInc(@)]
        /\ successes' = [successes EXCEPT ![p] = 0]
        /\ marked' = [marked EXCEPT ![p] = @ /\ ~flips]
        /\ alive' = IF flips THEN alive \ {p} ELSE alive
        /\ badRun' = [badRun EXCEPT ![p] = Longer(@)]
        /\ okRun' = [okRun EXCEPT ![p] = 0]
        /\ ours' = IF flips THEN ours \cup {p} ELSE ours
        /\ UNCHANGED <<running, faults>>
  BY DEF ApplyUnhealthy, FlipsDown
<1>2. badRun[p] \in 0 .. RunCap /\ failures[p] = Saturated(badRun[p])
  BY DEF Inv, TypeOK, CountersTellRuns
<1>3. /\ SaturatingInc(failures[p]) = Saturated(Longer(badRun[p]))
      /\ Saturated(Longer(badRun[p])) \in 0 .. U8Max
      /\ Longer(badRun[p]) \in 0 .. RunCap
      /\ SaturatingInc(failures[p]) >= UnhealthyThreshold
            <=> Longer(badRun[p]) >= UnhealthyThreshold
  BY <1>2, SaturatingCounts, HealthAssumption
<1>4. TypeOK'
  BY <1>1, <1>3, HealthAssumption DEF Inv, TypeOK
<1>5. CountersTellRuns'
  BY <1>1, <1>3, HealthAssumption DEF Inv, TypeOK, CountersTellRuns, Saturated
<1>6. ThresholdNotMissed'
  <2>1. ~(okRun'[p] >= HealthyThreshold)
    BY <1>1, HealthAssumption DEF Inv, TypeOK
  <2>2. badRun'[p] >= UnhealthyThreshold => ~marked'[p]
    BY <1>1, <1>3 DEF Inv, TypeOK
  <2>3. \A q \in Pods \ {p} : /\ marked'[q] = marked[q]
                              /\ okRun'[q] = okRun[q]
                              /\ badRun'[q] = badRun[q]
    BY <1>1 DEF Inv, TypeOK
  <2> QED
    BY <2>1, <2>2, <2>3 DEF Inv, ThresholdNotMissed
<1>7. FlagIsBitUnlessOverwritten'
  BY <1>1 DEF Inv, TypeOK, FlagIsBitUnlessOverwritten
<1> QED
  BY <1>4, <1>5, <1>6, <1>7 DEF Inv

\* Every step of the poller, of its pods and of the other writers of the
\* alive bitmap preserves the invariant.
LEMMA NextInv == Inv /\ [Next]_vars => Inv'
<1> SUFFICES ASSUME Inv, [Next]_vars PROVE Inv'
  OBVIOUS
<1> USE HealthAssumption
<1>1. CASE Tick
  BY <1>1 DEF Inv, Tick, TypeOK, CountersTellRuns, ThresholdNotMissed,
     FlagIsBitUnlessOverwritten, history
<1>2. ASSUME NEW p \in Pods, Answer(p) \/ SlowAnswer(p) \/ CheckLost(p)
      PROVE  Inv'
  BY <1>2 DEF Inv, Answer, SlowAnswer, CheckLost, TypeOK, CountersTellRuns,
     ThresholdNotMissed, FlagIsBitUnlessOverwritten, history
<1>3. ASSUME NEW p \in Pods, Flip(p)
      PROVE  Inv'
  BY <1>3 DEF Inv, Flip, TypeOK, CountersTellRuns, ThresholdNotMissed,
     FlagIsBitUnlessOverwritten, history, poller
<1>4. ASSUME NEW p \in Pods, OtherMarksAlive(p) \/ OtherShutsDown(p)
      PROVE  Inv'
  BY <1>4 DEF Inv, OtherMarksAlive, OtherShutsDown, TypeOK, CountersTellRuns,
     ThresholdNotMissed, FlagIsBitUnlessOverwritten, poller
<1>5. CASE UNCHANGED vars
  BY <1>5 DEF Inv, vars, poller, history, TypeOK, CountersTellRuns,
     ThresholdNotMissed, FlagIsBitUnlessOverwritten
<1> QED
  BY <1>1, <1>2, <1>3, <1>4, <1>5, ApplyHealthyInv, ApplyUnhealthyInv
  DEF Next, Poll, Fault, Other

\* The invariant holds in every behaviour of the poller.
THEOREM InvHolds == Spec => []Inv
<1>1. Init => Inv
  BY InitInv
<1>2. Inv /\ [Next]_vars => Inv'
  BY NextInv
<1> QED
  BY <1>1, <1>2, PTL DEF Spec

\* Every variable keeps its type; the counters stay in a u8.
THEOREM TypeHolds == Spec => []TypeOK
  BY InvHolds, PTL DEF Inv

\* For all thresholds a u8 holds, observe never misses one.
THEOREM ThresholdsHold == Spec => []ThresholdNotMissed
  BY InvHolds, PTL DEF Inv

\* The poller's flag and the alive bit agree until another writer intervenes.
THEOREM FlagHolds == Spec => []FlagIsBitUnlessOverwritten
  BY InvHolds, PTL DEF Inv

\* A step that flips a pod's flag ends a full run of results.
LEMMA FlipStep ==
    ASSUME Inv, [Next]_vars, NEW p \in Pods
    PROVE  /\ ~marked[p] /\ marked'[p] => okRun'[p] >= HealthyThreshold
           /\ marked[p] /\ ~marked'[p] => badRun'[p] >= UnhealthyThreshold
<1> USE HealthAssumption
<1>1. ASSUME NEW q \in Pods, ApplyHealthy(q)
      PROVE  /\ ~marked[p] /\ marked'[p] => okRun'[p] >= HealthyThreshold
             /\ marked[p] /\ ~marked'[p] => badRun'[p] >= UnhealthyThreshold
  <2>1. okRun[q] \in 0 .. RunCap /\ successes[q] = Saturated(okRun[q])
    BY DEF Inv, TypeOK, CountersTellRuns
  <2>2. SaturatingInc(successes[q]) >= HealthyThreshold
            => Longer(okRun[q]) >= HealthyThreshold
    BY <2>1, SaturatingCounts
  <2> QED
    BY <1>1, <2>2 DEF ApplyHealthy, FlipsUp, Inv, TypeOK
<1>2. ASSUME NEW q \in Pods, ApplyUnhealthy(q)
      PROVE  /\ ~marked[p] /\ marked'[p] => okRun'[p] >= HealthyThreshold
             /\ marked[p] /\ ~marked'[p] => badRun'[p] >= UnhealthyThreshold
  <2>1. badRun[q] \in 0 .. RunCap /\ failures[q] = Saturated(badRun[q])
    BY DEF Inv, TypeOK, CountersTellRuns
  <2>2. SaturatingInc(failures[q]) >= UnhealthyThreshold
            => Longer(badRun[q]) >= UnhealthyThreshold
    BY <2>1, SaturatingCounts
  <2> QED
    BY <1>2, <2>2 DEF ApplyUnhealthy, FlipsDown, Inv, TypeOK
<1>3. CASE marked' = marked
  BY <1>3
<1>4. \/ \E q \in Pods : ApplyHealthy(q) \/ ApplyUnhealthy(q)
      \/ marked' = marked
  BY DEF Next, Poll, Fault, Other, Tick, Answer, SlowAnswer, CheckLost, Flip,
     OtherMarksAlive, OtherShutsDown, vars, poller
<1> QED
  BY <1>1, <1>2, <1>3, <1>4

\* marked_alive never flips on fewer results in a row than its threshold.
THEOREM FlipsHold == Spec => FlipNeedsFullRun
<1>1. Inv /\ [Next]_vars =>
        [\A p \in Pods :
           /\ ~marked[p] /\ marked'[p] => okRun'[p] >= HealthyThreshold
           /\ marked[p] /\ ~marked'[p] => badRun'[p] >= UnhealthyThreshold]_vars
  BY FlipStep
<1> QED
  BY <1>1, InvHolds, PTL DEF Spec, FlipNeedsFullRun
=============================================================================
