---------------------------- MODULE GatewayProofs ----------------------------
(***************************************************************************)
(* The accounting of in-flight requests, the groups of the pods of a plan, *)
(* and the order in which blocks and sessions are recorded, for every      *)
(* number of requests, pods, sessions, prompts and events.                 *)
(***************************************************************************)
EXTENDS Gateway, ChainProofs, FiniteSetTheorems

-----------------------------------------------------------------------------
(* The tasks of the requests.                                              *)

\* From its first pick on, a request has a pod, one of the configured ones.
TasksOK == /\ pc \in [Requests -> Labels]
           /\ plan \in [Requests -> Plans]
           /\ \A r \in Requests : pc[r] \in Routed => plan[r].primary \in Pods

\* The plan of an ended request is a plan.
LEMMA NoPlanType == NoPlan \in Plans
  BY DEF NoPlan, Plans

\* A step of r changes the pc and the plan of r only.
LEMMA TaskStep ==
    ASSUME TasksOK, NEW r \in Requests, NEW label \in Labels, NEW q \in Plans,
           pc' = [pc EXCEPT ![r] = label], plan' = [plan EXCEPT ![r] = q],
           label \in Routed => q.primary \in Pods
    PROVE  TasksOK'
  BY DEF TasksOK

\* Routing: the plan is filled in from the catalog.
LEMMA RouteTasks ==
    ASSUME TasksOK, alive \subseteq Pods, NEW r \in Requests,
           Prepare(r) \/ Refuse(r) \/ Route(r)
    PROVE  TasksOK'
<1> USE DEF Goto, Labels, Routed
<1>0. plan[r] \in Plans
  BY DEF TasksOK
<1>1. CASE Prepare(r)
  <2>1. PICK m \in Modes, hs \in Prompts, s \in Sessions \cup {None} :
           plan' = [plan EXCEPT ![r] = [@ EXCEPT !.mode = m, !.chain = hs, !.session = s]]
    BY <1>1 DEF Prepare
  <2>2. m \in {"single", "disaggregated"} /\ hs \in Seq(Hashes)
    BY GatewayAssumption
  <2> DEFINE q == [plan[r] EXCEPT !.mode = m, !.chain = hs, !.session = s]
  <2>3. q \in Plans
    BY <1>0, <2>2 DEF Plans
  <2>4. plan' = [plan EXCEPT ![r] = q] /\ pc' = [pc EXCEPT ![r] = "filter"]
    BY <1>1, <2>1 DEF Prepare
  <2> HIDE DEF q
  <2> QED
    BY <2>3, <2>4, TaskStep
<1>2. CASE Refuse(r) \/ Reject(r)
  BY <1>2, NoPlanType DEF Refuse, Reject, End, TasksOK
<1>3. CASE FilterPrimary(r)
  <2> DEFINE cands == EligibleCandidates(PrimaryRole(r), alive, inflight)
             q == [plan[r] EXCEPT !.live = alive, !.cands = cands]
  <2>1. cands \subseteq Pods
    BY DEF EligibleCandidates, Group
  <2> HIDE DEF cands
  <2>2. q \in Plans
    BY <1>0, <2>1 DEF Plans
  <2>3. plan' = [plan EXCEPT ![r] = q] /\ pc' = [pc EXCEPT ![r] = "pick"]
    BY <1>3 DEF FilterPrimary, cands
  <2> HIDE DEF q
  <2> QED
    BY <2>2, <2>3, TaskStep
<1>4. CASE FilterDecode(r)
  <2> DEFINE cands == EligibleCandidates("decode", plan[r].live, inflight)
             q == [plan[r] EXCEPT !.cands = cands]
  <2>1. cands \subseteq Pods
    BY DEF EligibleCandidates, Group
  <2> HIDE DEF cands
  <2>2. q \in Plans /\ q.primary = plan[r].primary
    BY <1>0, <2>1 DEF Plans
  <2>3. plan' = [plan EXCEPT ![r] = q] /\ pc' = [pc EXCEPT ![r] = "pickDecode"]
    BY <1>4 DEF FilterDecode, cands
  <2>4. plan[r].primary \in Pods
    BY <1>4 DEF FilterDecode, TasksOK
  <2> HIDE DEF q
  <2> QED
    BY <2>2, <2>3, <2>4, TaskStep
<1>5. CASE PickPrimary(r)
  <2>1. PICK p \in plan[r].cands : plan' = [plan EXCEPT ![r].primary = p]
    BY <1>5 DEF PickPrimary
  <2>2. p \in Pods
    BY <1>0 DEF Plans
  <2>3. /\ plan' \in [Requests -> Plans] /\ plan'[r].primary = p
        /\ \A u \in Requests \ {r} : plan'[u] = plan[u]
    <3> DEFINE q == [plan[r] EXCEPT !.primary = p]
    <3>1. q \in Plans /\ q.primary = p
      BY <1>0, <2>2 DEF Plans
    <3>2. plan' = [plan EXCEPT ![r] = q]
      BY <2>1
    <3> HIDE DEF q
    <3> QED
      BY <3>1, <3>2 DEF TasksOK
  <2>4. pc' \in [Requests -> Labels] /\ \A u \in Requests \ {r} : pc'[u] = pc[u]
    BY <1>5 DEF PickPrimary, TasksOK
  <2> QED
    BY <2>2, <2>3, <2>4 DEF TasksOK
<1>6. CASE PickDecode(r)
  <2>1. PICK p \in plan[r].cands : plan' = [plan EXCEPT ![r].decode = p]
    BY <1>6 DEF PickDecode
  <2>2. p \in Pods
    BY <1>0 DEF Plans
  <2>3. /\ plan' \in [Requests -> Plans]
        /\ \A u \in Requests : plan'[u].primary = plan[u].primary
    <3> DEFINE q == [plan[r] EXCEPT !.decode = p]
    <3>1. q \in Plans /\ q.primary = plan[r].primary
      BY <1>0, <2>2 DEF Plans
    <3>2. plan' = [plan EXCEPT ![r] = q]
      BY <2>1
    <3> HIDE DEF q
    <3> QED
      BY <3>1, <3>2 DEF TasksOK
  <2> QED
    BY <1>6, <2>3 DEF PickDecode, TasksOK
<1> QED
  BY <1>1, <1>2, <1>3, <1>5, <1>6, <1>4 DEF Route

\* Forwarding and accounting: the plan stays until the task ends.
LEMMA ForwardTasks ==
    ASSUME TasksOK, NEW r \in Requests, Forward(r) \/ Account(r)
    PROVE  TasksOK'
<1> USE DEF Goto, Labels, Routed
<1>1. CASE Send(r) \/ Succeed(r) \/ MarkPodAlive(r)
  BY <1>1 DEF Send, Track, Succeed, MarkPodAlive, TasksOK
<1>2. CASE Fail(r) \/ Remember(r)
  BY <1>2, NoPlanType DEF Fail, Remember, End, TasksOK
<1>3. CASE RegisterBlock(r)
  <2> DEFINE i == plan[r].done + 1
  <2>1. plan[r] \in Plans /\ i \in Nat
    BY DEF TasksOK, Plans
  <2>2. plan' = [plan EXCEPT ![r].done = i] /\ UNCHANGED pc
    BY <1>3 DEF RegisterBlock
  <2> HIDE DEF i
  <2>3. /\ plan' \in [Requests -> Plans]
        /\ \A u \in Requests : plan'[u].primary = plan[u].primary
    <3> DEFINE q == [plan[r] EXCEPT !.done = i]
    <3>1. q \in Plans /\ q.primary = plan[r].primary
      BY <2>1 DEF Plans
    <3>2. plan' = [plan EXCEPT ![r] = q]
      BY <2>2
    <3> HIDE DEF q
    <3> QED
      BY <3>1, <3>2 DEF TasksOK
  <2> QED
    BY <2>2, <2>3 DEF TasksOK
<1> QED
  BY <1>1, <1>2, <1>3 DEF Forward, Account

-----------------------------------------------------------------------------
(* The poller in the gateway.                                              *)

\* A step of the gateway is a step of the poller, or a write of the alive
\* bitmap by another, or nothing to it.
LEMMA NextIsPollerStep == TasksOK /\ [Next]_vars => [Poller!Next]_(Poller!vars)
<1> SUFFICES ASSUME TasksOK, [Next]_vars PROVE [Poller!Next]_(Poller!vars)
  OBVIOUS
<1>1. CASE Health
  BY <1>1 DEF Health, Poller!Next
<1>2. ASSUME NEW p \in Pods, Poller!OtherMarksAlive(p) \/ Poller!OtherShutsDown(p)
      PROVE  Poller!Next
  BY <1>2 DEF Poller!Next, Poller!Other
<1>3. CASE UNCHANGED <<alive, health, ours>>
  BY <1>3 DEF health, Poller!vars, Poller!poller, Poller!history
<1>4. CASE CacheEvent
  BY <1>2, <1>3, <1>4 DEF CacheEvent, ShutdownEvent, RegisterEvent, RegisterPrefix, EvictEvent,
     Registry!Register, Registry!Evict
<1>5. ASSUME NEW r \in Requests, MarkPodAlive(r)
      PROVE  Poller!Next
  BY <1>2, <1>5 DEF MarkPodAlive, TasksOK, Routed
<1>6. ASSUME NEW r \in Requests, Prepare(r) \/ Refuse(r) \/ Route(r) \/ Forward(r)
                                 \/ RegisterBlock(r) \/ Remember(r)
      PROVE  UNCHANGED <<alive, health, ours>>
  BY <1>6 DEF Prepare, Refuse, Route, FilterPrimary, PickPrimary, FilterDecode, PickDecode,
     Reject, Forward, Send, Track, Succeed, Fail, RegisterBlock, Remember, Registry!Register
<1> QED
  BY <1>1, <1>3, <1>4, <1>5, <1>6 DEF Next, Account, vars

\* The counters and flags of the poller keep their types.
LEMMA PollerTypes ==
    ASSUME Poller!TypeOK, [Poller!Next]_(Poller!vars)
    PROVE  Poller!TypeOK'
<1> USE ThresholdAssumption DEF Poller!TypeOK
<1>1. CASE Poller!Tick
  BY <1>1 DEF Poller!Tick, Poller!history
<1>2. ASSUME NEW p \in Pods, Poller!Answer(p) \/ Poller!SlowAnswer(p) \/ Poller!CheckLost(p)
      PROVE  Poller!TypeOK'
  BY <1>2 DEF Poller!Answer, Poller!SlowAnswer, Poller!CheckLost, Poller!history
<1>3. ASSUME NEW p \in Pods, Poller!Flip(p) \/ Poller!OtherMarksAlive(p) \/ Poller!OtherShutsDown(p)
      PROVE  Poller!TypeOK'
  BY <1>3 DEF Poller!Flip, Poller!OtherMarksAlive, Poller!OtherShutsDown, Poller!poller,
     Poller!history
<1>4. ASSUME NEW p \in Pods, Poller!ApplyHealthy(p)
      PROVE  Poller!TypeOK'
  BY <1>4 DEF Poller!ApplyHealthy, Poller!FlipsUp, Poller!SaturatingInc, Poller!Longer
<1>5. ASSUME NEW p \in Pods, Poller!ApplyUnhealthy(p)
      PROVE  Poller!TypeOK'
  BY <1>5 DEF Poller!ApplyUnhealthy, Poller!FlipsDown, Poller!SaturatingInc, Poller!Longer
<1>6. CASE UNCHANGED Poller!vars
  BY <1>6 DEF Poller!vars, Poller!poller, Poller!history
<1> QED
  BY <1>1, <1>2, <1>3, <1>4, <1>5, <1>6 DEF Poller!Next, Poller!Poll, Poller!Fault, Poller!Other

-----------------------------------------------------------------------------
(* The shared state of the gateway.                                        *)

SharedOK == /\ owned \subseteq Pods \X Hashes
            /\ inflight \in [Pods -> Nat]
            /\ sticky \in [Sessions -> Pods \cup {None}]
            /\ pending \subseteq Pods \X Hashes
            /\ events \in 0 .. MaxEvents

\* A request writes the counts, blocks and sessions of its own pod.
LEMMA RequestShared ==
    ASSUME TasksOK, SharedOK, NEW r \in Requests,
           Prepare(r) \/ Refuse(r) \/ Route(r) \/ Forward(r) \/ Account(r)
    PROVE  SharedOK'
<1> USE DEF SharedOK
<1>1. CASE Prepare(r) \/ Refuse(r) \/ Route(r) \/ MarkPodAlive(r)
  BY <1>1 DEF Prepare, Refuse, Route, FilterPrimary, PickPrimary, FilterDecode, PickDecode,
     Reject, MarkPodAlive, Registry!MarkAlive
<1>2. CASE Send(r)
  <2>1. inflight' = [inflight EXCEPT ![plan[r].primary] = @ + 1]
    BY <1>2 DEF Send, Track
  <2>2. plan[r].primary \in Pods
    BY <1>2 DEF Send, Track, TasksOK, Routed
  <2>3. inflight[plan[r].primary] + 1 \in Nat
    BY <2>2
  <2>4. inflight' \in [Pods -> Nat]
    BY <2>1, <2>2, <2>3
  <2> QED
    BY <1>2, <2>4 DEF Send, Track
<1>3. CASE Succeed(r) \/ Fail(r)
  <2>1. \A n \in Nat : SaturatingDec(n) \in Nat
    BY DEF SaturatingDec
  <2>2. /\ inflight' = [inflight EXCEPT ![plan[r].primary] = SaturatingDec(@)]
        /\ UNCHANGED <<owned, sticky, pending, events>>
    BY <1>3 DEF Succeed, Fail, DropGuard
  <2> QED
    BY <2>1, <2>2
<1>4. CASE RegisterBlock(r)
  <2>1. plan[r].primary \in Pods /\ plan[r] \in Plans
    BY <1>4 DEF RegisterBlock, TasksOK, Routed
  <2>2. plan[r].chain \in Seq(Hashes) /\ plan[r].done \in Nat
    BY <2>1 DEF Plans
  <2>3. plan[r].chain[plan[r].done + 1] \in Hashes
    BY <1>4, <2>2 DEF RegisterBlock
  <2> QED
    BY <1>4, <2>1, <2>3 DEF RegisterBlock, Registry!Register
<1>5. CASE Remember(r)
  <2>1. plan[r].primary \in Pods
    BY <1>5 DEF Remember, TasksOK, Routed
  <2> QED
    BY <1>5, <2>1 DEF Remember
<1> QED
  BY <1>1, <1>2, <1>3, <1>4, <1>5 DEF Forward, Account

\* An event writes blocks of its own pod.
LEMMA EventShared ==
    ASSUME SharedOK, CacheEvent
    PROVE  SharedOK' /\ UNCHANGED <<inflight, pc, plan>>
<1> USE GatewayAssumption DEF SharedOK
<1>1. ASSUME NEW p \in Pods, ShutdownEvent(p)
      PROVE  SharedOK' /\ UNCHANGED <<inflight, pc, plan>>
  BY <1>1 DEF ShutdownEvent, Event, Registry!Shutdown
<1>2. ASSUME NEW p \in Pods, NEW h \in Hashes, RegisterEvent(p, h)
      PROVE  SharedOK' /\ UNCHANGED <<inflight, pc, plan>>
  BY <1>2 DEF RegisterEvent, Event, Registry!MarkAlive
<1>3. ASSUME NEW p \in Pods, NEW h \in Hashes, RegisterPrefix(p, h)
      PROVE  SharedOK' /\ UNCHANGED <<inflight, pc, plan>>
  BY <1>3 DEF RegisterPrefix, Registry!Register
<1>4. ASSUME NEW p \in Pods, NEW h \in Hashes, EvictEvent(p, h)
      PROVE  SharedOK' /\ UNCHANGED <<inflight, pc, plan>>
  BY <1>4 DEF EvictEvent, Event, Registry!Evict
<1> QED
  BY <1>1, <1>2, <1>3, <1>4 DEF CacheEvent

-----------------------------------------------------------------------------
(* The in-flight counts.                                                   *)

\* The requests upstream at a pod are finitely many.
LEMMA UpstreamFinite ==
    ASSUME NEW p \in Pods
    PROVE  IsFiniteSet(Upstream(p))
  BY GatewayAssumption, FS_Subset DEF Upstream

\* A step that takes no request upstream or back leaves the counts exact.
LEMMA IdleCounts ==
    ASSUME InflightExact, UNCHANGED inflight,
           \A r \in Requests : /\ pc'[r] = "sent" <=> pc[r] = "sent"
                               /\ pc[r] = "sent" => plan'[r].primary = plan[r].primary
    PROVE  InflightExact'
<1>1. \A p \in Pods : Upstream(p)' = Upstream(p)
  BY DEF Upstream
<1> QED
  BY <1>1 DEF InflightExact

\* track counts the request it takes upstream.
LEMMA SendCounts ==
    ASSUME TasksOK, SharedOK, InflightExact, NEW r \in Requests, Send(r)
    PROVE  InflightExact'
<1>0. PICK q \in Pods : q = plan[r].primary
  BY DEF Send, Track, TasksOK, Routed
<1>1. /\ pc[r] = "send"
      /\ inflight' = [inflight EXCEPT ![q] = @ + 1]
      /\ pc' = [pc EXCEPT ![r] = "sent"] /\ UNCHANGED plan
  BY <1>0 DEF Send, Track, Goto
<1>2. Upstream(q)' = Upstream(q) \cup {r} /\ r \notin Upstream(q)
  BY <1>0, <1>1 DEF Upstream, TasksOK
<1>3. Cardinality(Upstream(q)') = Cardinality(Upstream(q)) + 1
  BY <1>1, <1>2, UpstreamFinite, FS_AddElement
<1>4. \A p \in Pods \ {q} : Upstream(p)' = Upstream(p)
  BY <1>0, <1>1 DEF Upstream, TasksOK
<1>5. \A p \in Pods \ {q} : inflight'[p] = inflight[p]
  BY <1>1 DEF SharedOK
<1>6. inflight'[q] = inflight[q] + 1
  BY <1>1 DEF SharedOK
<1> QED
  BY <1>1, <1>3, <1>4, <1>5, <1>6 DEF InflightExact

\* The guard's drop takes back exactly that request: the count is positive
\* while it is upstream, so the decrement does not saturate.
LEMMA DropCounts ==
    ASSUME TasksOK, SharedOK, InflightExact, NEW r \in Requests, pc[r] = "sent",
           DropGuard(r), NEW label, label # "sent", pc' = [pc EXCEPT ![r] = label],
           \A u \in Requests \ {r} : plan'[u] = plan[u]
    PROVE  InflightExact'
<1>0. PICK q \in Pods : q = plan[r].primary
  BY DEF TasksOK, Routed
<1>1. inflight' = [inflight EXCEPT ![q] = SaturatingDec(@)]
  BY <1>0 DEF DropGuard
<1>2. Upstream(q)' = Upstream(q) \ {r} /\ r \in Upstream(q)
  BY <1>0 DEF Upstream, TasksOK
<1>3. \A p \in Pods \ {q} : Upstream(p)' = Upstream(p)
  BY <1>0 DEF Upstream, TasksOK
<1>4. Cardinality(Upstream(q)') = Cardinality(Upstream(q)) - 1
  BY <1>1, <1>2, UpstreamFinite, FS_RemoveElement
<1>5. Cardinality(Upstream(q)') \in Nat
  BY <1>1, <1>2, UpstreamFinite, FS_RemoveElement, FS_CardinalityType
<1>6. inflight[q] = Cardinality(Upstream(q)) /\ inflight[q] \in Nat
  BY <1>1 DEF InflightExact, SharedOK
<1>7. inflight'[q] = inflight[q] - 1
  BY <1>1, <1>4, <1>5, <1>6 DEF SharedOK, SaturatingDec
<1>8. \A p \in Pods \ {q} : inflight'[p] = inflight[p]
  BY <1>1 DEF SharedOK
<1> QED
  BY <1>3, <1>4, <1>6, <1>7, <1>8 DEF InflightExact

\* Every step of a request keeps the counts exact.
LEMMA RequestCounts ==
    ASSUME TasksOK, SharedOK, InflightExact, NEW r \in Requests,
           Prepare(r) \/ Refuse(r) \/ Route(r) \/ Forward(r) \/ Account(r)
    PROVE  InflightExact'
<1> USE DEF Goto
<1>1. CASE Prepare(r) \/ Refuse(r) \/ Reject(r)
  BY <1>1, IdleCounts DEF Prepare, Refuse, Reject, End, TasksOK
<1>2. CASE FilterPrimary(r) \/ PickPrimary(r) \/ FilterDecode(r) \/ PickDecode(r)
  <2>1. /\ pc[r] # "sent" /\ UNCHANGED inflight
        /\ \E label \in {"pick", "send", "filterDecode", "pickDecode"} :
              pc' = [pc EXCEPT ![r] = label]
        /\ \A u \in Requests \ {r} : plan'[u] = plan[u]
    BY <1>2 DEF FilterPrimary, PickPrimary, FilterDecode, PickDecode, TasksOK
  <2> QED
    BY <2>1, IdleCounts DEF TasksOK
<1>3. CASE Send(r)
  BY <1>3, SendCounts
<1>4. CASE Succeed(r)
  BY <1>4, DropCounts DEF Succeed
<1>5. CASE Fail(r)
  BY <1>5, DropCounts DEF Fail, End, TasksOK
<1>6. CASE MarkPodAlive(r) \/ Remember(r)
  BY <1>6, IdleCounts DEF MarkPodAlive, Remember, End, TasksOK
<1>7. CASE RegisterBlock(r)
  <2>1. /\ pc[r] # "sent" /\ UNCHANGED <<inflight, pc>>
        /\ \A u \in Requests \ {r} : plan'[u] = plan[u]
    BY <1>7 DEF RegisterBlock, TasksOK
  <2> QED
    BY <2>1, IdleCounts
<1> QED
  BY <1>1, <1>2, <1>3, <1>4, <1>5, <1>6, <1>7 DEF Route, Forward, Account

-----------------------------------------------------------------------------
(* The theorems.                                                           *)

GatewayInv == TasksOK /\ SharedOK /\ Poller!TypeOK /\ InflightExact

\* The gateway starts with no request upstream.
LEMMA InitGatewayInv == Init => GatewayInv
<1> SUFFICES ASSUME Init PROVE GatewayInv
  OBVIOUS
<1>1. TasksOK
  BY NoPlanType DEF Init, TasksOK, Labels, Routed
<1>2. SharedOK
  BY GatewayAssumption DEF Init, SharedOK
<1>3. Poller!TypeOK
  BY ThresholdAssumption DEF Init, Poller!Init, Poller!TypeOK
<1>4. \A p \in Pods : Upstream(p) = {}
  BY DEF Init, Upstream
<1>5. InflightExact
  BY <1>4, FS_EmptySet DEF Init, InflightExact
<1> QED
  BY <1>1, <1>2, <1>3, <1>5 DEF GatewayInv

\* Every step of requests, events and the poller preserves the invariant.
LEMMA NextGatewayInv == GatewayInv /\ [Next]_vars => GatewayInv'
<1> SUFFICES ASSUME GatewayInv, [Next]_vars PROVE GatewayInv'
  OBVIOUS
<1> USE DEF GatewayInv
<1>1. Poller!TypeOK'
  BY NextIsPollerStep, PollerTypes
<1>2. alive \subseteq Pods
  BY DEF Poller!TypeOK
<1>3. ASSUME NEW r \in Requests, Prepare(r) \/ Refuse(r) \/ Route(r) \/ Forward(r) \/ Account(r)
      PROVE  GatewayInv'
  BY <1>1, <1>2, <1>3, RouteTasks, ForwardTasks, RequestShared, RequestCounts
<1>4. CASE CacheEvent
  <2>1. SharedOK' /\ UNCHANGED <<inflight, pc, plan>>
    BY <1>4, EventShared
  <2>2. TasksOK'
    BY <2>1 DEF TasksOK
  <2>3. InflightExact'
    BY <2>1, IdleCounts
  <2> QED
    BY <1>1, <2>1, <2>2, <2>3
<1>5. CASE Health \/ UNCHANGED vars
  <2>1. UNCHANGED <<owned, inflight, sticky, pc, plan, pending, events>>
    BY <1>5 DEF Health, vars
  <2>2. SharedOK' /\ TasksOK'
    BY <2>1 DEF SharedOK, TasksOK
  <2>3. InflightExact'
    BY <2>1, IdleCounts
  <2> QED
    BY <1>1, <2>2, <2>3
<1> QED
  BY <1>3, <1>4, <1>5 DEF Next

\* The invariant holds in every behaviour of the gateway.
THEOREM GatewayInvHolds == Spec => []GatewayInv
  BY InitGatewayInv, NextGatewayInv, PTL DEF Spec

\* The in-flight count of every pod is the number of requests upstream at it,
\* for any number of requests and pods, however the requests end.
THEOREM InflightHolds == Spec => []InflightExact
<1>1. GatewayInv => InflightExact
  BY DEF GatewayInv
<1> QED
  BY <1>1, GatewayInvHolds, PTL

-----------------------------------------------------------------------------
(* The groups: a pod is picked as primary from the group of its mode.      *)

\* The pods of a plan, and the candidates for them, are of the role at hand.
TaskGroups(r) ==
    /\ pc[r] = "pick" => plan[r].cands \subseteq Group(PrimaryRole(r))
    /\ pc[r] \in {"filterDecode", "pickDecode"} => plan[r].mode # "single"
    /\ pc[r] = "pickDecode" => plan[r].cands \subseteq Group("decode")
    /\ pc[r] \in Routed => Role[plan[r].primary] = PrimaryRole(r)
    /\ pc[r] \in Planned /\ plan[r].mode # "single" => plan[r].decode \in Group("decode")
GroupsOK == \A r \in Requests : TaskGroups(r)

\* What is eligible for a role is of its group.
LEMMA EligibleInGroup ==
    ASSUME NEW role, NEW live, NEW counts
    PROVE  EligibleCandidates(role, live, counts) \subseteq Group(role)
  BY DEF EligibleCandidates

\* Each step of a request keeps its pods in their groups.
LEMMA RequestGroups ==
    ASSUME TasksOK, GroupsOK, NEW r \in Requests,
           Prepare(r) \/ Refuse(r) \/ Route(r) \/ Forward(r) \/ Account(r)
    PROVE  GroupsOK'
<1> USE DEF Goto, Routed, Planned
<1>0. TaskGroups(r) /\ plan[r] \in Plans /\ r \in DOMAIN plan /\ r \in DOMAIN pc
  BY DEF TasksOK, GroupsOK
<1>1. ASSUME NEW u \in Requests \ {r} PROVE pc'[u] = pc[u] /\ plan'[u] = plan[u]
  <2>1. CASE Prepare(r) \/ Refuse(r) \/ Reject(r) \/ Fail(r) \/ Remember(r)
    BY <1>1, <2>1 DEF Prepare, Refuse, Reject, Fail, Remember, End, TasksOK
  <2>2. CASE FilterPrimary(r) \/ PickPrimary(r) \/ FilterDecode(r) \/ PickDecode(r)
    BY <1>1, <2>2 DEF FilterPrimary, PickPrimary, FilterDecode, PickDecode, TasksOK
  <2>3. CASE Send(r) \/ Succeed(r) \/ MarkPodAlive(r) \/ RegisterBlock(r)
    BY <1>1, <2>3 DEF Send, Track, Succeed, MarkPodAlive, RegisterBlock, TasksOK
  <2> QED
    BY <2>1, <2>2, <2>3 DEF Route, Forward, Account
<1>2. TaskGroups(r)'
  <2>1. CASE Prepare(r)
    <3>1. pc'[r] = "filter"
      BY <1>0, <2>1 DEF Prepare
    <3> QED
      BY <3>1 DEF TaskGroups
  <2>2. CASE Refuse(r) \/ Reject(r) \/ Fail(r) \/ Remember(r)
    <3>1. pc'[r] = "end"
      BY <1>0, <2>2 DEF Refuse, Reject, Fail, Remember, End
    <3> QED
      BY <3>1 DEF TaskGroups
  <2>3. CASE FilterPrimary(r)
    <3>1. /\ pc'[r] = "pick" /\ plan'[r].mode = plan[r].mode
          /\ plan'[r].cands = EligibleCandidates(PrimaryRole(r), alive, inflight)
      BY <1>0, <2>3 DEF FilterPrimary, Plans
    <3> QED
      BY <3>1, EligibleInGroup DEF TaskGroups, PrimaryRole
  <2>4. CASE PickPrimary(r)
    <3>1. PICK p \in plan[r].cands : plan' = [plan EXCEPT ![r].primary = p]
      BY <2>4 DEF PickPrimary
    <3>2. Role[p] = PrimaryRole(r)
      BY <1>0, <2>4 DEF PickPrimary, TaskGroups, Group
    <3>3. plan'[r].primary = p /\ plan'[r].mode = plan[r].mode
      BY <1>0, <3>1 DEF Plans
    <3>4. pc'[r] = IF plan[r].mode = "single" THEN "send" ELSE "filterDecode"
      BY <1>0, <2>4 DEF PickPrimary
    <3> QED
      BY <3>2, <3>3, <3>4 DEF TaskGroups, PrimaryRole
  <2>5. CASE FilterDecode(r)
    <3>1. /\ pc[r] = "filterDecode" /\ pc'[r] = "pickDecode"
          /\ plan'[r].mode = plan[r].mode /\ plan'[r].primary = plan[r].primary
          /\ plan'[r].cands = EligibleCandidates("decode", plan[r].live, inflight)
      BY <1>0, <2>5 DEF FilterDecode, Plans
    <3> QED
      BY <1>0, <3>1, EligibleInGroup DEF TaskGroups, PrimaryRole
  <2>6. CASE PickDecode(r)
    <3>1. PICK p \in plan[r].cands : plan' = [plan EXCEPT ![r].decode = p]
      BY <2>6 DEF PickDecode
    <3>2. /\ pc[r] = "pickDecode" /\ pc'[r] = "send" /\ plan'[r].decode = p
          /\ plan'[r].mode = plan[r].mode /\ plan'[r].primary = plan[r].primary
      BY <1>0, <2>6, <3>1 DEF PickDecode, Plans
    <3> QED
      BY <1>0, <3>1, <3>2 DEF TaskGroups, PrimaryRole
  <2>7. CASE Send(r) \/ Succeed(r) \/ MarkPodAlive(r)
    <3>1. pc[r] \in Planned /\ pc'[r] \in {"sent", "ok", "register"} /\ plan' = plan
      BY <1>0, <2>7 DEF Send, Track, Succeed, MarkPodAlive
    <3> QED
      BY <1>0, <3>1 DEF TaskGroups, PrimaryRole
  <2>8. CASE RegisterBlock(r)
    <3>1. /\ pc[r] = "register" /\ pc' = pc
          /\ plan'[r].mode = plan[r].mode /\ plan'[r].primary = plan[r].primary
          /\ plan'[r].decode = plan[r].decode
      BY <1>0, <2>8 DEF RegisterBlock, Plans
    <3> QED
      BY <1>0, <3>1 DEF TaskGroups, PrimaryRole
  <2> QED
    BY <2>1, <2>2, <2>3, <2>4, <2>5, <2>6, <2>7, <2>8 DEF Route, Forward, Account
<1> QED
  BY <1>1, <1>2 DEF GroupsOK, TaskGroups, PrimaryRole

\* Pods are in their groups in every behaviour.
THEOREM GroupsHold == Spec => []GroupsOK
<1>1. Init => GroupsOK
  BY DEF Init, GroupsOK, TaskGroups, Routed, Planned
<1>2. TasksOK /\ GroupsOK /\ [Next]_vars => GroupsOK'
  <2> SUFFICES ASSUME TasksOK, GroupsOK, [Next]_vars PROVE GroupsOK'
    OBVIOUS
  <2>1. ASSUME NEW r \in Requests, Prepare(r) \/ Refuse(r) \/ Route(r) \/ Forward(r) \/ Account(r)
        PROVE  GroupsOK'
    BY <2>1, RequestGroups
  <2>2. CASE UNCHANGED <<pc, plan>>
    BY <2>2 DEF GroupsOK, TaskGroups, PrimaryRole
  <2>3. CASE CacheEvent
    BY <2>2, <2>3 DEF CacheEvent, ShutdownEvent, RegisterEvent, RegisterPrefix, EvictEvent, Event
  <2>4. CASE Health \/ UNCHANGED vars
    BY <2>2, <2>4 DEF Health, vars
  <2> QED
    BY <2>1, <2>3, <2>4 DEF Next
<1>3. GatewayInv => TasksOK
  BY DEF GatewayInv
<1> QED
  BY <1>1, <1>2, <1>3, GatewayInvHolds, PTL DEF Spec

\* Every variable of the gateway keeps its type, and a request whose plan is
\* made has its pods, of the groups its mode asks for.
THEOREM TypeHolds == Spec => []TypeOK
<1>1. GatewayInv /\ GroupsOK => TypeOK
  <2> SUFFICES ASSUME GatewayInv, GroupsOK PROVE TypeOK
    OBVIOUS
  <2>1. \A r \in Requests : PlanOK(r)
    BY DEF GatewayInv, TasksOK, GroupsOK, TaskGroups, PlanOK, Group
  <2> QED
    BY <2>1 DEF GatewayInv, TasksOK, SharedOK, TypeOK
<1> QED
  BY <1>1, GatewayInvHolds, GroupsHold, PTL

\* The decode pod is picked blindly: no candidate is the prefill pod, so the
\* locality weight counts for none of them, and none has a request in flight,
\* because only primary pods are tracked, so the load weight counts alike.
DecodeBlind ==
    \A r \in Requests : pc[r] = "pickDecode" =>
        \A p \in plan[r].cands : p # plan[r].primary /\ inflight[p] = 0

\* The decode pick is blind to load and locality, for any catalog in which
\* every pod has one group: a pod of the decode group is never a primary pod,
\* and only primary pods have requests upstream.
THEOREM DecodeBlindHolds == Spec => []DecodeBlind
<1>1. GatewayInv /\ GroupsOK => DecodeBlind
  <2> SUFFICES ASSUME GatewayInv, GroupsOK, NEW r \in Requests, pc[r] = "pickDecode",
                      NEW p \in plan[r].cands
               PROVE  p # plan[r].primary /\ inflight[p] = 0
    BY DEF DecodeBlind
  <2>1. p \in Pods /\ Role[p] = "decode"
    BY DEF GroupsOK, TaskGroups, Group
  <2>2. \A u \in Requests : pc[u] \in Routed => Role[plan[u].primary] # "decode"
    BY DEF GroupsOK, TaskGroups, PrimaryRole
  <2>3. p # plan[r].primary
    BY <2>1, <2>2 DEF Routed
  <2>4. Upstream(p) = {}
    BY <2>1, <2>2 DEF Upstream, Routed
  <2> QED
    BY <2>1, <2>3, <2>4, FS_EmptySet DEF GatewayInv, InflightExact
<1> QED
  BY <1>1, GatewayInvHolds, GroupsHold, PTL

-----------------------------------------------------------------------------
(* The order in which blocks are registered.                               *)

\* Cumulative hashes: the hash of a block tells the hash of the block before
\* it, in whatever prompts it occurs.
Cumulative == \A hs, gs \in Prompts :
                 \A i \in 1 .. Len(hs) - 1, j \in 1 .. Len(gs) :
                    hs[i + 1] = gs[j] => j > 1 /\ hs[i] = gs[j - 1]

\* A request that registers its chain has a prompt, and its pod owns the
\* blocks of the prompt the request has registered so far.
ChainsOK == \A r \in Requests :
               /\ pc[r] # "new" /\ pc[r] # "end" => plan[r].chain \in Prompts
               /\ pc[r] \notin {"register", "end"} => plan[r].done = 0
               /\ pc[r] = "register" =>
                     \A i \in 1 .. plan[r].done : <<plan[r].primary, plan[r].chain[i]>> \in owned

\* Blocks are only added when pods send neither register nor evict events.
LEMMA OwnedGrows ==
    ASSUME EventKinds \subseteq {"shutdown"}, pending = {}, [Next]_vars
    PROVE  /\ pending' = {}
           /\ \/ owned' = owned
              \/ \E r \in Requests : RegisterBlock(r)
<1>1. ASSUME NEW p \in Pods, NEW h \in Hashes
      PROVE  ~RegisterEvent(p, h) /\ ~EvictEvent(p, h) /\ ~RegisterPrefix(p, h)
  BY DEF RegisterEvent, EvictEvent, RegisterPrefix, Event
<1>2. ASSUME NEW p \in Pods, ShutdownEvent(p)
      PROVE  pending' = {} /\ owned' = owned
  BY <1>2 DEF ShutdownEvent, Registry!Shutdown
<1>3. ASSUME NEW r \in Requests, Prepare(r) \/ Refuse(r) \/ Route(r) \/ Forward(r)
                                 \/ MarkPodAlive(r) \/ Remember(r)
      PROVE  pending' = {} /\ owned' = owned
  BY <1>3 DEF Prepare, Refuse, Route, FilterPrimary, PickPrimary, FilterDecode, PickDecode,
     Reject, Forward, Send, Track, Succeed, Fail, MarkPodAlive, Registry!MarkAlive, Remember
<1>4. ASSUME NEW r \in Requests, RegisterBlock(r)
      PROVE  pending' = {}
  BY <1>4 DEF RegisterBlock
<1>5. CASE Health \/ UNCHANGED vars
  BY <1>5 DEF Health, vars
<1> QED
  BY <1>1, <1>2, <1>3, <1>4, <1>5 DEF Next, CacheEvent, Account

\* Every step of a request keeps its chain, and counts a block as registered
\* when it is.
LEMMA ChainsStep ==
    ASSUME EventKinds \subseteq {"shutdown"}, pending = {}, GatewayInv, ChainsOK, [Next]_vars
    PROVE  ChainsOK'
<1> USE DEF GatewayInv
<1>1. owned \subseteq owned'
  BY OwnedGrows DEF RegisterBlock, Registry!Register
<1>2. ASSUME NEW r \in Requests,
             \A u \in Requests \ {r} : pc'[u] = pc[u] /\ plan'[u] = plan[u],
             pc'[r] # "new" /\ pc'[r] # "end" => plan'[r].chain \in Prompts,
             pc'[r] \notin {"register", "end"} => plan'[r].done = 0,
             pc'[r] = "register" =>
                \A i \in 1 .. plan'[r].done : <<plan'[r].primary, plan'[r].chain[i]>> \in owned'
      PROVE  ChainsOK'
  BY <1>1, <1>2 DEF ChainsOK
<1>3. CASE UNCHANGED <<pc, plan>>
  BY <1>1, <1>3 DEF ChainsOK
<1>4. CASE Health \/ CacheEvent \/ UNCHANGED vars
  BY <1>3, <1>4, EventShared DEF Health, vars
<1>5. ASSUME NEW r \in Requests, Prepare(r) \/ Route(r) \/ Send(r) \/ Succeed(r) \/ MarkPodAlive(r)
      PROVE  ChainsOK'
  <2>1. plan[r] \in Plans
    BY DEF TasksOK
  <2>2. \A u \in Requests \ {r} : pc'[u] = pc[u] /\ plan'[u] = plan[u]
    BY <1>5 DEF Prepare, Route, FilterPrimary, PickPrimary, FilterDecode, PickDecode, Reject,
       Send, Track, Succeed, MarkPodAlive, Goto, End, TasksOK
  <2>3. CASE Prepare(r)
    <3>1. PICK m \in Modes, hs \in Prompts, s \in Sessions \cup {None} :
             plan' = [plan EXCEPT ![r] = [@ EXCEPT !.mode = m, !.chain = hs, !.session = s]]
      BY <2>3 DEF Prepare
    <3>2. plan'[r].chain = hs /\ plan'[r].done = plan[r].done
      BY <2>1, <3>1 DEF TasksOK, Plans
    <3>3. pc[r] = "new" /\ pc'[r] = "filter"
      BY <2>3 DEF Prepare, Goto, TasksOK
    <3> QED
      BY <1>2, <2>2, <3>2, <3>3 DEF ChainsOK
  <2>4. CASE Reject(r)
    <3>1. pc'[r] = "end"
      BY <2>4 DEF Reject, End, Goto, TasksOK
    <3> QED
      BY <1>2, <2>2, <3>1
  <2>5. CASE \/ FilterPrimary(r) \/ PickPrimary(r) \/ FilterDecode(r) \/ PickDecode(r)
             \/ Send(r) \/ Succeed(r) \/ MarkPodAlive(r)
    <3>1. plan'[r].chain = plan[r].chain /\ plan'[r].done = plan[r].done
      <4>1. CASE FilterPrimary(r)
        <5> DEFINE cands == EligibleCandidates(PrimaryRole(r), alive, inflight)
        <5>1. plan'[r] = [plan[r] EXCEPT !.live = alive, !.cands = cands]
          BY <4>1 DEF FilterPrimary, TasksOK
        <5> HIDE DEF cands
        <5> QED
          BY <2>1, <5>1 DEF Plans
      <4>2. CASE FilterDecode(r)
        <5> DEFINE cands == EligibleCandidates("decode", plan[r].live, inflight)
        <5>1. plan'[r] = [plan[r] EXCEPT !.cands = cands]
          BY <4>2 DEF FilterDecode, TasksOK
        <5> HIDE DEF cands
        <5> QED
          BY <2>1, <5>1 DEF Plans
      <4>3. CASE PickPrimary(r)
        BY <2>1, <4>3 DEF PickPrimary, TasksOK, Plans
      <4>4. CASE PickDecode(r)
        BY <2>1, <4>4 DEF PickDecode, TasksOK, Plans
      <4>5. CASE Send(r) \/ Succeed(r) \/ MarkPodAlive(r)
        BY <4>5 DEF Send, Track, Succeed, MarkPodAlive
      <4> QED
        BY <2>5, <4>1, <4>2, <4>3, <4>4, <4>5
    <3>2. pc[r] \notin {"new", "register", "end"}
      BY <2>5 DEF FilterPrimary, PickPrimary, FilterDecode, PickDecode, Send, Track, Succeed, MarkPodAlive
    <3>3. plan'[r].done = 0 /\ plan'[r].chain \in Prompts
      BY <3>1, <3>2 DEF ChainsOK
    <3> QED
      BY <1>2, <2>2, <3>3
  <2> QED
    BY <1>5, <2>3, <2>4, <2>5 DEF Route
<1>6. ASSUME NEW r \in Requests, Refuse(r) \/ Fail(r) \/ Remember(r)
      PROVE  ChainsOK'
  <2>1. /\ pc'[r] = "end"
        /\ \A u \in Requests \ {r} : pc'[u] = pc[u] /\ plan'[u] = plan[u]
    BY <1>6 DEF Refuse, Fail, Remember, End, Goto, TasksOK
  <2> QED
    BY <1>2, <2>1
<1>7. ASSUME NEW r \in Requests, RegisterBlock(r)
      PROVE  ChainsOK'
  <2>1. plan[r] \in Plans /\ plan[r].done \in Nat
    BY DEF TasksOK, Plans
  <2>2. /\ pc[r] = "register" /\ UNCHANGED pc
        /\ plan' = [plan EXCEPT ![r].done = plan[r].done + 1]
        /\ owned' = owned \cup {<<plan[r].primary, plan[r].chain[plan[r].done + 1]>>}
    BY <1>7 DEF RegisterBlock, Registry!Register
  <2>3. /\ plan'[r].done = plan[r].done + 1
        /\ plan'[r].chain = plan[r].chain /\ plan'[r].primary = plan[r].primary
        /\ \A u \in Requests \ {r} : plan'[u] = plan[u]
    BY <2>1, <2>2 DEF TasksOK, Plans
  <2>4. ASSUME NEW i \in 1 .. plan[r].done + 1
        PROVE  <<plan[r].primary, plan[r].chain[i]>> \in owned'
    BY <2>1, <2>2 DEF ChainsOK
  <2>5. plan[r].chain \in Prompts
    BY <2>2 DEF ChainsOK
  <2> QED
    BY <1>2, <2>2, <2>3, <2>4, <2>5
<1> QED
  BY <1>4, <1>5, <1>6, <1>7 DEF Next, Forward, Account

\* A block is registered after the one before it in its prompt, and so in
\* every prompt it occurs in.
LEMMA PrefixStep ==
    ASSUME EventKinds \subseteq {"shutdown"}, Cumulative, pending = {}, GatewayInv, ChainsOK,
           PrefixClosed, [Next]_vars
    PROVE  PrefixClosed'
<1>1. CASE owned' = owned
  BY <1>1 DEF PrefixClosed
<1>2. ASSUME NEW r \in Requests, RegisterBlock(r)
      PROVE  PrefixClosed'
  <2> DEFINE gs == plan[r].chain
             j == plan[r].done + 1
  <2>1. /\ pc[r] = "register" /\ j <= Len(gs)
        /\ owned' = owned \cup {<<plan[r].primary, gs[j]>>}
    BY <1>2 DEF RegisterBlock, Registry!Register
  <2>2. /\ gs \in Prompts /\ Len(gs) \in Nat /\ j \in 1 .. Len(gs)
        /\ j > 1 => <<plan[r].primary, gs[j - 1]>> \in owned
    <3>1. gs \in Prompts /\ \A i \in 1 .. plan[r].done : <<plan[r].primary, gs[i]>> \in owned
      BY <2>1 DEF ChainsOK
    <3>2. plan[r].done \in Nat /\ gs \in Seq(Hashes)
      BY DEF GatewayInv, TasksOK, Plans
    <3> QED
      BY <2>1, <3>1, <3>2
  <2> HIDE DEF gs, j
  <2> SUFFICES ASSUME NEW p \in Pods, NEW hs \in Prompts, NEW i \in 1 .. Len(hs) - 1,
                      <<p, hs[i + 1]>> \in owned'
               PROVE  <<p, hs[i]>> \in owned'
    BY DEF PrefixClosed
  <2>3. CASE <<p, hs[i + 1]>> \in owned
    BY <2>1, <2>3 DEF PrefixClosed
  <2>4. CASE p = plan[r].primary /\ hs[i + 1] = gs[j]
    <3>1. j > 1 /\ hs[i] = gs[j - 1]
      BY <2>2, <2>4 DEF Cumulative
    <3> QED
      BY <2>1, <2>2, <2>4, <3>1
  <2> QED
    BY <2>1, <2>3, <2>4
<1> QED
  BY <1>1, <1>2, OwnedGrows

\* The chains that prompt_to_cumulative_hashes_streaming makes are cumulative
\* in this sense, for any prompts and block size: when the prompts are such
\* chains, the hypothesis of the next two theorems holds.
THEOREM PromptsAreCumulative ==
    ASSUME NEW T, NEW size \in Nat \ {0},
           \A hs \in Prompts : \E tokens \in Seq(T) : hs = Streaming(tokens, size)
    PROVE  Cumulative
<1> SUFFICES ASSUME NEW hs \in Prompts, NEW gs \in Prompts,
                    NEW i \in 1 .. Len(hs) - 1, NEW j \in 1 .. Len(gs), hs[i + 1] = gs[j]
             PROVE  j > 1 /\ hs[i] = gs[j - 1]
  BY DEF Cumulative
<1>1. PICK s \in Seq(T) : hs = Streaming(s, size)
  OBVIOUS
<1>2. PICK t \in Seq(T) : gs = Streaming(t, size)
  OBVIOUS
<1> QED
  BY <1>1, <1>2, ChainsAreCumulative

\* Without register and evict events, and with cumulative hashes, the blocks
\* of a pod are prefixes of the prompts at every moment, also while several
\* requests register chains at once.
THEOREM PrefixClosedHolds ==
    ASSUME EventKinds \subseteq {"shutdown"}, Cumulative
    PROVE  Spec => []PrefixClosed
<1>1. Init => pending = {} /\ ChainsOK /\ PrefixClosed
  BY DEF Init, ChainsOK, PrefixClosed, NoPlan
<1>2. pending = {} /\ [Next]_vars => (pending = {})'
  BY OwnedGrows
<1>3. pending = {} /\ GatewayInv /\ ChainsOK /\ [Next]_vars => ChainsOK'
  BY ChainsStep
<1>4. pending = {} /\ GatewayInv /\ ChainsOK /\ PrefixClosed /\ [Next]_vars => PrefixClosed'
  BY PrefixStep
<1> QED
  BY <1>1, <1>2, <1>3, <1>4, GatewayInvHolds, PTL DEF Spec

\* The depth that the pick scores for a pod is the length of the longest prefix
\* of the prompt that the pod owns: it owns the blocks up to there and no other.
DepthExact ==
    \A p \in Pods, hs \in Prompts : \A i \in 1 .. Len(hs) :
        <<p, hs[i]>> \in owned <=> i <= PrefixDepth(p, hs, owned)

\* A pod that owns a block owns all the blocks before it.
LEMMA ClosedDown ==
    ASSUME PrefixClosed, NEW p \in Pods, NEW hs \in Prompts, NEW j \in 1 .. Len(hs),
           <<p, hs[j]>> \in owned, NEW i \in 1 .. j
    PROVE  <<p, hs[i]>> \in owned
<1> DEFINE Owns(k) == <<p, hs[j - k]>> \in owned
           S == {k \in Nat : k < j => Owns(k)}
<1>1. Len(hs) \in Nat /\ j \in Nat /\ j <= Len(hs) /\ i \in Nat
  BY GatewayAssumption
<1>2. Owns(0)
  BY <1>1
<1>3. ASSUME NEW k \in Nat, k + 1 < j, Owns(k) PROVE Owns(k + 1)
  <2>1. j - (k + 1) \in 1 .. Len(hs) - 1 /\ (j - (k + 1)) + 1 = j - k
    BY <1>1, <1>3
  <2>2. <<p, hs[(j - (k + 1)) + 1]>> \in owned
    BY <1>3, <2>1
  <2> QED
    BY <2>1, <2>2 DEF PrefixClosed
<1> HIDE DEF Owns
<1>4. ASSUME NEW k \in S PROVE k + 1 \in S
  <2>1. k \in Nat /\ (k < j => Owns(k))
    OBVIOUS
  <2>2. ASSUME k + 1 < j PROVE Owns(k + 1)
    <3>1. k < j
      BY <1>1, <2>1, <2>2
    <3> QED
      BY <1>3, <2>1, <2>2, <3>1
  <2> QED
    BY <2>1, <2>2
<1>5. S \in SUBSET Nat /\ 0 \in S
  BY <1>2
<1> HIDE DEF S
<1>6. S = Nat
  BY <1>4, <1>5, InductionOnNat
<1>7. j - i \in Nat /\ j - i < j /\ j - (j - i) = i
  BY <1>1
<1>8. Owns(j - i)
  BY <1>6, <1>7 DEF S
<1> QED
  BY <1>7, <1>8 DEF Owns

\* The binary search behind a pick is exact at every moment of a gateway whose
\* pods send no register or evict events, also while chains are registered.
THEOREM DepthExactHolds ==
    ASSUME EventKinds \subseteq {"shutdown"}, Cumulative
    PROVE  Spec => []DepthExact
<1>1. PrefixClosed => DepthExact
  <2> SUFFICES ASSUME PrefixClosed, NEW p \in Pods, NEW hs \in Prompts
               PROVE  \A i \in 1 .. Len(hs) : <<p, hs[i]>> \in owned <=> i <= PrefixDepth(p, hs, owned)
    BY DEF DepthExact
  <2>1. Len(hs) \in Nat
    BY GatewayAssumption
  <2>2. \A j \in 1 .. Len(hs) : \A i \in 1 .. j : <<p, hs[j]>> \in owned => <<p, hs[i]>> \in owned
    BY ClosedDown
  <2> QED
    BY <2>1, <2>2, DepthIsLongestPrefix
<1> QED
  BY <1>1, PrefixClosedHolds, PTL

\* Without register and evict events, a session is bound to a pod that owns
\* every block of the prompt.
THEOREM StickyHolds ==
    ASSUME EventKinds \subseteq {"shutdown"}
    PROVE  Spec => StickyAfterBlocks
<1>1. Init => pending = {} /\ ChainsOK
  BY DEF Init, ChainsOK, NoPlan
<1>2. pending = {} /\ [Next]_vars => (pending = {})'
  BY OwnedGrows
<1>3. pending = {} /\ GatewayInv /\ ChainsOK /\ [Next]_vars => ChainsOK'
  BY ChainsStep
<1>4. GatewayInv /\ ChainsOK =>
        [\A r \in Requests, s \in Sessions :
           Remember(r) /\ sticky'[s] # sticky[s] =>
              \A i \in 1 .. Len(plan[r].chain) :
                  <<sticky'[s], plan[r].chain[i]>> \in owned]_vars
  <2> SUFFICES ASSUME GatewayInv, ChainsOK, NEW r \in Requests, NEW s \in Sessions,
                      Remember(r), sticky'[s] # sticky[s],
                      NEW i \in 1 .. Len(plan[r].chain)
               PROVE  <<sticky'[s], plan[r].chain[i]>> \in owned
    OBVIOUS
  <2>1. sticky'[s] = plan[r].primary
    BY DEF Remember, GatewayInv, SharedOK
  <2>2. pc[r] = "register" /\ plan[r].done = Len(plan[r].chain)
    BY DEF Remember
  <2> QED
    BY <2>1, <2>2 DEF ChainsOK
<1> QED
  BY <1>1, <1>2, <1>3, <1>4, GatewayInvHolds, PTL DEF Spec, StickyAfterBlocks

=============================================================================
