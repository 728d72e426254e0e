------------------------------ MODULE Gateway ------------------------------
(***************************************************************************)
(* The gateway: requests that are routed, forwarded and accounted for,     *)
(* cache events from the pods, and the health poller, all at work on one   *)
(* registry, one table of in-flight counts and one store of sticky         *)
(* sessions.                                                               *)
(*                                                                         *)
(* The registry is used through the relation it promises (Ownership, which *)
(* ShardedIndex implements), the poller is HealthPoller.  A step of a      *)
(* request is one access to that shared state, with two coarser ones: a    *)
(* filter reads the alive bitmap and the counts of its pods at one moment, *)
(* and so do the prefix query and the scores of a pick.                    *)
(***************************************************************************)
EXTENDS Routing, FiniteSets

CONSTANTS HealthyThreshold, UnhealthyThreshold, U8Max, MaxFaults, RunCap,
          Hashes,      \* cumulative block hashes
          Requests,    \* requests of one behaviour
          Sessions,    \* session keys
          Prompts,     \* the hash chains of the prompts
          Modes,       \* the modes requests ask for
          EventKinds,  \* the cache events pods send
          MaxEvents    \* bound: how many cache events arrive

ASSUME ThresholdAssumption ==
    /\ U8Max \in Nat \ {0}
    /\ HealthyThreshold \in 1 .. U8Max
    /\ UnhealthyThreshold \in 1 .. U8Max
    /\ MaxFaults \in Nat
    /\ RunCap \in Nat /\ RunCap >= U8Max

ASSUME GatewayAssumption ==
    /\ IsFiniteSet(Requests)
    /\ Prompts \subseteq Seq(Hashes)
    /\ Modes \subseteq {"single", "disaggregated"}
    /\ EventKinds \subseteq {"register", "evict", "shutdown"}
    /\ MaxEvents \in Nat

VARIABLES
    \* the registry and the poller
    alive, owned, checks, successes, failures, marked, running, faults,
    okRun, badRun, ours,
    inflight,  \* LoadState: in-flight requests of each pod
    sticky,    \* StickyStore: the pod of each session, or None
    pc,        \* per request: the step its task is at
    plan,      \* per request: its RoutingContext and RoutingPlan so far
    pending,   \* the register events that have marked their pod alive only
    events     \* how many cache events have arrived

health == <<checks, successes, failures, marked, running, faults, okRun, badRun>>
vars == <<alive, owned, health, ours, inflight, sticky, pc, plan, pending, events>>

\* What the task of a request holds: the mode, hash chain and session key that
\* PrepareStage extracted, the `available` bitmap read when routing began, the
\* candidates of the role being picked, the single or prefill pod and the
\* decode pod of the plan, and how many of its blocks are registered.
NoPlan == [mode |-> "single", chain |-> <<>>, session |-> None, live |-> {},
           cands |-> {}, primary |-> None, decode |-> None, done |-> 0]

Poller == INSTANCE HealthPoller
Registry == INSTANCE Ownership WITH Bits <- Pods

Init ==
    /\ Poller!Init
    /\ owned = {}
    /\ inflight = [p \in Pods |-> 0]
    /\ sticky = [s \in Sessions |-> None]
    /\ pc = [r \in Requests |-> "new"]
    /\ plan = [r \in Requests |-> NoPlan]
    /\ pending = {}
    /\ events = 0

Goto(r, label) == pc' = [pc EXCEPT ![r] = label]

\* The task of r is over and what it held is dropped.
End(r) == /\ Goto(r, "end")
          /\ plan' = [plan EXCEPT ![r] = NoPlan]

-----------------------------------------------------------------------------
(* Routing: route_openai_request and the pipeline.                         *)

\* The body is read and PrepareStage has run.
Prepare(r) ==
    /\ pc[r] = "new"
    /\ \E m \in Modes, hs \in Prompts, s \in Sessions \cup {None} :
          plan' = [plan EXCEPT ![r] = [@ EXCEPT !.mode = m, !.chain = hs, !.session = s]]
    /\ Goto(r, "filter")
    /\ UNCHANGED <<alive, owned, health, ours, inflight, sticky, pending, events>>

\* The body cannot be read, or PrepareStage refuses the request: 400.  Or the
\* body of a routed request is above what the handler's Bytes extractor takes.
Refuse(r) ==
    /\ pc[r] \in {"new", "send"}
    /\ End(r)
    /\ UNCHANGED <<alive, owned, health, ours, inflight, sticky, pending, events>>

PrimaryRole(r) == IF plan[r].mode = "single" THEN "single" ELSE "prefill"

\* available_pods, then candidates_for_role of the first role.
FilterPrimary(r) ==
    /\ pc[r] = "filter"
    /\ plan' = [plan EXCEPT ![r] = [@ EXCEPT
                  !.live = alive,
                  !.cands = EligibleCandidates(PrimaryRole(r), alive, inflight)]]
    /\ Goto(r, "pick")
    /\ UNCHANGED <<alive, owned, health, ours, inflight, sticky, pending, events>>

StickyPod(r) == IF plan[r].session = None THEN None ELSE sticky[plan[r].session]

\* The prefix query (it reads the alive bitmap again), the scores of the
\* candidates of role, and whether best is the best of them.
Picks(r, role, prefillPod, best) ==
    LET hs == plan[r].chain
        score == [p \in plan[r].cands |->
                    Score(p, role, CacheDepth(p, hs, owned, alive), Len(hs),
                          inflight, StickyPod(r), prefillPod)]
    IN BestCandidate(best, plan[r].cands, score)

PickPrimary(r) ==
    /\ pc[r] = "pick"
    /\ \E p \in plan[r].cands :
          /\ Picks(r, PrimaryRole(r), None, p)
          /\ plan' = [plan EXCEPT ![r].primary = p]
    /\ Goto(r, IF plan[r].mode = "single" THEN "send" ELSE "filterDecode")
    /\ UNCHANGED <<alive, owned, health, ours, inflight, sticky, pending, events>>

\* The decode candidates come from the bitmap read before the prefill pick.
FilterDecode(r) ==
    /\ pc[r] = "filterDecode"
    /\ plan' = [plan EXCEPT
                  ![r].cands = EligibleCandidates("decode", plan[r].live, inflight)]
    /\ Goto(r, "pickDecode")
    /\ UNCHANGED <<alive, owned, health, ours, inflight, sticky, pending, events>>

PickDecode(r) ==
    /\ pc[r] = "pickDecode"
    /\ \E p \in plan[r].cands :
          /\ Picks(r, "decode", plan[r].primary, p)
          /\ plan' = [plan EXCEPT ![r].decode = p]
    /\ Goto(r, "send")
    /\ UNCHANGED <<alive, owned, health, ours, inflight, sticky, pending, events>>

\* Mutant: a missing decode pod is not an error.
RejectPrimary(r) ==
    /\ pc[r] = "pick"
    /\ plan[r].cands = {}
    /\ End(r)
    /\ UNCHANGED <<alive, owned, health, ours, inflight, sticky, pending, events>>

\* NoCandidates: 400, and nothing is kept.
Reject(r) ==
    /\ pc[r] \in {"pick", "pickDecode"}
    /\ plan[r].cands = {}
    /\ End(r)
    /\ UNCHANGED <<alive, owned, health, ours, inflight, sticky, pending, events>>

-----------------------------------------------------------------------------
(* Forwarding: forward_once and the rest of openai_compatible_endpoint.    *)

Track(p) == inflight' = [inflight EXCEPT ![p] = @ + 1]

\* The primary pod, and no other, is tracked; the request goes upstream.
Send(r) ==
    /\ pc[r] = "send"
    /\ Track(plan[r].primary)
    /\ Goto(r, "sent")
    /\ UNCHANGED <<alive, owned, health, ours, sticky, plan, pending, events>>

SaturatingDec(n) == IF n > 0 THEN n - 1 ELSE 0

\* Mutant: the guard is forgotten.
LeakGuard(r) == UNCHANGED inflight

\* The InflightGuard of r is dropped with the future of forward_once.
DropGuard(r) == inflight' = [inflight EXCEPT ![plan[r].primary] = SaturatingDec(@)]

\* A 2xx with its whole body.
Succeed(r) ==
    /\ pc[r] = "sent"
    /\ plan[r].primary \in running
    /\ DropGuard(r)
    /\ Goto(r, "ok")
    /\ UNCHANGED <<alive, owned, health, ours, sticky, plan, pending, events>>

\* Another status, a connection or body error, the timeout, or a client that
\* goes away while the request is upstream: nothing is learned from it.
Fail(r) ==
    /\ pc[r] = "sent"
    /\ DropGuard(r)
    /\ End(r)
    /\ UNCHANGED <<alive, owned, health, ours, sticky, pending, events>>

MarkPodAlive(r) ==
    /\ pc[r] = "ok"
    /\ Poller!OtherMarksAlive(plan[r].primary)
    /\ Registry!MarkAlive(plan[r].primary)
    /\ Goto(r, "register")
    /\ UNCHANGED <<inflight, sticky, plan, pending, events>>

\* Mutant: register_chain goes through the chain from its end.
RegisterBackwards(r) ==
    LET i == plan[r].done + 1 IN
    /\ pc[r] = "register"
    /\ i <= Len(plan[r].chain)
    /\ Registry!Register(plan[r].primary, plan[r].chain[Len(plan[r].chain) + 1 - i])
    /\ plan' = [plan EXCEPT ![r].done = i]
    /\ UNCHANGED <<health, ours, inflight, sticky, pc, pending, events>>

\* One block of register_chain, in the order of the chain.
RegisterBlock(r) ==
    LET i == plan[r].done + 1 IN
    /\ pc[r] = "register"
    /\ i <= Len(plan[r].chain)
    /\ Registry!Register(plan[r].primary, plan[r].chain[i])
    /\ plan' = [plan EXCEPT ![r].done = i]
    /\ UNCHANGED <<health, ours, inflight, sticky, pc, pending, events>>

\* Mutant: the session is bound while the chain is being registered.
RememberEarly(r) ==
    /\ pc[r] = "register"
    /\ sticky' = IF plan[r].session = None THEN sticky
                 ELSE [sticky EXCEPT ![plan[r].session] = plan[r].primary]
    /\ End(r)
    /\ UNCHANGED <<alive, owned, health, ours, inflight, pending, events>>

\* The chain is registered; a request with a session key binds the session.
Remember(r) ==
    /\ pc[r] = "register"
    /\ plan[r].done = Len(plan[r].chain)
    /\ sticky' = IF plan[r].session = None THEN sticky
                 ELSE [sticky EXCEPT ![plan[r].session] = plan[r].primary]
    /\ End(r)
    /\ UNCHANGED <<alive, owned, health, ours, inflight, pending, events>>

-----------------------------------------------------------------------------
(* Cache events.                                                           *)

Event(kind) == /\ kind \in EventKinds
               /\ events < MaxEvents
               /\ events' = events + 1
               /\ UNCHANGED <<inflight, sticky, pc, plan>>

\* register_event marks the pod alive first, then registers the block.
RegisterEvent(p, h) ==
    /\ Event("register")
    /\ Poller!OtherMarksAlive(p)
    /\ Registry!MarkAlive(p)
    /\ pending' = pending \cup {<<p, h>>}

RegisterPrefix(p, h) ==
    /\ <<p, h>> \in pending
    /\ pending' = pending \ {<<p, h>>}
    /\ Registry!Register(p, h)
    /\ UNCHANGED <<health, ours, inflight, sticky, pc, plan, events>>

EvictEvent(p, h) ==
    /\ Event("evict")
    /\ Registry!Evict(p, h)
    /\ UNCHANGED <<health, ours, pending>>

ShutdownEvent(p) ==
    /\ Event("shutdown")
    /\ Poller!OtherShutsDown(p)
    /\ Registry!Shutdown(p)
    /\ UNCHANGED pending

-----------------------------------------------------------------------------
\* A step of the poller or of the pods it checks.
Health == /\ Poller!Tick \/ \E p \in Pods : Poller!Poll(p) \/ Poller!Fault(p)
          /\ UNCHANGED <<owned, inflight, sticky, pc, plan, pending, events>>

Route(r) == \/ FilterPrimary(r) \/ PickPrimary(r)
            \/ FilterDecode(r) \/ PickDecode(r) \/ Reject(r)
Forward(r) == Send(r) \/ Succeed(r) \/ Fail(r)
Account(r) == MarkPodAlive(r) \/ RegisterBlock(r) \/ Remember(r)

CacheEvent == \/ \E p \in Pods : ShutdownEvent(p)
              \/ \E p \in Pods, h \in Hashes :
                    RegisterEvent(p, h) \/ RegisterPrefix(p, h) \/ EvictEvent(p, h)

Next == \/ Health
        \/ CacheEvent
        \/ \E r \in Requests : Prepare(r) \/ Refuse(r) \/ Route(r) \/ Forward(r) \/ Account(r)

\* Tasks run until they wait; a request upstream is ended by its timeout at
\* the latest; the poller ticks and joins its checks.
Fairness == /\ WF_vars(Health /\ Poller!Tick)
            /\ \A p \in Pods : WF_vars(Health /\ Poller!Poll(p))
            /\ \A r \in Requests : /\ WF_vars(Route(r)) /\ WF_vars(Account(r))
                                   /\ WF_vars(Send(r)) /\ WF_vars(Fail(r))
            /\ \A p \in Pods, h \in Hashes : WF_vars(RegisterPrefix(p, h))

Spec == Init /\ [][Next]_vars
FairSpec == Spec /\ Fairness

-----------------------------------------------------------------------------
(* Properties.                                                             *)

Labels == {"new", "filter", "pick", "filterDecode", "pickDecode", "send", "sent",
           "ok", "register", "end"}
Plans == [mode : {"single", "disaggregated"}, chain : Seq(Hashes),
          session : Sessions \cup {None}, live : SUBSET Pods, cands : SUBSET Pods,
          primary : Pods \cup {None}, decode : Pods \cup {None}, done : Nat]

\* The labels of a task whose primary pod is picked, and of one whose plan is
\* made.
Routed == {"filterDecode", "pickDecode", "send", "sent", "ok", "register"}
Planned == {"send", "sent", "ok", "register"}

\* The pods of a plan are of the groups that its mode asks for.
PlanOK(r) ==
    /\ pc[r] \in Routed => /\ plan[r].primary \in Pods
                           /\ Role[plan[r].primary] = PrimaryRole(r)
    /\ pc[r] \in Planned /\ plan[r].mode = "disaggregated" =>
          /\ plan[r].decode \in Pods
          /\ Role[plan[r].decode] = "decode"

\* Every variable holds a value of its Rust type, and a request whose plan is
\* made has the pods of its plan, each of the group it was picked for.
TypeOK ==
    /\ Poller!TypeOK
    /\ owned \subseteq Pods \X Hashes
    /\ inflight \in [Pods -> Nat]
    /\ sticky \in [Sessions -> Pods \cup {None}]
    /\ pc \in [Requests -> Labels]
    /\ plan \in [Requests -> Plans]
    /\ pending \subseteq Pods \X Hashes
    /\ events \in 0 .. MaxEvents
    /\ \A r \in Requests : PlanOK(r)

Upstream(p) == {r \in Requests : pc[r] = "sent" /\ plan[r].primary = p}

\* The in-flight count of a pod is the number of requests upstream at it:
\* track and the guard's drop pair up whether a request succeeds, fails,
\* times out or is abandoned, and the saturating decrement never hides an
\* unbalanced drop.
InflightExact == \A p \in Pods : inflight[p] = Cardinality(Upstream(p))

\* As long as pods send no register or evict events, the blocks a pod owns
\* are a prefix of every prompt, also while chains are being registered: the
\* condition under which the binary search of the prefix query is exact.
PrefixClosed ==
    \A p \in Pods, hs \in Prompts : \A i \in 1 .. Len(hs) - 1 :
        <<p, hs[i + 1]>> \in owned => <<p, hs[i]>> \in owned

\* A session is only bound to a pod that owns the whole prompt by then (when
\* no event evicts it): register_chain is complete before remember.
StickyAfterBlocks ==
    [][\A r \in Requests, s \in Sessions :
          Remember(r) /\ sticky'[s] # sticky[s] =>
              \A i \in 1 .. Len(plan[r].chain) :
                  <<sticky'[s], plan[r].chain[i]>> \in owned]_vars

\* The load filter sees every connection it should: a pod is never given
\* more requests at once than its max_conns.
WithinCapacity == \A p \in Pods : inflight[p] <= MaxConns[p]

Decoding(p) == {r \in Requests : pc[r] = "sent" /\ plan[r].decode = p}

\* A prefill pod that could decode as well: it serves, supports decode and has
\* a connection free.
CouldDecode(p, live) ==
    p \in Serving \cap live /\ "decode" \in Capabilities[p] /\ CanAccept(p, inflight)

\* The pick of a decode pod weighs locality and load: when the prefill pod
\* could decode and a candidate is busy decoding, the prefill pod is itself a
\* candidate, where the locality score counts, and the in-flight count that
\* can_accept and the load score are made from has the requests decoding there.
DecodePickInformed ==
    \A r \in Requests : pc[r] = "pickDecode" =>
        \A p \in plan[r].cands :
            CouldDecode(plan[r].primary, plan[r].live) /\ Decoding(p) # {} =>
                /\ plan[r].primary \in plan[r].cands
                /\ Cardinality(Decoding(p)) <= inflight[p]

\* Every request is answered: routing and accounting never block, and the
\* timeout ends a request that its pod does not answer.
RequestsEnd == \A r \in Requests : pc[r] # "new" ~> pc[r] = "end"

\* A pod that keeps answering its health checks is in the alive bitmap from
\* some time on.
RunningPodsRouted == \A p \in Pods : <>[](p \in running) => <>[](p \in alive)

\* A pod that never answers again is out of the alive bitmap from some time on.
DeadPodsLeave == \A p \in Pods : <>[](p \notin running) => <>[](p \notin alive)

=============================================================================
