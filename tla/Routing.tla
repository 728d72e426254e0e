------------------------------ MODULE Routing ------------------------------
(***************************************************************************)
(* The routing pipeline as functions of what it reads: the catalog of pods *)
(* built from the configuration, the filter, the prefix depth of a pod,    *)
(* the score of a candidate and the pick.                                  *)
(*                                                                         *)
(* Scores are exact fractions.  The code computes them in f64; the two     *)
(* differ only for candidates whose scores differ by less than a rounding. *)
(***************************************************************************)
EXTENDS PrefixDepth

CONSTANTS Pods,          \* 0 .. n - 1: ids in configuration order
          Role,          \* the upstream group of each pod
          Capabilities,  \* the roles each pod supports
          Serving,       \* the pods configured healthy and not draining
          MaxConns       \* max_conns of each pod

Roles == {"single", "prefill", "decode"}

\* push_pods refuses a pod whose capabilities lack the role of its group.
ASSUME CatalogAssumption ==
    /\ Pods \subseteq Nat
    /\ Role \in [Pods -> Roles]
    /\ Capabilities \in [Pods -> SUBSET Roles]
    /\ \A p \in Pods : Role[p] \in Capabilities[p]
    /\ Serving \subseteq Pods
    /\ MaxConns \in [Pods -> Nat]

None == -1

-----------------------------------------------------------------------------
(* FilterStage.                                                            *)

\* Mutant: a pod is in every group whose role it supports.
GroupByCapability(role) == {p \in Pods : role \in Capabilities[p]}

Group(role) == {p \in Pods : Role[p] = role}

CanAccept(p, inflight) == inflight[p] < MaxConns[p]

EligibleCandidates(role, live, inflight) ==
    {p \in Group(role) \cap live :
        /\ p \in Serving
        /\ role \in Capabilities[p]
        /\ CanAccept(p, inflight)}

-----------------------------------------------------------------------------
(* ScoreStage and PickStage.                                               *)

\* The weights of RoutingPipeline::default, in percent.
Weights(role) ==
    CASE role = "single"  -> [cache |-> 60, load |-> 30, sticky |-> 10, locality |-> 0]
      [] role = "prefill" -> [cache |-> 65, load |-> 25, sticky |-> 10, locality |-> 0]
      [] role = "decode"  -> [cache |-> 10, load |-> 55, sticky |-> 10, locality |-> 25]

AtLeast1(n) == IF n = 0 THEN 1 ELSE n
Flag(b) == IF b THEN 1 ELSE 0

\* LoadState::score, as free connections out of max_conns; 0 when overrun.
FreeConns(p, inflight) ==
    IF inflight[p] < MaxConns[p] THEN MaxConns[p] - inflight[p] ELSE 0

\* score_candidate: num / den is final_score.  An empty chain scores no cache.
Score(p, role, depth, len, inflight, stickyPod, prefillPod) ==
    LET w == Weights(role)
        l == AtLeast1(len)
        m == AtLeast1(MaxConns[p])
    IN [num |-> w.cache * depth * m
                + w.load * FreeConns(p, inflight) * l
                + (w.sticky * Flag(stickyPod = p)
                   + w.locality * Flag(prefillPod = p)) * l * m,
        den |-> l * m]

Higher(a, b) == a.num * b.den > b.num * a.den

\* better_candidate_order: the higher score, then the lower pod id.
Preferred(p, q, score) ==
    Higher(score[p], score[q]) \/ (~Higher(score[q], score[p]) /\ p < q)

BestCandidate(p, candidates, score) ==
    \A q \in candidates \ {p} : Preferred(p, q, score)
=============================================================================
