------------------------------ MODULE Startup ------------------------------
(***************************************************************************)
(* How the gateway comes up: a configuration is loaded and validated, the  *)
(* registry is built from it pod by pod, the routes are laid out, the port *)
(* is bound.  What Routing assumes of its constants (CatalogAssumption) is *)
(* what has to hold of the catalog once the gateway serves.                *)
(***************************************************************************)
EXTENDS Integers, Sequences, FiniteSets

CONSTANTS Configs,  \* the configuration files the gateway may be started with
          MaxPods,  \* MAX_CONFIG_PODS, and MAX_PODS of HostBitmap (256)
          U16Max    \* u16::MAX

Roles == {"single", "prefill", "decode"}
Blank == ""  \* a string of white space

\* A pod of the configuration; capabilities is an Option, {} or {roles}.
PodConfigs == [id : STRING, url : STRING, healthy : BOOLEAN, draining : BOOLEAN,
               maxConns : Nat, capabilities : SUBSET SUBSET Roles]

\* The health endpoint: a path, whether it is written with its slash, and the
\* wildcards (:x, *x) in it: in the first segment, further on, or one the
\* router cannot parse.  /*path, which is merged, counts as further on.
Endpoints == [path : STRING, slash : BOOLEAN,
              wildcard : {"none", "further", "first", "malformed"}]

CalinixConfigs ==
    [port : Nat, maxPods : Nat, shardsCount : Nat, endpoint : Endpoints,
     intervalMs : Nat, timeoutMs : Nat, healthyThreshold : Nat, unhealthyThreshold : Nat,
     singleMode : {"single", "dispatch"}, dispatchMode : {"single", "dispatch"},
     single : Seq(PodConfigs), prefill : Seq(PodConfigs), decode : Seq(PodConfigs)]

ASSUME StartupAssumption ==
    /\ Configs \subseteq CalinixConfigs
    /\ MaxPods \in Nat \ {0}
    /\ U16Max \in Nat /\ U16Max >= MaxPods

VARIABLES config,        \* the configuration file
          phase,         \* how far run_from_cli has come
          pods,          \* PodTable::pods and UpstreamCatalog::pods
          byExternalId,  \* PodTable::by_external_id
          bitmap,        \* single_pods, prefill_pods, decode_pods
          loads          \* how many counters LoadState has

startup == <<config, phase, pods, byExternalId, bitmap, loads>>

\* The pods in the order of the ids they get.
Configured == config.single \o config.prefill \o config.decode

RoleAt(i) == IF i <= Len(config.single) THEN "single"
             ELSE IF i <= Len(config.single) + Len(config.prefill) THEN "prefill"
             ELSE "decode"

StartupInit ==
    /\ config \in Configs
    /\ phase = "load"
    /\ pods = <<>>
    /\ byExternalId = <<>>
    /\ bitmap = [role \in Roles |-> {}]
    /\ loads = 0

-----------------------------------------------------------------------------
(* load_config and validate_config.                                        *)

SettingsValid ==
    /\ config.port # 0
    /\ config.maxPods # 0
    /\ config.shardsCount # 0
    /\ config.endpoint.path # Blank \/ config.endpoint.slash
    /\ config.intervalMs # 0
    /\ config.timeoutMs # 0
    /\ config.healthyThreshold # 0
    /\ config.unhealthyThreshold # 0
    /\ config.maxPods <= MaxPods
    /\ config.singleMode = "single"
    /\ config.dispatchMode = "dispatch"
    /\ config.single # <<>>
    /\ config.prefill # <<>>
    /\ config.decode # <<>>

\* Mutant: ids are compared within a group only.
PodsValidByGroup ==
    /\ \A i \in DOMAIN Configured :
          /\ Configured[i].id # Blank
          /\ Configured[i].url # Blank
          /\ Configured[i].maxConns # 0
          /\ \A j \in 1 .. i - 1 :
                RoleAt(i) = RoleAt(j) => Configured[i].id # Configured[j].id
    /\ Len(Configured) <= config.maxPods
    /\ Len(Configured) <= U16Max

PodsValid ==
    /\ \A i \in DOMAIN Configured :
          /\ Configured[i].id # Blank
          /\ \A j \in 1 .. i - 1 : Configured[i].id # Configured[j].id
          /\ Configured[i].url # Blank
          /\ Configured[i].maxConns # 0
    /\ Len(Configured) <= config.maxPods
    /\ Len(Configured) <= U16Max

\* The file cannot be read or is not a configuration.
LoadFails == /\ phase = "load"
             /\ phase' = "failed"
             /\ UNCHANGED <<config, pods, byExternalId, bitmap, loads>>

ValidateConfig ==
    /\ phase = "load"
    /\ phase' = IF SettingsValid /\ PodsValid THEN "build" ELSE "failed"
    /\ UNCHANGED <<config, pods, byExternalId, bitmap, loads>>

-----------------------------------------------------------------------------
(* RuntimeRegistry::from_config.                                           *)

\* Mutant: a bitmap without bounds.
SetAnyBit(bits, id) == bits \cup {id}

\* HostBitmap::set ignores ids that do not fit.
SetBit(bits, id) == IF id < MaxPods THEN bits \cup {id} ELSE bits

\* A pod without capabilities has those of its role.
CapabilitiesAt(i) == IF Configured[i].capabilities = {} THEN {RoleAt(i)}
                     ELSE UNION Configured[i].capabilities

PodEndpoint(i) ==
    [id |-> i - 1, address |-> Configured[i].url,
     serving |-> Configured[i].healthy /\ ~Configured[i].draining,
     maxConns |-> Configured[i].maxConns, capabilities |-> CapabilitiesAt(i)]

\* One round of push_pods.  The name and the bit are set before the
\* capabilities are looked at; an error drops the whole registry.
PushPod ==
    LET i == Len(pods) + 1 IN
    /\ phase = "build"
    /\ i <= Len(Configured)
    /\ byExternalId' = [e \in DOMAIN byExternalId \cup {Configured[i].id} |->
                          IF e = Configured[i].id THEN i - 1 ELSE byExternalId[e]]
    /\ bitmap' = [bitmap EXCEPT ![RoleAt(i)] = SetBit(@, i - 1)]
    /\ \/ /\ RoleAt(i) \in CapabilitiesAt(i)
          /\ pods' = Append(pods, PodEndpoint(i))
          /\ UNCHANGED phase
       \/ /\ RoleAt(i) \notin CapabilitiesAt(i)
          /\ phase' = "failed"
          /\ UNCHANGED pods
    /\ UNCHANGED <<config, loads>>

\* The registry is complete: AppState::new, and the health poller starts.
NewAppState ==
    /\ phase = "build"
    /\ Len(pods) = Len(Configured)
    /\ loads' = Len(pods)
    /\ phase' = "route"
    /\ UNCHANGED <<config, pods, byExternalId, bitmap>>

-----------------------------------------------------------------------------
(* router, bind and serve.                                                 *)

\* /health is added unless the endpoint, as it is written, is /health.
SecondHealthRoute ==
    config.endpoint # [path |-> "health", slash |-> TRUE, wildcard |-> "none"]

\* axum panics when a path gets a second handler for a method (here GET), and
\* when a path is malformed or its wildcard stands where that of /*path does.
RouteClash == \/ config.endpoint.wildcard \in {"first", "malformed"}
              \/ /\ config.endpoint.wildcard = "none"
                 /\ \/ config.endpoint.path = "registry"
                    \/ config.endpoint.path = "health" /\ SecondHealthRoute

Router == /\ phase = "route"
          /\ phase' = IF RouteClash THEN "panicked" ELSE "bind"
          /\ UNCHANGED <<config, pods, byExternalId, bitmap, loads>>

Bind == /\ phase = "bind"
        /\ phase' \in {"serving", "failed"}
        /\ UNCHANGED <<config, pods, byExternalId, bitmap, loads>>

Startup == LoadFails \/ ValidateConfig \/ PushPod \/ NewAppState \/ Router \/ Bind

-----------------------------------------------------------------------------
(* UpstreamCatalog.                                                        *)

PodIds == {pods[i].id : i \in DOMAIN pods}

\* UpstreamCatalog::pod looks at the place of the id and compares.
HasPod(p) == p + 1 \in DOMAIN pods /\ pods[p + 1].id = p
Pod(p) == pods[p + 1]

-----------------------------------------------------------------------------
(* Properties.                                                             *)

\* When the gateway serves, every configured pod has one id, the group of the
\* list it stands in and no other, capabilities that support its role, its
\* own address, a counter in LoadState, and the name events call it by; every
\* group has a pod.  The other modules take this of their constants for
\* granted; here validation and the loops of push_pods have to provide it.
CatalogSound ==
    phase = "serving" =>
        /\ Len(pods) = Len(Configured) /\ loads = Len(pods)
        /\ \A i \in DOMAIN pods :
              /\ HasPod(i - 1)
              /\ \A role \in Roles : i - 1 \in bitmap[role] <=> role = RoleAt(i)
              /\ RoleAt(i) \in pods[i].capabilities
              /\ pods[i].address = Configured[i].url
              /\ pods[i].maxConns > 0
              /\ Configured[i].id \in DOMAIN byExternalId
              /\ byExternalId[Configured[i].id] = i - 1
        /\ \A role \in Roles : bitmap[role] # {} /\ bitmap[role] \subseteq PodIds
=============================================================================
