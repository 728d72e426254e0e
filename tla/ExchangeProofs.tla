--------------------------- MODULE ExchangeProofs ---------------------------
(***************************************************************************)
(* The catalog, the plans and the headers of the gateway, for every set of *)
(* configurations, requests, prompts, answers and events.                  *)
(***************************************************************************)
EXTENDS Exchange, ChainProofs

-----------------------------------------------------------------------------
(* The catalog.                                                            *)

\* The phases a configuration that passed validation can be in.
Valid == {"build", "route", "bind", "serving", "panicked"}
Complete == Valid \ {"build"}

PodRecords == {PodEndpoint(i) : i \in 1 .. Len(Configured)}

\* What push_pods has made of the first Len(pods) pods.
PushedOK ==
    /\ pods \in Seq(PodRecords) /\ Len(pods) <= Len(Configured)
    /\ \A i \in 1 .. Len(pods) : pods[i] = PodEndpoint(i) /\ RoleAt(i) \in CapabilitiesAt(i)
    /\ DOMAIN bitmap = Roles
    /\ \A role \in Roles : bitmap[role] = {q \in 0 .. Len(pods) - 1 : RoleAt(q + 1) = role}
    /\ \A i \in 1 .. Len(pods) : /\ Configured[i].id \in DOMAIN byExternalId
                                 /\ byExternalId[Configured[i].id] = i - 1

CatalogInv ==
    /\ config \in Configs
    /\ phase = "load" => pods = <<>> /\ bitmap = [role \in Roles |-> {}]
    /\ phase \in Valid => SettingsValid /\ PodsValid /\ PushedOK
    /\ phase \in Complete => Len(pods) = Len(Configured) /\ loads = Len(pods)

\* The three lists of a configuration, one after the other.
LEMMA ConfiguredType ==
    ASSUME config \in Configs
    PROVE  /\ Configured \in Seq(PodConfigs)
           /\ Len(Configured) = Len(config.single) + Len(config.prefill) + Len(config.decode)
           /\ Len(config.single) \in Nat /\ Len(config.prefill) \in Nat
           /\ Len(config.decode) \in Nat /\ Len(Configured) \in Nat
           /\ config.maxPods \in Nat
<1>1. config \in CalinixConfigs
  BY StartupAssumption
<1>2. /\ config.single \in Seq(PodConfigs) /\ config.prefill \in Seq(PodConfigs)
      /\ config.decode \in Seq(PodConfigs) /\ config.maxPods \in Nat
  BY <1>1 DEF CalinixConfigs
<1>3. PICK s \in Seq(PodConfigs), t \in Seq(PodConfigs), u \in Seq(PodConfigs) :
         s = config.single /\ t = config.prefill /\ u = config.decode
  BY <1>2
<1>4. Configured = s \o t \o u
  BY <1>3 DEF Configured
<1>5. /\ s \o t \o u \in Seq(PodConfigs) /\ Len(s \o t \o u) = Len(s) + Len(t) + Len(u)
      /\ Len(s) \in Nat /\ Len(t) \in Nat /\ Len(u) \in Nat
  OBVIOUS
<1>6. /\ Configured \in Seq(PodConfigs) /\ Len(Configured) = Len(s) + Len(t) + Len(u)
      /\ Len(Configured) \in Nat
  BY <1>4, <1>5
<1> QED
  BY <1>2, <1>3, <1>5, <1>6

\* No pod has been pushed.
LEMMA NothingPushed ==
    ASSUME config \in Configs, pods = <<>>, bitmap = [role \in Roles |-> {}]
    PROVE  PushedOK
<1>1. pods \in Seq(PodRecords) /\ Len(pods) = 0
  OBVIOUS
<1> QED
  BY <1>1, ConfiguredType DEF PushedOK

\* One round of push_pods.  Ids fit the bitmap and names are new, because the
\* configuration passed validation.
LEMMA PushPodStep ==
    ASSUME config \in Configs, SettingsValid, PodsValid, PushedOK, PushPod, phase' = "build"
    PROVE  PushedOK'
<1> DEFINE i == Len(pods) + 1
<1>1. /\ i <= Len(Configured) /\ RoleAt(i) \in CapabilitiesAt(i)
      /\ pods' = Append(pods, PodEndpoint(i)) /\ config' = config
      /\ byExternalId' = [e \in DOMAIN byExternalId \cup {Configured[i].id} |->
                            IF e = Configured[i].id THEN i - 1 ELSE byExternalId[e]]
      /\ bitmap' = [bitmap EXCEPT ![RoleAt(i)] = SetBit(@, i - 1)]
  BY DEF PushPod
<1>2. /\ Configured' = Configured /\ PodRecords' = PodRecords
      /\ \A j : RoleAt(j)' = RoleAt(j) /\ PodEndpoint(j)' = PodEndpoint(j)
                /\ CapabilitiesAt(j)' = CapabilitiesAt(j)
  <2>1. config' = config
    BY <1>1
  <2>2. Configured' = Configured
    BY ONLY <2>1 DEF Configured
  <2>3. \A j : RoleAt(j)' = RoleAt(j)
    BY ONLY <2>1 DEF RoleAt
  <2>4. \A j : CapabilitiesAt(j)' = CapabilitiesAt(j)
    BY ONLY <2>2, <2>3 DEF CapabilitiesAt
  <2>5. \A j : PodEndpoint(j)' = PodEndpoint(j)
    BY ONLY <2>2, <2>4 DEF PodEndpoint
  <2>6. PodRecords' = PodRecords
    BY ONLY <2>2, <2>5 DEF PodRecords
  <2> QED
    BY ONLY <2>2, <2>3, <2>4, <2>5, <2>6
<1>3. /\ Configured \in Seq(PodConfigs) /\ Len(Configured) \in Nat /\ Len(pods) \in Nat
      /\ config.maxPods \in Nat
  BY ConfiguredType DEF PushedOK
<1>4. i \in 1 .. Len(Configured) /\ i - 1 < MaxPods
  BY <1>1, <1>3, StartupAssumption DEF SettingsValid, PodsValid
<1>5. /\ pods' \in Seq(PodRecords) /\ Len(pods') = i
      /\ \A j \in 1 .. Len(pods) : pods'[j] = pods[j]
      /\ pods'[i] = PodEndpoint(i)
  <2>1. PodEndpoint(i) \in PodRecords
    BY <1>4 DEF PodRecords
  <2> QED
    BY <1>1, <2>1 DEF PushedOK
<1>6. \A j \in 1 .. i : j \in 1 .. Len(pods) \/ j = i
  BY <1>3
<1>7. \A j \in 1 .. i : pods'[j] = PodEndpoint(j) /\ RoleAt(j) \in CapabilitiesAt(j)
  BY <1>1, <1>5, <1>6 DEF PushedOK
<1>8. \A j \in 1 .. Len(pods) : Configured[i].id # Configured[j].id
  BY <1>3, <1>4 DEF PodsValid
<1>9. \A j \in 1 .. i : /\ Configured[j].id \in DOMAIN byExternalId'
                        /\ byExternalId'[Configured[j].id] = j - 1
  BY <1>1, <1>6, <1>8 DEF PushedOK
<1>10. RoleAt(i) \in Roles
  BY DEF RoleAt, Roles
<1>11. DOMAIN bitmap' = Roles
  BY <1>1 DEF PushedOK
<1>12. \A role \in Roles : bitmap'[role] = {q \in 0 .. i - 1 : RoleAt(q + 1) = role}
  <2> SUFFICES ASSUME NEW role \in Roles
               PROVE  bitmap'[role] = {q \in 0 .. i - 1 : RoleAt(q + 1) = role}
    OBVIOUS
  <2>0. bitmap[role] = {q \in 0 .. Len(pods) - 1 : RoleAt(q + 1) = role}
    BY DEF PushedOK
  <2>a. 0 .. i - 1 = 0 .. Len(pods) - 1 \cup {Len(pods)} /\ i - 1 = Len(pods)
    BY <1>3
  <2>1. CASE role = RoleAt(i)
    <3>1. bitmap'[role] = bitmap[role] \cup {i - 1}
      BY <1>1, <1>4, <1>10, <2>1 DEF PushedOK, SetBit
    <3> QED
      BY <1>3, <2>0, <2>a, <2>1, <3>1
  <2>2. CASE role # RoleAt(i)
    <3>1. bitmap'[role] = bitmap[role]
      BY <1>1, <1>10, <2>2 DEF PushedOK
    <3> QED
      BY <1>3, <2>0, <2>a, <2>2, <3>1
  <2> QED
    BY <2>1, <2>2
<1> HIDE DEF i
<1> QED
  BY <1>1, <1>2, <1>4, <1>5, <1>7, <1>9, <1>11, <1>12 DEF PushedOK

\* A step that leaves the registry alone.
LEMMA RegistryStays ==
    ASSUME UNCHANGED <<config, pods, byExternalId, bitmap>>
    PROVE  /\ PushedOK' = PushedOK /\ SettingsValid' = SettingsValid
           /\ PodsValid' = PodsValid /\ Configured' = Configured
<1>1. /\ Configured' = Configured /\ PodRecords' = PodRecords
      /\ \A j : RoleAt(j)' = RoleAt(j) /\ PodEndpoint(j)' = PodEndpoint(j)
                /\ CapabilitiesAt(j)' = CapabilitiesAt(j)
  BY DEF Configured, PodRecords, RoleAt, PodEndpoint, CapabilitiesAt
<1>2. PushedOK' = PushedOK
  BY <1>1 DEF PushedOK
<1>3. SettingsValid' = SettingsValid
  BY DEF SettingsValid
<1>4. PodsValid' = PodsValid
  BY <1>1 DEF PodsValid
<1> QED
  BY <1>1, <1>2, <1>3, <1>4

\* A step is one of the startup, or leaves what startup made alone.
LEMMA StartupAlone == ASSUME [Next]_vars PROVE Startup \/ UNCHANGED startup
<1>1. ASSUME NEW r \in Requests, Request(r) PROVE UNCHANGED startup
  BY <1>1 DEF Request, PrepareFails, Prepare, Route, NoCandidates, Send, ForwardFails, Respond
<1>2. CASE CacheEvent
  BY <1>2 DEF CacheEvent, EventRefused, ShutdownEvent, RegisterEvent, EvictEvent, Event
<1>3. ASSUME NEW p, Poll(p) PROVE UNCHANGED startup
  BY <1>3 DEF Poll
<1>4. CASE UNCHANGED vars
  BY <1>4 DEF vars
<1> QED
  BY <1>1, <1>2, <1>3, <1>4 DEF Next, Start

\* Every step of the startup preserves the invariant, and so does every step
\* of a gateway that serves: it leaves what startup made alone.
LEMMA CatalogStep == CatalogInv /\ [Next]_vars => CatalogInv'
<1> SUFFICES ASSUME CatalogInv, [Next]_vars PROVE CatalogInv'
  OBVIOUS
<1> USE DEF Valid, Complete
<1>1. CASE UNCHANGED startup
  <2>1. UNCHANGED <<config, phase, pods, byExternalId, bitmap, loads>>
    BY <1>1 DEF startup
  <2> QED
    BY <2>1, RegistryStays DEF CatalogInv
<1>2. CASE LoadFails
  BY <1>2 DEF LoadFails, CatalogInv
<1>3. CASE ValidateConfig
  <2>1. PushedOK
    BY <1>3, NothingPushed DEF ValidateConfig, CatalogInv
  <2>2. /\ UNCHANGED <<config, pods, byExternalId, bitmap>>
        /\ phase' \in {"build", "failed"} /\ (phase' = "build" => SettingsValid /\ PodsValid)
    BY <1>3 DEF ValidateConfig
  <2> QED
    BY <2>1, <2>2, RegistryStays DEF CatalogInv
<1>4. CASE PushPod
  <2>1. config' = config /\ phase = "build" /\ phase' \in {"build", "failed"}
    BY <1>4 DEF PushPod
  <2>2. SettingsValid /\ PodsValid /\ PushedOK
    BY <2>1 DEF CatalogInv
  <2>3. SettingsValid' /\ PodsValid'
    BY <2>1, <2>2 DEF SettingsValid, PodsValid, Configured
  <2>4. phase' = "build" => PushedOK'
    BY <1>4, <2>2, PushPodStep DEF CatalogInv
  <2> QED
    BY <2>1, <2>3, <2>4 DEF CatalogInv
<1>5. CASE NewAppState
  <2>1. /\ UNCHANGED <<config, pods, byExternalId, bitmap>> /\ phase = "build"
        /\ phase' = "route" /\ Len(pods) = Len(Configured) /\ loads' = Len(pods)
    BY <1>5 DEF NewAppState
  <2> QED
    BY <2>1, RegistryStays DEF CatalogInv
<1>6. CASE Router
  <2>1. /\ UNCHANGED <<config, pods, byExternalId, bitmap, loads>> /\ phase = "route"
        /\ phase' \in {"panicked", "bind"}
    BY <1>6 DEF Router
  <2> QED
    BY <2>1, RegistryStays DEF CatalogInv
<1>7. CASE Bind
  <2>1. /\ UNCHANGED <<config, pods, byExternalId, bitmap, loads>> /\ phase = "bind"
        /\ phase' \in {"serving", "failed"}
    BY <1>7 DEF Bind
  <2> QED
    BY <2>1, RegistryStays DEF CatalogInv
<1>8. Startup \/ UNCHANGED startup
  BY StartupAlone
<1> QED
  BY <1>1, <1>2, <1>3, <1>4, <1>5, <1>6, <1>7, <1>8 DEF Startup

\* The catalog is what validation and push_pods make it, in every behaviour.
THEOREM CatalogHolds == Spec => []CatalogInv
<1>1. Init => CatalogInv
  BY DEF Init, StartupInit, CatalogInv, Valid, Complete
<1> QED
  BY <1>1, CatalogStep, PTL DEF Spec

\* A gateway that serves has a sound catalog, whatever the configuration it
\* was started with: what Routing and Gateway assume of their constants.
THEOREM CatalogSoundHolds == Spec => []CatalogSound
<1>1. CatalogInv => CatalogSound
  <2> SUFFICES ASSUME CatalogInv, phase = "serving"
               PROVE  /\ Len(pods) = Len(Configured) /\ loads = Len(pods)
                      /\ \A i \in DOMAIN pods :
                            /\ HasPod(i - 1)
                            /\ \A role \in Roles : i - 1 \in bitmap[role] <=> role = RoleAt(i)
                            /\ RoleAt(i) \in pods[i].capabilities
                            /\ pods[i].address = Configured[i].url
                            /\ pods[i].maxConns > 0
                            /\ Configured[i].id \in DOMAIN byExternalId
                            /\ byExternalId[Configured[i].id] = i - 1
                      /\ \A role \in Roles : bitmap[role] # {} /\ bitmap[role] \subseteq PodIds
    BY DEF CatalogSound
  <2> DEFINE n == Len(pods)
  <2>1. SettingsValid /\ PodsValid /\ PushedOK /\ n = Len(Configured) /\ loads = n
    BY DEF CatalogInv, Valid, Complete
  <2>2. n \in Nat /\ DOMAIN pods = 1 .. n
    BY <2>1 DEF PushedOK
  <2>3. \A i \in 1 .. n : pods[i] = PodEndpoint(i)
    BY <2>1 DEF PushedOK
  <2>4. \A i \in 1 .. n : pods[i].id = i - 1 /\ pods[i].address = Configured[i].url
                          /\ pods[i].maxConns = Configured[i].maxConns
                          /\ pods[i].capabilities = CapabilitiesAt(i)
    <3> SUFFICES ASSUME NEW i \in 1 .. n
                 PROVE  /\ pods[i].id = i - 1 /\ pods[i].address = Configured[i].url
                        /\ pods[i].maxConns = Configured[i].maxConns
                        /\ pods[i].capabilities = CapabilitiesAt(i)
      OBVIOUS
    <3>1. pods[i] = PodEndpoint(i)
      BY <2>3
    <3> QED
      BY <3>1 DEF PodEndpoint
  <2>5. /\ Configured \in Seq(PodConfigs)
        /\ n = Len(config.single) + Len(config.prefill) + Len(config.decode)
        /\ Len(config.single) \in Nat /\ Len(config.prefill) \in Nat /\ Len(config.decode) \in Nat
    BY <2>1, ConfiguredType DEF CatalogInv
  <2>6. ASSUME NEW i \in 1 .. n
        PROVE  /\ HasPod(i - 1)
               /\ \A role \in Roles : i - 1 \in bitmap[role] <=> role = RoleAt(i)
               /\ RoleAt(i) \in pods[i].capabilities
               /\ pods[i].address = Configured[i].url
               /\ pods[i].maxConns > 0
               /\ Configured[i].id \in DOMAIN byExternalId
               /\ byExternalId[Configured[i].id] = i - 1
    <3>1. HasPod(i - 1)
      BY <2>2, <2>4 DEF HasPod
    <3>2. i - 1 \in 0 .. n - 1 /\ (i - 1) + 1 = i
      BY <2>2
    <3>3. \A role \in Roles : i - 1 \in bitmap[role] <=> role = RoleAt(i)
      BY <2>1, <3>2 DEF PushedOK
    <3>4. pods[i].maxConns > 0
      <4>1. Configured[i] \in PodConfigs /\ Configured[i].maxConns # 0
        <5>1. i \in DOMAIN Configured /\ Configured[i] \in PodConfigs
          <6>1. PICK s \in Seq(PodConfigs) : s = Configured
            BY <2>5
          <6>2. i \in 1 .. Len(s)
            BY <2>1, <6>1
          <6>3. i \in DOMAIN s /\ s[i] \in PodConfigs
            BY <6>2
          <6> QED
            BY <6>1, <6>3
        <5> QED
          BY <2>1, <5>1 DEF PodsValid
      <4>2. Configured[i].maxConns \in Nat
        BY <4>1 DEF PodConfigs
      <4> QED
        BY <2>4, <4>1, <4>2
    <3> QED
      BY <2>1, <2>4, <3>1, <3>3, <3>4 DEF PushedOK
  <2>7. ASSUME NEW role \in Roles PROVE bitmap[role] # {} /\ bitmap[role] \subseteq PodIds
    <3>1. config.single # <<>> /\ config.prefill # <<>> /\ config.decode # <<>>
      BY <2>1 DEF SettingsValid
    <3>2. Len(config.single) > 0 /\ Len(config.prefill) > 0 /\ Len(config.decode) > 0
      <4>1. /\ config.single \in Seq(PodConfigs) /\ config.prefill \in Seq(PodConfigs)
            /\ config.decode \in Seq(PodConfigs)
        BY StartupAssumption DEF CatalogInv, CalinixConfigs
      <4>2. \A s \in Seq(PodConfigs) : s # <<>> => Len(s) > 0
        OBVIOUS
      <4> QED
        BY <3>1, <4>1, <4>2
    <3>3. \E i \in 1 .. n : RoleAt(i) = role
      <4>1. PICK a \in Nat, b \in Nat, c \in Nat :
               a = Len(config.single) /\ b = Len(config.prefill) /\ c = Len(config.decode)
        BY <2>5
      <4>2. a > 0 /\ b > 0 /\ c > 0 /\ n = a + b + c
        BY <2>5, <3>2, <4>1
      <4>3. \A i : RoleAt(i) = IF i <= a THEN "single" ELSE IF i <= a + b THEN "prefill" ELSE "decode"
        BY <4>1, Zenon DEF RoleAt
      <4> HIDE DEF n
      <4>4. RoleAt(1) = "single" /\ RoleAt(a + 1) = "prefill" /\ RoleAt(n) = "decode"
        BY <4>2, <4>3
      <4>5. 1 \in 1 .. n /\ a + 1 \in 1 .. n /\ n \in 1 .. n
        BY <4>2
      <4> QED
        BY <4>4, <4>5 DEF Roles
    <3>4. bitmap[role] # {}
      BY <2>6, <3>3
    <3>5. \A q \in 0 .. n - 1 : q + 1 \in 1 .. n /\ pods[q + 1].id = q
      BY <2>2, <2>4
    <3>6. bitmap[role] \subseteq 0 .. n - 1
      BY <2>1 DEF PushedOK
    <3> QED
      BY <2>2, <3>4, <3>5, <3>6 DEF PodIds
  <2> QED
    BY <2>1, <2>2, <2>6, <2>7
<1> QED
  BY <1>1, CatalogHolds, PTL

-----------------------------------------------------------------------------
(* The requests.                                                           *)

Fields == {"client", "id", "mode", "tokens", "sent", "model", "primary", "decode", "depth"}
HeaderMaps == [Names -> Seq(Values)]

\* The body of RoutedInCatalog, for one request.
InCatalog(r) ==
    LET p == plan[r].primary
        d == plan[r].decode
    IN /\ p \in bitmap[PrimaryRole(r)] /\ HasPod(p) /\ p < loads
       /\ IF plan[r].mode = "single" THEN d = None
          ELSE d \in bitmap["decode"] /\ HasPod(d) /\ d # p

\* The id is the client's, or holds a value the counter had before.
IdOK(r) ==
    IF ClientId(plan[r].client) THEN plan[r].id = Head(plan[r].client["request-id"])
    ELSE \E n \in Nat, c \in Nat : c < counter /\ plan[r].id = <<"calinix", <<n, c>>>>

WireOK(r) == wire[r] = BuildRequest(AttemptHeaders(plan[r]), Pod(plan[r].primary).address)
ReplyOK(r) == \E h \in HeaderMaps : reply[r] = ResponseHeaders(plan[r], h)

\* What is known of a request at each of its steps.
TaskInv(r) ==
    /\ DOMAIN plan[r] = Fields
    /\ plan[r].mode \in {"single", "disaggregated"}
    /\ pc[r] # "new" => phase = "serving"
    /\ Prepared(r) => plan[r].client \in HeaderMaps /\ IdOK(r)
    /\ Routed(r) => InCatalog(r)
    /\ Upstream(r) => WireOK(r)
    /\ pc[r] = "answered" => ReplyOK(r)

\* Ids that the counter made differ.
IdsDiffer ==
    \A r, q \in Requests :
        /\ r # q /\ Prepared(r) /\ Prepared(q)
        /\ ~ClientId(plan[r].client) /\ ~ClientId(plan[q].client)
        => plan[r].id # plan[q].id

Tables == /\ pc \in [Requests -> Steps] /\ counter \in Nat
          /\ DOMAIN plan = Requests /\ DOMAIN wire = Requests /\ DOMAIN reply = Requests

TasksInv == Tables /\ IdsDiffer /\ \A r \in Requests : TaskInv(r)

\* Whoever else acts: as long as the catalog and the request stay and the
\* counter does not fall, what is known of the request holds on.
LEMMA TaskStays ==
    ASSUME NEW r \in Requests, TaskInv(r), counter \in Nat, counter' \in Nat, counter' >= counter,
           UNCHANGED <<pods, bitmap, loads, phase>>,
           pc'[r] = pc[r], plan'[r] = plan[r], wire'[r] = wire[r], reply'[r] = reply[r]
    PROVE  TaskInv(r)'
<1>1. IdOK(r) => IdOK(r)'
  BY DEF IdOK, ClientId
<1>2. (InCatalog(r) => InCatalog(r)') /\ (WireOK(r) => WireOK(r)') /\ (ReplyOK(r) => ReplyOK(r)')
  BY DEF InCatalog, PrimaryRole, HasPod, WireOK, Pod, ReplyOK
<1> QED
  BY <1>1, <1>2 DEF TaskInv, Prepared, Routed, Upstream

\* PrepareStage.
LEMMA PrepareTask ==
    ASSUME TasksInv, NEW r \in Requests, NEW in \in Inputs, NEW nanos \in 0 .. MaxNanos,
           Prepare(r, in, nanos)
    PROVE  TaskInv(r)' /\ IdsDiffer'
<1>1. /\ pc'[r] = "route" /\ phase' = "serving" /\ plan'[r].client = in.headers
      /\ plan'[r].id = RequestId(in.headers, nanos) /\ plan'[r].mode = RequestedMode(in.headers)
      /\ DOMAIN plan'[r] = Fields
  BY DEF Prepare, Goto, TasksInv, Tables, TaskInv, Fields, startup
<1>2. /\ counter' = CounterNext(in.headers) /\ counter \in Nat
      /\ \A q \in Requests \ {r} : pc'[q] = pc[q] /\ plan'[q] = plan[q]
  BY DEF Prepare, Goto, TasksInv, Tables
<1>3. in.headers \in HeaderMaps /\ nanos \in Nat
  BY ExchangeAssumption DEF HeaderMaps
<1>4. plan'[r].mode \in {"single", "disaggregated"}
  BY <1>1 DEF RequestedMode
<1>5. CASE ClientId(in.headers)
  <2>1. plan'[r].id = Head(in.headers["request-id"])
    BY <1>1, <1>5 DEF RequestId
  <2>2. IdOK(r)'
    BY <1>1, <1>5, <2>1 DEF IdOK, ClientId
  <2>3. ClientId(plan'[r].client)
    BY <1>1, <1>5
  <2>4. IdsDiffer'
    BY <1>2, <2>3 DEF IdsDiffer, TasksInv, Prepared, ClientId
  <2> QED
    BY <1>1, <1>3, <1>4, <2>2, <2>4 DEF TaskInv, Prepared, Routed, Upstream
<1>6. CASE ~ClientId(in.headers)
  <2>1. plan'[r].id = <<"calinix", <<nanos, counter>>>> /\ counter' = counter + 1
    BY <1>1, <1>2, <1>6 DEF RequestId, CounterNext
  <2>2. ~ClientId(plan'[r].client)
    BY <1>1, <1>6
  <2>3. IdOK(r)'
    <3>1. counter < counter' /\ plan'[r].id = <<"calinix", <<nanos, counter>>>>
      BY <1>2, <2>1
    <3> QED
      BY <1>2, <1>3, <2>2, <3>1 DEF IdOK, ClientId
  <2>4. ASSUME NEW q \in Requests \ {r}, Prepared(q), ~ClientId(plan[q].client)
        PROVE  plan[q].id # plan'[r].id
    <3>1. PICK n \in Nat, c \in Nat : c < counter /\ plan[q].id = <<"calinix", <<n, c>>>>
      BY <2>4 DEF TasksInv, TaskInv, IdOK
    <3>2. c # counter
      BY <1>2, <3>1
    <3> QED
      BY <2>1, <3>1, <3>2
  <2>5. IdsDiffer'
    BY <1>2, <2>4 DEF IdsDiffer, TasksInv, Prepared, ClientId
  <2> QED
    BY <1>1, <1>3, <1>4, <2>3, <2>5 DEF TaskInv, Prepared, Routed, Upstream
<1> QED
  BY <1>5, <1>6

\* A request that ends keeps nothing.
LEMMA RefuseTask ==
    ASSUME TasksInv, NEW r \in Requests, Refuse(r), phase' = "serving"
    PROVE  TaskInv(r)'
<1>1. pc'[r] = "end" /\ plan'[r] = NoPlan
  BY DEF Refuse, Goto, TasksInv, Tables
<1>2. DOMAIN NoPlan = Fields /\ NoPlan.mode = "single"
  BY DEF NoPlan, Fields
<1> QED
  BY <1>1, <1>2 DEF TaskInv, Prepared, Routed, Upstream

\* The pick: candidates are pods of the catalog and of the group of the role,
\* whatever ids are in the alive bitmap, and groups are disjoint.
LEMMA CandidatesInCatalog ==
    ASSUME CatalogInv, phase = "serving", NEW role \in Roles, NEW p \in Candidates(role)
    PROVE  p \in bitmap[role] /\ HasPod(p) /\ p < loads /\ RoleAt(p + 1) = role
<1>1. p \in bitmap[role] /\ HasPod(p)
  BY DEF Candidates
<1>2. PushedOK /\ loads = Len(pods)
  BY DEF CatalogInv, Valid, Complete
<1>3. bitmap[role] = {q \in 0 .. Len(pods) - 1 : RoleAt(q + 1) = role} /\ Len(pods) \in Nat
  BY <1>2 DEF PushedOK
<1> QED
  BY <1>1, <1>2, <1>3

\* What a plan changes in the context of its request.
LEMMA RouteFields ==
    ASSUME TasksInv, NEW r \in Requests, NEW p, NEW d, Route(r, p, d), ~Refuse(r)
    PROVE  /\ pc'[r] = "send" /\ DOMAIN plan'[r] = Fields
           /\ plan'[r].client = plan[r].client /\ plan'[r].id = plan[r].id
           /\ plan'[r].mode = plan[r].mode /\ plan'[r].primary = p /\ plan'[r].decode = d
           /\ plan'[r].tokens = plan[r].tokens
           /\ plan'[r].depth = CacheDepth(p, Chain(plan[r].tokens), owned, alive)
<1> DEFINE depth == CacheDepth(p, Chain(plan[r].tokens), owned, alive)
           routed == [plan[r] EXCEPT !.primary = p, !.decode = d, !.depth = depth]
<1>1. plan' = [plan EXCEPT ![r] = routed] /\ pc' = [pc EXCEPT ![r] = "send"]
  BY Zenon DEF Route, Goto
<1> HIDE DEF depth
<1>2. DOMAIN plan[r] = Fields
  BY DEF TasksInv, TaskInv
<1>3. /\ DOMAIN routed = Fields /\ routed.client = plan[r].client /\ routed.id = plan[r].id
      /\ routed.mode = plan[r].mode /\ routed.primary = p /\ routed.decode = d
      /\ routed.tokens = plan[r].tokens /\ routed.depth = depth
  BY <1>2 DEF Fields
<1> HIDE DEF routed
<1> QED
  BY <1>1, <1>3 DEF TasksInv, Tables, depth

\* The plan.
LEMMA RouteTask ==
    ASSUME CatalogInv, TasksInv, NEW r \in Requests, NEW p, NEW d, Route(r, p, d)
    PROVE  TaskInv(r)'
<1>0. pc[r] = "route" /\ TaskInv(r) /\ phase = "serving" /\ counter' = counter
  BY DEF Route, TasksInv, TaskInv
<1>1. UNCHANGED <<phase, pods, bitmap, loads>>
  BY DEF Route, startup
<1>2. CASE Refuse(r)
  BY <1>0, <1>1, <1>2, RefuseTask
<1>3. CASE ~Refuse(r)
  <2>1. /\ pc'[r] = "send" /\ DOMAIN plan'[r] = Fields
        /\ plan'[r].client = plan[r].client /\ plan'[r].id = plan[r].id
        /\ plan'[r].mode = plan[r].mode /\ plan'[r].primary = p /\ plan'[r].decode = d
    BY <1>3, RouteFields
  <2>2. /\ p \in Candidates(PrimaryRole(r))
        /\ IF plan[r].mode = "single" THEN d = None ELSE d \in Candidates("decode")
    BY DEF Route
  <2>3. PrimaryRole(r) \in Roles /\ "decode" \in Roles /\ PrimaryRole(r) # "decode"
    BY DEF PrimaryRole, Roles
  <2>4. p \in bitmap[PrimaryRole(r)] /\ HasPod(p) /\ p < loads /\ RoleAt(p + 1) = PrimaryRole(r)
    BY <1>0, <2>2, <2>3, CandidatesInCatalog
  <2>5. plan[r].mode # "single" => d \in bitmap["decode"] /\ HasPod(d) /\ RoleAt(d + 1) = "decode"
    BY <1>0, <2>2, <2>3, CandidatesInCatalog
  <2>6. InCatalog(r)'
    <3>1. PrimaryRole(r)' = PrimaryRole(r) /\ HasPod(p)' = HasPod(p) /\ HasPod(d)' = HasPod(d)
      BY <1>1, <2>1 DEF PrimaryRole, HasPod
    <3>2. plan[r].mode # "single" => d # p
      BY <2>3, <2>4, <2>5
    <3> QED
      BY <1>1, <2>1, <2>2, <2>4, <2>5, <3>1, <3>2 DEF InCatalog
  <2>7. IdOK(r)'
    BY <1>0, <2>1 DEF TaskInv, Prepared, IdOK, ClientId
  <2> QED
    BY <1>0, <1>1, <2>1, <2>6, <2>7 DEF TaskInv, Prepared, Routed, Upstream
<1> QED
  BY <1>2, <1>3

\* The forwarder and the answer.
LEMMA ForwardTask ==
    ASSUME TasksInv, NEW r \in Requests, Send(r) \/ \E a \in Answers : Respond(r, a)
    PROVE  TaskInv(r)'
<1>0. TaskInv(r)
  BY DEF TasksInv
<1>1. UNCHANGED <<phase, pods, bitmap, loads, counter, plan>>
  BY DEF Send, Respond, startup
<1>2. IdOK(r)' = IdOK(r) /\ InCatalog(r)' = InCatalog(r)
  BY <1>1 DEF IdOK, ClientId, InCatalog, PrimaryRole, HasPod
<1>3. CASE Send(r)
  <2>1. pc[r] = "send" /\ pc'[r] = "sent" /\ WireOK(r)'
    BY <1>1, <1>3 DEF Send, Goto, TasksInv, Tables, WireOK, Pod
  <2> QED
    BY <1>0, <1>1, <1>2, <2>1 DEF TaskInv, Prepared, Routed, Upstream
<1>4. ASSUME NEW a \in Answers, Respond(r, a) PROVE TaskInv(r)'
  <2>1. a.headers \in HeaderMaps
    BY ExchangeAssumption DEF HeaderMaps
  <2>2. /\ pc[r] = "sent" /\ pc'[r] = "answered" /\ UNCHANGED wire
        /\ reply'[r] = ResponseHeaders(plan[r], a.headers)
    BY <1>4 DEF Respond, Goto, TasksInv, Tables
  <2>3. ReplyOK(r)' /\ WireOK(r)' = WireOK(r)
    BY <1>1, <2>1, <2>2 DEF ReplyOK, WireOK, Pod
  <2> QED
    BY <1>0, <1>1, <1>2, <2>2, <2>3 DEF TaskInv, Prepared, Routed, Upstream
<1> QED
  BY <1>3, <1>4

\* A step of a request leaves the others alone.
LEMMA RequestStep ==
    ASSUME CatalogInv, TasksInv, NEW r \in Requests, Request(r)
    PROVE  TasksInv'
<1>0. UNCHANGED <<phase, pods, bitmap, loads>>
  BY DEF Request, PrepareFails, Prepare, Route, NoCandidates, Send, ForwardFails, Respond, startup
<1>1. PICK label \in Steps : pc' = [pc EXCEPT ![r] = label]
  BY DEF Request, PrepareFails, Prepare, Route, NoCandidates, Send, ForwardFails, Respond,
     Refuse, Goto, Steps
<1>2. /\ DOMAIN plan' = DOMAIN plan /\ \A q \in Requests \ {r} : plan'[q] = plan[q]
      /\ DOMAIN wire' = DOMAIN wire /\ \A q \in Requests \ {r} : wire'[q] = wire[q]
      /\ DOMAIN reply' = DOMAIN reply /\ \A q \in Requests \ {r} : reply'[q] = reply[q]
  BY DEF Request, PrepareFails, Prepare, Route, NoCandidates, Send, ForwardFails, Respond,
     Refuse, TasksInv, Tables
<1>3. counter \in Nat /\ counter' \in {counter, counter + 1}
  BY DEF Request, PrepareFails, Prepare, CounterNext, Route, NoCandidates, Send, ForwardFails,
     Respond, TasksInv, Tables
<1>4. Tables'
  BY <1>1, <1>2, <1>3 DEF TasksInv, Tables
<1>5. \A q \in Requests \ {r} : TaskInv(q)'
  BY <1>0, <1>1, <1>2, <1>3, TaskStays DEF TasksInv, Tables
<1>6. ASSUME ~Prepared(r)' \/ (Prepared(r) /\ plan'[r].id = plan[r].id /\ plan'[r].client = plan[r].client)
      PROVE  IdsDiffer'
  BY <1>1, <1>2, <1>6 DEF TasksInv, Tables, IdsDiffer, Prepared, ClientId
<1>7. TaskInv(r)
  BY DEF TasksInv
<1>8. ASSUME NEW in \in Inputs, NEW nanos \in 0 .. MaxNanos, Prepare(r, in, nanos)
      PROVE  TasksInv'
  BY <1>4, <1>5, <1>8, PrepareTask DEF TasksInv
<1>9. CASE Refuse(r)
  <2>1. phase' = "serving" /\ ~Prepared(r)'
    BY <1>0, <1>1, <1>7, <1>9 DEF Request, PrepareFails, Prepare, Route, NoCandidates, Send,
       ForwardFails, Respond, Refuse, Goto, TaskInv, Prepared, TasksInv, Tables
  <2> QED
    BY <1>4, <1>5, <1>6, <1>9, <2>1, RefuseTask DEF TasksInv
<1>10. ASSUME NEW p, NEW d, Route(r, p, d), ~Refuse(r) PROVE TasksInv'
  <2>1. Prepared(r) /\ plan'[r].id = plan[r].id /\ plan'[r].client = plan[r].client
    BY <1>10, RouteFields DEF Route, Prepared
  <2> QED
    BY <1>4, <1>5, <1>6, <1>10, <2>1, RouteTask DEF TasksInv
<1>11. CASE Send(r) \/ \E a \in Answers : Respond(r, a)
  <2>1. Prepared(r) /\ plan' = plan
    BY <1>11 DEF Send, Respond, Prepared
  <2> QED
    BY <1>4, <1>5, <1>6, <1>11, <2>1, ForwardTask DEF TasksInv
<1> QED
  BY <1>8, <1>9, <1>10, <1>11 DEF Request, PrepareFails, NoCandidates, ForwardFails

\* Every step keeps what is known of the requests.  No request arrives before
\* the gateway serves, and a gateway that serves is not started again.
LEMMA TasksStep == CatalogInv /\ TasksInv /\ [Next]_vars => TasksInv'
<1> SUFFICES ASSUME CatalogInv, TasksInv, [Next]_vars PROVE TasksInv'
  OBVIOUS
<1>1. ASSUME NEW r \in Requests, Request(r) PROVE TasksInv'
  BY <1>1, RequestStep
<1>2. CASE UNCHANGED <<counter, pc, plan, wire, reply>> /\ UNCHANGED <<phase, pods, bitmap, loads>>
  <2>1. \A r \in Requests : TaskInv(r)'
    BY <1>2, TaskStays DEF TasksInv, Tables
  <2> QED
    BY <1>2, <2>1 DEF TasksInv, Tables, IdsDiffer, Prepared, ClientId
<1>3. CASE Start
  <2>1. phase # "serving" /\ UNCHANGED <<counter, pc, plan, wire, reply>>
    BY <1>3 DEF Start, Startup, LoadFails, ValidateConfig, PushPod, NewAppState, Router, Bind, exchange
  <2>2. \A r \in Requests : pc[r] = "new" /\ TaskInv(r)
    BY <2>1 DEF TasksInv, TaskInv
  <2>3. \A r \in Requests : TaskInv(r)'
    BY <2>1, <2>2 DEF TaskInv, Prepared, Routed, Upstream
  <2> QED
    BY <2>1, <2>3 DEF TasksInv, Tables, IdsDiffer, Prepared, ClientId
<1>4. CASE CacheEvent
  BY <1>2, <1>4 DEF CacheEvent, EventRefused, ShutdownEvent, RegisterEvent, EvictEvent, Event, startup
<1>5. ASSUME NEW p \in PodIds, Poll(p) PROVE TasksInv'
  BY <1>2, <1>5 DEF Poll, startup
<1>6. CASE UNCHANGED vars
  BY <1>2, <1>6 DEF vars, startup, exchange
<1> QED
  BY <1>1, <1>3, <1>4, <1>5, <1>6 DEF Next

\* What is known of the requests holds in every behaviour.
THEOREM TasksHold == Spec => []TasksInv
<1>1. Init => TasksInv
  <2>1. DOMAIN NoPlan = Fields /\ NoPlan.mode = "single"
    BY DEF NoPlan, Fields
  <2> QED
    BY <2>1 DEF Init, TasksInv, Tables, IdsDiffer, TaskInv, Steps, Prepared, Routed, Upstream
<1> QED
  BY <1>1, CatalogHolds, TasksStep, PTL DEF Spec

\* Plans name pods of the catalog and of the right groups, whatever ids the
\* events put in the alive bitmap and whatever the configuration is.
THEOREM RoutedHolds == Spec => []RoutedInCatalog
<1>1. TasksInv => RoutedInCatalog
  BY DEF TasksInv, TaskInv, InCatalog, RoutedInCatalog
<1> QED
  BY <1>1, TasksHold, PTL

\* Generated request ids are distinct for any number of requests and any
\* clock: the counter is what makes them so.
THEOREM RequestIdsHold == Spec => []RequestIdsDistinct
<1>1. TasksInv => RequestIdsDistinct
  BY DEF TasksInv, TaskInv, IdOK, IdsDiffer, RequestIdsDistinct
<1> QED
  BY <1>1, TasksHold, PTL

-----------------------------------------------------------------------------
(* The headers.                                                            *)

\* The values of a plan, under the names of its mode.
LEMMA PlanValues ==
    ASSUME NEW p, p.mode \in {"single", "disaggregated"}
    PROVE  LET v == RoutingHeaders(p) IN
           /\ DOMAIN v = OwnedHeaders \ (IF p.mode = "single" THEN {"prefill", "decode"} ELSE {"target"})
           /\ v["request-id"] = p.id /\ v["mode"] = Text(p.mode)
           /\ p.mode = "single" => v["target"] = PodText(p.primary)
           /\ p.mode # "single" => v["prefill"] = PodText(p.primary) /\ v["decode"] = PodText(p.decode)
           /\ v["cache-hit"] = Text(IF p.depth > 0 THEN "true" ELSE "false")
           /\ v["prefix-depth"] = <<"depth", p.depth>> /\ v["namespace"] = <<"namespace", p.model>>
           /\ v["policy"] = Text("default")
  BY DEF RoutingHeaders, OwnedHeaders

\* inject_routing_headers and headers_for_attempt: the owned headers are those
\* of the plan, whatever the client sent; the others are the client's.
LEMMA Attempt ==
    ASSUME NEW p, p.mode \in {"single", "disaggregated"}
    PROVE  LET v == RoutingHeaders(p)
               h == AttemptHeaders(p)
           IN /\ h = ForwardingHeaders(p)
              /\ DOMAIN h = Names
              /\ \A n \in DOMAIN v : h[n] = <<v[n]>>
              /\ \A n \in OwnedHeaders \ DOMAIN v : h[n] = <<>>
              /\ \A n \in Names \ OwnedHeaders : h[n] = p.client[n]
<1> DEFINE v == RoutingHeaders(p)
           f == ForwardingHeaders(p)
           own == IF p.mode = "single" THEN "target" ELSE "prefill"
<1>1. own \in DOMAIN v /\ v[own] = PodText(p.primary) /\ DOMAIN v \subseteq OwnedHeaders
  <2>1. /\ DOMAIN v = OwnedHeaders \ (IF p.mode = "single" THEN {"prefill", "decode"} ELSE {"target"})
        /\ p.mode = "single" => v["target"] = PodText(p.primary)
        /\ p.mode # "single" => v["prefill"] = PodText(p.primary)
    BY PlanValues
  <2> HIDE DEF v
  <2>2. CASE p.mode = "single"
    BY <2>1, <2>2 DEF OwnedHeaders
  <2>3. CASE p.mode # "single"
    BY <2>1, <2>3 DEF OwnedHeaders
  <2> QED
    BY <2>2, <2>3
<1>2. OwnedHeaders \subseteq Names
  BY DEF Names
<1>3. /\ f = [n \in Names |-> IF n \in DOMAIN v THEN <<v[n]>>
                              ELSE IF n \in OwnedHeaders THEN <<>> ELSE p.client[n]]
      /\ AttemptHeaders(p) = [f EXCEPT ![own] = <<PodText(p.primary)>>]
  BY DEF ForwardingHeaders, Inject, AttemptHeaders
<1> HIDE DEF v, f, own
<1>4. f[own] = <<PodText(p.primary)>> /\ AttemptHeaders(p) = f
  BY <1>1, <1>2, <1>3
<1> QED
  BY <1>1, <1>2, <1>3, <1>4 DEF v, f

\* The last value of a header of one value.
LEMMA LastOfOne == ASSUME NEW x PROVE Last(<<x>>) = x /\ Len(<<x>>) = 1 /\ <<x>> # <<>>
  BY DEF Last

\* build_request: what the pod gets.
LEMMA OnTheWire ==
    ASSUME NEW p, p.mode \in {"single", "disaggregated"}, NEW address
    PROVE  LET v == RoutingHeaders(p)
               w == BuildRequest(AttemptHeaders(p), address)
           IN /\ \A n \in DOMAIN v : w[n] = <<v[n]>>
              /\ \A n \in OwnedHeaders \ DOMAIN v : w[n] = <<>>
<1> DEFINE v == RoutingHeaders(p)
           h == AttemptHeaders(p)
           w == BuildRequest(h, address)
<1>1. /\ \A n \in DOMAIN v : h[n] = <<v[n]>>
      /\ \A n \in OwnedHeaders \ DOMAIN v : h[n] = <<>>
      /\ \A n \in Names \ OwnedHeaders : h[n] = p.client[n]
  BY Attempt
<1>2. DOMAIN v \subseteq OwnedHeaders /\ OwnedHeaders \subseteq Names \ SetByForwarder
  <2>1. DOMAIN v \subseteq OwnedHeaders
    BY DEF RoutingHeaders
  <2>2. OwnedHeaders \subseteq Names \ SetByForwarder
    BY DEF Names, OwnedHeaders, SetByForwarder
  <2> QED
    BY <2>1, <2>2
<1> HIDE DEF v, h
<1>3. \A n \in Names \ SetByForwarder : w[n] = IF h[n] = <<>> THEN <<>> ELSE <<Last(h[n])>>
  BY DEF BuildRequest, SetByForwarder
<1> HIDE DEF w
<1>4. \A n \in DOMAIN v : w[n] = <<v[n]>>
  <2> SUFFICES ASSUME NEW n \in DOMAIN v PROVE w[n] = <<v[n]>>
    OBVIOUS
  <2>1. h[n] = <<v[n]>> /\ h[n] # <<>> /\ n \in Names \ SetByForwarder
    BY <1>1, <1>2, LastOfOne
  <2>2. w[n] = <<Last(<<v[n]>>)>>
    BY <1>3, <2>1
  <2> QED
    BY <2>2, LastOfOne
<1>5. \A n \in OwnedHeaders \ DOMAIN v : w[n] = <<>>
  BY <1>1, <1>2, <1>3
<1> QED
  BY <1>4, <1>5 DEF v, h, w

\* What the pod is told is what was decided.
LEMMA PodTold ==
    ASSUME CatalogInv, TasksInv, NEW r \in Requests, Upstream(r)
    PROVE  PodIsTold(r)
<1>0. PICK p : p = plan[r]
  OBVIOUS
<1> DEFINE v == RoutingHeaders(p)
           w == wire[r]
<1>1. TaskInv(r) /\ WireOK(r) /\ InCatalog(r)
  BY DEF TasksInv, TaskInv, Upstream, Routed
<1>2. p.mode \in {"single", "disaggregated"}
  BY <1>0, <1>1 DEF TaskInv
<1>3. /\ \A n \in DOMAIN v : w[n] = <<v[n]>>
      /\ \A n \in OwnedHeaders \ DOMAIN v : w[n] = <<>>
  <2>1. w = BuildRequest(AttemptHeaders(p), Pod(p.primary).address)
    BY <1>0, <1>1 DEF WireOK
  <2> HIDE DEF w
  <2> QED
    BY <1>2, <2>1, OnTheWire
<1>4. /\ DOMAIN v = OwnedHeaders \ (IF p.mode = "single" THEN {"prefill", "decode"} ELSE {"target"})
      /\ v["mode"] = Text(p.mode)
      /\ p.mode = "single" => v["target"] = PodText(p.primary)
      /\ p.mode # "single" => v["prefill"] = PodText(p.primary) /\ v["decode"] = PodText(p.decode)
      /\ v["cache-hit"] = Text(IF p.depth > 0 THEN "true" ELSE "false")
      /\ v["prefix-depth"] = <<"depth", p.depth>> /\ v["namespace"] = <<"namespace", p.model>>
      /\ v["policy"] = Text("default")
  BY <1>2, PlanValues
<1>5. p.mode # "single" => p.decode \in bitmap["decode"]
  BY <1>0, <1>1 DEF InCatalog
<1> HIDE DEF v, w
<1>6. \A n \in OwnedHeaders : Len(w[n]) <= 1
  <2> SUFFICES ASSUME NEW n \in OwnedHeaders PROVE Len(w[n]) <= 1
    OBVIOUS
  <2>1. CASE n \in DOMAIN v
    <3>1. w[n] = <<v[n]>>
      BY <1>3, <2>1
    <3>2. Len(w[n]) = 1
      BY <3>1, LastOfOne
    <3> QED
      BY <3>2
  <2>2. CASE n \notin DOMAIN v
    BY <1>3, <2>2
  <2> QED
    BY <2>1, <2>2
<1>7. /\ {"mode", "cache-hit", "prefix-depth", "namespace", "policy"} \subseteq DOMAIN v
      /\ p.mode = "single" => /\ "target" \in DOMAIN v
                              /\ "prefill" \in OwnedHeaders \ DOMAIN v
                              /\ "decode" \in OwnedHeaders \ DOMAIN v
      /\ p.mode # "single" => /\ "prefill" \in DOMAIN v /\ "decode" \in DOMAIN v
                              /\ "target" \in OwnedHeaders \ DOMAIN v
  <2>1. CASE p.mode = "single"
    BY <1>4, <2>1 DEF OwnedHeaders
  <2>2. CASE p.mode # "single"
    BY <1>4, <2>2 DEF OwnedHeaders
  <2> QED
    BY <2>1, <2>2
<1>8. /\ w["mode"] = <<Text(p.mode)>>
      /\ w["cache-hit"] = <<Text(IF p.depth > 0 THEN "true" ELSE "false")>>
      /\ w["prefix-depth"] = <<<<"depth", p.depth>>>>
      /\ w["namespace"] = <<<<"namespace", p.model>>>> /\ w["policy"] = <<Text("default")>>
  BY <1>3, <1>4, <1>7
<1>9. p.mode = "single" => /\ w["target"] = <<PodText(p.primary)>>
                           /\ w["prefill"] = <<>> /\ w["decode"] = <<>>
  BY <1>3, <1>4, <1>7
<1>10. p.mode # "single" => /\ w["target"] = <<>> /\ w["prefill"] = <<PodText(p.primary)>>
                            /\ w["decode"] = <<PodText(p.decode)>>
  BY <1>3, <1>4, <1>7
<1>11. w["prefix-depth"][1][2] = p.depth
  BY <1>8
<1>12. w["cache-hit"] = <<Text(IF w["prefix-depth"][1][2] > 0 THEN "true" ELSE "false")>>
  BY <1>8, <1>11
<1>13. \/ /\ w["mode"] = <<Text("single")>> /\ w["target"] = <<PodText(p.primary)>>
          /\ w["prefill"] = <<>> /\ w["decode"] = <<>>
       \/ /\ w["mode"] = <<Text("disaggregated")>> /\ w["target"] = <<>>
          /\ w["prefill"] = <<PodText(p.primary)>>
          /\ \E d \in bitmap["decode"] : w["decode"] = <<PodText(d)>>
  <2>1. CASE p.mode = "single"
    BY <1>8, <1>9, <2>1
  <2>2. CASE p.mode = "disaggregated"
    BY <1>5, <1>8, <1>10, <2>2
  <2> QED
    BY <1>2, <2>1, <2>2
<1> QED
  BY <1>0, <1>6, <1>8, <1>12, <1>13 DEF PodIsTold, w

\* The gateway's headers come last in the client's answer.
LEMMA ClientTold ==
    ASSUME CatalogInv, TasksInv, NEW r \in Requests, pc[r] = "answered"
    PROVE  ClientIsTold(r)
<1> DEFINE p == plan[r]
           v == RoutingHeaders(p)
           w == wire[r]
<1>1. TaskInv(r) /\ WireOK(r) /\ ReplyOK(r) /\ p.mode \in {"single", "disaggregated"}
  BY DEF TasksInv, TaskInv, Upstream
<1>2. PICK h \in HeaderMaps : reply[r] = ResponseHeaders(p, h)
  BY <1>1 DEF ReplyOK
<1>3. /\ \A n \in DOMAIN v : w[n] = <<v[n]>>
      /\ \A n \in OwnedHeaders \ DOMAIN v : w[n] = <<>>
  BY <1>1, OnTheWire DEF WireOK
<1>4. \A n \in DOMAIN v : ForwardingHeaders(p)[n] = <<v[n]>>
  BY <1>1, Attempt
<1>5. OwnedHeaders \subseteq Names /\ OwnedHeaders \subseteq CalinixNames /\ OwnedHeaders \cap HopByHop = {}
  BY DEF OwnedHeaders, Names, CalinixNames, HopByHop
<1> SUFFICES ASSUME NEW n \in OwnedHeaders, w[n] # <<>> PROVE Last(reply[r][n]) = Last(w[n])
  BY DEF ClientIsTold
<1>6. n \in DOMAIN v
  BY <1>3
<1>7. reply[r][n] = h[n] \o ForwardingHeaders(p)[n]
  BY <1>2, <1>5 DEF ResponseHeaders
<1> HIDE DEF v, w, p
<1>8. reply[r][n] = h[n] \o <<v[n]>>
  BY <1>4, <1>6, <1>7
<1>9. h[n] \in Seq(Values)
  BY <1>2, <1>5 DEF HeaderMaps
<1>10. Last(h[n] \o <<v[n]>>) = v[n]
  <2>1. PICK s \in Seq(Values) : s = h[n]
    BY <1>9
  <2>2. \A x : Len(s \o <<x>>) = Len(s) + 1 /\ (s \o <<x>>)[Len(s) + 1] = x
    OBVIOUS
  <2> QED
    BY <2>1, <2>2 DEF Last
<1>11. Last(w[n]) = v[n]
  BY <1>3, <1>6, LastOfOne
<1> QED
  BY <1>8, <1>10, <1>11

\* The routing headers tell the truth to pod and client for every request,
\* whatever x-calinix headers clients send and pods answer.
THEOREM RoutingHeadersHold == Spec => []RoutingHeadersTrue
<1>1. CatalogInv /\ TasksInv => RoutingHeadersTrue
  BY PodTold, ClientTold DEF RoutingHeadersTrue
<1> QED
  BY <1>1, CatalogHolds, TasksHold, PTL

-----------------------------------------------------------------------------
(* The sharding function.                                                  *)

\* shard_for_fibonacci finds a shard of the index for every hash and every
\* number of shards, 0 included, although the product wraps.
THEOREM ShardInRange ==
    ASSUME NEW hash \in Nat, NEW count \in Nat, NEW factor \in Nat, NEW range \in Nat \ {0}
    PROVE  ShardForFibonacci(hash, count, factor, range) \in 0 .. Max({count, 1}) - 1
<1> DEFINE m == (hash * factor) % range
           c == IF count > 1 THEN count ELSE 1
<1>1. Max({count, 1}) = c
  <2>1. c \in {count, 1} /\ \A y \in {count, 1} : c >= y
    OBVIOUS
  <2>2. \A x \in {count, 1} : (\A y \in {count, 1} : x >= y) => x = c
    OBVIOUS
  <2> QED
    BY <2>1, <2>2 DEF Max
<1>2. hash * factor \in Nat
  OBVIOUS
<1>3. m \in Nat /\ m < range /\ c \in Nat \ {0}
  BY <1>2
<1> HIDE DEF m, c
<1>4. m * c \in Nat /\ m * c < range * c
  BY <1>3
<1>5. (m * c) \div range \in Nat /\ (m * c) \div range < c
  BY <1>3, <1>4
<1> QED
  BY <1>1, <1>3, <1>5 DEF ShardForFibonacci, m

-----------------------------------------------------------------------------
(* The types.  What push_pods leaves behind is typed in every phase, also   *)
(* when an error drops the registry.                                        *)

Bits == 0 .. MaxPods - 1

StartupType ==
    /\ config \in Configs /\ phase \in Phases /\ loads \in Nat
    /\ \A p \in PodIds : p \in Bits
    /\ \A e \in DOMAIN byExternalId : byExternalId[e] \in Nat
    /\ bitmap \in [Roles -> SUBSET Bits]

CacheType ==
    /\ alive \subseteq Bits
    /\ \A o \in owned : o[1] \in Bits
    /\ events \in 0 .. MaxEvents

RequestType(r) ==
    /\ plan[r].tokens \in Seq(Tokens)
    /\ plan[r].primary \in Ids /\ plan[r].decode \in Ids /\ plan[r].depth \in Nat
    /\ DOMAIN wire[r] = Names /\ DOMAIN reply[r] = Names

RequestTypes == counter \in Nat \ {0} /\ \A r \in Requests : RequestType(r)

\* A bit that is set fits the bitmap.
LEMMA SetBitType ==
    ASSUME NEW bits \in SUBSET Bits, NEW id \in Nat
    PROVE  SetBit(bits, id) \in SUBSET Bits
  BY StartupAssumption DEF SetBit, Bits

LEMMA PushPodType ==
    ASSUME CatalogInv, StartupType, PushPod
    PROVE  StartupType'
<1> DEFINE i == Len(pods) + 1
<1>1. phase = "build" /\ SettingsValid /\ PodsValid /\ PushedOK
  BY DEF PushPod, CatalogInv, Valid
<1>2. /\ i <= Len(Configured)
      /\ byExternalId' = [e \in DOMAIN byExternalId \cup {Configured[i].id} |->
                            IF e = Configured[i].id THEN i - 1 ELSE byExternalId[e]]
      /\ bitmap' = [bitmap EXCEPT ![RoleAt(i)] = SetBit(@, i - 1)]
      /\ pods' \in {pods, Append(pods, PodEndpoint(i))}
      /\ phase' \in {"build", "failed"} /\ config' = config /\ loads' = loads
  BY <1>1 DEF PushPod
<1>3. /\ Len(Configured) \in Nat /\ Len(pods) \in Nat /\ config.maxPods \in Nat
      /\ pods \in Seq(PodRecords)
  BY <1>1, ConfiguredType DEF StartupType, PushedOK
<1>4. i \in Nat /\ i - 1 \in Nat /\ i - 1 \in Bits
  BY <1>1, <1>2, <1>3, StartupAssumption DEF SettingsValid, PodsValid, Bits
<1>5. i = Len(pods) + 1
  OBVIOUS
<1> HIDE DEF i
<1>6. \A e \in DOMAIN byExternalId' : byExternalId'[e] \in Nat
  BY <1>2, <1>4 DEF StartupType
<1>7. bitmap' \in [Roles -> SUBSET Bits]
  <2>1. RoleAt(i) \in Roles
    BY DEF RoleAt, Roles
  <2>2. bitmap[RoleAt(i)] \in SUBSET Bits
    BY <2>1 DEF StartupType
  <2>3. SetBit(bitmap[RoleAt(i)], i - 1) \in SUBSET Bits
    BY <1>4, <2>2, SetBitType
  <2> QED
    BY <1>2, <2>3 DEF StartupType
<1>8. \A p \in PodIds' : p \in Bits
  <2>1. CASE pods' = pods
    BY <2>1 DEF PodIds, StartupType
  <2>2. CASE pods' = Append(pods, PodEndpoint(i))
    <3>1. PodEndpoint(i).id = i - 1
      BY DEF PodEndpoint
    <3>2. PICK x : x = PodEndpoint(i)
      OBVIOUS
    <3>3. /\ DOMAIN pods' = 1 .. Len(pods) + 1
          /\ \A j \in 1 .. Len(pods) : pods'[j] = pods[j] /\ j \in DOMAIN pods
          /\ pods'[Len(pods) + 1] = x
      BY <1>3, <2>2, <3>2
    <3>4. \A j \in DOMAIN pods' : pods'[j].id \in PodIds \/ pods'[j].id = i - 1
      <4> SUFFICES ASSUME NEW j \in DOMAIN pods' PROVE pods'[j].id \in PodIds \/ pods'[j].id = i - 1
        OBVIOUS
      <4>1. j \in 1 .. Len(pods) \/ j = Len(pods) + 1
        BY <1>3, <3>3
      <4> QED
        BY <3>1, <3>2, <3>3, <4>1 DEF PodIds
    <3> QED
      BY <1>4, <3>4 DEF PodIds, StartupType
  <2> QED
    BY <1>2, <2>1, <2>2
<1>9. config' \in Configs /\ phase' \in Phases /\ loads' \in Nat
  BY <1>2 DEF StartupType, Phases
<1> QED
  BY <1>6, <1>7, <1>8, <1>9 DEF StartupType, Bits

LEMMA StartupTypeStep == CatalogInv /\ StartupType /\ [Next]_vars => StartupType'
<1> SUFFICES ASSUME CatalogInv, StartupType, [Next]_vars PROVE StartupType'
  OBVIOUS
<1>1. CASE UNCHANGED startup
  BY <1>1 DEF startup, StartupType, PodIds, Bits
<1>2. CASE PushPod
  BY <1>2, PushPodType
<1>3. CASE LoadFails \/ ValidateConfig \/ Router \/ Bind
  <2>1. UNCHANGED <<config, pods, byExternalId, bitmap, loads>> /\ phase' \in Phases
    BY <1>3 DEF LoadFails, ValidateConfig, Router, Bind, Phases
  <2> QED
    BY <2>1 DEF StartupType, PodIds, Bits
<1>4. CASE NewAppState
  <2>1. /\ UNCHANGED <<config, pods, byExternalId, bitmap>> /\ loads' = Len(pods)
        /\ phase' = "route" /\ phase = "build"
    BY <1>4 DEF NewAppState
  <2>2. Len(pods) \in Nat
    BY <2>1 DEF CatalogInv, Valid, PushedOK
  <2> QED
    BY <2>1, <2>2 DEF StartupType, PodIds, Bits, Phases
<1>5. Startup \/ UNCHANGED startup
  BY StartupAlone
<1> QED
  BY <1>1, <1>2, <1>3, <1>4, <1>5 DEF Startup

\* The pod an event names is a number, if not always one of the catalog.
LEMMA ResolveType ==
    ASSUME StartupType, NEW ref \in EventRefs, NEW p \in Resolve(ref)
    PROVE  p \in Nat
<1>1. ref.id \in SUBSET Nat
  BY ExchangeAssumption
<1> QED
  BY <1>1 DEF Resolve, StartupType

\* Alive bits and owners fit the bitmap, whatever ids the events carry.
LEMMA CacheTypeStep ==
    StartupType /\ TasksInv /\ RequestTypes /\ CacheType /\ [Next]_vars => CacheType'
<1> SUFFICES ASSUME StartupType, TasksInv, RequestTypes, CacheType, [Next]_vars PROVE CacheType'
  OBVIOUS
<1> USE DEF CacheType
<1>1. CASE UNCHANGED <<alive, owned, events>>
  BY <1>1 DEF Bits
<1>2. ASSUME NEW p \in Nat, alive' \in {alive, SetBit(alive, p)},
             \A o \in owned' : o \in owned \/ (p < MaxPods /\ o[1] = p),
             events' \in 0 .. MaxEvents
      PROVE  CacheType'
  <2>1. alive' \in SUBSET Bits
    BY <1>2, SetBitType
  <2>2. p < MaxPods => p \in Bits
    BY StartupAssumption DEF Bits
  <2> QED
    BY <1>2, <2>1, <2>2 DEF Bits
<1>3. ASSUME NEW r \in Requests, NEW a \in Answers, Respond(r, a) PROVE CacheType'
  <2> DEFINE p == plan[r].primary
  <2>1. InCatalog(r)
    BY <1>3 DEF Respond, TasksInv, TaskInv, Routed
  <2>2. p \in Nat
    <3>1. PrimaryRole(r) \in Roles /\ p \in bitmap[PrimaryRole(r)]
      BY <2>1 DEF InCatalog, PrimaryRole, Roles
    <3>2. p \in Bits
      BY <3>1 DEF StartupType
    <3> QED
      BY <3>2 DEF Bits
  <2>3. /\ alive' \in {alive, SetBit(alive, p)} /\ events' = events
        /\ owned' \in {owned, owned \cup {<<p, h>> : h \in Range(Chain(plan[r].tokens))}}
        /\ owned' # owned => p < MaxPods
    BY <1>3 DEF Respond
  <2>4. \A o \in owned' : o \in owned \/ (p < MaxPods /\ o[1] = p)
    BY <2>3
  <2> HIDE DEF p
  <2> QED
    BY <1>2, <2>2, <2>3, <2>4
<1>4. ASSUME Event PROVE events' \in 0 .. MaxEvents
  BY <1>4, ExchangeAssumption DEF Event
<1>5. ASSUME NEW ref \in EventRefs, NEW tokens, RegisterEvent(ref, tokens) PROVE CacheType'
  <2>1. PICK p \in Resolve(ref) :
           /\ alive' = SetBit(alive, p)
           /\ owned' = IF p < MaxPods THEN owned \cup {<<p, Last(Chain(tokens))>>} ELSE owned
    BY <1>5 DEF RegisterEvent
  <2>2. p \in Nat
    BY ResolveType
  <2>3. \A o \in owned' : o \in owned \/ (p < MaxPods /\ o[1] = p)
    BY <2>1
  <2> QED
    BY <1>2, <1>4, <1>5, <2>1, <2>2, <2>3 DEF RegisterEvent
<1>6. ASSUME NEW ref \in EventRefs, NEW tokens, EvictEvent(ref, tokens) \/ ShutdownEvent(ref)
      PROVE  CacheType'
  <2>1. alive' \subseteq alive /\ owned' \subseteq owned /\ Event
    BY <1>6 DEF EvictEvent, ShutdownEvent
  <2> QED
    BY <1>4, <2>1 DEF Bits
<1>7. ASSUME NEW p \in PodIds, Poll(p) PROVE CacheType'
  <2>1. p \in Bits
    BY DEF StartupType
  <2>2. alive' \subseteq alive \cup {p} /\ UNCHANGED <<owned, events>>
    BY <1>7 DEF Poll
  <2> QED
    BY <2>1, <2>2 DEF Bits
<1>8. CASE EventRefused
  <2>1. UNCHANGED <<alive, owned>> /\ Event
    BY <1>8 DEF EventRefused
  <2> QED
    BY <1>4, <2>1 DEF Bits
<1>9. \/ UNCHANGED <<alive, owned, events>>
      \/ \E r \in Requests, a \in Answers : Respond(r, a)
      \/ CacheEvent \/ \E p \in PodIds : Poll(p)
  <2>1. ASSUME NEW r \in Requests, Request(r)
        PROVE  UNCHANGED <<alive, owned, events>> \/ \E a \in Answers : Respond(r, a)
    BY <2>1 DEF Request, PrepareFails, Prepare, Route, NoCandidates, Send, ForwardFails
  <2>2. ASSUME UNCHANGED exchange PROVE UNCHANGED <<alive, owned, events>>
    BY <2>2 DEF exchange
  <2> QED
    BY <2>1, <2>2 DEF Next, Start, vars
<1> QED
  BY <1>1, <1>3, <1>5, <1>6, <1>7, <1>8, <1>9 DEF CacheEvent

\* A configured block size of 0 counts as 1.
LEMMA BlockSizeType == BlockSizeOf \in Nat \ {0}
<1> DEFINE c == IF BlockSize > 1 THEN BlockSize ELSE 1
<1>1. BlockSize \in Nat
  BY ExchangeAssumption
<1>2. c \in {BlockSize, 1} /\ \A y \in {BlockSize, 1} : c >= y
  BY <1>1
<1>3. \A x \in {BlockSize, 1} : (\A y \in {BlockSize, 1} : x >= y) => x = c
  BY <1>1
<1> HIDE DEF c
<1>4. BlockSizeOf = c
  BY <1>2, <1>3 DEF BlockSizeOf, Max
<1> QED
  BY <1>1, <1>4 DEF c

\* The chain of a prompt, and the depth that a pod has in it.
LEMMA ChainOf ==
    ASSUME NEW tokens \in Seq(Tokens)
    PROVE  /\ Chain(tokens) \in Seq(HashesOf(Tokens)) /\ Len(Chain(tokens)) \in Nat
           /\ tokens # <<>> => Len(Chain(tokens)) > 0
<1>1. Chain(tokens) \in Seq(HashesOf(Tokens)) /\ (tokens # <<>> => Len(Chain(tokens)) > 0)
  BY BlockSizeType, ChainType DEF Chain
<1> QED
  BY <1>1

LEMMA CacheDepthOf ==
    ASSUME NEW p, NEW tokens \in Seq(Tokens)
    PROVE  LET d == CacheDepth(p, Chain(tokens), owned, alive) IN
           /\ d \in Nat
           /\ d > 0 => d \in 1 .. Len(Chain(tokens)) /\ <<p, Chain(tokens)[d]>> \in owned
<1> DEFINE chain == Chain(tokens)
           d == PrefixDepth(p, chain, owned)
<1>1. Len(chain) \in Nat
  BY ChainOf
<1> HIDE DEF chain
<1>2. Found(p, chain, owned, 0, Len(chain), d)
  BY <1>1, DepthIsABoundary
<1> HIDE DEF d
<1>3. d \in 0 .. Len(chain) /\ (d > 0 => <<p, chain[d]>> \in owned)
  BY <1>1, <1>2 DEF Found
<1>4. d \in Nat /\ (d > 0 => d \in 1 .. Len(chain))
  BY <1>1, <1>3
<1> QED
  BY <1>3, <1>4 DEF CacheDepth, chain, d

\* A request keeps its types, whoever acts.
LEMMA RequestTypesStep ==
    TasksInv /\ CacheType /\ RequestTypes /\ [Next]_vars => RequestTypes'
<1> SUFFICES ASSUME TasksInv, CacheType, RequestTypes, [Next]_vars PROVE RequestTypes'
  OBVIOUS
<1>1. CASE UNCHANGED <<counter, plan, wire, reply>>
  BY <1>1 DEF RequestTypes, RequestType
<1>2. ASSUME NEW r \in Requests, Request(r) PROVE RequestTypes'
  <2>0. RequestType(r) /\ DOMAIN plan[r] = Fields /\ r \in DOMAIN plan
    BY DEF RequestTypes, TasksInv, TaskInv, Tables
  <2>1. \A q \in Requests \ {r} : plan'[q] = plan[q] /\ wire'[q] = wire[q] /\ reply'[q] = reply[q]
    BY <1>2 DEF Request, PrepareFails, Prepare, Route, NoCandidates, Send, ForwardFails, Respond,
       Refuse, TasksInv, Tables
  <2>2. counter' \in Nat \ {0}
    <3>1. counter' \in {counter, counter + 1}
      BY <1>2 DEF Request, PrepareFails, Prepare, CounterNext, Route, NoCandidates, Send, ForwardFails,
         Respond
    <3>2. counter \in Nat \ {0}
      BY DEF RequestTypes
    <3> QED
      BY <3>1, <3>2
  <2>3. ASSUME RequestType(r)' PROVE RequestTypes'
    BY <2>1, <2>2, <2>3 DEF RequestTypes, RequestType
  <2>4. DOMAIN NoHeaders = Names
    BY DEF NoHeaders
  <2>5. CASE Refuse(r)
    <3>1. plan'[r] = NoPlan /\ wire'[r] = NoHeaders
      BY <2>5 DEF Refuse, TasksInv, Tables
    <3>2. reply'[r] = reply[r]
      BY <1>2, <2>5 DEF Request, PrepareFails, Prepare, Route, NoCandidates, Send, ForwardFails,
         Respond, Refuse, Goto, TasksInv, Tables
    <3>3. /\ NoPlan.tokens = <<>> /\ NoPlan.primary = None /\ NoPlan.decode = None /\ NoPlan.depth = 0
      BY DEF NoPlan
    <3> QED
      BY <2>0, <2>3, <2>4, <3>1, <3>2, <3>3, EmptySeq DEF RequestType, Ids
  <2>6. ASSUME NEW in \in Inputs, NEW nanos \in 0 .. MaxNanos, Prepare(r, in, nanos)
        PROVE  RequestTypes'
    <3>1. /\ plan'[r].tokens = Extract(in.kind, in.body) /\ plan'[r].primary = plan[r].primary
          /\ plan'[r].decode = plan[r].decode /\ plan'[r].depth = plan[r].depth
          /\ wire' = wire /\ reply' = reply
      BY <2>0, <2>6 DEF Prepare, Fields
    <3>2. in.body \in Bodies(Tokens)
      BY ExchangeAssumption
    <3>3. Extract(in.kind, in.body) \in Seq(Tokens)
      BY <3>2, ExtractType
    <3> QED
      BY <2>0, <2>3, <3>1, <3>3 DEF RequestType
  <2>7. ASSUME NEW p \in alive, NEW d \in alive \cup {None}, Route(r, p, d), ~Refuse(r)
        PROVE  RequestTypes'
    <3>1. /\ plan'[r].primary = p /\ plan'[r].decode = d /\ plan'[r].tokens = plan[r].tokens
          /\ plan'[r].depth = CacheDepth(p, Chain(plan[r].tokens), owned, alive)
      BY <2>7, RouteFields
    <3>2. wire' = wire /\ reply' = reply
      BY <2>7 DEF Route
    <3>3. p \in Ids /\ d \in Ids
      BY DEF CacheType, Bits, Ids
    <3>4. plan[r].tokens \in Seq(Tokens)
      BY <2>0 DEF RequestType
    <3>5. CacheDepth(p, Chain(plan[r].tokens), owned, alive) \in Nat
      BY <3>4, CacheDepthOf
    <3> QED
      BY <2>0, <2>3, <3>1, <3>2, <3>3, <3>5 DEF RequestType
  <2>8. CASE Send(r)
    <3>1. plan' = plan /\ reply' = reply /\ DOMAIN wire'[r] = Names
      BY <2>8 DEF Send, BuildRequest, TasksInv, Tables
    <3> QED
      BY <2>0, <2>3, <3>1 DEF RequestType
  <2>9. ASSUME NEW a \in Answers, Respond(r, a) PROVE RequestTypes'
    <3>1. plan' = plan /\ wire' = wire /\ DOMAIN reply'[r] = Names
      BY <2>9 DEF Respond, ResponseHeaders, TasksInv, Tables
    <3> QED
      BY <2>0, <2>3, <3>1 DEF RequestType
  <2> QED
    BY <1>2, <2>5, <2>6, <2>7, <2>8, <2>9 DEF Request, PrepareFails, NoCandidates, ForwardFails
<1>3. UNCHANGED <<counter, plan, wire, reply>> \/ \E r \in Requests : Request(r)
  BY DEF Next, Start, vars, exchange, CacheEvent, EventRefused, ShutdownEvent, RegisterEvent,
     EvictEvent, Event, Poll
<1> QED
  BY <1>1, <1>2, <1>3

TypesInv == StartupType /\ CacheType /\ RequestTypes

THEOREM TypesHold == Spec => []TypesInv
<1>1. Init => TypesInv
  <2> SUFFICES ASSUME Init PROVE TypesInv
    OBVIOUS
  <2>1. StartupType
    BY StartupAssumption DEF Init, StartupInit, StartupType, PodIds, Phases, Roles
  <2>2. CacheType
    BY ExchangeAssumption DEF Init, CacheType
  <2>3. /\ NoPlan.tokens = <<>> /\ NoPlan.primary = None /\ NoPlan.decode = None /\ NoPlan.depth = 0
        /\ DOMAIN NoHeaders = Names
    BY DEF NoPlan, NoHeaders
  <2>4. RequestTypes
    <3>1. \A r \in Requests : plan[r] = NoPlan /\ wire[r] = NoHeaders /\ reply[r] = NoHeaders
      BY DEF Init
    <3>2. NoPlan.tokens \in Seq(Tokens)
      BY <2>3
    <3>3. \A r \in Requests : RequestType(r)
      <4>1. NoPlan.primary \in Ids /\ NoPlan.decode \in Ids /\ NoPlan.depth \in Nat
        BY <2>3 DEF Ids
      <4> QED
        BY <2>3, <3>1, <3>2, <4>1 DEF RequestType
    <3> QED
      BY <3>3 DEF Init, RequestTypes
  <2> QED
    BY <2>1, <2>2, <2>4 DEF TypesInv
<1>2. CatalogInv /\ TasksInv /\ TypesInv /\ [Next]_vars => TypesInv'
  BY StartupTypeStep, CacheTypeStep, RequestTypesStep DEF TypesInv
<1> QED
  BY <1>1, <1>2, CatalogHolds, TasksHold, PTL DEF Spec

\* Every variable keeps its type in every behaviour, with any configuration,
\* events and requests: a depth is a number whatever the index holds, and no
\* event sets a bit or an owner beyond MAX_PODS.
THEOREM TypeHolds == Spec => []TypeOK
<1>1. TypesInv /\ TasksInv => TypeOK
  BY DEF TypesInv, TasksInv, Tables, TaskInv, StartupType, CacheType, RequestTypes, RequestType,
     TypeOK, Bits
<1> QED
  BY <1>1, TypesHold, TasksHold, PTL

\* The streaming chain of every request is its batch chain, whatever its
\* prompt is and for every block size.
THEOREM ChainHolds == Spec => []ChainIsBatch
<1>1. TypesInv => ChainIsBatch
  <2> SUFFICES ASSUME TypesInv, NEW r \in Requests, NEW size \in 1 .. Len(plan[r].tokens) + 1
               PROVE  Streaming(plan[r].tokens, size) = CumulativeFromBlocks(Chunks(plan[r].tokens, size))
    BY DEF ChainIsBatch
  <2>1. plan[r].tokens \in Seq(Tokens)
    BY DEF TypesInv, RequestTypes, RequestType
  <2>2. size \in Nat \ {0}
    BY <2>1
  <2> QED
    BY <2>1, <2>2, StreamingIsBatch
<1> QED
  BY <1>1, TypesHold, PTL

-----------------------------------------------------------------------------
(* The cache.  The index knows hashes only; what makes a hit honest is that *)
(* every hash it holds is one of the chain of a prompt the pod was said to  *)
(* hold, and that a hash determines the tokens up to its block.             *)

InChain(tokens, hash) ==
    /\ tokens \in Seq(Tokens)
    /\ \E i \in 1 .. Len(Chain(tokens)) : hash = Chain(tokens)[i]

OwnedLearned == \A o \in owned : \E t \in taught : t[1] = o[1] /\ InChain(t[2], o[2])

\* The body of HitIsLearned, for one request.
Learned(r) ==
    plan[r].depth > 0 =>
        LET n == Min({plan[r].depth * BlockSizeOf, Len(plan[r].tokens)}) IN
        \E t \in taught : t[1] = plan[r].primary /\ IsPrefix(SubSeq(plan[r].tokens, 1, n), t[2])

LearnedInv == OwnedLearned /\ \A r \in Requests : Routed(r) => Learned(r)

\* The query finds a depth for the plan: the block at that depth is owned,
\* so some prompt that was taught begins with the same tokens.
LEMMA RouteLearned ==
    ASSUME TasksInv, RequestTypes, OwnedLearned, NEW r \in Requests, NEW p, NEW d,
           Route(r, p, d), ~Refuse(r)
    PROVE  Learned(r)'
<1> DEFINE s == plan[r].tokens
           depth == CacheDepth(p, Chain(s), owned, alive)
<1>1. /\ plan'[r].primary = p /\ plan'[r].tokens = s /\ plan'[r].depth = depth /\ taught' = taught
  BY RouteFields DEF Route
<1>2. s \in Seq(Tokens)
  BY DEF RequestTypes, RequestType
<1>3. depth > 0 => depth \in 1 .. Len(Chain(s)) /\ <<p, Chain(s)[depth]>> \in owned
  BY <1>2, CacheDepthOf
<1> HIDE DEF s, depth
<1>4. ASSUME depth > 0
      PROVE  \E t \in taught : t[1] = p /\ IsPrefix(SubSeq(s, 1, Min({depth * BlockSizeOf, Len(s)})), t[2])
  <2>1. PICK t \in taught : t[1] = p /\ InChain(t[2], Chain(s)[depth])
    BY <1>3, <1>4 DEF OwnedLearned
  <2>2. PICK u \in Seq(Tokens) : u = t[2]
    BY <2>1 DEF InChain
  <2>3. PICK i \in 1 .. Len(Chain(u)) : Chain(s)[depth] = Chain(u)[i]
    BY <2>1, <2>2 DEF InChain
  <2>4. PICK j \in 1 .. Len(Chain(s)) : j = depth
    BY <1>3, <1>4
  <2>5. Chain(s)[j] = Chain(u)[i]
    BY <2>3, <2>4
  <2>6. IsPrefix(SubSeq(s, 1, Min({j * BlockSizeOf, Len(s)})), u)
    BY <1>2, <2>5, BlockSizeType, SameHash DEF Chain
  <2> QED
    BY <2>1, <2>2, <2>4, <2>6
<1> QED
  BY <1>1, <1>4 DEF Learned

\* What was learned stays learned while the request keeps its plan: entries
\* may be evicted, what was taught is history.
LEMMA LearnedStays ==
    ASSUME NEW r \in Requests, Learned(r), plan'[r] = plan[r], taught \subseteq taught'
    PROVE  Learned(r)'
  BY DEF Learned

LEMMA LearnedStep ==
    TypesInv /\ TasksInv /\ LearnedInv /\ [Next]_vars => LearnedInv'
<1> SUFFICES ASSUME TypesInv, TasksInv, LearnedInv, [Next]_vars PROVE LearnedInv'
  OBVIOUS
<1>0. OwnedLearned /\ RequestTypes
  BY DEF LearnedInv, TypesInv
<1>1. ASSUME taught \subseteq taught',
             \A o \in owned' : o \in owned \/ \E t \in taught' : t[1] = o[1] /\ InChain(t[2], o[2])
      PROVE  OwnedLearned'
  BY <1>0, <1>1 DEF OwnedLearned
<1>2. ASSUME UNCHANGED <<pc, plan>>, taught \subseteq taught', OwnedLearned' PROVE LearnedInv'
  BY <1>2, LearnedStays DEF LearnedInv, Routed
<1>3. CASE UNCHANGED <<owned, taught, pc, plan>>
  BY <1>0, <1>2, <1>3 DEF OwnedLearned
<1>4. ASSUME NEW r \in Requests, Request(r), UNCHANGED <<owned, taught>> PROVE LearnedInv'
  <2>1. /\ \A q \in Requests \ {r} : pc'[q] = pc[q] /\ plan'[q] = plan[q]
    BY <1>4 DEF Request, PrepareFails, Prepare, Route, NoCandidates, Send, ForwardFails, Respond,
       Refuse, Goto, TasksInv, Tables
  <2>2. OwnedLearned'
    BY <1>0, <1>4 DEF OwnedLearned
  <2>3. \A q \in Requests \ {r} : Routed(q)' => Learned(q)'
    BY <1>4, <2>1, LearnedStays DEF LearnedInv, Routed
  <2>4. Routed(r)' => Learned(r)'
    <3>1. CASE ~Routed(r)'
      BY <3>1
    <3>2. ASSUME NEW p, NEW d, Route(r, p, d), ~Refuse(r) PROVE Learned(r)'
      BY <1>0, <3>2, RouteLearned
    <3>3. CASE Send(r) \/ \E a \in Answers : Respond(r, a)
      <4>1. Routed(r) /\ plan' = plan
        BY <3>3 DEF Send, Respond, Routed
      <4> QED
        BY <1>4, <4>1, LearnedStays DEF LearnedInv
    <3>4. ASSUME Refuse(r) \/ \E in \in Inputs, nanos \in 0 .. MaxNanos : Prepare(r, in, nanos)
          PROVE  ~Routed(r)'
      BY <3>4 DEF Refuse, Prepare, Goto, Routed, TasksInv, Tables
    <3> QED
      BY <1>4, <3>1, <3>2, <3>3, <3>4 DEF Request, PrepareFails, NoCandidates, ForwardFails
  <2> QED
    BY <2>2, <2>3, <2>4 DEF LearnedInv
<1>5. ASSUME NEW r \in Requests, NEW a \in Answers, Respond(r, a) PROVE LearnedInv'
  <2> DEFINE p == plan[r].primary
             s == plan[r].tokens
             said == <<p, s, plan[r].model, plan[r].sent>>
  <2>1. s \in Seq(Tokens)
    BY <1>0 DEF RequestTypes, RequestType
  <2>2. \/ UNCHANGED <<owned, taught>>
        \/ /\ taught' = taught \cup {said}
           /\ owned' \in {owned, owned \cup {<<p, h>> : h \in Range(Chain(s))}}
    BY <1>5 DEF Respond
  <2>3. ASSUME NEW h \in Range(Chain(s)) PROVE InChain(s, h)
    <3>1. PICK i \in DOMAIN Chain(s) : h = Chain(s)[i]
      BY DEF Range
    <3>2. i \in 1 .. Len(Chain(s))
      BY <2>1, ChainOf
    <3> QED
      BY <2>1, <3>1, <3>2 DEF InChain
  <2>4. plan' = plan /\ pc[r] = "sent" /\ pc' = [pc EXCEPT ![r] = "answered"]
    BY <1>5 DEF Respond, Goto
  <2>a. said[1] = p /\ said[2] = s
    OBVIOUS
  <2> HIDE DEF p, s, said
  <2>5. taught \subseteq taught'
    BY <2>2
  <2>6. OwnedLearned'
    <3>1. ASSUME NEW o \in owned'
          PROVE  o \in owned \/ \E t \in taught' : t[1] = o[1] /\ InChain(t[2], o[2])
      <4>1. CASE o \notin owned
        <5>1. said \in taught' /\ \E h \in Range(Chain(s)) : o = <<p, h>>
          BY <2>2, <4>1
        <5>2. PICK h \in Range(Chain(s)) : o = <<p, h>>
          BY <5>1
        <5>3. o[1] = p /\ InChain(s, o[2])
          BY <2>3, <5>2
        <5> QED
          BY <2>a, <5>1, <5>3
      <4> QED
        BY <4>1
    <3> QED
      BY <1>1, <2>5, <3>1
  <2>7. \A q \in Requests : Routed(q)' => Routed(q)
    BY <2>4 DEF Routed, TasksInv, Tables
  <2> QED
    BY <2>4, <2>5, <2>6, <2>7, LearnedStays DEF LearnedInv
<1>6. ASSUME NEW ref \in EventRefs, NEW s \in Prompts, RegisterEvent(ref, s) PROVE LearnedInv'
  <2>1. PICK p : /\ owned' \in {owned, owned \cup {<<p, Last(Chain(s))>>}}
                 /\ taught' = taught \cup {<<p, s, "any", s>>}
    BY <1>6 DEF RegisterEvent
  <2>2. InChain(s, Last(Chain(s)))
    <3>1. PICK in \in Inputs : s = Extract(in.kind, in.body)
      BY DEF Prompts
    <3>2. in.body \in Bodies(Tokens)
      BY ExchangeAssumption
    <3>3. s \in Seq(Tokens) /\ s # <<>>
      BY <3>1, <3>2, ExtractType DEF Prompts
    <3>4. Len(Chain(s)) \in Nat /\ Len(Chain(s)) > 0
      BY <3>3, ChainOf
    <3> QED
      BY <3>3, <3>4 DEF InChain, Last
  <2>3. taught \subseteq taught' /\ UNCHANGED <<pc, plan>>
    BY <1>6, <2>1 DEF RegisterEvent, Event
  <2>4. ASSUME NEW o \in owned'
        PROVE  o \in owned \/ \E t \in taught' : t[1] = o[1] /\ InChain(t[2], o[2])
    <3>1. CASE o = <<p, Last(Chain(s))>>
      <4> DEFINE said == <<p, s, "any", s>>
      <4>1. said \in taught' /\ said[1] = o[1] /\ InChain(said[2], o[2])
        BY <2>1, <2>2, <3>1
      <4> QED
        BY <4>1
    <3> QED
      BY <2>1, <3>1
  <2>5. OwnedLearned'
    BY <1>1, <2>3, <2>4
  <2> QED
    BY <1>2, <2>3, <2>5
<1>7. ASSUME NEW ref, NEW s, EvictEvent(ref, s) PROVE LearnedInv'
  <2>1. owned' \subseteq owned /\ UNCHANGED <<pc, plan, taught>>
    BY <1>7 DEF EvictEvent, Event
  <2>2. OwnedLearned'
    BY <1>1, <2>1
  <2> QED
    BY <1>2, <2>1, <2>2
<1>8. \/ UNCHANGED <<owned, taught, pc, plan>>
      \/ \E r \in Requests : Request(r) /\ UNCHANGED <<owned, taught>>
      \/ \E r \in Requests, a \in Answers : Respond(r, a)
      \/ \E ref \in EventRefs, s \in Prompts : RegisterEvent(ref, s) \/ EvictEvent(ref, s)
  <2>1. ASSUME NEW r \in Requests, Request(r)
        PROVE  UNCHANGED <<owned, taught>> \/ \E a \in Answers : Respond(r, a)
    BY <2>1 DEF Request, PrepareFails, Prepare, Route, NoCandidates, Send, ForwardFails
  <2>2. ASSUME UNCHANGED exchange PROVE UNCHANGED <<owned, taught, pc, plan>>
    BY <2>2 DEF exchange
  <2>3. CASE CacheEvent
    BY <2>3 DEF CacheEvent, EventRefused, ShutdownEvent, Event
  <2>4. ASSUME NEW p, Poll(p) PROVE UNCHANGED <<owned, taught, pc, plan>>
    BY <2>4 DEF Poll
  <2> QED
    BY <2>1, <2>2, <2>3, <2>4 DEF Next, Start, vars
<1> QED
  BY <1>3, <1>4, <1>5, <1>6, <1>7, <1>8

\* Every cache hit is earned: whatever is registered, evicted, restarted and
\* answered in between, a pod is routed to by a prefix depth only when it was
\* said to hold a prompt that starts with those tokens.
THEOREM HitHolds == Spec => []HitIsLearned
<1>1. Init => LearnedInv
  BY DEF Init, LearnedInv, OwnedLearned, Routed
<1>2. LearnedInv => HitIsLearned
  BY DEF LearnedInv, Learned, HitIsLearned
<1> QED
  BY <1>1, <1>2, LearnedStep, TypesHold, TasksHold, PTL DEF Spec
=============================================================================
