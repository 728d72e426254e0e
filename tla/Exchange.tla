------------------------------ MODULE Exchange ------------------------------
(***************************************************************************)
(* What passes through a started gateway: the request of a client, the     *)
(* plan made for it, the request the pod gets and the answer the client    *)
(* gets, with the headers of each; and the events of the pods, with the    *)
(* names they call themselves by.                                          *)
(*                                                                         *)
(* Gateway has the steps of a request that race with each other.  Here a   *)
(* request is routed and accounted for in one step each.  Any candidate    *)
(* may be picked, so what only the load filter and the scores read (the    *)
(* in-flight counts, the sticky sessions) is not kept: it is Gateway's.    *)
(* The poller sets and clears the bits of the pods it can check.           *)
(***************************************************************************)
EXTENDS Startup, Prompt, PrefixDepth

CONSTANTS Requests,   \* requests of one behaviour
          Inputs,     \* what clients send
          Answers,    \* what pods answer
          EventRefs,  \* how events name their pod
          Tokens,     \* the words of prompts
          Values,     \* the header values clients and pods send
          BlockSize,  \* RoutingPipeline::block_size (4)
          HttpUrls,   \* the addresses parse_http_url accepts
          MaxNanos,   \* bound: the clock shows 0 .. MaxNanos, in any order
          MaxEvents   \* bound: how many events arrive

-----------------------------------------------------------------------------
(* Headers: a sequence of values for each name.  A value is a pair of what *)
(* kind of text it is and which one.                                       *)

OwnedHeaders == {"request-id", "mode", "target", "prefill", "decode", "cache-hit",
                 "prefix-depth", "namespace", "policy"}
Names == OwnedHeaders \cup {"session-key", "host", "content-length", "connection", "user"}

\* Names that start with x-calinix-.
CalinixNames == OwnedHeaders \cup {"session-key"}
SetByForwarder == {"host", "content-length", "connection"}
HopByHop == {"connection", "content-length"}

Text(kind) == <<kind, 0>>
PodText(p) == <<"pod", p>>
NoHeaders == [n \in Names |-> <<>>]
Kinds == {"chat", "completions", "embeddings", "unknown"}

ASSUME ExchangeAssumption ==
    /\ \A in \in Inputs : /\ DOMAIN in = {"kind", "body", "headers"}
                          /\ in.kind \in Kinds
                          /\ in.body \in Bodies(Tokens)
                          /\ in.headers \in [Names -> Seq(Values)]
    /\ Answers \subseteq [success : BOOLEAN, headers : [Names -> Seq(Values)]]
    /\ EventRefs \subseteq [id : SUBSET Nat, names : Seq(STRING)]
    /\ BlockSize \in Nat /\ MaxNanos \in Nat /\ MaxEvents \in Nat

VARIABLES alive,    \* the alive bitmap
          owned,    \* which pod owns which cumulative hash
          counter,  \* REQUEST_COUNTER
          pc,       \* per request: the step it is at
          plan,     \* per request: its context and plan
          wire,     \* per request: the headers made for its pod
          reply,    \* per request: the headers of the client's answer
          events,   \* how many events have arrived
          taught    \* history: what each pod was said to hold: the prompt the
                    \* gateway hashed, its model, and the prompt that was sent

exchange == <<alive, owned, counter, pc, plan, wire, reply, events, taught>>
vars == <<startup, exchange>>

None == -1

\* client: the headers of the client; id: the request id; tokens: the prompt
\* that is hashed; sent: the one in the body, which is forwarded unread.
NoPlan == [client |-> NoHeaders, id |-> Text("none"), mode |-> "single", tokens |-> <<>>,
           sent |-> <<>>, model |-> "unknown", primary |-> None, decode |-> None, depth |-> 0]

Init ==
    /\ StartupInit
    /\ alive = {}
    /\ owned = {}
    /\ counter = 1
    /\ pc = [r \in Requests |-> "new"]
    /\ plan = [r \in Requests |-> NoPlan]
    /\ wire = [r \in Requests |-> NoHeaders]
    /\ reply = [r \in Requests |-> NoHeaders]
    /\ events = 0
    /\ taught = {}

Goto(r, label) == pc' = [pc EXCEPT ![r] = label]

\* The request is answered with an error of the gateway.
Refuse(r) == /\ Goto(r, "end")
             /\ plan' = [plan EXCEPT ![r] = NoPlan]
             /\ wire' = [wire EXCEPT ![r] = NoHeaders]

-----------------------------------------------------------------------------
(* PrepareStage.                                                           *)

\* requested_mode: the first value counts; its case and white space do not.
InvalidMode(h) ==
    h["mode"] # <<>> /\ Head(h["mode"]) \notin {Text(m) : m \in {"single", "disaggregated", "dispatch"}}

RequestedMode(h) ==
    IF h["mode"] = <<>> \/ Head(h["mode"]) = Text("single") THEN "single" ELSE "disaggregated"

\* An id that is empty or not ASCII counts as none.
ClientId(h) == /\ h["request-id"] # <<>>
               /\ Head(h["request-id"]) \notin {Text("empty"), Text("opaque")}

\* Mutant: the counter is read and not raised.
CounterLoad(h) == counter

\* fetch_add, when the client sent no id.
CounterNext(h) == IF ClientId(h) THEN counter ELSE counter + 1

RequestId(h, nanos) == IF ClientId(h) THEN Head(h["request-id"])
                       ELSE <<"calinix", <<nanos, counter>>>>

Model(in) == IF in.kind = "unknown" THEN "unknown" ELSE in.body.model

\* The body cannot be read, or the stage refuses it or the mode: 400.
Refused(in) == \/ in.body.json = "unread"
               \/ ExtractFails(in.kind, in.body)
               \/ InvalidMode(in.headers)

Prepare(r, in, nanos) ==
    /\ phase = "serving"
    /\ pc[r] = "new"
    /\ ~Refused(in)
    /\ plan' = [plan EXCEPT ![r] = [@ EXCEPT
                  !.client = in.headers,
                  !.id = RequestId(in.headers, nanos),
                  !.mode = RequestedMode(in.headers),
                  !.tokens = Extract(in.kind, in.body),
                  !.sent = AsSent(in.body),
                  !.model = Model(in)]]
    /\ counter' = CounterNext(in.headers)
    /\ Goto(r, "route")
    /\ UNCHANGED <<startup, alive, owned, wire, reply, events, taught>>

PrepareFails(r, in) ==
    /\ phase = "serving"
    /\ pc[r] = "new"
    /\ Refused(in)
    /\ Refuse(r)
    /\ UNCHANGED <<startup, alive, owned, counter, reply, events, taught>>

-----------------------------------------------------------------------------
(* The plan, its headers, and inject_routing_headers.                      *)

BlockSizeOf == Max({BlockSize, 1})
Chain(tokens) == Streaming(tokens, BlockSizeOf)

\* Mutant: capabilities decide and the group of the pod does not.
AliveCandidates(role) ==
    {p \in alive : HasPod(p) /\ Pod(p).serving /\ role \in Pod(p).capabilities}

\* eligible_candidates, of which some may be at their max_conns.
Candidates(role) ==
    {p \in bitmap[role] \cap alive :
        HasPod(p) /\ Pod(p).serving /\ role \in Pod(p).capabilities}

PrimaryRole(r) == IF plan[r].mode = "single" THEN "single" ELSE "prefill"

RoutingHeaders(p) ==
    [n \in OwnedHeaders \ (IF p.mode = "single" THEN {"prefill", "decode"} ELSE {"target"}) |->
        CASE n = "request-id"   -> p.id
          [] n = "mode"         -> Text(p.mode)
          [] n \in {"target", "prefill"} -> PodText(p.primary)
          [] n = "decode"       -> PodText(p.decode)
          [] n = "cache-hit"    -> Text(IF p.depth > 0 THEN "true" ELSE "false")
          [] n = "prefix-depth" -> <<"depth", p.depth>>
          [] n = "namespace"    -> <<"namespace", p.model>>
          [] n = "policy"       -> Text("default")]

\* Mutant: headers are overwritten and none is removed.
InsertOnly(headers, values) ==
    [n \in Names |-> IF n \in DOMAIN values THEN <<values[n]>> ELSE headers[n]]

\* All owned headers are removed first, then those of the plan inserted.
Inject(headers, values) ==
    [n \in Names |-> IF n \in DOMAIN values THEN <<values[n]>>
                     ELSE IF n \in OwnedHeaders THEN <<>> ELSE headers[n]]

ForwardingHeaders(p) == Inject(p.client, RoutingHeaders(p))

\* validate: there is a request id, and the pod ids are those of the mode.
Validate(values) ==
    /\ values["request-id"] # Text("empty")
    /\ {"target", "prefill", "decode"} \cap DOMAIN values =
          IF values["mode"] = Text("single") THEN {"target"} ELSE {"prefill", "decode"}

\* HeaderValue::from_str refuses a namespace with a control character in it.
Printable(model) == model # "unprintable"

Injects(p) == Validate(RoutingHeaders(p)) /\ Printable(p.model)

\* MissingPod, and an inject that fails, also end the request.
Route(r, p, d) ==
    LET routed == [plan[r] EXCEPT
                     !.primary = p, !.decode = d,
                     !.depth = CacheDepth(p, Chain(plan[r].tokens), owned, alive)]
    IN
    /\ pc[r] = "route"
    /\ p \in Candidates(PrimaryRole(r))
    /\ IF plan[r].mode = "single" THEN d = None ELSE d \in Candidates("decode")
    /\ \/ /\ HasPod(p) /\ Injects(routed)
          /\ plan' = [plan EXCEPT ![r] = routed]
          /\ Goto(r, "send")
          /\ UNCHANGED wire
       \/ /\ ~(HasPod(p) /\ Injects(routed))
          /\ Refuse(r)
    /\ UNCHANGED <<startup, alive, owned, counter, reply, events, taught>>

\* NoCandidates: the candidates may all be at their max_conns.
NoCandidates(r) ==
    /\ pc[r] = "route"
    /\ Refuse(r)
    /\ UNCHANGED <<startup, alive, owned, counter, reply, events, taught>>

-----------------------------------------------------------------------------
(* HttpForwarder.                                                          *)

\* headers_for_attempt names the pod of the attempt once more.
AttemptHeaders(p) ==
    [ForwardingHeaders(p) EXCEPT
        ![IF p.mode = "single" THEN "target" ELSE "prefill"] = <<PodText(p.primary)>>]

\* build_request sets three headers itself and copies the others with insert,
\* which keeps the last value of a name.
BuildRequest(headers, address) ==
    [n \in Names |-> CASE n = "host" -> <<<<"address", address>>>>
                       [] n = "content-length" -> <<Text("length")>>
                       [] n = "connection" -> <<Text("close")>>
                       [] OTHER -> IF headers[n] = <<>> THEN <<>> ELSE <<Last(headers[n])>>]

\* parse_http_url accepts the address, of the forwarder and of the poller.
HttpAddress(p) == Pod(p).address \in HttpUrls

\* The pod has a counter to be tracked by.
CanForward(p) == p < loads /\ HttpAddress(p)

Send(r) ==
    /\ pc[r] = "send"
    /\ CanForward(plan[r].primary)
    /\ wire' = [wire EXCEPT ![r] = BuildRequest(AttemptHeaders(plan[r]), Pod(plan[r].primary).address)]
    /\ Goto(r, "sent")
    /\ UNCHANGED <<startup, alive, owned, counter, plan, reply, events, taught>>

\* The body is above what the handler's Bytes extractor takes (413), although
\* route_openai_request reads any; or the attempt fails, before or after the
\* request is sent, or times out (502).
ForwardFails(r) ==
    /\ pc[r] \in {"send", "sent"}
    /\ Refuse(r)
    /\ UNCHANGED <<startup, alive, owned, counter, reply, events, taught>>

\* The pod's headers without those of the connection, then the gateway's own.
ResponseHeaders(p, upstream) ==
    [n \in Names |-> (IF n \in HopByHop THEN <<>> ELSE upstream[n])
                     \o (IF n \in CalinixNames THEN ForwardingHeaders(p)[n] ELSE <<>>)]

\* A success is accounted for before the answer goes out.
Respond(r, a) ==
    LET p == plan[r].primary IN
    /\ pc[r] = "sent"
    /\ reply' = [reply EXCEPT ![r] = ResponseHeaders(plan[r], a.headers)]
    /\ alive' = IF a.success THEN SetBit(alive, p) ELSE alive
    /\ owned' = IF a.success /\ p < MaxPods
                THEN owned \cup {<<p, h>> : h \in Range(Chain(plan[r].tokens))} ELSE owned
    /\ taught' = IF a.success
                 THEN taught \cup {<<p, plan[r].tokens, plan[r].model, plan[r].sent>>} ELSE taught
    /\ Goto(r, "answered")
    /\ UNCHANGED <<startup, counter, plan, wire, events>>

-----------------------------------------------------------------------------
(* Events, and the poller.                                                 *)

\* resolve_event_pod_id: an id as it is, or the id of the first name given.
\* The empty set stands for the error.
Resolve(ref) ==
    IF ref.id # {} THEN ref.id
    ELSE {byExternalId[e] : e \in {n \in DOMAIN byExternalId : IsPrefix(<<n>>, ref.names)}}

Event == /\ phase = "serving"
         /\ events < MaxEvents
         /\ events' = events + 1
         /\ UNCHANGED <<startup, counter, pc, plan, wire, reply>>

\* The hash an event names is that of some prompt; it names no model.
RegisterEvent(ref, tokens) ==
    /\ Event
    /\ \E p \in Resolve(ref) :
          /\ alive' = SetBit(alive, p)
          /\ owned' = IF p < MaxPods THEN owned \cup {<<p, Last(Chain(tokens))>>} ELSE owned
          /\ taught' = taught \cup {<<p, tokens, "any", tokens>>}

EvictEvent(ref, tokens) ==
    /\ Event
    /\ \E p \in Resolve(ref) : owned' = owned \ {<<p, Last(Chain(tokens))>>}
    /\ UNCHANGED <<alive, taught>>

ShutdownEvent(ref) ==
    /\ Event
    /\ \E p \in Resolve(ref) : alive' = alive \ {p}
    /\ UNCHANGED <<owned, taught>>

\* The pod is not resolved, or the hash is missing: 400.
EventRefused == Event /\ UNCHANGED <<alive, owned, taught>>

\* A pod whose address is no http:// URL fails every check.
Poll(p) ==
    /\ phase = "serving"
    /\ \/ HttpAddress(p) /\ alive' = alive \cup {p}
       \/ alive' = alive \ {p}
    /\ UNCHANGED <<startup, owned, counter, pc, plan, wire, reply, events, taught>>

-----------------------------------------------------------------------------
Prompts == {Extract(in.kind, in.body) : in \in Inputs} \ {<<>>}

Request(r) ==
    \/ \E in \in Inputs : PrepareFails(r, in) \/ \E nanos \in 0 .. MaxNanos : Prepare(r, in, nanos)
    \/ \E p \in alive, d \in alive \cup {None} : Route(r, p, d)
    \/ NoCandidates(r) \/ Send(r) \/ ForwardFails(r)
    \/ \E a \in Answers : Respond(r, a)

CacheEvent ==
    \/ EventRefused
    \/ \E ref \in EventRefs :
          ShutdownEvent(ref) \/ \E tokens \in Prompts : RegisterEvent(ref, tokens) \/ EvictEvent(ref, tokens)

Start == Startup /\ UNCHANGED exchange

Next == \/ Start
        \/ \E r \in Requests : Request(r)
        \/ CacheEvent
        \/ \E p \in PodIds : Poll(p)

Spec == Init /\ [][Next]_vars

-----------------------------------------------------------------------------
(* Properties.                                                             *)

Phases == {"load", "build", "route", "bind", "serving", "failed", "panicked"}
Steps == {"new", "route", "send", "sent", "answered", "end"}
Ids == Nat \cup {None}

\* Every variable has the type of its Rust counterpart; the bits of the alive
\* bitmap and the owners of blocks are below MAX_PODS although the ids that
\* events carry are not checked.
TypeOK ==
    /\ config \in Configs /\ phase \in Phases /\ loads \in Nat
    /\ \A p \in PodIds : p \in 0 .. MaxPods - 1
    /\ \A e \in DOMAIN byExternalId : byExternalId[e] \in Nat
    /\ bitmap \in [Roles -> SUBSET (0 .. MaxPods - 1)]
    /\ alive \subseteq 0 .. MaxPods - 1
    /\ \A o \in owned : o[1] \in 0 .. MaxPods - 1
    /\ counter \in Nat \ {0}
    /\ pc \in [Requests -> Steps]
    /\ \A r \in Requests :
          /\ plan[r].mode \in {"single", "disaggregated"}
          /\ plan[r].tokens \in Seq(Tokens)
          /\ plan[r].primary \in Ids /\ plan[r].decode \in Ids /\ plan[r].depth \in Nat
          /\ DOMAIN wire[r] = Names /\ DOMAIN reply[r] = Names
    /\ events \in 0 .. MaxEvents

Routed(r) == pc[r] \in {"send", "sent", "answered"}
Upstream(r) == pc[r] \in {"sent", "answered"}

\* A plan names pods of the configuration and of the right groups, with a
\* counter to track them by, and no pod twice: alive bits that events set for
\* ids nobody configured never reach it.
RoutedInCatalog ==
    \A r \in Requests : Routed(r) =>
        LET p == plan[r].primary
            d == plan[r].decode
        IN /\ p \in bitmap[PrimaryRole(r)] /\ HasPod(p) /\ p < loads
           /\ IF plan[r].mode = "single" THEN d = None
              ELSE d \in bitmap["decode"] /\ HasPod(d) /\ d # p

\* What the pod learns from its request: its own id under the header of the
\* mode; the decode pod in disaggregated mode only; a hit exactly when the
\* depth is above 0; the model that was asked for; each owned header once.
PodIsTold(r) ==
    LET w == wire[r]
        p == plan[r].primary
    IN /\ \A n \in OwnedHeaders : Len(w[n]) <= 1
       /\ \/ /\ w["mode"] = <<Text("single")>> /\ w["target"] = <<PodText(p)>>
             /\ w["prefill"] = <<>> /\ w["decode"] = <<>>
          \/ /\ w["mode"] = <<Text("disaggregated")>> /\ w["target"] = <<>>
             /\ w["prefill"] = <<PodText(p)>>
             /\ \E d \in bitmap["decode"] : w["decode"] = <<PodText(d)>>
       /\ w["cache-hit"] = <<Text(IF w["prefix-depth"][1][2] > 0 THEN "true" ELSE "false")>>
       /\ w["namespace"] = <<<<"namespace", plan[r].model>>>>
       /\ w["policy"] = <<Text("default")>>

\* The last value of a header that the client finds in its answer is the one
\* the pod was sent, whatever the pod answered.
ClientIsTold(r) ==
    \A n \in OwnedHeaders : wire[r][n] # <<>> => Last(reply[r][n]) = Last(wire[r][n])

\* The routing headers say what was decided, to the pod and to the client,
\* whatever x-calinix headers the client sent and the pod answered.
RoutingHeadersTrue ==
    \A r \in Requests : /\ Upstream(r) => PodIsTold(r)
                        /\ pc[r] = "answered" => ClientIsTold(r)

Prepared(r) == pc[r] \notin {"new", "end"}

\* An id that the client sent is kept; two requests without one never get the
\* same id, also when the clock stands still or is set back between them.
RequestIdsDistinct ==
    \A r \in Requests : Prepared(r) =>
        IF ClientId(plan[r].client)
        THEN plan[r].id = Head(plan[r].client["request-id"])
        ELSE \A q \in Requests \ {r} :
                Prepared(q) /\ ~ClientId(plan[q].client) => plan[q].id # plan[r].id

\* A prefix depth that a request is routed by was earned: the pod was said,
\* by an answer or an event, to hold a prompt that starts with the very
\* tokens of those blocks.
HitIsLearned ==
    \A r \in Requests : Routed(r) /\ plan[r].depth > 0 =>
        LET n == Min({plan[r].depth * BlockSizeOf, Len(plan[r].tokens)}) IN
        \E t \in taught : t[1] = plan[r].primary /\ IsPrefix(SubSeq(plan[r].tokens, 1, n), t[2])

\* A match means that the pod can reuse the prefix: it was said to hold, for
\* the model of the request (an event names none), a prompt that starts with
\* the first tokens of the prompt in the body, as many as the matched blocks
\* hold.  Parts the parser cannot borrow are sent to the pod and not hashed,
\* and the model is in the namespace header but in no hash or key of the index.
HitIsReusable ==
    \A r \in Requests : Routed(r) /\ plan[r].depth > 0 =>
        LET n == Min({plan[r].depth * BlockSizeOf, Len(plan[r].sent)}) IN
        \E t \in taught : /\ t[1] = plan[r].primary /\ t[3] \in {"any", plan[r].model}
                          /\ IsPrefix(SubSeq(plan[r].sent, 1, n), t[4])

\* Hashing a prompt token by token gives the chain that hashing it in blocks
\* gives, for every block size: the last block may be a partial one.
ChainIsBatch ==
    \A r \in Requests : \A size \in 1 .. Len(plan[r].tokens) + 1 :
        Streaming(plan[r].tokens, size) = CumulativeFromBlocks(Chunks(plan[r].tokens, size))
=============================================================================
