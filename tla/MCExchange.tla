----------------------------- MODULE MCExchange -----------------------------
(***************************************************************************)
(* Exchange for TLC: two configurations that start the gateway, and one    *)
(* that differs from the first in one setting for each way not to start;   *)
(* inputs for each kind of request and each way to refuse one.             *)
(***************************************************************************)
EXTENDS Exchange, TLC

CONSTANTS r1, r2

MCPod(id) == [id |-> id, url |-> id, healthy |-> TRUE, draining |-> FALSE,
              maxConns |-> 1, capabilities |-> {}]

Small == [port |-> 80, maxPods |-> 4, shardsCount |-> 1,
          endpoint |-> [path |-> "health", slash |-> TRUE, wildcard |-> "none"],
          intervalMs |-> 1, timeoutMs |-> 1, healthyThreshold |-> 1, unhealthyThreshold |-> 1,
          singleMode |-> "single", dispatchMode |-> "dispatch",
          single |-> <<MCPod("s")>>, prefill |-> <<MCPod("p")>>, decode |-> <<MCPod("d")>>]

\* Two single pods, one draining and one at an address that cannot be used,
\* and a prefill pod that could also decode.
Large == [Small EXCEPT
    !.maxPods = 5, !.endpoint = [path |-> "status", slash |-> FALSE, wildcard |-> "further"],
    !.single = <<[MCPod("s") EXCEPT !.draining = TRUE], [MCPod("s2") EXCEPT !.url = "ftp"]>>,
    !.prefill = <<[MCPod("p") EXCEPT !.capabilities = {{"prefill", "decode"}}]>>]

Refusals == {
    [Small EXCEPT !.port = 0], [Small EXCEPT !.maxPods = 0], [Small EXCEPT !.maxPods = 2],
    [Small EXCEPT !.maxPods = MaxPods + 1], [Small EXCEPT !.shardsCount = 0],
    [Small EXCEPT !.endpoint.path = Blank, !.endpoint.slash = FALSE], [Small EXCEPT !.intervalMs = 0],
    [Small EXCEPT !.timeoutMs = 0], [Small EXCEPT !.healthyThreshold = 0],
    [Small EXCEPT !.unhealthyThreshold = 0], [Small EXCEPT !.singleMode = "dispatch"],
    [Small EXCEPT !.dispatchMode = "single"], [Small EXCEPT !.single = <<>>],
    [Small EXCEPT !.prefill = <<>>], [Small EXCEPT !.decode = <<>>],
    [Small EXCEPT !.single[1].id = Blank], [Small EXCEPT !.prefill[1].url = Blank],
    [Small EXCEPT !.decode[1].maxConns = 0],
    [Small EXCEPT !.single = <<MCPod("s"), MCPod("s")>>],
    [Small EXCEPT !.decode[1].id = "s"],
    [Small EXCEPT !.prefill[1].capabilities = {{"decode"}}],
    [Small EXCEPT !.endpoint.slash = FALSE], [Small EXCEPT !.endpoint.path = "registry"],
    [Small EXCEPT !.endpoint.wildcard = "first"], [Small EXCEPT !.endpoint.wildcard = "malformed"]}

MCConfigs == {Small, Large} \cup Refusals

Said(tokens) == [tokens |-> tokens, plain |-> TRUE]
Escaped(tokens) == [tokens |-> tokens, plain |-> FALSE]

MCBody(parts) == [json |-> "object", given |-> TRUE, parts |-> parts, model |-> "m"]
MCInput(kind, parts, headers) == [kind |-> kind, body |-> MCBody(parts), headers |-> headers]

Spoofed == [n \in Names |-> IF n \in OwnedHeaders \ {"mode"} THEN <<Text("spoofed")>>
                            ELSE IF n = "user" THEN <<>> ELSE <<Text("client")>>]
ByClient == [NoHeaders EXCEPT !["request-id"] = <<Text("mine"), Text("other")>>,
                              !["mode"] = <<Text("dispatch"), Text("single")>>]

Plain == MCInput("chat", <<Said(<<"a", "b">>), Said(<<"c">>)>>, NoHeaders)

MCInputs == {
    Plain,
    MCInput("chat", <<Escaped(<<"a", "b">>), Said(<<"c">>)>>, ByClient),
    MCInput("completions", <<Said(<<"a", "b", "c", "a", "b">>)>>,
            [Spoofed EXCEPT !["mode"] = <<Text("disaggregated")>>]),
    MCInput("embeddings", <<Said(<<"c">>)>>, [Spoofed EXCEPT !["mode"] = <<Text("single")>>]),
    MCInput("unknown", <<>>, [NoHeaders EXCEPT !["user"] = <<Text("u"), Text("v")>>,
                                               !["request-id"] = <<Text("empty")>>]),
    [Plain EXCEPT !.body.model = "unprintable", !.headers["request-id"] = <<Text("opaque")>>],
    \* refused before it is routed
    MCInput("completions", <<Escaped(<<"a">>)>>, NoHeaders),
    [Plain EXCEPT !.headers["mode"] = <<Text("spoofed")>>],
    [Plain EXCEPT !.body.json = "invalid"], [Plain EXCEPT !.body.json = "unread"],
    [Plain EXCEPT !.body.json = "empty"], [Plain EXCEPT !.body.given = FALSE]}

\* Chats that differ in their model and in a part that is not plain.
MCTwins == {
    MCInput("chat", <<Escaped(<<"a", "b">>), Said(<<"c">>)>>, NoHeaders),
    [MCInput("chat", <<Escaped(<<"b", "a">>), Said(<<"c">>)>>, NoHeaders)
        EXCEPT !.body.model = "m2"]}

MCAnswers == {
    [success |-> TRUE, headers |-> NoHeaders],
    [success |-> FALSE, headers |-> [n \in Names |-> <<Text("pods")>>]]}

\* A pod of the catalog, ids of no pod, and names.
MCEventRefs == {
    [id |-> {0}, names |-> <<>>], [id |-> {MaxPods - 1}, names |-> <<>>],
    [id |-> {MaxPods}, names |-> <<"s">>], [id |-> {}, names |-> <<"p", "d">>],
    [id |-> {}, names |-> <<"nobody">>], [id |-> {}, names |-> <<>>]}

MCValues == {Text(kind) : kind \in {"spoofed", "client", "mine", "other", "dispatch", "single",
                                   "disaggregated", "empty", "opaque", "u", "v", "pods"}}

MCSymmetry == Permutations({r1, r2})
=============================================================================
