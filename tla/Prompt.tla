------------------------------- MODULE Prompt -------------------------------
(***************************************************************************)
(* From the body of a request to the cumulative hashes of its prompt, and  *)
(* from a hash to its shard.                                               *)
(*                                                                         *)
(* FNV-1a is taken to be free of collisions: the hash of a block stands    *)
(* for its tokens (each ends in the byte 0xff, which no UTF-8 text         *)
(* contains), a cumulative hash for the blocks that went into it.          *)
(***************************************************************************)
EXTENDS Integers, SequencesExt

-----------------------------------------------------------------------------
(* openai.rs: the routing view of a body.                                  *)

\* A part is a message, or an element of prompt or input.  It is plain when
\* the parser can borrow it as &str: a content that is a list of parts, or a
\* string with an escape in it (a line break, a quote), is not.
Parts(Tokens) == [tokens : Seq(Tokens), plain : BOOLEAN]

\* json: a body that cannot be read to its end, no body at all, one that is no
\* JSON object of the expected types (a model or user with an escape in it
\* is not, either), or one that is.  given: messages, prompt or input is there.
Bodies(Tokens) == [json : {"unread", "empty", "invalid", "object"}, given : BOOLEAN,
                   parts : Seq(Parts(Tokens)), model : STRING]

\* What a part adds to the prompt.
PartTokens(part) == IF part.plain THEN part.tokens ELSE <<>>

\* White space joins the parts and white space separates the tokens.
PromptText(parts) == FlattenSeq([i \in DOMAIN parts |-> PartTokens(parts[i])])

\* extract_openai_routing_view refuses: a body that does not parse, one
\* without the field of its kind (an empty one has none), or a prompt or
\* input that is not plain.  Of an unknown path it does not read the body.
ExtractFails(kind, body) ==
    /\ kind # "unknown"
    /\ \/ body.json \in {"empty", "invalid"}
       \/ ~body.given
       \/ kind # "chat" /\ \E i \in DOMAIN body.parts : ~body.parts[i].plain

\* The prompt: a chat's messages without those that are not plain.
Extract(kind, body) ==
    IF kind = "unknown" THEN <<>> ELSE PromptText(body.parts)

\* The tokens of the body as it goes to the pod, which gets every part.
AsSent(body) == FlattenSeq([i \in DOMAIN body.parts |-> body.parts[i].tokens])

-----------------------------------------------------------------------------
(* cumulative_hash.rs and block_hash.rs.                                   *)

\* Mutant: a block is hashed without what came before it.
CombineBlockOnly(prev, block) == <<block>>

CombineCumulative(prev, block) == Append(prev, block)

EmptyHash == <<>>

\* Mutant: the last block is left out unless it is full.
FlushNever(st) == st.out

\* After the last token: a block that was begun is hashed as it is.
Flush(st) == IF st.block = <<>> THEN st.out
             ELSE Append(st.out, CombineCumulative(st.prev, st.block))

\* One token: the block it completes is hashed.
Consume(st, token, size) ==
    LET block == Append(st.block, token)
        hash == CombineCumulative(st.prev, block)
    IN IF Len(block) = size
       THEN [out |-> Append(st.out, hash), prev |-> hash, block |-> <<>>]
       ELSE [st EXCEPT !.block = block]

\* The state of the loop after each number of tokens: the hashes so far, the
\* hash of what is before the block, and the block.
Consumed(tokens, size) ==
    LET state[n \in 0 .. Len(tokens)] ==
            IF n = 0 THEN [out |-> <<>>, prev |-> EmptyHash, block |-> <<>>]
            ELSE Consume(state[n - 1], tokens[n], size)
    IN state

\* prompt_to_cumulative_hashes_streaming.
Streaming(tokens, size) == Flush(Consumed(tokens, size)[Len(tokens)])

\* prompt_to_block_hashes_with_size: the tokens in chunks of size.
Chunks(tokens, size) ==
    [i \in 1 .. (Len(tokens) + size - 1) \div size |->
        SubSeq(tokens, (i - 1) * size + 1, Min({i * size, Len(tokens)}))]

\* cumulative_hashes_from_blocks: prev after each number of blocks, and the
\* hashes that the loop has pushed.
PrevHashes(blocks) ==
    LET hash[i \in 0 .. Len(blocks)] ==
            IF i = 0 THEN EmptyHash ELSE CombineCumulative(hash[i - 1], blocks[i])
    IN hash

CumulativeFromBlocks(blocks) == [i \in 1 .. Len(blocks) |-> PrevHashes(blocks)[i]]

-----------------------------------------------------------------------------
(* fibonacci.rs: the product wraps at range (2^64) and is scaled to count. *)

ShardForFibonacci(hash, count, factor, range) ==
    (((hash * factor) % range) * Max({count, 1})) \div range
=============================================================================
