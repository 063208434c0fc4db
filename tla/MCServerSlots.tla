--------------------------- MODULE MCServerSlots ---------------------------
(***************************************************************************)
(* Settings of ServerSlots: how a server is started and what it is asked.  *)
(* Tokens are 1 and 2; samplers return 2.                                  *)
(***************************************************************************)
EXTENDS ServerSlots

Prompt(tokens) ==
    [type |-> "COMPLETION", tokens |-> tokens, cache_prompt |-> TRUE, n_keep |-> 0,
     lora |-> 0, valid |-> TRUE, id_slot |-> 0]
Embed(tokens) == [Prompt(tokens) EXCEPT !.type = "EMBEDDING"]
Keep(n, r)    == [r EXCEPT !.n_keep = n]
Fresh(r)      == [r EXCEPT !.cache_prompt = FALSE]
Lora(r)       == [r EXCEPT !.lora = 1]
Bad(r)        == [r EXCEPT !.valid = FALSE]
On(s, r)      == [r EXCEPT !.id_slot = s]

Base ==
    [unified |-> TRUE, cells |-> NSlots * NCtx, ctx_shift |-> TRUE, n_cache_reuse |-> 0,
     cont_batching |-> TRUE, cache |-> -1, early |-> FALSE, events |-> {},
     requests |-> {Prompt(<<1>>), Prompt(<<1, 2, 1>>)}]

TooLong == [k \in 1 .. NCtx |-> 1]

\* context shifts; chunks moved; cells shared and short; the prompt cache; slot
\* actions; embeddings, adapters and errors
PassSettings ==
    [shift  |-> [Base EXCEPT !.requests = {Keep(1, Prompt(<<1, 2, 1>>)), Prompt(<<1, 1>>)},
                             !.events = {"cancel"}],
     reuse  |-> [Base EXCEPT !.unified = FALSE, !.cells = NCtx, !.n_cache_reuse = 1,
                    !.ctx_shift = FALSE,
                    !.requests = {Prompt(<<1, 2, 1, 2>>), Prompt(<<2, 1>>), Prompt(<<1, 1, 2>>)}],
     short  |-> [Base EXCEPT !.cells = NCtx, !.cont_batching = FALSE],
     cache  |-> [Base EXCEPT !.cache = 6, !.cells = NCtx + 2, !.events = {"fragmented"},
                    !.requests = {Prompt(<<1>>), Prompt(<<1, 2>>), Prompt(<<2, 1>>)}],
     slots  |-> [Base EXCEPT !.cells = NCtx, !.events = {"slots"},
                    !.requests = {On(1, Prompt(<<1, 2>>)), Fresh(Prompt(<<1, 1>>)),
                                  Prompt(<<>>), Prompt(TooLong)}],
     kinds  |-> [Base EXCEPT !.early = TRUE, !.events = {"compute_error"},
                    !.requests = {Prompt(<<1, 2>>), Embed(<<1, 1>>), Embed(<<1, 1, 1, 1>>),
                                  Lora(Prompt(<<1>>)), Bad(Lora(Prompt(<<1>>)))}]]

\* an embedding that does not fit into a batch, or an empty prompt, comes with
\* another request of its kind
LongSettings ==
    [long  |-> [Base EXCEPT !.requests = {Embed(<<1>>), Embed(<<1, 1, 1, 1>>)}],
     empty |-> [Base EXCEPT !.requests = {Prompt(<<1>>), Prompt(<<>>)}]]

\* the first request comes before the first update
EarlySettings == [early |-> [Base EXCEPT !.early = TRUE]]

\* the prompt cache, and requests that differ in their adapter
LoraSettings ==
    [lora |-> [Base EXCEPT !.cache = 10,
        !.requests = {On(1, Prompt(<<1, 2>>)), On(1, Lora(Prompt(<<2, 2>>))),
                      Lora(Prompt(<<1, 1>>)), Prompt(<<2>>)}]]

\* context shift is off
FullSettings == [full |-> [Base EXCEPT !.ctx_shift = FALSE]]
=============================================================================
