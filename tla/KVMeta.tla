------------------------------- MODULE KVMeta -------------------------------
(***************************************************************************)
(* How the language model engine (Llm in transformers/llm/engine) and the   *)
(* KV caches of the attention layers (CPUKVCacheManager) keep the length of *)
(* the history.  The engine never talks to the caches: it leaves what the   *)
(* next forward has to do in a KVMeta (drop the last remove entries, put    *)
(* the kept ones back, add new ones), every layer applies it on its own     *)
(* when it is run, and KVMeta::sync makes the new length the engine's.      *)
(* A request stays pending until the next forward, which may be much later, *)
(* may be changed before, or may fail after some of the layers.             *)
(*                                                                         *)
(* Only lengths are kept here; KVLayout is about the entries themselves.    *)
(* The ranges of KVMeta::reserve are all inside what is removed and matter  *)
(* by their total size, which is kept; n_reserve = 0 is kept = 0.           *)
(***************************************************************************)
EXTENDS Integers

CONSTANTS
    N,              \* attention layers that own a cache
    ExpandChunk,    \* KVCacheConfig::mExpandChunk
    MaxAdd,         \* bound: tokens of a prompt's chunk, and of a draft
    MaxLength,      \* bound: entries of a cache
    Configs         \* the configurations of the engine, and what its caller may do

\* What a caller, or a fault, may do beyond a plain conversation.
Liberties == {"resume",      \* generate(n): continue an answer
              "erase",       \* eraseHistory(b, e) that keeps entries after e
              "head",        \* eraseHistory(0, e) that keeps entries after e
              "override",    \* a request made while one that keeps entries is pending
              "cancel",      \* stopping an Eagle generation between two drafts
              "failReplay",  \* a forward of replayKeptHistory fails
              "refused",     \* replayKeptHistory does not try (multimodal, or after an error)
              "fail",        \* any forward may fail
              "unread"}      \* the outputs of any but a prompt may not be readable

Config == [reuse_kv : BOOLEAN, prompt_cache : BOOLEAN, linear : BOOLEAN, quant : BOOLEAN,
           strategy : {"ar", "draft", "eagle"}, may : SUBSET Liberties]

\* What eraseHistory keeps is always computed again.
Replays(c) == c.linear /\ "refused" \notin c.may

\* Every answer starts anew, and nothing is put back.
Forgets(c) == ~c.reuse_kv /\ ~c.prompt_cache /\ c.may \cap {"erase", "head"} = {}

\* The configurations, and the liberties in each, with which the lengths stay
\* right; each line is a way in which they otherwise do not.
Careful(c) ==
    /\ c.may \cap {"override", "cancel"} = {}
    /\ "refused" \in c.may => c.linear
    /\ "failReplay" \in c.may => Replays(c) \/ Forgets(c)
    /\ "head" \in c.may => Replays(c)
    /\ "erase" \in c.may => Replays(c) \/ (c.reuse_kv /\ ~c.quant)
    /\ c.strategy = "eagle" => ~c.quant /\ ~c.reuse_kv /\ ~c.prompt_cache /\ "resume" \notin c.may
    /\ "fail" \in c.may => Forgets(c) /\ c.strategy # "eagle"
    /\ "unread" \in c.may => Forgets(c) /\ c.strategy # "eagle" /\ "resume" \notin c.may

ASSUME MetaAssumption ==
    /\ N \in Nat \ {0} /\ ExpandChunk \in Nat
    /\ MaxAdd \in Nat /\ MaxLength \in Nat
    /\ Configs \subseteq Config

Layers == 1 .. N

VARIABLES
    config,
    previous, remove, kept, add,    \* the KVMeta
    allSeqLen,      \* LlmContext::all_seq_len: the position of the next token
    status,         \* LlmContext::status: "ok" also when finished, "stopped" by
                    \* a timeout or the user, or "error"
    cached,         \* whether mCachedPromptText is set
    pc,             \* the engine: "idle", "prefill", "decode", "layers", "verify"
    phase,          \* what the forward in progress is for
    layer,          \* the next layer it reaches
    drafts,         \* tokens of the draft to be verified
    past,           \* mPastLength of each layer's cache
    cap             \* its mMaxLength

metaVars   == <<previous, remove, kept, add>>
engineVars == <<allSeqLen, status, cached, pc, phase, layer, drafts>>
cacheVars  == <<past, cap>>
vars == <<config, metaVars, engineVars, cacheVars>>

May(what) == what \in config.may

Init ==
    /\ config \in Configs
    /\ previous = 0 /\ remove = 0 /\ kept = 0 /\ add = 0
    /\ allSeqLen = 0 /\ status = "ok" /\ cached = FALSE
    /\ pc = "idle" /\ phase = "prefill" /\ layer = 1 /\ drafts = 0
    /\ past = [l \in Layers |-> 0] /\ cap = [l \in Layers |-> 0]

\* The length the caches will have once what is pending has been applied.
Pending == previous - remove + kept

-----------------------------------------------------------------------------
(* One forward: every layer applies the request, then the engine.          *)

Forward(n, what) ==
    /\ status = "ok"
    /\ Pending + n <= MaxLength
    /\ add' = n /\ phase' = what
    /\ pc' = "layers" /\ layer' = 1

\* Mutant: what is put back is not part of it.
WantedBare == previous + add - remove

\* The length onRealloc makes room for.
Wanted == previous + add - remove + kept

\* Nothing is put back in a quantized cache.
PutBack == IF config.quant THEN 0 ELSE kept

\* onClear and onAlloc, or onRealloc; then onUpdateKV.
Attention ==
    /\ pc = "layers" /\ layer \in Layers
    /\ IF previous = remove
       THEN /\ cap' = [cap EXCEPT ![layer] = add + ExpandChunk]
            /\ past' = [past EXCEPT ![layer] = add]
       ELSE /\ cap' = [cap EXCEPT ![layer] = IF Wanted > @ THEN Wanted + ExpandChunk ELSE @]
            /\ past' = [past EXCEPT ![layer] = @ - remove + PutBack + add]
    /\ layer' = layer + 1
    /\ UNCHANGED <<config, metaVars, allSeqLen, status, cached, pc, phase, drafts>>

\* Mutant: what was put back is forgotten.
SyncBare ==
    /\ previous' = previous - remove + add
    /\ remove' = 0 /\ kept' = 0 /\ add' = 0

\* KVMeta::sync.
Sync ==
    /\ previous' = previous - remove + add + kept
    /\ remove' = 0 /\ kept' = 0 /\ add' = 0

ForwardEnds ==
    /\ pc = "layers" /\ layer = N + 1
    /\ Sync
    /\ \/ /\ phase = "draft"
          /\ pc' = "verify" /\ drafts' = add
          /\ UNCHANGED allSeqLen
       \/ /\ phase \in {"prefill", "decode", "replay"}
          /\ allSeqLen' = allSeqLen + add
          /\ pc' \in CASE phase = "prefill" -> {"prefill", "decode"}
                       [] phase = "decode"  -> {"decode"}
                       [] phase = "replay"  -> {"idle"}
          /\ UNCHANGED drafts
    /\ UNCHANGED <<config, status, cached, phase, layer, cacheVars>>

\* A layer, or the read of the outputs, reports an error: there is no sync.
ForwardFails ==
    /\ pc = "layers"
    /\ IF phase = "replay" THEN May("failReplay") ELSE May("fail")
    /\ remove' = IF phase = "replay" THEN previous ELSE remove
    /\ status' = "error" /\ pc' = "idle"
    /\ UNCHANGED <<config, previous, kept, add, allSeqLen, cached, phase, layer, drafts, cacheVars>>

\* The outputs are there but cannot be read: there is no sync either, but the
\* caller of the forward goes on before it notices, if it does.
ForwardUnread ==
    /\ pc = "layers" /\ May("unread")
    /\ \/ /\ phase \in {"decode", "replay"}
          /\ allSeqLen' = allSeqLen + add
          /\ UNCHANGED remove
       \/ \E i \in {0, 1} :
          /\ phase = "draft" /\ config.strategy = "draft"
          /\ remove' = add - i /\ allSeqLen' = allSeqLen + i
    /\ status' \in IF phase = "replay" THEN {status} ELSE {"ok", "error"}
    /\ pc' = "idle"
    /\ UNCHANGED <<config, previous, kept, add, cached, phase, layer, drafts, cacheVars>>

-----------------------------------------------------------------------------
(* Answering a prompt.                                                     *)

\* generate_init with the length and the request the caller has set up.
GenerateInit(len, rem) ==
    /\ pc = "idle"
    /\ allSeqLen' = len /\ remove' = rem
    /\ kept > 0 /\ rem # remove => May("override")
    /\ status' = "ok" /\ pc' = "prefill"
    /\ UNCHANGED <<config, previous, kept, add, phase, layer, drafts, cacheVars>>

Fresh(len, rem) ==
    IF config.reuse_kv THEN GenerateInit(len, rem) ELSE GenerateInit(0, previous)

\* response of token ids, whatever the status (of a text: only if it is "ok").
Response == Fresh(allSeqLen, remove) /\ UNCHANGED cached

\* response of chat messages that do not continue the cached ones.
ResponseChat ==
    /\ status = "ok"
    /\ \/ cached /\ Fresh(0, previous)
       \/ ~cached /\ Fresh(0, IF allSeqLen > 0 THEN previous ELSE remove)
    /\ cached' = config.prompt_cache

\* response of chat messages that do: what generate_init clears is put back.
ResponseDelta ==
    /\ status = "ok" /\ config.prompt_cache /\ cached
    /\ GenerateInit(allSeqLen, remove)
    /\ UNCHANGED cached

Prefill(n) ==
    /\ pc = "prefill"
    /\ Forward(n, "prefill")
    /\ UNCHANGED <<config, previous, remove, kept, allSeqLen, status, cached, drafts, cacheVars>>

\* The prompt is empty: there is nothing to forward.
EmptyPrompt ==
    /\ pc = "prefill"
    /\ status' = "error" /\ pc' = "idle"
    /\ UNCHANGED <<config, metaVars, allSeqLen, cached, phase, layer, drafts, cacheVars>>

\* One token, or a draft that starts with the token just sampled.
Decode(n) ==
    /\ pc = "decode"
    /\ config.strategy = "ar" => n = 1
    /\ Forward(n, IF config.strategy = "ar" THEN "decode" ELSE "draft")
    /\ UNCHANGED <<config, previous, remove, kept, allSeqLen, status, cached, drafts, cacheVars>>

\* Mutant: the token after the draft counts as one of it.
AcceptedMore == 0 .. drafts + 1

\* How many tokens of a draft can be right.
Accepted == 0 .. drafts

\* Mutant: one rejected token stays.
RejectedLess(i) == IF i < drafts THEN drafts - i - 1 ELSE 0

Rejected(i) == drafts - i

\* Lookahead, MTP and DFlash: the first i tokens of the draft are right; none if
\* DFlash cannot tell.
DraftVerify(i) ==
    /\ pc = "verify" /\ config.strategy = "draft"
    /\ i \in Accepted
    /\ remove' = Rejected(i)
    /\ allSeqLen' = allSeqLen + i
    /\ IF i = 0 THEN status' = "error" /\ pc' = "idle"
                ELSE pc' \in {"decode", "idle"} /\ UNCHANGED status
    /\ UNCHANGED <<config, previous, kept, add, cached, phase, layer, drafts, cacheVars>>

\* Eagle: i tokens of the tree are right, all of it is removed and they are put back.
EagleUpdateDraft(i) ==
    /\ pc = "verify" /\ config.strategy = "eagle"
    /\ i \in 1 .. drafts
    /\ previous - drafts + i < MaxLength
    /\ remove' = drafts /\ kept' = i
    /\ allSeqLen' = allSeqLen + i
    /\ pc' = "decode"
    /\ UNCHANGED <<config, previous, add, status, cached, phase, layer, drafts, cacheVars>>

\* Eagle: the last tree of an answer is left as it is.
EagleStops ==
    /\ pc = "verify" /\ config.strategy = "eagle"
    /\ pc' = "idle"
    /\ UNCHANGED <<config, metaVars, allSeqLen, status, cached, phase, layer, drafts, cacheVars>>

\* A stop token, the limit, a timeout or the user ends the answer.
Stop ==
    /\ pc = "decode"
    /\ kept > 0 => May("cancel")
    /\ status' \in {status, "stopped", "error"}
    /\ pc' = "idle"
    /\ UNCHANGED <<config, metaVars, allSeqLen, cached, phase, layer, drafts, cacheVars>>

\* generate(n) after an answer.
Resume ==
    /\ pc = "idle" /\ status = "ok"
    /\ May("resume") /\ remove < previous
    /\ pc' = "decode"
    /\ UNCHANGED <<config, metaVars, allSeqLen, status, cached, phase, layer, drafts, cacheVars>>

-----------------------------------------------------------------------------
(* Requests between two answers.                                           *)

Reset ==
    /\ pc = "idle"
    /\ kept > 0 => May("override")
    /\ allSeqLen' = 0 /\ remove' = previous /\ cached' = FALSE
    /\ UNCHANGED <<config, previous, kept, add, status, pc, phase, layer, drafts, cacheVars>>

\* Mutant: an end behind the history is not refused.
ErasableBeyond(begin, end) ==
    /\ pc = "idle"
    /\ begin < end
    /\ kept > 0 => May("override")
    /\ end < previous => May(IF begin = 0 THEN "head" ELSE "erase")

\* A range eraseHistory accepts from this caller.
Erasable(begin, end) ==
    /\ pc = "idle"
    /\ begin < end /\ end <= previous
    /\ kept > 0 => May("override")
    /\ end < previous => May(IF begin = 0 THEN "head" ELSE "erase")

EraseHistory(begin, end) ==
    /\ Erasable(begin, end)
    /\ config.linear /\ (begin > 0 \/ end < previous) => May("refused")
    /\ remove' = previous - begin
    /\ kept' = IF end # previous THEN previous - end ELSE kept
    /\ allSeqLen' = begin + (previous - end)
    /\ UNCHANGED <<config, previous, add, status, cached, pc, phase, layer, drafts, cacheVars>>

\* replayKeptHistory: the entries to keep are computed again, at once.
EraseReplay(begin, end) ==
    /\ Erasable(begin, end) /\ config.linear /\ status # "error"
    /\ begin > 0 \/ end < previous
    /\ begin + (previous - end) <= MaxLength
    /\ allSeqLen' = 0
    /\ remove' = previous /\ kept' = 0
    /\ add' = begin + (previous - end) /\ phase' = "replay"
    /\ pc' = "layers" /\ layer' = 1
    /\ UNCHANGED <<config, previous, status, cached, drafts, cacheVars>>

Next ==
    \/ Attention \/ ForwardEnds \/ ForwardFails \/ ForwardUnread
    \/ Response \/ ResponseChat \/ ResponseDelta \/ EmptyPrompt
    \/ \E n \in 1 .. MaxAdd : Prefill(n) \/ Decode(n)
    \/ \E i \in 0 .. MaxAdd : DraftVerify(i) \/ EagleUpdateDraft(i)
    \/ EagleStops \/ Stop \/ Resume \/ Reset
    \/ \E begin, end \in 0 .. MaxLength : EraseHistory(begin, end) \/ EraseReplay(begin, end)

Spec == Init /\ [][Next]_vars

-----------------------------------------------------------------------------
(* Properties.                                                             *)

TypeOK ==
    /\ config \in Config
    /\ previous \in Nat /\ remove \in Nat /\ kept \in Nat /\ add \in Nat
    /\ allSeqLen \in Nat /\ drafts \in Nat
    /\ status \in {"ok", "stopped", "error"} /\ cached \in BOOLEAN
    /\ pc \in {"idle", "prefill", "decode", "layers", "verify"}
    /\ phase \in {"prefill", "decode", "draft", "replay"}
    /\ layer \in 1 .. N + 1
    /\ past \in [Layers -> Nat] /\ cap \in [Layers -> Nat]

\* A layer that extends its cache finds in it as many entries as the engine
\* believes there are: the assertion of CPUAttention::onExecute.
LengthsAgree ==
    pc = "layers" /\ layer \in Layers /\ previous # remove => past[layer] = previous

\* No cache ever holds more entries than its buffer has room for: the room is
\* made by onRealloc from the engine's numbers, the entries are written behind
\* the cache's own.
CapacityRespected == \A l \in Layers : past[l] <= cap[l]

\* The positions and the mask of the tokens of a forward continue the entries
\* the caches will hold: all_seq_len and the KVMeta tell the same story,
\* whatever was erased, rejected or given up since the last forward.
PositionsMatch == pc = "layers" => allSeqLen = Pending

\* No forward takes more out of a history than is in it (the lengths of KVMeta
\* are unsigned), nor puts back more than it removes.
RemoveWithin == pc = "layers" => remove <= previous /\ kept <= remove
=============================================================================
