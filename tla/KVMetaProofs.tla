---------------------------- MODULE KVMetaProofs ----------------------------
(***************************************************************************)
(* Proofs about KVMeta, for any number of layers and any lengths, and for   *)
(* every set of careful configurations.                                     *)
(***************************************************************************)
EXTENDS KVMeta, TLAPS

\* What the caches hold is of no importance any more: the next answer starts anew.
Restarts == Forgets(config) /\ ("resume" \notin config.may \/ status = "error")

AllAgree == \A l \in Layers : past[l] = previous

\* What the lengths of the caches are at each location of the engine.
CacheInv ==
    /\ pc \in {"decode", "verify"} => AllAgree
    /\ pc = "prefill" => AllAgree \/ (remove = previous /\ (Replays(config) \/ Forgets(config)))
    /\ pc = "idle" => AllAgree \/ (remove = previous /\ Replays(config)) \/ Restarts
    /\ pc = "layers" => \A l \in Layers :
         /\ l < layer => past[l] = Pending + add
         /\ l >= layer => remove = previous \/ past[l] = previous

\* When something is put back, and by whom.
KeptInv ==
    kept > 0 => /\ remove < previous /\ kept <= remove /\ ~config.quant
                /\ \/ config.strategy = "eagle" /\ pc \in {"decode", "layers"}
                   \/ "erase" \in config.may \/ "head" \in config.may

\* What is pending at each location.
RequestInv ==
    /\ remove <= previous \/ (pc = "idle" /\ Restarts)
    /\ pc = "decode" => remove < previous
    /\ pc = "verify" => remove = 0 /\ kept = 0 /\ drafts < previous
    /\ pc = "layers" => /\ add >= 1
                        /\ phase \in {"decode", "draft"} => remove < previous
                        /\ phase = "replay" => remove = previous /\ kept = 0

\* Where the engine believes the next token to be.
PositionInv ==
    /\ pc \in {"layers", "prefill", "decode"} => allSeqLen = Pending
    /\ pc = "verify" => allSeqLen = previous - drafts
    /\ pc = "idle" => \/ allSeqLen = Pending
                      \/ /\ ~config.reuse_kv /\ ~config.prompt_cache
                         /\ "resume" \notin config.may \/ status = "error"

IInv ==
    /\ TypeOK /\ Careful(config)
    /\ CapacityRespected
    /\ CacheInv /\ KeptInv /\ RequestInv /\ PositionInv

\* A careful configuration, spelled out.
LEMMA CarefulFacts ==
    ASSUME NEW c \in Config, Careful(c)
    PROVE  /\ "override" \notin c.may /\ "cancel" \notin c.may
           /\ "failReplay" \in c.may => Replays(c) \/ Forgets(c)
           /\ "head" \in c.may => Replays(c)
           /\ "erase" \in c.may => Replays(c) \/ (c.reuse_kv /\ ~c.quant)
           /\ c.strategy = "eagle" => ~c.quant /\ ~c.reuse_kv /\ ~c.prompt_cache /\ "resume" \notin c.may
           /\ "fail" \in c.may => Forgets(c) /\ c.strategy # "eagle"
           /\ "unread" \in c.may => Forgets(c) /\ c.strategy # "eagle" /\ "resume" \notin c.may
           /\ Forgets(c) => /\ ~c.reuse_kv /\ ~c.prompt_cache
                            /\ "erase" \notin c.may /\ "head" \notin c.may
           /\ Replays(c) => c.linear /\ "refused" \notin c.may
  BY DEF Careful, Config, Replays, Forgets

-----------------------------------------------------------------------------
USE MetaAssumption DEF vars, metaVars, engineVars, cacheVars, Layers

\* Nothing is cached and nothing pending.
LEMMA InitIInv == ASSUME \A c \in Configs : Careful(c), Init PROVE IInv
<1>1. config \in Config /\ Careful(config)
  BY DEF Init
<1>2. TypeOK /\ CapacityRespected
  <2>1. past \in [Layers -> Nat] /\ cap \in [Layers -> Nat] /\ CapacityRespected
    BY DEF Init, CapacityRespected
  <2>2. layer \in 1 .. N + 1
    BY DEF Init
  <2>3. cached \in BOOLEAN /\ status \in {"ok", "stopped", "error"}
    BY Zenon DEF Init
  <2>4. QED
    BY <1>1, <2>1, <2>2, <2>3 DEF Init, TypeOK
<1>3. CacheInv /\ KeptInv /\ RequestInv /\ PositionInv
  BY DEF Init, CacheInv, KeptInv, RequestInv, PositionInv, AllAgree, Pending
<1>4. QED
  BY <1>1, <1>2, <1>3 DEF IInv

\* A layer applies the request: its cache gets the pending length, and room for it.
LEMMA AttentionKeeps == ASSUME IInv, Attention PROVE IInv'
<1> USE DEF Attention, Wanted, PutBack
<1>1. /\ TypeOK /\ CapacityRespected /\ CacheInv /\ KeptInv /\ RequestInv /\ PositionInv
      /\ config \in Config /\ Careful(config) /\ config' = config
  BY DEF IInv, TypeOK
<1>2. PICK c \in Nat : /\ cap' = [cap EXCEPT ![layer] = c]
                       /\ past' = [past EXCEPT ![layer] = Pending + add]
                       /\ Pending + add \in Nat /\ Pending + add <= c
  <2>1. layer \in Layers /\ pc = "layers"
    OBVIOUS
  <2>2. CASE previous = remove
    <3>1. kept = 0 /\ Pending + add = add
      BY <1>1, <2>2 DEF TypeOK, KeptInv, Pending
    <3>2. cap' = [cap EXCEPT ![layer] = add + ExpandChunk] /\ past' = [past EXCEPT ![layer] = add]
      BY <2>2
    <3>3. add + ExpandChunk \in Nat /\ add <= add + ExpandChunk /\ add \in Nat
      BY <1>1 DEF TypeOK
    <3>4. QED
      BY <3>1, <3>2, <3>3
  <2>3. CASE previous # remove
    <3>1. past[layer] = previous
      BY <1>1, <2>1, <2>3 DEF CacheInv, TypeOK
    <3>2. (IF config.quant THEN 0 ELSE kept) = kept
      BY <1>1 DEF KeptInv, TypeOK
    <3>3. past[layer] - remove + (IF config.quant THEN 0 ELSE kept) + add = Pending + add
      BY <3>1, <3>2 DEF Pending
    <3>4. Pending + add \in Nat /\ previous + add - remove + kept = Pending + add
      BY <1>1, <2>1 DEF TypeOK, RequestInv, Pending
    <3>5. cap[layer] \in Nat
      BY <1>1, <2>1 DEF TypeOK
    <3>6. past' = [past EXCEPT ![layer] = Pending + add]
      <4>1. past' = [past EXCEPT ![layer] = past[layer] - remove + (IF config.quant THEN 0 ELSE kept) + add]
        BY <2>3, Zenon
      <4>2. QED
        BY <3>3, <4>1, Zenon
    <3>7. cap' = [cap EXCEPT ![layer] = IF Pending + add > cap[layer] THEN Pending + add + ExpandChunk ELSE cap[layer]]
      <4>1. cap' = [cap EXCEPT ![layer] = IF previous + add - remove + kept > cap[layer]
                                            THEN previous + add - remove + kept + ExpandChunk ELSE cap[layer]]
        BY <2>3, Zenon
      <4>2. QED
        BY <3>4, <4>1, Zenon
    <3> DEFINE room == IF Pending + add > cap[layer] THEN Pending + add + ExpandChunk ELSE cap[layer]
    <3>8. room \in Nat /\ Pending + add <= room
      BY <3>4, <3>5
    <3>9. cap' = [cap EXCEPT ![layer] = room]
      BY <3>7
    <3> HIDE DEF room
    <3>10. QED
      BY <3>4, <3>6, <3>8, <3>9
  <2>4. QED
    BY <2>2, <2>3
<1>3. TypeOK'
  BY <1>1, <1>2, SMTT(20) DEF TypeOK
<1>4. CapacityRespected'
  BY <1>1, <1>2 DEF TypeOK, CapacityRespected
<1>5. CacheInv'
  BY <1>1, <1>2 DEF TypeOK, CacheInv, Pending
<1>6. KeptInv' /\ RequestInv' /\ PositionInv'
  BY <1>1 DEF TypeOK, KeptInv, RequestInv, PositionInv, Pending
<1>7. QED
  BY <1>1, <1>3, <1>4, <1>5, <1>6 DEF IInv

\* Every cache has the pending length, which sync makes the engine's.
LEMMA ForwardEndsKeeps == ASSUME IInv, ForwardEnds PROVE IInv'
<1> USE DEF ForwardEnds, Sync
<1>1. /\ TypeOK /\ CapacityRespected /\ CacheInv /\ KeptInv /\ RequestInv /\ PositionInv
      /\ config \in Config /\ Careful(config) /\ config' = config
  BY DEF IInv, TypeOK
<1>2. TypeOK'
  BY <1>1, SMTT(20) DEF TypeOK, RequestInv, CacheInv, AllAgree
<1>3. CapacityRespected'
  BY <1>1 DEF TypeOK, RequestInv, CacheInv, AllAgree, CapacityRespected, Pending
<1>4. CacheInv'
  <2>1. \A l \in Layers : l < layer
    BY <1>1 DEF TypeOK
  <2>2. AllAgree'
    BY <1>1, <2>1 DEF TypeOK, CacheInv, AllAgree, Pending
  <2>3. pc' \in {"verify", "prefill", "decode", "idle"}
    BY <1>1 DEF TypeOK
  <2>4. QED
    BY <2>2, <2>3 DEF CacheInv
<1>5. KeptInv' /\ RequestInv'
  BY <1>1, CarefulFacts, SMTT(20) DEF TypeOK, KeptInv, RequestInv, Restarts
<1>6. PositionInv'
  BY <1>1, CarefulFacts, SMTT(20) DEF TypeOK, KeptInv, RequestInv, PositionInv, Pending, Restarts
<1>7. QED
  BY <1>1, <1>2, <1>3, <1>4, <1>5, <1>6 DEF IInv

\* After a failure the history is given up: by replayKeptHistory, or because
\* the next answer starts anew.
LEMMA ForwardFailsKeeps == ASSUME IInv, ForwardFails PROVE IInv'
<1> USE DEF ForwardFails, May
<1>1. /\ TypeOK /\ CapacityRespected /\ CacheInv /\ KeptInv /\ RequestInv /\ PositionInv
      /\ config \in Config /\ Careful(config) /\ config' = config
  BY DEF IInv, TypeOK
<1>2. TypeOK'
  BY <1>1 DEF TypeOK, RequestInv, CacheInv, AllAgree
<1>3. CapacityRespected'
  BY <1>1 DEF TypeOK, RequestInv, CacheInv, AllAgree, CapacityRespected, Pending
<1>4. CacheInv'
  BY <1>1, CarefulFacts DEF TypeOK, KeptInv, RequestInv, CacheInv, AllAgree, Pending, Restarts
<1>5. KeptInv' /\ RequestInv'
  BY <1>1, CarefulFacts DEF TypeOK, KeptInv, RequestInv, Restarts
<1>6. PositionInv'
  BY <1>1, CarefulFacts DEF TypeOK, KeptInv, RequestInv, PositionInv, Pending, Restarts
<1>7. QED
  BY <1>1, <1>2, <1>3, <1>4, <1>5, <1>6 DEF IInv

\* What could not be read leaves caches that the next answer does not use.
LEMMA ForwardUnreadKeeps == ASSUME IInv, ForwardUnread PROVE IInv'
<1> USE DEF ForwardUnread, May
<1>1. /\ TypeOK /\ CapacityRespected /\ CacheInv /\ KeptInv /\ RequestInv /\ PositionInv
      /\ config \in Config /\ Careful(config) /\ config' = config
  BY DEF IInv, TypeOK
<1>2. TypeOK'
  BY <1>1, SMTT(20) DEF TypeOK, RequestInv, CacheInv, AllAgree
<1>3. CapacityRespected'
  BY <1>1 DEF TypeOK, RequestInv, CacheInv, AllAgree, CapacityRespected, Pending
<1>4. CacheInv'
  BY <1>1, CarefulFacts DEF TypeOK, KeptInv, RequestInv, CacheInv, AllAgree, Pending, Restarts
<1>5. KeptInv' /\ RequestInv'
  BY <1>1, CarefulFacts DEF TypeOK, KeptInv, RequestInv, Restarts
<1>6. PositionInv'
  BY <1>1, CarefulFacts DEF TypeOK, KeptInv, RequestInv, PositionInv, Pending, Restarts
<1>7. QED
  BY <1>1, <1>2, <1>3, <1>4, <1>5, <1>6 DEF IInv

\* A pending request is kept, or everything is removed.
LEMMA ResponseKeeps == ASSUME IInv, Response PROVE IInv'
<1> USE DEF Response, Fresh, GenerateInit, May
<1>1. /\ TypeOK /\ CapacityRespected /\ CacheInv /\ KeptInv /\ RequestInv /\ PositionInv
      /\ config \in Config /\ Careful(config) /\ config' = config
  BY DEF IInv, TypeOK
<1>2. TypeOK'
  BY <1>1, SMTT(20) DEF TypeOK, RequestInv, CacheInv, AllAgree
<1>3. CapacityRespected'
  BY <1>1 DEF TypeOK, RequestInv, CacheInv, AllAgree, CapacityRespected, Pending
<1>4. CacheInv'
  BY <1>1, CarefulFacts DEF TypeOK, KeptInv, RequestInv, CacheInv, AllAgree, Pending, Restarts
<1>5. KeptInv' /\ RequestInv'
  BY <1>1, CarefulFacts DEF TypeOK, KeptInv, RequestInv, Restarts
<1>6. PositionInv'
  BY <1>1, CarefulFacts, SMTT(20) DEF TypeOK, KeptInv, RequestInv, PositionInv, Pending, Restarts
<1>7. QED
  BY <1>1, <1>2, <1>3, <1>4, <1>5, <1>6 DEF IInv

\* As Response; an empty history has nothing pending.
LEMMA ResponseChatKeeps == ASSUME IInv, ResponseChat PROVE IInv'
<1> USE DEF ResponseChat, Fresh, GenerateInit, May
<1>1. /\ TypeOK /\ CapacityRespected /\ CacheInv /\ KeptInv /\ RequestInv /\ PositionInv
      /\ config \in Config /\ Careful(config) /\ config' = config
  BY DEF IInv, TypeOK
<1>2. TypeOK'
  <2>1. cached' \in BOOLEAN
    BY <1>1, Zenon DEF Config
  <2>2. QED
    BY <1>1, <2>1, SMTT(20) DEF TypeOK
<1>3. CapacityRespected'
  BY <1>1 DEF TypeOK, RequestInv, CacheInv, AllAgree, CapacityRespected, Pending
<1>4. CacheInv'
  BY <1>1, CarefulFacts DEF TypeOK, KeptInv, RequestInv, CacheInv, AllAgree, Pending, Restarts
<1>5. KeptInv' /\ RequestInv'
  BY <1>1, CarefulFacts DEF TypeOK, KeptInv, RequestInv, Restarts
<1>6. PositionInv'
  BY <1>1, CarefulFacts DEF TypeOK, KeptInv, RequestInv, PositionInv, Pending, Restarts
<1>7. QED
  BY <1>1, <1>2, <1>3, <1>4, <1>5, <1>6 DEF IInv

\* Only in configurations in which the lengths always match at rest.
LEMMA ResponseDeltaKeeps == ASSUME IInv, ResponseDelta PROVE IInv'
<1> USE DEF ResponseDelta, GenerateInit, May
<1>1. /\ TypeOK /\ CapacityRespected /\ CacheInv /\ KeptInv /\ RequestInv /\ PositionInv
      /\ config \in Config /\ Careful(config) /\ config' = config
  BY DEF IInv, TypeOK
<1>2. TypeOK'
  BY <1>1 DEF TypeOK, RequestInv, CacheInv, AllAgree
<1>3. CapacityRespected'
  BY <1>1 DEF TypeOK, RequestInv, CacheInv, AllAgree, CapacityRespected, Pending
<1>4. CacheInv'
  BY <1>1, CarefulFacts DEF TypeOK, KeptInv, RequestInv, CacheInv, AllAgree, Pending, Restarts
<1>5. KeptInv' /\ RequestInv'
  BY <1>1, CarefulFacts DEF TypeOK, KeptInv, RequestInv, Restarts
<1>6. PositionInv'
  BY <1>1, CarefulFacts DEF TypeOK, KeptInv, RequestInv, PositionInv, Pending, Restarts
<1>7. QED
  BY <1>1, <1>2, <1>3, <1>4, <1>5, <1>6 DEF IInv

\* Nothing is forwarded: what was pending still is.
LEMMA EmptyPromptKeeps == ASSUME IInv, EmptyPrompt PROVE IInv'
<1> USE DEF EmptyPrompt
<1>1. /\ TypeOK /\ CapacityRespected /\ CacheInv /\ KeptInv /\ RequestInv /\ PositionInv
      /\ config \in Config /\ Careful(config) /\ config' = config
  BY DEF IInv, TypeOK
<1>2. TypeOK'
  BY <1>1 DEF TypeOK, RequestInv, CacheInv, AllAgree
<1>3. CapacityRespected'
  BY <1>1 DEF TypeOK, RequestInv, CacheInv, AllAgree, CapacityRespected, Pending
<1>4. CacheInv'
  BY <1>1, CarefulFacts DEF TypeOK, KeptInv, RequestInv, CacheInv, AllAgree, Pending, Restarts
<1>5. KeptInv' /\ RequestInv'
  BY <1>1, CarefulFacts DEF TypeOK, KeptInv, RequestInv, Restarts
<1>6. PositionInv'
  BY <1>1, CarefulFacts DEF TypeOK, KeptInv, RequestInv, PositionInv, Pending, Restarts
<1>7. QED
  BY <1>1, <1>2, <1>3, <1>4, <1>5, <1>6 DEF IInv

\* The layers are reached with the request as it was set up.
LEMMA PrefillKeeps == ASSUME IInv, NEW n \in 1 .. MaxAdd, Prefill(n) PROVE IInv'
<1> USE DEF Prefill, Forward
<1>1. /\ TypeOK /\ CapacityRespected /\ CacheInv /\ KeptInv /\ RequestInv /\ PositionInv
      /\ config \in Config /\ Careful(config) /\ config' = config
  BY DEF IInv, TypeOK
<1>2. TypeOK'
  BY <1>1 DEF TypeOK, RequestInv, CacheInv, AllAgree
<1>3. CapacityRespected'
  BY <1>1 DEF TypeOK, RequestInv, CacheInv, AllAgree, CapacityRespected, Pending
<1>4. CacheInv'
  BY <1>1, CarefulFacts DEF TypeOK, KeptInv, RequestInv, CacheInv, AllAgree, Pending, Restarts
<1>5. KeptInv' /\ RequestInv'
  BY <1>1, CarefulFacts DEF TypeOK, KeptInv, RequestInv, Restarts
<1>6. PositionInv'
  BY <1>1, CarefulFacts DEF TypeOK, KeptInv, RequestInv, PositionInv, Pending, Restarts
<1>7. QED
  BY <1>1, <1>2, <1>3, <1>4, <1>5, <1>6 DEF IInv

\* An answer goes on behind a history that is not empty.
LEMMA DecodeKeeps == ASSUME IInv, NEW n \in 1 .. MaxAdd, Decode(n) PROVE IInv'
<1> USE DEF Decode, Forward
<1>1. /\ TypeOK /\ CapacityRespected /\ CacheInv /\ KeptInv /\ RequestInv /\ PositionInv
      /\ config \in Config /\ Careful(config) /\ config' = config
  BY DEF IInv, TypeOK
<1>2. TypeOK'
  BY <1>1 DEF TypeOK, RequestInv, CacheInv, AllAgree
<1>3. CapacityRespected'
  BY <1>1 DEF TypeOK, RequestInv, CacheInv, AllAgree, CapacityRespected, Pending
<1>4. CacheInv'
  BY <1>1, CarefulFacts DEF TypeOK, KeptInv, RequestInv, CacheInv, AllAgree, Pending, Restarts
<1>5. KeptInv' /\ RequestInv'
  BY <1>1, CarefulFacts DEF TypeOK, KeptInv, RequestInv, Restarts
<1>6. PositionInv'
  BY <1>1, CarefulFacts DEF TypeOK, KeptInv, RequestInv, PositionInv, Pending, Restarts
<1>7. QED
  BY <1>1, <1>2, <1>3, <1>4, <1>5, <1>6 DEF IInv

\* Less than the history is removed: the draft has a token before it.
LEMMA DraftVerifyKeeps == ASSUME IInv, NEW i \in 0 .. MaxAdd, DraftVerify(i) PROVE IInv'
<1> USE DEF DraftVerify, Accepted, Rejected
<1>1. /\ TypeOK /\ CapacityRespected /\ CacheInv /\ KeptInv /\ RequestInv /\ PositionInv
      /\ config \in Config /\ Careful(config) /\ config' = config
  BY DEF IInv, TypeOK
<1>2. TypeOK'
  BY <1>1 DEF TypeOK, RequestInv, CacheInv, AllAgree
<1>3. CapacityRespected'
  BY <1>1 DEF TypeOK, RequestInv, CacheInv, AllAgree, CapacityRespected, Pending
<1>4. CacheInv'
  BY <1>1, CarefulFacts DEF TypeOK, KeptInv, RequestInv, CacheInv, AllAgree, Pending, Restarts
<1>5. KeptInv' /\ RequestInv'
  BY <1>1, CarefulFacts DEF TypeOK, KeptInv, RequestInv, Restarts
<1>6. PositionInv'
  BY <1>1, CarefulFacts DEF TypeOK, KeptInv, RequestInv, PositionInv, Pending, Restarts
<1>7. QED
  BY <1>1, <1>2, <1>3, <1>4, <1>5, <1>6 DEF IInv

\* What is put back was removed, and the cache is not quantized.
LEMMA EagleUpdateDraftKeeps == ASSUME IInv, NEW i \in 0 .. MaxAdd, EagleUpdateDraft(i) PROVE IInv'
<1> USE DEF EagleUpdateDraft
<1>1. /\ TypeOK /\ CapacityRespected /\ CacheInv /\ KeptInv /\ RequestInv /\ PositionInv
      /\ config \in Config /\ Careful(config) /\ config' = config
  BY DEF IInv, TypeOK
<1>2. TypeOK'
  BY <1>1 DEF TypeOK, RequestInv, CacheInv, AllAgree
<1>3. CapacityRespected'
  BY <1>1 DEF TypeOK, RequestInv, CacheInv, AllAgree, CapacityRespected, Pending
<1>4. CacheInv'
  BY <1>1, CarefulFacts DEF TypeOK, KeptInv, RequestInv, CacheInv, AllAgree, Pending, Restarts
<1>5. KeptInv' /\ RequestInv'
  BY <1>1, CarefulFacts DEF TypeOK, KeptInv, RequestInv, Restarts
<1>6. PositionInv'
  BY <1>1, CarefulFacts DEF TypeOK, KeptInv, RequestInv, PositionInv, Pending, Restarts
<1>7. QED
  BY <1>1, <1>2, <1>3, <1>4, <1>5, <1>6 DEF IInv

\* The last tree stays in the caches; the next answer starts anew.
LEMMA EagleStopsKeeps == ASSUME IInv, EagleStops PROVE IInv'
<1> USE DEF EagleStops
<1>1. /\ TypeOK /\ CapacityRespected /\ CacheInv /\ KeptInv /\ RequestInv /\ PositionInv
      /\ config \in Config /\ Careful(config) /\ config' = config
  BY DEF IInv, TypeOK
<1>2. TypeOK'
  BY <1>1 DEF TypeOK, RequestInv, CacheInv, AllAgree
<1>3. CapacityRespected'
  BY <1>1 DEF TypeOK, RequestInv, CacheInv, AllAgree, CapacityRespected, Pending
<1>4. CacheInv'
  BY <1>1, CarefulFacts DEF TypeOK, KeptInv, RequestInv, CacheInv, AllAgree, Pending, Restarts
<1>5. KeptInv' /\ RequestInv'
  BY <1>1, CarefulFacts DEF TypeOK, KeptInv, RequestInv, Restarts
<1>6. PositionInv'
  BY <1>1, CarefulFacts DEF TypeOK, KeptInv, RequestInv, PositionInv, Pending, Restarts
<1>7. QED
  BY <1>1, <1>2, <1>3, <1>4, <1>5, <1>6 DEF IInv

\* Nothing is to be put back when an answer ends.
LEMMA StopKeeps == ASSUME IInv, Stop PROVE IInv'
<1> USE DEF Stop, May
<1>1. /\ TypeOK /\ CapacityRespected /\ CacheInv /\ KeptInv /\ RequestInv /\ PositionInv
      /\ config \in Config /\ Careful(config) /\ config' = config
  BY DEF IInv, TypeOK
<1>2. TypeOK'
  BY <1>1 DEF TypeOK, RequestInv, CacheInv, AllAgree
<1>3. CapacityRespected'
  BY <1>1 DEF TypeOK, RequestInv, CacheInv, AllAgree, CapacityRespected, Pending
<1>4. CacheInv'
  BY <1>1, CarefulFacts DEF TypeOK, KeptInv, RequestInv, CacheInv, AllAgree, Pending, Restarts
<1>5. KeptInv' /\ RequestInv'
  BY <1>1, CarefulFacts DEF TypeOK, KeptInv, RequestInv, Restarts
<1>6. PositionInv'
  BY <1>1, CarefulFacts DEF TypeOK, KeptInv, RequestInv, PositionInv, Pending, Restarts
<1>7. QED
  BY <1>1, <1>2, <1>3, <1>4, <1>5, <1>6 DEF IInv

\* Lengths and positions match whenever an answer can be resumed.
LEMMA ResumeKeeps == ASSUME IInv, Resume PROVE IInv'
<1> USE DEF Resume, May
<1>1. /\ TypeOK /\ CapacityRespected /\ CacheInv /\ KeptInv /\ RequestInv /\ PositionInv
      /\ config \in Config /\ Careful(config) /\ config' = config
  BY DEF IInv, TypeOK
<1>2. TypeOK'
  BY <1>1 DEF TypeOK, RequestInv, CacheInv, AllAgree
<1>3. CapacityRespected'
  BY <1>1 DEF TypeOK, RequestInv, CacheInv, AllAgree, CapacityRespected, Pending
<1>4. CacheInv'
  BY <1>1, CarefulFacts DEF TypeOK, KeptInv, RequestInv, CacheInv, AllAgree, Pending, Restarts
<1>5. KeptInv' /\ RequestInv'
  BY <1>1, CarefulFacts DEF TypeOK, KeptInv, RequestInv, Restarts
<1>6. PositionInv'
  BY <1>1, CarefulFacts DEF TypeOK, KeptInv, RequestInv, PositionInv, Pending, Restarts
<1>7. QED
  BY <1>1, <1>2, <1>3, <1>4, <1>5, <1>6 DEF IInv

\* Nothing was to be put back.
LEMMA ResetKeeps == ASSUME IInv, Reset PROVE IInv'
<1> USE DEF Reset, May
<1>1. /\ TypeOK /\ CapacityRespected /\ CacheInv /\ KeptInv /\ RequestInv /\ PositionInv
      /\ config \in Config /\ Careful(config) /\ config' = config
  BY DEF IInv, TypeOK
<1>2. TypeOK'
  BY <1>1 DEF TypeOK, RequestInv, CacheInv, AllAgree
<1>3. CapacityRespected'
  BY <1>1 DEF TypeOK, RequestInv, CacheInv, AllAgree, CapacityRespected, Pending
<1>4. CacheInv'
  BY <1>1, CarefulFacts DEF TypeOK, KeptInv, RequestInv, CacheInv, AllAgree, Pending, Restarts
<1>5. KeptInv' /\ RequestInv'
  BY <1>1, CarefulFacts DEF TypeOK, KeptInv, RequestInv, Restarts
<1>6. PositionInv'
  BY <1>1, CarefulFacts DEF TypeOK, KeptInv, RequestInv, PositionInv, Pending, Restarts
<1>7. QED
  BY <1>1, <1>2, <1>3, <1>4, <1>5, <1>6 DEF IInv

\* In a careful configuration a partial erasure finds the caches in step.
LEMMA EraseHistoryKeeps == ASSUME IInv, NEW begin \in 0 .. MaxLength, NEW end \in 0 .. MaxLength, EraseHistory(begin, end) PROVE IInv'
<1> USE DEF EraseHistory, Erasable, May
<1>1. /\ TypeOK /\ CapacityRespected /\ CacheInv /\ KeptInv /\ RequestInv /\ PositionInv
      /\ config \in Config /\ Careful(config) /\ config' = config
  BY DEF IInv, TypeOK
<1>2. TypeOK'
  BY <1>1 DEF TypeOK, RequestInv, CacheInv, AllAgree
<1>3. CapacityRespected'
  BY <1>1 DEF TypeOK, RequestInv, CacheInv, AllAgree, CapacityRespected, Pending
<1>4. CacheInv'
  BY <1>1, CarefulFacts DEF TypeOK, KeptInv, RequestInv, CacheInv, AllAgree, Pending, Restarts
<1>5. KeptInv' /\ RequestInv'
  BY <1>1, CarefulFacts DEF TypeOK, KeptInv, RequestInv, Restarts
<1>6. PositionInv'
  BY <1>1, CarefulFacts DEF TypeOK, KeptInv, RequestInv, PositionInv, Pending, Restarts
<1>7. QED
  BY <1>1, <1>2, <1>3, <1>4, <1>5, <1>6 DEF IInv

\* The caches are emptied before the kept tokens are computed again.
LEMMA EraseReplayKeeps == ASSUME IInv, NEW begin \in 0 .. MaxLength, NEW end \in 0 .. MaxLength, EraseReplay(begin, end) PROVE IInv'
<1> USE DEF EraseReplay, Erasable, May
<1>1. /\ TypeOK /\ CapacityRespected /\ CacheInv /\ KeptInv /\ RequestInv /\ PositionInv
      /\ config \in Config /\ Careful(config) /\ config' = config
  BY DEF IInv, TypeOK
<1>2. TypeOK'
  BY <1>1 DEF TypeOK, RequestInv, CacheInv, AllAgree
<1>3. CapacityRespected'
  BY <1>1 DEF TypeOK, RequestInv, CacheInv, AllAgree, CapacityRespected, Pending
<1>4. CacheInv'
  BY <1>1, CarefulFacts DEF TypeOK, KeptInv, RequestInv, CacheInv, AllAgree, Pending, Restarts
<1>5. KeptInv' /\ RequestInv'
  BY <1>1, CarefulFacts DEF TypeOK, KeptInv, RequestInv, Restarts
<1>6. PositionInv'
  BY <1>1, CarefulFacts DEF TypeOK, KeptInv, RequestInv, PositionInv, Pending, Restarts
<1>7. QED
  BY <1>1, <1>2, <1>3, <1>4, <1>5, <1>6 DEF IInv

\* Every step of the engine and of its layers.
LEMMA NextIInv == ASSUME IInv, [Next]_vars PROVE IInv'
<1>1. CASE UNCHANGED vars
  <2>1. /\ TypeOK' = TypeOK /\ Careful(config)' = Careful(config)
        /\ CapacityRespected' = CapacityRespected
    BY <1>1 DEF TypeOK, CapacityRespected
  <2>2. /\ CacheInv' = CacheInv /\ KeptInv' = KeptInv
        /\ RequestInv' = RequestInv /\ PositionInv' = PositionInv
    BY <1>1 DEF CacheInv, KeptInv, RequestInv, PositionInv, AllAgree, Restarts, Pending
  <2>3. QED
    BY <2>1, <2>2 DEF IInv
<1>2. CASE Attention
  BY <1>2, AttentionKeeps
<1>3. CASE ForwardEnds
  BY <1>3, ForwardEndsKeeps
<1>4. CASE ForwardFails
  BY <1>4, ForwardFailsKeeps
<1>5. CASE ForwardUnread
  BY <1>5, ForwardUnreadKeeps
<1>6. CASE Response
  BY <1>6, ResponseKeeps
<1>7. CASE ResponseChat
  BY <1>7, ResponseChatKeeps
<1>8. CASE ResponseDelta
  BY <1>8, ResponseDeltaKeeps
<1>9. CASE EmptyPrompt
  BY <1>9, EmptyPromptKeeps
<1>10. CASE \E n \in 1 .. MaxAdd : Prefill(n) \/ Decode(n)
  BY <1>10, PrefillKeeps, DecodeKeeps
<1>11. CASE \E i \in 0 .. MaxAdd : DraftVerify(i) \/ EagleUpdateDraft(i)
  BY <1>11, DraftVerifyKeeps, EagleUpdateDraftKeeps
<1>12. CASE EagleStops
  BY <1>12, EagleStopsKeeps
<1>13. CASE Stop
  BY <1>13, StopKeeps
<1>14. CASE Resume
  BY <1>14, ResumeKeeps
<1>15. CASE Reset
  BY <1>15, ResetKeeps
<1>16. CASE \E begin, end \in 0 .. MaxLength : EraseHistory(begin, end) \/ EraseReplay(begin, end)
  BY <1>16, EraseHistoryKeeps, EraseReplayKeeps
<1>17. QED
  BY <1>1, <1>2, <1>3, <1>4, <1>5, <1>6, <1>7, <1>8, <1>9, <1>10, <1>11,
     <1>12, <1>13, <1>14, <1>15, <1>16 DEF Next

-----------------------------------------------------------------------------
(* The theorems.                                                           *)

\* The inductive invariant holds with every set of careful configurations.
THEOREM Invariance == ASSUME \A c \in Configs : Careful(c) PROVE Spec => []IInv
<1>1. Init => IInv
  BY InitIInv
<1>2. IInv /\ [Next]_vars => IInv'
  BY NextIInv
<1>3. QED
  BY <1>1, <1>2, PTL DEF Spec

\* The KVMeta, the positions and the lengths of the caches stay well typed: no
\* unsigned length of it ever goes below zero.
THEOREM TypeCorrect == ASSUME \A c \in Configs : Careful(c) PROVE Spec => []TypeOK
<1>1. IInv => TypeOK
  BY DEF IInv
<1>2. QED
  BY <1>1, Invariance, PTL

\* The assertion of CPUAttention::onExecute: every layer that extends its cache
\* finds as many entries in it as the engine believes there are.
THEOREM LengthsRight == ASSUME \A c \in Configs : Careful(c) PROVE Spec => []LengthsAgree
<1>1. IInv => LengthsAgree
  BY DEF IInv, TypeOK, CacheInv, LengthsAgree
<1>2. QED
  BY <1>1, Invariance, PTL

\* onRealloc always makes enough room for what onUpdateKV writes.
THEOREM CapacityRight == ASSUME \A c \in Configs : Careful(c) PROVE Spec => []CapacityRespected
<1>1. IInv => CapacityRespected
  BY DEF IInv
<1>2. QED
  BY <1>1, Invariance, PTL

\* The positions and the mask of a forward continue the entries in the caches.
THEOREM PositionsRight == ASSUME \A c \in Configs : Careful(c) PROVE Spec => []PositionsMatch
<1>1. IInv => PositionsMatch
  BY DEF IInv, PositionInv, PositionsMatch
<1>2. QED
  BY <1>1, Invariance, PTL

\* No forward removes more than there is, or puts back more than it removes.
THEOREM RemovesRight == ASSUME \A c \in Configs : Careful(c) PROVE Spec => []RemoveWithin
<1>1. IInv => RemoveWithin
  BY DEF IInv, TypeOK, KeptInv, RequestInv, RemoveWithin
<1>2. QED
  BY <1>1, Invariance, PTL
=============================================================================
