------------------------------ MODULE KVPrefix ------------------------------
(***************************************************************************)
(* The prefix cache: Llm::setPrefixCacheFile and the prompts after it, and  *)
(* what CPUKVCacheManager does for them.  The first prompt, the prefix, is  *)
(* computed into files named by the order in which the layers allocate;     *)
(* markers then say that they are complete, and later processes copy them   *)
(* instead of computing the prefix.  The files of the process that writes   *)
(* them stay its live cache: it appends to them, cuts them, and rewrites    *)
(* them from scratch when they have to grow.  Processes come one after the  *)
(* other and are killed at any point.                                       *)
(*                                                                         *)
(* kvcache_mmap and reuse_kv are on, as setPrefixCacheFile requires and its *)
(* callers set.  A buffer is a sequence of entries, as long as mMaxLength;  *)
(* its key and value files are handled alike and are one sequence here.     *)
(***************************************************************************)
EXTENDS Integers, Sequences

CONSTANTS
    N,              \* layers that own a cache (mPrefixCacheNums)
    LayerNums,      \* all layers (layer_nums), with those that share a cache
    PrefixLen,      \* tokens of the prefix
    ExpandChunk,    \* KVCacheConfig::mExpandChunk
    Tokens,         \* the tokens of other prompts
    Answers,        \* the tokens of the answers
    MaxLength,      \* bound: tokens of a conversation
    Liberties,      \* what may also happen, of AllLiberties
    Temp, None, Zero

AllLiberties == {"crashInGrowth",   \* a process is killed while it rewrites a file
                 "erasePrefix",     \* eraseHistory into the prefix
                 "resetUnread",     \* reset before a prefix that is not loaded yet
                 "failRead",        \* the forward that loads the prefix fails
                 "extendTorn",      \* the next prompt extends caches that a failure has torn
                 "setInConversation"}  \* setPrefixCacheFile with something in the caches

ASSUME PrefixAssumption ==
    /\ N \in Nat \ {0} /\ LayerNums \in Nat /\ N <= LayerNums
    /\ PrefixLen \in Nat \ {0} /\ {ExpandChunk, MaxLength} \subseteq Nat
    /\ Liberties \subseteq AllLiberties
    /\ Temp \notin Nat /\ None \notin Nat

Layers == 1 .. N
Files  == 0 .. LayerNums - 1
Owned  == 0 .. N - 1
Prefix == [i \in 1 .. PrefixLen |-> i]

VARIABLES
    data,           \* the files of the prefix: each a buffer, or <<>>: missing
    marks,          \* the markers there are: <<file, "k">> and <<file, "v">>
    mPrefixCacheMode, mCallIndex, mIsPrefixFileExist,
    file_flag,      \* "none", "write" or "read"
    layer_index,
    previous, remove,
    home,           \* where each layer's cache is: a file, Temp or None
    temp,           \* the layers' buffers in files of their own
    past,           \* mPastLength of each layer
    pc,             \* "idle", "layers", "grow", "decode" or "mark"
    layer,          \* the next layer of the forward
    add,            \* its tokens
    rest,           \* tokens of the prompt that are left for further forwards
    chunked,        \* whether the prompt is taken in chunks
    answering,      \* whether the forward is for a token of the answer
    grown,          \* what expandKVCacheInDisk has set aside
    hist,           \* history: the tokens of the conversation
    torn            \* history: a forward has failed when some layers, and not
                    \* previous, had its tokens already

diskVars == <<data, marks>>
modeVars == <<mPrefixCacheMode, mCallIndex, mIsPrefixFileExist, file_flag, layer_index>>
metaVars == <<previous, remove>>
kvVars   == <<home, temp, past>>
runVars  == <<pc, layer, add, rest, chunked, answering, grown>>
histVars == <<hist, torn>>
vars == <<diskVars, modeVars, metaVars, kvVars, runVars, histVars>>

Init ==
    /\ data = [f \in Files |-> <<>>] /\ marks = {}
    /\ mPrefixCacheMode = FALSE /\ mCallIndex = 0 /\ mIsPrefixFileExist = FALSE
    /\ file_flag = "none" /\ layer_index = 0
    /\ previous = 0 /\ remove = 0
    /\ home = [l \in Layers |-> None] /\ temp = [l \in Layers |-> <<>>]
    /\ past = [l \in Layers |-> 0]
    /\ pc = "idle" /\ layer = 1 /\ add = <<>> /\ rest = <<>> /\ chunked = FALSE
    /\ answering = FALSE /\ grown = <<>>
    /\ hist = <<>> /\ torn = FALSE

\* The process is killed or ends, and another one is started.
Restart ==
    /\ pc = "grow" => "crashInGrowth" \in Liberties
    /\ mPrefixCacheMode' = FALSE /\ mCallIndex' = 0 /\ mIsPrefixFileExist' = FALSE
    /\ file_flag' = "none" /\ layer_index' = 0
    /\ previous' = 0 /\ remove' = 0
    /\ home' = [l \in Layers |-> None] /\ temp' = [l \in Layers |-> <<>>]
    /\ past' = [l \in Layers |-> 0]
    /\ pc' = "idle" /\ layer' = 1 /\ add' = <<>> /\ rest' = <<>> /\ chunked' = FALSE
    /\ answering' = FALSE /\ grown' = <<>>
    /\ hist' = <<>> /\ torn' = FALSE
    /\ UNCHANGED diskVars

-----------------------------------------------------------------------------
(* Llm::setPrefixCacheFile.                                                *)

\* The markers of all files are there, and the files are not empty.
Usable == Owned \X {"k", "v"} \subseteq marks /\ \A f \in Owned : data[f] # <<>>

\* The mapping of a removed file stays, but no other process will find it.
SetPrefixCacheFile ==
    /\ pc = "idle"
    /\ previous # remove \/ hist # <<>> => "setInConversation" \in Liberties
    /\ mPrefixCacheMode' = TRUE /\ mCallIndex' = 0 /\ layer_index' = 0
    /\ mIsPrefixFileExist' = Usable
    /\ IF Usable THEN UNCHANGED <<diskVars, home, temp>>
       ELSE /\ data' = [f \in Files |-> <<>>] /\ marks' = {}
            /\ home' = [l \in Layers |-> IF home[l] \in Files THEN Temp ELSE home[l]]
            /\ temp' = [l \in Layers |-> IF home[l] \in Files THEN data[home[l]] ELSE temp[l]]
    /\ UNCHANGED <<file_flag, metaVars, past, runVars, histVars>>

-----------------------------------------------------------------------------
(* A forward in one layer: onClear and onAlloc, or onRealloc; onUpdateKV.   *)

Entries(l, tokens) == [i \in 1 .. Len(tokens) |-> <<l, tokens[i]>>]
Zeros(n) == [i \in 1 .. n |-> Zero]
Resized(buf, n) == SubSeq(buf \o Zeros(n), 1, n)

\* buf with entries written behind its first len ones.
Put(buf, len, entries) ==
    [i \in 1 .. Len(buf) |-> IF i \in len + 1 .. len + Len(entries) THEN entries[i - len] ELSE buf[i]]

Buffer(l) == IF home[l] \in Files THEN data[home[l]] ELSE temp[l]

\* The buffer of layer l becomes buf; where it lives is not changed.
SetBuffer(l, buf) ==
    IF home[l] \in Files THEN data' = [data EXCEPT ![home[l]] = buf] /\ UNCHANGED temp
    ELSE temp' = [temp EXCEPT ![l] = buf] /\ UNCHANGED data

Allocates == pc = "layers" /\ layer \in Layers /\ previous = remove

\* Mutant: the index wraps around one layer too late.
NextIndexOfAll(i) == (i + 1) % (LayerNums + 1)

NextIndex(i) == (i + 1) % LayerNums

LayerDone ==
    /\ layer' = layer + 1
    /\ UNCHANGED <<marks, mPrefixCacheMode, mCallIndex, mIsPrefixFileExist, file_flag, metaVars,
                   pc, add, rest, chunked, answering, grown, histVars>>

\* A plain allocation, in a file of the layer's own.
AllocTemp ==
    /\ Allocates /\ file_flag = "none"
    /\ home' = [home EXCEPT ![layer] = Temp]
    /\ temp' = [temp EXCEPT ![layer] = Put(Zeros(Len(add) + ExpandChunk), 0, Entries(layer, add))]
    /\ past' = [past EXCEPT ![layer] = Len(add)]
    /\ layer_index' = NextIndex(layer_index)
    /\ LayerDone /\ UNCHANGED data

\* sharePrefixKv: the cache lives in the file that keeps the prefix.
AllocWrite ==
    /\ Allocates /\ file_flag = "write"
    /\ home' = [home EXCEPT ![layer] = layer_index]
    /\ data' = [data EXCEPT ![layer_index] = Put(Zeros(Len(add) + ExpandChunk), 0, Entries(layer, add))]
    /\ past' = [past EXCEPT ![layer] = Len(add)]
    /\ temp' = [temp EXCEPT ![layer] = <<>>]
    /\ layer_index' = NextIndex(layer_index)
    /\ LayerDone

\* A copy of a prefix file with room for n more entries.
Loaded(buf, n) ==
    LET need == n + PrefixLen
    IN  Resized(buf, IF need > Len(buf) THEN need + ExpandChunk ELSE Len(buf))

\* The pending read: the prefix is copied and the prompt put behind it.
AllocRead ==
    /\ Allocates /\ file_flag = "read"
    /\ home' = [home EXCEPT ![layer] = Temp]
    /\ temp' = [temp EXCEPT ![layer] = Put(Loaded(data[layer_index], Len(add)), PrefixLen, Entries(layer, add))]
    /\ past' = [past EXCEPT ![layer] = PrefixLen + Len(add)]
    /\ layer_index' = NextIndex(layer_index)
    /\ LayerDone /\ UNCHANGED data

Extends == pc = "layers" /\ layer \in Layers /\ previous # remove

Needs == previous - remove + Len(add)

\* onRealloc of a buffer that is large enough.
Realloc ==
    /\ Extends /\ Needs <= Len(Buffer(layer))
    /\ SetBuffer(layer, Put(Buffer(layer), past[layer] - remove, Entries(layer, add)))
    /\ past' = [past EXCEPT ![layer] = @ - remove + Len(add)]
    /\ LayerDone /\ UNCHANGED <<layer_index, home>>

\* expandKVCacheInDisk: the file is resized and cleared ...
GrowBegin ==
    /\ Extends /\ Needs > Len(Buffer(layer))
    /\ grown' = Buffer(layer)
    /\ SetBuffer(layer, Zeros(Needs + ExpandChunk))
    /\ pc' = "grow"
    /\ UNCHANGED <<marks, modeVars, metaVars, home, past, layer, add, rest, chunked, answering, histVars>>

\* ... and filled again.
GrowEnd ==
    /\ pc = "grow"
    /\ SetBuffer(layer, Put(Buffer(layer), 0, grown))
    /\ grown' = <<>> /\ pc' = "layers"
    /\ UNCHANGED <<marks, modeVars, metaVars, home, past, layer, add, rest, chunked, answering, histVars>>

-----------------------------------------------------------------------------
(* Llm::generate.                                                          *)

Forward(tokens) == pc' = "layers" /\ layer' = 1 /\ add' = tokens

NoForward == layer' = 1 /\ add' = <<>> /\ rest' = <<>>

\* The prompt of the next call: after setPrefixCacheFile first the prefix.
Prompts == IF mPrefixCacheMode /\ mCallIndex = 0 THEN {Prefix}
           ELSE {<<t>> : t \in Tokens} \cup {<<t, t>> : t \in Tokens}

\* The prefix is known: nothing is computed.
Pass ==
    /\ pc = "idle" /\ mPrefixCacheMode /\ mCallIndex = 0 /\ mIsPrefixFileExist
    /\ mCallIndex' = 1
    /\ hist' = hist \o Prefix
    /\ UNCHANGED <<diskVars, mPrefixCacheMode, mIsPrefixFileExist, file_flag, layer_index,
                   metaVars, kvVars, runVars, torn>>

Generate(prompt, inChunks) ==
    /\ pc = "idle"
    /\ ~(mPrefixCacheMode /\ mCallIndex = 0 /\ mIsPrefixFileExist)
    /\ inChunks => Len(prompt) > 1
    /\ torn /\ previous # remove => "extendTorn" \in Liberties
    /\ Len(hist) + Len(prompt) <= MaxLength
    /\ mCallIndex' = IF mPrefixCacheMode /\ mCallIndex < 3 THEN mCallIndex + 1 ELSE mCallIndex
    /\ file_flag' = IF mPrefixCacheMode /\ mCallIndex' = 1 THEN "write"
                    ELSE IF mPrefixCacheMode /\ mCallIndex' = 2 /\ mIsPrefixFileExist THEN "read"
                    ELSE file_flag
    /\ chunked' = inChunks
    /\ IF inChunks THEN Forward(<<Head(prompt)>>) /\ rest' = Tail(prompt)
                   ELSE Forward(prompt) /\ rest' = <<>>
    /\ hist' = hist \o prompt /\ torn' = (torn /\ previous # remove)
    /\ UNCHANGED <<diskVars, mPrefixCacheMode, mIsPrefixFileExist, layer_index, metaVars, kvVars, answering, grown>>

\* Whether completePrefixWrite has something to do.
Completes == mPrefixCacheMode /\ mCallIndex = 1 /\ ~mIsPrefixFileExist

\* Mutant: the prefix is not counted.
ReadLengthNone == 0

\* What the second call of a prefix session adds to the length after its first forward.
ReadLength == IF mPrefixCacheMode /\ mCallIndex = 2 /\ mIsPrefixFileExist THEN PrefixLen ELSE 0

\* sync after the layers, and the end of a prefix session; more: of the prompt follows.
ForwardSyncs(more) ==
    /\ pc = "layers" /\ layer = N + 1
    /\ previous' = previous - remove + Len(add) + ReadLength
    /\ remove' = 0
    /\ mPrefixCacheMode' = (mPrefixCacheMode /\ mCallIndex # 2)
    /\ IF mPrefixCacheMode /\ (mCallIndex = 2 \/ (mCallIndex = 1 /\ ~more))
       THEN file_flag' = "none" /\ layer_index' = 0
       ELSE UNCHANGED <<file_flag, layer_index>>
    /\ UNCHANGED <<diskVars, mCallIndex, mIsPrefixFileExist, kvVars, chunked, answering, grown, torn>>

\* The next chunk of the prompt.
NextChunk ==
    /\ ForwardSyncs(TRUE) /\ rest # <<>>
    /\ Forward(<<Head(rest)>>) /\ rest' = Tail(rest)
    /\ UNCHANGED hist

\* The time is up between two chunks: the others are given up.
TimesOut ==
    /\ ForwardSyncs(FALSE) /\ rest # <<>>
    /\ pc' = "idle" /\ NoForward
    /\ hist' = SubSeq(hist, 1, Len(hist) - Len(rest))

\* The prompt, or a token of the answer, is done: a prefix taken in chunks is
\* marked (unless the time is up) before the answer, another one after it.
ForwardEnds ==
    /\ ForwardSyncs(FALSE) /\ rest = <<>>
    /\ pc' \in IF Completes /\ chunked /\ ~answering THEN {"mark", "idle"} ELSE {"decode"}
    /\ NoForward
    /\ UNCHANGED hist

\* Mutant: the status is not checked before the files are marked.
AfterFailureMarks == IF Completes THEN {"mark"} ELSE {"idle"}

\* Where a failed forward leads: completePrefixWrite checks the status first, in
\* which an answer of full length hides that its last outputs could not be read.
AfterFailure ==
    {"idle"} \cup IF Completes /\ answering /\ ~chunked /\ layer = N + 1 THEN {"mark"} ELSE {}

\* A forward fails when some of the layers, or none, or all have its tokens.
\* There is no sync, and what the layers have done is not taken back.
ForwardFails ==
    /\ pc = "layers"
    /\ file_flag = "read" => "failRead" \in Liberties
    /\ pc' \in AfterFailure /\ NoForward
    /\ chunked' = FALSE /\ answering' = FALSE
    /\ IF Completes THEN file_flag' = "none" /\ layer_index' = 0 ELSE UNCHANGED <<file_flag, layer_index>>
    /\ hist' = SubSeq(hist, 1, previous - remove)
    /\ torn' = (torn \/ (previous # remove /\ layer > 1))
    /\ UNCHANGED <<diskVars, mPrefixCacheMode, mCallIndex, mIsPrefixFileExist, metaVars, kvVars, grown>>

Decode(t) ==
    /\ pc = "decode" /\ Len(hist) < MaxLength
    /\ Forward(<<t>>)
    /\ answering' = TRUE
    /\ hist' = Append(hist, t)
    /\ UNCHANGED <<diskVars, modeVars, metaVars, kvVars, rest, chunked, grown, torn>>

\* The answer is complete, or was given up: only a complete one is marked.
DecodeEnds ==
    /\ pc = "decode"
    /\ pc' \in IF Completes /\ ~chunked THEN {"mark", "idle"} ELSE {"idle"}
    /\ answering' = FALSE /\ chunked' = FALSE
    /\ UNCHANGED <<diskVars, modeVars, metaVars, kvVars, layer, add, rest, grown, histVars>>

\* completePrefixWrite marks the files there are.
Marks(f, kind) == data[f] # <<>>

\* completePrefixWrite, one marker after the other.
Mark ==
    /\ pc = "mark"
    /\ LET order == [i \in 1 .. 2 * N |-> <<(i - 1) \div 2, IF i % 2 = 1 THEN "k" ELSE "v">>]
           todo  == {i \in DOMAIN order : order[i] \notin marks /\ Marks(order[i][1], order[i][2])}
       IN  IF todo = {} THEN /\ pc' = (IF chunked THEN "decode" ELSE "idle")
                             /\ UNCHANGED marks
           ELSE /\ \E i \in todo : (\A j \in todo : i <= j) /\ marks' = marks \cup {order[i]}
                /\ UNCHANGED pc
    /\ UNCHANGED <<data, modeVars, metaVars, kvVars, layer, add, rest, chunked, answering, grown, histVars>>

-----------------------------------------------------------------------------
(* Requests between two calls.                                             *)

\* The prefix is in the conversation, but not in the caches yet.
Unread == mPrefixCacheMode /\ mIsPrefixFileExist /\ mCallIndex = 1

Reset ==
    /\ pc = "idle"
    /\ Unread => "resetUnread" \in Liberties
    /\ remove' = previous /\ hist' = <<>>
    /\ UNCHANGED <<diskVars, modeVars, previous, kvVars, runVars, torn>>

\* eraseHistory(begin, end of the history), of tokens that are still wanted.
EraseHistory(begin) ==
    /\ pc = "idle"
    /\ begin < previous - remove
    /\ begin > 0 /\ begin < PrefixLen => "erasePrefix" \in Liberties
    /\ remove' = previous - begin
    /\ hist' = SubSeq(hist, 1, begin)
    /\ UNCHANGED <<diskVars, modeVars, previous, kvVars, runVars, torn>>

Next ==
    \/ Restart \/ SetPrefixCacheFile
    \/ AllocTemp \/ AllocWrite \/ AllocRead \/ Realloc \/ GrowBegin \/ GrowEnd
    \/ Pass \/ \E prompt \in Prompts, inChunks \in BOOLEAN : Generate(prompt, inChunks)
    \/ NextChunk \/ TimesOut \/ ForwardEnds \/ ForwardFails
    \/ \E t \in Answers : Decode(t)
    \/ DecodeEnds \/ Mark
    \/ Reset \/ \E begin \in 0 .. MaxLength : EraseHistory(begin)

Spec == Init /\ [][Next]_vars

-----------------------------------------------------------------------------
(* Properties.                                                             *)

TypeOK ==
    /\ marks \subseteq Owned \X {"k", "v"}
    /\ mPrefixCacheMode \in BOOLEAN /\ mIsPrefixFileExist \in BOOLEAN /\ mCallIndex \in Nat
    /\ file_flag \in {"none", "write", "read"} /\ layer_index \in Files
    /\ previous \in Nat /\ remove \in 0 .. previous
    /\ home \in [Layers -> Files \cup {Temp, None}]
    /\ past \in [Layers -> Nat]
    /\ pc \in {"idle", "layers", "grow", "decode", "mark"}
    /\ layer \in 1 .. N + 1 /\ torn \in BOOLEAN

\* At rest every layer's cache begins with its own entries of the whole
\* conversation: it makes no difference to an answer whether its prefix was
\* computed or found, by whom, and what has been erased.  A forward that fails,
\* wherever it fails, takes its own tokens out of the conversation and damages
\* none of the others.  Layers it has passed are left ahead of previous, though:
\* only caches that are not torn end where KVMeta says.
HistoryIntact ==
    pc \in {"idle", "decode", "mark"} /\ ~Unread =>
      /\ Len(hist) = previous - remove
      /\ \A l \in Layers : hist # <<>> =>
           /\ torn \/ past[l] = previous
           /\ SubSeq(Buffer(l), 1, Len(hist)) = Entries(l, hist)

\* A layer whose cache is extended holds as much as KVMeta says, as CPUAttention
\* asserts: also after a prefix that was found, an erasure and a failure.  A prompt
\* that follows a forward which failed half-way breaks it, with extendTorn.
LayersAtPrevious == Extends => past[layer] = previous

\* Files that setPrefixCacheFile has found usable hold the prefix of their layer
\* until they have been read: whatever the process that wrote them did later,
\* and wherever it was killed.
FilesTrustworthy ==
    mPrefixCacheMode /\ mIsPrefixFileExist =>
      \A f \in Owned : Len(data[f]) >= PrefixLen /\ SubSeq(data[f], 1, PrefixLen) = Entries(f + 1, Prefix)
=============================================================================
