------------------------------ MODULE KVLayout ------------------------------
(***************************************************************************)
(* Where CPUKVCacheManager (source/backend/cpu) keeps the entries of one    *)
(* attention layer.  Keys and values are packed for the matrix products, in *)
(* tiles of hP by lP, head after head; values also in chunks of as many     *)
(* entries as flash attention takes at a time, or in one chunk as long as   *)
(* the buffer.  A cache that outgrows its buffer is copied to another shape,*)
(* entries that survive a removal are moved forward in place, and a file    *)
(* left by another process is taken over with the shape its size suggests.  *)
(*                                                                         *)
(* The unquantized layouts, in memory and in mapped files.  A cell holds    *)
(* the number <<token, head, dim>> it was given, Zero, or Garbage.          *)
(***************************************************************************)
EXTENDS Integers, Sequences, FiniteSets, SequencesExt, FiniteSetsExt

CONSTANTS
    mKvNumHead, mHeadDim,
    hP, lP,         \* the tile of MNNGetMatMulPackMode
    ChunkKv,        \* flashAttentionChunkKv
    ExpandChunk,    \* KVCacheConfig::mExpandChunk
    Configs,        \* [flash, disk, single]: mUseFlashAttention, files, one thread
    MaxAdd,         \* bound: entries added by a forward
    MaxTokens,      \* bound: entries added at all
    Zero, Garbage, None

ASSUME LayoutAssumption ==
    /\ {mKvNumHead, mHeadDim, hP, lP, ChunkKv} \subseteq Nat \ {0}
    /\ ChunkKv % hP = 0 /\ ChunkKv % lP = 0
    /\ {ExpandChunk, MaxAdd, MaxTokens} \subseteq Nat
    /\ Configs \subseteq [flash : BOOLEAN, disk : BOOLEAN, single : BOOLEAN]

Heads == 0 .. mKvNumHead - 1
Dims  == 0 .. mHeadDim - 1

VARIABLES
    config,
    key, value,     \* the two buffers: functions from offsets to cells
    mPastLength, mMaxLength,
    saved,          \* prefix files: [key, value, log], or None
    log,            \* history: the tokens whose entries the cache holds
    tokens          \* history: how many there have been

vars == <<config, key, value, mPastLength, mMaxLength, saved, log, tokens>>

UpDiv(n, m)   == (n + m - 1) \div m
RoundUp(n, m) == UpDiv(n, m) * m

-----------------------------------------------------------------------------
(* The shape of the buffers, as mMaxLength decides it.                      *)

\* mFlashAttentionUpperKv.
UpperKv(max) == IF config.flash THEN ChunkKv ELSE max

\* mCurrentKeySizePerHead, mCurrentValueSizePerHead.
KeySizePerHead(max)   == RoundUp(max, hP) * RoundUp(mHeadDim, lP)
ValueSizePerHead(max) ==
    UpDiv(max, UpperKv(max)) * RoundUp(mHeadDim, hP) * RoundUp(UpperKv(max), lP)

keyIndex(seq, dim) ==
    (seq \div hP) * RoundUp(mHeadDim, lP) * hP + (dim \div lP) * hP * lP + (seq % hP) * lP + (dim % lP)

\* The first cell of the tile of an entry, in group g of the dimensions.
TileIndex(max, seq, g) ==
    LET stride1 == UpDiv(UpperKv(max), lP) * hP * lP
        stride0 == stride1 * UpDiv(mHeadDim, hP)
    IN  (seq \div UpperKv(max)) * stride0 + g * stride1 + ((seq % UpperKv(max)) \div lP) * hP * lP

valueIndex(max, seq, dim) ==
    TileIndex(max, seq, dim \div hP) + (dim % hP) * lP + ((seq % UpperKv(max)) % lP)

KeyAt(max, h, seq, dim)   == h * KeySizePerHead(max) + keyIndex(seq, dim)
ValueAt(max, h, seq, dim) == h * ValueSizePerHead(max) + valueIndex(max, seq, dim)
At(kind, max, h, seq, dim) == IF kind = "key" THEN KeyAt(max, h, seq, dim) ELSE ValueAt(max, h, seq, dim)

Buffer(size, cell) == [i \in 0 .. size - 1 |-> cell]
Bytes(buffer) == Cardinality(DOMAIN buffer)

\* What is read at an offset, also outside of the buffer.
Cell(buffer, i) == IF i \in DOMAIN buffer THEN buffer[i] ELSE Garbage

\* buffer with these of its cells overwritten (what lies outside is lost).
Overwrite(buffer, cells) == Restrict(cells, DOMAIN cells \cap DOMAIN buffer) @@ buffer

\* count runs of prev cells each, copied to where runs of cur cells begin.
CopyRuns(from, prev, to, cur, count) ==
    FoldLeft(LAMBDA b, r : Overwrite(b, [i \in r * cur .. r * cur + prev - 1 |-> from[r * prev + (i - r * cur)]]),
             to, [j \in 1 .. count |-> j - 1])

\* Mutant: every layout is copied head by head.
CopyValueHeads(from, prevSize, old, to, max) ==
    CopyRuns(from, prevSize, to, ValueSizePerHead(max), mKvNumHead)

\* A head of a chunked layout is one run; without chunks every group of
\* dimensions has a run of its own, as long as the buffer has entries.
CopyValue(from, prevSize, old, to, max) ==
    IF config.flash THEN CopyRuns(from, prevSize, to, ValueSizePerHead(max), mKvNumHead)
    ELSE CopyRuns(from, RoundUp(old, lP) * hP, to, RoundUp(max, lP) * hP, mKvNumHead * UpDiv(mHeadDim, hP))

-----------------------------------------------------------------------------
(* ProcessKey and ProcessValue: n entries behind the last one.              *)

\* The cells of the tiles the new entries are the first ones of.
EnteredTiles(max, past, n) ==
    UNION {LET base == h * ValueSizePerHead(max) + TileIndex(max, s, g) IN base .. base + hP * lP - 1 :
           h \in Heads, g \in 0 .. UpDiv(mHeadDim, hP) - 1,
           s \in {s \in past .. past + n - 1 : (s % UpperKv(max)) % lP = 0}}

\* Mutant: the tile the cache grows into is left as it was allocated.
ClearTilesNot(buffer, max, past, n) == buffer

ClearTiles(buffer, max, past, n) ==
    IF lP = 1 THEN buffer ELSE Overwrite(buffer, [i \in EnteredTiles(max, past, n) |-> Zero])

\* The key or the value buffer with the cells of the new entries written.
Write(kind, buffer, max, past, n) ==
    FoldSet(LAMBDA c, b : [b EXCEPT ![At(kind, max, c[1], past + c[2], c[3])] = <<tokens + 1 + c[2], c[1], c[3]>>],
            buffer, Heads \X (0 .. n - 1) \X Dims)

\* onUpdateKV, after an allocation or a removal has left these buffers.
UpdateKV(k, v, max, past, n, held) ==
    /\ key' = Write("key", k, max, past, n)
    /\ value' = Write("value", ClearTiles(v, max, past, n), max, past, n)
    /\ mMaxLength' = max /\ mPastLength' = past + n
    /\ log' = held \o [i \in 1 .. n |-> tokens + i]
    /\ tokens' = tokens + n
    /\ UNCHANGED config

-----------------------------------------------------------------------------
(* What a forward with n new entries does to the cache.                     *)

Init ==
    /\ config \in Configs
    /\ key = <<>> /\ value = <<>>
    /\ mPastLength = 0 /\ mMaxLength = 0
    /\ saved = None
    /\ log = <<>> /\ tokens = 0

May(n) == tokens + n <= MaxTokens

\* onClear and onAlloc: files start as zeros, memory is cleared where padding is read.
Alloc(n) ==
    LET max == n + ExpandChunk
        k == IF config.disk \/ mHeadDim % lP # 0 THEN Zero ELSE Garbage
        v == IF config.disk \/ (lP > 1 /\ ~(config.flash /\ config.single)) THEN Zero ELSE Garbage
    IN  /\ May(n)
        /\ UpdateKV(Buffer(mKvNumHead * KeySizePerHead(max), k),
                    Buffer(mKvNumHead * ValueSizePerHead(max), v), max, 0, n, <<>>)
        /\ UNCHANGED saved

\* The i-th of the numbers in S.
Nth(S, i) == CHOOSE x \in S : Cardinality({y \in S : y < x}) = i - 1

\* buffer with the entry at src copied over the one at dst.
CopyEntry(kind, buffer, max, src, dst) ==
    FoldSet(LAMBDA c, b : [b EXCEPT ![At(kind, max, c[1], dst, c[2])] = Cell(b, At(kind, max, c[1], src, c[2]))],
            buffer, Heads \X Dims)

\* moveKV of the reserved entries, start + r for r in reserve, one after the
\* other to the places from start on.
MoveKV(kind, buffer, max, start, reserve) ==
    FoldLeft(LAMBDA b, i : CopyEntry(kind, b, max, start + Nth(reserve, i), start + i - 1),
             buffer, [i \in 1 .. Cardinality(reserve) |-> i])

\* Mutant: the buffer is measured without the entries put back.
NeededShort(remove, reserve, n) == mPastLength - remove + n

\* The length onRealloc makes room for.
Needed(remove, reserve, n) == mPastLength + n - remove + Cardinality(reserve)

\* What a buffer for more values holds before the copy.
Cleared == IF config.flash \/ config.disk \/ lP > 1 THEN Zero ELSE Garbage

\* onRealloc: grow if needed, drop the last remove entries, put some of them back.
Realloc(n, remove, reserve) ==
    LET want  == Needed(remove, reserve, n)
        grows == want > mMaxLength
        max   == IF grows THEN want + ExpandChunk ELSE mMaxLength
        k == IF grows THEN CopyRuns(key, KeySizePerHead(mMaxLength),
                                    Buffer(mKvNumHead * KeySizePerHead(max), Zero), KeySizePerHead(max), mKvNumHead)
             ELSE key
        v == IF grows THEN CopyValue(value, ValueSizePerHead(mMaxLength), mMaxLength,
                                     Buffer(mKvNumHead * ValueSizePerHead(max), Cleared), max)
             ELSE value
        start == mPastLength - remove
        past  == start + Cardinality(reserve)
    IN  /\ May(n) /\ remove < mPastLength
        /\ UpdateKV(MoveKV("key", k, max, start, reserve),
                    MoveKV("value", v, max, start, reserve),
                    max, past, n,
                    SubSeq(log, 1, start) \o [i \in 1 .. Cardinality(reserve) |->
                                                log[start + 1 + Nth(reserve, i)]])
        /\ UNCHANGED saved

\* The files of a process that has ended serve as the prefix of another, for
\* their first len entries (seqlen_in_disk).
Save(len) ==
    /\ config.disk /\ saved = None
    /\ saved' = [key |-> key, value |-> value, log |-> SubSeq(log, 1, len)]
    /\ key' = <<>> /\ value' = <<>>
    /\ mPastLength' = 0 /\ mMaxLength' = 0 /\ log' = <<>>
    /\ UNCHANGED <<config, tokens>>

\* The capacity a prefix file is taken to have.
OldMaxLength ==
    Min({Bytes(saved.key) \div (mKvNumHead * RoundUp(mHeadDim, lP)),
         Bytes(saved.value) \div (mKvNumHead * RoundUp(mHeadDim, hP))})

\* onAlloc of a pending read: the files are copied to new ones of another shape.
Load(n) ==
    /\ saved # None /\ May(n)
    /\ LET len  == Len(saved.log)
           old  == OldMaxLength
           max  == IF n + len > old THEN n + len + ExpandChunk ELSE old
           ks   == Max({mKvNumHead * KeySizePerHead(max), Bytes(saved.key)})
           vs   == Max({mKvNumHead * ValueSizePerHead(max), Bytes(saved.value)})
       IN  UpdateKV(CopyRuns(saved.key, Bytes(saved.key) \div mKvNumHead, Buffer(ks, Zero),
                             KeySizePerHead(max), mKvNumHead),
                    CopyValue(saved.value, Bytes(saved.value) \div mKvNumHead, old, Buffer(vs, Zero), max),
                    max, len, n, saved.log)
    /\ saved' = None

Next ==
    \/ \E n \in 1 .. MaxAdd : Alloc(n) \/ Load(n)
    \/ \E n \in 1 .. MaxAdd, remove \in 0 .. mPastLength - 1 :
         \E reserve \in SUBSET (0 .. remove - 1) : Realloc(n, remove, reserve)
    \/ \E len \in 1 .. mPastLength : Save(len)

Spec == Init /\ [][Next]_vars

-----------------------------------------------------------------------------
(* Properties.                                                             *)

TypeOK ==
    /\ config \in Configs
    /\ mMaxLength \in Nat /\ mPastLength \in 0 .. mMaxLength
    /\ Len(log) = mPastLength /\ tokens \in 0 .. MaxTokens

\* Every entry of the history is read back whole, key and value, in every head
\* and dimension, however the buffers were reshaped, compacted or taken over:
\* what attention computes with is what the forwards have appended.
ReadBack ==
    \A h \in Heads, s \in 0 .. mPastLength - 1, d \in Dims :
       /\ Cell(key, KeyAt(mMaxLength, h, s, d)) = <<log[s + 1], h, d>>
       /\ Cell(value, ValueAt(mMaxLength, h, s, d)) = <<log[s + 1], h, d>>

\* The padding that the products read has been initialized: the rest of the tile
\* of the last entry (weight zero times garbage may be NaN), and the dimensions
\* of a key beyond mHeadDim, which are zero.
PaddingClean ==
    \A h \in Heads :
       /\ mPastLength > 0 => \A g \in 0 .. UpDiv(mHeadDim, hP) - 1, i \in 0 .. hP * lP - 1 :
            g * hP + (i \div lP) \in Dims =>
              Cell(value, h * ValueSizePerHead(mMaxLength) + TileIndex(mMaxLength, mPastLength - 1, g) + i) # Garbage
       /\ \A s \in 0 .. mPastLength - 1, d \in mHeadDim .. RoundUp(mHeadDim, lP) - 1 :
            Cell(key, KeyAt(mMaxLength, h, s, d)) = Zero
=============================================================================
