--------------------------- MODULE KVPrefixProofs ---------------------------
(***************************************************************************)
(* Proofs about KVPrefix, for any number of layers, any length of the       *)
(* prefix and of the conversation and any growth of the caches, as long as  *)
(* none of the liberties is taken.                                          *)
(***************************************************************************)
EXTENDS KVPrefix, SequenceTheorems, TLAPS

Toks  == Tokens \cup Answers \cup 1 .. PrefixLen
Cells == (Layers \X Toks) \cup {Zero}

\* The first n entries of a buffer are those of layer l for the tokens s.
Holds(buf, l, s, n) == n <= Len(buf) /\ \A i \in 1 .. n : buf[i] = <<l, s[i]>>

\* A file that holds the prefix of its layer.
Good(f) == Holds(data[f], f + 1, Prefix, PrefixLen)

\* Tokens are cached before the forward.
Kept == previous - remove

MemTypes ==
    /\ data \in [Files -> Seq(Cells)] /\ temp \in [Layers -> Seq(Cells)] /\ grown \in Seq(Cells)
    /\ hist \in Seq(Toks) /\ add \in Seq(Toks) /\ rest \in Seq(Toks)

\* What the flags say of a session of setPrefixCacheFile: only its first call
\* writes files, and none of them is marked yet; only its second reads them.
FlagInv ==
    /\ file_flag = "write" => Completes /\ pc \in {"layers", "grow"} /\ marks = {}
    /\ file_flag = "read" => mPrefixCacheMode /\ mIsPrefixFileExist
    /\ pc = "mark" => Completes

\* A session that found the files starts with empty caches and reads at once.
FoundInv ==
    mPrefixCacheMode /\ mIsPrefixFileExist =>
      /\ Owned \X {"k", "v"} \subseteq marks
      /\ Kept = 0
      /\ \/ mCallIndex \in {0, 1} /\ pc = "idle" /\ file_flag = "none"
         \/ mCallIndex = 2 /\ pc = "layers" /\ file_flag = "read"

\* Before its first call nothing has been said, and there is no file that is not wanted.
FirstInv ==
    mPrefixCacheMode /\ mCallIndex = 0 =>
      /\ pc = "idle" /\ hist = <<>> /\ Kept = 0 /\ layer_index = 0
      /\ ~mIsPrefixFileExist => marks = {}

\* The layers take the files in their own order.
IndexInv ==
    /\ Unread => hist = Prefix /\ layer_index = 0
    /\ pc = "layers" /\ Kept = 0 /\ file_flag # "none" /\ layer \in Layers => layer_index = layer - 1

\* A cache in a file of the prefix is in the file of its own layer; one that was
\* allocated outside a write is in none.
HomeInv ==
    /\ \A l \in Layers : home[l] \in Files => home[l] = l - 1
    /\ pc = "layers" /\ Kept = 0 /\ file_flag # "write" => \A l \in 1 .. layer - 1 : home[l] \notin Files

\* The call that computes the prefix, up to the markers.
WriteInv ==
    Completes /\ pc # "idle" =>
      /\ PrefixLen <= Len(hist) /\ \A i \in 1 .. PrefixLen : hist[i] = i
      /\ Kept = 0 => pc = "layers" /\ file_flag = "write" /\ \A l \in 1 .. layer - 1 : home[l] = l - 1
      /\ Kept # 0 => \A l \in Layers : home[l] = l - 1

\* A marked file holds the prefix of its layer, or is being rewritten with it;
\* a cache that lives in the files is not cut below the prefix.
MarkInv ==
    /\ \A f \in Owned : <<f, "k">> \in marks \/ <<f, "v">> \in marks =>
         IF pc = "grow" /\ home[layer] = f THEN Holds(grown, f + 1, Prefix, PrefixLen) ELSE Good(f)
    /\ marks # {} /\ Kept # 0 => \A l \in Layers : home[l] \in Files => PrefixLen <= Kept

\* At rest the caches hold the conversation, though more besides when they are torn.
RestInv ==
    pc \in {"idle", "decode", "mark"} =>
      /\ rest = <<>>
      /\ ~Unread => Len(hist) = Kept
      /\ Kept # 0 => \A l \in Layers : (torn \/ past[l] = previous) /\ Holds(Buffer(l), l, hist, Kept)

\* In a forward they hold it in the layers that are done, and what was kept of
\* it in the others.
ForwardInv ==
    pc \in {"layers", "grow"} =>
      /\ add # <<>>
      /\ Len(hist) = Kept + ReadLength + Len(add) + Len(rest)
      /\ \A i \in 1 .. Len(add) : add[i] = hist[Kept + ReadLength + i]
      /\ \A i \in 1 .. Len(rest) : rest[i] = hist[Kept + ReadLength + Len(add) + i]
      /\ ReadLength # 0 => \A i \in 1 .. PrefixLen : hist[i] = i
      /\ \A l \in 1 .. layer - 1 : /\ past[l] = Kept + ReadLength + Len(add)
                                   /\ Holds(Buffer(l), l, hist, Kept + ReadLength + Len(add))
      /\ Kept # 0 => \A l \in layer .. N :
           /\ past[l] = previous
           /\ Holds(IF pc = "grow" /\ l = layer THEN grown ELSE Buffer(l), l, hist, Kept)
      /\ pc = "grow" => layer \in Layers /\ Kept # 0 /\ Len(grown) <= Len(Buffer(layer))

\* No forward goes on over torn caches.  The answer to a prompt starts when all of
\* the prompt is in the caches, so that a failure in the answer leaves the prefix.
FailInv ==
    /\ pc \in {"layers", "grow", "decode"} \/ (pc = "mark" /\ chunked) => ~torn
    /\ answering => /\ pc \in {"layers", "grow", "decode"} /\ rest = <<>>
                    /\ Completes => PrefixLen <= Kept

IInv ==
    /\ TypeOK /\ MemTypes /\ FlagInv /\ FoundInv /\ FirstInv /\ IndexInv /\ HomeInv
    /\ WriteInv /\ MarkInv /\ RestInv /\ ForwardInv /\ FailInv

-----------------------------------------------------------------------------
(* The operators on buffers.                                               *)

\* An empty buffer of n entries.
LEMMA ZerosFacts ==
  ASSUME NEW n \in Nat
  PROVE  Zeros(n) \in Seq(Cells) /\ Len(Zeros(n)) = n
<1>1. Zeros(n) \in [1 .. n -> Cells]
  BY DEF Zeros, Cells
<1>2. Zeros(n) \in Seq(Cells)
  BY <1>1, SeqDef
<1>3. QED
  BY <1>1, <1>2, LenProperties

\* The entries of a layer for some tokens.
LEMMA EntriesFacts ==
  ASSUME NEW l \in Layers, NEW s \in Seq(Toks)
  PROVE  /\ Entries(l, s) \in Seq(Cells) /\ Len(Entries(l, s)) = Len(s)
         /\ \A i \in 1 .. Len(s) : Entries(l, s)[i] = <<l, s[i]>>
<1>1. Len(s) \in Nat /\ \A i \in 1 .. Len(s) : s[i] \in Toks
  BY LenProperties, ElementOfSeq
<1>2. Entries(l, s) \in [1 .. Len(s) -> Cells]
  BY <1>1 DEF Entries, Cells
<1>3. Entries(l, s) \in Seq(Cells)
  BY <1>1, <1>2, SeqDef
<1>4. Len(Entries(l, s)) = Len(s)
  BY <1>1, <1>2, <1>3, LenProperties
<1>5. QED
  BY <1>3, <1>4 DEF Entries

\* Writing into a buffer changes the entries it is for and no other, nor the length.
LEMMA PutFacts ==
  ASSUME NEW buf \in Seq(Cells), NEW len \in Nat, NEW e \in Seq(Cells)
  PROVE  /\ Put(buf, len, e) \in Seq(Cells) /\ Len(Put(buf, len, e)) = Len(buf)
         /\ \A i \in 1 .. Len(buf) :
              Put(buf, len, e)[i] = IF i \in len + 1 .. len + Len(e) THEN e[i - len] ELSE buf[i]
<1>1. Len(buf) \in Nat /\ Len(e) \in Nat
  BY LenProperties
<1>2. ASSUME NEW i \in 1 .. Len(buf)
      PROVE  (IF i \in len + 1 .. len + Len(e) THEN e[i - len] ELSE buf[i]) \in Cells
  <2>1. buf[i] \in Cells
    BY ElementOfSeq
  <2>2. CASE i \in len + 1 .. len + Len(e)
    <3>1. i - len \in 1 .. Len(e)
      BY <1>1, <2>2
    <3>2. QED
      BY <2>2, <3>1, ElementOfSeq
  <2>3. QED
    BY <2>1, <2>2
<1>3. Put(buf, len, e) \in [1 .. Len(buf) -> Cells]
  BY <1>2 DEF Put
<1>4. Put(buf, len, e) \in Seq(Cells)
  BY <1>1, <1>3, SeqDef
<1>5. Len(Put(buf, len, e)) = Len(buf)
  BY <1>1, <1>3, <1>4, LenProperties
<1>6. QED
  BY <1>4, <1>5 DEF Put

\* A resized buffer keeps the entries there is room for.
LEMMA ResizedFacts ==
  ASSUME NEW buf \in Seq(Cells), NEW n \in Nat
  PROVE  /\ Resized(buf, n) \in Seq(Cells) /\ Len(Resized(buf, n)) = n
         /\ \A i \in 1 .. n : i <= Len(buf) => Resized(buf, n)[i] = buf[i]
<1>1. Zeros(n) \in Seq(Cells) /\ Len(Zeros(n)) = n
  BY ZerosFacts
<1>2. PICK b : b = buf \o Zeros(n)
  OBVIOUS
<1>3. /\ b \in Seq(Cells) /\ Len(b) = Len(buf) + n
      /\ \A i \in 1 .. Len(buf) + n : i <= Len(buf) => b[i] = buf[i]
  BY <1>1, <1>2, ConcatProperties
<1>4. Len(buf) \in Nat
  BY LenProperties
<1>5. \A i \in 1 .. n : b[i] \in Cells
  BY <1>3, <1>4, ElementOfSeq
<1>6. /\ SubSeq(b, 1, n) \in Seq(Cells)
      /\ Len(SubSeq(b, 1, n)) = IF 1 <= n THEN n - 1 + 1 ELSE 0
      /\ \A i \in 1 .. n - 1 + 1 : SubSeq(b, 1, n)[i] = b[1 + i - 1]
  BY <1>5, SubSeqProperties
<1>7. Resized(buf, n) = SubSeq(b, 1, n)
  BY <1>2 DEF Resized
<1>8. \A i \in 1 .. n : SubSeq(b, 1, n)[i] = b[i]
  BY <1>6
<1>9. QED
  BY <1>3, <1>4, <1>6, <1>7, <1>8

\* A copy of a file has the room that is asked for and keeps what the file holds.
LEMMA LoadedFacts ==
  ASSUME NEW buf \in Seq(Cells), NEW n \in Nat
  PROVE  /\ Loaded(buf, n) \in Seq(Cells) /\ n + PrefixLen <= Len(Loaded(buf, n))
         /\ Len(buf) <= Len(Loaded(buf, n))
         /\ \A i \in 1 .. Len(buf) : Loaded(buf, n)[i] = buf[i]
<1>1. Len(buf) \in Nat /\ PrefixLen \in Nat /\ ExpandChunk \in Nat
  BY LenProperties, PrefixAssumption
<1>2. PICK m : m = IF n + PrefixLen > Len(buf) THEN n + PrefixLen + ExpandChunk ELSE Len(buf)
  OBVIOUS
<1>3. m \in Nat /\ n + PrefixLen <= m /\ Len(buf) <= m
  BY <1>1, <1>2
<1>4. Loaded(buf, n) = Resized(buf, m)
  BY <1>2 DEF Loaded
<1>5. /\ Resized(buf, m) \in Seq(Cells) /\ Len(Resized(buf, m)) = m
      /\ \A i \in 1 .. m : i <= Len(buf) => Resized(buf, m)[i] = buf[i]
  BY <1>3, ResizedFacts
<1>6. QED
  BY <1>1, <1>3, <1>4, <1>5

\* Tokens written behind those that a buffer holds continue them.
LEMMA PutHolds ==
  ASSUME NEW buf \in Seq(Cells), NEW l \in Layers, NEW s, NEW k \in Nat, NEW toks \in Seq(Toks),
         Holds(buf, l, s, k), k + Len(toks) <= Len(buf),
         \A i \in 1 .. Len(toks) : toks[i] = s[k + i]
  PROVE  Holds(Put(buf, k, Entries(l, toks)), l, s, k + Len(toks))
<1>1. PICK e : e = Entries(l, toks)
  OBVIOUS
<1>2. e \in Seq(Cells) /\ Len(e) = Len(toks) /\ \A i \in 1 .. Len(toks) : e[i] = <<l, toks[i]>>
  BY <1>1, EntriesFacts
<1>3. PICK b : b = Put(buf, k, e)
  OBVIOUS
<1>4. /\ Len(b) = Len(buf)
      /\ \A i \in 1 .. Len(buf) : b[i] = IF i \in k + 1 .. k + Len(e) THEN e[i - k] ELSE buf[i]
  BY <1>2, <1>3, PutFacts
<1>5. Len(buf) \in Nat /\ Len(toks) \in Nat
  BY LenProperties
<1>6. ASSUME NEW i \in 1 .. k + Len(toks)
      PROVE  b[i] = <<l, s[i]>>
  <2>1. CASE i <= k
    <3>1. i \in 1 .. Len(buf) /\ buf[i] = <<l, s[i]>>
      BY <1>5, <2>1 DEF Holds
    <3>2. i \notin k + 1 .. k + Len(e)
      BY <1>2, <1>5, <2>1
    <3>3. QED
      BY <1>4, <3>1, <3>2
  <2>2. CASE k < i
    <3>1. PICK j : j = i - k
      OBVIOUS
    <3>2. j \in 1 .. Len(toks) /\ i = k + j
      BY <1>5, <2>2, <3>1
    <3>3. e[j] = <<l, toks[j]>> /\ toks[j] = s[k + j]
      BY <1>2, <3>2
    <3>4. b[i] = e[j]
      BY <1>2, <1>4, <1>5, <2>2, <3>1
    <3>5. QED
      BY <3>2, <3>3, <3>4
  <2>3. QED
    BY <1>5, <2>1, <2>2
<1>7. QED
  BY <1>1, <1>3, <1>4, <1>5, <1>6 DEF Holds

\* What is written behind the first n entries leaves them alone.
LEMMA PutBehind ==
  ASSUME NEW buf \in Seq(Cells), NEW l, NEW s, NEW k \in Nat, NEW n \in Nat, NEW e \in Seq(Cells),
         n <= k, Holds(buf, l, s, n)
  PROVE  Holds(Put(buf, k, e), l, s, n)
<1>1. Len(buf) \in Nat /\ Len(e) \in Nat
  BY LenProperties
<1>2. QED
  BY <1>1, PutFacts DEF Holds

\* A buffer that is written over from its beginning holds what is written.
LEMMA PutWhole ==
  ASSUME NEW buf \in Seq(Cells), NEW l, NEW s, NEW n \in Nat, NEW e \in Seq(Cells),
         Len(e) <= Len(buf), Holds(e, l, s, n)
  PROVE  Holds(Put(buf, 0, e), l, s, n)
<1>1. Len(buf) \in Nat /\ Len(e) \in Nat
  BY LenProperties
<1>2. PICK b : b = Put(buf, 0, e)
  OBVIOUS
<1>3. /\ Len(b) = Len(buf)
      /\ \A i \in 1 .. Len(buf) : b[i] = IF i \in 0 + 1 .. 0 + Len(e) THEN e[i - 0] ELSE buf[i]
  BY <1>2, PutFacts
<1>4. \A i \in 1 .. Len(e) : b[i] = e[i]
  BY <1>1, <1>3
<1>5. QED
  BY <1>1, <1>2, <1>3, <1>4 DEF Holds

\* A buffer holds a sequence as far as it holds one that begins alike.
LEMMA HoldsOther ==
  ASSUME NEW buf, NEW l, NEW s, NEW t, NEW n \in Nat, NEW m \in Nat,
         m <= n, Holds(buf, l, s, n), \A i \in 1 .. m : t[i] = s[i], Len(buf) \in Nat
  PROVE  Holds(buf, l, t, m)
BY DEF Holds

\* The prefix is a sequence of tokens.
LEMMA PrefixFacts ==
  /\ Prefix \in Seq(Toks) /\ Len(Prefix) = PrefixLen /\ Prefix # <<>>
  /\ \A i \in 1 .. PrefixLen : Prefix[i] = i
<1>1. PrefixLen \in Nat \ {0}
  BY PrefixAssumption
<1>2. Prefix \in [1 .. PrefixLen -> Toks]
  BY <1>1 DEF Prefix, Toks
<1>3. Prefix \in Seq(Toks)
  BY <1>1, <1>2, SeqDef
<1>4. Len(Prefix) = PrefixLen
  BY <1>1, <1>2, <1>3, LenProperties
<1>5. Prefix # <<>>
  BY <1>1, <1>4, EmptySeq
<1>6. QED
  BY <1>3, <1>4, <1>5 DEF Prefix

\* The index of the next file stays a file, and goes up by one below the last layer.
LEMMA IndexFacts ==
  ASSUME NEW i \in Files
  PROVE  NextIndex(i) \in Files /\ (i + 1 < LayerNums => NextIndex(i) = i + 1)
<1>1. LayerNums \in Nat /\ LayerNums > 0
  BY PrefixAssumption
<1>2. PICK j : j = i + 1
  OBVIOUS
<1>3. j \in 1 .. LayerNums
  BY <1>1, <1>2 DEF Files
<1>4. NextIndex(i) = j % LayerNums
  BY <1>2 DEF NextIndex
<1>5. j % LayerNums \in 0 .. LayerNums - 1 /\ (j < LayerNums => j % LayerNums = j)
  BY <1>1, <1>3
<1>6. QED
  BY <1>2, <1>4, <1>5 DEF Files

-----------------------------------------------------------------------------
(* The caches and the files.                                               *)

\* The numbers of layers and files.
LEMMA LayerFacts ==
  /\ N \in Nat \ {0} /\ LayerNums \in Nat /\ N <= LayerNums /\ 0 \in Files
  /\ PrefixLen \in Nat \ {0} /\ ExpandChunk \in Nat /\ Temp \notin Files /\ None \notin Files
  /\ \A l \in Layers : l \in Nat /\ l - 1 \in Owned /\ l - 1 \in Files
  /\ \A f \in Owned : f \in Files /\ f + 1 \in Layers
BY PrefixAssumption DEF Layers, Owned, Files

\* A layer's cache is a buffer.
LEMMA BufferType ==
  ASSUME TypeOK, MemTypes, NEW l \in Layers
  PROVE  Buffer(l) \in Seq(Cells) /\ Len(Buffer(l)) \in Nat
<1>1. Buffer(l) \in Seq(Cells)
  BY DEF TypeOK, MemTypes, Buffer
<1>2. QED
  BY <1>1, LenProperties

\* Where caches and files are not touched, what they hold stays.
LEMMA Untouched ==
  ASSUME UNCHANGED <<data, home, temp>>
  PROVE  /\ \A l : Buffer(l)' = Buffer(l)
         /\ \A f : Good(f)' = Good(f)
BY DEF Buffer, Good, Holds

\* The buffer of one layer is set: it becomes the buffer, and the caches of the
\* other layers and the other files stay, since no two layers share a file.
LEMMA SetBufferFacts ==
  ASSUME TypeOK, MemTypes, HomeInv, NEW l \in Layers, NEW buf \in Seq(Cells),
         SetBuffer(l, buf), UNCHANGED home
  PROVE  /\ data' \in [Files -> Seq(Cells)] /\ temp' \in [Layers -> Seq(Cells)]
         /\ Buffer(l)' = buf
         /\ \A m \in Layers : m # l => Buffer(m)' = Buffer(m)
         /\ \A f \in Files : f # home[l] => Good(f)' = Good(f)
         /\ \A f \in Files : f = home[l] => data[f] = Buffer(l) /\ data'[f] = buf
<1>1. /\ data \in [Files -> Seq(Cells)] /\ temp \in [Layers -> Seq(Cells)]
      /\ \A m \in Layers : home[m] \in Files => home[m] = m - 1
      /\ \A m \in Layers : m \in Int
  BY LayerFacts DEF MemTypes, HomeInv
<1>2. CASE home[l] \in Files
  <2>1. data' = [data EXCEPT ![home[l]] = buf] /\ temp' = temp
    BY <1>2 DEF SetBuffer
  <2>2. data'[home[l]] = buf /\ \A f \in Files : f # home[l] => data'[f] = data[f]
    BY <1>1, <1>2, <2>1
  <2>3. data' \in [Files -> Seq(Cells)]
    BY <1>1, <2>1
  <2>4. \A m \in Layers : m # l /\ home[m] \in Files => home[m] # home[l]
    BY <1>1, <1>2
  <2>5. QED
    BY <1>1, <1>2, <2>1, <2>2, <2>3, <2>4 DEF Buffer, Good, Holds
<1>3. CASE home[l] \notin Files
  <2>1. temp' = [temp EXCEPT ![l] = buf] /\ data' = data
    BY <1>3 DEF SetBuffer
  <2>2. temp'[l] = buf /\ \A m \in Layers : m # l => temp'[m] = temp[m]
    BY <1>1, <2>1
  <2>3. temp' \in [Layers -> Seq(Cells)]
    BY <1>1, <2>1
  <2>4. QED
    BY <1>1, <1>3, <2>1, <2>2, <2>3 DEF Buffer, Good, Holds
<1>4. QED
  BY <1>2, <1>3

\* Every initial state satisfies the invariant.
LEMMA InitIInv == Init => IInv
<1> SUFFICES ASSUME Init PROVE IInv
  OBVIOUS
<1>1. TypeOK
  <2>1. home \in [Layers -> Files \cup {Temp, None}] /\ past \in [Layers -> Nat] /\ marks = {}
    BY DEF Init
  <2>2. layer_index \in Files /\ remove \in 0 .. previous /\ layer \in 1 .. N + 1
    BY LayerFacts DEF Init
  <2>3. mPrefixCacheMode \in BOOLEAN /\ mIsPrefixFileExist \in BOOLEAN /\ torn \in BOOLEAN
    BY DEF Init
  <2>4. QED
    BY <2>1, <2>2, <2>3 DEF Init, TypeOK
<1>2. MemTypes
  BY EmptySeq DEF Init, MemTypes
<1>3. FlagInv /\ FoundInv /\ FirstInv /\ IndexInv
  BY DEF Init, FlagInv, FoundInv, FirstInv, IndexInv, Unread
<1>4. HomeInv
  BY LayerFacts DEF Init, HomeInv
<1>5. WriteInv /\ MarkInv
  BY DEF Init, WriteInv, MarkInv, Completes, Kept
<1>6. Len(hist) = 0
  <2>1. hist = <<>>
    BY DEF Init
  <2>2. QED
    BY <2>1, EmptySeq
<1>7. RestInv /\ ForwardInv
  BY <1>6 DEF Init, RestInv, ForwardInv, Kept
<1>8. FailInv
  BY DEF Init, FailInv
<1>9. QED
  BY <1>1, <1>2, <1>3, <1>4, <1>5, <1>7, <1>8 DEF IInv

-----------------------------------------------------------------------------
(* The steps.  Each of them keeps the invariant.                           *)

\* A new process starts with empty caches; the files stay as they are, and none
\* of them was being rewritten.
LEMMA RestartKeeps == ASSUME IInv, Liberties = {}, Restart PROVE IInv'
<1>1. TypeOK'
  <2>1. /\ home' \in [Layers -> Files \cup {Temp, None}] /\ past' \in [Layers -> Nat]
        /\ marks' = marks
    BY DEF Restart, diskVars
  <2>2. layer_index' \in Files /\ remove' \in 0 .. previous' /\ layer' \in 1 .. N + 1
    BY LayerFacts DEF Restart
  <2>3. mPrefixCacheMode' \in BOOLEAN /\ mIsPrefixFileExist' \in BOOLEAN /\ torn' \in BOOLEAN
    BY DEF Restart
  <2>4. QED
    BY <2>1, <2>2, <2>3 DEF IInv, Restart, TypeOK
<1>2. MemTypes'
  BY EmptySeq DEF IInv, MemTypes, Restart, diskVars
<1>3. Kept' = 0
  BY DEF Restart, Kept
<1>4. FlagInv' /\ FoundInv' /\ FirstInv' /\ IndexInv'
  BY DEF Restart, FlagInv, FoundInv, FirstInv, IndexInv, Unread
<1>5. HomeInv'
  BY LayerFacts DEF Restart, HomeInv
<1>6. WriteInv'
  BY DEF Restart, WriteInv
<1>7. MarkInv'
  <2>1. marks' = marks /\ data' = data /\ pc # "grow" /\ pc' # "grow"
    BY DEF Restart, diskVars
  <2>2. \A f : Good(f)' = Good(f)
    BY <2>1 DEF Good, Holds
  <2>3. QED
    BY <1>3, <2>1, <2>2 DEF IInv, MarkInv
<1>8. Len(hist') = 0
  <2>1. hist' = <<>>
    BY DEF Restart
  <2>2. QED
    BY <2>1, EmptySeq
<1>9. RestInv' /\ ForwardInv'
  BY <1>3, <1>8 DEF Restart, RestInv, ForwardInv
<1>10. FailInv'
  BY DEF Restart, FailInv
<1>11. QED
  BY <1>1, <1>2, <1>4, <1>5, <1>6, <1>7, <1>9, <1>10 DEF IInv

\* Files that are not usable are removed with the markers; a cache that lived in
\* one keeps its memory.
LEMMA SetPrefixCacheFileKeeps == ASSUME IInv, Liberties = {}, SetPrefixCacheFile PROVE IInv'
<1>1. pc = "idle" /\ pc' = "idle" /\ hist = <<>> /\ hist' = <<>> /\ Kept = 0 /\ Kept' = 0
  <2>1. pc = "idle" /\ previous = remove /\ hist = <<>> /\ UNCHANGED <<pc, previous, remove, hist>>
    BY DEF SetPrefixCacheFile, runVars, metaVars, histVars
  <2>2. QED
    BY <2>1 DEF IInv, TypeOK, Kept
<1>2. /\ mPrefixCacheMode' = TRUE /\ mCallIndex' = 0 /\ layer_index' = 0
      /\ mIsPrefixFileExist' = Usable /\ file_flag' = file_flag
      /\ UNCHANGED <<previous, remove, past, layer, add, rest, chunked, answering, grown, torn>>
  BY DEF SetPrefixCacheFile, runVars, metaVars, histVars
<1>3. file_flag = "none"
  BY <1>1 DEF IInv, TypeOK, FlagInv, FoundInv
<1>4. \/ Usable /\ UNCHANGED <<data, marks, home, temp>>
      \/ /\ ~Usable /\ data' = [f \in Files |-> <<>>] /\ marks' = {}
         /\ home' = [l \in Layers |-> IF home[l] \in Files THEN Temp ELSE home[l]]
         /\ temp' = [l \in Layers |-> IF home[l] \in Files THEN data[home[l]] ELSE temp[l]]
  BY DEF SetPrefixCacheFile, diskVars
<1>5. TypeOK'
  <2>1. marks' \subseteq Owned \X {"k", "v"} /\ home' \in [Layers -> Files \cup {Temp, None}]
    BY <1>4 DEF IInv, TypeOK
  <2>2. mIsPrefixFileExist' \in BOOLEAN
    BY <1>2 DEF Usable
  <2>3. QED
    BY <1>1, <1>2, <2>1, <2>2, LayerFacts DEF IInv, TypeOK
<1>6. MemTypes'
  <2>1. <<>> \in Seq(Cells)
    BY EmptySeq
  <2>2. data' \in [Files -> Seq(Cells)] /\ temp' \in [Layers -> Seq(Cells)]
    BY <1>4, <2>1 DEF IInv, TypeOK, MemTypes
  <2>3. QED
    BY <1>1, <1>2, <2>2 DEF IInv, MemTypes
<1>7. FlagInv'
  BY <1>1, <1>2, <1>3 DEF FlagInv
<1>8. FoundInv'
  BY <1>1, <1>2, <1>3, <1>4 DEF FoundInv, Usable
<1>9. FirstInv'
  BY <1>1, <1>2, <1>4 DEF FirstInv
<1>10. IndexInv' /\ WriteInv' /\ ForwardInv'
  BY <1>1, <1>2 DEF IndexInv, Unread, WriteInv, ForwardInv
<1>11. HomeInv'
  BY <1>1, <1>4, LayerFacts DEF IInv, HomeInv
<1>12. MarkInv'
  <2>1. CASE UNCHANGED <<data, marks, home, temp>>
    <3>1. \A f : Good(f)' = Good(f)
      BY <2>1, Untouched
    <3>2. QED
      BY <1>1, <2>1, <3>1 DEF IInv, MarkInv
  <2>2. CASE marks' = {}
    BY <2>2 DEF MarkInv
  <2>3. QED
    BY <1>4, <2>1, <2>2
<1>13. RestInv'
  <2>1. Len(hist') = 0
    BY <1>1, EmptySeq
  <2>2. QED
    BY <1>1, <1>2, <2>1 DEF IInv, RestInv
<1>14. FailInv'
  BY <1>1, <1>2 DEF IInv, FailInv
<1>15. QED
  BY <1>5, <1>6, <1>7, <1>8, <1>9, <1>10, <1>11, <1>12, <1>13, <1>14 DEF IInv

\* A prefix that is known enters the conversation before it is in the caches.
LEMMA PassKeeps == ASSUME IInv, Pass PROVE IInv'
<1>1. /\ pc = "idle" /\ pc' = "idle" /\ mPrefixCacheMode /\ mPrefixCacheMode'
      /\ mCallIndex = 0 /\ mCallIndex' = 1 /\ mIsPrefixFileExist /\ mIsPrefixFileExist'
  BY DEF Pass, runVars
<1>2. /\ UNCHANGED <<data, marks, file_flag, layer_index, previous, remove, home, temp, past,
                     layer, add, rest, chunked, answering, grown, torn>>
      /\ mPrefixCacheMode' = mPrefixCacheMode /\ mIsPrefixFileExist' = mIsPrefixFileExist
  BY DEF Pass, diskVars, metaVars, kvVars, runVars
<1>3. hist = <<>> /\ Kept = 0 /\ layer_index = 0
  BY <1>1 DEF IInv, FirstInv
<1>4. hist' = Prefix
  BY <1>3, PrefixFacts, ConcatEmptySeq DEF Pass
<1>5. Kept' = 0
  BY <1>2, <1>3 DEF Kept
<1>6. Unread'
  BY <1>1 DEF Unread
<1>7. TypeOK'
  BY <1>1, <1>2 DEF IInv, TypeOK
<1>8. MemTypes'
  BY <1>2, <1>4, PrefixFacts DEF IInv, MemTypes
<1>9. FlagInv' /\ FoundInv' /\ FirstInv' /\ IndexInv'
  BY <1>1, <1>2, <1>3, <1>4, <1>5 DEF IInv, FlagInv, FoundInv, FirstInv, IndexInv, Completes
<1>10. HomeInv' /\ WriteInv' /\ ForwardInv'
  BY <1>1, <1>2 DEF IInv, HomeInv, WriteInv, ForwardInv
<1>11. MarkInv'
  <2>1. \A f : Good(f)' = Good(f)
    BY <1>2, Untouched
  <2>2. QED
    BY <1>1, <1>2, <1>5, <2>1 DEF IInv, MarkInv
<1>12. RestInv'
  BY <1>1, <1>2, <1>5, <1>6 DEF IInv, RestInv
<1>13. FailInv'
  BY <1>1, <1>2 DEF IInv, FailInv
<1>14. QED
  BY <1>7, <1>8, <1>9, <1>10, <1>11, <1>12, <1>13 DEF IInv

\* reset empties the conversation; the caches are cut with the next prompt.
LEMMA ResetKeeps == ASSUME IInv, Liberties = {}, Reset PROVE IInv'
<1>1. pc = "idle" /\ ~Unread /\ remove' = previous /\ hist' = <<>>
  BY DEF Reset
<1>2. UNCHANGED <<data, marks, mPrefixCacheMode, mCallIndex, mIsPrefixFileExist, file_flag,
                  layer_index, previous, home, temp, past, pc, layer, add, rest, chunked, answering,
                  grown, torn>>
  BY DEF Reset, diskVars, modeVars, kvVars, runVars
<1>3. Kept' = 0 /\ previous \in Nat
  BY <1>1, <1>2 DEF IInv, TypeOK, Kept
<1>4. Unread' = Unread /\ Completes' = Completes
  BY <1>2 DEF Unread, Completes
<1>5. TypeOK'
  BY <1>1, <1>2, <1>3 DEF IInv, TypeOK
<1>6. MemTypes'
  BY <1>1, <1>2, EmptySeq DEF IInv, MemTypes
<1>7. FlagInv' /\ FoundInv' /\ FirstInv' /\ IndexInv'
  BY <1>1, <1>2, <1>3, <1>4 DEF IInv, FlagInv, FoundInv, FirstInv, IndexInv
<1>8. HomeInv' /\ WriteInv' /\ ForwardInv'
  BY <1>1, <1>2 DEF IInv, HomeInv, WriteInv, ForwardInv
<1>9. MarkInv'
  <2>1. \A f : Good(f)' = Good(f)
    BY <1>2, Untouched
  <2>2. QED
    BY <1>1, <1>2, <1>3, <2>1 DEF IInv, MarkInv
<1>10. RestInv'
  <2>1. Len(hist') = 0
    BY <1>1, EmptySeq
  <2>2. QED
    BY <1>1, <1>2, <1>3, <2>1 DEF IInv, RestInv
<1>11. FailInv'
  BY <1>1, <1>2 DEF IInv, FailInv
<1>12. QED
  BY <1>5, <1>6, <1>7, <1>8, <1>9, <1>10, <1>11 DEF IInv

\* eraseHistory cuts the conversation, never into the prefix.
LEMMA EraseHistoryKeeps ==
  ASSUME IInv, Liberties = {}, NEW begin \in 0 .. MaxLength, EraseHistory(begin) PROVE IInv'
<1>1. /\ pc = "idle" /\ begin < Kept
      /\ begin > 0 => begin >= PrefixLen
      /\ remove' = previous - begin /\ hist' = SubSeq(hist, 1, begin)
  BY LayerFacts, PrefixAssumption DEF EraseHistory, Kept
<1>2. UNCHANGED <<data, marks, mPrefixCacheMode, mCallIndex, mIsPrefixFileExist, file_flag,
                  layer_index, previous, home, temp, past, pc, layer, add, rest, chunked, answering,
                  grown, torn>>
  BY DEF EraseHistory, diskVars, modeVars, kvVars, runVars
<1>3. /\ previous \in Nat /\ begin \in Nat /\ Kept \in Nat /\ Kept' = begin /\ Kept # 0
      /\ begin <= previous /\ ~Unread
  <2>1. previous \in Nat /\ remove \in 0 .. previous /\ begin \in Nat
    BY PrefixAssumption DEF IInv, TypeOK
  <2>2. Kept \in Nat /\ Kept # 0 /\ begin <= previous /\ previous - (previous - begin) = begin
    BY <1>1, <2>1 DEF Kept
  <2>3. ~Unread
    BY <2>2 DEF IInv, FoundInv, Unread
  <2>4. QED
    BY <1>1, <1>2, <2>1, <2>2, <2>3 DEF Kept
<1>4. Unread' = Unread /\ Completes' = Completes
  BY <1>2 DEF Unread, Completes
<1>5. hist \in Seq(Toks) /\ Len(hist) = Kept
  BY <1>1, <1>3 DEF IInv, MemTypes, RestInv
<1>6. hist' \in Seq(Toks) /\ Len(hist') = begin /\ \A i \in 1 .. begin : hist'[i] = hist[i]
  <2>1. \A i \in 1 .. begin : hist[i] \in Toks
    BY <1>1, <1>3, <1>5, ElementOfSeq
  <2>2. /\ SubSeq(hist, 1, begin) \in Seq(Toks)
        /\ Len(SubSeq(hist, 1, begin)) = IF 1 <= begin THEN begin - 1 + 1 ELSE 0
        /\ \A i \in 1 .. begin - 1 + 1 : SubSeq(hist, 1, begin)[i] = hist[1 + i - 1]
    BY <1>3, <2>1, SubSeqProperties
  <2>3. \A i \in 1 .. begin : SubSeq(hist, 1, begin)[i] = hist[i]
    BY <1>3, <2>2
  <2>4. QED
    BY <1>1, <1>3, <2>2, <2>3
<1>7. TypeOK'
  BY <1>1, <1>2, <1>3 DEF IInv, TypeOK
<1>8. MemTypes'
  BY <1>2, <1>6 DEF IInv, MemTypes
<1>9. FlagInv' /\ FoundInv' /\ FirstInv' /\ IndexInv'
  BY <1>1, <1>2, <1>3, <1>4 DEF IInv, FlagInv, FoundInv, FirstInv, IndexInv
<1>10. HomeInv' /\ WriteInv' /\ ForwardInv'
  BY <1>1, <1>2 DEF IInv, HomeInv, WriteInv, ForwardInv
<1>11. MarkInv'
  <2>1. \A f : Good(f)' = Good(f)
    BY <1>2, Untouched
  <2>2. QED
    BY <1>1, <1>2, <1>3, <2>1, LayerFacts DEF IInv, MarkInv
<1>12. RestInv'
  <2>1. ASSUME NEW l \in Layers
        PROVE  (torn' \/ past'[l] = previous') /\ Holds(Buffer(l)', l, hist', begin)
    <3>1. (torn \/ past[l] = previous) /\ Holds(Buffer(l), l, hist, Kept)
      BY <1>1, <1>3 DEF IInv, RestInv
    <3>2. Len(Buffer(l)) \in Nat
      BY BufferType DEF IInv
    <3>3. Holds(Buffer(l), l, hist', begin)
      BY <1>1, <1>3, <1>6, <3>1, <3>2 DEF Holds
    <3>4. Buffer(l)' = Buffer(l)
      BY <1>2, Untouched
    <3>5. QED
      BY <1>2, <3>1, <3>3, <3>4
  <2>2. QED
    BY <1>1, <1>2, <1>3, <1>6, <2>1 DEF IInv, RestInv
<1>13. FailInv'
  BY <1>1, <1>2 DEF IInv, FailInv
<1>14. QED
  BY <1>7, <1>8, <1>9, <1>10, <1>11, <1>12, <1>13 DEF IInv

\* The answer is over: the prefix is marked now or never.
LEMMA DecodeEndsKeeps == ASSUME IInv, DecodeEnds PROVE IInv'
<1>1. pc = "decode" /\ pc' \in {"mark", "idle"} /\ (pc' = "mark" => Completes)
      /\ answering' = FALSE /\ chunked' = FALSE
  BY DEF DecodeEnds
<1>2. UNCHANGED <<data, marks, mPrefixCacheMode, mCallIndex, mIsPrefixFileExist, file_flag,
                  layer_index, previous, remove, home, temp, past, layer, add, rest, grown, hist, torn>>
  BY DEF DecodeEnds, histVars, diskVars, modeVars, metaVars, kvVars
<1>3. Kept' = Kept /\ Unread' = Unread /\ Completes' = Completes
  BY <1>2 DEF Kept, Unread, Completes
<1>4. ~(mPrefixCacheMode /\ mIsPrefixFileExist) /\ ~Unread /\ file_flag = "none"
  BY <1>1 DEF IInv, TypeOK, FlagInv, FoundInv, Unread
<1>5. TypeOK' /\ MemTypes'
  BY <1>1, <1>2 DEF IInv, TypeOK, MemTypes
<1>6. FlagInv' /\ FoundInv' /\ FirstInv' /\ IndexInv'
  BY <1>1, <1>2, <1>3, <1>4 DEF IInv, FlagInv, FoundInv, FirstInv, IndexInv
<1>7. HomeInv' /\ WriteInv' /\ ForwardInv'
  BY <1>1, <1>2, <1>3 DEF IInv, HomeInv, WriteInv, ForwardInv
<1>8. \A l : Buffer(l)' = Buffer(l)
  BY <1>2, Untouched
<1>9. \A f : Good(f)' = Good(f)
  BY <1>2, Untouched
<1>10. MarkInv'
  BY <1>1, <1>2, <1>3, <1>9 DEF IInv, MarkInv
<1>11. RestInv'
  <2>1. \A n : \A l \in Layers : Holds(Buffer(l), l, hist, n)' = Holds(Buffer(l), l, hist, n)
    BY <1>2, <1>8 DEF Holds
  <2>2. QED
    BY <1>1, <1>2, <1>3, <2>1 DEF IInv, RestInv
<1>12. FailInv'
  BY <1>1 DEF FailInv
<1>13. QED
  BY <1>5, <1>6, <1>7, <1>10, <1>11, <1>12 DEF IInv

\* The files that are marked hold the prefix: the caches live in them, and the
\* conversation begins with it.
LEMMA MarkKeeps == ASSUME IInv, Mark PROVE IInv'
<1>1. pc = "mark" /\ pc' \in {"mark", "decode", "idle"} /\ (pc' = "decode" => chunked)
  BY DEF Mark
<1>2. UNCHANGED <<data, mPrefixCacheMode, mCallIndex, mIsPrefixFileExist, file_flag,
                  layer_index, previous, remove, home, temp, past, layer, add, rest, chunked, answering,
                  grown, hist, torn>>
  BY DEF Mark, histVars, modeVars, metaVars, kvVars
<1>3. Kept' = Kept /\ Unread' = Unread /\ Completes' = Completes
  BY <1>2 DEF Kept, Unread, Completes
<1>4. marks \subseteq marks' /\ marks' \subseteq Owned \X {"k", "v"}
  <2>1. CASE marks' = marks
    BY <2>1 DEF IInv, TypeOK
  <2>2. ASSUME NEW i \in 1 .. 2 * N,
               marks' = marks \cup {<<(i - 1) \div 2, IF i % 2 = 1 THEN "k" ELSE "v">>}
        PROVE  marks \subseteq marks' /\ marks' \subseteq Owned \X {"k", "v"}
    <3>1. (i - 1) \div 2 \in Owned
      BY LayerFacts DEF Owned
    <3>2. QED
      BY <2>2, <3>1 DEF IInv, TypeOK
  <2>3. QED
    BY <2>1, <2>2 DEF Mark
<1>5. Completes /\ file_flag = "none" /\ ~(mPrefixCacheMode /\ mIsPrefixFileExist) /\ ~Unread
  BY <1>1 DEF IInv, TypeOK, FlagInv, FoundInv, Completes, Unread
<1>6. Kept # 0 /\ Kept \in Nat /\ PrefixLen <= Len(hist) /\ Len(hist) = Kept
      /\ (\A i \in 1 .. PrefixLen : hist[i] = i) /\ \A l \in Layers : home[l] = l - 1
  BY <1>1, <1>5 DEF IInv, TypeOK, WriteInv, RestInv, Kept
<1>7. \A f \in Owned : Good(f)
  <2>1. ASSUME NEW f \in Owned PROVE Good(f)
    <3>1. PICK l \in Layers : l = f + 1
      BY LayerFacts
    <3>2. f \in Int /\ f \in Files
      BY LayerFacts DEF Owned
    <3>3. l - 1 = f
      BY <3>1, <3>2
    <3>4. Buffer(l) = data[f]
      BY <1>6, <3>2, <3>3 DEF Buffer
    <3>5. Holds(data[f], f + 1, hist, Kept) /\ Len(data[f]) \in Nat
      BY <1>1, <1>5, <1>6, <3>1, <3>4, BufferType DEF IInv, RestInv
    <3>6. Holds(data[f], f + 1, Prefix, PrefixLen)
      BY <1>6, <3>5, HoldsOther, PrefixFacts, LayerFacts
    <3>7. QED
      BY <3>6 DEF Good
  <2>2. QED
    BY <2>1
<1>8. TypeOK' /\ MemTypes'
  BY <1>1, <1>2, <1>4 DEF IInv, TypeOK, MemTypes
<1>9. FlagInv' /\ FoundInv' /\ FirstInv' /\ IndexInv'
  BY <1>1, <1>2, <1>3, <1>5 DEF IInv, FlagInv, FoundInv, FirstInv, IndexInv
<1>10. HomeInv' /\ WriteInv' /\ ForwardInv'
  BY <1>1, <1>2, <1>3 DEF IInv, HomeInv, WriteInv, ForwardInv
<1>11. MarkInv'
  <2>1. \A f : Good(f)' = Good(f)
    BY <1>2, Untouched
  <2>2. QED
    BY <1>1, <1>3, <1>6, <1>7, <2>1 DEF MarkInv
<1>12. RestInv'
  <2>1. \A l : Buffer(l)' = Buffer(l)
    BY <1>2, Untouched
  <2>2. \A n : \A l \in Layers : Holds(Buffer(l), l, hist, n)' = Holds(Buffer(l), l, hist, n)
    BY <1>2, <2>1 DEF Holds
  <2>3. QED
    BY <1>1, <1>2, <1>3, <2>2 DEF IInv, RestInv
<1>13. FailInv'
  BY <1>1, <1>2 DEF IInv, FailInv
<1>14. QED
  BY <1>8, <1>9, <1>10, <1>11, <1>12, <1>13 DEF IInv

\* A prompt is a sequence of tokens, and not empty.
LEMMA PromptFacts ==
  ASSUME NEW prompt \in Prompts
  PROVE  prompt \in Seq(Toks) /\ prompt # <<>> /\ Len(prompt) \in Nat \ {0}
<1>1. CASE prompt = Prefix
  BY <1>1, PrefixFacts, LayerFacts
<1>2. ASSUME NEW t \in Tokens, prompt \in {<<t>>, <<t, t>>}
      PROVE  prompt \in Seq(Toks) /\ prompt # <<>> /\ Len(prompt) \in Nat \ {0}
  <2>1. t \in Toks
    BY DEF Toks
  <2>2. <<t>> \in Seq(Toks) /\ Len(<<t>>) = 1 /\ <<t, t>> \in Seq(Toks) /\ Len(<<t, t>>) = 2
    BY <2>1
  <2>3. QED
    BY <1>2, <2>2, EmptySeq
<1>3. QED
  BY <1>1, <1>2 DEF Prompts

\* The first chunk of a sequence of tokens, and the rest of it.
LEMMA ChunkFacts ==
  ASSUME NEW s \in Seq(Toks), s # <<>>
  PROVE  /\ <<Head(s)>> \in Seq(Toks) /\ <<Head(s)>> # <<>> /\ Len(<<Head(s)>>) = 1
         /\ Tail(s) \in Seq(Toks) /\ Len(Tail(s)) = Len(s) - 1 /\ Len(s) \in Nat \ {0}
         /\ \A i \in 1 .. Len(<<Head(s)>>) : <<Head(s)>>[i] = s[i]
         /\ \A i \in 1 .. Len(Tail(s)) : Tail(s)[i] = s[1 + i]
<1>1. Len(s) \in Nat \ {0}
  BY EmptySeq
<1>2. Head(s) = s[1]
  OBVIOUS
<1>3. /\ Head(s) \in Toks /\ Tail(s) \in Seq(Toks) /\ Len(Tail(s)) = Len(s) - 1
      /\ \A i \in 1 .. Len(Tail(s)) : Tail(s)[i] = s[i + 1]
  BY HeadTailProperties
<1>4. <<Head(s)>> \in Seq(Toks) /\ Len(<<Head(s)>>) = 1 /\ <<Head(s)>>[1] = s[1]
  BY <1>2, <1>3
<1>5. <<Head(s)>> # <<>>
  BY <1>4, EmptySeq
<1>6. \A i \in 1 .. Len(Tail(s)) : Tail(s)[i] = s[1 + i]
  BY <1>1, <1>3
<1>7. QED
  BY <1>1, <1>3, <1>4, <1>5, <1>6

\* A prompt comes in: the call is the one that writes the files, the one that
\* reads them, or has nothing to do with them.
LEMMA GenerateCases ==
  ASSUME IInv, NEW prompt \in Prompts, NEW inChunks \in BOOLEAN, Generate(prompt, inChunks)
  PROVE  \/ /\ mPrefixCacheMode /\ mPrefixCacheMode' /\ ~mIsPrefixFileExist' /\ mCallIndex' = 1
            /\ Completes' /\ file_flag' = "write" /\ prompt = Prefix /\ marks = {} /\ hist = <<>>
            /\ ~Unread /\ Kept = 0 /\ layer_index = 0 /\ ReadLength' = 0
         \/ /\ Unread /\ mPrefixCacheMode' /\ mIsPrefixFileExist' /\ mCallIndex' = 2 /\ ~Completes'
            /\ file_flag' = "read" /\ hist = Prefix /\ Kept = 0 /\ layer_index = 0
            /\ ReadLength' = PrefixLen /\ Owned \X {"k", "v"} \subseteq marks
         \/ /\ ~Unread /\ ~(mPrefixCacheMode' /\ mIsPrefixFileExist') /\ ~Completes'
            /\ ~(mPrefixCacheMode' /\ mCallIndex' = 0) /\ file_flag' = "none" /\ ReadLength' = 0
<1>1. /\ pc = "idle" /\ ~(mPrefixCacheMode /\ mCallIndex = 0 /\ mIsPrefixFileExist)
      /\ mPrefixCacheMode' = mPrefixCacheMode /\ mIsPrefixFileExist' = mIsPrefixFileExist
      /\ mCallIndex' = IF mPrefixCacheMode /\ mCallIndex < 3 THEN mCallIndex + 1 ELSE mCallIndex
      /\ file_flag' = IF mPrefixCacheMode /\ mCallIndex' = 1 THEN "write"
                      ELSE IF mPrefixCacheMode /\ mCallIndex' = 2 /\ mIsPrefixFileExist THEN "read"
                      ELSE file_flag
  BY DEF Generate
<1>2. mCallIndex \in Nat
  BY DEF IInv, TypeOK
<1>3. CASE mPrefixCacheMode /\ mCallIndex = 0
  <2>1. ~mIsPrefixFileExist /\ mCallIndex' = 1 /\ file_flag' = "write"
    BY <1>1, <1>3
  <2>2. prompt = Prefix
    BY <1>3 DEF Prompts
  <2>3. marks = {} /\ hist = <<>> /\ Kept = 0 /\ layer_index = 0
    BY <1>3, <2>1 DEF IInv, FirstInv
  <2>4. ~Unread /\ Completes' /\ ReadLength' = 0
    BY <1>1, <1>3, <2>1 DEF Unread, Completes, ReadLength
  <2>5. QED
    BY <1>1, <1>3, <2>1, <2>2, <2>3, <2>4
<1>4. CASE Unread
  <2>1. mPrefixCacheMode /\ mIsPrefixFileExist /\ mCallIndex = 1
    BY <1>4 DEF Unread
  <2>2. mCallIndex' = 2 /\ file_flag' = "read"
    BY <1>1, <2>1
  <2>3. hist = Prefix /\ layer_index = 0 /\ Kept = 0 /\ Owned \X {"k", "v"} \subseteq marks
    BY <1>4, <2>1 DEF IInv, IndexInv, FoundInv
  <2>4. ~Completes' /\ ReadLength' = PrefixLen
    BY <1>1, <2>1, <2>2 DEF Completes, ReadLength
  <2>5. QED
    BY <1>1, <1>4, <2>1, <2>2, <2>3, <2>4
<1>5. CASE ~Unread /\ ~(mPrefixCacheMode /\ mCallIndex = 0)
  <2>1. ~(mPrefixCacheMode /\ mIsPrefixFileExist)
    BY <1>1, <1>5 DEF IInv, FoundInv, Unread
  <2>2. file_flag = "none"
    BY <1>1, <2>1 DEF IInv, TypeOK, FlagInv
  <2>3. mPrefixCacheMode => mCallIndex' # 1 /\ mCallIndex' # 0
    BY <1>1, <1>2, <1>5
  <2>4. file_flag' = "none"
    BY <1>1, <2>1, <2>2, <2>3
  <2>5. ~Completes' /\ ReadLength' = 0
    BY <1>1, <2>1, <2>3 DEF Completes, ReadLength
  <2>6. QED
    BY <1>1, <1>5, <2>1, <2>3, <2>4, <2>5
<1>6. QED
  BY <1>3, <1>4, <1>5

\* A prompt comes in and its first forward begins.
LEMMA GenerateKeeps ==
  ASSUME IInv, Liberties = {}, NEW prompt \in Prompts, NEW inChunks \in BOOLEAN, Generate(prompt, inChunks)
  PROVE  IInv'
<1>1. prompt \in Seq(Toks) /\ prompt # <<>> /\ Len(prompt) \in Nat \ {0}
  BY PromptFacts
<1>2. /\ pc = "idle" /\ pc' = "layers" /\ layer' = 1 /\ hist' = hist \o prompt
      /\ ~(torn /\ previous # remove) /\ torn' = (torn /\ previous # remove)
      /\ mCallIndex' = IF mPrefixCacheMode /\ mCallIndex < 3 THEN mCallIndex + 1 ELSE mCallIndex
      /\ UNCHANGED <<data, marks, mPrefixCacheMode, mIsPrefixFileExist, layer_index, previous,
                     remove, home, temp, past, answering, grown>>
  BY DEF Generate, Forward, diskVars, metaVars, kvVars
<1>3. /\ add' \in Seq(Toks) /\ add' # <<>> /\ rest' \in Seq(Toks)
      /\ Len(add') \in Nat /\ Len(rest') \in Nat /\ Len(prompt) = Len(add') + Len(rest')
      /\ \A i \in 1 .. Len(add') : add'[i] = prompt[i]
      /\ \A i \in 1 .. Len(rest') : rest'[i] = prompt[Len(add') + i]
  <2>1. CASE inChunks
    <3>1. add' = <<Head(prompt)>> /\ rest' = Tail(prompt)
      BY <2>1 DEF Generate, Forward
    <3>2. QED
      BY <1>1, <3>1, ChunkFacts
  <2>2. CASE ~inChunks
    <3>1. add' = prompt /\ rest' = <<>>
      BY <2>2 DEF Generate, Forward
    <3>2. rest' \in Seq(Toks) /\ Len(rest') = 0
      BY <3>1, EmptySeq
    <3>3. QED
      BY <1>1, <3>1, <3>2
  <2>3. QED
    BY <2>1, <2>2
<1>4. hist \in Seq(Toks) /\ Len(hist) \in Nat
  BY LenProperties DEF IInv, MemTypes
<1>5. /\ hist' \in Seq(Toks) /\ Len(hist') = Len(hist) + Len(prompt)
      /\ \A i \in 1 .. Len(hist) : hist'[i] = hist[i]
      /\ \A i \in 1 .. Len(prompt) : hist'[Len(hist) + i] = prompt[i]
  <2>1. /\ hist \o prompt \in Seq(Toks) /\ Len(hist \o prompt) = Len(hist) + Len(prompt)
        /\ \A i \in 1 .. Len(hist) + Len(prompt) :
             (hist \o prompt)[i] = IF i <= Len(hist) THEN hist[i] ELSE prompt[i - Len(hist)]
    BY <1>1, <1>4, ConcatProperties
  <2>2. \A i \in 1 .. Len(hist) : (hist \o prompt)[i] = hist[i]
    BY <1>1, <1>4, <2>1
  <2>3. ASSUME NEW i \in 1 .. Len(prompt)
        PROVE  (hist \o prompt)[Len(hist) + i] = prompt[i]
    <3>1. PICK j : j = Len(hist) + i
      OBVIOUS
    <3>2. j \in 1 .. Len(hist) + Len(prompt) /\ ~(j <= Len(hist)) /\ j - Len(hist) = i
      BY <1>1, <1>4, <3>1
    <3>3. QED
      BY <2>1, <3>1, <3>2
  <2>4. QED
    BY <1>2, <2>1, <2>2, <2>3
<1>6. Kept' = Kept /\ Kept \in Nat
  BY <1>2 DEF IInv, TypeOK, Kept
<1>7. /\ (mPrefixCacheMode' <=> mPrefixCacheMode) /\ (mIsPrefixFileExist' <=> mIsPrefixFileExist)
      /\ ~Unread'
      /\ \/ /\ mPrefixCacheMode' /\ ~mIsPrefixFileExist' /\ mCallIndex' = 1
            /\ Completes' /\ file_flag' = "write" /\ prompt = Prefix /\ marks = {} /\ hist = <<>>
            /\ ~Unread /\ Kept = 0 /\ layer_index = 0 /\ ReadLength' = 0
         \/ /\ Unread /\ mPrefixCacheMode' /\ mIsPrefixFileExist' /\ mCallIndex' = 2 /\ ~Completes'
            /\ file_flag' = "read" /\ hist = Prefix /\ Kept = 0 /\ layer_index = 0
            /\ ReadLength' = PrefixLen /\ Owned \X {"k", "v"} \subseteq marks
         \/ /\ ~Unread /\ ~(mPrefixCacheMode' /\ mIsPrefixFileExist') /\ ~Completes'
            /\ ~(mPrefixCacheMode' /\ mCallIndex' = 0) /\ file_flag' = "none" /\ ReadLength' = 0
  BY <1>2, GenerateCases DEF Unread
<1>8. Len(hist) = Kept + ReadLength' /\ ReadLength' \in Nat
  <2>1. CASE Unread
    BY <1>7, <2>1, PrefixFacts, LayerFacts
  <2>2. CASE ~Unread
    <3>1. Len(hist) = Kept
      BY <1>2, <2>2 DEF IInv, RestInv
    <3>2. QED
      BY <1>6, <1>7, <2>2, <3>1
  <2>3. QED
    BY <2>1, <2>2
<1>9. TypeOK'
  <2>1. mCallIndex' \in Nat
    BY <1>2 DEF IInv, TypeOK
  <2>2. file_flag' \in {"none", "write", "read"}
    BY <1>7
  <2>3. torn' \in BOOLEAN
    BY <1>2
  <2>4. QED
    BY <1>2, <2>1, <2>2, <2>3, LayerFacts DEF IInv, TypeOK
<1>10. MemTypes'
  BY <1>2, <1>3, <1>5 DEF IInv, MemTypes
<1>11. FlagInv' /\ FoundInv' /\ FirstInv'
  BY <1>2, <1>6, <1>7 DEF FlagInv, FoundInv, FirstInv
<1>12. IndexInv'
  BY <1>2, <1>7 DEF IndexInv
<1>13. HomeInv'
  BY <1>2 DEF IInv, HomeInv
<1>14. WriteInv'
  <2>1. SUFFICES ASSUME Completes' PROVE WriteInv'
    BY DEF WriteInv
  <2>2. file_flag' = "write" /\ hist = <<>> /\ prompt = Prefix /\ Kept' = 0
    BY <1>6, <1>7, <2>1
  <2>3. hist' = Prefix
    BY <1>2, <2>2, PrefixFacts, ConcatEmptySeq
  <2>4. PrefixLen <= Len(hist') /\ \A i \in 1 .. PrefixLen : hist'[i] = i
    BY <2>3, PrefixFacts, LayerFacts
  <2>5. QED
    BY <1>2, <2>2, <2>4 DEF WriteInv
<1>15. MarkInv'
  <2>1. \A f : Good(f)' = Good(f)
    BY <1>2, Untouched
  <2>2. QED
    BY <1>2, <1>6, <2>1 DEF IInv, MarkInv
<1>16. RestInv'
  BY <1>2 DEF RestInv
<1>17. ForwardInv'
  <2>1. Len(hist') = Kept' + ReadLength' + Len(add') + Len(rest')
    BY <1>3, <1>5, <1>6, <1>8
  <2>2. \A i \in 1 .. Len(add') : add'[i] = hist'[Kept' + ReadLength' + i]
    <3>1. TAKE i \in 1 .. Len(add')
    <3>2. i \in 1 .. Len(prompt)
      BY <1>3
    <3>3. QED
      BY <1>3, <1>5, <1>6, <1>8, <3>2
  <2>3. \A i \in 1 .. Len(rest') : rest'[i] = hist'[Kept' + ReadLength' + Len(add') + i]
    <3>1. TAKE i \in 1 .. Len(rest')
    <3>2. PICK j : j = Len(add') + i
      OBVIOUS
    <3>3. j \in 1 .. Len(prompt) /\ rest'[i] = prompt[j]
      BY <1>3, <3>2
    <3>4. Kept' + ReadLength' + Len(add') + i = Len(hist) + j
      BY <1>3, <1>6, <1>8, <3>2
    <3>5. QED
      BY <1>5, <3>3, <3>4
  <2>4. ReadLength' # 0 => \A i \in 1 .. PrefixLen : hist'[i] = i
    <3>1. SUFFICES ASSUME ReadLength' # 0 PROVE \A i \in 1 .. PrefixLen : hist'[i] = i
      OBVIOUS
    <3>2. hist = Prefix
      BY <1>7, <3>1
    <3>3. QED
      BY <1>5, <3>2, PrefixFacts
  <2>5. \A l \in Layers : Kept # 0 => past'[l] = previous' /\ Holds(Buffer(l)', l, hist', Kept')
    <3>1. SUFFICES ASSUME NEW l \in Layers, Kept # 0
                   PROVE  past'[l] = previous' /\ Holds(Buffer(l)', l, hist', Kept')
      OBVIOUS
    <3>2. past[l] = previous /\ Holds(Buffer(l), l, hist, Kept)
      <4>1. (torn \/ past[l] = previous) /\ Holds(Buffer(l), l, hist, Kept)
        BY <1>2, <3>1 DEF IInv, RestInv
      <4>2. previous # remove
        BY <3>1 DEF IInv, TypeOK, Kept
      <4>3. QED
        BY <1>2, <4>1, <4>2
    <3>3. Len(hist) = Kept
      <4>1. ~Unread
        BY <1>7, <3>1
      <4>2. QED
        BY <1>2, <4>1 DEF IInv, RestInv
    <3>4. Holds(Buffer(l), l, hist', Kept)
      BY <1>5, <1>6, <3>2, <3>3 DEF Holds
    <3>5. Buffer(l)' = Buffer(l)
      BY <1>2, Untouched
    <3>6. QED
      BY <1>2, <1>6, <3>2, <3>4, <3>5
  <2>6. (\A l : l \notin 1 .. layer' - 1) /\ layer' .. N = Layers
    BY <1>2 DEF Layers
  <2>7. Kept' # 0 => \A l \in layer' .. N :
          /\ past'[l] = previous'
          /\ Holds(IF pc' = "grow" /\ l = layer' THEN grown' ELSE Buffer(l)', l, hist', Kept')
    BY <1>2, <1>6, <2>5, <2>6
  <2>8. QED
    BY <1>2, <1>3, <2>1, <2>2, <2>3, <2>4, <2>6, <2>7 DEF ForwardInv
<1>18. FailInv'
  BY <1>2 DEF IInv, FailInv
<1>19. QED
  BY <1>9, <1>10, <1>11, <1>12, <1>13, <1>14, <1>15, <1>16, <1>17, <1>18 DEF IInv

\* The layers are done: they all hold the conversation up to the end of the forward.
LEMMA SyncFacts ==
  ASSUME IInv, NEW more \in BOOLEAN, ForwardSyncs(more)
  PROVE  /\ pc = "layers" /\ Kept \in Nat /\ Kept' \in Nat /\ ReadLength \in Nat /\ Len(add) \in Nat \ {0}
         /\ Kept' = Kept + ReadLength + Len(add) /\ previous' = Kept' /\ remove' = 0 /\ Kept' # 0
         /\ Len(rest) \in Nat /\ hist \in Seq(Toks) /\ Len(hist) = Kept' + Len(rest)
         /\ \A l \in Layers : past[l] = Kept' /\ Holds(Buffer(l), l, hist, Kept')
         /\ UNCHANGED <<data, marks, mCallIndex, mIsPrefixFileExist, home, temp, past, answering, grown, torn>>
         /\ (mPrefixCacheMode' <=> mPrefixCacheMode /\ mCallIndex # 2) /\ mPrefixCacheMode' \in BOOLEAN
         /\ ~(mPrefixCacheMode' /\ mIsPrefixFileExist') /\ ~(mPrefixCacheMode' /\ mCallIndex' = 0)
         /\ ~Unread' /\ ReadLength' = 0 /\ (Completes' <=> Completes)
         /\ layer_index' \in Files
         /\ file_flag' \in {"none", "write"}
         /\ file_flag' = "write" => more /\ file_flag = "write"
         /\ mPrefixCacheMode /\ mCallIndex = 1 /\ ~more => file_flag' = "none"
<1>1. /\ pc = "layers" /\ layer = N + 1 /\ remove' = 0
      /\ previous' = previous - remove + Len(add) + ReadLength
      /\ mPrefixCacheMode' = (mPrefixCacheMode /\ mCallIndex # 2)
      /\ UNCHANGED <<data, marks, mCallIndex, mIsPrefixFileExist, home, temp, past, answering, grown, torn>>
      /\ IF mPrefixCacheMode /\ (mCallIndex = 2 \/ (mCallIndex = 1 /\ ~more))
         THEN file_flag' = "none" /\ layer_index' = 0
         ELSE file_flag' = file_flag /\ layer_index' = layer_index
  BY DEF ForwardSyncs, diskVars, kvVars
<1>2. mPrefixCacheMode /\ mIsPrefixFileExist => mCallIndex = 2
  BY <1>1 DEF IInv, FoundInv
<1>3. ~(mPrefixCacheMode /\ mCallIndex = 0)
  BY <1>1 DEF IInv, FirstInv
<1>4. Len(add) \in Nat \ {0} /\ Len(rest) \in Nat /\ hist \in Seq(Toks)
  <2>1. add \in Seq(Toks) /\ rest \in Seq(Toks) /\ hist \in Seq(Toks) /\ add # <<>>
    BY <1>1 DEF IInv, MemTypes, ForwardInv
  <2>2. QED
    BY <2>1, EmptySeq, LenProperties
<1>5. previous \in Nat /\ remove \in Nat /\ Kept \in Nat /\ Kept = previous - remove
  BY DEF IInv, TypeOK, Kept
<1>6. ReadLength \in Nat
  BY LayerFacts DEF ReadLength
<1>7. /\ Kept' = Kept + ReadLength + Len(add) /\ previous' = Kept' /\ Kept' # 0 /\ Kept' \in Nat
  <2>1. Kept' = previous' - remove'
    BY DEF Kept
  <2>2. previous' - 0 = previous'
    BY <1>1, <1>4, <1>5, <1>6
  <2>3. QED
    BY <1>1, <1>4, <1>5, <1>6, <2>1, <2>2
<1>8. /\ Len(hist) = Kept' + Len(rest)
      /\ \A l \in Layers : past[l] = Kept' /\ Holds(Buffer(l), l, hist, Kept')
  <2>1. Layers = 1 .. layer - 1
    BY <1>1, LayerFacts DEF Layers
  <2>2. QED
    BY <1>1, <1>7, <2>1 DEF IInv, ForwardInv
<1>9. /\ (mPrefixCacheMode' <=> mPrefixCacheMode /\ mCallIndex # 2) /\ mPrefixCacheMode' \in BOOLEAN
      /\ ~(mPrefixCacheMode' /\ mIsPrefixFileExist') /\ ~(mPrefixCacheMode' /\ mCallIndex' = 0)
  BY <1>1, <1>2, <1>3
<1>10. ~Unread' /\ ReadLength' = 0
  BY <1>9 DEF Unread, ReadLength
<1>11. Completes' <=> Completes
  BY <1>1, <1>9 DEF Completes
<1>12. file_flag' \in {"none", "write"} /\ (file_flag' = "write" => more /\ file_flag = "write")
       /\ (mPrefixCacheMode /\ mCallIndex = 1 /\ ~more => file_flag' = "none")
  BY <1>1, <1>2 DEF IInv, TypeOK, FlagInv, Completes
<1>13. layer_index' \in Files
  BY <1>1, LayerFacts DEF IInv, TypeOK
<1>14. QED
  BY <1>1, <1>4, <1>5, <1>6, <1>7, <1>8, <1>9, <1>10, <1>11, <1>12, <1>13

\* What holds after a forward whatever comes next.
LEMMA SyncKeeps ==
  ASSUME IInv, NEW more \in BOOLEAN, ForwardSyncs(more), pc' # "grow",
         layer' = 1, pc' = "layers" \/ ~more, pc' \in {"layers", "idle", "decode", "mark"},
         pc' = "mark" => Completes, pc' = "idle" \/ hist' = hist,
         answering => pc' = "decode" /\ rest' = <<>>,
         hist' \in Seq(Toks), add' \in Seq(Toks), rest' \in Seq(Toks)
  PROVE  TypeOK' /\ MemTypes' /\ FlagInv' /\ FoundInv' /\ FirstInv' /\ IndexInv' /\ HomeInv'
         /\ WriteInv' /\ MarkInv' /\ FailInv'
<1>1. /\ pc = "layers" /\ Kept \in Nat /\ Kept' \in Nat /\ ReadLength \in Nat /\ Len(add) \in Nat \ {0}
      /\ Kept' = Kept + ReadLength + Len(add) /\ previous' = Kept' /\ remove' = 0 /\ Kept' # 0
      /\ UNCHANGED <<data, marks, mCallIndex, mIsPrefixFileExist, home, temp, past, answering, grown, torn>>
      /\ (mPrefixCacheMode' <=> mPrefixCacheMode /\ mCallIndex # 2) /\ mPrefixCacheMode' \in BOOLEAN
      /\ ~(mPrefixCacheMode' /\ mIsPrefixFileExist') /\ ~(mPrefixCacheMode' /\ mCallIndex' = 0)
      /\ ~Unread' /\ (Completes' <=> Completes) /\ layer_index' \in Files
      /\ file_flag' \in {"none", "write"}
      /\ file_flag' = "write" => more /\ file_flag = "write"
  BY SyncFacts
<1>2. layer = N + 1
  BY DEF ForwardSyncs
<1>3. TypeOK'
  BY <1>1, LayerFacts DEF IInv, TypeOK
<1>4. MemTypes'
  BY <1>1 DEF IInv, MemTypes
<1>5. FlagInv' /\ FoundInv' /\ FirstInv' /\ IndexInv'
  BY <1>1 DEF IInv, FlagInv, FoundInv, FirstInv, IndexInv
<1>6. HomeInv'
  BY <1>1 DEF IInv, HomeInv
<1>7. WriteInv'
  <2>1. SUFFICES ASSUME Completes', pc' # "idle" PROVE WriteInv'
    BY DEF WriteInv
  <2>2. /\ PrefixLen <= Len(hist) /\ \A i \in 1 .. PrefixLen : hist[i] = i
        /\ Kept = 0 => \A l \in 1 .. layer - 1 : home[l] = l - 1
        /\ Kept # 0 => \A l \in Layers : home[l] = l - 1
    BY <1>1, <2>1 DEF IInv, WriteInv
  <2>3. Layers = 1 .. layer - 1
    BY <1>2, LayerFacts DEF Layers
  <2>4. \A l \in Layers : home'[l] = l - 1
    BY <1>1, <2>2, <2>3
  <2>5. QED
    BY <1>1, <2>1, <2>2, <2>4 DEF WriteInv
<1>8. MarkInv'
  <2>1. \A f : Good(f)' = Good(f)
    BY <1>1, Untouched
  <2>2. \A f \in Owned : <<f, "k">> \in marks' \/ <<f, "v">> \in marks' => Good(f)'
    BY <1>1, <2>1 DEF IInv, MarkInv
  <2>3. ASSUME marks' # {}, NEW l \in Layers, home'[l] \in Files
        PROVE  PrefixLen <= Kept'
    <3>1. CASE Kept = 0
      <4>1. file_flag # "write"
        BY <1>1, <2>3 DEF IInv, FlagInv
      <4>2. l \in 1 .. layer - 1
        BY <1>2, LayerFacts DEF Layers
      <4>3. home[l] \notin Files
        BY <1>1, <3>1, <4>1, <4>2 DEF IInv, HomeInv
      <4>4. QED
        BY <1>1, <2>3, <4>3
    <3>2. CASE Kept # 0
      <4>1. PrefixLen <= Kept
        BY <1>1, <2>3, <3>2 DEF IInv, MarkInv
      <4>2. QED
        BY <1>1, <4>1, LayerFacts
    <3>3. QED
      BY <3>1, <3>2
  <2>4. QED
    BY <2>2, <2>3 DEF MarkInv
<1>9. FailInv'
  <2>1. ~torn'
    BY <1>1 DEF IInv, FailInv
  <2>2. ASSUME answering, Completes PROVE PrefixLen <= Kept'
    <3>1. PrefixLen <= Kept
      BY <2>2 DEF IInv, FailInv
    <3>2. QED
      BY <1>1, <3>1, LayerFacts
  <2>3. QED
    BY <1>1, <2>1, <2>2 DEF FailInv
<1>10. QED
  BY <1>3, <1>4, <1>5, <1>6, <1>7, <1>8, <1>9

\* The next chunk continues what the caches hold.
LEMMA NextChunkKeeps == ASSUME IInv, NextChunk PROVE IInv'
<1>1. /\ ForwardSyncs(TRUE) /\ rest # <<>> /\ pc' = "layers" /\ layer' = 1 /\ hist' = hist
      /\ add' = <<Head(rest)>> /\ rest' = Tail(rest)
  BY DEF NextChunk, Forward
<1>2. /\ pc = "layers" /\ Kept \in Nat /\ Kept' \in Nat /\ ReadLength \in Nat /\ Len(add) \in Nat \ {0}
      /\ Kept' = Kept + ReadLength + Len(add) /\ previous' = Kept' /\ Kept' # 0
      /\ Len(rest) \in Nat /\ hist \in Seq(Toks) /\ Len(hist) = Kept' + Len(rest)
      /\ \A l \in Layers : past[l] = Kept' /\ Holds(Buffer(l), l, hist, Kept')
      /\ UNCHANGED <<data, home, temp, past>> /\ ReadLength' = 0
  BY <1>1, SyncFacts
<1>3. rest \in Seq(Toks)
  BY DEF IInv, MemTypes
<1>4. /\ add' \in Seq(Toks) /\ add' # <<>> /\ Len(add') = 1
      /\ rest' \in Seq(Toks) /\ Len(rest') = Len(rest) - 1 /\ Len(rest) \in Nat \ {0}
      /\ \A i \in 1 .. Len(add') : add'[i] = rest[i]
      /\ \A i \in 1 .. Len(rest') : rest'[i] = rest[1 + i]
  BY <1>1, <1>3, ChunkFacts
<1>5. ~answering
  BY <1>1 DEF IInv, FailInv
<1>6. TypeOK' /\ MemTypes' /\ FlagInv' /\ FoundInv' /\ FirstInv' /\ IndexInv' /\ HomeInv'
      /\ WriteInv' /\ MarkInv' /\ FailInv'
  BY <1>1, <1>2, <1>4, <1>5, SyncKeeps
<1>7. RestInv'
  BY <1>1 DEF RestInv
<1>8. ForwardInv'
  <2>1. \A i \in 1 .. Len(rest) : rest[i] = hist[Kept' + i]
    BY <1>2 DEF IInv, ForwardInv
  <2>2. Len(hist') = Kept' + ReadLength' + Len(add') + Len(rest')
    BY <1>1, <1>2, <1>4
  <2>3. \A i \in 1 .. Len(add') : add'[i] = hist'[Kept' + ReadLength' + i]
    <3>1. TAKE i \in 1 .. Len(add')
    <3>2. i \in 1 .. Len(rest) /\ add'[i] = rest[i]
      BY <1>4
    <3>3. Kept' + ReadLength' + i = Kept' + i
      BY <1>2
    <3>4. QED
      BY <1>1, <2>1, <3>2, <3>3
  <2>4. \A i \in 1 .. Len(rest') : rest'[i] = hist'[Kept' + ReadLength' + Len(add') + i]
    <3>1. TAKE i \in 1 .. Len(rest')
    <3>2. 1 + i \in 1 .. Len(rest) /\ rest'[i] = rest[1 + i]
      BY <1>4
    <3>3. rest[1 + i] = hist[Kept' + (1 + i)]
      BY <2>1, <3>2
    <3>4. Kept' + ReadLength' + Len(add') + i = Kept' + (1 + i)
      BY <1>2, <1>4
    <3>5. QED
      BY <1>1, <3>2, <3>3, <3>4
  <2>5. (\A l : l \notin 1 .. layer' - 1) /\ layer' .. N = Layers
    BY <1>1 DEF Layers
  <2>6. \A l : Buffer(l)' = Buffer(l)
    BY <1>2, Untouched
  <2>7. \A l \in layer' .. N :
          /\ past'[l] = previous'
          /\ Holds(IF pc' = "grow" /\ l = layer' THEN grown' ELSE Buffer(l)', l, hist', Kept')
    BY <1>1, <1>2, <2>5, <2>6
  <2>8. QED
    BY <1>1, <1>2, <1>4, <2>2, <2>3, <2>4, <2>5, <2>7 DEF ForwardInv
<1>9. QED
  BY <1>6, <1>7, <1>8 DEF IInv

\* The chunks that are given up are not in the conversation.
LEMMA TimesOutKeeps == ASSUME IInv, TimesOut PROVE IInv'
<1>1. /\ ForwardSyncs(FALSE) /\ rest # <<>> /\ pc' = "idle" /\ layer' = 1 /\ add' = <<>> /\ rest' = <<>>
      /\ hist' = SubSeq(hist, 1, Len(hist) - Len(rest))
  BY DEF TimesOut, NoForward
<1>2. /\ pc = "layers" /\ Kept' \in Nat /\ previous' = Kept' /\ Kept' # 0
      /\ Len(rest) \in Nat /\ hist \in Seq(Toks) /\ Len(hist) = Kept' + Len(rest)
      /\ \A l \in Layers : past[l] = Kept' /\ Holds(Buffer(l), l, hist, Kept')
      /\ UNCHANGED <<data, home, temp, past>>
  BY <1>1, SyncFacts
<1>3. hist' \in Seq(Toks) /\ Len(hist') = Kept' /\ \A i \in 1 .. Kept' : hist'[i] = hist[i]
  <2>1. PICK k \in Nat : k = Kept' /\ k <= Len(hist) /\ k # 0
    BY <1>2
  <2>2. hist' = SubSeq(hist, 1, k)
    BY <1>1, <1>2, <2>1
  <2>3. \A i \in 1 .. k : hist[i] \in Toks
    BY <1>2, <2>1, ElementOfSeq
  <2>4. /\ SubSeq(hist, 1, k) \in Seq(Toks)
        /\ Len(SubSeq(hist, 1, k)) = IF 1 <= k THEN k - 1 + 1 ELSE 0
        /\ \A i \in 1 .. k - 1 + 1 : SubSeq(hist, 1, k)[i] = hist[1 + i - 1]
    BY <2>3, SubSeqProperties
  <2>5. \A i \in 1 .. k : SubSeq(hist, 1, k)[i] = hist[i]
    BY <2>4
  <2>6. Len(SubSeq(hist, 1, k)) = k
    <3>1. \A n \in Nat : n # 0 => (IF 1 <= n THEN n - 1 + 1 ELSE 0) = n
      OBVIOUS
    <3>2. QED
      BY <2>1, <2>4, <3>1, Zenon
  <2>7. QED
    BY <2>1, <2>2, <2>4, <2>5, <2>6
<1>4. add' \in Seq(Toks) /\ rest' \in Seq(Toks)
  BY <1>1, EmptySeq
<1>5. ~answering
  BY <1>1 DEF IInv, FailInv
<1>6. TypeOK' /\ MemTypes' /\ FlagInv' /\ FoundInv' /\ FirstInv' /\ IndexInv' /\ HomeInv'
      /\ WriteInv' /\ MarkInv' /\ FailInv'
  BY <1>1, <1>3, <1>4, <1>5, SyncKeeps
<1>7. RestInv'
  <2>1. ASSUME NEW l \in Layers
        PROVE  past'[l] = previous' /\ Holds(Buffer(l)', l, hist', Kept')
    <3>1. Buffer(l)' = Buffer(l)
      BY <1>2, Untouched
    <3>2. Holds(Buffer(l), l, hist', Kept')
      BY <1>2, <1>3 DEF Holds
    <3>3. QED
      BY <1>2, <3>1, <3>2
  <2>2. QED
    BY <1>1, <1>3, <2>1 DEF RestInv
<1>8. ForwardInv'
  BY <1>1 DEF ForwardInv
<1>9. QED
  BY <1>6, <1>7, <1>8 DEF IInv

\* The prompt, or a token of the answer, is in all caches.
LEMMA ForwardEndsKeeps == ASSUME IInv, ForwardEnds PROVE IInv'
<1>1. /\ ForwardSyncs(FALSE) /\ pc' \in {"idle", "decode", "mark"} /\ (pc' = "mark" => Completes)
      /\ (answering => pc' = "decode")
      /\ layer' = 1 /\ add' = <<>> /\ rest' = <<>> /\ rest = <<>> /\ hist' = hist
  BY DEF ForwardEnds, NoForward
<1>2. /\ pc = "layers" /\ Kept' \in Nat /\ previous' = Kept' /\ Kept' # 0
      /\ hist \in Seq(Toks) /\ Len(hist) = Kept' + Len(rest)
      /\ \A l \in Layers : past[l] = Kept' /\ Holds(Buffer(l), l, hist, Kept')
      /\ UNCHANGED <<data, home, temp, past>>
  BY <1>1, SyncFacts
<1>3. add' \in Seq(Toks) /\ rest' \in Seq(Toks) /\ Len(rest) = 0
  BY <1>1, EmptySeq
<1>4. TypeOK' /\ MemTypes' /\ FlagInv' /\ FoundInv' /\ FirstInv' /\ IndexInv' /\ HomeInv'
      /\ WriteInv' /\ MarkInv' /\ FailInv'
  BY <1>1, <1>2, <1>3, SyncKeeps
<1>5. RestInv'
  <2>1. \A l : Buffer(l)' = Buffer(l)
    BY <1>2, Untouched
  <2>2. \A l \in Layers : past'[l] = previous' /\ Holds(Buffer(l)', l, hist', Kept')
    BY <1>1, <1>2, <2>1
  <2>3. Len(hist') = Kept'
    <3>1. \A n : \A m \in Nat : n = 0 => m + n = m
      OBVIOUS
    <3>2. Len(hist) = Kept'
      BY <1>2, <1>3, <3>1, Zenon
    <3>3. QED
      BY <1>1, <3>2
  <2>4. QED
    BY <1>1, <2>2, <2>3 DEF RestInv
<1>6. ForwardInv'
  BY <1>1 DEF ForwardInv
<1>7. QED
  BY <1>4, <1>5, <1>6 DEF IInv

\* A forward that fails leaves the conversation that was cached before it in every
\* layer, the done ones too; the files may be marked if they held the prefix then.
LEMMA ForwardFailsKeeps == ASSUME IInv, Liberties = {}, ForwardFails PROVE IInv'
<1>1. /\ pc = "layers" /\ file_flag # "read" /\ pc' \in {"idle", "mark"}
      /\ pc' = "mark" => Completes /\ answering
      /\ layer' = 1 /\ add' = <<>> /\ rest' = <<>> /\ chunked' = FALSE /\ answering' = FALSE
      /\ IF Completes THEN file_flag' = "none" /\ layer_index' = 0
         ELSE file_flag' = file_flag /\ layer_index' = layer_index
      /\ hist' = SubSeq(hist, 1, Kept) /\ torn' = (torn \/ (previous # remove /\ layer > 1))
      /\ UNCHANGED <<data, marks, mPrefixCacheMode, mCallIndex, mIsPrefixFileExist, previous, remove,
                     home, temp, past, grown>>
  BY DEF ForwardFails, AfterFailure, NoForward, diskVars, metaVars, kvVars, Kept
<1>2. Kept' = Kept /\ Kept \in Nat /\ (Completes' <=> Completes)
  BY <1>1 DEF IInv, TypeOK, Kept, Completes
<1>3. file_flag' = "none"
  BY <1>1 DEF IInv, TypeOK, FlagInv
<1>4. ~(mPrefixCacheMode /\ mIsPrefixFileExist) /\ ~(mPrefixCacheMode /\ mCallIndex = 0)
  BY <1>1 DEF IInv, FoundInv, FirstInv
<1>5. ~Unread' /\ ReadLength = 0
  BY <1>1, <1>4 DEF Unread, ReadLength
<1>6. hist \in Seq(Toks) /\ Len(hist) \in Nat /\ Len(add) \in Nat /\ Len(rest) \in Nat
  BY LenProperties DEF IInv, MemTypes
<1>7. Kept <= Len(hist)
  <2>1. Len(hist) = Kept + ReadLength + Len(add) + Len(rest)
    BY <1>1 DEF IInv, ForwardInv
  <2>2. QED
    BY <1>2, <1>5, <1>6, <2>1
<1>8. hist' \in Seq(Toks) /\ Len(hist') = Kept /\ \A i \in 1 .. Kept : hist'[i] = hist[i]
  <2>1. \A i \in 1 .. Kept : hist[i] \in Toks
    BY <1>2, <1>6, <1>7, ElementOfSeq
  <2>2. /\ SubSeq(hist, 1, Kept) \in Seq(Toks)
        /\ Len(SubSeq(hist, 1, Kept)) = IF 1 <= Kept THEN Kept - 1 + 1 ELSE 0
        /\ \A i \in 1 .. Kept - 1 + 1 : SubSeq(hist, 1, Kept)[i] = hist[1 + i - 1]
    BY <1>2, <2>1, SubSeqProperties
  <2>3. \A i \in 1 .. Kept : SubSeq(hist, 1, Kept)[i] = hist[i]
    BY <1>2, <2>2
  <2>4. \A n \in Nat : (IF 1 <= n THEN n - 1 + 1 ELSE 0) = n
    OBVIOUS
  <2>5. Len(SubSeq(hist, 1, Kept)) = Kept
    BY <1>2, <2>2, <2>4, Zenon
  <2>6. QED
    BY <1>1, <2>2, <2>3, <2>5
<1>9. TypeOK'
  <2>1. torn' \in BOOLEAN
    BY <1>1
  <2>2. QED
    BY <1>1, <1>3, <2>1, LayerFacts DEF IInv, TypeOK
<1>10. MemTypes'
  BY <1>1, <1>8, EmptySeq DEF IInv, MemTypes
<1>11. FlagInv' /\ FoundInv' /\ FirstInv' /\ IndexInv'
  BY <1>1, <1>2, <1>3, <1>4, <1>5 DEF FlagInv, FoundInv, FirstInv, IndexInv
<1>12. HomeInv' /\ ForwardInv'
  BY <1>1 DEF IInv, HomeInv, ForwardInv
<1>13. WriteInv'
  <2>1. SUFFICES ASSUME Completes, pc' = "mark" PROVE WriteInv'
    BY <1>1, <1>2 DEF WriteInv
  <2>2. PrefixLen <= Kept /\ Kept # 0
    BY <1>1, <1>2, <2>1, LayerFacts DEF IInv, FailInv
  <2>3. (\A i \in 1 .. PrefixLen : hist[i] = i) /\ \A l \in Layers : home[l] = l - 1
    BY <1>1, <2>1, <2>2 DEF IInv, WriteInv
  <2>4. \A i \in 1 .. PrefixLen : hist'[i] = i
    BY <1>2, <1>8, <2>2, <2>3, LayerFacts
  <2>5. QED
    BY <1>1, <1>2, <1>8, <2>2, <2>3, <2>4 DEF WriteInv
<1>14. MarkInv'
  <2>1. \A f : Good(f)' = Good(f)
    BY <1>1, Untouched
  <2>2. QED
    BY <1>1, <1>2, <2>1 DEF IInv, MarkInv
<1>15. RestInv'
  <2>1. ASSUME Kept # 0, NEW l \in Layers
        PROVE  (torn' \/ past'[l] = previous') /\ Holds(Buffer(l)', l, hist', Kept)
    <3>1. previous # remove
      BY <2>1 DEF IInv, TypeOK, Kept
    <3>2. Buffer(l)' = Buffer(l) /\ Len(Buffer(l)) \in Nat
      BY <1>1, Untouched, BufferType DEF IInv
    <3>3. l \in Nat /\ layer \in Nat /\ l >= 1 /\ l <= N
      BY LayerFacts DEF IInv, TypeOK, Layers
    <3>4. CASE l < layer
      <4>1. l \in 1 .. layer - 1 /\ layer > 1
        BY <3>3, <3>4
      <4>2. Holds(Buffer(l), l, hist, Kept + ReadLength + Len(add))
        BY <1>1, <4>1 DEF IInv, ForwardInv
      <4>3. Kept + ReadLength + Len(add) \in Nat /\ Kept <= Kept + ReadLength + Len(add)
        BY <1>2, <1>5, <1>6
      <4>4. Holds(Buffer(l), l, hist', Kept)
        BY <1>2, <1>8, <3>2, <4>2, <4>3, HoldsOther
      <4>5. QED
        BY <1>1, <3>1, <3>2, <4>1, <4>4
    <3>5. CASE layer <= l
      <4>1. l \in layer .. N
        BY <3>3, <3>5, LayerFacts
      <4>2. past[l] = previous /\ Holds(Buffer(l), l, hist, Kept)
        BY <1>1, <2>1, <4>1 DEF IInv, ForwardInv
      <4>3. Holds(Buffer(l), l, hist', Kept)
        BY <1>2, <1>8, <3>2, <4>2 DEF Holds
      <4>4. QED
        BY <1>1, <3>2, <4>2, <4>3
    <3>6. QED
      BY <3>3, <3>4, <3>5
  <2>2. QED
    BY <1>1, <1>2, <1>8, <2>1 DEF RestInv
<1>16. FailInv'
  BY <1>1 DEF FailInv
<1>17. QED
  BY <1>9, <1>10, <1>11, <1>12, <1>13, <1>14, <1>15, <1>16 DEF IInv

\* The next token of the answer.
LEMMA DecodeKeeps == ASSUME IInv, NEW t \in Answers, Decode(t) PROVE IInv'
<1>1. /\ pc = "decode" /\ pc' = "layers" /\ layer' = 1 /\ add' = <<t>> /\ hist' = Append(hist, t)
      /\ UNCHANGED <<data, marks, mPrefixCacheMode, mCallIndex, mIsPrefixFileExist, file_flag,
                     layer_index, previous, remove, home, temp, past, rest, grown, torn>>
  BY DEF Decode, Forward, diskVars, modeVars, metaVars, kvVars
<1>2. Kept' = Kept /\ Kept \in Nat /\ (Completes' <=> Completes)
  BY <1>1 DEF IInv, TypeOK, Kept, Completes
<1>3. ~(mPrefixCacheMode /\ mIsPrefixFileExist) /\ ~(mPrefixCacheMode /\ mCallIndex = 0)
      /\ file_flag = "none"
  BY <1>1 DEF IInv, TypeOK, FlagInv, FoundInv, FirstInv
<1>4. ~Unread /\ ~Unread' /\ ReadLength' = 0
  BY <1>1, <1>3 DEF Unread, ReadLength
<1>5. t \in Toks /\ hist \in Seq(Toks) /\ Len(hist) = Kept /\ rest = <<>>
  BY <1>1, <1>4 DEF IInv, MemTypes, RestInv, Toks
<1>6. /\ hist' \in Seq(Toks) /\ Len(hist') = Kept + 1 /\ hist'[Kept + 1] = t
      /\ \A i \in 1 .. Kept : hist'[i] = hist[i]
  BY <1>1, <1>2, <1>5, AppendProperties
<1>7. /\ add' \in Seq(Toks) /\ Len(add') = 1 /\ add'[1] = t /\ add' # <<>>
      /\ rest' \in Seq(Toks) /\ rest' = <<>> /\ Len(rest') = 0
  <2>1. <<t>> \in Seq(Toks) /\ Len(<<t>>) = 1 /\ <<t>>[1] = t
    BY <1>5
  <2>2. QED
    BY <1>1, <1>5, <2>1, EmptySeq
<1>8. TypeOK' /\ MemTypes'
  BY <1>1, <1>6, <1>7, LayerFacts DEF IInv, TypeOK, MemTypes
<1>9. FlagInv' /\ FoundInv' /\ FirstInv' /\ IndexInv'
  BY <1>1, <1>3, <1>4 DEF FlagInv, FoundInv, FirstInv, IndexInv
<1>10. HomeInv' /\ RestInv'
  BY <1>1 DEF IInv, HomeInv, RestInv
<1>11. WriteInv'
  <2>1. SUFFICES ASSUME Completes' PROVE WriteInv'
    BY DEF WriteInv
  <2>2. /\ PrefixLen <= Len(hist) /\ \A i \in 1 .. PrefixLen : hist[i] = i
        /\ Kept # 0 /\ \A l \in Layers : home[l] = l - 1
    BY <1>1, <1>2, <2>1 DEF IInv, WriteInv
  <2>3. PrefixLen <= Len(hist') /\ \A i \in 1 .. PrefixLen : hist'[i] = i
    BY <1>2, <1>5, <1>6, <2>2, LayerFacts
  <2>4. QED
    BY <1>1, <1>2, <2>2, <2>3 DEF WriteInv
<1>12. MarkInv'
  <2>1. \A f : Good(f)' = Good(f)
    BY <1>1, Untouched
  <2>2. QED
    BY <1>1, <1>2, <2>1 DEF IInv, MarkInv
<1>13. ForwardInv'
  <2>1. Len(hist') = Kept' + ReadLength' + Len(add') + Len(rest')
    BY <1>2, <1>4, <1>6, <1>7
  <2>2. \A i \in 1 .. Len(add') : add'[i] = hist'[Kept' + ReadLength' + i]
    <3>1. TAKE i \in 1 .. Len(add')
    <3>2. i = 1 /\ Kept' + ReadLength' + i = Kept + 1
      BY <1>2, <1>4, <1>7
    <3>3. QED
      BY <1>6, <1>7, <3>2
  <2>3. \A i : i \notin 1 .. Len(rest')
    BY <1>7
  <2>4. (\A l : l \notin 1 .. layer' - 1) /\ layer' .. N = Layers
    BY <1>1 DEF Layers
  <2>5. Kept' # 0 => \A l \in layer' .. N :
          /\ past'[l] = previous'
          /\ Holds(IF pc' = "grow" /\ l = layer' THEN grown' ELSE Buffer(l)', l, hist', Kept')
    <3>1. SUFFICES ASSUME Kept # 0, NEW l \in Layers
                   PROVE  past'[l] = previous' /\ Holds(Buffer(l)', l, hist', Kept)
      BY <1>1, <1>2, <2>4
    <3>2. past[l] = previous /\ Holds(Buffer(l), l, hist, Kept)
      BY <1>1, <3>1 DEF IInv, RestInv, FailInv
    <3>3. Holds(Buffer(l), l, hist', Kept)
      BY <1>2, <1>6, <3>2 DEF Holds
    <3>4. Buffer(l)' = Buffer(l)
      BY <1>1, Untouched
    <3>5. QED
      BY <1>1, <3>2, <3>3, <3>4
  <2>6. QED
    BY <1>1, <1>4, <1>7, <2>1, <2>2, <2>3, <2>4, <2>5 DEF ForwardInv
<1>14. FailInv'
  <2>1. Completes => PrefixLen <= Kept
    BY <1>1, <1>5 DEF IInv, WriteInv
  <2>2. ~torn'
    BY <1>1 DEF IInv, FailInv
  <2>3. QED
    BY <1>1, <1>2, <1>7, <2>1, <2>2 DEF FailInv
<1>15. QED
  BY <1>8, <1>9, <1>10, <1>11, <1>12, <1>13, <1>14 DEF IInv

\* A layer is done: its cache holds the conversation up to the end of the
\* forward, and the caches of the others are as they were.
LEMMA LayerKeeps ==
  ASSUME IInv, pc = "layers", layer \in Layers, LayerDone, NEW k \in Nat,
         k = Kept + ReadLength + Len(add), past' = [past EXCEPT ![layer] = k],
         layer_index' \in Files, home' \in [Layers -> Files \cup {Temp, None}],
         data' \in [Files -> Seq(Cells)], temp' \in [Layers -> Seq(Cells)],
         \A l \in Layers : l # layer => Buffer(l)' = Buffer(l),
         NEW b, \A l \in Layers : l = layer => Buffer(l)' = b /\ Holds(b, l, hist, k)
  PROVE  /\ TypeOK' /\ MemTypes' /\ FlagInv' /\ FoundInv' /\ FirstInv' /\ RestInv' /\ ForwardInv' /\ FailInv'
         /\ Kept' = Kept /\ (Completes' <=> Completes) /\ ~Unread'
<1>1. /\ layer' = layer + 1 /\ pc' = "layers"
      /\ UNCHANGED <<marks, mPrefixCacheMode, mCallIndex, mIsPrefixFileExist, file_flag, previous,
                     remove, add, rest, chunked, answering, grown, hist, torn>>
  BY DEF LayerDone, metaVars, histVars
<1>2. Kept' = Kept /\ ReadLength' = ReadLength
  BY <1>1 DEF Kept, ReadLength
<1>3. Completes' <=> Completes
  BY <1>1 DEF Completes
<1>4. ~Unread'
  BY <1>1 DEF IInv, FoundInv, Unread
<1>5. layer' \in 1 .. N + 1
  BY <1>1, LayerFacts DEF Layers
<1>6. TypeOK'
  <2>1. past' \in [Layers -> Nat]
    BY DEF IInv, TypeOK
  <2>2. QED
    BY <1>1, <1>5, <2>1 DEF IInv, TypeOK
<1>7. MemTypes'
  BY <1>1 DEF IInv, MemTypes
<1>8. FlagInv' /\ FoundInv' /\ FirstInv'
  BY <1>1, <1>2, <1>3 DEF IInv, FlagInv, FoundInv, FirstInv
<1>9. RestInv'
  BY <1>1 DEF RestInv
<1>10. ForwardInv'
  <2>1. /\ add' # <<>> /\ Len(hist') = Kept' + ReadLength' + Len(add') + Len(rest')
        /\ \A i \in 1 .. Len(add') : add'[i] = hist'[Kept' + ReadLength' + i]
        /\ \A i \in 1 .. Len(rest') : rest'[i] = hist'[Kept' + ReadLength' + Len(add') + i]
        /\ ReadLength' # 0 => \A i \in 1 .. PrefixLen : hist'[i] = i
    BY <1>1, <1>2 DEF IInv, ForwardInv
  <2>2. k = Kept' + ReadLength' + Len(add')
    BY <1>1, <1>2
  <2>3. \A l \in 1 .. layer' - 1 : past'[l] = k /\ Holds(Buffer(l)', l, hist', k)
    <3>1. TAKE l \in 1 .. layer' - 1
    <3>2. l \in Layers /\ (l # layer => l \in 1 .. layer - 1)
      BY <1>1, LayerFacts DEF Layers
    <3>3. CASE l = layer
      <4>1. past'[l] = k
        BY <3>2, <3>3 DEF IInv, TypeOK
      <4>2. QED
        BY <1>1, <3>2, <3>3, <4>1
    <3>4. CASE l # layer
      <4>1. past[l] = k /\ Holds(Buffer(l), l, hist, k)
        BY <3>2, <3>4 DEF IInv, ForwardInv
      <4>2. past'[l] = past[l]
        BY <3>2, <3>4 DEF IInv, TypeOK
      <4>3. QED
        BY <1>1, <3>2, <3>4, <4>1, <4>2
    <3>5. QED
      BY <3>3, <3>4
  <2>4. Kept' # 0 => \A l \in layer' .. N :
          /\ past'[l] = previous'
          /\ Holds(IF pc' = "grow" /\ l = layer' THEN grown' ELSE Buffer(l)', l, hist', Kept')
    <3>1. SUFFICES ASSUME Kept # 0, NEW l \in layer' .. N
                   PROVE  past'[l] = previous' /\ Holds(Buffer(l)', l, hist', Kept')
      BY <1>1, <1>2
    <3>2. l \in Layers /\ l # layer /\ l \in layer .. N
      BY <1>1, LayerFacts DEF Layers
    <3>3. past[l] = previous /\ Holds(Buffer(l), l, hist, Kept)
      BY <3>1, <3>2 DEF IInv, ForwardInv
    <3>4. past'[l] = past[l] /\ Buffer(l)' = Buffer(l)
      BY <3>2 DEF IInv, TypeOK
    <3>5. QED
      BY <1>1, <1>2, <3>3, <3>4
  <2>5. QED
    BY <1>1, <2>1, <2>2, <2>3, <2>4 DEF ForwardInv
<1>11. FailInv'
  BY <1>1, <1>2, <1>3 DEF IInv, FailInv
<1>12. QED
  BY <1>2, <1>3, <1>4, <1>6, <1>7, <1>8, <1>9, <1>10, <1>11

\* What a layer that allocates finds.
LEMMA AllocFacts ==
  ASSUME IInv, Allocates
  PROVE  /\ pc = "layers" /\ layer \in Layers /\ layer \in Nat /\ Kept = 0
         /\ add \in Seq(Toks) /\ Len(add) \in Nat /\ Entries(layer, add) \in Seq(Cells)
         /\ Len(Entries(layer, add)) = Len(add)
         /\ data \in [Files -> Seq(Cells)] /\ temp \in [Layers -> Seq(Cells)]
         /\ home \in [Layers -> Files \cup {Temp, None}]
         /\ layer_index \in Files /\ NextIndex(layer_index) \in Files
<1>1. pc = "layers" /\ layer \in Layers /\ Kept = 0
  BY DEF Allocates, IInv, TypeOK, Kept
<1>2. add \in Seq(Toks) /\ Len(add) \in Nat
  BY LenProperties DEF IInv, MemTypes
<1>3. Entries(layer, add) \in Seq(Cells) /\ Len(Entries(layer, add)) = Len(add)
  BY <1>1, <1>2, EntriesFacts
<1>4. layer_index \in Files /\ NextIndex(layer_index) \in Files
  BY IndexFacts DEF IInv, TypeOK
<1>5. QED
  BY <1>1, <1>2, <1>3, <1>4, LayerFacts DEF IInv, TypeOK, MemTypes

\* A new buffer that is written from its beginning.
LEMMA NewBuffer ==
  ASSUME IInv, Allocates, ReadLength = 0
  PROVE  LET b == Put(Zeros(Len(add) + ExpandChunk), 0, Entries(layer, add))
         IN  b \in Seq(Cells) /\ Holds(b, layer, hist, Len(add))
<1>1. /\ pc = "layers" /\ layer \in Layers /\ Kept = 0
      /\ add \in Seq(Toks) /\ Len(add) \in Nat /\ Entries(layer, add) \in Seq(Cells)
  BY AllocFacts
<1>2. PICK z : z = Zeros(Len(add) + ExpandChunk)
  OBVIOUS
<1>3. z \in Seq(Cells) /\ Len(z) = Len(add) + ExpandChunk /\ Len(add) <= Len(z)
  BY <1>1, <1>2, ZerosFacts, LayerFacts
<1>4. \A i \in 1 .. Len(add) : add[i] = hist[0 + i]
  <2>1. \A i \in 1 .. Len(add) : add[i] = hist[Kept + ReadLength + i]
    BY <1>1 DEF IInv, ForwardInv
  <2>2. QED
    BY <1>1, <2>1
<1>5. Holds(z, layer, hist, 0)
  BY <1>3, LayerFacts, <1>1 DEF Holds
<1>6. Holds(Put(z, 0, Entries(layer, add)), layer, hist, 0 + Len(add))
  BY <1>1, <1>3, <1>4, <1>5, PutHolds
<1>7. Put(z, 0, Entries(layer, add)) \in Seq(Cells)
  BY <1>1, <1>3, PutFacts
<1>8. 0 + Len(add) = Len(add)
  BY <1>1
<1>9. QED
  BY <1>2, <1>6, <1>7, <1>8

\* A plain allocation.
LEMMA AllocTempKeeps == ASSUME IInv, AllocTemp PROVE IInv'
<1>1. /\ Allocates /\ file_flag = "none" /\ LayerDone /\ data' = data
      /\ home' = [home EXCEPT ![layer] = Temp] /\ layer_index' = NextIndex(layer_index)
      /\ past' = [past EXCEPT ![layer] = Len(add)]
  BY DEF AllocTemp
<1>2. /\ pc = "layers" /\ layer \in Layers /\ layer \in Nat /\ Kept = 0 /\ Len(add) \in Nat
      /\ data \in [Files -> Seq(Cells)] /\ temp \in [Layers -> Seq(Cells)]
      /\ home \in [Layers -> Files \cup {Temp, None}]
      /\ layer_index' \in Files
  BY <1>1, AllocFacts
<1>3. ~(mPrefixCacheMode /\ mIsPrefixFileExist)
  BY <1>1, <1>2 DEF IInv, FoundInv
<1>4. ReadLength = 0
  BY <1>3 DEF ReadLength
<1>5. PICK b : b = Put(Zeros(Len(add) + ExpandChunk), 0, Entries(layer, add))
  OBVIOUS
<1>6. b \in Seq(Cells) /\ Holds(b, layer, hist, Len(add))
  BY <1>1, <1>4, <1>5, NewBuffer
<1>7. temp' = [temp EXCEPT ![layer] = b]
  BY <1>5 DEF AllocTemp
<1>8. /\ home' \in [Layers -> Files \cup {Temp, None}] /\ home'[layer] = Temp
      /\ \A l \in Layers : l # layer => home'[l] = home[l]
  BY <1>1, <1>2
<1>9. /\ temp' \in [Layers -> Seq(Cells)] /\ temp'[layer] = b
      /\ \A l \in Layers : l # layer => temp'[l] = temp[l]
  BY <1>2, <1>6, <1>7
<1>10. \A l \in Layers : l # layer => Buffer(l)' = Buffer(l)
  BY <1>1, <1>8, <1>9 DEF Buffer
<1>11. \A l \in Layers : l = layer => Buffer(l)' = b /\ Holds(b, l, hist, Len(add))
  BY <1>6, <1>8, <1>9, LayerFacts DEF Buffer
<1>12. Len(add) = Kept + ReadLength + Len(add)
  BY <1>2, <1>4
<1>13. /\ TypeOK' /\ MemTypes' /\ FlagInv' /\ FoundInv' /\ FirstInv' /\ RestInv' /\ ForwardInv' /\ FailInv'
       /\ Kept' = Kept /\ (Completes' <=> Completes) /\ ~Unread'
  BY <1>1, <1>2, <1>8, <1>9, <1>10, <1>11, <1>12, LayerKeeps
<1>14. /\ pc' = "layers" /\ layer' = layer + 1 /\ file_flag' = "none" /\ marks' = marks /\ hist' = hist
  BY <1>1, <1>2 DEF LayerDone, histVars
<1>15. IndexInv'
  BY <1>13, <1>14 DEF IndexInv
<1>16. HomeInv'
  <2>1. \A l \in Layers : home'[l] \in Files => home'[l] = l - 1
    BY <1>8, LayerFacts DEF IInv, HomeInv
  <2>2. \A l \in 1 .. layer' - 1 : home'[l] \notin Files
    <3>1. TAKE l \in 1 .. layer' - 1
    <3>2. l \in Layers /\ (l # layer => l \in 1 .. layer - 1)
      BY <1>2, <1>14, LayerFacts DEF Layers
    <3>3. QED
      BY <1>1, <1>2, <1>8, <3>2, LayerFacts DEF IInv, HomeInv
  <2>3. QED
    BY <2>1, <2>2 DEF HomeInv
<1>17. WriteInv'
  <2>1. ~Completes
    BY <1>1, <1>2 DEF IInv, WriteInv
  <2>2. QED
    BY <1>13, <2>1 DEF WriteInv
<1>18. MarkInv'
  <2>1. \A f : Good(f)' = Good(f)
    BY <1>1 DEF Good, Holds
  <2>2. QED
    BY <1>2, <1>13, <1>14, <2>1 DEF IInv, MarkInv
<1>19. QED
  BY <1>13, <1>15, <1>16, <1>17, <1>18 DEF IInv

\* The index of the next layer's file, when the layers allocate one after the other.
LEMMA IndexKeeps ==
  ASSUME IInv, Allocates, file_flag # "none", LayerDone, layer_index' = NextIndex(layer_index), ~Unread'
  PROVE  layer_index = layer - 1 /\ IndexInv'
<1>1. pc = "layers" /\ layer \in Layers /\ layer \in Nat /\ Kept = 0 /\ layer_index \in Files
  BY AllocFacts
<1>2. layer_index = layer - 1
  BY <1>1 DEF IInv, IndexInv
<1>3. layer' = layer + 1
  BY DEF LayerDone
<1>4. layer' \in Layers => layer_index' = layer' - 1
  <2>1. SUFFICES ASSUME layer + 1 \in Layers PROVE NextIndex(layer_index) = layer
    BY <1>1, <1>3
  <2>2. layer_index + 1 = layer /\ layer < LayerNums
    BY <1>1, <1>2, <2>1, LayerFacts DEF Layers
  <2>3. QED
    BY <1>1, <2>2, IndexFacts
<1>5. QED
  BY <1>2, <1>4 DEF IndexInv

\* An allocation in the file of the prefix: it is the layer's own, and no file is marked.
LEMMA AllocWriteKeeps == ASSUME IInv, AllocWrite PROVE IInv'
<1>1. /\ Allocates /\ file_flag = "write" /\ LayerDone /\ temp' = [temp EXCEPT ![layer] = <<>>]
      /\ home' = [home EXCEPT ![layer] = layer_index] /\ layer_index' = NextIndex(layer_index)
      /\ past' = [past EXCEPT ![layer] = Len(add)]
  BY DEF AllocWrite
<1>2. /\ pc = "layers" /\ layer \in Layers /\ layer \in Nat /\ Kept = 0 /\ Len(add) \in Nat
      /\ data \in [Files -> Seq(Cells)] /\ temp \in [Layers -> Seq(Cells)]
      /\ home \in [Layers -> Files \cup {Temp, None}]
      /\ layer_index \in Files /\ layer_index' \in Files
  BY <1>1, AllocFacts
<1>3. Completes /\ marks = {} /\ ~mIsPrefixFileExist
  BY <1>1 DEF IInv, FlagInv, Completes
<1>4. ReadLength = 0
  BY <1>3 DEF ReadLength
<1>5. PICK b : b = Put(Zeros(Len(add) + ExpandChunk), 0, Entries(layer, add))
  OBVIOUS
<1>6. b \in Seq(Cells) /\ Holds(b, layer, hist, Len(add))
  BY <1>1, <1>4, <1>5, NewBuffer
<1>7. data' = [data EXCEPT ![layer_index] = b]
  BY <1>5 DEF AllocWrite
<1>8. layer_index = layer - 1
  BY <1>1, <1>2 DEF IInv, IndexInv
<1>9. /\ home' \in [Layers -> Files \cup {Temp, None}] /\ home'[layer] = layer_index
      /\ \A l \in Layers : l # layer => home'[l] = home[l]
  BY <1>1, <1>2
<1>10. /\ temp' \in [Layers -> Seq(Cells)]
       /\ \A l \in Layers : l # layer => temp'[l] = temp[l]
  <2>1. <<>> \in Seq(Cells)
    BY EmptySeq
  <2>2. QED
    BY <1>1, <1>2, <2>1
<1>11. /\ data' \in [Files -> Seq(Cells)] /\ data'[layer_index] = b
       /\ \A f \in Files : f # layer_index => data'[f] = data[f]
  BY <1>2, <1>6, <1>7
<1>12. \A l \in Layers : l # layer => Buffer(l)' = Buffer(l)
  <2>1. TAKE l \in Layers
  <2>2. SUFFICES ASSUME l # layer PROVE Buffer(l)' = Buffer(l)
    OBVIOUS
  <2>3. home[l] \in Files => home[l] = l - 1 /\ home[l] # layer_index
    BY <1>2, <1>8, <2>2, LayerFacts DEF IInv, HomeInv
  <2>4. QED
    BY <1>9, <1>10, <1>11, <2>2, <2>3 DEF Buffer
<1>13. \A l \in Layers : l = layer => Buffer(l)' = b /\ Holds(b, l, hist, Len(add))
  BY <1>2, <1>6, <1>9, <1>11 DEF Buffer
<1>14. Len(add) = Kept + ReadLength + Len(add)
  BY <1>2, <1>4
<1>15. /\ TypeOK' /\ MemTypes' /\ FlagInv' /\ FoundInv' /\ FirstInv' /\ RestInv' /\ ForwardInv' /\ FailInv'
       /\ Kept' = Kept /\ (Completes' <=> Completes) /\ ~Unread'
  BY <1>1, <1>2, <1>9, <1>10, <1>11, <1>12, <1>13, <1>14, LayerKeeps
<1>16. /\ pc' = "layers" /\ layer' = layer + 1 /\ file_flag' = "write" /\ marks' = {} /\ hist' = hist
  BY <1>1, <1>2, <1>3 DEF LayerDone, histVars
<1>17. IndexInv'
  BY <1>1, <1>15, IndexKeeps
<1>18. HomeInv'
  BY <1>8, <1>9, <1>16 DEF IInv, HomeInv
<1>19. WriteInv'
  <2>1. PrefixLen <= Len(hist) /\ (\A i \in 1 .. PrefixLen : hist[i] = i)
        /\ \A l \in 1 .. layer - 1 : home[l] = l - 1
    BY <1>2, <1>3 DEF IInv, WriteInv
  <2>2. \A l \in 1 .. layer' - 1 : home'[l] = l - 1
    <3>1. TAKE l \in 1 .. layer' - 1
    <3>2. l \in Layers /\ (l # layer => l \in 1 .. layer - 1)
      BY <1>2, <1>16, LayerFacts DEF Layers
    <3>3. QED
      BY <1>8, <1>9, <2>1, <3>2
  <2>3. QED
    BY <1>2, <1>15, <1>16, <2>1, <2>2 DEF WriteInv
<1>20. MarkInv'
  BY <1>16 DEF MarkInv
<1>21. QED
  BY <1>15, <1>17, <1>18, <1>19, <1>20 DEF IInv

\* The pending read: the file of the layer is marked, and holds its prefix.
LEMMA AllocReadKeeps == ASSUME IInv, AllocRead PROVE IInv'
<1>1. /\ Allocates /\ file_flag = "read" /\ LayerDone /\ data' = data
      /\ home' = [home EXCEPT ![layer] = Temp] /\ layer_index' = NextIndex(layer_index)
      /\ past' = [past EXCEPT ![layer] = PrefixLen + Len(add)]
  BY DEF AllocRead
<1>2. /\ pc = "layers" /\ layer \in Layers /\ layer \in Nat /\ Kept = 0
      /\ add \in Seq(Toks) /\ Len(add) \in Nat /\ Entries(layer, add) \in Seq(Cells)
      /\ data \in [Files -> Seq(Cells)] /\ temp \in [Layers -> Seq(Cells)]
      /\ home \in [Layers -> Files \cup {Temp, None}]
      /\ layer_index \in Files /\ layer_index' \in Files
  BY <1>1, AllocFacts
<1>3. mPrefixCacheMode /\ mIsPrefixFileExist /\ mCallIndex = 2 /\ Owned \X {"k", "v"} \subseteq marks
  BY <1>1, <1>2 DEF IInv, FlagInv, FoundInv
<1>4. ReadLength = PrefixLen /\ PrefixLen \in Nat \ {0} /\ ~Completes
  BY <1>3, LayerFacts DEF ReadLength, Completes
<1>5. PICK f \in Owned : f = layer_index /\ f = layer - 1 /\ f + 1 = layer /\ f \in Files
  BY <1>1, <1>2, LayerFacts DEF IInv, IndexInv
<1>6. Good(f)
  <2>1. <<f, "k">> \in marks
    BY <1>3
  <2>2. QED
    BY <1>2, <2>1 DEF IInv, MarkInv
<1>7. PICK c : c = Loaded(data[f], Len(add))
  OBVIOUS
<1>8. data[f] \in Seq(Cells) /\ Len(data[f]) \in Nat
  BY <1>2, <1>5, LenProperties
<1>9. /\ c \in Seq(Cells) /\ Len(add) + PrefixLen <= Len(c) /\ Len(data[f]) <= Len(c)
      /\ Len(c) \in Nat /\ \A i \in 1 .. Len(data[f]) : c[i] = data[f][i]
  BY <1>2, <1>7, <1>8, LoadedFacts, LenProperties
<1>10. /\ \A i \in 1 .. PrefixLen : hist[i] = i
       /\ \A i \in 1 .. Len(add) : add[i] = hist[PrefixLen + i]
  <2>1. /\ \A i \in 1 .. PrefixLen : hist[i] = i
        /\ \A i \in 1 .. Len(add) : add[i] = hist[Kept + ReadLength + i]
    BY <1>2, <1>4 DEF IInv, ForwardInv
  <2>2. QED
    BY <1>2, <1>4, <2>1
<1>11. Holds(c, layer, hist, PrefixLen)
  <2>1. PrefixLen <= Len(data[f]) /\ \A i \in 1 .. PrefixLen : data[f][i] = <<layer, i>>
    BY <1>5, <1>6, PrefixFacts DEF Good, Holds
  <2>2. PrefixLen <= Len(c) /\ 1 .. PrefixLen \subseteq 1 .. Len(data[f])
    BY <1>4, <1>8, <1>9, <2>1
  <2>3. \A i \in 1 .. PrefixLen : c[i] = <<layer, hist[i]>>
    BY <1>9, <1>10, <2>1, <2>2
  <2>4. QED
    BY <2>2, <2>3 DEF Holds
<1>12. PICK b : b = Put(c, PrefixLen, Entries(layer, add))
  OBVIOUS
<1>13. b \in Seq(Cells)
  BY <1>2, <1>4, <1>9, <1>12, PutFacts
<1>14. Holds(b, layer, hist, PrefixLen + Len(add))
  <2>1. PrefixLen + Len(add) <= Len(c)
    BY <1>2, <1>4, <1>9
  <2>2. QED
    BY <1>2, <1>4, <1>9, <1>10, <1>11, <1>12, <2>1, PutHolds
<1>15. temp' = [temp EXCEPT ![layer] = b]
  BY <1>5, <1>7, <1>12 DEF AllocRead
<1>16. /\ home' \in [Layers -> Files \cup {Temp, None}] /\ home'[layer] = Temp
       /\ \A l \in Layers : l # layer => home'[l] = home[l]
  BY <1>1, <1>2
<1>17. /\ temp' \in [Layers -> Seq(Cells)] /\ temp'[layer] = b
       /\ \A l \in Layers : l # layer => temp'[l] = temp[l]
  BY <1>2, <1>13, <1>15
<1>18. \A l \in Layers : l # layer => Buffer(l)' = Buffer(l)
  BY <1>1, <1>16, <1>17 DEF Buffer
<1>19. \A l \in Layers : l = layer => Buffer(l)' = b /\ Holds(b, l, hist, PrefixLen + Len(add))
  BY <1>14, <1>16, <1>17, LayerFacts DEF Buffer
<1>20. PrefixLen + Len(add) = Kept + ReadLength + Len(add) /\ PrefixLen + Len(add) \in Nat
  BY <1>2, <1>4
<1>21. /\ TypeOK' /\ MemTypes' /\ FlagInv' /\ FoundInv' /\ FirstInv' /\ RestInv' /\ ForwardInv' /\ FailInv'
       /\ Kept' = Kept /\ (Completes' <=> Completes) /\ ~Unread'
  BY <1>1, <1>2, <1>16, <1>17, <1>18, <1>19, <1>20, LayerKeeps
<1>22. /\ pc' = "layers" /\ layer' = layer + 1 /\ file_flag' = "read" /\ marks' = marks /\ hist' = hist
  BY <1>1, <1>2 DEF LayerDone, histVars
<1>23. IndexInv'
  BY <1>1, <1>21, IndexKeeps
<1>24. HomeInv'
  <2>1. \A l \in Layers : home'[l] \in Files => home'[l] = l - 1
    BY <1>16, LayerFacts DEF IInv, HomeInv
  <2>2. \A l \in 1 .. layer' - 1 : home'[l] \notin Files
    <3>1. TAKE l \in 1 .. layer' - 1
    <3>2. l \in Layers /\ (l # layer => l \in 1 .. layer - 1)
      <4>1. layer \in 1 .. N /\ layer' = layer + 1 /\ N \in Nat
        BY <1>2, <1>22, LayerFacts DEF Layers
      <4>2. l \in 1 .. layer
        BY <4>1
      <4>3. QED
        BY <4>1, <4>2 DEF Layers
    <3>3. CASE l = layer
      BY <1>16, <3>3, LayerFacts
    <3>4. CASE l # layer
      <4>1. home[l] \notin Files
        BY <1>1, <1>2, <3>2, <3>4 DEF IInv, HomeInv
      <4>2. QED
        BY <1>16, <3>2, <3>4, <4>1
    <3>5. QED
      BY <3>3, <3>4
  <2>3. QED
    BY <2>1, <2>2 DEF HomeInv
<1>25. WriteInv'
  BY <1>4, <1>21 DEF WriteInv
<1>26. MarkInv'
  <2>1. \A g : Good(g)' = Good(g)
    BY <1>1 DEF Good, Holds
  <2>2. QED
    BY <1>2, <1>21, <1>22, <2>1 DEF IInv, MarkInv
<1>27. QED
  BY <1>21, <1>23, <1>24, <1>25, <1>26 DEF IInv

\* What a layer that extends its cache finds.
LEMMA ExtendFacts ==
  ASSUME IInv, pc \in {"layers", "grow"}, layer \in Layers, previous # remove
  PROVE  /\ layer \in Nat /\ Kept \in Nat \ {0} /\ previous \in Nat /\ remove \in Nat
         /\ Kept = previous - remove /\ past[layer] = previous /\ file_flag # "read"
         /\ add \in Seq(Toks) /\ Len(add) \in Nat /\ Entries(layer, add) \in Seq(Cells)
         /\ Buffer(layer) \in Seq(Cells) /\ Len(Buffer(layer)) \in Nat
         /\ ~(mPrefixCacheMode /\ mIsPrefixFileExist) /\ ReadLength = 0 /\ ~Unread
         /\ Needs = Kept + Len(add) /\ Needs \in Nat
         /\ \A i \in 1 .. Len(add) : add[i] = hist[Kept + i]
<1>1. /\ layer \in Nat /\ Kept \in Nat \ {0} /\ previous \in Nat /\ remove \in Nat
      /\ Kept = previous - remove
  BY LayerFacts DEF IInv, TypeOK, Kept
<1>2. layer \in layer .. N
  BY <1>1, LayerFacts DEF Layers
<1>3. past[layer] = previous
  BY <1>1, <1>2 DEF IInv, ForwardInv
<1>4. add \in Seq(Toks) /\ Len(add) \in Nat
  BY LenProperties DEF IInv, MemTypes
<1>5. Entries(layer, add) \in Seq(Cells)
  BY <1>4, EntriesFacts
<1>6. Buffer(layer) \in Seq(Cells) /\ Len(Buffer(layer)) \in Nat
  BY BufferType DEF IInv
<1>7. ~(mPrefixCacheMode /\ mIsPrefixFileExist) /\ file_flag # "read"
  BY <1>1 DEF IInv, FoundInv, FlagInv
<1>8. ReadLength = 0 /\ ~Unread
  BY <1>7 DEF ReadLength, Unread
<1>9. Needs = Kept + Len(add) /\ Needs \in Nat
  BY <1>1, <1>4 DEF Needs
<1>10. \A i \in 1 .. Len(add) : add[i] = hist[Kept + i]
  <2>1. \A i \in 1 .. Len(add) : add[i] = hist[Kept + ReadLength + i]
    BY DEF IInv, ForwardInv
  <2>2. QED
    BY <1>1, <1>8, <2>1
<1>11. QED
  BY <1>1, <1>3, <1>4, <1>5, <1>6, <1>7, <1>8, <1>9, <1>10

\* Where the other files are as they were, and the file of the layer, if it is
\* marked, holds the prefix again, all marked files do.
LEMMA MarkedKeeps ==
  ASSUME IInv, NEW l \in Layers, l = layer, UNCHANGED <<marks, home>>, pc' # "grow", Kept' = Kept, Kept # 0,
         \A f \in Files : f # home[l] => Good(f)' = Good(f),
         \A f \in Owned : f = home[l] /\ PrefixLen <= Kept /\ (<<f, "k">> \in marks \/ <<f, "v">> \in marks)
                          => Good(f)'
  PROVE  MarkInv'
<1>1. ASSUME NEW f \in Owned, <<f, "k">> \in marks \/ <<f, "v">> \in marks
      PROVE  Good(f)'
  <2>1. CASE f = home[l]
    <3>1. f \in Files /\ marks # {}
      BY <1>1, LayerFacts
    <3>2. PrefixLen <= Kept
      BY <2>1, <3>1 DEF IInv, MarkInv
    <3>3. QED
      BY <1>1, <2>1, <3>2
  <2>2. CASE f # home[l]
    <3>1. Good(f)
      BY <1>1, <2>2 DEF IInv, MarkInv
    <3>2. QED
      BY <2>2, <3>1, LayerFacts
  <2>3. QED
    BY <2>1, <2>2
<1>2. QED
  BY <1>1 DEF IInv, MarkInv

\* onRealloc of a buffer that is large enough: what is kept is left alone.
LEMMA ReallocKeeps == ASSUME IInv, Realloc PROVE IInv'
<1>1. /\ pc = "layers" /\ layer \in Layers /\ previous # remove /\ Needs <= Len(Buffer(layer))
      /\ SetBuffer(layer, Put(Buffer(layer), past[layer] - remove, Entries(layer, add)))
      /\ past' = [past EXCEPT ![layer] = past[layer] - remove + Len(add)]
      /\ LayerDone /\ layer_index' = layer_index /\ home' = home
  BY DEF Realloc, Extends
<1>2. /\ layer \in Nat /\ Kept \in Nat \ {0} /\ previous \in Nat /\ remove \in Nat
      /\ Kept = previous - remove /\ past[layer] = previous /\ file_flag # "read"
      /\ add \in Seq(Toks) /\ Len(add) \in Nat /\ Entries(layer, add) \in Seq(Cells)
      /\ Buffer(layer) \in Seq(Cells) /\ Len(Buffer(layer)) \in Nat
      /\ ReadLength = 0 /\ Needs = Kept + Len(add)
      /\ \A i \in 1 .. Len(add) : add[i] = hist[Kept + i]
  BY <1>1, ExtendFacts
<1>3. PICK l \in Layers : l = layer
  BY <1>1
<1>4. PICK c : c = Buffer(l)
  OBVIOUS
<1>5. c = Buffer(layer)
  BY <1>3, <1>4 DEF Buffer
<1>6. Holds(c, l, hist, Kept)
  <2>1. l \in layer .. N
    BY <1>2, <1>3, LayerFacts DEF Layers
  <2>2. QED
    BY <1>1, <1>2, <1>4, <2>1 DEF IInv, ForwardInv
<1>7. PICK b : b = Put(c, Kept, Entries(l, add))
  OBVIOUS
<1>8. b \in Seq(Cells)
  BY <1>2, <1>3, <1>5, <1>7, PutFacts
<1>9. Holds(b, l, hist, Kept + Len(add))
  <2>1. Kept + Len(add) <= Len(c) /\ c \in Seq(Cells) /\ Kept \in Nat
    BY <1>1, <1>2, <1>5
  <2>2. QED
    BY <1>2, <1>6, <1>7, <2>1, PutHolds
<1>10. SetBuffer(l, b)
  BY <1>1, <1>2, <1>3, <1>5, <1>7 DEF SetBuffer
<1>11. /\ data' \in [Files -> Seq(Cells)] /\ temp' \in [Layers -> Seq(Cells)]
       /\ Buffer(l)' = b
       /\ \A m \in Layers : m # l => Buffer(m)' = Buffer(m)
       /\ \A f \in Files : f # home[l] => Good(f)' = Good(f)
       /\ \A f \in Files : f = home[l] => data[f] = c /\ data'[f] = b
  BY <1>1, <1>4, <1>8, <1>10, SetBufferFacts DEF IInv
<1>12. /\ Kept + Len(add) \in Nat /\ Kept + Len(add) = Kept + ReadLength + Len(add)
       /\ past[layer] - remove + Len(add) = Kept + Len(add)
  BY <1>2
<1>13. /\ TypeOK' /\ MemTypes' /\ FlagInv' /\ FoundInv' /\ FirstInv' /\ RestInv' /\ ForwardInv' /\ FailInv'
       /\ Kept' = Kept /\ (Completes' <=> Completes) /\ ~Unread'
  <2>1. \A m \in Layers : m # layer => Buffer(m)' = Buffer(m)
    BY <1>3, <1>11
  <2>2. \A m \in Layers : m = layer => Buffer(m)' = b /\ Holds(b, m, hist, Kept + Len(add))
    BY <1>3, <1>9, <1>11
  <2>3. layer_index' \in Files /\ home' \in [Layers -> Files \cup {Temp, None}]
    BY <1>1 DEF IInv, TypeOK
  <2>4. past' = [past EXCEPT ![layer] = Kept + Len(add)]
    BY <1>1, <1>12
  <2>5. QED
    BY <1>1, <1>11, <1>12, <2>1, <2>2, <2>3, <2>4, LayerKeeps
<1>14. /\ pc' = "layers" /\ layer' = layer + 1 /\ file_flag' = file_flag /\ marks' = marks /\ hist' = hist
  BY <1>1 DEF LayerDone, histVars
<1>15. IndexInv' /\ HomeInv'
  BY <1>1, <1>2, <1>13, <1>14 DEF IInv, IndexInv, HomeInv
<1>16. WriteInv'
  BY <1>1, <1>2, <1>13, <1>14 DEF IInv, WriteInv
<1>17. MarkInv'
  <2>1. ASSUME NEW f \in Owned, f = home[l], PrefixLen <= Kept, <<f, "k">> \in marks \/ <<f, "v">> \in marks
        PROVE  Good(f)'
    <3>1. data[f] = c /\ data'[f] = b /\ Good(f)
      BY <1>1, <1>11, <2>1, LayerFacts DEF IInv, MarkInv
    <3>2. Holds(c, f + 1, Prefix, PrefixLen)
      BY <3>1 DEF Good
    <3>3. Holds(b, f + 1, Prefix, PrefixLen)
      BY <1>2, <1>3, <1>5, <1>7, <2>1, <3>2, PutBehind, LayerFacts
    <3>4. QED
      BY <3>1, <3>3 DEF Good
  <2>2. QED
    BY <1>1, <1>2, <1>3, <1>11, <1>13, <1>14, <2>1, MarkedKeeps
<1>18. QED
  BY <1>13, <1>15, <1>16, <1>17 DEF IInv

\* A file that has to grow is cleared; what it held is set aside.
LEMMA GrowBeginKeeps == ASSUME IInv, GrowBegin PROVE IInv'
<1>1. /\ pc = "layers" /\ layer \in Layers /\ previous # remove /\ Needs > Len(Buffer(layer))
      /\ grown' = Buffer(layer) /\ SetBuffer(layer, Zeros(Needs + ExpandChunk)) /\ pc' = "grow"
      /\ UNCHANGED <<marks, mPrefixCacheMode, mCallIndex, mIsPrefixFileExist, file_flag, layer_index,
                     previous, remove, home, past, layer, add, rest, chunked, answering,
                     hist, torn>>
  BY DEF GrowBegin, histVars, Extends, modeVars, metaVars
<1>2. /\ layer \in Nat /\ Kept \in Nat \ {0}
      /\ Buffer(layer) \in Seq(Cells) /\ Len(Buffer(layer)) \in Nat
      /\ ~(mPrefixCacheMode /\ mIsPrefixFileExist) /\ ReadLength = 0 /\ ~Unread /\ file_flag # "read"
      /\ Needs = Kept + Len(add) /\ Needs \in Nat
  BY <1>1, ExtendFacts
<1>3. PICK l \in Layers : l = layer
  BY <1>1
<1>4. PICK c : c = Buffer(l)
  OBVIOUS
<1>5. c = Buffer(layer) /\ grown' = c
  BY <1>1, <1>3, <1>4 DEF Buffer
<1>6. PICK b : b = Zeros(Needs + ExpandChunk)
  OBVIOUS
<1>7. b \in Seq(Cells) /\ Len(b) = Needs + ExpandChunk
  BY <1>2, <1>6, ZerosFacts, LayerFacts
<1>8. Len(c) <= Len(b)
  BY <1>1, <1>2, <1>5, <1>7, LayerFacts
<1>9. SetBuffer(l, b)
  BY <1>1, <1>3, <1>6 DEF SetBuffer
<1>10. /\ data' \in [Files -> Seq(Cells)] /\ temp' \in [Layers -> Seq(Cells)]
       /\ Buffer(l)' = b
       /\ \A m \in Layers : m # l => Buffer(m)' = Buffer(m)
       /\ \A f \in Files : f # home[l] => Good(f)' = Good(f)
       /\ \A f \in Files : f = home[l] => data[f] = c /\ data'[f] = b
  BY <1>1, <1>4, <1>7, <1>9, SetBufferFacts DEF IInv
<1>11. Kept' = Kept /\ ReadLength' = ReadLength /\ (Completes' <=> Completes) /\ ~Unread'
  BY <1>1, <1>2 DEF Kept, ReadLength, Completes, Unread
<1>12. TypeOK' /\ MemTypes'
  BY <1>1, <1>2, <1>10 DEF IInv, TypeOK, MemTypes
<1>13. FlagInv' /\ FoundInv' /\ FirstInv' /\ IndexInv'
  BY <1>1, <1>2, <1>11 DEF IInv, FlagInv, FoundInv, FirstInv, IndexInv
<1>14. HomeInv' /\ WriteInv' /\ RestInv'
  BY <1>1, <1>2, <1>11 DEF IInv, HomeInv, WriteInv, RestInv
<1>15. MarkInv'
  <2>1. ASSUME NEW f \in Owned, <<f, "k">> \in marks \/ <<f, "v">> \in marks
        PROVE  IF home[l] = f THEN Holds(c, f + 1, Prefix, PrefixLen) ELSE Good(f)'
    <3>1. Good(f)
      BY <1>1, <2>1 DEF IInv, MarkInv
    <3>2. QED
      BY <1>10, <3>1, LayerFacts DEF Good
  <2>2. \A f \in Owned : <<f, "k">> \in marks' \/ <<f, "v">> \in marks' =>
          IF pc' = "grow" /\ home'[layer'] = f THEN Holds(grown', f + 1, Prefix, PrefixLen) ELSE Good(f)'
    BY <1>1, <1>3, <1>5, <2>1
  <2>3. marks' # {} /\ Kept' # 0 => \A m \in Layers : home'[m] \in Files => PrefixLen <= Kept'
    BY <1>1, <1>11 DEF IInv, MarkInv
  <2>4. QED
    BY <2>2, <2>3 DEF MarkInv
<1>16. ForwardInv'
  <2>1. /\ add' # <<>> /\ Len(hist') = Kept' + ReadLength' + Len(add') + Len(rest')
        /\ \A i \in 1 .. Len(add') : add'[i] = hist'[Kept' + ReadLength' + i]
        /\ \A i \in 1 .. Len(rest') : rest'[i] = hist'[Kept' + ReadLength' + Len(add') + i]
        /\ ReadLength' # 0 => \A i \in 1 .. PrefixLen : hist'[i] = i
    BY <1>1, <1>11 DEF IInv, ForwardInv
  <2>2. \A m \in 1 .. layer' - 1 : /\ past'[m] = Kept' + ReadLength' + Len(add')
                                   /\ Holds(Buffer(m)', m, hist', Kept' + ReadLength' + Len(add'))
    <3>1. TAKE m \in 1 .. layer' - 1
    <3>2. m \in Layers /\ m # l /\ m \in 1 .. layer - 1
      BY <1>1, <1>2, <1>3, LayerFacts DEF Layers
    <3>3. /\ past[m] = Kept + ReadLength + Len(add)
          /\ Holds(Buffer(m), m, hist, Kept + ReadLength + Len(add))
      BY <1>1, <3>2 DEF IInv, ForwardInv
    <3>4. QED
      BY <1>1, <1>10, <1>11, <3>2, <3>3
  <2>3. \A m \in layer' .. N :
          /\ past'[m] = previous'
          /\ Holds(IF pc' = "grow" /\ m = layer' THEN grown' ELSE Buffer(m)', m, hist', Kept')
    <3>1. TAKE m \in layer' .. N
    <3>2. m \in Layers /\ m \in layer .. N
      BY <1>1, <1>2, LayerFacts DEF Layers
    <3>3. past[m] = previous /\ Holds(Buffer(m), m, hist, Kept)
      BY <1>1, <1>2, <3>2 DEF IInv, ForwardInv
    <3>4. CASE m = l
      BY <1>1, <1>3, <1>4, <1>5, <1>11, <3>3, <3>4
    <3>5. CASE m # l
      BY <1>1, <1>3, <1>10, <1>11, <3>2, <3>3, <3>5
    <3>6. QED
      BY <3>4, <3>5
  <2>4. Len(grown') <= Len(Buffer(layer)')
    <3>1. Buffer(layer)' = Buffer(l)'
      BY <1>1, <1>3 DEF Buffer
    <3>2. QED
      BY <1>5, <1>8, <1>10, <3>1
  <2>5. QED
    BY <1>1, <1>2, <1>11, <2>1, <2>2, <2>3, <2>4 DEF ForwardInv
<1>17. FailInv'
  BY <1>1, <1>11 DEF IInv, FailInv
<1>18. QED
  BY <1>12, <1>13, <1>14, <1>15, <1>16, <1>17 DEF IInv

\* The file has grown: it holds again what was set aside.
LEMMA GrowEndKeeps == ASSUME IInv, GrowEnd PROVE IInv'
<1>1. /\ pc = "grow" /\ SetBuffer(layer, Put(Buffer(layer), 0, grown)) /\ grown' = <<>> /\ pc' = "layers"
      /\ UNCHANGED <<marks, mPrefixCacheMode, mCallIndex, mIsPrefixFileExist, file_flag, layer_index,
                     previous, remove, home, past, layer, add, rest, chunked, answering,
                     hist, torn>>
  BY DEF GrowEnd, histVars, modeVars, metaVars
<1>2. layer \in Layers /\ Kept # 0 /\ Len(grown) <= Len(Buffer(layer)) /\ grown \in Seq(Cells)
  BY <1>1 DEF IInv, ForwardInv, MemTypes
<1>3. previous # remove
  BY <1>2 DEF IInv, TypeOK, Kept
<1>4. /\ layer \in Nat /\ Kept \in Nat \ {0}
      /\ Buffer(layer) \in Seq(Cells) /\ Len(Buffer(layer)) \in Nat
      /\ ~(mPrefixCacheMode /\ mIsPrefixFileExist) /\ ReadLength = 0 /\ ~Unread /\ file_flag # "read"
  BY <1>1, <1>2, <1>3, ExtendFacts
<1>5. PICK l \in Layers : l = layer
  BY <1>2
<1>6. PICK c : c = Buffer(l)
  OBVIOUS
<1>7. c = Buffer(layer)
  BY <1>5, <1>6 DEF Buffer
<1>8. PICK g : g = grown
  OBVIOUS
<1>9. PICK b : b = Put(c, 0, g)
  OBVIOUS
<1>10. c \in Seq(Cells) /\ g \in Seq(Cells) /\ b \in Seq(Cells) /\ Len(g) <= Len(c)
  BY <1>2, <1>4, <1>7, <1>8, <1>9, PutFacts
<1>11. SetBuffer(l, b)
  BY <1>1, <1>5, <1>7, <1>8, <1>9 DEF SetBuffer
<1>12. /\ data' \in [Files -> Seq(Cells)] /\ temp' \in [Layers -> Seq(Cells)]
       /\ Buffer(l)' = b
       /\ \A m \in Layers : m # l => Buffer(m)' = Buffer(m)
       /\ \A f \in Files : f # home[l] => Good(f)' = Good(f)
       /\ \A f \in Files : f = home[l] => data[f] = Buffer(l) /\ data'[f] = b
  BY <1>1, <1>10, <1>11, SetBufferFacts DEF IInv
<1>13. Kept' = Kept /\ ReadLength' = ReadLength /\ (Completes' <=> Completes) /\ ~Unread'
  BY <1>1, <1>4 DEF Kept, ReadLength, Completes, Unread
<1>14. TypeOK' /\ MemTypes'
  <2>1. grown' \in Seq(Cells)
    BY <1>1, EmptySeq
  <2>2. QED
    BY <1>1, <1>12, <2>1 DEF IInv, TypeOK, MemTypes
<1>15. FlagInv' /\ FoundInv' /\ FirstInv' /\ IndexInv'
  BY <1>1, <1>4, <1>13 DEF IInv, FlagInv, FoundInv, FirstInv, IndexInv
<1>16. HomeInv' /\ WriteInv' /\ RestInv'
  BY <1>1, <1>2, <1>13 DEF IInv, HomeInv, WriteInv, RestInv
<1>17. MarkInv'
  <2>1. ASSUME NEW f \in Owned, f = home[l], PrefixLen <= Kept, <<f, "k">> \in marks \/ <<f, "v">> \in marks
        PROVE  Good(f)'
    <3>1. Holds(g, f + 1, Prefix, PrefixLen) /\ data'[f] = b
      BY <1>1, <1>5, <1>8, <1>12, <2>1, LayerFacts DEF IInv, MarkInv
    <3>2. Holds(b, f + 1, Prefix, PrefixLen)
      BY <1>9, <1>10, <3>1, PutWhole, LayerFacts
    <3>3. QED
      BY <3>1, <3>2 DEF Good
  <2>2. QED
    BY <1>1, <1>2, <1>5, <1>12, <1>13, <2>1, MarkedKeeps
<1>18. ForwardInv'
  <2>1. /\ add' # <<>> /\ Len(hist') = Kept' + ReadLength' + Len(add') + Len(rest')
        /\ \A i \in 1 .. Len(add') : add'[i] = hist'[Kept' + ReadLength' + i]
        /\ \A i \in 1 .. Len(rest') : rest'[i] = hist'[Kept' + ReadLength' + Len(add') + i]
        /\ ReadLength' # 0 => \A i \in 1 .. PrefixLen : hist'[i] = i
    BY <1>1, <1>13 DEF IInv, ForwardInv
  <2>2. \A m \in 1 .. layer' - 1 : /\ past'[m] = Kept' + ReadLength' + Len(add')
                                   /\ Holds(Buffer(m)', m, hist', Kept' + ReadLength' + Len(add'))
    <3>1. TAKE m \in 1 .. layer' - 1
    <3>2. m \in Layers /\ m # l /\ m \in 1 .. layer - 1
      BY <1>1, <1>2, <1>4, <1>5, LayerFacts DEF Layers
    <3>3. /\ past[m] = Kept + ReadLength + Len(add)
          /\ Holds(Buffer(m), m, hist, Kept + ReadLength + Len(add))
      BY <1>1, <3>2 DEF IInv, ForwardInv
    <3>4. QED
      BY <1>1, <1>12, <1>13, <3>2, <3>3
  <2>3. \A m \in layer' .. N :
          /\ past'[m] = previous'
          /\ Holds(IF pc' = "grow" /\ m = layer' THEN grown' ELSE Buffer(m)', m, hist', Kept')
    <3>1. TAKE m \in layer' .. N
    <3>2. m \in Layers /\ m \in layer .. N
      BY <1>1, <1>2, <1>4, LayerFacts DEF Layers
    <3>3. past[m] = previous /\ Holds(IF m = layer THEN grown ELSE Buffer(m), m, hist, Kept)
      BY <1>1, <1>2, <3>2 DEF IInv, ForwardInv
    <3>4. CASE m = l
      <4>1. Holds(g, m, hist, Kept)
        BY <1>5, <1>8, <3>3, <3>4
      <4>2. Holds(b, m, hist, Kept)
        BY <1>4, <1>9, <1>10, <4>1, PutWhole
      <4>3. QED
        BY <1>1, <1>12, <1>13, <3>3, <3>4, <4>2
    <3>5. CASE m # l
      BY <1>1, <1>5, <1>12, <1>13, <3>2, <3>3, <3>5
    <3>6. QED
      BY <3>4, <3>5
  <2>4. QED
    BY <1>1, <2>1, <2>2, <2>3 DEF ForwardInv
<1>19. FailInv'
  BY <1>1, <1>13 DEF IInv, FailInv
<1>20. QED
  BY <1>14, <1>15, <1>16, <1>17, <1>18, <1>19 DEF IInv

\* A step that changes nothing.
LEMMA StutterKeeps == ASSUME IInv, UNCHANGED vars PROVE IInv'
<1>1. /\ UNCHANGED <<data, marks, file_flag, layer_index, previous, remove, home, temp, past, pc, layer,
                     add, rest, chunked, answering, grown, hist, torn>>
      /\ UNCHANGED <<mPrefixCacheMode, mCallIndex, mIsPrefixFileExist>>
  BY DEF vars, diskVars, modeVars, metaVars, kvVars, runVars, histVars
<1>2. /\ Kept' = Kept /\ ReadLength' = ReadLength
      /\ (Completes' <=> Completes) /\ (Unread' <=> Unread)
  BY <1>1 DEF Kept, ReadLength, Completes, Unread
<1>3. \A l : Buffer(l)' = Buffer(l)
  BY <1>1, Untouched
<1>4. \A f : Good(f)' = Good(f)
  BY <1>1, Untouched
<1>5. TypeOK' /\ MemTypes'
  BY <1>1 DEF IInv, TypeOK, MemTypes
<1>6. FlagInv' /\ FoundInv' /\ FirstInv' /\ IndexInv'
  BY <1>1, <1>2 DEF IInv, FlagInv, FoundInv, FirstInv, IndexInv
<1>7. HomeInv' /\ WriteInv'
  BY <1>1, <1>2 DEF IInv, HomeInv, WriteInv
<1>8. MarkInv'
  BY <1>1, <1>2, <1>4 DEF IInv, MarkInv
<1>9. RestInv'
  BY <1>1, <1>2, <1>3 DEF IInv, RestInv
<1>10. ForwardInv'
  BY <1>1, <1>2, <1>3 DEF IInv, ForwardInv
<1>11. FailInv'
  BY <1>1, <1>2 DEF IInv, FailInv
<1>12. QED
  BY <1>5, <1>6, <1>7, <1>8, <1>9, <1>10, <1>11 DEF IInv

\* Every step keeps the invariant.
LEMMA NextIInv == ASSUME Liberties = {} PROVE IInv /\ [Next]_vars => IInv'
<1> SUFFICES ASSUME IInv, [Next]_vars PROVE IInv'
  OBVIOUS
<1>1. CASE Restart
  BY <1>1, RestartKeeps
<1>2. CASE SetPrefixCacheFile
  BY <1>2, SetPrefixCacheFileKeeps
<1>3. CASE AllocTemp
  BY <1>3, AllocTempKeeps
<1>4. CASE AllocWrite
  BY <1>4, AllocWriteKeeps
<1>5. CASE AllocRead
  BY <1>5, AllocReadKeeps
<1>6. CASE Realloc
  BY <1>6, ReallocKeeps
<1>7. CASE GrowBegin
  BY <1>7, GrowBeginKeeps
<1>8. CASE GrowEnd
  BY <1>8, GrowEndKeeps
<1>9. CASE Pass
  BY <1>9, PassKeeps
<1>10. CASE \E prompt \in Prompts, inChunks \in BOOLEAN : Generate(prompt, inChunks)
  BY <1>10, GenerateKeeps
<1>11. CASE NextChunk
  BY <1>11, NextChunkKeeps
<1>12. CASE TimesOut
  BY <1>12, TimesOutKeeps
<1>13. CASE ForwardEnds
  BY <1>13, ForwardEndsKeeps
<1>14. CASE ForwardFails
  BY <1>14, ForwardFailsKeeps
<1>15. CASE \E t \in Answers : Decode(t)
  BY <1>15, DecodeKeeps
<1>16. CASE DecodeEnds
  BY <1>16, DecodeEndsKeeps
<1>17. CASE Mark
  BY <1>17, MarkKeeps
<1>18. CASE Reset
  BY <1>18, ResetKeeps
<1>19. CASE \E begin \in 0 .. MaxLength : EraseHistory(begin)
  BY <1>19, EraseHistoryKeeps
<1>20. CASE UNCHANGED vars
  BY <1>20, StutterKeeps
<1>21. QED
  BY <1>1, <1>2, <1>3, <1>4, <1>5, <1>6, <1>7, <1>8, <1>9, <1>10, <1>11, <1>12, <1>13,
     <1>14, <1>15, <1>16, <1>17, <1>18, <1>19, <1>20 DEF Next

-----------------------------------------------------------------------------
(* The theorems.                                                           *)

\* A buffer that holds all tokens of a sequence begins with their entries.
LEMMA HoldsSubSeq ==
  ASSUME NEW buf \in Seq(Cells), NEW l \in Layers, NEW s \in Seq(Toks), Holds(buf, l, s, Len(s))
  PROVE  SubSeq(buf, 1, Len(s)) = Entries(l, s)
<1>1. PICK n \in Nat : n = Len(s)
  BY LenProperties
<1>2. Len(buf) \in Nat /\ n <= Len(buf) /\ \A i \in 1 .. n : buf[i] = <<l, s[i]>>
  BY <1>1, LenProperties DEF Holds
<1>3. \A i \in 1 .. n : buf[i] \in Cells
  BY <1>2, ElementOfSeq
<1>4. PICK b : b = SubSeq(buf, 1, n)
  OBVIOUS
<1>5. /\ b \in Seq(Cells) /\ Len(b) = IF 1 <= n THEN n - 1 + 1 ELSE 0
      /\ \A i \in 1 .. n - 1 + 1 : b[i] = buf[1 + i - 1]
  BY <1>3, <1>4, SubSeqProperties
<1>6. Len(b) = n /\ \A i \in 1 .. n : b[i] = buf[i]
  BY <1>5
<1>7. /\ Entries(l, s) \in Seq(Cells) /\ Len(Entries(l, s)) = n
      /\ \A i \in 1 .. n : Entries(l, s)[i] = <<l, s[i]>>
  BY <1>1, EntriesFacts
<1>8. b = Entries(l, s)
  <2>1. \A i \in 1 .. Len(b) : b[i] = Entries(l, s)[i]
    BY <1>2, <1>6, <1>7
  <2>2. QED
    BY <1>5, <1>6, <1>7, <2>1, SeqEqual
<1>9. QED
  BY <1>1, <1>4, <1>8

\* The inductive invariant holds when no liberty is taken: no process is killed
\* while it rewrites a file, no request cuts or drops a prefix that the files, or
\* the call to come, still stand for, the forward that loads the prefix does not
\* fail, setPrefixCacheFile finds the caches empty, and what follows a forward
\* that failed half-way starts them anew.
THEOREM Invariance == ASSUME Liberties = {} PROVE Spec => []IInv
<1>1. Init => IInv
  BY InitIInv
<1>2. IInv /\ [Next]_vars => IInv'
  BY NextIInv
<1>3. QED
  BY <1>1, <1>2, PTL DEF Spec

\* The state of the prefix cache, of the session and of the caches stays well typed.
THEOREM TypeCorrect == ASSUME Liberties = {} PROVE Spec => []TypeOK
<1>1. IInv => TypeOK
  BY DEF IInv
<1>2. QED
  BY <1>1, Invariance, PTL

\* Files that setPrefixCacheFile has found usable hold the prefix of their layer
\* until they have been read, whatever the process that wrote them did to its
\* caches in them after they were marked.
THEOREM FilesRight == ASSUME Liberties = {} PROVE Spec => []FilesTrustworthy
<1>1. ASSUME IInv PROVE FilesTrustworthy
  <2>1. SUFFICES ASSUME mPrefixCacheMode, mIsPrefixFileExist, NEW f \in Owned
                 PROVE  Len(data[f]) >= PrefixLen /\ SubSeq(data[f], 1, PrefixLen) = Entries(f + 1, Prefix)
    BY DEF FilesTrustworthy
  <2>2. Owned \X {"k", "v"} \subseteq marks /\ pc # "grow"
    BY <1>1, <2>1 DEF IInv, FoundInv
  <2>3. <<f, "k">> \in marks
    BY <2>2
  <2>4. Good(f)
    BY <1>1, <2>2, <2>3 DEF IInv, MarkInv
  <2>5. Holds(data[f], f + 1, Prefix, Len(Prefix)) /\ Len(Prefix) = PrefixLen
    BY <2>4, PrefixFacts DEF Good
  <2>6. data[f] \in Seq(Cells) /\ f + 1 \in Layers /\ Len(data[f]) \in Nat
    BY <1>1, LayerFacts, LenProperties DEF IInv, MemTypes
  <2>7. SubSeq(data[f], 1, PrefixLen) = Entries(f + 1, Prefix)
    BY <2>5, <2>6, HoldsSubSeq, PrefixFacts
  <2>8. QED
    BY <2>5, <2>6, <2>7, LayerFacts DEF Holds
<1>2. QED
  BY <1>1, Invariance, PTL

\* At rest every layer's cache holds its own entries of the whole conversation,
\* whether the prefix was computed or found, and whatever has been erased.  A
\* forward may fail in any layer, in a prompt, its chunks or an answer, except
\* when it loads the prefix: it damages nothing that was cached before it.  The
\* layers it has passed stay ahead of previous, and to extend them afterwards is
\* a liberty, not excused here.
THEOREM HistoryRight == ASSUME Liberties = {} PROVE Spec => []HistoryIntact
<1>1. ASSUME IInv PROVE HistoryIntact
  <2>1. SUFFICES ASSUME pc \in {"idle", "decode", "mark"}, ~Unread
                 PROVE  /\ Len(hist) = previous - remove
                        /\ \A l \in Layers : hist # <<>> =>
                             (torn \/ past[l] = previous) /\ SubSeq(Buffer(l), 1, Len(hist)) = Entries(l, hist)
    BY DEF HistoryIntact
  <2>2. hist \in Seq(Toks) /\ Len(hist) = Kept /\ Kept = previous - remove
    BY <1>1, <2>1 DEF IInv, MemTypes, RestInv, Kept
  <2>3. ASSUME NEW l \in Layers, hist # <<>>
        PROVE  (torn \/ past[l] = previous) /\ SubSeq(Buffer(l), 1, Len(hist)) = Entries(l, hist)
    <3>1. Kept # 0
      BY <2>2, <2>3, EmptySeq
    <3>2. (torn \/ past[l] = previous) /\ Holds(Buffer(l), l, hist, Kept)
      BY <1>1, <2>1, <3>1 DEF IInv, RestInv
    <3>3. PICK c : c = Buffer(l)
      OBVIOUS
    <3>4. c \in Seq(Cells) /\ Holds(c, l, hist, Len(hist))
      BY <1>1, <2>2, <3>2, <3>3, BufferType DEF IInv
    <3>5. SubSeq(c, 1, Len(hist)) = Entries(l, hist)
      BY <2>2, <3>4, HoldsSubSeq
    <3>6. QED
      BY <3>2, <3>3, <3>5
  <2>4. QED
    BY <2>2, <2>3
<1>2. QED
  BY <1>1, Invariance, PTL

\* A layer that extends its cache finds it as long as previous says, as
\* CPUAttention asserts, when no forward goes on over torn caches.
THEOREM ExtendsRight == ASSUME Liberties = {} PROVE Spec => []LayersAtPrevious
<1>1. ASSUME IInv PROVE LayersAtPrevious
  BY <1>1, ExtendFacts DEF LayersAtPrevious, Extends
<1>2. QED
  BY <1>1, Invariance, PTL
=============================================================================
