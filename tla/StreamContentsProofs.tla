------------------------ MODULE StreamContentsProofs ------------------------
(***************************************************************************)
(* What the functional reading of a stored stream computes, for every      *)
(* stream: the lemmas both whole-stream readers are measured by.           *)
(***************************************************************************)
EXTENDS StreamContents, Inductions

StoredStreams == [BevyNumbers -> Bevies]
Started(at) == [status |-> "reading", at |-> at]

\* The progress through one bevy's chunks, chunk by chunk, and through a
\* stream, bevy by bevy.
IsChunkwise(g, chunks, from) ==
  /\ g \in [0..Len(chunks) -> Progress]
  /\ g[0] = Started(from)
  /\ \A k \in 1..Len(chunks) : g[k] = DeliverChunk(g[k - 1], chunks[k])
Chunkwise(chunks, from) == CHOOSE g : IsChunkwise(g, chunks, from)

IsBevywise(g, stored) ==
  /\ g \in [0..BevyCount -> Progress]
  /\ g[0] = Started(0)
  /\ \A n \in 1..BevyCount : g[n] = SerialBevy(stored[n - 1], g[n - 1])
Bevywise(stored) == CHOOSE g : IsBevywise(g, stored)

-----------------------------------------------------------------------------
(* One turn *)

\* A turn keeps the progress within the stream, and what has stopped stopped.
LEMMA ChunkTurn ==
  ASSUME NEW p \in Progress, NEW plain \in Chunks
  PROVE  /\ DeliverChunk(p, plain) \in Progress
         /\ DeliverChunk(p, plain).at >= p.at
         /\ DeliverChunk(p, plain).at <= p.at + ChunkSize
         /\ p.status # "reading" \/ p.at >= Size => DeliverChunk(p, plain) = p
  BY StreamAssumption
  DEF DeliverChunk, Progress, Chunks, Undecodable, ShortAt, Truncated

\* The progress through a bevy's chunks is the fold of the turns.
LEMMA ChunksAreFolded ==
  ASSUME NEW bevy \in Bevies, NEW from \in 0..Size
  PROVE  /\ IsChunkwise(Chunkwise(bevy.chunks, from), bevy.chunks, from)
         /\ DeliverBevy(bevy, from) = Chunkwise(bevy.chunks, from)[Len(bevy.chunks)]
<1> DEFINE N == Len(bevy.chunks)
           F == [k \in 1..N |-> [p \in Progress |-> DeliverChunk(p, bevy.chunks[k])]]
           Turn(it, s) == IF s = {} THEN Started(from)
                          ELSE DeliverChunk(it[s \ {Max(s)}], bevy.chunks[Max(s)])
           iter == CHOOSE it : it = [s \in SUBSET DOMAIN bevy.chunks |-> Turn(it, s)]
           g == Chunkwise(bevy.chunks, from)
<1>1. N \in Nat /\ DOMAIN bevy.chunks = 1..N /\ \A k \in 1..N : bevy.chunks[k] \in Chunks
  BY DEF Bevies
<1>2. Started(from) \in Progress
  BY DEF Started, Progress
<1>3. F \in [1..N -> [Progress -> Progress]]
  BY <1>1, ChunkTurn
<1>4. \A k \in 1..N, p \in Progress : F[k][p] = DeliverChunk(p, bevy.chunks[k])
  OBVIOUS
<1>5. DeliverBevy(bevy, from) = iter[DOMAIN bevy.chunks]
  BY DEF DeliverBevy, FoldLeft, MapThenFoldSet, Started
<1> HIDE DEF F, N
<1>6. IsChunkwise(g, bevy.chunks, from)
  <2>1. PICK h \in [0..N -> Progress] :
          h[0] = Started(from) /\ \A k \in 1..N : h[k] = F[k][h[k - 1]]
    <3>1. N \in Nat
      BY <1>1
    <3>2. HasTurns(N, Progress, Started(from), F)
      BY <1>2, <1>3, <3>1, TurnByTurn
    <3>3. QED BY <3>2 DEF HasTurns
  <2>2. \A k \in 1..N : h[k - 1] \in Progress
    BY <1>1
  <2>3. IsChunkwise(h, bevy.chunks, from)
    BY <1>4, <2>1, <2>2 DEF IsChunkwise, N
  <2>4. QED BY <2>3 DEF Chunkwise
<1>7. iter = [s \in SUBSET DOMAIN bevy.chunks |-> Turn(iter, s)]
  <2>1. PICK it \in [SUBSET (1..N) -> Progress] : \A s \in SUBSET (1..N) :
          it[s] = IF s = {} THEN Started(from) ELSE F[Max(s)][it[s \ {Max(s)}]]
    <3>1. N \in Nat
      BY <1>1
    <3>2. HasFold(N, Progress, Started(from), F)
      BY <1>2, <1>3, <3>1, FoldExists
    <3>3. QED BY <3>2 DEF HasFold
  <2>2. ASSUME NEW s \in SUBSET (1..N) PROVE it[s] = Turn(it, s)
    <3>1. CASE s = {}
      BY <2>1, <3>1
    <3>2. CASE s # {}
      <4>1. Max(s) \in 1..N
        BY <1>1, <3>2, LargestNumber
      <4>2. it[s \ {Max(s)}] \in Progress
        OBVIOUS
      <4>3. QED BY <1>4, <2>1, <3>2, <4>1, <4>2
    <3>3. QED BY <3>1, <3>2
  <2>3. it = [s \in SUBSET DOMAIN bevy.chunks |-> Turn(it, s)]
    BY <1>1, <2>2
  <2>4. QED BY <2>3
<1> HIDE DEF iter, g
<1>8. \A s \in SUBSET (1..N) : iter[s] = Turn(iter, s)
  BY <1>1, <1>7
<1>9. 0..N \subseteq {k \in 0..N : iter[1..k] = g[k]}
  <2> DEFINE S == {k \in 0..N : iter[1..k] = g[k]}
  <2>1. 0 \in S
    <3>1. 1..0 = {} /\ {} \in SUBSET (1..N)
      OBVIOUS
    <3>2. iter[{}] = Started(from) /\ 0 \in 0..N
      <4>1. N \in Nat
        BY <1>1
      <4>2. iter[{}] = Turn(iter, {})
        BY <1>8, <3>1
      <4>3. QED BY <4>1, <4>2
    <3>3. g[0] = Started(from)
      BY <1>6 DEF IsChunkwise
    <3>4. QED BY <3>1, <3>2, <3>3
  <2>2. ASSUME NEW k \in 0..(N - 1), k \in S PROVE k + 1 \in S
    <3>1. /\ k + 1 \in 1..N /\ 1..(k + 1) \in SUBSET (1..N) /\ 1..(k + 1) # {}
          /\ k + 1 \in Nat
      <4>1. N \in Nat
        BY <1>1
      <4>2. k \in Nat /\ k + 1 <= N /\ k + 1 \in 1..(k + 1)
        BY <4>1
      <4>3. QED BY <4>1, <4>2
    <3>2. Max(1..(k + 1)) \in 1..(k + 1) /\ \A y \in 1..(k + 1) : y <= Max(1..(k + 1))
      BY <3>1, LargestNumber
    <3>3. Max(1..(k + 1)) = k + 1
      BY <1>1, <3>1, <3>2
    <3>4. (1..(k + 1)) \ {k + 1} = 1..k
      BY <1>1
    <3>5. iter[1..(k + 1)] = DeliverChunk(iter[1..k], bevy.chunks[k + 1])
      BY <1>8, <3>1, <3>3, <3>4
    <3>6. g[k + 1] = DeliverChunk(g[k], bevy.chunks[k + 1])
      BY <1>1, <1>6, <3>1 DEF IsChunkwise, N
    <3>7. QED BY <2>2, <3>1, <3>5, <3>6
  <2> HIDE DEF S
  <2>3. 0..N \subseteq S
    BY <1>1, <2>1, <2>2, NumbersUpTo
  <2>4. QED BY <2>3 DEF S
<1>10. iter[1..N] = g[N]
  BY <1>1, <1>9
<1>11. QED BY <1>1, <1>5, <1>6, <1>10 DEF N, g

\* The progress only grows, and stays where it stops or the stream ends.
LEMMA ChunksGoOn ==
  ASSUME NEW bevy \in Bevies, NEW from \in 0..Size,
         NEW k \in 0..Len(bevy.chunks), NEW m \in k..Len(bevy.chunks)
  PROVE  LET g == Chunkwise(bevy.chunks, from)
         IN  /\ g[k] \in Progress /\ g[m] \in Progress /\ g[k].at <= g[m].at
             /\ g[k].status # "reading" \/ g[k].at >= Size => g[m] = g[k]
<1> DEFINE N == Len(bevy.chunks)
           g == Chunkwise(bevy.chunks, from)
           Ends == g[k].status # "reading" \/ g[k].at >= Size
           S == {j \in 0..(N - k) : g[k].at <= g[k + j].at /\ (Ends => g[k + j] = g[k])}
<1>1. N \in Nat /\ \A i \in 1..N : bevy.chunks[i] \in Chunks
  BY DEF Bevies
<1>2. /\ g \in [0..N -> Progress]
      /\ \A i \in 1..N : g[i] = DeliverChunk(g[i - 1], bevy.chunks[i])
  BY ChunksAreFolded DEF IsChunkwise
<1> HIDE DEF g, N
<1>3. k \in Nat /\ k <= N /\ m \in Nat /\ m <= N /\ k <= m
  BY <1>1 DEF N
<1>4. g[k] \in Progress /\ g[m] \in Progress
  BY <1>2, <1>3
<1>5. \A p \in Progress : p.at \in Nat
  BY StreamAssumption DEF Progress
<1>6. 0 \in S
  BY <1>1, <1>3, <1>4, <1>5
<1>7. ASSUME NEW j \in 0..((N - k) - 1), j \in S PROVE j + 1 \in S
  <2>1. k + j \in 0..N /\ k + j + 1 \in 1..N /\ (k + j + 1) - 1 = k + j /\ j + 1 \in 0..(N - k)
    BY <1>1, <1>3
  <2>2. g[k + j + 1] = DeliverChunk(g[k + j], bevy.chunks[k + j + 1])
    BY <1>2, <2>1
  <2>3. g[k + j] \in Progress /\ bevy.chunks[k + j + 1] \in Chunks
    BY <1>1, <1>2, <2>1
  <2>4. /\ g[k + j + 1] \in Progress /\ g[k + j + 1].at >= g[k + j].at
        /\ g[k + j].status # "reading" \/ g[k + j].at >= Size => g[k + j + 1] = g[k + j]
    BY <2>2, <2>3, ChunkTurn
  <2>5. g[k].at <= g[k + j].at /\ (Ends => g[k + j] = g[k])
    BY <1>7
  <2>6. g[k].at <= g[k + (j + 1)].at
    BY <1>4, <1>5, <2>1, <2>3, <2>4, <2>5
  <2>7. Ends => g[k + (j + 1)] = g[k]
    BY <2>1, <2>4, <2>5
  <2>8. QED BY <2>1, <2>6, <2>7
<1> HIDE DEF S
<1>8. 0..(N - k) \subseteq S
  <2>1. N - k \in Nat
    BY <1>1, <1>3
  <2>2. QED BY <1>6, <1>7, <2>1, NumbersUpTo
<1>9. m - k \in S /\ k + (m - k) = m
  BY <1>1, <1>3, <1>8
<1>10. QED BY <1>4, <1>9 DEF S, g

\* No chunk carries more than its size.
LEMMA ChunksCarry ==
  ASSUME NEW bevy \in Bevies, NEW from \in 0..Size, NEW k \in 0..Len(bevy.chunks)
  PROVE  Chunkwise(bevy.chunks, from)[k].at <= from + k * ChunkSize
<1> DEFINE N == Len(bevy.chunks)
           g == Chunkwise(bevy.chunks, from)
           S == {j \in 0..N : g[j].at <= from + j * ChunkSize}
<1>1. N \in Nat /\ (\A i \in 1..N : bevy.chunks[i] \in Chunks) /\ ChunkSize \in Nat /\ Size \in Nat
  BY StreamAssumption DEF Bevies
<1>2. /\ g \in [0..N -> Progress] /\ g[0] = Started(from)
      /\ \A i \in 1..N : g[i] = DeliverChunk(g[i - 1], bevy.chunks[i])
  BY ChunksAreFolded DEF IsChunkwise
<1> HIDE DEF g, N
<1>3. \A p \in Progress : p.at \in Nat
  BY StreamAssumption DEF Progress
<1>4. 0 \in S
  BY <1>1, <1>2 DEF Started
<1>5. ASSUME NEW j \in 0..(N - 1), j \in S PROVE j + 1 \in S
  <2>1. j \in 0..N /\ j + 1 \in 1..N /\ (j + 1) - 1 = j /\ j + 1 \in 0..N
    BY <1>1
  <2>2. g[j] \in Progress /\ bevy.chunks[j + 1] \in Chunks
    BY <1>1, <1>2, <2>1
  <2>3. g[j + 1] = DeliverChunk(g[j], bevy.chunks[j + 1])
    BY <1>2, <2>1
  <2>4. g[j + 1].at <= g[j].at + ChunkSize /\ g[j + 1].at \in Nat /\ g[j].at \in Nat
    BY <1>3, <2>2, <2>3, ChunkTurn
  <2>5. g[j].at <= from + j * ChunkSize
    BY <1>5
  <2>6. (j + 1) * ChunkSize = j * ChunkSize + ChunkSize /\ j * ChunkSize \in Nat
    BY <1>1, <2>1
  <2>7. QED BY <1>1, <2>1, <2>4, <2>5, <2>6
<1> HIDE DEF S
<1>6. 0..N \subseteq S
  BY <1>1, <1>4, <1>5, NumbersUpTo
<1>7. QED BY <1>6 DEF S, N, g

\* A chunk that does not decompress is met only once the stream has all its
\* bytes, unless the progress stops there.
LEMMA BrokenChunkStops ==
  ASSUME NEW bevy \in Bevies, NEW from \in 0..Size, NEW i \in 1..Len(bevy.chunks),
         bevy.chunks[i] = Undecodable, DeliverBevy(bevy, from).status = "reading"
  PROVE  Chunkwise(bevy.chunks, from)[i - 1].at >= Size
<1> DEFINE N == Len(bevy.chunks)
           g == Chunkwise(bevy.chunks, from)
<1>1. N \in Nat /\ i \in 1..N /\ i - 1 \in 0..N /\ i \in 0..N /\ N \in i..N /\ N \in (i - 1)..N
  BY DEF Bevies
<1>2. /\ g[i] = DeliverChunk(g[i - 1], bevy.chunks[i])
      /\ DeliverBevy(bevy, from) = g[N]
  BY <1>1, ChunksAreFolded DEF IsChunkwise
<1>3. /\ g[i].status # "reading" => g[N] = g[i]
      /\ g[i - 1].status # "reading" => g[N] = g[i - 1]
      /\ g[i - 1] \in Progress
  BY <1>1, ChunksGoOn
<1>4. g[i - 1].status = "reading" /\ g[i].status = "reading"
  BY <1>2, <1>3
<1> HIDE DEF g, N
<1>5. g[i - 1].at \in Nat /\ Size \in Nat
  BY <1>3, StreamAssumption DEF Progress
<1>6. ~ (g[i - 1].at < Size)
  BY <1>2, <1>3, <1>4, <1>5 DEF DeliverChunk, Progress
<1>7. QED BY <1>5, <1>6 DEF g

\* A bevy that decodes is never the progress's failure.
LEMMA DecodedNeverFails ==
  ASSUME NEW bevy \in Bevies, NEW from \in 0..Size, Decodes(bevy)
  PROVE  DeliverBevy(bevy, from).status # "failed"
<1> DEFINE N == Len(bevy.chunks)
           g == Chunkwise(bevy.chunks, from)
           S == {j \in 0..N : g[j].status # "failed"}
<1>1. N \in Nat /\ \A j \in 1..N : bevy.chunks[j] \in Chunks /\ bevy.chunks[j] # Undecodable
  BY DEF Bevies, Decodes
<1>2. /\ g \in [0..N -> Progress] /\ g[0] = Started(from) /\ DeliverBevy(bevy, from) = g[N]
      /\ \A j \in 1..N : g[j] = DeliverChunk(g[j - 1], bevy.chunks[j])
  BY ChunksAreFolded DEF IsChunkwise
<1> HIDE DEF g, N
<1>3. 0 \in S
  BY <1>1, <1>2 DEF Started
<1>4. ASSUME NEW j \in 0..(N - 1), j \in S PROVE j + 1 \in S
  <2>1. j \in 0..N /\ j + 1 \in 1..N /\ (j + 1) - 1 = j /\ j + 1 \in 0..N
    BY <1>1
  <2>2. g[j] \in Progress /\ bevy.chunks[j + 1] # Undecodable /\ g[j].status # "failed"
    BY <1>1, <1>2, <1>4, <2>1
  <2>3. g[j + 1] = DeliverChunk(g[j], bevy.chunks[j + 1])
    BY <1>2, <2>1
  <2>4. g[j + 1].status # "failed"
    BY <2>2, <2>3 DEF DeliverChunk, Progress
  <2>5. QED BY <2>1, <2>4
<1> HIDE DEF S
<1>5. 0..N \subseteq S
  BY <1>1, <1>3, <1>4, NumbersUpTo
<1>6. QED BY <1>1, <1>2, <1>5 DEF S

-----------------------------------------------------------------------------
(* The bevies of a stream *)

\* A bevy holds at least a byte, and as many bevies as a stream needs are
\* just enough.
LEMMA BeviesSpanTheStream ==
  /\ BevyBytes \in Nat \ {0}
  /\ BevyCount \in Nat
  /\ Size <= BevyCount * BevyBytes
  /\ \A n \in Nat : n < BevyCount => n * BevyBytes < Size
<1>1. ChunkSize \in Nat \ {0} /\ ChunksPerBevy \in Nat \ {0} /\ Size \in Nat
  BY StreamAssumption
<1>2. BevyBytes \in Nat \ {0}
  BY <1>1 DEF BevyBytes
<1> DEFINE B == BevyBytes
           D == Size + B - 1
<1>3. D \in Nat /\ B \in Nat /\ B > 0 /\ BevyCount = D \div B
  BY <1>1, <1>2 DEF BevyCount
<1> HIDE DEF B, D
<1>4. /\ D \div B \in Int /\ D % B \in 0..(B - 1)
      /\ D = B * (D \div B) + (D % B)
  BY <1>3
<1>5. D \div B >= 0
  BY <1>3, <1>4
<1>6. BevyCount \in Nat /\ D = B * BevyCount + (D % B)
  BY <1>3, <1>4, <1>5
<1>7. Size <= BevyCount * B
  <2>1. Size = D - (B - 1) /\ D % B <= B - 1 /\ D % B \in Nat
    BY <1>1, <1>2, <1>4 DEF D, B
  <2>2. QED BY <1>1, <1>3, <1>6, <2>1
<1>8. ASSUME NEW n \in Nat, n < BevyCount PROVE n * B < Size
  <2>1. (n + 1) * B <= BevyCount * B
    BY <1>3, <1>6, <1>8
  <2>2. (n + 1) * B = n * B + B /\ n * B \in Nat
    BY <1>3
  <2>3. BevyCount * B <= D
    BY <1>3, <1>4, <1>6
  <2>4. D = Size + B - 1
    BY DEF D, B
  <2>5. QED BY <1>1, <1>3, <1>6, <2>1, <2>2, <2>3, <2>4
<1>9. QED BY <1>2, <1>6, <1>7, <1>8 DEF B

\* The chunks of b bevies and i - 1 more hold the stream only if chunk i is
\* past the ones the declared size needs.
LEMMA PastTheStream ==
  ASSUME NEW b \in Nat, NEW i \in Nat \ {0},
         Size <= b * BevyBytes + (i - 1) * ChunkSize
  PROVE  b * ChunksPerBevy + i > ChunkCount
<1> DEFINE C == ChunkSize
           M == b * ChunksPerBevy + (i - 1)
           D == Size + C - 1
<1>1. C \in Nat \ {0} /\ ChunksPerBevy \in Nat \ {0} /\ Size \in Nat
  BY StreamAssumption
<1>2. M \in Nat
  BY <1>1
<1>3. Size <= M * C
  <2>1. b * BevyBytes = (b * ChunksPerBevy) * C
    BY <1>1 DEF BevyBytes
  <2>2. b * ChunksPerBevy \in Nat /\ i - 1 \in Nat
    BY <1>1
  <2>3. (b * ChunksPerBevy) * C + (i - 1) * C = M * C
    BY <1>1, <2>2
  <2>4. QED BY <2>1, <2>3
<1>4. D \in Nat /\ ChunkCount = D \div C
  BY <1>1 DEF ChunkCount
<1>5. D <= M * C + C - 1
  BY <1>1, <1>2, <1>3
<1> HIDE DEF C, D
<1>6. D \div C \in Int /\ D % C \in 0..(C - 1) /\ D = C * (D \div C) + (D % C)
  BY <1>1, <1>4
<1>7. D \div C <= M
  <2>1. SUFFICES ASSUME D \div C >= M + 1 PROVE FALSE
    BY <1>2, <1>6
  <2>2. C * (D \div C) >= C * (M + 1)
    <3>1. PICK q \in Int : q = D \div C
      BY <1>6
    <3>2. q - (M + 1) \in Nat
      BY <1>2, <2>1, <3>1
    <3>3. C * (q - (M + 1)) \in Nat
      BY <1>1, <3>2
    <3>4. C * (q - (M + 1)) = C * q - C * (M + 1)
      BY <1>1, <1>2, <3>1
    <3>5. C * q \in Int /\ C * (M + 1) \in Int
      BY <1>1, <1>2, <3>1
    <3>6. QED BY <3>1, <3>3, <3>4, <3>5
  <2>3. C * (M + 1) = M * C + C
    BY <1>1, <1>2
  <2>4. D >= C * (D \div C)
    BY <1>1, <1>4, <1>6
  <2>5. QED BY <1>1, <1>2, <1>4, <1>5, <1>6, <2>2, <2>3, <2>4
<1>8. QED BY <1>1, <1>2, <1>4, <1>6, <1>7

\* One bevy's turn keeps the progress within the stream, and what has stopped
\* stopped, and carries no more than a bevy holds.
LEMMA BevyTurn ==
  ASSUME NEW p \in Progress, NEW bevy \in Bevies
  PROVE  LET q == SerialBevy(bevy, p)
         IN  /\ q \in Progress /\ q.at >= p.at
             /\ q.at <= p.at + BevyBytes
             /\ p.status # "reading" \/ p.at >= Size => q = p
<1> DEFINE q == SerialBevy(bevy, p)
<1>1. p.at \in 0..Size /\ BevyBytes \in Nat /\ Size \in Nat /\ ChunkSize \in Nat
      /\ ChunksPerBevy \in Nat
  BY BeviesSpanTheStream, StreamAssumption DEF Progress
<1>2. CASE p.status # "reading" \/ p.at >= Size
  BY <1>1, <1>2 DEF SerialBevy
<1>3. CASE p.status = "reading" /\ p.at < Size /\ (~bevy.readable \/ ~IndexAccepted(bevy))
  <2>1. q = [p EXCEPT !.status = "failed"]
    BY <1>3, <1>1 DEF SerialBevy
  <2>2. QED BY <1>1, <1>3, <2>1 DEF Progress
<1>4. CASE p.status = "reading" /\ p.at < Size /\ bevy.readable /\ IndexAccepted(bevy)
  <2> DEFINE N == Len(bevy.chunks)
             g == Chunkwise(bevy.chunks, p.at)
  <2>1. q = DeliverBevy(bevy, p.at)
    BY <1>1, <1>4 DEF SerialBevy
  <2>2. N \in Nat /\ N <= ChunksPerBevy /\ N \in 0..N /\ 0 \in 0..N
    BY <1>4 DEF Bevies, IndexAccepted
  <2>3. q = g[N] /\ g[0] = Started(p.at)
    BY <1>1, <2>1, ChunksAreFolded DEF IsChunkwise
  <2>4. g[0].at <= g[N].at /\ g[N] \in Progress
    BY <1>1, <2>2, ChunksGoOn
  <2>5. g[N].at <= p.at + N * ChunkSize
    BY <1>1, <2>2, ChunksCarry
  <2>6. g[0].at = p.at
    BY <2>3 DEF Started
  <2>7. N * ChunkSize <= BevyBytes /\ N * ChunkSize \in Nat
    BY <1>1, <2>2 DEF BevyBytes
  <2>8. g[N].at \in Nat
    BY <2>4, <1>1 DEF Progress
  <2> HIDE DEF N, g, q
  <2>9. QED BY <1>1, <1>4, <2>3, <2>4, <2>5, <2>6, <2>7, <2>8 DEF q
<1>5. QED BY <1>1, <1>2, <1>3, <1>4

\* The serial reading of a stream is the last of its bevies' turns.
LEMMA StreamIsReadBevywise ==
  ASSUME NEW stored \in StoredStreams
  PROVE  /\ IsBevywise(Bevywise(stored), stored)
         /\ SerialAfter(stored) = Bevywise(stored)[BevyCount]
<1> DEFINE F == [k \in 1..BevyCount |-> [p \in Progress |-> SerialBevy(stored[k - 1], p)]]
           read == CHOOSE r : r = [n \in 0..BevyCount |->
                      IF n = 0 THEN Started(0) ELSE SerialBevy(stored[n - 1], r[n - 1])]
           g == Bevywise(stored)
           S == {n \in 0..BevyCount : read[n] = g[n]}
<1>1. BevyCount \in Nat
  BY BeviesSpanTheStream
<1>2. \A k \in 1..BevyCount : stored[k - 1] \in Bevies
  BY <1>1 DEF StoredStreams, BevyNumbers
<1>3. Started(0) \in Progress
  BY StreamAssumption DEF Started, Progress
<1>4. F \in [1..BevyCount -> [Progress -> Progress]]
  BY <1>2, BevyTurn
<1>5. \A k \in 1..BevyCount, p \in Progress : F[k][p] = SerialBevy(stored[k - 1], p)
  OBVIOUS
<1>6. SerialAfter(stored) = read[BevyCount]
  BY DEF SerialAfter, Started
<1> HIDE DEF F
<1>7. PICK h \in [0..BevyCount -> Progress] :
        h[0] = Started(0) /\ \A k \in 1..BevyCount : h[k] = F[k][h[k - 1]]
  <2>1. HasTurns(BevyCount, Progress, Started(0), F)
    BY <1>1, <1>3, <1>4, TurnByTurn
  <2>2. QED BY <2>1 DEF HasTurns
<1>8. \A k \in 1..BevyCount : h[k] = SerialBevy(stored[k - 1], h[k - 1])
  <2>1. \A k \in 1..BevyCount : h[k - 1] \in Progress
    BY <1>1
  <2>2. QED BY <1>5, <1>7, <2>1
<1>9. IsBevywise(g, stored)
  <2>1. IsBevywise(h, stored)
    BY <1>7, <1>8 DEF IsBevywise
  <2>2. QED BY <2>1 DEF Bevywise
<1>10. read = [n \in 0..BevyCount |->
                 IF n = 0 THEN Started(0) ELSE SerialBevy(stored[n - 1], read[n - 1])]
  <2>1. \A n \in 0..BevyCount : h[n] = IF n = 0 THEN Started(0)
                                       ELSE SerialBevy(stored[n - 1], h[n - 1])
    BY <1>1, <1>7, <1>8
  <2>2. h = [n \in 0..BevyCount |->
               IF n = 0 THEN Started(0) ELSE SerialBevy(stored[n - 1], h[n - 1])]
    BY <2>1
  <2>3. QED BY <2>2
<1> HIDE DEF read, g
<1>11. 0 \in S
  BY <1>1, <1>9, <1>10 DEF IsBevywise
<1>12. ASSUME NEW n \in 0..(BevyCount - 1), n \in S PROVE n + 1 \in S
  <2>1. n + 1 \in 1..BevyCount /\ n + 1 \in 0..BevyCount /\ (n + 1) - 1 = n /\ n + 1 # 0
    BY <1>1
  <2>2. read[n + 1] = SerialBevy(stored[n], read[n])
    BY <1>10, <2>1
  <2>3. g[n + 1] = SerialBevy(stored[n], g[n])
    BY <1>9, <2>1 DEF IsBevywise
  <2>4. QED BY <1>12, <2>1, <2>2, <2>3
<1> HIDE DEF S
<1>13. 0..BevyCount \subseteq S
  BY <1>1, <1>11, <1>12, NumbersUpTo
<1>14. BevyCount \in S
  BY <1>1, <1>13
<1>15. QED BY <1>6, <1>9, <1>14 DEF S, g

\* From bevy to bevy the progress only grows, and stays where it stops or the
\* stream ends; after n bevies it is no more than n bevies hold.
LEMMA BeviesGoOn ==
  ASSUME NEW stored \in StoredStreams, NEW n \in 0..BevyCount, NEW m \in n..BevyCount
  PROVE  LET g == Bevywise(stored)
         IN  /\ g[n] \in Progress /\ g[m] \in Progress /\ g[n].at <= g[m].at
             /\ g[n].status # "reading" \/ g[n].at >= Size => g[m] = g[n]
             /\ g[n].at <= n * BevyBytes
<1> DEFINE g == Bevywise(stored)
           Ends == g[n].status # "reading" \/ g[n].at >= Size
           S == {j \in 0..(BevyCount - n) : g[n].at <= g[n + j].at /\ (Ends => g[n + j] = g[n])}
           T == {j \in 0..BevyCount : g[j].at <= j * BevyBytes}
<1>1. BevyCount \in Nat /\ BevyBytes \in Nat
  BY BeviesSpanTheStream
<1>2. /\ g \in [0..BevyCount -> Progress] /\ g[0] = Started(0)
      /\ \A k \in 1..BevyCount : g[k] = SerialBevy(stored[k - 1], g[k - 1])
  BY StreamIsReadBevywise DEF IsBevywise
<1> HIDE DEF g
<1>3. n \in Nat /\ n <= BevyCount /\ m \in Nat /\ m <= BevyCount /\ n <= m
  BY <1>1
<1>4. g[n] \in Progress /\ g[m] \in Progress
  BY <1>2, <1>3
<1>5. \A p \in Progress : p.at \in Nat
  BY StreamAssumption DEF Progress
<1>6. ASSUME NEW k \in 0..(BevyCount - 1)
      PROVE  /\ g[k] \in Progress /\ g[k + 1] \in Progress
             /\ g[k + 1].at >= g[k].at /\ g[k + 1].at <= g[k].at + BevyBytes
             /\ g[k].status # "reading" \/ g[k].at >= Size => g[k + 1] = g[k]
  <2>1. k \in 0..BevyCount /\ k + 1 \in 1..BevyCount /\ (k + 1) - 1 = k /\ k \in BevyNumbers
    BY <1>1 DEF BevyNumbers
  <2>2. g[k + 1] = SerialBevy(stored[k], g[k])
    BY <1>2, <2>1
  <2>3. g[k] \in Progress /\ stored[k] \in Bevies
    BY <1>2, <2>1 DEF StoredStreams
  <2>4. QED BY <2>2, <2>3, BevyTurn
<1>7. g[n].at <= g[m].at /\ (Ends => g[m] = g[n])
  <2>1. 0 \in S
    BY <1>1, <1>3, <1>4, <1>5
  <2>2. ASSUME NEW j \in 0..((BevyCount - n) - 1), j \in S PROVE j + 1 \in S
    <3>1. n + j \in 0..(BevyCount - 1) /\ n + (j + 1) = (n + j) + 1 /\ j + 1 \in 0..(BevyCount - n)
      BY <1>1, <1>3
    <3>2. g[n].at <= g[n + j].at /\ (Ends => g[n + j] = g[n])
      BY <2>2
    <3>3. /\ g[n + j] \in Progress /\ g[n + (j + 1)] \in Progress
          /\ g[n + (j + 1)].at >= g[n + j].at
          /\ g[n + j].status # "reading" \/ g[n + j].at >= Size => g[n + (j + 1)] = g[n + j]
      BY <1>6, <3>1
    <3>4. g[n].at <= g[n + (j + 1)].at
      BY <1>4, <1>5, <3>2, <3>3
    <3>5. Ends => g[n + (j + 1)] = g[n]
      BY <3>2, <3>3
    <3>6. QED BY <3>1, <3>4, <3>5
  <2> HIDE DEF S
  <2>3. BevyCount - n \in Nat
    BY <1>1, <1>3
  <2>4. 0..(BevyCount - n) \subseteq S
    BY <2>1, <2>2, <2>3, NumbersUpTo
  <2>5. m - n \in S /\ n + (m - n) = m
    BY <1>1, <1>3, <2>4
  <2>6. QED BY <2>5 DEF S
<1>8. g[n].at <= n * BevyBytes
  <2>1. 0 \in T
    BY <1>1, <1>2 DEF Started
  <2>2. ASSUME NEW j \in 0..(BevyCount - 1), j \in T PROVE j + 1 \in T
    <3>1. j + 1 \in 0..BevyCount /\ j \in Nat
      BY <1>1
    <3>2. g[j].at <= j * BevyBytes
      BY <2>2
    <3>3. g[j + 1].at <= g[j].at + BevyBytes /\ g[j + 1].at \in Nat /\ g[j].at \in Nat
      BY <1>5, <1>6
    <3>4. (j + 1) * BevyBytes = j * BevyBytes + BevyBytes /\ j * BevyBytes \in Nat
      BY <1>1, <3>1
    <3>5. QED BY <1>1, <3>1, <3>2, <3>3, <3>4
  <2> HIDE DEF T
  <2>3. 0..BevyCount \subseteq T
    BY <1>1, <2>1, <2>2, NumbersUpTo
  <2>4. QED BY <1>3, <2>3 DEF T
<1>9. QED BY <1>4, <1>7, <1>8 DEF g

\* A bevy opened and read through: the next progress is that of its chunks.
LEMMA BevyOpened ==
  ASSUME NEW stored \in StoredStreams, NEW b \in BevyNumbers,
         Bevywise(stored)[b].status = "reading", Bevywise(stored)[b].at < Size
  PROVE  /\ b \in 0..BevyCount /\ b + 1 \in 0..BevyCount /\ stored[b] \in Bevies
         /\ Bevywise(stored)[b].at \in 0..Size
         /\ stored[b].readable /\ IndexAccepted(stored[b]) =>
              Bevywise(stored)[b + 1] = DeliverBevy(stored[b], Bevywise(stored)[b].at)
         /\ ~(stored[b].readable /\ IndexAccepted(stored[b])) =>
              Bevywise(stored)[b + 1] = [status |-> "failed", at |-> Bevywise(stored)[b].at]
<1> DEFINE g == Bevywise(stored)
<1>1. BevyCount \in Nat
  BY BeviesSpanTheStream
<1>2. b \in 0..BevyCount /\ b + 1 \in 0..BevyCount /\ b + 1 \in 1..BevyCount /\ (b + 1) - 1 = b
  BY <1>1 DEF BevyNumbers
<1>3. g[b + 1] = SerialBevy(stored[b], g[b]) /\ g[b] \in Progress /\ stored[b] \in Bevies
  BY <1>2, StreamIsReadBevywise DEF IsBevywise, StoredStreams
<1> HIDE DEF g
<1>4. g[b].at \in 0..Size /\ Size \in Nat /\ g[b].status = "reading" /\ g[b].at < Size
  BY <1>3, StreamAssumption DEF Progress, g
<1>5. ~(g[b].status # "reading" \/ g[b].at >= Size)
  BY <1>4
<1>6. CASE stored[b].readable /\ IndexAccepted(stored[b])
  BY <1>2, <1>3, <1>4, <1>5, <1>6 DEF SerialBevy, g
<1>7. CASE ~(stored[b].readable /\ IndexAccepted(stored[b]))
  <2>1. g[b + 1] = [g[b] EXCEPT !.status = "failed"]
    BY <1>3, <1>5, <1>7 DEF SerialBevy
  <2>2. [g[b] EXCEPT !.status = "failed"] = [status |-> "failed", at |-> g[b].at]
    BY <1>3 DEF Progress
  <2>3. QED BY <1>2, <1>3, <1>4, <1>7, <2>1, <2>2 DEF g
<1>8. QED BY <1>6, <1>7

\* How the serial reading of a whole stream ends, told from the progress at
\* which it stops.
LEMMA SerialEnd ==
  ASSUME NEW stored \in StoredStreams, NEW n \in 0..BevyCount
  PROVE  LET p == Bevywise(stored)[n]
         IN  /\ p.at <= SerialBytes(stored)
             /\ SerialBytes(stored) \in 0..Size
             /\ p.status # "reading" =>
                  SerialOutcome(stored) = p.status /\ SerialBytes(stored) = p.at
             /\ p.status = "reading" /\ (n = BevyCount \/ p.at >= Size) =>
                  /\ SerialOutcome(stored) = IF p.at = Size THEN "ok" ELSE "short"
                  /\ SerialBytes(stored) = p.at
<1> DEFINE g == Bevywise(stored)
<1>1. BevyCount \in Nat /\ BevyCount \in n..BevyCount /\ BevyCount \in 0..BevyCount
  BY BeviesSpanTheStream
<1>2. SerialAfter(stored) = g[BevyCount]
  BY StreamIsReadBevywise
<1>3. /\ g[n] \in Progress /\ g[BevyCount] \in Progress /\ g[n].at <= g[BevyCount].at
      /\ g[n].status # "reading" \/ g[n].at >= Size => g[BevyCount] = g[n]
  BY <1>1, BeviesGoOn
<1> HIDE DEF g
<1>4. g[BevyCount].at \in 0..Size
  BY <1>3 DEF Progress
<1>5. QED BY <1>2, <1>3, <1>4 DEF SerialBytes, SerialOutcome, g

\* A stream a serial read takes for sound has every bevy readable, and a chunk
\* that does not decompress only past the end.
LEMMA SoundReadOpensEveryBevy ==
  ASSUME NEW stored \in StoredStreams, SerialOutcome(stored) = "ok", NEW b \in BevyNumbers
  PROVE  stored[b].readable /\ (Decodes(stored[b]) \/ HasBadSpare(stored))
<1> DEFINE g == Bevywise(stored)
<1>1. /\ BevyCount \in Nat /\ BevyBytes \in Nat /\ b \in 0..BevyCount /\ b + 1 \in 0..BevyCount
      /\ b \in Nat /\ b * BevyBytes < Size /\ Size \in Nat /\ ChunkSize \in Nat
  BY BeviesSpanTheStream, StreamAssumption DEF BevyNumbers
<1>2. \A n \in 0..BevyCount : g[n] \in Progress /\ g[n].status = "reading"
  <2>1. SUFFICES ASSUME NEW n \in 0..BevyCount
                 PROVE  g[n] \in Progress /\ g[n].status = "reading"
    OBVIOUS
  <2>2. g[n] \in Progress
    BY StreamIsReadBevywise DEF IsBevywise
  <2>3. g[n].status # "reading" => g[n].status = "ok"
    BY SerialEnd
  <2>4. QED BY <2>2, <2>3 DEF Progress
<1>3. g[b].at <= b * BevyBytes
  <2>1. b \in b..BevyCount
    BY <1>1
  <2>2. QED BY <1>1, <2>1, BeviesGoOn
<1>4. g[b].at \in Nat /\ g[b].at < Size /\ b * BevyBytes \in Nat
  <2>1. g[b].at \in 0..Size
    BY <1>1, <1>2 DEF Progress
  <2>2. QED BY <1>1, <1>3, <2>1
<1>5. /\ stored[b] \in Bevies /\ g[b].at \in 0..Size
      /\ stored[b].readable /\ IndexAccepted(stored[b]) =>
              g[b + 1] = DeliverBevy(stored[b], g[b].at)
      /\ ~(stored[b].readable /\ IndexAccepted(stored[b])) =>
              g[b + 1] = [status |-> "failed", at |-> g[b].at]
  BY <1>1, <1>2, <1>4, BevyOpened
<1>6. stored[b].readable /\ IndexAccepted(stored[b])
  <2>1. g[b + 1].status = "reading"
    BY <1>1, <1>2
  <2>2. QED BY <1>5, <2>1
<1>7. DeliverBevy(stored[b], g[b].at).status = "reading"
  BY <1>1, <1>2, <1>5, <1>6
<1>8. ASSUME ~Decodes(stored[b]) PROVE HasBadSpare(stored)
  <2>1. PICK i \in 1..Len(stored[b].chunks) : stored[b].chunks[i] = Undecodable
    BY <1>6, <1>8 DEF Decodes
  <2>2. Chunkwise(stored[b].chunks, g[b].at)[i - 1].at >= Size
    BY <1>5, <1>7, <2>1, BrokenChunkStops
  <2>3. i \in Nat \ {0} /\ i - 1 \in 0..Len(stored[b].chunks)
    BY <1>5 DEF Bevies
  <2>4. Chunkwise(stored[b].chunks, g[b].at)[i - 1].at <= g[b].at + (i - 1) * ChunkSize
    BY <1>5, <2>3, ChunksCarry
  <2>5. Chunkwise(stored[b].chunks, g[b].at)[i - 1].at \in Nat
    <3>1. Chunkwise(stored[b].chunks, g[b].at)[i - 1] \in Progress
      BY <1>5, <2>3, ChunksAreFolded DEF IsChunkwise
    <3>2. QED BY <3>1, <1>1 DEF Progress
  <2>6. Size <= b * BevyBytes + (i - 1) * ChunkSize
    <3>1. (i - 1) * ChunkSize \in Nat
      BY <1>1, <2>3
    <3> DEFINE reached == Chunkwise(stored[b].chunks, g[b].at)[i - 1].at
               began   == g[b].at
               before  == b * BevyBytes
               behind  == (i - 1) * ChunkSize
    <3>2. /\ reached \in Nat /\ began \in Nat /\ before \in Nat /\ behind \in Nat /\ Size \in Nat
          /\ reached >= Size /\ reached <= began + behind /\ began <= before
      BY <1>1, <1>3, <1>4, <2>2, <2>4, <2>5, <3>1
    <3> HIDE DEF reached, began, before, behind
    <3>3. Size <= before + behind
      BY <3>2
    <3>4. QED BY <3>3 DEF before, behind
  <2>7. b * ChunksPerBevy + i > ChunkCount
    BY <1>1, <2>3, <2>6, PastTheStream
  <2>8. QED BY <2>1, <2>7 DEF HasBadSpare
<1>9. QED BY <1>6, <1>8
=============================================================================
