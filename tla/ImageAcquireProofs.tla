------------------------- MODULE ImageAcquireProofs -------------------------
(***************************************************************************)
(* What a multi-part acquisition writes, for any device, any folder of     *)
(* files, any chunk, any threshold and any number of digests.              *)
(* First the reader of a device: every sector of the image is the device's *)
(* own or a recorded one, as long as a sector that has failed once keeps   *)
(* failing.  The invariant that carries it says where the descriptor may   *)
(* lag: on the sector just given up, from which the next read cannot       *)
(* succeed.  And on any medium at all the report names the sectors that    *)
(* were filled: what a step adds to what was produced it adds at the end,  *)
(* where it notes what it filled.                                          *)
(* Then the writer over a source that returns anything: the parts are the  *)
(* image in order, the digests cover it.  Last the acquisition, whose      *)
(* steps are the reader's and the writer's: its invariant says what the    *)
(* writer was given of the source, and what has told it of the end.        *)
(***************************************************************************)
EXTENDS ImageAcquire, Inductions, SequenceTheorems, FiniteSetTheorems, TLAPS

-----------------------------------------------------------------------------
(* The reader of a device *)

\* Content x at sector s, with the sectors of R recorded.
OwnIn(x, s, R) == x = s \/ (x = Placeholder /\ s \in R)
Sound(seq, start, R) == \A i \in 1..Len(seq) : OwnIn(seq[i], start + i - 1, R)

\* Sound sectors that adjoin are sound joined.
LEMMA JoinSound ==
  ASSUME NEW s \in Seq(Contents), NEW t \in Seq(Contents), NEW start \in Nat, NEW R,
         Sound(s, start, R), Sound(t, start + Len(s), R)
  PROVE  /\ s \o t \in Seq(Contents)
         /\ Len(s \o t) = Len(s) + Len(t)
         /\ Sound(s \o t, start, R)
<1>1. /\ s \o t \in Seq(Contents)
      /\ Len(s \o t) = Len(s) + Len(t)
      /\ \A i \in 1 .. Len(s) + Len(t) :
           (s \o t)[i] = IF i <= Len(s) THEN s[i] ELSE t[i - Len(s)]
  BY ConcatProperties
<1>2. Len(s) \in Nat /\ Len(t) \in Nat
  BY LenProperties
<1>3. ASSUME NEW i \in 1..(Len(s) + Len(t))
      PROVE  OwnIn((s \o t)[i], start + i - 1, R)
  <2>1. CASE i <= Len(s)
    <3>1. i \in 1..Len(s) /\ (s \o t)[i] = s[i]
      BY <1>1, <1>2, <2>1
    <3> QED BY <3>1 DEF Sound
  <2>2. CASE ~(i <= Len(s))
    <3> DEFINE j == i - Len(s)
    <3>1. j \in 1..Len(t) /\ (s \o t)[i] = t[j] /\ start + i - 1 = (start + Len(s)) + j - 1
      BY <1>1, <1>2, <2>2
    <3>2. OwnIn(t[j], (start + Len(s)) + j - 1, R)
      BY <3>1 DEF Sound
    <3> QED BY <3>1, <3>2
  <2> QED BY <2>1, <2>2
<1> QED BY <1>1, <1>3 DEF Sound

\* And sound cut in two.
LEMMA SplitSound ==
  ASSUME NEW s \in Seq(Contents), NEW start \in Nat, NEW R, NEW k \in 0..Len(s),
         Sound(s, start, R)
  PROVE  /\ SubSeq(s, 1, k) \in Seq(Contents) /\ Len(SubSeq(s, 1, k)) = k
         /\ SubSeq(s, k + 1, Len(s)) \in Seq(Contents)
         /\ Len(SubSeq(s, k + 1, Len(s))) = Len(s) - k
         /\ Sound(SubSeq(s, 1, k), start, R)
         /\ Sound(SubSeq(s, k + 1, Len(s)), start + k, R)
<1>1. Len(s) \in Nat /\ \A i \in 1..Len(s) : s[i] \in Contents
  BY LenProperties, ElementOfSeq
<1>2. /\ SubSeq(s, 1, k) \in Seq(Contents)
      /\ Len(SubSeq(s, 1, k)) = IF 1 <= k THEN k - 1 + 1 ELSE 0
      /\ \A i \in 1..(k - 1 + 1) : SubSeq(s, 1, k)[i] = s[1 + i - 1]
  <2>1. \A i \in 1..k : s[i] \in Contents
    BY <1>1
  <2> QED BY <1>1, <2>1, SubSeqProperties
<1>3. /\ SubSeq(s, k + 1, Len(s)) \in Seq(Contents)
      /\ Len(SubSeq(s, k + 1, Len(s))) = IF k + 1 <= Len(s) THEN Len(s) - (k + 1) + 1 ELSE 0
      /\ \A i \in 1..(Len(s) - (k + 1) + 1) : SubSeq(s, k + 1, Len(s))[i] = s[(k + 1) + i - 1]
  <2>1. (k + 1 \in Int) /\ \A i \in (k + 1)..Len(s) : s[i] \in Contents
    BY <1>1
  <2> QED BY <1>1, <2>1, SubSeqProperties
<1>4. Len(SubSeq(s, 1, k)) = k /\ Len(SubSeq(s, k + 1, Len(s))) = Len(s) - k
  BY <1>1, <1>2, <1>3
<1>5. ASSUME NEW i \in 1..k
      PROVE  OwnIn(SubSeq(s, 1, k)[i], start + i - 1, R)
  <2>1. i \in 1..Len(s) /\ SubSeq(s, 1, k)[i] = s[i]
    BY <1>1, <1>2
  <2> QED BY <2>1 DEF Sound
<1>6. ASSUME NEW i \in 1..(Len(s) - k)
      PROVE  OwnIn(SubSeq(s, k + 1, Len(s))[i], start + k + i - 1, R)
  <2> DEFINE j == k + i
  <2>1. /\ j \in 1..Len(s) /\ SubSeq(s, k + 1, Len(s))[i] = s[j]
        /\ start + k + i - 1 = start + j - 1
    BY <1>1, <1>3
  <2>2. OwnIn(s[j], start + j - 1, R)
    BY <2>1 DEF Sound
  <2> QED BY <2>1, <2>2
<1> QED BY <1>2, <1>3, <1>4, <1>5, <1>6 DEF Sound

\* Handing the first k sectors of a filled block to the caller.
LEMMA ServeSound ==
  ASSUME NEW handed \in Seq(Contents), NEW filled \in Seq(Contents), NEW R,
         NEW k \in 0..Len(filled),
         Sound(handed, 0, R), Sound(filled, Len(handed), R)
  PROVE  /\ handed \o SubSeq(filled, 1, k) \in Seq(Contents)
         /\ SubSeq(filled, k + 1, Len(filled)) \in Seq(Contents)
         /\ Len(handed \o SubSeq(filled, 1, k)) + Len(SubSeq(filled, k + 1, Len(filled)))
              = Len(handed) + Len(filled)
         /\ Sound(handed \o SubSeq(filled, 1, k), 0, R)
         /\ Sound(SubSeq(filled, k + 1, Len(filled)), Len(handed \o SubSeq(filled, 1, k)), R)
<1> DEFINE next == handed \o SubSeq(filled, 1, k)
           rest == SubSeq(filled, k + 1, Len(filled))
<1>1. Len(handed) \in Nat /\ Len(filled) \in Nat
  BY LenProperties
<1>2. /\ SubSeq(filled, 1, k) \in Seq(Contents) /\ Len(SubSeq(filled, 1, k)) = k
      /\ rest \in Seq(Contents) /\ Len(rest) = Len(filled) - k
      /\ Sound(SubSeq(filled, 1, k), Len(handed), R)
      /\ Sound(rest, Len(handed) + k, R)
  BY <1>1, SplitSound
<1>3. 0 + Len(handed) = Len(handed)
  BY <1>1
<1>4. /\ next \in Seq(Contents) /\ Len(next) = Len(handed) + k
      /\ Sound(next, 0, R)
  BY <1>2, <1>3, JoinSound
<1> HIDE DEF next, rest
<1>5. Len(next) + Len(rest) = Len(handed) + Len(filled)
  <2>1. Len(next) = Len(handed) + k /\ Len(rest) = Len(filled) - k
    BY <1>2, <1>4
  <2>2. k \in Int /\ Len(handed) \in Int /\ Len(filled) \in Int
    BY <1>1
  <2>3. \A a, b \in Int : (a + k) + (b - k) = a + b
    BY <2>2
  <2> QED BY <2>1, <2>2, <2>3
<1>6. Sound(rest, Len(next), R)
  BY <1>2, <1>4
<1> QED BY <1>2, <1>4, <1>5, <1>6 DEF next, rest

-----------------------------------------------------------------------------
(* Recording a sector *)

Regions == [start : Nat, length : Nat]

\* Noting a sector records it, and keeps what was recorded.
LEMMA NoteRecords ==
  ASSUME unreadable \in Seq(Regions), NEW s \in Nat, NoteUnreadable(s)
  PROVE  /\ unreadable' \in Seq(Regions)
         /\ s \in Recorded'
         /\ \A t \in Recorded : t \in Recorded'
<1> PICK n : n = Len(unreadable)
  OBVIOUS
<1>1. n \in Nat /\ \A r \in 1..n : unreadable[r] \in Regions
  BY LenProperties, ElementOfSeq
<1>2. \A t : t \in Recorded <=>
        \E r \in 1..n : t \in unreadable[r].start..(unreadable[r].start + unreadable[r].length - 1)
  BY DEF Recorded, Region, LastRegion
<1>3. CASE unreadable # <<>> /\ unreadable[n].start + unreadable[n].length = s
  <2>0. n \in 1..n
    BY <1>1, <1>3, EmptySeq
  <2>1. unreadable' = [unreadable EXCEPT ![n].length = @ + 1]
    BY <1>3 DEF NoteUnreadable, LastRegion
  <2>2. unreadable[n].start \in Nat /\ unreadable[n].length \in Nat
    BY <1>1, <2>0 DEF Regions
  <2> DEFINE wider == [unreadable[n] EXCEPT !.length = @ + 1]
  <2>3. /\ wider \in Regions /\ wider.start = unreadable[n].start
        /\ wider.length = unreadable[n].length + 1
    BY <1>1, <2>0, <2>2 DEF Regions
  <2>4. unreadable' = [unreadable EXCEPT ![n] = wider]
    BY <2>1
  <2>5. /\ unreadable' \in Seq(Regions) /\ Len(unreadable') = n
        /\ unreadable'[n] = wider
        /\ \A r \in 1..n : r # n => unreadable'[r] = unreadable[r]
    <3> HIDE DEF wider
    <3>1. unreadable \in Seq(Regions) /\ n \in 1..Len(unreadable) /\ wider \in Regions
      BY <2>0, <2>3
    <3>2. /\ [unreadable EXCEPT ![n] = wider] \in Seq(Regions)
          /\ Len([unreadable EXCEPT ![n] = wider]) = Len(unreadable)
          /\ \A j \in 1..Len(unreadable) :
               [unreadable EXCEPT ![n] = wider][j] = IF j = n THEN wider ELSE unreadable[j]
      BY <3>1, ExceptSeq
    <3> QED BY <2>0, <2>4, <3>2
  <2>6. \A t : t \in Recorded' <=>
          \E r \in 1..n : t \in unreadable'[r].start..(unreadable'[r].start + unreadable'[r].length - 1)
    BY <2>5 DEF Recorded, Region, LastRegion
  <2>7. s \in wider.start..(wider.start + wider.length - 1)
    BY <1>3, <2>2, <2>3
  <2>8. s \in Recorded'
    BY <2>0, <2>5, <2>6, <2>7
  <2>9. ASSUME NEW t \in Recorded
        PROVE  t \in Recorded'
    <3>1. PICK r \in 1..n : t \in unreadable[r].start..(unreadable[r].start + unreadable[r].length - 1)
      BY <1>2
    <3>2. CASE r = n
      <4>1. t \in wider.start..(wider.start + wider.length - 1)
        BY <2>2, <2>3, <3>1, <3>2
      <4> QED BY <2>0, <2>5, <2>6, <4>1
    <3>3. CASE r # n
      <4>1. t \in unreadable'[r].start..(unreadable'[r].start + unreadable'[r].length - 1)
        BY <2>5, <3>1, <3>3
      <4> QED BY <2>6, <4>1
    <3> QED BY <3>2, <3>3
  <2> QED BY <2>5, <2>8, <2>9
<1>4. CASE ~(unreadable # <<>> /\ unreadable[n].start + unreadable[n].length = s)
  <2> DEFINE new == [start |-> s, length |-> 1]
  <2>1. unreadable' = Append(unreadable, new)
    BY <1>4 DEF NoteUnreadable, LastRegion
  <2>2. new \in Regions
    BY DEF Regions
  <2>3. /\ unreadable' \in Seq(Regions) /\ Len(unreadable') = n + 1
        /\ unreadable'[n + 1] = new
        /\ \A r \in 1..n : unreadable'[r] = unreadable[r]
    BY <2>1, <2>2, AppendProperties
  <2>4. \A t : t \in Recorded' <=>
          \E r \in 1..(n + 1) :
            t \in unreadable'[r].start..(unreadable'[r].start + unreadable'[r].length - 1)
    BY <2>3 DEF Recorded, Region, LastRegion
  <2>5. s \in Recorded'
    <3>1. s \in unreadable'[n + 1].start..(unreadable'[n + 1].start + unreadable'[n + 1].length - 1)
      BY <2>3
    <3>2. n + 1 \in 1..(n + 1)
      BY <1>1
    <3> QED BY <2>4, <3>1, <3>2
  <2>6. ASSUME NEW t \in Recorded
        PROVE  t \in Recorded'
    <3>1. PICK r \in 1..n : t \in unreadable[r].start..(unreadable[r].start + unreadable[r].length - 1)
      BY <1>2
    <3>2. r \in 1..(n + 1)
      BY <1>1
    <3>3. t \in unreadable'[r].start..(unreadable'[r].start + unreadable'[r].length - 1)
      BY <2>3, <3>1
    <3> QED BY <2>4, <3>2, <3>3
  <2> QED BY <2>3, <2>5, <2>6
<1> QED BY <1>3, <1>4

-----------------------------------------------------------------------------
(* The invariant *)

\* A read at the descriptor begins where the reader stands, or on a sector
\* the medium never returns.
Aligned(p) ==
  descriptor = p \/ (descriptor < p /\ (descriptor \in medium.bad \/ medium.extent <= descriptor))

DeviceInv ==
  /\ medium \in Media
  /\ descriptor \in Nat /\ position \in Nat /\ want \in Nat /\ request \in Nat
  /\ unreadable \in Seq(Regions)
  /\ image \in Seq(Contents) /\ buffer \in Seq(Contents) /\ block \in Seq(Contents)
  /\ Len(image) + Len(buffer) = position
  /\ Sound(image, 0, Recorded)
  /\ Sound(buffer, Len(image), Recorded)
  /\ Sound(block, position, Recorded)
  /\ pc \in {"ready", "block", "sector", "again", "ended"}
  /\ pc \in {"ready", "block", "ended"} => block = <<>>
  /\ pc \in {"block", "sector", "again"} =>
       want > 0 /\ position + want <= Total /\ buffer = <<>>
  /\ pc = "again" => Len(block) < want
  /\ pc = "sector" => Len(block) <= want
  /\ pc \in {"ready", "block"} => (position = sought => Aligned(position))
  /\ pc = "sector" => block = <<>> \/ Aligned(Offset)

\* What is recorded is in the list of regions alone.
LEMMA RecordedSame == ASSUME UNCHANGED unreadable PROVE Recorded' = Recorded
BY DEF Recorded, Region, LastRegion

\* A medium's parts are sectors.
LEMMA MediumIs ==
  ASSUME DeviceInv
  PROVE  medium.extent \in Nat /\ medium.bad \subseteq Nat
BY DeviceAssumption DEF DeviceInv, AnyMedium, Sectors

\* What the reader fills a block with is a content.
LEMMA SectorIsContent == Sectors \subseteq Contents /\ Placeholder \in Contents
BY DEF Contents

\* The caller gets the block that was just filled.
LEMMA HandOverSound ==
  ASSUME DeviceInv, pc \in {"block", "sector"}, UNCHANGED unreadable,
         NEW filled \in Seq(Contents), Len(filled) = want,
         Sound(filled, position, Recorded),
         HandOver(filled), position' = position + want
  PROVE  /\ image' \in Seq(Contents) /\ buffer' \in Seq(Contents)
         /\ Len(image') + Len(buffer') = position'
         /\ Sound(image', 0, Recorded') /\ Sound(buffer', Len(image'), Recorded')
<1> DEFINE k == IF request >= ReadSize THEN Len(filled) ELSE Least(request, Len(filled))
<1>1. k \in 0..Len(filled)
  BY DeviceAssumption DEF DeviceInv, Least
<1>2. /\ image' = image \o SubSeq(filled, 1, k)
      /\ buffer' = SubSeq(filled, k + 1, Len(filled))
  BY DEF HandOver
<1>3. Len(image) = position
  BY EmptySeq, LenProperties DEF DeviceInv
<1>4. /\ image \in Seq(Contents) /\ Sound(image, 0, Recorded)
      /\ Sound(filled, Len(image), Recorded)
  BY <1>3 DEF DeviceInv
<1> HIDE DEF k
<1>5. /\ image' \in Seq(Contents) /\ buffer' \in Seq(Contents)
      /\ Len(image') + Len(buffer') = Len(image) + Len(filled)
      /\ Sound(image', 0, Recorded) /\ Sound(buffer', Len(image'), Recorded)
  BY <1>1, <1>2, <1>4, ServeSound
<1> QED BY <1>3, <1>5, RecordedSame

\* Nothing is sound anywhere.
LEMMA EmptySound == \A start, R : Sound(<<>>, start, R)
BY DEF Sound

\* Sectors served from the buffer were sound in it.
LEMMA ServeBufferedKeepsInv ==
  ASSUME DeviceInv, NEW n \in Nat, ServeBuffered(n)
  PROVE  DeviceInv'
<1> DEFINE k == Least(n, Len(buffer))
<1>0. n \in Nat /\ Len(buffer) \in Nat
  BY DeviceAssumption, LenProperties DEF DeviceInv
<1>1. k \in 0..Len(buffer)
  BY <1>0 DEF Least
<1>2. /\ image' = image \o SubSeq(buffer, 1, k)
      /\ buffer' = SubSeq(buffer, k + 1, Len(buffer))
  BY DEF ServeBuffered
<1>3. /\ image \in Seq(Contents) /\ buffer \in Seq(Contents)
      /\ Sound(image, 0, Recorded) /\ Sound(buffer, Len(image), Recorded)
  BY DEF DeviceInv
<1> HIDE DEF k
<1>4. /\ image' \in Seq(Contents) /\ buffer' \in Seq(Contents)
      /\ Len(image') + Len(buffer') = Len(image) + Len(buffer)
      /\ Sound(image', 0, Recorded) /\ Sound(buffer', Len(image'), Recorded)
  BY <1>1, <1>2, <1>3, ServeSound
<1>5. Recorded' = Recorded
  BY RecordedSame DEF ServeBuffered
<1> QED BY <1>4, <1>5 DEF ServeBuffered, DeviceInv, callVars, Aligned, Offset

\* A call that begins a block fills nothing yet.
LEMMA BeginBlockKeepsInv ==
  ASSUME DeviceInv, NEW n \in Nat, BeginBlock(n)
  PROVE  DeviceInv'
<1>1. n \in Nat /\ ReadSize \in Nat \ {0} /\ Total \in Nat /\ position \in Nat
  BY DeviceAssumption DEF DeviceInv
<1>2. want' \in Nat /\ want' > 0 /\ position + want' <= Total
  BY <1>1 DEF BeginBlock, Least
<1>3. Recorded' = Recorded
  BY RecordedSame DEF BeginBlock
<1>4. block' = <<>> /\ block' \in Seq(Contents) /\ Sound(block', position', Recorded')
  BY EmptySeq, EmptySound DEF BeginBlock
<1> QED BY <1>1, <1>2, <1>3, <1>4 DEF BeginBlock, DeviceInv, Aligned, Offset

\* A block is read whole only from where the reader stands.
LEMMA BlockReadKeepsInv ==
  ASSUME DeviceInv, BlockRead
  PROVE  DeviceInv'
<1> DEFINE filled == [i \in 1..want |-> From + i - 1]
<1>1. /\ descriptor \in Nat /\ position \in Nat /\ want \in Nat /\ want > 0
      /\ position + want <= Total /\ Total \in Nat /\ medium.extent \in Nat
  BY MediumIs, DeviceAssumption DEF DeviceInv, BlockRead
<1>2. From = position
  <2>1. CASE position # sought
    BY <2>1 DEF From
  <2>2. CASE position = sought /\ descriptor = position
    BY <2>2 DEF From
  <2>3. CASE position = sought /\ descriptor # position
    <3>1. From = descriptor
      BY <2>3 DEF From
    <3>2. descriptor \in medium.bad \/ medium.extent <= descriptor
      BY <2>3 DEF DeviceInv, BlockRead, Aligned
    <3>3. descriptor \in Span(descriptor, want) /\ descriptor + want <= medium.extent
      BY <3>1, <1>1 DEF BlockRead, Returned, Span
    <3>4. descriptor \notin medium.bad
      BY <3>1, <3>3 DEF BlockRead, Returned
    <3>5. ~(medium.extent <= descriptor)
      BY <3>3, <1>1
    <3> QED BY <3>2, <3>4, <3>5
  <2> QED BY <2>1, <2>2, <2>3
<1>3. filled \in Seq(Contents) /\ Len(filled) = want /\ Sound(filled, position, Recorded)
  <2>1. \A i \in 1..want : From + i - 1 = position + i - 1 /\ From + i - 1 \in Contents
    BY <1>1, <1>2, SectorIsContent DEF Sectors
  <2>2. filled \in Seq(Contents) /\ Len(filled) = want
    BY <2>1, <1>1
  <2>3. \A i \in 1..want : filled[i] = position + i - 1
    BY <2>1
  <2> QED BY <2>2, <2>3 DEF Sound, OwnIn
<1>4. HandOver(filled) /\ position' = position + want /\ UNCHANGED unreadable
  BY DEF BlockRead
<1> HIDE DEF filled
<1>5. /\ image' \in Seq(Contents) /\ buffer' \in Seq(Contents)
      /\ Len(image') + Len(buffer') = position'
      /\ Sound(image', 0, Recorded') /\ Sound(buffer', Len(image'), Recorded')
  BY <1>3, <1>4, HandOverSound DEF BlockRead
<1>6. descriptor' = position' /\ position' \in Nat
  BY <1>1, <1>2 DEF BlockRead, Returned
<1>7. block' = <<>> /\ Sound(block', position', Recorded')
  BY EmptySound DEF BlockRead, DeviceInv
<1> QED BY <1>5, <1>6, <1>7 DEF BlockRead, DeviceInv, callVars, Aligned

\* A failed block is dropped, and the descriptor is sought again.
LEMMA BlockNarrows ==
  ASSUME DeviceInv, BlockShort \/ BlockFails
  PROVE  DeviceInv'
<1>1. From \in Nat /\ want \in Nat /\ medium.extent \in Nat
  BY MediumIs DEF DeviceInv, From
<1>2. descriptor' \in Nat
  <2>1. CASE BlockShort
    BY <1>1, <2>1 DEF BlockShort, CameShort
  <2>2. CASE BlockFails
    BY <1>1, <2>2 DEF BlockFails, FailedAt, Span
  <2> QED BY <2>1, <2>2
<1>3. Recorded' = Recorded
  BY RecordedSame DEF BlockShort, BlockFails
<1>4. block = <<>> /\ block' = <<>> /\ Len(block') = 0 /\ want \in Nat
  BY EmptySeq DEF BlockShort, BlockFails, DeviceInv
<1> QED BY <1>2, <1>3, <1>4 DEF BlockShort, BlockFails, DeviceInv, callVars

-----------------------------------------------------------------------------
(* The sector loop *)

\* What is sound stays so as more is recorded.
LEMMA SoundGrows ==
  ASSUME NEW seq, NEW start, NEW R, NEW S, Sound(seq, start, R), \A t \in R : t \in S
  PROVE  Sound(seq, start, S)
BY DEF Sound, OwnIn

\* One more sound sector at the end.
LEMMA AppendSound ==
  ASSUME NEW seq \in Seq(Contents), NEW x \in Contents, NEW start \in Nat, NEW R,
         Sound(seq, start, R), OwnIn(x, start + Len(seq), R)
  PROVE  /\ Append(seq, x) \in Seq(Contents)
         /\ Len(Append(seq, x)) = Len(seq) + 1
         /\ Sound(Append(seq, x), start, R)
<1>1. Len(seq) \in Nat
  BY LenProperties
<1>2. /\ Append(seq, x) \in Seq(Contents)
      /\ Len(Append(seq, x)) = Len(seq) + 1
      /\ \A i \in 1..Len(seq) : Append(seq, x)[i] = seq[i]
      /\ Append(seq, x)[Len(seq) + 1] = x
  BY AppendProperties
<1>3. ASSUME NEW i \in 1..(Len(seq) + 1)
      PROVE  OwnIn(Append(seq, x)[i], start + i - 1, R)
  <2>1. CASE i \in 1..Len(seq)
    BY <1>2, <2>1 DEF Sound
  <2>2. CASE i = Len(seq) + 1
    <3>1. start + i - 1 = start + Len(seq)
      BY <1>1, <2>2
    <3> QED BY <1>2, <2>2, <3>1
  <2> QED BY <1>1, <2>1, <2>2
<1> QED BY <1>2, <1>3 DEF Sound

\* A sector that is read is the one sought.
LEMMA SectorReadKeepsInv ==
  ASSUME DeviceInv, SectorRead
  PROVE  DeviceInv'
<1>1. /\ block \in Seq(Contents) /\ Len(block) \in Nat /\ Len(block) < want
      /\ position \in Nat /\ want \in Nat /\ position + want <= Total /\ Total \in Nat
  BY LenProperties, DeviceAssumption DEF DeviceInv, SectorRead, AtSector
<1>2. Offset \in Contents /\ OwnIn(Offset, position + Len(block), Recorded)
  BY <1>1, SectorIsContent DEF Offset, Sectors, OwnIn
<1>3. block' = Append(block, Offset) /\ Sound(block, position, Recorded)
  BY DEF SectorRead, DeviceInv
<1>4. /\ block' \in Seq(Contents) /\ Len(block') = Len(block) + 1
      /\ Sound(block', position, Recorded)
  BY <1>1, <1>2, <1>3, AppendSound
<1>5. Recorded' = Recorded /\ position' = position
  BY RecordedSame DEF SectorRead
<1>6. descriptor' = Offset' /\ descriptor' \in Nat
  BY <1>1, <1>4, <1>5 DEF SectorRead, Returned, Offset
<1>7. Len(block') <= want
  BY <1>1, <1>4
<1> QED BY <1>4, <1>5, <1>6, <1>7 DEF SectorRead, AtSector, DeviceInv, callVars, Aligned

\* A first failure fills nothing.
LEMMA SectorFailsKeepsInv ==
  ASSUME DeviceInv, SectorFails
  PROVE  DeviceInv'
<1>1. Offset \in Nat /\ medium.extent \in Nat
  BY MediumIs, LenProperties DEF DeviceInv, Offset
<1>2. descriptor' \in Nat
  BY <1>1 DEF SectorFails, FailedAt, CameShort, Span
<1>3. Recorded' = Recorded
  BY RecordedSame DEF SectorFails
<1> QED BY <1>2, <1>3 DEF SectorFails, AtSector, DeviceInv, callVars

\* Giving a sector up leaves the descriptor past it, or on a sector that never
\* reads: this is where a marginal sector would break the invariant.
LEMMA SectorGivenUpKeepsInv ==
  ASSUME DeviceInv, \A m \in Media : m.marginal = {}, SectorGivenUp
  PROVE  DeviceInv'
<1>1. /\ block \in Seq(Contents) /\ Len(block) \in Nat /\ Len(block) < want
      /\ position \in Nat /\ want \in Nat /\ medium.extent \in Nat
      /\ Offset = position + Len(block) /\ Offset \in Nat
  BY MediumIs, LenProperties DEF DeviceInv, SectorGivenUp, Offset
<1>2. /\ unreadable' \in Seq(Regions) /\ Offset \in Recorded'
      /\ \A t \in Recorded : t \in Recorded'
  BY <1>1, NoteRecords DEF SectorGivenUp, DeviceInv
<1>3. Sound(block, position, Recorded')
  BY <1>2, SoundGrows DEF DeviceInv
<1>4. OwnIn(Placeholder, position + Len(block), Recorded')
  BY <1>1, <1>2 DEF OwnIn
<1>5. block' = Append(block, Placeholder)
  BY DEF SectorGivenUp
<1>6. /\ block' \in Seq(Contents) /\ Len(block') = Len(block) + 1
      /\ Sound(block', position, Recorded')
  BY <1>1, <1>3, <1>4, <1>5, SectorIsContent, AppendSound
<1>7. /\ Sound(image, 0, Recorded') /\ Sound(buffer, Len(image), Recorded')
  BY <1>2, SoundGrows DEF DeviceInv
<1>8. /\ UNCHANGED <<medium, position, sought, request, want, buffer, image>>
      /\ pc' = "sector" /\ pc = "again"
  BY DEF SectorGivenUp, callVars
<1>9. Offset' = Offset + 1
  BY <1>1, <1>6, <1>8 DEF Offset
<1>10. medium.marginal = {}
  BY DEF DeviceInv
<1>11. descriptor' \in Nat /\ Aligned(Offset)'
  <2>1. CASE Returned(Offset, 1)
    BY <1>1, <1>9, <2>1 DEF Returned, Aligned
  <2>2. CASE FailedAt(Offset, 1)
    <3>1. PICK s \in Span(Offset, 1) :
            /\ s \in medium.bad
            /\ descriptor' \in Offset..s
      BY <1>10, <2>2 DEF FailedAt
    <3>2. s = Offset
      BY <1>1, <3>1 DEF Span
    <3>3. descriptor' = Offset /\ descriptor' \in medium'.bad
      BY <1>1, <1>8, <3>1, <3>2
    <3> QED BY <1>1, <1>9, <3>3 DEF Aligned
  <2>3. CASE CameShort(Offset, 1)
    <3>1. descriptor' = Offset /\ medium'.extent <= Offset
      BY <1>1, <1>8, <2>3 DEF CameShort
    <3> QED BY <1>1, <1>9, <3>1 DEF Aligned
  <2> QED BY <2>1, <2>2, <2>3 DEF SectorGivenUp
<1>12. Len(block') <= want
  BY <1>1, <1>6
<1> QED BY <1>2, <1>6, <1>7, <1>8, <1>11, <1>12 DEF DeviceInv

\* The block the sectors filled is handed over, the descriptor at its end or on
\* a sector that never reads.
LEMMA LeaveRetryKeepsInv ==
  ASSUME DeviceInv, LeaveRetry
  PROVE  DeviceInv'
<1>1. /\ block \in Seq(Contents) /\ Len(block) = want /\ want > 0
      /\ position \in Nat /\ want \in Nat /\ Sound(block, position, Recorded)
  BY DEF DeviceInv, LeaveRetry
<1>2. HandOver(block) /\ position' = position + want /\ UNCHANGED unreadable
  BY DEF LeaveRetry
<1>3. /\ image' \in Seq(Contents) /\ buffer' \in Seq(Contents)
      /\ Len(image') + Len(buffer') = position'
      /\ Sound(image', 0, Recorded') /\ Sound(buffer', Len(image'), Recorded')
  BY <1>1, <1>2, HandOverSound DEF LeaveRetry
<1>4. block # <<>>
  BY <1>1, EmptySeq
<1>5. Aligned(position)'
  BY <1>1, <1>2, <1>4 DEF LeaveRetry, DeviceInv, Aligned, Offset
<1>6. block' = <<>> /\ block' \in Seq(Contents) /\ Sound(block', position', Recorded')
  BY EmptySeq, EmptySound DEF LeaveRetry
<1>7. position' \in Nat
  BY <1>1, <1>2
<1> QED BY <1>3, <1>5, <1>6, <1>7 DEF LeaveRetry, DeviceInv, callVars

\* The steps of the reader whatever the caller's buffers.
DeviceMove ==
  \/ \E n \in Nat : ServeBuffered(n) \/ BeginBlock(n)
  \/ EndOfDevice \/ BlockStep \/ SectorStep

\* The caller of DeviceSpec passes buffers of some lengths only.
LEMMA NextIsMove == [DeviceNext]_vars => [DeviceMove]_vars
<1>1. Requests \subseteq Nat
  BY DeviceAssumption
<1>2. QED BY <1>1 DEF DeviceNext, Step, Ended, ReadCall, DeviceMove

\* Every step keeps the invariant while no sector is marginal.
LEMMA DeviceStepKeepsInv ==
  ASSUME \A m \in Media : m.marginal = {}
  PROVE  DeviceInv /\ [DeviceMove]_vars => DeviceInv'
<1> SUFFICES ASSUME DeviceInv, [DeviceMove]_vars
             PROVE  DeviceInv'
  OBVIOUS
<1>1. CASE \E n \in Nat : ServeBuffered(n) \/ BeginBlock(n)
  BY <1>1, ServeBufferedKeepsInv, BeginBlockKeepsInv
<1>2. CASE EndOfDevice
  <2>1. Recorded' = Recorded
    BY <1>2, RecordedSame DEF EndOfDevice
  <2> QED BY <1>2, <2>1 DEF EndOfDevice, DeviceInv, callVars
<1>3. CASE BlockStep
  BY <1>3, BlockReadKeepsInv, BlockNarrows DEF BlockStep
<1>4. CASE SectorStep
  BY <1>4, SectorReadKeepsInv, SectorFailsKeepsInv, SectorGivenUpKeepsInv,
     LeaveRetryKeepsInv DEF SectorStep
<1>5. CASE UNCHANGED vars
  <2>1. Recorded' = Recorded
    BY <1>5, RecordedSame DEF vars
  <2> QED BY <1>5, <2>1 DEF vars, callVars, DeviceInv, Aligned, Offset
<1> QED BY <1>1, <1>2, <1>3, <1>4, <1>5 DEF DeviceMove

\* It holds of a reader just opened.
LEMMA DeviceBegins == DeviceInit => DeviceInv
<1> SUFFICES ASSUME DeviceInit PROVE DeviceInv
  OBVIOUS
<1>1. /\ <<>> \in Seq(Contents) /\ <<>> \in Seq(Regions) /\ Len(<<>>) = 0
  BY EmptySeq
<1>2. QED BY <1>1, EmptySound DEF DeviceInit, DeviceInv, Aligned

\* The invariant says of the whole image what is promised of each sector.
LEMMA DevicePromises == DeviceInv => EverySectorIsItsOwnOrRecorded
<1> SUFFICES ASSUME DeviceInv, NEW i \in 1..Len(image)
             PROVE  image[i] = i - 1 \/ (image[i] = Placeholder /\ i - 1 \in Recorded)
  BY DEF EverySectorIsItsOwnOrRecorded
<1>1. OwnIn(image[i], 0 + i - 1, Recorded)
  BY DEF DeviceInv, Sound
<1>2. 0 + i - 1 = i - 1
  BY LenProperties DEF DeviceInv
<1>3. QED BY <1>1, <1>2 DEF OwnIn

(* On media whose failed sectors keep failing, no sector of the image is     *)
(* another's: it is the device's own at that offset, or a recorded one.      *)
THEOREM OwnOrRecorded ==
  ASSUME \A m \in Media : m.marginal = {}
  PROVE  DeviceSpec => []EverySectorIsItsOwnOrRecorded
<1>1. DeviceInv /\ [DeviceNext]_vars => DeviceInv'
  BY NextIsMove, DeviceStepKeepsInv
<1>2. QED BY <1>1, DeviceBegins, DevicePromises, PTL DEF DeviceSpec

-----------------------------------------------------------------------------
(* What holds of every medium *)

\* A sequence cut in two is the one part followed by the other.
LEMMA CutInTwo ==
  ASSUME NEW S, NEW s \in Seq(S), NEW k \in 0..Len(s)
  PROVE  /\ SubSeq(s, 1, k) \in Seq(S) /\ Len(SubSeq(s, 1, k)) = k
         /\ SubSeq(s, k + 1, Len(s)) \in Seq(S)
         /\ Len(SubSeq(s, k + 1, Len(s))) = Len(s) - k
         /\ SubSeq(s, 1, k) \o SubSeq(s, k + 1, Len(s)) = s
<1> DEFINE front == SubSeq(s, 1, k)
           back == SubSeq(s, k + 1, Len(s))
<1>1. Len(s) \in Nat /\ \A i \in 1..Len(s) : s[i] \in S
  BY LenProperties, ElementOfSeq
<1>2. /\ front \in Seq(S) /\ Len(front) = k /\ \A i \in 1..k : front[i] = s[i]
  <2>1. \A i \in 1..k : s[i] \in S
    BY <1>1
  <2>2. /\ front \in Seq(S) /\ Len(front) = IF 1 <= k THEN k - 1 + 1 ELSE 0
        /\ \A i \in 1..(k - 1 + 1) : front[i] = s[1 + i - 1]
    BY <1>1, <2>1, SubSeqProperties
  <2> HIDE DEF front
  <2>3. QED BY <1>1, <2>2
<1>3. /\ back \in Seq(S) /\ Len(back) = Len(s) - k
      /\ \A i \in 1..(Len(s) - k) : back[i] = s[k + i]
  <2>1. (k + 1 \in Int) /\ \A i \in (k + 1)..Len(s) : s[i] \in S
    BY <1>1
  <2>2. /\ back \in Seq(S)
        /\ Len(back) = IF k + 1 <= Len(s) THEN Len(s) - (k + 1) + 1 ELSE 0
        /\ \A i \in 1..(Len(s) - (k + 1) + 1) : back[i] = s[(k + 1) + i - 1]
    BY <1>1, <2>1, SubSeqProperties
  <2> HIDE DEF back
  <2>3. \A i \in 1..(Len(s) - k) : i \in 1..(Len(s) - (k + 1) + 1) /\ (k + 1) + i - 1 = k + i
    BY <1>1
  <2>4. QED BY <1>1, <2>2, <2>3
<1> HIDE DEF front, back
<1>4. /\ front \o back \in Seq(S) /\ Len(front \o back) = k + (Len(s) - k)
      /\ \A i \in 1..k + (Len(s) - k) : (front \o back)[i] = IF i <= k THEN front[i] ELSE back[i - k]
  <2>1. /\ front \o back \in Seq(S) /\ Len(front \o back) = Len(front) + Len(back)
        /\ \A i \in 1..Len(front) + Len(back) :
             (front \o back)[i] = IF i <= Len(front) THEN front[i] ELSE back[i - Len(front)]
    BY <1>2, <1>3, ConcatProperties
  <2>2. QED BY <1>2, <1>3, <2>1
<1>5. k + (Len(s) - k) = Len(s)
  BY <1>1
<1>6. ASSUME NEW i \in 1..Len(s) PROVE (front \o back)[i] = s[i]
  <2>1. CASE i <= k
    <3>1. i \in 1..k
      BY <1>1, <2>1
    <3>2. QED BY <1>2, <1>4, <1>5, <2>1, <3>1
  <2>2. CASE ~(i <= k)
    <3>1. i - k \in 1..(Len(s) - k) /\ k + (i - k) = i
      BY <1>1, <2>2
    <3>2. QED BY <1>3, <1>4, <1>5, <2>2, <3>1
  <2>3. QED BY <2>1, <2>2
<1>7. front \o back = s
  BY <1>4, <1>5, <1>6, SeqEqual
<1>8. QED BY <1>2, <1>3, <1>7 DEF front, back

\* Three sequences are joined in either order.
LEMMA JoinsEitherWay ==
  ASSUME NEW S, NEW a, NEW b, NEW c, a \in Seq(S), b \in Seq(S), c \in Seq(S)
  PROVE  (a \o b) \o c = a \o (b \o c)
BY ConcatAssociative

\* A sequence that ends in one more element.
LEMMA JoinOne ==
  ASSUME NEW S, NEW a, NEW b, NEW x, a \in Seq(S), b \in Seq(S), x \in S
  PROVE  a \o Append(b, x) = (a \o b) \o <<x>>
<1>1. Append(b, x) = b \o <<x>> /\ <<x>> \in Seq(S)
  BY AppendIsConcat
<1>2. QED BY <1>1, JoinsEitherWay

DeviceShape ==
  /\ medium \in Media
  /\ descriptor \in Nat /\ position \in Nat /\ want \in Nat /\ request \in Nat
  /\ image \in Seq(Contents) /\ buffer \in Seq(Contents) /\ block \in Seq(Contents)
  /\ Len(image) + Len(buffer) = position /\ position <= Total
  /\ pc \in {"ready", "block", "sector", "again", "ended"}
  /\ pc \in {"ready", "block", "ended"} => block = <<>>
  /\ pc \in {"block", "sector", "again"} =>
       /\ want > 0 /\ position + want <= Total /\ buffer = <<>>
       /\ request >= ReadSize => want <= request
  /\ pc = "again" => Len(block) < want
  /\ pc = "sector" => Len(block) <= want
  /\ pc = "ended" => buffer = <<>> /\ position = Total

\* What a call returns: no more than was asked for.
ReturnsUpTo(n) == \E units \in Seq(Contents) : image' = image \o units /\ Len(units) <= n

\* Handing over moves what was filled and adds nothing to it.
LEMMA HandOverMoves ==
  ASSUME DeviceShape, NEW filled \in Seq(Contents), Len(filled) = want,
         pc \in {"block", "sector"}, HandOver(filled), position' = position + want
  PROVE  /\ image' \in Seq(Contents) /\ buffer' \in Seq(Contents)
         /\ Len(image') + Len(buffer') = position'
         /\ image' \o buffer' = image \o filled
         /\ ReturnsUpTo(request)
<1> DEFINE k == IF request >= ReadSize THEN Len(filled) ELSE Least(request, Len(filled))
<1>0. /\ request \in Nat /\ want \in Nat /\ ReadSize \in Nat /\ Len(filled) = want
      /\ (request >= ReadSize => want <= request)
  BY DeviceAssumption DEF DeviceShape
<1>1. k \in 0..Len(filled) /\ k <= request
  BY <1>0 DEF Least
<1>2. /\ image' = image \o SubSeq(filled, 1, k)
      /\ buffer' = SubSeq(filled, k + 1, Len(filled))
  BY DEF HandOver
<1>3. Len(image) = position /\ image \in Seq(Contents) /\ Len(image) \in Nat /\ Len(filled) \in Nat
  BY EmptySeq, LenProperties DEF DeviceShape
<1> HIDE DEF k
<1>5. /\ SubSeq(filled, 1, k) \in Seq(Contents) /\ Len(SubSeq(filled, 1, k)) = k
      /\ SubSeq(filled, k + 1, Len(filled)) \in Seq(Contents)
      /\ Len(SubSeq(filled, k + 1, Len(filled))) = Len(filled) - k
      /\ SubSeq(filled, 1, k) \o SubSeq(filled, k + 1, Len(filled)) = filled
  BY <1>1, CutInTwo
<1>7. image' \in Seq(Contents) /\ Len(image') = Len(image) + k
  BY <1>2, <1>3, <1>5, ConcatProperties
<1>8. Len(image') + Len(buffer') = position'
  <2>1. \A a, b, c \in Int : (a + c) + (b - c) = a + b
    OBVIOUS
  <2>2. Len(buffer') = Len(filled) - k
    BY <1>2, <1>5
  <2>3. QED BY <1>0, <1>1, <1>3, <1>7, <2>1, <2>2
<1>9. image' \o buffer' = image \o filled
  <2> DEFINE front == SubSeq(filled, 1, k)
             back == SubSeq(filled, k + 1, Len(filled))
  <2>1. front \in Seq(Contents) /\ back \in Seq(Contents) /\ front \o back = filled
        /\ image' = image \o front /\ buffer' = back
    BY <1>2, <1>5
  <2>2. image \in Seq(Contents)
    BY <1>3
  <2>3. front \in Seq(Contents) /\ back \in Seq(Contents)
    BY <2>1
  <2> HIDE DEF front, back
  <2>4. (image \o front) \o back = image \o (front \o back)
    <3>1. Regroups(Contents, image, front, back)
      BY <2>2, <2>3, Regrouped
    <3>2. QED BY <3>1 DEF Regroups
  <2>5. QED BY <2>1, <2>4
<1>10. ReturnsUpTo(request)
  BY <1>1, <1>2, <1>5 DEF ReturnsUpTo
<1>11. QED BY <1>2, <1>5, <1>7, <1>8, <1>9, <1>10

\* A step adds to what was produced sectors the medium returned, or one given
\* up, which it notes at that place, or nothing.
Clean(units) == \A i \in 1..Len(units) : units[i] # Placeholder
Grows ==
  \/ Produced' = Produced /\ UNCHANGED unreadable
  \/ /\ UNCHANGED unreadable
     /\ \E units \in Seq(Contents) : Clean(units) /\ Produced' = Produced \o units
  \/ NoteUnreadable(Len(Produced)) /\ Produced' = Append(Produced, Placeholder)

\* The numbers and sequences the shape speaks of.
LEMMA ShapeFacts ==
  ASSUME DeviceShape
  PROVE  /\ Total \in Nat /\ Total > 0 /\ ReadSize \in Nat /\ ReadSize > 0
         /\ medium.extent \in Nat /\ medium.extent <= Total
         /\ Len(image) \in Nat /\ Len(buffer) \in Nat /\ Len(block) \in Nat
         /\ image \o buffer \in Seq(Contents) /\ Len(image \o buffer) = position
         /\ Produced \in Seq(Contents) /\ Len(Produced) = Offset /\ Offset \in Nat
         /\ Offset = position + Len(block)
<1>1. image \in Seq(Contents) /\ buffer \in Seq(Contents) /\ block \in Seq(Contents)
      /\ Len(image) + Len(buffer) = position /\ position \in Nat
  BY DEF DeviceShape
<1>2. Len(image) \in Nat /\ Len(buffer) \in Nat /\ Len(block) \in Nat
  BY <1>1, LenProperties
<1>3. image \o buffer \in Seq(Contents) /\ Len(image \o buffer) = position
  BY <1>1, ConcatProperties
<1>4. Produced \in Seq(Contents) /\ Len(Produced) = position + Len(block)
  <2>1. block \in Seq(Contents) /\ image \o buffer \in Seq(Contents)
    BY <1>1, <1>3
  <2>2. /\ (image \o buffer) \o block \in Seq(Contents)
        /\ Len((image \o buffer) \o block) = Len(image \o buffer) + Len(block)
    BY <2>1, ConcatProperties
  <2>3. QED BY <1>3, <2>2 DEF Produced
<1>5. medium.extent \in Nat /\ medium.extent <= Total /\ Total \in Nat /\ Total > 0
      /\ ReadSize \in Nat /\ ReadSize > 0
  BY DeviceAssumption DEF DeviceShape, AnyMedium
<1>6. Offset = position + Len(block) /\ Offset \in Nat
  BY <1>1, <1>2 DEF Offset
<1>7. QED BY <1>2, <1>3, <1>4, <1>5, <1>6

\* With no block in hand what was produced is the image and the buffer.
LEMMA ProducedBetween ==
  ASSUME DeviceShape, block = <<>> PROVE Produced = image \o buffer
<1>1. image \o buffer \in Seq(Contents)
  BY ShapeFacts
<1>2. QED BY <1>1, ConcatEmptySeq DEF Produced

\* Step by step: serving the buffer moves its sectors to the image.
LEMMA ServeMoves ==
  ASSUME DeviceShape, NEW n \in Nat, ServeBuffered(n)
  PROVE  DeviceShape' /\ Grows /\ ReturnsUpTo(n)
<1> DEFINE k == Least(n, Len(buffer))
           front == SubSeq(buffer, 1, k)
           back == SubSeq(buffer, k + 1, Len(buffer))
<1>1. image \in Seq(Contents) /\ buffer \in Seq(Contents) /\ Len(buffer) \in Nat /\ Len(image) \in Nat
      /\ block = <<>> /\ pc = "ready" /\ position \in Nat /\ position = Len(image) + Len(buffer)
  BY ShapeFacts DEF DeviceShape, ServeBuffered
<1>2. k \in 0..Len(buffer) /\ k <= n
  BY <1>1 DEF Least
<1>3. /\ image' = image \o front /\ buffer' = back
      /\ UNCHANGED <<medium, descriptor, position, sought, unreadable, pc, request, want, block>>
  BY DEF ServeBuffered, callVars
<1> HIDE DEF k
<1>4. /\ front \in Seq(Contents) /\ Len(front) = k /\ back \in Seq(Contents)
      /\ Len(back) = Len(buffer) - k /\ front \o back = buffer
  BY <1>1, <1>2, CutInTwo
<1> HIDE DEF front, back
<1>5. image' \in Seq(Contents) /\ Len(image') = Len(image) + k
  BY <1>1, <1>3, <1>4, ConcatProperties
<1>6. (image \o front) \o back = image \o (front \o back)
  <2>1. image \in Seq(Contents)
    BY <1>1
  <2>2. front \in Seq(Contents) /\ back \in Seq(Contents)
    BY <1>4
  <2>3. QED BY <2>1, <2>2, JoinsEitherWay
<1>7. Len(image') + Len(buffer') = position
  BY <1>1, <1>2, <1>3, <1>4, <1>5
<1>8. Produced' = Produced
  BY <1>3, <1>4, <1>6 DEF Produced
<1>9. ReturnsUpTo(n)
  BY <1>2, <1>3, <1>4 DEF ReturnsUpTo
<1>10. DeviceShape'
  BY <1>1, <1>3, <1>4, <1>5, <1>7 DEF DeviceShape
<1>11. QED BY <1>3, <1>8, <1>9, <1>10 DEF Grows

\* Beginning a block moves nothing.
LEMMA BeginMoves ==
  ASSUME DeviceShape, NEW n \in Nat, BeginBlock(n)
  PROVE  DeviceShape' /\ Grows
<1>1. /\ pc = "ready" /\ buffer = <<>> /\ position < Total /\ request' = n /\ block' = <<>>
      /\ want' = Least(IF n >= ReadSize THEN n ELSE ReadSize, Total - position) /\ pc' = "block"
      /\ UNCHANGED <<medium, descriptor, position, sought, unreadable, buffer, image>>
  BY DEF BeginBlock
<1>2. block = <<>> /\ block' = <<>> /\ position \in Nat
  BY <1>1 DEF DeviceShape
<1>3. want' \in Nat /\ want' > 0 /\ position + want' <= Total /\ (n >= ReadSize => want' <= n)
  BY <1>1, <1>2, ShapeFacts DEF Least
<1>4. Produced' = Produced
  BY <1>1, <1>2 DEF Produced
<1>5. DeviceShape'
  BY <1>1, <1>2, <1>3 DEF DeviceShape
<1>6. QED BY <1>1, <1>4, <1>5 DEF Grows

\* A block read whole is added at the end, and none of it is filled in.
LEMMA BlockReadMoves ==
  ASSUME DeviceShape, BlockRead
  PROVE  DeviceShape' /\ Grows /\ ReturnsUpTo(request)
<1> DEFINE filled == [i \in 1..want |-> From + i - 1]
<1>1. /\ pc = "block" /\ pc' = "ready" /\ block = <<>> /\ position \in Nat /\ want \in Nat /\ want > 0
      /\ position + want <= Total /\ buffer = <<>> /\ Returned(From, want)
      /\ position' = position + want /\ HandOver(filled)
      /\ UNCHANGED <<medium, unreadable, request, want, block>>
  BY DEF BlockRead, DeviceShape, callVars
<1>2. From \in Nat /\ From + want <= medium.extent /\ descriptor' = From + want
  BY <1>1 DEF From, Returned, DeviceShape
<1>3. filled \in Seq(Contents) /\ Len(filled) = want /\ Clean(filled)
  <2>1. \A i \in 1..want : From + i - 1 \in Sectors /\ From + i - 1 # Total
    BY <1>1, <1>2, ShapeFacts DEF Sectors
  <2>2. \A i \in 1..want : From + i - 1 \in Contents
    BY <2>1, SectorIsContent
  <2>3. filled \in Seq(Contents) /\ Len(filled) = want
    BY <1>1, <2>2
  <2>4. \A i \in 1..want : filled[i] # Total
    BY <2>1
  <2>5. QED BY <2>3, <2>4 DEF Clean, Placeholder
<1> HIDE DEF filled
<1>4. /\ image' \in Seq(Contents) /\ buffer' \in Seq(Contents)
      /\ Len(image') + Len(buffer') = position'
      /\ image' \o buffer' = image \o filled /\ ReturnsUpTo(request)
  BY <1>1, <1>3, HandOverMoves
<1>5. Produced = image
  BY <1>1, ProducedBetween, ConcatEmptySeq DEF DeviceShape
<1>6. DeviceShape'
  BY <1>1, <1>2, <1>4, ShapeFacts DEF DeviceShape
<1>7. Produced' = image' \o buffer'
  <2>1. image' \o buffer' \in Seq(Contents) /\ block' = <<>>
    BY <1>1, <1>4, ConcatProperties
  <2>2. QED BY <2>1, ConcatEmptySeq DEF Produced
<1>8. QED BY <1>1, <1>3, <1>4, <1>5, <1>6, <1>7 DEF Grows

\* A block that failed adds nothing.
LEMMA BlockNarrowMoves ==
  ASSUME DeviceShape, BlockShort \/ BlockFails
  PROVE  DeviceShape' /\ Grows /\ UNCHANGED image
<1>1. /\ pc = "block" /\ pc' = "sector"
      /\ UNCHANGED <<medium, position, unreadable, request, want, block, buffer, image>>
  BY DEF BlockShort, BlockFails, callVars
<1>2. From \in Nat /\ want \in Nat /\ medium.extent \in Nat
  BY ShapeFacts DEF DeviceShape, From
<1>3. descriptor' \in Nat
  <2>1. CASE BlockShort
    BY <1>2, <2>1 DEF BlockShort, CameShort
  <2>2. CASE BlockFails
    BY <1>2, <2>2 DEF BlockFails, FailedAt, Span
  <2> QED BY <2>1, <2>2
<1>4. block = <<>> /\ Len(<<>>) <= want
  BY <1>1, <1>2 DEF DeviceShape
<1>5. DeviceShape'
  BY <1>1, <1>3, <1>4 DEF DeviceShape
<1>6. QED BY <1>1, <1>5 DEF Grows, Produced

\* A sector read is added at the end.
LEMMA SectorReadMoves ==
  ASSUME DeviceShape, SectorRead
  PROVE  DeviceShape' /\ Grows /\ UNCHANGED image
<1>1. /\ pc = "sector" /\ Len(block) < want /\ Returned(Offset, 1) /\ block' = Append(block, Offset)
      /\ UNCHANGED <<medium, position, unreadable, pc, request, want, buffer, image>>
  BY DEF SectorRead, AtSector, callVars
<1>2. /\ block \in Seq(Contents) /\ Len(block) \in Nat /\ want \in Nat /\ Offset \in Nat
      /\ image \o buffer \in Seq(Contents)
  BY ShapeFacts DEF DeviceShape
<1>3. Offset + 1 <= medium.extent /\ descriptor' = Offset + 1
  BY <1>1 DEF Returned
<1>4. Offset \in Sectors /\ Offset # Placeholder
  BY <1>2, <1>3, ShapeFacts DEF Sectors, Placeholder
<1>5. Offset \in Contents
  BY <1>4, SectorIsContent
<1>6. block' \in Seq(Contents) /\ Len(block') = Len(block) + 1
  BY <1>1, <1>2, <1>5, AppendProperties
<1>7. DeviceShape'
  <2>1. Len(block') <= want /\ descriptor' \in Nat
    BY <1>2, <1>1, <1>3, <1>6
  <2>2. QED BY <1>1, <1>6, <2>1 DEF DeviceShape
<1>8. Produced' = Produced \o <<Offset>>
  BY <1>1, <1>2, <1>5, JoinOne DEF Produced
<1>9. <<Offset>> \in Seq(Contents) /\ Clean(<<Offset>>)
  BY <1>4, <1>5 DEF Clean
<1>10. QED BY <1>1, <1>7, <1>8, <1>9 DEF Grows

\* A first failure adds nothing.
LEMMA SectorFailMoves ==
  ASSUME DeviceShape, SectorFails
  PROVE  DeviceShape' /\ Grows /\ UNCHANGED image
<1>1. /\ pc = "sector" /\ pc' = "again" /\ Len(block) < want
      /\ UNCHANGED <<medium, position, unreadable, request, want, block, buffer, image>>
  BY DEF SectorFails, AtSector, callVars
<1>2. Offset \in Nat /\ medium.extent \in Nat
  BY ShapeFacts
<1>3. descriptor' \in Nat
  BY <1>2 DEF SectorFails, FailedAt, CameShort, Span
<1>4. DeviceShape'
  BY <1>1, <1>3 DEF DeviceShape
<1>5. QED BY <1>1, <1>4 DEF Grows, Produced

\* A sector given up is filled in at the end and noted there.
LEMMA SectorGivenUpMoves ==
  ASSUME DeviceShape, SectorGivenUp
  PROVE  DeviceShape' /\ Grows /\ UNCHANGED image
<1>1. /\ pc = "again" /\ pc' = "sector" /\ NoteUnreadable(Offset)
      /\ block' = Append(block, Placeholder)
      /\ UNCHANGED <<medium, position, request, want, buffer, image>>
  BY DEF SectorGivenUp, callVars
<1>2. /\ block \in Seq(Contents) /\ Len(block) \in Nat /\ want \in Nat /\ Offset \in Nat
      /\ image \o buffer \in Seq(Contents) /\ Len(block) < want /\ medium.extent \in Nat
      /\ Len(Produced) = Offset
  BY <1>1, ShapeFacts DEF DeviceShape
<1>3. descriptor' \in Nat
  BY <1>2 DEF SectorGivenUp, Returned, FailedAt, CameShort, Span
<1>4. Placeholder \in Contents
  BY SectorIsContent
<1>5. block' \in Seq(Contents) /\ Len(block') = Len(block) + 1
  BY <1>1, <1>2, <1>4, AppendProperties
<1>6. DeviceShape'
  <2>1. Len(block') <= want
    BY <1>2, <1>5
  <2>2. QED BY <1>1, <1>3, <1>5, <2>1 DEF DeviceShape
<1>7. Produced' = Append(Produced, Placeholder)
  <2>1. Produced' = Produced \o <<Placeholder>>
    <3> DEFINE before == image \o buffer
    <3>1. before \in Seq(Contents) /\ block \in Seq(Contents)
      BY <1>2
    <3> HIDE DEF before
    <3>2. before \o Append(block, Placeholder) = (before \o block) \o <<Placeholder>>
      BY <1>4, <3>1, JoinOne
    <3>3. QED BY <1>1, <3>2 DEF Produced, before
  <2>2. Produced \in Seq(Contents)
    BY ShapeFacts
  <2>3. QED BY <1>4, <2>1, <2>2, AppendIsConcat
<1>8. QED BY <1>1, <1>2, <1>6, <1>7 DEF Grows

\* Leaving the retry loop hands the block over.
LEMMA LeaveRetryMoves ==
  ASSUME DeviceShape, LeaveRetry
  PROVE  DeviceShape' /\ Grows /\ ReturnsUpTo(request)
<1>1. /\ pc = "sector" /\ pc' = "ready" /\ Len(block) = want /\ HandOver(block)
      /\ position' = position + want /\ block' = <<>>
      /\ UNCHANGED <<medium, descriptor, unreadable, request, want>>
  BY DEF LeaveRetry, callVars
<1>2. /\ block \in Seq(Contents) /\ buffer = <<>> /\ want \in Nat /\ position \in Nat
      /\ position + want <= Total /\ image \in Seq(Contents)
  BY <1>1 DEF DeviceShape
<1>3. /\ image' \in Seq(Contents) /\ buffer' \in Seq(Contents)
      /\ Len(image') + Len(buffer') = position'
      /\ image' \o buffer' = image \o block /\ ReturnsUpTo(request)
  BY <1>1, <1>2, HandOverMoves
<1>4. DeviceShape'
  BY <1>1, <1>2, <1>3 DEF DeviceShape
<1>5. Produced = image \o block
  BY <1>2, ConcatEmptySeq DEF Produced
<1>6. Produced' = image' \o buffer'
  <2>1. image' \o buffer' \in Seq(Contents)
    BY <1>3, ConcatProperties
  <2>2. QED BY <1>1, <2>1, ConcatEmptySeq DEF Produced
<1>7. QED BY <1>1, <1>3, <1>4, <1>5, <1>6 DEF Grows

\* What a move of the reader returns to the caller: at most what it asked for
\* at the call's beginning.
LEMMA DeviceMoves ==
  ASSUME DeviceShape
  PROVE  /\ \A n \in Nat : ServeBuffered(n) => DeviceShape' /\ Grows /\ ReturnsUpTo(n)
         /\ \A n \in Nat : BeginBlock(n) => DeviceShape' /\ Grows
         /\ EndOfDevice => DeviceShape' /\ Grows
         /\ BlockStep \/ SectorStep =>
              DeviceShape' /\ Grows /\ (UNCHANGED image \/ ReturnsUpTo(request))
<1>1. ASSUME EndOfDevice PROVE DeviceShape' /\ Grows
  <2>1. /\ pc = "ready" /\ buffer = <<>> /\ position >= Total /\ pc' = "ended"
        /\ UNCHANGED <<medium, descriptor, position, unreadable, request, want, block, buffer, image>>
    BY <1>1 DEF EndOfDevice, callVars
  <2>2. position = Total
    BY <2>1, ShapeFacts DEF DeviceShape
  <2>3. DeviceShape'
    BY <2>1, <2>2 DEF DeviceShape
  <2>4. QED BY <2>1, <2>3 DEF Grows, Produced
<1>2. ASSUME BlockStep \/ SectorStep
      PROVE  DeviceShape' /\ Grows /\ (UNCHANGED image \/ ReturnsUpTo(request))
  BY <1>2, BlockReadMoves, BlockNarrowMoves, SectorReadMoves, SectorFailMoves, SectorGivenUpMoves,
     LeaveRetryMoves DEF BlockStep, SectorStep
<1>3. QED BY <1>1, <1>2, ServeMoves, BeginMoves

-----------------------------------------------------------------------------
(* The report *)

Apart ==
  \A r \in 1..(LastRegion - 1) : unreadable[r].start + unreadable[r].length < unreadable[r + 1].start
EndsBy(s) == \A r \in 1..LastRegion : unreadable[r].start + unreadable[r].length <= s
FilledIn(units) == {i - 1 : i \in {j \in 1..Len(units) : units[j] = Placeholder}}
NamesInv ==
  /\ DeviceShape /\ unreadable \in Seq(Regions)
  /\ Apart /\ EndsBy(Len(Produced)) /\ Recorded = FilledIn(Produced)

\* The filled sectors, by their places.
LEMMA FilledAre ==
  ASSUME NEW units, Len(units) \in Nat
  PROVE  \A t : t \in FilledIn(units) <=>
           t \in 0..(Len(units) - 1) /\ units[t + 1] = Placeholder
<1>1. ASSUME NEW t \in FilledIn(units) PROVE t \in 0..(Len(units) - 1) /\ units[t + 1] = Placeholder
  <2>1. PICK i \in 1..Len(units) : units[i] = Placeholder /\ t = i - 1
    BY DEF FilledIn
  <2>2. t + 1 = i /\ t \in 0..(Len(units) - 1)
    BY <2>1
  <2>3. QED BY <2>1, <2>2
<1>2. ASSUME NEW t \in 0..(Len(units) - 1), units[t + 1] = Placeholder PROVE t \in FilledIn(units)
  <2>1. t + 1 \in 1..Len(units) /\ t = (t + 1) - 1
    OBVIOUS
  <2>2. QED BY <1>2, <2>1 DEF FilledIn
<1>3. QED BY <1>1, <1>2

\* Noting the sector at the end of what was produced records that sector and
\* no other, and leaves the regions apart.
LEMMA NoteDoes ==
  ASSUME unreadable \in Seq(Regions), NEW s \in Nat, NoteUnreadable(s), Apart, EndsBy(s)
  PROVE  /\ unreadable' \in Seq(Regions)
         /\ \A t : t \in Recorded' <=> t \in Recorded \/ t = s
         /\ Apart' /\ \A r \in 1..LastRegion' : unreadable'[r].start + unreadable'[r].length <= s + 1
<1> DEFINE end(x) == x.start + x.length
<1>0. PICK n : n = Len(unreadable)
  OBVIOUS
<1>1. n \in Nat /\ \A r \in 1..n : unreadable[r] \in Regions
                              /\ unreadable[r].start \in Nat /\ unreadable[r].length \in Nat
  <2>1. n \in Nat /\ \A r \in 1..n : unreadable[r] \in Regions
    BY <1>0, LenProperties, ElementOfSeq
  <2>2. QED BY <2>1 DEF Regions
<1>2. \A t : t \in Recorded <=>
        \E r \in 1..n : t \in unreadable[r].start..(unreadable[r].start + unreadable[r].length - 1)
  BY <1>0 DEF Recorded, Region, LastRegion
<1>3. /\ \A r \in 1..(n - 1) : end(unreadable[r]) < unreadable[r + 1].start
      /\ \A r \in 1..n : end(unreadable[r]) <= s
  BY <1>0 DEF Apart, EndsBy, LastRegion
<1>4. CASE unreadable # <<>> /\ unreadable[n].start + unreadable[n].length = s
  <2>0. n \in 1..n
    BY <1>0, <1>1, <1>4, EmptySeq
  <2>1. unreadable' = [unreadable EXCEPT ![n].length = @ + 1]
    BY <1>0, <1>4 DEF NoteUnreadable, LastRegion
  <2>2. unreadable[n] \in Regions /\ unreadable[n].start \in Nat /\ unreadable[n].length \in Nat
    BY <1>1, <2>0
  <2> DEFINE wider == [unreadable[n] EXCEPT !.length = @ + 1]
  <2>3. /\ wider \in Regions /\ wider.start = unreadable[n].start
        /\ wider.length = unreadable[n].length + 1
    <3>1. \A x \in Regions : /\ [x EXCEPT !.length = @ + 1] \in Regions
                            /\ [x EXCEPT !.length = @ + 1].start = x.start
                            /\ [x EXCEPT !.length = @ + 1].length = x.length + 1
      BY DEF Regions
    <3>2. QED BY <2>2, <3>1
  <2>4. unreadable' = [unreadable EXCEPT ![n] = wider]
    BY <2>1
  <2> HIDE DEF wider
  <2>5. /\ unreadable' \in Seq(Regions) /\ Len(unreadable') = n
        /\ \A r \in 1..n : unreadable'[r] = IF r = n THEN wider ELSE unreadable[r]
    <3>1. /\ [unreadable EXCEPT ![n] = wider] \in Seq(Regions)
          /\ Len([unreadable EXCEPT ![n] = wider]) = Len(unreadable)
          /\ \A j \in 1..Len(unreadable) :
               [unreadable EXCEPT ![n] = wider][j] = IF j = n THEN wider ELSE unreadable[j]
      BY <1>0, <2>0, <2>3, ExceptSeq
    <3>2. QED BY <1>0, <2>4, <3>1
  <2>6. \A t : t \in Recorded' <=>
          \E r \in 1..n : t \in unreadable'[r].start..(unreadable'[r].start + unreadable'[r].length - 1)
    BY <2>5 DEF Recorded, Region, LastRegion
  <2>7. wider.start + wider.length = s + 1 /\ wider.start <= s
    <3>1. \A a, b \in Nat : a + b = s => a + (b + 1) = s + 1 /\ a <= s
      OBVIOUS
    <3>2. unreadable[n].start + unreadable[n].length = s
      BY <1>4
    <3>3. QED BY <2>2, <2>3, <3>1, <3>2
  <2>8. \A t : t \in wider.start..(wider.start + wider.length - 1) <=>
          t \in unreadable[n].start..(unreadable[n].start + unreadable[n].length - 1) \/ t = s
    <3>1. \A a, l \in Nat : \A t : t \in a..(a + (l + 1) - 1) <=> t \in a..(a + l - 1) \/ t = a + l
      OBVIOUS
    <3>2. QED BY <1>4, <2>2, <2>3, <3>1
  <2>9. ASSUME NEW t PROVE t \in Recorded' <=> t \in Recorded \/ t = s
    <3>1. ASSUME t \in Recorded' PROVE t \in Recorded \/ t = s
      <4>1. PICK r \in 1..n : t \in unreadable'[r].start..(unreadable'[r].start + unreadable'[r].length - 1)
        BY <2>6, <3>1
      <4>2. CASE r = n
        BY <1>2, <2>0, <2>5, <2>8, <4>1, <4>2
      <4>3. CASE r # n
        BY <1>2, <2>5, <4>1, <4>3
      <4>4. QED BY <4>2, <4>3
    <3>2. ASSUME t \in Recorded PROVE t \in Recorded'
      <4>1. PICK r \in 1..n : t \in unreadable[r].start..(unreadable[r].start + unreadable[r].length - 1)
        BY <1>2, <3>2
      <4>2. CASE r = n
        <5>1. t \in wider.start..(wider.start + wider.length - 1)
          BY <2>8, <4>1, <4>2
        <5>2. QED BY <2>0, <2>5, <2>6, <5>1
      <4>3. CASE r # n
        BY <2>5, <2>6, <4>1, <4>3
      <4>4. QED BY <4>2, <4>3
    <3>3. ASSUME t = s PROVE t \in Recorded'
      <4>1. t \in wider.start..(wider.start + wider.length - 1)
        BY <2>8, <3>3
      <4>2. QED BY <2>0, <2>5, <2>6, <4>1
    <3>4. QED BY <3>1, <3>2, <3>3
  <2>10. \A r \in 1..n : end(unreadable'[r]) <= s + 1
    <3>1. ASSUME NEW r \in 1..n PROVE unreadable'[r].start + unreadable'[r].length <= s + 1
      <4>1. CASE r = n
        BY <2>5, <2>7, <4>1
      <4>2. CASE r # n
        <5>1. end(unreadable[r]) <= s /\ end(unreadable[r]) \in Nat
          BY <1>1, <1>3
        <5>2. QED BY <2>5, <4>2, <5>1
      <4>3. QED BY <4>1, <4>2
    <3>2. QED BY <3>1
  <2>11. ASSUME NEW r \in 1..(n - 1) PROVE end(unreadable'[r]) < unreadable'[r + 1].start
    <3>1. r \in 1..n /\ r # n /\ r + 1 \in 1..n
      BY <1>1
    <3>2. unreadable'[r] = unreadable[r] /\ unreadable'[r + 1].start = unreadable[r + 1].start
      BY <2>3, <2>5, <3>1
    <3>3. QED BY <1>3, <3>2
  <2>12. QED BY <2>5, <2>9, <2>10, <2>11 DEF Apart, LastRegion
<1>5. CASE ~(unreadable # <<>> /\ unreadable[n].start + unreadable[n].length = s)
  <2> DEFINE new == [start |-> s, length |-> 1]
  <2>1. unreadable' = Append(unreadable, new)
    BY <1>0, <1>5 DEF NoteUnreadable, LastRegion
  <2>2. new \in Regions /\ new.start = s /\ new.length = 1
    BY DEF Regions
  <2> HIDE DEF new
  <2>3. /\ unreadable' \in Seq(Regions) /\ Len(unreadable') = n + 1
        /\ unreadable'[n + 1] = new
        /\ \A r \in 1..n : unreadable'[r] = unreadable[r]
    BY <1>0, <2>1, <2>2, AppendProperties
  <2>4. \A t : t \in Recorded' <=>
          \E r \in 1..(n + 1) :
            t \in unreadable'[r].start..(unreadable'[r].start + unreadable'[r].length - 1)
    BY <2>3 DEF Recorded, Region, LastRegion
  <2>5. \A t : t \in new.start..(new.start + new.length - 1) <=> t = s
    BY <2>2
  <2>6. n + 1 \in 1..(n + 1) /\ \A r \in 1..(n + 1) : r = n + 1 \/ r \in 1..n
    BY <1>1
  <2>7. \A r \in 1..n : r \in 1..(n + 1)
    BY <1>1
  <2>8. ASSUME NEW t PROVE t \in Recorded' <=> t \in Recorded \/ t = s
    BY <1>2, <2>3, <2>4, <2>5, <2>6, <2>7
  <2>9. ASSUME NEW r \in 1..(n + 1) PROVE end(unreadable'[r]) <= s + 1
    <3>1. CASE r = n + 1
      BY <2>2, <2>3, <3>1
    <3>2. CASE r # n + 1
      <4>1. r \in 1..n
        BY <2>6, <3>2
      <4>2. end(unreadable[r]) <= s /\ end(unreadable[r]) \in Nat
        BY <1>1, <1>3, <4>1
      <4>3. QED BY <2>3, <4>1, <4>2
    <3>3. QED BY <3>1, <3>2
  <2>10. ASSUME NEW r \in 1..n PROVE end(unreadable'[r]) < unreadable'[r + 1].start
    <3>1. CASE r = n
      <4>1. unreadable # <<>>
        BY <1>0, <1>1, <3>1
      <4>2. end(unreadable[r]) <= s /\ end(unreadable[r]) # s /\ end(unreadable[r]) \in Nat
        BY <1>1, <1>3, <1>5, <3>1, <4>1
      <4>3. QED BY <2>2, <2>3, <3>1, <4>2
    <3>2. CASE r # n
      <4>1. r \in 1..(n - 1) /\ r + 1 \in 1..n
        BY <1>1, <3>2
      <4>2. QED BY <1>3, <2>3, <4>1
    <3>3. QED BY <3>1, <3>2
  <2>11. (n + 1) - 1 = n
    BY <1>1
  <2>12. QED BY <2>3, <2>8, <2>9, <2>10, <2>11 DEF Apart, LastRegion
<1>6. QED BY <1>4, <1>5

\* The report stays exact whichever way what was produced grows.
LEMMA NamesKept ==
  ASSUME NamesInv, DeviceShape', Grows PROVE NamesInv'
<1>0. /\ Produced \in Seq(Contents) /\ Len(Produced) \in Nat /\ unreadable \in Seq(Regions)
      /\ Apart /\ EndsBy(Len(Produced)) /\ Recorded = FilledIn(Produced)
  BY ShapeFacts DEF NamesInv
<1>1. CASE Produced' = Produced /\ UNCHANGED unreadable
  BY <1>0, <1>1 DEF NamesInv, Apart, EndsBy, LastRegion, Recorded, Region
<1>2. CASE /\ UNCHANGED unreadable
           /\ \E units \in Seq(Contents) : Clean(units) /\ Produced' = Produced \o units
  <2>1. PICK units \in Seq(Contents) : Clean(units) /\ Produced' = Produced \o units
    BY <1>2
  <2>2. Len(units) \in Nat /\ Len(Produced') = Len(Produced) + Len(units) /\ Len(Produced') \in Nat
        /\ \A i \in 1..Len(Produced) + Len(units) : Produced'[i] =
             IF i <= Len(Produced) THEN Produced[i] ELSE units[i - Len(Produced)]
    <3>1. Len(units) \in Nat
      BY LenProperties
    <3>2. /\ Len(Produced \o units) = Len(Produced) + Len(units)
          /\ \A i \in 1..Len(Produced) + Len(units) : (Produced \o units)[i] =
               IF i <= Len(Produced) THEN Produced[i] ELSE units[i - Len(Produced)]
      BY <1>0, ConcatProperties
    <3>3. QED BY <1>0, <2>1, <3>1, <3>2
  <2>3. ASSUME NEW t PROVE t \in FilledIn(Produced') <=> t \in FilledIn(Produced)
    <3>1. t \in FilledIn(Produced) <=> t \in 0..(Len(Produced) - 1) /\ Produced[t + 1] = Placeholder
      BY <1>0, FilledAre
    <3>2. t \in FilledIn(Produced') <=> t \in 0..(Len(Produced') - 1) /\ Produced'[t + 1] = Placeholder
      BY <2>2, FilledAre
    <3>3. CASE t \in 0..(Len(Produced) - 1)
      <4>1. t + 1 \in 1..Len(Produced) + Len(units) /\ t + 1 <= Len(Produced)
            /\ t \in 0..(Len(Produced') - 1)
        BY <1>0, <2>2, <3>3
      <4>2. QED BY <2>2, <3>1, <3>2, <3>3, <4>1
    <3>4. CASE t \notin 0..(Len(Produced) - 1) /\ t \in 0..(Len(Produced') - 1)
      <4>1. t + 1 \in 1..Len(Produced) + Len(units) /\ ~(t + 1 <= Len(Produced))
            /\ (t + 1) - Len(Produced) \in 1..Len(units)
        BY <1>0, <2>2, <3>4
      <4>2. Produced'[t + 1] # Placeholder
        BY <2>1, <2>2, <4>1 DEF Clean
      <4>3. QED BY <3>1, <3>2, <3>4, <4>2
    <3>5. QED BY <3>1, <3>2, <3>3, <3>4
  <2>4. FilledIn(Produced') = FilledIn(Produced)
    BY <2>3
  <2>5. Recorded' = Recorded /\ Apart'
    BY <1>0, <1>2 DEF Recorded, Region, LastRegion, Apart
  <2>6. EndsBy(Len(Produced))'
    <3>1. \A r \in 1..LastRegion : unreadable[r] \in Regions /\ unreadable[r].start + unreadable[r].length \in Nat
      <4>1. \A r \in 1..LastRegion : unreadable[r] \in Regions
        BY <1>0, ElementOfSeq DEF LastRegion
      <4>2. QED BY <4>1 DEF Regions
    <3>2. ASSUME NEW r \in 1..LastRegion
          PROVE  unreadable[r].start + unreadable[r].length <= Len(Produced')
      <4>1. unreadable[r].start + unreadable[r].length <= Len(Produced)
        BY <1>0 DEF EndsBy
      <4>2. unreadable[r].start + unreadable[r].length \in Nat
        BY <3>1
      <4> HIDE DEF LastRegion
      <4>3. QED BY <1>0, <2>2, <4>1, <4>2
    <3>3. QED BY <1>2, <3>2 DEF EndsBy, LastRegion
  <2>7. QED BY <1>0, <1>2, <2>4, <2>5, <2>6 DEF NamesInv
<1>3. CASE NoteUnreadable(Len(Produced)) /\ Produced' = Append(Produced, Placeholder)
  <2>1. Placeholder \in Contents
    BY SectorIsContent
  <2>2. /\ Len(Produced') = Len(Produced) + 1 /\ Len(Produced') \in Nat
        /\ \A i \in 1..Len(Produced) : Produced'[i] = Produced[i]
        /\ Produced'[Len(Produced) + 1] = Placeholder
    <3>1. /\ Len(Append(Produced, Placeholder)) = Len(Produced) + 1
          /\ \A i \in 1..Len(Produced) : Append(Produced, Placeholder)[i] = Produced[i]
          /\ Append(Produced, Placeholder)[Len(Produced) + 1] = Placeholder
      BY <1>0, <2>1, AppendProperties
    <3>2. QED BY <1>0, <1>3, <3>1
  <2>3. PICK s \in Nat : s = Len(Produced)
    BY <1>0
  <2>4. /\ unreadable' \in Seq(Regions)
        /\ \A t : t \in Recorded' <=> t \in Recorded \/ t = s
        /\ Apart' /\ \A r \in 1..LastRegion' : unreadable'[r].start + unreadable'[r].length <= s + 1
    <3>1. NoteUnreadable(s) /\ EndsBy(s)
      BY <1>0, <1>3, <2>3
    <3>2. QED BY <1>0, <3>1, NoteDoes
  <2>5. EndsBy(Len(Produced))'
    BY <2>2, <2>3, <2>4 DEF EndsBy
  <2>6. ASSUME NEW t PROVE t \in FilledIn(Produced') <=> t \in FilledIn(Produced) \/ t = s
    <3>1. t \in FilledIn(Produced) <=> t \in 0..(s - 1) /\ Produced[t + 1] = Placeholder
      BY <1>0, <2>3, FilledAre
    <3>2. t \in FilledIn(Produced') <=> t \in 0..s /\ Produced'[t + 1] = Placeholder
      <4>1. Len(Produced') - 1 = s
        BY <2>2, <2>3
      <4>2. QED BY <2>2, <4>1, FilledAre
    <3>3. CASE t \in 0..(s - 1)
      <4>1. t + 1 \in 1..Len(Produced) /\ t \in 0..s
        BY <2>3, <3>3
      <4>2. QED BY <2>2, <3>1, <3>2, <3>3, <4>1
    <3>4. CASE t = s
      <4>1. t \in 0..s /\ Produced'[t + 1] = Placeholder
        BY <2>2, <2>3, <3>4
      <4>2. QED BY <3>2, <3>4, <4>1
    <3>5. CASE t \notin 0..(s - 1) /\ t # s
      <4>1. t \notin 0..s
        BY <2>3, <3>5
      <4>2. QED BY <3>1, <3>2, <3>5, <4>1
    <3>6. QED BY <3>3, <3>4, <3>5
  <2>7. Recorded' = FilledIn(Produced')
    BY <1>0, <2>4, <2>6
  <2>8. QED BY <2>4, <2>5, <2>7 DEF NamesInv
<1>4. QED BY <1>1, <1>2, <1>3 DEF Grows

\* Nothing is filled, and nothing noted, before the first read.
LEMMA NamesBegin == DeviceInit => NamesInv
<1> SUFFICES ASSUME DeviceInit PROVE NamesInv
  OBVIOUS
<1>1. /\ <<>> \in Seq(Contents) /\ <<>> \in Seq(Regions) /\ Len(<<>>) = 0
  BY EmptySeq
<1>2. DeviceShape
  BY <1>1, DeviceAssumption DEF DeviceInit, DeviceShape
<1>3. Produced = <<>>
  BY <1>1, ConcatEmptySeq DEF DeviceInit, Produced
<1>4. QED BY <1>1, <1>2, <1>3 DEF DeviceInit, NamesInv, Apart, EndsBy, LastRegion, Recorded, FilledIn

\* What a step produces it produces at the end, and notes there what it filled.
LEMMA NamesMove == NamesInv /\ [DeviceMove]_vars => NamesInv'
<1> SUFFICES ASSUME NamesInv, [DeviceMove]_vars PROVE NamesInv'
  OBVIOUS
<1>1. DeviceShape
  BY DEF NamesInv
<1>2. CASE DeviceMove
  <2>1. DeviceShape' /\ Grows
    BY <1>1, <1>2, DeviceMoves DEF DeviceMove
  <2>2. QED BY <2>1, NamesKept
<1>3. CASE UNCHANGED vars
  <2>1. DeviceShape' /\ Produced' = Produced /\ UNCHANGED unreadable
    BY <1>1, <1>3 DEF vars, callVars, DeviceShape, Produced
  <2>2. QED BY <2>1, NamesKept DEF Grows
<1>4. QED BY <1>2, <1>3

\* Only a sector that failed an attempt of its own is given up.
Tried ==
  /\ \A s \in Recorded : Refuses(s)
  /\ pc = "again" => Refuses(Offset)

LEMMA TriedBegins == DeviceInit => Tried
<1> SUFFICES ASSUME DeviceInit PROVE Tried
  OBVIOUS
<1>1. unreadable = <<>> /\ pc = "ready" /\ Len(<<>>) = 0 /\ 1..0 = {}
  BY EmptySeq DEF DeviceInit
<1>2. Recorded = {}
  BY <1>1 DEF Recorded, LastRegion
<1>3. QED BY <1>1, <1>2 DEF Tried

\* A step that fails an attempt at one sector makes it one that refuses, and
\* only such a one is noted.
LEMMA TriedMoves == NamesInv /\ Tried /\ [DeviceMove]_vars => Tried'
<1> SUFFICES ASSUME NamesInv, Tried, [DeviceMove]_vars PROVE Tried'
  OBVIOUS
<1>0. /\ position \in Nat /\ Len(block) \in Nat /\ medium.extent \in Nat /\ Offset \in Nat
      /\ Len(Produced) = Offset /\ Offset = position + Len(block)
  BY ShapeFacts DEF NamesInv, DeviceShape
<1>1. CASE /\ UNCHANGED <<medium, unreadable>>
           /\ pc' # "again" \/ UNCHANGED <<pc, position, block>>
  <2>1. Recorded' = Recorded
    BY <1>1, RecordedSame
  <2>2. QED BY <1>1, <2>1 DEF Tried, Refuses, Offset
<1>2. CASE SectorFails
  <2>1. UNCHANGED <<medium, position, unreadable, block>> /\ (FailedAt(Offset, 1) \/ CameShort(Offset, 1))
    BY <1>2 DEF SectorFails
  <2>2. Refuses(Offset)
    <3>1. CASE FailedAt(Offset, 1)
      <4>1. PICK s \in Span(Offset, 1) : s \in medium.bad \cup medium.marginal
        BY <3>1 DEF FailedAt
      <4>2. s = Offset
        BY <1>0, <4>1 DEF Span
      <4>3. QED BY <4>1, <4>2 DEF Refuses
    <3>2. CASE CameShort(Offset, 1)
      <4>1. medium.extent < Offset + 1
        BY <3>2 DEF CameShort
      <4> HIDE DEF Offset
      <4>2. Offset >= medium.extent
        BY <1>0, <4>1
      <4>3. QED BY <4>2 DEF Refuses
    <3>3. QED BY <2>1, <3>1, <3>2
  <2>3. Recorded' = Recorded
    BY <2>1, RecordedSame
  <2>4. QED BY <2>1, <2>2, <2>3 DEF Tried, Refuses, Offset
<1>3. CASE SectorGivenUp
  <2>1. pc = "again" /\ pc' = "sector" /\ medium' = medium /\ NoteUnreadable(Offset)
    BY <1>3 DEF SectorGivenUp
  <2>2. PICK t \in Nat : t = Offset
    BY <1>0
  <2>3. unreadable \in Seq(Regions) /\ NoteUnreadable(t) /\ Apart /\ EndsBy(t)
    BY <1>0, <2>1, <2>2 DEF NamesInv
  <2>4. \A s : s \in Recorded' <=> s \in Recorded \/ s = t
    BY <2>3, NoteDoes
  <2>5. QED BY <2>1, <2>2, <2>4 DEF Tried, Refuses
<1>4. CASE (\E n \in Nat : ServeBuffered(n) \/ BeginBlock(n)) \/ EndOfDevice
  BY <1>1, <1>4 DEF ServeBuffered, BeginBlock, EndOfDevice
<1>5. CASE BlockStep
  BY <1>1, <1>5 DEF BlockStep, BlockRead, BlockShort, BlockFails
<1>6. CASE SectorRead \/ LeaveRetry
  BY <1>1, <1>6 DEF SectorRead, LeaveRetry, AtSector
<1>7. CASE UNCHANGED vars
  BY <1>1, <1>7 DEF vars
<1>8. QED BY <1>2, <1>3, <1>4, <1>5, <1>6, <1>7 DEF DeviceMove, SectorStep

\* And that is what the report is promised to be.
LEMMA NamesPromise == NamesInv /\ Tried => ReportNamesExactlyTheFilled
  BY DEF NamesInv, Tried, ReportNamesExactlyTheFilled, Apart, FilledIn

(* On any medium, marginal sectors too: whatever the block a sector was in,  *)
(* the report names it exactly if the reader filled it, in regions that      *)
(* stand in order and apart, and it filled none that reads at every attempt. *)
THEOREM ReportIsExact == DeviceSpec => []ReportNamesExactlyTheFilled
<1>1. NamesInv /\ Tried /\ [DeviceNext]_vars => NamesInv' /\ Tried'
  BY NextIsMove, NamesMove, TriedMoves
<1>2. QED BY <1>1, NamesBegin, TriedBegins, NamesPromise, PTL DEF DeviceSpec

-----------------------------------------------------------------------------
(* The writer, over any source *)

\* Units that stand in the whole from a place on.
InOrder(units, from, whole) ==
  /\ from + Len(units) <= Len(whole)
  /\ \A j \in 1..Len(units) : units[j] = whole[from + j]

\* What stands in the whole still does when the whole grows, and what it grew
\* by stands at its end.
LEMMA InOrderGrows ==
  ASSUME NEW U, NEW whole \in Seq(U), NEW more \in Seq(U)
  PROVE  /\ whole \o more \in Seq(U) /\ Len(whole \o more) = Len(whole) + Len(more)
         /\ InOrder(more, Len(whole), whole \o more)
         /\ \A units \in Seq(U), from \in Nat :
              InOrder(units, from, whole) => InOrder(units, from, whole \o more)
<1>1. /\ whole \o more \in Seq(U)
      /\ Len(whole \o more) = Len(whole) + Len(more)
      /\ \A i \in 1 .. Len(whole) + Len(more) :
           (whole \o more)[i] = IF i <= Len(whole) THEN whole[i] ELSE more[i - Len(whole)]
  BY ConcatProperties
<1>2. Len(whole) \in Nat /\ Len(more) \in Nat
  BY LenProperties
<1>3. InOrder(more, Len(whole), whole \o more)
  <2>1. ASSUME NEW j \in 1..Len(more) PROVE more[j] = (whole \o more)[Len(whole) + j]
    <3>1. Len(whole) + j \in 1 .. Len(whole) + Len(more) /\ ~(Len(whole) + j <= Len(whole))
          /\ (Len(whole) + j) - Len(whole) = j
      BY <1>2
    <3>2. QED BY <1>1, <3>1
  <2>2. QED BY <1>1, <1>2, <2>1 DEF InOrder
<1>4. ASSUME NEW units \in Seq(U), NEW from \in Nat, InOrder(units, from, whole)
      PROVE  InOrder(units, from, whole \o more)
  <2>1. Len(units) \in Nat /\ from + Len(units) <= Len(whole)
    BY <1>4, LenProperties DEF InOrder
  <2>2. ASSUME NEW j \in 1..Len(units) PROVE units[j] = (whole \o more)[from + j]
    <3>1. from + j \in 1 .. Len(whole) + Len(more) /\ from + j <= Len(whole)
      BY <1>2, <2>1
    <3>2. units[j] = whole[from + j]
      BY <1>4 DEF InOrder
    <3>3. QED BY <1>1, <3>1, <3>2
  <2>3. from + Len(units) <= Len(whole \o more)
    BY <1>1, <1>2, <2>1
  <2>4. QED BY <2>2, <2>3 DEF InOrder
<1>5. QED BY <1>1, <1>3, <1>4

\* Units that adjoin stand there joined.
LEMMA InOrderJoins ==
  ASSUME NEW U, NEW whole \in Seq(U), NEW units \in Seq(U), NEW next \in Seq(U), NEW from \in Nat,
         InOrder(units, from, whole), InOrder(next, from + Len(units), whole)
  PROVE  /\ units \o next \in Seq(U) /\ Len(units \o next) = Len(units) + Len(next)
         /\ InOrder(units \o next, from, whole)
<1>1. /\ units \o next \in Seq(U)
      /\ Len(units \o next) = Len(units) + Len(next)
      /\ \A i \in 1 .. Len(units) + Len(next) :
           (units \o next)[i] = IF i <= Len(units) THEN units[i] ELSE next[i - Len(units)]
  BY ConcatProperties
<1>2. Len(units) \in Nat /\ Len(next) \in Nat /\ Len(whole) \in Nat
  BY LenProperties
<1>3. (from + Len(units)) + Len(next) <= Len(whole)
  BY DEF InOrder
<1>4. ASSUME NEW i \in 1..Len(units) + Len(next) PROVE (units \o next)[i] = whole[from + i]
  <2>1. CASE i <= Len(units)
    <3>1. i \in 1..Len(units)
      BY <1>2, <2>1
    <3>2. QED BY <1>1, <2>1, <3>1 DEF InOrder
  <2>2. CASE ~(i <= Len(units))
    <3>1. i - Len(units) \in 1..Len(next) /\ (from + Len(units)) + (i - Len(units)) = from + i
      BY <1>2, <2>2
    <3>2. next[i - Len(units)] = whole[(from + Len(units)) + (i - Len(units))]
      BY <3>1 DEF InOrder
    <3>3. QED BY <1>1, <2>2, <3>1, <3>2
  <2>3. QED BY <2>1, <2>2
<1>5. from + Len(units \o next) <= Len(whole)
  BY <1>1, <1>2, <1>3
<1>6. QED BY <1>1, <1>4, <1>5 DEF InOrder

\* Units that stand in the whole from its beginning to its end are the whole.
LEMMA InOrderWhole ==
  ASSUME NEW U, NEW whole \in Seq(U), NEW units \in Seq(U),
         InOrder(units, 0, whole), Len(units) = Len(whole)
  PROVE  units = whole
<1>1. \A j \in 1..Len(units) : units[j] = whole[j]
  <2>1. \A j \in 1..Len(units) : 0 + j = j
    BY LenProperties
  <2>2. QED BY <2>1 DEF InOrder
<1>2. QED BY <1>1, SeqEqual

\* Nothing stands anywhere.
LEMMA InOrderNothing ==
  ASSUME NEW U, NEW whole \in Seq(U), NEW from \in 0..Len(whole)
  PROVE  InOrder(<<>>, from, whole)
BY LenProperties DEF InOrder

-----------------------------------------------------------------------------
(* The parts of the invariant *)

Underway == {"fill", "absorb", "feed", "flush", "part"}
Between == {"preflight", "create", "probe", "digests", "map"}
PartFiles == [stream : Seq(Unit), sink : 0..Threshold, closed : BOOLEAN]
Entries == [mapped : Nat, length : Nat]

WriterTypes ==
  /\ at \in Underway \cup Between \cup {"stopped"}
  /\ given \in Seq(Unit) /\ chunk \in Seq(Unit) /\ bevy \in Seq(Unit)
  /\ fed \in 0..Workers
  /\ parts \in Seq(PartFiles) /\ entries \in Seq(Entries) /\ total \in Nat
  /\ exhausted \in BOOLEAN
  /\ absorbed \in [0..Workers -> Seq(Unit)]
  /\ queue \in [1..Workers -> Seq(Seq(Unit))]
  /\ outcome \in {"running", "written", "refused", "failed", "too many"}

\* What is in hand at each place of the loop: a part is open exactly while it is
\* written, and nothing is in hand while none is but the probe's unit.
InHand ==
  /\ at \in Underway => Part = Len(entries) + 1
  /\ at \in Between => Part = Len(entries) /\ bevy = <<>>
  /\ at \in {"preflight", "probe", "digests", "map", "flush", "part"} => chunk = <<>>
  /\ at = "part" => bevy = <<>>
  /\ at = "preflight" => Part = 0
  /\ at \in {"probe", "digests", "map"} => Part >= 1
  /\ Len(entries) = 0 => total = 0
  /\ at = "stopped" => Part \in {Len(entries), Len(entries) + 1}
  /\ at = "stopped" <=> outcome # "running"
  /\ outcome = "written" =>
       Part = Len(entries) /\ Part >= 1 /\ bevy = <<>> /\ chunk = <<>>

\* A part after the first is begun with the probe's unit in hand.
NoEmptyPart ==
  /\ at = "create" /\ Part >= 1 => chunk # <<>>
  /\ at \in Underway /\ Part > 1 => Len(parts[Part].stream) + Len(bevy) + Len(chunk) > 0

\* What each digest has absorbed and what is on its way to it stand in the
\* image in order, up to what has been sent to it.
Follows(slices, from, upto, whole) ==
  \E start \in [1..(Len(slices) + 1) -> Nat] :
    /\ start[1] = from /\ start[Len(slices) + 1] = upto
    /\ \A k \in 1..Len(slices) : /\ InOrder(slices[k], start[k], whole)
                                 /\ start[k + 1] = start[k] + Len(slices[k])
Sent(d) == IF at = "feed" /\ d <= fed THEN Len(given) ELSE Len(given) - Len(chunk)
DigestsFollow ==
  /\ \A d \in 0..Workers : InOrder(absorbed[d], 0, given)
  /\ Len(absorbed[0]) = Sent(0)
  /\ \A w \in 1..Workers : Follows(queue[w], Len(absorbed[w]), Sent(w), given)
  /\ at = "map" \/ outcome = "written" => \A w \in 1..Workers : queue[w] = <<>>

\* A chunk has room while it is being filled.
ReadsFit ==
  /\ at = "create" => Len(chunk) <= 1
  /\ at = "fill" => Len(chunk) < ChunkSize

WriterInv ==
  /\ WriterTypes /\ InHand /\ NoEmptyPart /\ ReadsFit
  /\ PartsTileTheImage /\ NoPartIsLeftOpen /\ DigestsFollow

\* The steps of the writer over any source: what the source returns is only
\* known to be as many units as were asked for or fewer, and a set may be
\* refused, before anything is written, for what the source declares.
AnyAnswer == \E units \in Seq(Unit) : units # <<>> /\ Len(units) <= Wanted /\ Answer(units)
AnyPreflight ==
  /\ at = "preflight"
  /\ Stop("refused") \/ (at' = "create" /\ UNCHANGED outcome)
  /\ UNCHANGED <<given, chunk, fed, bevy, partVars, exhausted, hashVars>>
AnyFlush == \E cost \in Nat : FlushBevy(cost)
OtherStep ==
  \/ AnyPreflight \/ AnswerEnd \/ NothingRead \/ Absorb \/ Feed \/ CollectDigests
  \/ Fails \/ WorkerStep
WriterMove ==
  \/ AnyAnswer \/ CreatePart \/ Push \/ AnyFlush \/ EndPart \/ FinishFirstPart \/ OtherStep

\* The steps that touch no part and no unit of the image.
LEMMA OtherStepFrame ==
  ASSUME OtherStep PROVE UNCHANGED <<given, chunk, bevy, parts, entries, total>>
  BY DEF OtherStep, AnyPreflight, AnswerEnd, NothingRead, Absorb, Feed,
         CollectDigests, Fails, WorkerStep, Work, partVars

\* The numbers the places of the parts are told by.
LEMMA Places ==
  ASSUME WriterTypes
  PROVE  /\ Part \in Nat /\ Len(entries) \in Nat /\ total \in Nat
         /\ Len(given) \in Nat /\ Len(chunk) \in Nat /\ Len(bevy) \in Nat
         /\ \A i \in 1..Part : /\ parts[i] \in PartFiles /\ parts[i].stream \in Seq(Unit)
                              /\ Len(parts[i].stream) \in Nat /\ Base(i) \in Nat
         /\ \A i \in 1..Len(entries) : entries[i] \in Entries /\ entries[i].mapped \in Nat
                              /\ entries[i].length \in Nat
<1>1. Part \in Nat /\ Len(entries) \in Nat /\ total \in Nat /\ Len(given) \in Nat
      /\ Len(chunk) \in Nat /\ Len(bevy) \in Nat
  BY LenProperties DEF WriterTypes, Part
<1>2. \A i \in 1..Len(entries) : entries[i] \in Entries
  BY ElementOfSeq DEF WriterTypes
<1>3. \A i \in 1..Part : parts[i] \in PartFiles
  BY ElementOfSeq DEF WriterTypes, Part
<1>4. \A i \in 1..Part : parts[i].stream \in Seq(Unit)
  BY <1>3 DEF PartFiles
<1>5. \A i \in 1..Part : Len(parts[i].stream) \in Nat
  BY <1>4, LenProperties
<1>6. \A i \in 1..Len(entries) : entries[i].mapped \in Nat /\ entries[i].length \in Nat
  BY <1>2 DEF Entries
<1>7. \A i \in 1..Part : Base(i) \in Nat
  BY <1>1, <1>6 DEF Base
<1>8. QED BY <1>1, <1>2, <1>3, <1>4, <1>5, <1>6, <1>7

\* The places the tiling speaks of, as places of the image.
LEMMA TilesInOrder ==
  PartsTileTheImage <=>
    /\ \A i \in 1..Len(entries) :
         /\ entries[i].length = Len(parts[i].stream)
         /\ entries[i].mapped = IF i = 1 THEN 0 ELSE entries[i - 1].mapped + entries[i - 1].length
         /\ i = Len(entries) => total = entries[i].mapped + entries[i].length
    /\ \A i \in 1..Part : InOrder(parts[i].stream, Base(i), given)
    /\ InOrder(bevy, Flushed, given) /\ InOrder(chunk, Flushed + Len(bevy), given)
    /\ Flushed + Len(bevy) + Len(chunk) = Len(given)
  BY DEF PartsTileTheImage, IsGiven, InOrder

\* Where the bevy in hand begins.
LEMMA FlushedIs ==
  ASSUME WriterTypes
  PROVE  /\ Flushed \in Nat
         /\ Part = Len(entries) => Flushed = total
         /\ Part = Len(entries) + 1 =>
              Flushed = total + Len(parts[Part].stream) /\ Part \in 1..Part /\ Base(Part) = total
<1>1. Part \in Nat /\ Len(entries) \in Nat /\ total \in Nat
  BY Places
<1>2. CASE Part > Len(entries)
  <2>1. Part \in 1..Part /\ ~(Part <= Len(entries))
    BY <1>1, <1>2
  <2>2. Flushed = total + Len(parts[Part].stream) /\ Len(parts[Part].stream) \in Nat
    BY <1>2, <2>1, Places DEF Flushed
  <2>3. Base(Part) = total
    BY <2>1 DEF Base
  <2>4. Flushed \in Nat /\ Part # Len(entries)
    BY <1>1, <1>2, <2>2
  <2>5. QED BY <2>1, <2>2, <2>3, <2>4
<1>3. CASE ~(Part > Len(entries))
  <2>1. Flushed = total /\ Part # Len(entries) + 1
    BY <1>1, <1>3 DEF Flushed
  <2>2. QED BY <1>1, <2>1
<1>4. QED BY <1>2, <1>3

-----------------------------------------------------------------------------
(* What the steps that do write do *)

\* FlushBevy, with the part it writes to spelt out.
LEMMA FlushDoes ==
  ASSUME WriterTypes, InHand, NEW cost \in Nat, FlushBevy(cost)
  PROVE  \E p \in PartFiles :
           /\ p.stream = parts[Part].stream \o bevy /\ p.closed = parts[Part].closed
           /\ parts' = [parts EXCEPT ![Part] = p]
           /\ Part \in 1..Part /\ Part = Len(entries) + 1 /\ at = "flush"
           /\ at' \in {"part", "fill"} /\ bevy' = <<>> /\ chunk = <<>>
           /\ UNCHANGED <<given, chunk, fed, entries, total, exhausted, absorbed, queue, outcome>>
<1> DEFINE old == parts[Part]
           grown == Grown(old.sink, Overhead + cost)
           p == [stream |-> old.stream \o bevy, sink |-> grown, closed |-> old.closed]
<1>1. at = "flush" /\ Part = Len(entries) + 1 /\ chunk = <<>>
  BY DEF FlushBevy, InHand, Underway
<1>2. Part \in 1..Part /\ old \in PartFiles /\ old.stream \in Seq(Unit) /\ bevy \in Seq(Unit)
  BY <1>1, Places, FlushedIs DEF WriterTypes
<1>3. grown \in 0..Threshold
  <2>1. old.sink \in 0..Threshold /\ Overhead \in Nat /\ Threshold \in Nat
    BY <1>2, MultiPartAssumption DEF PartFiles
  <2> HIDE DEF old
  <2>2. QED BY <2>1 DEF Grown
<1>4. old.stream \o bevy \in Seq(Unit)
  BY <1>2, ConcatProperties
<1>5. p \in PartFiles
  BY <1>2, <1>3, <1>4 DEF PartFiles
<1>6. parts' = [parts EXCEPT ![Part] = p]
  <2>1. parts' = [parts EXCEPT ![Part].stream = @ \o bevy, ![Part].sink = grown]
    <3>1. parts \in [1..Part -> PartFiles]
      BY LenProperties DEF WriterTypes, Part
    <3>2. [parts EXCEPT ![Part].stream = @ \o bevy][Part].sink = old.sink
      BY <1>2, <3>1 DEF PartFiles
    <3>3. QED BY <3>2 DEF FlushBevy
  <2>2. [[parts[Part] EXCEPT !.stream = @ \o bevy] EXCEPT !.sink = grown] = p
    <3>1. \A o \in PartFiles : \A s, g :
            [[o EXCEPT !.stream = s] EXCEPT !.sink = g]
              = [stream |-> s, sink |-> g, closed |-> o.closed]
      <4>1. ASSUME NEW o \in PartFiles, NEW s, NEW g
            PROVE  [[o EXCEPT !.stream = s] EXCEPT !.sink = g]
                     = [stream |-> s, sink |-> g, closed |-> o.closed]
        <5> DEFINE r == [o EXCEPT !.stream = s]
        <5>1. o = [stream |-> o.stream, sink |-> o.sink, closed |-> o.closed]
          BY DEF PartFiles
        <5>2. r = [stream |-> s, sink |-> o.sink, closed |-> o.closed]
          BY <5>1
        <5> HIDE DEF r
        <5>3. [r EXCEPT !.sink = g] = [stream |-> s, sink |-> g, closed |-> o.closed]
          BY <5>2
        <5>4. QED BY <5>3 DEF r
      <4>2. QED BY <4>1
    <3> HIDE DEF grown
    <3>2. QED BY <1>2, <3>1
  <2>3. parts \in [1..Part -> PartFiles]
    BY LenProperties DEF WriterTypes, Part
  <2> HIDE DEF grown
  <2>4. QED BY <1>2, <2>1, <2>2, <2>3
<1>7. QED
  BY <1>1, <1>2, <1>5, <1>6 DEF FlushBevy, hashVars

\* CreatePart and Push, in the same words.
LEMMA CreateDoes ==
  ASSUME WriterTypes, InHand, CreatePart
  PROVE  \E p \in PartFiles :
           /\ p.stream = <<>> /\ ~p.closed
           /\ parts' = Append(parts, p) /\ Part' = Part + 1
           /\ \A i \in 1..Part : parts'[i] = parts[i]
           /\ parts'[Part + 1] = p
           /\ Part = Len(entries) /\ at = "create" /\ at' \in {"fill", "absorb"} /\ bevy = <<>>
           /\ UNCHANGED <<given, chunk, fed, bevy, entries, total, absorbed, queue, outcome>>
<1> DEFINE p == [stream |-> <<>>, sink |-> 0, closed |-> FALSE]
<1>1. p \in PartFiles
  BY MultiPartAssumption DEF PartFiles
<1>2. parts' = Append(parts, p) /\ at = "create" /\ at' \in {"fill", "absorb"}
      /\ UNCHANGED <<given, chunk, fed, bevy, entries, total, absorbed, queue, outcome>>
  BY DEF CreatePart, Filled, hashVars
<1>3. Part = Len(entries) /\ bevy = <<>>
  BY <1>2 DEF InHand, Between
<1>4. p.stream = <<>> /\ ~p.closed
  OBVIOUS
<1> HIDE DEF p
<1>5. /\ Part' = Part + 1 /\ parts'[Part + 1] = p
      /\ \A i \in 1..Part : parts'[i] = parts[i]
  <2>1. parts \in Seq(PartFiles) /\ Part = Len(parts) /\ Part' = Len(parts')
    BY DEF WriterTypes, Part
  <2>2. /\ Len(Append(parts, p)) = Len(parts) + 1
        /\ \A i \in 1..Len(parts) : Append(parts, p)[i] = parts[i]
        /\ Append(parts, p)[Len(parts) + 1] = p
    BY <1>1, <2>1, AppendProperties
  <2>3. QED BY <1>2, <2>1, <2>2
<1>6. QED BY <1>1, <1>2, <1>3, <1>4, <1>5

\* A part file marked closed is otherwise what it was.
Closing(i, b) == [parts EXCEPT ![i].closed = b]

\* Closing changes whether one file is closed and nothing else.
LEMMA CloseDoes ==
  ASSUME WriterTypes, NEW i \in 1..Part, NEW b, b \in BOOLEAN
  PROVE  /\ Closing(i, b) \in Seq(PartFiles) /\ Len(Closing(i, b)) = Part
         /\ \A j \in 1..Part : /\ Closing(i, b)[j].stream = parts[j].stream
                               /\ Closing(i, b)[j].closed = IF j = i THEN b ELSE parts[j].closed
<1> DEFINE now == Closing(i, b)
<1>1. parts \in [1..Part -> PartFiles] /\ Part \in Nat
  BY LenProperties DEF WriterTypes, Part
<1>2. \A p \in PartFiles : /\ [p EXCEPT !.closed = b] \in PartFiles
                           /\ [p EXCEPT !.closed = b].stream = p.stream
                           /\ [p EXCEPT !.closed = b].closed = b
  BY DEF PartFiles
<1>3. now = [parts EXCEPT ![i] = [parts[i] EXCEPT !.closed = b]]
  BY <1>1 DEF Closing
<1> HIDE DEF now
<1>4. now \in [1..Part -> PartFiles]
  BY <1>1, <1>2, <1>3
<1>5. now \in Seq(PartFiles) /\ Len(now) = Part
  BY <1>1, <1>4, IsASeq, LenProperties
<1>6. \A j \in 1..Part : now[j] = IF j = i THEN [parts[i] EXCEPT !.closed = b] ELSE parts[j]
  BY <1>1, <1>3
<1>7. ASSUME NEW j \in 1..Part
      PROVE  now[j].stream = parts[j].stream /\ now[j].closed = IF j = i THEN b ELSE parts[j].closed
  <2>1. parts[j] \in PartFiles
    BY <1>1
  <2>2. CASE j = i
    BY <1>2, <1>6, <2>1, <2>2, Zenon
  <2>3. CASE j # i
    BY <1>6, <2>3, Zenon
  <2>4. QED BY <2>2, <2>3
<1>8. QED BY <1>5, <1>7 DEF now

-----------------------------------------------------------------------------
(* Every step keeps the invariant, conjunct by conjunct *)

\* Every step leaves the writer's state of its types.
LEMMA TypesKept ==
  ASSUME WriterTypes, InHand, WriterMove PROVE WriterTypes'
<1>0. /\ chunk \in Seq(Unit) /\ given \in Seq(Unit) /\ bevy \in Seq(Unit)
      /\ fed \in 0..Workers /\ Workers \in Nat
      /\ absorbed \in [0..Workers -> Seq(Unit)] /\ queue \in [1..Workers -> Seq(Seq(Unit))]
      /\ parts \in Seq(PartFiles) /\ entries \in Seq(Entries) /\ total \in Nat
  BY MultiPartAssumption DEF WriterTypes
<1>1. CASE AnyAnswer
  <2>1. PICK units \in Seq(Unit) : Answer(units)
    BY <1>1 DEF AnyAnswer
  <2>2. given \o units \in Seq(Unit) /\ chunk \o units \in Seq(Unit)
    BY <1>0, ConcatProperties
  <2>3. at' \in {"create", "fill", "absorb"} /\ chunk' \in Seq(Unit) /\ given' \in Seq(Unit)
    BY <2>1, <2>2 DEF Answer, Filled
  <2>4. QED BY <2>1, <2>3 DEF WriterTypes, Answer, partVars, hashVars, Underway, Between
<1>2. CASE CreatePart
  <2>1. PICK p \in PartFiles : /\ parts' = Append(parts, p) /\ at' \in {"fill", "absorb"}
           /\ UNCHANGED <<given, chunk, fed, bevy, entries, total, absorbed, queue, outcome>>
    BY <1>2, CreateDoes
  <2>2. parts' \in Seq(PartFiles)
    BY <1>0, <2>1, AppendProperties
  <2>3. exhausted' \in BOOLEAN
    BY <1>2 DEF CreatePart
  <2>4. QED BY <2>1, <2>2, <2>3 DEF WriterTypes, Underway
<1>3. CASE Push
  <2>1. bevy \o chunk \in Seq(Unit)
    BY <1>0, ConcatProperties
  <2>2. at' \in {"flush", "fill"} /\ bevy' \in Seq(Unit) /\ chunk' \in Seq(Unit)
        /\ exhausted' \in BOOLEAN
    BY <1>3, <2>1 DEF Push
  <2>3. QED BY <1>3, <2>2 DEF WriterTypes, Push, partVars, hashVars, Underway
<1>4. CASE AnyFlush
  <2>1. PICK cost \in Nat : FlushBevy(cost)
    BY <1>4 DEF AnyFlush
  <2>2. PICK p \in PartFiles : /\ parts' = [parts EXCEPT ![Part] = p] /\ Part \in 1..Part
          /\ at' \in {"part", "fill"} /\ bevy' = <<>>
          /\ UNCHANGED <<given, chunk, fed, entries, total, exhausted, absorbed, queue, outcome>>
    BY <2>1, FlushDoes
  <2>3. parts' \in Seq(PartFiles)
    BY <1>0, <2>2, ExceptSeq DEF Part
  <2>4. at' \in Underway /\ bevy' \in Seq(Unit) /\ exhausted' \in BOOLEAN
    <3>1. at' \in Underway /\ exhausted' = exhausted /\ bevy' = <<>>
      BY <2>2 DEF Underway
    <3>2. bevy' \in Seq(Unit)
      BY <3>1
    <3>3. exhausted' \in BOOLEAN
      BY <3>1, Zenon DEF WriterTypes
    <3>4. QED BY <3>1, <3>2, <3>3
  <2>5. QED BY <2>2, <2>3, <2>4 DEF WriterTypes
<1>5. CASE EndPart
  <2>1. at = "part" /\ Part \in 1..Part /\ Len(parts[Part].stream) \in Nat
    BY <1>5, FlushedIs, Places DEF EndPart, InHand, Underway
  <2>2. [mapped |-> total, length |-> Len(parts[Part].stream)] \in Entries
        /\ total + Len(parts[Part].stream) \in Nat
    BY <1>0, <2>1 DEF Entries
  <2>3. entries' \in Seq(Entries) /\ total' \in Nat
    BY <1>0, <1>5, <2>2, AppendProperties DEF EndPart
  <2>4. parts' \in Seq(PartFiles)
    <3>1. parts' = Closing(Part, Part > 1)
      BY <1>5 DEF EndPart, Closing
    <3>2. (Part > 1) \in BOOLEAN
      OBVIOUS
    <3>3. QED BY <2>1, <3>1, <3>2, CloseDoes
  <2>5. at' \in {"digests", "stopped", "probe"} /\ outcome' \in {outcome, "too many"}
        /\ UNCHANGED <<given, chunk, fed, bevy, exhausted, absorbed, queue>>
    BY <1>5 DEF EndPart, Stop, hashVars
  <2>6. QED BY <2>3, <2>4, <2>5 DEF WriterTypes, Underway, Between
<1>6. CASE FinishFirstPart
  <2>1. Part \in Nat /\ Part >= 1
    BY <1>6, Places DEF FinishFirstPart, InHand
  <2>2. parts' \in Seq(PartFiles)
    <3>1. parts' = Closing(1, TRUE) /\ 1 \in 1..Part /\ TRUE \in BOOLEAN
      BY <1>6, <2>1 DEF FinishFirstPart, Closing
    <3>2. QED BY <3>1, CloseDoes
  <2>3. QED BY <1>6, <2>2 DEF WriterTypes, FinishFirstPart, Stop, hashVars
<1>7. CASE OtherStep
  <2>1. UNCHANGED <<given, chunk, bevy, parts, entries, total>>
    BY <1>7, OtherStepFrame
  <2>2. CASE Absorb
    <3>1. absorbed[0] \o chunk \in Seq(Unit)
      BY <1>0, ConcatProperties
    <3>2. absorbed' \in [0..Workers -> Seq(Unit)] /\ fed' \in 0..Workers
      BY <1>0, <2>2, <3>1 DEF Absorb
    <3>3. QED BY <2>1, <2>2, <3>2 DEF WriterTypes, Absorb, Underway
  <2>3. CASE Feed
    <3>1. fed + 1 \in 1..Workers
      BY <1>0, <2>3 DEF Feed
    <3>2. Append(queue[fed + 1], chunk) \in Seq(Seq(Unit))
      BY <1>0, <3>1, AppendProperties
    <3>3. queue' \in [1..Workers -> Seq(Seq(Unit))] /\ fed' \in 0..Workers
      BY <1>0, <2>3, <3>1, <3>2 DEF Feed
    <3>4. QED BY <2>1, <2>3, <3>3 DEF WriterTypes, Feed
  <2>4. CASE WorkerStep
    <3>1. PICK w \in 1..Workers : Work(w)
      BY <2>4 DEF WorkerStep
    <3>2. queue[w] \in Seq(Seq(Unit)) /\ queue[w] # <<>> /\ absorbed[w] \in Seq(Unit)
      BY <1>0, <3>1 DEF Work
    <3>3. Head(queue[w]) \in Seq(Unit) /\ Tail(queue[w]) \in Seq(Seq(Unit))
      BY <3>2, HeadTailProperties
    <3>4. absorbed[w] \o Head(queue[w]) \in Seq(Unit)
      BY <3>2, <3>3, ConcatProperties
    <3>5. absorbed' \in [0..Workers -> Seq(Unit)] /\ queue' \in [1..Workers -> Seq(Seq(Unit))]
      BY <1>0, <3>1, <3>3, <3>4 DEF Work
    <3>6. QED BY <2>1, <3>1, <3>5 DEF WriterTypes, Work
  <2>5. CASE AnyPreflight \/ AnswerEnd \/ NothingRead \/ CollectDigests \/ Fails
    <3>1. /\ at' \in {"stopped", "create", "digests", "absorb", "flush", "part", "map"}
          /\ outcome' \in {outcome, "refused", "failed"} /\ exhausted' \in {exhausted, TRUE}
          /\ UNCHANGED <<fed, absorbed, queue>>
      BY <2>5 DEF AnyPreflight, AnswerEnd, NothingRead, CollectDigests, Fails,
                  Stop, hashVars
    <3>2. QED BY <2>1, <3>1 DEF WriterTypes, Underway, Between
  <2>6. QED BY <1>7, <2>2, <2>3, <2>4, <2>5 DEF OtherStep
<1>8. QED BY <1>1, <1>2, <1>3, <1>4, <1>5, <1>6, <1>7 DEF WriterMove

\* What ending a part, and finishing the first, do to the parts.
LEMMA EndDoes ==
  ASSUME WriterTypes, InHand, EndPart
  PROVE  /\ at = "part" /\ Part \in 1..Part /\ Part = Len(entries) + 1
         /\ bevy = <<>> /\ chunk = <<>>
         /\ Part' = Part /\ parts' \in Seq(PartFiles)
         /\ \A j \in 1..Part : /\ parts'[j].stream = parts[j].stream
                               /\ parts'[j].closed = IF j = Part THEN Part > 1 ELSE parts[j].closed
         /\ total' = total + Len(parts[Part].stream) /\ total' \in Nat
         /\ entries' \in Seq(Entries) /\ Len(entries') = Len(entries) + 1
         /\ \A j \in 1..Len(entries) : entries'[j] = entries[j]
         /\ entries'[Part] = [mapped |-> total, length |-> Len(parts[Part].stream)]
         /\ UNCHANGED <<given, chunk, bevy>>
<1>1. at = "part" /\ Part \in 1..Part /\ Part = Len(entries) + 1 /\ bevy = <<>> /\ chunk = <<>>
  BY FlushedIs DEF EndPart, InHand, Underway
<1>2. Len(parts[Part].stream) \in Nat /\ total \in Nat
  BY <1>1, Places
<1>3. parts' = Closing(Part, Part > 1) /\ Part' = Len(parts')
  <2>1. parts' = Closing(Part, Part > 1)
    BY DEF EndPart, Closing
  <2>2. QED BY <2>1 DEF Part
<1>4. /\ Part' = Part /\ parts' \in Seq(PartFiles)
      /\ \A j \in 1..Part : /\ parts'[j].stream = parts[j].stream
                            /\ parts'[j].closed = IF j = Part THEN Part > 1 ELSE parts[j].closed
  <2> DEFINE later == Part > 1
  <2>1. later \in BOOLEAN
    OBVIOUS
  <2>2. parts' = Closing(Part, later)
    BY <1>3
  <2> HIDE DEF later
  <2>3. /\ Closing(Part, later) \in Seq(PartFiles) /\ Len(Closing(Part, later)) = Part
        /\ \A j \in 1..Part :
             /\ Closing(Part, later)[j].stream = parts[j].stream
             /\ Closing(Part, later)[j].closed = IF j = Part THEN later ELSE parts[j].closed
    BY <1>1, <2>1, CloseDoes
  <2>4. QED BY <1>3, <2>2, <2>3 DEF later
<1> DEFINE e == [mapped |-> total, length |-> Len(parts[Part].stream)]
<1>5. e \in Entries
  BY <1>2 DEF Entries
<1>6. entries' = Append(entries, e) /\ total' = total + Len(parts[Part].stream)
      /\ UNCHANGED <<given, chunk, bevy>>
  BY DEF EndPart
<1> HIDE DEF e
<1>7. /\ entries' \in Seq(Entries) /\ Len(entries') = Len(entries) + 1
      /\ \A j \in 1..Len(entries) : entries'[j] = entries[j]
      /\ entries'[Len(entries) + 1] = e
  <2>1. entries \in Seq(Entries)
    BY DEF WriterTypes
  <2>2. /\ Append(entries, e) \in Seq(Entries) /\ Len(Append(entries, e)) = Len(entries) + 1
        /\ \A j \in 1..Len(entries) : Append(entries, e)[j] = entries[j]
        /\ Append(entries, e)[Len(entries) + 1] = e
    BY <1>5, <2>1, AppendProperties
  <2>3. QED BY <1>6, <2>2
<1>8. total' \in Nat
  BY <1>2, <1>6
<1>9. QED BY <1>1, <1>4, <1>6, <1>7, <1>8 DEF e

\* What finishing the first part does.
LEMMA FinishDoes ==
  ASSUME WriterTypes, InHand, FinishFirstPart
  PROVE  /\ at = "map" /\ Part = Len(entries) /\ Part \in Nat /\ Part >= 1
         /\ bevy = <<>> /\ chunk = <<>> /\ Part' = Part
         /\ \A j \in 1..Part : /\ parts'[j].stream = parts[j].stream
                               /\ parts'[j].closed = IF j = 1 THEN TRUE ELSE parts[j].closed
         /\ at' = "stopped" /\ outcome' = "written"
         /\ UNCHANGED <<given, chunk, bevy, entries, total>>
<1>1. at = "map" /\ Part = Len(entries) /\ Part >= 1 /\ bevy = <<>> /\ chunk = <<>>
  BY DEF FinishFirstPart, InHand, Between
<1>2. Part \in Nat /\ 1 \in 1..Part
  BY <1>1, Places
<1>3. parts' = Closing(1, TRUE) /\ TRUE \in BOOLEAN /\ Part' = Len(parts')
  BY DEF FinishFirstPart, Closing, Part
<1>4. /\ Part' = Part
      /\ \A j \in 1..Part : /\ parts'[j].stream = parts[j].stream
                            /\ parts'[j].closed = IF j = 1 THEN TRUE ELSE parts[j].closed
  BY <1>2, <1>3, CloseDoes, Zenon
<1>5. QED BY <1>1, <1>2, <1>4 DEF FinishFirstPart, Stop

\* The steps that touch no part keep the number of parts and of entries.
LEMMA InHandKept ==
  ASSUME WriterTypes, InHand, WriterMove PROVE InHand'
<1>0. Part \in Nat /\ Len(entries) \in Nat
  BY Places
<1>1. CASE AnyAnswer
  <2>1. PICK units \in Seq(Unit) : Answer(units)
    BY <1>1 DEF AnyAnswer
  <2>2. at \in {"probe", "fill"} /\ at' \in {"create", "fill", "absorb"}
        /\ (at = "probe" <=> at' = "create")
        /\ UNCHANGED <<bevy, Part, Len(entries), total, outcome>>
    BY <2>1 DEF Answer, Asking, Filled, partVars, Part
  <2>3. QED BY <1>0, <2>2 DEF InHand, Underway, Between
<1>2. CASE CreatePart
  <2>1. /\ Part' = Part + 1 /\ Part = Len(entries) /\ at = "create" /\ at' \in {"fill", "absorb"}
        /\ UNCHANGED <<chunk, bevy, entries, total, outcome>>
    BY <1>2, CreateDoes
  <2>2. QED BY <1>0, <2>1 DEF InHand, Underway, Between
<1>3. CASE Push
  <2>1. /\ at = "feed" /\ at' \in {"flush", "fill"} /\ chunk' = <<>>
        /\ UNCHANGED <<Part, Len(entries), total, outcome>>
    BY <1>3 DEF Push, partVars, Part
  <2>2. QED BY <1>0, <2>1 DEF InHand, Underway, Between
<1>4. CASE AnyFlush
  <2>1. PICK cost \in Nat : FlushBevy(cost)
    BY <1>4 DEF AnyFlush
  <2>2. /\ Part \in 1..Part /\ at = "flush" /\ at' \in {"part", "fill"} /\ bevy' = <<>>
        /\ chunk = <<>> /\ UNCHANGED <<chunk, entries, total, outcome>>
    BY <2>1, FlushDoes
  <2>3. Part' = Part
    <3>1. PICK p \in PartFiles : parts' = [parts EXCEPT ![Part] = p]
      BY <2>1, FlushDoes
    <3>2. parts \in Seq(PartFiles) /\ Part = Len(parts) /\ Part' = Len(parts')
      BY DEF WriterTypes, Part
    <3>3. Len([parts EXCEPT ![Part] = p]) = Len(parts)
      BY <2>2, <3>2, ExceptSeq
    <3>4. QED BY <3>1, <3>2, <3>3
  <2>4. QED BY <1>0, <2>2, <2>3 DEF InHand, Underway, Between
<1>5. CASE EndPart
  <2>1. /\ at = "part" /\ Part = Len(entries) + 1 /\ bevy = <<>> /\ chunk = <<>>
        /\ Part' = Part /\ Len(entries') = Len(entries) + 1
        /\ UNCHANGED <<given, chunk, bevy>>
    BY <1>5, EndDoes
  <2>2. \/ at' \in {"digests", "probe"} /\ outcome' = outcome
        \/ at' = "stopped" /\ outcome' = "too many"
    BY <1>5 DEF EndPart, Stop
  <2>3. outcome = "running"
    BY <2>1 DEF InHand
  <2>4. Part' = Len(entries') /\ Part' >= 1 /\ Len(entries') # 0 /\ bevy' = <<>> /\ chunk' = <<>>
    BY <1>0, <2>1
  <2>5. QED BY <2>2, <2>3, <2>4 DEF InHand, Underway, Between
<1>6. CASE FinishFirstPart
  <2>1. /\ at' = "stopped" /\ outcome' = "written" /\ Part' = Part /\ Part = Len(entries)
        /\ Part >= 1 /\ bevy = <<>> /\ chunk = <<>> /\ UNCHANGED <<chunk, bevy, entries, total>>
    BY <1>6, FinishDoes
  <2>2. QED BY <1>0, <2>1 DEF InHand, Underway, Between
<1>7. CASE OtherStep
  <2>1. UNCHANGED <<chunk, bevy, Part, Len(entries), total>>
    BY <1>7, OtherStepFrame DEF Part
  <2>2. CASE AnyPreflight \/ AnswerEnd \/ NothingRead
    <3>1. \/ at = "preflight" /\ at' = "create" /\ outcome' = outcome
          \/ at = "preflight" /\ at' = "stopped" /\ outcome' = "refused"
          \/ at = "probe" /\ at' = "digests" /\ outcome' = outcome
          \/ at = "fill" /\ at' = "absorb" /\ outcome' = outcome
          \/ at = "absorb" /\ at' = "flush" /\ chunk = <<>> /\ outcome' = outcome
          \/ at = "absorb" /\ at' = "part" /\ chunk = <<>> /\ bevy = <<>> /\ outcome' = outcome
      BY <2>2 DEF AnyPreflight, AnswerEnd, NothingRead, Stop, Asking
    <3>2. QED BY <1>0, <2>1, <3>1 DEF InHand, Underway, Between
  <2>3. CASE Absorb \/ Feed \/ CollectDigests \/ Fails \/ WorkerStep
    <3>1. \/ at = "absorb" /\ at' = "feed" /\ outcome' = outcome
          \/ at' = at /\ outcome' = outcome
          \/ at = "digests" /\ at' = "map" /\ outcome' = outcome
          \/ /\ at \in {"create", "fill", "probe", "flush", "part", "map"}
             /\ at' = "stopped" /\ outcome' = "failed"
      BY <2>3 DEF Absorb, Feed, CollectDigests, Fails, WorkerStep, Work, Stop
    <3>2. QED BY <1>0, <2>1, <3>1 DEF InHand, Underway, Between
  <2>4. QED BY <1>7, <2>2, <2>3 DEF OtherStep
<1>8. QED BY <1>1, <1>2, <1>3, <1>4, <1>5, <1>6, <1>7 DEF WriterMove

\* No part after the first is begun, or ended, with nothing in it.
LEMMA NoEmptyPartKept ==
  ASSUME WriterTypes, InHand, NoEmptyPart, WriterMove PROVE NoEmptyPart'
<1>0. /\ Part \in Nat /\ Len(entries) \in Nat /\ Len(chunk) \in Nat /\ Len(bevy) \in Nat
      /\ chunk \in Seq(Unit) /\ bevy \in Seq(Unit)
      /\ \A i \in 1..Part : parts[i].stream \in Seq(Unit) /\ Len(parts[i].stream) \in Nat
      /\ Len(<<>>) = 0
  BY Places DEF WriterTypes
<1>1. CASE AnyAnswer
  <2>1. PICK units \in Seq(Unit) : units # <<>> /\ Answer(units)
    BY <1>1 DEF AnyAnswer
  <2>2. /\ at = "probe" => at' = "create" /\ chunk' = units
        /\ at # "probe" => at = "fill" /\ at' \in {"fill", "absorb"} /\ chunk' = chunk \o units
        /\ UNCHANGED <<parts, bevy, Part>>
    BY <2>1 DEF Answer, Asking, Filled, partVars, Part
  <2>3. Len(units) \in Nat /\ Len(units) > 0 /\ Len(chunk \o units) = Len(chunk) + Len(units)
    BY <1>0, <2>1, EmptySeq, ConcatProperties
  <2>4. CASE at = "probe"
    BY <2>1, <2>2, <2>4 DEF NoEmptyPart, Underway
  <2>5. CASE at # "probe"
    <3>1. Len(chunk') = Len(chunk) + Len(units) /\ Part \in Nat
      BY <1>0, <2>2, <2>3, <2>5
    <3>2. Part > 1 => Len(parts[Part].stream) \in Nat
      BY <1>0
    <3>3. Part > 1 => Len(parts[Part].stream) + Len(bevy) + Len(chunk') > 0
      <4>1. \A a, b, c, d \in Nat : d > 0 => a + b + (c + d) > 0
        OBVIOUS
      <4>2. QED BY <1>0, <2>3, <3>1, <3>2, <4>1
    <3>4. QED BY <2>2, <2>5, <3>3 DEF NoEmptyPart, Underway
  <2>6. QED BY <2>4, <2>5
<1>2. CASE CreatePart
  <2>1. PICK p \in PartFiles :
          /\ p.stream = <<>> /\ Part' = Part + 1 /\ parts'[Part + 1] = p
          /\ Part = Len(entries) /\ at = "create" /\ at' \in {"fill", "absorb"} /\ bevy = <<>>
          /\ UNCHANGED <<chunk, bevy>>
    BY <1>2, CreateDoes
  <2>2. Part' > 1 => Len(chunk') > 0
    BY <1>0, <2>1, EmptySeq DEF NoEmptyPart
  <2>3. Len(parts'[Part'].stream) = 0 /\ Len(bevy') = 0 /\ Len(chunk') \in Nat
    BY <1>0, <2>1
  <2>4. Part' > 1 => Len(parts'[Part'].stream) + Len(bevy') + Len(chunk') > 0
    BY <2>2, <2>3
  <2>5. QED BY <2>1, <2>4 DEF NoEmptyPart
<1>3. CASE Push
  <2>1. /\ at = "feed" /\ at' \in {"flush", "fill"} /\ chunk' = <<>> /\ bevy' = bevy \o chunk
        /\ UNCHANGED <<parts, Part>>
    BY <1>3 DEF Push, partVars, Part
  <2>2. Len(bevy') = Len(bevy) + Len(chunk) /\ Len(chunk') = 0
    BY <1>0, <2>1, ConcatProperties
  <2>3. Part > 1 => Len(parts[Part].stream) + Len(bevy) + Len(chunk) > 0
    BY <2>1 DEF NoEmptyPart, Underway
  <2>4. Part > 1 => Len(parts[Part].stream) \in Nat
    BY <1>0
  <2>5. Part' > 1 => Len(parts'[Part'].stream) + Len(bevy') + Len(chunk') > 0
    <3>1. \A a, b, c \in Nat : a + b + c > 0 => a + (b + c) + 0 > 0
      OBVIOUS
    <3>2. parts'[Part'].stream = parts[Part].stream /\ Part' = Part
      BY <2>1
    <3>3. QED BY <1>0, <2>2, <2>3, <2>4, <3>1, <3>2
  <2>6. QED BY <2>1, <2>5 DEF NoEmptyPart
<1>4. CASE AnyFlush
  <2>1. PICK cost \in Nat : FlushBevy(cost)
    BY <1>4 DEF AnyFlush
  <2>2. PICK p \in PartFiles :
          /\ p.stream = parts[Part].stream \o bevy /\ parts' = [parts EXCEPT ![Part] = p]
          /\ Part \in 1..Part /\ at = "flush" /\ at' \in {"part", "fill"} /\ bevy' = <<>>
          /\ chunk = <<>> /\ UNCHANGED chunk
    BY <2>1, FlushDoes
  <2>3. Part' = Part /\ parts'[Part] = p
    <3>1. parts \in Seq(PartFiles) /\ Part = Len(parts) /\ Part' = Len(parts')
      BY DEF WriterTypes, Part
    <3>2. Len([parts EXCEPT ![Part] = p]) = Len(parts) /\ [parts EXCEPT ![Part] = p][Part] = p
      BY <2>2, <3>1, ExceptSeq
    <3>3. QED BY <2>2, <3>1, <3>2
  <2>4. Len(p.stream) = Len(parts[Part].stream) + Len(bevy)
    BY <1>0, <2>2, ConcatProperties
  <2>5. Part > 1 => Len(parts[Part].stream) + Len(bevy) + Len(chunk) > 0
    BY <2>2 DEF NoEmptyPart, Underway
  <2>6. parts'[Part'].stream = p.stream /\ Len(bevy') = 0 /\ Len(chunk') = 0 /\ Len(chunk) = 0
    BY <1>0, <2>2, <2>3
  <2>7. Len(parts[Part].stream) \in Nat
    BY <1>0, <2>2
  <2>8. Part' > 1 => Len(p.stream) + Len(bevy') + Len(chunk') > 0
    BY <1>0, <2>3, <2>4, <2>5, <2>6, <2>7
  <2>9. QED BY <2>2, <2>6, <2>8 DEF NoEmptyPart
<1>5. CASE EndPart
  <2>1. at' \in {"digests", "probe", "stopped"}
    BY <1>5 DEF EndPart, Stop
  <2>2. QED BY <2>1 DEF NoEmptyPart, Underway
<1>6. CASE FinishFirstPart
  BY <1>6, FinishDoes DEF NoEmptyPart, Underway
<1>7. CASE OtherStep
  <2>1. UNCHANGED <<parts, chunk, bevy, Part>>
    BY <1>7, OtherStepFrame DEF Part
  <2>2. \/ at' \notin Underway \cup {"create"}
        \/ at' = "create" /\ at = "preflight"
        \/ at' \in Underway /\ at \in Underway
        \/ at' = at
    BY <1>7 DEF OtherStep, AnyPreflight, AnswerEnd, NothingRead, Stop, Asking,
                Absorb, Feed, CollectDigests, Fails, WorkerStep, Work, Underway
  <2>3. at' = "create" /\ at = "preflight" => Part = 0
    BY DEF InHand
  <2>4. QED BY <1>0, <2>1, <2>2, <2>3 DEF NoEmptyPart, Underway
<1>8. QED BY <1>1, <1>2, <1>3, <1>4, <1>5, <1>6, <1>7 DEF WriterMove

\* What the tiling says of the next state.
LEMMA TilesNext ==
  PartsTileTheImage' <=>
    /\ \A i \in 1..Len(entries') :
         /\ entries'[i].length = Len(parts'[i].stream)
         /\ entries'[i].mapped = IF i = 1 THEN 0 ELSE entries'[i - 1].mapped + entries'[i - 1].length
         /\ i = Len(entries') => total' = entries'[i].mapped + entries'[i].length
    /\ \A i \in 1..Part' : InOrder(parts'[i].stream, Base(i)', given')
    /\ InOrder(bevy', Flushed', given') /\ InOrder(chunk', Flushed' + Len(bevy'), given')
    /\ Flushed' + Len(bevy') + Len(chunk') = Len(given')
  BY DEF PartsTileTheImage, IsGiven, InOrder

\* A step that writes to no part leaves the parts where they stand.
LEMMA TilesStand ==
  ASSUME WriterTypes, Part \in {Len(entries), Len(entries) + 1}, PartsTileTheImage,
         UNCHANGED <<given, chunk, bevy, entries, total, Part>>,
         \A j \in 1..Part : parts'[j].stream = parts[j].stream
  PROVE  PartsTileTheImage'
<1>1. Part \in Nat /\ Len(entries) \in Nat
  BY Places
<1>2. \A i \in 1..Part : Base(i)' = Base(i)
  BY DEF Base
<1>3. Flushed' = Flushed
  <2>1. CASE Part > Len(entries)
    <3>1. Part \in 1..Part
      BY <1>1, <2>1
    <3>2. QED BY <2>1, <3>1 DEF Flushed
  <2>2. CASE ~(Part > Len(entries))
    BY <2>2 DEF Flushed
  <2>3. QED BY <2>1, <2>2
<1>4. 1..Len(entries) \subseteq 1..Part
  BY <1>1
<1>5. QED BY <1>2, <1>3, <1>4, TilesInOrder, TilesNext

\* What the source returns, what the builder takes and what a part takes follow
\* one another; a part begins where the ones before it ended.
LEMMA TilesKept ==
  ASSUME WriterTypes, InHand, PartsTileTheImage, WriterMove PROVE PartsTileTheImage'
<1>0. /\ Part \in Nat /\ Len(entries) \in Nat /\ Len(chunk) \in Nat /\ Len(bevy) \in Nat
      /\ Len(given) \in Nat /\ Flushed \in Nat /\ total \in Nat
      /\ chunk \in Seq(Unit) /\ bevy \in Seq(Unit) /\ given \in Seq(Unit)
      /\ \A i \in 1..Part : /\ parts[i].stream \in Seq(Unit) /\ Len(parts[i].stream) \in Nat
                            /\ Base(i) \in Nat
      /\ Len(<<>>) = 0
  BY Places, FlushedIs DEF WriterTypes
<1>00. /\ \A i \in 1..Part : InOrder(parts[i].stream, Base(i), given)
       /\ InOrder(bevy, Flushed, given) /\ InOrder(chunk, Flushed + Len(bevy), given)
       /\ Flushed + Len(bevy) + Len(chunk) = Len(given)
       /\ \A i \in 1..Len(entries) :
         /\ entries[i].length = Len(parts[i].stream)
         /\ entries[i].mapped = IF i = 1 THEN 0 ELSE entries[i - 1].mapped + entries[i - 1].length
         /\ i = Len(entries) => total = entries[i].mapped + entries[i].length
  BY TilesInOrder
<1>1. CASE AnyAnswer
  <2>1. PICK units \in Seq(Unit) : units # <<>> /\ Answer(units)
    BY <1>1 DEF AnyAnswer
  <2>2. /\ given' = given \o units /\ at \in {"probe", "fill"}
        /\ chunk' = IF at = "probe" THEN units ELSE chunk \o units
        /\ UNCHANGED <<parts, entries, total, bevy>>
    BY <2>1 DEF Answer, Asking, partVars
  <2>3. at = "probe" => chunk = <<>>
    BY DEF InHand
  <2>4. /\ given' \in Seq(Unit) /\ Len(given') = Len(given) + Len(units)
        /\ InOrder(units, Len(given), given')
        /\ \A s \in Seq(Unit), from \in Nat : InOrder(s, from, given) => InOrder(s, from, given')
    BY <1>0, <2>2, InOrderGrows
  <2>5. Flushed + Len(bevy) \in Nat /\ (Flushed + Len(bevy)) + Len(chunk) = Len(given)
        /\ Len(units) \in Nat
    BY <1>0, <1>00, LenProperties
  <2>6. InOrder(chunk, Flushed + Len(bevy), given')
    BY <1>0, <1>00, <2>4, <2>5
  <2>7. InOrder(chunk', Flushed + Len(bevy), given') /\ Len(chunk') = Len(chunk) + Len(units)
    <3>1. CASE at = "probe"
      <4>1. Flushed + Len(bevy) = Len(given) /\ Len(chunk) = 0 /\ chunk' = units
        BY <1>0, <2>2, <2>3, <2>5, <3>1
      <4>2. QED BY <2>4, <2>5, <4>1
    <3>2. CASE at # "probe"
      <4>1. InOrder(units, (Flushed + Len(bevy)) + Len(chunk), given')
        BY <2>4, <2>5
      <4>2. chunk' = chunk \o units
        BY <2>2, <3>2
      <4> DEFINE from == Flushed + Len(bevy)
      <4>3. from \in Nat /\ InOrder(chunk, from, given') /\ InOrder(units, from + Len(chunk), given')
        BY <2>5, <2>6, <4>1
      <4> HIDE DEF from
      <4>4. InOrder(chunk \o units, from, given') /\ Len(chunk \o units) = Len(chunk) + Len(units)
        BY <1>0, <2>4, <4>3, InOrderJoins
      <4>5. QED BY <4>2, <4>4 DEF from
    <3>3. QED BY <3>1, <3>2
  <2>8. Flushed' = Flushed /\ Part' = Part /\ \A i \in 1..Part : Base(i)' = Base(i)
    BY <2>2 DEF Flushed, Part, Base
  <2>9. Flushed + Len(bevy) + Len(chunk') = Len(given')
    <3> DEFINE f == Flushed
               b == Len(bevy)
               c == Len(chunk)
               g == Len(given)
               u == Len(units)
    <3>1. f \in Nat /\ b \in Nat /\ c \in Nat /\ g \in Nat /\ u \in Nat /\ (f + b) + c = g
      BY <1>0, <2>5
    <3>2. Len(chunk') = c + u /\ Len(given') = g + u
      BY <2>4, <2>7
    <3> HIDE DEF f, b, c, g, u
    <3>3. (f + b) + (c + u) = g + u
      BY <3>1
    <3>4. QED BY <3>2, <3>3 DEF f, b
  <2>10. InOrder(bevy, Flushed, given')
         /\ \A i \in 1..Part : InOrder(parts[i].stream, Base(i), given')
    BY <1>0, <1>00, <2>4
  <2>11. QED BY <1>00, <2>2, <2>7, <2>8, <2>9, <2>10, TilesNext
<1>2. CASE CreatePart
  <2>1. PICK p \in PartFiles :
           /\ p.stream = <<>> /\ Part' = Part + 1
           /\ \A i \in 1..Part : parts'[i] = parts[i]
           /\ parts'[Part + 1] = p /\ Part = Len(entries) /\ bevy = <<>>
           /\ UNCHANGED <<given, chunk, bevy, entries, total>>
    BY <1>2, CreateDoes
  <2>2. Flushed = total
    BY <2>1, FlushedIs
  <2>3. Flushed' = total
    <3>1. Flushed' = total + Len(parts'[Part'].stream)
      BY <1>0, <2>1 DEF Flushed
    <3>2. parts'[Part'].stream = <<>>
      BY <2>1
    <3>3. total + Len(<<>>) = total
      BY <1>0
    <3>4. QED BY <3>1, <3>2, <3>3
  <2>5. total \in 0..Len(given) /\ total + Len(bevy) + Len(chunk) = Len(given)
    BY <1>0, <1>00, <2>2
  <2>6. InOrder(<<>>, total, given)
    BY <1>0, <2>5, InOrderNothing
  <2>7. ASSUME NEW i \in 1..Part' PROVE InOrder(parts'[i].stream, Base(i)', given')
    <3>1. CASE i = Part + 1
      <4>1. Base(i)' = total
        BY <1>0, <2>1, <3>1 DEF Base
      <4>2. parts'[i].stream = <<>>
        BY <2>1, <3>1
      <4>3. QED BY <2>1, <2>6, <4>1, <4>2
    <3>2. CASE i # Part + 1
      <4>1. i \in 1..Part
        BY <1>0, <2>1, <3>2
      <4>2. Base(i)' = Base(i)
        BY <2>1 DEF Base
      <4>3. QED BY <1>00, <2>1, <4>1, <4>2
    <3>3. QED BY <3>1, <3>2
  <2>8. \A i \in 1..Len(entries) : parts'[i] = parts[i]
    BY <2>1
  <2>9. QED BY <1>00, <2>1, <2>2, <2>3, <2>5, <2>7, <2>8, TilesNext
<1>3. CASE Push
  <2>1. /\ bevy' = bevy \o chunk /\ chunk' = <<>>
        /\ UNCHANGED <<given, parts, entries, total>>
    BY <1>3 DEF Push, partVars
  <2>2. Len(bevy') = Len(bevy) + Len(chunk) /\ InOrder(bevy', Flushed, given)
    BY <1>0, <1>00, <2>1, InOrderJoins
  <2>3. Flushed' = Flushed /\ Part' = Part /\ \A i \in 1..Part : Base(i)' = Base(i)
    BY <2>1 DEF Flushed, Part, Base
  <2>4. Flushed + Len(bevy') + Len(chunk') = Len(given) /\ Flushed + Len(bevy') = Len(given)
        /\ Len(given) \in 0..Len(given)
    BY <1>0, <1>00, <2>1, <2>2
  <2>5. InOrder(chunk', Flushed + Len(bevy'), given)
    BY <1>0, <2>1, <2>4, InOrderNothing
  <2>6. QED BY <1>00, <2>1, <2>2, <2>3, <2>4, <2>5, TilesNext
<1>4. CASE AnyFlush
  <2>1. PICK cost \in Nat : FlushBevy(cost)
    BY <1>4 DEF AnyFlush
  <2>2. PICK p \in PartFiles :
          /\ p.stream = parts[Part].stream \o bevy /\ parts' = [parts EXCEPT ![Part] = p]
          /\ Part \in 1..Part /\ Part = Len(entries) + 1 /\ bevy' = <<>> /\ chunk = <<>>
          /\ UNCHANGED <<given, chunk, entries, total>>
    BY <2>1, FlushDoes
  <2>3. Part' = Part /\ parts'[Part] = p /\ \A i \in 1..Part : i # Part => parts'[i] = parts[i]
    <3>1. parts \in Seq(PartFiles) /\ Part = Len(parts) /\ Part' = Len(parts')
      BY DEF WriterTypes, Part
    <3>2. /\ Len([parts EXCEPT ![Part] = p]) = Len(parts)
          /\ \A j \in 1..Len(parts) : [parts EXCEPT ![Part] = p][j] = IF j = Part THEN p ELSE parts[j]
      BY <2>2, <3>1, ExceptSeq
    <3>3. QED BY <2>2, <3>1, <3>2
  <2>4. Flushed = total + Len(parts[Part].stream) /\ Base(Part) = total
    BY <2>2, FlushedIs
  <2>5. Len(p.stream) = Len(parts[Part].stream) + Len(bevy) /\ InOrder(p.stream, total, given)
    <3>1. InOrder(parts[Part].stream, total, given) /\ parts[Part].stream \in Seq(Unit)
          /\ InOrder(bevy, total + Len(parts[Part].stream), given)
      BY <1>0, <1>00, <2>2, <2>4
    <3>2. QED BY <1>0, <2>2, <3>1, InOrderJoins
  <2>6. Flushed' = total + Len(p.stream)
    <3>1. Part > Len(entries)
      BY <1>0, <2>2
    <3>2. QED BY <2>2, <2>3, <3>1 DEF Flushed
  <2>7. Flushed' + Len(bevy') + Len(chunk') = Len(given) /\ Flushed' + Len(bevy') = Len(given)
        /\ Flushed' = Len(given)
    <3>1. \A a, b, c, d \in Nat : (a + b) + c + d = a + (b + c) + d
      OBVIOUS
    <3>2. Len(parts[Part].stream) \in Nat /\ Len(bevy') = 0 /\ Len(chunk') = 0 /\ Len(chunk) = 0
      BY <1>0, <2>2
    <3>3. QED BY <1>0, <1>00, <2>4, <2>5, <2>6, <3>1, <3>2
  <2>8. InOrder(bevy', Flushed', given) /\ InOrder(chunk', Flushed' + Len(bevy'), given)
    <3>1. Len(given) \in 0..Len(given)
      BY <1>0
    <3>2. QED BY <1>0, <2>2, <2>7, <3>1, InOrderNothing
  <2>9. ASSUME NEW i \in 1..Part' PROVE InOrder(parts'[i].stream, Base(i)', given')
    <3>1. Base(i)' = Base(i)
      BY <2>2 DEF Base
    <3>2. CASE i = Part
      <4>1. Base(i)' = total /\ parts'[i] = p
        BY <2>3, <2>4, <3>1, <3>2
      <4>2. QED BY <2>2, <2>5, <4>1
    <3>3. CASE i # Part
      BY <1>00, <2>2, <2>3, <3>1, <3>3
    <3>4. QED BY <3>2, <3>3
  <2>10. \A i \in 1..Len(entries) : parts'[i] = parts[i]
    BY <1>0, <2>2, <2>3
  <2>11. QED BY <1>00, <2>2, <2>7, <2>8, <2>9, <2>10, TilesNext
<1>5. CASE EndPart
  <2>1. /\ Part \in 1..Part /\ Part = Len(entries) + 1
        /\ bevy = <<>> /\ chunk = <<>> /\ Part' = Part
        /\ \A j \in 1..Part : parts'[j].stream = parts[j].stream
        /\ total' = total + Len(parts[Part].stream) /\ total' \in Nat
        /\ Len(entries') = Len(entries) + 1
        /\ \A j \in 1..Len(entries) : entries'[j] = entries[j]
        /\ entries'[Part] = [mapped |-> total, length |-> Len(parts[Part].stream)]
        /\ UNCHANGED <<given, chunk, bevy>>
    BY <1>5, EndDoes
  <2>2. Flushed = total + Len(parts[Part].stream) /\ Base(Part) = total
    BY <2>1, FlushedIs
  <2>3. Flushed' = Flushed
    <3>1. ~(Part' > Len(entries'))
      BY <1>0, <2>1
    <3>2. Flushed' = total'
      BY <3>1 DEF Flushed
    <3>3. QED BY <2>1, <2>2, <3>2
  <2>4. ASSUME NEW i \in 1..Part' PROVE InOrder(parts'[i].stream, Base(i)', given')
    <3>1. Base(i)' = entries'[i].mapped
      BY <1>0, <2>1 DEF Base
    <3>2. CASE i = Part
      <4>1. Base(i)' = Base(i)
        BY <2>1, <2>2, <3>1, <3>2
      <4>2. QED BY <1>00, <2>1, <4>1
    <3>3. CASE i # Part
      <4>1. i \in 1..Len(entries) /\ i <= Len(entries)
        BY <1>0, <2>1, <3>3
      <4>2. Base(i)' = Base(i)
        BY <2>1, <3>1, <4>1 DEF Base
      <4>3. QED BY <1>00, <2>1, <4>2
    <3>4. QED BY <3>2, <3>3
  <2>5. ASSUME NEW i \in 1..Len(entries')
        PROVE  /\ entries'[i].length = Len(parts'[i].stream)
               /\ entries'[i].mapped =
                    IF i = 1 THEN 0 ELSE entries'[i - 1].mapped + entries'[i - 1].length
               /\ i = Len(entries') => total' = entries'[i].mapped + entries'[i].length
    <3>1. CASE i = Part
      <4>1. entries'[i].mapped = total /\ entries'[i].length = Len(parts[Part].stream)
        BY <2>1, <3>1
      <4>2. CASE i = 1
        <5>1. total = 0
          BY <1>0, <2>1, <3>1, <4>2 DEF InHand
        <5>2. QED BY <2>1, <3>1, <4>1, <4>2, <5>1
      <4>3. CASE i # 1
        <5>1. i - 1 \in 1..Len(entries) /\ i - 1 = Len(entries)
          BY <1>0, <2>1, <3>1, <4>3
        <5>2. entries'[i - 1] = entries[i - 1]
              /\ total = entries[i - 1].mapped + entries[i - 1].length
          BY <1>00, <2>1, <5>1
        <5>3. QED BY <2>1, <3>1, <4>1, <4>3, <5>2
      <4>4. QED BY <4>2, <4>3
    <3>2. CASE i # Part
      <4>1. i \in 1..Len(entries) /\ i # Len(entries') /\ i \in 1..Part
            /\ (i # 1 => i - 1 \in 1..Len(entries))
        BY <1>0, <2>1, <3>2
      <4>2. entries'[i] = entries[i] /\ (i # 1 => entries'[i - 1] = entries[i - 1])
            /\ parts'[i].stream = parts[i].stream
        BY <2>1, <4>1
      <4>3. QED BY <1>00, <4>1, <4>2
    <3>3. QED BY <3>1, <3>2
  <2>6. QED BY <1>00, <2>1, <2>3, <2>4, <2>5, TilesNext
<1>6. CASE FinishFirstPart
  BY <1>0, <1>6, FinishDoes, TilesStand
<1>7. CASE OtherStep
  <2>1. UNCHANGED <<given, chunk, bevy, parts, entries, total, Part>>
    BY <1>7, OtherStepFrame DEF Part
  <2>2. QED BY <2>1 DEF PartsTileTheImage, IsGiven, Base, Flushed, Part
<1>8. QED BY <1>1, <1>2, <1>3, <1>4, <1>5, <1>6, <1>7 DEF WriterMove

\* A part after the first is closed before its successor is begun, and holds
\* units; the first is closed last.
LEMMA ClosedKept ==
  ASSUME WriterTypes, InHand, NoEmptyPart, NoPartIsLeftOpen, WriterMove
  PROVE  NoPartIsLeftOpen'
<1>0. Part \in Nat /\ Len(entries) \in Nat
  BY Places
<1>1. CASE AnyAnswer \/ Push \/ OtherStep
  <2>1. UNCHANGED <<parts, entries, Part>>
    BY <1>1, OtherStepFrame DEF AnyAnswer, Answer, Push, partVars, Part
  <2>2. outcome' = "written" => outcome = "written"
    BY <1>1 DEF AnyAnswer, Answer, Push, OtherStep, AnyPreflight, AnswerEnd,
                NothingRead, Absorb, Feed, CollectDigests, Fails, WorkerStep, Work, Stop
  <2>3. QED BY <2>1, <2>2 DEF NoPartIsLeftOpen
<1>2. CASE CreatePart
  <2>1. /\ Part' = Part + 1 /\ \A i \in 1..Part : parts'[i] = parts[i]
        /\ Part = Len(entries) /\ at = "create" /\ UNCHANGED <<entries, outcome>>
    BY <1>2, CreateDoes
  <2>2. outcome # "written"
    BY <2>1 DEF InHand
  <2>3. \A i \in 2..Part : parts[i].closed
    BY <1>0, <2>1 DEF NoPartIsLeftOpen
  <2>4. ASSUME NEW i \in 2..Part' PROVE parts'[i].closed \/ (i = Part' /\ i > Len(entries'))
    <3>1. CASE i \in 2..Part
      <4>1. parts'[i] = parts[i]
        BY <1>0, <2>1, <3>1
      <4>2. QED BY <2>3, <3>1, <4>1
    <3>2. CASE i \notin 2..Part
      BY <1>0, <2>1, <3>2
    <3>3. QED BY <3>1, <3>2
  <2>5. QED BY <2>1, <2>2, <2>4 DEF NoPartIsLeftOpen
<1>3. CASE AnyFlush
  <2>1. PICK cost \in Nat : FlushBevy(cost)
    BY <1>3 DEF AnyFlush
  <2>2. PICK p \in PartFiles :
          /\ p.closed = parts[Part].closed /\ parts' = [parts EXCEPT ![Part] = p]
          /\ Part \in 1..Part /\ Part = Len(entries) + 1 /\ at = "flush"
          /\ UNCHANGED <<entries, outcome>>
    BY <2>1, FlushDoes
  <2>3. Part' = Part /\ \A i \in 1..Part : parts'[i] = IF i = Part THEN p ELSE parts[i]
    <3>1. parts \in Seq(PartFiles) /\ Part = Len(parts) /\ Part' = Len(parts')
      BY DEF WriterTypes, Part
    <3>2. /\ Len([parts EXCEPT ![Part] = p]) = Len(parts)
          /\ \A j \in 1..Len(parts) : [parts EXCEPT ![Part] = p][j] = IF j = Part THEN p ELSE parts[j]
      BY <2>2, <3>1, ExceptSeq
    <3>3. QED BY <2>2, <3>1, <3>2
  <2>4. outcome # "written"
    BY <2>2 DEF InHand
  <2>5. ASSUME NEW i \in 2..Part' PROVE parts'[i].closed \/ (i = Part' /\ i > Len(entries'))
    <3>1. CASE i = Part
      BY <1>0, <2>2, <2>3, <3>1
    <3>2. CASE i # Part
      <4>1. parts'[i] = parts[i] /\ i \in 2..Part
        BY <1>0, <2>3, <3>2
      <4>2. parts[i].closed
        BY <3>2, <4>1 DEF NoPartIsLeftOpen
      <4>3. QED BY <4>1, <4>2
    <3>3. QED BY <3>1, <3>2
  <2>6. QED BY <2>2, <2>4, <2>5 DEF NoPartIsLeftOpen
<1>4. CASE EndPart
  <2>1. /\ at = "part" /\ Part \in 1..Part /\ Part = Len(entries) + 1 /\ Part' = Part
        /\ bevy = <<>> /\ chunk = <<>>
        /\ \A j \in 1..Part : parts'[j].closed = IF j = Part THEN Part > 1 ELSE parts[j].closed
        /\ Len(entries') = Len(entries) + 1
        /\ \A j \in 1..Len(entries) : entries'[j] = entries[j]
        /\ entries'[Part] = [mapped |-> total, length |-> Len(parts[Part].stream)]
    BY <1>4, EndDoes
  <2>2. outcome' # "written"
    BY <1>4, <2>1 DEF EndPart, Stop, InHand
  <2>3. ASSUME NEW i \in 2..Part' PROVE parts'[i].closed
    <3>1. i \in 2..Part /\ i \in 1..Part
      BY <1>0, <2>1
    <3>2. CASE i = Part
      <4>1. Part > 1
        BY <1>0, <3>1, <3>2
      <4>2. QED BY <2>1, <3>1, <3>2, <4>1
    <3>3. CASE i # Part
      <4>1. parts[i].closed
        BY <3>1, <3>3 DEF NoPartIsLeftOpen
      <4>2. QED BY <2>1, <3>1, <3>3, <4>1
    <3>4. QED BY <3>2, <3>3
  <2>4. ASSUME NEW i \in 2..Len(entries') PROVE entries'[i].length > 0
    <3>1. CASE i = Part
      <4>1. Part > 1 /\ Len(parts[Part].stream) \in Nat /\ Len(<<>>) = 0
        BY <1>0, <2>1, <3>1, Places
      <4>2. Len(parts[Part].stream) + Len(bevy) + Len(chunk) > 0
        BY <2>1, <4>1 DEF NoEmptyPart, Underway
      <4>3. Len(parts[Part].stream) > 0
        BY <2>1, <4>1, <4>2
      <4>4. QED BY <2>1, <3>1, <4>3
    <3>2. CASE i # Part
      <4>1. i \in 2..Len(entries) /\ i \in 1..Len(entries)
        BY <1>0, <2>1, <3>2
      <4>2. QED BY <2>1, <4>1 DEF NoPartIsLeftOpen
    <3>3. QED BY <3>1, <3>2
  <2>5. QED BY <2>2, <2>3, <2>4 DEF NoPartIsLeftOpen
<1>5. CASE FinishFirstPart
  <2>1. /\ Part = Len(entries) /\ Part' = Part /\ UNCHANGED entries
        /\ \A j \in 1..Part : parts'[j].closed = IF j = 1 THEN TRUE ELSE parts[j].closed
    BY <1>5, FinishDoes
  <2>2. ASSUME NEW i \in 1..Part PROVE parts'[i].closed
    <3>1. CASE i = 1
      BY <2>1, <3>1
    <3>2. CASE i # 1
      <4>1. i \in 2..Part /\ ~(i > Len(entries))
        BY <1>0, <2>1, <3>2
      <4>2. parts[i].closed
        BY <4>1 DEF NoPartIsLeftOpen
      <4>3. QED BY <2>1, <3>2, <4>2
    <3>3. QED BY <3>1, <3>2
  <2>3. \A i \in 2..Part' : parts'[i].closed
    BY <1>0, <2>1, <2>2
  <2>4. QED BY <2>1, <2>2, <2>3 DEF NoPartIsLeftOpen
<1>6. QED BY <1>1, <1>2, <1>3, <1>4, <1>5 DEF WriterMove

-----------------------------------------------------------------------------
(* The digests *)

\* Nothing is on its way where as much is absorbed as was sent.
LEMMA FollowsNothing ==
  ASSUME NEW whole, NEW from \in Nat PROVE Follows(<<>>, from, from, whole)
<1> DEFINE start == [k \in 1..(Len(<<>>) + 1) |-> from]
<1>1. start \in [1..(Len(<<>>) + 1) -> Nat] /\ start[1] = from /\ start[Len(<<>>) + 1] = from
      /\ 1..Len(<<>>) = {}
  OBVIOUS
<1> HIDE DEF start
<1>2. QED BY <1>1 DEF Follows

\* With nothing on its way, as much is absorbed as was sent.
LEMMA FollowsToNothing ==
  ASSUME NEW whole, NEW from, NEW upto, Follows(<<>>, from, upto, whole)
  PROVE  from = upto
<1>1. Len(<<>>) + 1 = 1
  OBVIOUS
<1>2. QED BY <1>1 DEF Follows

\* What is on its way stays in order when the image grows.
LEMMA FollowsGrows ==
  ASSUME NEW slices \in Seq(Seq(Unit)), NEW from \in Nat, NEW upto \in Nat,
         NEW whole \in Seq(Unit), NEW more \in Seq(Unit), Follows(slices, from, upto, whole)
  PROVE  Follows(slices, from, upto, whole \o more)
<1>1. PICK start \in [1..(Len(slices) + 1) -> Nat] :
        /\ start[1] = from /\ start[Len(slices) + 1] = upto
        /\ \A k \in 1..Len(slices) : /\ InOrder(slices[k], start[k], whole)
                                     /\ start[k + 1] = start[k] + Len(slices[k])
  BY DEF Follows
<1>2. ASSUME NEW k \in 1..Len(slices) PROVE InOrder(slices[k], start[k], whole \o more)
  <2>1. slices[k] \in Seq(Unit) /\ start[k] \in Nat
    <3>1. Len(slices) \in Nat /\ k \in 1..(Len(slices) + 1)
      BY LenProperties
    <3>2. slices[k] \in Seq(Unit)
      BY ElementOfSeq
    <3>3. QED BY <1>1, <3>1, <3>2
  <2>2. QED BY <1>1, <2>1, InOrderGrows
<1>3. QED BY <1>1, <1>2 DEF Follows

\* A slice sent that stands where the ones sent before it end.
LEMMA FollowsSent ==
  ASSUME NEW slices \in Seq(Seq(Unit)), NEW from \in Nat, NEW upto \in Nat,
         NEW whole, NEW slice \in Seq(Unit),
         Follows(slices, from, upto, whole), InOrder(slice, upto, whole)
  PROVE  Follows(Append(slices, slice), from, upto + Len(slice), whole)
<1>1. PICK start \in [1..(Len(slices) + 1) -> Nat] :
        /\ start[1] = from /\ start[Len(slices) + 1] = upto
        /\ \A k \in 1..Len(slices) : /\ InOrder(slices[k], start[k], whole)
                                     /\ start[k + 1] = start[k] + Len(slices[k])
  BY DEF Follows
<1>2. Len(slices) \in Nat /\ Len(slice) \in Nat
  BY LenProperties
<1>3. /\ Len(Append(slices, slice)) = Len(slices) + 1
      /\ \A k \in 1..Len(slices) : Append(slices, slice)[k] = slices[k]
      /\ Append(slices, slice)[Len(slices) + 1] = slice
  BY AppendProperties
<1> DEFINE next == [k \in 1..(Len(slices) + 2) |->
                      IF k <= Len(slices) + 1 THEN start[k] ELSE upto + Len(slice)]
<1>4. /\ next \in [1..(Len(Append(slices, slice)) + 1) -> Nat]
      /\ \A k \in 1..Len(slices) + 1 : next[k] = start[k]
      /\ next[Len(slices) + 2] = upto + Len(slice)
  <2>1. ASSUME NEW k \in 1..(Len(slices) + 2)
        PROVE  (IF k <= Len(slices) + 1 THEN start[k] ELSE upto + Len(slice)) \in Nat
    <3>1. k <= Len(slices) + 1 => k \in 1..(Len(slices) + 1)
      BY <1>2
    <3>2. k <= Len(slices) + 1 => start[k] \in Nat
      BY <3>1
    <3>3. upto + Len(slice) \in Nat
      BY <1>2
    <3>4. QED BY <3>2, <3>3
  <2>2. (Len(slices) + 1) + 1 = Len(slices) + 2
    BY <1>2
  <2>3. \A k \in 1..Len(slices) + 1 : k \in 1..Len(slices) + 2 /\ k <= Len(slices) + 1
    BY <1>2
  <2>4. Len(slices) + 2 \in 1..Len(slices) + 2 /\ ~(Len(slices) + 2 <= Len(slices) + 1)
    BY <1>2
  <2>5. QED BY <1>3, <2>1, <2>2, <2>3, <2>4
<1> HIDE DEF next
<1>5. ASSUME NEW k \in 1..Len(Append(slices, slice))
      PROVE  /\ InOrder(Append(slices, slice)[k], next[k], whole)
             /\ next[k + 1] = next[k] + Len(Append(slices, slice)[k])
  <2>1. CASE k \in 1..Len(slices)
    <3>1. next[k] = start[k] /\ next[k + 1] = start[k + 1]
      BY <1>2, <1>4, <2>1
    <3>2. QED BY <1>1, <1>3, <2>1, <3>1
  <2>2. CASE k \notin 1..Len(slices)
    <3>1. k = Len(slices) + 1
      BY <1>2, <1>3, <2>2
    <3>2. next[k] = upto /\ next[k + 1] = upto + Len(slice)
      <4>1. Len(slices) + 1 \in 1..Len(slices) + 1 /\ (Len(slices) + 1) + 1 = Len(slices) + 2
        BY <1>2
      <4>2. QED BY <1>1, <1>4, <3>1, <4>1
    <3>3. QED BY <1>3, <3>1, <3>2
  <2>3. QED BY <2>1, <2>2
<1>6. next[1] = from /\ next[Len(Append(slices, slice)) + 1] = upto + Len(slice)
  <2>1. 1 \in 1..Len(slices) + 1 /\ (Len(slices) + 1) + 1 = Len(slices) + 2
    BY <1>2
  <2>2. QED BY <1>1, <1>3, <1>4, <2>1
<1>7. QED BY <1>4, <1>5, <1>6 DEF Follows

\* The slice at the head stands where what is absorbed ends, and the others
\* after it.
LEMMA FollowsAbsorbed ==
  ASSUME NEW slices \in Seq(Seq(Unit)), NEW from \in Nat, NEW upto \in Nat,
         NEW whole, slices # <<>>, Follows(slices, from, upto, whole)
  PROVE  /\ InOrder(Head(slices), from, whole)
         /\ Follows(Tail(slices), from + Len(Head(slices)), upto, whole)
<1>1. PICK start \in [1..(Len(slices) + 1) -> Nat] :
        /\ start[1] = from /\ start[Len(slices) + 1] = upto
        /\ \A k \in 1..Len(slices) : /\ InOrder(slices[k], start[k], whole)
                                     /\ start[k + 1] = start[k] + Len(slices[k])
  BY DEF Follows
<1>2. Len(slices) \in Nat /\ Len(slices) >= 1 /\ Head(slices) = slices[1]
      /\ Len(Tail(slices)) = Len(slices) - 1
      /\ \A k \in 1..(Len(slices) - 1) : Tail(slices)[k] = slices[k + 1]
  <2>1. Len(slices) \in Nat /\ Len(slices) # 0
    BY LenProperties, EmptySeq
  <2>2. /\ Head(slices) = slices[1] /\ Len(Tail(slices)) = Len(slices) - 1
        /\ \A k \in 1..Len(Tail(slices)) : Tail(slices)[k] = slices[k + 1]
    BY HeadTailProperties
  <2>3. QED BY <2>1, <2>2
<1>3. InOrder(Head(slices), from, whole) /\ start[2] = from + Len(Head(slices))
  <2>1. 1 \in 1..Len(slices) /\ 1 + 1 = 2
    BY <1>2
  <2>2. QED BY <1>1, <1>2, <2>1
<1> DEFINE rest == [k \in 1..Len(slices) |-> start[k + 1]]
<1>4. rest \in [1..(Len(Tail(slices)) + 1) -> Nat] /\ \A k \in 1..Len(slices) : rest[k] = start[k + 1]
  <2>1. (Len(slices) - 1) + 1 = Len(slices)
    BY <1>2
  <2>2. \A k \in 1..Len(slices) : k + 1 \in 1..Len(slices) + 1
    BY <1>2
  <2>3. QED BY <1>2, <2>1, <2>2
<1> HIDE DEF rest
<1>5. ASSUME NEW k \in 1..Len(Tail(slices))
      PROVE  /\ InOrder(Tail(slices)[k], rest[k], whole)
             /\ rest[k + 1] = rest[k] + Len(Tail(slices)[k])
  <2>1. k \in 1..Len(slices) /\ k + 1 \in 1..Len(slices) /\ k \in 1..(Len(slices) - 1)
    BY <1>2
  <2>2. rest[k] = start[k + 1] /\ rest[k + 1] = start[(k + 1) + 1]
    BY <1>4, <2>1
  <2>3. QED BY <1>1, <1>2, <2>1, <2>2
<1>6. rest[1] = from + Len(Head(slices)) /\ rest[Len(Tail(slices)) + 1] = upto
  <2>1. 1 \in 1..Len(slices) /\ Len(slices) \in 1..Len(slices) /\ 1 + 1 = 2
        /\ (Len(slices) - 1) + 1 = Len(slices)
    BY <1>2
  <2>2. QED BY <1>1, <1>2, <1>3, <1>4, <2>1
<1>7. QED BY <1>3, <1>4, <1>5, <1>6 DEF Follows

\* What has been sent to a digest is the image but for the chunk in hand.
LEMMA SentPlaces ==
  ASSUME WriterTypes, PartsTileTheImage
  PROVE  /\ Len(given) - Len(chunk) \in Nat
         /\ (Len(given) - Len(chunk)) + Len(chunk) = Len(given)
         /\ InOrder(chunk, Len(given) - Len(chunk), given)
         /\ \A d \in 0..Workers : Sent(d) \in Nat
<1>1. Flushed \in Nat /\ Len(bevy) \in Nat /\ Len(chunk) \in Nat /\ Len(given) \in Nat
  BY Places, FlushedIs
<1>2. Flushed + Len(bevy) + Len(chunk) = Len(given) /\ InOrder(chunk, Flushed + Len(bevy), given)
  BY TilesInOrder
<1>3. Len(given) - Len(chunk) = Flushed + Len(bevy)
  BY <1>1, <1>2
<1>4. Len(given) - Len(chunk) \in Nat /\ (Len(given) - Len(chunk)) + Len(chunk) = Len(given)
  BY <1>1, <1>3
<1>5. QED BY <1>1, <1>2, <1>3, <1>4 DEF Sent

\* Every digest is fed every slice, in order, and absorbs what it was fed in
\* order.
LEMMA DigestsFollowKept ==
  ASSUME WriterTypes, InHand, PartsTileTheImage, DigestsFollow, WriterMove
  PROVE  DigestsFollow'
<1>0. /\ given \in Seq(Unit) /\ chunk \in Seq(Unit) /\ Len(given) \in Nat /\ Len(chunk) \in Nat
      /\ Workers \in Nat /\ fed \in 0..Workers
      /\ absorbed \in [0..Workers -> Seq(Unit)] /\ queue \in [1..Workers -> Seq(Seq(Unit))]
      /\ \A d \in 0..Workers : absorbed[d] \in Seq(Unit) /\ Len(absorbed[d]) \in Nat
                               /\ Sent(d) \in Nat
      /\ \A w \in 1..Workers : w \in 0..Workers /\ queue[w] \in Seq(Seq(Unit))
  <2>1. absorbed \in [0..Workers -> Seq(Unit)] /\ queue \in [1..Workers -> Seq(Seq(Unit))]
        /\ Workers \in Nat
    BY MultiPartAssumption DEF WriterTypes
  <2>2. \A d \in 0..Workers : Len(absorbed[d]) \in Nat
    BY <2>1, LenProperties
  <2>3. given \in Seq(Unit) /\ chunk \in Seq(Unit) /\ fed \in 0..Workers
    BY DEF WriterTypes
  <2>4. Len(given) \in Nat /\ Len(chunk) \in Nat
    BY Places
  <2>5. \A d \in 0..Workers : Sent(d) \in Nat
    BY SentPlaces
  <2>6. QED BY <2>1, <2>2, <2>3, <2>4, <2>5
<1>00. /\ \A d \in 0..Workers : InOrder(absorbed[d], 0, given)
       /\ Len(absorbed[0]) = Sent(0)
       /\ \A w \in 1..Workers : Follows(queue[w], Len(absorbed[w]), Sent(w), given)
       /\ at = "map" \/ outcome = "written" => \A w \in 1..Workers : queue[w] = <<>>
  BY DEF DigestsFollow
<1>1. CASE AnyAnswer
  <2>1. PICK units \in Seq(Unit) : Answer(units)
    BY <1>1 DEF AnyAnswer
  <2>2. /\ given' = given \o units /\ at \in {"probe", "fill"} /\ at' \in {"create", "fill", "absorb"}
        /\ chunk' = IF at = "probe" THEN units ELSE chunk \o units
        /\ UNCHANGED <<absorbed, queue, outcome>>
    BY <2>1 DEF Answer, Asking, Filled, hashVars
  <2>3. at = "probe" => chunk = <<>>
    BY DEF InHand
  <2>4. Len(given') = Len(given) + Len(units) /\ Len(chunk \o units) = Len(chunk) + Len(units)
        /\ Len(units) \in Nat
    BY <1>0, <2>2, ConcatProperties, LenProperties
  <2>5. Len(chunk') = Len(chunk) + Len(units)
    <3>1. CASE at = "probe"
      <4>1. Len(chunk) = 0 /\ chunk' = units
        BY <2>2, <2>3, <3>1
      <4>2. QED BY <2>4, <4>1
    <3>2. CASE at # "probe"
      BY <2>2, <2>4, <3>2
    <3>3. QED BY <3>1, <3>2
  <2>6. Len(given') - Len(chunk') = Len(given) - Len(chunk)
    BY <1>0, <2>4, <2>5
  <2>7. \A d \in 0..Workers : Sent(d)' = Sent(d)
    BY <2>2, <2>6 DEF Sent
  <2>8. \A d \in 0..Workers : InOrder(absorbed'[d], 0, given')
    BY <1>0, <1>00, <2>2, InOrderGrows
  <2>9. \A w \in 1..Workers : Follows(queue[w], Len(absorbed[w]), Sent(w), given')
    BY <1>0, <1>00, <2>2, FollowsGrows
  <2>10. outcome # "written"
    BY <2>2 DEF InHand
  <2>11. 0 \in 0..Workers
    BY <1>0
  <2>12. QED BY <1>0, <1>00, <2>2, <2>7, <2>8, <2>9, <2>10, <2>11 DEF DigestsFollow
<1>2. CASE Absorb
  <2>1. /\ at = "absorb" /\ at' = "feed" /\ fed' = 0
        /\ absorbed' = [absorbed EXCEPT ![0] = @ \o chunk]
        /\ UNCHANGED <<given, chunk, queue, outcome>>
    BY <1>2 DEF Absorb
  <2>2. 0 \in 0..Workers /\ Sent(0) = Len(given) - Len(chunk)
    BY <1>0, <2>1 DEF Sent
  <2>3. InOrder(chunk, Len(absorbed[0]), given) /\ Len(absorbed[0]) + Len(chunk) = Len(given)
    BY <1>00, <2>2, SentPlaces
  <2>4. Len(absorbed[0] \o chunk) = Len(given) /\ InOrder(absorbed[0] \o chunk, 0, given)
    <3>1. InOrder(chunk, 0 + Len(absorbed[0]), given)
      BY <1>0, <2>2, <2>3
    <3>2. QED BY <1>0, <1>00, <2>2, <2>3, <3>1, InOrderJoins
  <2>5. absorbed'[0] = absorbed[0] \o chunk /\ \A w \in 1..Workers : absorbed'[w] = absorbed[w]
    BY <1>0, <2>1, <2>2
  <2>6. Sent(0)' = Len(given) /\ \A w \in 1..Workers : Sent(w)' = Sent(w)
    <3>1. Sent(0)' = Len(given)
      BY <2>1 DEF Sent
    <3>2. \A w \in 1..Workers : ~(w <= 0)
      BY <1>0
    <3>3. QED BY <2>1, <3>1, <3>2 DEF Sent
  <2>7. \A d \in 0..Workers : d = 0 \/ d \in 1..Workers
    BY <1>0
  <2>8. outcome' # "written" /\ at' # "map"
    BY <2>1 DEF InHand
  <2>9. QED BY <1>00, <2>1, <2>4, <2>5, <2>6, <2>7, <2>8 DEF DigestsFollow
<1>3. CASE Feed
  <2>0. PICK w \in 1..Workers : w = fed + 1
    BY <1>0, <1>3 DEF Feed
  <2>1. /\ at = "feed" /\ at' = "feed" /\ fed' = w
        /\ queue' = [queue EXCEPT ![w] = Append(@, chunk)]
        /\ UNCHANGED <<given, chunk, absorbed, outcome>>
    BY <1>0, <1>3, <2>0 DEF Feed
  <2>2. Sent(w) = Len(given) - Len(chunk) /\ Sent(w)' = Len(given)
        /\ \A d \in 0..Workers : d # w => Sent(d)' = Sent(d)
    <3>1. ~(w <= fed) /\ \A d \in 0..Workers : d # w => (d <= fed <=> d <= fed')
      BY <1>0, <2>0, <2>1
    <3>2. w <= fed'
      BY <1>0, <2>1
    <3>3. QED BY <2>1, <3>1, <3>2 DEF Sent
  <2>3. \A v \in 1..Workers : queue'[v] = IF v = w THEN Append(queue[w], chunk) ELSE queue[v]
    BY <1>0, <2>1
  <2>4. 0 # w
    BY <1>0, <2>1
  <2>5. Follows(queue'[w], Len(absorbed'[w]), Sent(w)', given')
    <3>1. Follows(Append(queue[w], chunk), Len(absorbed[w]), Sent(w) + Len(chunk), given)
      BY <1>0, <1>00, <2>1, <2>2, SentPlaces, FollowsSent
    <3>2. Sent(w) + Len(chunk) = Len(given)
      BY <2>2, SentPlaces
    <3>3. QED BY <2>1, <2>2, <2>3, <3>1, <3>2
  <2>6. \A v \in 1..Workers : v # w => Follows(queue'[v], Len(absorbed'[v]), Sent(v)', given')
    BY <1>0, <1>00, <2>1, <2>2, <2>3
  <2>7. outcome' # "written" /\ at' # "map"
    BY <2>1 DEF InHand
  <2>8. Len(absorbed'[0]) = Sent(0)'
    BY <1>0, <1>00, <2>1, <2>2, <2>4
  <2>9. QED BY <1>00, <2>1, <2>5, <2>6, <2>7, <2>8 DEF DigestsFollow
<1>4. CASE Push
  <2>1. /\ at = "feed" /\ fed = Workers /\ at' \in {"flush", "fill"} /\ chunk' = <<>>
        /\ UNCHANGED <<given, absorbed, queue, outcome>>
    BY <1>4 DEF Push, hashVars
  <2>2. \A d \in 0..Workers : Sent(d)' = Sent(d)
    <3>1. \A d \in 0..Workers : d <= fed
      BY <1>0, <2>1
    <3>2. Len(given') - Len(chunk') = Len(given)
      BY <1>0, <2>1
    <3>3. QED BY <2>1, <3>1, <3>2 DEF Sent
  <2>3. outcome' # "written" /\ 0 \in 0..Workers
    BY <1>0, <2>1 DEF InHand
  <2>4. QED BY <1>0, <1>00, <2>1, <2>2, <2>3 DEF DigestsFollow
<1>5. CASE WorkerStep
  <2>1. PICK w \in 1..Workers : Work(w)
    BY <1>5 DEF WorkerStep
  <2>2. /\ queue[w] # <<>> /\ absorbed' = [absorbed EXCEPT ![w] = @ \o Head(queue[w])]
        /\ queue' = [queue EXCEPT ![w] = Tail(@)]
        /\ UNCHANGED <<at, given, chunk, fed, outcome>>
    BY <2>1 DEF Work
  <2>3. Head(queue[w]) \in Seq(Unit) /\ w \in 0..Workers /\ w # 0
    BY <1>0, <2>2, HeadTailProperties
  <2>4. InOrder(Head(queue[w]), Len(absorbed[w]), given)
        /\ Follows(Tail(queue[w]), Len(absorbed[w]) + Len(Head(queue[w])), Sent(w), given)
    BY <1>0, <1>00, <2>2, <2>3, FollowsAbsorbed
  <2>5. Len(absorbed[w] \o Head(queue[w])) = Len(absorbed[w]) + Len(Head(queue[w]))
        /\ InOrder(absorbed[w] \o Head(queue[w]), 0, given)
    <3>1. InOrder(Head(queue[w]), 0 + Len(absorbed[w]), given)
      BY <1>0, <2>3, <2>4
    <3>2. QED BY <1>0, <1>00, <2>3, <3>1, InOrderJoins
  <2>6. /\ \A d \in 0..Workers :
             absorbed'[d] = IF d = w THEN absorbed[w] \o Head(queue[w]) ELSE absorbed[d]
        /\ \A v \in 1..Workers : queue'[v] = IF v = w THEN Tail(queue[w]) ELSE queue[v]
    BY <1>0, <2>2, <2>3
  <2>7. \A d \in 0..Workers : Sent(d)' = Sent(d)
    BY <2>2 DEF Sent
  <2>8. \A d \in 0..Workers : InOrder(absorbed'[d], 0, given')
    BY <1>00, <2>2, <2>5, <2>6
  <2>9. \A v \in 1..Workers : Follows(queue'[v], Len(absorbed'[v]), Sent(v)', given')
    <3>1. Follows(queue'[w], Len(absorbed'[w]), Sent(w)', given')
      BY <2>2, <2>3, <2>4, <2>5, <2>6, <2>7
    <3>2. \A v \in 1..Workers : v # w => Follows(queue'[v], Len(absorbed'[v]), Sent(v)', given')
      BY <1>0, <1>00, <2>2, <2>6, <2>7
    <3>3. QED BY <3>1, <3>2
  <2>10. Len(absorbed'[0]) = Sent(0)'
    <3>1. 0 \in 0..Workers
      BY <1>0
    <3>2. QED BY <1>00, <2>3, <2>6, <2>7, <3>1
  <2>11. ~(at = "map" \/ outcome = "written")
    BY <1>00, <2>2
  <2>12. QED BY <2>2, <2>8, <2>9, <2>10, <2>11 DEF DigestsFollow
<1>6. CASE \/ CreatePart \/ AnyFlush \/ EndPart \/ FinishFirstPart
           \/ AnyPreflight \/ AnswerEnd \/ NothingRead \/ CollectDigests \/ Fails
  <2>1. /\ at # "feed" /\ at' # "feed" /\ UNCHANGED <<given, chunk, absorbed, queue>>
    BY <1>6 DEF CreatePart, Filled, AnyFlush, FlushBevy, EndPart, FinishFirstPart, AnyPreflight,
                AnswerEnd, NothingRead, CollectDigests, Fails, Stop, Asking,
                hashVars
  <2>2. at' = "map" \/ outcome' = "written" => \A w \in 1..Workers : queue[w] = <<>>
    <3>1. CASE CollectDigests
      BY <3>1 DEF CollectDigests
    <3>2. CASE FinishFirstPart
      BY <1>00, <3>2 DEF FinishFirstPart
    <3>3. CASE \/ CreatePart \/ AnyFlush \/ EndPart
               \/ AnyPreflight \/ AnswerEnd \/ NothingRead \/ Fails
      <4>1. at # "stopped" /\ at' # "map"
            /\ outcome' \in {outcome, "too many", "refused", "failed"}
        BY <3>3 DEF CreatePart, Filled, AnyFlush, FlushBevy, EndPart, AnyPreflight,
                    AnswerEnd, NothingRead, Fails, Stop, Asking
      <4>2. QED BY <4>1 DEF InHand
    <3>4. QED BY <1>6, <3>1, <3>2, <3>3
  <2>3. \A d \in 0..Workers : Sent(d)' = Sent(d)
    BY <2>1 DEF Sent
  <2>4. 0 \in 0..Workers
    BY <1>0
  <2>5. QED BY <1>0, <1>00, <2>1, <2>2, <2>3, <2>4 DEF DigestsFollow
<1>7. QED BY <1>1, <1>2, <1>3, <1>4, <1>5, <1>6 DEF WriterMove, OtherStep

\* A read is asked for no more than the chunk has room for.
LEMMA ReadsFitKept ==
  ASSUME WriterTypes, InHand, ReadsFit, WriterMove PROVE ReadsFit'
<1>0. /\ Len(chunk) \in Nat /\ ChunkSize \in Nat /\ ChunkSize >= 1 /\ chunk \in Seq(Unit)
      /\ Len(<<>>) = 0
  <2>1. Len(chunk) \in Nat
    BY Places
  <2>2. ChunkSize \in Nat /\ ChunkSize >= 1
    BY MultiPartAssumption
  <2>3. QED BY <2>1, <2>2 DEF WriterTypes
<1>1. CASE AnyAnswer
  <2>1. PICK units \in Seq(Unit) : units # <<>> /\ Len(units) <= Wanted /\ Answer(units)
    BY <1>1 DEF AnyAnswer
  <2>2. CASE at = "probe"
    BY <2>1, <2>2 DEF Answer, Wanted, ReadsFit
  <2>3. CASE at # "probe"
    <3>1. Len(chunk \o units) = Len(chunk) + Len(units) /\ Len(units) \in Nat
      BY <1>0, ConcatProperties, LenProperties
    <3>2. chunk' = chunk \o units /\ at = "fill"
          /\ at' = IF Len(chunk') = ChunkSize THEN "absorb" ELSE "fill"
      BY <2>1, <2>3 DEF Answer, Asking, Filled
    <3>3. Len(chunk') <= ChunkSize /\ Len(chunk') \in Nat
      BY <1>0, <2>1, <2>3, <3>1, <3>2 DEF Wanted
    <3>4. QED BY <1>0, <3>2, <3>3 DEF ReadsFit
  <2>4. QED BY <2>2, <2>3
<1>2. CASE CreatePart
  <2>1. at = "create" /\ chunk' = chunk
        /\ at' = IF Len(chunk) = ChunkSize THEN "absorb" ELSE "fill"
    BY <1>2 DEF CreatePart, Filled
  <2>2. QED BY <1>0, <2>1 DEF ReadsFit
<1>3. CASE Push
  BY <1>0, <1>3 DEF Push, ReadsFit
<1>4. CASE AnyFlush
  <2>1. chunk' = chunk /\ chunk = <<>> /\ at' \in {"part", "fill"}
    BY <1>4 DEF AnyFlush, FlushBevy, InHand
  <2>2. QED BY <1>0, <2>1 DEF ReadsFit
<1>5. CASE EndPart
  BY <1>5 DEF EndPart, Stop, ReadsFit
<1>6. CASE FinishFirstPart
  BY <1>6 DEF FinishFirstPart, Stop, ReadsFit
<1>7. CASE AnyPreflight
  <2>1. chunk' = chunk /\ chunk = <<>> /\ at' \in {"stopped", "create"}
    BY <1>7 DEF AnyPreflight, Stop, InHand
  <2>2. QED BY <1>0, <2>1 DEF ReadsFit
<1>8. CASE AnswerEnd \/ NothingRead \/ Absorb \/ Feed \/ CollectDigests \/ Fails \/ WorkerStep
  <2>1. chunk' = chunk /\ (at' = at \/ at' \notin {"create", "fill"})
    BY <1>8 DEF AnswerEnd, NothingRead, Absorb, Feed, CollectDigests, Fails, Stop, WorkerStep, Work
  <2>2. QED BY <2>1 DEF ReadsFit
<1>9. QED BY <1>1, <1>2, <1>3, <1>4, <1>5, <1>6, <1>7, <1>8 DEF WriterMove, OtherStep

-----------------------------------------------------------------------------
(* The invariant *)

\* The invariant holds before the first part.
LEMMA WriterBegins == WriterInit => WriterInv
<1> SUFFICES ASSUME WriterInit PROVE WriterInv
  OBVIOUS
<1>1. Len(<<>>) = 0 /\ Part = 0 /\ Len(entries) = 0 /\ Workers \in Nat
  BY MultiPartAssumption DEF WriterInit, Part
<1>2. WriterTypes
  <2>1. absorbed \in [0..Workers -> Seq(Unit)] /\ queue \in [1..Workers -> Seq(Seq(Unit))]
    BY DEF WriterInit
  <2>2. QED BY <1>1, <2>1 DEF WriterInit, WriterTypes, Underway, Between
<1>3. InHand /\ NoEmptyPart /\ ReadsFit /\ NoPartIsLeftOpen
  BY <1>1 DEF WriterInit, InHand, NoEmptyPart, ReadsFit, NoPartIsLeftOpen, Underway, Between
<1>4. PartsTileTheImage
  BY <1>1 DEF WriterInit, PartsTileTheImage, IsGiven, Flushed
<1>5. DigestsFollow
  <2>1. \A d \in 0..Workers : Sent(d) = 0
    BY <1>1 DEF WriterInit, Sent
  <2>2. \A d \in 0..Workers : absorbed[d] = <<>> /\ InOrder(absorbed[d], 0, given)
    BY <1>1 DEF WriterInit, InOrder
  <2>3. ASSUME NEW w \in 1..Workers PROVE Follows(queue[w], Len(absorbed[w]), Sent(w), given)
    <3>1. queue[w] = <<>> /\ absorbed[w] = <<>> /\ Sent(w) = 0
      BY <1>1, <2>1, <2>2 DEF WriterInit
    <3>2. Follows(<<>>, 0, 0, given)
      BY FollowsNothing
    <3>3. QED BY <1>1, <3>1, <3>2
  <2>4. QED BY <1>1, <2>1, <2>2, <2>3 DEF DigestsFollow, WriterInit
<1>6. QED BY <1>2, <1>3, <1>4, <1>5 DEF WriterInv

\* Every step keeps it.
LEMMA WriterKeeps == WriterInv /\ [WriterMove]_writerVars => WriterInv'
<1> SUFFICES ASSUME WriterInv, [WriterMove]_writerVars PROVE WriterInv'
  OBVIOUS
<1>1. CASE WriterMove
  BY <1>1, TypesKept, InHandKept, NoEmptyPartKept, ReadsFitKept, TilesKept, ClosedKept,
     DigestsFollowKept DEF WriterInv
<1>2. CASE UNCHANGED writerVars
  <2>1. WriterTypes' /\ InHand' /\ NoEmptyPart' /\ ReadsFit'
    BY <1>2 DEF WriterInv, writerVars, partVars, hashVars, WriterTypes, InHand, NoEmptyPart, ReadsFit,
                Part
  <2>2. PartsTileTheImage' /\ NoPartIsLeftOpen'
    BY <1>2 DEF WriterInv, writerVars, partVars, hashVars, PartsTileTheImage, NoPartIsLeftOpen,
                IsGiven, Base, Flushed, Part
  <2>3. DigestsFollow'
    BY <1>2 DEF WriterInv, writerVars, partVars, hashVars, DigestsFollow, Sent
  <2>4. QED BY <2>1, <2>2, <2>3 DEF WriterInv
<1>3. QED BY <1>1, <1>2

\* And it says what a set is promised to be.
LEMMA WriterPromises == WriterInv => PartsAreTheImage /\ DigestsCoverTheImage
<1> SUFFICES ASSUME WriterInv PROVE PartsAreTheImage /\ DigestsCoverTheImage
  OBVIOUS
<1>1. WriterTypes /\ InHand /\ PartsTileTheImage /\ NoPartIsLeftOpen /\ DigestsFollow
  BY DEF WriterInv
<1>2. ASSUME outcome = "written"
      PROVE  \A d \in 0..Workers : absorbed[d] = given /\ Len(given) = total
  <2>1. at = "stopped" /\ Part = Len(entries) /\ bevy = <<>> /\ chunk = <<>>
    BY <1>1, <1>2 DEF InHand
  <2>2. Len(given) = total /\ Len(given) \in Nat /\ Len(<<>>) = 0
    <3>1. Flushed = total /\ total \in Nat /\ Len(given) \in Nat
      BY <1>1, <2>1, FlushedIs, Places
    <3>2. Flushed + Len(bevy) + Len(chunk) = Len(given)
      BY <1>1, TilesInOrder
    <3>3. QED BY <2>1, <3>1, <3>2
  <2>3. \A d \in 0..Workers : Sent(d) = Len(given)
    BY <2>1, <2>2 DEF Sent
  <2>4. ASSUME NEW d \in 0..Workers PROVE absorbed[d] = given
    <3>1. absorbed[d] \in Seq(Unit) /\ given \in Seq(Unit) /\ InOrder(absorbed[d], 0, given)
      BY <1>1 DEF WriterTypes, DigestsFollow
    <3>2. Len(absorbed[d]) = Len(given)
      <4>1. CASE d = 0
        BY <1>1, <2>3, <4>1 DEF DigestsFollow
      <4>2. CASE d # 0
        <5>1. d \in 1..Workers
          BY <4>2, MultiPartAssumption
        <5>2. Follows(<<>>, Len(absorbed[d]), Sent(d), given)
          BY <1>1, <1>2, <5>1 DEF DigestsFollow
        <5>3. QED BY <2>3, <5>2, FollowsToNothing
      <4>3. QED BY <4>1, <4>2
    <3>3. QED BY <3>1, <3>2, InOrderWhole
  <2>5. QED BY <2>2, <2>4
<1>3. QED BY <1>1, <1>2 DEF PartsAreTheImage, DigestsCoverTheImage

\* Over a source of its own the writer makes only those steps.
LEMMA WriterNextMoves == WriterInv /\ WriterNext => WriterMove
<1> SUFFICES ASSUME WriterInv, WriterNext PROVE WriterMove
  OBVIOUS
<1>1. ASSUME NEW size \in Nat, Preflight(size) PROVE AnyPreflight
  BY <1>1 DEF Preflight, AnyPreflight
<1>2. ASSUME NEW units \in Answers, Len(units) <= Wanted, Answer(units) PROVE AnyAnswer
  <2>1. PICK n \in 1..ChunkSize : units \in [1..n -> Unit]
    BY DEF Answers
  <2>2. n \in Nat /\ units \in Seq(Unit) /\ Len(units) = n
    BY <2>1, MultiPartAssumption, IsASeq, LenProperties
  <2>3. units # <<>>
    BY <2>1, <2>2, EmptySeq
  <2>4. QED BY <1>2, <2>2, <2>3 DEF AnyAnswer
<1>3. ASSUME WriterStep PROVE WriterMove
  <2>1. Len(bevy) \in Nat
    BY Places DEF WriterInv
  <2>2. \A cost \in 1..Len(bevy) : cost \in Nat
    BY <2>1
  <2>3. QED BY <1>3, <2>2 DEF WriterStep, WriterMove, OtherStep, AnyFlush
<1>4. QED BY <1>1, <1>2, <1>3 DEF WriterNext, SourceStep, WriterMove, OtherStep

\* Whatever a source returns and however its parts are cut, the units stand in
\* the parts and in the map in the order they came, every part but the first is
\* closed before the next is begun, and none but the first is empty.
THEOREM WriterTilesTheImage == WriterSpec => []PartsAreTheImage
<1>1. WriterInv /\ [WriterNext]_writerVars => WriterInv'
  BY WriterNextMoves, WriterKeeps
<1>2. QED BY <1>1, WriterBegins, WriterPromises, PTL DEF WriterSpec

\* And once the set is written every digest, whatever the number of them and
\* the depth of their channels, has covered all of it.
THEOREM WriterDigestsTheImage == WriterSpec => []DigestsCoverTheImage
<1>1. WriterInv /\ [WriterNext]_writerVars => WriterInv'
  BY WriterNextMoves, WriterKeeps
<1>2. QED BY <1>1, WriterBegins, WriterPromises, PTL DEF WriterSpec

-----------------------------------------------------------------------------
(* The files of a set *)

\* The units of the first files of those found, file by file.
IsFilewise(g) ==
  /\ g \in [0..Len(found) -> Seq(Unit)]
  /\ g[0] = <<>>
  /\ \A k \in 1..Len(found) : g[k] = g[k - 1] \o FileUnits(found[k])
Filewise == CHOOSE g : IsFilewise(g)

FolderShape ==
  /\ folder \in Folders /\ named \in Present /\ found \in Seq(Present)

\* A file's units are units of a stream.
LEMMA FileIs ==
  ASSUME FolderShape, NEW p \in Present
  PROVE  /\ p \in Nat /\ folder[p] \in 0..Longest /\ folder[p] \in Nat
         /\ FileUnits(p) \in Seq(Unit) /\ Len(FileUnits(p)) = folder[p]
         /\ \A i \in 1..folder[p] : FileUnits(p)[i] = FileUnit(p, i)
<1>1. /\ p \in Nat /\ folder[p] \in 0..Longest
      /\ \A i \in 1..folder[p] : FileUnit(p, i) \in Unit
  BY SplitAssumption, ImageAcquireAssumption DEF FolderShape, Present
<1>2. folder[p] \in Nat
  BY <1>1 DEF Longest
<1>3. FileUnits(p) \in [1..folder[p] -> Unit]
  BY <1>1 DEF FileUnits
<1>4. QED BY <1>1, <1>2, <1>3, IsASeq, LenProperties DEF FileUnits

\* What was found, as one stream, is the files one after another.
LEMMA FoundIsFilewise ==
  ASSUME FolderShape
  PROVE  IsFilewise(Filewise) /\ FoundUnits = Filewise[Len(found)]
<1> DEFINE N == Len(found)
           F == [k \in 1..N |-> [u \in Seq(Unit) |-> u \o FileUnits(found[k])]]
           Turn(it, s) == IF s = {} THEN <<>>
                          ELSE it[s \ {Max(s)}] \o FileUnits(found[Max(s)])
           iter == CHOOSE it : it = [s \in SUBSET DOMAIN found |-> Turn(it, s)]
           g == Filewise
<1>1. N \in Nat /\ DOMAIN found = 1..N /\ \A k \in 1..N : found[k] \in Present
  BY LenProperties, ElementOfSeq DEF FolderShape
<1>2. <<>> \in Seq(Unit)
  BY EmptySeq
<1>3. F \in [1..N -> [Seq(Unit) -> Seq(Unit)]]
  <2>1. ASSUME NEW k \in 1..N, NEW u \in Seq(Unit) PROVE u \o FileUnits(found[k]) \in Seq(Unit)
    BY <1>1, FileIs, ConcatProperties
  <2>2. QED BY <2>1
<1>4. \A k \in 1..N, u \in Seq(Unit) : F[k][u] = u \o FileUnits(found[k])
  OBVIOUS
<1>5. FoundUnits = iter[DOMAIN found]
  BY DEF FoundUnits, Seqs!FoldLeft, Seqs!MapThenFoldSet, Seqs!Max, Max
<1> HIDE DEF F, N
<1>6. IsFilewise(g)
  <2>1. PICK h \in [0..N -> Seq(Unit)] :
          h[0] = <<>> /\ \A k \in 1..N : h[k] = F[k][h[k - 1]]
    <3>1. HasTurns(N, Seq(Unit), <<>>, F)
      BY <1>1, <1>2, <1>3, TurnByTurn
    <3>2. QED BY <3>1 DEF HasTurns
  <2>2. \A k \in 1..N : h[k - 1] \in Seq(Unit)
    BY <1>1
  <2>3. IsFilewise(h)
    BY <1>4, <2>1, <2>2 DEF IsFilewise, N
  <2>4. QED BY <2>3 DEF Filewise
<1>7. iter = [s \in SUBSET DOMAIN found |-> Turn(iter, s)]
  <2>1. PICK it \in [SUBSET (1..N) -> Seq(Unit)] : \A s \in SUBSET (1..N) :
          it[s] = IF s = {} THEN <<>> ELSE F[Max(s)][it[s \ {Max(s)}]]
    <3>1. HasFold(N, Seq(Unit), <<>>, F)
      BY <1>1, <1>2, <1>3, FoldExists
    <3>2. QED BY <3>1 DEF HasFold
  <2>2. ASSUME NEW s \in SUBSET (1..N) PROVE it[s] = Turn(it, s)
    <3>1. CASE s = {}
      BY <2>1, <3>1
    <3>2. CASE s # {}
      <4>1. Max(s) \in 1..N
        BY <1>1, <3>2, LargestNumber
      <4>2. it[s \ {Max(s)}] \in Seq(Unit)
        OBVIOUS
      <4>3. QED BY <1>4, <2>1, <3>2, <4>1, <4>2
    <3>3. QED BY <3>1, <3>2
  <2>3. it = [s \in SUBSET DOMAIN found |-> Turn(it, s)]
    BY <1>1, <2>2
  <2>4. QED BY <2>3
<1> HIDE DEF iter, g
<1>8. \A s \in SUBSET (1..N) : iter[s] = Turn(iter, s)
  BY <1>1, <1>7
<1>0. N \in Nat
  BY <1>1
<1> DEFINE S == {k \in 0..N : iter[1..k] = g[k]}
<1>9. 0 \in S
  <2>1. 1..0 = {} /\ {} \in SUBSET (1..N)
    OBVIOUS
  <2>2. iter[{}] = <<>> /\ 0 \in 0..N
    <3>1. iter[{}] = Turn(iter, {})
      BY <1>8, <2>1
    <3>2. QED BY <1>1, <3>1
  <2>3. QED BY <1>6, <2>1, <2>2 DEF IsFilewise
<1>10. ASSUME NEW k \in 0..(N - 1), k \in S PROVE k + 1 \in S
  <2>1. /\ k + 1 \in 1..N /\ 1..(k + 1) \in SUBSET (1..N) /\ 1..(k + 1) # {}
        /\ k + 1 \in Nat
    <3>1. N \in Nat
      BY <1>1
    <3>2. k \in Nat /\ k + 1 <= N /\ k + 1 \in 1..(k + 1)
      BY <3>1
    <3>3. QED BY <3>1, <3>2
  <2>2. Max(1..(k + 1)) \in 1..(k + 1) /\ \A y \in 1..(k + 1) : y <= Max(1..(k + 1))
    BY <2>1, LargestNumber
  <2>3. Max(1..(k + 1)) = k + 1
    BY <1>1, <2>1, <2>2
  <2>4. (1..(k + 1)) \ {k + 1} = 1..k
    BY <1>0
  <2>5. iter[1..(k + 1)] = iter[1..k] \o FileUnits(found[k + 1])
    BY <1>8, <2>1, <2>3, <2>4
  <2>6. g[k + 1] = g[k] \o FileUnits(found[k + 1])
    <3>1. \A i \in 1..N : g[i] = g[i - 1] \o FileUnits(found[i])
      BY <1>6 DEF IsFilewise, N
    <3>2. (k + 1) - 1 = k
      BY <1>0
    <3>3. QED BY <2>1, <3>1, <3>2
  <2>7. k \in 0..N /\ iter[1..k] = g[k] /\ k + 1 \in 0..N
    BY <1>0, <1>10
  <2>8. QED BY <2>5, <2>6, <2>7
<1> HIDE DEF S
<1>11. 0..N \subseteq S
  BY <1>1, <1>9, <1>10, NumbersUpTo
<1>12. N \in S
  BY <1>1, <1>11
<1>13. iter[1..N] = g[N]
  BY <1>12 DEF S
<1>14. QED BY <1>1, <1>5, <1>6, <1>13 DEF N, g

\* There is a first number that no file has, and the file named comes before it.
LEMMA BreakIs ==
  ASSUME FolderShape
  PROVE  /\ Break \in Nat /\ Break > named /\ named \in Nat
         /\ named..(Break - 1) \subseteq Present
<1>1. named \in Nat /\ Present \subseteq Nat /\ IsFiniteSet(Present) /\ Cardinality(Present) \in Nat
  BY SplitAssumption, FS_CardinalityType DEF FolderShape, Present
<1> DEFINE c == Cardinality(Present)
           T == {n \in named..(named + c) : n \notin Present}
<1>2. c \in Nat
  BY <1>1
<1> HIDE DEF c
<1>3. T # {}
  <2> SUFFICES ASSUME T = {} PROVE FALSE
    OBVIOUS
  <2>1. named..(named + c) \subseteq Present
    OBVIOUS
  <2>2. Cardinality(named..(named + c)) = c + 1 /\ IsFiniteSet(named..(named + c))
    BY <1>1, <1>2, FS_Interval
  <2>3. Cardinality(named..(named + c)) <= Cardinality(Present)
    BY <1>1, <2>1, FS_Subset
  <2>4. QED BY <1>1, <1>2, <2>2, <2>3 DEF c
<1>4. PICK x \in T : \A y \in T : x <= y
  <2>1. T \subseteq Nat
    BY <1>1, <1>2
  <2> HIDE DEF T
  <2>2. QED BY <1>3, <2>1, SmallestNumber
<1>5. x \in Nat /\ named <= x /\ x <= named + c /\ x \notin Present
  BY <1>1, <1>2, <1>4
<1>6. named..(x - 1) \subseteq Present
  <2> SUFFICES ASSUME NEW y \in named..(x - 1), y \notin Present PROVE FALSE
    OBVIOUS
  <2>1. y \in T /\ ~(x <= y)
    BY <1>1, <1>2, <1>5
  <2>2. QED BY <1>4, <2>1
<1>7. \E n \in named..(named + Cardinality(Present)) :
        n \notin Present /\ named..(n - 1) \subseteq Present
  BY <1>5, <1>6 DEF c
<1>8. /\ Break \in named..(named + Cardinality(Present)) /\ Break \notin Present
      /\ named..(Break - 1) \subseteq Present
  BY <1>7 DEF Break
<1>9. Break # named
  BY <1>8 DEF FolderShape
<1>10. QED BY <1>1, <1>8, <1>9

\* The same of the next state.
LEMMA FoundNext ==
  (FolderShape => IsFilewise(Filewise) /\ FoundUnits = Filewise[Len(found)])'
<1>1. FolderShape => IsFilewise(Filewise) /\ FoundUnits = Filewise[Len(found)]
  BY FoundIsFilewise
<1>2. QED BY <1>1, PTL

-----------------------------------------------------------------------------
(* The acquisition's invariant *)

\* The reader is within a call only while the writer waits for it.
Asked ==
  kind = "device" /\ pc \in {"block", "sector", "again"} => Asking /\ request = Wanted

FilesInv ==
  /\ FolderShape /\ offset \in Nat
  /\ resolved \in {"no", "yes", "refused"} /\ current \in BOOLEAN
  /\ resolved # "yes" => ~current /\ offset = 0
  /\ resolved = "yes" => index \in 1..Len(found)
  /\ \A i \in 1..Len(found) : found[i] = named + i - 1
  /\ current => offset <= folder[found[index]]

\* What the writer was given is what the source has read.
FirstUnits(p, n) == [i \in 1..n |-> FileUnit(p, i)]
SourceRead ==
  /\ kind = "device" => given = image
  /\ kind = "files" =>
       /\ resolved # "yes" => given = <<>>
       /\ current => given = Filewise[index - 1] \o FirstUnits(found[index], offset)
       /\ resolved = "yes" /\ ~current => given = FoundUnits

\* A chunk that came short, a part that exhausted the source and a set that is
\* being finished all mean that the source has ended.
SourceEnded == IF kind = "device" THEN pc = "ended" ELSE resolved = "yes" /\ ~current
Ending ==
  /\ at \in {"absorb", "feed"} /\ Len(chunk) < ChunkSize => SourceEnded
  /\ exhausted => SourceEnded
  /\ at \in {"digests", "map"} \/ outcome = "written" => SourceEnded

AcquireInv ==
  /\ kind \in {"device", "files"}
  /\ WriterInv /\ NamesInv /\ Tried /\ Asked /\ FilesInv /\ SourceRead /\ Ending

-----------------------------------------------------------------------------
(* The steps, one at a time *)

\* The writer's steps, the source's end told by the source.
SourcedMove ==
  \/ AnyPreflight \/ AnyAnswer \/ (AnswerEnd /\ SourceEnded')
  \/ WriterStep \/ Fails \/ WorkerStep

\* They are the writer's steps over any source.
LEMMA SourcedIsMove == ASSUME WriterInv, SourcedMove PROVE WriterMove
<1>1. Len(bevy) \in Nat
  BY Places DEF WriterInv
<1>2. \A cost \in 1..Len(bevy) : cost \in Nat
  BY <1>1
<1>3. QED BY <1>2 DEF SourcedMove, WriterStep, WriterMove, OtherStep, AnyFlush

\* What is asked for is at least one unit.
LEMMA WantedIs == ASSUME WriterInv, Asking PROVE Wanted \in Nat \ {0}
<1>1. Len(chunk) \in Nat /\ ChunkSize \in Nat
  BY Places, MultiPartAssumption DEF WriterInv
<1>2. at = "fill" => Len(chunk) < ChunkSize
  BY DEF WriterInv, ReadsFit
<1>3. QED BY <1>1, <1>2 DEF Asking, Wanted

\* Only the source's end, or a chunk it filled, lets the writer go on.
LEMMA EndingKept ==
  ASSUME WriterInv, Ending, SourcedMove, SourceEnded => SourceEnded' PROVE Ending'
<1>1. /\ Len(chunk) \in Nat /\ ChunkSize \in Nat /\ ChunkSize > 0 /\ Len(<<>>) = 0
  <2>1. Len(chunk) \in Nat
    BY Places DEF WriterInv
  <2>2. QED BY <2>1, MultiPartAssumption
<1>2. CASE AnyPreflight
  BY <1>2 DEF AnyPreflight, Stop, Ending
<1>3. CASE AnyAnswer
  <2>1. PICK units \in Seq(Unit) : Answer(units)
    BY <1>3 DEF AnyAnswer
  <2>2. /\ at' \in {"create", "fill", "absorb"} /\ UNCHANGED <<exhausted, outcome>>
        /\ at' = "absorb" => Len(chunk') = ChunkSize
    BY <2>1 DEF Answer, Filled
  <2>3. QED BY <1>1, <2>2 DEF Ending
<1>4. CASE AnswerEnd /\ SourceEnded'
  BY <1>4 DEF Ending
<1>5. CASE CreatePart
  <2>1. /\ at' \in {"fill", "absorb"} /\ UNCHANGED <<chunk, outcome>> /\ exhausted' = FALSE
        /\ at' = "absorb" => Len(chunk) = ChunkSize
    BY <1>5 DEF CreatePart, Filled
  <2>2. QED BY <1>1, <2>1 DEF Ending
<1>6. CASE NothingRead
  <2>1. SourceEnded'
    BY <1>1, <1>6 DEF NothingRead, Ending
  <2>2. QED BY <2>1 DEF Ending
<1>7. CASE Absorb \/ Feed
  BY <1>7 DEF Absorb, Feed, Ending
<1>8. CASE Push
  <2>1. at = "feed" /\ (exhausted' <=> Len(chunk) < ChunkSize) /\ at' \in {"flush", "fill"}
        /\ outcome' = outcome
    BY <1>8 DEF Push
  <2>2. QED BY <2>1 DEF Ending
<1>9. CASE \E cost \in 1..Len(bevy) : FlushBevy(cost)
  BY <1>9 DEF FlushBevy, Ending
<1>10. CASE EndPart
  BY <1>10 DEF EndPart, Stop, Ending
<1>11. CASE CollectDigests \/ FinishFirstPart
  BY <1>11 DEF CollectDigests, FinishFirstPart, Stop, Ending
<1>12. CASE Fails
  BY <1>12 DEF Fails, Stop, Ending
<1>13. CASE WorkerStep
  BY <1>13 DEF WorkerStep, Work, Ending
<1>14. QED BY <1>2, <1>3, <1>4, <1>5, <1>6, <1>7, <1>8, <1>9, <1>10, <1>11, <1>12, <1>13
           DEF SourcedMove, WriterStep

\* What the device returns is what was added to the image.
LEMMA AddedIs ==
  ASSUME NEW S, NEW s \in Seq(S), NEW t \in Seq(S)
  PROVE  SubSeq(s \o t, Len(s) + 1, Len(s \o t)) = t
<1> DEFINE u == SubSeq(s \o t, Len(s) + 1, Len(s \o t))
<1>1. /\ s \o t \in Seq(S) /\ Len(s \o t) = Len(s) + Len(t) /\ Len(s) \in Nat /\ Len(t) \in Nat
      /\ \A i \in 1..Len(s) + Len(t) :
           (s \o t)[i] = IF i <= Len(s) THEN s[i] ELSE t[i - Len(s)]
  BY ConcatProperties, LenProperties
<1>2. Len(s) + 1 \in 1..(Len(s \o t) + 1) /\ Len(s \o t) \in (Len(s) + 1 - 1)..Len(s \o t)
  BY <1>1
<1>3. /\ u \in Seq(S) /\ Len(u) = Len(t)
      /\ \A i \in 1..Len(t) : u[i] = (s \o t)[Len(s) + i]
  <2>1. PICK q, a, b : q = s \o t /\ a = Len(s) /\ b = Len(t)
    OBVIOUS
  <2>2. q \in Seq(S) /\ Len(q) = a + b /\ a \in Nat /\ b \in Nat
    BY <1>1, <2>1
  <2>3. /\ SubSeq(q, a + 1, a + b) \in Seq(S) /\ Len(SubSeq(q, a + 1, a + b)) = b
        /\ \A i \in 1..b : SubSeq(q, a + 1, a + b)[i] = q[a + i]
    BY <2>2
  <2>4. QED BY <2>1, <2>2, <2>3
<1> HIDE DEF u
<1>4. \A i \in 1..Len(t) : u[i] = t[i]
  <2>1. ASSUME NEW i \in 1..Len(t) PROVE u[i] = t[i]
    <3>1. Len(s) + i \in 1..Len(s) + Len(t) /\ ~(Len(s) + i <= Len(s)) /\ (Len(s) + i) - Len(s) = i
      BY <1>1
    <3>2. QED BY <1>1, <1>3, <3>1
  <2>2. QED BY <2>1
<1>5. u = t
  BY <1>1, <1>3, <1>4, SeqEqual
<1>6. QED BY <1>5 DEF u

\* A read of the device: what the caller gets the writer gets, no more than it
\* asked for, and it is told of the end when the device has ended.
LEMMA DeviceReads ==
  ASSUME WriterInv, NamesInv, Asked, kind = "device", given = image, ReadDevice
  PROVE  /\ DeviceMove /\ UNCHANGED <<splitVars, kind>> /\ pc # "ended"
         /\ SourcedMove \/ UNCHANGED writerVars
         /\ Asked' /\ given' = image'
<1>1. /\ Asking /\ UNCHANGED <<splitVars, kind>> /\ kind' = "device"
      /\ Returns(SubSeq(image', Len(image) + 1, Len(image')), pc' = "ended")
      /\ \/ ServeBuffered(Wanted) \/ BeginBlock(Wanted) \/ EndOfDevice
         \/ BlockStep \/ SectorStep
  BY DEF ReadDevice
<1>2. Wanted \in Nat \ {0}
  BY <1>1, WantedIs
<1>3. DeviceMove
  BY <1>1, <1>2 DEF DeviceMove
<1>4. DeviceShape /\ image \in Seq(Contents) /\ Contents \subseteq Unit
  BY ImageAcquireAssumption DEF NamesInv, DeviceShape
<1>5. CASE EndOfDevice
  <2>1. pc = "ready" /\ pc' = "ended" /\ image' = image
    BY <1>5 DEF EndOfDevice
  <2>2. AnswerEnd
    BY <1>1, <2>1 DEF Returns
  <2>3. SourceEnded'
    BY <1>1, <2>1 DEF SourceEnded
  <2>4. given' = given
    BY <2>2 DEF AnswerEnd
  <2>5. Asked'
    BY <2>1 DEF Asked
  <2>6. QED BY <1>1, <1>3, <2>1, <2>2, <2>3, <2>4, <2>5 DEF SourcedMove
<1>6. CASE ~EndOfDevice
  <2>1. pc # "ended" /\ pc' # "ended"
    BY <1>1, <1>6 DEF ServeBuffered, BeginBlock, BlockStep, SectorStep, BlockRead, BlockShort,
       BlockFails, SectorRead, AtSector, SectorFails, SectorGivenUp, LeaveRetry
  <2>2. /\ pc' \in {"block", "sector", "again"} => image' = image /\ request' = Wanted
        /\ pc \notin {"block", "sector", "again"} =>
             ServeBuffered(Wanted) \/ BeginBlock(Wanted)
        /\ pc \in {"block", "sector", "again"} => request = Wanted
    <3>1. pc \in {"block", "sector", "again"} => request = Wanted
      BY DEF Asked
    <3>2. CASE ServeBuffered(Wanted)
      BY <3>1, <3>2 DEF ServeBuffered
    <3>3. CASE BeginBlock(Wanted)
      BY <3>1, <3>3 DEF BeginBlock
    <3>4. CASE BlockStep
      BY <3>1, <3>4 DEF BlockStep, BlockRead, BlockShort, BlockFails, callVars
    <3>5. CASE SectorStep
      BY <3>1, <3>5 DEF SectorStep, SectorRead, AtSector, SectorFails, SectorGivenUp, LeaveRetry,
         callVars
    <3>6. QED BY <1>1, <1>6, <3>2, <3>3, <3>4, <3>5
  <2>3. PICK units \in Seq(Contents) : image' = image \o units /\ Len(units) <= Wanted
    <3>1. image = image \o <<>> /\ <<>> \in Seq(Contents) /\ Len(<<>>) = 0 /\ 0 <= Wanted
      BY <1>2, <1>4, ConcatEmptySeq, EmptySeq
    <3>2. CASE ServeBuffered(Wanted)
      BY <1>2, <1>4, <3>2, DeviceMoves DEF ReturnsUpTo
    <3>3. CASE BeginBlock(Wanted)
      BY <3>1, <3>3 DEF BeginBlock
    <3>4. CASE BlockStep \/ SectorStep
      <4>1. request = Wanted
        BY <2>2, <3>4 DEF BlockStep, SectorStep, BlockRead, BlockShort, BlockFails, SectorRead,
           AtSector, SectorFails, SectorGivenUp, LeaveRetry
      <4>2. UNCHANGED image \/ ReturnsUpTo(Wanted)
        BY <1>4, <3>4, <4>1, DeviceMoves
      <4>3. QED BY <3>1, <4>2 DEF ReturnsUpTo
    <3>5. QED BY <1>1, <1>6, <3>2, <3>3, <3>4
  <2>4. SubSeq(image', Len(image) + 1, Len(image')) = units
    <3>1. SubSeq(image \o units, Len(image) + 1, Len(image \o units)) = units
      BY <1>4, AddedIs
    <3>2. QED BY <2>3, <3>1
  <2>5. IF units # <<>> THEN Answer(units) ELSE UNCHANGED writerVars
    BY <1>1, <2>1, <2>4 DEF Returns
  <2>6. units \in Seq(Unit)
    BY <1>4
  <2>7. CASE units = <<>>
    <3>1. UNCHANGED writerVars /\ image' = image
      BY <1>4, <2>3, <2>5, <2>7, ConcatEmptySeq
    <3>2. given' = given /\ at' = at /\ chunk' = chunk
      BY <3>1 DEF writerVars
    <3>3. Asked'
      BY <1>1, <2>2, <3>2 DEF Asked, Asking, Wanted
    <3>4. QED BY <1>1, <1>3, <2>1, <3>1, <3>2, <3>3
  <2>8. CASE units # <<>>
    <3>1. Answer(units) /\ AnyAnswer
      BY <2>3, <2>5, <2>6, <2>8 DEF AnyAnswer
    <3>2. given' = image'
      BY <2>3, <3>1 DEF Answer
    <3>3. image' # image
      <4>1. Len(image') = Len(image) + Len(units) /\ Len(image) \in Nat /\ Len(units) \in Nat
        BY <1>4, <2>3, ConcatProperties, LenProperties
      <4>2. Len(units) # 0
        BY <2>3, <2>8, EmptySeq
      <4>3. QED BY <4>1, <4>2
    <3>4. Asked'
      BY <2>2, <3>3 DEF Asked
    <3>5. QED BY <1>1, <1>3, <2>1, <3>1, <3>2, <3>4 DEF SourcedMove
  <2>9. QED BY <2>7, <2>8
<1>7. QED BY <1>5, <1>6

\* The first units of a file, and the ones a read takes after them.
LEMMA FirstUnitsAre ==
  ASSUME FolderShape, NEW p \in Present, NEW n \in 0..folder[p]
  PROVE  /\ FirstUnits(p, n) \in Seq(Unit) /\ Len(FirstUnits(p, n)) = n
         /\ FirstUnits(p, 0) = <<>> /\ FirstUnits(p, folder[p]) = FileUnits(p)
         /\ \A m \in 0..(folder[p] - n) :
              /\ [i \in 1..m |-> FileUnit(p, n + i)] \in Seq(Unit)
              /\ Len([i \in 1..m |-> FileUnit(p, n + i)]) = m
              /\ FirstUnits(p, n) \o [i \in 1..m |-> FileUnit(p, n + i)] = FirstUnits(p, n + m)
<1>1. /\ folder[p] \in Nat /\ \A i \in 1..folder[p] : FileUnit(p, i) \in Unit
  BY FileIs, ImageAcquireAssumption DEF FolderShape, Present
<1>2. \A k \in 0..folder[p] : /\ FirstUnits(p, k) \in Seq(Unit) /\ Len(FirstUnits(p, k)) = k
                             /\ \A i \in 1..k : FirstUnits(p, k)[i] = FileUnit(p, i)
  <2>1. ASSUME NEW k \in 0..folder[p]
        PROVE  /\ FirstUnits(p, k) \in Seq(Unit) /\ Len(FirstUnits(p, k)) = k
               /\ \A i \in 1..k : FirstUnits(p, k)[i] = FileUnit(p, i)
    <3>1. k \in Nat /\ FirstUnits(p, k) \in [1..k -> Unit]
      BY <1>1 DEF FirstUnits
    <3>2. QED BY <3>1, IsASeq, LenProperties DEF FirstUnits
  <2>2. QED BY <2>1
<1>3. FirstUnits(p, 0) = <<>>
  BY <1>1, <1>2, EmptySeq
<1>4. FirstUnits(p, folder[p]) = FileUnits(p)
  BY DEF FirstUnits, FileUnits
<1>5. ASSUME NEW m \in 0..(folder[p] - n)
      PROVE  /\ [i \in 1..m |-> FileUnit(p, n + i)] \in Seq(Unit)
             /\ Len([i \in 1..m |-> FileUnit(p, n + i)]) = m
             /\ FirstUnits(p, n) \o [i \in 1..m |-> FileUnit(p, n + i)] = FirstUnits(p, n + m)
  <2> DEFINE a == FirstUnits(p, n)
             b == [i \in 1..m |-> FileUnit(p, n + i)]
             c == FirstUnits(p, n + m)
  <2>0. m \in Nat /\ n \in Nat /\ n + m \in 0..folder[p]
    BY <1>1
  <2>1. b \in Seq(Unit) /\ Len(b) = m /\ \A i \in 1..m : b[i] = FileUnit(p, n + i)
    <3>1. \A i \in 1..m : n + i \in 1..folder[p]
      BY <1>1
    <3>2. b \in [1..m -> Unit]
      BY <1>1, <3>1
    <3>3. \A i \in 1..m : b[i] = FileUnit(p, n + i)
      OBVIOUS
    <3> HIDE DEF b
    <3>4. b \in Seq(Unit) /\ Len(b) = m
      BY <2>0, <3>2, IsASeq, LenProperties
    <3>5. QED BY <3>3, <3>4
  <2>2. /\ a \in Seq(Unit) /\ Len(a) = n /\ \A i \in 1..n : a[i] = FileUnit(p, i)
        /\ c \in Seq(Unit) /\ Len(c) = n + m /\ \A i \in 1..(n + m) : c[i] = FileUnit(p, i)
    BY <1>2, <2>0
  <2> HIDE DEF a, b, c
  <2>3. /\ a \o b \in Seq(Unit) /\ Len(a \o b) = n + m
        /\ \A i \in 1..(n + m) : (a \o b)[i] = IF i <= n THEN a[i] ELSE b[i - n]
    BY <2>1, <2>2, ConcatProperties
  <2>4. ASSUME NEW i \in 1..(n + m) PROVE (a \o b)[i] = c[i]
    <3>1. CASE i <= n
      BY <2>0, <2>2, <2>3, <3>1
    <3>2. CASE ~(i <= n)
      <4>1. i - n \in 1..m /\ n + (i - n) = i
        BY <2>0, <3>2
      <4>2. QED BY <2>1, <2>2, <2>3, <3>2, <4>1
    <3>3. QED BY <3>1, <3>2
  <2>5. a \o b = c
    BY <2>2, <2>3, <2>4, SeqEqual
  <2>6. QED BY <2>1, <2>5 DEF a, b, c
<1>6. QED BY <1>2, <1>3, <1>4, <1>5

\* A read of the files: the units of the file that is open, in order, and the
\* next file once they are all read.
LEMMA FilesReads ==
  ASSUME WriterInv, FilesInv, SourceRead, kind = "files", ReadFiles
  PROVE  /\ UNCHANGED <<vars, kind>> /\ ~SourceEnded
         /\ SourcedMove \/ UNCHANGED writerVars
         /\ FilesInv' /\ SourceRead'
<1> DEFINE p == found[index]
<1>1. /\ Asking /\ UNCHANGED <<vars, kind>> /\ kind' = "files"
      /\ \/ \E n \in 1..Wanted : ReadFile(n) /\ Returns(Read(n), FALSE)
         \/ Advance /\ Returns(<<>>, ~current')
  BY DEF ReadFiles
<1>2. current /\ UNCHANGED <<folder, named, resolved, found>>
  BY <1>1 DEF ReadFile, Advance
<1>3. /\ FolderShape /\ resolved = "yes" /\ index \in 1..Len(found) /\ offset \in 0..folder[p]
      /\ p \in Present /\ offset \in Nat /\ Len(found) \in Nat
      /\ given = Filewise[index - 1] \o FirstUnits(p, offset)
  <2>1. FolderShape /\ resolved = "yes" /\ index \in 1..Len(found) /\ offset \in Nat
        /\ offset <= folder[p] /\ found \in Seq(Present)
    BY <1>2 DEF FilesInv, FolderShape
  <2>2. p \in Present /\ Len(found) \in Nat
    BY <2>1, ElementOfSeq, LenProperties
  <2>3. folder[p] \in Nat
    BY <2>1, <2>2, FileIs
  <2>4. given = Filewise[index - 1] \o FirstUnits(p, offset)
    BY <1>2 DEF SourceRead
  <2>5. QED BY <2>1, <2>2, <2>3, <2>4
<1>4. /\ IsFilewise(Filewise) /\ FoundUnits = Filewise[Len(found)]
      /\ Filewise[index - 1] \in Seq(Unit)
      /\ Filewise[index] = Filewise[index - 1] \o FileUnits(p)
  <2>1. IsFilewise(Filewise) /\ FoundUnits = Filewise[Len(found)]
    BY <1>3, FoundIsFilewise
  <2>2. index - 1 \in 0..Len(found)
    BY <1>3
  <2>3. QED BY <1>3, <2>1, <2>2 DEF IsFilewise
<1>5. FolderShape' /\ Filewise' = Filewise /\ FoundUnits' = FoundUnits
  <2>1. FolderShape'
    BY <1>2, <1>3 DEF FolderShape, Present
  <2>2. Filewise' = Filewise
    BY <1>2 DEF Filewise, IsFilewise, FileUnits
  <2>3. (IsFilewise(Filewise) /\ FoundUnits = Filewise[Len(found)])'
    BY <2>1, FoundNext
  <2>4. QED BY <1>2, <1>4, <2>1, <2>2, <2>3
<1>6. ~SourceEnded
  BY <1>2 DEF SourceEnded
<1>7. ASSUME NEW n \in 1..Wanted, ReadFile(n), Returns(Read(n), FALSE)
      PROVE  SourcedMove /\ FilesInv' /\ SourceRead'
  <2>1. n \in Nat \ {0} /\ n <= Wanted
    BY <1>1, WantedIs
  <2>2. n <= folder[p] - offset /\ offset' = offset + n /\ UNCHANGED <<index, current>>
    BY <1>7 DEF ReadFile
  <2>3. folder[p] \in Nat /\ n \in 0..(folder[p] - offset) /\ offset' \in Nat /\ offset' <= folder[p]
    BY <1>3, <2>1, <2>2, FileIs
  <2>4. /\ Read(n) \in Seq(Unit) /\ Len(Read(n)) = n
        /\ FirstUnits(p, offset) \o Read(n) = FirstUnits(p, offset + n)
        /\ FirstUnits(p, offset) \in Seq(Unit)
    <3>1. Read(n) = [i \in 1..n |-> FileUnit(p, offset + i)]
      BY DEF Read
    <3>2. PICK q, o : q = p /\ o = offset
      OBVIOUS
    <3>3. q \in Present /\ o \in 0..folder[q] /\ FolderShape /\ n \in 0..(folder[q] - o)
      BY <1>3, <2>3, <3>2
    <3>4. /\ FirstUnits(q, o) \in Seq(Unit)
          /\ \A m \in 0..(folder[q] - o) :
               /\ [i \in 1..m |-> FileUnit(q, o + i)] \in Seq(Unit)
               /\ Len([i \in 1..m |-> FileUnit(q, o + i)]) = m
               /\ FirstUnits(q, o) \o [i \in 1..m |-> FileUnit(q, o + i)] = FirstUnits(q, o + m)
      BY <3>3, FirstUnitsAre
    <3>5. Read(n) = [i \in 1..n |-> FileUnit(q, o + i)]
      BY <3>1, <3>2
    <3>6. /\ [i \in 1..n |-> FileUnit(q, o + i)] \in Seq(Unit)
          /\ Len([i \in 1..n |-> FileUnit(q, o + i)]) = n
          /\ FirstUnits(q, o) \o [i \in 1..n |-> FileUnit(q, o + i)] = FirstUnits(q, o + n)
      BY <3>3, <3>4
    <3>7. QED BY <3>2, <3>4, <3>5, <3>6
  <2>5. Read(n) # <<>>
    BY <2>1, <2>4, EmptySeq
  <2>6. Answer(Read(n))
    BY <1>7, <2>5 DEF Returns
  <2>7. SourcedMove
    BY <2>1, <2>4, <2>5, <2>6 DEF SourcedMove, AnyAnswer
  <2>8. given' = Filewise[index - 1] \o FirstUnits(p, offset + n)
    <3>1. given' = (Filewise[index - 1] \o FirstUnits(p, offset)) \o Read(n)
      BY <1>3, <2>6 DEF Answer
    <3>2. PICK a, b, c : a = Filewise[index - 1] /\ b = FirstUnits(p, offset) /\ c = Read(n)
      OBVIOUS
    <3>3. a \in Seq(Unit)
      BY <1>4, <3>2
    <3>4. b \in Seq(Unit)
      BY <2>4, <3>2
    <3>5. c \in Seq(Unit)
      BY <2>4, <3>2
    <3>6. (a \o b) \o c = a \o (b \o c)
      BY <3>3, <3>4, <3>5, JoinsEitherWay
    <3>7. QED BY <2>4, <3>1, <3>2, <3>6
  <2>9. FilesInv'
    BY <1>2, <1>3, <1>5, <2>2, <2>3 DEF FilesInv
  <2>10. SourceRead'
    <3>1. current' /\ resolved' = "yes" /\ kind' = "files"
      BY <1>1, <1>2, <1>3, <2>2
    <3>2. given' = Filewise'[index' - 1] \o FirstUnits(found'[index'], offset')
      BY <1>2, <1>5, <2>2, <2>8
    <3>3. QED BY <3>1, <3>2 DEF SourceRead, FirstUnits, FileUnit
  <2>11. QED BY <2>7, <2>9, <2>10
<1>8. ASSUME Advance, Returns(<<>>, ~current')
      PROVE  (SourcedMove \/ UNCHANGED writerVars) /\ FilesInv' /\ SourceRead'
  <2>1. offset = folder[p] /\ offset' = 0
    BY <1>8 DEF Advance
  <2>2. given = Filewise[index]
    BY <1>3, <1>4, <2>1, FirstUnitsAre
  <2>3. given' = given
    BY <1>8 DEF Returns, AnswerEnd, writerVars
  <2>4. CASE index < Len(found)
    <3>1. index' = index + 1 /\ current' = current
      BY <1>8, <2>4 DEF Advance
    <3>2. UNCHANGED writerVars
      BY <1>2, <1>8, <3>1 DEF Returns
    <3>3. index' \in 1..Len(found) /\ found[index'] \in Present /\ index' - 1 = index
      <4>1. index' \in 1..Len(found) /\ index' - 1 = index
        BY <1>3, <2>4, <3>1
      <4>2. QED BY <1>3, <4>1, ElementOfSeq DEF FolderShape
    <3>4. folder[found[index']] \in Nat
      BY <1>3, <3>3, FileIs
    <3>5. FilesInv'
      BY <1>2, <1>3, <1>5, <2>1, <3>1, <3>3, <3>4 DEF FilesInv
    <3>6. given' = Filewise[index] \o FirstUnits(found[index'], 0)
      <4>1. FirstUnits(found[index'], 0) = <<>>
        BY <1>3, <3>3, <3>4, FirstUnitsAre
      <4>2. Filewise[index] \in Seq(Unit)
        <5>1. index \in 0..Len(found)
          BY <1>3
        <5>2. QED BY <1>4, <5>1 DEF IsFilewise
      <4>3. QED BY <2>2, <2>3, <4>1, <4>2, ConcatEmptySeq
    <3>7. SourceRead'
      <4>1. current' /\ resolved' = "yes" /\ kind' = "files"
        BY <1>1, <1>2, <1>3, <3>1
      <4>2. given' = Filewise'[index' - 1] \o FirstUnits(found'[index'], offset')
        BY <1>2, <1>5, <2>1, <3>3, <3>6
      <4>3. QED BY <4>1, <4>2 DEF SourceRead, FirstUnits, FileUnit
    <3>8. QED BY <3>2, <3>5, <3>7
  <2>5. CASE ~(index < Len(found))
    <3>1. index' = index /\ current' = FALSE /\ index = Len(found)
      BY <1>3, <1>8, <2>5 DEF Advance
    <3>2. AnswerEnd
      BY <1>8, <3>1 DEF Returns
    <3>3. SourceEnded'
      BY <1>1, <1>2, <1>3, <3>1 DEF SourceEnded
    <3>4. FilesInv'
      BY <1>2, <1>3, <1>5, <2>1, <3>1 DEF FilesInv
    <3>5. given' = FoundUnits'
      BY <1>4, <1>5, <2>2, <2>3, <3>1
    <3>6. SourceRead'
      BY <1>1, <1>2, <1>3, <3>1, <3>5 DEF SourceRead
    <3>7. QED BY <3>2, <3>3, <3>4, <3>6 DEF SourcedMove
  <2>6. QED BY <2>4, <2>5
<1>9. QED BY <1>1, <1>6, <1>7, <1>8

\* Resolving finds the files from the named one to the first missing, opens the
\* first and reads nothing; or the writer is refused.
LEMMA Resolving ==
  ASSUME FilesInv, SourceRead, kind = "files", Resolve
  PROVE  /\ UNCHANGED <<vars, kind, given>> /\ ~SourceEnded
         /\ SourcedMove \/ UNCHANGED writerVars
         /\ FilesInv' /\ SourceRead'
<1>1. /\ UNCHANGED <<vars, kind>> /\ at = "preflight" /\ resolved = "no" /\ kind' = "files"
      /\ \/ ResolveSet /\ UNCHANGED writerVars
         \/ /\ RefuseSet /\ Stop("refused")
            /\ UNCHANGED <<given, chunk, fed, bevy, partVars, exhausted, hashVars>>
  BY DEF Resolve, ResolveSet, RefuseSet
<1>2. FolderShape /\ ~current /\ offset = 0 /\ given = <<>> /\ ~SourceEnded
  BY <1>1 DEF FilesInv, SourceRead, SourceEnded
<1>3. ASSUME RefuseSet, Stop("refused"),
             UNCHANGED <<given, chunk, fed, bevy, partVars, exhausted, hashVars>>
      PROVE  AnyPreflight /\ given' = given /\ FilesInv' /\ SourceRead'
  <2>1. AnyPreflight /\ given' = given
    BY <1>1, <1>3 DEF AnyPreflight
  <2>2. resolved' = "refused" /\ UNCHANGED <<folder, named, found, index, offset, current>>
    BY <1>3 DEF RefuseSet
  <2>3. FilesInv'
    BY <1>1, <1>2, <2>2 DEF FilesInv, FolderShape, Present
  <2>4. SourceRead'
    BY <1>1, <1>2, <2>1, <2>2 DEF SourceRead
  <2>5. QED BY <2>1, <2>3, <2>4
<1>4. ASSUME ResolveSet, UNCHANGED writerVars PROVE given' = given /\ FilesInv' /\ SourceRead'
  <2>1. given' = <<>>
    BY <1>2, <1>4 DEF writerVars
  <2>2. PICK b : b = Break
    OBVIOUS
  <2>3. /\ b \in Nat /\ b > named /\ named \in Nat /\ named..(b - 1) \subseteq Present
    BY <1>2, <2>2, BreakIs
  <2>4. /\ resolved' = "yes" /\ index' = 1 /\ current' = TRUE
        /\ UNCHANGED <<folder, named, offset>>
        /\ found' = [i \in 1..(b - named) |-> named + i - 1]
    BY <1>4, <2>2 DEF ResolveSet
  <2>5. b - named \in Nat /\ b - named >= 1 /\ \A i \in 1..(b - named) : named + i - 1 \in named..(b - 1)
    BY <2>3
  <2>6. found' \in Seq(Present) /\ Len(found') = b - named
    <3>1. found' \in [1..(b - named) -> Present]
      BY <2>3, <2>4, <2>5
    <3>2. QED BY <2>5, <3>1, IsASeq, LenProperties
  <2>7. FolderShape'
    BY <1>2, <2>4, <2>6 DEF FolderShape, Present
  <2>8. index' \in 1..Len(found') /\ found'[1] = named' /\ named \in Present
    BY <1>2, <2>3, <2>4, <2>5, <2>6 DEF FolderShape
  <2>9. folder[named] \in Nat
    BY <1>2, <2>8, FileIs
  <2>10. FilesInv'
    <3>1. \A i \in 1..Len(found') : found'[i] = named' + i - 1
      BY <2>4, <2>6
    <3>2. offset' \in Nat /\ offset' <= folder'[found'[index']]
      BY <1>2, <2>4, <2>8, <2>9
    <3>3. QED BY <2>4, <2>7, <2>8, <3>1, <3>2 DEF FilesInv
  <2>11. given' = Filewise'[index' - 1] \o FirstUnits(found'[index'], offset')
    <3>1. Filewise'[0] = <<>>
      <4>1. IsFilewise(Filewise)'
        BY <2>7, FoundNext
      <4>2. QED BY <4>1 DEF IsFilewise
    <3>2. FirstUnits(named, 0) = <<>>
      BY <1>2, <2>8, <2>9, FirstUnitsAre
    <3>3. <<>> \o <<>> = <<>>
      BY ConcatEmptySeq, EmptySeq
    <3>4. index' - 1 = 0 /\ found'[index'] = named /\ offset' = 0
      BY <1>2, <2>4, <2>8
    <3>5. QED BY <2>1, <3>1, <3>2, <3>3, <3>4
  <2>12. SourceRead'
    BY <1>1, <2>4, <2>11 DEF SourceRead, FirstUnits, FileUnit
  <2>13. QED BY <1>2, <2>1, <2>10, <2>12
<1>5. QED BY <1>1, <1>2, <1>3, <1>4 DEF SourcedMove

\* While nothing of the source moves and nothing is given, what is known of the
\* source stays.
LEMMA SourceStands ==
  ASSUME FilesInv, SourceRead, UNCHANGED <<vars, splitVars, kind, given>>
  PROVE  FilesInv' /\ SourceRead' /\ SourceEnded' = SourceEnded
<1>1. UNCHANGED <<folder, named, resolved, found, index, offset, current, image, pc, kind, given>>
  BY DEF vars, splitVars
<1>2. FilesInv' /\ SourceEnded' = SourceEnded
  BY <1>1 DEF FilesInv, FolderShape, Present, SourceEnded
<1>3. Filewise' = Filewise
  BY <1>1 DEF Filewise, IsFilewise, FileUnits
<1>4. FoundUnits' = FoundUnits
  <2>1. FolderShape /\ FolderShape'
    BY <1>2 DEF FilesInv
  <2>2. FoundUnits = Filewise[Len(found)] /\ (FoundUnits = Filewise[Len(found)])'
    BY <2>1, FoundIsFilewise, FoundNext
  <2>3. QED BY <1>1, <1>3, <2>2
<1>5. SourceRead'
  BY <1>1, <1>3, <1>4 DEF SourceRead, FirstUnits, FileUnit
<1>6. QED BY <1>2, <1>5

\* The writer's own steps take nothing from the source, and none of them is
\* possible while a call of the device's reader is under way.
LEMMA WriterAlone ==
  ASSUME WriterInv, Asked, Begin \/ Write \/ Digest \/ Abort
  PROVE  /\ UNCHANGED <<vars, splitVars, kind, given>>
         /\ SourcedMove /\ Asked'
<1>1. UNCHANGED <<vars, splitVars, kind>>
  BY DEF Begin, Write, Digest, Abort
<1>2. CASE Begin
  <2>1. AnyPreflight
    BY <1>2 DEF Begin, Preflight, AnyPreflight
  <2>2. QED BY <1>1, <2>1 DEF AnyPreflight, SourcedMove, Asked, Asking, vars, callVars
<1>3. CASE Write
  <2>1. WriterStep
    BY <1>3 DEF Write
  <2>2. given' = given /\ ~Asking
    BY <2>1 DEF WriterStep, CreatePart, NothingRead, Absorb, Feed, Push, FlushBevy, EndPart,
       CollectDigests, FinishFirstPart, Asking
  <2>3. QED BY <1>1, <2>1, <2>2 DEF SourcedMove, Asked, vars, callVars
<1>4. CASE Digest
  <2>1. WorkerStep
    BY <1>4 DEF Digest
  <2>2. UNCHANGED <<given, at, chunk>>
    BY <2>1 DEF WorkerStep, Work
  <2>3. Asked'
    BY <1>1, <2>2 DEF Asked, Asking, Wanted, vars, callVars
  <2>4. QED BY <1>1, <2>1, <2>2, <2>3 DEF SourcedMove
<1>5. CASE Abort
  <2>1. Fails /\ (kind = "device" => ~Asking)
    BY <1>5 DEF Abort
  <2>2. given' = given
    BY <2>1 DEF Fails
  <2>3. Asked'
    BY <1>1, <2>1 DEF Asked, vars, callVars
  <2>4. QED BY <1>1, <2>1, <2>2, <2>3 DEF SourcedMove
<1>6. QED BY <1>2, <1>3, <1>4, <1>5

-----------------------------------------------------------------------------
(* The invariant *)

\* It holds before the command has read anything.
LEMMA AcquireBegins == ImageAcquireInit => AcquireInv
<1> SUFFICES ASSUME ImageAcquireInit PROVE AcquireInv
  OBVIOUS
<1>1. kind \in {"device", "files"}
  BY ImageAcquireAssumption DEF ImageAcquireInit
<1>2. DeviceInit /\ SplitInit /\ WriterInit
  BY DEF ImageAcquireInit
<1>3. WriterInv /\ NamesInv /\ Tried
  BY <1>2, WriterBegins, NamesBegin, TriedBegins
<1>4. Asked
  BY <1>2 DEF DeviceInit, Asked
<1>5. FilesInv
  <2>1. <<>> \in Seq(Present) /\ Len(<<>>) = 0
    BY EmptySeq
  <2>2. FolderShape
    BY <1>2, <2>1 DEF SplitInit, FolderShape
  <2>3. Len(found) = 0 /\ offset = 0 /\ resolved = "no" /\ current = FALSE
    BY <1>2, <2>1 DEF SplitInit
  <2>4. \A i \in 1..Len(found) : found[i] = named + i - 1
    BY <2>3
  <2>5. QED BY <2>2, <2>3, <2>4 DEF FilesInv
<1>6. SourceRead
  BY <1>2 DEF DeviceInit, SplitInit, WriterInit, SourceRead
<1>7. Ending
  BY <1>2 DEF WriterInit, Ending
<1>8. QED BY <1>1, <1>3, <1>4, <1>5, <1>6, <1>7 DEF AcquireInv

\* The steps of an acquisition are steps of its reader and of its writer, and
\* keep what relates the two.
LEMMA AcquireSteps ==
  ASSUME AcquireInv, ImageAcquireNext
  PROVE  /\ [DeviceMove]_vars /\ (SourcedMove \/ UNCHANGED writerVars) /\ kind' = kind
         /\ Asked' /\ FilesInv' /\ SourceRead' /\ (SourceEnded => SourceEnded')
<1>1. /\ kind \in {"device", "files"}
      /\ WriterInv /\ NamesInv /\ Asked /\ FilesInv /\ SourceRead
  BY DEF AcquireInv
<1>2. CASE ReadDevice
  <2>1. kind = "device" /\ given = image
    BY <1>1, <1>2 DEF ReadDevice, SourceRead
  <2>2. /\ DeviceMove /\ UNCHANGED <<splitVars, kind>> /\ pc # "ended"
        /\ SourcedMove \/ UNCHANGED writerVars
        /\ Asked' /\ given' = image'
    BY <1>1, <1>2, <2>1, DeviceReads
  <2>3. FilesInv'
    BY <1>1, <2>2 DEF splitVars, FilesInv, FolderShape, Present
  <2>4. SourceRead' /\ ~SourceEnded
    BY <2>1, <2>2 DEF SourceRead, SourceEnded
  <2>5. QED BY <2>2, <2>3, <2>4
<1>3. CASE ReadFiles
  <2>1. kind = "files"
    BY <1>3 DEF ReadFiles
  <2>2. /\ UNCHANGED <<vars, kind>> /\ ~SourceEnded
        /\ SourcedMove \/ UNCHANGED writerVars
        /\ FilesInv' /\ SourceRead'
    BY <1>1, <1>3, <2>1, FilesReads
  <2>3. Asked'
    BY <2>1, <2>2 DEF Asked
  <2>4. QED BY <2>2, <2>3
<1>4. CASE Resolve
  <2>1. kind = "files"
    BY <1>4 DEF Resolve
  <2>2. /\ UNCHANGED <<vars, kind, given>> /\ ~SourceEnded
        /\ SourcedMove \/ UNCHANGED writerVars
        /\ FilesInv' /\ SourceRead'
    BY <1>1, <1>4, <2>1, Resolving
  <2>3. Asked'
    BY <2>1, <2>2 DEF Asked
  <2>4. QED BY <2>2, <2>3
<1>5. CASE Begin \/ Write \/ Digest \/ Abort
  <2>1. /\ UNCHANGED <<vars, splitVars, kind, given>> /\ SourcedMove /\ Asked'
    BY <1>1, <1>5, WriterAlone
  <2>2. FilesInv' /\ SourceRead' /\ SourceEnded' = SourceEnded
    BY <1>1, <2>1, SourceStands
  <2>3. QED BY <2>1, <2>2
<1>6. QED BY <1>2, <1>3, <1>4, <1>5 DEF ImageAcquireNext, Acquisition

\* So every step keeps the invariant.
LEMMA AcquireKeeps == AcquireInv /\ [ImageAcquireNext]_allVars => AcquireInv'
<1> SUFFICES ASSUME AcquireInv, [ImageAcquireNext]_allVars PROVE AcquireInv'
  OBVIOUS
<1>1. kind \in {"device", "files"} /\ WriterInv /\ NamesInv /\ Tried /\ Ending /\ FilesInv /\ SourceRead /\ Asked
  BY DEF AcquireInv
<1>2. CASE ImageAcquireNext
  <2>1. /\ [DeviceMove]_vars /\ (SourcedMove \/ UNCHANGED writerVars) /\ kind' = kind
        /\ Asked' /\ FilesInv' /\ SourceRead' /\ (SourceEnded => SourceEnded')
    BY <1>2, AcquireSteps
  <2>2. WriterInv'
    BY <1>1, <2>1, SourcedIsMove, WriterKeeps
  <2>3. NamesInv' /\ Tried'
    BY <1>1, <2>1, NamesMove, TriedMoves
  <2>4. Ending'
    <3>1. CASE SourcedMove
      BY <1>1, <2>1, <3>1, EndingKept
    <3>2. CASE UNCHANGED writerVars
      BY <1>1, <2>1, <3>2 DEF writerVars, Ending
    <3>3. QED BY <2>1, <3>1, <3>2
  <2>5. QED BY <1>1, <2>1, <2>2, <2>3, <2>4 DEF AcquireInv
<1>3. CASE UNCHANGED allVars
  <2>1. UNCHANGED <<vars, splitVars, writerVars, kind>>
    BY <1>3 DEF allVars
  <2>2. WriterInv' /\ NamesInv' /\ Tried'
    BY <1>1, <2>1, WriterKeeps, NamesMove, TriedMoves
  <2>3. UNCHANGED <<at, chunk, exhausted, outcome, given>>
    BY <2>1 DEF writerVars
  <2>4. FilesInv' /\ SourceRead' /\ SourceEnded' = SourceEnded
    BY <1>1, <2>1, <2>3, SourceStands
  <2>5. Asked' /\ Ending'
    BY <1>1, <2>1, <2>3, <2>4 DEF Asked, Asking, Wanted, Ending, vars, callVars
  <2>6. QED BY <1>1, <2>1, <2>2, <2>4, <2>5 DEF AcquireInv
<1>4. QED BY <1>2, <1>3

-----------------------------------------------------------------------------
(* What is written *)

\* Every unit of the image is in an entry of the map.
LEMMA EntriesCover ==
  ASSUME WriterTypes, InHand, PartsTileTheImage
  PROVE  \A k \in 1..total : \E i \in 1..Len(entries) :
           k \in (entries[i].mapped + 1)..(entries[i].mapped + entries[i].length)
<1> DEFINE N == Len(entries)
           endOf(n) == IF n = 0 THEN 0 ELSE entries[n].mapped + entries[n].length
           in(i, k) == k \in (entries[i].mapped + 1)..(entries[i].mapped + entries[i].length)
           S == {n \in 0..N : \A k \in 1..endOf(n) : \E i \in 1..N : in(i, k)}
<1>1. /\ N \in Nat /\ total \in Nat
      /\ \A i \in 1..N : entries[i].mapped \in Nat /\ entries[i].length \in Nat
  BY Places
<1>0. N \in Nat
  BY <1>1
<1>2. \A i \in 1..N :
        /\ entries[i].mapped = IF i = 1 THEN 0 ELSE entries[i - 1].mapped + entries[i - 1].length
        /\ i = N => total = entries[i].mapped + entries[i].length
  BY DEF PartsTileTheImage
<1>3. total = endOf(N)
  <2>1. CASE N = 0
    BY <2>1 DEF InHand
  <2>2. CASE N # 0
    <3>1. N \in 1..N
      BY <1>0, <2>2
    <3>2. QED BY <1>2, <2>2, <3>1
  <2>3. QED BY <2>1, <2>2
<1>4. \A i \in 1..N : entries[i].mapped = endOf(i - 1) /\ endOf(i) = endOf(i - 1) + entries[i].length
                      /\ endOf(i - 1) \in Nat
  <2>1. ASSUME NEW i \in 1..N
        PROVE  /\ entries[i].mapped = endOf(i - 1) /\ endOf(i) = endOf(i - 1) + entries[i].length
               /\ endOf(i - 1) \in Nat
    <3>1. entries[i].mapped = endOf(i - 1)
      <4>1. i = 1 <=> i - 1 = 0
        BY <1>0
      <4>2. QED BY <1>2, <4>1
    <3>2. endOf(i) = entries[i].mapped + entries[i].length
      BY <1>0
    <3>3. entries[i].mapped \in Nat
      BY <1>1
    <3> HIDE DEF endOf
    <3>4. QED BY <3>1, <3>2, <3>3
  <2>2. QED BY <2>1
<1>5. endOf(0) = 0
  OBVIOUS
<1> HIDE DEF N, endOf
<1>6. 0 \in S
  BY <1>0, <1>5
<1>7. ASSUME NEW n \in 0..(N - 1), n \in S PROVE n + 1 \in S
  <2>1. n + 1 \in 1..N /\ n + 1 \in 0..N /\ (n + 1) - 1 = n
    BY <1>0
  <2>2. /\ entries[n + 1].mapped = endOf(n) /\ endOf(n + 1) = endOf(n) + entries[n + 1].length
        /\ endOf(n) \in Nat /\ entries[n + 1].length \in Nat
    BY <1>1, <1>4, <2>1
  <2>3. ASSUME NEW k \in 1..endOf(n + 1) PROVE \E i \in 1..N : in(i, k)
    <3>1. CASE k <= endOf(n)
      <4>1. k \in 1..endOf(n)
        BY <2>2, <3>1
      <4>2. QED BY <1>7, <4>1
    <3>2. CASE ~(k <= endOf(n))
      <4>1. in(n + 1, k)
        BY <2>2, <3>2
      <4>2. QED BY <2>1, <4>1
    <3>3. QED BY <3>1, <3>2
  <2>4. QED BY <2>1, <2>3
<1> HIDE DEF S
<1>8. N \in S
  <2>1. 0..N \subseteq S
    BY <1>0, <1>6, <1>7, NumbersUpTo
  <2>2. QED BY <1>0, <2>1
<1>9. \A k \in 1..endOf(N) : \E i \in 1..N : in(i, k)
  BY <1>8 DEF S
<1>10. QED BY <1>3, <1>9 DEF N

\* Read through the map, the parts of a finished set give back what was given.
LEMMA MapReadsBack ==
  ASSUME WriterInv, outcome = "written"
  PROVE  ThroughMap = given /\ Len(given) = total
<1>1. WriterTypes /\ InHand /\ PartsTileTheImage
  BY DEF WriterInv
<1>2. Len(given) = total /\ given \in Seq(Unit) /\ total \in Nat /\ Part = Len(entries)
  <2>1. DigestsCoverTheImage /\ 0 \in 0..Workers
    BY WriterPromises, MultiPartAssumption
  <2>2. Len(given) = total
    BY <2>1 DEF DigestsCoverTheImage
  <2>3. QED BY <1>1, <2>2 DEF WriterTypes, InHand
<1>3. ASSUME NEW k \in 1..total
      PROVE  parts[EntryAt(k)].stream[k - entries[EntryAt(k)].mapped] = given[k]
  <2>1. PICK i : i = EntryAt(k)
    OBVIOUS
  <2>2. /\ i \in 1..Len(entries)
        /\ k \in (entries[i].mapped + 1)..(entries[i].mapped + entries[i].length)
    BY <1>1, <2>1, EntriesCover DEF EntryAt
  <2>3. /\ entries[i].mapped \in Nat /\ entries[i].length \in Nat
        /\ entries[i].length = Len(parts[i].stream)
    BY <1>1, <2>2, Places DEF PartsTileTheImage
  <2>4. \A j \in 1..Len(parts[i].stream) : parts[i].stream[j] = given[entries[i].mapped + j]
    <3>1. Base(i) = entries[i].mapped
      BY <2>2 DEF Base
    <3>2. InOrder(parts[i].stream, Base(i), given)
      BY <1>1, <1>2, <2>2, TilesInOrder
    <3>3. QED BY <3>1, <3>2 DEF InOrder
  <2>5. /\ k - entries[i].mapped \in 1..Len(parts[i].stream)
        /\ entries[i].mapped + (k - entries[i].mapped) = k
    BY <2>2, <2>3
  <2>6. QED BY <2>1, <2>4, <2>5
<1>4. given = [k \in 1..total |-> given[k]]
  <2>1. given \in [1..Len(given) -> Unit]
    BY <1>2, LenProperties
  <2>2. QED BY <1>2, <2>1
<1>5. QED BY <1>2, <1>3, <1>4 DEF ThroughMap

\* The invariant says what a finished set is promised to be.
LEMMA AcquirePromises == AcquireInv => WrittenSetIsTheSource
<1> SUFFICES ASSUME AcquireInv, outcome = "written"
             PROVE  IF kind = "device"
                    THEN ThroughMap = image /\ total = Total
                    ELSE /\ ThroughMap = FoundUnits
                         /\ \A i \in 1..Len(found) : found[i] = named + i - 1
  BY DEF WrittenSetIsTheSource
<1>1. /\ kind \in {"device", "files"} /\ NamesInv /\ FilesInv /\ SourceRead /\ SourceEnded
      /\ ThroughMap = given /\ Len(given) = total
  BY MapReadsBack DEF AcquireInv, Ending
<1>2. CASE kind = "device"
  <2>1. pc = "ended" /\ given = image
    BY <1>1, <1>2 DEF SourceEnded, SourceRead
  <2>2. /\ Len(image) + Len(buffer) = position /\ buffer = <<>> /\ position = Total
        /\ image \in Seq(Contents)
    BY <1>1, <2>1 DEF NamesInv, DeviceShape
  <2>3. Len(image) = Total
    <3>1. Len(image) \in Nat /\ Len(<<>>) = 0
      BY <2>2, LenProperties
    <3>2. QED BY <2>2, <3>1
  <2>4. QED BY <1>1, <1>2, <2>1, <2>3
<1>3. CASE kind # "device"
  <2>1. kind = "files" /\ resolved = "yes" /\ ~current
    BY <1>1, <1>3 DEF SourceEnded
  <2>2. given = FoundUnits
    BY <1>1, <2>1 DEF SourceRead
  <2>3. QED BY <1>1, <1>3, <2>2 DEF FilesInv
<1>4. QED BY <1>2, <1>3

-----------------------------------------------------------------------------
(* What an acquisition promises *)

\* A set reported written is the source: the device's whole length as the
\* reader returned it, or the files found, each whole, in the order of their
\* numbers and with none missing; read back through the map of the first part.
THEOREM WrittenIsTheSource == ImageAcquireSpec => []WrittenSetIsTheSource
  BY AcquireBegins, AcquireKeeps, AcquirePromises, PTL DEF ImageAcquireSpec

\* The parts are the image in order and none is left open, and every digest
\* covers all of it, whichever source the writer reads.
THEOREM AcquiredPartsAreTheImage ==
  ImageAcquireSpec => []PartsAreTheImage /\ []DigestsCoverTheImage
<1>1. AcquireInv => PartsAreTheImage /\ DigestsCoverTheImage
  BY WriterPromises DEF AcquireInv
<1>2. QED BY <1>1, AcquireBegins, AcquireKeeps, PTL DEF ImageAcquireSpec

\* The report of an acquired device names exactly the sectors that were filled,
\* and none that reads at every attempt.
THEOREM AcquiredReportIsExact == ImageAcquireSpec => []ReportNamesExactlyTheFilled
<1>1. AcquireInv => ReportNamesExactlyTheFilled
  BY NamesPromise DEF AcquireInv
<1>2. QED BY <1>1, AcquireBegins, AcquireKeeps, PTL DEF ImageAcquireSpec

\* And where no sector is marginal, every sector of the image is the device's own
\* at that place or is recorded.
THEOREM AcquiredSectorsAreTheirOwn ==
  ASSUME \A m \in Media : m.marginal = {}
  PROVE  ImageAcquireSpec => []EverySectorIsItsOwnOrRecorded
<1>1. ImageAcquireInit => DeviceInv
  BY DeviceBegins DEF ImageAcquireInit
<1>2. AcquireInv /\ DeviceInv /\ [ImageAcquireNext]_allVars => DeviceInv'
  <2>1. AcquireInv /\ [ImageAcquireNext]_allVars => [DeviceMove]_vars
    BY AcquireSteps DEF allVars
  <2>2. QED BY <2>1, DeviceStepKeepsInv
<1>3. QED BY <1>1, <1>2, AcquireBegins, AcquireKeeps, DevicePromises, PTL DEF ImageAcquireSpec
=============================================================================
