-------------------------- MODULE ContainerProofs --------------------------
(***************************************************************************)
(* What a set remembers of its volumes, that it is opened whole, what an   *)
(* export of its files promises, and that a volume reads its members and   *)
(* nothing else, proved for every folder, command, order of opening,       *)
(* archive and container.  In order: the memo; sets of the same volumes,   *)
(* which open the same; the parts of a folder in their order; a folder one *)
(* writer left, and the set of all its volumes; what any set is made of; a *)
(* written set as it is opened; for the export, where a recorded path      *)
(* goes, how a second claimant is told apart, and the inductive invariant  *)
(* of its loop; and for a volume, the names it lists, what its directory   *)
(* says, what it is opened under, and the inductive invariant of its       *)
(* reads.                                                                  *)
(***************************************************************************)
EXTENDS OpenSet, LogicalExport, ZipReader, Inductions, FiniteSetTheorems, FunctionTheorems, TLAPS

-----------------------------------------------------------------------------
(* What is remembered *)

\* The set is the record its operations make.
IsSet == set = [members |-> set.members, holder |-> set.holder]
MemoInv == IsSet /\ HolderMemoIsTruth

(* A volume that is added leaves nothing remembered, and one that is refused, *)
(* or is there already, leaves the set as it was (push, add_volume).          *)
LEMMA AddingForgets ==
  ASSUME NEW s, NEW volume
  PROVE  AddVolume(s, volume) = s \/ AddVolume(s, volume) = [members |-> Append(s.members, volume), holder |-> Forgotten]
BY DEF AddVolume, Push

(* Who holds a stream depends on the volumes alone (holds_stream_data).       *)
LEMMA HolderOfMembers ==
  ASSUME NEW s, NEW t, s.members = t.members, NEW stream
  PROVE  HolderOf(s, stream) = HolderOf(t, stream)
BY DEF HolderOf, Indexes, First

(* Of a set that remembers nothing, nothing is remembered wrongly.            *)
LEMMA NothingRemembered ==
  ASSUME set'.holder = Forgotten, set' = [members |-> set'.members, holder |-> set'.holder]
  PROVE  MemoInv'
BY DEF MemoInv, IsSet, HolderMemoIsTruth, Forgotten

(* A volume added: the memo is forgotten, or the set is as it was.            *)
LEMMA AddedTruth ==
  ASSUME MemoInv, NEW volume, set' = AddVolume(set, volume)
  PROVE  MemoInv'
<1>1. CASE set' = set
  BY <1>1 DEF MemoInv, IsSet, HolderMemoIsTruth, HolderOf, Indexes, First
<1>2. CASE set' = [members |-> Append(set.members, volume), holder |-> Forgotten]
  BY <1>2, NothingRemembered
<1>. QED BY <1>1, <1>2, AddingForgets

(* A stream asked for: its holder is remembered as what it is now.            *)
LEMMA AskedTruth ==
  ASSUME MemoInv, NEW stream, set' = Asked(set, stream)
  PROVE  MemoInv'
<1>. DEFINE answers == [s \in DOMAIN set.holder \cup {stream} |->
                          IF s = stream THEN Holder(set, stream) ELSE set.holder[s]]
<1>1. set' = [members |-> set.members, holder |-> answers]
  BY DEF MemoInv, IsSet, Asked
<1>2. \A s : HolderOf(set', s) = HolderOf(set, s)
  BY <1>1, HolderOfMembers
<1>3. \A s \in DOMAIN answers : answers[s] = HolderOf(set, s)
  BY DEF MemoInv, HolderMemoIsTruth, Holder, Known
<1>. HIDE DEF answers
<1>4. \A s \in DOMAIN set'.holder : set'.holder[s] = HolderOf(set', s)
  BY <1>1, <1>2, <1>3
<1>. QED BY <1>1, <1>4 DEF MemoInv, IsSet, HolderMemoIsTruth

(* A new set remembers nothing, which is true.                                *)
LEMMA MemoInit == OpenInit => MemoInv
BY DEF OpenInit, MemoInv, IsSet, HolderMemoIsTruth, NoSet, Forgotten

(* Every operation of the set keeps the memo true.                            *)
LEMMA MemoStep == MemoInv /\ [OpenNext]_openVars => MemoInv'
<1>. SUFFICES ASSUME MemoInv, [OpenNext]_openVars PROVE MemoInv'
  OBVIOUS
<1>0. CASE set' = set
  BY <1>0 DEF MemoInv, IsSet, HolderMemoIsTruth, HolderOf, Indexes, First
<1>1. ASSUME NEW file \in folder, OpenDisk(file) \/ VerifyFile(file) \/ VerifyFolder(file)
      PROVE  set' = set
  BY <1>1 DEF OpenDisk, VerifyFile, VerifyFolder, Begin
<1>2. CASE OpenPrimary
  <2>1. CASE set' = set
    BY <1>0, <2>1
  <2>2. CASE set' = Single(NextPart)
    BY <2>2, NothingRemembered DEF Single
  <2>. QED BY <1>2, <2>1, <2>2 DEF OpenPrimary, Ends
<1>3. CASE OpenSibling
  <2>1. CASE set' = set
    BY <1>0, <2>1
  <2>2. CASE set' = AddVolume(set, NextPart)
    BY <2>2, AddedTruth
  <2>. QED BY <1>3, <2>1, <2>2 DEF OpenSibling, Ends
<1>4. ASSUME NEW stream \in Streams, ReadStream(stream) PROVE MemoInv'
  BY <1>4, AskedTruth DEF ReadStream
<1>5. ASSUME NEW file \in folder, AddLate(file) PROVE MemoInv'
  BY <1>5, AddedTruth DEF AddLate
<1>6. CASE RefuseSet \/ NoDiskImage \/ \E name : OpenImage(name)
  BY <1>0, <1>6 DEF RefuseSet, NoDiskImage, OpenImage
<1>7. CASE UNCHANGED openVars
  BY <1>0, <1>7 DEF openVars
<1>. QED BY <1>0, <1>1, <1>2, <1>3, <1>4, <1>5, <1>6, <1>7 DEF OpenNext

(* "Which volume holds a stream cannot change once the set is built"          *)
(* (holder_index of zip_volume_set.rs): for every folder, whatever is opened, *)
(* read and added, in any order, a remembered answer is what a fresh search   *)
(* gives.                                                                     *)
THEOREM MemoIsTruth == OpenSpec => []HolderMemoIsTruth
<1>1. MemoInv => HolderMemoIsTruth
  BY DEF MemoInv
<1>. QED BY <1>1, MemoInit, MemoStep, PTL DEF OpenSpec

\* The first that is so is one that is so, and none before it is.
LEMMA FirstIsThere ==
  ASSUME NEW found \in SUBSET Nat, found # {}
  PROVE  First(found) \in found /\ \A j \in found : First(found) <= j
<1>1. \E i \in found : \A j \in found : i <= j
  BY SmallestNumber
<1>. QED BY <1>1 DEF First

\* Of none there is no first.
LEMMA FirstOfNone == First({}) = None
BY DEF First

\* Of one it is that one.
LEMMA FirstOfOne ==
  ASSUME NEW i \in Nat
  PROVE  First({i}) = i
BY FirstIsThere

-----------------------------------------------------------------------------
(* The order of the siblings *)

\* Two sets of the same volumes with the same primary.
Alike(s, t) ==
  /\ Len(s.members) \in Nat \ {0} /\ Len(t.members) \in Nat \ {0}
  /\ s.members[1] = t.members[1]
  /\ \A i \in Indexes(s) : \E j \in Indexes(t) : s.members[i] = t.members[j]
  /\ \A j \in Indexes(t) : \E i \in Indexes(s) : t.members[j] = s.members[i]

\* A conflict is any two volumes stating different values.
LEMMA DisagreeMeans ==
  ASSUME NEW s, Len(s.members) \in Nat, NEW stream, NEW predicate
  PROVE  Disagree(s, stream, predicate) <=>
           \E i, j \in Indexes(s) :
             /\ s.members[i].facts[stream][predicate] # Absent
             /\ s.members[j].facts[stream][predicate] # Absent
             /\ s.members[i].facts[stream][predicate] # s.members[j].facts[stream][predicate]
<1>. PICK n \in Nat : n = Len(s.members)
  OBVIOUS
<1>. DEFINE says(i) == s.members[i].facts[stream][predicate]
            stating == {i \in 1..n : says(i) # Absent}
            first == First(stating)
<1>1. Disagree(s, stream, predicate) <=> first # None /\ \E i \in (first + 1)..n : says(i) \notin {Absent, says(first)}
  BY DEF Disagree, Indexes
<1>2. stating \in SUBSET Nat /\ 0 \notin stating
  OBVIOUS
<1>3. stating # {} => first \in stating /\ \A j \in stating : first <= j
  BY <1>2, FirstIsThere
<1>4. stating = {} => first = None
  BY FirstOfNone
<1>. HIDE DEF first
<1>5. ASSUME first # None, NEW i \in (first + 1)..n, says(i) \notin {Absent, says(first)}
      PROVE  \E j, k \in 1..n : says(j) # Absent /\ says(k) # Absent /\ says(j) # says(k)
  <2>1. first \in 1..n /\ says(first) # Absent
    BY <1>3, <1>4, <1>5
  <2>2. i \in 1..n
    <3>1. i \in (first + 1)..n
      BY <1>5
    <3>2. first \in Nat
      BY <2>1
    <3>. QED BY <3>1, <3>2
  <2>. QED BY <1>5, <2>1, <2>2
<1>6. ASSUME NEW j \in 1..n, NEW k \in 1..n, says(j) # Absent, says(k) # Absent, says(j) # says(k)
      PROVE  first # None /\ \E i \in (first + 1)..n : says(i) \notin {Absent, says(first)}
  <2>1. j \in stating /\ k \in stating
    BY <1>6
  <2>2. first \in 1..n /\ first <= j /\ first <= k
    BY <1>3, <2>1
  <2>3. PICK i \in {j, k} : says(i) # says(first)
    BY <1>6
  <2>4. i \in (first + 1)..n /\ says(i) # Absent
    <3>1. i \in 1..n /\ first <= i /\ says(i) # Absent
      BY <1>6, <2>2, <2>3
    <3>2. i # first
      BY <2>3
    <3>. QED BY <2>2, <3>1, <3>2
  <2>5. first # None
    BY <2>2 DEF None
  <2>. QED BY <2>3, <2>4, <2>5
<1>. HIDE DEF says
<1>7. Disagree(s, stream, predicate) <=> \E j, k \in 1..n : says(j) # Absent /\ says(k) # Absent /\ says(j) # says(k)
  BY <1>1, <1>5, <1>6
<1>. QED BY <1>7 DEF says, Indexes

\* Sets of the same volumes disagree in the same.
LEMMA DisagreeAlike ==
  ASSUME NEW s, NEW t, Alike(s, t), NEW stream, NEW predicate, Disagree(s, stream, predicate)
  PROVE  Disagree(t, stream, predicate)
<1>1. PICK i, j \in Indexes(s) :
         /\ s.members[i].facts[stream][predicate] # Absent
         /\ s.members[j].facts[stream][predicate] # Absent
         /\ s.members[i].facts[stream][predicate] # s.members[j].facts[stream][predicate]
  BY DisagreeMeans DEF Alike
<1>2. PICK k \in Indexes(t) : s.members[i] = t.members[k]
  BY DEF Alike
<1>3. PICK l \in Indexes(t) : s.members[j] = t.members[l]
  BY DEF Alike
<1>4. \E a, b \in Indexes(t) :
         /\ t.members[a].facts[stream][predicate] # Absent
         /\ t.members[b].facts[stream][predicate] # Absent
         /\ t.members[a].facts[stream][predicate] # t.members[b].facts[stream][predicate]
  BY <1>1, <1>2, <1>3
<1>. QED BY <1>4, DisagreeMeans DEF Alike

\* Being alike goes both ways.
LEMMA AlikeBack ==
  ASSUME NEW s, NEW t, Alike(s, t)
  PROVE  Alike(t, s)
BY DEF Alike

\* So a stream in conflict in one is in conflict in the other.
LEMMA ConflictAlike ==
  ASSUME NEW s, NEW t, Alike(s, t), NEW stream
  PROVE  InConflict(s, stream) <=> InConflict(t, stream)
BY AlikeBack, DisagreeAlike DEF InConflict

\* The first whole declaration is one, if there is one.
LEMMA DescribingIs ==
  ASSUME NEW s, Len(s.members) \in Nat, NEW stream
  PROVE  /\ Describing(s, stream) = None <=> \A i \in Indexes(s) : ~Whole(s.members[i].facts[stream])
         /\ Describing(s, stream) # None =>
              Describing(s, stream) \in Indexes(s) /\ Whole(s.members[Describing(s, stream)].facts[stream])
<1>. DEFINE found == {i \in Indexes(s) : Whole(s.members[i].facts[stream])}
<1>1. found \in SUBSET Nat /\ 0 \notin found /\ Describing(s, stream) = First(found)
  BY DEF Indexes, Describing
<1>2. CASE found = {}
  BY <1>1, <1>2, FirstOfNone
<1>3. CASE found # {}
  <2>1. First(found) \in found
    BY <1>1, <1>3, FirstIsThere
  <2>. QED BY <1>1, <2>1 DEF None
<1>. QED BY <1>2, <1>3

\* Where no two disagree every whole declaration says the same.
LEMMA DescribingAlike ==
  ASSUME NEW s, NEW t, Alike(s, t), NEW stream, ~InConflict(s, stream), Describing(s, stream) # None
  PROVE  /\ Describing(t, stream) # None
         /\ s.members[Describing(s, stream)].facts[stream].size = t.members[Describing(t, stream)].facts[stream].size
         /\ s.members[Describing(s, stream)].facts[stream].chunk = t.members[Describing(t, stream)].facts[stream].chunk
<1>0. Len(s.members) \in Nat /\ Len(t.members) \in Nat
  BY DEF Alike
<1>1. PICK i \in Indexes(s) : i = Describing(s, stream) /\ Whole(s.members[i].facts[stream])
  BY <1>0, DescribingIs
<1>2. PICK k \in Indexes(t) : s.members[i] = t.members[k]
  BY DEF Alike
<1>3. Describing(t, stream) # None
  BY <1>0, <1>1, <1>2, DescribingIs
<1>4. PICK j \in Indexes(t) : j = Describing(t, stream) /\ Whole(t.members[j].facts[stream])
  BY <1>0, <1>3, DescribingIs
<1>5. PICK l \in Indexes(s) : t.members[j] = s.members[l]
  BY DEF Alike
<1>6. Whole(s.members[l].facts[stream])
  BY <1>4, <1>5
<1>7. ~Disagree(s, stream, "size") /\ ~Disagree(s, stream, "chunk")
  BY DEF InConflict
<1>8. s.members[i].facts[stream]["size"] = s.members[l].facts[stream]["size"]
  BY <1>0, <1>1, <1>6, <1>7, DisagreeMeans DEF Whole
<1>9. s.members[i].facts[stream]["chunk"] = s.members[l].facts[stream]["chunk"]
  BY <1>0, <1>1, <1>6, <1>7, DisagreeMeans DEF Whole
<1>. QED BY <1>1, <1>3, <1>4, <1>5, <1>8, <1>9

\* The primary gives the map, or the volumes that do agree.
SettledIn(s, name) ==
  \/ name \in DOMAIN s.members[1].maps
  \/ \A i, j \in Indexes(s) :
       name \in DOMAIN s.members[i].maps /\ name \in DOMAIN s.members[j].maps =>
         s.members[i].maps[name] = s.members[j].maps[name]

\* The volume an image's map is taken from.
LEMMA DeclaringIs ==
  ASSUME NEW s, Len(s.members) \in Nat \ {0}, NEW name
  PROVE  /\ Declaring(s, name) \in Indexes(s)
         /\ name \in DOMAIN s.members[1].maps => Declaring(s, name) = 1
         /\ (\E i \in Indexes(s) : name \in DOMAIN s.members[i].maps)
              => name \in DOMAIN s.members[Declaring(s, name)].maps
<1>. PICK n \in Nat \ {0} : n = Len(s.members)
  OBVIOUS
<1>. DEFINE found == {i \in 1..n : name \in DOMAIN s.members[i].maps}
<1>1. Declaring(s, name) = IF First(found) = None THEN 1 ELSE First(found)
  BY DEF Declaring, Indexes
<1>2. CASE found = {}
  <2>1. Declaring(s, name) = 1
    BY <1>1, <1>2, FirstOfNone
  <2>. QED BY <1>2, <2>1 DEF Indexes
<1>3. CASE found # {}
  <2>1. found \in SUBSET Nat
    OBVIOUS
  <2>2. First(found) \in found /\ \A j \in found : First(found) <= j
    BY <1>3, <2>1, FirstIsThere
  <2>3. Declaring(s, name) \in found /\ \A j \in found : Declaring(s, name) <= j
    BY <1>1, <2>2 DEF None
  <2>. QED BY <2>3 DEF Indexes
<1>. QED BY <1>2, <1>3

\* A settled map is the same in both.
LEMMA MapsAlike ==
  ASSUME NEW s, NEW t, Alike(s, t), NEW name, SettledIn(s, name)
  PROVE  /\ name \in DOMAIN s.members[Declaring(s, name)].maps <=> name \in DOMAIN t.members[Declaring(t, name)].maps
         /\ name \in DOMAIN s.members[Declaring(s, name)].maps =>
              s.members[Declaring(s, name)].maps[name] = t.members[Declaring(t, name)].maps[name]
<1>0. Len(s.members) \in Nat \ {0} /\ Len(t.members) \in Nat \ {0} /\ s.members[1] = t.members[1]
  BY DEF Alike
<1>1. PICK i \in Indexes(s) : i = Declaring(s, name)
  BY <1>0, DeclaringIs
<1>2. PICK j \in Indexes(t) : j = Declaring(t, name)
  BY <1>0, DeclaringIs
<1>3. PICK k \in Indexes(t) : s.members[i] = t.members[k]
  BY DEF Alike
<1>4. PICK l \in Indexes(s) : t.members[j] = s.members[l]
  BY DEF Alike
<1>5. name \in DOMAIN s.members[i].maps <=> name \in DOMAIN t.members[j].maps
  BY <1>0, <1>1, <1>2, <1>3, <1>4, DeclaringIs
<1>6. CASE name \in DOMAIN s.members[1].maps
  <2>1. i = 1 /\ j = 1
    BY <1>0, <1>1, <1>2, <1>6, DeclaringIs
  <2>. QED BY <1>0, <1>1, <1>2, <2>1
<1>7. CASE \A a, b \in Indexes(s) :
             name \in DOMAIN s.members[a].maps /\ name \in DOMAIN s.members[b].maps =>
               s.members[a].maps[name] = s.members[b].maps[name]
  <2>1. name \in DOMAIN s.members[i].maps => s.members[i].maps[name] = s.members[l].maps[name]
    BY <1>4, <1>5, <1>7
  <2>. QED BY <1>1, <1>2, <1>4, <1>5, <2>1
<1>. QED BY <1>6, <1>7 DEF SettledIn

\* An image opens from both alike (open_in_set).
LEMMA OpenAlike ==
  ASSUME NEW s, NEW t, Alike(s, t), NEW name, SettledIn(s, name)
  PROVE  OpenInSet(s, name) = OpenInSet(t, name)
<1>. PICK u : u = s.members[Declaring(s, name)].maps
  OBVIOUS
<1>. PICK v : v = t.members[Declaring(t, name)].maps
  OBVIOUS
<1>. DEFINE Sizes(x, stream) == <<x.members[Describing(x, stream)].facts[stream].size,
                                  x.members[Describing(x, stream)].facts[stream].chunk>>
            Opens(x, maps) ==
              IF name \notin DOMAIN maps THEN NoImage
              ELSE IF \E stream \in maps[name] : InConflict(x, stream) \/ Describing(x, stream) = None
              THEN NoImage
              ELSE [ok |-> TRUE, name |-> name, streams |-> [stream \in maps[name] |-> Sizes(x, stream)]]
<1>1. OpenInSet(s, name) = Opens(s, u) /\ OpenInSet(t, name) = Opens(t, v)
  BY DEF OpenInSet
<1>2. (name \in DOMAIN u <=> name \in DOMAIN v) /\ (name \in DOMAIN u => u[name] = v[name])
  BY MapsAlike
<1>3. \A stream : InConflict(s, stream) <=> InConflict(t, stream)
  BY ConflictAlike
<1>4. Alike(t, s)
  BY AlikeBack
<1>5. ASSUME NEW stream, ~InConflict(s, stream)
      PROVE  /\ Describing(s, stream) = None <=> Describing(t, stream) = None
             /\ Describing(s, stream) # None => Sizes(s, stream) = Sizes(t, stream)
  <2>1. Describing(s, stream) # None => Describing(t, stream) # None /\ Sizes(s, stream) = Sizes(t, stream)
    BY <1>5, DescribingAlike
  <2>2. Describing(t, stream) # None => Describing(s, stream) # None
    BY <1>3, <1>4, <1>5, DescribingAlike
  <2>. QED BY <2>1, <2>2
<1>. HIDE DEF Sizes
<1>6. CASE name \notin DOMAIN u
  BY <1>1, <1>2, <1>6
<1>7. CASE name \in DOMAIN u /\ \E stream \in u[name] : InConflict(s, stream) \/ Describing(s, stream) = None
  <2>1. \E stream \in v[name] : InConflict(t, stream) \/ Describing(t, stream) = None
    BY <1>2, <1>3, <1>5, <1>7
  <2>. QED BY <1>1, <1>2, <1>7, <2>1
<1>8. CASE name \in DOMAIN u /\ ~\E stream \in u[name] : InConflict(s, stream) \/ Describing(s, stream) = None
  <2>1. ~\E stream \in v[name] : InConflict(t, stream) \/ Describing(t, stream) = None
    BY <1>2, <1>3, <1>5, <1>8
  <2>2. [stream \in u[name] |-> Sizes(s, stream)] = [stream \in v[name] |-> Sizes(t, stream)]
    BY <1>2, <1>5, <1>8
  <2>. QED BY <1>1, <1>2, <1>8, <2>1, <2>2
<1>. QED BY <1>6, <1>7, <1>8

\* The siblings in another order make a like set.
LEMMA RearrangedIsAlike ==
  ASSUME IsSet, NEW X, set.members \in Seq(X), set.members # <<>>, NEW p \in [2..Len(set.members) -> 2..Len(set.members)],
         {p[i] : i \in 2..Len(set.members)} = 2..Len(set.members)
  PROVE  Alike(set, Rearranged(p))
<1>. PICK n \in Nat \ {0} : n = Len(set.members)
  OBVIOUS
<1>. DEFINE arranged == [i \in 1..n |-> IF i = 1 THEN set.members[1] ELSE set.members[p[i]]]
<1>1. Rearranged(p) = [members |-> arranged, holder |-> set.holder]
  <2>1. Rearranged(p) = [set EXCEPT !.members = arranged]
    BY Zenon DEF Rearranged
  <2>. HIDE DEF arranged
  <2>. QED BY <2>1 DEF IsSet
<1>2. Len(arranged) = n
  <2>1. arranged \in Seq(X)
    <3>1. \A i \in 1..n : (IF i = 1 THEN set.members[1] ELSE set.members[p[i]]) \in X
      <4>1. \A i \in 1..n : i # 1 => p[i] \in 1..n
        OBVIOUS
      <4>2. \A i \in 1..n : set.members[i] \in X
        OBVIOUS
      <4>. QED BY <4>1, <4>2
    <3>. QED BY <3>1
  <2>. QED BY <2>1
<1>3. Rearranged(p).members = arranged
  BY <1>1
<1>4. arranged[1] = set.members[1]
  OBVIOUS
<1>5. ASSUME NEW i \in 1..n PROVE \E j \in 1..n : set.members[i] = arranged[j]
  <2>1. CASE i = 1
    BY <1>4, <2>1
  <2>2. CASE i # 1
    <3>1. i \in 2..n
      BY <2>2
    <3>2. PICK j \in 2..n : p[j] = i
      BY <3>1
    <3>3. j \in 1..n /\ arranged[j] = set.members[i]
      BY <3>2
    <3>. QED BY <3>3
  <2>. QED BY <2>1, <2>2
<1>6. ASSUME NEW j \in 1..n PROVE \E i \in 1..n : arranged[j] = set.members[i]
  <2>1. CASE j = 1
    BY <1>4, <2>1
  <2>2. CASE j # 1
    <3>1. j \in 2..n
      BY <2>2
    <3>2. p[j] \in 1..n /\ arranged[j] = set.members[p[j]]
      BY <3>1
    <3>. QED BY <3>2
  <2>. QED BY <2>1, <2>2
<1>. HIDE DEF arranged
<1>. QED BY <1>2, <1>3, <1>4, <1>5, <1>6 DEF Alike, Indexes

-----------------------------------------------------------------------------
(* The parts of a folder in their order *)

Numbered(files) == \A f \in files : f.base \in Nat /\ f.number \in Nat

\* Of some files one comes before the others, or beside them (natural_cmp).
LEMMA SomethingIsFirst ==
  ASSUME NEW files, Numbered(files), files # {}
  PROVE  \E x \in files : \A g \in files : ~NaturallyBefore(g, x)
<1>. DEFINE bases == {f.base : f \in files}
<1>1. bases \in SUBSET Nat /\ bases # {}
  BY DEF Numbered
<1>2. PICK base \in bases : \A b \in bases : base <= b
  BY <1>1, SmallestNumber
<1>. DEFINE lowest == {f \in files : f.base = base}
            numbers == {f.number : f \in lowest}
<1>3. numbers \in SUBSET Nat /\ numbers # {}
  BY <1>2 DEF Numbered
<1>4. PICK number \in numbers : \A m \in numbers : number <= m
  BY <1>3, SmallestNumber
<1>5. PICK x \in files : x.base = base /\ x.number = number
  BY <1>4
<1>6. ASSUME NEW g \in files PROVE ~NaturallyBefore(g, x)
  <2>1. /\ base <= g.base /\ (g.base = base => number <= g.number)
        /\ base \in Nat /\ g.base \in Nat /\ number \in Nat /\ g.number \in Nat
    BY <1>1, <1>2, <1>3, <1>4 DEF Numbered
  <2>. QED BY <1>5, <2>1 DEF NaturallyBefore
<1>. QED BY <1>5, <1>6

\* Any files can be put in order: the first of them before the others in order.
CanBeSorted(n, all) ==
  \A files \in SUBSET all :
    IsFiniteSet(files) /\ Cardinality(files) = n => \E parts \in [1..n -> files] : Arranges(parts, files)

\* If any n files can be put in order, n + 1 can.
LEMMA OneMoreSorted ==
  ASSUME NEW all, Numbered(all), NEW n \in Nat, CanBeSorted(n, all)
  PROVE  CanBeSorted(n + 1, all)
<1>. SUFFICES ASSUME NEW files \in SUBSET all, IsFiniteSet(files), Cardinality(files) = n + 1
              PROVE  \E parts \in [1..(n + 1) -> files] : Arranges(parts, files)
  BY DEF CanBeSorted
<1>1. files # {}
  BY FS_EmptySet
<1>2. PICK x \in files : \A g \in files : ~NaturallyBefore(g, x)
  <2>1. Numbered(files)
    BY DEF Numbered
  <2>. QED BY <1>1, <2>1, SomethingIsFirst
<1>3. IsFiniteSet(files \ {x}) /\ Cardinality(files \ {x}) = n /\ files \ {x} \in SUBSET all
  BY FS_RemoveElement
<1>4. PICK others \in [1..n -> files \ {x}] : Arranges(others, files \ {x})
  BY <1>3 DEF CanBeSorted
<1>. DEFINE parts == [i \in 1..(n + 1) |-> IF i = 1 THEN x ELSE others[i - 1]]
<1>5. \A i \in 1..(n + 1) : i # 1 => i - 1 \in 1..n /\ others[i - 1] \in files /\ others[i - 1] # x
  BY <1>4
<1>6. parts \in [1..(n + 1) -> files]
  BY <1>5
<1>7. ASSUME NEW i \in 1..(n + 1), NEW j \in 1..(n + 1), i < j
      PROVE  parts[i] # parts[j] /\ ~NaturallyBefore(parts[j], parts[i])
  <2>1. j # 1 /\ j - 1 \in 1..n /\ parts[j] = others[j - 1] /\ others[j - 1] \in files /\ others[j - 1] # x
    BY <1>5, <1>7
  <2>2. CASE i = 1
    BY <1>2, <2>1, <2>2
  <2>3. CASE i # 1
    <3>1. i - 1 \in 1..n /\ i - 1 < j - 1 /\ parts[i] = others[i - 1]
      BY <1>7, <2>3
    <3>2. others[i - 1] # others[j - 1] /\ ~NaturallyBefore(others[j - 1], others[i - 1])
      BY <1>3, <1>4, <2>1, <3>1 DEF Arranges
    <3>. QED BY <2>1, <3>1, <3>2
  <2>. QED BY <2>2, <2>3
<1>. HIDE DEF parts
<1>8. Arranges(parts, files)
  BY <1>7 DEF Arranges
<1>. QED BY <1>6, <1>8

\* So any files can.
LEMMA FilesCanBeSorted ==
  ASSUME NEW files, IsFiniteSet(files), Numbered(files)
  PROVE  \E parts \in [1..Cardinality(files) -> files] : Arranges(parts, files)
<1>. DEFINE S == {n \in Nat : CanBeSorted(n, files)}
<1>1. 0 \in S
  <2>1. ASSUME NEW g, IsFiniteSet(g), Cardinality(g) = 0
        PROVE  \E parts \in [1..0 -> g] : Arranges(parts, g)
    <3>1. [i \in 1..0 |-> i] \in [1..0 -> g]
      OBVIOUS
    <3>2. Arranges([i \in 1..0 |-> i], g)
      BY <2>1 DEF Arranges
    <3>. QED BY <3>1, <3>2
  <2>. QED BY <2>1 DEF CanBeSorted
<1>2. \A n \in Nat : n \in S => n + 1 \in S
  BY OneMoreSorted
<1>. HIDE DEF S
<1>3. Nat \subseteq S
  BY <1>1, <1>2, NumbersByInduction
<1>4. Cardinality(files) \in Nat
  BY FS_CardinalityType
<1>5. CanBeSorted(Cardinality(files), files)
  BY <1>3, <1>4 DEF S
<1>. QED BY <1>5 DEF CanBeSorted

\* What discover sorts is the files in an order.
LEMMA SortedIsThere ==
  ASSUME NEW files, IsFiniteSet(files), Numbered(files)
  PROVE  /\ Cardinality(files) \in Nat
         /\ Sorted(files) \in [1..Cardinality(files) -> files] /\ Arranges(Sorted(files), files)
         /\ Len(Sorted(files)) = Cardinality(files) /\ Sorted(files) \in Seq(files)
<1>1. Cardinality(files) \in Nat
  BY FS_CardinalityType
<1>2. Sorted(files) \in [1..Cardinality(files) -> files] /\ Arranges(Sorted(files), files)
  BY FilesCanBeSorted DEF Sorted
<1>. QED BY <1>1, <1>2

\* Every file comes once.
LEMMA SortedHasAll ==
  ASSUME NEW files, IsFiniteSet(files), Numbered(files), NEW f \in files
  PROVE  \E i \in 1..Cardinality(files) : Sorted(files)[i] = f
<1>. PICK n : n = Cardinality(files)
  OBVIOUS
<1>. PICK parts : parts = Sorted(files)
  OBVIOUS
<1>1. n \in Nat /\ parts \in [1..n -> files] /\ Arranges(parts, files)
  BY SortedIsThere
<1>2. \A i, j \in 1..n : parts[i] = parts[j] => i = j
  <2>1. \A i, j \in 1..n : i < j => parts[i] # parts[j]
    BY <1>1 DEF Arranges
  <2>2. \A i, j \in 1..n : i = j \/ i < j \/ j < i
    BY <1>1
  <2>. QED BY <2>1, <2>2
<1>3. parts \in Injection(1..n, files)
  BY <1>1, <1>2 DEF Injection, IsInjective
<1>4. Cardinality(1..n) = n
  BY <1>1, FS_Interval
<1>5. parts \in Surjection(1..n, files)
  BY <1>3, <1>4, FS_Injection
<1>. QED BY <1>5 DEF Surjection

-----------------------------------------------------------------------------
(* A folder one writer left *)

\* Its parts, their volumes, and the first n of them.
Size == Cardinality(folder)
Vol(i) == Sorted(folder)[i].volume
Stored(n) == [i \in 1..n |-> Vol(i)]
\* The part that keeps a stream, and what the others say of it.
Keeps(h, s) ==
  /\ s \in Vol(h).bevies /\ Whole(Vol(h).facts[s])
  /\ \A j \in 1..Size : j # h =>
       /\ s \notin Vol(j).bevies /\ Vol(j).hashes[s] \subseteq Vol(h).hashes[s]
       /\ Vol(j).facts[s]["size"] = Absent /\ Vol(j).facts[s]["chunk"] = Absent

\* A folder in its order.
LEMMA FolderIsSorted ==
  ASSUME folder \in Folders
  PROVE  /\ Size \in Nat \ {0} /\ Sorted(folder) \in [1..Size -> folder] /\ Sorted(folder) \in Seq(folder)
         /\ Len(Sorted(folder)) = Size
         /\ \A f \in folder : \E i \in 1..Size : Sorted(folder)[i] = f
<1>1. IsFiniteSet(folder) /\ Numbered(folder) /\ folder # {}
  BY OpenAssumption DEF Numbered
<1>2. Size # 0
  BY <1>1, FS_EmptySet DEF Size
<1>. QED BY <1>1, <1>2, SortedIsThere, SortedHasAll DEF Size

\* Each part of a written folder is a readable volume of one generation, and no two are one volume.
LEMMA WroteParts ==
  ASSUME folder \in Folders, Wrote(folder)
  PROVE  /\ \A i \in 1..Size : /\ Sorted(folder)[i] \in folder /\ Vol(i) # Torn
                               /\ Vol(i).generation \in Supported /\ Vol(i).generation = Vol(1).generation
         /\ \A i, j \in 1..Size : Vol(i).arn = Vol(j).arn => i = j
         /\ \A f \in folder : f.kind = "aff4"
         /\ ~HasGap(Sorted(folder))
<1>1. Sorted(folder) \in [1..Size -> folder] /\ Len(Sorted(folder)) = Size
  BY FolderIsSorted
<1>2. \A f \in folder : f.kind = "aff4" /\ f.volume # Torn
  BY DEF Wrote, IsOnePart
<1>3. \A i \in 1..Size : Sorted(folder)[i] \in folder
  BY <1>1
<1>4. ~HasGap(Sorted(folder))
  BY DEF Wrote
<1>5. \A i \in 1..Size :
        /\ Vol(i).generation \in Supported /\ Vol(i).generation = Vol(1).generation
        /\ \A j \in 1..Size : Vol(i).arn = Vol(j).arn => i = j
  BY <1>1 DEF Wrote, Vol
<1>. QED BY <1>2, <1>3, <1>4, <1>5 DEF Vol

\* Each stream is kept by one part.
LEMMA WroteStreams ==
  ASSUME folder \in Folders, Wrote(folder), NEW s \in Streams
  PROVE  \E h \in 1..Size : Keeps(h, s)
<1>1. Len(Sorted(folder)) = Size
  BY FolderIsSorted
<1>2. PICK h \in 1..Size :
        /\ s \in Vol(h).bevies /\ Whole(Vol(h).facts[s])
        /\ \A j \in 1..Size \ {h} :
             /\ s \notin Vol(j).bevies /\ Vol(j).hashes[s] \subseteq Vol(h).hashes[s]
             /\ Vol(j).facts[s] \in {[size |-> Absent, chunk |-> Absent, stored |-> Vol(h).arn],
                                     [size |-> Absent, chunk |-> Absent, stored |-> Absent]}
  BY <1>1 DEF Wrote, Vol
<1>3. ASSUME NEW j \in 1..Size, j # h
      PROVE  Vol(j).facts[s]["size"] = Absent /\ Vol(j).facts[s]["chunk"] = Absent
  BY <1>2, <1>3
<1>. QED BY <1>2, <1>3 DEF Keeps

\* There is one image, of all the streams.
LEMMA WroteImage ==
  ASSUME folder \in Folders, Wrote(folder)
  PROVE  \E name : /\ DOMAIN Vol(1).images = {name} /\ Vol(1).images[name] = "DiskImage"
                   /\ name \in DOMAIN Vol(1).maps /\ Vol(1).maps[name] = Streams
BY DEF Wrote, Vol, DiskImages

\* It is a set, and every part of it leads to it.
LEMMA WroteIsFound ==
  ASSUME folder \in Folders, Wrote(folder)
  PROVE  /\ Discover(folder) = Sorted(folder)
         /\ \A f \in folder : PartsOf(folder, f) = Sorted(folder)
<1>1. \A f \in folder : f.kind = "aff4"
  BY WroteParts
<1>2. {f \in folder : f.kind = "aff4"} = folder /\ {f \in folder : f.kind = "raw"} = {}
  BY <1>1
<1>3. folder # {} /\ folder \cup {} = folder
  BY OpenAssumption
<1>4. Discover(folder) = Sorted(folder)
  BY <1>2, <1>3, WroteParts DEF Discover
<1>5. ASSUME NEW f \in folder PROVE f \in {Discover(folder)[i] : i \in DOMAIN Discover(folder)}
  <2>1. PICK i \in 1..Size : Sorted(folder)[i] = f
    BY FolderIsSorted
  <2>2. i \in DOMAIN Sorted(folder)
    BY FolderIsSorted
  <2>. QED BY <1>4, <2>1, <2>2
<1>. QED BY <1>1, <1>4, <1>5 DEF PartsOf

\* The first n volumes are n.
LEMMA StoredIs ==
  ASSUME folder \in Folders, NEW n \in 0..Size
  PROVE  /\ Len(Stored(n)) = n /\ \A i \in 1..n : Stored(n)[i] = Vol(i)
         /\ Stored(n) = <<>> <=> n = 0
<1>1. Size \in Nat /\ n \in Nat
  BY FolderIsSorted
<1>2. Stored(n) \in Seq({Vol(i) : i \in 1..n})
  BY <1>1 DEF Stored
<1>3. DOMAIN Stored(n) = 1..n
  BY DEF Stored
<1>4. Len(Stored(n)) = n
  BY <1>1, <1>2, <1>3
<1>5. Stored(n) = <<>> <=> n = 0
  BY <1>1, <1>2, <1>4
<1>. QED BY <1>4, <1>5 DEF Stored

\* One more is the next.
LEMMA StoredNext ==
  ASSUME folder \in Folders, NEW n \in 0..Size, n < Size
  PROVE  Append(Stored(n), Vol(n + 1)) = Stored(n + 1)
<1>1. Size \in Nat /\ n \in Nat
  BY FolderIsSorted
<1>. DEFINE X == {Vol(i) : i \in 1..(n + 1)}
<1>2. \A i \in 1..(n + 1) : Vol(i) \in X
  OBVIOUS
<1>. HIDE DEF X
<1>3. Stored(n) \in Seq(X) /\ Len(Stored(n)) = n
  <2>1. Len(Stored(n)) = n
    BY StoredIs
  <2>2. \A i \in 1..n : Vol(i) \in X
    BY <1>1, <1>2
  <2>3. Stored(n) \in [1..n -> X]
    BY <2>2 DEF Stored
  <2>. QED BY <1>1, <2>1, <2>3
<1>4. Vol(n + 1) \in X
  BY <1>1, <1>2
<1>5. Append(Stored(n), Vol(n + 1)) = [i \in 1..(n + 1) |-> IF i = n + 1 THEN Vol(n + 1) ELSE Stored(n)[i]]
  BY <1>1, <1>3, <1>4
<1>6. \A i \in 1..(n + 1) : i # n + 1 => i \in 1..n
  BY <1>1
<1>7. \A i \in 1..n : Stored(n)[i] = Vol(i)
  BY StoredIs
<1>. QED BY <1>5, <1>6, <1>7 DEF Stored

-----------------------------------------------------------------------------
(* The set of all its volumes *)

\* The part that keeps a stream is the one found to hold it (holds_stream_data).
LEMMA WrittenHolder ==
  ASSUME folder \in Folders, NEW x, x.members = Stored(Size), NEW s, NEW h \in 1..Size, Keeps(h, s)
  PROVE  HolderOf(x, s) = h
<1>0. Size \in 0..Size /\ Size \in Nat
  BY FolderIsSorted
<1>1. Indexes(x) = 1..Size /\ \A i \in 1..Size : x.members[i] = Vol(i)
  BY <1>0, StoredIs DEF Indexes
<1>2. {i \in Indexes(x) : s \in x.members[i].bevies} = {h}
  BY <1>1 DEF Keeps
<1>. QED BY <1>2, FirstOfOne DEF HolderOf

\* No two describe a stream differently, and one does (stream_conflict, describing).
LEMMA WrittenDescribes ==
  ASSUME folder \in Folders, NEW x, x.members = Stored(Size), NEW s, NEW h \in 1..Size, Keeps(h, s)
  PROVE  ~InConflict(x, s) /\ Describing(x, s) # None
<1>0. Size \in 0..Size /\ Size \in Nat
  BY FolderIsSorted
<1>1. Indexes(x) = 1..Size /\ (\A i \in 1..Size : x.members[i] = Vol(i)) /\ Len(x.members) = Size
  BY <1>0, StoredIs DEF Indexes
<1>2. Whole(x.members[h].facts[s])
  BY <1>1 DEF Keeps
<1>3. Describing(x, s) # None
  BY <1>0, <1>1, <1>2, DescribingIs
<1>4. \A i \in 1..Size : i # h => x.members[i].facts[s]["size"] = Absent /\ x.members[i].facts[s]["chunk"] = Absent
  BY <1>1 DEF Keeps
<1>5. ASSUME NEW predicate \in {"size", "chunk"} PROVE ~Disagree(x, s, predicate)
  <2>1. \A i \in Indexes(x) : x.members[i].facts[s][predicate] # Absent => i = h
    BY <1>1, <1>4, <1>5
  <2>2. ASSUME Disagree(x, s, predicate)
        PROVE  \E i, j \in Indexes(x) :
                 /\ x.members[i].facts[s][predicate] # Absent
                 /\ x.members[j].facts[s][predicate] # Absent
                 /\ x.members[i].facts[s][predicate] # x.members[j].facts[s][predicate]
    <3>1. Len(x.members) \in Nat
      BY <1>0, <1>1
    <3>. QED BY <2>2, <3>1, DisagreeMeans
  <2>. QED BY <2>1, <2>2
<1>6. ~Disagree(x, s, "size") /\ ~Disagree(x, s, "chunk")
  BY <1>5
<1>. QED BY <1>3, <1>6 DEF InConflict

\* The image opens, with all its streams.
LEMMA WrittenOpens ==
  ASSUME folder \in Folders, Wrote(folder), NEW x, x.members = Stored(Size),
         NEW name, name \in DOMAIN Vol(1).maps, Vol(1).maps[name] = Streams
  PROVE  OpenInSet(x, name).ok /\ DOMAIN OpenInSet(x, name).streams = Streams
<1>0. Size \in 0..Size /\ Size \in Nat \ {0}
  BY FolderIsSorted
<1>1. Len(x.members) = Size /\ x.members[1] = Vol(1)
  BY <1>0, StoredIs
<1>2. Declaring(x, name) = 1
  BY <1>0, <1>1, DeclaringIs
<1>3. \A s \in Streams : ~InConflict(x, s) /\ Describing(x, s) # None
  BY WroteStreams, WrittenDescribes
<1>. DEFINE sizes == [s \in Streams |-> <<x.members[Describing(x, s)].facts[s].size,
                                          x.members[Describing(x, s)].facts[s].chunk>>]
<1>4. OpenInSet(x, name) = [ok |-> TRUE, name |-> name, streams |-> sizes]
  BY <1>1, <1>2, <1>3 DEF OpenInSet
<1>5. DOMAIN sizes = Streams
  OBVIOUS
<1>. HIDE DEF sizes
<1>. QED BY <1>4, <1>5

\* The one disk image is the only candidate (choose).
LEMMA WrittenCandidates ==
  ASSUME NEW v, NEW name, DOMAIN v.images = {name}, v.images[name] = "DiskImage"
  PROVE  Candidates(v) = {name}
<1>. DEFINE kinds == {k \in 1..Len(Roles) : OfRole(v, Roles[k]) # {}}
<1>1. Len(Roles) = 3 /\ Roles[1] = "DiskImage"
  BY DEF Roles
<1>2. OfRole(v, "DiskImage") = {name}
  BY DEF OfRole
<1>3. 1 \in kinds /\ \A j \in kinds : j \in Nat /\ 1 <= j
  <2>1. \A j \in 1..3 : j \in Nat /\ 1 <= j
    OBVIOUS
  <2>2. kinds \subseteq 1..3
    BY <1>1
  <2>3. 1 \in 1..Len(Roles) /\ OfRole(v, Roles[1]) # {}
    BY <1>1, <1>2
  <2>. QED BY <2>1, <2>2, <2>3
<1>. HIDE DEF kinds
<1>4. \A k \in kinds : (\A j \in kinds : k <= j) => k = 1
  BY <1>3
<1>5. (CHOOSE k \in kinds : \A j \in kinds : k <= j) = 1
  BY <1>3, <1>4
<1>6. Candidates(v) = OfRole(v, Roles[1])
  <2>1. Candidates(v) = IF kinds = {} THEN {} ELSE OfRole(v, Roles[CHOOSE k \in kinds : \A j \in kinds : k <= j])
    BY DEF Candidates, kinds
  <2>. QED BY <1>3, <1>5, <2>1
<1>. QED BY <1>1, <1>2, <1>6

\* The first volume of those that record most records all.
LEMMA WrittenHashes ==
  ASSUME folder \in Folders, Wrote(folder), NEW x, x.members = Stored(Size), NEW s \in Streams, NEW f \in folder
  PROVE  f.volume.hashes[s] \subseteq RecordedHashes(x, s)
<1>0. Size \in 0..Size /\ Size \in Nat
  BY FolderIsSorted
<1>1. Indexes(x) = 1..Size /\ \A i \in 1..Size : x.members[i] = Vol(i)
  BY <1>0, StoredIs DEF Indexes
<1>2. PICK h \in 1..Size : Keeps(h, s)
  BY WroteStreams
<1>3. \A i \in 1..Size : Vol(i).hashes[s] \subseteq Vol(h).hashes[s]
  BY <1>2 DEF Keeps
<1>4. \A i \in 1..Size : IsFiniteSet(Vol(i).hashes[s])
  BY WroteParts, OpenAssumption DEF Vol
<1>5. \A i \in 1..Size : Cardinality(Vol(i).hashes[s]) <= Cardinality(Vol(h).hashes[s])
  BY <1>3, <1>4, FS_Subset
<1>. DEFINE most == {j \in 1..Size : \A i \in 1..Size : Cardinality(Vol(i).hashes[s]) <= Cardinality(Vol(j).hashes[s])}
<1>6. RecordedHashes(x, s) = x.members[First(most)].hashes[s]
  <2>1. {j \in Indexes(x) : \A i \in Indexes(x) :
           Cardinality(x.members[i].hashes[s]) <= Cardinality(x.members[j].hashes[s])} = most
    BY <1>1
  <2>. QED BY <2>1 DEF RecordedHashes
<1>7. h \in most /\ most \in SUBSET Nat
  BY <1>5
<1>8. First(most) \in most
  BY <1>7, FirstIsThere
<1>9. PICK m \in 1..Size : m = First(most) /\ Cardinality(Vol(h).hashes[s]) <= Cardinality(Vol(m).hashes[s])
  BY <1>8
<1>10. Vol(m).hashes[s] = Vol(h).hashes[s]
  <2>1. Cardinality(Vol(m).hashes[s]) <= Cardinality(Vol(h).hashes[s])
    BY <1>5
  <2>2. Cardinality(Vol(m).hashes[s]) \in Nat /\ Cardinality(Vol(h).hashes[s]) \in Nat
    BY <1>4, FS_CardinalityType
  <2>3. Cardinality(Vol(m).hashes[s]) = Cardinality(Vol(h).hashes[s])
    BY <1>9, <2>1, <2>2
  <2>. QED BY <1>3, <1>4, <2>3, FS_Subset
<1>11. PICK i \in 1..Size : Sorted(folder)[i] = f
  BY FolderIsSorted
<1>12. f.volume.hashes[s] \subseteq Vol(h).hashes[s]
  BY <1>3, <1>11 DEF Vol
<1>. QED BY <1>1, <1>6, <1>9, <1>10, <1>12

-----------------------------------------------------------------------------
(* What a set is made of *)

Volumes == {f.volume : f \in folder}
\* The set is of volumes of the folder, and is none only while it is empty.
OpenShape ==
  /\ folder \in Folders /\ todo \in Seq(folder)
  /\ set.members \in Seq(Volumes)
  /\ set.members = <<>> => set = NoSet
  /\ Opening => set.members # <<>> \/ todo # <<>>
  /\ outcome \in {"open", "not given"} => set.members # <<>>

\* The parts of a set are files of the folder, and a file named has some.
LEMMA PartsAreFiles ==
  ASSUME folder \in Folders
  PROVE  /\ Discover(folder) \in Seq(folder)
         /\ \A f \in folder : PartsOf(folder, f) \in Seq(folder) /\ PartsOf(folder, f) # <<>>
<1>. DEFINE some == {f \in folder : f.kind = "aff4"} \cup {f \in folder : f.kind = "raw"}
<1>1. IsFiniteSet(some) /\ Numbered(some) /\ some \subseteq folder
  BY OpenAssumption, FS_Subset DEF Numbered
<1>2. Sorted(some) \in Seq(some)
  BY <1>1, SortedIsThere
<1>3. Sorted(some) \in Seq(folder)
  BY <1>1, <1>2
<1>4. Discover(folder) \in {<<>>, Sorted(some)}
  BY DEF Discover
<1>n. <<>> \in Seq(folder)
  OBVIOUS
<1>. HIDE DEF some
<1>5. Discover(folder) \in Seq(folder)
  <2>1. Discover(folder) = <<>> \/ Discover(folder) = Sorted(some)
    BY <1>4
  <2>. QED BY <1>3, <1>n, <2>1
<1>6. ASSUME NEW f \in folder PROVE PartsOf(folder, f) \in Seq(folder) /\ PartsOf(folder, f) # <<>>
  <2>1. CASE PartsOf(folder, f) = <<f>>
    BY <2>1
  <2>2. CASE /\ PartsOf(folder, f) = Discover(folder)
             /\ f \in {Discover(folder)[i] : i \in DOMAIN Discover(folder)}
    BY <1>5, <2>2
  <2>. QED BY <2>1, <2>2 DEF PartsOf
<1>. QED BY <1>5, <1>6

(* A volume added makes the set no smaller.                                   *)
LEMMA AddedShape ==
  ASSUME set.members \in Seq(Volumes), set.members # <<>>, NEW v \in Volumes, set' = AddVolume(set, v),
         folder' = folder
  PROVE  set'.members \in Seq(Volumes)' /\ set'.members # <<>>
<1>0. Volumes' = Volumes
  BY DEF Volumes
<1>1. CASE set' = set
  BY <1>0, <1>1
<1>2. CASE set' = [members |-> Append(set.members, v), holder |-> Forgotten]
  BY <1>0, <1>2
<1>. QED BY <1>1, <1>2, AddingForgets

\* It holds before a command.
LEMMA ShapeInit == OpenInit => OpenShape
BY DEF OpenInit, OpenShape, NoSet, Opening

\* Every step of a command keeps it.
LEMMA ShapeStep == OpenShape /\ [OpenNext]_openVars => OpenShape'
<1>. SUFFICES ASSUME OpenShape, [OpenNext]_openVars PROVE OpenShape'
  OBVIOUS
<1>0. folder \in Folders /\ todo \in Seq(folder) /\ set.members \in Seq(Volumes)
  BY DEF OpenShape
<1>v. folder' = folder => Volumes' = Volumes
  BY DEF Volumes
<1>n. NoSet.members = <<>>
  BY DEF NoSet
<1>u. set.members = <<>> <=> set = NoSet
  BY <1>n DEF OpenShape
<1>1. ASSUME NEW file \in folder, OpenDisk(file) \/ VerifyFile(file) \/ VerifyFolder(file)
      PROVE  OpenShape'
  <2>1. folder' = folder /\ set' = set
    BY <1>1 DEF OpenDisk, VerifyFile, VerifyFolder, Begin
  <2>2. todo' \in Seq(folder) /\ (outcome' = "running" => todo' # <<>>)
    <3>1. PartsOf(folder, file) \in Seq(folder) /\ PartsOf(folder, file) # <<>> /\ Discover(folder) \in Seq(folder)
      BY <1>0, PartsAreFiles
    <3>2. <<file>> \in Seq(folder) /\ <<file>> # <<>>
      OBVIOUS
    <3>3. CASE OpenDisk(file)
      BY <3>1, <3>3 DEF OpenDisk, Begin
    <3>4. CASE VerifyFile(file)
      BY <3>2, <3>4 DEF VerifyFile, Begin
    <3>5. CASE VerifyFolder(file)
      BY <3>1, <3>5 DEF VerifyFolder, Begin
    <3>. QED BY <1>1, <3>3, <3>4, <3>5
  <2>3. outcome' \in {"open", "not given"} => outcome' = outcome
    BY <1>1 DEF OpenDisk, VerifyFile, VerifyFolder, Begin
  <2>. QED BY <1>0, <1>v, <2>1, <2>2, <2>3 DEF OpenShape, Opening
<1>2. ASSUME OpenPrimary PROVE OpenShape'
  <2>1. Opening /\ set.members = <<>> /\ todo # <<>> /\ folder' = folder /\ command' = command
    BY <1>2, <1>u DEF OpenPrimary, OpenShape
  <2>2. CASE todo' = todo /\ set' = set
    <3>1. outcome' \in {"torn", "unsupported"}
      BY <1>2, <2>1, <2>2, <1>u DEF OpenPrimary, Ends, Single
    <3>. QED BY <1>0, <1>v, <1>u, <2>1, <2>2, <3>1 DEF OpenShape, Opening
  <2>3. CASE set' = Single(NextPart) /\ todo' = Tail(todo) /\ outcome' = outcome
    <3>1. NextPart \in Volumes
      BY <1>0, <2>1 DEF NextPart, Volumes
    <3>2. set'.members = <<NextPart>>
      BY <2>3 DEF Single
    <3>3. set'.members \in Seq(Volumes) /\ set'.members # <<>>
      BY <3>1, <3>2
    <3>4. todo' \in Seq(folder)
      BY <1>0, <2>1, <2>3
    <3>. QED BY <1>0, <1>v, <2>1, <3>3, <3>4 DEF OpenShape
  <2>. QED BY <1>2, <2>2, <2>3 DEF OpenPrimary, Ends
<1>3. ASSUME OpenSibling PROVE OpenShape'
  <2>1. Opening /\ set.members # <<>> /\ todo # <<>> /\ folder' = folder /\ command' = command
    BY <1>3, <1>u DEF OpenSibling
  <2>2. CASE todo' = todo /\ set' = set
    BY <1>0, <1>v, <1>u, <2>1, <2>2 DEF OpenShape
  <2>3. CASE set' = AddVolume(set, NextPart) /\ todo' = Tail(todo) /\ outcome' = outcome
    <3>1. NextPart \in Volumes
      BY <1>0, <2>1 DEF NextPart, Volumes
    <3>2. set'.members \in Seq(Volumes)' /\ set'.members # <<>>
      BY <1>0, <2>1, <2>3, <3>1, AddedShape
    <3>3. todo' \in Seq(folder)
      BY <1>0, <2>1, <2>3
    <3>. QED BY <1>0, <2>1, <3>2, <3>3 DEF OpenShape
  <2>. QED BY <1>3, <2>2, <2>3 DEF OpenSibling, Ends
<1>4. ASSUME RefuseSet \/ NoDiskImage \/ \E name : OpenImage(name) PROVE OpenShape'
  <2>1. /\ folder' = folder /\ todo' = todo /\ set' = set /\ command' = command
        /\ AllOpened
    BY <1>4 DEF RefuseSet, NoDiskImage, OpenImage
  <2>2. set.members # <<>>
    BY <1>u, <2>1 DEF AllOpened
  <2>. QED BY <1>0, <1>v, <2>1, <2>2 DEF OpenShape
<1>5. ASSUME NEW stream \in Streams, ReadStream(stream) PROVE OpenShape'
  <2>1. folder' = folder /\ todo' = todo /\ outcome = "open" /\ set' = Asked(set, stream)
    BY <1>5 DEF ReadStream
  <2>2. set.members # <<>>
    BY <2>1 DEF OpenShape
  <2>3. set'.members = set.members
    BY <2>1 DEF Asked
  <2>. QED BY <1>0, <1>v, <2>1, <2>2, <2>3 DEF OpenShape
<1>6. ASSUME NEW file \in folder, AddLate(file) PROVE OpenShape'
  <2>1. folder' = folder /\ todo' = todo /\ set.members # <<>> /\ set' = AddVolume(set, file.volume)
    BY <1>6 DEF AddLate, OpenShape
  <2>2. file.volume \in Volumes
    BY DEF Volumes
  <2>3. set'.members \in Seq(Volumes)' /\ set'.members # <<>>
    BY <1>0, <2>1, <2>2, AddedShape
  <2>. QED BY <1>0, <2>1, <2>3 DEF OpenShape
<1>7. ASSUME UNCHANGED openVars PROVE OpenShape'
  BY <1>7, <1>v DEF openVars, OpenShape, Opening
<1>. QED BY <1>1, <1>2, <1>3, <1>4, <1>5, <1>6, <1>7 DEF OpenNext

(* The order of the siblings is immaterial in every such set.                 *)
LEMMA OrderIsImmaterial == OpenShape /\ IsSet => SiblingOrderIsImmaterial
<1>. SUFFICES ASSUME OpenShape, IsSet, AllOpened \/ outcome = "open" PROVE SiblingOrderIsImmaterial
  BY DEF SiblingOrderIsImmaterial
<1>1. set.members \in Seq(Volumes) /\ set.members # <<>>
  BY DEF OpenShape, AllOpened, NoSet
<1>2. ASSUME NEW p \in [2..Len(set.members) -> 2..Len(set.members)],
             {p[i] : i \in 2..Len(set.members)} = 2..Len(set.members),
             NEW name, MapIsSettled(name)
      PROVE  OpenInSet(Rearranged(p), name) = OpenInSet(set, name)
  <2>1. Alike(set, Rearranged(p))
    BY <1>1, <1>2, RearrangedIsAlike
  <2>2. SettledIn(set, name)
    BY <1>2 DEF MapIsSettled, SettledIn
  <2>. QED BY <2>1, <2>2, OpenAlike
<1>. QED BY <1>2 DEF SiblingOrderIsImmaterial

-----------------------------------------------------------------------------
(* A written set as it is opened *)

\* The parts after the first n.
Left(n) == [i \in 1..(Size - n) |-> Sorted(folder)[n + i]]
TakesAll == command.does \in {"disk", "folder"}
NothingYet == command = NoCommand => set = NoSet /\ outcome = "running" /\ served = Forgotten
OneByOne == TakesAll => \E n \in 0..Size : set.members = Stored(n) /\ todo = Left(n)
AllTaken == TakesAll /\ outcome \in {"open", "not given"} => set.members = Stored(Size)
Served ==
  \A s \in DOMAIN served : \E f \in folder : f.volume.arn = served[s] /\ s \in f.volume.bevies
DiskInv ==
  command.does = "disk" =>
    /\ outcome \in {"running", "open"}
    /\ outcome = "open" => DOMAIN image.streams = Streams
    /\ Served
\* The first n volumes are the set and the others still to be opened; of a disk
\* opened, every stream is the image's and each read one from a part that has it.
WrittenInv == Wrote(folder) => NothingYet /\ OneByOne /\ AllTaken /\ DiskInv

\* A tail, place by place.
LEMMA TailIs ==
  ASSUME NEW S, NEW q \in Seq(S), q # <<>>
  PROVE  Tail(q) = [i \in 1..(Len(q) - 1) |-> q[i + 1]]
<1>1. Len(q) \in Nat \ {0}
  OBVIOUS
<1>2. Tail(q) \in Seq(S) /\ Len(Tail(q)) = Len(q) - 1
  OBVIOUS
<1>3. Tail(q) \in [1..(Len(q) - 1) -> S]
  <2>1. \A t \in Seq(S) : t \in [1..Len(t) -> S]
    OBVIOUS
  <2>. QED BY <1>2, <2>1
<1>4. \A i \in 1..(Len(q) - 1) : Tail(q)[i] = q[i + 1]
  BY <1>1
<1>. QED BY <1>3, <1>4

\* What is left begins with the next part.
LEMMA LeftIs ==
  ASSUME folder \in Folders, NEW n \in 0..Size
  PROVE  /\ Left(n) = <<>> <=> n = Size
         /\ n # Size => Head(Left(n)) = Sorted(folder)[n + 1] /\ Tail(Left(n)) = Left(n + 1)
<1>1. Size \in Nat /\ n \in Nat /\ n <= Size /\ Sorted(folder) \in [1..Size -> folder]
  BY FolderIsSorted
<1>2. Left(n) \in [1..(Size - n) -> folder]
  BY <1>1 DEF Left
<1>3. Left(n) \in Seq(folder) /\ Len(Left(n)) = Size - n
  BY <1>1, <1>2
<1>4. Left(n) = <<>> <=> n = Size
  BY <1>1, <1>3
<1>5. ASSUME n # Size PROVE Head(Left(n)) = Sorted(folder)[n + 1] /\ Tail(Left(n)) = Left(n + 1)
  <2>1. Left(n) # <<>> /\ 1 \in 1..(Size - n)
    BY <1>1, <1>4, <1>5
  <2>2. Head(Left(n)) = Left(n)[1]
    BY <1>3, <2>1
  <2>3. Tail(Left(n)) = [i \in 1..(Len(Left(n)) - 1) |-> Left(n)[i + 1]]
    BY <1>3, <2>1, TailIs
  <2>4. Len(Left(n)) - 1 = Size - (n + 1)
    BY <1>1, <1>3
  <2>5. \A i \in 1..(Size - (n + 1)) : i + 1 \in 1..(Size - n) /\ n + (i + 1) = (n + 1) + i
    BY <1>1
  <2>6. \A i \in 1..(Size - (n + 1)) : Left(n)[i + 1] = Sorted(folder)[(n + 1) + i]
    BY <2>5 DEF Left
  <2>7. Left(n)[1] = Sorted(folder)[n + 1]
    BY <2>1 DEF Left
  <2>8. Tail(Left(n)) = [i \in 1..(Size - (n + 1)) |-> Sorted(folder)[(n + 1) + i]]
    BY <2>3, <2>4, <2>6
  <2>. QED BY <2>2, <2>7, <2>8 DEF Left
<1>. QED BY <1>4, <1>5

\* At first all parts are left.
LEMMA LeftAtFirst ==
  ASSUME folder \in Folders
  PROVE  Left(0) = Sorted(folder)
<1>1. Size \in Nat /\ Sorted(folder) \in [1..Size -> folder]
  BY FolderIsSorted
<1>2. Size - 0 = Size /\ \A i \in 1..Size : 0 + i = i
  BY <1>1
<1>3. Left(0) = [i \in 1..Size |-> Sorted(folder)[i]]
  BY <1>2 DEF Left
<1>. QED BY <1>1, <1>3

(* The next part is added, and one that is there is not added again.          *)
LEMMA NextIsAdded ==
  ASSUME folder \in Folders, Wrote(folder), NEW n \in 1..Size, n # Size, set.members = Stored(n)
  PROVE  AddVolume(set, Vol(n + 1)).members = Stored(n + 1)
<1>1. Size \in Nat /\ n \in Nat /\ n \in 0..Size /\ 1 \in 1..n /\ n + 1 \in 1..Size /\ n < Size /\ 1 \in 1..Size
  BY FolderIsSorted
<1>2. Len(set.members) = n /\ \A i \in 1..n : set.members[i] = Vol(i)
  BY <1>1, StoredIs
<1>3. ~Disagrees(set, Vol(n + 1))
  BY <1>1, <1>2, WroteParts DEF Disagrees
<1>4. ASSUME NEW i \in 1..n PROVE set.members[i].arn # Vol(n + 1).arn
  <2>1. i \in 1..Size /\ i # n + 1
    BY <1>1
  <2>. QED BY <1>1, <1>2, <2>1, WroteParts
<1>5. {i \in Indexes(set) : set.members[i].arn = Vol(n + 1).arn} = {}
  BY <1>2, <1>4 DEF Indexes
<1>6. AddVolume(set, Vol(n + 1)) = [members |-> Append(set.members, Vol(n + 1)), holder |-> Forgotten]
  BY <1>3, <1>5, FirstOfNone DEF AddVolume, Push
<1>7. Append(set.members, Vol(n + 1)) = Stored(n + 1)
  BY <1>1, StoredNext
<1>. QED BY <1>6, <1>7

\* Of a whole set no volume is added again.
LEMMA KnownIsNotAdded ==
  ASSUME folder \in Folders, Wrote(folder), set.members = Stored(Size), NEW f \in folder
  PROVE  AddVolume(set, f.volume) = set
<1>1. Size \in Nat /\ Size \in 0..Size /\ 1 \in 1..Size
  BY FolderIsSorted
<1>2. PICK k \in 1..Size : Sorted(folder)[k] = f
  BY FolderIsSorted
<1>3. f.volume = Vol(k)
  BY <1>2 DEF Vol
<1>4. Len(set.members) = Size /\ \A i \in 1..Size : set.members[i] = Vol(i)
  BY <1>1, StoredIs
<1>5. ~Disagrees(set, Vol(k))
  BY <1>1, <1>4, WroteParts DEF Disagrees
<1>. DEFINE same == {i \in Indexes(set) : set.members[i].arn = Vol(k).arn}
<1>6. k \in same /\ same \in SUBSET Nat /\ 0 \notin same
  BY <1>1, <1>4 DEF Indexes
<1>7. First(same) # None
  <2>1. First(same) \in same
    BY <1>6, FirstIsThere
  <2>. QED BY <1>6, <2>1 DEF None
<1>8. Push(set, Vol(k)) = set
  BY <1>7 DEF Push
<1>. QED BY <1>3, <1>5, <1>8 DEF AddVolume

\* What depends on the folder alone stays.
LEMMA SameFolder ==
  ASSUME folder' = folder
  PROVE  Size' = Size /\ (\A n : Stored(n)' = Stored(n)) /\ (\A n : Left(n)' = Left(n))
BY DEF Size, Stored, Vol, Left

\* A set of no volumes is none.
LEMMA NoSetIsEmpty == OpenShape => (set.members = <<>> <=> set = NoSet)
<1>1. NoSet.members = <<>>
  BY DEF NoSet
<1>. QED BY <1>1 DEF OpenShape

\* A part opened is the next; when none is left the set is whole.
LEMMA WrittenTodo ==
  ASSUME OpenShape, Wrote(folder), OneByOne, TakesAll
  PROVE  /\ todo = <<>> => set.members = Stored(Size)
         /\ todo # <<>> => \E n \in 0..Size :
              /\ n # Size /\ set.members = Stored(n) /\ todo = Left(n) /\ n + 1 \in 0..Size /\ n + 1 \in 1..Size
              /\ NextPart = Vol(n + 1) /\ Tail(todo) = Left(n + 1) /\ (n = 0 <=> set = NoSet)
<1>0. folder \in Folders /\ (set.members = <<>> <=> set = NoSet)
  BY NoSetIsEmpty DEF OpenShape
<1>1. PICK n \in 0..Size : set.members = Stored(n) /\ todo = Left(n)
  BY DEF OneByOne
<1>2. Size \in Nat /\ (n # Size => n + 1 \in 0..Size /\ n + 1 \in 1..Size)
  BY <1>0, FolderIsSorted
<1>3. todo = <<>> <=> n = Size
  BY <1>0, <1>1, LeftIs
<1>4. n # Size => NextPart = Vol(n + 1) /\ Tail(todo) = Left(n + 1)
  BY <1>0, <1>1, LeftIs DEF NextPart, Vol
<1>5. n = 0 <=> set = NoSet
  BY <1>0, <1>1, StoredIs
<1>. QED BY <1>1, <1>2, <1>3, <1>4, <1>5

\* The disk image of the whole set is the one eligible, and opens.
LEMMA WrittenEligible ==
  ASSUME folder \in Folders, Wrote(folder), set.members = Stored(Size), command.does = "disk"
  PROVE  \E name : /\ Eligible = {name}
                   /\ OpenInSet(set, name).ok /\ DOMAIN OpenInSet(set, name).streams = Streams
<1>1. PICK name : /\ DOMAIN Vol(1).images = {name} /\ Vol(1).images[name] = "DiskImage"
                  /\ name \in DOMAIN Vol(1).maps /\ Vol(1).maps[name] = Streams
  BY WroteImage
<1>2. Size \in 0..Size /\ 1 \in 1..Size
  BY FolderIsSorted
<1>3. set.members[1] = Vol(1)
  BY <1>2, StoredIs
<1>4. Candidates(Vol(1)) = {name}
  BY <1>1, WrittenCandidates
<1>5. Eligible = {name}
  BY <1>3, <1>4 DEF Eligible
<1>6. OpenInSet(set, name).ok /\ DOMAIN OpenInSet(set, name).streams = Streams
  BY <1>1, WrittenOpens
<1>. QED BY <1>5, <1>6

\* It holds before a command.
LEMMA WrittenInit == OpenInit => WrittenInv
<1>. SUFFICES ASSUME OpenInit PROVE NothingYet /\ OneByOne /\ AllTaken /\ DiskInv
  BY DEF WrittenInv
<1>1. command = NoCommand /\ command.does = "nothing"
  BY DEF OpenInit, NoCommand
<1>. QED BY <1>1 DEF OpenInit, NothingYet, OneByOne, AllTaken, DiskInv, TakesAll

\* A command begins with all parts left.
LEMMA WrittenBegins ==
  ASSUME OpenShape, Wrote(folder), NothingYet, NEW file \in folder,
         OpenDisk(file) \/ VerifyFile(file) \/ VerifyFolder(file)
  PROVE  WrittenInv'
<1>0. folder \in Folders
  BY DEF OpenShape
<1>1. /\ folder' = folder /\ set' = set /\ image' = image /\ served' = served
      /\ command = NoCommand /\ command'.does \in {"disk", "file", "folder"}
  BY DEF OpenDisk, VerifyFile, VerifyFolder, Begin
<1>2. set = NoSet /\ outcome = "running" /\ served = Forgotten
  BY <1>1 DEF NothingYet
<1>3. command' # NoCommand
  BY <1>1 DEF NoCommand
<1>4. ASSUME command'.does \in {"disk", "folder"} PROVE todo' = Left(0) /\ outcome' = "running"
  <2>1. PartsOf(folder, file) = Sorted(folder) /\ Discover(folder) = Sorted(folder)
    BY <1>0, WroteIsFound
  <2>2. Sorted(folder) # <<>>
    BY <1>0, FolderIsSorted
  <2>3. todo' = Sorted(folder) /\ outcome' = "running"
    BY <1>2, <1>4, <2>1, <2>2 DEF OpenDisk, VerifyFile, VerifyFolder, Begin
  <2>. QED BY <1>0, <2>3, LeftAtFirst
<1>5. 0 \in 0..Size /\ NoSet.members = Stored(0)
  BY <1>0, FolderIsSorted, StoredIs DEF NoSet
<1>6. OneByOne'
  BY <1>1, <1>2, <1>4, <1>5, SameFolder DEF OneByOne, TakesAll
<1>7. AllTaken'
  BY <1>4 DEF AllTaken, TakesAll
<1>8. DiskInv'
  BY <1>1, <1>2, <1>4 DEF DiskInv, Served, Forgotten
<1>. QED BY <1>3, <1>6, <1>7, <1>8 DEF WrittenInv, NothingYet

\* A part is opened and none is refused.
LEMMA WrittenPartOpens ==
  ASSUME OpenShape, Wrote(folder), OneByOne, DiskInv, OpenPrimary \/ OpenSibling
  PROVE  WrittenInv'
<1>0. folder \in Folders
  BY DEF OpenShape
<1>1. /\ folder' = folder /\ command' = command /\ image' = image /\ served' = served
      /\ Opening
  BY DEF OpenPrimary, OpenSibling
<1>2. NothingYet'
  BY <1>1 DEF NothingYet, Opening
<1>3. CASE ~TakesAll
  BY <1>1, <1>2, <1>3 DEF WrittenInv, OneByOne, AllTaken, DiskInv, TakesAll
<1>4. CASE TakesAll
  <2>1. todo # <<>>
    BY <1>1, NoSetIsEmpty DEF OpenPrimary, OpenSibling, OpenShape
  <2>2. PICK n \in 0..Size :
          /\ n # Size /\ set.members = Stored(n) /\ todo = Left(n) /\ n + 1 \in 0..Size /\ n + 1 \in 1..Size
          /\ NextPart = Vol(n + 1) /\ Tail(todo) = Left(n + 1) /\ (n = 0 <=> set = NoSet)
    BY <1>4, <2>1, WrittenTodo
  <2>3. NextPart # Torn /\ NextPart.generation \in Supported
    BY <1>0, <2>2, WroteParts
  <2>4. set'.members = Stored(n + 1) /\ todo' = Tail(todo) /\ outcome' = outcome
    <3>1. CASE OpenPrimary
      <4>1. n = 0 /\ set' = Single(Vol(1)) /\ todo' = Tail(todo) /\ outcome' = outcome
        BY <2>2, <2>3, <3>1 DEF OpenPrimary
      <4>2. Stored(1) = <<Vol(1)>>
        BY DEF Stored
      <4>. QED BY <4>1, <4>2 DEF Single
    <3>2. CASE OpenSibling
      <4>1. n \in 1..Size /\ set' = AddVolume(set, Vol(n + 1)) /\ todo' = Tail(todo) /\ outcome' = outcome
        BY <2>2, <2>3, <3>2 DEF OpenSibling
      <4>. QED BY <1>0, <2>2, <4>1, NextIsAdded
    <3>. QED BY <3>1, <3>2
  <2>5. OneByOne'
    BY <1>1, <2>2, <2>4, SameFolder DEF OneByOne
  <2>6. AllTaken'
    BY <1>1, <2>4 DEF AllTaken, Opening
  <2>7. DiskInv'
    BY <1>1, <2>4 DEF DiskInv, Served, Opening
  <2>. QED BY <1>2, <2>5, <2>6, <2>7 DEF WrittenInv
<1>. QED BY <1>3, <1>4

\* The image of a whole set is opened; a command for the disk is never refused.
LEMMA WrittenImageOpens ==
  ASSUME OpenShape, Wrote(folder), OneByOne, DiskInv, RefuseSet \/ NoDiskImage \/ \E name : OpenImage(name)
  PROVE  WrittenInv'
<1>0. folder \in Folders
  BY DEF OpenShape
<1>1. /\ folder' = folder /\ command' = command /\ todo' = todo /\ set' = set /\ served' = served
      /\ AllOpened /\ command # NoCommand
  BY DEF RefuseSet, NoDiskImage, OpenImage, AllOpened, Opening
<1>2. NothingYet'
  BY <1>1 DEF NothingYet
<1>3. CASE ~TakesAll
  BY <1>1, <1>2, <1>3 DEF WrittenInv, OneByOne, AllTaken, DiskInv, TakesAll
<1>4. CASE TakesAll
  <2>1. set.members = Stored(Size)
    BY <1>1, <1>4, WrittenTodo DEF AllOpened
  <2>2. OneByOne'
    BY <1>1, SameFolder DEF OneByOne, TakesAll
  <2>3. AllTaken'
    BY <1>1, <2>1, SameFolder DEF AllTaken
  <2>4. ASSUME command.does = "disk" PROVE outcome' = "open" /\ DOMAIN image'.streams = Streams
    <3>1. PICK name : /\ Eligible = {name}
                      /\ OpenInSet(set, name).ok /\ DOMAIN OpenInSet(set, name).streams = Streams
      BY <1>0, <2>1, <2>4, WrittenEligible
    <3>2. ~RefuseSet
      BY <2>4 DEF RefuseSet, Unrelated, Incomplete
    <3>3. Cardinality(Eligible) = 1
      BY <3>1, FS_Singleton
    <3>4. Eligible # {} /\ ~(Cardinality(Eligible) > 1)
      BY <3>1, <3>3
    <3>6. ~NoDiskImage
      BY <3>4 DEF NoDiskImage
    <3>5. OpenImage(name)
      BY <3>1, <3>2, <3>6 DEF OpenImage
    <3>. QED BY <3>1, <3>5 DEF OpenImage
  <2>5. DiskInv'
    BY <1>1, <2>4 DEF DiskInv, Served
  <2>. QED BY <1>2, <2>2, <2>3, <2>5 DEF WrittenInv
<1>. QED BY <1>3, <1>4

\* A stream is read from the part that keeps it.
LEMMA WrittenReads ==
  ASSUME OpenShape, MemoInv, Wrote(folder), NothingYet, OneByOne, AllTaken, DiskInv,
         NEW stream \in Streams, ReadStream(stream)
  PROVE  WrittenInv'
<1>0. folder \in Folders
  BY DEF OpenShape
<1>1. /\ folder' = folder /\ command' = command /\ todo' = todo /\ image' = image /\ set' = Asked(set, stream)
      /\ outcome = "open"
  BY DEF ReadStream
<1>2. set'.members = set.members
  BY <1>1 DEF MemoInv, IsSet, Asked
<1>3. NothingYet'
  BY <1>1 DEF NothingYet
<1>4. OneByOne'
  BY <1>1, <1>2, SameFolder DEF OneByOne, TakesAll
<1>5. AllTaken'
  BY <1>1, <1>2, SameFolder DEF AllTaken, TakesAll
<1>6. ASSUME command.does = "disk" PROVE outcome' = "open" /\ Served'
  <2>1. set.members = Stored(Size)
    BY <1>1, <1>6 DEF AllTaken, TakesAll
  <2>2. PICK h \in 1..Size : Keeps(h, stream)
    BY <1>0, WroteStreams
  <2>3. Holder(set, stream) = h
    BY <1>0, <2>1, <2>2, WrittenHolder DEF Holder, Known, MemoInv, HolderMemoIsTruth
  <2>4. Size \in 0..Size /\ h # None
    BY <1>0, FolderIsSorted DEF None
  <2>5. set.members[h] = Vol(h)
    BY <1>0, <2>1, <2>4, StoredIs
  <2>6. /\ outcome' = outcome
        /\ served' = [s \in DOMAIN served \cup {stream} |-> IF s = stream THEN Vol(h).arn ELSE served[s]]
    BY <2>3, <2>4, <2>5 DEF ReadStream
  <2>7. Sorted(folder)[h] \in folder
    BY <1>0, WroteParts
  <2>8. \E f \in folder : f.volume.arn = Vol(h).arn /\ stream \in f.volume.bevies
    BY <2>2, <2>7 DEF Keeps, Vol
  <2>9. Served
    BY <1>6 DEF DiskInv
  <2>10. ASSUME NEW s \in DOMAIN served' PROVE \E f \in folder : f.volume.arn = served'[s] /\ s \in f.volume.bevies
    BY <2>6, <2>8, <2>9, <2>10 DEF Served
  <2>. QED BY <1>1, <2>6, <2>10 DEF Served
<1>7. DiskInv'
  BY <1>1, <1>6 DEF DiskInv
<1>. QED BY <1>3, <1>4, <1>5, <1>7 DEF WrittenInv

\* A volume added late was there.
LEMMA WrittenAdds ==
  ASSUME OpenShape, Wrote(folder), NothingYet, OneByOne, AllTaken, DiskInv, NEW file \in folder, AddLate(file)
  PROVE  WrittenInv'
<1>0. folder \in Folders
  BY DEF OpenShape
<1>1. /\ folder' = folder /\ command' = command /\ todo' = todo /\ image' = image /\ served' = served
      /\ outcome = "not given" /\ set' = AddVolume(set, file.volume)
  BY DEF AddLate
<1>2. NothingYet'
  BY <1>1 DEF NothingYet
<1>3. command.does # "disk"
  BY <1>1 DEF DiskInv
<1>4. DiskInv'
  BY <1>1, <1>3 DEF DiskInv
<1>5. TakesAll => set.members = Stored(Size) /\ set' = set
  BY <1>0, <1>1, KnownIsNotAdded DEF AllTaken
<1>6. OneByOne'
  BY <1>1, <1>5, SameFolder DEF OneByOne, TakesAll
<1>7. AllTaken'
  BY <1>1, <1>5, SameFolder DEF AllTaken, TakesAll
<1>. QED BY <1>2, <1>4, <1>6, <1>7 DEF WrittenInv

\* Every step of a command keeps it.
LEMMA WrittenStep == OpenShape /\ MemoInv /\ WrittenInv /\ [OpenNext]_openVars => WrittenInv'
<1>. SUFFICES ASSUME OpenShape, MemoInv, WrittenInv, [OpenNext]_openVars PROVE WrittenInv'
  OBVIOUS
<1>1. folder' = folder
  BY DEF OpenNext, openVars, OpenDisk, VerifyFile, VerifyFolder, Begin, OpenPrimary, OpenSibling,
         RefuseSet, OpenImage, NoDiskImage, ReadStream, AddLate
<1>2. CASE ~Wrote(folder)
  BY <1>1, <1>2 DEF WrittenInv
<1>3. CASE Wrote(folder)
  <2>1. NothingYet /\ OneByOne /\ AllTaken /\ DiskInv
    BY <1>3 DEF WrittenInv
  <2>2. CASE UNCHANGED openVars
    <3>1. NothingYet' /\ DiskInv'
      BY <2>1, <2>2 DEF openVars, NothingYet, DiskInv, Served
    <3>2. OneByOne' /\ AllTaken'
      BY <2>1, <2>2, <1>1, SameFolder DEF openVars, OneByOne, AllTaken, TakesAll
    <3>. QED BY <3>1, <3>2 DEF WrittenInv
  <2>3. CASE \E file \in folder : OpenDisk(file) \/ VerifyFile(file) \/ VerifyFolder(file)
    BY <1>3, <2>1, <2>3, WrittenBegins
  <2>4. CASE OpenPrimary \/ OpenSibling
    BY <1>3, <2>1, <2>4, WrittenPartOpens
  <2>5. CASE RefuseSet \/ NoDiskImage \/ \E name : OpenImage(name)
    BY <1>3, <2>1, <2>5, WrittenImageOpens
  <2>6. CASE \E stream \in Streams : ReadStream(stream)
    BY <1>3, <2>1, <2>6, WrittenReads
  <2>7. CASE \E file \in folder : AddLate(file)
    BY <1>3, <2>1, <2>7, WrittenAdds
  <2>. QED BY <2>2, <2>3, <2>4, <2>5, <2>6, <2>7 DEF OpenNext
<1>. QED BY <1>2, <1>3

\* A set so opened is opened whole.
LEMMA WrittenOpensWhole == OpenShape /\ WrittenInv => CompleteSetsOpenAsOne /\ EveryRecordedDigestIsTaken
<1>. SUFFICES ASSUME OpenShape, WrittenInv PROVE CompleteSetsOpenAsOne /\ EveryRecordedDigestIsTaken
  OBVIOUS
<1>0. folder \in Folders
  BY DEF OpenShape
<1>1. CompleteSetsOpenAsOne
  BY DEF WrittenInv, CompleteSetsOpenAsOne, DiskInv, Served
<1>2. ASSUME Wrote(folder), command.does = "folder", outcome = "open", NEW s \in Streams, NEW f \in folder
      PROVE  f.volume.hashes[s] \subseteq RecordedHashes(set, s)
  <2>1. set.members = Stored(Size)
    BY <1>2 DEF WrittenInv, AllTaken, TakesAll
  <2>. QED BY <1>0, <1>2, <2>1, WrittenHashes
<1>. QED BY <1>1, <1>2 DEF EveryRecordedDigestIsTaken

(* Of every folder a writer left, whichever part is named the disk image is   *)
(* opened whole and each stream read from the volume that has its bevies;     *)
(* verification takes up every digest any part records; and in every set,     *)
(* written or not, the order the siblings are added in decides nothing, save  *)
(* between siblings that map an image the primary does not (discover and      *)
(* parts_of of multi_part.rs, add_volume, open_in_set,                        *)
(* objects_across_volumes).                                                   *)
THEOREM SetsOpenAsWritten == OpenSpec => []SetsOpenWhole
<1>. DEFINE Inv == MemoInv /\ OpenShape /\ WrittenInv
<1>1. OpenInit => Inv
  BY MemoInit, ShapeInit, WrittenInit
<1>2. Inv /\ [OpenNext]_openVars => Inv'
  BY MemoStep, ShapeStep, WrittenStep
<1>3. Inv => SetsOpenWhole
  BY OrderIsImmaterial, WrittenOpensWhole DEF SetsOpenWhole, MemoInv
<1>. QED BY <1>1, <1>2, <1>3, PTL DEF OpenSpec

-----------------------------------------------------------------------------
(* Where a recorded path goes *)

\* A sequence with one more is not empty.
LEMMA OneMoreIsThere ==
  ASSUME NEW X, NEW x \in Seq(X), NEW e \in X
  PROVE  Append(x, e) \in Seq(X) /\ Append(x, e) # <<>>
<1>1. Append(x, e) \in Seq(X) /\ Len(Append(x, e)) = Len(x) + 1 /\ Len(x) \in Nat
  OBVIOUS
<1>2. Len(Append(x, e)) # 0
  BY <1>1
<1>. QED BY <1>1, <1>2

\* What a sequence has at some of its places is a sequence of that, and empty
\* only if there is none.
LEMMA AmongIs ==
  ASSUME NEW S, NEW s \in Seq(S), NEW places
  PROVE  /\ Among(s, places) \in Seq({s[i] : i \in DOMAIN s \cap places})
         /\ Among(s, places) = <<>> => DOMAIN s \cap places = {}
<1>. DEFINE X == {s[i] : i \in DOMAIN s \cap places}
            N == Len(s)
            Def(f) == [n \in 0..N |-> IF n = 0 THEN <<>>
                                      ELSE IF n \in places THEN Append(f[n - 1], s[n]) ELSE f[n - 1]]
            F == [k \in 1..N |-> [x \in Seq(X) |-> IF k \in places THEN Append(x, s[k]) ELSE x]]
            upTo == CHOOSE f : f = Def(f)
<1>1. N \in Nat /\ DOMAIN s = 1..N
  OBVIOUS
<1>2. \A k \in 1..N : k \in places => s[k] \in X
  BY <1>1
<1>3. <<>> \in Seq(X)
  OBVIOUS
<1>4. Among(s, places) = upTo[N]
  BY DEF Among
<1>. HIDE DEF X
<1>5. \A k \in 1..N : \A x \in Seq(X) : (IF k \in places THEN Append(x, s[k]) ELSE x) \in Seq(X)
  BY <1>2
<1>6. F \in [1..N -> [Seq(X) -> Seq(X)]]
  BY <1>5
<1>7. \A k \in 1..N : \A x \in Seq(X) : F[k][x] = IF k \in places THEN Append(x, s[k]) ELSE x
  OBVIOUS
<1>. HIDE DEF F
<1>8. HasTurns(N, Seq(X), <<>>, F)
  BY <1>1, <1>3, <1>6, TurnByTurn
<1>9. PICK g \in [0..N -> Seq(X)] : g[0] = <<>> /\ \A k \in 1..N : g[k] = F[k][g[k - 1]]
  BY <1>8 DEF HasTurns
<1>10. \A k \in 1..N : k - 1 \in 0..N /\ g[k - 1] \in Seq(X)
  <2>. HIDE DEF N
  <2>1. \A k \in 1..N : k - 1 \in 0..N
    BY <1>1
  <2>. QED BY <1>9, <2>1
<1>11. g = Def(g)
  <2>1. \A n \in 0..N : n # 0 => n \in 1..N
    BY <1>1
  <2>2. \A n \in 0..N : g[n] = Def(g)[n]
    BY <1>7, <1>9, <1>10, <2>1
  <2>. QED BY <1>9, <2>2
<1>12. upTo = Def(upTo)
  BY <1>11
<1>. HIDE DEF upTo
<1>13. /\ 0 \in 0..N /\ upTo[0] = <<>>
       /\ \A k \in 1..N : upTo[k] = IF k \in places THEN Append(upTo[k - 1], s[k]) ELSE upTo[k - 1]
  <2>1. \A k \in 1..N : k \in 0..N /\ k # 0
    BY <1>1
  <2>2. \A n \in 0..N : upTo[n] = IF n = 0 THEN <<>>
                                  ELSE IF n \in places THEN Append(upTo[n - 1], s[n]) ELSE upTo[n - 1]
    BY <1>12
  <2>. QED BY <1>1, <2>1, <2>2
<1>. DEFINE T == {n \in 0..N : upTo[n] \in Seq(X) /\ (upTo[n] = <<>> => (1..n) \cap places = {})}
<1>14. 0 \in T
  <2>1. 1..0 = {}
    OBVIOUS
  <2>2. upTo[0] \in Seq(X) /\ (1..0) \cap places = {}
    BY <1>3, <1>13, <2>1
  <2>. QED BY <1>13, <2>2
<1>15. ASSUME NEW n \in 0..(N - 1), n \in T PROVE n + 1 \in T
  <2>1. n + 1 \in 0..N /\ n + 1 \in 1..N /\ (n + 1) - 1 = n /\ n \in Nat
    BY <1>1
  <2>2. upTo[n] \in Seq(X) /\ (upTo[n] = <<>> => (1..n) \cap places = {})
    BY <1>15
  <2>3. upTo[n + 1] = IF n + 1 \in places THEN Append(upTo[n], s[n + 1]) ELSE upTo[n]
    BY <1>13, <2>1
  <2>4. CASE n + 1 \in places
    <3>1. s[n + 1] \in X
      BY <1>2, <2>1, <2>4
    <3>2. upTo[n + 1] = Append(upTo[n], s[n + 1])
      BY <2>3, <2>4
    <3>4. \A x \in Seq(X) : Append(x, s[n + 1]) \in Seq(X) /\ Append(x, s[n + 1]) # <<>>
      BY <3>1, OneMoreIsThere
    <3>3. upTo[n + 1] \in Seq(X) /\ upTo[n + 1] # <<>>
      BY <2>2, <3>2, <3>4
    <3>. QED BY <2>1, <3>3
  <2>5. CASE n + 1 \notin places
    <3>1. 1..(n + 1) = (1..n) \cup {n + 1}
      BY <2>1
    <3>. QED BY <2>1, <2>2, <2>3, <2>5, <3>1
  <2>. QED BY <2>4, <2>5
<1>16. 0..N \subseteq T
  <2>. HIDE DEF T
  <2>. QED BY <1>1, <1>14, <1>15, NumbersUpTo
<1>17. N \in T
  BY <1>1, <1>16
<1>. QED BY <1>1, <1>4, <1>17 DEF X

\* A name written has its marks and copies counted, and does not climb.
IsName(c) == /\ c = Name(c.stem, c.marks, c.copies)
             /\ c.marks \in Nat /\ c.copies \in Seq(Nat) /\ ~Climbs(c)
IsWritable(p) == p \in Seq({p[i] : i \in DOMAIN p}) /\ p # <<>> /\ \A i \in DOMAIN p : IsName(p[i])

\* So is the one for a path that names nothing.
LEMMA FallbackIsName == IsName(Fallback)
<1>1. Fallback = [stem |-> "", marks |-> 1, copies |-> <<>>]
  BY DEF Fallback, Name
<1>2. <<>> \in Seq(Nat)
  OBVIOUS
<1>3. Fallback.copies = <<>> /\ Fallback.marks = 1 /\ Fallback.stem = ""
  BY <1>1
<1>. QED BY <1>1, <1>2, <1>3 DEF IsName, Name, Climbs

\* A component that is kept is made one (safe_component).
LEMMA ComponentIsSafe ==
  ASSUME NEW c, IsComponent(c), ~Dropped(c), NEW bytes \in BOOLEAN
  PROVE  IsName(SafeComponent(c, bytes))
<1>1. c.marks \in Nat /\ c.copies \in Seq(Nat) /\ "up" \notin c.flaws /\ (Climbs(c) => "illegal" \in c.flaws)
  BY DEF IsComponent, Dropped
<1>. DEFINE bad == "illegal" \in c.flaws \/ (bytes /\ "drive" \in c.flaws)
            kept == Name(c.stem, IF bad THEN c.marks + 1 ELSE c.marks, c.copies)
<1>2. IsName(Fallback)
  BY FallbackIsName
<1>3. kept.stem = c.stem /\ kept.copies = c.copies /\ kept.marks \in Nat /\ kept.marks >= c.marks
      /\ (bad => kept.marks # 0) /\ (~bad => kept.marks = c.marks)
  BY <1>1 DEF Name
<1>4. IsName(kept)
  <2>1. ~Climbs(kept)
    BY <1>1, <1>3 DEF Climbs
  <2>2. kept = Name(kept.stem, kept.marks, kept.copies)
    BY DEF Name
  <2>. QED BY <1>1, <1>3, <2>1, <2>2 DEF IsName
<1>5. IsName([kept EXCEPT !.marks = 1])
  <2>1. [kept EXCEPT !.marks = 1] = Name(c.stem, 1, c.copies)
    BY DEF Name
  <2>2. IsName(Name(c.stem, 1, c.copies))
    BY <1>1 DEF Name, IsName, Climbs
  <2>. QED BY <2>1, <2>2
<1>6. SafeComponent(c, bytes) \in {Fallback, kept, [kept EXCEPT !.marks = 1]}
  BY DEF SafeComponent
<1>. HIDE DEF kept
<1>. QED BY <1>2, <1>4, <1>5, <1>6

\* What is wanted of a recorded path can be written (rebase).
LEMMA RebasedIsWritable ==
  ASSUME NEW recorded, IsPath(recorded), NEW bytes \in BOOLEAN
  PROVE  IsWritable(Rebased(recorded, bytes))
<1>. DEFINE places == {i \in DOMAIN recorded : ~Dropped(recorded[i])}
            kept == Among(recorded, places)
            named == [i \in 1..Len(kept) |-> SafeComponent(kept[i], bytes)]
<1>1. kept \in Seq({recorded[i] : i \in DOMAIN recorded \cap places})
  BY AmongIs DEF IsPath
<1>2. \A i \in 1..Len(kept) : \E j \in DOMAIN recorded : kept[i] = recorded[j] /\ ~Dropped(recorded[j])
  <2>. HIDE DEF kept
  <2>1. \A i \in 1..Len(kept) : kept[i] \in {recorded[j] : j \in DOMAIN recorded \cap places}
    BY <1>1
  <2>. QED BY <2>1
<1>3. Rebased(recorded, bytes) = IF kept = <<>> THEN <<Fallback>> ELSE named
  BY DEF Rebased
<1>4. Len(kept) \in Nat /\ (kept # <<>> => Len(kept) # 0)
  BY <1>1
<1>. HIDE DEF kept, places
<1>5. \A i \in 1..Len(kept) : IsName(named[i])
  BY <1>2, ComponentIsSafe DEF IsPath
<1>6. kept # <<>> => IsWritable(named)
  <2>. SUFFICES ASSUME kept # <<>> PROVE IsWritable(named)
    OBVIOUS
  <2>1. DOMAIN named = 1..Len(kept)
    OBVIOUS
  <2>. DEFINE Y == {named[i] : i \in DOMAIN named}
  <2>2. \A i \in 1..Len(kept) : named[i] \in Y
    BY <2>1
  <2>3. named = [i \in 1..Len(kept) |-> named[i]]
    OBVIOUS
  <2>. HIDE DEF named, Y
  <2>4. named \in Seq(Y) /\ Len(named) = Len(kept)
    BY <1>4, <2>2, <2>3
  <2>5. named # <<>>
    BY <1>4, <2>4
  <2>. QED BY <1>5, <2>1, <2>4, <2>5 DEF IsWritable, Y
<1>7. IsWritable(<<Fallback>>)
  BY FallbackIsName DEF IsWritable
<1>. QED BY <1>3, <1>6, <1>7

\* A path no reason is given for is the one recorded (rebase).
LEMMA UnalteredIsAsRecorded ==
  ASSUME NEW recorded, IsPath(recorded), NEW bytes \in BOOLEAN, ~PathAltered(recorded, bytes)
  PROVE  Rebased(recorded, bytes) = AsRecorded(recorded)
<1>. DEFINE places == {i \in DOMAIN recorded : ~Dropped(recorded[i])}
            kept == Among(recorded, places)
<1>1. /\ \E i \in DOMAIN recorded : ~Dropped(recorded[i])
      /\ \A i \in DOMAIN recorded : ~Silent(recorded[i]) =>
           recorded[i].flaws = {} /\ SafeComponent(recorded[i], bytes).marks = recorded[i].marks
  BY DEF PathAltered
<1>2. \A i \in DOMAIN recorded : Dropped(recorded[i]) <=> Silent(recorded[i])
  BY <1>1 DEF Dropped, Silent
<1>3. places = {i \in DOMAIN recorded : ~Silent(recorded[i])}
  BY <1>2
<1>4. /\ kept \in Seq({recorded[i] : i \in DOMAIN recorded \cap places}) /\ kept # <<>>
      /\ DOMAIN kept = 1..Len(kept)
  <2>1. DOMAIN recorded \cap places # {}
    BY <1>1
  <2>2. kept \in Seq({recorded[i] : i \in DOMAIN recorded \cap places}) /\ kept # <<>>
    <3>. HIDE DEF places
    <3>. QED BY <2>1, AmongIs DEF IsPath
  <2>3. \A S : \A q \in Seq(S) : DOMAIN q = 1..Len(q)
    OBVIOUS
  <2>. HIDE DEF kept
  <2>. QED BY <2>2, <2>3
<1>5. \A i \in 1..Len(kept) : \E j \in DOMAIN recorded : kept[i] = recorded[j] /\ ~Silent(recorded[j])
  <2>. HIDE DEF kept
  <2>1. \A i \in 1..Len(kept) : kept[i] \in {recorded[j] : j \in DOMAIN recorded \cap places}
    BY <1>4
  <2>. QED BY <1>2, <2>1
<1>6. Rebased(recorded, bytes) = [i \in 1..Len(kept) |-> SafeComponent(kept[i], bytes)]
  BY <1>4 DEF Rebased
<1>7. AsRecorded(recorded) = [i \in DOMAIN kept |-> Name(kept[i].stem, kept[i].marks, kept[i].copies)]
  BY <1>3 DEF AsRecorded
<1>8. ASSUME NEW c, c.marks \in Nat, c.flaws = {}, SafeComponent(c, bytes).marks = c.marks
      PROVE  SafeComponent(c, bytes) = Name(c.stem, c.marks, c.copies)
  <2>. DEFINE same == Name(c.stem, c.marks, c.copies)
  <2>1. SafeComponent(c, bytes) = IF ~bytes /\ IsReserved(same) THEN [same EXCEPT !.marks = 1] ELSE same
    BY <1>8 DEF SafeComponent
  <2>2. [same EXCEPT !.marks = 1].marks = 1 /\ same.marks = c.marks
    BY DEF Name
  <2>3. IsReserved(same) => c.marks = 0
    BY <2>2 DEF IsReserved
  <2>. HIDE DEF same
  <2>4. ~(~bytes /\ IsReserved(same))
    BY <1>8, <2>1, <2>2, <2>3
  <2>. QED BY <2>1, <2>4 DEF same
<1>. HIDE DEF kept
<1>9. ASSUME NEW i \in 1..Len(kept) PROVE SafeComponent(kept[i], bytes) = Name(kept[i].stem, kept[i].marks, kept[i].copies)
  <2>1. PICK j \in DOMAIN recorded : kept[i] = recorded[j] /\ ~Silent(recorded[j])
    BY <1>5
  <2>2. recorded[j].marks \in Nat
    BY DEF IsPath, IsComponent
  <2>. QED BY <1>1, <1>8, <2>1, <2>2
<1>. QED BY <1>4, <1>6, <1>7, <1>9

\* The same path with another "(n)" can be written (deconflict).
LEMMA CopyIsWritable ==
  ASSUME NEW p, IsWritable(p), NEW n \in Nat
  PROVE  /\ IsWritable(WithCopy(p, n))
         /\ DOMAIN WithCopy(p, n) = DOMAIN p /\ Len(p) \in DOMAIN p
         /\ WithCopy(p, n)[Len(p)].copies = Append(p[Len(p)].copies, n)
<1>. DEFINE S == {p[i] : i \in DOMAIN p}
            last == p[Len(p)]
            copied == [last EXCEPT !.copies = Append(@, n)]
            q == [i \in 1..Len(p) |-> IF i = Len(p) THEN copied ELSE p[i]]
            Y == {q[i] : i \in DOMAIN q}
<1>1. p \in Seq(S) /\ p # <<>> /\ \A i \in DOMAIN p : IsName(p[i])
  BY DEF IsWritable
<1>2. Len(p) \in Nat \ {0} /\ DOMAIN p = 1..Len(p)
  <2>. HIDE DEF S
  <2>. QED BY <1>1
<1>3. Len(p) \in DOMAIN p
  BY <1>2
<1>4. WithCopy(p, n) = [i \in DOMAIN p |-> IF i = Len(p) THEN copied ELSE p[i]]
  BY <1>3 DEF WithCopy
<1>5. WithCopy(p, n) = q
  BY <1>2, <1>4
<1>6. copied = Name(last.stem, last.marks, Append(last.copies, n)) /\ last.marks \in Nat /\ last.copies \in Seq(Nat)
  <2>1. IsName(last)
    BY <1>1, <1>3
  <2>. HIDE DEF last
  <2>2. \A a, b, c, d : [[stem |-> a, marks |-> b, copies |-> c] EXCEPT !.copies = d] = [stem |-> a, marks |-> b, copies |-> d]
    OBVIOUS
  <2>3. last = [stem |-> last.stem, marks |-> last.marks, copies |-> last.copies]
    BY <2>1 DEF IsName, Name
  <2>4. copied = [last EXCEPT !.copies = Append(last.copies, n)]
    OBVIOUS
  <2>. HIDE DEF copied
  <2>5. copied = [stem |-> last.stem, marks |-> last.marks, copies |-> Append(last.copies, n)]
    BY <2>2, <2>3, <2>4
  <2>. QED BY <2>1, <2>5 DEF IsName, Name
<1>. HIDE DEF copied, last
<1>7. copied.stem = last.stem /\ copied.marks = last.marks /\ copied.copies = Append(last.copies, n)
  BY <1>6 DEF Name
<1>8. Append(last.copies, n) \in Seq(Nat) /\ Append(last.copies, n) # <<>>
  BY <1>6, OneMoreIsThere
<1>9. IsName(copied)
  BY <1>6, <1>7, <1>8 DEF IsName, Climbs
<1>10. \A i \in 1..Len(p) : IsName(q[i]) /\ q[i] \in Y
  BY <1>1, <1>2, <1>9
<1>11. q[Len(p)] = copied
  <2>1. Len(p) \in 1..Len(p)
    BY <1>2
  <2>. QED BY <2>1
<1>12. DOMAIN q = 1..Len(p) /\ q = [i \in 1..Len(p) |-> q[i]]
  OBVIOUS
<1>. HIDE DEF Y, q
<1>13. q \in Seq(Y) /\ Len(q) = Len(p)
  BY <1>2, <1>10, <1>12
<1>14. q # <<>>
  BY <1>2, <1>13
<1>15. IsWritable(q)
  BY <1>10, <1>12, <1>13, <1>14 DEF IsWritable, Y
<1>. QED BY <1>2, <1>3, <1>5, <1>7, <1>11, <1>12, <1>15 DEF last

\* It is not the path itself, and is another for another number.
LEMMA CopiesDiffer ==
  ASSUME NEW p, IsWritable(p), NEW n \in Nat
  PROVE  /\ WithCopy(p, n) # p
         /\ \A m \in Nat : WithCopy(p, m) = WithCopy(p, n) => m = n
<1>1. Len(p) \in DOMAIN p /\ \A m \in Nat : WithCopy(p, m)[Len(p)].copies = Append(p[Len(p)].copies, m)
  BY CopyIsWritable
<1>2. p[Len(p)].copies \in Seq(Nat)
  BY <1>1 DEF IsWritable, IsName
<1>. DEFINE c == p[Len(p)].copies
<1>. HIDE DEF c
<1>3. c \in Seq(Nat)
  BY <1>2 DEF c
<1>4. Append(c, n) # c
  <2>1. Len(Append(c, n)) = Len(c) + 1 /\ Len(c) \in Nat
    BY <1>3
  <2>. QED BY <2>1
<1>5. \A m \in Nat : Append(c, m) = Append(c, n) => m = n
  <2>. TAKE m \in Nat
  <2>1. Append(c, m)[Len(c) + 1] = m /\ Append(c, n)[Len(c) + 1] = n
    BY <1>3
  <2>. QED BY <2>1
<1>. QED BY <1>1, <1>4, <1>5 DEF c

\* Where a file goes can be written (deconflict).
LEMMA DeconflictIsWritable ==
  ASSUME Copies \in Nat, NEW p, IsWritable(p), NEW claimed
  PROVE  IsWritable(Deconflict(p, claimed))
<1>. DEFINE free == {n \in 2..Copies : WithCopy(p, n) \notin claimed}
<1>1. CASE p \notin claimed \/ free = {}
  BY <1>1 DEF Deconflict
<1>2. CASE p \in claimed /\ free # {}
  <2>1. free \subseteq Nat
    OBVIOUS
  <2>2. \E n \in free : \A m \in free : n <= m
    <3>. HIDE DEF free
    <3>. QED BY <1>2, <2>1, SmallestNumber
  <2>3. Deconflict(p, claimed) = WithCopy(p, CHOOSE n \in free : \A m \in free : n <= m)
    BY <1>2 DEF Deconflict
  <2>. HIDE DEF free
  <2>4. (CHOOSE n \in free : \A m \in free : n <= m) \in free
    BY <2>2
  <2>. QED BY <2>1, <2>3, <2>4, CopyIsWritable
<1>. QED BY <1>1, <1>2

\* It is free while fewer are taken than there are copies to number.
LEMMA DeconflictIsFree ==
  ASSUME Copies \in Nat, NEW p, IsWritable(p), NEW claimed, IsFiniteSet(claimed), Cardinality(claimed) < Copies
  PROVE  Deconflict(p, claimed) \notin claimed
<1>. DEFINE free == {n \in 2..Copies : WithCopy(p, n) \notin claimed}
            copied == {WithCopy(p, n) : n \in 2..Copies}
            f == [n \in 2..Copies |-> WithCopy(p, n)]
<1>0. Cardinality(claimed) \in Nat /\ 1 <= Copies
  BY FS_CardinalityType
<1>1. CASE p \notin claimed
  BY <1>1 DEF Deconflict
<1>2. CASE p \in claimed
  <2>1. \A n \in 2..Copies : n \in Nat
    OBVIOUS
  <2>2. IsFiniteSet(2..Copies) /\ Cardinality(2..Copies) = Copies - 1
    BY <1>0, FS_Interval
  <2>3. f \in Bijection(2..Copies, copied)
    <3>1. \A n, m \in 2..Copies : f[n] = f[m] => n = m
      BY <2>1, CopiesDiffer
    <3>2. f \in [2..Copies -> copied] /\ \A c \in copied : \E n \in 2..Copies : f[n] = c
      OBVIOUS
    <3>. QED BY <3>1, <3>2, Fun_IsBij
  <2>4. IsFiniteSet(copied) /\ Cardinality(copied) = Copies - 1
    <3>. HIDE DEF f, copied
    <3>. QED BY <2>2, <2>3, FS_Bijection DEF ExistsBijection
  <2>5. p \notin copied
    BY <2>1, CopiesDiffer
  <2>6. Cardinality(copied \cup {p}) = Copies
    <3>. HIDE DEF copied
    <3>1. Cardinality(copied \cup {p}) = (Copies - 1) + 1
      BY <2>4, <2>5, FS_AddElement
    <3>. QED BY <1>0, <3>1
  <2>7. free # {}
    <3>1. ASSUME free = {} PROVE FALSE
      <4>1. copied \cup {p} \subseteq claimed
        BY <1>2, <3>1
      <4>2. Copies <= Cardinality(claimed)
        BY <2>6, <4>1, FS_Subset
      <4>. QED BY <1>0, <4>2
    <3>. QED BY <3>1
  <2>8. free \subseteq Nat
    OBVIOUS
  <2>9. (CHOOSE n \in free : \A m \in free : n <= m) \in free
    <3>. HIDE DEF free
    <3>1. \E n \in free : \A m \in free : n <= m
      BY <2>7, <2>8, SmallestNumber
    <3>. QED BY <3>1
  <2>. QED BY <1>2, <2>7, <2>9 DEF Deconflict
<1>. QED BY <1>1, <1>2

-----------------------------------------------------------------------------
(* The export as it goes *)

\* Every component is one the host compares.
Comparable(p) == \A j \in DOMAIN p : p[j].stem \in DOMAIN archive.lower

Ended == step \in {"success", "unverifiable", "io"}
Going == step \in {"name", "read", "write", "times"}
Done == {i \in Files : i < at \/ (i = at /\ Ended)}
\* Before the loop nothing is there; in it at is the file it is at, and after it the last.
Places ==
  /\ archive \in Archives /\ at \in Nat
  /\ step \in {"open", "error", "usage", "no target", "name", "read", "write", "times", "success", "unverifiable", "io"}
  /\ (Going \/ Ended) => at \in Files
  /\ ~(Going \/ Ended) => /\ at = 1 /\ taken = {} /\ tree = [p \in {} |-> Directory] /\ skipped = {} /\ written = 0
  /\ Ended => at = Len(archive.files)
  /\ written \in Nat
\* The name claimed is writable, and is the one recorded unless reported.
PathInv ==
  step \in {"read", "write", "times"} =>
    /\ Recorded # Unnamed /\ IsWritable(path) /\ Comparable(path)
    /\ at \notin altered => path = AsRecorded(Recorded)
TakenInv == IsFiniteSet(taken) /\ FilesHaveTheirOwnPlaces
\* Each file done with is at one place or skipped, and no later one is anywhere.
OneCopy(i) == \E p : Copy(i) = {p}
CopyInv ==
  /\ skipped \subseteq Done
  /\ \A i \in Files : IF i \in skipped THEN Copy(i) = {}
                      ELSE IF i \in Done \/ (i = at /\ step = "times") THEN OneCopy(i)
                      ELSE Copy(i) = {}
  /\ Ended => ((step = "success") = (skipped = {}))
ExportInv == Places /\ PathInv /\ TakenInv /\ CopiesAreWhereTheySay /\ CopyInv

\* The files of an archive, and what their paths are made of.
LEMMA FilesAre ==
  ASSUME archive \in Archives
  PROVE  /\ Len(archive.files) \in Nat /\ DOMAIN archive.files = Files
         /\ (archive.files # <<>> => 1 \in Files)
         /\ \A i \in Files : /\ IsPath(RecordedOf(archive.files[i])) /\ Comparable(RecordedOf(archive.files[i]))
                             /\ archive.files[i].bytes \in BOOLEAN
<1>1. /\ archive.files \in Seq({archive.files[i] : i \in DOMAIN archive.files})
      /\ \A i \in DOMAIN archive.files :
           /\ archive.files[i].bytes \in BOOLEAN
           /\ \A p \in {archive.files[i].path, archive.files[i].arn} : IsPath(p) /\ Comparable(p)
  BY ExportAssumption DEF Comparable
<1>2. \A S : \A q \in Seq(S) : Len(q) \in Nat /\ DOMAIN q = 1..Len(q) /\ (q # <<>> => 1 \in 1..Len(q))
  OBVIOUS
<1>3. Len(archive.files) \in Nat /\ DOMAIN archive.files = Files /\ (archive.files # <<>> => 1 \in Files)
  BY <1>1, <1>2 DEF Files
<1>4. \A f : RecordedOf(f) \in {f.path, f.arn}
  BY DEF RecordedOf
<1>. QED BY <1>1, <1>3, <1>4

\* What is wanted of a recorded path is something the host compares.
LEMMA RebasedIsComparable ==
  ASSUME archive \in Archives, NEW recorded, IsPath(recorded), Comparable(recorded), NEW bytes \in BOOLEAN
  PROVE  Comparable(Rebased(recorded, bytes))
<1>. DEFINE places == {i \in DOMAIN recorded : ~Dropped(recorded[i])}
            kept == Among(recorded, places)
            named == [i \in 1..Len(kept) |-> SafeComponent(kept[i], bytes)]
<1>1. kept \in Seq({recorded[i] : i \in DOMAIN recorded \cap places})
  BY AmongIs DEF IsPath
<1>2. Rebased(recorded, bytes) = IF kept = <<>> THEN <<Fallback>> ELSE named
  BY DEF Rebased
<1>3. Fallback.stem = "" /\ "" \in DOMAIN archive.lower
  BY ExportAssumption DEF Fallback, Name
<1>4. ASSUME NEW c PROVE SafeComponent(c, bytes).stem \in {c.stem, ""}
  BY <1>3 DEF SafeComponent, Name
<1>. HIDE DEF kept
<1>5. \A i \in 1..Len(kept) : kept[i] \in {recorded[j] : j \in DOMAIN recorded \cap places}
  BY <1>1
<1>6. \A i \in 1..Len(kept) : kept[i].stem \in DOMAIN archive.lower
  BY <1>5 DEF Comparable
<1>7. Comparable(named)
  BY <1>3, <1>4, <1>6 DEF Comparable
<1>8. Comparable(<<Fallback>>)
  <2>1. \A x : DOMAIN <<x>> = {1} /\ <<x>>[1] = x
    OBVIOUS
  <2>. QED BY <1>3, <2>1 DEF Comparable
<1>. QED BY <1>2, <1>7, <1>8

\* So is what it is told apart by.
LEMMA CopyIsComparable ==
  ASSUME NEW p, IsWritable(p), Comparable(p), NEW claimed
  PROVE  Comparable(Deconflict(p, claimed))
<1>1. ASSUME NEW n PROVE Comparable(WithCopy(p, n))
  <2>1. DOMAIN WithCopy(p, n) = DOMAIN p
    BY DEF WithCopy
  <2>2. ASSUME NEW i \in DOMAIN p PROVE WithCopy(p, n)[i].stem = p[i].stem
    <3>1. WithCopy(p, n)[i] \in {p[i], [p[i] EXCEPT !.copies = Append(@, n)]}
      BY DEF WithCopy
    <3>2. p[i] = [stem |-> p[i].stem, marks |-> p[i].marks, copies |-> p[i].copies]
      BY DEF IsWritable, IsName, Name
    <3>3. \A a, b, c, d : [[stem |-> a, marks |-> b, copies |-> c] EXCEPT !.copies = d].stem = a
      OBVIOUS
    <3>4. [p[i] EXCEPT !.copies = Append(p[i].copies, n)].stem = p[i].stem
      BY <3>2, <3>3
    <3>. QED BY <3>1, <3>4
  <2>. QED BY <2>1, <2>2 DEF Comparable
<1>2. Deconflict(p, claimed) = p \/ \E n : Deconflict(p, claimed) = WithCopy(p, n)
  BY DEF Deconflict
<1>. QED BY <1>1, <1>2

\* A path the host compares climbs only if it did.
LEMMA HostClimbsNot ==
  ASSUME archive \in Archives, NEW p, IsWritable(p)
  PROVE  /\ DOMAIN OnHost(p) = DOMAIN p
         /\ Comparable(p) => \A j \in DOMAIN p : ~Climbs(OnHost(p)[j])
<1>1. DOMAIN OnHost(p) = DOMAIN p
  BY DEF OnHost
<1>2. ASSUME NEW j \in DOMAIN p, p[j].stem \in DOMAIN archive.lower PROVE ~Climbs(OnHost(p)[j])
  <2>1. p[j] = [stem |-> p[j].stem, marks |-> p[j].marks, copies |-> p[j].copies] /\ ~Climbs(p[j])
    BY DEF IsWritable, IsName, Name
  <2>2. OnHost(p)[j] = [p[j] EXCEPT !.stem = archive.lower[p[j].stem]]
    BY DEF OnHost
  <2>3. \A a, b, c, d : [[stem |-> a, marks |-> b, copies |-> c] EXCEPT !.stem = d] = [stem |-> d, marks |-> b, copies |-> c]
    OBVIOUS
  <2>4. OnHost(p)[j] = [stem |-> archive.lower[p[j].stem], marks |-> p[j].marks, copies |-> p[j].copies]
    BY <2>1, <2>2, <2>3
  <2>5. archive.lower[p[j].stem] = ".." => p[j].stem = ".."
    BY <1>2, ExportAssumption
  <2>. QED BY <2>1, <2>4, <2>5 DEF Climbs
<1>. QED BY <1>1, <1>2 DEF Comparable

\* The copies of a file in a tree that may be the next one.
CopiesOf(t, i) == {p \in DOMAIN t : t[p] = <<i, TRUE>>}

\* The directories made for a file are copies of none (create_dir_all).
LEMMA ParentsAreNoCopies ==
  ASSUME NEW q, NEW i \in Files
  PROVE  CopiesOf(WithParents(q), i) = Copy(i)
<1>. DEFINE fresh == {OnHost(r) : r \in Parents(q)} \ DOMAIN tree
<1>1. WithParents(q) = [p \in DOMAIN tree \cup fresh |-> IF p \in fresh THEN Directory ELSE tree[p]]
  BY DEF WithParents
<1>. HIDE DEF fresh
<1>2. Directory # <<i, TRUE>>
  BY DEF Directory, Files
<1>3. fresh \cap DOMAIN tree = {}
  BY DEF fresh
<1>. QED BY <1>1, <1>2, <1>3 DEF CopiesOf, Copy

\* A file created where nothing was is no copy of another, nor of its own if it
\* is torn (create_new, write_all).
IsCopy(node, i) == node = <<i, TRUE>>
LEMMA NoCopyMore ==
  ASSUME NEW t, NEW p, OnHost(p) \notin DOMAIN t, NEW node, NEW i, ~IsCopy(node, i)
  PROVE  CopiesOf(With(t, p, node), i) = CopiesOf(t, i)
<1>. DEFINE w == With(t, p, node)
<1>1. DOMAIN w = DOMAIN t \cup {OnHost(p)} /\ w[OnHost(p)] = node /\ \A r \in DOMAIN t : w[r] = t[r]
  BY DEF With
<1>. HIDE DEF w
<1>2. CopiesOf(w, i) = CopiesOf(t, i)
  BY <1>1 DEF CopiesOf, IsCopy
<1>. QED BY <1>2 DEF w

\* A whole one is the one copy of its own.
LEMMA OneCopyMore ==
  ASSUME NEW t, NEW p, OnHost(p) \notin DOMAIN t, NEW node, NEW i, IsCopy(node, i), CopiesOf(t, i) = {}
  PROVE  CopiesOf(With(t, p, node), i) = {OnHost(p)}
<1>. DEFINE w == With(t, p, node)
<1>1. DOMAIN w = DOMAIN t \cup {OnHost(p)} /\ w[OnHost(p)] = node /\ \A r \in DOMAIN t : w[r] = t[r]
  BY DEF With
<1>. HIDE DEF w
<1>2. CopiesOf(w, i) = {OnHost(p)}
  BY <1>1 DEF CopiesOf, IsCopy
<1>. QED BY <1>2 DEF w

\* The loop turns: what it has done with is one file more, and nothing else claims.
LEMMA LoopTurns ==
  ASSUME Places, Going, NEW count \in Nat, NEW lost, NextFile(count, lost), archive' = archive,
         step = "name" => Recorded = Unnamed
  PROVE  /\ Files' = Files /\ at \in Files /\ at \notin Done /\ at' \in Files
         /\ step' \in {"name", "success", "unverifiable", "io"}
         /\ Done' = Done \cup {at} /\ Claimants' = Claimants
         /\ Ended' => at' = Len(archive.files) /\ step' = Exit(count, lost)
<1>1. Files' = Files /\ at \in Files /\ at \in Nat /\ Len(archive.files) \in Nat /\ Files = 1..Len(archive.files)
  BY FilesAre DEF Places, Files
<1>2. step \notin {"success", "unverifiable", "io"} /\ step \in {"name", "read", "write", "times"}
  BY DEF Going
<1>3. Done = {i \in Files : i < at}
  BY <1>2 DEF Done, Ended
<1>4. Claimants = {i \in Files : (i < at \/ i = at) /\ RecordedOf(archive.files[i]) # Unnamed}
  <2>1. CASE step = "name"
    <3>1. RecordedOf(archive.files[at]) = Unnamed
      BY <2>1 DEF Recorded, File
    <3>. QED BY <2>1, <3>1 DEF Claimants
  <2>2. CASE step # "name"
    BY <1>2, <2>2 DEF Claimants
  <2>. QED BY <2>1, <2>2
<1>5. CASE at < Len(archive.files)
  <2>1. at' = at + 1 /\ step' = "name"
    BY <1>5 DEF NextFile
  <2>2. Done' = {i \in Files : i < at + 1}
    BY <1>1, <2>1 DEF Done, Ended
  <2>3. Claimants' = {i \in Files : i < at + 1 /\ RecordedOf(archive.files[i]) # Unnamed}
    BY <1>1, <2>1 DEF Claimants, RecordedOf
  <2>4. \A i \in Files : i < at + 1 <=> i < at \/ i = at
    BY <1>1
  <2>. QED BY <1>1, <1>3, <1>4, <1>5, <2>1, <2>2, <2>3, <2>4 DEF Ended
<1>6. CASE ~(at < Len(archive.files))
  <2>1. at' = at /\ step' = Exit(count, lost) /\ at = Len(archive.files)
    BY <1>1, <1>6 DEF NextFile
  <2>2. step' \in {"success", "unverifiable", "io"}
    BY <2>1 DEF Exit
  <2>3. Done' = {i \in Files : i < at \/ i = at}
    BY <1>1, <2>1, <2>2 DEF Done, Ended
  <2>4. Claimants' = {i \in Files : (i < at \/ i = at) /\ RecordedOf(archive.files[i]) # Unnamed}
    BY <1>1, <2>1, <2>2 DEF Claimants, RecordedOf
  <2>. QED BY <1>1, <1>3, <1>4, <2>1, <2>2, <2>3, <2>4
<1>. QED BY <1>5, <1>6

\* A file skipped is nowhere.
LEMMA SkipKeeps ==
  ASSUME ExportInv, Skip, step \in {"name", "read", "write"}, step = "name" => Recorded = Unnamed,
         taken' = taken, altered' = altered, \A i \in Files : CopiesOf(tree', i) = Copy(i)
  PROVE  ExportInv'
<1>0. Places /\ PathInv /\ TakenInv /\ CopiesAreWhereTheySay /\ CopyInv
  BY DEF ExportInv
<1>1. /\ archive' = archive /\ path' = path /\ written' = written /\ written \in Nat
      /\ skipped' = skipped \cup {at} /\ NextFile(written, skipped')
  BY <1>0 DEF Skip, Places
<1>2. Going /\ step # "times"
  BY DEF Going
<1>3. /\ Files' = Files /\ at \in Files /\ at \notin Done /\ at' \in Files
      /\ step' \in {"name", "success", "unverifiable", "io"}
      /\ Done' = Done \cup {at} /\ Claimants' = Claimants
      /\ Ended' => at' = Len(archive.files) /\ step' = Exit(written, skipped')
  BY <1>0, <1>1, <1>2, LoopTurns
<1>4. Places'
  <2>1. (Going \/ Ended)' /\ at' \in Nat
    BY <1>3 DEF Going, Ended, Files
  <2>. QED BY <1>0, <1>1, <1>3, <2>1 DEF Places
<1>5. PathInv'
  BY <1>3 DEF PathInv
<1>6. TakenInv'
  BY <1>0, <1>3 DEF TakenInv, FilesHaveTheirOwnPlaces
<1>7. \A i \in Files : Copy(i)' = Copy(i)
  BY DEF CopiesOf, Copy
<1>8. CopiesAreWhereTheySay'
  BY <1>0, <1>1, <1>3, <1>7 DEF CopiesAreWhereTheySay, OnHost, RecordedOf
<1>9. CopyInv'
  <2>1. \A i \in Files : IF i \in skipped' THEN Copy(i) = {}
                         ELSE IF i \in Done' THEN OneCopy(i) ELSE Copy(i) = {}
    BY <1>0, <1>1, <1>2, <1>3 DEF CopyInv
  <2>2. Ended' => step' # "success"
    BY <1>1, <1>3 DEF Exit
  <2>3. \A i \in Files : OneCopy(i)' <=> OneCopy(i)
    BY <1>7 DEF OneCopy
  <2>. QED BY <1>0, <1>1, <1>3, <1>7, <2>1, <2>2, <2>3 DEF CopyInv
<1>. QED BY <1>4, <1>5, <1>6, <1>8, <1>9 DEF ExportInv

\* The claimed names are as many as the files that have claimed one.
LEMMA ClaimantsAreFinite ==
  ASSUME archive \in Archives
  PROVE  IsFiniteSet(Files) /\ IsFiniteSet(Claimants)
<1>1. IsFiniteSet(Files)
  BY FilesAre, FS_Interval DEF Files
<1>2. Claimants \subseteq Files
  BY DEF Claimants
<1>. QED BY <1>1, <1>2, FS_Subset

\* At the start nothing is claimed, skipped or written.
LEMMA ExportStarts == ExportInit => ExportInv
<1>. SUFFICES ASSUME ExportInit PROVE ExportInv
  OBVIOUS
<1>1. /\ archive \in Archives /\ at = 1 /\ step = "open" /\ taken = {} /\ skipped = {} /\ written = 0
      /\ tree = [p \in {} |-> Directory]
  BY DEF ExportInit
<1>2. DOMAIN tree = {}
  BY <1>1
<1>3. \A i \in Files : Copy(i) = {}
  BY <1>2 DEF Copy
<1>4. Done = {} /\ Claimants = {}
  BY <1>1 DEF Done, Claimants, Ended, Files
<1>5. Places
  BY <1>1 DEF Places, Going, Ended
<1>6. PathInv
  BY <1>1 DEF PathInv
<1>7. TakenInv
  BY <1>1, <1>4, FS_EmptySet DEF TakenInv, FilesHaveTheirOwnPlaces
<1>8. CopiesAreWhereTheySay
  BY <1>3 DEF CopiesAreWhereTheySay
<1>9. CopyInv
  BY <1>1, <1>3, <1>4 DEF CopyInv, Ended
<1>. QED BY <1>5, <1>6, <1>7, <1>8, <1>9 DEF ExportInv

\* What leaves the files, the names claimed and the tree alone keeps where the copies are.
LEMMA SameTree ==
  ASSUME archive' = archive, tree' = tree
  PROVE  /\ Files' = Files /\ \A i : Copy(i)' = Copy(i) /\ OneCopy(i)' = OneCopy(i)
         /\ altered \subseteq altered' /\ CopiesAreWhereTheySay => CopiesAreWhereTheySay'
<1>1. Files' = Files /\ \A i : Copy(i)' = Copy(i) /\ OneCopy(i)' = OneCopy(i)
  BY DEF Files, Copy, OneCopy
<1>. QED BY <1>1 DEF CopiesAreWhereTheySay, OnHost, RecordedOf

\* The command begins, or refuses to.
LEMMA OpensKeeps ==
  ASSUME ExportInv, ExportOpens \/ ExportRefused
  PROVE  ExportInv'
<1>0. Places /\ PathInv /\ TakenInv /\ CopiesAreWhereTheySay /\ CopyInv
  BY DEF ExportInv
<1>1. /\ UNCHANGED <<archive, at, path, taken, altered, skipped, written, tree, stamped, unset>>
      /\ step = "open"
      /\ (step' = "name" /\ archive.files # <<>>) \/ step' \in {"error", "usage", "no target"}
  BY DEF ExportOpens, ExportRefused
<1>2. Files' = Files /\ \A i : Copy(i)' = Copy(i) /\ OneCopy(i)' = OneCopy(i)
  BY <1>1, SameTree
<1>3. at = 1 /\ archive \in Archives /\ taken = {} /\ skipped = {} /\ written = 0 /\ tree = [p \in {} |-> Directory]
  BY <1>0, <1>1 DEF Places, Going, Ended
<1>4. Places'
  <2>1. step' = "name" => at \in Files
    BY <1>1, <1>3, FilesAre
  <2>2. step' \in {"name", "error", "usage", "no target"}
    BY <1>1
  <2>3. at' = at /\ archive' = archive /\ taken' = taken /\ skipped' = skipped /\ written' = written /\ tree' = tree
    BY <1>1
  <2>. QED BY <1>2, <1>3, <2>1, <2>2, <2>3 DEF Places, Going, Ended
<1>5. Done' = {} /\ Done = {} /\ Claimants' = {} /\ Claimants = {}
  <2>1. step' \in {"name", "error", "usage", "no target"} /\ at' = at
    BY <1>1
  <2>2. \A i \in Files : ~(i < 1)
    BY DEF Files
  <2>3. ~Ended /\ ~Ended'
    BY <1>1, <2>1 DEF Ended
  <2>4. Done = {} /\ Done' = {}
    BY <1>2, <1>3, <2>1, <2>2, <2>3 DEF Done
  <2>5. Claimants = {} /\ Claimants' = {}
    BY <1>1, <1>2, <1>3, <2>1, <2>2 DEF Claimants
  <2>. QED BY <2>4, <2>5
<1>6. PathInv'
  BY <1>1 DEF PathInv
<1>7. TakenInv'
  BY <1>0, <1>1, <1>5 DEF TakenInv, FilesHaveTheirOwnPlaces
<1>8. CopiesAreWhereTheySay'
  BY <1>0, <1>1, SameTree
<1>9. CopyInv'
  <2>1. \A i \in Files : Copy(i) = {}
    BY <1>3 DEF Copy
  <2>2. ~Ended' /\ step' # "times"
    BY <1>1 DEF Ended
  <2>. QED BY <1>1, <1>2, <1>3, <1>5, <2>1, <2>2 DEF CopyInv
<1>. QED BY <1>4, <1>6, <1>7, <1>8, <1>9 DEF ExportInv

\* A file that is not named, not read or not created is nowhere.
LEMMA SkipsKeep ==
  ASSUME ExportInv, SkipUnnamed \/ SkipUnread \/ SkipNotCreated \/ SkipTornWrite
  PROVE  ExportInv'
<1>1. /\ Skip /\ step \in {"name", "read", "write"} /\ (step = "name" => Recorded = Unnamed)
      /\ taken' = taken /\ altered' = altered
  BY DEF SkipUnnamed, SkipUnread, SkipNotCreated, SkipTornWrite
<1>2. \A i \in Files : CopiesOf(tree', i) = Copy(i)
  <2>1. CASE tree' = tree
    BY <2>1 DEF CopiesOf, Copy
  <2>2. CASE SkipNotCreated
    BY <2>2, ParentsAreNoCopies DEF SkipNotCreated
  <2>3. CASE SkipTornWrite
    <3>. DEFINE t == WithParents(path)
                node == <<at, FALSE>>
    <3>1. OnHost(path) \notin DOMAIN t /\ tree' = With(t, path, node)
      BY <2>3 DEF SkipTornWrite, Creates
    <3>2. \A i \in Files : ~IsCopy(node, i) /\ CopiesOf(t, i) = Copy(i)
      BY ParentsAreNoCopies DEF IsCopy
    <3>. HIDE DEF t, node
    <3>3. \A i \in Files : CopiesOf(With(t, path, node), i) = CopiesOf(t, i)
      BY <3>1, <3>2, NoCopyMore
    <3>. QED BY <3>1, <3>2, <3>3
  <2>. QED BY <2>1, <2>2, <2>3 DEF SkipUnnamed, SkipUnread
<1>. QED BY <1>1, <1>2, SkipKeeps

\* A step within one file leaves the ones done with alone.
LEMMA SameFile ==
  ASSUME Places, step \in {"name", "read", "write"}, step' \in {"read", "write", "times"},
         archive' = archive, at' = at, skipped' = skipped, written' = written
  PROVE  Places' /\ Files' = Files /\ at \in Files /\ at \notin Done /\ Done' = Done /\ ~Ended'
<1>1. Going /\ Going' /\ ~Ended /\ ~Ended' /\ Files' = Files /\ at \in Nat
  BY DEF Going, Ended, Files, Places
<1>2. Places'
  BY <1>1 DEF Places
<1>3. at \in Files
  BY <1>1 DEF Places
<1>4. Done = {i \in Files : i < at} /\ Done' = {i \in Files : i < at}
  BY <1>1 DEF Done
<1>. QED BY <1>1, <1>2, <1>3, <1>4

\* A file claims a name of its own.
LEMMA ClaimKeeps ==
  ASSUME ExportInv, ClaimName
  PROVE  ExportInv'
<1>0. Places /\ PathInv /\ TakenInv /\ CopiesAreWhereTheySay /\ CopyInv
  BY DEF ExportInv
<1>. DEFINE wanted == Rebased(Recorded, File.bytes)
<1>1. /\ step = "name" /\ step' = "read" /\ Recorded # Unnamed /\ path' = Deconflict(wanted, taken)
      /\ altered' = IF PathAltered(Recorded, File.bytes) \/ path' # wanted THEN altered \cup {at} ELSE altered
      /\ taken' = taken \cup {path'}
      /\ UNCHANGED <<archive, at, skipped, written, tree, stamped, unset>>
  BY DEF ClaimName
<1>2. Places' /\ Files' = Files /\ at \in Files /\ at \notin Done /\ Done' = Done /\ ~Ended'
  BY <1>0, <1>1, SameFile
<1>3. archive \in Archives /\ Copies \in Nat
  BY <1>0, ExportAssumption DEF Places
<1>4. IsPath(Recorded) /\ Comparable(Recorded) /\ File.bytes \in BOOLEAN
  BY <1>2, <1>3, FilesAre DEF Recorded, File
<1>5. IsWritable(wanted) /\ Comparable(wanted)
  BY <1>3, <1>4, RebasedIsWritable, RebasedIsComparable
<1>6. Recorded' = Recorded
  BY <1>1 DEF Recorded, File, RecordedOf
<1>. HIDE DEF wanted
<1>7. IsWritable(path') /\ Comparable(path')
  BY <1>1, <1>3, <1>5, DeconflictIsWritable, CopyIsComparable
<1>8. PathInv'
  <2>1. at \notin altered' => path' = AsRecorded(Recorded)
    BY <1>1, <1>4, UnalteredIsAsRecorded DEF wanted
  <2>2. Comparable(path)'
    BY <1>1, <1>7 DEF Comparable
  <2>3. AsRecorded(Recorded)' = AsRecorded(Recorded)
    BY <1>6 DEF AsRecorded
  <2>. QED BY <1>1, <1>6, <1>7, <2>1, <2>2, <2>3 DEF PathInv
<1>9. TakenInv'
  <2>1. Claimants' = Claimants \cup {at} /\ at \notin Claimants
    <3>1. RecordedOf(archive.files[at]) # Unnamed
      BY <1>1 DEF Recorded, File
    <3>2. Claimants = {i \in Files : i < at /\ RecordedOf(archive.files[i]) # Unnamed}
      BY <1>1 DEF Claimants
    <3>3. Claimants' = {i \in Files : (i < at \/ i = at) /\ RecordedOf(archive.files[i]) # Unnamed}
      BY <1>1, <1>2 DEF Claimants, RecordedOf
    <3>4. at \in Nat
      BY <1>0 DEF Places
    <3>. QED BY <1>2, <3>1, <3>2, <3>3, <3>4
  <2>2. IsFiniteSet(Claimants) /\ IsFiniteSet(taken)
    BY <1>0, <1>3, ClaimantsAreFinite DEF TakenInv
  <2>3. Cardinality(Claimants') = Cardinality(Claimants) + 1 /\ Cardinality(Claimants) \in Nat
    BY <2>1, <2>2, FS_AddElement, FS_CardinalityType
  <2>4. IsFiniteSet(taken')
    BY <1>1, <2>2, FS_AddElement
  <2>5. ASSUME Cardinality(Claimants') <= Copies PROVE Cardinality(taken') = Cardinality(Claimants')
    <3>1. Cardinality(Claimants) < Copies /\ Cardinality(taken) = Cardinality(Claimants)
      BY <1>0, <1>3, <2>3, <2>5 DEF TakenInv, FilesHaveTheirOwnPlaces
    <3>2. path' \notin taken
      BY <1>1, <1>3, <1>5, <2>2, <3>1, DeconflictIsFree
    <3>3. Cardinality(taken') = Cardinality(taken) + 1
      BY <1>1, <2>2, <3>2, FS_AddElement
    <3>. QED BY <2>3, <3>1, <3>3
  <2>. QED BY <2>4, <2>5 DEF TakenInv, FilesHaveTheirOwnPlaces
<1>10. /\ \A i : Copy(i)' = Copy(i) /\ OneCopy(i)' = OneCopy(i)
       /\ CopiesAreWhereTheySay'
  BY <1>0, <1>1, SameTree
<1>11. CopyInv'
  BY <1>0, <1>1, <1>2, <1>10 DEF CopyInv
<1>. QED BY <1>2, <1>8, <1>9, <1>10, <1>11 DEF ExportInv

\* A file is read, and is where it will be created.
LEMMA ReadKeeps ==
  ASSUME ExportInv, ReadContent
  PROVE  ExportInv'
<1>0. Places /\ PathInv /\ TakenInv /\ CopiesAreWhereTheySay /\ CopyInv
  BY DEF ExportInv
<1>1. /\ step = "read" /\ step' = "write"
      /\ UNCHANGED <<archive, at, path, taken, altered, skipped, written, tree, stamped, unset>>
  BY DEF ReadContent
<1>2. Places' /\ Files' = Files /\ at \in Files /\ at \notin Done /\ Done' = Done /\ ~Ended'
  BY <1>0, <1>1, SameFile
<1>3. Recorded' = Recorded /\ AsRecorded(Recorded)' = AsRecorded(Recorded) /\ Comparable(path)' = Comparable(path)
  BY <1>1 DEF Recorded, File, RecordedOf, AsRecorded, Comparable
<1>4. PathInv'
  BY <1>0, <1>1, <1>3 DEF PathInv
<1>5. Claimants' = Claimants
  BY <1>1, <1>2 DEF Claimants, RecordedOf
<1>6. TakenInv'
  BY <1>0, <1>1, <1>5 DEF TakenInv, FilesHaveTheirOwnPlaces
<1>7. /\ \A i : Copy(i)' = Copy(i) /\ OneCopy(i)' = OneCopy(i)
      /\ CopiesAreWhereTheySay'
  BY <1>0, <1>1, SameTree
<1>8. CopyInv'
  BY <1>0, <1>1, <1>2, <1>7 DEF CopyInv
<1>. QED BY <1>2, <1>4, <1>6, <1>7, <1>8 DEF ExportInv

\* A file written is at the one place where nothing was.
LEMMA WriteKeeps ==
  ASSUME ExportInv, WriteFile
  PROVE  ExportInv'
<1>0. Places /\ PathInv /\ TakenInv /\ CopiesAreWhereTheySay /\ CopyInv
  BY DEF ExportInv
<1>1. /\ step = "write" /\ step' = "times" /\ OnHost(path) \notin DOMAIN WithParents(path)
      /\ tree' = With(WithParents(path), path, <<at, TRUE>>)
      /\ UNCHANGED <<archive, at, path, taken, altered, skipped, written, stamped, unset>>
  BY DEF WriteFile, Creates
<1>2. Places' /\ Files' = Files /\ at \in Files /\ at \notin Done /\ Done' = Done /\ ~Ended'
  BY <1>0, <1>1, SameFile
<1>3. Recorded' = Recorded /\ AsRecorded(Recorded)' = AsRecorded(Recorded) /\ Comparable(path)' = Comparable(path)
  BY <1>1 DEF Recorded, File, RecordedOf, AsRecorded, Comparable
<1>4. PathInv'
  BY <1>0, <1>1, <1>3 DEF PathInv
<1>5. Claimants' = Claimants
  BY <1>1, <1>2 DEF Claimants, RecordedOf
<1>6. TakenInv'
  BY <1>0, <1>1, <1>5 DEF TakenInv, FilesHaveTheirOwnPlaces
<1>7. at \notin skipped /\ Copy(at) = {}
  BY <1>0, <1>1, <1>2 DEF CopyInv
<1>8. \A i \in Files : Copy(i)' = IF i = at THEN {OnHost(path)} ELSE Copy(i)
  <2>. DEFINE t == WithParents(path)
              node == <<at, TRUE>>
  <2>1. /\ OnHost(path) \notin DOMAIN t /\ tree' = With(t, path, node)
        /\ \A i : IsCopy(node, i) <=> i = at
    BY <1>1 DEF IsCopy
  <2>2. \A i \in Files : CopiesOf(t, i) = Copy(i)
    BY ParentsAreNoCopies
  <2>. HIDE DEF t, node
  <2>3. CopiesOf(With(t, path, node), at) = {OnHost(path)}
    BY <1>2, <1>7, <2>1, <2>2, OneCopyMore
  <2>4. \A i : i # at => CopiesOf(With(t, path, node), i) = CopiesOf(t, i)
    BY <2>1, NoCopyMore
  <2>5. \A i : Copy(i)' = CopiesOf(With(t, path, node), i)
    BY <2>1 DEF Copy, CopiesOf
  <2>. QED BY <2>2, <2>3, <2>4, <2>5
<1>9. CopiesAreWhereTheySay'
  <2>1. /\ \A p : OnHost(p)' = OnHost(p)
        /\ \A i \in Files : RecordedOf(archive.files[i])' = RecordedOf(archive.files[i])
    BY <1>1 DEF OnHost, RecordedOf
  <2>2. \A i \in Files : AsRecorded(RecordedOf(archive.files[i]))' = AsRecorded(RecordedOf(archive.files[i]))
    BY <2>1 DEF AsRecorded
  <2>3. /\ at \notin altered => OnHost(path) = OnHost(AsRecorded(RecordedOf(archive.files[at])))
        /\ \A j \in DOMAIN OnHost(path) : ~Climbs(OnHost(path)[j])
    <3>1. archive \in Archives /\ IsWritable(path) /\ Comparable(path)
      BY <1>0, <1>1 DEF Places, PathInv
    <3>2. at \notin altered => path = AsRecorded(RecordedOf(archive.files[at]))
      BY <1>0, <1>1 DEF PathInv, Recorded, File
    <3>. QED BY <3>1, <3>2, HostClimbsNot
  <2>4. ASSUME NEW i \in Files, NEW p \in Copy(i)'
        PROVE  /\ i \notin altered => p = OnHost(AsRecorded(RecordedOf(archive.files[i])))
               /\ \A j \in DOMAIN p : ~Climbs(p[j])
    <3>1. p \in Copy(i) \/ (i = at /\ p = OnHost(path))
      BY <1>8, <2>4
    <3>. QED BY <1>0, <2>3, <3>1 DEF CopiesAreWhereTheySay
  <2>5. \A i \in Files : OnHost(AsRecorded(RecordedOf(archive.files[i])))' = OnHost(AsRecorded(RecordedOf(archive.files[i])))
    BY <1>1, <2>2 DEF OnHost
  <2>. QED BY <1>1, <1>2, <2>4, <2>5 DEF CopiesAreWhereTheySay
<1>10. CopyInv'
  <2>2. \A i \in Files : IF i = at THEN OneCopy(i)' ELSE OneCopy(i)' = OneCopy(i)
    BY <1>8 DEF OneCopy
  <2>3. \A i \in Files : IF i \in skipped THEN Copy(i)' = {}
                         ELSE IF i \in Done \/ i = at THEN OneCopy(i)' ELSE Copy(i)' = {}
    BY <1>0, <1>1, <1>7, <1>8, <2>2 DEF CopyInv
  <2>. QED BY <1>0, <1>1, <1>2, <2>3 DEF CopyInv
<1>. QED BY <1>2, <1>4, <1>6, <1>9, <1>10 DEF ExportInv

\* A file written is counted, and the loop turns.
LEMMA TimesKeep ==
  ASSUME ExportInv, NEW given, NEW refused, ApplyTimes(given, refused)
  PROVE  ExportInv'
<1>0. Places /\ PathInv /\ TakenInv /\ CopiesAreWhereTheySay /\ CopyInv
  BY DEF ExportInv
<1>1. /\ step = "times" /\ written' = written + 1 /\ written \in Nat /\ NextFile(written', skipped)
      /\ UNCHANGED <<archive, path, taken, altered, skipped, tree>>
  BY <1>0 DEF ApplyTimes, Places
<1>2. written' \in Nat /\ written' # 0
  BY <1>1
<1>3. Going
  BY <1>1 DEF Going
<1>4. /\ Files' = Files /\ at \in Files /\ at \notin Done /\ at' \in Files
      /\ step' \in {"name", "success", "unverifiable", "io"}
      /\ Done' = Done \cup {at} /\ Claimants' = Claimants
      /\ Ended' => at' = Len(archive.files) /\ step' = Exit(written', skipped)
  BY <1>0, <1>1, <1>2, <1>3, LoopTurns
<1>5. Places'
  <2>1. (Going \/ Ended)' /\ at' \in Nat
    BY <1>4 DEF Going, Ended, Files
  <2>. QED BY <1>0, <1>1, <1>2, <1>4, <2>1 DEF Places
<1>6. PathInv'
  BY <1>4 DEF PathInv
<1>7. TakenInv'
  BY <1>0, <1>1, <1>4 DEF TakenInv, FilesHaveTheirOwnPlaces
<1>8. /\ \A i : Copy(i)' = Copy(i) /\ OneCopy(i)' = OneCopy(i)
      /\ CopiesAreWhereTheySay'
  BY <1>0, <1>1, SameTree
<1>9. CopyInv'
  <2>1. Ended' => ((step' = "success") = (skipped = {}))
    BY <1>2, <1>4 DEF Exit
  <2>2. \A i \in Files : IF i \in skipped THEN Copy(i) = {}
                         ELSE IF i \in Done' THEN OneCopy(i) ELSE Copy(i) = {}
    BY <1>0, <1>1, <1>4 DEF CopyInv
  <2>3. step' # "times"
    BY <1>4
  <2>. QED BY <1>0, <1>1, <1>4, <1>8, <2>1, <2>2, <2>3 DEF CopyInv
<1>. QED BY <1>5, <1>6, <1>7, <1>8, <1>9 DEF ExportInv

\* Every step keeps the export as it is said to be.
LEMMA ExportSteps == ExportInv /\ [ExportNext]_exportVars => ExportInv'
<1>1. ASSUME ExportInv, ExportNext PROVE ExportInv'
  BY <1>1, OpensKeeps, SkipsKeep, ClaimKeeps, ReadKeeps, WriteKeeps, TimesKeep DEF ExportNext
<1>2. ASSUME ExportInv, UNCHANGED exportVars PROVE ExportInv'
  <2>1. /\ archive' = archive /\ at' = at /\ step' = step /\ path' = path /\ taken' = taken
        /\ altered' = altered /\ skipped' = skipped /\ written' = written /\ tree' = tree
    BY <1>2 DEF exportVars
  <2>2. Places' = Places /\ TakenInv' = TakenInv /\ Done' = Done /\ Files' = Files /\ Ended' = Ended
    BY <2>1 DEF Places, TakenInv, FilesHaveTheirOwnPlaces, Claimants, RecordedOf, Done, Files, Ended, Going
  <2>3. /\ \A i : Copy(i)' = Copy(i) /\ OneCopy(i)' = OneCopy(i)
        /\ CopiesAreWhereTheySay => CopiesAreWhereTheySay'
    BY <2>1, SameTree
  <2>4. PathInv => PathInv'
    <3>1. Recorded' = Recorded
      BY <2>1 DEF Recorded, File, RecordedOf
    <3>2. Comparable(path) => Comparable(path)'
      BY <2>1 DEF Comparable
    <3>. QED BY <2>1, <3>1, <3>2 DEF PathInv
  <2>5. ASSUME CopyInv PROVE CopyInv'
    <3>1. skipped' \subseteq Done' /\ (Ended' => ((step' = "success") = (skipped' = {})))
      BY <2>1, <2>2, <2>5 DEF CopyInv
    <3>2. \A i \in Files' : IF i \in skipped' THEN Copy(i)' = {}
                            ELSE IF i \in Done' \/ (i = at' /\ step' = "times") THEN OneCopy(i)'
                            ELSE Copy(i)' = {}
      BY <2>1, <2>2, <2>3, <2>5 DEF CopyInv
    <3>. QED BY <3>1, <3>2 DEF CopyInv
  <2>. QED BY <1>2, <2>2, <2>3, <2>4, <2>5 DEF ExportInv
<1>. QED BY <1>1, <1>2

\* What holds along the way is what the command promises at its end.
LEMMA ExportPromises == ExportInv => ExportIsAsItSays
<1>. SUFFICES ASSUME ExportInv PROVE ExportIsAsItSays
  OBVIOUS
<1>0. Places /\ TakenInv /\ CopiesAreWhereTheySay /\ CopyInv
  BY DEF ExportInv
<1>1. ASSUME Ended PROVE Done = Files
  <2>1. at = Len(archive.files) /\ Len(archive.files) \in Nat
    BY <1>0, <1>1, FilesAre DEF Places
  <2>. QED BY <1>1, <2>1 DEF Done, Files
<1>2. \A i : OneCopy(i) => Cardinality(Copy(i)) = 1
  BY FS_Singleton DEF OneCopy
<1>3. EveryFileIsWrittenOrCounted
  BY <1>0, <1>1, <1>2 DEF EveryFileIsWrittenOrCounted, CopyInv, Ended
<1>. QED BY <1>0, <1>3 DEF TakenInv, ExportIsAsItSays

(* An export is as it says, whatever is in the container and whichever files   *)
(* cannot be read or created (run_export_logical): no two files are sent to   *)
(* one place as long as there are copies to number, a copy is at its recorded *)
(* path unless it is reported as altered and never climbs out, and each file  *)
(* is whole at one place or counted as skipped.                               *)
THEOREM ExportsAreAsTheySay == ExportSpec => []ExportIsAsItSays
<1>. QED BY ExportStarts, ExportSteps, ExportPromises, PTL DEF ExportSpec

-----------------------------------------------------------------------------
(* The names a volume lists *)

\* The library's first and last of a set of places are two of them.
LEMMA FirstAndLast ==
  ASSUME NEW n \in Nat, NEW s \in SUBSET (1..n), s # {}
  PROVE  /\ Max(s) \in s /\ \A y \in s : y <= Max(s)
         /\ Min(s) \in s /\ \A y \in s : Min(s) <= y
<1>1. s \subseteq Nat
  OBVIOUS
<1>2. \E x \in s : \A y \in s : x <= y
  BY <1>1, SmallestNumber
<1>. QED BY <1>2, LargestNumber DEF Min

\* Numbers ranked: each rank is had by one of them.
UpTo(S, i) == {j \in S : j <= i}
LEMMA Ranked ==
  ASSUME NEW n \in Nat, NEW S \in SUBSET (1..n)
  PROVE  /\ Cardinality(S) \in Nat
         /\ \A k \in 1..Cardinality(S) : \E i \in S : Cardinality(UpTo(S, i)) = k
         /\ \A i, j \in S : Cardinality(UpTo(S, i)) = Cardinality(UpTo(S, j)) => i = j
<1>0. \A j \in S : j \in Nat /\ 1 <= j /\ j <= n
  OBVIOUS
<1>1. IsFiniteSet(1..n)
  BY FS_Interval
<1>2. \A i \in Nat : IsFiniteSet(UpTo(S, i)) /\ Cardinality(UpTo(S, i)) \in Nat
  <2>. SUFFICES ASSUME NEW i \in Nat PROVE IsFiniteSet(UpTo(S, i)) /\ Cardinality(UpTo(S, i)) \in Nat
    OBVIOUS
  <2>1. UpTo(S, i) \subseteq 1..n
    BY DEF UpTo
  <2>2. IsFiniteSet(UpTo(S, i))
    BY <1>1, <2>1, FS_Subset
  <2>. QED BY <2>2, FS_CardinalityType
<1>3. UpTo(S, n) = S /\ UpTo(S, 0) = {}
  <2>1. \A j \in S : j <= n /\ ~(j <= 0)
    BY <1>0
  <2>. QED BY <2>1 DEF UpTo
<1>4. Cardinality(S) \in Nat /\ Cardinality(UpTo(S, 0)) = 0
  BY <1>2, <1>3, FS_EmptySet
<1>5. ASSUME NEW i \in Nat, i \in S, i # 0
      PROVE  i - 1 \in Nat /\ Cardinality(UpTo(S, i)) = Cardinality(UpTo(S, i - 1)) + 1
  <2>1. i - 1 \in Nat /\ UpTo(S, i) = UpTo(S, i - 1) \cup {i} /\ i \notin UpTo(S, i - 1)
    <3>1. i - 1 \in Nat
      BY <1>5
    <3>2. \A j \in S : /\ j <= i <=> j <= i - 1 \/ j = i
                      /\ ~(i <= i - 1)
      BY <1>0
    <3>. QED BY <1>5, <3>1, <3>2 DEF UpTo
  <2>. QED BY <1>2, <2>1, FS_AddElement
<1>6. ASSUME NEW k \in 1..Cardinality(S) PROVE \E i \in S : Cardinality(UpTo(S, i)) = k
  <2>. DEFINE T == {i \in Nat : Cardinality(UpTo(S, i)) >= k}
  <2>1. n \in T /\ T \subseteq Nat
    BY <1>3, <1>4
  <2>2. PICK i \in T : \A j \in T : i <= j
    <3>. HIDE DEF T
    <3>. QED BY <2>1, SmallestNumber
  <2>3. i \in Nat /\ Cardinality(UpTo(S, i)) >= k /\ i # 0
    BY <1>4
  <2>4. i - 1 \in Nat /\ i - 1 \notin T
    BY <2>1, <2>2, <2>3
  <2>5. Cardinality(UpTo(S, i - 1)) < k /\ Cardinality(UpTo(S, i - 1)) \in Nat
    BY <1>2, <2>4
  <2>6. i \in S
    <3>1. ASSUME i \notin S PROVE UpTo(S, i) = UpTo(S, i - 1)
      <4>1. \A j \in S : j <= i <=> j <= i - 1
        BY <1>0, <2>3, <3>1
      <4>. QED BY <4>1 DEF UpTo
    <3>2. UpTo(S, i) # UpTo(S, i - 1)
      BY <1>2, <2>3, <2>5
    <3>. QED BY <3>1, <3>2
  <2>7. Cardinality(UpTo(S, i)) = Cardinality(UpTo(S, i - 1)) + 1
    BY <1>5, <2>3, <2>6
  <2>8. Cardinality(UpTo(S, i)) = k
    BY <2>3, <2>5, <2>7
  <2>. QED BY <2>6, <2>8
<1>7. ASSUME NEW i \in S, NEW j \in S, i < j PROVE Cardinality(UpTo(S, i)) < Cardinality(UpTo(S, j))
  <2>1. i \in Nat /\ j \in Nat /\ j # 0
    OBVIOUS
  <2>2. j - 1 \in Nat /\ Cardinality(UpTo(S, j)) = Cardinality(UpTo(S, j - 1)) + 1
    BY <1>5, <2>1
  <2>3. UpTo(S, i) \subseteq UpTo(S, j - 1)
    <3>1. \A k \in S : k <= i => k <= j - 1
      BY <1>0, <1>7
    <3>. QED BY <3>1 DEF UpTo
  <2>4. Cardinality(UpTo(S, i)) <= Cardinality(UpTo(S, j - 1))
    BY <1>2, <2>2, <2>3, FS_Subset
  <2>. QED BY <1>2, <2>1, <2>2, <2>4
<1>8. ASSUME NEW i \in S, NEW j \in S, Cardinality(UpTo(S, i)) = Cardinality(UpTo(S, j)) PROVE i = j
  <2>1. i \in Nat /\ j \in Nat
    OBVIOUS
  <2>2. ~(i < j) /\ ~(j < i)
    BY <1>2, <1>7, <1>8, <2>1
  <2>. QED BY <2>1, <2>2
<1>. QED BY <1>4, <1>6, <1>8

-----------------------------------------------------------------------------
(* A volume's members *)

\* What the file opened is made of.
LEMMA FileIs ==
  ASSUME container \in Containers
  PROVE  /\ \A s \in {container.units, container.members, container.comment, container.ends} : IsSequence(s)
         /\ Len(container.members) \in Nat /\ DOMAIN container.members = 1..Len(container.members)
         /\ Len(container.ends) \in Nat /\ DOMAIN container.ends = 1..Len(container.ends)
<1>1. IsContainer(container)
  BY ReaderAssumption
<1>2. \A s \in {container.units, container.members, container.comment, container.ends} : IsSequence(s)
  BY <1>1 DEF IsContainer
<1>3. \A s : IsSequence(s) => Len(s) \in Nat /\ DOMAIN s = 1..Len(s)
  <2>1. \A S : \A s \in Seq(S) : Len(s) \in Nat /\ DOMAIN s = 1..Len(s)
    OBVIOUS
  <2>. QED BY <2>1 DEF IsSequence
<1>. QED BY <1>2, <1>3

\* A name resolves to a member that has it.
LEMMA ResolvesToItsOwn ==
  ASSUME container \in Containers, NEW name, \E i \in DOMAIN container.members : container.members[i].name = name
  PROVE  \E i \in DOMAIN container.members :
           container.members[i].name = name /\ ByName(name) = container.members[i]
<1>. DEFINE of == {i \in DOMAIN container.members : container.members[i].name = name}
<1>1. Len(container.members) \in Nat /\ of \in SUBSET (1..Len(container.members)) /\ of # {}
  BY FileIs
<1>2. ByName(name) \in {container.members[Min(of)], container.members[Max(of)]}
  BY DEF ByName
<1>. HIDE DEF of
<1>3. Max(of) \in of /\ Min(of) \in of
  BY <1>1, FirstAndLast
<1>. QED BY <1>2, <1>3 DEF of

\* The names listed are the members', the first of them first; one comes twice
\* only if the library lists each (file_names).
Listed == {FileNames[i] : i \in DOMAIN FileNames}
LEMMA NamesListed ==
  ASSUME container \in Containers
  PROVE  /\ Listed = {container.members[i].name : i \in DOMAIN container.members}
         /\ container.members # <<>> => FileNames[1] = container.members[1].name
         /\ (\E i \in DOMAIN FileNames : Cardinality(Positions(FileNames[i])) > 1) <=>
              container.lists = "each" /\ ~NamedOnce
<1>. DEFINE all == container.members
            N == Len(all)
            first == {i \in DOMAIN all : \A j \in 1..(i - 1) : all[j].name # all[i].name}
            nth(n) == CHOOSE i \in first : Cardinality(UpTo(first, i)) = n
<1>1. N \in Nat /\ DOMAIN all = 1..N /\ (all # <<>> => 1 \in 1..N)
  <2>1. \A S : \A s \in Seq(S) : s # <<>> => 1 \in 1..Len(s)
    OBVIOUS
  <2>. QED BY <2>1, FileIs DEF IsSequence
<1>2. FileNames = IF container.lists = "each" THEN [i \in 1..N |-> all[i].name]
                  ELSE [n \in 1..Cardinality(first) |-> all[nth(n)].name]
  BY <1>1 DEF FileNames, UpTo
<1>3. \A i \in DOMAIN FileNames : Cardinality(Positions(FileNames[i])) > 1 <=>
        \E j \in DOMAIN FileNames : j # i /\ FileNames[j] = FileNames[i]
  <2>. SUFFICES ASSUME NEW i \in DOMAIN FileNames
                PROVE  Cardinality(Positions(FileNames[i])) > 1 <=>
                         \E j \in DOMAIN FileNames : j # i /\ FileNames[j] = FileNames[i]
    OBVIOUS
  <2>1. IsFiniteSet(Positions(FileNames[i])) /\ i \in Positions(FileNames[i])
    <3>1. \E k \in Nat : DOMAIN FileNames = 1..k
      <4>1. Cardinality(first) \in Nat
        BY <1>1, Ranked
      <4>. QED BY <1>1, <1>2, <4>1
    <3>2. IsFiniteSet(DOMAIN FileNames) /\ Positions(FileNames[i]) \subseteq DOMAIN FileNames
      BY <3>1, FS_Interval DEF Positions
    <3>. QED BY <3>2, FS_Subset DEF Positions
  <2>2. CASE Positions(FileNames[i]) = {i}
    <3>1. Cardinality(Positions(FileNames[i])) = 1
      BY <2>2, FS_Singleton
    <3>. QED BY <2>2, <3>1 DEF Positions
  <2>3. CASE Positions(FileNames[i]) # {i}
    <3>1. PICK j \in Positions(FileNames[i]) : j # i
      BY <2>1, <2>3
    <3>2. {i, j} \subseteq Positions(FileNames[i])
      BY <2>1, <3>1
    <3>3. Cardinality({i, j}) = 2
      <4>1. IsFiniteSet({i}) /\ Cardinality({i}) = 1 /\ {i, j} = {i} \cup {j} /\ j \notin {i}
        BY <3>1, FS_Singleton
      <4>2. Cardinality({i} \cup {j}) = 1 + 1
        BY <4>1, FS_AddElement
      <4>. QED BY <4>1, <4>2
    <3>4. 2 <= Cardinality(Positions(FileNames[i])) /\ Cardinality(Positions(FileNames[i])) \in Nat
      BY <2>1, <3>2, <3>3, FS_Subset, FS_CardinalityType
    <3>. QED BY <3>1, <3>4 DEF Positions
  <2>. QED BY <2>2, <2>3
<1>4. CASE container.lists = "each"
  <2>1. FileNames = [i \in 1..N |-> all[i].name] /\ DOMAIN FileNames = 1..N
        /\ \A i \in 1..N : FileNames[i] = all[i].name
    BY <1>2, <1>4
  <2>2. (\E i \in DOMAIN FileNames : Cardinality(Positions(FileNames[i])) > 1) <=> ~NamedOnce
    <3>1. (\E i \in 1..N : Cardinality(Positions(FileNames[i])) > 1) <=>
            \E i, j \in 1..N : j # i /\ all[j].name = all[i].name
      <4>1. \A i \in 1..N : Cardinality(Positions(FileNames[i])) > 1 <=>
              \E j \in 1..N : j # i /\ FileNames[j] = FileNames[i]
        BY <1>3, <2>1
      <4>2. \A i, j \in 1..N : FileNames[j] = FileNames[i] <=> all[j].name = all[i].name
        BY <2>1
      <4>. QED BY <4>1, <4>2
    <3>2. NamedOnce <=> \A i, j \in 1..N : all[i].name = all[j].name => i = j
      BY <1>1 DEF NamedOnce, OnlyOneOf
    <3>. QED BY <2>1, <3>1, <3>2
  <2>. QED BY <1>1, <1>4, <2>1, <2>2 DEF Listed
<1>5. CASE container.lists # "each"
  <2>. DEFINE C == Cardinality(first)
  <2>1. FileNames = [n \in 1..C |-> all[nth(n)].name] /\ DOMAIN FileNames = 1..C
    BY <1>2, <1>5
  <2>2. C \in Nat /\ \A n \in 1..C : nth(n) \in first /\ Cardinality(UpTo(first, nth(n))) = n
    <3>1. first \in SUBSET (1..N)
      BY <1>1
    <3>. HIDE DEF first
    <3>. QED BY <1>1, <3>1, Ranked
  <2>3. first \subseteq 1..N /\ \A i, j \in first : all[i].name = all[j].name => i = j
    BY <1>1
  <2>4. \A i \in 1..N : \E j \in first : all[j].name = all[i].name
    <3>. SUFFICES ASSUME NEW i \in 1..N PROVE \E j \in first : all[j].name = all[i].name
      OBVIOUS
    <3>. DEFINE same == {j \in 1..N : all[j].name = all[i].name}
    <3>1. same \subseteq Nat /\ i \in same
      BY <1>1
    <3>2. PICK j \in same : \A k \in same : j <= k
      <4>. HIDE DEF same
      <4>. QED BY <3>1, SmallestNumber
    <3>3. \A k \in 1..(j - 1) : k \notin same /\ k \in 1..N
      BY <1>1, <3>2
    <3>. QED BY <1>1, <3>2, <3>3
  <2>5. \A i \in first : Cardinality(UpTo(first, i)) \in 1..C /\ nth(Cardinality(UpTo(first, i))) = i
    <3>. SUFFICES ASSUME NEW i \in first
                  PROVE  Cardinality(UpTo(first, i)) \in 1..C /\ nth(Cardinality(UpTo(first, i))) = i
      OBVIOUS
    <3>. HIDE DEF first
    <3>1. IsFiniteSet(first) /\ i \in UpTo(first, i) /\ UpTo(first, i) \subseteq first
      <4>1. IsFiniteSet(first)
        <5>1. N \in Int /\ first \subseteq 1..N
          BY <1>1, <2>3
        <5>2. IsFiniteSet(1..N)
          BY <5>1, FS_Interval
        <5>. QED BY <5>1, <5>2, FS_Subset
      <4>. QED BY <1>1, <2>3, <4>1 DEF UpTo
    <3>2. /\ Cardinality(UpTo(first, i)) \in Nat /\ Cardinality(UpTo(first, i)) <= C
          /\ Cardinality(UpTo(first, i)) # 0
      BY <3>1, FS_Subset, FS_EmptySet, FS_CardinalityType
    <3>3. Cardinality(UpTo(first, i)) \in 1..C
      BY <2>2, <3>2
    <3>. QED BY <1>1, <2>2, <2>3, <3>3, Ranked
  <2>. HIDE DEF first, C, nth
  <2>6. Listed = {all[i].name : i \in DOMAIN all}
    <3>1. Listed = {all[nth(n)].name : n \in 1..C}
      BY <2>1 DEF Listed
    <3>2. ASSUME NEW i \in DOMAIN all PROVE all[i].name \in Listed
      <4>1. PICK j \in first : all[j].name = all[i].name
        BY <1>1, <2>4
      <4>2. \E n \in 1..C : nth(n) = j
        BY <2>5
      <4>. QED BY <3>1, <4>1, <4>2
    <3>3. \A n \in 1..C : nth(n) \in DOMAIN all
      BY <1>1, <2>2, <2>3
    <3>. QED BY <3>1, <3>2, <3>3
  <2>7. all # <<>> => FileNames[1] = all[1].name
    <3>. SUFFICES ASSUME all # <<>> PROVE FileNames[1] = all[1].name
      OBVIOUS
    <3>1. 1 \in first
      BY <1>1 DEF first
    <3>2. UpTo(first, 1) = {1}
      <4>1. \A j \in first : j \in Nat /\ 1 <= j
        BY <1>1, <2>3
      <4>2. \A j \in first : j <= 1 <=> j = 1
        BY <4>1
      <4>. QED BY <3>1, <4>2 DEF UpTo
    <3>3. 1 \in 1..C /\ nth(1) = 1
      BY <2>5, <3>1, <3>2, FS_Singleton
    <3>. QED BY <2>1, <3>3
  <2>8. \A i, j \in DOMAIN FileNames : FileNames[i] = FileNames[j] => i = j
    <3>. SUFFICES ASSUME NEW i \in 1..C, NEW j \in 1..C, FileNames[i] = FileNames[j] PROVE i = j
      BY <2>1
    <3>1. all[nth(i)].name = all[nth(j)].name
      BY <2>1
    <3>2. nth(i) = nth(j)
      BY <2>2, <2>3, <3>1
    <3>. QED BY <2>2, <3>2
  <2>. QED BY <1>3, <1>5, <2>6, <2>7, <2>8
<1>. QED BY <1>4, <1>5

-----------------------------------------------------------------------------
(* What the directory says *)

\* The slots before that are filled with the sentinel.
Filled(entry, before) == {s \in before : entry[s] = Max32}

\* What an entry says of a member is what it is, whichever of its numbers are in
\* the zip64 field (zip64_field, central_directory_sizes).
LEMMA WidenedIsTrue ==
  ASSUME Max32 \in Nat, NEW entry, NEW member, Describes(entry, member),
         member.size \in Nat, Len(member.stored) \in Nat, member.header \in Nat
  PROVE  MemberSize(entry) =
           [method |-> member.method, uncompressed |-> member.size,
            compressed |-> Len(member.stored), header |-> member.header]
<1>. DEFINE v1 == member.size
            v2 == Len(member.stored)
            v3 == member.header
            one(v) == IF v >= Max32 THEN 1 ELSE 0
            wide == Wide(entry)
<1>1. /\ entry.method = member.method /\ wide = Overflow(v1) \o Overflow(v2) \o Overflow(v3)
      /\ entry["uncompressed"] = Narrow(v1) /\ entry["compressed"] = Narrow(v2) /\ entry["header"] = Narrow(v3)
  BY DEF Describes
<1>2. ASSUME NEW v \in Nat
      PROVE  /\ Narrow(v) = Max32 <=> v >= Max32
             /\ ~(v >= Max32) => Narrow(v) = v
             /\ Overflow(v) \in Seq(Nat) /\ Len(Overflow(v)) = one(v) /\ (v >= Max32 => Overflow(v)[1] = v)
  BY DEF Narrow, Overflow
<1>. HIDE DEF v1, v2, v3, wide
<1>3. v1 \in Nat /\ v2 \in Nat /\ v3 \in Nat
  BY DEF v1, v2, v3
<1>4. \A a, b \in Seq(Nat) : /\ a \o b \in Seq(Nat) /\ Len(a \o b) = Len(a) + Len(b)
                             /\ \A i \in 1..Len(a) : (a \o b)[i] = a[i]
                             /\ \A i \in 1..Len(b) : (a \o b)[Len(a) + i] = b[i]
  OBVIOUS
<1>5. /\ Len(wide) = one(v1) + one(v2) + one(v3)
      /\ v1 >= Max32 => wide[1] = v1
      /\ v2 >= Max32 => wide[1 + one(v1)] = v2
      /\ v3 >= Max32 => wide[1 + (one(v1) + one(v2))] = v3
  <2>. DEFINE a == Overflow(v1)
              b == Overflow(v2)
              c == Overflow(v3)
  <2>1. /\ a \in Seq(Nat) /\ b \in Seq(Nat) /\ c \in Seq(Nat)
        /\ Len(a) = one(v1) /\ Len(b) = one(v2) /\ Len(c) = one(v3)
        /\ (v1 >= Max32 => a[1] = v1) /\ (v2 >= Max32 => b[1] = v2) /\ (v3 >= Max32 => c[1] = v3)
    BY <1>2, <1>3
  <2>2. wide = (a \o b) \o c
    BY <1>1
  <2>. HIDE DEF a, b, c
  <2>3. /\ a \o b \in Seq(Nat) /\ Len(a \o b) = Len(a) + Len(b)
        /\ \A i \in 1..Len(a) : (a \o b)[i] = a[i]
        /\ \A i \in 1..Len(b) : (a \o b)[Len(a) + i] = b[i]
    BY <1>4, <2>1
  <2>. DEFINE ab == a \o b
  <2>. HIDE DEF ab
  <2>4. /\ Len(wide) = Len(ab) + Len(c)
        /\ \A i \in 1..Len(ab) : wide[i] = ab[i]
        /\ \A i \in 1..Len(c) : wide[Len(ab) + i] = c[i]
    <3>1. ab \in Seq(Nat) /\ wide = ab \o c
      BY <2>2, <2>3 DEF ab
    <3>. QED BY <1>4, <2>1, <3>1
  <2>5. Len(ab) = Len(a) + Len(b) /\ (\A i \in 1..Len(a) : ab[i] = a[i]) /\ \A i \in 1..Len(b) : ab[Len(a) + i] = b[i]
    BY <2>3 DEF ab
  <2>6. v1 >= Max32 => wide[1] = v1
    <3>. SUFFICES ASSUME v1 >= Max32 PROVE wide[1] = v1
      OBVIOUS
    <3>1. 1 \in 1..Len(a) /\ 1 \in 1..Len(ab)
      BY <2>1, <2>5
    <3>. QED BY <2>1, <2>4, <2>5, <3>1
  <2>7. v2 >= Max32 => wide[1 + one(v1)] = v2
    <3>. SUFFICES ASSUME v2 >= Max32 PROVE wide[1 + one(v1)] = v2
      OBVIOUS
    <3>1. 1 \in 1..Len(b) /\ Len(a) + 1 \in 1..Len(ab) /\ Len(a) + 1 = 1 + one(v1)
      BY <2>1, <2>5
    <3>. QED BY <2>1, <2>4, <2>5, <3>1
  <2>8. v3 >= Max32 => wide[1 + (one(v1) + one(v2))] = v3
    <3>. SUFFICES ASSUME v3 >= Max32 PROVE wide[1 + (one(v1) + one(v2))] = v3
      OBVIOUS
    <3>1. 1 \in 1..Len(c) /\ Len(ab) + 1 = 1 + (one(v1) + one(v2))
      BY <2>1, <2>5
    <3>. QED BY <2>1, <2>4, <3>1
  <2>. QED BY <2>1, <2>4, <2>5, <2>6, <2>7, <2>8
<1>6. /\ Cardinality(Filled(entry, {})) = 0
      /\ Cardinality(Filled(entry, {"uncompressed"})) = one(v1)
      /\ Cardinality(Filled(entry, {"uncompressed", "compressed"})) = one(v1) + one(v2)
  <2>1. (entry["uncompressed"] = Max32 <=> v1 >= Max32) /\ (entry["compressed"] = Max32 <=> v2 >= Max32)
    BY <1>1, <1>2, <1>3
  <2>2. Cardinality({}) = 0 /\ IsFiniteSet({}) /\ \A x : Cardinality({x}) = 1 /\ IsFiniteSet({x})
    BY FS_EmptySet, FS_Singleton
  <2>3. Cardinality({"uncompressed", "compressed"}) = 2
    <3>0. "compressed" \notin {"uncompressed"} /\ IsFiniteSet({"uncompressed"}) /\ Cardinality({"uncompressed"}) = 1
      BY <2>2
    <3>1. Cardinality({"uncompressed"} \cup {"compressed"}) = 1 + 1
      BY <3>0, FS_AddElement
    <3>2. {"uncompressed"} \cup {"compressed"} = {"uncompressed", "compressed"}
      OBVIOUS
    <3>. QED BY <3>1, <3>2
  <2>4. Filled(entry, {}) = {}
    BY DEF Filled
  <2>5. Filled(entry, {"uncompressed"}) = IF v1 >= Max32 THEN {"uncompressed"} ELSE {}
    BY <2>1 DEF Filled
  <2>6. Filled(entry, {"uncompressed", "compressed"}) =
          IF v1 >= Max32 THEN IF v2 >= Max32 THEN {"uncompressed", "compressed"} ELSE {"uncompressed"}
          ELSE IF v2 >= Max32 THEN {"compressed"} ELSE {}
    BY <2>1 DEF Filled
  <2>7. Cardinality(Filled(entry, {})) = 0
    BY <2>2, <2>4
  <2>8. Cardinality(Filled(entry, {"uncompressed"})) = one(v1)
    BY <2>2, <2>5
  <2>9. Cardinality(Filled(entry, {"uncompressed", "compressed"})) = one(v1) + one(v2)
    <3>. DEFINE both == Filled(entry, {"uncompressed", "compressed"})
    <3>1. ASSUME v1 >= Max32, v2 >= Max32 PROVE Cardinality(both) = 2
      <4>1. both = {"uncompressed", "compressed"}
        BY <2>6, <3>1
      <4>. QED BY <2>3, <4>1, Zenon
    <3>2. ASSUME v1 >= Max32, ~(v2 >= Max32) PROVE Cardinality(both) = 1
      <4>1. both = {"uncompressed"}
        BY <2>6, <3>2
      <4>. QED BY <2>2, <4>1, Zenon
    <3>3. ASSUME ~(v1 >= Max32), v2 >= Max32 PROVE Cardinality(both) = 1
      <4>1. both = {"compressed"}
        BY <2>6, <3>3
      <4>. QED BY <2>2, <4>1, Zenon
    <3>4. ASSUME ~(v1 >= Max32), ~(v2 >= Max32) PROVE Cardinality(both) = 0
      <4>1. both = {}
        BY <2>6, <3>4
      <4>. QED BY <2>2, <4>1, Zenon
    <3>. HIDE DEF both
    <3>5. Cardinality(both) = one(v1) + one(v2)
      BY <3>1, <3>2, <3>3, <3>4
    <3>. QED BY <3>5 DEF both
  <2>. QED BY <2>7, <2>8, <2>9
<1>7. ASSUME NEW slot, NEW before, NEW n \in Nat, NEW v \in Nat, entry[slot] = Narrow(v),
             Cardinality(Filled(entry, before)) = n,
             v >= Max32 => wide[1 + n] = v /\ 1 + n <= Len(wide)
      PROVE  Widened(entry, slot, before) = v
  <2>1. Widened(entry, slot, before) =
          IF entry[slot] = Max32 /\ 1 + n <= Len(wide) THEN wide[1 + n] ELSE entry[slot]
    BY <1>7 DEF Widened, wide, Filled
  <2>. QED BY <1>2, <1>7, <2>1
<1>8. \A v \in Nat : one(v) \in Nat /\ (v >= Max32 => one(v) = 1)
  OBVIOUS
<1>9. Widened(entry, "uncompressed", {}) = v1
  BY <1>1, <1>3, <1>5, <1>6, <1>7, <1>8
<1>10. Widened(entry, "compressed", {"uncompressed"}) = v2
  <2>1. v2 >= Max32 => 1 + one(v1) <= Len(wide)
    BY <1>3, <1>5, <1>8
  <2>. DEFINE n == one(v1)
  <2>2. /\ n \in Nat /\ Cardinality(Filled(entry, {"uncompressed"})) = n
        /\ v2 >= Max32 => wide[1 + n] = v2 /\ 1 + n <= Len(wide)
    BY <1>3, <1>5, <1>6, <1>8, <2>1
  <2>. HIDE DEF n, one
  <2>3. entry["compressed"] = Narrow(v2) /\ v2 \in Nat
    BY <1>1, <1>3
  <2>. QED BY <1>7, <2>2, <2>3
<1>11. Widened(entry, "header", {"uncompressed", "compressed"}) = v3
  <2>1. /\ v3 >= Max32 => 1 + (one(v1) + one(v2)) <= Len(wide)
        /\ one(v1) + one(v2) \in Nat
    BY <1>3, <1>5, <1>8
  <2>. DEFINE n == one(v1) + one(v2)
  <2>2. /\ n \in Nat /\ Cardinality(Filled(entry, {"uncompressed", "compressed"})) = n
        /\ v3 >= Max32 => wide[1 + n] = v3 /\ 1 + n <= Len(wide)
    BY <1>3, <1>5, <1>6, <2>1
  <2>. DEFINE both == {"uncompressed", "compressed"}
  <2>3. Cardinality(Filled(entry, both)) = n
    BY <2>2
  <2>. HIDE DEF n, both, one
  <2>4. Widened(entry, "header", both) = v3
    <3>1. /\ entry["header"] = Narrow(v3) /\ v3 \in Nat /\ n \in Nat
          /\ v3 >= Max32 => wide[1 + n] = v3 /\ 1 + n <= Len(wide)
      BY <1>1, <1>3, <2>2
    <3>. QED BY <1>7, <2>3, <3>1
  <2>. QED BY <2>4 DEF both
<1>. QED BY <1>1, <1>9, <1>10, <1>11 DEF MemberSize, v1, v2, v3

\* The directory the end record leads to, if there is one, is of one of them.
LEMMA EndRecordIs ==
  ASSUME container \in Containers, EndRecord # Unknown
  PROVE  \E e \in DOMAIN container.ends : EndRecord = container.ends[e].directory
<1>. DEFINE kind(zip64) == {i \in DOMAIN container.ends : container.ends[i].zip64 = zip64}
<1>1. Len(container.ends) \in Nat /\ \A b : kind(b) \in SUBSET (1..Len(container.ends))
  BY FileIs
<1>2. EndRecord = IF kind(TRUE) # {} THEN container.ends[Max(kind(TRUE))].directory
                  ELSE IF kind(FALSE) # {} THEN container.ends[Max(kind(FALSE))].directory ELSE Unknown
  BY DEF EndRecord
<1>3. \A b : kind(b) \subseteq DOMAIN container.ends
  OBVIOUS
<1>. HIDE DEF kind
<1>4. \A b : kind(b) # {} => Max(kind(b)) \in DOMAIN container.ends
  BY <1>1, <1>3, FirstAndLast
<1>. QED BY <1>2, <1>4

\* The member a name resolves to, when each has a name of its own.
LEMMA ResolvesToTheOne ==
  ASSUME container \in Containers, NamedOnce, NEW i \in DOMAIN container.members
  PROVE  ByName(container.members[i].name) = container.members[i]
<1>1. PICK j \in DOMAIN container.members :
        /\ container.members[j].name = container.members[i].name
        /\ ByName(container.members[i].name) = container.members[j]
  BY ResolvesToItsOwn
<1>2. j = i
  BY <1>1 DEF NamedOnce, OnlyOneOf
<1>. QED BY <1>1, <1>2

\* What the volume's own scan has of a name is what an entry of that name says.
LEMMA ScanTakesEntries ==
  ASSUME container \in Containers, NEW name \in DOMAIN CentralDirectorySizes
  PROVE  \E e \in DOMAIN container.ends : container.ends[e].directory # Unknown /\
           \E k \in DOMAIN container.ends[e].directory :
             /\ container.ends[e].directory[k].utf8 = name
             /\ CentralDirectorySizes[name] = MemberSize(container.ends[e].directory[k])
<1>. DEFINE directory == EndRecord
            unsigned == {k \in DOMAIN directory : directory[k].form = "unsigned"}
            read == IF unsigned = {} THEN DOMAIN directory ELSE 1..(Min(unsigned) - 1)
            of == {k \in read : directory[k].utf8 = name}
<1>1. directory # Unknown /\ ~\E k \in read : directory[k].form = "cut short"
  <2>1. CentralDirectorySizes # [n \in {} |-> Unknown]
    OBVIOUS
  <2>. QED BY <2>1 DEF CentralDirectorySizes
<1>2. CentralDirectorySizes =
        [n \in {directory[k].utf8 : k \in read} |-> MemberSize(directory[Max({k \in read : directory[k].utf8 = n})])]
  BY <1>1 DEF CentralDirectorySizes
<1>3. name \in {directory[k].utf8 : k \in read} /\ CentralDirectorySizes[name] = MemberSize(directory[Max(of)])
  <2>. HIDE DEF read, directory
  <2>. QED BY <1>2
<1>4. PICK e \in DOMAIN container.ends : directory = container.ends[e].directory
  BY <1>1, EndRecordIs
<1>5. Len(directory) \in Nat /\ DOMAIN directory = 1..Len(directory)
  <2>1. IsSequence(directory)
    BY <1>1, <1>4, ReaderAssumption DEF IsContainer
  <2>2. \A S : \A s \in Seq(S) : Len(s) \in Nat /\ DOMAIN s = 1..Len(s)
    OBVIOUS
  <2>. HIDE DEF directory
  <2>. QED BY <2>1, <2>2 DEF IsSequence
<1>. HIDE DEF directory
<1>6. read \subseteq 1..Len(directory)
  <2>1. CASE unsigned = {}
    BY <1>5, <2>1
  <2>2. CASE unsigned # {}
    <3>1. unsigned \in SUBSET (1..Len(directory))
      BY <1>5
    <3>. HIDE DEF unsigned
    <3>2. Min(unsigned) \in 1..Len(directory)
      BY <1>5, <2>2, <3>1, FirstAndLast
    <3>. QED BY <1>5, <2>2, <3>2
  <2>. QED BY <2>1, <2>2
<1>. HIDE DEF read
<1>7. Max(of) \in of
  <2>1. of \in SUBSET (1..Len(directory)) /\ of # {}
    BY <1>3, <1>6
  <2>. HIDE DEF of
  <2>. QED BY <1>5, <2>1, FirstAndLast
<1>8. Max(of) \in DOMAIN directory /\ directory[Max(of)].utf8 = name
  BY <1>5, <1>6, <1>7
<1>. HIDE DEF of
<1>. QED BY <1>1, <1>3, <1>4, <1>8

\* What the volume's own scan takes a member for is what it is.
LEMMA ScanIsTrue ==
  ASSUME container \in Containers, container.sound, NamedOnce,
         NEW i \in DOMAIN container.members, container.members[i].name \in DOMAIN CentralDirectorySizes
  PROVE  CentralDirectorySizes[container.members[i].name] =
           [method |-> container.members[i].method, uncompressed |-> container.members[i].size,
            compressed |-> Len(container.members[i].stored), header |-> container.members[i].header]
<1>. DEFINE member == container.members[i]
<1>1. PICK e \in DOMAIN container.ends : container.ends[e].directory # Unknown /\
             \E k \in DOMAIN container.ends[e].directory :
               /\ container.ends[e].directory[k].utf8 = member.name
               /\ CentralDirectorySizes[member.name] = MemberSize(container.ends[e].directory[k])
  BY ScanTakesEntries
<1>2. /\ member.size \in Nat /\ member.header \in Nat /\ IsSequence(member.stored)
      /\ \A d \in DOMAIN container.ends : container.ends[d].directory # Unknown =>
           \A k \in DOMAIN container.ends[d].directory :
             container.ends[d].directory[k].utf8 = member.name => Describes(container.ends[d].directory[k], member)
  BY ReaderAssumption DEF IsContainer, NamedOnce
<1>3. Len(member.stored) \in Nat
  <2>1. \A S : \A s \in Seq(S) : Len(s) \in Nat
    OBVIOUS
  <2>. QED BY <1>2, <2>1 DEF IsSequence
<1>4. Max32 \in Nat
  BY ReaderAssumption
<1>. HIDE DEF member
<1>. QED BY <1>1, <1>2, <1>3, <1>4, WidenedIsTrue DEF member

-----------------------------------------------------------------------------
(* What a volume is opened under *)

\* The largest of a set of numbers is known by being it.
LEMMA TheLargest ==
  ASSUME NEW S, S \subseteq Int, NEW x \in S, \A y \in S : y <= x
  PROVE  Max(S) = x
<1>1. \E m \in S : \A y \in S : m >= y
  BY x \in Int
<1>2. Max(S) \in S /\ \A y \in S : Max(S) >= y
  BY <1>1 DEF Max
<1>3. Max(S) \in Int /\ x \in Int /\ Max(S) >= x /\ Max(S) <= x
  BY <1>2
<1>. QED BY <1>3

\* A name that is padded as it may be is what it is without its padding, and the
\* padding can be told by the lengths (trim_arn, comment_arn).
LEMMA PaddingIsTrimmed ==
  ASSUME NEW text, IsSequence(text), PlainlyPadded(text)
  PROVE  /\ TrimArn(text) = Bare(text) /\ Bare(text) \in Seq(Arns)
         /\ Len(TrimArn(text)) < LastOther(text, Space) <=> Nul \in {text[i] : i \in DOMAIN text}
<1>. DEFINE N == Len(text)
<1>1. N \in Nat /\ DOMAIN text = 1..N
  <2>1. \A S : \A s \in Seq(S) : Len(s) \in Nat /\ DOMAIN s = 1..Len(s)
    OBVIOUS
  <2>. QED BY <2>1 DEF IsSequence
<1>2. PICK n \in 0..N : \A i \in DOMAIN text : IF i <= n THEN text[i] \in Arns ELSE text[i] = Nul
  BY DEF PlainlyPadded
<1>3. Nul \notin Arns /\ Space \notin Arns /\ Nul # Space
  BY ReaderAssumption
<1>. HIDE DEF N
<1>4. n \in Nat /\ n <= N /\ \A i \in 1..n : i \in 1..N /\ text[i] \in Arns
  BY <1>1, <1>2
<1>5. \A i \in 1..N : text[i] # Space /\ (text[i] # Nul <=> i \in 1..n)
  BY <1>1, <1>2, <1>3
<1>6. LastOther(text, Nul) = n
  <2>. DEFINE S == {0} \cup {i \in DOMAIN text : text[i] # Nul}
  <2>1. S = 0..n
    BY <1>1, <1>4, <1>5
  <2>2. S \subseteq Int /\ n \in S /\ \A y \in S : y <= n
    BY <1>4, <2>1
  <2>3. LastOther(text, Nul) = Max(S)
    BY DEF LastOther
  <2>. HIDE DEF S
  <2>. QED BY <2>2, <2>3, TheLargest
<1>7. LastOther(text, Space) = N
  <2>. DEFINE S == {0} \cup {i \in DOMAIN text : text[i] # Space}
  <2>1. S = 0..N
    BY <1>1, <1>5
  <2>2. S \subseteq Int /\ N \in S /\ \A y \in S : y <= N
    BY <1>1, <2>1
  <2>3. LastOther(text, Space) = Max(S)
    BY DEF LastOther
  <2>. HIDE DEF S
  <2>. QED BY <2>2, <2>3, TheLargest
<1>. DEFINE bare == SubSeq(text, 1, n)
            kept == {i \in DOMAIN bare : bare[i] # Space}
<1>8. bare \in Seq(Arns) /\ Len(bare) = n /\ \A i \in 1..n : bare[i] = text[i]
  BY <1>4, SubSeqProperties
<1>9. TrimArn(text) = IF kept = {} THEN <<>> ELSE SubSeq(bare, Min(kept), Max(kept))
  BY <1>6 DEF TrimArn
<1>. HIDE DEF bare
<1>10. DOMAIN bare = 1..n /\ kept = 1..n
  BY <1>4, <1>5, <1>8
<1>11. Bare(text) = bare
  <2>1. {j \in DOMAIN text : text[j] # Nul} = 1..n
    BY <1>1, <1>4, <1>5
  <2>2. Bare(text) = [i \in 1..n |-> text[i]]
    BY <2>1 DEF Bare
  <2>3. bare = [i \in 1..n |-> bare[i]]
    BY <1>8, <1>10
  <2>. QED BY <1>8, <2>2, <2>3
<1>12. TrimArn(text) = bare
  <2>1. CASE n = 0
    <3>1. kept = {} /\ bare = <<>>
      BY <1>8, <1>10, <2>1
    <3>. QED BY <1>9, <3>1
  <2>2. CASE n # 0
    <3>1. kept # {} /\ kept \in SUBSET (1..n) /\ 1 \in kept /\ n \in kept
      BY <1>4, <1>10, <2>2
    <3>. HIDE DEF kept
    <3>2. Min(kept) \in 1..n /\ Min(kept) <= 1 /\ Max(kept) \in 1..n /\ n <= Max(kept)
      BY <1>4, <1>10, <3>1, FirstAndLast
    <3>3. Min(kept) = 1 /\ Max(kept) = n
      BY <1>4, <3>2
    <3>. QED BY <1>8, <1>9, <3>1, <3>3, SubSeqFull
  <2>. QED BY <2>1, <2>2
<1>13. n < N <=> Nul \in {text[i] : i \in DOMAIN text}
  <2>1. ASSUME n < N PROVE \E i \in 1..N : text[i] = Nul
    <3>1. n + 1 \in 1..N /\ n + 1 \notin 1..n
      BY <1>1, <1>4, <2>1
    <3>. QED BY <1>5, <3>1
  <2>2. ASSUME NEW i \in 1..N, text[i] = Nul PROVE n < N
    <3>1. i \notin 1..n
      BY <1>5, <2>2
    <3>. QED BY <1>1, <1>4, <3>1
  <2>. QED BY <1>1, <2>1, <2>2
<1>. QED BY <1>7, <1>8, <1>11, <1>12, <1>13

\* What the description reads as, if there is one: the data of the one resolved.
LEMMA DescriptionIs ==
  ASSUME container \in Containers, NEW read \in DescriptionRead, read.ok
  PROVE  /\ Descriptions # {} <=> Description \in Listed
         /\ Descriptions # {} => /\ read.data = ByName(Description).data
                                 /\ \E i \in Descriptions : ByName(Description) = container.members[i]
<1>1. Descriptions # {} <=> Description \in Listed
  BY NamesListed DEF Descriptions
<1>2. ASSUME Descriptions # {}
      PROVE  /\ read.data = ByName(Description).data
             /\ \E i \in Descriptions : ByName(Description) = container.members[i]
  <2>1. \E i \in DOMAIN container.members : container.members[i].name = Description
    BY <1>2 DEF Descriptions
  <2>2. \E i \in Descriptions : ByName(Description) = container.members[i]
    BY <2>1, ResolvesToItsOwn DEF Descriptions
  <2>3. read \in ReadMember(Description)
    BY <1>1, <1>2 DEF DescriptionRead, Listed
  <2>4. \A how : ~Failed(how).ok
    BY DEF Failed
  <2>5. read.data = Inflated(ByName(Description)) /\ Inflated(ByName(Description)) # Unknown
    BY <2>3, <2>4 DEF ReadMember
  <2>6. read.data = ByName(Description).data
    BY <2>5 DEF Inflated
  <2>. QED BY <2>2, <2>6
<1>. QED BY <1>1, <1>2

\* A volume opened is what the file says, and one that is not has no offsets.
Opened ==
  zipVolume # Shut =>
    /\ container.members # <<>>
    /\ \E read \in DescriptionRead :
         /\ read.ok /\ ResolveVolumeArn(read).arn # Unknown
         /\ zipVolume.arn = ResolveVolumeArn(read).arn /\ zipVolume.source = ResolveVolumeArn(read).source
         /\ noted = DuplicateNotes \cup ResolveVolumeArn(read).notes
    /\ zipVolume.names = FileNames
    /\ zipVolume.sizes \in {CentralDirectorySizes, [name \in {} |-> Unknown]}

\* What is doubtful is noted on opening, and said for as long as the volume is
\* open (resolve_volume_arn, ZipVolume::open).
LEMMA DoubtsStayNoted ==
  ASSUME container \in Containers, Opened
  PROVE  DoubtsAreNoted
<1>. SUFFICES ASSUME zipVolume # Shut, PlainlyPadded(container.comment),
                     \A i \in Descriptions : PlainlyPadded(TextOf(container.members[i].data))
              PROVE  /\ noted = Doubtful
                     /\ zipVolume.source.from = "both" =>
                          (zipVolume.source.consistent <=> Deviation("InconsistentVolumeArn", Unknown) \notin noted)
                     /\ zipVolume.arn \in {Bare(container.comment)}
                          \cup {Bare(TextOf(container.members[i].data)) : i \in Descriptions}
  BY DEF DoubtsAreNoted
<1>1. PICK read \in DescriptionRead :
        /\ read.ok /\ ResolveVolumeArn(read).arn # Unknown
        /\ zipVolume.arn = ResolveVolumeArn(read).arn /\ zipVolume.source = ResolveVolumeArn(read).source
        /\ noted = DuplicateNotes \cup ResolveVolumeArn(read).notes
  BY DEF Opened
<1>. DEFINE c == Bare(container.comment)
            d == Bare(TextOf(ByName(Description).data))
            described == Descriptions # {}
            comment == CommentArn
            description == DescriptionArn(read)
            twice == Deviation("InconsistentVolumeArn", Unknown)
            placed == Deviation("InconsistentVolumeArn", Description)
<1>2. /\ Descriptions # {} <=> Description \in Listed
      /\ described => /\ read.data = ByName(Description).data
                      /\ \E i \in Descriptions : ByName(Description) = container.members[i]
  BY <1>1, DescriptionIs
<1>3. TrimArn(container.comment) = c /\ c \in Seq(Arns)
      /\ (Len(TrimArn(container.comment)) < LastOther(container.comment, Space)
            <=> Nul \in {container.comment[i] : i \in DOMAIN container.comment})
  BY FileIs, PaddingIsTrimmed
<1>4. described => TrimArn(TextOf(read.data)) = d /\ d \in Seq(Arns)
  <2>. SUFFICES ASSUME described PROVE TrimArn(TextOf(read.data)) = d /\ d \in Seq(Arns)
    OBVIOUS
  <2>1. PICK i \in Descriptions : ByName(Description) = container.members[i]
    BY <1>2
  <2>2. IsSequence(container.members[i].data)
    BY <2>1, ReaderAssumption DEF IsContainer, Descriptions
  <2>3. IsSequence(TextOf(container.members[i].data))
    <3>. DEFINE s == container.members[i].data
                t == TextOf(s)
                T == {t[k] : k \in DOMAIN t}
    <3>1. Len(s) \in Nat /\ DOMAIN s = 1..Len(s)
      <4>1. \A S : \A q \in Seq(S) : Len(q) \in Nat /\ DOMAIN q = 1..Len(q)
        OBVIOUS
      <4>. QED BY <2>2, <4>1 DEF IsSequence
    <3>2. t = [k \in 1..Len(s) |-> s[k].char]
      BY <3>1 DEF TextOf
    <3>3. DOMAIN t = 1..Len(s) /\ t = [k \in 1..Len(s) |-> t[k]]
      BY <3>2
    <3>4. \A k \in 1..Len(s) : t[k] \in T
      BY <3>3
    <3>. HIDE DEF s, t, T
    <3>5. t \in Seq(T)
      BY <3>1, <3>3, <3>4
    <3>. QED BY <3>5 DEF IsSequence, s, t, T
  <2>4. PlainlyPadded(TextOf(container.members[i].data))
    OBVIOUS
  <2>. QED BY <1>2, <2>1, <2>3, <2>4, PaddingIsTrimmed
<1>5. c # Unknown /\ (described => d # Unknown)
  BY <1>3, <1>4, ReaderAssumption
<1>6. comment = IF c = <<>> THEN Unknown ELSE c
  BY <1>3 DEF CommentArn
<1>7. description = IF ~described \/ d = <<>> THEN Unknown ELSE d
  BY <1>2, <1>4 DEF DescriptionArn, Listed
<1>8. twice # placed /\ \A k : k # "InconsistentVolumeArn" => twice # Deviation(k, Unknown)
  BY ReaderAssumption DEF Deviation
<1>9. ResolveVolumeArn(read) = ArnOf(comment, description)
  BY DEF ResolveVolumeArn
<1>. HIDE DEF c, d, comment, description, twice, placed
<1>10. CommentNotes = IF Nul \in {container.comment[i] : i \in DOMAIN container.comment}
                      THEN {Deviation("NulPaddedComment", Unknown)} ELSE {}
  BY <1>3 DEF CommentNotes
<1>11. DescriptionNotes = IF described /\ 1 \notin Descriptions THEN {placed} ELSE {}
  <2>1. container.members # <<>> /\ FileNames[1] = container.members[1].name
    BY NamesListed DEF Opened
  <2>2. 1 \in DOMAIN container.members
    <3>1. \A S : \A s \in Seq(S) : s # <<>> => 1 \in DOMAIN s
      OBVIOUS
    <3>. QED BY <2>1, <3>1, FileIs DEF IsSequence
  <2>3. FileNames[1] # Description <=> 1 \notin Descriptions
    BY <2>1, <2>2 DEF Descriptions
  <2>. QED BY <1>2, <2>3 DEF DescriptionNotes, Listed, placed
<1>12. DuplicateNotes = IF container.lists = "each" /\ ~NamedOnce
                        THEN {Deviation("DuplicateSegmentName", Unknown)} ELSE {}
  BY NamesListed DEF DuplicateNotes
<1>. DEFINE both == comment # Unknown /\ description # Unknown
<1>13. both <=> c # <<>> /\ described /\ d # <<>>
  BY <1>5, <1>6, <1>7
<1>14. both /\ comment # description <=> described /\ (c # <<>> /\ d # <<>> /\ c # d)
  BY <1>5, <1>6, <1>7
<1>15. /\ ResolveVolumeArn(read).arn = IF description # Unknown THEN description ELSE comment
       /\ ResolveVolumeArn(read).source =
            IF both THEN [from |-> "both", consistent |-> comment = description]
            ELSE [from |-> IF comment # Unknown THEN "comment" ELSE "description"]
       /\ ResolveVolumeArn(read).notes =
            CommentNotes \cup DescriptionNotes \cup (IF both /\ comment # description THEN {twice} ELSE {})
  BY <1>9 DEF ArnOf, twice
<1>. HIDE DEF both
<1>16. Doubtful = (IF described /\ (c # <<>> /\ d # <<>> /\ c # d) THEN {twice} ELSE {})
                  \cup CommentNotes \cup DescriptionNotes \cup DuplicateNotes
  BY <1>10, <1>11, <1>12 DEF Doubtful, c, d, twice, placed
<1>17. noted = Doubtful
  BY <1>1, <1>14, <1>15, <1>16
<1>18. zipVolume.source.from = "both" => (zipVolume.source.consistent <=> twice \notin noted)
  <2>. SUFFICES ASSUME zipVolume.source.from = "both" PROVE zipVolume.source.consistent <=> twice \notin noted
    OBVIOUS
  <2>. DEFINE same == comment = description
               told == [from |-> "both", consistent |-> same]
               one == [from |-> IF comment # Unknown THEN "comment" ELSE "description"]
  <2>3. zipVolume.source = IF both THEN told ELSE one
    BY <1>1, <1>15
  <2>4. one.from # "both"
    OBVIOUS
  <2>5. told.consistent = same
    OBVIOUS
  <2>6. both /\ zipVolume.source = told
    <3>. HIDE DEF told, one
    <3>. QED BY <2>3, <2>4
  <2>7. zipVolume.source.consistent = same
    <3>. HIDE DEF told, same
    <3>. QED BY <2>5, <2>6
  <2>1. both /\ (zipVolume.source.consistent <=> comment = description)
    <3>1. same \in BOOLEAN
      OBVIOUS
    <3>. QED BY <2>6, <2>7, <3>1, Zenon
  <2>2. twice \notin CommentNotes /\ twice \notin DescriptionNotes /\ twice \notin DuplicateNotes
    BY <1>8, <1>10, <1>11, <1>12
  <2>. QED BY <1>1, <1>15, <2>1, <2>2
<1>19. zipVolume.arn \in {c} \cup {Bare(TextOf(container.members[i].data)) : i \in Descriptions}
  <2>1. zipVolume.arn = c \/ (described /\ zipVolume.arn = d)
    BY <1>1, <1>5, <1>6, <1>7, <1>15
  <2>. QED BY <1>2, <2>1 DEF d
<1>. QED BY <1>17, <1>18, <1>19 DEF c, twice

-----------------------------------------------------------------------------
(* What a volume reads *)

\* What is said of a file that does not change does not change.
LEMMA Kept ==
  ASSUME container' = container
  PROVE  /\ FileNames' = FileNames
         /\ EndRecord' = EndRecord
         /\ CentralDirectorySizes' = CentralDirectorySizes
         /\ NamedOnce' = NamedOnce
         /\ \A name : ByName(name)' = ByName(name)
         /\ DescriptionRead' = DescriptionRead
         /\ DuplicateNotes' = DuplicateNotes
         /\ \A read : ResolveVolumeArn(read)' = ResolveVolumeArn(read)
<1>1. FileNames' = FileNames
  BY DEF FileNames
<1>2. EndRecord' = EndRecord
  BY DEF EndRecord
<1>3. CentralDirectorySizes' = CentralDirectorySizes
  BY <1>2 DEF CentralDirectorySizes
<1>4. NamedOnce' = NamedOnce
  BY DEF NamedOnce
<1>5. \A name : ByName(name)' = ByName(name)
  BY DEF ByName
<1>6. \A place, length : UnitsFrom(place, length)' = UnitsFrom(place, length)
  BY DEF UnitsFrom
<1>7. \A member : Inflated(member)' = Inflated(member)
  BY <1>6 DEF Inflated, DataBegins, UnitAt
<1>8. \A name : ReadMember(name)' = ReadMember(name)
  BY <1>5, <1>7 DEF ReadMember, DataBegins, UnitAt
<1>9. DescriptionRead' = DescriptionRead
  BY <1>1, <1>8 DEF DescriptionRead
<1>10. DuplicateNotes' = DuplicateNotes
  BY <1>1 DEF DuplicateNotes, Positions
<1>11. CommentArn' = CommentArn /\ CommentNotes' = CommentNotes /\ DescriptionNotes' = DescriptionNotes
  BY <1>1 DEF CommentArn, CommentNotes, DescriptionNotes
<1>12. \A read : ResolveVolumeArn(read)' = ResolveVolumeArn(read)
  BY <1>1, <1>11 DEF ResolveVolumeArn, ArnOf, DescriptionArn
<1>. QED BY <1>1, <1>2, <1>3, <1>4, <1>5, <1>9, <1>10, <1>12

\* A member whose header can be looked for: the scan knows the one member of that
\* name, and the header says where its data begins (member_data_offset).
LEMMA HeaderIsItsOwn ==
  ASSUME container \in Containers, container.sound, NamedOnce, Opened, zipVolume # Shut,
         NEW name \in Names, HasHeader(name)
  PROVE  LET member == ByName(name)
         IN /\ member.method = StoredForm /\ IsSequence(member.stored)
            /\ zipVolume.sizes[name].uncompressed = Len(member.stored)
            /\ member.begins \in Nat /\ DataOffset(name) \in {member.begins, Unknown}
<1>1. name \in DOMAIN CentralDirectorySizes /\ zipVolume.sizes = CentralDirectorySizes
  BY DEF HasHeader, Opened
<1>2. name # Unknown
  <2>1. PICK e \in DOMAIN container.ends : container.ends[e].directory # Unknown /\
               \E k \in DOMAIN container.ends[e].directory : container.ends[e].directory[k].utf8 = name
    BY <1>1, ScanTakesEntries
  <2>. QED BY <2>1, ReaderAssumption DEF IsContainer
<1>3. PICK i \in DOMAIN container.members : container.members[i].name = name
  BY <1>2 DEF Names
<1>. DEFINE member == container.members[i]
            sizes == [method |-> member.method, uncompressed |-> member.size,
                      compressed |-> Len(member.stored), header |-> member.header]
<1>4. ByName(name) = member
  BY <1>3, ResolvesToTheOne
<1>5. zipVolume.sizes[name] = sizes
  BY <1>1, <1>3, ScanIsTrue
<1>6. member.method = StoredForm
  BY <1>5 DEF HasHeader
<1>7. /\ IsSequence(member.stored) /\ member.begins \in Nat /\ member.header \in Nat
      /\ member.size = Len(member.stored)
      /\ LET header == container.units[member.header + 1]
         IN member.header < Len(container.units) /\ header.kind = "header" =>
              member.begins = member.header + 1 + header.name + header.extra
  BY <1>6, ReaderAssumption DEF IsContainer, NamedOnce
<1>8. DataOffset(name) \in {member.begins, Unknown}
  <2>1. zipVolume.sizes[name].header = member.header
    BY <1>5
  <2>2. [kind |-> "end"].kind # "header"
    OBVIOUS
  <2>. QED BY <1>7, <2>1, <2>2 DEF DataOffset, UnitAt
<1>9. zipVolume.sizes[name].uncompressed = Len(member.stored)
  BY <1>5, <1>7
<1>. QED BY <1>4, <1>6, <1>7, <1>8, <1>9

\* What is served from where its data begins is the member's own, at that place.
LEMMA ServesItsOwn ==
  ASSUME container \in Containers, container.sound, NamedOnce, Opened, zipVolume # Shut,
         NEW name \in Names, HasHeader(name), NEW start \in {DataOffset(name), Unknown},
         NEW place \in Nat, NEW length \in Nat, NEW got \in Serve(name, start, place, length),
         got.ok, got.data # Unknown
  PROVE  /\ ByName(name).method = StoredForm
         /\ place + length <= Len(ByName(name).stored)
         /\ got.data = Own(ByName(name), place, length)
<1>. DEFINE member == ByName(name)
<1>1. /\ member.method = StoredForm /\ zipVolume.sizes[name].uncompressed = Len(member.stored)
      /\ Len(member.stored) \in Nat /\ member.begins \in Nat /\ start \in {member.begins, Unknown}
  <2>1. \A S : \A s \in Seq(S) : Len(s) \in Nat
    OBVIOUS
  <2>. QED BY <2>1, HeaderIsItsOwn DEF IsSequence
<1>. HIDE DEF member
<1>2. ~Failed("io").ok /\ AskTheOtherWay.data = Unknown
  BY DEF Failed, AskTheOtherWay
<1>3. /\ start # Unknown /\ place + length <= Len(member.stored)
      /\ got.data = IF length = 0 THEN <<>> ELSE UnitsFrom(start + place, length)
  BY <1>1, <1>2 DEF Serve
<1>4. length = 0 => UnitsFrom(member.begins + place, length) = <<>>
  <2>. SUFFICES ASSUME length = 0 PROVE UnitsFrom(member.begins + place, 0) = <<>>
    OBVIOUS
  <2>1. \A S : \A s \in Seq(S), n \in Nat : SubSeq(s, n + 1, n + 0) = <<>>
    OBVIOUS
  <2>2. IsSequence(container.units) /\ member.begins + place \in Nat
    BY <1>1, FileIs
  <2>. QED BY <2>1, <2>2 DEF UnitsFrom, IsSequence
<1>5. got.data = UnitsFrom(member.begins + place, length)
  BY <1>1, <1>3, <1>4
<1>. QED BY <1>1, <1>3, <1>5 DEF Own, member

\* The inductive invariant: an offset remembered is where the header says, of a
\* member that has one; an open volume is what its file says; and what was
\* answered last is the member's.
OffsetsAreTheHeaders ==
  \A name \in DOMAIN offsets : offsets[name] # Unknown =>
    zipVolume # Shut /\ name \in Names /\ HasHeader(name) /\ offsets[name] = DataOffset(name)
ReadInv == container \in Containers /\ Opened /\ OffsetsAreTheHeaders /\ ReadsAreTheMembers

\* A step that opens nothing leaves the volume what it is.
LEMMA VolumeKept ==
  ASSUME UNCHANGED <<container, zipVolume, noted>>
  PROVE  /\ Opened => Opened'
         /\ Names' = Names
         /\ \A name : HasHeader(name)' = HasHeader(name) /\ DataOffset(name)' = DataOffset(name)
         /\ \A member, place, length : Own(member, place, length)' = Own(member, place, length)
<1>1. Opened => Opened'
  BY Kept DEF Opened, Shut
<1>2. Names' = Names
  BY DEF Names
<1>3. \A name : HasHeader(name)' = HasHeader(name)
  BY DEF HasHeader
<1>4. \A name : DataOffset(name)' = DataOffset(name)
  BY DEF DataOffset, UnitAt
<1>5. \A member, place, length : Own(member, place, length)' = Own(member, place, length)
  BY DEF Own, UnitsFrom
<1>. QED BY <1>1, <1>2, <1>3, <1>4, <1>5

\* What is answered to a range is the member's own if what is served is.
LEMMA AnswersItsOwn ==
  ASSUME ReadInv, UNCHANGED <<container, zipVolume, noted>>, NEW name, NEW place, NEW length, NEW got,
         Answer(name, place, length, got),
         container.sound /\ NamedOnce /\ got.ok /\ got.data # Unknown =>
           /\ ByName(name).method = StoredForm
           /\ place + length <= Len(ByName(name).stored)
           /\ got.data = Own(ByName(name), place, length)
  PROVE  ReadsAreTheMembers'
<1>1. answer' = [way |-> "range", name |-> name, at |-> place, length |-> length, got |-> got]
  BY DEF Answer
<1>2. /\ answer'.way = "range" /\ answer'.name = name /\ answer'.at = place /\ answer'.length = length
      /\ answer'.got = got
  BY <1>1
<1>3. /\ NamedOnce' = NamedOnce /\ ByName(name)' = ByName(name)
      /\ Own(ByName(name), place, length)' = Own(ByName(name), place, length)
  BY Kept, VolumeKept
<1>. QED BY <1>2, <1>3 DEF ReadsAreTheMembers, StoredForm

\* Before anything is opened nothing is known.
LEMMA ReadInitially == ZipInit => ReadInv
<1>. SUFFICES ASSUME ZipInit PROVE ReadInv
  OBVIOUS
<1>1. Opened /\ OffsetsAreTheHeaders
  BY DEF ZipInit, Opened, OffsetsAreTheHeaders
<1>2. answer.way \notin {"range", "whole"}
  BY DEF ZipInit, NoAnswer
<1>. QED BY <1>1, <1>2 DEF ZipInit, ReadInv, ReadsAreTheMembers

\* A volume opened is what its file says, and nothing was remembered before.
LEMMA OpeningKeepsReads == \A scans \in BOOLEAN : ReadInv /\ (Open(scans) \/ OpenFails) => ReadInv'
<1>. SUFFICES ASSUME NEW scans \in BOOLEAN, ReadInv, Open(scans) \/ OpenFails PROVE ReadInv'
  OBVIOUS
<1>1. zipVolume = Shut /\ UNCHANGED <<container, offsets>>
  BY DEF Open, OpenFails, Refuse
<1>2. answer'.way = "open"
  <2>1. \E got : answer' = [way |-> "open", got |-> got]
    <3>1. CASE \E how : Refuse(how)
      BY <3>1 DEF Refuse
    <3>2. CASE ~\E how : Refuse(how)
      BY <3>2 DEF Open, OpenFails
    <3>. QED BY <3>1, <3>2
  <2>. QED BY <2>1
<1>3. ReadsAreTheMembers'
  BY <1>2 DEF ReadsAreTheMembers
<1>4. OffsetsAreTheHeaders'
  BY <1>1 DEF ReadInv, OffsetsAreTheHeaders
<1>5. ASSUME NEW how, Refuse(how) PROVE Opened'
  BY <1>5, VolumeKept DEF Refuse, ReadInv
<1>6. ASSUME ~\E how : Refuse(how) PROVE Opened'
  <2>1. /\ container.members # <<>>
        /\ \E read \in DescriptionRead :
             LET resolved == ResolveVolumeArn(read)
             IN /\ read.ok /\ resolved.arn # Unknown
                /\ zipVolume' = [arn |-> resolved.arn, source |-> resolved.source,
                                 names |-> FileNames,
                                 sizes |-> IF scans THEN CentralDirectorySizes
                                           ELSE [name \in {} |-> Unknown],
                                 index |-> [name \in {FileNames[i] : i \in DOMAIN FileNames} |->
                                              Min(Positions(name))]]
                /\ noted' = DuplicateNotes \cup resolved.notes
    BY <1>6 DEF Open, OpenFails
  <2>. QED BY <1>1, <2>1, Kept DEF Opened
<1>. QED BY <1>1, <1>3, <1>4, <1>5, <1>6 DEF ReadInv

\* What is read whole is what was written, or fails.
LEMMA SegmentKeepsReads == \A name \in Names : ReadInv /\ ReadSegment(name) => ReadInv'
<1>. SUFFICES ASSUME NEW name \in Names, ReadInv, ReadSegment(name) PROVE ReadInv'
  OBVIOUS
<1>1. UNCHANGED <<container, zipVolume, noted, offsets>>
  BY DEF ReadSegment
<1>2. PICK got \in ReadMember(name) : answer' = [way |-> "whole", name |-> name, got |-> got]
  BY DEF ReadSegment
<1>3. answer'.way = "whole" /\ answer'.name = name /\ answer'.got = got
  BY <1>2
<1>4. got.ok => got.data = ByName(name).data
  <2>1. \A how : ~Failed(how).ok
    BY DEF Failed
  <2>2. got.ok => got.data = Inflated(ByName(name)) /\ Inflated(ByName(name)) # Unknown
    BY <2>1 DEF ReadMember
  <2>. QED BY <2>2 DEF Inflated
<1>5. ReadsAreTheMembers'
  BY <1>1, <1>3, <1>4, Kept DEF ReadsAreTheMembers
<1>6. OffsetsAreTheHeaders'
  BY <1>1, VolumeKept DEF ReadInv, OffsetsAreTheHeaders, Shut
<1>. QED BY <1>1, <1>5, <1>6, VolumeKept DEF ReadInv

\* What is read in part: from an offset remembered, from none, from the header
\* looked at now, or not at all.
LEMMA RangeKeepsReads ==
  ASSUME NEW name \in Names, NEW place \in Nat, NEW length \in Nat, ReadInv,
         \/ ReadRangeAgain(name, place, length) \/ ReadRangeNoHeader(name, place, length)
         \/ ReadRangeFirst(name, place, length) \/ RangeFileFails(name, place, length)
  PROVE  ReadInv'
<1>1. zipVolume # Shut /\ UNCHANGED <<container, zipVolume, noted>>
  BY DEF ReadRangeAgain, ReadRangeNoHeader, ReadRangeFirst, RangeFileFails
<1>2. ASSUME NEW start \in {DataOffset(name), Unknown}, start # Unknown => HasHeader(name),
             NEW got \in Serve(name, start, place, length), Answer(name, place, length, got)
      PROVE  ReadsAreTheMembers'
  <2>1. start = Unknown => got.data = Unknown
    BY DEF Serve, AskTheOtherWay
  <2>2. ASSUME container.sound, NamedOnce, got.ok, got.data # Unknown
        PROVE  /\ ByName(name).method = StoredForm
               /\ place + length <= Len(ByName(name).stored)
               /\ got.data = Own(ByName(name), place, length)
    BY <1>1, <1>2, <2>1, <2>2, ServesItsOwn DEF ReadInv
  <2>. QED BY <1>1, <1>2, <2>2, AnswersItsOwn
<1>3. ASSUME NEW got, ~(got.ok /\ got.data # Unknown), Answer(name, place, length, got)
      PROVE  ReadsAreTheMembers'
  BY <1>1, <1>3, AnswersItsOwn
<1>4. ASSUME NEW offset \in {DataOffset(name), Unknown}, offset # Unknown => HasHeader(name), Remember(name, offset)
      PROVE  OffsetsAreTheHeaders'
  <2>1. /\ DOMAIN offsets' = DOMAIN offsets \cup {name} /\ offsets'[name] = offset
        /\ \A n \in DOMAIN offsets : n # name => offsets'[n] = offsets[n]
    BY <1>4 DEF Remember
  <2>. QED BY <1>1, <1>4, <2>1, VolumeKept DEF ReadInv, OffsetsAreTheHeaders, Shut
<1>5. ASSUME UNCHANGED offsets PROVE OffsetsAreTheHeaders'
  BY <1>1, <1>5, VolumeKept DEF ReadInv, OffsetsAreTheHeaders, Shut
<1>6. CASE ReadRangeAgain(name, place, length)
  <2>1. PICK got \in Serve(name, offsets[name], place, length) : Answer(name, place, length, got)
    BY <1>6 DEF ReadRangeAgain
  <2>2. /\ offsets[name] \in {DataOffset(name), Unknown}
        /\ offsets[name] # Unknown => HasHeader(name)
    BY <1>6 DEF ReadRangeAgain, ReadInv, OffsetsAreTheHeaders
  <2>3. ReadsAreTheMembers'
    BY <1>2, <2>1, <2>2
  <2>. QED BY <1>1, <1>5, <1>6, <2>3, VolumeKept DEF ReadInv, ReadRangeAgain
<1>7. CASE ReadRangeNoHeader(name, place, length)
  <2>1. ReadsAreTheMembers'
    BY <1>3, <1>7 DEF ReadRangeNoHeader, AskTheOtherWay
  <2>. QED BY <1>1, <1>4, <1>7, <2>1, VolumeKept DEF ReadInv, ReadRangeNoHeader
<1>8. CASE ReadRangeFirst(name, place, length)
  <2>1. PICK offset \in {DataOffset(name), Unknown} :
          Remember(name, offset) /\ \E got \in Serve(name, offset, place, length) : Answer(name, place, length, got)
    BY <1>8 DEF ReadRangeFirst
  <2>2. HasHeader(name)
    BY <1>8 DEF ReadRangeFirst
  <2>. QED BY <1>1, <1>2, <1>4, <2>1, <2>2, VolumeKept DEF ReadInv
<1>9. CASE RangeFileFails(name, place, length)
  <2>1. ReadsAreTheMembers'
    BY <1>3, <1>9 DEF RangeFileFails, Failed
  <2>. QED BY <1>1, <1>5, <1>9, <2>1, VolumeKept DEF ReadInv, RangeFileFails
<1>. QED BY <1>6, <1>7, <1>8, <1>9

\* What the volume takes its members for, and where their data is, as long as
\* what is read is theirs.
LEMMA ReadsAreTrue == ReadInv => VolumesReadTrue
<1>. SUFFICES ASSUME ReadInv PROVE VolumesReadTrue
  OBVIOUS
<1>1. SizesAreTheMembers
  <2>. SUFFICES ASSUME zipVolume # Shut, container.sound, NamedOnce, NEW name \in DOMAIN zipVolume.sizes,
                       name \in {zipVolume.names[i] : i \in DOMAIN zipVolume.names}
                PROVE  zipVolume.sizes[name] =
                         [method |-> ByName(name).method, uncompressed |-> ByName(name).size,
                          compressed |-> Len(ByName(name).stored), header |-> ByName(name).header]
    BY DEF SizesAreTheMembers
  <2>1. zipVolume.sizes = CentralDirectorySizes /\ name \in Listed
    BY DEF ReadInv, Opened, Listed
  <2>2. PICK i \in DOMAIN container.members : container.members[i].name = name
    BY <2>1, NamesListed DEF ReadInv
  <2>. QED BY <2>1, <2>2, ScanIsTrue, ResolvesToTheOne DEF ReadInv
<1>2. RememberedOffsetsAreTrue
  BY HeaderIsItsOwn DEF ReadInv, OffsetsAreTheHeaders, RememberedOffsetsAreTrue
<1>3. DoubtsAreNoted
  BY DoubtsStayNoted DEF ReadInv
<1>. QED BY <1>1, <1>2, <1>3 DEF VolumesReadTrue, ReadInv

(* "A request that runs past the member's recorded extent is refused rather    *)
(* than allowed to read a neighbouring member's bytes", "reading compressed at *)
(* a fixed offset would pick up the wrong number", "a mismatch must never pass *)
(* silently" (zip.rs): for every container, whichever of two members of one    *)
(* name the library resolves, whatever is asked for in whatever order and      *)
(* whatever fails, the sizes, offsets and bytes of a sound container are its   *)
(* members', and what is doubtful about its name is noted.                     *)
THEOREM VolumesReadTheirMembers == ZipSpec => []VolumesReadTrue
<1>1. ASSUME ReadInv, [ZipNext]_zipVars PROVE ReadInv'
  <2>1. CASE UNCHANGED zipVars
    <3>1. UNCHANGED <<container, zipVolume, noted, offsets, answer>>
      BY <2>1 DEF zipVars
    <3>2. OffsetsAreTheHeaders'
      BY <1>1, <3>1, VolumeKept DEF ReadInv, OffsetsAreTheHeaders, Shut
    <3>3. ReadsAreTheMembers'
      BY <1>1, <3>1, Kept, VolumeKept DEF ReadInv, ReadsAreTheMembers
    <3>. QED BY <1>1, <3>1, <3>2, <3>3, VolumeKept DEF ReadInv
  <2>2. ASSUME NEW scans \in BOOLEAN, Open(scans) PROVE ReadInv'
    BY <1>1, <2>2, OpeningKeepsReads
  <2>3. CASE OpenFails
    BY <1>1, <2>3, OpeningKeepsReads
  <2>4. ASSUME NEW name \in Names, ReadSegment(name) PROVE ReadInv'
    BY <1>1, <2>4, SegmentKeepsReads
  <2>5. ASSUME NEW name \in Names, NEW asked \in Requests,
               \/ ReadRangeAgain(name, asked[1], asked[2]) \/ ReadRangeNoHeader(name, asked[1], asked[2])
               \/ ReadRangeFirst(name, asked[1], asked[2]) \/ RangeFileFails(name, asked[1], asked[2])
        PROVE  ReadInv'
    <3>1. asked[1] \in Nat /\ asked[2] \in Nat
      BY ReaderAssumption
    <3>. QED BY <1>1, <2>5, <3>1, RangeKeepsReads
  <2>. QED BY <1>1, <2>1, <2>2, <2>3, <2>4, <2>5 DEF ZipNext
<1>. QED BY <1>1, ReadInitially, ReadsAreTrue, PTL DEF ZipSpec
=============================================================================
