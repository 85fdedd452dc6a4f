----------------------------- MODULE ZipVolume -----------------------------
(***************************************************************************)
(* The file a volume is written to: WriteSink's file and tracked position  *)
(* (src/src/write/sink.rs), the members ZipWriter adds to it in call order *)
(* and the central directory that closes it (src/src/write/zip_writer.rs). *)
(* A header, and a byte of a member's body, is one unit of the file.  A    *)
(* member is [name, data, large]; a body is large when it does not fit the *)
(* sink's buffer, so that a write that fails may have reached the file in  *)
(* part.                                                                   *)
(***************************************************************************)
EXTENDS Naturals, Sequences, SequencesExt

Header(name) == <<[of |-> name, part |-> "header"]>>
Body(member) == [i \in 1..Len(member.data) |->
                   [of |-> member.name, part |-> "body", byte |-> member.data[i]]]
Units(members) ==
  FoldLeft(LAMBDA units, m : units \o Header(m.name) \o Body(m), <<>>, members)

\* A sink just created; "torn" remembers that a write failed partway.
NewVolume == [file |-> <<>>, position |-> 0, members |-> <<>>, directory |-> <<>>,
              torn |-> FALSE]

\* write_all: the position moves by what was written.
WriteAll(vol, units) ==
  [vol EXCEPT !.file = @ \o units, !.position = @ + Len(units)]

\* write_all failing after some of its units: the position does not move.
WriteBreaks(vol, units, reached) ==
  [vol EXCEPT !.file = @ \o SubSeq(units, 1, reached), !.torn = @ \/ reached > 0]

\* Mutant: a member is recorded where its body starts.
AddAllAtBody(vol, members) ==
  [WriteAll(vol, Units(members)) EXCEPT
     !.members = @ \o [i \in 1..Len(members) |->
                         [name |-> members[i].name, size |-> Len(members[i].data),
                          at |-> vol.position + 1 + Len(Units(SubSeq(members, 1, i - 1)))]]]

\* add_member, one after another: each is recorded, at the position it was
\* begun at, once its header and its body are written.
AddAll(vol, members) ==
  [WriteAll(vol, Units(members)) EXCEPT
     !.members = @ \o [i \in 1..Len(members) |->
                         [name |-> members[i].name, size |-> Len(members[i].data),
                          at |-> vol.position + Len(Units(SubSeq(members, 1, i - 1)))]]]
Add(vol, member) == AddAll(vol, <<member>>)

\* add_member failing at its header, or somewhere in its body.
AddBreaks(vol, member) ==
  LET reached == IF member.large THEN 0..(Len(member.data) - 1) ELSE {0}
  IN {vol} \cup {WriteBreaks(WriteAll(vol, Header(member.name)), Body(member), n) : n \in reached}
AddAllBreaks(vol, members) ==
  UNION {AddBreaks(AddAll(vol, SubSeq(members, 1, i - 1)), members[i]) : i \in 1..Len(members)}

\* finish: the central directory, and the record that says where it begins.
Close(vol) ==
  [WriteAll(vol, [i \in 1..Len(vol.members) |-> [of |-> vol.members[i].name, part |-> "entry"]])
   EXCEPT !.directory = <<vol.position>>]

-----------------------------------------------------------------------------
(* What a reader of the file finds *)

\* The bytes after the header at a record's offset, and whether one is there.
BodyAt(vol, record) ==
  [i \in 1..record.size |-> vol.file[record.at + 1 + i].byte]
Locates(vol, record) ==
  /\ record.at + 1 + record.size <= Len(vol.file)
  /\ \A i \in 0..record.size :
       /\ vol.file[record.at + 1 + i].of = record.name
       /\ vol.file[record.at + 1 + i].part = IF i = 0 THEN "header" ELSE "body"

\* The member a name finds; of two with one name, the first.
Named(vol, name) == SelectSeq(vol.members, LAMBDA r : r.name = name)
Holds(vol, name) == Named(vol, name) # <<>> /\ Locates(vol, Named(vol, name)[1])
Fetch(vol, name) == BodyAt(vol, Named(vol, name)[1])
=============================================================================
