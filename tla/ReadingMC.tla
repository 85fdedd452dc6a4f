----------------------------- MODULE ReadingMC ------------------------------
(***************************************************************************)
(* The readers of one stored stream and the verification of a set, one at  *)
(* a time: they share no state, and each starts from its own states while  *)
(* the others stand still.                                                 *)
(*   "whole": the serial reader meets every stream of two bevies of up to  *)
(* two chunks whose last chunk is truncated: 13 bytes of 4-byte chunks, so *)
(* a chunk may be full, short, empty, long enough for the tail, or         *)
(* undecodable.                                                            *)
(*   "regions": the ranged reader meets fewer of them, under every way of  *)
(* storing their members.                                                  *)
(*   "set": sets of two streams, s of two chunks and t of one and a half.  *)
(* Maps come from two places: layouts that put entries end to end, whole   *)
(* streams among them, in any damage the volumes may have; and every       *)
(* segment of two small entries, fit to be parsed or not, on sound ones.   *)
(***************************************************************************)
EXTENDS SerialReader, RangedReader, SetVerify

MCBevies ==
  [readable : {TRUE}, chunks : UNION {[1..n -> {1, 3, 4, Undecodable}] : n \in 0..3}]
    \cup {[readable |-> FALSE, chunks |-> <<>>], [readable |-> FALSE, chunks |-> <<4, 4>>]}
MCStreams == [BevyNumbers -> MCBevies]

\* Streams for the ranged reader: sound ones, and ones with a short chunk, a
\* broken chunk, a missing one, or one too many.
RegionBevies == {<<4, 4>>, <<4>>, <<3, 4>>, <<4, Undecodable>>, <<4, 4, 4>>}
RegionStreams ==
  {s \in MCStreams : \A b \in BevyNumbers : s[b].chunks \in RegionBevies}

MCMembers ==
  LET ways == {[addressable |-> TRUE, whole |-> TRUE, indexed |-> TRUE],
               [addressable |-> FALSE, whole |-> TRUE, indexed |-> TRUE],
               [addressable |-> TRUE, whole |-> FALSE, indexed |-> TRUE],
               [addressable |-> TRUE, whole |-> TRUE, indexed |-> FALSE]}
  IN [BevyNumbers -> ways]
MCRegions == {<<0, 13>>, <<2, 4>>, <<9, 4>>, <<12, 2>>}

Same == \A b \in BevyNumbers : stored[b].readable = (members[b].whole /\ members[b].indexed)

-----------------------------------------------------------------------------
MCSetStreams == {"s", "t"}
MCStreamSize == ("s" :> 4 @@ "t" :> 3)

Zero == Target("repeated", "zero")
Unknown == Target("unknown", "not_acquired")
Gone == Target("unrecognised", "other")
Targets == <<Stored("s"), Stored("t"), Zero, Unknown, Gone,
             Target("block", <<"t", 1>>), Target("block", <<>>)>>

\* Entries end to end: a layout is a sequence of <<length, at, target>>.
LaidOut(layout) ==
  LET offset[i \in 1..Len(layout)] == IF i = 1 THEN 0 ELSE offset[i - 1] + layout[i - 1][1]
  IN [i \in 1..Len(layout) |-> Entry(offset[i], layout[i][1], layout[i][2], layout[i][3])]

Layouts == {
  << <<4, 0, 1>>, <<3, 0, 2>> >>,                          \* the streams end to end
  << <<1, 0, 3>>, <<4, 0, 1>>, <<2, 1, 4>>, <<3, 0, 2>> >>,  \* described runs between
  << <<1, 0, 1>>, <<1, 0, 3>>, <<3, 1, 1>>, <<3, 0, 2>> >>,  \* a stream cut in two
  << <<3, 1, 1>>, <<1, 0, 1>>, <<3, 0, 2>> >>,             \* out of order
  << <<2, 0, 1>>, <<3, 0, 2>>, <<2, 2, 1>> >>,             \* striped
  << <<3, 0, 1>>, <<3, 0, 2>> >>,                          \* part of a stream
  << <<3, 0, 2>>, <<2, 3, 3>> >>,                          \* one stream only
  << <<1, 0, 4>>, <<4, 2, 4>> >>,                          \* nothing stored
  << <<4, 0, 1>>, <<2, 0, 6>> >>,                          \* a deduplicated chunk
  << <<4, 0, 1>>, <<1, 0, 7>> >>,                          \* one without a slice
  << <<4, 0, 1>>, <<1, 0, 5>> >>,                          \* an unknown target
  << <<2, 3, 1>>, <<3, 0, 2>> >> }                         \* past a stream's end

Segment(entries, targets, size, fill, gap) ==
  [entries |-> entries, targets |-> targets, size |-> size, fill |-> fill, gap |-> gap]
SizeOf(layout) == FoldLeft(LAMBDA sum, e : sum + e[1], 0, layout)

\* A layout as it stands, stored in reverse, and with an entry left out.
FromLayouts ==
  {Segment(LaidOut(l), Targets, SizeOf(l), FALSE, Zero) : l \in Layouts}
  \cup {Segment(Reverse(LaidOut(l)), Targets, SizeOf(l), FALSE, Zero) : l \in Layouts}
  \cup {Segment(RemoveAt(LaidOut(l), i), Targets, SizeOf(l), TRUE, gap) :
          l \in Layouts, i \in 1..2, gap \in {Zero, Unknown, Stored("t")}}

Entries == [offset : 0..2, length : 0..2, at : {0, 1}, target : {1, 3, 4, 8}]
Small == {Segment(<<a, b>>, Targets, size, fill, gap) :
            a \in Entries, b \in Entries, size \in {3}, fill \in BOOLEAN, gap \in {Zero, Unknown}}
         \cup {Segment(<<>>, Targets, 1, TRUE, Zero), Segment(<<Entry(0, 1, 0, 1)>>, <<>>, 1, TRUE, Zero)}

Undamaged == [described |-> "where_read", held |-> TRUE, crc |-> TRUE, broken |-> {}]
Damaged == {[Undamaged EXCEPT !.described = "nowhere"], [Undamaged EXCEPT !.described = "elsewhere"],
            [Undamaged EXCEPT !.held = FALSE], [Undamaged EXCEPT !.crc = FALSE],
            [Undamaged EXCEPT !.broken = {0}], [Undamaged EXCEPT !.broken = {1}]}
AllSound == [s \in MCSetStreams |-> Undamaged]
OneDamaged == {[AllSound EXCEPT ![s] = d] : s \in MCSetStreams, d \in Damaged}

Orders == {<<"s", "t", "image">>, <<"t", "s", "image">>, <<"s", "image", "t">>}

\* Any digests on sound volumes; every damage under every order; and the small
\* segments, for the parser and the readers, with one digest in one order.
MCFamilies == {
  [segments |-> FromLayouts, streams |-> {AllSound},
   recorded |-> {{"whole"}, {"map_segment", "block_map"}, DigestKinds},
   claimed |-> {{}, {"s"}}, objects |-> Orders],
  [segments |-> FromLayouts, streams |-> OneDamaged, recorded |-> {DigestKinds},
   claimed |-> {{"s"}}, objects |-> Orders],
  [segments |-> Small, streams |-> {AllSound}, recorded |-> {{"whole"}},
   claimed |-> {{}}, objects |-> {<<"s", "t", "image">>}]}

-----------------------------------------------------------------------------
\* What stands still while another machine runs.
OneStream == [b \in BevyNumbers |-> [readable |-> TRUE, chunks |-> <<4, 4>>]]
OneSet ==
  [segment |-> Segment(<<Entry(0, 1, 0, 3)>>, Targets, 1, FALSE, Zero), streams |-> AllSound,
   recorded |-> {}, claimed |-> {}, objects |-> <<>>]
SetAtRest ==
  /\ set = OneSet /\ health = AllSound /\ map = Parse(OneSet.segment) /\ read = Idle
  /\ queue = <<"prepare">> /\ fused = NoFused /\ pass = NoPass
  /\ checks = <<>> /\ accounts = <<>>

VARIABLE job  \* the machine that runs

Init ==
  /\ job \in {"whole", "regions", "set"}
  /\ IF job = "set" THEN stored = OneStream ELSE TRUE
  /\ SerialInit
  /\ thisStored = stored
  /\ IF job = "regions" THEN members \in Members /\ stored \in RegionStreams /\ Same
     ELSE members = CHOOSE m \in Members : TRUE
  /\ cache = Empty(This)
  /\ call = NoCall
  /\ IF job = "set" THEN VerifyInit ELSE SetAtRest

\* A run of region reads stops at its bound.
CallsMade == call.count = Calls /\ call.status # "reading"

Next ==
  /\ UNCHANGED job
  /\ \/ job = "whole" /\ SerialNext /\ UNCHANGED <<rangedVars, vars>>
     \/ /\ job = "regions" /\ (RangedNext \/ (CallsMade /\ UNCHANGED rangedVars))
        /\ UNCHANGED <<serialVars, vars>>
     \/ job = "set" /\ VerifyNext /\ UNCHANGED <<serialVars, rangedVars>>

Spec == Init /\ [][Next]_<<job, serialVars, rangedVars, vars>>
=============================================================================
