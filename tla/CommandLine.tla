----------------------------- MODULE CommandLine -----------------------------
(***************************************************************************)
(* The commands of aff4tools over one folder (src/src/main.rs, with        *)
(* write/guard.rs, write/sink.rs and hash_selection.rs): acquisitions in   *)
(* their three modes, into one file or several, and the commands that read *)
(* what they left.  Calls may overlap, and may be killed between any two   *)
(* steps.  A file is who made it and how far it got; a log is the lines a  *)
(* reader looks for.  What writing and verifying a container do inside is  *)
(* the business of ImageWriter, MultiPartWriter, LogicalAcquire and        *)
(* DigestTree: here they end well, with findings, or not.                  *)
(***************************************************************************)
EXTENDS Naturals, Sequences, FiniteSets

CONSTANTS
  Calls,        \* the processes
  CommandLines, \* what each may be given
  Originals,    \* what the folder holds to begin with: [name -> what it is]
  Names,        \* the names of the folder
  LogBeside,    \* default_log_path: [output -> name]
  PartPath,     \* part_path: [output -> the names of its parts in order]
  WithAff4l,    \* aff4l_output_path: [output -> name]
  NoName        \* Option::None

OutputOf(line) == IF line.mode = "logical" /\ line.v1 THEN WithAff4l[line.output] ELSE line.output
LogOf(line) == IF line.log = NoName THEN LogBeside[OutputOf(line)] ELSE line.log

ASSUME CommandAssumption ==
  /\ NoName \notin Calls
  /\ \A line \in CommandLines : line.does = "acquire" =>
       /\ LogOf(line) \in Names
       /\ PartPath[OutputOf(line)] \in Seq(Names) /\ PartPath[OutputOf(line)] # <<>>

Usage == 2
ListingIo == 3
Io == 3
NotAff4 == 4
Malformed == 5
Unsupported == 6
Finding == 7
Mismatch == 8
Unverifiable == 9

VARIABLES
  folder,  \* the files by name
  asked,   \* the command line of each call
  at,      \* where each call is
  guarded, \* SourceRegistry, of each call
  parts,   \* the containers a call has created, or looked at, in order
  found,   \* what it has found out: of the source, then of the container
  said,    \* the lines of its log
  code     \* its exit code so far: worst

lineVars == <<folder, asked, at, guarded, parts, found, said, code>>

NoFile == [owner |-> NoName, is |-> "absent"]
File(owner, is) == [owner |-> owner, is |-> is]
Exists(name) == folder[name].is # "absent"

CommandInit ==
  /\ folder = [n \in Names |-> IF n \in DOMAIN Originals THEN File(NoName, Originals[n]) ELSE NoFile]
  /\ asked \in [Calls -> CommandLines]
  /\ at = [c \in Calls |-> "typed"]
  /\ guarded = [c \in Calls |-> {}]
  /\ parts = [c \in Calls |-> <<>>]
  /\ found = [c \in Calls |-> {}]
  /\ said = [c \in Calls |-> <<>>]
  /\ code = [c \in Calls |-> 0]

Worse(a, b) == IF a > b THEN a ELSE b
Moves(c, to) == at' = [at EXCEPT ![c] = to]
Raises(c, to) == code' = [code EXCEPT ![c] = Worse(@, to)]
Says(c, lines) == said' = [said EXCEPT ![c] = @ \o lines]
\* The process ends, whatever it had found so far.
Ends(c, with) == Moves(c, "exited") /\ code' = [code EXCEPT ![c] = with]

Acquiring(c) == asked[c].does = "acquire"
Output(c) == OutputOf(asked[c])
LogPath(c) == LogOf(asked[c])
NextPart(c) == PartPath[Output(c)][Len(parts[c]) + 1]

-----------------------------------------------------------------------------
(* Before anything is created: run, run_acquire, run_acquire_device *)

\* hash_selection::parse: the names given, each once, or none if one is not
\* known or none is strong enough; with no name, the default.
\* Five stand for the eleven.
Strong == {"sha256", "sha512", "blake3"}
Known == {"md5", "sha1"} \cup Strong
Selected(names) ==
  LET chosen == {names[i] : i \in DOMAIN names}
  IN IF chosen \subseteq Known /\ chosen \cap Strong # {} THEN chosen ELSE {}
Selection(names) == IF names = <<>> THEN {"sha512", "blake3"} ELSE Selected(names)

\* What is refused before there is a log; zero is none.  A device that is not
\* there, or whose size cannot be found.
DeviceRefused(source) == CASE source = "absent" -> Io [] source = "unsized" -> Unsupported [] OTHER -> 0
\* A part after the first, a set with a gap, a folder of containers.
FilesRefused(source) ==
  CASE source \in {"later part", "aff4 set"} -> Usage
    [] source = "gapped" -> Malformed
    [] source = "absent" -> Io
    [] OTHER -> 0
\* looks_like_aff4: a container is read through its map, so it must hold just
\* one image; one with none is only the wrong command.
Containers == {"container", "no image", "two images"}
ContainerRefused(source) == CASE source = "no image" -> Usage [] source = "two images" -> Malformed [] OTHER -> 0

Refused(c) ==
  LET source == folder[asked[c].source].is  mode == asked[c].mode IN
  IF Selection(asked[c].hash) = {} THEN Usage
  ELSE IF mode = "logical" THEN (IF asked[c].split THEN Usage ELSE 0)
  ELSE IF mode = "device" THEN DeviceRefused(source)
  ELSE IF source \in Containers THEN ContainerRefused(source)
  ELSE FilesRefused(source)

Refuse(c) ==
  /\ at[c] = "typed" /\ Acquiring(c) /\ Refused(c) # 0
  /\ Ends(c, Refused(c))
  /\ UNCHANGED <<folder, asked, guarded, parts, found, said>>

Accept(c) ==
  /\ at[c] = "typed" /\ Acquiring(c) /\ Refused(c) = 0
  /\ guarded' = [guarded EXCEPT ![c] = IF asked[c].mode = "logical" THEN @ ELSE {asked[c].source}]
  /\ Moves(c, "log")
  /\ UNCHANGED <<folder, asked, parts, found, said, code>>

-----------------------------------------------------------------------------
(* setup_log *)

\* Mutant: the log is created over what is there.
OpenLogOver(c) ==
  /\ at[c] = "log"
  /\ folder' = [folder EXCEPT ![LogPath(c)] = File(c, "log")]
  /\ Moves(c, "opened")
  /\ UNCHANGED <<asked, guarded, parts, found, said, code>>

\* create_new: one step of the file system, whatever else runs.
OpenLog(c) ==
  /\ at[c] = "log" /\ ~Exists(LogPath(c))
  /\ folder' = [folder EXCEPT ![LogPath(c)] = File(c, "log")]
  /\ Moves(c, "opened")
  /\ UNCHANGED <<asked, guarded, parts, found, said, code>>

\* The name is taken, or the header cannot be written to the file just made.
LogFails(c) ==
  /\ at[c] = "log"
  /\ \/ Exists(LogPath(c)) /\ UNCHANGED folder
     \/ ~Exists(LogPath(c)) /\ folder' = [folder EXCEPT ![LogPath(c)] = File(c, "log")]
  /\ Ends(c, Io)
  /\ UNCHANGED <<asked, guarded, parts, found, said>>

-----------------------------------------------------------------------------
(* With the log open, before the container *)

\* run_acquire_logical looks at its roots only now; every root is a source.
RootMissing(c) == asked[c].mode = "logical" /\ ~Exists(asked[c].source)

Register(c) ==
  /\ at[c] = "opened" /\ ~RootMissing(c)
  /\ guarded' = [guarded EXCEPT ![c] = @ \cup {asked[c].source}]
  /\ Moves(c, "guard")
  /\ UNCHANGED <<folder, asked, parts, found, said, code>>

\* A missing root, an image's file that will not open again, or a source that
\* preflight finds too large for its parts.
NotBegun(c) ==
  /\ at[c] = "opened"
  /\ \/ RootMissing(c) /\ Ends(c, Io) /\ Says(c, <<"error">>)
     \/ folder[asked[c].source].is = "raw" /\ Ends(c, Io) /\ UNCHANGED said
     \/ asked[c].split /\ Ends(c, Malformed) /\ UNCHANGED said
  /\ UNCHANGED <<folder, asked, guarded, parts, found>>

-----------------------------------------------------------------------------
(* WriteSink::create and what fills it *)

\* Mutant: a file nobody finished may be replaced.
FreeOrAbandoned(c, name) == name \notin guarded[c] /\ folder[name].is \in {"absent", "open"}

\* assert_not_source, and "refusing to overwrite an existing file".
Free(c, name) == name \notin guarded[c] /\ ~Exists(name)

MayCreate(c) ==
  /\ at[c] = "guard" /\ Free(c, NextPart(c))
  /\ Moves(c, "create")
  /\ UNCHANGED <<folder, asked, guarded, parts, found, said, code>>

MayNotCreate(c) ==
  /\ at[c] = "guard" /\ ~Free(c, NextPart(c))
  /\ Ends(c, Malformed)
  /\ UNCHANGED <<folder, asked, guarded, parts, found, said>>

\* File::create truncates whatever has appeared since the look.
Create(c) ==
  /\ at[c] = "create"
  /\ folder' = [folder EXCEPT ![NextPart(c)] = File(c, "open")]
  /\ parts' = [parts EXCEPT ![c] = Append(@, NextPart(c))]
  /\ Moves(c, "fill")
  /\ UNCHANGED <<asked, guarded, found, said, code>>

\* Creating, filling or finishing it fails; what is written stays as it is.
WriteFails(c, with) ==
  /\ at[c] \in {"create", "fill", "finish"}
  /\ Ends(c, with)
  /\ UNCHANGED <<folder, asked, guarded, parts, found, said>>

\* What a source keeps back, or does while it is read.
Shortcomings(mode) ==
  CASE mode = "device" -> {"unreadable"} [] mode = "logical" -> {"skipped", "changed"} [] mode = "image" -> {}

Fill(c, short) ==
  /\ at[c] = "fill" /\ short \subseteq Shortcomings(asked[c].mode)
  /\ found' = [found EXCEPT ![c] = @ \cup short]
  /\ Moves(c, "finish")
  /\ UNCHANGED <<folder, asked, guarded, parts, said, code>>

\* The part is whole, unless another call has written to it too.  A split
\* acquisition goes on while the source does.
Finish(c) ==
  LET name == parts[c][Len(parts[c])] IN
  /\ at[c] = "finish"
  /\ folder' = [folder EXCEPT ![name].is = IF folder[name] = File(c, "open") THEN "whole" ELSE "mixed"]
  /\ \/ Moves(c, "report")
     \/ asked[c].split /\ Len(parts[c]) < Len(PartPath[Output(c)]) /\ Moves(c, "guard")
  /\ UNCHANGED <<asked, guarded, parts, found, said, code>>

-----------------------------------------------------------------------------
(* What an acquisition reports *)

Short(c) == found[c] \cap {"unreadable", "skipped", "changed"}
LineIf(line, lines) == IF line \in lines THEN <<line>> ELSE <<>>
ShortLines(c) == LineIf("unreadable", Short(c)) \o LineIf("skipped", Short(c)) \o LineIf("changed", Short(c))
ShortCode(c) == IF Short(c) = {} THEN 0 ELSE Finding

\* A split acquisition cannot ask its reader yet: run_acquire_split has it.
Report(c) ==
  /\ at[c] = "report"
  /\ IF asked[c].split
     THEN Says(c, <<"acquired">>) /\ UNCHANGED code
     ELSE Says(c, Append(ShortLines(c), "acquired")) /\ Raises(c, ShortCode(c))
  /\ Moves(c, IF asked[c].split /\ asked[c].mode = "image" THEN "close" ELSE "verify")
  /\ UNCHANGED <<folder, asked, guarded, parts, found>>

Declined(c) ==
  /\ at[c] = "verify" /\ ~asked[c].verify
  /\ Says(c, <<"scope">>) /\ Moves(c, "close")
  /\ UNCHANGED <<folder, asked, guarded, parts, found, code>>

\* What reading a container back may say: nothing against it only if it is
\* whole.  A medium may damage what was written whole.
Whole(names) == \A n \in names : folder[n].is = "whole"
PartNames(c) == {parts[c][i] : i \in 1..Len(parts[c])}
Against == {"mismatch", "unread"}
Answers(names) == {a \in SUBSET Against : Whole(names) \/ a # {}}
\* run_verify and verify_after_acquire: .max() over the numbers of the codes.
AnswerCode(answer) ==
  IF "unread" \in answer THEN Unverifiable ELSE IF "mismatch" \in answer THEN Mismatch ELSE 0

\* Mutant: the answer replaces what the source's findings had raised.
AnswerAlone(c, answer) == code' = [code EXCEPT ![c] = AnswerCode(answer)]
AnswerRaises(c, answer) == Raises(c, AnswerCode(answer))

Verified(c, answer) ==
  /\ at[c] = "verify" /\ asked[c].verify /\ answer \in Answers(PartNames(c))
  /\ found' = [found EXCEPT ![c] = @ \cup answer]
  /\ Says(c, LineIf("mismatch", answer) \o LineIf("unread", answer) \o <<"verified">>)
  /\ AnswerRaises(c, answer)
  /\ Moves(c, "close")
  /\ UNCHANGED <<folder, asked, guarded, parts>>

\* verify_after_acquire, when verify cannot open what was written.  Several
\* parts may be refused as no set (check_stripe_set, which cannot read their
\* metadata), and a part another call has written to too may be one of a set.
NotReread(c, with) ==
  /\ at[c] = "verify" /\ asked[c].verify
  /\ with = Usage => Len(parts[c]) > 1
  /\ with = Unverifiable => ~Whole(PartNames(c))
  /\ found' = [found EXCEPT ![c] = @ \cup {"unopened"}]
  /\ Says(c, <<"not reread">>) /\ Raises(c, with)
  /\ Moves(c, "close")
  /\ UNCHANGED <<folder, asked, guarded, parts>>

\* The conformance line, which no code follows, the regions of a split
\* device, and the last stamp.
Close(c) ==
  /\ at[c] = "close"
  /\ IF asked[c].split
     THEN Says(c, Append(ShortLines(c), "completed")) /\ Ends(c, Worse(code[c], ShortCode(c)))
     ELSE Says(c, (IF asked[c].mode = "device" THEN <<>> ELSE <<"conformance">>) \o <<"completed">>)
          /\ Ends(c, code[c])
  /\ UNCHANGED <<folder, asked, guarded, parts, found>>

-----------------------------------------------------------------------------
(* run_info, run_verify and run_conformance *)

\* The containers named are taken in turn; parts holds those looked at.
Looking(c) == at[c] = "typed" /\ ~Acquiring(c)
Another(c) == Len(parts[c]) < Len(asked[c].sets)
AtSet(c) == asked[c].sets[Len(parts[c]) + 1]
Readable(name) == folder[name].is \in {"whole", "mixed"}
Looks(c, more) ==
  /\ parts' = [parts EXCEPT ![c] = Append(@, AtSet(c))]
  /\ found' = [found EXCEPT ![c] = @ \cup more]

\* It cannot be opened: an unfinished container has no directory, and one of
\* several parts alone is refused by verify.
SetRefused(c, with) ==
  /\ Looking(c) /\ Another(c)
  /\ Looks(c, {"unopened"}) /\ Raises(c, with)
  /\ UNCHANGED <<folder, asked, at, guarded, said>>

\* write_full_listing and write_digest_table: create_new, for every set anew,
\* so of several sets only the first is listed.
Listing(c, sofar) ==
  IF asked[c].listing = NoName THEN Raises(c, sofar) /\ UNCHANGED folder
  ELSE IF Exists(asked[c].listing) THEN Raises(c, Worse(sofar, ListingIo)) /\ UNCHANGED folder
  ELSE /\ folder' = [folder EXCEPT ![asked[c].listing] = File(c, "listing")]
       /\ Raises(c, sofar)

SetDescribed(c) ==
  /\ Looking(c) /\ Another(c) /\ Readable(AtSet(c))
  /\ asked[c].does \in {"info", "conformance"}
  /\ Looks(c, {}) /\ Listing(c, 0)
  /\ UNCHANGED <<asked, at, guarded, said>>

SetVerified(c, answer) ==
  /\ Looking(c) /\ Another(c) /\ Readable(AtSet(c))
  /\ asked[c].does = "verify" /\ answer \in Answers({AtSet(c)})
  /\ Looks(c, answer) /\ Listing(c, AnswerCode(answer))
  /\ UNCHANGED <<asked, at, guarded, said>>

AllSeen(c) ==
  /\ Looking(c) /\ ~Another(c)
  /\ Ends(c, code[c])
  /\ UNCHANGED <<folder, asked, guarded, parts, found, said>>

-----------------------------------------------------------------------------
Killed(c) ==
  /\ at[c] \notin {"typed", "exited", "killed"}
  /\ Moves(c, "killed")
  /\ UNCHANGED <<folder, asked, guarded, parts, found, said, code>>

CommandNext ==
  \E c \in Calls :
    \/ Refuse(c) \/ Accept(c) \/ OpenLog(c) \/ LogFails(c) \/ Register(c) \/ NotBegun(c)
    \/ MayCreate(c) \/ MayNotCreate(c) \/ Create(c) \/ Finish(c)
    \/ \E with \in {Io, Malformed} : WriteFails(c, with)
    \/ \E short \in SUBSET {"unreadable", "skipped", "changed"} : Fill(c, short)
    \/ Report(c) \/ Declined(c) \/ Close(c)
    \/ \E answer \in SUBSET Against : Verified(c, answer) \/ SetVerified(c, answer)
    \/ \E with \in {Usage, Io, NotAff4, Malformed, Unsupported, Unverifiable} : NotReread(c, with)
    \/ \E with \in {Usage, Io, NotAff4, Unverifiable} : SetRefused(c, with)
    \/ SetDescribed(c) \/ AllSeen(c) \/ Killed(c)

CommandSpec == CommandInit /\ [][CommandNext]_lineVars
CommandsOver == \A c \in Calls : at[c] \in {"exited", "killed"}

-----------------------------------------------------------------------------
(* Properties *)

(* "Refuses an existing file outright: overwriting evidence is the one       *)
(* mistake that cannot be undone": no call touches what was in the folder,   *)
(* and a file changes only while its maker alone has it open.  A call sets   *)
(* out to create only what it saw was not there.  The look and               *)
(* the creation are two steps, so a second call at the same moment can slip  *)
(* in between and both then write; what keeps two acquisitions of one output *)
(* apart is that each would first have to make the same log, which only one  *)
(* of them can.                                                              *)
Shares(c, n) == Acquiring(c) /\ n \in PartNames(c)
TouchesNothingFinished ==
  /\ \A n \in Names : Exists(n) /\ folder'[n] # folder[n] =>
       LET maker == folder[n].owner IN
       /\ maker \in Calls
       /\ \/ folder[n].is = "open" /\ folder'[n].owner = maker
          \/ \E c \in Calls \ {maker} :
               Shares(c, n)' /\ (Shares(maker, n) => LogPath(maker) # LogPath(c))
  /\ \A c \in Calls : at[c] # "create" /\ at'[c] = "create" => ~Exists(NextPart(c))
NothingIsOverwritten == [][TouchesNothingFinished]_lineVars

(* The exit code and the log tell what happened: success means that nothing  *)
(* was found amiss, a finding's code that the acquisition ran to its end;    *)
(* a log closed with "Completed" that every part is whole and every finding  *)
(* on a line of it; and a usage error that nothing was left behind, unless   *)
(* the log says that the parts written could not be read again.              *)
Stamped(c, line) == \E i \in 1..Len(said[c]) : said[c][i] = line
Alone(c) == \A d \in Calls \ {c} : Acquiring(d) => PartNames(c) \cap PartNames(d) = {}
LogAndCodeTellTheCall ==
  \A c \in Calls : at[c] = "exited" =>
    /\ code[c] = 0 => found[c] = {}
    /\ code[c] = Usage /\ Acquiring(c) =>
         Stamped(c, "not reread") \/ \A n \in Names : folder[n].owner # c
    /\ Acquiring(c) /\ (code[c] = 0 \/ code[c] >= Finding) => Stamped(c, "completed")
    /\ Stamped(c, "completed") =>
         /\ Alone(c) => Whole(PartNames(c))
         /\ \A f \in found[c] \ {"unopened"} : Stamped(c, f)
         /\ code[c] \in 1..(Finding - 1) => "unopened" \in found[c]

=============================================================================
