--------------------------- MODULE LogicalExport ---------------------------
(***************************************************************************)
(* The files of a logical container written out as a tree of their own     *)
(* (run_export_logical of src/src/main.rs, rebase of src/src/export.rs).   *)
(* A recorded path is a sequence of components                             *)
(*   [stem, marks, copies, flaws]                                          *)
(* its text up to the underscores it ends in, how many of those, the       *)
(* "(n)" that follow, and what is wrong with it; a name written has no     *)
(* flaws.  A file to export is [path, bytes, form, times]: its recorded    *)
(* path or Unnamed, whether that path is raw bytes that are no text, where *)
(* its content is, and which of its four times are recorded; arn is the path its ARN carries.        *)
(***************************************************************************)
EXTENDS Naturals, Sequences, FiniteSets

CONSTANTS
  Archives,  \* what a run may be given: [files, escaped, lower], the files in the
             \* summary's order, whether ARNs carry paths, and a name's stem as
             \* the host compares it
  Reserved,  \* stems no component may have alone
  Copies     \* the highest "(n)" tried

\* ".." and nothing more.
Climbs(name) == name.stem = ".." /\ name.marks = 0 /\ name.copies = <<>>

\* A component that climbs is known to, unless what is illegal in it is still to
\* be replaced; and the host takes no other stem for the one that does.
IsComponent(c) ==
  /\ c.marks \in Nat /\ c.copies \in Seq(Nat)
  /\ Climbs(c) => c.flaws \cap {"up", "illegal"} # {}
IsPath(p) == p \in Seq({p[i] : i \in DOMAIN p}) /\ \A i \in DOMAIN p : IsComponent(p[i])
ASSUME ExportAssumption ==
  /\ Copies \in Nat
  /\ \A a \in Archives :
       /\ a.files \in Seq({a.files[i] : i \in DOMAIN a.files})
       /\ \A i \in DOMAIN a.files :
            /\ a.files[i].bytes \in BOOLEAN
            /\ \A p \in {a.files[i].path, a.files[i].arn} :
                 IsPath(p) /\ \A j \in DOMAIN p : p[j].stem \in DOMAIN a.lower
       /\ "" \in DOMAIN a.lower
       /\ \A s \in DOMAIN a.lower : a.lower[s] = ".." => s = ".."

Unnamed == <<>>
LogicalTimes == {"birthTime", "lastWritten", "lastAccessed", "recordChanged"}
Settable == {"lastWritten", "lastAccessed"}

VARIABLES
  archive,  \* what is exported
  at,       \* the file the loop is at
  step,     \* "open", "name", "read", "write", "times", or the way it ended
  path,     \* where the current file is to go
  taken,    \* destinations already claimed this run
  altered,  \* the files whose path is reported as altered
  skipped,  \* the files counted as not written
  written,  \* how many files were
  tree,     \* what is below the target: path -> Directory, or <<file, whole>>
  stamped,  \* file -> the times its copy was given
  unset     \* the files whose times are reported as unset

exportVars ==
  <<archive, at, step, path, taken, altered, skipped, written, tree, stamped, unset>>
File == archive.files[at]

-----------------------------------------------------------------------------
(* Where a recorded path goes *)

Name(stem, marks, copies) == [stem |-> stem, marks |-> marks, copies |-> copies]
Fallback == Name("", 1, <<>>)
IsReserved(name) == name.stem \in Reserved /\ name.marks = 0 /\ name.copies = <<>>

\* An empty component or "." is dropped in silence, ".." with a reason.
Dropped(c) == c.flaws \cap {"empty", "up"} # {}
Silent(c) == "empty" \in c.flaws

\* safe_component: a drive loses its colon, an illegal character becomes an
\* underscore, what trails is cut, and a reserved name is given an underscore.
\* The bytes of a name that is no text are not looked at for drives or
\* reserved names: the colon is illegal.
SafeComponent(c, bytes) ==
  LET bad == "illegal" \in c.flaws \/ (bytes /\ "drive" \in c.flaws)
      kept == Name(c.stem, IF bad THEN c.marks + 1 ELSE c.marks, c.copies)
  IN IF "nothing" \in c.flaws THEN Fallback
     ELSE IF ~bytes /\ IsReserved(kept) THEN [kept EXCEPT !.marks = 1] ELSE kept

\* The members of a sequence at some of its places, in their order.
Among(s, places) ==
  LET upTo[n \in 0..Len(s)] ==
        IF n = 0 THEN <<>>
        ELSE IF n \in places THEN Append(upTo[n - 1], s[n]) ELSE upTo[n - 1]
  IN upTo[Len(s)]

Rebased(recorded, bytes) ==
  LET kept == Among(recorded, {i \in DOMAIN recorded : ~Dropped(recorded[i])})
  IN IF kept = <<>> THEN <<Fallback>>
     ELSE [i \in 1..Len(kept) |-> SafeComponent(kept[i], bytes)]

\* Mutant: only what was wrong in itself is told of.
FlawsReported(recorded, bytes) ==
  \E i \in DOMAIN recorded : ~Silent(recorded[i]) /\ recorded[i].flaws # {}

\* Whether rebase gives a reason.
PathAltered(recorded, bytes) ==
  \/ \A i \in DOMAIN recorded : Dropped(recorded[i])
  \/ \E i \in DOMAIN recorded :
       /\ ~Silent(recorded[i])
       /\ \/ recorded[i].flaws # {}
          \/ SafeComponent(recorded[i], bytes).marks # recorded[i].marks

WithCopy(p, n) == [p EXCEPT ![Len(p)].copies = Append(@, n)]

\* Mutant: the second claimant's name is not looked for among those taken.
DeconflictOnce(p, claimed) == IF p \in claimed THEN WithCopy(p, 2) ELSE p

\* deconflict: the first free "(n)"; when there is none, the name as it was.
Deconflict(p, claimed) ==
  LET free == {n \in 2..Copies : WithCopy(p, n) \notin claimed}
  IN IF p \notin claimed \/ free = {} THEN p
     ELSE WithCopy(p, CHOOSE n \in free : \A m \in free : n <= m)

-----------------------------------------------------------------------------
(* The host's file system: two paths its comparison does not tell apart are *)
(* one.                                                                     *)

Directory == <<0, TRUE>>
OnHost(p) == [i \in DOMAIN p |-> [p[i] EXCEPT !.stem = archive.lower[@]]]
There(p) == OnHost(p) \in DOMAIN tree
Parents(p) == {SubSeq(p, 1, i) : i \in 1..(Len(p) - 1)}
Blocked(p) == \E q \in Parents(p) : There(q) /\ tree[OnHost(q)] # Directory
WithParents(p) ==
  LET fresh == {OnHost(q) : q \in Parents(p)} \ DOMAIN tree
  IN [q \in DOMAIN tree \cup fresh |-> IF q \in fresh THEN Directory ELSE tree[q]]
With(files, p, node) ==
  [q \in DOMAIN files \cup {OnHost(p)} |-> IF q = OnHost(p) THEN node ELSE files[q]]

-----------------------------------------------------------------------------
(* The command *)

ExportInit ==
  /\ archive \in Archives
  /\ at = 1 /\ step = "open" /\ path = <<>> /\ taken = {}
  /\ altered = {} /\ skipped = {} /\ written = 0
  /\ tree = [p \in {} |-> Directory] /\ stamped = [i \in {} |-> {}] /\ unset = {}

\* A container that opens, with files, and a target that was not there.
ExportOpens ==
  /\ step = "open" /\ archive.files # <<>> /\ step' = "name"
  /\ UNCHANGED <<archive, at, path, taken, altered, skipped, written, tree, stamped, unset>>
ExportRefused ==
  /\ step = "open"
  /\ step' \in (IF archive.files = <<>> THEN {"error", "usage"} ELSE {"error", "usage", "no target"})
  /\ UNCHANGED <<archive, at, path, taken, altered, skipped, written, tree, stamped, unset>>

\* The loop turns to the next file, or its end decides the exit code.
Exit(count, lost) == IF count = 0 THEN "io" ELSE IF lost # {} THEN "unverifiable" ELSE "success"
NextFile(count, lost) ==
  IF at < Len(archive.files) THEN at' = at + 1 /\ step' = "name"
  ELSE at' = at /\ step' = Exit(count, lost)
Skip ==
  /\ skipped' = skipped \cup {at}
  /\ NextFile(written, skipped')
  /\ UNCHANGED <<archive, path, written, stamped, unset>>

\* recorded_path and recorded_path_bytes; the ARN, where it carries the path.
RecordedOf(f) == IF f.path # Unnamed \/ ~archive.escaped THEN f.path ELSE f.arn
Recorded == RecordedOf(File)

SkipUnnamed ==
  /\ step = "name" /\ Recorded = Unnamed
  /\ Skip /\ UNCHANGED <<taken, altered, tree>>

ClaimName ==
  /\ step = "name" /\ Recorded # Unnamed
  /\ LET wanted == Rebased(Recorded, File.bytes)
     IN /\ path' = Deconflict(wanted, taken)
        /\ altered' = IF PathAltered(Recorded, File.bytes) \/ path' # wanted
                      THEN altered \cup {at} ELSE altered
  /\ taken' = taken \cup {path'}
  /\ step' = "read"
  /\ UNCHANGED <<archive, at, skipped, written, tree, stamped, unset>>

\* A stream or a map by the graph, which may not parse, else the member the ARN
\* names; whole, or not at all.
ReadContent ==
  /\ step = "read" /\ File.form # "nowhere"
  /\ step' = "write"
  /\ UNCHANGED <<archive, at, path, taken, altered, skipped, written, tree, stamped, unset>>
SkipUnread == step = "read" /\ Skip /\ UNCHANGED <<taken, altered, tree>>

\* Mutant: a file that is there is written over.
CreatesOver(p) == ~Blocked(p)

\* create_dir_all, then create_new, then write_all.
Creates(p) == ~Blocked(p) /\ OnHost(p) \notin DOMAIN WithParents(p)

\* What is not created may leave some of its directories.
SkipNotCreated ==
  /\ step = "write"
  /\ \E depth \in 1..Len(path) :
       /\ ~Blocked(SubSeq(path, 1, depth))
       /\ tree' = WithParents(SubSeq(path, 1, depth))
  /\ Skip /\ UNCHANGED <<taken, altered>>
SkipTornWrite ==
  /\ step = "write" /\ Creates(path)
  /\ tree' = With(WithParents(path), path, <<at, FALSE>>)
  /\ Skip /\ UNCHANGED <<taken, altered>>
WriteFile ==
  /\ step = "write" /\ Creates(path)
  /\ tree' = With(WithParents(path), path, <<at, TRUE>>)
  /\ step' = "times"
  /\ UNCHANGED <<archive, at, path, taken, altered, skipped, written, stamped, unset>>

\* apply_times: the two that can be set are set together, if both are recorded,
\* can be parsed and the copy can be opened; the host may refuse.
ApplyTimes(given, refused) ==
  /\ step = "times"
  /\ (given # {} \/ refused) => Settable \subseteq File.times
  /\ refused => given = {}
  /\ stamped' = [i \in DOMAIN stamped \cup {at} |-> IF i = at THEN given ELSE stamped[i]]
  /\ unset' = IF refused \/ File.times \ Settable # {} THEN unset \cup {at} ELSE unset
  /\ written' = written + 1
  /\ NextFile(written', skipped)
  /\ UNCHANGED <<archive, path, taken, altered, skipped, tree>>

ExportNext ==
  \/ ExportOpens \/ ExportRefused
  \/ SkipUnnamed \/ ClaimName
  \/ ReadContent \/ SkipUnread
  \/ SkipNotCreated \/ SkipTornWrite \/ WriteFile
  \/ \E given \in {{}, Settable}, refused \in BOOLEAN : ApplyTimes(given, refused)
ExportSpec == ExportInit /\ [][ExportNext]_exportVars

-----------------------------------------------------------------------------
(* Properties *)

Files == 1..Len(archive.files)
Copy(i) == {p \in DOMAIN tree : tree[p] = <<i, TRUE>>}

(* "A run that skips evidence must not report success": when the command has  *)
(* been through the files, each is whole at one place or counted as skipped,  *)
(* never both, and success means that none is skipped.                        *)
EveryFileIsWrittenOrCounted ==
  step \in {"success", "unverifiable", "io"} =>
    /\ \A i \in Files : IF i \in skipped THEN Copy(i) = {} ELSE Cardinality(Copy(i)) = 1
    /\ (step = "success") = (skipped = {})

(* "Both files are evidence": no two files are sent to one destination, as    *)
(* long as there are copies to number.                                        *)
Claimants ==
  {i \in Files : /\ i < at \/ (i = at /\ step \in {"read", "write", "times", "success", "unverifiable", "io"})
                 /\ RecordedOf(archive.files[i]) # Unnamed}
FilesHaveTheirOwnPlaces ==
  Cardinality(Claimants) <= Copies => Cardinality(taken) = Cardinality(Claimants)

(* "An examiner comparing extracted files against the container's own listing *)
(* must be able to see why a name differs", and "nothing can escape target":  *)
(* a copy is at its recorded path unless it is reported as altered, and no    *)
(* component of where it is climbs.                                           *)
AsRecorded(recorded) ==
  LET named == Among(recorded, {i \in DOMAIN recorded : ~Silent(recorded[i])})
  IN [i \in DOMAIN named |-> Name(named[i].stem, named[i].marks, named[i].copies)]
CopiesAreWhereTheySay ==
  \A i \in Files : \A p \in Copy(i) :
    /\ i \notin altered => p = OnHost(AsRecorded(RecordedOf(archive.files[i])))
    /\ \A j \in DOMAIN p : ~Climbs(p[j])

(* An export is as it says: each file has a place of its own, a copy is where  *)
(* the report says, and every file is written or counted.                      *)
ExportIsAsItSays ==
  FilesHaveTheirOwnPlaces /\ CopiesAreWhereTheySay /\ EveryFileIsWrittenOrCounted
=============================================================================
