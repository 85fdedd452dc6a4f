--------------------------- MODULE RecordedNames ---------------------------
(***************************************************************************)
(* The name of an acquired file (src/src/naming.rs): what is recorded of   *)
(* the bytes the kernel gave, what a conformance check has to say of the   *)
(* record, and what an export takes the name for; and the bytes of a small *)
(* file kept in the metadata, by the same encoding.  The record may be     *)
(* altered between the writer and its readers.                             *)
(*                                                                         *)
(* A byte, and a character of a displayed name, is a number below 256.  A  *)
(* base64 character is its value in the alphabet, PadChar, or Foreign.     *)
(***************************************************************************)
EXTENDS Naturals, Sequences, SequencesExt

CONSTANTS
  FilesNamed,     \* [path, content]: the files a run may acquire
  PadChar, Foreign, \* "=", and any character outside the alphabet
  NoValue         \* of a property that is not recorded

ASSUME NamingAssumption ==
  /\ \A file \in FilesNamed : file.path \in Seq(0..255) \ {<<>>} /\ file.content \in Seq(0..255)
  /\ PadChar # Foreign /\ PadChar \notin Nat /\ Foreign \notin Nat
  /\ NoValue \notin Seq(Nat \cup {PadChar, Foreign})
  /\ NoValue \notin {"originalPathName", "originalPathNameRaw", "fileName", "fileNameRaw", "dataStream"}

VARIABLES
  named,      \* the file
  record,     \* its properties, or Unrecorded
  altered,    \* the property altered since, or NoValue
  told,       \* what the check of the names reports, or NotTold
  recovered,  \* the path's bytes an export works with, or NotRead
  resident    \* the content read back: [ok, data], or NotRead

nameVars == <<named, record, altered, told, recovered, resident>>
Unrecorded == [originalPathName |-> NoValue]
NotTold == {"not told"}
NotRead == [ok |-> FALSE, data |-> NoValue]

-----------------------------------------------------------------------------
(* base64 *)

Octet(bytes, i) == IF i <= Len(bytes) THEN bytes[i] ELSE 0
Groups(bytes) == (Len(bytes) + 2) \div 3
Packed(bytes, g) ==
  Octet(bytes, 3 * g + 1) * 65536 + Octet(bytes, 3 * g + 2) * 256 + Octet(bytes, 3 * g + 3)
Sextet(packed, place) ==
  CASE place = 0 -> (packed \div 262144) % 64
    [] place = 1 -> (packed \div 4096) % 64
    [] place = 2 -> (packed \div 64) % 64
    [] OTHER -> packed % 64
\* base64_encode: each group of up to three bytes, packed from the left, in four
\* characters; those past the group's bytes are padding.
Character(bytes, g, place) ==
  IF place >= 2 /\ 3 * g + place > Len(bytes) THEN PadChar ELSE Sextet(Packed(bytes, g), place)
Base64Encode(bytes) ==
  [c \in 1..(4 * Groups(bytes)) |-> Character(bytes, (c - 1) \div 4, (c - 1) % 4)]

Padding(text) == CHOOSE n \in 0..Len(text) :
  /\ \A i \in (Len(text) - n + 1)..Len(text) : text[i] = PadChar
  /\ n < Len(text) => text[Len(text) - n] # PadChar
\* The bytes of the characters before the padding: three of a group of four,
\* one fewer for each that a last group lacks.
Value(body, i) == IF i <= Len(body) THEN body[i] ELSE 0
Gathered(body, g) ==
  Value(body, 4 * g + 1) * 262144 + Value(body, 4 * g + 2) * 4096 + Value(body, 4 * g + 3) * 64
  + Value(body, 4 * g + 4)
OctetAt(packed, place) ==
  CASE place = 0 -> (packed \div 65536) % 256
    [] place = 1 -> (packed \div 256) % 256
    [] OTHER -> packed % 256
Produced(length) == 3 * (length \div 4) + (IF length % 4 = 0 THEN 0 ELSE (length % 4) - 1)
Unpacked(body) ==
  [k \in 1..Produced(Len(body)) |-> OctetAt(Gathered(body, (k - 1) \div 3), (k - 1) % 3)]

\* Mutant: padding may stand anywhere, and is passed over.
Base64DecodeLoosely(text) ==
  LET body == SelectSeq(text, LAMBDA c : c # PadChar)
  IN IF Len(text) % 4 # 0 \/ Len(body) % 4 = 1 \/ Foreign \in {body[i] : i \in DOMAIN body} THEN NoValue
     ELSE Unpacked(body)
\* base64_decode: strict.
Base64Decode(text) ==
  LET padding == Padding(text)
      body == SubSeq(text, 1, Len(text) - padding)
  IN IF text = <<>> THEN <<>>
     ELSE IF \/ Len(text) % 4 # 0 \/ padding > 2
             \/ \E i \in DOMAIN body : body[i] \in {PadChar, Foreign}
     THEN NoValue
     ELSE Unpacked(body)

-----------------------------------------------------------------------------
(* The two forms of a name *)

Percent == 37
IsEscaped(byte) == byte <= 31 \/ byte = Percent \/ byte >= 127

\* std::str::from_utf8: every byte is one of a character's, a lead and the bytes
\* that follow it, in its shortest form and no surrogate.
Leads == 0..127 \cup 194..244
Follow(lead) == Cardinality({longer \in {194, 224, 240} : longer <= lead})
Second(lead) ==
  CASE lead = 224 -> 160..191 [] lead = 237 -> 128..159
    [] lead = 240 -> 144..191 [] lead = 244 -> 128..143 [] OTHER -> 128..191
CharacterAt(bytes, j) ==
  LET lead == bytes[j]
  IN /\ lead \in Leads /\ j + Follow(lead) <= Len(bytes)
     /\ \A k \in 1..Follow(lead) : bytes[j + k] \in (IF k = 1 THEN Second(lead) ELSE 128..191)
IsUtf8(bytes) ==
  \A i \in DOMAIN bytes : \E j \in 1..i : CharacterAt(bytes, j) /\ i <= j + Follow(bytes[j])

\* Mutant: a literal "%" is no reason for a raw form.
NeedsRawFormDraft(bytes) ==
  ~IsUtf8(bytes) \/ \E i \in DOMAIN bytes : bytes[i] <= 31 \/ bytes[i] = 127
NeedsRawForm(bytes) ==
  ~IsUtf8(bytes) \/ \E i \in DOMAIN bytes : bytes[i] <= 31 \/ bytes[i] \in {Percent, 127}

HexDigit(n) == IF n < 10 THEN 48 + n ELSE 55 + n
Shown(byte) ==
  IF IsEscaped(byte) THEN <<Percent, HexDigit(byte \div 16), HexDigit(byte % 16)>> ELSE <<byte>>
DisplayForm(bytes) == FlattenSeq([i \in DOMAIN bytes |-> Shown(bytes[i])])

\* RecordedName::of
RecordedName(bytes) ==
  IF NeedsRawForm(bytes) THEN [display |-> DisplayForm(bytes), raw |-> Base64Encode(bytes)]
  ELSE [display |-> bytes, raw |-> NoValue]

\* recorded_names: the path, and its last component, split before either is
\* encoded.
Separators == {47, 92}
LastOf(bytes, S) == CHOOSE n \in 0..Len(bytes) :
  (n > 0 => bytes[n] \in S) /\ \A i \in (n + 1)..Len(bytes) : bytes[i] \notin S
LastComponent(bytes) ==
  LET end == LastOf(bytes, 0..255 \ Separators)
      trimmed == IF end = 0 THEN bytes ELSE SubSeq(bytes, 1, end)
  IN SubSeq(trimmed, LastOf(trimmed, Separators) + 1, Len(trimmed))

-----------------------------------------------------------------------------
NamesInit ==
  /\ named \in FilesNamed
  /\ record = Unrecorded /\ altered = NoValue /\ told = NotTold
  /\ recovered = NotRead /\ resident = NotRead

\* write_table_3, and record_resident_primary_stream
RecordFile ==
  LET path == RecordedName(named.path)
      last == RecordedName(LastComponent(named.path))
  IN /\ record = Unrecorded
     /\ record' = [originalPathName |-> path.display, originalPathNameRaw |-> path.raw,
                   fileName |-> last.display, fileNameRaw |-> last.raw,
                   dataStream |-> Base64Encode(named.content)]
     /\ UNCHANGED <<named, altered, told, recovered, resident>>

\* External: one property of the record is lost, cut short, or has a character
\* changed.
Damaged(value, changes) ==
  {NoValue, SubSeq(value, 1, Len(value) - 1)}
  \cup {[value EXCEPT ![i] = c] : i \in DOMAIN value, c \in changes}
AlterRecord(property) ==
  /\ record # Unrecorded /\ altered = NoValue /\ told = NotTold
  /\ recovered = NotRead /\ resident = NotRead
  /\ record[property] \notin {NoValue, <<>>}
  /\ \E value \in Damaged(record[property],
                          IF property \in {"originalPathName", "fileName"} THEN {97, Percent}
                          ELSE {0, 17, PadChar, Foreign}) :
       /\ value # record[property]
       /\ record' = [record EXCEPT ![property] = value]
  /\ altered' = property
  /\ UNCHANGED <<named, told, recovered, resident>>

-----------------------------------------------------------------------------
(* Reading *)

IsHex(c) == c \in 48..57 \cup 65..70 \cup 97..102
EscapeAt(display, i) == display[i] = Percent /\ IsHex(display[i + 1]) /\ IsHex(display[i + 2])
Escapes(display) == {i \in 1..(Len(display) - 2) : EscapeAt(display, i)}
HasLowercaseEscape(display) ==
  \E i \in Escapes(display) : {display[i + 1], display[i + 2]} \cap (97..102) # {}

\* report_v21_names, of one pair
ReportName(display, raw) ==
  IF display = NoValue THEN {}
  ELSE LET given == raw \notin {NoValue, <<>>}
           bytes == IF given THEN Base64Decode(raw) ELSE NoValue
           read == given /\ bytes # NoValue
           found == [LowercaseNameEscape |-> HasLowercaseEscape(display),
                     MissingRawName |-> ~given /\ Escapes(display) # {},
                     MalformedRawName |-> given /\ bytes = NoValue,
                     RedundantRawName |-> read /\ ~NeedsRawForm(bytes),
                     ContradictoryRawName |-> read /\ RecordedName(bytes).display # display]
       IN {kind \in DOMAIN found : found[kind]}
ReportNames ==
  /\ record # Unrecorded /\ told = NotTold
  /\ told' = ReportName(record.fileName, record.fileNameRaw)
             \cup ReportName(record.originalPathName, record.originalPathNameRaw)
  /\ UNCHANGED <<named, record, altered, recovered, resident>>

\* recorded_path_bytes, and recorded_path: the fuller of the two, if it is there.
Fuller(path, file) == IF path \notin {NoValue, <<>>} THEN path ELSE IF file # <<>> THEN file ELSE NoValue
RecordedPathBytes ==
  LET raw == Fuller(record.originalPathNameRaw, record.fileNameRaw)
  IN IF raw = NoValue THEN NoValue ELSE Base64Decode(raw)
RecordedPath == Fuller(record.originalPathName, record.fileName)

\* What run_extract takes for the file's path.
RecoverName ==
  /\ record # Unrecorded /\ recovered = NotRead
  /\ recovered' = [ok |-> TRUE,
                   data |-> IF RecordedPathBytes # NoValue THEN RecordedPathBytes ELSE RecordedPath]
  /\ UNCHANGED <<named, record, altered, told, resident>>

\* resident_bytes: the bytes, or a finding.
ReadResident ==
  /\ record # Unrecorded /\ resident = NotRead /\ record.dataStream # NoValue
  /\ resident' = LET bytes == Base64Decode(record.dataStream)
                 IN IF bytes = NoValue THEN [ok |-> FALSE, data |-> Foreign]
                    ELSE [ok |-> TRUE, data |-> bytes]
  /\ UNCHANGED <<named, record, altered, told, recovered>>

NamesNext ==
  \/ RecordFile
  \/ \E property \in (IF record = Unrecorded THEN {} ELSE DOMAIN record) : AlterRecord(property)
  \/ ReportNames \/ RecoverName \/ ReadResident
NamesSpec == NamesInit /\ [][NamesNext]_nameVars

-----------------------------------------------------------------------------
(* Properties *)

\* RFC 4648, by bits: what a well-formed text stands for.
Bit(text, n) == (text[1 + (n \div 6)] \div <<32, 16, 8, 4, 2, 1>>[1 + (n % 6)]) % 2
StandsFor(text) ==
  LET chars == {i \in DOMAIN text : text[i] # PadChar}
      wellFormed ==
        /\ Len(text) % 4 = 0 /\ \A i \in chars : text[i] # Foreign
        /\ \A i \in DOMAIN text : text[i] = PadChar => i > Len(text) - 2 /\ (i < Len(text) => text[i + 1] = PadChar)
      count == (6 * Cardinality(chars)) \div 8
      octet(k) == Bit(text, 8 * k - 8) * 128 + Bit(text, 8 * k - 7) * 64 + Bit(text, 8 * k - 6) * 32
                  + Bit(text, 8 * k - 5) * 16 + Bit(text, 8 * k - 4) * 8 + Bit(text, 8 * k - 3) * 4
                  + Bit(text, 8 * k - 2) * 2 + Bit(text, 8 * k - 1)
  IN IF wellFormed THEN [k \in 1..count |-> octet(k)] ELSE NoValue

(* "Silently recovering part of it would present a guess as the recorded      *)
(* name": whatever became of a text, it is read for the bytes RFC 4648 says   *)
(* it stands for, or not at all.                                              *)
Encoded == {"originalPathNameRaw", "fileNameRaw", "dataStream"}
TextsAreReadStrictly ==
  record # Unrecorded =>
    \A property \in Encoded :
      record[property] # NoValue => Base64Decode(record[property]) = StandsFor(record[property])

(* Unless the record was altered: content kept in the metadata is read back   *)
(* as it was, and an export works with the bytes of a name that needed its    *)
(* raw form.                                                                  *)
KeptBytesReadBack ==
  altered = NoValue =>
    /\ resident \in {NotRead, [ok |-> TRUE, data |-> named.content]}
    /\ NeedsRawForm(named.path) => recovered \in {NotRead, [ok |-> TRUE, data |-> named.path]}

(* "Together they are lossless": of a record nobody altered, every name comes *)
(* back byte for byte, the check finds nothing, and the content is the        *)
(* file's.  Of a name that needed its raw form, no alteration of either half  *)
(* passes the check unseen and gives another name.                            *)
Unaltered == record # Unrecorded /\ altered = NoValue
NamesAreLossless ==
  /\ KeptBytesReadBack
  /\ Unaltered =>
       /\ told \in {NotTold, {}}
       /\ recovered \in {NotRead, [ok |-> TRUE, data |-> named.path]}
       /\ record.fileNameRaw # NoValue => record.originalPathNameRaw # NoValue
  /\ altered # NoValue /\ told = {} /\ NeedsRawForm(named.path) =>
       recovered \in {NotRead, [ok |-> TRUE, data |-> named.path]}

(* A name is kept, and what is kept is read strictly.                         *)
NamesAreKept == NamesAreLossless /\ TextsAreReadStrictly
=============================================================================
