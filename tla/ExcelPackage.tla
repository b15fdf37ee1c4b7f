---------------------------- MODULE ExcelPackage ----------------------------
(***************************************************************************)
(* The ZIP package of an XLSX workbook, read from its ranges (range.rs and *)
(* the entry fetch of wasm.rs).  A path is the sequence of its segments.   *)
(* `file' is the source as it is; what a structure says is looked up at    *)
(* the first byte the code has of it, so misplaced bytes are misread:      *)
(*   ends    position -> end-of-central-directory record (with its ZIP64   *)
(*           record, or None)                                              *)
(*   central position -> the entries of a central directory                *)
(*   headers position -> local header: bytes to the data, flags, method    *)
(*   parts   position -> what an entry's data says once inflated           *)
(***************************************************************************)
EXTENDS Integers, Sequences, SequencesExt, FiniteSetsExt

-----------------------------------------------------------------------------
(***************************************************************************)
(* The byte ranges of an Excel source fetched so far (IndexedRanges and    *)
(* SparseReader of src/crates/tabulark-excel-wasm/src/range.rs).  The host *)
(* answers a range once; an answer that meets bytes already there is       *)
(* refused, and neighbours are joined.  The byte of the source at position *)
(* p stands as the number p, Zero as a byte nothing was copied to.         *)
(***************************************************************************)

CONSTANTS
    None,
    ChunkBytes,       \* RANGE_CHUNK_BYTES: the window of a small parser read
    MaxCompactBytes   \* the largest prefix of a legacy workbook made whole

Zero == -1

\* The elements of a sequence that are in a set, in their order.
Keep(s, set) == FoldLeft(LAMBDA kept, e : IF e \in set THEN Append(kept, e) ELSE kept, <<>>, s)

With(f, key, value) ==
    [k \in DOMAIN f \cup {key} |-> IF k = key THEN value ELSE f[k]]
Without(f, keys) == [k \in DOMAIN f \ keys |-> f[k]]
SumOf(f) == MapThenSumSet(LAMBDA x : f[x], DOMAIN f)

HostRange(offset, length) == [offset |-> offset, length |-> length]
RangeEnd(range) == range.offset + range.length
Positions(range) == range.offset .. RangeEnd(range) - 1

\* HostRange::new
ValidRange(range, sourceLength) ==
    /\ range.length > 0
    /\ RangeEnd(range) <= sourceLength

----------------------------------------------------------------------------
\* A map from the offset of a range to its bytes.
NewIndexed(sourceLength) ==
    [length |-> sourceLength, ranges |-> <<>>, retained |-> 0]

EndOf(indexed, start) == start + Len(indexed.ranges[start])

Indexed(indexed) ==
    UNION {start .. EndOf(indexed, start) - 1 : start \in DOMAIN indexed.ranges}

\* The last range that starts at or before a position.
StartBefore(indexed, position) ==
    LET starts == {start \in DOMAIN indexed.ranges : start <= position}
    IN  IF starts = {} THEN None ELSE Max(starts)

Overlaps(indexed, range) ==
    LET before == StartBefore(indexed, range.offset)
    IN  \/ before # None /\ EndOf(indexed, before) > range.offset
        \/ \E start \in DOMAIN indexed.ranges :
              range.offset <= start /\ start < RangeEnd(range)

\* The same answer once more is no change, as long as nothing joined it.
Repeated(indexed, range, bytes) ==
    /\ range.offset \in DOMAIN indexed.ranges
    /\ indexed.ranges[range.offset] = bytes

Joined(indexed, range, bytes) ==
    LET before == StartBefore(indexed, range.offset)
        joins == before # None /\ EndOf(indexed, before) = range.offset
        start == IF joins THEN before ELSE range.offset
        left == IF joins THEN indexed.ranges[before] \o bytes ELSE bytes
        next == RangeEnd(range)
        whole == IF next \in DOMAIN indexed.ranges
                 THEN left \o indexed.ranges[next] ELSE left
    IN  With(Without(indexed.ranges, {start, next}), start, whole)

\* A mutant of Insert: an answer that touches a range is dropped.
InsertApart(indexed, range, bytes) ==
    LET before == StartBefore(indexed, range.offset)
        touches == \/ before # None /\ EndOf(indexed, before) >= range.offset
                   \/ RangeEnd(range) \in DOMAIN indexed.ranges
    IN  [error |-> "ok",
         indexed |-> IF touches THEN indexed
                     ELSE [indexed EXCEPT !.ranges = With(@, range.offset, bytes),
                                          !.retained = @ + range.length]]

\* insert
Insert(indexed, range, bytes) ==
    LET result(error, after) == [error |-> error, indexed |-> after]
    IN  IF RangeEnd(range) > indexed.length \/ Len(bytes) # range.length
        THEN result("argument", indexed)
        ELSE IF Repeated(indexed, range, bytes) THEN result("ok", indexed)
        ELSE IF Overlaps(indexed, range) THEN result("overlap", indexed)
        ELSE result("ok", [indexed EXCEPT
                              !.ranges = Joined(indexed, range, bytes),
                              !.retained = @ + range.length])

\* bytes: all of a range, or nothing.
Bytes(indexed, range) ==
    LET start == StartBefore(indexed, range.offset)
    IN  IF start = None \/ RangeEnd(range) > EndOf(indexed, start) THEN None
        ELSE SubSeq(indexed.ranges[start], range.offset - start + 1,
                    RangeEnd(range) - start)

\* first_missing: the first gap of a range, or None.
FirstMissing(indexed, range) ==
    LET gaps == Positions(range) \ Indexed(indexed)
        from == Min(gaps)
        upTo == Min({RangeEnd(range)}
                    \cup {start \in DOMAIN indexed.ranges : start > from})
    IN  IF gaps = {} THEN None ELSE HostRange(from, upTo - from)

----------------------------------------------------------------------------
\* A read of the sparse view of a compound file where nothing is indexed: a
\* window of the source is wanted from there.
WantedWindow(indexed, position) ==
    HostRange(position, Min({ChunkBytes, indexed.length - position}))

\* materialize_indexed_prefix: up to the last byte there is, holes zeroed.
PrefixEnd(indexed) == Max({0} \cup {EndOf(indexed, s) : s \in DOMAIN indexed.ranges})

Prefix(indexed) ==
    [k \in 1 .. PrefixEnd(indexed) |->
        LET start == StartBefore(indexed, k - 1)
        IN  IF start # None /\ k <= EndOf(indexed, start)
            THEN indexed.ranges[start][k - start] ELSE Zero]

\* compact_xls: the cfb crate (external) reads the positions `reads' in this
\* order, from the start of the file at every attempt.
CompactXls(indexed, reads, hasWorkbook) ==
    LET absent == Keep(reads, Range(reads) \ Indexed(indexed))
        ends(how, range, bytes) == [end |-> how, range |-> range, bytes |-> bytes]
    IN  IF absent # <<>>
        THEN ends("more", WantedWindow(indexed, absent[1]), None)
        ELSE IF ~hasWorkbook THEN ends("parse", None, None)
        ELSE IF PrefixEnd(indexed) > MaxCompactBytes THEN ends("limit", None, None)
        ELSE ends("ok", None, Prefix(indexed))

-----------------------------------------------------------------------------

CONSTANTS
    SignatureBytes, EndBytes, HeaderBytes,  \* 8, 22 and 30 bytes
    TailBytes,                              \* RANGE_TAIL_BYTES
    MaxZipEntries, MaxCentralBytes, MaxCompressedBytes, MaxExpandedBytes,
    MaxSheets,                              \* 1 024 sheets of one workbook
    PlaceholderBytes                        \* the length of an empty worksheet

Types == <<"types">>
Workbook == <<"xl", "workbook">>
Optional == {<<"_rels", "">>, <<"xl", "styles">>, <<"xl", "strings">>,
             <<"xl", "theme", "theme1">>}

ASSUME PackageAssumption ==
    /\ None \notin Nat /\ None \notin Seq(Int) /\ None \notin [offset : Nat, length : Nat]
    /\ ChunkBytes \in Nat \ {0} /\ SignatureBytes \in Nat \ {0}
    /\ EndBytes \in Nat \ {0} /\ HeaderBytes \in Nat \ {0}
    /\ TailBytes \in Nat /\ PlaceholderBytes \in Nat

\* What a package may say: unsigned numbers, in whatever combination.
Paths == Seq(STRING)
Zip64Records == [at : Nat, length : Nat, disks : Nat, entries : Nat,
                 entriesOnDisk : Nat, offset : Nat, size : Nat]
EndRecords == [entries : Nat, offset : Nat, size : Nat, comment : Nat, disks : Nat,
               large : BOOLEAN, zip64 : Zip64Records \cup {None}]
EntrySizes == [header : Nat, compressed : Nat, expanded : Nat]
CentralEntries == [name : Paths, header : Nat, compressed : Nat, expanded : Nat,
                   method : STRING, encrypted : BOOLEAN, large : BOOLEAN,
                   extra : EntrySizes \cup {None}]
LocalHeaders == [names : Nat, method : STRING, encrypted : BOOLEAN]
SheetNodes == [name : STRING, relationship : Nat \cup {None}, visibility : STRING,
              worksheet : BOOLEAN]
Relationships == [id : Nat, kind : STRING, external : BOOLEAN,
                  target : [absolute : BOOLEAN, path : Paths]]

Found(value) == [error |-> "ok", value |-> value]
Refused(error) == [error |-> error, value |-> None]

\* resolve_zip_target
ResolveTarget(base, target) ==
    LET walk(at, segment) ==
            IF at = None THEN None
            ELSE IF segment \in {"", "."} THEN at
            ELSE IF segment = ".." THEN IF at = <<>> THEN None ELSE Front(at)
            ELSE Append(at, segment)
        path == FoldLeft(walk, base, target.path)
    IN  IF target.absolute THEN Refused("unsupported")
        ELSE IF path \in {None, <<>>} THEN Refused("parse")
        ELSE Found(path)

\* `paths' lists every name and every target of the package, in their order.
PathsListed(file) ==
    LET listed == Range(file.paths)
        target(relationship) == ResolveTarget(<<"xl">>, relationship.target)
    IN  /\ \A p \in DOMAIN file.central :
              \A k \in 1 .. Len(file.central[p]) : file.central[p][k].name \in listed
        /\ \A p \in DOMAIN file.parts :
              \A k \in 1 .. Len(file.parts[p].relationships) :
                 LET to == target(file.parts[p].relationships[k])
                 IN  to.error = "ok" => to.value \in listed

IsPackage(file) ==
    /\ file.paths \in Seq(Paths) /\ PathsListed(file)
    /\ \A p \in DOMAIN file.ends : file.ends[p] \in EndRecords
    /\ \A p \in DOMAIN file.central : file.central[p] \in Seq(CentralEntries)
    /\ \A p \in DOMAIN file.headers : file.headers[p] \in LocalHeaders

\* tail_range
TailRange(length) ==
    LET tail == Min({length, TailBytes})
    IN  IF tail < EndBytes THEN Refused("parse")
        ELSE Found(HostRange(length - tail, tail))

\* central_location
CentralLocation(file, end) ==
    IF end.entries \notin 1 .. MaxZipEntries THEN Refused("limit")
    ELSE IF end.size \notin 1 .. MaxCentralBytes THEN Refused("limit")
    ELSE
          LET range == HostRange(end.offset, end.size)
          IN  IF ValidRange(range, file.length)
              THEN Found([range |-> range, entries |-> end.entries])
              ELSE Refused("argument")

\* parse_zip64_end: the record must lie in the tail that was fetched.
Zip64End(file, tail, tailOffset, end) ==
    IF end.zip64 = None THEN Refused("parse")
    ELSE IF end.zip64.disks # 1 THEN Refused("unsupported")
    ELSE IF \/ end.zip64.at < tailOffset
            \/ end.zip64.at - tailOffset + end.zip64.length > Len(tail) THEN Refused("parse")
    ELSE IF end.zip64.entries # end.zip64.entriesOnDisk THEN Refused("unsupported")
    ELSE CentralLocation(file, end.zip64)

\* A mutant of FindEnd: the last signature, wherever its comment ends.
FindEndSignature(file, tail, tailOffset) ==
    LET ending == {k \in 1 .. Len(tail) - EndBytes + 1 : tail[k] \in DOMAIN file.ends}
        end == file.ends[tail[Max(ending)]]
    IN  IF ending = {} THEN Refused("parse")
        ELSE IF end.disks # 1 THEN Refused("unsupported")
        ELSE IF end.large THEN Zip64End(file, tail, tailOffset, end)
        ELSE CentralLocation(file, end)

\* parse_end_of_central_directory: the last record whose comment ends the
\* file; a signature inside a comment does not count.
FindEnd(file, tail, tailOffset) ==
    LET ending == {k \in 1 .. Len(tail) - EndBytes + 1 :
                      /\ tail[k] \in DOMAIN file.ends
                      /\ k - 1 + EndBytes + file.ends[tail[k]].comment = Len(tail)}
        end == file.ends[tail[Max(ending)]]
    IN  IF ending = {} THEN Refused("parse")
        ELSE IF end.disks # 1 THEN Refused("unsupported")
        ELSE IF end.large THEN Zip64End(file, tail, tailOffset, end)
        ELSE CentralLocation(file, end)

----------------------------------------------------------------------------
SafePath(path) == path # <<>> /\ ".." \notin {path[k] : k \in 1 .. Len(path)}

\* The sizes of a central entry, or those of its ZIP64 extra field.
Sizes(entry) == IF entry.large THEN entry.extra ELSE entry

EntryError(file, entry) ==
    IF ~SafePath(entry.name) THEN "parse"
    ELSE IF entry.encrypted THEN "unsupported"
    ELSE IF entry.method \notin {"stored", "deflated"} THEN "unsupported"
    ELSE IF Sizes(entry) = None THEN "parse"
    ELSE IF Sizes(entry).compressed > MaxCompressedBytes THEN "limit"
    ELSE IF Sizes(entry).expanded > MaxExpandedBytes THEN "limit"
    ELSE IF ~ValidRange(HostRange(Sizes(entry).header, HeaderBytes), file.length) THEN "argument"
    ELSE "ok"

\* parse_central_directory: name -> entry; the first entry that is not as it
\* should be, or is there for the second time, ends it.
ParseCentral(file, bytes, expected) ==
    LET records == IF bytes[1] \in DOMAIN file.central
                   THEN file.central[bytes[1]] ELSE <<>>
        names == {records[k].name : k \in 1 .. Len(records)}
        wrong == {k \in 1 .. Len(records) :
                     \/ EntryError(file, records[k]) # "ok"
                     \/ \E j \in 1 .. k - 1 : records[j].name = records[k].name}
        first == EntryError(file, records[Min(wrong)])
        named(name) == CHOOSE k \in 1 .. Len(records) : records[k].name = name
    IN  IF records = <<>> THEN Refused("parse")
        ELSE IF wrong # {} /\ first # "ok" THEN Refused(first)
        ELSE IF wrong # {} \/ Len(records) # expected THEN Refused("parse")
        ELSE Found([name \in names |->
                 [compressed |-> Sizes(records[named(name)]).compressed,
                  expanded |-> Sizes(records[named(name)]).expanded,
                  header |-> Sizes(records[named(name)]).header,
                  method |-> records[named(name)].method]])

\* RawZipEntry::data_range, from the bytes of the local header.
DataRange(file, entry, header) ==
    LET local == file.headers[header[1]]
        range == HostRange(entry.header + HeaderBytes + local.names, entry.compressed)
    IN  IF header[1] \notin DOMAIN file.headers THEN Refused("parse")
        ELSE IF local.encrypted \/ local.method # entry.method THEN Refused("parse")
        ELSE IF ~ValidRange(range, file.length) THEN Refused("argument")
        ELSE Found(range)

\* RawZipEntry::decode
Decode(file, index, entry) ==
    IF entry.bytes[1] \notin DOMAIN file.parts THEN Refused("parse")
    ELSE IF file.parts[entry.bytes[1]].expanded # index[entry.name].expanded THEN Refused("parse")
    ELSE Found(file.parts[entry.bytes[1]])

----------------------------------------------------------------------------
\* EntryFetch: the paths still wanted, in order, and the entries there are.
NewFetch(paths, entries) == [wanted |-> paths, entries |-> entries]
Rest(paths) == SubSeq(paths, 2, Len(paths))
Names(entries) == {entries[k].name : k \in 1 .. Len(entries)}
EntryOf(entries, name) ==
    entries[CHOOSE k \in 1 .. Len(entries) : entries[k].name = name]

\* The bytes of a range, or the gap that is to be read next.
Need(indexed, range) ==
    IF FirstMissing(indexed, range) = None
    THEN IF Bytes(indexed, range) = None THEN Refused("runtime")
         ELSE Found(Bytes(indexed, range))
    ELSE [error |-> "more", value |-> FirstMissing(indexed, range)]

FetchEntry(file, indexed, index, path) ==
    LET entry == index[path]
        header == Need(indexed, HostRange(entry.header, HeaderBytes))
        range == DataRange(file, entry, header.value)
    IN  IF path \notin DOMAIN index THEN Refused("parse")
        ELSE IF header.error # "ok" THEN header
        ELSE IF range.error # "ok" THEN range
        ELSE Need(indexed, range.value)

\* The entry is there, or the fetch stops with the error or the missing range.
Taken(state, path, got) ==
    IF got.error # "ok" THEN [state EXCEPT !.error = got.error, !.value = got.value]
    ELSE [state EXCEPT
             !.fetch = NewFetch(Rest(@.wanted),
                                Append(@.entries, [name |-> path, bytes |-> got.value]))]

\* The next wanted path: skipped when its entry is there (skip_loaded).
FetchNext(file, indexed, index, state, path) ==
    IF state.error # "ok" THEN state
    ELSE IF path \in Names(state.fetch.entries)
    THEN [state EXCEPT !.fetch = NewFetch(Rest(@.wanted), @.entries)]
    ELSE Taken(state, path, FetchEntry(file, indexed, index, path))

\* advance_entry_fetch: "ok" once every wanted entry is there, "more" with
\* the next range to read, or the error that ends the operation.
AdvanceFetch(file, indexed, index, fetch) ==
    FoldLeft(LAMBDA state, path : FetchNext(file, indexed, index, state, path),
             [error |-> "ok", value |-> None, fetch |-> fetch], fetch.wanted)

----------------------------------------------------------------------------
\* workbook_relationships_path, and the base of a relationship's targets.
RelationshipsPath(path) == Front(path) \o <<"_rels", Last(path)>>
BaseOf(path) == SubSeq(path, 1, Len(path) - 2)

\* A mutant of Descriptors: the sheets take the relationships in their order.
DescriptorsInOrder(sheets, relationships, base) ==
    LET worksheets == SelectSeq(relationships,
                                LAMBDA r : r.kind = "worksheet" /\ ~r.external)
    IN  IF Len(sheets) # Len(worksheets) THEN Refused("parse")
        ELSE Found([k \in 1 .. Len(sheets) |->
                       [id |-> k - 1, name |-> sheets[k].name,
                        visibility |-> sheets[k].visibility,
                        path |-> ResolveTarget(base, worksheets[k].target).value]])

\* parse_workbook_descriptors: every sheet element in its order, under the worksheet
\* relationship it names; the last relationship of an id counts.
Descriptors(sheets, relationships, base) ==
    LET worksheets == {k \in 1 .. Len(relationships) :
                          relationships[k].kind = "worksheet" /\ ~relationships[k].external}
        resolved(k) == ResolveTarget(base, relationships[k].target)
        failed == {k \in worksheets : resolved(k).error # "ok"}
        targets(id) == {k \in worksheets : relationships[k].id = id}
        wrong == {k \in 1 .. Len(sheets) : k > MaxSheets \/ sheets[k].relationship = None}
    IN  IF wrong # {} /\ Min(wrong) > MaxSheets THEN Refused("limit")
        ELSE IF wrong # {} THEN Refused("parse")
        ELSE IF sheets = <<>> THEN Refused("unsupported")
        ELSE IF failed # {} THEN resolved(Min(failed))
        ELSE IF \E k \in 1 .. Len(sheets) : targets(sheets[k].relationship) = {} THEN Refused("parse")
        ELSE Found([k \in 1 .. Len(sheets) |->
                 [id |-> k - 1, name |-> sheets[k].name, visibility |-> sheets[k].visibility,
                  path |-> resolved(Max(targets(sheets[k].relationship))).value]])

\* beginOpenTable: the entries a worksheet needs, in path order.  A target no
\* entry has is among them (PathsListed), and fails when it is fetched.
RequiredPaths(file, index, path) ==
    LET required == {Types, Workbook, RelationshipsPath(Workbook), path}
                    \cup (Optional \cap DOMAIN index)
    IN  Keep(file.paths, required)

\* build_compact_xlsx: the entries fetched, and an empty worksheet in the
\* place of every other sheet.
CompactPackage(entries, sheets, selected) ==
    LET others == Keep(sheets, {sheet \in Range(sheets) : sheet.path # selected})
        empty == [k \in 1 .. PlaceholderBytes |-> Zero]
    IN  entries \o [k \in 1 .. Len(others) |-> [name |-> others[k].path, bytes |-> empty]]

=============================================================================
