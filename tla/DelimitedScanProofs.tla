------------------------- MODULE DelimitedScanProofs -------------------------
(***************************************************************************)
(* The delimited-text engine is exact, for all options, any way of cutting *)
(* the scan and the reads into chunks, and every source of which csv_core  *)
(* drops no byte order mark that a record begins with.                     *)
(*                                                                         *)
(* The argument is a simulation of the reference parser, From(src, b, n):  *)
(* a csv_core reader started at offset b, after the bytes up to n.         *)
(*   - A byte moves the scanner, when nothing fails, as it moves the       *)
(*     parser (Sim, ByteSimulated); a checkpoint is an offset where a      *)
(*     record of the parser ends (Boundary, Indexed), and a chunk is a run *)
(*     of such bytes (ScannerProcesses, ScannerFeeds).                     *)
(*   - A parser started at a boundary finds what is left of the records    *)
(*     of the one before it (Continues, Resumes): a reader between records *)
(*     and a fresh one differ in nothing a byte can tell (Alike).          *)
(*   - A byte moves the decoder as it moves the parser started at its      *)
(*     checkpoint (Decodes, ByteDecoded, DecoderFeeds), so that the rows   *)
(*     it has are those of the whole source (Answers, AnswersAll).         *)
(*   - A reader drops a mark only when its first slice begins with one, so *)
(*     that none is dropped where no text and no record begins with one    *)
(*     (NoneDropped, PlainBegins, PlainBoundary).                          *)
(* The folds of the code become runs, step by step, with FoldTheorems.     *)
(***************************************************************************)
EXTENDS DelimitedScan, FoldTheorems

\* The values of the scanner, of a decoder and of what they hold.
Readers == {"StartRecord", "CRLF", "StartField", "InField", "InQuotedField", "InDoubleEscapedQuote"}
Trackers == [state : {"StartField", "Quoted", "Unquoted", "AfterQuote"}, opening : Int]
Codes == {OK, "PARSE_FAILED", "RESOURCE_LIMIT"}
Names == Seq(Int)
Kinds == {"malformed-quote", "invalid-utf8", "ragged-row"}
Told == [kind : Kinds, row : Int, offset : Int]
Marks == [row : Nat, offset : Nat]

Scanners ==
    [reader : Readers, hasRead : BOOLEAN, lexical : Trackers, bomPrefix : Nat, bomResolved : BOOLEAN,
     received : Nat, parserOffset : Nat, recordStart : Nat,
     field : Names, recordFields : Nat, headerNames : Seq(Names), headerPending : BOOLEAN,
     rows : Nat, columns : Seq(Names), version : Nat,
     checkpoints : Seq(Marks), diagnostics : Seq(Told), finished : BOOLEAN, error : Codes]

Rows(q) == [1 .. q.columnCount -> Seq(Names)]

Decoders(q) ==
    [active : {TRUE}, request : {q}, width : Nat, version : Nat,
     reader : Readers, hasRead : BOOLEAN, lexical : Trackers, expected : Nat,
     field : Names, fieldIndex : Nat, row : Nat,
     selected : Rows(q), rows : Seq(Rows(q)), batchBytes : Nat,
     diagnostics : Seq(Told), done : BOOLEAN, error : Codes]

-----------------------------------------------------------------------------
\* Every transition of csv_core leads to one of its states.
LEMMA TransitionType ==
  ASSUME NEW r \in Readers, NEW b
  PROVE  /\ Transition(r, b).to \in Readers
         /\ Transition(r, b).copy \in BOOLEAN
         /\ Transition(r, b).ends \in {"none", "field", "record"}
  BY DEF Transition, Readers, EndsField, Goes, Delim, Quote, CR, LF

\* After a CR the reader reads on as at the start of a record.
LEMMA AfterTerminator ==
  ASSUME NEW b
  PROVE  Transition("CRLF", b) = Transition("StartRecord", b)
  BY DEF Transition, EndsField, Goes, Delim, Quote, CR, LF

\* What a byte leads the tracker to, and whether it is a problem.
Tracked(t, b, o) ==
    LET ends == b \in {Delim, CR, LF}
    IN  IF t.state = "StartField" /\ b = Quote THEN [state |-> "Quoted", opening |-> o]
        ELSE IF t.state \in {"StartField", "Unquoted"} /\ b # Quote
        THEN [t EXCEPT !.state = IF ends THEN "StartField" ELSE "Unquoted"]
        ELSE IF t.state = "Unquoted" THEN t
        ELSE IF t.state = "Quoted" THEN [t EXCEPT !.state = IF b = Quote THEN "AfterQuote" ELSE "Quoted"]
        ELSE IF b = Quote THEN [t EXCEPT !.state = "Quoted"]
        ELSE IF ends THEN NewTracker
        ELSE [state |-> "Unquoted", opening |-> -1]

\* The tracker with the problems of a chunk.
Tracks == [lex : Trackers, issues : Seq(Int)]

\* The quote tracker and csv_core agree after a byte when they agreed before it.
LEMMA TrackedInStep ==
  ASSUME NEW t \in Trackers, NEW r \in Readers, NEW b, NEW o \in Int
  PROVE  /\ Tracked(t, b, o) \in Trackers
         /\ Agree(t, r) => Agree(Tracked(t, b, o), Transition(r, b).to)
  <1> USE DEF Tracked, Trackers, NewTracker, Delim, Quote, CR, LF
  <1>1. Tracked(t, b, o) \in Trackers OBVIOUS
  <1>2. ASSUME Agree(t, r) PROVE Agree(Tracked(t, b, o), Transition(r, b).to)
    <2> USE DEF Transition, Readers, EndsField, Goes, Agree
    <2>1. CASE t.state = "StartField" BY <1>2, <2>1
    <2>2. CASE t.state = "Unquoted" BY <1>2, <2>2
    <2>3. CASE t.state = "Quoted" BY <1>2, <2>3
    <2>4. CASE t.state = "AfterQuote" BY <1>2, <2>4
    <2>5. QED BY <2>1, <2>2, <2>3, <2>4
  <1>3. QED BY <1>1, <1>2

\* TrackQuote moves the tracker as Tracked says and reports at most one offset.
LEMMA TrackQuoteIs ==
  ASSUME NEW t \in Tracks, NEW o \in Int
  PROVE  /\ TrackQuote(t, o).lex = Tracked(t.lex, Byte(o), o)
         /\ TrackQuote(t, o).issues \in {t.issues, Append(t.issues, o)}
         /\ TrackQuote(t, o) \in Tracks
  <1> DEFINE b == Byte(o)
             l == t.lex
  <1>1. l \in Trackers /\ t.issues \in Seq(Int) /\ Append(t.issues, o) \in Seq(Int) BY DEF Tracks
  <1>2. t = [lex |-> l, issues |-> t.issues] BY DEF Tracks
  <1> HIDE DEF b
  <1>3. /\ TrackQuote(t, o).lex = Tracked(l, b, o)
        /\ TrackQuote(t, o).issues \in {t.issues, Append(t.issues, o)}
        /\ TrackQuote(t, o) = [lex |-> TrackQuote(t, o).lex, issues |-> TrackQuote(t, o).issues]
    <2> USE DEF TrackQuote, Tracked, Trackers, Tracks, NewTracker, Delim, Quote, CR, LF
    <2>1. CASE l.state = "StartField" BY <1>1, <2>1 DEF b
    <2>2. CASE l.state = "Unquoted" BY <1>1, <2>2 DEF b
    <2>3. CASE l.state = "Quoted" BY <1>1, <2>3 DEF b
    <2>4. CASE l.state = "AfterQuote" BY <1>1, <2>4 DEF b
    <2>5. QED BY <1>1, <2>1, <2>2, <2>3, <2>4
  <1>4. Tracked(l, b, o) \in Trackers BY <1>1, TrackedInStep DEF Readers
  <1>5. QED BY <1>1, <1>3, <1>4 DEF Tracks, b

-----------------------------------------------------------------------------
(* A run over consecutive offsets, as a function of where it ends.          *)

\* The offsets of a chunk, extended by one more byte.
LEMMA OffsetsFrom ==
  ASSUME NEW from \in Nat, NEW to \in Nat, from <= to
  PROVE  /\ Offsets(from, to) \in Seq(Int) /\ Offsets(from, from) = <<>>
         /\ Offsets(from, to + 1) = Append(Offsets(from, to), to)
         /\ Len(Offsets(from, to)) = to - from
  <1>1. to - from \in Nat OBVIOUS
  <1>2. /\ Offsets(from, to) \in Seq(Int) /\ Len(Offsets(from, to)) = to - from
        /\ Offsets(from, to) = [i \in 1 .. to - from |-> from + i - 1]
    BY <1>1 DEF Offsets
  <1>3. Offsets(from, from) = <<>> BY DEF Offsets
  <1>4. Offsets(from, to + 1) = Append(Offsets(from, to), to)
    <2>1. Offsets(from, to + 1) = [i \in 1 .. to + 1 - from |-> from + i - 1] BY DEF Offsets
    <2> DEFINE s == Offsets(from, to)
    <2>2. Append(s, to) = [i \in 1 .. Len(s) + 1 |-> IF i <= Len(s) THEN s[i] ELSE to]
      BY <1>2
    <2>3. \A i \in 1 .. to + 1 - from : from + i - 1 = IF i <= Len(s) THEN s[i] ELSE to
      BY <1>1, <1>2
    <2>4. Len(s) + 1 = to + 1 - from BY <1>1, <1>2
    <2>5. [i \in 1 .. to + 1 - from |-> from + i - 1]
            = [i \in 1 .. Len(s) + 1 |-> IF i <= Len(s) THEN s[i] ELSE to]
      BY <2>3, <2>4
    <2>6. QED BY <2>1, <2>2, <2>5 DEF s
  <1>5. QED BY <1>2, <1>3, <1>4

Stage(h, base, from, n) == Run(h, base, Offsets(from, n))

\* A run over a chunk, one offset at a time.
LEMMA Stages ==
  ASSUME NEW V, NEW base, NEW h, Stepwise(h, Int, V, base), NEW from \in Nat
  PROVE  /\ Stage(h, base, from, from) = base
         /\ \A n \in Nat : n >= from =>
              /\ Stage(h, base, from, n) \in V
              /\ Stage(h, base, from, n + 1) = h[<<n, Stage(h, base, from, n)>>]
  <1>1. Stage(h, base, from, from) = base
    <2>1. Offsets(from, from) = <<>> BY OffsetsFrom
    <2>2. QED BY <2>1, RunEmpty DEF Stage
  <1>2. ASSUME NEW n \in Nat, n >= from
        PROVE  /\ Stage(h, base, from, n) \in V
               /\ Stage(h, base, from, n + 1) = h[<<n, Stage(h, base, from, n)>>]
    <2>1. /\ Offsets(from, n) \in Seq(Int) /\ Offsets(from, n + 1) = Append(Offsets(from, n), n)
          /\ n \in Int
      <3>1. from <= n /\ n \in Int BY <1>2
      <3>2. /\ Offsets(from, n) \in Seq(Int)
            /\ Offsets(from, n + 1) = Append(Offsets(from, n), n)
        BY <3>1, OffsetsFrom, Zenon
      <3>3. QED BY <3>1, <3>2
    <2> DEFINE s == Offsets(from, n)
    <2> HIDE DEF s
    <2>2. s \in Seq(Int) /\ n \in Int /\ Stepwise(h, Int, V, base) BY <2>1 DEF s
    <2>3. Run(h, base, s) \in V BY <2>2, RunFollows, Zenon
    <2>4. Run(h, base, Append(s, n)) = h[<<n, Run(h, base, s)>>] BY <2>2, RunAppend
    <2>5. QED BY <2>1, <2>3, <2>4 DEF Stage, s
  <1>3. QED BY <1>1, <1>2

\* A property of the positions up to a last one.
LEMMA InductFrom ==
  ASSUME NEW from \in Nat, NEW to \in Nat, from <= to, NEW T \in SUBSET Nat, from \in T,
         \A n \in T : from <= n /\ n < to => n + 1 \in T
  PROVE  \A n \in Nat : from <= n /\ n <= to => n \in T
  <1> DEFINE U == {n \in Nat : from <= n /\ n <= to => n \in T}
  <1>1. 0 \in U OBVIOUS
  <1>2. \A n \in U : n + 1 \in U
    <2> SUFFICES ASSUME NEW n \in U, from <= n + 1, n + 1 <= to PROVE n + 1 \in T OBVIOUS
    <2>1. CASE from <= n BY <2>1
    <2>2. CASE from = n + 1 BY <2>2
    <2>3. QED BY <2>1, <2>2
  <1>3. U \in SUBSET Nat OBVIOUS
  <1> HIDE DEF U
  <1>4. U = Nat BY <1>1, <1>2, <1>3, Induct
  <1>5. QED BY <1>4 DEF U

-----------------------------------------------------------------------------
(* The text of a field.                                                     *)

\* Lossy, as a run over the field: a bad byte becomes a replacement character.
Plain == {Delim, Quote, CR, LF, Text}
Replaced(src, out, o) == out \o (IF src[o + 1] \in Plain THEN <<o>> ELSE <<-1, -1, -1>>)
LossyStep(src) == [p \in Int \X Names |-> Replaced(src, p[2], p[1])]
LossyOf(src, field) == Run(LossyStep(src), <<>>, field)

\* The step of Lossy is a step on names.
LEMMA LossySteps ==
  ASSUME NEW src
  PROVE  Stepwise(LossyStep(src), Int, Names, <<>>)
  <1>1. \A o \in Int, out \in Names : Replaced(src, out, o) \in Names
    BY DEF Replaced, Names
  <1>2. <<>> \in Names BY DEF Names
  <1>3. QED BY <1>1, <1>2 DEF Stepwise, LossyStep

\* A decoded field is a name.
LEMMA LossyType ==
  ASSUME NEW src, NEW field \in Names
  PROVE  LossyOf(src, field) \in Names
  <1>1. field \in Seq(Int) BY DEF Names
  <1>2. QED BY <1>1, LossySteps, RunFollows, Zenon DEF LossyOf

\* from_utf8_lossy of the code is that run.
LEMMA LossyIsRun ==
  ASSUME NEW field \in Names
  PROVE  Lossy(field) = LossyOf(source, field)
  <1> DEFINE n == Len(field)
             h == LossyStep(source)
             W == CHOOSE w : w = [u \in SUBSET (1..n) |->
                    IF u = {} THEN <<>> ELSE Replaced(source, w[u \ {Max(u)}], field[Max(u)])]
  <1>1. field \in Seq(Int) /\ DOMAIN field = 1..n /\ \A i \in 1..n : field[i] \in Int BY DEF Names
  <1>p. \A o : ValidUtf8(<<o>>) <=> source[o + 1] \in Plain BY DEF ValidUtf8, Byte, Plain
  <1>2. Lossy(field) = W[1..n]
    BY <1>1, <1>p DEF Lossy, FoldLeft, MapThenFoldSet, Replaced
  <1>3. Stepwise(h, Int, Names, <<>>) BY LossySteps
  <1>4. \A e \in Int, v \in Names : h[<<e, v>>] = Replaced(source, v, e) BY DEF LossyStep
  <1> HIDE DEF h
  <1>g. PICK g : Solution(g, Names, h, <<>>, field) BY <1>1, <1>3, FoldSolved
  <1>5. /\ g \in [SUBSET (1..n) -> Names] /\ g[{}] = <<>>
        /\ \A u \in SUBSET (1..n) : u # {} =>
             /\ Max(u) \in 1..n /\ u \ {Max(u)} \in SUBSET (1..n)
             /\ g[u] = h[<<field[Max(u)], g[u \ {Max(u)}]>>]
    BY <1>g, Zenon DEF Solution
  <1> HIDE DEF n
  <1>6. \A u \in SUBSET (1..n) : u # {} => g[u] = Replaced(source, g[u \ {Max(u)}], field[Max(u)])
    <2> SUFFICES ASSUME NEW u \in SUBSET (1..n), u # {}
                 PROVE  g[u] = Replaced(source, g[u \ {Max(u)}], field[Max(u)])
      OBVIOUS
    <2>1. field[Max(u)] \in Int /\ g[u \ {Max(u)}] \in Names /\ g[u] = h[<<field[Max(u)], g[u \ {Max(u)}]>>]
      BY <1>1, <1>5
    <2>2. QED BY <1>4, <2>1
  <1>7. g = [u \in SUBSET (1..n) |->
               IF u = {} THEN <<>> ELSE Replaced(source, g[u \ {Max(u)}], field[Max(u)])]
    BY <1>5, <1>6
  <1>8. W = [u \in SUBSET (1..n) |->
               IF u = {} THEN <<>> ELSE Replaced(source, W[u \ {Max(u)}], field[Max(u)])]
    BY <1>7, Zenon
  <1> HIDE DEF W
  <1>9. W[{}] = <<>> BY <1>8
  <1>10. \A u \in SUBSET (1..n) : u # {} /\ W[u \ {Max(u)}] \in Names =>
            W[u] = h[<<field[Max(u)], W[u \ {Max(u)}]>>]
    <2> SUFFICES ASSUME NEW u \in SUBSET (1..n), u # {}, W[u \ {Max(u)}] \in Names
                 PROVE  W[u] = h[<<field[Max(u)], W[u \ {Max(u)}]>>]
      OBVIOUS
    <2>1. W[u] = Replaced(source, W[u \ {Max(u)}], field[Max(u)]) BY <1>8
    <2>2. field[Max(u)] \in Int BY <1>1, <1>5
    <2>3. QED BY <1>4, <2>1, <2>2
  <1>11. W[1..n] = Run(h, <<>>, field)
    <2>1. Recurs(W, Names, h, <<>>, field) BY <1>9, <1>10 DEF Recurs, n
    <2>2. QED BY <1>1, <1>3, <2>1, FoldIsRun DEF n
  <1>12. QED BY <1>2, <1>11 DEF h, LossyOf

-----------------------------------------------------------------------------
(* The reference parser, as a run over the offsets of a source.             *)

\* The states of the reference parser.
Records == Seq(Names)
Parses == [reader : Readers, field : Names, record : Records, records : Seq(Records)]
NoParse == [reader |-> "StartRecord", field |-> <<>>, record |-> <<>>, records |-> <<>>]

\* What the end of a field, of a record and of the source do to the parse.
EndField(p) == [p EXCEPT !.record = Append(@, p.field), !.field = <<>>]
EndRecord(p) == [p EXCEPT !.records = Append(@, p.record), !.record = <<>>]
Moved(p, t, o) ==
    [p EXCEPT !.reader = t.to, !.field = IF t.copy THEN Append(@, o) ELSE @]
Parsed(p, t, o) ==
    IF t.ends = "none" THEN Moved(p, t, o)
    ELSE IF t.ends = "field" THEN EndField(Moved(p, t, o))
    ELSE EndRecord(EndField(Moved(p, t, o)))
ParseByte(src, p, o) == Parsed(p, Transition(p.reader, src[o + 1]), o)
Closed(p) ==
    IF FinalRecord(p.reader) THEN EndRecord(EndField([p EXCEPT !.reader = "StartRecord"])) ELSE p

ParseStep(src) == [e \in Int \X Parses |-> ParseByte(src, e[2], e[1])]
From(src, b, n) == Stage(ParseStep(src), NoParse, b, n)

\* What a byte leads csv_core to.
Moves == [to : Readers, copy : BOOLEAN, ends : {"none", "field", "record"}]

\* Transition yields such a move.
LEMMA TransitionMoves ==
  ASSUME NEW r \in Readers, NEW b
  PROVE  Transition(r, b) \in Moves
  <1>1. Transition(r, b) = [to |-> Transition(r, b).to, copy |-> Transition(r, b).copy,
                            ends |-> Transition(r, b).ends]
    BY DEF Transition, EndsField, Goes
  <1>2. QED BY <1>1, TransitionType, Zenon DEF Moves

\* The end of a field leaves a parse.
LEMMA EndFieldType ==
  ASSUME NEW p \in Parses
  PROVE  EndField(p) \in Parses
  <1> DEFINE r == Append(p.record, p.field)
  <1>1. p.record \in Records /\ p.field \in Names /\ <<>> \in Names BY DEF Parses, Names
  <1>2. r \in Records BY <1>1 DEF Records
  <1>3. EndField(p) = [p EXCEPT !.record = r, !.field = <<>>] BY DEF EndField
  <1> HIDE DEF r
  <1>4. QED BY <1>1, <1>2, <1>3 DEF Parses

\* The end of a record leaves a parse.
LEMMA EndRecordType ==
  ASSUME NEW p \in Parses
  PROVE  EndRecord(p) \in Parses
  <1>1. p.record \in Records /\ p.records \in Seq(Records) /\ <<>> \in Records BY DEF Parses, Records
  <1> DEFINE r == Append(p.records, p.record)
  <1>2. r \in Seq(Records) BY <1>1
  <1>3. EndRecord(p) = [p EXCEPT !.records = r, !.record = <<>>] BY DEF EndRecord
  <1> HIDE DEF r
  <1>4. QED BY <1>1, <1>2, <1>3 DEF Parses

\* A move leaves a parse.
LEMMA MovedType ==
  ASSUME NEW p \in Parses, NEW t \in Moves, NEW o \in Int
  PROVE  Moved(p, t, o) \in Parses
  <1> DEFINE f == IF t.copy THEN Append(p.field, o) ELSE p.field
  <1>1. p.field \in Names /\ f \in Names BY DEF Parses, Names
  <1>2. t.to \in Readers BY DEF Moves
  <1>3. Moved(p, t, o) = [p EXCEPT !.reader = t.to, !.field = f] BY DEF Moved
  <1> HIDE DEF f
  <1>4. QED BY <1>1, <1>2, <1>3 DEF Parses

\* A byte leaves a parse.
LEMMA ParseByteType ==
  ASSUME NEW src, NEW p \in Parses, NEW o \in Int
  PROVE  ParseByte(src, p, o) \in Parses
  <1> DEFINE t == Transition(p.reader, src[o + 1])
             m == Moved(p, t, o)
  <1>1. p.reader \in Readers BY DEF Parses
  <1>2. t \in Moves BY <1>1, TransitionMoves
  <1> HIDE DEF t
  <1>3. m \in Parses BY <1>2, MovedType
  <1> HIDE DEF m
  <1>4. EndField(m) \in Parses /\ EndRecord(EndField(m)) \in Parses
    BY <1>3, EndFieldType, EndRecordType
  <1>5. QED BY <1>3, <1>4 DEF ParseByte, Parsed, t, m

\* The bytes of a source are steps of the parser.
LEMMA ParseSteps ==
  ASSUME NEW src
  PROVE  Stepwise(ParseStep(src), Int, Parses, NoParse)
  <1>1. NoParse \in Parses BY DEF NoParse, Parses, Readers, Names, Records
  <1>2. \A e \in Int \X Parses : ParseByte(src, e[2], e[1]) \in Parses BY ParseByteType
  <1>3. QED BY <1>1, <1>2 DEF Stepwise, ParseStep

\* The parser position by position.
LEMMA ParseStages ==
  ASSUME NEW src, NEW b \in Nat
  PROVE  /\ From(src, b, b) = NoParse
         /\ \A n \in Nat : n >= b => /\ From(src, b, n) \in Parses
                                     /\ From(src, b, n + 1) = ParseByte(src, From(src, b, n), n)
  <1> DEFINE h == ParseStep(src)
  <1>1. Stepwise(h, Int, Parses, NoParse) BY ParseSteps
  <1>2. \A n \in Int, p \in Parses : h[<<n, p>>] = ParseByte(src, p, n) BY DEF ParseStep
  <1> HIDE DEF h
  <1>3. /\ Stage(h, NoParse, b, b) = NoParse
        /\ \A n \in Nat : n >= b => /\ Stage(h, NoParse, b, n) \in Parses
                                    /\ Stage(h, NoParse, b, n + 1) = h[<<n, Stage(h, NoParse, b, n)>>]
    BY <1>1, Stages
  <1>4. \A n \in Nat : n \in Int OBVIOUS
  <1>5. QED BY <1>2, <1>3, <1>4, Zenon DEF From, h

\* ReferenceByte of the specification is ParseByte.
LEMMA ReferenceByteIs ==
  ASSUME NEW p \in Parses, NEW o \in Int
  PROVE  ReferenceByte(p, o) = ParseByte(source, p, o)
  <1> DEFINE t == Transition(p.reader, source[o + 1])
  <1>1. t \in Moves BY TransitionMoves DEF Parses
  <1>2. ReferenceByte(p, o) =
          [reader |-> t.to,
           field |-> IF t.ends = "none" THEN IF t.copy THEN Append(p.field, o) ELSE p.field ELSE <<>>,
           record |-> IF t.ends = "record" THEN <<>>
                      ELSE IF t.ends = "none" THEN p.record
                      ELSE Append(p.record, IF t.copy THEN Append(p.field, o) ELSE p.field),
           records |-> IF t.ends = "record"
                       THEN Append(p.records, IF t.ends = "none" THEN p.record
                                    ELSE Append(p.record, IF t.copy THEN Append(p.field, o) ELSE p.field))
                       ELSE p.records]
    BY DEF ReferenceByte, Byte
  <1> HIDE DEF t
  <1> DEFINE f == IF t.copy THEN Append(p.field, o) ELSE p.field
  <1>3. p = [reader |-> p.reader, field |-> p.field, record |-> p.record, records |-> p.records]
    BY DEF Parses
  <1>4. CASE t.ends = "none"
    <2>1. Parsed(p, t, o) = [reader |-> t.to, field |-> f, record |-> p.record, records |-> p.records]
      BY <1>3, <1>4 DEF Parsed, Moved
    <2>2. QED BY <1>2, <1>4, <2>1 DEF ParseByte, t
  <1>5. CASE t.ends = "field"
    <2>1. Parsed(p, t, o) = [reader |-> t.to, field |-> <<>>, record |-> Append(p.record, f), records |-> p.records]
      BY <1>3, <1>5 DEF Parsed, Moved, EndField
    <2>2. QED BY <1>2, <1>5, <2>1 DEF ParseByte, t
  <1>6. CASE t.ends = "record"
    <2>1. Parsed(p, t, o) = [reader |-> t.to, field |-> <<>>, record |-> <<>>,
                             records |-> Append(p.records, Append(p.record, f))]
      BY <1>3, <1>6 DEF Parsed, Moved, EndField, EndRecord
    <2>2. QED BY <1>2, <1>6, <2>1 DEF ParseByte, t
  <1>7. QED BY <1>1, <1>4, <1>5, <1>6 DEF Moves

\* ReferenceParse is the parse that is run.
LEMMA ReferenceParseIs ==
  ASSUME NEW from \in Nat, NEW to \in Nat, from <= to
  PROVE  ReferenceParse(from, to) = From(source, from, to)
  <1> DEFINE s == Offsets(from, to)
             n == Len(s)
             h == ParseStep(source)
             W == CHOOSE w : w = [u \in SUBSET (1..n) |->
                    IF u = {} THEN NoParse ELSE ReferenceByte(w[u \ {Max(u)}], s[Max(u)])]
  <1>s. s \in Seq(Int) BY OffsetsFrom
  <1> HIDE DEF s
  <1>1. DOMAIN s = 1..n /\ \A i \in 1..n : s[i] \in Int BY <1>s
  <1>2. ReferenceParse(from, to) = W[1..n]
    BY <1>1 DEF ReferenceParse, FoldLeft, MapThenFoldSet, NoParse, s
  <1>3. Stepwise(h, Int, Parses, NoParse) BY ParseSteps
  <1>4. \A e \in Int, v \in Parses : h[<<e, v>>] = ReferenceByte(v, e) BY ReferenceByteIs DEF ParseStep
  <1> HIDE DEF h
  <1>g. PICK g : Solution(g, Parses, h, NoParse, s) BY <1>s, <1>3, FoldSolved
  <1>5. /\ g \in [SUBSET (1..n) -> Parses] /\ g[{}] = NoParse
        /\ \A u \in SUBSET (1..n) : u # {} =>
             /\ Max(u) \in 1..n /\ u \ {Max(u)} \in SUBSET (1..n)
             /\ g[u] = h[<<s[Max(u)], g[u \ {Max(u)}]>>]
    BY <1>g, Zenon DEF Solution
  <1> HIDE DEF n
  <1>6. \A u \in SUBSET (1..n) : u # {} => g[u] = ReferenceByte(g[u \ {Max(u)}], s[Max(u)])
    <2> SUFFICES ASSUME NEW u \in SUBSET (1..n), u # {}
                 PROVE  g[u] = ReferenceByte(g[u \ {Max(u)}], s[Max(u)])
      OBVIOUS
    <2>1. s[Max(u)] \in Int /\ g[u \ {Max(u)}] \in Parses /\ g[u] = h[<<s[Max(u)], g[u \ {Max(u)}]>>]
      BY <1>1, <1>5
    <2>2. QED BY <1>4, <2>1
  <1>7. g = [u \in SUBSET (1..n) |->
               IF u = {} THEN NoParse ELSE ReferenceByte(g[u \ {Max(u)}], s[Max(u)])]
    BY <1>5, <1>6
  <1>8. W = [u \in SUBSET (1..n) |->
               IF u = {} THEN NoParse ELSE ReferenceByte(W[u \ {Max(u)}], s[Max(u)])]
    BY <1>7, Zenon
  <1> HIDE DEF W
  <1>9. W[{}] = NoParse BY <1>8
  <1>10. \A u \in SUBSET (1..n) : u # {} /\ W[u \ {Max(u)}] \in Parses =>
            W[u] = h[<<s[Max(u)], W[u \ {Max(u)}]>>]
    <2> SUFFICES ASSUME NEW u \in SUBSET (1..n), u # {}, W[u \ {Max(u)}] \in Parses
                 PROVE  W[u] = h[<<s[Max(u)], W[u \ {Max(u)}]>>]
      OBVIOUS
    <2>1. W[u] = ReferenceByte(W[u \ {Max(u)}], s[Max(u)]) BY <1>8
    <2>2. s[Max(u)] \in Int BY <1>1, <1>5
    <2>3. QED BY <1>4, <2>1, <2>2
  <1>11. Recurs(W, Parses, h, NoParse, s) BY <1>9, <1>10 DEF Recurs, n
  <1>12. W[1..n] = Run(h, NoParse, s) BY <1>s, <1>3, <1>11, FoldIsRun DEF n
  <1>13. QED BY <1>2, <1>12 DEF From, Stage, h, s

\* ReferenceRecords are the records of a parse that is run to the end and closed.
LEMMA ReferenceIsRun ==
  ASSUME source \in Seq(Bytes), NEW from \in Nat, from <= Len(source)
  PROVE  ReferenceRecords(from) = Closed(From(source, from, Len(source))).records
  <1> DEFINE p == From(source, from, Len(source))
  <1>1. Len(source) \in Nat OBVIOUS
  <1>2. ReferenceParse(from, Len(source)) = p BY <1>1, ReferenceParseIs
  <1>3. p \in Parses BY <1>1, ParseStages
  <1> HIDE DEF p
  <1>4. ReferenceRecords(from) =
          IF FinalRecord(p.reader) THEN Append(p.records, Append(p.record, p.field)) ELSE p.records
    BY <1>2 DEF ReferenceRecords
  <1>5. Closed(p).records =
          IF FinalRecord(p.reader) THEN Append(p.records, Append(p.record, p.field)) ELSE p.records
    BY <1>3 DEF Closed, EndField, EndRecord, Parses
  <1>6. QED BY <1>4, <1>5 DEF p

-----------------------------------------------------------------------------
(* A parser started where a record ends goes on as the first one would.     *)

\* Two readers nothing tells apart: equal, or both between records.
Breaks == {"StartRecord", "CRLF"}
Alike(a, b) == a = b \/ (a \in Breaks /\ b \in Breaks)

\* Alike readers move alike.
LEMMA AlikeMoves ==
  ASSUME NEW a, NEW b, Alike(a, b)
  PROVE  /\ \A x : Transition(a, x) = Transition(b, x)
         /\ FinalRecord(a) <=> FinalRecord(b)
  <1>1. CASE a = b BY <1>1
  <1>2. CASE a \in Breaks /\ b \in Breaks
    BY <1>2, AfterTerminator DEF Breaks, FinalRecord
  <1>3. QED BY <1>1, <1>2 DEF Alike

\* p is q with the records k before its own.
Continues(p, q, k) ==
    /\ p \in Parses /\ q \in Parses /\ k \in Seq(Records)
    /\ Alike(p.reader, q.reader) /\ p.field = q.field /\ p.record = q.record
    /\ p.records = k \o q.records

\* A record is appended after both lists.
LEMMA AppendConcat ==
  ASSUME NEW k \in Seq(Records), NEW s \in Seq(Records), NEW e \in Records
  PROVE  Append(k \o s, e) = k \o Append(s, e)
  OBVIOUS

\* The end of a field keeps that.
LEMMA ContinuesField ==
  ASSUME NEW p, NEW q, NEW k, Continues(p, q, k)
  PROVE  Continues(EndField(p), EndField(q), k)
  <1>1. EndField(p) \in Parses /\ EndField(q) \in Parses BY EndFieldType DEF Continues
  <1>2. QED BY <1>1 DEF Continues, EndField, Parses

\* The end of a record keeps that.
LEMMA ContinuesRecord ==
  ASSUME NEW p, NEW q, NEW k, Continues(p, q, k)
  PROVE  Continues(EndRecord(p), EndRecord(q), k)
  <1>1. EndRecord(p) \in Parses /\ EndRecord(q) \in Parses BY EndRecordType DEF Continues
  <1>0. q.records \in Seq(Records) /\ q.record \in Records /\ k \in Seq(Records)
    BY DEF Continues, Parses
  <1>2. Append(k \o q.records, q.record) = k \o Append(q.records, q.record)
    <2> DEFINE r == q.records
               e == q.record
    <2>1. r \in Seq(Records) /\ e \in Records BY <1>0
    <2> HIDE DEF r, e
    <2>2. Append(k \o r, e) = k \o Append(r, e) BY <1>0, <2>1, AppendConcat
    <2>3. QED BY <2>2 DEF r, e
  <1> DEFINE a == Append(p.records, p.record)
             c == Append(q.records, q.record)
  <1>3. a = k \o c BY <1>2 DEF Continues
  <1>4. EndRecord(p) = [p EXCEPT !.records = a, !.record = <<>>]
        /\ EndRecord(q) = [q EXCEPT !.records = c, !.record = <<>>]
    BY DEF EndRecord
  <1> HIDE DEF a, c
  <1>5. QED BY <1>1, <1>3, <1>4 DEF Continues, Parses

\* A byte keeps that.
LEMMA ContinuesByte ==
  ASSUME NEW src, NEW p, NEW q, NEW k, Continues(p, q, k), NEW o \in Int
  PROVE  Continues(ParseByte(src, p, o), ParseByte(src, q, o), k)
  <1> DEFINE t == Transition(p.reader, src[o + 1])
             a == Moved(p, t, o)
             c == Moved(q, t, o)
  <1>0. p \in Parses /\ q \in Parses /\ Alike(p.reader, q.reader) BY DEF Continues
  <1>1. Transition(q.reader, src[o + 1]) = t BY <1>0, AlikeMoves
  <1>2. p.reader \in Readers BY <1>0 DEF Parses
  <1>3. t \in Moves BY <1>2, TransitionMoves
  <1> HIDE DEF t
  <1>4. a \in Parses /\ c \in Parses BY <1>0, <1>3, MovedType
  <1>5. a.reader = c.reader BY <1>0 DEF Moved, Parses
  <1>6. Continues(a, c, k) BY <1>4, <1>5 DEF Continues, Moved, Alike, Parses
  <1> HIDE DEF a, c
  <1>7. Continues(EndField(a), EndField(c), k) BY <1>6, ContinuesField
  <1>8. Continues(EndRecord(EndField(a)), EndRecord(EndField(c)), k) BY <1>7, ContinuesRecord
  <1>9. ParseByte(src, p, o) = Parsed(p, t, o) /\ ParseByte(src, q, o) = Parsed(q, t, o)
    BY <1>1 DEF ParseByte, t
  <1>10. QED BY <1>6, <1>7, <1>8, <1>9 DEF Parsed, a, c

\* The end of the source keeps that.
LEMMA ContinuesClosed ==
  ASSUME NEW p, NEW q, NEW k, Continues(p, q, k)
  PROVE  Continues(Closed(p), Closed(q), k)
  <1> DEFINE a == [p EXCEPT !.reader = "StartRecord"]
             c == [q EXCEPT !.reader = "StartRecord"]
  <1>1. FinalRecord(p.reader) <=> FinalRecord(q.reader) BY AlikeMoves DEF Continues
  <1>2. Continues(a, c, k)
    BY DEF Continues, Parses, Alike, Readers
  <1> HIDE DEF a, c
  <1>3. Continues(EndRecord(EndField(a)), EndRecord(EndField(c)), k)
    BY <1>2, ContinuesField, ContinuesRecord
  <1>4. QED BY <1>1, <1>3 DEF Closed, a, c

\* One list of records goes on where another ends.
Extends(r, s) == Len(s) <= Len(r) /\ \A i \in 1..Len(s) : r[i] = s[i]

\* A record more still extends.
LEMMA ExtendsAppend ==
  ASSUME NEW E, NEW r \in Seq(E), NEW s \in Seq(E), Extends(r, s), NEW e \in E
  PROVE  Extends(Append(r, e), s)
  <1>1. Len(r) \in Nat /\ Len(s) \in Nat OBVIOUS
  <1>2. Len(Append(r, e)) = Len(r) + 1 /\ \A i \in 1..Len(r) : Append(r, e)[i] = r[i] OBVIOUS
  <1> DEFINE a == Append(r, e)
  <1> HIDE DEF a
  <1>3. QED BY <1>1, <1>2 DEF Extends, a

\* A byte takes no record back.
LEMMA ParseByteExtends ==
  ASSUME NEW src, NEW p \in Parses, NEW o \in Int, NEW s \in Seq(Records), Extends(p.records, s)
  PROVE  Extends(ParseByte(src, p, o).records, s)
  <1> DEFINE t == Transition(p.reader, src[o + 1])
             m == Moved(p, t, o)
             f == EndField(m)
  <1>1. p.reader \in Readers BY DEF Parses
  <1>2. t \in Moves BY <1>1, TransitionMoves
  <1> HIDE DEF t
  <1>r. m.records = p.records BY DEF Moved, Parses
  <1>3. m \in Parses /\ m.records = p.records BY <1>2, <1>r, MovedType
  <1> HIDE DEF m
  <1>f. f.records = p.records BY <1>3 DEF EndField, Parses
  <1>4. f \in Parses /\ f.records = p.records BY <1>3, <1>f, EndFieldType
  <1> HIDE DEF f
  <1>5. EndRecord(f).records = Append(p.records, f.record) BY <1>4 DEF EndRecord, Parses
  <1>6. p.records \in Seq(Records) /\ f.record \in Records BY <1>4 DEF Parses
  <1>7. Extends(EndRecord(f).records, s) BY <1>5, <1>6, ExtendsAppend
  <1>8. QED BY <1>3, <1>4, <1>7 DEF ParseByte, Parsed, t, m, f

\* The end of the source takes no record back.
LEMMA ClosedExtends ==
  ASSUME NEW p \in Parses
  PROVE  Closed(p) \in Parses /\ Extends(Closed(p).records, p.records)
  <1> DEFINE m == [p EXCEPT !.reader = "StartRecord"]
             f == EndField(m)
  <1>0. p.records \in Seq(Records) BY DEF Parses
  <1>e. Extends(p.records, p.records) BY <1>0 DEF Extends
  <1>1. m \in Parses /\ m.records = p.records BY DEF Parses, Readers
  <1> HIDE DEF m
  <1>f. f.records = p.records BY <1>1 DEF EndField, Parses
  <1>2. f \in Parses /\ f.records = p.records BY <1>1, <1>f, EndFieldType
  <1> HIDE DEF f
  <1>3. EndRecord(f).records = Append(p.records, f.record) BY <1>2 DEF EndRecord, Parses
  <1>4. f.record \in Records BY <1>2 DEF Parses
  <1>5. Extends(EndRecord(f).records, p.records) BY <1>0, <1>e, <1>3, <1>4, ExtendsAppend
  <1>6. EndRecord(f) \in Parses BY <1>2, EndRecordType
  <1>7. QED BY <1>e, <1>5, <1>6 DEF Closed, f, m

\* What has been parsed stays parsed.
LEMMA FromExtends ==
  ASSUME NEW src, NEW b \in Nat, NEW n \in Nat, NEW m \in Nat, b <= n, n <= m
  PROVE  Extends(From(src, b, m).records, From(src, b, n).records)
  <1> DEFINE s == From(src, b, n).records
             T == {i \in Nat : n <= i /\ Extends(From(src, b, i).records, s)}
  <1>1. From(src, b, n) \in Parses /\ s \in Seq(Records) BY ParseStages DEF Parses
  <1> HIDE DEF s
  <1>2. n \in T BY <1>1 DEF Extends, s
  <1>3. ASSUME NEW i \in T PROVE i + 1 \in T
    <2>1. /\ i \in Nat /\ i >= b /\ i \in Int /\ n <= i + 1 /\ i + 1 \in Nat
          /\ Extends(From(src, b, i).records, s)
      OBVIOUS
    <2>2. From(src, b, i) \in Parses /\ From(src, b, i + 1) = ParseByte(src, From(src, b, i), i)
      BY <2>1, ParseStages
    <2>3. Extends(From(src, b, i + 1).records, s) BY <1>1, <2>1, <2>2, ParseByteExtends
    <2>4. QED BY <2>1, <2>3
  <1>4. T \in SUBSET Nat OBVIOUS
  <1> HIDE DEF T
  <1>5. \A i \in Nat : n <= i /\ i <= m => i \in T BY <1>2, <1>3, <1>4, InductFrom
  <1>6. m \in T BY <1>5
  <1>7. QED BY <1>6 DEF T, s

\* k records are complete at an offset, the last of them just there, and nothing of
\* the next one is read.
Boundary(src, b, at, k) ==
    /\ at \in Nat /\ b <= at /\ at <= Len(src)
    /\ From(src, b, at).reader \in Breaks
    /\ From(src, b, at).field = <<>> /\ From(src, b, at).record = <<>>
    /\ Len(From(src, b, at).records) = k
    /\ at = b \/ (b < at /\ Len(From(src, b, at - 1).records) < k)

\* What a parse finds after a boundary is what a fresh parse from there finds.
LEMMA Resumes ==
  ASSUME NEW src, NEW b \in Nat, NEW at, NEW j, Boundary(src, b, at, j), NEW m \in Nat, at <= m
  PROVE  Continues(From(src, b, m), From(src, at, m), From(src, b, at).records)
  <1> DEFINE k == From(src, b, at).records
             T == {i \in Nat : at <= i /\ Continues(From(src, b, i), From(src, at, i), k)}
  <1>0. at \in Nat /\ b <= at BY DEF Boundary
  <1>1. From(src, b, at) \in Parses /\ k \in Seq(Records) /\ From(src, at, at) = NoParse
    BY <1>0, ParseStages DEF Parses
  <1> HIDE DEF k
  <1>2. at \in T
    <2>1. k \o <<>> = k BY <1>1
    <2>2. NoParse \in Parses BY ParseSteps DEF Stepwise
    <2>3. Continues(From(src, b, at), NoParse, k)
      BY <1>1, <2>1, <2>2 DEF Continues, Boundary, NoParse, Alike, Breaks, k
    <2>4. QED BY <1>0, <1>1, <2>3
  <1>3. ASSUME NEW i \in T PROVE i + 1 \in T
    <2>1. /\ i \in Nat /\ i >= b /\ i >= at /\ i \in Int /\ at <= i + 1 /\ i + 1 \in Nat
          /\ Continues(From(src, b, i), From(src, at, i), k)
      BY <1>0
    <2>2. /\ From(src, b, i + 1) = ParseByte(src, From(src, b, i), i)
          /\ From(src, at, i + 1) = ParseByte(src, From(src, at, i), i)
      BY <1>0, <2>1, ParseStages
    <2>3. Continues(From(src, b, i + 1), From(src, at, i + 1), k) BY <2>1, <2>2, ContinuesByte
    <2>4. QED BY <2>1, <2>3
  <1>4. T \in SUBSET Nat OBVIOUS
  <1> HIDE DEF T
  <1>5. \A i \in Nat : at <= i /\ i <= m => i \in T BY <1>0, <1>2, <1>3, <1>4, InductFrom
  <1>6. m \in T BY <1>5
  <1>7. QED BY <1>6 DEF T, k

-----------------------------------------------------------------------------
(* What the steps of the scanner keep whatever happens.                     *)

Shape(o) ==
    {s \in Scanners : /\ Len(s.field) <= o.maxFieldBytes
                      /\ Len(s.columns) <= o.maxColumns
                      /\ Len(s.diagnostics) <= o.maxDiagnostics
                      /\ s.recordStart <= s.parserOffset}

\* The same of a decoder.
Reading(o, q) ==
    {d \in Decoders(q) : /\ Len(d.field) <= o.maxFieldBytes
                         /\ Len(d.diagnostics) <= o.maxDiagnostics
                         /\ d.batchBytes <= o.maxBatchBytes}

\* At most a diagnostic or an error is new.
Talks(r, s) ==
    /\ r = [s EXCEPT !.diagnostics = r.diagnostics, !.error = r.error]
    /\ r.error = OK => s.error = OK

\* The limits are numbers.
LEMMA OptionTypes ==
  ASSUME opt \in Options
  PROVE  /\ opt.interval \in Nat /\ opt.maxFieldBytes \in Nat /\ opt.maxColumns \in Nat
         /\ opt.maxDiagnostics \in Nat /\ opt.maxBatchBytes \in Nat
         /\ opt.header \in BOOLEAN
  BY DEF Options

\* HandleDiagnostic does nothing, fails, or keeps one diagnostic within the limit.
LEMMA DiagnosticIs ==
  ASSUME opt \in Options, NEW s, s.diagnostics \in Seq(Told), Len(s.diagnostics) <= opt.maxDiagnostics,
         NEW k \in Kinds, NEW row \in Int, NEW at \in Int
  PROVE  \/ HandleDiagnostic(s, k, row, at) = s
         \/ HandleDiagnostic(s, k, row, at) = [s EXCEPT !.error = "PARSE_FAILED"]
         \/ \E ds \in Seq(Told) : /\ Len(ds) <= opt.maxDiagnostics
                                  /\ HandleDiagnostic(s, k, row, at) = [s EXCEPT !.diagnostics = ds]
  <1> DEFINE m == [kind |-> k, row |-> row, offset |-> at]
             ds == Append(s.diagnostics, m)
  <1>1. m \in Told BY DEF Told
  <1>2. HandleDiagnostic(s, k, row, at) =
          IF opt.strict THEN [s EXCEPT !.error = "PARSE_FAILED"]
          ELSE IF Len(s.diagnostics) < opt.maxDiagnostics THEN [s EXCEPT !.diagnostics = ds] ELSE s
    BY DEF HandleDiagnostic, Fail
  <1> HIDE DEF m
  <1>3. ds \in Seq(Told) /\ Len(ds) = Len(s.diagnostics) + 1 BY <1>1
  <1>4. Len(s.diagnostics) < opt.maxDiagnostics => Len(ds) <= opt.maxDiagnostics
    BY <1>3, OptionTypes
  <1> HIDE DEF ds
  <1>5. QED BY <1>2, <1>3, <1>4

\* Each of those only talks.
LEMMA TalksBy ==
  ASSUME NEW s, NEW r,
         \/ r = s
         \/ r = [s EXCEPT !.error = "PARSE_FAILED"]
         \/ \E ds : r = [s EXCEPT !.diagnostics = ds],
         s \in Scanners \/ \E q : s \in Decoders(q)
  PROVE  Talks(r, s)
  <1>1. CASE s \in Scanners BY <1>1 DEF Talks, Scanners, OK
  <1>2. ASSUME NEW q, s \in Decoders(q) PROVE Talks(r, s) BY <1>2 DEF Talks, Decoders, OK
  <1>3. QED BY <1>1, <1>2

\* A diagnostic of the scanner.
LEMMA ScannerTold ==
  ASSUME opt \in Options, NEW s \in Shape(opt), NEW k \in Kinds, NEW row \in Int, NEW at \in Int
  PROVE  /\ HandleDiagnostic(s, k, row, at) \in Shape(opt)
         /\ Talks(HandleDiagnostic(s, k, row, at), s)
  <1> DEFINE r == HandleDiagnostic(s, k, row, at)
  <1>1. s \in Scanners /\ s.diagnostics \in Seq(Told) /\ Len(s.diagnostics) <= opt.maxDiagnostics
    BY DEF Shape, Scanners
  <1>2. \/ r = s
        \/ r = [s EXCEPT !.error = "PARSE_FAILED"]
        \/ \E ds \in Seq(Told) : Len(ds) <= opt.maxDiagnostics /\ r = [s EXCEPT !.diagnostics = ds]
    BY <1>1, DiagnosticIs
  <1> HIDE DEF r
  <1>3. Talks(r, s) BY <1>1, <1>2, TalksBy
  <1>4. ASSUME r = s PROVE r \in Shape(opt) BY <1>4
  <1>5. ASSUME r = [s EXCEPT !.error = "PARSE_FAILED"] PROVE r \in Shape(opt)
    BY <1>1, <1>5 DEF Shape, Scanners, Codes
  <1>6. ASSUME NEW ds \in Seq(Told), Len(ds) <= opt.maxDiagnostics, r = [s EXCEPT !.diagnostics = ds]
        PROVE  r \in Shape(opt)
    BY <1>1, <1>6 DEF Shape, Scanners
  <1>7. QED BY <1>2, <1>3, <1>4, <1>5, <1>6 DEF r

\* A diagnostic of a decoder.
LEMMA DecoderTold ==
  ASSUME opt \in Options, NEW q, NEW s \in Reading(opt, q), NEW k \in Kinds, NEW row \in Int, NEW at \in Int
  PROVE  /\ HandleDiagnostic(s, k, row, at) \in Reading(opt, q)
         /\ Talks(HandleDiagnostic(s, k, row, at), s)
  <1> DEFINE r == HandleDiagnostic(s, k, row, at)
  <1>1. s \in Decoders(q) /\ s.diagnostics \in Seq(Told) /\ Len(s.diagnostics) <= opt.maxDiagnostics
    BY DEF Reading, Decoders
  <1>2. \/ r = s
        \/ r = [s EXCEPT !.error = "PARSE_FAILED"]
        \/ \E ds \in Seq(Told) : Len(ds) <= opt.maxDiagnostics /\ r = [s EXCEPT !.diagnostics = ds]
    BY <1>1, DiagnosticIs
  <1> HIDE DEF r
  <1>3. Talks(r, s) BY <1>1, <1>2, TalksBy
  <1>4. ASSUME r = s PROVE r \in Reading(opt, q) BY <1>4
  <1>5. ASSUME r = [s EXCEPT !.error = "PARSE_FAILED"] PROVE r \in Reading(opt, q)
    BY <1>1, <1>5 DEF Reading, Decoders, Codes
  <1>6. ASSUME NEW ds \in Seq(Told), Len(ds) <= opt.maxDiagnostics, r = [s EXCEPT !.diagnostics = ds]
        PROVE  r \in Reading(opt, q)
    BY <1>1, <1>6 DEF Reading, Decoders
  <1>7. QED BY <1>2, <1>3, <1>4, <1>5, <1>6 DEF r

\* The tracker's run over a chunk.
TrackStep == [e \in Int \X Tracks |-> TrackQuote(e[2], e[1])]
Tracking(lex) == [lex |-> lex, issues |-> <<>>]

\* The bytes of a chunk are steps of the tracker.
LEMMA TrackSteps ==
  ASSUME NEW lex \in Trackers
  PROVE  Stepwise(TrackStep, Int, Tracks, Tracking(lex))
  <1>1. Tracking(lex) \in Tracks BY DEF Tracking, Tracks
  <1>2. \A t \in Tracks, o \in Int : TrackQuote(t, o) \in Tracks BY TrackQuoteIs
  <1>3. TrackStep \in [Int \X Tracks -> Tracks] BY <1>2 DEF TrackStep
  <1>4. QED BY <1>1, <1>3 DEF Stepwise

\* ConsumeQuotes is the run of the tracker over the chunk.
LEMMA TrackingIsRun ==
  ASSUME NEW lex \in Trackers, NEW from \in Nat, NEW to \in Nat, from <= to
  PROVE  ConsumeQuotes(lex, from, to) = Stage(TrackStep, Tracking(lex), from, to)
  <1> DEFINE s == Offsets(from, to)
             n == Len(s)
             h == TrackStep
             base == Tracking(lex)
             W == CHOOSE w : w = [u \in SUBSET (1..n) |->
                    IF u = {} THEN base ELSE TrackQuote(w[u \ {Max(u)}], s[Max(u)])]
  <1>s. s \in Seq(Int) BY OffsetsFrom
  <1> HIDE DEF s
  <1>1. DOMAIN s = 1..n /\ \A i \in 1..n : s[i] \in Int BY <1>s
  <1>2. ConsumeQuotes(lex, from, to) = W[1..n]
    BY <1>1 DEF ConsumeQuotes, FoldLeft, MapThenFoldSet, Tracking, s
  <1>3. Stepwise(h, Int, Tracks, base) BY TrackSteps
  <1>4. \A e \in Int, v \in Tracks : h[<<e, v>>] = TrackQuote(v, e) BY DEF TrackStep
  <1> HIDE DEF h, base
  <1>g. PICK g : Solution(g, Tracks, h, base, s) BY <1>s, <1>3, FoldSolved
  <1>5. /\ g \in [SUBSET (1..n) -> Tracks] /\ g[{}] = base
        /\ \A u \in SUBSET (1..n) : u # {} =>
             /\ Max(u) \in 1..n /\ u \ {Max(u)} \in SUBSET (1..n)
             /\ g[u] = h[<<s[Max(u)], g[u \ {Max(u)}]>>]
    BY <1>g, Zenon DEF Solution
  <1> HIDE DEF n
  <1>6. \A u \in SUBSET (1..n) : u # {} => g[u] = TrackQuote(g[u \ {Max(u)}], s[Max(u)])
    <2> SUFFICES ASSUME NEW u \in SUBSET (1..n), u # {}
                 PROVE  g[u] = TrackQuote(g[u \ {Max(u)}], s[Max(u)])
      OBVIOUS
    <2>1. s[Max(u)] \in Int /\ g[u \ {Max(u)}] \in Tracks /\ g[u] = h[<<s[Max(u)], g[u \ {Max(u)}]>>]
      BY <1>1, <1>5
    <2>2. QED BY <1>4, <2>1
  <1>7. g = [u \in SUBSET (1..n) |->
               IF u = {} THEN base ELSE TrackQuote(g[u \ {Max(u)}], s[Max(u)])]
    BY <1>5, <1>6
  <1>8. W = [u \in SUBSET (1..n) |->
               IF u = {} THEN base ELSE TrackQuote(W[u \ {Max(u)}], s[Max(u)])]
    BY <1>7, Zenon
  <1> HIDE DEF W
  <1>9. W[{}] = base BY <1>8
  <1>10. \A u \in SUBSET (1..n) : u # {} /\ W[u \ {Max(u)}] \in Tracks =>
            W[u] = h[<<s[Max(u)], W[u \ {Max(u)}]>>]
    <2> SUFFICES ASSUME NEW u \in SUBSET (1..n), u # {}, W[u \ {Max(u)}] \in Tracks
                 PROVE  W[u] = h[<<s[Max(u)], W[u \ {Max(u)}]>>]
      OBVIOUS
    <2>1. W[u] = TrackQuote(W[u \ {Max(u)}], s[Max(u)]) BY <1>8
    <2>2. s[Max(u)] \in Int BY <1>1, <1>5
    <2>3. QED BY <1>4, <2>1, <2>2
  <1>11. Recurs(W, Tracks, h, base, s) BY <1>9, <1>10 DEF Recurs, n
  <1>12. W[1..n] = Run(h, base, s) BY <1>s, <1>3, <1>11, FoldIsRun DEF n
  <1>13. QED BY <1>2, <1>12 DEF Stage, h, base, s

\* The tracker ends a chunk in step with a parser that reads it.
LEMMA TrackerKeepsUp ==
  ASSUME NEW b \in Nat, NEW from \in Nat, NEW to \in Nat, b <= from, from <= to,
         NEW lex \in Trackers, Agree(lex, From(source, b, from).reader)
  PROVE  /\ ConsumeQuotes(lex, from, to) \in Tracks
         /\ Agree(ConsumeQuotes(lex, from, to).lex, From(source, b, to).reader)
  <1> DEFINE Z(n) == Stage(TrackStep, Tracking(lex), from, n)
             R(n) == From(source, b, n).reader
             T == {n \in Nat : from <= n /\ Agree(Z(n).lex, R(n))}
  <1>1. /\ Z(from) = Tracking(lex)
        /\ \A n \in Nat : n >= from => Z(n) \in Tracks /\ Z(n + 1) = TrackStep[<<n, Z(n)>>]
    <2>1. Stepwise(TrackStep, Int, Tracks, Tracking(lex)) BY TrackSteps
    <2> QED BY <2>1, Stages
  <1>2. \A n \in Nat : n >= from => R(n) \in Readers /\ R(n + 1) = Transition(R(n), Byte(n)).to
    <2> SUFFICES ASSUME NEW n \in Nat, n >= from
                 PROVE  R(n) \in Readers /\ R(n + 1) = Transition(R(n), Byte(n)).to
      OBVIOUS
    <2> DEFINE p == From(source, b, n)
               t == Transition(p.reader, source[n + 1])
    <2>1. n >= b OBVIOUS
    <2>2. p \in Parses /\ From(source, b, n + 1) = ParseByte(source, p, n) BY <2>1, ParseStages
    <2> HIDE DEF p
    <2>3. t \in Moves BY <2>2, TransitionMoves DEF Parses
    <2>4. ParseByte(source, p, n) = Parsed(p, t, n) BY DEF ParseByte
    <2> HIDE DEF t
    <2>5. Parsed(p, t, n).reader = t.to
      BY <2>2, <2>3 DEF Parsed, Moved, EndField, EndRecord, Parses, Moves
    <2>6. QED BY <2>2, <2>4, <2>5 DEF p, t, Parses, Byte
  <1>3. \A n \in Nat : n >= from => Z(n + 1) = TrackQuote(Z(n), n) /\ n \in Int /\ Z(n) \in Tracks
    <2>1. \A e \in Int, v \in Tracks : TrackStep[<<e, v>>] = TrackQuote(v, e) BY DEF TrackStep
    <2>2. \A n \in Nat : n \in Int OBVIOUS
    <2> HIDE DEF Z
    <2>3. QED BY <1>1, <2>1, <2>2
  <1>z. Z(from).lex = lex BY <1>1 DEF Tracking
  <1> HIDE DEF Z, R
  <1>4. from \in T BY <1>z DEF R
  <1>5. \A n \in T : from <= n /\ n < to => n + 1 \in T
    <2> SUFFICES ASSUME NEW n \in T, from <= n PROVE n + 1 \in T OBVIOUS
    <2>1. n \in Nat /\ n >= from /\ Agree(Z(n).lex, R(n)) /\ n + 1 \in Nat /\ from <= n + 1 OBVIOUS
    <2>2. Z(n + 1) = TrackQuote(Z(n), n) /\ n \in Int /\ Z(n) \in Tracks BY <1>3, <2>1
    <2>3. Z(n + 1).lex = Tracked(Z(n).lex, Byte(n), n) BY <2>2, TrackQuoteIs
    <2>4. Z(n).lex \in Trackers BY <2>2 DEF Tracks
    <2>5. R(n) \in Readers /\ R(n + 1) = Transition(R(n), Byte(n)).to BY <1>2, <2>1
    <2>6. Agree(Tracked(Z(n).lex, Byte(n), n), Transition(R(n), Byte(n)).to)
      BY <2>1, <2>2, <2>4, <2>5, TrackedInStep
    <2>7. QED BY <2>1, <2>3, <2>5, <2>6
  <1>6. T \in SUBSET Nat OBVIOUS
  <1> HIDE DEF T
  <1>i. \A n \in Nat : from <= n /\ n <= to => n \in T BY <1>4, <1>5, <1>6, InductFrom
  <1>7. to \in T BY <1>i
  <1>8. Agree(Z(to).lex, R(to)) BY <1>7 DEF T
  <1>9. ConsumeQuotes(lex, from, to) = Z(to) BY TrackingIsRun DEF Z
  <1>10. to >= from OBVIOUS
  <1>11. Z(to) \in Tracks BY <1>3, <1>10
  <1>12. QED BY <1>8, <1>9, <1>11 DEF R

\* The diagnostics of a chunk leave a state in every set that one leaves it in.
QuoteTold(z, row, o) == Then(z, LAMBDA y : HandleDiagnostic(y, "malformed-quote", row, o))

\* A set that every quote diagnostic stays in is one the whole chunk stays in.
LEMMA QuotesStayIn ==
  ASSUME NEW V, NEW s, NEW row, NEW from, NEW to,
         ConsumeQuotes(s.lexical, from, to).issues \in Seq(Int),
         [s EXCEPT !.lexical = ConsumeQuotes(s.lexical, from, to).lex] \in V,
         \A z \in V, o \in Int : QuoteTold(z, row, o) \in V
  PROVE  QuoteDiagnostics(s, row, from, to) \in V
  <1> DEFINE t == ConsumeQuotes(s.lexical, from, to)
             is == t.issues
             base == [s EXCEPT !.lexical = t.lex]
             n == Len(is)
             h == [e \in Int \X V |-> QuoteTold(e[2], row, e[1])]
             W == CHOOSE w : w = [u \in SUBSET (1..n) |->
                    IF u = {} THEN base ELSE QuoteTold(w[u \ {Max(u)}], row, is[Max(u)])]
  <1>s. is \in Seq(Int) OBVIOUS
  <1>2. DOMAIN is = 1..n BY <1>s
  <1>1. QuoteDiagnostics(s, row, from, to) = W[1..n]
    BY <1>2 DEF QuoteDiagnostics, FoldLeft, MapThenFoldSet, QuoteTold
  <1>b. base \in V OBVIOUS
  <1>3. Stepwise(h, Int, V, base) BY DEF Stepwise
  <1>4. \A e \in Int, v \in V : h[<<e, v>>] = QuoteTold(v, row, e) OBVIOUS
  <1>i. \A i \in 1..n : is[i] \in Int BY <1>s
  <1> HIDE DEF h, base, is, t
  <1>g. PICK g : Solution(g, V, h, base, is) BY <1>s, <1>3, FoldSolved
  <1>5. /\ g \in [SUBSET (1..n) -> V] /\ g[{}] = base
        /\ \A u \in SUBSET (1..n) : u # {} =>
             /\ Max(u) \in 1..n /\ u \ {Max(u)} \in SUBSET (1..n)
             /\ g[u] = h[<<is[Max(u)], g[u \ {Max(u)}]>>]
    BY <1>g, Zenon DEF Solution
  <1> HIDE DEF n
  <1>6. \A u \in SUBSET (1..n) : u # {} => g[u] = QuoteTold(g[u \ {Max(u)}], row, is[Max(u)])
    <2> SUFFICES ASSUME NEW u \in SUBSET (1..n), u # {}
                 PROVE  g[u] = QuoteTold(g[u \ {Max(u)}], row, is[Max(u)])
      OBVIOUS
    <2>1. is[Max(u)] \in Int /\ g[u \ {Max(u)}] \in V /\ g[u] = h[<<is[Max(u)], g[u \ {Max(u)}]>>]
      BY <1>i, <1>5
    <2>2. QED BY <1>4, <2>1
  <1>7. g = [u \in SUBSET (1..n) |->
               IF u = {} THEN base ELSE QuoteTold(g[u \ {Max(u)}], row, is[Max(u)])]
    BY <1>5, <1>6
  <1>8. W = [u \in SUBSET (1..n) |->
               IF u = {} THEN base ELSE QuoteTold(W[u \ {Max(u)}], row, is[Max(u)])]
    BY <1>7, Zenon
  <1> HIDE DEF W
  <1>9. W[{}] = base BY <1>8
  <1>10. \A u \in SUBSET (1..n) : u # {} /\ W[u \ {Max(u)}] \in V =>
            W[u] = h[<<is[Max(u)], W[u \ {Max(u)}]>>]
    <2> SUFFICES ASSUME NEW u \in SUBSET (1..n), u # {}, W[u \ {Max(u)}] \in V
                 PROVE  W[u] = h[<<is[Max(u)], W[u \ {Max(u)}]>>]
      OBVIOUS
    <2>1. W[u] = QuoteTold(W[u \ {Max(u)}], row, is[Max(u)]) BY <1>8
    <2>2. is[Max(u)] \in Int BY <1>i, <1>5
    <2>3. QED BY <1>4, <2>1, <2>2
  <1>11. Recurs(W, V, h, base, is) BY <1>9, <1>10 DEF Recurs, n
  <1>12. W[1..n] = Run(h, base, is) BY <1>s, <1>3, <1>11, FoldIsRun DEF n
  <1>13. Run(h, base, is) \in V BY <1>s, <1>3, RunFollows, Zenon
  <1>14. QED BY <1>1, <1>12, <1>13

\* The quote diagnostics of a chunk, in the scanner.
LEMMA ScannerQuotes ==
  ASSUME opt \in Options, NEW s \in Shape(opt), NEW row \in Int, NEW from, NEW to,
         ConsumeQuotes(s.lexical, from, to) \in Tracks
  PROVE  /\ QuoteDiagnostics(s, row, from, to) \in Shape(opt)
         /\ Talks(QuoteDiagnostics(s, row, from, to),
                  [s EXCEPT !.lexical = ConsumeQuotes(s.lexical, from, to).lex])
  <1> DEFINE t == ConsumeQuotes(s.lexical, from, to)
             a == [s EXCEPT !.lexical = t.lex]
             V == {z \in Shape(opt) : Talks(z, a)}
  <1>1. t.lex \in Trackers /\ t.issues \in Seq(Int) BY DEF Tracks
  <1> HIDE DEF t
  <1>2. a \in Shape(opt) BY <1>1 DEF Shape, Scanners
  <1>3. Talks(a, a) BY <1>2 DEF Talks, Shape, Scanners
  <1>s. a \in Scanners BY <1>2 DEF Shape
  <1> HIDE DEF a
  <1>4. \A z \in V, o \in Int : QuoteTold(z, row, o) \in V
    <2> SUFFICES ASSUME NEW z \in V, NEW o \in Int, z.error = OK
                 PROVE  HandleDiagnostic(z, "malformed-quote", row, o) \in V
      BY DEF QuoteTold, Then
    <2> DEFINE r == HandleDiagnostic(z, "malformed-quote", row, o)
    <2>1. "malformed-quote" \in Kinds /\ z \in Shape(opt) /\ Talks(z, a) BY DEF Kinds
    <2>2. r \in Shape(opt) /\ Talks(r, z) BY <2>1, ScannerTold
    <2> HIDE DEF r, V
    <2>3. Talks(r, a) BY <1>s, <2>1, <2>2 DEF Talks, Scanners
    <2>4. QED BY <2>2, <2>3 DEF r, V
  <1>5. a \in V BY <1>2, <1>3
  <1> HIDE DEF V
  <1>6. QuoteDiagnostics(s, row, from, to) \in V BY <1>1, <1>4, <1>5, QuotesStayIn, Zenon DEF a, t
  <1>7. QED BY <1>6 DEF V, a, t

\* The quote diagnostics of a chunk, in a decoder.
LEMMA DecoderQuotes ==
  ASSUME opt \in Options, NEW q, NEW s \in Reading(opt, q), NEW row \in Int, NEW from, NEW to,
         ConsumeQuotes(s.lexical, from, to) \in Tracks
  PROVE  /\ QuoteDiagnostics(s, row, from, to) \in Reading(opt, q)
         /\ Talks(QuoteDiagnostics(s, row, from, to),
                  [s EXCEPT !.lexical = ConsumeQuotes(s.lexical, from, to).lex])
  <1> DEFINE t == ConsumeQuotes(s.lexical, from, to)
             a == [s EXCEPT !.lexical = t.lex]
             V == {z \in Reading(opt, q) : Talks(z, a)}
  <1>1. t.lex \in Trackers /\ t.issues \in Seq(Int) BY DEF Tracks
  <1> HIDE DEF t
  <1>2. a \in Reading(opt, q) BY <1>1 DEF Reading, Decoders
  <1>3. Talks(a, a) BY <1>2 DEF Talks, Reading, Decoders
  <1>s. a \in Decoders(q) BY <1>2 DEF Reading
  <1> HIDE DEF a
  <1>4. \A z \in V, o \in Int : QuoteTold(z, row, o) \in V
    <2> SUFFICES ASSUME NEW z \in V, NEW o \in Int, z.error = OK
                 PROVE  HandleDiagnostic(z, "malformed-quote", row, o) \in V
      BY DEF QuoteTold, Then
    <2> DEFINE r == HandleDiagnostic(z, "malformed-quote", row, o)
    <2>1. "malformed-quote" \in Kinds /\ z \in Reading(opt, q) /\ Talks(z, a) BY DEF Kinds
    <2>2. r \in Reading(opt, q) /\ Talks(r, z) BY <2>1, DecoderTold
    <2> HIDE DEF r, V
    <2>3. Talks(r, a) BY <1>s, <2>1, <2>2 DEF Talks, Decoders
    <2>4. QED BY <2>2, <2>3 DEF r, V
  <1>5. a \in V BY <1>2, <1>3
  <1> HIDE DEF V
  <1>6. QuoteDiagnostics(s, row, from, to) \in V BY <1>1, <1>4, <1>5, QuotesStayIn, Zenon DEF a, t
  <1>7. QED BY <1>6 DEF V, a, t

-----------------------------------------------------------------------------
(* The scanner's steps: what each leaves, and what it changes when nothing  *)
(* fails.                                                                   *)

\* What a limit leaves.
Refused(s) == [s EXCEPT !.error = "RESOURCE_LIMIT"]

\* What no step of the parser moves.
Stays(r, s) == r.parserOffset = s.parserOffset /\ r.received = s.received

\* A limit that is reached leaves the scanner within its limits.
LEMMA ScannerRefused ==
  ASSUME NEW o, NEW s \in Shape(o)
  PROVE  Refused(s) \in Shape(o) /\ Stays(Refused(s), s) /\ Refused(s).error # OK
  BY DEF Refused, Shape, Scanners, Codes, Stays, OK

\* A diagnostic moves no offset.
LEMMA TalksStays ==
  ASSUME NEW s \in Scanners, NEW r, Talks(r, s)
  PROVE  Stays(r, s)
  BY DEF Talks, Stays, Scanners

\* A byte is copied to the field, within max_field_bytes.
LEMMA ScannerCopies ==
  ASSUME opt \in Options, NEW s \in Shape(opt), NEW o \in Int
  PROVE  /\ AppendField(s, o) \in Shape(opt) /\ Stays(AppendField(s, o), s)
         /\ AppendField(s, o).error = OK => AppendField(s, o) = [s EXCEPT !.field = Append(s.field, o)]
  <1>1. AppendField(s, o) = IF Len(s.field) + 1 > opt.maxFieldBytes THEN Refused(s)
                            ELSE [s EXCEPT !.field = Append(s.field, o)]
    BY DEF AppendField, Fail, Refused
  <1> DEFINE f == Append(s.field, o)
             r == [s EXCEPT !.field = f]
  <1>2. s \in Scanners /\ s.field \in Seq(Int) BY DEF Shape, Scanners, Names
  <1>3. f \in Names /\ Len(f) = Len(s.field) + 1 BY <1>2 DEF Names
  <1>4. ASSUME ~(Len(s.field) + 1 > opt.maxFieldBytes)
        PROVE  r \in Shape(opt) /\ Stays(r, s)
    <2>1. Len(f) <= opt.maxFieldBytes BY <1>2, <1>3, <1>4, OptionTypes
    <2> HIDE DEF f
    <2>2. QED BY <1>2, <1>3, <2>1 DEF Shape, Scanners, Stays
  <1> HIDE DEF r, f
  <1>5. QED BY <1>1, <1>4, ScannerRefused DEF r, f

\* More columns, of which the old ones are kept and the new ones named.
Widened(cs, ds, count, names) ==
    /\ cs \in Seq(Names)
    /\ Len(cs) = IF count <= Len(ds) THEN Len(ds) ELSE count
    /\ \A i \in 1..Len(ds) : cs[i] = ds[i]
    /\ \A i \in 1..Len(names) : Len(ds) < i /\ i <= count => cs[i] = names[i]

\* EnsureColumns widens the schema, within max_columns.
LEMMA ScannerWidens ==
  ASSUME opt \in Options, NEW s \in Shape(opt), NEW count \in Nat, NEW names \in Seq(Names)
  PROVE  LET r == EnsureColumns(s, count, names)
         IN  /\ r \in Shape(opt) /\ Stays(r, s)
             /\ r.error = OK =>
                  /\ r = [s EXCEPT !.columns = r.columns, !.version = r.version]
                  /\ Widened(r.columns, s.columns, count, names)
  <1> DEFINE ds == s.columns
             more == [i \in 1..count - Len(ds) |->
                        IF Len(ds) + i \in DOMAIN names THEN names[Len(ds) + i] ELSE <<>>]
             cs == ds \o more
             v == s.version + 1
             r == EnsureColumns(s, count, names)
  <1>1. r = IF count > opt.maxColumns THEN Refused(s)
            ELSE IF count <= Len(ds) THEN s
            ELSE [s EXCEPT !.columns = cs, !.version = v]
    BY DEF EnsureColumns, Fail, Refused
  <1>2. s \in Scanners /\ ds \in Seq(Names) /\ s.version \in Nat BY DEF Shape, Scanners
  <1> HIDE DEF r
  <1>3. CASE count > opt.maxColumns BY <1>1, <1>3, ScannerRefused DEF r
  <1>4. CASE ~(count > opt.maxColumns) /\ count <= Len(ds)
    <2>1. r = s BY <1>1, <1>4
    <2>2. s = [s EXCEPT !.columns = s.columns, !.version = s.version] BY <1>2 DEF Scanners
    <2>3. Widened(ds, ds, count, names) BY <1>2, <1>4 DEF Widened
    <2>4. QED BY <2>1, <2>2, <2>3 DEF Stays, r
  <1>5. CASE ~(count > opt.maxColumns) /\ ~(count <= Len(ds))
    <2>0. Len(ds) \in Nat /\ count - Len(ds) \in Nat /\ <<>> \in Names BY <1>2, <1>5 DEF Names
    <2>1. more \in Seq(Names) /\ Len(more) = count - Len(ds) BY <1>2, <1>5, <2>0
    <2>2. \A i \in 1..Len(more) : Len(ds) + i \in 1..Len(names) => more[i] = names[Len(ds) + i]
      BY <2>0, <2>1
    <2> HIDE DEF more
    <2>3. /\ cs \in Seq(Names) /\ Len(cs) = count
          /\ \A i \in 1..Len(ds) : cs[i] = ds[i]
          /\ \A i \in 1..Len(more) : cs[Len(ds) + i] = more[i]
      BY <1>2, <2>0, <2>1
    <2> HIDE DEF cs
    <2>4. ASSUME NEW i \in 1..Len(names), Len(ds) < i, i <= count PROVE cs[i] = names[i]
      <3>1. i - Len(ds) \in 1..Len(more) /\ Len(ds) + (i - Len(ds)) = i BY <2>0, <2>1, <2>4
      <3>2. QED BY <2>2, <2>3, <3>1
    <2>5. Widened(cs, ds, count, names) BY <1>5, <2>3, <2>4 DEF Widened
    <2>6. r = [s EXCEPT !.columns = cs, !.version = v] BY <1>1, <1>5
    <2>7. v \in Nat /\ Len(cs) <= opt.maxColumns BY <1>2, <1>5, <2>3, OptionTypes
    <2> HIDE DEF v, ds
    <2>8. r \in Shape(opt) /\ Stays(r, s) /\ r.columns = cs /\ r.version = v
      BY <1>2, <2>3, <2>6, <2>7 DEF Shape, Scanners, Stays
    <2>9. QED BY <2>5, <2>6, <2>8 DEF r, ds
  <1>6. QED BY <1>3, <1>4, <1>5

\* A field of the scanner: one field more, and a name while the header is read.
ScannerField(r, s) ==
    r = [s EXCEPT !.diagnostics = r.diagnostics, !.recordFields = s.recordFields + 1,
                  !.headerNames = IF s.headerPending THEN Append(s.headerNames, Lossy(s.field))
                                  ELSE s.headerNames,
                  !.field = <<>>]

\* FinishField counts the field and takes its text.
LEMMA ScannerEndsField ==
  ASSUME opt \in Options, NEW s \in Shape(opt), s.error = OK
  PROVE  /\ FinishField(s) \in Shape(opt) /\ Stays(FinishField(s), s)
         /\ FinishField(s).error = OK => ScannerField(FinishField(s), s)
  <1> DEFINE n == s.recordFields + 1
             s1 == [s EXCEPT !.recordFields = n]
             row == IF s.headerPending THEN -1 ELSE s.rows
             d == IF ValidUtf8(s.field) THEN s1
                  ELSE HandleDiagnostic(s1, "invalid-utf8", row, s.recordStart)
             hn(z) == IF z.headerPending THEN Append(z.headerNames, Lossy(z.field)) ELSE z.headerNames
             x == [d EXCEPT !.headerNames = hn(d), !.field = <<>>]
             r == FinishField(s)
  <1>0. s \in Scanners BY DEF Shape
  <1>1. /\ n \in Nat /\ s1 \in Shape(opt) /\ Stays(s1, s) /\ s1.error = OK
        /\ s1.field = s.field /\ s1.recordStart = s.recordStart /\ s1.headerPending = s.headerPending
        /\ s1.headerNames = s.headerNames /\ s1.recordFields = n
    <2>1. n \in Nat BY <1>0 DEF Scanners
    <2> HIDE DEF n
    <2>2. s1 \in Scanners BY <1>0, <2>1 DEF Scanners
    <2>3. QED BY <1>0, <2>1, <2>2 DEF Shape, Scanners, Stays
  <1> HIDE DEF s1
  <1>2. row \in Int /\ s.recordStart \in Int BY <1>0 DEF Scanners
  <1>3. d \in Shape(opt) /\ Talks(d, s1)
    <2>1. Talks(s1, s1) BY <1>1 DEF Talks, Shape, Scanners
    <2>2. "invalid-utf8" \in Kinds BY DEF Kinds
    <2>3. QED BY <1>1, <1>2, <2>1, <2>2, ScannerTold
  <1>4. r = IF n > opt.maxColumns THEN Refused(s1) ELSE IF d.error = OK THEN x ELSE d
    BY <1>1 DEF FinishField, Fail, Refused, Then, s1
  <1> HIDE DEF r, d, row
  <1>5. CASE n > opt.maxColumns
    <2>1. r = Refused(s1) BY <1>4, <1>5
    <2>2. QED BY <1>1, <2>1, ScannerRefused DEF Stays, r
  <1>6. CASE ~(n > opt.maxColumns) /\ d.error # OK
    <2>1. r = d BY <1>4, <1>6
    <2>2. Stays(d, s1) BY <1>1, <1>3, TalksStays DEF Shape
    <2>3. QED BY <1>1, <1>3, <1>6, <2>1, <2>2 DEF Stays, r
  <1>7. CASE ~(n > opt.maxColumns) /\ d.error = OK
    <2>1. r = x BY <1>4, <1>7
    <2>2. d = [s1 EXCEPT !.diagnostics = d.diagnostics] BY <1>1, <1>3, <1>7 DEF Talks, Shape, Scanners
    <2>3. d.headerPending = s.headerPending /\ d.headerNames = s.headerNames /\ d.field = s.field
      BY <1>1, <2>2 DEF Shape, Scanners
    <2>4. hn(d) = hn(s) BY <2>3
    <2>5. Lossy(s.field) \in Names BY <1>0, LossyIsRun, LossyType DEF Scanners
    <2>6. hn(s) \in Seq(Names) BY <1>0, <2>5 DEF Scanners
    <2>7. x = [d EXCEPT !.headerNames = hn(s), !.field = <<>>] BY <2>4
    <2> DEFINE m == hn(s)
    <2> HIDE DEF m, hn, x
    <2>8. m \in Seq(Names) /\ x = [d EXCEPT !.headerNames = m, !.field = <<>>] BY <2>6, <2>7 DEF m
    <2>9. <<>> \in Names /\ Len(<<>>) = 0 /\ opt.maxFieldBytes \in Nat BY OptionTypes DEF Names
    <2>10. x \in Shape(opt) /\ Stays(x, s) /\ x.diagnostics = d.diagnostics
      <3>1. d \in Scanners /\ Stays(d, s1) BY <1>1, <1>3, TalksStays DEF Shape
      <3>2. x \in Scanners BY <2>8, <2>9, <3>1 DEF Scanners
      <3>3. x.field = <<>> /\ x.columns = d.columns /\ x.diagnostics = d.diagnostics /\ Stays(x, d)
            /\ x.recordStart = d.recordStart
        BY <2>8, <3>1 DEF Scanners, Stays
      <3>4. QED BY <1>1, <1>3, <2>9, <3>1, <3>2, <3>3 DEF Shape, Stays
    <2>11. x = [s EXCEPT !.diagnostics = x.diagnostics, !.recordFields = n,
                         !.headerNames = m, !.field = <<>>]
      BY <1>0, <2>2, <2>8, <2>10 DEF Scanners, s1
    <2>12. ScannerField(x, s) BY <2>11 DEF ScannerField, m, hn, n
    <2>13. QED BY <2>1, <2>10, <2>12 DEF r
  <1>8. QED BY <1>5, <1>6, <1>7

\* The header record names the columns it needs.
HeaderEnds(r, s) ==
    /\ r = [s EXCEPT !.headerNames = <<>>, !.columns = r.columns, !.version = r.version,
                     !.headerPending = FALSE]
    /\ Widened(r.columns, s.columns, s.recordFields, s.headerNames)

\* A data row is indexed, counted and may widen the schema.
Marked(s, interval) ==
    IF s.rows % interval = 0 THEN Append(s.checkpoints, [row |-> s.rows, offset |-> s.recordStart])
    ELSE s.checkpoints

RowEnds(r, s) ==
    /\ r = [s EXCEPT !.checkpoints = Marked(s, opt.interval), !.diagnostics = r.diagnostics,
                     !.columns = r.columns, !.version = r.version, !.rows = s.rows + 1]
    /\ Widened(r.columns, s.columns, s.recordFields, <<>>)

\* The header record.
LEMMA ScannerEndsHeader ==
  ASSUME opt \in Options, NEW s \in Shape(opt), s.error = OK
  PROVE  /\ HeaderRecord(s) \in Shape(opt) /\ Stays(HeaderRecord(s), s)
         /\ HeaderRecord(s).error = OK => HeaderEnds(HeaderRecord(s), s)
  <1> DEFINE none == <<>>
             s0 == [s EXCEPT !.headerNames = none]
             e == EnsureColumns(s0, s.recordFields, s.headerNames)
             x == [e EXCEPT !.headerPending = FALSE]
             r == HeaderRecord(s)
  <1>0. s \in Scanners BY DEF Shape
  <1>1. /\ s0 \in Shape(opt) /\ Stays(s0, s) /\ s0.error = OK /\ s0.columns = s.columns
        /\ s.recordFields \in Nat /\ s.headerNames \in Seq(Names)
    <2>0. none \in Seq(Names) OBVIOUS
    <2> HIDE DEF none
    <2>1. /\ s0 \in Scanners /\ s0.columns = s.columns /\ s0.field = s.field
          /\ s0.diagnostics = s.diagnostics /\ s0.recordStart = s.recordStart
          /\ s0.error = s.error /\ Stays(s0, s)
          /\ s.recordFields \in Nat /\ s.headerNames \in Seq(Names)
      BY <1>0, <2>0 DEF Scanners, Stays
    <2> HIDE DEF s0
    <2>2. QED BY <2>1 DEF Shape, Stays
  <1>2. r = IF e.error = OK THEN x ELSE e BY DEF HeaderRecord, Then
  <1> HIDE DEF s0
  <1>3. /\ e \in Shape(opt) /\ Stays(e, s0)
        /\ e.error = OK => /\ e = [s0 EXCEPT !.columns = e.columns, !.version = e.version]
                           /\ Widened(e.columns, s.columns, s.recordFields, s.headerNames)
    BY <1>1, ScannerWidens
  <1> HIDE DEF e, r
  <1>4. CASE e.error # OK
    <2>1. r = e BY <1>2, <1>4
    <2>2. QED BY <1>1, <1>3, <1>4, <2>1 DEF Stays, r
  <1>5. CASE e.error = OK
    <2>1. r = x BY <1>2, <1>5
    <2>2. e \in Scanners BY <1>3 DEF Shape
    <2>3. x \in Scanners /\ x.columns = e.columns /\ x.version = e.version /\ Stays(x, e)
          /\ x.field = e.field /\ x.diagnostics = e.diagnostics /\ x.recordStart = e.recordStart
      BY <2>2 DEF Scanners, Stays
    <2>4. x \in Shape(opt) BY <1>3, <2>3 DEF Shape, Stays
    <2>5. x = [s EXCEPT !.headerNames = <<>>, !.columns = e.columns, !.version = e.version,
                        !.headerPending = FALSE]
      BY <1>0, <1>3, <1>5 DEF s0, Scanners
    <2> HIDE DEF x
    <2>6. HeaderEnds(x, s) BY <1>3, <1>5, <2>3, <2>5 DEF HeaderEnds
    <2>7. Stays(x, s) BY <1>1, <1>3, <2>3 DEF Stays
    <2>8. QED BY <2>1, <2>4, <2>6, <2>7 DEF r
  <1>6. QED BY <1>4, <1>5

\* A data row.
LEMMA ScannerEndsRow ==
  ASSUME opt \in Options, ValidOptions(opt), NEW s \in Shape(opt), s.error = OK
  PROVE  /\ DataRecord(s) \in Shape(opt) /\ Stays(DataRecord(s), s)
         /\ DataRecord(s).error = OK => RowEnds(DataRecord(s), s)
  <1> DEFINE m == Marked(s, opt.interval)
             s1 == [s EXCEPT !.checkpoints = m]
             ragged == s.columns # <<>> /\ s.recordFields # Len(s.columns)
             d == IF ragged THEN HandleDiagnostic(s1, "ragged-row", s1.rows, s1.recordStart) ELSE s1
             e == EnsureColumns(d, s.recordFields, <<>>)
             n == e.rows + 1
             x == [e EXCEPT !.rows = n]
             r == DataRecord(s)
  <1>0. s \in Scanners BY DEF Shape
  <1>i. /\ s.rows \in Nat /\ s.recordStart \in Nat /\ s.checkpoints \in Seq(Marks)
        /\ s.recordFields \in Nat
    BY <1>0 DEF Scanners
  <1>m. m \in Seq(Marks)
    <2> DEFINE k == [row |-> s.rows, offset |-> s.recordStart]
    <2>1. k \in Marks BY <1>i DEF Marks
    <2> HIDE DEF k
    <2>2. m \in {Append(s.checkpoints, k), s.checkpoints} BY DEF Marked, k
    <2>3. Append(s.checkpoints, k) \in Seq(Marks) BY <1>i, <2>1
    <2> HIDE DEF m
    <2>4. QED BY <1>i, <2>2, <2>3
  <1>x. IndexRow(s) = s1
    <2>1. s = [s EXCEPT !.checkpoints = s.checkpoints] BY <1>0 DEF Scanners
    <2>2. CASE s.rows % opt.interval = 0 BY <2>2 DEF IndexRow, Marked
    <2>3. CASE s.rows % opt.interval # 0 BY <2>1, <2>3 DEF IndexRow, Marked
    <2>4. QED BY <2>2, <2>3
  <1> HIDE DEF m
  <1>1. /\ s1 \in Shape(opt) /\ Stays(s1, s) /\ s1.error = OK
        /\ s1.columns = s.columns /\ s1.rows \in Int /\ s1.recordStart \in Int
    <2>1. /\ s1 \in Scanners /\ s1.columns = s.columns /\ s1.field = s.field
          /\ s1.diagnostics = s.diagnostics /\ s1.recordStart = s.recordStart
          /\ s1.error = s.error /\ s1.rows = s.rows /\ Stays(s1, s)
      BY <1>0, <1>m DEF Scanners, Stays
    <2> HIDE DEF s1
    <2>2. QED BY <1>i, <2>1 DEF Shape, Stays
  <1> HIDE DEF s1
  <1>2. r = IF d.error # OK THEN d ELSE IF e.error # OK THEN e ELSE x
    BY <1>x, <1>1 DEF DataRecord, Then
  <1>3. d \in Shape(opt) /\ Talks(d, s1)
    <2>1. Talks(s1, s1) BY <1>1 DEF Talks, Shape, Scanners
    <2>2. "ragged-row" \in Kinds BY DEF Kinds
    <2>3. QED BY <1>1, <2>1, <2>2, ScannerTold
  <1>d. Stays(d, s) BY <1>1, <1>3, TalksStays DEF Shape, Stays
  <1> HIDE DEF d
  <1>e. <<>> \in Seq(Names) OBVIOUS
  <1>4. /\ e \in Shape(opt) /\ Stays(e, d)
        /\ e.error = OK => /\ e = [d EXCEPT !.columns = e.columns, !.version = e.version]
                           /\ Widened(e.columns, d.columns, s.recordFields, <<>>)
    BY <1>e, <1>i, <1>3, ScannerWidens
  <1> HIDE DEF e, r
  <1>5. CASE d.error # OK
    <2>1. r = d BY <1>2, <1>5
    <2>2. QED BY <1>3, <1>d, <1>5, <2>1 DEF r
  <1>6. CASE d.error = OK /\ e.error # OK
    <2>1. r = e BY <1>2, <1>6
    <2>2. QED BY <1>d, <1>4, <1>6, <2>1 DEF Stays, r
  <1>7. CASE d.error = OK /\ e.error = OK
    <2>1. r = x BY <1>2, <1>7
    <2>2. e \in Scanners BY <1>4 DEF Shape
    <2>3. n \in Nat BY <2>2 DEF Scanners
    <2>4. d = [s1 EXCEPT !.diagnostics = d.diagnostics] BY <1>1, <1>3, <1>7 DEF Talks, Shape, Scanners
    <2>5. d = [s EXCEPT !.checkpoints = m, !.diagnostics = d.diagnostics] BY <1>0, <2>4 DEF s1, Scanners
    <2>6. e = [s EXCEPT !.checkpoints = m, !.diagnostics = d.diagnostics,
                        !.columns = e.columns, !.version = e.version]
      BY <1>0, <1>4, <1>7, <2>5 DEF Scanners
    <2>7. n = s.rows + 1 /\ d.columns = s.columns BY <1>0, <2>5, <2>6 DEF Scanners
    <2> HIDE DEF n
    <2>8. /\ x \in Scanners /\ x.columns = e.columns /\ x.version = e.version /\ Stays(x, e)
          /\ x.field = e.field /\ x.diagnostics = e.diagnostics /\ x.recordStart = e.recordStart
      BY <2>2, <2>3 DEF Scanners, Stays
    <2>9. x \in Shape(opt) BY <1>4, <2>8 DEF Shape, Stays
    <2>10. x = [s EXCEPT !.checkpoints = m, !.diagnostics = d.diagnostics,
                         !.columns = e.columns, !.version = e.version, !.rows = n]
      BY <1>0, <2>6 DEF Scanners
    <2>11. x.diagnostics = d.diagnostics BY <1>0, <2>10 DEF Scanners
    <2> HIDE DEF x
    <2>12. RowEnds(x, s) BY <1>4, <1>7, <2>7, <2>8, <2>10, <2>11 DEF RowEnds, m
    <2>13. Stays(x, s) BY <1>d, <1>4, <2>8 DEF Stays
    <2>14. QED BY <2>1, <2>9, <2>12, <2>13 DEF r
  <1>8. QED BY <1>5, <1>6, <1>7

\* A record of the scanner, and the start of the next one.
Reset(z, at) == [z EXCEPT !.recordFields = 0, !.recordStart = at]
ScannerRecord(r, s) ==
    \E z \in Shape(opt) :
        /\ Stays(z, s)
        /\ IF s.headerPending THEN HeaderEnds(z, s) ELSE RowEnds(z, s)
        /\ r = Reset(z, s.parserOffset)

\* FinishRecord, whichever record it is, and the start of the next one.
LEMMA ScannerEndsRecord ==
  ASSUME opt \in Options, ValidOptions(opt), NEW s \in Shape(opt), s.error = OK
  PROVE  /\ FinishRecord(s) \in Shape(opt) /\ Stays(FinishRecord(s), s)
         /\ FinishRecord(s).error = OK => ScannerRecord(FinishRecord(s), s)
  <1> DEFINE z == IF s.headerPending THEN HeaderRecord(s) ELSE DataRecord(s)
             at == z.parserOffset
             x == [z EXCEPT !.recordFields = 0, !.recordStart = at]
             r == FinishRecord(s)
  <1>1. r = IF z.error = OK THEN x ELSE z BY DEF FinishRecord, Then
  <1>2. /\ z \in Shape(opt) /\ Stays(z, s)
        /\ z.error = OK => IF s.headerPending THEN HeaderEnds(z, s) ELSE RowEnds(z, s)
    <2>1. CASE s.headerPending BY <2>1, ScannerEndsHeader
    <2>2. CASE ~s.headerPending BY <2>2, ScannerEndsRow
    <2>3. QED BY <2>1, <2>2
  <1> HIDE DEF z, r
  <1>3. CASE z.error # OK
    <2>1. r = z BY <1>1, <1>3
    <2>2. QED BY <1>2, <1>3, <2>1 DEF r
  <1>4. CASE z.error = OK
    <2>1. r = x BY <1>1, <1>4
    <2>2. z \in Scanners BY <1>2 DEF Shape
    <2>3. at \in Nat /\ at = s.parserOffset BY <1>2, <2>2 DEF Scanners, Stays
    <2>4. at = z.parserOffset OBVIOUS
    <2> HIDE DEF at
    <2>5. x \in Scanners /\ x.columns = z.columns /\ Stays(x, z) /\ x.recordStart = at
          /\ x.field = z.field /\ x.diagnostics = z.diagnostics
      BY <2>2, <2>3 DEF Scanners, Stays
    <2>7. x = Reset(z, s.parserOffset) BY <2>3 DEF Reset
    <2> HIDE DEF x
    <2>6. x \in Shape(opt) BY <1>2, <2>3, <2>4, <2>5 DEF Shape, Stays
    <2>8. ScannerRecord(x, s) BY <1>2, <1>4, <2>7 DEF ScannerRecord
    <2>9. Stays(x, s) BY <1>2, <2>5 DEF Stays
    <2>10. QED BY <2>1, <2>6, <2>8, <2>9 DEF r
  <1>5. QED BY <1>3, <1>4

-----------------------------------------------------------------------------
(* Multiples of the interval.                                               *)

\* Division with remainder.
LEMMA Quotient ==
  ASSUME NEW n \in Nat, NEW k \in Nat \ {0}
  PROVE  /\ n \div k \in Nat /\ n % k \in Nat /\ n % k < k
         /\ n = (n \div k) * k + (n % k)
  OBVIOUS

\* Quotient and remainder are unique.
LEMMA QuotientIs ==
  ASSUME NEW n \in Nat, NEW k \in Nat \ {0}, NEW q \in Nat, NEW r \in Nat, r < k, n = q * k + r
  PROVE  n \div k = q
  <1>1. /\ n \div k \in Nat /\ n % k \in Nat /\ n % k < k
        /\ n = (n \div k) * k + (n % k)
    BY Quotient
  <1> DEFINE a == n \div k
             c == n % k
  <1> HIDE DEF a, c
  <1>2. a \in Nat /\ c \in Nat /\ c < k /\ q * k + r = a * k + c BY <1>1 DEF a, c
  <1>3. CASE a < q
    <2>1. a + 1 <= q BY <1>2, <1>3
    <2>2. (a + 1) * k <= q * k BY <1>2, <2>1
    <2>3. (a + 1) * k = a * k + k BY <1>2
    <2>4. q * k \in Nat /\ a * k \in Nat BY <1>2
    <2>5. QED BY <1>2, <2>2, <2>3, <2>4
  <1>4. CASE q < a
    <2>1. q + 1 <= a BY <1>2, <1>4
    <2>2. (q + 1) * k <= a * k BY <1>2, <2>1
    <2>3. (q + 1) * k = q * k + k BY <1>2
    <2>4. q * k \in Nat /\ a * k \in Nat BY <1>2
    <2>5. QED BY <1>2, <2>2, <2>3, <2>4
  <1>5. QED BY <1>2, <1>3, <1>4 DEF a

\* How many multiples of k are below n: one more when n is one.
LEMMA Multiples ==
  ASSUME NEW n \in Nat, NEW k \in Nat \ {0}
  PROVE  /\ (n + k - 1) \div k \in Nat
         /\ n = 0 => (n + k - 1) \div k = 0
         /\ n > 0 => (n + k - 1) \div k > 0
         /\ n % k = 0 => /\ ((n + 1) + k - 1) \div k = (n + k - 1) \div k + 1
                         /\ n = ((n + k - 1) \div k) * k
         /\ n % k # 0 => ((n + 1) + k - 1) \div k = (n + k - 1) \div k
  <1> DEFINE a == n \div k
             c == n % k
  <1>1. /\ a \in Nat /\ c \in Nat /\ c < k /\ n = a * k + c BY Quotient
  <1> HIDE DEF a, c
  <1>2. a * k \in Nat /\ (a + 1) * k = a * k + k /\ n + k - 1 \in Nat /\ (n + 1) + k - 1 \in Nat BY <1>1
  <1>3. ((n + 1) + k - 1) \div k = a + 1
    <2>1. (n + 1) + k - 1 = (a + 1) * k + c BY <1>1, <1>2
    <2>2. a + 1 \in Nat BY <1>1
    <2>3. QED BY <1>1, <1>2, <2>1, <2>2, QuotientIs
  <1>4. CASE c = 0
    <2>1. n + k - 1 = a * k + (k - 1) /\ k - 1 \in Nat /\ k - 1 < k BY <1>1, <1>2, <1>4
    <2>2. (n + k - 1) \div k = a BY <1>1, <1>2, <2>1, QuotientIs
    <2>3. n = a * k BY <1>1, <1>2, <1>4
    <2>4. n = 0 => a = 0
      <3>1. a > 0 => a * k > 0 BY <1>1
      <3>2. QED BY <1>1, <2>3, <3>1
    <2>5. n > 0 => a > 0
      <3>1. a = 0 => a * k = 0 BY <1>1
      <3>2. QED BY <1>1, <2>3, <3>1
    <2>6. QED BY <1>1, <1>3, <1>4, <2>2, <2>3, <2>4, <2>5 DEF c
  <1>5. CASE c # 0
    <2>1. n + k - 1 = (a + 1) * k + (c - 1) /\ c - 1 \in Nat /\ c - 1 < k /\ a + 1 \in Nat
      BY <1>1, <1>2, <1>5
    <2>2. (n + k - 1) \div k = a + 1 BY <1>2, <2>1, QuotientIs
    <2>3. n # 0 BY <1>1, <1>2, <1>5
    <2>4. QED BY <1>1, <1>3, <1>5, <2>2, <2>3 DEF c
  <1>6. QED BY <1>4, <1>5

-----------------------------------------------------------------------------
(* The scanner reads what the reference parser reads.                       *)

\* How many records are no data rows.
Hdr(o) == IF o.header THEN 1 ELSE 0
\* The decoded fields of a record.
NamesOf(src, rec) == [i \in 1..Len(rec) |-> LossyOf(src, rec[i])]
\* No record is wider, and one is as wide.
Widest(w, rs) ==
    /\ \A i \in 1..Len(rs) : Len(rs[i]) <= w
    /\ w = 0 \/ \E i \in 1..Len(rs) : Len(rs[i]) = w
\* The columns carry the names of the header.
Titled(src, cs, rec) == \A i \in 1..Len(rec) : cs[i] = LossyOf(src, rec[i])

\* The scanner has the field, the record and the records of the parse, counted.
Sim(src, o, s, p) ==
    /\ p \in Parses
    /\ s.reader = p.reader /\ s.field = p.field /\ s.recordFields = Len(p.record)
    /\ s.headerPending => /\ o.header /\ p.records = <<>> /\ s.rows = 0
                          /\ s.headerNames = NamesOf(src, p.record)
    /\ ~s.headerPending => Len(p.records) = s.rows + Hdr(o)
    /\ Widest(Len(s.columns), p.records)
    /\ ~s.headerPending /\ o.header => Titled(src, s.columns, p.records[1])

\* A checkpoint for every interval-th row, where that row begins.
Indexed(src, o, b, s) ==
    /\ Len(s.checkpoints) = (s.rows + o.interval - 1) \div o.interval
    /\ \A i \in 1..Len(s.checkpoints) :
         /\ s.checkpoints[i].row = (i - 1) * o.interval
         /\ Boundary(src, b, s.checkpoints[i].offset, s.checkpoints[i].row + Hdr(o))

\* One more header field.
LEMMA NamesAppend ==
  ASSUME NEW src, NEW rec \in Records, NEW f \in Names
  PROVE  /\ NamesOf(src, rec) \in Seq(Names)
         /\ NamesOf(src, Append(rec, f)) = Append(NamesOf(src, rec), LossyOf(src, f))
  <1> DEFINE a == NamesOf(src, rec)
             b == NamesOf(src, Append(rec, f))
             e == LossyOf(src, f)
             n == Len(rec)
  <1>1. n \in Nat /\ rec \in Seq(Names) /\ \A i \in 1..n : rec[i] \in Names BY DEF Records
  <1>2. \A i \in 1..n : LossyOf(src, rec[i]) \in Names BY <1>1, LossyType
  <1>3. a \in Seq(Names) /\ Len(a) = n /\ \A i \in 1..n : a[i] = LossyOf(src, rec[i])
    <2>1. a = [i \in 1..n |-> LossyOf(src, rec[i])] BY DEF NamesOf
    <2>2. QED BY <1>1, <1>2, <2>1
  <1>4. /\ Len(Append(rec, f)) = n + 1 /\ Append(rec, f)[n + 1] = f
        /\ \A i \in 1..n : Append(rec, f)[i] = rec[i]
    BY <1>1
  <1>5. b = [i \in 1..n + 1 |-> LossyOf(src, Append(rec, f)[i])] BY <1>4 DEF NamesOf
  <1>6. e \in Names BY LossyType
  <1> DEFINE c == Append(a, e)
  <1>7. /\ c \in Seq(Names) /\ Len(c) = n + 1 /\ c[n + 1] = e
        /\ \A i \in 1..n : c[i] = LossyOf(src, rec[i])
    <2> HIDE DEF a, e
    <2>1. QED BY <1>3, <1>6
  <1>8. \A i \in 1..n + 1 : LossyOf(src, Append(rec, f)[i]) = c[i]
    <2> SUFFICES ASSUME NEW i \in 1..n + 1 PROVE LossyOf(src, Append(rec, f)[i]) = c[i]
      OBVIOUS
    <2> HIDE DEF c
    <2>1. CASE i = n + 1 BY <1>4, <1>7, <2>1
    <2>2. CASE i # n + 1
      <3>1. i \in 1..n BY <1>1, <2>2
      <3>2. QED BY <1>4, <1>7, <3>1
    <2>3. QED BY <2>1, <2>2
  <1>9. b = c
    <2> HIDE DEF c, b
    <2>1. \A i \in 1..n + 1 : c[i] \in Names BY <1>1, <1>7
    <2>2. b \in Seq(Names) /\ Len(b) = n + 1 /\ \A i \in 1..n + 1 : b[i] = c[i]
      BY <1>1, <1>5, <1>8, <2>1
    <2>3. QED BY <1>7, <2>2, SeqEqual
  <1>10. QED BY <1>3, <1>9

\* The end of a field keeps the scanner in step with the parse.
LEMMA FieldSimulated ==
  ASSUME NEW o, NEW s \in Shape(o), NEW p, Sim(source, o, s, p), NEW r, ScannerField(r, s)
  PROVE  Sim(source, o, r, EndField(p))
  <1> DEFINE q == EndField(p)
             hn == IF s.headerPending THEN Append(s.headerNames, Lossy(s.field)) ELSE s.headerNames
  <1>1. p \in Parses /\ p.field \in Names /\ p.record \in Records /\ q \in Parses
    BY EndFieldType DEF Sim, Parses
  <1>2. /\ q.reader = p.reader /\ q.field = <<>> /\ q.records = p.records
        /\ q.record = Append(p.record, p.field)
    BY <1>1 DEF EndField, Parses
  <1>3. Len(q.record) = Len(p.record) + 1 BY <1>1, <1>2 DEF Records
  <1>4. /\ r.reader = s.reader /\ r.field = <<>> /\ r.recordFields = s.recordFields + 1
        /\ r.headerPending = s.headerPending /\ r.rows = s.rows /\ r.columns = s.columns
        /\ r.headerNames = hn
    <2> HIDE DEF hn
    <2>1. s \in Scanners BY DEF Shape
    <2>2. r = [s EXCEPT !.diagnostics = r.diagnostics, !.recordFields = s.recordFields + 1,
                        !.headerNames = hn, !.field = <<>>]
      BY DEF ScannerField, hn
    <2>3. QED BY <2>1, <2>2 DEF Scanners
  <1>5. s.headerPending => r.headerNames = NamesOf(source, q.record)
    <2> SUFFICES ASSUME s.headerPending PROVE hn = NamesOf(source, q.record) BY <1>4
    <2>1. s.headerNames = NamesOf(source, p.record) /\ s.field = p.field BY DEF Sim
    <2>2. Lossy(p.field) = LossyOf(source, p.field) BY <1>1, LossyIsRun
    <2>3. NamesOf(source, Append(p.record, p.field))
            = Append(NamesOf(source, p.record), LossyOf(source, p.field))
      BY <1>1, NamesAppend
    <2>4. QED BY <1>2, <2>1, <2>2, <2>3
  <1> HIDE DEF hn, q
  <1>6. QED BY <1>1, <1>2, <1>3, <1>4, <1>5 DEF Sim, q

\* One more record, and the width it needs.
LEMMA WidestAppend ==
  ASSUME NEW w \in Nat, NEW rs \in Seq(Records), NEW rec \in Records, Widest(w, rs),
         NEW v, v = IF Len(rec) <= w THEN w ELSE Len(rec)
  PROVE  Widest(v, Append(rs, rec))
  <1> DEFINE t == Append(rs, rec)
             n == Len(rs)
  <1>1. /\ n \in Nat /\ Len(t) = n + 1 /\ t[n + 1] = rec /\ \A i \in 1..n : t[i] = rs[i]
        /\ Len(rec) \in Nat /\ \A i \in 1..n : Len(rs[i]) \in Nat
    BY DEF Records
  <1> HIDE DEF t, n
  <1>2. /\ \A i \in 1..n : Len(rs[i]) <= w
        /\ w = 0 \/ \E i \in 1..n : Len(rs[i]) = w
    BY DEF Widest, n
  <1>3. v \in Nat /\ w <= v /\ Len(rec) <= v BY <1>1
  <1>4. \A i \in 1..Len(t) : Len(t[i]) <= v
    <2> SUFFICES ASSUME NEW i \in 1..Len(t) PROVE Len(t[i]) <= v OBVIOUS
    <2>1. CASE i = n + 1 BY <1>1, <1>3, <2>1
    <2>2. CASE i # n + 1
      <3>1. i \in 1..n BY <1>1, <2>2
      <3>2. Len(rs[i]) \in Nat /\ Len(rs[i]) <= w /\ t[i] = rs[i] BY <1>1, <1>2, <3>1
      <3>3. QED BY <1>3, <3>2
    <2>3. QED BY <2>1, <2>2
  <1>5. v = 0 \/ \E i \in 1..Len(t) : Len(t[i]) = v
    <2>1. CASE Len(rec) <= w
      <3>1. v = w BY <2>1
      <3>2. CASE w = 0 BY <3>1, <3>2
      <3>3. ASSUME NEW i \in 1..n, Len(rs[i]) = w PROVE \E j \in 1..Len(t) : Len(t[j]) = v
        <4>1. i \in 1..Len(t) /\ t[i] = rs[i] BY <1>1, <3>3
        <4>2. QED BY <3>1, <3>3, <4>1
      <3>4. QED BY <1>2, <3>2, <3>3
    <2>2. CASE ~(Len(rec) <= w)
      <3>1. v = Len(rec) /\ n + 1 \in 1..Len(t) BY <1>1, <2>2
      <3>2. QED BY <1>1, <3>1
    <2>3. QED BY <2>1, <2>2
  <1>6. QED BY <1>4, <1>5 DEF Widest, t

\* The index grows by a checkpoint exactly at every interval-th row.
LEMMA RowIndexed ==
  ASSUME NEW src, NEW o \in Options, ValidOptions(o), NEW b, NEW s \in Shape(o), Indexed(src, o, b, s),
         Boundary(src, b, s.recordStart, s.rows + Hdr(o)),
         NEW r, r.rows = s.rows + 1, r.checkpoints = Marked(s, o.interval)
  PROVE  Indexed(src, o, b, r)
  <1> DEFINE k == o.interval
             cs == s.checkpoints
             m == [row |-> s.rows, offset |-> s.recordStart]
             n == Len(cs)
  <1>1. k \in Nat \ {0} BY DEF Options, ValidOptions
  <1>2. s.rows \in Nat /\ cs \in Seq(Marks) /\ s.recordStart \in Nat /\ n \in Nat
    BY DEF Shape, Scanners
  <1>3. m \in Marks /\ m.row = s.rows /\ m.offset = s.recordStart BY <1>2 DEF Marks
  <1>4. /\ n = (s.rows + k - 1) \div k
        /\ \A i \in 1..n : /\ cs[i].row = (i - 1) * k
                           /\ Boundary(src, b, cs[i].offset, cs[i].row + Hdr(o))
    BY DEF Indexed
  <1>5. r.checkpoints = IF s.rows % k = 0 THEN Append(cs, m) ELSE cs BY DEF Marked
  <1>6. /\ s.rows % k = 0 => /\ ((s.rows + 1) + k - 1) \div k = n + 1 /\ s.rows = n * k
        /\ s.rows % k # 0 => ((s.rows + 1) + k - 1) \div k = n
    <2> DEFINE w == s.rows
    <2>1. w \in Nat /\ k \in Nat \ {0} BY <1>1, <1>2
    <2>2. n = (w + k - 1) \div k BY <1>4
    <2> HIDE DEF w, k, n
    <2>3. /\ w % k = 0 => /\ ((w + 1) + k - 1) \div k = (w + k - 1) \div k + 1
                          /\ w = ((w + k - 1) \div k) * k
          /\ w % k # 0 => ((w + 1) + k - 1) \div k = (w + k - 1) \div k
      BY <2>1, Multiples, Zenon
    <2>4. QED BY <2>2, <2>3 DEF w
  <1> HIDE DEF k, cs, m, n
  <1>7. CASE s.rows % k = 0
    <2> DEFINE ds == Append(cs, m)
    <2>1. /\ Len(ds) = n + 1 /\ ds[n + 1] = m /\ \A i \in 1..n : ds[i] = cs[i]
      BY <1>2, <1>3 DEF n
    <2>2. r.checkpoints = ds BY <1>5, <1>7
    <2> HIDE DEF ds
    <2>3. ASSUME NEW i \in 1..n + 1
          PROVE  ds[i].row = (i - 1) * k /\ Boundary(src, b, ds[i].offset, ds[i].row + Hdr(o))
      <3>1. CASE i = n + 1
        <4>1. (n + 1) - 1 = n BY <1>2
        <4>2. QED BY <1>3, <1>6, <1>7, <2>1, <3>1, <4>1
      <3>2. CASE i # n + 1
        <4>1. i \in 1..n BY <1>2, <3>2
        <4>2. QED BY <1>4, <2>1, <4>1
      <3>3. QED BY <3>1, <3>2
    <2>4. Len(ds) = (r.rows + k - 1) \div k BY <1>6, <1>7, <2>1
    <2>5. QED BY <2>1, <2>2, <2>3, <2>4 DEF Indexed, k
  <1>8. CASE s.rows % k # 0
    <2>1. r.checkpoints = cs BY <1>5, <1>8
    <2>2. n = (r.rows + k - 1) \div k BY <1>6, <1>8
    <2>3. QED BY <1>4, <2>1, <2>2 DEF Indexed, k, n
  <1>9. QED BY <1>7, <1>8

\* The header record keeps the scanner in step with the parse.
LEMMA HeaderSimulated ==
  ASSUME NEW o \in Options, NEW s \in Shape(o), NEW p, Sim(source, o, s, p), s.headerPending,
         NEW z, HeaderEnds(z, s), NEW at
  PROVE  LET r == Reset(z, at)
         IN  /\ Sim(source, o, r, EndRecord(p)) /\ r.recordStart = at
             /\ r.rows = s.rows /\ r.checkpoints = s.checkpoints
  <1> DEFINE q == EndRecord(p)
             r == Reset(z, at)
  <1>1. /\ p \in Parses /\ q \in Parses /\ p.record \in Records /\ p.records = <<>>
        /\ o.header /\ s.rows = 0 /\ s.headerNames = NamesOf(source, p.record)
        /\ Widest(Len(s.columns), p.records) /\ s.recordFields = Len(p.record)
        /\ s.reader = p.reader /\ s.field = p.field
    BY EndRecordType DEF Sim, Parses
  <1>2. /\ q.reader = p.reader /\ q.field = p.field /\ q.record = <<>>
        /\ q.records = Append(p.records, p.record)
    BY <1>1 DEF EndRecord, Parses
  <1>3. Len(q.records) = 1 /\ q.records[1] = p.record BY <1>1, <1>2
  <1>s. s \in Scanners BY DEF Shape
  <1>4. /\ r.reader = s.reader /\ r.field = s.field /\ r.recordFields = 0 /\ r.recordStart = at
        /\ r.headerPending = FALSE /\ r.rows = s.rows /\ r.columns = z.columns
        /\ r.checkpoints = s.checkpoints
    <2>1. z = [s EXCEPT !.headerNames = <<>>, !.columns = z.columns, !.version = z.version,
                        !.headerPending = FALSE]
      BY DEF HeaderEnds
    <2>2. QED BY <1>s, <2>1 DEF Scanners, Reset
  <1>5. Widened(z.columns, s.columns, Len(p.record), NamesOf(source, p.record))
    BY <1>1 DEF HeaderEnds
  <1>6. Len(s.columns) \in Nat BY <1>s DEF Scanners
  <1>7. Widest(Len(z.columns), q.records)
    <2>1. Len(z.columns) = IF Len(p.record) <= Len(s.columns) THEN Len(s.columns) ELSE Len(p.record)
      BY <1>5 DEF Widened
    <2>2. p.records \in Seq(Records) BY <1>1 DEF Parses
    <2>3. QED BY <1>1, <1>2, <1>6, <2>1, <2>2, WidestAppend
  <1>8. Titled(source, z.columns, p.record)
    <2>1. Len(s.columns) = 0 BY <1>1 DEF Widest
    <2>2. /\ NamesOf(source, p.record) = [i \in 1..Len(p.record) |-> LossyOf(source, p.record[i])]
          /\ Len(p.record) \in Nat
      BY <1>1 DEF NamesOf, Records
    <2>3. ASSUME NEW i \in 1..Len(p.record) PROVE z.columns[i] = LossyOf(source, p.record[i])
      <3>1. Len(NamesOf(source, p.record)) = Len(p.record) BY <2>2
      <3>2. 0 < i /\ i <= Len(p.record) /\ i \in 1..Len(NamesOf(source, p.record)) BY <2>2, <3>1
      <3>3. z.columns[i] = NamesOf(source, p.record)[i] BY <1>5, <2>1, <3>2 DEF Widened
      <3>4. QED BY <2>2, <3>3
    <2>4. QED BY <2>3 DEF Titled
  <1> HIDE DEF q, r
  <1>9. Hdr(o) = 1 /\ Len(<<>>) = 0 BY <1>1 DEF Hdr
  <1>10. Sim(source, o, r, q)
    <2>1. Len(q.records) = r.rows + Hdr(o) BY <1>1, <1>3, <1>4, <1>9
    <2>2. Widest(Len(r.columns), q.records) BY <1>4, <1>7
    <2>3. Titled(source, r.columns, q.records[1]) BY <1>3, <1>4, <1>8
    <2>4. r.reader = q.reader /\ r.field = q.field /\ r.recordFields = Len(q.record)
      BY <1>1, <1>2, <1>4, <1>9
    <2>5. QED BY <1>1, <1>4, <2>1, <2>2, <2>3, <2>4 DEF Sim
  <1>11. QED BY <1>4, <1>10 DEF q, r

\* A data row keeps the scanner in step with the parse.
LEMMA RowSimulated ==
  ASSUME opt \in Options, NEW s \in Shape(opt), NEW p, Sim(source, opt, s, p), ~s.headerPending,
         NEW z, RowEnds(z, s), NEW at
  PROVE  LET r == Reset(z, at)
         IN  /\ Sim(source, opt, r, EndRecord(p)) /\ r.recordStart = at
             /\ r.rows = s.rows + 1 /\ r.checkpoints = Marked(s, opt.interval)
  <1> DEFINE q == EndRecord(p)
             r == Reset(z, at)
             n == Len(p.records)
             m == Marked(s, opt.interval)
  <1>1. /\ p \in Parses /\ q \in Parses /\ p.record \in Records /\ p.records \in Seq(Records)
        /\ n = s.rows + Hdr(opt) /\ n \in Nat
        /\ Widest(Len(s.columns), p.records) /\ s.recordFields = Len(p.record)
        /\ s.reader = p.reader /\ s.field = p.field
        /\ opt.header => Titled(source, s.columns, p.records[1])
    BY EndRecordType DEF Sim, Parses
  <1>2. /\ q.reader = p.reader /\ q.field = p.field /\ q.record = <<>>
        /\ q.records = Append(p.records, p.record)
    BY <1>1 DEF EndRecord, Parses
  <1>3. Len(q.records) = n + 1 /\ \A i \in 1..n : q.records[i] = p.records[i] BY <1>1, <1>2
  <1>s. s \in Scanners /\ s.rows \in Nat /\ s.columns \in Seq(Names) BY DEF Shape, Scanners
  <1>4. /\ r.reader = s.reader /\ r.field = s.field /\ r.recordFields = 0 /\ r.recordStart = at
        /\ r.headerPending = s.headerPending /\ r.rows = s.rows + 1 /\ r.columns = z.columns
        /\ r.checkpoints = m
    <2> HIDE DEF m
    <2>1. z = [s EXCEPT !.checkpoints = m, !.diagnostics = z.diagnostics,
                        !.columns = z.columns, !.version = z.version, !.rows = s.rows + 1]
      BY DEF RowEnds, m
    <2>2. QED BY <1>s, <2>1 DEF Scanners, Reset
  <1>5. Widened(z.columns, s.columns, Len(p.record), <<>>) BY <1>1 DEF RowEnds
  <1>6. Len(s.columns) \in Nat BY <1>s
  <1>7. Widest(Len(z.columns), q.records)
    <2>1. Len(z.columns) = IF Len(p.record) <= Len(s.columns) THEN Len(s.columns) ELSE Len(p.record)
      BY <1>5 DEF Widened
    <2>2. QED BY <1>1, <1>2, <1>6, <2>1, WidestAppend
  <1>8. ASSUME opt.header PROVE Titled(source, z.columns, q.records[1])
    <2>1. n = s.rows + 1 BY <1>1, <1>8 DEF Hdr
    <2>2. 1 \in 1..n BY <1>s, <2>1
    <2>3. q.records[1] = p.records[1] BY <1>3, <2>2
    <2>4. p.records[1] \in Records /\ Len(p.records[1]) \in Nat /\ Len(p.records[1]) <= Len(s.columns)
      BY <1>1, <2>2 DEF Widest, Records
    <2>5. ASSUME NEW i \in 1..Len(p.records[1])
          PROVE  z.columns[i] = LossyOf(source, p.records[1][i])
      <3>1. i \in 1..Len(s.columns) BY <1>6, <2>4
      <3>2. z.columns[i] = s.columns[i] BY <1>5, <3>1 DEF Widened
      <3>3. QED BY <1>1, <1>8, <3>2 DEF Titled
    <2>6. QED BY <2>3, <2>5 DEF Titled
  <1>9. Len(q.records) = r.rows + Hdr(opt)
    <2>1. Hdr(opt) \in Nat BY DEF Hdr
    <2>2. QED BY <1>1, <1>3, <1>4, <1>s, <2>1
  <1> HIDE DEF q, n, m, r
  <1>10. Sim(source, opt, r, q)
    <2>1. Widest(Len(r.columns), q.records) BY <1>4, <1>7
    <2>2. opt.header => Titled(source, r.columns, q.records[1]) BY <1>4, <1>8
    <2>3. r.reader = q.reader /\ r.field = q.field /\ r.recordFields = Len(q.record)
      BY <1>1, <1>2, <1>4
    <2>4. QED BY <1>1, <1>4, <1>9, <2>1, <2>2, <2>3 DEF Sim
  <1>11. QED BY <1>4, <1>10 DEF q, m, r

\* The end of a record keeps the scanner in step, and the index exact.
LEMMA RecordSimulated ==
  ASSUME opt \in Options, ValidOptions(opt), NEW s \in Shape(opt), NEW p, Sim(source, opt, s, p),
         NEW b, Indexed(source, opt, b, s), Boundary(source, b, s.recordStart, Len(p.records)),
         NEW r, ScannerRecord(r, s)
  PROVE  /\ Sim(source, opt, r, EndRecord(p)) /\ Indexed(source, opt, b, r)
         /\ r.recordStart = s.parserOffset
  <1>1. PICK z \in Shape(opt) :
          /\ Stays(z, s)
          /\ IF s.headerPending THEN HeaderEnds(z, s) ELSE RowEnds(z, s)
          /\ r = Reset(z, s.parserOffset)
    BY DEF ScannerRecord
  <1>2. CASE s.headerPending
    <2>1. /\ Sim(source, opt, r, EndRecord(p)) /\ r.recordStart = s.parserOffset
          /\ r.rows = s.rows /\ r.checkpoints = s.checkpoints
      <3>1. HeaderEnds(z, s) BY <1>1, <1>2
      <3>2. r = Reset(z, s.parserOffset) BY <1>1
      <3> DEFINE at == s.parserOffset
                 y == Reset(z, at)
      <3> HIDE DEF at
      <3>3. /\ Sim(source, opt, y, EndRecord(p)) /\ y.recordStart = at
            /\ y.rows = s.rows /\ y.checkpoints = s.checkpoints
        BY <1>2, <3>1, HeaderSimulated
      <3>4. QED BY <3>2, <3>3 DEF at
    <2>2. Indexed(source, opt, b, r) BY <2>1 DEF Indexed
    <2>3. QED BY <2>1, <2>2
  <1>3. CASE ~s.headerPending
    <2>1. /\ Sim(source, opt, r, EndRecord(p)) /\ r.recordStart = s.parserOffset
          /\ r.rows = s.rows + 1 /\ r.checkpoints = Marked(s, opt.interval)
      <3>1. RowEnds(z, s) BY <1>1, <1>3
      <3>2. r = Reset(z, s.parserOffset) BY <1>1
      <3> DEFINE at == s.parserOffset
                 y == Reset(z, at)
      <3> HIDE DEF at
      <3>3. /\ Sim(source, opt, y, EndRecord(p)) /\ y.recordStart = at
            /\ y.rows = s.rows + 1 /\ y.checkpoints = Marked(s, opt.interval)
        BY <1>3, <3>1, RowSimulated
      <3>4. QED BY <3>2, <3>3 DEF at
    <2>2. Boundary(source, b, s.recordStart, s.rows + Hdr(opt)) BY <1>3 DEF Sim
    <2>3. Indexed(source, opt, b, r) BY <2>1, <2>2, RowIndexed
    <2>4. QED BY <2>1, <2>3
  <1>4. QED BY <1>2, <1>3

\* A byte through csv_core, before what it ends.
ScannerMove(s, t, o) ==
    Then(IF t.copy THEN AppendField(s, o) ELSE s,
         LAMBDA z : [z EXCEPT !.reader = t.to, !.parserOffset = @ + 1])

\* Where the byte leads when nothing fails.
Advanced(s, t, n, o) ==
    [s EXCEPT !.reader = t.to, !.parserOffset = n,
              !.field = IF t.copy THEN Append(s.field, o) ELSE s.field]

\* The offset moves by the byte, or an error keeps it.
StaysOrMoves(r, s) == r.received = s.received /\ r.parserOffset \in {s.parserOffset, s.parserOffset + 1}

\* A byte moves the scanner so, or a limit stops it.
LEMMA ScannerMoves ==
  ASSUME opt \in Options, NEW s \in Shape(opt), s.error = OK, NEW t \in Moves, NEW o \in Int
  PROVE  LET r == ScannerMove(s, t, o)
         IN  /\ r \in Shape(opt) /\ StaysOrMoves(r, s)
             /\ r.error = OK => r = Advanced(s, t, s.parserOffset + 1, o)
  <1> DEFINE c == IF t.copy THEN AppendField(s, o) ELSE s
             n == c.parserOffset + 1
             f == IF t.copy THEN Append(s.field, o) ELSE s.field
             x == [c EXCEPT !.reader = t.to, !.parserOffset = n]
             r == ScannerMove(s, t, o)
  <1>s. s \in Scanners BY DEF Shape
  <1>1. r = IF c.error = OK THEN x ELSE c BY DEF ScannerMove, Then
  <1>2. /\ c \in Shape(opt) /\ Stays(c, s)
        /\ c.error = OK => c = [s EXCEPT !.field = f]
    <2>1. CASE t.copy BY <2>1, ScannerCopies
    <2>2. CASE ~t.copy
      <3>1. s = [s EXCEPT !.field = s.field] BY <1>s DEF Scanners
      <3>2. QED BY <2>2, <3>1 DEF Stays
    <2>3. QED BY <2>1, <2>2
  <1> HIDE DEF c, r, f
  <1>3. CASE c.error # OK
    <2>1. r = c BY <1>1, <1>3
    <2>2. QED BY <1>2, <1>3, <2>1 DEF StaysOrMoves, Stays, r
  <1>4. CASE c.error = OK
    <2>1. r = x BY <1>1, <1>4
    <2>2. c \in Scanners /\ t.to \in Readers BY <1>2 DEF Shape, Moves
    <2>3. n \in Nat /\ c.parserOffset \in Nat /\ n = c.parserOffset + 1 BY <2>2 DEF Scanners
    <2>4. n = s.parserOffset + 1 BY <1>2 DEF Stays
    <2> HIDE DEF n
    <2>5. x \in Scanners /\ x.columns = c.columns /\ x.received = c.received /\ x.recordStart = c.recordStart
          /\ x.field = c.field /\ x.diagnostics = c.diagnostics /\ x.parserOffset = n
      BY <2>2, <2>3 DEF Scanners
    <2>6. x = [s EXCEPT !.reader = t.to, !.parserOffset = n, !.field = f]
      BY <1>s, <1>2, <1>4 DEF Scanners
    <2> HIDE DEF x
    <2>7. c.recordStart \in Nat /\ c.recordStart <= c.parserOffset BY <1>2, <2>2 DEF Shape, Scanners
    <2>8. x \in Shape(opt) BY <1>2, <2>3, <2>5, <2>7 DEF Shape
    <2>9. StaysOrMoves(x, s) BY <1>2, <2>4, <2>5 DEF StaysOrMoves, Stays
    <2>10. QED BY <2>1, <2>4, <2>6, <2>8, <2>9 DEF r, f, Advanced
  <1>5. QED BY <1>3, <1>4

\* What a byte leaves alone when nothing fails.
Aside(r, s) ==
    /\ r.lexical = s.lexical /\ r.bomResolved = s.bomResolved /\ r.finished = s.finished
    /\ r.received = s.received /\ r.hasRead = s.hasRead

\* What the end of a field leaves alone.
LEMMA FieldAside ==
  ASSUME NEW o, NEW s \in Shape(o), NEW r, ScannerField(r, s)
  PROVE  /\ Aside(r, s) /\ r.recordStart = s.recordStart /\ r.checkpoints = s.checkpoints
         /\ r.rows = s.rows /\ r.parserOffset = s.parserOffset
  <1> DEFINE hn == IF s.headerPending THEN Append(s.headerNames, Lossy(s.field)) ELSE s.headerNames
  <1>1. s \in Scanners BY DEF Shape
  <1> HIDE DEF hn
  <1>2. r = [s EXCEPT !.diagnostics = r.diagnostics, !.recordFields = s.recordFields + 1,
                      !.headerNames = hn, !.field = <<>>]
    BY DEF ScannerField, hn
  <1>3. QED BY <1>1, <1>2 DEF Scanners, Aside

\* What the end of a record leaves alone.
LEMMA RecordAside ==
  ASSUME NEW s \in Shape(opt), NEW r, ScannerRecord(r, s)
  PROVE  Aside(r, s)
  <1>1. PICK z \in Shape(opt) :
          /\ Stays(z, s)
          /\ IF s.headerPending THEN HeaderEnds(z, s) ELSE RowEnds(z, s)
          /\ r = Reset(z, s.parserOffset)
    BY DEF ScannerRecord
  <1>s. s \in Scanners /\ z \in Scanners BY DEF Shape
  <1>2. Aside(r, z) BY <1>s, <1>1 DEF Aside, Reset, Scanners
  <1>3. Aside(z, s)
    <2>1. CASE s.headerPending
      <3>1. z = [s EXCEPT !.headerNames = <<>>, !.columns = z.columns, !.version = z.version,
                          !.headerPending = FALSE]
        BY <1>1, <2>1 DEF HeaderEnds
      <3>2. QED BY <1>s, <3>1 DEF Aside, Scanners
    <2>2. CASE ~s.headerPending
      <3> DEFINE m == Marked(s, opt.interval)
      <3> HIDE DEF m
      <3>1. z = [s EXCEPT !.checkpoints = m, !.diagnostics = z.diagnostics,
                          !.columns = z.columns, !.version = z.version, !.rows = s.rows + 1]
        BY <1>1, <2>2 DEF RowEnds, m
      <3>2. QED BY <1>s, <3>1 DEF Aside, Scanners
    <2>3. QED BY <2>1, <2>2
  <1>4. QED BY <1>2, <1>3 DEF Aside

\* One byte, in the parts the parser has.
LEMMA ReadByteIs ==
  ASSUME NEW s, NEW o
  PROVE  LET t == Transition(s.reader, Byte(o))
             m == ScannerMove(s, t, o)
             f == IF m.error = OK THEN FinishField(m) ELSE m
         IN  /\ t.ends = "none" => ReadByte(s, o) = m
             /\ t.ends = "field" => ReadByte(s, o) = f
             /\ t.ends = "record" =>
                  ReadByte(s, o) = IF f.error = OK THEN FinishRecord(f) ELSE f
  BY DEF ReadByte, ScannerMove, Then

\* One byte, whatever happens.
LEMMA ScannerReads ==
  ASSUME opt \in Options, ValidOptions(opt), NEW s \in Shape(opt), s.error = OK, NEW o \in Int
  PROVE  ReadByte(s, o) \in Shape(opt) /\ StaysOrMoves(ReadByte(s, o), s)
  <1> DEFINE t == Transition(s.reader, Byte(o))
             m == ScannerMove(s, t, o)
             f == IF m.error = OK THEN FinishField(m) ELSE m
             r == ReadByte(s, o)
  <1>1. t \in Moves BY TransitionMoves DEF Shape, Scanners
  <1>e. t.ends \in {"none", "field", "record"} BY <1>1 DEF Moves
  <1>2. /\ t.ends = "none" => r = m
        /\ t.ends = "field" => r = f
        /\ t.ends = "record" => r = IF f.error = OK THEN FinishRecord(f) ELSE f
    BY ReadByteIs
  <1> HIDE DEF t, r
  <1>3. m \in Shape(opt) /\ StaysOrMoves(m, s) BY <1>1, ScannerMoves
  <1> HIDE DEF m
  <1>4. f \in Shape(opt) /\ StaysOrMoves(f, s)
    <2>1. CASE m.error = OK
      <3>1. FinishField(m) \in Shape(opt) /\ Stays(FinishField(m), m) BY <1>3, <2>1, ScannerEndsField
      <3>2. QED BY <1>3, <2>1, <3>1 DEF StaysOrMoves, Stays
    <2>2. CASE m.error # OK BY <1>3, <2>2
    <2>3. QED BY <2>1, <2>2
  <1> HIDE DEF f
  <1>5. ASSUME f.error = OK
        PROVE  FinishRecord(f) \in Shape(opt) /\ StaysOrMoves(FinishRecord(f), s)
    <2>1. FinishRecord(f) \in Shape(opt) /\ Stays(FinishRecord(f), f) BY <1>4, <1>5, ScannerEndsRecord
    <2>2. QED BY <1>4, <2>1 DEF StaysOrMoves, Stays
  <1>6. r \in Shape(opt) /\ StaysOrMoves(r, s) BY <1>e, <1>2, <1>3, <1>4, <1>5
  <1>7. QED BY <1>6 DEF r

\* The scanner at offset n, when nothing has failed.
Scanned(b, s, n) ==
    /\ s.error = OK /\ s.parserOffset = n
    /\ Sim(source, opt, s, From(source, b, n))
    /\ Indexed(source, opt, b, s)
    /\ Boundary(source, b, s.recordStart, Len(From(source, b, n).records))

\* A move keeps the scanner in step with the parse.
LEMMA MoveSimulated ==
  ASSUME NEW src, NEW o, NEW s \in Shape(o), NEW p, Sim(src, o, s, p), NEW t \in Moves, NEW at \in Int,
         NEW n
  PROVE  LET r == Advanced(s, t, n, at)
         IN  /\ Sim(src, o, r, Moved(p, t, at)) /\ Aside(r, s) /\ r.recordStart = s.recordStart
             /\ r.checkpoints = s.checkpoints /\ r.rows = s.rows /\ r.parserOffset = n
  <1> DEFINE q == Moved(p, t, at)
             f == IF t.copy THEN Append(s.field, at) ELSE s.field
             r == Advanced(s, t, n, at)
  <1>1. p \in Parses /\ q \in Parses /\ s.field = p.field BY MovedType DEF Sim
  <1>2. /\ q.reader = t.to /\ q.records = p.records /\ q.record = p.record
        /\ q.field = f
    BY <1>1 DEF Moved, Parses
  <1>s. s \in Scanners BY DEF Shape
  <1> HIDE DEF q, f
  <1>3. r = [s EXCEPT !.reader = t.to, !.parserOffset = n, !.field = f] BY DEF f, Advanced
  <1> HIDE DEF r
  <1>4. /\ r.reader = t.to /\ r.field = f /\ r.recordFields = s.recordFields
        /\ r.headerPending = s.headerPending /\ r.rows = s.rows /\ r.columns = s.columns
        /\ r.headerNames = s.headerNames /\ Aside(r, s) /\ r.recordStart = s.recordStart
        /\ r.checkpoints = s.checkpoints /\ r.parserOffset = n
    BY <1>s, <1>3 DEF Scanners, Aside
  <1>5. Sim(src, o, r, q) BY <1>1, <1>2, <1>4 DEF Sim
  <1>6. QED BY <1>4, <1>5 DEF q, r

\* One byte of the scanner is one byte of the reference parser.
LEMMA ByteSimulated ==
  ASSUME opt \in Options, ValidOptions(opt), NEW b \in Nat, NEW s \in Shape(opt), NEW n \in Nat, b <= n,
         Len(source) \in Nat, n < Len(source), Scanned(b, s, n), ReadByte(s, n).error = OK
  PROVE  Scanned(b, ReadByte(s, n), n + 1) /\ Aside(ReadByte(s, n), s)
  <1> DEFINE p == From(source, b, n)
             t == Transition(s.reader, Byte(n))
             m == ScannerMove(s, t, n)
             f == IF m.error = OK THEN FinishField(m) ELSE m
             r == ReadByte(s, n)
             pm == Moved(p, t, n)
             k == Len(p.records)
  <1>0. n \in Int /\ n >= b /\ n + 1 \in Nat /\ b <= n + 1 /\ n + 1 <= Len(source) OBVIOUS
  <1>1. t \in Moves BY TransitionMoves DEF Shape, Scanners
  <1>2. /\ t.ends = "none" => r = m
        /\ t.ends = "field" => r = f
        /\ t.ends = "record" => r = IF f.error = OK THEN FinishRecord(f) ELSE f
    BY ReadByteIs
  <1>e. t.ends \in {"none", "field", "record"} BY <1>1 DEF Moves
  <1>3. p \in Parses /\ From(source, b, n + 1) = ParseByte(source, p, n) BY <1>0, ParseStages
  <1>4. /\ s.error = OK /\ s.parserOffset = n /\ Sim(source, opt, s, p)
        /\ Indexed(source, opt, b, s) /\ Boundary(source, b, s.recordStart, k)
    BY DEF Scanned
  <1>5. From(source, b, n + 1) = Parsed(p, t, n) BY <1>3, <1>4 DEF ParseByte, Sim, Byte
  <1>r. r.error = OK OBVIOUS
  <1>b. t.ends = "record" => t.to \in Breaks
    BY DEF Transition, EndsField, Goes, Breaks, Delim, Quote, CR, LF
  <1> HIDE DEF p, t, r
  <1>6. /\ m \in Shape(opt)
        /\ m.error = OK => m = Advanced(s, t, n + 1, n)
    BY <1>0, <1>1, <1>4, ScannerMoves
  <1> HIDE DEF m
  <1>7. m.error = OK =>
          /\ Sim(source, opt, m, pm) /\ Aside(m, s) /\ m.recordStart = s.recordStart
          /\ m.checkpoints = s.checkpoints /\ m.rows = s.rows /\ m.parserOffset = n + 1
    <2> DEFINE w == Advanced(s, t, n + 1, n)
    <2>1. /\ Sim(source, opt, w, pm) /\ Aside(w, s) /\ w.recordStart = s.recordStart
          /\ w.checkpoints = s.checkpoints /\ w.rows = s.rows /\ w.parserOffset = n + 1
      BY <1>0, <1>1, <1>4, MoveSimulated
    <2> HIDE DEF w, pm
    <2>2. m.error = OK => m = w BY <1>6 DEF w
    <2>3. QED BY <2>1, <2>2
  <1>8. m.error = OK => Indexed(source, opt, b, m) BY <1>4, <1>7 DEF Indexed
  <1>9. pm \in Parses /\ pm.records = p.records
    <2>1. pm \in Parses BY <1>0, <1>1, <1>3, MovedType
    <2>2. pm.records = p.records BY <1>3 DEF Moved, Parses
    <2>3. QED BY <2>1, <2>2
  <1> HIDE DEF pm
  <1>10. CASE t.ends = "none"
    <2>1. r = m BY <1>2, <1>10
    <2>2. From(source, b, n + 1) = pm BY <1>5, <1>10 DEF Parsed, pm
    <2>3. m.error = OK /\ Boundary(source, b, m.recordStart, Len(pm.records))
      BY <1>r, <1>4, <1>7, <1>9, <2>1 DEF k
    <2>4. QED BY <1>7, <1>8, <2>1, <2>2, <2>3 DEF Scanned, r
  <1>11. ASSUME t.ends # "none", f.error = OK
         PROVE  /\ m.error = OK /\ f \in Shape(opt) /\ Sim(source, opt, f, EndField(pm)) /\ Aside(f, s)
                /\ f.recordStart = s.recordStart /\ f.parserOffset = n + 1
                /\ Indexed(source, opt, b, f)
                /\ EndField(pm) \in Parses /\ EndField(pm).records = p.records
    <2>1. m.error = OK BY <1>11
    <2>2. f = FinishField(m) BY <2>1
    <2> HIDE DEF f
    <2>3. f \in Shape(opt) /\ ScannerField(f, m) BY <1>6, <1>11, <2>1, <2>2, ScannerEndsField
    <2>4. Sim(source, opt, f, EndField(pm)) BY <1>6, <1>7, <2>1, <2>3, FieldSimulated
    <2>5. /\ Aside(f, m) /\ f.recordStart = m.recordStart /\ f.checkpoints = m.checkpoints
          /\ f.rows = m.rows /\ f.parserOffset = m.parserOffset
      BY <1>6, <2>3, FieldAside
    <2>6. Indexed(source, opt, b, f) BY <1>8, <2>1, <2>5 DEF Indexed
    <2>7. EndField(pm) \in Parses BY <1>9, EndFieldType
    <2>8. EndField(pm).records = p.records BY <1>9 DEF EndField, Parses
    <2>9. QED BY <1>7, <2>1, <2>3, <2>4, <2>5, <2>6, <2>7, <2>8 DEF Aside
  <1> HIDE DEF f
  <1>12. CASE t.ends = "field"
    <2>1. r = f BY <1>2, <1>12
    <2>2. From(source, b, n + 1) = EndField(pm) BY <1>5, <1>12 DEF Parsed, pm
    <2>3. f.error = OK BY <1>r, <2>1
    <2>4. Boundary(source, b, f.recordStart, Len(EndField(pm).records))
      BY <1>4, <1>11, <1>12, <2>3 DEF k
    <2>5. QED BY <1>11, <1>12, <2>1, <2>2, <2>3, <2>4 DEF Scanned, r
  <1>13. CASE t.ends = "record"
    <2>1. f.error = OK /\ r = FinishRecord(f) BY <1>2, <1>r, <1>13
    <2> DEFINE pf == EndField(pm)
               q == EndRecord(pf)
    <2>2. From(source, b, n + 1) = q BY <1>5, <1>13 DEF Parsed, pm
    <2>3. /\ f \in Shape(opt) /\ Sim(source, opt, f, pf) /\ Aside(f, s)
          /\ f.recordStart = s.recordStart /\ f.parserOffset = n + 1
          /\ Indexed(source, opt, b, f)
          /\ pf \in Parses /\ pf.records = p.records
      BY <1>11, <1>13, <2>1
    <2> HIDE DEF pf
    <2>4. Boundary(source, b, f.recordStart, Len(pf.records)) BY <1>4, <2>3 DEF k
    <2>5. ScannerRecord(r, f) BY <1>r, <2>1, <2>3, ScannerEndsRecord
    <2>6. /\ Sim(source, opt, r, q) /\ Indexed(source, opt, b, r)
          /\ r.recordStart = f.parserOffset
      BY <2>3, <2>4, <2>5, RecordSimulated
    <2>7. Aside(r, f) BY <2>3, <2>5, RecordAside
    <2>8. r.parserOffset = f.parserOffset
      BY <2>1, <2>3, ScannerEndsRecord DEF Stays
    <2>9. q.reader \in Breaks /\ q.field = <<>> /\ q.record = <<>>
      <3>1. pm.reader = t.to BY <1>3 DEF pm, Moved, Parses
      <3>2. pf.reader = pm.reader /\ pf.field = <<>> BY <1>9 DEF pf, EndField, Parses
      <3>3. q.reader = pf.reader /\ q.field = pf.field /\ q.record = <<>>
        BY <2>3 DEF EndRecord, Parses
      <3>4. QED BY <1>b, <1>13, <3>1, <3>2, <3>3
    <2>l. Len(p.records) < Len(q.records)
      <3>1. pf.record \in Records /\ pf.records \in Seq(Records) BY <2>3 DEF Parses
      <3>2. q.records = Append(pf.records, pf.record) BY <2>3 DEF q, EndRecord, Parses
      <3> HIDE DEF q
      <3>3. Len(q.records) = Len(pf.records) + 1 /\ Len(pf.records) \in Nat BY <3>1, <3>2
      <3>4. QED BY <2>3, <3>3
    <2>p. From(source, b, (n + 1) - 1) = p /\ b < n + 1 BY <1>0 DEF p
    <2> HIDE DEF q
    <2>10. Boundary(source, b, n + 1, Len(q.records)) BY <1>0, <2>2, <2>9, <2>l, <2>p DEF Boundary
    <2>11. QED BY <1>r, <2>2, <2>3, <2>6, <2>7, <2>8, <2>10 DEF Scanned, Aside, r
  <1>14. QED BY <1>e, <1>10, <1>12, <1>13

\* The bytes of a chunk, one after the other while nothing fails.
Reads(z, o) == Then(z, LAMBDA y : ReadByte(y, o))
ReadStep == [e \in Int \X Shape(opt) |-> Reads(e[2], e[1])]

\* The bytes of a chunk are steps of the scanner.
LEMMA ReadSteps ==
  ASSUME opt \in Options, ValidOptions(opt), NEW base \in Shape(opt)
  PROVE  Stepwise(ReadStep, Int, Shape(opt), base)
  <1>1. ASSUME NEW z \in Shape(opt), NEW o \in Int PROVE Reads(z, o) \in Shape(opt)
    <2>1. CASE z.error = OK
      <3>1. ReadByte(z, o) \in Shape(opt) BY <2>1, ScannerReads
      <3>2. QED BY <2>1, <3>1 DEF Reads, Then
    <2>2. CASE z.error # OK BY <2>2 DEF Reads, Then
    <2>3. QED BY <2>1, <2>2
  <1>2. ReadStep \in [Int \X Shape(opt) -> Shape(opt)] BY <1>1 DEF ReadStep
  <1>3. QED BY <1>2 DEF Stepwise

\* The scanner as the bytes of a slice find it, which csv_core drops nothing of.
Sliced(s, from, to) == Then(QuoteDiagnostics(s, -1, from, to), LAMBDA z : BeginSlice(z, from, to))

\* ProcessBytes is the run over the chunk, after its quote diagnostics.
LEMMA ProcessIsRun ==
  ASSUME opt \in Options, ValidOptions(opt), NEW s, NEW from \in Nat, NEW to \in Nat, from <= to,
         ~DropsMark(s, from, to), Sliced(s, from, to) \in Shape(opt)
  PROVE  ProcessBytes(s, from, to) = Stage(ReadStep, Sliced(s, from, to), from, to)
  <1> DEFINE os == Offsets(from, to)
             V == Shape(opt)
             n == Len(os)
             h == ReadStep
             base == Sliced(s, from, to)
             W == CHOOSE w : w = [u \in SUBSET (1..n) |->
                    IF u = {} THEN base ELSE Reads(w[u \ {Max(u)}], os[Max(u)])]
  <1>s. os \in Seq(Int) BY OffsetsFrom
  <1> HIDE DEF os
  <1>1. DOMAIN os = 1..n /\ \A i \in 1..n : os[i] \in Int BY <1>s
  <1>f. FirstRead(s, from, to) = from BY DEF FirstRead
  <1>2. ProcessBytes(s, from, to) = W[1..n]
    <2>1. ProcessBytes(s, from, to) = FoldLeft(LAMBDA z, o : Reads(z, o), base, os)
      BY <1>f DEF ProcessBytes, Reads, Sliced, os
    <2> HIDE DEF base
    <2>2. QED BY <1>1, <2>1 DEF FoldLeft, MapThenFoldSet
  <1>b. base \in V OBVIOUS
  <1>3. Stepwise(h, Int, V, base) BY <1>b, ReadSteps
  <1>4. \A e \in Int, v \in V : h[<<e, v>>] = Reads(v, e) BY DEF ReadStep
  <1> HIDE DEF h, base, V
  <1>g. PICK g : Solution(g, V, h, base, os) BY <1>s, <1>3, FoldSolved
  <1>5. /\ g \in [SUBSET (1..n) -> V] /\ g[{}] = base
        /\ \A u \in SUBSET (1..n) : u # {} =>
             /\ Max(u) \in 1..n /\ u \ {Max(u)} \in SUBSET (1..n)
             /\ g[u] = h[<<os[Max(u)], g[u \ {Max(u)}]>>]
    BY <1>g, Zenon DEF Solution
  <1> HIDE DEF n
  <1>6. \A u \in SUBSET (1..n) : u # {} => g[u] = Reads(g[u \ {Max(u)}], os[Max(u)])
    <2> SUFFICES ASSUME NEW u \in SUBSET (1..n), u # {}
                 PROVE  g[u] = Reads(g[u \ {Max(u)}], os[Max(u)])
      OBVIOUS
    <2>1. os[Max(u)] \in Int /\ g[u \ {Max(u)}] \in V /\ g[u] = h[<<os[Max(u)], g[u \ {Max(u)}]>>]
      BY <1>1, <1>5
    <2>2. QED BY <1>4, <2>1
  <1>7. g = [u \in SUBSET (1..n) |->
               IF u = {} THEN base ELSE Reads(g[u \ {Max(u)}], os[Max(u)])]
    BY <1>5, <1>6
  <1>8. W = [u \in SUBSET (1..n) |->
               IF u = {} THEN base ELSE Reads(W[u \ {Max(u)}], os[Max(u)])]
    BY <1>7, Zenon
  <1> HIDE DEF W
  <1>9. W[{}] = base BY <1>8
  <1>10. \A u \in SUBSET (1..n) : u # {} /\ W[u \ {Max(u)}] \in V =>
            W[u] = h[<<os[Max(u)], W[u \ {Max(u)}]>>]
    <2> SUFFICES ASSUME NEW u \in SUBSET (1..n), u # {}, W[u \ {Max(u)}] \in V
                 PROVE  W[u] = h[<<os[Max(u)], W[u \ {Max(u)}]>>]
      OBVIOUS
    <2>1. W[u] = Reads(W[u \ {Max(u)}], os[Max(u)]) BY <1>8
    <2>2. os[Max(u)] \in Int BY <1>1, <1>5
    <2>3. QED BY <1>4, <2>1, <2>2
  <1>11. Recurs(W, V, h, base, os) BY <1>9, <1>10 DEF Recurs, n
  <1>12. W[1..n] = Run(h, base, os) BY <1>s, <1>3, <1>11, FoldIsRun DEF n
  <1>13. QED BY <1>2, <1>12 DEF Stage, h, base, os

\* The type and the offsets, whatever happens; the whole state, when nothing fails.
LEMMA ScannerProcesses ==
  ASSUME opt \in Options, ValidOptions(opt), NEW b \in Nat, NEW s \in Shape(opt),
         NEW from \in Nat, NEW to \in Nat, b <= from, from <= to,
         Len(source) \in Nat, to <= Len(source), Scanned(b, s, from), Agree(s.lexical, s.reader),
         ~DropsMark(s, from, to)
  PROVE  LET r == ProcessBytes(s, from, to)
         IN  /\ r \in Shape(opt) /\ r.received = s.received /\ r.parserOffset <= to
             /\ r.error = OK =>
                  /\ Scanned(b, r, to) /\ Agree(r.lexical, r.reader) /\ r.hasRead
                  /\ r.bomResolved = s.bomResolved /\ r.finished = s.finished
  <1> DEFINE t == ConsumeQuotes(s.lexical, from, to)
             a == [s EXCEPT !.lexical = t.lex]
             told == QuoteDiagnostics(s, -1, from, to)
             base == Sliced(s, from, to)
             Z(n) == Stage(ReadStep, base, from, n)
             Reaches(z, n) ==
                 /\ z.received = s.received /\ z.parserOffset <= n
                 /\ z.error = OK => /\ Scanned(b, z, n) /\ z.lexical = t.lex /\ z.hasRead
                                    /\ z.bomResolved = s.bomResolved /\ z.finished = s.finished
             T == {n \in Nat : from <= n /\ Reaches(Z(n), n)}
             r == ProcessBytes(s, from, to)
  <1>s. s \in Scanners /\ s.lexical \in Trackers BY DEF Shape, Scanners
  <1>1. t \in Tracks /\ Agree(t.lex, From(source, b, to).reader)
    <2>1. Agree(s.lexical, From(source, b, from).reader) BY DEF Scanned, Sim
    <2>2. QED BY <1>s, <2>1, TrackerKeepsUp
  <1>2. told \in Shape(opt) /\ Talks(told, a)
    <2>1. s \in Shape(opt) /\ -1 \in Int /\ t \in Tracks BY <1>1
    <2> HIDE DEF Z, T, r, base
    <2>2. QED BY <2>1, ScannerQuotes
  <1> HIDE DEF t
  <1>3. a \in Scanners BY <1>1, <1>s DEF Scanners, Tracks
  <1>p. s.parserOffset = from BY DEF Scanned
  <1>d. /\ told \in Scanners /\ told.received = s.received /\ told.parserOffset = from
        /\ told.hasRead = s.hasRead
        /\ told.reader = s.reader /\ told.field = s.field /\ told.recordFields = s.recordFields
        /\ told.headerPending = s.headerPending /\ told.rows = s.rows
        /\ told.headerNames = s.headerNames /\ told.columns = s.columns
        /\ told.checkpoints = s.checkpoints /\ told.recordStart = s.recordStart
        /\ told.lexical = t.lex /\ told.bomResolved = s.bomResolved /\ told.finished = s.finished
    <2> HIDE DEF told
    <2>1. told = [a EXCEPT !.diagnostics = told.diagnostics, !.error = told.error]
      BY <1>2 DEF Talks
    <2>2. told \in Scanners BY <1>2 DEF Shape
    <2>3. QED BY <1>s, <1>p, <2>1, <2>2 DEF Scanners
  <1>b. base = IF told.error = OK THEN [told EXCEPT !.hasRead = TRUE, !.parserOffset = from] ELSE told
    <2>1. ~DropsMark(told, from, to) BY <1>d DEF DropsMark
    <2>2. base = Then(told, LAMBDA z : BeginSlice(z, from, to)) BY DEF Sliced
    <2> HIDE DEF told, base
    <2>3. BeginSlice(told, from, to) = [told EXCEPT !.hasRead = TRUE, !.parserOffset = from]
      BY <2>1 DEF BeginSlice, OnlyMark, FirstRead
    <2>4. QED BY <2>2, <2>3 DEF Then
  <1>c. base \in Shape(opt)
    <2> HIDE DEF told, base
    <2>1. CASE told.error # OK BY <1>2, <1>b, <2>1
    <2>2. CASE told.error = OK
      <3>1. base = [told EXCEPT !.hasRead = TRUE, !.parserOffset = from] BY <1>b, <2>2
      <3>2. base \in Scanners /\ base.field = told.field /\ base.columns = told.columns
            /\ base.diagnostics = told.diagnostics /\ base.recordStart = told.recordStart
            /\ base.parserOffset = told.parserOffset
        BY <1>d, <3>1 DEF Scanners
      <3>3. QED BY <1>2, <3>2 DEF Shape
    <2>3. QED BY <2>1, <2>2
  <1>4. Reaches(base, from)
    <2> HIDE DEF told, base
    <2>1. CASE told.error # OK
      <3>1. base = told BY <1>b, <2>1
      <3>2. QED BY <1>d, <2>1, <3>1
    <2>2. CASE told.error = OK
      <3>1. base = [told EXCEPT !.hasRead = TRUE, !.parserOffset = from] BY <1>b, <2>2
      <3>2. /\ base.reader = s.reader /\ base.field = s.field /\ base.recordFields = s.recordFields
            /\ base.headerPending = s.headerPending /\ base.rows = s.rows
            /\ base.headerNames = s.headerNames /\ base.columns = s.columns
            /\ base.checkpoints = s.checkpoints /\ base.recordStart = s.recordStart
            /\ base.lexical = t.lex /\ base.bomResolved = s.bomResolved /\ base.finished = s.finished
            /\ base.parserOffset = from /\ base.received = s.received /\ base.hasRead /\ base.error = OK
        BY <1>d, <2>2, <3>1 DEF Scanners
      <3>3. Scanned(b, base, from) BY <3>2 DEF Scanned, Sim, Indexed
      <3>4. QED BY <3>2, <3>3
    <2>3. QED BY <2>1, <2>2
  <1>5. /\ Z(from) = base
        /\ \A n \in Nat : n >= from => Z(n) \in Shape(opt) /\ Z(n + 1) = ReadStep[<<n, Z(n)>>]
    <2> HIDE DEF base
    <2>1. Stepwise(ReadStep, Int, Shape(opt), base) BY <1>c, ReadSteps
    <2>2. QED BY <2>1, Stages
  <1>6. r = Z(to) BY <1>c, ProcessIsRun
  <1> HIDE DEF told, base, a
  <1>7. \A n \in Nat : n >= from => Z(n) \in Shape(opt) /\ n \in Int /\ Z(n + 1) = Reads(Z(n), n)
    <2>1. \A e \in Int, v \in Shape(opt) : ReadStep[<<e, v>>] = Reads(v, e) BY DEF ReadStep
    <2>2. \A n \in Nat : n \in Int OBVIOUS
    <2> HIDE DEF Z
    <2>3. QED BY <1>5, <2>1, <2>2
  <1> HIDE DEF Z
  <1>8. from \in T BY <1>4, <1>5
  <1>9. \A n \in T : from <= n /\ n < to => n + 1 \in T
    <2> SUFFICES ASSUME NEW n \in T, from <= n, n < to PROVE n + 1 \in T OBVIOUS
    <2> DEFINE z == Z(n)
               y == Z(n + 1)
    <2>1. n \in Nat /\ n >= from /\ Reaches(z, n) /\ n + 1 \in Nat /\ from <= n + 1 /\ b <= n
          /\ n < Len(source)
      OBVIOUS
    <2>2. z \in Shape(opt) /\ n \in Int /\ y = Reads(z, n) BY <1>7, <2>1
    <2>p. z.parserOffset \in Nat BY <2>2 DEF Shape, Scanners
    <2> HIDE DEF z, y
    <2>3. CASE z.error # OK
      <3>1. y = z BY <2>2, <2>3 DEF Reads, Then
      <3>2. Reaches(y, n + 1) BY <2>1, <2>3, <2>p, <3>1
      <3>3. QED BY <2>1, <3>2 DEF y
    <2>4. CASE z.error = OK
      <3>1. y = ReadByte(z, n) BY <2>2, <2>4 DEF Reads, Then
      <3>2. StaysOrMoves(y, z) BY <2>2, <2>4, <3>1, ScannerReads
      <3>3. Scanned(b, z, n) BY <2>1, <2>4
      <3>4. y.error = OK => Scanned(b, y, n + 1) /\ Aside(y, z)
        BY <2>1, <2>2, <3>1, <3>3, ByteSimulated
      <3>5. y.received = s.received /\ y.parserOffset <= n + 1
        BY <2>1, <2>p, <3>2 DEF StaysOrMoves
      <3>6. Reaches(y, n + 1) BY <2>1, <2>4, <3>4, <3>5 DEF Aside
      <3>7. QED BY <2>1, <3>6 DEF y
    <2>5. QED BY <2>3, <2>4
  <1>10. T \in SUBSET Nat OBVIOUS
  <1> HIDE DEF T
  <1>11. \A n \in Nat : from <= n /\ n <= to => n \in T BY <1>8, <1>9, <1>10, InductFrom
  <1>12. to \in T BY <1>11
  <1>13. Reaches(r, to) BY <1>6, <1>12 DEF T
  <1>14. r \in Shape(opt) BY <1>6, <1>7
  <1> HIDE DEF r
  <1>15. r.error = OK => Agree(r.lexical, r.reader) BY <1>1, <1>13 DEF Scanned, Sim
  <1>16. QED BY <1>13, <1>14, <1>15 DEF r

-----------------------------------------------------------------------------
(* The end of the source, the byte order mark and the chunk.                *)

\* What a diagnostic leaves of the parser.
LEMMA TalkKeeps ==
  ASSUME NEW s \in Scanners, NEW r, Talks(r, s), NEW b, NEW n, Scanned(b, s, n), r.error = OK
  PROVE  /\ Scanned(b, r, n) /\ r.reader = s.reader
         /\ r.bomResolved = s.bomResolved /\ r.finished = s.finished
  <1>1. r = [s EXCEPT !.diagnostics = r.diagnostics, !.error = r.error] BY DEF Talks
  <1>2. /\ r.reader = s.reader /\ r.field = s.field /\ r.recordFields = s.recordFields
        /\ r.headerPending = s.headerPending /\ r.rows = s.rows
        /\ r.headerNames = s.headerNames /\ r.columns = s.columns
        /\ r.checkpoints = s.checkpoints /\ r.recordStart = s.recordStart
        /\ r.bomResolved = s.bomResolved /\ r.finished = s.finished
        /\ r.parserOffset = s.parserOffset
    BY <1>1 DEF Scanners
  <1>3. QED BY <1>2 DEF Scanned, Sim, Indexed

\* The last record, when the source does not end with a terminator.
LastScan(z) ==
    IF FinalRecord(z.reader)
    THEN Then(Then([z EXCEPT !.reader = "StartRecord"], FinishField), FinishRecord)
    ELSE z

\* It is what the end of the source is to the reference parser.
LEMMA ScannerLast ==
  ASSUME opt \in Options, ValidOptions(opt), NEW b \in Nat, NEW s \in Shape(opt), NEW n \in Nat, b <= n,
         Scanned(b, s, n)
  PROVE  /\ LastScan(s) \in Shape(opt) /\ Stays(LastScan(s), s)
         /\ LastScan(s).error = OK =>
              /\ Sim(source, opt, LastScan(s), Closed(From(source, b, n)))
              /\ Indexed(source, opt, b, LastScan(s))
              /\ LastScan(s).bomResolved = s.bomResolved
  <1> DEFINE p == From(source, b, n)
             s1 == [s EXCEPT !.reader = "StartRecord"]
             p1 == [p EXCEPT !.reader = "StartRecord"]
             f == FinishField(s1)
             x == IF f.error = OK THEN FinishRecord(f) ELSE f
             r == LastScan(s)
  <1>0. /\ s.error = OK /\ Sim(source, opt, s, p) /\ Indexed(source, opt, b, s)
        /\ Boundary(source, b, s.recordStart, Len(p.records)) /\ p.reader = s.reader /\ p \in Parses
    BY DEF Scanned, Sim
  <1>s. s \in Scanners BY DEF Shape
  <1> HIDE DEF p
  <1>1. CASE ~FinalRecord(s.reader)
    <2>1. r = s BY <1>1 DEF LastScan
    <2>2. Closed(p) = p BY <1>0, <1>1 DEF Closed
    <2>3. Stays(s, s) BY DEF Stays
    <2>4. QED BY <1>0, <2>1, <2>2, <2>3 DEF p
  <1>2. CASE FinalRecord(s.reader)
    <2>1. /\ s1 \in Scanners /\ s1.error = OK /\ s1.reader = "StartRecord" /\ s1.field = s.field
          /\ s1.recordFields = s.recordFields /\ s1.headerPending = s.headerPending
          /\ s1.rows = s.rows /\ s1.headerNames = s.headerNames /\ s1.columns = s.columns
          /\ s1.checkpoints = s.checkpoints /\ s1.recordStart = s.recordStart
          /\ s1.bomResolved = s.bomResolved /\ s1.parserOffset = s.parserOffset
          /\ s1.diagnostics = s.diagnostics /\ s1.received = s.received
      <3>1. "StartRecord" \in Readers BY DEF Readers
      <3>2. QED BY <1>0, <1>s, <3>1 DEF Scanners
    <2>2. r = x BY <1>2, <2>1 DEF LastScan, Then
    <2> HIDE DEF s1, r
    <2>3. s1 \in Shape(opt) BY <2>1 DEF Shape
    <2>4. /\ p1 \in Parses /\ p1.reader = "StartRecord" /\ p1.field = p.field
          /\ p1.record = p.record /\ p1.records = p.records
      BY <1>0 DEF Parses, Readers
    <2>5. Closed(p) = EndRecord(EndField(p1)) BY <1>0, <1>2 DEF Closed
    <2> HIDE DEF p1
    <2>6. Sim(source, opt, s1, p1) BY <1>0, <2>1, <2>4 DEF Sim
    <2>7. f \in Shape(opt) /\ Stays(f, s1) /\ (f.error = OK => ScannerField(f, s1))
      BY <2>1, <2>3, ScannerEndsField
    <2> HIDE DEF f
    <2>8. CASE f.error # OK
      <3>1. r = f BY <2>2, <2>8
      <3>2. QED BY <2>1, <2>7, <2>8, <3>1 DEF Stays, r
    <2>9. CASE f.error = OK
      <3> DEFINE pf == EndField(p1)
      <3>1. r = FinishRecord(f) BY <2>2, <2>9
      <3>2. Sim(source, opt, f, pf) BY <2>3, <2>6, <2>7, <2>9, FieldSimulated
      <3>3. /\ Aside(f, s1) /\ f.recordStart = s1.recordStart /\ f.checkpoints = s1.checkpoints
            /\ f.rows = s1.rows
        BY <2>3, <2>7, <2>9, FieldAside
      <3>4. pf.records = p.records BY <2>4 DEF EndField, Parses
      <3> HIDE DEF pf
      <3>5. Indexed(source, opt, b, f) BY <1>0, <2>1, <3>3 DEF Indexed
      <3>6. Boundary(source, b, f.recordStart, Len(pf.records)) BY <1>0, <2>1, <3>3, <3>4
      <3>7. r \in Shape(opt) /\ Stays(r, f) BY <2>7, <2>9, <3>1, ScannerEndsRecord
      <3>8. ASSUME r.error = OK
            PROVE  /\ Sim(source, opt, r, Closed(p)) /\ Indexed(source, opt, b, r)
                   /\ r.bomResolved = s.bomResolved
        <4>1. ScannerRecord(r, f) BY <2>7, <2>9, <3>1, <3>8, ScannerEndsRecord
        <4>2. Sim(source, opt, r, EndRecord(pf)) /\ Indexed(source, opt, b, r)
          BY <2>7, <3>2, <3>5, <3>6, <4>1, RecordSimulated
        <4>3. Aside(r, f) BY <2>7, <4>1, RecordAside
        <4>4. QED BY <2>1, <2>5, <3>3, <4>2, <4>3 DEF Aside, pf
      <3>9. Stays(r, s) BY <2>1, <2>7, <3>7 DEF Stays
      <3>10. QED BY <3>7, <3>8, <3>9 DEF r, p
    <2>10. QED BY <2>8, <2>9
  <1>3. QED BY <1>1, <1>2

\* What the scan found when the source has ended.
Ended(b, s) ==
    /\ s.finished /\ s.parserOffset = Len(source)
    /\ Sim(source, opt, s, Closed(From(source, b, Len(source))))
    /\ Indexed(source, opt, b, s)

\* Finish leaves the scan in step with the closed parse.
LEMMA ScannerFinishes ==
  ASSUME opt \in Options, ValidOptions(opt), NEW b \in Nat, NEW s \in Shape(opt),
         Len(source) \in Nat, b <= Len(source), Scanned(b, s, Len(source))
  PROVE  /\ Finish(s) \in Shape(opt) /\ Stays(Finish(s), s)
         /\ Finish(s).error = OK => Ended(b, Finish(s))
  <1> DEFINE n == Len(source)
             u == UnclosedQuote(s, -1)
             l == LastScan(u)
             x == [l EXCEPT !.finished = TRUE]
             r == Finish(s)
  <1>s. /\ s \in Scanners /\ s.lexical.opening \in Int /\ s.error = OK /\ s.parserOffset = n
        /\ s.received \in Nat
    BY DEF Shape, Scanners, Trackers, Scanned
  <1>1. u \in Shape(opt) /\ Talks(u, s)
    <2>1. Talks(s, s) BY <1>s DEF Talks, Scanners
    <2>2. "malformed-quote" \in Kinds /\ -1 \in Int BY DEF Kinds
    <2>3. QED BY <1>s, <2>1, <2>2, ScannerTold DEF UnclosedQuote
  <1>2. Stays(u, s) BY <1>s, <1>1, TalksStays
  <1>3. r = IF u.error # OK THEN u ELSE IF l.error # OK THEN l ELSE x
    <2> HIDE DEF u
    <2>1. r = Then(Then(u, LastScan), LAMBDA z : [z EXCEPT !.finished = TRUE]) BY DEF Finish, LastScan, u
    <2> HIDE DEF r
    <2>2. QED BY <2>1 DEF Then
  <1> HIDE DEF u, r, n
  <1>4. CASE u.error # OK
    <2>1. r = u BY <1>3, <1>4
    <2>2. QED BY <1>1, <1>2, <1>4, <2>1 DEF r
  <1>5. ASSUME u.error = OK
        PROVE  /\ l \in Shape(opt) /\ Stays(l, u)
               /\ l.error = OK => /\ Sim(source, opt, l, Closed(From(source, b, n)))
                                  /\ Indexed(source, opt, b, l)
    <2>1. Scanned(b, u, n) BY <1>s, <1>1, <1>5, TalkKeeps DEF n
    <2>2. n \in Nat /\ b <= n BY DEF n
    <2>3. QED BY <1>1, <2>1, <2>2, ScannerLast
  <1> HIDE DEF l
  <1>6. CASE u.error = OK /\ l.error # OK
    <2>1. r = l BY <1>3, <1>6
    <2>2. QED BY <1>2, <1>5, <1>6, <2>1 DEF r, Stays
  <1>7. CASE u.error = OK /\ l.error = OK
    <2>1. r = x BY <1>3, <1>7
    <2>2. l \in Scanners BY <1>5, <1>7 DEF Shape
    <2>3. /\ x \in Scanners /\ x.finished /\ x.parserOffset = l.parserOffset /\ x.received = l.received
          /\ x.reader = l.reader /\ x.field = l.field /\ x.recordFields = l.recordFields
          /\ x.headerPending = l.headerPending /\ x.rows = l.rows
          /\ x.headerNames = l.headerNames /\ x.columns = l.columns
          /\ x.checkpoints = l.checkpoints /\ x.recordStart = l.recordStart
          /\ x.diagnostics = l.diagnostics
      BY <2>2 DEF Scanners
    <2> HIDE DEF x
    <2>4. x \in Shape(opt) BY <1>5, <1>7, <2>3 DEF Shape
    <2>5. Stays(x, s) BY <1>2, <1>5, <1>7, <2>3 DEF Stays
    <2>6. Sim(source, opt, x, Closed(From(source, b, n))) BY <1>5, <1>7, <2>3 DEF Sim
    <2>7. Indexed(source, opt, b, x) BY <1>5, <1>7, <2>3 DEF Indexed
    <2>8. x.parserOffset = n BY <1>s, <2>5 DEF Stays
    <2>9. Ended(b, x) BY <2>3, <2>6, <2>7, <2>8 DEF Ended, n
    <2>10. QED BY <2>1, <2>4, <2>5, <2>9 DEF r
  <1>8. QED BY <1>4, <1>6, <1>7

\* Where the text of a source begins.
HasBom(src) == Len(src) >= 3 /\ \A i \in 1..3 : src[i] = BOM[i]
Base(src) == IF HasBom(src) THEN 3 ELSE 0

\* The scanner while the first bytes are still those of a byte order mark.
Holding(o, n) == [NewScanner(o) EXCEPT !.received = n, !.bomPrefix = n]

\* The scanner: holding the first bytes, parsing, or at the end.
ScannerInv(s) ==
    /\ s \in Shape(opt) /\ s.received <= Len(source) /\ s.parserOffset <= s.received
    /\ s.error = OK =>
         \/ /\ ~s.bomResolved /\ s = Holding(opt, s.received) /\ s.received < 3
            /\ \A i \in 1..s.received : source[i] = BOM[i]
         \/ /\ s.bomResolved /\ ~s.finished /\ Base(source) <= s.received
            /\ s.hasRead \/ s.received = Base(source)
            /\ Scanned(Base(source), s, s.received) /\ Agree(s.lexical, s.reader)
         \/ Base(source) <= Len(source) /\ Ended(Base(source), s)

\* The scanner that holds a prefix, field by field.
LEMMA HoldingIs ==
  ASSUME opt \in Options, NEW n \in Nat
  PROVE  LET s == Holding(opt, n)
         IN  /\ s \in Shape(opt) /\ s.error = OK /\ ~s.finished /\ ~s.bomResolved
             /\ s.received = n /\ s.bomPrefix = n /\ s.parserOffset = 0 /\ s.recordStart = 0
             /\ s.reader = "StartRecord" /\ s.lexical = NewTracker
             /\ s.field = <<>> /\ s.recordFields = 0 /\ s.headerNames = <<>>
             /\ s.headerPending = opt.header /\ s.rows = 0 /\ s.columns = <<>>
             /\ s.checkpoints = <<>>
  <1> DEFINE s == Holding(opt, n)
             none == <<>>
             tr == NewTracker
             hp == opt.header
  <1>1. none \in Names /\ none \in Seq(Names) /\ none \in Seq(Marks) /\ none \in Seq(Told) /\ Len(none) = 0
    BY DEF Names
  <1>2. tr \in Trackers BY DEF NewTracker, Trackers
  <1>3. hp \in BOOLEAN /\ opt.maxFieldBytes \in Nat /\ opt.maxColumns \in Nat /\ opt.maxDiagnostics \in Nat
    BY DEF Options
  <1>4. s = [reader |-> "StartRecord", hasRead |-> FALSE, lexical |-> tr, bomPrefix |-> n, bomResolved |-> FALSE,
             received |-> n, parserOffset |-> 0, recordStart |-> 0,
             field |-> none, recordFields |-> 0, headerNames |-> none, headerPending |-> hp,
             rows |-> 0, columns |-> none, version |-> 0,
             checkpoints |-> none, diagnostics |-> none, finished |-> FALSE, error |-> OK]
    <2> DEFINE s0 == NewScanner(opt)
    <2>1. s0 = [reader |-> "StartRecord", hasRead |-> FALSE, lexical |-> tr, bomPrefix |-> 0, bomResolved |-> FALSE,
                received |-> 0, parserOffset |-> 0, recordStart |-> 0,
                field |-> none, recordFields |-> 0, headerNames |-> none, headerPending |-> hp,
                rows |-> 0, columns |-> none, version |-> 0,
                checkpoints |-> none, diagnostics |-> none, finished |-> FALSE, error |-> OK]
      BY Zenon DEF NewScanner
    <2>2. s = [s0 EXCEPT !.received = n, !.bomPrefix = n] BY DEF Holding
    <2> HIDE DEF s0, s, none, tr, hp
    <2>3. QED BY <2>1, <2>2
  <1>5. "StartRecord" \in Readers /\ OK \in Codes BY DEF Readers, Codes
  <1> HIDE DEF none, tr, hp, s
  <1>6. s \in Scanners BY <1>1, <1>2, <1>3, <1>4, <1>5 DEF Scanners
  <1>7. /\ s.error = OK /\ ~s.finished /\ ~s.bomResolved
        /\ s.received = n /\ s.bomPrefix = n /\ s.parserOffset = 0 /\ s.recordStart = 0
        /\ s.reader = "StartRecord" /\ s.lexical = tr
        /\ s.field = none /\ s.recordFields = 0 /\ s.headerNames = none
        /\ s.headerPending = hp /\ s.rows = 0 /\ s.columns = none
        /\ s.checkpoints = none /\ s.diagnostics = none
    BY <1>4
  <1>8. s \in Shape(opt) BY <1>1, <1>3, <1>6, <1>7 DEF Shape
  <1>9. QED BY <1>7, <1>8 DEF s, none, tr, hp

\* Where the parser begins: at the start, or after a byte order mark.
Started(s, b, n) ==
    /\ s \in Shape(opt) /\ s.error = OK /\ ~s.finished /\ s.bomResolved
    /\ s.received = n /\ s.parserOffset = b /\ s.recordStart = b
    /\ s.reader = "StartRecord" /\ s.lexical = NewTracker
    /\ s.field = <<>> /\ s.recordFields = 0 /\ s.headerNames = <<>>
    /\ s.headerPending = opt.header /\ s.rows = 0 /\ s.columns = <<>>
    /\ s.checkpoints = <<>>

\* A parser that begins is in step with the reference parser.
LEMMA StartedScans ==
  ASSUME opt \in Options, ValidOptions(opt), NEW b \in Nat, b <= Len(source), NEW n, NEW s, Started(s, b, n)
  PROVE  Scanned(b, s, b) /\ Agree(s.lexical, s.reader)
  <1> DEFINE p == From(source, b, b)
  <1>1. p = NoParse /\ p \in Parses BY ParseStages
  <1>2. /\ p.reader = "StartRecord" /\ p.field = <<>> /\ p.record = <<>> /\ p.records = <<>>
    BY <1>1 DEF NoParse
  <1>l. Len(<<>>) = 0 OBVIOUS
  <1>h. opt.header \in BOOLEAN /\ opt.interval \in Nat \ {0} BY DEF Options, ValidOptions
  <1> HIDE DEF p
  <1>3. Sim(source, opt, s, p)
    <2>1. NamesOf(source, <<>>) = <<>> BY <1>l DEF NamesOf
    <2>2. Widest(0, <<>>) BY <1>l DEF Widest
    <2>3. s.headerPending => /\ opt.header /\ p.records = <<>> /\ s.rows = 0
                             /\ s.headerNames = NamesOf(source, p.record)
      BY <1>2, <2>1 DEF Started
    <2>4. ~s.headerPending => Len(p.records) = s.rows + Hdr(opt) BY <1>2, <1>l DEF Started, Hdr
    <2>5. Widest(Len(s.columns), p.records) BY <1>2, <1>l, <2>2 DEF Started
    <2>6. ~(~s.headerPending /\ opt.header) BY DEF Started
    <2>7. s.reader = p.reader /\ s.field = p.field /\ s.recordFields = Len(p.record)
      BY <1>2, <1>l DEF Started
    <2>8. QED BY <1>1, <2>3, <2>4, <2>5, <2>6, <2>7 DEF Sim
  <1>4. Indexed(source, opt, b, s)
    <2>1. (0 + opt.interval - 1) \div opt.interval = 0 BY <1>h, Multiples
    <2>2. s.checkpoints = <<>> /\ s.rows = 0 BY DEF Started
    <2>3. QED BY <1>l, <2>1, <2>2 DEF Indexed
  <1>5. Boundary(source, b, s.recordStart, Len(p.records))
    <2>1. s.recordStart = b BY DEF Started
    <2>2. QED BY <1>2, <1>l, <2>1 DEF Boundary, Breaks, p
  <1>6. Scanned(b, s, b) BY <1>3, <1>4, <1>5 DEF Scanned, Started, p
  <1>7. Agree(s.lexical, s.reader) BY DEF Agree, Started, NewTracker
  <1>8. QED BY <1>6, <1>7

\* Where the byte order mark check stops.
LEMMA PrefixTakenIs ==
  ASSUME NEW held \in Nat, NEW to \in Nat, held < 3, held <= to
  PROVE  LET n == PrefixTaken(held, to)
         IN  /\ n \in Nat /\ held <= n /\ n <= to /\ n <= 3
             /\ n = Min2(3, to) \/ (n > 0 /\ Byte(n - 1) # BOM[n])
  <1> DEFINE k == Min2(3, to)
             S == {n \in held .. k : n = k \/ (n > held /\ Byte(n - 1) # BOM[n])}
  <1>1. k \in Nat /\ k <= to /\ k <= 3 /\ held <= k BY DEF Min2
  <1> HIDE DEF k
  <1>2. k \in S /\ S \in SUBSET Nat BY <1>1
  <1>3. PICK m \in S : \A x \in S : m <= x
    <2> HIDE DEF S
    <2>1. S # {} BY <1>2
    <2>2. QED BY <1>2, <2>1, Least
  <1>4. Min(S) \in S
    <2> HIDE DEF S
    <2>1. QED BY <1>3 DEF Min
  <1>5. PrefixTaken(held, to) = Min(S)
    <2> DEFINE U == {n \in held .. Min2(3, to) :
                      \/ n = Min2(3, to)
                      \/ n > held /\ Byte(n - 1) # BOM[n]}
    <2>1. U = S BY DEF k
    <2>2. PrefixTaken(held, to) = IF U = {} THEN held ELSE Min(U) BY DEF PrefixTaken
    <2> HIDE DEF U, S
    <2>3. QED BY <1>2, <2>1, <2>2
  <1> DEFINE n == Min(S)
  <1>6. n \in Nat /\ held <= n /\ n <= k /\ (n = k \/ (n > held /\ Byte(n - 1) # BOM[n]))
    <2> HIDE DEF n
    <2>1. n \in S BY <1>4 DEF n
    <2>2. QED BY <1>1, <2>1
  <1> HIDE DEF n, S
  <1>7. n <= to /\ n <= 3 /\ (n > held => n > 0) BY <1>1, <1>6
  <1>8. QED BY <1>5, <1>6, <1>7 DEF n, k

\* A scanner that has resolved the mark and parsed up to an offset.
Parsing(z, c, to) ==
    /\ z.bomResolved /\ ~z.finished /\ Base(source) <= c /\ (z.hasRead \/ c = Base(source))
    /\ Scanned(Base(source), z, c) /\ Agree(z.lexical, z.reader)

\* The text begins at the start or after the mark.
LEMMA BaseType ==
  ASSUME NEW src
  PROVE  Base(src) \in Nat /\ Base(src) \in {0, 3} /\ (Base(src) = 3 <=> HasBom(src))
  BY DEF Base

\* The mark of the file is the one at its start, and the text begins after it.
LEMMA MarkIsBom == /\ MarkAt(0) <=> HasBom(source)
                   /\ TextStart = Base(source)
  <1>1. \A i \in 1..3 : Byte(0 + i - 1) = source[i] BY DEF Byte
  <1>2. 0 + 3 <= Len(source) <=> Len(source) >= 3 OBVIOUS
  <1>3. MarkAt(0) <=> HasBom(source) BY <1>1, <1>2, Zenon DEF MarkAt, HasBom
  <1>4. QED BY <1>3 DEF TextStart, Base

\* A reader that has read, or whose text does not begin with a mark, drops none.
LEMMA NoneDropped ==
  ASSUME NEW r, NEW b, NEW from, NEW to, r.hasRead \/ from = b, ~MarkAt(b)
  PROVE  ~DropsMark(r, from, to)
  BY DEF DropsMark

\* ResolveBom holds the prefix, skips the mark, or parses the bytes it held.
LEMMA ScannerResolves ==
  ASSUME opt \in Options, ValidOptions(opt), Len(source) \in Nat,
         NEW held \in Nat, NEW to \in Nat, held < 3, held <= to, to <= Len(source),
         \A i \in 1..held : source[i] = BOM[i],
         NEW eof, eof <=> to = Len(source)
  PROVE  LET r == ResolveBom([Holding(opt, held) EXCEPT !.received = to], to, eof)
             z == r.state
         IN  /\ z \in Shape(opt) /\ z.received = to /\ z.parserOffset <= to
             /\ r.cursor \in Nat /\ r.cursor <= to
             /\ z.error = OK =>
                  \/ /\ ~z.bomResolved /\ z = Holding(opt, to) /\ to < 3 /\ ~eof
                     /\ \A i \in 1..to : source[i] = BOM[i]
                  \/ Parsing(z, r.cursor, to)
  <1> DEFINE s == Holding(opt, held)
             s1 == [s EXCEPT !.received = to]
             n == PrefixTaken(held, to)
             v == [s1 EXCEPT !.bomPrefix = 0, !.bomResolved = TRUE]
             a == [s1 EXCEPT !.bomPrefix = n]
             w == [v EXCEPT !.parserOffset = 3, !.recordStart = 3]
             x == ProcessBytes(v, 0, n)
             r == ResolveBom(s1, to, eof)
  <1>1. /\ s \in Shape(opt) /\ s.error = OK /\ ~s.finished /\ ~s.bomResolved
        /\ s.received = held /\ s.bomPrefix = held /\ s.parserOffset = 0 /\ s.recordStart = 0
        /\ s.reader = "StartRecord" /\ s.lexical = NewTracker
        /\ s.field = <<>> /\ s.recordFields = 0 /\ s.headerNames = <<>>
        /\ s.headerPending = opt.header /\ s.rows = 0 /\ s.columns = <<>>
        /\ s.checkpoints = <<>>
    BY HoldingIs
  <1>2. /\ n \in Nat /\ held <= n /\ n <= to /\ n <= 3
        /\ n = Min2(3, to) \/ (n > 0 /\ Byte(n - 1) # BOM[n])
    BY PrefixTakenIs
  <1>s. s \in Scanners BY <1>1 DEF Shape
  <1>o. [NewScanner(opt) EXCEPT !.received = held, !.bomPrefix = held] = s BY DEF Holding
  <1>h. /\ [s EXCEPT !.received = to, !.bomPrefix = to] = Holding(opt, to)
        /\ s1 = [s EXCEPT !.received = to]
    <2> DEFINE s0 == NewScanner(opt)
    <2>1. s0 = [reader |-> "StartRecord", hasRead |-> FALSE, lexical |-> NewTracker, bomPrefix |-> 0, bomResolved |-> FALSE,
                received |-> 0, parserOffset |-> 0, recordStart |-> 0,
                field |-> <<>>, recordFields |-> 0, headerNames |-> <<>>, headerPending |-> opt.header,
                rows |-> 0, columns |-> <<>>, version |-> 0,
                checkpoints |-> <<>>, diagnostics |-> <<>>, finished |-> FALSE, error |-> OK]
      BY Zenon DEF NewScanner
    <2>2. s = [s0 EXCEPT !.received = held, !.bomPrefix = held] BY DEF Holding
    <2>3. Holding(opt, to) = [s0 EXCEPT !.received = to, !.bomPrefix = to] BY DEF Holding
    <2> HIDE DEF s0, s
    <2>4. [s EXCEPT !.received = to, !.bomPrefix = to] = Holding(opt, to) BY <2>1, <2>2, <2>3
    <2>5. QED BY <2>4
  <1> HIDE DEF s, n
  <1>p. IsBomPrefix(n) <=> \A i \in 1..n : source[i] = BOM[i]
    <2>1. \A i \in 1..n : Byte(i - 1) = source[i]
      <3> SUFFICES ASSUME NEW i \in 1..n PROVE Byte(i - 1) = source[i] OBVIOUS
      <3>1. (i - 1) + 1 = i BY <1>2
      <3>2. QED BY <3>1 DEF Byte
    <2>2. QED BY <2>1 DEF IsBomPrefix
  <1>k. /\ s1.bomPrefix = held /\ s1 \in Scanners
        /\ s1 = [s EXCEPT !.received = to]
    BY <1>s, <1>1 DEF Scanners
  <1>3. /\ IsBomPrefix(n) /\ n < 3 /\ ~eof => r = [state |-> a, cursor |-> n]
        /\ IsBomPrefix(n) /\ n = 3 => r = [state |-> w, cursor |-> n]
        /\ ~(IsBomPrefix(n) /\ n < 3 /\ ~eof) /\ ~(IsBomPrefix(n) /\ n = 3) =>
             r = [state |-> x, cursor |-> n]
    <2>1. PrefixTaken(s1.bomPrefix, to) = n BY <1>k DEF n
    <2> HIDE DEF s1
    <2>2. r = IF IsBomPrefix(n) /\ n < 3 /\ ~eof THEN [state |-> a, cursor |-> n]
              ELSE IF IsBomPrefix(n) /\ n = 3 THEN [state |-> w, cursor |-> n]
              ELSE [state |-> x, cursor |-> n]
      BY <2>1, Zenon DEF ResolveBom
    <2> HIDE DEF r, a, w, x
    <2>3. n = 3 => ~(n < 3) OBVIOUS
    <2>4. QED BY <2>2, <2>3
  <1>v. Started(v, 0, to)
    <2>1. /\ v \in Scanners /\ v.error = OK /\ ~v.finished /\ v.bomResolved
          /\ v.received = to /\ v.parserOffset = 0 /\ v.recordStart = 0
          /\ v.reader = "StartRecord" /\ v.lexical = NewTracker
          /\ v.field = <<>> /\ v.recordFields = 0 /\ v.headerNames = <<>>
          /\ v.headerPending = opt.header /\ v.rows = 0 /\ v.columns = <<>>
          /\ v.checkpoints = <<>> /\ v.diagnostics = s.diagnostics
      BY <1>s, <1>1 DEF Scanners
    <2> HIDE DEF v
    <2>2. v \in Shape(opt) BY <1>1, <2>1 DEF Shape
    <2>3. QED BY <2>1, <2>2 DEF Started
  <1>w. Started(w, 3, to)
    <2>0. v \in Scanners BY <1>v DEF Started, Shape
    <2> HIDE DEF v
    <2>1. /\ w \in Scanners /\ w.error = OK /\ ~w.finished /\ w.bomResolved
          /\ w.received = to /\ w.parserOffset = 3 /\ w.recordStart = 3
          /\ w.reader = "StartRecord" /\ w.lexical = NewTracker
          /\ w.field = <<>> /\ w.recordFields = 0 /\ w.headerNames = <<>>
          /\ w.headerPending = opt.header /\ w.rows = 0 /\ w.columns = <<>>
          /\ w.checkpoints = <<>> /\ w.diagnostics = v.diagnostics
      BY <1>v, <2>0 DEF Scanners, Started
    <2> HIDE DEF w
    <2>2. w \in Shape(opt) BY <1>v, <2>1 DEF Shape, Started
    <2>3. QED BY <2>1, <2>2 DEF Started
  <1>a. n = to => a = Holding(opt, to)
    <2>1. [s1 EXCEPT !.bomPrefix = to] = [s EXCEPT !.received = to, !.bomPrefix = to]
      BY <1>s DEF Scanners
    <2>2. QED BY <1>h, <2>1
  <1> HIDE DEF s1, v, w, a, r
  <1>4. CASE IsBomPrefix(n) /\ n < 3 /\ ~eof
    <2>1. r = [state |-> a, cursor |-> n] BY <1>3, <1>4
    <2>2. n = to
      <3>1. n = Min2(3, to)
        <4>1. ASSUME n > 0 PROVE Byte(n - 1) = BOM[n]
          <5>1. n \in 1..n /\ (n - 1) + 1 = n BY <1>2, <4>1
          <5>2. QED BY <1>p, <1>4, <5>1 DEF Byte
        <4>2. QED BY <1>2, <4>1
      <3>2. QED BY <1>2, <1>4, <3>1 DEF Min2
    <2>3. a = Holding(opt, to) BY <1>a, <2>2
    <2>4. /\ a \in Shape(opt) /\ a.received = to /\ a.parserOffset = 0 /\ ~a.bomResolved
      BY <2>3, HoldingIs
    <2>5. r.state = a /\ r.cursor = n BY <2>1
    <2>6. \A i \in 1..to : source[i] = BOM[i] BY <1>p, <1>4, <2>2
    <2>7. QED BY <1>2, <1>4, <2>2, <2>3, <2>4, <2>5, <2>6 DEF r, s1, s
  <1>5. CASE IsBomPrefix(n) /\ n = 3
    <2>1. r = [state |-> w, cursor |-> n] BY <1>3, <1>5
    <2>2. HasBom(source) BY <1>2, <1>p, <1>5 DEF HasBom
    <2>3. Base(source) = 3 BY <2>2, BaseType
    <2>4. Scanned(3, w, 3) /\ Agree(w.lexical, w.reader)
      <3>1. 3 \in Nat /\ 3 <= Len(source) BY <2>2 DEF HasBom
      <3>2. QED BY <1>w, <3>1, StartedScans
    <2>5. r.state = w /\ r.cursor = 3 BY <1>5, <2>1
    <2>6. Parsing(w, 3, to) BY <1>w, <2>3, <2>4 DEF Parsing, Started
    <2>7. w \in Shape(opt) /\ w.received = to /\ w.parserOffset = 3 BY <1>w DEF Started
    <2>8. QED BY <1>2, <1>5, <2>5, <2>6, <2>7 DEF r, s1, s
  <1>6. CASE ~(IsBomPrefix(n) /\ n < 3 /\ ~eof) /\ ~(IsBomPrefix(n) /\ n = 3)
    <2>1. r = [state |-> x, cursor |-> n] BY <1>3, <1>6
    <2>2. ~HasBom(source)
      <3>1. CASE IsBomPrefix(n)
        <4>1. n < 3 /\ to = Len(source) BY <1>2, <1>6, <3>1
        <4>2. n = Min2(3, to)
          <5>1. ASSUME n > 0 PROVE Byte(n - 1) = BOM[n]
            <6>1. n \in 1..n /\ (n - 1) + 1 = n BY <1>2, <5>1
            <6>2. QED BY <1>p, <3>1, <6>1 DEF Byte
          <5>2. QED BY <1>2, <5>1
        <4>3. to < 3 BY <4>1, <4>2 DEF Min2
        <4>4. QED BY <4>1, <4>3 DEF HasBom
      <3>2. CASE ~IsBomPrefix(n)
        <4>1. PICK i \in 1..n : source[i] # BOM[i] BY <1>p, <3>2
        <4>2. i \in 1..3 BY <1>2
        <4>3. QED BY <4>1, <4>2 DEF HasBom
      <3>3. QED BY <3>1, <3>2
    <2>3. Base(source) = 0 BY <2>2 DEF Base
    <2>4. Scanned(0, v, 0) /\ Agree(v.lexical, v.reader) /\ v \in Shape(opt) /\ v.received = to
          /\ v.bomResolved /\ ~v.finished
      <3>1. 0 \in Nat /\ 0 <= Len(source) OBVIOUS
      <3>2. Scanned(0, v, 0) /\ Agree(v.lexical, v.reader) BY <1>v, <3>1, StartedScans
      <3>3. QED BY <1>v, <3>2 DEF Started
    <2>z. 0 \in Nat /\ 0 <= n /\ n \in Nat /\ n <= Len(source) BY <1>2
    <2>5. /\ x \in Shape(opt) /\ x.received = v.received /\ x.parserOffset <= n
          /\ x.error = OK => /\ Scanned(0, x, n) /\ Agree(x.lexical, x.reader) /\ x.hasRead
                             /\ x.bomResolved = v.bomResolved /\ x.finished = v.finished
      <3>1. Scanned(0, v, 0) /\ Agree(v.lexical, v.reader) /\ v \in Shape(opt) BY <2>4
      <3>2. ~DropsMark(v, 0, n) BY <1>2, <2>2, MarkIsBom DEF DropsMark
      <3>3. QED BY <2>z, <3>1, <3>2, ScannerProcesses
    <2> HIDE DEF x
    <2>6. r.state = x /\ r.cursor = n BY <2>1
    <2>7. x.error = OK => Parsing(x, n, to) BY <2>3, <2>4, <2>5, <2>z DEF Parsing
    <2>8. x.parserOffset \in Nat /\ x.parserOffset <= to BY <1>2, <2>5 DEF Shape, Scanners
    <2>9. QED BY <1>2, <2>4, <2>5, <2>6, <2>7, <2>8 DEF r, s1, s
  <1>7. QED BY <1>2, <1>4, <1>5, <1>6

\* The rest of the chunk, and the end of the source.
LEMMA ScannerGoesOn ==
  ASSUME opt \in Options, ValidOptions(opt), Len(source) \in Nat,
         NEW z \in Shape(opt), NEW c \in Nat, NEW to \in Nat, c <= to, to <= Len(source),
         z.received = to, Parsing(z, c, to), PlainStart
  PROVE  LET y == IF c < to THEN ProcessBytes(z, c, to) ELSE z
             r == IF y.error = OK /\ to = Len(source) THEN Finish(y) ELSE y
         IN  ScannerInv(r)
  <1> DEFINE y == IF c < to THEN ProcessBytes(z, c, to) ELSE z
             r == IF y.error = OK /\ to = Len(source) THEN Finish(y) ELSE y
             b == Base(source)
  <1>0. b \in Nat BY BaseType
  <1>1. /\ z.bomResolved /\ ~z.finished /\ b <= c /\ Scanned(b, z, c) /\ Agree(z.lexical, z.reader)
        /\ z.hasRead \/ c = b
    BY DEF Parsing
  <1>m. ~DropsMark(z, c, to)
    <2>1. ~MarkAt(b) BY MarkIsBom DEF PlainStart
    <2> HIDE DEF b
    <2>2. QED BY <1>1, <2>1, NoneDropped
  <1> HIDE DEF b
  <1>2. /\ y \in Shape(opt) /\ y.received = to /\ y.parserOffset <= to
        /\ y.error = OK => /\ Scanned(b, y, to) /\ Agree(y.lexical, y.reader)
                           /\ y.bomResolved /\ ~y.finished /\ (y.hasRead \/ to = b)
    <2>1. CASE c < to
      <3> DEFINE x == ProcessBytes(z, c, to)
      <3>1. /\ x \in Shape(opt) /\ x.received = z.received /\ x.parserOffset <= to
            /\ x.error = OK => /\ Scanned(b, x, to) /\ Agree(x.lexical, x.reader) /\ x.hasRead
                               /\ x.bomResolved = z.bomResolved /\ x.finished = z.finished
        <4>1. b <= c /\ Scanned(b, z, c) /\ Agree(z.lexical, z.reader) BY <1>1
        <4>2. QED BY <1>0, <1>m, <4>1, ScannerProcesses
      <3>2. y = x BY <2>1
      <3> HIDE DEF x, y
      <3>3. QED BY <1>1, <3>1, <3>2
    <2>2. CASE ~(c < to)
      <3>1. y = z /\ c = to BY <2>2
      <3>2. QED BY <1>1, <3>1 DEF Scanned
    <2>3. QED BY <2>1, <2>2
  <1> HIDE DEF y
  <1>3. b <= to /\ y.parserOffset \in Nat BY <1>0, <1>1, <1>2 DEF Shape, Scanners
  <1>4. CASE y.error = OK /\ to = Len(source)
    <2>1. r = Finish(y) BY <1>4
    <2>2. Finish(y) \in Shape(opt) /\ Stays(Finish(y), y)
          /\ (Finish(y).error = OK => Ended(b, Finish(y)))
      BY <1>0, <1>2, <1>3, <1>4, ScannerFinishes
    <2> HIDE DEF r
    <2>3. r \in Shape(opt) /\ r.received = to /\ r.parserOffset <= to /\ (r.error = OK => Ended(b, r))
      BY <1>2, <2>1, <2>2 DEF Stays
    <2>4. ScannerInv(r) BY <1>3, <1>4, <2>3 DEF ScannerInv, b
    <2>5. QED BY <2>4 DEF r, y
  <1>5. CASE ~(y.error = OK /\ to = Len(source))
    <2>1. r = y BY <1>5
    <2>2. ScannerInv(y) BY <1>2, <1>3 DEF ScannerInv, b
    <2>3. QED BY <2>1, <2>2 DEF r, y
  <1>6. QED BY <1>4, <1>5

\* The two steps after the byte order mark.
ParseRest(z, c, to) == IF z.bomResolved /\ c < to THEN ProcessBytes(z, c, to) ELSE z
CloseAtEnd(z, to) == IF to = Len(source) THEN Finish(z) ELSE z

\* However a source is cut, a chunk keeps the scanner so.
LEMMA ScannerFeeds ==
  ASSUME opt \in Options, ValidOptions(opt), Len(source) \in Nat,
         NEW s, ScannerInv(s), s.error = OK, ~s.finished, PlainStart,
         NEW to \in Nat, s.received <= to, to <= Len(source)
  PROVE  ScannerInv(FeedChunk(s, to))
  <1> DEFINE eof == to = Len(source)
             s1 == [s EXCEPT !.received = to]
             r == IF s.bomResolved THEN [state |-> s1, cursor |-> s.received] ELSE ResolveBom(s1, to, eof)
             z == r.state
             c == r.cursor
             y == IF z.bomResolved /\ c < to THEN ProcessBytes(z, c, to) ELSE z
             x == IF eof THEN Finish(y) ELSE y
             R == FeedChunk(s, to)
  <1>s. s \in Shape(opt) /\ s \in Scanners /\ s.received \in Nat BY DEF ScannerInv, Shape, Scanners
  <1>1. R = IF z.error # OK THEN z ELSE IF y.error # OK THEN y ELSE x
    <2>1. R = Then(Then(z, LAMBDA q : ParseRest(q, c, to)), LAMBDA q : CloseAtEnd(q, to))
      BY DEF FeedChunk, ParseRest, CloseAtEnd
    <2>2. y = ParseRest(z, c, to) BY DEF ParseRest
    <2>3. x = CloseAtEnd(y, to) BY DEF CloseAtEnd
    <2> HIDE DEF z, c, y, x, R
    <2>4. QED BY <2>1, <2>2, <2>3 DEF Then
  <1>2. /\ z \in Shape(opt) /\ z.received = to /\ z.parserOffset <= to
        /\ c \in Nat /\ c <= to
        /\ z.error = OK =>
             \/ /\ ~z.bomResolved /\ z = Holding(opt, to) /\ to < 3 /\ ~eof
                /\ \A i \in 1..to : source[i] = BOM[i]
             \/ Parsing(z, c, to)
    <2>1. CASE s.bomResolved
      <3>1. z = s1 /\ c = s.received BY <2>1
      <3>2. /\ Base(source) <= s.received /\ Scanned(Base(source), s, s.received)
            /\ Agree(s.lexical, s.reader) /\ (s.hasRead \/ s.received = Base(source))
        <4>1. s = Holding(opt, s.received) => ~s.bomResolved BY <1>s, HoldingIs
        <4>2. ~Ended(Base(source), s) BY DEF Ended
        <4>3. QED BY <2>1, <4>1, <4>2 DEF ScannerInv
      <3>3. /\ s1 \in Scanners /\ s1.received = to /\ s1.parserOffset = s.parserOffset /\ s1.error = OK
            /\ s1.hasRead = s.hasRead
            /\ s1.bomResolved /\ ~s1.finished /\ s1.lexical = s.lexical
            /\ s1.reader = s.reader /\ s1.field = s.field /\ s1.recordFields = s.recordFields
            /\ s1.headerPending = s.headerPending /\ s1.rows = s.rows
            /\ s1.headerNames = s.headerNames /\ s1.columns = s.columns
            /\ s1.checkpoints = s.checkpoints /\ s1.recordStart = s.recordStart
            /\ s1.diagnostics = s.diagnostics
        BY <1>s, <2>1 DEF Scanners
      <3> HIDE DEF s1, z, c
      <3>4. s1 \in Shape(opt) BY <1>s, <3>3 DEF Shape
      <3>5. Scanned(Base(source), s1, s.received) BY <3>2, <3>3 DEF Scanned, Sim, Indexed
      <3>6. Parsing(s1, s.received, to) BY <3>2, <3>3, <3>5 DEF Parsing
      <3>7. s1.parserOffset <= to
        <4>1. s.parserOffset = s.received BY <3>2 DEF Scanned
        <4>2. QED BY <3>3, <4>1
      <3>8. QED BY <1>s, <3>1, <3>3, <3>4, <3>6, <3>7
    <2>2. CASE ~s.bomResolved
      <3> DEFINE held == s.received
      <3>1. s = Holding(opt, held) /\ held < 3 /\ \A i \in 1..held : source[i] = BOM[i]
        <4>1. ~Ended(Base(source), s) BY DEF Ended
        <4>2. QED BY <2>2, <4>1 DEF ScannerInv
      <3>2. r = ResolveBom([Holding(opt, held) EXCEPT !.received = to], to, eof)
        <4>1. r = ResolveBom(s1, to, eof) BY <2>2
        <4> HIDE DEF r, eof, held
        <4>2. QED BY <3>1, <4>1
      <3>3. held \in Nat /\ held <= to BY <1>s
      <3>4. eof <=> to = Len(source) OBVIOUS
      <3> HIDE DEF r, held, eof
      <3>5. QED BY <3>1, <3>2, <3>3, <3>4, ScannerResolves
    <2>3. QED BY <2>1, <2>2
  <1>3. eof <=> to = Len(source) OBVIOUS
  <1> HIDE DEF z, c, R, eof
  <1>4. CASE z.error # OK
    <2>1. R = z BY <1>1, <1>4
    <2>2. ScannerInv(z) BY <1>2, <1>4 DEF ScannerInv
    <2>3. QED BY <2>1, <2>2 DEF R
  <1>5. CASE z.error = OK /\ ~Parsing(z, c, to)
    <2>1. /\ ~z.bomResolved /\ z = Holding(opt, to) /\ to < 3 /\ ~eof
          /\ \A i \in 1..to : source[i] = BOM[i]
      BY <1>2, <1>5
    <2>2. R = z BY <1>1, <1>5, <2>1
    <2>3. ScannerInv(z) BY <1>2, <2>1 DEF ScannerInv
    <2>4. QED BY <2>2, <2>3 DEF R
  <1>6. CASE z.error = OK /\ Parsing(z, c, to)
    <2> DEFINE yy == IF c < to THEN ProcessBytes(z, c, to) ELSE z
               rr == IF yy.error = OK /\ to = Len(source) THEN Finish(yy) ELSE yy
    <2>1. ScannerInv(rr) BY <1>2, <1>6, ScannerGoesOn
    <2>2. z.bomResolved BY <1>6 DEF Parsing
    <2>3. y = yy BY <2>2
    <2>4. R = rr
      <3> HIDE DEF y, yy
      <3>1. QED BY <1>1, <1>3, <1>6, <2>3
    <2>5. QED BY <2>1, <2>4 DEF R
  <1>7. QED BY <1>4, <1>5, <1>6

-----------------------------------------------------------------------------
(* The decoder's steps.                                                     *)

\* A limit that is reached leaves the decoder within its limits.
LEMMA DecoderRefused ==
  ASSUME NEW o, NEW q, NEW d \in Reading(o, q)
  PROVE  Refused(d) \in Reading(o, q) /\ Refused(d).error # OK
  BY DEF Refused, Reading, Decoders, Codes, OK

\* A byte is copied to the field, within max_field_bytes.
LEMMA DecoderCopies ==
  ASSUME opt \in Options, NEW q, NEW d \in Reading(opt, q), NEW o \in Int
  PROVE  /\ AppendField(d, o) \in Reading(opt, q)
         /\ AppendField(d, o).error = OK => AppendField(d, o) = [d EXCEPT !.field = Append(d.field, o)]
  <1>1. AppendField(d, o) = IF Len(d.field) + 1 > opt.maxFieldBytes THEN Refused(d)
                            ELSE [d EXCEPT !.field = Append(d.field, o)]
    BY DEF AppendField, Fail, Refused
  <1> DEFINE f == Append(d.field, o)
             r == [d EXCEPT !.field = f]
  <1>2. d \in Decoders(q) /\ d.field \in Seq(Int) BY DEF Reading, Decoders, Names
  <1>3. f \in Names /\ Len(f) = Len(d.field) + 1 BY <1>2 DEF Names
  <1>4. ASSUME ~(Len(d.field) + 1 > opt.maxFieldBytes)
        PROVE  r \in Reading(opt, q)
    <2>1. Len(f) <= opt.maxFieldBytes BY <1>2, <1>3, <1>4, OptionTypes
    <2> HIDE DEF f
    <2>2. /\ r \in Decoders(q) /\ r.field = f /\ r.diagnostics = d.diagnostics
          /\ r.batchBytes = d.batchBytes
      BY <1>2, <1>3 DEF Decoders
    <2> HIDE DEF r
    <2>3. QED BY <2>1, <2>2 DEF Reading
  <1> HIDE DEF r, f
  <1>5. QED BY <1>1, <1>4, DecoderRefused DEF r, f

\* A byte through csv_core, before what it ends.
DecoderMove(d, t, o) ==
    Then(IF t.copy THEN AppendField(d, o) ELSE d,
         LAMBDA z : [z EXCEPT !.reader = t.to, !.expected = @ + 1])

\* Where the byte leads when nothing fails.
Forward(d, t, n, o) ==
    [d EXCEPT !.reader = t.to, !.expected = n,
              !.field = IF t.copy THEN Append(d.field, o) ELSE d.field]

\* A byte moves the decoder so, or a limit stops it.
LEMMA DecoderMoves ==
  ASSUME opt \in Options, NEW q, NEW d \in Reading(opt, q), d.error = OK, NEW t \in Moves, NEW o \in Int
  PROVE  LET r == DecoderMove(d, t, o)
         IN  /\ r \in Reading(opt, q)
             /\ r.error = OK => r = Forward(d, t, d.expected + 1, o)
  <1> DEFINE c == IF t.copy THEN AppendField(d, o) ELSE d
             n == c.expected + 1
             f == IF t.copy THEN Append(d.field, o) ELSE d.field
             x == [c EXCEPT !.reader = t.to, !.expected = n]
             r == DecoderMove(d, t, o)
  <1>s. d \in Decoders(q) BY DEF Reading
  <1>1. r = IF c.error = OK THEN x ELSE c BY DEF DecoderMove, Then
  <1>2. /\ c \in Reading(opt, q)
        /\ c.error = OK => c = [d EXCEPT !.field = f]
    <2>1. CASE t.copy BY <2>1, DecoderCopies
    <2>2. CASE ~t.copy
      <3>1. d = [d EXCEPT !.field = d.field] BY <1>s DEF Decoders
      <3>2. QED BY <2>2, <3>1
    <2>3. QED BY <2>1, <2>2
  <1> HIDE DEF c, r, f
  <1>3. CASE c.error # OK
    <2>1. r = c BY <1>1, <1>3
    <2>2. QED BY <1>2, <1>3, <2>1 DEF r
  <1>4. CASE c.error = OK
    <2>1. r = x BY <1>1, <1>4
    <2>2. c \in Decoders(q) /\ t.to \in Readers BY <1>2 DEF Reading, Moves
    <2>3. n \in Nat BY <2>2 DEF Decoders
    <2>4. n = d.expected + 1 BY <1>s, <1>2, <1>4 DEF Decoders
    <2> HIDE DEF n
    <2>5. /\ x \in Decoders(q) /\ x.field = c.field /\ x.diagnostics = c.diagnostics
          /\ x.batchBytes = c.batchBytes
      BY <2>2, <2>3 DEF Decoders
    <2>6. x = [d EXCEPT !.reader = t.to, !.expected = n, !.field = f]
      BY <1>s, <1>2, <1>4 DEF Decoders
    <2> HIDE DEF x
    <2>7. x \in Reading(opt, q) BY <1>2, <2>5 DEF Reading
    <2>8. QED BY <2>1, <2>4, <2>6, <2>7 DEF r, f, Forward
  <1>5. QED BY <1>3, <1>4

\* A field: a cell of the row when its column is asked for.
Wanted(d, q) == InRange(d) /\ d.fieldIndex + 1 \in q.columnStart + 1 .. ColumnEnd(q)
\* The cells of the row, with one more.
Put(cells, i, cell) == [cells EXCEPT ![i] = <<cell>>]
Took(d, q) ==
    IF Wanted(d, q) THEN Put(d.selected, (d.fieldIndex + 1) - q.columnStart, Lossy(d.field))
    ELSE d.selected
DecoderField(r, d, q) ==
    r = [d EXCEPT !.diagnostics = r.diagnostics, !.fieldIndex = d.fieldIndex + 1,
                  !.selected = Took(d, q), !.field = <<>>]

\* A selected row keeps its columns.
LEMMA TookType ==
  ASSUME opt \in Options, NEW q \in Rectangles, NEW d \in Reading(opt, q)
  PROVE  Took(d, q) \in Rows(q)
  <1>1. d.selected \in Rows(q) /\ d.fieldIndex \in Nat /\ d.field \in Names BY DEF Reading, Decoders
  <1>2. Lossy(d.field) \in Names BY <1>1, LossyIsRun, LossyType
  <1> DEFINE l == Lossy(d.field)
  <1> HIDE DEF l
  <1>3. l \in Names /\ <<l>> \in Seq(Names) BY <1>2 DEF l
  <1>4. q.columnStart \in Nat /\ q.columnCount \in Nat BY DEF Rectangles
  <1>5. Took(d, q) = IF Wanted(d, q) THEN Put(d.selected, (d.fieldIndex + 1) - q.columnStart, l)
                     ELSE d.selected
    BY DEF Took, l
  <1>6. QED BY <1>1, <1>3, <1>5 DEF Rows, Put

\* DecodeField counts the field and keeps a wanted cell.
LEMMA DecoderEndsField ==
  ASSUME opt \in Options, NEW q \in Rectangles, NEW d \in Reading(opt, q), d.error = OK
  PROVE  /\ DecodeField(d) \in Reading(opt, q)
         /\ DecodeField(d).error = OK => DecoderField(DecodeField(d), d, q)
  <1> DEFINE n == d.fieldIndex + 1
             d1 == [d EXCEPT !.fieldIndex = n]
             wanted == InRange(d) /\ n \in d.request.columnStart + 1 .. ColumnEnd(d.request)
             e == IF wanted /\ ~ValidUtf8(d1.field)
                  THEN HandleDiagnostic(d1, "invalid-utf8", d1.row, d1.expected) ELSE d1
             sel(z) == IF wanted THEN [z.selected EXCEPT ![n - z.request.columnStart] = <<Lossy(z.field)>>]
                       ELSE z.selected
             x == [e EXCEPT !.selected = sel(e), !.field = <<>>]
             r == DecodeField(d)
  <1>0. d \in Decoders(q) /\ d.request = q BY DEF Reading, Decoders
  <1>1. /\ n \in Nat /\ d1 \in Reading(opt, q) /\ d1.error = OK /\ d1.row \in Int /\ d1.expected \in Int
    <2>1. n \in Nat BY <1>0 DEF Decoders
    <2> HIDE DEF n
    <2>2. d1 \in Decoders(q) /\ d1.field = d.field /\ d1.diagnostics = d.diagnostics
          /\ d1.batchBytes = d.batchBytes /\ d1.error = d.error
      BY <1>0, <2>1 DEF Decoders
    <2> HIDE DEF d1
    <2>3. d1.row \in Int /\ d1.expected \in Int BY <2>2 DEF Decoders
    <2>4. QED BY <2>1, <2>2, <2>3 DEF Reading
  <1>4. r = IF n > opt.maxColumns THEN Refused(d1) ELSE IF e.error = OK THEN x ELSE e
    BY DEF DecodeField, Fail, Refused, Then
  <1>w. wanted <=> Wanted(d, q) BY <1>0 DEF Wanted
  <1>l. wanted => (\A z : sel(z) = [z.selected EXCEPT ![n - z.request.columnStart] = <<Lossy(z.field)>>])
    OBVIOUS
  <1>m. ~wanted => (\A z : sel(z) = z.selected) OBVIOUS
  <1> HIDE DEF wanted
  <1>3. e \in Reading(opt, q) /\ Talks(e, d1)
    <2> HIDE DEF d1
    <2>1. Talks(d1, d1) BY <1>1 DEF Talks, Reading, Decoders
    <2>2. "invalid-utf8" \in Kinds BY DEF Kinds
    <2>3. QED BY <1>1, <2>1, <2>2, DecoderTold
  <1> HIDE DEF r, e
  <1>5. CASE n > opt.maxColumns
    <2>1. r = Refused(d1) BY <1>4, <1>5
    <2> HIDE DEF d1
    <2>2. QED BY <1>1, <2>1, DecoderRefused DEF r
  <1>6. CASE ~(n > opt.maxColumns) /\ e.error # OK
    <2>1. r = e BY <1>4, <1>6
    <2>2. QED BY <1>3, <1>6, <2>1 DEF r
  <1>7. CASE ~(n > opt.maxColumns) /\ e.error = OK
    <2>1. r = x BY <1>4, <1>7
    <2> DEFINE m == Took(d, q)
    <2>2. d1 \in Decoders(q) BY <1>1 DEF Reading
    <2>3. e = [d1 EXCEPT !.diagnostics = e.diagnostics]
      <3> HIDE DEF d1
      <3>1. QED BY <1>1, <1>3, <1>7, <2>2 DEF Talks, Decoders
    <2>4. e.selected = d.selected /\ e.field = d.field /\ e.request = q
      <3>1. d1.selected = d.selected /\ d1.field = d.field /\ d1.request = q
        <4> HIDE DEF n
        <4>1. QED BY <1>0, <1>1 DEF Decoders
      <3> HIDE DEF d1
      <3>2. QED BY <2>2, <2>3, <3>1 DEF Decoders
    <2>5. sel(e) = m
      <3>1. CASE wanted
        <4>1. sel(e) = [e.selected EXCEPT ![n - e.request.columnStart] = <<Lossy(e.field)>>] BY <3>1
        <4>2. m = Put(d.selected, n - q.columnStart, Lossy(d.field)) BY <1>w, <3>1 DEF Took
        <4> HIDE DEF sel, m, n
        <4>3. QED BY <2>4, <4>1, <4>2 DEF Put
      <3>2. CASE ~wanted BY <1>m, <1>w, <2>4, <3>2 DEF Took
      <3>3. QED BY <3>1, <3>2
    <2>6. m \in Rows(q) BY TookType
    <2>7. x = [e EXCEPT !.selected = m, !.field = <<>>] BY <2>5
    <2> HIDE DEF m, sel, x, n
    <2>8. <<>> \in Names /\ Len(<<>>) = 0 /\ opt.maxFieldBytes \in Nat BY OptionTypes DEF Names
    <2>9. e \in Decoders(q) BY <1>3 DEF Reading
    <2>10. /\ x \in Decoders(q) /\ x.field = <<>> /\ x.diagnostics = e.diagnostics
           /\ x.batchBytes = e.batchBytes
      BY <2>6, <2>7, <2>8, <2>9 DEF Decoders
    <2>11. x \in Reading(opt, q) BY <1>3, <2>8, <2>10 DEF Reading
    <2>12. x = [d EXCEPT !.diagnostics = x.diagnostics, !.fieldIndex = n, !.selected = m, !.field = <<>>]
      BY <1>0, <1>1, <2>3, <2>7, <2>10 DEF Decoders
    <2>13. DecoderField(x, d, q) BY <2>12 DEF DecoderField, m, n
    <2>14. QED BY <2>1, <2>11, <2>13 DEF r
  <1>8. QED BY <1>5, <1>6, <1>7

\* The bytes of a row: every cell adds some.
Weigh(d, sum, c) ==
    sum + 4 + (IF d.selected[c] = <<>> THEN 0 ELSE Len(d.selected[c][1]))
            + (IF Len(d.rows) % 8 = 0 THEN 1 ELSE 0)

\* The bytes of a row are a number.
LEMMA RowBytesType ==
  ASSUME NEW o, NEW q \in Rectangles, NEW d \in Reading(o, q)
  PROVE  RowBytes(d) \in Nat
  <1> DEFINE E == 1..q.columnCount
             os == Offsets(1, q.columnCount + 1)
             V == Nat
             n == Len(os)
             h == [p \in E \X V |-> Weigh(d, p[2], p[1])]
             base == 0
             W == CHOOSE w : w = [u \in SUBSET (1..n) |->
                    IF u = {} THEN base ELSE Weigh(d, w[u \ {Max(u)}], os[Max(u)])]
  <1>0. /\ q.columnCount \in Nat /\ d.request = q /\ d.selected \in [E -> Seq(Names)] /\ Len(d.rows) \in Nat
    BY DEF Rectangles, Reading, Decoders, Rows
  <1>s. os \in Seq(E) /\ os \in Seq(Int)
    <2>1. 1 <= q.columnCount + 1 /\ q.columnCount + 1 \in Nat /\ 1 \in Nat BY <1>0
    <2>2. /\ os \in Seq(Int) /\ Len(os) = (q.columnCount + 1) - 1 BY <2>1, OffsetsFrom
    <2>3. os = [i \in 1 .. (q.columnCount + 1) - 1 |-> 1 + i - 1] BY DEF Offsets
    <2>4. \A i \in 1 .. (q.columnCount + 1) - 1 : 1 + i - 1 \in E BY <1>0
    <2>5. (q.columnCount + 1) - 1 \in Nat BY <1>0
    <2> HIDE DEF os, E
    <2>6. os \in Seq(E) BY <2>3, <2>4, <2>5
    <2>7. QED BY <2>2, <2>6
  <1> HIDE DEF os
  <1>1. DOMAIN os = 1..n /\ \A i \in 1..n : os[i] \in E
    <2> HIDE DEF E
    <2>1. QED BY <1>s
  <1>w. \A c \in E, v \in Nat : Weigh(d, v, c) \in Nat
    <2> SUFFICES ASSUME NEW c \in E, NEW v \in Nat PROVE Weigh(d, v, c) \in Nat OBVIOUS
    <2> DEFINE x == IF d.selected[c] = <<>> THEN 0 ELSE Len(d.selected[c][1])
               y == IF Len(d.rows) % 8 = 0 THEN 1 ELSE 0
    <2>1. d.selected[c] \in Seq(Names) BY <1>0
    <2>2. x \in Nat
      <3> DEFINE z == d.selected[c]
      <3>1. z \in Seq(Names) BY <2>1
      <3> HIDE DEF z
      <3>2. z # <<>> => z[1] \in Names BY <3>1
      <3>3. z # <<>> => Len(z[1]) \in Nat BY <3>2 DEF Names
      <3>4. QED BY <3>3 DEF z
    <2>3. y \in Nat OBVIOUS
    <2> HIDE DEF x, y
    <2>4. v + 4 + x + y \in Nat BY <2>2, <2>3
    <2>5. QED BY <2>4 DEF Weigh, x, y
  <1>2. RowBytes(d) = W[1..n]
    BY <1>0, <1>1 DEF RowBytes, FoldLeft, MapThenFoldSet, Weigh, os
  <1>b. base \in V OBVIOUS
  <1>3. Stepwise(h, E, V, base) BY <1>b, <1>w DEF Stepwise
  <1>4. \A e \in E, v \in V : h[<<e, v>>] = Weigh(d, v, e) OBVIOUS
  <1> HIDE DEF h, base, V, E
  <1>g. PICK g : Solution(g, V, h, base, os) BY <1>s, <1>3, FoldSolved
  <1>5. /\ g \in [SUBSET (1..n) -> V] /\ g[{}] = base
        /\ \A u \in SUBSET (1..n) : u # {} =>
             /\ Max(u) \in 1..n /\ u \ {Max(u)} \in SUBSET (1..n)
             /\ g[u] = h[<<os[Max(u)], g[u \ {Max(u)}]>>]
    BY <1>g, Zenon DEF Solution
  <1> HIDE DEF n
  <1>6. \A u \in SUBSET (1..n) : u # {} => g[u] = Weigh(d, g[u \ {Max(u)}], os[Max(u)])
    <2> SUFFICES ASSUME NEW u \in SUBSET (1..n), u # {}
                 PROVE  g[u] = Weigh(d, g[u \ {Max(u)}], os[Max(u)])
      OBVIOUS
    <2>1. os[Max(u)] \in E /\ g[u \ {Max(u)}] \in V /\ g[u] = h[<<os[Max(u)], g[u \ {Max(u)}]>>]
      BY <1>1, <1>5
    <2>2. QED BY <1>4, <2>1
  <1>7. g = [u \in SUBSET (1..n) |->
               IF u = {} THEN base ELSE Weigh(d, g[u \ {Max(u)}], os[Max(u)])]
    BY <1>5, <1>6
  <1>8. W = [u \in SUBSET (1..n) |->
               IF u = {} THEN base ELSE Weigh(d, W[u \ {Max(u)}], os[Max(u)])]
    BY <1>7, Zenon
  <1> HIDE DEF W
  <1>9. W[{}] = base BY <1>8
  <1>10. \A u \in SUBSET (1..n) : u # {} /\ W[u \ {Max(u)}] \in V =>
            W[u] = h[<<os[Max(u)], W[u \ {Max(u)}]>>]
    <2> SUFFICES ASSUME NEW u \in SUBSET (1..n), u # {}, W[u \ {Max(u)}] \in V
                 PROVE  W[u] = h[<<os[Max(u)], W[u \ {Max(u)}]>>]
      OBVIOUS
    <2>1. W[u] = Weigh(d, W[u \ {Max(u)}], os[Max(u)]) BY <1>8
    <2>2. os[Max(u)] \in E BY <1>1, <1>5
    <2>3. QED BY <1>4, <2>1, <2>2
  <1>11. Recurs(W, V, h, base, os) BY <1>9, <1>10 DEF Recurs, n
  <1>12. W[1..n] = Run(h, base, os) BY <1>s, <1>3, <1>11, FoldIsRun DEF n
  <1>13. Run(h, base, os) \in V BY <1>s, <1>3, RunFollows, Zenon
  <1>14. QED BY <1>2, <1>12, <1>13 DEF V

\* A row: kept when it is asked for.
Kept(d) == IF InRange(d) THEN Append(d.rows, d.selected) ELSE d.rows
\* A row of nulls.
Blank(q) == [c \in 1..q.columnCount |-> <<>>]

\* The kept rows are rows of the range.
LEMMA KeptType ==
  ASSUME NEW o, NEW q, NEW d \in Reading(o, q)
  PROVE  Kept(d) \in Seq(Rows(q))
  <1> DEFINE R == Rows(q)
             rs == d.rows
             e == d.selected
  <1>1. rs \in Seq(R) /\ e \in R BY DEF Reading, Decoders
  <1> HIDE DEF R, rs, e
  <1>2. Append(rs, e) \in Seq(R) BY <1>1
  <1>3. QED BY <1>1, <1>2 DEF Kept, R, rs, e

\* A row that fits is kept with its bytes.
DecoderPushed(r, d) ==
    \E n \in Nat : n <= opt.maxBatchBytes /\ r = [d EXCEPT !.batchBytes = n, !.rows = Kept(d)]

\* PushRow keeps a row of the range, within max_batch_bytes.
LEMMA DecoderPushes ==
  ASSUME opt \in Options, NEW q \in Rectangles, NEW d \in Reading(opt, q)
  PROVE  /\ PushRow(d) \in Reading(opt, q)
         /\ PushRow(d).error = OK => DecoderPushed(PushRow(d), d)
  <1> DEFINE w == RowBytes(d)
             n == d.batchBytes + w
             ks == Append(d.rows, d.selected)
             x == [d EXCEPT !.batchBytes = n, !.rows = ks]
             r == PushRow(d)
  <1>0. d \in Decoders(q) /\ d.batchBytes \in Nat /\ d.batchBytes <= opt.maxBatchBytes BY DEF Reading, Decoders
  <1>1. w \in Nat BY RowBytesType
  <1>2. r = IF ~InRange(d) THEN d ELSE IF n > opt.maxBatchBytes THEN Refused(d) ELSE x
    BY DEF PushRow, Fail, Refused
  <1> HIDE DEF r, w
  <1>3. CASE ~InRange(d)
    <2>1. r = d BY <1>2, <1>3
    <2>2. d = [d EXCEPT !.batchBytes = d.batchBytes, !.rows = Kept(d)]
      <3>1. Kept(d) = d.rows BY <1>3 DEF Kept
      <3>2. d = [d EXCEPT !.batchBytes = d.batchBytes, !.rows = d.rows] BY <1>0 DEF Decoders
      <3>3. QED BY <3>1, <3>2
    <2>3. DecoderPushed(d, d) BY <1>0, <2>2 DEF DecoderPushed
    <2>4. QED BY <2>1, <2>3 DEF r
  <1>4. CASE InRange(d) /\ n > opt.maxBatchBytes
    <2>1. r = Refused(d) BY <1>2, <1>4
    <2>2. QED BY <2>1, DecoderRefused DEF r
  <1>5. CASE InRange(d) /\ ~(n > opt.maxBatchBytes)
    <2>1. r = x BY <1>2, <1>5
    <2>2. n \in Nat /\ n <= opt.maxBatchBytes BY <1>0, <1>1, <1>5, OptionTypes
    <2>3. ks = Kept(d) BY <1>5 DEF Kept
    <2>4. ks \in Seq(Rows(q)) BY <2>3, KeptType
    <2> HIDE DEF n, ks
    <2>5. /\ x \in Decoders(q) /\ x.field = d.field /\ x.diagnostics = d.diagnostics /\ x.batchBytes = n
      BY <1>0, <2>2, <2>4 DEF Decoders
    <2>6. x = [d EXCEPT !.batchBytes = n, !.rows = Kept(d)] BY <2>3
    <2> HIDE DEF x
    <2>7. x \in Reading(opt, q) BY <2>2, <2>5 DEF Reading
    <2>8. DecoderPushed(x, d) BY <2>2, <2>6 DEF DecoderPushed
    <2>9. QED BY <2>1, <2>7, <2>8 DEF r
  <1>6. QED BY <1>3, <1>4, <1>5

\* A record of the decoder.
NextRow(d, n, ds, q) ==
    [d EXCEPT !.batchBytes = n, !.diagnostics = ds, !.rows = Kept(d), !.fieldIndex = 0,
              !.selected = Blank(q), !.row = d.row + 1, !.done = Len(Kept(d)) = q.rowCount]
\* DecodeRecord, when nothing fails.
DecoderRecord(r, d, q) == r = NextRow(d, r.batchBytes, r.diagnostics, q)

\* A record of the range, whatever happens.
LEMMA DecoderEndsRecord ==
  ASSUME opt \in Options, NEW q \in Rectangles, NEW d \in Reading(opt, q), d.error = OK
  PROVE  /\ DecodeRecord(d) \in Reading(opt, q)
         /\ DecodeRecord(d).error = OK => DecoderRecord(DecodeRecord(d), d, q)
  <1> DEFINE t == IF d.fieldIndex # d.width
                  THEN HandleDiagnostic(d, "ragged-row", d.row, d.expected) ELSE d
             p == PushRow(t)
             sel == [c \in DOMAIN p.selected |-> <<>>]
             row == p.row + 1
             done == Len(p.rows) = p.request.rowCount
             x == [p EXCEPT !.fieldIndex = 0, !.selected = sel, !.row = row, !.done = done]
             r == DecodeRecord(d)
  <1>0. d \in Decoders(q) /\ d.row \in Int /\ d.expected \in Int
    <2>1. d \in Decoders(q) BY DEF Reading
    <2>2. d.row \in Nat /\ d.expected \in Nat BY <2>1 DEF Decoders
    <2>3. QED BY <2>1, <2>2
  <1>1. t \in Reading(opt, q) /\ Talks(t, d)
    <2>1. Talks(d, d) BY <1>0 DEF Talks, Decoders
    <2>2. "ragged-row" \in Kinds BY DEF Kinds
    <2>3. QED BY <1>0, <2>1, <2>2, DecoderTold
  <1>2. r = IF t.error # OK THEN t ELSE IF p.error # OK THEN p ELSE x
    <2>1. r = Then(Then(t, PushRow), LAMBDA z : [z EXCEPT !.fieldIndex = 0,
                             !.selected = [c \in DOMAIN @ |-> <<>>],
                             !.row = @ + 1,
                             !.done = Len(z.rows) = z.request.rowCount])
      BY DEF DecodeRecord
    <2> HIDE DEF t, r
    <2>2. QED BY <2>1 DEF Then
  <1> HIDE DEF t, r
  <1>3. p \in Reading(opt, q) /\ (p.error = OK => DecoderPushed(p, t)) BY <1>1, DecoderPushes
  <1> HIDE DEF p
  <1>4. CASE t.error # OK
    <2>1. r = t BY <1>2, <1>4
    <2>2. QED BY <1>1, <1>4, <2>1 DEF r
  <1>5. CASE t.error = OK /\ p.error # OK
    <2>1. r = p BY <1>2, <1>5
    <2>2. QED BY <1>3, <1>5, <2>1 DEF r
  <1>6. CASE t.error = OK /\ p.error = OK
    <2> DEFINE ks == Kept(d)
               y == [d EXCEPT !.batchBytes = p.batchBytes, !.diagnostics = p.diagnostics, !.rows = ks]
    <2>0. r = x BY <1>2, <1>6
    <2>1. t = [d EXCEPT !.diagnostics = t.diagnostics]
      BY <1>0, <1>1, <1>6 DEF Talks, Decoders
    <2>2. t.rows = d.rows /\ t.selected = d.selected /\ t.row = d.row /\ t.request = d.request
      BY <1>0, <2>1 DEF Decoders
    <2>3. Kept(t) = ks BY <2>2 DEF Kept, InRange
    <2>4. PICK n \in Nat : n <= opt.maxBatchBytes /\ p = [t EXCEPT !.batchBytes = n, !.rows = ks]
      BY <1>3, <1>6, <2>3 DEF DecoderPushed
    <2>5. ks \in Seq(Rows(q)) BY KeptType
    <2> HIDE DEF ks
    <2>6. p = y /\ p.rows = ks /\ p.row = d.row /\ p.request = q /\ p.selected = d.selected
          /\ p.batchBytes = n
      BY <1>0, <2>1, <2>4 DEF Decoders
    <2>7. sel = Blank(q)
      <3>1. d.selected \in Rows(q) BY <1>0 DEF Decoders
      <3>2. DOMAIN p.selected = 1..q.columnCount BY <2>6, <3>1 DEF Rows
      <3>3. QED BY <3>2 DEF Blank
    <2>8. Blank(q) \in Rows(q) BY DEF Blank, Rows
    <2>9. row = d.row + 1 /\ row \in Nat BY <1>0, <2>6 DEF Decoders
    <2>10. done = (Len(ks) = q.rowCount) /\ done \in BOOLEAN BY <2>6
    <2> HIDE DEF sel, row, done
    <2>11. p \in Decoders(q) BY <1>3 DEF Reading
    <2>12. /\ x \in Decoders(q) /\ x.field = p.field /\ x.diagnostics = p.diagnostics
           /\ x.batchBytes = p.batchBytes
      BY <2>7, <2>8, <2>9, <2>10, <2>11 DEF Decoders
    <2>13. x = [d EXCEPT !.batchBytes = p.batchBytes, !.diagnostics = p.diagnostics, !.rows = ks,
                         !.fieldIndex = 0, !.selected = sel, !.row = row, !.done = done]
      BY <1>0, <2>6 DEF Decoders
    <2> HIDE DEF x
    <2>14. x \in Reading(opt, q) BY <1>3, <2>12 DEF Reading
    <2>15. x = NextRow(d, p.batchBytes, p.diagnostics, q)
      BY <2>7, <2>9, <2>10, <2>13 DEF NextRow, ks
    <2>16. DecoderRecord(x, d, q) BY <2>12, <2>15 DEF DecoderRecord
    <2>17. QED BY <2>0, <2>14, <2>16 DEF r
  <1>7. QED BY <1>4, <1>5, <1>6

-----------------------------------------------------------------------------
(* The decoder reads the cells the reference parser reads.                  *)

\* The cells the range wants of a record, null where it has none.
CellsOf(src, q, rec) ==
    [c \in 1..q.columnCount |->
        IF q.columnStart + c \in 1..Len(rec) THEN <<LossyOf(src, rec[q.columnStart + c])>> ELSE <<>>]

\* The rows are the cells of the records from rowStart on.
Gathered(src, q, rows, records, j) ==
    /\ Len(rows) = IF j + Len(records) <= q.rowStart THEN 0 ELSE (j + Len(records)) - q.rowStart
    /\ \A i \in 1..Len(rows) : rows[i] = CellsOf(src, q, records[(q.rowStart - j) + i])

\* A decoder that began at row j has read what p has read since.
Decodes(src, q, d, p, j) ==
    /\ p \in Parses
    /\ d.reader = p.reader /\ d.field = p.field /\ d.fieldIndex = Len(p.record)
    /\ d.row = j + Len(p.records) /\ j <= q.rowStart /\ d.row <= RowEnd(q)
    /\ d.selected = IF d.row >= q.rowStart /\ d.row < RowEnd(q) THEN CellsOf(src, q, p.record) ELSE Blank(q)
    /\ Gathered(src, q, d.rows, p.records, j)
    /\ d.done <=> d.row = RowEnd(q)

\* A record not begun has no cell.
LEMMA CellsOfNone ==
  ASSUME NEW src, NEW q
  PROVE  CellsOf(src, q, <<>>) = Blank(q)
  <1>1. \A c : ~(q.columnStart + c \in 1..Len(<<>>)) OBVIOUS
  <1>2. QED BY <1>1 DEF CellsOf, Blank

\* One more field is one more cell when its column is wanted.
LEMMA CellsAppend ==
  ASSUME NEW src, NEW q \in Rectangles, NEW rec \in Records, NEW f \in Names, NEW n, n = Len(rec) + 1
  PROVE  CellsOf(src, q, Append(rec, f)) =
           IF n \in q.columnStart + 1 .. q.columnStart + q.columnCount
           THEN Put(CellsOf(src, q, rec), n - q.columnStart, LossyOf(src, f))
           ELSE CellsOf(src, q, rec)
  <1> DEFINE a == Append(rec, f)
             s == q.columnStart
             k == q.columnCount
             l == LossyOf(src, f)
             old == CellsOf(src, q, rec)
             new == CellsOf(src, q, a)
             put == Put(old, n - s, l)
  <1>1. s \in Nat /\ k \in Nat BY DEF Rectangles
  <1>2. /\ n \in Nat /\ Len(rec) = n - 1 /\ Len(a) = n /\ a[n] = f
        /\ \A i \in 1..n - 1 : a[i] = rec[i]
    BY DEF Records
  <1>3. old = [c \in 1..k |-> IF s + c \in 1..n - 1 THEN <<LossyOf(src, rec[s + c])>> ELSE <<>>]
    BY <1>2 DEF CellsOf
  <1>4. new = [c \in 1..k |-> IF s + c \in 1..n THEN <<LossyOf(src, a[s + c])>> ELSE <<>>]
    BY <1>2 DEF CellsOf
  <1> HIDE DEF a, s, k, l, old, new
  <1>5. ASSUME NEW c \in 1..k, s + c # n PROVE new[c] = old[c]
    <2>1. s + c \in 1..n <=> s + c \in 1..n - 1 BY <1>1, <1>2, <1>5
    <2>2. s + c \in 1..n - 1 => a[s + c] = rec[s + c] BY <1>2
    <2>3. QED BY <1>3, <1>4, <2>1, <2>2
  <1>6. CASE n \in s + 1 .. s + k
    <2> DEFINE m == n - s
    <2>1. m \in 1..k /\ s + m = n /\ n \in 1..n BY <1>1, <1>2, <1>6
    <2>2. put = [old EXCEPT ![m] = <<l>>] BY DEF Put
    <2> HIDE DEF m, put
    <2>3. new[m] = <<l>> BY <1>2, <1>4, <2>1 DEF l
    <2>4. ASSUME NEW c \in 1..k PROVE new[c] = put[c]
      <3>1. CASE c = m BY <1>3, <2>1, <2>2, <2>3, <3>1
      <3>2. CASE c # m
        <4>1. s + c # n BY <1>1, <1>2, <2>1, <3>2
        <4>2. put[c] = old[c] BY <1>3, <2>2, <3>2
        <4>3. QED BY <1>5, <4>1, <4>2
      <3>3. QED BY <3>1, <3>2
    <2>5. put = [c \in 1..k |-> put[c]] BY <1>3, <2>2
    <2>6. new = [c \in 1..k |-> new[c]] BY <1>4
    <2>7. new = put BY <2>4, <2>5, <2>6
    <2>8. QED BY <1>6, <2>7 DEF new, put, s, k, l, a, old
  <1>7. CASE ~(n \in s + 1 .. s + k)
    <2>1. \A c \in 1..k : s + c # n BY <1>1, <1>2, <1>7
    <2>2. \A c \in 1..k : new[c] = old[c] BY <1>5, <2>1
    <2>3. old = [c \in 1..k |-> old[c]] BY <1>3
    <2>4. new = [c \in 1..k |-> new[c]] BY <1>4
    <2>5. new = old BY <2>2, <2>3, <2>4
    <2>6. QED BY <1>7, <2>5 DEF new, s, k, a, old
  <1>8. QED BY <1>6, <1>7 DEF s, k

\* A move keeps the decoder in step with the parse.
LEMMA MoveDecodes ==
  ASSUME NEW o, NEW q, NEW d \in Reading(o, q), NEW p, NEW j,
         Decodes(source, q, d, p, j), NEW t \in Moves, NEW n, NEW at \in Int
  PROVE  LET r == Forward(d, t, n, at)
         IN  /\ Decodes(source, q, r, Moved(p, t, at), j)
             /\ r.expected = n /\ r.lexical = d.lexical /\ r.hasRead = d.hasRead /\ r.done = d.done
  <1> DEFINE m == Moved(p, t, at)
             f == IF t.copy THEN Append(d.field, at) ELSE d.field
             r == Forward(d, t, n, at)
  <1>1. p \in Parses /\ m \in Parses /\ d.field = p.field BY MovedType DEF Decodes
  <1>2. /\ m.reader = t.to /\ m.records = p.records /\ m.record = p.record
        /\ m.field = f
    BY <1>1 DEF Moved, Parses
  <1>s. d \in Decoders(q) BY DEF Reading
  <1> HIDE DEF m, f
  <1>3. r = [d EXCEPT !.reader = t.to, !.expected = n, !.field = f] BY DEF f, Forward
  <1> HIDE DEF r
  <1>4. /\ r.reader = t.to /\ r.field = f /\ r.fieldIndex = d.fieldIndex /\ r.row = d.row
        /\ r.selected = d.selected /\ r.rows = d.rows /\ r.done = d.done
        /\ r.expected = n /\ r.lexical = d.lexical /\ r.hasRead = d.hasRead
    BY <1>s, <1>3 DEF Decoders
  <1>5. Decodes(source, q, r, m, j) BY <1>1, <1>2, <1>4 DEF Decodes
  <1>6. QED BY <1>4, <1>5 DEF m, r

\* The end of a field keeps the decoder in step with the parse.
LEMMA FieldDecodes ==
  ASSUME NEW o, NEW q \in Rectangles, NEW d \in Reading(o, q), NEW p, NEW j,
         Decodes(source, q, d, p, j), NEW r, DecoderField(r, d, q)
  PROVE  /\ Decodes(source, q, r, EndField(p), j)
         /\ r.expected = d.expected /\ r.lexical = d.lexical /\ r.hasRead = d.hasRead /\ r.done = d.done
  <1> DEFINE e == EndField(p)
             sel == Took(d, q)
  <1>1. p \in Parses /\ p.field \in Names /\ p.record \in Records /\ e \in Parses
    BY EndFieldType DEF Decodes, Parses
  <1>2. /\ e.reader = p.reader /\ e.field = <<>> /\ e.records = p.records
        /\ e.record = Append(p.record, p.field)
    BY <1>1 DEF EndField, Parses
  <1>3. Len(e.record) = Len(p.record) + 1 BY <1>1, <1>2 DEF Records
  <1>s. d \in Decoders(q) BY DEF Reading
  <1>q. d.request = q BY <1>s DEF Decoders
  <1> HIDE DEF e, sel
  <1>4. r = [d EXCEPT !.diagnostics = r.diagnostics, !.fieldIndex = d.fieldIndex + 1,
                      !.selected = sel, !.field = <<>>]
    BY DEF DecoderField, sel
  <1>5. /\ r.reader = d.reader /\ r.field = <<>> /\ r.fieldIndex = d.fieldIndex + 1 /\ r.row = d.row
        /\ r.selected = sel /\ r.rows = d.rows /\ r.done = d.done
        /\ r.expected = d.expected /\ r.lexical = d.lexical /\ r.hasRead = d.hasRead
    BY <1>s, <1>4 DEF Decoders
  <1>6. sel = IF d.row >= q.rowStart /\ d.row < RowEnd(q) THEN CellsOf(source, q, e.record) ELSE Blank(q)
    <2>1. Lossy(p.field) = LossyOf(source, p.field) BY <1>1, LossyIsRun
    <2>2. d.field = p.field /\ d.fieldIndex = Len(p.record) BY DEF Decodes
    <2>3. InRange(d) <=> d.row >= q.rowStart /\ d.row < RowEnd(q) BY <1>q DEF InRange
    <2>4. CASE InRange(d)
      <3> DEFINE n == Len(p.record) + 1
                 new == CellsOf(source, q, Append(p.record, p.field))
                 old == CellsOf(source, q, p.record)
                 put == Put(old, n - q.columnStart, LossyOf(source, p.field))
      <3>1. d.selected = old BY <2>3, <2>4 DEF Decodes
      <3>2. new = IF n \in q.columnStart + 1 .. q.columnStart + q.columnCount THEN put ELSE old
        BY <1>1, CellsAppend
      <3>3. sel = IF n \in q.columnStart + 1 .. q.columnStart + q.columnCount
                  THEN Put(d.selected, n - q.columnStart, Lossy(d.field)) ELSE d.selected
        BY <2>2, <2>4 DEF sel, Took, Wanted, ColumnEnd
      <3> HIDE DEF new, old, n
      <3>4. sel = new BY <2>1, <2>2, <3>1, <3>2, <3>3
      <3>5. QED BY <1>2, <2>3, <2>4, <3>4 DEF new
    <2>5. CASE ~InRange(d)
      <3>1. sel = d.selected BY <2>5 DEF sel, Took, Wanted
      <3>2. QED BY <2>3, <2>5, <3>1 DEF Decodes
    <2>6. QED BY <2>4, <2>5
  <1>7. Decodes(source, q, r, e, j) BY <1>1, <1>2, <1>3, <1>5, <1>6 DEF Decodes
  <1>8. QED BY <1>5, <1>7 DEF e

\* The end of a record does, and completes the range at its last row.
LEMMA RecordDecodes ==
  ASSUME NEW o, NEW q \in Rectangles, q.rowCount > 0, NEW d \in Reading(o, q), NEW p, NEW j \in Nat,
         Decodes(source, q, d, p, j), ~d.done, NEW r, DecoderRecord(r, d, q)
  PROVE  /\ Decodes(source, q, r, EndRecord(p), j)
         /\ r.expected = d.expected /\ r.lexical = d.lexical /\ r.hasRead = d.hasRead
  <1> DEFINE e == EndRecord(p)
             ks == Kept(d)
             n == Len(p.records)
             w == d.row
             bl == Blank(q)
             done == Len(ks) = q.rowCount
  <1>1. /\ p \in Parses /\ e \in Parses /\ p.record \in Records /\ p.records \in Seq(Records) /\ n \in Nat
    BY EndRecordType DEF Decodes, Parses
  <1>2. /\ e.reader = p.reader /\ e.field = p.field /\ e.record = <<>>
        /\ e.records = Append(p.records, p.record)
    BY <1>1 DEF EndRecord, Parses
  <1>3. Len(e.records) = n + 1 /\ e.records[n + 1] = p.record /\ \A i \in 1..n : e.records[i] = p.records[i]
    BY <1>1, <1>2
  <1>q. q.rowStart \in Nat /\ q.rowCount \in Nat /\ q.rowCount > 0 BY DEF Rectangles
  <1>s. d \in Decoders(q) BY DEF Reading
  <1>t. d.request = q /\ w \in Nat /\ d.rows \in Seq(Rows(q)) /\ d.selected \in Rows(q)
    BY <1>s DEF Decoders
  <1>4. /\ w = j + n /\ j <= q.rowStart /\ w < q.rowStart + q.rowCount
        /\ d.selected = IF w >= q.rowStart THEN CellsOf(source, q, p.record) ELSE Blank(q)
        /\ Len(d.rows) = IF w <= q.rowStart THEN 0 ELSE w - q.rowStart
        /\ \A i \in 1..Len(d.rows) : d.rows[i] = CellsOf(source, q, p.records[(q.rowStart - j) + i])
    <2>1. w = j + n /\ j <= q.rowStart /\ w <= q.rowStart + q.rowCount /\ w # q.rowStart + q.rowCount
      BY DEF Decodes, RowEnd
    <2>2. w < q.rowStart + q.rowCount BY <1>q, <1>t, <2>1
    <2>3. d.selected = IF w >= q.rowStart THEN CellsOf(source, q, p.record) ELSE Blank(q)
      BY <2>2 DEF Decodes, RowEnd
    <2>4. QED BY <2>1, <2>2, <2>3 DEF Decodes, Gathered
  <1>5. ks = IF w >= q.rowStart THEN Append(d.rows, d.selected) ELSE d.rows
    BY <1>4, <1>t DEF Kept, InRange, RowEnd
  <1> HIDE DEF e, ks, bl, done
  <1>6. r = [d EXCEPT !.batchBytes = r.batchBytes, !.diagnostics = r.diagnostics, !.rows = ks,
                      !.fieldIndex = 0, !.selected = bl, !.row = w + 1, !.done = done]
    BY DEF DecoderRecord, NextRow, ks, bl, done
  <1>7. /\ r.reader = d.reader /\ r.field = d.field /\ r.fieldIndex = 0 /\ r.row = w + 1
        /\ r.selected = bl /\ r.rows = ks /\ r.done = done
        /\ r.expected = d.expected /\ r.lexical = d.lexical /\ r.hasRead = d.hasRead
    <2> HIDE DEF w
    <2>1. QED BY <1>s, <1>6 DEF Decoders
  <1>8. Gathered(source, q, ks, e.records, j) /\ (done <=> w + 1 = q.rowStart + q.rowCount)
    <2> HIDE DEF n, w
    <2>1. CASE w >= q.rowStart
      <3> DEFINE x == d.selected
                 rs == d.rows
                 R == Rows(q)
                 k == w - q.rowStart
      <3>1. rs \in Seq(R) /\ x \in R /\ ks = Append(rs, x) BY <1>5, <1>t, <2>1
      <3>2. Len(rs) = k /\ k \in Nat BY <1>q, <1>t, <1>4, <2>1
      <3> HIDE DEF x, rs, R, k
      <3>3. Len(ks) = k + 1 /\ ks[k + 1] = x /\ \A i \in 1..k : ks[i] = rs[i] BY <3>1, <3>2
      <3>4. k + 1 = (j + (n + 1)) - q.rowStart /\ ~(j + (n + 1) <= q.rowStart)
        BY <1>1, <1>q, <1>t, <1>4, <2>1 DEF k
      <3>5. ASSUME NEW i \in 1..k + 1
            PROVE  ks[i] = CellsOf(source, q, e.records[(q.rowStart - j) + i])
        <4>1. CASE i = k + 1
          <5>1. (q.rowStart - j) + i = n + 1 BY <1>1, <1>q, <1>t, <1>4, <4>1 DEF k
          <5>2. x = CellsOf(source, q, p.record) BY <1>4, <2>1 DEF x
          <5>3. QED BY <1>3, <3>3, <4>1, <5>1, <5>2 DEF n
        <4>2. CASE i # k + 1
          <5>1. i \in 1..k BY <3>2, <4>2
          <5>2. (q.rowStart - j) + i \in 1..n BY <1>1, <1>q, <1>t, <1>4, <5>1 DEF k
          <5>3. e.records[(q.rowStart - j) + i] = p.records[(q.rowStart - j) + i] BY <1>3, <5>2 DEF n
          <5>4. rs[i] = CellsOf(source, q, p.records[(q.rowStart - j) + i]) BY <1>4, <3>2, <5>1 DEF rs
          <5>5. QED BY <3>3, <5>1, <5>3, <5>4
        <4>3. QED BY <4>1, <4>2
      <3>6. Gathered(source, q, ks, e.records, j)
        <4>1. Len(e.records) = n + 1 BY <1>3 DEF n
        <4>2. QED BY <3>3, <3>4, <3>5, <4>1 DEF Gathered
      <3>7. done <=> w + 1 = q.rowStart + q.rowCount BY <1>q, <1>t, <3>3 DEF done, k
      <3>8. QED BY <3>6, <3>7
    <2>2. CASE ~(w >= q.rowStart)
      <3>1. ks = d.rows /\ Len(ks) = 0 BY <1>5, <1>q, <1>t, <1>4, <2>2
      <3>2. j + (n + 1) <= q.rowStart BY <1>1, <1>q, <1>t, <1>4, <2>2
      <3>3. Len(e.records) = n + 1 BY <1>3 DEF n
      <3>4. Gathered(source, q, ks, e.records, j) BY <3>1, <3>2, <3>3 DEF Gathered
      <3>5. done <=> w + 1 = q.rowStart + q.rowCount
        <4>1. w + 1 <= q.rowStart BY <1>4, <1>q, <1>t, <2>2
        <4>2. ~(w + 1 = q.rowStart + q.rowCount) BY <1>q, <1>t, <4>1
        <4>3. ~done BY <1>q, <3>1 DEF done
        <4>4. QED BY <4>2, <4>3
      <3>6. QED BY <3>4, <3>5
    <2>3. QED BY <2>1, <2>2
  <1>9. bl = IF r.row >= q.rowStart /\ r.row < RowEnd(q) THEN CellsOf(source, q, e.record) ELSE Blank(q)
    BY <1>2, CellsOfNone DEF bl
  <1>10. r.row = j + Len(e.records) /\ r.row <= RowEnd(q) /\ (r.done <=> r.row = RowEnd(q))
    <2> HIDE DEF n, w
    <2>n. n \in Nat BY <1>1 DEF n
    <2>w. w \in Nat BY <1>t DEF w
    <2>v. w = j + n /\ w < q.rowStart + q.rowCount BY <1>4 DEF n, w
    <2>1. w + 1 = j + (n + 1) /\ w + 1 <= q.rowStart + q.rowCount BY <1>q, <2>n, <2>w, <2>v
    <2>l. Len(e.records) = n + 1 BY <1>3 DEF n
    <2>r. r.row = w + 1 /\ (r.done <=> w + 1 = q.rowStart + q.rowCount) BY <1>7, <1>8 DEF w
    <2>2. QED BY <2>l, <2>r, <2>1 DEF RowEnd
  <1>11. r.reader = e.reader /\ r.field = e.field /\ r.fieldIndex = Len(e.record)
    <2>1. Len(<<>>) = 0 OBVIOUS
    <2>2. QED BY <1>2, <1>7, <2>1 DEF Decodes
  <1>12. Decodes(source, q, r, e, j) BY <1>1, <1>4, <1>7, <1>8, <1>9, <1>10, <1>11 DEF Decodes
  <1>13. QED BY <1>7, <1>12 DEF e

\* One byte of a range, in the parts the parser has.
LEMMA DecodeByteIs ==
  ASSUME NEW d, NEW o, ~d.done
  PROVE  LET t == Transition(d.reader, Byte(o))
             m == DecoderMove(d, t, o)
             f == IF m.error = OK THEN DecodeField(m) ELSE m
         IN  /\ t.ends = "none" => DecodeByte(d, o) = m
             /\ t.ends = "field" => DecodeByte(d, o) = f
             /\ t.ends = "record" =>
                  DecodeByte(d, o) = IF f.error = OK THEN DecodeRecord(f) ELSE f
  BY DEF DecodeByte, DecoderMove, Then

\* The bytes after the range leave the decoder alone.
LEMMA DecodeDone ==
  ASSUME NEW d, NEW o, d.done
  PROVE  DecodeByte(d, o) = d
  BY DEF DecodeByte

\* One byte, whatever happens.
LEMMA DecoderReads ==
  ASSUME opt \in Options, NEW q \in Rectangles, NEW d \in Reading(opt, q), d.error = OK, NEW o \in Int
  PROVE  DecodeByte(d, o) \in Reading(opt, q)
  <1> DEFINE t == Transition(d.reader, Byte(o))
             m == DecoderMove(d, t, o)
             f == IF m.error = OK THEN DecodeField(m) ELSE m
             r == DecodeByte(d, o)
  <1>1. CASE d.done BY <1>1, DecodeDone
  <1>2. ASSUME ~d.done PROVE r \in Reading(opt, q)
    <2>s. d \in Decoders(q) BY DEF Reading
    <2>r. d.reader \in Readers BY <2>s DEF Decoders
    <2>1. t \in Moves BY <2>r, TransitionMoves
    <2>e. t.ends \in {"none", "field", "record"} BY <2>1 DEF Moves
    <2>2. /\ t.ends = "none" => r = m
          /\ t.ends = "field" => r = f
          /\ t.ends = "record" => r = IF f.error = OK THEN DecodeRecord(f) ELSE f
      BY <1>2, DecodeByteIs
    <2> HIDE DEF t, r
    <2>3. m \in Reading(opt, q) BY <2>1, DecoderMoves
    <2> HIDE DEF m
    <2>4. f \in Reading(opt, q)
      <3>1. CASE m.error = OK
        <4>1. DecodeField(m) \in Reading(opt, q) BY <2>3, <3>1, DecoderEndsField
        <4>2. QED BY <3>1, <4>1
      <3>2. CASE m.error # OK BY <2>3, <3>2
      <3>3. QED BY <3>1, <3>2
    <2> HIDE DEF f
    <2>5. f.error = OK => DecodeRecord(f) \in Reading(opt, q) BY <2>4, DecoderEndsRecord
    <2>6. QED BY <2>e, <2>2, <2>3, <2>4, <2>5
  <1>3. QED BY <1>1, <1>2

\* The decoder at offset n of what it began at.
DecodedTo(q, d, at, j, n) ==
    d.expected = n /\ Decodes(source, q, d, From(source, at, n), j)

\* One byte of the decoder is one byte of the parser that began at its checkpoint.
LEMMA ByteDecoded ==
  ASSUME opt \in Options, NEW q \in Rectangles, q.rowCount > 0, NEW d \in Reading(opt, q),
         d.error = OK, ~d.done,
         NEW at \in Nat, NEW n \in Nat, at <= n, NEW j \in Nat, DecodedTo(q, d, at, j, n),
         DecodeByte(d, n).error = OK
  PROVE  /\ DecodedTo(q, DecodeByte(d, n), at, j, n + 1)
         /\ DecodeByte(d, n).lexical = d.lexical /\ DecodeByte(d, n).hasRead = d.hasRead
  <1> DEFINE p == From(source, at, n)
             t == Transition(d.reader, Byte(n))
             m == DecoderMove(d, t, n)
             f == IF m.error = OK THEN DecodeField(m) ELSE m
             r == DecodeByte(d, n)
             pm == Moved(p, t, n)
  <1>0. n \in Int /\ n >= at OBVIOUS
  <1>s. d \in Decoders(q) BY DEF Reading
  <1>d. d.reader \in Readers BY <1>s DEF Decoders
  <1>1. t \in Moves BY <1>d, TransitionMoves
  <1>e. t.ends \in {"none", "field", "record"} BY <1>1 DEF Moves
  <1>2. /\ t.ends = "none" => r = m
        /\ t.ends = "field" => r = f
        /\ t.ends = "record" => r = IF f.error = OK THEN DecodeRecord(f) ELSE f
    BY DecodeByteIs
  <1>3. p \in Parses /\ From(source, at, n + 1) = ParseByte(source, p, n) BY <1>0, ParseStages
  <1>4. d.expected = n /\ Decodes(source, q, d, p, j) BY DEF DecodedTo
  <1>5. From(source, at, n + 1) = Parsed(p, t, n) BY <1>3, <1>4 DEF ParseByte, Decodes, Byte
  <1>r. r.error = OK OBVIOUS
  <1> HIDE DEF p, t, r
  <1>6. /\ m \in Reading(opt, q)
        /\ m.error = OK => m = Forward(d, t, n + 1, n)
    BY <1>0, <1>1, <1>4, DecoderMoves
  <1> HIDE DEF m
  <1>7. m.error = OK => /\ Decodes(source, q, m, pm, j) /\ m.expected = n + 1
                        /\ m.lexical = d.lexical /\ m.hasRead = d.hasRead /\ m.done = d.done
    <2> DEFINE w == Forward(d, t, n + 1, n)
    <2>1. /\ Decodes(source, q, w, pm, j) /\ w.expected = n + 1
          /\ w.lexical = d.lexical /\ w.hasRead = d.hasRead /\ w.done = d.done
      BY <1>0, <1>1, <1>4, MoveDecodes
    <2> HIDE DEF w, pm
    <2>2. m.error = OK => m = w BY <1>6 DEF w
    <2>3. QED BY <2>1, <2>2
  <1> HIDE DEF pm
  <1>8. CASE t.ends = "none"
    <2>1. r = m BY <1>2, <1>8
    <2>2. From(source, at, n + 1) = pm BY <1>5, <1>8 DEF Parsed, pm
    <2>3. QED BY <1>7, <1>r, <2>1, <2>2 DEF DecodedTo, r
  <1>9. ASSUME t.ends # "none", f.error = OK
        PROVE  /\ m.error = OK /\ f \in Reading(opt, q) /\ Decodes(source, q, f, EndField(pm), j)
               /\ f.expected = n + 1 /\ f.lexical = d.lexical /\ f.hasRead = d.hasRead /\ f.done = d.done
    <2>1. m.error = OK BY <1>9
    <2>2. f = DecodeField(m) BY <2>1
    <2> HIDE DEF f
    <2>3. f \in Reading(opt, q) /\ DecoderField(f, m, q) BY <1>6, <1>9, <2>1, <2>2, DecoderEndsField
    <2>4. Decodes(source, q, m, pm, j) BY <1>7, <2>1
    <2>5. /\ Decodes(source, q, f, EndField(pm), j)
          /\ f.expected = m.expected /\ f.lexical = m.lexical /\ f.hasRead = m.hasRead /\ f.done = m.done
      BY <1>6, <2>3, <2>4, FieldDecodes
    <2>6. QED BY <1>7, <2>1, <2>3, <2>5
  <1>10. CASE t.ends = "field"
    <2>1. r = f BY <1>2, <1>10
    <2>2. From(source, at, n + 1) = EndField(pm) BY <1>5, <1>10 DEF Parsed, pm
    <2> HIDE DEF f
    <2>3. QED BY <1>9, <1>10, <1>r, <2>1, <2>2 DEF DecodedTo, r
  <1>11. CASE t.ends = "record"
    <2> HIDE DEF f
    <2>1. f.error = OK /\ r = DecodeRecord(f)
      <3>1. r = IF f.error = OK THEN DecodeRecord(f) ELSE f BY <1>2, <1>11
      <3>2. QED BY <1>r, <3>1
    <2>2. From(source, at, n + 1) = EndRecord(EndField(pm)) BY <1>5, <1>11 DEF Parsed, pm
    <2>3. /\ f \in Reading(opt, q) /\ Decodes(source, q, f, EndField(pm), j)
          /\ f.expected = n + 1 /\ f.lexical = d.lexical /\ f.hasRead = d.hasRead /\ f.done = d.done
      BY <1>9, <1>11, <2>1
    <2>4. DecoderRecord(r, f, q) BY <1>r, <2>1, <2>3, DecoderEndsRecord
    <2>5. ~f.done BY <2>3
    <2>6. /\ Decodes(source, q, r, EndRecord(EndField(pm)), j)
          /\ r.expected = f.expected /\ r.lexical = f.lexical /\ r.hasRead = f.hasRead
      BY <2>3, <2>4, <2>5, RecordDecodes
    <2>7. QED BY <2>2, <2>3, <2>6 DEF DecodedTo, r
  <1>12. QED BY <1>e, <1>8, <1>10, <1>11

\* The bytes of a chunk, one after the other while nothing fails.
Decoded(z, o) == Then(z, LAMBDA y : DecodeByte(y, o))
DecodeStep(q) == [e \in Int \X Reading(opt, q) |-> Decoded(e[2], e[1])]
DecodeBytes(d, from, to) ==
    FoldLeft(LAMBDA z, o : Then(z, LAMBDA y : DecodeByte(y, o)),
             Then(QuoteDiagnostics(d, d.row, from, to), LAMBDA z : BeginDecode(z, from, to)),
             Offsets(FirstRead(d, from, to), to))

\* The decoder as the bytes of a slice find it, which csv_core drops nothing of.
Opened(d, from, to) == Then(QuoteDiagnostics(d, d.row, from, to), LAMBDA z : BeginDecode(z, from, to))

\* The bytes of a chunk are steps of the decoder.
LEMMA DecodeSteps ==
  ASSUME opt \in Options, NEW q \in Rectangles, NEW base \in Reading(opt, q)
  PROVE  Stepwise(DecodeStep(q), Int, Reading(opt, q), base)
  <1>1. ASSUME NEW z \in Reading(opt, q), NEW o \in Int PROVE Decoded(z, o) \in Reading(opt, q)
    <2>1. CASE z.error = OK
      <3>1. DecodeByte(z, o) \in Reading(opt, q) BY <2>1, DecoderReads
      <3>2. QED BY <2>1, <3>1 DEF Decoded, Then
    <2>2. CASE z.error # OK BY <2>2 DEF Decoded, Then
    <2>3. QED BY <2>1, <2>2
  <1>2. DecodeStep(q) \in [Int \X Reading(opt, q) -> Reading(opt, q)] BY <1>1 DEF DecodeStep
  <1>3. QED BY <1>2 DEF Stepwise

\* DecodeBytes is the run over the chunk, after its quote diagnostics.
LEMMA DecodeIsRun ==
  ASSUME opt \in Options, NEW q \in Rectangles, NEW d, NEW from \in Nat, NEW to \in Nat, from <= to,
         ~DropsMark(d, from, to), Opened(d, from, to) \in Reading(opt, q)
  PROVE  DecodeBytes(d, from, to) = Stage(DecodeStep(q), Opened(d, from, to), from, to)
  <1> DEFINE os == Offsets(from, to)
             V == Reading(opt, q)
             n == Len(os)
             h == DecodeStep(q)
             base == Opened(d, from, to)
             W == CHOOSE w : w = [u \in SUBSET (1..n) |->
                    IF u = {} THEN base ELSE Decoded(w[u \ {Max(u)}], os[Max(u)])]
  <1>s. os \in Seq(Int) BY OffsetsFrom
  <1> HIDE DEF os
  <1>1. DOMAIN os = 1..n /\ \A i \in 1..n : os[i] \in Int BY <1>s
  <1>f. FirstRead(d, from, to) = from BY DEF FirstRead
  <1>2. DecodeBytes(d, from, to) = W[1..n]
    <2>1. DecodeBytes(d, from, to) = FoldLeft(LAMBDA z, o : Decoded(z, o), base, os)
      BY <1>f DEF DecodeBytes, Decoded, Opened, os
    <2> HIDE DEF base
    <2>2. QED BY <1>1, <2>1 DEF FoldLeft, MapThenFoldSet
  <1>b. base \in V OBVIOUS
  <1>3. Stepwise(h, Int, V, base) BY <1>b, DecodeSteps
  <1>4. \A e \in Int, v \in V : h[<<e, v>>] = Decoded(v, e) BY DEF DecodeStep
  <1> HIDE DEF h, base, V
  <1>g. PICK g : Solution(g, V, h, base, os) BY <1>s, <1>3, FoldSolved
  <1>5. /\ g \in [SUBSET (1..n) -> V] /\ g[{}] = base
        /\ \A u \in SUBSET (1..n) : u # {} =>
             /\ Max(u) \in 1..n /\ u \ {Max(u)} \in SUBSET (1..n)
             /\ g[u] = h[<<os[Max(u)], g[u \ {Max(u)}]>>]
    BY <1>g, Zenon DEF Solution
  <1> HIDE DEF n
  <1>6. \A u \in SUBSET (1..n) : u # {} => g[u] = Decoded(g[u \ {Max(u)}], os[Max(u)])
    <2> SUFFICES ASSUME NEW u \in SUBSET (1..n), u # {}
                 PROVE  g[u] = Decoded(g[u \ {Max(u)}], os[Max(u)])
      OBVIOUS
    <2>1. os[Max(u)] \in Int /\ g[u \ {Max(u)}] \in V /\ g[u] = h[<<os[Max(u)], g[u \ {Max(u)}]>>]
      BY <1>1, <1>5
    <2>2. QED BY <1>4, <2>1
  <1>7. g = [u \in SUBSET (1..n) |->
               IF u = {} THEN base ELSE Decoded(g[u \ {Max(u)}], os[Max(u)])]
    BY <1>5, <1>6
  <1>8. W = [u \in SUBSET (1..n) |->
               IF u = {} THEN base ELSE Decoded(W[u \ {Max(u)}], os[Max(u)])]
    BY <1>7, Zenon
  <1> HIDE DEF W
  <1>9. W[{}] = base BY <1>8
  <1>10. \A u \in SUBSET (1..n) : u # {} /\ W[u \ {Max(u)}] \in V =>
            W[u] = h[<<os[Max(u)], W[u \ {Max(u)}]>>]
    <2> SUFFICES ASSUME NEW u \in SUBSET (1..n), u # {}, W[u \ {Max(u)}] \in V
                 PROVE  W[u] = h[<<os[Max(u)], W[u \ {Max(u)}]>>]
      OBVIOUS
    <2>1. W[u] = Decoded(W[u \ {Max(u)}], os[Max(u)]) BY <1>8
    <2>2. os[Max(u)] \in Int BY <1>1, <1>5
    <2>3. QED BY <1>4, <2>1, <2>2
  <1>11. Recurs(W, V, h, base, os) BY <1>9, <1>10 DEF Recurs, n
  <1>12. W[1..n] = Run(h, base, os) BY <1>s, <1>3, <1>11, FoldIsRun DEF n
  <1>13. QED BY <1>2, <1>12 DEF Stage, h, base, os

\* The decoder has read what there is up to an offset, or what it needs.
Reached(q, z, at, j, n) ==
    /\ z.expected \in Nat /\ at <= z.expected /\ z.expected <= n
    /\ Decodes(source, q, z, From(source, at, z.expected), j)
    /\ ~z.done => z.expected = n

\* A chunk leads the decoder where the parser is, or to the end of its range.
LEMMA DecoderDecodes ==
  ASSUME opt \in Options, NEW q \in Rectangles, q.rowCount > 0, NEW d \in Reading(opt, q),
         d.error = OK, ~d.done,
         NEW at \in Nat, NEW from \in Nat, NEW to \in Nat, at <= from, from <= to, NEW j \in Nat,
         DecodedTo(q, d, at, j, from), Agree(d.lexical, d.reader), ~DropsMark(d, from, to)
  PROVE  LET r == DecodeBytes(d, from, to)
         IN  /\ r \in Reading(opt, q)
             /\ r.error = OK =>
                  Reached(q, r, at, j, to) /\ r.hasRead /\ (~r.done => Agree(r.lexical, r.reader))
  <1> DEFINE t == ConsumeQuotes(d.lexical, from, to)
             a == [d EXCEPT !.lexical = t.lex]
             told == QuoteDiagnostics(d, d.row, from, to)
             base == Opened(d, from, to)
             Z(n) == Stage(DecodeStep(q), base, from, n)
             Reaches(z, n) == z.error = OK => Reached(q, z, at, j, n) /\ z.lexical = t.lex /\ z.hasRead
             T == {n \in Nat : from <= n /\ Reaches(Z(n), n)}
             r == DecodeBytes(d, from, to)
  <1>s. d \in Decoders(q) BY DEF Reading
  <1>x. d.lexical \in Trackers /\ d.row \in Int /\ d.expected = from BY <1>s DEF Decoders, DecodedTo
  <1>1. t \in Tracks /\ Agree(t.lex, From(source, at, to).reader)
    <2>1. Agree(d.lexical, From(source, at, from).reader) BY DEF DecodedTo, Decodes
    <2>2. QED BY <1>x, <2>1, TrackerKeepsUp
  <1>2. told \in Reading(opt, q) /\ Talks(told, a)
    <2>1. d \in Reading(opt, q) /\ d.row \in Int /\ t \in Tracks BY <1>1, <1>x
    <2> HIDE DEF Z, T, r, base
    <2>2. QED BY <2>1, DecoderQuotes
  <1> HIDE DEF t
  <1>d. /\ told \in Decoders(q) /\ told.hasRead = d.hasRead
        /\ told.reader = d.reader /\ told.field = d.field /\ told.fieldIndex = d.fieldIndex
        /\ told.row = d.row /\ told.selected = d.selected /\ told.rows = d.rows
        /\ told.done = d.done /\ told.expected = from /\ told.lexical = t.lex
    <2> HIDE DEF told
    <2>1. told = [a EXCEPT !.diagnostics = told.diagnostics, !.error = told.error] BY <1>2 DEF Talks
    <2>2. told \in Decoders(q) BY <1>2 DEF Reading
    <2>3. QED BY <1>s, <1>x, <2>1, <2>2 DEF Decoders
  <1>b. base = IF told.error = OK THEN [told EXCEPT !.hasRead = TRUE, !.expected = from] ELSE told
    <2>1. ~DropsMark(told, from, to) BY <1>d DEF DropsMark
    <2>2. base = Then(told, LAMBDA z : BeginDecode(z, from, to)) BY DEF Opened
    <2> HIDE DEF told, base
    <2>3. BeginDecode(told, from, to) = [told EXCEPT !.hasRead = TRUE, !.expected = from]
      BY <2>1 DEF BeginDecode, OnlyMark, FirstRead
    <2>4. QED BY <2>2, <2>3 DEF Then
  <1>c. base \in Reading(opt, q)
    <2> HIDE DEF told, base
    <2>1. CASE told.error # OK BY <1>2, <1>b, <2>1
    <2>2. CASE told.error = OK
      <3>1. base = [told EXCEPT !.hasRead = TRUE, !.expected = from] BY <1>b, <2>2
      <3>2. /\ base \in Decoders(q) /\ base.field = told.field
            /\ base.diagnostics = told.diagnostics /\ base.batchBytes = told.batchBytes
        BY <1>d, <3>1 DEF Decoders
      <3>3. QED BY <1>2, <3>2 DEF Reading
    <2>3. QED BY <2>1, <2>2
  <1>4. Reaches(base, from)
    <2> HIDE DEF told, base
    <2>1. CASE told.error # OK
      <3>1. base = told BY <1>b, <2>1
      <3>2. QED BY <2>1, <3>1
    <2>2. CASE told.error = OK
      <3>1. base = [told EXCEPT !.hasRead = TRUE, !.expected = from] BY <1>b, <2>2
      <3>2. /\ base.reader = d.reader /\ base.field = d.field /\ base.fieldIndex = d.fieldIndex
            /\ base.row = d.row /\ base.selected = d.selected /\ base.rows = d.rows
            /\ base.done = d.done /\ base.expected = from /\ base.lexical = t.lex /\ base.hasRead
        BY <1>d, <3>1 DEF Decoders
      <3>3. Reached(q, base, at, j, from) BY <1>x, <3>2 DEF Reached, DecodedTo, Decodes
      <3>4. QED BY <3>2, <3>3
    <2>3. QED BY <2>1, <2>2
  <1>5. /\ Z(from) = base
        /\ \A n \in Nat : n >= from => Z(n) \in Reading(opt, q) /\ Z(n + 1) = DecodeStep(q)[<<n, Z(n)>>]
    <2>1. Stepwise(DecodeStep(q), Int, Reading(opt, q), base) BY <1>c, DecodeSteps
    <2> DEFINE h == DecodeStep(q)
               V == Reading(opt, q)
    <2>2. Stepwise(h, Int, V, base) BY <2>1
    <2> HIDE DEF h, V, base
    <2>3. /\ Stage(h, base, from, from) = base
          /\ \A n \in Nat : n >= from =>
               Stage(h, base, from, n) \in V /\ Stage(h, base, from, n + 1) = h[<<n, Stage(h, base, from, n)>>]
      BY <2>2, Stages
    <2>4. QED BY <2>3 DEF h, V
  <1>6. r = Z(to) BY <1>c, DecodeIsRun
  <1> HIDE DEF told, base, a
  <1>7. \A n \in Nat : n >= from => Z(n) \in Reading(opt, q) /\ n \in Int /\ Z(n + 1) = Decoded(Z(n), n)
    <2>1. \A e \in Int, v \in Reading(opt, q) : DecodeStep(q)[<<e, v>>] = Decoded(v, e) BY DEF DecodeStep
    <2>2. \A n \in Nat : n \in Int OBVIOUS
    <2> HIDE DEF Z
    <2>3. QED BY <1>5, <2>1, <2>2
  <1> HIDE DEF Z
  <1>8. from \in T BY <1>4, <1>5
  <1>9. \A n \in T : from <= n /\ n < to => n + 1 \in T
    <2> SUFFICES ASSUME NEW n \in T, from <= n, n < to PROVE n + 1 \in T OBVIOUS
    <2> DEFINE z == Z(n)
               y == Z(n + 1)
    <2>1. n \in Nat /\ n >= from /\ Reaches(z, n) /\ n + 1 \in Nat /\ from <= n + 1 /\ at <= n
      OBVIOUS
    <2>2. z \in Reading(opt, q) /\ n \in Int /\ y = Decoded(z, n) BY <1>7, <2>1
    <2> HIDE DEF z, y
    <2>3. CASE z.error # OK
      <3>1. y = z BY <2>2, <2>3 DEF Decoded, Then
      <3>2. Reaches(y, n + 1) BY <2>3, <3>1
      <3>3. QED BY <2>1, <3>2 DEF y
    <2>4. CASE z.error = OK
      <3>1. y = DecodeByte(z, n) BY <2>2, <2>4 DEF Decoded, Then
      <3>2. Reached(q, z, at, j, n) /\ z.lexical = t.lex /\ z.hasRead BY <2>1, <2>4
      <3>3. CASE z.done
        <4>1. y = z BY <3>1, <3>3, DecodeDone
        <4>2. Reached(q, y, at, j, n + 1) BY <2>1, <3>2, <3>3, <4>1 DEF Reached
        <4>3. QED BY <2>1, <3>2, <4>1, <4>2 DEF y
      <3>4. CASE ~z.done
        <4>1. DecodedTo(q, z, at, j, n) BY <3>2, <3>4 DEF Reached, DecodedTo
        <4>2. y.error = OK => DecodedTo(q, y, at, j, n + 1) /\ y.lexical = z.lexical /\ y.hasRead = z.hasRead
          BY <2>1, <2>2, <2>4, <3>1, <3>4, <4>1, ByteDecoded
        <4>3. y.error = OK => Reached(q, y, at, j, n + 1)
          BY <2>1, <4>2 DEF Reached, DecodedTo
        <4>4. Reaches(y, n + 1) BY <3>2, <4>2, <4>3
        <4>5. QED BY <2>1, <4>4 DEF y
      <3>5. QED BY <3>3, <3>4
    <2>5. QED BY <2>3, <2>4
  <1>10. T \in SUBSET Nat OBVIOUS
  <1> HIDE DEF T
  <1>11. \A n \in Nat : from <= n /\ n <= to => n \in T BY <1>8, <1>9, <1>10, InductFrom
  <1>12. to \in T BY <1>11
  <1>13. Reaches(r, to) BY <1>6, <1>12 DEF T
  <1>14. r \in Reading(opt, q) BY <1>6, <1>7
  <1> HIDE DEF r
  <1>15. r.error = OK /\ ~r.done => Agree(r.lexical, r.reader)
    <2> SUFFICES ASSUME r.error = OK, ~r.done PROVE Agree(r.lexical, r.reader) OBVIOUS
    <2>1. r.reader = From(source, at, to).reader /\ r.lexical = t.lex BY <1>13 DEF Reached, Decodes
    <2>2. QED BY <1>1, <2>1
  <1>16. QED BY <1>13, <1>14, <1>15 DEF r

\* The rows of an answer: those of the range that the records from row j hold.
Answers(src, q, rows, C, j) ==
    /\ Len(rows) = IF j + Len(C) <= q.rowStart THEN 0
                   ELSE IF j + Len(C) < RowEnd(q) THEN (j + Len(C)) - q.rowStart ELSE q.rowCount
    /\ \A i \in 1..Len(rows) : rows[i] = CellsOf(src, q, C[(q.rowStart - j) + i])

\* A range that is complete before the source ends.
LEMMA AnswersEarly ==
  ASSUME NEW src, NEW q \in Rectangles, q.rowCount > 0, NEW rows, NEW records \in Seq(Records), NEW j \in Nat,
         j <= q.rowStart, Gathered(src, q, rows, records, j), j + Len(records) = RowEnd(q),
         NEW C \in Seq(Records), Extends(C, records)
  PROVE  Answers(src, q, rows, C, j)
  <1> DEFINE n == Len(records)
             m == Len(C)
  <1>1. n \in Nat /\ m \in Nat /\ n <= m /\ \A i \in 1..n : C[i] = records[i] BY DEF Extends
  <1>2. q.rowStart \in Nat /\ q.rowCount \in Nat BY DEF Rectangles
  <1>3. j + n = q.rowStart + q.rowCount BY DEF RowEnd
  <1>4. /\ Len(rows) = IF j + n <= q.rowStart THEN 0 ELSE (j + n) - q.rowStart
        /\ \A i \in 1..Len(rows) : rows[i] = CellsOf(src, q, records[(q.rowStart - j) + i])
    BY DEF Gathered
  <1> HIDE DEF n, m
  <1>5. Len(rows) = q.rowCount BY <1>1, <1>2, <1>3, <1>4
  <1>6. ~(j + m <= q.rowStart) /\ ~(j + m < q.rowStart + q.rowCount) BY <1>1, <1>2, <1>3
  <1>7. ASSUME NEW i \in 1..Len(rows) PROVE rows[i] = CellsOf(src, q, C[(q.rowStart - j) + i])
    <2>1. (q.rowStart - j) + i \in 1..n BY <1>1, <1>2, <1>3, <1>5
    <2>2. C[(q.rowStart - j) + i] = records[(q.rowStart - j) + i] BY <1>1, <2>1
    <2>3. QED BY <1>4, <2>2
  <1>8. QED BY <1>5, <1>6, <1>7 DEF Answers, RowEnd, m

\* A range the end of the source cuts short.
LEMMA AnswersAtEnd ==
  ASSUME NEW src, NEW q \in Rectangles, NEW rows, NEW C \in Seq(Records), NEW j \in Nat,
         Gathered(src, q, rows, C, j), j + Len(C) <= RowEnd(q)
  PROVE  Answers(src, q, rows, C, j)
  <1> DEFINE m == Len(C)
  <1>1. m \in Nat /\ q.rowStart \in Nat /\ q.rowCount \in Nat BY DEF Rectangles
  <1>2. /\ Len(rows) = IF j + m <= q.rowStart THEN 0 ELSE (j + m) - q.rowStart
        /\ \A i \in 1..Len(rows) : rows[i] = CellsOf(src, q, C[(q.rowStart - j) + i])
    BY DEF Gathered
  <1>3. j + m <= q.rowStart + q.rowCount BY DEF RowEnd
  <1> HIDE DEF m
  <1>4. Len(rows) = IF j + m <= q.rowStart THEN 0
                    ELSE IF j + m < q.rowStart + q.rowCount THEN (j + m) - q.rowStart ELSE q.rowCount
    BY <1>1, <1>2, <1>3
  <1>5. QED BY <1>2, <1>4 DEF Answers, RowEnd, m

\* The last record of a range, when the source does not end with a terminator.
LastRow(z) ==
    IF FinalRecord(z.reader)
    THEN Then(Then([z EXCEPT !.reader = "StartRecord"], DecodeField), DecodeRecord)
    ELSE z

\* It is what the end of the source is to the parser.
LEMMA DecoderLast ==
  ASSUME opt \in Options, NEW q \in Rectangles, q.rowCount > 0, NEW d \in Reading(opt, q),
         d.error = OK, ~d.done, NEW p, NEW j \in Nat, Decodes(source, q, d, p, j)
  PROVE  /\ LastRow(d) \in Reading(opt, q)
         /\ LastRow(d).error = OK => Decodes(source, q, LastRow(d), Closed(p), j)
  <1> DEFINE s1 == [d EXCEPT !.reader = "StartRecord"]
             p1 == [p EXCEPT !.reader = "StartRecord"]
             f == DecodeField(s1)
             x == IF f.error = OK THEN DecodeRecord(f) ELSE f
             r == LastRow(d)
  <1>0. p.reader = d.reader /\ p \in Parses BY DEF Decodes
  <1>s. d \in Decoders(q) BY DEF Reading
  <1>1. CASE ~FinalRecord(d.reader)
    <2>1. r = d BY <1>1 DEF LastRow
    <2>2. Closed(p) = p BY <1>0, <1>1 DEF Closed
    <2>3. QED BY <2>1, <2>2
  <1>2. CASE FinalRecord(d.reader)
    <2>0. "StartRecord" \in Readers BY DEF Readers
    <2>1. /\ s1 \in Decoders(q) /\ s1.error = OK /\ s1.reader = "StartRecord" /\ s1.field = d.field
          /\ s1.fieldIndex = d.fieldIndex /\ s1.row = d.row /\ s1.selected = d.selected
          /\ s1.rows = d.rows /\ s1.done = d.done /\ s1.diagnostics = d.diagnostics
          /\ s1.batchBytes = d.batchBytes
      BY <1>s, <2>0 DEF Decoders
    <2>2. r = x BY <1>2, <2>1 DEF LastRow, Then
    <2> HIDE DEF s1, r
    <2>3. s1 \in Reading(opt, q) BY <2>1 DEF Reading
    <2>4. /\ p1 \in Parses /\ p1.reader = "StartRecord" /\ p1.field = p.field
          /\ p1.record = p.record /\ p1.records = p.records
      BY <1>0 DEF Parses, Readers
    <2>5. Closed(p) = EndRecord(EndField(p1)) BY <1>0, <1>2 DEF Closed
    <2> HIDE DEF p1
    <2>6. Decodes(source, q, s1, p1, j) BY <2>1, <2>4 DEF Decodes
    <2>7. f \in Reading(opt, q) /\ (f.error = OK => DecoderField(f, s1, q))
      BY <2>1, <2>3, DecoderEndsField
    <2> HIDE DEF f
    <2>8. CASE f.error # OK
      <3>1. r = f BY <2>2, <2>8
      <3>2. QED BY <2>7, <2>8, <3>1 DEF r
    <2>9. CASE f.error = OK
      <3> DEFINE pf == EndField(p1)
      <3>1. r = DecodeRecord(f) BY <2>2, <2>9
      <3>2. Decodes(source, q, f, pf, j) /\ f.done = s1.done BY <2>3, <2>6, <2>7, <2>9, FieldDecodes
      <3>3. ~f.done BY <2>1, <3>2
      <3> HIDE DEF pf
      <3>4. r \in Reading(opt, q) BY <2>7, <2>9, <3>1, DecoderEndsRecord
      <3>5. ASSUME r.error = OK PROVE Decodes(source, q, r, Closed(p), j)
        <4>1. DecoderRecord(r, f, q) BY <2>7, <2>9, <3>1, <3>5, DecoderEndsRecord
        <4>2. Decodes(source, q, r, EndRecord(pf), j) BY <2>7, <3>2, <3>3, <4>1, RecordDecodes
        <4>3. QED BY <2>5, <4>2 DEF pf
      <3>6. QED BY <3>4, <3>5 DEF r
    <2>10. QED BY <2>8, <2>9
  <1>3. QED BY <1>1, <1>2

\* DecodeEof answers with the rows there are.
LEMMA DecoderFinishes ==
  ASSUME opt \in Options, NEW q \in Rectangles, q.rowCount > 0, NEW d \in Reading(opt, q),
         d.error = OK, ~d.done, NEW p, NEW j \in Nat, Decodes(source, q, d, p, j)
  PROVE  /\ DecodeEof(d) \in Reading(opt, q)
         /\ DecodeEof(d).error = OK =>
              DecodeEof(d).done /\ Answers(source, q, DecodeEof(d).rows, Closed(p).records, j)
  <1> DEFINE u == UnclosedQuote(d, d.row)
             l == LastRow(u)
             x == [l EXCEPT !.done = TRUE]
             r == DecodeEof(d)
  <1>s. d \in Decoders(q) BY DEF Reading
  <1>l. d.lexical.opening \in Int /\ d.row \in Int BY <1>s DEF Decoders, Trackers
  <1>1. u \in Reading(opt, q) /\ Talks(u, d)
    <2>0. d = [d EXCEPT !.diagnostics = d.diagnostics, !.error = d.error] BY <1>s DEF Decoders
    <2>1. Talks(d, d) BY <2>0 DEF Talks
    <2>2. "malformed-quote" \in Kinds BY DEF Kinds
    <2>3. QED BY <1>l, <2>1, <2>2, DecoderTold DEF UnclosedQuote
  <1>3. r = IF u.error # OK THEN u ELSE IF l.error # OK THEN l ELSE x
    <2> HIDE DEF u
    <2>1. r = Then(Then(u, LastRow), LAMBDA z : [z EXCEPT !.done = TRUE]) BY DEF DecodeEof, LastRow, u
    <2> HIDE DEF r
    <2>2. QED BY <2>1 DEF Then
  <1>2. /\ u.reader = d.reader /\ u.field = d.field /\ u.fieldIndex = d.fieldIndex
        /\ u.row = d.row /\ u.selected = d.selected /\ u.rows = d.rows /\ u.done = d.done
    <2> HIDE DEF u
    <2>1. u = [d EXCEPT !.diagnostics = u.diagnostics, !.error = u.error] BY <1>1 DEF Talks
    <2>2. QED BY <1>s, <2>1 DEF Decoders
  <1> HIDE DEF u, r
  <1>4. CASE u.error # OK
    <2>1. r = u BY <1>3, <1>4
    <2>2. QED BY <1>1, <1>4, <2>1 DEF r
  <1>5. ASSUME u.error = OK
        PROVE  /\ l \in Reading(opt, q)
               /\ l.error = OK => Decodes(source, q, l, Closed(p), j)
    <2>1. Decodes(source, q, u, p, j) BY <1>2 DEF Decodes
    <2>2. ~u.done BY <1>2
    <2>3. QED BY <1>1, <1>5, <2>1, <2>2, DecoderLast
  <1> HIDE DEF l
  <1>6. CASE u.error = OK /\ l.error # OK
    <2>1. r = l BY <1>3, <1>6
    <2>2. QED BY <1>5, <1>6, <2>1 DEF r
  <1>7. CASE u.error = OK /\ l.error = OK
    <2> DEFINE C == Closed(p)
    <2>1. r = x BY <1>3, <1>7
    <2>2. l \in Reading(opt, q) /\ l \in Decoders(q) /\ Decodes(source, q, l, C, j) BY <1>5, <1>7 DEF Reading
    <2>3. /\ x \in Decoders(q) /\ x.done = TRUE /\ x.field = l.field /\ x.diagnostics = l.diagnostics
          /\ x.batchBytes = l.batchBytes /\ x.rows = l.rows
      <3>1. l \in Decoders(q) BY <2>2
      <3>2. QED BY <3>1 DEF Decoders
    <2> HIDE DEF x, C
    <2>4. x \in Reading(opt, q) BY <2>2, <2>3 DEF Reading
    <2>5. C \in Parses /\ j + Len(C.records) <= RowEnd(q) /\ Gathered(source, q, l.rows, C.records, j)
      BY <2>2 DEF Decodes
    <2>6. C.records \in Seq(Records) BY <2>5 DEF Parses
    <2>7. Answers(source, q, l.rows, C.records, j) BY <2>5, <2>6, AnswersAtEnd
    <2>8. QED BY <2>1, <2>3, <2>4, <2>7 DEF r, C
  <1>8. QED BY <1>4, <1>6, <1>7

\* A chunk of a range.
LEMMA DecoderFeeds ==
  ASSUME opt \in Options, NEW q \in Rectangles, q.rowCount > 0, NEW d \in Reading(opt, q),
         d.error = OK, ~d.done, Len(source) \in Nat,
         NEW at \in Nat, NEW from \in Nat, NEW to \in Nat, at <= from, from <= to, to <= Len(source),
         NEW j \in Nat, DecodedTo(q, d, at, j, from), Agree(d.lexical, d.reader), ~DropsMark(d, from, to)
  PROVE  LET r == DecodeChunk(d, to)
         IN  /\ r \in Reading(opt, q)
             /\ r.error = OK /\ ~r.done =>
                  DecodedTo(q, r, at, j, to) /\ r.hasRead /\ Agree(r.lexical, r.reader)
             /\ r.error = OK /\ r.done =>
                  Answers(source, q, r.rows, Closed(From(source, at, Len(source))).records, j)
  <1> DEFINE fed == DecodeBytes(d, from, to)
             m == Len(source)
             C == Closed(From(source, at, m)).records
             r == DecodeChunk(d, to)
  <1>1. r = IF fed.error = OK /\ ~fed.done /\ to = m THEN DecodeEof(fed) ELSE fed
    <2>1. r = Then(fed, LAMBDA z : IF ~z.done /\ to = m THEN DecodeEof(z) ELSE z)
      <3>1. d.expected = from BY DEF DecodedTo
      <3>2. QED BY <3>1 DEF DecodeChunk, DecodeBytes
    <2> HIDE DEF fed, r, m
    <2>2. QED BY <2>1 DEF Then
  <1>2. /\ fed \in Reading(opt, q)
        /\ fed.error = OK =>
             Reached(q, fed, at, j, to) /\ fed.hasRead /\ (~fed.done => Agree(fed.lexical, fed.reader))
    BY DecoderDecodes
  <1> HIDE DEF fed, r
  <1>3. CASE fed.error # OK
    <2>1. r = fed BY <1>1, <1>3
    <2>2. QED BY <1>2, <1>3, <2>1 DEF r
  <1>4. CASE fed.error = OK /\ fed.done
    <2> DEFINE e == fed.expected
               p == From(source, at, e)
    <2>1. r = fed BY <1>1, <1>4
    <2>2. /\ e \in Nat /\ at <= e /\ e <= to /\ Decodes(source, q, fed, p, j)
      BY <1>2, <1>4 DEF Reached
    <2>3. e <= m /\ m \in Nat /\ m >= at BY <2>2
    <2> HIDE DEF e, m
    <2>4. From(source, at, m) \in Parses BY <2>3, ParseStages
    <2>5. Extends(From(source, at, m).records, p.records) BY <2>2, <2>3, FromExtends
    <2>6. Closed(From(source, at, m)) \in Parses /\ Extends(C, From(source, at, m).records)
      BY <2>4, ClosedExtends
    <2>7. /\ p \in Parses /\ j <= q.rowStart /\ j + Len(p.records) = RowEnd(q)
          /\ Gathered(source, q, fed.rows, p.records, j)
      BY <1>4, <2>2 DEF Decodes
    <2>8. /\ p.records \in Seq(Records) /\ C \in Seq(Records) /\ From(source, at, m).records \in Seq(Records)
      BY <2>4, <2>6, <2>7 DEF Parses
    <2> HIDE DEF p, C
    <2>9. Extends(C, p.records) BY <2>5, <2>6, <2>8 DEF Extends
    <2>10. Answers(source, q, fed.rows, C, j) BY <2>7, <2>8, <2>9, AnswersEarly
    <2>11. QED BY <1>2, <1>4, <2>1, <2>10 DEF r, C, m
  <1>5. CASE fed.error = OK /\ ~fed.done
    <2>1. Reached(q, fed, at, j, to) /\ fed.hasRead /\ Agree(fed.lexical, fed.reader) BY <1>2, <1>5
    <2>2. DecodedTo(q, fed, at, j, to) BY <1>5, <2>1 DEF Reached, DecodedTo
    <2>3. CASE to # m
      <3>1. r = fed BY <1>1, <2>3
      <3>2. QED BY <1>2, <1>5, <2>1, <2>2, <3>1 DEF r
    <2>4. CASE to = m
      <3> DEFINE p == From(source, at, to)
      <3>1. r = DecodeEof(fed) BY <1>1, <1>5, <2>4
      <3>2. Decodes(source, q, fed, p, j) BY <2>2 DEF DecodedTo
      <3> HIDE DEF p
      <3>3. /\ r \in Reading(opt, q)
            /\ r.error = OK => r.done /\ Answers(source, q, r.rows, Closed(p).records, j)
        BY <1>2, <1>5, <3>1, <3>2, DecoderFinishes
      <3>4. Closed(p).records = C BY <2>4 DEF p
      <3>5. QED BY <3>3, <3>4 DEF r
    <2>5. QED BY <2>3, <2>4
  <1>6. QED BY <1>3, <1>4, <1>5

-----------------------------------------------------------------------------
(* The whole source, and what a read that starts at a checkpoint finds.     *)

\* Every record of the source, and how many of them are data rows.
Whole(src) == Closed(From(src, Base(src), Len(src))).records
RowCount(src, o) == IF Len(Whole(src)) <= Hdr(o) THEN 0 ELSE Len(Whole(src)) - Hdr(o)

\* A fresh parser at an offset finds the data rows from row j on.
Resumed(src, o, at, j) ==
    LET C == Closed(From(src, at, Len(src))).records
    IN  /\ at \in Nat /\ at <= Len(src) /\ j \in Nat
        /\ C \in Seq(Records) /\ RowCount(src, o) = j + Len(C)
        /\ \A i \in 1..Len(C) : C[i] = Whole(src)[Hdr(o) + j + i]

\* The rows of the range in the whole source.
Answered(src, o, q, rows) ==
    /\ Len(rows) = IF RowCount(src, o) <= q.rowStart THEN 0
                   ELSE IF RowCount(src, o) < RowEnd(q) THEN RowCount(src, o) - q.rowStart ELSE q.rowCount
    /\ \A i \in 1..Len(rows) : rows[i] = CellsOf(src, q, Whole(src)[Hdr(o) + q.rowStart + i])

\* They are records, and a number.
LEMMA WholeType ==
  ASSUME NEW src, Len(src) \in Nat, Base(src) <= Len(src), NEW o
  PROVE  Whole(src) \in Seq(Records) /\ Hdr(o) \in {0, 1} /\ RowCount(src, o) \in Nat
  <1>1. Base(src) \in Nat /\ Len(src) >= Base(src) BY BaseType
  <1>2. From(src, Base(src), Len(src)) \in Parses BY <1>1, ParseStages
  <1>3. Closed(From(src, Base(src), Len(src))) \in Parses BY <1>2, ClosedExtends
  <1>4. Whole(src) \in Seq(Records) BY <1>3 DEF Whole, Parses
  <1>5. Hdr(o) \in {0, 1} BY DEF Hdr
  <1>6. QED BY <1>4, <1>5 DEF RowCount

\* The text begins within the source.
LEMMA BaseWithin ==
  ASSUME NEW src, Len(src) \in Nat
  PROVE  Base(src) \in Nat /\ Base(src) <= Len(src)
  BY BaseType DEF HasBom

\* A checkpoint of the index is such an offset.
LEMMA CheckpointResumes ==
  ASSUME NEW src, Len(src) \in Nat, NEW o, NEW at, NEW j \in Nat,
         Boundary(src, Base(src), at, j + Hdr(o))
  PROVE  Resumed(src, o, at, j)
  <1> DEFINE b == Base(src)
             m == Len(src)
             k == From(src, b, at).records
             p == From(src, b, m)
             e == From(src, at, m)
             W == Whole(src)
             C == Closed(e).records
             h == Hdr(o)
  <1>1. b \in Nat /\ b <= m BY BaseWithin
  <1>2. at \in Nat /\ at <= m /\ Len(k) = j + h BY DEF Boundary
  <1>3. h \in {0, 1} /\ W \in Seq(Records) BY <1>1, WholeType
  <1>4. Continues(p, e, k) BY <1>1, <1>2, Resumes
  <1> HIDE DEF b, m, p, e, k
  <1>5. Continues(Closed(p), Closed(e), k) BY <1>4, ContinuesClosed
  <1>6. W = Closed(p).records BY DEF Whole, p, b, m
  <1>7. k \in Seq(Records) /\ C \in Seq(Records) /\ W = k \o C BY <1>5, <1>6 DEF Continues, Parses
  <1> HIDE DEF W, C, h
  <1>8. Len(W) = (j + h) + Len(C) /\ \A i \in 1..Len(C) : W[(j + h) + i] = C[i]
    <2>1. Len(k \o C) = Len(k) + Len(C)
      BY <1>7, ConcatProperties
    <2>2. ASSUME NEW i \in 1..Len(C) PROVE (k \o C)[Len(k) + i] = C[i]
      <3>1. Len(k) \in Nat /\ Len(C) \in Nat /\ i \in Nat /\ i > 0 /\ i <= Len(C) BY <1>7
      <3>2. Len(k) + i \in 1..Len(k) + Len(C) /\ ~(Len(k) + i <= Len(k)) BY <3>1
      <3>3. (k \o C)[Len(k) + i] = C[(Len(k) + i) - Len(k)] BY <1>7, <3>2, ConcatProperties
      <3>4. (Len(k) + i) - Len(k) = i BY <3>1
      <3>5. QED BY <3>3, <3>4
    <2>3. QED BY <1>2, <1>7, <2>1, <2>2
  <1>9. RowCount(src, o) = j + Len(C)
    <2>1. RowCount(src, o) = IF Len(W) <= h THEN 0 ELSE Len(W) - h BY DEF RowCount, W, h
    <2>2. Len(C) \in Nat BY <1>7
    <2>3. QED BY <1>3, <1>8, <2>1, <2>2
  <1>10. \A i \in 1..Len(C) : C[i] = W[h + j + i]
    <2>1. \A i \in 1..Len(C) : h + j + i = (j + h) + i BY <1>3
    <2>2. QED BY <1>8, <2>1
  <1>11. QED BY <1>2, <1>7, <1>9, <1>10 DEF Resumed, C, W, h, e, m

\* So is the end, after the last row.
LEMMA EndResumes ==
  ASSUME NEW src, Len(src) \in Nat, NEW o
  PROVE  Resumed(src, o, Len(src), RowCount(src, o))
  <1> DEFINE m == Len(src)
             C == Closed(From(src, m, m)).records
  <1>1. From(src, m, m) = NoParse BY ParseStages
  <1>2. C = <<>> BY <1>1 DEF Closed, NoParse, FinalRecord
  <1>3. RowCount(src, o) \in Nat BY BaseWithin, WholeType
  <1> HIDE DEF C
  <1>4. Len(C) = 0 /\ C \in Seq(Records) BY <1>2
  <1>5. QED BY <1>3, <1>4 DEF Resumed, C

\* What is answered from a checkpoint is what the whole source holds.
LEMMA AnswersAll ==
  ASSUME NEW src, NEW o, NEW q \in Rectangles, NEW at, NEW j, Resumed(src, o, at, j), j <= q.rowStart,
         NEW rows, Answers(src, q, rows, Closed(From(src, at, Len(src))).records, j)
  PROVE  Answered(src, o, q, rows)
  <1> DEFINE C == Closed(From(src, at, Len(src))).records
             W == Whole(src)
             h == Hdr(o)
             m == RowCount(src, o)
  <1>1. /\ j \in Nat /\ C \in Seq(Records) /\ m = j + Len(C)
        /\ \A i \in 1..Len(C) : C[i] = W[h + j + i]
    BY DEF Resumed
  <1>2. /\ Len(rows) = IF j + Len(C) <= q.rowStart THEN 0
                       ELSE IF j + Len(C) < RowEnd(q) THEN (j + Len(C)) - q.rowStart ELSE q.rowCount
        /\ \A i \in 1..Len(rows) : rows[i] = CellsOf(src, q, C[(q.rowStart - j) + i])
    BY DEF Answers
  <1>3. h \in {0, 1} BY DEF Hdr
  <1>4. q.rowStart \in Nat /\ q.rowCount \in Nat /\ RowEnd(q) = q.rowStart + q.rowCount
    BY DEF Rectangles, RowEnd
  <1> HIDE DEF C, W, h, m
  <1>5. Len(C) \in Nat BY <1>1
  <1>6. ASSUME NEW i \in 1..Len(rows) PROVE rows[i] = CellsOf(src, q, W[h + q.rowStart + i])
    <2>1. (q.rowStart - j) + i \in 1..Len(C)
      <3> DEFINE n == Len(C)
                 l == Len(rows)
                 r == q.rowStart
                 e == RowEnd(q)
      <3>1. n \in Nat /\ j \in Nat /\ r \in Nat /\ q.rowCount \in Nat /\ j <= r /\ e = r + q.rowCount
        BY <1>1, <1>4, <1>5
      <3>2. l = IF j + n <= r THEN 0 ELSE IF j + n < e THEN (j + n) - r ELSE q.rowCount BY <1>2
      <3>3. i \in 1..l OBVIOUS
      <3> HIDE DEF n, l, r, e
      <3>4. l \in Nat /\ ~(j + n <= r) /\ l <= (j + n) - r BY <3>1, <3>2, <3>3
      <3>5. i \in Nat /\ i > 0 /\ i <= l BY <3>3, <3>4
      <3>6. (r - j) + i \in 1..n BY <3>1, <3>4, <3>5
      <3>7. QED BY <3>6 DEF n, r
    <2>2. h + j + ((q.rowStart - j) + i) = h + q.rowStart + i
      <3>1. Len(rows) \in Nat BY <1>1, <1>2, <1>4, <1>5
      <3>2. QED BY <1>1, <1>3, <1>4, <3>1
    <2>3. C[(q.rowStart - j) + i] = W[h + q.rowStart + i] BY <1>1, <2>1, <2>2
    <2>4. QED BY <1>2, <2>3
  <1>7. Len(rows) = IF m <= q.rowStart THEN 0
                    ELSE IF m < RowEnd(q) THEN m - q.rowStart ELSE q.rowCount
    BY <1>1, <1>2
  <1>8. QED BY <1>6, <1>7 DEF Answered, W, h, m

\* When no record begins with a mark, none of what a reader is started at does.
LEMMA PlainBegins ==
  ASSUME Len(source) \in Nat, PlainRecords
  PROVE  PlainStart
  <1>1. TextStart = Base(source) /\ Base(source) \in Nat /\ Base(source) <= Len(source)
    BY MarkIsBom, BaseWithin
  <1>2. TextStart \in TextStart .. Len(source) /\ TextStart \in RecordStarts BY <1>1 DEF RecordStarts
  <1> HIDE DEF TextStart
  <1>3. QED BY <1>2 DEF PlainRecords, PlainStart

LEMMA PlainBoundary ==
  ASSUME Len(source) \in Nat, PlainRecords, NEW at, NEW k, Boundary(source, Base(source), at, k)
  PROVE  ~MarkAt(at)
  <1> DEFINE b == Base(source)
  <1>1. TextStart = b /\ b \in Nat /\ b <= Len(source) BY MarkIsBom, BaseWithin
  <1>2. at \in Nat /\ b <= at /\ at <= Len(source) BY DEF Boundary
  <1>3. at \in RecordStarts
    <2>1. CASE at = b BY <1>1, <2>1 DEF RecordStarts
    <2>2. CASE b < at /\ Len(From(source, b, at - 1).records) < Len(From(source, b, at).records)
      <3> HIDE DEF b
      <3>1. at - 1 \in Nat /\ b <= at - 1 BY <1>1, <1>2, <2>2
      <3>2. /\ ReferenceParse(b, at) = From(source, b, at)
            /\ ReferenceParse(b, at - 1) = From(source, b, at - 1)
        BY <1>1, <1>2, <3>1, ReferenceParseIs
      <3>3. at \in b + 1 .. Len(source) BY <1>1, <1>2, <2>2
      <3>4. Len(ReferenceParse(TextStart, at).records) > Len(ReferenceParse(TextStart, at - 1).records)
        <4> DEFINE m == Len(From(source, b, at - 1).records)
                   l == Len(From(source, b, at).records)
        <4>1. From(source, b, at) \in Parses /\ From(source, b, at - 1) \in Parses
          BY <1>1, <1>2, <3>1, ParseStages
        <4>2. m \in Nat /\ l \in Nat BY <4>1 DEF Parses
        <4>3. m < l BY <2>2
        <4> HIDE DEF m, l
        <4>4. l > m BY <4>2, <4>3
        <4>5. QED BY <1>1, <3>2, <4>4 DEF m, l
      <3>5. QED BY <1>1, <3>3, <3>4 DEF RecordStarts
    <2>3. QED BY <2>1, <2>2 DEF Boundary
  <1>4. at \in TextStart .. Len(source) BY <1>1, <1>2
  <1> HIDE DEF b
  <1>5. QED BY <1>3, <1>4 DEF PlainRecords

\* The scan's checkpoints, wherever the scan is.
LEMMA ScannedIndex ==
  ASSUME opt \in Options, Len(source) \in Nat, NEW s, ScannerInv(s), s.error = OK
  PROVE  /\ Indexed(source, opt, Base(source), s) \/ (~s.finished /\ s.rows = 0 /\ s.checkpoints = <<>>)
         /\ s.finished => s.parserOffset = Len(source) /\ s.rows = RowCount(source, opt)
  <1>b. Base(source) \in Nat /\ Base(source) <= Len(source) BY BaseWithin
  <1>1. CASE ~s.bomResolved /\ s = Holding(opt, s.received) /\ s.received < 3
    <2>1. s.received \in Nat BY DEF ScannerInv, Shape, Scanners
    <2> DEFINE n == s.received
               h == Holding(opt, n)
    <2>2. ~h.finished /\ h.rows = 0 /\ h.checkpoints = <<>> BY <2>1, HoldingIs
    <2> HIDE DEF h
    <2>3. s = h BY <1>1 DEF h
    <2>4. QED BY <2>2, <2>3
  <1>2. CASE ~s.finished /\ Scanned(Base(source), s, s.received)
    BY <1>2 DEF Scanned
  <1>3. CASE Ended(Base(source), s)
    <2> DEFINE W == Whole(source)
    <2>1. /\ s.finished /\ s.parserOffset = Len(source) /\ Indexed(source, opt, Base(source), s)
          /\ Sim(source, opt, s, Closed(From(source, Base(source), Len(source))))
      BY <1>3 DEF Ended
    <2>2. /\ s.headerPending => opt.header /\ W = <<>> /\ s.rows = 0
          /\ ~s.headerPending => Len(W) = s.rows + Hdr(opt)
      BY <2>1 DEF Sim, Whole
    <2>3. s.rows \in Nat BY DEF ScannerInv, Shape, Scanners
    <2>4. RowCount(source, opt) = IF Len(W) <= Hdr(opt) THEN 0 ELSE Len(W) - Hdr(opt) BY DEF RowCount
    <2> HIDE DEF W
    <2>h. Hdr(opt) \in {0, 1} BY DEF Hdr
    <2>5. s.rows = RowCount(source, opt)
      <3>1. CASE s.headerPending
        <4>1. Len(W) = 0 /\ s.rows = 0 BY <2>2, <3>1
        <4>2. QED BY <2>4, <2>h, <4>1
      <3>2. CASE ~s.headerPending
        <4>1. Len(W) = s.rows + Hdr(opt) BY <2>2, <3>2
        <4>2. QED BY <2>3, <2>4, <2>h, <4>1
      <3>3. QED BY <3>1, <3>2
    <2>6. QED BY <2>1, <2>5
  <1>4. QED BY <1>1, <1>2, <1>3 DEF ScannerInv

\* The checkpoint of a read that is not refused.
LEMMA PlanResumes ==
  ASSUME opt \in Options, ValidOptions(opt), Len(source) \in Nat, ScannerInv(scan), scan.error = OK,
         NEW q \in Rectangles, q.rowCount > 0, RangeRefusal(q) = OK, PlainRecords
  PROVE  LET c == PlanRange(q)
         IN  /\ c \in Marks /\ c.row <= q.rowStart /\ Resumed(source, opt, c.offset, c.row)
             /\ ~MarkAt(c.offset)
  <1> DEFINE cs == scan.checkpoints
             n == Len(cs)
             k == opt.interval
             before == {i \in 1..n : cs[i].row <= q.rowStart}
             c == PlanRange(q)
  <1>q. q.rowStart \in Nat BY DEF Rectangles
  <1>s. scan \in Scanners BY DEF ScannerInv, Shape
  <1>1. scan.rows \in Nat /\ cs \in Seq(Marks) /\ n \in Nat /\ scan.parserOffset \in Nat
    BY <1>s DEF Scanners
  <1>k. k \in Nat \ {0} BY OptionTypes DEF ValidOptions
  <1>2. scan.finished \/ q.rowStart < scan.rows
    <2>1. ~(q.rowCount > 0 /\ ~scan.finished /\ q.rowStart >= scan.rows)
      BY DEF RangeRefusal, OK
    <2>2. QED BY <1>q, <1>1, <2>1
  <1>3. /\ Indexed(source, opt, Base(source), scan)
        /\ scan.finished => scan.parserOffset = Len(source) /\ scan.rows = RowCount(source, opt)
    <2>1. ~(~scan.finished /\ scan.rows = 0) BY <1>q, <1>2
    <2>2. QED BY <2>1, ScannedIndex
  <1>4. /\ n = (scan.rows + k - 1) \div k
        /\ \A i \in 1..n : /\ cs[i].row = (i - 1) * k
                           /\ Boundary(source, Base(source), cs[i].offset, cs[i].row + Hdr(opt))
    BY <1>3 DEF Indexed
  <1>5. c = IF before = {} THEN [row |-> scan.rows, offset |-> scan.parserOffset] ELSE cs[Max(before)]
    <2> DEFINE B == {i \in DOMAIN scan.checkpoints : scan.checkpoints[i].row <= q.rowStart}
    <2>1. c = IF B = {} THEN [row |-> scan.rows, offset |-> scan.parserOffset] ELSE scan.checkpoints[Max(B)]
      BY DEF PlanRange
    <2>2. DOMAIN scan.checkpoints = 1..n BY <1>1
    <2>3. B = before BY <2>2
    <2> HIDE DEF B, before, c
    <2>4. QED BY <2>1, <2>3
  <1> HIDE DEF c, cs, k
  <1>6. CASE before = {}
    <2>1. n = 0
      <3> SUFFICES ASSUME n # 0 PROVE FALSE OBVIOUS
      <3>1. 1 \in 1..n BY <1>1
      <3>2. cs[1].row = (1 - 1) * k BY <1>4, <3>1
      <3>3. cs[1].row <= q.rowStart BY <1>q, <1>k, <3>2
      <3>4. QED BY <1>6, <3>1, <3>3
    <2>2. scan.rows = 0
      <3> DEFINE w == (scan.rows + k - 1) \div k
      <3>1. scan.rows > 0 => w > 0 BY <1>1, <1>k, Multiples
      <3>2. w = 0 BY <1>4, <2>1
      <3> HIDE DEF w
      <3>3. QED BY <1>1, <3>1, <3>2
    <2>3. scan.finished BY <1>q, <1>2, <2>2
    <2>4. c = [row |-> 0, offset |-> Len(source)] /\ RowCount(source, opt) = 0
      BY <1>3, <1>5, <1>6, <2>2, <2>3
    <2>5. Resumed(source, opt, Len(source), 0) BY <2>4, EndResumes
    <2>6. c \in Marks /\ c.row = 0 /\ c.offset = Len(source) BY <2>4 DEF Marks
    <2>7. ~MarkAt(Len(source)) BY DEF MarkAt
    <2>8. QED BY <1>q, <2>5, <2>6, <2>7 DEF c
  <1>7. CASE before # {}
    <2> DEFINE i == Max(before)
    <2>1. i \in before
      <3>1. before \in SUBSET (1..n) OBVIOUS
      <3> HIDE DEF before, n
      <3>2. QED BY <1>1, <1>7, <3>1, MaxExists
    <2>2. c = cs[i] BY <1>5, <1>7
    <2> HIDE DEF i
    <2>3. i \in 1..n /\ cs[i].row <= q.rowStart BY <2>1
    <2>4. cs[i] \in Marks BY <1>1, <2>3
    <2>5. cs[i].row \in Nat BY <2>4 DEF Marks
    <2>6. Boundary(source, Base(source), c.offset, c.row + Hdr(opt)) BY <1>4, <2>2, <2>3
    <2>7. c.row \in Nat BY <2>2, <2>5
    <2>8. Resumed(source, opt, c.offset, c.row) BY <2>6, <2>7, CheckpointResumes
    <2>9. ~MarkAt(c.offset) BY <2>6, PlainBoundary
    <2>10. QED BY <2>2, <2>3, <2>4, <2>8, <2>9 DEF c
  <1>8. QED BY <1>6, <1>7

\* A read under way.
DecoderInv(d, q, at, j) ==
    /\ d \in Reading(opt, q) /\ q.rowCount > 0 /\ d.error = OK /\ ~d.done
    /\ at <= d.expected /\ d.expected <= Len(source)
    /\ Resumed(source, opt, at, j) /\ ~MarkAt(at) /\ (d.hasRead \/ d.expected = at)
    /\ DecodedTo(q, d, at, j, d.expected) /\ Agree(d.lexical, d.reader)

\* A new decoder has read nothing from its checkpoint on.
LEMMA ReadBegins ==
  ASSUME opt \in Options, Len(source) \in Nat, scan \in Scanners,
         NEW q \in Rectangles, q.rowCount > 0, 4 * q.columnCount <= opt.maxBatchBytes,
         NEW c \in Marks, c.row <= q.rowStart, Resumed(source, opt, c.offset, c.row), ~MarkAt(c.offset)
  PROVE  DecoderInv(NewDecoder(q, c), q, c.offset, c.row)
  <1> DEFINE d == NewDecoder(q, c)
             at == c.offset
             j == c.row
  <1>1. at \in Nat /\ j \in Nat /\ at <= Len(source) BY DEF Marks, Resumed
  <1>q. q.rowStart \in Nat /\ q.rowCount \in Nat /\ q.columnCount \in Nat BY DEF Rectangles
  <1>2. d = [active |-> TRUE, request |-> q, width |-> Len(scan.columns), version |-> scan.version,
             reader |-> "StartRecord", hasRead |-> FALSE, lexical |-> NewTracker, expected |-> at,
             field |-> <<>>, fieldIndex |-> 0, row |-> j,
             selected |-> Blank(q), rows |-> <<>>,
             batchBytes |-> 4 * q.columnCount,
             diagnostics |-> <<>>, done |-> q.rowCount = 0, error |-> OK]
    BY DEF NewDecoder, Blank
  <1>3. Len(scan.columns) \in Nat /\ scan.version \in Nat BY DEF Scanners
  <1>4. Blank(q) \in Rows(q) BY DEF Blank, Rows, Names
  <1>5. NewTracker \in Trackers /\ "StartRecord" \in Readers /\ OK \in Codes BY DEF NewTracker, Trackers, Readers, Codes
  <1>6. 4 * q.columnCount \in Nat BY <1>q
  <1>7. <<>> \in Names /\ <<>> \in Seq(Rows(q)) /\ <<>> \in Seq(Told) BY DEF Names
  <1>8. d \in Decoders(q) BY <1>1, <1>2, <1>3, <1>4, <1>5, <1>6, <1>7 DEF Decoders
  <1>9. /\ d.field = <<>> /\ d.diagnostics = <<>> /\ d.batchBytes = 4 * q.columnCount
        /\ d.reader = "StartRecord" /\ d.lexical = NewTracker /\ d.expected = at
        /\ d.fieldIndex = 0 /\ d.row = j /\ d.selected = Blank(q) /\ d.rows = <<>>
        /\ d.error = OK
    BY <1>2
  <1>d. ~d.done
    <2>1. d.done = (q.rowCount = 0) BY <1>2
    <2>2. q.rowCount # 0 BY <1>q
    <2>3. QED BY <2>1, <2>2
  <1> HIDE DEF d
  <1>10. d \in Reading(opt, q)
    <2>1. Len(<<>>) = 0 /\ 0 <= opt.maxFieldBytes /\ 0 <= opt.maxDiagnostics BY OptionTypes
    <2>2. QED BY <1>8, <1>9, <2>1 DEF Reading
  <1>11. From(source, at, at) = NoParse BY <1>1, ParseStages
  <1>12. Decodes(source, q, d, NoParse, j)
    <2>1. /\ NoParse \in Parses
      BY DEF NoParse, Parses, Readers, Names, Records
    <2>2. NoParse.reader = "StartRecord" /\ NoParse.field = <<>> /\ NoParse.record = <<>> /\ NoParse.records = <<>>
      BY DEF NoParse
    <2>3. Len(<<>>) = 0 OBVIOUS
    <2>4. j + 0 = j /\ j <= RowEnd(q) /\ j # RowEnd(q) BY <1>1, <1>q DEF RowEnd
    <2>5. CellsOf(source, q, <<>>) = Blank(q) BY CellsOfNone
    <2>6. Gathered(source, q, <<>>, <<>>, j) BY <2>3, <2>4 DEF Gathered
    <2>7. QED BY <1>9, <1>d, <2>1, <2>2, <2>3, <2>4, <2>5, <2>6 DEF Decodes
  <1>13. Agree(d.lexical, d.reader) BY <1>9 DEF Agree, NewTracker
  <1>14. DecodedTo(q, d, at, j, d.expected) BY <1>9, <1>11, <1>12 DEF DecodedTo
  <1>15. at <= d.expected /\ d.expected <= Len(source) BY <1>1, <1>9
  <1>16. DecoderInv(d, q, at, j) BY <1>9, <1>d, <1>10, <1>13, <1>14, <1>15 DEF DecoderInv
  <1>17. QED BY <1>16 DEF d

-----------------------------------------------------------------------------
(* The specification.                                                       *)

\* No read, or one that is in step with a parse from its checkpoint.
ReadOk == dec = NoDecoder \/ \E q \in Rectangles, at \in Nat, j \in Nat : DecoderInv(dec, q, at, j)

\* A delivered batch is the answer of the whole source.
Delivered(b) ==
    /\ b.delivered /\ b.request \in Rectangles /\ b.rows \in Seq(Rows(b.request))
    /\ Answered(source, opt, b.request, b.rows)
    /\ b.complete <=> Len(b.rows) = b.request.rowCount
BatchOk == batch = NoBatch \/ Delivered(batch)
TextOk == source \in Seq(Bytes) /\ opt \in Options /\ ValidOptions(opt)

\* The inductive invariant: of the scan, when its reader drops no mark, and of the
\* reads, when no record begins with one.
DelimitedInv == /\ TextOk
                /\ PlainStart => ScannerInv(scan)
                /\ PlainRecords => ReadOk /\ BatchOk

\* Where the records of a source begin.
StartsOf(src) ==
    {Base(src)} \cup {o \in Base(src) + 1 .. Len(src) :
        Len(From(src, Base(src), o).records) > Len(From(src, Base(src), o - 1).records)}

LEMMA StartsAre == Len(source) \in Nat => RecordStarts = StartsOf(source)
  <1> SUFFICES ASSUME Len(source) \in Nat PROVE RecordStarts = StartsOf(source) OBVIOUS
  <1> DEFINE b == Base(source)
             m == Len(source)
             P(o) == Len(ReferenceParse(b, o).records) > Len(ReferenceParse(b, o - 1).records)
             Q(o) == Len(From(source, b, o).records) > Len(From(source, b, o - 1).records)
  <1>1. TextStart = b /\ b \in Nat /\ m \in Nat BY MarkIsBom, BaseWithin
  <1>2. RecordStarts = {b} \cup {o \in b + 1 .. m : P(o)} BY <1>1 DEF RecordStarts
  <1>3. StartsOf(source) = {b} \cup {o \in b + 1 .. m : Q(o)} BY DEF StartsOf
  <1> HIDE DEF b, m
  <1>4. \A o \in b + 1 .. m : P(o) <=> Q(o)
    <2> SUFFICES ASSUME NEW o \in b + 1 .. m PROVE P(o) <=> Q(o) OBVIOUS
    <2>1. o \in Nat /\ o - 1 \in Nat /\ b <= o /\ b <= o - 1 BY <1>1
    <2>2. ReferenceParse(b, o) = From(source, b, o) /\ ReferenceParse(b, o - 1) = From(source, b, o - 1)
      BY <1>1, <2>1, ReferenceParseIs
    <2>3. QED BY <2>2
  <1> HIDE DEF P, Q
  <1>5. QED BY <1>2, <1>3, <1>4

\* A step that keeps the source keeps what is assumed of it.
LEMMA PlainKept ==
  ASSUME UNCHANGED source, Len(source) \in Nat
  PROVE  (PlainStart' <=> PlainStart) /\ (PlainRecords' <=> PlainRecords)
  <1>1. PlainStart' <=> PlainStart BY DEF PlainStart, TextStart, MarkAt, Byte
  <1>2. RecordStarts' = RecordStarts
    <2>1. (Len(source) \in Nat => RecordStarts = StartsOf(source))' BY StartsAre, PTL
    <2>2. RecordStarts' = StartsOf(source') BY <2>1
    <2>3. QED BY <2>2, StartsAre
  <1> HIDE DEF RecordStarts
  <1>3. PlainRecords' <=> PlainRecords BY <1>2 DEF PlainRecords, TextStart, MarkAt, Byte
  <1>4. QED BY <1>1, <1>3

\* The lesser of two numbers.
LEMMA Min2Is ==
  ASSUME NEW a \in Nat, NEW b \in Nat
  PROVE  /\ Min2(a, b) \in Nat /\ Min2(a, b) <= a /\ Min2(a, b) <= b
         /\ \A c \in Nat : c <= a /\ c <= b => c <= Min2(a, b)
  BY DEF Min2

\* It holds of a new scanner.
LEMMA InitDelimited ==
  ASSUME Init
  PROVE  DelimitedInv
  <1>1. TextOk BY ConfigAssumption DEF Init, TextOk
  <1>2. opt \in Options /\ Len(source) \in Nat BY <1>1 DEF TextOk
  <1> DEFINE h == Holding(opt, 0)
  <1>3. scan = h
    <2> DEFINE s == NewScanner(opt)
               none == <<>>
               tr == NewTracker
               hp == opt.header
    <2>1. s = [reader |-> "StartRecord", hasRead |-> FALSE, lexical |-> tr, bomPrefix |-> 0, bomResolved |-> FALSE,
               received |-> 0, parserOffset |-> 0, recordStart |-> 0,
               field |-> none, recordFields |-> 0, headerNames |-> none, headerPending |-> hp,
               rows |-> 0, columns |-> none, version |-> 0,
               checkpoints |-> none, diagnostics |-> none, finished |-> FALSE, error |-> OK]
      BY Zenon DEF NewScanner
    <2>2. scan = s /\ h = [s EXCEPT !.received = 0, !.bomPrefix = 0] BY DEF Init, Holding
    <2> HIDE DEF s, h, none, tr, hp
    <2>3. QED BY <2>1, <2>2
  <1>4. h \in Shape(opt) /\ ~h.bomResolved /\ h.received = 0 /\ h.parserOffset = 0 BY <1>2, HoldingIs
  <1> HIDE DEF h
  <1>5. scan = Holding(opt, scan.received) BY <1>3, <1>4 DEF h
  <1>6. ScannerInv(scan) BY <1>2, <1>3, <1>4, <1>5 DEF ScannerInv
  <1>7. QED BY <1>1, <1>6 DEF Init, DelimitedInv, ReadOk, BatchOk

\* A chunk of the scan keeps it: ScannerFeeds.
LEMMA ScanKeeps ==
  ASSUME DelimitedInv, NEW n \in Nat, Scan(n)
  PROVE  DelimitedInv'
  <1> DEFINE to == Min2(scan.received + n, Len(source))
             x == FeedChunk(scan, to)
  <1>1. TextOk BY DEF DelimitedInv
  <1>2. opt \in Options /\ ValidOptions(opt) /\ Len(source) \in Nat BY <1>1 DEF TextOk
  <1>3. scan.error = OK /\ ~scan.finished /\ scan' = x /\ source' = source /\ opt' = opt /\ dec' = dec /\ batch' = batch
    BY DEF Scan
  <1>4. ASSUME PlainStart PROVE ScannerInv(scan)'
    <2>0. ScannerInv(scan) BY <1>4 DEF DelimitedInv
    <2>1. scan \in Scanners /\ scan.received <= Len(source) BY <2>0 DEF ScannerInv, Shape
    <2>2. scan.received \in Nat BY <2>1 DEF Scanners
    <2>3. scan.received + n \in Nat /\ scan.received <= scan.received + n BY <2>2
    <2>4. to \in Nat /\ scan.received <= to /\ to <= Len(source) BY <1>2, <2>1, <2>2, <2>3, Min2Is
    <2> HIDE DEF to
    <2>5. ScannerInv(x) BY <1>2, <1>3, <1>4, <2>0, <2>4, ScannerFeeds
    <2> HIDE DEF x
    <2>6. QED BY <1>3, <2>5 DEF ScannerInv, Scanned, Ended
  <1> HIDE DEF to, x
  <1>5. TextOk' BY <1>1, <1>3 DEF TextOk
  <1>6. ASSUME PlainRecords PROVE ReadOk' /\ BatchOk'
    <2>1. ReadOk /\ BatchOk BY <1>6 DEF DelimitedInv
    <2>2. ReadOk' BY <1>3, <2>1 DEF ReadOk, DecoderInv, DecodedTo, MarkAt, Byte
    <2>3. BatchOk' BY <1>3, <2>1 DEF BatchOk, Delivered
    <2>4. QED BY <2>2, <2>3
  <1>7. (PlainStart' <=> PlainStart) /\ (PlainRecords' <=> PlainRecords) BY <1>2, <1>3, PlainKept
  <1>8. QED BY <1>4, <1>5, <1>6, <1>7 DEF DelimitedInv

\* What a read leaves alone.
LEMMA ReadAside ==
  ASSUME DelimitedInv, UNCHANGED <<source, opt, scan>>, PlainRecords => ReadOk' /\ BatchOk'
  PROVE  DelimitedInv'
  <1>1. TextOk' BY DEF DelimitedInv, TextOk
  <1>2. ASSUME PlainStart PROVE ScannerInv(scan)'
    <2>1. ScannerInv(scan) BY <1>2 DEF DelimitedInv
    <2>2. QED BY <2>1 DEF ScannerInv, Scanned, Ended
  <1>3. Len(source) \in Nat BY DEF DelimitedInv, TextOk
  <1>4. (PlainStart' <=> PlainStart) /\ (PlainRecords' <=> PlainRecords) BY <1>3, PlainKept
  <1>5. QED BY <1>1, <1>2, <1>4 DEF DelimitedInv

\* The beginning of a read keeps it: PlanResumes, ReadBegins.
LEMMA BeginKeeps ==
  ASSUME DelimitedInv, NEW q \in Rectangles, BeginRange(q)
  PROVE  DelimitedInv'
  <1>p. SUFFICES ASSUME PlainRecords PROVE ReadOk' /\ BatchOk'
    <2>1. UNCHANGED <<source, opt, scan>> BY DEF BeginRange
    <2>2. QED BY <2>1, ReadAside
  <1> DEFINE c == PlanRange(q)
             d == NewDecoder(q, c)
  <1>0. TextOk /\ Len(source) \in Nat BY DEF DelimitedInv, TextOk
  <1>1. TextOk /\ ScannerInv(scan) /\ ReadOk /\ BatchOk
    <2>1. PlainStart BY <1>0, <1>p, PlainBegins
    <2>2. QED BY <1>p, <2>1 DEF DelimitedInv
  <1>2. opt \in Options /\ ValidOptions(opt) /\ Len(source) \in Nat BY <1>1 DEF TextOk
  <1>3. /\ scan.error = OK /\ RangeRefusal(q) = OK /\ 4 * q.columnCount <= opt.maxBatchBytes
        /\ UNCHANGED <<source, opt, scan>>
        /\ IF d.done THEN dec' = NoDecoder /\ batch' = BuildBatch(d) ELSE dec' = d /\ batch' = NoBatch
    BY DEF BeginRange
  <1>4. (d.done <=> q.rowCount = 0) /\ d.rows = <<>> /\ d.request = q BY DEF NewDecoder
  <1>q. q.rowCount \in Nat /\ q.rowStart \in Nat BY DEF Rectangles
  <1>s. scan \in Scanners BY <1>1 DEF ScannerInv, Shape
  <1>5. CASE q.rowCount = 0
    <2> DEFINE b == BuildBatch(d)
    <2>1. b.delivered /\ b.request = q /\ b.rows = <<>> /\ (b.complete <=> Len(<<>>) = q.rowCount)
      BY <1>4 DEF BuildBatch
    <2>2. dec' = NoDecoder /\ batch' = b BY <1>3, <1>4, <1>5
    <2> HIDE DEF b, d, c
    <2>3. RowCount(source, opt) \in Nat BY <1>2, BaseWithin, WholeType
    <2>4. Len(<<>>) = 0 OBVIOUS
    <2>5. Answered(source, opt, q, <<>>)
      <3>1. RowEnd(q) = q.rowStart BY <1>q, <1>5 DEF RowEnd
      <3>2. QED BY <1>q, <1>5, <2>3, <2>4, <3>1 DEF Answered
    <2>r. <<>> \in Seq(Rows(q)) OBVIOUS
    <2>6. Delivered(b) BY <2>1, <2>5, <2>r DEF Delivered
    <2>7. BatchOk' BY <1>3, <2>2, <2>6 DEF BatchOk, Delivered
    <2>8. ReadOk' BY <2>2 DEF ReadOk
    <2>9. QED BY <2>7, <2>8
  <1>6. CASE q.rowCount # 0
    <2>1. q.rowCount > 0 BY <1>q, <1>6
    <2>2. dec' = d /\ batch' = NoBatch BY <1>3, <1>4, <1>6
    <2>3. /\ c \in Marks /\ c.row <= q.rowStart /\ Resumed(source, opt, c.offset, c.row)
          /\ ~MarkAt(c.offset)
      BY <1>1, <1>2, <1>3, <1>p, <2>1, PlanResumes
    <2> HIDE DEF c
    <2>4. DecoderInv(d, q, c.offset, c.row)
      BY <1>2, <1>3, <1>s, <2>1, <2>3, ReadBegins
    <2> HIDE DEF d
    <2>5. c.offset \in Nat /\ c.row \in Nat BY <2>3 DEF Marks
    <2>6. ReadOk' BY <1>3, <2>2, <2>4, <2>5 DEF ReadOk, DecoderInv, DecodedTo, MarkAt, Byte
    <2>7. BatchOk' BY <2>2 DEF BatchOk
    <2>8. QED BY <2>6, <2>7
  <1>7. QED BY <1>5, <1>6

\* A chunk of a read keeps it: DecoderFeeds, AnswersAll.
LEMMA FeedKeeps ==
  ASSUME DelimitedInv, NEW n \in Nat, FeedRange(n)
  PROVE  DelimitedInv'
  <1>p. SUFFICES ASSUME PlainRecords PROVE ReadOk' /\ BatchOk'
    <2>1. UNCHANGED <<source, opt, scan>> BY DEF FeedRange
    <2>2. QED BY <2>1, ReadAside
  <1> DEFINE to == Min2(dec.expected + n, Len(source))
             d == DecodeChunk(dec, to)
  <1>1. TextOk /\ ReadOk /\ BatchOk BY <1>p DEF DelimitedInv
  <1>2. opt \in Options /\ ValidOptions(opt) /\ Len(source) \in Nat BY <1>1 DEF TextOk
  <1>3. /\ dec.active /\ UNCHANGED <<source, opt, scan>>
        /\ IF d.error # OK THEN dec' = NoDecoder /\ batch' = NoBatch
           ELSE IF d.done THEN dec' = NoDecoder /\ batch' = BuildBatch(d)
           ELSE dec' = d /\ batch' = batch
    BY DEF FeedRange
  <1>4. dec # NoDecoder BY <1>3 DEF NoDecoder
  <1>5. PICK q \in Rectangles, at \in Nat, j \in Nat : DecoderInv(dec, q, at, j) BY <1>1, <1>4 DEF ReadOk
  <1>6. /\ dec \in Reading(opt, q) /\ q.rowCount > 0 /\ dec.error = OK /\ ~dec.done
        /\ at <= dec.expected /\ dec.expected <= Len(source)
        /\ Resumed(source, opt, at, j) /\ ~MarkAt(at) /\ (dec.hasRead \/ dec.expected = at)
        /\ DecodedTo(q, dec, at, j, dec.expected) /\ Agree(dec.lexical, dec.reader)
    BY <1>5 DEF DecoderInv
  <1>d. dec \in Decoders(q) BY <1>6 DEF Reading
  <1>7. dec.expected \in Nat BY <1>d DEF Decoders
  <1>8. dec.expected + n \in Nat /\ dec.expected <= dec.expected + n BY <1>7
  <1>9. to \in Nat /\ dec.expected <= to /\ to <= Len(source) BY <1>2, <1>6, <1>7, <1>8, Min2Is
  <1> DEFINE C == Closed(From(source, at, Len(source))).records
  <1> HIDE DEF to
  <1>10. /\ d \in Reading(opt, q)
         /\ d.error = OK /\ ~d.done =>
              DecodedTo(q, d, at, j, to) /\ d.hasRead /\ Agree(d.lexical, d.reader)
         /\ d.error = OK /\ d.done => Answers(source, q, d.rows, C, j)
    <2> DEFINE from == dec.expected
    <2>1. /\ dec \in Reading(opt, q) /\ dec.error = OK /\ ~dec.done /\ from \in Nat
          /\ at <= from /\ from <= to /\ DecodedTo(q, dec, at, j, from)
      BY <1>6, <1>7, <1>9
    <2>2. ~DropsMark(dec, from, to) BY <1>6, NoneDropped
    <2> HIDE DEF from
    <2>3. QED BY <1>2, <1>6, <1>9, <2>1, <2>2, DecoderFeeds
  <1> HIDE DEF d
  <1>11. CASE d.error # OK
    <2>1. dec' = NoDecoder /\ batch' = NoBatch BY <1>3, <1>11
    <2>2. QED BY <2>1 DEF ReadOk, BatchOk
  <1>12. CASE d.error = OK /\ d.done
    <2> DEFINE b == BuildBatch(d)
    <2>1. dec' = NoDecoder /\ batch' = b BY <1>3, <1>12
    <2>2. d.request = q /\ d.rows \in Seq(Rows(q))
      <3>1. d \in Decoders(q) BY <1>10 DEF Reading
      <3>2. QED BY <3>1 DEF Decoders
    <2>3. b.delivered /\ b.request = q /\ b.rows = d.rows /\ (b.complete <=> Len(d.rows) = q.rowCount)
      BY <2>2 DEF BuildBatch
    <2> HIDE DEF b
    <2>4. j <= q.rowStart BY <1>6 DEF DecodedTo, Decodes
    <2>5. Answers(source, q, d.rows, C, j) BY <1>10, <1>12
    <2>6. Answered(source, opt, q, d.rows) BY <1>6, <2>4, <2>5, AnswersAll DEF C
    <2>7. Delivered(b) BY <2>2, <2>3, <2>6 DEF Delivered
    <2>8. BatchOk' BY <1>3, <2>1, <2>7 DEF BatchOk, Delivered
    <2>9. ReadOk' BY <2>1 DEF ReadOk
    <2>10. QED BY <2>8, <2>9
  <1>13. CASE d.error = OK /\ ~d.done
    <2>1. dec' = d /\ batch' = batch BY <1>3, <1>13
    <2>2. DecodedTo(q, d, at, j, to) /\ d.hasRead /\ Agree(d.lexical, d.reader) BY <1>10, <1>13
    <2>3. d.expected = to BY <2>2 DEF DecodedTo
    <2>4. at <= to BY <1>6, <1>7, <1>9
    <2>5. DecoderInv(d, q, at, j) BY <1>6, <1>9, <1>10, <1>13, <2>2, <2>3, <2>4 DEF DecoderInv
    <2>6. ReadOk' BY <1>3, <2>1, <2>5 DEF ReadOk, DecoderInv, DecodedTo, MarkAt, Byte
    <2>7. BatchOk' BY <1>1, <1>3, <2>1 DEF BatchOk, Delivered
    <2>8. QED BY <2>6, <2>7
  <1>14. QED BY <1>11, <1>12, <1>13

\* It depends on nothing else.
LEMMA StutterKeeps ==
  ASSUME DelimitedInv, UNCHANGED vars
  PROVE  DelimitedInv'
  <1>1. UNCHANGED <<source, opt, scan>> /\ dec' = dec /\ batch' = batch BY DEF vars
  <1>2. ASSUME PlainRecords PROVE ReadOk' /\ BatchOk'
    <2>1. ReadOk /\ BatchOk BY <1>2 DEF DelimitedInv
    <2>2. ReadOk' BY <1>1, <2>1 DEF ReadOk, DecoderInv, DecodedTo, MarkAt, Byte
    <2>3. BatchOk' BY <1>1, <2>1 DEF BatchOk, Delivered
    <2>4. QED BY <2>2, <2>3
  <1>3. QED BY <1>1, <1>2, ReadAside

\* Whatever chunks the scan and the reads are fed, and wherever a read begins, the
\* scanner and the decoder are in step with the reference parser, as long as the
\* readers of csv_core drop no byte order mark that a record begins with.
THEOREM DelimitedIsInductive == Spec => []DelimitedInv
  <1>1. Init => DelimitedInv BY InitDelimited
  <1>2. DelimitedInv /\ [Next]_vars => DelimitedInv'
    <2> SUFFICES ASSUME DelimitedInv, [Next]_vars PROVE DelimitedInv' OBVIOUS
    <2>1. ASSUME NEW n \in ChunkSizes, Scan(n) PROVE DelimitedInv'
      <3>1. n \in Nat BY ConfigAssumption
      <3>2. QED BY <2>1, <3>1, ScanKeeps
    <2>2. ASSUME NEW n \in ChunkSizes, FeedRange(n) PROVE DelimitedInv'
      <3>1. n \in Nat BY ConfigAssumption
      <3>2. QED BY <2>2, <3>1, FeedKeeps
    <2>3. ASSUME NEW q \in Requests, BeginRange(q) PROVE DelimitedInv'
      <3>1. q \in Rectangles BY ConfigAssumption
      <3>2. QED BY <2>3, <3>1, BeginKeeps
    <2>4. CASE UNCHANGED vars BY <2>4, StutterKeeps
    <2>5. QED BY <2>1, <2>2, <2>3, <2>4 DEF Next
  <1>3. QED BY <1>1, <1>2, PTL DEF Spec

\* The invariant bounds what is retained and keeps both lexers in step.
LEMMA DelimitedIsSound ==
  ASSUME DelimitedInv, PlainRecords
  PROVE  ScanInv
  <1>0. TextOk /\ Len(source) \in Nat BY DEF DelimitedInv, TextOk
  <1>1. TextOk /\ ScannerInv(scan) /\ ReadOk
    <2>1. PlainStart BY <1>0, PlainBegins
    <2>2. QED BY <2>1 DEF DelimitedInv
  <1>2. opt \in Options /\ Len(source) \in Nat BY <1>1 DEF TextOk
  <1>3. scan \in Scanners /\ scan \in Shape(opt) /\ scan.received <= Len(source) /\ scan.parserOffset <= scan.received
    BY <1>1 DEF ScannerInv, Shape
  <1>4. scan.received \in Nat /\ scan.parserOffset \in Nat /\ scan.recordStart \in Nat BY <1>3 DEF Scanners
  <1>5. /\ Len(scan.field) <= opt.maxFieldBytes /\ Len(scan.columns) <= opt.maxColumns
        /\ Len(scan.diagnostics) <= opt.maxDiagnostics /\ scan.recordStart <= scan.parserOffset
    BY <1>3 DEF Shape
  <1>6. ASSUME scan.error = OK, ~scan.finished PROVE Agree(scan.lexical, scan.reader)
    <2>1. CASE scan = Holding(opt, scan.received)
      <3> DEFINE n == scan.received
                 h == Holding(opt, n)
      <3>1. h.reader = "StartRecord" /\ h.lexical = NewTracker BY <1>2, <1>4, HoldingIs
      <3> HIDE DEF h
      <3>2. scan = h BY <2>1 DEF h
      <3>3. QED BY <3>1, <3>2 DEF Agree, NewTracker
    <2>2. CASE Ended(Base(source), scan) BY <1>6, <2>2 DEF Ended
    <2>3. QED BY <1>1, <1>6, <2>1, <2>2 DEF ScannerInv
  <1>7. ASSUME dec.active
        PROVE  /\ dec.batchBytes <= opt.maxBatchBytes
               /\ dec.expected \in 0 .. Len(source)
               /\ Agree(dec.lexical, dec.reader)
    <2>1. dec # NoDecoder BY <1>7 DEF NoDecoder
    <2>2. PICK q \in Rectangles, at \in Nat, j \in Nat : DecoderInv(dec, q, at, j) BY <1>1, <2>1 DEF ReadOk
    <2>3. /\ dec \in Reading(opt, q) /\ dec.expected <= Len(source) /\ Agree(dec.lexical, dec.reader)
      BY <2>2 DEF DecoderInv
    <2>4. dec \in Decoders(q) /\ dec.batchBytes <= opt.maxBatchBytes BY <2>3 DEF Reading
    <2>5. dec.expected \in Nat BY <2>4 DEF Decoders
    <2>6. QED BY <1>2, <2>3, <2>4, <2>5
  <1>8. /\ scan.received \in 0 .. Len(source) /\ scan.parserOffset \in 0 .. scan.received
        /\ scan.recordStart \in 0 .. scan.parserOffset
    BY <1>2, <1>3, <1>4, <1>5
  <1>9. QED BY <1>5, <1>6, <1>7, <1>8 DEF ScanInv

\* CsvScanner and RangeDecoder never retain more than their limits, and their quote
\* tracker agrees with csv_core on every quote, for all options and chunks, and every
\* source no record of which begins with a byte order mark.
THEOREM ScanIsSound == Spec => [](PlainRecords => ScanInv)
  <1>1. DelimitedInv => (PlainRecords => ScanInv) BY DelimitedIsSound
  <1>2. QED BY <1>1, DelimitedIsInductive, PTL

\* The reference of the specification is the whole source parsed at once.
LEMMA DataRowsAre ==
  ASSUME source \in Seq(Bytes), opt \in Options
  PROVE  /\ AllRecords = Whole(source) /\ Whole(source) \in Seq(Records)
         /\ DataRows \in Seq(Records) /\ Len(DataRows) = RowCount(source, opt)
         /\ \A i \in 1..Len(DataRows) : DataRows[i] = Whole(source)[Hdr(opt) + i]
  <1> DEFINE W == Whole(source)
             h == Hdr(opt)
  <1>1. Len(source) \in Nat OBVIOUS
  <1>2. Base(source) \in Nat /\ Base(source) <= Len(source) BY <1>1, BaseWithin
  <1>3. AllRecords = ReferenceRecords(Base(source)) BY MarkIsBom DEF AllRecords
  <1>4. AllRecords = W BY <1>2, <1>3, ReferenceIsRun DEF Whole
  <1>5. W \in Seq(Records) BY <1>1, <1>2, WholeType
  <1>o. opt.header \in BOOLEAN BY OptionTypes
  <1>6. DataRows = IF opt.header /\ W # <<>> THEN Tail(W) ELSE W BY <1>4 DEF DataRows
  <1>7. RowCount(source, opt) = IF Len(W) <= h THEN 0 ELSE Len(W) - h BY DEF RowCount
  <1>8. h = IF opt.header THEN 1 ELSE 0 BY DEF Hdr
  <1> HIDE DEF W, h
  <1>9. CASE opt.header /\ W # <<>>
    <2>1. /\ Tail(W) \in Seq(Records) /\ Len(Tail(W)) = Len(W) - 1
          /\ \A i \in 1..Len(Tail(W)) : Tail(W)[i] = W[i + 1]
      BY <1>5, <1>9, HeadTailProperties
    <2>2. Len(W) \in Nat /\ Len(W) # 0 BY <1>5, <1>9, EmptySeq
    <2>3. DataRows = Tail(W) /\ h = 1 BY <1>6, <1>8, <1>9
    <2>4. RowCount(source, opt) = Len(W) - 1
      <3> DEFINE l == Len(W)
                 r == RowCount(source, opt)
      <3>1. l \in Nat /\ l # 0 BY <2>2
      <3>2. r = IF l <= 1 THEN 0 ELSE l - 1 BY <1>7, <2>3
      <3> HIDE DEF l, r
      <3>3. r = l - 1 BY <3>1, <3>2
      <3>4. QED BY <3>3 DEF l, r
    <2>5. \A i \in 1..Len(Tail(W)) : i + 1 = h + i BY <2>1, <2>2, <2>3
    <2>6. QED BY <1>4, <1>5, <2>1, <2>3, <2>4, <2>5 DEF W, h
  <1>10. CASE ~(opt.header /\ W # <<>>)
    <2>1. DataRows = W BY <1>6, <1>10
    <2>2. Len(W) \in Nat BY <1>5
    <2>3. CASE W = <<>>
      <3>1. Len(W) = 0 BY <2>3
      <3>2. RowCount(source, opt) = 0 BY <1>7, <1>8, <3>1
      <3>3. 1..0 = {} OBVIOUS
      <3>4. QED BY <1>4, <1>5, <2>1, <3>1, <3>2, <3>3 DEF W, h
    <2>4. CASE ~opt.header
      <3>1. h = 0 BY <1>8, <2>4
      <3>2. RowCount(source, opt) = Len(W) BY <1>7, <2>2, <3>1
      <3>3. \A i \in 1..Len(W) : h + i = i BY <2>2, <3>1
      <3>4. QED BY <1>4, <1>5, <2>1, <3>2, <3>3 DEF W, h
    <2>5. QED BY <1>10, <2>3, <2>4
  <1>11. QED BY <1>9, <1>10

\* A fresh reader at a checkpoint finds the rest of the rows.
LEMMA ResumedRest ==
  ASSUME source \in Seq(Bytes), opt \in Options, NEW at, NEW j, Resumed(source, opt, at, j)
  PROVE  ReferenceRecords(at) = Rest(DataRows, j)
  <1> DEFINE C == Closed(From(source, at, Len(source))).records
             W == Whole(source)
             h == Hdr(opt)
             D == DataRows
             m == Len(D)
             R == SubSeq(D, j + 1, m)
  <1>1. /\ at \in Nat /\ at <= Len(source) /\ j \in Nat
        /\ C \in Seq(Records) /\ RowCount(source, opt) = j + Len(C)
        /\ \A i \in 1..Len(C) : C[i] = W[h + j + i]
    BY DEF Resumed
  <1>2. ReferenceRecords(at) = C BY <1>1, ReferenceIsRun
  <1>3. D \in Seq(Records) /\ m = j + Len(C) /\ \A i \in 1..m : D[i] = W[h + i] BY <1>1, DataRowsAre
  <1>4. h \in {0, 1} BY DEF Hdr
  <1> HIDE DEF C, W, h, D
  <1>5. Len(C) \in Nat BY <1>1
  <1>6. R \in Seq(Records) /\ Len(R) = Len(C) /\ \A i \in 1..Len(C) : R[i] = D[j + i]
    <2>1. m \in Int /\ j + 1 \in Int /\ \A i \in j + 1 .. m : D[i] \in Records BY <1>1, <1>3, <1>5
    <2>2. /\ R \in Seq(Records) /\ Len(R) = IF j + 1 <= m THEN m - (j + 1) + 1 ELSE 0
          /\ \A i \in 1 .. m - (j + 1) + 1 : R[i] = D[(j + 1) + i - 1]
      BY <2>1, SubSeqProperties
    <2> HIDE DEF R
    <2>3. Len(R) = Len(C) BY <1>1, <1>3, <1>5, <2>2
    <2>4. \A i \in 1..Len(C) : i \in 1 .. m - (j + 1) + 1 /\ (j + 1) + i - 1 = j + i BY <1>1, <1>3, <1>5
    <2>5. QED BY <2>2, <2>3, <2>4
  <1> HIDE DEF R
  <1>7. \A i \in 1..Len(R) : R[i] = C[i]
    <2> SUFFICES ASSUME NEW i \in 1..Len(C) PROVE R[i] = C[i] BY <1>6
    <2>1. j + i \in 1..m /\ h + j + i = h + (j + i) BY <1>1, <1>3, <1>4, <1>5
    <2>2. R[i] = D[j + i] BY <1>6
    <2>3. D[j + i] = W[h + (j + i)] BY <1>3, <2>1
    <2>4. QED BY <1>1, <2>1, <2>2, <2>3
  <1>8. R = C BY <1>1, <1>6, <1>7, SeqEqual
  <1>9. QED BY <1>2, <1>8 DEF Rest, R, D

\* A maximum is where the bound is reached.
LEMMA WidestIsMax ==
  ASSUME NEW w \in Nat, NEW rs \in Seq(Records), Widest(w, rs)
  PROVE  w = Max({0} \cup {Len(rs[i]) : i \in DOMAIN rs})
  <1> DEFINE S == {0} \cup {Len(rs[i]) : i \in DOMAIN rs}
             m == Max(S)
  <1>1. \A i \in DOMAIN rs : rs[i] \in Records /\ i \in 1..Len(rs) OBVIOUS
  <1>2. S \in SUBSET Nat
    <2>1. \A i \in DOMAIN rs : Len(rs[i]) \in Nat BY <1>1 DEF Records
    <2>2. QED BY <2>1
  <1>3. w \in S
    <2>1. \A i \in 1..Len(rs) : i \in DOMAIN rs OBVIOUS
    <2>2. QED BY <2>1 DEF Widest
  <1>4. \A y \in S : w >= y BY <1>1 DEF Widest
  <1> HIDE DEF S
  <1>5. m \in S /\ \A y \in S : m >= y BY <1>3, <1>4 DEF Max
  <1> HIDE DEF m
  <1>6. m \in Nat /\ m >= w /\ w >= m BY <1>2, <1>3, <1>4, <1>5
  <1>7. m = w BY <1>6
  <1>8. QED BY <1>7 DEF m, S

\* The columns, as far as the scan is: those the header names are named so.
LEMMA ColumnsAre ==
  ASSUME source \in Seq(Bytes), opt \in Options, ScannerInv(scan), scan.error = OK
  PROVE  /\ scan.columns = <<>>
            \/ (opt.header /\ Len(Whole(source)) > 0 => Titled(source, scan.columns, Whole(source)[1]))
         /\ scan.finished => Widest(Len(scan.columns), Whole(source))
  <1> DEFINE W == Whole(source)
             b == Base(source)
             m == Len(source)
             cs == scan.columns
  <1>1. m \in Nat /\ b \in Nat /\ b <= m BY BaseWithin
  <1>s. scan \in Scanners /\ scan.received \in Nat /\ scan.received <= m BY DEF ScannerInv, Shape, Scanners
  <1>c. cs \in Seq(Names) /\ scan.rows \in Nat BY <1>s DEF Scanners
  <1>h. opt.header \in BOOLEAN BY OptionTypes
  <1>w. W \in Seq(Records) BY <1>1, WholeType
  <1>2. CASE scan = Holding(opt, scan.received)
    <2> DEFINE n == scan.received
               h == Holding(opt, n)
    <2>1. h.columns = <<>> /\ ~h.finished BY <1>s, HoldingIs
    <2> HIDE DEF h
    <2>2. scan = h BY <1>2 DEF h
    <2>3. QED BY <2>1, <2>2
  <1>3. ASSUME NEW p, Sim(source, opt, scan, p), Extends(W, p.records)
        PROVE  cs = <<>> \/ (opt.header /\ Len(W) > 0 => Titled(source, cs, W[1]))
    <2>1. p \in Parses /\ Widest(Len(cs), p.records) BY <1>3 DEF Sim
    <2>2. p.records \in Seq(Records) BY <2>1 DEF Parses
    <2>3. CASE scan.headerPending
      <3>1. p.records = <<>> BY <1>3, <2>3 DEF Sim
      <3>2. \A i \in 1..Len(p.records) : FALSE BY <3>1
      <3>3. Len(cs) = 0 BY <2>1, <3>2 DEF Widest
      <3>4. QED BY <1>c, <3>3, EmptySeq
    <2>4. CASE ~scan.headerPending /\ opt.header
      <3>1. Len(p.records) = scan.rows + 1 /\ Titled(source, cs, p.records[1]) BY <1>3, <2>4 DEF Sim, Hdr
      <3>2. 1 \in 1..Len(p.records) BY <1>c, <3>1
      <3>3. W[1] = p.records[1] BY <1>3, <3>2 DEF Extends
      <3>4. QED BY <3>1, <3>3
    <2>5. QED BY <2>3, <2>4
  <1>4. CASE ~scan.finished /\ b <= scan.received /\ Scanned(b, scan, scan.received)
    <2> DEFINE n == scan.received
               p == From(source, b, n)
               e == From(source, b, m)
    <2>1. Sim(source, opt, scan, p) BY <1>4 DEF Scanned
    <2>2. n \in Nat /\ b <= n /\ n <= m /\ m >= b BY <1>1, <1>s, <1>4
    <2> HIDE DEF n, m, b
    <2>3. Extends(e.records, p.records) BY <1>1, <2>2, FromExtends
    <2>4. e \in Parses /\ p \in Parses BY <1>1, <2>2, ParseStages
    <2> HIDE DEF e
    <2>5. Closed(e) \in Parses /\ Extends(Closed(e).records, e.records) BY <2>4, ClosedExtends
    <2>6. W = Closed(e).records BY DEF Whole, e, b, m
    <2>7. e.records \in Seq(Records) /\ p.records \in Seq(Records) BY <2>4 DEF Parses
    <2> HIDE DEF p, W
    <2>8. Extends(W, p.records) BY <1>w, <2>3, <2>5, <2>6, <2>7 DEF Extends
    <2>9. QED BY <1>3, <1>4, <2>1, <2>8 DEF W
  <1>5. CASE Ended(b, scan)
    <2> DEFINE p == Closed(From(source, b, m))
    <2>1. Sim(source, opt, scan, p) BY <1>5 DEF Ended
    <2>2. W = p.records BY DEF Whole
    <2>3. Widest(Len(cs), W) BY <2>1, <2>2 DEF Sim
    <2>4. Extends(W, p.records)
      <3> HIDE DEF p, W
      <3>1. Len(W) \in Nat BY <1>w
      <3>2. QED BY <2>2, <3>1 DEF Extends
    <2> HIDE DEF p
    <2>5. QED BY <1>3, <2>1, <2>3, <2>4
  <1>6. QED BY <1>2, <1>4, <1>5 DEF ScannerInv

\* The invariant makes the index exact.
LEMMA DelimitedIsIndexed ==
  ASSUME DelimitedInv
  PROVE  IndexExact
  <1>p. SUFFICES ASSUME PlainStart, scan.error = OK
               PROVE  /\ Len(scan.checkpoints) = (scan.rows + opt.interval - 1) \div opt.interval
                      /\ \A i \in DOMAIN scan.checkpoints :
                           /\ scan.checkpoints[i].row = (i - 1) * opt.interval
                           /\ ReferenceRecords(scan.checkpoints[i].offset) = Rest(DataRows, scan.checkpoints[i].row)
                      /\ IsPrefix([i \in 1 .. Min2(Len(scan.columns), Len(HeaderNames)) |-> scan.columns[i]], HeaderNames)
                      /\ scan.finished => /\ scan.rows = Len(DataRows)
                                          /\ Len(scan.columns) = Max({0} \cup {Len(AllRecords[i]) : i \in DOMAIN AllRecords})
    BY Zenon DEF IndexExact
  <1> DEFINE W == Whole(source)
             cs == scan.columns
             ks == scan.checkpoints
             k == opt.interval
  <1>1. source \in Seq(Bytes) /\ opt \in Options /\ ValidOptions(opt) /\ ScannerInv(scan) /\ Len(source) \in Nat
    BY <1>p DEF DelimitedInv, TextOk
  <1>s. scan \in Scanners BY <1>1 DEF ScannerInv, Shape
  <1>c. cs \in Seq(Names) /\ ks \in Seq(Marks) /\ scan.rows \in Nat BY <1>s DEF Scanners
  <1>2. /\ Indexed(source, opt, Base(source), scan) \/ (~scan.finished /\ scan.rows = 0 /\ ks = <<>>)
        /\ scan.finished => scan.rows = RowCount(source, opt)
    BY <1>1, <1>p, ScannedIndex
  <1>3. /\ AllRecords = W /\ W \in Seq(Records) /\ DataRows \in Seq(Records)
        /\ Len(DataRows) = RowCount(source, opt)
    BY <1>1, DataRowsAre
  <1>4. /\ Len(ks) = (scan.rows + k - 1) \div k
        /\ \A i \in DOMAIN ks : /\ ks[i].row = (i - 1) * k
                                /\ ReferenceRecords(ks[i].offset) = Rest(DataRows, ks[i].row)
    <2>1. CASE Indexed(source, opt, Base(source), scan)
      <3>1. DOMAIN ks = 1..Len(ks) BY <1>c
      <3>2. Len(ks) = (scan.rows + k - 1) \div k BY <2>1 DEF Indexed
      <3>3. ASSUME NEW i \in 1..Len(ks)
            PROVE  ks[i].row = (i - 1) * k /\ ReferenceRecords(ks[i].offset) = Rest(DataRows, ks[i].row)
        <4>1. ks[i].row = (i - 1) * k /\ Boundary(source, Base(source), ks[i].offset, ks[i].row + Hdr(opt))
          BY <2>1 DEF Indexed
        <4>2. ks[i] \in Marks BY <1>c
        <4>3. ks[i].row \in Nat BY <4>2 DEF Marks
        <4>4. Resumed(source, opt, ks[i].offset, ks[i].row) BY <1>1, <4>1, <4>3, CheckpointResumes
        <4>5. QED BY <1>1, <4>1, <4>4, ResumedRest
      <3>4. QED BY <3>1, <3>2, <3>3
    <2>2. CASE scan.rows = 0 /\ ks = <<>>
      <3> DEFINE n == scan.rows
      <3>1. k \in Nat \ {0} BY <1>1, OptionTypes DEF ValidOptions
      <3>2. Len(ks) = 0 /\ DOMAIN ks = {} BY <2>2
      <3>3. n \in Nat /\ n = 0 BY <2>2
      <3> HIDE DEF n, ks, k
      <3>4. (n + k - 1) \div k = 0 BY <3>1, <3>3, Multiples
      <3>5. QED BY <3>2, <3>4 DEF n
    <2>3. QED BY <1>2, <2>1, <2>2
  <1>5. /\ cs = <<>> \/ (opt.header /\ Len(W) > 0 => Titled(source, cs, W[1]))
        /\ scan.finished => Widest(Len(cs), W)
    BY <1>1, <1>p, ColumnsAre
  <1>6. scan.finished => /\ scan.rows = Len(DataRows)
                         /\ Len(cs) = Max({0} \cup {Len(AllRecords[i]) : i \in DOMAIN AllRecords})
    <2>1. Len(cs) \in Nat BY <1>c
    <2> HIDE DEF W, cs
    <2>2. QED BY <1>2, <1>3, <1>5, <2>1, WidestIsMax
  <1>7. IsPrefix([i \in 1 .. Min2(Len(cs), Len(HeaderNames)) |-> cs[i]], HeaderNames)
    <2> DEFINE H == HeaderNames
               n == Min2(Len(cs), Len(H))
               f == [i \in 1..n |-> cs[i]]
    <2>1. H = IF opt.header /\ W # <<>> THEN [i \in DOMAIN W[1] |-> Lossy(W[1][i])] ELSE <<>>
      BY <1>3 DEF HeaderNames
    <2>2. H \in Seq(Names) /\ \A i \in 1..n : cs[i] = H[i]
      <3>1. CASE opt.header /\ W # <<>>
        <4> DEFINE rec == W[1]
        <4>1. Len(W) > 0 /\ rec \in Records
          <5>1. Len(W) \in Nat /\ Len(W) # 0 BY <1>3, <3>1, EmptySeq
          <5>2. QED BY <1>3, <5>1
        <4>2. DOMAIN rec = 1..Len(rec) /\ Len(rec) \in Nat /\ \A i \in 1..Len(rec) : rec[i] \in Names
          BY <4>1 DEF Records
        <4> HIDE DEF W, rec, H
        <4>3. H = [i \in 1..Len(rec) |-> Lossy(rec[i])] BY <2>1, <3>1, <4>2 DEF rec
        <4>4. \A i \in 1..Len(rec) : Lossy(rec[i]) = LossyOf(source, rec[i]) /\ Lossy(rec[i]) \in Names
          BY <4>2, LossyIsRun, LossyType
        <4>5. H \in Seq(Names) /\ Len(H) = Len(rec) BY <4>2, <4>3, <4>4
        <4>6. Len(cs) \in Nat BY <1>c
        <4>7. n <= Len(cs) /\ n <= Len(H) BY <4>2, <4>5, <4>6, Min2Is
        <4>8. CASE cs = <<>>
          <5>1. Len(cs) = 0 BY <4>8
          <5>2. n = 0 BY <4>2, <4>5, <5>1 DEF Min2
          <5>3. QED BY <4>5, <5>2
        <4>9. CASE Titled(source, cs, rec)
          <5>1. n \in Nat BY <4>2, <4>5, <4>6, Min2Is
          <5> HIDE DEF n
          <5>2. ASSUME NEW i \in 1..n PROVE cs[i] = H[i]
            <6>1. i \in 1..Len(rec) BY <4>2, <4>5, <4>7, <5>1
            <6>2. cs[i] = LossyOf(source, rec[i]) BY <4>9, <6>1 DEF Titled
            <6>3. QED BY <4>3, <4>4, <6>1, <6>2
          <5>3. QED BY <4>5, <5>2
        <4>10. QED BY <1>5, <3>1, <4>1, <4>8, <4>9 DEF rec, W
      <3>2. CASE ~(opt.header /\ W # <<>>)
        <4>1. H = <<>> BY <2>1, <3>2
        <4> HIDE DEF H
        <4>2. Len(H) = 0 /\ H \in Seq(Names) BY <4>1
        <4>3. n = 0 BY <1>c, <4>2 DEF Min2
        <4>4. QED BY <4>2, <4>3
      <3>3. QED BY <3>1, <3>2
    <2>3. Len(H) \in Nat /\ Len(cs) \in Nat BY <1>c, <2>2
    <2>4. n \in Nat /\ n <= Len(H) /\ n <= Len(cs) BY <2>3, Min2Is
    <2> HIDE DEF H, n
    <2>5. \A i \in 1..n : cs[i] \in Names /\ H[i] \in Names BY <1>c, <2>2, <2>3, <2>4
    <2>6. f \in Seq(Names) /\ Len(f) = n /\ \A i \in 1..n : f[i] = cs[i] BY <2>4, <2>5
    <2> HIDE DEF f
    <2>7. SubSeq(f, 1, n) = SubSeq(H, 1, n)
      <3>1. \A i \in 1..n : f[i] \in Names /\ H[i] \in Names /\ f[i] = H[i] BY <2>2, <2>5, <2>6
      <3>2. /\ SubSeq(f, 1, n) \in Seq(Names) /\ Len(SubSeq(f, 1, n)) = IF 1 <= n THEN n - 1 + 1 ELSE 0
            /\ \A i \in 1 .. n - 1 + 1 : SubSeq(f, 1, n)[i] = f[1 + i - 1]
        BY <2>4, <3>1, SubSeqProperties
      <3>3. /\ SubSeq(H, 1, n) \in Seq(Names) /\ Len(SubSeq(H, 1, n)) = IF 1 <= n THEN n - 1 + 1 ELSE 0
            /\ \A i \in 1 .. n - 1 + 1 : SubSeq(H, 1, n)[i] = H[1 + i - 1]
        BY <2>4, <3>1, SubSeqProperties
      <3> DEFINE a == SubSeq(f, 1, n)
                 z == SubSeq(H, 1, n)
      <3> HIDE DEF a, z
      <3>4. a \in Seq(Names) /\ z \in Seq(Names) /\ Len(a) = n /\ Len(z) = n BY <2>4, <3>2, <3>3 DEF a, z
      <3>5. \A i \in 1..n : a[i] = f[i] /\ z[i] = H[i]
        <4>1. \A i \in 1..n : i \in 1 .. n - 1 + 1 /\ 1 + i - 1 = i BY <2>4
        <4>2. QED BY <3>2, <3>3, <4>1 DEF a, z
      <3>6. \A i \in 1..Len(a) : a[i] = z[i] BY <3>1, <3>4, <3>5
      <3>7. a = z BY <3>4, <3>6, SeqEqual
      <3>8. QED BY <3>7 DEF a, z
    <2>8. IsPrefix(f, H) BY <2>4, <2>6, <2>7 DEF IsPrefix
    <2>9. QED BY <2>8 DEF f, n, H
  <1>8. QED BY <1>4, <1>6, <1>7

\* The invariant makes a delivered batch exact.
LEMMA DelimitedIsAnswered ==
  ASSUME DelimitedInv
  PROVE  RangeExact
  <1> DEFINE q == batch.request
             D == DataRows
             e == Min2(RowEnd(q), Len(D))
             rows == SubSeq(D, q.rowStart + 1, e)
             cell(row, c) == IF c \in DOMAIN row THEN <<Lossy(row[c])>> ELSE <<>>
             cells(row) == [c \in 1 .. q.columnCount |-> cell(row, q.columnStart + c)]
  <1>p. SUFFICES ASSUME PlainRecords, batch.delivered
               PROVE  /\ batch.rows = [i \in DOMAIN rows |-> cells(rows[i])]
                      /\ batch.complete <=> Len(rows) = q.rowCount
    BY DEF RangeExact, BatchExact
  <1> DEFINE W == Whole(source)
             h == Hdr(opt)
             m == RowCount(source, opt)
             bs == batch.rows
  <1>1. source \in Seq(Bytes) /\ opt \in Options /\ Len(source) \in Nat BY DEF DelimitedInv, TextOk
  <1>2. Delivered(batch)
    <2>1. batch # NoBatch BY <1>p DEF NoBatch
    <2>2. QED BY <1>p, <2>1 DEF DelimitedInv, BatchOk
  <1>3. /\ q \in Rectangles /\ bs \in Seq(Rows(q)) /\ Answered(source, opt, q, bs)
        /\ batch.complete <=> Len(bs) = q.rowCount
    BY <1>2 DEF Delivered
  <1>4. /\ W \in Seq(Records) /\ D \in Seq(Records) /\ Len(D) = m
        /\ \A i \in 1..Len(D) : D[i] = W[h + i]
    BY <1>1, DataRowsAre
  <1>5. /\ Len(bs) = IF m <= q.rowStart THEN 0 ELSE IF m < RowEnd(q) THEN m - q.rowStart ELSE q.rowCount
        /\ \A i \in 1..Len(bs) : bs[i] = CellsOf(source, q, W[h + q.rowStart + i])
    BY <1>3 DEF Answered
  <1>6. h \in {0, 1} BY DEF Hdr
  <1>7. q.rowStart \in Nat /\ q.rowCount \in Nat /\ RowEnd(q) = q.rowStart + q.rowCount
    BY <1>3 DEF Rectangles, RowEnd
  <1>8. \A row \in Records : CellsOf(source, q, row) = cells(row)
    <2> SUFFICES ASSUME NEW row \in Records PROVE CellsOf(source, q, row) = cells(row) OBVIOUS
    <2>1. DOMAIN row = 1..Len(row) /\ \A i \in 1..Len(row) : row[i] \in Names BY DEF Records
    <2>2. \A i \in 1..Len(row) : Lossy(row[i]) = LossyOf(source, row[i]) BY <2>1, LossyIsRun
    <2>3. ASSUME NEW c
          PROVE  cell(row, q.columnStart + c)
                   = IF q.columnStart + c \in 1..Len(row) THEN <<LossyOf(source, row[q.columnStart + c])>> ELSE <<>>
      BY <2>1, <2>2
    <2> HIDE DEF cell
    <2>4. QED BY <2>3 DEF CellsOf
  <1> HIDE DEF q, D, W, h, m, bs, cells
  <1>9. m \in Nat /\ RowEnd(q) \in Nat BY <1>4, <1>7
  <1>10. e = IF RowEnd(q) < m THEN RowEnd(q) ELSE m BY <1>4 DEF Min2
  <1> HIDE DEF e
  <1>11. e \in Nat /\ e <= m BY <1>9, <1>10
  <1>12. /\ rows \in Seq(Records) /\ Len(rows) = IF e <= q.rowStart THEN 0 ELSE e - q.rowStart
         /\ \A i \in 1..Len(rows) : rows[i] = D[q.rowStart + i] /\ q.rowStart + i \in 1..m
    <2> DEFINE s == q.rowStart
    <2>1. s + 1 \in Int /\ e \in Int /\ \A i \in s + 1 .. e : D[i] \in Records
      <3>1. \A i \in s + 1 .. e : i \in 1..m BY <1>7, <1>9, <1>11
      <3>2. QED BY <1>4, <1>7, <1>11, <3>1
    <2>2. /\ rows \in Seq(Records) /\ Len(rows) = IF s + 1 <= e THEN e - (s + 1) + 1 ELSE 0
          /\ \A i \in 1 .. e - (s + 1) + 1 : rows[i] = D[(s + 1) + i - 1]
      BY <2>1, SubSeqProperties
    <2>s. s \in Nat BY <1>7
    <2> HIDE DEF rows, s
    <2>3. Len(rows) = IF e <= s THEN 0 ELSE e - s BY <1>11, <2>s, <2>2
    <2>4. ASSUME NEW i \in 1..Len(rows) PROVE rows[i] = D[s + i] /\ s + i \in 1..m
      <3>1. i \in 1 .. e - (s + 1) + 1 /\ (s + 1) + i - 1 = s + i /\ s + i \in 1..m
        BY <1>9, <1>11, <2>s, <2>3
      <3>2. QED BY <2>2, <3>1
    <2>5. QED BY <2>2, <2>3, <2>4 DEF s
  <1> HIDE DEF rows
  <1>13. Len(bs) = Len(rows) BY <1>5, <1>7, <1>9, <1>10, <1>11, <1>12
  <1>14. ASSUME NEW i \in 1..Len(rows) PROVE bs[i] = cells(rows[i])
    <2>1. rows[i] = D[q.rowStart + i] /\ q.rowStart + i \in 1..m /\ rows[i] \in Records BY <1>12
    <2>2. rows[i] = W[h + (q.rowStart + i)] BY <1>4, <2>1
    <2>3. h + (q.rowStart + i) = h + q.rowStart + i
      <3>1. i \in Nat BY <1>7, <1>11, <1>12
      <3>2. QED BY <1>6, <1>7, <3>1
    <2>4. bs[i] = CellsOf(source, q, rows[i]) BY <1>5, <1>13, <2>2, <2>3
    <2>5. QED BY <1>8, <2>1, <2>4
  <1>15. bs = [i \in DOMAIN rows |-> cells(rows[i])]
    <2>1. DOMAIN rows = 1..Len(rows) BY <1>12
    <2>2. bs = [i \in 1..Len(bs) |-> bs[i]] BY <1>3
    <2>3. QED BY <1>13, <1>14, <2>1, <2>2
  <1>16. QED BY <1>3, <1>13, <1>15 DEF bs

\* The sparse index, the row count, the width and the column names are those of the
\* whole source parsed at once, for all options and chunks, and every source whose
\* text does not begin with a second byte order mark.
THEOREM IndexIsExact == Spec => []IndexExact
  BY DelimitedIsInductive, DelimitedIsIndexed, PTL

\* A batch holds the cells of the whole source parsed at once, whichever checkpoint
\* its read began at, and whatever chunks it and the scan were fed, for every source
\* no record of which begins with a byte order mark.
THEOREM RangeIsExact == Spec => []RangeExact
  BY DelimitedIsInductive, DelimitedIsAnswered, PTL
=============================================================================
