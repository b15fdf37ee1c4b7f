------------------------------- MODULE Arrow --------------------------------
(***************************************************************************)
(* One Arrow IPC source from its first byte to its batches: the open       *)
(* (ArrowOpen), range reads of the table it has published so far, and the  *)
(* encoding of what they return into a batch.  A Stream answers from the   *)
(* batches it holds; a File keeps no record bodies, so a read fetches the  *)
(* dictionaries and the blocks its rows lie in, one byte range per step    *)
(* (ArrowFileReadOperation, src/src/arrow.rs).                             *)
(***************************************************************************)
EXTENDS ArrowOpen

-----------------------------------------------------------------------------
(***************************************************************************)
(* How a range of rows becomes one typed batch (encode_batch,              *)
(* BufferPoolBuilder and display_array_with_total_limit, src/src/arrow.rs).*)
(* The native buffers go into a deduplicating pool first; what the pool    *)
(* has left pays for the offsets and validity of the display columns, and  *)
(* the rest is shared out over the cells, column by column and cell by     *)
(* cell, what one cell leaves over going to the cells after it.            *)
(*                                                                         *)
(* A column is [memory, buffers, cells]: the bytes its array occupies, its *)
(* native buffers as contents with a length, and for every row the length  *)
(* of the text its value formats to, or Null.                              *)
(***************************************************************************)

Null == -1

DisplayOnlyCellBytes == Limits.preview   \* DISPLAY_ONLY_MAX_CELL_BYTES

SumOver(sequence, Value(_)) ==
    FoldLeft(LAMBDA total, e : total + Value(e), 0, sequence)

CeilDiv(a, b) == (a + b - 1) \div b

-----------------------------------------------------------------------------
(* The buffer pool *)

\* A pool is the sequence of its distinct buffers.
PoolBytes(pool) == SumOver(pool, LAMBDA b : b.bytes)

\* intern: a buffer with the same contents is not stored twice.
Intern(pool, buffer) ==
    IF Contains(pool, buffer) THEN pool ELSE Append(pool, buffer)

InternAll(pool, buffers) == FoldLeft(Intern, pool, buffers)

\* descriptor_from_array: validity, then the buffers of the layout and of its
\* children, in the order the descriptor names them.
NativeBuffers(columns, mode) ==
    IF mode = "typed"
    THEN FoldLeft(LAMBDA all, c : all \o c.buffers, <<>>, columns)
    ELSE <<>>

-----------------------------------------------------------------------------
(* The display text *)

\* logical_value_count
ValueCount(column) == Cardinality({i \in DOMAIN column.cells :
                                      column.cells[i] # Null})

\* display_structural_bytes: 32-bit offsets and a validity bitmap.
StructuralBytes(column) ==
    (Len(column.cells) + 1) * 4 + CeilDiv(Len(column.cells), 8)

\* truncate_utf8_display
Truncated(length, limit) == Smaller(length, limit)

\* The share is taken of the whole and not of what is left.
ShowCellOfAll(d, length, maxCell, total, structural, cells) ==
    LET limit == Smaller(maxCell, CeilDiv(total - structural, cells))
    IN  IF length = Null THEN d
        ELSE [d EXCEPT !.used = @ + Truncated(length, limit),
                       !.left = @ - 1, !.limits = Append(@, limit)]

\* One cell of display_array_with_total_limit; `used' counts the structural
\* bytes too, `left' the cells that still have a value to show.
ShowCell(d, length, maxCell, total, structural, cells) ==
    LET limit == IF d.left = 0 THEN 0
                 ELSE Smaller(maxCell, CeilDiv(total - d.used, d.left))
    IN  IF length = Null THEN d
        ELSE [d EXCEPT !.used = @ + Truncated(length, limit),
                       !.left = @ - 1, !.limits = Append(@, limit)]

DisplayColumn(column, maxCell, total) ==
    FoldLeft(LAMBDA d, length :
                ShowCell(d, length, maxCell, total, StructuralBytes(column),
                         ValueCount(column)),
             [used |-> StructuralBytes(column), left |-> ValueCount(column),
              limits |-> <<>>],
             column.cells)

\* The column loop of encode_batch.  `fits' turns FALSE when a column's text
\* exceeds the total it was given, which the code refuses.
ShowColumn(e, column, maxCell) ==
    LET cells  == ValueCount(column)
        share  == IF e.cells = 0 THEN 0 ELSE CeilDiv(e.values * cells, e.cells)
        total  == StructuralBytes(column) + share
        shown  == DisplayColumn(column, maxCell, total)
        values == shown.used - StructuralBytes(column)
    IN  [values |-> e.values - values,
         cells  |-> e.cells - cells,
         text   |-> e.text + shown.used,
         fits   |-> e.fits /\ shown.used <= total,
         limits |-> e.limits \o shown.limits]

\* encode_batch: what the encoding came to, or why it was refused.
EncodeBatch(columns, mode) ==
    LET memory     == SumOver(columns, LAMBDA c : c.memory)
        limit      == Smaller(Limits.output, Limits.decoded - memory)
        pool       == InternAll(<<>>, NativeBuffers(columns, mode))
        remaining  == limit - PoolBytes(pool)
        structural == SumOver(columns, StructuralBytes)
        cells      == SumOver(columns, ValueCount)
        maxCell    == IF mode = "typed" THEN Limits.cell
                      ELSE Smaller(Limits.cell, DisplayOnlyCellBytes)
        shown      == FoldLeft(LAMBDA e, c : ShowColumn(e, c, maxCell),
                               [values |-> remaining - structural,
                                cells |-> cells, text |-> 0, fits |-> TRUE,
                                limits |-> <<>>], columns)
    IN  IF memory > Limits.decoded \/ remaining < 0 \/ structural > remaining
        THEN [ok |-> FALSE]
        ELSE [ok |-> TRUE, fits |-> shown.fits, native |-> PoolBytes(pool),
              text |-> shown.text, limit |-> limit, cells |-> cells,
              values |-> remaining - structural, maxCell |-> maxCell,
              limits |-> shown.limits]

-----------------------------------------------------------------------------

CONSTANTS
    Requests   \* the ranges that are asked for: [row, rows, column, columns]

VARIABLES read, batch

vars == <<input, open, issued, table, read, batch>>

-----------------------------------------------------------------------------
(* Rows *)

Columns == Len(input.columns)

\* The batches of the table: decoded messages, or the records of the footer.
BatchOf(t, i) == IF t.kind = "stream" THEN Messages[t.batches[i]]
                 ELSE Footer.records[i].message

\* Rows from .. to - 1 of a batch that starts at row `first', as the batch
\* they come from and their place in it.
Slice(i, first, from, to) ==
    [n \in 1 .. to - from |-> [batch |-> i, row |-> from - first + n - 1]]

\* The part of batch i that lies in a plan's rows.
PartOf(plan, i, first, count) ==
    LET from == Larger(plan.row, first)
        to   == Smaller(plan.row + plan.rows, first + count)
    IN  IF from < to THEN Slice(i, first, from, to) ELSE <<>>

Concatenated(parts) == FoldLeft(LAMBDA all, part : all \o part, <<>>, parts)

\* plan_range
ValidRequest(request, rows) ==
    /\ request.rows * request.columns <= Limits.cells
    /\ request.row <= rows
    /\ request.column <= Columns

PlanRange(request, rows) ==
    LET returned == Smaller(request.rows, rows - request.row)
        shown    == Smaller(request.columns, Columns - request.column)
    IN  [row |-> request.row, rows |-> returned,
         column |-> request.column, columns |-> shown,
         complete |-> returned = request.rows /\ shown = request.columns]

-----------------------------------------------------------------------------
(* Batches *)

\* A projected column of the given rows.
ColumnOf(t, rows, c) ==
    LET Cell(n) == BatchOf(t, rows[n].batch).text[c][rows[n].row + 1]
    IN  [memory  |-> Len(rows) * input.columns[c].width,
         buffers |-> <<[contents |-> <<input.columns[c].contents, rows>>,
                        bytes |-> Len(rows) * input.columns[c].width]>>,
         cells   |-> [n \in 1 .. Len(rows) |-> Cell(n)]]

Batch(t, plan, rows, mode) ==
    LET columns == [n \in 1 .. plan.columns |->
                       ColumnOf(t, rows, plan.column + n)]
    IN  [kind |-> "batch", plan |-> plan, rows |-> rows,
         encoded |-> EncodeBatch(columns, mode)]

Refusal == [kind |-> "refused"]

-----------------------------------------------------------------------------
(* Reading a Stream *)

\* project_column over the published batches.
StreamRows(t, plan) ==
    IF plan.rows = 0 THEN <<>>
    ELSE Concatenated([i \in 1 .. Len(t.batches) |->
            PartOf(plan, i, t.offsets[i], t.offsets[i + 1] - t.offsets[i])])

-----------------------------------------------------------------------------
(* Reading a File *)

\* Rows that end where the plan begins count as touched.
TouchesClosed(entry, plan) ==
    /\ entry.start <= plan.row + plan.rows
    /\ entry.start + entry.count > plan.row

Touches(entry, plan) ==
    /\ entry.start < plan.row + plan.rows
    /\ entry.start + entry.count > plan.row

UsesDictionary(plan) ==
    \E n \in 1 .. plan.columns : input.columns[plan.column + n].dictionary

\* The blocks a range needs, in the order they are read.
RequiredBlocks(t, plan) ==
    LET Block(kind, i) == [kind |-> kind, at |-> i]
        dictionaries == [i \in 1 .. Len(Footer.dictionaries) |->
                            Block("dictionary", i)]
        records == [i \in 1 .. Len(t.index) |-> Block("record", i)]
    IN  IF plan.rows = 0 \/ plan.columns = 0 THEN <<>>
        ELSE (IF UsesDictionary(plan) THEN dictionaries ELSE <<>>)
               \o SelectSeq(records,
                            LAMBDA b : Touches(t.index[b.at], plan))

SpecOf(block) == IF block.kind = "dictionary"
                 THEN Footer.dictionaries[block.at] ELSE Footer.records[block.at]

FileRead(plan, mode, required) ==
    [kind |-> "file", plan |-> plan, mode |-> mode, required |-> required,
     next |-> 1, decoded |-> <<>>, bytes |-> 0, dictionaries |-> 0,
     declared |-> 0]

\* The next byte range of the read.
BlockAction(r) ==
    LET spec == SpecOf(r.required[r.next])
    IN  ReadBytes(spec.offset, spec.metadata + spec.body)

\* preflight_compressed_block: what the buffers of the block decode to.
DeclaredBytes(spec) ==
    MapThenSumSet(LAMBDA i : Declared(spec.message.buffers[i]),
                  CompressedBuffers(spec.message))

Preflight(r, spec) ==
    /\ BlockHolds(spec, spec.message.kind)
    /\ ValidBuffers(spec.message)
    /\ \A i \in CompressedBuffers(spec.message) :
          Declared(spec.message.buffers[i]) >= 0
    /\ r.declared + DeclaredBytes(spec) <= Limits.decoded

DecodedForBlock(spec) == Larger(spec.body, DeclaredBytes(spec))

\* ensure_file_read_transient_memory_budget
WithinTransientBudget(r, spec) ==
    r.dictionaries + r.bytes + (spec.metadata + spec.body)
      + 2 * DecodedForBlock(spec) + r.dictionaries <= Limits.decoded

\* feed_buffer: a dictionary is kept for the blocks after it, a record is
\* detached from its block.
DecodeBlock(r) ==
    LET block == r.required[r.next]
        spec  == SpecOf(block)
        fed   == [r EXCEPT !.next = @ + 1, !.declared = @ + DeclaredBytes(spec)]
    IN  IF block.kind = "dictionary"
        THEN [fed EXCEPT !.dictionaries = @ + DecodedForBlock(spec)]
        ELSE [fed EXCEPT !.decoded = Append(@, block.at),
                         !.bytes = @ + spec.message.memory]

BlockAccepted(r) ==
    LET spec == SpecOf(r.required[r.next])
    IN  /\ Preflight(r, spec)
        /\ WithinTransientBudget(r, spec)
        /\ ~spec.message.corrupt
        /\ DecodeBlock(r).dictionaries + DecodeBlock(r).bytes <= Limits.decoded

\* build_batch, with all detached arrays and their concatenation alive.
FileRows(t, r) ==
    Concatenated([n \in 1 .. Len(r.decoded) |->
        PartOf(r.plan, r.decoded[n], t.index[r.decoded[n]].start,
               t.index[r.decoded[n]].count)])

FileBatch(t, r) ==
    IF 2 * r.bytes > Limits.decoded THEN Refusal
    ELSE Batch(t, r.plan, FileRows(t, r), r.mode)

-----------------------------------------------------------------------------
\* begin_read_with_mode
BeginRead(request, mode) ==
    LET plan     == PlanRange(request, TableRows(table))
        required == RequiredBlocks(table, plan)
    IN  /\ table # None
        /\ read = None
        /\ ValidRequest(request, TableRows(table))
        /\ IF table.kind = "stream"
           THEN /\ batch' = Batch(table, plan, StreamRows(table, plan), mode)
                /\ UNCHANGED read
           ELSE IF required = <<>>
           THEN batch' = Batch(table, plan, <<>>, mode) /\ UNCHANGED read
           ELSE batch' = None /\ read' = FileRead(plan, mode, required)
        /\ UNCHANGED openVars

FeedRead ==
    /\ read # None
    /\ IF ~BlockAccepted(read)
       THEN read' = None /\ batch' = Refusal
       ELSE IF read.next < Len(read.required)
       THEN read' = DecodeBlock(read) /\ UNCHANGED batch
       ELSE read' = None /\ batch' = FileBatch(table, DecodeBlock(read))
    /\ UNCHANGED openVars

\* `batch' is what the last step returned.
Advance == FeedOpen /\ batch' = None /\ UNCHANGED read

Init == OpenInit /\ read = None /\ batch = None

Next ==
    \/ Advance
    \/ \E request \in Requests, mode \in {"typed", "display"} :
          BeginRead(request, mode)
    \/ FeedRead

Spec == Init /\ [][Next]_vars

-----------------------------------------------------------------------------
(* Properties *)

BodyStart(k) == MessageEnd(Messages, k) - Messages[k].body

Arrived == {k \in 1 .. Len(Messages) : MessageEnd(Messages, k) <= open.offset}

BodyCost(m) ==
    IF m.compressed
    THEN MapThenSumSet(LAMBDA i : Declared(m.buffers[i]), CompressedBuffers(m))
    ELSE m.body

CostOf(kind) ==
    MapThenSumSet(LAMBDA k : BodyCost(Messages[k]),
                  {k \in Arrived : Messages[k].kind = kind})

\* The decoded-length prefixes that lie wholly in what has arrived.
PrefixesSeen ==
    {<<k, i>> \in (1 .. Len(Messages)) \X (1 .. 2) :
        /\ i \in CompressedBuffers(Messages[k])
        /\ BodyStart(k) + Messages[k].buffers[i].offset + PrefixBytes
             <= open.offset}

(***************************************************************************)
(* Chunk boundaries do not matter: whatever part of a header, of metadata  *)
(* or of a buffer's eight-byte length prefix a chunk ends in, the          *)
(* validator has charged exactly the buffers whose prefix has arrived and  *)
(* the bodies of the messages that are complete, each once                 *)
(* (StreamWireValidator::feed).                                            *)
(***************************************************************************)
WireExact ==
    open.state = "stream" =>
        /\ open.wire.at = 1 + Cardinality(Arrived)
                            - (IF open.wire.phase = "finished" THEN 1 ELSE 0)
        /\ open.wire.declared = MapThenSumSet(
              LAMBDA p : Declared(Messages[p[1]].buffers[p[2]]), PrefixesSeen)
        /\ open.wire.records = CostOf("record")
        /\ open.wire.dictionaries = CostOf("dictionary")

\* The rows before each batch and after the last.
PrefixRows(Rows(_), count) ==
    [n \in 1 .. count + 1 |-> MapThenSumSet(Rows, 1 .. n - 1)]

(***************************************************************************)
(* What readers of the table can see is exactly what has been decoded: a   *)
(* Stream's deltas, taken whenever a step happens to end, neither skip nor *)
(* repeat a batch and their totals agree; the rows are final only when     *)
(* every record of the source is among them.  A File's index gives each    *)
(* record the rows that follow the records before it in the footer, in     *)
(* however many steps its metadata came (take_stream_delta,                *)
(* append_stream_delta, index_file_metadata).  The host is always working  *)
(* on the ranges the open would ask for again.                             *)
(***************************************************************************)
PublishedExact ==
    /\ open.state \notin {"complete", "failed"} =>
          NextActions(open, Len(issued), StepBudget) = issued
    /\ table # None =>
          LET Rows(i) == BatchOf(table, i).rows
          IN  CASE table.kind = "stream" ->
                     /\ table.batches = DecodedBy(Messages, open.offset)
                     /\ table.offsets = PrefixRows(Rows, Len(table.batches))
                     /\ table.decoded = SumMemory(Messages, table.batches)
                     /\ table.exact = (open.state = "complete")
                     /\ table.exact =>
                           table.batches = SelectSeq([k \in 1 .. Len(Messages) |-> k],
                                               LAMBDA k : Messages[k].kind = "record")
                [] table.kind = "file" ->
                     table.index = [i \in 1 .. Len(Footer.records) |->
                        [start |-> PrefixRows(Rows, i)[i], count |-> Rows(i)]]

\* The table as a whole, row by row.
AllRows ==
    Concatenated([i \in 1 .. Len(table.offsets) - 1 |->
                     Slice(i, 0, 0, BatchOf(table, i).rows)])

(***************************************************************************)
(* A read returns the rows it was asked for as far as they exist, in       *)
(* order, across batch and block boundaries, from a table that may still   *)
(* be growing; and a File read fetches no record block whose rows all lie  *)
(* outside (an empty one may be fetched), and none twice (plan_range,      *)
(* project_column, ArrowFileReadOperation).                                *)
(***************************************************************************)
ReadExact ==
    /\ (batch.kind = "batch" /\ batch.plan.columns > 0) =>
          batch.rows = SubSeq(AllRows, batch.plan.row + 1,
                              batch.plan.row + batch.plan.rows)
    /\ read # None =>
          /\ IsInjective(read.required)
          /\ \A n \in DOMAIN read.required :
                LET b == read.required[n]
                IN  b.kind = "record" =>
                      \/ BatchOf(table, b.at).rows = 0
                      \/ \E m \in read.plan.row + 1 ..
                                   read.plan.row + read.plan.rows :
                            AllRows[m].batch = b.at

(***************************************************************************)
(* Once the native buffers and the structure of the display columns fit,   *)
(* the text fits: rounding shares up never exceeds what is left, so no     *)
(* read is refused for its text, the batch stays within its output limit,  *)
(* and no cell gets less than an even share of the text bytes, however     *)
(* greedy the cells before it (encode_batch,                               *)
(* display_array_with_total_limit).                                        *)
(***************************************************************************)
DisplayFits ==
    (batch.kind = "batch" /\ batch.encoded.ok) =>
        LET e == batch.encoded
        IN  /\ e.fits
            /\ e.native + e.text <= e.limit
            /\ \A n \in DOMAIN e.limits :
                  e.limits[n] >= Smaller(e.maxCell, e.values \div e.cells)

=============================================================================
