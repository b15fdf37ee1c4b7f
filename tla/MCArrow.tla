------------------------------- MODULE MCArrow ------------------------------
EXTENDS Arrow

MCLimits ==
    [source |-> 200, decoded |-> 150, output |-> 48, metadata |-> 12,
     block |-> 40, cells |-> 8, cell |-> 6, preview |-> 2, fields |-> 4,
     depth |-> 2]

Message(kind, continued, metadata, body) ==
    [kind |-> kind, continued |-> continued, metadata |-> metadata,
     body |-> body, native |-> TRUE, compressed |-> FALSE, buffers |-> <<>>,
     id |-> 1, delta |-> FALSE, rows |-> 0, memory |-> 0, corrupt |-> FALSE,
     text |-> <<>>]

\* Two columns of text, so that shares are uneven and some cells are null.
Text(rows) ==
    <<[r \in 1 .. rows |-> IF r = 2 THEN Null ELSE 2 * r],
      [r \in 1 .. rows |-> 5 - r]>>

Record(rows) ==
    [Message("record", TRUE, 4, 9)
        EXCEPT !.rows = rows, !.memory = 10 * rows, !.text = Text(rows)]

\* A column of nulls has rows and no body.
Bodyless ==
    [Message("record", TRUE, 4, 0)
        EXCEPT !.rows = 2, !.memory = 8, !.text = <<<<Null, Null>>, <<Null, Null>>>>]

Buffer(offset, encoded, declared) ==
    [offset |-> offset, encoded |-> encoded, declared |-> declared]

Compressed(rows, buffers) ==
    [Record(rows) EXCEPT !.body = 20, !.compressed = TRUE, !.buffers = buffers]

Plain    == <<Buffer(10, 10, -1), Buffer(0, 9, 14)>>
Overlaps == <<Buffer(4, 10, -1), Buffer(0, 9, 14)>>
Huge     == <<Buffer(10, 10, 0), Buffer(0, 9, 151)>>
Negative == <<Buffer(10, 10, -2), Buffer(0, 0, 0)>>

Schema    == Message("schema", TRUE, 4, 0)
Foreign   == [Schema EXCEPT !.native = FALSE]
Dictionary(delta) ==
    [Message("dictionary", FALSE, 4, 6) EXCEPT !.delta = delta]
EndMarker == Message("end", TRUE, 0, 0)
Tensor    == Message("tensor", TRUE, 4, 4)
Corrupt   == [Record(1) EXCEPT !.corrupt = TRUE]
Magic     == Message("magic", FALSE, 9, 200)

Streams ==
    {<<Schema, Record(2), Record(0), Compressed(3, Plain), EndMarker>>,
     <<Schema, Dictionary(FALSE), Record(1), Dictionary(TRUE), Record(2)>>,
     <<Schema, Compressed(1, Plain), Compressed(2, Plain)>>,
     <<Schema, Record(1), EndMarker, Record(1)>>,
     <<Schema, Compressed(1, Overlaps)>>, <<Schema, Compressed(1, Huge)>>,
     <<Schema, Compressed(1, Negative)>>, <<Schema, Schema>>,
     <<Schema, Bodyless, Record(1), Bodyless, EndMarker>>, <<Schema, Record(1), Bodyless>>,
     <<Record(1)>>, <<Foreign>>, <<Schema, Tensor>>, <<Schema, Corrupt>>}

NoFooter ==
    [trailer |-> FALSE, length |-> 0, readable |-> FALSE,
     dictionaries |-> <<>>, records |-> <<>>]

TwoColumns ==
    <<[width |-> 2, contents |-> "a", dictionary |-> FALSE],
      [width |-> 2, contents |-> "a", dictionary |-> TRUE]>>

Input(container, messages, length, chunk, footer) ==
    [container |-> container, messages |-> messages, length |-> length,
     chunk |-> chunk, footer |-> footer, columns |-> TwoColumns,
     schema |-> [fields |-> 2, depth |-> 1, metadata |-> 5]]

StreamInputs ==
    {Input(container, messages, MessageEnd(messages, Len(messages)) - cut,
           chunk, NoFooter) :
        container \in {"auto", "stream"}, messages \in Streams,
        cut \in {0, 5, 24}, chunk \in {5, 7, 16, 60}}

Block(offset, message) ==
    [offset |-> offset, metadata |-> message.metadata + HeaderBytes(message),
     body |-> message.body, message |-> message]

File(dictionaries, records) ==
    [trailer |-> TRUE, length |-> 11, readable |-> TRUE,
     dictionaries |-> dictionaries, records |-> records]

Records3 == <<Block(30, Record(2)), Block(60, Compressed(3, Plain)),
              Block(100, Record(1))>>

Footers ==
    {File(<<Block(10, Dictionary(FALSE))>>, Records3),
     File(<<>>, Records3), File(<<>>, <<>>),
     File(<<Block(10, Dictionary(FALSE)), Block(10, Dictionary(TRUE))>>,
          <<Block(30, Record(1)), Block(60, Record(0)), Block(60, Record(2))>>),
     File(<<Block(10, Record(1))>>, Records3),
     File(<<>>, <<Block(30, Corrupt)>>),
     File(<<>>, <<Block(30, Compressed(1, Huge))>>),
     File(<<>>, <<Block(190, Record(1))>>),
     [File(<<>>, Records3) EXCEPT !.readable = FALSE],
     [File(<<>>, Records3) EXCEPT !.length = 13],
     [File(<<>>, Records3) EXCEPT !.trailer = FALSE]}

FileInputs ==
    {Input(container, <<Magic>>, 180, 16, footer) :
        container \in {"auto", "file"}, footer \in Footers}

MCInputs == StreamInputs \cup FileInputs

MCRequests ==
    [row : 0 .. 4, rows : {0, 1, 2, 4}, column : {0}, columns : {1, 2}]
        \cup [row : {1, 7}, rows : {2}, column : {1, 3}, columns : {0, 1}]

=============================================================================
