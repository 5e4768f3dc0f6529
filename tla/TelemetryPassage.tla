-------------------------- MODULE TelemetryPassage --------------------------
(***************************************************************************)
(* A telemetry record on its way through OTelux: an exporter's JSON or     *)
(* protobuf, the receiver's decoders, the tables, the runtime API and the  *)
(* client's validators.  And the pages the API hands out, by their size.   *)
(*                                                                         *)
(* A field is abstracted to the classes the steps tell apart.  A record is *)
(* odd in one field, or in its two times; what it says of its own identity *)
(* and of its neighbours is TelemetryStore's.                              *)
(***************************************************************************)
EXTENDS Integers, Sequences, FiniteSets

CONSTANTS Unasked,   \* no view, no book, no limit
          MaxSends   \* bound: exports of one behaviour

VARIABLES sent,      \* the exports answered: encoding, signal, batch, answer
          tables,    \* the stored records: of which export, place and record
          view,      \* the last view a client asked for
          book       \* the listing a client is paging through

passageVars == <<sent, tables, view, book>>

Signals == {"span", "log", "number", "histogram", "summary"}
Metrics == {"number", "histogram"}
Encodings == {"json", "protobuf"}

\* id: a trace id.  name: the span's name, a log's severity text, a metric's.
\* time, other: start and end; time and observed time; time and start.
\* code: the kind, the severity.  value: an attribute, a log's body.
\* amount: the point's value; the histogram's count and sum.
Plain == [id |-> "hex", name |-> "short", service |-> "short", time |-> "set",
          other |-> "set", code |-> "known", value |-> "text", amount |-> "exact"]

Texts == {"absent", "short", "wide", "long"}      \* up to 512, 2048, beyond
Times == {"set", "zero", "absent", "over"}        \* over: 2^63 and beyond

Classes ==
    [id |-> {"hex", "upper", "uneven", "absent"}, name |-> Texts, service |-> Texts,
     time |-> Times, other |-> Times, code |-> {"known", "beyond"},
     value |-> {"text", "int", "number", "nonfinite", "list", "mixed", "map",
                "hollow", "malformed", "absent"},
     amount |-> {"exact", "beyond", "nan", "infinite", "absent"}]

\* What a record of a signal has at all.
Has(signal) == DOMAIN Plain \ IF signal \in {"span", "log"} THEN {"amount"} ELSE {"id", "code"}

Records(signal) ==
    (UNION {{[Plain EXCEPT ![f] = c] : c \in Classes[f]} : f \in Has(signal)})
      \cup {[Plain EXCEPT !.time = w[1], !.other = w[2]] : w \in Times \X Times}

Shipments(signal) ==
    {<<r>> : r \in Records(signal)} \cup {<<Plain, r>> : r \in Records(signal)}
-----------------------------------------------------------------------------
(* What the decoders are handed.                                            *)

\* JSON has no number for NaN or an infinity: exporters quote them.
JsonForm(r) ==
    [r EXCEPT !.value = IF @ = "nonfinite" THEN "quoted" ELSE @,
              !.amount = IF @ \in {"nan", "infinite"} THEN "quoted" ELSE @]

\* Bytes are written as lowercase hex, whatever their number.
ReadId(c) == IF c = "upper" THEN "hex" ELSE c

\* The bug of a fixed64 read as signed: what is too large becomes negative.
ReadSigned(c) == CASE c = "zero" -> "absent" [] c = "over" -> "negative" [] OTHER -> c

\* A fixed64 of zero is a default: proto3 does not send it.
ReadTime(c) == IF c = "zero" THEN "absent" ELSE c

\* int64 becomes decimal text; a kvlist and bytes are skipped.
ReadAnyValue(c) ==
    CASE c = "number" -> "int"
      [] c = "map" -> "hollow"
      [] OTHER -> c

ReadSpan(r) ==
    [r EXCEPT !.id = ReadId(@), !.time = ReadTime(@), !.other = ReadTime(@),
              !.value = ReadAnyValue(@)]

ReadLogRecord(r) ==
    [r EXCEPT !.id = ReadId(@), !.time = ReadTime(@), !.other = ReadTime(@),
              !.value = ReadAnyValue(@)]

ReadPoint(r) ==
    [r EXCEPT !.time = ReadTime(@), !.other = ReadTime(@), !.value = ReadAnyValue(@)]

ReadHistogramPoint(r) ==
    [r EXCEPT !.time = ReadTime(@), !.other = ReadTime(@), !.value = ReadAnyValue(@)]

\* A summary, or an exponential histogram, is skipped with its points.
ReadMetric(signal, r) ==
    CASE signal = "number" -> ReadPoint(r)
      [] signal = "histogram" -> ReadHistogramPoint(r)
      [] OTHER -> r

Incoming(encoding, signal, r) ==
    IF encoding = "json" THEN JsonForm(r)
    ELSE CASE signal = "span" -> ReadSpan(r)
           [] signal = "log" -> ReadLogRecord(r)
           [] OTHER -> ReadMetric(signal, r)
-----------------------------------------------------------------------------
(* The decoders both encodings share.  Nothing: the record is dropped.      *)

Nothing == [Plain EXCEPT !.id = "nothing"]

\* A list keeps the items of its first item's type; a NaN in quotes, a map
\* and an empty value are no attribute at all.
DecodeAnyValue(c) ==
    CASE c = "mixed" -> "part"
      [] c \in {"quoted", "map", "hollow"} -> "absent"
      [] OTHER -> c

DecodeSpan(r) ==
    IF "absent" \in {r.id, r.time, r.other} THEN Nothing
    ELSE [r EXCEPT !.value = DecodeAnyValue(@)]

\* A time of zero is an absent one, and the observed time stands in for it.
DecodeLogRecord(r) ==
    LET time == IF r.time \in {"zero", "absent"} THEN r.other ELSE r.time
    IN  IF time \in {"zero", "absent"} THEN Nothing
        ELSE [r EXCEPT !.time = time, !.value = DecodeAnyValue(@)]

PointTime(r) ==
    LET time == IF r.time \in {"zero", "absent"} THEN r.other ELSE r.time
    IN  IF time = "absent" THEN "zero" ELSE time

\* A point is a JavaScript number: an integer beyond 2^53 is rounded, and
\* what is no number is none (zero).
DecodePoint(r) ==
    [r EXCEPT !.time = PointTime(r), !.value = DecodeAnyValue(@),
              !.amount = CASE @ = "beyond" -> "rounded"
                           [] @ \in {"quoted", "absent"} -> "none"
                           [] OTHER -> @]

DecodeHistogramPoint(r) ==
    [r EXCEPT !.time = PointTime(r), !.value = DecodeAnyValue(@),
              !.amount = IF @ \in {"quoted", "absent"} THEN "none" ELSE @]

DecodeMetric(signal, r) ==
    IF signal = "summary" \/ r.name = "absent" THEN Nothing
    ELSE IF signal = "number" THEN DecodePoint(r) ELSE DecodeHistogramPoint(r)

Decode(signal, r) ==
    CASE signal = "span" -> DecodeSpan(r)
      [] signal = "log" -> DecodeLogRecord(r)
      [] OTHER -> DecodeMetric(signal, r)

\* A text no integer can be read from fails the decoder of a record it reads.
Unreadable(signal, r) == r.value = "malformed" /\ signal # "summary"
-----------------------------------------------------------------------------
(* The tables.                                                              *)

\* JSON columns have no NaN and no infinity: they keep a null.
KeptValue(c) == IF c = "nonfinite" THEN "null" ELSE c

\* A REAL column keeps an infinity; its NaN is a NULL, read as no number.
KeptAmount(c) == IF c = "nan" THEN "none" ELSE c

Kept(k) == [k EXCEPT !.value = KeptValue(@), !.amount = KeptAmount(@)]

\* A time SQLite has no integer for fails the statement.
Unwritable(k) == k # Nothing /\ "over" \in {k.time, k.other}

StoredRow(n, i, signal, r, k) ==
    [export |-> n, place |-> i, signal |-> signal, of |-> r, kept |-> Kept(k)]

\* The bug of a store whose transaction is one record, not one export.
WriteEach(n, signal, batch, decoded) ==
    {StoredRow(n, i, signal, batch[i], decoded[i]) :
       i \in {j \in DOMAIN decoded : decoded[j] # Nothing /\ ~Unwritable(decoded[j])}}

\* One transaction for an export: it is rolled back whole.
Write(n, signal, batch, decoded) ==
    IF \E i \in DOMAIN decoded : Unwritable(decoded[i]) THEN {}
    ELSE {StoredRow(n, i, signal, batch[i], decoded[i]) :
            i \in {j \in DOMAIN decoded : decoded[j] # Nothing}}

\* The receiver's answer to an export.
ExportAnswer(incoming, signal, decoded) ==
    IF \E i \in DOMAIN incoming : Unreadable(signal, incoming[i]) THEN "invalid"
    ELSE IF \E i \in DOMAIN decoded : Unwritable(decoded[i]) THEN "failed"
    ELSE "accepted"

HandleExport(encoding, signal, batch) ==
    LET incoming == [i \in DOMAIN batch |-> Incoming(encoding, signal, batch[i])]
        decoded == [i \in DOMAIN batch |-> Decode(signal, incoming[i])]
        answer == ExportAnswer(incoming, signal, decoded)
    IN  /\ sent' = Append(sent, [encoding |-> encoding, signal |-> signal,
                                       batch |-> batch, answer |-> answer])
        /\ tables' = tables \cup IF answer = "invalid" THEN {}
                                 ELSE Write(Len(sent) + 1, signal, batch, decoded)
        /\ UNCHANGED <<view, book>>

\* A new batch; the same one again after a failure, or from an exporter that
\* speaks the other encoding.
Send(encoding, signal, batch) ==
    /\ book = Unasked /\ view = Unasked
    /\ Len(sent) < MaxSends
    /\ \A i \in DOMAIN sent :
         /\ signal = sent[i].signal /\ batch = sent[i].batch
         /\ sent[i].answer = "accepted" => encoding # sent[i].encoding
    /\ HandleExport(encoding, signal, batch)
-----------------------------------------------------------------------------
(* The views: what the server can put on the wire, and what the client's    *)
(* validators take.                                                         *)

\* The engine cuts a metric's texts.
Bound(k) ==
    [k EXCEPT !.name = IF @ \in {"wide", "long"} THEN "cut" ELSE @,
              !.service = IF @ \in {"wide", "long"} THEN "cut" ELSE @]

Outgoing(row) == IF row.signal \in Metrics THEN Bound(row.kept) ELSE row.kept

\* The wire codec has no infinity.
Encodable(k) == k.amount # "infinite"

IsText(c) == c # "long"
IsId(c) == c = "hex"
IsCount(c) == c # "beyond"
IsAttribute(c) == c # "null"

TakesTraceRow(k) == IsId(k.id) /\ IsText(k.name) /\ IsText(k.service)

TakesSpan(k) ==
    IsId(k.id) /\ IsText(k.name) /\ k.code = "known" /\ IsAttribute(k.value)

TakesLogRow(k) ==
    /\ k.id = "absent" \/ IsId(k.id)
    /\ IsText(k.name) /\ IsText(k.service) /\ k.code = "known"

TakesLog(k) ==
    /\ k.id = "absent" \/ IsId(k.id)
    /\ IsText(k.name) /\ k.code = "known" /\ IsAttribute(k.value)

TakesInstrument(k) == IsText(k.name) /\ IsText(k.service) /\ IsCount(k.amount)

TakesPoints(k) == IsText(k.name) /\ IsAttribute(k.value) /\ IsCount(k.amount)

\* A facet's name is of 512 characters at most, whatever its signal.
TakesFacet(k) == k.service \in {"absent", "short"}

Takes(kind, signal, k) ==
    IF kind = "facets" THEN TakesFacet(k)
    ELSE CASE signal = "span" -> IF kind = "list" THEN TakesTraceRow(k) ELSE TakesSpan(k)
           [] signal = "log" -> IF kind = "list" THEN TakesLogRow(k) ELSE TakesLog(k)
           [] OTHER -> IF kind = "list" THEN TakesInstrument(k) ELSE TakesPoints(k)

\* The whole of a view is refused for one row.  Facets are read from the
\* tables, past the engine's cut, and carry no amount.
Ask(kind, rows) ==
    /\ sent # <<>> /\ view = Unasked
    /\ view' = [kind |-> kind, rows |-> rows, answer |->
         IF kind # "facets" /\ \E r \in rows : ~Encodable(Outgoing(r)) THEN "failed"
         ELSE IF \E r \in rows :
                   ~Takes(kind, r.signal, IF kind = "facets" THEN r.kept ELSE Outgoing(r))
              THEN "refused"
         ELSE "shown"]
    /\ UNCHANGED <<sent, tables, book>>

Views ==
    \/ \E kind \in {"list", "facets"} : Ask(kind, tables)
    \/ \E r \in tables : Ask("details", {r})
-----------------------------------------------------------------------------
(* Pages: of each listing the limits its validator admits, the limit its    *)
(* statement defaults to, and the rows its result may have.                 *)

Chained == {"traces", "logs", "points"}     \* listings with a cursor

\* The bug of one limit for all listings.
OneLimit ==
    [traces |-> 500, logs |-> 500, points |-> 500, instruments |-> 500, facets |-> 500]

MaxLimit ==
    [traces |-> 200, logs |-> 500, points |-> 1000, instruments |-> 500, facets |-> 500]

DefaultLimit ==
    [traces |-> 100, logs |-> 100, points |-> 120, instruments |-> 500, facets |-> 500]

MaxRows ==
    [traces |-> 200, logs |-> 500, points |-> 1000, instruments |-> 500, facets |-> 500]

Admits(listing, limit) == limit = Unasked \/ limit \in 1..MaxLimit[listing]

RowLimit(listing, limit) == IF limit = Unasked THEN DefaultLimit[listing] ELSE limit

\* A statement reads one row more than the page: there is a next one if it is there.
Page(b) ==
    LET left == b.total - b.got
        limit == RowLimit(b.listing, b.limit)
        rows == IF left > limit THEN limit ELSE left
    IN  [b EXCEPT !.got = @ + rows,
                  !.answer = IF rows > MaxRows[b.listing] THEN "refused"
                             ELSE IF b.listing \in Chained /\ left > limit THEN "more"
                             ELSE "end"]

\* As many stored rows as fill no page, and one or two to a row or so.
Totals(listing, limit) ==
    LET n == RowLimit(listing, limit) IN {0, 1, n - 1, n, n + 1, 2 * n, 2 * n + 1}

Open(listing, limit, total) ==
    /\ sent = <<>> /\ book = Unasked
    /\ book' = LET b == [listing |-> listing, limit |-> limit, total |-> total,
                         got |-> 0, answer |-> "invalid"]
               IN  IF Admits(listing, limit) THEN Page(b) ELSE b
    /\ UNCHANGED <<sent, tables, view>>

Turn ==
    /\ book # Unasked /\ book.answer = "more"
    /\ book' = Page(book)
    /\ UNCHANGED <<sent, tables, view>>

Pages ==
    \/ \E listing \in DOMAIN MaxLimit : \E limit \in {Unasked, 0, 1, 2} \cup
             {MaxLimit[listing] + d : d \in {-1, 0, 1}} :
           \E total \in Totals(listing, limit) : Open(listing, limit, total)
    \/ Turn
-----------------------------------------------------------------------------
PassageInit == sent = <<>> /\ tables = {} /\ view = Unasked /\ book = Unasked

PassageNext ==
    \/ \E e \in Encodings, s \in Signals : \E b \in Shipments(s) : Send(e, s, b)
    \/ Views
    \/ Pages

-----------------------------------------------------------------------------
(* What OpenTelemetry and the documented limits allow, in a record.         *)
Conforming(signal, r) ==
    /\ signal # "summary"
    /\ r.id = "hex" \/ (signal = "log" /\ r.id = "absent")
    /\ r.name = "short" \/ (signal \notin Metrics /\ r.name \in {"absent", "wide"})
    /\ r.service \in {"absent", "short"}
    /\ IF signal = "span" THEN {r.time, r.other} = {"set"}
       ELSE "set" \in {r.time, r.other} /\ r.time # "over" /\ r.other \in {"set", "absent"}
    /\ r.code = "known"
    /\ r.value \in {"text", "int", "list", "absent"}
    /\ r.amount = "exact"

(* A record that conforms arrives: an export that was accepted has its      *)
(* conforming records in the tables, unchanged but for a log or a point     *)
(* that takes its other time; one that was not leaves nothing behind, so    *)
(* that it can be sent again; and no view of conforming records fails or is *)
(* refused by the client (otlp*.ts, the stores, resultValidation.ts).       *)
Arrives ==
    /\ \A n \in DOMAIN sent :
         LET x == sent[n]
             stored == {t \in tables : t.export = n}
         IN  IF x.answer # "accepted" THEN stored = {}
             ELSE \A i \in DOMAIN x.batch : Conforming(x.signal, x.batch[i]) =>
                    \E t \in stored :
                      /\ t.place = i
                      /\ t.kept \in {x.batch[i], [x.batch[i] EXCEPT !.time = "set"]}
    /\ view # Unasked =>
         ((\A t \in view.rows : Conforming(t.signal, t.of)) => view.answer = "shown")

\* The encodings differ in what only one of them can say: see README.
Portable(signal, r) ==
    /\ r.id # "upper" /\ r.value \notin {"number", "nonfinite"} /\ r.amount # "infinite"
    /\ r.other # "zero" /\ (signal = "span" => r.time # "zero")

(* Both encodings of a batch are answered alike and stored alike            *)
(* (otlpProtobuf.ts:11-21: one mapping for both).                           *)
EncodingsAgree ==
    \A m, n \in DOMAIN sent :
      (\A i \in DOMAIN sent[m].batch : Portable(sent[m].signal, sent[m].batch[i])) =>
        /\ sent[m].answer = sent[n].answer
        /\ {<<t.place, t.kept>> : t \in {u \in tables : u.export = m}}
             = {<<t.place, t.kept>> : t \in {u \in tables : u.export = n}}

(* No page a validator admits is refused by the client that asked for it,   *)
(* and a client that follows the cursors to the end has seen every row      *)
(* (spans.ts, logs.ts, metrics.ts, validation.ts, resultValidation.ts).     *)
PagesWhole ==
    book # Unasked =>
      /\ book.answer # "refused"
      /\ (book.listing \in Chained /\ book.answer = "end") => book.got = book.total
=============================================================================
