---------------------------- MODULE RecordDecoder ----------------------------
(* The decoder that assembles records from the frames a source arrives in.

   The frames are cut anywhere, so a record, a line ending, a quoted field or a
   code point may lie across two of them.  A caller pushes one frame, drains the
   records that are ready, pushes the next one, and finishes at the end of the
   source.  Bytes are the letters that decide something: "a" any other byte, "q"
   the quote, "c" the comma, "r" and "n" the line ending, "u" and "v" the first
   and the second byte of a code point, "{" and "}" the brackets of a document. *)
EXTENDS Naturals, Sequences, SequencesExt, FiniteSets

CONSTANTS
  SourceTexts,      \* the sources of each format
  MaxRecordBytes,   \* max_record_bytes and max_json_document_bytes
  MaxCsvFields,     \* max_csv_fields
  MaxFrameBytes     \* max_source_frame_bytes

DecoderLimits == MaxRecordBytes > 0 /\ MaxCsvFields > 0 /\ MaxFrameBytes > 0

VARIABLES
  text,      \* the source: its format and its bytes
  unread,    \* what has not been pushed yet
  decoder,   \* RecordDecoder
  decoded,   \* the records the caller has taken
  decoding   \* the caller's next call, or how the decoding ended

decoderVars == <<text, unread, decoder, decoded, decoding>>

NoRecord == [payload |-> <<>>, separator |-> <<"none">>]
NewRecord(payload, separator) == [payload |-> payload, separator |-> separator]

NewDecoder ==
  [pending |-> <<>>, ready |-> NoRecord, scan |-> 0, csv |-> "start", fields |-> 1,
   finished |-> FALSE, complete |-> FALSE, seen |-> FALSE, emitted |-> 0, error |-> "none"]

RecordInit ==
  /\ \E f \in DOMAIN SourceTexts : \E t \in SourceTexts[f] : text = [format |-> f, bytes |-> t]
  /\ unread = text.bytes
  /\ decoder = NewDecoder
  /\ decoded = <<>>
  /\ decoding = "push"

FailWith(d, e) == [d EXCEPT !.error = e]
LineEnds == {"r", "n"}

\* validate_utf8: both bytes of every code point.
ValidUtf8(s) ==
  \A i \in 1..Len(s) :
    /\ s[i] = "u" => i < Len(s) /\ s[i + 1] = "v"
    /\ s[i] = "v" => i > 1 /\ s[i - 1] = "u"

\* Whether position i of a line lies outside of its quoted fields.
Quotes(s, i) == Cardinality({j \in 1..(i - 1) : s[j] = "q"})
Outside(s, i) == Quotes(s, i) % 2 = 0

\* The pieces of a sequence between the positions in a set.
Pieces(s, cuts) ==
  LET at == SetToSortSeq(cuts \cup {0, Len(s) + 1}, LAMBDA i, j : i < j)
  IN [k \in 1..(Len(at) - 1) |-> SubSeq(s, at[k] + 1, at[k + 1] - 1)]

FieldsOf(p) == Pieces(p, {i \in 1..Len(p) : p[i] = "c" /\ Outside(p, i)})

\* What csv_core says of a line: one complete record, whose fields fit.
CsvVerdict(p) == IF Outside(p, Len(p) + 1) /\ Len(FieldsOf(p)) <= MaxCsvFields THEN "record" ELSE "wrong"

\* What serde_json says of a document: complete, cut short, or wrong.
JsonVerdict(s) == CASE s = <<"{", "}">> -> "document"
                    [] s = <<"{">> -> "eof"
                    [] OTHER -> "wrong"

EnsurePendingLimit(d) ==
  IF Len(d.pending) > MaxRecordBytes THEN FailWith(d, "too large") ELSE d

\* Mutant: the scan position survives the record it belongs to.
EmitKeepsScan(d, end, consumed) ==
  CASE end > MaxRecordBytes -> FailWith(d, "too large")
    [] ~ ValidUtf8(SubSeq(d.pending, 1, end)) -> FailWith(d, "encoding")
    [] OTHER -> [d EXCEPT !.ready = NewRecord(SubSeq(d.pending, 1, end), SubSeq(d.pending, end + 1, consumed)),
                          !.pending = SubSeq(d.pending, consumed + 1, Len(d.pending))]

\* emit: the first `end` bytes are the payload, the ones up to `consumed` its ending.
Emit(d, end, consumed) ==
  CASE end > MaxRecordBytes -> FailWith(d, "too large")
    [] ~ ValidUtf8(SubSeq(d.pending, 1, end)) -> FailWith(d, "encoding")
    [] OTHER -> [d EXCEPT !.ready = NewRecord(SubSeq(d.pending, 1, end), SubSeq(d.pending, end + 1, consumed)),
                          !.pending = SubSeq(d.pending, consumed + 1, Len(d.pending)), !.scan = 0]

EmitFinal(d) ==
  IF ~ ValidUtf8(d.pending) THEN FailWith(d, "encoding")
  ELSE [d EXCEPT !.ready = NewRecord(d.pending, <<>>), !.pending = <<>>,
                 !.seen = TRUE, !.complete = TRUE, !.scan = 0]

PrepareLine(d, eof) ==
  LET ends == {i \in (d.scan + 1)..Len(d.pending) : d.pending[i] = "n"}
      end == CHOOSE i \in ends : \A j \in ends : i <= j
      held == EnsurePendingLimit([d EXCEPT !.scan = Len(d.pending)])
  IN CASE ends # {} -> Emit(d, IF end > 1 /\ d.pending[end - 1] = "r" THEN end - 2 ELSE end - 1, end)
       [] ends = {} /\ (held.error # "none" \/ ~ eof) -> held
       [] ends = {} /\ held.error = "none" /\ eof ->
            IF d.pending # <<>> \/ ~ d.seen THEN EmitFinal(held) ELSE [held EXCEPT !.complete = TRUE]

PrepareJson(d, eof) ==
  LET held == EnsurePendingLimit(d)
  IN CASE held.error # "none" \/ ~ eof -> held
       [] held.error = "none" /\ eof /\ d.pending = <<>> -> [held EXCEPT !.complete = TRUE]
       [] OTHER -> IF JsonVerdict(d.pending) = "document" THEN EmitFinal(held) ELSE FailWith(held, "json")

\* csv_boundary: where a line that ends at this byte stops, 0 while the byte
\* after a CR decides it and has not arrived.
CsvBoundary(d, at, eof) ==
  CASE d.pending[at] = "n" -> at
    [] d.pending[at] = "r" /\ at < Len(d.pending) -> IF d.pending[at + 1] = "n" THEN at + 1 ELSE at
    [] OTHER -> IF eof THEN at ELSE 0

ResetCsv(d) == [d EXCEPT !.csv = "start", !.fields = 1, !.scan = 0]

\* validate_csv: the scanned line is parsed once more, as a whole.
ValidateCsv(d, end) == IF CsvVerdict(SubSeq(d.pending, 1, end)) = "record" THEN d ELSE FailWith(d, "csv")

EmitCsv(d, end, consumed) ==
  LET v == ValidateCsv(d, end)
      e == IF v.error = "none" THEN Emit(v, end, consumed) ELSE v
  IN IF e.error = "none" THEN ResetCsv(e) ELSE e

CsvByte(d, b) ==
  LET field == IF d.fields + 1 > MaxCsvFields THEN FailWith(d, "too many fields")
               ELSE [d EXCEPT !.fields = @ + 1, !.csv = "start"]
  IN CASE d.csv = "quoted" -> IF b = "q" THEN [d EXCEPT !.csv = "closed"] ELSE d
       [] d.csv # "quoted" /\ b = "c" -> field
       [] d.csv \in {"start", "closed"} /\ b = "q" -> [d EXCEPT !.csv = "quoted"]
       [] d.csv = "unquoted" /\ b = "q" -> FailWith(d, "quote")
       [] d.csv \in {"start", "unquoted"} /\ b \notin {"c", "q"} -> [d EXCEPT !.csv = "unquoted"]
       [] d.csv = "closed" /\ b \notin {"c", "q"} -> FailWith(d, "after quote")

\* The bytes are all scanned: hold them, or at the end make them the last record.
CsvHeld(d, eof) ==
  LET held == EnsurePendingLimit(d)
  IN CASE held.error # "none" \/ ~ eof -> held
       [] held.error = "none" /\ eof /\ d.csv = "quoted" -> FailWith(d, "unterminated")
       [] held.error = "none" /\ eof /\ d.csv # "quoted" ->
            IF d.pending = <<>> THEN [d EXCEPT !.complete = TRUE]
            ELSE LET v == ValidateCsv(d, Len(d.pending))
                 IN IF v.error = "none" THEN ResetCsv(EmitFinal(v)) ELSE v

\* One turn of the scanning loop: a line's end makes a record, unless the line
\* is empty; any other byte moves the field's state on.
CsvStep(loop, eof) ==
  LET d == loop.decoder
      at == d.scan + 1
      ends == d.csv # "quoted" /\ d.pending[at] \in LineEnds
      stop == CsvBoundary(d, at, eof)
      return(e) == [decoder |-> e, returned |-> TRUE]
  IN CASE loop.returned \/ d.error # "none" \/ d.scan >= Len(d.pending) -> loop
       [] OTHER ->
            CASE ends /\ stop = 0 -> return(CsvHeld(d, eof))
              [] ends /\ stop # 0 /\ at = 1 ->
                   [loop EXCEPT !.decoder = ResetCsv([d EXCEPT !.pending = SubSeq(@, stop + 1, Len(@))])]
              [] ends /\ stop # 0 /\ at > 1 -> return(EmitCsv(d, at - 1, stop))
              [] ~ ends -> [loop EXCEPT !.decoder = [CsvByte(d, d.pending[at]) EXCEPT !.scan = at]]

\* Every turn takes a byte, so there are no more turns than bytes.
PrepareCsv(d, eof) ==
  LET after[n \in 0 .. Len(d.pending)] ==
        IF n = 0 THEN [decoder |-> d, returned |-> FALSE] ELSE CsvStep(after[n - 1], eof)
      last == after[Len(d.pending)]
  IN IF last.returned \/ last.decoder.error # "none" THEN last.decoder ELSE CsvHeld(last.decoder, eof)

PrepareNext(d, eof) ==
  CASE d.ready # NoRecord \/ d.complete -> d
    [] d.ready = NoRecord /\ ~ d.complete /\ text.format = "csv" -> PrepareCsv(d, eof)
    [] d.ready = NoRecord /\ ~ d.complete /\ text.format = "json" -> PrepareJson(d, eof)
    [] OTHER -> PrepareLine(d, eof)

After(d, next) == IF d.error = "none" THEN next ELSE "refused"

\* push: a frame, no longer than the limit, of what is left of the source.
PushFrame ==
  /\ decoding = "push" /\ unread # <<>>
  /\ \E n \in 1..Len(unread) :
       LET d == IF n > MaxFrameBytes THEN FailWith(decoder, "frame")
                ELSE PrepareNext([decoder EXCEPT !.seen = TRUE, !.pending = @ \o SubSeq(unread, 1, n)], FALSE)
       IN /\ unread' = SubSeq(unread, n + 1, Len(unread))
          /\ decoder' = d
          /\ decoding' = After(d, "drain")
  /\ UNCHANGED <<text, decoded>>

\* next_record: prepares one when none is ready, and hands it over.
NextRecord ==
  /\ decoding \in {"drain", "drain last"}
  /\ LET d == IF decoder.ready = NoRecord THEN PrepareNext(decoder, decoder.finished) ELSE decoder
     IN IF d.error = "none" /\ d.ready # NoRecord
        THEN /\ decoded' = Append(decoded, d.ready)
             /\ decoder' = [d EXCEPT !.ready = NoRecord, !.emitted = @ + 1]
             /\ UNCHANGED decoding
        ELSE /\ decoder' = d
             /\ decoding' = After(d, IF decoding = "drain" THEN "push" ELSE "accepted")
             /\ UNCHANGED decoded
  /\ UNCHANGED <<text, unread>>

\* end_of_segment: at the end of a part, a complete document is a record.
EndOfSegment ==
  /\ decoding = "push" /\ text.format = "json" /\ decoder.pending # <<>>
  /\ decoder' = CASE JsonVerdict(decoder.pending) = "document" ->
                       [decoder EXCEPT !.ready = NewRecord(decoder.pending, <<>>),
                                       !.pending = <<>>, !.seen = TRUE, !.scan = 0]
                  [] JsonVerdict(decoder.pending) = "eof" -> decoder
                  [] OTHER -> FailWith(decoder, "json")
  /\ decoding' = After(decoder', "drain")
  /\ UNCHANGED <<text, unread, decoded>>

FinishDecoder ==
  /\ decoding = "push" /\ unread = <<>>
  /\ LET d == PrepareNext([decoder EXCEPT !.finished = TRUE], TRUE)
         e == IF text.format = "csv" /\ d.error = "none" /\ d.ready = NoRecord /\ d.emitted = 0
              THEN FailWith(d, "no records") ELSE d
     IN decoder' = e /\ decoding' = After(e, "drain last")
  /\ UNCHANGED <<text, unread, decoded>>

RecordNext == PushFrame \/ NextRecord \/ EndOfSegment \/ FinishDecoder
RecordSpec == RecordInit /\ [][RecordNext]_decoderVars

-----------------------------------------------------------------------------

(* What the records of a source are, read from the whole of it. *)
Chopped(s) == IF s # <<>> /\ Last(s) = "r" THEN Front(s) ELSE s

LinesOf(s) ==
  LET all == Pieces(s, {i \in 1..Len(s) : s[i] = "n"})
      ended == [k \in 1..(Len(all) - 1) |-> Chopped(all[k])]
  IN IF s # <<>> /\ Last(all) = <<>> THEN ended ELSE Append(ended, Last(all))

CsvRecordsOf(s) ==
  SelectSeq(Pieces(s, {i \in 1..Len(s) : s[i] \in LineEnds /\ Outside(s, i)}), LAMBDA p : p # <<>>)

\* No quote, or a quoted field whose inner quotes come in pairs.
WellQuoted(f) ==
  LET g == SubSeq(f, 2, Len(f) - 1)
  IN \/ "q" \notin Range(f)
     \/ /\ Len(f) > 1 /\ f[1] = "q" /\ Last(f) = "q"
        /\ \A i \in 1..(Len(g) + 1) : (i <= Len(g) => g[i] # "q") => Outside(g, i)

RecordsOf(t) ==
  CASE t.format = "csv" -> CsvRecordsOf(t.bytes)
    [] t.format = "json" -> IF t.bytes = <<>> THEN <<>> ELSE <<t.bytes>>
    [] OTHER -> LinesOf(t.bytes)

Sound(t) ==
  LET rs == RecordsOf(t)
  IN /\ \A k \in DOMAIN rs : ValidUtf8(rs[k])
     /\ t.format = "csv" =>
          /\ rs # <<>>
          /\ \A k \in DOMAIN rs :
               /\ Len(FieldsOf(rs[k])) <= MaxCsvFields
               /\ \A j \in DOMAIN FieldsOf(rs[k]) : WellQuoted(FieldsOf(rs[k])[j])
     /\ t.format = "json" => \A k \in DOMAIN rs : JsonVerdict(rs[k]) = "document"

LongerThan(t, n) == \E k \in DOMAIN RecordsOf(t) : Len(RecordsOf(t)[k]) > n
Payloads(rs) == [k \in DOMAIN rs |-> rs[k].payload]

\* Documents that end with their part are records of their own.
Segmented == text.format = "json" /\ Len(decoded) # 1

(* However a source is cut into frames, a decoding that ends well has produced
   exactly the records of the whole source, and for every format but CSV (which
   skips empty lines) their bytes are the source's; only a source that is
   malformed, or that has a record as long as the limit, is refused. *)
RecordsAsWhole ==
  /\ decoding = "accepted" =>
       /\ ~ Segmented => Sound(text) /\ Payloads(decoded) = RecordsOf(text)
       /\ text.format # "csv" =>
            FlattenSeq([k \in DOMAIN decoded |-> decoded[k].payload \o decoded[k].separator]) = text.bytes
       /\ text.format = "json" => \A k \in DOMAIN decoded : JsonVerdict(decoded[k].payload) = "document"
       /\ ~ LongerThan(text, MaxRecordBytes) \/ Segmented
  /\ decoding = "refused" /\ decoder.error # "frame" =>
       ~ Sound(text) \/ LongerThan(text, MaxRecordBytes - 1)

(* Every chunk split of the same input produces the same result: a source whose
   records are within the limit is accepted wherever it is cut. *)
SplitIndependent ==
  decoding = "refused" /\ decoder.error # "frame" => ~ Sound(text) \/ LongerThan(text, MaxRecordBytes)
=============================================================================
