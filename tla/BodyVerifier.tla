---------------------------- MODULE BodyVerifier ----------------------------
(* The incremental verifier of a request's body: the payload mode the signed
   headers select, the aws-chunked framing with its chain of chunk signatures,
   the declared length, and the checksum of a header or a trailer.

   A client signs a payload in chunks; what arrives may have lost, repeated or
   changed a run of tokens, and is pushed in frames cut anywhere.  A token is
   the text of a line, a byte of data or half of a line ending.  Hashes and
   signatures are terms: the checksum of a payload is the payload, a chunk's
   signature is the chunks it follows with its own data, and nothing but the
   client makes one. *)
EXTENDS Naturals, Sequences, SequencesExt, FiniteSets

CONSTANTS
  Chunkings,    \* payloads, as the client cuts them into chunks
  FrameSizes,
  MaxChunks     \* MAX_CHUNKS

VARIABLES
  body,       \* the client's request: its headers and the payload it signed
  arriving,   \* the tokens that have not been pushed yet
  verifier,   \* BodyVerifier
  verdict     \* what the gateway makes of the body

bodyVars == <<body, arriving, verifier, verdict>>

Modes == {"unsigned", "sha256", "signed", "signed trailer", "unsigned trailer"}
ChunkedModes == {"signed", "signed trailer", "unsigned trailer"}
TrailerModes == {"signed trailer", "unsigned trailer"}
SignedModes == {"signed", "signed trailer"}

Token(kind, value, sig) == [kind |-> kind, value |-> value, sig |-> sig]
CR == Token("CR", 0, <<>>)
LF == Token("LF", 0, <<>>)
CRLF == <<CR, LF>>
Byte(b) == Token("byte", b, <<>>)
NoSignature == <<<<0>>>>   \* no client sends the byte 0
NoChecksum == <<0>>

\* hmac_hex over the string to sign: the previous signature and the data.
Signature(previous, data) == Append(previous, data)
Seed == <<>>

(* What the client sends. *)
ChunkTokens(mode, chunks, k) ==
  LET data == IF k > Len(chunks) THEN <<>> ELSE chunks[k]
      sig == IF mode \in SignedModes THEN SubSeq(chunks, 1, k - 1) \o <<data>> ELSE NoSignature
  IN <<Token("size", Len(data), sig)>> \o CRLF
     \o (IF data = <<>> THEN <<>> ELSE [i \in DOMAIN data |-> Byte(data[i])] \o CRLF)

TrailerTokens(mode, chunks) ==
  IF mode \notin TrailerModes THEN <<>>
  ELSE <<Token("checksum", FlattenSeq(chunks), <<>>)>> \o CRLF
       \o (IF mode = "signed trailer"
           THEN <<Token("trailer signature", 0, chunks \o <<<<>>, FlattenSeq(chunks)>>)>> \o CRLF
           ELSE <<>>)

Wire(mode, chunks) ==
  IF mode \notin ChunkedModes
  THEN [i \in 1..Len(FlattenSeq(chunks)) |-> Byte(FlattenSeq(chunks)[i])]
  ELSE FlattenSeq([k \in 1..(Len(chunks) + 1) |-> ChunkTokens(mode, chunks, k)])
       \o TrailerTokens(mode, chunks) \o CRLF

\* What may arrive in its place.
Lost(w, i, j) == SubSeq(w, 1, i - 1) \o SubSeq(w, j + 1, Len(w))
Repeated(w, i, j) == SubSeq(w, 1, j) \o SubSeq(w, i, Len(w))
Changed(w, i) ==
  {[w EXCEPT ![i].value = v] : v \in IF w[i].kind = "byte" THEN {1, 2}
                                     ELSE IF w[i].kind = "size" THEN 0..3 ELSE {w[i].value}}
Arrivals(w) ==
  {w} \cup UNION {{Lost(w, i, j), Repeated(w, i, j)} : i \in DOMAIN w, j \in DOMAIN w}
      \cup UNION {Changed(w, i) : i \in DOMAIN w}

NewVerifier ==
  [state |-> "header", line |-> <<>>, remaining |-> 0, chunk |-> <<>>, expected |-> NoSignature,
   previous |-> Seed, length |-> 0, chunks |-> 0, checksum |-> NoChecksum, trailerSig |-> NoSignature,
   decoded |-> <<>>, error |-> "none"]

BodyInit ==
  /\ body \in {b \in [mode : Modes, tls : BOOLEAN, encoded : BOOLEAN, declared : BOOLEAN,
                      checksum : BOOLEAN, chunks : Chunkings, intact : {TRUE}] :
               b.encoded = b.declared \/ b.mode \in SignedModes}
  /\ arriving = <<>>
  /\ verifier = NewVerifier
  /\ verdict = "headers"

\* from_headers with checksum_from_headers: which headers a payload mode takes.
HeadersRefused(b) ==
  \/ b.checksum /\ b.declared
  \/ b.mode = "unsigned" /\ (~ b.tls \/ b.encoded \/ b.declared)
  \/ b.mode = "sha256" /\ (b.encoded \/ b.declared)
  \/ b.mode \in ChunkedModes /\ ~ b.encoded
  \/ b.mode = "signed" /\ b.declared
  \/ b.mode \in TrailerModes /\ ~ b.declared
  \/ b.mode = "unsigned trailer" /\ ~ b.tls

FromHeaders ==
  /\ verdict = "headers"
  /\ IF HeadersRefused(body) THEN verdict' = "headers refused" /\ UNCHANGED arriving
     ELSE verdict' = "reading" /\ arriving' \in Arrivals(Wire(body.mode, body.chunks))
  /\ body' = [body EXCEPT !.intact = verdict' = "reading" => arriving' = Wire(body.mode, body.chunks)]
  /\ UNCHANGED verifier

Payload == FlattenSeq(body.chunks)
Bad(d, e) == [d EXCEPT !.error = e]

\* Mutant: every chunk is verified against the seed signature.
VerifyChunkUnchained(d) ==
  CASE d.expected = NoSignature -> d
    [] d.expected = Signature(d.previous, d.chunk) -> [d EXCEPT !.expected = NoSignature]
    [] OTHER -> Bad(d, "signature")

\* verify_chunk_signature: against the signature the previous chunk left.
VerifyChunkSignature(d) ==
  CASE d.expected = NoSignature -> d
    [] d.expected = Signature(d.previous, d.chunk) ->
         [d EXCEPT !.previous = d.expected, !.expected = NoSignature]
    [] OTHER -> Bad(d, "signature")

\* start_chunk: the line of a chunk's header.
StartChunk(d, line) ==
  LET size == line[1].value
      started == [d EXCEPT !.chunks = @ + 1, !.remaining = size, !.chunk = <<>>, !.line = <<>>,
                           !.expected = line[1].sig]
  IN CASE Len(line) # 1 \/ line[1].kind # "size" -> Bad(d, "framing")
       [] Len(line) = 1 /\ line[1].kind = "size" /\ d.chunks + 1 > MaxChunks -> Bad(d, "oversized")
       [] Len(line) = 1 /\ line[1].kind = "size" /\ d.chunks < MaxChunks /\ size = 0 ->
            LET v == VerifyChunkSignature(started)
            IN [v EXCEPT !.state = IF body.mode = "signed" THEN "final CR" ELSE "trailers"]
       [] OTHER -> IF d.length + size > Len(Payload) THEN Bad(d, "length")
                   ELSE [started EXCEPT !.state = "data", !.length = @ + size]

\* parse_trailer: the declared checksum, then its signature.
ParseTrailer(d, line) ==
  CASE Len(line) # 1 \/ line[1].kind \notin {"checksum", "trailer signature"} -> Bad(d, "framing")
    [] Len(line) = 1 /\ line[1].kind = "trailer signature" ->
         IF d.trailerSig # NoSignature \/ d.checksum = NoChecksum THEN Bad(d, "duplicate trailer")
         ELSE [d EXCEPT !.trailerSig = line[1].sig, !.line = <<>>]
    [] OTHER -> IF d.checksum # NoChecksum THEN Bad(d, "duplicate trailer")
                ELSE [d EXCEPT !.checksum = line[1].value, !.line = <<>>]

VerifyTrailers(d) ==
  CASE d.checksum = NoChecksum -> Bad(d, "missing checksum")
    [] d.checksum # NoChecksum /\ body.mode = "signed trailer" ->
         IF d.trailerSig = Signature(d.previous, d.checksum)
         THEN [d EXCEPT !.state = "done", !.line = <<>>] ELSE Bad(d, "signature")
    [] OTHER -> IF d.trailerSig # NoSignature THEN Bad(d, "framing")
                ELSE [d EXCEPT !.state = "done", !.line = <<>>]

\* A line of the framing: a chunk's header, a trailer, or the end of the trailers.
UseLine(d, line) ==
  CASE d.state = "header" -> StartChunk(d, line)
    [] d.state = "trailers" /\ line # <<>> -> ParseTrailer(d, line)
    [] OTHER -> VerifyTrailers(d)

\* take_line: a line is complete when the buffer ends with CR LF.
TakeLine(d, t) ==
  LET held == Append(d.line, t)
  IN IF Len(held) > 1 /\ SubSeq(held, Len(held) - 1, Len(held)) = CRLF
     THEN UseLine(d, SubSeq(held, 1, Len(held) - 2))
     ELSE [d EXCEPT !.line = held]

HalfLine(d, t, half, next) == IF t = half THEN [d EXCEPT !.state = next] ELSE Bad(d, "framing")

\* AwsChunkedDecoder::push, one token at a time.
Decode(d, t) ==
  CASE d.error # "none" -> d
    [] d.error = "none" /\ d.state \in {"header", "trailers"} -> TakeLine(d, t)
    [] d.error = "none" /\ d.state = "data" ->
         LET b == IF t.kind = "byte" THEN t.value ELSE 0
             more == [d EXCEPT !.chunk = Append(@, b), !.decoded = Append(@, b),
                               !.remaining = @ - 1]
         IN IF more.remaining > 0 THEN more ELSE [VerifyChunkSignature(more) EXCEPT !.state = "data CR"]
    [] d.error = "none" /\ d.state = "data CR" -> HalfLine(d, t, CR, "data LF")
    [] d.error = "none" /\ d.state = "data LF" -> HalfLine(d, t, LF, "header")
    [] d.error = "none" /\ d.state = "final CR" -> HalfLine(d, t, CR, "final LF")
    [] d.error = "none" /\ d.state = "final LF" -> HalfLine(d, t, LF, "done")
    [] OTHER -> Bad(d, "trailing data")

\* push: nothing of a frame with an error in it is handed on.
Pushed(d, frame) ==
  IF body.mode \notin ChunkedModes
  THEN [d EXCEPT !.decoded = @ \o [i \in DOMAIN frame |-> frame[i].value]]
  ELSE LET e == FoldLeft(Decode, d, frame)
       IN IF e.error = "none" THEN e ELSE [e EXCEPT !.decoded = d.decoded]

PushBody ==
  /\ verdict = "reading" /\ arriving # <<>>
  /\ \E n \in FrameSizes :
       LET m == IF n < Len(arriving) THEN n ELSE Len(arriving)
           d == Pushed(verifier, SubSeq(arriving, 1, m))
       IN /\ verifier' = d
          /\ arriving' = SubSeq(arriving, m + 1, Len(arriving))
          /\ verdict' = IF d.error = "none" THEN "reading" ELSE "refused"
  /\ UNCHANGED body

\* finish: the framing is complete, the lengths agree, and so does the checksum
\* of the header (body.checksum) or of the trailer.
Finished(d) ==
  /\ body.mode = "sha256" => d.decoded = Payload
  /\ body.mode \in ChunkedModes => d.state = "done" /\ d.length = Len(Payload)
  /\ body.mode \in TrailerModes => d.checksum = d.decoded
  /\ body.checksum => d.decoded = Payload

FinishBody ==
  /\ verdict = "reading" /\ arriving = <<>>
  /\ verdict' = IF Finished(verifier) THEN "accepted" ELSE "refused"
  /\ UNCHANGED <<body, arriving, verifier>>

BodyNext == FromHeaders \/ PushBody \/ FinishBody
BodySpec == BodyInit /\ [][BodyNext]_bodyVars

-----------------------------------------------------------------------------

(* A body that is accepted is the one the client signed: whatever was lost,
   repeated or changed on the way, and however it was cut into frames, the
   decoded bytes are the client's payload, unless the client asked for neither a
   signature nor a checksum.  And what arrives as it was sent is accepted. *)
AcceptedAsSent ==
  /\ verdict = "accepted" => (body.mode = "unsigned" /\ ~ body.checksum) \/ verifier.decoded = Payload
  /\ verdict = "refused" => ~ body.intact
=============================================================================
