------------------------------ MODULE FastCGI -------------------------------
(***************************************************************************)
(* fastcgi.c over bufferio.c, and fcgi_proc of main.c: one connection of a *)
(* web server, on which requests are read and answered.                    *)
(*                                                                         *)
(* Bytes are tokens and lengths are scaled: a header is two tokens (type   *)
(* and sizes; the version is right exactly in a type token), the body of   *)
(* FCGI_BEGIN_REQUEST two (role and flags), records are padded to a        *)
(* multiple of two (the code: 8).  A content token is a number, in         *)
(* FCGI_PARAMS a length or a character.  `at` is the place in the code     *)
(* that has control.                                                       *)
(*                                                                         *)
(* fcgi_read_request uses two variables before it assigns them: `buffer`   *)
(* and `request` start as whatever the stack holds, a null pointer or a    *)
(* wild one, and what a wild one leads to is the place "undefined".        *)
(* Memory does not run out here.                                           *)
(***************************************************************************)
EXTENDS BufferIO, SequencesExt

CONSTANTS Requests,             \* requests the web server may send
          Responses,            \* lengths of headers and of data of a response
          MaxContent,           \* the longest record written, 65535 in the code
          MaxRequests           \* bound: requests on one connection

ASSUME ResponseAssumption == Responses \subseteq Nat \X Nat

FCGI_BEGIN_REQUEST == 1
FCGI_END_REQUEST   == 3
FCGI_PARAMS        == 4
FCGI_STDIN         == 5
FCGI_STDOUT        == 6

HeaderLen == 2
BeginLen  == 2
Align     == 2

\* A record holds at least the body of FCGI_END_REQUEST.
ASSUME ContentAssumption == MaxContent \in Nat /\ MaxContent >= BeginLen /\ MaxRequests \in Nat

Token          == [k : {"byte", "type", "size"}, a : Int, b : Int]
Byte(c)        == [k |-> "byte", a |-> c, b |-> 0]
Type(t)        == [k |-> "type", a |-> t, b |-> 0]
Size(len, pad) == [k |-> "size", a |-> len, b |-> pad]
Junk           == <<Byte(-1), Byte(-1)>>
Padding(len)   == (Align - (len % Align)) % Align
Pads(n)        == [i \in 1 .. n |-> Byte(0)]
Bytes(s)       == [i \in 1 .. Len(s) |-> Byte(s[i])]

VARIABLES at,
          hdr,                  \* fcgi_hdr, as two tokens
          alloc, buffer,        \* whether buffer was assigned, its content
          request,              \* the request read, `got` says how the call ended
          rsp, length, pbuf, offset, pksz, pad,   \* locals of fcgi_write_response
          sent, stream, served, \* the web server's request, all its bytes, how many
          answered              \* it has the answer to its last request

request_vars  == <<hdr, alloc, buffer, request>>
response_vars == <<rsp, length, pbuf, offset, pksz, pad>>
server_vars   == <<sent, stream, served, answered>>
vars == <<bio_vars, at, request_vars, response_vars, server_vars>>

NoRequest == [got |-> "nothing", params |-> {}, data |-> <<>>, keep |-> FALSE]
NoParams  == [keep |-> FALSE, params |-> <<>>, ends |-> <<>>, body |-> <<>>]

Init == /\ ef_bio_new
        /\ at = "read"
        /\ hdr = Junk /\ alloc = FALSE /\ buffer = <<>> /\ request = NoRequest
        /\ rsp = <<<<>>, <<>>>> /\ length = 0 /\ pbuf = 1 /\ offset = 0 /\ pksz = 0 /\ pad = 0
        /\ sent = NoParams /\ stream = <<>> /\ served = 0 /\ answered = TRUE
-----------------------------------------------------------------------------
(* The web server *)

\* A record of the protocol, padded.
Record(type, content) ==
    <<Type(type), Size(Len(content), Padding(Len(content)))>> \o content \o Pads(Padding(Len(content)))

\* The names and values of `params` one after the other, each pair preceded
\* by its lengths.
EncodedPair(pair) == <<Len(pair[1]), Len(pair[2])>> \o pair[1] \o pair[2]
Encoded(params)   == FlattenSeq([i \in DOMAIN params |-> EncodedPair(params[i])])

\* `content` in records that end at the bytes `ends`, and an empty one.
Chunk(content, ends, i) ==
    SubSeq(content, (IF i = 1 THEN 0 ELSE ends[i - 1]) + 1, ends[i])
Chunks(type, content, ends) ==
    FlattenSeq([i \in DOMAIN ends |-> Record(type, Chunk(content, ends, i))]) \o Record(type, <<>>)

RequestBytes(r) ==
    Record(FCGI_BEGIN_REQUEST, <<Byte(1), Byte(IF r.keep THEN 1 ELSE 0)>>)
    \o Chunks(FCGI_PARAMS, Bytes(Encoded(r.params)), r.ends)
    \o Chunks(FCGI_STDIN, Bytes(r.body), IF r.body = <<>> THEN <<>> ELSE <<Len(r.body)>>)

\* The places at which n bytes are cut into records, none of them empty.
Cut(n, ends) == /\ \A i \in DOMAIN ends : ends[i] \in 1 .. n
                /\ \A i \in 2 .. Len(ends) : ends[i - 1] < ends[i]
                /\ n > 0 => ends # <<>> /\ ends[Len(ends)] = n

ASSUME RequestAssumption ==
    \A r \in Requests : /\ r \in [keep : BOOLEAN, params : Seq(Seq(Nat) \X Seq(Nat)),
                                  ends : Seq(Nat), body : Seq(Nat)]
                        /\ Cut(Len(Encoded(r.params)), r.ends)

\* A request is sent when the previous one is answered, on a connection the
\* server keeps; what was answered is taken off the wire.
SendRequest ==
    /\ peer = "open" /\ served < MaxRequests /\ answered
    /\ served > 0 => sent.keep
    /\ \E r \in Requests : /\ sent' = r
                           /\ stream' = stream \o RequestBytes(r)
                           /\ inp' = inp \o RequestBytes(r)
    /\ served' = served + 1 /\ answered' = FALSE
    /\ outp' = <<>>
    /\ UNCHANGED <<peer, reader_vars, writer_vars, at, request_vars, response_vars>>

\* The server closes the connection, or it breaks: what had not arrived never
\* will, and after a reset what had arrived is lost with it.
Hangup(how) == /\ peer = "open"
               /\ peer' = how
               /\ inp' = <<>>
               /\ stream' = Take(stream, Len(stream) - Len(inp))
               /\ UNCHANGED <<outp, reader_vars, writer_vars, at, request_vars, response_vars,
                              sent, served, answered>>
-----------------------------------------------------------------------------
(* fcgi_read_request *)

\* A new reader; fcgi_hdr keeps what the last call left in its stack frame.
fcgi_read_request ==
    /\ at = "read"
    /\ at' = "begin"
    /\ rbuf' = <<>>
    /\ alloc' = FALSE /\ buffer' = <<>> /\ request' = NoRequest
    /\ UNCHANGED <<hdr, conn_vars, rd, reads, writer_vars, response_vars, server_vars>>

\* The next call of ef_bio_read or ef_bio_reader_skip.
Ask == /\ \/ at \in {"begin", "params", "stdin"} /\ ef_bio_read(HeaderLen)
          \/ at = "begin_body" /\ ef_bio_read(BeginLen)
          \/ at \in {"params_body", "stdin_body"} /\ ef_bio_read(hdr[2].a)
          \/ at = "params_skip" /\ ef_bio_reader_skip(hdr[2].b)
       /\ UNCHANGED <<at, request_vars, response_vars, server_vars>>

\* A step that takes the result of the call.
Got(place) == /\ at = place /\ reads.done
              /\ reads' = NoResult
              /\ UNCHANGED <<conn_vars, rbuf, rd, writer_vars, response_vars, server_vars>>

\* `reads < size` for a size_t: an error counts as a very long read.
Short(size) == reads.n >= 0 /\ reads.n < size

\* What a read leaves in a structure: the bytes it brought over the old ones.
Overlay(old) == [i \in DOMAIN old |-> IF i <= Len(reads.data) THEN reads.data[i] ELSE old[i]]

\* exit_read before request is assigned: null or wild, whatever it was.
ReturnsUnset == \/ at' = "returned" /\ request' = [NoRequest EXCEPT !.got = "null"]
                \/ at' = "undefined" /\ UNCHANGED request

\* exit_request: the request is freed, its reader with what it holds.
ExitRequest == at' = "returned" /\ request' = [NoRequest EXCEPT !.got = "null"]

GotBegin ==
    /\ Got("begin")
    /\ hdr' = Overlay(hdr)
    /\ IF Short(HeaderLen) \/ hdr'[1] # Type(FCGI_BEGIN_REQUEST) \/ hdr'[2].a # BeginLen
       THEN ReturnsUnset
       ELSE at' = "begin_body" /\ UNCHANGED request
    /\ UNCHANGED <<alloc, buffer>>

GotBeginBody ==
    /\ Got("begin_body")
    /\ IF Short(BeginLen) THEN ReturnsUnset
       ELSE /\ at' = "params"
            /\ request' = [NoRequest EXCEPT !.got = "some", !.keep = Overlay(Junk)[2].a = 1]
    /\ UNCHANGED <<hdr, alloc, buffer>>

\* Pairs of a name and a value, their lengths in front; <<>> where the lengths
\* lead past the end, which the code does not check.  (Names are distinct.)
fcgi_parse_params(data) ==
    LET Parse[i \in 1 .. Len(data) + 1] ==
          IF i > Len(data) THEN {}
          ELSE IF i = Len(data) THEN {<<>>}
          ELSE LET name  == i + 2
                   value == name + data[i]
                   next  == value + data[i + 1]
               IN  IF next > Len(data) + 1 THEN {<<>>}
                   ELSE {<<SubSeq(data, name, value - 1), SubSeq(data, value, next - 1)>>}
                        \cup Parse[next]
    IN  Parse[1]

IsRecord(h, type) == h[1] = Type(type) /\ h[2].a > 0

\* The header of the next FCGI_PARAMS record, or of the record after them.
GotParams ==
    /\ Got("params")
    /\ hdr' = Overlay(hdr)
    /\ IF Short(HeaderLen) THEN ExitRequest /\ UNCHANGED <<alloc, buffer>>
       ELSE \/ alloc /\ UNCHANGED <<alloc, buffer>>
               /\ IF IsRecord(hdr', FCGI_PARAMS) THEN at' = "params_body" /\ UNCHANGED request
                  ELSE /\ at' = "stdin"
                       /\ request' = [request EXCEPT !.params =
                                        fcgi_parse_params([i \in DOMAIN buffer |-> buffer[i].a])]
            \/ ~alloc /\ UNCHANGED <<buffer, request>>
               /\ IF IsRecord(hdr', FCGI_PARAMS) THEN at' = "params_body" /\ alloc' = TRUE
                  ELSE at' = "stdin" /\ UNCHANGED alloc
            \/ ~alloc /\ at' = "undefined" /\ UNCHANGED <<alloc, buffer, request>>

\* Mutant: a record overwrites the one before it.
BodyOverwrites ==
    /\ Got("params_body")
    /\ buffer' = reads.data
    /\ IF Short(hdr[2].a) THEN ExitRequest
       ELSE at' = (IF hdr[2].b > 0 THEN "params_skip" ELSE "params") /\ UNCHANGED request
    /\ UNCHANGED <<hdr, alloc>>

\* The content is added to the buffer.  An error takes one byte away, and
\* since it counts as long enough the loop goes on with the same header.
GotParamsBody ==
    /\ Got("params_body")
    /\ buffer' = IF reads.n >= 0 THEN buffer \o Take(reads.data, reads.n)
                 ELSE Take(buffer, Len(buffer) - 1)
    /\ IF Short(hdr[2].a) THEN ExitRequest
       ELSE at' = (IF hdr[2].b > 0 THEN "params_skip" ELSE "params") /\ UNCHANGED request
    /\ UNCHANGED <<hdr, alloc>>

GotSkipped == /\ Got("params_skip")
              /\ at' = "params"
              /\ UNCHANGED request_vars

\* The loop for the post data goes on while the record is a begin record.
GotStdin ==
    /\ Got("stdin")
    /\ hdr' = Overlay(hdr)
    /\ IF Short(HeaderLen) THEN ExitRequest
       ELSE /\ at' = IF IsRecord(hdr', FCGI_BEGIN_REQUEST) THEN "stdin_body" ELSE "returned"
            /\ UNCHANGED request
    /\ UNCHANGED <<alloc, buffer>>

\* data->len becomes the length of this record.  (Padding is not reached: the
\* begin record has none.)
GotStdinBody ==
    /\ Got("stdin_body")
    /\ IF Short(hdr[2].a) THEN ExitRequest
       ELSE /\ at' = "stdin"
            /\ request' = IF reads.n < 0 THEN request
                          ELSE [request EXCEPT !.data = Take(@ \o reads.data, reads.n)]
    /\ UNCHANGED <<hdr, alloc, buffer>>
-----------------------------------------------------------------------------
(* fcgi_proc and fcgi_write_response *)

\* The response has any of the lengths in Responses, its bytes numbered.
fcgi_new_response ==
    /\ at = "returned"
    /\ IF request.got = "some"
       THEN /\ \E n \in Responses :
                 /\ rsp' = <<Bytes([i \in 1 .. n[1] |-> i]), Bytes([i \in 1 .. n[2] |-> n[1] + i])>>
                 /\ length' = n[1] + n[2]
            /\ pbuf' = 1 /\ offset' = 0
            /\ at' = "record"
       ELSE at' = "closed" /\ UNCHANGED <<rsp, length, pbuf, offset>>
    /\ wbuf' = <<>> /\ wr' = NoWrite
    /\ UNCHANGED <<pksz, pad, conn_vars, reader_vars, request_vars, server_vars>>

\* A call of the writer while it writes nothing, and what is done after it.
Put(place, data) == /\ at = place
                    /\ ef_bio_write(data)
                    /\ UNCHANGED <<rsp, request_vars, server_vars>>

PaddingLength(n) == (Align - (n % Align)) % Align

\* The header of the next record, or of the one that ends the request.
PutHeader ==
    \/ /\ length > 0
       /\ pksz' = Least(length, MaxContent)
       /\ length' = length - pksz'
       /\ pad' = PaddingLength(pksz')
       /\ Put("record", <<Type(FCGI_STDOUT), Size(pksz', pad')>>)
       /\ at' = "copy"
       /\ UNCHANGED <<pbuf, offset>>
    \/ /\ length = 0
       /\ Put("record", <<Type(FCGI_END_REQUEST), Size(BeginLen, 0)>>)
       /\ at' = "end"
       /\ UNCHANGED <<length, pbuf, offset, pksz, pad>>

\* Mutant: the offset into the headers is kept for the data.
NextKeepsOffset(wtsz) ==
    pbuf' = (IF offset + wtsz = Len(rsp[pbuf]) THEN pbuf + 1 ELSE pbuf) /\ offset' = offset + wtsz

NextBuffer(wtsz) ==
    IF offset + wtsz = Len(rsp[pbuf]) THEN pbuf' = pbuf + 1 /\ offset' = 0
    ELSE pbuf' = pbuf /\ offset' = offset + wtsz

\* As much of the record as the headers, or the data, still hold.  (The way out
\* of the loop when there is no buffer left is never taken: RecordsFilled.)
PutContent ==
    /\ pbuf <= 2
    /\ LET wtsz == Least(Len(rsp[pbuf]) - offset, pksz)
       IN  /\ Put("copy", SubSeq(rsp[pbuf], offset + 1, offset + wtsz))
           /\ NextBuffer(wtsz)
           /\ pksz' = pksz - wtsz
    /\ at' = IF pksz' > 0 THEN "copy" ELSE IF pad > 0 THEN "pad" ELSE "record"
    /\ UNCHANGED <<length, pad>>

PutPadding == /\ Put("pad", Pads(pad))
              /\ at' = "record"
              /\ UNCHANGED <<length, pbuf, offset, pksz, pad>>

PutEnd == /\ Put("end", <<Byte(0), Byte(0)>>)
          /\ at' = "flush"
          /\ UNCHANGED <<length, pbuf, offset, pksz, pad>>

Flush == /\ at = "flush"
         /\ ef_bio_writer_flush
         /\ at' = "answered"
         /\ UNCHANGED <<request_vars, response_vars, server_vars>>

\* The writer is freed; the next request is read if the server asked for it.
Answered == /\ at = "answered" /\ wr = NoWrite
            /\ at' = IF request.keep THEN "read" ELSE "closed"
            /\ wbuf' = <<>>
            /\ answered' = TRUE
            /\ UNCHANGED <<wr, conn_vars, reader_vars, request_vars, response_vars,
                           sent, stream, served>>

Transfer == /\ ef_safe_read \/ ef_safe_write
            /\ UNCHANGED <<at, request_vars, response_vars, server_vars>>

fcgi_proc == \/ fcgi_read_request \/ Ask \/ Transfer
             \/ GotBegin \/ GotBeginBody \/ GotParams \/ GotParamsBody \/ GotSkipped
             \/ GotStdin \/ GotStdinBody
             \/ fcgi_new_response \/ PutHeader \/ PutContent \/ PutPadding \/ PutEnd
             \/ Flush \/ Answered

\* The procedure has returned, or anything goes.
Finished == at \in {"closed", "undefined"} /\ UNCHANGED vars

Next == \/ SendRequest \/ Hangup("eof") \/ Hangup("reset")
        \/ fcgi_proc
        \/ Finished

Spec == Init /\ [][Next]_vars /\ WF_vars(fcgi_proc)
-----------------------------------------------------------------------------
(* Properties *)

Places == {"read", "begin", "begin_body", "params", "params_body", "params_skip", "stdin",
           "stdin_body", "returned", "record", "copy", "pad", "end", "flush", "answered",
           "closed", "undefined"}

\* What the reader, the writer and the locals range over: above all neither
\* buffer is ever filled beyond its capacity.
TypeOK == /\ at \in Places
          /\ peer \in {"open", "eof", "reset"}
          /\ Len(rbuf) <= BufSize /\ Len(wbuf) <= BufSize
          /\ rd.op \in {"none", "refill", "direct", "skip"} /\ Len(rd.got) <= rd.cap
          /\ wr.op \in {"none", "flush", "direct"} /\ wr.op = "flush" => wr.rest # <<>>
          /\ request.got \in {"nothing", "null", "some"}
          /\ pbuf \in 1 .. 3 /\ pksz \in 0 .. MaxContent /\ length \in Nat

\* What the reader holds: of a call under way or just done, then in its buffer.
Held == (IF reads.done THEN reads.data ELSE rd.head \o rd.got) \o rbuf

\* The reader loses no byte, repeats none and changes no order: what it holds,
\* then what is still to be read, are the last bytes the server sent, however
\* the stream was cut by reads into the buffer, past it, and skips.
BytesInOrder ==
    reads.n >= 0 =>
        LET rest == Held \o inp
        IN  rest = Drop(stream, Len(stream) - Len(rest))

\* What of the headers and the data is not written yet.
Left == IF pbuf = 1 THEN Len(rsp[1]) - offset + Len(rsp[2])
        ELSE IF pbuf = 2 THEN Len(rsp[2]) - offset ELSE 0

\* Every record gets all the content its header announces, wherever it passes
\* from the headers to the data: the buffers hold what is still to be announced
\* and what is missing in this record, and nothing when the request is ended.
RecordsFilled == /\ at \in {"record", "copy", "pad"} =>
                      Left = length + (IF at = "copy" THEN pksz ELSE 0)
                 /\ at = "copy" => pbuf <= 2 /\ pksz > 0
                 /\ at = "end" => Left = 0

Pairs(params) == {params[i] : i \in DOMAIN params}

\* A request handed to the procedure has exactly the parameters the server sent
\* for it, and its wish to keep the connection, also when pairs are cut by
\* records, records by reads, a read is short or fails, and on a connection that
\* carries a second request.
RequestAsSent ==
    at = "returned" /\ request.got = "some" =>
        request.params = Pairs(sent.params) /\ request.keep = sent.keep

\* The record whose header is at i in w: its content, as much as has arrived,
\* whether it is whole and its sizes fit; and where the one after it begins.
NextRecord(w, i) == i + 2 + w[i + 1].a + w[i + 1].b
Arrived(w, i) ==
    LET len == w[i + 1].a
    IN  [type    |-> w[i].a,
         content |-> SubSeq(w, i + 2, Least(i + 1 + len, Len(w))),
         whole   |-> NextRecord(w, i) <= Len(w) + 1,
         fits    |-> /\ len <= MaxContent
                     /\ w[i + 1].b < Align /\ (len + w[i + 1].b) % Align = 0]
NotARecord == [type |-> -1, content |-> <<>>, whole |-> FALSE, fits |-> FALSE]

\* The records in w, as their reader takes them.
Records(w) ==
    LET From[i \in 1 .. Len(w) + 1] ==
          IF i >= Len(w) THEN <<>>
          ELSE IF w[i].k # "type" \/ w[i + 1].k # "size" THEN <<NotARecord>>
          ELSE <<Arrived(w, i)>> \o From[Least(NextRecord(w, i), Len(w) + 1)]
    IN  From[1]

Content(rs) == LET Upto[i \in 0 .. Len(rs)] ==
                     IF i = 0 THEN <<>>
                     ELSE Upto[i - 1] \o (IF rs[i].type = FCGI_STDOUT THEN rs[i].content ELSE <<>>)
               IN  Upto[Len(rs)]

\* At every moment the server has received a beginning of the response: STDOUT
\* records of legal length and padding whose contents are the headers and then
\* the data, and FCGI_END_REQUEST last, only after all of it; and all of it
\* once the answer is written, if the connection has not broken.  It holds for
\* short writes and for every split between headers, data, records and buffer.
ResponseAsBuilt ==
    LET rs      == Records(outp)
        payload == rsp[1] \o rsp[2]
        content == Content(rs)
        complete == /\ content = payload /\ rs # <<>>
                    /\ rs[Len(rs)].type = FCGI_END_REQUEST /\ rs[Len(rs)].whole
    IN  /\ \A i \in DOMAIN rs : /\ rs[i].type \in {FCGI_STDOUT, FCGI_END_REQUEST}
                                /\ rs[i].fits
                                /\ i < Len(rs) => rs[i].type = FCGI_STDOUT /\ rs[i].whole
                                /\ rs[i].type = FCGI_END_REQUEST => content = payload
        /\ content = Take(payload, Len(content))
        /\ at = "answered" /\ wr = NoWrite /\ peer # "reset" => complete

Reading == at \in {"begin_body", "params", "params_body", "params_skip", "stdin", "stdin_body"}

\* A call that has seen the begin record comes to an end, unless the connection
\* breaks, or ends inside of padding: then the code reads on for ever.
Returns == Reading ~> \/ ~Reading \/ peer = "reset"
                      \/ peer = "eof" /\ rd.op = "skip"
=============================================================================
