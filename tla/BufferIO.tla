------------------------------ MODULE BufferIO ------------------------------
(***************************************************************************)
(* structure/bufferio.c over structure/buffer.c: the buffered reader and   *)
(* writer of one connection.  A byte is a token; the peer decides how many *)
(* bytes a read returns and a write accepts, so data is cut anywhere.      *)
(*                                                                         *)
(* The reader's buffer is what lies between reader->offset and buffer->len: *)
(* the bytes before the offset are never looked at again.  A call that     *)
(* needs the descriptor leaves `rd` (or `wr`) behind, one turn of the loop *)
(* of ef_safe_read (ef_safe_write) is a step, and `reads` holds the        *)
(* result for the caller.  EINTR repeats the call and changes nothing.     *)
(***************************************************************************)
EXTENDS Integers, Sequences

CONSTANT BufSize                \* capacity of both buffers, 8192 in fastcgi.c

ASSUME BufAssumption == BufSize \in Nat \ {0}

VARIABLES peer,                 \* "open", "eof" (closed in order) or "reset"
          inp,                  \* bytes the peer sent that are not read yet
          outp,                 \* bytes the peer received
          rbuf,                 \* unread bytes of reader->buffer
          rd,                   \* the ef_bio_read or ef_bio_reader_skip under way
          reads,                \* the result of the last one
          wbuf,                 \* writer->buffer
          wr                    \* the ef_safe_write under way

conn_vars   == <<peer, inp, outp>>
reader_vars == <<rbuf, rd, reads>>
writer_vars == <<wbuf, wr>>
bio_vars    == <<conn_vars, reader_vars, writer_vars>>

NoRead  == [op |-> "none", head |-> <<>>, want |-> 0, cap |-> 0, got |-> <<>>]
NoWrite == [op |-> "none", rest |-> <<>>, data |-> <<>>]
NoResult == [done |-> FALSE, n |-> 0, data |-> <<>>]
Result(n, data) == [done |-> TRUE, n |-> n, data |-> data]

Take(s, n) == SubSeq(s, 1, n)
Drop(s, n) == SubSeq(s, n + 1, Len(s))
Least(a, b) == IF a < b THEN a ELSE b

ef_bio_new == /\ peer = "open" /\ inp = <<>> /\ outp = <<>>
              /\ rbuf = <<>> /\ rd = NoRead /\ reads = NoResult
              /\ wbuf = <<>> /\ wr = NoWrite
-----------------------------------------------------------------------------
(* The reader *)

\* Served from the buffer if it holds enough.  Otherwise its rest is copied
\* and the buffer emptied; what is missing is read past the buffer if it is
\* long, into the buffer, as much as fits, if it is short.
ef_bio_read(len) ==
    /\ rd = NoRead /\ ~reads.done
    /\ IF len <= Len(rbuf)
       THEN /\ reads' = Result(len, Take(rbuf, len))
            /\ rbuf' = Drop(rbuf, len)
            /\ UNCHANGED rd
       ELSE /\ rd' = LET need == len - Len(rbuf)
                         long == need > BufSize \div 4
                     IN  [op |-> IF long THEN "direct" ELSE "refill", head |-> rbuf,
                          want |-> need, cap |-> IF long THEN need ELSE BufSize, got |-> <<>>]
            /\ rbuf' = <<>>
            /\ UNCHANGED reads
    /\ UNCHANGED <<conn_vars, writer_vars>>

ef_bio_reader_skip(len) ==
    /\ rd = NoRead /\ ~reads.done
    /\ IF len <= Len(rbuf)
       THEN /\ reads' = Result(len, <<>>)
            /\ rbuf' = Drop(rbuf, len)
            /\ UNCHANGED rd
       ELSE /\ rd' = LET remain == len - Len(rbuf)
                     IN  [op |-> "skip", head |-> <<>>, want |-> remain,
                          cap |-> Least(remain, BufSize), got |-> <<>>]
            /\ rbuf' = <<>>
            /\ UNCHANGED reads
    /\ UNCHANGED <<conn_vars, writer_vars>>

\* Mutant: what was read beyond the caller's need is dropped.
RefillDropsRest(got) ==
    LET n == Least(rd.want, Len(got))
    IN  rbuf' = <<>> /\ reads' = Result(n, rd.head \o Take(got, n)) /\ rd' = NoRead

\* After ef_safe_read returned `got`: the count excludes the bytes copied
\* from the old buffer, although they are in place.
Refill(got) ==
    LET n == Least(rd.want, Len(got))
    IN  rbuf' = Drop(got, n) /\ reads' = Result(n, rd.head \o Take(got, n)) /\ rd' = NoRead

Direct(got) == /\ reads' = Result(Len(got), rd.head \o got)
               /\ rd' = NoRead
               /\ UNCHANGED rbuf

\* The loop of skip goes on until nothing remains, at end of file too.
Skipped(got) == LET remain == rd.want - Len(got)
                IN  /\ IF remain > 0
                       THEN /\ rd' = [rd EXCEPT !.want = remain, !.cap = Least(remain, BufSize)]
                            /\ UNCHANGED reads
                       ELSE rd' = NoRead /\ reads' = Result(0, <<>>)
                    /\ UNCHANGED rbuf

ReadDone(got) == CASE rd.op = "direct" -> Direct(got)
                   [] rd.op = "refill" -> Refill(got)
                   [] rd.op = "skip"   -> Skipped(got)

\* ef_wrap_read returned bytes, at most what there is room for.
Receive == /\ rd.op # "none" /\ peer # "reset"
           /\ \E n \in 1 .. Least(rd.cap - Len(rd.got), Len(inp)) :
                 LET got == rd.got \o Take(inp, n)
                 IN  /\ inp' = Drop(inp, n)
                     /\ IF rd.op = "skip" \/ Len(got) >= rd.want THEN ReadDone(got)
                        ELSE rd' = [rd EXCEPT !.got = got] /\ UNCHANGED <<rbuf, reads>>
           /\ UNCHANGED <<peer, outp, writer_vars>>

\* Mutant: the loop of ef_safe_read does not end at end of file.
EndOfFileRetried == /\ rd.op # "none" /\ peer = "eof" /\ inp = <<>>
                    /\ UNCHANGED bio_vars

EndOfFile == /\ rd.op # "none" /\ peer = "eof" /\ inp = <<>>
             /\ ReadDone(rd.got)
             /\ UNCHANGED <<conn_vars, writer_vars>>

\* The call returns -1.  The caller's memory has been written in part.
ReadFails == /\ rd.op # "none" /\ peer = "reset"
             /\ reads' = Result(-1, IF rd.op = "direct" THEN rd.head \o rd.got ELSE rd.head)
             /\ rd' = NoRead
             /\ UNCHANGED <<rbuf, conn_vars, writer_vars>>

ef_safe_read == Receive \/ EndOfFile \/ ReadFails
-----------------------------------------------------------------------------
(* The writer *)

\* Mutant: the buffer is not written out before data that passes it by.
WriteOvertakes(data) ==
    /\ wr = NoWrite
    /\ IF Len(wbuf) + Len(data) > BufSize \/ BufSize \div 4 < Len(data)
       THEN wr' = [op |-> "direct", rest |-> data, data |-> <<>>] /\ UNCHANGED wbuf
       ELSE wbuf' = wbuf \o data /\ UNCHANGED wr
    /\ UNCHANGED <<conn_vars, reader_vars>>

\* Mutant: short data is collected whether it fits or not.
WriteUnchecked(data) ==
    /\ wr = NoWrite
    /\ IF BufSize \div 4 < Len(data)
       THEN /\ wr' = IF wbuf # <<>> THEN [op |-> "flush", rest |-> wbuf, data |-> data]
                     ELSE [op |-> "direct", rest |-> data, data |-> <<>>]
            /\ UNCHANGED wbuf
       ELSE wbuf' = wbuf \o data /\ UNCHANGED wr
    /\ UNCHANGED <<conn_vars, reader_vars>>

\* Short data is collected; long data, or data that does not fit, is written
\* at once, after the buffer.
ef_bio_write(data) ==
    /\ wr = NoWrite
    /\ IF Len(wbuf) + Len(data) > BufSize \/ BufSize \div 4 < Len(data)
       THEN /\ wr' = IF wbuf # <<>> THEN [op |-> "flush", rest |-> wbuf, data |-> data]
                     ELSE [op |-> "direct", rest |-> data, data |-> <<>>]
            /\ UNCHANGED wbuf
       ELSE wbuf' = wbuf \o data /\ UNCHANGED wr
    /\ UNCHANGED <<conn_vars, reader_vars>>

ef_bio_writer_flush ==
    /\ wr = NoWrite
    /\ wr' = IF wbuf # <<>> THEN [op |-> "flush", rest |-> wbuf, data |-> <<>>] ELSE NoWrite
    /\ UNCHANGED <<wbuf, conn_vars, reader_vars>>

\* The write under way has written everything it was given.
Written ==
    /\ wr' = IF wr.data # <<>> THEN [op |-> "direct", rest |-> wr.data, data |-> <<>>] ELSE NoWrite
    /\ wbuf' = IF wr.op = "flush" THEN <<>> ELSE wbuf

\* ef_wrap_write accepted some bytes ...
Send == /\ wr # NoWrite /\ peer # "reset"
        /\ \E n \in 1 .. Len(wr.rest) :
              /\ outp' = outp \o Take(wr.rest, n)
              /\ IF n = Len(wr.rest) THEN Written
                 ELSE wr' = [wr EXCEPT !.rest = Drop(@, n)] /\ UNCHANGED wbuf
        /\ UNCHANGED <<peer, inp, reader_vars>>

\* ... or failed: the buffer keeps all its bytes, the new data is dropped.
WriteFails == /\ wr # NoWrite /\ peer = "reset"
              /\ wr' = NoWrite
              /\ UNCHANGED <<wbuf, conn_vars, reader_vars>>

ef_safe_write == Send \/ WriteFails
=============================================================================
