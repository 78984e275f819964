------------------------------- MODULE Redis --------------------------------
(***************************************************************************)
(* redis.c: a connection to a redis server, used as redis_proc of main.c   *)
(* uses it: a command is sent, its reply is read, written to a client and  *)
(* freed, then the next; after the last one, or a failure, redis_proc goes *)
(* to its exit, which frees `rep` and closes the connection.               *)
(*                                                                         *)
(* The parser works on con->buf, which is not cleared between reads and    *)
(* has no terminator: strstr looks past con->end into what earlier reads   *)
(* left there.  The buffer is therefore modelled cell by cell; a character *)
(* is its code less that of '0', so a digit is its value.  What depends on *)
(* memory outside of the buffer, uses a pointer the parser never assigned, *)
(* or takes for a length what is not a number, is the place "undefined".   *)
(* (An strncpy over itself copies upwards; memory does not run out.)  The  *)
(* place "bad_free" is apart from it: there the exit of redis_proc, not    *)
(* the parser, has freed a reply it does not have.                         *)
(*                                                                         *)
(* A reply is a tree; it is listed in preorder, one node for each value.   *)
(***************************************************************************)
EXTENDS Integers, SequencesExt

CONSTANTS Cap,                  \* RES_BUFSIZE
          Replies,              \* replies the server may send, as lists of nodes
          MaxCommands,          \* bound: commands on the connection
          MaxCuts               \* bound: reads of a reply that return less than they could

ASSUME CapAssumption == Cap \in Nat \ {0} /\ MaxCommands \in Nat \ {0} /\ MaxCuts \in Nat

NUL   == -48
LF    == -38
CR    == -35
Space == -16
Dollar == -12
Star  == -6
Plus  == -5
Minus == -3
Colon == 10
Letter == 17

Node(type, v) == [type |-> type, v |-> v]
None == Node("none", <<>>)      \* a NULL pointer in place of a reply
Null == Node("null", <<>>)      \* REPLY_TYPE_NULL
Wild == Node("wild", <<>>)      \* pointers never assigned

VARIABLES peer,                 \* "open", "eof" or "reset"
          inp,                  \* characters sent by the server, not read yet
          mem, seek, end,       \* con->buf, con->seek, con->end
          at,                   \* the place in the code that has control
          kind,                 \* the character a value under way began with
          need, content,        \* parse_string: strlen, the bytes copied so far
          left,                 \* of every array under way: elements to come
          reply,                \* the reply read so far
          sent, served,         \* the last reply the server sent, how many
          cuts,                 \* how many reads were short
          torn                  \* history: a read ended where the parser can not go on

buffer_vars == <<mem, seek, end>>
value_vars  == <<kind, need, content, left, reply>>
server_vars == <<sent, served>>
read_vars   == <<cuts, torn>>
vars == <<peer, inp, buffer_vars, at, value_vars, server_vars, read_vars>>

\* con->buf is not initialised.
Init == /\ peer = "open" /\ inp = <<>>
        /\ mem \in {[i \in 0 .. Cap - 1 |-> c] : c \in {NUL, Letter}}
        /\ seek = 0 /\ end = 0
        /\ at = "idle" /\ kind = NUL /\ need = 0 /\ content = <<>> /\ left = <<>>
        /\ reply = <<>> /\ sent = <<>> /\ served = 0 /\ cuts = 0 /\ torn = FALSE
-----------------------------------------------------------------------------
(* The server *)

Digits(n) == IF n < 10 THEN <<n>> ELSE <<n \div 10, n % 10>>

Number(digits) == LET Upto[i \in 0 .. Len(digits)] ==
                        IF i = 0 THEN 0 ELSE Upto[i - 1] * 10 + digits[i]
                  IN  Upto[Len(digits)]

Line(c, text) == <<c>> \o text \o <<CR, LF>>

Encode(node) == CASE node.type = "bulk"   -> Line(Dollar, Digits(Len(node.v))) \o node.v \o <<CR, LF>>
                  [] node.type = "status" -> Line(Plus, node.v)
                  [] node.type = "long"   -> Line(Colon, node.v)
                  [] node.type = "err"    -> Line(Minus, node.v)
                  [] node.type = "null"   -> Line(Dollar, <<Minus, 1>>)
                  [] node.type = "arr"    -> Line(Star, node.v)

EncodeReply(r) == FlattenSeq([i \in DOMAIN r |-> Encode(r[i])])

\* Values the server sends: lengths have at most two digits, no line holds a CR.
Legal(node)  == \/ node.type = "bulk" /\ Len(node.v) <= 99
                \/ node.type \in {"status", "long", "err"} /\ \A i \in DOMAIN node.v : node.v[i] # CR
                \/ node = Null
                \/ node.type = "arr" /\ \E n \in 0 .. 99 : node.v = Digits(n)

\* How many values are still to come when the first i of a reply have: one at
\* first, and each one brings as many as it has elements.
Elements(node) == IF node.type = "arr" THEN Number(node.v) ELSE 0
Due(r) == LET After[i \in 0 .. Len(r)] == IF i = 0 THEN 1 ELSE After[i - 1] - 1 + Elements(r[i])
          IN  After

\* Replies are trees of such values.
Types == {"bulk", "status", "long", "err", "null", "arr"}
ASSUME ReplyAssumption ==
    \A r \in Replies : /\ r \in Seq([type : Types, v : Seq(Int)])
                       /\ \A i \in DOMAIN r : Legal(r[i])
                       /\ Due(r)[Len(r)] = 0 /\ \A i \in 0 .. Len(r) - 1 : Due(r)[i] > 0

\* What the parser can do with a reply: none of its strings holds a NUL, at which
\* strncpy stops; no element is a status or an error, for which parse_array has
\* no case; and an error has a space after its type.
Supported ==
    \A r \in Replies : \A i \in DOMAIN r :
        /\ \A j \in DOMAIN r[i].v : r[i].v[j] # NUL
        /\ r[i].type \in {"status", "err"} => i = 1
        /\ r[i].type = "err" => \E j \in DOMAIN r[i].v : r[i].v[j] = Space

\* The reply the client should get: it keeps both kinds of strings as one.
AsParsed(r) == [i \in DOMAIN r |-> IF r[i].type \in {"bulk", "status"} THEN Node("str", r[i].v)
                                   ELSE r[i]]

Hangup(how) == /\ peer = "open"
               /\ peer' = how
               /\ inp' = <<>>
               /\ UNCHANGED <<buffer_vars, at, value_vars, server_vars, read_vars>>
-----------------------------------------------------------------------------
(* Reading *)

AtMost(room) == IF room < Len(inp) THEN room ELSE Len(inp)

\* What ef_wrap_read may return for `room` bytes, 0 at end of file.
Amounts(room) == IF room = 0 \/ (peer = "eof" /\ inp = <<>>) THEN {0}
                 ELSE {n \in 1 .. AtMost(room) : cuts < MaxCuts \/ n = AtMost(room)}

\* A read the parser can work with: it ends with the reply, or with at least one
\* byte of content and the line end after it still to come.
Whole(n) == LET rest == Len(inp) - n
            IN  n > 0 /\ (rest = 0 \/ /\ Len(sent) = 1 /\ sent[1].type = "bulk"
                                      /\ rest \in 3 .. Len(sent[1].v) + 2)

\* The read of n bytes, as the history tells it.
Note(n, room) == /\ cuts' = IF n < AtMost(room) THEN cuts + 1 ELSE cuts
                 /\ torn' = (torn \/ ~Whole(n))

\* Mutant: seek stays where it was in the old contents.
FillKeepsSeek(from, keep, n) ==
    /\ mem' = [i \in DOMAIN mem |-> IF i < keep THEN mem[from + i]
                                    ELSE IF i < keep + n THEN inp[i - keep + 1] ELSE mem[i]]
    /\ inp' = SubSeq(inp, n + 1, Len(inp))
    /\ seek' = seek /\ end' = keep + n

\* The first `keep` bytes from seek on are moved to the front, n are read
\* behind them.
Fill(from, keep, n) ==
    /\ mem' = [i \in DOMAIN mem |-> IF i < keep THEN mem[from + i]
                                    ELSE IF i < keep + n THEN inp[i - keep + 1] ELSE mem[i]]
    /\ inp' = SubSeq(inp, n + 1, Len(inp))
    /\ seek' = 0 /\ end' = keep + n

\* The read that begins a reply.
ef_redis_read_reply ==
    /\ at = "first"
    /\ IF peer = "reset"
       THEN at' = "returned" /\ reply' = <<None>> /\ UNCHANGED <<inp, buffer_vars, read_vars>>
       ELSE \E n \in Amounts(Cap) : /\ Fill(0, 0, n)
                                    /\ Note(n, Cap)
                                    /\ at' = "reply" /\ UNCHANGED reply
    /\ UNCHANGED <<peer, kind, need, content, left, server_vars>>

\* A value is complete: so are the arrays it is the last element of.
Arrays(counts) == SubSeq(counts, 1, Max({0} \cup {i \in DOMAIN counts : counts[i] > 0}))
Complete(node, counts) == /\ reply' = Append(reply, node)
                          /\ left' = Arrays(counts)
                          /\ at' = IF left' = <<>> THEN "returned" ELSE "elem"

\* Where the parser goes on after it has read more.  parse_array does not look
\* for the line end again: it reads on for ever.
AfterMore == IF at = "more" /\ kind # Star THEN "header" ELSE at

\* copylen is a size_t: with seek past the end it is huge.
reply_read_more ==
    /\ at \in {"more", "content_more"}
    /\ IF seek > end THEN at' = "undefined" /\ UNCHANGED <<inp, buffer_vars, left, reply, read_vars>>
       ELSE LET keep == end - seek
            IN  IF peer = "reset"
                THEN Fill(seek, keep, 0) /\ Complete(None, left) /\ UNCHANGED read_vars
                ELSE \E n \in Amounts(Cap - keep) :
                        /\ Fill(seek, keep, n)
                        /\ Note(n, Cap - keep)
                        /\ at' = IF at = "content_more" THEN "content" ELSE AfterMore
                        /\ UNCHANGED <<left, reply>>
    /\ UNCHANGED <<peer, kind, need, content, server_vars>>
-----------------------------------------------------------------------------
(* Parsing *)

\* The places of a line end that strstr finds from p on, and whether it stops
\* inside of the buffer if there is none.
LineEnds(p) == {j \in p .. Cap - 2 : /\ mem[j] = CR /\ mem[j + 1] = LF
                                     /\ \A k \in p .. j : mem[k] # NUL}
Ends(p) == \E k \in p .. Cap - 1 : mem[k] = NUL

\* strncpy of n characters from p on.
Copy(p, n) == [i \in 1 .. n |-> IF \E k \in p .. p + i - 1 : mem[k] = NUL THEN NUL
                                ELSE mem[p + i - 1]]

FirstCR(p) == Min({j \in p .. Cap - 1 : mem[j] = CR})
Text(p, q) == Copy(p, q - p)

NoLength(p)  == mem[p] \notin {Dollar, Star} \/ mem[p + 1] = Minus
parse_len(p) == IF NoLength(p) THEN -1 ELSE Number(Text(p + 1, FirstCR(p + 1)))

\* What parse_len does not check: a length of digits, and not too many.
Sane(p) == LET text == Text(p + 1, FirstCR(p + 1))
           IN  NoLength(p) \/ (Len(text) <= 3 /\ ToSet(text) \subseteq 0 .. 9)

\* The switch on the first character of a reply ...
BeginReply ==
    /\ at = "reply"
    /\ kind' = mem[0]
    /\ IF kind' \in {Minus, Plus, Colon, Star, Dollar}
       THEN /\ at' = "header"
            /\ seek' = IF kind' = Plus THEN 1 ELSE 0
            /\ UNCHANGED reply
       ELSE at' = "returned" /\ reply' = <<None>> /\ UNCHANGED seek
    /\ UNCHANGED <<peer, inp, mem, end, need, content, left, server_vars, read_vars>>

\* ... and of an element.  Another character leaves the pointer unassigned, and
\* those after it: buf stays where it is.
BeginElement ==
    /\ at = "elem"
    /\ LET depth == Len(left)
       IN  CASE seek >= Cap -> at' = "undefined" /\ UNCHANGED <<kind, left, reply>>
             [] seek < Cap /\ mem[seek] \in {Dollar, Colon, Star} ->
                   /\ kind' = mem[seek] /\ left' = [left EXCEPT ![depth] = @ - 1]
                   /\ at' = "header" /\ UNCHANGED reply
             [] OTHER -> Complete(Wild, [left EXCEPT ![depth] = 0]) /\ UNCHANGED kind
    /\ UNCHANGED <<peer, inp, buffer_vars, need, content, server_vars, read_vars>>

\* parse_string as it is entered: `len` characters at p are wanted.
StringAt(p, len) ==
    /\ seek' = p /\ need' = len /\ content' = <<>>
    /\ IF len = -1 THEN Complete(Null, left)
       ELSE at' = "string" /\ UNCHANGED <<left, reply>>

parse_single_string(eol) == StringAt(seek, eol - seek)

parse_bulk_string(eol) ==
    IF Sane(seek) THEN StringAt(eol + 2, parse_len(seek))
    ELSE at' = "undefined" /\ UNCHANGED <<seek, need, content, left, reply>>

\* It looks for a CR from the second character on, whatever the first is.
parse_long ==
    /\ IF \E j \in seek + 1 .. Cap - 1 : mem[j] = CR
       THEN LET cr == FirstCR(seek + 1)
            IN  Complete(Node("long", Text(seek + 1, cr)), left) /\ seek' = cr + 2
       ELSE at' = "undefined" /\ UNCHANGED <<seek, left, reply>>
    /\ UNCHANGED <<need, content>>

parse_array(eol) ==
    /\ IF Sane(seek)
       THEN LET num == parse_len(seek)
            IN  /\ seek' = eol + 2
                /\ IF num = -1 THEN Complete(Null, left)
                   ELSE Complete(Node("arr", Digits(num)), Append(left, num))
       ELSE at' = "undefined" /\ UNCHANGED <<seek, left, reply>>
    /\ UNCHANGED <<need, content>>

\* The type ends at the first space, if there is one before the line end.
parse_error(eol) ==
    LET spaces == {j \in seek .. eol - 1 : mem[j] = Space}
    IN  /\ IF spaces = {} THEN at' = "undefined" /\ UNCHANGED <<left, reply>>
           ELSE Complete(Node("err", Text(seek + 1, eol)), left)
        /\ UNCHANGED <<seek, need, content>>

\* The line a value begins with, once strstr finds its end.
Header ==
    /\ at = "header"
    /\ IF LineEnds(seek) = {}
       THEN at' = (IF Ends(seek) THEN "more" ELSE "undefined") /\ UNCHANGED <<seek, value_vars>>
       ELSE LET eol == Min(LineEnds(seek))
            IN  /\ CASE kind = Plus   -> parse_single_string(eol)
                     [] kind = Dollar -> parse_bulk_string(eol)
                     [] kind = Colon  -> parse_long
                     [] kind = Star   -> parse_array(eol)
                     [] kind = Minus  -> parse_error(eol)
                /\ UNCHANGED kind
    /\ UNCHANGED <<peer, inp, mem, end, server_vars, read_vars>>

\* parse_string: all is there, or as much as there is.  end - seek is a size_t.
String ==
    /\ at = "string"
    /\ IF end >= seek /\ end - seek < need
       THEN /\ content' = Copy(seek, end - seek)
            /\ seek' = end
            /\ at' = "content_more"
            /\ UNCHANGED <<left, reply>>
       ELSE /\ IF seek + need > Cap THEN at' = "undefined" /\ UNCHANGED <<left, reply>>
               ELSE Complete(Node("str", Copy(seek, need)), left)
            /\ seek' = seek + need + 2
            /\ UNCHANGED content
    /\ UNCHANGED <<peer, inp, mem, end, kind, need, server_vars, read_vars>>

\* Mutant: what was read before is not counted.
ContentRestarts ==
    /\ at = "content"
    /\ IF end - seek < need
       THEN /\ content' = Copy(seek, end - seek)
            /\ seek' = end
            /\ at' = "content_more"
            /\ UNCHANGED <<left, reply>>
       ELSE /\ Complete(Node("str", Copy(seek, need)), left)
            /\ seek' = seek + need
            /\ UNCHANGED content
    /\ UNCHANGED <<peer, inp, mem, end, kind, need, server_vars, read_vars>>

\* Mutant: the last piece is copied up to con->end.
ContentCutShort ==
    /\ at = "content"
    /\ Complete(Node("str", content \o Copy(seek, end - seek)), left)
    /\ seek' = end
    /\ UNCHANGED <<content, peer, inp, mem, end, kind, need, server_vars, read_vars>>

\* The rest of a string, after a read.  The line end behind it is not taken.
Content ==
    /\ at = "content"
    /\ LET have == Len(content)
       IN  IF end - seek + have < need
           THEN /\ content' = content \o Copy(seek, end - seek)
                /\ seek' = end
                /\ at' = "content_more"
                /\ UNCHANGED <<left, reply>>
           ELSE /\ Complete(Node("str", content \o Copy(seek, need - have)), left)
                /\ seek' = seek + need - have
                /\ UNCHANGED content
    /\ UNCHANGED <<peer, inp, mem, end, kind, need, server_vars, read_vars>>
-----------------------------------------------------------------------------
(* The user of the connection *)

\* Where redis_proc's exit ends after a failure: before the first reply `rep` is not
\* assigned, NULL if it happens to be; later on the reply it points to is freed already.
Exits == IF served = 0 THEN {"closed", "bad_free"} ELSE {"bad_free"}

\* The command is written; the server, if it is there, answers it.
ef_redis_cmd ==
    /\ at = "idle"
    /\ IF peer = "reset" THEN at' \in Exits /\ UNCHANGED <<inp, server_vars>>
       ELSE /\ at' = "first"
            /\ served' = served + 1
            /\ IF peer = "eof" THEN sent' = <<>> /\ UNCHANGED inp
               ELSE \E r \in Replies : sent' = r /\ inp' = inp \o EncodeReply(r)
    /\ reply' = <<>> /\ content' = <<>> /\ need' = 0 /\ kind' = NUL
    /\ cuts' = 0
    /\ UNCHANGED <<peer, buffer_vars, left, torn>>

\* The reply is written to the client and freed.  If there is none, or it is the last,
\* or the client is gone, the exit follows.
ef_redis_free_reply ==
    /\ at = "returned"
    /\ \/ reply = <<None>> /\ at' = "closed"
       \/ Wild \in ToSet(reply) /\ at' = "undefined"
       \/ /\ reply # <<None>> /\ Wild \notin ToSet(reply)
          /\ at' \in IF served = MaxCommands THEN {"closed"} ELSE {"idle"} \cup Exits
    /\ UNCHANGED <<peer, inp, buffer_vars, value_vars, server_vars, read_vars>>

client == \/ ef_redis_read_reply \/ reply_read_more
          \/ BeginReply \/ BeginElement \/ Header \/ String \/ Content
          \/ ef_redis_free_reply

Finished == at \in {"closed", "undefined", "bad_free"} /\ UNCHANGED vars

Next == \/ ef_redis_cmd \/ client
        \/ Hangup("eof") \/ Hangup("reset")
        \/ Finished

Spec == Init /\ [][Next]_vars /\ WF_vars(client)
-----------------------------------------------------------------------------
(* Properties *)

Parsing == {"reply", "header", "more", "string", "content", "content_more", "elem"}

\* What the parser's state ranges over: as long as no read tore a reply, seek
\* does not pass the end of what was read and the parser takes no undefined step.
\* (Of what redis_proc frees at its exit this says nothing.)
TypeOK == /\ at \in Parsing \cup {"idle", "first", "returned", "closed", "undefined", "bad_free"}
          /\ peer \in {"open", "eof", "reset"}
          /\ end \in 0 .. Cap
          /\ ~torn => /\ seek <= end \/ at \in {"idle", "first", "returned", "closed", "bad_free"}
                      /\ at # "undefined"

\* A reply handed to the user is the one the server sent for the command: for
\* every type, nested arrays, content longer than the buffer and cut anywhere,
\* and whatever earlier replies left in it.  It does not hold when a read cuts a
\* line, an array or the line end after a string, or returns 0.
ReplyAsSent == at = "returned" /\ ~torn =>
                 \/ reply = AsParsed(sent)
                 \/ reply = <<None>> /\ peer = "reset"

\* Reading ends: no reply that comes in readable pieces makes the parser wait
\* for more, or loop.
ReadReturns == at \in Parsing \cup {"first"} ~> (at = "returned" \/ torn)
=============================================================================
