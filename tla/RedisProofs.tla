---------------------------- MODULE RedisProofs -----------------------------
(***************************************************************************)
(* As long as no read of the redis client cuts a reply where the parser    *)
(* cannot go on, the buffer holds the reply's characters, the parser       *)
(* stays in them, and what it returns is the reply that was sent.          *)
(***************************************************************************)
EXTENDS Redis, RecursionProofs

\* Characters are numbers here.
Chars == Seq(Int)
-----------------------------------------------------------------------------
(* Characters *)

\* Characters joined: their places.
LEMMA JoinChars ==
    ASSUME NEW s \in Chars, NEW t \in Chars
    PROVE  /\ Len(s) \in Nat /\ Len(t) \in Nat
           /\ s \o t \in Chars /\ Len(s \o t) = Len(s) + Len(t)
           /\ \A i \in 1 .. Len(s) : (s \o t)[i] = s[i]
           /\ \A i \in 1 .. Len(t) : (s \o t)[Len(s) + i] = t[i]
<1>1. s \in Seq(Int) /\ t \in Seq(Int)
    BY DEF Chars
<1>2. /\ Len(s) \in Nat /\ Len(t) \in Nat /\ s \o t \in Seq(Int)
      /\ Len(s \o t) = Len(s) + Len(t)
      /\ \A i \in 1 .. Len(s) + Len(t) : (s \o t)[i] = IF i <= Len(s) THEN s[i] ELSE t[i - Len(s)]
    BY <1>1, ConcatProperties, LenProperties
<1>3. ASSUME NEW i \in 1 .. Len(s) PROVE (s \o t)[i] = s[i]
    BY <1>2
<1>4. ASSUME NEW i \in 1 .. Len(t) PROVE (s \o t)[Len(s) + i] = t[i]
  <2>1. Len(s) + i \in 1 .. Len(s) + Len(t) /\ ~ (Len(s) + i <= Len(s)) /\ (Len(s) + i) - Len(s) = i
    BY <1>2
  <2> QED
    BY <1>2, <2>1
<1> QED
    BY <1>2, <1>3, <1>4 DEF Chars

\* The characters after the first n.
LEMMA DropChars ==
    ASSUME NEW s \in Chars, NEW n \in 0 .. Len(s)
    PROVE  /\ SubSeq(s, n + 1, Len(s)) \in Chars /\ Len(SubSeq(s, n + 1, Len(s))) = Len(s) - n
           /\ \A i \in 1 .. Len(s) - n : SubSeq(s, n + 1, Len(s))[i] = s[n + i]
<1> DEFINE lo == n + 1
           hi == Len(s)
<1>1. hi \in Nat /\ n \in Nat /\ n <= hi /\ s \in Seq(Int)
    BY LenProperties DEF Chars
<1>2. lo \in Int /\ hi \in Int /\ lo >= 1 /\ lo <= hi + 1
    BY <1>1
<1>3. \A i \in lo .. hi : s[i] \in Int
  <2>1. \A i \in 1 .. Len(s) : s[i] \in Int
    BY <1>1, LenProperties
  <2> QED
    BY <1>1, <2>1
<1> HIDE DEF lo
<1>4. /\ SubSeq(s, lo, hi) \in Seq(Int)
      /\ Len(SubSeq(s, lo, hi)) = IF lo <= hi THEN hi - lo + 1 ELSE 0
      /\ \A i \in 1 .. hi - lo + 1 : SubSeq(s, lo, hi)[i] = s[lo + i - 1]
    BY <1>1, <1>2, <1>3, SubSeqProperties
<1>5. hi - lo + 1 = hi - n
    BY <1>1 DEF lo
<1>6. Len(SubSeq(s, lo, hi)) = hi - n
    BY <1>1, <1>2, <1>4, <1>5
<1>7. \A i \in 1 .. hi - n : SubSeq(s, lo, hi)[i] = s[n + i]
  <2>1. \A i \in 1 .. hi - n : lo + i - 1 = n + i
    BY <1>1 DEF lo
  <2> QED
    BY <1>4, <1>5, <2>1
<1> QED
    BY <1>4, <1>6, <1>7 DEF lo, Chars

\* A number of one or two digits.
LEMMA NumberStep ==
    ASSUME NEW d \in Seq(Int), Len(d) \in {1, 2}
    PROVE  Number(d) = IF Len(d) = 1 THEN d[1] ELSE d[1] * 10 + d[2]
<1> DEFINE n == Len(d)
           Rule(g) == g = [i \in 0 .. n |-> IF i = 0 THEN 0 ELSE g[i - 1] * 10 + d[i]]
           f == [i \in 0 .. n |-> IF i = 0 THEN 0 ELSE IF i = 1 THEN d[1] ELSE d[1] * 10 + d[2]]
<1>1. n \in {1, 2} /\ \A i \in 1 .. n : d[i] \in Int
    BY LenProperties
<1>2. Number(d) = (CHOOSE g : Rule(g))[n]
    BY DEF Number
<1> HIDE DEF n
<1>3. Rule(f)
  <2>1. ASSUME NEW i \in 0 .. n PROVE f[i] = IF i = 0 THEN 0 ELSE f[i - 1] * 10 + d[i]
    <3>1. i = 0 \/ i = 1 \/ i = 2
        BY <1>1
    <3>2. CASE i = 1
      <4>1. f[1] = d[1] /\ f[0] = 0 /\ d[1] \in Int
        BY <1>1
      <4> QED
        BY <3>2, <4>1
    <3>3. CASE i = 2
      <4>1. f[2] = d[1] * 10 + d[2] /\ f[1] = d[1]
        BY <1>1, <3>3
      <4> QED
        BY <3>3, <4>1
    <3> QED
        BY <3>1, <3>2, <3>3
  <2> QED
    BY <2>1
<1> HIDE DEF f
<1>4. PICK g : Rule(g) /\ Number(d) = g[n]
    BY <1>2, <1>3
<1>5. g[0] = 0 /\ g[1] = g[0] * 10 + d[1] /\ (n = 2 => g[2] = g[1] * 10 + d[2])
    BY <1>1, <1>4
<1>6. g[1] = d[1]
    BY <1>1, <1>5
<1> QED
    BY <1>1, <1>4, <1>5, <1>6 DEF n

\* The digits of a number are that number.
LEMMA DigitsFacts ==
    ASSUME NEW n \in 0 .. 99
    PROVE  /\ Digits(n) \in Chars /\ Len(Digits(n)) \in {1, 2} /\ Number(Digits(n)) = n
           /\ \A i \in 1 .. Len(Digits(n)) : Digits(n)[i] \in 0 .. 9
<1>1. CASE n < 10
  <2>1. Digits(n) = <<n>>
    BY <1>1 DEF Digits
  <2>2. <<n>> \in Seq(Int) /\ Len(<<n>>) = 1 /\ <<n>>[1] = n
    OBVIOUS
  <2>3. Number(<<n>>) = n
    BY <2>2, NumberStep
  <2> QED
    BY <1>1, <2>1, <2>2, <2>3 DEF Chars
<1>2. CASE ~ (n < 10)
  <2> DEFINE a == n \div 10
             b == n % 10
             d == <<a, b>>
  <2>1. Digits(n) = d
    BY <1>2 DEF Digits
  <2>2. a \in 0 .. 9 /\ b \in 0 .. 9 /\ n = a * 10 + b
    OBVIOUS
  <2> HIDE DEF a, b
  <2>3. d \in Seq(Int) /\ Len(d) = 2 /\ d[1] = a /\ d[2] = b
    BY <2>2
  <2> HIDE DEF d
  <2>4. Number(d) = a * 10 + b
    BY <2>3, NumberStep
  <2>5. \A i \in 1 .. Len(d) : d[i] \in 0 .. 9
    BY <2>2, <2>3
  <2> QED
    BY <2>1, <2>2, <2>3, <2>4, <2>5 DEF Chars
<1> QED
    BY <1>1, <1>2

-----------------------------------------------------------------------------
(* What a reply looks like on the wire *)

\* The line a value begins with.
First(node) == CASE node.type \in {"bulk", "null"} -> Dollar
                 [] node.type = "status" -> Plus
                 [] node.type = "long"   -> Colon
                 [] node.type = "err"    -> Minus
                 [] node.type = "arr"    -> Star
LineText(node) == CASE node.type = "bulk" -> Digits(Len(node.v))
                 [] node.type = "null" -> <<Minus, 1>>
                 [] OTHER              -> node.v

\* The first characters of values.
Marks == {Dollar, Plus, Colon, Minus, Star}

\* The mark, the text, CR and LF.
LineLen(node) == Len(LineText(node)) + 3

\* A reply value by value.
Parts(r) == [i \in DOMAIN r |-> Encode(r[i])]

\* Where the values of a reply lie.
Layout(r, off) ==
    /\ Offsets(Parts(r), off)
    /\ off[Len(r)] = Len(EncodeReply(r))
    /\ Holds(EncodeReply(r), Parts(r), off)
    /\ \A i, k \in 0 .. Len(r) : i <= k => off[i] <= off[k]
Off(r) == CHOOSE off : Layout(r, off)

\* The elements to come of all arrays under way are n.
Sums(counts, n) ==
    /\ counts \in Seq(Nat)
    /\ \E s \in [0 .. Len(counts) -> Nat] :
          /\ s[0] = 0 /\ s[Len(counts)] = n
          /\ \A j \in 1 .. Len(counts) : s[j] = s[j - 1] + counts[j]
-----------------------------------------------------------------------------
(* The inductive invariant *)

\* The places of the code.
Places == Parsing \cup {"idle", "first", "returned", "closed", "undefined", "bad_free"}

\* The types, and what the places need of them to keep them.
Typed ==
    /\ at \in Places
    /\ peer \in {"open", "eof", "reset"}
    /\ inp \in Chars /\ (peer # "open" => inp = <<>>)
    /\ mem \in [0 .. Cap - 1 -> Int]
    /\ seek \in Nat /\ end \in 0 .. Cap
    /\ content \in Chars
    /\ at \in {"header", "more"} => kind \in Marks
    /\ at \in {"string", "content", "content_more"} => need \in Nat
    /\ at \in {"content", "content_more"} => Len(content) < need
    /\ at = "content" => seek = 0

\* The reply on the wire, and how many of its values are parsed.
Wire == EncodeReply(sent)
Done == Len(reply)

\* What con->buf holds, but for the first b characters that were there.
Window(b) == \A j \in 0 .. end - 1 : mem[j] = Wire[b + j + 1]

\* Reads got g characters: all, or a part the parser can work with.
Got(g) == /\ \/ g = Len(Wire)
             \/ Len(sent) = 1 /\ sent[1].type = "bulk" /\ Len(Wire) - g \in 3 .. Len(sent[1].v) + 2
          /\ peer = "open" => inp = SubSeq(Wire, g + 1, Len(Wire))

\* Values as the user gets them.
Values == [type : Types \cup {"str"}, v : Seq(Int)]

\* A reply is being read, its first values are there.
Reading == /\ sent \in Replies
           /\ Window(0) /\ Got(end)
           /\ reply \in Seq(Values)
           /\ Done < Len(sent)
           /\ \A i \in 1 .. Done : reply[i] = AsParsed(sent)[i]

\* The value that is read next.
This == sent[Done + 1]

\* Before the first value, after its mark, at a string, between two elements: seek is
\* at the offset of the value, or just behind its line, and the arrays under way need as
\* many elements as values are to come.
AtReply   == Reading /\ reply = <<>> /\ left = <<>> /\ seek = 0
AtHeader  == /\ Reading
             /\ Sums(left, Due(sent)[Done] - 1) /\ (Done = 0 => left = <<>>)
             /\ kind = First(This)
             /\ seek = Off(sent)[Done] + (IF kind = Plus THEN 1 ELSE 0)
AtString  == /\ Reading
             /\ Sums(left, Due(sent)[Done] - 1) /\ (Done = 0 => left = <<>>)
             /\ This.type \in {"bulk", "status"} /\ need = Len(This.v)
             /\ seek = Off(sent)[Done] + (IF This.type = "bulk" THEN LineLen(This) ELSE 1)
AtElem    == /\ Reading /\ Done > 0
             /\ Sums(left, Due(sent)[Done]) /\ left # <<>> /\ left[Len(left)] > 0
             /\ seek = Off(sent)[Done]

\* A string is read in pieces.
InPieces == /\ sent \in Replies /\ Len(sent) = 1 /\ sent[1].type = "bulk"
            /\ reply = <<>> /\ left = <<>>
            /\ need = Len(sent[1].v)
            /\ \A i \in 1 .. Len(content) : content[i] = sent[1].v[i]

\* The characters of the reply before those in the buffer.
Before   == LineLen(sent[1]) + Len(content)
AtContentMore == InPieces /\ seek = end /\ Got(Before)
AtContent     == InPieces /\ Window(Before) /\ Got(Before + end)

\* Nothing is read yet; everything is.
AtFirst    == /\ reply = <<>> /\ left = <<>>
              /\ peer = "open" => sent \in Replies /\ inp = Wire
AtReturned == /\ inp = <<>> /\ left = <<>>
              /\ \/ reply = <<None>> /\ peer = "reset"
                 \/ sent \in Replies /\ reply = AsParsed(sent)

\* Where the code is in the reply. A reply in an intact buffer never asks for more.
Faithful ==
    /\ at \notin {"more", "undefined"}
    /\ at = "idle"  => inp = <<>> /\ left = <<>>
    /\ at = "first" => AtFirst
    /\ at = "reply" => AtReply
    /\ at = "header" => AtHeader
    /\ at = "string" => AtString
    /\ at = "elem" => AtElem
    /\ at = "content_more" => AtContentMore
    /\ at = "content" => AtContent
    /\ at = "returned" => AtReturned

\* The inductive invariant.
IInv == Typed /\ (~torn => Faithful)

\* Digits make a natural number.
LEMMA NumberNat ==
    ASSUME NEW d \in Seq(Nat)
    PROVE  Number(d) \in Nat
<1> DEFINE n == Len(d)
           Rule(g) == g = [i \in 0 .. n |-> IF i = 0 THEN 0 ELSE g[i - 1] * 10 + d[i]]
           zero == 0
           step == [i \in 1 .. n |-> [x \in Nat |-> x * 10 + d[i]]]
<1>1. n \in Nat /\ \A i \in 1 .. n : d[i] \in Nat
    BY LenProperties
<1>2. Number(d) = (CHOOSE g : Rule(g))[n]
    BY DEF Number
<1> HIDE DEF n
<1>3. step \in [1 .. n -> [Nat -> Nat]]
    BY <1>1
<1>4. \A i \in 1 .. n : \A x \in Nat : step[i][x] = x * 10 + d[i]
    OBVIOUS
<1>z. zero \in Nat
    OBVIOUS
<1> HIDE DEF step, zero
<1>5. PICK f \in [0 .. n -> Nat] : Stepwise(n, zero, step, f)
    BY <1>1, <1>3, <1>z, DefinedUp
<1>6. \A i \in 0 .. n : f[i] = IF i = 0 THEN 0 ELSE f[i - 1] * 10 + d[i]
  <2> SUFFICES ASSUME NEW i \in 0 .. n PROVE f[i] = IF i = 0 THEN 0 ELSE f[i - 1] * 10 + d[i]
    OBVIOUS
  <2>1. CASE i = 0
    BY <1>5, <2>1 DEF Stepwise, zero
  <2>2. CASE i # 0
    <3>1. i \in 1 .. n /\ i - 1 \in 0 .. n /\ f[i] = step[i][f[i - 1]]
        BY <1>1, <1>5, <2>2 DEF Stepwise
    <3>2. f[i - 1] \in Nat
        BY <1>5, <3>1
    <3> QED
        BY <1>4, <2>2, <3>1, <3>2
  <2> QED
    BY <2>1, <2>2
<1>7. f = [i \in 0 .. n |-> f[i]]
    BY <1>5
<1>8. Rule(f)
    BY <1>6, <1>7
<1>9. PICK g : Rule(g) /\ Number(d) = g[n]
    BY <1>2, <1>8
<1>10. \A i \in 0 .. n : g[i] = IF i = 0 THEN 0 ELSE g[i - 1] * 10 + d[i]
    BY <1>9
<1> DEFINE S == {i \in 0 .. n : g[i] \in Nat}
<1>11. 0 \in S
    BY <1>1, <1>10
<1>12. ASSUME NEW i \in 0 .. n - 1, i \in S PROVE i + 1 \in S
  <2>1. i + 1 \in 0 .. n /\ i + 1 # 0 /\ (i + 1) - 1 = i /\ d[i + 1] \in Nat /\ g[i] \in Nat
    BY <1>1, <1>12
  <2>2. g[i + 1] = g[i] * 10 + d[i + 1]
    BY <1>10, <2>1
  <2> QED
    BY <2>1, <2>2
<1> HIDE DEF S
<1>13. 0 .. n \subseteq S
    BY <1>1, <1>11, <1>12, InductUpTo
<1> QED
    BY <1>1, <1>9, <1>13 DEF S

\* A line: its first character, its text, and the end.
LEMMA LineFacts ==
    ASSUME NEW c \in Int, NEW t \in Chars
    PROVE  /\ Line(c, t) \in Chars /\ Len(Line(c, t)) = Len(t) + 3
           /\ Line(c, t)[1] = c
           /\ \A i \in 1 .. Len(t) : Line(c, t)[1 + i] = t[i]
           /\ Line(c, t)[Len(t) + 2] = CR /\ Line(c, t)[Len(t) + 3] = LF
<1> DEFINE a == <<c>>
           z == <<CR, LF>>
           b == a \o t
<1>1. a \in Chars /\ Len(a) = 1 /\ a[1] = c
    BY DEF Chars
<1>2. z \in Chars /\ Len(z) = 2 /\ z[1] = CR /\ z[2] = LF
    BY DEF Chars, CR, LF
<1> HIDE DEF a, z
<1>3. /\ Len(t) \in Nat /\ b \in Chars /\ Len(b) = 1 + Len(t) /\ b[1] = c
      /\ \A i \in 1 .. Len(t) : b[1 + i] = t[i]
  <2>1. /\ Len(t) \in Nat /\ b \in Chars /\ Len(b) = Len(a) + Len(t)
        /\ \A i \in 1 .. Len(a) : b[i] = a[i]
        /\ \A i \in 1 .. Len(t) : b[Len(a) + i] = t[i]
    BY <1>1, JoinChars
  <2>2. b[1] = c
    BY <1>1, <2>1
  <2> QED
    BY <1>1, <2>1, <2>2
<1> HIDE DEF b
<1> DEFINE l == b \o z
<1>4. /\ l \in Chars /\ Len(l) = Len(b) + Len(z)
      /\ \A i \in 1 .. Len(b) : l[i] = b[i]
      /\ \A i \in 1 .. Len(z) : l[Len(b) + i] = z[i]
    BY <1>2, <1>3, JoinChars
<1> HIDE DEF l
<1>5. Line(c, t) = l
    BY DEF Line, l, b, a, z
<1>6. \A i \in 1 .. Len(t) : 1 + i \in 1 .. Len(b)
    BY <1>3
<1>7. \A i \in 1 .. Len(t) : l[1 + i] = t[i]
    BY <1>3, <1>4, <1>6
<1>8. l[1] = c
  <2>1. 1 \in 1 .. Len(b)
    BY <1>3
  <2> QED
    BY <1>3, <1>4, <2>1
<1>9. l[Len(t) + 2] = CR /\ l[Len(t) + 3] = LF
  <2>1. 1 \in 1 .. Len(z) /\ 2 \in 1 .. Len(z) /\ Len(b) + 1 = Len(t) + 2 /\ Len(b) + 2 = Len(t) + 3
    BY <1>2, <1>3
  <2>2. l[Len(b) + 1] = CR /\ l[Len(b) + 2] = LF
    BY <1>2, <1>4, <2>1
  <2> QED
    BY <2>1, <2>2
<1>10. Len(l) = Len(t) + 3
    BY <1>2, <1>3, <1>4
<1> QED
    BY <1>4, <1>5, <1>7, <1>8, <1>9, <1>10

\* Values as the server sends them.
Nodes == [type : Types, v : Seq(Int)]

\* The line of a value.
LEMMA NodeLine ==
    ASSUME NEW node \in Nodes, Legal(node)
    PROVE  /\ First(node) \in {Dollar, Plus, Colon, Minus, Star}
           /\ LineText(node) \in Chars
           /\ \A i \in 1 .. Len(LineText(node)) : LineText(node)[i] # CR
           /\ node.type = "null" => node.v = <<>>
           /\ node.v \in Chars /\ node.type \in Types
<1>1. node.type \in Types /\ node.v \in Chars /\ node.v \in Seq(Int) /\ Len(node.v) \in Nat
    BY LenProperties DEF Nodes, Chars
<1>2. DOMAIN node.v = 1 .. Len(node.v)
    BY <1>1, LenProperties
<1>n. Null.type = "null" /\ Null.v = <<>>
    BY DEF Null, Node
<1>3. CASE node.type = "bulk"
  <2>1. LineText(node) = Digits(Len(node.v)) /\ First(node) = Dollar
    BY <1>3 DEF LineText, First
  <2>2. Len(node.v) \in 0 .. 99
    <3>1. node # Null
        BY <1>3, <1>n
    <3>2. Len(node.v) <= 99
        BY <1>3, <3>1 DEF Legal
    <3> DEFINE n == Len(node.v)
    <3>3. n \in Nat /\ n <= 99
        BY <1>1, <3>2
    <3> HIDE DEF n
    <3>4. n \in 0 .. 99
        BY <3>3
    <3> QED
        BY <3>4 DEF n
  <2> DEFINE d == Digits(Len(node.v))
  <2>3. d \in Chars /\ \A i \in 1 .. Len(d) : d[i] \in 0 .. 9
    BY <2>2, DigitsFacts
  <2> HIDE DEF d
  <2>4. \A i \in 1 .. Len(d) : d[i] # CR
    BY <2>3 DEF CR
  <2> QED
    BY <1>1, <1>3, <2>1, <2>3, <2>4 DEF d
<1>4. CASE node.type = "null"
  <2>1. LineText(node) = <<Minus, 1>> /\ First(node) = Dollar
    BY <1>4 DEF LineText, First
  <2>2. node.v = <<>>
    BY <1>4, <1>n DEF Legal
  <2> DEFINE m == <<Minus, 1>>
  <2>3. m \in Chars /\ Len(m) = 2 /\ m[1] = Minus /\ m[2] = 1
    BY DEF Chars, Minus
  <2> HIDE DEF m
  <2>4. \A i \in 1 .. Len(m) : m[i] # CR
    BY <2>3 DEF CR, Minus
  <2> QED
    BY <1>1, <1>4, <2>1, <2>2, <2>3, <2>4 DEF m
<1>5. CASE node.type = "arr"
  <2>1. LineText(node) = node.v /\ First(node) = Star
    BY <1>5 DEF LineText, First
  <2>2. PICK n \in 0 .. 99 : node.v = Digits(n)
  <3>1. node # Null
    BY <1>5, <1>n
  <3> QED
    BY <1>5, <3>1, Zenon DEF Legal
  <2> DEFINE d == Digits(n)
  <2>3. d \in Chars /\ \A i \in 1 .. Len(d) : d[i] \in 0 .. 9
    BY <2>2, DigitsFacts
  <2> HIDE DEF d
  <2>4. \A i \in 1 .. Len(d) : d[i] # CR
    BY <2>3 DEF CR
  <2>5. node.v = d
    BY <2>2 DEF d
  <2> QED
    BY <1>1, <1>5, <2>1, <2>3, <2>4, <2>5
<1>6. CASE node.type \in {"status", "long", "err"}
  <2>1. LineText(node) = node.v /\ First(node) \in {Plus, Colon, Minus}
    BY <1>6 DEF LineText, First
  <2>2. \A i \in DOMAIN node.v : node.v[i] # CR
    BY <1>6, <1>n DEF Legal
  <2> QED
    BY <1>1, <1>2, <1>6, <2>1, <2>2
<1> QED
    BY <1>1, <1>3, <1>4, <1>5, <1>6 DEF Types

\* The characters a value begins with are none of those that end something.
LEMMA MarkFacts == \A c \in Marks : c \in Int /\ c # CR /\ c # NUL /\ c # Space
BY DEF Marks, Dollar, Plus, Colon, Minus, Star, CR, NUL, Space

\* A value encoded.
LEMMA EncodeFacts ==
    ASSUME NEW node \in Nodes, Legal(node)
    PROVE  /\ Encode(node) \in Chars /\ LineLen(node) \in Nat /\ LineLen(node) >= 3
           /\ Len(Encode(node)) = LineLen(node) + (IF node.type = "bulk" THEN Len(node.v) + 2 ELSE 0)
           /\ Encode(node)[1] = First(node)
           /\ \A i \in 1 .. Len(LineText(node)) : Encode(node)[1 + i] = LineText(node)[i]
           /\ Encode(node)[Len(LineText(node)) + 2] = CR /\ Encode(node)[Len(LineText(node)) + 3] = LF
           /\ node.type = "bulk" => \A i \in 1 .. Len(node.v) : Encode(node)[LineLen(node) + i] = node.v[i]
<1> DEFINE t == LineText(node)
           c == First(node)
           l == Line(c, t)
<1>1. t \in Chars /\ c \in Int /\ node.v \in Chars /\ node.type \in Types
    BY NodeLine, MarkFacts DEF Marks
<1>e. Encode(node) = IF node.type = "bulk" THEN l \o node.v \o <<CR, LF>> ELSE l
    <2>1. node.type = "null" => node.v = <<>>
        BY NodeLine
    <2> QED
        BY <1>1, <2>1 DEF Encode, LineText, First, Types
<1> HIDE DEF t, c
<1>2. /\ l \in Chars /\ Len(l) = Len(t) + 3 /\ l[1] = c
      /\ \A i \in 1 .. Len(t) : l[1 + i] = t[i]
      /\ l[Len(t) + 2] = CR /\ l[Len(t) + 3] = LF
    BY <1>1, LineFacts
<1>3. Len(t) \in Nat
    BY <1>1, LenProperties DEF Chars
<1>4. LineLen(node) = Len(t) + 3
    BY DEF LineLen, t
<1> HIDE DEF l
<1>5. CASE node.type # "bulk"
    BY <1>2, <1>3, <1>4, <1>5, <1>e DEF t, c
<1>6. CASE node.type = "bulk"
  <2> DEFINE z == <<CR, LF>>
             v == node.v
             b == l \o v
             e == b \o z
  <2>1. z \in Chars /\ Len(z) = 2 /\ v \in Chars
    BY <1>1 DEF Chars, CR, LF
  <2>0. Encode(node) = e
    BY <1>6, <1>e
  <2> HIDE DEF z, v
  <2>2. /\ Len(v) \in Nat /\ b \in Chars /\ Len(b) = Len(l) + Len(v)
        /\ \A i \in 1 .. Len(l) : b[i] = l[i]
        /\ \A i \in 1 .. Len(v) : b[Len(l) + i] = v[i]
    BY <1>2, <2>1, JoinChars
  <2> HIDE DEF b
  <2>3. /\ e \in Chars /\ Len(e) = Len(b) + Len(z) /\ \A i \in 1 .. Len(b) : e[i] = b[i]
    BY <2>1, <2>2, JoinChars
  <2> HIDE DEF e
  <2>4. \A i \in 1 .. Len(l) : i \in 1 .. Len(b)
    BY <1>2, <1>3, <2>2
  <2>5. \A i \in 1 .. Len(l) : e[i] = l[i]
    BY <2>2, <2>3, <2>4
  <2>6. \A i \in 1 .. Len(v) : Len(l) + i \in 1 .. Len(b)
    BY <1>2, <1>3, <2>2
  <2>7. \A i \in 1 .. Len(v) : e[Len(l) + i] = v[i]
    BY <2>2, <2>3, <2>6
  <2>8. /\ 1 \in 1 .. Len(l) /\ Len(t) + 2 \in 1 .. Len(l) /\ Len(t) + 3 \in 1 .. Len(l)
        /\ \A i \in 1 .. Len(t) : 1 + i \in 1 .. Len(l)
    BY <1>2, <1>3
  <2>9. e[1] = c /\ e[Len(t) + 2] = CR /\ e[Len(t) + 3] = LF
    BY <1>2, <2>5, <2>8
  <2>10. \A i \in 1 .. Len(t) : e[1 + i] = t[i]
    BY <1>2, <2>5, <2>8
  <2>11. Len(e) = Len(t) + 3 + (Len(v) + 2)
    BY <1>2, <1>3, <2>1, <2>2, <2>3
  <2>12. LineLen(node) = Len(l)
    BY <1>2, <1>4
  <2>13. \A i \in 1 .. Len(v) : e[LineLen(node) + i] = v[i]
    BY <2>7, <2>12
  <2>14. LineLen(node) \in Nat /\ LineLen(node) >= 3 /\ Len(e) = LineLen(node) + (Len(v) + 2)
    BY <1>3, <1>4, <2>11
  <2> QED
    BY <1>6, <2>0, <2>3, <2>9, <2>10, <2>13, <2>14 DEF t, c, v
<1> QED
    BY <1>5, <1>6

\* How many values an array brings.
LEMMA ElementsFacts ==
    ASSUME NEW node \in Nodes, Legal(node)
    PROVE  /\ Elements(node) \in Nat
           /\ node.type = "arr" => Elements(node) \in 0 .. 99 /\ node.v = Digits(Elements(node))
           /\ node.type # "arr" => Elements(node) = 0
<1>1. CASE node.type = "arr"
  <2>1. Null.type = "null"
    BY DEF Null, Node
  <2>2. node # Null
    BY <1>1, <2>1
  <2>3. PICK n \in 0 .. 99 : node.v = Digits(n)
    BY <1>1, <2>2, Zenon DEF Legal
  <2>4. Number(Digits(n)) = n
    BY DigitsFacts
  <2>5. Elements(node) = n
    BY <1>1, <2>3, <2>4 DEF Elements
  <2> QED
    BY <1>1, <2>3, <2>5
<1>2. CASE node.type # "arr"
    BY <1>2 DEF Elements
<1> QED
    BY <1>1, <1>2

\* What the assumption says of a reply.
LEMMA ReplyFacts ==
    ASSUME NEW r \in Replies
    PROVE  /\ r \in Seq(Nodes) /\ Len(r) \in Nat /\ DOMAIN r = 1 .. Len(r)
           /\ \A i \in 1 .. Len(r) : r[i] \in Nodes /\ Legal(r[i])
           /\ Due(r)[Len(r)] = 0 /\ \A i \in 0 .. Len(r) - 1 : Due(r)[i] > 0
<1>1. r \in Seq(Nodes)
    BY ReplyAssumption DEF Nodes
<1>2. Len(r) \in Nat /\ DOMAIN r = 1 .. Len(r) /\ \A i \in 1 .. Len(r) : r[i] \in Nodes
    BY <1>1, LenProperties
<1>3. \A i \in DOMAIN r : Legal(r[i])
    BY ReplyAssumption
<1>4. Due(r)[Len(r)] = 0 /\ \A i \in 0 .. Len(r) - 1 : Due(r)[i] > 0
    BY ReplyAssumption
<1> QED
    BY <1>1, <1>2, <1>3, <1>4

\* How many values are to come, value by value.
LEMMA DueFacts ==
    ASSUME NEW r \in Replies
    PROVE  /\ Due(r)[0] = 1
           /\ \A i \in 0 .. Len(r) : Due(r)[i] \in Nat
           /\ \A i \in 1 .. Len(r) : Due(r)[i] = Due(r)[i - 1] - 1 + Elements(r[i])
           /\ Len(r) >= 1
<1> DEFINE n == Len(r)
           more == [i \in 1 .. n |-> Elements(r[i])]
           Rule(g) == g = [i \in 0 .. n |-> IF i = 0 THEN 1 ELSE g[i - 1] - 1 + Elements(r[i])]
           one == 1
           step == [i \in 1 .. n |-> [x \in Int |-> x - 1 + more[i]]]
<1>1. n \in Nat /\ \A i \in 1 .. n : more[i] \in Nat /\ more[i] = Elements(r[i])
    BY ReplyFacts, ElementsFacts
<1>2. Due(r) = CHOOSE g : Rule(g)
    BY DEF Due
<1>a. Due(r)[n] = 0 /\ \A i \in 0 .. n - 1 : Due(r)[i] > 0
    BY ReplyFacts
<1> HIDE DEF n, more
<1>3. step \in [1 .. n -> [Int -> Int]]
    BY <1>1
<1>4. \A i \in 1 .. n : \A x \in Int : step[i][x] = x - 1 + more[i]
    OBVIOUS
<1>z. one \in Int
    OBVIOUS
<1> HIDE DEF step, one
<1>5. PICK f \in [0 .. n -> Int] : Stepwise(n, one, step, f)
    BY <1>1, <1>3, <1>z, DefinedUp
<1>6. \A i \in 0 .. n : f[i] = IF i = 0 THEN 1 ELSE f[i - 1] - 1 + Elements(r[i])
  <2> SUFFICES ASSUME NEW i \in 0 .. n PROVE f[i] = IF i = 0 THEN 1 ELSE f[i - 1] - 1 + Elements(r[i])
    OBVIOUS
  <2>1. CASE i = 0
    BY <1>5, <2>1 DEF Stepwise, one
  <2>2. CASE i # 0
    <3>1. i \in 1 .. n /\ i - 1 \in 0 .. n /\ f[i] = step[i][f[i - 1]]
        BY <1>1, <1>5, <2>2 DEF Stepwise
    <3>2. f[i - 1] \in Int
        BY <1>5, <3>1
    <3> QED
        BY <1>1, <1>4, <2>2, <3>1, <3>2
  <2> QED
    BY <2>1, <2>2
<1>7. f = [i \in 0 .. n |-> f[i]]
    BY <1>5
<1>8. Rule(f)
    BY <1>6, <1>7
<1>9. PICK g : Rule(g) /\ Due(r) = g
    BY <1>2, <1>8
<1>10. \A i \in 0 .. n : g[i] = IF i = 0 THEN 1 ELSE g[i - 1] - 1 + Elements(r[i])
    BY <1>9
<1>11. g[0] = 1 /\ \A i \in 1 .. n : g[i] = g[i - 1] - 1 + Elements(r[i])
    BY <1>1, <1>10
<1>b. g[n] = 0 /\ \A i \in 0 .. n - 1 : g[i] > 0
    BY <1>9, <1>a
<1> DEFINE S == {i \in 0 .. n : g[i] \in Int}
<1>12. 0 \in S
    BY <1>1, <1>11
<1>13. ASSUME NEW i \in 0 .. n - 1, i \in S PROVE i + 1 \in S
  <2>1. i + 1 \in 1 .. n /\ (i + 1) - 1 = i /\ g[i] \in Int
    BY <1>1, <1>13
  <2>2. g[i + 1] = g[i] - 1 + more[i + 1] /\ more[i + 1] \in Nat
    BY <1>1, <1>11, <2>1
  <2>3. g[i + 1] \in Int
    BY <2>1, <2>2
  <2> QED
    BY <1>1, <2>1, <2>3
<1> HIDE DEF S
<1>14. 0 .. n \subseteq S
    BY <1>1, <1>12, <1>13, InductUpTo
<1>15. \A i \in 0 .. n : g[i] \in Int
    BY <1>14 DEF S
<1>16. \A i \in 0 .. n : g[i] \in Nat
  <2> SUFFICES ASSUME NEW i \in 0 .. n PROVE g[i] \in Nat
    OBVIOUS
  <2>1. CASE i = n
    BY <1>b, <2>1
  <2>2. CASE i # n
    <3>1. i \in 0 .. n - 1
        BY <1>1, <2>2
    <3> QED
        BY <1>15, <1>b, <3>1
  <2> QED
    BY <2>1, <2>2
<1>17. n >= 1
    BY <1>1, <1>11, <1>b
<1> QED
    BY <1>9, <1>11, <1>16, <1>17 DEF n

\* The values of a reply lie one after the other.
LEMMA LayoutFacts ==
    ASSUME NEW r \in Replies
    PROVE  EncodeReply(r) \in Chars /\ Layout(r, Off(r)) /\ Parts(r) \in Seq(Seq(Int)) /\ Len(Parts(r)) = Len(r)
<1>1. Len(r) \in Nat /\ DOMAIN r = 1 .. Len(r) /\ \A i \in 1 .. Len(r) : Encode(r[i]) \in Seq(Int)
    BY ReplyFacts, EncodeFacts DEF Chars
<1> DEFINE p == Parts(r)
<1>2. p = [i \in 1 .. Len(r) |-> Encode(r[i])]
    BY <1>1 DEF Parts
<1>3. p \in Seq(Seq(Int)) /\ Len(p) = Len(r)
  <2> DEFINE n == Len(r)
             S == Seq(Int)
             E(i) == Encode(r[i])
  <2>1. n \in Nat /\ \A i \in 1 .. n : E(i) \in S
    BY <1>1
  <2>2. p = [i \in 1 .. n |-> E(i)]
    BY <1>2
  <2> HIDE DEF n, S, E, p
  <2>3. p \in Seq(S) /\ Len(p) = n
    <3>1. p \in [1 .. n -> S]
        BY <2>1, <2>2
    <3>2. p \in Seq(S)
        BY <2>1, <3>1, SeqDef
    <3> QED
        BY <2>1, <3>1, <3>2, LenProperties
  <2> QED
    BY <2>3 DEF n, S
<1>4. EncodeReply(r) = FlattenSeq(p)
    BY DEF EncodeReply, Parts
<1> HIDE DEF p
<1>5. /\ FlattenSeq(p) \in Seq(Int)
      /\ \E off : /\ Offsets(p, off)
                  /\ off[Len(p)] = Len(FlattenSeq(p))
                  /\ Holds(FlattenSeq(p), p, off)
                  /\ \A i, k \in 0 .. Len(p) : i <= k => off[i] <= off[k]
  <2> DEFINE T == Int
  <2>1. p \in Seq(Seq(T))
    BY <1>3
  <2> HIDE DEF T
  <2>2. /\ FlattenSeq(p) \in Seq(T)
        /\ \E off : /\ Offsets(p, off)
                    /\ off[Len(p)] = Len(FlattenSeq(p))
                    /\ Holds(FlattenSeq(p), p, off)
                    /\ \A i, k \in 0 .. Len(p) : i <= k => off[i] <= off[k]
    BY <2>1, FlattenLayout
  <2> QED
    BY <2>2 DEF T
<1>6. PICK off : /\ Offsets(p, off)
                 /\ off[Len(p)] = Len(FlattenSeq(p))
                 /\ Holds(FlattenSeq(p), p, off)
                 /\ \A i, k \in 0 .. Len(p) : i <= k => off[i] <= off[k]
    BY <1>5
<1>7. Layout(r, off)
    BY <1>3, <1>4, <1>6 DEF Layout, p
<1>8. Layout(r, Off(r))
    BY <1>7 DEF Off
<1> QED
    BY <1>3, <1>4, <1>5, <1>8 DEF p, Chars

\* The characters of a value.
Behind(node) == LineLen(node) + (IF node.type = "bulk" THEN Len(node.v) + 2 ELSE 0)

\* Where a value lies.
LEMMA PlaceFacts ==
    ASSUME NEW r \in Replies, NEW k \in 1 .. Len(r)
    PROVE  /\ Off(r)[k - 1] \in Nat /\ Off(r)[k] \in Nat
           /\ Off(r)[k] = Off(r)[k - 1] + Behind(r[k])
           /\ Off(r)[k] <= Len(EncodeReply(r))
           /\ \A j \in 1 .. Behind(r[k]) : EncodeReply(r)[Off(r)[k - 1] + j] = Encode(r[k])[j]
<1> DEFINE p == Parts(r)
           off == Off(r)
           w == EncodeReply(r)
<1>1. /\ Len(r) \in Nat /\ DOMAIN r = 1 .. Len(r) /\ Legal(r[k]) /\ r[k] \in Nodes
    BY ReplyFacts
<1>2. p[k] = Encode(r[k]) /\ Len(p) = Len(r) /\ w \in Chars
    BY <1>1, LayoutFacts DEF Parts
<1>3. Len(Encode(r[k])) = Behind(r[k]) /\ Encode(r[k]) \in Chars
    BY <1>1, EncodeFacts DEF Behind
<1>4. Behind(r[k]) \in Nat
    BY <1>3, LenProperties DEF Chars
<1>5. Layout(r, off)
    BY LayoutFacts
<1> HIDE DEF off
<1>6. /\ off \in [0 .. Len(r) -> Nat]
      /\ \A i \in 1 .. Len(r) : off[i] = off[i - 1] + Len(p[i])
    BY <1>2, <1>5 DEF Layout, Offsets
<1>7. off[Len(r)] = Len(w) /\ off[k] <= off[Len(r)]
  <2>1. k \in 0 .. Len(r) /\ Len(r) \in 0 .. Len(r) /\ k <= Len(r)
    BY <1>1
  <2> QED
    BY <1>5, <2>1 DEF Layout
<1>8. \A j \in 1 .. Len(p[k]) : w[off[k - 1] + j] = p[k][j]
    BY <1>2, <1>5 DEF Layout, Holds
<1>9. off[k - 1] \in Nat /\ off[k] \in Nat
  <2>1. k \in 0 .. Len(r) /\ k - 1 \in 0 .. Len(r)
    BY <1>1
  <2> QED
    BY <1>6, <2>1
<1> QED
    BY <1>2, <1>3, <1>6, <1>7, <1>8, <1>9 DEF off

\* A reply begins at 0 and ends with its encoding.
LEMMA OffFacts ==
    ASSUME NEW r \in Replies
    PROVE  /\ Off(r)[0] = 0 /\ Off(r)[Len(r)] = Len(EncodeReply(r))
           /\ \A i \in 0 .. Len(r) : Off(r)[i] \in Nat
<1>1. Layout(r, Off(r)) /\ Len(Parts(r)) = Len(r)
    BY LayoutFacts
<1> DEFINE off == Off(r)
<1> HIDE DEF off
<1>2. Layout(r, off)
    BY <1>1 DEF off
<1>3. off[Len(r)] = Len(EncodeReply(r)) /\ Offsets(Parts(r), off)
    BY <1>2 DEF Layout
<1>4. off \in [0 .. Len(r) -> Nat] /\ off[0] = 0
    BY <1>1, <1>3 DEF Offsets
<1> QED
    BY <1>3, <1>4 DEF off

\* A set of naturals has a least element ...
LEMMA MinFacts ==
    ASSUME NEW S, S \subseteq Nat, S # {}
    PROVE  Min(S) \in S /\ \A x \in S : Min(S) <= x
<1>1. PICK k \in S : \A l \in S : ~ (<<l, k>> \in OpToRel(<, Nat))
    BY WFMin, NatLessThanWellFounded
<1>2. \A l \in S : k <= l
  <2> SUFFICES ASSUME NEW l \in S PROVE k <= l
    OBVIOUS
  <2>1. k \in Nat /\ l \in Nat
    OBVIOUS
  <2>2. ~ (l < k)
    BY <1>1, <2>1 DEF OpToRel
  <2> QED
    BY <2>1, <2>2
<1> QED
    BY <1>2, Zenon DEF Min

\* ... and a bounded one a greatest.
LEMMA MaxFacts ==
    ASSUME NEW n \in Nat, NEW S, S \subseteq 0 .. n, S # {}
    PROVE  Max(S) \in S /\ \A x \in S : Max(S) >= x
<1> DEFINE T == {n - x : x \in S}
<1>1. T \subseteq Nat /\ T # {}
    OBVIOUS
<1> HIDE DEF T
<1>2. Min(T) \in T /\ \A x \in T : Min(T) <= x
    BY <1>1, MinFacts
<1>3. PICK m \in S : Min(T) = n - m
    BY <1>2 DEF T
<1>4. \A x \in S : m >= x
  <2> SUFFICES ASSUME NEW x \in S PROVE m >= x
    OBVIOUS
  <2>1. n - x \in T
    BY DEF T
  <2>2. n - m <= n - x
    BY <1>2, <1>3, <2>1
  <2>3. m \in 0 .. n /\ x \in 0 .. n
    OBVIOUS
  <2> QED
    BY <2>2, <2>3
<1> QED
    BY <1>4, Zenon DEF Max

\* With no array under way nothing is to come.
LEMMA SumsNone ==
    /\ Sums(<<>>, 0)
    /\ \A n : Sums(<<>>, n) => n = 0
<1> DEFINE e == <<>>
<1>1. e \in Seq(Nat) /\ Len(e) = 0
    OBVIOUS
<1> HIDE DEF e
<1>2. Sums(e, 0)
  <2> DEFINE s == [i \in 0 .. 0 |-> 0]
  <2>1. s \in [0 .. Len(e) -> Nat] /\ s[0] = 0 /\ s[Len(e)] = 0
    BY <1>1
  <2> HIDE DEF s
  <2>2. \A j \in 1 .. Len(e) : s[j] = s[j - 1] + e[j]
    BY <1>1
  <2> QED
    BY <1>1, <2>1, <2>2 DEF Sums
<1>3. ASSUME NEW n, Sums(e, n) PROVE n = 0
    BY <1>1, <1>3 DEF Sums
<1> QED
    BY <1>2, <1>3 DEF e

\* One element less of the innermost array.
LEMMA SumsLess ==
    ASSUME NEW c, NEW n, Sums(c, n), c # <<>>, c[Len(c)] > 0
    PROVE  /\ Sums([c EXCEPT ![Len(c)] = @ - 1], n - 1) /\ n \in Nat /\ n > 0
<1>1. PICK s \in [0 .. Len(c) -> Nat] : /\ s[0] = 0 /\ s[Len(c)] = n
                                        /\ \A j \in 1 .. Len(c) : s[j] = s[j - 1] + c[j]
    BY DEF Sums
<1> DEFINE l == Len(c)
           less == c[l] - 1
           d == [c EXCEPT ![l] = less]
           m == n - 1
           t == [s EXCEPT ![l] = m]
<1>2. c \in Seq(Nat) /\ l \in Nat /\ l # 0 /\ \A i \in 1 .. l : c[i] \in Nat
  <2>1. c \in Seq(Nat)
    BY DEF Sums
  <2> QED
    BY <2>1, EmptySeq, LenProperties
<1>3. l \in 1 .. l /\ c[l] \in Nat /\ c[l] > 0 /\ less \in Nat /\ l \in 0 .. l /\ l - 1 \in 0 .. l
    BY <1>2
<1>4. d \in Seq(Nat) /\ Len(d) = l /\ d[l] = less /\ \A i \in 1 .. l : i # l => d[i] = c[i]
    BY <1>2, <1>3, ExceptSeq
<1>5. s[l] = n /\ s[l] \in Nat /\ s[l - 1] \in Nat /\ n = s[l - 1] + c[l]
    BY <1>1, <1>3
<1>6. m \in Nat /\ m = s[l - 1] + less /\ n > 0 /\ n \in Nat
  <2> DEFINE p == s[l - 1]
             q == c[l]
  <2>1. p \in Nat /\ q \in Nat /\ q > 0 /\ n = p + q /\ m = n - 1 /\ less = q - 1
    BY <1>3, <1>5
  <2> HIDE DEF p, q, m, less
  <2>2. m \in Nat /\ m = p + less /\ n > 0 /\ n \in Nat
    BY <2>1
  <2> QED
    BY <2>2 DEF p
<1> HIDE DEF l, less, m
<1>7. t \in [0 .. l -> Nat] /\ t[l] = m /\ \A i \in 0 .. l : i # l => t[i] = s[i]
    BY <1>1, <1>3, <1>6 DEF l
<1> HIDE DEF t, d
<1>8. \A j \in 1 .. l : t[j] = t[j - 1] + d[j]
  <2> SUFFICES ASSUME NEW j \in 1 .. l PROVE t[j] = t[j - 1] + d[j]
    OBVIOUS
  <2>1. j - 1 \in 0 .. l /\ j \in 0 .. l /\ j - 1 # l
    BY <1>2
  <2>2. t[j - 1] = s[j - 1]
    BY <1>7, <2>1
  <2>3. CASE j = l
    BY <1>4, <1>6, <1>7, <2>2, <2>3
  <2>4. CASE j # l
    <3>1. s[j] = s[j - 1] + c[j]
        BY <1>1 DEF l
    <3> QED
        BY <1>4, <1>7, <2>1, <2>2, <2>4, <3>1
  <2> QED
    BY <2>3, <2>4
<1>9. t[0] = 0
    BY <1>1, <1>2, <1>7
<1>10. Sums(d, m)
    BY <1>4, <1>7, <1>8, <1>9 DEF Sums
<1>11. d = [c EXCEPT ![Len(c)] = @ - 1]
    BY DEF d, l, less
<1> QED
    BY <1>6, <1>10, <1>11 DEF m

\* An array of m elements more.
LEMMA SumsMore ==
    ASSUME NEW c, NEW n, Sums(c, n), NEW m \in Nat
    PROVE  Sums(Append(c, m), n + m) /\ n \in Nat
<1>1. PICK s \in [0 .. Len(c) -> Nat] : /\ s[0] = 0 /\ s[Len(c)] = n
                                        /\ \A j \in 1 .. Len(c) : s[j] = s[j - 1] + c[j]
    BY DEF Sums
<1> DEFINE l == Len(c)
           k == n + m
           d == Append(c, m)
           t == [i \in 0 .. l + 1 |-> IF i = l + 1 THEN k ELSE s[i]]
<1>2. c \in Seq(Nat) /\ l \in Nat
  <2>1. c \in Seq(Nat)
    BY DEF Sums
  <2> QED
    BY <2>1, LenProperties
<1>3. n \in Nat /\ k \in Nat
    BY <1>1, <1>2
<1>4. d \in Seq(Nat) /\ Len(d) = l + 1 /\ d[l + 1] = m /\ \A i \in 1 .. l : d[i] = c[i]
    BY <1>2, AppendProperties
<1> HIDE DEF l, d
<1>5. /\ t \in [0 .. l + 1 -> Nat] /\ t[l + 1] = k /\ \A i \in 0 .. l : t[i] = s[i]
  <2>1. \A i \in 0 .. l + 1 : (IF i = l + 1 THEN k ELSE s[i]) \in Nat
    <3> SUFFICES ASSUME NEW i \in 0 .. l + 1, i # l + 1 PROVE s[i] \in Nat
        BY <1>3
    <3>1. i \in 0 .. l
        BY <1>2
    <3> QED
        BY <1>1, <3>1 DEF l
  <2>2. l + 1 \in 0 .. l + 1 /\ \A i \in 0 .. l : i \in 0 .. l + 1 /\ i # l + 1
    BY <1>2
  <2> QED
    BY <2>1, <2>2
<1>k. k = n + m
    OBVIOUS
<1> HIDE DEF t, k
<1>6. \A j \in 1 .. l + 1 : t[j] = t[j - 1] + d[j]
  <2> SUFFICES ASSUME NEW j \in 1 .. l + 1 PROVE t[j] = t[j - 1] + d[j]
    OBVIOUS
  <2>1. j - 1 \in 0 .. l /\ t[j - 1] = s[j - 1]
    BY <1>2, <1>5
  <2>2. CASE j = l + 1
    <3>1. j - 1 = l /\ t[j] = k /\ d[j] = m /\ s[l] = n
        BY <1>1, <1>2, <1>4, <1>5, <2>2 DEF l
    <3> QED
        BY <1>k, <2>1, <3>1
  <2>3. CASE j # l + 1
    <3>1. j \in 1 .. l /\ j \in 0 .. l
        BY <1>2, <2>3
    <3>2. s[j] = s[j - 1] + c[j]
        BY <1>1, <3>1 DEF l
    <3> QED
        BY <1>4, <1>5, <2>1, <3>1, <3>2
  <2> QED
    BY <2>2, <2>3
<1>7. t[0] = 0
    BY <1>1, <1>2, <1>5
<1>8. Sums(d, k)
    BY <1>4, <1>5, <1>6, <1>7 DEF Sums
<1> QED
    BY <1>3, <1>8 DEF d, k

\* Arrays that have no element to come are complete.
LEMMA ArraysFacts ==
    ASSUME NEW c, NEW n, Sums(c, n)
    PROVE  /\ Sums(Arrays(c), n) /\ n \in Nat
           /\ n = 0 => Arrays(c) = <<>>
           /\ n # 0 => Arrays(c) # <<>> /\ Arrays(c)[Len(Arrays(c))] > 0
<1>1. PICK s \in [0 .. Len(c) -> Nat] : /\ s[0] = 0 /\ s[Len(c)] = n
                                        /\ \A j \in 1 .. Len(c) : s[j] = s[j - 1] + c[j]
    BY DEF Sums
<1> DEFINE l == Len(c)
           pos == {i \in DOMAIN c : c[i] > 0}
           A == {0} \cup pos
           m == Max(A)
<1>2. c \in Seq(Nat) /\ l \in Nat /\ DOMAIN c = 1 .. l /\ \A i \in 1 .. l : c[i] \in Nat
  <2>1. c \in Seq(Nat)
    BY DEF Sums
  <2> QED
    BY <2>1, LenProperties
<1>3. A \subseteq 0 .. l /\ A # {}
    BY <1>2
<1>4. m \in A /\ \A x \in A : m >= x
  <2> HIDE DEF A
  <2> QED
    BY <1>2, <1>3, MaxFacts
<1>a. Arrays(c) = SubSeq(c, 1, m)
    BY DEF Arrays
<1> HIDE DEF m, l
<1>5. /\ m \in 0 .. l /\ (m # 0 => m \in 1 .. l /\ c[m] > 0)
      /\ \A i \in 1 .. l : i > m => c[i] = 0
  <2>1. m \in 0 .. l
    BY <1>3, <1>4
  <2>2. m # 0 => m \in 1 .. l /\ c[m] > 0
    BY <1>2, <1>4
  <2>3. ASSUME NEW i \in 1 .. l, i > m PROVE c[i] = 0
    <3>1. i \notin A
        BY <1>4, <2>1, <2>3
    <3> QED
        BY <1>2, <3>1
  <2> QED
    BY <2>1, <2>2, <2>3
<1> HIDE DEF A, pos
<1> DEFINE d == SubSeq(c, 1, m)
<1>6. d \in Seq(Nat) /\ Len(d) = m /\ \A i \in 1 .. m : d[i] = c[i]
  <2> DEFINE lo == 1
  <2>1. lo = 1
    OBVIOUS
  <2>2. \A i \in lo .. m : c[i] \in Nat
    BY <1>2, <1>5
  <2> HIDE DEF lo
  <2>3. lo \in Int /\ m \in Int
    BY <1>5, <2>1
  <2>4. /\ SubSeq(c, lo, m) \in Seq(Nat)
        /\ Len(SubSeq(c, lo, m)) = IF lo <= m THEN m - lo + 1 ELSE 0
        /\ \A i \in 1 .. m - lo + 1 : SubSeq(c, lo, m)[i] = c[lo + i - 1]
    BY <1>2, <2>2, <2>3, SubSeqProperties
  <2> DEFINE e == SubSeq(c, lo, m)
  <2> HIDE DEF e
  <2>5. Len(e) = IF lo <= m THEN m - lo + 1 ELSE 0
    BY <2>4 DEF e
  <2>6. Len(e) = m
    BY <1>5, <2>1, <2>5
  <2>7. \A i \in 1 .. m : e[i] = c[i]
    <3>1. m - lo + 1 = m /\ \A i \in 1 .. m : lo + i - 1 = i
        BY <1>5, <2>1
    <3> QED
        BY <2>4, <3>1 DEF e
  <2>8. d = e
    BY <2>1 DEF e
  <2> QED
    BY <2>4, <2>6, <2>7, <2>8 DEF e
<1> HIDE DEF d
<1>7. s \in [0 .. l -> Nat] /\ s[l] = n /\ \A j \in 1 .. l : s[j] = s[j - 1] + c[j]
    BY <1>1 DEF l
<1> DEFINE S == {i \in 0 .. l : i >= m => s[i] = s[m]}
<1>8. 0 \in S
    BY <1>2, <1>5
<1>9. ASSUME NEW i \in 0 .. l - 1, i \in S PROVE i + 1 \in S
  <2>1. i + 1 \in 1 .. l /\ (i + 1) - 1 = i /\ i \in Nat
    BY <1>2
  <2>2. s[i + 1] = s[i] + c[i + 1] /\ s[i] \in Nat
    BY <1>2, <1>7, <2>1
  <2>3. CASE i + 1 > m
    <3>1. i >= m /\ c[i + 1] = 0 /\ s[i] = s[m]
        BY <1>5, <1>9, <2>1, <2>3
    <3>2. s[i + 1] = s[m]
        BY <2>2, <3>1
    <3> QED
        BY <2>1, <3>2
  <2>4. CASE i + 1 = m
    BY <2>1, <2>4
  <2>5. CASE i + 1 < m
    BY <2>1, <2>5, <1>5
  <2> QED
    BY <1>5, <2>1, <2>3, <2>4, <2>5
<1> HIDE DEF S
<1>10. 0 .. l \subseteq S
    BY <1>2, <1>8, <1>9, InductUpTo
<1>11. s[m] = n
  <2>1. l \in S /\ l >= m
    BY <1>2, <1>5, <1>10
  <2> QED
    BY <1>7, <2>1 DEF S
<1>12. Sums(d, n)
  <2> DEFINE t == [i \in 0 .. m |-> s[i]]
  <2>1. t \in [0 .. m -> Nat] /\ \A i \in 0 .. m : t[i] = s[i]
    BY <1>5, <1>7
  <2> HIDE DEF t
  <2>2. t[0] = 0 /\ t[m] = n
    BY <1>1, <1>5, <1>11, <2>1
  <2>3. \A j \in 1 .. m : t[j] = t[j - 1] + d[j]
    <3> SUFFICES ASSUME NEW j \in 1 .. m PROVE t[j] = t[j - 1] + d[j]
        OBVIOUS
    <3>1. j \in 1 .. l /\ j \in 0 .. m /\ j - 1 \in 0 .. m
        BY <1>2, <1>5
    <3> QED
        BY <1>6, <1>7, <2>1, <3>1
  <2> QED
    BY <1>6, <2>1, <2>2, <2>3 DEF Sums
<1>13. n \in Nat
    BY <1>2, <1>7
<1>14. CASE m = 0
  <2>1. n = 0 /\ d = <<>>
    BY <1>1, <1>6, <1>11, <1>14, EmptySeq
  <2> QED
    BY <1>12, <1>13, <1>a, <2>1 DEF d
<1>15. CASE m # 0
  <2>1. m \in 1 .. l /\ c[m] > 0 /\ c[m] \in Nat /\ m - 1 \in 0 .. l /\ m \in 1 .. m
    BY <1>2, <1>5, <1>15
  <2>2. s[m] = s[m - 1] + c[m] /\ s[m - 1] \in Nat
    BY <1>7, <2>1
  <2>3. n # 0
    BY <1>11, <2>1, <2>2
  <2>4. d[Len(d)] > 0
    BY <1>6, <2>1
  <2>5. d # <<>>
    BY <1>6, <1>15, EmptySeq
  <2> QED
    BY <1>12, <1>13, <1>a, <2>3, <2>4, <2>5 DEF d
<1> QED
    BY <1>14, <1>15

\* A function on 1 .. n is a sequence of n elements.
LEMMA CellSeq ==
    ASSUME NEW S, NEW n \in Nat, NEW f \in [1 .. n -> S]
    PROVE  f \in Seq(S) /\ Len(f) = n
<1>1. f \in Seq(S)
    BY SeqDef
<1>2. Len(f) \in Nat /\ DOMAIN f = 1 .. Len(f) /\ DOMAIN f = 1 .. n
    BY <1>1, LenProperties
<1>3. Len(f) = n
  <2> DEFINE l == Len(f)
  <2>1. l \in Nat /\ 1 .. l = 1 .. n
    BY <1>2
  <2> HIDE DEF l
  <2>2. l = n
    <3>1. CASE l < n
      <4>1. n \in 1 .. n /\ n \notin 1 .. l
        BY <2>1, <3>1
      <4> QED
        BY <2>1, <4>1
    <3>2. CASE l > n
      <4>1. l \in 1 .. l /\ l \notin 1 .. n
        BY <2>1, <3>2
      <4> QED
        BY <2>1, <4>1
    <3> QED
        BY <2>1, <3>1, <3>2
  <2> QED
    BY <2>2 DEF l
<1> QED
    BY <1>1, <1>3

\* What strncpy copies are characters ...
LEMMA CopyTyped ==
    ASSUME mem \in [0 .. Cap - 1 -> Int], Cap \in Nat, NEW p \in Nat, NEW n \in Nat, p + n <= Cap
    PROVE  Copy(p, n) \in Chars /\ Len(Copy(p, n)) = n
<1>1. \A i \in 1 .. n : mem[p + i - 1] \in Int
  <2>1. \A i \in 1 .. n : p + i - 1 \in 0 .. Cap - 1
    OBVIOUS
  <2> QED
    BY <2>1
<1>2. \A i \in 1 .. n : (IF \E k \in p .. p + i - 1 : mem[k] = NUL THEN NUL ELSE mem[p + i - 1]) \in Int
    BY <1>1 DEF NUL
<1> DEFINE f == [i \in 1 .. n |-> IF \E k \in p .. p + i - 1 : mem[k] = NUL THEN NUL ELSE mem[p + i - 1]]
<1>3. f \in [1 .. n -> Int]
    BY <1>2
<1>4. Copy(p, n) = f
    BY DEF Copy
<1> HIDE DEF f
<1>5. f \in Seq(Int) /\ Len(f) = n
    BY <1>3, CellSeq
<1> QED
    BY <1>4, <1>5 DEF Chars

\* ... and those that are there, up to a NUL.
LEMMA CopyFacts ==
    ASSUME mem \in [0 .. Cap - 1 -> Int], Cap \in Nat, NEW p \in Nat, NEW n \in Nat, p + n <= Cap,
           \A i \in 1 .. n : mem[p + i - 1] # NUL
    PROVE  \A i \in 1 .. n : Copy(p, n)[i] = mem[p + i - 1]
<1> SUFFICES ASSUME NEW i \in 1 .. n PROVE Copy(p, n)[i] = mem[p + i - 1]
    OBVIOUS
<1>1. ASSUME NEW k \in p .. p + i - 1 PROVE mem[k] # NUL
  <2>1. k - p + 1 \in 1 .. n /\ p + (k - p + 1) - 1 = k
    OBVIOUS
  <2> QED
    BY <2>1
<1>2. Copy(p, n)[i] = IF \E k \in p .. p + i - 1 : mem[k] = NUL THEN NUL ELSE mem[p + i - 1]
    BY DEF Copy
<1> QED
    BY <1>1, <1>2

\* A copy of a string that is there.
LEMMA CopyIs ==
    ASSUME mem \in [0 .. Cap - 1 -> Int], Cap \in Nat, NEW p \in Nat, NEW v \in Chars, p + Len(v) <= Cap,
           \A i \in 1 .. Len(v) : mem[p + i - 1] = v[i] /\ v[i] # NUL
    PROVE  Copy(p, Len(v)) = v
<1> DEFINE n == Len(v)
           c == Copy(p, n)
<1>1. n \in Nat /\ v \in Seq(Int)
    BY LenProperties DEF Chars
<1> HIDE DEF n
<1>2. p + n <= Cap /\ \A i \in 1 .. n : mem[p + i - 1] = v[i] /\ v[i] # NUL
    BY DEF n
<1>3. c \in Seq(Int) /\ Len(c) = n
    BY <1>1, <1>2, CopyTyped DEF Chars
<1>4. \A i \in 1 .. n : c[i] = mem[p + i - 1]
  <2>1. \A i \in 1 .. n : mem[p + i - 1] # NUL
    BY <1>2
  <2> QED
    BY <1>1, <1>2, <2>1, CopyFacts
<1> HIDE DEF c
<1>5. \A i \in 1 .. Len(c) : c[i] = v[i]
    BY <1>2, <1>3, <1>4
<1>6. Len(c) = Len(v)
    BY <1>3 DEF n
<1>7. c = v
    BY <1>1, <1>3, <1>5, <1>6, SeqEqual
<1> QED
    BY <1>7 DEF c, n

\* strstr and the digits loop find the end of a line.
LEMMA FindLine ==
    ASSUME mem \in [0 .. Cap - 1 -> Int], Cap \in Nat, NEW p \in Nat, NEW t \in Chars,
           p + Len(t) + 3 <= Cap,
           mem[p] # CR, mem[p] # NUL,
           \A i \in 1 .. Len(t) : mem[p + i] = t[i] /\ t[i] # CR /\ t[i] # NUL,
           mem[p + Len(t) + 1] = CR, mem[p + Len(t) + 2] = LF
    PROVE  /\ \A q \in {p, p + 1} : LineEnds(q) # {} /\ Min(LineEnds(q)) = p + Len(t) + 1
           /\ \E j \in p + 1 .. Cap - 1 : mem[j] = CR
           /\ FirstCR(p + 1) = p + Len(t) + 1
           /\ Text(p + 1, p + Len(t) + 1) = t
<1> DEFINE n == Len(t)
           e == p + n + 1
<1>1. n \in Nat /\ t \in Seq(Int)
    BY LenProperties DEF Chars
<1> HIDE DEF n
<1>2. /\ p + n + 3 <= Cap /\ mem[e] = CR /\ mem[e + 1] = LF
      /\ \A i \in 1 .. n : mem[p + i] = t[i] /\ t[i] # CR /\ t[i] # NUL
  <2>1. p + Len(t) + 2 = e + 1
    BY <1>1 DEF n
  <2> QED
    BY <2>1 DEF n
<1>3. \A k \in p .. e - 1 : mem[k] # CR /\ mem[k] # NUL
  <2> SUFFICES ASSUME NEW k \in p .. e - 1 PROVE mem[k] # CR /\ mem[k] # NUL
    OBVIOUS
  <2>1. CASE k = p
    BY <2>1
  <2>2. CASE k # p
    <3>1. k - p \in 1 .. n /\ p + (k - p) = k
        BY <1>1, <2>2
    <3> QED
        BY <1>2, <3>1
  <2> QED
    BY <2>1, <2>2
<1>4. CR # NUL
    BY DEF CR, NUL
<1>5. ASSUME NEW q \in {p, p + 1} PROVE LineEnds(q) # {} /\ Min(LineEnds(q)) = e
  <2>1. q \in Nat /\ q >= p /\ q <= e /\ e \in q .. Cap - 2
    BY <1>1, <1>2
  <2>2. \A k \in q .. e : mem[k] # NUL
    <3> SUFFICES ASSUME NEW k \in q .. e PROVE mem[k] # NUL
        OBVIOUS
    <3>1. k = e \/ k \in p .. e - 1
        BY <1>1, <2>1
    <3> QED
        BY <1>2, <1>3, <1>4, <3>1
  <2>3. e \in LineEnds(q)
    BY <1>2, <2>1, <2>2 DEF LineEnds
  <2>4. LineEnds(q) \subseteq Nat
    BY <2>1 DEF LineEnds
  <2> DEFINE m == Min(LineEnds(q))
  <2>5. m \in LineEnds(q) /\ m <= e
    BY <2>3, <2>4, MinFacts
  <2>6. m \in q .. Cap - 2 /\ mem[m] = CR
    BY <2>5 DEF LineEnds
  <2> HIDE DEF m
  <2>7. m >= e
    <3> SUFFICES ASSUME ~ (m >= e) PROVE FALSE
        OBVIOUS
    <3>1. m \in p .. e - 1
        BY <1>1, <2>1, <2>6
    <3> QED
        BY <1>3, <2>6, <3>1
  <2>8. m = e
    BY <2>1, <2>5, <2>6, <2>7
  <2> QED
    BY <2>3, <2>8 DEF m
<1>6. FirstCR(p + 1) = e
  <2> DEFINE A == {j \in p + 1 .. Cap - 1 : mem[j] = CR}
             m == Min(A)
  <2>1. e \in p + 1 .. Cap - 1
    BY <1>1, <1>2
  <2>2. e \in A /\ A \subseteq Nat
    BY <1>2, <2>1
  <2>3. m \in A /\ m <= e
    <3> HIDE DEF A
    <3> QED
        BY <2>2, MinFacts
  <2>4. FirstCR(p + 1) = m
    BY DEF FirstCR
  <2> HIDE DEF m
  <2>5. m \in p + 1 .. Cap - 1 /\ mem[m] = CR
    BY <2>3
  <2>6. m >= e
    <3> SUFFICES ASSUME ~ (m >= e) PROVE FALSE
        OBVIOUS
    <3>1. m \in p .. e - 1
        BY <1>1, <2>1, <2>5
    <3> QED
        BY <1>3, <2>5, <3>1
  <2> QED
    BY <2>1, <2>3, <2>4, <2>5, <2>6
<1>7. Text(p + 1, e) = t
  <2> DEFINE q == p + 1
  <2>1. q \in Nat /\ q + n <= Cap /\ e - q = n
    BY <1>1, <1>2
  <2>2. \A i \in 1 .. n : q + i - 1 = p + i
    BY <1>1
  <2> HIDE DEF q
  <2>3. \A i \in 1 .. n : mem[q + i - 1] = t[i] /\ t[i] # NUL
    BY <1>2, <2>2
  <2>4. Copy(q, Len(t)) = t
    BY <2>1, <2>3, CopyIs DEF n
  <2>5. Text(q, e) = Copy(q, n)
    BY <2>1 DEF Text
  <2> QED
    BY <2>4, <2>5 DEF q, n
<1>8. e \in p + 1 .. Cap - 1
    BY <1>1, <1>2
<1> QED
    BY <1>2, <1>5, <1>6, <1>7, <1>8 DEF n

-----------------------------------------------------------------------------
(* The types are kept *)

\* A read gets no more than there is, and no more than there is room for.
LEMMA AmountsFacts ==
    ASSUME inp \in Chars, NEW room \in Nat, NEW n \in Amounts(room)
    PROVE  n \in Nat /\ n <= Len(inp) /\ n <= room
<1>1. Len(inp) \in Nat
    BY LenProperties DEF Chars
<1>2. AtMost(room) \in Nat /\ AtMost(room) <= Len(inp) /\ AtMost(room) <= room
    BY <1>1 DEF AtMost
<1>3. n = 0 \/ n \in 1 .. AtMost(room)
    BY DEF Amounts
<1> QED
    BY <1>1, <1>2, <1>3

\* What a read does to the buffer keeps its type and its end.
LEMMA FillTyped ==
    ASSUME Typed, Cap \in Nat, NEW from \in Nat, NEW keep \in Nat, from + keep <= Cap,
           NEW n \in Nat, n <= Len(inp), keep + n <= Cap, Fill(from, keep, n)
    PROVE  /\ mem' \in [0 .. Cap - 1 -> Int] /\ inp' \in Chars
           /\ inp = <<>> => inp' = <<>>
           /\ seek' = 0 /\ end' = keep + n /\ end' \in 0 .. Cap
<1>1. mem \in [0 .. Cap - 1 -> Int] /\ inp \in Chars
    BY DEF Typed
<1>2. Len(inp) \in Nat /\ n \in 0 .. Len(inp) /\ \A i \in 1 .. Len(inp) : inp[i] \in Int
  <2>1. inp \in Seq(Int)
    BY <1>1 DEF Chars
  <2>2. Len(inp) \in Nat /\ \A i \in 1 .. Len(inp) : inp[i] \in Int
    BY <2>1, LenProperties
  <2> QED
    BY <2>2
<1>3. /\ mem' = [i \in 0 .. Cap - 1 |-> IF i < keep THEN mem[from + i]
                                    ELSE IF i < keep + n THEN inp[i - keep + 1] ELSE mem[i]]
      /\ inp' = SubSeq(inp, n + 1, Len(inp)) /\ seek' = 0 /\ end' = keep + n
  <2>1. DOMAIN mem = 0 .. Cap - 1
    BY <1>1
  <2> QED
    BY <2>1 DEF Fill
<1>4. ASSUME NEW i \in 0 .. Cap - 1
      PROVE  (IF i < keep THEN mem[from + i]
              ELSE IF i < keep + n THEN inp[i - keep + 1] ELSE mem[i]) \in Int
  <2>1. CASE i < keep
    <3>1. from + i \in 0 .. Cap - 1
        BY <2>1
    <3> QED
        BY <1>1, <2>1, <3>1
  <2>2. CASE ~ (i < keep) /\ i < keep + n
    <3>1. i - keep + 1 \in 1 .. Len(inp)
        BY <1>2, <2>2
    <3> QED
        BY <1>2, <2>2, <3>1
  <2>3. CASE ~ (i < keep) /\ ~ (i < keep + n)
    BY <1>1, <2>3
  <2> QED
    BY <2>1, <2>2, <2>3
<1>5. mem' \in [0 .. Cap - 1 -> Int]
    BY <1>3, <1>4
<1>6. inp' \in Chars
    BY <1>1, <1>2, <1>3, DropChars
<1>7. inp = <<>> => inp' = <<>>
  <2> SUFFICES ASSUME inp = <<>> PROVE inp' = <<>>
    OBVIOUS
  <2>1. Len(inp) = 0 /\ n = 0
    BY <1>2
  <2>2. inp' = SubSeq(inp, 1, 0)
    BY <1>3, <2>1
  <2> QED
    BY <2>2, SubSeqEmpty
<1>8. end' \in 0 .. Cap
    BY <1>3
<1> QED
    BY <1>3, <1>5, <1>6, <1>7, <1>8

\* After a value the reply is complete or the next element is due.
LEMMA CompleteTyped ==
    ASSUME NEW node, NEW counts, Complete(node, counts)
    PROVE  at' \in {"returned", "elem"}
BY DEF Complete

\* A length that is taken for one.
LEMMA SaneNat ==
    ASSUME Sane(seek), seek \in Nat, Cap \in Nat, NEW eol \in LineEnds(seek)
    PROVE  parse_len(seek) = -1 \/ parse_len(seek) \in Nat
<1>1. CASE NoLength(seek)
    BY <1>1 DEF parse_len
<1>2. CASE ~ NoLength(seek)
  <2> DEFINE p == seek + 1
             A == {j \in p .. Cap - 1 : mem[j] = CR}
             m == Min(A)
             text == Text(p, m)
  <2>1. mem[seek] \in {Dollar, Star}
    BY <1>2 DEF NoLength
  <2>2. eol \in seek .. Cap - 2 /\ mem[eol] = CR
    BY DEF LineEnds
  <2>3. eol # seek
    BY <2>1, <2>2 DEF Dollar, Star, CR
  <2>4. eol \in p .. Cap - 1
    BY <2>2, <2>3
  <2>5. eol \in A /\ A \subseteq Nat
    BY <2>2, <2>4
  <2>6. m \in A
    <3> HIDE DEF A
    <3> QED
        BY <2>5, MinFacts
  <2>7. m \in p .. Cap - 1
    BY <2>6
  <2>8. FirstCR(p) = m
    BY DEF FirstCR
  <2> HIDE DEF m
  <2> DEFINE n == m - p
  <2>9. n \in Nat
    BY <2>7
  <2> HIDE DEF n
  <2>10. text = [i \in 1 .. n |-> IF \E k \in p .. p + i - 1 : mem[k] = NUL THEN NUL ELSE mem[p + i - 1]]
    BY DEF Text, Copy, n
  <2>11. ToSet(text) \subseteq 0 .. 9
    BY <1>2, <2>8 DEF Sane
  <2>12. DOMAIN text = 1 .. n
    BY <2>10
  <2> HIDE DEF text
  <2>13. \A i \in 1 .. n : text[i] \in 0 .. 9
    BY <2>11, <2>12 DEF ToSet
  <2>14. text = [i \in 1 .. n |-> text[i]]
    BY <2>10 DEF text
  <2>15. text \in [1 .. n -> Nat]
    BY <2>13, <2>14
  <2>16. text \in Seq(Nat)
    BY <2>9, <2>15, CellSeq
  <2>17. Number(text) \in Nat
    BY <2>16, NumberNat
  <2>18. parse_len(seek) = Number(text)
    BY <1>2, <2>8 DEF parse_len, text
  <2> QED
    BY <2>17, <2>18
<1> QED
    BY <1>1, <1>2

\* The buffer has room for a character.
LEMMA CapFacts == Cap \in Nat /\ Cap >= 1
BY CapAssumption

\* The first read of a reply keeps the types.
LEMMA TypedRead ==
    ASSUME Typed, ef_redis_read_reply PROVE Typed'
<1>1. UNCHANGED <<peer, content, need>> /\ at = "first"
    BY DEF ef_redis_read_reply
<1>2. CASE peer = "reset"
  <2>1. at' = "returned" /\ UNCHANGED <<inp, mem, seek, end>>
    BY <1>2 DEF ef_redis_read_reply, buffer_vars
  <2> QED
    BY <1>1, <2>1 DEF Typed, Places
<1>3. CASE peer # "reset"
  <2>1. PICK n \in Amounts(Cap) : Fill(0, 0, n) /\ at' = "reply"
    BY <1>3 DEF ef_redis_read_reply
  <2>2. n \in Nat /\ n <= Len(inp) /\ n <= Cap /\ 0 + n <= Cap /\ 0 + 0 <= Cap
    <3>1. n \in Nat /\ n <= Len(inp) /\ n <= Cap
        BY CapFacts, AmountsFacts DEF Typed
    <3> QED
        BY <3>1, CapFacts
  <2>3. /\ mem' \in [0 .. Cap - 1 -> Int] /\ inp' \in Chars
        /\ inp = <<>> => inp' = <<>>
        /\ seek' = 0 /\ end' \in 0 .. Cap
    BY <2>1, <2>2, CapFacts, FillTyped
  <2> QED
    BY <1>1, <2>1, <2>3 DEF Typed, Places, Parsing
<1> QED
    BY <1>2, <1>3

\* A further read keeps the types.
LEMMA TypedMore ==
    ASSUME Typed, reply_read_more PROVE Typed'
<1>1. UNCHANGED <<peer, content, need, kind>> /\ at \in {"more", "content_more"}
    BY DEF reply_read_more
<1>2. CASE seek > end
  <2>1. at' = "undefined" /\ UNCHANGED <<inp, mem, seek, end>>
    BY <1>2 DEF reply_read_more, buffer_vars
  <2> QED
    BY <1>1, <2>1 DEF Typed, Places
<1>3. CASE ~ (seek > end)
  <2> DEFINE keep == end - seek
  <2>1. keep \in Nat /\ seek \in Nat /\ seek + keep <= Cap /\ keep <= Cap /\ Cap - keep \in Nat
    BY <1>3, CapFacts DEF Typed
  <2>2. CASE peer = "reset"
    <3>1. Fill(seek, keep, 0) /\ at' \in {"returned", "elem"}
        BY <1>3, <2>2, CompleteTyped DEF reply_read_more
    <3> DEFINE z == 0
    <3>2. z \in Nat /\ z <= Len(inp) /\ keep + z <= Cap
      <4>1. Len(inp) \in Nat
        BY LenProperties DEF Typed, Chars
      <4> QED
        BY <2>1, <4>1
    <3> HIDE DEF z, keep
    <3>3. Fill(seek, keep, z)
        BY <3>1 DEF z
    <3>4. /\ mem' \in [0 .. Cap - 1 -> Int] /\ inp' \in Chars
          /\ inp = <<>> => inp' = <<>>
          /\ seek' = 0 /\ end' \in 0 .. Cap
        BY <2>1, <3>2, <3>3, CapFacts, FillTyped
    <3> QED
        BY <1>1, <3>1, <3>4 DEF Typed, Places, Parsing
  <2>3. CASE peer # "reset"
    <3>1. PICK n \in Amounts(Cap - keep) :
             /\ Fill(seek, keep, n)
             /\ at' = IF at = "content_more" THEN "content" ELSE AfterMore
        BY <1>3, <2>3 DEF reply_read_more
    <3>2. n \in Nat /\ n <= Len(inp) /\ keep + n <= Cap
      <4>1. n \in Nat /\ n <= Len(inp) /\ n <= Cap - keep
        BY <2>1, AmountsFacts DEF Typed
      <4> QED
        BY <2>1, <4>1, CapFacts
    <3> HIDE DEF keep
    <3>3. /\ mem' \in [0 .. Cap - 1 -> Int] /\ inp' \in Chars
          /\ inp = <<>> => inp' = <<>>
          /\ seek' = 0 /\ end' \in 0 .. Cap
        BY <2>1, <3>1, <3>2, CapFacts, FillTyped
    <3>4. CASE at = "content_more"
      <4>1. at' = "content"
        BY <3>1, <3>4
      <4> QED
        BY <1>1, <3>3, <3>4, <4>1 DEF Typed, Places, Parsing
    <3>5. CASE at = "more"
      <4>1. at' \in {"header", "more"}
        BY <3>1, <3>5 DEF AfterMore
      <4> QED
        BY <1>1, <3>3, <3>5, <4>1 DEF Typed, Places, Parsing
    <3> QED
        BY <1>1, <3>4, <3>5
  <2> QED
    BY <2>2, <2>3
<1> QED
    BY <1>2, <1>3

\* A step that reads nothing and goes on elsewhere than in a string.
LEMMA TypedElsewhere ==
    ASSUME Typed, UNCHANGED <<peer, inp, mem, end>>, content' \in Chars, seek' \in Nat,
           at' \in Places \ {"string", "content", "content_more"},
           at' \in {"header", "more"} => kind' \in Marks
    PROVE  Typed'
BY DEF Typed

\* Places that ask nothing of need or kind.
Plain == Places \ {"string", "content", "content_more", "header", "more"}

\* The types are kept by a step to a place that asks nothing of need or kind.
LEMMA TypedPlain ==
    ASSUME Typed, UNCHANGED <<peer, inp, mem, end>>, content' \in Chars, seek' \in Nat,
           at' \in Plain
    PROVE  Typed'
BY DEF Typed, Plain

\* Looking at the first character of a value keeps the types.
LEMMA TypedBegin ==
    ASSUME Typed, BeginReply \/ BeginElement PROVE Typed'
<1>1. UNCHANGED <<peer, inp, mem, end, content>>
    BY DEF BeginReply, BeginElement, buffer_vars
<1>2. at' \in {"header", "returned", "undefined", "elem"}
  <2>1. CASE BeginReply
    BY <2>1 DEF BeginReply
  <2>2. CASE BeginElement
    <3>1. CASE seek >= Cap
      BY <2>2, <3>1 DEF BeginElement
    <3>2. CASE seek < Cap /\ mem[seek] \in {Dollar, Colon, Star}
      <4>1. ~ (seek >= Cap)
        BY <3>2, CapFacts DEF Typed
      <4> QED
        BY <2>2, <3>2, <4>1 DEF BeginElement
    <3>3. CASE ~ (seek >= Cap) /\ ~ (seek < Cap /\ mem[seek] \in {Dollar, Colon, Star})
      <4>1. Complete(Wild, [left EXCEPT ![Len(left)] = 0])
        BY <2>2, <3>3 DEF BeginElement
      <4> QED
        BY <4>1, CompleteTyped
    <3> QED
      BY <3>1, <3>2, <3>3
  <2> QED
    BY <2>1, <2>2
<1>3. seek' \in Nat
  <2>1. CASE BeginReply
    BY <2>1 DEF BeginReply, Typed
  <2>2. CASE BeginElement
    BY <2>2 DEF BeginElement, Typed, buffer_vars
  <2> QED
    BY <2>1, <2>2
<1>4. at' \in Places \ {"string", "content", "content_more"} /\ content' \in Chars
    BY <1>1, <1>2 DEF Places, Parsing, Typed
<1>5. at' \in {"header", "more"} => kind' \in Marks
  <2> SUFFICES ASSUME at' \in {"header", "more"} PROVE kind' \in Marks
    OBVIOUS
  <2>1. CASE BeginReply
    BY <2>1 DEF BeginReply, Marks
  <2>2. CASE BeginElement
    <3>1. CASE seek >= Cap
      <4>1. ~ (seek < Cap)
        BY <3>1, CapFacts DEF Typed
      <4>2. at' = "undefined"
        BY <2>2, <3>1, <4>1 DEF BeginElement
      <4> QED
        BY <4>2
    <3>2. CASE seek < Cap /\ mem[seek] \in {Dollar, Colon, Star}
      <4>1. ~ (seek >= Cap)
        BY <3>2, CapFacts DEF Typed
      <4> QED
        BY <2>2, <3>2, <4>1 DEF BeginElement, Marks
    <3>3. CASE ~ (seek >= Cap) /\ ~ (seek < Cap /\ mem[seek] \in {Dollar, Colon, Star})
      <4>1. Complete(Wild, [left EXCEPT ![Len(left)] = 0])
        BY <2>2, <3>3 DEF BeginElement
      <4> QED
        BY <4>1, CompleteTyped
    <3> QED
      BY <3>1, <3>2, <3>3
  <2> QED
    BY <2>1, <2>2
<1> QED
    BY <1>1, <1>3, <1>4, <1>5, TypedElsewhere

\* Finding a string keeps the types.
LEMMA TypedStringAt ==
    ASSUME Typed, UNCHANGED <<peer, inp, mem, end>>, NEW p \in Nat, NEW len, len = -1 \/ len \in Nat,
           StringAt(p, len)
    PROVE  Typed'
<1>1. seek' = p /\ need' = len /\ content' = <<>>
    BY DEF StringAt
<1>2. content' \in Chars
    BY <1>1 DEF Chars
<1>3. CASE len = -1
  <2>1. at' \in {"returned", "elem"}
    BY <1>3, CompleteTyped DEF StringAt
  <2>2. at' \in Plain
    BY <2>1 DEF Places, Parsing, Plain
  <2> QED
    BY <1>1, <1>2, <2>2, TypedPlain
<1>4. CASE len # -1
  <2>1. at' = "string" /\ len \in Nat
    BY <1>4 DEF StringAt
  <2> QED
    BY <1>1, <1>2, <2>1 DEF Typed, Places, Parsing
<1> QED
    BY <1>3, <1>4

\* The first line of a value keeps the types.
LEMMA TypedHeader ==
    ASSUME Typed, Header PROVE Typed'
<1>1. UNCHANGED <<peer, inp, mem, end>> /\ at = "header"
    BY DEF Header
<1>2. CASE LineEnds(seek) = {}
  <2>1. at' \in {"more", "undefined"} /\ UNCHANGED <<seek, content>>
    BY <1>2 DEF Header, value_vars
  <2>2. at' \in Places \ {"string", "content", "content_more"} /\ seek' \in Nat /\ content' \in Chars
    BY <2>1 DEF Places, Parsing, Typed
  <2>3. kind' \in Marks
    BY <1>1, <1>2 DEF Header, value_vars, Typed
  <2> QED
    BY <1>1, <2>2, <2>3, TypedElsewhere
<1>3. CASE LineEnds(seek) # {}
  <2> DEFINE eol == Min(LineEnds(seek))
  <2>0. seek \in Nat /\ content \in Chars
    BY DEF Typed
  <2>k. kind \in Marks
    BY <1>1 DEF Typed
  <2>1. (CASE kind = Plus -> parse_single_string(eol)
          [] kind = Dollar -> parse_bulk_string(eol)
          [] kind = Colon  -> parse_long
          [] kind = Star   -> parse_array(eol)
          [] kind = Minus  -> parse_error(eol))
    BY <1>3 DEF Header
  <2>2. eol \in LineEnds(seek)
    <3>1. LineEnds(seek) \subseteq Nat
        BY <2>0 DEF LineEnds
    <3> QED
        BY <1>3, <3>1, MinFacts
  <2> HIDE DEF eol
  <2>3. eol \in Nat /\ eol >= seek
    BY <2>0, <2>2 DEF LineEnds
  <2>4. CASE parse_single_string(eol)
    <3>1. eol - seek \in Nat
        BY <2>0, <2>3
    <3> DEFINE len == eol - seek
    <3>2. StringAt(seek, len)
        BY <2>4 DEF parse_single_string
    <3> HIDE DEF len
    <3> QED
        BY <1>1, <2>0, <3>1, <3>2, TypedStringAt DEF len
  <2>5. CASE parse_bulk_string(eol)
    <3>1. CASE Sane(seek)
      <4> DEFINE p == eol + 2
                 len == parse_len(seek)
      <4>1. StringAt(p, len)
        BY <2>5, <3>1 DEF parse_bulk_string
      <4>2. len = -1 \/ len \in Nat
        BY <2>0, <2>2, <3>1, CapFacts, SaneNat
      <4>3. p \in Nat
        BY <2>3
      <4> HIDE DEF p, len
      <4> QED
        BY <1>1, <4>1, <4>2, <4>3, TypedStringAt
    <3>2. CASE ~ Sane(seek)
      <4>1. at' = "undefined" /\ UNCHANGED <<seek, content>>
        BY <2>5, <3>2 DEF parse_bulk_string
      <4>2. at' \in Plain /\ seek' \in Nat /\ content' \in Chars
        BY <2>0, <4>1 DEF Places, Plain
      <4> QED
        BY <1>1, <4>2, TypedPlain
    <3> QED
      BY <3>1, <3>2
  <2>6. CASE parse_long
    <3>0. content' \in Chars
        BY <2>0, <2>6 DEF parse_long
    <3>1. CASE \E j \in seek + 1 .. Cap - 1 : mem[j] = CR
      <4> DEFINE A == {j \in seek + 1 .. Cap - 1 : mem[j] = CR}
                 m == Min(A)
      <4>1. A # {} /\ A \subseteq Nat
        BY <2>0, <3>1
      <4>2. m \in Nat
        <5> HIDE DEF A
        <5> QED
          BY <4>1, MinFacts
      <4>3. FirstCR(seek + 1) = m
        BY DEF FirstCR
      <4> HIDE DEF m
      <4>4. seek' = m + 2 /\ at' \in {"returned", "elem"}
        BY <2>6, <3>1, <4>3, CompleteTyped DEF parse_long
      <4>5. seek' \in Nat
        BY <4>2, <4>4
      <4>6. at' \in Plain
        BY <4>4 DEF Places, Parsing, Plain
      <4> QED
        BY <1>1, <3>0, <4>5, <4>6, TypedPlain
    <3>2. CASE ~ \E j \in seek + 1 .. Cap - 1 : mem[j] = CR
      <4>1. at' = "undefined" /\ seek' = seek
        BY <2>6, <3>2 DEF parse_long
      <4>2. at' \in Plain /\ seek' \in Nat
        BY <2>0, <4>1 DEF Places, Plain
      <4> QED
        BY <1>1, <3>0, <4>2, TypedPlain
    <3> QED
      BY <3>1, <3>2
  <2>7. CASE parse_array(eol)
    <3>0. content' \in Chars
        BY <2>0, <2>7 DEF parse_array
    <3>1. at' \in {"undefined", "returned", "elem"}
        BY <2>7, CompleteTyped DEF parse_array
    <3>2. seek' = seek \/ seek' = eol + 2
        BY <2>7 DEF parse_array
    <3>3. seek' \in Nat
        BY <2>0, <2>3, <3>2
    <3>4. at' \in Plain
        BY <3>1 DEF Places, Parsing, Plain
    <3> QED
        BY <1>1, <3>0, <3>3, <3>4, TypedPlain
  <2>8. CASE parse_error(eol)
    <3>1. content' \in Chars /\ seek' \in Nat
        BY <2>0, <2>8 DEF parse_error
    <3>2. at' \in {"undefined", "returned", "elem"}
        BY <2>8, CompleteTyped DEF parse_error
    <3>3. at' \in Plain
        BY <3>2 DEF Places, Parsing, Plain
    <3> QED
        BY <1>1, <3>1, <3>3, TypedPlain
  <2> QED
    BY <2>1, <2>k, <2>4, <2>5, <2>6, <2>7, <2>8, Zenon DEF Marks
<1> QED
    BY <1>2, <1>3

\* A string in the buffer keeps the types.
LEMMA TypedString ==
    ASSUME Typed, String PROVE Typed'
<1>1. UNCHANGED <<peer, inp, mem, end, need>> /\ at = "string"
    BY DEF String
<1>2. seek \in Nat /\ end \in 0 .. Cap /\ need \in Nat /\ content \in Chars /\ mem \in [0 .. Cap - 1 -> Int]
    BY <1>1 DEF Typed
<1>3. CASE end >= seek /\ end - seek < need
  <2> DEFINE n == end - seek
  <2>1. content' = Copy(seek, n) /\ seek' = end /\ at' = "content_more"
    BY <1>3 DEF String
  <2>2. n \in Nat /\ n < need /\ seek + n <= Cap
    BY <1>2, <1>3, CapFacts
  <2> HIDE DEF n
  <2>3. content' \in Chars /\ Len(content') = n
    BY <1>2, <2>1, <2>2, CapFacts, CopyTyped
  <2>4. seek' \in Nat
    BY <1>2, <2>1, CapFacts
  <2>5. at' \in Places
    BY <2>1 DEF Places, Parsing
  <2> QED
    BY <1>1, <1>2, <2>1, <2>2, <2>3, <2>4, <2>5 DEF Typed
<1>4. CASE ~ (end >= seek /\ end - seek < need)
  <2>1. seek' = seek + need + 2 /\ content' = content
    BY <1>4 DEF String
  <2>2. CASE seek + need > Cap
    <3>1. at' = "undefined"
        BY <1>4, <2>2 DEF String
    <3>2. at' \in Plain /\ seek' \in Nat /\ content' \in Chars
        BY <1>2, <2>1, <3>1 DEF Plain, Places
    <3> QED
        BY <1>1, <3>2, TypedPlain
  <2>3. CASE ~ (seek + need > Cap)
    <3>1. at' \in {"returned", "elem"}
        BY <1>4, <2>3, CompleteTyped DEF String
    <3>2. at' \in Plain /\ seek' \in Nat /\ content' \in Chars
        BY <1>2, <2>1, <3>1 DEF Plain, Places, Parsing
    <3> QED
        BY <1>1, <3>2, TypedPlain
  <2> QED
    BY <2>2, <2>3
<1> QED
    BY <1>3, <1>4

\* A further piece of a string keeps the types.
LEMMA TypedContent ==
    ASSUME Typed, Content PROVE Typed'
<1>1. UNCHANGED <<peer, inp, mem, end, need>> /\ at = "content"
    BY DEF Content
<1> DEFINE have == Len(content)
<1>2. /\ seek = 0 /\ end \in 0 .. Cap /\ need \in Nat /\ content \in Chars /\ mem \in [0 .. Cap - 1 -> Int]
      /\ have \in Nat /\ have < need
    BY <1>1, LenProperties DEF Typed, Chars
<1>3. CASE end - seek + have < need
  <2> DEFINE n == end - seek
             piece == Copy(seek, n)
  <2>1. content' = content \o piece /\ seek' = end /\ at' = "content_more"
    BY <1>3 DEF Content
  <2>2. n \in Nat /\ n + have < need /\ seek + n <= Cap /\ seek \in Nat
    BY <1>2, <1>3, CapFacts
  <2> HIDE DEF n
  <2>3. piece \in Chars /\ Len(piece) = n
    BY <1>2, <2>2, CapFacts, CopyTyped
  <2> HIDE DEF piece
  <2>4. content \o piece \in Chars /\ Len(content \o piece) = have + n
    BY <1>2, <2>3, JoinChars
  <2>5. Len(content') < need'
    BY <1>1, <1>2, <2>1, <2>2, <2>4
  <2>6. seek' \in Nat /\ content' \in Chars
    BY <1>2, <2>1, <2>4, CapFacts
  <2>7. at' \in Places
    BY <2>1 DEF Places, Parsing
  <2> QED
    BY <1>1, <1>2, <2>1, <2>5, <2>6, <2>7 DEF Typed
<1>4. CASE ~ (end - seek + have < need)
  <2>1. seek' = seek + need - have /\ content' = content /\ at' \in {"returned", "elem"}
    BY <1>4, CompleteTyped DEF Content
  <2> HIDE DEF have
  <2>2. at' \in Plain /\ seek' \in Nat /\ content' \in Chars
    BY <1>2, <2>1 DEF Plain, Places, Parsing
  <2> QED
    BY <1>1, <2>2, TypedPlain
<1> QED
    BY <1>3, <1>4

\* A command keeps the types.
LEMMA TypedCmd ==
    ASSUME Typed, ef_redis_cmd PROVE Typed'
<1>1. UNCHANGED <<peer, mem, seek, end>> /\ content' = <<>> /\ at' \in {"first", "closed", "bad_free"}
    BY DEF ef_redis_cmd, buffer_vars, Exits
<1>2. inp' \in Chars /\ (peer' # "open" => inp' = <<>>)
  <2>1. CASE peer # "open"
    <3>1. inp' = inp
        BY <2>1 DEF ef_redis_cmd, Typed
    <3> QED
        BY <1>1, <3>1 DEF Typed
  <2>2. CASE peer = "open"
    <3>1. PICK r \in Replies : inp' = inp \o EncodeReply(r)
        BY <2>2 DEF ef_redis_cmd
    <3> DEFINE w == EncodeReply(r)
    <3>2. w \in Chars /\ inp \in Chars
        BY LayoutFacts DEF Typed
    <3> HIDE DEF w
    <3>3. inp \o w \in Chars
        BY <3>2, JoinChars
    <3> QED
        BY <1>1, <2>2, <3>1, <3>3 DEF w
  <2> QED
    BY <2>1, <2>2
<1>3. content' \in Chars /\ at' \in Places
    BY <1>1 DEF Chars, Places
<1> QED
    BY <1>1, <1>2, <1>3 DEF Typed

\* Freeing a reply, a lost connection and a stutter keep the types.
LEMMA TypedRest ==
    ASSUME Typed, ef_redis_free_reply \/ Hangup("eof") \/ Hangup("reset") \/ UNCHANGED vars PROVE Typed'
<1>1. CASE ef_redis_free_reply
  <2>1. UNCHANGED <<peer, inp, mem, end, content, seek>> /\ at' \in {"closed", "undefined", "idle", "bad_free"}
    BY <1>1 DEF ef_redis_free_reply, buffer_vars, value_vars, Exits
  <2>2. at' \in Plain /\ seek' \in Nat /\ content' \in Chars
    BY <2>1 DEF Plain, Places, Typed
  <2> QED
    BY <2>1, <2>2, TypedPlain
<1>2. ASSUME NEW how \in {"eof", "reset"}, Hangup(how) PROVE Typed'
  <2>1. peer' = how /\ inp' = <<>> /\ UNCHANGED <<mem, seek, end, at, content, need, kind>>
    BY <1>2 DEF Hangup, buffer_vars, value_vars
  <2>2. inp' \in Chars
    BY <2>1 DEF Chars
  <2> QED
    BY <2>1, <2>2 DEF Typed
<1>3. CASE UNCHANGED vars
    BY <1>3 DEF Typed, vars, buffer_vars, value_vars
<1> QED
    BY <1>1, <1>2, <1>3

\* Every step keeps the types.
LEMMA TypedStep == Typed /\ [Next]_vars => Typed'
<1> SUFFICES ASSUME Typed, [Next]_vars PROVE Typed'
    OBVIOUS
<1>1. CASE ef_redis_cmd BY <1>1, TypedCmd
<1>2. CASE ef_redis_read_reply BY <1>2, TypedRead
<1>3. CASE reply_read_more BY <1>3, TypedMore
<1>4. CASE BeginReply \/ BeginElement BY <1>4, TypedBegin
<1>5. CASE Header BY <1>5, TypedHeader
<1>6. CASE String BY <1>6, TypedString
<1>7. CASE Content BY <1>7, TypedContent
<1>8. CASE ef_redis_free_reply \/ Hangup("eof") \/ Hangup("reset") \/ UNCHANGED vars
    BY <1>8, TypedRest
<1> QED
    BY <1>1, <1>2, <1>3, <1>4, <1>5, <1>6, <1>7, <1>8, Zenon DEF Next, client, Finished

\* They hold before the first command.
LEMMA TypedInit == Init => Typed
<1> SUFFICES ASSUME Init PROVE Typed
    OBVIOUS
<1>1. PICK c \in {NUL, Letter} : mem = [i \in 0 .. Cap - 1 |-> c]
    BY DEF Init
<1>2. mem \in [0 .. Cap - 1 -> Int]
    BY <1>1 DEF NUL, Letter
<1>3. peer = "open" /\ inp = <<>> /\ seek = 0 /\ end = 0 /\ at = "idle" /\ content = <<>>
    BY DEF Init
<1>4. inp \in Chars /\ content \in Chars /\ end \in 0 .. Cap /\ at \in Places
    BY <1>3, CapFacts DEF Chars, Places
<1> QED
    BY <1>2, <1>3, <1>4 DEF Typed

-----------------------------------------------------------------------------
(* Where the parser is in the reply *)

\* Where it begins; Partly: it is a string, the whole reply, and not all of it is read.
Here == Off(sent)[Done]
Partly == Len(sent) = 1 /\ Done = 0 /\ Here = 0 /\ This.type = "bulk" /\ end < LineLen(This) + Len(This.v)

\* The value that is read next: where it lies, and that its line was read.
LEMMA HereFacts ==
    ASSUME Typed, Reading
    PROVE  /\ Done \in Nat /\ Done + 1 \in 1 .. Len(sent)
           /\ This \in Nodes /\ Legal(This)
           /\ Here \in Nat /\ Off(sent)[Done + 1] \in Nat
           /\ Off(sent)[Done + 1] = Here + Behind(This) /\ Off(sent)[Done + 1] <= Len(Wire)
           /\ \A j \in 1 .. Behind(This) : Wire[Here + j] = Encode(This)[j]
           /\ end \in Nat /\ end <= Cap
           /\ LineLen(This) \in Nat /\ LineLen(This) >= 3 /\ Len(This.v) \in Nat
           /\ Behind(This) = LineLen(This) + (IF This.type = "bulk" THEN Len(This.v) + 2 ELSE 0)
           /\ Here + LineLen(This) <= end
           /\ end = Len(Wire) \/ Partly
<1>1. sent \in Replies /\ Done < Len(sent) /\ Got(end)
    BY DEF Reading
<1>2. Done \in Nat
  <2>1. reply \in Seq(Values)
    BY DEF Reading
  <2> QED
    BY <2>1, LenProperties DEF Done
<1>3. Len(sent) \in Nat /\ \A i \in 1 .. Len(sent) : sent[i] \in Nodes /\ Legal(sent[i])
    BY <1>1, ReplyFacts
<1> DEFINE k == Done + 1
<1>4. k \in 1 .. Len(sent) /\ k - 1 = Done
    BY <1>1, <1>2, <1>3
<1>5. This = sent[k]
    BY DEF This
<1> HIDE DEF k
<1>6. /\ Off(sent)[k - 1] \in Nat /\ Off(sent)[k] \in Nat
      /\ Off(sent)[k] = Off(sent)[k - 1] + Behind(sent[k])
      /\ Off(sent)[k] <= Len(Wire)
      /\ \A j \in 1 .. Behind(sent[k]) : Wire[Off(sent)[k - 1] + j] = Encode(sent[k])[j]
    BY <1>1, <1>4, PlaceFacts DEF Wire
<1>7. This \in Nodes /\ Legal(This)
    BY <1>3, <1>4, <1>5
<1>8. LineLen(This) \in Nat /\ LineLen(This) >= 3
    BY <1>7, EncodeFacts
<1>9. Len(This.v) \in Nat
  <2>1. This.v \in Seq(Int)
    BY <1>7, NodeLine DEF Chars
  <2> QED
    BY <2>1, LenProperties
<1>10. /\ Here \in Nat /\ Off(sent)[k] = Here + Behind(This)
       /\ \A j \in 1 .. Behind(This) : Wire[Here + j] = Encode(This)[j]
    BY <1>4, <1>5, <1>6 DEF Here
<1>11. end \in Nat /\ end <= Cap
    BY CapFacts DEF Typed
<1>12. Behind(This) = LineLen(This) + (IF This.type = "bulk" THEN Len(This.v) + 2 ELSE 0)
    BY DEF Behind
<1>13. /\ Here + LineLen(This) <= end
       /\ end = Len(Wire) \/ Partly
  <2>1. CASE end = Len(Wire)
    <3>1. Behind(This) \in Nat /\ Behind(This) >= LineLen(This)
        BY <1>8, <1>9, <1>12
    <3> DEFINE a == Behind(This)
               b == LineLen(This)
               h == Here
               o == Off(sent)[k]
               w == Len(Wire)
    <3>2. a \in Nat /\ a >= b /\ h \in Nat /\ o = h + a /\ o <= w /\ end = w /\ b \in Nat /\ w \in Nat
        BY <1>6, <1>8, <1>10, <1>11, <2>1, <3>1
    <3> HIDE DEF a, b, h, o, w
    <3>3. h + b <= end
        BY <3>2
    <3> QED
        BY <2>1, <3>3 DEF h, b
  <2>2. CASE end # Len(Wire)
    <3>1. Len(sent) = 1 /\ sent[1].type = "bulk" /\ Len(Wire) - end \in 3 .. Len(sent[1].v) + 2
        BY <1>1, <2>2 DEF Got
    <3>2. Done = 0 /\ k = 1 /\ This = sent[1]
        BY <1>1, <1>2, <1>4, <1>5, <3>1
    <3>3. Off(sent)[0] = 0 /\ Off(sent)[1] = Len(Wire)
        BY <1>1, <3>1, OffFacts DEF Wire
    <3>4. Here = 0
        BY <3>2, <3>3 DEF Here
    <3> DEFINE b == LineLen(This)
               v == Len(This.v)
               w == Len(Wire)
    <3>5. w = b + v + 2 /\ w - end \in 3 .. v + 2
        BY <1>8, <1>9, <1>10, <1>12, <3>1, <3>2, <3>3, <3>4
    <3>6. b \in Nat /\ v \in Nat
        BY <1>8, <1>9
    <3> HIDE DEF b, v, w
    <3>7. b <= end /\ end < b + v
        BY <1>11, <3>5, <3>6
    <3>8. Here + b <= end
        BY <3>4, <3>6, <3>7
    <3> QED
        BY <3>1, <3>2, <3>4, <3>7, <3>8 DEF b, v, Partly
  <2> QED
    BY <2>1, <2>2
<1> QED
    BY <1>2, <1>4, <1>6, <1>7, <1>8, <1>9, <1>10, <1>11, <1>12, <1>13 DEF k

\* The text of a line has no NUL.
LEMMA TextSupported ==
    ASSUME Supported, NEW r \in Replies, NEW k \in 1 .. Len(r)
    PROVE  /\ \A i \in 1 .. Len(LineText(r[k])) : LineText(r[k])[i] # NUL
           /\ \A i \in 1 .. Len(r[k].v) : r[k].v[i] # NUL
<1> DEFINE node == r[k]
<1>1. DOMAIN r = 1 .. Len(r) /\ node \in Nodes /\ Legal(node)
    BY ReplyFacts
<1>2. node.v \in Seq(Int) /\ node.type \in Types
    BY <1>1, NodeLine DEF Chars
<1>3. \A i \in 1 .. Len(node.v) : node.v[i] # NUL
  <2>1. DOMAIN node.v = 1 .. Len(node.v)
    BY <1>2, LenProperties
  <2> QED
    BY <1>1, <2>1 DEF Supported
<1> HIDE DEF node
<1>4. CASE node.type = "bulk"
  <2>1. LineText(node) = Digits(Len(node.v))
    BY <1>4 DEF LineText
  <2>2. Len(node.v) \in 0 .. 99
    <3>1. node # Null
      <4>1. Null.type = "null"
        BY DEF Null, Node
      <4> QED
        BY <1>4, <4>1
    <3> DEFINE n == Len(node.v)
    <3>2. n <= 99
      BY <1>1, <1>4, <3>1 DEF Legal
    <3>3. n \in Nat
      BY <1>2, LenProperties
    <3> HIDE DEF n
    <3>4. n \in 0 .. 99
      BY <3>2, <3>3
    <3> QED
      BY <3>4 DEF n
  <2> DEFINE d == Digits(Len(node.v))
  <2>3. \A i \in 1 .. Len(d) : d[i] \in 0 .. 9
    BY <2>2, DigitsFacts
  <2> HIDE DEF d
  <2>4. \A i \in 1 .. Len(d) : d[i] # NUL
    BY <2>3 DEF NUL
  <2> QED
    BY <1>3, <2>1, <2>4 DEF d, node
<1>5. CASE node.type = "null"
  <2> DEFINE m == <<Minus, 1>>
  <2>1. LineText(node) = m
    BY <1>5 DEF LineText
  <2>2. Len(m) = 2 /\ m[1] = Minus /\ m[2] = 1
    OBVIOUS
  <2> HIDE DEF m
  <2>3. \A i \in 1 .. Len(m) : m[i] # NUL
    BY <2>2 DEF NUL, Minus
  <2> QED
    BY <1>3, <2>1, <2>3 DEF node
<1>6. CASE node.type \notin {"bulk", "null"}
  <2>1. LineText(node) = node.v
    BY <1>6 DEF LineText
  <2> QED
    BY <1>3, <2>1 DEF node
<1> QED
    BY <1>4, <1>5, <1>6

\* Where the line of the value ends.
Eol == Here + Len(LineText(This)) + 1

\* The line of the value: strstr finds its end, and its text is there.
LEMMA LineHere ==
    ASSUME Supported, Typed, Reading
    PROVE  /\ Here \in Nat /\ Eol \in Nat /\ Eol + 2 = Here + LineLen(This) /\ Eol > Here
           /\ Eol + 2 <= end /\ end <= Cap
           /\ mem[Here] = First(This)
           /\ \A q \in {Here, Here + 1} : LineEnds(q) # {} /\ Min(LineEnds(q)) = Eol
           /\ \E j \in Here + 1 .. Cap - 1 : mem[j] = CR
           /\ FirstCR(Here + 1) = Eol
           /\ Text(Here + 1, Eol) = LineText(This)
           /\ \A i \in 1 .. Len(LineText(This)) : mem[Here + i] = LineText(This)[i]
<1>1. /\ Done + 1 \in 1 .. Len(sent) /\ This \in Nodes /\ Legal(This) /\ Here \in Nat
      /\ \A j \in 1 .. Behind(This) : Wire[Here + j] = Encode(This)[j]
      /\ end \in Nat /\ end <= Cap
      /\ Behind(This) = LineLen(This) + (IF This.type = "bulk" THEN Len(This.v) + 2 ELSE 0)
      /\ Here + LineLen(This) <= end /\ Len(This.v) \in Nat
    BY HereFacts
<1> DEFINE t == LineText(This)
           n == Len(t)
           h == Here
           enc == Encode(This)
<1>2. t \in Chars /\ n \in Nat /\ \A i \in 1 .. n : t[i] # CR /\ t[i] # NUL
  <2>1. t \in Chars /\ \A i \in 1 .. n : t[i] # CR
    BY <1>1, NodeLine
  <2>2. n \in Nat
    BY <2>1, LenProperties DEF Chars
  <2>3. This = sent[Done + 1] /\ sent \in Replies
    BY DEF This, Reading
  <2>4. \A i \in 1 .. n : t[i] # NUL
    BY <1>1, <2>3, TextSupported
  <2> QED
    BY <2>1, <2>2, <2>4
<1>3. /\ First(This) \in Int /\ First(This) # CR /\ First(This) # NUL
    BY <1>1, NodeLine, MarkFacts DEF Marks
<1>4. /\ enc[1] = First(This) /\ \A i \in 1 .. n : enc[1 + i] = t[i]
      /\ enc[n + 2] = CR /\ enc[n + 3] = LF
    BY <1>1, EncodeFacts
<1>5. LineLen(This) = n + 3
    BY DEF LineLen
<1>6. Behind(This) >= n + 3 /\ Behind(This) \in Nat
  <2> DEFINE b == Behind(This)
             l == LineLen(This)
             v == Len(This.v)
  <2>1. (b = l \/ b = l + (v + 2)) /\ l = n + 3 /\ v \in Nat
    <3>1. CASE This.type = "bulk"
        BY <1>1, <1>5, <3>1
    <3>2. CASE This.type # "bulk"
      <4>1. b = l + 0
        BY <1>1, <3>2
      <4>2. l + 0 = l
        BY <1>2, <1>5
      <4> QED
        BY <1>1, <1>5, <4>1, <4>2
    <3> QED
        BY <3>1, <3>2
  <2> HIDE DEF b, l, v, n
  <2>2. b >= n + 3 /\ b \in Nat
    BY <1>2, <2>1
  <2> QED
    BY <2>2 DEF b
<1>7. h \in Nat /\ h + n + 3 <= end /\ \A j \in 1 .. Behind(This) : Wire[h + j] = enc[j]
  <2>1. h + (n + 3) <= end /\ h \in Nat
    BY <1>1, <1>5
  <2> HIDE DEF h, n
  <2>2. h + n + 3 <= end
    BY <1>2, <2>1, <1>1
  <2> QED
    BY <1>1, <2>1, <2>2 DEF h
<1>8. \A j \in 0 .. end - 1 : mem[j] = Wire[j + 1]
  <2>1. \A j \in 0 .. end - 1 : mem[j] = Wire[0 + j + 1]
    BY DEF Reading, Window
  <2>2. \A j \in 0 .. end - 1 : 0 + j + 1 = j + 1
    BY <1>1
  <2> QED
    BY <2>1, <2>2
<1>e. Eol = h + n + 1
    BY DEF Eol
<1>m. mem \in [0 .. Cap - 1 -> Int]
    BY DEF Typed
<1> HIDE DEF t, h, n, enc
<1>9. \A j \in 1 .. n + 3 : mem[h + j - 1] = enc[j]
  <2> SUFFICES ASSUME NEW j \in 1 .. n + 3 PROVE mem[h + j - 1] = enc[j]
    OBVIOUS
  <2>1. h + j - 1 \in 0 .. end - 1 /\ (h + j - 1) + 1 = h + j /\ j \in 1 .. Behind(This)
    BY <1>1, <1>2, <1>6, <1>7
  <2> QED
    BY <1>7, <1>8, <2>1
<1>10. mem[h] = First(This)
  <2>1. 1 \in 1 .. n + 3 /\ h + 1 - 1 = h
    BY <1>2, <1>7
  <2> QED
    BY <1>4, <1>9, <2>1
<1>11. \A i \in 1 .. n : mem[h + i] = t[i]
  <2> SUFFICES ASSUME NEW i \in 1 .. n PROVE mem[h + i] = t[i]
    OBVIOUS
  <2>1. 1 + i \in 1 .. n + 3 /\ h + (1 + i) - 1 = h + i
    BY <1>2, <1>7
  <2> QED
    BY <1>4, <1>9, <2>1
<1>12. mem[h + n + 1] = CR /\ mem[h + n + 2] = LF
  <2>1. n + 2 \in 1 .. n + 3 /\ n + 3 \in 1 .. n + 3 /\ h + (n + 2) - 1 = h + n + 1 /\ h + (n + 3) - 1 = h + n + 2
    BY <1>2, <1>7
  <2> QED
    BY <1>4, <1>9, <2>1
<1>13. /\ mem[h] # CR /\ mem[h] # NUL
    BY <1>3, <1>10
<1>14. h + Len(t) + 3 <= Cap /\ \A i \in 1 .. Len(t) : mem[h + i] = t[i] /\ t[i] # CR /\ t[i] # NUL
  <2>1. h + n + 3 <= Cap
    BY <1>1, <1>2, <1>7, CapFacts
  <2> QED
    BY <1>2, <1>11, <2>1 DEF n
<1>15. mem[h + Len(t) + 1] = CR /\ mem[h + Len(t) + 2] = LF
    BY <1>12 DEF n
<1>16. /\ \A q \in {h, h + 1} : LineEnds(q) # {} /\ Min(LineEnds(q)) = h + Len(t) + 1
       /\ \E j \in h + 1 .. Cap - 1 : mem[j] = CR
       /\ FirstCR(h + 1) = h + Len(t) + 1
       /\ Text(h + 1, h + Len(t) + 1) = t
    BY <1>2, <1>7, <1>13, <1>14, <1>15, <1>m, CapFacts, FindLine
<1>17. h + Len(t) + 1 = Eol
    BY <1>e DEF n
<1>18. Eol \in Nat /\ Eol + 2 = h + LineLen(This) /\ Eol > h /\ Eol + 2 <= end
  <2> DEFINE e == Eol
             l == LineLen(This)
  <2>1. e = h + n + 1 /\ l = n + 3
    BY <1>5, <1>e
  <2> HIDE DEF e, l
  <2>2. e \in Nat /\ e + 2 = h + l /\ e > h /\ e + 2 <= end
    BY <1>1, <1>2, <1>7, <2>1
  <2> QED
    BY <2>2 DEF e, l
<1> QED
    BY <1>1, <1>10, <1>11, <1>16, <1>17, <1>18 DEF h, t, n

\* Content that is there.
LEMMA ValueHere ==
    ASSUME Supported, Typed, Reading, This.type = "bulk", end = Len(Wire)
    PROVE  /\ Here + LineLen(This) + Len(This.v) + 2 = Off(sent)[Done + 1]
           /\ Off(sent)[Done + 1] <= end
           /\ Copy(Here + LineLen(This), Len(This.v)) = This.v
<1>1. /\ Done + 1 \in 1 .. Len(sent) /\ This \in Nodes /\ Legal(This) /\ Here \in Nat
      /\ Off(sent)[Done + 1] = Here + Behind(This) /\ Off(sent)[Done + 1] <= Len(Wire)
      /\ \A j \in 1 .. Behind(This) : Wire[Here + j] = Encode(This)[j]
      /\ end \in Nat /\ end <= Cap
      /\ Behind(This) = LineLen(This) + Len(This.v) + 2
      /\ Len(This.v) \in Nat /\ LineLen(This) \in Nat
    BY HereFacts
<1> DEFINE h == Here
           b == LineLen(This)
           v == This.v
           n == Len(v)
           enc == Encode(This)
           p == h + b
<1>2. \A i \in 1 .. n : enc[b + i] = v[i]
    BY <1>1, EncodeFacts
<1>3. v \in Chars /\ \A i \in 1 .. n : v[i] # NUL
  <2>1. v \in Chars
    BY <1>1, NodeLine
  <2>2. This = sent[Done + 1] /\ sent \in Replies
    BY DEF This, Reading
  <2> QED
    BY <1>1, <2>1, <2>2, TextSupported
<1>4. \A j \in 0 .. end - 1 : mem[j] = Wire[j + 1]
  <2>1. \A j \in 0 .. end - 1 : mem[j] = Wire[0 + j + 1]
    BY DEF Reading, Window
  <2>2. \A j \in 0 .. end - 1 : 0 + j + 1 = j + 1
    BY <1>1
  <2> QED
    BY <2>1, <2>2
<1>5. /\ h \in Nat /\ b \in Nat /\ n \in Nat
      /\ Off(sent)[Done + 1] = h + b + n + 2 /\ h + b + n + 2 <= end
      /\ \A j \in 1 .. b + n + 2 : Wire[h + j] = enc[j]
  <2>1. Behind(This) = b + n + 2
    BY <1>1
  <2>2. h + (b + n + 2) = h + b + n + 2
    BY <1>1
  <2> QED
    BY <1>1, <2>1, <2>2
<1> HIDE DEF h, b, v, n, enc
<1>6. \A i \in 1 .. n : mem[p + i - 1] = v[i]
  <2> SUFFICES ASSUME NEW i \in 1 .. n PROVE mem[p + i - 1] = v[i]
    OBVIOUS
  <2>1. p + i - 1 \in 0 .. end - 1 /\ (p + i - 1) + 1 = h + (b + i) /\ b + i \in 1 .. b + n + 2
    BY <1>1, <1>5
  <2>2. mem[p + i - 1] = Wire[h + (b + i)]
    BY <1>4, <2>1
  <2> QED
    BY <1>2, <1>5, <2>1, <2>2
<1>7. p \in Nat /\ p + n <= Cap
    BY <1>1, <1>5, CapFacts
<1> HIDE DEF p
<1>8. \A i \in 1 .. Len(v) : mem[p + i - 1] = v[i] /\ v[i] # NUL
    BY <1>3, <1>6 DEF n
<1>9. p + Len(v) <= Cap
    BY <1>7 DEF n
<1>10. Copy(p, Len(v)) = v
  <2>1. mem \in [0 .. Cap - 1 -> Int]
    BY DEF Typed
  <2> QED
    BY <1>3, <1>7, <1>8, <1>9, <2>1, CapFacts, CopyIs
<1>11. Off(sent)[Done + 1] <= end
    BY <1>5
<1> QED
    BY <1>5, <1>10, <1>11 DEF h, b, v, n, p

\* What a user gets of a reply: value by value, a string or a status as a string.
LEMMA AsParsedFacts ==
    ASSUME NEW r \in Replies
    PROVE  /\ AsParsed(r) \in Seq(Values) /\ Len(AsParsed(r)) = Len(r)
           /\ \A i \in 1 .. Len(r) : AsParsed(r)[i] = IF r[i].type \in {"bulk", "status"} THEN Node("str", r[i].v)
                                                      ELSE r[i]
<1>1. Len(r) \in Nat /\ DOMAIN r = 1 .. Len(r) /\ \A i \in 1 .. Len(r) : r[i] \in Nodes /\ Legal(r[i])
    BY ReplyFacts
<1> DEFINE n == Len(r)
           e(i) == IF r[i].type \in {"bulk", "status"} THEN Node("str", r[i].v) ELSE r[i]
           f == [i \in 1 .. n |-> e(i)]
<1>2. AsParsed(r) = f
    BY <1>1 DEF AsParsed
<1>3. \A i \in 1 .. n : e(i) \in Values
  <2> SUFFICES ASSUME NEW i \in 1 .. n PROVE e(i) \in Values
    OBVIOUS
  <2>1. r[i] \in Nodes
    BY <1>1
  <2>2. CASE r[i].type \in {"bulk", "status"}
    <3>1. e(i) = [type |-> "str", v |-> r[i].v]
        BY <2>2 DEF Node
    <3>2. r[i].v \in Seq(Int)
        BY <2>1 DEF Nodes
    <3> HIDE DEF e
    <3> QED
        BY <3>1, <3>2 DEF Values
  <2>3. CASE r[i].type \notin {"bulk", "status"}
    <3>1. e(i) = r[i]
        BY <2>3
    <3> HIDE DEF e
    <3> QED
        BY <2>1, <3>1 DEF Values, Nodes
  <2> QED
    BY <2>2, <2>3
<1>4. \A i \in 1 .. n : f[i] = e(i)
    OBVIOUS
<1> HIDE DEF e, n
<1>5. f \in [1 .. n -> Values] /\ n \in Nat
    BY <1>1, <1>3 DEF n
<1> HIDE DEF f
<1>6. f \in Seq(Values) /\ Len(f) = n
    BY <1>5, CellSeq
<1> QED
    BY <1>2, <1>4, <1>6 DEF n, e

\* A value is complete: it is the next one of the reply, which goes on or ends.
LEMMA CompleteFaithful ==
    ASSUME Typed, Reading, end = Len(Wire), NEW node, node = AsParsed(sent)[Done + 1],
           NEW counts, Sums(counts, Due(sent)[Done + 1]), Complete(node, counts),
           UNCHANGED <<peer, inp, mem, end, sent>>,
           Done + 1 # Len(sent) => seek' = Off(sent)[Done + 1]
    PROVE  Faithful'
<1>1. /\ Done \in Nat /\ Done + 1 \in 1 .. Len(sent) /\ Len(sent) \in Nat /\ sent \in Replies
  <2>1. sent \in Replies
    BY DEF Reading
  <2> QED
    BY <2>1, HereFacts, ReplyFacts
<1>2. /\ reply' = Append(reply, node) /\ left' = Arrays(counts)
      /\ at' = IF left' = <<>> THEN "returned" ELSE "elem"
    BY DEF Complete
<1> DEFINE k == Done + 1
           all == AsParsed(sent)
           due == Due(sent)[k]
<1>3. /\ all \in Seq(Values) /\ Len(all) = Len(sent)
    BY <1>1, AsParsedFacts
<1>4. node \in Values
  <2>1. \A i \in 1 .. Len(all) : all[i] \in Values
    BY <1>3, LenProperties
  <2> QED
    BY <1>1, <1>3, <2>1
<1>5. reply \in Seq(Values) /\ Len(reply) = Done /\ \A i \in 1 .. Done : reply[i] = all[i]
    BY DEF Reading, Done
<1>6. /\ reply' \in Seq(Values) /\ Len(reply') = k /\ reply'[k] = node
      /\ \A i \in 1 .. Done : reply'[i] = reply[i]
  <2>1. /\ Append(reply, node) \in Seq(Values) /\ Len(Append(reply, node)) = Len(reply) + 1
        /\ \A i \in 1 .. Len(reply) : Append(reply, node)[i] = reply[i]
        /\ Append(reply, node)[Len(reply) + 1] = node
    BY <1>4, <1>5, AppendProperties
  <2> QED
    BY <1>2, <1>5, <2>1
<1>7. \A i \in 1 .. k : reply'[i] = all[i]
  <2> SUFFICES ASSUME NEW i \in 1 .. k PROVE reply'[i] = all[i]
    OBVIOUS
  <2>1. CASE i = k
    BY <1>6, <2>1
  <2>2. CASE i # k
    <3>1. i \in 1 .. Done
        BY <1>1, <2>2
    <3> QED
        BY <1>5, <1>6, <3>1
  <2> QED
    BY <2>1, <2>2
<1>8. /\ Sums(left', due) /\ (due = 0 => left' = <<>>)
      /\ due # 0 => left' # <<>> /\ left'[Len(left')] > 0
    BY <1>2, ArraysFacts
<1>9. due = 0 <=> k = Len(sent)
  <2>1. k = Len(sent) \/ k \in 0 .. Len(sent) - 1
    BY <1>1
  <2> QED
    BY <1>1, <2>1, ReplyFacts
<1>10. Done' = k
    BY <1>6 DEF Done
<1>11. UNCHANGED Wire /\ sent' = sent
    BY DEF Wire
<1>12. CASE due = 0
  <2>1. at' = "returned" /\ left' = <<>> /\ k = Len(sent)
    BY <1>2, <1>8, <1>9, <1>12
  <2>2. reply' = all
    <3> DEFINE s == reply'
    <3>1. s \in Seq(Values) /\ Len(s) = Len(all) /\ \A i \in 1 .. Len(s) : s[i] = all[i]
        BY <1>3, <1>6, <1>7, <2>1
    <3> HIDE DEF s, all
    <3>2. s = all
        BY <1>3, <3>1, SeqEqual
    <3> QED
        BY <3>2 DEF s
  <2>3. inp = <<>>
    <3>1. CASE peer # "open"
        BY <3>1 DEF Typed
    <3>2. CASE peer = "open"
      <4>1. inp = SubSeq(Wire, end + 1, Len(Wire)) /\ end \in Nat
        BY <3>2, HereFacts DEF Reading, Got
      <4> DEFINE lo == end + 1
                 hi == Len(Wire)
      <4>2. lo \in Int /\ hi \in Int /\ hi < lo
        BY <4>1
      <4> HIDE DEF lo, hi
      <4>3. SubSeq(Wire, lo, hi) = <<>>
        BY <4>2, SubSeqEmpty
      <4> QED
        BY <4>1, <4>3 DEF lo, hi
    <3> QED
        BY <3>1, <3>2
  <2>4. AtReturned'
    BY <1>1, <1>11, <2>1, <2>2, <2>3 DEF AtReturned
  <2> QED
    BY <2>1, <2>4 DEF Faithful
<1>13. CASE due # 0
  <2>1. at' = "elem" /\ left' # <<>> /\ left'[Len(left')] > 0 /\ k # Len(sent)
    BY <1>2, <1>8, <1>9, <1>13
  <2>2. Reading'
    <3>1. Window(0)' /\ Got(end)'
      <4>1. Window(0) /\ Got(end)
        BY DEF Reading
      <4>2. Window(0)'
        BY <1>11, <4>1 DEF Window
      <4>3. Got(end)'
        BY <1>11, <4>1 DEF Got
      <4> QED
        BY <4>2, <4>3
    <3>2. sent' \in Replies /\ Done' < Len(sent')
        BY <1>1, <1>10, <1>11, <2>1
    <3>3. \A i \in 1 .. Done' : reply'[i] = AsParsed(sent')[i]
        BY <1>7, <1>10, <1>11
    <3> QED
        BY <1>6, <3>1, <3>2, <3>3 DEF Reading
  <2>3. Done' > 0
    BY <1>1, <1>10
  <2>4. Sums(left', Due(sent')[Done'])
    BY <1>8, <1>10, <1>11
  <2>5. seek' = Off(sent')[Done']
    BY <1>10, <1>11, <2>1
  <2>6. AtElem'
    BY <2>1, <2>2, <2>3, <2>4, <2>5 DEF AtElem
  <2> QED
    BY <2>1, <2>6 DEF Faithful
<1> QED
    BY <1>12, <1>13

\* What does not change while a value is read.
LEMMA StillReading ==
    ASSUME Reading, UNCHANGED <<peer, inp, mem, end, sent, reply>>
    PROVE  Reading' /\ Done' = Done /\ This' = This /\ Here' = Here
<1>1. UNCHANGED <<Wire, Done>>
    BY DEF Wire, Done
<1>2. Window(0)'
    BY <1>1 DEF Window, Reading
<1>3. Got(end)'
    BY <1>1 DEF Got, Reading
<1> QED
    BY <1>1, <1>2, <1>3 DEF Reading, This, Here

\* The values still to come, before and after the one that is read next.
LEMMA DueHere ==
    ASSUME Typed, Reading
    PROVE  /\ Due(sent)[Done + 1] = Due(sent)[Done] - 1 + Elements(This)
           /\ Due(sent)[Done] \in Nat /\ Due(sent)[Done + 1] \in Nat
           /\ AsParsed(sent)[Done + 1] = IF This.type \in {"bulk", "status"} THEN Node("str", This.v) ELSE This
<1>1. /\ Done \in Nat /\ Done + 1 \in 1 .. Len(sent) /\ Len(sent) \in Nat /\ sent \in Replies
  <2>1. sent \in Replies
    BY DEF Reading
  <2> QED
    BY <2>1, HereFacts, ReplyFacts
<1> DEFINE k == Done + 1
<1>2. k \in 1 .. Len(sent) /\ k - 1 = Done /\ k \in 0 .. Len(sent) /\ Done \in 0 .. Len(sent)
    BY <1>1
<1>3. This = sent[k]
    BY DEF This
<1> HIDE DEF k
<1>4. Due(sent)[k] = Due(sent)[k - 1] - 1 + Elements(sent[k])
    BY <1>1, <1>2, DueFacts
<1>5. Due(sent)[Done] \in Nat /\ Due(sent)[k] \in Nat
    BY <1>1, <1>2, DueFacts
<1>6. AsParsed(sent)[k] = IF sent[k].type \in {"bulk", "status"} THEN Node("str", sent[k].v) ELSE sent[k]
    BY <1>1, <1>2, AsParsedFacts
<1> QED
    BY <1>2, <1>3, <1>4, <1>5, <1>6 DEF k

\* The mark says which type a value has.
LEMMA MarkTypes ==
    ASSUME NEW node, node.type \in Types
    PROVE  /\ First(node) = Plus   <=> node.type = "status"
           /\ First(node) = Dollar <=> node.type \in {"bulk", "null"}
           /\ First(node) = Colon  <=> node.type = "long"
           /\ First(node) = Star   <=> node.type = "arr"
           /\ First(node) = Minus  <=> node.type = "err"
BY DEF First, Types, Plus, Dollar, Colon, Star, Minus

\* A value is made of its type and its text.
LEMMA NodeIs ==
    ASSUME NEW node \in Nodes
    PROVE  node = Node(node.type, node.v)
BY DEF Nodes, Node

\* A value that has no elements is complete.
LEMMA CompleteSimple ==
    ASSUME Typed, Reading, end = Len(Wire), This.type # "arr",
           NEW node, node = IF This.type \in {"bulk", "status"} THEN Node("str", This.v) ELSE This,
           Sums(left, Due(sent)[Done] - 1), Complete(node, left),
           UNCHANGED <<peer, inp, mem, end, sent>>,
           Done + 1 # Len(sent) => seek' = Off(sent)[Done + 1]
    PROVE  Faithful'
<1>1. Elements(This) = 0
    BY HereFacts, ElementsFacts
<1>2. Due(sent)[Done + 1] = Due(sent)[Done] - 1 + 0 /\ Due(sent)[Done] \in Nat
    BY <1>1, DueHere
<1> DEFINE d == Due(sent)[Done]
           counts == left
<1>3. Due(sent)[Done + 1] = d - 1
  <2> HIDE DEF d
  <2>1. d - 1 + 0 = d - 1 /\ d \in Nat
    BY <1>2 DEF d
  <2> QED
    BY <1>2, <2>1 DEF d
<1>4. Sums(counts, Due(sent)[Done + 1]) /\ Complete(node, counts)
    BY <1>3
<1>5. node = AsParsed(sent)[Done + 1]
    BY DueHere
<1> HIDE DEF counts
<1> QED
    BY <1>4, <1>5, CompleteFaithful

\* A length of digits is one for parse_len.
LEMMA LengthHere ==
    ASSUME Supported, Typed, Reading, NEW n \in 0 .. 99, LineText(This) = Digits(n),
           First(This) \in {Dollar, Star}
    PROVE  Sane(Here) /\ parse_len(Here) = n
<1> DEFINE t == LineText(This)
           h == Here
           e == Eol
<1>1. /\ h \in Nat /\ mem[h] = First(This) /\ FirstCR(h + 1) = e /\ Text(h + 1, e) = t
      /\ \A i \in 1 .. Len(t) : mem[h + i] = t[i]
    BY LineHere
<1>2. /\ t \in Seq(Int) /\ Len(t) \in {1, 2} /\ Number(t) = n
      /\ \A i \in 1 .. Len(t) : t[i] \in 0 .. 9
  <2> DEFINE d == Digits(n)
  <2>1. /\ d \in Seq(Int) /\ Len(d) \in {1, 2} /\ Number(d) = n
        /\ \A i \in 1 .. Len(d) : d[i] \in 0 .. 9
    BY DigitsFacts DEF Chars
  <2>2. t = d
    OBVIOUS
  <2> HIDE DEF d, t
  <2> QED
    BY <2>1, <2>2
<1> HIDE DEF t, h, e
<1>3. ~ NoLength(h)
  <2>1. 1 \in 1 .. Len(t)
    <3> DEFINE m == Len(t)
    <3>1. m = 1 \/ m = 2
        BY <1>2
    <3> HIDE DEF m
    <3>2. 1 \in 1 .. m
        BY <3>1
    <3> QED
        BY <3>2 DEF m
  <2>2. mem[h + 1] \in 0 .. 9
    BY <1>1, <1>2, <2>1
  <2>3. mem[h + 1] # Minus
    BY <2>2 DEF Minus
  <2> QED
    BY <1>1, <2>3 DEF NoLength
<1>4. parse_len(h) = n
    BY <1>1, <1>2, <1>3 DEF parse_len
<1>5. Sane(h)
  <2>1. DOMAIN t = 1 .. Len(t) /\ Len(t) <= 3
    BY <1>2, LenProperties
  <2>2. ToSet(t) \subseteq 0 .. 9
    BY <1>2, <2>1 DEF ToSet
  <2> QED
    BY <1>1, <2>1, <2>2 DEF Sane
<1> QED
    BY <1>4, <1>5 DEF h

\* The line of a string holds its length.
LEMMA BulkText ==
    ASSUME NEW node \in Nodes, Legal(node), node.type = "bulk"
    PROVE  Len(node.v) \in 0 .. 99 /\ LineText(node) = Digits(Len(node.v))
<1>1. Null.type = "null"
    BY DEF Null, Node
<1>2. node # Null
    BY <1>1
<1> DEFINE n == Len(node.v)
<1>3. n <= 99
    BY <1>2 DEF Legal
<1>4. n \in Nat
  <2>1. node.v \in Seq(Int)
    BY DEF Nodes
  <2> QED
    BY <2>1, LenProperties
<1>5. LineText(node) = Digits(n)
    BY DEF LineText
<1> HIDE DEF n
<1>6. n \in 0 .. 99
    BY <1>3, <1>4
<1> QED
    BY <1>5, <1>6 DEF n

\* A line, in every case.
LEMMA FaithfulHeader ==
    ASSUME Supported, Typed, AtHeader, Header PROVE Faithful'
<1>0. Reading /\ kind = First(This) /\ UNCHANGED <<peer, inp, mem, end, sent>>
    BY DEF AtHeader, Header, server_vars
<1>1. /\ Done \in Nat /\ Done + 1 \in 1 .. Len(sent) /\ This \in Nodes /\ Legal(This)
      /\ Here \in Nat /\ Off(sent)[Done + 1] = Here + Behind(This)
      /\ Behind(This) = LineLen(This) + (IF This.type = "bulk" THEN Len(This.v) + 2 ELSE 0)
      /\ LineLen(This) \in Nat /\ Len(This.v) \in Nat
      /\ end = Len(Wire) \/ Partly
    BY <1>0, HereFacts
<1>2. This.type \in Types
    BY <1>1, NodeLine
<1>3. /\ Eol \in Nat /\ Eol + 2 = Here + LineLen(This) /\ mem[Here] = First(This)
      /\ \A q \in {Here, Here + 1} : LineEnds(q) # {} /\ Min(LineEnds(q)) = Eol
      /\ \E j \in Here + 1 .. Cap - 1 : mem[j] = CR
      /\ FirstCR(Here + 1) = Eol /\ Text(Here + 1, Eol) = LineText(This)
      /\ \A i \in 1 .. Len(LineText(This)) : mem[Here + i] = LineText(This)[i]
    BY <1>0, LineHere
<1>4. seek = IF This.type = "status" THEN Here + 1 ELSE Here
  <2>1. seek = Here + (IF kind = Plus THEN 1 ELSE 0) /\ (kind = Plus <=> This.type = "status")
    BY <1>0, <1>2, MarkTypes DEF AtHeader, Here
  <2> QED
    BY <1>1, <2>1
<1>5. seek \in {Here, Here + 1}
    BY <1>4
<1>6. LineEnds(seek) # {} /\ Min(LineEnds(seek)) = Eol
    BY <1>3, <1>5
<1>7. (CASE kind = Plus   -> parse_single_string(Eol)
         [] kind = Dollar -> parse_bulk_string(Eol)
         [] kind = Colon  -> parse_long
         [] kind = Star   -> parse_array(Eol)
         [] kind = Minus  -> parse_error(Eol))
    BY <1>6 DEF Header
<1>8. Sums(left, Due(sent)[Done] - 1) /\ (Done = 0 => left = <<>>)
    BY DEF AtHeader
<1>9. This.type # "bulk" => end = Len(Wire) /\ Off(sent)[Done + 1] = Eol + 2
  <2> SUFFICES ASSUME This.type # "bulk" PROVE end = Len(Wire) /\ Off(sent)[Done + 1] = Eol + 2
    OBVIOUS
  <2>1. end = Len(Wire)
    BY <1>1 DEF Partly
  <2>2. Behind(This) = LineLen(This) + 0
    BY <1>1
  <2>3. LineLen(This) + 0 = LineLen(This)
    BY <1>1
  <2> QED
    BY <1>1, <1>3, <2>1, <2>2, <2>3
<1>10. CASE This.type = "status"
  <2>1. parse_single_string(Eol)
    <3>1. kind = Plus
        BY <1>0, <1>2, <1>10, MarkTypes
    <3> QED
        BY <1>7, <3>1 DEF Plus, Dollar, Colon, Star, Minus
  <2> DEFINE len == Eol - seek
  <2>2. seek = Here + 1 /\ LineText(This) = This.v
    BY <1>4, <1>10 DEF LineText
  <2>3. Eol = Here + Len(This.v) + 1
    BY <2>2 DEF Eol
  <2>4. len = Len(This.v)
    <3> DEFINE n == Len(This.v)
               h == Here
    <3>1. len = (h + n + 1) - (h + 1) /\ h \in Nat /\ n \in Nat
        BY <1>1, <2>2, <2>3
    <3> HIDE DEF n, h, len
    <3>2. len = n
        BY <3>1
    <3> QED
        BY <3>2 DEF n
  <2>5. StringAt(seek, len)
    BY <2>1 DEF parse_single_string
  <2> HIDE DEF len
  <2>6. seek' = seek /\ need' = len /\ at' = "string" /\ UNCHANGED <<left, reply>>
    BY <1>1, <2>4, <2>5 DEF StringAt
  <2>7. Reading' /\ Done' = Done /\ This' = This /\ Here' = Here
    BY <1>0, <2>6, StillReading
  <2>8. seek' = Off(sent')[Done'] + 1
    BY <1>0, <2>2, <2>6, <2>7 DEF Here
  <2>9. Sums(left', Due(sent')[Done'] - 1) /\ (Done' = 0 => left' = <<>>)
    BY <1>0, <1>8, <2>6, <2>7
  <2>10. This'.type \in {"bulk", "status"} /\ need' = Len(This'.v) /\ This'.type # "bulk"
    BY <1>10, <2>4, <2>6, <2>7
  <2>11. AtString'
    BY <2>7, <2>8, <2>9, <2>10 DEF AtString
  <2> QED
    BY <2>6, <2>11 DEF Faithful
<1>11. CASE This.type = "bulk"
  <2> DEFINE n == Len(This.v)
  <2>1. parse_bulk_string(Eol) /\ First(This) \in {Dollar, Star} /\ seek = Here
    <3>1. kind = Dollar
        BY <1>0, <1>2, <1>11, MarkTypes
    <3> QED
        BY <1>0, <1>4, <1>7, <1>11, <3>1 DEF Plus, Dollar, Colon, Star, Minus
  <2>2. n \in 0 .. 99 /\ LineText(This) = Digits(n)
    BY <1>1, <1>11, BulkText
  <2> HIDE DEF n
  <2>3. Sane(Here) /\ parse_len(Here) = n
    BY <1>0, <2>1, <2>2, LengthHere
  <2> DEFINE p == Eol + 2
  <2>4. StringAt(p, n)
    BY <2>1, <2>3 DEF parse_bulk_string
  <2>p. p = Here + LineLen(This)
    BY <1>3
  <2> HIDE DEF p
  <2>5. n # -1
    BY <2>2
  <2>6. seek' = p /\ need' = n /\ at' = "string" /\ UNCHANGED <<left, reply>>
    BY <2>4, <2>5 DEF StringAt
  <2>7. Reading' /\ Done' = Done /\ This' = This /\ Here' = Here
    BY <1>0, <2>6, StillReading
  <2>8. seek' = Off(sent')[Done'] + LineLen(This')
    BY <1>0, <2>6, <2>7, <2>p DEF Here
  <2>9. Sums(left', Due(sent')[Done'] - 1) /\ (Done' = 0 => left' = <<>>)
    BY <1>0, <1>8, <2>6, <2>7
  <2>10. This'.type = "bulk" /\ need' = Len(This'.v)
    BY <1>11, <2>6, <2>7 DEF n
  <2>11. AtString'
    BY <2>7, <2>8, <2>9, <2>10 DEF AtString
  <2> QED
    BY <2>6, <2>11 DEF Faithful
<1>12. CASE This.type = "null"
  <2>1. parse_bulk_string(Eol) /\ seek = Here
    <3>1. kind = Dollar
        BY <1>0, <1>2, <1>12, MarkTypes
    <3> QED
        BY <1>4, <1>7, <1>12, <3>1 DEF Plus, Dollar, Colon, Star, Minus
  <2>2. This = Null
    <3>1. This.v = <<>>
        BY <1>1, <1>12, NodeLine
    <3>2. This = Node(This.type, This.v)
        BY <1>1, NodeIs
    <3> QED
        BY <1>12, <3>1, <3>2 DEF Null
  <2>3. NoLength(Here)
    <3> DEFINE m == <<Minus, 1>>
    <3>1. LineText(This) = m
        BY <1>12 DEF LineText
    <3>2. Len(m) = 2 /\ m[1] = Minus
        OBVIOUS
    <3> HIDE DEF m
    <3>3. 1 \in 1 .. Len(LineText(This)) /\ LineText(This)[1] = Minus
        BY <3>1, <3>2
    <3>4. mem[Here + 1] = Minus
        BY <1>3, <3>3
    <3> QED
        BY <3>4 DEF NoLength
  <2>4. Sane(Here) /\ parse_len(Here) = -1
    BY <2>3 DEF Sane, parse_len
  <2>5. seek' = Eol + 2 /\ Complete(Null, left)
    BY <2>1, <2>4 DEF parse_bulk_string, StringAt
  <2>6. Done + 1 # Len(sent) => seek' = Off(sent)[Done + 1]
    BY <1>9, <1>12, <2>5
  <2>7. Null = IF This.type \in {"bulk", "status"} THEN Node("str", This.v) ELSE This
    BY <1>12, <2>2
  <2>8. This.type # "arr" /\ end = Len(Wire)
    BY <1>9, <1>12
  <2> QED
    BY <1>0, <1>8, <2>5, <2>6, <2>7, <2>8, CompleteSimple
<1>13. CASE This.type = "long"
  <2>1. parse_long /\ seek = Here
    <3>1. kind = Colon
        BY <1>0, <1>2, <1>13, MarkTypes
    <3> QED
        BY <1>4, <1>7, <1>13, <3>1 DEF Plus, Dollar, Colon, Star, Minus
  <2> DEFINE node == Node("long", LineText(This))
  <2>2. node = This
    <3>1. LineText(This) = This.v
        BY <1>13 DEF LineText
    <3>2. This = Node(This.type, This.v)
        BY <1>1, NodeIs
    <3> QED
        BY <1>13, <3>1, <3>2
  <2>3. seek' = Eol + 2 /\ Complete(node, left)
    BY <1>3, <2>1 DEF parse_long
  <2> HIDE DEF node
  <2>4. Done + 1 # Len(sent) => seek' = Off(sent)[Done + 1]
    BY <1>9, <1>13, <2>3
  <2>5. node = IF This.type \in {"bulk", "status"} THEN Node("str", This.v) ELSE This
    BY <1>13, <2>2
  <2>6. This.type # "arr" /\ end = Len(Wire)
    BY <1>9, <1>13
  <2> QED
    BY <1>0, <1>8, <2>3, <2>4, <2>5, <2>6, CompleteSimple
<1>14. CASE This.type = "arr"
  <2> DEFINE n == Elements(This)
             node == Node("arr", Digits(n))
             counts == Append(left, n)
             d == Due(sent)[Done]
  <2>1. parse_array(Eol) /\ First(This) \in {Dollar, Star} /\ seek = Here
    <3>1. kind = Star
        BY <1>0, <1>2, <1>14, MarkTypes
    <3> QED
        BY <1>0, <1>4, <1>7, <1>14, <3>1 DEF Plus, Dollar, Colon, Star, Minus
  <2>2. n \in 0 .. 99 /\ This.v = Digits(n) /\ LineText(This) = This.v
    BY <1>1, <1>14, ElementsFacts DEF LineText
  <2>3. node = This
    <3>1. This = Node(This.type, This.v)
        BY <1>1, NodeIs
    <3> QED
        BY <1>14, <2>2, <3>1
  <2>4. Due(sent)[Done + 1] = d - 1 + n /\ d \in Nat
    BY <1>0, DueHere
  <2> HIDE DEF n, d
  <2>5. Sane(Here) /\ parse_len(Here) = n
    <3>1. LineText(This) = Digits(n)
        BY <2>2
    <3> QED
        BY <1>0, <2>1, <2>2, <3>1, LengthHere
  <2>6. n # -1 /\ n \in Nat
    BY <2>2
  <2>7. seek' = Eol + 2 /\ Complete(node, counts)
    BY <2>1, <2>5, <2>6 DEF parse_array
  <2>8. Sums(counts, Due(sent)[Done + 1])
    <3> DEFINE m == d - 1
    <3>1. Sums(left, m) /\ Due(sent)[Done + 1] = m + n
        BY <1>8, <2>4 DEF d
    <3> HIDE DEF m
    <3> QED
        BY <2>6, <3>1, SumsMore
  <2> HIDE DEF counts, node
  <2>9. node = AsParsed(sent)[Done + 1]
    BY <1>0, <1>14, <2>3, DueHere
  <2>10. Done + 1 # Len(sent) => seek' = Off(sent)[Done + 1]
    BY <1>9, <1>14, <2>7
  <2>11. end = Len(Wire)
    BY <1>9, <1>14
  <2> QED
    BY <1>0, <2>7, <2>8, <2>9, <2>10, <2>11, CompleteFaithful
<1>15. CASE This.type = "err"
  <2>1. parse_error(Eol) /\ seek = Here
    <3>1. kind = Minus
        BY <1>0, <1>2, <1>15, MarkTypes
    <3> QED
        BY <1>4, <1>7, <1>15, <3>1 DEF Plus, Dollar, Colon, Star, Minus
  <2>2. LineText(This) = This.v
    BY <1>15 DEF LineText
  <2> DEFINE r == sent
             k == Done + 1
  <2>3. r \in Replies /\ k \in 1 .. Len(r) /\ This = r[k] /\ DOMAIN r = 1 .. Len(r)
    <3>1. r \in Replies
        BY <1>0 DEF Reading
    <3> QED
        BY <1>1, <3>1, ReplyFacts DEF This
  <2>k. k = Done + 1 /\ r = sent
    OBVIOUS
  <2> HIDE DEF k, r
  <2>4. k = 1 /\ \E j \in DOMAIN This.v : This.v[j] = Space
    BY <1>15, <2>3 DEF Supported
  <2>5. PICK j \in DOMAIN This.v : This.v[j] = Space
    BY <2>4
  <2>6. j \in 1 .. Len(This.v)
    <3>1. This.v \in Seq(Int)
        BY <1>1 DEF Nodes
    <3> QED
        BY <3>1, LenProperties
  <2>7. mem[Here + j] = Space /\ Here + j \in Here .. Eol - 1
    <3>1. mem[Here + j] = Space
        BY <1>3, <2>2, <2>5, <2>6
    <3>2. Eol = Here + Len(This.v) + 1
        BY <2>2 DEF Eol
    <3> DEFINE n == Len(This.v)
               h == Here
               e == Eol
    <3>3. e = h + n + 1 /\ h \in Nat /\ n \in Nat /\ j \in 1 .. n
        BY <1>1, <2>6, <3>2
    <3> HIDE DEF n, h, e
    <3>4. h + j \in h .. e - 1
        BY <3>3
    <3> QED
        BY <3>1, <3>4 DEF h, e
  <2> DEFINE node == Node("err", LineText(This))
  <2>8. node = This
    <3>2. This = Node(This.type, This.v)
        BY <1>1, NodeIs
    <3> QED
        BY <1>15, <2>2, <3>2
  <2>9. Complete(node, left)
    <3>1. {i \in seek .. Eol - 1 : mem[i] = Space} # {}
        BY <2>1, <2>7
    <3> QED
        BY <1>3, <2>1, <3>1 DEF parse_error
  <2> HIDE DEF node
  <2>10. Done + 1 = Len(sent)
    <3>1. Done = 0
        BY <1>1, <2>k, <2>4
    <3>2. Due(r)[0] = 1 /\ Due(r)[1] = Due(r)[0] - 1 + Elements(This)
      <4>1. Due(r)[k] = Due(r)[k - 1] - 1 + Elements(r[k])
        BY <2>3, DueFacts
      <4>2. Due(r)[0] = 1
        BY <2>3, DueFacts
      <4>3. 1 - 1 = 0
        OBVIOUS
      <4> QED
        BY <2>3, <2>4, <4>1, <4>2, <4>3
    <3>3. Elements(This) = 0
        BY <1>15 DEF Elements
    <3>4. Due(r)[1] = 0
        BY <3>2, <3>3
    <3>5. Len(r) \in Nat /\ \A i \in 0 .. Len(r) - 1 : Due(r)[i] > 0
        BY <2>3, ReplyFacts
    <3>6. ~ (1 \in 0 .. Len(r) - 1)
        BY <3>4, <3>5
    <3>7. Len(r) = 1
      <4> DEFINE m == Len(r)
      <4>1. 1 \in 1 .. m
        BY <2>3, <2>4
      <4>2. m \in Nat /\ ~ (1 \in 0 .. m - 1)
        BY <3>5, <3>6
      <4> HIDE DEF m
      <4>3. m = 1
        BY <4>1, <4>2
      <4> QED
        BY <4>3 DEF m
    <3> QED
        BY <2>k, <3>1, <3>7
  <2>11. node = IF This.type \in {"bulk", "status"} THEN Node("str", This.v) ELSE This
    BY <1>15, <2>8
  <2>12. This.type # "arr" /\ end = Len(Wire)
    BY <1>9, <1>15
  <2> QED
    BY <1>0, <1>8, <2>9, <2>10, <2>11, <2>12, CompleteSimple
<1> QED
    BY <1>2, <1>10, <1>11, <1>12, <1>13, <1>14, <1>15 DEF Types

\* A string that is there, or whose first part is.
LEMMA FaithfulString ==
    ASSUME Supported, Typed, at = "string", AtString, String PROVE Faithful'
<1>0. Reading /\ UNCHANGED <<peer, inp, mem, end, sent, need>>
    BY DEF AtString, String, server_vars
<1>1. /\ Done \in Nat /\ Done + 1 \in 1 .. Len(sent) /\ This \in Nodes /\ Legal(This)
      /\ Here \in Nat /\ Off(sent)[Done + 1] = Here + Behind(This)
      /\ Off(sent)[Done + 1] <= Len(Wire)
      /\ \A j \in 1 .. Behind(This) : Wire[Here + j] = Encode(This)[j]
      /\ Behind(This) = LineLen(This) + (IF This.type = "bulk" THEN Len(This.v) + 2 ELSE 0)
      /\ LineLen(This) \in Nat /\ Len(This.v) \in Nat /\ LineLen(This) >= 3
      /\ Here + LineLen(This) <= end
      /\ end \in Nat /\ end <= Cap
      /\ end = Len(Wire) \/ Partly
    BY <1>0, HereFacts
<1>2. /\ Sums(left, Due(sent)[Done] - 1) /\ (Done = 0 => left = <<>>)
      /\ This.type \in {"bulk", "status"} /\ need = Len(This.v)
      /\ seek = Here + (IF This.type = "bulk" THEN LineLen(This) ELSE 1)
    BY DEF AtString, Here
<1> DEFINE v == This.v
           n == Len(v)
           h == Here
           b == LineLen(This)
           o == Off(sent)[Done + 1]
           node == Node("str", v)
<1>3. v \in Chars /\ \A i \in 1 .. n : v[i] # NUL
  <2>1. v \in Chars
    BY <1>1, NodeLine
  <2>2. This = sent[Done + 1] /\ sent \in Replies
    BY <1>0 DEF This, Reading
  <2> QED
    BY <1>1, <2>1, <2>2, TextSupported
<1>4. ASSUME end = Len(Wire), ~ (end >= seek /\ end - seek < need), ~ (seek + need > Cap),
             Copy(seek, need) = v, seek + need + 2 = o
      PROVE  Faithful'
  <2>1. Complete(node, left) /\ seek' = o
    BY <1>4 DEF String
  <2>2. This.type # "arr" /\ node = IF This.type \in {"bulk", "status"} THEN Node("str", This.v) ELSE This
    BY <1>2
  <2> HIDE DEF node
  <2> QED
    BY <1>0, <1>2, <1>4, <2>1, <2>2, CompleteSimple
<1>5. CASE This.type = "status"
  <2>1. end = Len(Wire)
    BY <1>1, <1>5 DEF Partly
  <2>2. seek = h + 1 /\ Behind(This) = b + 0 /\ b = n + 3
    BY <1>1, <1>2, <1>5 DEF LineLen, LineText
  <2>3. /\ h \in Nat /\ n \in Nat /\ need = n /\ h + b <= end /\ o = h + Behind(This) /\ end \in Nat /\ end <= Cap
    BY <1>1, <1>2
  <2>4. \A i \in 1 .. n : mem[h + i] = v[i]
    <3>1. LineText(This) = v
        BY <1>5 DEF LineText
    <3> QED
        BY <1>0, <3>1, LineHere
  <2>m. mem \in [0 .. Cap - 1 -> Int]
    BY DEF Typed
  <2> HIDE DEF v, n, h, b, o
  <2>5. seek + n + 2 = o /\ seek + n + 2 <= end /\ seek \in Nat
    BY <2>2, <2>3
  <2>6. ~ (end >= seek /\ end - seek < need) /\ ~ (seek + need > Cap) /\ seek + need + 2 = o
    BY <2>3, <2>5, CapFacts
  <2>7. \A i \in 1 .. n : mem[seek + i - 1] = v[i]
    <3>1. \A i \in 1 .. n : seek + i - 1 = h + i
        BY <2>2, <2>3
    <3> QED
        BY <2>4, <3>1
  <2>8. Copy(seek, need) = v
    <3>1. seek + Len(v) <= Cap
        BY <2>3, <2>5, CapFacts DEF n
    <3>2. \A i \in 1 .. Len(v) : mem[seek + i - 1] = v[i] /\ v[i] # NUL
        BY <1>3, <2>7 DEF n
    <3>3. Copy(seek, Len(v)) = v
        BY <1>3, <2>5, <2>m, <3>1, <3>2, CapFacts, CopyIs
    <3> QED
        BY <2>3, <3>3 DEF n
  <2> QED
    BY <1>4, <2>1, <2>6, <2>8
<1>6. CASE This.type = "bulk" /\ end = Len(Wire)
  <2>1. /\ h + b + n + 2 = o /\ o <= end /\ Copy(h + b, n) = v
    BY <1>0, <1>6, ValueHere
  <2>2. seek = h + b /\ need = n /\ h \in Nat /\ b \in Nat /\ n \in Nat /\ end \in Nat /\ end <= Cap
    BY <1>1, <1>2, <1>6
  <2>3. Copy(seek, need) = v
    BY <2>1, <2>2
  <2> HIDE DEF v, n, h, b, o
  <2>4. ~ (end >= seek /\ end - seek < need) /\ ~ (seek + need > Cap) /\ seek + need + 2 = o
    BY <2>1, <2>2, CapFacts
  <2> QED
    BY <1>4, <1>6, <2>3, <2>4
<1>7. CASE This.type = "bulk" /\ end # Len(Wire)
  <2>1. Partly
    BY <1>1, <1>7
  <2>2. /\ Len(sent) = 1 /\ Done = 0 /\ h = 0 /\ end < b + n /\ seek = b /\ b <= end
    <3>1. Len(sent) = 1 /\ Done = 0 /\ h = 0 /\ end < b + n
        BY <2>1 DEF Partly
    <3>2. seek = h + b /\ h + b <= end
        BY <1>1, <1>2, <1>7
    <3>3. 0 + b = b
        BY <1>1
    <3> QED
        BY <3>1, <3>2, <3>3
  <2>3. This = sent[1]
    BY <2>2 DEF This
  <2>4. /\ b \in Nat /\ n \in Nat /\ need = n /\ end \in Nat /\ end <= Cap
        /\ Behind(This) = b + (n + 2)
        /\ \A j \in 1 .. Behind(This) : Wire[0 + j] = Encode(This)[j]
    BY <1>1, <1>2, <1>7, <2>2
  <2>5. \A i \in 1 .. n : Encode(This)[b + i] = v[i]
    BY <1>1, <1>7, EncodeFacts
  <2>6. \A j \in 0 .. end - 1 : mem[j] = Wire[0 + j + 1]
    BY <1>0 DEF Reading, Window
  <2>m. mem \in [0 .. Cap - 1 -> Int]
    BY DEF Typed
  <2> DEFINE c == end - b
             beh == Behind(This)
             enc == Encode(This)
  <2> HIDE DEF v, n, h, b, o, beh, enc
  <2>7. c \in Nat /\ c < n /\ end >= seek /\ end - seek < need /\ end - seek = c /\ b + c <= Cap /\ b + c = end
    BY <2>2, <2>4, CapFacts
  <2> HIDE DEF c
  <2>8. content' = Copy(b, c) /\ seek' = end /\ at' = "content_more" /\ UNCHANGED <<left, reply>>
    BY <2>2, <2>7 DEF String
  <2>9. \A i \in 1 .. c : mem[b + i - 1] = v[i]
    <3> SUFFICES ASSUME NEW i \in 1 .. c PROVE mem[b + i - 1] = v[i]
        OBVIOUS
    <3>1. b + i - 1 \in 0 .. end - 1 /\ 0 + (b + i - 1) + 1 = 0 + (b + i) /\ b + i \in 1 .. b + (n + 2) /\ i \in 1 .. n
        BY <2>4, <2>7
    <3>2. mem[b + i - 1] = Wire[0 + (b + i)]
        BY <2>6, <3>1
    <3>3. Wire[0 + (b + i)] = Encode(This)[b + i]
        BY <2>4, <3>1
    <3> QED
        BY <2>5, <3>1, <3>2, <3>3
  <2>10. content' \in Chars /\ Len(content') = c
    BY <2>4, <2>7, <2>8, <2>m, CapFacts, CopyTyped
  <2>11. \A i \in 1 .. c : content'[i] = v[i]
    <3>1. \A i \in 1 .. c : i \in 1 .. n
        BY <2>4, <2>7
    <3>2. \A i \in 1 .. c : mem[b + i - 1] # NUL
        BY <1>3, <2>9, <3>1 DEF n
    <3>3. \A i \in 1 .. c : Copy(b, c)[i] = mem[b + i - 1]
        BY <2>4, <2>7, <2>m, <3>2, CapFacts, CopyFacts
    <3> QED
        BY <2>8, <2>9, <3>3
  <2>12. sent \in Replies /\ reply = <<>> /\ left = <<>> /\ Got(end)
    <3>1. sent \in Replies /\ Got(end) /\ reply \in Seq(Values) /\ Len(reply) = 0
        BY <1>0, <2>2 DEF Reading, Done
    <3> QED
        BY <1>2, <2>2, <3>1, EmptySeq
  <2>13. InPieces'
    <3>1. sent' = sent /\ need' = need /\ sent' \in Replies /\ Len(sent') = 1 /\ sent'[1].type = "bulk"
        BY <1>0, <1>7, <2>2, <2>3, <2>12
    <3>2. reply' = <<>> /\ left' = <<>>
        BY <2>8, <2>12
    <3>3. need' = Len(sent'[1].v)
        BY <2>3, <2>4, <3>1 DEF n, v
    <3>4. \A i \in 1 .. Len(content') : content'[i] = sent'[1].v[i]
        BY <2>3, <2>10, <2>11, <3>1 DEF v
    <3> QED
        BY <3>1, <3>2, <3>3, <3>4 DEF InPieces
  <2>14. Got(Before)'
    <3>1. Before' = end
      <4>1. Before' = LineLen(sent'[1]) + Len(content')
        BY DEF Before
      <4>2. LineLen(sent'[1]) = b
        BY <1>0, <2>3 DEF b
      <4> QED
        BY <2>7, <2>10, <4>1, <4>2
    <3>2. Got(end)'
        BY <1>0, <2>12 DEF Got, Wire
    <3>3. Got(Before)' <=> Got(end)'
      <4>1. end' = end
        BY <1>0
      <4> QED
        BY <3>1, <4>1 DEF Got
    <3> QED
        BY <3>2, <3>3
  <2>15. seek' = end'
    BY <1>0, <2>8
  <2> QED
    BY <2>8, <2>13, <2>14, <2>15 DEF Faithful, AtContentMore
<1> QED
    BY <1>2, <1>5, <1>6, <1>7

\* A string that is read in pieces, on the wire.
LEMMA PiecesFacts ==
    ASSUME Supported, Typed, at \in {"content", "content_more"}, InPieces
    PROVE  /\ LineLen(sent[1]) \in Nat /\ need \in Nat /\ need = Len(sent[1].v)
           /\ sent[1] \in Nodes /\ sent[1].v \in Chars
           /\ Len(content) \in Nat /\ Len(content) < need
           /\ Wire \in Chars /\ Len(Wire) = LineLen(sent[1]) + need + 2
           /\ \A i \in 1 .. need : Wire[LineLen(sent[1]) + i] = sent[1].v[i] /\ sent[1].v[i] # NUL
           /\ AsParsed(sent) = <<Node("str", sent[1].v)>>
<1> DEFINE r == sent
           node == sent[1]
           b == LineLen(node)
           n == Len(node.v)
           off == Off(sent)
<1>1. r \in Replies /\ Len(r) = 1 /\ node.type = "bulk" /\ need = n
    BY DEF InPieces
<1>2. 1 \in 1 .. Len(r) /\ 1 - 1 = 0
    BY <1>1
<1>3. node \in Nodes /\ Legal(node)
    BY <1>1, <1>2, ReplyFacts
<1>4. node.v \in Chars /\ node.v \in Seq(Int) /\ n \in Nat /\ b \in Nat
  <2>1. node.v \in Seq(Int)
    BY <1>3 DEF Nodes
  <2> QED
    BY <1>3, <2>1, LenProperties, EncodeFacts DEF Chars
<1>5. /\ off[1] = off[0] + Behind(node) /\ off[0] = 0 /\ off[1] = Len(Wire)
      /\ \A j \in 1 .. Behind(node) : Wire[off[0] + j] = Encode(node)[j]
  <2>1. /\ Off(r)[1] = Off(r)[1 - 1] + Behind(r[1])
        /\ \A j \in 1 .. Behind(r[1]) : EncodeReply(r)[Off(r)[1 - 1] + j] = Encode(r[1])[j]
    BY <1>1, <1>2, PlaceFacts
  <2>2. Off(r)[0] = 0 /\ Off(r)[Len(r)] = Len(EncodeReply(r))
    BY <1>1, OffFacts
  <2> QED
    BY <1>1, <1>2, <2>1, <2>2 DEF Wire
<1>6. Behind(node) = b + (n + 2)
    BY <1>1 DEF Behind
<1>7. \A i \in 1 .. n : Encode(node)[b + i] = node.v[i]
    BY <1>1, <1>3, EncodeFacts
<1>8. \A i \in 1 .. n : node.v[i] # NUL
    BY <1>1, <1>2, TextSupported
<1>9. Wire \in Chars
    BY <1>1, LayoutFacts DEF Wire
<1>10. Len(content) \in Nat /\ Len(content) < need
  <2>1. content \in Seq(Int)
    BY DEF Typed, Chars
  <2> QED
    BY <2>1, LenProperties DEF Typed
<1>11. AsParsed(sent) = <<Node("str", node.v)>>
  <2> DEFINE all == AsParsed(sent)
             x == Node("str", node.v)
  <2>1. all \in Seq(Values) /\ Len(all) = 1 /\ all[1] = x
    BY <1>1, <1>2, AsParsedFacts
  <2>2. x \in Values
    <3>1. 1 \in 1 .. Len(all) /\ \A i \in 1 .. Len(all) : all[i] \in Values
        BY <2>1, LenProperties
    <3>2. all[1] \in Values
        BY <3>1, Zenon
    <3> HIDE DEF all, x
    <3> QED
        BY <2>1, <3>2
  <2> HIDE DEF all, x
  <2>3. <<x>> \in Seq(Values) /\ Len(<<x>>) = 1 /\ <<x>>[1] = x
    BY <2>2
  <2> DEFINE y == <<x>>
  <2>4. y \in Seq(Values) /\ Len(all) = Len(y) /\ \A i \in 1 .. Len(all) : all[i] = y[i]
    BY <2>1, <2>3
  <2> HIDE DEF y
  <2>5. all = y
    BY <2>1, <2>4, SeqEqual
  <2> QED
    BY <2>5 DEF all, y, x
<1>12. Len(Wire) = b + n + 2 /\ \A i \in 1 .. n : Wire[b + i] = node.v[i]
  <2> DEFINE beh == Behind(node)
             enc == Encode(node)
             w == Len(Wire)
             v == node.v
             g == off[0]
  <2>1. w = g + beh /\ g = 0 /\ beh = b + (n + 2) /\ \A j \in 1 .. beh : Wire[g + j] = enc[j]
    BY <1>5, <1>6
  <2>2. \A i \in 1 .. n : enc[b + i] = v[i]
    BY <1>7
  <2> HIDE DEF beh, enc, w, v, g, b, n, node
  <2>3. w = b + n + 2
    BY <1>4, <2>1
  <2>4. \A i \in 1 .. n : b + i \in 1 .. beh /\ g + (b + i) = b + i
    BY <1>4, <2>1
  <2>5. \A i \in 1 .. n : Wire[b + i] = v[i]
    BY <2>1, <2>2, <2>4
  <2> QED
    BY <2>3, <2>5 DEF w, v
<1>13. \A i \in 1 .. need : Wire[b + i] = node.v[i] /\ node.v[i] # NUL
    BY <1>1, <1>8, <1>12
<1>14. Len(Wire) = b + need + 2
    BY <1>1, <1>12
<1> QED
    BY <1>1, <1>3, <1>4, <1>9, <1>10, <1>11, <1>13, <1>14

\* What a read brings, when nothing was kept.
LEMMA ReadFaithful ==
    ASSUME Typed, peer = "open", sent \in Replies, NEW b \in 0 .. Len(Wire), NEW from \in Nat, NEW n \in Nat,
           inp = SubSeq(Wire, b + 1, Len(Wire)), n <= Len(inp), n <= Cap, Whole(n), Fill(from, 0, n),
           UNCHANGED <<peer, sent>>
    PROVE  Window(b)' /\ Got(b + n)' /\ end' = n /\ seek' = 0
<1> DEFINE w == Len(Wire)
<1>1. Wire \in Chars /\ w \in Nat /\ b \in Nat /\ b <= w
  <2>1. Wire \in Chars
    BY LayoutFacts DEF Wire
  <2> QED
    BY <2>1, LenProperties DEF Chars
<1>2. inp \in Chars /\ Len(inp) = w - b /\ \A i \in 1 .. w - b : inp[i] = Wire[b + i]
    BY <1>1, DropChars
<1>3. UNCHANGED Wire
    BY DEF Wire
<1>4. DOMAIN mem = 0 .. Cap - 1
    BY DEF Typed
<1>5. /\ mem' = [i \in 0 .. Cap - 1 |-> IF i < 0 THEN mem[from + i]
                                    ELSE IF i < 0 + n THEN inp[i - 0 + 1] ELSE mem[i]]
      /\ inp' = SubSeq(inp, n + 1, Len(inp)) /\ seek' = 0 /\ end' = 0 + n
    BY <1>4 DEF Fill
<1>6. end' = n
    BY <1>5
<1>7. n <= w - b /\ n > 0
    BY <1>2 DEF Whole
<1>8. \A j \in 0 .. n - 1 : j \in 0 .. Cap - 1 => mem'[j] = Wire[b + j + 1]
  <2> SUFFICES ASSUME NEW j \in 0 .. n - 1, j \in 0 .. Cap - 1 PROVE mem'[j] = Wire[b + j + 1]
    OBVIOUS
  <2>1. ~ (j < 0) /\ j < 0 + n /\ j - 0 + 1 = j + 1 /\ j + 1 \in 1 .. w - b /\ b + (j + 1) = b + j + 1
    BY <1>1, <1>7
  <2>2. mem'[j] = inp[j - 0 + 1]
    BY <1>5, <2>1
  <2>3. inp[j + 1] = Wire[b + (j + 1)]
    BY <1>2, <2>1
  <2> QED
    BY <2>1, <2>2, <2>3
<1>9. Window(b)'
  <2>1. \A j \in 0 .. n - 1 : j \in 0 .. Cap - 1
    BY CapFacts
  <2>2. \A j \in 0 .. n - 1 : mem'[j] = Wire[b + j + 1]
    BY <1>8, <2>1
  <2> QED
    BY <1>3, <1>6, <2>2 DEF Window
<1> DEFINE g == b + n
           rest == SubSeq(Wire, g + 1, w)
           lower == SubSeq(inp, n + 1, w - b)
<1>10. g \in 0 .. w /\ w - g = (w - b) - n /\ n \in 0 .. w - b
    BY <1>1, <1>7
<1>11. inp' = rest
  <2>0. inp' = lower
    BY <1>2, <1>5
  <2> HIDE DEF g, w
  <2>1. rest \in Seq(Int) /\ Len(rest) = w - g /\ \A i \in 1 .. w - g : rest[i] = Wire[g + i]
    <3>1. g \in 0 .. Len(Wire)
        BY <1>10 DEF w
    <3>2. /\ SubSeq(Wire, g + 1, Len(Wire)) \in Seq(Int) /\ Len(SubSeq(Wire, g + 1, Len(Wire))) = Len(Wire) - g
          /\ \A i \in 1 .. Len(Wire) - g : SubSeq(Wire, g + 1, Len(Wire))[i] = Wire[g + i]
        BY <1>1, <3>1, DropChars DEF Chars
    <3> QED
        BY <3>2 DEF w
  <2> DEFINE l == Len(inp)
             low == SubSeq(inp, n + 1, l)
  <2>2. low \in Seq(Int) /\ Len(low) = l - n /\ \A i \in 1 .. l - n : low[i] = inp[n + i]
    <3>1. n \in 0 .. Len(inp)
        BY <1>2, <1>10
    <3> QED
        BY <1>2, <3>1, DropChars DEF Chars
  <2>3. low = lower /\ l = w - b
    BY <1>2
  <2> HIDE DEF low, rest, lower, l
  <2>4. \A i \in 1 .. (w - b) - n : low[i] = rest[i]
    <3> SUFFICES ASSUME NEW i \in 1 .. (w - b) - n PROVE low[i] = rest[i]
        OBVIOUS
    <3>1. n + i \in 1 .. w - b /\ b + (n + i) = g + i
        BY <1>1, <1>7 DEF g
    <3>2. low[i] = inp[n + i] /\ inp[n + i] = Wire[b + (n + i)]
        BY <1>2, <2>2, <2>3, <3>1
    <3>3. rest[i] = Wire[g + i]
        BY <1>10, <2>1
    <3> QED
        BY <3>1, <3>2, <3>3
  <2>5. Len(low) = Len(rest) /\ \A i \in 1 .. Len(low) : low[i] = rest[i]
    BY <1>10, <2>1, <2>2, <2>3, <2>4
  <2>6. low = rest
    BY <2>1, <2>2, <2>5, SeqEqual
  <2> QED
    BY <2>0, <2>3, <2>6
<1>12. g = w \/ (Len(sent) = 1 /\ sent[1].type = "bulk" /\ w - g \in 3 .. Len(sent[1].v) + 2)
  <2>1. Len(inp) - n = w - g
    BY <1>2, <1>10
  <2>2. w - g = 0 \/ (Len(sent) = 1 /\ sent[1].type = "bulk" /\ w - g \in 3 .. Len(sent[1].v) + 2)
    BY <2>1 DEF Whole
  <2>3. w - g = 0 => g = w
    <3>1. g \in Int /\ w \in Int
        BY <1>1, <1>10
    <3> HIDE DEF g, w
    <3> QED
        BY <3>1
  <2> QED
    BY <2>2, <2>3
<1> HIDE DEF g, rest
<1>13. Got(g)'
  <2>1. UNCHANGED <<sent, Wire>> /\ Len(Wire) = w
    BY <1>3
  <2>2. inp' = SubSeq(Wire, g + 1, Len(Wire))
    BY <1>11 DEF rest
  <2> QED
    BY <1>12, <2>1, <2>2 DEF Got
<1> QED
    BY <1>5, <1>6, <1>9, <1>13 DEF g

\* The next piece of a string, or its last one.
LEMMA FaithfulContent ==
    ASSUME Supported, Typed, at = "content", AtContent, Content PROVE Faithful'
<1> DEFINE b == LineLen(sent[1])
           v == sent[1].v
           have == Len(content)
           w == Len(Wire)
           base == b + have
<1>0. InPieces /\ Window(Before) /\ Got(Before + end) /\ UNCHANGED <<peer, inp, mem, end, sent, need>>
    BY DEF AtContent, Content, server_vars
<1>1. /\ b \in Nat /\ need \in Nat /\ need = Len(v) /\ v \in Chars
      /\ have \in Nat /\ have < need
      /\ w = b + need + 2
      /\ \A i \in 1 .. need : Wire[b + i] = v[i] /\ v[i] # NUL
      /\ AsParsed(sent) = <<Node("str", v)>>
    BY <1>0, PiecesFacts
<1>2. seek = 0 /\ end \in Nat /\ end <= Cap /\ content \in Chars /\ mem \in [0 .. Cap - 1 -> Int]
    BY CapFacts DEF Typed
<1>3. \A j \in 0 .. end - 1 : mem[j] = Wire[base + j + 1]
    BY <1>0 DEF Window, Before
<1>4. \A i \in 1 .. have : content[i] = v[i]
    BY <1>0 DEF InPieces
<1>5. sent \in Replies /\ reply = <<>> /\ left = <<>> /\ Len(sent) = 1 /\ sent[1].type = "bulk"
    BY <1>0 DEF InPieces
<1> HIDE DEF b, v, have, w
<1>6. ASSUME NEW n \in Nat, n <= end, have + n <= need
      PROVE  /\ content \o Copy(0, n) \in Chars /\ Len(content \o Copy(0, n)) = have + n
             /\ \A i \in 1 .. have + n : (content \o Copy(0, n))[i] = v[i]
  <2> DEFINE c == Copy(0, n)
             z == 0
  <2>z. z \in Nat /\ z = 0 /\ z + n <= Cap /\ c = Copy(z, n)
    BY <1>2, <1>6, CapFacts
  <2> HIDE DEF z, c
  <2>1. c \in Chars /\ Len(c) = n
    BY <1>2, <1>6, <2>z, CapFacts, CopyTyped
  <2>2. \A i \in 1 .. n : mem[z + i - 1] = v[have + i]
    <3> SUFFICES ASSUME NEW i \in 1 .. n PROVE mem[z + i - 1] = v[have + i]
        OBVIOUS
    <3>1. z + i - 1 = i - 1 /\ i - 1 \in 0 .. end - 1 /\ base + (i - 1) + 1 = b + (have + i) /\ have + i \in 1 .. need
        BY <1>1, <1>2, <1>6, <2>z
    <3>2. mem[i - 1] = Wire[base + (i - 1) + 1]
        BY <1>3, <3>1
    <3> QED
        BY <1>1, <3>1, <3>2
  <2>3. \A i \in 1 .. n : v[have + i] # NUL
    <3>1. \A i \in 1 .. n : have + i \in 1 .. need
        BY <1>1, <1>6
    <3> QED
        BY <1>1, <3>1
  <2>4. \A i \in 1 .. n : c[i] = mem[z + i - 1]
    <3>1. \A i \in 1 .. n : mem[z + i - 1] # NUL
        BY <2>2, <2>3
    <3> QED
        BY <1>2, <1>6, <2>z, <3>1, CapFacts, CopyFacts
  <2> DEFINE all == content \o c
  <2>5. /\ all \in Chars /\ Len(all) = have + n
        /\ \A i \in 1 .. have : all[i] = content[i]
        /\ \A i \in 1 .. n : all[have + i] = c[i]
    BY <1>2, <2>1, JoinChars DEF have
  <2> HIDE DEF all
  <2>6. \A i \in 1 .. have + n : all[i] = v[i]
    <3> SUFFICES ASSUME NEW i \in 1 .. have + n PROVE all[i] = v[i]
        OBVIOUS
    <3>1. CASE i <= have
      <4>1. i \in 1 .. have
        BY <1>1, <3>1
      <4> QED
        BY <1>4, <2>5, <4>1
    <3>2. CASE ~ (i <= have)
      <4>1. i - have \in 1 .. n /\ have + (i - have) = i
        BY <1>1, <1>6, <3>2
      <4> QED
        BY <2>2, <2>4, <2>5, <4>1
    <3> QED
        BY <3>1, <3>2
  <2> QED
    BY <2>5, <2>6 DEF all, c
<1>7. CASE end - seek + have < need
  <2>1. end - seek = end /\ have + end < need
    BY <1>1, <1>2, <1>7
  <2>2. content' = content \o Copy(0, end) /\ seek' = end /\ at' = "content_more" /\ UNCHANGED <<left, reply>>
    BY <1>2, <1>7, <2>1 DEF Content, have
  <2>3. /\ Len(content') = have + end /\ \A i \in 1 .. have + end : content'[i] = v[i]
    BY <1>1, <1>2, <1>6, <2>1, <2>2
  <2>4. InPieces'
    <3>1. UNCHANGED <<sent, need, reply, left>>
        BY <1>0, <2>2
    <3>2. need' = Len(sent'[1].v)
        BY <1>1, <3>1 DEF v
    <3>3. \A i \in 1 .. Len(content') : content'[i] = sent'[1].v[i]
        BY <2>3, <3>1 DEF v
    <3> QED
        BY <1>5, <3>1, <3>2, <3>3 DEF InPieces
  <2>5. Got(Before)'
    <3>1. Before' = base + end
      <4>1. Before' = LineLen(sent'[1]) + Len(content')
        BY DEF Before
      <4>2. LineLen(sent'[1]) = b
        BY <1>0 DEF b
      <4>3. Before' = b + (have + end)
        BY <2>3, <4>1, <4>2
      <4> QED
        BY <1>1, <1>2, <4>3
    <3>g. PICK g : g = base + end
        OBVIOUS
    <3>2. Got(g)
      <4>1. Before = base
        BY DEF Before, b, have
      <4> QED
        BY <1>0, <3>g, <4>1
    <3>3. Got(g)'
        BY <1>0, <3>2 DEF Got, Wire
    <3>4. Before' = g
        BY <3>1, <3>g
    <3> QED
        BY <3>3, <3>4 DEF Got
  <2>6. seek' = end'
    BY <1>0, <2>2
  <2> QED
    BY <2>2, <2>4, <2>5, <2>6 DEF Faithful, AtContentMore
<1>8. CASE ~ (end - seek + have < need)
  <2> DEFINE n == need - have
             s == content \o Copy(seek, n)
             node == Node("str", s)
  <2>1. n \in Nat /\ n <= end /\ have + n <= need /\ have + n = need /\ seek = 0
    BY <1>1, <1>2, <1>8
  <2>2. Complete(node, left)
    BY <1>8 DEF Content, have
  <2> HIDE DEF n
  <2>3. s = v
    <3> DEFINE t == content \o Copy(0, n)
    <3>1. t \in Chars /\ Len(t) = have + n /\ \A i \in 1 .. have + n : t[i] = v[i]
        BY <1>6, <2>1
    <3>2. s = t
        BY <2>1
    <3> HIDE DEF t, s
    <3>3. t \in Seq(Int) /\ v \in Seq(Int) /\ Len(t) = Len(v) /\ \A i \in 1 .. Len(t) : t[i] = v[i]
        BY <1>1, <2>1, <3>1 DEF Chars
    <3>4. t = v
        BY <3>3, SeqEqual
    <3> QED
        BY <3>2, <3>4
  <2> HIDE DEF s
  <2>4. reply' = <<Node("str", v)>>
    <3>1. reply' = Append(<<>>, node)
        BY <1>5, <2>2 DEF Complete
    <3> HIDE DEF node
    <3>2. reply' = <<node>>
        BY <3>1
    <3> QED
        BY <2>3, <3>2 DEF node
  <2>5. left' = <<>> /\ at' = "returned"
    <3>1. left' = Arrays(left) /\ at' = IF left' = <<>> THEN "returned" ELSE "elem"
        BY <2>2 DEF Complete
    <3> DEFINE none == <<>>
               z == 0
    <3>2. Sums(none, z)
        BY SumsNone
    <3>z. z = 0 /\ left = none
        BY <1>5
    <3> HIDE DEF none, z
    <3>3. Arrays(none) = <<>>
        BY <3>2, <3>z, ArraysFacts
    <3> QED
        BY <3>1, <3>3, <3>z
  <2>6. inp = <<>>
    <3>1. CASE peer # "open"
        BY <3>1 DEF Typed
    <3>2. CASE peer = "open"
      <4> DEFINE g == base + end
      <4>1. Got(g)
        <5>1. Before = base
          BY DEF Before, b, have
        <5> QED
          BY <1>0, <5>1
      <4>2. g >= b + need /\ g \in Nat
        BY <1>1, <1>2, <1>8
      <4> HIDE DEF g
      <4>3. ~ (w - g \in 3 .. need + 2)
        BY <1>1, <4>2
      <4>4. g = w /\ inp = SubSeq(Wire, g + 1, w)
        <5>1. Len(sent[1].v) = need
          BY <1>1 DEF v
        <5> QED
          BY <3>2, <4>1, <4>3, <5>1 DEF Got, w
      <4> DEFINE lo == g + 1
      <4>5. lo \in Int /\ w \in Int /\ w < lo
        BY <4>2, <4>4
      <4> HIDE DEF lo
      <4>6. SubSeq(Wire, lo, w) = <<>>
        BY <4>5, SubSeqEmpty
      <4> QED
        BY <4>4, <4>6 DEF lo
    <3> QED
        BY <3>1, <3>2
  <2>7. AtReturned'
    <3>1. sent' = sent /\ inp' = inp
        BY <1>0
    <3>2. reply' = AsParsed(sent')
        BY <1>1, <2>4, <3>1
    <3> QED
        BY <1>5, <2>5, <2>6, <3>1, <3>2 DEF AtReturned
  <2> QED
    BY <2>5, <2>7 DEF Faithful
<1> QED
    BY <1>7, <1>8

\* reply_read_more at the end of the buffer: outside of a string it would find a
\* reply cut where the parser cannot go on, in one it gets the string's next piece.
LEMMA FaithfulMore ==
    ASSUME Supported, Typed, ~ torn', Faithful, reply_read_more PROVE Faithful'
<1>0. at = "content_more" /\ UNCHANGED <<peer, need, content, sent>>
    BY DEF reply_read_more, Faithful, server_vars
<1>1. AtContentMore
    BY <1>0 DEF Faithful
<1> DEFINE b == LineLen(sent[1])
           v == sent[1].v
           have == Len(content)
           w == Len(Wire)
           base == b + have
<1>2. /\ b \in Nat /\ need \in Nat /\ have \in Nat /\ have < need /\ w = b + need + 2
      /\ InPieces /\ Got(base) /\ seek = end
    <2>1. InPieces /\ Got(Before) /\ seek = end
        BY <1>1 DEF AtContentMore
    <2>2. Before = base
        BY DEF Before
    <2> QED
        BY <1>0, <2>1, <2>2, PiecesFacts
<1>3. end \in Nat /\ end <= Cap /\ end - seek = 0 /\ ~ (seek > end) /\ seek \in Nat
    BY <1>2, CapFacts DEF Typed
<1>4. sent \in Replies /\ reply = <<>> /\ left = <<>>
    BY <1>2 DEF InPieces
<1>5. CASE peer = "reset"
  <2>1. Fill(seek, 0, 0) /\ Complete(None, left)
    BY <1>3, <1>5 DEF reply_read_more
  <2>2. inp = <<>>
    BY <1>5 DEF Typed
  <2>3. inp' = <<>>
    <3>1. inp' = SubSeq(inp, 0 + 1, Len(inp))
        BY <2>1 DEF Fill
    <3>2. Len(inp) = 0
        BY <2>2
    <3>3. inp' = SubSeq(inp, 1, 0)
        BY <3>1, <3>2
    <3> QED
        BY <3>3, SubSeqEmpty
  <2>4. reply' = <<None>>
    <3> DEFINE node == None
    <3>1. reply' = Append(<<>>, node)
        BY <1>4, <2>1 DEF Complete
    <3> HIDE DEF node
    <3>2. reply' = <<node>>
        BY <3>1
    <3> QED
        BY <3>2 DEF node
  <2>5. left' = <<>> /\ at' = "returned"
    <3>1. left' = Arrays(left) /\ at' = IF left' = <<>> THEN "returned" ELSE "elem"
        BY <2>1 DEF Complete
    <3> DEFINE none == <<>>
               z == 0
    <3>2. Sums(none, z)
        BY SumsNone
    <3>z. z = 0 /\ left = none
        BY <1>4
    <3> HIDE DEF none, z
    <3>3. Arrays(none) = <<>>
        BY <3>2, <3>z, ArraysFacts
    <3> QED
        BY <3>1, <3>3, <3>z
  <2>6. AtReturned'
    BY <1>0, <1>5, <2>3, <2>4, <2>5 DEF AtReturned
  <2> QED
    BY <2>5, <2>6 DEF Faithful
<1>6. CASE peer # "reset"
  <2> DEFINE room == Cap - (end - seek)
             keep == end - seek
  <2>1. PICK n \in Amounts(Cap - keep) :
             /\ Fill(seek, keep, n) /\ Note(n, Cap - keep)
             /\ at' = IF at = "content_more" THEN "content" ELSE AfterMore
             /\ UNCHANGED <<left, reply>>
    BY <1>3, <1>6 DEF reply_read_more
  <2> HIDE DEF keep
  <2>k. keep = 0 /\ Cap - keep = Cap
    BY <1>3, CapFacts DEF keep
  <2>2. n \in Amounts(Cap) /\ Fill(seek, 0, n) /\ at' = "content" /\ UNCHANGED <<left, reply>> /\ Whole(n)
    <3>1. Whole(n)
        BY <2>1 DEF Note
    <3> QED
        BY <1>0, <2>1, <2>k, <3>1
  <2>3. n \in Nat /\ n <= Len(inp) /\ n <= Cap
    BY <2>2, CapFacts, AmountsFacts DEF Typed
  <2>4. peer = "open"
    <3> SUFFICES ASSUME peer # "open" PROVE FALSE
        OBVIOUS
    <3>1. inp = <<>> /\ peer = "eof"
        BY <1>6 DEF Typed
    <3>2. n = 0
        BY <2>2, <3>1 DEF Amounts
    <3> QED
        BY <2>2, <3>2 DEF Whole
  <2>5. inp = SubSeq(Wire, base + 1, Len(Wire)) /\ base \in 0 .. Len(Wire)
    <3>1. inp = SubSeq(Wire, base + 1, Len(Wire))
        BY <1>2, <2>4 DEF Got
    <3>2. base \in 0 .. w
      <4> HIDE DEF b, have, w
      <4> QED
        BY <1>2
    <3> QED
        BY <3>1, <3>2
  <2>6. PICK g : g = base
    OBVIOUS
  <2>7. Window(g)' /\ Got(g + n)' /\ end' = n /\ seek' = 0
    <3>1. g \in 0 .. Len(Wire) /\ inp = SubSeq(Wire, g + 1, Len(Wire))
        BY <2>5, <2>6
    <3> QED
        BY <1>0, <1>3, <1>4, <2>2, <2>3, <2>4, <3>1, ReadFaithful
  <2>8. Before' = g
    <3>1. Before' = LineLen(sent'[1]) + Len(content')
        BY DEF Before
    <3> QED
        BY <1>0, <2>6, <3>1
  <2>9. Window(Before)' /\ Got(Before + end)'
    BY <2>7, <2>8 DEF Window, Got
  <2>10. InPieces'
    BY <1>0, <1>2, <2>2 DEF InPieces
  <2> QED
    BY <2>2, <2>9, <2>10 DEF Faithful, AtContent
<1> QED
    BY <1>5, <1>6

\* The first read of a reply begins at its first character.
LEMMA FaithfulFirst ==
    ASSUME Typed, ~ torn', Faithful, ef_redis_read_reply PROVE Faithful'
<1>0. at = "first" /\ AtFirst /\ UNCHANGED <<peer, left, sent>>
    BY DEF ef_redis_read_reply, Faithful, server_vars
<1>1. reply = <<>> /\ left = <<>>
    BY <1>0 DEF AtFirst
<1>2. CASE peer = "reset"
  <2>1. at' = "returned" /\ reply' = <<None>> /\ inp' = inp
    BY <1>2 DEF ef_redis_read_reply
  <2>2. inp = <<>>
    BY <1>2 DEF Typed
  <2>3. AtReturned'
    BY <1>0, <1>1, <1>2, <2>1, <2>2 DEF AtReturned
  <2> QED
    BY <2>1, <2>3 DEF Faithful
<1>3. CASE peer # "reset"
  <2>1. PICK n \in Amounts(Cap) : Fill(0, 0, n) /\ Note(n, Cap) /\ at' = "reply" /\ UNCHANGED reply
    BY <1>3 DEF ef_redis_read_reply
  <2>2. Whole(n)
    BY <2>1 DEF Note
  <2>3. n \in Nat /\ n <= Len(inp) /\ n <= Cap
    BY <2>1, CapFacts, AmountsFacts DEF Typed
  <2>4. peer = "open"
    <3> SUFFICES ASSUME peer # "open" PROVE FALSE
        OBVIOUS
    <3>1. inp = <<>> /\ peer = "eof"
        BY <1>3 DEF Typed
    <3>2. n = 0
        BY <2>1, <3>1 DEF Amounts
    <3> QED
        BY <2>2, <3>2 DEF Whole
  <2>5. sent \in Replies /\ inp = Wire
    BY <1>0, <2>4 DEF AtFirst
  <2> DEFINE b == 0
             from == 0
  <2>6. b \in 0 .. Len(Wire) /\ inp = SubSeq(Wire, b + 1, Len(Wire)) /\ from \in Nat
    <3>1. Wire \in Chars
        BY <2>5, LayoutFacts DEF Wire
    <3>2. Len(Wire) \in Nat
        BY <3>1, LenProperties DEF Chars
    <3> DEFINE rest == SubSeq(Wire, b + 1, Len(Wire))
    <3>3. b \in 0 .. Len(Wire)
        BY <3>2
    <3>b. b = 0
        OBVIOUS
    <3> HIDE DEF b
    <3>4. rest \in Chars /\ Len(rest) = Len(Wire) - b /\ \A i \in 1 .. Len(Wire) - b : rest[i] = Wire[b + i]
        BY <3>1, <3>3, DropChars
    <3> HIDE DEF rest
    <3>5. Len(Wire) - b = Len(Wire) /\ \A i \in 1 .. Len(Wire) : b + i = i
        BY <3>2, <3>b
    <3>6. rest \in Seq(Int) /\ Wire \in Seq(Int) /\ Len(rest) = Len(Wire) /\ \A i \in 1 .. Len(rest) : rest[i] = Wire[i]
        BY <3>1, <3>4, <3>5 DEF Chars
    <3>7. rest = Wire
        BY <3>6, SeqEqual
    <3> QED
        BY <2>5, <3>3, <3>7 DEF rest
  <2>f. Fill(from, 0, n)
    BY <2>1
  <2>b. b = 0
    OBVIOUS
  <2> HIDE DEF b, from
  <2>7. Window(b)' /\ Got(b + n)' /\ end' = n /\ seek' = 0
    BY <1>0, <2>2, <2>3, <2>4, <2>5, <2>6, <2>f, ReadFaithful
  <2>8. Window(0)' /\ Got(end)'
    <3>1. b + n = n
        BY <2>3, <2>b
    <3> QED
        BY <2>7, <2>b, <3>1 DEF Window, Got
  <2>9. Reading'
    <3>1. reply' = <<>> /\ sent' \in Replies
        BY <1>0, <1>1, <2>1, <2>5
    <3>2. Len(sent') \in Nat /\ Len(sent') >= 1
        BY <3>1, ReplyFacts, DueFacts
    <3>3. Done' = 0 /\ reply' \in Seq(Values)
        BY <3>1 DEF Done
    <3>4. Done' < Len(sent') /\ \A i \in 1 .. Done' : reply'[i] = AsParsed(sent')[i]
        BY <3>2, <3>3
    <3> QED
        BY <2>8, <3>1, <3>3, <3>4 DEF Reading
  <2>10. AtReply'
    BY <1>0, <1>1, <2>1, <2>7, <2>9 DEF AtReply
  <2> QED
    BY <2>1, <2>10 DEF Faithful
<1> QED
    BY <1>2, <1>3

\* parse_reply at the first character of a reply finds the type of its first value.
LEMMA FaithfulReply ==
    ASSUME Supported, Typed, at = "reply", AtReply, BeginReply PROVE Faithful'
<1>0. Reading /\ reply = <<>> /\ left = <<>> /\ seek = 0 /\ UNCHANGED <<peer, inp, mem, end, sent, left>>
    BY DEF AtReply, BeginReply, server_vars
<1>1. Done = 0
    BY <1>0 DEF Done
<1>2. sent \in Replies
    BY <1>0 DEF Reading
<1>3. Here = 0
    BY <1>1, <1>2, OffFacts DEF Here
<1>4. mem[0] = First(This) /\ First(This) \in Marks
    BY <1>0, <1>3, LineHere, HereFacts, NodeLine DEF Marks
<1>5. /\ kind' = First(This) /\ at' = "header" /\ seek' = (IF kind' = Plus THEN 1 ELSE 0)
      /\ UNCHANGED reply
  <2>1. kind' = mem[0]
    BY DEF BeginReply
  <2> QED
    BY <1>4, <2>1 DEF BeginReply, Marks
<1>6. Reading' /\ Done' = Done /\ This' = This /\ Here' = Here
    BY <1>0, <1>5, StillReading
<1>7. Sums(left', Due(sent')[Done'] - 1) /\ left' = <<>>
  <2>1. Due(sent)[0] = 1
    BY <1>2, DueFacts
  <2>2. Due(sent')[Done'] - 1 = 0
    BY <1>0, <1>1, <1>6, <2>1
  <2>3. left' = <<>>
    BY <1>0
  <2> QED
    BY <2>2, <2>3, SumsNone
<1>8. seek' = Off(sent')[Done'] + (IF kind' = Plus THEN 1 ELSE 0)
  <2>1. Off(sent')[Done'] = 0
    BY <1>0, <1>3, <1>6 DEF Here
  <2> QED
    BY <1>5, <2>1
<1>9. kind' = First(This')
    BY <1>5, <1>6
<1>10. AtHeader'
    BY <1>6, <1>7, <1>8, <1>9 DEF AtHeader
<1> QED
    BY <1>5, <1>10 DEF Faithful

\* parse_array finds the type of the next element where the last one ended.
LEMMA FaithfulElement ==
    ASSUME Supported, Typed, at = "elem", AtElem, BeginElement PROVE Faithful'
<1>0. /\ Reading /\ Done > 0 /\ Sums(left, Due(sent)[Done]) /\ left # <<>> /\ left[Len(left)] > 0
      /\ seek = Here /\ UNCHANGED <<peer, inp, mem, end, sent, seek>>
    BY DEF AtElem, BeginElement, server_vars, Here, buffer_vars
<1>1. sent \in Replies
    BY <1>0 DEF Reading
<1>2. /\ Done \in Nat /\ Done + 1 \in 1 .. Len(sent) /\ DOMAIN sent = 1 .. Len(sent)
      /\ Here \in Nat /\ This \in Nodes /\ This.type \in Types
    BY <1>0, <1>1, HereFacts, ReplyFacts, NodeLine
<1>3. seek < Cap /\ ~ (seek >= Cap) /\ mem[seek] = First(This)
  <2>1. Here \in Nat /\ Eol \in Nat /\ Eol > Here /\ Eol + 2 <= end /\ end <= Cap /\ mem[Here] = First(This)
    BY <1>0, LineHere
  <2>2. end \in Nat /\ Cap \in Nat
    BY CapFacts DEF Typed
  <2> DEFINE e == Eol
             h == Here
  <2> HIDE DEF e, h
  <2>3. h < Cap /\ ~ (h >= Cap)
    <3>1. h \in Nat /\ e \in Nat /\ e > h /\ e + 2 <= end /\ end <= Cap
        BY <2>1 DEF e, h
    <3> QED
        BY <2>2, <3>1
  <2> QED
    BY <1>0, <2>1, <2>3 DEF h
<1>4. This.type \notin {"status", "err"}
  <2>1. This.type \in {"status", "err"} => Done + 1 = 1
    BY <1>1, <1>2 DEF Supported, This
  <2>2. Done + 1 # 1
    BY <1>0, <1>2
  <2> QED
    BY <2>1, <2>2
<1>5. First(This) \in {Dollar, Colon, Star} /\ First(This) # Plus
    BY <1>2, <1>4, MarkTypes DEF Types
<1>6. /\ kind' = First(This) /\ left' = [left EXCEPT ![Len(left)] = @ - 1]
      /\ at' = "header" /\ UNCHANGED reply
    BY <1>3, <1>5 DEF BeginElement
<1>7. Reading' /\ Done' = Done /\ This' = This /\ Here' = Here
    BY <1>0, <1>6, StillReading
<1>8. Sums(left', Due(sent')[Done'] - 1)
  <2> DEFINE n == Due(sent)[Done]
             c == left
  <2>1. Sums(c, n) /\ c # <<>> /\ c[Len(c)] > 0
    BY <1>0
  <2> HIDE DEF c, n
  <2>2. Sums([c EXCEPT ![Len(c)] = @ - 1], n - 1)
    BY <2>1, SumsLess
  <2> QED
    BY <1>0, <1>6, <1>7, <2>2 DEF c, n
<1>9. seek' = Off(sent')[Done'] + (IF kind' = Plus THEN 1 ELSE 0)
  <2>1. seek' = Here /\ Off(sent')[Done'] = Here /\ Here + 0 = Here
    BY <1>0, <1>2, <1>7 DEF Here
  <2> QED
    BY <1>5, <1>6, <2>1
<1>10. AtHeader'
    BY <1>0, <1>2, <1>6, <1>7, <1>8, <1>9 DEF AtHeader
<1> QED
    BY <1>6, <1>10 DEF Faithful

\* A command is sent when nothing of an earlier reply is left to read.
LEMMA FaithfulCmd ==
    ASSUME Typed, Faithful, ef_redis_cmd PROVE Faithful'
<1>0. at = "idle" /\ inp = <<>> /\ left = <<>> /\ UNCHANGED <<peer, left>> /\ reply' = <<>>
    BY DEF ef_redis_cmd, Faithful
<1>1. CASE peer = "reset"
  <2>1. at' \in {"closed", "bad_free"}
    BY <1>1 DEF ef_redis_cmd, Exits
  <2> QED
    BY <2>1 DEF Faithful
<1>2. CASE peer # "reset"
  <2>1. at' = "first"
    BY <1>2 DEF ef_redis_cmd
  <2>2. ASSUME peer = "open" PROVE sent' \in Replies /\ inp' = Wire'
    <3>1. PICK r \in Replies : sent' = r /\ inp' = inp \o EncodeReply(r)
        BY <1>2, <2>2 DEF ef_redis_cmd
    <3> DEFINE w == EncodeReply(r)
    <3>2. w \in Seq(Int)
        BY LayoutFacts DEF Chars
    <3>3. inp' = <<>> \o w
        BY <1>0, <3>1
    <3> HIDE DEF w
    <3>4. <<>> \o w = w
        BY <3>2, ConcatEmptySeq
    <3> QED
        BY <3>1, <3>3, <3>4 DEF w, Wire
  <2>3. AtFirst'
    BY <1>0, <2>2 DEF AtFirst
  <2> QED
    BY <2>1, <2>3 DEF Faithful
<1> QED
    BY <1>1, <1>2

\* After a reply is freed nothing of it is left, on the wire or in arrays under way.
LEMMA FaithfulFree ==
    ASSUME Typed, Faithful, ef_redis_free_reply PROVE Faithful'
<1>0. at = "returned" /\ AtReturned /\ UNCHANGED <<inp, left>>
    BY DEF ef_redis_free_reply, Faithful, value_vars
<1>1. CASE at' \in {"closed", "bad_free"}
    BY <1>1 DEF Faithful
<1>2. CASE at' \notin {"closed", "bad_free"}
  <2>1. reply # <<None>> /\ (Wild \in ToSet(reply) \/ at' = "idle")
    <3>1. Exits \subseteq {"closed", "bad_free"}
        BY DEF Exits
    <3>2. CASE reply = <<None>> /\ at' = "closed"
        BY <1>2, <3>2
    <3>3. CASE Wild \in ToSet(reply) /\ at' = "undefined"
      <4>1. reply # <<None>>
        <5>1. ToSet(<<None>>) = {None} /\ Wild # None
            BY DEF ToSet, Wild, None, Node
        <5> QED
            BY <3>3, <5>1
      <4> QED
        BY <3>3, <4>1
    <3>4. CASE /\ reply # <<None>> /\ Wild \notin ToSet(reply)
               /\ at' \in IF served = MaxCommands THEN {"closed"} ELSE {"idle"} \cup Exits
      <4>1. at' = "idle"
        BY <1>2, <3>1, <3>4
      <4> QED
        BY <3>4, <4>1
    <3> QED
        BY <3>2, <3>3, <3>4 DEF ef_redis_free_reply
  <2>2. sent \in Replies /\ reply = AsParsed(sent)
    BY <1>0, <2>1 DEF AtReturned
  <2>3. reply \in Seq(Values)
    BY <2>2, AsParsedFacts
  <2>4. Wild \notin ToSet(reply)
    <3>1. Wild.type = "wild"
        BY DEF Wild, Node
    <3>2. Wild \notin Values
      <4>1. \A x \in Values : x.type \in Types \cup {"str"}
        BY DEF Values
      <4>2. ~ (Wild.type \in Types \cup {"str"})
        BY <3>1 DEF Types
      <4> QED
        BY <4>1, <4>2
    <3>3. \A i \in DOMAIN reply : reply[i] \in Values
        BY <2>3, LenProperties
    <3> QED
        BY <3>2, <3>3 DEF ToSet
  <2>5. at' = "idle" /\ inp' = <<>> /\ left' = <<>>
    BY <1>0, <2>1, <2>4 DEF AtReturned
  <2> QED
    BY <2>5 DEF Faithful
<1> QED
    BY <1>1, <1>2

\* A server that hangs up takes nothing from what was read.
LEMMA FaithfulHangup ==
    ASSUME Typed, Faithful, NEW how \in {"eof", "reset"}, Hangup(how) PROVE Faithful'
<1>1. /\ peer = "open" /\ peer' = how /\ inp' = <<>>
      /\ UNCHANGED <<mem, seek, end, at, kind, need, content, left, reply, sent>>
    BY DEF Hangup, buffer_vars, value_vars, server_vars
<1>2. peer' # "open"
    BY <1>1
<1>3. UNCHANGED <<Wire, Done, This, Before>>
    BY <1>1 DEF Wire, Done, This, Before
<1>4. ASSUME Reading PROVE Reading'
  <2>1. Window(0)'
    BY <1>1, <1>3, <1>4 DEF Window, Reading
  <2>2. Got(end)'
    BY <1>1, <1>2, <1>3, <1>4 DEF Got, Reading
  <2> QED
    BY <1>1, <1>3, <1>4, <2>1, <2>2 DEF Reading
<1>5. ASSUME InPieces PROVE InPieces'
    BY <1>1, <1>5 DEF InPieces
<1>6. CASE at = "reply"
  <2>1. AtReply
    BY <1>6 DEF Faithful
  <2>2. AtReply'
    BY <1>1, <1>4, <2>1 DEF AtReply
  <2> QED
    BY <1>1, <1>6, <2>2 DEF Faithful
<1>7. CASE at = "header"
  <2>1. AtHeader
    BY <1>7 DEF Faithful
  <2>2. AtHeader'
    BY <1>1, <1>3, <1>4, <2>1 DEF AtHeader
  <2> QED
    BY <1>1, <1>7, <2>2 DEF Faithful
<1>8. CASE at = "string"
  <2>1. AtString
    BY <1>8 DEF Faithful
  <2>2. AtString'
    BY <1>1, <1>3, <1>4, <2>1 DEF AtString
  <2> QED
    BY <1>1, <1>8, <2>2 DEF Faithful
<1>9. CASE at = "elem"
  <2>1. AtElem
    BY <1>9 DEF Faithful
  <2>2. AtElem'
    BY <1>1, <1>3, <1>4, <2>1 DEF AtElem
  <2> QED
    BY <1>1, <1>9, <2>2 DEF Faithful
<1>10. CASE at = "content_more"
  <2>1. AtContentMore
    BY <1>10 DEF Faithful
  <2>2. Got(Before)'
    BY <1>1, <1>2, <1>3, <2>1 DEF AtContentMore, Got
  <2>3. AtContentMore'
    BY <1>1, <1>5, <2>1, <2>2 DEF AtContentMore
  <2> QED
    BY <1>1, <1>10, <2>3 DEF Faithful
<1>11. CASE at = "content"
  <2>1. AtContent
    BY <1>11 DEF Faithful
  <2>2. Got(Before + end)'
    BY <1>1, <1>2, <1>3, <2>1 DEF AtContent, Got
  <2>3. Window(Before)'
    BY <1>1, <1>3, <2>1 DEF AtContent, Window
  <2>4. AtContent'
    BY <1>5, <2>1, <2>2, <2>3 DEF AtContent
  <2> QED
    BY <1>1, <1>11, <2>4 DEF Faithful
<1>12. CASE at = "returned"
  <2>1. AtReturned
    BY <1>12 DEF Faithful
  <2>2. AtReturned'
    BY <1>1, <2>1 DEF AtReturned
  <2> QED
    BY <1>1, <1>12, <2>2 DEF Faithful
<1>13. CASE at = "first"
  <2>1. AtFirst
    BY <1>13 DEF Faithful
  <2>2. AtFirst'
    BY <1>1, <1>2, <2>1 DEF AtFirst
  <2> QED
    BY <1>1, <1>13, <2>2 DEF Faithful
<1>14. CASE at \in {"idle", "closed", "bad_free"}
    BY <1>1, <1>14 DEF Faithful
<1> QED
    BY <1>6, <1>7, <1>8, <1>9, <1>10, <1>11, <1>12, <1>13, <1>14, Zenon
    DEF Typed, Places, Parsing, Faithful

\* A step that changes nothing keeps the invariant.
LEMMA FaithfulStill ==
    ASSUME Faithful, UNCHANGED vars PROVE Faithful'
<1>1. UNCHANGED <<peer, inp, mem, seek, end, at, kind, need, content, left, reply, sent>>
    BY DEF vars, buffer_vars, value_vars, server_vars
<1>2. UNCHANGED <<Wire, Done, This, Before>>
    BY <1>1 DEF Wire, Done, This, Before
<1>3. Reading' <=> Reading
    BY <1>1, <1>2 DEF Reading, Window, Got
<1>4. InPieces' <=> InPieces
    BY <1>1 DEF InPieces
<1>5. Got(Before)' <=> Got(Before)
    BY <1>1, <1>2 DEF Got
<1>6. /\ Window(Before)' <=> Window(Before)
      /\ Got(Before + end)' <=> Got(Before + end)
    BY <1>1, <1>2 DEF Window, Got
<1>7. AtReply => AtReply'
    BY <1>1, <1>3 DEF AtReply
<1>8. AtHeader => AtHeader'
    BY <1>1, <1>2, <1>3 DEF AtHeader
<1>9. AtString => AtString'
    BY <1>1, <1>2, <1>3 DEF AtString
<1>10. AtElem => AtElem'
    BY <1>1, <1>2, <1>3 DEF AtElem
<1>11. AtContentMore => AtContentMore'
    BY <1>1, <1>4, <1>5 DEF AtContentMore
<1>12. AtContent => AtContent'
    BY <1>4, <1>6 DEF AtContent
<1>13. AtFirst => AtFirst'
    BY <1>1, <1>2 DEF AtFirst
<1>14. AtReturned => AtReturned'
    BY <1>1 DEF AtReturned
<1>15. at' = at /\ inp' = inp /\ left' = left
    BY <1>1
<1> QED
    BY <1>7, <1>8, <1>9, <1>10, <1>11, <1>12, <1>13, <1>14, <1>15 DEF Faithful

\* The inductive invariant holds before the first command.
LEMMA InvInit == Init => IInv
<1> SUFFICES ASSUME Init PROVE IInv
    OBVIOUS
<1>1. at = "idle" /\ inp = <<>> /\ left = <<>>
    BY DEF Init
<1>2. Faithful
    BY <1>1 DEF Faithful
<1> QED
    BY <1>2, TypedInit DEF IInv

\* Every step keeps it: one case per action.
LEMMA InvStep == Supported /\ IInv /\ [Next]_vars => IInv'
<1> SUFFICES ASSUME Supported, IInv, [Next]_vars PROVE IInv'
    OBVIOUS
<1>1. Typed /\ Typed'
    BY TypedStep DEF IInv
<1> SUFFICES ASSUME ~ torn' PROVE Faithful'
    BY <1>1 DEF IInv
<1>t. ~ torn
  <2>1. CASE UNCHANGED torn
    BY <2>1
  <2>2. ASSUME NEW n, NEW room, Note(n, room) PROVE ~ torn
    BY <2>2 DEF Note
  <2>3. CASE ef_redis_read_reply
    BY <2>1, <2>2, <2>3 DEF ef_redis_read_reply, read_vars
  <2>4. CASE reply_read_more
    BY <2>1, <2>2, <2>4 DEF reply_read_more, read_vars
  <2>5. CASE ef_redis_cmd \/ BeginReply \/ BeginElement \/ Header \/ String \/ Content \/ ef_redis_free_reply
    BY <2>1, <2>5 DEF ef_redis_cmd, BeginReply, BeginElement, Header, String, Content, ef_redis_free_reply, read_vars
  <2>6. CASE Hangup("eof") \/ Hangup("reset") \/ UNCHANGED vars
    BY <2>1, <2>6 DEF Hangup, vars, read_vars
  <2> QED
    BY <2>3, <2>4, <2>5, <2>6, Zenon DEF Next, client, Finished
<1>2. Faithful
    BY <1>t DEF IInv
<1>3. CASE ef_redis_cmd BY <1>1, <1>2, <1>3, FaithfulCmd
<1>4. CASE ef_redis_read_reply BY <1>1, <1>2, <1>4, FaithfulFirst
<1>5. CASE reply_read_more BY <1>1, <1>2, <1>5, FaithfulMore
<1>6. CASE BeginReply
  <2>1. at = "reply" /\ AtReply
    BY <1>2, <1>6 DEF BeginReply, Faithful
  <2> QED
    BY <1>1, <1>6, <2>1, FaithfulReply
<1>7. CASE BeginElement
  <2>1. at = "elem" /\ AtElem
    BY <1>2, <1>7 DEF BeginElement, Faithful
  <2> QED
    BY <1>1, <1>7, <2>1, FaithfulElement
<1>8. CASE Header
  <2>1. AtHeader
    BY <1>2, <1>8 DEF Header, Faithful
  <2> QED
    BY <1>1, <1>8, <2>1, FaithfulHeader
<1>9. CASE String
  <2>1. at = "string" /\ AtString
    BY <1>2, <1>9 DEF String, Faithful
  <2> QED
    BY <1>1, <1>9, <2>1, FaithfulString
<1>10. CASE Content
  <2>1. at = "content" /\ AtContent
    BY <1>2, <1>10 DEF Content, Faithful
  <2> QED
    BY <1>1, <1>10, <2>1, FaithfulContent
<1>11. CASE ef_redis_free_reply BY <1>1, <1>2, <1>11, FaithfulFree
<1>12. CASE Hangup("eof") \/ Hangup("reset")
  <2>1. CASE Hangup("eof")
    BY <1>1, <1>2, <2>1, FaithfulHangup
  <2>2. CASE Hangup("reset")
    BY <1>1, <1>2, <2>2, FaithfulHangup
  <2> QED
    BY <1>12, <2>1, <2>2
<1>13. CASE UNCHANGED vars BY <1>2, <1>13, FaithfulStill
<1> QED
    BY <1>3, <1>4, <1>5, <1>6, <1>7, <1>8, <1>9, <1>10, <1>11, <1>12, <1>13, Zenon DEF Next, client, Finished

\* It implies both invariants of the run.
LEMMA InvSafe == Supported /\ IInv => TypeOK /\ ReplyAsSent
<1> SUFFICES ASSUME Supported, IInv PROVE TypeOK /\ ReplyAsSent
    OBVIOUS
<1>1. Typed
    BY DEF IInv
<1>2. ASSUME ~ torn
      PROVE  /\ seek <= end \/ at \in {"idle", "first", "returned", "closed", "bad_free"}
             /\ at # "undefined"
             /\ at = "returned" => reply = AsParsed(sent) \/ (reply = <<None>> /\ peer = "reset")
  <2>1. Faithful
    BY <1>2 DEF IInv
  <2>2. at # "undefined"
    BY <2>1 DEF Faithful
  <2>3. at = "returned" => reply = AsParsed(sent) \/ (reply = <<None>> /\ peer = "reset")
    BY <2>1 DEF Faithful, AtReturned
  <2>4. ASSUME at \notin {"idle", "first", "returned", "closed", "bad_free"} PROVE seek <= end
    <3>0. end \in Nat
        BY <1>1, CapFacts DEF Typed
    <3>1. CASE at = "reply"
      <4>1. seek = 0
        BY <2>1, <3>1 DEF Faithful, AtReply
      <4> QED
        BY <3>0, <4>1
    <3>2. CASE at = "content"
      <4>1. seek = 0
        BY <1>1, <3>2 DEF Typed
      <4> QED
        BY <3>0, <4>1
    <3>3. CASE at = "content_more"
      <4>1. seek = end
        BY <2>1, <3>3 DEF Faithful, AtContentMore
      <4> QED
        BY <3>0, <4>1
    <3>4. ASSUME Reading, seek = Here \/ seek = Here + 1 \/ seek = Here + LineLen(This) PROVE seek <= end
      <4>1. Here \in Nat /\ LineLen(This) \in Nat /\ LineLen(This) >= 3 /\ Here + LineLen(This) <= end
        BY <1>1, <3>4, HereFacts
      <4> DEFINE h == Here
                 l == LineLen(This)
      <4>2. h \in Nat /\ l \in Nat /\ l >= 3 /\ h + l <= end /\ (seek = h \/ seek = h + 1 \/ seek = h + l)
        BY <3>4, <4>1
      <4> HIDE DEF h, l
      <4> QED
        BY <3>0, <4>2
    <3>5. CASE at = "header"
      <4>1. Reading /\ seek = Here + (IF kind = Plus THEN 1 ELSE 0)
        BY <2>1, <3>5 DEF Faithful, AtHeader, Here
      <4>2. Here \in Nat
        BY <1>1, <4>1, HereFacts
      <4>3. seek = Here \/ seek = Here + 1
        BY <4>1, <4>2
      <4> QED
        BY <3>4, <4>1, <4>3
    <3>6. CASE at = "string"
      <4>1. Reading /\ seek = Here + (IF This.type = "bulk" THEN LineLen(This) ELSE 1)
        BY <2>1, <3>6 DEF Faithful, AtString, Here
      <4>2. seek = Here + LineLen(This) \/ seek = Here + 1
        BY <4>1
      <4> QED
        BY <3>4, <4>1, <4>2
    <3>7. CASE at = "elem"
      <4>1. Reading /\ seek = Here
        BY <2>1, <3>7 DEF Faithful, AtElem, Here
      <4> QED
        BY <3>4, <4>1
    <3>8. at \in {"reply", "header", "string", "content", "content_more", "elem"}
        BY <1>1, <2>1, <2>2, <2>4, Zenon DEF Typed, Places, Parsing, Faithful
    <3> QED
        BY <3>1, <3>2, <3>3, <3>5, <3>6, <3>7, <3>8
  <2> QED
    BY <2>2, <2>3, <2>4
<1>3. TypeOK
    BY <1>1, <1>2 DEF TypeOK, Typed, Places
<1>4. ReplyAsSent
    BY <1>2 DEF ReplyAsSent
<1> QED
    BY <1>3, <1>4

\* It holds in every state.
LEMMA InvAlways == ASSUME Supported PROVE Spec => []IInv
<1>1. IInv /\ [Next]_vars => IInv'
    BY InvStep
<1> QED
    BY InvInit, <1>1, PTL DEF Spec

\* ef_redis_read_reply and the parsers it calls stay in what was read: seek never passes
\* con->end while a reply is parsed, unless a read cut a reply where the code cannot go on.
THEOREM RedisTypeOK == ASSUME Supported PROVE Spec => []TypeOK
<1>1. IInv => TypeOK
    BY InvSafe
<1> QED
    BY InvAlways, <1>1, PTL

\* What ef_redis_read_reply returns is the reply the server sent to this command, value
\* by value, however the reads cut it, or nothing because the connection broke; unless a
\* read cut it where the code cannot go on.
THEOREM RedisReplyAsSent == ASSUME Supported PROVE Spec => []ReplyAsSent
<1>1. IInv => ReplyAsSent
    BY InvSafe
<1> QED
    BY InvAlways, <1>1, PTL
=============================================================================
