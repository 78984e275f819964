--------------------------- MODULE FastCGIProofs ----------------------------
(***************************************************************************)
(* The buffered reader under fcgi_read_request keeps the order of what the *)
(* web server sends, no buffer is ever filled beyond its capacity, a       *)
(* request that is returned has the parameters the server sent, and what   *)
(* the server receives is the response, in records, from its beginning.    *)
(***************************************************************************)
EXTENDS FastCGI, RecursionProofs

Tokens == Seq(Token)

\* r is how s ends.
EndsWith(s, r) == \E a \in Tokens : s = a \o r

-----------------------------------------------------------------------------
(* Sequences of tokens *)

\* A sequence cut in two.
LEMMA CutFacts ==
    ASSUME NEW s \in Tokens, NEW n \in 0 .. Len(s)
    PROVE  /\ Take(s, n) \in Tokens /\ Len(Take(s, n)) = n
           /\ Drop(s, n) \in Tokens /\ Len(Drop(s, n)) = Len(s) - n
           /\ Take(s, n) \o Drop(s, n) = s
<1>1. Len(s) \in Nat /\ \A i \in 1 .. Len(s) : s[i] \in Token
    BY LenProperties DEF Tokens
<1>2. Take(s, n) \in Tokens /\ Len(Take(s, n)) = n
    BY <1>1, SubSeqProperties DEF Take, Tokens
<1>3. Drop(s, n) \in Tokens /\ Len(Drop(s, n)) = Len(s) - n
    BY <1>1, SubSeqProperties DEF Drop, Tokens
<1>4. SubSeq(s, 1, n) \o SubSeq(s, n + 1, Len(s)) = SubSeq(s, 1, Len(s))
  <2>1. 1 \in 1 .. Len(s) + 1 /\ n \in 1 - 1 .. Len(s) /\ Len(s) \in n .. Len(s)
    BY <1>1
  <2>2. s \in Seq(Token)
    BY DEF Tokens
  <2> QED
    BY <2>1, <2>2, ConcatAdjacentSubSeq
<1>5. SubSeq(s, 1, Len(s)) = s
    BY SubSeqFull DEF Tokens
<1> QED
    BY <1>2, <1>3, <1>4, <1>5 DEF Take, Drop

\* Sequences joined.
LEMMA JoinFacts ==
    ASSUME NEW s \in Tokens, NEW t \in Tokens
    PROVE  /\ s \o t \in Tokens /\ Len(s \o t) = Len(s) + Len(t)
           /\ Len(s) \in Nat /\ Len(t) \in Nat
           /\ s \o <<>> = s /\ <<>> \o s = s
    BY ConcatProperties, ConcatEmptySeq, LenProperties DEF Tokens

\* The empty sequence.
LEMMA EmptyFacts == <<>> \in Tokens /\ Len(<<>>) = 0 /\ \A s \in Tokens : Len(s) = 0 => s = <<>>
    BY EmptySeq, LenProperties DEF Tokens

\* Joining is associative.  (By name, for provers that would search among all
\* ways to join.)
Assoc(s, t, u) == (s \o t) \o u = s \o (t \o u)

\* Joining three sequences, in either order.
LEMMA JoinAssoc ==
    ASSUME NEW s \in Tokens, NEW t \in Tokens, NEW u \in Tokens
    PROVE  Assoc(s, t, u)
    BY ConcatAssociative DEF Tokens, Assoc

\* Cutting a join where it was joined.
LEMMA CutJoin ==
    ASSUME NEW s \in Tokens, NEW t \in Tokens
    PROVE  Take(s \o t, Len(s)) = s /\ Drop(s \o t, Len(s)) = t
<1> DEFINE u == s \o t
           n == Len(s)
<1>1. /\ u \in Tokens /\ Len(u) = n + Len(t) /\ n \in Nat /\ Len(t) \in Nat
      /\ \A i \in 1 .. n + Len(t) : u[i] = IF i <= n THEN s[i] ELSE t[i - n]
    BY ConcatProperties, LenProperties DEF Tokens
<1> HIDE DEF u
<1>2. \A i \in 1 .. Len(u) : u[i] \in Token
    BY <1>1, LenProperties DEF Tokens
<1>3. /\ Take(u, n) \in Tokens /\ Len(Take(u, n)) = n
      /\ \A i \in 1 .. n : Take(u, n)[i] = u[i]
  <2>1. \A i \in 1 .. n : u[i] \in Token
    BY <1>1, <1>2
  <2> QED
    BY <1>1, <2>1, SubSeqProperties DEF Take, Tokens
<1>4. /\ Drop(u, n) \in Tokens /\ Len(Drop(u, n)) = Len(t)
      /\ \A i \in 1 .. Len(t) : Drop(u, n)[i] = u[n + i]
  <2>1. \A i \in n + 1 .. Len(u) : u[i] \in Token
    BY <1>1, <1>2
  <2>2. /\ SubSeq(u, n + 1, Len(u)) \in Seq(Token)
        /\ Len(SubSeq(u, n + 1, Len(u))) = IF n + 1 <= Len(u) THEN Len(u) - (n + 1) + 1 ELSE 0
        /\ \A i \in 1 .. Len(u) - (n + 1) + 1 : SubSeq(u, n + 1, Len(u))[i] = u[n + 1 + i - 1]
    BY <1>1, <2>1, SubSeqProperties
  <2> QED
    BY <1>1, <2>2 DEF Drop, Tokens
<1>5. Take(u, n) = s
  <2>1. \A i \in 1 .. n : Take(u, n)[i] = s[i]
    BY <1>1, <1>3
  <2> QED
    BY <1>3, <2>1, SeqEqual DEF Tokens
<1>6. Drop(u, n) = t
  <2>1. ASSUME NEW i \in 1 .. Len(t)
        PROVE  Drop(u, n)[i] = t[i]
    <3>1. n + i \in 1 .. n + Len(t) /\ ~ (n + i <= n) /\ (n + i) - n = i
        BY <1>1
    <3>2. u[n + i] = t[(n + i) - n]
        BY <1>1, <3>1
    <3> QED
        BY <1>4, <3>1, <3>2
  <2> QED
    BY <1>4, <2>1, SeqEqual DEF Tokens
<1> QED
    BY <1>5, <1>6 DEF u

\* What ends a sequence is what is left after dropping the rest.
LEMMA EndDrop ==
    ASSUME NEW s \in Tokens, NEW r \in Tokens, EndsWith(s, r)
    PROVE  r = Drop(s, Len(s) - Len(r))
<1>1. PICK a \in Tokens : s = a \o r
    BY DEF EndsWith
<1>2. Len(s) - Len(r) = Len(a)
    BY <1>1, JoinFacts
<1> QED
    BY <1>1, <1>2, CutJoin

\* Bytes at the front of an end may be forgotten.
LEMMA EndShorter ==
    ASSUME NEW s \in Tokens, NEW p \in Tokens, NEW r \in Tokens, EndsWith(s, p \o r)
    PROVE  EndsWith(s, r)
<1>1. PICK a \in Tokens : s = a \o (p \o r)
    BY DEF EndsWith
<1>2. s = (a \o p) \o r
  <2>1. Assoc(a, p, r)
    BY JoinAssoc
  <2> QED
    BY <1>1, <2>1 DEF Assoc
<1> QED
    BY <1>2, JoinFacts DEF EndsWith

\* Bytes may be added to both.
LEMMA EndLonger ==
    ASSUME NEW s \in Tokens, NEW r \in Tokens, NEW t \in Tokens, EndsWith(s, r)
    PROVE  EndsWith(s \o t, r \o t)
<1>1. PICK a \in Tokens : s = a \o r
    BY DEF EndsWith
<1>2. s \o t = a \o (r \o t)
  <2>1. Assoc(a, r, t)
    BY JoinAssoc
  <2> QED
    BY <1>1, <2>1 DEF Assoc
<1> QED
    BY <1>2 DEF EndsWith

\* Every sequence ends with nothing.
LEMMA EndNothing == ASSUME NEW s \in Tokens PROVE EndsWith(s, <<>>)
    BY JoinFacts DEF EndsWith

\* What is built from constants consists of tokens.
LEMMA TokenFacts ==
    /\ \A c \in Int : Byte(c) \in Token
    /\ \A t \in Int : Type(t) \in Token
    /\ \A len \in Int, n \in Int : Size(len, n) \in Token
    /\ \A t \in Token : t.a \in Int /\ t.b \in Int
    BY DEF Byte, Type, Size, Token
-----------------------------------------------------------------------------
(* The bytes of a request *)

\* Tokens among which no other record begins than one of this type.
Plain(type) == {t \in Token : t.k = "type" => t.a = type}

\* Content: bytes.
Contents == Seq({t \in Token : t.k = "byte"})

\* Where the first k of some records end in their content.
End(ends, k) == IF k = 0 THEN 0 ELSE ends[k]

\* Two sequences joined, by their lengths.
LEMMA Joined ==
    ASSUME NEW T, NEW s \in Seq(T), NEW t \in Seq(T)
    PROVE  /\ Len(s) \in Nat /\ Len(t) \in Nat
           /\ s \o t \in Seq(T) /\ Len(s \o t) = Len(s) + Len(t)
           /\ \A i \in 1 .. Len(s) : (s \o t)[i] = s[i]
           /\ \A i \in 1 .. Len(t) : (s \o t)[Len(s) + i] = t[i]
<1> DEFINE u == s \o t
           n == Len(s)
           m == Len(t)
<1>1. n \in Nat /\ m \in Nat
    BY LenProperties
<1>2. /\ u \in Seq(T) /\ Len(u) = n + m
      /\ \A i \in 1 .. n + m : u[i] = IF i <= n THEN s[i] ELSE t[i - n]
    BY ConcatProperties
<1> HIDE DEF u, n, m
<1>3. ASSUME NEW i \in 1 .. n PROVE u[i] = s[i]
  <2>1. i \in 1 .. n + m /\ i <= n
    BY <1>1
  <2> QED
    BY <1>2, <2>1
<1>4. ASSUME NEW i \in 1 .. m PROVE u[n + i] = t[i]
  <2>1. n + i \in 1 .. n + m /\ ~ (n + i <= n) /\ (n + i) - n = i
    BY <1>1
  <2> QED
    BY <1>2, <2>1
<1> QED
    BY <1>1, <1>2, <1>3, <1>4 DEF u, n, m

\* Padding makes the length even.
LEMMA PaddingFacts ==
    ASSUME NEW n \in Nat
    PROVE  Padding(n) \in 0 .. 1 /\ (n + Padding(n)) % Align = 0
    BY DEF Padding, Align

\* Content is content of any record.
LEMMA ContentFacts ==
    ASSUME NEW content \in Contents, NEW type \in Int
    PROVE  content \in Tokens /\ content \in Seq(Plain(type)) /\ Len(content) \in Nat
<1>1. {t \in Token : t.k = "byte"} \subseteq Token /\ {t \in Token : t.k = "byte"} \subseteq Plain(type)
    BY DEF Plain
<1> QED
    BY <1>1, SeqMonotonic, LenProperties DEF Contents, Tokens

\* The parts of a record.
LEMMA RecordFacts ==
    ASSUME NEW type \in Int, NEW content \in Seq(Plain(type))
    PROVE  /\ Record(type, content) \in Seq(Plain(type))
           /\ Len(Record(type, content)) = 2 + Len(content) + Padding(Len(content))
           /\ Record(type, content)[1] = Type(type)
           /\ Record(type, content)[2] = Size(Len(content), Padding(Len(content)))
           /\ \A j \in 1 .. Len(content) : Record(type, content)[2 + j] = content[j]
           /\ \A j \in 1 .. Padding(Len(content)) :
                 Record(type, content)[2 + Len(content) + j] = Byte(0)
<1> DEFINE n == Len(content)
           T == Plain(type)
           p == Padding(n)
           h == <<Type(type), Size(n, p)>>
           z == Pads(p)
           hc == h \o content
<1>1. n \in Nat /\ p \in 0 .. 1
    BY LenProperties, PaddingFacts
<1>2. Type(type) \in T /\ Size(n, p) \in T /\ Byte(0) \in T
  <2> HIDE DEF p, n
  <2>1. Type(type) \in Token /\ Size(n, p) \in Token /\ Byte(0) \in Token
    BY <1>1, TokenFacts
  <2> QED
    BY <2>1 DEF Plain, Type, Size, Byte
<1>3. h \in Seq(T) /\ Len(h) = 2 /\ h[1] = Type(type) /\ h[2] = Size(n, p)
  <2> HIDE DEF p, T
  <2> QED
    BY <1>2
<1>4. z \in Seq(T) /\ Len(z) = p /\ \A j \in 1 .. p : z[j] = Byte(0)
  <2> HIDE DEF p, T
  <2> QED
    BY <1>1, <1>2 DEF Pads
<1>5. /\ hc \in Seq(T) /\ Len(hc) = 2 + n
      /\ \A i \in 1 .. 2 : hc[i] = h[i]
      /\ \A i \in 1 .. n : hc[2 + i] = content[i]
  <2>1. content \in Seq(T)
    OBVIOUS
  <2> HIDE DEF h, T
  <2>2. /\ h \o content \in Seq(T) /\ Len(h \o content) = Len(h) + Len(content)
        /\ \A i \in 1 .. Len(h) : (h \o content)[i] = h[i]
        /\ \A i \in 1 .. Len(content) : (h \o content)[Len(h) + i] = content[i]
    BY <1>3, <2>1, Joined
  <2> QED
    BY <1>3, <2>2
<1>6. /\ hc \o z \in Seq(T) /\ Len(hc \o z) = 2 + n + p
      /\ \A i \in 1 .. 2 + n : (hc \o z)[i] = hc[i]
      /\ \A i \in 1 .. p : (hc \o z)[2 + n + i] = z[i]
  <2> HIDE DEF hc, z, T, p
  <2> QED
    BY <1>1, <1>4, <1>5, Joined
<1>7. Record(type, content) = hc \o z
    BY DEF Record
<1> HIDE DEF hc, z, p, h
<1>8. (hc \o z)[1] = Type(type) /\ (hc \o z)[2] = Size(n, p)
  <2>1. 1 \in 1 .. 2 + n /\ 2 \in 1 .. 2 + n /\ 1 \in 1 .. 2 /\ 2 \in 1 .. 2
    BY <1>1
  <2> QED
    BY <1>3, <1>5, <1>6, <2>1
<1>9. ASSUME NEW j \in 1 .. n PROVE (hc \o z)[2 + j] = content[j]
  <2>1. 2 + j \in 1 .. 2 + n
    BY <1>1
  <2> QED
    BY <1>5, <1>6, <2>1
<1>10. \A j \in 1 .. p : (hc \o z)[2 + n + j] = Byte(0)
    BY <1>4, <1>6
<1> QED
    BY <1>6, <1>7, <1>8, <1>9, <1>10 DEF p, n

\* The pieces into which content is cut, none of them empty.
LEMMA ChunkFacts ==
    ASSUME NEW T, NEW content \in Seq(T), NEW ends \in Seq(Nat), Cut(Len(content), ends),
           NEW k \in 1 .. Len(ends)
    PROVE  /\ End(ends, k - 1) \in Nat /\ End(ends, k) = ends[k]
           /\ End(ends, k - 1) < ends[k] /\ ends[k] <= Len(content)
           /\ Chunk(content, ends, k) \in Seq(T)
           /\ Len(Chunk(content, ends, k)) = ends[k] - End(ends, k - 1)
           /\ \A j \in 1 .. ends[k] - End(ends, k - 1) :
                 Chunk(content, ends, k)[j] = content[End(ends, k - 1) + j]
<1> DEFINE from == End(ends, k - 1)
           to == ends[k]
<1>1. Len(ends) \in Nat /\ Len(content) \in Nat /\ \A i \in 1 .. Len(content) : content[i] \in T
    BY LenProperties
<1>2. DOMAIN ends = 1 .. Len(ends) /\ \A i \in 1 .. Len(ends) : ends[i] \in Nat /\ ends[i] \in 1 .. Len(content)
    BY LenProperties DEF Cut
<1>3. from \in Nat /\ from < to /\ to <= Len(content) /\ to \in Nat /\ End(ends, k) = to
  <2>1. CASE k = 1
    BY <1>1, <1>2, <2>1 DEF End
  <2>2. CASE k # 1
    <3>1. k \in 2 .. Len(ends) /\ k - 1 \in 1 .. Len(ends) /\ k # 0 /\ k - 1 # 0
        BY <1>1, <2>2
    <3>2. ends[k - 1] < ends[k]
        BY <3>1 DEF Cut
    <3> QED
        BY <1>2, <3>1, <3>2 DEF End
  <2> QED
    BY <2>1, <2>2
<1>4. Chunk(content, ends, k) = SubSeq(content, from + 1, to)
  <2>1. from = IF k = 1 THEN 0 ELSE ends[k - 1]
    <3>1. k - 1 = 0 <=> k = 1
        BY <1>1
    <3> QED
        BY <3>1 DEF End
  <2> QED
    BY <2>1, Zenon DEF Chunk
<1> HIDE DEF from, to
<1>5. \A i \in from + 1 .. to : content[i] \in T
    BY <1>1, <1>3
<1>6. /\ SubSeq(content, from + 1, to) \in Seq(T)
      /\ Len(SubSeq(content, from + 1, to)) = IF from + 1 <= to THEN to - (from + 1) + 1 ELSE 0
      /\ \A i \in 1 .. to - (from + 1) + 1 : SubSeq(content, from + 1, to)[i] = content[(from + 1) + i - 1]
    BY <1>3, <1>5, SubSeqProperties
<1>7. Len(SubSeq(content, from + 1, to)) = to - from
    BY <1>3, <1>6
<1>8. ASSUME NEW j \in 1 .. to - from PROVE SubSeq(content, from + 1, to)[j] = content[from + j]
  <2>1. j \in 1 .. to - (from + 1) + 1 /\ (from + 1) + j - 1 = from + j
    BY <1>3
  <2> QED
    BY <1>6, <2>1
<1> QED
    BY <1>3, <1>4, <1>6, <1>7, <1>8 DEF from, to

\* Where the records of Chunks(type, content, ends) begin, and what they hold.
Layout(all, type, content, ends, at0, off) ==
    /\ off \in [0 .. Len(ends) -> Nat] /\ off[0] = at0
    /\ \A k \in 1 .. Len(ends) :
          LET from == off[k - 1]
              len  == ends[k] - End(ends, k - 1)
          IN  /\ off[k] = from + 2 + len + Padding(len)
              /\ all[from + 1] = Type(type) /\ all[from + 2] = Size(len, Padding(len))
              /\ \A j \in 1 .. len : all[from + 2 + j] = content[End(ends, k - 1) + j]
    /\ off[Len(ends)] + 2 <= Len(all)
    /\ \A k \in 0 .. Len(ends) : off[k] <= off[Len(ends)]
    /\ all[off[Len(ends)] + 1] = Type(type) /\ all[off[Len(ends)] + 2] = Size(0, 0)

\* The records of a stream lie in it one after the other.
LEMMA ChunksFacts ==
    ASSUME NEW type \in Int, NEW content \in Contents, NEW ends \in Seq(Nat),
           Cut(Len(content), ends)
    PROVE  /\ Chunks(type, content, ends) \in Seq(Plain(type))
           /\ \E off : Layout(Chunks(type, content, ends), type, content, ends, 0, off)
<1> DEFINE T == Plain(type)
           n == Len(ends)
           parts == [i \in DOMAIN ends |-> Record(type, Chunk(content, ends, i))]
           len(k) == ends[k] - End(ends, k - 1)
           all == FlattenSeq(parts)
           last == Record(type, <<>>)
<1>1. content \in Seq(T) /\ content \in Tokens
    BY ContentFacts
<1>2. n \in Nat /\ DOMAIN ends = 1 .. n
    BY LenProperties
<1>3. ASSUME NEW k \in 1 .. n
      PROVE  /\ parts[k] \in Seq(T) /\ Len(parts[k]) = 2 + len(k) + Padding(len(k))
             /\ parts[k][1] = Type(type) /\ parts[k][2] = Size(len(k), Padding(len(k)))
             /\ \A j \in 1 .. len(k) : parts[k][2 + j] = content[End(ends, k - 1) + j]
             /\ len(k) \in Nat
  <2> DEFINE chunk == Chunk(content, ends, k)
             l == len(k)
  <2>1. /\ chunk \in Seq(Plain(type)) /\ Len(chunk) = l /\ l \in Nat
        /\ \A j \in 1 .. l : chunk[j] = content[End(ends, k - 1) + j]
    BY <1>1, ChunkFacts
  <2>2. parts[k] = Record(type, chunk)
    BY <1>2
  <2> HIDE DEF parts, chunk, l
  <2> DEFINE m == Len(chunk)
  <2>a. /\ Record(type, chunk) \in Seq(Plain(type)) /\ Len(Record(type, chunk)) = 2 + m + Padding(m)
        /\ Record(type, chunk)[1] = Type(type) /\ Record(type, chunk)[2] = Size(m, Padding(m))
        /\ \A j \in 1 .. m : Record(type, chunk)[2 + j] = chunk[j]
    BY <2>1, RecordFacts
  <2>b. m = l
    BY <2>1
  <2> HIDE DEF m
  <2>3. /\ parts[k] \in Seq(Plain(type)) /\ Len(parts[k]) = 2 + l + Padding(l)
        /\ parts[k][1] = Type(type) /\ parts[k][2] = Size(l, Padding(l))
        /\ \A j \in 1 .. l : parts[k][2 + j] = chunk[j]
    BY <2>a, <2>b, <2>2
  <2>4. \A j \in 1 .. l : parts[k][2 + j] = content[End(ends, k - 1) + j]
    BY <2>1, <2>3
  <2> QED
    BY <2>1, <2>3, <2>4 DEF l
<1>4. parts \in Seq(Seq(T)) /\ Len(parts) = n
  <2>1. parts = [i \in 1 .. n |-> parts[i]]
    BY <1>2
  <2> HIDE DEF parts, T
  <2> QED
    BY <1>2, <1>3, <2>1
<1> HIDE DEF parts, len
<1>5. all \in Seq(T) /\ \E off : /\ Offsets(parts, off)
                                 /\ off[Len(parts)] = Len(all)
                                 /\ Holds(all, parts, off)
                                 /\ \A i, k \in 0 .. Len(parts) : i <= k => off[i] <= off[k]
  <2> HIDE DEF T
  <2> QED
    BY <1>4, FlattenLayout
<1>6. PICK off : /\ off \in [0 .. n -> Nat] /\ off[0] = 0 /\ off[n] = Len(all)
                 /\ \A k \in 1 .. n : off[k] = off[k - 1] + Len(parts[k])
                 /\ \A k \in 1 .. n : \A j \in 1 .. Len(parts[k]) : all[off[k - 1] + j] = parts[k][j]
                 /\ \A i, k \in 0 .. n : i <= k => off[i] <= off[k]
    BY <1>4, <1>5 DEF Offsets, Holds
<1>7. /\ last \in Seq(Plain(type)) /\ Len(last) = 2 /\ last[1] = Type(type) /\ last[2] = Size(0, 0)
  <2>1. <<>> \in Seq(Plain(type)) /\ Len(<<>>) = 0
    BY EmptySeq
  <2>2. Padding(0) = 0
    BY DEF Padding, Align
  <2> DEFINE none == <<>>
             zero == Len(none)
  <2>3. none \in Seq(Plain(type))
    BY <2>1
  <2> HIDE DEF none
  <2>4. /\ Record(type, none) \in Seq(Plain(type)) /\ Len(Record(type, none)) = 2 + zero + Padding(zero)
        /\ Record(type, none)[1] = Type(type) /\ Record(type, none)[2] = Size(zero, Padding(zero))
    BY <2>3, RecordFacts
  <2> QED
  <3>1. zero = 0
        BY <2>1 DEF none
  <3> HIDE DEF zero
  <3>2. last = Record(type, none)
        BY DEF last, none
  <3> HIDE DEF last, none
  <3> QED
        BY <2>2, <2>4, <3>1, <3>2
<1>a. last \in Seq(T) /\ all \in Seq(T)
    BY <1>5, <1>7
<1> HIDE DEF all, last, T
<1>8. /\ all \o last \in Seq(T) /\ Len(all \o last) = Len(all) + 2
      /\ \A i \in 1 .. Len(all) : (all \o last)[i] = all[i]
      /\ \A i \in 1 .. 2 : (all \o last)[Len(all) + i] = last[i]
  <2>1. /\ all \o last \in Seq(T) /\ Len(all \o last) = Len(all) + Len(last)
        /\ \A i \in 1 .. Len(all) : (all \o last)[i] = all[i]
        /\ \A i \in 1 .. Len(last) : (all \o last)[Len(all) + i] = last[i]
    BY <1>a, Joined
  <2> QED
    BY <1>7, <2>1
<1> DEFINE both == all \o last
<1>9. both = Chunks(type, content, ends)
    BY DEF Chunks, all, last, parts
<1> HIDE DEF both
<1>10. Len(all) \in Nat
    BY <1>5, LenProperties
<1>11. ASSUME NEW k \in 1 .. n
       PROVE  /\ off[k] = off[k - 1] + 2 + len(k) + Padding(len(k))
              /\ both[off[k - 1] + 1] = Type(type)
              /\ both[off[k - 1] + 2] = Size(len(k), Padding(len(k)))
              /\ \A j \in 1 .. len(k) : both[off[k - 1] + 2 + j] = content[End(ends, k - 1) + j]
  <2> DEFINE l == len(k)
             p == Padding(l)
             m == Len(parts[k])
             from == off[k - 1]
  <2>1. l \in Nat /\ p \in 0 .. 1 /\ m = 2 + l + p
    BY <1>3, PaddingFacts
  <2>2. from \in Nat /\ off[k] = from + m /\ off[k] <= Len(all)
    <3>1. k - 1 \in 0 .. n /\ k \in 0 .. n /\ n \in 0 .. n /\ k <= n
        BY <1>2
    <3>2. m \in Nat
        BY <2>1
    <3>3. off[k] <= off[n]
        BY <1>6, <3>1
    <3> QED
        BY <1>6, <3>1, <3>3
  <2> HIDE DEF from, m, l, p
  <2>3. ASSUME NEW j \in 1 .. m PROVE both[from + j] = parts[k][j]
    <3>1. from + j \in 1 .. Len(all)
        BY <1>10, <2>1, <2>2
    <3>2. both[from + j] = all[from + j]
        BY <1>8, <3>1 DEF both
    <3> QED
        BY <1>6, <3>2 DEF from, m
  <2>4. both[from + 1] = parts[k][1] /\ both[from + 2] = parts[k][2]
    BY <2>1, <2>3
  <2>5. ASSUME NEW j \in 1 .. l PROVE both[from + 2 + j] = parts[k][2 + j]
    <3>1. 2 + j \in 1 .. m /\ from + (2 + j) = from + 2 + j
        BY <2>1, <2>2
    <3>2. both[from + (2 + j)] = parts[k][2 + j]
        BY <2>3, <3>1
    <3> QED
        BY <3>1, <3>2
  <2>6. off[k] = from + 2 + l + p
    BY <2>1, <2>2
  <2>7. /\ both[from + 1] = Type(type) /\ both[from + 2] = Size(l, p)
    BY <1>3, <2>4 DEF l, p
  <2>8. \A j \in 1 .. l : both[from + 2 + j] = content[End(ends, k - 1) + j]
    BY <1>3, <2>5 DEF l
  <2> QED
    BY <2>6, <2>7, <2>8 DEF from, l, p
<1>12. both[off[n] + 1] = Type(type) /\ both[off[n] + 2] = Size(0, 0) /\ off[n] + 2 <= Len(both)
  <2>1. \A j \in 1 .. 2 : both[Len(all) + j] = last[j]
    BY <1>8 DEF both
  <2> QED
    BY <1>6, <1>7, <1>8, <1>10, <2>1 DEF both
<1>13. \A k \in 0 .. n : off[k] <= off[n]
  <2>1. \A k \in 0 .. n : k <= n /\ n \in 0 .. n
    BY <1>2
  <2> QED
    BY <1>6, <2>1
<1>14. Layout(both, type, content, ends, 0, off)
    BY <1>6, <1>11, <1>12, <1>13 DEF Layout, len
<1> QED
    BY <1>8, <1>9, <1>14 DEF both, T

\* f holds all of `all` after its first d elements.
Within(all, f, d) == /\ Len(all) \in Nat /\ Len(f) \in Nat /\ d + Len(all) <= Len(f)
                     /\ \A i \in 1 .. Len(all) : f[d + i] = all[i]

\* A layout within a longer sequence.
LEMMA LayoutWithin ==
    ASSUME NEW all, NEW type, NEW content, NEW ends \in Seq(Nat), NEW off,
           Layout(all, type, content, ends, 0, off), Cut(Len(content), ends), Len(content) \in Nat,
           NEW f, NEW d \in Nat, Within(all, f, d)
    PROVE  \E to : Layout(f, type, content, ends, d, to)
<1> DEFINE n == Len(ends)
           to == [k \in 0 .. n |-> d + off[k]]
           len(k) == ends[k] - End(ends, k - 1)
<1>1. /\ off \in [0 .. n -> Nat] /\ off[0] = 0
      /\ \A k \in 1 .. n : /\ off[k] = off[k - 1] + 2 + len(k) + Padding(len(k))
                           /\ all[off[k - 1] + 1] = Type(type)
                           /\ all[off[k - 1] + 2] = Size(len(k), Padding(len(k)))
                           /\ \A j \in 1 .. len(k) : all[off[k - 1] + 2 + j] = content[End(ends, k - 1) + j]
      /\ off[n] + 2 <= Len(all)
      /\ \A k \in 0 .. n : off[k] <= off[n]
      /\ all[off[n] + 1] = Type(type) /\ all[off[n] + 2] = Size(0, 0)
    BY DEF Layout
<1>2. n \in Nat
    BY LenProperties
<1>3. to \in [0 .. n -> Nat] /\ \A k \in 0 .. n : to[k] = d + off[k]
    BY <1>1
<1>4. \A k \in 1 .. n : len(k) \in Nat
  <2> SUFFICES ASSUME NEW k \in 1 .. n PROVE len(k) \in Nat
    OBVIOUS
  <2>1. /\ \A i \in 1 .. n : ends[i] \in Nat
        /\ \A i \in 2 .. n : ends[i - 1] < ends[i]
    BY LenProperties DEF Cut
  <2>2. CASE k = 1
    BY <2>1, <2>2 DEF End
  <2>3. CASE k # 1
    <3>1. k \in 2 .. n /\ k - 1 \in 1 .. n /\ k - 1 # 0
        BY <1>2, <2>3
    <3> QED
        BY <2>1, <3>1 DEF End
  <2> QED
    BY <2>2, <2>3
<1> HIDE DEF to, len
<1>5. ASSUME NEW k \in 1 .. n
      PROVE  /\ to[k] = to[k - 1] + 2 + len(k) + Padding(len(k))
             /\ f[to[k - 1] + 1] = Type(type)
             /\ f[to[k - 1] + 2] = Size(len(k), Padding(len(k)))
             /\ \A j \in 1 .. len(k) : f[to[k - 1] + 2 + j] = content[End(ends, k - 1) + j]
  <2> DEFINE l == len(k)
             p == Padding(l)
             from == off[k - 1]
  <2>1. l \in Nat /\ p \in 0 .. 1
    BY <1>4, PaddingFacts
  <2>2. k - 1 \in 0 .. n /\ k \in 0 .. n
    BY <1>2
  <2>3. /\ from \in Nat /\ off[n] \in Nat /\ off[k] = from + 2 + l + p /\ off[k] <= off[n]
        /\ to[k - 1] = d + from /\ to[k] = d + off[k]
    <3>1. n \in 0 .. n
        BY <1>2
    <3>2. from \in Nat /\ off[n] \in Nat
        BY <1>1, <2>2, <3>1
    <3>3. off[k] = from + 2 + l + p /\ off[k] <= off[n]
        BY <1>1, <2>2
    <3>4. to[k - 1] = d + from /\ to[k] = d + off[k]
        BY <1>3, <2>2
    <3> QED
        BY <3>2, <3>3, <3>4
  <2>4. /\ all[from + 1] = Type(type) /\ all[from + 2] = Size(l, p)
        /\ \A j \in 1 .. l : all[from + 2 + j] = content[End(ends, k - 1) + j]
    BY <1>1
  <2> HIDE DEF l, p, from
  <2>a. off[n] + 2 <= Len(all) /\ Len(all) \in Nat
    BY <1>1 DEF Within
  <2>5. /\ from + 1 \in 1 .. Len(all) /\ from + 2 \in 1 .. Len(all)
        /\ d + (from + 1) = to[k - 1] + 1 /\ d + (from + 2) = to[k - 1] + 2
    <3>1. from + 1 <= Len(all) /\ from + 2 <= Len(all)
      <4> DEFINE x == off[k]
                 y == off[n]
                 z == Len(all)
      <4>1. y \in Nat /\ z \in Nat /\ x = from + 2 + l + p /\ x <= y /\ y + 2 <= z
        BY <2>3, <2>a
      <4> HIDE DEF x, y, z
      <4>2. from + 1 <= z /\ from + 2 <= z
        BY <2>1, <2>3, <4>1
      <4> QED
        BY <4>2 DEF z
    <3>2. d + (from + 1) = to[k - 1] + 1 /\ d + (from + 2) = to[k - 1] + 2
        BY <2>3
    <3> QED
        BY <2>3, <3>1, <3>2
  <2>6. f[to[k - 1] + 1] = Type(type) /\ f[to[k - 1] + 2] = Size(l, p)
    BY <2>4, <2>5 DEF Within
  <2>7. ASSUME NEW j \in 1 .. l PROVE f[to[k - 1] + 2 + j] = content[End(ends, k - 1) + j]
    <3>1. from + 2 + j \in 1 .. Len(all) /\ d + (from + 2 + j) = to[k - 1] + 2 + j
        BY <2>1, <2>3, <2>a
    <3> QED
        BY <2>4, <3>1 DEF Within
  <2>8. to[k] = to[k - 1] + 2 + l + p
    BY <2>1, <2>3
  <2> QED
    BY <2>6, <2>7, <2>8 DEF l, p
<1>6. /\ to[n] + 2 <= Len(f) /\ f[to[n] + 1] = Type(type) /\ f[to[n] + 2] = Size(0, 0)
      /\ \A k \in 0 .. n : to[k] <= to[n]
  <2>a. n \in 0 .. n
    BY <1>2
  <2>1. off[n] \in Nat /\ to[n] = d + off[n] /\ off[n] + 2 <= Len(all) /\ Len(all) \in Nat
    BY <1>1, <1>3, <2>a DEF Within
  <2>2. off[n] + 1 \in 1 .. Len(all) /\ off[n] + 2 \in 1 .. Len(all)
        /\ d + (off[n] + 1) = to[n] + 1 /\ d + (off[n] + 2) = to[n] + 2
    <3>1. off[n] + 1 <= Len(all) /\ off[n] + 2 <= Len(all)
        BY <2>1
    <3>2. d + (off[n] + 1) = to[n] + 1 /\ d + (off[n] + 2) = to[n] + 2
      <4> DEFINE x == off[n]
                 y == to[n]
      <4>1. x \in Nat /\ y = d + x
        BY <2>1
      <4> HIDE DEF x, y
      <4>2. d + (x + 1) = y + 1 /\ d + (x + 2) = y + 2
        BY <4>1
      <4> QED
        BY <4>2 DEF x, y
    <3> QED
        BY <2>1, <3>1, <3>2
  <2>3. f[to[n] + 1] = Type(type) /\ f[to[n] + 2] = Size(0, 0)
    BY <1>1, <2>2 DEF Within
  <2>4. ASSUME NEW k \in 0 .. n PROVE to[k] <= to[n]
    <3>1. off[k] \in Nat /\ off[k] <= off[n] /\ to[k] = d + off[k]
        BY <1>1, <1>3
    <3> QED
        BY <2>1, <3>1
  <2>5. to[n] + 2 <= Len(f)
    BY <2>1 DEF Within
  <2> QED
    BY <2>3, <2>4, <2>5
<1>7. to[0] = d
    BY <1>1, <1>2, <1>3
<1>8. Layout(f, type, content, ends, d, to)
    BY <1>3, <1>5, <1>6, <1>7 DEF Layout, len
<1> QED
    BY <1>8

\* Numbers as bytes.
LEMMA BytesFacts ==
    ASSUME NEW s \in Seq(Nat)
    PROVE  /\ Bytes(s) \in Contents /\ Len(Bytes(s)) = Len(s)
           /\ \A i \in 1 .. Len(s) : Bytes(s)[i] = Byte(s[i])
<1>1. Len(s) \in Nat /\ \A i \in 1 .. Len(s) : s[i] \in Nat
    BY LenProperties
<1>2. \A i \in 1 .. Len(s) : Byte(s[i]) \in {t \in Token : t.k = "byte"}
    BY <1>1 DEF Byte, Token
<1>3. Bytes(s) = [i \in 1 .. Len(s) |-> Byte(s[i])]
    BY DEF Bytes
<1> QED
    BY <1>1, <1>2, <1>3 DEF Contents

\* Where the pairs lie in the encoded parameters.
Paired(data, params, off) ==
    /\ off \in [0 .. Len(params) -> Nat] /\ off[0] = 0 /\ off[Len(params)] = Len(data)
    /\ \A k \in 1 .. Len(params) :
          LET from  == off[k - 1]
              name  == params[k][1]
              value == params[k][2]
          IN  /\ off[k] = from + 2 + Len(name) + Len(value) /\ off[k] <= Len(data)
              /\ data[from + 1] = Len(name) /\ data[from + 2] = Len(value)
              /\ \A j \in 1 .. Len(name) : data[from + 2 + j] = name[j]
              /\ \A j \in 1 .. Len(value) : data[from + 2 + Len(name) + j] = value[j]

\* The pairs lie in the encoded parameters one after the other.
LEMMA EncodedFacts ==
    ASSUME NEW params \in Seq(Seq(Nat) \X Seq(Nat))
    PROVE  /\ Encoded(params) \in Seq(Nat)
           /\ \E off : Paired(Encoded(params), params, off)
<1> DEFINE n == Len(params)
           parts == [i \in DOMAIN params |-> EncodedPair(params[i])]
           data == FlattenSeq(parts)
<1>1. n \in Nat /\ DOMAIN params = 1 .. n /\ \A k \in 1 .. n : params[k] \in Seq(Nat) \X Seq(Nat)
    BY LenProperties
<1>2. ASSUME NEW k \in 1 .. n
      PROVE  LET name  == params[k][1]
                 value == params[k][2]
             IN  /\ Len(name) \in Nat /\ Len(value) \in Nat
                 /\ parts[k] \in Seq(Nat) /\ Len(parts[k]) = 2 + Len(name) + Len(value)
                 /\ parts[k][1] = Len(name) /\ parts[k][2] = Len(value)
                 /\ \A j \in 1 .. Len(name) : parts[k][2 + j] = name[j]
                 /\ \A j \in 1 .. Len(value) : parts[k][2 + Len(name) + j] = value[j]
  <2> DEFINE name == params[k][1]
             value == params[k][2]
             lens == <<Len(name), Len(value)>>
             front == lens \o name
  <2>1. name \in Seq(Nat) /\ value \in Seq(Nat)
    BY <1>1
  <2>2. parts[k] = front \o value
    BY <1>1 DEF EncodedPair
  <2> HIDE DEF name, value, parts
  <2>3. Len(name) \in Nat /\ Len(value) \in Nat
    BY <2>1, LenProperties
  <2>4. lens \in Seq(Nat) /\ Len(lens) = 2 /\ lens[1] = Len(name) /\ lens[2] = Len(value)
    BY <2>3
  <2> DEFINE N == Nat
  <2>b. lens \in Seq(N) /\ name \in Seq(N) /\ value \in Seq(N)
    BY <2>1, <2>4
  <2> HIDE DEF lens, N
  <2>5. /\ front \in Seq(N) /\ Len(front) = Len(lens) + Len(name)
        /\ \A i \in 1 .. Len(lens) : front[i] = lens[i]
        /\ \A i \in 1 .. Len(name) : front[Len(lens) + i] = name[i]
    BY <2>b, Joined
  <2> HIDE DEF front
  <2>c. front \in Seq(N)
    BY <2>5
  <2>6. /\ front \o value \in Seq(N) /\ Len(front \o value) = Len(front) + Len(value)
        /\ \A i \in 1 .. Len(front) : (front \o value)[i] = front[i]
        /\ \A i \in 1 .. Len(value) : (front \o value)[Len(front) + i] = value[i]
    <3> DEFINE d == front
               e == value
    <3>1. d \in Seq(N) /\ e \in Seq(N)
      BY <2>b, <2>c
    <3> HIDE DEF d, e
    <3>2. /\ d \o e \in Seq(N) /\ Len(d \o e) = Len(d) + Len(e)
          /\ \A i \in 1 .. Len(d) : (d \o e)[i] = d[i]
          /\ \A i \in 1 .. Len(e) : (d \o e)[Len(d) + i] = e[i]
      BY <3>1, Joined
    <3> QED
      BY <3>2, Zenon DEF d, e
  <2> DEFINE part == parts[k]
  <2> HIDE DEF part
  <2>7. /\ part \in Seq(Nat) /\ Len(part) = 2 + Len(name) + Len(value)
        /\ \A i \in 1 .. 2 + Len(name) : part[i] = front[i]
        /\ \A i \in 1 .. Len(value) : part[2 + Len(name) + i] = value[i]
    BY <2>2, <2>4, <2>5, <2>6 DEF part, N
  <2>8. part[1] = Len(name) /\ part[2] = Len(value)
    <3>1. 1 \in 1 .. 2 + Len(name) /\ 2 \in 1 .. 2 + Len(name) /\ 1 \in 1 .. Len(lens) /\ 2 \in 1 .. Len(lens)
        BY <2>3, <2>4
    <3> QED
        BY <2>4, <2>5, <2>7, <3>1
  <2>9. ASSUME NEW j \in 1 .. Len(name) PROVE part[2 + j] = name[j]
    <3>1. 2 + j \in 1 .. 2 + Len(name)
        BY <2>3
    <3> QED
        BY <2>4, <2>5, <2>7, <3>1
  <2> QED
    BY <2>3, <2>7, <2>8, <2>9 DEF part, name, value
<1>3. parts \in Seq(Seq(Nat)) /\ Len(parts) = n
  <2>1. parts = [i \in 1 .. n |-> parts[i]]
    BY <1>1
  <2>2. \A i \in 1 .. n : parts[i] \in Seq(Nat)
    BY <1>2
  <2> HIDE DEF parts
  <2> DEFINE S == Seq(Nat)
  <2>3. \A i \in 1 .. n : parts[i] \in S
    BY <2>2
  <2> HIDE DEF S
  <2>4. parts \in Seq(S) /\ Len(parts) = n
    BY <1>1, <2>1, <2>3
  <2> QED
    BY <2>4 DEF S
<1> HIDE DEF parts
<1>4. data \in Seq(Nat) /\ \E off : /\ Offsets(parts, off)
                                    /\ off[Len(parts)] = Len(data)
                                    /\ Holds(data, parts, off)
                                    /\ \A i, k \in 0 .. Len(parts) : i <= k => off[i] <= off[k]
    BY <1>3, FlattenLayout
<1>5. PICK off : /\ off \in [0 .. n -> Nat] /\ off[0] = 0 /\ off[n] = Len(data)
                 /\ \A k \in 1 .. n : off[k] = off[k - 1] + Len(parts[k])
                 /\ \A k \in 1 .. n : \A j \in 1 .. Len(parts[k]) : data[off[k - 1] + j] = parts[k][j]
                 /\ \A i, k \in 0 .. n : i <= k => off[i] <= off[k]
    BY <1>3, <1>4 DEF Offsets, Holds
<1>6. data = Encoded(params)
    BY DEF Encoded, data, parts
<1> HIDE DEF data
<1>7. ASSUME NEW k \in 1 .. n
      PROVE  LET from  == off[k - 1]
                 name  == params[k][1]
                 value == params[k][2]
             IN  /\ off[k] = from + 2 + Len(name) + Len(value) /\ off[k] <= Len(data)
                 /\ data[from + 1] = Len(name) /\ data[from + 2] = Len(value)
                 /\ \A j \in 1 .. Len(name) : data[from + 2 + j] = name[j]
                 /\ \A j \in 1 .. Len(value) : data[from + 2 + Len(name) + j] = value[j]
  <2> DEFINE from == off[k - 1]
             a == Len(params[k][1])
             b == Len(params[k][2])
             part == parts[k]
  <2>1. /\ a \in Nat /\ b \in Nat /\ Len(part) = 2 + a + b
        /\ part[1] = a /\ part[2] = b
        /\ \A j \in 1 .. a : part[2 + j] = params[k][1][j]
        /\ \A j \in 1 .. b : part[2 + a + j] = params[k][2][j]
    BY <1>2
  <2>2. from \in Nat /\ off[k] = from + Len(part) /\ off[k] <= Len(data)
    <3>1. k - 1 \in 0 .. n /\ k \in 0 .. n /\ n \in 0 .. n /\ k <= n
        BY <1>1
    <3> QED
        BY <1>5, <3>1
  <2>3. \A j \in 1 .. Len(part) : data[from + j] = part[j]
    BY <1>5
  <2>b. \A j \in 1 .. b : part[2 + a + j] = params[k][2][j]
    BY <1>2
  <2> HIDE DEF from, a, b, part
  <2>4. data[from + 1] = a /\ data[from + 2] = b
    <3>1. 1 \in 1 .. Len(part) /\ 2 \in 1 .. Len(part)
        BY <2>1
    <3> QED
        BY <2>1, <2>3, <3>1
  <2>5. ASSUME NEW j \in 1 .. a PROVE data[from + 2 + j] = params[k][1][j]
    <3>1. 2 + j \in 1 .. Len(part) /\ from + (2 + j) = from + 2 + j
        BY <2>1, <2>2
    <3> QED
        BY <2>1, <2>3, <3>1
  <2>6. ASSUME NEW j \in 1 .. b PROVE data[from + 2 + a + j] = params[k][2][j]
    <3>1. 2 + a + j \in 1 .. Len(part) /\ from + (2 + a + j) = from + 2 + a + j
        BY <2>1, <2>2
    <3>2. data[from + (2 + a + j)] = part[2 + a + j]
        BY <2>3, <3>1
    <3>3. part[2 + a + j] = params[k][2][j]
        BY <2>b
    <3> QED
        BY <3>1, <3>2, <3>3
  <2>7. off[k] = from + 2 + a + b
    BY <2>1, <2>2
  <2> QED
    BY <2>2, <2>4, <2>5, <2>6, <2>7 DEF from, a, b
<1>8. Paired(data, params, off)
    BY <1>5, <1>7 DEF Paired
<1> QED
    BY <1>4, <1>6, <1>8

\* Tokens joined: their places.
LEMMA JoinPlaces ==
    ASSUME NEW s \in Tokens, NEW t \in Tokens
    PROVE  /\ Len(s) \in Nat /\ Len(t) \in Nat
           /\ s \o t \in Tokens /\ Len(s \o t) = Len(s) + Len(t)
           /\ \A i \in 1 .. Len(s) : (s \o t)[i] = s[i]
           /\ \A i \in 1 .. Len(t) : (s \o t)[Len(s) + i] = t[i]
<1> DEFINE T == Token
<1>1. s \in Seq(T) /\ t \in Seq(T)
    BY DEF Tokens
<1> HIDE DEF T
<1>2. /\ Len(s) \in Nat /\ Len(t) \in Nat
      /\ s \o t \in Seq(T) /\ Len(s \o t) = Len(s) + Len(t)
      /\ \A i \in 1 .. Len(s) : (s \o t)[i] = s[i]
      /\ \A i \in 1 .. Len(t) : (s \o t)[Len(s) + i] = t[i]
    BY <1>1, Joined
<1> QED
    BY <1>2 DEF T, Tokens

\* The bytes of a request: where its records lie, and that no begin record is
\* among them but the first.
LaidOut(r, off) ==
    LET all == RequestBytes(r)
    IN  /\ Len(all) > 4
        /\ all[1] = Type(FCGI_BEGIN_REQUEST) /\ all[2] = Size(2, 0)
        /\ all[4] = Byte(IF r.keep THEN 1 ELSE 0)
        /\ \A i \in 2 .. Len(all) : all[i] # Type(FCGI_BEGIN_REQUEST)
        /\ Layout(all, FCGI_PARAMS, Bytes(Encoded(r.params)), r.ends, 4, off)

\* Where the records of a request lie in its bytes.
LEMMA RequestLayout ==
    ASSUME NEW r \in Requests
    PROVE  RequestBytes(r) \in Tokens /\ \E off : LaidOut(r, off)
<1> DEFINE params == Bytes(Encoded(r.params))
           body == Bytes(r.body)
           cut == IF r.body = <<>> THEN <<>> ELSE <<Len(r.body)>>
           flags == <<Byte(1), Byte(IF r.keep THEN 1 ELSE 0)>>
           a == Record(FCGI_BEGIN_REQUEST, flags)
           b == Chunks(FCGI_PARAMS, params, r.ends)
           c == Chunks(FCGI_STDIN, body, cut)
           ab == a \o b
           all == ab \o c
<1>1. /\ r.keep \in BOOLEAN /\ r.params \in Seq(Seq(Nat) \X Seq(Nat)) /\ r.ends \in Seq(Nat)
      /\ r.body \in Seq(Nat) /\ Cut(Len(Encoded(r.params)), r.ends)
    BY RequestAssumption
<1>2. /\ Encoded(r.params) \in Seq(Nat) /\ params \in Contents /\ Len(params) = Len(Encoded(r.params))
      /\ body \in Contents /\ Len(body) = Len(r.body) /\ Len(r.body) \in Nat
  <2>1. Encoded(r.params) \in Seq(Nat)
    BY <1>1, EncodedFacts
  <2> QED
    BY <1>1, <2>1, BytesFacts, LenProperties
<1>3. cut \in Seq(Nat) /\ Cut(Len(body), cut)
  <2>1. CASE r.body = <<>>
    <3>1. cut = <<>> /\ Len(body) = 0
        BY <1>2, <2>1, EmptySeq
    <3> HIDE DEF cut
    <3>2. cut \in Seq(Nat) /\ Len(cut) = 0
        BY <3>1, EmptySeq
    <3> QED
        BY <3>1, <3>2, LenProperties DEF Cut
  <2>2. CASE r.body # <<>>
    <3>1. Len(body) > 0
        BY <1>1, <1>2, <2>2, EmptySeq
    <3> DEFINE n == Len(body)
    <3>2. cut = <<n>> /\ n \in Nat
        BY <1>2, <2>2
    <3> HIDE DEF cut, n
    <3>3. cut \in Seq(Nat) /\ Len(cut) = 1 /\ DOMAIN cut = 1 .. 1 /\ cut[1] = n /\ cut # <<>>
        BY <3>2
    <3>4. \A i \in DOMAIN cut : cut[i] \in 1 .. n
        BY <3>1, <3>2, <3>3 DEF n
    <3>5. \A i \in 2 .. Len(cut) : cut[i - 1] < cut[i]
        BY <3>3
    <3> QED
        BY <3>1, <3>3, <3>4, <3>5 DEF Cut, n
  <2> QED
    BY <2>1, <2>2
<1> DEFINE Record1 == Seq(Plain(FCGI_BEGIN_REQUEST))
<1>4. /\ flags \in Contents /\ Len(flags) = 2 /\ flags[1] = Byte(1)
      /\ flags[2] = Byte(IF r.keep THEN 1 ELSE 0)
  <2> DEFINE bit == IF r.keep THEN 1 ELSE 0
  <2>1. bit \in Int
    OBVIOUS
  <2> HIDE DEF bit
  <2>2. \A i \in Int : Byte(i) \in {t \in Token : t.k = "byte"}
    BY DEF Byte, Token
  <2> QED
    BY <2>1, <2>2 DEF Contents
<1> HIDE DEF params, body, cut, flags
<1>5. /\ a \in Tokens /\ Len(a) = 4 /\ a[1] = Type(FCGI_BEGIN_REQUEST) /\ a[2] = Size(2, 0)
      /\ a[3] = flags[1] /\ a[4] = flags[2]
  <2>1. flags \in Seq(Plain(FCGI_BEGIN_REQUEST)) /\ FCGI_BEGIN_REQUEST \in Int
    BY <1>4, ContentFacts DEF FCGI_BEGIN_REQUEST
  <2>2. /\ a \in Seq(Plain(FCGI_BEGIN_REQUEST))
        /\ Len(a) = 2 + Len(flags) + Padding(Len(flags))
        /\ a[1] = Type(FCGI_BEGIN_REQUEST)
        /\ a[2] = Size(Len(flags), Padding(Len(flags)))
        /\ \A j \in 1 .. Len(flags) : a[2 + j] = flags[j]
    BY <2>1, RecordFacts
  <2>3. Padding(2) = 0
    BY DEF Padding, Align
  <2>4. Plain(FCGI_BEGIN_REQUEST) \subseteq Token
    BY DEF Plain
  <2> HIDE DEF a
  <2>5. a \in Tokens
    BY <2>2, <2>4, SeqMonotonic DEF Tokens
  <2>6. a[2 + 1] = flags[1] /\ a[2 + 2] = flags[2]
    BY <1>4, <2>2
  <2> QED
    BY <1>4, <2>2, <2>3, <2>5, <2>6
<1>6. /\ b \in Seq(Plain(FCGI_PARAMS)) /\ \E off : Layout(b, FCGI_PARAMS, params, r.ends, 0, off)
      /\ c \in Seq(Plain(FCGI_STDIN)) /\ Cut(Len(params), r.ends)
  <2>1. FCGI_PARAMS \in Int /\ FCGI_STDIN \in Int
    BY DEF FCGI_PARAMS, FCGI_STDIN
  <2>2. Cut(Len(params), r.ends)
    BY <1>1, <1>2
  <2>3. b \in Seq(Plain(FCGI_PARAMS)) /\ \E off : Layout(b, FCGI_PARAMS, params, r.ends, 0, off)
    BY <1>1, <1>2, <2>1, <2>2, ChunksFacts
  <2>4. c \in Seq(Plain(FCGI_STDIN))
    BY <1>2, <1>3, <2>1, ChunksFacts
  <2> QED
    BY <2>2, <2>3, <2>4
<1> HIDE DEF a, b, c
<1>7. /\ b \in Tokens /\ Len(b) \in Nat
      /\ \A i \in 1 .. Len(b) : b[i] # Type(FCGI_BEGIN_REQUEST)
  <2>1. Plain(FCGI_PARAMS) \subseteq Token
    BY DEF Plain
  <2>2. \A t \in Plain(FCGI_PARAMS) : t # Type(FCGI_BEGIN_REQUEST)
    BY DEF Plain, Type, FCGI_PARAMS, FCGI_BEGIN_REQUEST
  <2>3. Len(b) \in Nat /\ \A i \in 1 .. Len(b) : b[i] \in Plain(FCGI_PARAMS)
    BY <1>6, LenProperties
  <2>4. b \in Tokens
    BY <1>6, <2>1, SeqMonotonic DEF Tokens
  <2> QED
    BY <2>2, <2>3, <2>4
<1>8. /\ c \in Tokens /\ Len(c) \in Nat
      /\ \A i \in 1 .. Len(c) : c[i] # Type(FCGI_BEGIN_REQUEST)
  <2>1. Plain(FCGI_STDIN) \subseteq Token
    BY DEF Plain
  <2>2. \A t \in Plain(FCGI_STDIN) : t # Type(FCGI_BEGIN_REQUEST)
    BY DEF Plain, Type, FCGI_STDIN, FCGI_BEGIN_REQUEST
  <2>3. Len(c) \in Nat /\ \A i \in 1 .. Len(c) : c[i] \in Plain(FCGI_STDIN)
    BY <1>6, LenProperties
  <2>4. c \in Tokens
    BY <1>6, <2>1, SeqMonotonic DEF Tokens
  <2> QED
    BY <2>2, <2>3, <2>4
<1>9. /\ ab \in Tokens /\ Len(ab) = 4 + Len(b)
      /\ \A i \in 1 .. 4 : ab[i] = a[i]
      /\ \A i \in 1 .. Len(b) : ab[4 + i] = b[i]
  <2>1. /\ a \o b \in Tokens /\ Len(a \o b) = Len(a) + Len(b)
        /\ \A i \in 1 .. Len(a) : (a \o b)[i] = a[i]
        /\ \A i \in 1 .. Len(b) : (a \o b)[Len(a) + i] = b[i]
    BY <1>5, <1>7, JoinPlaces
  <2> QED
    BY <1>5, <2>1
<1> HIDE DEF ab
<1>10. /\ all \in Tokens /\ Len(all) = Len(ab) + Len(c)
       /\ \A i \in 1 .. Len(ab) : all[i] = ab[i]
       /\ \A i \in 1 .. Len(c) : all[Len(ab) + i] = c[i]
  <2>1. /\ ab \o c \in Tokens /\ Len(ab \o c) = Len(ab) + Len(c)
        /\ \A i \in 1 .. Len(ab) : (ab \o c)[i] = ab[i]
        /\ \A i \in 1 .. Len(c) : (ab \o c)[Len(ab) + i] = c[i]
    BY <1>8, <1>9, JoinPlaces
  <2> QED
    BY <2>1
<1>11. all = RequestBytes(r)
    BY DEF RequestBytes, all, ab, a, b, c, params, body, cut, flags
<1> HIDE DEF all
<1>12. Within(b, all, 4)
  <2>1. \A i \in 1 .. Len(b) : all[4 + i] = b[i]
    <3> SUFFICES ASSUME NEW i \in 1 .. Len(b) PROVE all[4 + i] = b[i]
        OBVIOUS
    <3>1. 4 + i \in 1 .. Len(ab)
        BY <1>7, <1>9
    <3> QED
        BY <1>9, <1>10, <3>1
  <2> QED
    BY <1>7, <1>8, <1>9, <1>10, <2>1 DEF Within
<1>13. PICK off : Layout(all, FCGI_PARAMS, params, r.ends, 4, off)
  <2>1. Len(params) \in Nat /\ 4 \in Nat
    BY <1>2, LenProperties DEF Contents
  <2> QED
    BY <1>1, <1>6, <1>12, <2>1, LayoutWithin
<1>14. /\ all[1] = Type(FCGI_BEGIN_REQUEST) /\ all[2] = Size(2, 0)
       /\ all[3] = flags[1] /\ all[4] = flags[2]
  <2>1. \A i \in 1 .. 4 : i \in 1 .. Len(ab)
    BY <1>7, <1>9
  <2>2. \A i \in 1 .. 4 : all[i] = a[i]
    BY <1>9, <1>10, <2>1
  <2> QED
    BY <1>5, <2>2
<1>15. ASSUME NEW i \in 2 .. Len(all) PROVE all[i] # Type(FCGI_BEGIN_REQUEST)
  <2>1. CASE i <= 4
    <3>1. i \in 2 .. 4
        BY <2>1
    <3>2. /\ Size(2, 0) # Type(FCGI_BEGIN_REQUEST) /\ flags[1] # Type(FCGI_BEGIN_REQUEST)
          /\ flags[2] # Type(FCGI_BEGIN_REQUEST)
        BY <1>4 DEF Size, Type, Byte
    <3>3. i = 2 \/ i = 3 \/ i = 4
        BY <3>1
    <3> QED
        BY <1>14, <3>2, <3>3
  <2>2. CASE i > 4 /\ i <= Len(ab)
    <3> DEFINE j == i - 4
    <3>1. j \in 1 .. Len(b) /\ i = 4 + j /\ i \in 1 .. Len(ab)
        BY <1>7, <1>9, <2>2
    <3> QED
        BY <1>7, <1>9, <1>10, <3>1
  <2>3. CASE i > Len(ab)
    <3> DEFINE j == i - Len(ab)
    <3>1. j \in 1 .. Len(c) /\ i = Len(ab) + j
        BY <1>7, <1>8, <1>9, <1>10, <2>3
    <3> QED
        BY <1>8, <1>10, <3>1
  <2> QED
    BY <1>7, <1>9, <2>1, <2>2, <2>3
<1>16. Len(all) > 4
  <2>1. off \in [0 .. Len(r.ends) -> Nat] /\ off[0] = 4 /\ off[Len(r.ends)] + 2 <= Len(all)
        /\ \A k \in 0 .. Len(r.ends) : off[k] <= off[Len(r.ends)]
    BY <1>13 DEF Layout
  <2>2. Len(r.ends) \in Nat
    BY <1>1, LenProperties
  <2>3. 0 \in 0 .. Len(r.ends) /\ Len(r.ends) \in 0 .. Len(r.ends)
    BY <2>2
  <2>4. off[0] <= off[Len(r.ends)] /\ off[Len(r.ends)] \in Nat
    BY <2>1, <2>3
  <2> QED
    BY <1>7, <1>8, <1>9, <1>10, <2>1, <2>4
<1>17. LaidOut(r, off)
    BY <1>4, <1>11, <1>13, <1>14, <1>15, <1>16 DEF LaidOut, params
<1> QED
    BY <1>10, <1>11, <1>17
-----------------------------------------------------------------------------
(* The inductive invariant: the reader *)

ReadCall == [op : {"none", "refill", "direct", "skip"}, head : Tokens, want : Int,
             cap : Int, got : Tokens]

\* The connection: nothing arrives once the server has gone.
Wire == /\ peer \in {"open", "eof", "reset"}
        /\ inp \in Tokens /\ stream \in Tokens
        /\ peer # "open" => inp = <<>>

\* The buffer is empty while a read is under way, and a result is taken
\* before the next.
Reader == /\ rbuf \in Tokens /\ Len(rbuf) <= BufSize
          /\ rd \in ReadCall /\ reads \in [done : BOOLEAN, n : Int, data : Tokens]
          /\ rd.op = "none" => rd = NoRead
          /\ rd.op # "none" => /\ rbuf = <<>> /\ reads = NoResult
                               /\ rd.want > 0 /\ Len(rd.got) <= rd.cap
          /\ rd.op = "skip" => rd.head = <<>> /\ rd.got = <<>>
          /\ rd.op = "refill" => rd.cap = BufSize
          /\ ~reads.done => reads = NoResult
          /\ reads.n < 0 => rbuf = <<>> /\ peer = "reset"

\* BytesInOrder for the whole of the stream: the bytes before were consumed.
Order == reads.n >= 0 => EndsWith(stream, Held \o inp)

\* Between two calls the reader holds its buffer.
LEMMA HeldIdle == ASSUME Reader, rd = NoRead, ~ reads.done PROVE Held = rbuf
    BY JoinFacts, EmptyFacts DEF Reader, Held, NoRead

\* While a read is under way it holds what it copied and what it got.
LEMMA HeldBusy ==
    ASSUME Reader, rd.op # "none"
    PROVE  Held = rd.head \o rd.got /\ Held \in Tokens
<1>1. rd.head \in Tokens /\ rd.got \in Tokens /\ rbuf = <<>> /\ ~ reads.done
    BY DEF Reader, ReadCall, NoResult
<1> QED
    BY <1>1, JoinFacts DEF Held

\* Results are what they are made of.
LEMMA ResultFacts ==
    ASSUME NEW n \in Int, NEW data \in Tokens
    PROVE  /\ Result(n, data) \in [done : BOOLEAN, n : Int, data : Tokens]
           /\ Result(n, data).done /\ Result(n, data).n = n /\ Result(n, data).data = data
    BY DEF Result

\* No call, no result: both are of their types.
LEMMA NothingFacts ==
    /\ NoRead \in ReadCall /\ NoRead.op = "none"
    /\ NoResult \in [done : BOOLEAN, n : Int, data : Tokens] /\ ~ NoResult.done /\ NoResult.n = 0
    BY EmptyFacts DEF NoRead, NoResult, ReadCall

\* A read that the buffer serves, or that takes its rest along.
LEMMA ReadKeeps ==
    ASSUME Wire, Reader, Order, NEW len \in Nat, ef_bio_read(len), stream' = stream
    PROVE  Reader' /\ Order'
<1>1. /\ rd = NoRead /\ ~ reads.done /\ reads = NoResult /\ Held = rbuf
      /\ peer' = peer /\ inp' = inp
    BY HeldIdle DEF ef_bio_read, Reader, conn_vars
<1>2. rbuf \in Tokens /\ Len(rbuf) \in Nat /\ Len(rbuf) <= BufSize /\ inp \in Tokens
    BY JoinFacts DEF Reader, Wire
<1>3. EndsWith(stream, rbuf \o inp)
    BY <1>1, NothingFacts DEF Order
<1>4. CASE len <= Len(rbuf)
  <2>1. /\ reads' = Result(len, Take(rbuf, len)) /\ rbuf' = Drop(rbuf, len) /\ rd' = rd
    BY <1>4 DEF ef_bio_read
  <2>2. /\ Take(rbuf, len) \in Tokens /\ Drop(rbuf, len) \in Tokens
        /\ Len(Drop(rbuf, len)) = Len(rbuf) - len /\ Take(rbuf, len) \o Drop(rbuf, len) = rbuf
    <3>1. rbuf \in Tokens
        BY <1>2
    <3>2. len \in 0 .. Len(rbuf)
        BY <1>2, <1>4
    <3> QED
        BY <3>1, <3>2, CutFacts
  <2>3. reads'.done /\ reads'.n = len /\ reads'.data = Take(rbuf, len)
        /\ reads' \in [done : BOOLEAN, n : Int, data : Tokens]
    BY <2>1, <2>2, ResultFacts
  <2>4. Reader'
    BY <1>1, <1>2, <2>1, <2>2, <2>3, NothingFacts, BufAssumption DEF Reader
  <2>5. Held' = rbuf
    BY <2>1, <2>2, <2>3 DEF Held
  <2> QED
    BY <1>1, <1>3, <2>4, <2>5 DEF Order
<1>5. CASE ~ (len <= Len(rbuf))
  <2> DEFINE need == len - Len(rbuf)
             long == need > BufSize \div 4
  <2>1. /\ rd' = [op |-> IF long THEN "direct" ELSE "refill", head |-> rbuf,
                  want |-> need, cap |-> IF long THEN need ELSE BufSize, got |-> <<>>]
        /\ rbuf' = <<>> /\ reads' = reads
    BY <1>5 DEF ef_bio_read
  <2>2. need \in Int /\ need > 0 /\ BufSize \in Int /\ BufSize > 0
    BY <1>2, <1>5, BufAssumption
  <2> HIDE DEF need, long
  <2>3. /\ rd' \in ReadCall /\ rd'.op \in {"direct", "refill"} /\ rd'.head = rbuf
        /\ rd'.got = <<>> /\ rd'.want = need /\ rd'.cap > 0
        /\ rd'.op = "refill" => rd'.cap = BufSize
    BY <1>2, <2>1, <2>2, EmptyFacts DEF ReadCall
  <2>4. Reader'
    BY <1>1, <1>2, <2>1, <2>2, <2>3, EmptyFacts, NothingFacts DEF Reader
  <2>5. Held' = rbuf
    BY <1>1, <1>2, <2>1, <2>3, NothingFacts, JoinFacts, EmptyFacts DEF Held
  <2> QED
    BY <1>1, <1>3, <2>4, <2>5 DEF Order
<1> QED
    BY <1>4, <1>5

\* A skip forgets the bytes it passes.
LEMMA SkipKeeps ==
    ASSUME Wire, Reader, Order, NEW len \in Nat, ef_bio_reader_skip(len), stream' = stream
    PROVE  Reader' /\ Order'
<1>1. /\ rd = NoRead /\ ~ reads.done /\ reads = NoResult /\ Held = rbuf
      /\ peer' = peer /\ inp' = inp
    BY HeldIdle DEF ef_bio_reader_skip, Reader, conn_vars
<1>2. /\ rbuf \in Tokens /\ Len(rbuf) \in Nat /\ Len(rbuf) <= BufSize
      /\ inp \in Tokens /\ stream \in Tokens
    BY JoinFacts DEF Reader, Wire
<1>3. EndsWith(stream, rbuf \o inp)
    BY <1>1, NothingFacts DEF Order
<1>4. CASE len <= Len(rbuf)
  <2>1. /\ reads' = Result(len, <<>>) /\ rbuf' = Drop(rbuf, len) /\ rd' = rd
    BY <1>4 DEF ef_bio_reader_skip
  <2>2. /\ Take(rbuf, len) \in Tokens /\ Drop(rbuf, len) \in Tokens
        /\ Len(Drop(rbuf, len)) = Len(rbuf) - len /\ Take(rbuf, len) \o Drop(rbuf, len) = rbuf
    <3>1. rbuf \in Tokens
        BY <1>2
    <3>2. len \in 0 .. Len(rbuf)
        BY <1>2, <1>4
    <3> QED
        BY <3>1, <3>2, CutFacts
  <2>3. reads'.done /\ reads'.n = len /\ reads'.data = <<>>
        /\ reads' \in [done : BOOLEAN, n : Int, data : Tokens]
    BY <2>1, EmptyFacts, ResultFacts
  <2>4. Reader'
    BY <1>1, <1>2, <2>1, <2>2, <2>3, NothingFacts, BufAssumption DEF Reader
  <2>5. Held' = Drop(rbuf, len)
    BY <2>1, <2>2, <2>3, JoinFacts DEF Held
  <2>6. rbuf \o inp = Take(rbuf, len) \o (Drop(rbuf, len) \o inp)
    <3>1. Assoc(Take(rbuf, len), Drop(rbuf, len), inp)
        BY <1>2, <2>2, JoinAssoc
    <3> QED
        BY <2>2, <3>1 DEF Assoc
  <2>7. Drop(rbuf, len) \o inp \in Tokens
    BY <1>2, <2>2, JoinFacts
  <2>8. EndsWith(stream, Drop(rbuf, len) \o inp)
    BY <1>2, <1>3, <2>2, <2>6, <2>7, EndShorter
  <2> QED
    BY <1>1, <2>4, <2>5, <2>8 DEF Order
<1>5. CASE ~ (len <= Len(rbuf))
  <2> DEFINE remain == len - Len(rbuf)
  <2>1. /\ rd' = [op |-> "skip", head |-> <<>>, want |-> remain,
                  cap |-> Least(remain, BufSize), got |-> <<>>]
        /\ rbuf' = <<>> /\ reads' = reads
    BY <1>5 DEF ef_bio_reader_skip
  <2>2. remain \in Int /\ remain > 0 /\ Least(remain, BufSize) \in Int /\ Least(remain, BufSize) > 0
    BY <1>2, <1>5, BufAssumption DEF Least
  <2> HIDE DEF remain
  <2>3. /\ rd' \in ReadCall /\ rd'.op = "skip" /\ rd'.head = <<>>
        /\ rd'.got = <<>> /\ rd'.want = remain /\ rd'.cap > 0
    BY <2>1, <2>2, EmptyFacts DEF ReadCall
  <2>4. Reader'
    BY <1>1, <1>2, <2>1, <2>2, <2>3, EmptyFacts, NothingFacts, BufAssumption DEF Reader
  <2>5. Held' = <<>>
    BY <1>1, <2>1, <2>3, NothingFacts, JoinFacts, EmptyFacts DEF Held
  <2>6. Held' \o inp' = inp
    BY <1>1, <1>2, <2>5, JoinFacts
  <2>7. EndsWith(stream, inp)
    BY <1>2, <1>3, EndShorter
  <2> QED
    BY <2>4, <2>6, <2>7 DEF Order
<1> QED
    BY <1>4, <1>5

\* The end of a read hands out what it got, or puts the rest into the buffer.
LEMMA ReadDoneKeeps ==
    ASSUME Reader, rd.op # "none", NEW got \in Tokens, Len(got) <= rd.cap, ReadDone(got),
           inp' \in Tokens, stream \in Tokens, stream' = stream, peer' = peer,
           EndsWith(stream, (rd.head \o got) \o inp')
    PROVE  Reader' /\ Order'
<1>1. /\ rbuf = <<>> /\ reads = NoResult /\ rd \in ReadCall /\ rd.want > 0 /\ rd.want \in Int
      /\ rd.head \in Tokens /\ Len(got) \in Nat
    BY JoinFacts DEF Reader, ReadCall
<1>2. BufSize \in Nat /\ BufSize > 0
    BY BufAssumption
<1>3. CASE rd.op = "direct"
  <2>1. reads' = Result(Len(got), rd.head \o got) /\ rd' = NoRead /\ rbuf' = <<>>
    BY <1>1, <1>3 DEF ReadDone, Direct
  <2>2. rd.head \o got \in Tokens
    BY <1>1, JoinFacts
  <2>3. /\ reads'.done /\ reads'.n = Len(got) /\ reads'.data = rd.head \o got
        /\ reads' \in [done : BOOLEAN, n : Int, data : Tokens]
    <3> DEFINE data == rd.head \o got
               n == Len(got)
    <3> HIDE DEF data, n
    <3>1. reads' = Result(n, data) /\ data \in Tokens /\ n \in Int
        BY <1>1, <2>1, <2>2 DEF data, n
    <3>2. /\ reads'.done /\ reads'.n = n /\ reads'.data = data
          /\ reads' \in [done : BOOLEAN, n : Int, data : Tokens]
        BY <3>1, ResultFacts
    <3> QED
        BY <3>2 DEF data, n
  <2>4. Reader'
    BY <1>1, <1>2, <2>1, <2>3, EmptyFacts, NothingFacts DEF Reader
  <2>5. Held' = rd.head \o got
    BY <2>1, <2>2, <2>3, JoinFacts DEF Held
  <2> QED
    BY <2>4, <2>5 DEF Order
<1>4. CASE rd.op = "refill"
  <2> DEFINE n == Least(rd.want, Len(got))
  <2>1. /\ rbuf' = Drop(got, n) /\ reads' = Result(n, rd.head \o Take(got, n)) /\ rd' = NoRead
    BY <1>4 DEF ReadDone, Refill
  <2>2. n \in 0 .. Len(got) /\ Len(got) <= BufSize
    BY <1>1, <1>4 DEF Least, Reader
  <2> HIDE DEF n
  <2>3. /\ Take(got, n) \in Tokens /\ Drop(got, n) \in Tokens
        /\ Len(Drop(got, n)) = Len(got) - n /\ Take(got, n) \o Drop(got, n) = got
    BY <2>2, CutFacts
  <2>4. rd.head \o Take(got, n) \in Tokens
    BY <1>1, <2>3, JoinFacts
  <2>5. /\ reads'.done /\ reads'.n = n /\ reads'.data = rd.head \o Take(got, n)
        /\ reads' \in [done : BOOLEAN, n : Int, data : Tokens]
    <3> DEFINE data == rd.head \o Take(got, n)
    <3> HIDE DEF data
    <3>1. reads' = Result(n, data) /\ data \in Tokens /\ n \in Int
        BY <2>1, <2>2, <2>4 DEF data
    <3>2. /\ reads'.done /\ reads'.n = n /\ reads'.data = data
          /\ reads' \in [done : BOOLEAN, n : Int, data : Tokens]
        BY <3>1, ResultFacts
    <3> QED
        BY <3>2 DEF data
  <2>6. Reader'
    BY <1>1, <1>2, <2>1, <2>2, <2>3, <2>5, NothingFacts DEF Reader
  <2>7. Held' = (rd.head \o Take(got, n)) \o Drop(got, n)
    BY <2>1, <2>5 DEF Held
  <2>8. Held' = rd.head \o got
    <3>1. Assoc(rd.head, Take(got, n), Drop(got, n))
        BY <1>1, <2>3, JoinAssoc
    <3> QED
        BY <2>3, <2>7, <3>1 DEF Assoc
  <2> QED
    BY <2>6, <2>8 DEF Order
<1>5. CASE rd.op = "skip"
  <2> DEFINE remain == rd.want - Len(got)
  <2>1. Skipped(got) /\ rd.head = <<>> /\ rd.got = <<>>
    BY <1>5 DEF ReadDone, Reader
  <2>2. (rd.head \o got) \o inp' = got \o inp'
    BY <2>1, JoinFacts
  <2>3. EndsWith(stream, inp')
    BY <2>2, EndShorter
  <2>4. CASE remain > 0
    <3>1. /\ rd' = [rd EXCEPT !.want = remain, !.cap = Least(remain, BufSize)]
          /\ reads' = NoResult /\ rbuf' = <<>>
        BY <1>1, <2>1, <2>4 DEF Skipped
    <3>2. remain \in Int /\ Least(remain, BufSize) \in Nat
        BY <1>1, <1>2, <2>4 DEF Least
    <3> HIDE DEF remain
    <3>3. /\ rd' \in ReadCall /\ rd'.op = "skip" /\ rd'.head = <<>> /\ rd'.got = <<>>
          /\ rd'.want = remain /\ rd'.cap \in Nat
      <4> DEFINE room == Least(remain, BufSize)
      <4> HIDE DEF room
      <4>1. rd' = [rd EXCEPT !.want = remain, !.cap = room] /\ room \in Nat
        BY <3>1, <3>2 DEF room
      <4>2. /\ rd'.op = rd.op /\ rd'.head = rd.head /\ rd'.got = rd.got
            /\ rd'.want = remain /\ rd'.cap = room /\ rd' \in ReadCall
        <5> DEFINE c == rd
                   d == rd'
        <5>1. c \in ReadCall /\ remain \in Int /\ room \in Int /\ d = [c EXCEPT !.want = remain, !.cap = room]
            BY <1>1, <3>2, <4>1
        <5> HIDE DEF c, d
        <5>2. /\ d.op = c.op /\ d.head = c.head /\ d.got = c.got
              /\ d.want = remain /\ d.cap = room /\ d \in ReadCall
          <6>1. /\ c.op \in {"none", "refill", "direct", "skip"} /\ c.head \in Tokens /\ c.got \in Tokens
                /\ c = [op |-> c.op, head |-> c.head, want |-> c.want, cap |-> c.cap, got |-> c.got]
            BY <5>1 DEF ReadCall
          <6>2. d = [op |-> c.op, head |-> c.head, want |-> remain, cap |-> room, got |-> c.got]
            BY <5>1, <6>1
          <6> QED
            BY <5>1, <6>1, <6>2 DEF ReadCall
        <5> QED
            BY <5>2 DEF c, d
      <4> QED
        BY <1>5, <2>1, <4>1, <4>2
    <3>4. Reader'
        BY <1>2, <2>4, <3>1, <3>3, EmptyFacts, NothingFacts DEF Reader
    <3>5. Held' = <<>>
        BY <3>1, <3>3, EmptyFacts, JoinFacts, NothingFacts DEF Held
    <3> QED
        BY <2>3, <3>4, <3>5, JoinFacts DEF Order
  <2>5. CASE ~ (remain > 0)
    <3>1. rd' = NoRead /\ reads' = Result(0, <<>>) /\ rbuf' = <<>>
        BY <1>1, <2>1, <2>5 DEF Skipped
    <3>2. /\ reads'.done /\ reads'.n = 0 /\ reads'.data = <<>>
          /\ reads' \in [done : BOOLEAN, n : Int, data : Tokens]
        BY <3>1, EmptyFacts, ResultFacts
    <3>3. Reader'
        BY <1>2, <3>1, <3>2, EmptyFacts, NothingFacts DEF Reader
    <3>4. Held' = <<>>
        BY <3>1, <3>2, EmptyFacts, JoinFacts DEF Held
    <3> QED
        BY <2>3, <3>3, <3>4, JoinFacts DEF Order
  <2> QED
    BY <2>4, <2>5
<1> QED
    BY <1>1, <1>3, <1>4, <1>5 DEF ReadCall

\* One turn of ef_safe_read.
LEMMA TransferKeeps ==
    ASSUME Wire, Reader, Order, ef_safe_read, stream' = stream
    PROVE  Wire' /\ Reader' /\ Order'
<1>1. stream \in Tokens /\ inp \in Tokens /\ Len(inp) \in Nat /\ peer' = peer
    BY JoinFacts DEF Wire, ef_safe_read, Receive, EndOfFile, ReadFails, conn_vars
<1>2. /\ rd.op # "none"
      /\ rbuf = <<>> /\ reads = NoResult /\ rd \in ReadCall /\ rd.got \in Tokens /\ rd.head \in Tokens
      /\ Len(rd.got) \in Nat /\ rd.cap \in Int /\ Len(rd.got) <= rd.cap
    BY JoinFacts DEF ef_safe_read, Receive, EndOfFile, ReadFails, Reader, ReadCall
<1>3. Held = rd.head \o rd.got /\ EndsWith(stream, (rd.head \o rd.got) \o inp)
  <2>1. Held = rd.head \o rd.got
    BY <1>2, HeldBusy
  <2>2. reads.n >= 0
    BY <1>2, NothingFacts
  <2>3. EndsWith(stream, Held \o inp)
    BY <2>2 DEF Order
  <2> QED
    BY <2>1, <2>3
<1>4. ASSUME Receive PROVE Wire' /\ Reader' /\ Order'
  <2>1. PICK n \in 1 .. Least(rd.cap - Len(rd.got), Len(inp)) :
            LET got == rd.got \o Take(inp, n)
            IN  /\ inp' = Drop(inp, n)
                /\ IF rd.op = "skip" \/ Len(got) >= rd.want THEN ReadDone(got)
                   ELSE rd' = [rd EXCEPT !.got = got] /\ UNCHANGED <<rbuf, reads>>
    BY <1>4 DEF Receive
  <2> DEFINE part == Take(inp, n)
             got == rd.got \o part
  <2>2. n \in 1 .. Len(inp) /\ n <= rd.cap - Len(rd.got)
    BY <1>1, <1>2 DEF Least
  <2>3. /\ part \in Tokens /\ Len(part) = n /\ inp' = Drop(inp, n)
        /\ inp' \in Tokens /\ Len(inp') = Len(inp) - n /\ part \o inp' = inp
    <3>1. inp' = Drop(inp, n) /\ n \in 0 .. Len(inp)
        BY <2>1, <2>2
    <3>2. /\ Take(inp, n) \in Tokens /\ Len(Take(inp, n)) = n
          /\ Drop(inp, n) \in Tokens /\ Len(Drop(inp, n)) = Len(inp) - n
          /\ Take(inp, n) \o Drop(inp, n) = inp
        BY <1>1, <3>1, CutFacts
    <3> QED
        BY <3>1, <3>2
  <2> HIDE DEF part
  <2>4. got \in Tokens /\ Len(got) = Len(rd.got) + n /\ Len(got) <= rd.cap
    <3> DEFINE g == rd.got
    <3> HIDE DEF g
    <3>1. g \in Tokens /\ part \in Tokens
        BY <1>2, <2>3 DEF g
    <3>2. g \o part \in Tokens /\ Len(g \o part) = Len(g) + Len(part)
        BY <3>1, JoinFacts
    <3> QED
        BY <1>2, <2>2, <2>3, <3>2 DEF g
  <2>5. IF rd.op = "skip" \/ Len(got) >= rd.want THEN ReadDone(got)
        ELSE rd' = [rd EXCEPT !.got = got] /\ UNCHANGED <<rbuf, reads>>
    BY <2>1 DEF part
  <2>6. (rd.head \o got) \o inp' = (rd.head \o rd.got) \o inp
    <3>1. rd.got \o part \in Tokens
        BY <1>2, <2>3, JoinFacts
    <3>2. Assoc(rd.head, rd.got \o part, inp')
        BY <1>2, <2>3, <3>1, JoinAssoc
    <3>3. Assoc(rd.got, part, inp')
        BY <1>2, <2>3, JoinAssoc
    <3>4. Assoc(rd.head, rd.got, inp)
        BY <1>1, <1>2, JoinAssoc
    <3> QED
        BY <2>3, <3>2, <3>3, <3>4 DEF Assoc
  <2> HIDE DEF got
  <2>7. EndsWith(stream, (rd.head \o got) \o inp')
    BY <1>3, <2>6
  <2>8. Wire'
    BY <1>1, <2>2, <2>3, EmptyFacts DEF Wire
  <2>9. CASE rd.op = "skip" \/ Len(got) >= rd.want
    <3>1. inp' # inp
        BY <2>2, <2>3
    <3> QED
        BY <1>1, <1>2, <2>3, <2>4, <2>5, <2>7, <2>8, <2>9, <3>1, ReadDoneKeeps
  <2>10. CASE ~ (rd.op = "skip" \/ Len(got) >= rd.want)
    <3>1. rd' = [rd EXCEPT !.got = got] /\ rbuf' = <<>> /\ reads' = NoResult
        BY <1>2, <2>5, <2>10
    <3>2. /\ rd' \in ReadCall /\ rd'.op = rd.op /\ rd'.head = rd.head /\ rd'.want = rd.want
          /\ rd'.cap = rd.cap /\ rd'.got = got
        BY <1>2, <2>4, <3>1 DEF ReadCall
    <3>3. Reader'
        BY <1>2, <2>4, <2>10, <3>1, <3>2, EmptyFacts, NothingFacts DEF Reader
    <3>4. Held' = rd.head \o got
        BY <1>2, <2>4, <3>1, <3>2, NothingFacts, JoinFacts DEF Held
    <3> QED
        BY <2>7, <2>8, <3>3, <3>4 DEF Order
  <2> QED
    BY <2>9, <2>10
<1>5. ASSUME EndOfFile PROVE Wire' /\ Reader' /\ Order'
  <2>1. inp' = inp /\ ReadDone(rd.got)
    BY <1>5 DEF EndOfFile, conn_vars
  <2>2. rd.op = "skip" => rd.got = <<>>
    BY DEF Reader
  <2>3. Reader' /\ Order'
    BY <1>1, <1>2, <1>3, <2>1, <2>2, ReadDoneKeeps
  <2> QED
    BY <1>1, <2>1, <2>3 DEF Wire
<1>6. ASSUME ReadFails PROVE Wire' /\ Reader' /\ Order'
  <2> DEFINE data == IF rd.op = "direct" THEN rd.head \o rd.got ELSE rd.head
  <2>1. peer = "reset" /\ reads' = Result(-1, data) /\ rd' = NoRead /\ rbuf' = <<>> /\ inp' = inp
    BY <1>2, <1>6 DEF ReadFails, conn_vars
  <2>2. data \in Tokens
    BY <1>2, JoinFacts
  <2> HIDE DEF data
  <2>3. reads'.done /\ reads'.n = -1 /\ reads' \in [done : BOOLEAN, n : Int, data : Tokens]
    BY <2>1, <2>2, ResultFacts
  <2>4. Reader'
    BY <1>1, <2>1, <2>3, EmptyFacts, NothingFacts, BufAssumption DEF Reader
  <2> QED
    BY <1>1, <2>1, <2>3, <2>4 DEF Wire, Order
<1> QED
    BY <1>4, <1>5, <1>6 DEF ef_safe_read

\* A result that is taken is consumed.
LEMMA GotKeeps ==
    ASSUME Wire, Reader, Order, NEW place, Got(place)
    PROVE  /\ Wire' /\ Reader' /\ Order'
           /\ rd' = NoRead /\ ~ reads'.done /\ UNCHANGED <<peer, inp, stream, rbuf>>
<1>1. /\ reads.done /\ reads' = NoResult
      /\ UNCHANGED <<peer, inp, outp, rbuf, rd, stream>>
    BY DEF Got, conn_vars, server_vars
<1>2. rd = NoRead
    BY <1>1, NothingFacts DEF Reader
<1>3. Wire' /\ Reader'
    BY <1>1, <1>2, NothingFacts DEF Wire, Reader
<1>4. rbuf \in Tokens /\ inp \in Tokens /\ stream \in Tokens /\ reads.data \in Tokens
    BY DEF Reader, Wire
<1>5. Held' = rbuf
    BY <1>1, <1>2, <1>4, NothingFacts, JoinFacts, EmptyFacts DEF Held, NoRead
<1>6. CASE reads.n >= 0
  <2>1. EndsWith(stream, (reads.data \o rbuf) \o inp)
    BY <1>1, <1>6 DEF Order, Held
  <2>2. (reads.data \o rbuf) \o inp = reads.data \o (rbuf \o inp)
    <3>1. Assoc(reads.data, rbuf, inp)
        BY <1>4, JoinAssoc
    <3> QED
        BY <3>1 DEF Assoc
  <2>3. rbuf \o inp \in Tokens
    BY <1>4, JoinFacts
  <2>4. EndsWith(stream, rbuf \o inp)
    BY <1>4, <2>1, <2>2, <2>3, EndShorter
  <2> QED
    BY <1>1, <1>2, <1>3, <1>5, <2>4, NothingFacts DEF Order
<1>7. CASE ~ (reads.n >= 0)
  <2>1. rbuf = <<>> /\ inp = <<>>
    BY <1>7 DEF Reader, Wire
  <2>2. EndsWith(stream, rbuf \o inp)
    BY <1>4, <2>1, JoinFacts, EndNothing
  <2> QED
    BY <1>1, <1>2, <1>3, <1>5, <2>2, NothingFacts DEF Order
<1> QED
    BY <1>6, <1>7
-----------------------------------------------------------------------------
(* The inductive invariant: control *)

\* The places at which a call of the reader may be under way.
Calling == {"begin", "begin_body", "params", "params_body", "params_skip", "stdin", "stdin_body"}

\* A body or a padding is asked for only if the header announces one.
Control == /\ at \in Places
           /\ reads.done \/ rd.op # "none" => at \in Calling
           /\ hdr \in [1 .. 2 -> Token]
           /\ at \in {"params_body", "stdin_body"} => hdr[2].a > 0
           /\ at = "params_skip" => hdr[2].b > 0

ReadInv == Wire /\ Reader /\ Order /\ Control

\* fcgi_hdr remains two tokens.
LEMMA OverlayFacts ==
    ASSUME NEW old \in [1 .. 2 -> Token], reads.data \in Tokens
    PROVE  Overlay(old) \in [1 .. 2 -> Token]
<1>1. Len(reads.data) \in Nat /\ \A i \in 1 .. Len(reads.data) : reads.data[i] \in Token
    BY LenProperties DEF Tokens
<1>2. ASSUME NEW i \in 1 .. 2
      PROVE  (IF i <= Len(reads.data) THEN reads.data[i] ELSE old[i]) \in Token
    BY <1>1
<1> QED
    BY <1>2 DEF Overlay

\* A step that leaves the reader and the wire alone.
LEMMA ReaderRests ==
    ASSUME Wire, Reader, Order, UNCHANGED <<peer, inp, stream, rbuf, rd, reads>>
    PROVE  Wire' /\ Reader' /\ Order'
<1>1. Held' = Held
    BY DEF Held
<1> QED
    BY <1>1 DEF Wire, Reader, Order

\* A new request is added to what arrives and to all that was sent.
LEMMA SendKeeps ==
    ASSUME Wire, Reader, Order, SendRequest
    PROVE  Wire' /\ Reader' /\ Order'
<1>1. PICK r \in Requests : stream' = stream \o RequestBytes(r) /\ inp' = inp \o RequestBytes(r)
    BY DEF SendRequest
<1> DEFINE more == RequestBytes(r)
<1>2. more \in Tokens
    BY <1>1, RequestLayout
<1>3. peer = "open" /\ UNCHANGED <<peer, rbuf, rd, reads>>
    BY DEF SendRequest, reader_vars
<1> HIDE DEF more
<1>4. inp \in Tokens /\ stream \in Tokens /\ stream' = stream \o more /\ inp' = inp \o more
    BY <1>1 DEF Wire, more
<1>5. Wire'
    BY <1>2, <1>3, <1>4, JoinFacts DEF Wire
<1>6. Reader'
    BY <1>3 DEF Reader
<1>7. ASSUME reads.n >= 0 PROVE EndsWith(stream', Held' \o inp')
  <2>1. Held' = Held
    BY <1>3 DEF Held
  <2>2. Held \in Tokens
    <3>1. /\ reads.data \in Tokens /\ rbuf \in Tokens /\ rd.head \in Tokens /\ rd.got \in Tokens
        BY DEF Reader, ReadCall
    <3> QED
        BY <3>1, JoinFacts DEF Held
  <2> DEFINE held == Held
             all == held \o inp
  <2>3. EndsWith(stream, all) /\ all \in Tokens
    BY <1>4, <1>7, <2>2, JoinFacts DEF Order
  <2>4. all \o more = held \o inp'
    <3>1. Assoc(held, inp, more)
        BY <1>2, <1>4, <2>2, JoinAssoc
    <3> QED
        BY <1>4, <3>1 DEF Assoc
  <2> HIDE DEF all
  <2>5. EndsWith(stream \o more, all \o more)
    BY <1>2, <1>4, <2>3, EndLonger
  <2> QED
    BY <1>4, <2>1, <2>4, <2>5
<1> QED
    BY <1>3, <1>5, <1>6, <1>7 DEF Order

\* What had not arrived is taken back from the stream.
LEMMA HangupKeeps ==
    ASSUME Wire, Reader, Order, NEW how \in {"eof", "reset"}, Hangup(how)
    PROVE  Wire' /\ Reader' /\ Order'
<1>1. /\ peer = "open" /\ peer' = how /\ inp' = <<>> /\ stream' = Take(stream, Len(stream) - Len(inp))
      /\ UNCHANGED <<rbuf, rd, reads>>
    BY DEF Hangup, reader_vars
<1>2. /\ inp \in Tokens /\ stream \in Tokens /\ Len(inp) \in Nat /\ Len(stream) \in Nat
      /\ reads.data \in Tokens /\ rbuf \in Tokens /\ rd.head \in Tokens /\ rd.got \in Tokens
    BY JoinFacts DEF Wire, Reader, ReadCall
<1>3. reads.n >= 0
    BY <1>1 DEF Reader
<1> DEFINE held == Held
<1>4. held \in Tokens
    BY <1>2, JoinFacts DEF Held
<1>5. PICK a \in Tokens : stream = a \o (held \o inp)
    BY <1>3 DEF Order, EndsWith
<1>6. Held' = held
    BY <1>1 DEF Held
<1> HIDE DEF held
<1>7. stream' = a \o held /\ a \o held \in Tokens
  <2> DEFINE front == a \o held
  <2>1. front \in Tokens
    BY <1>4, JoinFacts
  <2>2. stream = front \o inp
    <3>1. Assoc(a, held, inp)
        BY <1>2, <1>4, JoinAssoc
    <3> QED
        BY <1>5, <3>1 DEF Assoc
  <2> HIDE DEF front
  <2>3. Len(stream) - Len(inp) = Len(front)
    BY <1>2, <2>1, <2>2, JoinFacts
  <2>4. Take(stream, Len(front)) = front
    BY <1>2, <2>1, <2>2, CutJoin
  <2> QED
    BY <1>1, <2>1, <2>3, <2>4 DEF front
<1>8. Wire' /\ Reader'
    BY <1>1, <1>3, <1>7, EmptyFacts DEF Wire, Reader
<1>9. EndsWith(stream', Held' \o inp')
  <2>1. held \o <<>> = held
    BY <1>4, JoinFacts
  <2> QED
    BY <1>1, <1>6, <1>7, <2>1 DEF EndsWith
<1> QED
    BY <1>8, <1>9 DEF Order

\* Results that are taken are tokens.
LEMMA DataFacts == ASSUME Reader PROVE reads.data \in Tokens
    BY DEF Reader

\* The reader's part of the invariant is inductive.
LEMMA ReadInvNext == ReadInv /\ [Next]_vars => ReadInv'
<1> SUFFICES ASSUME Wire, Reader, Order, Control, [Next]_vars PROVE ReadInv'
    BY DEF ReadInv
<1> DEFINE Kept == Wire' /\ Reader' /\ Order'
<1>a. reads.data \in Tokens /\ hdr \in [1 .. 2 -> Token]
    BY DataFacts DEF Control
<1>b. Overlay(hdr) \in [1 .. 2 -> Token]
    BY <1>a, OverlayFacts
<1>c. /\ reads.done => at \in Calling
      /\ rd.op # "none" => at \in Calling
    BY DEF Control
<1>d. ASSUME Kept, rd' = NoRead, ~ reads'.done, at' \in Places, hdr' \in [1 .. 2 -> Token],
             at' \in {"params_body", "stdin_body"} => hdr'[2].a > 0,
             at' = "params_skip" => hdr'[2].b > 0
      PROVE  ReadInv'
    BY <1>d, NothingFacts DEF ReadInv, Control
<1>e. ASSUME UNCHANGED <<peer, inp, stream, rbuf, rd, reads, hdr>>, at \notin Calling,
             at' \in Places \ {"params_body", "stdin_body", "params_skip"}
      PROVE  ReadInv'
  <2>1. Kept
    BY <1>e, ReaderRests
  <2> QED
    BY <1>c, <1>e, <2>1 DEF ReadInv, Control
<1>f. ASSUME Kept, UNCHANGED <<at, hdr>>,
             reads'.done \/ rd'.op # "none" => at \in Calling
      PROVE  ReadInv'
    BY <1>f DEF ReadInv, Control
<1>1. CASE SendRequest
  <2>1. Kept /\ UNCHANGED <<at, hdr, rd, reads>>
    BY <1>1, SendKeeps DEF SendRequest, reader_vars, request_vars
  <2> QED
    BY <1>c, <1>f, <2>1
<1>2. ASSUME NEW how \in {"eof", "reset"}, Hangup(how) PROVE ReadInv'
  <2>1. Kept /\ UNCHANGED <<at, hdr, rd, reads>>
    BY <1>2, HangupKeeps DEF Hangup, reader_vars, request_vars
  <2> QED
    BY <1>c, <1>f, <2>1
<1>3. CASE fcgi_read_request
  <2>1. /\ at = "read" /\ at' = "begin" /\ rbuf' = <<>>
        /\ UNCHANGED <<hdr, peer, inp, stream, rd, reads>>
    BY <1>3 DEF fcgi_read_request, conn_vars, server_vars
  <2>2. rd.op = "none" /\ ~ reads.done
    BY <1>c, <2>1 DEF Calling
  <2>3. rd = NoRead /\ reads = NoResult /\ rbuf \in Tokens /\ inp \in Tokens /\ stream \in Tokens
    BY <2>2 DEF Reader, Wire
  <2>4. Held = rbuf /\ EndsWith(stream, rbuf \o inp)
    <3>1. Held = rbuf
        BY <2>2, <2>3, HeldIdle
    <3> QED
        BY <2>3, <3>1, NothingFacts DEF Order
  <2>5. EndsWith(stream, inp)
    BY <2>3, <2>4, EndShorter
  <2>6. Reader' /\ Wire'
    BY <2>1, <2>3, EmptyFacts, NothingFacts, BufAssumption DEF Reader, Wire
  <2>7. rd' = NoRead /\ ~ reads'.done
    BY <2>1, <2>2, <2>3
  <2>8. Held' = <<>>
    BY <2>1, <2>7, EmptyFacts, JoinFacts DEF Held, NoRead
  <2>9. Order'
    BY <2>1, <2>3, <2>5, <2>8, JoinFacts DEF Order
  <2> QED
    BY <1>a, <1>d, <2>1, <2>6, <2>7, <2>9 DEF Places
<1>4. CASE Ask
  <2>1. UNCHANGED <<at, hdr, stream>> /\ rd = NoRead /\ ~ reads.done
    BY <1>4 DEF Ask, request_vars, server_vars, ef_bio_read, ef_bio_reader_skip
  <2>2. at \in Calling
    BY <1>4 DEF Ask, Calling
  <2>3. Wire'
    BY <1>4, <2>1 DEF Wire, Ask, ef_bio_read, ef_bio_reader_skip, conn_vars
  <2>4. hdr[2].a \in Int /\ hdr[2].b \in Int
    BY <1>a, TokenFacts
  <2>5. CASE at \in {"begin", "params", "stdin"} /\ ef_bio_read(HeaderLen)
    BY <1>f, <2>1, <2>2, <2>3, <2>5, ReadKeeps DEF HeaderLen
  <2>6. CASE at = "begin_body" /\ ef_bio_read(BeginLen)
    BY <1>f, <2>1, <2>2, <2>3, <2>6, ReadKeeps DEF BeginLen
  <2>7. CASE at \in {"params_body", "stdin_body"} /\ ef_bio_read(hdr[2].a)
    <3>1. hdr[2].a \in Nat
        BY <2>4, <2>7 DEF Control
    <3> QED
        BY <1>f, <2>1, <2>2, <2>3, <2>7, <3>1, ReadKeeps
  <2>8. CASE at = "params_skip" /\ ef_bio_reader_skip(hdr[2].b)
    <3>1. hdr[2].b \in Nat
        BY <2>4, <2>8 DEF Control
    <3> QED
        BY <1>f, <2>1, <2>2, <2>3, <2>8, <3>1, SkipKeeps
  <2> QED
    BY <1>4, <2>5, <2>6, <2>7, <2>8 DEF Ask
<1>5. CASE Transfer
  <2>1. UNCHANGED <<at, hdr, stream>>
    BY <1>5 DEF Transfer, request_vars, server_vars
  <2>2. CASE ef_safe_read
    <3>1. rd.op # "none"
        BY <2>2 DEF ef_safe_read, Receive, EndOfFile, ReadFails
    <3> QED
        BY <1>c, <1>f, <2>1, <2>2, <3>1, TransferKeeps
  <2>3. CASE ef_safe_write
    <3>1. UNCHANGED <<peer, inp, rbuf, rd, reads>>
        BY <2>3 DEF ef_safe_write, Send, WriteFails, conn_vars, reader_vars
    <3> QED
        BY <1>c, <1>f, <2>1, <3>1, ReaderRests
  <2> QED
    BY <1>5, <2>2, <2>3 DEF Transfer
<1>6. ASSUME NEW place, Got(place) PROVE Kept /\ rd' = NoRead /\ ~ reads'.done
    BY <1>6, GotKeeps
<1>7. CASE GotBegin
  <2>1. Got("begin") /\ hdr' = Overlay(hdr)
        /\ at' \in {"returned", "undefined", "begin_body"}
    BY <1>7 DEF GotBegin, ReturnsUnset
  <2> QED
    BY <1>b, <1>d, <1>6, <2>1 DEF Places
<1>8. CASE GotBeginBody
  <2>1. Got("begin_body") /\ hdr' = hdr
        /\ at' \in {"returned", "undefined", "params"}
    BY <1>8 DEF GotBeginBody, ReturnsUnset
  <2> QED
    BY <1>a, <1>d, <1>6, <2>1 DEF Places
<1>9. CASE GotParams
  <2>1. Got("params") /\ hdr' = Overlay(hdr)
        /\ at' \in {"returned", "undefined", "params_body", "stdin"}
    BY <1>9 DEF GotParams, ExitRequest
  <2>2. at' = "params_body" => hdr'[2].a > 0
    BY <1>9 DEF GotParams, ExitRequest, IsRecord
  <2> QED
    BY <1>b, <1>d, <1>6, <2>1, <2>2 DEF Places
<1>10. CASE GotParamsBody
  <2>1. Got("params_body") /\ hdr' = hdr /\ at' \in {"returned", "params_skip", "params"}
    BY <1>10 DEF GotParamsBody, ExitRequest
  <2>2. at' = "params_skip" => hdr[2].b > 0
    BY <1>10 DEF GotParamsBody, ExitRequest
  <2> QED
    BY <1>a, <1>d, <1>6, <2>1, <2>2 DEF Places
<1>11. CASE GotSkipped
  <2>1. Got("params_skip") /\ hdr' = hdr /\ at' = "params"
    BY <1>11 DEF GotSkipped, request_vars
  <2> QED
    BY <1>a, <1>d, <1>6, <2>1 DEF Places
<1>12. CASE GotStdin
  <2>1. Got("stdin") /\ hdr' = Overlay(hdr) /\ at' \in {"returned", "stdin_body"}
    BY <1>12 DEF GotStdin, ExitRequest
  <2>2. at' = "stdin_body" => hdr'[2].a > 0
    BY <1>12 DEF GotStdin, ExitRequest, IsRecord
  <2> QED
    BY <1>b, <1>d, <1>6, <2>1, <2>2 DEF Places
<1>13. CASE GotStdinBody
  <2>1. Got("stdin_body") /\ hdr' = hdr /\ at' \in {"returned", "stdin"}
    BY <1>13 DEF GotStdinBody, ExitRequest
  <2> QED
    BY <1>a, <1>d, <1>6, <2>1 DEF Places
<1>14. CASE fcgi_new_response
  <2>1. at = "returned" /\ at' \in {"record", "closed"}
        /\ UNCHANGED <<peer, inp, stream, rbuf, rd, reads, hdr>>
    BY <1>14 DEF fcgi_new_response, conn_vars, reader_vars, request_vars, server_vars
  <2> QED
    BY <1>e, <2>1 DEF Places, Calling
<1>15. ASSUME NEW place \in {"record", "copy", "pad", "end"}, NEW data, Put(place, data),
              at' \in {"copy", "end", "pad", "record", "flush"}
       PROVE  ReadInv'
  <2>1. at = place /\ UNCHANGED <<peer, inp, stream, rbuf, rd, reads, hdr>>
    BY <1>15 DEF Put, ef_bio_write, conn_vars, reader_vars, request_vars, server_vars
  <2> QED
    BY <1>e, <1>15, <2>1 DEF Places, Calling
<1>16. CASE PutHeader
    BY <1>15, <1>16 DEF PutHeader
<1>17. CASE PutContent
    BY <1>15, <1>17 DEF PutContent
<1>18. CASE PutPadding
    BY <1>15, <1>18 DEF PutPadding
<1>19. CASE PutEnd
    BY <1>15, <1>19 DEF PutEnd
<1>20. CASE Flush
  <2>1. at = "flush" /\ at' = "answered" /\ UNCHANGED <<peer, inp, stream, rbuf, rd, reads, hdr>>
    BY <1>20 DEF Flush, ef_bio_writer_flush, conn_vars, reader_vars, request_vars, server_vars
  <2> QED
    BY <1>e, <2>1 DEF Places, Calling
<1>21. CASE Answered
  <2>1. at = "answered" /\ at' \in {"read", "closed"}
        /\ UNCHANGED <<peer, inp, stream, rbuf, rd, reads, hdr>>
    BY <1>21 DEF Answered, conn_vars, reader_vars, request_vars
  <2> QED
    BY <1>e, <2>1 DEF Places, Calling
<1>22. CASE UNCHANGED vars
  <2>1. UNCHANGED <<peer, inp, stream, rbuf, rd, reads, hdr, at>>
    BY <1>22 DEF vars, bio_vars, conn_vars, reader_vars, request_vars, server_vars
  <2> QED
    BY <1>c, <1>f, <2>1, ReaderRests
<1> QED
  <2>1. CASE Next
    <3>1. CASE fcgi_proc
        BY <1>3, <1>4, <1>5, <1>7, <1>8, <1>9, <1>10, <1>11, <1>12, <1>13, <1>14, <1>16, <1>17,
           <1>18, <1>19, <1>20, <1>21, <3>1 DEF fcgi_proc
    <3> QED
        BY <1>1, <1>2, <1>22, <2>1, <3>1 DEF Next, Finished
  <2> QED
    BY <1>22, <2>1

\* At first nothing has arrived.
LEMMA ReadInvInit == Init => ReadInv
<1> SUFFICES ASSUME Init PROVE ReadInv
    OBVIOUS
<1>1. /\ peer = "open" /\ inp = <<>> /\ stream = <<>> /\ rbuf = <<>> /\ rd = NoRead
      /\ reads = NoResult /\ at = "read" /\ hdr = Junk
    BY DEF Init, ef_bio_new
<1>2. Wire /\ Reader
    BY <1>1, EmptyFacts, NothingFacts, BufAssumption DEF Wire, Reader
<1>3. Order
  <2>1. Held \in Tokens
    BY <1>1, EmptyFacts, NothingFacts, JoinFacts DEF Held, NoRead
  <2>2. Held = <<>>
    BY <1>1, <2>1, EmptyFacts, NothingFacts, JoinFacts DEF Held, NoRead
  <2> QED
    BY <1>1, <2>2, EmptyFacts, JoinFacts, EndNothing DEF Order
<1>4. Control
  <2>1. Byte(-1) \in Token
    BY TokenFacts
  <2>2. hdr \in [1 .. 2 -> Token]
    BY <1>1, <2>1 DEF Junk
  <2> QED
    BY <1>1, <2>2, NothingFacts DEF Control, Places
<1> QED
    BY <1>2, <1>3, <1>4 DEF ReadInv

\* It holds of every reachable state.
LEMMA ReadInvAlways == Spec => []ReadInv
    BY ReadInvInit, ReadInvNext, PTL DEF Spec

\* The reader loses no byte, repeats none and changes no order, for every
\* capacity of its buffer, every request and every way in which the connection
\* cuts, ends or breaks what was sent.
THEOREM OrderKept == Spec => []BytesInOrder
<1>1. ReadInv => BytesInOrder
  <2> SUFFICES ASSUME ReadInv, reads.n >= 0
               PROVE  Held \o inp = Drop(stream, Len(stream) - Len(Held \o inp))
    BY DEF BytesInOrder
  <2>1. /\ inp \in Tokens /\ stream \in Tokens /\ EndsWith(stream, Held \o inp)
        /\ rbuf \in Tokens /\ reads.data \in Tokens /\ rd.head \in Tokens /\ rd.got \in Tokens
    BY DEF ReadInv, Wire, Reader, ReadCall, Order
  <2>2. Held \in Tokens
    BY <2>1, JoinFacts DEF Held
  <2> DEFINE rest == Held \o inp
  <2>3. rest \in Tokens
    BY <2>1, <2>2, JoinFacts
  <2> HIDE DEF rest
  <2>4. EndsWith(stream, rest)
    BY <2>1 DEF rest
  <2>5. rest = Drop(stream, Len(stream) - Len(rest))
    BY <2>1, <2>3, <2>4, EndDrop
  <2> QED
    BY <2>5 DEF rest
<1> QED
    BY <1>1, ReadInvAlways, PTL
-----------------------------------------------------------------------------
(* The inductive invariant: the request, the writer and the response *)

\* A request is a structure of four members, which says how the call ended.
RequestKept == /\ DOMAIN request = {"got", "params", "data", "keep"}
               /\ request.got \in {"nothing", "null", "some"}

\* What is in the writer's buffer or on its way was put there in tokens, and
\* fits; a flush is only begun for a buffer that holds something.
Writer == /\ wbuf \in Tokens /\ Len(wbuf) <= BufSize
          /\ wr \in [op : {"none", "flush", "direct"}, rest : Tokens, data : Tokens]
          /\ wr.op = "flush" => wr.rest # <<>>

\* The place in the headers or the data is inside of them.
Response == /\ rsp \in [1 .. 2 -> Tokens]
            /\ pbuf \in 1 .. 3 /\ offset \in Nat
            /\ pbuf <= 2 => offset <= Len(rsp[pbuf])
            /\ length \in Nat /\ pksz \in 0 .. MaxContent /\ pad \in 0 .. 1

WriteInv == RequestKept /\ Writer /\ Response /\ RecordsFilled

\* Short data is collected, or it and the buffer are on their way.
LEMMA WriteKeeps ==
    ASSUME Writer, NEW data \in Tokens, ef_bio_write(data)
    PROVE  Writer'
<1>1. wbuf \in Tokens /\ Len(wbuf) \in Nat /\ Len(wbuf) <= BufSize
      /\ data \in Tokens /\ Len(data) \in Nat /\ BufSize \in Nat
    BY JoinFacts, BufAssumption DEF Writer
<1>2. CASE Len(wbuf) + Len(data) > BufSize \/ BufSize \div 4 < Len(data)
  <2>1. /\ wbuf' = wbuf
        /\ wr' = IF wbuf # <<>> THEN [op |-> "flush", rest |-> wbuf, data |-> data]
                 ELSE [op |-> "direct", rest |-> data, data |-> <<>>]
    BY <1>2 DEF ef_bio_write
  <2> QED
    BY <1>1, <2>1, EmptyFacts DEF Writer
<1>3. CASE ~ (Len(wbuf) + Len(data) > BufSize \/ BufSize \div 4 < Len(data))
  <2>1. wbuf' = wbuf \o data /\ wr' = wr
    BY <1>3 DEF ef_bio_write
  <2>2. wbuf \o data \in Tokens /\ Len(wbuf \o data) = Len(wbuf) + Len(data)
    BY <1>1, JoinFacts
  <2>3. Len(wbuf') <= BufSize
    BY <1>1, <1>3, <2>1, <2>2
  <2> QED
    BY <2>1, <2>2, <2>3 DEF Writer
<1> QED
    BY <1>2, <1>3

\* One turn of ef_safe_write.
LEMMA SafeWriteKeeps == ASSUME Writer, ef_safe_write PROVE Writer'
<1>1. /\ wbuf \in Tokens /\ wr.rest \in Tokens /\ wr.data \in Tokens
      /\ Len(wr.rest) \in Nat /\ NoWrite \in [op : {"none", "flush", "direct"}, rest : Tokens, data : Tokens]
    BY EmptyFacts, JoinFacts DEF Writer, NoWrite
<1>2. ASSUME Send PROVE Writer'
  <2>1. PICK n \in 1 .. Len(wr.rest) :
            IF n = Len(wr.rest) THEN Written
            ELSE wr' = [wr EXCEPT !.rest = Drop(@, n)] /\ wbuf' = wbuf
    BY <1>2 DEF Send
  <2>2. CASE n = Len(wr.rest)
    <3>1. Written
        BY <2>1, <2>2
    <3>2. wbuf' \in {<<>>, wbuf}
        BY <3>1 DEF Written
    <3>3. wbuf' \in Tokens /\ Len(wbuf') <= BufSize
        BY <1>1, <3>2, EmptyFacts, BufAssumption DEF Writer
    <3>4. /\ wr' \in [op : {"none", "flush", "direct"}, rest : Tokens, data : Tokens]
          /\ wr'.op # "flush"
        BY <1>1, <3>1, EmptyFacts DEF Written, NoWrite
    <3> QED
        BY <3>3, <3>4 DEF Writer
  <2>3. CASE n # Len(wr.rest)
    <3> DEFINE rest == Drop(wr.rest, n)
    <3>1. wr' = [wr EXCEPT !.rest = rest] /\ wbuf' = wbuf
        BY <2>1, <2>3
    <3>2. rest \in Tokens /\ Len(rest) = Len(wr.rest) - n
      <4> DEFINE all == wr.rest
      <4>1. all \in Tokens /\ n \in 0 .. Len(all)
        BY <1>1
      <4> HIDE DEF all
      <4>2. Drop(all, n) \in Tokens /\ Len(Drop(all, n)) = Len(all) - n
        BY <4>1, CutFacts
      <4> QED
        BY <4>2 DEF all
    <3>3. rest # <<>>
        BY <1>1, <2>3, <3>2, EmptyFacts
    <3> HIDE DEF rest
    <3>4. /\ wr' \in [op : {"none", "flush", "direct"}, rest : Tokens, data : Tokens]
          /\ wr'.rest = rest
        BY <3>1, <3>2 DEF Writer
    <3> QED
        BY <3>1, <3>3, <3>4 DEF Writer
  <2> QED
    BY <2>2, <2>3
<1>3. ASSUME WriteFails PROVE Writer'
    BY <1>1, <1>3 DEF WriteFails, Writer, NoWrite
<1> QED
    BY <1>2, <1>3 DEF ef_safe_write

\* A response of any length.
LEMMA NumberedBytes ==
    ASSUME NEW n \in Nat, NEW k \in Nat
    PROVE  /\ Bytes([i \in 1 .. n |-> k + i]) \in Tokens
           /\ Len(Bytes([i \in 1 .. n |-> k + i])) = n
<1> DEFINE numbers == [i \in 1 .. n |-> k + i]
<1>1. numbers \in Seq(Int) /\ Len(numbers) = n /\ \A i \in 1 .. n : numbers[i] \in Int
    OBVIOUS
<1> HIDE DEF numbers
<1>2. Bytes(numbers) = [i \in 1 .. n |-> Byte(numbers[i])]
    BY <1>1 DEF Bytes
<1>3. \A i \in 1 .. n : Byte(numbers[i]) \in Token
    BY <1>1, TokenFacts
<1>4. [i \in 1 .. n |-> Byte(numbers[i])] \in Seq(Token)
      /\ Len([i \in 1 .. n |-> Byte(numbers[i])]) = n
    BY <1>3
<1> QED
    BY <1>2, <1>4 DEF numbers, Tokens

\* The writer's part of the invariant is inductive.
LEMMA WriteInvNext == WriteInv /\ [Next]_vars => WriteInv'
<1> SUFFICES ASSUME RequestKept, Writer, Response, RecordsFilled, [Next]_vars PROVE WriteInv'
    BY DEF WriteInv
<1> DEFINE Fields == {"got", "params", "data", "keep"}
           Building == {"record", "copy", "pad", "end"}
<1>a. ASSUME UNCHANGED response_vars, Writer', RequestKept', at' = at \/ at' \notin Building
      PROVE  WriteInv'
  <2>1. Response' /\ Left' = Left
    BY <1>a DEF response_vars, Response, Left
  <2>2. RecordsFilled'
    BY <1>a, <2>1 DEF response_vars, RecordsFilled
  <2> QED
    BY <1>a, <2>1, <2>2 DEF WriteInv
<1>b. ASSUME UNCHANGED writer_vars PROVE Writer'
    BY <1>b DEF writer_vars, Writer
<1>c. ASSUME request' = request PROVE RequestKept'
    BY <1>c DEF RequestKept
<1>d. ASSUME request' = [NoRequest EXCEPT !.got = "null"] \/ request' = NoRequest PROVE RequestKept'
    BY <1>d DEF RequestKept, NoRequest
<1>e. CASE UNCHANGED <<response_vars, writer_vars, request, at>>
    BY <1>a, <1>b, <1>c, <1>e
<1>1. CASE SendRequest
    BY <1>1, <1>e DEF SendRequest, request_vars
<1>2. ASSUME NEW how, Hangup(how) PROVE WriteInv'
    BY <1>2, <1>e DEF Hangup, request_vars
<1>3. CASE fcgi_read_request
    BY <1>3, <1>a, <1>b, <1>d DEF fcgi_read_request
<1>4. CASE Ask
    BY <1>4, <1>e DEF Ask, request_vars, ef_bio_read, ef_bio_reader_skip
<1>5. CASE Transfer
  <2>1. UNCHANGED <<response_vars, request, at>>
    BY <1>5 DEF Transfer, request_vars
  <2>2. CASE ef_safe_read
    <3>1. UNCHANGED writer_vars
        BY <2>2 DEF ef_safe_read, Receive, EndOfFile, ReadFails
    <3> QED
        BY <1>e, <2>1, <3>1
  <2>3. CASE ef_safe_write
    BY <1>a, <1>c, <2>1, <2>3, SafeWriteKeeps
  <2> QED
    BY <1>5, <2>2, <2>3 DEF Transfer
<1>6. ASSUME NEW place, Got(place) PROVE UNCHANGED response_vars /\ Writer'
    BY <1>6, <1>b DEF Got
<1>7. CASE GotBegin
  <2>1. Got("begin") /\ at' \in {"returned", "undefined", "begin_body"}
        /\ (request' = [NoRequest EXCEPT !.got = "null"] \/ request' = request)
    BY <1>7 DEF GotBegin, ReturnsUnset
  <2> QED
    BY <1>a, <1>c, <1>d, <1>6, <2>1
<1>8. CASE GotBeginBody
  <2>1. Got("begin_body") /\ at' \in {"returned", "undefined", "params"}
        /\ \/ request' = [NoRequest EXCEPT !.got = "null"]
           \/ request' = request
           \/ request' = [NoRequest EXCEPT !.got = "some", !.keep = Overlay(Junk)[2].a = 1]
    BY <1>8 DEF GotBeginBody, ReturnsUnset
  <2>2. RequestKept'
    BY <1>c, <1>d, <2>1 DEF RequestKept, NoRequest
  <2> QED
    BY <1>a, <1>6, <2>1, <2>2
<1>9. CASE GotParams
  <2>1. Got("params") /\ at' \in {"returned", "undefined", "params_body", "stdin"}
    BY <1>9 DEF GotParams, ExitRequest
  <2>2. RequestKept'
    <3> DEFINE parsed == fcgi_parse_params([i \in DOMAIN buffer |-> buffer[i].a])
    <3>1. \/ request' = [NoRequest EXCEPT !.got = "null"]
          \/ request' = request
          \/ request' = [request EXCEPT !.params = parsed]
        BY <1>9 DEF GotParams, ExitRequest
    <3> HIDE DEF parsed
    <3> QED
        BY <1>c, <1>d, <3>1 DEF RequestKept
  <2> QED
    BY <1>a, <1>6, <2>1, <2>2
<1>10. CASE GotParamsBody
  <2>1. Got("params_body") /\ at' \in {"returned", "params_skip", "params"}
        /\ (request' = [NoRequest EXCEPT !.got = "null"] \/ request' = request)
    BY <1>10 DEF GotParamsBody, ExitRequest
  <2> QED
    BY <1>a, <1>c, <1>d, <1>6, <2>1
<1>11. CASE GotSkipped
  <2>1. Got("params_skip") /\ at' = "params" /\ request' = request
    BY <1>11 DEF GotSkipped, request_vars
  <2> QED
    BY <1>a, <1>c, <1>6, <2>1
<1>12. CASE GotStdin
  <2>1. Got("stdin") /\ at' \in {"returned", "stdin_body"}
        /\ (request' = [NoRequest EXCEPT !.got = "null"] \/ request' = request)
    BY <1>12 DEF GotStdin, ExitRequest
  <2> QED
    BY <1>a, <1>c, <1>d, <1>6, <2>1
<1>13. CASE GotStdinBody
  <2>1. Got("stdin_body") /\ at' \in {"returned", "stdin"}
    BY <1>13 DEF GotStdinBody, ExitRequest
  <2>2. RequestKept'
    <3> DEFINE data == Take(request.data \o reads.data, reads.n)
    <3>1. \/ request' = [NoRequest EXCEPT !.got = "null"]
          \/ request' = request
          \/ request' = [request EXCEPT !.data = data]
        BY <1>13 DEF GotStdinBody, ExitRequest
    <3> HIDE DEF data
    <3> QED
        BY <1>c, <1>d, <3>1 DEF RequestKept
  <2> QED
    BY <1>a, <1>6, <2>1, <2>2
<1>14. CASE fcgi_new_response
  <2>1. /\ wbuf' = <<>> /\ wr' = NoWrite /\ pksz' = pksz /\ pad' = pad /\ request' = request
    BY <1>14 DEF fcgi_new_response, request_vars
  <2>2. Writer' /\ RequestKept'
    BY <1>c, <2>1, EmptyFacts, BufAssumption DEF Writer, NoWrite
  <2>3. CASE request.got = "some"
    <3>1. PICK n \in Responses :
            /\ rsp' = <<Bytes([i \in 1 .. n[1] |-> i]), Bytes([i \in 1 .. n[2] |-> n[1] + i])>>
            /\ length' = n[1] + n[2]
        BY <1>14, <2>3 DEF fcgi_new_response
    <3>2. pbuf' = 1 /\ offset' = 0 /\ at' = "record"
        BY <1>14, <2>3 DEF fcgi_new_response
    <3> DEFINE h == n[1]
               d == n[2]
    <3>3. h \in Nat /\ d \in Nat
        BY ResponseAssumption
    <3> HIDE DEF h, d
    <3>4. [i \in 1 .. h |-> 0 + i] = [i \in 1 .. h |-> i]
        BY <3>3
    <3>5. /\ Bytes([i \in 1 .. h |-> i]) \in Tokens /\ Len(Bytes([i \in 1 .. h |-> i])) = h
          /\ Bytes([i \in 1 .. d |-> h + i]) \in Tokens /\ Len(Bytes([i \in 1 .. d |-> h + i])) = d
      <4>1. 0 \in Nat
        OBVIOUS
      <4>2. Bytes([i \in 1 .. h |-> 0 + i]) \in Tokens /\ Len(Bytes([i \in 1 .. h |-> 0 + i])) = h
        BY <3>3, <4>1, NumberedBytes
      <4>3. Bytes([i \in 1 .. d |-> h + i]) \in Tokens /\ Len(Bytes([i \in 1 .. d |-> h + i])) = d
        BY <3>3, NumberedBytes
      <4> QED
        BY <3>4, <4>2, <4>3
    <3>6. /\ rsp'[1] \in Tokens /\ Len(rsp'[1]) = h
          /\ rsp'[2] \in Tokens /\ Len(rsp'[2]) = d /\ rsp' \in [1 .. 2 -> Tokens]
      <4> DEFINE headers == Bytes([i \in 1 .. h |-> i])
                 data == Bytes([i \in 1 .. d |-> h + i])
      <4>1. rsp' = <<headers, data>>
        BY <3>1 DEF h, d
      <4>2. headers \in Tokens /\ Len(headers) = h /\ data \in Tokens /\ Len(data) = d
        BY <3>5
      <4> HIDE DEF headers, data
      <4> QED
        BY <4>1, <4>2
    <3>7. length' = h + d
        BY <3>1 DEF h, d
    <3>8. Response'
        BY <2>1, <3>2, <3>3, <3>6, <3>7 DEF Response
    <3>9. RecordsFilled'
        BY <3>2, <3>3, <3>6, <3>7 DEF RecordsFilled, Left
    <3> QED
        BY <2>2, <3>8, <3>9 DEF WriteInv
  <2>4. CASE request.got # "some"
    <3>1. at' = "closed" /\ UNCHANGED response_vars
        BY <1>14, <2>4 DEF fcgi_new_response, response_vars
    <3> QED
        BY <1>a, <2>2, <3>1
  <2> QED
    BY <2>3, <2>4
<1>15. CASE PutHeader
  <2>1. CASE length > 0
    <3> DEFINE n == Least(length, MaxContent)
               data == <<Type(FCGI_STDOUT), Size(n, PaddingLength(n))>>
    <3>1. /\ at = "record" /\ at' = "copy" /\ ef_bio_write(data) /\ pksz' = n
          /\ length' = length - n /\ pad' = PaddingLength(n)
          /\ UNCHANGED <<rsp, pbuf, offset, request>>
        BY <1>15, <2>1 DEF PutHeader, Put, request_vars
    <3>2. n \in 1 .. MaxContent /\ n <= length
        BY <2>1, ContentAssumption DEF Least, Response, BeginLen
    <3> HIDE DEF n
    <3>3. PaddingLength(n) \in 0 .. 1
        BY <3>2, ContentAssumption DEF PaddingLength, Align
    <3>4. data \in Tokens
      <4> DEFINE p == PaddingLength(n)
      <4>1. p \in Int /\ n \in Int /\ FCGI_STDOUT \in Int
        BY <3>2, <3>3 DEF FCGI_STDOUT
      <4> HIDE DEF p
      <4>2. Type(FCGI_STDOUT) \in Token /\ Size(n, p) \in Token
        BY <4>1, TokenFacts
      <4> QED
        BY <4>2 DEF Tokens, p
    <3> HIDE DEF data
    <3>5. Writer'
        BY <3>1, <3>4, WriteKeeps
    <3>6. RequestKept'
        BY <1>c, <3>1
    <3>7. Response'
        BY <3>1, <3>2, <3>3, ContentAssumption DEF Response
    <3>8. Left' = length' + pksz' /\ pksz' > 0
      <4>1. Left = length
        BY <3>1 DEF RecordsFilled, Response
      <4>2. Left' = Left
        BY <3>1 DEF Left
      <4> QED
        BY <3>1, <3>2, <4>1, <4>2 DEF Response
    <3>9. pbuf <= 2
      <4>1. Left > 0
        BY <2>1, <3>1 DEF RecordsFilled, Response
      <4> QED
        BY <4>1 DEF Left, Response
    <3>10. RecordsFilled'
        BY <3>1, <3>8, <3>9 DEF RecordsFilled
    <3> QED
        BY <3>5, <3>6, <3>7, <3>10 DEF WriteInv
  <2>2. CASE length = 0
    <3> DEFINE data == <<Type(FCGI_END_REQUEST), Size(BeginLen, 0)>>
    <3>1. /\ at = "record" /\ at' = "end" /\ ef_bio_write(data)
          /\ UNCHANGED <<rsp, length, pbuf, offset, pksz, pad, request>>
        BY <1>15, <2>2 DEF PutHeader, Put, request_vars
    <3>2. Type(FCGI_END_REQUEST) \in Token /\ Size(BeginLen, 0) \in Token
        BY TokenFacts DEF FCGI_END_REQUEST, BeginLen
    <3>3. data \in Tokens
        BY <3>2 DEF Tokens
    <3> HIDE DEF data
    <3>4. Writer' /\ RequestKept'
        BY <1>c, <3>1, <3>3, WriteKeeps
    <3>5. Response' /\ Left' = Left
        BY <3>1 DEF Response, Left
    <3>6. RecordsFilled'
        BY <2>2, <3>1, <3>5 DEF RecordsFilled
    <3> QED
        BY <3>4, <3>5, <3>6 DEF WriteInv
  <2> QED
    BY <2>1, <2>2 DEF Response
<1>16. CASE PutContent
  <2> DEFINE buf == rsp[pbuf]
             n == Least(Len(buf) - offset, pksz)
             data == SubSeq(buf, offset + 1, offset + n)
  <2>1. /\ at = "copy" /\ pbuf \in 1 .. 2 /\ ef_bio_write(data) /\ NextBuffer(n) /\ pksz' = pksz - n
        /\ at' = IF pksz' > 0 THEN "copy" ELSE IF pad > 0 THEN "pad" ELSE "record"
        /\ UNCHANGED <<rsp, length, pad, request>>
    BY <1>16 DEF PutContent, Put, request_vars, Response
  <2>2. buf \in Tokens /\ Len(buf) \in Nat /\ offset \in 0 .. Len(buf)
    BY <2>1, JoinFacts DEF Response
  <2>3. /\ n \in 0 .. pksz /\ offset + n <= Len(buf)
        /\ n = pksz \/ offset + n = Len(buf)
        /\ pksz \in Nat /\ pksz > 0 /\ length \in Nat
    BY <2>1, <2>2 DEF Least, Response, RecordsFilled
  <2>4. data \in Tokens
    <3>1. \A i \in 1 .. Len(buf) : buf[i] \in Token
        BY <2>2, LenProperties DEF Tokens
    <3> HIDE DEF buf, n
    <3>2. \A i \in offset + 1 .. offset + n : buf[i] \in Token
        BY <2>2, <2>3, <3>1
    <3>3. offset + 1 \in Int /\ offset + n \in Int
        BY <2>2, <2>3
    <3> QED
        BY <2>2, <2>3, <3>1, <3>2, <3>3, SubSeqProperties DEF Tokens
  <2> HIDE DEF data
  <2>5. Writer' /\ RequestKept'
    BY <1>c, <2>1, <2>4, WriteKeeps
  <2>6. Left = length + pksz
    BY <2>1 DEF RecordsFilled
  <2>7. pbuf' \in 1 .. 3 /\ offset' \in Nat /\ (pbuf' <= 2 => offset' <= Len(rsp[pbuf'])) /\ Left' = Left - n
    <3>1. Len(rsp[1]) \in Nat /\ Len(rsp[2]) \in Nat
        BY JoinFacts DEF Response
    <3> DEFINE first == Len(rsp[1])
               second == Len(rsp[2])
               end == Len(buf)
    <3>2. /\ Left = IF pbuf = 1 THEN (first - offset) + second ELSE second - offset
          /\ Left' = IF pbuf' = 1 THEN (first - offset') + second
                     ELSE IF pbuf' = 2 THEN second - offset' ELSE 0
          /\ end = IF pbuf = 1 THEN first ELSE second
        BY <2>1 DEF Left
    <3>3. /\ pbuf \in 1 .. 2 /\ first \in Nat /\ second \in Nat /\ offset \in 0 .. end
          /\ n \in Int /\ n >= 0 /\ offset + n <= end
        BY <2>1, <2>2, <2>3, <3>1
    <3>4. IF offset + n = end THEN pbuf' = pbuf + 1 /\ offset' = 0
          ELSE pbuf' = pbuf /\ offset' = offset + n
        BY <2>1 DEF NextBuffer
    <3> HIDE DEF n, first, second, end
    <3>5. /\ pbuf' \in 1 .. 3 /\ offset' \in Nat /\ Left' = Left - n
          /\ pbuf' = 1 => offset' <= first
          /\ pbuf' = 2 => offset' <= second
        BY <3>2, <3>3, <3>4
    <3> QED
        BY <3>5 DEF first, second
  <2> HIDE DEF n
  <2>8. pksz' \in 0 .. MaxContent
    BY <2>1, <2>3, ContentAssumption DEF Response
  <2>9. Response'
    BY <2>1, <2>7, <2>8 DEF Response
  <2>10. Left' = length' + pksz'
    BY <2>1, <2>3, <2>6, <2>7
  <2>11. pksz' > 0 => pbuf' <= 2
    BY <2>1, <2>3, <2>7, <2>8, <2>10 DEF Left
  <2>12. RecordsFilled'
    <3>1. CASE pksz' > 0
        BY <2>1, <2>10, <2>11, <3>1 DEF RecordsFilled
    <3>2. CASE ~ (pksz' > 0)
      <4>1. pksz' = 0 /\ length' \in Nat
        BY <2>1, <2>3, <2>8, <3>2, ContentAssumption
      <4> QED
        BY <2>1, <2>10, <3>2, <4>1 DEF RecordsFilled
    <3> QED
        BY <3>1, <3>2
  <2> QED
    BY <2>5, <2>9, <2>12 DEF WriteInv
<1>d1. Pads(pad) \in Tokens
  <2>1. Byte(0) \in Token /\ pad \in Nat
    BY TokenFacts DEF Response
  <2> QED
    BY <2>1 DEF Pads, Tokens
<1>17. CASE PutPadding
  <2>1. /\ at = "pad" /\ at' = "record" /\ ef_bio_write(Pads(pad))
        /\ UNCHANGED <<rsp, length, pbuf, offset, pksz, pad, request>>
    BY <1>17 DEF PutPadding, Put, request_vars
  <2>2. Writer' /\ RequestKept'
    BY <1>c, <1>d1, <2>1, WriteKeeps
  <2>3. Response' /\ Left' = Left
    BY <2>1 DEF Response, Left
  <2>4. RecordsFilled'
    BY <2>1, <2>3 DEF RecordsFilled
  <2> QED
    BY <2>2, <2>3, <2>4 DEF WriteInv
<1>18. CASE PutEnd
  <2>1. at' = "flush" /\ ef_bio_write(<<Byte(0), Byte(0)>>) /\ UNCHANGED <<response_vars, request>>
    BY <1>18 DEF PutEnd, Put, request_vars, response_vars
  <2>2. <<Byte(0), Byte(0)>> \in Tokens
    BY TokenFacts DEF Tokens
  <2> QED
    BY <1>a, <1>c, <2>1, <2>2, WriteKeeps
<1>19. CASE Flush
  <2>1. /\ at' = "answered" /\ UNCHANGED <<response_vars, request, wbuf>>
        /\ wr' = IF wbuf # <<>> THEN [op |-> "flush", rest |-> wbuf, data |-> <<>>] ELSE NoWrite
    BY <1>19 DEF Flush, ef_bio_writer_flush, request_vars
  <2>2. Writer'
    BY <2>1, EmptyFacts DEF Writer, NoWrite
  <2> QED
    BY <1>a, <1>c, <2>1, <2>2
<1>20. CASE Answered
  <2>1. at' \in {"read", "closed"} /\ wbuf' = <<>> /\ wr' = wr /\ UNCHANGED <<response_vars, request>>
    BY <1>20 DEF Answered, request_vars
  <2>2. Writer'
    BY <2>1, EmptyFacts, BufAssumption DEF Writer
  <2> QED
    BY <1>a, <1>c, <2>1, <2>2
<1>21. CASE UNCHANGED vars
    BY <1>21, <1>e DEF vars, bio_vars, request_vars
<1> QED
  <2>1. CASE Next
    <3>1. CASE fcgi_proc
        BY <1>3, <1>4, <1>5, <1>7, <1>8, <1>9, <1>10, <1>11, <1>12, <1>13, <1>14, <1>15, <1>16,
           <1>17, <1>18, <1>19, <1>20, <3>1 DEF fcgi_proc
    <3> QED
        BY <1>1, <1>2, <1>21, <2>1, <3>1 DEF Next, Finished
  <2> QED
    BY <1>21, <2>1

\* At first nothing is to be written.
LEMMA WriteInvInit == Init => WriteInv
<1> SUFFICES ASSUME Init PROVE WriteInv
    OBVIOUS
<1>1. /\ wbuf = <<>> /\ wr = NoWrite /\ request = NoRequest /\ at = "read"
      /\ rsp = <<<<>>, <<>>>> /\ length = 0 /\ pbuf = 1 /\ offset = 0 /\ pksz = 0 /\ pad = 0
    BY DEF Init, ef_bio_new
<1>2. RequestKept
    BY <1>1 DEF RequestKept, NoRequest
<1>3. Writer
    BY <1>1, EmptyFacts, BufAssumption DEF Writer, NoWrite
<1>4. Response
  <2>1. rsp \in [1 .. 2 -> Tokens] /\ rsp[1] = <<>>
    BY <1>1, EmptyFacts
  <2> QED
    BY <1>1, <2>1, EmptyFacts, ContentAssumption DEF Response
<1> QED
    BY <1>1, <1>2, <1>3, <1>4 DEF WriteInv, RecordsFilled

\* It holds of every reachable state.
LEMMA WriteInvAlways == Spec => []WriteInv
    BY WriteInvInit, WriteInvNext, PTL DEF Spec

\* Neither buffer is ever filled beyond its capacity, a read never takes more
\* than the memory it was given, and every place and length is in its range.
THEOREM BuffersNeverOverrun == Spec => []TypeOK
<1>1. ReadInv /\ WriteInv => TypeOK
  <2> SUFFICES ASSUME ReadInv, WriteInv PROVE TypeOK
    OBVIOUS
  <2>1. at \in Places /\ peer \in {"open", "eof", "reset"} /\ Len(rbuf) <= BufSize
    BY DEF ReadInv, Control, Wire, Reader
  <2>2. rd.op \in {"none", "refill", "direct", "skip"} /\ Len(rd.got) <= rd.cap
    BY EmptyFacts DEF ReadInv, Reader, ReadCall, NoRead
  <2>3. /\ Len(wbuf) <= BufSize
        /\ wr.op \in {"none", "flush", "direct"} /\ (wr.op = "flush" => wr.rest # <<>>)
    BY DEF WriteInv, Writer
  <2>4. request.got \in {"nothing", "null", "some"}
    BY DEF WriteInv, RequestKept
  <2>5. pbuf \in 1 .. 3 /\ pksz \in 0 .. MaxContent /\ length \in Nat
    BY DEF WriteInv, Response
  <2> QED
    BY <2>1, <2>2, <2>3, <2>4, <2>5 DEF TypeOK
<1> QED
    BY <1>1, ReadInvAlways, WriteInvAlways, PTL

\* Every record is filled as its header says, wherever it passes from the
\* headers to the data, for every length of either and of a record: the loop
\* never leaves by way of the missing buffer, and ends with nothing left.
THEOREM RecordsAlwaysFilled == Spec => []RecordsFilled
<1>1. WriteInv => RecordsFilled
    BY DEF WriteInv
<1> QED
    BY <1>1, WriteInvAlways, PTL
-----------------------------------------------------------------------------
(* Decoding the parameters *)

\* Decoding what was encoded gives the parameters back.
LEMMA ParseEncoded ==
    ASSUME NEW params \in Seq(Seq(Nat) \X Seq(Nat))
    PROVE  fcgi_parse_params(Encoded(params)) = Pairs(params)
<1> DEFINE n == Len(params)
           data == Encoded(params)
           m == Len(data) + 1
           pair(i) == <<SubSeq(data, i + 2, (i + 2 + data[i]) - 1),
                        SubSeq(data, i + 2 + data[i], (i + 2 + data[i] + data[i + 1]) - 1)>>
           after(i) == i + 2 + data[i] + data[i + 1]
           now(i, g) == IF i > Len(data) THEN {}
                        ELSE IF i = Len(data) THEN {<<>>}
                        ELSE IF after(i) > Len(data) + 1 THEN {<<>>}
                        ELSE {pair(i)} \cup g[after(i)]
           Rule(g) == g = [i \in 1 .. m |-> now(i, g)]
           S == SUBSET ({<<>>} \cup (Seq(Nat) \X Seq(Nat)))
<1>1. data \in Seq(Nat) /\ Len(data) \in Nat /\ m \in Nat /\ \A i \in 1 .. Len(data) : data[i] \in Nat
  <2>1. data \in Seq(Nat)
    BY EncodedFacts
  <2> QED
    BY <2>1, LenProperties
<1>2. PICK off : Paired(data, params, off)
    BY EncodedFacts
<1>3. n \in Nat /\ DOMAIN params = 1 .. n /\ \A k \in 1 .. n : params[k] \in Seq(Nat) \X Seq(Nat)
    BY LenProperties
<1>4. fcgi_parse_params(data) = (CHOOSE g : Rule(g))[1]
    BY DEF fcgi_parse_params
<1> HIDE DEF data
<1>5. ASSUME NEW i \in 1 .. m, i < Len(data)
      PROVE  after(i) \in Nat /\ after(i) > i
  <2> DEFINE x == data[i]
             y == data[i + 1]
  <2>1. x \in Nat /\ y \in Nat /\ after(i) = i + 2 + x + y
    BY <1>1, <1>5
  <2> HIDE DEF x, y, after
  <2> QED
    BY <2>1
<1>6. ASSUME NEW i \in 1 .. m, i < Len(data), after(i) <= m
      PROVE  pair(i) \in Seq(Nat) \X Seq(Nat)
  <2>1. data[i] \in Nat /\ data[i + 1] \in Nat
    BY <1>1, <1>6
  <2> DEFINE x == data[i]
             y == data[i + 1]
             a == SubSeq(data, i + 2, (i + 2 + x) - 1)
             b == SubSeq(data, i + 2 + x, (i + 2 + x + y) - 1)
  <2>2. pair(i) = <<a, b>>
    OBVIOUS
  <2>3. x \in Nat /\ y \in Nat /\ i + 2 + x + y <= m
    BY <1>6, <2>1
  <2> HIDE DEF x, y
  <2>4. a \in Seq(Nat)
    <3>1. \A j \in i + 2 .. (i + 2 + x) - 1 : data[j] \in Nat
        BY <1>1, <2>3
    <3> QED
        BY <2>3, <3>1, SubSeqProperties
  <2>5. b \in Seq(Nat)
    <3>1. \A j \in i + 2 + x .. (i + 2 + x + y) - 1 : data[j] \in Nat
        BY <1>1, <2>3
    <3> QED
        BY <2>3, <3>1, SubSeqProperties
  <2> QED
    BY <2>2, <2>4, <2>5
<1> HIDE DEF pair, after
<1>7. ASSUME NEW i \in 1 .. m, NEW g \in [1 .. m -> S]
      PROVE  now(i, g) \in S
  <2>1. CASE i >= Len(data)
    BY <1>1, <2>1
  <2>2. CASE i < Len(data) /\ after(i) > m
    BY <1>1, <2>2
  <2>3. CASE i < Len(data) /\ after(i) <= m
    <3>1. after(i) \in 1 .. m /\ pair(i) \in Seq(Nat) \X Seq(Nat)
        BY <1>5, <1>6, <2>3
    <3>2. now(i, g) = {pair(i)} \cup g[after(i)]
        BY <1>1, <2>3, <3>1
    <3>3. g[after(i)] \in S
        BY <3>1
    <3> QED
        BY <3>1, <3>2, <3>3
  <2> QED
    BY <1>1, <1>5, <2>1, <2>2, <2>3
<1>8. ASSUME NEW i \in 1 .. m, NEW f \in [1 .. m -> S], NEW g \in [1 .. m -> S],
             \A j \in i + 1 .. m : f[j] = g[j]
      PROVE  now(i, f) = now(i, g)
  <2>1. CASE i < Len(data) /\ after(i) <= m
    <3>1. after(i) \in i + 1 .. m
        BY <1>1, <1>5, <2>1
    <3>2. f[after(i)] = g[after(i)]
        BY <1>8, <3>1
    <3> QED
        BY <3>2
  <2>2. CASE ~ (i < Len(data) /\ after(i) <= m)
    BY <1>1, <1>5, <2>2
  <2> QED
    BY <2>1, <2>2
<1>9. \E g : Rule(g)
  <2> DEFINE F == [1 .. m -> S]
             step == [i \in 1 .. m |-> [g \in F |-> now(i, g)]]
  <2>1. step \in [1 .. m -> [F -> S]]
    <3> HIDE DEF now, S
    <3>1. \A i \in 1 .. m : \A g \in F : now(i, g) \in S
        BY <1>7
    <3> QED
        BY <3>1
  <2>2. \A i \in 1 .. m : \A g \in F : step[i][g] = now(i, g)
    <3> HIDE DEF now, S
    <3> QED
        OBVIOUS
  <2>3. \A i \in 1 .. m : \A f, g \in F : (\A j \in i + 1 .. m : f[j] = g[j]) => step[i][f] = step[i][g]
    <3> HIDE DEF now, step, F
    <3>1. \A i \in 1 .. m : \A f, g \in F : (\A j \in i + 1 .. m : f[j] = g[j]) => now(i, f) = now(i, g)
        BY <1>8 DEF F
    <3> QED
        BY <2>2, <3>1
  <2>4. S # {}
    OBVIOUS
  <2> HIDE DEF step, now, S
  <2>5. PICK f \in [1 .. m -> S] : Backwards(m, step, f)
    BY <1>1, <2>1, <2>3, <2>4, DefinedDown
  <2>6. \A i \in 1 .. m : f[i] = now(i, f)
    BY <2>2, <2>5 DEF Backwards
  <2>7. Rule(f)
    BY <2>6
  <2> QED
    BY <2>7
<1>10. ASSUME NEW g, Rule(g) PROVE g[1] = Pairs(params)
  <2> DEFINE Rest(k) == {params[j] : j \in k + 1 .. n}
             K == {k \in 0 .. n : g[off[k] + 1] = Rest(k)}
  <2>1. \A i \in 1 .. m : g[i] = now(i, g)
    BY <1>10
  <2> HIDE DEF Rule
  <2>2. off \in [0 .. n -> Nat] /\ off[0] = 0 /\ off[n] = Len(data)
    BY <1>2 DEF Paired
  <2>3. n \in K
    <3>1. m \in 1 .. m /\ m > Len(data) /\ off[n] + 1 = m
        BY <1>1, <2>2
    <3>2. g[m] = {}
        BY <2>1, <3>1
    <3>3. Rest(n) = {} /\ n \in 0 .. n
        BY <1>3
    <3> QED
        BY <3>1, <3>2, <3>3
  <2>4. ASSUME NEW k \in 1 .. n, k \in K PROVE k - 1 \in K
    <3> DEFINE name == params[k][1]
               value == params[k][2]
               x == Len(name)
               y == Len(value)
               from == off[k - 1]
               i == from + 1
    <3>1. /\ off[k] = from + 2 + x + y /\ off[k] <= Len(data)
          /\ data[from + 1] = x /\ data[from + 2] = y
          /\ \A j \in 1 .. x : data[from + 2 + j] = name[j]
          /\ \A j \in 1 .. y : data[from + 2 + x + j] = value[j]
        BY <1>2 DEF Paired
    <3>a. k - 1 \in 0 .. n /\ k \in 0 .. n
        BY <1>3
    <3>2. k - 1 \in 0 .. n /\ k \in 0 .. n /\ from \in Nat
        BY <2>2, <3>a
    <3>3. name \in Seq(Nat) /\ value \in Seq(Nat) /\ params[k] = <<name, value>>
        BY <1>3
    <3> HIDE DEF name, value, from
    <3>4. x \in Nat /\ y \in Nat
        BY <3>3, LenProperties
    <3> HIDE DEF x, y
    <3>5. i \in 1 .. m /\ i < Len(data) /\ data[i] = x /\ data[i + 1] = y /\ i + 2 + x + y = off[k] + 1
      <4>1. from + 2 + x + y <= Len(data) /\ i + 1 = from + 2
        BY <3>1, <3>2, <3>4
      <4>2. i \in 1 .. m /\ i < Len(data)
        BY <1>1, <3>2, <3>4, <4>1
      <4>3. i + 2 + x + y = off[k] + 1
        BY <3>1, <3>2, <3>4
      <4> QED
        BY <3>1, <4>1, <4>2, <4>3
    <3>a2. from + 2 + x + y <= Len(data) /\ i = from + 1
        BY <3>1
    <3>6. after(i) = off[k] + 1 /\ off[k] + 1 <= m
      <4>1. after(i) = i + 2 + x + y
        BY <3>5 DEF after
      <4>2. off[k] + 1 <= m
        BY <1>1, <3>1, <3>2, <3>4
      <4> QED
        BY <3>5, <4>1, <4>2
    <3>7. g[i] = {pair(i)} \cup g[off[k] + 1]
      <4>1. g[i] = now(i, g)
        BY <2>1, <3>5
      <4>2. ~ (i > Len(data)) /\ i # Len(data) /\ ~ (after(i) > Len(data) + 1)
        <5>1. i \in Nat /\ i < Len(data)
          BY <3>5
        <5> DEFINE z == after(i)
        <5>2. z = off[k] + 1 /\ off[k] <= Len(data) /\ off[k] \in Nat
          BY <2>2, <3>1, <3>2, <3>6
        <5> HIDE DEF z, i
        <5> QED
          BY <1>1, <5>1, <5>2 DEF z
      <4>3. now(i, g) = {pair(i)} \cup g[after(i)]
        BY <4>2
      <4> QED
        BY <3>6, <4>1, <4>3
    <3>8. g[off[k] + 1] = Rest(k)
        BY <2>4
    <3>9. pair(i) = params[k]
      <4> DEFINE a == SubSeq(data, i + 2, (i + 2 + x) - 1)
                 b == SubSeq(data, i + 2 + x, (i + 2 + x + y) - 1)
      <4>1. pair(i) = <<a, b>>
        <5>1. data[i] = x /\ data[i + 1] = y
          BY <3>5
        <5> HIDE DEF i
        <5> QED
          BY <5>1, Zenon DEF pair
      <4>2. a = name
        <5>1. \A j \in i + 2 .. (i + 2 + x) - 1 : data[j] \in Nat
          <6> SUFFICES ASSUME NEW j \in i + 2 .. (i + 2 + x) - 1 PROVE data[j] \in Nat
            OBVIOUS
          <6>1. j \in 1 .. Len(data)
            BY <1>1, <3>2, <3>4, <3>a2
          <6> QED
            BY <1>1, <6>1
        <5>2. /\ a \in Seq(Nat) /\ Len(a) = IF i + 2 <= (i + 2 + x) - 1 THEN ((i + 2 + x) - 1) - (i + 2) + 1 ELSE 0
              /\ \A j \in 1 .. ((i + 2 + x) - 1) - (i + 2) + 1 : a[j] = data[(i + 2) + j - 1]
          <6> DEFINE lo == i + 2
                     hi == (i + 2 + x) - 1
                     N  == Nat
          <6>1. lo \in Int /\ hi \in Int
            BY <3>2, <3>4
          <6>2. \A j \in lo .. hi : data[j] \in N
            BY <5>1
          <6> HIDE DEF lo, hi, N
          <6>3. /\ SubSeq(data, lo, hi) \in Seq(N)
                /\ Len(SubSeq(data, lo, hi)) = IF lo <= hi THEN hi - lo + 1 ELSE 0
                /\ \A j \in 1 .. hi - lo + 1 : SubSeq(data, lo, hi)[j] = data[lo + j - 1]
            BY <6>1, <6>2, SubSeqProperties
          <6> QED
            BY <6>3, Zenon DEF lo, hi, N
        <5>3. Len(a) = x
            BY <3>2, <3>4, <5>2
        <5>4. ASSUME NEW j \in 1 .. x PROVE a[j] = name[j]
          <6>1. j \in 1 .. ((i + 2 + x) - 1) - (i + 2) + 1 /\ (i + 2) + j - 1 = from + 2 + j
            BY <3>2, <3>4
          <6> QED
            BY <3>1, <5>2, <6>1
        <5> QED
            BY <3>3, <5>2, <5>3, <5>4, SeqEqual DEF x
      <4>3. b = value
        <5>1. \A j \in i + 2 + x .. (i + 2 + x + y) - 1 : data[j] \in Nat
          <6> SUFFICES ASSUME NEW j \in i + 2 + x .. (i + 2 + x + y) - 1 PROVE data[j] \in Nat
            OBVIOUS
          <6>1. j \in 1 .. Len(data)
            BY <1>1, <3>2, <3>4, <3>a2
          <6> QED
            BY <1>1, <6>1
        <5>2. /\ b \in Seq(Nat) /\ Len(b) = IF i + 2 + x <= (i + 2 + x + y) - 1 THEN ((i + 2 + x + y) - 1) - (i + 2 + x) + 1 ELSE 0
              /\ \A j \in 1 .. ((i + 2 + x + y) - 1) - (i + 2 + x) + 1 : b[j] = data[(i + 2 + x) + j - 1]
          <6> DEFINE lo == i + 2 + x
                     hi == (i + 2 + x + y) - 1
                     N  == Nat
          <6>1. lo \in Int /\ hi \in Int
            BY <3>2, <3>4
          <6>2. \A j \in lo .. hi : data[j] \in N
            BY <5>1
          <6> HIDE DEF lo, hi, N
          <6>3. /\ SubSeq(data, lo, hi) \in Seq(N)
                /\ Len(SubSeq(data, lo, hi)) = IF lo <= hi THEN hi - lo + 1 ELSE 0
                /\ \A j \in 1 .. hi - lo + 1 : SubSeq(data, lo, hi)[j] = data[lo + j - 1]
            BY <6>1, <6>2, SubSeqProperties
          <6> QED
            BY <6>3, Zenon DEF lo, hi, N
        <5>3. Len(b) = y
            BY <3>2, <3>4, <5>2
        <5>4. ASSUME NEW j \in 1 .. y PROVE b[j] = value[j]
          <6>1. j \in 1 .. ((i + 2 + x + y) - 1) - (i + 2 + x) + 1 /\ (i + 2 + x) + j - 1 = from + 2 + x + j
            BY <3>2, <3>4
          <6> QED
            BY <3>1, <5>2, <6>1
        <5> QED
            BY <3>3, <5>2, <5>3, <5>4, SeqEqual DEF y
      <4> QED
        BY <3>3, <4>1, <4>2, <4>3
    <3>10. Rest(k - 1) = {params[k]} \cup Rest(k)
      <4>1. (k - 1) + 1 .. n = {k} \cup (k + 1 .. n)
        BY <1>3
      <4> QED
        BY <4>1
    <3>11. g[off[k - 1] + 1] = Rest(k - 1)
        BY <3>7, <3>8, <3>9, <3>10 DEF from
    <3> QED
        BY <3>2, <3>11
  <2> HIDE DEF K
  <2>5. 0 .. n \subseteq K
    BY <1>3, <2>3, <2>4, InductDown
  <2>6. 0 \in K
    BY <1>3, <2>5
  <2>7. g[off[0] + 1] = Rest(0)
    BY <2>6 DEF K
  <2>8. Rest(0) = Pairs(params)
    BY <1>3 DEF Pairs
  <2>9. off[0] + 1 = 1
    BY <2>2
  <2> HIDE DEF Rest
  <2> QED
    BY <2>7, <2>8, <2>9
<1> HIDE DEF Rule
<1>11. Rule(CHOOSE g : Rule(g))
    BY <1>9
<1>12. (CHOOSE g : Rule(g))[1] = Pairs(params)
    BY <1>10, <1>11
<1> QED
    BY <1>4, <1>12 DEF data

-----------------------------------------------------------------------------
(* What the reader has ahead of it *)

\* What it holds and what it has still to read.
Ahead == Held \o inp

\* A read of n bytes: how far it has come, what it returned.
Call(n) == /\ rd.op # "skip"
           /\ rd.op \in {"refill", "direct"} => /\ Len(rd.head) + rd.want = n
                                                /\ Len(rd.got) < rd.want
           /\ rd.op = "direct" => rd.cap = rd.want
           /\ reads.done => /\ reads.n < 0 => Len(reads.data) < n
                            /\ reads.n <= Len(reads.data)
                            /\ reads.n >= n => Len(reads.data) = n

\* A skip returns no data.
SkipCall == /\ rd.op \in {"none", "skip"}
            /\ rd.op = "skip" => rd.cap <= rd.want
            /\ reads.done => reads.data = <<>>

\* Both are tokens.
LEMMA AheadFacts ==
    ASSUME Wire, Reader
    PROVE  Ahead \in Tokens /\ Len(Ahead) \in Nat /\ Held \in Tokens /\ Len(Held) \in Nat
           /\ Len(Ahead) = Len(Held) + Len(inp) /\ Len(inp) \in Nat
<1>1. /\ inp \in Tokens /\ rbuf \in Tokens /\ reads.data \in Tokens
      /\ rd.head \in Tokens /\ rd.got \in Tokens
    BY DEF Wire, Reader, ReadCall
<1>2. Held \in Tokens
    BY <1>1, JoinFacts DEF Held
<1> QED
    BY <1>1, <1>2, JoinFacts DEF Ahead

\* A read moves nothing.
LEMMA ReadAhead ==
    ASSUME Wire, Reader, NEW len \in Nat, ef_bio_read(len)
    PROVE  Ahead' = Ahead /\ Call(len)' /\ (rbuf = <<>> /\ len > 0 => rd'.head = <<>> /\ ~ reads'.done)
           /\ rd'.got = <<>> /\ (~ reads'.done => rbuf' = <<>>)
<1>1. rd = NoRead /\ ~ reads.done /\ reads = NoResult /\ Held = rbuf /\ inp' = inp
    BY HeldIdle DEF ef_bio_read, Reader, conn_vars
<1>2. rbuf \in Tokens /\ Len(rbuf) \in Nat
    BY JoinFacts DEF Reader
<1>3. CASE len <= Len(rbuf)
  <2>1. reads' = Result(len, Take(rbuf, len)) /\ rbuf' = Drop(rbuf, len) /\ rd' = NoRead
    BY <1>1, <1>3 DEF ef_bio_read
  <2>2. /\ Take(rbuf, len) \in Tokens /\ Len(Take(rbuf, len)) = len
        /\ Take(rbuf, len) \o Drop(rbuf, len) = rbuf
    BY <1>2, <1>3, CutFacts
  <2>3. reads'.done /\ reads'.n = len /\ reads'.data = Take(rbuf, len)
    BY <2>1, <2>2, ResultFacts
  <2>4. Held' = rbuf
    BY <2>1, <2>2, <2>3 DEF Held
  <2>5. Call(len)'
    BY <2>1, <2>2, <2>3, NothingFacts DEF Call
  <2>6. rbuf = <<>> => ~ (len > 0)
    BY <1>2, <1>3, EmptyFacts
  <2> QED
    BY <1>1, <2>1, <2>3, <2>4, <2>5, <2>6 DEF Ahead, NoRead
<1>4. CASE ~ (len <= Len(rbuf))
  <2> DEFINE need == len - Len(rbuf)
             long == need > BufSize \div 4
  <2>1. /\ rd' = [op |-> IF long THEN "direct" ELSE "refill", head |-> rbuf,
                  want |-> need, cap |-> IF long THEN need ELSE BufSize, got |-> <<>>]
        /\ rbuf' = <<>> /\ reads' = NoResult
    BY <1>1, <1>4 DEF ef_bio_read
  <2>2. need \in Int /\ need > 0 /\ Len(rbuf) + need = len
    BY <1>2, <1>4
  <2> HIDE DEF need, long
  <2>3. /\ rd'.op \in {"direct", "refill"} /\ rd'.head = rbuf /\ rd'.got = <<>> /\ rd'.want = need
        /\ rd'.op = "direct" => rd'.cap = need
    BY <2>1
  <2>4. Held' = rbuf
    BY <1>2, <2>1, <2>3, NothingFacts, JoinFacts, EmptyFacts DEF Held
  <2>5. Call(len)'
    BY <2>1, <2>2, <2>3, EmptyFacts, NothingFacts DEF Call
  <2> QED
    BY <1>1, <2>1, <2>3, <2>4, <2>5, NothingFacts DEF Ahead
<1> QED
    BY <1>2, <1>3, <1>4

\* How much is still to be skipped.
ToSkip == IF reads.done THEN 0 ELSE IF rd.op = "skip" THEN rd.want ELSE hdr[2].b

\* A skip passes what the buffer holds.
LEMMA SkipAhead ==
    ASSUME Wire, Reader, NEW len \in Nat, len = hdr[2].b, ef_bio_reader_skip(len)
    PROVE  /\ SkipCall' /\ (rbuf = <<>> /\ len > 0 => ~ reads'.done) /\ (~ reads'.done => rbuf' = <<>>)
           /\ ToSkip = len /\ rd'.head = <<>> /\ rd'.got = <<>>
           /\ \E n \in 0 .. Len(Ahead) : n <= len /\ ToSkip' = len - n /\ Ahead' = Drop(Ahead, n)
<1>1. rd = NoRead /\ ~ reads.done /\ reads = NoResult /\ Held = rbuf /\ inp' = inp
    BY HeldIdle DEF ef_bio_reader_skip, Reader, conn_vars
<1>2. rbuf \in Tokens /\ Len(rbuf) \in Nat /\ inp \in Tokens /\ Len(inp) \in Nat
    BY JoinFacts DEF Reader, Wire
<1>3. Ahead = rbuf \o inp /\ Ahead \in Tokens /\ Len(Ahead) = Len(rbuf) + Len(inp)
    BY <1>1, <1>2, JoinFacts DEF Ahead
<1>4. ToSkip = len
    BY <1>1, NothingFacts DEF ToSkip
<1>5. CASE len <= Len(rbuf)
  <2>1. reads' = Result(len, <<>>) /\ rbuf' = Drop(rbuf, len) /\ rd' = NoRead
    BY <1>1, <1>5 DEF ef_bio_reader_skip
  <2>2. /\ Take(rbuf, len) \in Tokens /\ Drop(rbuf, len) \in Tokens /\ Len(Take(rbuf, len)) = len
        /\ Take(rbuf, len) \o Drop(rbuf, len) = rbuf
    <3>1. rbuf \in Tokens
        BY <1>2
    <3>2. len \in 0 .. Len(rbuf)
        BY <1>2, <1>5
    <3> QED
        BY <3>1, <3>2, CutFacts
  <2>3. reads'.done /\ reads'.n = len /\ reads'.data = <<>>
    BY <2>1, EmptyFacts, ResultFacts
  <2>4. Held' = Drop(rbuf, len)
    BY <2>1, <2>2, <2>3, JoinFacts DEF Held
  <2>5. Ahead = Take(rbuf, len) \o (Drop(rbuf, len) \o inp)
    <3>1. Assoc(Take(rbuf, len), Drop(rbuf, len), inp)
        BY <1>2, <2>2, JoinAssoc
    <3> QED
        BY <1>3, <2>2, <3>1 DEF Assoc
  <2>6. Drop(rbuf, len) \o inp \in Tokens
    BY <1>2, <2>2, JoinFacts
  <2>7. Drop(Ahead, len) = Drop(rbuf, len) \o inp
    <3> DEFINE skipped == Take(rbuf, len)
               rest == Drop(rbuf, len) \o inp
    <3>1. skipped \in Tokens /\ rest \in Tokens /\ Ahead = skipped \o rest /\ Len(skipped) = len
        BY <2>2, <2>5, <2>6
    <3> HIDE DEF skipped, rest
    <3>2. Drop(skipped \o rest, Len(skipped)) = rest
        BY <3>1, CutJoin
    <3>3. Drop(Ahead, len) = rest
        BY <3>1, <3>2
    <3> QED
        BY <3>3 DEF rest
  <2>8. Ahead' = Drop(Ahead, len)
    BY <1>1, <2>4, <2>7 DEF Ahead
  <2>9. SkipCall' /\ ToSkip' = len - len /\ len \in 0 .. Len(Ahead)
    BY <1>2, <1>3, <1>5, <2>1, <2>3, NothingFacts DEF SkipCall, ToSkip, NoRead
  <2>10. rbuf = <<>> => ~ (len > 0)
    BY <1>2, <1>5, EmptyFacts
  <2> QED
    BY <1>4, <2>1, <2>3, <2>8, <2>9, <2>10 DEF NoRead
<1>6. CASE ~ (len <= Len(rbuf))
  <2> DEFINE remain == len - Len(rbuf)
  <2>1. /\ rd' = [op |-> "skip", head |-> <<>>, want |-> remain,
                  cap |-> Least(remain, BufSize), got |-> <<>>]
        /\ rbuf' = <<>> /\ reads' = NoResult
    BY <1>1, <1>6 DEF ef_bio_reader_skip
  <2>2. rd'.op = "skip" /\ rd'.head = <<>> /\ rd'.got = <<>> /\ rd'.want = remain
    BY <2>1
  <2>3. Held' = <<>>
    BY <2>1, <2>2, NothingFacts, JoinFacts, EmptyFacts DEF Held
  <2>4. Ahead' = inp
    BY <1>1, <1>2, <2>3, JoinFacts DEF Ahead
  <2>5. Drop(Ahead, Len(rbuf)) = inp
    BY <1>2, <1>3, CutJoin
  <2>a. rd'.cap <= remain
    <3> HIDE DEF remain
    <3>1. rd'.cap = Least(remain, BufSize) /\ remain \in Int
        BY <1>2, <2>1 DEF remain
    <3> QED
        BY <3>1, BufAssumption DEF Least
  <2>6. SkipCall' /\ ToSkip' = len - Len(rbuf) /\ ~ reads'.done
    BY <2>1, <2>2, <2>a, NothingFacts DEF SkipCall, ToSkip
  <2>7. Len(rbuf) \in 0 .. Len(Ahead) /\ Len(rbuf) <= len
    BY <1>2, <1>3, <1>6
  <2> QED
    BY <1>4, <2>1, <2>2, <2>4, <2>5, <2>6, <2>7
<1> QED
    BY <1>2, <1>5, <1>6

\* One turn of a read: nothing is lost unless the connection broke.
LEMMA TransferAhead ==
    ASSUME Wire, Reader, ef_safe_read, NEW n \in Nat, Call(n)
    PROVE  /\ Call(n)'
           /\ Ahead' = Ahead \/ \E m \in 0 .. Len(Ahead) : Ahead' = Take(Ahead, m)
<1>1. /\ rd.op \in {"refill", "direct"} /\ rbuf = <<>> /\ reads = NoResult
      /\ rd \in ReadCall /\ rd.head \in Tokens /\ rd.got \in Tokens /\ inp \in Tokens
      /\ rd.want \in Int /\ rd.want > 0
      /\ Len(rd.head) + rd.want = n /\ Len(rd.got) < rd.want /\ (rd.op = "direct" => rd.cap = rd.want)
      /\ rd.op = "refill" => rd.cap = BufSize
      /\ rd.cap \in Int
    BY DEF ef_safe_read, Receive, EndOfFile, ReadFails, Reader, Wire, ReadCall, Call
<1>2. Held = rd.head \o rd.got /\ Ahead = (rd.head \o rd.got) \o inp
    BY <1>1, HeldBusy DEF Ahead
<1>3. /\ rd.head \o rd.got \in Tokens /\ Len(rd.head) \in Nat /\ Len(rd.got) \in Nat /\ Len(inp) \in Nat
      /\ Len(rd.head \o rd.got) = Len(rd.head) + Len(rd.got)
  <2> DEFINE a == rd.head
             b == rd.got
  <2>1. a \in Tokens /\ b \in Tokens
    BY <1>1
  <2> HIDE DEF a, b
  <2>2. a \o b \in Tokens /\ Len(a) \in Nat /\ Len(b) \in Nat /\ Len(a \o b) = Len(a) + Len(b) /\ Len(inp) \in Nat
    BY <1>1, <2>1, JoinFacts
  <2> QED
    BY <2>2 DEF a, b
<1>4. ASSUME NEW got \in Tokens, ReadDone(got), Len(got) <= rd.cap, inp' \in Tokens,
             Len(got) >= rd.want \/ got = rd.got
      PROVE  Call(n)' /\ Ahead' = (rd.head \o got) \o inp'
  <2>1. Len(got) \in Nat
    BY JoinFacts
  <2>2. CASE rd.op = "direct"
    <3>1. reads' = Result(Len(got), rd.head \o got) /\ rd' = NoRead /\ rbuf' = <<>>
        BY <1>1, <1>4, <2>2 DEF ReadDone, Direct
    <3>2. rd.head \o got \in Tokens /\ Len(rd.head \o got) = Len(rd.head) + Len(got)
        BY <1>1, JoinFacts
    <3>3. reads'.done /\ reads'.n = Len(got) /\ reads'.data = rd.head \o got
      <4> DEFINE data == rd.head \o got
                 len == Len(got)
      <4>1. data \in Tokens /\ len \in Int /\ reads' = Result(len, data)
        BY <2>1, <3>1, <3>2
      <4> HIDE DEF data, len
      <4>2. reads'.done /\ reads'.n = len /\ reads'.data = data
        BY <4>1, ResultFacts
      <4> QED
        BY <4>2 DEF data, len
    <3>4. Held' = rd.head \o got
        BY <3>1, <3>2, <3>3, JoinFacts DEF Held
    <3>5. Len(got) <= rd.want /\ Len(reads'.data) = Len(rd.head) + Len(got)
        BY <1>1, <1>4, <2>2, <3>2, <3>3
    <3>6. reads'.n >= n => Len(reads'.data) = n
        BY <1>1, <1>3, <2>1, <3>3, <3>5
    <3>7. ~ (reads'.n < 0) /\ reads'.n <= Len(reads'.data)
        BY <1>3, <2>1, <3>3, <3>5
    <3> QED
        BY <3>1, <3>4, <3>6, <3>7, NothingFacts DEF Call, Ahead
  <2>3. CASE rd.op = "refill"
    <3> DEFINE m == Least(rd.want, Len(got))
    <3>1. /\ rbuf' = Drop(got, m) /\ reads' = Result(m, rd.head \o Take(got, m)) /\ rd' = NoRead
        BY <1>4, <2>3 DEF ReadDone, Refill
    <3>2. m \in 0 .. Len(got) /\ m <= rd.want /\ (m = rd.want \/ m = Len(got))
        BY <1>1, <2>1 DEF Least
    <3>3. m = rd.want \/ m < rd.want
        BY <1>1, <3>2
    <3> HIDE DEF m
    <3>4. /\ Take(got, m) \in Tokens /\ Drop(got, m) \in Tokens /\ Len(Take(got, m)) = m
          /\ Take(got, m) \o Drop(got, m) = got
        BY <3>2, CutFacts
    <3>5. rd.head \o Take(got, m) \in Tokens /\ Len(rd.head \o Take(got, m)) = Len(rd.head) + m
      <4> DEFINE a == rd.head
                 b == Take(got, m)
      <4>1. a \in Tokens /\ b \in Tokens
        BY <1>1, <3>4
      <4> HIDE DEF a, b
      <4>2. a \o b \in Tokens /\ Len(a \o b) = Len(a) + Len(b)
        BY <4>1, JoinFacts
      <4> QED
        BY <3>4, <4>2 DEF a, b
    <3>6. reads'.done /\ reads'.n = m /\ reads'.data = rd.head \o Take(got, m)
      <4> DEFINE data == rd.head \o Take(got, m)
      <4>1. data \in Tokens /\ m \in Int /\ reads' = Result(m, data)
        BY <3>1, <3>2, <3>5
      <4> HIDE DEF data
      <4>2. reads'.done /\ reads'.n = m /\ reads'.data = data
        BY <4>1, ResultFacts
      <4> QED
        BY <4>2 DEF data
    <3>7. Held' = (rd.head \o Take(got, m)) \o Drop(got, m)
        BY <3>1, <3>6 DEF Held
    <3>8. Held' = rd.head \o got
      <4>1. Assoc(rd.head, Take(got, m), Drop(got, m))
        BY <1>1, <3>4, JoinAssoc
      <4> QED
        BY <3>4, <3>7, <4>1 DEF Assoc
    <3>9. reads'.n >= n => Len(reads'.data) = n
      <4>1. Len(reads'.data) = Len(rd.head) + m
        BY <3>5, <3>6
      <4>2. reads'.n >= n => m = rd.want
        BY <1>1, <1>3, <3>2, <3>3, <3>6
      <4> QED
        BY <1>1, <4>1, <4>2
    <3>10. ~ (reads'.n < 0) /\ reads'.n <= Len(reads'.data)
      <4>1. Len(reads'.data) = Len(rd.head) + m
        BY <3>5, <3>6
      <4> QED
        BY <1>3, <2>1, <3>2, <3>6, <4>1
    <3> QED
        BY <3>1, <3>8, <3>9, <3>10, NothingFacts DEF Call, Ahead
  <2> QED
    BY <1>1, <2>2, <2>3
<1>5. ASSUME Receive PROVE Call(n)' /\ Ahead' = Ahead
  <2>1. PICK k \in 1 .. Least(rd.cap - Len(rd.got), Len(inp)) :
            LET got == rd.got \o Take(inp, k)
            IN  /\ inp' = Drop(inp, k)
                /\ IF rd.op = "skip" \/ Len(got) >= rd.want THEN ReadDone(got)
                   ELSE rd' = [rd EXCEPT !.got = got] /\ UNCHANGED <<rbuf, reads>>
    BY <1>5 DEF Receive
  <2> DEFINE part == Take(inp, k)
             got == rd.got \o part
  <2>2. k \in 0 .. Len(inp) /\ k <= rd.cap - Len(rd.got)
    BY <1>1, <1>3 DEF Least
  <2>3. /\ part \in Tokens /\ Len(part) = k /\ inp' = Drop(inp, k) /\ inp' \in Tokens /\ part \o inp' = inp
    <3>1. /\ Take(inp, k) \in Tokens /\ Len(Take(inp, k)) = k /\ Drop(inp, k) \in Tokens
          /\ Take(inp, k) \o Drop(inp, k) = inp
        BY <1>1, <2>2, CutFacts
    <3> QED
        BY <2>1, <3>1
  <2> HIDE DEF part
  <2>4. got \in Tokens /\ Len(got) <= rd.cap
    <3> DEFINE g == rd.got
    <3>1. g \in Tokens /\ part \in Tokens
        BY <1>1, <2>3
    <3> HIDE DEF g
    <3>2. g \o part \in Tokens /\ Len(g \o part) = Len(g) + Len(part)
        BY <3>1, JoinFacts
    <3> QED
        BY <1>1, <1>3, <2>2, <2>3, <3>2 DEF g
  <2>5. IF Len(got) >= rd.want THEN ReadDone(got)
        ELSE rd' = [rd EXCEPT !.got = got] /\ UNCHANGED <<rbuf, reads>>
    BY <1>1, <2>1 DEF part
  <2>6. (rd.head \o got) \o inp' = Ahead
    <3>1. Assoc(rd.head, rd.got \o part, inp')
        BY <1>1, <2>3, <2>4, JoinAssoc
    <3>2. Assoc(rd.got, part, inp')
        BY <1>1, <2>3, JoinAssoc
    <3>3. Assoc(rd.head, rd.got, inp)
        BY <1>1, JoinAssoc
    <3> QED
        BY <1>2, <2>3, <3>1, <3>2, <3>3 DEF Assoc
  <2> HIDE DEF got
  <2>7. CASE Len(got) >= rd.want
    BY <1>4, <2>3, <2>4, <2>5, <2>6, <2>7
  <2>8. CASE ~ (Len(got) >= rd.want)
    <3>1. rd' = [rd EXCEPT !.got = got] /\ rbuf' = <<>> /\ reads' = NoResult
        BY <1>1, <2>5, <2>8
    <3>2. /\ rd'.op = rd.op /\ rd'.head = rd.head /\ rd'.want = rd.want /\ rd'.cap = rd.cap /\ rd'.got = got
        BY <1>1, <3>1 DEF ReadCall
    <3>3. Held' = rd.head \o got
        BY <1>1, <2>4, <3>1, <3>2, NothingFacts, JoinFacts DEF Held
    <3>4. Len(got) < rd.want
      <4>1. Len(got) \in Nat
        BY <2>4, JoinFacts
      <4> DEFINE len == Len(got)
                 want == rd.want
      <4>2. len \in Nat /\ want \in Int /\ ~ (len >= want)
        BY <1>1, <2>8, <4>1
      <4> HIDE DEF len, want
      <4>3. len < want
        BY <4>2
      <4> QED
        BY <4>3 DEF len, want
    <3> QED
        BY <1>1, <2>6, <3>1, <3>2, <3>3, <3>4, NothingFacts DEF Call, Ahead
  <2> QED
    BY <2>7, <2>8
<1>6. ASSUME EndOfFile PROVE Call(n)' /\ Ahead' = Ahead
  <2>1. inp' = inp /\ ReadDone(rd.got) /\ Len(rd.got) <= rd.cap
    BY <1>1, <1>6 DEF EndOfFile, conn_vars, Reader
  <2> QED
    BY <1>1, <1>2, <1>4, <2>1
<1>7. ASSUME ReadFails PROVE Call(n)' /\ \E m \in 0 .. Len(Ahead) : Ahead' = Take(Ahead, m)
  <2> DEFINE data == IF rd.op = "direct" THEN rd.head \o rd.got ELSE rd.head
             all == rd.head \o rd.got
  <2>1. /\ peer = "reset" /\ reads' = Result(-1, data) /\ rd' = NoRead /\ rbuf' = <<>> /\ inp' = inp /\ inp = <<>>
    BY <1>1, <1>7 DEF ReadFails, conn_vars, Wire
  <2> DEFINE long == Len(rd.head)
             more == Len(rd.got)
             want == rd.want
  <2>a. all \in Tokens /\ Len(all) = long + more /\ long \in Nat /\ more \in Nat /\ want \in Int
        /\ long + want = n /\ more < want
    BY <1>1, <1>3
  <2>b. data = all \/ (data = rd.head /\ Len(data) = long)
    OBVIOUS
  <2>c. Take(all, Len(all)) = all /\ Take(all, long) = rd.head
    <3>1. Take(all, Len(all)) = all
        BY <2>a, SubSeqFull DEF Take, Tokens
    <3>2. Take(all, long) = rd.head
        BY <1>1, CutJoin
    <3> QED
        BY <3>1, <3>2
  <2>d. rd.head \in Tokens
    BY <1>1
  <2>2. data \in Tokens /\ Len(data) < n /\ Len(data) \in 0 .. Len(all) /\ Take(all, Len(data)) = data
    <3> HIDE DEF data, all, long, more, want
    <3>1. CASE data = all
      <4>1. Len(data) = long + more
        BY <2>a, <3>1
      <4> QED
        BY <2>a, <2>c, <3>1, <4>1
    <3>2. CASE data = rd.head /\ Len(data) = long
        BY <2>a, <2>c, <2>d, <3>2
    <3> QED
        BY <2>b, <3>1, <3>2
  <2>3. Ahead = all
    BY <1>2, <1>3, <2>1, JoinFacts
  <2> HIDE DEF data, all
  <2>4. reads'.done /\ reads'.n = -1 /\ reads'.data = data
    BY <2>1, <2>2, ResultFacts
  <2>5. Held' = data /\ Ahead' = data
    BY <2>1, <2>2, <2>4, JoinFacts DEF Held, Ahead
  <2>6. Call(n)'
    <3>1. -1 <= Len(data)
        BY <2>2, JoinFacts
    <3> QED
        BY <2>1, <2>2, <2>4, <3>1, NothingFacts DEF Call
  <2> QED
    BY <2>2, <2>3, <2>5, <2>6
<1> QED
    BY <1>5, <1>6, <1>7 DEF ef_safe_read

\* One turn of a skip.
LEMMA SkipTransferAhead ==
    ASSUME Wire, Reader, SkipCall, ef_safe_read, hdr' = hdr
    PROVE  /\ SkipCall' /\ ToSkip \in Nat
           /\ \E n \in 0 .. Len(Ahead) : /\ n <= ToSkip /\ Ahead' = Drop(Ahead, n)
                                         /\ ToSkip' = ToSkip - n \/ (Ahead' = <<>> /\ ToSkip' = 0)
<1>1. /\ rbuf = <<>> /\ reads = NoResult /\ rd.head = <<>> /\ rd.got = <<>>
      /\ rd \in ReadCall /\ inp \in Tokens /\ rd.want \in Int /\ rd.want > 0 /\ rd.cap \in Int
      /\ Len(inp) \in Nat /\ rd.op = "skip" /\ rd.cap <= rd.want
    BY JoinFacts DEF Reader, Wire, ReadCall, SkipCall, ef_safe_read, Receive, EndOfFile, ReadFails
<1>2. Ahead = inp /\ ToSkip = rd.want
    BY <1>1, NothingFacts, JoinFacts, EmptyFacts DEF Held, Ahead, ToSkip
<1>a. Drop(inp, 0) = inp
  <2>1. Drop(<<>> \o inp, Len(<<>>)) = inp
    BY <1>1, CutJoin, EmptyFacts
  <2> QED
    BY <1>1, <2>1, EmptyFacts, JoinFacts
<1>3. ASSUME NEW got \in Tokens, Skipped(got), inp' \in Tokens, Len(got) <= rd.want
      PROVE  SkipCall' /\ ToSkip' = rd.want - Len(got) /\ Ahead' = inp'
  <2> DEFINE remain == rd.want - Len(got)
  <2>1. remain \in Nat /\ Len(got) \in Nat
    <3>1. Len(got) \in Nat
        BY <1>3, JoinFacts
    <3> DEFINE len == Len(got)
               want == rd.want
    <3>2. len \in Nat /\ want \in Int /\ len <= want
        BY <1>1, <1>3, <3>1
    <3> HIDE DEF len, want
    <3>3. want - len \in Nat
        BY <3>2
    <3> QED
        BY <3>1, <3>3 DEF len, want
  <2>2. CASE remain > 0
    <3>1. /\ rd' = [rd EXCEPT !.want = remain, !.cap = Least(remain, BufSize)]
          /\ reads' = NoResult /\ rbuf' = <<>>
        BY <1>1, <1>3, <2>2 DEF Skipped
    <3> HIDE DEF remain
    <3> DEFINE room == Least(remain, BufSize)
    <3>a. room <= remain
        BY <2>1, BufAssumption DEF Least
    <3> HIDE DEF room
    <3>2. rd'.op = "skip" /\ rd'.head = <<>> /\ rd'.got = <<>> /\ rd'.want = remain
          /\ rd'.cap <= remain
      <4>1. rd' = [rd EXCEPT !.want = remain, !.cap = room]
        BY <3>1 DEF room
      <4> DEFINE c == rd
                 d == rd'
      <4>2. c \in ReadCall /\ d = [c EXCEPT !.want = remain, !.cap = room]
        BY <1>1, <4>1
      <4> HIDE DEF c, d
      <4>3. d.op = c.op /\ d.head = c.head /\ d.got = c.got /\ d.want = remain /\ d.cap = room
        BY <4>2 DEF ReadCall
      <4> QED
        BY <1>1, <3>a, <4>3 DEF c, d
    <3>3. Held' = <<>>
        BY <3>1, <3>2, EmptyFacts, JoinFacts, NothingFacts DEF Held
    <3>4. SkipCall' /\ ToSkip' = remain /\ Ahead' = inp'
        BY <1>3, <3>1, <3>2, <3>3, NothingFacts, JoinFacts DEF SkipCall, ToSkip, Ahead
    <3> QED
        BY <3>4 DEF remain
  <2>3. CASE ~ (remain > 0)
    <3>1. rd' = NoRead /\ reads' = Result(0, <<>>) /\ rbuf' = <<>>
        BY <1>1, <1>3, <2>3 DEF Skipped
    <3>2. /\ reads'.done /\ reads'.data = <<>>
        BY <3>1, EmptyFacts, ResultFacts
    <3>3. Held' = <<>>
        BY <3>1, <3>2, EmptyFacts, JoinFacts DEF Held
    <3>4. SkipCall' /\ ToSkip' = 0 /\ Ahead' = inp'
        BY <1>3, <3>1, <3>2, <3>3, NothingFacts, JoinFacts DEF SkipCall, ToSkip, Ahead
    <3> QED
        BY <2>1, <2>3, <3>4
  <2> QED
    BY <2>2, <2>3
<1>4. CASE Receive
  <2>1. PICK k \in 1 .. Least(rd.cap - Len(rd.got), Len(inp)) :
            inp' = Drop(inp, k) /\ ReadDone(rd.got \o Take(inp, k))
    BY <1>1, <1>4 DEF Receive
  <2> DEFINE part == Take(inp, k)
  <2>2. k \in 0 .. Len(inp)
    BY <1>1, EmptyFacts DEF Least
  <2>3. part \in Tokens /\ Len(part) = k /\ inp' \in Tokens
    BY <1>1, <2>1, <2>2, CutFacts
  <2>4. <<>> \o part = part
    BY <2>3, JoinFacts
  <2>5. Skipped(part)
    BY <1>1, <2>1, <2>4 DEF ReadDone
  <2>6. k <= rd.want
    BY <1>1, <2>1, EmptyFacts DEF Least
  <2> HIDE DEF part
  <2>7. SkipCall' /\ ToSkip' = rd.want - k /\ Ahead' = inp'
    BY <1>3, <2>3, <2>5, <2>6
  <2> QED
    BY <1>1, <1>2, <2>1, <2>2, <2>6, <2>7
<1>5. CASE EndOfFile
  <2>1. inp' = inp /\ Skipped(<<>>)
    BY <1>1, <1>5 DEF EndOfFile, conn_vars, ReadDone
  <2>2. SkipCall' /\ ToSkip' = rd.want - 0 /\ Ahead' = inp
    BY <1>1, <1>3, <2>1, EmptyFacts
  <2> QED
    BY <1>1, <1>2, <1>a, <2>2
<1>6. CASE ReadFails
  <2>1. /\ reads' = Result(-1, <<>>) /\ rd' = NoRead /\ rbuf' = <<>> /\ inp' = inp /\ inp = <<>>
    BY <1>1, <1>6 DEF ReadFails, conn_vars, Wire
  <2>2. reads'.done /\ reads'.data = <<>>
    BY <2>1, EmptyFacts, ResultFacts
  <2>3. Held' = <<>>
    BY <2>1, <2>2, EmptyFacts, JoinFacts DEF Held
  <2>4. SkipCall' /\ ToSkip' = 0 /\ Ahead' = <<>>
    BY <2>1, <2>2, <2>3, NothingFacts, EmptyFacts, JoinFacts DEF SkipCall, ToSkip, Ahead
  <2> QED
    BY <1>1, <1>2, <1>a, <2>1, <2>4
<1> QED
    BY <1>4, <1>5, <1>6 DEF ef_safe_read

-----------------------------------------------------------------------------
(* Where in a request the reader is *)

\* What was cut off, place by place.
LEMMA DropPlaces ==
    ASSUME NEW x \in Tokens, NEW n \in 0 .. Len(x)
    PROVE  /\ Drop(x, n) \in Tokens /\ Len(Drop(x, n)) = Len(x) - n
           /\ \A i \in 1 .. Len(x) - n : Drop(x, n)[i] = x[n + i]
<1> DEFINE a == Take(x, n)
           b == Drop(x, n)
<1>1. a \in Tokens /\ b \in Tokens /\ Len(a) = n /\ Len(b) = Len(x) - n /\ a \o b = x
    BY CutFacts
<1> HIDE DEF a, b
<1>2. \A i \in 1 .. Len(b) : (a \o b)[Len(a) + i] = b[i]
    BY <1>1, JoinPlaces
<1> QED
    BY <1>1, <1>2 DEF b

\* What was cut off behind, place by place.
LEMMA TakePlaces ==
    ASSUME NEW x \in Tokens, NEW n \in 0 .. Len(x)
    PROVE  /\ Take(x, n) \in Tokens /\ Len(Take(x, n)) = n
           /\ \A i \in 1 .. n : Take(x, n)[i] = x[i]
<1> DEFINE a == Take(x, n)
           b == Drop(x, n)
<1>1. a \in Tokens /\ b \in Tokens /\ Len(a) = n /\ a \o b = x
    BY CutFacts
<1> HIDE DEF a, b
<1>2. \A i \in 1 .. Len(a) : (a \o b)[i] = a[i]
    BY <1>1, JoinPlaces
<1> QED
    BY <1>1, <1>2 DEF a

\* x is what stands in f after its first p tokens, as far as it goes.
Follows(x, f, p) == p + Len(x) <= Len(f) /\ \A i \in 1 .. Len(x) : x[i] = f[p + i]

\* No request begins in x.
Clean(x) == \A i \in 1 .. Len(x) : x[i] # Type(FCGI_BEGIN_REQUEST)

\* In x, after tokens with which no request begins, comes the request f.
Fresh(x, f) == \E q \in 0 .. Len(x) : /\ \A i \in 1 .. q : x[i] # Type(FCGI_BEGIN_REQUEST)
                                      /\ Len(x) - q <= Len(f)
                                      /\ \A i \in 1 .. Len(x) - q : x[q + i] = f[i]

\* The reader has gone on by n tokens.
LEMMA FollowsOn ==
    ASSUME NEW x \in Tokens, NEW f \in Tokens, NEW p \in Nat, Follows(x, f, p), NEW n \in 0 .. Len(x)
    PROVE  Follows(Drop(x, n), f, p + n)
<1>1. Len(x) \in Nat /\ Len(f) \in Nat
    BY JoinFacts
<1>2. /\ Len(Drop(x, n)) = Len(x) - n
      /\ \A i \in 1 .. Len(x) - n : Drop(x, n)[i] = x[n + i]
    BY DropPlaces
<1> DEFINE y == Drop(x, n)
<1> HIDE DEF y
<1>3. Len(y) = Len(x) - n /\ \A i \in 1 .. Len(x) - n : y[i] = x[n + i]
    BY <1>2 DEF y
<1>4. (p + n) + Len(y) <= Len(f)
    BY <1>1, <1>3 DEF Follows
<1>5. ASSUME NEW i \in 1 .. Len(y) PROVE y[i] = f[(p + n) + i]
  <2>1. n + i \in 1 .. Len(x) /\ p + (n + i) = (p + n) + i
    BY <1>1, <1>3
  <2>2. x[n + i] = f[p + (n + i)]
    BY <2>1 DEF Follows
  <2> QED
    BY <1>3, <2>1, <2>2
<1> QED
    BY <1>4, <1>5 DEF Follows, y

\* Of what follows only a beginning arrives.
LEMMA FollowsLess ==
    ASSUME NEW x \in Tokens, NEW f \in Tokens, NEW p \in Nat, Follows(x, f, p), NEW n \in 0 .. Len(x)
    PROVE  Follows(Take(x, n), f, p)
<1>1. Len(x) \in Nat /\ Len(f) \in Nat
    BY JoinFacts
<1> DEFINE y == Take(x, n)
<1>2. Len(y) = n /\ \A i \in 1 .. n : y[i] = x[i]
    BY TakePlaces
<1> HIDE DEF y
<1>3. p + Len(y) <= Len(f)
    BY <1>1, <1>2 DEF Follows
<1>4. ASSUME NEW i \in 1 .. Len(y) PROVE y[i] = f[p + i]
  <2>1. i \in 1 .. Len(x)
    BY <1>1, <1>2
  <2> QED
    BY <1>2, <2>1 DEF Follows
<1> QED
    BY <1>3, <1>4 DEF Follows, y

\* Parts of what is clean are clean.
LEMMA CleanParts ==
    ASSUME NEW x \in Tokens, Clean(x), NEW n \in 0 .. Len(x)
    PROVE  Clean(Take(x, n)) /\ Clean(Drop(x, n))
<1> DEFINE y == Take(x, n)
           z == Drop(x, n)
<1>1. Len(y) = n /\ \A i \in 1 .. n : y[i] = x[i]
    BY TakePlaces
<1>2. Len(z) = Len(x) - n /\ \A i \in 1 .. Len(x) - n : z[i] = x[n + i]
    BY DropPlaces
<1>3. Len(x) \in Nat
    BY JoinFacts
<1> HIDE DEF y, z
<1>4. Clean(y)
    BY <1>1, <1>3 DEF Clean
<1>5. ASSUME NEW i \in 1 .. Len(z) PROVE z[i] # Type(FCGI_BEGIN_REQUEST)
  <2>1. n + i \in 1 .. Len(x)
    BY <1>2, <1>3
  <2> QED
    BY <1>2, <2>1 DEF Clean
<1> QED
    BY <1>4, <1>5 DEF Clean, y, z

\* What follows the begin of a request is clean.
LEMMA FollowsClean ==
    ASSUME NEW x \in Tokens, NEW f \in Tokens, NEW p \in Nat, p >= 1, Follows(x, f, p),
           \A i \in 2 .. Len(f) : f[i] # Type(FCGI_BEGIN_REQUEST)
    PROVE  Clean(x)
<1>1. Len(x) \in Nat /\ Len(f) \in Nat
    BY JoinFacts
<1>2. ASSUME NEW i \in 1 .. Len(x) PROVE x[i] # Type(FCGI_BEGIN_REQUEST)
  <2>1. p + i \in 2 .. Len(f)
    BY <1>1 DEF Follows
  <2> QED
    BY <2>1 DEF Follows
<1> QED
    BY <1>2 DEF Clean

\* The end of what is to be read is cut off.
LEMMA FreshLess ==
    ASSUME NEW x \in Tokens, NEW f \in Tokens, Fresh(x, f), NEW n \in 0 .. Len(x)
    PROVE  Fresh(Take(x, n), f)
<1>1. Len(x) \in Nat /\ Len(f) \in Nat
    BY JoinFacts
<1> DEFINE y == Take(x, n)
<1>2. Len(y) = n /\ \A i \in 1 .. n : y[i] = x[i]
    BY TakePlaces
<1> HIDE DEF y
<1>3. PICK q \in 0 .. Len(x) : /\ \A i \in 1 .. q : x[i] # Type(FCGI_BEGIN_REQUEST)
                               /\ Len(x) - q <= Len(f)
                               /\ \A i \in 1 .. Len(x) - q : x[q + i] = f[i]
    BY DEF Fresh
<1>4. CASE q <= n
  <2>1. q \in 0 .. Len(y) /\ Len(y) - q <= Len(f)
    BY <1>1, <1>2, <1>3, <1>4
  <2>2. \A i \in 1 .. q : y[i] # Type(FCGI_BEGIN_REQUEST)
    BY <1>2, <1>3, <1>4
  <2>3. ASSUME NEW i \in 1 .. Len(y) - q PROVE y[q + i] = f[i]
    <3>1. q + i \in 1 .. n /\ i \in 1 .. Len(x) - q
        BY <1>1, <1>2, <1>4
    <3> QED
        BY <1>2, <1>3, <3>1
  <2> QED
    BY <2>1, <2>2, <2>3 DEF Fresh, y
<1>5. CASE ~ (q <= n)
  <2>1. n \in 0 .. Len(y) /\ Len(y) - n = 0
    BY <1>2
  <2>2. \A i \in 1 .. n : y[i] # Type(FCGI_BEGIN_REQUEST)
    BY <1>2, <1>3, <1>5
  <2>3. Len(y) - n <= Len(f) /\ \A i \in 1 .. Len(y) - n : y[n + i] = f[i]
    BY <1>1, <2>1
  <2> QED
    BY <2>1, <2>2, <2>3 DEF Fresh, y
<1> QED
    BY <1>4, <1>5

\* The request begins where the first token is that of a begin record.
LEMMA FreshBegins ==
    ASSUME NEW x \in Tokens, NEW f \in Tokens, Fresh(x, f), Len(x) > 0, x[1] = Type(FCGI_BEGIN_REQUEST)
    PROVE  Follows(x, f, 0)
<1>1. Len(x) \in Nat /\ Len(f) \in Nat
    BY JoinFacts
<1>2. PICK q \in 0 .. Len(x) : /\ \A i \in 1 .. q : x[i] # Type(FCGI_BEGIN_REQUEST)
                               /\ Len(x) - q <= Len(f)
                               /\ \A i \in 1 .. Len(x) - q : x[q + i] = f[i]
    BY DEF Fresh
<1>3. q = 0
    BY <1>1, <1>2
<1> QED
    BY <1>1, <1>2, <1>3 DEF Follows

\* The request is sent after what is left of others.
LEMMA FreshSent ==
    ASSUME NEW x \in Tokens, NEW f \in Tokens, Clean(x)
    PROVE  Fresh(x \o f, f)
<1> DEFINE y == x \o f
<1>1. /\ Len(x) \in Nat /\ Len(f) \in Nat /\ Len(y) = Len(x) + Len(f)
      /\ \A i \in 1 .. Len(x) : y[i] = x[i]
      /\ \A i \in 1 .. Len(f) : y[Len(x) + i] = f[i]
    BY JoinPlaces
<1> HIDE DEF y
<1> DEFINE q == Len(x)
<1>2. q \in 0 .. Len(y) /\ Len(y) - q = Len(f)
    BY <1>1
<1>3. \A i \in 1 .. q : y[i] # Type(FCGI_BEGIN_REQUEST)
    BY <1>1 DEF Clean
<1>4. /\ Len(y) - q <= Len(f)
      /\ \A i \in 1 .. Len(y) - q : y[q + i] = f[i]
    BY <1>1, <1>2
<1> HIDE DEF q
<1> QED
    BY <1>2, <1>3, <1>4 DEF Fresh, y

\* A result that is taken is the front of what was ahead.
LEMMA GotAhead ==
    ASSUME Wire, Reader, NEW place, Got(place)
    PROVE  /\ Ahead' = Drop(Ahead, Len(reads.data)) /\ Ahead' = rbuf \o inp
           /\ Len(reads.data) \in 0 .. Len(Ahead)
           /\ \A i \in 1 .. Len(reads.data) : reads.data[i] = Ahead[i]
           /\ rd' = NoRead /\ ~ reads'.done /\ rbuf' = rbuf /\ inp' = inp /\ peer' = peer
           /\ reads.n < 0 => peer = "reset" /\ rbuf = <<>> /\ inp = <<>>
<1>1. /\ reads.done /\ reads' = NoResult
      /\ UNCHANGED <<peer, inp, outp, rbuf, rd>>
    BY DEF Got, conn_vars
<1>2. rd = NoRead
    BY <1>1, NothingFacts DEF Reader
<1>3. rbuf \in Tokens /\ inp \in Tokens /\ reads.data \in Tokens
    BY DEF Reader, Wire
<1>4. Held' = rbuf
    BY <1>1, <1>2, <1>3, NothingFacts, JoinFacts, EmptyFacts DEF Held, NoRead
<1> DEFINE data == reads.data
           rest == rbuf \o inp
<1>5. data \in Tokens /\ rest \in Tokens
    BY <1>3, JoinFacts
<1>6. Ahead = data \o rest
  <2>1. Assoc(data, rbuf, inp)
    BY <1>3, JoinAssoc
  <2> QED
    BY <1>1, <2>1 DEF Ahead, Held, Assoc
<1>7. Ahead' = rest
    BY <1>1, <1>4 DEF Ahead
<1> HIDE DEF data, rest
<1>8. Drop(data \o rest, Len(data)) = rest
    BY <1>5, CutJoin
<1>9. /\ Len(data) \in Nat /\ Len(rest) \in Nat /\ Len(data \o rest) = Len(data) + Len(rest)
      /\ \A i \in 1 .. Len(data) : (data \o rest)[i] = data[i]
    BY <1>5, JoinPlaces
<1>10. Ahead' = Drop(Ahead, Len(data)) /\ Len(data) \in 0 .. Len(Ahead)
       /\ \A i \in 1 .. Len(data) : data[i] = Ahead[i]
    BY <1>6, <1>7, <1>8, <1>9
<1>11. reads.n < 0 => peer = "reset" /\ rbuf = <<>> /\ inp = <<>>
    BY DEF Reader, Wire
<1> QED
    BY <1>1, <1>2, <1>7, <1>10, <1>11, NothingFacts DEF data, rest

\* A header of which two tokens arrived, and one of which none or one did.
LEMMA OverlayIs ==
    ASSUME Reader, NEW old \in [1 .. 2 -> Token]
    PROVE  /\ Len(reads.data) = 0 => Overlay(old) = old
           /\ Len(reads.data) = 1 => Overlay(old)[1] = reads.data[1] /\ Overlay(old)[2] = old[2]
           /\ Len(reads.data) = 2 => Overlay(old)[1] = reads.data[1] /\ Overlay(old)[2] = reads.data[2]
<1> DEFINE data == reads.data
<1>1. data \in Tokens /\ Len(data) \in Nat
    BY JoinFacts DEF Reader
<1>2. Overlay(old) = [i \in 1 .. 2 |-> IF i <= Len(data) THEN data[i] ELSE old[i]]
    BY DEF Overlay
<1>3. old = [i \in 1 .. 2 |-> old[i]]
    OBVIOUS
<1> HIDE DEF data
<1>4. ASSUME Len(data) = 0 PROVE Overlay(old) = old
  <2>1. \A i \in 1 .. 2 : ~ (i <= Len(data))
    BY <1>4
  <2>2. [i \in 1 .. 2 |-> IF i <= Len(data) THEN data[i] ELSE old[i]] = [i \in 1 .. 2 |-> old[i]]
    BY <2>1
  <2> QED
    BY <1>2, <1>3, <2>2
<1>5. Len(data) = 1 => Overlay(old)[1] = data[1] /\ Overlay(old)[2] = old[2]
    BY <1>2
<1>6. Len(data) = 2 => Overlay(old)[1] = data[1] /\ Overlay(old)[2] = data[2]
    BY <1>2
<1> QED
    BY <1>4, <1>5, <1>6 DEF data

\* The server's request, its bytes, where its records lie, how many they are.
Whole == RequestBytes(sent)
Off   == CHOOSE off : LaidOut(sent, off)
Pieces  == Len(sent.ends)
Sent  == Encoded(sent.params)

\* How much of the parameters record k brings.
Size0(k) == sent.ends[k] - End(sent.ends, k - 1)

\* What is known of the request that is on its way.
LEMMA SentFacts ==
    ASSUME sent \in Requests
    PROVE  /\ Whole \in Tokens /\ Len(Whole) \in Nat /\ Len(Whole) > 4
           /\ Whole[1] = Type(FCGI_BEGIN_REQUEST) /\ Whole[2] = Size(2, 0)
           /\ Whole[4] = Byte(IF sent.keep THEN 1 ELSE 0)
           /\ \A i \in 2 .. Len(Whole) : Whole[i] # Type(FCGI_BEGIN_REQUEST)
           /\ Pieces \in Nat /\ \A k \in 0 .. Pieces : Off[k] \in Nat /\ Off[k] + 2 <= Len(Whole)
           /\ Off[0] = 4
           /\ Whole[Off[Pieces] + 1] = Type(FCGI_PARAMS) /\ Whole[Off[Pieces] + 2] = Size(0, 0)
           /\ Sent \in Seq(Nat) /\ sent.params \in Seq(Seq(Nat) \X Seq(Nat)) /\ sent.keep \in BOOLEAN
           /\ sent.ends \in Seq(Nat) /\ Cut(Len(Sent), sent.ends)
<1> DEFINE all == Whole
           off == Off
           n == Pieces
<1>1. /\ sent.keep \in BOOLEAN /\ sent.params \in Seq(Seq(Nat) \X Seq(Nat)) /\ sent.ends \in Seq(Nat)
      /\ Cut(Len(Sent), sent.ends)
    BY RequestAssumption DEF Sent
<1>2. Sent \in Seq(Nat) /\ n \in Nat
    BY <1>1, EncodedFacts, LenProperties DEF Sent, Pieces
<1>3. all \in Tokens /\ Len(all) \in Nat /\ LaidOut(sent, off)
  <2>1. RequestBytes(sent) \in Tokens /\ \E o : LaidOut(sent, o)
    BY RequestLayout
  <2> QED
    BY <2>1, JoinFacts DEF Whole, Off
<1>4. /\ Len(all) > 4 /\ all[1] = Type(FCGI_BEGIN_REQUEST) /\ all[2] = Size(2, 0)
      /\ all[4] = Byte(IF sent.keep THEN 1 ELSE 0)
      /\ \A i \in 2 .. Len(all) : all[i] # Type(FCGI_BEGIN_REQUEST)
      /\ Layout(all, FCGI_PARAMS, Bytes(Sent), sent.ends, 4, off)
    BY <1>3 DEF LaidOut, Whole, Sent
<1>5. /\ off \in [0 .. n -> Nat] /\ off[0] = 4 /\ off[n] + 2 <= Len(all)
      /\ \A k \in 0 .. n : off[k] <= off[n]
      /\ all[off[n] + 1] = Type(FCGI_PARAMS) /\ all[off[n] + 2] = Size(0, 0)
    BY <1>4 DEF Layout, Pieces
<1> HIDE DEF all, off, n
<1>6. ASSUME NEW k \in 0 .. n PROVE off[k] \in Nat /\ off[k] + 2 <= Len(all)
  <2>1. off[k] \in Nat /\ off[n] \in Nat /\ off[k] <= off[n]
    BY <1>2, <1>5
  <2> QED
    BY <1>3, <1>5, <2>1
<1> QED
    BY <1>1, <1>2, <1>3, <1>4, <1>5, <1>6 DEF all, off, n

\* A record of the parameters.
LEMMA SentRecord ==
    ASSUME sent \in Requests, NEW k \in 1 .. Pieces
    PROVE  /\ Size0(k) \in Nat /\ Size0(k) > 0 /\ Padding(Size0(k)) \in 0 .. 1
           /\ Off[k] = Off[k - 1] + 2 + Size0(k) + Padding(Size0(k))
           /\ Whole[Off[k - 1] + 1] = Type(FCGI_PARAMS)
           /\ Whole[Off[k - 1] + 2] = Size(Size0(k), Padding(Size0(k)))
           /\ \A j \in 1 .. Size0(k) : Whole[Off[k - 1] + 2 + j] = Byte(Sent[End(sent.ends, k - 1) + j])
           /\ End(sent.ends, k - 1) \in Nat /\ sent.ends[k] \in Nat /\ sent.ends[k] <= Len(Sent)
           /\ sent.ends[k] = End(sent.ends, k - 1) + Size0(k) /\ End(sent.ends, k) = sent.ends[k]
<1>1. /\ sent.ends \in Seq(Nat) /\ Cut(Len(Sent), sent.ends) /\ Sent \in Seq(Nat) /\ Pieces \in Nat
    BY SentFacts
<1> DEFINE e == sent.ends
           before == End(e, k - 1)
           len == Size0(k)
<1>2. DOMAIN e = 1 .. Pieces /\ k \in 1 .. Pieces /\ Len(Sent) \in Nat
    BY <1>1, LenProperties DEF Pieces
<1>3. e[k] \in 1 .. Len(Sent)
    BY <1>1, <1>2 DEF Cut
<1>4. before \in Nat /\ before < e[k]
  <2>1. CASE k = 1
    BY <1>3, <2>1 DEF End
  <2>2. CASE k # 1
    <3>1. k \in 2 .. Pieces /\ k - 1 \in 1 .. Pieces /\ k - 1 # 0
        BY <1>1, <2>2
    <3>2. e[k - 1] < e[k] /\ e[k - 1] \in 1 .. Len(Sent)
        BY <1>1, <1>2, <3>1 DEF Cut, Pieces
    <3> QED
        BY <3>1, <3>2 DEF End
  <2> QED
    BY <2>1, <2>2
<1>5. len = e[k] - before
    BY DEF Size0
<1>6. Off[k] = Off[k - 1] + 2 + len + Padding(len)
      /\ Whole[Off[k - 1] + 1] = Type(FCGI_PARAMS)
      /\ Whole[Off[k - 1] + 2] = Size(len, Padding(len))
      /\ \A j \in 1 .. len : Whole[Off[k - 1] + 2 + j] = Bytes(Sent)[before + j]
  <2>1. LaidOut(sent, Off)
    BY RequestLayout DEF Off
  <2>2. Layout(Whole, FCGI_PARAMS, Bytes(Sent), e, 4, Off)
    BY <2>1 DEF LaidOut, Whole, Sent
  <2> QED
    BY <2>2 DEF Layout, Pieces, Size0
<1> HIDE DEF e, before, len
<1>7. len \in Nat /\ len > 0 /\ e[k] = before + len
    BY <1>3, <1>4, <1>5
<1>8. ASSUME NEW j \in 1 .. len PROVE Bytes(Sent)[before + j] = Byte(Sent[before + j])
  <2>1. before + j \in 1 .. Len(Sent)
    BY <1>2, <1>3, <1>4, <1>7
  <2> QED
    BY <1>1, <2>1, BytesFacts
<1>9. End(e, k) = e[k]
    BY <1>2 DEF End
<1>10. Padding(len) \in 0 .. 1
    BY <1>7, PaddingFacts
<1> QED
    BY <1>2, <1>3, <1>4, <1>6, <1>7, <1>8, <1>9, <1>10 DEF e, before, len

-----------------------------------------------------------------------------
(* The inductive invariant: the request *)

\* What is ahead of the reader is what the server's request holds after its
\* first p bytes.
Expect(p) == Follows(Ahead, Whole, p)

\* x holds the server's request, if there is one, from its first byte on.
Waiting(x) == IF answered THEN Clean(x) ELSE Fresh(x, Whole)

\* The buffer holds the parameters in the first k records.
Buffered(k) == buffer = Bytes(SubSeq(Sent, 1, End(sent.ends, k)))

\* The request begun, and complete.
Begun    == /\ ~ answered /\ request.got = "some" /\ request.keep = sent.keep
            /\ request.params = {}
Complete == /\ ~ answered /\ request.got = "some" /\ request.keep = sent.keep
            /\ request.params = Pairs(sent.params)

\* Where the reader is in the server's request at each place.
AtBegin   == Waiting(Ahead) /\ ~ alloc /\ buffer = <<>>
AtBody    == /\ ~ answered /\ Expect(2) /\ ~ alloc /\ buffer = <<>>
             /\ hdr[1] = Type(FCGI_BEGIN_REQUEST) /\ hdr[2] = Size(2, 0)
AtHeader  == \E k \in 0 .. Pieces : /\ Begun /\ Expect(Off[k]) /\ Buffered(k) /\ (alloc <=> k > 0)
                                  /\ hdr[1] \in {Type(FCGI_BEGIN_REQUEST), Type(FCGI_PARAMS)}
                                  /\ hdr[2].a > 0
AtContent == \E k \in 1 .. Pieces : /\ Begun /\ Expect(Off[k - 1] + 2) /\ Buffered(k - 1) /\ alloc
                                  /\ hdr[1] = Type(FCGI_PARAMS)
                                  /\ hdr[2] = Size(Size0(k), Padding(Size0(k)))
AtPadding == \E k \in 1 .. Pieces : /\ Begun /\ Buffered(k) /\ alloc
                                  /\ ToSkip \in 0 .. Off[k] /\ Expect(Off[k] - ToSkip)
                                  /\ hdr[1] = Type(FCGI_PARAMS) /\ hdr[2].a > 0
AtStdin   == Complete /\ Expect(Off[Pieces] + 2) /\ hdr[1] # Type(FCGI_BEGIN_REQUEST)
AfterAll  == Complete /\ Clean(Ahead)

InPlace == /\ at = "read" => Waiting(inp)
           /\ at = "begin" => AtBegin
           /\ at = "begin_body" => AtBody
           /\ at = "params" => AtHeader
           /\ at = "params_body" => AtContent
           /\ at = "params_skip" => AtPadding
           /\ at = "stdin" => AtStdin
           /\ at # "stdin_body"
           /\ at = "returned" /\ request.got = "some" => AfterAll
           /\ at \in {"record", "copy", "pad", "end", "flush", "answered"} => AfterAll

\* Or the connection broke in a way that the loops do not notice: they go on
\* for ever with the same header, and no request is returned.
Lost == /\ peer = "reset" /\ inp = <<>> /\ rbuf = <<>> /\ rd.head = <<>> /\ rd.got = <<>>
        /\ reads.done => reads.n < 0 /\ reads.data = <<>>
        /\ hdr[2].a > 0
        /\ \/ at \in {"params", "params_body", "params_skip"} /\ hdr[1] = Type(FCGI_PARAMS)
           \/ at \in {"begin_body", "params", "stdin", "stdin_body"} /\ hdr[1] = Type(FCGI_BEGIN_REQUEST)

\* How much the call under way was asked for.
Asked == IF at \in {"params_body", "stdin_body"} THEN hdr[2].a ELSE 2
Calls == at \in Calling => IF at = "params_skip" THEN SkipCall ELSE Call(Asked)

RequestInv == /\ answered \/ sent \in Requests
              /\ Calls
              /\ InPlace \/ Lost

\* No call, nothing to say of it.
LEMMA IdleCalls == ASSUME rd' = NoRead, ~ reads'.done PROVE Calls'
    BY NothingFacts DEF Calls, Call, SkipCall

\* The two types are two.
LEMMA TypesDiffer == Type(FCGI_BEGIN_REQUEST) # Type(FCGI_PARAMS)
    BY DEF Type, FCGI_BEGIN_REQUEST, FCGI_PARAMS

\* A read that failed, and its caller goes on.
LEMMA FailedRead ==
    ASSUME Wire, Reader, NEW place, Got(place), reads.n < 0, hdr'[2].a > 0,
           \/ at' \in {"params", "params_body", "params_skip"} /\ hdr'[1] = Type(FCGI_PARAMS)
           \/ at' \in {"begin_body", "params", "stdin", "stdin_body"}
              /\ hdr'[1] = Type(FCGI_BEGIN_REQUEST)
    PROVE  Lost'
<1>1. /\ peer' = "reset" /\ rbuf' = <<>> /\ inp' = <<>> /\ rd' = NoRead /\ ~ reads'.done
    BY GotAhead
<1>2. rd'.head = <<>> /\ rd'.got = <<>>
    BY <1>1 DEF NoRead
<1> QED
    BY <1>1, <1>2 DEF Lost

\* The header of a begin record.
LEMMA BeginStep ==
    ASSUME Wire, Reader, Control, AtBegin, at = "begin", GotBegin, Call(2), answered \/ sent \in Requests
    PROVE  (InPlace \/ Lost)'
<1> DEFINE data == reads.data
<1>1. /\ Got("begin") /\ hdr' = Overlay(hdr) /\ UNCHANGED <<alloc, buffer, sent, answered>>
    BY DEF GotBegin, Got, server_vars
<1>2. /\ Ahead' = Drop(Ahead, Len(data)) /\ Len(data) \in 0 .. Len(Ahead)
      /\ \A i \in 1 .. Len(data) : data[i] = Ahead[i]
    BY <1>1, GotAhead
<1>3. hdr \in [1 .. 2 -> Token] /\ reads.done /\ reads.n \in Int
    BY <1>1 DEF Control, Got, Reader
<1>4. CASE ReturnsUnset
  <2>1. \/ at' = "returned" /\ request'.got = "null"
        \/ at' = "undefined"
    BY <1>4 DEF ReturnsUnset, NoRequest
  <2> QED
    BY <2>1 DEF InPlace
<1>5. CASE ~ ReturnsUnset
  <2>1. /\ ~ Short(HeaderLen) /\ hdr'[1] = Type(FCGI_BEGIN_REQUEST) /\ hdr'[2].a = BeginLen
        /\ at' = "begin_body"
    BY <1>5 DEF GotBegin
  <2>2. CASE reads.n < 0
    <3>1. hdr'[2].a > 0
        BY <2>1 DEF BeginLen
    <3>2. Lost'
        BY <1>1, <2>1, <2>2, <3>1, FailedRead
    <3> QED
        BY <3>2
  <2>3. CASE ~ (reads.n < 0)
    <3>1. reads.n >= 2
        BY <1>3, <2>1, <2>3 DEF Short, HeaderLen
    <3>2. Len(data) = 2
        BY <1>3, <3>1 DEF Call
    <3>3. hdr'[1] = Ahead[1] /\ hdr'[2] = Ahead[2]
        BY <1>1, <1>2, <1>3, <3>2, OverlayIs
    <3>4. Ahead \in Tokens /\ Len(Ahead) >= 2 /\ Len(Ahead) \in Nat
        BY <1>2, <3>2, AheadFacts
    <3>5. ~ answered
        BY <2>1, <3>3, <3>4 DEF AtBegin, Waiting, Clean
    <3>6. Fresh(Ahead, Whole) /\ Whole \in Tokens /\ Whole[2] = Size(2, 0)
        BY <3>5, SentFacts DEF AtBegin, Waiting
    <3>7. Follows(Ahead, Whole, 0)
        BY <2>1, <3>3, <3>4, <3>6, FreshBegins
    <3>8. hdr'[2] = Size(2, 0)
        BY <3>3, <3>4, <3>6, <3>7 DEF Follows
    <3>9. Follows(Drop(Ahead, 2), Whole, 0 + 2)
        BY <3>4, <3>6, <3>7, FollowsOn
    <3>10. Expect(2)'
        BY <1>1, <1>2, <3>2, <3>9 DEF Expect, Whole
    <3>11. AtBody'
        BY <1>1, <2>1, <3>5, <3>8, <3>10 DEF AtBody, AtBegin
    <3> QED
        BY <2>1, <3>11 DEF InPlace
  <2> QED
    BY <2>2, <2>3
<1> QED
    BY <1>4, <1>5

\* Nothing is buffered before the first record.
LEMMA BufferedNone ==
    ASSUME sent \in Requests PROVE Bytes(SubSeq(Sent, 1, End(sent.ends, 0))) = <<>>
<1>1. End(sent.ends, 0) = 0
    BY DEF End
<1>2. SubSeq(Sent, 1, 0) = <<>>
    BY SentFacts, SubSeqEmpty
<1>3. <<>> \in Seq(Nat) /\ Len(<<>>) = 0
    BY EmptySeq
<1>4. Bytes(<<>>) \in Contents /\ Len(Bytes(<<>>)) = 0
    BY <1>3, BytesFacts
<1> QED
    BY <1>1, <1>2, <1>4, EmptySeq DEF Contents

\* The body of the begin record.
LEMMA BeginBodyStep ==
    ASSUME Wire, Reader, Control, AtBody, at = "begin_body", GotBeginBody, Call(2), sent \in Requests
    PROVE  (InPlace \/ Lost)'
<1> DEFINE data == reads.data
<1>1. /\ Got("begin_body") /\ UNCHANGED <<hdr, alloc, buffer, sent, answered>>
    BY DEF GotBeginBody, Got, server_vars
<1>2. /\ Ahead' = Drop(Ahead, Len(data)) /\ Len(data) \in 0 .. Len(Ahead)
      /\ \A i \in 1 .. Len(data) : data[i] = Ahead[i]
    BY <1>1, GotAhead
<1>3. hdr \in [1 .. 2 -> Token] /\ reads.done /\ reads.n \in Int
    BY <1>1 DEF Control, Got, Reader
<1>a. hdr[2].a = 2
    BY DEF AtBody, Size
<1>4. CASE Short(BeginLen)
  <2>1. \/ at' = "returned" /\ request'.got = "null"
        \/ at' = "undefined"
    BY <1>4 DEF GotBeginBody, ReturnsUnset, NoRequest
  <2> QED
    BY <2>1 DEF InPlace
<1>5. CASE ~ Short(BeginLen)
  <2>1. /\ at' = "params"
        /\ request' = [NoRequest EXCEPT !.got = "some", !.keep = Overlay(Junk)[2].a = 1]
    BY <1>5 DEF GotBeginBody
  <2>2. CASE reads.n < 0
    <3>1. Lost'
        BY <1>1, <1>a, <2>1, <2>2, FailedRead DEF AtBody
    <3> QED
        BY <3>1
  <2>3. CASE ~ (reads.n < 0)
    <3>1. reads.n >= 2
        BY <1>3, <1>5, <2>3 DEF Short, BeginLen
    <3>2. Len(data) = 2
        BY <1>3, <3>1 DEF Call
    <3>3. Junk \in [1 .. 2 -> Token]
      <4>1. Byte(-1) \in Token
        BY TokenFacts
      <4> QED
        BY <4>1 DEF Junk
    <3>4. Ahead \in Tokens /\ Len(Ahead) >= 2 /\ Len(Ahead) \in Nat
        BY <1>2, <3>2, AheadFacts
    <3>5. Overlay(Junk)[2] = Ahead[2]
        BY <1>2, <3>2, <3>3, OverlayIs
    <3>6. Ahead[2] = Whole[2 + 2]
        BY <3>4 DEF AtBody, Expect, Follows
    <3>7. Overlay(Junk)[2].a = IF sent.keep THEN 1 ELSE 0
        BY <3>5, <3>6, SentFacts DEF Byte
    <3>8. (Overlay(Junk)[2].a = 1) = sent.keep
        BY <3>7, SentFacts
    <3>9. request'.got = "some" /\ request'.keep = sent.keep /\ request'.params = {}
        BY <2>1, <3>8 DEF NoRequest
    <3>10. Whole \in Tokens /\ Off[0] = 4 /\ Pieces \in Nat
        BY SentFacts
    <3>11. Follows(Drop(Ahead, 2), Whole, 2 + 2)
        BY <3>4, <3>10, FollowsOn DEF AtBody, Expect
    <3>12. Expect(4)'
        BY <1>1, <1>2, <3>2, <3>11 DEF Expect, Whole
    <3>13. /\ Begun' /\ Expect(Off[0])' /\ Buffered(0)' /\ ~ alloc'
        BY <1>1, <3>9, <3>10, <3>12, BufferedNone DEF Begun, Expect, Whole, Off, Buffered, Sent, AtBody
    <3>14. hdr'[1] = Type(FCGI_BEGIN_REQUEST) /\ hdr'[2].a > 0
        BY <1>1, <1>a DEF AtBody
    <3>15. 0 \in 0 .. Pieces' /\ (alloc' <=> 0 > 0)
        BY <1>1, <3>10, <3>13 DEF Pieces
    <3>16. AtHeader'
        BY <3>13, <3>14, <3>15 DEF AtHeader
    <3> QED
        BY <2>1, <3>16 DEF InPlace
  <2> QED
    BY <2>2, <2>3
<1> QED
    BY <1>4, <1>5

\* All parameters buffered: the decoder gets what was encoded.
LEMMA BufferedAll ==
    ASSUME sent \in Requests, Buffered(Pieces)
    PROVE  IF Pieces > 0 THEN fcgi_parse_params([i \in DOMAIN buffer |-> buffer[i].a]) = Pairs(sent.params)
           ELSE Pairs(sent.params) = {}
<1>1. /\ Pieces \in Nat /\ Sent \in Seq(Nat) /\ sent.params \in Seq(Seq(Nat) \X Seq(Nat))
      /\ sent.ends \in Seq(Nat) /\ Cut(Len(Sent), sent.ends) /\ Len(Sent) \in Nat
    BY SentFacts, LenProperties
<1>2. CASE Pieces > 0
  <2>1. End(sent.ends, Pieces) = Len(Sent)
    <3>1. End(sent.ends, Pieces) = sent.ends[Pieces] /\ Pieces \in DOMAIN sent.ends
        BY <1>1, <1>2, LenProperties DEF End, Pieces
    <3>2. sent.ends[Pieces] \in 1 .. Len(Sent)
        BY <1>1, <3>1 DEF Cut
    <3>3. Len(Sent) > 0
        BY <1>1, <3>2
    <3> QED
        BY <1>1, <3>1, <3>3 DEF Cut, Pieces
  <2>2. SubSeq(Sent, 1, Len(Sent)) = Sent
    BY <1>1, SubSeqFull
  <2>3. buffer = Bytes(Sent)
    BY <2>1, <2>2 DEF Buffered
  <2>4. /\ Len(buffer) = Len(Sent) /\ DOMAIN buffer = 1 .. Len(Sent)
        /\ \A i \in 1 .. Len(Sent) : buffer[i] = Byte(Sent[i])
    <3>1. /\ Bytes(Sent) \in Contents /\ Len(Bytes(Sent)) = Len(Sent)
          /\ \A i \in 1 .. Len(Sent) : Bytes(Sent)[i] = Byte(Sent[i])
        BY <1>1, BytesFacts
    <3> QED
        BY <2>3, <3>1, LenProperties DEF Contents
  <2>5. [i \in DOMAIN buffer |-> buffer[i].a] = Sent
    <3>1. \A i \in 1 .. Len(Sent) : buffer[i].a = Sent[i]
        BY <2>4 DEF Byte
    <3>2. Sent = [i \in 1 .. Len(Sent) |-> Sent[i]]
        BY <1>1
    <3>3. [i \in 1 .. Len(Sent) |-> buffer[i].a] = [i \in 1 .. Len(Sent) |-> Sent[i]]
        BY <3>1
    <3> QED
        BY <2>4, <3>2, <3>3
  <2>6. fcgi_parse_params(Sent) = Pairs(sent.params)
    BY <1>1, ParseEncoded DEF Sent
  <2> QED
    BY <1>2, <2>5, <2>6
<1>3. CASE ~ (Pieces > 0)
  <2>1. sent.ends = <<>>
    BY <1>1, <1>3, EmptySeq DEF Pieces
  <2>2. Len(Sent) = 0
    BY <1>1, <2>1 DEF Cut
  <2> DEFINE n == Len(sent.params)
  <2>3. PICK off : Paired(Sent, sent.params, off)
    BY <1>1, EncodedFacts DEF Sent
  <2>4. n \in Nat /\ DOMAIN sent.params = 1 .. n /\ \A k \in 1 .. n : sent.params[k] \in Seq(Nat) \X Seq(Nat)
    BY <1>1, LenProperties
  <2>5. ~ (n > 0)
    <3> SUFFICES ASSUME n > 0 PROVE FALSE
        OBVIOUS
    <3>1. /\ off[0] = 0 /\ 1 \in 1 .. n
          /\ off[1] = off[1 - 1] + 2 + Len(sent.params[1][1]) + Len(sent.params[1][2])
          /\ off[1] <= Len(Sent)
        BY <2>3, <2>4 DEF Paired
    <3> DEFINE a == Len(sent.params[1][1])
               b == Len(sent.params[1][2])
    <3>2. a \in Nat /\ b \in Nat
      <4>1. sent.params[1][1] \in Seq(Nat) /\ sent.params[1][2] \in Seq(Nat)
        BY <2>4, <3>1
      <4> QED
        BY <4>1, LenProperties
    <3>a. off[1] = off[1 - 1] + 2 + a + b /\ off[0] = 0
        BY <3>1
    <3> HIDE DEF a, b
    <3>b. 1 - 1 = 0
        OBVIOUS
    <3>3. off[1] = 0 + 2 + a + b
        BY <3>a, <3>b
    <3> QED
        BY <2>2, <3>1, <3>2, <3>3
  <2>6. DOMAIN sent.params = {}
    BY <2>4, <2>5
  <2>7. Pairs(sent.params) = {}
    BY <2>6 DEF Pairs
  <2> QED
    BY <1>3, <2>7
<1> QED
    BY <1>2, <1>3

\* The header of the next record.
LEMMA HeaderStep ==
    ASSUME Wire, Reader, Control, RequestKept, AtHeader, at = "params", GotParams, Call(2), sent \in Requests
    PROVE  (InPlace \/ Lost)'
<1> DEFINE data == reads.data
<1>1. /\ Got("params") /\ hdr' = Overlay(hdr) /\ UNCHANGED <<sent, answered>>
    BY DEF GotParams, Got, server_vars
<1>2. /\ Ahead' = Drop(Ahead, Len(data)) /\ Len(data) \in 0 .. Len(Ahead)
      /\ \A i \in 1 .. Len(data) : data[i] = Ahead[i]
    BY <1>1, GotAhead
<1>3. hdr \in [1 .. 2 -> Token] /\ reads.done /\ reads.n \in Int
    BY <1>1 DEF Control, Got, Reader
<1>4. PICK k \in 0 .. Pieces : /\ Begun /\ Expect(Off[k]) /\ Buffered(k) /\ (alloc <=> k > 0)
                             /\ hdr[1] \in {Type(FCGI_BEGIN_REQUEST), Type(FCGI_PARAMS)}
                             /\ hdr[2].a > 0
    BY DEF AtHeader
<1>5. /\ Whole \in Tokens /\ Pieces \in Nat /\ Off[k] \in Nat /\ Off[k] + 2 <= Len(Whole)
      /\ Len(Whole) \in Nat /\ Ahead \in Tokens /\ Len(Ahead) \in Nat
    BY SentFacts, AheadFacts
<1>6. Whole[Off[k] + 1] = Type(FCGI_PARAMS)
  <2>1. CASE k = Pieces
    BY <2>1, SentFacts
  <2>2. CASE k # Pieces
    <3>1. k + 1 \in 1 .. Pieces /\ (k + 1) - 1 = k
        BY <1>5, <2>2
    <3>2. Whole[Off[(k + 1) - 1] + 1] = Type(FCGI_PARAMS)
        BY <3>1, SentRecord
    <3> QED
        BY <3>1, <3>2
  <2> QED
    BY <2>1, <2>2
<1>7. CASE Short(HeaderLen)
  <2>1. at' = "returned" /\ request'.got = "null"
    BY <1>7 DEF GotParams, ExitRequest, NoRequest
  <2> QED
    BY <2>1 DEF InPlace
<1>8. CASE ~ Short(HeaderLen) /\ at' = "undefined"
    BY <1>8 DEF InPlace
<1>9. CASE ~ Short(HeaderLen) /\ at' # "undefined" /\ reads.n < 0
  <2>1. Len(data) = 0 \/ Len(data) = 1
    <3> DEFINE n == Len(data)
    <3>1. n < 2 /\ n \in Nat
        BY <1>2, <1>3, <1>5, <1>9 DEF Call
    <3> HIDE DEF n
    <3>2. n = 0 \/ n = 1
        BY <3>1
    <3> QED
        BY <3>2 DEF n
  <2>2. /\ hdr'[2] = hdr[2]
        /\ hdr'[1] \in {Type(FCGI_BEGIN_REQUEST), Type(FCGI_PARAMS)}
    <3>1. CASE Len(data) = 0
        BY <1>1, <1>3, <1>4, <3>1, OverlayIs
    <3>2. CASE Len(data) = 1
      <4>1. hdr'[1] = Ahead[1] /\ hdr'[2] = hdr[2]
        BY <1>1, <1>2, <1>3, <3>2, OverlayIs
      <4>2. Ahead[1] = Whole[Off[k] + 1]
        BY <1>2, <1>4, <1>5, <3>2 DEF Expect, Follows
      <4> QED
        BY <1>6, <4>1, <4>2
    <3> QED
        BY <2>1, <3>1, <3>2
  <2>3. hdr'[2].a > 0
    BY <1>4, <2>2
  <2>4. CASE hdr'[1] = Type(FCGI_PARAMS)
    <3>1. at' = "params_body"
        BY <1>9, <2>3, <2>4 DEF GotParams, IsRecord
    <3> QED
        BY <1>1, <1>9, <2>3, <2>4, <3>1, FailedRead
  <2>5. CASE hdr'[1] = Type(FCGI_BEGIN_REQUEST)
    <3>1. at' = "stdin"
        BY <1>9, <2>5, TypesDiffer DEF GotParams, IsRecord
    <3> QED
        BY <1>1, <1>9, <2>3, <2>5, <3>1, FailedRead
  <2> QED
    BY <2>2, <2>4, <2>5
<1>10. CASE ~ Short(HeaderLen) /\ at' # "undefined" /\ ~ (reads.n < 0)
  <2>1. reads.n >= 2
    BY <1>3, <1>10 DEF Short, HeaderLen
  <2>2. Len(data) = 2
    BY <1>3, <2>1 DEF Call
  <2>3. hdr'[1] = Ahead[1] /\ hdr'[2] = Ahead[2] /\ Len(Ahead) >= 2
    BY <1>1, <1>2, <1>3, <1>5, <2>2, OverlayIs
  <2>4. Ahead[1] = Whole[Off[k] + 1] /\ Ahead[2] = Whole[Off[k] + 2]
    BY <1>4, <1>5, <2>3 DEF Expect, Follows
  <2>5. Expect(Off[k] + 2)'
    <3>1. Follows(Drop(Ahead, 2), Whole, Off[k] + 2)
        BY <1>4, <1>5, <2>3, FollowsOn DEF Expect
    <3> QED
        BY <1>1, <1>2, <2>2, <3>1 DEF Expect, Whole, Off
  <2>6. hdr'[1] = Type(FCGI_PARAMS)
    BY <1>6, <2>3, <2>4
  <2>7. CASE k < Pieces
    <3> DEFINE j == k + 1
    <3>1. j \in 1 .. Pieces /\ j - 1 = k
        BY <1>5, <2>7
    <3> HIDE DEF j
    <3>2. Size0(j) > 0 /\ Whole[Off[k] + 2] = Size(Size0(j), Padding(Size0(j)))
        BY <3>1, SentRecord
    <3>3. hdr'[2] = Size(Size0(j), Padding(Size0(j))) /\ hdr'[2].a > 0
        BY <2>3, <2>4, <3>2 DEF Size
    <3>4. at' = "params_body" /\ alloc' /\ buffer' = buffer /\ request' = request
        BY <1>10, <2>6, <3>3 DEF GotParams, IsRecord
    <3>5. Begun' /\ Buffered(j - 1)'
        BY <1>1, <1>4, <3>1, <3>4 DEF Begun, Buffered, Sent
    <3>6. Expect(Off[j - 1] + 2)'
        BY <2>5, <3>1
    <3>7. j \in 1 .. Pieces' /\ hdr'[2] = Size(Size0(j), Padding(Size0(j)))'
        BY <1>1, <3>1, <3>3 DEF Pieces, Size0
    <3>8. AtContent'
        BY <2>6, <3>4, <3>5, <3>6, <3>7 DEF AtContent
    <3> QED
        BY <3>4, <3>8 DEF InPlace
  <2>8. CASE ~ (k < Pieces)
    <3>1. k = Pieces
        BY <1>5, <2>8
    <3>2. hdr'[2] = Size(0, 0)
        BY <2>3, <2>4, <3>1, SentFacts
    <3>3. ~ IsRecord(hdr', FCGI_PARAMS)
        BY <3>2 DEF IsRecord, Size
    <3> DEFINE parsed == fcgi_parse_params([i \in DOMAIN buffer |-> buffer[i].a])
    <3>4. at' = "stdin" /\ request' = IF alloc THEN [request EXCEPT !.params = parsed] ELSE request
        BY <1>10, <3>3 DEF GotParams
    <3>5. IF alloc THEN parsed = Pairs(sent.params) ELSE Pairs(sent.params) = {}
        BY <1>4, <3>1, BufferedAll
    <3> HIDE DEF parsed
    <3>6. request'.got = "some" /\ request'.keep = sent.keep /\ request'.params = Pairs(sent.params)
        BY <1>4, <3>4, <3>5 DEF Begun, RequestKept
    <3>7. Complete'
        BY <1>1, <1>4, <3>6 DEF Complete, Begun
    <3>8. hdr'[1] # Type(FCGI_BEGIN_REQUEST)
        BY <2>6, TypesDiffer
    <3>9. Expect(Off[Pieces] + 2)'
        BY <1>1, <2>5, <3>1 DEF Pieces, Expect, Whole, Off
    <3>10. AtStdin'
        BY <3>7, <3>8, <3>9 DEF AtStdin
    <3> QED
        BY <3>4, <3>10 DEF InPlace
  <2> QED
    BY <2>7, <2>8
<1> QED
    BY <1>7, <1>8, <1>9, <1>10

\* Bytes of one sequence, then of what comes next in it.
LEMMA BytesOn ==
    ASSUME NEW s \in Seq(Nat), NEW m \in Nat, NEW data \in Tokens, m + Len(data) <= Len(s),
           \A j \in 1 .. Len(data) : data[j] = Byte(s[m + j])
    PROVE  Bytes(SubSeq(s, 1, m)) \o data = Bytes(SubSeq(s, 1, m + Len(data)))
<1> DEFINE n == Len(data)
           a == Bytes(SubSeq(s, 1, m))
           b == Bytes(SubSeq(s, 1, m + n))
<1>1. Len(s) \in Nat /\ \A i \in 1 .. Len(s) : s[i] \in Nat
    BY LenProperties
<1>0. n \in Nat /\ m + n <= Len(s) /\ \A j \in 1 .. n : data[j] = Byte(s[m + j])
    BY JoinFacts
<1> HIDE DEF n
<1>2. ASSUME NEW l \in Nat, l <= Len(s)
      PROVE  /\ Bytes(SubSeq(s, 1, l)) \in Tokens /\ Len(Bytes(SubSeq(s, 1, l))) = l
             /\ \A i \in 1 .. l : Bytes(SubSeq(s, 1, l))[i] = Byte(s[i])
  <2> DEFINE t == SubSeq(s, 1, l)
  <2>1. /\ t \in Seq(Nat)
        /\ Len(t) = IF 1 <= l THEN l - 1 + 1 ELSE 0
        /\ \A i \in 1 .. l - 1 + 1 : t[i] = s[1 + i - 1]
    <3>1. \A i \in 1 .. l : s[i] \in Nat
        BY <1>1, <1>2
    <3> DEFINE N == Nat
    <3>2. s \in Seq(N) /\ (\A i \in 1 .. l : s[i] \in N) /\ 1 \in Int /\ l \in Int
        BY <1>2, <3>1
    <3> HIDE DEF N
    <3>3. /\ SubSeq(s, 1, l) \in Seq(N)
          /\ Len(SubSeq(s, 1, l)) = IF 1 <= l THEN l - 1 + 1 ELSE 0
          /\ \A i \in 1 .. l - 1 + 1 : SubSeq(s, 1, l)[i] = s[1 + i - 1]
        BY <3>2, SubSeqProperties
    <3> QED
        BY <3>3 DEF N
  <2>2. Len(t) = l /\ \A i \in 1 .. l : t[i] = s[i]
    BY <1>2, <2>1
  <2> HIDE DEF t
  <2>3. /\ Bytes(t) \in Contents /\ Len(Bytes(t)) = l
        /\ \A i \in 1 .. l : Bytes(t)[i] = Byte(t[i])
    BY <2>1, <2>2, BytesFacts
  <2>4. Bytes(t) \in Tokens
    <3>1. 1 \in Int
        OBVIOUS
    <3> QED
        BY <2>3, <3>1, ContentFacts
  <2> QED
    BY <2>2, <2>3, <2>4 DEF t
<1>3. /\ a \in Tokens /\ Len(a) = m /\ \A i \in 1 .. m : a[i] = Byte(s[i])
      /\ b \in Tokens /\ Len(b) = m + n /\ \A i \in 1 .. m + n : b[i] = Byte(s[i])
  <2>1. m <= Len(s) /\ m + n \in Nat
    BY <1>0, <1>1
  <2> QED
    BY <1>0, <1>2, <2>1
<1> HIDE DEF a, b
<1>4. /\ a \o data \in Tokens /\ Len(a \o data) = m + n
      /\ \A i \in 1 .. m : (a \o data)[i] = a[i]
      /\ \A i \in 1 .. n : (a \o data)[m + i] = data[i]
    BY <1>0, <1>3, JoinPlaces DEF n
<1> DEFINE c == a \o data
<1> HIDE DEF c
<1>5. ASSUME NEW i \in 1 .. m + n PROVE c[i] = b[i]
  <2>1. CASE i <= m
    <3>1. i \in 1 .. m
        BY <2>1
    <3> QED
        BY <1>3, <1>4, <3>1 DEF c
  <2>2. CASE ~ (i <= m)
    <3> DEFINE j == i - m
    <3>1. j \in 1 .. n /\ m + j = i
        BY <1>0, <2>2
    <3> HIDE DEF j
    <3>2. c[i] = data[j] /\ data[j] = Byte(s[i])
        BY <1>0, <1>4, <3>1 DEF c
    <3> QED
        BY <1>3, <3>2
  <2> QED
    BY <2>1, <2>2
<1>6. c = b
    BY <1>3, <1>4, <1>5, SeqEqual DEF Tokens, c
<1> QED
    BY <1>6 DEF a, b, c, n

\* The content of a record.
LEMMA ContentStep ==
    ASSUME Wire, Reader, Control, AtContent, at = "params_body", GotParamsBody, Call(hdr[2].a), sent \in Requests
    PROVE  (InPlace \/ Lost)'
<1> DEFINE data == reads.data
<1>1. /\ Got("params_body") /\ UNCHANGED <<hdr, alloc, sent, answered>>
    BY DEF GotParamsBody, Got, server_vars
<1>2. /\ Ahead' = Drop(Ahead, Len(data)) /\ Len(data) \in 0 .. Len(Ahead)
      /\ \A i \in 1 .. Len(data) : data[i] = Ahead[i]
      /\ rd' = NoRead /\ ~ reads'.done
    BY <1>1, GotAhead
<1>3. hdr \in [1 .. 2 -> Token] /\ reads.done /\ reads.n \in Int /\ data \in Tokens
    BY <1>1 DEF Control, Got, Reader
<1>4. PICK k \in 1 .. Pieces : /\ Begun /\ Expect(Off[k - 1] + 2) /\ Buffered(k - 1) /\ alloc
                             /\ hdr[1] = Type(FCGI_PARAMS)
                             /\ hdr[2] = Size(Size0(k), Padding(Size0(k)))
    BY DEF AtContent
<1> DEFINE len == Size0(k)
           pad0 == Padding(len)
           off == Off[k - 1]
           to == Off[k]
           before == End(sent.ends, k - 1)
<1>5. /\ len \in Nat /\ len > 0 /\ pad0 \in 0 .. 1 /\ to = off + 2 + len + pad0
      /\ \A j \in 1 .. len : Whole[off + 2 + j] = Byte(Sent[before + j])
      /\ before \in Nat /\ before + len <= Len(Sent) /\ End(sent.ends, k) = before + len
    BY SentRecord
<1>6. /\ Whole \in Tokens /\ Pieces \in Nat /\ off \in Nat /\ to \in Nat /\ Ahead \in Tokens
      /\ Len(Ahead) \in Nat /\ Sent \in Seq(Nat)
  <2>1. Pieces \in Nat
    BY SentFacts
  <2>2. k - 1 \in 0 .. Pieces /\ k \in 0 .. Pieces
    BY <2>1
  <2> QED
    BY <2>2, SentFacts, AheadFacts
<1>7. hdr[2].a = len /\ hdr[2].b = pad0
    BY <1>4 DEF Size
<1>8. CASE Short(hdr[2].a)
  <2>1. at' = "returned" /\ request'.got = "null"
    BY <1>8 DEF GotParamsBody, ExitRequest, NoRequest
  <2> QED
    BY <2>1 DEF InPlace
<1>9. CASE ~ Short(hdr[2].a) /\ reads.n < 0
  <2>1. at' \in {"params", "params_skip"} /\ hdr' = hdr
    BY <1>1, <1>9 DEF GotParamsBody
  <2> QED
    BY <1>1, <1>4, <1>5, <1>7, <1>9, <2>1, FailedRead
<1>10. CASE ~ Short(hdr[2].a) /\ ~ (reads.n < 0)
  <2>1. reads.n >= len
    BY <1>3, <1>5, <1>7, <1>10 DEF Short
  <2>2. Len(data) = len /\ reads.n = len
    <3>1. Len(data) = len /\ reads.n <= Len(data)
        BY <1>3, <1>7, <2>1 DEF Call
    <3> QED
        BY <1>3, <1>5, <2>1, <3>1
  <2>3. buffer' = buffer \o data /\ request' = request
        /\ at' = IF hdr[2].b > 0 THEN "params_skip" ELSE "params"
    <3>1. Take(data, Len(data)) = data
        BY <1>3, SubSeqFull DEF Take, Tokens
    <3>2. buffer' = buffer \o Take(data, reads.n)
        BY <1>3, <1>10 DEF GotParamsBody
    <3> QED
        BY <1>10, <2>2, <3>1, <3>2 DEF GotParamsBody
  <2>4. ASSUME NEW j \in 1 .. len PROVE data[j] = Byte(Sent[before + j])
    <3>1. data[j] = Ahead[j] /\ j \in 1 .. Len(Ahead)
        BY <1>2, <1>6, <2>2
    <3>2. Ahead[j] = Whole[(off + 2) + j]
        BY <1>4, <3>1 DEF Expect, Follows
    <3> QED
        BY <1>5, <3>1, <3>2
  <2>5. buffer' = Bytes(SubSeq(Sent, 1, End(sent.ends, k)))
    <3>1. buffer = Bytes(SubSeq(Sent, 1, before))
        BY <1>4 DEF Buffered
    <3>a. \A j \in 1 .. Len(data) : data[j] = Byte(Sent[before + j])
        BY <2>2, <2>4
    <3>b. before + Len(data) <= Len(Sent)
        BY <1>5, <2>2
    <3> HIDE DEF len, before, data
    <3>c. Bytes(SubSeq(Sent, 1, before)) \o data = Bytes(SubSeq(Sent, 1, before + Len(data)))
        BY <1>3, <1>5, <1>6, <3>a, <3>b, BytesOn
    <3>2. Bytes(SubSeq(Sent, 1, before)) \o data = Bytes(SubSeq(Sent, 1, before + len))
        BY <2>2, <3>c
    <3> QED
        BY <1>5, <2>3, <3>1, <3>2
  <2>6. Follows(Ahead', Whole, off + 2 + len)
    <3>1. Follows(Drop(Ahead, len), Whole, (off + 2) + len)
        BY <1>2, <1>4, <1>6, <2>2, FollowsOn DEF Expect
    <3> QED
        BY <1>2, <2>2, <3>1
  <2>7. Begun' /\ Buffered(k)' /\ alloc'
    BY <1>1, <1>4, <2>3, <2>5 DEF Begun, Buffered, Sent
  <2>8. hdr'[1] = Type(FCGI_PARAMS) /\ hdr'[2].a > 0 /\ hdr'[2].b = pad0
    BY <1>1, <1>4, <1>5, <1>7
  <2>9. CASE hdr[2].b > 0
    <3>1. at' = "params_skip" /\ ToSkip' = pad0
        BY <1>2, <2>3, <2>8, <2>9, NothingFacts DEF ToSkip
    <3>2. to - pad0 = off + 2 + len /\ pad0 \in 0 .. to
      <4> HIDE DEF to, pad0, off, len
      <4> QED
        BY <1>5, <1>6
    <3>3. Expect(Off[k] - ToSkip)'
        BY <1>1, <2>6, <3>1, <3>2 DEF Expect, Whole, Off
    <3>4. ToSkip' \in 0 .. (Off[k])' /\ k \in 1 .. Pieces'
        BY <1>1, <3>1, <3>2 DEF Off, Pieces
    <3>5. AtPadding'
        BY <2>7, <2>8, <3>3, <3>4 DEF AtPadding
    <3> QED
        BY <3>1, <3>5 DEF InPlace
  <2>10. CASE ~ (hdr[2].b > 0)
    <3>1. at' = "params" /\ pad0 = 0
        BY <1>5, <1>7, <2>3, <2>10
    <3>2. to = off + 2 + len
        BY <1>5, <1>6, <3>1
    <3>3. Expect(Off[k])'
        BY <1>1, <2>6, <3>2 DEF Expect, Whole, Off
    <3>4. k \in 0 .. Pieces' /\ k > 0
        BY <1>1, <1>6 DEF Pieces
    <3>5. AtHeader'
        BY <2>7, <2>8, <3>3, <3>4 DEF AtHeader
    <3> QED
        BY <3>1, <3>5 DEF InPlace
  <2> QED
    BY <2>9, <2>10
<1> QED
    BY <1>8, <1>9, <1>10

\* The padding of a record was passed.
LEMMA PaddingStep ==
    ASSUME Wire, Reader, Control, AtPadding, at = "params_skip", GotSkipped, SkipCall, sent \in Requests
    PROVE  (InPlace \/ Lost)'
<1>1. /\ Got("params_skip") /\ at' = "params" /\ UNCHANGED <<hdr, alloc, buffer, request, sent, answered>>
    BY DEF GotSkipped, Got, server_vars, request_vars
<1>2. reads.done /\ reads.data = <<>>
    BY <1>1 DEF Got, SkipCall
<1>3. PICK k \in 1 .. Pieces : /\ Begun /\ Buffered(k) /\ alloc
                             /\ ToSkip \in 0 .. Off[k] /\ Expect(Off[k] - ToSkip)
                             /\ hdr[1] = Type(FCGI_PARAMS) /\ hdr[2].a > 0
    BY DEF AtPadding
<1>4. ToSkip = 0
    BY <1>2 DEF ToSkip
<1>5. /\ Whole \in Tokens /\ Pieces \in Nat /\ Off[k] \in Nat /\ Ahead \in Tokens /\ Len(Ahead) \in Nat
  <2>1. Pieces \in Nat
    BY SentFacts
  <2>2. k \in 0 .. Pieces
    BY <2>1
  <2> QED
    BY <2>2, SentFacts, AheadFacts
<1>6. Expect(Off[k])
    BY <1>3, <1>4, <1>5
<1>7. Expect(Off[k])'
  <2>1. Ahead' = Drop(Ahead, 0)
    BY <1>1, <1>2, GotAhead, EmptyFacts
  <2>2. Follows(Drop(Ahead, 0), Whole, Off[k] + 0)
    BY <1>5, <1>6, FollowsOn DEF Expect
  <2> QED
    BY <1>1, <1>5, <2>1, <2>2 DEF Expect, Whole, Off
<1>8. Begun' /\ Buffered(k)' /\ alloc' /\ hdr'[1] = Type(FCGI_PARAMS) /\ hdr'[2].a > 0
    BY <1>1, <1>3 DEF Begun, Buffered, Sent
<1>9. k \in 0 .. Pieces' /\ k > 0
    BY <1>1, <1>5 DEF Pieces
<1>10. AtHeader'
    BY <1>7, <1>8, <1>9 DEF AtHeader
<1> QED
    BY <1>1, <1>10 DEF InPlace

\* The header after the parameters: of a record of post data.
LEMMA StdinStep ==
    ASSUME Wire, Reader, Control, AtStdin, at = "stdin", GotStdin, Call(2), sent \in Requests
    PROVE  (InPlace \/ Lost)'
<1> DEFINE data == reads.data
<1>1. /\ Got("stdin") /\ hdr' = Overlay(hdr) /\ UNCHANGED <<sent, answered>>
    BY DEF GotStdin, Got, server_vars
<1>2. /\ Ahead' = Drop(Ahead, Len(data)) /\ Len(data) \in 0 .. Len(Ahead)
      /\ \A i \in 1 .. Len(data) : data[i] = Ahead[i]
    BY <1>1, GotAhead
<1>3. hdr \in [1 .. 2 -> Token] /\ reads.done /\ reads.n \in Int
    BY <1>1 DEF Control, Got, Reader
<1>4. /\ Whole \in Tokens /\ Pieces \in Nat /\ Off[Pieces] \in Nat /\ Ahead \in Tokens /\ Len(Ahead) \in Nat
      /\ \A i \in 2 .. Len(Whole) : Whole[i] # Type(FCGI_BEGIN_REQUEST)
    BY SentFacts, AheadFacts
<1>5. Clean(Ahead)
  <2>1. Off[Pieces] + 2 \in Nat /\ Off[Pieces] + 2 >= 1
    BY <1>4
  <2> QED
    BY <1>4, <2>1, FollowsClean DEF AtStdin, Expect
<1>6. CASE Short(HeaderLen)
  <2>1. at' = "returned" /\ request'.got = "null"
    BY <1>6 DEF GotStdin, ExitRequest, NoRequest
  <2> QED
    BY <2>1 DEF InPlace
<1>7. CASE ~ Short(HeaderLen)
  <2>1. Len(data) = 0 \/ Len(data) = 1 \/ Len(data) = 2
    <3> DEFINE n == Len(data)
    <3>1. n \in Nat
        BY <1>2, <1>4
    <3>2. reads.n < 0 \/ reads.n >= 2
        BY <1>3, <1>7 DEF Short, HeaderLen
    <3>3. n < 2 \/ n = 2
        BY <1>3, <3>2 DEF Call
    <3> HIDE DEF n
    <3>4. n = 0 \/ n = 1 \/ n = 2
        BY <3>1, <3>3
    <3> QED
        BY <3>4 DEF n
  <2>2. hdr'[1] # Type(FCGI_BEGIN_REQUEST)
    <3>1. CASE Len(data) = 0
        BY <1>1, <1>3, <3>1, OverlayIs DEF AtStdin
    <3>2. CASE Len(data) # 0
      <4>1. hdr'[1] = data[1]
        BY <1>1, <1>3, <2>1, <3>2, OverlayIs
      <4>2. 1 \in 1 .. Len(data) /\ 1 \in 1 .. Len(Ahead)
        BY <1>2, <1>4, <2>1, <3>2
      <4> QED
        BY <1>2, <1>5, <4>1, <4>2 DEF Clean
    <3> QED
        BY <3>1, <3>2
  <2>3. at' = "returned" /\ request' = request
    BY <1>7, <2>2 DEF GotStdin, IsRecord
  <2>4. Clean(Ahead')
    BY <1>2, <1>4, <1>5, CleanParts
  <2>5. AfterAll'
    BY <1>1, <2>3, <2>4 DEF AfterAll, AtStdin, Complete, Clean
  <2> QED
    BY <2>3, <2>5 DEF InPlace
<1> QED
    BY <1>6, <1>7

\* A loop that does not notice that its reads fail.
LEMMA LostStep ==
    ASSUME Wire, Reader, Control, Lost,
           \/ GotBegin \/ GotBeginBody \/ GotParams \/ GotParamsBody
           \/ GotSkipped \/ GotStdin \/ GotStdinBody
    PROVE  (InPlace \/ Lost)'
<1>1. PICK place : Got(place)
    BY DEF GotBegin, GotBeginBody, GotParams, GotParamsBody, GotSkipped, GotStdin, GotStdinBody
<1>2. reads.n < 0 /\ reads.data = <<>> /\ at = place /\ hdr[2].a > 0
    BY <1>1 DEF Got, Lost
<1>3. Overlay(hdr) = hdr /\ \A n : ~ Short(n)
  <2>1. hdr \in [1 .. 2 -> Token] /\ reads.n \in Int
    BY DEF Control, Reader
  <2> QED
    BY <1>2, <2>1, OverlayIs, EmptyFacts DEF Short
<1>4. hdr' = hdr
    BY <1>3 DEF GotBegin, GotBeginBody, GotParams, GotParamsBody, GotSkipped, GotStdin, GotStdinBody,
                request_vars
<1>5. CASE at' \in {"undefined"}
    BY <1>5 DEF InPlace
<1>6. CASE at' # "undefined"
  <2>1. \/ at' \in {"params", "params_body", "params_skip"} /\ hdr[1] = Type(FCGI_PARAMS)
        \/ at' \in {"begin_body", "params", "stdin", "stdin_body"} /\ hdr[1] = Type(FCGI_BEGIN_REQUEST)
    <3>1. at # "begin"
        BY DEF Lost
    <3>2. CASE GotBegin
        BY <3>1, <3>2 DEF GotBegin, Got
    <3>3. CASE GotBeginBody
      <4>1. at = "begin_body" /\ at' = "params"
        BY <1>3, <3>3 DEF GotBeginBody, Got
      <4> QED
        BY <4>1 DEF Lost
    <3>4. CASE GotParams
      <4>1. at = "params" /\ at' = IF IsRecord(hdr, FCGI_PARAMS) THEN "params_body" ELSE "stdin"
        BY <1>3, <1>6, <3>4 DEF GotParams, Got
      <4>2. CASE hdr[1] = Type(FCGI_PARAMS)
        BY <1>2, <4>1, <4>2 DEF IsRecord
      <4>3. CASE hdr[1] = Type(FCGI_BEGIN_REQUEST)
        BY <4>1, <4>3, TypesDiffer DEF IsRecord
      <4> QED
        BY <4>1, <4>2, <4>3 DEF Lost
    <3>5. CASE GotParamsBody
      <4>1. at = "params_body" /\ at' \in {"params", "params_skip"}
        BY <1>3, <3>5 DEF GotParamsBody, Got
      <4> QED
        BY <4>1 DEF Lost
    <3>6. CASE GotSkipped
      <4>1. at = "params_skip" /\ at' = "params"
        BY <3>6 DEF GotSkipped, Got
      <4> QED
        BY <4>1 DEF Lost
    <3>7. CASE GotStdin
      <4>1. at = "stdin" /\ hdr[1] = Type(FCGI_BEGIN_REQUEST)
        BY <3>7 DEF GotStdin, Got, Lost
      <4>2. at' = "stdin_body"
        BY <1>2, <1>3, <3>7, <4>1 DEF GotStdin, IsRecord
      <4> QED
        BY <4>1, <4>2
    <3>8. CASE GotStdinBody
      <4>1. at = "stdin_body" /\ at' = "stdin"
        BY <1>3, <3>8 DEF GotStdinBody, Got
      <4> QED
        BY <4>1 DEF Lost
    <3> QED
        BY <3>2, <3>3, <3>4, <3>5, <3>6, <3>7, <3>8
  <2>2. Lost'
    BY <1>1, <1>2, <1>4, <2>1, FailedRead
  <2> QED
    BY <2>2
<1> QED
    BY <1>5, <1>6

\* What is ahead loses its end, and nothing else changes.
LEMMA PlaceLess ==
    ASSUME Wire, Reader, InPlace, answered \/ sent \in Requests,
           UNCHANGED <<at, hdr, alloc, buffer, request, sent, answered>>,
           \E n \in 0 .. Len(Ahead) : Ahead' = Take(Ahead, n),
           at = "read" => \E n \in 0 .. Len(inp) : inp' = Take(inp, n),
           at = "params_skip" => ToSkip' = ToSkip
    PROVE  InPlace'
<1>1. PICK n \in 0 .. Len(Ahead) : Ahead' = Take(Ahead, n)
    OBVIOUS
<1>2. Ahead \in Tokens /\ inp \in Tokens
    BY AheadFacts DEF Wire
<1>3. Whole' = Whole /\ Off' = Off /\ Pieces' = Pieces /\ Sent' = Sent
    BY DEF Whole, Off, Pieces, Sent
<1>4. ASSUME NEW p \in Nat, Expect(p), ~ answered PROVE Expect(p)'
  <2>1. Whole \in Tokens
    BY <1>4, SentFacts
  <2>2. Follows(Take(Ahead, n), Whole, p)
    BY <1>2, <1>4, <2>1, FollowsLess DEF Expect
  <2> QED
    BY <1>1, <1>3, <2>2 DEF Expect
<1>5. ASSUME NEW x \in Tokens, NEW m \in 0 .. Len(x), Waiting(x)
      PROVE  IF answered THEN Clean(Take(x, m)) ELSE Fresh(Take(x, m), Whole)
  <2>1. CASE answered
    BY <1>5, <2>1, CleanParts DEF Waiting
  <2>2. CASE ~ answered
    BY <1>5, <2>2, FreshLess, SentFacts DEF Waiting
  <2> QED
    BY <2>1, <2>2
<1>6. at = "read" => Waiting(inp)'
  <2> SUFFICES ASSUME at = "read" PROVE Waiting(inp)'
    OBVIOUS
  <2>1. PICK m \in 0 .. Len(inp) : inp' = Take(inp, m)
    OBVIOUS
  <2>2. Waiting(inp)
    BY DEF InPlace
  <2> QED
    BY <1>2, <1>3, <1>5, <2>1, <2>2 DEF Waiting
<1>7. at = "begin" => AtBegin'
  <2> SUFFICES ASSUME at = "begin" PROVE AtBegin'
    OBVIOUS
  <2>1. AtBegin
    BY DEF InPlace
  <2>2. Waiting(Ahead)'
    BY <1>1, <1>2, <1>3, <1>5, <2>1 DEF Waiting, AtBegin
  <2> QED
    BY <2>1, <2>2 DEF AtBegin
<1>8. at = "begin_body" => AtBody'
  <2>1. 2 \in Nat
    OBVIOUS
  <2> QED
    BY <1>4, <2>1 DEF AtBody, InPlace
<1>9. at = "params" => AtHeader'
  <2> SUFFICES ASSUME at = "params" PROVE AtHeader'
    OBVIOUS
  <2>1. PICK k \in 0 .. Pieces : /\ Begun /\ Expect(Off[k]) /\ Buffered(k) /\ (alloc <=> k > 0)
                               /\ hdr[1] \in {Type(FCGI_BEGIN_REQUEST), Type(FCGI_PARAMS)}
                               /\ hdr[2].a > 0
    BY DEF InPlace, AtHeader
  <2>2. Off[k] \in Nat
    BY <2>1, SentFacts DEF Begun
  <2>3. Expect(Off[k])'
    BY <1>3, <1>4, <2>1, <2>2 DEF Begun, Expect
  <2>4. Begun' /\ Buffered(k)'
    BY <1>3, <2>1 DEF Begun, Buffered
  <2> QED
    BY <1>3, <2>1, <2>3, <2>4 DEF AtHeader
<1>10. at = "params_body" => AtContent'
  <2> SUFFICES ASSUME at = "params_body" PROVE AtContent'
    OBVIOUS
  <2>1. PICK k \in 1 .. Pieces : /\ Begun /\ Expect(Off[k - 1] + 2) /\ Buffered(k - 1) /\ alloc
                               /\ hdr[1] = Type(FCGI_PARAMS)
                               /\ hdr[2] = Size(Size0(k), Padding(Size0(k)))
    BY DEF InPlace, AtContent
  <2>2. Off[k - 1] + 2 \in Nat
    <3>1. Pieces \in Nat /\ sent \in Requests
        BY <2>1, SentFacts DEF Begun
    <3>2. k - 1 \in 0 .. Pieces
        BY <3>1
    <3>3. Off[k - 1] \in Nat
        BY <3>1, <3>2, SentFacts
    <3> QED
        BY <3>3
  <2>3. Expect(Off[k - 1] + 2)'
    BY <1>3, <1>4, <2>1, <2>2 DEF Begun, Expect
  <2>4. Begun' /\ Buffered(k - 1)' /\ Size0(k)' = Size0(k)
    BY <1>3, <2>1 DEF Begun, Buffered, Size0
  <2> QED
    BY <1>3, <2>1, <2>3, <2>4 DEF AtContent
<1>11. at = "params_skip" => AtPadding'
  <2> SUFFICES ASSUME at = "params_skip" PROVE AtPadding'
    OBVIOUS
  <2>1. PICK k \in 1 .. Pieces : /\ Begun /\ Buffered(k) /\ alloc
                               /\ ToSkip \in 0 .. Off[k] /\ Expect(Off[k] - ToSkip)
                               /\ hdr[1] = Type(FCGI_PARAMS) /\ hdr[2].a > 0
    BY DEF InPlace, AtPadding
  <2>2. Off[k] - ToSkip \in Nat
    <3>1. Pieces \in Nat /\ sent \in Requests
        BY <2>1, SentFacts DEF Begun
    <3>2. k \in 0 .. Pieces
        BY <3>1
    <3>3. Off[k] \in Nat
        BY <3>1, <3>2, SentFacts
    <3> QED
        BY <2>1, <3>3
  <2>3. Expect(Off[k] - ToSkip)'
    BY <1>3, <1>4, <2>1, <2>2 DEF Begun, Expect
  <2>4. Begun' /\ Buffered(k)'
    BY <1>3, <2>1 DEF Begun, Buffered
  <2> QED
    BY <1>3, <2>1, <2>3, <2>4 DEF AtPadding
<1>12. at = "stdin" => AtStdin'
  <2> SUFFICES ASSUME at = "stdin" PROVE AtStdin'
    OBVIOUS
  <2>1. AtStdin
    BY DEF InPlace
  <2>2. Off[Pieces] + 2 \in Nat
    <3>1. Pieces \in Nat /\ sent \in Requests
        BY <2>1, SentFacts DEF AtStdin, Complete
    <3>2. Pieces \in 0 .. Pieces
        BY <3>1
    <3>3. Off[Pieces] \in Nat
        BY <3>1, <3>2, SentFacts
    <3> QED
        BY <3>3
  <2>3. Expect(Off[Pieces] + 2)'
    BY <1>3, <1>4, <2>1, <2>2 DEF AtStdin, Complete, Expect
  <2> QED
    BY <2>1, <2>3 DEF AtStdin, Complete
<1>13. AfterAll => AfterAll'
  <2>1. Clean(Ahead) => Clean(Ahead')
    BY <1>1, <1>2, CleanParts
  <2> QED
    BY <2>1 DEF AfterAll, Complete, Clean
<1> QED
    BY <1>6, <1>7, <1>8, <1>9, <1>10, <1>11, <1>12, <1>13 DEF InPlace

\* A skip goes on in the padding of a record.
LEMMA SkipMoves ==
    ASSUME Wire, Reader, Control, AtPadding, at = "params_skip",
           UNCHANGED <<at, hdr, alloc, buffer, request, sent, answered>>, answered \/ sent \in Requests,
           \E n \in 0 .. Len(Ahead) : /\ n <= ToSkip /\ Ahead' = Drop(Ahead, n)
                                      /\ ToSkip' = ToSkip - n \/ (Ahead' = <<>> /\ ToSkip' = 0)
    PROVE  InPlace'
<1>1. PICK n \in 0 .. Len(Ahead) : /\ n <= ToSkip /\ Ahead' = Drop(Ahead, n)
                                   /\ ToSkip' = ToSkip - n \/ (Ahead' = <<>> /\ ToSkip' = 0)
    OBVIOUS
<1>2. PICK k \in 1 .. Pieces : /\ Begun /\ Buffered(k) /\ alloc
                               /\ ToSkip \in 0 .. Off[k] /\ Expect(Off[k] - ToSkip)
                               /\ hdr[1] = Type(FCGI_PARAMS) /\ hdr[2].a > 0
    BY DEF AtPadding
<1>3. /\ Whole \in Tokens /\ Pieces \in Nat /\ Off[k] \in Nat /\ Off[k] + 2 <= Len(Whole)
      /\ Len(Whole) \in Nat /\ Ahead \in Tokens /\ Len(Ahead) \in Nat
  <2>1. sent \in Requests
    BY <1>2 DEF Begun
  <2>2. Pieces \in Nat
    BY <2>1, SentFacts
  <2>3. k \in 0 .. Pieces
    BY <2>2
  <2> QED
    BY <2>1, <2>3, SentFacts, AheadFacts
<1>4. Whole' = Whole /\ Off' = Off /\ Pieces' = Pieces /\ Sent' = Sent
    BY DEF Whole, Off, Pieces, Sent
<1> DEFINE p == Off[k]
           m == ToSkip
<1>5. p \in Nat /\ m \in 0 .. p /\ n \in Nat /\ n <= m /\ Expect(p - m)
    BY <1>1, <1>2, <1>3
<1>6. ToSkip' \in 0 .. p /\ Expect(p - ToSkip)'
  <2>1. CASE ToSkip' = m - n
    <3>1. Follows(Drop(Ahead, n), Whole, (p - m) + n)
      <4> HIDE DEF p, m
      <4>1. p - m \in Nat
        BY <1>5
      <4> QED
        BY <1>1, <1>3, <1>5, <4>1, FollowsOn DEF Expect
    <3> HIDE DEF p, m
    <3>2. (p - m) + n = p - (m - n) /\ m - n \in 0 .. p
        BY <1>5
    <3>3. Follows(Ahead', Whole', p - ToSkip')
        BY <1>1, <1>4, <2>1, <3>1, <3>2
    <3>4. Expect(p - ToSkip)'
        BY <1>4, <3>3 DEF Expect, p
    <3> QED
        BY <2>1, <3>2, <3>4
  <2>2. CASE Ahead' = <<>> /\ ToSkip' = 0
    <3>1. Follows(<<>>, Whole, p)
        BY <1>3, EmptyFacts DEF Follows
    <3>2. p - ToSkip' = p
        BY <1>5, <2>2
    <3>3. Follows(Ahead', Whole', p - ToSkip')
        BY <1>4, <2>2, <3>1, <3>2
    <3>4. Expect(p - ToSkip)'
        BY <1>4, <3>3 DEF Expect
    <3> QED
        BY <1>5, <2>2, <3>4
  <2> QED
    BY <1>1, <2>1, <2>2
<1>7. Begun' /\ Buffered(k)'
    BY <1>2, <1>4 DEF Begun, Buffered
<1>8. AtPadding'
    BY <1>2, <1>4, <1>6, <1>7 DEF AtPadding
<1> QED
    BY <1>8 DEF InPlace

\* A call of the reader begins.
LEMMA AskRequest ==
    ASSUME ReadInv, RequestInv, Ask
    PROVE  RequestInv'
<1>1. Wire /\ Reader /\ Control /\ Calls /\ (answered \/ sent \in Requests) /\ (InPlace \/ Lost)
    BY DEF ReadInv, RequestInv
<1>2. UNCHANGED <<at, hdr, alloc, buffer, request, sent, answered>>
    BY DEF Ask, request_vars, server_vars
<1>3. at \in Calling /\ hdr[2] \in Token
    BY <1>1 DEF Ask, Calling, Control
<1>4. CASE at # "params_skip"
  <2>1. ef_bio_read(Asked) /\ Asked \in Nat /\ Asked > 0
    <3>1. hdr[2].a \in Int
        BY <1>3, TokenFacts
    <3>2. at \in {"params_body", "stdin_body"} => hdr[2].a > 0
        BY <1>1 DEF Control
    <3> QED
        BY <1>4, <3>1, <3>2 DEF Ask, Asked, HeaderLen, BeginLen
  <2>2. /\ Ahead' = Ahead /\ Call(Asked)' /\ rd'.got = <<>> /\ (~ reads'.done => rbuf' = <<>>)
        /\ rbuf = <<>> /\ Asked > 0 => rd'.head = <<>> /\ ~ reads'.done
    <3>0. PICK len \in Nat : len = Asked
        BY <2>1
    <3>1. ef_bio_read(len) /\ len > 0
        BY <2>1, <3>0
    <3>2. Asked' = len
        BY <1>2, <3>0 DEF Asked
    <3>3. /\ Ahead' = Ahead /\ Call(len)' /\ rd'.got = <<>> /\ (~ reads'.done => rbuf' = <<>>)
          /\ rbuf = <<>> /\ len > 0 => rd'.head = <<>> /\ ~ reads'.done
        BY <1>1, <3>1, ReadAhead
    <3>4. Call(Asked)'
        BY <3>2, <3>3 DEF Call
    <3> QED
        BY <3>0, <3>1, <3>3, <3>4
  <2>3. Calls'
    BY <1>2, <1>4, <2>2 DEF Calls
  <2>4. inp' = inp /\ peer' = peer
    BY <2>1 DEF ef_bio_read, conn_vars
  <2>5. CASE InPlace
    <3>1. Len(Ahead) \in 0 .. Len(Ahead) /\ Ahead' = Take(Ahead, Len(Ahead))
      <4>1. Ahead \in Tokens /\ Len(Ahead) \in Nat
        BY <1>1, AheadFacts
      <4>2. Take(Ahead, Len(Ahead)) = Ahead
        BY <4>1, SubSeqFull DEF Take, Tokens
      <4> QED
        BY <2>2, <4>1, <4>2
    <3>2. at # "read"
        BY <1>3 DEF Calling
    <3>3. InPlace'
        BY <1>1, <1>2, <1>4, <2>5, <3>1, <3>2, PlaceLess
    <3> QED
        BY <1>1, <1>2, <2>3, <3>3 DEF RequestInv
  <2>6. CASE Lost
    <3>1. rbuf = <<>>
        BY <2>6 DEF Lost
    <3>2. Lost'
        BY <1>2, <2>1, <2>2, <2>4, <2>6, <3>1 DEF Lost
    <3> QED
        BY <1>1, <1>2, <2>3, <3>2 DEF RequestInv
  <2> QED
    BY <1>1, <2>5, <2>6
<1>5. CASE at = "params_skip"
  <2>1. ef_bio_reader_skip(hdr[2].b) /\ hdr[2].b \in Nat /\ hdr[2].b > 0
    <3>1. hdr[2].b \in Int /\ hdr[2].b > 0
        BY <1>1, <1>3, <1>5, TokenFacts DEF Control
    <3> QED
        BY <1>5, <3>1 DEF Ask
  <2>2. /\ SkipCall' /\ rd'.head = <<>> /\ rd'.got = <<>> /\ (~ reads'.done => rbuf' = <<>>)
        /\ rbuf = <<>> => ~ reads'.done
        /\ \E n \in 0 .. Len(Ahead) : n <= ToSkip /\ ToSkip' = ToSkip - n /\ Ahead' = Drop(Ahead, n)
    BY <1>1, <2>1, SkipAhead
  <2>3. Calls'
    BY <1>2, <1>5, <2>2 DEF Calls
  <2>4. inp' = inp /\ peer' = peer
    BY <2>1 DEF ef_bio_reader_skip, conn_vars
  <2>5. CASE InPlace
    <3>1. AtPadding
        BY <1>5, <2>5 DEF InPlace
    <3>2. InPlace'
        BY <1>1, <1>2, <1>5, <2>2, <3>1, SkipMoves
    <3> QED
        BY <1>1, <1>2, <2>3, <3>2 DEF RequestInv
  <2>6. CASE Lost
    <3>1. rbuf = <<>>
        BY <2>6 DEF Lost
    <3>2. Lost'
        BY <1>2, <2>2, <2>4, <2>6, <3>1 DEF Lost
    <3> QED
        BY <1>1, <1>2, <2>3, <3>2 DEF RequestInv
  <2> QED
    BY <1>1, <2>5, <2>6
<1> QED
    BY <1>4, <1>5

\* A turn of a read or a skip.
LEMMA ReadRequest ==
    ASSUME ReadInv, RequestInv, ef_safe_read,
           UNCHANGED <<at, hdr, alloc, buffer, request, sent, answered>>
    PROVE  RequestInv'
<1>1. Wire /\ Reader /\ Control /\ Calls /\ (answered \/ sent \in Requests) /\ (InPlace \/ Lost)
    BY DEF ReadInv, RequestInv
<1>2. rd.op # "none" /\ at \in Calling /\ peer' = peer
    BY <1>1 DEF ef_safe_read, Receive, EndOfFile, ReadFails, Control, conn_vars
<1>3. hdr[2] \in Token
    BY <1>1 DEF Control
<1>4. ASSUME Lost PROVE Lost'
  <2>1. ReadFails
    BY <1>4 DEF Lost, ef_safe_read, Receive, EndOfFile
  <2>2. rd.head \o rd.got = <<>>
    BY <1>4, EmptyFacts, JoinFacts DEF Lost
  <2>3. reads' = Result(-1, <<>>) /\ rd' = NoRead /\ rbuf' = <<>> /\ inp' = <<>>
    BY <1>4, <2>1, <2>2 DEF ReadFails, Lost, conn_vars
  <2>4. reads'.n = -1 /\ reads'.data = <<>>
    BY <2>3, EmptyFacts, ResultFacts
  <2> QED
    BY <1>2, <1>4, <2>3, <2>4 DEF Lost, NoRead
<1>5. CASE at # "params_skip"
  <2>1. Call(Asked) /\ Asked \in Nat
    <3>1. hdr[2].a \in Int
        BY <1>3, TokenFacts
    <3>2. at \in {"params_body", "stdin_body"} => hdr[2].a > 0
        BY <1>1 DEF Control
    <3> QED
        BY <1>1, <1>2, <1>5, <3>1, <3>2 DEF Calls, Asked
  <2>2. Call(Asked)' /\ (Ahead' = Ahead \/ \E m \in 0 .. Len(Ahead) : Ahead' = Take(Ahead, m))
    <3>0. PICK len \in Nat : len = Asked
        BY <2>1
    <3>1. Call(len) /\ Asked' = len
        BY <2>1, <3>0 DEF Asked, Call
    <3>2. Call(len)' /\ (Ahead' = Ahead \/ \E m \in 0 .. Len(Ahead) : Ahead' = Take(Ahead, m))
        BY <1>1, <3>1, TransferAhead
    <3> QED
        BY <3>1, <3>2 DEF Call
  <2>3. Calls'
    BY <1>5, <2>2 DEF Calls
  <2>4. CASE InPlace
    <3>1. \E m \in 0 .. Len(Ahead) : Ahead' = Take(Ahead, m)
      <4>1. Ahead \in Tokens /\ Len(Ahead) \in Nat
        BY <1>1, AheadFacts
      <4>2. Take(Ahead, Len(Ahead)) = Ahead /\ Len(Ahead) \in 0 .. Len(Ahead)
        BY <4>1, SubSeqFull DEF Take, Tokens
      <4>3. CASE Ahead' = Ahead
        BY <4>2, <4>3
      <4> QED
        BY <2>2, <4>3
    <3>2. at # "read"
        BY <1>2 DEF Calling
    <3>3. InPlace'
        BY <1>1, <1>5, <2>4, <3>1, <3>2, PlaceLess
    <3> QED
        BY <1>1, <2>3, <3>3 DEF RequestInv
  <2> QED
    BY <1>1, <1>4, <2>3, <2>4 DEF RequestInv
<1>6. CASE at = "params_skip"
  <2>1. SkipCall
    BY <1>1, <1>2, <1>6 DEF Calls
  <2>2. /\ SkipCall'
        /\ \E n \in 0 .. Len(Ahead) : /\ n <= ToSkip /\ Ahead' = Drop(Ahead, n)
                                      /\ ToSkip' = ToSkip - n \/ (Ahead' = <<>> /\ ToSkip' = 0)
    BY <1>1, <2>1, SkipTransferAhead
  <2>3. Calls'
    BY <1>6, <2>2 DEF Calls
  <2>4. CASE InPlace
    <3>1. AtPadding
        BY <1>6, <2>4 DEF InPlace
    <3>2. InPlace'
        BY <1>1, <1>6, <2>2, <3>1, SkipMoves
    <3> QED
        BY <1>1, <2>3, <3>2 DEF RequestInv
  <2> QED
    BY <1>1, <1>4, <2>3, <2>4 DEF RequestInv
<1> QED
    BY <1>5, <1>6

\* Of a step that leaves the reader alone.
LEMMA ReaderSame ==
    ASSUME UNCHANGED <<rbuf, rd, reads>>
    PROVE  /\ Held' = Held /\ (inp' = inp => Ahead' = Ahead)
           /\ \A n : Call(n)' <=> Call(n)
           /\ SkipCall' <=> SkipCall
           /\ hdr' = hdr => ToSkip' = ToSkip
    BY DEF Held, Ahead, Call, SkipCall, ToSkip

\* A request is sent while none is read.
LEMMA SendRequestInv ==
    ASSUME ReadInv, RequestInv, SendRequest
    PROVE  RequestInv'
<1>1. Wire /\ Reader /\ Control /\ Calls /\ InPlace
    BY DEF ReadInv, RequestInv, SendRequest, Lost
<1>2. /\ answered /\ UNCHANGED <<at, hdr, alloc, buffer, request, rbuf, rd, reads>>
      /\ sent' \in Requests /\ ~ answered' /\ inp' = inp \o RequestBytes(sent')
    BY DEF SendRequest, request_vars, reader_vars
<1> DEFINE all == RequestBytes(sent')
<1>3. all \in Tokens /\ inp \in Tokens /\ Held \in Tokens
    BY <1>1, <1>2, RequestLayout, AheadFacts DEF Wire
<1>4. Calls'
    BY <1>1, <1>2, ReaderSame DEF Calls, Asked
<1>5. at = "read" => Waiting(inp)'
  <2> SUFFICES ASSUME at = "read" PROVE Waiting(inp)'
    OBVIOUS
  <2>1. Clean(inp)
    BY <1>1, <1>2 DEF InPlace, Waiting
  <2>2. Fresh(inp \o all, all)
    BY <1>3, <2>1, FreshSent
  <2> QED
    BY <1>2, <2>2 DEF Waiting, Whole
<1>6. at = "begin" => AtBegin'
  <2> SUFFICES ASSUME at = "begin" PROVE AtBegin'
    OBVIOUS
  <2>1. Clean(Ahead) /\ ~ alloc /\ buffer = <<>>
    BY <1>1, <1>2 DEF InPlace, AtBegin, Waiting
  <2>2. Ahead' = Ahead \o all
    <3>1. Assoc(Held, inp, all)
        BY <1>3, JoinAssoc
    <3>2. Held' = Held
        BY <1>2, ReaderSame
    <3> QED
        BY <1>2, <3>1, <3>2 DEF Ahead, Assoc
  <2>3. Ahead \in Tokens
    BY <1>1, AheadFacts
  <2>4. Fresh(Ahead \o all, all)
    BY <1>3, <2>1, <2>3, FreshSent
  <2> QED
    BY <1>2, <2>1, <2>2, <2>4 DEF AtBegin, Waiting, Whole
<1>7. /\ at \notin {"begin_body", "params", "params_body", "params_skip", "stdin", "stdin_body"}
      /\ ~ (at = "returned" /\ request.got = "some")
      /\ at \notin {"record", "copy", "pad", "end", "flush", "answered"}
    BY <1>1, <1>2 DEF InPlace, AtBody, AtHeader, AtContent, AtPadding, AtStdin, AfterAll, Begun, Complete
<1>8. InPlace'
    BY <1>2, <1>5, <1>6, <1>7 DEF InPlace
<1> QED
    BY <1>2, <1>4, <1>8 DEF RequestInv

\* The connection ends.
LEMMA HangupRequest ==
    ASSUME ReadInv, RequestInv, NEW how, Hangup(how)
    PROVE  RequestInv'
<1>1. Wire /\ Reader /\ Control /\ Calls /\ InPlace /\ (answered \/ sent \in Requests)
    BY DEF ReadInv, RequestInv, Hangup, Lost
<1>2. /\ inp' = <<>>
      /\ UNCHANGED <<at, hdr, alloc, buffer, request, rbuf, rd, reads, sent, answered>>
    BY DEF Hangup, request_vars, reader_vars
<1>3. inp \in Tokens /\ Held \in Tokens /\ Len(Held) \in Nat /\ Len(inp) \in Nat
      /\ Len(Ahead) = Len(Held) + Len(inp)
    BY <1>1, AheadFacts DEF Wire
<1>4. Calls'
    BY <1>1, <1>2, ReaderSame DEF Calls, Asked
<1>5. Ahead' = Take(Ahead, Len(Held)) /\ Len(Held) \in 0 .. Len(Ahead)
  <2>1. Take(Held \o inp, Len(Held)) = Held
    BY <1>3, CutJoin
  <2>2. Ahead' = Held
    BY <1>2, <1>3, ReaderSame, JoinFacts DEF Ahead
  <2> QED
    BY <1>3, <2>1, <2>2 DEF Ahead
<1>6. inp' = Take(inp, 0) /\ 0 \in 0 .. Len(inp)
  <2>1. Len(Take(inp, 0)) = 0 /\ Take(inp, 0) \in Tokens /\ 0 \in 0 .. Len(inp)
    BY <1>3, CutFacts
  <2> QED
    BY <1>2, <2>1, EmptyFacts
<1>7. ToSkip' = ToSkip
    BY <1>2, ReaderSame
<1>8. InPlace'
    BY <1>1, <1>2, <1>5, <1>6, <1>7, PlaceLess
<1> QED
    BY <1>1, <1>2, <1>4, <1>8 DEF RequestInv

\* A step that leaves all of it alone.
LEMMA RestRequest ==
    ASSUME RequestInv, UNCHANGED <<peer, inp, rbuf, rd, reads, at, hdr, alloc, buffer, request, sent, answered>>
    PROVE  RequestInv'
<1>1. Ahead' = Ahead /\ ToSkip' = ToSkip /\ Calls' /\ (Lost => Lost')
    BY ReaderSame DEF RequestInv, Calls, Asked, Lost
<1>2. Whole' = Whole /\ Off' = Off /\ Pieces' = Pieces /\ Sent' = Sent
    BY DEF Whole, Off, Pieces, Sent
<1>3. InPlace => InPlace'
    BY <1>1, <1>2 DEF InPlace, Waiting, AtBegin, AtBody, AtHeader, AtContent, AtPadding, AtStdin,
                      AfterAll, Begun, Complete, Expect, Buffered, Size0
<1> QED
    BY <1>1, <1>3 DEF RequestInv

\* The steps that take the result of a call.
LEMMA GotRequest ==
    ASSUME ReadInv, WriteInv, RequestInv,
           \/ GotBegin \/ GotBeginBody \/ GotParams \/ GotParamsBody
           \/ GotSkipped \/ GotStdin \/ GotStdinBody
    PROVE  RequestInv'
<1>1. Wire /\ Reader /\ Control /\ Calls /\ RequestKept /\ (answered \/ sent \in Requests) /\ (InPlace \/ Lost)
    BY DEF ReadInv, WriteInv, RequestInv
<1>2. PICK place : Got(place)
    BY DEF GotBegin, GotBeginBody, GotParams, GotParamsBody, GotSkipped, GotStdin, GotStdinBody
<1>3. sent' = sent /\ answered' = answered /\ Calls'
  <2>1. rd' = NoRead /\ ~ reads'.done
    BY <1>1, <1>2, GotAhead
  <2> QED
    BY <1>2, <2>1, IdleCalls DEF Got, server_vars
<1>4. CASE Lost
    BY <1>1, <1>3, <1>4, LostStep DEF RequestInv
<1>5. CASE InPlace
  <2>1. CASE GotBegin
    <3>1. at = "begin"
        BY <2>1 DEF GotBegin, Got
    <3>2. AtBegin /\ Call(2)
        BY <1>1, <1>5, <3>1 DEF InPlace, Calls, Calling, Asked
    <3> QED
        BY <1>1, <1>3, <2>1, <3>1, <3>2, BeginStep DEF RequestInv
  <2>2. CASE GotBeginBody
    <3>1. at = "begin_body"
        BY <2>2 DEF GotBeginBody, Got
    <3>2. AtBody /\ Call(2) /\ sent \in Requests
        BY <1>1, <1>5, <3>1 DEF InPlace, Calls, Calling, Asked, AtBody
    <3> QED
        BY <1>1, <1>3, <2>2, <3>1, <3>2, BeginBodyStep DEF RequestInv
  <2>3. CASE GotParams
    <3>1. at = "params"
        BY <2>3 DEF GotParams, Got
    <3>2. AtHeader /\ Call(2) /\ sent \in Requests
        BY <1>1, <1>5, <3>1 DEF InPlace, Calls, Calling, Asked, AtHeader, Begun
    <3> QED
        BY <1>1, <1>3, <2>3, <3>1, <3>2, HeaderStep DEF RequestInv
  <2>4. CASE GotParamsBody
    <3>1. at = "params_body"
        BY <2>4 DEF GotParamsBody, Got
    <3>2. AtContent /\ Call(hdr[2].a) /\ sent \in Requests
        BY <1>1, <1>5, <3>1 DEF InPlace, Calls, Calling, Asked, AtContent, Begun
    <3> QED
        BY <1>1, <1>3, <2>4, <3>1, <3>2, ContentStep DEF RequestInv
  <2>5. CASE GotSkipped
    <3>1. at = "params_skip"
        BY <2>5 DEF GotSkipped, Got
    <3>2. AtPadding /\ SkipCall /\ sent \in Requests
        BY <1>1, <1>5, <3>1 DEF InPlace, Calls, Calling, AtPadding, Begun
    <3> QED
        BY <1>1, <1>3, <2>5, <3>1, <3>2, PaddingStep DEF RequestInv
  <2>6. CASE GotStdin
    <3>1. at = "stdin"
        BY <2>6 DEF GotStdin, Got
    <3>2. AtStdin /\ Call(2) /\ sent \in Requests
        BY <1>1, <1>5, <3>1 DEF InPlace, Calls, Calling, Asked, AtStdin, Complete
    <3> QED
        BY <1>1, <1>3, <2>6, <3>1, <3>2, StdinStep DEF RequestInv
  <2>7. CASE GotStdinBody
    BY <1>5, <2>7 DEF GotStdinBody, Got, InPlace
  <2> QED
    BY <2>1, <2>2, <2>3, <2>4, <2>5, <2>6, <2>7
<1> QED
    BY <1>1, <1>4, <1>5

\* The steps that answer a request leave what is ahead alone.
LEMMA AnswerRequest ==
    ASSUME ReadInv, RequestInv,
           fcgi_new_response \/ PutHeader \/ PutContent \/ PutPadding \/ PutEnd \/ Flush
    PROVE  RequestInv'
<1>1. Wire /\ Reader /\ Control /\ (answered \/ sent \in Requests) /\ (InPlace \/ Lost)
    BY DEF ReadInv, RequestInv
<1>2. UNCHANGED <<inp, rbuf, rd, reads, request, sent, answered>>
    BY DEF fcgi_new_response, PutHeader, PutContent, PutPadding, PutEnd, Flush, Put, ef_bio_write,
           ef_bio_writer_flush, conn_vars, reader_vars, request_vars, server_vars
<1>3. at \in {"returned", "record", "copy", "pad", "end", "flush"}
    BY DEF fcgi_new_response, PutHeader, PutContent, PutPadding, PutEnd, Flush, Put
<1>4. InPlace /\ at \notin Calling
    BY <1>1, <1>3 DEF Lost, Calling
<1>5. Calls'
  <2>1. ~ reads.done /\ rd = NoRead
    BY <1>1, <1>4 DEF Control, Reader
  <2> QED
    BY <1>2, <2>1, IdleCalls
<1>6. AfterAll => AfterAll'
    BY <1>2, ReaderSame DEF AfterAll, Complete, Clean
<1>7. CASE fcgi_new_response
  <2>1. at = "returned" /\ at' = IF request.got = "some" THEN "record" ELSE "closed"
    BY <1>7 DEF fcgi_new_response
  <2>2. InPlace'
    BY <1>4, <1>6, <2>1 DEF InPlace
  <2> QED
    BY <1>1, <1>2, <1>5, <2>2 DEF RequestInv
<1>8. CASE PutHeader \/ PutContent \/ PutPadding \/ PutEnd \/ Flush
  <2>1. at \in {"record", "copy", "pad", "end", "flush"}
    BY <1>8 DEF PutHeader, PutContent, PutPadding, PutEnd, Flush, Put
  <2>2. at' \in {"record", "copy", "pad", "end", "flush", "answered"}
    BY <1>8 DEF PutHeader, PutContent, PutPadding, PutEnd, Flush, Put
  <2>3. InPlace'
    BY <1>4, <1>6, <2>1, <2>2 DEF InPlace
  <2> QED
    BY <1>1, <1>2, <1>5, <2>3 DEF RequestInv
<1> QED
    BY <1>7, <1>8

\* With its answer the server has nothing on the way.
LEMMA AnsweredRequest ==
    ASSUME ReadInv, RequestInv, Answered
    PROVE  RequestInv'
<1>1. Wire /\ Reader /\ Control /\ (InPlace \/ Lost) /\ at = "answered"
    BY DEF ReadInv, RequestInv, Answered
<1>2. UNCHANGED <<inp, rbuf, rd, reads, request, sent>> /\ answered' /\ at' \in {"read", "closed"}
    BY DEF Answered, conn_vars, reader_vars, request_vars
<1>3. AfterAll
    BY <1>1 DEF Lost, InPlace
<1>4. Calls'
  <2>1. ~ reads.done /\ rd = NoRead
    BY <1>1 DEF Control, Reader, Calling
  <2> QED
    BY <1>2, <2>1, IdleCalls
<1>5. Clean(inp)
  <2>1. Held \in Tokens /\ inp \in Tokens /\ Ahead \in Tokens /\ Len(Held) \in Nat /\ Len(inp) \in Nat
        /\ Len(Ahead) = Len(Held) + Len(inp)
    BY <1>1, AheadFacts DEF Wire
  <2>2. Drop(Ahead, Len(Held)) = inp
    BY <2>1, CutJoin DEF Ahead
  <2>3. Len(Held) \in 0 .. Len(Ahead)
    BY <2>1
  <2> QED
    BY <1>3, <2>1, <2>2, <2>3, CleanParts DEF AfterAll
<1>6. InPlace'
    BY <1>2, <1>5 DEF InPlace, Waiting, Clean
<1> QED
    BY <1>2, <1>4, <1>6 DEF RequestInv

\* A new reader holds nothing.
LEMMA NewReader ==
    ASSUME ReadInv, RequestInv, fcgi_read_request
    PROVE  RequestInv'
<1>1. Wire /\ Reader /\ Control /\ (InPlace \/ Lost) /\ at = "read" /\ (answered \/ sent \in Requests)
    BY DEF ReadInv, RequestInv, fcgi_read_request
<1>2. /\ UNCHANGED <<inp, rd, reads, sent, answered>>
      /\ at' = "begin" /\ rbuf' = <<>> /\ alloc' = FALSE /\ buffer' = <<>>
    BY DEF fcgi_read_request, conn_vars, server_vars
<1>3. ~ reads.done /\ rd = NoRead /\ inp \in Tokens
    BY <1>1 DEF Control, Reader, Wire, Calling
<1>4. Calls'
    BY <1>2, <1>3, IdleCalls
<1>5. Waiting(inp)
    BY <1>1 DEF Lost, InPlace
<1>6. Ahead' = inp
  <2>1. Held' = <<>>
    BY <1>2, <1>3, EmptyFacts, JoinFacts DEF Held, NoRead
  <2> QED
    BY <1>2, <1>3, <2>1, JoinFacts DEF Ahead
<1>7. AtBegin'
    BY <1>2, <1>5, <1>6 DEF AtBegin, Waiting, Whole
<1>8. InPlace'
    BY <1>2, <1>7 DEF InPlace
<1> QED
    BY <1>1, <1>2, <1>4, <1>8 DEF RequestInv

\* The invariant of the request is inductive.
LEMMA RequestInvNext == ReadInv /\ WriteInv /\ RequestInv /\ [Next]_vars => RequestInv'
<1> SUFFICES ASSUME ReadInv, WriteInv, RequestInv, [Next]_vars PROVE RequestInv'
    OBVIOUS
<1>1. CASE SendRequest
    BY <1>1, SendRequestInv
<1>2. CASE Hangup("eof") \/ Hangup("reset")
    BY <1>2, HangupRequest
<1>3. CASE fcgi_proc
  <2>1. CASE Transfer
    <3>1. UNCHANGED <<at, hdr, alloc, buffer, request, sent, answered>>
        BY <2>1 DEF Transfer, request_vars, server_vars
    <3>2. CASE ef_safe_read
        BY <3>1, <3>2, ReadRequest
    <3>3. CASE ef_safe_write
      <4>1. UNCHANGED <<peer, inp, rbuf, rd, reads>>
        BY <3>3 DEF ef_safe_write, Send, WriteFails, reader_vars, conn_vars
      <4> QED
        BY <3>1, <4>1, RestRequest
    <3> QED
        BY <2>1, <3>2, <3>3 DEF Transfer
  <2> QED
    BY <1>3, <2>1, NewReader, AskRequest, GotRequest, AnswerRequest, AnsweredRequest DEF fcgi_proc
<1>4. CASE UNCHANGED vars
  <2>1. UNCHANGED <<peer, inp, rbuf, rd, reads, at, hdr, alloc, buffer, request, sent, answered>>
    BY <1>4 DEF vars, bio_vars, conn_vars, reader_vars, request_vars, server_vars
  <2> QED
    BY <2>1, RestRequest
<1> QED
    BY <1>1, <1>2, <1>3, <1>4 DEF Next, Finished

\* At first nothing is on the way.
LEMMA RequestInvInit == Init => RequestInv
<1> SUFFICES ASSUME Init PROVE RequestInv
    OBVIOUS
<1>1. at = "read" /\ answered /\ inp = <<>>
    BY DEF Init, ef_bio_new
<1>2. Calls
    BY <1>1 DEF Calls, Calling
<1>3. Waiting(inp)
    BY <1>1, EmptyFacts DEF Waiting, Clean
<1>4. InPlace
    BY <1>1, <1>3 DEF InPlace
<1> QED
    BY <1>1, <1>2, <1>4 DEF RequestInv

\* A request that fcgi_read_request returns has the parameters, and the flag,
\* that the web server sent: for every request, every cut of its parameters
\* into records and of its bytes into reads, whether they go through the buffer
\* or past it, on a connection that carries requests before and after it, and
\* whenever the connection ends or breaks.
THEOREM RequestRead == Spec => []RequestAsSent
<1>1. RequestInv => RequestAsSent
  <2> SUFFICES ASSUME RequestInv, at = "returned", request.got = "some"
               PROVE  request.params = Pairs(sent.params) /\ request.keep = sent.keep
    BY DEF RequestAsSent
  <2>1. AfterAll
    BY DEF RequestInv, Lost, InPlace
  <2> QED
    BY <2>1 DEF AfterAll, Complete
<1>2. Spec => [](ReadInv /\ WriteInv)
    BY ReadInvAlways, WriteInvAlways, PTL
<1>3. Spec => []RequestInv
    BY <1>2, RequestInvInit, RequestInvNext, PTL DEF Spec
<1> QED
    BY <1>1, <1>3, PTL
-----------------------------------------------------------------------------
(* What the web server reads *)

\* A record as its reader takes it.
Arrivals == [type : Int, content : Tokens, whole : BOOLEAN, fits : BOOLEAN]

\* Sizes are sizes.
Sized(w) == \A i \in 1 .. Len(w) : w[i].k = "size" => w[i].a \in Nat /\ w[i].b \in Nat

\* A record taken from tokens.
LEMMA ArrivedFacts ==
    ASSUME NEW w \in Tokens, Sized(w), NEW i \in 1 .. Len(w), i + 1 <= Len(w),
           w[i + 1].k = "size"
    PROVE  /\ w[i + 1].a \in Nat /\ w[i + 1].b \in Nat
           /\ NextRecord(w, i) \in Nat /\ NextRecord(w, i) > i
           /\ Arrived(w, i) \in Arrivals
<1>1. Len(w) \in Nat /\ i \in Nat /\ i + 1 \in 1 .. Len(w) /\ \A j \in 1 .. Len(w) : w[j] \in Token
    BY LenProperties DEF Tokens
<1>2. w[i + 1].a \in Nat /\ w[i + 1].b \in Nat /\ w[i].a \in Int
    BY <1>1, TokenFacts DEF Sized
<1> DEFINE len == w[i + 1].a
           b == w[i + 1].b
           last == Least(i + 1 + len, Len(w))
           content == SubSeq(w, i + 2, last)
<1>3. NextRecord(w, i) = i + 2 + len + b /\ len \in Nat /\ b \in Nat
    BY <1>2 DEF NextRecord
<1>4. content \in Tokens
  <2> HIDE DEF len
  <2>1. last \in Int /\ last <= Len(w)
    BY <1>1, <1>3 DEF Least
  <2> DEFINE lo == i + 2
             T == Token
  <2>2. \A j \in lo .. last : w[j] \in T
    <3> HIDE DEF last
    <3> QED
      BY <1>1, <2>1
  <2>3. lo \in Int
    BY <1>1
  <2> HIDE DEF last, lo, T
  <2>4. SubSeq(w, lo, last) \in Seq(T)
    BY <2>1, <2>2, <2>3, SubSeqProperties
  <2> QED
    BY <2>4 DEF lo, T, Tokens
<1>5. Arrived(w, i) = [type |-> w[i].a, content |-> content, whole |-> NextRecord(w, i) <= Len(w) + 1,
                       fits |-> len <= MaxContent /\ b < Align /\ (len + b) % Align = 0]
    BY Zenon DEF Arrived
<1>6. NextRecord(w, i) > i /\ NextRecord(w, i) \in Nat
  <2> HIDE DEF len, b
  <2> QED
    BY <1>1, <1>3
<1> HIDE DEF content, len, b
<1>7. Arrived(w, i) \in Arrivals
    BY <1>2, <1>4, <1>5 DEF Arrivals
<1> QED
    BY <1>2, <1>6, <1>7

\* Where the records in w begin; behind the last one there is no header.
Headers(w, m, off) ==
    /\ off \in [0 .. m -> Nat] /\ off[0] = 0
    /\ \A k \in 1 .. m : /\ off[k - 1] + 2 <= Len(w)
                         /\ w[off[k - 1] + 1].k = "type" /\ w[off[k - 1] + 2].k = "size"
                         /\ off[k] + 1 = NextRecord(w, off[k - 1] + 1)
    /\ Len(w) < off[m] + 2

\* The server takes these records.
LEMMA RecordsTaken ==
    ASSUME NEW w \in Tokens, Sized(w), NEW m \in Nat, NEW off, Headers(w, m, off)
    PROVE  /\ Records(w) \in Seq(Arrivals) /\ Len(Records(w)) = m
           /\ \A i \in 1 .. m : Records(w)[i] = Arrived(w, off[i - 1] + 1)
<1> DEFINE n == Len(w) + 1
           next(i) == Least(NextRecord(w, i), n)
           now(i, g) == IF i >= Len(w) THEN <<>>
                        ELSE IF w[i].k # "type" \/ w[i + 1].k # "size" THEN <<NotARecord>>
                        ELSE <<Arrived(w, i)>> \o g[next(i)]
           Rule(g) == g = [i \in 1 .. n |-> now(i, g)]
           S == Seq(Arrivals)
<1>1. Len(w) \in Nat /\ n \in Nat /\ 1 \in 1 .. n
    BY LenProperties DEF Tokens
<1>2. Records(w) = (CHOOSE g : Rule(g))[1]
    BY DEF Records
<1>3. ASSUME NEW i \in 1 .. n, i < Len(w), w[i + 1].k = "size"
      PROVE  next(i) \in i + 1 .. n /\ Arrived(w, i) \in Arrivals
  <2>1. i \in 1 .. Len(w) /\ i + 1 <= Len(w)
    BY <1>1, <1>3
  <2>2. NextRecord(w, i) \in Nat /\ NextRecord(w, i) > i /\ Arrived(w, i) \in Arrivals
    BY <1>3, <2>1, ArrivedFacts
  <2> QED
    BY <1>1, <2>1, <2>2 DEF Least
<1> HIDE DEF next
<1>4. \E g : Rule(g)
  <2> DEFINE F == [1 .. n -> S]
             step == [i \in 1 .. n |-> [g \in F |-> now(i, g)]]
  <2>1. ASSUME NEW i \in 1 .. n, NEW g \in F PROVE now(i, g) \in S
    <3>1. CASE i >= Len(w)
      BY <3>1, EmptySeq
    <3>2. CASE i < Len(w) /\ (w[i].k # "type" \/ w[i + 1].k # "size")
      <4>1. NotARecord \in Arrivals
        BY EmptyFacts DEF NotARecord, Arrivals
      <4>2. <<NotARecord>> \in S
        BY <4>1
      <4>3. ~ (i >= Len(w))
        BY <1>1, <3>2
      <4> QED
        BY <3>2, <4>2, <4>3
    <3>3. CASE i < Len(w) /\ ~ (w[i].k # "type" \/ w[i + 1].k # "size")
      <4>1. next(i) \in 1 .. n /\ Arrived(w, i) \in Arrivals
        BY <1>1, <1>3, <3>3
      <4>2. <<Arrived(w, i)>> \in S /\ g[next(i)] \in S
        BY <4>1
      <4>3. <<Arrived(w, i)>> \o g[next(i)] \in S
        BY <4>2, ConcatProperties
      <4>4. ~ (i >= Len(w))
        BY <1>1, <3>3
      <4> QED
        BY <3>3, <4>3, <4>4
    <3> QED
      BY <1>1, <3>1, <3>2, <3>3
  <2>2. step \in [1 .. n -> [F -> S]] /\ \A i \in 1 .. n : \A g \in F : step[i][g] = now(i, g)
    <3> HIDE DEF now, S
    <3> QED
      BY <2>1
  <2>3. \A i \in 1 .. n : \A f, g \in F : (\A j \in i + 1 .. n : f[j] = g[j]) => now(i, f) = now(i, g)
    <3> SUFFICES ASSUME NEW i \in 1 .. n, NEW f \in F, NEW g \in F, \A j \in i + 1 .. n : f[j] = g[j]
                 PROVE  now(i, f) = now(i, g)
      OBVIOUS
    <3>1. CASE i >= Len(w) \/ w[i].k # "type" \/ w[i + 1].k # "size"
      BY <3>1
    <3>2. CASE ~ (i >= Len(w)) /\ w[i + 1].k = "size"
      <4>1. next(i) \in i + 1 .. n
        BY <1>1, <1>3, <3>2
      <4>2. f[next(i)] = g[next(i)]
        BY <4>1
      <4> QED
        BY <4>2
    <3> QED
      BY <3>1, <3>2
  <2>4. \A i \in 1 .. n : \A f, g \in F : (\A j \in i + 1 .. n : f[j] = g[j]) => step[i][f] = step[i][g]
    <3> HIDE DEF now, step, F
    <3> QED
      BY <2>2, <2>3
  <2>5. S # {}
    BY EmptySeq
  <2> HIDE DEF step, now, S
  <2>6. PICK f \in [1 .. n -> S] : Backwards(n, step, f)
    BY <1>1, <2>2, <2>4, <2>5, DefinedDown
  <2>7. \A i \in 1 .. n : f[i] = now(i, f)
    BY <2>2, <2>6 DEF Backwards
  <2>8. Rule(f)
    BY <2>7
  <2> QED
    BY <2>8
<1>5. ASSUME NEW g, Rule(g)
      PROVE  /\ g[1] \in S /\ Len(g[1]) = m
             /\ \A i \in 1 .. m : g[1][i] = Arrived(w, off[i - 1] + 1)
  <2> DEFINE Rest(k) == /\ g[off[k] + 1] \in S /\ Len(g[off[k] + 1]) = m - k
                        /\ \A i \in 1 .. m - k : g[off[k] + 1][i] = Arrived(w, off[(k + i) - 1] + 1)
             Here(k) == IF off[k] + 1 <= n THEN off[k] + 1 ELSE n
             RestHere(k) == /\ g[Here(k)] \in S /\ Len(g[Here(k)]) = m - k
                            /\ \A i \in 1 .. m - k : g[Here(k)][i] = Arrived(w, off[(k + i) - 1] + 1)
             K == {k \in 0 .. m : RestHere(k)}
  <2>1. \A i \in 1 .. n : g[i] = now(i, g)
    BY <1>5
  <2> HIDE DEF Rule
  <2>2. off \in [0 .. m -> Nat] /\ off[0] = 0 /\ Len(w) < off[m] + 2
    BY DEF Headers
  <2>3. m \in K
    <3>1. Here(m) \in 1 .. n /\ Here(m) >= Len(w)
      BY <1>1, <2>2
    <3> HIDE DEF Here
    <3>2. g[Here(m)] = <<>>
      BY <2>1, <3>1
    <3>3. <<>> \in S /\ Len(<<>>) = m - m /\ \A i \in 1 .. m - m : FALSE
      BY EmptySeq
    <3> HIDE DEF S
    <3>4. RestHere(m)
      BY <3>2, <3>3
    <3>5. m \in 0 .. m
      OBVIOUS
    <3> QED
      BY <3>4, <3>5
  <2>4. ASSUME NEW k \in 1 .. m, k \in K PROVE k - 1 \in K
    <3> DEFINE i == off[k - 1] + 1
    <3>1. /\ off[k - 1] + 2 <= Len(w) /\ w[off[k - 1] + 1].k = "type" /\ w[off[k - 1] + 2].k = "size"
          /\ off[k] + 1 = NextRecord(w, off[k - 1] + 1)
      BY DEF Headers
    <3>2. k - 1 \in 0 .. m /\ off[k - 1] \in Nat /\ off[k] \in Nat
      BY <2>2
    <3>3. /\ i \in 1 .. n /\ i < Len(w) /\ w[i].k = "type" /\ w[i + 1].k = "size"
          /\ NextRecord(w, i) = off[k] + 1 /\ Here(k - 1) = i
      <4>1. i + 1 = off[k - 1] + 2
        BY <3>2
      <4>2. i \in 1 .. n /\ i < Len(w) /\ off[k - 1] + 1 <= n
        BY <1>1, <3>1, <3>2
      <4> QED
        BY <3>1, <4>1, <4>2
    <3>4. next(i) = Here(k)
      <4>1. next(i) = Least(off[k] + 1, n)
        BY <3>3 DEF next
      <4>2. off[k] + 1 \in Nat
        BY <3>2
      <4> QED
        BY <1>1, <4>1, <4>2 DEF Least
    <3> HIDE DEF i, Here
    <3>5. g[i] = <<Arrived(w, i)>> \o g[Here(k)]
      <4>1. ~ (i >= Len(w))
        BY <1>1, <3>3
      <4>2. g[i] = now(i, g)
        BY <2>1, <3>3
      <4>3. now(i, g) = <<Arrived(w, i)>> \o g[next(i)]
        BY <3>3, <4>1
      <4> QED
        BY <3>4, <4>2, <4>3
    <3> DEFINE one == <<Arrived(w, i)>>
               t == g[Here(k)]
    <3>6. t \in S /\ Len(t) = m - k /\ \A j \in 1 .. m - k : t[j] = Arrived(w, off[(k + j) - 1] + 1)
      BY <2>4
    <3>7. one \in S /\ Len(one) = 1 /\ one[1] = Arrived(w, i)
      <4>1. Arrived(w, i) \in Arrivals
        BY <1>3, <3>3
      <4> QED
        BY <4>1
    <3> DEFINE T == Arrivals
    <3>a. t \in Seq(T) /\ one \in Seq(T)
      BY <3>6, <3>7
    <3> HIDE DEF one, t, T
    <3>8. /\ one \o t \in Seq(T) /\ Len(one \o t) = Len(one) + Len(t)
          /\ \A j \in 1 .. Len(one) : (one \o t)[j] = one[j]
          /\ \A j \in 1 .. Len(t) : (one \o t)[Len(one) + j] = t[j]
      BY <3>a, Joined
    <3> DEFINE u == one \o t
    <3>9. u \in S /\ Len(u) = m - (k - 1)
      BY <3>6, <3>7, <3>8 DEF T
    <3>10. ASSUME NEW j \in 1 .. m - (k - 1) PROVE u[j] = Arrived(w, off[((k - 1) + j) - 1] + 1)
      <4> HIDE DEF u
      <4>1. CASE j = 1
        <5>1. u[1] = one[1]
          BY <3>7, <3>8 DEF u
        <5>2. ((k - 1) + 1) - 1 = k - 1
          OBVIOUS
        <5> QED
          BY <3>7, <4>1, <5>1, <5>2 DEF i
      <4>2. CASE j # 1
        <5>1. j - 1 \in 1 .. m - k /\ 1 + (j - 1) = j /\ (k + (j - 1)) - 1 = ((k - 1) + j) - 1
          BY <4>2
        <5>2. u[1 + (j - 1)] = t[j - 1]
          BY <3>6, <3>7, <3>8, <5>1 DEF u
        <5> QED
          BY <3>6, <5>1, <5>2
      <4> QED
        BY <4>1, <4>2
    <3>11. g[Here(k - 1)] = u
      BY <3>3, <3>5 DEF one, t
    <3> HIDE DEF u
    <3>12. RestHere(k - 1)
      BY <3>9, <3>10, <3>11
    <3> QED
      BY <3>2, <3>12
  <2> HIDE DEF K
  <2>5. 0 .. m \subseteq K
    BY <2>3, <2>4, InductDown
  <2>6. 0 \in K
    BY <2>5
  <2>7. RestHere(0)
    BY <2>6 DEF K
  <2>8. Here(0) = 1
    BY <1>1, <2>2
  <2> HIDE DEF Here
  <2>9. g[1] \in S /\ Len(g[1]) = m - 0 /\ \A i \in 1 .. m - 0 : g[1][i] = Arrived(w, off[(0 + i) - 1] + 1)
    BY <2>7, <2>8
  <2>10. m - 0 = m /\ \A i \in 1 .. m : 0 + i = i
    OBVIOUS
  <2> HIDE DEF RestHere, S
  <2> QED
    BY <2>9, <2>10
<1> HIDE DEF Rule
<1>6. Rule(CHOOSE g : Rule(g))
    BY <1>4
<1> QED
    BY <1>2, <1>5, <1>6

\* What the records read add to the content.
Part(r) == IF r.type = FCGI_STDOUT THEN r.content ELSE <<>>

\* The content is put together record by record.
LEMMA ContentUpto ==
    ASSUME NEW rs \in Seq(Arrivals)
    PROVE  \E f \in [0 .. Len(rs) -> Tokens] :
              /\ f[0] = <<>> /\ \A i \in 1 .. Len(rs) : f[i] = f[i - 1] \o Part(rs[i])
              /\ Content(rs) = f[Len(rs)]
<1> DEFINE n == Len(rs)
           Rule(g) == g = [i \in 0 .. n |-> IF i = 0 THEN <<>> ELSE g[i - 1] \o Part(rs[i])]
<1>1. n \in Nat /\ \A i \in 1 .. n : rs[i] \in Arrivals
    BY LenProperties
<1>2. \A i \in 1 .. n : Part(rs[i]) \in Tokens
    BY <1>1, EmptyFacts DEF Part, Arrivals
<1>3. Content(rs) = (CHOOSE g : Rule(g))[n]
    BY DEF Content, Part
<1> HIDE DEF n
<1>4. \E g : Rule(g)
  <2> DEFINE S == Tokens
             step == [i \in 1 .. n |-> [s \in S |-> s \o Part(rs[i])]]
             none == <<>>
  <2>1. \A i \in 1 .. n : \A s \in S : s \o Part(rs[i]) \in S
    BY <1>2, JoinFacts
  <2>2. none \in S
    BY EmptyFacts
  <2> HIDE DEF S, none
  <2>3. step \in [1 .. n -> [S -> S]] /\ \A i \in 1 .. n : \A s \in S : step[i][s] = s \o Part(rs[i])
    BY <2>1
  <2> HIDE DEF step
  <2>4. PICK f \in [0 .. n -> S] : Stepwise(n, none, step, f)
    BY <1>1, <2>2, <2>3, DefinedUp
  <2>5. ASSUME NEW i \in 0 .. n PROVE f[i] = IF i = 0 THEN none ELSE f[i - 1] \o Part(rs[i])
    <3>1. CASE i = 0
      BY <2>4, <3>1 DEF Stepwise
    <3>2. CASE i # 0
      <4>1. i \in 1 .. n /\ i - 1 \in 0 .. n
        BY <1>1, <3>2
      <4>2. f[i] = step[i][f[i - 1]] /\ f[i - 1] \in S
        BY <2>4, <4>1 DEF Stepwise
      <4>3. f[i] = f[i - 1] \o Part(rs[i])
        BY <2>3, <4>1, <4>2
      <4> QED
        BY <3>2, <4>3
    <3> QED
      BY <3>1, <3>2
  <2>6. Rule(f)
    BY <2>5 DEF none
  <2> QED
    BY <2>6
<1>5. PICK g : Rule(g) /\ Content(rs) = g[n]
    BY <1>3, <1>4
<1>6. g[0] = <<>>
    BY <1>1, <1>5
<1>7. ASSUME NEW i \in 1 .. n PROVE g[i] = g[i - 1] \o Part(rs[i])
  <2>1. i \in 0 .. n /\ i # 0
    BY <1>1
  <2> QED
    BY <1>5, <2>1
<1> DEFINE K == {i \in 0 .. n : g[i] \in Tokens}
<1>8. 0 \in K
    BY <1>1, <1>6, EmptyFacts
<1>9. ASSUME NEW i \in 0 .. n - 1, i \in K PROVE i + 1 \in K
  <2>1. i + 1 \in 1 .. n /\ (i + 1) - 1 = i /\ g[i] \in Tokens /\ i + 1 \in 0 .. n
    BY <1>1, <1>9
  <2>2. g[i + 1] = g[i] \o Part(rs[i + 1]) /\ Part(rs[i + 1]) \in Tokens
    BY <1>2, <1>7, <2>1
  <2> QED
    BY <2>1, <2>2, JoinFacts
<1> HIDE DEF K
<1>10. 0 .. n \subseteq K
    BY <1>1, <1>8, <1>9, InductUpTo
<1>11. g \in [0 .. n -> Tokens]
  <2>1. g = [i \in 0 .. n |-> g[i]]
    BY <1>5
  <2>2. \A i \in 0 .. n : g[i] \in Tokens
    BY <1>10 DEF K
  <2> HIDE DEF Rule
  <2> QED
    BY <2>1, <2>2
<1> HIDE DEF Rule
<1> QED
    BY <1>5, <1>6, <1>7, <1>11 DEF n

\* A beginning of p that is continued.
LEMMA TakeMore ==
    ASSUME NEW p \in Tokens, NEW e \in Nat, NEW x \in Tokens, e + Len(x) <= Len(p),
           \A j \in 1 .. Len(x) : x[j] = p[e + j]
    PROVE  Take(p, e) \o x = Take(p, e + Len(x)) /\ e + Len(x) \in 0 .. Len(p)
<1> DEFINE l == Len(x)
           a == Take(p, e)
           b == Take(p, e + l)
<1>1. Len(p) \in Nat /\ l \in Nat /\ e \in 0 .. Len(p) /\ e + l \in 0 .. Len(p)
    BY LenProperties DEF Tokens
<1>2. /\ a \in Tokens /\ Len(a) = e /\ b \in Tokens /\ Len(b) = e + l
    BY <1>1, CutFacts
<1>3. \A i \in 1 .. e : a[i] = p[i]
    BY <1>1, TakePlaces
<1>4. \A i \in 1 .. e + l : b[i] = p[i]
    BY <1>1, TakePlaces
<1> HIDE DEF a, b
<1>5. /\ a \o x \in Tokens /\ Len(a \o x) = e + l
      /\ \A i \in 1 .. e : (a \o x)[i] = a[i]
      /\ \A i \in 1 .. l : (a \o x)[e + i] = x[i]
    BY <1>1, <1>2, JoinPlaces
<1> DEFINE u == a \o x
<1>6. ASSUME NEW i \in 1 .. e + l PROVE u[i] = b[i]
  <2> HIDE DEF u
  <2>1. CASE i <= e
    <3>1. i \in 1 .. e
      BY <1>1, <2>1
    <3> QED
      BY <1>3, <1>4, <1>5, <3>1 DEF u
  <2>2. CASE ~ (i <= e)
    <3>1. i - e \in 1 .. l /\ e + (i - e) = i
      BY <1>1, <2>2
    <3>2. u[e + (i - e)] = x[i - e]
      BY <1>5, <3>1 DEF u
    <3>3. x[i - e] = p[e + (i - e)]
      BY <3>1
    <3> QED
      BY <1>4, <3>1, <3>2, <3>3
  <2> QED
    BY <2>1, <2>2
<1>7. u = b
  <2> HIDE DEF u
  <2>1. u \in Seq(Token) /\ b \in Seq(Token) /\ Len(u) = Len(b)
    BY <1>2, <1>5 DEF u, Tokens
  <2> QED
    BY <1>2, <1>6, <2>1, SeqEqual
<1> QED
    BY <1>1, <1>7, Zenon DEF a, b

\* The last of the first ones.
LEMMA LastOfFirst ==
    ASSUME NEW k \in Nat, NEW S, 0 \in S
    PROVE  \E m \in 0 .. k : m \in S /\ (m < k => m + 1 \notin S)
<1> SUFFICES ASSUME \A m \in 0 .. k : m \in S => m < k /\ m + 1 \in S PROVE FALSE
    OBVIOUS
<1>1. 0 .. k \subseteq S
  <2>1. \A n \in 0 .. k - 1 : n \in S => n + 1 \in S
    OBVIOUS
  <2> QED
    BY <2>1, InductUpTo
<1> QED
    BY <1>1

\* The records of a response with the headers and data p: where each of the k
\* ends, how long and of which type it is, and how much of p there is before it.
Laid(F, p, fin, k, off, len, ty, ends) ==
    /\ off \in [0 .. k -> Nat] /\ off[0] = 0 /\ off[k] = Len(F)
    /\ \A i \in 0 .. k : off[i] <= off[k]
    /\ ends \in [0 .. k -> 0 .. Len(p)] /\ ends[0] = 0
    /\ len \in [1 .. k -> 0 .. MaxContent]
    /\ ty \in [1 .. k -> {FCGI_STDOUT, FCGI_END_REQUEST}]
    /\ \A i \in 1 .. k :
          /\ off[i] = off[i - 1] + 2 + len[i] + Padding(len[i])
          /\ F[off[i - 1] + 1] = Type(ty[i])
          /\ F[off[i - 1] + 2] = Size(len[i], Padding(len[i]))
          /\ ty[i] = FCGI_STDOUT => /\ ends[i] = ends[i - 1] + len[i]
                                    /\ \A j \in 1 .. len[i] : F[off[i - 1] + 2 + j] = p[ends[i - 1] + j]
          /\ ty[i] = FCGI_END_REQUEST => i = k /\ fin /\ ends[i - 1] = Len(p)
    /\ fin => k > 0 /\ ty[k] = FCGI_END_REQUEST

\* F is whole records with the first n tokens of p, and, if `fin` says so, the
\* record that ends the request.
Made(F, p, n, fin) ==
    /\ F \in Tokens /\ Sized(F)
    /\ \E k \in Nat : \E off, len, ty, ends : Laid(F, p, fin, k, off, len, ty, ends) /\ ends[k] = n

\* rs are records of a response with the headers and data p, and all of them.
Proper(rs, p) ==
    /\ \A i \in DOMAIN rs : /\ rs[i].type \in {FCGI_STDOUT, FCGI_END_REQUEST}
                            /\ rs[i].fits
                            /\ i < Len(rs) => rs[i].type = FCGI_STDOUT /\ rs[i].whole
                            /\ rs[i].type = FCGI_END_REQUEST => Content(rs) = p
    /\ Content(rs) = Take(p, Len(Content(rs)))
Entire(rs, p) ==
    Content(rs) = p /\ rs # <<>> /\ rs[Len(rs)].type = FCGI_END_REQUEST /\ rs[Len(rs)].whole

\* A record of this type and length that ends at `to` is read at at0 in w, which
\* holds what F holds.
ReadAt(w, F, at0, to, type, l) ==
    LET r == Arrived(w, at0 + 1)
    IN  /\ w[at0 + 1].k = "type" /\ w[at0 + 2].k = "size"
        /\ to + 1 = NextRecord(w, at0 + 1)
        /\ r.type = type /\ r.fits /\ (r.whole <=> to <= Len(w))
        /\ r.content \in Tokens
        /\ Len(r.content) \in 0 .. l
        /\ r.whole => Len(r.content) = l
        /\ \A j \in 1 .. Len(r.content) : r.content[j] = F[at0 + 2 + j]

\* One record of those laid out.
LEMMA LaidRecord ==
    ASSUME NEW F \in Tokens, Sized(F), NEW p \in Tokens, NEW fin, NEW k \in Nat, NEW off, NEW len, NEW ty, NEW ends,
           Laid(F, p, fin, k, off, len, ty, ends),
           NEW w \in Tokens, Len(w) <= Len(F), \A i \in 1 .. Len(w) : w[i] = F[i],
           NEW i \in 1 .. k, off[i - 1] + 2 <= Len(w)
    PROVE  ReadAt(w, F, off[i - 1], off[i], ty[i], len[i])
<1> DEFINE at0 == off[i - 1]
           l == len[i]
           r == Arrived(w, at0 + 1)
           n == Len(w)
<1>1. /\ at0 \in Nat /\ off[i] \in Nat /\ l \in Nat /\ l <= MaxContent /\ n \in Nat /\ ty[i] \in Int
      /\ off[i] = at0 + 2 + l + Padding(l)
      /\ F[at0 + 1] = Type(ty[i]) /\ F[at0 + 2] = Size(l, Padding(l)) /\ at0 + 2 <= n
  <2>a. /\ off \in [0 .. k -> Nat] /\ len \in [1 .. k -> 0 .. MaxContent]
        /\ ty \in [1 .. k -> {FCGI_STDOUT, FCGI_END_REQUEST}]
    BY DEF Laid
  <2>b. /\ off[i] = off[i - 1] + 2 + len[i] + Padding(len[i])
        /\ F[off[i - 1] + 1] = Type(ty[i])
        /\ F[off[i - 1] + 2] = Size(len[i], Padding(len[i]))
    BY DEF Laid
  <2>1. i - 1 \in 0 .. k /\ i \in 0 .. k
    OBVIOUS
  <2>2. off[i - 1] \in Nat /\ off[i] \in Nat
    BY <2>a, <2>1
  <2>3. Len(w) \in Nat
    BY LenProperties DEF Tokens
  <2>4. ty[i] \in Int
    <3>1. ty[i] \in {FCGI_STDOUT, FCGI_END_REQUEST}
      BY <2>a
    <3>2. FCGI_STDOUT \in Int /\ FCGI_END_REQUEST \in Int
      BY DEF FCGI_STDOUT, FCGI_END_REQUEST
    <3> QED
      BY <3>1, <3>2
  <2>5. len[i] \in Nat /\ len[i] <= MaxContent
    BY <2>a, ContentAssumption
  <2> QED
    BY <2>b, <2>2, <2>3, <2>4, <2>5
<1>2. Padding(l) \in 0 .. 1 /\ (l + Padding(l)) % Align = 0
    BY <1>1, PaddingFacts
<1> DEFINE b == Padding(l)
<1> HIDE DEF at0, l, n, b
<1>3. w[at0 + 1] = Type(ty[i]) /\ w[at0 + 2] = Size(l, b)
  <2>1. at0 + 1 \in 1 .. n /\ at0 + 2 \in 1 .. n
    BY <1>1
  <2> QED
    BY <1>1, <2>1 DEF n, b
<1>4. /\ w[at0 + 1].k = "type" /\ w[at0 + 1].a = ty[i]
      /\ w[at0 + 2].k = "size" /\ w[at0 + 2].a = l /\ w[at0 + 2].b = b
    BY <1>3 DEF Type, Size
<1>5. (at0 + 1) + 1 = at0 + 2
    BY <1>1
<1>6. NextRecord(w, at0 + 1) = off[i] + 1
  <2>1. NextRecord(w, at0 + 1) = (at0 + 1) + 2 + l + b
    BY <1>4, <1>5 DEF NextRecord
  <2> QED
    BY <1>1, <1>2, <2>1 DEF b
<1> DEFINE lo == (at0 + 1) + 2
           hi == Least((at0 + 1) + 1 + l, n)
<1>7. r = [type |-> ty[i], content |-> SubSeq(w, lo, hi), whole |-> off[i] + 1 <= n + 1,
           fits |-> l <= MaxContent /\ b < Align /\ (l + b) % Align = 0]
    BY <1>4, <1>5, <1>6, Zenon DEF Arrived, n
<1>8. /\ r.type = ty[i] /\ r.fits /\ (r.whole <=> off[i] <= n) /\ r.content = SubSeq(w, lo, hi)
  <2>a. b < Align /\ (l + b) % Align = 0
    BY <1>2 DEF b, Align
  <2>b. l <= MaxContent /\ (off[i] + 1 <= n + 1 <=> off[i] <= n)
    BY <1>1
  <2>1. b < Align /\ (l + b) % Align = 0 /\ l <= MaxContent /\ (off[i] + 1 <= n + 1 <=> off[i] <= n)
    BY <2>a, <2>b
  <2> HIDE DEF lo, hi, r
  <2> QED
    BY <1>7, <2>1
<1>9. /\ lo \in Int /\ hi \in Int /\ lo >= 1 /\ hi <= n /\ lo = at0 + 3
      /\ hi - lo + 1 \in 0 .. l /\ (off[i] <= n => hi - lo + 1 = l)
    BY <1>1, <1>2 DEF Least, b
<1> HIDE DEF lo, hi, r
<1> DEFINE c == SubSeq(w, lo, hi)
<1>10. /\ c \in Tokens /\ Len(c) = hi - lo + 1 /\ \A j \in 1 .. hi - lo + 1 : c[j] = w[lo + j - 1]
  <2> DEFINE T == Token
  <2>1. \A j \in lo .. hi : w[j] \in T
    <3>1. \A j \in 1 .. n : w[j] \in T
      BY LenProperties DEF Tokens, n
    <3> HIDE DEF T
    <3> QED
      BY <1>1, <1>9, <3>1
  <2>a. lo \in Int /\ hi \in Int
    BY <1>9
  <2> HIDE DEF T
  <2>2. /\ c \in Seq(T) /\ Len(c) = IF lo <= hi THEN hi - lo + 1 ELSE 0
        /\ \A j \in 1 .. hi - lo + 1 : c[j] = w[lo + j - 1]
    BY <2>a, <2>1, SubSeqProperties
  <2> HIDE DEF c
  <2>3. Len(c) = hi - lo + 1
    BY <1>9, <2>2
  <2> QED
    BY <2>2, <2>3 DEF T, Tokens
<1> HIDE DEF c
<1>11. ASSUME NEW j \in 1 .. Len(c) PROVE c[j] = F[at0 + 2 + j]
  <2>1. j \in 1 .. hi - lo + 1 /\ lo + j - 1 = at0 + 2 + j /\ at0 + 2 + j \in 1 .. n
    BY <1>1, <1>9, <1>10
  <2> QED
    BY <1>10, <2>1 DEF n
<1>12. r.content = c
    BY <1>8 DEF c
<1> QED
    BY <1>4, <1>6, <1>8, <1>9, <1>10, <1>11, <1>12 DEF at0, l, n, r, ReadAt

\* Whatever has arrived of what was made is read as a beginning of the response.
LEMMA MadeRead ==
    ASSUME NEW F, NEW p \in Tokens, NEW n, NEW fin, Made(F, p, n, fin),
           NEW w \in Tokens, Len(w) <= Len(F), \A i \in 1 .. Len(w) : w[i] = F[i]
    PROVE  /\ Proper(Records(w), p)
           /\ fin /\ Len(w) = Len(F) => Entire(Records(w), p)
<1>1. F \in Tokens /\ Sized(F)
    BY DEF Made
<1>2. PICK k \in Nat : \E off, len, ty, ends : Laid(F, p, fin, k, off, len, ty, ends)
    BY DEF Made
<1>3. PICK off, len, ty, ends : Laid(F, p, fin, k, off, len, ty, ends)
    BY <1>2
<1>4. /\ off \in [0 .. k -> Nat] /\ off[0] = 0 /\ off[k] = Len(F)
      /\ \A i \in 0 .. k : off[i] <= off[k]
      /\ ends \in [0 .. k -> 0 .. Len(p)] /\ ends[0] = 0
      /\ ty \in [1 .. k -> {FCGI_STDOUT, FCGI_END_REQUEST}]
      /\ fin => k > 0 /\ ty[k] = FCGI_END_REQUEST
    BY <1>3 DEF Laid
<1>a. \A i \in 1 .. k :
         /\ off[i] = off[i - 1] + 2 + len[i] + Padding(len[i])
         /\ ty[i] = FCGI_STDOUT => /\ ends[i] = ends[i - 1] + len[i]
                                   /\ \A j \in 1 .. len[i] : F[off[i - 1] + 2 + j] = p[ends[i - 1] + j]
         /\ ty[i] = FCGI_END_REQUEST => i = k /\ fin /\ ends[i - 1] = Len(p)
    BY <1>3 DEF Laid
<1>5. Len(w) \in Nat /\ Len(p) \in Nat /\ Len(F) \in Nat
    BY <1>1, LenProperties DEF Tokens
<1>6. Sized(w)
  <2> SUFFICES ASSUME NEW i \in 1 .. Len(w), w[i].k = "size" PROVE w[i].a \in Nat /\ w[i].b \in Nat
    BY DEF Sized
  <2>1. i \in 1 .. Len(F) /\ w[i] = F[i]
    BY <1>5
  <2> QED
    BY <1>1, <2>1 DEF Sized
<1> DEFINE Arr == {i \in 0 .. k : \A j \in 1 .. i : off[j - 1] + 2 <= Len(w)}
<1>7. PICK m \in 0 .. k : m \in Arr /\ (m < k => m + 1 \notin Arr)
  <2>1. 0 \in Arr
    OBVIOUS
  <2> HIDE DEF Arr
  <2> QED
    BY <2>1, LastOfFirst
<1>8. m \in Nat /\ \A i \in 1 .. m : i \in 1 .. k /\ off[i - 1] + 2 <= Len(w)
    BY <1>7
<1>9. Len(w) < off[m] + 2
  <2>1. CASE m = k
    BY <1>4, <1>5, <2>1
  <2>2. CASE m < k
    <3>1. m + 1 \in 0 .. k /\ m + 1 \notin Arr
      BY <1>7, <2>2
    <3>2. PICK j \in 1 .. m + 1 : ~ (off[j - 1] + 2 <= Len(w))
      BY <3>1
    <3>3. j = m + 1
      BY <1>8, <3>2
    <3>4. off[m] \in Nat /\ j - 1 = m
      BY <1>4, <3>3
    <3> QED
      BY <1>5, <3>2, <3>4
  <2> QED
    BY <1>7, <2>1, <2>2
<1> HIDE DEF Arr
<1> DEFINE rs == Records(w)
           r(i) == Arrived(w, off[i - 1] + 1)
<1>10. ASSUME NEW i \in 1 .. m
       PROVE  /\ w[off[i - 1] + 1].k = "type" /\ w[off[i - 1] + 2].k = "size"
              /\ off[i] + 1 = NextRecord(w, off[i - 1] + 1)
              /\ r(i).type = ty[i] /\ r(i).fits /\ (r(i).whole <=> off[i] <= Len(w))
              /\ r(i).content \in Tokens
              /\ Len(r(i).content) \in 0 .. len[i]
              /\ r(i).whole => Len(r(i).content) = len[i]
              /\ \A j \in 1 .. Len(r(i).content) : r(i).content[j] = F[off[i - 1] + 2 + j]
  <2>1. i \in 1 .. k /\ off[i - 1] + 2 <= Len(w)
    BY <1>8
  <2>2. ReadAt(w, F, off[i - 1], off[i], ty[i], len[i])
    BY <1>1, <1>3, <2>1, LaidRecord
  <2> QED
    BY <2>2, Zenon DEF ReadAt
<1> HIDE DEF r
<1>11. rs \in Seq(Arrivals) /\ Len(rs) = m /\ \A i \in 1 .. m : rs[i] = r(i)
  <2> DEFINE o == [i \in 0 .. m |-> off[i]]
  <2>1. Headers(w, m, o)
    <3>1. \A i \in 0 .. m : o[i] = off[i] /\ i \in 0 .. k
      BY <1>8
    <3>2. o \in [0 .. m -> Nat]
      BY <1>4, <3>1
    <3>3. \A i \in 1 .. m : i \in 0 .. m /\ i - 1 \in 0 .. m
      BY <1>8
    <3> HIDE DEF o
    <3>4. o[0] = 0 /\ Len(w) < o[m] + 2
      BY <1>4, <1>8, <1>9, <3>1
    <3>5. ASSUME NEW i \in 1 .. m
          PROVE  /\ o[i - 1] + 2 <= Len(w)
                 /\ w[o[i - 1] + 1].k = "type" /\ w[o[i - 1] + 2].k = "size"
                 /\ o[i] + 1 = NextRecord(w, o[i - 1] + 1)
      <4>1. o[i - 1] = off[i - 1] /\ o[i] = off[i]
        BY <3>1, <3>3
      <4> QED
        BY <1>8, <1>10, <4>1
    <3> QED
      BY <3>2, <3>4, <3>5 DEF Headers
  <2>2. \A i \in 1 .. m : o[i - 1] = off[i - 1]
    BY <1>8
  <2> HIDE DEF o, rs
  <2>3. /\ Records(w) \in Seq(Arrivals) /\ Len(Records(w)) = m
        /\ \A i \in 1 .. m : Records(w)[i] = Arrived(w, o[i - 1] + 1)
    BY <1>6, <1>8, <2>1, RecordsTaken
  <2> QED
    BY <2>2, <2>3 DEF r, rs
<1> HIDE DEF rs
<1>12. ASSUME NEW i \in 1 .. m, i < m PROVE ty[i] = FCGI_STDOUT /\ r(i).whole
  <2>1. ty[i] = FCGI_STDOUT
    BY <1>4, <1>7, <1>8, <1>12, <1>a
  <2>2. i + 1 \in 1 .. m /\ (i + 1) - 1 = i /\ off[i] \in Nat
    BY <1>4, <1>8, <1>12
  <2>3. off[i] + 2 <= Len(w)
    BY <1>8, <2>2
  <2> QED
    BY <1>5, <1>10, <2>1, <2>2, <2>3
<1>13. PICK f \in [0 .. m -> Tokens] :
           /\ f[0] = <<>> /\ \A i \in 1 .. m : f[i] = f[i - 1] \o Part(rs[i])
           /\ Content(rs) = f[m]
    BY <1>11, ContentUpto
<1> DEFINE K == {i \in 0 .. m : \E c \in 0 .. Len(p) : f[i] = Take(p, c) /\ (i < m => c = ends[i])}
<1>14. 0 \in K
  <2>1. 0 \in 0 .. Len(p) /\ Take(p, 0) = <<>>
    <3>1. 0 \in 0 .. Len(p)
      BY <1>5
    <3> QED
      BY <3>1, CutFacts, EmptyFacts
  <2> QED
    BY <1>4, <1>8, <1>13, <2>1
<1>15. ASSUME NEW i \in 0 .. m - 1, i \in K PROVE i + 1 \in K
  <2>1. /\ i + 1 \in 1 .. m /\ i + 1 \in 1 .. k /\ (i + 1) - 1 = i /\ i + 1 \in 0 .. m /\ i \in 0 .. k
        /\ i + 1 \in 0 .. k
    BY <1>8, <1>15
  <2>2. f[i] = Take(p, ends[i]) /\ ends[i] \in 0 .. Len(p) /\ ends[i + 1] \in 0 .. Len(p)
    BY <1>4, <1>15, <2>1
  <2>3. f[i + 1] = f[i] \o Part(r(i + 1))
    BY <1>11, <1>13, <2>1
  <2> DEFINE s == r(i + 1)
             x == s.content
             e == ends[i]
             l == len[i + 1]
  <2>4. /\ s.type = ty[i + 1] /\ x \in Tokens /\ Len(x) \in 0 .. l /\ (s.whole => Len(x) = l)
        /\ \A j \in 1 .. Len(x) : x[j] = F[off[i] + 2 + j]
    BY <1>10, <2>1
  <2>5. CASE ty[i + 1] = FCGI_STDOUT
    <3>1. /\ ends[i + 1] = e + l /\ \A j \in 1 .. l : F[off[i] + 2 + j] = p[e + j]
      BY <1>a, <2>1, <2>5
    <3>2. Part(s) = x
      BY <2>4, <2>5 DEF Part
    <3> HIDE DEF s, x, e, l
    <3>3. Len(x) \in Nat /\ l \in Nat /\ e \in Nat
      <4>1. Len(x) \in Nat
        BY <2>4, LenProperties DEF Tokens
      <4>2. e \in Nat
        BY <2>2 DEF e
      <4>3. l \in Nat
        <5>1. len \in [1 .. k -> 0 .. MaxContent]
          BY <1>3 DEF Laid
        <5> QED
          BY <2>1, <5>1, ContentAssumption DEF l
      <4> QED
        BY <4>1, <4>2, <4>3
    <3>4. e + Len(x) <= Len(p)
      BY <1>5, <2>2, <2>4, <3>1, <3>3
    <3>5. \A j \in 1 .. Len(x) : x[j] = p[e + j]
      BY <2>4, <3>1, <3>3
    <3>6. Take(p, e) \o x = Take(p, e + Len(x)) /\ e + Len(x) \in 0 .. Len(p)
      BY <2>4, <3>3, <3>4, <3>5, TakeMore
    <3>7. f[i + 1] = Take(p, e + Len(x))
      BY <2>2, <2>3, <3>2, <3>6 DEF e, s
    <3>8. i + 1 < m => e + Len(x) = ends[i + 1]
      BY <1>12, <2>1, <2>4, <3>1 DEF s
    <3> QED
      BY <2>1, <3>6, <3>7, <3>8
  <2>6. CASE ty[i + 1] = FCGI_END_REQUEST
    <3>1. i + 1 = k
      BY <1>a, <2>1, <2>6
    <3>2. ~ (i + 1 < m)
      BY <1>7, <3>1
    <3>3. Part(s) = <<>>
      BY <2>4, <2>6 DEF Part, FCGI_STDOUT, FCGI_END_REQUEST
    <3>4. f[i] \in Tokens
      BY <1>13, <1>15, <2>1
    <3>5. f[i + 1] = f[i]
      BY <2>3, <3>3, <3>4, JoinFacts
    <3> QED
      BY <2>1, <2>2, <3>2, <3>5
  <2> QED
    BY <1>4, <2>1, <2>5, <2>6
<1>16. 0 .. m \subseteq K
  <2> HIDE DEF K
  <2> QED
    BY <1>8, <1>14, <1>15, InductUpTo
<1>17. Content(rs) = Take(p, Len(Content(rs)))
  <2>1. m \in K
    BY <1>8, <1>16
  <2>2. PICK c \in 0 .. Len(p) : f[m] = Take(p, c)
    BY <2>1
  <2>3. Len(Take(p, c)) = c
    BY CutFacts
  <2> QED
    BY <1>13, <2>2, <2>3
<1>18. ASSUME NEW i \in 1 .. m, ty[i] = FCGI_END_REQUEST PROVE i = m /\ i = k /\ Content(rs) = p
  <2>1. i = k /\ ends[i - 1] = Len(p)
    BY <1>8, <1>18, <1>a
  <2>2. i = m /\ m - 1 \in 0 .. m /\ m - 1 < m /\ m - 1 \in K
    BY <1>7, <1>8, <1>16, <2>1
  <2>3. f[m - 1] = Take(p, Len(p))
    BY <2>1, <2>2
  <2>4. Take(p, Len(p)) = p
    BY SubSeqFull DEF Take, Tokens
  <2>5. Part(rs[m]) = <<>>
    BY <1>10, <1>11, <1>18, <2>2 DEF Part, FCGI_STDOUT, FCGI_END_REQUEST
  <2>6. f[m] = f[m - 1] \o <<>> /\ f[m - 1] \in Tokens
    BY <1>13, <2>2, <2>5
  <2> QED
    BY <1>13, <2>1, <2>2, <2>3, <2>4, <2>6, JoinFacts
<1> HIDE DEF K
<1>19. Proper(rs, p)
  <2>1. DOMAIN rs = 1 .. m
    BY <1>11, LenProperties
  <2>2. ASSUME NEW i \in 1 .. m
        PROVE  /\ rs[i].type \in {FCGI_STDOUT, FCGI_END_REQUEST}
               /\ rs[i].fits
               /\ i < Len(rs) => rs[i].type = FCGI_STDOUT /\ rs[i].whole
               /\ rs[i].type = FCGI_END_REQUEST => Content(rs) = p
    <3>1. rs[i] = r(i) /\ i \in 1 .. k
      BY <1>8, <1>11
    <3>2. ty[i] \in {FCGI_STDOUT, FCGI_END_REQUEST}
      BY <1>4, <3>1
    <3>3. rs[i].type = ty[i] /\ rs[i].fits
      BY <1>10, <3>1
    <3>4. i < Len(rs) => rs[i].type = FCGI_STDOUT /\ rs[i].whole
      BY <1>11, <1>12, <3>1, <3>3
    <3>5. rs[i].type = FCGI_END_REQUEST => Content(rs) = p
      BY <1>18, <3>3
    <3> QED
      BY <3>2, <3>3, <3>4, <3>5
  <2> QED
    BY <1>17, <2>1, <2>2 DEF Proper
<1>20. ASSUME fin, Len(w) = Len(F) PROVE Entire(rs, p)
  <2>1. m = k
    <3>1. SUFFICES ASSUME m < k PROVE FALSE
      BY <1>7
    <3>2. m + 1 \in 1 .. k /\ m + 1 \in 0 .. k /\ m \in 0 .. k /\ (m + 1) - 1 = m
      BY <1>8, <3>1
    <3>3. off[m + 1] = off[m] + 2 + len[m + 1] + Padding(len[m + 1]) /\ off[m + 1] <= off[k]
      BY <1>4, <1>a, <3>2
    <3>4. len[m + 1] \in Nat
      <4>1. len \in [1 .. k -> 0 .. MaxContent]
        BY <1>3 DEF Laid
      <4> QED
        BY <3>2, <4>1, ContentAssumption
    <3>5. Padding(len[m + 1]) \in 0 .. 1
      BY <3>4, PaddingFacts
    <3>6. off[m] \in Nat /\ off[k] \in Nat /\ off[k] = Len(w)
      BY <1>4, <1>20, <3>2
    <3> DEFINE z == Padding(len[m + 1])
               l == len[m + 1]
    <3> HIDE DEF z, l
    <3>7. off[m + 1] = off[m] + 2 + l + z /\ l \in Nat /\ z \in 0 .. 1
      BY <3>3, <3>4, <3>5 DEF l, z
    <3> QED
      BY <1>5, <1>9, <3>3, <3>6, <3>7
  <2>2. m \in 1 .. m /\ ty[m] = FCGI_END_REQUEST
    BY <1>4, <1>20, <2>1
  <2>3. r(m).whole
    <3>1. off[m] <= Len(w)
      BY <1>4, <1>5, <1>20, <2>1
    <3> QED
      BY <1>10, <2>2, <3>1
  <2>4. rs # <<>>
    BY <1>11, <2>2, EmptySeq
  <2> QED
    BY <1>10, <1>11, <1>18, <2>2, <2>3, <2>4 DEF Entire
<1> QED
    BY <1>19, <1>20 DEF rs

\* No records are the first of any response.
LEMMA MadeNothing == ASSUME NEW p \in Tokens PROVE Made(<<>>, p, 0, FALSE)
<1> DEFINE zero == [i \in 0 .. 0 |-> 0]
           none == [i \in 1 .. 0 |-> 0]
<1>1. Len(p) \in Nat /\ <<>> \in Tokens /\ Len(<<>>) = 0
    BY EmptyFacts, LenProperties DEF Tokens
<1>2. /\ zero \in [0 .. 0 -> Nat] /\ zero \in [0 .. 0 -> 0 .. Len(p)] /\ zero[0] = 0
      /\ none \in [1 .. 0 -> 0 .. MaxContent] /\ none \in [1 .. 0 -> {FCGI_STDOUT, FCGI_END_REQUEST}]
      /\ \A i \in 0 .. 0 : zero[i] <= zero[0]
    BY <1>1
<1> DEFINE F == <<>>
<1> HIDE DEF zero, none, F
<1>3. Len(F) = 0
    BY <1>1 DEF F
<1>4. Laid(F, p, FALSE, 0, zero, none, none, zero)
    BY <1>2, <1>3 DEF Laid
<1>5. Sized(F)
    BY <1>3 DEF Sized
<1> QED
    BY <1>1, <1>2, <1>4, <1>5 DEF Made, F

\* All tokens of a record have sizes that are sizes.
LEMMA RecordSized ==
    ASSUME NEW type \in Int, NEW c \in Contents
    PROVE  LET r == Record(type, c)
           IN  /\ r \in Tokens /\ Sized(r)
               /\ Len(r) = 2 + Len(c) + Padding(Len(c)) /\ r[1] = Type(type)
               /\ r[2] = Size(Len(c), Padding(Len(c)))
               /\ \A j \in 1 .. Len(c) : r[2 + j] = c[j]
               /\ \A j \in 1 .. Padding(Len(c)) : r[2 + Len(c) + j] = Byte(0)
<1> DEFINE l == Len(c)
           z == Padding(l)
           r == Record(type, c)
<1>1. c \in Seq(Plain(type)) /\ l \in Nat /\ \A j \in 1 .. l : c[j].k = "byte"
  <2>1. c \in Seq({t \in Token : t.k = "byte"})
    BY DEF Contents
  <2>2. \A j \in 1 .. l : c[j] \in {t \in Token : t.k = "byte"}
    BY <2>1, LenProperties
  <2> QED
    BY <2>2, ContentFacts
<1>2. z \in 0 .. 1
    BY <1>1, PaddingFacts
<1>3. /\ r \in Seq(Plain(type)) /\ Len(r) = 2 + l + z /\ r[1] = Type(type) /\ r[2] = Size(l, z)
      /\ \A j \in 1 .. l : r[2 + j] = c[j]
      /\ \A j \in 1 .. z : r[2 + l + j] = Byte(0)
    BY <1>1, RecordFacts
<1> HIDE DEF l, z, r
<1>4. r \in Tokens
  <2>1. Plain(type) \subseteq Token
    BY DEF Plain
  <2> QED
    BY <1>3, <2>1, SeqMonotonic DEF Tokens
<1>5. ASSUME NEW i \in 1 .. Len(r), r[i].k = "size" PROVE r[i].a \in Nat /\ r[i].b \in Nat
  <2>1. i = 1 \/ i = 2 \/ i - 2 \in 1 .. l \/ i - (2 + l) \in 1 .. z
    BY <1>1, <1>2, <1>3
  <2>2. i # 1
    BY <1>3, <1>5 DEF Type
  <2>3. CASE i = 2
    BY <1>1, <1>2, <1>3, <2>3 DEF Size
  <2>4. i - 2 \notin 1 .. l
    <3>1. SUFFICES ASSUME i - 2 \in 1 .. l PROVE FALSE
      OBVIOUS
    <3>2. r[2 + (i - 2)] = c[i - 2] /\ 2 + (i - 2) = i
      BY <1>3, <3>1
    <3> QED
      BY <1>1, <1>5, <3>1, <3>2
  <2>5. i - (2 + l) \notin 1 .. z
    <3>1. SUFFICES ASSUME i - (2 + l) \in 1 .. z PROVE FALSE
      OBVIOUS
    <3>2. r[2 + l + (i - (2 + l))] = Byte(0) /\ 2 + l + (i - (2 + l)) = i
      BY <1>1, <1>3, <3>1
    <3> QED
      BY <1>5, <3>2 DEF Byte
  <2> QED
    BY <2>1, <2>2, <2>3, <2>4, <2>5
<1> QED
    BY <1>3, <1>4, <1>5 DEF Sized, l, z, r

\* Sequences of tokens whose sizes are sizes, joined.
LEMMA JoinSized ==
    ASSUME NEW s \in Tokens, NEW t \in Tokens, Sized(s), Sized(t)
    PROVE  Sized(s \o t)
<1> DEFINE u == s \o t
<1>1. /\ Len(s) \in Nat /\ Len(t) \in Nat /\ Len(u) = Len(s) + Len(t)
      /\ \A i \in 1 .. Len(s) : u[i] = s[i]
      /\ \A i \in 1 .. Len(t) : u[Len(s) + i] = t[i]
    BY JoinPlaces
<1> HIDE DEF u
<1>2. ASSUME NEW i \in 1 .. Len(u), u[i].k = "size" PROVE u[i].a \in Nat /\ u[i].b \in Nat
  <2>1. CASE i <= Len(s)
    <3>1. i \in 1 .. Len(s)
      BY <2>1
    <3> QED
      BY <1>1, <1>2, <3>1 DEF Sized
  <2>2. CASE ~ (i <= Len(s))
    <3>1. i - Len(s) \in 1 .. Len(t) /\ Len(s) + (i - Len(s)) = i
      BY <1>1, <2>2
    <3>2. u[i] = t[i - Len(s)]
      BY <1>1, <3>1
    <3> QED
      BY <1>2, <3>1, <3>2 DEF Sized
  <2> QED
    BY <2>1, <2>2
<1> QED
    BY <1>2 DEF Sized, u

\* One record more.
LEMMA MadeMore ==
    ASSUME NEW F, NEW p \in Tokens, NEW n, Made(F, p, n, FALSE),
           NEW type \in {FCGI_STDOUT, FCGI_END_REQUEST}, NEW c \in Contents, Len(c) <= MaxContent,
           NEW fin, fin <=> type = FCGI_END_REQUEST,
           type = FCGI_STDOUT => /\ n + Len(c) <= Len(p)
                                 /\ \A j \in 1 .. Len(c) : c[j] = p[n + j],
           type = FCGI_END_REQUEST => n = Len(p)
    PROVE  Made(F \o Record(type, c), p, IF type = FCGI_STDOUT THEN n + Len(c) ELSE n, fin)
<1> DEFINE R == Record(type, c)
           G == F \o R
           l == Len(c)
           to == IF type = FCGI_STDOUT THEN n + l ELSE n
<1>1. F \in Tokens /\ Sized(F) /\ type \in Int /\ l \in Nat /\ Len(p) \in Nat
  <2>1. l \in Nat /\ Len(p) \in Nat
    BY LenProperties DEF Contents, Tokens
  <2> QED
    BY <2>1 DEF Made, FCGI_STDOUT, FCGI_END_REQUEST
<1>2. /\ R \in Tokens /\ Sized(R) /\ Len(R) = 2 + l + Padding(l)
      /\ R[1] = Type(type) /\ R[2] = Size(l, Padding(l))
      /\ \A j \in 1 .. l : R[2 + j] = c[j]
  <2> HIDE DEF l, R
  <2> QED
    BY <1>1, RecordSized DEF l, R
<1>3. PICK k \in Nat : \E off, len, ty, ends : Laid(F, p, FALSE, k, off, len, ty, ends) /\ ends[k] = n
    BY DEF Made
<1>4. PICK off, len, ty, ends : Laid(F, p, FALSE, k, off, len, ty, ends) /\ ends[k] = n
    BY <1>3
<1>5. /\ off \in [0 .. k -> Nat] /\ off[0] = 0 /\ off[k] = Len(F)
      /\ \A i \in 0 .. k : off[i] <= off[k]
      /\ ends \in [0 .. k -> 0 .. Len(p)] /\ ends[0] = 0 /\ ends[k] = n
      /\ len \in [1 .. k -> 0 .. MaxContent]
      /\ ty \in [1 .. k -> {FCGI_STDOUT, FCGI_END_REQUEST}]
    BY <1>4 DEF Laid
<1>6. ASSUME NEW i \in 1 .. k
      PROVE  /\ off[i] = off[i - 1] + 2 + len[i] + Padding(len[i])
             /\ F[off[i - 1] + 1] = Type(ty[i])
             /\ F[off[i - 1] + 2] = Size(len[i], Padding(len[i]))
             /\ ty[i] = FCGI_STDOUT => /\ ends[i] = ends[i - 1] + len[i]
                                       /\ \A j \in 1 .. len[i] : F[off[i - 1] + 2 + j] = p[ends[i - 1] + j]
             /\ ty[i] # FCGI_END_REQUEST
    BY <1>4 DEF Laid
<1> HIDE DEF R, l
<1>7. /\ G \in Tokens /\ Len(G) = Len(F) + Len(R) /\ Len(F) \in Nat /\ Len(R) \in Nat
      /\ \A i \in 1 .. Len(F) : G[i] = F[i]
      /\ \A i \in 1 .. Len(R) : G[Len(F) + i] = R[i]
    BY <1>1, <1>2, JoinPlaces
<1>8. Sized(G)
    BY <1>1, <1>2, JoinSized
<1>9. n \in 0 .. Len(p) /\ to \in 0 .. Len(p) /\ Padding(l) \in 0 .. 1 /\ l \in 0 .. MaxContent
  <2>1. k \in 0 .. k
    OBVIOUS
  <2>2. n \in 0 .. Len(p)
    BY <1>5, <2>1
  <2>3. to \in 0 .. Len(p)
    BY <1>1, <2>2 DEF l
  <2>4. l \in 0 .. MaxContent
    BY <1>1, ContentAssumption DEF l
  <2> QED
    BY <1>1, <2>2, <2>3, <2>4, PaddingFacts
<1> HIDE DEF G, to
<1> DEFINE k1 == k + 1
           off1 == [i \in 0 .. k1 |-> IF i = k1 THEN Len(G) ELSE off[i]]
           ends1 == [i \in 0 .. k1 |-> IF i = k1 THEN to ELSE ends[i]]
           len1 == [i \in 1 .. k1 |-> IF i = k1 THEN l ELSE len[i]]
           ty1 == [i \in 1 .. k1 |-> IF i = k1 THEN type ELSE ty[i]]
<1>10. k1 \in Nat /\ k1 # 0 /\ (k1 - 1 = k) /\ k \in 0 .. k
    OBVIOUS
<1>11. /\ off1 \in [0 .. k1 -> Nat] /\ off1[k1] = Len(G) /\ \A i \in 0 .. k : off1[i] = off[i]
       /\ ends1 \in [0 .. k1 -> 0 .. Len(p)] /\ ends1[k1] = to /\ \A i \in 0 .. k : ends1[i] = ends[i]
       /\ len1 \in [1 .. k1 -> 0 .. MaxContent] /\ len1[k1] = l /\ \A i \in 1 .. k : len1[i] = len[i]
       /\ ty1 \in [1 .. k1 -> {FCGI_STDOUT, FCGI_END_REQUEST}] /\ ty1[k1] = type
       /\ \A i \in 1 .. k : ty1[i] = ty[i]
  <2>1. \A i \in 0 .. k1 : i = k1 \/ i \in 0 .. k
    OBVIOUS
  <2>2. \A i \in 1 .. k1 : i = k1 \/ i \in 1 .. k
    OBVIOUS
  <2>3. (\A i \in 0 .. k : i \in 0 .. k1 /\ i # k1) /\ (\A i \in 1 .. k : i \in 1 .. k1 /\ i # k1)
        /\ k1 \in 0 .. k1 /\ k1 \in 1 .. k1
    OBVIOUS
  <2>4. Len(G) \in Nat
    BY <1>7
  <2> HIDE DEF k1
  <2>5. off1 \in [0 .. k1 -> Nat] /\ off1[k1] = Len(G) /\ \A i \in 0 .. k : off1[i] = off[i]
    BY <1>5, <2>1, <2>3, <2>4
  <2>6. ends1 \in [0 .. k1 -> 0 .. Len(p)] /\ ends1[k1] = to /\ \A i \in 0 .. k : ends1[i] = ends[i]
    BY <1>5, <1>9, <2>1, <2>3
  <2>7. len1 \in [1 .. k1 -> 0 .. MaxContent] /\ len1[k1] = l /\ \A i \in 1 .. k : len1[i] = len[i]
    BY <1>5, <1>9, <2>2, <2>3
  <2>8. ty1 \in [1 .. k1 -> {FCGI_STDOUT, FCGI_END_REQUEST}] /\ ty1[k1] = type
        /\ \A i \in 1 .. k : ty1[i] = ty[i]
    BY <1>5, <2>2, <2>3
  <2> QED
    BY <2>5, <2>6, <2>7, <2>8
<1> HIDE DEF off1, ends1, len1, ty1
<1>12. ASSUME NEW i \in 1 .. k1
       PROVE  /\ off1[i] = off1[i - 1] + 2 + len1[i] + Padding(len1[i])
              /\ G[off1[i - 1] + 1] = Type(ty1[i])
              /\ G[off1[i - 1] + 2] = Size(len1[i], Padding(len1[i]))
              /\ ty1[i] = FCGI_STDOUT =>
                    /\ ends1[i] = ends1[i - 1] + len1[i]
                    /\ \A j \in 1 .. len1[i] : G[off1[i - 1] + 2 + j] = p[ends1[i - 1] + j]
              /\ ty1[i] = FCGI_END_REQUEST => i = k1 /\ fin /\ ends1[i - 1] = Len(p)
  <2>1. CASE i = k1
    <3>1. /\ off1[i - 1] = Len(F) /\ ends1[i - 1] = n /\ off1[i] = Len(G) /\ len1[i] = l /\ ty1[i] = type
          /\ ends1[i] = to
      BY <1>5, <1>10, <1>11, <2>1
    <3>2. Len(G) = Len(F) + 2 + l + Padding(l)
      <4> DEFINE b == Padding(l)
      <4>1. b \in 0 .. 1 /\ Len(R) = 2 + l + b
        BY <1>2, <1>9
      <4> HIDE DEF b
      <4>2. Len(G) = Len(F) + 2 + l + b
        BY <1>1, <1>7, <1>9, <4>1
      <4> QED
        BY <4>2 DEF b
    <3>3. 1 \in 1 .. Len(R) /\ 2 \in 1 .. Len(R) /\ \A j \in 1 .. l : 2 + j \in 1 .. Len(R)
      <4> DEFINE b == Padding(l)
      <4>1. b \in 0 .. 1 /\ Len(R) = 2 + l + b /\ l \in Nat
        BY <1>2, <1>9
      <4> HIDE DEF b
      <4> QED
        BY <4>1
    <3>4. G[Len(F) + 1] = Type(type) /\ G[Len(F) + 2] = Size(l, Padding(l))
      BY <1>2, <1>7, <3>3
    <3>5. ASSUME NEW j \in 1 .. l PROVE G[Len(F) + 2 + j] = c[j]
      <4>1. Len(F) + (2 + j) = Len(F) + 2 + j
        BY <1>7
      <4>2. G[Len(F) + (2 + j)] = R[2 + j]
        BY <1>7, <3>3
      <4> QED
        BY <1>2, <4>1, <4>2
    <3>6. type = FCGI_STDOUT => to = n + l /\ \A j \in 1 .. l : G[Len(F) + 2 + j] = p[n + j]
      BY <3>5 DEF to, l
    <3>7. type = FCGI_END_REQUEST => fin /\ n = Len(p)
      OBVIOUS
    <3> QED
      BY <2>1, <3>1, <3>2, <3>4, <3>6, <3>7
  <2>2. CASE i # k1
    <3>1. i \in 1 .. k /\ i \in 0 .. k /\ i - 1 \in 0 .. k
      BY <2>2
    <3>2. /\ off1[i - 1] = off[i - 1] /\ off1[i] = off[i] /\ ends1[i - 1] = ends[i - 1]
          /\ ends1[i] = ends[i] /\ len1[i] = len[i] /\ ty1[i] = ty[i]
      BY <1>11, <3>1
    <3>3. /\ off[i] = off[i - 1] + 2 + len[i] + Padding(len[i]) /\ off[i] <= Len(F)
          /\ off[i - 1] \in Nat /\ len[i] \in Nat /\ Padding(len[i]) \in 0 .. 1 /\ off[i] \in Nat
      <4>1. len[i] \in Nat
        BY <1>5, <3>1, ContentAssumption
      <4>2. off[i - 1] \in Nat /\ off[i] \in Nat /\ off[i] <= Len(F)
        BY <1>5, <3>1
      <4>3. Padding(len[i]) \in 0 .. 1
        BY <4>1, PaddingFacts
      <4> QED
        BY <1>6, <3>1, <4>1, <4>2, <4>3
    <3>4. /\ off[i - 1] + 1 \in 1 .. Len(F) /\ off[i - 1] + 2 \in 1 .. Len(F)
          /\ \A j \in 1 .. len[i] : off[i - 1] + 2 + j \in 1 .. Len(F)
      <4> DEFINE b == Padding(len[i])
                 d == off[i - 1]
                 m == len[i]
                 e == off[i]
      <4>1. e = d + 2 + m + b /\ e <= Len(F) /\ d \in Nat /\ m \in Nat /\ b \in 0 .. 1 /\ Len(F) \in Nat
        BY <1>7, <3>3
      <4> HIDE DEF b, d, m, e
      <4>2. d + 1 \in 1 .. Len(F) /\ d + 2 \in 1 .. Len(F) /\ \A j \in 1 .. m : d + 2 + j \in 1 .. Len(F)
        BY <4>1
      <4> QED
        BY <4>2 DEF d, m
    <3>5. /\ G[off[i - 1] + 1] = F[off[i - 1] + 1] /\ G[off[i - 1] + 2] = F[off[i - 1] + 2]
          /\ \A j \in 1 .. len[i] : G[off[i - 1] + 2 + j] = F[off[i - 1] + 2 + j]
      BY <1>7, <3>4
    <3> QED
      BY <1>6, <3>1, <3>2, <3>5
  <2> QED
    BY <2>1, <2>2
<1>13. \A i \in 0 .. k1 : off1[i] <= off1[k1]
  <2> SUFFICES ASSUME NEW i \in 0 .. k1 PROVE off1[i] <= off1[k1]
    OBVIOUS
  <2>1. CASE i = k1
    BY <1>7, <1>11, <2>1
  <2>2. CASE i # k1
    <3>1. i \in 0 .. k
      BY <2>2
    <3>2. off1[i] = off[i] /\ off[i] <= Len(F) /\ off[i] \in Nat
      BY <1>5, <1>11, <3>1
    <3> QED
      BY <1>7, <1>11, <3>2
  <2> QED
    BY <2>1, <2>2
<1>14. off1[0] = 0 /\ ends1[0] = 0
    BY <1>5, <1>11
<1> HIDE DEF k1
<1>15. fin => k1 > 0 /\ ty1[k1] = FCGI_END_REQUEST
    BY <1>10, <1>11
<1>16. Laid(G, p, fin, k1, off1, len1, ty1, ends1)
    BY <1>11, <1>12, <1>13, <1>14, <1>15 DEF Laid
<1>17. Made(G, p, to, fin)
    BY <1>7, <1>8, <1>10, <1>11, <1>16 DEF Made
<1> QED
    BY <1>17 DEF G, R, to, l

\* One record more: the next part of the headers and data ...
LEMMA MadeContent ==
    ASSUME NEW F, NEW p \in Tokens, NEW n, Made(F, p, n, FALSE),
           NEW c \in Contents, Len(c) <= MaxContent, n + Len(c) <= Len(p),
           \A j \in 1 .. Len(c) : c[j] = p[n + j]
    PROVE  Made(F \o Record(FCGI_STDOUT, c), p, n + Len(c), FALSE)
<1>1. FCGI_STDOUT # FCGI_END_REQUEST
    BY DEF FCGI_STDOUT, FCGI_END_REQUEST
<1> DEFINE t == FCGI_STDOUT
<1>2. t \in {FCGI_STDOUT, FCGI_END_REQUEST} /\ t # FCGI_END_REQUEST
    BY <1>1
<1> HIDE DEF t
<1>3. Made(F \o Record(t, c), p, IF t = FCGI_STDOUT THEN n + Len(c) ELSE n, FALSE)
    BY <1>2, MadeMore
<1> QED
    BY <1>3 DEF t

EndBody == <<Byte(0), Byte(0)>>

\* The body of FCGI_END_REQUEST is content of a record.
LEMMA EndBodyFacts == EndBody \in Contents /\ Len(EndBody) = 2 /\ EndBody[1] = Byte(0) /\ EndBody[2] = Byte(0)
<1>1. Byte(0) \in {t \in Token : t.k = "byte"}
    BY TokenFacts DEF Byte
<1> QED
    BY <1>1 DEF EndBody, Contents

\* ... or, after all of it, the one that ends the request.
LEMMA MadeEnd ==
    ASSUME NEW F, NEW p \in Tokens, Made(F, p, Len(p), FALSE)
    PROVE  Made(F \o Record(FCGI_END_REQUEST, EndBody), p, Len(p), TRUE)
<1>1. FCGI_STDOUT # FCGI_END_REQUEST
    BY DEF FCGI_STDOUT, FCGI_END_REQUEST
<1> DEFINE t == FCGI_END_REQUEST
           n == Len(p)
<1>2. t \in {FCGI_STDOUT, FCGI_END_REQUEST} /\ t # FCGI_STDOUT /\ t = FCGI_END_REQUEST
    BY <1>1
<1>3. EndBody \in Contents /\ Len(EndBody) <= MaxContent
    BY EndBodyFacts, ContentAssumption DEF BeginLen
<1>a. Made(F, p, n, FALSE) /\ n = Len(p)
    OBVIOUS
<1> HIDE DEF t, n
<1>4. Made(F \o Record(t, EndBody), p, IF t = FCGI_STDOUT THEN n + Len(EndBody) ELSE n, TRUE)
    BY <1>2, <1>3, <1>a, MadeMore
<1> QED
    BY <1>2, <1>4 DEF t, n

-----------------------------------------------------------------------------
(* The inductive invariant: the response *)

Writing == {"record", "copy", "pad", "end", "flush", "answered"}

\* What the writer holds, and all it was given that is not lost.
Pending == IF wr.op = "none" THEN wbuf
           ELSE IF wr.op = "flush" THEN wr.rest \o wr.data ELSE wr.rest
Handed  == outp \o Pending
Payload == rsp[1] \o rsp[2]

\* x is how f begins.
Begins(x, f) == Len(x) <= Len(f) /\ \A i \in 1 .. Len(x) : x[i] = f[i]

\* How many tokens the present record still lacks.
Owed == IF at = "copy" THEN pksz + pad ELSE IF at = "pad" THEN pad ELSE IF at = "end" THEN 2 ELSE 0

\* What the present record lacks: content, padding, or the body of the last one.
ContentNext(F) ==
    /\ \A j \in 1 .. pksz : F[Len(Handed) + j] = Payload[(Len(Payload) - length - pksz) + j]
    /\ \A j \in 1 .. pad : F[Len(Handed) + pksz + j] = Byte(0)
ZerosNext(F, n) == \A j \in 1 .. n : F[Len(Handed) + j] = Byte(0)

\* The writer was given all of F but what the present record lacks, which comes next.
Answer(F) ==
    /\ at \in {"record", "copy", "pad"} => Made(F, Payload, Len(Payload) - length, FALSE)
    /\ at \in {"end", "flush", "answered"} => Made(F, Payload, Len(Payload), TRUE)
    /\ Begins(Handed, F) /\ Len(F) = Len(Handed) + Owed
    /\ at = "copy" => ContentNext(F)
    /\ at = "pad" => ZerosNext(F, pad)
    /\ at = "end" => ZerosNext(F, 2)

\* What the server received is a beginning of the response.
Received == \E F, n : (Made(F, Payload, n, FALSE) \/ Made(F, Payload, n, TRUE)) /\ Begins(outp, F)

\* A write past the buffer is begun when that is empty.
Marks == /\ wr.op = "none" => wr = NoWrite
         /\ wr.op = "direct" => wbuf = <<>> /\ wr.data = <<>>

RespInv == /\ rsp \in [1 .. 2 -> Contents] /\ outp \in Tokens
           /\ Marks
           /\ at \notin Writing => wr = NoWrite /\ (~ answered => outp = <<>>)
           /\ at \in Writing => ~ answered
           /\ at = "answered" /\ wr = NoWrite /\ peer # "reset" => wbuf = <<>>
           /\ Received
           /\ at \in Writing /\ peer # "reset" => \E F : Answer(F)

\* The headers and then the data.
LEMMA PayloadFacts ==
    ASSUME rsp \in [1 .. 2 -> Contents]
    PROVE  /\ Payload \in Contents /\ Payload \in Tokens
           /\ rsp[1] \in Contents /\ rsp[2] \in Contents
           /\ Len(rsp[1]) \in Nat /\ Len(rsp[2]) \in Nat /\ Len(Payload) = Len(rsp[1]) + Len(rsp[2])
           /\ \A i \in 1 .. Len(rsp[1]) : Payload[i] = rsp[1][i]
           /\ \A i \in 1 .. Len(rsp[2]) : Payload[Len(rsp[1]) + i] = rsp[2][i]
<1> DEFINE T == {t \in Token : t.k = "byte"}
           a == rsp[1]
           b == rsp[2]
<1>1. a \in Seq(T) /\ b \in Seq(T)
    BY DEF Contents
<1> HIDE DEF T, a, b
<1>2. /\ Len(a) \in Nat /\ Len(b) \in Nat
      /\ a \o b \in Seq(T) /\ Len(a \o b) = Len(a) + Len(b)
      /\ \A i \in 1 .. Len(a) : (a \o b)[i] = a[i]
      /\ \A i \in 1 .. Len(b) : (a \o b)[Len(a) + i] = b[i]
    BY <1>1, Joined
<1>3. Payload = a \o b
    BY DEF Payload, a, b
<1>4. Payload \in Contents
    BY <1>2, <1>3 DEF T, Contents
<1>5. Payload \in Tokens
  <2>1. T \subseteq Token
    BY DEF T
  <2> QED
    BY <1>2, <1>3, <2>1, SeqMonotonic DEF Tokens
<1> QED
    BY <1>1, <1>2, <1>3, <1>4, <1>5 DEF T, a, b, Contents

\* What was handed to the writer, and what of it is still there, are tokens.
LEMMA HandedFacts ==
    ASSUME Writer, outp \in Tokens
    PROVE  Pending \in Tokens /\ Handed \in Tokens /\ Len(Handed) \in Nat /\ Len(outp) \in Nat
           /\ Len(Handed) = Len(outp) + Len(Pending) /\ Len(Pending) \in Nat
<1>1. wbuf \in Tokens /\ wr.rest \in Tokens /\ wr.data \in Tokens
    BY DEF Writer
<1>2. Pending \in Tokens
    BY <1>1, JoinFacts DEF Pending
<1> QED
    BY <1>2, JoinFacts DEF Handed

\* A beginning and more of it.
LEMMA BeginsMore ==
    ASSUME NEW x \in Tokens, NEW f \in Tokens, NEW d \in Tokens, Begins(x, f),
           Len(x) + Len(d) <= Len(f), \A j \in 1 .. Len(d) : d[j] = f[Len(x) + j]
    PROVE  Begins(x \o d, f) /\ x \o d \in Tokens /\ Len(x \o d) = Len(x) + Len(d)
<1> DEFINE u == x \o d
<1>1. /\ Len(x) \in Nat /\ Len(d) \in Nat /\ u \in Tokens /\ Len(u) = Len(x) + Len(d)
      /\ \A i \in 1 .. Len(x) : u[i] = x[i]
      /\ \A i \in 1 .. Len(d) : u[Len(x) + i] = d[i]
    BY JoinPlaces
<1> HIDE DEF u
<1>2. ASSUME NEW i \in 1 .. Len(u) PROVE u[i] = f[i]
  <2>1. CASE i <= Len(x)
    <3>1. i \in 1 .. Len(x)
      BY <2>1
    <3> QED
      BY <1>1, <3>1 DEF Begins
  <2>2. CASE ~ (i <= Len(x))
    <3>1. i - Len(x) \in 1 .. Len(d) /\ Len(x) + (i - Len(x)) = i
      BY <1>1, <2>2
    <3> QED
      BY <1>1, <3>1
  <2> QED
    BY <2>1, <2>2
<1> QED
    BY <1>1, <1>2 DEF Begins, u

\* A beginning of what begins f, and of what f begins.
LEMMA BeginsLess ==
    ASSUME NEW x \in Tokens, NEW d \in Tokens, NEW f, Begins(x \o d, f), Len(f) \in Nat
    PROVE  Begins(x, f)
<1> DEFINE u == x \o d
<1>1. /\ Len(x) \in Nat /\ Len(d) \in Nat /\ Len(u) = Len(x) + Len(d)
      /\ \A i \in 1 .. Len(x) : u[i] = x[i]
    BY JoinPlaces
<1>2. Begins(u, f)
    OBVIOUS
<1> HIDE DEF u
<1> QED
    BY <1>1, <1>2 DEF Begins

\* A beginning of f is one of all that f begins.
LEMMA BeginsLonger ==
    ASSUME NEW x \in Tokens, NEW f \in Tokens, NEW d \in Tokens, Begins(x, f)
    PROVE  Begins(x, f \o d)
<1> DEFINE u == f \o d
<1>1. /\ Len(f) \in Nat /\ Len(d) \in Nat /\ Len(u) = Len(f) + Len(d) /\ Len(x) \in Nat
      /\ \A i \in 1 .. Len(f) : u[i] = f[i]
    BY JoinPlaces, JoinFacts
<1> HIDE DEF u
<1>2. Begins(x, u)
    BY <1>1 DEF Begins
<1> QED
    BY <1>2 DEF u

\* While the connection is not broken the server received part of what was made.
LEMMA AnswerReceived ==
    ASSUME Writer, outp \in Tokens, at \in Writing, NEW F, Answer(F)
    PROVE  Received
<1>1. Made(F, Payload, Len(Payload) - length, FALSE) \/ Made(F, Payload, Len(Payload), TRUE)
    BY DEF Answer, Writing
<1>2. F \in Tokens /\ Len(F) \in Nat
  <2>1. F \in Tokens
    BY <1>1 DEF Made
  <2> QED
    BY <2>1, LenProperties DEF Tokens
<1>3. Begins(outp, F)
  <2>1. Pending \in Tokens /\ Begins(outp \o Pending, F)
    BY HandedFacts DEF Answer, Handed
  <2> QED
    BY <1>2, <2>1, BeginsLess
<1> QED
    BY <1>1, <1>3 DEF Received

\* Nothing is a beginning of every response.
LEMMA NothingReceived ==
    ASSUME rsp \in [1 .. 2 -> Contents], outp = <<>>
    PROVE  Received
<1> DEFINE none == <<>>
<1>1. Made(none, Payload, 0, FALSE)
    BY PayloadFacts, MadeNothing
<1>2. Len(none) = 0
    BY EmptyFacts
<1>3. outp = none
    OBVIOUS
<1> HIDE DEF none
<1>4. Begins(outp, none)
    BY <1>2, <1>3 DEF Begins
<1> QED
    BY <1>1, <1>4 DEF Received

\* What is given to the writer comes after what it was given before.
LEMMA HandedOn ==
    ASSUME Writer, Marks, outp \in Tokens, NEW data \in Tokens, ef_bio_write(data)
    PROVE  /\ Handed' = Handed \o data /\ outp' = outp /\ peer' = peer /\ Marks' /\ Writer'
<1>1. wr = NoWrite /\ outp' = outp /\ peer' = peer
    BY DEF ef_bio_write, conn_vars
<1>2. wbuf \in Tokens /\ Pending = wbuf
    BY <1>1 DEF Writer, Pending, NoWrite
<1>3. Pending' = wbuf \o data /\ Marks'
  <2>1. CASE Len(wbuf) + Len(data) > BufSize \/ BufSize \div 4 < Len(data)
    <3>1. /\ wbuf' = wbuf
          /\ wr' = IF wbuf # <<>> THEN [op |-> "flush", rest |-> wbuf, data |-> data]
                   ELSE [op |-> "direct", rest |-> data, data |-> <<>>]
      BY <2>1 DEF ef_bio_write
    <3>2. CASE wbuf # <<>>
      BY <3>1, <3>2 DEF Pending, Marks
    <3>3. CASE wbuf = <<>>
      <4>1. wr' = [op |-> "direct", rest |-> data, data |-> <<>>]
        BY <3>1, <3>3
      <4>2. Pending' = data /\ wbuf \o data = data
        BY <3>3, <4>1, JoinFacts DEF Pending
      <4> QED
        BY <3>1, <3>3, <4>1, <4>2 DEF Marks
    <3> QED
      BY <3>2, <3>3
  <2>2. CASE ~ (Len(wbuf) + Len(data) > BufSize \/ BufSize \div 4 < Len(data))
    <3>1. wbuf' = wbuf \o data /\ wr' = wr
      BY <2>2 DEF ef_bio_write
    <3> QED
      BY <1>1, <3>1 DEF Pending, Marks, NoWrite
  <2> QED
    BY <2>1, <2>2
<1>4. Handed' = outp \o (wbuf \o data)
    BY <1>1, <1>3 DEF Handed
<1>5. outp \o (wbuf \o data) = (outp \o wbuf) \o data
    BY <1>2, JoinAssoc DEF Assoc
<1> QED
    BY <1>1, <1>2, <1>3, <1>4, <1>5, WriteKeeps DEF Handed

\* A flush moves nothing ...
LEMMA HandedFlush ==
    ASSUME Writer, Marks, ef_bio_writer_flush
    PROVE  /\ Handed' = Handed /\ outp' = outp /\ peer' = peer /\ Marks'
           /\ wr' = NoWrite => wbuf' = <<>>
<1>1. /\ wr = NoWrite /\ outp' = outp /\ peer' = peer /\ wbuf' = wbuf
      /\ wr' = IF wbuf # <<>> THEN [op |-> "flush", rest |-> wbuf, data |-> <<>>] ELSE NoWrite
    BY DEF ef_bio_writer_flush, conn_vars
<1>2. wbuf \in Tokens /\ Pending = wbuf /\ wbuf \o <<>> = wbuf
  <2>1. wbuf \in Tokens
    BY DEF Writer
  <2> QED
    BY <1>1, <2>1, JoinFacts DEF Pending, NoWrite
<1>3. Pending' = wbuf /\ Marks' /\ (wr' = NoWrite => wbuf' = <<>>)
  <2>1. CASE wbuf # <<>>
    BY <1>1, <1>2, <2>1 DEF Pending, Marks, NoWrite
  <2>2. CASE wbuf = <<>>
    BY <1>1, <1>2, <2>2 DEF Pending, Marks, NoWrite
  <2> QED
    BY <2>1, <2>2
<1> QED
    BY <1>1, <1>2, <1>3 DEF Handed

\* ... and a write takes from the writer what it gives to the server.
LEMMA HandedSent ==
    ASSUME Writer, Marks, outp \in Tokens, Send
    PROVE  /\ Handed' = Handed /\ outp' \in Tokens /\ peer' = peer /\ Marks'
           /\ wr' = NoWrite => wbuf' = <<>>
<1>1. /\ wbuf \in Tokens /\ wr.rest \in Tokens /\ wr.data \in Tokens /\ wr # NoWrite
      /\ wr.op \in {"none", "flush", "direct"}
      /\ wr = [op |-> wr.op, rest |-> wr.rest, data |-> wr.data]
    BY DEF Writer, Send
<1>2. wr.op \in {"flush", "direct"} /\ Pending = wr.rest \o wr.data
  <2>1. wr.op \in {"flush", "direct"}
    BY <1>1 DEF Marks
  <2>2. CASE wr.op = "flush"
    BY <2>2 DEF Pending
  <2>3. CASE wr.op = "direct"
    BY <1>1, <2>3, JoinFacts DEF Pending, Marks
  <2> QED
    BY <2>1, <2>2, <2>3
<1> DEFINE rest == wr.rest
           data == wr.data
<1>3. PICK n \in 1 .. Len(rest) :
          /\ outp' = outp \o Take(rest, n)
          /\ IF n = Len(rest) THEN Written
             ELSE wr' = [wr EXCEPT !.rest = Drop(@, n)] /\ wbuf' = wbuf
    BY DEF Send
<1>4. peer' = peer
    BY DEF Send
<1>5. /\ Take(rest, n) \in Tokens /\ Drop(rest, n) \in Tokens /\ Len(rest) \in Nat
      /\ Take(rest, n) \o Drop(rest, n) = rest /\ Len(Drop(rest, n)) = Len(rest) - n
  <2>1. Len(rest) \in Nat /\ rest \in Tokens
    BY <1>1, JoinFacts
  <2>2. n \in 0 .. Len(rest)
    BY <2>1
  <2> HIDE DEF rest
  <2> QED
    BY <2>1, <2>2, CutFacts
<1> DEFINE a == Take(rest, n)
           b == Drop(rest, n)
<1>6. Pending' = b \o data /\ Marks' /\ (wr' = NoWrite => wbuf' = <<>>)
  <2>1. CASE n = Len(rest)
    <3>1. Written
      BY <1>3, <2>1
    <3>2. b = <<>>
      BY <1>5, <2>1, EmptyFacts
    <3>3. b \o data = data
      BY <1>1, <3>2, JoinFacts
    <3>4. wbuf' = <<>>
      BY <1>2, <3>1 DEF Written, Marks
    <3>5. wr' = IF data # <<>> THEN [op |-> "direct", rest |-> data, data |-> <<>>] ELSE NoWrite
      BY <3>1 DEF Written
    <3>6. CASE data # <<>>
      BY <3>3, <3>4, <3>5, <3>6 DEF Pending, Marks
    <3>7. CASE data = <<>>
      BY <3>3, <3>4, <3>5, <3>7 DEF Pending, Marks, NoWrite
    <3> QED
      BY <3>6, <3>7
  <2>2. CASE n # Len(rest)
    <3>1. wr' = [wr EXCEPT !.rest = b] /\ wbuf' = wbuf
      BY <1>3, <2>2
    <3>2. wr'.op = wr.op /\ wr'.rest = b /\ wr'.data = data
      BY <1>1, <3>1
    <3> HIDE DEF a, b
    <3>3. wr' # NoWrite /\ Marks'
      BY <1>2, <3>1, <3>2 DEF Marks, NoWrite
    <3>4. Pending' = b \o data
      <4>1. CASE wr.op = "flush"
        BY <3>2, <4>1 DEF Pending
      <4>2. CASE wr.op = "direct"
        <5>1. data = <<>> /\ b \in Tokens
          BY <1>5, <4>2 DEF Marks, b
        <5>2. b \o data = b
          BY <5>1, JoinFacts
        <5> QED
          BY <3>2, <4>2, <5>2 DEF Pending
      <4> QED
        BY <1>2, <4>1, <4>2
    <3> QED
      BY <3>3, <3>4
  <2> QED
    BY <2>1, <2>2
<1>7. Handed' = (outp \o a) \o (b \o data)
    BY <1>3, <1>6 DEF Handed
<1>8. (outp \o a) \o (b \o data) = outp \o ((a \o b) \o data)
  <2>1. a \in Tokens /\ b \in Tokens /\ data \in Tokens
    BY <1>1, <1>5
  <2> HIDE DEF a, b, data
  <2>2. b \o data \in Tokens
    BY <2>1, JoinFacts
  <2>3. (outp \o a) \o (b \o data) = outp \o (a \o (b \o data))
    BY <2>1, <2>2, JoinAssoc DEF Assoc
  <2>4. (a \o b) \o data = a \o (b \o data)
    BY <2>1, JoinAssoc DEF Assoc
  <2> QED
    BY <2>3, <2>4
<1>9. outp' \in Tokens
    BY <1>3, <1>5, JoinFacts
<1> QED
    BY <1>2, <1>4, <1>5, <1>6, <1>7, <1>8, <1>9 DEF Handed

\* What was received stays a beginning of the response ...
LEMMA ReceivedSame ==
    ASSUME Received, rsp' = rsp, outp' = outp
    PROVE  Received'
<1>1. Payload' = Payload
    BY DEF Payload
<1>2. PICK F, n : (Made(F, Payload, n, FALSE) \/ Made(F, Payload, n, TRUE)) /\ Begins(outp, F)
    BY DEF Received
<1>3. (Made(F, Payload', n, FALSE) \/ Made(F, Payload', n, TRUE)) /\ Begins(outp', F)
    BY <1>1, <1>2
<1> QED
    BY <1>3 DEF Received

\* ... and nothing is a beginning of any.
LEMMA ReceivedNothing ==
    ASSUME rsp' \in [1 .. 2 -> Contents], outp' = <<>>
    PROVE  Received'
<1>1. rsp'[1] \in Tokens /\ rsp'[2] \in Tokens
  <2>1. {t \in Token : t.k = "byte"} \subseteq Token
    OBVIOUS
  <2>2. rsp'[1] \in Contents /\ rsp'[2] \in Contents
    OBVIOUS
  <2> QED
    BY <2>1, <2>2, SeqMonotonic DEF Contents, Tokens
<1>2. Payload' \in Tokens
    BY <1>1, JoinFacts DEF Payload
<1>3. Made(<<>>, Payload', 0, FALSE)
    BY <1>2, MadeNothing
<1>4. Begins(outp', <<>>)
    BY EmptyFacts DEF Begins
<1> QED
    BY <1>3, <1>4 DEF Received

\* A step that leaves the response, the writer and what was received alone.
LEMMA RespSame ==
    ASSUME RespInv, UNCHANGED <<outp, rsp, wbuf, wr, answered, length, pksz, pad, at>>,
           peer' # "reset" => peer # "reset"
    PROVE  RespInv'
<1>1. Payload' = Payload /\ Handed' = Handed /\ Owed' = Owed
    BY DEF Payload, Handed, Pending, Owed
<1>2. Received'
    BY ReceivedSame DEF RespInv
<1>3. Marks'
    BY DEF RespInv, Marks
<1>4. ASSUME at' \in Writing, peer' # "reset" PROVE (\E F : Answer(F))'
  <2>1. PICK F : Answer(F)
    BY <1>4 DEF RespInv
  <2>2. Answer(F)'
    BY <1>1, <2>1 DEF Answer, ContentNext, ZerosNext
  <2> QED
    BY <2>2
<1> QED
    BY <1>2, <1>3, <1>4 DEF RespInv

\* A step outside of the response.
LEMMA RespElsewhere ==
    ASSUME RespInv, UNCHANGED <<outp, rsp, wbuf, wr, answered>>, at \notin Writing, at' \notin Writing
    PROVE  RespInv'
<1>1. Received'
    BY ReceivedSame DEF RespInv
<1>2. Marks'
    BY DEF RespInv, Marks
<1> QED
    BY <1>1, <1>2 DEF RespInv, Writing

\* A step of the response that gives `data` to the writer.
LEMMA RespPut ==
    ASSUME Writer, RespInv, NEW place \in Writing, NEW data \in Tokens, Put(place, data),
           at' \in Writing, at' # "answered", peer # "reset" => (\E F : Answer(F))'
    PROVE  RespInv'
<1>1. at = place /\ ef_bio_write(data) /\ rsp' = rsp /\ answered' = answered
    BY DEF Put, server_vars
<1>2. outp' = outp /\ peer' = peer /\ Marks'
    BY <1>1, HandedOn DEF RespInv
<1>3. Received'
    BY <1>1, <1>2, ReceivedSame DEF RespInv
<1> QED
    BY <1>1, <1>2, <1>3 DEF RespInv

\* The header of a record that is made when all before it has been given to the
\* writer: what of it comes after the header.
LEMMA RecordBegun ==
    ASSUME NEW F \in Tokens, NEW x \in Tokens, Begins(x, F), Len(F) = Len(x),
           NEW type \in Int, NEW c \in Contents
    PROVE  LET r == F \o Record(type, c)
               h == <<Type(type), Size(Len(c), Padding(Len(c)))>>
               y == x \o h
           IN  /\ h \in Tokens /\ y \in Tokens /\ Len(y) \in Nat /\ Begins(y, r)
               /\ Len(r) = Len(y) + (Len(c) + Padding(Len(c)))
               /\ \A j \in 1 .. Len(c) : r[Len(y) + j] = c[j]
               /\ \A j \in 1 .. Padding(Len(c)) : r[Len(y) + Len(c) + j] = Byte(0)
<1> DEFINE n == Len(c)
           z == Padding(n)
           R == Record(type, c)
           r == F \o R
           h == <<Type(type), Size(n, z)>>
           y == x \o h
           e == Len(x)
<1>1. /\ R \in Tokens /\ Len(R) = 2 + n + z /\ R[1] = Type(type) /\ R[2] = Size(n, z)
      /\ \A j \in 1 .. n : R[2 + j] = c[j]
      /\ \A j \in 1 .. z : R[2 + n + j] = Byte(0)
    BY RecordSized
<1>2. n \in Nat /\ z \in 0 .. 1 /\ e \in Nat
  <2>1. n \in Nat
    BY ContentFacts
  <2> HIDE DEF n
  <2> QED
    BY <2>1, PaddingFacts, JoinFacts
<1> HIDE DEF R, z, n, e
<1>3. h \in Tokens /\ Len(h) = 2
  <2>1. Type(type) \in Token /\ Size(n, z) \in Token
    BY <1>2, TokenFacts
  <2> QED
    BY <2>1 DEF Tokens
<1>4. h[1] = R[1] /\ h[2] = R[2]
    BY <1>1
<1> HIDE DEF h
<1>5. /\ r \in Tokens /\ Len(r) = e + (2 + n + z)
      /\ \A j \in 1 .. 2 + n + z : r[e + j] = R[j]
  <2>1. r \in Tokens /\ Len(r) = e + Len(R) /\ Len(R) \in Nat
    BY <1>1, JoinFacts DEF e
  <2>2. \A j \in 1 .. Len(R) : r[e + j] = R[j]
    <3>1. R \in Tokens
        BY <1>1
    <3>2. \A i \in 1 .. Len(R) : (F \o R)[Len(F) + i] = R[i]
        BY <3>1, JoinPlaces
    <3>3. Len(F) = e
        BY DEF e
    <3> QED
        BY <3>2, <3>3, Zenon
  <2> HIDE DEF r
  <2> QED
    BY <1>1, <1>2, <2>1, <2>2
<1>6. Begins(x, r)
    BY <1>1, BeginsLonger
<1> HIDE DEF r
<1>7. Begins(y, r) /\ y \in Tokens /\ Len(y) = e + 2
  <2>1. e + Len(h) <= Len(r)
    BY <1>2, <1>3, <1>5
  <2>2. \A j \in 1 .. Len(h) : h[j] = r[e + j]
    BY <1>2, <1>3, <1>4, <1>5
  <2>3. Begins(x \o h, r) /\ x \o h \in Tokens /\ Len(x \o h) = Len(x) + Len(h)
    BY <1>3, <1>5, <1>6, <2>1, <2>2, BeginsMore DEF e
  <2> QED
    BY <1>3, <2>3 DEF e
<1> HIDE DEF y
<1>8. ASSUME NEW j \in 1 .. n PROVE r[Len(y) + j] = c[j]
  <2>1. 2 + j \in 1 .. 2 + n + z /\ Len(y) + j = e + (2 + j)
    BY <1>2, <1>7
  <2> QED
    BY <1>1, <1>5, <2>1
<1>9. ASSUME NEW j \in 1 .. z PROVE r[Len(y) + n + j] = Byte(0)
  <2>1. 2 + n + j \in 1 .. 2 + n + z /\ Len(y) + n + j = e + (2 + n + j)
    BY <1>2, <1>7
  <2> QED
    BY <1>1, <1>5, <2>1
<1>10. Len(r) = Len(y) + (n + z) /\ Len(y) \in Nat
    BY <1>2, <1>5, <1>7
<1> QED
    BY <1>3, <1>7, <1>8, <1>9, <1>10 DEF r, y, h, R, n, z

\* The response has padding of a record as its header says.
LEMMA SamePadding == ASSUME NEW n PROVE PaddingLength(n) = Padding(n)
    BY DEF PaddingLength, Padding

\* The header of a record, or of the one that ends the request.
LEMMA RespHeader == ASSUME WriteInv, RespInv, PutHeader PROVE RespInv'
<1>1. Writer /\ Response /\ outp \in Tokens /\ Marks /\ at = "record"
    BY DEF WriteInv, RespInv, PutHeader, Put
<1>2. Payload \in Contents /\ Payload \in Tokens /\ Len(Payload) \in Nat
    BY PayloadFacts, JoinFacts DEF RespInv
<1>3. Handed \in Tokens /\ Len(Handed) \in Nat
    BY <1>1, HandedFacts
<1>4. length \in Nat /\ length <= Len(Payload)
  <2>1. /\ Left = length /\ Len(Payload) = Len(rsp[1]) + Len(rsp[2])
        /\ Len(rsp[1]) \in Nat /\ Len(rsp[2]) \in Nat /\ offset \in Nat /\ length \in Nat
    BY <1>1, PayloadFacts DEF WriteInv, RecordsFilled, Response, RespInv
  <2> DEFINE a == Len(rsp[1])
             b == Len(rsp[2])
  <2>2. Left = IF pbuf = 1 THEN (a - offset) + b ELSE IF pbuf = 2 THEN b - offset ELSE 0
    BY DEF Left
  <2>3. a \in Nat /\ b \in Nat /\ Len(Payload) = a + b /\ Left = length /\ length \in Nat /\ offset \in Nat
    BY <2>1
  <2> HIDE DEF a, b
  <2>4. Left <= a + b
    BY <2>2, <2>3
  <2> QED
    BY <2>3, <2>4
<1>5. CASE length > 0
  <2> DEFINE n == Least(length, MaxContent)
             L == Len(Payload)
             c == SubSeq(Payload, (L - length) + 1, (L - length) + n)
             h == <<Type(FCGI_STDOUT), Size(n, PaddingLength(n))>>
  <2>1. /\ at' = "copy" /\ Put("record", h) /\ pksz' = n
        /\ length' = length - n /\ pad' = PaddingLength(n) /\ rsp' = rsp
    BY <1>5 DEF PutHeader, Put
  <2>2. n \in Nat /\ n <= length /\ n <= MaxContent /\ MaxContent \in Nat
    BY <1>4, ContentAssumption DEF Least
  <2> HIDE DEF n
  <2>3. c \in Contents /\ Len(c) = n /\ \A j \in 1 .. n : c[j] = Payload[(L - length) + j]
    <3> DEFINE T == {t \in Token : t.k = "byte"}
               P == Payload
               lo == (L - length) + 1
               hi == (L - length) + n
    <3>1. P \in Seq(T) /\ \A i \in 1 .. Len(P) : P[i] \in T
        BY <1>2, LenProperties DEF Contents
    <3> HIDE DEF T, P
    <3>2. lo \in Int /\ hi \in Int /\ lo >= 1 /\ hi <= L /\ hi - lo + 1 = n
        BY <1>2, <1>4, <2>2
    <3>3. L = Len(P)
        BY DEF P
    <3> HIDE DEF L, lo, hi
    <3>4. \A i \in lo .. hi : P[i] \in T
        BY <3>1, <3>2, <3>3
    <3>4a. Len(P) \in Nat /\ L \in Nat
        BY <3>1, <3>3, LenProperties
    <3>5. /\ SubSeq(P, lo, hi) \in Seq(T)
          /\ Len(SubSeq(P, lo, hi)) = IF lo <= hi THEN hi - lo + 1 ELSE 0
          /\ \A i \in 1 .. hi - lo + 1 : SubSeq(P, lo, hi)[i] = P[lo + i - 1]
        BY <3>1, <3>2, <3>4, SubSeqProperties
    <3>6. Len(SubSeq(P, lo, hi)) = n
        BY <2>2, <3>2, <3>5
    <3>7. ASSUME NEW j \in 1 .. n PROVE SubSeq(P, lo, hi)[j] = P[(L - length) + j]
      <4>1. lo + j - 1 = (L - length) + j
        BY <1>4, <2>2, <3>4a DEF lo
      <4> QED
        BY <3>2, <3>5, <4>1
    <3> QED
        BY <3>5, <3>6, <3>7 DEF T, P, lo, hi, Contents
  <2> HIDE DEF c
  <2>4. ASSUME peer # "reset" PROVE (\E F : Answer(F))'
    <3>1. PICK F : Answer(F)
        BY <1>1, <2>4 DEF RespInv, Writing
    <3>2. /\ F \in Tokens /\ Made(F, Payload, L - length, FALSE)
          /\ Begins(Handed, F) /\ Len(F) = Len(Handed)
      <4>1. Made(F, Payload, L - length, FALSE) /\ Begins(Handed, F) /\ Len(F) = Len(Handed) + 0
        BY <1>1, <3>1 DEF Answer, Owed
      <4>2. F \in Tokens
        BY <4>1 DEF Made
      <4>3. Len(F) = Len(Handed)
        BY <1>3, <4>1
      <4> QED
        BY <4>1, <4>2, <4>3
    <3> DEFINE G == F \o Record(FCGI_STDOUT, c)
               y == Handed \o h
    <3>3. Made(G, Payload, (L - length) + n, FALSE)
      <4> DEFINE m == L - length
                 p == Payload
      <4>1. /\ p \in Tokens /\ Made(F, p, m, FALSE) /\ c \in Contents /\ Len(c) = n
            /\ Len(c) <= MaxContent /\ \A j \in 1 .. Len(c) : c[j] = p[m + j]
        BY <1>2, <2>2, <2>3, <3>2
      <4>2. m + n <= Len(p)
        BY <1>2, <1>4, <2>2
      <4> HIDE DEF m, p
      <4>3. Made(F \o Record(FCGI_STDOUT, c), p, m + Len(c), FALSE)
        BY <4>1, <4>2, MadeContent
      <4> QED
        BY <4>1, <4>3 DEF m, p
    <3>4. /\ h \in Tokens /\ Len(y) \in Nat /\ Begins(y, G)
          /\ Len(G) = Len(y) + (n + Padding(n))
          /\ \A j \in 1 .. n : G[Len(y) + j] = c[j]
          /\ \A j \in 1 .. Padding(n) : G[Len(y) + n + j] = Byte(0)
      <4> DEFINE k == <<Type(FCGI_STDOUT), Size(Len(c), Padding(Len(c)))>>
      <4>1. k = h
        BY <2>3, SamePadding
      <4>2. FCGI_STDOUT \in Int
        BY DEF FCGI_STDOUT
      <4>3. /\ k \in Tokens /\ Len(Handed \o k) \in Nat /\ Begins(Handed \o k, G)
            /\ Len(G) = Len(Handed \o k) + (Len(c) + Padding(Len(c)))
            /\ \A j \in 1 .. Len(c) : G[Len(Handed \o k) + j] = c[j]
            /\ \A j \in 1 .. Padding(Len(c)) : G[Len(Handed \o k) + Len(c) + j] = Byte(0)
        BY <1>3, <2>3, <3>2, <4>2, RecordBegun
      <4> HIDE DEF G, h, k
      <4> QED
        BY <2>3, <4>1, <4>3
    <3>5. Handed' = y
        BY <1>1, <2>1, <3>4, HandedOn DEF Put
    <3>6. Payload' = Payload
        BY <2>1 DEF Payload
    <3> HIDE DEF G, y, h
    <3>g. PICK all : all = G
        OBVIOUS
    <3>7. Made(all, Payload', Len(Payload') - length', FALSE)
      <4>1. L - length' = (L - length) + n
        BY <1>2, <1>4, <2>1, <2>2
      <4> QED
        BY <3>3, <3>6, <3>g, <4>1
    <3>8. Owed' = n + Padding(n)
        BY <2>1, SamePadding DEF Owed
    <3>9. ASSUME NEW j \in 1 .. pksz'
          PROVE  all[Len(Handed') + j] = Payload'[(Len(Payload') - length' - pksz') + j]
      <4>1. Len(Payload') - length' - pksz' = L - length
        BY <1>2, <1>4, <2>1, <2>2, <3>6
      <4> QED
        BY <2>1, <2>3, <3>4, <3>5, <3>6, <3>g, <4>1
    <3>10. ASSUME NEW j \in 1 .. pad' PROVE all[Len(Handed') + pksz' + j] = Byte(0)
        BY <2>1, <3>4, <3>5, <3>g, SamePadding
    <3>11. Begins(Handed', all) /\ Len(all) = Len(Handed') + Owed'
        BY <3>4, <3>5, <3>8, <3>g
    <3>12. Answer(all)'
      <4>1. at' = "copy"
        BY <2>1
      <4>2. /\ at' \in {"record", "copy", "pad"}
            /\ at' \notin {"end", "flush", "answered"} /\ at' # "pad" /\ at' # "end"
        BY <4>1
      <4>3. ContentNext(all)'
        BY <3>9, <3>10 DEF ContentNext
      <4> QED
        BY <3>7, <3>11, <4>2, <4>3, Zenon DEF Answer
    <3> QED
        BY <3>12
  <2>5. h \in Tokens
    <3> DEFINE z == PaddingLength(n)
    <3>1. z \in Int /\ n \in Int /\ FCGI_STDOUT \in Int
      <4>1. Padding(n) \in 0 .. 1
        BY <2>2, PaddingFacts
      <4>2. PaddingLength(n) = Padding(n)
        BY SamePadding
      <4> QED
        BY <2>2, <4>1, <4>2 DEF FCGI_STDOUT
    <3> HIDE DEF z
    <3>2. Type(FCGI_STDOUT) \in Token /\ Size(n, z) \in Token
        BY <3>1, TokenFacts
    <3> QED
        BY <3>2 DEF Tokens, z
  <2> HIDE DEF h
  <2> QED
    BY <1>1, <2>1, <2>4, <2>5, RespPut DEF Writing
<1>6. CASE length = 0
  <2> DEFINE L == Len(Payload)
             h == <<Type(FCGI_END_REQUEST), Size(BeginLen, 0)>>
  <2>1. at' = "end" /\ Put("record", h) /\ rsp' = rsp
    BY <1>6 DEF PutHeader, Put
  <2>2. h \in Tokens
    <3>1. Type(FCGI_END_REQUEST) \in Token /\ Size(BeginLen, 0) \in Token
        BY TokenFacts DEF FCGI_END_REQUEST, BeginLen
    <3> QED
        BY <3>1 DEF Tokens
  <2>3. ASSUME peer # "reset" PROVE (\E F : Answer(F))'
    <3>1. PICK F : Answer(F)
        BY <1>1, <2>3 DEF RespInv, Writing
    <3>2. /\ F \in Tokens /\ Made(F, Payload, L, FALSE)
          /\ Begins(Handed, F) /\ Len(F) = Len(Handed)
      <4>1. Made(F, Payload, L - length, FALSE) /\ Begins(Handed, F) /\ Len(F) = Len(Handed) + 0
        BY <1>1, <3>1 DEF Answer, Owed
      <4>2. L - length = L
        BY <1>2, <1>6
      <4>3. F \in Tokens
        BY <4>1 DEF Made
      <4>4. Len(F) = Len(Handed)
        BY <1>3, <4>1
      <4> QED
        BY <4>1, <4>2, <4>3, <4>4
    <3> DEFINE G == F \o Record(FCGI_END_REQUEST, EndBody)
               y == Handed \o h
    <3>3. Made(G, Payload, L, TRUE)
        BY <1>2, <3>2, MadeEnd
    <3>4. /\ Len(y) \in Nat /\ Begins(y, G)
          /\ Len(G) = Len(y) + 2
          /\ \A j \in 1 .. 2 : G[Len(y) + j] = Byte(0)
      <4> DEFINE c == EndBody
                 k == <<Type(FCGI_END_REQUEST), Size(Len(c), Padding(Len(c)))>>
      <4>1. Len(c) = 2 /\ c \in Contents /\ \A j \in 1 .. 2 : c[j] = Byte(0)
        BY EndBodyFacts
      <4> HIDE DEF c
      <4>2. FCGI_END_REQUEST \in Int /\ Padding(2) = 0 /\ BeginLen = 2
        BY DEF FCGI_END_REQUEST, Padding, Align, BeginLen
      <4>3. k = h
        BY <4>1, <4>2
      <4>4. /\ Len(Handed \o k) \in Nat /\ Begins(Handed \o k, F \o Record(FCGI_END_REQUEST, c))
            /\ Len(F \o Record(FCGI_END_REQUEST, c)) = Len(Handed \o k) + (Len(c) + Padding(Len(c)))
            /\ \A j \in 1 .. Len(c) : (F \o Record(FCGI_END_REQUEST, c))[Len(Handed \o k) + j] = c[j]
        BY <1>3, <3>2, <4>1, <4>2, RecordBegun
      <4>5. G = F \o Record(FCGI_END_REQUEST, c)
        BY DEF c
      <4> HIDE DEF G, h, k
      <4> QED
        BY <4>1, <4>2, <4>3, <4>4, <4>5
    <3>5. Handed' = y
        BY <1>1, <2>1, <2>2, HandedOn DEF Put
    <3>6. Payload' = Payload
        BY <2>1 DEF Payload
    <3> HIDE DEF G, y, h
    <3>7. Owed' = 2
        BY <2>1 DEF Owed
    <3>8. Answer(G)'
        BY <2>1, <3>3, <3>4, <3>5, <3>6, <3>7 DEF Answer, ZerosNext
    <3> QED
        BY <3>8
  <2> HIDE DEF h
  <2> QED
    BY <1>1, <2>1, <2>2, <2>3, RespPut DEF Writing
<1> QED
    BY <1>4, <1>5, <1>6

\* As much of a record as the headers, or the data, still hold, is what comes
\* next in the response.
LEMMA RespContent == ASSUME WriteInv, RespInv, PutContent PROVE RespInv'
<1> DEFINE buf == rsp[pbuf]
           n == Least(Len(buf) - offset, pksz)
           data == SubSeq(buf, offset + 1, offset + n)
           L == Len(Payload)
           from == L - length - pksz
           x == Len(Handed)
<1>1. /\ at = "copy" /\ pbuf \in 1 .. 2 /\ Put("copy", data) /\ pksz' = pksz - n
      /\ at' = IF pksz' > 0 THEN "copy" ELSE IF pad > 0 THEN "pad" ELSE "record"
      /\ UNCHANGED <<rsp, length, pad>>
    BY DEF PutContent, Put, WriteInv, Response
<1>2. Writer /\ Response /\ outp \in Tokens /\ Marks /\ rsp \in [1 .. 2 -> Contents]
    BY DEF WriteInv, RespInv
<1>3. buf \in Tokens /\ Len(buf) \in Nat /\ offset \in 0 .. Len(buf)
    BY <1>1, <1>2, JoinFacts DEF Response
<1>4. /\ n \in 0 .. pksz /\ offset + n <= Len(buf)
      /\ pksz \in Nat /\ pksz > 0 /\ length \in Nat /\ pad \in Nat
    BY <1>1, <1>2, <1>3 DEF Least, Response, RecordsFilled, WriteInv
<1>5. from \in Nat /\ \A j \in 1 .. n : Payload[from + j] = buf[offset + j]
  <2> DEFINE a == rsp[1]
             b == rsp[2]
             la == Len(a)
             lb == Len(b)
  <2>1. /\ la \in Nat /\ lb \in Nat /\ L = la + lb
        /\ \A i \in 1 .. la : Payload[i] = a[i]
        /\ \A i \in 1 .. lb : Payload[la + i] = b[i]
    BY <1>2, PayloadFacts
  <2>2. length + pksz = IF pbuf = 1 THEN (la - offset) + lb ELSE lb - offset
    BY <1>1 DEF WriteInv, RecordsFilled, Left
  <2>3. CASE pbuf = 1
    <3>1. buf = a /\ Len(buf) = la
        BY <2>3
    <3> HIDE DEF la, lb, buf, n, a, b, L
    <3>2. from = offset /\ from \in Nat
        BY <1>3, <1>4, <2>1, <2>2, <2>3
    <3>3. ASSUME NEW j \in 1 .. n PROVE Payload[from + j] = buf[offset + j]
      <4>1. offset + j \in 1 .. la
        BY <1>3, <1>4, <3>1, <2>1
      <4> QED
        BY <2>1, <3>1, <3>2, <4>1
    <3> QED
        BY <3>2, <3>3
  <2>4. CASE pbuf = 2
    <3>1. buf = b /\ Len(buf) = lb
        BY <2>4
    <3> HIDE DEF la, lb, buf, n, a, b, L
    <3>2. from = la + offset /\ from \in Nat
        BY <1>3, <1>4, <2>1, <2>2, <2>4
    <3>3. ASSUME NEW j \in 1 .. n PROVE Payload[from + j] = buf[offset + j]
      <4>1. offset + j \in 1 .. lb /\ from + j = la + (offset + j)
        BY <1>3, <1>4, <3>1, <3>2, <2>1
      <4> QED
        BY <2>1, <3>1, <4>1
    <3> QED
        BY <3>2, <3>3
  <2> QED
    BY <1>1, <2>3, <2>4
<1>6. data \in Tokens /\ Len(data) = n /\ \A j \in 1 .. n : data[j] = buf[offset + j]
  <2> DEFINE lo == offset + 1
             hi == offset + n
  <2>1. \A i \in 1 .. Len(buf) : buf[i] \in Token
    BY <1>3, LenProperties DEF Tokens
  <2> HIDE DEF buf, n
  <2>2. lo \in Int /\ hi \in Int /\ lo >= 1 /\ hi <= Len(buf) /\ hi - lo + 1 = n /\ n \in Nat
        /\ offset \in Nat
    BY <1>3, <1>4
  <2>2a. \A j \in 1 .. n : lo + j - 1 = offset + j
    BY <2>2
  <2> HIDE DEF lo, hi
  <2>3. \A i \in lo .. hi : buf[i] \in Token
    BY <1>3, <2>1, <2>2
  <2>4. /\ SubSeq(buf, lo, hi) \in Seq(Token)
        /\ Len(SubSeq(buf, lo, hi)) = IF lo <= hi THEN hi - lo + 1 ELSE 0
        /\ \A i \in 1 .. hi - lo + 1 : SubSeq(buf, lo, hi)[i] = buf[lo + i - 1]
    BY <1>3, <2>2, <2>3, SubSeqProperties DEF Tokens
  <2>5. Len(SubSeq(buf, lo, hi)) = n
    BY <2>2, <2>4
  <2>6. ASSUME NEW j \in 1 .. n PROVE SubSeq(buf, lo, hi)[j] = buf[offset + j]
    BY <2>2, <2>2a, <2>4
  <2> QED
    BY <2>4, <2>5, <2>6 DEF lo, hi, Tokens
<1> HIDE DEF buf, n, data
<1>7. ASSUME peer # "reset" PROVE (\E F : Answer(F))'
  <2>1. PICK F : Answer(F)
    BY <1>1, <1>2, <1>7 DEF RespInv, Writing
  <2>2. /\ Made(F, Payload, L - length, FALSE)
        /\ Begins(Handed, F) /\ Len(F) = x + (pksz + pad)
    BY <1>1, <2>1 DEF Answer, Owed
  <2>3. /\ \A j \in 1 .. pksz : F[x + j] = Payload[from + j]
        /\ \A j \in 1 .. pad : F[x + pksz + j] = Byte(0)
    BY <1>1, <2>1 DEF Answer, ContentNext
  <2>4. F \in Tokens
    BY <2>2 DEF Made
  <2>5. Handed \in Tokens /\ x \in Nat /\ L \in Nat
    BY <1>2, HandedFacts, PayloadFacts, JoinFacts
  <2> DEFINE y == Handed \o data
  <2>6. Begins(y, F) /\ Len(y) = x + n
    <3>1. x + n <= Len(F)
      <4> HIDE DEF x
      <4> QED
        BY <1>4, <2>2, <2>5
    <3>2. \A j \in 1 .. n : data[j] = F[x + j]
      <4>1. \A j \in 1 .. n : j \in 1 .. pksz
        BY <1>4
      <4> QED
        BY <1>5, <1>6, <2>3, <4>1
    <3> QED
        BY <1>6, <2>2, <2>4, <2>5, <3>1, <3>2, BeginsMore
  <2>7. Handed' = y /\ Payload' = Payload
    BY <1>1, <1>2, <1>6, HandedOn DEF Put, Payload
  <2> HIDE DEF y
  <2>8. Made(F, Payload', Len(Payload') - length', FALSE)
    BY <1>1, <2>2, <2>7
  <2> DEFINE len == Len(Payload')
             from1 == len - length' - pksz'
  <2>8a. len = L
    BY <2>7
  <2> HIDE DEF L, x, len
  <2>9. pksz' \in Nat /\ n + pksz' = pksz /\ from1 = from + n
    BY <1>1, <1>4, <2>5, <2>8a
  <2>10. ASSUME NEW j \in 1 .. pksz' PROVE F[Len(Handed') + j] = Payload'[from1 + j]
    <3>0. from \in Nat /\ from1 = from + n /\ pksz' \in Nat /\ n + pksz' = pksz /\ n \in Nat /\ x \in Nat
      <4>1. from \in Nat
        BY <1>5
      <4>2. from1 = from + n /\ pksz' \in Nat /\ n + pksz' = pksz
        BY <2>9
      <4>3. n \in Nat
        BY <1>4
      <4>4. x \in Nat
        BY <2>5
      <4> QED
        BY <4>1, <4>2, <4>3, <4>4
    <3> HIDE DEF from, from1
    <3>1. n + j \in 1 .. pksz /\ (x + n) + j = x + (n + j) /\ from1 + j = from + (n + j)
        BY <3>0
    <3> QED
        BY <2>3, <2>6, <2>7, <3>1
  <2>11. ASSUME NEW j \in 1 .. pad' PROVE F[Len(Handed') + pksz' + j] = Byte(0)
    <3>1. ((x + n) + pksz') + j = (x + pksz) + j
        BY <1>1, <1>4, <2>5, <2>9
    <3> QED
        BY <1>1, <2>3, <2>6, <2>7, <3>1
  <2>12. ContentNext(F)'
    BY <2>10, <2>11 DEF ContentNext, len
  <2>13. CASE pksz' > 0
    <3>1. at' = "copy"
        BY <1>1, <2>13
    <3>2. Len(F) = Len(Handed') + (pksz' + pad')
        BY <1>1, <1>4, <2>2, <2>5, <2>6, <2>7, <2>9
    <3> QED
        BY <2>6, <2>7, <2>8, <2>12, <3>1, <3>2 DEF Answer, Owed
  <2>14. CASE ~ (pksz' > 0) /\ pad > 0
    <3>1. at' = "pad" /\ pksz' = 0
        BY <1>1, <2>9, <2>14
    <3>2. Len(F) = Len(Handed') + pad'
        BY <1>1, <1>4, <2>2, <2>5, <2>6, <2>7, <2>9, <3>1
    <3>3. ZerosNext(F, pad)'
      <4>1. Len(Handed') \in Nat /\ pad' \in Nat
        BY <1>1, <1>4, <2>5, <2>6, <2>7
      <4>2. \A j \in 1 .. pad' : Len(Handed') + pksz' + j = Len(Handed') + j
        BY <3>1, <4>1
      <4> QED
        BY <2>11, <4>2 DEF ZerosNext
    <3> QED
        BY <2>6, <2>7, <2>8, <3>1, <3>2, <3>3 DEF Answer, Owed
  <2>15. CASE ~ (pksz' > 0) /\ ~ (pad > 0)
    <3>1. at' = "record" /\ pksz' = 0 /\ pad = 0
        BY <1>1, <1>4, <2>9, <2>15
    <3>2. Len(F) = Len(Handed') + 0
        BY <1>1, <1>4, <2>2, <2>5, <2>6, <2>7, <2>9, <3>1
    <3> QED
        BY <2>6, <2>7, <2>8, <3>1, <3>2 DEF Answer, Owed
  <2> QED
    BY <2>13, <2>14, <2>15
<1>8. at' \in Writing /\ at' # "answered"
    BY <1>1 DEF Writing
<1> QED
    BY <1>1, <1>2, <1>6, <1>7, <1>8, RespPut DEF Writing

\* Zeros come next, and are given to the writer: the padding of a record ...
LEMMA ZerosGiven ==
    ASSUME WriteInv, RespInv, at \in Writing, NEW F \in Tokens, Begins(Handed, F),
           NEW n \in Nat, ZerosNext(F, n), Len(F) = Len(Handed) + n,
           NEW data \in Tokens, Len(data) = n, \A j \in 1 .. n : data[j] = Byte(0),
           ef_bio_write(data)
    PROVE  Begins(Handed', F) /\ Len(F) = Len(Handed')
<1>1. Writer /\ outp \in Tokens /\ Marks
    BY DEF WriteInv, RespInv
<1>2. Handed \in Tokens /\ Len(Handed) \in Nat
    BY <1>1, HandedFacts
<1>3. Handed' = Handed \o data
    BY <1>1, HandedOn
<1>4. \A j \in 1 .. n : data[j] = F[Len(Handed) + j]
    BY DEF ZerosNext
<1>5. Begins(Handed \o data, F) /\ Len(Handed \o data) = Len(Handed) + n
  <2> DEFINE x == Handed
  <2>1. /\ x \in Tokens /\ Len(x) + Len(data) <= Len(F) /\ Begins(x, F)
        /\ \A j \in 1 .. Len(data) : data[j] = F[Len(x) + j]
    BY <1>2, <1>4
  <2> HIDE DEF x
  <2>2. Begins(x \o data, F) /\ Len(x \o data) = Len(x) + Len(data)
    BY <2>1, BeginsMore
  <2> QED
    BY <2>2 DEF x
<1> QED
    BY <1>3, <1>5

\* The padding of a record comes next.
LEMMA RespPadding == ASSUME WriteInv, RespInv, PutPadding PROVE RespInv'
<1>1. /\ at = "pad" /\ at' = "record" /\ Put("pad", Pads(pad)) /\ rsp' = rsp /\ length' = length
    BY DEF PutPadding, Put
<1>2. Writer /\ outp \in Tokens /\ Marks /\ pad \in Nat
    BY DEF WriteInv, RespInv, Response
<1>3. Pads(pad) \in Tokens /\ Len(Pads(pad)) = pad /\ \A j \in 1 .. pad : Pads(pad)[j] = Byte(0)
  <2>1. Byte(0) \in Token
    BY TokenFacts
  <2> QED
    BY <1>2, <2>1 DEF Pads, Tokens
<1>4. ASSUME peer # "reset" PROVE (\E F : Answer(F))'
  <2>1. PICK F : Answer(F)
    BY <1>1, <1>4 DEF RespInv, Writing
  <2>2. /\ Made(F, Payload, Len(Payload) - length, FALSE)
        /\ Begins(Handed, F) /\ Len(F) = Len(Handed) + pad /\ ZerosNext(F, pad)
    BY <1>1, <2>1 DEF Answer, Owed
  <2>3. F \in Tokens
    BY <2>2 DEF Made
  <2>4. Begins(Handed', F) /\ Len(F) = Len(Handed')
    <3> DEFINE data == Pads(pad)
    <3>1. data \in Tokens /\ Len(data) = pad /\ (\A j \in 1 .. pad : data[j] = Byte(0)) /\ ef_bio_write(data)
        BY <1>1, <1>3 DEF Put
    <3> HIDE DEF data
    <3>2. at \in Writing
        BY <1>1 DEF Writing
    <3> QED
        BY <1>2, <2>2, <2>3, <3>1, <3>2, ZerosGiven
  <2>5. Len(F) = Len(Handed') + 0
    BY <2>3, <2>4, JoinFacts
  <2>6. Payload' = Payload
    BY <1>1 DEF Payload
  <2>7. Made(F, Payload', Len(Payload') - length', FALSE)
    BY <1>1, <2>2, <2>6
  <2> QED
    BY <1>1, <2>4, <2>5, <2>7 DEF Answer, Owed
<1> QED
    BY <1>1, <1>2, <1>3, <1>4, RespPut DEF Writing

\* ... and the body of the record that ends the request.
LEMMA RespEnd == ASSUME WriteInv, RespInv, PutEnd PROVE RespInv'
<1> DEFINE data == <<Byte(0), Byte(0)>>
<1>1. /\ at = "end" /\ at' = "flush" /\ Put("end", data) /\ rsp' = rsp
    BY DEF PutEnd, Put
<1>2. Writer /\ outp \in Tokens /\ Marks
    BY DEF WriteInv, RespInv
<1>3. data \in Tokens /\ Len(data) = 2 /\ \A j \in 1 .. 2 : data[j] = Byte(0)
  <2>1. Byte(0) \in Token
    BY TokenFacts
  <2> QED
    BY <2>1 DEF Tokens
<1> HIDE DEF data
<1>4. ASSUME peer # "reset" PROVE (\E F : Answer(F))'
  <2>1. PICK F : Answer(F)
    BY <1>1, <1>4 DEF RespInv, Writing
  <2>2. /\ Made(F, Payload, Len(Payload), TRUE)
        /\ Begins(Handed, F) /\ Len(F) = Len(Handed) + 2 /\ ZerosNext(F, 2)
    BY <1>1, <2>1 DEF Answer, Owed
  <2>3. F \in Tokens
    BY <2>2 DEF Made
  <2>4. Begins(Handed', F) /\ Len(F) = Len(Handed')
    <3>1. at \in Writing /\ ef_bio_write(data) /\ 2 \in Nat
        BY <1>1 DEF Writing, Put
    <3> QED
        BY <1>2, <1>3, <2>2, <2>3, <3>1, ZerosGiven
  <2>5. Len(F) = Len(Handed') + 0
    BY <2>3, <2>4, JoinFacts
  <2>6. Payload' = Payload
    BY <1>1 DEF Payload
  <2>7. Made(F, Payload', Len(Payload'), TRUE)
    BY <2>2, <2>6
  <2> QED
    BY <1>1, <2>4, <2>5, <2>7 DEF Answer, Owed
<1> QED
    BY <1>1, <1>2, <1>3, <1>4, RespPut DEF Writing

\* The writer is flushed.
LEMMA RespFlush == ASSUME WriteInv, RespInv, Flush PROVE RespInv'
<1>1. /\ at = "flush" /\ at' = "answered" /\ ef_bio_writer_flush
      /\ UNCHANGED <<rsp, length, pksz, pad, answered>>
    BY DEF Flush, response_vars, server_vars
<1>2. Writer /\ outp \in Tokens /\ Marks
    BY DEF WriteInv, RespInv
<1>3. Handed' = Handed /\ outp' = outp /\ peer' = peer /\ Marks' /\ (wr' = NoWrite => wbuf' = <<>>)
    BY <1>1, <1>2, HandedFlush
<1>4. Received'
    BY <1>1, <1>3, ReceivedSame DEF RespInv
<1>5. ASSUME peer # "reset" PROVE (\E F : Answer(F))'
  <2>1. PICK F : Answer(F)
    BY <1>1, <1>5 DEF RespInv, Writing
  <2>2. Payload' = Payload /\ Owed' = Owed
    BY <1>1 DEF Payload, Owed
  <2>3. Answer(F)'
    BY <1>1, <1>3, <2>1, <2>2 DEF Answer
  <2> QED
    BY <2>3
<1> QED
    BY <1>1, <1>3, <1>4, <1>5 DEF RespInv, Writing

\* A write of the writer's: what it sends, the server receives; or it fails.
LEMMA RespWrite ==
    ASSUME WriteInv, RespInv, ef_safe_write, UNCHANGED <<rsp, length, pksz, pad, answered, at>>
    PROVE  RespInv'
<1>1. Writer /\ Writer' /\ outp \in Tokens /\ Marks
    BY SafeWriteKeeps DEF WriteInv, RespInv
<1>2. wr # NoWrite /\ at \in Writing /\ ~ answered
    BY DEF ef_safe_write, Send, WriteFails, RespInv
<1>3. CASE Send
  <2>1. Handed' = Handed /\ outp' \in Tokens /\ peer' = peer /\ Marks' /\ (wr' = NoWrite => wbuf' = <<>>)
    BY <1>1, <1>3, HandedSent
  <2>2. peer # "reset"
    BY <1>3 DEF Send
  <2>3. PICK F : Answer(F)
    BY <1>2, <2>2 DEF RespInv
  <2>4. Payload' = Payload /\ Owed' = Owed
    BY DEF Payload, Owed
  <2>5. Answer(F)'
    BY <2>1, <2>3, <2>4 DEF Answer, ContentNext, ZerosNext
  <2>6. Received'
    <3>1. Made(F, Payload', Len(Payload') - length', FALSE) \/ Made(F, Payload', Len(Payload'), TRUE)
        BY <1>2, <2>5 DEF Answer, Writing
    <3>2. F \in Tokens
        BY <3>1 DEF Made
    <3>3. Len(F) \in Nat
        BY <3>2, JoinFacts
    <3>4. Pending' \in Tokens
        BY <1>1, JoinFacts DEF Writer, Pending
    <3>5. Begins(outp' \o Pending', F)
        BY <2>5 DEF Answer, Handed
    <3>6. Begins(outp', F)
        BY <2>1, <3>3, <3>4, <3>5, BeginsLess
    <3> QED
        BY <3>1, <3>6 DEF Received
  <2> QED
    BY <1>2, <2>1, <2>5, <2>6 DEF RespInv
<1>4. CASE WriteFails
  <2>1. peer' = "reset" /\ outp' = outp /\ wr' = NoWrite
    BY <1>4 DEF WriteFails, conn_vars
  <2>2. Marks'
    BY <2>1 DEF Marks, NoWrite
  <2>3. Received'
    BY <2>1, ReceivedSame DEF RespInv
  <2> QED
    BY <1>2, <2>1, <2>2, <2>3 DEF RespInv
<1> QED
    BY <1>3, <1>4 DEF ef_safe_write

\* A response is begun when there is a request to answer, and the server has
\* received nothing since it sent that.
LEMMA RespNew == ASSUME WriteInv, RequestInv, RespInv, fcgi_new_response PROVE RespInv'
<1>1. /\ at = "returned" /\ wbuf' = <<>> /\ wr' = NoWrite /\ outp' = outp /\ answered' = answered
    BY DEF fcgi_new_response, conn_vars, server_vars
<1>2. Marks'
    BY <1>1 DEF Marks, NoWrite
<1>3. CASE request.got # "some"
  <2>1. at' = "closed" /\ rsp' = rsp
    BY <1>3 DEF fcgi_new_response
  <2>2. Received'
    BY <1>1, <2>1, ReceivedSame DEF RespInv
  <2> QED
    BY <1>1, <1>2, <2>1, <2>2 DEF RespInv, Writing
<1>4. CASE request.got = "some"
  <2>1. ~ answered
    BY <1>1, <1>4 DEF RequestInv, Lost, InPlace, AfterAll, Complete
  <2>2. outp' = <<>>
    BY <1>1, <2>1 DEF RespInv, Writing
  <2>3. at' = "record"
    BY <1>4 DEF fcgi_new_response
  <2>4. PICK n \in Responses :
            /\ rsp' = <<Bytes([i \in 1 .. n[1] |-> i]), Bytes([i \in 1 .. n[2] |-> n[1] + i])>>
            /\ length' = n[1] + n[2]
    BY <1>4 DEF fcgi_new_response
  <2> DEFINE h == n[1]
             d == n[2]
             headers == Bytes([i \in 1 .. h |-> i])
             data == Bytes([i \in 1 .. d |-> h + i])
  <2>5. h \in Nat /\ d \in Nat
    BY ResponseAssumption
  <2>6. rsp' = <<headers, data>> /\ length' = h + d
    BY <2>4
  <2> HIDE DEF h, d
  <2>7. /\ headers \in Contents /\ Len(headers) = h
        /\ data \in Contents /\ Len(data) = d
    <3> DEFINE s == [i \in 1 .. h |-> i]
               t == [i \in 1 .. d |-> h + i]
    <3>1. s \in Seq(Nat) /\ Len(s) = h /\ t \in Seq(Nat) /\ Len(t) = d
        BY <2>5
    <3> HIDE DEF s, t
    <3>2. /\ Bytes(s) \in Contents /\ Len(Bytes(s)) = h
          /\ Bytes(t) \in Contents /\ Len(Bytes(t)) = d
        BY <3>1, BytesFacts
    <3> QED
        BY <3>2 DEF s, t
  <2> HIDE DEF headers, data
  <2>8. rsp' \in [1 .. 2 -> Contents] /\ rsp'[1] = headers /\ rsp'[2] = data
    BY <2>6, <2>7
  <2>9. headers \in Tokens /\ data \in Tokens
    <3>1. {t \in Token : t.k = "byte"} \subseteq Token
        OBVIOUS
    <3> QED
        BY <2>7, <3>1, SeqMonotonic DEF Contents, Tokens
  <2>10. Payload' = headers \o data
    BY <2>8 DEF Payload
  <2>11. Payload' \in Tokens /\ Len(Payload') = length'
    BY <2>6, <2>7, <2>9, <2>10, JoinFacts
  <2>12. Received'
    BY <2>2, <2>8, ReceivedNothing
  <2>13. Answer(<<>>)'
    <3>1. Handed' = <<>>
      <4>1. Pending' = <<>>
        BY <1>1 DEF Pending, NoWrite
      <4> QED
        BY <2>2, <4>1, EmptyFacts, JoinFacts DEF Handed
    <3>2. Made(<<>>, Payload', Len(Payload') - length', FALSE)
      <4>1. Len(Payload') - length' = 0
        BY <2>5, <2>6, <2>11
      <4> QED
        BY <2>11, <4>1, MadeNothing
    <3>3. Begins(<<>>, <<>>) /\ Len(<<>>) = Len(<<>>) + 0
        BY EmptyFacts DEF Begins
    <3> QED
        BY <2>3, <3>1, <3>2, <3>3 DEF Answer, Owed
  <2>14. outp' \in Tokens
    BY <2>2, EmptyFacts
  <2>15. (\E F : Answer(F))'
    BY <2>13
  <2> QED
    BY <1>1, <1>2, <2>1, <2>3, <2>8, <2>12, <2>14, <2>15 DEF RespInv, Writing
<1> QED
    BY <1>3, <1>4

\* The invariant of the response is inductive.
LEMMA RespInvNext == WriteInv /\ RequestInv /\ RespInv /\ [Next]_vars => RespInv'
<1> SUFFICES ASSUME WriteInv, RequestInv, RespInv, [Next]_vars PROVE RespInv'
    OBVIOUS
<1>a. ASSUME NEW place \in Places \ Writing, Got(place), at' \notin Writing PROVE RespInv'
  <2>1. UNCHANGED <<outp, rsp, wbuf, wr, answered>> /\ at \notin Writing
    BY <1>a DEF Got, conn_vars, writer_vars, response_vars, server_vars
  <2> QED
    BY <1>a, <2>1, RespElsewhere
<1>1. CASE SendRequest
  <2>1. /\ UNCHANGED <<rsp, wbuf, wr, at, peer>> /\ answered /\ ~ answered' /\ outp' = <<>>
    BY <1>1 DEF SendRequest, writer_vars, response_vars
  <2>2. at \notin Writing
    BY <2>1 DEF RespInv
  <2>3. Received'
    BY <2>1, ReceivedNothing DEF RespInv
  <2>4. Marks'
    BY <2>1 DEF RespInv, Marks
  <2> QED
    BY <2>1, <2>2, <2>3, <2>4, EmptyFacts DEF RespInv, Writing
<1>2. ASSUME NEW how, Hangup(how) PROVE RespInv'
  <2>1. /\ UNCHANGED <<outp, rsp, wbuf, wr, answered, length, pksz, pad, at>> /\ peer = "open"
    BY <1>2 DEF Hangup, writer_vars, response_vars
  <2> QED
    BY <2>1, RespSame
<1>3. CASE fcgi_read_request
  <2>1. at = "read" /\ at' = "begin" /\ UNCHANGED <<outp, rsp, wbuf, wr, answered>>
    BY <1>3 DEF fcgi_read_request, conn_vars, writer_vars, response_vars, server_vars
  <2> QED
    BY <2>1, RespElsewhere DEF Writing
<1>4. CASE Ask
  <2>1. UNCHANGED <<outp, rsp, wbuf, wr, answered, length, pksz, pad, at, peer>>
    BY <1>4 DEF Ask, ef_bio_read, ef_bio_reader_skip, conn_vars, writer_vars, response_vars, server_vars
  <2> QED
    BY <2>1, RespSame
<1>5. CASE Transfer
  <2>1. UNCHANGED <<rsp, answered, length, pksz, pad, at>>
    BY <1>5 DEF Transfer, response_vars, server_vars
  <2>2. CASE ef_safe_read
    <3>1. UNCHANGED <<outp, wbuf, wr, peer>>
        BY <2>2 DEF ef_safe_read, Receive, EndOfFile, ReadFails, conn_vars, writer_vars
    <3> QED
        BY <2>1, <3>1, RespSame
  <2>3. CASE ef_safe_write
    BY <2>1, <2>3, RespWrite
  <2> QED
    BY <1>5, <2>2, <2>3 DEF Transfer
<1>6. CASE GotBegin
  <2>1. Got("begin") /\ at' \in {"returned", "undefined", "begin_body"}
    BY <1>6 DEF GotBegin, ReturnsUnset
  <2> QED
    BY <1>a, <2>1 DEF Places, Writing
<1>7. CASE GotBeginBody
  <2>1. Got("begin_body") /\ at' \in {"returned", "undefined", "params"}
    BY <1>7 DEF GotBeginBody, ReturnsUnset
  <2> QED
    BY <1>a, <2>1 DEF Places, Writing
<1>8. CASE GotParams
  <2>1. Got("params") /\ at' \in {"returned", "undefined", "params_body", "stdin"}
    BY <1>8 DEF GotParams, ExitRequest
  <2> QED
    BY <1>a, <2>1 DEF Places, Writing
<1>9. CASE GotParamsBody
  <2>1. Got("params_body") /\ at' \in {"returned", "params_skip", "params"}
    BY <1>9 DEF GotParamsBody, ExitRequest
  <2> QED
    BY <1>a, <2>1 DEF Places, Writing
<1>10. CASE GotSkipped
  <2>1. Got("params_skip") /\ at' = "params"
    BY <1>10 DEF GotSkipped
  <2> QED
    BY <1>a, <2>1 DEF Places, Writing
<1>11. CASE GotStdin
  <2>1. Got("stdin") /\ at' \in {"returned", "stdin_body"}
    BY <1>11 DEF GotStdin, ExitRequest
  <2> QED
    BY <1>a, <2>1 DEF Places, Writing
<1>12. CASE GotStdinBody
  <2>1. Got("stdin_body") /\ at' \in {"returned", "stdin"}
    BY <1>12 DEF GotStdinBody, ExitRequest
  <2> QED
    BY <1>a, <2>1 DEF Places, Writing
<1>13. CASE Answered
  <2>1. /\ at = "answered" /\ at' \in {"read", "closed"} /\ wbuf' = <<>> /\ wr = NoWrite /\ wr' = wr
        /\ answered' = TRUE /\ UNCHANGED <<outp, rsp>>
    BY <1>13 DEF Answered, conn_vars, response_vars
  <2>2. Received'
    BY <2>1, ReceivedSame DEF RespInv
  <2>3. Marks'
    BY <2>1 DEF Marks, NoWrite
  <2> QED
    BY <2>1, <2>2, <2>3 DEF RespInv, Writing
<1>14. CASE UNCHANGED vars
  <2>1. UNCHANGED <<outp, rsp, wbuf, wr, answered, length, pksz, pad, at, peer>>
    BY <1>14 DEF vars, bio_vars, conn_vars, writer_vars, response_vars, server_vars
  <2> QED
    BY <2>1, RespSame
<1>15. CASE fcgi_proc
    BY <1>3, <1>4, <1>5, <1>6, <1>7, <1>8, <1>9, <1>10, <1>11, <1>12, <1>13, <1>15, RespNew,
       RespHeader, RespContent, RespPadding, RespEnd, RespFlush DEF fcgi_proc
<1> QED
    BY <1>1, <1>2, <1>14, <1>15 DEF Next, Finished

\* At first there is no response.
LEMMA RespInvInit == Init => RespInv
<1> SUFFICES ASSUME Init PROVE RespInv
    OBVIOUS
<1>1. /\ outp = <<>> /\ wbuf = <<>> /\ wr = NoWrite /\ at = "read" /\ rsp = <<<<>>, <<>>>>
    BY DEF Init, ef_bio_new
<1>2. rsp \in [1 .. 2 -> Contents]
  <2>1. <<>> \in Contents
    BY DEF Contents
  <2> QED
    BY <1>1, <2>1
<1>3. Received
    BY <1>1, <1>2, NothingReceived
<1>4. Marks
    BY <1>1 DEF Marks, NoWrite
<1> QED
    BY <1>1, <1>2, <1>3, <1>4, EmptyFacts DEF RespInv, Writing

\* At every moment the web server has received a beginning of the response, in
\* records of legal length and padding with the headers, then the data, and the
\* record that ends the request after all of it; and all of it once the answer
\* is written on a connection that has not broken: for every length of headers
\* and data, every capacity of the buffer and of a record, and however writes
\* are cut short.
THEOREM ResponseWritten == Spec => []ResponseAsBuilt
<1>1. WriteInv /\ RespInv => ResponseAsBuilt
  <2> SUFFICES ASSUME WriteInv, RespInv PROVE ResponseAsBuilt
    OBVIOUS
  <2>1. outp \in Tokens /\ Payload \in Tokens /\ Writer
    BY PayloadFacts DEF RespInv, WriteInv
  <2>2. Proper(Records(outp), Payload)
    <3>1. PICK F, n : (Made(F, Payload, n, FALSE) \/ Made(F, Payload, n, TRUE)) /\ Begins(outp, F)
        BY DEF RespInv, Received
    <3>2. Len(outp) <= Len(F) /\ \A i \in 1 .. Len(outp) : outp[i] = F[i]
        BY <3>1 DEF Begins
    <3>3. CASE Made(F, Payload, n, FALSE)
        BY <2>1, <3>2, <3>3, MadeRead
    <3>4. CASE Made(F, Payload, n, TRUE)
        BY <2>1, <3>2, <3>4, MadeRead
    <3> QED
        BY <3>1, <3>3, <3>4
  <2>3. ASSUME at = "answered", wr = NoWrite, peer # "reset" PROVE Entire(Records(outp), Payload)
    <3>1. PICK F : Answer(F)
        BY <2>3 DEF RespInv, Writing
    <3>2. Handed = outp
      <4>1. Pending = <<>>
        BY <2>3 DEF RespInv, Pending, NoWrite
      <4> QED
        BY <2>1, <4>1, JoinFacts DEF Handed
    <3>3. Made(F, Payload, Len(Payload), TRUE) /\ Begins(outp, F) /\ Len(F) = Len(outp) + 0
        BY <2>3, <3>1, <3>2 DEF Answer, Owed
    <3>4. Len(outp) = Len(F)
        BY <2>1, <3>3, JoinFacts
    <3>5. Len(outp) <= Len(F) /\ \A i \in 1 .. Len(outp) : outp[i] = F[i]
        BY <3>3 DEF Begins
    <3> QED
        BY <2>1, <3>3, <3>4, <3>5, MadeRead
  <2> QED
    BY <2>2, <2>3 DEF ResponseAsBuilt, Proper, Entire, Payload
<1>2. Spec => [](ReadInv /\ WriteInv)
    BY ReadInvAlways, WriteInvAlways, PTL
<1>3. Spec => []RequestInv
    BY <1>2, RequestInvInit, RequestInvNext, PTL DEF Spec
<1>4. Spec => []RespInv
    BY <1>2, <1>3, RespInvInit, RespInvNext, PTL DEF Spec
<1> QED
    BY <1>1, <1>2, <1>4, PTL
=============================================================================
