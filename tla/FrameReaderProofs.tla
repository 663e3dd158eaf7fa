-------------------------- MODULE FrameReaderProofs --------------------------
(***************************************************************************)
(* For any frames, any size of the buffer and any sizes of the Reads: each *)
(* payload buffer is returned once, and the messages, pongs and close code *)
(* are those the frames mean.                                              *)
(***************************************************************************)
EXTENDS FrameReader, SumTheorems, SequenceTheorems, FiniteSetTheorems, TLAPS

-----------------------------------------------------------------------------
(* The invariants.                                                         *)

Byte == Nat \X Nat

\* The bytes of each frame, and where a frame starts.
Pieces(fs) == [f \in DOMAIN fs |-> Bytes(f, 1, HeaderLen(fs[f]) + fs[f].len)]
Start(fs, f) == Len(Joint(Pieces(fs), f - 1))

\* The bytes that readLoop has still to handle, and those after a place.
Pending == Buffered \o rest
After(seq, n) == SubSeq(seq, n + 1, Len(seq))

\* Types of the reader.
ReaderTypeOK ==
    /\ frames \in Seq(Frame) /\ rest \in Seq(Byte) /\ conn \in {"open", "broken", "closed"}
    /\ buf \in [1..BufSize -> Byte] /\ r \in Nat /\ w \in Nat /\ r <= w /\ w <= BufSize
    /\ pc \in {"header", "payload", "done"} /\ cur \in 0..Len(frames) /\ dst \in Seq(Byte)

\* Between two frames the next byte is the first of the next frame.
AtHeader == pc = "header" => Pending = After(AllBytes(frames), Start(frames, cur + 1))

\* In a payload, what was copied is its beginning and the next byte follows; what is
\* read from the connection is next, for nothing is left in the buffer then.
AtPayload ==
    pc = "payload" =>
        LET x == frames[cur] IN
        /\ cur # 0 /\ ~x.bad /\ ~Malformed(x) /\ x.len <= MaxPayload
        /\ Len(dst) <= x.len /\ dst = Bytes(cur, HeaderLen(x) + 1, HeaderLen(x) + Len(dst))
        /\ Pending = After(AllBytes(frames), Start(frames, cur) + HeaderLen(x) + Len(dst))
        /\ dst # <<>> /\ Len(dst) < x.len => r = w

\* The inductive invariant of the position in the input.
PlaceInv == ReaderTypeOK /\ AtHeader /\ AtPayload

\* The inductive invariant of the payload buffers.
PutInv == bufp.puts \in Seq(Nat) /\ bufp.kept \subseteq Nat /\ BuffersReturned

\* The frames that readLoop is done with.
Done == IF pc = "payload" THEN cur - 1 ELSE cur

Messages == [f \in DOMAIN frames |-> MessageOf(frames, f)]
Pongs == [f \in DOMAIN frames |-> PongOf(frames, f)]

\* The message in progress started at frame g.
Started(fs, g, f) == fs[g].op = 2 /\ \A h \in g + 1..f : fs[h].op # 2

\* What is out and what is joined so far is what the frames done with mean; the
\* pongs may stop once the connection is closed.
GoingOn ==
    /\ out.code = <<>> /\ \A g \in 1..Done : Codes(frames, g) = {}
    /\ out.msgs = Joint(Messages, Done)
    /\ \E p \in 0..Done : out.pongs = Joint(Pongs, p) /\ (conn = "closed" \/ p = Done)
    /\ frag.op # 0 <=> InMessage(frames, Done + 1)
    /\ frag.op # 0 => \E g \in 1..Done : Started(frames, g, Done) /\ frag.data = Span(frames, g, Done)

\* The inductive invariant of the output.
OutInv ==
    /\ want = Meaning(frames)
    /\ DOMAIN out = {"msgs", "pongs", "code"} /\ DOMAIN frag = {"op", "data"}
    /\ IF pc = "done" THEN Reassembled ELSE GoingOn

-----------------------------------------------------------------------------
(* Joining sequences.                                                      *)

\* a is b or the beginning of it.
Begins(a, b) == Len(a) <= Len(b) /\ \A i \in 1..Len(a) : a[i] = b[i]

\* That is IsPrefix.
LEMMA BeginsIsPrefix ==
    ASSUME NEW S, NEW a \in Seq(S), NEW b \in Seq(S), Begins(a, b)
    PROVE  IsPrefix(a, b)
<1>1. Len(a) \in Nat /\ Len(b) \in Nat /\ Len(a) <= Len(b) /\ \A i \in 1..Len(a) : a[i] = b[i]
  BY DEF Begins
<1>2. SubSeq(a, 1, Len(a)) = a
  OBVIOUS
<1>3. /\ SubSeq(b, 1, Len(a)) \in Seq(S) /\ Len(SubSeq(b, 1, Len(a))) = Len(a)
      /\ \A i \in 1..Len(a) : SubSeq(b, 1, Len(a))[i] = b[i]
  BY <1>1
<1>4. SubSeq(b, 1, Len(a)) = a
  BY <1>1, <1>3, SeqEqual
<1> QED
  BY <1>1, <1>2, <1>4 DEF IsPrefix

\* More sequences begin as fewer do; and empty ones add nothing.
LEMMA JointBegins ==
    ASSUME NEW S, NEW s \in Seq(Seq(S)), NEW c \in 0..Len(s)
    PROVE  /\ \A d \in c..Len(s) : Begins(Joint(s, c), Joint(s, d))
           /\ (\A i \in (c + 1)..Len(s) : s[i] = <<>>) => FlattenSeq(s) = Joint(s, c)
<1>0. /\ Len(s) \in Nat /\ c \in Nat /\ c <= Len(s)
      /\ Joint(s, Len(s)) = FlattenSeq(s)
      /\ \A d \in 0..Len(s) : Joint(s, d) \in Seq(S)
      /\ \A d \in 0..(Len(s) - 1) : Joint(s, d + 1) = Joint(s, d) \o s[d + 1]
  BY JointSteps
<1> DEFINE Empty == \A i \in (c + 1)..Len(s) : s[i] = <<>>
           N == {k \in Nat : c + k <= Len(s) =>
                   /\ Begins(Joint(s, c), Joint(s, c + k))
                   /\ Empty => Joint(s, c + k) = Joint(s, c)}
<1>1. 0 \in N
  BY <1>0 DEF Begins
<1>2. ASSUME NEW k \in Nat, k \in N PROVE k + 1 \in N
  <2> SUFFICES ASSUME c + (k + 1) <= Len(s)
               PROVE  /\ Begins(Joint(s, c), Joint(s, c + (k + 1)))
                      /\ Empty => Joint(s, c + (k + 1)) = Joint(s, c)
    OBVIOUS
  <2> DEFINE a == Joint(s, c)   b == Joint(s, c + k)   e == s[(c + k) + 1]
  <2>1. /\ c + k \in 0..(Len(s) - 1) /\ c + (k + 1) = (c + k) + 1 /\ c + k <= Len(s)
        /\ c + k \in 0..Len(s) /\ (c + k) + 1 \in (c + 1)..Len(s) /\ (c + k) + 1 \in 1..Len(s)
    BY <1>0
  <2>2. /\ a \in Seq(S) /\ b \in Seq(S) /\ e \in Seq(S) /\ Joint(s, c + (k + 1)) = b \o e
        /\ Empty => e = <<>>
    <3>1. a \in Seq(S) /\ b \in Seq(S)
      BY <1>0, <2>1
    <3>2. e \in Seq(S)
      BY <1>0, <2>1
    <3>3. Joint(s, c + (k + 1)) = b \o e
      BY <1>0, <2>1
    <3>4. Empty => e = <<>>
      BY <2>1, Zenon
    <3> QED
      BY <3>1, <3>2, <3>3, <3>4
  <2>3. Begins(a, b) /\ (Empty => b = a)
    BY <1>2, <2>1
  <2> HIDE DEF a, b, e, Empty
  <2>4. Begins(a, b \o e)
    BY <2>2, <2>3 DEF Begins
  <2>5. Empty => b \o e = a
    BY <2>2, <2>3
  <2> QED
    BY <2>2, <2>4, <2>5 DEF a
<1> HIDE DEF N, Empty
<1>3. Nat \subseteq N
  BY <1>1, <1>2, NatSetInduction
<1>4. ASSUME NEW d \in c..Len(s)
      PROVE  Begins(Joint(s, c), Joint(s, d)) /\ (Empty => Joint(s, d) = Joint(s, c))
  <2>1. d - c \in Nat /\ c + (d - c) = d /\ d <= Len(s)
    BY <1>0
  <2>2. d - c \in N
    BY <1>3, <2>1
  <2> QED
    BY <2>1, <2>2 DEF N
<1>5. Len(s) \in c..Len(s)
  BY <1>0
<1> QED
  BY <1>0, <1>4, <1>5 DEF Empty

-----------------------------------------------------------------------------
(* The bytes of the frames.                                                *)

\* The lengths of a frame.
LEMMA FrameLengths ==
    ASSUME NEW x \in Frame
    PROVE  /\ x.len \in Nat /\ HeaderLen(x) \in Nat /\ HeaderLen(x) >= 6 /\ x.op \in 0..15
           /\ x.fin \in BOOLEAN /\ x.bad \in BOOLEAN
<1>1. x.ext \in {0, 2, 8} /\ x.len \in Nat /\ x.op \in 0..15
  BY DEF Frame
<1>2. x.fin \in BOOLEAN /\ x.bad \in BOOLEAN
  BY DEF Frame
<1> QED
  BY <1>1, <1>2 DEF HeaderLen

\* The bytes of frame f from one place to another.
LEMMA BytesList ==
    ASSUME NEW f \in Nat, NEW a \in Nat, NEW n \in Nat
    PROVE  /\ Bytes(f, a + 1, a + n) \in Seq(Byte) /\ Len(Bytes(f, a + 1, a + n)) = n
           /\ \A i \in 1..n : Bytes(f, a + 1, a + n)[i] = <<f, a + i>>
<1> DEFINE B == Bytes(f, a + 1, a + n)
<1>1. (a + n) - (a + 1) + 1 = n
  OBVIOUS
<1>2. B = [i \in 1..n |-> <<f, ((a + 1) + i) - 1>>]
  BY <1>1 DEF Bytes
<1>3. ASSUME NEW i \in 1..n PROVE B[i] = <<f, a + i>> /\ B[i] \in Byte
  <2>1. ((a + 1) + i) - 1 = a + i /\ a + i \in Nat
    OBVIOUS
  <2> QED
    BY <1>2, <2>1 DEF Byte
<1>4. B \in [1..n -> Byte]
  BY <1>2, <1>3
<1> HIDE DEF B
<1>5. B \in Seq(Byte) /\ Len(B) = n
  <2>1. DOMAIN B = 1..n
    BY <1>4
  <2>2. B \in Seq(Byte)
    BY <1>4, SeqDef
  <2> QED
    BY <2>1, <2>2, LenProperties
<1> QED
  BY <1>3, <1>5 DEF B

\* Where each frame's bytes are.
LEMMA Layout ==
    ASSUME NEW fs \in Seq(Frame)
    PROVE  /\ AllBytes(fs) \in Seq(Byte)
           /\ Start(fs, 1) = 0 /\ Start(fs, Len(fs) + 1) = Len(AllBytes(fs))
           /\ \A f \in 1..Len(fs) :
                LET T == HeaderLen(fs[f]) + fs[f].len IN
                /\ Start(fs, f) \in Nat /\ Start(fs, f + 1) = Start(fs, f) + T
                /\ Start(fs, f + 1) <= Len(AllBytes(fs))
                /\ \A k \in 1..T : AllBytes(fs)[Start(fs, f) + k] = <<f, k>>
<1> DEFINE P == Pieces(fs)   N == Len(fs)   T(f) == HeaderLen(fs[f]) + fs[f].len
<1>0. N \in Nat /\ \A f \in 1..N : fs[f] \in Frame /\ T(f) \in Nat
  BY FrameLengths
<1>1. ASSUME NEW f \in 1..N
      PROVE  /\ Bytes(f, 1, T(f)) \in Seq(Byte) /\ Len(Bytes(f, 1, T(f))) = T(f)
             /\ \A k \in 1..T(f) : Bytes(f, 1, T(f))[k] = <<f, k>>
  <2> DEFINE n == T(f)
  <2>1. n \in Nat /\ f \in Nat /\ 0 + 1 = 1 /\ 0 + n = n
    BY <1>0
  <2> HIDE DEF n
  <2>2. /\ Bytes(f, 0 + 1, 0 + n) \in Seq(Byte) /\ Len(Bytes(f, 0 + 1, 0 + n)) = n
        /\ \A k \in 1..n : Bytes(f, 0 + 1, 0 + n)[k] = <<f, 0 + k>>
    BY <2>1, BytesList
  <2>3. \A k \in 1..n : 0 + k = k
    BY <2>1
  <2> QED
    BY <2>1, <2>2, <2>3 DEF n
<1>2. P = [f \in 1..N |-> Bytes(f, 1, T(f))]
  BY DEF Pieces
<1>3. P \in Seq(Seq(Byte)) /\ Len(P) = N /\ \A f \in 1..N : P[f] = Bytes(f, 1, T(f))
  <2>1. P \in [1..N -> Seq(Byte)]
    BY <1>1, <1>2
  <2>2. P \in Seq(Seq(Byte)) /\ DOMAIN P = 1..N
    BY <1>0, <2>1, SeqDef, SMTT(30)
  <2> QED
    BY <1>0, <1>2, <2>2, LenProperties
<1>4. AllBytes(fs) = FlattenSeq(P)
  BY DEF AllBytes, Pieces
<1>5. \A f : Start(fs, f) = Len(Joint(P, f - 1))
  BY DEF Start
<1> HIDE DEF P, N, T
<1>6. /\ Joint(P, 0) = <<>> /\ Joint(P, N) = FlattenSeq(P)
      /\ \A c \in 0..N : Joint(P, c) \in Seq(Byte)
      /\ \A c \in 0..(N - 1) : Joint(P, c + 1) = Joint(P, c) \o P[c + 1]
      /\ \A c \in 0..N : \A d \in c..N : Begins(Joint(P, c), Joint(P, d))
  BY <1>3, JointSteps, JointBegins
<1>7. AllBytes(fs) \in Seq(Byte)
  BY <1>0, <1>4, <1>6
<1>8. Start(fs, 1) = 0 /\ Start(fs, N + 1) = Len(AllBytes(fs))
  <2>1. 1 - 1 = 0 /\ (N + 1) - 1 = N
    BY <1>0
  <2>2. Len(Joint(P, 0)) = 0
    BY <1>6
  <2> QED
    BY <1>4, <1>5, <1>6, <2>1, <2>2
<1>9. ASSUME NEW f \in 1..N
      PROVE  /\ Start(fs, f) \in Nat /\ Start(fs, f + 1) = Start(fs, f) + T(f)
             /\ Start(fs, f + 1) <= Len(AllBytes(fs))
             /\ \A k \in 1..T(f) : AllBytes(fs)[Start(fs, f) + k] = <<f, k>>
  <2> DEFINE a == Joint(P, f - 1)   b == Joint(P, f)   e == P[f]
  <2>1. /\ f - 1 \in 0..(N - 1) /\ f - 1 \in 0..N /\ f \in 0..N /\ (f - 1) + 1 = f
        /\ (f + 1) - 1 = f /\ N \in f..N
    BY <1>0
  <2>2. /\ a \in Seq(Byte) /\ b \in Seq(Byte) /\ e \in Seq(Byte) /\ b = a \o e
        /\ Len(e) = T(f) /\ \A k \in 1..T(f) : e[k] = <<f, k>>
    BY <1>1, <1>3, <1>6, <2>1
  <2>3. Begins(b, AllBytes(fs))
    BY <1>4, <1>6, <2>1
  <2>4. Start(fs, f) = Len(a) /\ Start(fs, f + 1) = Len(b)
    BY <1>5, <2>1
  <2> HIDE DEF a, b, e
  <2>5. Len(a) \in Nat /\ Len(b) = Len(a) + T(f) /\ T(f) \in Nat
    <3>0. a \in Seq(Byte) /\ e \in Seq(Byte)
      BY <2>2
    <3>1. Len(a) \in Nat /\ Len(a \o e) = Len(a) + Len(e)
      BY <3>0
    <3>2. T(f) \in Nat
      BY <1>0
    <3> QED
      BY <2>2, <3>1, <3>2, Zenon
  <2>6. ASSUME NEW k \in 1..T(f) PROVE AllBytes(fs)[Len(a) + k] = <<f, k>>
    <3>1. Len(a) + k \in 1..Len(b)
      BY <2>5
    <3>2. b[Len(a) + k] = e[k]
      BY <2>2
    <3> QED
      BY <2>2, <2>3, <3>1, <3>2 DEF Begins
  <2> QED
    BY <2>3, <2>4, <2>5, <2>6 DEF Begins
<1> QED
  BY <1>7, <1>8, <1>9 DEF N, T

\* What is left after some bytes, and after some more.
LEMMA AfterMore ==
    ASSUME NEW S, NEW q \in Seq(S), NEW o \in Nat, NEW n \in Nat, o + n <= Len(q)
    PROVE  /\ After(q, o) \in Seq(S) /\ Len(After(q, o)) = Len(q) - o
           /\ \A i \in 1..(Len(q) - o) : After(q, o)[i] = q[o + i]
           /\ After(After(q, o), n) = After(q, o + n)
<1>0. Len(q) \in Nat /\ o <= Len(q)
  OBVIOUS
<1>1. ASSUME NEW s \in Seq(S), NEW k \in Nat, k <= Len(s)
      PROVE  /\ After(s, k) \in Seq(S) /\ Len(After(s, k)) = Len(s) - k
             /\ \A i \in 1..(Len(s) - k) : After(s, k)[i] = s[k + i]
  <2> DEFINE lo == k + 1
             hi == Len(s)
             m == Len(s) - k
             u == SubSeq(s, lo, hi)
  <2>1. /\ lo \in Int /\ hi \in Int /\ \A i \in lo..hi : s[i] \in S
        /\ m \in Nat /\ (hi - lo) + 1 = m /\ (IF lo <= hi THEN m ELSE 0) = m
        /\ \A i \in 1..m : (lo + i) - 1 = k + i
    BY <1>1
  <2>2. After(s, k) = u
    BY DEF After
  <2> HIDE DEF lo, hi, m
  <2>3. /\ u \in Seq(S) /\ Len(u) = IF lo <= hi THEN (hi - lo) + 1 ELSE 0
        /\ \A i \in 1..((hi - lo) + 1) : u[i] = s[(lo + i) - 1]
    BY <2>1, SubSeqProperties
  <2> HIDE DEF u
  <2>4. Len(u) = m /\ \A i \in 1..m : u[i] = s[k + i]
    BY <2>1, <2>3
  <2> QED
    BY <2>2, <2>3, <2>4 DEF m
<1>2. /\ After(q, o) \in Seq(S) /\ Len(After(q, o)) = Len(q) - o
      /\ \A i \in 1..(Len(q) - o) : After(q, o)[i] = q[o + i]
  BY <1>0, <1>1
<1> DEFINE a == After(q, o)   b == After(a, n)   c == After(q, o + n)
<1>3. a \in Seq(S) /\ n <= Len(a) /\ o + n \in Nat
  BY <1>0, <1>2
<1> HIDE DEF a
<1>4. /\ b \in Seq(S) /\ Len(b) = Len(a) - n /\ \A i \in 1..(Len(a) - n) : b[i] = a[n + i]
      /\ c \in Seq(S) /\ Len(c) = Len(q) - (o + n)
      /\ \A i \in 1..(Len(q) - (o + n)) : c[i] = q[(o + n) + i]
  BY <1>0, <1>1, <1>3
<1> HIDE DEF b, c
<1>5. Len(b) = Len(c)
  BY <1>0, <1>2, <1>4 DEF a
<1>6. ASSUME NEW i \in 1..Len(b) PROVE b[i] = c[i]
  <2>1. /\ i \in 1..(Len(a) - n) /\ n + i \in 1..(Len(q) - o) /\ i \in 1..(Len(q) - (o + n))
        /\ o + (n + i) = (o + n) + i
    BY <1>0, <1>2, <1>4, <1>5 DEF a
  <2> QED
    BY <1>2, <1>4, <2>1 DEF a
<1>7. b = c
  BY <1>4, <1>5, <1>6, SeqEqual
<1> QED
  BY <1>2, <1>7 DEF a, b, c

-----------------------------------------------------------------------------
(* The buffer.                                                             *)

\* What is in a buffer b from place x to y, and the bytes q that follow.
From(b, x, y, q) == SubSeq(b, x + 1, y) \o q

\* a is those bytes, one by one.
Spells(a, b, x, y, q) ==
    /\ a \in Seq(Byte) /\ Len(a) = (y - x) + Len(q)
    /\ \A i \in 1..(y - x) : a[i] = b[x + i]
    /\ \A i \in 1..Len(q) : a[(y - x) + i] = q[i]

\* The bytes one by one.
LEMMA FromParts ==
    ASSUME NEW b \in [1..BufSize -> Byte], NEW x \in Nat, NEW y \in Nat, x <= y, y <= BufSize,
           NEW q \in Seq(Byte)
    PROVE  /\ SubSeq(b, x + 1, y) \in Seq(Byte) /\ Len(SubSeq(b, x + 1, y)) = y - x
           /\ \A i \in 1..(y - x) : SubSeq(b, x + 1, y)[i] = b[x + i]
           /\ Spells(From(b, x, y, q), b, x, y, q)
<1>0. BufSize \in Nat
  BY SizesType
<1>1. b \in Seq(Byte) /\ Len(b) = BufSize
  <2>1. DOMAIN b = 1..BufSize
    OBVIOUS
  <2>2. b \in Seq(Byte)
    BY <1>0, SeqDef
  <2> QED
    BY <1>0, <2>1, <2>2, LenProperties
<1> DEFINE s == SubSeq(b, x + 1, y)
<1>2. /\ s \in Seq(Byte) /\ Len(s) = y - x
      /\ \A i \in 1..(y - x) : s[i] = b[x + i]
  <2>1. /\ x + 1 \in Nat /\ (y - (x + 1)) + 1 = y - x
        /\ \A i \in 1..(y - x) : ((x + 1) + i) - 1 = x + i
    OBVIOUS
  <2> QED
    BY <1>0, <1>1, <2>1
<1>3. From(b, x, y, q) = s \o q
  BY DEF From
<1> HIDE DEF s
<1>4. /\ s \o q \in Seq(Byte) /\ Len(s \o q) = Len(s) + Len(q)
      /\ \A i \in 1..Len(s) : (s \o q)[i] = s[i]
      /\ \A i \in 1..Len(q) : (s \o q)[Len(s) + i] = q[i]
  <2>1. s \in Seq(Byte)
    BY <1>2
  <2> QED
    BY <2>1
<1> QED
  BY <1>2, <1>3, <1>4 DEF s, Spells

\* The first n bytes, and those after them, of a buffer and what follows it.
LEMMA FromConsumed ==
    ASSUME NEW b \in [1..BufSize -> Byte], NEW x \in Nat, NEW y \in Nat, x <= y, y <= BufSize,
           NEW q \in Seq(Byte), NEW n \in Nat, n <= y - x
    PROVE  After(From(b, x, y, q), n) = From(b, x + n, y, q)
<1> SUFFICES ASSUME NEW z \in Nat, z = x + n
             PROVE  After(From(b, x, y, q), n) = From(b, z, y, q)
  OBVIOUS
<1> DEFINE a == From(b, x, y, q)   c == From(b, z, y, q)   e == After(a, n)
           k == Len(q)   d == y - x   m == y - z
<1>0. z \in Nat /\ z <= y /\ m = d - n /\ k \in Nat /\ d \in Nat /\ m \in Nat /\ m + n = d
  OBVIOUS
<1>z. \A i \in Nat : z + i = x + (n + i)
  OBVIOUS
<1>1. /\ a \in Seq(Byte) /\ Len(a) = d + k
      /\ \A i \in 1..d : a[i] = b[x + i]
      /\ \A i \in 1..k : a[d + i] = q[i]
  <2>1. Spells(a, b, x, y, q)
    BY FromParts
  <2> QED
    BY <2>1 DEF Spells
<1>2. /\ c \in Seq(Byte) /\ Len(c) = m + k
      /\ \A i \in 1..m : c[i] = b[z + i]
      /\ \A i \in 1..k : c[m + i] = q[i]
  <2>1. z \in Nat /\ z <= y
    BY <1>0
  <2>2. Spells(c, b, z, y, q)
    BY <2>1, FromParts
  <2> QED
    BY <2>2 DEF Spells
<1> HIDE DEF a, d, m, k
<1>3. e \in Seq(Byte) /\ Len(e) = Len(a) - n /\ \A i \in 1..(Len(a) - n) : e[i] = a[n + i]
  <2>1. a \in Seq(Byte) /\ n + 0 <= Len(a) /\ 0 \in Nat
    BY <1>0, <1>1
  <2> QED
    BY <2>1, AfterMore
<1> HIDE DEF c, e
<1>4. Len(e) = Len(c) /\ Len(e) = m + k /\ Len(a) - n = m + k
  BY <1>0, <1>1, <1>2, <1>3
<1>5. ASSUME NEW i \in 1..Len(e) PROVE e[i] = c[i]
  <2>0. i \in Nat /\ i >= 1 /\ i <= m + k
    BY <1>0, <1>4
  <2>e. e[i] = a[n + i]
    BY <1>3, <1>4
  <2>1. CASE i <= m
    <3>1. i \in 1..m /\ n + i \in 1..d
      BY <1>0, <2>0, <2>1
    <3>2. a[n + i] = b[x + (n + i)]
      BY <1>1, <3>1, Zenon
    <3>3. c[i] = b[z + i]
      BY <1>2, <3>1, Zenon
    <3>4. x + (n + i) = z + i
      BY <1>z, <2>0
    <3> QED
      BY <2>e, <3>2, <3>3, <3>4, Zenon
  <2>2. CASE i > m
    <3> DEFINE j == i - m
    <3>1. j \in 1..k /\ i = m + j /\ n + i = d + j
      BY <1>0, <2>0, <2>2
    <3> HIDE DEF j
    <3> QED
      BY <1>1, <1>2, <2>e, <3>1
  <2> QED
    BY <1>0, <2>0, <2>1, <2>2
<1>6. e = c
  BY <1>2, <1>3, <1>4, <1>5, SeqEqual
<1> QED
  BY <1>6 DEF a, c, e

\* An empty buffer adds nothing.
LEMMA FromEmpty ==
    ASSUME NEW b \in [1..BufSize -> Byte], NEW y \in Nat, y <= BufSize, NEW q \in Seq(Byte)
    PROVE  From(b, y, y, q) = q
<1> DEFINE c == From(b, y, y, q)
<1>1. Spells(c, b, y, y, q)
  BY FromParts
<1> HIDE DEF c
<1>2. y - y = 0 /\ \A i \in 1..Len(q) : 0 + i = i
  OBVIOUS
<1>3. c \in Seq(Byte) /\ Len(c) = Len(q) /\ \A i \in 1..Len(q) : c[i] = q[i]
  BY <1>1, <1>2 DEF Spells
<1> QED
  BY <1>3, SeqEqual DEF c

\* The beginning of what is to come that is in the buffer.
LEMMA FromBegins ==
    ASSUME NEW b \in [1..BufSize -> Byte], NEW x \in Nat, NEW y \in Nat, x <= y, y <= BufSize,
           NEW q \in Seq(Byte), NEW n \in Nat, n <= y - x
    PROVE  /\ SubSeq(b, x + 1, x + n) \in Seq(Byte) /\ Len(SubSeq(b, x + 1, x + n)) = n
           /\ Begins(SubSeq(b, x + 1, x + n), From(b, x, y, q))
<1> SUFFICES ASSUME NEW z \in Nat, z = x + n
             PROVE  /\ SubSeq(b, x + 1, z) \in Seq(Byte) /\ Len(SubSeq(b, x + 1, z)) = n
                    /\ Begins(SubSeq(b, x + 1, z), From(b, x, y, q))
  OBVIOUS
<1> DEFINE a == From(b, x, y, q)   e == SubSeq(b, x + 1, z)
<1>0. x <= z /\ z <= BufSize /\ z - x = n /\ BufSize \in Nat
  BY SizesType
<1>1. e \in Seq(Byte) /\ Len(e) = z - x /\ \A i \in 1..(z - x) : e[i] = b[x + i]
  BY <1>0, FromParts
<1>2. Spells(a, b, x, y, q)
  BY FromParts
<1> HIDE DEF a, e
<1>3. n <= (y - x) + Len(q) /\ \A i \in 1..n : i \in 1..(y - x)
  OBVIOUS
<1> QED
  BY <1>0, <1>1, <1>2, <1>3 DEF Begins, Spells, a, e

\* The buffer b with some bytes at the front.
Filled(b, s) == [i \in 1..BufSize |-> IF i <= Len(s) THEN s[i] ELSE b[i]]

\* What is to come is the same after n bytes of it were read into the buffer.
SameAfterFill(b, x, y, q, n) ==
    LET c == Filled(b, SubSeq(b, x + 1, y) \o SubSeq(q, 1, n)) IN
    /\ c \in [1..BufSize -> Byte]
    /\ From(c, 0, (y - x) + n, SubSeq(q, n + 1, Len(q))) = From(b, x, y, q)

\* fill moves the bytes and adds some, and what is to come is the same.
LEMMA FromFilled ==
    ASSUME NEW b \in [1..BufSize -> Byte], NEW x \in Nat, NEW y \in Nat, x <= y, y <= BufSize,
           NEW q \in Seq(Byte), NEW n \in Nat, n <= Len(q), (y - x) + n <= BufSize
    PROVE  SameAfterFill(b, x, y, q, n)
<1> SUFFICES ASSUME NEW c, c = Filled(b, SubSeq(b, x + 1, y) \o SubSeq(q, 1, n))
             PROVE  /\ c \in [1..BufSize -> Byte]
                    /\ From(c, 0, (y - x) + n, SubSeq(q, n + 1, Len(q))) = From(b, x, y, q)
  BY Zenon DEF SameAfterFill
<1> DEFINE q1 == SubSeq(q, 1, n)   q2 == SubSeq(q, n + 1, Len(q))   a == From(b, x, y, q)
           s == From(b, x, y, q1)   d == y - x   k == Len(q)
<1>0. d \in Nat /\ k \in Nat /\ n <= k /\ BufSize \in Nat
  BY SizesType
<1>1. q1 \in Seq(Byte) /\ Len(q1) = n /\ \A i \in 1..n : q1[i] = q[i]
  OBVIOUS
<1>2. q2 \in Seq(Byte) /\ Len(q2) = k - n /\ \A i \in 1..(k - n) : q2[i] = q[n + i]
  <2>1. q2 = After(q, n)
    BY DEF After
  <2>2. n + 0 <= Len(q) /\ 0 \in Nat
    OBVIOUS
  <2> QED
    BY <2>1, <2>2, AfterMore
<1>3. Spells(a, b, x, y, q)
  BY FromParts
<1> HIDE DEF q1
<1>4. Spells(s, b, x, y, q1)
  BY <1>1, FromParts
<1>5. c = [i \in 1..BufSize |-> IF i <= Len(s) THEN s[i] ELSE b[i]]
  BY DEF From, Filled, q1
<1> HIDE DEF q2, a, s
<1>6. /\ a \in Seq(Byte) /\ Len(a) = d + k
      /\ \A i \in 1..d : a[i] = b[x + i]
      /\ \A i \in 1..k : a[d + i] = q[i]
  BY <1>3 DEF Spells
<1>7. /\ s \in Seq(Byte) /\ Len(s) = d + n
      /\ \A i \in 1..d : s[i] = b[x + i]
      /\ \A i \in 1..n : s[d + i] = q1[i]
  BY <1>1, <1>4 DEF Spells
<1>8. c \in [1..BufSize -> Byte]
  <2>1. ASSUME NEW i \in 1..BufSize, i <= Len(s) PROVE s[i] \in Byte
    BY <1>7, <2>1
  <2> QED
    BY <1>5, <2>1
<1> SUFFICES ASSUME NEW m \in Nat, m = d + n PROVE From(c, 0, m, q2) = a
  BY <1>0, <1>8 DEF a, d, q2
<1> DEFINE l == From(c, 0, m, q2)
<1>9. m <= BufSize /\ 0 <= m /\ 0 \in Nat /\ m - 0 = m /\ \A i \in 1..m : 0 + i = i
  OBVIOUS
<1> HIDE DEF d, k
<1>10. Spells(l, c, 0, m, q2)
  BY <1>2, <1>8, <1>9, FromParts
<1> HIDE DEF l
<1>11. /\ l \in Seq(Byte) /\ Len(l) = m + (k - n) /\ \A i \in 1..m : l[i] = c[i]
       /\ \A i \in 1..(k - n) : l[m + i] = q2[i]
  BY <1>2, <1>9, <1>10 DEF Spells
<1>12. Len(l) = d + k /\ Len(l) = Len(a)
  BY <1>0, <1>6, <1>11
<1>13. ASSUME NEW i \in 1..Len(l) PROVE l[i] = a[i]
  <2>0. i \in Nat /\ i >= 1 /\ i <= d + k
    BY <1>0, <1>12
  <2>1. CASE i <= m
    <3>1. i \in 1..m /\ i \in 1..BufSize /\ i <= Len(s)
      BY <1>0, <1>7, <1>9, <2>0, <2>1
    <3>2. l[i] = s[i]
      BY <1>5, <1>11, <3>1
    <3>3. CASE i <= d
      BY <1>6, <1>7, <2>0, <3>2, <3>3
    <3>4. CASE i > d
      <4> DEFINE j == i - d
      <4>1. j \in 1..n /\ j \in 1..k /\ i = d + j
        BY <1>0, <2>0, <2>1, <3>4
      <4> HIDE DEF j
      <4> QED
        BY <1>1, <1>6, <1>7, <3>2, <4>1
    <3> QED
      BY <1>0, <2>0, <3>3, <3>4
  <2>2. CASE i > m
    <3> DEFINE j == i - m
    <3>1. j \in 1..(k - n) /\ i = m + j /\ n + j \in 1..k /\ i = d + (n + j)
      BY <1>0, <2>0, <2>2
    <3> HIDE DEF j
    <3>2. l[i] = q[n + j]
      BY <1>2, <1>11, <3>1
    <3> QED
      BY <1>6, <3>1, <3>2
  <2> QED
    BY <2>0, <2>1, <2>2
<1>14. l = a
  BY <1>6, <1>11, <1>12, <1>13, SeqEqual
<1> QED
  BY <1>14 DEF l

\* consume moves past n bytes, and starts at the front again when none is left.
LEMMA FromAdvanced ==
    ASSUME NEW b \in [1..BufSize -> Byte], NEW x \in Nat, NEW y \in Nat, x <= y, y <= BufSize,
           NEW q \in Seq(Byte), NEW n \in Nat, n <= y - x,
           NEW x2, x2 = IF x + n = y THEN 0 ELSE x + n,
           NEW y2, y2 = IF x + n = y THEN 0 ELSE y
    PROVE  /\ x2 \in Nat /\ y2 \in Nat /\ x2 <= y2 /\ y2 <= BufSize
           /\ From(b, x2, y2, q) = After(From(b, x, y, q), n)
<1>0. BufSize \in Nat
  BY SizesType
<1>1. After(From(b, x, y, q), n) = From(b, x + n, y, q)
  BY FromConsumed
<1>2. CASE x + n = y
  <2>1. x2 = 0 /\ y2 = 0 /\ 0 <= BufSize /\ 0 \in Nat
    BY <1>0, <1>2
  <2>2. From(b, 0, 0, q) = q /\ From(b, y, y, q) = q
    BY <2>1, FromEmpty
  <2> QED
    BY <1>1, <1>2, <2>1, <2>2
<1>3. CASE x + n # y
  BY <1>1, <1>3
<1> QED
  BY <1>2, <1>3

-----------------------------------------------------------------------------
(* The position in the input.                                              *)

\* Between two frames, a byte that is there is the first of the next frame.
LEMMA HeaderPlace ==
    ASSUME NEW fs \in Seq(Frame), NEW c \in 0..Len(fs), NEW p,
           p = After(AllBytes(fs), Start(fs, c + 1)), Len(p) >= 1
    PROVE  /\ c + 1 \in 1..Len(fs) /\ p[1] = <<c + 1, 1>>
           /\ After(p, HeaderLen(fs[c + 1])) =
                After(AllBytes(fs), Start(fs, c + 1) + HeaderLen(fs[c + 1]))
<1> DEFINE A == AllBytes(fs)   f == c + 1   o == Start(fs, f)
<1>0. A \in Seq(Byte) /\ Len(A) \in Nat
  BY Layout
<1>1. f \in 1..Len(fs)
  <2> SUFFICES ASSUME c = Len(fs) PROVE FALSE
    OBVIOUS
  <2>1. o = Len(A)
    BY Layout
  <2> HIDE DEF A, o
  <2>2. Len(A) + 0 <= Len(A) /\ 0 \in Nat /\ Len(A) - Len(A) = 0
    BY <1>0
  <2>3. Len(After(A, Len(A))) = 0
    BY <1>0, <2>2, AfterMore
  <2> QED
    BY <2>1, <2>3 DEF A, o
<1>2. fs[f] \in Frame
  BY <1>1
<1> DEFINE H == HeaderLen(fs[f])   L == fs[f].len
<1>3. H \in Nat /\ H >= 6 /\ L \in Nat
  BY <1>2, FrameLengths
<1>4. /\ o \in Nat /\ Start(fs, f + 1) = o + (H + L) /\ Start(fs, f + 1) <= Len(A)
      /\ \A k \in 1..(H + L) : A[o + k] = <<f, k>>
  BY <1>1, Layout
<1>5. p = After(A, o)
  OBVIOUS
<1> HIDE DEF A, f, o, H, L
<1>6. o + H <= Len(A) /\ 1 \in 1..(H + L) /\ 1 \in 1..(Len(A) - o)
  BY <1>0, <1>3, <1>4
<1>7. /\ \A i \in 1..(Len(A) - o) : After(A, o)[i] = A[o + i]
      /\ After(After(A, o), H) = After(A, o + H)
  BY <1>0, <1>3, <1>4, <1>6, AfterMore, ZenonT(40)
<1>8. p[1] = <<f, 1>>
  BY <1>4, <1>5, <1>6, <1>7
<1> QED
  BY <1>1, <1>5, <1>7, <1>8 DEF A, f, o, H

\* d is the first m bytes of the payload of frame f, and p the bytes that follow.
InPayload(fs, f, m, d, p) ==
    /\ d = Bytes(f, HeaderLen(fs[f]) + 1, HeaderLen(fs[f]) + m)
    /\ p = After(AllBytes(fs), Start(fs, f) + HeaderLen(fs[f]) + m)

\* In a payload, the next n bytes are the next of the payload.
LEMMA PayloadPlace ==
    ASSUME NEW fs \in Seq(Frame), NEW f \in 1..Len(fs), NEW m \in Nat, NEW n \in Nat,
           m + n <= fs[f].len, NEW d, NEW p, InPayload(fs, f, m, d, p),
           NEW e \in Seq(Byte), Len(e) = n, Begins(e, p)
    PROVE  /\ d \o e \in Seq(Byte) /\ Len(d \o e) = m + n
           /\ InPayload(fs, f, m + n, d \o e, After(p, n))
<1> DEFINE A == AllBytes(fs)   o == Start(fs, f)   H == HeaderLen(fs[f])   L == fs[f].len
           u == o + H + m
<1>0. A \in Seq(Byte) /\ Len(A) \in Nat /\ fs[f] \in Frame
  BY Layout
<1>1. H \in Nat /\ L \in Nat /\ m + n <= L
  BY <1>0, FrameLengths
<1>2. /\ o \in Nat /\ Start(fs, f + 1) = o + (H + L) /\ Start(fs, f + 1) <= Len(A)
      /\ \A k \in 1..(H + L) : A[o + k] = <<f, k>>
  BY Layout
<1>3. p = After(A, u) /\ d = Bytes(f, H + 1, H + m) /\ f \in Nat
  BY DEF InPayload
<1> HIDE DEF A, o, H, L
<1>4. u \in Nat /\ u + n <= Len(A) /\ u + n = o + H + (m + n)
  BY <1>0, <1>1, <1>2
<1>5. \A i \in 1..n : H + m + i \in 1..(H + L) /\ u + i = o + (H + m + i) /\ i \in 1..(Len(A) - u)
  BY <1>0, <1>1, <1>2
<1> HIDE DEF u
<1>6. /\ \A i \in 1..(Len(A) - u) : After(A, u)[i] = A[u + i]
      /\ After(After(A, u), n) = After(A, u + n)
  BY <1>0, <1>4, AfterMore, ZenonT(40)
<1>7. ASSUME NEW i \in 1..n PROVE e[i] = <<f, H + m + i>>
  <2>1. e[i] = p[i]
    BY DEF Begins
  <2> QED
    BY <1>2, <1>3, <1>5, <1>6, <2>1
<1>b. ASSUME NEW t \in Nat
      PROVE  /\ Bytes(f, H + 1, H + t) \in Seq(Byte) /\ Len(Bytes(f, H + 1, H + t)) = t
             /\ \A i \in 1..t : Bytes(f, H + 1, H + t)[i] = <<f, H + i>>
  <2>1. f \in Nat /\ H \in Nat
    BY <1>1
  <2> QED
    BY <2>1, BytesList, ZenonT(40)
<1>8. d \in Seq(Byte) /\ Len(d) = m /\ \A i \in 1..m : d[i] = <<f, H + i>>
  BY <1>3, <1>b, Zenon
<1> SUFFICES ASSUME NEW t \in Nat, t = m + n
             PROVE  /\ d \o e \in Seq(Byte) /\ Len(d \o e) = t
                    /\ d \o e = Bytes(f, H + 1, H + t)
  BY <1>3, <1>4, <1>6 DEF A, o, H, InPayload
<1> DEFINE g == Bytes(f, H + 1, H + t)   h == d \o e
<1>9. g \in Seq(Byte) /\ Len(g) = t /\ \A i \in 1..t : g[i] = <<f, H + i>>
  BY <1>b, Zenon
<1>10. /\ h \in Seq(Byte) /\ Len(h) = t
       /\ \A i \in 1..m : h[i] = d[i]
       /\ \A i \in 1..n : h[m + i] = e[i]
  <2>1. d \in Seq(Byte) /\ e \in Seq(Byte) /\ Len(d) = m /\ Len(e) = n
    BY <1>8
  <2>2. /\ h \in Seq(Byte) /\ Len(h) = m + n
        /\ \A i \in 1..(m + n) : h[i] = IF i <= m THEN d[i] ELSE e[i - m]
    <3>1. /\ h \in Seq(Byte) /\ Len(h) = Len(d) + Len(e)
          /\ \A i \in 1..(Len(d) + Len(e)) : h[i] = IF i <= Len(d) THEN d[i] ELSE e[i - Len(d)]
      BY <2>1, ConcatProperties, ZenonT(40)
    <3> HIDE DEF h
    <3> QED
      BY <2>1, <3>1
  <2> HIDE DEF h
  <2>3. ASSUME NEW i \in 1..m PROVE h[i] = d[i]
    BY <2>2
  <2>4. ASSUME NEW i \in 1..n PROVE h[m + i] = e[i]
    <3>1. m + i \in 1..(m + n) /\ ~(m + i <= m) /\ (m + i) - m = i
      OBVIOUS
    <3> QED
      BY <2>2, <3>1
  <2> QED
    BY <2>2, <2>3, <2>4
<1> HIDE DEF g, h
<1>11. ASSUME NEW i \in 1..Len(h) PROVE h[i] = g[i]
  <2>0. i \in Nat /\ i >= 1 /\ i <= t
    BY <1>10
  <2>1. CASE i <= m
    <3>1. i \in 1..m /\ i \in 1..t
      BY <2>0, <2>1
    <3> QED
      BY <1>8, <1>9, <1>10, <3>1
  <2>2. CASE i > m
    <3> DEFINE j == i - m
    <3>1. j \in 1..n /\ i = m + j /\ i \in 1..t
      BY <2>0, <2>2
    <3>2. H + m + j = H + i
      BY <1>1, <2>0
    <3> HIDE DEF j
    <3> QED
      BY <1>7, <1>9, <1>10, <3>1, <3>2
  <2> QED
    BY <2>0, <2>1, <2>2
<1>12. h = g
  BY <1>9, <1>10, <1>11, SeqEqual
<1> QED
  BY <1>10, <1>12 DEF g, h

\* What readLoop has still to handle, as bytes of the buffer and of the connection.
LEMMA PendingIsFrom == Pending = From(buf, r, w, rest)
BY DEF Pending, Buffered, From

\* The beginning: nothing was read.
LEMMA PlaceInit ==
    ASSUME Init
    PROVE  PlaceInv
<1> DEFINE A == AllBytes(frames)
<1>0. frames \in Seq(Frame) /\ BufSize \in Nat
  BY InputsType, SizesType DEF Init
<1>1. A \in Seq(Byte) /\ Start(frames, 1) = 0
  BY <1>0, Layout
<1>2. /\ rest = A /\ conn = "open" /\ buf = [i \in 1..BufSize |-> NoByte]
      /\ r = 0 /\ w = 0 /\ pc = "header" /\ cur = 0 /\ dst = <<>>
  BY DEF Init
<1> HIDE DEF A
<1>3. buf \in [1..BufSize -> Byte]
  BY <1>2 DEF NoByte, Byte
<1>4. dst \in Seq(Byte)
  BY <1>2, EmptySeq, Zenon
<1>5. cur \in 0..Len(frames) /\ 0 <= BufSize /\ cur + 1 = 1
  BY <1>0, <1>2
<1>6. ReaderTypeOK
  BY <1>0, <1>1, <1>2, <1>3, <1>4, <1>5 DEF ReaderTypeOK
<1>7. Pending = rest
  <2>1. 0 \in Nat
    OBVIOUS
  <2> QED
    BY <1>1, <1>2, <1>3, <1>5, <2>1, FromEmpty, PendingIsFrom
<1>8. After(A, 0) = A
  <2>1. 0 + 1 = 1
    OBVIOUS
  <2> QED
    BY <1>1, <2>1 DEF After
<1>9. AtHeader
  BY <1>1, <1>2, <1>5, <1>7, <1>8 DEF AtHeader, A
<1>10. AtPayload
  BY <1>2 DEF AtPayload
<1> QED
  BY <1>6, <1>9, <1>10 DEF PlaceInv

\* The frame whose header readLoop looks at is the next one.
LEMMA NextIsNext ==
    ASSUME PlaceInv, pc = "header", w - r >= 1
    PROVE  /\ NextFrame = cur + 1 /\ cur + 1 \in 1..Len(frames)
           /\ After(Pending, HeaderLen(frames[cur + 1])) =
                After(AllBytes(frames), Start(frames, cur + 1) + HeaderLen(frames[cur + 1]))
<1>0. ReaderTypeOK /\ Pending = After(AllBytes(frames), Start(frames, cur + 1))
  BY DEF PlaceInv, AtHeader
<1>t. /\ frames \in Seq(Frame) /\ rest \in Seq(Byte) /\ buf \in [1..BufSize -> Byte]
      /\ r \in Nat /\ w \in Nat /\ r <= w /\ w <= BufSize /\ cur \in 0..Len(frames)
  BY <1>0 DEF ReaderTypeOK
<1>1. Spells(Pending, buf, r, w, rest)
  BY <1>t, FromParts, PendingIsFrom
<1>2. 1 \in 1..(w - r) /\ Len(rest) \in Nat
  BY <1>t
<1>3. Len(Pending) >= 1 /\ Pending[1] = buf[r + 1]
  BY <1>t, <1>1, <1>2 DEF Spells
<1>4. /\ cur + 1 \in 1..Len(frames) /\ Pending[1] = <<cur + 1, 1>>
      /\ After(Pending, HeaderLen(frames[cur + 1])) =
           After(AllBytes(frames), Start(frames, cur + 1) + HeaderLen(frames[cur + 1]))
  BY <1>0, <1>t, <1>3, HeaderPlace
<1>5. NextFrame = cur + 1
  BY <1>3, <1>4 DEF NextFrame, FrameAt
<1> QED
  BY <1>4, <1>5

\* The steps after which readLoop is done.
LEMMA PlaceEnds ==
    ASSUME PlaceInv, pc' = "done", UNCHANGED <<frames, rest, conn, buf, r, w, cur, dst>>
    PROVE  PlaceInv'
<1>1. ReaderTypeOK'
  BY DEF PlaceInv, ReaderTypeOK
<1>2. AtHeader' /\ AtPayload'
  BY DEF AtHeader, AtPayload
<1> QED
  BY <1>1, <1>2 DEF PlaceInv

\* The steps that go on with the next frame.
LEMMA PlaceGoesOn ==
    ASSUME PlaceInv, pc = "payload", Missing = 0, pc' = "header",
           UNCHANGED <<frames, rest, conn, buf, r, w, cur, dst>>
    PROVE  PlaceInv'
<1>t. frames \in Seq(Frame) /\ cur \in 0..Len(frames) /\ dst \in Seq(Byte) /\ cur # 0
  BY DEF PlaceInv, ReaderTypeOK, AtPayload
<1>1. ReaderTypeOK'
  BY DEF PlaceInv, ReaderTypeOK
<1>2. AtPayload'
  BY DEF AtPayload
<1> DEFINE x == frames[cur]   o == Start(frames, cur)   A == AllBytes(frames)
<1>3. cur \in 1..Len(frames) /\ x \in Frame
  BY <1>t
<1>4. x.len \in Nat /\ HeaderLen(x) \in Nat /\ Len(dst) \in Nat
  BY <1>t, <1>3, FrameLengths
<1>5. o \in Nat /\ Start(frames, cur + 1) = o + (HeaderLen(x) + x.len)
  BY <1>t, <1>3, Layout
<1>6. Pending = After(A, o + HeaderLen(x) + Len(dst)) /\ x.len - Len(dst) = 0
  BY DEF PlaceInv, AtPayload, Missing
<1> HIDE DEF x, o, A
<1>7. o + HeaderLen(x) + Len(dst) = o + (HeaderLen(x) + x.len)
  BY <1>4, <1>5, <1>6
<1>8. Pending = After(A, Start(frames, cur + 1))
  BY <1>5, <1>6, <1>7
<1>9. AtHeader'
  BY <1>8 DEF AtHeader, Pending, Buffered, A
<1> QED
  BY <1>1, <1>2, <1>9 DEF PlaceInv

\* The steps that copy the next bytes of a payload.
LEMMA PlaceCopies ==
    ASSUME PlaceInv, pc = "payload", NEW e \in Seq(Byte), NEW n \in Nat, Len(e) = n, n <= Missing,
           Begins(e, Pending), dst' = dst \o e, UNCHANGED <<frames, pc, cur>>,
           rest' \in Seq(Byte), conn' \in {"open", "broken", "closed"},
           buf' \in [1..BufSize -> Byte], r' \in Nat, w' \in Nat, r' <= w', w' <= BufSize,
           Pending' = After(Pending, n), n = Missing \/ r' = w'
    PROVE  PlaceInv'
<1>t. frames \in Seq(Frame) /\ cur \in 0..Len(frames) /\ dst \in Seq(Byte) /\ cur # 0
  BY DEF PlaceInv, ReaderTypeOK, AtPayload
<1> DEFINE x == frames[cur]   o == Start(frames, cur)   A == AllBytes(frames)   m == Len(dst)
           H == HeaderLen(x)
<1>1. cur \in 1..Len(frames) /\ x \in Frame
  BY <1>t
<1>2. x.len \in Nat /\ H \in Nat /\ m \in Nat
  BY <1>t, <1>1, FrameLengths
<1>3. /\ ~x.bad /\ ~Malformed(x) /\ x.len <= MaxPayload
      /\ dst = Bytes(cur, H + 1, H + m) /\ Pending = After(A, o + H + m) /\ m <= x.len
  BY DEF PlaceInv, AtPayload
<1>4. n <= x.len - m
  BY DEF Missing
<1>5. m + n <= x.len
  <2> HIDE DEF x, m
  <2> QED
    BY <1>2, <1>4
<1>6. /\ dst' \in Seq(Byte) /\ Len(dst') = m + n
      /\ dst' = Bytes(cur, H + 1, H + (m + n))
      /\ Pending' = After(A, o + H + (m + n))
  <2>1. /\ dst \o e \in Seq(Byte) /\ Len(dst \o e) = m + n
        /\ dst \o e = Bytes(cur, H + 1, H + (m + n))
        /\ After(Pending, n) = After(A, o + H + (m + n))
    <3>1. /\ frames \in Seq(Frame) /\ cur \in 1..Len(frames) /\ m \in Nat /\ n \in Nat
          /\ m + n <= frames[cur].len
      BY <1>t, <1>1, <1>2, <1>5
    <3>2. InPayload(frames, cur, m, dst, Pending)
      BY <1>3 DEF InPayload
    <3> HIDE DEF m
    <3>3. /\ dst \o e \in Seq(Byte) /\ Len(dst \o e) = m + n
          /\ InPayload(frames, cur, m + n, dst \o e, After(Pending, n))
      BY <3>1, <3>2, PayloadPlace, SMTT(30)
    <3> QED
      BY <3>3 DEF InPayload
  <2> QED
    BY <2>1
<1>7. ReaderTypeOK'
  BY <1>6 DEF PlaceInv, ReaderTypeOK
<1>8. AtHeader'
  BY DEF AtHeader
<1>9. m + n = x.len \/ r' = w'
  <2>1. n = x.len - m \/ r' = w'
    BY DEF Missing
  <2>2. x.len \in Nat /\ m \in Nat
    BY <1>2
  <2> HIDE DEF x, m
  <2>3. n = x.len - m => m + n = x.len
    BY <2>2
  <2> QED
    BY <2>1, <2>3
<1>10. AtPayload'
  <2>1. Len(dst') <= x.len /\ (Len(dst') < x.len => r' = w')
    <3> HIDE DEF x, m
    <3> QED
      BY <1>2, <1>5, <1>6, <1>9
  <2>2. frames' = frames /\ cur' = cur
    OBVIOUS
  <2>3. /\ ~(frames'[cur']).bad /\ ~Malformed(frames'[cur']) /\ frames'[cur'].len <= MaxPayload
        /\ cur' # 0
    BY <1>t, <1>3, <2>2
  <2>4. dst' = Bytes(cur', HeaderLen(frames'[cur']) + 1, HeaderLen(frames'[cur']) + Len(dst'))
    BY <1>6, <2>2
  <2>5. Pending' = After(AllBytes(frames'),
                         Start(frames', cur') + HeaderLen(frames'[cur']) + Len(dst'))
    BY <1>6, <2>2
  <2> QED
    BY <2>1, <2>2, <2>3, <2>4, <2>5 DEF AtPayload
<1> QED
  BY <1>7, <1>8, <1>10 DEF PlaceInv

\* Reading a part of a header.
LEMMA PlaceReads ==
    ASSUME PlaceInv, NEW n \in 1..BufSize, ReadHeader(n)
    PROVE  PlaceInv'
<1>t. /\ frames \in Seq(Frame) /\ rest \in Seq(Byte) /\ buf \in [1..BufSize -> Byte]
      /\ r \in Nat /\ w \in Nat /\ r <= w /\ w <= BufSize /\ BufSize \in Nat
  BY SizesType DEF PlaceInv, ReaderTypeOK
<1>1. n \in Nat /\ n <= Len(rest) /\ (w - r) + n <= BufSize
  BY <1>t DEF ReadHeader
<1>2. /\ buf' = Filled(buf, SubSeq(buf, r + 1, w) \o SubSeq(rest, 1, n))
      /\ r' = 0 /\ w' = (w - r) + n /\ rest' = SubSeq(rest, n + 1, Len(rest))
  BY DEF ReadHeader, Fill, Overlay, Buffered, Filled
<1>3. /\ buf' \in [1..BufSize -> Byte]
      /\ From(buf', 0, (w - r) + n, SubSeq(rest, n + 1, Len(rest))) = From(buf, r, w, rest)
  <2> DEFINE c == Filled(buf, SubSeq(buf, r + 1, w) \o SubSeq(rest, 1, n))
  <2>0. SameAfterFill(buf, r, w, rest, n)
    BY <1>t, <1>1, FromFilled
  <2>1. /\ c \in [1..BufSize -> Byte]
        /\ From(c, 0, (w - r) + n, SubSeq(rest, n + 1, Len(rest))) = From(buf, r, w, rest)
    BY <2>0, Zenon DEF SameAfterFill
  <2> HIDE DEF c
  <2>2. buf' = c
    BY <1>2 DEF c
  <2> QED
    BY <2>1, <2>2
<1>4. Pending' = Pending
  BY <1>2, <1>3 DEF Pending, Buffered, From
<1>5. rest' \in Seq(Byte)
  BY <1>t, <1>1, <1>2
<1>6. r' \in Nat /\ w' \in Nat /\ r' <= w' /\ w' <= BufSize
  BY <1>t, <1>1, <1>2
<1>7. pc = "header" /\ conn' \in {"open", "broken"} /\ UNCHANGED <<frames, pc, cur, dst>>
  BY DEF ReadHeader
<1>8. ReaderTypeOK'
  BY <1>3, <1>5, <1>6, <1>7 DEF PlaceInv, ReaderTypeOK
<1>9. AtHeader' /\ AtPayload'
  BY <1>4, <1>7 DEF PlaceInv, AtHeader, AtPayload
<1> QED
  BY <1>8, <1>9 DEF PlaceInv

\* The header that was read is that of the next frame.
LEMMA HeaderFacts ==
    ASSUME PlaceInv, HeaderRead
    PROVE  /\ pc = "header" /\ NextFrame = cur + 1 /\ cur + 1 \in 1..Len(frames)
           /\ ~frames[cur + 1].bad /\ HeaderLen(frames[cur + 1]) <= w - r
           /\ HeaderLen(frames[cur + 1]) \in Nat
           /\ After(Pending, HeaderLen(frames[cur + 1])) =
                After(AllBytes(frames), Start(frames, cur + 1) + HeaderLen(frames[cur + 1]))
<1>t. frames \in Seq(Frame) /\ r \in Nat /\ w \in Nat
  BY DEF PlaceInv, ReaderTypeOK
<1>1. pc = "header" /\ w - r >= 2 /\ ~BadStart /\ w - r >= Need
  BY DEF HeaderRead
<1>2. w - r >= 1 /\ ~(w - r < 2)
  BY <1>t, <1>1
<1>3. /\ NextFrame = cur + 1 /\ cur + 1 \in 1..Len(frames)
      /\ After(Pending, HeaderLen(frames[cur + 1])) =
           After(AllBytes(frames), Start(frames, cur + 1) + HeaderLen(frames[cur + 1]))
  BY <1>1, <1>2, NextIsNext
<1>4. frames[cur + 1] \in Frame
  BY <1>t, <1>3
<1>5. HeaderLen(frames[cur + 1]) \in Nat
  BY <1>4, FrameLengths
<1>6. Need = HeaderLen(frames[cur + 1])
  BY <1>2, <1>3 DEF Need
<1>7. HeaderLen(frames[cur + 1]) <= w - r
  BY <1>t, <1>1, <1>5, <1>6
<1>8. ~frames[cur + 1].bad
  BY <1>1, <1>3, Zenon DEF BadStart
<1> QED
  BY <1>1, <1>3, <1>5, <1>7, <1>8

\* Taking a header.
LEMMA PlaceTakes ==
    ASSUME PlaceInv, HeaderRead, Consumed(HeaderLen(frames[NextFrame])),
           UNCHANGED <<frames, rest, conn, buf>>
    PROVE  /\ r' \in Nat /\ w' \in Nat /\ r' <= w' /\ w' <= BufSize
           /\ Pending' = After(AllBytes(frames),
                               Start(frames, cur + 1) + HeaderLen(frames[cur + 1]))
<1> DEFINE H == HeaderLen(frames[cur + 1])
<1>t. /\ rest \in Seq(Byte) /\ buf \in [1..BufSize -> Byte]
      /\ r \in Nat /\ w \in Nat /\ r <= w /\ w <= BufSize
  BY DEF PlaceInv, ReaderTypeOK
<1>1. /\ NextFrame = cur + 1 /\ H <= w - r /\ H \in Nat
      /\ After(Pending, H) = After(AllBytes(frames), Start(frames, cur + 1) + H)
  BY HeaderFacts
<1>2. r' = (IF r + H = w THEN 0 ELSE r + H) /\ w' = (IF r + H = w THEN 0 ELSE w)
  BY <1>1 DEF Consumed
<1>3. Pending' = From(buf, r', w', rest)
  BY DEF Pending, Buffered, From
<1>4. Pending = From(buf, r, w, rest)
  BY PendingIsFrom
<1> HIDE DEF H
<1>5. /\ r' \in Nat /\ w' \in Nat /\ r' <= w' /\ w' <= BufSize
      /\ From(buf, r', w', rest) = After(From(buf, r, w, rest), H)
  BY <1>t, <1>1, <1>2, FromAdvanced
<1> QED
  BY <1>1, <1>3, <1>4, <1>5 DEF H

\* Nothing of a payload is nothing.
LEMMA NoBytes == ASSUME NEW f, NEW a \in Nat PROVE Bytes(f, a + 1, a + 0) = <<>>
<1>1. (a + 0) - (a + 1) + 1 = 0
  OBVIOUS
<1>2. Bytes(f, a + 1, a + 0) = [i \in 1..0 |-> <<f, (a + 1) + i - 1>>]
  BY <1>1 DEF Bytes
<1> QED
  BY <1>2

\* The steps that take a header and go on, or stop for its length.
LEMMA PlaceHeader ==
    ASSUME PlaceInv, TakeHeader \/ RejectLength
    PROVE  PlaceInv'
<1> DEFINE f == cur + 1   x == frames[f]   H == HeaderLen(x)
<1>t. ReaderTypeOK /\ frames \in Seq(Frame)
  BY DEF PlaceInv, ReaderTypeOK
<1>1. /\ HeaderRead /\ Consumed(HeaderLen(frames[NextFrame]))
      /\ UNCHANGED <<frames, rest, conn, buf>>
  BY DEF TakeHeader, RejectLength
<1>2. /\ r' \in Nat /\ w' \in Nat /\ r' <= w' /\ w' <= BufSize
      /\ Pending' = After(AllBytes(frames), Start(frames, f) + H)
  BY <1>1, PlaceTakes
<1>3. NextFrame = f /\ f \in 1..Len(frames) /\ ~x.bad /\ H \in Nat
  BY <1>1, HeaderFacts
<1>4. CASE RejectLength
  <2>1. pc' = "done" /\ cur' = cur /\ dst' = dst
    BY <1>4 DEF RejectLength
  <2>2. ReaderTypeOK'
    BY <1>1, <1>2, <1>t, <2>1 DEF ReaderTypeOK
  <2> QED
    BY <2>1, <2>2 DEF PlaceInv, AtHeader, AtPayload
<1>5. CASE TakeHeader
  <2>1. /\ pc' = "payload" /\ cur' = f /\ dst' = <<>> /\ ~Malformed(x) /\ x.len <= MaxPayload
    BY <1>3, <1>5 DEF TakeHeader
  <2>2. cur' \in 0..Len(frames) /\ cur' # 0
    BY <1>t, <1>3, <2>1
  <2>3. dst' \in Seq(Byte)
    BY <2>1, EmptySeq, Zenon
  <2>4. ReaderTypeOK'
    BY <1>1, <1>2, <1>t, <2>1, <2>2, <2>3 DEF ReaderTypeOK
  <2>5. Len(dst') = 0 /\ x.len \in Nat
    <3>1. Len(dst') = 0
      BY <2>1
    <3>2. x \in Frame
      BY <1>t, <1>3
    <3> QED
      BY <3>1, <3>2, FrameLengths
  <2>6. dst' = Bytes(f, H + 1, H + Len(dst'))
    <3>1. Bytes(f, H + 1, H + 0) = <<>>
      BY <1>3, NoBytes
    <3> QED
      BY <2>1, <2>5, <3>1, Zenon
  <2>7. Pending' = After(AllBytes(frames), Start(frames, f) + H + Len(dst'))
    <3> DEFINE o == Start(frames, f)
    <3>1. o \in Nat
      BY <1>t, <1>3, Layout
    <3> HIDE DEF o, H
    <3>2. o + H + 0 = o + H
      BY <1>3, <3>1
    <3> QED
      BY <1>2, <2>5, <3>2 DEF o, H
  <2>8. frames' = frames /\ 0 <= x.len
    BY <1>1, <2>5
  <2>9. AtPayload'
    BY <1>3, <2>1, <2>2, <2>5, <2>6, <2>7, <2>8, Zenon DEF AtPayload
  <2> QED
    BY <2>1, <2>4, <2>9 DEF PlaceInv, AtHeader
<1> QED
  BY <1>4, <1>5

\* The steps that copy a payload from the buffer or from the connection.
LEMMA PlacePayload ==
    ASSUME PlaceInv, PayloadBuffered \/ PayloadPart \/ \E n \in 1..MaxPayload : PayloadRead(n)
    PROVE  PlaceInv'
<1>t. /\ frames \in Seq(Frame) /\ rest \in Seq(Byte) /\ buf \in [1..BufSize -> Byte]
      /\ r \in Nat /\ w \in Nat /\ r <= w /\ w <= BufSize /\ dst \in Seq(Byte)
      /\ conn \in {"open", "broken", "closed"} /\ cur \in 0..Len(frames)
  BY DEF PlaceInv, ReaderTypeOK
<1>p. pc = "payload" /\ UNCHANGED <<frames, pc, cur, buf>>
  BY DEF PayloadBuffered, PayloadPart, PayloadRead
<1>c. cur # 0 /\ Len(dst) <= frames[cur].len /\ (dst # <<>> /\ Len(dst) < frames[cur].len => r = w)
  BY <1>p DEF PlaceInv, AtPayload
<1>l. Len(dst) \in Nat /\ frames[cur].len \in Nat
  <2>1. frames[cur] \in Frame
    BY <1>t, <1>c
  <2> QED
    BY <1>t, <2>1, FrameLengths
<1>m. Missing \in Nat /\ Missing = frames[cur].len - Len(dst)
  <2>1. Missing = frames[cur].len - Len(dst)
    BY DEF Missing
  <2> QED
    BY <1>c, <1>l, <2>1
<1>f. Pending = From(buf, r, w, rest) /\ Pending' = From(buf, r', w', rest')
  BY <1>p DEF Pending, Buffered, From
<1>1. CASE PayloadBuffered \/ PayloadPart
  <2> DEFINE n == IF PayloadBuffered THEN Missing ELSE w - r
             e == SubSeq(buf, r + 1, r + n)
  <2>1. n \in Nat /\ n <= Missing /\ n <= w - r
    BY <1>1, <1>m, <1>t, SMTT(30) DEF PayloadBuffered, PayloadPart
  <2>2. dst = <<>> /\ rest' = rest /\ conn' = conn
    BY <1>1 DEF PayloadBuffered, PayloadPart
  <2>3. dst' = e
    <3>1. CASE PayloadBuffered
      BY <3>1 DEF PayloadBuffered
    <3>2. CASE ~PayloadBuffered
      <4>1. dst' = SubSeq(buf, r + 1, w) /\ r + (w - r) = w
        BY <1>1, <1>t, <3>2 DEF PayloadPart, Buffered
      <4> QED
        BY <3>2, <4>1
    <3> QED
      BY <3>1, <3>2
  <2>4. r' = (IF r + n = w THEN 0 ELSE r + n) /\ w' = (IF r + n = w THEN 0 ELSE w)
    <3>1. CASE PayloadBuffered
      BY <3>1 DEF PayloadBuffered, Consumed
    <3>2. CASE ~PayloadBuffered
      <4>1. r' = 0 /\ w' = 0 /\ r + (w - r) = w
        BY <1>1, <1>t, <3>2 DEF PayloadPart
      <4> QED
        BY <3>2, <4>1
    <3> QED
      BY <3>1, <3>2
  <2>5. n = Missing \/ r' = w'
    <3>1. ~PayloadBuffered => r' = w'
      BY <1>1 DEF PayloadPart
    <3> QED
      BY <3>1
  <2> HIDE DEF n
  <2>6. e \in Seq(Byte) /\ Len(e) = n /\ Begins(e, Pending)
    <3>1. /\ SubSeq(buf, r + 1, r + n) \in Seq(Byte) /\ Len(SubSeq(buf, r + 1, r + n)) = n
          /\ Begins(SubSeq(buf, r + 1, r + n), From(buf, r, w, rest))
      <4>1. n \in Nat /\ n <= w - r
        BY <2>1
      <4> QED
        BY <1>t, <4>1, FromBegins
    <3> QED
      BY <1>f, <3>1, Zenon
  <2>7. /\ r' \in Nat /\ w' \in Nat /\ r' <= w' /\ w' <= BufSize
        /\ From(buf, r', w', rest) = After(From(buf, r, w, rest), n)
    BY <1>t, <2>1, <2>4, FromAdvanced
  <2> HIDE DEF e
  <2>8. dst' = dst \o e
    BY <2>2, <2>3, <2>6
  <2>9. rest' \in Seq(Byte) /\ conn' \in {"open", "broken", "closed"} /\ buf' \in [1..BufSize -> Byte]
    BY <1>t, <1>p, <2>2
  <2>10. Pending' = After(Pending, n)
    BY <1>f, <2>2, <2>7
  <2> QED
    BY <1>p, <2>1, <2>5, <2>6, <2>7, <2>8, <2>9, <2>10, PlaceCopies
<1>2. ASSUME NEW n \in 1..MaxPayload, PayloadRead(n) PROVE PlaceInv'
  <2> DEFINE e == SubSeq(rest, 1, n)
  <2>1. n \in 1..Missing /\ n <= Len(rest) /\ n \in Nat /\ n <= Missing
    BY <1>2, <1>m DEF PayloadRead
  <2>2. r = w
    <3>1. Len(dst) < frames[cur].len
      BY <1>l, <1>m, <2>1
    <3> QED
      BY <1>2, <1>c, <3>1 DEF PayloadRead
  <2>3. /\ dst' = dst \o e /\ rest' = SubSeq(rest, n + 1, Len(rest)) /\ r' = r /\ w' = w
        /\ conn' \in {"open", "broken"}
    BY <1>2 DEF PayloadRead
  <2>4. rest' = After(rest, n)
    BY <2>3 DEF After
  <2>5. After(rest, n) \in Seq(Byte)
    <3>1. n + 0 <= Len(rest) /\ 0 \in Nat
      BY <1>t, <2>1
    <3> QED
      BY <1>t, <2>1, <3>1, AfterMore
  <2>6. Pending = rest /\ Pending' = rest'
    <3>1. From(buf, w, w, rest) = rest /\ From(buf, w, w, rest') = rest'
      BY <1>t, <2>4, <2>5, FromEmpty
    <3> QED
      BY <1>f, <2>2, <2>3, <3>1
  <2>7. e \in Seq(Byte) /\ Len(e) = n /\ Begins(e, Pending)
    <3>1. e \in Seq(Byte) /\ Len(e) = n /\ \A i \in 1..n : e[i] = rest[i]
      BY <1>t, <2>1
    <3> HIDE DEF e
    <3> QED
      BY <2>1, <2>6, <3>1 DEF Begins
  <2> HIDE DEF e
  <2>8. /\ rest' \in Seq(Byte) /\ conn' \in {"open", "broken", "closed"}
        /\ buf' \in [1..BufSize -> Byte] /\ r' \in Nat /\ w' \in Nat /\ r' <= w' /\ w' <= BufSize
        /\ r' = w'
    BY <1>t, <1>p, <2>2, <2>3, <2>4, <2>5
  <2>9. Pending' = After(Pending, n)
    BY <2>4, <2>6
  <2> QED
    BY <1>p, <2>1, <2>3, <2>7, <2>8, <2>9, PlaceCopies
<1> QED
  BY <1>1, <1>2

\* Every step keeps the position in the input.
LEMMA PlaceStep ==
    ASSUME PlaceInv, [Next]_vars
    PROVE  PlaceInv'
<1>1. CASE \E n \in 1..BufSize : ReadHeader(n)
  BY <1>1, PlaceReads
<1>2. CASE PayloadBuffered \/ PayloadPart \/ \E n \in 1..MaxPayload : PayloadRead(n)
  BY <1>2, PlacePayload
<1>3. CASE TakeHeader \/ RejectLength
  BY <1>3, PlaceHeader
<1>4. CASE ReadFails \/ RejectStart \/ RejectHeader \/ PayloadFails
  <2>1. pc' = "done" /\ UNCHANGED <<frames, rest, conn, buf, r, w, cur, dst>>
    BY <1>4 DEF ReadFails, RejectStart, RejectHeader, PayloadFails
  <2> QED
    BY <2>1, PlaceEnds
<1>5. CASE Unstarted \/ Overlong \/ Interleaved \/ Text \/ CloseFrame \/ Unknown
  <2>1. pc' = "done" /\ UNCHANGED <<frames, rest, conn, buf, r, w, cur, dst>>
    BY <1>5 DEF Unstarted, Overlong, Interleaved, Text, CloseFrame, Unknown, Stop, Handled
  <2> QED
    BY <2>1, PlaceEnds
<1>6. CASE Continue \/ First \/ (\E keep \in BOOLEAN : Single(keep)) \/ Ping \/ Pong
  <2>1. /\ pc = "payload" /\ Missing = 0 /\ pc' = "header"
        /\ UNCHANGED <<frames, rest, conn, buf, r, w, cur, dst>>
    BY <1>6 DEF Continue, First, Single, Ping, Pong, Whole, Handled
  <2> QED
    BY <2>1, PlaceGoesOn
<1>7. CASE Break \/ UNCHANGED vars
  <2>1. /\ UNCHANGED <<frames, rest, buf, r, w, pc, cur, dst>>
        /\ conn' \in {"broken", "closed"} \/ conn' = conn
    BY <1>7 DEF Break, vars
  <2>2. ReaderTypeOK'
    BY <2>1 DEF PlaceInv, ReaderTypeOK
  <2>3. AtHeader' /\ AtPayload'
    BY <2>1 DEF PlaceInv, AtHeader, AtPayload, Pending, Buffered
  <2> QED
    BY <2>2, <2>3 DEF PlaceInv
<1> QED
  BY <1>1, <1>2, <1>3, <1>4, <1>5, <1>6, <1>7 DEF Next, Reader

\* The invariant of the position: no Read, of whatever size, at whatever place in a header
\* or a payload, makes readLoop lose, repeat or reorder a byte.
THEOREM PlaceKept == Spec => []PlaceInv
<1>1. Init => PlaceInv
  BY PlaceInit
<1>2. PlaceInv /\ [Next]_vars => PlaceInv'
  BY PlaceStep
<1> QED
  BY <1>1, <1>2, PTL DEF Spec

-----------------------------------------------------------------------------
(* The payload buffers.                                                    *)

\* Putting one more.
LEMMA PutOneMore ==
    ASSUME NEW s \in Seq(Nat), NEW c \in Nat, IsInjective(s), c \notin Range(s)
    PROVE  /\ Append(s, c) \in Seq(Nat) /\ IsInjective(Append(s, c))
           /\ Range(Append(s, c)) = Range(s) \cup {c}
<1> DEFINE t == Append(s, c)   n == Len(s)
<1>1. /\ n \in Nat /\ t \in Seq(Nat) /\ DOMAIN s = 1..n /\ DOMAIN t = 1..(n + 1)
      /\ \A i \in 1..n : t[i] = s[i] /\ s[i] \in Range(s)
      /\ t[n + 1] = c
  BY DEF Range
<1>2. \A i \in 1..(n + 1) : i \in 1..n \/ i = n + 1
  BY <1>1
<1>3. \A i \in 1..n : i \in 1..(n + 1)
  BY <1>1
<1>4. n + 1 \in 1..(n + 1)
  BY <1>1
<1> HIDE DEF t, n
<1>5. IsInjective(t)
  <2> SUFFICES ASSUME NEW i \in 1..(n + 1), NEW j \in 1..(n + 1), t[i] = t[j]
               PROVE  i = j
    BY <1>1, Zenon DEF IsInjective
  <2>1. CASE i \in 1..n /\ j \in 1..n
    BY <1>1, <2>1, Zenon DEF IsInjective
  <2>2. CASE i = n + 1 /\ j \in 1..n
    BY <1>1, <2>2, Zenon
  <2>3. CASE i \in 1..n /\ j = n + 1
    BY <1>1, <2>3, Zenon
  <2> QED
    BY <1>2, <2>1, <2>2, <2>3, Zenon
<1>6. Range(t) = Range(s) \cup {c}
  <2>1. ASSUME NEW v \in Range(t) PROVE v \in Range(s) \cup {c}
    <3>1. PICK i \in 1..(n + 1) : v = t[i]
      BY <1>1, Zenon DEF Range
    <3> QED
      BY <1>1, <1>2, <3>1, Zenon
  <2>2. ASSUME NEW v \in Range(s) PROVE v \in Range(t)
    <3>1. PICK i \in 1..n : v = s[i]
      BY <1>1, Zenon DEF Range
    <3>2. v = t[i] /\ i \in DOMAIN t
      BY <1>1, <1>3, <3>1, Zenon
    <3> QED
      BY <3>2, Zenon DEF Range
  <2>3. c \in Range(t)
    BY <1>1, <1>4, Zenon DEF Range
  <2> QED
    BY <2>1, <2>2, <2>3, Zenon
<1> QED
  BY <1>1, <1>5, <1>6 DEF t

\* The frames whose buffer was taken and is to be back.
Taken == IF pc = "payload" THEN 1..cur - 1 ELSE 1..cur

\* The invariant in terms of them.
LEMMA PutParts ==
    PutInv <=> /\ bufp.puts \in Seq(Nat) /\ bufp.kept \subseteq Nat
               /\ IsInjective(bufp.puts) /\ Range(bufp.puts) \cap bufp.kept = {}
               /\ Range(bufp.puts) \cup bufp.kept = Taken
BY DEF PutInv, BuffersReturned, Taken

\* The steps that put the buffer of the frame.
LEMMA PutReturns ==
    ASSUME PlaceInv, PutInv, DOMAIN bufp = {"puts", "kept"}, pc = "payload", pc' # "payload",
           cur' = cur, Put
    PROVE  PutInv' /\ DOMAIN bufp' = {"puts", "kept"}
<1> DEFINE P == bufp.puts   K == bufp.kept
<1>t. cur \in Nat /\ cur # 0
  BY DEF PlaceInv, ReaderTypeOK, AtPayload
<1>1. /\ P \in Seq(Nat) /\ K \subseteq Nat /\ IsInjective(P) /\ Range(P) \cap K = {}
      /\ Range(P) \cup K = 1..(cur - 1)
  BY PutParts DEF Taken
<1>2. bufp' = [bufp EXCEPT !.puts = Append(P, cur)]
  BY DEF Put
<1>3. bufp'.puts = Append(P, cur) /\ bufp'.kept = K /\ DOMAIN bufp' = {"puts", "kept"}
  BY <1>2
<1>4. cur \notin 1..(cur - 1) /\ 1..cur = (1..(cur - 1)) \cup {cur}
  BY <1>t
<1> HIDE DEF P, K
<1>5. cur \notin Range(P) /\ cur \notin K
  BY <1>1, <1>4, Zenon
<1>6. /\ Append(P, cur) \in Seq(Nat) /\ IsInjective(Append(P, cur))
      /\ Range(Append(P, cur)) = Range(P) \cup {cur}
  BY <1>t, <1>1, <1>5, PutOneMore
<1>7. /\ (Range(P) \cup {cur}) \cap K = {} /\ (Range(P) \cup {cur}) \cup K = 1..cur
  BY <1>1, <1>4, <1>5, Zenon
<1>8. Taken' = 1..cur
  BY DEF Taken
<1>9. /\ bufp'.puts \in Seq(Nat) /\ bufp'.kept \subseteq Nat
      /\ IsInjective(bufp'.puts) /\ Range(bufp'.puts) \cap bufp'.kept = {}
      /\ Range(bufp'.puts) \cup bufp'.kept = Taken'
  BY <1>1, <1>3, <1>6, <1>7, <1>8, Zenon
<1>10. PutInv'
  BY <1>9, Zenon DEF PutInv, BuffersReturned, Taken
<1> QED
  BY <1>3, <1>10

\* The steps that leave the buffers alone.
LEMMA PutAlone ==
    ASSUME PutInv, DOMAIN bufp = {"puts", "kept"}, bufp' = bufp, Taken' = Taken
    PROVE  PutInv' /\ DOMAIN bufp' = {"puts", "kept"}
BY Zenon DEF PutInv, BuffersReturned, Taken

\* Every step keeps the buffers.
LEMMA PutStep ==
    ASSUME PlaceInv, PutInv, DOMAIN bufp = {"puts", "kept"}, [Next]_vars
    PROVE  PutInv' /\ DOMAIN bufp' = {"puts", "kept"}
<1>t. cur \in Nat
  BY DEF PlaceInv, ReaderTypeOK
<1>1. CASE \/ \E n \in 1..BufSize : ReadHeader(n)
           \/ \E n \in 1..MaxPayload : PayloadRead(n)
           \/ PayloadBuffered \/ PayloadPart \/ Break \/ UNCHANGED vars
  <2>1. UNCHANGED <<pc, cur, bufp>>
    BY <1>1 DEF ReadHeader, PayloadRead, PayloadBuffered, PayloadPart, Break, vars
  <2>2. Taken' = Taken
    BY <2>1 DEF Taken
  <2> QED
    BY <2>1, <2>2, PutAlone
<1>2. CASE ReadFails \/ RejectStart \/ RejectHeader \/ RejectLength
  <2>1. pc = "header" /\ pc' = "done" /\ UNCHANGED <<cur, bufp>>
    BY <1>2 DEF ReadFails, RejectStart, RejectHeader, RejectLength, HeaderRead
  <2>2. Taken' = Taken
    BY <2>1 DEF Taken
  <2> QED
    BY <2>1, <2>2, PutAlone
<1>3. CASE TakeHeader
  <2>1. pc = "header" /\ pc' = "payload" /\ cur' = NextFrame /\ UNCHANGED bufp
    BY <1>3 DEF TakeHeader, HeaderRead
  <2>2. NextFrame = cur + 1
    BY <1>3, HeaderFacts DEF TakeHeader
  <2>3. (cur + 1) - 1 = cur
    BY <1>t
  <2>4. Taken' = Taken
    BY <2>1, <2>2, <2>3 DEF Taken
  <2> QED
    BY <2>1, <2>4, PutAlone
<1>4. CASE \/ PayloadFails \/ Unstarted \/ Overlong \/ Continue \/ Interleaved \/ First
           \/ Single(FALSE) \/ Text \/ Ping \/ Pong \/ CloseFrame \/ Unknown
  <2>1. pc = "payload" /\ pc' # "payload" /\ cur' = cur /\ Put
    BY <1>4 DEF PayloadFails, Unstarted, Overlong, Continue, Interleaved, First, Single, Text,
                Ping, Pong, CloseFrame, Unknown, Stop, Handled, Whole
  <2> QED
    BY <2>1, PutReturns
<1>5. CASE Single(TRUE)
  <2> DEFINE P == bufp.puts   K == bufp.kept
  <2>1. /\ pc = "payload" /\ pc' = "header" /\ cur' = cur
        /\ bufp' = [bufp EXCEPT !.kept = K \cup {cur}]
    BY <1>5 DEF Single, Handled, Whole
  <2>2. bufp'.puts = P /\ bufp'.kept = K \cup {cur} /\ DOMAIN bufp' = {"puts", "kept"}
    BY <2>1
  <2>3. /\ P \in Seq(Nat) /\ K \subseteq Nat /\ IsInjective(P) /\ Range(P) \cap K = {}
        /\ Range(P) \cup K = 1..(cur - 1)
    BY <2>1, PutParts DEF Taken
  <2>4. cur # 0
    BY <2>1 DEF PlaceInv, AtPayload
  <2>5. cur \notin 1..(cur - 1) /\ 1..cur = (1..(cur - 1)) \cup {cur}
    BY <1>t, <2>4
  <2> HIDE DEF P, K
  <2>6. /\ P \in Seq(Nat) /\ K \cup {cur} \subseteq Nat /\ IsInjective(P)
        /\ Range(P) \cap (K \cup {cur}) = {} /\ Range(P) \cup (K \cup {cur}) = 1..cur
    BY <1>t, <2>3, <2>5, Zenon
  <2>7. Taken' = 1..cur
    BY <2>1 DEF Taken
  <2>8. /\ bufp'.puts \in Seq(Nat) /\ bufp'.kept \subseteq Nat
        /\ IsInjective(bufp'.puts) /\ Range(bufp'.puts) \cap bufp'.kept = {}
        /\ Range(bufp'.puts) \cup bufp'.kept = Taken'
    BY <2>2, <2>6, <2>7, Zenon
  <2>9. PutInv'
    BY <2>8, Zenon DEF PutInv, BuffersReturned, Taken
  <2> QED
    BY <2>2, <2>9
<1>6. (\E keep \in BOOLEAN : Single(keep)) => Single(TRUE) \/ Single(FALSE)
  BY Zenon
<1> QED
  BY <1>1, <1>2, <1>3, <1>4, <1>5, <1>6 DEF Next, Reader

\* Every payload buffer that readLoop takes is put back once, or kept by one stream, by the
\* time it reads the next frame or returns, on every path through readLoop.
THEOREM BuffersComeBack == Spec => []BuffersReturned
<1> DEFINE Inv == PlaceInv /\ PutInv /\ DOMAIN bufp = {"puts", "kept"}
<1>1. Init => Inv
  <2> SUFFICES ASSUME Init PROVE Inv
    OBVIOUS
  <2> DEFINE nil == <<>>
  <2>1. bufp = [puts |-> nil, kept |-> {}] /\ pc = "header" /\ cur = 0
    BY DEF Init
  <2>2. bufp.puts = nil /\ bufp.kept = {} /\ DOMAIN bufp = {"puts", "kept"}
    BY <2>1
  <2>3. nil \in Seq(Nat) /\ DOMAIN nil = {}
    BY EmptySeq
  <2> HIDE DEF nil
  <2>4. IsInjective(nil) /\ Range(nil) = {}
    BY <2>3, Zenon DEF IsInjective, Range
  <2>5. 1..0 = {}
    OBVIOUS
  <2>6. Taken = {}
    BY <2>1, <2>5 DEF Taken
  <2>7. PutInv
    BY <2>2, <2>3, <2>4, <2>6, PutParts, Zenon
  <2> QED
    BY <2>2, <2>7, PlaceInit
<1>2. Inv /\ [Next]_vars => Inv'
  BY PlaceStep, PutStep
<1>3. Inv => BuffersReturned
  BY DEF PutInv
<1> QED
  BY <1>1, <1>2, <1>3, PTL DEF Spec

-----------------------------------------------------------------------------
(* What the frames mean, one frame after the other.                        *)

\* A message is in progress after a data frame that does not end it, and as before after
\* a control frame.
LEMMA InMessageNext ==
    ASSUME NEW fs, NEW f \in Nat, f # 0, fs[f].fin \in BOOLEAN
    PROVE  InMessage(fs, f + 1) <=> IF IsData(fs[f]) THEN ~fs[f].fin ELSE InMessage(fs, f)
<1> DEFINE In(b, g) == IsData(fs[g]) /\ ~fs[g].fin /\ \A h \in g + 1..b : ~IsData(fs[h])
<1>0. (f + 1) - 1 = f
  OBVIOUS
<1>1. InMessage(fs, f + 1) <=> \E g \in 1..f : In(f, g)
  BY <1>0 DEF InMessage
<1>2. InMessage(fs, f) <=> \E g \in 1..(f - 1) : In(f - 1, g)
  BY DEF InMessage
<1>3. CASE IsData(fs[f])
  <2>1. In(f, f) <=> ~fs[f].fin
    <3>1. \A h \in f + 1..f : FALSE
      OBVIOUS
    <3> QED
      BY <1>3, <3>1
  <2>2. ASSUME NEW g \in 1..f, In(f, g) PROVE g = f
    <3> SUFFICES ASSUME g # f PROVE FALSE
      OBVIOUS
    <3>1. f \in g + 1..f
      OBVIOUS
    <3> QED
      BY <1>3, <2>2, <3>1
  <2>3. f \in 1..f
    OBVIOUS
  <2> HIDE DEF In
  <2> QED
    BY <1>1, <1>3, <2>1, <2>2, <2>3, Zenon
<1>4. CASE ~IsData(fs[f])
  <2>1. ASSUME NEW g \in 1..(f - 1) PROVE In(f, g) <=> In(f - 1, g)
    <3>1. \A h : h \in g + 1..f <=> h \in g + 1..(f - 1) \/ h = f
      OBVIOUS
    <3> QED
      BY <1>4, <3>1, Zenon
  <2>2. ~In(f, f)
    BY <1>4
  <2>3. \A g : g \in 1..f <=> g \in 1..(f - 1) \/ g = f
    OBVIOUS
  <2> HIDE DEF In
  <2> QED
    BY <1>1, <1>2, <1>4, <2>1, <2>2, <2>3, Zenon
<1> QED
  BY <1>3, <1>4

\* No message is in progress before the first frame.
LEMMA InMessageFirst == ASSUME NEW fs PROVE ~InMessage(fs, 1)
BY DEF InMessage

\* The frame that starts a message is one and is FirstOf.
LEMMA FirstOfIs ==
    ASSUME NEW fs, NEW f \in Nat, NEW g \in 1..f, fs[g].op = 2, \A h \in g + 1..f : fs[h].op # 2
    PROVE  FirstOf(fs, f) = g
<1> DEFINE Is(k) == fs[k].op = 2 /\ \A h \in k + 1..f : fs[h].op # 2
<1>1. Is(g)
  OBVIOUS
<1>2. ASSUME NEW k \in 1..f, Is(k) PROVE k = g
  <2>1. CASE k < g
    <3>1. g \in k + 1..f
      BY <2>1
    <3> QED
      BY <1>2, <3>1
  <2>2. CASE k > g
    <3>1. k \in g + 1..f
      BY <2>2
    <3> QED
      BY <1>2, <3>1
  <2> QED
    BY <2>1, <2>2
<1>3. FirstOf(fs, f) = CHOOSE k \in 1..f : Is(k)
  BY DEF FirstOf
<1> HIDE DEF Is
<1> QED
  BY <1>1, <1>2, <1>3

\* The payload of a frame.
LEMMA PayloadBytes ==
    ASSUME NEW fs \in Seq(Frame), NEW f \in 1..Len(fs)
    PROVE  Payload(fs, f) \in Seq(Byte) /\ Len(Payload(fs, f)) = fs[f].len
<1> DEFINE H == HeaderLen(fs[f])   L == fs[f].len
<1>1. fs[f] \in Frame /\ f \in Nat
  OBVIOUS
<1>2. H \in Nat /\ L \in Nat
  BY <1>1, FrameLengths
<1>3. Payload(fs, f) = Bytes(f, H + 1, H + L)
  BY DEF Payload
<1> HIDE DEF H, L
<1>4. Bytes(f, H + 1, H + L) \in Seq(Byte) /\ Len(Bytes(f, H + 1, H + L)) = L
  BY <1>1, <1>2, BytesList
<1> QED
  BY <1>3, <1>4 DEF L

\* A message up to frame f, and with the next frame.
LEMMA SpanGrows ==
    ASSUME NEW fs \in Seq(Frame), NEW f \in Nat, f + 1 <= Len(fs), NEW g \in 1..(f + 1)
    PROVE  /\ Span(fs, g, f) \in Seq(Byte)
           /\ Span(fs, g, f + 1) = Span(fs, g, f) \o
                (IF IsData(fs[f + 1]) THEN Payload(fs, f + 1) ELSE <<>>)
<1> DEFINE part(k) == IF IsData(fs[k]) THEN Payload(fs, k) ELSE <<>>
           n == f - g + 1   m == (f + 1) - g + 1
           s == [i \in 1..n |-> part(g + i - 1)]   t == [i \in 1..m |-> part(g + i - 1)]
<1>0. n \in Nat /\ m = n + 1 /\ g + m - 1 = f + 1 /\ m \in 1..m
  OBVIOUS
<1>1. Span(fs, g, f) = FlattenSeq(s) /\ Span(fs, g, f + 1) = FlattenSeq(t)
  BY DEF Span
<1>2. ASSUME NEW i \in 1..m PROVE part(g + i - 1) \in Seq(Byte)
  <2>1. g + i - 1 \in 1..Len(fs)
    OBVIOUS
  <2>2. Payload(fs, g + i - 1) \in Seq(Byte)
    BY <2>1, PayloadBytes
  <2>3. <<>> \in Seq(Byte)
    BY EmptySeq
  <2> QED
    BY <2>2, <2>3, Zenon
<1> HIDE DEF part, n, m
<1>3. \A i \in 1..n : i \in 1..m
  BY <1>0
<1>4. s \in Seq(Seq(Byte)) /\ Len(s) = n
  <2>1. \A i \in 1..n : part(g + i - 1) \in Seq(Byte)
    BY <1>2, <1>3, Zenon
  <2> QED
    BY <1>0, <2>1, IsASeq
<1>5. t \in Seq(Seq(Byte)) /\ Len(t) = m
  <2>1. m \in Nat
    BY <1>0
  <2> QED
    BY <1>2, <2>1, IsASeq
<1>6. (\A i \in 1..n : t[i] = s[i]) /\ t[m] = part(f + 1)
  BY <1>0, <1>3
<1> HIDE DEF s, t
<1>7. Len(t) = Len(s) + 1 /\ \A i \in 1..Len(s) : t[i] = s[i]
  BY <1>0, <1>4, <1>5, <1>6
<1>8. FlattenSeq(s) \in Seq(Byte) /\ FlattenSeq(t) = FlattenSeq(s) \o t[Len(t)]
  BY <1>4, <1>5, <1>7, FlattenMore
<1> QED
  BY <1>1, <1>5, <1>6, <1>8 DEF part

\* A message of one frame.
LEMMA SpanOfOne ==
    ASSUME NEW fs \in Seq(Frame), NEW f \in 1..Len(fs), IsData(fs[f])
    PROVE  Span(fs, f, f) = Payload(fs, f)
<1> DEFINE e == f - 1
<1>0. e \in Nat /\ e + 1 = f /\ e + 1 <= Len(fs) /\ f \in 1..(e + 1) /\ e - f + 1 = 0
  OBVIOUS
<1>1. Span(fs, f, e) = <<>>
  <2> DEFINE s == [i \in 1..(e - f + 1) |->
                      IF IsData(fs[f + i - 1]) THEN Payload(fs, f + i - 1) ELSE <<>>]
  <2>1. Span(fs, f, e) = FlattenSeq(s)
    BY DEF Span
  <2>2. s = <<>>
    BY <1>0
  <2>3. s \in Seq(Seq(Byte)) /\ Len(s) = 0
    BY <2>2, EmptySeq
  <2> HIDE DEF s
  <2> QED
    BY <2>1, <2>3, FlattenJoins
<1> HIDE DEF e
<1>2. Span(fs, f, e + 1) = Span(fs, f, e) \o (IF IsData(fs[e + 1]) THEN Payload(fs, e + 1) ELSE <<>>)
  BY <1>0, SpanGrows
<1>3. Span(fs, f, f) = <<>> \o Payload(fs, f)
  BY <1>0, <1>1, <1>2
<1>4. Payload(fs, f) \in Seq(Byte)
  BY PayloadBytes
<1> QED
  BY <1>3, <1>4

\* Nothing about frame f ends the connection.
Fine(fs, f) ==
    LET x == fs[f] IN
    /\ ~x.bad /\ ~Malformed(x) /\ ~(x.len > MaxPayload) /\ x.op \in {0, 2, 9, 10}
    /\ x.op = 0 => InMessage(fs, f) /\ ~(Len(Joined(fs, f)) > MaxPayload)
    /\ x.op = 2 => ~InMessage(fs, f)

\* Such a frame has no close code.
LEMMA FineHasNoCode ==
    ASSUME NEW fs, NEW f, Fine(fs, f)
    PROVE  Codes(fs, f) = {}
<1> DEFINE K1 == On(fs[f].bad \/ Malformed(fs[f]) \/ fs[f].op \in (3..7) \cup (11..15), <<1002>>)
           K2 == On(fs[f].op = 0 /\ ~InMessage(fs, f), <<1002>>)
           K3 == On(fs[f].op = 2 /\ InMessage(fs, f), <<1002>>)
           K4 == On(fs[f].len > MaxPayload, <<1009>>)
           K5 == On(fs[f].op = 0 /\ InMessage(fs, f) /\ Len(Joined(fs, f)) > MaxPayload, <<1009>>)
           K6 == On(fs[f].op = 1, <<1003>>)
           K7 == On(fs[f].op = 8 /\ fs[f].len = 0, <<1000>>)
           K8 == On(fs[f].op = 8 /\ fs[f].len = 1, <<1002>>)
           K9 == On(fs[f].op = 8 /\ fs[f].len >= 2, SubSeq(Payload(fs, f), 1, 2))
<1>1. Codes(fs, f) = K1 \cup K2 \cup K3 \cup K4 \cup K5 \cup K6 \cup K7 \cup K8 \cup K9
  BY DEF Codes
<1>2. \A op \in {0, 2, 9, 10} : op # 1 /\ op # 8 /\ op \notin (3..7) \cup (11..15)
  OBVIOUS
<1>3. fs[f].op # 1 /\ fs[f].op # 8 /\ fs[f].op \notin (3..7) \cup (11..15)
  BY <1>2, Zenon DEF Fine
<1>4. K1 = {}
  <2>1. ~(fs[f].bad \/ Malformed(fs[f]) \/ fs[f].op \in (3..7) \cup (11..15))
    BY <1>3, Zenon DEF Fine
  <2> QED
    BY <2>1, Zenon DEF On
<1>5. K2 = {}
  <2>1. ~(fs[f].op = 0 /\ ~InMessage(fs, f))
    BY <1>3, Zenon DEF Fine
  <2> QED
    BY <2>1, Zenon DEF On
<1>6. K3 = {}
  <2>1. ~(fs[f].op = 2 /\ InMessage(fs, f))
    BY <1>3, Zenon DEF Fine
  <2> QED
    BY <2>1, Zenon DEF On
<1>7. K4 = {}
  <2>1. ~(fs[f].len > MaxPayload)
    BY <1>3, Zenon DEF Fine
  <2> QED
    BY <2>1, Zenon DEF On
<1>8. K5 = {}
  <2>1. ~(fs[f].op = 0 /\ InMessage(fs, f) /\ Len(Joined(fs, f)) > MaxPayload)
    BY <1>3, Zenon DEF Fine
  <2> QED
    BY <2>1, Zenon DEF On
<1>9. K6 = {}
  <2>1. ~(fs[f].op = 1)
    BY <1>3, Zenon DEF Fine
  <2> QED
    BY <2>1, Zenon DEF On
<1>10. K7 = {}
  <2>1. ~(fs[f].op = 8 /\ fs[f].len = 0)
    BY <1>3, Zenon DEF Fine
  <2> QED
    BY <2>1, Zenon DEF On
<1>11. K8 = {}
  <2>1. ~(fs[f].op = 8 /\ fs[f].len = 1)
    BY <1>3, Zenon DEF Fine
  <2> QED
    BY <2>1, Zenon DEF On
<1>12. K9 = {}
  <2>1. ~(fs[f].op = 8 /\ fs[f].len >= 2)
    BY <1>3, Zenon DEF Fine
  <2> QED
    BY <2>1, Zenon DEF On
<1> HIDE DEF K1, K2, K3, K4, K5, K6, K7, K8, K9
<1> QED
  BY <1>1, <1>4, <1>5, <1>6, <1>7, <1>8, <1>9, <1>10, <1>11, <1>12

\* What each reason gives.
LEMMA CodesGiven ==
    ASSUME NEW fs, NEW f
    PROVE  /\ fs[f].bad \/ Malformed(fs[f]) \/ fs[f].op \in (3..7) \cup (11..15)
                => <<1002>> \in Codes(fs, f)
           /\ fs[f].op = 0 /\ ~InMessage(fs, f) => <<1002>> \in Codes(fs, f)
           /\ fs[f].op = 2 /\ InMessage(fs, f) => <<1002>> \in Codes(fs, f)
           /\ fs[f].len > MaxPayload => <<1009>> \in Codes(fs, f)
           /\ fs[f].op = 0 /\ InMessage(fs, f) /\ Len(Joined(fs, f)) > MaxPayload
                => <<1009>> \in Codes(fs, f)
           /\ fs[f].op = 1 => <<1003>> \in Codes(fs, f)
           /\ fs[f].op = 8 /\ fs[f].len = 0 => <<1000>> \in Codes(fs, f)
           /\ fs[f].op = 8 /\ fs[f].len = 1 => <<1002>> \in Codes(fs, f)
           /\ fs[f].op = 8 /\ fs[f].len >= 2 => SubSeq(Payload(fs, f), 1, 2) \in Codes(fs, f)
<1> DEFINE K1 == On(fs[f].bad \/ Malformed(fs[f]) \/ fs[f].op \in (3..7) \cup (11..15), <<1002>>)
           K2 == On(fs[f].op = 0 /\ ~InMessage(fs, f), <<1002>>)
           K3 == On(fs[f].op = 2 /\ InMessage(fs, f), <<1002>>)
           K4 == On(fs[f].len > MaxPayload, <<1009>>)
           K5 == On(fs[f].op = 0 /\ InMessage(fs, f) /\ Len(Joined(fs, f)) > MaxPayload, <<1009>>)
           K6 == On(fs[f].op = 1, <<1003>>)
           K7 == On(fs[f].op = 8 /\ fs[f].len = 0, <<1000>>)
           K8 == On(fs[f].op = 8 /\ fs[f].len = 1, <<1002>>)
           K9 == On(fs[f].op = 8 /\ fs[f].len >= 2, SubSeq(Payload(fs, f), 1, 2))
<1>1. Codes(fs, f) = K1 \cup K2 \cup K3 \cup K4 \cup K5 \cup K6 \cup K7 \cup K8 \cup K9
  BY DEF Codes
<1> HIDE DEF K1, K2, K3, K4, K5, K6, K7, K8, K9
<1>2. /\ K1 \subseteq Codes(fs, f)
      /\ K2 \subseteq Codes(fs, f)
      /\ K3 \subseteq Codes(fs, f)
      /\ K4 \subseteq Codes(fs, f)
      /\ K5 \subseteq Codes(fs, f)
      /\ K6 \subseteq Codes(fs, f)
      /\ K7 \subseteq Codes(fs, f)
      /\ K8 \subseteq Codes(fs, f)
      /\ K9 \subseteq Codes(fs, f)
  BY <1>1
<1>3. ASSUME fs[f].bad \/ Malformed(fs[f]) \/ fs[f].op \in (3..7) \cup (11..15)
      PROVE  <<1002>> \in Codes(fs, f)
  <2>1. <<1002>> \in K1
    BY <1>3 DEF On, K1
  <2> QED
    BY <1>2, <2>1
<1>4. ASSUME fs[f].op = 0 /\ ~InMessage(fs, f)
      PROVE  <<1002>> \in Codes(fs, f)
  <2>1. <<1002>> \in K2
    BY <1>4 DEF On, K2
  <2> QED
    BY <1>2, <2>1
<1>5. ASSUME fs[f].op = 2 /\ InMessage(fs, f)
      PROVE  <<1002>> \in Codes(fs, f)
  <2>1. <<1002>> \in K3
    BY <1>5 DEF On, K3
  <2> QED
    BY <1>2, <2>1
<1>6. ASSUME fs[f].len > MaxPayload
      PROVE  <<1009>> \in Codes(fs, f)
  <2>1. <<1009>> \in K4
    BY <1>6 DEF On, K4
  <2> QED
    BY <1>2, <2>1
<1>7. ASSUME fs[f].op = 0 /\ InMessage(fs, f) /\ Len(Joined(fs, f)) > MaxPayload
      PROVE  <<1009>> \in Codes(fs, f)
  <2>1. <<1009>> \in K5
    BY <1>7 DEF On, K5
  <2> QED
    BY <1>2, <2>1
<1>8. ASSUME fs[f].op = 1
      PROVE  <<1003>> \in Codes(fs, f)
  <2>1. <<1003>> \in K6
    BY <1>8 DEF On, K6
  <2> QED
    BY <1>2, <2>1
<1>9. ASSUME fs[f].op = 8 /\ fs[f].len = 0
      PROVE  <<1000>> \in Codes(fs, f)
  <2>1. <<1000>> \in K7
    BY <1>9 DEF On, K7
  <2> QED
    BY <1>2, <2>1
<1>10. ASSUME fs[f].op = 8 /\ fs[f].len = 1
      PROVE  <<1002>> \in Codes(fs, f)
  <2>1. <<1002>> \in K8
    BY <1>10 DEF On, K8
  <2> QED
    BY <1>2, <2>1
<1>11. ASSUME fs[f].op = 8 /\ fs[f].len >= 2
      PROVE  SubSeq(Payload(fs, f), 1, 2) \in Codes(fs, f)
  <2>1. SubSeq(Payload(fs, f), 1, 2) \in K9
    BY <1>11 DEF On, K9
  <2> QED
    BY <1>2, <2>1
<1> QED
  BY <1>3, <1>4, <1>5, <1>6, <1>7, <1>8, <1>9, <1>10, <1>11, ZenonT(40)

\* The messages and the pongs, frame by frame, are sequences.
LEMMA MeaningTypes ==
    ASSUME frames \in Seq(Frame)
    PROVE  /\ Messages \in Seq(Seq({Joined(frames, f) : f \in DOMAIN frames}))
           /\ Pongs \in Seq(Seq(Seq(Byte)))
           /\ Len(Messages) = Len(frames) /\ Len(Pongs) = Len(frames)
           /\ \A f \in 1..Len(frames) :
                Messages[f] = MessageOf(frames, f) /\ Pongs[f] = PongOf(frames, f)
<1> DEFINE N == Len(frames)   S == {Joined(frames, f) : f \in DOMAIN frames}
<1>0. N \in Nat /\ DOMAIN frames = 1..N
  OBVIOUS
<1>1. Messages = [f \in 1..N |-> MessageOf(frames, f)] /\ Pongs = [f \in 1..N |-> PongOf(frames, f)]
  BY DEF Messages, Pongs
<1>2. ASSUME NEW f \in 1..N PROVE MessageOf(frames, f) \in Seq(S) /\ PongOf(frames, f) \in Seq(Seq(Byte))
  <2>1. Joined(frames, f) \in S /\ Payload(frames, f) \in Seq(Byte)
    BY <1>0, PayloadBytes
  <2> DEFINE j == Joined(frames, f)   q == Payload(frames, f)
  <2> HIDE DEF j, q, S
  <2>2. <<j>> \in Seq(S) /\ <<q>> \in Seq(Seq(Byte))
    BY <2>1 DEF j, q
  <2>3. <<>> \in Seq(S) /\ <<>> \in Seq(Seq(Byte))
    BY EmptySeq
  <2> QED
    BY <2>2, <2>3, Zenon DEF MessageOf, PongOf, j, q
<1> HIDE DEF N, S
<1>3. Messages \in Seq(Seq(S)) /\ Len(Messages) = N
  BY <1>0, <1>1, <1>2, IsASeq
<1>4. Pongs \in Seq(Seq(Seq(Byte))) /\ Len(Pongs) = N
  BY <1>0, <1>1, <1>2, IsASeq
<1>5. \A f \in 1..N : Messages[f] = MessageOf(frames, f) /\ Pongs[f] = PongOf(frames, f)
  BY <1>1
<1> QED
  BY <1>3, <1>4, <1>5 DEF N, S

\* What the frames mean when frame x is the first that ends the connection.
LEMMA MeaningEnds ==
    ASSUME frames \in Seq(Frame), NEW x \in 1..Len(frames), Codes(frames, x) # {},
           \A g \in 1..(x - 1) : Codes(frames, g) = {}
    PROVE  /\ Meaning(frames).msgs = Joint(Messages, x - 1)
           /\ Meaning(frames).pongs = Joint(Pongs, x - 1)
           /\ Meaning(frames).codes = Codes(frames, x)
<1> DEFINE N == Len(frames)   c == x - 1
<1>0. /\ N \in Nat /\ DOMAIN frames = 1..N /\ c \in 0..N /\ c + 1 = x /\ c \in Nat
      /\ x \in DOMAIN frames
  OBVIOUS
<1>1. Good(frames) = 1..c
  <2>1. ASSUME NEW f \in 1..c PROVE f \in Good(frames)
    <3>1. f \in 1..N /\ \A g \in 1..f : g \in 1..c
      BY <1>0
    <3> QED
      BY <1>0, <3>1, Zenon DEF Good
  <2>2. ASSUME NEW f \in Good(frames) PROVE f \in 1..c
    <3>1. f \in 1..N /\ \A g \in 1..f : Codes(frames, g) = {}
      BY <1>0, Zenon DEF Good
    <3>2. x \notin 1..f
      BY <3>1, Zenon
    <3> QED
      BY <1>0, <3>1, <3>2
  <2> QED
    BY <2>1, <2>2, Zenon
<1>2. Cardinality(Good(frames)) + 1 = x /\ Good(frames) # DOMAIN frames
  <2>1. Cardinality(1..c) = c
    BY <1>0, FS_Interval
  <2>2. x \notin 1..c
    BY <1>0
  <2> QED
    BY <1>0, <1>1, <2>1, <2>2
<1>3. Meaning(frames).codes = Codes(frames, x)
  BY <1>2 DEF Meaning
<1>4. /\ Meaning(frames).msgs = FlattenSeq(Messages)
      /\ Meaning(frames).pongs = FlattenSeq(Pongs)
  BY DEF Meaning, Messages, Pongs
<1>5. ASSUME NEW f \in (c + 1)..N PROVE Messages[f] = <<>> /\ Pongs[f] = <<>>
  <2>1. f \notin Good(frames) /\ f \in 1..N
    BY <1>0, <1>1
  <2>2. Messages[f] = MessageOf(frames, f) /\ Pongs[f] = PongOf(frames, f)
    BY <2>1, MeaningTypes
  <2> QED
    BY <2>1, <2>2, Zenon DEF MessageOf, PongOf
<1>6. FlattenSeq(Messages) = Joint(Messages, c)
  <2> DEFINE S == {Joined(frames, f) : f \in DOMAIN frames}
  <2>1. Messages \in Seq(Seq(S)) /\ Len(Messages) = N
    BY MeaningTypes
  <2> HIDE DEF S, c, N
  <2> QED
    BY <1>0, <1>5, <2>1, JointBegins
<1>7. FlattenSeq(Pongs) = Joint(Pongs, c)
  <2>1. Pongs \in Seq(Seq(Seq(Byte))) /\ Len(Pongs) = N
    BY MeaningTypes
  <2> HIDE DEF c, N
  <2> QED
    BY <1>0, <1>5, <2>1, JointBegins
<1> QED
  BY <1>3, <1>4, <1>6, <1>7

\* What the first c frames give is a prefix of what all of them mean.
LEMMA MeaningBegins ==
    ASSUME frames \in Seq(Frame), NEW c \in 0..Len(frames)
    PROVE  /\ IsPrefix(Joint(Messages, c), Meaning(frames).msgs)
           /\ IsPrefix(Joint(Pongs, c), Meaning(frames).pongs)
<1> DEFINE N == Len(frames)   S == {Joined(frames, f) : f \in DOMAIN frames}
<1>0. N \in Nat /\ N \in c..N /\ N \in 0..N
  OBVIOUS
<1>1. /\ Meaning(frames).msgs = FlattenSeq(Messages)
      /\ Meaning(frames).pongs = FlattenSeq(Pongs)
  BY DEF Meaning, Messages, Pongs
<1>2. ASSUME NEW T, NEW s \in Seq(Seq(T)), Len(s) = N PROVE IsPrefix(Joint(s, c), FlattenSeq(s))
  <2>1. /\ Joint(s, N) = FlattenSeq(s) /\ Joint(s, c) \in Seq(T) /\ Joint(s, N) \in Seq(T)
    BY <1>0, <1>2, JointSteps
  <2>2. Begins(Joint(s, c), Joint(s, N))
    BY <1>0, <1>2, JointBegins
  <2>3. IsPrefix(Joint(s, c), Joint(s, N))
    BY <2>1, <2>2, BeginsIsPrefix
  <2> QED
    BY <2>1, <2>3
<1>3. Messages \in Seq(Seq(S)) /\ Len(Messages) = N /\ Pongs \in Seq(Seq(Seq(Byte))) /\ Len(Pongs) = N
  BY MeaningTypes
<1> HIDE DEF N, S
<1>4. IsPrefix(Joint(Messages, c), FlattenSeq(Messages))
  BY <1>2, <1>3
<1>5. IsPrefix(Joint(Pongs, c), FlattenSeq(Pongs))
  BY <1>2, <1>3
<1> QED
  BY <1>1, <1>4, <1>5

-----------------------------------------------------------------------------
(* The output.                                                             *)

\* The frames done with.
LEMMA DoneIs ==
    ASSUME PlaceInv
    PROVE  /\ Done \in 0..Len(frames) /\ frames \in Seq(Frame)
           /\ pc = "payload" => /\ cur \in 1..Len(frames) /\ Done = cur - 1 /\ Done + 1 = cur
           /\ pc # "payload" => Done = cur
<1>1. frames \in Seq(Frame) /\ cur \in 0..Len(frames) /\ (pc = "payload" => cur # 0)
  BY DEF PlaceInv, ReaderTypeOK, AtPayload
<1> QED
  BY <1>1 DEF Done

\* The beginning.
LEMMA OutInit ==
    ASSUME Init
    PROVE  OutInv
<1>1. frames \in Seq(Frame)
  BY InputsType DEF Init
<1>2. /\ want = Meaning(frames) /\ out = [msgs |-> <<>>, pongs |-> <<>>, code |-> <<>>]
      /\ frag = [op |-> 0, data |-> <<>>] /\ pc = "header" /\ cur = 0 /\ conn = "open"
  BY DEF Init, NoFrag
<1>3. DOMAIN out = {"msgs", "pongs", "code"} /\ DOMAIN frag = {"op", "data"} /\ frag.op = 0
  BY <1>2
<1>4. out.msgs = <<>> /\ out.pongs = <<>> /\ out.code = <<>>
  BY <1>2
<1>5. Done = 0 /\ Done + 1 = 1
  BY <1>2 DEF Done
<1>6. Joint(Messages, 0) = <<>> /\ Joint(Pongs, 0) = <<>>
  BY <1>1, MeaningTypes, JointSteps
<1>7. 1..0 = {} /\ 0 \in 0..0
  OBVIOUS
<1>8. ~InMessage(frames, 1)
  BY InMessageFirst
<1>9. GoingOn
  BY <1>2, <1>3, <1>4, <1>5, <1>6, <1>7, <1>8, Zenon DEF GoingOn
<1> QED
  BY <1>2, <1>3, <1>9 DEF OutInv

\* The steps between two frames, and those that a payload takes.
LEMMA OutStays ==
    ASSUME OutInv, pc # "done", pc' # "done", Done' = Done, UNCHANGED <<frames, want, out, frag>>,
           conn' = conn \/ conn = "open"
    PROVE  OutInv'
<1>1. GoingOn
  BY DEF OutInv
<1>2. UNCHANGED <<Messages, Pongs>>
  BY DEF Messages, Pongs
<1>3. PICK p \in 0..Done : out.pongs = Joint(Pongs, p) /\ (conn = "closed" \/ p = Done)
  BY <1>1 DEF GoingOn
<1>4. conn' = "closed" \/ p = Done
  BY <1>3
<1>5. \E q \in 0..Done' : out'.pongs = Joint(Pongs', q) /\ (conn' = "closed" \/ q = Done')
  BY <1>2, <1>3, <1>4, Zenon
<1>6. /\ out'.code = <<>> /\ \A g \in 1..Done' : Codes(frames', g) = {}
      /\ out'.msgs = Joint(Messages', Done')
  BY <1>1, <1>2 DEF GoingOn
<1>7. frag'.op # 0 <=> InMessage(frames', Done' + 1)
  BY <1>1, Zenon DEF GoingOn
<1>8. frag'.op # 0 =>
        \E g \in 1..Done' : Started(frames', g, Done') /\ frag'.data = Span(frames', g, Done')
  BY <1>1, Zenon DEF GoingOn
<1>9. GoingOn'
  BY <1>5, <1>6, <1>7, <1>8, Zenon DEF GoingOn
<1> QED
  BY <1>9 DEF OutInv

\* The steps that end readLoop without a code, or with one that the next frame justifies.
LEMMA OutEnds ==
    ASSUME PlaceInv, PlaceInv', OutInv, pc # "done", pc' = "done",
           UNCHANGED <<frames, want, conn, frag>>, DOMAIN out' = {"msgs", "pongs", "code"},
           out'.msgs = out.msgs, out'.pongs = out.pongs,
           \/ out'.code = out.code
           \/ /\ Done + 1 \in 1..Len(frames) /\ conn # "closed"
              /\ out'.code \in Codes(frames, Done + 1)
    PROVE  OutInv'
<1> DEFINE D == Done   x == D + 1
<1>1. GoingOn /\ want = Meaning(frames) /\ DOMAIN out = {"msgs", "pongs", "code"}
  BY DEF OutInv
<1>2. D \in 0..Len(frames) /\ frames \in Seq(Frame)
  BY DoneIs
<1>3. PICK p \in 0..D : out.pongs = Joint(Pongs, p) /\ (conn = "closed" \/ p = D)
  BY <1>1 DEF GoingOn
<1>4. out.msgs = Joint(Messages, D) /\ out.code = <<>> /\ \A g \in 1..D : Codes(frames, g) = {}
  BY <1>1 DEF GoingOn
<1>5. p \in 0..Len(frames)
  BY <1>2, <1>3
<1>6. IsPrefix(out.msgs, want.msgs) /\ IsPrefix(out.pongs, want.pongs)
  BY <1>1, <1>2, <1>3, <1>4, <1>5, MeaningBegins
<1>7. pc' \in {"header", "payload", "done"} /\ r' <= w' /\ w' <= BufSize
  BY DEF PlaceInv, ReaderTypeOK
<1> HIDE DEF D, x
<1>8. CASE out'.code = out.code
  <2>1. Reassembled'
    BY <1>4, <1>6, <1>7, <1>8, Zenon DEF Reassembled
  <2> QED
    BY <1>8, <2>1 DEF OutInv
<1>9. CASE out'.code # out.code
  <2>1. out'.code \in Codes(frames, x)
    BY <1>9 DEF x, D
  <2>2. x \in 1..Len(frames) /\ x - 1 = D /\ conn # "closed"
    BY <1>2, <1>9 DEF x, D
  <2>4. /\ want.msgs = Joint(Messages, D) /\ want.pongs = Joint(Pongs, D)
        /\ want.codes = Codes(frames, x)
    <3>1. Codes(frames, x) # {} /\ \A g \in 1..(x - 1) : Codes(frames, g) = {}
      BY <1>4, <2>1, <2>2
    <3>2. /\ Meaning(frames).msgs = Joint(Messages, x - 1)
          /\ Meaning(frames).pongs = Joint(Pongs, x - 1)
          /\ Meaning(frames).codes = Codes(frames, x)
      BY <1>2, <2>2, <3>1, MeaningEnds
    <3> QED
      BY <1>1, <2>2, <3>2
  <2>5. out.pongs = want.pongs /\ out.msgs = want.msgs
    BY <1>3, <1>4, <2>2, <2>4
  <2>6. Complete'
    BY <2>1, <2>4, <2>5, Zenon DEF Complete
  <2>7. Reassembled'
    BY <1>6, <1>7, <2>6, Zenon DEF Reassembled
  <2> QED
    BY <2>7 DEF OutInv
<1> QED
  BY <1>8, <1>9

\* What readLoop knows of a frame whose payload it has.
LEMMA WholeFacts ==
    ASSUME PlaceInv, pc = "payload", Missing = 0
    PROVE  LET x == frames[cur] IN
           /\ frames \in Seq(Frame) /\ cur \in 1..Len(frames) /\ x \in Frame
           /\ x.fin \in BOOLEAN /\ x.len \in Nat
           /\ ~x.bad /\ ~Malformed(x) /\ ~(x.len > MaxPayload)
           /\ dst \in Seq(Byte) /\ Len(dst) = x.len /\ dst = Payload(frames, cur)
<1> DEFINE x == frames[cur]
<1>1. cur \in 1..Len(frames) /\ frames \in Seq(Frame) /\ dst \in Seq(Byte)
  BY DoneIs DEF PlaceInv, ReaderTypeOK
<1>2. x \in Frame
  BY <1>1
<1>3. x.fin \in BOOLEAN /\ x.len \in Nat /\ MaxPayload \in Nat /\ Len(dst) \in Nat
  BY <1>1, <1>2, FrameLengths, SizesType
<1>4. /\ ~x.bad /\ ~Malformed(x) /\ x.len <= MaxPayload
      /\ dst = Bytes(cur, HeaderLen(x) + 1, HeaderLen(x) + Len(dst)) /\ x.len - Len(dst) = 0
  BY DEF PlaceInv, AtPayload, Missing
<1> HIDE DEF x
<1>5. Len(dst) = x.len /\ ~(x.len > MaxPayload)
  BY <1>3, <1>4
<1>6. dst = Payload(frames, cur)
  BY <1>4, <1>5 DEF Payload, x
<1> QED
  BY <1>1, <1>2, <1>3, <1>4, <1>5, <1>6 DEF x

\* The steps that go on after a frame that is fine.
LEMMA OutGoesOn ==
    ASSUME PlaceInv, OutInv, pc = "payload", pc' = "header", Fine(frames, cur),
           UNCHANGED <<frames, want, conn, cur>>,
           DOMAIN out' = {"msgs", "pongs", "code"}, DOMAIN frag' = {"op", "data"},
           out'.code = out.code, out'.msgs = out.msgs \o MessageOf(frames, cur),
           out'.pongs = IF conn = "closed" THEN out.pongs ELSE out.pongs \o PongOf(frames, cur),
           frag'.op # 0 <=> InMessage(frames, cur + 1),
           frag'.op # 0 =>
             \E g \in 1..cur : Started(frames, g, cur) /\ frag'.data = Span(frames, g, cur)
    PROVE  OutInv'
<1> DEFINE D == Done   N == Len(frames)   S == {Joined(frames, f) : f \in DOMAIN frames}
<1>1. GoingOn /\ want = Meaning(frames)
  BY DEF OutInv
<1>2. frames \in Seq(Frame) /\ cur \in 1..N /\ D = cur - 1 /\ N \in Nat
  BY DoneIs
<1>3. /\ Messages \in Seq(Seq(S)) /\ Len(Messages) = N /\ Messages[cur] = MessageOf(frames, cur)
      /\ Pongs \in Seq(Seq(Seq(Byte))) /\ Len(Pongs) = N /\ Pongs[cur] = PongOf(frames, cur)
  BY <1>2, MeaningTypes
<1>4. D \in 0..(N - 1) /\ D + 1 = cur /\ 0..D \subseteq 0..cur /\ cur \in 0..cur
  BY <1>2
<1>5. Done' = cur /\ UNCHANGED <<Messages, Pongs>>
  BY DEF Done, Messages, Pongs
<1> HIDE DEF D, N, S
<1>6. Joint(Messages, cur) = Joint(Messages, D) \o MessageOf(frames, cur)
  BY <1>3, <1>4, JointSteps
<1>7. Joint(Pongs, cur) = Joint(Pongs, D) \o PongOf(frames, cur)
  BY <1>3, <1>4, JointSteps
<1>8. out.code = <<>> /\ out.msgs = Joint(Messages, D) /\ \A g \in 1..D : Codes(frames, g) = {}
  BY <1>1 DEF GoingOn, D
<1>9. \A g \in 1..cur : Codes(frames, g) = {}
  <2>1. Codes(frames, cur) = {}
    BY FineHasNoCode
  <2>2. \A g \in 1..cur : g \in 1..D \/ g = cur
    BY <1>2, <1>4
  <2> QED
    BY <1>8, <2>1, <2>2
<1>10. \E p \in 0..cur : out'.pongs = Joint(Pongs, p) /\ (conn = "closed" \/ p = cur)
  <2>1. PICK p \in 0..D : out.pongs = Joint(Pongs, p) /\ (conn = "closed" \/ p = D)
    BY <1>1 DEF GoingOn, D
  <2>2. CASE conn = "closed"
    BY <1>4, <2>1, <2>2, Zenon
  <2>3. CASE conn # "closed"
    BY <1>4, <1>7, <2>1, <2>3, Zenon
  <2> QED
    BY <2>2, <2>3
<1>11. out'.code = <<>> /\ out'.msgs = Joint(Messages', Done')
  BY <1>5, <1>6, <1>8
<1>12. \A g \in 1..Done' : Codes(frames', g) = {}
  BY <1>5, <1>9
<1>13. \E p \in 0..Done' : out'.pongs = Joint(Pongs', p) /\ (conn' = "closed" \/ p = Done')
  BY <1>5, <1>10, Zenon
<1>14. frag'.op # 0 <=> InMessage(frames', Done' + 1)
  BY <1>5, Zenon
<1>15. frag'.op # 0 =>
         \E g \in 1..Done' : Started(frames', g, Done') /\ frag'.data = Span(frames', g, Done')
  BY <1>5, Zenon
<1>16. GoingOn'
  BY <1>11, <1>12, <1>13, <1>14, <1>15, Zenon DEF GoingOn
<1> QED
  BY <1>1, <1>16 DEF OutInv

\* A frame is good when it and those before it are fine.
LEMMA CurIsGood ==
    ASSUME PlaceInv, OutInv, pc = "payload", Fine(frames, cur)
    PROVE  cur \in Good(frames)
<1>1. \A g \in 1..Done : Codes(frames, g) = {}
  BY DEF OutInv, GoingOn
<1>2. frames \in Seq(Frame) /\ cur \in 1..Len(frames) /\ Done = cur - 1
  BY DoneIs
<1>3. Codes(frames, cur) = {}
  BY FineHasNoCode
<1>4. cur \in DOMAIN frames /\ \A g \in 1..cur : g \in 1..Done \/ g = cur
  BY <1>2
<1> QED
  BY <1>1, <1>3, <1>4, Zenon DEF Good

\* Whether a message is in progress, and what it has so far.
LEMMA FragmentIs ==
    ASSUME PlaceInv, OutInv, pc = "payload"
    PROVE  /\ frag.op # 0 <=> InMessage(frames, cur)
           /\ frag.op # 0 =>
                \E g \in 1..(cur - 1) :
                   /\ Started(frames, g, cur - 1) /\ frag.data = Span(frames, g, cur - 1)
<1>1. GoingOn
  BY DEF OutInv
<1>2. Done = cur - 1 /\ Done + 1 = cur
  BY DoneIs
<1> QED
  BY <1>1, <1>2, Zenon DEF GoingOn

\* The next frame of a message that is no start of one.
LEMMA StartedNext ==
    ASSUME NEW fs, NEW f \in Nat, NEW g \in 1..(f - 1), Started(fs, g, f - 1), fs[f].op # 2
    PROVE  g \in 1..f /\ Started(fs, g, f)
<1>1. g \in 1..f /\ \A h \in g + 1..f : h \in g + 1..(f - 1) \/ h = f
  OBVIOUS
<1> QED
  BY <1>1, Zenon DEF Started

\* The message with the frame whose payload was read.
LEMMA JoinedIs ==
    ASSUME PlaceInv, OutInv, pc = "payload", Missing = 0, frames[cur].op # 2, frag.op # 0
    PROVE  /\ frag.data \in Seq(Byte)
           /\ \E g \in 1..cur :
                /\ Started(frames, g, cur) /\ FirstOf(frames, cur) = g
                /\ Span(frames, g, cur) =
                     frag.data \o (IF IsData(frames[cur]) THEN dst ELSE <<>>)
<1>1. frames \in Seq(Frame) /\ cur \in 1..Len(frames) /\ dst = Payload(frames, cur)
  BY WholeFacts
<1>2. PICK g \in 1..(cur - 1) : Started(frames, g, cur - 1) /\ frag.data = Span(frames, g, cur - 1)
  BY FragmentIs
<1>3. g \in 1..cur /\ Started(frames, g, cur)
  BY <1>1, <1>2, StartedNext
<1>4. FirstOf(frames, cur) = g
  BY <1>1, <1>3, FirstOfIs DEF Started
<1> DEFINE e == cur - 1
<1>5. e \in Nat /\ e + 1 = cur /\ e + 1 <= Len(frames) /\ g \in 1..(e + 1)
  BY <1>1, <1>3
<1> HIDE DEF e
<1>6. /\ Span(frames, g, e) \in Seq(Byte)
      /\ Span(frames, g, e + 1) = Span(frames, g, e) \o
           (IF IsData(frames[e + 1]) THEN Payload(frames, e + 1) ELSE <<>>)
  BY <1>1, <1>5, SpanGrows
<1>7. frag.data = Span(frames, g, e)
  BY <1>2 DEF e
<1> QED
  BY <1>1, <1>3, <1>4, <1>5, <1>6, <1>7, Zenon

\* The length of the message with a continuation frame.
LEMMA JoinedLength ==
    ASSUME PlaceInv, OutInv, pc = "payload", Missing = 0, frames[cur].op = 0, frag.op # 0
    PROVE  /\ Joined(frames, cur) = frag.data \o dst
           /\ Len(Joined(frames, cur)) = Len(frag.data) + frames[cur].len
           /\ Len(frag.data) \in Nat
<1>1. frag.data \in Seq(Byte) /\ IsData(frames[cur])
  BY JoinedIs DEF IsData
<1>2. dst \in Seq(Byte) /\ Len(dst) = frames[cur].len
  BY WholeFacts
<1>3. Joined(frames, cur) = frag.data \o dst
  BY <1>1, JoinedIs DEF Joined
<1>4. Len(frag.data \o dst) = Len(frag.data) + Len(dst) /\ Len(frag.data) \in Nat
  BY <1>1, <1>2
<1> QED
  BY <1>2, <1>3, <1>4

\* One more at the end of what is out, or nothing.
LEMMA OutAppends ==
    ASSUME PlaceInv, OutInv, pc = "payload"
    PROVE  /\ out.msgs \o <<>> = out.msgs /\ out.pongs \o <<>> = out.pongs
           /\ Append(out.msgs, Joined(frames, cur)) = out.msgs \o <<Joined(frames, cur)>>
           /\ Append(out.pongs, Payload(frames, cur)) = out.pongs \o <<Payload(frames, cur)>>
<1> DEFINE S == {Joined(frames, f) : f \in DOMAIN frames}   N == Len(frames)
<1>1. GoingOn
  BY DEF OutInv
<1>2. Done \in 0..N /\ cur \in 1..N /\ N \in Nat /\ frames \in Seq(Frame)
  BY DoneIs
<1>3. PICK p \in 0..Done : out.pongs = Joint(Pongs, p)
  BY <1>1 DEF GoingOn
<1>4. p \in 0..N /\ cur \in DOMAIN frames
  BY <1>2, <1>3
<1>5. /\ Messages \in Seq(Seq(S)) /\ Len(Messages) = N
      /\ Pongs \in Seq(Seq(Seq(Byte))) /\ Len(Pongs) = N
  BY <1>2, MeaningTypes
<1>6. Joined(frames, cur) \in S /\ Payload(frames, cur) \in Seq(Byte)
  BY <1>2, <1>4, PayloadBytes
<1> HIDE DEF S, N
<1>7. out.msgs \in Seq(S)
  BY <1>1, <1>2, <1>5, JointSteps DEF GoingOn
<1>8. out.pongs \in Seq(Seq(Byte))
  BY <1>3, <1>4, <1>5, JointSteps
<1>9. ASSUME NEW T, NEW s \in Seq(T), NEW e \in T
      PROVE  s \o <<>> = s /\ Append(s, e) = s \o <<e>>
  OBVIOUS
<1> QED
  BY <1>6, <1>7, <1>8, <1>9

\* A continuation frame.
LEMMA OutContinue ==
    ASSUME PlaceInv, OutInv, Continue
    PROVE  OutInv'
<1> DEFINE x == frames[cur]   data == frag.data \o dst
<1>0. /\ pc = "payload" /\ Missing = 0 /\ x.op = 0 /\ frag.op # 0 /\ ~TooLong /\ pc' = "header"
      /\ UNCHANGED <<frames, want, conn, cur>>
  BY DEF Continue, Whole, Handled
<1>1. out' = IF x.fin THEN [out EXCEPT !.msgs = Append(out.msgs, data)] ELSE out
  BY DEF Continue, Fin, Msgs
<1>2. frag' = IF x.fin THEN NoFrag ELSE [frag EXCEPT !.data = data]
  BY DEF Continue, Fin, AfterFinal
<1>3. DOMAIN out = {"msgs", "pongs", "code"} /\ DOMAIN frag = {"op", "data"} /\ GoingOn
  BY <1>0 DEF OutInv
<1>4. /\ x.fin \in BOOLEAN /\ ~x.bad /\ ~Malformed(x) /\ ~(x.len > MaxPayload) /\ x.len \in Nat
      /\ cur \in 1..Len(frames) /\ frames \in Seq(Frame)
  BY <1>0, WholeFacts
<1>5. InMessage(frames, cur)
  BY <1>0, FragmentIs
<1>6. Joined(frames, cur) = data /\ ~(Len(Joined(frames, cur)) > MaxPayload)
  <2>1. /\ Joined(frames, cur) = data /\ Len(Joined(frames, cur)) = Len(frag.data) + x.len
    BY <1>0, JoinedLength
  <2> QED
    BY <1>0, <2>1 DEF TooLong
<1>7. Fine(frames, cur)
  <2>1. x.op # 2 /\ x.op \in {0, 2, 9, 10}
    BY <1>0
  <2> QED
    BY <1>4, <1>5, <1>6, <2>1, Zenon DEF Fine
<1>8. cur \in Good(frames) /\ IsData(x)
  BY <1>0, <1>7, CurIsGood DEF IsData
<1>9. /\ MessageOf(frames, cur) = IF x.fin THEN <<data>> ELSE <<>>
      /\ PongOf(frames, cur) = <<>>
  <2>1. MessageOf(frames, cur) = IF x.fin THEN <<data>> ELSE <<>>
    BY <1>6, <1>8, Zenon DEF MessageOf
  <2>2. x.op # 9
    BY <1>0
  <2>3. PongOf(frames, cur) = <<>>
    BY <2>2, Zenon DEF PongOf
  <2> QED
    BY <2>1, <2>3
<1>10. /\ out.msgs \o <<>> = out.msgs /\ out.pongs \o <<>> = out.pongs
       /\ Append(out.msgs, data) = out.msgs \o <<data>>
  BY <1>0, <1>6, OutAppends
<1>11. PICK g \in 1..cur : Started(frames, g, cur) /\ Span(frames, g, cur) = data
  <2>1. x.op # 2
    BY <1>0
  <2> QED
    BY <1>0, <1>8, <2>1, JoinedIs
<1>12. InMessage(frames, cur + 1) <=> ~x.fin
  <2>1. cur \in Nat /\ cur # 0
    BY <1>4
  <2> QED
    BY <1>4, <1>8, <2>1, InMessageNext
<1> HIDE DEF data
<1>13. CASE x.fin
  <2>1. out' = [out EXCEPT !.msgs = Append(out.msgs, data)] /\ frag' = NoFrag
    BY <1>1, <1>2, <1>13, Zenon
  <2>2. /\ DOMAIN out' = {"msgs", "pongs", "code"} /\ out'.msgs = Append(out.msgs, data)
        /\ out'.pongs = out.pongs /\ out'.code = out.code
    BY <1>3, <2>1
  <2>3. DOMAIN frag' = {"op", "data"} /\ frag'.op = 0
    BY <2>1 DEF NoFrag
  <2>4. out'.msgs = out.msgs \o MessageOf(frames, cur)
    BY <1>9, <1>10, <1>13, <2>2, Zenon
  <2>5. out'.pongs = IF conn = "closed" THEN out.pongs ELSE out.pongs \o PongOf(frames, cur)
    BY <1>9, <1>10, <2>2, Zenon
  <2>6. ~InMessage(frames, cur + 1)
    BY <1>12, <1>13, Zenon
  <2> QED
    BY <1>0, <1>7, <2>2, <2>3, <2>4, <2>5, <2>6, OutGoesOn
<1>14. CASE ~x.fin
  <2>1. out' = out /\ frag' = [frag EXCEPT !.data = data]
    BY <1>1, <1>2, <1>14, Zenon
  <2>2. DOMAIN frag' = {"op", "data"} /\ frag'.op = frag.op /\ frag'.data = data
    BY <1>3, <2>1
  <2>3. out'.msgs = out.msgs \o MessageOf(frames, cur)
    BY <1>9, <1>10, <1>14, <2>1, Zenon
  <2>4. out'.pongs = IF conn = "closed" THEN out.pongs ELSE out.pongs \o PongOf(frames, cur)
    BY <1>9, <1>10, <2>1, Zenon
  <2>5. InMessage(frames, cur + 1) /\ frag'.op # 0
    BY <1>0, <1>12, <1>14, <2>2, Zenon
  <2>6. \E h \in 1..cur : Started(frames, h, cur) /\ frag'.data = Span(frames, h, cur)
    BY <1>11, <2>2, Zenon
  <2>7. DOMAIN out' = {"msgs", "pongs", "code"} /\ out'.code = out.code
    BY <1>3, <2>1
  <2> QED
    BY <1>0, <1>7, <2>2, <2>3, <2>4, <2>5, <2>6, <2>7, OutGoesOn
<1> QED
  BY <1>4, <1>13, <1>14

\* A binary frame outside a message.
LEMMA OutBinary ==
    ASSUME PlaceInv, OutInv, First \/ (\E keep \in BOOLEAN : Single(keep))
    PROVE  OutInv'
<1> DEFINE x == frames[cur]
<1>0. /\ pc = "payload" /\ Missing = 0 /\ x.op = 2 /\ frag.op = 0 /\ pc' = "header"
      /\ UNCHANGED <<frames, want, conn, cur>>
  BY DEF First, Single, Whole, Handled
<1>3. DOMAIN out = {"msgs", "pongs", "code"} /\ DOMAIN frag = {"op", "data"}
  BY <1>0 DEF OutInv
<1>4. /\ x.fin \in BOOLEAN /\ ~x.bad /\ ~Malformed(x) /\ ~(x.len > MaxPayload) /\ x.len \in Nat
      /\ cur \in 1..Len(frames) /\ frames \in Seq(Frame) /\ dst = Payload(frames, cur)
  BY <1>0, WholeFacts
<1>5. ~InMessage(frames, cur) /\ IsData(x) /\ x.op # 0 /\ x.op # 9 /\ x.op \in {0, 2, 9, 10}
  BY <1>0, FragmentIs DEF IsData
<1>7. Fine(frames, cur)
  BY <1>4, <1>5, Zenon DEF Fine
<1>8. cur \in Good(frames)
  BY <1>0, <1>7, CurIsGood
<1>9. Started(frames, cur, cur) /\ cur \in 1..cur /\ cur \in Nat /\ cur # 0
  <2>1. cur \in 1..cur /\ cur \in Nat /\ cur # 0 /\ cur + 1..cur = {}
    BY <1>4
  <2> QED
    BY <1>0, <2>1 DEF Started
<1>10. Span(frames, cur, cur) = dst /\ Joined(frames, cur) = dst
  <2>1. Span(frames, cur, cur) = dst
    BY <1>4, <1>5, SpanOfOne
  <2>2. FirstOf(frames, cur) = cur
    BY <1>9, FirstOfIs DEF Started
  <2> QED
    BY <2>1, <2>2 DEF Joined
<1>11. /\ MessageOf(frames, cur) = IF x.fin THEN <<dst>> ELSE <<>>
       /\ PongOf(frames, cur) = <<>>
  <2>1. MessageOf(frames, cur) = IF x.fin THEN <<dst>> ELSE <<>>
    BY <1>5, <1>8, <1>10, Zenon DEF MessageOf
  <2>2. PongOf(frames, cur) = <<>>
    BY <1>5, Zenon DEF PongOf
  <2> QED
    BY <2>1, <2>2
<1>12. InMessage(frames, cur + 1) <=> ~x.fin
  BY <1>4, <1>5, <1>9, InMessageNext
<1>13. /\ out.msgs \o <<>> = out.msgs /\ out.pongs \o <<>> = out.pongs
       /\ Append(out.msgs, dst) = out.msgs \o <<dst>>
  BY <1>0, <1>10, OutAppends
<1>14. CASE First
  <2>1. ~x.fin /\ frag' = [op |-> 2, data |-> dst] /\ out' = out
    BY <1>14 DEF First, Fin
  <2>2. DOMAIN frag' = {"op", "data"} /\ frag'.op # 0 /\ frag'.data = dst
    BY <2>1
  <2>3. out'.msgs = out.msgs \o MessageOf(frames, cur)
    BY <1>11, <1>13, <2>1, Zenon
  <2>4. out'.pongs = IF conn = "closed" THEN out.pongs ELSE out.pongs \o PongOf(frames, cur)
    BY <1>11, <1>13, <2>1, Zenon
  <2>5. InMessage(frames, cur + 1)
    BY <1>12, <2>1, Zenon
  <2>6. \E h \in 1..cur : Started(frames, h, cur) /\ frag'.data = Span(frames, h, cur)
    BY <1>9, <1>10, <2>2, Zenon
  <2>7. DOMAIN out' = {"msgs", "pongs", "code"} /\ out'.code = out.code
    BY <1>3, <2>1
  <2> QED
    BY <1>0, <1>7, <2>2, <2>3, <2>4, <2>5, <2>6, <2>7, OutGoesOn
<1>15. CASE \E keep \in BOOLEAN : Single(keep)
  <2>1. x.fin /\ frag' = frag /\ out' = [out EXCEPT !.msgs = Append(out.msgs, dst)]
    BY <1>15 DEF Single, Fin, Msgs
  <2>2. /\ DOMAIN out' = {"msgs", "pongs", "code"} /\ out'.msgs = Append(out.msgs, dst)
        /\ out'.pongs = out.pongs /\ out'.code = out.code
    BY <1>3, <2>1
  <2>3. DOMAIN frag' = {"op", "data"} /\ frag'.op = 0
    BY <1>0, <1>3, <2>1
  <2>4. out'.msgs = out.msgs \o MessageOf(frames, cur)
    BY <1>11, <1>13, <2>1, <2>2, Zenon
  <2>5. out'.pongs = IF conn = "closed" THEN out.pongs ELSE out.pongs \o PongOf(frames, cur)
    BY <1>11, <1>13, <2>2, Zenon
  <2>6. ~InMessage(frames, cur + 1)
    BY <1>12, <2>1, Zenon
  <2> QED
    BY <1>0, <1>7, <2>2, <2>3, <2>4, <2>5, <2>6, OutGoesOn
<1> QED
  BY <1>14, <1>15

\* A ping or a pong, between two messages or inside one.
LEMMA OutControl ==
    ASSUME PlaceInv, OutInv, Ping \/ Pong
    PROVE  OutInv'
<1> DEFINE x == frames[cur]
<1>0. /\ pc = "payload" /\ Missing = 0 /\ pc' = "header"
      /\ UNCHANGED <<frames, want, conn, cur, frag>>
  BY DEF Ping, Pong, Whole, Handled
<1>1. (Ping /\ x.op = 9) \/ (Pong /\ x.op = 10)
  BY DEF Ping, Pong, Whole
<1>2. x.op # 0 /\ x.op # 2 /\ x.op \in {0, 2, 9, 10} /\ ~IsData(x)
  BY <1>1 DEF IsData
<1>3. DOMAIN out = {"msgs", "pongs", "code"} /\ DOMAIN frag = {"op", "data"}
  BY <1>0 DEF OutInv
<1>4. /\ x.fin \in BOOLEAN /\ ~x.bad /\ ~Malformed(x) /\ ~(x.len > MaxPayload)
      /\ cur \in 1..Len(frames) /\ frames \in Seq(Frame) /\ dst = Payload(frames, cur)
  BY <1>0, WholeFacts
<1>5. Fine(frames, cur)
  BY <1>2, <1>4, Zenon DEF Fine
<1>6. cur \in Good(frames) /\ cur \in Nat /\ cur # 0
  BY <1>0, <1>4, <1>5, CurIsGood
<1>7. MessageOf(frames, cur) = <<>>
  BY <1>2, Zenon DEF MessageOf
<1>8. PongOf(frames, cur) = IF x.op = 9 THEN <<dst>> ELSE <<>>
  BY <1>4, <1>6, Zenon DEF PongOf
<1>9. /\ out.msgs \o <<>> = out.msgs /\ out.pongs \o <<>> = out.pongs
      /\ Append(out.pongs, dst) = out.pongs \o <<dst>>
  BY <1>0, <1>4, OutAppends
<1>10. /\ DOMAIN out' = {"msgs", "pongs", "code"} /\ out'.msgs = out.msgs /\ out'.code = out.code
       /\ out'.pongs = IF conn = "closed" \/ x.op # 9 THEN out.pongs ELSE Append(out.pongs, dst)
  <2>1. CASE Ping /\ x.op = 9
    <3>1. out' = [out EXCEPT !["pongs"] = IF conn = "closed" THEN out.pongs
                                          ELSE Append(out.pongs, dst)]
      BY <2>1 DEF Ping, Sent
    <3> QED
      BY <1>3, <2>1, <3>1
  <2>2. CASE Pong /\ x.op = 10
    BY <1>3, <2>2 DEF Pong
  <2> QED
    BY <1>1, <2>1, <2>2
<1>11. out'.msgs = out.msgs \o MessageOf(frames, cur)
  BY <1>7, <1>9, <1>10, Zenon
<1>12. out'.pongs = IF conn = "closed" THEN out.pongs ELSE out.pongs \o PongOf(frames, cur)
  BY <1>8, <1>9, <1>10, Zenon
<1>13. frag'.op # 0 <=> InMessage(frames, cur + 1)
  <2>1. InMessage(frames, cur + 1) <=> InMessage(frames, cur)
    BY <1>2, <1>4, <1>6, InMessageNext
  <2>2. frag.op # 0 <=> InMessage(frames, cur)
    BY <1>0, FragmentIs
  <2> QED
    BY <1>0, <2>1, <2>2, Zenon
<1>14. ASSUME frag'.op # 0
       PROVE  \E g \in 1..cur : Started(frames, g, cur) /\ frag'.data = Span(frames, g, cur)
  <2>1. frag.op # 0 /\ frag' = frag
    BY <1>0, <1>14
  <2>2. frag.data \in Seq(Byte)
    BY <1>0, <1>2, <2>1, JoinedIs
  <2>3. PICK g \in 1..cur : Started(frames, g, cur) /\ Span(frames, g, cur) = frag.data \o <<>>
    BY <1>0, <1>2, <2>1, JoinedIs
  <2>4. frag.data \o <<>> = frag.data
    BY <2>2
  <2> QED
    BY <2>1, <2>3, <2>4, Zenon
<1> QED
  BY <1>0, <1>3, <1>5, <1>10, <1>11, <1>12, <1>13, <1>14, OutGoesOn

\* What a close code does to the output.
LEMMA SentCode ==
    ASSUME NEW v, OutInv, SendWSClose(v)
    PROVE  /\ DOMAIN out' = {"msgs", "pongs", "code"}
           /\ out'.msgs = out.msgs /\ out'.pongs = out.pongs
           /\ out'.code = IF conn = "closed" THEN out.code ELSE v
<1>1. DOMAIN out = {"msgs", "pongs", "code"} /\ out' = Sent("code", v)
  BY DEF OutInv, SendWSClose
<1>2. out' = [out EXCEPT !["code"] = IF conn = "closed" THEN out.code ELSE v]
  BY <1>1 DEF Sent
<1> QED
  BY <1>1, <1>2

\* The steps that end readLoop with a code for the frame that follows those done with.
LEMMA OutCodes ==
    ASSUME PlaceInv, PlaceInv', OutInv, pc # "done", pc' = "done",
           UNCHANGED <<frames, want, conn, frag>>, Done + 1 \in 1..Len(frames),
           NEW v \in Codes(frames, Done + 1), SendWSClose(v)
    PROVE  OutInv'
BY SentCode, OutEnds

\* A header that is refused.
LEMMA OutRefuses ==
    ASSUME PlaceInv, PlaceInv', OutInv, RejectStart \/ RejectHeader \/ RejectLength
    PROVE  OutInv'
<1>0. /\ pc = "header" /\ pc' = "done" /\ UNCHANGED <<frames, want, conn, frag>>
  BY DEF RejectStart, RejectHeader, RejectLength, HeaderRead
<1>1. Done = cur /\ pc # "done" /\ r \in Nat /\ w \in Nat
  BY <1>0, DoneIs DEF PlaceInv, ReaderTypeOK
<1>2. w - r >= 1
  <2>1. w - r >= 2
    BY DEF RejectStart, RejectHeader, RejectLength, HeaderRead, BadStart
  <2> QED
    BY <1>1, <2>1
<1>3. NextFrame = cur + 1 /\ cur + 1 \in 1..Len(frames)
  BY <1>0, <1>2, NextIsNext
<1>4. CASE RejectStart
  <2>1. frames[cur + 1].bad /\ SendWSClose(<<1002>>)
    BY <1>3, <1>4, Zenon DEF RejectStart, BadStart
  <2>2. <<1002>> \in Codes(frames, cur + 1)
    BY <2>1, CodesGiven
  <2> QED
    BY <1>0, <1>1, <1>3, <2>1, <2>2, OutCodes
<1>5. CASE RejectHeader
  <2>1. Malformed(frames[cur + 1]) /\ SendWSClose(<<1002>>)
    BY <1>3, <1>5, Zenon DEF RejectHeader
  <2>2. <<1002>> \in Codes(frames, cur + 1)
    BY <2>1, CodesGiven
  <2> QED
    BY <1>0, <1>1, <1>3, <2>1, <2>2, OutCodes
<1>6. CASE RejectLength
  <2>1. frames[cur + 1].len > MaxPayload /\ SendWSClose(<<1009>>)
    BY <1>3, <1>6, Zenon DEF RejectLength
  <2>2. <<1009>> \in Codes(frames, cur + 1)
    BY <2>1, CodesGiven
  <2> QED
    BY <1>0, <1>1, <1>3, <2>1, <2>2, OutCodes
<1> QED
  BY <1>4, <1>5, <1>6

\* A frame that ends the connection.
LEMMA OutStops ==
    ASSUME PlaceInv, PlaceInv', OutInv,
           Unstarted \/ Overlong \/ Interleaved \/ Text \/ CloseFrame \/ Unknown
    PROVE  OutInv'
<1> DEFINE x == frames[cur]
<1>0. /\ pc = "payload" /\ Missing = 0 /\ pc' = "done" /\ UNCHANGED <<frames, want, conn, frag>>
  BY DEF Unstarted, Overlong, Interleaved, Text, CloseFrame, Unknown, Stop, Handled, Whole
<1>1. Done + 1 = cur /\ cur \in 1..Len(frames) /\ pc # "done"
  BY <1>0, DoneIs
<1> SUFFICES \E v \in Codes(frames, cur) : SendWSClose(v)
  BY <1>0, <1>1, OutCodes
<1>2. frag.op # 0 <=> InMessage(frames, cur)
  BY <1>0, FragmentIs
<1>3. CASE Unstarted
  <2>1. x.op = 0 /\ frag.op = 0 /\ SendWSClose(<<1002>>)
    BY <1>3 DEF Unstarted, Whole, Stop
  <2> QED
    BY <1>2, <2>1, CodesGiven
<1>4. CASE Overlong
  <2>1. x.op = 0 /\ frag.op # 0 /\ TooLong /\ SendWSClose(<<1009>>)
    BY <1>4 DEF Overlong, Whole, Stop
  <2>2. Len(Joined(frames, cur)) > MaxPayload
    BY <1>0, <2>1, JoinedLength DEF TooLong
  <2> QED
    BY <1>2, <2>1, <2>2, CodesGiven
<1>5. CASE Interleaved
  <2>1. x.op = 2 /\ frag.op # 0 /\ SendWSClose(<<1002>>)
    BY <1>5 DEF Interleaved, Whole, Stop
  <2> QED
    BY <1>2, <2>1, CodesGiven
<1>6. CASE Text
  <2>1. x.op = 1 /\ SendWSClose(<<1003>>)
    BY <1>6 DEF Text, Whole, Stop
  <2> QED
    BY <2>1, CodesGiven
<1>7. CASE CloseFrame
  <2>1. x.op = 8 /\ SendWSClose(CloseCode)
    BY <1>7 DEF CloseFrame, Whole, Stop
  <2>2. x.len \in Nat /\ Len(dst) = x.len /\ dst = Payload(frames, cur)
    BY <1>0, WholeFacts
  <2>3. x.len = 0 \/ x.len = 1 \/ (x.len >= 2 /\ x.len # 0 /\ x.len # 1)
    <3> DEFINE n == x.len
    <3>1. n \in Nat
      BY <2>2
    <3> HIDE DEF n
    <3>2. n = 0 \/ n = 1 \/ (n >= 2 /\ n # 0 /\ n # 1)
      BY <3>1
    <3> QED
      BY <3>2 DEF n
  <2>4. CASE x.len = 0
    <3>1. CloseCode = <<1000>>
      BY <2>2, <2>4 DEF CloseCode
    <3> QED
      BY <2>1, <2>4, <3>1, CodesGiven
  <2>5. CASE x.len = 1
    <3>1. CloseCode = <<1002>>
      BY <2>2, <2>5 DEF CloseCode
    <3> QED
      BY <2>1, <2>5, <3>1, CodesGiven
  <2>6. CASE x.len >= 2 /\ x.len # 0 /\ x.len # 1
    <3>1. CloseCode = SubSeq(Payload(frames, cur), 1, 2)
      BY <2>2, <2>6 DEF CloseCode
    <3> QED
      BY <2>1, <2>6, <3>1, CodesGiven
  <2> QED
    BY <2>3, <2>4, <2>5, <2>6
<1>8. CASE Unknown
  <2>1. x.op \in (3..7) \cup (11..15) /\ SendWSClose(<<1002>>)
    BY <1>8 DEF Unknown, Whole, Stop
  <2> QED
    BY <2>1, CodesGiven
<1> QED
  BY <1>3, <1>4, <1>5, <1>6, <1>7, <1>8

\* Every step keeps what is out.
LEMMA OutStep ==
    ASSUME PlaceInv, PlaceInv', OutInv, [Next]_vars
    PROVE  OutInv'
<1>1. CASE \/ \E n \in 1..BufSize : ReadHeader(n)
           \/ \E n \in 1..MaxPayload : PayloadRead(n)
           \/ PayloadBuffered \/ PayloadPart
  <2>1. /\ pc' = pc /\ pc # "done" /\ UNCHANGED <<frames, want, cur, out, frag>>
        /\ conn' = conn \/ conn = "open"
    BY <1>1 DEF ReadHeader, PayloadRead, PayloadBuffered, PayloadPart
  <2>2. Done' = Done
    BY <2>1 DEF Done
  <2> QED
    BY <2>1, <2>2, OutStays
<1>2. CASE TakeHeader
  <2>1. /\ HeaderRead /\ pc = "header" /\ pc' = "payload" /\ cur' = NextFrame
        /\ UNCHANGED <<frames, want, conn, out, frag>>
    BY <1>2 DEF TakeHeader, HeaderRead
  <2>2. NextFrame = cur + 1 /\ cur \in Nat
    BY <2>1, HeaderFacts DEF PlaceInv, ReaderTypeOK
  <2>3. (cur + 1) - 1 = cur
    BY <2>2
  <2>4. Done' = Done
    BY <2>1, <2>2, <2>3 DEF Done
  <2> QED
    BY <2>1, <2>4, OutStays
<1>3. CASE ReadFails \/ PayloadFails
  <2>1. pc # "done" /\ pc' = "done" /\ UNCHANGED <<frames, want, conn, frag, out>>
    BY <1>3 DEF ReadFails, PayloadFails
  <2>2. DOMAIN out' = {"msgs", "pongs", "code"}
    BY <2>1 DEF OutInv
  <2>3. out'.msgs = out.msgs /\ out'.pongs = out.pongs /\ out'.code = out.code
    BY <2>1
  <2> QED
    BY <2>1, <2>2, <2>3, OutEnds
<1>4. CASE RejectStart \/ RejectHeader \/ RejectLength
  BY <1>4, OutRefuses
<1>5. CASE Unstarted \/ Overlong \/ Interleaved \/ Text \/ CloseFrame \/ Unknown
  BY <1>5, OutStops
<1>6. CASE Continue
  BY <1>6, OutContinue
<1>7. CASE First \/ (\E keep \in BOOLEAN : Single(keep))
  BY <1>7, OutBinary
<1>8. CASE Ping \/ Pong
  BY <1>8, OutControl
<1>9. CASE Break \/ UNCHANGED vars
  <2>1. /\ UNCHANGED <<frames, want, r, w, pc, cur, out, frag>>
        /\ conn' = conn \/ conn = "open"
    BY <1>9 DEF Break, vars
  <2>2. Done' = Done
    BY <2>1 DEF Done
  <2>3. CASE pc = "done"
    <3>1. Reassembled /\ want = Meaning(frames) /\ DOMAIN out = {"msgs", "pongs", "code"}
          /\ DOMAIN frag = {"op", "data"}
      BY <2>3 DEF OutInv
    <3>2. conn' # "closed" => conn # "closed"
      BY <2>1
    <3>3. Reassembled'
      BY <2>1, <3>1, <3>2, Zenon DEF Reassembled, Complete
    <3> QED
      BY <2>1, <2>3, <3>1, <3>3 DEF OutInv
  <2>4. CASE pc # "done"
    BY <2>1, <2>2, <2>4, OutStays
  <2> QED
    BY <2>3, <2>4
<1> QED
  BY <1>1, <1>2, <1>3, <1>4, <1>5, <1>6, <1>7, <1>8, <1>9 DEF Next, Reader

\* Whatever the frames, the size of the buffer and the sizes of the Reads, the messages and
\* pongs of readLoop are a prefix of those the frames mean, and a close code is sent only
\* when all of them are out, for a reason that the next frame gives.
THEOREM FramesReassembled == Spec => []Reassembled
<1> DEFINE Inv == PlaceInv /\ OutInv
<1>1. Init => Inv
  BY PlaceInit, OutInit
<1>2. Inv /\ [Next]_vars => Inv'
  BY PlaceStep, OutStep
<1>3. Inv => Reassembled
  <2> SUFFICES ASSUME Inv, pc # "done" PROVE Reassembled
    BY DEF OutInv
  <2>1. GoingOn /\ want = Meaning(frames)
    BY DEF OutInv
  <2>2. pc \in {"header", "payload", "done"} /\ r <= w /\ w <= BufSize
    BY DEF PlaceInv, ReaderTypeOK
  <2>3. Done \in 0..Len(frames) /\ frames \in Seq(Frame)
    BY DoneIs
  <2>4. PICK p \in 0..Done : out.pongs = Joint(Pongs, p)
    BY <2>1 DEF GoingOn
  <2>5. p \in 0..Len(frames) /\ out.msgs = Joint(Messages, Done) /\ out.code = <<>>
    BY <2>1, <2>3 DEF GoingOn
  <2>6. IsPrefix(out.msgs, want.msgs) /\ IsPrefix(out.pongs, want.pongs)
    BY <2>1, <2>3, <2>4, <2>5, MeaningBegins
  <2> QED
    BY <2>2, <2>5, <2>6, Zenon DEF Reassembled
<1> QED
  BY <1>1, <1>2, <1>3, PTL DEF Spec
=============================================================================
