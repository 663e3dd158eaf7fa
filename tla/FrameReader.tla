---------------------------- MODULE FrameReader ----------------------------
(***************************************************************************)
(* frameReader and readLoop: how the bytes of a connection, in pieces of   *)
(* any size, become frames, and frames become messages, pongs and a close  *)
(* code. A byte is the name of its place in a frame; what it encodes is in *)
(* "frames". The mask and the layout of the length are left out, the       *)
(* length of the header is not.                                            *)
(***************************************************************************)
EXTENDS Integers, Sequences, FiniteSets, SequencesExt

CONSTANTS Inputs,      \* sequences of frames a client may send
          BufSize,     \* readFrameBufSize
          MaxPayload,  \* c.maxPayloadSize()
          MaxControl   \* 125, the longest payload of a control frame

\* A frame: opcode, fin, a bit that is wrong (rsv or no mask), the bytes of extended length,
\* the length of the payload, and whether a 64-bit length has its top bit set.
Frame == [op : 0..15, fin : BOOLEAN, bad : BOOLEAN, ext : {0, 2, 8}, len : Nat, top : BOOLEAN]

ASSUME InputsType == Inputs \subseteq Seq(Frame)
ASSUME SizesType == BufSize \in Nat /\ MaxPayload \in Nat /\ MaxControl \in Nat

VARIABLES frames,    \* the client's frames
          want,      \* what they mean: the reference, see Meaning
          rest,      \* bytes of them that Read has not returned yet
          conn,      \* "open", "broken" (Read fails) or "closed" (by c.close())
          buf, r, w, \* the frameReader
          pc,        \* "header", "payload" or "done"
          cur,       \* the frame whose payload is being read
          dst,       \* the bytes of its payload so far
          frag,      \* [op, data]: fragmentedOpcode and fragmented
          out,       \* [msgs, pongs, code]: to handleWispFrame, writeRawPong, sendWSClose;
                     \* the code is its number, or the two bytes of the client's
          bufp       \* [puts, kept]: frames whose payload buffer was put, or kept by a stream

vars == <<frames, want, rest, conn, buf, r, w, pc, cur, dst, frag, out, bufp>>

\* A byte is named by its frame and its place there; places of the header come first.
HeaderLen(x) == 6 + x.ext
Bytes(f, first, last) == [i \in 1..last - first + 1 |-> <<f, first + i - 1>>]
NoByte == <<0, 0>>
FrameAt(byte) == byte[1]
AllBytes(fs) == FlattenSeq([f \in DOMAIN fs |-> Bytes(f, 1, HeaderLen(fs[f]) + fs[f].len)])
Control(x) == x.op >= 8
Malformed(x) == x.top \/ (Control(x) /\ (~x.fin \/ x.len > MaxControl))

NoFrag == [op |-> 0, data |-> <<>>]

-----------------------------------------------------------------------------
(* What the frames mean, read as a whole and not byte by byte.             *)

Payload(fs, f) == Bytes(f, HeaderLen(fs[f]) + 1, HeaderLen(fs[f]) + fs[f].len)
IsData(x) == x.op \in {0, 2}

\* A message is in progress before f: the last data frame does not end one.
InMessage(fs, f) == \E g \in 1..f - 1 : /\ IsData(fs[g]) /\ ~fs[g].fin
                                        /\ \A h \in g + 1..f - 1 : ~IsData(fs[h])

\* The frame that starts the message of data frame f, and the message up to f.
FirstOf(fs, f) == CHOOSE g \in 1..f : fs[g].op = 2 /\ \A h \in g + 1..f : fs[h].op # 2
Span(fs, g, f) == FlattenSeq([i \in 1..f - g + 1 |->
                      IF IsData(fs[g + i - 1]) THEN Payload(fs, g + i - 1) ELSE <<>>])
Joined(fs, f) == Span(fs, FirstOf(fs, f), f)

\* Every close code that frame f justifies.
On(cond, code) == IF cond THEN {code} ELSE {}
Codes(fs, f) ==
    LET x == fs[f] IN
         On(x.bad \/ Malformed(x) \/ x.op \in (3..7) \cup (11..15), <<1002>>)
    \cup On(x.op = 0 /\ ~InMessage(fs, f), <<1002>>)
    \cup On(x.op = 2 /\ InMessage(fs, f), <<1002>>)
    \cup On(x.len > MaxPayload, <<1009>>)
    \cup On(x.op = 0 /\ InMessage(fs, f) /\ Len(Joined(fs, f)) > MaxPayload, <<1009>>)
    \cup On(x.op = 1, <<1003>>)
    \cup On(x.op = 8 /\ x.len = 0, <<1000>>)
    \cup On(x.op = 8 /\ x.len = 1, <<1002>>)
    \cup On(x.op = 8 /\ x.len >= 2, SubSeq(Payload(fs, f), 1, 2))

\* The frames before the first one that ends the connection; the message and
\* the pong of a frame, if it has one.
Good(fs) == {f \in DOMAIN fs : \A g \in 1..f : Codes(fs, g) = {}}
MessageOf(fs, f) == IF f \in Good(fs) /\ IsData(fs[f]) /\ fs[f].fin THEN <<Joined(fs, f)>> ELSE <<>>
PongOf(fs, f) == IF f \in Good(fs) /\ fs[f].op = 9 THEN <<Payload(fs, f)>> ELSE <<>>

Meaning(fs) ==
    [msgs |-> FlattenSeq([f \in DOMAIN fs |-> MessageOf(fs, f)]),
     pongs |-> FlattenSeq([f \in DOMAIN fs |-> PongOf(fs, f)]),
     codes |-> IF Good(fs) = DOMAIN fs THEN {<<>>} ELSE Codes(fs, Cardinality(Good(fs)) + 1)]

-----------------------------------------------------------------------------
Init ==
    /\ frames \in Inputs
    /\ want = Meaning(frames) /\ rest = AllBytes(frames)
    /\ conn = "open"
    /\ buf = [i \in 1..BufSize |-> NoByte] /\ r = 0 /\ w = 0
    /\ pc = "header" /\ cur = 0 /\ dst = <<>>
    /\ frag = NoFrag
    /\ out = [msgs |-> <<>>, pongs |-> <<>>, code |-> <<>>]
    /\ bufp = [puts |-> <<>>, kept |-> {}]

-----------------------------------------------------------------------------
(* The buffer.                                                             *)

Buffered == SubSeq(buf, r + 1, w)
Overlay(seq) == [i \in 1..BufSize |-> IF i <= Len(seq) THEN seq[i] ELSE buf[i]]

\* consume(n)
Consumed(n) ==
    /\ r' = IF r + n = w THEN 0 ELSE r + n
    /\ w' = IF r + n = w THEN 0 ELSE w

\* The bytes readLoop peeks for: two, then, knowing them, the whole header.
NextFrame == FrameAt(buf[r + 1])
BadStart == w - r >= 2 /\ frames[NextFrame].bad
Need == IF w - r < 2 THEN 2 ELSE HeaderLen(frames[NextFrame])

\* fill: move what is left to the front, then Read into the rest of the buffer.
FillUnmoved(n) ==
    /\ w + n <= BufSize
    /\ buf' = [i \in 1..BufSize |-> IF i \in w + 1..w + n THEN rest[i - w] ELSE buf[i]]
    /\ w' = w + n /\ UNCHANGED r
Fill(n) ==
    /\ buf' = Overlay(Buffered \o SubSeq(rest, 1, n))
    /\ r' = 0 /\ w' = w - r + n

\* Read returns n bytes, and perhaps an error with them.
ReadHeader(n) ==
    /\ pc = "header" /\ ~BadStart /\ w - r < Need
    /\ conn = "open"
    /\ n \in 1..(BufSize - (w - r)) /\ n <= Len(rest)
    /\ Fill(n) /\ rest' = SubSeq(rest, n + 1, Len(rest))
    /\ conn' \in {"open", "broken"}
    /\ UNCHANGED <<frames, want, pc, cur, dst, frag, out, bufp>>

\* The answers of readLoop, once c.close() was called nothing is sent.
Sent(field, value) == [out EXCEPT ![field] = IF conn = "closed" THEN @ ELSE value]
SendWSClose(code) == out' = Sent("code", code)

\* Read fails with too few bytes: readLoop returns.
ReadFails ==
    /\ pc = "header" /\ ~BadStart /\ w - r < Need
    /\ conn # "open"
    /\ pc' = "done"
    /\ UNCHANGED <<frames, want, rest, conn, buf, r, w, cur, dst, frag, out, bufp>>

-----------------------------------------------------------------------------
(* The header.                                                             *)

RejectStart ==
    /\ pc = "header" /\ BadStart
    /\ SendWSClose(<<1002>>) /\ pc' = "done"
    /\ UNCHANGED <<frames, want, rest, conn, buf, r, w, cur, dst, frag, bufp>>

HeaderRead == pc = "header" /\ ~BadStart /\ w - r >= 2 /\ w - r >= Need

RejectHeader ==
    /\ HeaderRead /\ Malformed(frames[NextFrame])
    /\ SendWSClose(<<1002>>) /\ pc' = "done"
    /\ UNCHANGED <<frames, want, rest, conn, buf, r, w, cur, dst, frag, bufp>>

RejectLength ==
    /\ HeaderRead /\ ~Malformed(frames[NextFrame]) /\ frames[NextFrame].len > MaxPayload
    /\ Consumed(HeaderLen(frames[NextFrame]))
    /\ SendWSClose(<<1009>>) /\ pc' = "done"
    /\ UNCHANGED <<frames, want, rest, conn, buf, cur, dst, frag, bufp>>

\* The frame is accepted: a buffer is taken for its payload.
TakeHeader ==
    /\ HeaderRead
    /\ ~Malformed(frames[NextFrame]) /\ frames[NextFrame].len <= MaxPayload
    /\ cur' = NextFrame /\ dst' = <<>> /\ pc' = "payload"
    /\ Consumed(HeaderLen(frames[NextFrame]))
    /\ UNCHANGED <<frames, want, rest, conn, buf, frag, out, bufp>>

-----------------------------------------------------------------------------
(* The payload: readPayload.                                               *)

Missing == frames[cur].len - Len(dst)

PayloadBuffered ==
    /\ pc = "payload" /\ dst = <<>> /\ Missing > 0 /\ w - r >= Missing
    /\ dst' = SubSeq(buf, r + 1, r + Missing) /\ Consumed(Missing)
    /\ UNCHANGED <<frames, want, rest, conn, buf, pc, cur, frag, out, bufp>>

PayloadPart ==
    /\ pc = "payload" /\ dst = <<>> /\ w - r \in 1..Missing - 1
    /\ dst' = Buffered /\ r' = 0 /\ w' = 0
    /\ UNCHANGED <<frames, want, rest, conn, buf, pc, cur, frag, out, bufp>>

\* io.ReadFull
PayloadRead(n) ==
    /\ pc = "payload" /\ (r = w \/ dst # <<>>) /\ n \in 1..Missing /\ n <= Len(rest)
    /\ conn = "open" /\ conn' \in {"open", "broken"}
    /\ dst' = dst \o SubSeq(rest, 1, n) /\ rest' = SubSeq(rest, n + 1, Len(rest))
    /\ UNCHANGED <<frames, want, buf, r, w, pc, cur, frag, out, bufp>>

Put == bufp' = [bufp EXCEPT !.puts = Append(@, cur)]

PayloadFails ==
    /\ pc = "payload" /\ (r = w \/ dst # <<>>) /\ Missing > 0 /\ conn # "open"
    /\ Put /\ pc' = "done"
    /\ UNCHANGED <<frames, want, rest, conn, buf, r, w, cur, dst, frag, out>>

-----------------------------------------------------------------------------
(* The frame, by its opcode.                                               *)

Whole(op) == pc = "payload" /\ Missing = 0 /\ frames[cur].op = op
Fin == frames[cur].fin
Msgs(data) == Append(out.msgs, data)
Handled == UNCHANGED <<frames, want, rest, conn, buf, r, w, cur, dst>>

StopUnput(code) == SendWSClose(code) /\ pc' = "done" /\ UNCHANGED <<frag, bufp>> /\ Handled
Stop(code) == Put /\ SendWSClose(code) /\ pc' = "done" /\ UNCHANGED frag /\ Handled

Unstarted == Whole(0) /\ frag.op = 0 /\ Stop(<<1002>>)

TooLong == Len(frag.data) + frames[cur].len > MaxPayload
Overlong == Whole(0) /\ frag.op # 0 /\ TooLong /\ Stop(<<1009>>)

AfterFinalOpen == [frag EXCEPT !.data = <<>>]
AfterFinal == NoFrag

Continue ==
    /\ Whole(0) /\ frag.op # 0 /\ ~TooLong
    /\ LET data == frag.data \o dst IN
         /\ out' = IF Fin THEN [out EXCEPT !.msgs = Msgs(data)] ELSE out
         /\ frag' = IF Fin THEN AfterFinal ELSE [frag EXCEPT !.data = data]
    /\ Put /\ pc' = "header" /\ Handled

Interleaved == Whole(2) /\ frag.op # 0 /\ Stop(<<1002>>)

First ==
    /\ Whole(2) /\ frag.op = 0 /\ ~Fin
    /\ frag' = [op |-> 2, data |-> dst]
    /\ Put /\ pc' = "header" /\ Handled /\ UNCHANGED out

\* handleWispFrame says whether a stream keeps the buffer.
Single(keep) ==
    /\ Whole(2) /\ frag.op = 0 /\ Fin
    /\ out' = [out EXCEPT !.msgs = Msgs(dst)]
    /\ IF keep THEN bufp' = [bufp EXCEPT !.kept = @ \cup {cur}] ELSE Put
    /\ pc' = "header" /\ Handled /\ UNCHANGED frag

Text == Whole(1) /\ Stop(<<1003>>)

Ping ==
    /\ Whole(9)
    /\ out' = Sent("pongs", Append(out.pongs, dst))
    /\ Put /\ pc' = "header" /\ Handled /\ UNCHANGED frag

Pong ==
    /\ Whole(10)
    /\ Put /\ pc' = "header" /\ Handled /\ UNCHANGED <<frag, out>>

\* The client's close code is echoed: its two bytes stand for it.
CloseCode == IF Len(dst) = 1 THEN <<1002>> ELSE IF Len(dst) = 0 THEN <<1000>> ELSE SubSeq(dst, 1, 2)
CloseFrame == Whole(8) /\ Stop(CloseCode)

Unknown == \E op \in (3..7) \cup (11..15) : Whole(op) /\ Stop(<<1002>>)

\* c.close() by another goroutine, or the network, ends the input.
Break ==
    /\ conn = "open" /\ conn' \in {"broken", "closed"}
    /\ UNCHANGED <<frames, want, rest, buf, r, w, pc, cur, dst, frag, out, bufp>>

-----------------------------------------------------------------------------
Reader ==
    \/ \E n \in 1..BufSize : ReadHeader(n)
    \/ \E n \in 1..MaxPayload : PayloadRead(n)
    \/ ReadFails \/ RejectStart \/ RejectHeader \/ RejectLength \/ TakeHeader
    \/ PayloadBuffered \/ PayloadPart \/ PayloadFails
    \/ Unstarted \/ Overlong \/ Continue \/ Interleaved \/ First
    \/ \E keep \in BOOLEAN : Single(keep)
    \/ Text \/ Ping \/ Pong \/ CloseFrame \/ Unknown

Next == Reader \/ Break

\* The goroutine of readLoop runs while it can.
Spec == Init /\ [][Next]_vars /\ WF_vars(Reader)

-----------------------------------------------------------------------------
(* Properties.                                                             *)

Complete == out.msgs = want.msgs /\ out.pongs = want.pongs /\ out.code \in want.codes

\* Whatever the sizes of the Reads, the messages handed to handleWispFrame and the pongs are a
\* prefix of those the frames encode (fragments joined, control frames between them left out,
\* nothing past the limit), and a close code is sent only once all of them are out, for a
\* reason that the next frame gives.
Reassembled ==
    /\ pc \in {"header", "payload", "done"} /\ r <= w /\ w <= BufSize
    /\ IsPrefix(out.msgs, want.msgs) /\ IsPrefix(out.pongs, want.pongs)
    /\ out.code # <<>> /\ conn # "closed" => Complete

\* Each payload buffer is put back exactly once, or kept by a stream, by the time the next
\* frame is read or the loop ends.
BuffersReturned ==
    LET taken == IF pc = "payload" THEN 1..cur - 1 ELSE 1..cur IN
    /\ IsInjective(bufp.puts)
    /\ Range(bufp.puts) \cap bufp.kept = {}
    /\ Range(bufp.puts) \cup bufp.kept = taken

\* If the connection stays up, everything the client sent is handled: no header or payload
\* that straddles the end of the buffer leaves the reader waiting for bytes it already has.
InputHandled == <>(conn # "open" \/ Complete)

=============================================================================
