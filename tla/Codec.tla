------------------------------- MODULE Codec -------------------------------
(***************************************************************************)
(* One connection's byte stream between two protocol.Codecs: the writer's *)
(* Codec.Write frames a packet as kind<<4|flags, a uint16 payload size,   *)
(* the variable head the packet's EncodeHead writes and the body, and the *)
(* reader's Codec.Read takes frames off the same stream in order: the    *)
(* fixed head, FindPacket in the registry, the payload, DecodeHead and    *)
(* the body.  The packets are those of package pkts (packets.go, heads.go) *)
(* and the props of a data packet are the Props object of module Props,  *)
(* which the application builds with With / Remove / Reset or decodes    *)
(* from a peer before sending it on.                                       *)
(*                                                                         *)
(* The stream is a sequence of runs [val |-> b, n |-> k], k copies of the *)
(* byte b, so that a body of 65536 bytes is one element; heads are        *)
(* expanded to byte sequences where they are decoded.                      *)
(***************************************************************************)
EXTENDS Naturals, Sequences, Bitwise, TLC

Seqs == INSTANCE SequencesExt

CONSTANTS
    AppRegistry, Calls, NoProp, Body, PeerItems, PeerSlack, MaxOps,
    Templates,      \* packets the application builds with the constructors
    RawFrames,      \* frames, as runs, of a peer that is not this codec
    MaxPktSizeOpt,  \* the argument of the MaxPktSize option, or NoOpt
    NoOpt

VARIABLES
    props, len, ops,  \* the application's Props object (module Props)
    stream,           \* bytes written to the connection and not yet read
    out,              \* history: the frames written, in order
    in,               \* the packets Codec.Read returned, in order
    rxErr,            \* the error Codec.Read returned, or "none"
    byteOrder         \* the order of the codec's Writer and Reader (Props)

vars == <<props, len, ops, byteOrder, stream, out, in, rxErr>>

P == INSTANCE Props

-----------------------------------------------------------------------------
(* The byte stream as runs. *)
Runs(bs) == [i \in DOMAIN bs |-> [val |-> bs[i], n |-> 1]]

RECURSIVE RunLen(_)
RunLen(s) == IF s = <<>> THEN 0 ELSE Head(s).n + RunLen(Tail(s))

(* The first k bytes of s, and s without them. *)
RECURSIVE Take(_, _)
Take(s, k) ==
    IF k = 0 \/ s = <<>> THEN <<>>
    ELSE IF Head(s).n <= k THEN <<Head(s)>> \o Take(Tail(s), k - Head(s).n)
    ELSE <<[Head(s) EXCEPT !.n = k]>>

RECURSIVE Skip(_, _)
Skip(s, k) ==
    IF k = 0 \/ s = <<>> THEN s
    ELSE IF Head(s).n <= k THEN Skip(Tail(s), k - Head(s).n)
    ELSE <<[Head(s) EXCEPT !.n = @ - k]>> \o Tail(s)

Expand(s) == Seqs!FlattenSeq([i \in DOMAIN s |-> [j \in 1..s[i].n |-> s[i].val]])

(* Runs with adjacent runs of one byte merged: equal byte sequences have  *)
(* equal normal forms.                                                     *)
RECURSIVE Normal(_)
Normal(s) ==
    IF s = <<>> THEN <<>>
    ELSE LET r == Normal(Tail(s))
         IN  IF r /= <<>> /\ Head(r).val = Head(s).val
             THEN <<[Head(r) EXCEPT !.n = @ + Head(s).n]>> \o Tail(r)
             ELSE <<Head(s)>> \o r

-----------------------------------------------------------------------------
(* codec.go constants; CodecBits of heads.go. *)
fixedHeadLen == 3
flagsBits == 4
maxPktSize == 2 * 2^16 - 1
CodecBits == 3

(* NewCodec sets maxPktSize, then applies the options.  MaxPktSize(size) *)
(* assigns the default when size is out of range, but then assigns size   *)
(* unconditionally (line 38), so the option's argument is kept as it is.  *)
CodecMax == IF MaxPktSizeOpt = NoOpt THEN maxPktSize ELSE MaxPktSizeOpt

(* Packet kinds and flags of packets.go. *)
KindPing == 1
KindNotify == 2
KindHttp == 3
KindSubscribe == 4
KindUnsubscribe == 5
KindPublish == 6
FlagNo == 0
FlagPong == 1

(* The creators init() registers: each kind's packet type, named by the   *)
(* head it has (Sub and Unsub packets have an HttpHead).                   *)
Creators ==
    (KindPing :> "ping") @@ (KindNotify :> "notify") @@ (KindHttp :> "http")
    @@ (KindSubscribe :> "http") @@ (KindUnsubscribe :> "http")
    @@ (KindPublish :> "pub")

(* A packet: PktBase (kind, flags, body) and the fields of its head;      *)
(* plen is the head's props.Size().                                        *)
NoHead == [cmd |-> 0, version |-> 0, codec |-> 0, seqId |-> 0, topic |-> <<>>,
           props |-> P!EmptyProps, plen |-> 0]

(* FindPacket: creator(NewPktBase(kind, flags)), a packet with InitProps. *)
FindPacket(kind, flags) == [kind |-> kind, flags |-> flags, head |-> NoHead, body |-> <<>>]

NoPkt == FindPacket(0, 0)

SetBody(p, body) == [p EXCEPT !.body = body]

NewPingPkt == FindPacket(KindPing, FlagNo)
NewPongPkt == FindPacket(KindPing, FlagPong)

NewFullNotifyPkt(cmd, version, codec, body) ==
    [FindPacket(KindNotify, FlagNo) EXCEPT !.head.cmd = cmd, !.head.version = version,
                                           !.head.codec = codec, !.body = body]

ReqPkt(kind, seqId, cmd, version, codec, body) ==
    [FindPacket(kind, FlagNo) EXCEPT !.head.seqId = seqId, !.head.cmd = cmd,
                                     !.head.version = version, !.head.codec = codec,
                                     !.body = body]

NewFullHttpPkt(seqId, cmd, version, codec, body) ==
    ReqPkt(KindHttp, seqId, cmd, version, codec, body)
NewFullSubPkt(seqId, cmd, version, codec, body) ==
    ReqPkt(KindSubscribe, seqId, cmd, version, codec, body)
NewFullUnsubPkt(seqId, cmd, version, codec, body) ==
    ReqPkt(KindUnsubscribe, seqId, cmd, version, codec, body)

NewFullPubPkt(topic, cmd, version, codec, body) ==
    [FindPacket(KindPublish, FlagNo) EXCEPT !.head.topic = topic, !.head.cmd = cmd,
                                            !.head.version = version,
                                            !.head.codec = codec, !.body = body]

-----------------------------------------------------------------------------
(* HeadSize of NotifyHead, HttpHead and PubHead, and of a packet by its  *)
(* head; a PingPkt has no head.                                            *)
NotifyHeadSize(h) == 5 + h.plen
HttpHeadSize(h) == 2 + NotifyHeadSize(h)
PubHeadSize(h) == 2 + Len(h.topic) + NotifyHeadSize(h)

HeadSize(p) ==
    CASE Creators[p.kind] = "ping"   -> 0
      [] Creators[p.kind] = "notify" -> NotifyHeadSize(p.head)
      [] Creators[p.kind] = "http"   -> HttpHeadSize(p.head)
      [] Creators[p.kind] = "pub"    -> PubHeadSize(p.head)

(* Writer.PutByte of a byte conversion, and PutUint16 of a uint16 one. *)
Byte(x) == x % 256
PutUint16(x) == P!PutUint(x % 65536, 2)

(* NotifyHead.EncodeHead: cmd, version<<CodecBits | codec, the props size *)
(* and Props.Encode in one order of the map's iteration.                   *)
NotifyEncodeHead(h, order) ==
    PutUint16(h.cmd) \o <<Byte(h.version * 2^CodecBits) | h.codec>>
    \o PutUint16(h.plen) \o P!Encode(h.props, order)

(* HttpHead.EncodeHead: the seqId, then the NotifyHead. *)
HttpEncodeHead(h, order) == PutUint16(h.seqId) \o NotifyEncodeHead(h, order)

(* PubHead.EncodeHead: uint16(len(topic)), PutString(topic), NotifyHead. *)
PubEncodeHead(h, order) ==
    PutUint16(Len(h.topic)) \o h.topic \o NotifyEncodeHead(h, order)

EncodeHead(p, order) ==
    CASE Creators[p.kind] = "ping"   -> <<>>
      [] Creators[p.kind] = "notify" -> NotifyEncodeHead(p.head, order)
      [] Creators[p.kind] = "http"   -> HttpEncodeHead(p.head, order)
      [] Creators[p.kind] = "pub"    -> PubEncodeHead(p.head, order)

ErrBad == [err |-> "ErrDecodeBadPacket"]

(* A NotifyHead.DecodeHead that keeps vc whole as the version. *)
NotifyDecodeHeadNoShift(b, off, h) ==
    IF Len(b) - off < 5 THEN ErrBad
    ELSE LET vc == b[off + 3]
             res == P!Decode(b, off + 5, P!UintOf(SubSeq(b, off + 4, off + 5)))
         IN  IF res.err /= "nil" THEN [err |-> res.err]
             ELSE [err |-> "nil", off |-> res.off,
                   head |-> [h EXCEPT !.cmd = P!UintOf(SubSeq(b, off + 1, off + 2)),
                                      !.version = vc, !.codec = vc & 8,
                                      !.props = res.props, !.plen = res.len]]

(* NotifyHead.DecodeHead of payload b with the reader's cursor at off:   *)
(* HasSize(5), cmd, vc, version = vc >> CodecBits, codec = vc & 0x08,     *)
(* the props size, props.Reset and Props.Decode.                          *)
NotifyDecodeHead(b, off, h) ==
    IF Len(b) - off < 5 THEN ErrBad
    ELSE LET vc == b[off + 3]
             res == P!Decode(b, off + 5, P!UintOf(SubSeq(b, off + 4, off + 5)))
         IN  IF res.err /= "nil" THEN [err |-> res.err]
             ELSE [err |-> "nil", off |-> res.off,
                   head |-> [h EXCEPT !.cmd = P!UintOf(SubSeq(b, off + 1, off + 2)),
                                      !.version = shiftR(vc, CodecBits),
                                      !.codec = vc & 8,
                                      !.props = res.props, !.plen = res.len]]

(* HttpHead.DecodeHead: HasSize(2), the seqId, then the NotifyHead. *)
HttpDecodeHead(b, off, h) ==
    IF Len(b) - off < 2 THEN ErrBad
    ELSE NotifyDecodeHead(b, off + 2, [h EXCEPT !.seqId = P!UintOf(SubSeq(b, off + 1, off + 2))])

(* PubHead.DecodeHead: HasSize(2), the topic size, HasSize(size), the     *)
(* topic, then the NotifyHead.                                             *)
PubDecodeHead(b, off, h) ==
    IF Len(b) - off < 2 THEN ErrBad
    ELSE LET n == P!UintOf(SubSeq(b, off + 1, off + 2))
         IN  IF Len(b) - (off + 2) < n THEN ErrBad
             ELSE NotifyDecodeHead(b, off + 2 + n, [h EXCEPT !.topic = SubSeq(b, off + 3, off + 2 + n)])

(* p.DecodeHead(c.r) on the payload; PingPkt.DecodeHead reads nothing. *)
DecodeHead(p, b) ==
    CASE Creators[p.kind] = "ping"   -> [err |-> "nil", off |-> 0, head |-> p.head]
      [] Creators[p.kind] = "notify" -> NotifyDecodeHead(b, 0, p.head)
      [] Creators[p.kind] = "http"   -> HttpDecodeHead(b, 0, p.head)
      [] Creators[p.kind] = "pub"    -> PubDecodeHead(b, 0, p.head)

-----------------------------------------------------------------------------
Init ==
    /\ P!Init
    /\ stream = <<>>
    /\ out = <<>>
    /\ in = <<>>
    /\ rxErr = "none"

(* The application's calls on its Props object. *)
PropsOp ==
    /\ \/ \E c \in Calls : P!With(c.id, c.prop)
       \/ \E id \in P!Ids : P!Remove(id)
       \/ P!Reset
       \/ \E items \in PeerItems, slack \in PeerSlack : P!Receive(items, slack)
    /\ UNCHANGED <<stream, out, in, rxErr>>

(* A data packet is sent with the application's props (SetProps). *)
Attach(t) == IF Creators[t.kind] = "ping" THEN t
             ELSE [t EXCEPT !.head.props = props, !.head.plen = len]

PktSize(p) == HeadSize(p) + RunLen(p.body)

(* Codec.Write of a packet larger than maxPktSize: ErrPacketTooLarge,     *)
(* nothing written.                                                        *)
WriteTooLarge(t) ==
    /\ P!Step
    /\ PktSize(Attach(t)) > CodecMax
    /\ UNCHANGED <<props, len, stream, out, in, rxErr>>

(* A Write that frames the payload size with the fixed head counted in. *)
WriteSizeWithHead(t) ==
    LET p == Attach(t)
    IN  /\ P!Step
        /\ PktSize(p) <= CodecMax
        /\ \E order \in Seqs!SetToSeqs(P!Present(p.head.props)) :
              LET hb == EncodeHead(p, order)
                  gap == HeadSize(p) - Len(hb)
              IN  /\ gap >= 0
                  /\ stream' = stream \o Runs(<<Byte(p.kind * 2^flagsBits) | p.flags>>
                                              \o PutUint16(PktSize(p) + fixedHeadLen) \o hb
                                              \o [i \in 1..gap |-> 0]) \o p.body
        /\ out' = Append(out, [raw |-> FALSE, pkt |-> p])
        /\ UNCHANGED <<props, len, in, rxErr>>

(* Codec.Write: a buffer of size + fixedHeadLen from wBufGetter, the      *)
(* fixed head with uint16(size), EncodeHead, PutBytes(body) and Flush of  *)
(* the whole buffer.  Bytes EncodeHead leaves unwritten go out as the     *)
(* buffer holds them (zero in a new buffer); writing more than HeadSize   *)
(* overruns the buffer and panics, and nothing is sent.                    *)
Write(t) ==
    LET p == Attach(t)
    IN  /\ P!Step
        /\ PktSize(p) <= CodecMax
        /\ \E order \in Seqs!SetToSeqs(P!Present(p.head.props)) :
              LET hb == EncodeHead(p, order)
                  gap == HeadSize(p) - Len(hb)
              IN  /\ gap >= 0
                  /\ stream' = stream \o Runs(<<Byte(p.kind * 2^flagsBits) | p.flags>>
                                              \o PutUint16(PktSize(p)) \o hb
                                              \o [i \in 1..gap |-> 0]) \o p.body
        /\ out' = Append(out, [raw |-> FALSE, pkt |-> p])
        /\ UNCHANGED <<props, len, in, rxErr>>

(* A peer that is not a gosocket Codec writes a frame. *)
PeerWrite(f) ==
    /\ P!Step
    /\ stream' = stream \o f
    /\ out' = Append(out, [raw |-> TRUE, pkt |-> NoPkt])
    /\ UNCHANGED <<props, len, in, rxErr>>

(* Codec.Read: ReadFull of the fixed head blocks until 3 bytes arrived;   *)
(* the read loop stops at the first error.                                 *)
ReadReady == rxErr = "none" /\ RunLen(stream) >= fixedHeadLen

FixedHead == Expand(Take(stream, fixedHeadLen))
kindFlags == FixedHead[1]
RxKind == shiftR(kindFlags, flagsBits)
RxFlags == kindFlags & 15
remainingSize == P!UintOf(SubSeq(FixedHead, 2, 3))
Payload == Take(Skip(stream, fixedHeadLen), remainingSize)

Fail(err, n) ==
    /\ rxErr' = err
    /\ stream' = Skip(stream, n)
    /\ UNCHANGED <<props, len, ops, byteOrder, out, in>>

(* FindPacket: no creator for the kind, ErrInvalidPktKind. *)
ReadBadKind ==
    /\ ReadReady
    /\ RxKind \notin DOMAIN Creators
    /\ Fail("ErrInvalidPktKind", fixedHeadLen)

ReadTooLarge ==
    /\ ReadReady
    /\ RxKind \in DOMAIN Creators
    /\ remainingSize > CodecMax
    /\ Fail("ErrPacketTooLarge", fixedHeadLen)

(* ReadFull of the payload blocks until remainingSize bytes arrived. *)
PayloadReady ==
    /\ ReadReady
    /\ RxKind \in DOMAIN Creators
    /\ remainingSize <= CodecMax
    /\ RunLen(stream) >= fixedHeadLen + remainingSize

RxDecoded == DecodeHead(FindPacket(RxKind, RxFlags), Expand(Payload))

ReadBadHead ==
    /\ PayloadReady
    /\ RxDecoded.err /= "nil"
    /\ Fail(RxDecoded.err, fixedHeadLen + remainingSize)

(* DecodeHead succeeded: SetBody(r.RemainBytes()). *)
ReadPacket ==
    /\ PayloadReady
    /\ RxDecoded.err = "nil"
    /\ in' = Append(in, [FindPacket(RxKind, RxFlags) EXCEPT
                           !.head = RxDecoded.head,
                           !.body = Normal(Skip(Payload, RxDecoded.off))])
    /\ stream' = Skip(stream, fixedHeadLen + remainingSize)
    /\ UNCHANGED <<props, len, ops, byteOrder, out, rxErr>>

(* The outcomes of one Codec.Read call. *)
Read == ReadBadKind \/ ReadTooLarge \/ ReadBadHead \/ ReadPacket

Finished == ops = MaxOps /\ UNCHANGED vars

Next ==
    \/ PropsOp
    \/ \E t \in Templates : WriteTooLarge(t) \/ Write(t)
    \/ \E f \in RawFrames : PeerWrite(f)
    \/ Read
    \/ Finished

(* ENABLED <<Read>>_vars: the fixed head has arrived and either it fails  *)
(* at once or the payload has arrived too (ReadBadHead and ReadPacket     *)
(* split PayloadReady; every outcome consumes at least the fixed head).    *)
ReadEnabled ==
    /\ ReadReady
    /\ \/ RxKind \notin DOMAIN Creators
       \/ remainingSize > CodecMax
       \/ RunLen(stream) >= fixedHeadLen + remainingSize

(* The reader is EasyConn.Receive in QueueConn's receiveLoop, which calls *)
(* it again after every packet until it returns an error: a Read whose    *)
(* bytes have arrived is eventually taken.  Nothing forces a Write.  This *)
(* is WF_vars(Read), written with its enabling condition.                  *)
ReadFairness == <>[]ReadEnabled => []<><<Read>>_vars

Spec == Init /\ [][Next]_vars /\ ReadFairness

-----------------------------------------------------------------------------
Run == [val : 0..255, n : Nat \ {0}]

HeadType == [cmd : 0..65535, version : 0..31, codec : 0..255, seqId : 0..65535,
             topic : Seq(0..255), props : [P!Ids -> {NoProp}], plen : Nat]

PropsType(pr) == DOMAIN pr = P!Ids /\ \A id \in P!Ids : pr[id] = NoProp \/ P!IsProp(pr[id])

TypeOK ==
    /\ P!TypeOK
    /\ stream \in Seq(Run)
    /\ \A i \in DOMAIN out : out[i].raw \in BOOLEAN
    /\ \A i \in DOMAIN in : in[i].kind \in DOMAIN Creators /\ in[i].flags \in 0..15
                            /\ [in[i].head EXCEPT !.props = P!EmptyProps] \in HeadType
                            /\ PropsType(in[i].head.props) /\ in[i].body \in Seq(Run)
    /\ rxErr \in {"none", "ErrInvalidPktKind", "ErrPacketTooLarge",
                  "ErrDecodeBadPacket", "ErrInvalidPropId"}

(* Spec 3 for the Props object the application sends (module Props). *)
LenConsistent == P!LenConsistent

(* The packet Read returned and the one Write was given agree on what the *)
(* application sees: kind, flags, head fields, props and body.             *)
SamePacket(a, b) ==
    /\ a.kind = b.kind /\ a.flags = b.flags
    /\ a.body = Normal(b.body)
    /\ \A f \in {"cmd", "version", "codec", "seqId", "topic", "props"} : a.head[f] = b.head[f]

(***************************************************************************)
(* Spec 7 (round trip and frame boundary): Codec.Read returns, in order,  *)
(* the packets Codec.Write accepted, each equal to the packet written      *)
(* (Write's uint16 size, HeadSize, EncodeHead and Flush against Read's    *)
(* fixed head, ReadFull of the payload, DecodeHead and RemainBytes), and  *)
(* Read fails only on a frame that was not written by a Codec.            *)
(***************************************************************************)
FrameBoundary ==
    /\ \A i \in DOMAIN in : ~out[i].raw /\ SamePacket(in[i], out[i].pkt)
    /\ rxErr /= "none" => Len(in) < Len(out) /\ out[Len(in) + 1].raw


(***************************************************************************)
(* The props API end to end: for every packet Read returned and every      *)
(* With call whose Prop the sender's packet carried, the receiver's getter *)
(* of that wrapper (GetInt16 for WithInt16, ...) returns the argument the  *)
(* sender gave, ok and without a panic.  It takes the wrapper's unsigned   *)
(* conversion, the Prop's Encode, Decode by the receiver's registry and    *)
(* the getter's type assertion and signed conversion to agree.             *)
(***************************************************************************)
WithGetRoundTrip ==
    \A i \in DOMAIN in, c \in Calls :
        out[i].pkt.head.props[c.id] = c.prop =>
            P!GetBy(c.get, in[i].head.props, c.id) = [panic |-> FALSE, ok |-> TRUE, val |-> c.arg]


(***************************************************************************)
(* Every frame written is eventually read: once k frames were written,    *)
(* Codec.Read eventually returns the k-th packet or fails.  The uint16    *)
(* size Write puts in the fixed head must count exactly the bytes it       *)
(* writes after it, or the reader's ReadFull of the payload waits for     *)
(* bytes that never come and the last packet is never handled.             *)
(***************************************************************************)
FramesDelivered ==
    \A k \in 1..MaxOps : Len(out) >= k ~> (Len(in) >= k \/ rxErr /= "none")

=============================================================================
