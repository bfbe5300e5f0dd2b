------------------------------- MODULE Props -------------------------------
(***************************************************************************)
(* The property bag of a data packet (pkts/property.go) and its bytes on  *)
(* the wire: Props with its cached len, Props.Encode behind the uint16     *)
(* props size that NotifyHead.EncodeHead writes, and Props.Decode reading *)
(* them back with the protocol.Reader cursor, in the ByteOrder the Writer *)
(* and Reader were made with (EasyConn's codec uses BigEndian; NewWriter  *)
(* and NewReader take either).  Props are those of module PropTypes, and  *)
(* the typed getters read them back.  Encode writes each                   *)
(* Prop by its own type; Decode creates each Prop with the type            *)
(* registered for its id.                                                  *)
(*                                                                         *)
(* The modelled Props object is the one a handler holds: built by the     *)
(* application with the With* wrappers and Remove, or decoded from a      *)
(* peer's frame.  Codec composes it with the codec that sends it.          *)
(***************************************************************************)
EXTENDS Naturals, Sequences, FiniteSetsExt, TLC, PropTypes

Seqs == INSTANCE SequencesExt

CONSTANTS
    AppRegistry,    \* ids the application registers: id -> type
    Calls,          \* the With calls the application makes (wrappers below)
    NoProp,         \* marks an id with no property
    Body,           \* bytes of the body that follow the head
    PeerItems,      \* <<id, value>> lists a peer encodes
    PeerSlack,      \* props size a peer declares minus the
                    \*   length of what it encodes
    MaxOps          \* bound on calls

(* RegisterPropCreator panics on an id that is already registered. *)
ASSUME DOMAIN AppRegistry \cap DOMAIN InitRegistry = {}

Registry == InitRegistry @@ AppRegistry
Ids == DOMAIN Registry

(* FindProp: a new Prop of the registered type, or ErrInvalidPropId. *)
FindProp(id) == IF id \in Ids THEN [err |-> "nil", t |-> Registry[id]]
                ELSE [err |-> "ErrInvalidPropId"]

(* bigEndian.PutUintN and UintN: v as w bytes, most significant first.     *)
RECURSIVE BE(_, _)
BE(v, w) == IF w = 0 THEN <<>> ELSE BE(v \div 256, w - 1) \o <<v % 256>>

RECURSIVE FromBE(_)
FromBE(b) == IF b = <<>> THEN 0 ELSE FromBE(Seqs!Front(b)) * 256 + Seqs!Last(b)

(* littleEndian.PutUintN and UintN: v as w bytes, least significant first. *)
RECURSIVE LE(_, _)
LE(v, w) == IF w = 0 THEN <<>> ELSE <<v % 256>> \o LE(v \div 256, w - 1)

RECURSIVE FromLE(_)
FromLE(b) == IF b = <<>> THEN 0 ELSE Head(b) + 256 * FromLE(Tail(b))

ByteOrders == {"BigEndian", "LittleEndian"}

VARIABLES
    props,     \* p.props: id -> Prop, NoProp where absent
    len,       \* p.len, the cached encoded size
    ops,
    byteOrder  \* the ByteOrder of the Writer and Reader the Props are
               \*   encoded to and decoded from

vars == <<props, len, ops, byteOrder>>

(* Writer.PutUintN / Reader.UintN: the fixed-width write and read go      *)
(* through w.order / r.order.                                              *)
PutUint(v, w) == IF byteOrder = "LittleEndian" THEN LE(v, w) ELSE BE(v, w)
UintOf(b) == IF byteOrder = "LittleEndian" THEN FromLE(b) ELSE FromBE(b)

(* Prop.Encode: a StringProp is its uint16 length and its bytes. *)
EncodeValue(p) ==
    IF p.t = "str" THEN PutUint(Len(p.v) % 65536, 2) \o p.v ELSE PutUint(p.v, Width[p.t])

Present(p) == {id \in Ids : p[id] /= NoProp}

(* Props.Encode: w.PutByte(byte(id)) then prop.Encode(w) for each entry,  *)
(* in the order of one iteration of the props map.                        *)
Encode(p, order) ==
    Seqs!FlattenSeq([i \in DOMAIN order |-> <<order[i]>> \o EncodeValue(p[order[i]])])

EmptyProps == [id \in Ids |-> NoProp]

(* Props.Get: the entry of the map, ok when present. *)
Get(p, id) == [ok |-> p[id] /= NoProp, prop |-> p[id]]

(* GetUintN / GetFloatN / GetStr: zero value and false when absent, else  *)
(* the type assertion to the getter's Prop type, which panics on a Prop *)
(* of another type.                                                        *)
GetAs(p, id, t, zero) ==
    LET g == Get(p, id) IN
    CASE ~g.ok           -> [panic |-> FALSE, ok |-> FALSE, val |-> zero]
      [] g.prop.t /= t   -> [panic |-> TRUE, ok |-> FALSE, val |-> zero]
      [] OTHER           -> [panic |-> FALSE, ok |-> TRUE, val |-> g.prop.v]

GetUint8(p, id) == GetAs(p, id, "u8", 0)
GetUint16(p, id) == GetAs(p, id, "u16", 0)
GetUint32(p, id) == GetAs(p, id, "u32", 0)
GetUint64(p, id) == GetAs(p, id, "u64", 0)
GetFloat32(p, id) == GetAs(p, id, "f32", 0)
GetFloat64(p, id) == GetAs(p, id, "f64", 0)
GetStr(p, id) == GetAs(p, id, "str", <<>>)
GetByte(p, id) == GetUint8(p, id)

(* GetIntN: GetUintN, then the conversion intN(v). *)
AsSigned(r, bits) == [r EXCEPT !.val = Signed(@, bits)]
GetInt8(p, id) == AsSigned(GetUint8(p, id), 8)
(* A GetInt16 that returns the uint16 without the int16(v) conversion. *)
GetInt16NoSign(p, id) == GetUint16(p, id)
GetInt16(p, id) == AsSigned(GetUint16(p, id), 16)
GetInt32(p, id) == AsSigned(GetUint32(p, id), 32)
GetInt64(p, id) == AsSigned(GetUint64(p, id), 64)

(* The getter named by a With call's get field. *)
GetBy(name, p, id) ==
    CASE name = "Uint8" -> GetUint8(p, id)     [] name = "Uint16" -> GetUint16(p, id)
      [] name = "Uint32" -> GetUint32(p, id)   [] name = "Uint64" -> GetUint64(p, id)
      [] name = "Float32" -> GetFloat32(p, id) [] name = "Float64" -> GetFloat64(p, id)
      [] name = "Str" -> GetStr(p, id)         [] name = "Byte" -> GetByte(p, id)
      [] name = "Int8" -> GetInt8(p, id)       [] name = "Int16" -> GetInt16(p, id)
      [] name = "Int32" -> GetInt32(p, id)     [] name = "Int64" -> GetInt64(p, id)

(* Prop.Decode of a Prop of type t from buffer b with the cursor at off:  *)
(* the r.HasSize checks, then r.UintN / r.FloatN / r.String.              *)
DecodeValue(b, off, t) ==
    IF t = "str"
    THEN IF Len(b) - off < 2 THEN [err |-> "ErrDecodeBadPacket"]
         ELSE LET n == UintOf(SubSeq(b, off + 1, off + 2))
              IN  IF Len(b) - (off + 2) < n THEN [err |-> "ErrDecodeBadPacket"]
                  ELSE [err |-> "nil", val |-> SubSeq(b, off + 3, off + 2 + n),
                        off |-> off + 2 + n]
    ELSE IF Len(b) - off < Width[t] THEN [err |-> "ErrDecodeBadPacket"]
         ELSE [err |-> "nil", val |-> UintOf(SubSeq(b, off + 1, off + Width[t])),
               off |-> off + Width[t]]

(* A Props.Decode loop running while r.AlreadyRead() <= end. *)
RECURSIVE DecodeLoopLe(_, _, _, _, _)
DecodeLoopLe(b, off, end, acc, start) ==
    IF off > end
    THEN [err |-> "nil", props |-> acc, len |-> off - start, off |-> off]
    ELSE IF off + 1 > Len(b)
    THEN [err |-> "ErrDecodeBadPacket", props |-> acc, len |-> 0, off |-> off]
    ELSE LET id == b[off + 1]
             new == FindProp(id)
         IN  IF new.err /= "nil"
             THEN [err |-> new.err, props |-> acc, len |-> 0, off |-> off + 1]
             ELSE LET res == DecodeValue(b, off + 1, new.t)
                  IN  IF res.err /= "nil"
                      THEN [err |-> res.err, props |-> acc, len |-> 0, off |-> off + 1]
                      ELSE DecodeLoopLe(b, res.off, end,
                                        [acc EXCEPT ![id] = Prop(new.t, res.val)], start)

(* The loop of Props.Decode: while r.AlreadyRead() < end, read an id      *)
(* byte, FindProp, prop.Decode, p.props[id] = prop; then p.len is the     *)
(* number of bytes read since start.                                       *)
RECURSIVE DecodeLoop(_, _, _, _, _)
DecodeLoop(b, off, end, acc, start) ==
    IF off >= end
    THEN [err |-> "nil", props |-> acc, len |-> off - start, off |-> off]
    ELSE LET id == b[off + 1]
             new == FindProp(id)
         IN  IF new.err /= "nil"
             THEN [err |-> new.err, props |-> acc, len |-> 0, off |-> off + 1]
             ELSE LET res == DecodeValue(b, off + 1, new.t)
                  IN  IF res.err /= "nil"
                      THEN [err |-> res.err, props |-> acc, len |-> 0, off |-> off + 1]
                      ELSE DecodeLoop(b, res.off, end,
                                      [acc EXCEPT ![id] = Prop(new.t, res.val)], start)

(* h.props.Reset(); h.props.Decode(r, size) with the cursor at off. *)
Decode(b, off, size) ==
    IF size = 0 THEN [err |-> "nil", props |-> EmptyProps, len |-> 0, off |-> off]
    ELSE IF Len(b) - off < size
         THEN [err |-> "ErrDecodeBadPacket", props |-> EmptyProps, len |-> 0, off |-> off]
         ELSE DecodeLoop(b, off, off + size, EmptyProps, off)

(* The props part of a NotifyHead frame as the receiver parses it:         *)
(* size := int(r.Uint16()), props.Decode(r, size), then the body is        *)
(* r.RemainBytes().                                                         *)
ReceiveProps(b) ==
    LET res == Decode(b, 2, UintOf(SubSeq(b, 1, 2)))
    IN  [err |-> res.err, props |-> res.props, len |-> res.len,
         body |-> SubSeq(b, res.off + 1, Len(b))]

-----------------------------------------------------------------------------

(* NewProps (InitProps) *)
Init ==
    /\ props = EmptyProps
    /\ len = 0
    /\ ops = 0
    /\ byteOrder \in ByteOrders

Step == ops < MaxOps /\ ops' = ops + 1 /\ UNCHANGED byteOrder

(* Props.Remove: delete the entry and subtract 1 + prop.Size(). *)
RemoveLen(id) == IF props[id] /= NoProp THEN len - (1 + PropSize(props[id])) ELSE len

Remove(id) ==
    /\ Step
    /\ props' = [props EXCEPT ![id] = NoProp]
    /\ len' = RemoveLen(id)

(* A Props.With without the Remove of an existing entry. *)
WithNoRemove(id, prop) ==
    /\ Step
    /\ props' = [props EXCEPT ![id] = prop]
    /\ len' = len + 1 + PropSize(prop)

(* Props.With: Remove, then add the prop and 1 + prop.Size().  It takes  *)
(* the Prop as given, whatever type is registered for the id.             *)
With(id, prop) ==
    /\ Step
    /\ props' = [props EXCEPT ![id] = prop]
    /\ len' = RemoveLen(id) + 1 + PropSize(prop)

(* Props.Reset *)
Reset ==
    /\ Step
    /\ props' = EmptyProps
    /\ len' = 0

(* Receiving a packet from a peer: the peer wrote the props size, its     *)
(* encoded items and the body.  DecodeHead resets the props and decodes.  *)
(* On an error Codec.Read fails and the connection ends (QueueConn); the  *)
(* handler only ever holds a packet that decoded.                          *)
PeerItemBytes(items) ==
    Seqs!FlattenSeq([i \in DOMAIN items |->
        <<items[i][1]>> \o EncodeValue(Prop(Registry[items[i][1]], items[i][2]))])

Receive(items, slack) ==
    LET enc == PeerItemBytes(items)
        res == ReceiveProps(PutUint(Len(enc) + slack, 2) \o enc \o Body)
    IN  /\ Step
        /\ Len(enc) + slack >= 0
        /\ res.err = "nil"
        /\ props' = res.props
        /\ len' = res.len

Done == ops = MaxOps /\ UNCHANGED vars

Next ==
    \/ \E c \in Calls : With(c.id, c.prop)
    \/ \E id \in Ids : Remove(id)
    \/ Reset
    \/ \E items \in PeerItems, slack \in PeerSlack : Receive(items, slack)
    \/ Done

Spec == Init /\ [][Next]_vars

-----------------------------------------------------------------------------
IsProp(p) ==
    /\ p.t \in DOMAIN Width \cup {"str"}
    /\ IF p.t = "str" THEN p.v \in Seq(0..255)
       ELSE p.v \in Nat /\ (Width[p.t] <= 2 => p.v < 256^Width[p.t])

TypeOK ==
    /\ DOMAIN props = Ids
    /\ \A id \in Ids : props[id] = NoProp \/ IsProp(props[id])
    /\ len \in Nat
    /\ ops \in 0..MaxOps
    /\ byteOrder \in ByteOrders

(***************************************************************************)
(* Spec 3 (Props): the cached size is the encoded size of what the bag    *)
(* holds, len = the sum of 1 + prop.Size() over its entries, after any    *)
(* sequence of With, Remove, Reset and decoding of a peer's props.  HeadSize *)
(* sizes the send buffer and the props size prefix from it.                *)
(***************************************************************************)
EncodedSize(p) == MapThenSumSet(LAMBDA id : 1 + PropSize(p[id]), Present(p))

LenConsistent == len = EncodedSize(props)

=============================================================================
