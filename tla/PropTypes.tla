----------------------------- MODULE PropTypes -----------------------------
(***************************************************************************)
(* The Prop types of pkts/property.go and the Props.With* wrappers that   *)
(* build them.  A Prop is [t |-> its type, v |-> its value]: a number for *)
(* the fixed-width types (the IEEE bits for a float) and a sequence of    *)
(* bytes for a string.                                                     *)
(***************************************************************************)
EXTENDS Naturals, Sequences, TLC

(* Property ids and the creators init() registers. *)
PropCreatedTime == 1
PropSubId == 2
PropTopic == 3

InitRegistry == (PropCreatedTime :> "u64") @@ (PropSubId :> "u16") @@ (PropTopic :> "str")

(* Size of the fixed-width Prop types; Encode and Decode are the          *)
(* PutUintN / UintN of that width (PutFloatN writes the value's bits).     *)
Width == ("u8" :> 1) @@ ("u16" :> 2) @@ ("u32" :> 4) @@ ("u64" :> 8)
         @@ ("f32" :> 4) @@ ("f64" :> 8)

Prop(t, v) == [t |-> t, v |-> v]

(* Prop.Size; StringProp.Size is 2 + len(Val). *)
PropSize(p) == IF p.t = "str" THEN 2 + Len(p.v) ELSE Width[p.t]

(* The typed wrappers: each makes the call p.With(id, &XProp{val}).  The  *)
(* signed ones convert to the unsigned type of the same width first: a    *)
(* negative val becomes val + 2^bits (evaluated only for a negative val,   *)
(* since TLC's integers end below 2^31).                                   *)
Unsigned(val, bits) == IF val >= 0 THEN val ELSE val + 2^bits

(* A With call, recorded with the getter that reads the value back and   *)
(* the argument as the application gave it.                               *)
Call(id, prop, get, val) == [id |-> id, prop |-> prop, get |-> get, arg |-> val]

WithUint8(id, val) == Call(id, Prop("u8", val), "Uint8", val)
WithUint16(id, val) == Call(id, Prop("u16", val), "Uint16", val)
WithUint32(id, val) == Call(id, Prop("u32", val), "Uint32", val)
WithUint64(id, val) == Call(id, Prop("u64", val), "Uint64", val)
WithFloat32(id, bits) == Call(id, Prop("f32", bits), "Float32", bits)
WithFloat64(id, bits) == Call(id, Prop("f64", bits), "Float64", bits)
WithStr(id, val) == Call(id, Prop("str", val), "Str", val)
WithByte(id, val) == [WithUint8(id, val) EXCEPT !.get = "Byte"]
WithInt8(id, val) == [WithUint8(id, Unsigned(val, 8)) EXCEPT !.get = "Int8", !.arg = val]
WithInt16(id, val) == [WithUint16(id, Unsigned(val, 16)) EXCEPT !.get = "Int16", !.arg = val]
WithInt32(id, val) == [WithUint32(id, Unsigned(val, 32)) EXCEPT !.get = "Int32", !.arg = val]
WithInt64(id, val) == [WithUint64(id, Unsigned(val, 64)) EXCEPT !.get = "Int64", !.arg = val]

(* The conversion intN(v) of a uintN v in the GetIntN wrappers.  Values  *)
(* of 32 and 64 bits are TLC integers, below 2^31, so below 2^(bits-1).   *)
Signed(v, bits) == IF bits > 16 \/ v < 2^(bits - 1) THEN v ELSE v - 2^bits

=============================================================================
