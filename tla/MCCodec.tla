------------------------------ MODULE MCCodec ------------------------------
(* Codec with the registered props ids, two values per type, packets of   *)
(* every head the registry creates, and malformed frames of a peer.        *)
EXTENDS Codec, PropTypes, Integers

(* The application registers a float property and sets every registered *)
(* id through the wrapper of its type, the signed ones included.           *)
MCAppRegistry == 4 :> "f32"

MCCalls ==
    { WithUint64(PropCreatedTime, 1700000000),
      WithUint16(PropSubId, 258), WithInt16(PropSubId, -2),
      WithStr(PropTopic, <<49, 48>>), WithStr(PropTopic, <<>>),
      WithFloat32(4, 1065353216) }

(* A body whose first byte is no property id. *)
MCBody == <<5>>

(* What another gosocket encodes: each id once (a map). *)
Item == {<<1, 1700000000>>, <<2, 258>>, <<3, <<49, 48>>>>}

MCPeerItemsDistinct ==
    {<<>>} \cup {<<a>> : a \in Item} \cup {<<a, b>> \in Item \X Item : a[1] /= b[1]}

(* A peer declares the exact props size, or one byte less: the decode  *)
(* loop tests the end only before an id, so the last property crosses it. *)
MCPeerSlack == {-1, 0}

B2 == <<[val |-> 9, n |-> 2]>>

(* Versions are even and the codec 0: vc & 0x08 keeps bit 3 of vc, which *)
(* is bit 0 of the version and bit 3 of the codec (see README).           *)
MCTemplates ==
    { NewPingPkt,
      SetBody(NewPongPkt, B2),
      NewFullNotifyPkt(258, 6, 0, B2),
      NewFullSubPkt(7, 1, 2, 0, <<>>),
      NewFullPubPkt(<<116>>, 2, 0, 0, B2) }

(* A kind with no creator; a Notify whose payload is shorter than the     *)
(* NotifyHead; a props item with id 9; a payload over the 20 byte limit.  *)
MCRawFrames ==
    { Runs(<<7 * 16, 0, 0>>),
      Runs(<<2 * 16, 0, 3, 1, 2, 3>>),
      Runs(<<2 * 16, 0, 6, 0, 1, 0, 0, 1, 9>>),
      Runs(<<1 * 16, 0, 40>>) \o <<[val |-> 0, n |-> 40]>> }

(* A Ping whose body is 65536 bytes: its payload size is within the       *)
(* default maxPktSize (2<<16 - 1) and not within a uint16.                 *)
MCLargeTemplates == { SetBody(NewPingPkt, <<[val |-> 0, n |-> 65536]>>) }

=============================================================================
