------------------------------- MODULE HueStream -------------------------------
(***************************************************************************)
(* parse_huestream_frame of entertainment.py and the lights its channels    *)
(* reach, byte for byte: a datagram of the TV arrives whole or cut short,   *)
(* is parsed as version 1 or version 2 of the protocol, and each channel    *)
(* goes to the light that the mappings of async_setup_entry have for it.    *)
(* The TV's side is its reference. StreamSlot lets what comes out drive     *)
(* the slot of a light.                                                     *)
(***************************************************************************)
EXTENDS Integers, FiniteSets, Sequences, SequencesExt

CONSTANTS
  LightCount,   \* lights of the entertainment area
  FirstChannel, \* the channel that a TV of version 2 uses for the first light,
                \* 0 by the comment in async_setup_entry
  Versions,     \* versions of the protocol that the TV may speak
  MaxChannels,  \* most channels of a frame
  Lengths       \* where a datagram may be cut

ASSUME AreaAssumption == LightCount \in 1..254 /\ FirstChannel \in {0, 1}
ASSUME WireAssumption ==
  MaxChannels \in Nat /\ Versions \subseteq 0..255 /\ Lengths \subseteq Nat

Lights == 1..LightCount

-----------------------------------------------------------------------------
(* The TV *)

Bytes16(value) == <<value \div 256, value % 256>>

Magic == <<72, 117, 101, 83, 116, 114, 101, 97, 109>>

\* Version, colour space (0 for rgb, 1 for xy) and, in version 2, the area's name
Header(version, space) ==
  Magic \o <<version, 0, 0, 0, 0, IF space = "xy" THEN 1 ELSE 0, 0>>
        \o [i \in 1..(IF version = 2 THEN 36 ELSE 0) |-> 45]

ChannelId(version, light) == IF version = 2 THEN light - 1 + FirstChannel ELSE light

ChannelBytes(version, channel) ==
  LET id == ChannelId(version, channel.light)
  IN (IF version = 2 THEN <<id>> ELSE <<0>> \o Bytes16(id))
     \o Bytes16(channel.colour[1]) \o Bytes16(channel.colour[2]) \o Bytes16(channel.colour[3])

ChannelSize(version) == IF version = 2 THEN 7 ELSE 9

Datagram(version, space, picture) ==
  LET size == ChannelSize(version)
  IN Header(version, space)
     \o [i \in 1..(size * Len(picture)) |->
           ChannelBytes(version, picture[((i - 1) \div size) + 1])[((i - 1) % size) + 1]]

\* As much of a picture as lies in the first bytes of its datagram
Arrived(version, space, picture, length) ==
  LET fits == {k \in 1..Len(picture) :
                 Len(Datagram(version, space, SubSeq(picture, 1, k))) <= length}
  IN IF version \in {1, 2} THEN SubSeq(picture, 1, Cardinality(fits)) ELSE <<>>

-----------------------------------------------------------------------------
(* The parser. Offsets count from 0, as in the code. *)

ByteAt(data, offset) == data[offset + 1]
Unpack(data, offset) == ByteAt(data, offset) * 256 + ByteAt(data, offset + 1)
ColourAt(data, offset) ==
  <<Unpack(data, offset), Unpack(data, offset + 2), Unpack(data, offset + 4)>>

\* Mutant: a channel that ends with the datagram is taken for a partial one.
WholeBeforeEnd(data, header, size) == (Len(data) - header - 1) \div size

\* How many channels lie in the datagram
Whole(data, header, size) == (Len(data) - header) \div size

parse_v2_channels(data) ==
  [k \in 1..Whole(data, 52, 7) |->
     LET offset == 52 + 7 * (k - 1)
     IN [id |-> ByteAt(data, offset), colour |-> ColourAt(data, offset + 1)]]

parse_v1_channels(data) ==
  [k \in 1..Whole(data, 16, 9) |->
     LET offset == 16 + 9 * (k - 1)
     IN [id |-> Unpack(data, offset + 1), colour |-> ColourAt(data, offset + 3)]]

InvalidFrame == [space |-> "none", channels |-> <<>>]

Parsed(data, channels) ==
  [space |-> IF ByteAt(data, 14) = 1 THEN "xy" ELSE "rgb", channels |-> channels]

\* A frame of version 2 may be without channels, one of version 1 may not.
parse_huestream_frame(data) ==
  IF ~IsPrefix(Magic, data) \/ Len(data) < 15 THEN InvalidFrame
  ELSE CASE ByteAt(data, 9) = 2 /\ Len(data) >= 52 -> Parsed(data, parse_v2_channels(data))
         [] ByteAt(data, 9) = 1 /\ Len(data) >= 25 -> Parsed(data, parse_v1_channels(data))
         [] OTHER -> InvalidFrame

\* The mappings: which light a channel identifier stands for
Mapping == [id \in Lights |-> id]
=============================================================================
