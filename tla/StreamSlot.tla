------------------------------- MODULE StreamSlot -------------------------------
(***************************************************************************)
(* The slot of one light under the datagrams of the TV: HueStream's parser  *)
(* finds the channels, handle_frame of entertainment.py schedules the one   *)
(* that is mapped to the light, and LightSlot has what follows. The TV      *)
(* names a light at most once in a frame. Every step is one of LightSlot or *)
(* leaves the slot alone.                                                   *)
(***************************************************************************)
EXTENDS LightSlot, HueStream

CONSTANT Light \* the one whose slot it is

ASSUME LightAssumption == Light \in Lights

VARIABLE said \* history: what the TV said of the light since the last reset, or None

streamVars == <<vars, said>>

Frames ==
  {picture \in BoundedSeq([light : Lights, colour : Pictures], MaxChannels) :
     \A j, k \in DOMAIN picture : picture[j].light = picture[k].light => j = k}

\* The colour that channels have for the light, by its name or by its mapping
Said(channels) ==
  IF \E c \in Range(channels) : c.light = Light
  THEN (CHOOSE c \in Range(channels) : c.light = Light).colour ELSE None

Heard(channels) ==
  LET Own(c) == c.id \in DOMAIN Mapping /\ Mapping[c.id] = Light
  IN IF \E c \in Range(channels) : Own(c)
     THEN (CHOOSE c \in Range(channels) : Own(c)).colour ELSE None

\* What a datagram, whole or cut short, says of the light and what is heard
Arrival(version, space, picture, length) ==
  LET data  == Datagram(version, space, picture)
      frame == parse_huestream_frame(SubSeq(data, 1, IF length < Len(data) THEN length ELSE Len(data)))
  IN [space |-> space,
      said  |-> Said(Arrived(version, space, picture, length)),
      heard |-> IF frame.space = space THEN Heard(frame.channels) ELSE None]

Arrivals ==
  {Arrival(version, space, picture, length) :
     version \in Versions, space \in {"rgb", "xy"}, picture \in Frames, length \in Lengths}

StreamInit == Init /\ said = None

FrameArrives ==
  \E a \in Arrivals :
    /\ stream = a.space
    /\ said' = (IF a.said = None THEN said ELSE a.said)
    /\ IF a.heard = None THEN UNCHANGED vars ELSE handle_frame(a.heard)

Otherwise ==
  /\ \/ \E body \in Bodies : handle_light_command(body)
     \/ DrainSends \/ CallReturns \/ Tick
     \/ \E space \in {"rgb", "xy"} : SessionStarts(space)
     \/ SessionEnds \/ Suppression
  /\ said' = (IF newest' = None THEN None ELSE said)

StreamNext == FrameArrives \/ Otherwise

StreamSpec == StreamInit /\ [][StreamNext]_streamVars

\* The slot hears of its light what the TV said, and the freshest of it: wherever
\* a datagram is cut, the channels that arrived whole count, with the right bytes
\* for the right light, and no others do (parse_huestream_frame, _schedule_update).
\* It holds of a TV of version 1, and of one of version 2 only if that counted its
\* channels from 1: async_setup_entry promises to map the channels of both versions,
\* those of version 2 counted from 0. What becomes of a colour is ShowsPicture.
HearsWhatIsSaid == newest = said
=============================================================================
