------------------------------- MODULE LightSlot -------------------------------
(***************************************************************************)
(* One LightMapping of entertainment.py with the data it carries: what a   *)
(* frame or a classic command writes into the slot, what the drain loop    *)
(* makes of it, the tolerance that keeps small changes off the radio and   *)
(* the transition that fades from one colour to the next.                  *)
(*                                                                         *)
(* EntertainmentEngine has the sessions, the drain tasks and the faults,   *)
(* with colours as model values; here the light answers every call and the *)
(* loop runs on. The TV streams during a session and sends classic         *)
(* commands outside one.                                                   *)
(***************************************************************************)
EXTENDS Integers, Functions

CONSTANTS
  Pictures, \* what a frame may say of the light: three unsigned 16-bit values
  Bodies,   \* v1 light-state bodies: functions from their fields to values
  MinFade,  \* limits of the dynamic transition, in tenths of a second
  MaxFade,
  None      \* Python's None

Word == 0 .. 65535

ASSUME PicturesAssumption == Pictures \subseteq Word \X Word \X Word
ASSUME FadeAssumption == MinFade \in Nat /\ MaxFade \in Nat /\ 0 < MinFade /\ MinFade <= MaxFade
ASSUME NoneAssumption == None \notin Pictures \cup Nat

VARIABLES
  stream, \* "off", or the colour space of the session's frames
  last,   \* last_r, last_g, last_b
  slot,   \* dirty, pending_data, explicit_transition
  sent,   \* tenths of a second since last_sent, None while that is 0.0
  call,   \* the service call the drain loop awaits, or NoCall
  lamp,   \* what the light shows
  asked,  \* history: what classic commands asked for since the last reset
  newest, \* history: the freshest frame since the last reset, or None
  fresh   \* history: no call has begun since the last reset

vars == <<stream, last, slot, sent, call, lamp, asked, newest, fresh>>

Nothing   == <<-1, -1, -1>>  \* the sentinel of "nothing sent"
EmptySlot == [dirty |-> FALSE, data |-> None, explicit |-> FALSE]
NoData    == <<>>            \* the empty function
NoCall    == [service |-> "none", data |-> NoData]

\* What the commands asked of the light, when they asked nothing yet; "moot"
\* when a colour follows an "off" without an "on".
AskedNothing == [on |-> "open", data |-> NoData]

Colours == {"rgb_color", "xy_color", "hs_color", "color_temp_kelvin"}
Visible == Colours \cup {"brightness"}

Only(data, keys) == Restrict(data, DOMAIN data \cap keys)

\* before.update(data)
Update(before, data) ==
  [k \in DOMAIN before \cup DOMAIN data |-> IF k \in DOMAIN data THEN data[k] ELSE before[k]]

TypeOK ==
  /\ stream \in {"off", "rgb", "xy"}
  /\ last \in Pictures \cup {Nothing} /\ newest \in Pictures \cup {None}
  /\ slot.dirty \in BOOLEAN /\ slot.explicit \in BOOLEAN
  /\ slot.dirty => slot.data.service \in {"turn_on", "turn_off"}
  /\ sent \in {None} \cup 0 .. (MaxFade + 1)
  /\ call.service \in {"none", "turn_on", "turn_off"}
  /\ lamp.on \in BOOLEAN
  /\ asked.on \in {"open", "yes", "no", "moot"}
  /\ fresh \in BOOLEAN

\* data over what was there before; a new colour replaces one of any kind.
Over(data, before) ==
  IF DOMAIN data \cap Colours = {}
  THEN Update(before, Only(data, Visible))
  ELSE Update(Only(before, {"brightness"}), Only(data, Visible))

Init ==
  /\ stream = "off" /\ last = Nothing /\ slot = EmptySlot /\ sent = None /\ call = NoCall
  /\ lamp = [on |-> FALSE, data |-> NoData]
  /\ asked = AskedNothing /\ newest = None /\ fresh = TRUE

-----------------------------------------------------------------------------
(* Frames *)

Near(a, b, tolerance) == a - b < tolerance /\ b - a < tolerance

\* BRIGHTNESS_TOLERANCE is 16, CIE_TOLERANCE 0.03 of the full scale. In XY the
\* sentinel is out of everything's tolerance, in RGB within that of the dark.
WithinTolerance(p) ==
  IF stream = "xy"
  THEN /\ \A i \in 1 .. 2 : last[i] >= 0 /\ Near(100 * p[i], 100 * last[i], 3 * 65535)
       /\ Near(p[3], last[3], 16)
  ELSE \A i \in 1 .. 3 : Near(p[i], last[i], 16)

Peak(p) == LET i == CHOOSE i \in 1 .. 3 : \A j \in 1 .. 3 : p[j] <= p[i] IN p[i]

\* round(b / 65535 * 255) in XY; the peak's high byte, at least 1, in RGB.
FrameData(p) ==
  IF stream = "xy"
  THEN [xy_color |-> <<p[1], p[2]>>, brightness |-> (p[3] + 128) \div 257]
  ELSE [rgb_color  |-> [i \in 1 .. 3 |-> p[i] \div 256],
        brightness |-> IF Peak(p) < 256 THEN 1 ELSE Peak(p) \div 256]

TurnOn(data) == [service |-> "turn_on", data |-> data]

\* Mutant: the tolerance is measured from the last frame, not from the last sent.
FrameMovesReference(p) ==
  /\ last' = p
  /\ slot' = IF WithinTolerance(p)
             THEN slot
             ELSE [slot EXCEPT !.dirty = TRUE, !.data = TurnOn(FrameData(p))]

ScheduleUpdate(p) ==
  IF WithinTolerance(p)
  THEN UNCHANGED <<last, slot>>
  ELSE /\ last' = p
       /\ slot' = [slot EXCEPT !.dirty = TRUE, !.data = TurnOn(FrameData(p))]

\* A frame that is not dropped
handle_frame(p) ==
  /\ stream # "off"
  /\ ScheduleUpdate(p)
  /\ newest' = p
  /\ UNCHANGED <<stream, sent, call, lamp, asked, fresh>>

-----------------------------------------------------------------------------
(* Classic commands *)

Field(body, field, key) ==
  IF field \in DOMAIN body THEN [k \in {key} |-> body[field]] ELSE NoData

\* max(1, min(255, round(bri * 255 / 254)))
V1Brightness(bri) ==
  IF bri < 1 THEN 1 ELSE IF bri < 127 THEN bri ELSE IF bri < 255 THEN bri + 1 ELSE 255

Brightness(body) ==
  IF "bri" \in DOMAIN body THEN [brightness |-> V1Brightness(body["bri"])] ELSE NoData

\* Hue and saturation count as one field.
Colour(body) ==
  IF "xy" \in DOMAIN body THEN Field(body, "xy", "xy_color")
  ELSE IF "hue" \in DOMAIN body THEN Field(body, "hue", "hs_color")
  ELSE Field(body, "ct", "color_temp_kelvin")

Says(body, on) == "on" \in DOMAIN body /\ body["on"] = on

ServiceData(body) ==
  IF Says(body, FALSE)
  THEN [service |-> "turn_off", data |-> Field(body, "transitiontime", "transition")]
  ELSE TurnOn(Update(Field(body, "transitiontime", "transition"),
                     Update(Colour(body), Brightness(body))))

Empty(body) == ServiceData(body).data = NoData /\ "on" \notin DOMAIN body

\* What is merged with: a command still queued, unless one of the two is an "off"
Pending(body) ==
  IF slot.dirty /\ slot.explicit /\ slot.data.service = "turn_on" /\ ~Says(body, FALSE)
  THEN slot.data.data ELSE NoData

\* A colour for a light that is queued to be turned off
Moot(body) ==
  /\ slot.dirty /\ slot.explicit /\ slot.data.service = "turn_off"
  /\ "on" \notin DOMAIN body

Asks(body) ==
  LET data == ServiceData(body).data
  IN  IF Says(body, FALSE) THEN [on |-> "no", data |-> NoData]
      ELSE IF asked.on \notin {"no", "moot"} THEN [on |-> "yes", data |-> Over(data, asked.data)]
      ELSE IF Says(body, TRUE) THEN [on |-> "yes", data |-> Over(data, NoData)]
      ELSE [on |-> "moot", data |-> NoData]

handle_light_command(body) ==
  /\ stream = "off"
  /\ ~Empty(body)
  /\ asked' = Asks(body)
  /\ slot' = IF Moot(body)
             THEN slot
             ELSE [dirty |-> TRUE, explicit |-> TRUE,
                   data |-> [ServiceData(body) EXCEPT !.data = Update(Pending(body), @)]]
  /\ UNCHANGED <<stream, last, sent, call, lamp, newest, fresh>>

-----------------------------------------------------------------------------
(* The drain loop *)

Fade == IF sent = None THEN 0
        ELSE IF sent < MinFade THEN MinFade
        ELSE IF sent > MaxFade THEN MaxFade
        ELSE sent

\* Grab and clear the slot, note the time, and begin the call.
DrainSends ==
  /\ call = NoCall /\ slot.dirty
  /\ slot' = EmptySlot
  /\ call' = IF slot.explicit
             THEN slot.data
             ELSE [slot.data EXCEPT !.data = Update(@, [transition |-> Fade])]
  /\ sent' = 0
  /\ fresh' = FALSE
  /\ UNCHANGED <<stream, last, lamp, asked, newest>>

\* Home Assistant accepts one colour descriptor in a call and takes brightness 0
\* for an "off".
Shows(c) ==
  LET colours == DOMAIN c.data \cap Colours
      off == \/ c.service = "turn_off"
             \/ "brightness" \in DOMAIN c.data /\ c.data["brightness"] = 0
  IN  IF \E k, j \in colours : k # j THEN lamp
      ELSE IF off THEN [lamp EXCEPT !.on = FALSE]
      ELSE [on |-> TRUE, data |-> Over(c.data, lamp.data)]

\* Mutant: what was queued during the call goes with what it carried.
ReturnClearsSlot ==
  /\ call # NoCall
  /\ lamp' = Shows(call)
  /\ call' = NoCall
  /\ slot' = EmptySlot
  /\ UNCHANGED <<stream, last, sent, asked, newest, fresh>>

\* Mutant: the time of the call is noted when it returns.
ReturnNotesTime ==
  /\ call # NoCall
  /\ lamp' = Shows(call)
  /\ call' = NoCall
  /\ sent' = 0
  /\ UNCHANGED <<stream, last, slot, asked, newest, fresh>>

\* The blocking call returns.
CallReturns ==
  /\ call # NoCall
  /\ lamp' = Shows(call)
  /\ call' = NoCall
  /\ UNCHANGED <<stream, last, slot, sent, asked, newest, fresh>>

\* A tenth of a second passes.
Tick ==
  /\ sent # None /\ sent <= MaxFade
  /\ sent' = sent + 1
  /\ UNCHANGED <<stream, last, slot, call, lamp, asked, newest, fresh>>

-----------------------------------------------------------------------------
(* Resets *)

ResetMapping ==
  /\ slot' = [slot EXCEPT !.dirty = FALSE, !.data = None]
  /\ last' = Nothing
  /\ sent' = None
  /\ asked' = AskedNothing /\ newest' = None /\ fresh' = TRUE

\* async_snapshot_lights
SessionStarts(space) ==
  /\ stream = "off" /\ stream' = space
  /\ ResetMapping
  /\ UNCHANGED <<call, lamp>>

\* async_restore_lights cancels the drain loop: its call has an effect or not.
SessionEnds ==
  /\ stream # "off" /\ stream' = "off"
  /\ ResetMapping
  /\ call' = NoCall
  /\ lamp' \in {lamp} \cup (IF call = NoCall THEN {} ELSE {Shows(call)})

\* async_pause, async_release: what comes until the suppression ends is dropped.
Suppression ==
  /\ ResetMapping
  /\ UNCHANGED <<stream, call, lamp>>

-----------------------------------------------------------------------------

Next ==
  \/ \E p \in Pictures : handle_frame(p)
  \/ \E body \in Bodies : handle_light_command(body)
  \/ DrainSends \/ CallReturns \/ Tick
  \/ \E space \in {"rgb", "xy"} : SessionStarts(space)
  \/ SessionEnds \/ Suppression

Spec == Init /\ [][Next]_vars

-----------------------------------------------------------------------------
(* Properties *)

Has(data, shown) == \A k \in DOMAIN shown : k \in DOMAIN data /\ data[k] = shown[k]

\* The light keeps up with the picture without drift: the freshest frame is
\* within tolerance of the colour last dispatched, and that colour is in the
\* slot, on the wire or on the light, however the frames, the calls and the
\* resets fall (_schedule_update). Only a dark first frame is taken for a repeat
\* of the sentinel.
ShowsPicture ==
  newest # None =>
    /\ WithinTolerance(newest)
    /\ last # Nothing =>
         IF slot.dirty THEN slot.data = TurnOn(FrameData(last))
         ELSE IF call # NoCall THEN call.service = "turn_on" /\ Only(call.data, Visible) = FrameData(last)
         ELSE IF FrameData(last).brightness = 0 THEN ~lamp.on
         ELSE lamp = [on |-> TRUE, data |-> FrameData(last)]

\* The first colour sent after a start, a pause or a release snaps, whatever was
\* on the wire when it began; every later one fades ("the first command after
\* suppression ends should snap to the live colour immediately", async_pause).
\* Excepted is a frame in a slot whose explicit_transition a command left set.
SnapsAfterReset ==
  [][DrainSends /\ stream # "off" /\ ~slot.explicit =>
       IF fresh THEN call'.data["transition"] = 0
       ELSE call'.data["transition"] \in MinFade .. MaxFade]_vars

\* Commands merged into the slot, or queued behind a call on the wire, add up:
\* once nothing is queued and nothing on the wire, the light shows every field
\* the TV asked for last ("the lights just follow", handle_light_command).
LightFollows ==
  stream = "off" /\ ~slot.dirty /\ call = NoCall =>
    /\ asked.on = "yes" => lamp.on /\ Has(lamp.data, asked.data)
    /\ asked.on = "no"  => ~lamp.on
=============================================================================
