--------------------------- MODULE StreamSlot_proofs ---------------------------
(***************************************************************************)
(* Theorems about StreamSlot and the modules it is made of.                *)
(*                                                                         *)
(* LightSlot: for every picture, every command and every limit of the      *)
(* fade, the light keeps up with the picture, and what comes first after a *)
(* reset snaps. HueStream: for every area, every frame and every length at *)
(* which a datagram is cut, the parser gives back what the TV put in.      *)
(* StreamSlot: it hears what the TV said, and it implements LightSlot, so  *)
(* that what holds of the slot holds of it under the datagrams.            *)
(***************************************************************************)
EXTENDS StreamSlot, FiniteSetTheorems, SequenceTheorems, TLAPS

-----------------------------------------------------------------------------
(* LightSlot *)

IsCommand(c) == c = [service |-> c.service, data |-> c.data]

Shapes ==
  /\ slot = [dirty |-> slot.dirty, data |-> slot.data, explicit |-> slot.explicit]
  /\ slot.dirty => IsCommand(slot.data)
  /\ IsCommand(call)
  /\ lamp = [on |-> lamp.on, data |-> lamp.data]

\* What a reset leaves, and what a session begins with
Resets ==
  /\ fresh = TRUE <=> sent = None
  /\ stream = "off" => newest = None
  /\ newest = None => last = Nothing

SlotInv == TypeOK /\ Shapes /\ Resets /\ ShowsPicture

-----------------------------------------------------------------------------
(* What a frame says of the light *)

ColourKey == IF stream = "xy" THEN "xy_color" ELSE "rgb_color"

LEMMA FrameFields ==
  ASSUME NEW p
  PROVE  /\ DOMAIN FrameData(p) = {ColourKey, "brightness"}
         /\ FrameData(p) = [k \in {ColourKey, "brightness"} |-> FrameData(p)[k]]
         /\ ColourKey \in Colours
  BY DEF FrameData, ColourKey, Colours

\* The transition that is added to a frame's data is not seen.
LEMMA SentPicture ==
  ASSUME NEW p, NEW t
  PROVE  /\ Only(FrameData(p), Visible) = FrameData(p)
         /\ Only(Update(FrameData(p), [transition |-> t]), Visible) = FrameData(p)
<1> DEFINE f == FrameData(p)
           u == Update(f, [transition |-> t])
<1>1. /\ DOMAIN f = {ColourKey, "brightness"}
      /\ f = [k \in {ColourKey, "brightness"} |-> f[k]]
      /\ ColourKey \in Colours
  BY FrameFields
<1> HIDE DEF f
<1>2. /\ DOMAIN u = {ColourKey, "brightness", "transition"}
      /\ u[ColourKey] = f[ColourKey] /\ u["brightness"] = f["brightness"]
  BY <1>1 DEF Update, Colours
<1> HIDE DEF u
<1>3. {ColourKey, "brightness"} \cap Visible = {ColourKey, "brightness"}
  BY <1>1 DEF Visible
<1>4. {ColourKey, "brightness", "transition"} \cap Visible = {ColourKey, "brightness"}
  BY <1>1 DEF Visible, Colours
<1>5. Only(f, Visible) = f
  BY <1>1, <1>3 DEF Only, Restrict
<1>6. Only(u, Visible) = f
  BY <1>1, <1>2, <1>4 DEF Only, Restrict
<1>7. QED
  BY <1>2, <1>5, <1>6 DEF f, u

\* A call that carries a frame leaves the light with what the frame says.
LEMMA ShownPicture ==
  ASSUME NEW p, NEW c, c.service = "turn_on", Only(c.data, Visible) = FrameData(p)
  PROVE  IF FrameData(p).brightness = 0
         THEN Shows(c) = [lamp EXCEPT !.on = FALSE]
         ELSE Shows(c) = [on |-> TRUE, data |-> FrameData(p)]
<1> DEFINE f == FrameData(p)
           d == c.data
<1>1. /\ DOMAIN f = {ColourKey, "brightness"}
      /\ f = [k \in {ColourKey, "brightness"} |-> f[k]]
      /\ ColourKey \in Colours
  BY FrameFields
<1> HIDE DEF f
<1>2. /\ Only(d, Visible) = f
      /\ Only(d, Visible) = [k \in DOMAIN d \cap Visible |-> d[k]]
  BY DEF f, Only, Restrict
<1> HIDE DEF d
<1>3. DOMAIN d \cap Visible = {ColourKey, "brightness"}
  BY <1>1, <1>2
<1>4. "brightness" \in DOMAIN d /\ d["brightness"] = f["brightness"]
  BY <1>2, <1>3
<1>5. DOMAIN d \cap Colours = {ColourKey}
  BY <1>1, <1>3 DEF Visible, Colours
<1>6. Over(d, lamp.data) = f
  <2>1. Over(d, lamp.data) = Update(Only(lamp.data, {"brightness"}), f)
    BY <1>2, <1>5 DEF Over
  <2>2. DOMAIN Only(lamp.data, {"brightness"}) \cup DOMAIN f = {ColourKey, "brightness"}
    BY <1>1 DEF Only, Restrict
  <2>3. QED
    BY <1>1, <2>1, <2>2 DEF Update
<1>7. CASE f["brightness"] = 0
  BY <1>4, <1>5, <1>7 DEF Shows, d, f
<1>8. CASE f["brightness"] # 0
  BY <1>4, <1>5, <1>6, <1>8 DEF Shows, d, f
<1>9. QED
  BY <1>7, <1>8 DEF f

-----------------------------------------------------------------------------
(* The steps *)

LEMMA ResetKeeps ==
  ASSUME SlotInv, ResetMapping, stream' \in {"off", "rgb", "xy"},
         call' = call \/ call' = NoCall,
         lamp' = lamp \/ lamp' = Shows(call)
  PROVE  SlotInv'
<1>1. lamp' = [on |-> lamp'.on, data |-> lamp'.data] /\ lamp'.on \in BOOLEAN
  <2>1. CASE lamp' = lamp
    BY <2>1 DEF SlotInv, TypeOK, Shapes
  <2>2. CASE lamp' = Shows(call)
    BY <2>2 DEF SlotInv, TypeOK, Shapes, Shows
  <2>3. QED
    BY <2>1, <2>2
<1>2. IsCommand(call') /\ call'.service \in {"none", "turn_on", "turn_off"}
  BY DEF SlotInv, TypeOK, Shapes, IsCommand, NoCall
<1>3. /\ slot' = [dirty |-> FALSE, data |-> None, explicit |-> slot.explicit]
      /\ last' = Nothing /\ sent' = None /\ newest' = None /\ fresh' = TRUE
      /\ asked'.on = "open"
  BY DEF ResetMapping, AskedNothing, SlotInv, Shapes
<1>4. QED
  BY <1>1, <1>2, <1>3 DEF SlotInv, TypeOK, Shapes, Resets, ShowsPicture

LEMMA WordsAreNear ==
  \A n \in Word : n >= 0 /\ Near(n, n, 16) /\ Near(100 * n, 100 * n, 3 * 65535)
<1> SUFFICES ASSUME NEW n \in Word
             PROVE  n >= 0 /\ Near(n, n, 16) /\ Near(100 * n, 100 * n, 3 * 65535)
  OBVIOUS
<1>1. n \in Nat
  BY SMTT(30) DEF Word
<1>2. \A m \in Int : m - m < 16 /\ m - m < 3 * 65535
  OBVIOUS
<1>3. n >= 0 /\ n \in Int /\ 100 * n \in Int
  BY <1>1
<1>4. QED
  BY <1>2, <1>3, SMTT(30) DEF Near

LEMMA FrameKeeps ==
  ASSUME SlotInv, NEW p \in Pictures, handle_frame(p)
  PROVE  SlotInv'
<1>1. newest' = p /\ p # None /\ \A i \in 1 .. 3 : p[i] \in Word
  <2>1. p \in Word \X Word \X Word
    BY PicturesAssumption
  <2>2. p[1] \in Word /\ p[2] \in Word /\ p[3] \in Word
    BY <2>1
  <2>3. \A i \in 1 .. 3 : i = 1 \/ i = 2 \/ i = 3
    OBVIOUS
  <2>4. newest' = p /\ p # None
    BY NoneAssumption DEF handle_frame
  <2>5. QED
    BY <2>2, <2>3, <2>4
<1>2. UNCHANGED <<stream, sent, call, lamp, asked, fresh>> /\ stream # "off"
  BY DEF handle_frame
<1>3. CASE WithinTolerance(p)
  <2>1. UNCHANGED <<last, slot>>
    BY <1>3 DEF handle_frame, ScheduleUpdate
  <2>2. WithinTolerance(newest)'
    BY <1>1, <1>2, <1>3, <2>1 DEF WithinTolerance
  <2>3. newest = None => last' = Nothing
    BY <2>1 DEF SlotInv, Resets
  <2>4. FrameData(last)' = FrameData(last)
    BY <1>2, <2>1 DEF FrameData
  <2>5. QED
    BY <1>1, <1>2, <2>1, <2>2, <2>3, <2>4
    DEF SlotInv, TypeOK, Shapes, Resets, ShowsPicture
<1>4. CASE ~WithinTolerance(p)
  <2>1. /\ last' = p
        /\ slot' = [dirty |-> TRUE, data |-> TurnOn(FrameData(p)), explicit |-> slot.explicit]
    BY <1>4 DEF handle_frame, ScheduleUpdate, SlotInv, Shapes
  <2>2. WithinTolerance(newest)'
    <3>1. \A i \in 1 .. 3 : newest'[i] = last'[i] /\ last'[i] \in Word
      BY <1>1, <2>1
    <3>2. \A n \in Word : n >= 0 /\ Near(n, n, 16) /\ Near(100 * n, 100 * n, 3 * 65535)
      BY WordsAreNear
    <3>3. 1 \in 1 .. 3 /\ 2 \in 1 .. 3 /\ 3 \in 1 .. 3 /\ \A i \in 1 .. 2 : i \in 1 .. 3
      OBVIOUS
    <3>4. QED
      BY <3>1, <3>2, <3>3 DEF WithinTolerance
  <2>3. FrameData(last)' = FrameData(p)
    BY <1>2, <2>1 DEF FrameData
  <2>4. IsCommand(slot'.data) /\ slot'.data.service = "turn_on"
    BY <2>1 DEF IsCommand, TurnOn
  <2>5. QED
    BY <1>1, <1>2, <2>1, <2>2, <2>3, <2>4
    DEF SlotInv, TypeOK, Shapes, Resets, ShowsPicture
<1>5. QED
  BY <1>3, <1>4

LEMMA CommandKeeps ==
  ASSUME SlotInv, NEW body \in Bodies, handle_light_command(body)
  PROVE  SlotInv'
<1>1. UNCHANGED <<stream, last, sent, call, lamp, newest, fresh>> /\ newest = None
  BY DEF handle_light_command, SlotInv, Resets
<1>2. asked'.on \in {"open", "yes", "no", "moot"}
  BY DEF handle_light_command, Asks
<1>3. IsCommand(ServiceData(body)) /\ ServiceData(body).service \in {"turn_on", "turn_off"}
  BY DEF ServiceData, TurnOn, IsCommand
<1>4. /\ slot' = [dirty |-> slot'.dirty, data |-> slot'.data, explicit |-> slot'.explicit]
      /\ slot'.dirty \in BOOLEAN /\ slot'.explicit \in BOOLEAN
      /\ slot'.dirty => IsCommand(slot'.data) /\ slot'.data.service \in {"turn_on", "turn_off"}
  <2>1. CASE Moot(body)
    BY <2>1 DEF handle_light_command, SlotInv, TypeOK, Shapes
  <2>2. CASE ~Moot(body)
    <3> DEFINE data == [ServiceData(body) EXCEPT !.data = Update(Pending(body), @)]
    <3>1. slot' = [dirty |-> TRUE, explicit |-> TRUE, data |-> data]
      BY <2>2 DEF handle_light_command
    <3>2. IsCommand(data) /\ data.service \in {"turn_on", "turn_off"}
      BY <1>3 DEF IsCommand
    <3>3. QED
      BY <3>1, <3>2
  <2>3. QED
    BY <2>1, <2>2
<1>5. QED
  BY <1>1, <1>2, <1>4 DEF SlotInv, TypeOK, Shapes, Resets, ShowsPicture

LEMMA AddedField ==
  ASSUME NEW d, NEW t
  PROVE  Update(d, [transition |-> t])["transition"] = t
  BY DEF Update

\* What the drain loop sends is what stands in the slot, with the fade.
LEMMA DrainFacts ==
  ASSUME SlotInv, DrainSends
  PROVE  /\ call' = [service |-> slot.data.service, data |-> call'.data]
         /\ slot.explicit => call' = slot.data
         /\ ~slot.explicit => call'.data = Update(slot.data.data, [transition |-> Fade])
         /\ slot.data = [service |-> slot.data.service, data |-> slot.data.data]
         /\ slot.data.service \in {"turn_on", "turn_off"}
  BY DEF SlotInv, TypeOK, Shapes, IsCommand, DrainSends

LEMMA DrainKeeps ==
  ASSUME SlotInv, DrainSends
  PROVE  SlotInv'
<1>1. /\ slot' = [dirty |-> FALSE, data |-> None, explicit |-> FALSE]
      /\ sent' = 0 /\ fresh' = FALSE /\ slot.dirty
      /\ UNCHANGED <<stream, last, lamp, asked, newest>>
  BY DEF DrainSends, EmptySlot
<1>2. /\ call' = [service |-> slot.data.service, data |-> call'.data]
      /\ call'.service \in {"turn_on", "turn_off"}
      /\ call' # NoCall
  <2>1. /\ call' = [service |-> slot.data.service, data |-> call'.data]
        /\ slot.data.service \in {"turn_on", "turn_off"}
    BY DrainFacts
  <2>2. call'.service = slot.data.service
    BY <2>1
  <2>3. NoCall.service = "none"
    BY DEF NoCall
  <2>4. QED
    BY <2>1, <2>2, <2>3
<1>3. IsCommand(call')
  BY <1>2 DEF IsCommand
<1>4. ASSUME newest # None, last # Nothing
      PROVE  call'.service = "turn_on" /\ Only(call'.data, Visible) = FrameData(last)
  <2>1. slot.data = TurnOn(FrameData(last))
    BY <1>1, <1>4 DEF SlotInv, ShowsPicture
  <2>2. slot.data.service = "turn_on" /\ slot.data.data = FrameData(last)
    BY <2>1 DEF TurnOn
  <2>3. CASE slot.explicit
    BY <1>2, <2>2, <2>3, DrainFacts, SentPicture
  <2>4. CASE ~slot.explicit
    BY <1>2, <2>2, <2>4, DrainFacts, SentPicture
  <2>5. QED
    BY <2>3, <2>4
<1>5. /\ newest # None => WithinTolerance(newest)'
      /\ FrameData(last)' = FrameData(last)
  BY <1>1 DEF SlotInv, ShowsPicture, WithinTolerance, FrameData
<1>6. sent' # None /\ sent' \in 0 .. (MaxFade + 1)
  BY <1>1, FadeAssumption, NoneAssumption
<1>7. ShowsPicture'
  BY <1>1, <1>2, <1>4, <1>5 DEF ShowsPicture
<1>8. QED
  BY <1>1, <1>2, <1>3, <1>6, <1>7 DEF SlotInv, TypeOK, Shapes, Resets

LEMMA ReturnKeeps ==
  ASSUME SlotInv, CallReturns
  PROVE  SlotInv'
<1>1. /\ lamp' = Shows(call) /\ call # NoCall /\ call' = NoCall
      /\ UNCHANGED <<stream, last, slot, sent, asked, newest, fresh>>
  BY DEF CallReturns
<1>2. lamp' = [on |-> lamp'.on, data |-> lamp'.data] /\ lamp'.on \in BOOLEAN
  BY <1>1 DEF SlotInv, TypeOK, Shapes, Shows
<1>3. IsCommand(call') /\ call'.service \in {"none", "turn_on", "turn_off"}
  BY <1>1 DEF IsCommand, NoCall
<1>4. /\ newest # None => WithinTolerance(newest)'
      /\ FrameData(last)' = FrameData(last)
  BY <1>1 DEF SlotInv, ShowsPicture, WithinTolerance, FrameData
<1>5. ASSUME newest # None, last # Nothing, ~slot.dirty
      PROVE  IF FrameData(last).brightness = 0 THEN ~lamp'.on
             ELSE lamp' = [on |-> TRUE, data |-> FrameData(last)]
  <2>1. call.service = "turn_on" /\ Only(call.data, Visible) = FrameData(last)
    BY <1>1, <1>5 DEF SlotInv, ShowsPicture
  <2>2. IF FrameData(last).brightness = 0
        THEN lamp' = [lamp EXCEPT !.on = FALSE]
        ELSE lamp' = [on |-> TRUE, data |-> FrameData(last)]
    BY <1>1, <2>1, ShownPicture
  <2>3. [lamp EXCEPT !.on = FALSE].on = FALSE
    BY DEF SlotInv, Shapes
  <2>4. QED
    BY <2>2, <2>3
<1>6. ShowsPicture'
  BY <1>1, <1>4, <1>5 DEF SlotInv, ShowsPicture
<1>7. QED
  BY <1>1, <1>2, <1>3, <1>6 DEF SlotInv, TypeOK, Shapes, Resets

-----------------------------------------------------------------------------
(* The theorems *)

\* SlotInv holds in every state.
THEOREM SlotInvariance == Spec => []SlotInv
<1>1. Init => SlotInv
  <2> SUFFICES ASSUME Init
               PROVE  SlotInv
    OBVIOUS
  <2>1. /\ stream = "off" /\ last = Nothing /\ newest = None /\ sent = None /\ fresh = TRUE
        /\ slot = [dirty |-> FALSE, data |-> None, explicit |-> FALSE]
        /\ call = [service |-> "none", data |-> NoData]
        /\ lamp = [on |-> FALSE, data |-> NoData]
        /\ asked.on = "open"
    BY DEF Init, EmptySlot, NoCall, AskedNothing
  <2>2. QED
    BY <2>1 DEF SlotInv, TypeOK, Shapes, IsCommand, Resets, ShowsPicture
<1>2. SlotInv /\ [Next]_vars => SlotInv'
  <2> SUFFICES ASSUME SlotInv, [Next]_vars
               PROVE  SlotInv'
    OBVIOUS
  <2>1. CASE Tick \/ UNCHANGED vars
    <3>1. UNCHANGED <<stream, last, slot, call, lamp, asked, newest, fresh>>
      BY <2>1 DEF Tick, vars
    <3>2. /\ sent' \in {None} \cup 0 .. (MaxFade + 1)
          /\ sent' = None <=> sent = None
      BY <2>1, FadeAssumption, NoneAssumption DEF Tick, vars, SlotInv, TypeOK
    <3>3. ShowsPicture'
      BY <3>1 DEF SlotInv, ShowsPicture, WithinTolerance, FrameData
    <3>4. QED
      BY <3>1, <3>2, <3>3 DEF SlotInv, TypeOK, Shapes, Resets
  <2>2. CASE SessionEnds \/ Suppression \/ \E space \in {"rgb", "xy"} : SessionStarts(space)
    <3>1. /\ ResetMapping
          /\ call' = call \/ call' = NoCall
          /\ lamp' = lamp \/ lamp' = Shows(call)
      BY <2>2 DEF SessionStarts, SessionEnds, Suppression
    <3>2. stream' \in {"off", "rgb", "xy"}
      BY <2>2 DEF SessionStarts, SessionEnds, Suppression, SlotInv, TypeOK
    <3>3. QED
      BY <3>1, <3>2, ResetKeeps
  <2>3. QED
    BY <2>1, <2>2, FrameKeeps, CommandKeeps, DrainKeeps, ReturnKeeps DEF Next
<1>3. QED
  BY <1>1, <1>2, PTL DEF Spec

\* Every variable keeps its type.
THEOREM SlotTypes == Spec => []TypeOK
BY SlotInvariance, PTL DEF SlotInv

\* The freshest frame is within tolerance of the colour last dispatched, and that
\* colour is in the slot, on the wire or on the light.
THEOREM LightKeepsUp == Spec => []ShowsPicture
BY SlotInvariance, PTL DEF SlotInv

\* The first colour after a reset snaps and every later one fades.
THEOREM FirstColourSnaps == Spec => SnapsAfterReset
<1>1. SlotInv /\ [Next]_vars =>
        [DrainSends /\ stream # "off" /\ ~slot.explicit =>
           IF fresh THEN call'.data["transition"] = 0
           ELSE call'.data["transition"] \in MinFade .. MaxFade]_vars
  <2> SUFFICES ASSUME SlotInv, DrainSends, ~slot.explicit
               PROVE  IF fresh THEN call'.data["transition"] = 0
                      ELSE call'.data["transition"] \in MinFade .. MaxFade
    OBVIOUS
  <2>1. call'.data["transition"] = Fade
    BY DrainFacts, AddedField
  <2>2. CASE fresh
    BY <2>1, <2>2 DEF SlotInv, TypeOK, Resets, Fade
  <2>3. CASE ~fresh
    <3>1. sent # None /\ sent \in Nat
      BY <2>3 DEF SlotInv, TypeOK, Resets
    <3>2. Fade \in MinFade .. MaxFade
      BY <3>1, FadeAssumption DEF Fade
    <3>3. QED
      BY <2>1, <2>3, <3>2
  <2>4. QED
    BY <2>2, <2>3
<1>2. QED
  BY <1>1, SlotInvariance, PTL DEF Spec, SnapsAfterReset

-----------------------------------------------------------------------------
(* Commands add up, if the TV names its colours in one way, k               *)

\* Bodies with one kind of colour, and fields of the types of the API
OneColour(k) ==
  \A body \in Bodies :
    /\ DOMAIN Colour(body) \subseteq {k}
    /\ "bri" \in DOMAIN body => body["bri"] \in Int
    /\ "on" \in DOMAIN body => body["on"] \in BOOLEAN

IsClassic(k, c) ==
  /\ c.service \in {"turn_on", "turn_off"}
  /\ DOMAIN c.data \subseteq {k, "brightness", "transition"}
  /\ c.service = "turn_on" /\ "brightness" \in DOMAIN c.data => c.data["brightness"] # 0

\* A light that shows was, after the command c
After(c, was) ==
  IF c.service = "turn_off" THEN [on |-> FALSE, data |-> was.data]
  ELSE [on |-> TRUE, data |-> Over(c.data, was.data)]

AfterCall == IF call = NoCall THEN lamp ELSE After(call, lamp)
AtLast    == IF slot.dirty THEN After(slot.data, AfterCall) ELSE AfterCall

\* What the light will show, once call and slot are through, is what was asked.
Follows(k) ==
  stream = "off" =>
    /\ slot.dirty => slot.explicit /\ IsClassic(k, slot.data) /\ asked.on # "open"
    /\ call # NoCall => IsClassic(k, call)
    /\ asked = [on |-> asked.on, data |-> asked.data]
    /\ asked.on = "open" => asked.data = NoData
    /\ DOMAIN asked.data \subseteq {k, "brightness"}
    /\ asked.on = "yes" => AtLast.on /\ Has(AtLast.data, asked.data)
    /\ asked.on = "no" => ~AtLast.on

\* For k and the brightness, Over is an update.
LEMMA OverAt ==
  ASSUME NEW k \in Colours, NEW data, NEW before,
         DOMAIN data \subseteq {k, "brightness", "transition"},
         NEW j \in {k, "brightness"}
  PROVE  /\ j \in DOMAIN Over(data, before) <=> j \in DOMAIN data \/ j \in DOMAIN before
         /\ j \in DOMAIN data => Over(data, before)[j] = data[j]
         /\ j \in DOMAIN before /\ j \notin DOMAIN data => Over(data, before)[j] = before[j]
<1> DEFINE seen == Only(data, Visible)
<1>1. j \in Visible /\ (j \in Colours <=> j = k)
  BY DEF Visible, Colours
<1>2. /\ j \in DOMAIN seen <=> j \in DOMAIN data
      /\ j \in DOMAIN data => seen[j] = data[j]
  BY <1>1 DEF Only, Restrict
<1> HIDE DEF seen
<1>3. CASE DOMAIN data \cap Colours = {}
  <2>1. Over(data, before) = Update(before, seen)
    BY <1>3 DEF Over, seen
  <2>2. QED
    BY <1>2, <2>1 DEF Update
<1>4. CASE DOMAIN data \cap Colours # {}
  <2> DEFINE kept == Only(before, {"brightness"})
  <2>1. k \in DOMAIN data
    BY <1>4 DEF Colours
  <2>2. /\ j \in DOMAIN kept <=> j \in DOMAIN before /\ j = "brightness"
        /\ j \in DOMAIN kept => kept[j] = before[j]
    BY DEF Only, Restrict
  <2> HIDE DEF kept
  <2>3. Over(data, before) = Update(kept, seen)
    BY <1>4 DEF Over, seen, kept
  <2>4. QED
    BY <1>2, <2>1, <2>2, <2>3 DEF Update
<1>5. QED
  BY <1>3, <1>4

LEMMA OverKeys ==
  ASSUME NEW k \in Colours, NEW data, NEW before,
         DOMAIN data \subseteq {k, "brightness", "transition"},
         DOMAIN before \subseteq {k, "brightness"}
  PROVE  DOMAIN Over(data, before) \subseteq {k, "brightness"}
<1>1. DOMAIN Only(data, Visible) \subseteq {k, "brightness"}
  BY DEF Only, Restrict, Visible, Colours
<1>2. DOMAIN Only(before, {"brightness"}) \subseteq {k, "brightness"}
  BY DEF Only, Restrict
<1>3. QED
  BY <1>1, <1>2 DEF Over, Update

LEMMA TurnedOff ==
  ASSUME NEW was, was = [on |-> was.on, data |-> was.data], NEW off
  PROVE  [was EXCEPT !.on = off] = [on |-> off, data |-> was.data]
<1>1. /\ DOMAIN was = {"on", "data"}
      /\ DOMAIN [was EXCEPT !.on = off] = {"on", "data"}
      /\ [was EXCEPT !.on = off].on = off /\ [was EXCEPT !.on = off].data = was.data
  OBVIOUS
<1>2. [was EXCEPT !.on = off] = [f \in {"on", "data"} |-> [was EXCEPT !.on = off][f]]
  BY <1>1
<1>3. QED
  BY <1>1, <1>2

\* Home Assistant takes such a command as it is meant.
LEMMA ClassicShows ==
  ASSUME SlotInv, NEW k \in Colours, NEW c, IsClassic(k, c)
  PROVE  Shows(c) = After(c, lamp)
<1>1. lamp = [on |-> lamp.on, data |-> lamp.data]
  BY DEF SlotInv, Shapes
<1>2. ~ \E i, j \in DOMAIN c.data \cap Colours : i # j
  BY DEF IsClassic, Colours
<1>3. CASE c.service = "turn_off"
  <2>1. Shows(c) = [lamp EXCEPT !.on = FALSE]
    BY <1>2, <1>3, Zenon DEF Shows
  <2>2. [lamp EXCEPT !.on = FALSE] = [on |-> FALSE, data |-> lamp.data]
    BY <1>1, TurnedOff
  <2>3. QED
    BY <1>3, <2>1, <2>2 DEF After
<1>4. CASE c.service = "turn_on"
  <2>1. ~("brightness" \in DOMAIN c.data /\ c.data["brightness"] = 0)
    BY <1>4 DEF IsClassic
  <2>2. QED
    BY <1>2, <1>4, <2>1 DEF Shows, After
<1>5. QED
  BY <1>3, <1>4 DEF IsClassic

LEMMA BodyIsClassic ==
  ASSUME NEW k \in Colours, OneColour(k), NEW body \in Bodies
  PROVE  /\ ServiceData(body).service = (IF Says(body, FALSE) THEN "turn_off" ELSE "turn_on")
         /\ IsClassic(k, ServiceData(body))
<1>1. CASE Says(body, FALSE)
  BY <1>1 DEF ServiceData, IsClassic, Field, NoData
<1>2. CASE ~Says(body, FALSE)
  <2> DEFINE fade == Field(body, "transitiontime", "transition")
             level == Brightness(body)
  <2>1. DOMAIN fade \subseteq {"transition"}
    BY DEF Field, NoData
  <2>2. DOMAIN level \subseteq {"brightness"}
        /\ ("brightness" \in DOMAIN level => level["brightness"] # 0)
    <3>1. CASE "bri" \in DOMAIN body
      <4>1. body["bri"] \in Int
        BY <3>1 DEF OneColour
      <4>2. V1Brightness(body["bri"]) # 0
        BY <4>1 DEF V1Brightness
      <4>3. QED
        BY <3>1, <4>2 DEF Brightness
    <3>2. CASE "bri" \notin DOMAIN body
      BY <3>2 DEF Brightness, NoData
    <3>3. QED
      BY <3>1, <3>2
  <2>3. DOMAIN Colour(body) \subseteq {k}
    BY DEF OneColour
  <2>4. ServiceData(body) = [service |-> "turn_on",
                             data |-> Update(fade, Update(Colour(body), level))]
    BY <1>2 DEF ServiceData, TurnOn
  <2> HIDE DEF fade, level
  <2> DEFINE data == Update(fade, Update(Colour(body), level))
  <2>5. DOMAIN data \subseteq {k, "brightness", "transition"}
    BY <2>1, <2>2, <2>3 DEF Update
  <2>6. "brightness" \in DOMAIN data => data["brightness"] = level["brightness"]
                                       /\ "brightness" \in DOMAIN level
    BY <2>1, <2>2, <2>3 DEF Update, Colours
  <2> HIDE DEF data
  <2>7. ServiceData(body).service = "turn_on" /\ ServiceData(body).data = data
    BY <2>4 DEF data
  <2>8. QED
    BY <1>2, <2>2, <2>5, <2>6, <2>7 DEF IsClassic
<1>3. QED
  BY <1>1, <1>2

\* A command queued, alone or merged with the one before it, adds to what was asked.
LEMMA CommandAdds ==
  ASSUME SlotInv, NEW k \in Colours, OneColour(k), Follows(k),
         NEW body \in Bodies, handle_light_command(body)
  PROVE  Follows(k)'
<1> DEFINE c == ServiceData(body)
           pend == Pending(body)
           merged == Update(pend, c.data)
<1>1. UNCHANGED <<stream, call, lamp>> /\ stream = "off" /\ asked' = Asks(body)
  BY DEF handle_light_command
<1>2. AfterCall' = AfterCall /\ AfterCall.on \in BOOLEAN
  BY <1>1 DEF AfterCall, After, SlotInv, TypeOK
<1>3. /\ c.service = (IF Says(body, FALSE) THEN "turn_off" ELSE "turn_on")
      /\ IsClassic(k, c)
  BY BodyIsClassic
<1>4. ~Says(body, FALSE) \/ ~Says(body, TRUE)
  BY DEF Says
<1>5. CASE Moot(body)
  <2>1. UNCHANGED slot /\ "on" \notin DOMAIN body /\ slot.dirty
        /\ slot.data.service = "turn_off"
    BY <1>5 DEF handle_light_command, Moot
  <2>2. asked.on \in {"no", "moot"}
    BY <1>1, <2>1 DEF Follows, AtLast, After, SlotInv, TypeOK
  <2>3. asked' = [on |-> "moot", data |-> NoData]
    BY <1>1, <2>1, <2>2 DEF Asks, Says
  <2>4. QED
    BY <1>1, <2>1, <2>3 DEF Follows, NoData
<1>6. CASE ~Moot(body)
  <2>1. slot' = [dirty |-> TRUE, explicit |-> TRUE, data |-> [c EXCEPT !.data = merged]]
    BY <1>6 DEF handle_light_command
  <2>2. slot'.dirty /\ slot'.explicit /\ slot'.data.service = c.service /\ slot'.data.data = merged
    BY <2>1 DEF ServiceData, TurnOn
  <2>3. /\ DOMAIN pend \subseteq {k, "brightness", "transition"}
        /\ "brightness" \in DOMAIN pend => pend["brightness"] # 0
        /\ Says(body, FALSE) => pend = NoData
    <3>1. DOMAIN NoData = {}
      BY DEF NoData
    <3>2. CASE pend = NoData
      BY <3>1, <3>2
    <3>3. CASE pend # NoData
      <4>1. slot.dirty /\ slot.data.service = "turn_on" /\ ~Says(body, FALSE)
            /\ pend = slot.data.data
        BY <3>3 DEF Pending
      <4>2. IsClassic(k, slot.data)
        BY <1>1, <4>1 DEF Follows
      <4>3. QED
        BY <4>1, <4>2 DEF IsClassic
    <3>4. QED
      BY <3>2, <3>3
  <2>4. IsClassic(k, c)' /\ IsClassic(k, slot'.data)
    BY <1>3, <2>2, <2>3 DEF IsClassic, Update
  <2>5. AtLast' = After(slot'.data, AfterCall)
    BY <1>2, <2>2 DEF AtLast
  <2>6. CASE Says(body, FALSE)
    <3>1. asked' = [on |-> "no", data |-> NoData]
      BY <1>1, <2>6 DEF Asks
    <3>2. ~AtLast'.on
      BY <1>3, <2>2, <2>5, <2>6 DEF After
    <3>3. QED
      BY <1>1, <2>2, <2>4, <3>1, <3>2 DEF Follows, NoData
  <2>7. CASE ~Says(body, FALSE)
    <3>1. AtLast' = [on |-> TRUE, data |-> Over(merged, AfterCall.data)]
      BY <1>3, <2>2, <2>5, <2>7 DEF After
    <3>2. /\ DOMAIN merged \subseteq {k, "brightness", "transition"}
          /\ DOMAIN c.data \subseteq {k, "brightness", "transition"}
      BY <1>3, <2>2, <2>4 DEF IsClassic
    <3>3. \A j : /\ j \in DOMAIN merged <=> j \in DOMAIN c.data \/ j \in DOMAIN pend
                 /\ j \in DOMAIN c.data => merged[j] = c.data[j]
                 /\ j \in DOMAIN pend /\ j \notin DOMAIN c.data => merged[j] = pend[j]
      BY DEF Update
    <3> HIDE DEF merged, c, pend
    <3>4. \A j \in {k, "brightness"} :
            j \in DOMAIN c.data => j \in DOMAIN AtLast'.data /\ AtLast'.data[j] = c.data[j]
      BY <3>1, <3>2, <3>3, OverAt
    <3>5. CASE asked.on \in {"no", "moot"} /\ ~Says(body, TRUE)
      <4>1. asked' = [on |-> "moot", data |-> NoData]
        BY <1>1, <2>7, <3>5 DEF Asks
      <4>2. QED
        BY <1>1, <2>2, <2>4, <4>1 DEF Follows, NoData
    <3>6. CASE asked.on \in {"no", "moot"} /\ Says(body, TRUE)
      <4>1. asked' = [on |-> "yes", data |-> Over(c.data, NoData)]
        BY <1>1, <2>7, <3>6 DEF Asks, c
      <4>2. DOMAIN asked'.data \subseteq {k, "brightness"}
        BY <3>2, <4>1, OverKeys DEF NoData
      <4>3. \A j \in DOMAIN asked'.data : j \in DOMAIN c.data /\ asked'.data[j] = c.data[j]
        BY <3>2, <4>1, <4>2, OverAt DEF NoData
      <4>4. Has(AtLast'.data, asked'.data)
        BY <3>4, <4>2, <4>3 DEF Has
      <4>5. QED
        BY <1>1, <2>2, <2>4, <3>1, <4>1, <4>2, <4>4 DEF Follows
    <3>7. CASE asked.on \in {"open", "yes"}
      <4>1. asked' = [on |-> "yes", data |-> Over(c.data, asked.data)]
        BY <1>1, <2>7, <3>7 DEF Asks, c
      <4>2. DOMAIN asked.data \subseteq {k, "brightness"}
        BY <1>1 DEF Follows
      <4>3. DOMAIN asked'.data \subseteq {k, "brightness"}
        BY <3>2, <4>1, <4>2, OverKeys
      <4>4. ASSUME NEW j \in DOMAIN asked'.data
            PROVE  j \in DOMAIN AtLast'.data /\ AtLast'.data[j] = asked'.data[j]
        <5>1. j \in {k, "brightness"}
          BY <4>3
        <5>2. CASE j \in DOMAIN c.data
          BY <3>2, <3>4, <4>1, <5>1, <5>2, OverAt
        <5>3. CASE j \notin DOMAIN c.data
          <6>1. j \in DOMAIN asked.data /\ asked'.data[j] = asked.data[j]
            BY <3>2, <4>1, <5>1, <5>3, OverAt
          <6>2. asked.on = "yes" /\ AtLast.on /\ Has(AtLast.data, asked.data)
            BY <1>1, <3>7, <6>1 DEF Follows, NoData
          <6>3. j \in DOMAIN AtLast.data /\ AtLast.data[j] = asked.data[j]
            BY <6>1, <6>2 DEF Has
          <6>4. CASE slot.dirty
            <7>1. slot.explicit /\ slot.data.service = "turn_on"
                  /\ DOMAIN slot.data.data \subseteq {k, "brightness", "transition"}
              BY <1>1, <6>2, <6>4 DEF Follows, IsClassic, AtLast, After
            <7>2. pend = slot.data.data
              BY <2>7, <6>4, <7>1 DEF pend, Pending
            <7>3. AtLast.data = Over(pend, AfterCall.data)
              BY <6>4, <7>1, <7>2 DEF AtLast, After
            <7>4. QED
              BY <3>1, <3>2, <3>3, <5>1, <5>3, <6>1, <6>3, <7>1, <7>2, <7>3, OverAt
          <6>5. CASE ~slot.dirty
            <7>1. pend = NoData /\ AtLast.data = AfterCall.data
              BY <6>5 DEF pend, Pending, AtLast
            <7>2. j \notin DOMAIN merged
              BY <3>3, <5>3, <7>1 DEF NoData
            <7>3. QED
              BY <3>1, <3>2, <5>1, <6>1, <6>3, <7>1, <7>2, OverAt
          <6>6. QED
            BY <6>4, <6>5
        <5>4. QED
          BY <5>2, <5>3
      <4>5. QED
        BY <1>1, <2>2, <2>4, <3>1, <4>1, <4>3, <4>4 DEF Follows, Has
    <3>8. QED
      BY <3>5, <3>6, <3>7 DEF SlotInv, TypeOK
  <2>8. QED
    BY <2>6, <2>7
<1>7. QED
  BY <1>5, <1>6

LEMMA FollowsStep ==
  ASSUME SlotInv, NEW k \in Colours, OneColour(k), Follows(k), [Next]_vars
  PROVE  Follows(k)'
<1>1. CASE stream' # "off"
  BY <1>1 DEF Follows
<1>2. CASE \E p \in Pictures : handle_frame(p)
  BY <1>2 DEF handle_frame, Follows
<1>3. CASE \E body \in Bodies : handle_light_command(body)
  BY <1>3, CommandAdds
<1>4. CASE DrainSends /\ stream = "off"
  <2>1. slot.explicit /\ IsClassic(k, slot.data) /\ call' = slot.data /\ call' # NoCall
        /\ ~slot'.dirty /\ call = NoCall /\ slot.dirty /\ UNCHANGED <<stream, lamp, asked>>
    BY <1>4 DEF DrainSends, Follows, EmptySlot, NoCall, IsClassic
  <2>2. AtLast' = AtLast
    BY <2>1 DEF AtLast, AfterCall, After
  <2>3. QED
    BY <2>1, <2>2 DEF Follows
<1>5. CASE CallReturns /\ stream = "off"
  <2>1. lamp' = Shows(call) /\ call # NoCall /\ call' = NoCall /\ UNCHANGED <<stream, slot, asked>>
    BY <1>5 DEF CallReturns
  <2>2. lamp' = After(call, lamp)
    BY <1>5, <2>1, ClassicShows DEF Follows
  <2>3. AtLast' = AtLast
    BY <2>1, <2>2 DEF AtLast, AfterCall, After
  <2>4. QED
    BY <2>1, <2>3 DEF Follows
<1>6. CASE SessionEnds \/ (Suppression /\ stream = "off")
  <2>1. asked' = AskedNothing /\ ~slot'.dirty
    BY <1>6 DEF SessionEnds, Suppression, ResetMapping, SlotInv, Shapes
  <2>2. call' # NoCall => IsClassic(k, call')
    BY <1>6 DEF SessionEnds, Suppression, Follows
  <2>3. QED
    BY <2>1, <2>2 DEF Follows, AskedNothing, NoData
<1>7. CASE Tick \/ UNCHANGED vars
  <2>1. UNCHANGED <<stream, slot, call, lamp, asked>>
    BY <1>7 DEF Tick, vars
  <2>2. AtLast' = AtLast
    BY <2>1 DEF AtLast, AfterCall, After
  <2>3. QED
    BY <2>1, <2>2 DEF Follows
<1>8. CASE \E space \in {"rgb", "xy"} : SessionStarts(space)
  BY <1>8 DEF SessionStarts, Follows
<1>9. CASE (DrainSends \/ CallReturns \/ Suppression) /\ stream # "off"
  BY <1>9 DEF DrainSends, CallReturns, Suppression, Follows
<1>10. QED
  BY <1>2, <1>3, <1>4, <1>5, <1>6, <1>7, <1>8, <1>9 DEF Next

\* Merged or queued behind one another, the commands of a TV that names colours in
\* one way add up: at rest the light shows every field it asked for last.
THEOREM CommandsAddUp ==
  ASSUME NEW k \in Colours, OneColour(k)
  PROVE  Spec => []LightFollows
<1>1. Init => Follows(k)
  BY DEF Init, Follows, EmptySlot, AskedNothing, NoData
<1>2. SlotInv /\ Follows(k) /\ [Next]_vars => Follows(k)'
  BY FollowsStep
<1>3. Follows(k) => LightFollows
  BY DEF Follows, LightFollows, AtLast, AfterCall
<1>4. QED
  BY <1>1, <1>2, <1>3, SlotInvariance, PTL DEF Spec

-----------------------------------------------------------------------------
(* HueStream: what arrives of a datagram *)

Byte    == 0..255
Channel == [light : Lights, colour : Pictures]

HeaderSize(version) == IF version = 2 THEN 52 ELSE 16

\* A 16-bit value is what its two bytes say.
LEMMA WordBytes ==
  ASSUME NEW v \in Word
  PROVE  v \div 256 \in Byte /\ v % 256 \in Byte /\ (v \div 256) * 256 + (v % 256) = v
<1>1. v \in Int /\ 0 <= v /\ v <= 65535
  BY SMTT(30) DEF Word
<1> HIDE DEF Word
<1>2. v \div 256 \in Byte /\ v % 256 \in Byte
  BY <1>1 DEF Byte
<1>3. (v \div 256) * 256 + (v % 256) = v
  BY <1>1
<1>4. QED
  BY <1>2, <1>3

\* A picture is three such values.
LEMMA PictureColour ==
  ASSUME NEW p \in Pictures
  PROVE  p = <<p[1], p[2], p[3]>> /\ p[1] \in Word /\ p[2] \in Word /\ p[3] \in Word
  BY PicturesAssumption

\* The area is small enough for one byte.
LEMMA ChannelIdIs ==
  ASSUME NEW version, NEW light \in Lights
  PROVE  ChannelId(version, light) \in Byte
  BY AreaAssumption DEF ChannelId, Lights, Byte

\* The bytes of a channel, one by one
LEMMA ChannelBytesV2 ==
  ASSUME NEW channel \in Channel
  PROVE  LET B == ChannelBytes(2, channel)
             c == channel.colour
         IN /\ B[1] = ChannelId(2, channel.light)
            /\ B[2] = c[1] \div 256 /\ B[3] = c[1] % 256
            /\ B[4] = c[2] \div 256 /\ B[5] = c[2] % 256
            /\ B[6] = c[3] \div 256 /\ B[7] = c[3] % 256
            /\ \A j \in 1..7 : B[j] \in Byte
<1> DEFINE c == channel.colour
           id == ChannelId(2, channel.light)
           B == <<id>> \o <<c[1] \div 256, c[1] % 256>> \o <<c[2] \div 256, c[2] % 256>>
                  \o <<c[3] \div 256, c[3] % 256>>
<1>1. c \in Pictures /\ channel.light \in Lights
  BY DEF Channel
<1>2. id \in Byte
  BY <1>1, ChannelIdIs
<1>3. \A i \in 1..3 : c[i] \div 256 \in Byte /\ c[i] % 256 \in Byte
  BY <1>1, PictureColour, WordBytes
<1>4. ChannelBytes(2, channel) = B
  BY DEF ChannelBytes, Bytes16
<1> HIDE DEF c, id
<1>5. /\ B[1] = id
      /\ B[2] = c[1] \div 256 /\ B[3] = c[1] % 256
      /\ B[4] = c[2] \div 256 /\ B[5] = c[2] % 256
      /\ B[6] = c[3] \div 256 /\ B[7] = c[3] % 256
  BY <1>2, <1>3 DEF Byte
<1> HIDE DEF B
<1>6. \A j \in 1..7 : B[j] \in Byte
  BY <1>2, <1>3, <1>5
<1>7. QED
  BY <1>4, <1>5, <1>6 DEF c, id

LEMMA ChannelBytesV1 ==
  ASSUME NEW version, version # 2, NEW channel \in Channel
  PROVE  LET B  == ChannelBytes(version, channel)
             c  == channel.colour
             id == ChannelId(version, channel.light)
         IN /\ B[2] = id \div 256 /\ B[3] = id % 256
            /\ B[4] = c[1] \div 256 /\ B[5] = c[1] % 256
            /\ B[6] = c[2] \div 256 /\ B[7] = c[2] % 256
            /\ B[8] = c[3] \div 256 /\ B[9] = c[3] % 256
            /\ \A j \in 1..9 : B[j] \in Byte
<1> DEFINE c == channel.colour
           id == ChannelId(version, channel.light)
           B == (<<0>> \o <<id \div 256, id % 256>>)
                  \o <<c[1] \div 256, c[1] % 256>> \o <<c[2] \div 256, c[2] % 256>>
                  \o <<c[3] \div 256, c[3] % 256>>
<1>1. c \in Pictures /\ channel.light \in Lights
  BY DEF Channel
<1>2. id \div 256 \in Byte /\ id % 256 \in Byte
  <2>1. id \in Byte
    BY <1>1, ChannelIdIs
  <2> HIDE DEF id
  <2>2. id \in Word
    BY <2>1, SMTT(30) DEF Byte, Word
  <2>3. QED
    BY <2>2, WordBytes
<1>3. \A i \in 1..3 : c[i] \div 256 \in Byte /\ c[i] % 256 \in Byte
  BY <1>1, PictureColour, WordBytes
<1>4. ChannelBytes(version, channel) = B
  BY DEF ChannelBytes, Bytes16
<1> HIDE DEF c, id
<1>5. /\ B[1] = 0 /\ B[2] = id \div 256 /\ B[3] = id % 256
      /\ B[4] = c[1] \div 256 /\ B[5] = c[1] % 256
      /\ B[6] = c[2] \div 256 /\ B[7] = c[2] % 256
      /\ B[8] = c[3] \div 256 /\ B[9] = c[3] % 256
  BY <1>2, <1>3 DEF Byte
<1> HIDE DEF B
<1>6. \A j \in 1..9 : B[j] \in Byte
  <2>1. 0 \in Byte
    BY DEF Byte
  <2>2. QED
    BY <1>2, <1>3, <1>5, <2>1
<1>7. QED
  BY <1>4, <1>5, <1>6 DEF c, id

\* A joined sequence, named, so that what is said of it does not depend on its parts
LEMMA Joined ==
  ASSUME NEW S, NEW s \in Seq(S), NEW t \in Seq(S), NEW st, st = s \o t
  PROVE  /\ st \in Seq(S) /\ Len(st) = Len(s) + Len(t)
         /\ \A i \in 1..Len(s) : st[i] = s[i]
         /\ \A i \in 1..Len(t) : st[Len(s) + i] = t[i]
<1>1. Len(s) \in Nat /\ Len(t) \in Nat
  BY LenProperties
<1>2. st \in Seq(S) /\ Len(st) = Len(s) + Len(t)
  BY ConcatProperties
<1>3. \A i \in 1..Len(s) : st[i] = s[i]
  BY ConcatProperties, <1>1
<1>4. ASSUME NEW i \in 1..Len(t)
      PROVE  st[Len(s) + i] = t[i]
  BY <1>1
<1>5. QED
  BY <1>2, <1>3, <1>4

LEMMA HeaderBytes ==
  ASSUME NEW version \in Byte, NEW space
  PROVE  LET H == Header(version, space)
         IN /\ H \in Seq(Byte) /\ Len(H) = HeaderSize(version)
            /\ H[10] = version /\ H[15] = (IF space = "xy" THEN 1 ELSE 0)
            /\ \A i \in 1..9 : H[i] = Magic[i]
<1> DEFINE fields == <<version, 0, 0, 0, 0, IF space = "xy" THEN 1 ELSE 0, 0>>
           name   == [i \in 1..(IF version = 2 THEN 36 ELSE 0) |-> 45]
           start  == Magic \o fields
           H      == Header(version, space)
<1>1. Magic \in Seq(Byte) /\ fields \in Seq(Byte) /\ name \in Seq(Byte)
  BY DEF Magic, Byte
<1>2. /\ Len(Magic) = 9 /\ Len(fields) = 7
      /\ Len(name) = (IF version = 2 THEN 36 ELSE 0)
  BY DEF Magic
<1>3. fields[1] = version /\ fields[6] = (IF space = "xy" THEN 1 ELSE 0)
  OBVIOUS
<1>4. H = start \o name
  BY DEF Header
<1>5. start = Magic \o fields
  OBVIOUS
<1> HIDE DEF fields, name, start, H
<1>6. start \in Seq(Byte)
  BY <1>1, <1>5, Joined
<1>7. /\ Len(start) = Len(Magic) + Len(fields)
      /\ \A i \in 1..Len(Magic) : start[i] = Magic[i]
      /\ \A i \in 1..Len(fields) : start[Len(Magic) + i] = fields[i]
  BY <1>1, <1>5, Joined
<1>8. /\ Len(start) = 16 /\ \A i \in 1..9 : start[i] = Magic[i]
      /\ start[10] = fields[1] /\ start[15] = fields[6]
  BY <1>2, <1>7
<1>9. /\ H \in Seq(Byte) /\ Len(H) = Len(start) + Len(name)
      /\ \A i \in 1..Len(start) : H[i] = start[i]
  BY <1>1, <1>4, <1>6, Joined
<1>10. /\ Len(H) = HeaderSize(version)
      /\ \A i \in 1..16 : H[i] = start[i]
  BY <1>2, <1>8, <1>9 DEF HeaderSize
<1>11. QED
  BY <1>3, <1>8, <1>9, <1>10 DEF H

\* The byte j of a sequence's item k, where every item has size bytes
LEMMA ItemBytes ==
  ASSUME NEW size \in {7, 9}, NEW n \in Nat, NEW k \in 1..n, NEW j \in 1..size
  PROVE  LET i == size * (k - 1) + j
         IN i \in 1..(size * n) /\ (i - 1) \div size = k - 1 /\ (i - 1) % size = j - 1
<1>1. CASE size = 7
  BY <1>1
<1>2. CASE size = 9
  BY <1>2
<1>3. QED
  BY <1>1, <1>2

LEMMA ByteOfItem ==
  ASSUME NEW size \in {7, 9}, NEW n \in Nat, NEW i \in 1..(size * n)
  PROVE  ((i - 1) \div size) + 1 \in 1..n /\ ((i - 1) % size) + 1 \in 1..size
<1>1. CASE size = 7
  BY <1>1
<1>2. CASE size = 9
  BY <1>2
<1>3. QED
  BY <1>1, <1>2

LEMMA ChannelOfBytes ==
  ASSUME NEW version, NEW channel \in Channel
  PROVE  \A j \in 1..ChannelSize(version) : ChannelBytes(version, channel)[j] \in Byte
<1>1. CASE version = 2
  BY <1>1, ChannelBytesV2 DEF ChannelSize
<1>2. CASE version # 2
  BY <1>2, ChannelBytesV1 DEF ChannelSize
<1>3. QED
  BY <1>1, <1>2

\* A datagram is its header and then its channels, every channel where the
\* sizes say.
LEMMA DatagramBytes ==
  ASSUME NEW version \in Byte, NEW space, NEW picture \in Seq(Channel)
  PROVE  LET D == Datagram(version, space, picture)
             h == HeaderSize(version)
             size == ChannelSize(version)
         IN /\ D \in Seq(Byte) /\ Len(D) = h + size * Len(picture)
            /\ \A i \in 1..h : D[i] = Header(version, space)[i]
            /\ \A k \in 1..Len(picture), j \in 1..size :
                  D[h + (size * (k - 1) + j)] = ChannelBytes(version, picture[k])[j]
<1> DEFINE D == Datagram(version, space, picture)
           H == Header(version, space)
           h == HeaderSize(version)
           size == ChannelSize(version)
           n == Len(picture)
           body == [i \in 1..(size * n) |->
                      ChannelBytes(version, picture[((i - 1) \div size) + 1])[((i - 1) % size) + 1]]
<1>1. n \in Nat /\ \A k \in 1..n : picture[k] \in Channel
  OBVIOUS
<1>2. size \in {7, 9} /\ h \in {16, 52}
  BY DEF ChannelSize, HeaderSize
<1>3. H \in Seq(Byte) /\ Len(H) = h
  BY HeaderBytes
<1>4. D = H \o body
  BY DEF Datagram
<1> HIDE DEF D, H, h, n
<1>5. \A i \in 1..(size * n) : body[i] \in Byte
  <2>1. SUFFICES ASSUME NEW i \in 1..(size * n)
                 PROVE  body[i] \in Byte
    OBVIOUS
  <2>2. ((i - 1) \div size) + 1 \in 1..n /\ ((i - 1) % size) + 1 \in 1..size
    BY <1>1, <1>2, ByteOfItem, ZenonT(60)
  <2>3. picture[((i - 1) \div size) + 1] \in Channel
    BY <1>1, <2>2
  <2>4. ChannelBytes(version, picture[((i - 1) \div size) + 1])[((i - 1) % size) + 1] \in Byte
    BY <2>2, <2>3, ChannelOfBytes
  <2>5. QED
    BY <2>4
<1>6. \A k \in 1..n, j \in 1..size :
         /\ size * (k - 1) + j \in 1..(size * n)
         /\ body[size * (k - 1) + j] = ChannelBytes(version, picture[k])[j]
  <2>1. SUFFICES ASSUME NEW k \in 1..n, NEW j \in 1..size
                 PROVE  /\ size * (k - 1) + j \in 1..(size * n)
                        /\ body[size * (k - 1) + j] = ChannelBytes(version, picture[k])[j]
    OBVIOUS
  <2> DEFINE i == size * (k - 1) + j
  <2>2. i \in 1..(size * n) /\ (i - 1) \div size = k - 1 /\ (i - 1) % size = j - 1
    BY <1>1, <1>2, ItemBytes
  <2> HIDE DEF i, size
  <2>3. (k - 1) + 1 = k /\ (j - 1) + 1 = j
    BY <1>2
  <2>4. QED
    BY <2>2, <2>3 DEF i
<1>7. size * n \in Nat
  BY <1>1, <1>2
<1> HIDE DEF size
<1>8. body \in Seq(Byte) /\ Len(body) = size * n
  BY <1>5, <1>7
<1> HIDE DEF body
<1>9. /\ D \in Seq(Byte) /\ Len(D) = Len(H) + Len(body)
      /\ \A i \in 1..Len(H) : D[i] = H[i]
      /\ \A i \in 1..Len(body) : D[Len(H) + i] = body[i]
  <2>1. H \in Seq(Byte)
    BY <1>3
  <2>2. body \in Seq(Byte)
    BY <1>8
  <2>3. QED
    BY <1>4, <2>1, <2>2, Joined
<1>10. /\ D \in Seq(Byte) /\ Len(D) = h + size * n
       /\ \A i \in 1..h : D[i] = H[i]
       /\ \A k \in 1..n, j \in 1..size :
             D[h + (size * (k - 1) + j)] = ChannelBytes(version, picture[k])[j]
  BY <1>3, <1>6, <1>8, <1>9
<1>11. QED
  BY <1>10 DEF D, H, h, n, size

\* How many of n channels lie in the first bytes of a datagram
Fitting(version, n, length) ==
  LET m == (length - HeaderSize(version)) \div ChannelSize(version)
  IN IF length < HeaderSize(version) THEN 0 ELSE IF m < n THEN m ELSE n

LEMMA SizesAre ==
  ASSUME NEW version
  PROVE  \/ ChannelSize(version) = 7 /\ HeaderSize(version) = 52
         \/ ChannelSize(version) = 9 /\ HeaderSize(version) = 16
  BY DEF ChannelSize, HeaderSize

LEMMA FittingIs ==
  ASSUME NEW version, NEW n \in Nat, NEW length \in Nat
  PROVE  LET w == Fitting(version, n, length)
         IN /\ w \in 0..n
            /\ \A k \in 1..n :
                  k <= w <=> HeaderSize(version) + ChannelSize(version) * k <= length
<1>1. CASE ChannelSize(version) = 7 /\ HeaderSize(version) = 52
  BY <1>1 DEF Fitting
<1>2. CASE ChannelSize(version) = 9 /\ HeaderSize(version) = 16
  BY <1>2 DEF Fitting
<1>3. QED
  BY <1>1, <1>2, SizesAre

\* What arrives whole is the beginning of the picture.
LEMMA ArrivedIs ==
  ASSUME NEW version \in {1, 2}, NEW space, NEW picture \in Seq(Channel), NEW length \in Nat
  PROVE  Arrived(version, space, picture, length)
           = SubSeq(picture, 1, Fitting(version, Len(picture), length))
<1> DEFINE n == Len(picture)
           w == Fitting(version, n, length)
           fits == {k \in 1..n : Len(Datagram(version, space, SubSeq(picture, 1, k))) <= length}
<1>1. n \in Nat /\ \A k \in 1..n : picture[k] \in Channel
  OBVIOUS
<1>2. w \in 0..n /\ \A k \in 1..n : k <= w <=> HeaderSize(version) + ChannelSize(version) * k <= length
  BY <1>1, FittingIs
<1>3. ASSUME NEW k \in 1..n
      PROVE  Len(Datagram(version, space, SubSeq(picture, 1, k)))
               = HeaderSize(version) + ChannelSize(version) * k
  <2> DEFINE q == SubSeq(picture, 1, k)
  <2>1. q \in Seq(Channel)
    BY <1>1
  <2>2. Len(q) = k
    BY <1>1
  <2>3. version \in Byte
    BY DEF Byte
  <2> HIDE DEF q
  <2>4. Len(Datagram(version, space, q)) = HeaderSize(version) + ChannelSize(version) * Len(q)
    BY <2>1, <2>3, DatagramBytes
  <2>5. QED
    BY <2>2, <2>4 DEF q
<1>4. fits = 1..w
  BY <1>1, <1>2, <1>3
<1>5. Cardinality(1..w) = w
  <2> HIDE DEF w, n
  <2>1. w \in Int /\ 0 <= w
    BY <1>1, <1>2
  <2>2. Cardinality(1..w) = IF 1 > w THEN 0 ELSE w - 1 + 1
    BY <2>1, FS_Interval
  <2>3. QED
    BY <2>1, <2>2
<1>6. QED
  BY <1>4, <1>5 DEF Arrived

\* The first bytes of a sequence
Cut(data, length) == SubSeq(data, 1, IF length < Len(data) THEN length ELSE Len(data))

LEMMA CutIs ==
  ASSUME NEW D \in Seq(Byte), NEW length \in Nat
  PROVE  LET m == IF length < Len(D) THEN length ELSE Len(D)
         IN /\ m \in 0..Len(D) /\ Len(Cut(D, length)) = m
            /\ \A i \in 1..m : Cut(D, length)[i] = D[i]
<1> DEFINE m == IF length < Len(D) THEN length ELSE Len(D)
<1>1. m \in 0..Len(D) /\ Len(D) \in Nat
  OBVIOUS
<1>2. \A i \in 1..m : D[i] \in Byte
  OBVIOUS
<1>3. Cut(D, length) = SubSeq(D, 1, m)
  BY DEF Cut
<1> HIDE DEF m
<1>4. QED
  BY <1>1, <1>2, <1>3 DEF m

\* What parse_huestream_frame makes of a channel is what the TV put into it.
Decoded(version, picture, w) ==
  [k \in 1..w |-> [id |-> ChannelId(version, picture[k].light), colour |-> picture[k].colour]]

LEMMA UnpackWord ==
  ASSUME NEW v \in Word, NEW data, NEW offset \in Nat,
         data[offset + 1] = v \div 256, data[offset + 2] = v % 256
  PROVE  Unpack(data, offset) = v
<1>1. (offset + 1) + 1 = offset + 2
  OBVIOUS
<1>2. (v \div 256) * 256 + (v % 256) = v
  BY WordBytes
<1>3. QED
  BY <1>1, <1>2 DEF Unpack, ByteAt

LEMMA ColourIs ==
  ASSUME NEW p \in Pictures, NEW data, NEW offset \in Nat,
         data[offset + 1] = p[1] \div 256, data[offset + 2] = p[1] % 256,
         data[offset + 3] = p[2] \div 256, data[offset + 4] = p[2] % 256,
         data[offset + 5] = p[3] \div 256, data[offset + 6] = p[3] % 256
  PROVE  ColourAt(data, offset) = p
<1>1. p = <<p[1], p[2], p[3]>> /\ p[1] \in Word /\ p[2] \in Word /\ p[3] \in Word
  BY PictureColour
<1>2. /\ offset + 2 \in Nat /\ (offset + 2) + 1 = offset + 3 /\ (offset + 2) + 2 = offset + 4
      /\ offset + 4 \in Nat /\ (offset + 4) + 1 = offset + 5 /\ (offset + 4) + 2 = offset + 6
  OBVIOUS
<1>3. Unpack(data, offset) = p[1]
  BY <1>1, UnpackWord
<1>4. Unpack(data, offset + 2) = p[2]
  BY <1>1, <1>2, UnpackWord
<1>5. Unpack(data, offset + 4) = p[3]
  BY <1>1, <1>2, UnpackWord
<1>6. QED
  BY <1>1, <1>3, <1>4, <1>5 DEF ColourAt

\* Where a channel's bytes lie, its identifier and its colour are found.
LEMMA ChannelFoundV2 ==
  ASSUME NEW channel \in Channel, NEW data, NEW o \in Nat,
         \A j \in 1..7 : data[o + j] = ChannelBytes(2, channel)[j]
  PROVE  /\ ByteAt(data, o) = ChannelId(2, channel.light)
         /\ ColourAt(data, o + 1) = channel.colour
<1> DEFINE B == ChannelBytes(2, channel)
           c == channel.colour
           a == o + 1
<1>1. c \in Pictures
  BY DEF Channel
<1>2. /\ B[1] = ChannelId(2, channel.light)
      /\ B[2] = c[1] \div 256 /\ B[3] = c[1] % 256
      /\ B[4] = c[2] \div 256 /\ B[5] = c[2] % 256
      /\ B[6] = c[3] \div 256 /\ B[7] = c[3] % 256
  BY ChannelBytesV2
<1>3. a \in Nat /\ \A j \in 1..6 : a + j = o + (j + 1)
  OBVIOUS
<1>4. \A j \in 1..7 : data[o + j] = B[j]
  OBVIOUS
<1> HIDE DEF a, B, c
<1>5. /\ data[a + 1] = B[2] /\ data[a + 2] = B[3] /\ data[a + 3] = B[4]
      /\ data[a + 4] = B[5] /\ data[a + 5] = B[6] /\ data[a + 6] = B[7]
  BY <1>3, <1>4
<1>6. /\ data[a + 1] = c[1] \div 256 /\ data[a + 2] = c[1] % 256
      /\ data[a + 3] = c[2] \div 256 /\ data[a + 4] = c[2] % 256
      /\ data[a + 5] = c[3] \div 256 /\ data[a + 6] = c[3] % 256
  BY <1>2, <1>5
<1>7. ColourAt(data, a) = c
  BY <1>1, <1>3, <1>6, ColourIs
<1>8. ByteAt(data, o) = ChannelId(2, channel.light)
  BY <1>2, <1>4 DEF ByteAt
<1>9. QED
  BY <1>7, <1>8 DEF a, c

LEMMA ChannelFoundV1 ==
  ASSUME NEW channel \in Channel, NEW data, NEW o \in Nat,
         \A j \in 1..9 : data[o + j] = ChannelBytes(1, channel)[j]
  PROVE  /\ Unpack(data, o + 1) = ChannelId(1, channel.light)
         /\ ColourAt(data, o + 3) = channel.colour
<1> DEFINE B == ChannelBytes(1, channel)
           c == channel.colour
           id == ChannelId(1, channel.light)
           a == o + 3
           b == o + 1
<1>1. c \in Pictures /\ id \in Word
  <2>1. id \in Byte
    BY ChannelIdIs DEF Channel
  <2>2. c \in Pictures
    BY DEF Channel
  <2> HIDE DEF id, c
  <2>3. id \in Word
    BY <2>1, SMTT(30) DEF Byte, Word
  <2>4. QED
    BY <2>2, <2>3
<1>2. /\ B[2] = id \div 256 /\ B[3] = id % 256
      /\ B[4] = c[1] \div 256 /\ B[5] = c[1] % 256
      /\ B[6] = c[2] \div 256 /\ B[7] = c[2] % 256
      /\ B[8] = c[3] \div 256 /\ B[9] = c[3] % 256
  BY ChannelBytesV1
<1>3. /\ a \in Nat /\ \A j \in 1..6 : a + j = o + (j + 3)
      /\ b \in Nat /\ \A j \in 1..2 : b + j = o + (j + 1)
  OBVIOUS
<1>4. \A j \in 1..9 : data[o + j] = B[j]
  OBVIOUS
<1> HIDE DEF a, b, B, c, id
<1>5. /\ data[a + 1] = B[4] /\ data[a + 2] = B[5] /\ data[a + 3] = B[6]
      /\ data[a + 4] = B[7] /\ data[a + 5] = B[8] /\ data[a + 6] = B[9]
      /\ data[b + 1] = B[2] /\ data[b + 2] = B[3]
  BY <1>3, <1>4
<1>6. /\ data[a + 1] = c[1] \div 256 /\ data[a + 2] = c[1] % 256
      /\ data[a + 3] = c[2] \div 256 /\ data[a + 4] = c[2] % 256
      /\ data[a + 5] = c[3] \div 256 /\ data[a + 6] = c[3] % 256
  BY <1>2, <1>5
<1>7. ColourAt(data, a) = c
  BY <1>1, <1>3, <1>6, ColourIs
<1>8. Unpack(data, b) = id
  <2>1. data[b + 1] = id \div 256 /\ data[b + 2] = id % 256
    BY <1>2, <1>5
  <2>2. QED
    BY <1>1, <1>3, <2>1, UnpackWord
<1>9. QED
  BY <1>7, <1>8 DEF a, b, c, id

\* A datagram as far as it has arrived
Agrees(data, m, version, space, picture) ==
  /\ m \in Nat /\ m <= HeaderSize(version) + ChannelSize(version) * Len(picture)
  /\ \A i \in 1..m : data[i] = Datagram(version, space, picture)[i]

\* The bytes of the channels that lie in it
LEMMA BytesArrive ==
  ASSUME NEW version \in Byte, NEW space, NEW picture \in Seq(Channel), NEW data, NEW m,
         Agrees(data, m, version, space, picture), HeaderSize(version) <= m
  PROVE  LET h == HeaderSize(version)
             size == ChannelSize(version)
             w == (m - h) \div size
         IN /\ w \in 0..Len(picture)
            /\ \A k \in 1..w : /\ picture[k] \in Channel /\ h + size * (k - 1) \in Nat
                              /\ \A j \in 1..size : data[(h + size * (k - 1)) + j]
                                                      = ChannelBytes(version, picture[k])[j]
<1> DEFINE h == HeaderSize(version)
           size == ChannelSize(version)
           w == (m - h) \div size
           n == Len(picture)
           D == Datagram(version, space, picture)
<1>1. n \in Nat /\ \A k \in 1..n : picture[k] \in Channel
  OBVIOUS
<1>2. /\ m \in Nat /\ h <= m /\ m <= h + size * n
      /\ \A i \in 1..m : data[i] = D[i]
  BY DEF Agrees
<1>3. \A k \in 1..n, j \in 1..size : D[h + (size * (k - 1) + j)] = ChannelBytes(version, picture[k])[j]
  BY DatagramBytes
<1>4. (size = 7 /\ h = 52) \/ (size = 9 /\ h = 16)
  BY SizesAre
<1> HIDE DEF h, size, n, D
<1>5. w \in 0..n /\ \A k \in 1..w : h + size * k <= m
  <2>1. CASE size = 7 /\ h = 52
    BY <1>1, <1>2, <2>1
  <2>2. CASE size = 9 /\ h = 16
    BY <1>1, <1>2, <2>2
  <2>3. QED
    BY <1>4, <2>1, <2>2
<1> HIDE DEF w
<1>6. ASSUME NEW k \in 1..w
      PROVE  /\ h + size * (k - 1) \in Nat
             /\ \A j \in 1..size : /\ (h + size * (k - 1)) + j \in 1..m
                                  /\ (h + size * (k - 1)) + j = h + (size * (k - 1) + j)
  <2>1. h + size * k <= m /\ k \in Nat /\ 1 <= k
    BY <1>1, <1>5
  <2>2. CASE size = 7 /\ h = 52
    BY <1>2, <2>1, <2>2
  <2>3. CASE size = 9 /\ h = 16
    BY <1>2, <2>1, <2>3
  <2>4. QED
    BY <1>4, <2>2, <2>3
<1>7. ASSUME NEW k \in 1..w, NEW j \in 1..size
      PROVE  data[(h + size * (k - 1)) + j] = ChannelBytes(version, picture[k])[j]
  <2> DEFINE i == (h + size * (k - 1)) + j
  <2>1. k \in 1..n
    BY <1>1, <1>5
  <2>2. i \in 1..m /\ i = h + (size * (k - 1) + j)
    BY <1>6
  <2>3. D[h + (size * (k - 1) + j)] = ChannelBytes(version, picture[k])[j]
    BY <1>3, <2>1
  <2> HIDE DEF i
  <2>4. QED
    BY <1>2, <2>2, <2>3 DEF i
<1>8. \A k \in 1..w : picture[k] \in Channel
  BY <1>1, <1>5
<1>9. QED
  BY <1>5, <1>6, <1>7, <1>8 DEF h, size, w, n

LEMMA ChannelsV2 ==
  ASSUME NEW space, NEW picture \in Seq(Channel), NEW data,
         Agrees(data, Len(data), 2, space, picture), 52 <= Len(data)
  PROVE  parse_v2_channels(data) = Decoded(2, picture, (Len(data) - 52) \div 7)
<1> DEFINE m == Len(data)
           w == (m - 52) \div 7
<1>1. Agrees(data, m, 2, space, picture) /\ HeaderSize(2) <= m /\ 2 \in Byte
  BY DEF HeaderSize, Byte
<1>2. \A k \in 1..((m - HeaderSize(2)) \div ChannelSize(2)) :
         /\ picture[k] \in Channel /\ HeaderSize(2) + ChannelSize(2) * (k - 1) \in Nat
         /\ \A j \in 1..ChannelSize(2) :
               data[(HeaderSize(2) + ChannelSize(2) * (k - 1)) + j] = ChannelBytes(2, picture[k])[j]
  <2> HIDE DEF m
  <2>1. QED
    BY <1>1, BytesArrive
<1>3. \A k \in 1..w : /\ picture[k] \in Channel /\ 52 + 7 * (k - 1) \in Nat
                      /\ \A j \in 1..7 : data[(52 + 7 * (k - 1)) + j] = ChannelBytes(2, picture[k])[j]
  <2>1. HeaderSize(2) = 52 /\ ChannelSize(2) = 7
    BY DEF HeaderSize, ChannelSize
  <2> DEFINE h == HeaderSize(2)
             z == ChannelSize(2)
  <2>2. h = 52 /\ z = 7
    BY <2>1
  <2>3. \A k \in 1..((m - h) \div z) :
           /\ picture[k] \in Channel /\ h + z * (k - 1) \in Nat
           /\ \A j \in 1..z : data[(h + z * (k - 1)) + j] = ChannelBytes(2, picture[k])[j]
    BY <1>2
  <2> HIDE DEF m, h, z
  <2>4. QED
    BY <2>2, <2>3
<1>4. Whole(data, 52, 7) = w
  BY DEF Whole
<1> HIDE DEF m, w
<1>5. ASSUME NEW k \in 1..w
      PROVE  [id |-> ByteAt(data, 52 + 7 * (k - 1)), colour |-> ColourAt(data, 52 + 7 * (k - 1) + 1)]
               = [id |-> ChannelId(2, picture[k].light), colour |-> picture[k].colour]
  <2> DEFINE o == 52 + 7 * (k - 1)
  <2>1. /\ picture[k] \in Channel /\ o \in Nat
        /\ \A j \in 1..7 : data[o + j] = ChannelBytes(2, picture[k])[j]
    BY <1>3
  <2> HIDE DEF o
  <2>2. ByteAt(data, o) = ChannelId(2, picture[k].light) /\ ColourAt(data, o + 1) = picture[k].colour
    BY <2>1, ChannelFoundV2
  <2>3. QED
    BY <2>2 DEF o
<1>6. QED
  BY <1>4, <1>5 DEF parse_v2_channels, Decoded, m, w

LEMMA ChannelsV1 ==
  ASSUME NEW space, NEW picture \in Seq(Channel), NEW data,
         Agrees(data, Len(data), 1, space, picture), 16 <= Len(data)
  PROVE  parse_v1_channels(data) = Decoded(1, picture, (Len(data) - 16) \div 9)
<1> DEFINE m == Len(data)
           w == (m - 16) \div 9
<1>1. Agrees(data, m, 1, space, picture) /\ HeaderSize(1) <= m /\ 1 \in Byte
  BY DEF HeaderSize, Byte
<1>2. \A k \in 1..((m - HeaderSize(1)) \div ChannelSize(1)) :
         /\ picture[k] \in Channel /\ HeaderSize(1) + ChannelSize(1) * (k - 1) \in Nat
         /\ \A j \in 1..ChannelSize(1) :
               data[(HeaderSize(1) + ChannelSize(1) * (k - 1)) + j] = ChannelBytes(1, picture[k])[j]
  <2> HIDE DEF m
  <2>1. QED
    BY <1>1, BytesArrive
<1>3. \A k \in 1..w : /\ picture[k] \in Channel /\ 16 + 9 * (k - 1) \in Nat
                      /\ \A j \in 1..9 : data[(16 + 9 * (k - 1)) + j] = ChannelBytes(1, picture[k])[j]
  <2>1. HeaderSize(1) = 16 /\ ChannelSize(1) = 9
    BY DEF HeaderSize, ChannelSize
  <2> DEFINE h == HeaderSize(1)
             z == ChannelSize(1)
  <2>2. h = 16 /\ z = 9
    BY <2>1
  <2>3. \A k \in 1..((m - h) \div z) :
           /\ picture[k] \in Channel /\ h + z * (k - 1) \in Nat
           /\ \A j \in 1..z : data[(h + z * (k - 1)) + j] = ChannelBytes(1, picture[k])[j]
    BY <1>2
  <2> HIDE DEF m, h, z
  <2>4. QED
    BY <2>2, <2>3
<1>4. Whole(data, 16, 9) = w
  BY DEF Whole
<1> HIDE DEF m, w
<1>5. ASSUME NEW k \in 1..w
      PROVE  [id |-> Unpack(data, 16 + 9 * (k - 1) + 1), colour |-> ColourAt(data, 16 + 9 * (k - 1) + 3)]
               = [id |-> ChannelId(1, picture[k].light), colour |-> picture[k].colour]
  <2> DEFINE o == 16 + 9 * (k - 1)
  <2>1. /\ picture[k] \in Channel /\ o \in Nat
        /\ \A j \in 1..9 : data[o + j] = ChannelBytes(1, picture[k])[j]
    BY <1>3
  <2> HIDE DEF o
  <2>2. Unpack(data, o + 1) = ChannelId(1, picture[k].light) /\ ColourAt(data, o + 3) = picture[k].colour
    BY <2>1, ChannelFoundV1
  <2>3. QED
    BY <2>2 DEF o
<1>6. QED
  BY <1>4, <1>5 DEF parse_v1_channels, Decoded, m, w

\* parse_huestream_frame: the parser gives back what the TV put in, for every picture, wherever the
\* datagram is cut, and nothing of a channel that did not arrive whole.
THEOREM ParserDecodes ==
  ASSUME NEW version \in Byte, NEW space \in {"rgb", "xy"}, NEW picture \in Seq(Channel),
         NEW length \in Nat
  PROVE  LET data  == Cut(Datagram(version, space, picture), length)
             frame == parse_huestream_frame(data)
             w     == Fitting(version, Len(picture), length)
         IN IF version \in {1, 2} /\ Len(data) >= (IF version = 2 THEN 52 ELSE 25)
            THEN frame = [space |-> space, channels |-> Decoded(version, picture, w)]
            ELSE frame = InvalidFrame /\ (version \in {1, 2} => w = 0)
<1> DEFINE D == Datagram(version, space, picture)
           data == Cut(D, length)
           m == Len(data)
           n == Len(picture)
           h == HeaderSize(version)
           size == ChannelSize(version)
           w == Fitting(version, n, length)
<1>1. D \in Seq(Byte) /\ Len(D) = h + size * n
  BY DatagramBytes
<1>2. \A i \in 1..h : D[i] = Header(version, space)[i]
  BY DatagramBytes
<1>3. n \in Nat
  OBVIOUS
<1> HIDE DEF D
<1>4. D \in Seq(Byte)
  BY <1>1
<1>5. /\ m \in Nat /\ m = (IF length < Len(D) THEN length ELSE Len(D))
      /\ \A i \in 1..m : data[i] = D[i]
  BY <1>4, CutIs
<1> HIDE DEF data, m, n
<1>6. /\ m \in Nat /\ m = (IF length < h + size * n THEN length ELSE h + size * n)
  BY <1>1, <1>5
<1>7. Agrees(data, m, version, space, picture)
  BY <1>3, <1>5, <1>6, SizesAre DEF Agrees, D, n
<1>8. h \in {16, 52}
  BY DEF HeaderSize
<1>9. /\ \A i \in 1..9 : i <= m => data[i] = Magic[i]
      /\ 10 <= m => data[10] = version
      /\ 15 <= m => data[15] = (IF space = "xy" THEN 1 ELSE 0)
  <2> DEFINE H == Header(version, space)
  <2>1. /\ H[10] = version /\ H[15] = (IF space = "xy" THEN 1 ELSE 0)
        /\ \A i \in 1..9 : H[i] = Magic[i]
    BY HeaderBytes
  <2> HIDE DEF H, h
  <2>2. \A i \in 1..15 : i <= m => data[i] = H[i]
    BY <1>2, <1>5, <1>6, <1>8 DEF H
  <2>3. QED
    BY <2>1, <2>2
<1>10. ASSUME m >= 15
       PROVE  /\ IsPrefix(Magic, data) /\ ByteAt(data, 9) = version
              /\ \A channels : Parsed(data, channels) = [space |-> space, channels |-> channels]
  <2>1. data[10] = version /\ data[15] = (IF space = "xy" THEN 1 ELSE 0)
    BY <1>6, <1>9, <1>10
  <2>2. ByteAt(data, 9) = data[10] /\ ByteAt(data, 14) = data[15]
    BY DEF ByteAt
  <2>3. Parsed(data, <<>>).space = space /\ \A channels : Parsed(data, channels) = [space |-> space, channels |-> channels]
    BY <2>1, <2>2 DEF Parsed
  <2>4. Len(Magic) = 9
    BY DEF Magic
  <2>5. SubSeq(Magic, 1, 9) = SubSeq(data, 1, 9)
    <3>1. \A i \in 1..9 : data[i] = Magic[i] /\ Magic[i] \in Byte
      <4>1. Magic \in Seq(Byte)
        BY DEF Magic, Byte
      <4>2. \A i \in 1..9 : Magic[i] \in Byte
        <5>1. \A i \in 1..Len(Magic) : Magic[i] \in Byte
          BY <4>1, ElementOfSeq
        <5>2. QED
          BY <2>4, <5>1
      <4>3. m \in Nat
        BY <1>6
      <4>4. \A i \in 1..9 : data[i] = Magic[i]
        BY <1>9, <1>10, <4>3
      <4>5. QED
        BY <4>2, <4>4
    <3>2. QED
      BY <3>1
  <2>6. IsPrefix(Magic, data)
    BY <1>6, <1>10, <2>5, <2>4 DEF IsPrefix, m
  <2>7. QED
    BY <2>1, <2>2, <2>3, <2>6
<1>11. CASE version = 2 /\ m >= 52
  <2>1. (m - 52) \div 7 = w
    BY <1>3, <1>6, <1>11 DEF Fitting, HeaderSize, ChannelSize
  <2>2. parse_v2_channels(data) = Decoded(2, picture, (m - 52) \div 7)
    BY <1>7, <1>11, ChannelsV2 DEF m
  <2>3. parse_huestream_frame(data) = Parsed(data, parse_v2_channels(data))
    BY <1>6, <1>10, <1>11 DEF parse_huestream_frame, m
  <2>4. QED
    BY <1>6, <1>10, <1>11, <2>1, <2>2, <2>3 DEF m, data, D, n
<1>12. CASE version = 1 /\ m >= 25
  <2>1. (m - 16) \div 9 = w
    BY <1>3, <1>6, <1>12 DEF Fitting, HeaderSize, ChannelSize
  <2>2. parse_v1_channels(data) = Decoded(1, picture, (m - 16) \div 9)
    BY <1>6, <1>7, <1>12, ChannelsV1 DEF m
  <2>3. parse_huestream_frame(data) = Parsed(data, parse_v1_channels(data))
    BY <1>6, <1>10, <1>12 DEF parse_huestream_frame, m
  <2>4. QED
    BY <1>6, <1>10, <1>12, <2>1, <2>2, <2>3 DEF m, data, D, n
<1>13. CASE ~(version \in {1, 2} /\ m >= (IF version = 2 THEN 52 ELSE 25))
  <2>1. version \in {1, 2} => w = 0
    BY <1>3, <1>6, <1>13 DEF Fitting, HeaderSize, ChannelSize
  <2>2. parse_huestream_frame(data) = InvalidFrame
    BY <1>6, <1>10, <1>13 DEF parse_huestream_frame, m
  <2>3. QED
    BY <1>13, <2>1, <2>2 DEF m, data, D, n
<1>14. QED
  BY <1>6, <1>11, <1>12, <1>13

-----------------------------------------------------------------------------
(* The slot hears what the TV said *)

LEMMA FramesAre ==
  ASSUME NEW picture \in Frames
  PROVE  /\ picture \in Seq(Channel)
         /\ \A j, k \in 1..Len(picture) : picture[j].light = picture[k].light => j = k
<1>1. /\ picture \in UNION {[1..n -> Channel] : n \in 0..MaxChannels}
      /\ \A j, k \in DOMAIN picture : picture[j].light = picture[k].light => j = k
  BY DEF Frames, BoundedSeq, SeqOf, Channel
<1>2. PICK n \in 0..MaxChannels : picture \in [1..n -> Channel]
  BY <1>1
<1>3. n \in Nat
  BY <1>2, WireAssumption
<1>4. picture \in Seq(Channel)
  BY <1>2, <1>3
<1>5. DOMAIN picture = 1..Len(picture)
  BY <1>4
<1>6. QED
  BY <1>1, <1>4, <1>5

\* What is heard is a colour of the frame's, for either numbering of the channels.
LEMMA HeardColour ==
  ASSUME NEW version, NEW picture \in Seq(Channel), NEW w \in 0..Len(picture)
  PROVE  Heard(Decoded(version, picture, w)) \in Pictures \cup {None}
<1> DEFINE channels == Decoded(version, picture, w)
           Own(c) == c.id \in DOMAIN Mapping /\ Mapping[c.id] = Light
<1>1. \A c \in Range(channels) : c.colour \in Pictures
  <2>1. \A k \in 1..w : picture[k] \in Channel
    OBVIOUS
  <2>2. \A k \in 1..w : channels[k].colour \in Pictures
    BY <2>1 DEF Decoded, Channel
  <2>3. DOMAIN channels = 1..w
    BY DEF Decoded
  <2> HIDE DEF channels
  <2>4. QED
    BY <2>2, <2>3 DEF Range
<1> HIDE DEF channels
<1>2. CASE \E c \in Range(channels) : Own(c)
  <2> DEFINE c == CHOOSE c \in Range(channels) : Own(c)
  <2>1. c \in Range(channels)
    BY <1>2
  <2>2. Heard(channels) = c.colour
    BY <1>2 DEF Heard
  <2> HIDE DEF c
  <2>3. QED
    BY <1>1, <2>1, <2>2 DEF channels
<1>3. CASE ~\E c \in Range(channels) : Own(c)
  BY <1>3 DEF Heard, channels
<1>4. QED
  BY <1>2, <1>3

\* The light's own channel is the one that is found.
LEMMA OwnChannel ==
  ASSUME NEW version, NEW picture \in Frames, NEW w \in 0..Len(picture),
         \A light \in Lights : ChannelId(version, light) = light
  PROVE  Heard(Decoded(version, picture, w)) = Said(SubSeq(picture, 1, w))
<1> DEFINE channels == Decoded(version, picture, w)
           arrived == SubSeq(picture, 1, w)
           Own(c) == c.id \in DOMAIN Mapping /\ Mapping[c.id] = Light
<1>1. /\ picture \in Seq(Channel) /\ Len(picture) \in Nat
      /\ \A j, k \in 1..Len(picture) : picture[j].light = picture[k].light => j = k
  BY FramesAre
<1>2. /\ w \in Nat /\ w <= Len(picture) /\ 1..w \subseteq 1..Len(picture)
      /\ \A k \in 1..w : picture[k] \in Channel /\ picture[k].light \in Lights
  <2>1. w \in Nat /\ w <= Len(picture) /\ 1..w \subseteq 1..Len(picture)
    BY <1>1
  <2>2. \A k \in 1..w : picture[k] \in Channel
    BY <1>1, <2>1
  <2>3. QED
    BY <2>1, <2>2 DEF Channel
<1>3. /\ DOMAIN channels = 1..w
      /\ \A k \in 1..w : channels[k].id = picture[k].light /\ channels[k].colour = picture[k].colour
  BY <1>2 DEF Decoded
<1>4. /\ DOMAIN arrived = 1..w
      /\ \A k \in 1..w : arrived[k] = picture[k]
  BY <1>1, <1>2
<1> HIDE DEF channels, arrived
<1>5. /\ \A c : c \in Range(channels) <=> \E k \in 1..w : c = channels[k]
      /\ \A c : c \in Range(arrived) <=> \E k \in 1..w : c = arrived[k]
  BY <1>3, <1>4 DEF Range
<1>6. \A k \in 1..w : Own(channels[k]) <=> picture[k].light = Light
  BY <1>2, <1>3, LightAssumption DEF Mapping
<1> HIDE DEF Own
<1>7. CASE \E k \in 1..w : picture[k].light = Light
  <2>1. PICK k \in 1..w : picture[k].light = Light
    BY <1>7
  <2>2. \A j \in 1..w : picture[j].light = Light => j = k
    BY <1>1, <1>2, <2>1
  <2>3. Heard(channels) = picture[k].colour
    <3>1. /\ \E c \in Range(channels) : Own(c)
          /\ \A c \in Range(channels) : Own(c) => c = channels[k]
      BY <1>5, <1>6, <2>1, <2>2
    <3>2. (CHOOSE c \in Range(channels) : Own(c)) = channels[k]
      BY <3>1
    <3>3. Heard(channels) = (CHOOSE c \in Range(channels) : Own(c)).colour
      BY <3>1 DEF Heard, Own
    <3>4. QED
      BY <1>3, <3>2, <3>3
  <2>4. Said(arrived) = picture[k].colour
    <3>1. /\ \E c \in Range(arrived) : c.light = Light
          /\ \A c \in Range(arrived) : c.light = Light => c = picture[k]
      BY <1>4, <1>5, <2>1, <2>2
    <3>2. (CHOOSE c \in Range(arrived) : c.light = Light) = picture[k]
      BY <3>1
    <3>3. Said(arrived) = (CHOOSE c \in Range(arrived) : c.light = Light).colour
      BY <3>1 DEF Said
    <3>4. QED
      BY <3>2, <3>3
  <2>5. QED
    BY <2>3, <2>4 DEF channels, arrived
<1>8. CASE ~\E k \in 1..w : picture[k].light = Light
  <2>1. ~\E c \in Range(channels) : Own(c)
    BY <1>5, <1>6, <1>8
  <2>2. ~\E c \in Range(arrived) : c.light = Light
    BY <1>4, <1>5, <1>8
  <2>3. Heard(channels) = None /\ Said(arrived) = None
    BY <2>1, <2>2 DEF Heard, Said, Own
  <2>4. QED
    BY <2>3 DEF channels, arrived
<1>9. QED
  BY <1>7, <1>8

\* What comes out of an arrival is a colour or nothing and, when the area counts
\* its channels as the TV does, the colour that the TV said.
LEMMA ArrivalHears ==
  ASSUME NEW version \in Versions, NEW space \in {"rgb", "xy"}, NEW picture \in Frames,
         NEW length \in Lengths
  PROVE  LET a == Arrival(version, space, picture, length)
         IN /\ a.space = space /\ a.heard \in Pictures \cup {None}
            /\ (FirstChannel = 1 \/ 2 \notin Versions) => a.heard = a.said
<1> DEFINE data  == Cut(Datagram(version, space, picture), length)
           frame == parse_huestream_frame(data)
           w     == Fitting(version, Len(picture), length)
           a     == Arrival(version, space, picture, length)
           short == ~(version \in {1, 2} /\ Len(data) >= (IF version = 2 THEN 52 ELSE 25))
<1>1. version \in Byte /\ length \in Nat /\ picture \in Seq(Channel)
  BY WireAssumption, FramesAre DEF Byte
<1>2. w \in 0..Len(picture)
  BY <1>1, FittingIs
<1>3. a.space = space
  BY DEF Arrival
<1>4. a.heard = IF frame.space = space THEN Heard(frame.channels) ELSE None
  BY DEF Arrival, Cut
<1>5. a.said = Said(Arrived(version, space, picture, length))
  BY DEF Arrival
<1>6. IF short THEN frame = InvalidFrame /\ (version \in {1, 2} => w = 0)
      ELSE frame = [space |-> space, channels |-> Decoded(version, picture, w)]
  BY <1>1, ParserDecodes
<1>7. version \in {1, 2} => Arrived(version, space, picture, length) = SubSeq(picture, 1, w)
  BY <1>1, ArrivedIs
<1>8. version \notin {1, 2} => Arrived(version, space, picture, length) = <<>>
  BY DEF Arrived
<1> HIDE DEF frame, w, a, short
<1>9. CASE short
  <2>1. a.heard = None
    BY <1>4, <1>6, <1>9 DEF InvalidFrame
  <2>2. Arrived(version, space, picture, length) = <<>>
    BY <1>1, <1>6, <1>7, <1>8, <1>9
  <2>3. Said(<<>>) = None
    BY DEF Said, Range
  <2>4. QED
    BY <1>3, <1>5, <2>1, <2>2, <2>3 DEF a
<1>10. CASE ~short
  <2>1. version \in {1, 2}
    BY <1>10 DEF short
  <2>2. a.heard = Heard(Decoded(version, picture, w))
    BY <1>4, <1>6, <1>10
  <2>3. a.heard \in Pictures \cup {None}
    BY <1>1, <1>2, <2>2, HeardColour
  <2>4. ASSUME FirstChannel = 1 \/ 2 \notin Versions
        PROVE  a.heard = a.said
    <3>1. \A light \in Lights : ChannelId(version, light) = light
      BY <2>1, <2>4, AreaAssumption DEF ChannelId, Lights
    <3>2. a.said = Said(SubSeq(picture, 1, w))
      BY <1>5, <1>7, <2>1
    <3>3. QED
      BY <1>2, <2>2, <3>1, <3>2, OwnChannel
  <2>5. QED
    BY <1>3, <2>3, <2>4 DEF a
<1>11. QED
  BY <1>9, <1>10

\* Every arrival that can be: FrameArrives in terms of its parts
LEMMA ArrivalsAre ==
  ASSUME NEW a \in Arrivals
  PROVE  /\ a.space \in {"rgb", "xy"} /\ a.heard \in Pictures \cup {None}
         /\ (FirstChannel = 1 \/ 2 \notin Versions) => a.heard = a.said
<1>1. PICK version \in Versions, space \in {"rgb", "xy"}, picture \in Frames, length \in Lengths :
         a = Arrival(version, space, picture, length)
  BY DEF Arrivals
<1>2. QED
  BY <1>1, ArrivalHears

\* Every step of the stream is one of the slot's or leaves it alone.
LEMMA StreamStep ==
  StreamNext => Next \/ UNCHANGED vars
<1>1. ASSUME FrameArrives PROVE Next \/ UNCHANGED vars
  <2>1. PICK a \in Arrivals :
           IF a.heard = None THEN UNCHANGED vars ELSE handle_frame(a.heard)
    BY <1>1 DEF FrameArrives
  <2>2. a.heard = None \/ a.heard \in Pictures
    BY ArrivalsAre
  <2>3. QED
    BY <2>1, <2>2 DEF Next
<1>2. Otherwise => Next
  BY DEF Otherwise, Next
<1>3. QED
  BY <1>1, <1>2 DEF StreamNext

\* Under the datagrams the slot does what LightSlot allows: StreamSlot implements it,
\* for either numbering of the channels.
THEOREM StreamImplementsSlot == StreamSpec => Spec
<1>1. StreamInit => Init
  BY DEF StreamInit
<1>2. [StreamNext]_streamVars => [Next]_vars
  BY StreamStep DEF streamVars
<1>3. QED
  BY <1>1, <1>2, PTL DEF StreamSpec, Spec

\* The slot hears of its light what the TV said, of any area and wherever a datagram
\* is cut, when the TV counts its channels as the mappings do: in version 1, which
\* counts from 1. Version 2 counts from 0 by the comment in async_setup_entry, and is
\* covered only for a TV that would not (FirstChannel = 1).
THEOREM HearsEveryFrame ==
  ASSUME FirstChannel = 1 \/ 2 \notin Versions
  PROVE  StreamSpec => []HearsWhatIsSaid
<1>1. StreamInit => HearsWhatIsSaid
  BY DEF StreamInit, Init, HearsWhatIsSaid
<1>2. ASSUME HearsWhatIsSaid, [StreamNext]_streamVars
      PROVE  HearsWhatIsSaid'
  <2>1. CASE FrameArrives
    <3>1. PICK a \in Arrivals :
             /\ said' = (IF a.said = None THEN said ELSE a.said)
             /\ IF a.heard = None THEN UNCHANGED vars ELSE handle_frame(a.heard)
      BY <2>1 DEF FrameArrives
    <3>2. a.heard = a.said
      BY ArrivalsAre
    <3>3. QED
      BY <1>2, <3>1, <3>2 DEF HearsWhatIsSaid, handle_frame, vars
  <2>2. CASE Otherwise
    <3>1. newest' = None \/ newest' = newest
      BY <2>2 DEF Otherwise, handle_light_command, DrainSends, CallReturns, Tick, SessionStarts,
                  SessionEnds, Suppression, ResetMapping
    <3>2. said' = (IF newest' = None THEN None ELSE said)
      BY <2>2 DEF Otherwise
    <3>3. QED
      BY <1>2, <3>1, <3>2 DEF HearsWhatIsSaid
  <2>3. CASE UNCHANGED streamVars
    BY <1>2, <2>3 DEF streamVars, vars, HearsWhatIsSaid
  <2>4. QED
    BY <1>2, <2>1, <2>2, <2>3 DEF StreamNext
<1>3. QED
  BY <1>1, <1>2, PTL DEF StreamSpec

\* So the light keeps up with the picture and the first colour snaps under the
\* datagrams too.
THEOREM StreamKeepsUp == StreamSpec => []ShowsPicture /\ SnapsAfterReset
BY StreamImplementsSlot, LightKeepsUp, FirstColourSnaps, PTL

\* And the commands between the sessions add up.
THEOREM StreamCommandsAddUp ==
  ASSUME NEW k \in Colours, OneColour(k)
  PROVE  StreamSpec => []LightFollows
<1>1. Spec => []LightFollows
  BY CommandsAddUp
<1>2. QED
  BY <1>1, StreamImplementsSlot, PTL

\* From the bytes to the light: once nothing is queued and nothing on the wire, the
\* light shows a colour within tolerance of what the TV said last.
ShowsWhatIsSaid ==
  said # None /\ last # Nothing /\ ~slot.dirty /\ call = NoCall =>
    /\ WithinTolerance(said)
    /\ IF FrameData(last).brightness = 0 THEN ~lamp.on
       ELSE lamp = [on |-> TRUE, data |-> FrameData(last)]

\* parse_huestream_frame, _schedule_update and the drain loop together, for the same TV
THEOREM LightShowsWhatIsSaid ==
  ASSUME FirstChannel = 1 \/ 2 \notin Versions
  PROVE  StreamSpec => []ShowsWhatIsSaid
<1>1. HearsWhatIsSaid /\ ShowsPicture => ShowsWhatIsSaid
  BY DEF HearsWhatIsSaid, ShowsPicture, ShowsWhatIsSaid
<1>2. StreamSpec => []HearsWhatIsSaid
  BY HearsEveryFrame
<1>3. QED
  BY <1>1, <1>2, StreamKeepsUp, PTL
================================================================================
