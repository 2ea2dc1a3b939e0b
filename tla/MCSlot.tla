-------------------------------- MODULE MCSlot --------------------------------
(* A small instance of LightSlot and StreamSlot for TLC. *)
EXTENDS StreamSlot, TLC

\* Steps within and across the tolerance of brightness, of a chromaticity
\* (1960 < 0.03 * 65535), and the dark.
MCPictures == {<<0, 0, 0>>, <<20, 0, 20>>, <<30, 0, 30>>, <<40, 0, 40>>, <<2000, 0, 40>>}

\* The TV sends colour and brightness as separate requests.
MCBodies ==
  {"on" :> TRUE, "on" :> FALSE, "bri" :> 1, "bri" :> 254,
   "xy" :> "blue", "xy" :> "red" @@ "bri" :> 100 @@ "transitiontime" :> 4,
   "on" :> TRUE @@ "xy" :> "red", "transitiontime" :> 4}

\* Both sides of the ends of the name, the version, the headers and the channels
MCLengths == {0, 8, 9, 14, 15, 16, 24, 25, 33, 34, 51, 52, 58, 59, 65, 66}
=============================================================================
