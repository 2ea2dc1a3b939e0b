SPECIFICATION StreamSpec
CONSTANTS
  Pictures <- MCPictures
  Bodies <- MCBodies
  MinFade = 1
  MaxFade = 3
  None = None
  LightCount = 2
  Light = 2
  FirstChannel = 0
  Versions = {1, 3}
  MaxChannels = 2
  Lengths <- MCLengths
INVARIANTS
  ShowsPicture
  LightFollows
  HearsWhatIsSaid
PROPERTIES
  SnapsAfterReset
