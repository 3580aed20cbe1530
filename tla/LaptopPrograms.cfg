SPECIFICATION ProgramsSpec
CONSTANTS
  NoPhone = NoPhone
  NoHeader = NoHeader
  Open = Open
  Recorded <- RecordedLists
  Auditors = {1, 2}
  Elements = 2
  FrameLen = 2
  MaxFrames = 1
  MaxCaptures = 2
  Setups <- SetupsSmall
  ArrayElements = 3
  Window = 2
  Home <- Homes
  Jitter = 1
  Ghosts = {3, 20}
  Radius = 2
  Timeout = 4
  MaxTracks = 2
  Nowhere = Nowhere
  MaxNow = 12
  Targets = {tiny, indic}
  Placeholders = {vosk}
  MaxFetches = 3
  Processes = {p1, p2}
  Absent = Absent
  Empty = Empty
  MaxClock = 4
  Viewers = {v1, v2}
  LivePhones = {0, 1}
  Keep = 1
  MaxLive = 2
  Producers = {capture, chirp}
  Dials = {d1}
  Room = 1
  MaxStarts = 2
  Nobody = Nobody
  Chirp <- ChirpShort
  MaxRecording = 13
  MaxLags = {1, 2, 3, 4, 16}
  Headers <- HeadersSmall
  Bursts = {1, 8, 32}
INVARIANTS
  NothingTorn
  LatestRunTogether
  RecordedAsOwn
  StemsInStep
  SpeakersToldApart
  FetchedModelLoads
  AudioUnbroken
  DialedWhole
  BroadcastHasWayOut
  
  FramedIsReadBack
PROPERTIES
  StampSettles
CHECK_DEADLOCK FALSE
