SPECIFICATION FairSpec
CONSTANTS
  Packets <- TwoOpcodes
  BufferSize = 10
  MaxChunk = 11
  Event = 4
  Noise = 9
  MaxPackets = 3
  MaxNoise = 1
INVARIANTS TypeOK InBounds Framed
PROPERTY EventsArrive
