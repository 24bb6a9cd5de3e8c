SPECIFICATION Spec
CONSTANTS
  NumSlots = 3
  NumChannels = 2
  SlotMs = 5
  AckMs = 2
  Broadcast <- MCBroadcast
  MaxQueue = 3
  MaxChanges = 2
INVARIANTS RadioTypeOK OnlyLoneFramesHeard KnownCellsHeard
