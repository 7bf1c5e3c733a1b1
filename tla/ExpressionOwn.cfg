SPECIFICATION Spec
CONSTANTS
  Member = {1, 2}
  Slot = {0, 1}
  Kind <- Both
  Bend = {1}
  Press = {3}
  Ranges = {1, 2}
  DefaultRange <- Default
  LastFrame = 2
  Capacity = 2
  CallsBetween = TRUE
  MaxNotes = 2
  MaxMessages = 3
CHECK_DEADLOCK FALSE
INVARIANTS VoiceKeepsOwn NoteFollowsMember TimelinesOrdered
