SPECIFICATION Spec
CONSTANTS
  Omni = Omni
  Channel = {0, 1}
  Pitch = {60}
  Regions <- RestrictedMC
  QueueCapacity = 2
  MaxNotes = 2
PROPERTIES SustainHolds
