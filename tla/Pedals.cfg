SPECIFICATION Spec
CONSTANTS
  Omni = Omni
  Channel = {0, 1}
  Pitch = {60}
  Regions <- AllMC
  QueueCapacity = 2
  MaxNotes = 2
INVARIANTS HeldByPedal SostenutoQueueGuarded QueuesDrainOnce
PROPERTIES SustainHoldsOmni
