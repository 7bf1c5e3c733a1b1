SPECIFICATION Spec
CONSTANTS
  member1 = member1
  member2 = member2
  beyond = beyond
  Source = {member1, member2, beyond}
  ValidSource = {member1, member2}
  Pitch = {60}
  Capacities = {1, 2}
  Generations = 4
  MaxNotes = 6
  MaxKept = 1
  MaxEpoch = 1
INVARIANT GenerationGuards
PROPERTIES PairsInOrder
