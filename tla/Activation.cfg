SPECIFICATION Spec
CONSTANTS
  Channel = {0, 1}
  Omni = Omni
  Key = {24, 25, 60}
  Level = {0, 1}
  Program = {0, 1}
  Control = {1}
  None = None
  Instruments <- All
  AllNotes = 128
  MaxHeld = 3
INVARIANTS KeySwitchIsLatest FirstOrLegato RoundsAgree ConditionsCurrent
PROPERTIES SourcesIsolatedOtherwise SwitchesFollowKeys
