SPECIFICATION Spec
CONSTANTS
  Key = {60, 62}
  Channel = {1, 2}
  Group <- Groups
  Header <- Headers
  Engine = 30
  Setups <- SetupsMC
  MinOverflow = 4
CHECK_DEADLOCK FALSE
INVARIANTS RecursionBounded RegistriesAgree PolyphonyHeld RingsClosed
PROPERTIES ChokesComplete LouderSurvives CutOnlyAtLimit
