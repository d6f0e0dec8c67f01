SPECIFICATION SpecInspection
CONSTANTS
  Settings <- MCSettings
  Marks <- MCMarks
INVARIANT AddedFindingsNeverWeaken
INVARIANT OptOutsOnlyRelax
INVARIANT OnlyKnownResidue
CHECK_DEADLOCK FALSE
