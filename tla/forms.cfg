SPECIFICATION Spec
CONSTANTS
  Words <- SmallWords
  Empty = ""
  Segments <- SmallSegments
  NumberOf <- SmallNumberOf
  Within <- SmallWithin
  Matching <- SmallMatching
  Patterns <- SmallPatterns
  WordBits = 3
  MaxDuration = 100000000
  TrimTo <- SmallTrimTo
  SlugLetters <- SmallSlugs
  SlugLimit = 4
  ScriptName <- SmallScriptName
  DefaultHeader = "A"
  Amendments <- SmallAmendments
  Slugs <- TypedSlugs
  Refs <- SmallRefs
  Parts <- SmallParts
  EnvLines <- SmallEnvLines
  EnvNames <- SmallEnvNames
  Hooks <- SmallHooks
  Others <- SmallOthers
  Defaults <- SmallDefaults
  Payloads <- SmallPayloads
  Moments <- SmallMoments
  Callers <- SmallCallers
  Reference <- SmallReference
  Environment <- SmallEnvironment
  Pieces <- SmallPieces
  VariableOf <- SmallVariableOf
  MaxAmends = 1
  MaxEdits = 2
CHECK_DEADLOCK FALSE
INVARIANT OpenInTheUnion
INVARIANT ReadersAgree
PROPERTY OnlyWhatWasChanged
PROPERTY GuardsSurvive
PROPERTY NothingTypedIsLost
