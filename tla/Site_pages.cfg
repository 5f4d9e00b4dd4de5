\* All sixteen tool pages with two calls each; no symmetry, as it checks liveness.
CONSTANTS
  Pages <- MCAllPages
  MaxCalls = 2
  MaxCopies = 2
  MaxUrls = 3
  MaxClicks = 3
  MaxRows = 3
  MaxChoices = 3
  MaxVideo = 3
  MaxListed = 3
  Lines <- MCLines
  Offsets = {15}
  MaxInt = 3640
  MaxLines = 3
  MaxShift = 30
SPECIFICATION LiveSpec
INVARIANTS
  ShownIsLastAsked
  OutcomeTrackedOnce
  AnswerFitsPage
  RequestFitsTool
  GeneratorAgrees
  LastChoiceShown
  NoRowLeftBehind
  ShiftsAddUp
  ValidatorIsRight
PROPERTIES
  SubmissionAnswered
