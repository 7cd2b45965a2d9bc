\* Two forms, four requests.
CONSTANTS
  Changes <- MCChanges
  Blank = 0
  MaxStock = 2
  MaxMounts = 2
  MaxSubmits = 4
SPECIFICATION Spec
INVARIANT OneEffectPerForm
INVARIANT RefusedFormHasNoEffect
INVARIANT SuccessIsWhatWasSent
