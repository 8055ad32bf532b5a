SPECIFICATION Spec
CONSTANTS
  a = a
  b = b
  z = z
  Circuit <- MCCircuit
  BaseOut <- MCBaseOut
  Waves <- MCWaves
  MaxWaves = 2
  Settings <- MCSettings
  Residuals = {"met", "open", "inf"}
INVARIANTS
  StepIsOwn
  BaseBetweenCases
  VerdictIsSolved
  RefactorBudget
