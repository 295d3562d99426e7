CONSTANTS
  Elements <- MCElements
  MaxUsize = 100
  Inputs <- MCInputs
  Weighting <- MCWeighting
  Asked <- MCAsked
  Budgets <- MCBudgets
  MaxBudgets <- MCMaxBudgets
SPECIFICATION Spec
INVARIANTS
  WeightsExact
  IntervalsSound
  CoverIsMinimal
