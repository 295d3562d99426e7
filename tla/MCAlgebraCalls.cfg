CONSTANTS
  Elements <- MCElements
  MaxUsize = 5
  Partners <- MCPartners
  Funcs <- MCFuncs
  Forms <- MCForms
SPECIFICATION Spec
INVARIANTS
  ConstructionExact
  ElementOperations
  FamilyOperations
  FilterOperations
  MembersExact
  FormsExact
  BehavesAsASet
