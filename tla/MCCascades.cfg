\* Every logical plan of up to six nodes.
SPECIFICATION Spec
CONSTANTS
  MaxNodes = 6
  Plans <- SmallPlans
INVARIANTS
  CascadesTypeOK
  WinnersAreComplete
  BestPlanIsTheQuery
PROPERTY
  SearchEnds
CHECK_DEADLOCK FALSE
