CONSTANTS
  Schema <- MCSchema
  MaxRid = 2
  Statements <- MCStatements
  Queries <- MCQueries
  Misread = {0, 1}
  None = None
SPECIFICATION Spec
INVARIANTS
  TypeOK
  SelectPrintsAnswers
  RefusedCallChangesNothing
  CallHasItsEffect
  RepeatedCallCompletes
