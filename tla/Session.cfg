SPECIFICATION Spec
CONSTANTS
  n1 = n1  n2 = n2
  Workers = {w1, w2}
  Main = main
  Nobody = Nobody
  Order <- MCOrder
  Sources <- MCSources
  RelationOf <- MCRelationOf
  Operations = 2
  NoAnswer = NoAnswer
  MaxAltered = 1
  MaxExpired = 1
\* A closed command does nothing more.
CHECK_DEADLOCK FALSE
INVARIANTS OneTablePerRun ClosedIsQuiet
PROPERTIES CloseEnds
