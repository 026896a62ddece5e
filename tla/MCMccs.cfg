CONSTANTS
  Cases <- Documents
SPECIFICATION Spec
INVARIANTS ParsedTrue RowsExact AnswerValid AnswerBest EndJustified
CHECK_DEADLOCK FALSE
