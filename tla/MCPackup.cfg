CONSTANTS
  Cases <- Documents
SPECIFICATION Spec
INVARIANTS EncodingExact ObjectivesExact AnswerJustified
CHECK_DEADLOCK FALSE
