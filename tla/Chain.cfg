SPECIFICATION Spec
INVARIANTS TypeOK OneAnswer ContextArrives AnswersAccounted
CHECK_DEADLOCK FALSE
