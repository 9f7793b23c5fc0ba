SPECIFICATION Spec
CONSTANTS
  Pages = {"chat", "agent", "workspace", "assistant", "voice"}
  Convs = {a, b}
  None = None
  MaxAsks = 2
  MaxInPlay = 3
SYMMETRY ConvSymmetry
CONSTRAINT TwoMishaps
CHECK_DEADLOCK FALSE
INVARIANTS AnswersItsQuestion QuestionAboveAnswer ShownBelongs ThinkingEnds BusyIsWorking
