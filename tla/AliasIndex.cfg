\* Processes one after the other, or in any order and killed at any step.
SPECIFICATION IndexSpec
CONSTANTS
  Runs = {1, 2}
  Times = {1, 2}
  Readers = {q1}
  None = None
CHECK_DEADLOCK FALSE
INVARIANTS
  IndexIsSound
  AnswerIsCoherent
  NoUpdateIsLost
PROPERTY AnswersAreNewest
