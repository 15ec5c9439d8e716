CONSTANTS
  Mails = 2
  Rcpts = 2
  Configs <- MCConfigs
SPECIFICATION Spec
CHECK_DEADLOCK FALSE
INVARIANTS OkMeansTaken InStep
PROPERTIES AnswerFinal
