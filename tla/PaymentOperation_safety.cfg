SPECIFICATION FairSpec
CONSTANTS
  b1 = b1
  b2 = b2
  None = None
  Keys = {free, replay, other}
  FreeKeys = {free}
  ReplayKeys = {replay}
  Execs = {e1, e2}
  Bodies = {b1, b2}
  MaxAttempts = 2
  MaxIds = 2
CONSTRAINTS OneKey FirstBody
CHECK_DEADLOCK FALSE
INVARIANTS
  TypeOK
  OnePaymentPerKey
  AnsweredIsDurable
  SucceededIsProof
  SuccessIsQueued
PROPERTIES
  SettledIsFinal
  FinalViewsStay
  ImplementsOnce
  EveryOperationSettles
