SPECIFICATION Spec
CONSTANTS
  Clients = {b1, b2}
  Nets = {right, wrong}
  Good = {right}
  NoNet = none
  RestartDelay = 1
  JoinDelay = 2
  SuccessDelay = 3
  GiveUpDelay = 6
  MaxAsks = 2
  MaxClicks = 1
INVARIANT OutcomeIsOwn
CHECK_DEADLOCK FALSE
