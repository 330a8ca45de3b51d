SPECIFICATION FairSpec
CONSTANTS
  Clients = {b1, b2}
  Nets = {right, wrong}
  Good = {right}
  NoNet = none
  RestartDelay = 1
  JoinDelay = 2
  SuccessDelay = 3
  GiveUpDelay = 6
  MaxAsks = 2
  MaxClicks = 2
INVARIANT AttemptHasTimer
INVARIANT JoinedAsAsked
PROPERTY ApGivenUpOnlyWhenJoined
PROPERTY AttemptEnds
PROPERTY SuccessGoesStation
CHECK_DEADLOCK FALSE
