SPECIFICATION FairSpec
CONSTANTS
  AuthTries = 2
  AssocTries = 2
  M1Wait = 3
  MaxTimeouts = 3
  MaxIters = 5
  M4Window = 2
  ApRetries = 2
  Passphrases = {"right", "wrong", "none"}
  FaultModes = {{}, {"reject", "nogtk", "noise"}, {"reject", "nogtk", "noise", "untimed"}}
  MaxLoss = 1
  MaxSess = 2
CHECK_DEADLOCK FALSE
INVARIANTS KeysAgree SurvivesLoss
PROPERTY JoinEnds
