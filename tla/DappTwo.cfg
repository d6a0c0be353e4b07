CONSTANTS
  Runs = {r1, r2}
  Dapps = {"two"}
  SaltNonces = {"42069"}
  DefaultNonce = "42069"
  SecondsDelta = 2
  CycleCounts = {2}
  MaxRounds = 2
  MaxOthers = 1
SPECIFICATION FairSpec
CHECK_DEADLOCK FALSE
PROPERTY TransfersSpaced
