SPECIFICATION FairSpec
CONSTANTS
  None = None
  Modes = {"full-access", "approval-required"}
  DefaultMode = "full-access"
  MaxTurns = 2
  MaxRequests = 2
  MaxContexts = 3
  MaxTrouble = 1
INVARIANTS
  LiveSessionsAreKnown
  AccountsAgree

  
CHECK_DEADLOCK FALSE
