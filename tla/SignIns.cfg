SPECIFICATION Spec
CONSTANTS
  e0 = e0
  e1 = e1
  g0 = g0
  g1 = g1
  g2 = g2
  l1 = l1
  b1 = b1
  r1 = r1
  r2 = r2
  r3 = r3
  Nothing = Nothing
  Directory = Directory
  Emails <- TwoEmails
  OperatorEmail = e0
  Accounts <- ThreeAccounts
  OperatorAccount = g0
  FirstMailbox <- OneWithout
  Logins <- OneLogin
  Browsers <- OneBrowser
  Requests <- OneRequest
  CreatorLimit = 2
  MaxSessions = 2
  MaxMoves = 1
  MaxWorkspaces = 1
INVARIANTS
  SessionsKeepTheirAccount
  DeliveredOnce
CHECK_DEADLOCK FALSE
