SPECIFICATION FairSpec
CONSTANTS
  p = p
  sha = sha
  b = b
  b2 = b2
  c = c
  j = j
  c2 = c2
  dashboard = dashboard
  cli = cli
  stranger = stranger
  Jobs = {c, j, c2}
  NameOf <- Name
  BuildOf <- Build
  CommitOf <- CommitOfBuild
  ProjectOf <- ProjectOfCommit
  Ends = {"finished", "error", "skipped"}
  Setups <- AllSetups
  Unreportable = {}
  Clients = {dashboard, cli, stranger}
  TokenOf <- Tokens
  Collaborators = {dashboard}
  Public = FALSE
  MaxEntries = 2
  MaxChanges <- Changes
  MaxFaults = 1
INVARIANTS
  TypeOK
  ClientsTold
  StatusCurrent
  VoteFinal
  MembersCounted
PROPERTIES
  NotificationsSettle
CHECK_DEADLOCK FALSE
