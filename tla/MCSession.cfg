SPECIFICATION FairSpec
CONSTANTS
  p1 = p1
  p2 = p2
  l1 = l1
  l2 = l2
  Polls <- TwoPolls
  Logouts <- TwoLogouts
  MaxBusy = 2
  Keys <- AboutAndPoll
  KeyOf <- Together
  Failures <- NetworkOnly
INVARIANTS TypeOK RequiresLoginKept
PROPERTIES StaysLoggedIn LeavesRouter ShowsAView
CHECK_DEADLOCK FALSE
