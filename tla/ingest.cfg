SPECIFICATION MCSpec
CONSTANTS
  Requests = {1, 2, 3}
  Message <- Named
  Sends <- Sent
  Registry <- Agents
  Configs <- Versions
  SlotOf <- Slots
  StoreKinds = {"memory", "redis"}
  Limits <- Settings
  MaxNow = 2
  MaxFail = 1
  Concurrent = 2
CHECK_DEADLOCK FALSE
INVARIANT OneClaimant
INVARIANT AnswersTrue
INVARIANT AlignedUnderItsVersion
INVARIANT BudgetsSound
