SPECIFICATION Spec
CONSTANTS
    Fails = {}
    Condemnable = {1, 2, 3, 4}
    Good = {}
    Acts = {}
    MaxAct = 0
    QuickConnect = FALSE
INVARIANTS RetryOwed
CHECK_DEADLOCK FALSE
