CONSTANTS
  MaxJobs = 2
  MaxCalls = 3
  Requests <- MCRequests
  Ranges = {"range"}
  Days = {1, 2, 3}
  DaysOf <- MCDaysOf
  BudgetOf <- MCBudgetOf
  Quotations <- MCQuotations
  Limit = 1
  Keys = {"k"}
  LocalDays = {1}
SPECIFICATION RangeSpec
INVARIANTS AtMostOneRun QuotesAreCurrent
PROPERTIES JobEnds RangeWithinBudget
CHECK_DEADLOCK FALSE
