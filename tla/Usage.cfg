SPECIFICATION FairSpec
CONSTANTS
    Workers = {w1, w2}
    Plans <- MCPlans
    FreePlan = "free"
    Allowance <- MCAllowance
    Reported <- MCMoves
    MonthLength = 1
    MaxTime = 1
CHECK_DEADLOCK FALSE
INVARIANTS TypeOK ChargesConserved PlanAndAllowanceAgree MirrorNeverLeads
PROPERTIES ImplementsLedger StaleAllowanceRepaired
