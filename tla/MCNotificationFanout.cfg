\* Two recipients, two dispatchers, two attempts each, a lease of two ticks.
SPECIFICATION Spec
CONSTANTS
    Recipients <- MCRecipients
    Dispatchers = {d1, d2}
    MaxAttempts = 2
    Lease = 2
INVARIANTS FanoutInv
PROPERTIES PlanIsFrozen DeliversOnce
