CONSTANTS
    t1 = t1
    t2 = t2
    w1 = w1
    w2 = w2
    Tenants <- MCTenants
    Workers <- MCWorkers
    Plans <- MCPlans
    Statuses <- MCStatuses
    None = None
    NoRow = NoRow
    MaxEvents = 2
    MaxCheckouts = 2
    MaxFailures = 1
SPECIFICATION Spec
INVARIANT OneCustomerPerTenant
CHECK_DEADLOCK FALSE
