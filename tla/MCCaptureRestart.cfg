\* Two processes on the same files, the first killed anywhere.
SPECIFICATION Spec
CONSTANTS
    QueueCapacity = 1
    MaxRecords = 2
    MaxProcesses = 2
INVARIANTS
    StaleStatusRejected
    ValidCloseIsComplete
