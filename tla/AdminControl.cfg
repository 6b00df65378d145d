SPECIFICATION Spec
CONSTANTS
    Requests = {r1, r2}
    Names = {alice, bob}
    Nobody = nobody
    MaxRequests = 4
INVARIANTS BootstrapStaysClosed EveryRowHasOneEvent ActorsHeldThePrivilege
CHECK_DEADLOCK FALSE
