SPECIFICATION Spec
CONSTANTS
    MaxArgs = 8
    Offered = {"-s", "-c", "-f", "-m", "-P", "-b", "-I", "-l", "-t", "-d", "-h", "file"}
    Values = {"2", "file", "lo", "-s"}
CHECK_DEADLOCK FALSE
INVARIANTS
    TypeOK
    RoleAsAsked
    AcceptedIsRunnable
