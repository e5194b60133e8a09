SPECIFICATION Spec
CONSTANTS
    Callers = {"plugin1", "plugin2", "bootstrap"}
    ProcessOf <- MCProcessOf
    Calls <- MCCalls
    Failures = FALSE
INVARIANTS
    RegistrationsKept
CHECK_DEADLOCK FALSE
