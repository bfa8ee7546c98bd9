\* Three calls, each method reachable in each; the daemon answers OK or BUSY.
CONSTANT MaxCalls = 3
CONSTANT Statuses = {"OK", "BUSY"}
SPECIFICATION Spec
INVARIANT RepliedOk
\* The caller stops after MaxCalls calls; the client then has no step.
CHECK_DEADLOCK FALSE
