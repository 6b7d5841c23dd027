SPECIFICATION HdcpSpec
INVARIANTS EnabledAsAsked InfeasibleAfterBoth RetryEndsWithType0 TerminatedClientKnows
PROPERTY AttemptConcluded
CHECK_DEADLOCK FALSE
