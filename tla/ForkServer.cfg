SPECIFICATION FairSpec
CONSTANT MaxRuns = 4
INVARIANTS TraceIsOfThisRun ReRunMatchesRequest VerdictIsOwn StoppedOrTold
PROPERTY RunReturns
