SPECIFICATION FairSpec
CONSTANTS
  Answers = {a1, a2}
  NoAnswer = NoAnswer
  Gone = Gone
  Budgets = {0, 1}
  DefaultFuel = 3
  MaxFuel = 3
INVARIANTS TypeOK AnswerReachesItsCall ResponderHeldOnce
  FinishedIsFinal WedgeOnlyByRepoll CancelOnlyByFree
PROPERTIES FreeTerminates PollReturns ImplementsHostCalls
CHECK_DEADLOCK FALSE
