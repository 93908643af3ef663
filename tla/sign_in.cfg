SPECIFICATION Spec
CONSTANTS
  Handler = {h1, h2, h3}
  RateLimit = 2
  MaxCodes = 3
  MaxTokens = 4
  MaxFaults = 1
CHECK_DEADLOCK FALSE
SYMMETRY SymmetricHandlers
INVARIANT TypeOK
INVARIANT SessionNeverForks
INVARIANT SessionKept
INVARIANT CounterWillExpire
INVARIANT OneTimeCode
