SPECIFICATION Spec
CONSTANTS
  requested = requested
  payment = payment
  generation = generation
  Events = {requested}
  NoEvent = none
  Consumers = {generation}
  Deferred = {generation}
  WithTerminal = {generation}
  RoutesOf <- RequestedRoutes
  Workers = {w1}
  NoWorker = nobody
  MaxCopies = 2
  MaxAttempts = 3
  MaxFaults = 1
INVARIANT DeferredProcessedIsDone
CHECK_DEADLOCK FALSE
