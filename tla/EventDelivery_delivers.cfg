SPECIFICATION FairSpec
CONSTANTS
  requested = requested
  payment = payment
  generation = generation
  Events = {requested}
  NoEvent = none
  Consumers = {payment, generation}
  Deferred = {generation}
  WithTerminal = {generation}
  RoutesOf <- MixedRoutes
  Workers = {w1, w2}
  NoWorker = nobody
  MaxCopies = 2
  MaxAttempts = 2
  MaxFaults = 1
INVARIANTS EffectsAreSound DeliveryIsSound
PROPERTIES KeepsContract EveryEventSettles
CHECK_DEADLOCK FALSE
