CONSTANTS
  InitNet <- CycleNet
  EventIds = {e1, e2}
  NoTransition = tx
  h1 = h1
  h2 = h2
  e1 = e1
  e2 = e2
  Handlers = {h1, h2}
  Drains <- H2DrainsP1
  Registers <- RegistersNone
  Payloads = {test}
  EmptyPayload = empty
  MaxHandlers = 2
  MaxSeqLen = 3
  MaxTokens = 2
SPECIFICATION Spec
PROPERTY HandlersRunOnlyWhenFired
