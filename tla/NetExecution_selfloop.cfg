CONSTANTS
  InitNet <- SelfLoopNet
  MaxTokens = 3
SPECIFICATION Spec
PROPERTY ImplementsTokenGame
