CONSTANTS
  InitNet <- RichNet
  MaxTokens = 5
SPECIFICATION Spec
INVARIANT TypeOK
PROPERTY ImplementsTokenGame
