SPECIFICATION FairSpec
CONSTANTS
  Terminator <- MCTerminator
  Texts <- MCTexts
  Blocks <- MCBlocks
  Noise <- MCNoise
  MaxCommands = 2
INVARIANTS
  LinesEndAtTerminator
  LinesMatchCommands
  BlocksMatchCommands
PROPERTY CallReturns
