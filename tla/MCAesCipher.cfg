SPECIFICATION Spec
CONSTANTS
    Secrets <- MCSecrets
    Tails = {0, 171}
    Blocks <- MCBlocks
    Pieces <- MCPieces
    MaxPieces = 2
INVARIANTS
    RoundsUndone
    OpensAgain
    HashIsSum
PROPERTIES
    ImplementsFips197
