CONSTANTS
  Inputs <- MCInputs
  Names <- MCNames
  Types <- MCTypes
  Pieces <- MCPieces
SPECIFICATION Spec
INVARIANTS NothingMissing CompiledIsRight CompilesIfSupported
