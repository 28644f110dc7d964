CONSTANTS
  NoFile = NoFile
  Symbols <- AllSymbols
  Iden <- AllIden
  Numbers = {"1234"}
  Blanks = {" "}
  Spaces <- MCSpaces
  Required <- MCRequired
  Ports <- MCPorts
  Files <- AllTexts
SPECIFICATION DaoSpec
INVARIANTS TypeOK NeverPassesNul MeansItsLines StartsAsWritten FunctionsMeanTheirSections
PROPERTIES Decides
