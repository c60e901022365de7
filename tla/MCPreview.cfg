SPECIFICATION Spec
CONSTANTS
    Letters <- MCLetters
    Corrections <- MCCorrections
    SpaceBar = 10
    MaxLen = 3
    MaxHex = 1
    Forms = 2
    PageSize = 2
PROPERTIES
    EnterKeepsTheRest
VIEW SessionView
