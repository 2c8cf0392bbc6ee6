\* Commands over stacks of up to four levels, some hundred formulas and numbers.
CONSTANTS
    NULL = NULL
    Numbers = {"2"}
    Plain <- SomeObjects
    Formulas <- SomeFormulas
    Numerals <- SomeNumerals
    WordBits = 8
    P = 11
    Emax = 27
    WordDigits = 2
    TenBits = 2
    DigLim = 7
    KeptDigits = 6
    MaxWhole = 6
    MaxFraction = 7
    Commands <- SomeCommands
    ScreenWidth = 8
    ScreenHeight = 7
    HeaderHeight = 1
    MenuHeight = 1
    LineHeight = 2
    Wide = {"*", "-"}
    MaxDepth = 4
    MaxWords = 2
SPECIFICATION Spec
INVARIANTS ScreenShowsTheStack ReadAsMeant WrittenIsRead
 
\* The bounds may leave nothing to do.
CHECK_DEADLOCK FALSE
