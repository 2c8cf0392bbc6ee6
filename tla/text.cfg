\* Texts of up to eight bytes on buffers of three, a field of four columns.
CONSTANTS
    BufferSize = 3
    Bytes <- TheBytes
    NONE = NONE
    Width <- TheWidths
    FieldWidth = 4
    Margin = 1
    CursorWidth = 1
    Spelled <- TheSpelling
    KeyCodes <- TheKeys
    AuxKeys <- TheAuxKeys
    MaxBytes = 3
CONSTRAINT NotAstray
SPECIFICATION LineSpec
INVARIANTS DrawnWhereItIs ContextOfTheCursor
PROPERTY ImplementsEditor
\* At the bound a text that cannot be parsed stays, and no key is left.
CHECK_DEADLOCK FALSE
