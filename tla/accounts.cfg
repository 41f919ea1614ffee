SPECIFICATION Spec
CONSTANTS
    Fd = {1, 2, 3}
    Name = {a, b}
    NoName = NoName
    MaxVersion = 2
    a = a
    b = b
INVARIANTS
    TypeOK
    OneLoginPerName
    PlayedIsNewest
PROPERTIES
    LoginKeepsProgress
    OnlyPromptSetsBack
