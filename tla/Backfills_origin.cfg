SPECIFICATION BackfillsSpec
CONSTANTS
    dictated = dictated  silent = silent
    dictatedTitle = dictatedTitle
    origin1 = origin1  title1 = title1  identity1 = identity1
    Sessions = {dictated, silent}
    Declared <- MCDeclared
    Classified <- MCClassified
    Prompt <- MCPrompt
    NoTitle = NoTitle
    Jobs = {origin1, title1, identity1}
    JobKind <- MCJobKind
    MaxWrites = 4
PROPERTIES BackfillAgreesWithPublish
CHECK_DEADLOCK FALSE
