\* The same, with what a new chat promises about the old one.
SPECIFICATION Spec
CONSTANTS
    Conv = {c1, c2, c3}
    Questions <- MCQuestions
    MaxSaved = 2
    MaxPages = 2
    MaxTurns = 2
PROPERTIES
    NewChatKeepsOld
