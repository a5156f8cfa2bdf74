\* Dialogs of two question types, three messages, three chats of which the
\* history keeps two, results of up to two pages.
SPECIFICATION Spec
CONSTANTS
    Conv = {c1, c2, c3}
    Questions <- MCQuestions
    MaxSaved = 2
    MaxPages = 2
    MaxTurns = 3
SYMMETRY Symmetry
INVARIANTS
    ChatInv
    MessageOnce
    DialogInOrder
PROPERTIES
    BackgroundKept
