\* All 1365 patterns of up to five characters over four.
CONSTANTS
    Alphabet <- MCAlphabet
    MaxLen = 5
SPECIFICATION Spec
CHECK_DEADLOCK FALSE
INVARIANTS TypeOK FormatExpandsPattern ErrorIsUnknownLetter
