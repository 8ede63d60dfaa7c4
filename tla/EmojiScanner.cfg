SPECIFICATION Spec
CONSTANTS
    Texts <- BoundedTexts
    Alphabet <- SomeAlphabet
INVARIANT LongestSequenceTaken
CHECK_DEADLOCK FALSE
