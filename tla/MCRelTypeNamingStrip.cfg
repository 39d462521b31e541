CONSTANTS
    Chars <- MCChars
    Prefix <- MCPrefix
    Suffix <- MCSuffix
    FieldNames <- MCFieldNames
    TypeNames <- MCTypeNames
SPECIFICATION Spec
INVARIANTS
    NonMatchingUnchanged
