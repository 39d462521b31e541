CONSTANTS
    Classes <- MCClasses
    MaxNesting <- MCMaxNesting
SPECIFICATION Spec
INVARIANTS
    CollectionOfSimpleIsRule2
