\* Documents with cyclic and undefined fragments.
SPECIFICATION FairSpec
CONSTANT
    Docs <- MCDocs
INVARIANTS
    FindsRootFields
    NoReentry
PROPERTY
    Terminates
