SPECIFICATION Spec
CONSTANT Lists <- MCLists
INVARIANTS AcceptsC RefusesContradictions OrderIrrelevant
