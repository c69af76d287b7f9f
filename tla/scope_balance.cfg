SPECIFICATION Spec
INVARIANTS TypeOK ScopesMatchConstructs  
CONSTANTS
  Idents = {"a"}
  Tags = {"t"}
  Members = {"m"}
  StorageClasses = {"none"}
  MaxCtx = 6
  MaxLists = 1
  MaxStructs = 1
  FnPtrMembers = TRUE
  AbstractFns = TRUE
  ParamNamedAsFn = TRUE
  NestedSameTag = TRUE
