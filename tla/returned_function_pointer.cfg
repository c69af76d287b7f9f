SPECIFICATION Spec
INVARIANT BodyScopeIsOwn
CONSTANTS
  Idents = {"f", "a"}
  Tags = {}
  Members = {}
  StorageClasses = {"none"}
  MaxCtx = 4
  MaxLists = 2
  MaxStructs = 0
  FnPtrMembers = FALSE
  AbstractFns = FALSE
  ParamNamedAsFn = FALSE
  NestedSameTag = FALSE
