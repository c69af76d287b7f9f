SPECIFICATION Spec
INVARIANT BodyScopeIsOwn
 
CONSTANTS
  Idents = {"f", "a"}
  Tags = {}
  Members = {}
  StorageClasses = {"none", "static"}
  MaxCtx = 5
  MaxLists = 1
  MaxStructs = 0
  FnPtrMembers = FALSE
  AbstractFns = FALSE
  ParamNamedAsFn = FALSE
  NestedSameTag = FALSE
