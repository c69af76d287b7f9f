SPECIFICATION Spec
PROPERTIES LexicalScoping CompleteIsFinal
CONSTANTS
  Idents = {"a"}
  Tags = {"t"}
  Members = {"m"}
  StorageClasses = {"none"}
  MaxCtx = 6
  MaxLists = 1
  MaxStructs = 2
  FnPtrMembers = FALSE
  AbstractFns = FALSE
  ParamNamedAsFn = FALSE
  NestedSameTag = FALSE
