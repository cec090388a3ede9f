SPECIFICATION Spec
CONSTANTS
  IntMax = 99
  NestingLimit = 3
  TextDocuments <- MCTextDocuments
  PatchDocuments <- MCPatchDocuments
  MergeDocuments <- MCMergeDocuments
  SlotChoices <- MCSlots
  MaxAllocs = 6
  Names <- MCNames
  ConstantNames <- MCConstantNames
  Folded <- MCFolded
INVARIANTS
  HeapSound
  CallsInPlace
PROPERTIES
  TextFaithful
  DocumentsPatch
  ImplementsLists
CHECK_DEADLOCK FALSE
