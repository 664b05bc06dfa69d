CONSTANTS
  PhiHelper = phi
  Undefined = undefined
  Args <- MCArgs
  Modules <- MCModules
  DepthOptions <- MCDepthOptions
  NoArgument = noArgument
  CodegenOptions <- MCCodegenOptions
  NameOrder <- MCNameOrder
SPECIFICATION DetectionSpec
INVARIANT TypeOK
INVARIANT TypeIsOrderIndependent
INVARIANT TypesComplete
INVARIANT SizeIsExact
INVARIANT OwnFunction
INVARIANT CopiesAgree
INVARIANT CopiesHaveSameSizes
INVARIANT LevelsNamed
INVARIANT StoresRunOnce
PROPERTY TransfersOnlyAdded
CHECK_DEADLOCK FALSE
