CONSTANTS
  deviceList <- MCDeviceList
  kernelNames <- MCKernelNames
  Requestable = {"MCPU", "GPU"}
  MaybeMissing = {"MIC"}
  MaxCalls = 2
SPECIFICATION FairSpec
INVARIANT CompilationTypeOK
INVARIANT UsableIfLeftToMain
INVARIANT IdleMeansComplete
INVARIANT RaisedFlagHasCompiler
PROPERTY CompileForDeviceReturns
CHECK_DEADLOCK FALSE
