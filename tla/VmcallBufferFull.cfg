CONSTANTS
  buffer = buffer
  iovecs = iovecs
  header = header
  argv = argv
  Objects = {buffer, iovecs, header, argv}
  Kind <- MCKind
  Remapped = {buffer, iovecs}
  MaxItems = 2
  Params <- MCParams
  HighBrk = "brk above 4 GB"
  InitialCapacity = 2
  GrowMayFail = TRUE

SPECIFICATION Spec

INVARIANT MemoryAlwaysRestored
