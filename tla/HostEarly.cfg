SPECIFICATION HastySpec
CONSTANTS
  Service <- MCService
  Handler <- MCHandler
  Worker = {"w1", "w2"}
  Stubborn = {"w2"}
  BuiltIn <- MCBuiltIn
  Queued <- MCQueued
  Provides <- MCProvides
  Enqueues <- MCEnqueues
  Band <- MCBand
  Toggler = {"http"}
  Listener = {"http"}
  EarlyStop = FALSE
  Deadline = TRUE
  SlowClose = FALSE
  Mod <- MCMod
  Slot <- MCSlot
  Name <- MCName
  Program <- MCProgram
  Faulty <- MCFaulty
  Provide = "provide"
  Bind = "bind"
  None = "none"
INVARIANT StoppedMeansStopped
