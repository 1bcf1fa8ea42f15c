SPECIFICATION Spec
CONSTANTS
  Main = Main Body = Body Inner = Inner Remedy = Remedy Handler = Handler
  Ready = Ready Stop = Stop None = None
  Block = {Main, Body, Inner, Remedy, Handler}
  Signals = {Stop}
  Conditions = {Ready}
  MaxSignals = 1
  Scripts <- Names
  Program <- Texts
INVARIANTS TypeOK Scoped CatchesNest NoSignalMissed
PROPERTIES TargetsAreThere
