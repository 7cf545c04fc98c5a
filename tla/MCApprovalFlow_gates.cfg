SPECIFICATION FairSpec
CONSTANTS
  Clicks = {c1}
  Repls = {r1}
  Batches = {t1}
  b1 = b1
  b2 = b2
  Bodies = {b1, b2}
  NoBody = NoBody
  Missing = Missing
  AgentDocs <- TwoDocs
  Gated = {"seed.py"}
  Ungated = {"sizing_inputs.json"}
  CanCrash = TRUE
INVARIANTS TypeOK GateInv
PROPERTIES ImplementsGates ModePickedUp
