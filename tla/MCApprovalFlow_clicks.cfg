SPECIFICATION FairSpec
CONSTANTS
  Clicks = {c1, c2}
  Repls = {}
  Batches = {t1}
  b1 = b1
  b2 = b2
  Bodies = {b1, b2}
  NoBody = NoBody
  Missing = Missing
  AgentDocs <- FourDocs
  Gated = {"seed.py"}
  Ungated = {"sizing_inputs.json"}
  CanCrash = FALSE
INVARIANT EmptyOnlyDuringWrite
PROPERTY ClicksEnd
