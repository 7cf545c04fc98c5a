SPECIFICATION Spec
CONSTANTS
  Bodies = {b1, b2}
  NoBody = NoBody
  Missing = Missing
  FirstDocs <- MCFirstDocs
INVARIANT OneAuditBlock
PROPERTY ApproveTakesEffect
