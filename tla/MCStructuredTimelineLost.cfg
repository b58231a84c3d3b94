SPECIFICATION Spec
CONSTANTS
  a1 = a1
  a2 = a2
  p1 = p1
  p2 = p2
  None = None
  Approvals <- MCApprovals
  Mergers = {reader}
  ProviderViews <- MCProviderViews
  MaxRevision = 4
  MaxBoots = 2
INVARIANT
  NoLostApproval
CHECK_DEADLOCK FALSE
