SPECIFICATION FairPartSpec
CONSTANTS
  Tasks = {t1}
  ResponseStatuses = {"complete", "needs_review", "needs_human", "blocked"}
  ReceiptOutcomes = {"complete", "needs_review", "needs_human", "blocked", "cancelled", "failed", "denied", "quarantine"}
  None = None
  h1 = h1
  h2 = h2
  r1 = r1
  r2 = r2
  la = la
  lb = lb
  lc = lc
  n1 = n1
  n2 = n2
  t1 = t1
  t2 = t2
  t3 = t3
  w1 = w1
  hTarget = hTarget
  i1 = i1
  p1 = p1
  openai = openai
  anthropic = anthropic
INVARIANTS
  BoardTypeOK
  CancelledNeverRuns
  ReceiptFollowsPromotion
  CompleteHasWork
PROPERTIES
  Spec
  ReceiptSettlesRow
  ReviewIsGenuine
  AttemptIsCurrent
  PlansSurvive
