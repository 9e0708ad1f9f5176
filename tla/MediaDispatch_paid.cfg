SPECIFICATION Spec
CONSTANTS
  frame = frame
  clip = clip
  wide = wide
  Keys = {frame, clip, wide}
  NoKey = NoKey
  Clips = {clip}
  Reconcilable = {frame, wide}
  w1 = w1
  w2 = w2
  Workers = {w1, w2}
  MaxRequests = 3
  Ceiling = 2
INVARIANTS
  SubmittedOnce
  SpendWithinCeiling
  CompleteAssetIsPaid
PROPERTIES
  PaidWorkIsKept
  ReceiptRecovered
CHECK_DEADLOCK FALSE
