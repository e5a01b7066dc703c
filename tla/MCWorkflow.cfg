CONSTANTS
  c1 = c1  o1 = o1  o2 = o2  a1 = a1  d1 = d1
  Request = {1, 2, 3}
  Document = {d1}
  Citizen = {c1}
  Officer = {o1, o2}
  Admin = {}
  Owner <- OwnerOf
  Rank <- RankOf
  MaxEvents = 2
SPECIFICATION FairSpec
INVARIANTS TypeOK OneApprovalPerOfficer CitizenSignatureFollowed FinalInCurrent SignedIsFinal
PROPERTIES ApprovalReached
CHECK_DEADLOCK FALSE
