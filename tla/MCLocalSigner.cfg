CONSTANTS
  r1 = r1  r2 = r2
  Request = {r1, r2}
  MaxOdd = 2
SPECIFICATION FairSpec
INVARIANTS TypeOK SignedIsAgreed SubmitterConfirmed ToldUnlessOvertaken
PROPERTIES SignedOrStranded
CHECK_DEADLOCK FALSE
