SPECIFICATION Spec
CONSTANTS
  olga = olga
  ben = ben
  cem = cem
  Loans = {1, 2}
  Users = {olga, ben, cem}
  Lender <- MCLender
  Borrower <- MCBorrower
  Slots = {s1, s2, s3}
SYMMETRY Symmetry
CHECK_DEADLOCK FALSE
INVARIANTS TypeOK OneReviewPerParty RatingIsRepaired ReviewedIsRated
