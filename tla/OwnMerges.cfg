\* A loop run that ends beside two deliveries of its repository.
SPECIFICATION IntegritySpec
CONSTANTS
  Judged = {r1}
  Reviewed = {r2, r3}
  MaxEdits = 0
  MaxCrashes = 0
  None = None
INVARIANTS
  OwnMergesExcused
