SPECIFICATION Spec
CONSTANTS
  Advances <- TwoAdvances
  Runs = {r1, r2}
  Clerks = {c1}
  MaxAmount = 2
  Installment = 1
  Capacity = 2
  MaxCorrections = 1
SYMMETRY Symmetry
INVARIANTS RepaidWasIssued IssuedIsOwed RepaidWithinAmount PostedWithinWithheld StoredCoversOwed
