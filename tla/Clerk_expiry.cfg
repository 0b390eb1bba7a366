SPECIFICATION Spec
CONSTANTS
  Orders = {o1}
  Clerks = {k1}
  Journals = {}
  SameId = {}
  Qty = 2
INVARIANT InferenceYields
