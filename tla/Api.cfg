SPECIFICATION Spec
CONSTANTS
  Nil = Nil
  Bad = Bad
  Start = Start
  Nobody = Nobody
  Requests = {r1, r2}
  Limit = 1
  Gens = {1, 2}
  Ends = 1
  MaxSilences = 2
  Unary = 1
  Streams = 1
  Choices <- MCChoices
INVARIANTS   SlotsAreOwned  
PROPERTIES DeadlineEndsCall
