SPECIFICATION Spec
CONSTANTS
  Steve = Steve
  steve = steve
  alex = alex
  Name <- MCName
  normalize <- MCnormalize
  Ttl <- MCTtl
  Identity = {i1, i2}
  MaxTime = 4
INVARIANT TypeOK
PROPERTY KeepsPromise
