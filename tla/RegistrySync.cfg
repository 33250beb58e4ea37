SPECIFICATION CSpec
CONSTANTS
  i1 = i1  i2 = i2  p1 = p1  q1 = q1  p2 = p2  w1 = w1  w2 = w2  main = main
  None = None  Missing = Missing  Unreadable = Unreadable  Error = Error
  baseURL = baseURL
  ProviderID = {i1,i2}
  Provider = {p1,q1,p2}
  IDOf <- MCIDOf
  Main = main
  Writer = {main,w1,w2}
  Batches <- MCBatches
  Field = {baseURL}
  Directories <- MCDirectories
  Embedded <- MCEmbedded
  Alphabet <- MCAlphabet
  Active = {p1,p2}
  Flow = i1
SYMMETRY MCSymmetry
INVARIANTS CTypeOK ServesSynchronized BlueprintFound
PROPERTIES StartsWithAllOrNothing BatchAppearsWhole
