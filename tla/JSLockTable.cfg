SPECIFICATION Spec
CONSTANTS
  t1 = t1
  t2 = t2
  t3 = t3
  Threads = {t1, t2}
  NoThread = NoThread
  OwnTable = OwnTable
  NoTable = NoTable
  MaxScopes <- MCMaxScopes
INVARIANT
  TableIsTheVMs
