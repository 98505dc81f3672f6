SPECIFICATION Spec
CONSTANTS
  t1 = t1
  t2 = t2
  acc = acc
  aux = aux
  bare = bare
  o1 = o1
  o2 = o2
  x = x
  Threads = {t1, t2}
  Channels = {acc, aux, bare}
  Observers = {o1, o2}
  ObserversOf <- MCObserversOf
  MsgSize <- MCMsgSize
  InitBody <- MCInitBody
  Described = {acc, aux}
  Fields = {x}
  Values = {0, 1}
  Junk = Junk
  Nil = Nil
  NoOwner = NoOwner
  PoolSize = 3
  HeapBlocks = 1
  MaxPubs = 2
SYMMETRY SymmetricThreads
INVARIANTS
  NilOnError
