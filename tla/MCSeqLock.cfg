CONSTANTS
  Readers = {r1, r2}
  Callers = {c1}
  Writers = {w1, w2, w3}
  Nobody = nobody
  NUM_OPERATIONS <- MCOperations
  Modulus <- MCModulus
SPECIFICATION Spec
INVARIANTS
  TypeOK
  OddWhileWriting
  NoTornRead
PROPERTIES
  AllThreadsJoin
