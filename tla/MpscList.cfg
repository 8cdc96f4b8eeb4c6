SPECIFICATION FairSpec
CONSTANTS
  w1 = w1
  w2 = w2
  w3 = w3
  Workers = {w1, w2, w3}
  stub = stub
  null = null
PROPERTIES FirstInFirstOut EventuallyPopped
