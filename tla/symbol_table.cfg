SPECIFICATION Spec
INVARIANT ProbesHalt
PROPERTY ActsAsDictionary
CONSTANTS
  Keys = {"a", "b", "c", "d"}
  Values = {"x", "y"}
  Null = null
  Primes <- MCPrimes
  HashValues = {0, 4, 5, 17}
