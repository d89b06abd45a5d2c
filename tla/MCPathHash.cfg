\* Words of 12 bits: the constants of the code modulo 4096.
SPECIFICATION Spec
CONSTANTS
  Inputs <- MCInputs
  Modulus = 4096
  Seed = 2863
  Power7 = 3341
  Power8 = 3359
INVARIANT PrefixHashed
CHECK_DEADLOCK FALSE
