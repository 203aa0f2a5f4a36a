SPECIFICATION Spec
CONSTANTS
  Bits = 2
  W = 3
  Fixnums = {0, 1, 3, 13}
  Shifts = {1, 2, 5}
  Exponents = {0, 3}
  Moduli = {7}
  Texts <- MCTexts
  Fill = {2}
  MaxOctets = 8
  MaxSteps = 2
INVARIANTS Canonical Observed
PROPERTIES Arithmetical
CHECK_DEADLOCK FALSE
