SPECIFICATION Spec
CONSTANTS
  Claims <- MCClaims
  Inventories <- MCInventories
  MaxClaims = 3
INVARIANT LeastClaimant
INVARIANT SharedMeansTwoPods
