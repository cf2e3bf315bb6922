SPECIFICATION IdentitySpec
CONSTANTS
  Users = {alice, bob}
  Regions = {eu, us}
  None = None
INVARIANT IdentityIsOwn
