SPECIFICATION Spec
CONSTANTS
  Announcements = {1, 2}
  Penalties = {0}
  MaxArrivals = 1
PROPERTY WhistleOnlyInSet
