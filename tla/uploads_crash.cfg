SPECIFICATION Spec
CONSTANTS
  OtherPlaces = {"rest"}
  MaxUploads = 2
PROPERTY StartClearsLeftovers
