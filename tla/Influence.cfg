SPECIFICATION Spec
CONSTANTS
  Size = 12
  Unit = 2
  Infinite = 480
  Round <- ThreeBits
  MaxAdditions = 2
  Views <- MCViews
  Specs <- MCSpecs
PROPERTIES
  BoundedImplementsReference
  EachCellOnce
