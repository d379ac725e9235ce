SPECIFICATION Spec
CONSTANTS
  Width = 3
  Height = 2
  MaxCost = 8
  RouteLength = 5
  Searches <- MCSearches
INVARIANTS
  WorkspaceInv
  CheapestRoute
  PathIsARoute
PROPERTIES
  SearchReturns
