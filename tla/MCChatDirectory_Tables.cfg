SPECIFICATION Spec
CONSTANTS
  Handler = {h1, h2}
  Name = {n1, n2}
  MaxGroups = 2
  MaxFriends = 1
SYMMETRY Symmetry
INVARIANTS
  IndInv
  ToldIdIsOwn
  CreatorIsAsker
  CreatorIsEntered
  ListedTogether
