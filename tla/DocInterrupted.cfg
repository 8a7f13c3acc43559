SPECIFICATION Spec
CONSTANTS
  Main = main
  Web = {w1}
  Writers = {main, w1}
  Updates = {u1, u2}
  Inodes = {i1, i2, i3, i4, i5}
  main = main
  w1 = w1
  u1 = u1
  u2 = u2
  i1 = i1
  i2 = i2
  i3 = i3
  i4 = i4
  i5 = i5
INVARIANT StartsAgain
