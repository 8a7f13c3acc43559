SPECIFICATION Spec
CONSTANTS
  Main = main
  Web = {w1, w2}
  Writers = {main}
  Updates = {u1, u2}
  Inodes = {i1, i2, i3, i4, i5}
  main = main
  w1 = w1
  w2 = w2
  u1 = u1
  u2 = u2
  i1 = i1
  i2 = i2
  i3 = i3
  i4 = i4
  i5 = i5
INVARIANT ReadsAreComplete
PROPERTY ActsAsRegister
