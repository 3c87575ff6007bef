\* The comment at ht.c:78 against the bucket index of ht.c:53.
CONSTANTS
  k1 = k1
  k2 = k2
  k3 = k3
  k4 = k4
  Keys = {k1, k2, k3, k4}
  Values = {1, 2}
  sxhash <- MCsxhash
  InitSize = 2
  Absent = Absent
SPECIFICATION HashSpec
PROPERTIES
  WrittenIsRead
