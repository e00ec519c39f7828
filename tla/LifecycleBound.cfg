CONSTANT MaxFiles = 1
SPECIFICATION Spec
INVARIANT BoundMeansSetUp
