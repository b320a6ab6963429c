CONSTANT MaxSubCmds = 3
SPECIFICATION Spec
INVARIANT Acyclic
