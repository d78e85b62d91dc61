--------------------------- MODULE MCControlPlane ---------------------------
EXTENDS ControlPlane, TLC

CONSTANTS pod, model, n1, n2, t1, t2

OneGpu == [n \in Node |-> 1]
OneEach == [d \in Dep |-> 1]
AllHandlers == Handler
NodeSymmetry == Permutations({n1, n2})
RentalSymmetry == Permutations({pod, model})
ConcurrentSymmetry == Permutations({pod, model}) \cup Permutations({t1, t2})
=============================================================================
