-------------------------- MODULE MCRuntimeLauncher --------------------------
\* The nginx slots are interchangeable.
EXTENDS RuntimeLauncher, TLC

SlotSymmetry == Permutations(Slot)
==============================================================================
