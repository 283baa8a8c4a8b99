--------------------------- MODULE MCEventDiagnosis -------------------------
EXTENDS EventDiagnosis, TLC

Symmetry == Permutations(Relays) \cup Permutations(Consumers)
=============================================================================
