---------------------------- MODULE MCCompactWire ----------------------------
\* CompactWire on a small instance.
EXTENDS CompactWire, TLC

Symmetry == Permutations(Fields) \cup Permutations(Names)
=============================================================================
