----------------------------- MODULE MCFileSys -----------------------------
\* FileSys with names and with handles that are interchangeable.
EXTENDS FileSys, TLC

Symmetry == Permutations(Name) \union Permutations(Handle)
=============================================================================
