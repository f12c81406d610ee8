--------------------------- MODULE MCModelCatalog ---------------------------
EXTENDS ModelCatalog, TLC

\* Manifests may list the built-in models in every order, and names are alike; the
\* definition that a model has before it exists is never read.
Symmetry == Permutations(BuiltIns) \cup Permutations(Names)
=============================================================================
