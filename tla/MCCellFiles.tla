----------------------------- MODULE MCCellFiles -----------------------------
EXTENDS CellFiles, TLC

\* Workers start and connections come and go before there are files; from then on
\* sessions only open and end.
Bound == (\E p \in Paths : There(p)) =>
  /\ \A w \in Workers : boot[w] \in {"down", "serving"}
  /\ \A c \in Conns : conn[c] \in {"none", "open", "session"}

Symmetry == Permutations(Workers) \cup Permutations(Conns) \cup Permutations(Keys)
              \cup Permutations(Names) \cup Permutations(Reqs)
=============================================================================
