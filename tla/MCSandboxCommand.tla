--------------------------- MODULE MCSandboxCommand ---------------------------
\* Instances of SandboxCommand for TLC: commands and sandboxes are interchangeable.
EXTENDS SandboxCommand, TLC

Symmetry == Permutations(Commands) \cup Permutations(Sandboxes)

=============================================================================
