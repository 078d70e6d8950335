--------------------------- MODULE MCContainerRun ---------------------------
EXTENDS ContainerRun, TLC

\* Runners, volumes, ports and addresses are model values the specification
\* never tells apart.
RunSymmetry ==
    Permutations(Runners) \cup Permutations(Volumes)
        \cup Permutations(Ports) \cup Permutations(Addresses)
=============================================================================
