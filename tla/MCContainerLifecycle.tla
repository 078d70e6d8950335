------------------------ MODULE MCContainerLifecycle ------------------------
\* The configurations give every constant model values.
EXTENDS ContainerLifecycle
=============================================================================
