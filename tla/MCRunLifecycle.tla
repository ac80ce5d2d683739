--------------------------- MODULE MCRunLifecycle ---------------------------
EXTENDS RunLifecycle

\* Step 1 writes, step 2 verifies; step 3 writes an artifact.
Full    == 0..NumSteps
Refused == { {0, 1, 3}, {1, 2, 3} }       \* the verifier, the whole run

FullPolicy == {Full}
AnyPolicy  == {Full} \union Refused

TwoVerifiers == {2, 3}
=============================================================================
