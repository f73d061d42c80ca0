------------------------------ MODULE MCSession ------------------------------
EXTENDS SessionOutbox

Symmetric == Permutations(Messages)
=============================================================================
