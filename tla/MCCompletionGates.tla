------------------------- MODULE MCCompletionGates -------------------------
EXTENDS CompletionGates

MCFamilies == AllFamilies
=============================================================================
