------------------------ MODULE MCCampaignRotation ------------------------
EXTENDS CampaignRotation, TLC

\* No definition names a task.
Symmetry == Permutations(Tasks)
=============================================================================
