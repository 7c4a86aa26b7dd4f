-------------------------- MODULE MCBlueGreenDeploy --------------------------
EXTENDS BlueGreenDeploy, TLC
Symmetry == Permutations(Deployments)
=============================================================================
