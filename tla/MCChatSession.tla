---------------------------- MODULE MCChatSession ----------------------------
EXTENDS ChatSession, TLC
Symmetry == Permutations(Turns) \cup Permutations(Companies) \cup Permutations(Sessions)
            \cup Permutations(Procs)
=============================================================================
