------------------------------- MODULE MCMem -------------------------------
(***************************************************************************)
(* Two interchangeable threads.  Behaviours are followed until a set-up    *)
(* has been undone with one buffer in hand: the node of that buffer stays  *)
(* in the used list, and nothing is claimed from there on.                 *)
(***************************************************************************)
EXTENDS QzMem, TLC

CONSTANTS t1, t2

MCThreads == {t1, t2}
Symmetry == Permutations(MCThreads)

Explored == ~run.undone

=============================================================================
