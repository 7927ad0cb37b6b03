-------------------------- MODULE MCTerminalModule --------------------------
(* TerminalModule on a small instance.  The connection's third data segment *)
(* has sequence number 0.                                                   *)
EXTENDS TerminalModule, TLC

CONSTANTS x1

MCInitialSeq == [x \in Conns |-> 2]

ContextSymmetry == Permutations(Contexts)

=============================================================================
