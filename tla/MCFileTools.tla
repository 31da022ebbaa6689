---------------------------- MODULE MCFileTools ----------------------------
EXTENDS FileTools, TLC
CONSTANTS notes, code

MCSymmetry == Permutations(Files)
=============================================================================
