---------------------------- MODULE MCCpuContext ----------------------------
\* Two CPUs, two processes and three page table addresses: one is always being
\* reused.
EXTENDS CpuContext, TLC

MCSymmetry == Permutations(CPUs) \cup Permutations(Threads) \cup Permutations(Tables)
=============================================================================
