----------------------- MODULE MCPinnedMemoryPool -----------------------
(***************************************************************************)
(* Two threads, three blocks and two events.                               *)
(***************************************************************************)
EXTENDS PinnedMemoryPool, TLC

\* 600 is aligned to 1024 and 1200 to the limit 1500, so that the pool holds
\* three small blocks or two blocks of any size.
RequestedSizes == {600, 1200}
Interchangeable ==
    Permutations(Threads) \cup Permutations(Blocks) \cup Permutations(Events)

=============================================================================
