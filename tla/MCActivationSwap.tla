-------------------------- MODULE MCActivationSwap --------------------------
(***************************************************************************)
(* Chains of layers and ranks of real pipeline orders for ActivationSwap.  *)
(***************************************************************************)
EXTENDS ActivationSwap

Local == INSTANCE PipelineLocal

Tensor(store) == [store |-> store, view |-> 1, pack |-> 0, kept |-> FALSE]

\* What the forward of group g saves, by kinds.  A bucket of two and a single:
Packed(g) == << [Tensor(10 * g) EXCEPT !.pack = 1], [Tensor(10 * g + 1) EXCEPT !.pack = 1],
                Tensor(10 * g + 2) >>
\* Two buckets:
Buckets2(g) == << [Tensor(10 * g) EXCEPT !.pack = 1], [Tensor(10 * g + 1) EXCEPT !.pack = 1],
                  [Tensor(10 * g + 2) EXCEPT !.pack = 2], [Tensor(10 * g + 3) EXCEPT !.pack = 2] >>
\* A tensor saved twice, another view of it, the output, the input (the output
\* of the layer in front):
Aliased(g) == << Tensor(10 * g), Tensor(10 * g), [Tensor(10 * g) EXCEPT !.view = 2],
                 [Tensor(10 * g + 1) EXCEPT !.kept = TRUE], Tensor(10 * g - 9) >>
Two(g) == << Tensor(10 * g), Tensor(10 * g + 1) >>

Chain(n, saved) ==
    [calls |-> ChainCalls(n), saved |-> saved, explicit |-> TRUE, buffers |-> 1 .. 4,
     session |-> FALSE, runs |-> 2, faults |-> 0]
Chains ==
    {[Chain(3, [g \in 1 .. 3 |-> Packed(g)]) EXCEPT !.explicit = x, !.faults = 1,
              !.buffers = 1 .. IF x THEN 4 ELSE 8] : x \in BOOLEAN}
    \cup {[Chain(2, [g \in 1 .. 2 |-> Buckets2(g)]) EXCEPT !.explicit = x, !.faults = 1] :
              x \in BOOLEAN}
    \cup {[Chain(3, [g \in 1 .. 3 |-> Aliased(g)]) EXCEPT !.buffers = 1 .. 6]}
    \cup {Chain(4, [g \in 1 .. 4 |-> << Tensor(10 * g) >>])}
    \cup {[Chain(3, [g \in 1 .. 3 |-> Two(g)]) EXCEPT !.buffers = 1 .. 3]}

Pipeline == [sched |-> "gpipe", R |-> 2, V |-> 1, M |-> 4, less |-> FALSE,
             bf |-> FALSE, dxdw |-> FALSE, mode |-> "plain", p2p |-> FALSE,
             cb |-> FALSE, mirror |-> FALSE, data |-> FALSE, dyn |-> FALSE,
             shared |-> {}, fsdp |-> FALSE, swap |-> TRUE]
Interleaved == [Pipeline EXCEPT !.sched = "interleaved", !.V = 2]
Split == [Interleaved EXCEPT !.bf = TRUE, !.mode = "batch", !.dxdw = TRUE]

\* Rank 0 of a pipeline: its chunks save one tensor or a bucket and a single.
Ranks ==
    {[of |-> Pipeline, packed |-> FALSE, buffers |-> 3, faults |-> 0, runs |-> 2]}
    \cup {[of |-> Split, packed |-> FALSE, buffers |-> 4, faults |-> 0, runs |-> 2],
          [of |-> Pipeline, packed |-> FALSE, buffers |-> 4, faults |-> 1, runs |-> 1]}
    \cup {[of |-> [Interleaved EXCEPT !.M = 2], packed |-> TRUE, buffers |-> 3, faults |-> 1,
           runs |-> 2],
          [of |-> [Interleaved EXCEPT !.fsdp = TRUE], packed |-> FALSE, buffers |-> 4,
           faults |-> 0, runs |-> 1]}
Session(rank) ==
    LET calls == SessionCalls(Local!BuildLocalOrders(rank.of)[0])
    IN  [calls |-> calls,
         saved |-> [g \in {calls[k].g : k \in DOMAIN calls} |->
                       IF rank.packed THEN Packed(g) ELSE << Tensor(10 * g) >>],
         explicit |-> TRUE, buffers |-> 1 .. rank.buffers, session |-> TRUE,
         runs |-> rank.runs, faults |-> rank.faults]
Sessions == {Session(rank) : rank \in Ranks}

AllConfigs == Chains \cup Sessions
\* One layer in front of the last, one tensor, and a module that raises.
AbortConfigs ==
    {[Chain(2, [g \in 1 .. 2 |-> << Tensor(10 * g) >>]) EXCEPT !.faults = 1]}
=============================================================================
