--------------------------- MODULE MCShardedParams ---------------------------
(***************************************************************************)
(* Three children, two micro-batches and two steps: the shortest chain in  *)
(* which a unit has neighbours on both sides, a checkpointed segment holds *)
(* two units and a prefetch list reaches past it, a gradient is summed     *)
(* over micro-batches, and what one step leaves behind meets the next.     *)
(***************************************************************************)
EXTENDS ShardedParams

AllConfigs ==
  [pipeline : BOOLEAN, fused : BOOLEAN, hsdp : BOOLEAN,
   reshard_after_forward : BOOLEAN, requires_grad_sync : BOOLEAN, keep : BOOLEAN,
   forward_prefetch : {0, 2}, backward_prefetch : {0, 1},
   recompute : BOOLEAN, skip : BOOLEAN]

\* The pipeline runtime sets the flags itself and gathers whole stages.
Deployable(c) ==
  c.pipeline => ~c.reshard_after_forward /\ ~c.requires_grad_sync /\ ~c.keep
                /\ c.backward_prefetch = 0

\* Units that some micro-batches leave out are prefetched by no other and are
\* resharded after every backward.
MCConfigs ==
  {c \in AllConfigs : Deployable(c) /\
     (c.skip => c.forward_prefetch = 0 /\ c.backward_prefetch = 0 /\ ~c.keep)}

\* The same without gradient synchronisation before the last micro-batch.
SkipConfigs ==
  {c \in MCConfigs : c.skip /\ ~c.pipeline /\ ~c.requires_grad_sync}
=============================================================================
