--------------------------- MODULE MCPipelineRun ---------------------------
(***************************************************************************)
(* The configurations TLC checks PipelineRun with.                         *)
(***************************************************************************)
EXTENDS PipelineRun

Base == [sched |-> "1f1b", R |-> 2, V |-> 1, M |-> 2, less |-> FALSE,
         bf |-> FALSE, dxdw |-> FALSE, mode |-> "plain", p2p |-> FALSE,
         cb |-> FALSE, mirror |-> FALSE, data |-> FALSE, dyn |-> FALSE,
         shared |-> {}, raises |-> {}, calls |-> 1]

Interleaved == [Base EXCEPT !.sched = "interleaved", !.V = 2]
Paired == [Interleaved EXCEPT !.bf = TRUE]

\* GPipe and 1F1B: from too few micro-batches to a full pipeline ...
FlatSizes ==
    {[Base EXCEPT !.sched = s, !.R = R, !.M = M] :
        s \in {"gpipe", "1f1b"}, R \in 2 .. 4, M \in 1 .. 4}
    \cup {[Base EXCEPT !.sched = s, !.M = M, !.p2p = TRUE] :
        s \in {"gpipe", "1f1b"}, M \in 1 .. 3}
\* ... two calls in a row, with everything that crosses ranks ...
FlatAgain ==
    {[Base EXCEPT !.sched = s, !.R = R, !.data = d, !.dyn = y, !.calls = 2,
                  !.shared = {0, R - 1}] :
        s \in {"gpipe", "1f1b"}, R \in 2 .. 3, d \in BOOLEAN, y \in BOOLEAN}
    \cup {[Base EXCEPT !.p2p = TRUE, !.calls = 2]}
\* ... and with a user's module that raises in one computation.
FlatRaises ==
    {[Base EXCEPT !.sched = c, !.M = 3, !.p2p = x, !.raises = {<< t, s, m >>}] :
        c \in {"gpipe", "1f1b"}, x \in BOOLEAN, t \in {"FWD", "BWD"}, s \in 0 .. 1, m \in 0 .. 2}
FlatConfigs == FlatSizes \cup FlatAgain \cup FlatRaises

\* Interleaved: fewer micro-batches than ranks, as many, a remainder round.
PlainConfigs ==
    {[Interleaved EXCEPT !.R = R, !.V = V, !.M = M, !.less = l] :
        R \in 2 .. 3, V \in 1 .. 2, M \in 1 .. 5, l \in BOOLEAN}
    \cup {[Paired EXCEPT !.R = R, !.M = M] : R \in 2 .. 3, M \in 1 .. 5}
\* Paired forwards and backwards over the batched transport.
BatchConfigs ==
    {[Paired EXCEPT !.M = M, !.mode = "batch", !.mirror = x, !.p2p = y, !.cb = b] :
        M \in 2 .. 4, x \in BOOLEAN, y \in BOOLEAN, b \in BOOLEAN}
    \cup {[Paired EXCEPT !.R = 3, !.M = M, !.mode = "batch", !.mirror = x] :
        M \in {3, 4}, x \in BOOLEAN}
    \cup {[Paired EXCEPT !.R = 3, !.M = 4, !.mode = "batch", !.mirror = TRUE, !.p2p = TRUE]}
\* The same with the backward split into dx and dw.
SplitConfigs ==
    {[Paired EXCEPT !.M = M, !.mode = m, !.p2p = y, !.dxdw = TRUE, !.cb = b] :
        M \in 2 .. 4, m \in {"plain", "batch"}, y \in BOOLEAN, b \in BOOLEAN}
    \cup {[Paired EXCEPT !.R = 3, !.M = M, !.mode = "batch", !.mirror = TRUE, !.dxdw = TRUE] :
        M \in 3 .. 4}
\* The forward-boundary transport, where it works (M up to R + 1).
BoundaryConfigs ==
    {[Paired EXCEPT !.R = R, !.M = M, !.mode = "boundary", !.p2p = TRUE, !.cb = b] :
        R \in 2 .. 3, M \in 2 .. 3, b \in BOOLEAN}
\* Two calls in a row of each kind.
AgainConfigs ==
    {[Interleaved EXCEPT !.data = TRUE, !.calls = 2],
     [Paired EXCEPT !.mode = "batch", !.data = TRUE, !.calls = 2],
     [Paired EXCEPT !.mode = "boundary", !.p2p = TRUE, !.calls = 2],
     [Paired EXCEPT !.mode = "batch", !.p2p = TRUE, !.dxdw = TRUE, !.calls = 2]}
\* A half of an overlap raises, with a receive of the next slot at the boundary.
OverlapRaises ==
    {[Paired EXCEPT !.M = 3, !.mode = "boundary", !.p2p = TRUE, !.cb = b,
                    !.raises = {<< t, 3, m >>}] :
        b \in BOOLEAN, t \in {"FWD", "BWD"}, m \in 1 .. 2}
InterleavedConfigs ==
    PlainConfigs \cup BatchConfigs \cup SplitConfigs \cup BoundaryConfigs \cup AgainConfigs
    \cup OverlapRaises

AllConfigs == FlatConfigs \cup InterleavedConfigs

\* Where documentation and code disagree: the smallest case.
LessPairedConfigs == {[Paired EXCEPT !.M = 4, !.less = TRUE]}
=============================================================================
