--------------------------- MODULE PipelineAlign ---------------------------
(***************************************************************************)
(* auto_align_and_add_send_recv: the transfers of a schedule that consists *)
(* of computations only.  A simulation places the bubbles: all ranks step  *)
(* together, a step waits for its producer on another rank, R - 1 - i      *)
(* bubbles precede the first forward that a backward follows, and a        *)
(* backward of the cool-down never follows another one directly.           *)
(***************************************************************************)
EXTENDS PipelineOrder

Padding == MetaStep("PAD", NoIndex, NoIndex)

Padded(c, order, i) ==
    LET turns == {k \in 1 .. Len(order) - 1 :
                    order[k].type = "FWD" /\ order[k + 1].type = "BWD"}
        ahead == IF turns = {} THEN Len(order)
                 ELSE (CHOOSE k \in turns : \A j \in turns : k <= j) - 1
    IN  SubSeq(order, 1, ahead) \o [k \in 1 .. c.R - 1 - i |-> Padding]
        \o SubSeq(order, ahead + 1, Len(order))

\* The step whose output another rank sends; a step that needs none is ready.
Producer(c, step) ==
    IF step.type = "FWD" THEN IF step.stage = 0 THEN step ELSE [step EXCEPT !.stage = @ - 1]
    ELSE IF step.stage = StageNum(c) - 1 THEN step ELSE [step EXCEPT !.stage = @ + 1]
DepReady(c, i, step, ranks) ==
    LET p == Producer(c, step)
        r == StageToRank(c, p.stage)
    IN  r = i \/ Contains(ranks[r].placed, p)

\* The simulation: the time left, and of each rank what it has still to place
\* and what it has placed.
AlignStart(c, orders) ==
    LET ranks == [i \in RanksOf(c) |-> [todo |-> Padded(c, orders[i], i), placed |-> <<>>]]
    IN  [ranks |-> ranks,
         left |-> 20 * c.R + Len(Cat(c.R, LAMBDA i : ranks[i].todo))]

AlignOver(sim) == sim.left = 0 \/ \A i \in DOMAIN sim.ranks : sim.ranks[i].todo = <<>>

AlignStep(c, sim) ==
    LET step(i) ==
            LET todo == sim.ranks[i].todo
                placed == sim.ranks[i].placed
                cooldown == \A k \in DOMAIN todo : todo[k].type # "FWD"
                rests == /\ cooldown /\ Head(todo).type = "BWD"
                         /\ placed # <<>> /\ Last(placed).type = "BWD"
                pads == Head(todo) = Padding
                waits == ~pads /\ (rests \/ ~DepReady(c, i, Head(todo), sim.ranks))
            IN  IF todo = <<>> THEN sim.ranks[i]
                ELSE [todo |-> IF waits THEN todo ELSE Tail(todo),
                      placed |-> Append(placed, IF waits \/ pads THEN Bubble ELSE Head(todo))]
    IN  [ranks |-> [i \in RanksOf(c) |-> step(i)], left |-> sim.left - 1]

AlignedOrders(c, sim) ==
    AddSendRecv(c, [i \in RanksOf(c) |-> sim.ranks[i].placed])
=============================================================================
