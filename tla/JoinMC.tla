------------------------------- MODULE JoinMC --------------------------------
(***************************************************************************)
(* Fibers that join others, and fibers that meet at a gate of their own,   *)
(* for the model checker.  A behaviour is one of the two.                  *)
(***************************************************************************)
EXTENDS Join

VARIABLES part,   \* "join" or "gate"
          gateWorker, gateQueue, m_count, m_current, visitors, arrived, left

Gates == INSTANCE Gate WITH
    worker <- gateWorker, queue <- gateQueue, Size <- 1, Counts <- {2, 3}, MaxArrivals <- 3

gateVars == <<gateWorker, gateQueue, m_count, m_current, visitors, arrived, left>>

\* The part that does nothing has one initial state.
PartInit ==
    /\ part \in {"join", "gate"}
    /\ Init
    /\ Gates!Init
    /\ part = "join" =>
          /\ m_count = 2 /\ visitors = {}
          /\ gateWorker = Gates!NewWorker(CHOOSE q \in Gates!HatchOrders : TRUE)

PartNext ==
    /\ UNCHANGED part
    /\ \/ part = "join" /\ Next /\ UNCHANGED gateVars
       \/ part = "gate" /\ Gates!Next /\ UNCHANGED vars

PartSpec ==
    /\ PartInit /\ [][PartNext]_<<part, vars, gateVars>>
    /\ (part = "join" /\ Fairness) \/ (part = "gate" /\ Gates!Fairness)

-----------------------------------------------------------------------------
(* Properties *)

\* See Barrier of Gate, and OpensOnCount: the gate opens at the right arrival, and
\* lets nobody through for the next round (Gate::pass(), wait()).
GateIsBarrier == part = "gate" => Gates!Barrier /\ Gates!OpensOnCount

\* See BarrierOpens and ReleasedLeaves of Gate (Gate::pass(), wait()).
GateOpens == Gates!BarrierOpens /\ Gates!ReleasedLeaves
=============================================================================
