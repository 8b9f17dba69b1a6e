-------------------------------- MODULE Lock --------------------------------
(***************************************************************************)
(* What zth::Mutex promises to its fibers: a fiber that asks has to wait   *)
(* only while another one has the lock, it keeps asking until it gets the  *)
(* lock, and only the fiber that has it gives it back.                     *)
(***************************************************************************)
CONSTANTS Client, Nobody

VARIABLES owner,    \* the client that has the lock, or Nobody
          asking    \* the clients that wait for it

Free == owner = Nobody /\ asking = {}

HasToWait(c) == owner # Nobody /\ asking' = asking \cup {c} /\ UNCHANGED owner

Gets(c) == owner = Nobody /\ asking' = asking \ {c} /\ owner' = c

GivesBack(c) == owner = c /\ UNCHANGED asking /\ owner' = Nobody

Step == \E c \in Client : HasToWait(c) \/ Gets(c) \/ GivesBack(c)

Spec == Free /\ [][Step]_<<owner, asking>>
=============================================================================
