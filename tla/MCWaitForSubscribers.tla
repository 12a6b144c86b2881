------------------------ MODULE MCWaitForSubscribers ------------------------
(***************************************************************************)
(* WaitForSubscribers for TLC: one thread waits for the first subscriber,  *)
(* all others for the second.                                              *)
(***************************************************************************)
EXTENDS WaitForSubscribers

CONSTANT First         \* the waiters that ask for one subscriber

MCCount == [t \in Waiter |-> IF t \in First THEN 1 ELSE 2]

=============================================================================
