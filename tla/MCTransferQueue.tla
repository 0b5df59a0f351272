-------------------------- MODULE MCTransferQueue --------------------------
(* A small instance of the transfer queue: an upload u or a download d with *)
(* two attempts and as many permits.                                        *)
EXTENDS TransferQueue

CONSTANTS u, d, s, remote, local

VARIABLE part

MCSessionOf == [j \in Jobs |-> s]
MCPathOf    == [j \in Jobs |-> IF j = u THEN remote ELSE local]
MCUploads   == Jobs \cap {u}
MCLength    == [j \in Jobs |-> 1]
MCTotal     == [j \in Jobs |-> 1]

MCInit ==
  /\ part \in Jobs /\ Init
  /\ \A p \in Paths \ {PathOf[part]} : dest[p] = Nothing

(* The other job is never enqueued.                                         *)
MCNext ==
  /\ UNCHANGED part
  /\ Next /\ \A j \in Jobs \ {part} : state'[j] = "Absent"

MCSpec == MCInit /\ [][MCNext]_<<part, vars>> /\ Fairness
=============================================================================
