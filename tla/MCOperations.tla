---------------------------- MODULE MCOperations ----------------------------
(***************************************************************************)
(* Records of the kinds the series tell apart: an accepted observation     *)
(* with its command, and a missing heartbeat, which is not counted as      *)
(* received and carries no timestamp.                                      *)
(***************************************************************************)
EXTENDS Operations

Accepted == [disposition |-> "accepted", status |-> "online",
             decision |-> "charge", lag |-> 0]

Missing == [disposition |-> "missing", status |-> "stale",
            decision |-> Nil, lag |-> Nil]

MCRecords == {Accepted, Missing}

=============================================================================
