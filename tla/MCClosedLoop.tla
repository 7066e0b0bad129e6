---------------------------- MODULE MCClosedLoop ----------------------------
(***************************************************************************)
(* The command line agent on a small timeline: days of two intervals, with *)
(* a surplus that fills the battery, an evening that empties half of it,   *)
(* and a second day whose load would take it below the reserve.            *)
(***************************************************************************)
EXTENDS ClosedLoop

CONSTANTS home

Curves(pv, load, price) == [pv |-> pv, load |-> load, price |-> price]

MCProfiles ==
    <<[t \in 0 .. 3 |-> IF t < 2 THEN Curves(9, 2, 20) ELSE Curves(0, 50, 30)],
      [t \in 0 .. 3 |-> Curves(0, 80, 40)]>>

MCTimes == {4, 6, 8, 10}

\* The IDs that SimulatedEventID gives the samples.
MCEventIDs == {<<"sim", t>> : t \in MCTimes}

\* Every sample of the timeline, on any day's factors and at any charge.
MCEnvelopes ==
    {Sim!FullEnvelope([id |-> Sim!SimulatedEventID(t), time |-> t,
                       m |-> Sim!Measured(d, t, charge)], t) :
        t \in MCTimes, d \in 1 .. Days, charge \in 0 .. MaximumSOC}

NoFaults == {<<>>}

=============================================================================
