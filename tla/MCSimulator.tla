----------------------------- MODULE MCSimulator -----------------------------
(***************************************************************************)
(* Small instances of the simulator: days of two intervals, a sunny first  *)
(* one and a dark second one, and every schedule of up to two faults that  *)
(* the candidates below make up, valid or not.                             *)
(***************************************************************************)
EXTENDS Simulator, FiniteSets

CONSTANTS home, x

Curves(pv, load, price) == [pv |-> pv, load |-> load, price |-> price]

MCProfiles ==
    <<[t \in 0 .. 3 |-> IF t < 2 THEN Curves(9, 2, 20) ELSE Curves(0, 5, 30)],
      [t \in 0 .. 3 |-> Curves(0, 8, 40)]>>

MCEventIDs == {SimulatedEventID(t) : t \in 4 .. 14} \cup {x}

BaseFault == [step |-> 1, repeat |-> 0, kind |-> "delay", offset |-> 0,
              eventID |-> Nil, delay |-> 0, measurement |-> Nil, value |-> 0]

Shapes ==
    {[BaseFault EXCEPT !.kind = k] :
        k \in {"duplicate", "missing_heartbeat", "unavailable", "delay"}}
    \cup {[BaseFault EXCEPT !.delay = 3],
          [BaseFault EXCEPT !.kind = "out_of_order", !.offset = -3,
                            !.eventID = x],
          [BaseFault EXCEPT !.kind = "out_of_order", !.offset = 0,
                            !.eventID = x],
          [BaseFault EXCEPT !.kind = "out_of_order", !.offset = -3,
                            !.eventID = PaddedID],
          [BaseFault EXCEPT !.kind = "out_of_order", !.offset = -3],
          [BaseFault EXCEPT !.kind = "missing_value", !.measurement = "pv"],
          [BaseFault EXCEPT !.kind = "missing_value"]}
    \cup {[BaseFault EXCEPT !.kind = "invalid_measurement",
                            !.measurement = "soc", !.value = v] :
              v \in {-1, 100, 101}}
    \cup {[BaseFault EXCEPT !.kind = "invalid_measurement",
                            !.measurement = "price"]}

Candidates == {[f EXCEPT !.step = n, !.repeat = r] :
                  f \in Shapes, n \in 1 .. 3, r \in {0, 2}}

MCSchedules == {<<>>} \cup {<<f>> : f \in Candidates}
               \cup {<<f, g>> : f, g \in Candidates}

MCCommands == {Idle, [decision |-> "charge", power |-> 60],
               [decision |-> "discharge", power |-> 60],
               [decision |-> "charge", power |-> 0]}

=============================================================================
