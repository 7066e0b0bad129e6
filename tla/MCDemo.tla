------------------------------- MODULE MCDemo -------------------------------
(***************************************************************************)
(* Demo runs: the shipped scenarios/unreliable-telemetry-day.json, and the *)
(* same day under other schedules of up to two faults.                     *)
(***************************************************************************)
EXTENDS Demo

CONSTANTS home, x

Curves(pv, load, price) == [pv |-> pv, load |-> load, price |-> price]

(***************************************************************************)
(* The shipped scenario.  Time is in hours, and the day begins at hour 24. *)
(* The profile is the simulator's for a 10 kWh battery and 2 h intervals,  *)
(* rounded, with a PV factor of 0.9 and the other daily factors 1.         *)
(***************************************************************************)
MCProfiles ==
    LET pv    == <<0, 0, 0, 0, 54, 94, 108, 94, 54, 0, 0, 0>>
        load  == <<9, 8, 10, 18, 18, 10, 8, 9, 14, 26, 26, 14>>
        price == <<30, 30, 30, 34, 34, 28, 25, 26, 34, 46, 47, 36>>
    IN  <<[t \in 0 .. 23 |-> Curves(pv[t \div 2 + 1], load[t \div 2 + 1],
                                    price[t \div 2 + 1])]>>

FaultDocument(n, kind) ==
    [step |-> n, repeat |-> 0, kind |-> kind, offset |-> Nil, eventID |-> Nil,
     delay |-> Nil, measurement |-> Nil, value |-> Nil]

Shipped ==
    [duration |-> 24,
     faults |->
       <<[FaultDocument(2, "missing_value") EXCEPT !.measurement = "pv"],
         [FaultDocument(3, "invalid_measurement") EXCEPT
             !.measurement = "soc", !.value = -5],
         FaultDocument(4, "missing_heartbeat"),
         FaultDocument(5, "unavailable"),
         [FaultDocument(6, "delay") EXCEPT !.delay = 3],
         FaultDocument(7, "duplicate"),
         [FaultDocument(8, "out_of_order") EXCEPT !.offset = -5,
                                                  !.eventID = x]>>,
     decisions |-> <<"discharge", Nil, Nil, Nil, Nil, Nil, Nil, Nil, "charge",
                     "discharge", "discharge", "discharge">>,
     dispositions |-> <<"accepted", "rejected", "rejected", "missing",
                        "unavailable", "accepted", "duplicate",
                        "history_only", "accepted", "accepted", "accepted",
                        "accepted">>,
     statuses |-> <<"online", "invalid", "invalid", "invalid", "offline",
                    "stale", "stale", "stale", "online", "online", "online",
                    "online">>]

\* The IDs that SimulatedEventID gives the samples, and the late one of a fault.
MCEventIDs == {<<"sim", 24 + 2 * k>> : k \in 0 .. 11} \cup {x}

(***************************************************************************)
(* The same day under other faults.  It begins with discharges down to the *)
(* reserve, which is reached in the fourth interval.                       *)
(***************************************************************************)
Unexpecting(schedule) ==
    [Shipped EXCEPT !.faults = schedule,
                    !.decisions = [i \in 1 .. 12 |-> Nil],
                    !.dispositions = <<>>, !.statuses = <<>>]

Delays == {[FaultDocument(1, "delay") EXCEPT !.delay = d] : d \in {2, 3}}

Shapes ==
    Delays
    \cup {FaultDocument(1, "missing_heartbeat"), FaultDocument(1, "unavailable"),
          [FaultDocument(1, "missing_value") EXCEPT !.measurement = "load"],
          [FaultDocument(1, "invalid_measurement") EXCEPT !.measurement = "price"]}
    \cup {[FaultDocument(1, "out_of_order") EXCEPT !.offset = o,
                                                   !.eventID = x] :
             o \in {-1, -2, -5}}
    \cup {[FaultDocument(1, "out_of_order") EXCEPT !.offset = -1,
                                                   !.eventID = PaddedID]}

At(shapes, steps, repeats) ==
    {[f EXCEPT !.step = n, !.repeat = r] :
        f \in shapes, n \in steps, r \in repeats}

Duplicates(steps, repeats) ==
    At({FaultDocument(1, "duplicate")}, steps, repeats)

\* Faults of every kind; a duplicate repeats a fault-free or a delayed step.
MCScenarios ==
    {Shipped, Unexpecting(<<>>), [Shipped EXCEPT !.duration = 23]}
    \cup {Unexpecting(<<f>>) : f \in At(Shapes, {1, 3, 4}, {0, 3})
                                     \cup Duplicates({1, 2, 4, 5, 12}, {0})}
    \cup {Unexpecting(<<f, g>>) : f \in At(Shapes, {2}, {0, 2}),
                                  g \in At(Shapes, {4}, {0})
                                        \cup Duplicates({5}, {0})}
    \cup {Unexpecting(<<f, g>>) : f \in Duplicates({3}, {0}),
                                  g \in At(Shapes, {3, 4}, {0, 2})}
    \cup {Unexpecting(<<f, g>>) : f \in At(Delays, {3}, {0}),
                                  g \in Duplicates({4}, {0})}

\* A duplicate fault that goes on for several steps.
RepeatedDuplicates == {Unexpecting(<<f>>) : f \in Duplicates({2}, {4})}

MCSchedules == {ToFaults(s) : s \in MCScenarios \cup RepeatedDuplicates}

(***************************************************************************)
(* The shipped scenario matches: in every interval of its day the model    *)
(* classifies, decides and rates the device's health as the scenario file, *)
(* and with it the repository's own acceptance test, expects of the        *)
(* program.                                                                *)
(***************************************************************************)
ShippedDayMatches == scenario = Shipped => verdict # "mismatch"

=============================================================================
