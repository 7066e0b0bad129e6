----------------------------- MODULE MCEdgeAgent -----------------------------
(***************************************************************************)
(* Small instances of EdgeAgent: the envelopes a source may deliver for    *)
(* one household, with an interval of two time units so that an arrival    *)
(* can be on time, exactly one interval late, or later.                    *)
(***************************************************************************)
EXTENDS EdgeAgent

CONSTANTS a, b, c, home, other

Event(id, time, m) ==
    [id |-> id, time |-> time, utc |-> TRUE, device |-> home, m |-> m]

Available(tel, recv) ==
    [src |-> home, recv |-> recv, utc |-> TRUE, tel |-> tel, avail |-> TRUE]

\* Expensive evening with little left to discharge; sunny noon; broken meter.
Evening == [pv |-> 0, load |-> 3, soc |-> 22, price |-> 30]
Noon    == [pv |-> 5, load |-> 1, soc |-> 50, price |-> 20]
Broken  == [pv |-> 5, load |-> 1, soc |-> NoValue, price |-> 20]

Unavailable == [src |-> home, recv |-> 3, utc |-> TRUE, tel |-> Nil,
                avail |-> FALSE]

\* The receive time is missing, so the runtime's own clock stands in for it.
Malformed == Available(Event(a, 1, Evening), 0)

\* Event a on time; b on time and delivered again exactly one interval later;
\* c, older than b, one interval and more late; and faults.
Deliveries ==
    {Available(Event(a, 1, Evening), 1),
     Available(Event(b, 3, Noon), 3),
     Available(Event(b, 3, Noon), 5),
     Available(Event(c, 2, Noon), 5),
     Available(Event(c, 4, Broken), 4),
     Unavailable,
     Malformed}

\* Another household's event, and one whose event time is not in UTC.
SeamDeliveries ==
    {Available(Event(a, 1, Evening), 1),
     [Available([Event(b, 3, Noon) EXCEPT !.device = other], 3)
        EXCEPT !.src = other],
     Available([Event(c, 3, Noon) EXCEPT !.utc = FALSE], 3)}

AnyDeliveries == Deliveries \cup SeamDeliveries

=============================================================================
