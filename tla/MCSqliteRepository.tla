------------------------- MODULE MCSqliteRepository -------------------------
(***************************************************************************)
(* A small instance of SqliteRepository: results of every shape, in any    *)
(* order.  A caller whose own state is out of date hands over an accepted  *)
(* result that is older than the stored one (event c).                     *)
(***************************************************************************)
EXTENDS SqliteRepository

CONSTANTS a, b, c, home

Noon == [pv |-> 5, load |-> 1, soc |-> 50, price |-> 20]

Event(id, time) ==
    [id |-> id, time |-> time, utc |-> TRUE, device |-> home, m |-> Noon]

HealthAt(status, at) == [status |-> status, transition |-> at, contact |-> at]

HealthOnly(health) ==
    [device |-> home, telemetry |-> Nil, latestState |-> Nil,
     command |-> Nil, health |-> health]

History(event, recv) ==
    [HealthOnly(HealthAt("stale", recv)) EXCEPT
        !.telemetry = [event |-> event, recv |-> recv,
                       disposition |-> "history_only"]]

AcceptedLate(event, recv) ==
    [History(event, recv) EXCEPT
        !.telemetry.disposition = "accepted",
        !.latestState = ApplyTelemetry(ZeroState, event)]

AcceptedOnTime(event) ==
    [AcceptedLate(event, event.time) EXCEPT
        !.command = [eventID |-> event.id, command |-> Decide(event.m),
                     createdAt |-> event.time],
        !.health = HealthAt("online", event.time)]

MCResults ==
    {AcceptedOnTime(Event(a, 1)),
     AcceptedLate(Event(b, 3), 6),
     AcceptedOnTime(Event(c, 2)),
     History(Event(b, 3), 7),
     History(Event(c, 2), 5),
     HealthOnly(HealthAt("offline", 7)),
     [AcceptedOnTime(Event(b, 3)) EXCEPT !.latestState = Nil]}

=============================================================================
