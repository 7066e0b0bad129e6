---------------------------- MODULE MCMigrations ----------------------------
(***************************************************************************)
(* Databases of every kind for one household with up to three events.      *)
(* Version 1 of the program kept the newest event as the latest state and  *)
(* may have recorded a command for any event; its tables' foreign keys     *)
(* hold.                                                                   *)
(***************************************************************************)
EXTENDS Migrations

CONSTANTS a, b, c, home

Noon == [pv |-> 5, load |-> 1, soc |-> 50, price |-> 20]

Times == [id \in EventIDs |-> CASE id = a -> 1 [] id = b -> 2 [] id = c -> 4]

Event(id) == [id |-> id, time |-> Times[id], utc |-> TRUE, device |-> home,
              m |-> Noon]

NoRows == [id \in EventIDs |-> Nil]

Empty == [events |-> NoRows, latest |-> Nil, commands |-> NoRows,
          health |-> Nil, tables |-> 0, history |-> <<>>]

\* b was received an interval and more after it was measured.
V1Row(id) == [event |-> Event(id), disposition |-> Nil,
              recv |-> IF id = b THEN 5 ELSE Times[id]]

V1Database(stored, commanded) ==
    [Empty EXCEPT
        !.tables = 1,
        !.history = SubSeq(Migrations, 1, 1),
        !.events = [id \in EventIDs |->
                       IF id \in stored THEN V1Row(id) ELSE Nil],
        !.commands = [id \in EventIDs |-> IF id \in commanded
                         THEN [command |-> Decide(Noon), createdAt |-> 1]
                         ELSE Nil],
        !.latest = IF stored = {} THEN Nil
                   ELSE ApplyTelemetry(ZeroState, Event(CHOOSE id \in stored :
                           \A other \in stored : Times[other] <= Times[id]))]


\* What version 2 of the program keeps for the same events.
V2Database(stored, commanded) ==
    LET v1 == V1Database(stored, commanded)
    IN  [v1 EXCEPT
            !.tables = 2,
            !.history = Migrations,
            !.events = [id \in EventIDs |-> IF id \in stored
                          THEN [V1Row(id) EXCEPT !.disposition = "accepted"]
                          ELSE Nil],
            !.health = IF stored = {} THEN Nil
                       ELSE [status |-> "online", transition |-> Times[a],
                             contact |-> v1.events[v1.latest.lastEvent].recv]]

Renamed == [version |-> 1, name |-> "another migration"]

Unknown == [version |-> 3, name |-> "another migration"]

ForeignDatabases ==
    {[V2Database({a}, {a}) EXCEPT !.history = rows, !.tables = 3] :
        rows \in {<<Renamed>>, <<Renamed, Migrations[2]>>, <<Migrations[2]>>,
                  <<Migrations[1], Unknown>>, Append(Migrations, Unknown)}}

MCDatabases ==
    {Empty} \cup ForeignDatabases
    \cup UNION {{V1Database(stored, commanded), V2Database(stored, commanded)} :
                  <<stored, commanded>> \in
                     {p \in (SUBSET EventIDs) \X (SUBSET EventIDs) :
                         p[2] \subseteq p[1]}}

Online(at) == [status |-> "online", transition |-> at, contact |-> at]

\* The agent stores event c on time, or learns that the device is away.
MCResults ==
    {[device |-> home,
      telemetry |-> [event |-> Event(c), recv |-> 4, disposition |-> "accepted"],
      latestState |-> ApplyTelemetry(ZeroState, Event(c)),
      command |-> [eventID |-> c, command |-> Decide(Noon), createdAt |-> 4],
      health |-> Online(4)],
     [device |-> home, telemetry |-> Nil, latestState |-> Nil,
      command |-> Nil, health |-> [Online(6) EXCEPT !.status = "offline"]]}

=============================================================================
