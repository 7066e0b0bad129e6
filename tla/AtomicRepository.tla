-------------------------- MODULE AtomicRepository --------------------------
(***************************************************************************)
(* What persistence.Repository promises about CommitProcessing: a call     *)
(* either changes all durable records of its result at once and returns    *)
(* "stored", or changes none and returns "duplicate" or "failed"; a crash  *)
(* falls before or after that change, never into it; and every call of a   *)
(* process that stays up returns.  A repository serves one call at a time, *)
(* because it has one connection.                                          *)
(***************************************************************************)
EXTENDS Repository

CONSTANT Results    \* the observation results a caller may hand over

VARIABLES
    call,    \* the result being committed, or Nil
    reply    \* what the last call returned; Nil before, during and after a crash

callVars == <<call, reply>>

Init ==
    /\ DbInit
    /\ call = Nil
    /\ reply = Nil

Return(status) ==
    /\ call' = Nil
    /\ reply' = status

Call ==
    /\ call = Nil
    /\ \E r \in Results : call' = r
    /\ reply' = Nil
    /\ UNCHANGED dbVars

Store ==
    /\ call # Nil
    /\ ResultValid(call)
    /\ ~AlreadyStored(call)
    /\ StoreResult(call)
    /\ Return("stored")

Duplicate ==
    /\ call # Nil
    /\ ResultValid(call)
    /\ AlreadyStored(call)
    /\ Return("duplicate")
    /\ UNCHANGED dbVars

Fail ==
    /\ call # Nil
    /\ Return("failed")
    /\ UNCHANGED dbVars

Crash ==
    /\ Return(Nil)
    /\ UNCHANGED dbVars

Finish == Store \/ Duplicate \/ Fail

Next == Call \/ Finish \/ Crash

Safety == Init /\ [][Next]_<<dbVars, callVars>>

Spec == Safety /\ WF_<<dbVars, callVars>>(Finish)

=============================================================================
