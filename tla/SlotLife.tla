------------------------------ MODULE SlotLife ------------------------------
(***************************************************************************)
(* What the worker pool promises of each slot: it has no thread, or one    *)
(* that starts, waits, serves or leaves; a thread serves only after work   *)
(* was handed over, and each hand-over is taken once; until the pool is    *)
(* stopped no thread leaves, and work goes to slots that have a thread.    *)
(***************************************************************************)
CONSTANT Slots

VARIABLES phase,    \* slot -> what its thread is doing
          work,     \* slot -> work was handed over and not taken yet
          stopping  \* the pool has been told to stop

vars == <<phase, work, stopping>>

Init ==
    /\ phase = [i \in Slots |-> "free"]
    /\ work = [i \in Slots |-> FALSE]
    /\ stopping = FALSE

Move(i, from, to) == phase[i] = from /\ phase' = [phase EXCEPT ![i] = to]

Make(i)  == Move(i, "free", "starting") /\ UNCHANGED <<work, stopping>>
Begin(i) == Move(i, "starting", "waiting") /\ UNCHANGED <<work, stopping>>

\* Work that nobody has taken yet may be replaced by newer work.
Post(i) ==
    /\ stopping \/ phase[i] \notin {"free", "leaving"}
    /\ work' = [work EXCEPT ![i] = TRUE]
    /\ UNCHANGED <<phase, stopping>>

Take(i) ==
    /\ work[i] /\ Move(i, "waiting", "serving")
    /\ work' = [work EXCEPT ![i] = FALSE]
    /\ UNCHANGED stopping

Done(i) == Move(i, "serving", "waiting") /\ UNCHANGED <<work, stopping>>

Leave(i) ==
    /\ stopping
    /\ Move(i, "waiting", "leaving") \/ Move(i, "serving", "leaving")
    /\ UNCHANGED <<work, stopping>>

Gone(i) == Move(i, "leaving", "free") /\ UNCHANGED <<work, stopping>>

Stop == ~stopping /\ stopping' = TRUE /\ UNCHANGED <<phase, work>>

Next ==
    \/ \E i \in Slots : Make(i) \/ Begin(i) \/ Post(i) \/ Take(i) \/ Done(i)
                        \/ Leave(i) \/ Gone(i)
    \/ Stop

Spec == Init /\ [][Next]_vars
=============================================================================
