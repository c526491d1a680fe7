----------------------------- MODULE TriageStore -----------------------------
(***************************************************************************)
(* AppState.store, an Arc<dyn TriageStore>: one of the two stores of       *)
(* scaffold-store, chosen when the state is built and never changed.  The  *)
(* variables of the other store stay as they were.                         *)
(***************************************************************************)
EXTENDS JobQueue

CONSTANTS PullRequests, DrainLimit, MaxUsage   \* see InMemoryStore

VARIABLES
    store,   \* which of the two it is
    rows, guard, inHand, dropped, audited, usage, batch   \* see InMemoryStore

memoryVars == <<rows, guard, inHand, dropped, audited, usage, batch>>

Memory == INSTANCE InMemoryStore

StoreInit ==
    /\ store \in {"postgres", "memory"}
    /\ Init
    /\ Memory!Init

StoreNext ==
    /\ \/ store = "postgres" /\ Next /\ UNCHANGED memoryVars
       \/ store = "memory" /\ Memory!Next /\ UNCHANGED queueVars
    /\ UNCHANGED store

StoreSpec == StoreInit /\ [][StoreNext]_<<store, queueVars, memoryVars>>

\* Whichever the store, the queue behaves as module JobQueue says; for the one
\* in memory, without backoff and with the rows in the order of their ids.
MirrorsPostgres == Memory!MirrorsPostgres

=============================================================================
