------------------------------ MODULE StreamDrain ------------------------------
(***************************************************************************)
(* Graceful shutdown: ShutdownState and track_stream (app/shutdown.py),    *)
(* and the shutdown half of lifespan (app/main.py).                        *)
(*                                                                         *)
(* The module has no Next of its own: ChatTurn calls EnterStream and       *)
(* ExitStream from its streams.                                            *)
(***************************************************************************)
EXTENDS Integers

VARIABLES
  active,   \* _active_streams
  drained,  \* _drained, the asyncio.Event
  waiter    \* where wait_drained is, or what it returned

drainVars == <<active, drained, waiter>>

\* "woken" is the moment between the event's set() and the waiter's next turn on the
\* event loop; "clean" and "late" are the results True and False.
Waiter == {"none", "waiting", "woken", "clean", "late"}

TypeOK ==
  /\ active \in Nat
  /\ drained \in BOOLEAN
  /\ waiter \in Waiter

Init ==
  /\ active = 0
  /\ drained = TRUE
  /\ waiter = "none"

EnterStream ==
  /\ active' = active + 1
  /\ drained' = FALSE
  /\ UNCHANGED waiter

Wake == waiter' = IF waiter = "waiting" THEN "woken" ELSE waiter

\* Mutant: every stream that ends sets the event.
ExitStreamAlwaysSets ==
  /\ active' = IF active > 0 THEN active - 1 ELSE 0
  /\ drained' = TRUE
  /\ Wake

ExitStream ==
  /\ active' = IF active > 0 THEN active - 1 ELSE 0
  /\ IF active <= 1 THEN drained' = TRUE /\ Wake ELSE UNCHANGED <<drained, waiter>>

\* SIGTERM reaches lifespan, which starts wait_drained.
BeginShutdown ==
  /\ waiter = "none"
  /\ waiter' = IF active = 0 THEN "clean" ELSE "waiting"
  /\ UNCHANGED <<active, drained>>

WaitReturns ==
  /\ waiter = "woken"
  /\ waiter' = "clean"
  /\ UNCHANGED <<active, drained>>

\* The timeout of wait_for, which still wins when it fires before the woken waiter runs.
GraceElapses ==
  /\ waiter \in {"waiting", "woken"}
  /\ waiter' = "late"
  /\ UNCHANGED <<active, drained>>
=============================================================================
