------------------------------ MODULE Conversation ------------------------------
(***************************************************************************)
(* What BRAVI promises of a chat turn (app/services/chat_service.py): its  *)
(* rows - the reply, its usage metric and, when the history was condensed, *)
(* the new summary - appear in one step, at most once, and before the      *)
(* client hears of them; the client then hears at most once how the turn   *)
(* ended. Only a turn whose COMMIT answered is said to be done, and only   *)
(* one that stored nothing, or of whose COMMIT nothing was heard, is said  *)
(* to have failed. A turn nobody listens to any more stores nothing later. *)
(***************************************************************************)
CONSTANT Requests

VARIABLES
  rows,    \* rows each turn has committed
  told,    \* what each client was told at the end
  doubt,   \* turns that committed and did not hear of it
  over     \* turns that are over

vars == <<rows, told, doubt, over>>

Answered == {"reply", "metric"}
TurnRows == {Answered, Answered \cup {"summary"}}

TypeOK ==
  /\ rows \in [Requests -> {{}} \cup TurnRows]
  /\ told \in [Requests -> {"nothing", "done", "error"}]
  /\ doubt \subseteq Requests
  /\ over \subseteq Requests

Init ==
  /\ rows = [r \in Requests |-> {}]
  /\ told = [r \in Requests |-> "nothing"]
  /\ doubt = {}
  /\ over = {}

\* The transaction of the turn commits.
Store(r) ==
  /\ r \notin over
  /\ rows[r] = {}
  /\ \E R \in TurnRows : rows' = [rows EXCEPT ![r] = R]
  /\ doubt' \in {doubt, doubt \cup {r}}
  /\ UNCHANGED <<told, over>>

TellDone(r) ==
  /\ r \notin over
  /\ rows[r] # {}
  /\ r \notin doubt
  /\ told' = [told EXCEPT ![r] = "done"]
  /\ over' = over \cup {r}
  /\ UNCHANGED <<rows, doubt>>

TellError(r) ==
  /\ r \notin over
  /\ rows[r] = {} \/ r \in doubt
  /\ told' = [told EXCEPT ![r] = "error"]
  /\ over' = over \cup {r}
  /\ UNCHANGED <<rows, doubt>>

\* A client leaves, or the process ends under all of them, and some turns just commit.
Abandon(R) ==
  /\ R \cap over = {}
  /\ over' = over \cup R
  /\ rows' \in [Requests -> {{}} \cup TurnRows]
  /\ \A r \in Requests : rows'[r] = rows[r] \/ (r \in R /\ rows[r] = {})
  /\ UNCHANGED <<told, doubt>>

Next ==
  \/ \E r \in Requests : Store(r) \/ TellDone(r) \/ TellError(r)
  \/ \E R \in SUBSET Requests : Abandon(R)

Spec == Init /\ [][Next]_vars
=============================================================================
