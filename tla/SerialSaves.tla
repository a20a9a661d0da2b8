---------------------------- MODULE SerialSaves ----------------------------
(***************************************************************************)
(* What SaveJobSchedule promises about a job, with no statements, locks or *)
(* copies: a Save that was posted is stored in one step, the row with its  *)
(* inputs, or leaves no trace.  Nothing else changes the inputs; what else *)
(* writes the row writes one of a save that was stored; and a run is given *)
(* the inputs as they are at one moment.                                   *)
(***************************************************************************)
CONSTANTS
  Clients, Agents, None,
  Rows,         \* what a row may be
  InputSets     \* what a job's inputs may be

VARIABLES
  row, inputs,  \* the job as it is stored
  pending,      \* the save each client has posted, until it is stored or dropped
  stored,       \* the saves that were stored
  given         \* the inputs each agent's run was given

serialVars == <<row, inputs, pending, stored, given>>

SerialInit ==
  /\ row = None /\ inputs = {} /\ stored = {}
  /\ pending = [c \in Clients |-> None]
  /\ given = [a \in Agents |-> {}]

Post(c) ==
  /\ pending[c] = None
  /\ pending'[c] \in [row : Rows, inputs : InputSets]
  /\ pending' = [pending EXCEPT ![c] = pending'[c]]
  /\ UNCHANGED <<row, inputs, stored, given>>

End(c) ==
  /\ pending[c] # None
  /\ pending' = [pending EXCEPT ![c] = None]
  /\ UNCHANGED given

Store(c) ==
  /\ End(c)
  /\ row' = pending[c].row /\ inputs' = pending[c].inputs
  /\ stored' = stored \cup {pending[c].row.save}

Drop(c) == End(c) /\ UNCHANGED <<row, inputs, stored>>

WriteRow ==
  /\ row # None /\ row' \in Rows /\ row'.save \in stored
  /\ UNCHANGED <<inputs, pending, stored>>

Change == WriteRow /\ UNCHANGED given

GiveInputs(a) ==
  /\ row # None
  /\ given' = [given EXCEPT ![a] = inputs]
  /\ UNCHANGED <<row, inputs, pending, stored>>

Finish(a) == WriteRow /\ given' = [given EXCEPT ![a] = {}]

SerialNext ==
  \/ \E c \in Clients : Post(c) \/ Store(c) \/ Drop(c)
  \/ Change
  \/ \E a \in Agents : GiveInputs(a) \/ Finish(a)

SerialSpec == SerialInit /\ [][SerialNext]_serialVars
=============================================================================
