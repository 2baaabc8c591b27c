------------------------------- MODULE QueryLog -------------------------------
(***************************************************************************)
(* What the query recorder promises to the DNS handlers, without its       *)
(* channels, goroutines and program counters: every entry offered is       *)
(* pending, then stored or dropped, once; the drop counter counts exactly  *)
(* the dropped ones; closing waits for every entry accepted before it;     *)
(* only a restart may lose a pending entry.  Recorder.tla is shown to      *)
(* implement this specification.                                           *)
(***************************************************************************)
EXTENDS Naturals

CONSTANT Entries

VARIABLES
  status,   \* where each entry is
  dropped,  \* the drop counter of Stats
  phase,    \* "open", "closing" or "closed"
  owed      \* entries accepted before closing began

vars == <<status, dropped, phase, owed>>

Statuses == {"new", "pending", "stored", "dropped", "gone"}

TypeOK ==
  /\ status \in [Entries -> Statuses]
  /\ dropped \in Nat
  /\ phase \in {"open", "closing", "closed"}
  /\ owed \subseteq Entries

Init ==
  /\ status = [e \in Entries |-> "new"]
  /\ dropped = 0
  /\ phase = "open"
  /\ owed = {}

\* An entry is offered: accepted, or dropped at once.
Offer(e) ==
  /\ status[e] = "new"
  /\ \/ /\ status' = [status EXCEPT ![e] = "pending"]
        /\ owed' = IF phase = "open" THEN owed \cup {e} ELSE owed
        /\ UNCHANGED dropped
     \/ /\ status' = [status EXCEPT ![e] = "dropped"]
        /\ dropped' = dropped + 1
        /\ UNCHANGED owed
  /\ UNCHANGED phase

\* A pending entry is stored, or dropped after all; never after the end.
Settle(e) ==
  /\ status[e] = "pending" /\ phase # "closed"
  /\ \/ /\ status' = [status EXCEPT ![e] = "stored"]
        /\ UNCHANGED dropped
     \/ /\ status' = [status EXCEPT ![e] = "dropped"]
        /\ dropped' = dropped + 1
  /\ UNCHANGED <<phase, owed>>

BeginClose ==
  /\ phase = "open"
  /\ phase' = "closing"
  /\ UNCHANGED <<status, dropped, owed>>

EndClose ==
  /\ phase = "closing"
  /\ \A e \in owed : status[e] \in {"stored", "dropped"}
  /\ phase' = "closed"
  /\ UNCHANGED <<status, dropped, owed>>

\* A new process: what the old one had not stored is gone.
Restart ==
  /\ status' = [e \in Entries |->
                  IF status[e] \in {"pending", "dropped"} THEN "gone" ELSE status[e]]
  /\ dropped' = 0
  /\ phase' = "open"
  /\ owed' = {}

Next ==
  \/ \E e \in Entries : Offer(e) \/ Settle(e)
  \/ BeginClose \/ EndClose \/ Restart

Spec == Init /\ [][Next]_vars

=============================================================================
