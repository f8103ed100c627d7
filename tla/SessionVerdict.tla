--------------------------- MODULE SessionVerdict ---------------------------
(***************************************************************************)
(* What the service promises about verdicts, without the store, the        *)
(* pipeline, the requests and the threads: a session gets at most one      *)
(* verdict, and keeps it.                                                  *)
(*                                                                         *)
(* An open session is claimed once, then verified, failed, or lost with    *)
(* the process; what fails before the proof check fails in the same step   *)
(* it is claimed in, and nothing is verified without one.  A session       *)
(* nobody claims may be forgotten at any time.                             *)
(*                                                                         *)
(* Verifier implements this specification (see VerdictSpec there), and     *)
(* Consumer is built on it.                                                *)
(***************************************************************************)

CONSTANT SessionId

VARIABLE status

Status == {"unissued", "open", "pending", "verified", "failed", "lost", "gone"}

TypeOK == status \in [SessionId -> Status]

Init == status = [id \in SessionId |-> "unissued"]

With(s) == {id \in SessionId : status[id] = s}

\* status once the open sessions in ids have been forgotten
Without(ids) == [id \in SessionId |-> IF id \in ids THEN "gone" ELSE status[id]]

\* Others may be forgotten to make room.
Issue(id) ==
  /\ status[id] = "unissued"
  /\ \E ids \in SUBSET With("open") : status' = [Without(ids) EXCEPT ![id] = "open"]

Forget == \E ids \in SUBSET With("open") : status' = Without(ids)

Claim(id) ==
  /\ status[id] = "open"
  /\ status' = [status EXCEPT ![id] = "pending"]

FailAtOnce(id) ==
  /\ status[id] = "open"
  /\ status' = [status EXCEPT ![id] = "failed"]

Decide(id, verdict) ==
  /\ status[id] = "pending"
  /\ status' = [status EXCEPT ![id] = verdict]

\* The process ends.
Stop ==
  status' = [id \in SessionId |->
    CASE status[id] = "open" -> "gone"
      [] status[id] = "pending" -> "lost"
      [] OTHER -> status[id]]

Next ==
  \/ \E id \in SessionId :
       \/ Issue(id) \/ Claim(id) \/ FailAtOnce(id)
       \/ \E verdict \in {"verified", "failed"} : Decide(id, verdict)
  \/ Forget
  \/ Stop

Spec == Init /\ [][Next]_status

=============================================================================
