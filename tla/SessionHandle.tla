---------------------------- MODULE SessionHandle ----------------------------
(***************************************************************************)
(* What a session handle promises to the consumer that holds it, without   *)
(* the dict, the clocks, the cap and the sweeper that keep the promise.    *)
(*                                                                         *)
(* A handle is issued once, can be claimed once, and is gone for good the  *)
(* first time the service denies knowing it.  The service may forget any   *)
(* handle at any time (expiry, sweep, restart); how soon it does so is not *)
(* part of this promise.                                                   *)
(*                                                                         *)
(* SessionStore implements this specification: see Handle there.           *)
(***************************************************************************)

CONSTANTS SessionId,    \* the handles the service can issue
          NoId          \* "no handle": the answer concerns none

VARIABLES phase,        \* what has become of each handle
          answer        \* the last answer given, and about which handle

vars == <<phase, answer>>

Phase == {"unissued", "open", "spent", "gone"}

Silence == [id |-> NoId, says |-> "nothing"]
Says(id, what) == [id |-> id, says |-> what]

Usable == {id \in SessionId : phase[id] \in {"open", "spent"}}

TypeOK ==
  /\ phase \in [SessionId -> Phase]
  /\ answer \in [id : SessionId \cup {NoId},
                 says : {"nothing", "created", "full", "taken", "already",
                         "found", "unknown"}]

Init ==
  /\ phase = [id \in SessionId |-> "unissued"]
  /\ answer = Silence

\* phase once the handles in ids have been forgotten
Forgotten(ids) ==
  [id \in SessionId |-> IF id \in ids THEN "gone" ELSE phase[id]]

\* A new handle is issued; expired ones may be forgotten to make room.
Issue(id) ==
  /\ phase[id] = "unissued"
  /\ \E ids \in SUBSET Usable : phase' = [Forgotten(ids) EXCEPT ![id] = "open"]
  /\ answer' = Says(id, "created")

\* No room for a new handle.
Full ==
  /\ \E ids \in SUBSET Usable : phase' = Forgotten(ids)
  /\ answer' = Says(NoId, "full")

\* The one response attempt is claimed.
Claim(id) ==
  /\ phase[id] = "open"
  /\ phase' = [phase EXCEPT ![id] = "spent"]
  /\ answer' = Says(id, "taken")

\* The attempt was already claimed.
Refuse(id) ==
  /\ phase[id] = "spent"
  /\ answer' = Says(id, "already")
  /\ UNCHANGED phase

\* A look at the session that claims nothing.
Look(id) ==
  /\ id \in Usable
  /\ answer' = Says(id, "found")
  /\ UNCHANGED phase

\* The service denies knowing the handle, and a usable one is gone by that.
Deny(id) ==
  /\ phase' = Forgotten({id} \cap Usable)
  /\ answer' = Says(id, "unknown")

\* In the background handles are forgotten, or time passes.
Background ==
  /\ \E ids \in SUBSET Usable : phase' = Forgotten(ids)
  /\ answer' = Silence

Next ==
  \/ \E id \in SessionId :
       Issue(id) \/ Claim(id) \/ Refuse(id) \/ Look(id) \/ Deny(id)
  \/ Full
  \/ Background

Spec == Init /\ [][Next]_vars

-----------------------------------------------------------------------------

Denied(id) == phase[id] # "unissued" /\ answer = Says(id, "unknown")
Served(id) == \E what \in {"taken", "already", "found"} : answer = Says(id, what)

(***************************************************************************)
(* A 404 about a handle that was issued is final: no later request about   *)
(* it is served, whatever the clock does.  _live evicts the session it     *)
(* finds expired (sessions.py:157-160) so that this holds.                 *)
(***************************************************************************)
DenialIsFinal == \A id \in SessionId : [](Denied(id) => []~Served(id))

=============================================================================
