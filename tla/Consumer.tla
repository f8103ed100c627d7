------------------------------ MODULE Consumer ------------------------------
(***************************************************************************)
(* The example consumer (examples/site-dc-mdoc): the page in the visitor's *)
(* browser, the site's backend it talks to, and the verifier service as    *)
(* SessionVerdict promises it, joined by HTTP calls that may be late or    *)
(* never answered.                                                         *)
(*                                                                         *)
(* A check is one press of the button.  It makes two calls, one after the  *)
(* other: to open a session, and to relay the wallet's response.  Each     *)
(* goes from the page to the site and from there to the service, and the   *)
(* answer comes back the same way; a call is in net while it is on one of  *)
(* these legs.  Whoever waits for an answer may give up, and the call goes *)
(* on without it.                                                          *)
(***************************************************************************)
CONSTANTS
  Check,       \* the presses of the button followed
  SessionId, NoId

ASSUME ConsumerAssumption == NoId \notin SessionId

VARIABLES
  status,      \* of the service's sessions, see SessionVerdict
  serving,     \* the relay calls whose verdict the service is working on
  net,         \* the calls and answers under way
  waiting,     \* the calls the site has forwarded and awaits an answer to
  check,       \* each check: where present() is, its session, what it showed
  gate         \* data-state of the page

vars == <<status, serving, net, waiting, check, gate>>

Service == INSTANCE SessionVerdict

Kind == {"open", "relay"}
Answers == {"201", "503", "verified", "failed", "404", "409", "500"}

\* A call on its way out says nothing yet.
Call(leg, c, kind, id, says) ==
  [leg |-> leg, check |-> c, kind |-> kind, session |-> id, says |-> says]
Onward(m, leg) == [m EXCEPT !.leg = leg]
Answered(m, leg, id, says) == [m EXCEPT !.leg = leg, !.session = id, !.says = says]

Shown == {"verified", "failed", "rejected"}

TypeOK ==
  /\ Service!TypeOK
  /\ \A m \in net \cup serving \cup waiting :
       m \in [leg : {"to-site", "to-service", "from-service", "from-site"},
              check : Check, kind : Kind, session : SessionId \cup {NoId},
              says : {"nothing"} \cup Answers]
  /\ check \in [Check -> [pc : {"unstarted", "opening", "wallet", "relaying"} \cup Shown,
                          session : SessionId \cup {NoId}]]
  /\ gate \in {"idle", "checking"} \cup Shown

Init ==
  /\ Service!Init
  /\ serving = {} /\ net = {} /\ waiting = {}
  /\ check = [c \in Check |-> [pc |-> "unstarted", session |-> NoId]]
  /\ gate = "idle"

-----------------------------------------------------------------------------
(* The page: startCheck and present().                                     *)

Posted(c, kind, id) == Call("to-site", c, kind, id, "nothing")

\* A mistake: the page keeps the session of an earlier check and relays to it.
FaultyStart(c) ==
  /\ check[c].pc = "unstarted"
  /\ \/ /\ \A other \in Check : check[other].session = NoId
        /\ check' = [check EXCEPT ![c].pc = "opening"]
        /\ net' = net \cup {Posted(c, "open", NoId)}
     \/ \E other \in Check :
          /\ check[other].session # NoId
          /\ check' = [check EXCEPT ![c].pc = "wallet", ![c].session = check[other].session]
          /\ UNCHANGED net
  /\ gate' = "checking"
  /\ UNCHANGED <<status, serving, waiting>>

\* The button is only faded while a check is under way: the keyboard still
\* presses it, and another check begins.
Start(c) ==
  /\ check[c].pc = "unstarted"
  /\ check' = [check EXCEPT ![c].pc = "opening"]
  /\ net' = net \cup {Posted(c, "open", NoId)}
  /\ gate' = "checking"
  /\ UNCHANGED <<status, serving, waiting>>

Show(c, what) ==
  /\ check' = [check EXCEPT ![c].pc = what]
  /\ gate' = what

\* navigator.credentials.get returns, or rejects.
WalletAnswers(c) ==
  /\ check[c].pc = "wallet"
  /\ \/ /\ check' = [check EXCEPT ![c].pc = "relaying"]
        /\ net' = net \cup {Posted(c, "relay", check[c].session)}
        /\ UNCHANGED gate
     \/ Show(c, "rejected") /\ UNCHANGED net
  /\ UNCHANGED <<status, serving, waiting>>

\* A mistake: the answer's own word becomes the state of the gate.
FaultyReads(m) == IF m.says = "201" THEN "wallet" ELSE m.says

\* What the page makes of an answer, whatever its HTTP status: without
\* transports in it, and for the site's own 500, which is not JSON, an
\* exception is caught.  A 404 or a 409 has a detail to show.
Reads(m) ==
  CASE m.says = "201" -> "wallet"
    [] m.says = "verified" -> "verified"
    [] m.says \in {"failed", "404", "409"} -> "failed"
    [] OTHER -> "rejected"

Awaits(c, kind) == check[c].pc = IF kind = "open" THEN "opening" ELSE "relaying"

\* A mistake: whatever is no failure is taken for success.
FaultyPageReceives(m) ==
  /\ m.leg = "from-site" /\ Awaits(m.check, m.kind)
  /\ net' = net \ {m}
  /\ IF m.says = "201"
       THEN /\ check' = [check EXCEPT ![m.check] = [pc |-> "wallet", session |-> m.session]]
            /\ UNCHANGED gate
       ELSE Show(m.check, IF m.says = "failed" THEN "failed" ELSE "verified")
  /\ UNCHANGED <<status, serving, waiting>>

\* A mistake: the relay is tried again when the site could not answer it.
FaultyPageRetries(m) ==
  /\ m.leg = "from-site" /\ Awaits(m.check, m.kind)
  /\ IF Reads(m) = "wallet"
       THEN /\ check' = [check EXCEPT ![m.check] = [pc |-> "wallet", session |-> m.session]]
            /\ net' = net \ {m} /\ UNCHANGED gate
       ELSE IF m.kind = "relay" /\ m.says = "500"
       THEN /\ net' = (net \ {m}) \cup {Posted(m.check, "relay", check[m.check].session)}
            /\ UNCHANGED <<check, gate>>
       ELSE Show(m.check, Reads(m)) /\ net' = net \ {m}
  /\ UNCHANGED <<status, serving, waiting>>

PageReceives(m) ==
  /\ m.leg = "from-site" /\ Awaits(m.check, m.kind)
  /\ net' = net \ {m}
  /\ IF Reads(m) = "wallet"
       THEN /\ check' = [check EXCEPT ![m.check] = [pc |-> "wallet", session |-> m.session]]
            /\ UNCHANGED gate
       ELSE Show(m.check, Reads(m))
  /\ UNCHANGED <<status, serving, waiting>>

\* fetch rejects: the connection to the site is lost.
FetchFails(c) ==
  /\ check[c].pc \in {"opening", "relaying"}
  /\ Show(c, "rejected")
  /\ UNCHANGED <<status, serving, net, waiting>>

-----------------------------------------------------------------------------
(* The site's backend: open_session, forward_response, forward, reply.     *)

\* The body is passed on unread; for open it is the site's own.
SiteForwards(m) ==
  /\ m.leg = "to-site"
  /\ net' = (net \ {m}) \cup {Onward(m, "to-service")}
  /\ waiting' = waiting \cup {m}
  /\ UNCHANGED <<status, serving, check, gate>>

\* What the site awaits of which m is the answer.
Forwarded(m) == {w \in waiting : w.check = m.check /\ w.kind = m.kind}

\* Status, type and body pass back untouched.
SiteReturns(m) ==
  /\ m.leg = "from-service" /\ Forwarded(m) # {}
  /\ net' = (net \ {m}) \cup {Onward(m, "from-site")}
  /\ waiting' = waiting \ Forwarded(m)
  /\ UNCHANGED <<status, serving, check, gate>>

\* A mistake: the client waits forever.
FaultyUpstreamFails(w) == FALSE /\ w \in waiting /\ UNCHANGED vars

\* httpx raises: no connection, or no answer within its default timeout.
UpstreamFails(w) ==
  /\ w \in waiting
  /\ net' = net \cup {Answered(w, "from-site", NoId, "500")}
  /\ waiting' = waiting \ {w}
  /\ UNCHANGED <<status, serving, check, gate>>

-----------------------------------------------------------------------------
(* The service.  Problem documents carry their status.                     *)

ServiceAnswers(m, id, says) ==
  net' = (net \ {m}) \cup {Answered(m, "from-service", id, says)}

\* create_session: 201 with a handle, or 503 at the cap.
ServiceOpens(m) ==
  /\ m.leg = "to-service" /\ m.kind = "open"
  /\ \/ \E id \in SessionId : Service!Issue(id) /\ ServiceAnswers(m, id, "201")
     \/ Service!Forget /\ ServiceAnswers(m, NoId, "503")
  /\ UNCHANGED <<serving, waiting, check, gate>>

\* submit_response: the attempt is claimed, or the session is refused.
ServiceTakes(m) ==
  /\ m.leg = "to-service" /\ m.kind = "relay"
  /\ \/ /\ Service!Claim(m.session)
        /\ serving' = serving \cup {m}
        /\ net' = net \ {m}
     \/ /\ Service!FailAtOnce(m.session)
        /\ ServiceAnswers(m, m.session, "failed")
        /\ UNCHANGED serving
     \/ /\ status[m.session] \in {"pending", "verified", "failed"}
        /\ ServiceAnswers(m, m.session, "409")
        /\ UNCHANGED <<status, serving>>
     \/ /\ status[m.session] \in Service!Status \ {"open", "pending"}
        /\ ServiceAnswers(m, m.session, "404")
        /\ UNCHANGED <<status, serving>>
  /\ UNCHANGED <<waiting, check, gate>>

ServiceDecides(m) ==
  /\ m \in serving
  /\ \E verdict \in {"verified", "failed"} :
       /\ Service!Decide(m.session, verdict)
       /\ net' = net \cup {Answered(m, "from-service", m.session, verdict)}
  /\ serving' = serving \ {m}
  /\ UNCHANGED <<waiting, check, gate>>

\* Sessions expire; the process ends, with the calls it was serving.
ServiceChanges ==
  /\ \/ Service!Forget /\ UNCHANGED serving
     \/ Service!Stop /\ serving' = {}
  /\ UNCHANGED <<net, waiting, check, gate>>

Next ==
  \/ \E c \in Check : Start(c) \/ WalletAnswers(c) \/ FetchFails(c)
  \/ \E m \in net :
       \/ PageReceives(m)
       \/ SiteForwards(m) \/ SiteReturns(m)
       \/ ServiceOpens(m) \/ ServiceTakes(m)
  \/ \E w \in waiting : UpstreamFails(w)
  \/ \E m \in serving : ServiceDecides(m)
  \/ ServiceChanges

Spec == Init /\ [][Next]_vars

\* The page and the site take their turns, and httpx does not wait forever.
\* Nothing is asked of the service, the visitor or the wallet.
FairSpec ==
  /\ Spec
  /\ WF_vars(\E m \in net : PageReceives(m))
  /\ WF_vars(\E m \in net : SiteForwards(m))
  /\ WF_vars(\E w \in waiting : UpstreamFails(w))

-----------------------------------------------------------------------------

(***************************************************************************)
(* The gate opens only for a visitor one of whose own checks the service   *)
(* verified, however calls overlap, fail or come back late                 *)
(* (static/index.html:69-84, app.py:65-91 of the site).                    *)
(***************************************************************************)
GateIsEarned ==
  gate = "verified" =>
    \E c \in Check : check[c].pc = "verified" /\ check[c].session \in Service!With("verified")

(***************************************************************************)
(* A visitor is not told that a check failed when the service verified it. *)
(* A verdict is given once and not stored, so one whose answer was lost    *)
(* must show as "no response", which rests on the page never sending a     *)
(* response again: the second would get a 409, with a detail to show       *)
(* (static/dc.js:4-8, static/index.html:76-78, routes.py:237-242).         *)
(***************************************************************************)
FailureIsTrue ==
  \A c \in Check : check[c].pc = "failed" => check[c].session \notin Service!With("verified")

(***************************************************************************)
(* Overlapping checks do not take each other's attempt: each opens its own *)
(* session, and no visitor is told that a session was already attempted    *)
(* (static/dc.js:5-7).                                                     *)
(***************************************************************************)
NeverConflict == \A m \in net : m.says # "409"

(***************************************************************************)
(* A check does not wait on a service that never answers: once it has      *)
(* called the site it ends, or comes to the wallet (app.py:56, 75, 85 of   *)
(* the site).                                                              *)
(***************************************************************************)
CallsEnd == \A c \in Check :
  check[c].pc \in {"opening", "relaying"} ~> check[c].pc \notin {"opening", "relaying"}

=============================================================================
