--------------------------- MODULE ConsumerProofs ---------------------------
(***************************************************************************)
(* What is proved of Consumer for every number of checks and sessions.     *)
(***************************************************************************)
EXTENDS Consumer, TLAPS

Message == [leg : {"to-site", "to-service", "from-service", "from-site"},
            check : Check, kind : Kind, session : SessionId \cup {NoId},
            says : {"nothing"} \cup Answers]

\* Neither claimed nor to be claimed by anyone but its check.
Untouched(id) == id \in SessionId /\ status[id] \in {"open", "gone"}

\* What a message tells: of which call it is, and how its session stands.
Tells(m) ==
  /\ m.leg \in {"to-site", "to-service"} <=> m.says = "nothing"
  /\ m.says \in {"201", "503"} => m.kind = "open"
  /\ m.says \in {"verified", "failed", "404"} => m.kind = "relay"
  /\ m.says # "409"
  /\ m.kind = "open" => check[m.check].pc # "unstarted"
  /\ m.kind = "relay" =>
       /\ check[m.check].pc \in {"relaying"} \cup Shown
       /\ check[m.check].session \in SessionId
       /\ m.says # "500" => m.session = check[m.check].session
  /\ m.says = "201" => Untouched(m.session)
  /\ m.says = "failed" => status[m.session] = "failed"
  /\ m.says = "verified" => status[m.session] = "verified"
  /\ m.says = "404" => status[m.session] = "gone"

MessagesTell ==
  /\ \A m \in net \cup serving \cup waiting : Tells(m)
  /\ \A m \in serving : m.kind = "relay" /\ m.says = "nothing"
  /\ \A m \in waiting : m.says = "nothing"

\* A relay nobody has taken yet.
Relay(m) == m \in net /\ m.kind = "relay" /\ m.says = "nothing"
Opened(m) == m \in net /\ m.says = "201"

ChecksAgree ==
  \A c \in Check :
    /\ check[c].pc \in {"unstarted", "opening"} => check[c].session = NoId
    /\ check[c].pc \in {"wallet", "relaying", "verified", "failed"} =>
         check[c].session \in SessionId
    /\ check[c].session # NoId => status[check[c].session] # "unissued"
    /\ check[c].pc = "wallet" => Untouched(check[c].session)
    /\ check[c].pc = "failed" => status[check[c].session] \in {"failed", "gone"}
    /\ check[c].pc = "verified" => status[check[c].session] = "verified"

\* No two checks have to do with one session, and a check relays once.
OwnSession ==
  /\ \A c, d \in Check : check[c].session # NoId /\ check[c].session = check[d].session => c = d
  /\ \A m \in net : Opened(m) => \A d \in Check : check[d].session # m.session
  /\ \A m, n \in net : Opened(m) /\ Opened(n) /\ m.session = n.session => m = n
  /\ \A m, n \in net : Relay(m) /\ Relay(n) /\ m.check = n.check => m = n
  /\ \A m \in net : Relay(m) => Untouched(m.session)

GateAgrees == gate = "verified" => \E c \in Check : check[c].pc = "verified"

Inv == MessagesTell /\ ChecksAgree /\ OwnSession /\ GateAgrees

-----------------------------------------------------------------------------
(* Types.                                                                  *)

CheckType == [pc : {"unstarted", "opening", "wallet", "relaying"} \cup Shown,
              session : SessionId \cup {NoId}]

LEMMA Types ==
  TypeOK <=> /\ status \in [SessionId -> Service!Status]
             /\ net \subseteq Message /\ serving \subseteq Message /\ waiting \subseteq Message
             /\ check \in [Check -> CheckType]
             /\ gate \in {"idle", "checking"} \cup Shown
<1>1. (\A m \in net \cup serving \cup waiting : m \in Message)
        <=> net \subseteq Message /\ serving \subseteq Message /\ waiting \subseteq Message
  OBVIOUS
<1>2. QED BY <1>1 DEF TypeOK, Service!TypeOK, CheckType, Message

LEMMA OnwardFields ==
  ASSUME NEW m \in Message, NEW leg \in {"to-site", "to-service", "from-service", "from-site"}
  PROVE  LET n == Onward(m, leg)
         IN  /\ n \in Message /\ n.leg = leg /\ n.check = m.check /\ n.kind = m.kind
             /\ n.session = m.session /\ n.says = m.says
BY DEF Onward, Message

LEMMA AnsweredFields ==
  ASSUME NEW m \in Message, NEW leg \in {"to-site", "to-service", "from-service", "from-site"},
         NEW id \in SessionId \cup {NoId}, NEW says \in {"nothing"} \cup Answers
  PROVE  LET n == Answered(m, leg, id, says)
         IN  /\ n \in Message /\ n.leg = leg /\ n.check = m.check /\ n.kind = m.kind
             /\ n.session = id /\ n.says = says
BY DEF Answered, Message

LEMMA AnAnswer ==
  ASSUME NEW m \in Message, NEW id \in SessionId \cup {NoId}, NEW says \in Answers
  PROVE  \E n \in Message :
           /\ n = Answered(m, "from-service", id, says)
           /\ n.leg = "from-service" /\ n.check = m.check /\ n.kind = m.kind
           /\ n.session = id /\ n.says = says
<1>1. says \in {"nothing"} \cup Answers OBVIOUS
<1>2. LET n == Answered(m, "from-service", id, says)
      IN  /\ n \in Message /\ n.leg = "from-service" /\ n.check = m.check /\ n.kind = m.kind
          /\ n.session = id /\ n.says = says
  BY <1>1 DEF Answered, Message
<1>3. QED BY ONLY <1>2, Zenon

LEMMA PostedFields ==
  ASSUME NEW c \in Check, NEW kind \in Kind, NEW id \in SessionId \cup {NoId}
  PROVE  LET n == Posted(c, kind, id)
         IN  /\ n \in Message /\ n.leg = "to-site" /\ n.check = c /\ n.kind = kind
             /\ n.session = id /\ n.says = "nothing"
BY DEF Posted, Call, Message

\* What a step of the service leaves as it is.
Settles ==
  /\ status' \in [SessionId -> Service!Status]
  /\ \A i \in SessionId :
       /\ status[i] \in {"verified", "failed", "gone"} => status'[i] = status[i]
       /\ status[i] # "unissued" => status'[i] # "unissued"

Spares == Settles /\ \A i \in SessionId : Untouched(i) => Untouched(i)'

LEMMA ServiceSpares ==
  ASSUME TypeOK,
         \/ \E id \in SessionId : Service!Issue(id)
         \/ Service!Forget \/ Service!Stop \/ UNCHANGED status
  PROVE  Spares
<1>0. status \in [SessionId -> Service!Status] BY Types
<1> USE DEF Spares, Settles, Untouched, Service!Status
<1>1. ASSUME NEW id \in SessionId, Service!Issue(id)
      PROVE  Spares
  <2>1. PICK ids \in SUBSET Service!With("open") :
          status[id] = "unissued" /\ status' = [Service!Without(ids) EXCEPT ![id] = "open"]
    BY <1>1 DEF Service!Issue
  <2>2. \A i \in ids : i \in SessionId /\ status[i] = "open" BY DEF Service!With
  <2>3. QED BY <1>0, <2>1, <2>2 DEF Service!Without
<1>2. CASE Service!Forget
  <2>1. PICK ids \in SUBSET Service!With("open") : status' = Service!Without(ids)
    BY <1>2 DEF Service!Forget
  <2>2. \A i \in ids : i \in SessionId /\ status[i] = "open" BY DEF Service!With
  <2>3. QED BY <1>0, <2>1, <2>2 DEF Service!Without
<1>3. CASE Service!Stop
  BY <1>0, <1>3 DEF Service!Stop
<1>4. CASE UNCHANGED status
  BY <1>0, <1>4
<1>5. QED BY <1>1, <1>2, <1>3, <1>4

LEMMA ServiceSettles ==
  ASSUME TypeOK, NEW id \in SessionId,
         \/ Service!Claim(id) \/ Service!FailAtOnce(id)
         \/ \E verdict \in {"verified", "failed"} : Service!Decide(id, verdict)
  PROVE  /\ Settles
         /\ \A i \in SessionId \ {id} : status'[i] = status[i]
<1>0. status \in [SessionId -> Service!Status] BY Types
<1>1. QED
  BY <1>0 DEF Settles, Service!Status, Service!Claim, Service!FailAtOnce, Service!Decide

\* A check that moves on, to a session of its own or not.
LEMMA CheckMoves ==
  ASSUME TypeOK, NEW c \in Check, NEW pc,
         check' = [check EXCEPT ![c].pc = pc]
  PROVE  /\ check'[c].pc = pc /\ check'[c].session = check[c].session
         /\ \A d \in Check \ {c} : check'[d] = check[d]
         /\ pc \in {"unstarted", "opening", "wallet", "relaying"} \cup Shown
              => check' \in [Check -> CheckType]
<1> DEFINE new == [check[c] EXCEPT !.pc = pc]
<1>1. check \in [Check -> CheckType] BY Types
<1>2. /\ new.pc = pc /\ new.session = check[c].session
      /\ pc \in {"unstarted", "opening", "wallet", "relaying"} \cup Shown
           => new \in CheckType
  BY <1>1 DEF CheckType
<1>3. check' = [check EXCEPT ![c] = new] OBVIOUS
<1> HIDE DEF new
<1>4. QED BY <1>1, <1>2, <1>3

\* PageReceives, told by what the page reads.
LEMMA PageReads ==
  ASSUME TypeOK, NEW m \in net, PageReceives(m)
  PROVE  /\ m \in Message /\ m.leg = "from-site" /\ Awaits(m.check, m.kind)
         /\ net' = net \ {m} /\ UNCHANGED <<status, serving, waiting>>
         /\ \/ /\ Reads(m) = "wallet" /\ m.says = "201"
               /\ check' = [check EXCEPT ![m.check] = [pc |-> "wallet", session |-> m.session]]
               /\ UNCHANGED gate
            \/ Reads(m) \in Shown /\ Show(m.check, Reads(m))
BY Types DEF PageReceives, Reads, Shown

LEMMA TypeStep ==
  ASSUME TypeOK, [Next]_vars
  PROVE  TypeOK'
<1>1. /\ status \in [SessionId -> Service!Status]
      /\ net \subseteq Message /\ serving \subseteq Message /\ waiting \subseteq Message
      /\ check \in [Check -> CheckType]
      /\ gate \in {"idle", "checking"} \cup Shown
  BY Types
<1>2. SUFFICES /\ status' \in [SessionId -> Service!Status]
               /\ net' \subseteq Message /\ serving' \subseteq Message
               /\ waiting' \subseteq Message
               /\ check' \in [Check -> CheckType]
               /\ gate' \in {"idle", "checking"} \cup Shown
  BY DEF TypeOK, Service!TypeOK, CheckType, Message
<1>3. ASSUME NEW c \in Check, Start(c) \/ WalletAnswers(c) \/ FetchFails(c)
      PROVE  /\ status' = status /\ serving' = serving /\ waiting' = waiting
             /\ net' \subseteq Message /\ check' \in [Check -> CheckType]
             /\ gate' \in {"idle", "checking"} \cup Shown
  <2>1. Posted(c, "open", NoId) \in Message /\ Posted(c, "relay", check[c].session) \in Message
    BY <1>1, PostedFields DEF Kind, CheckType
  <2>2. QED
    BY <1>1, <1>3, <2>1, CheckMoves DEF Start, WalletAnswers, FetchFails, Show, Shown
<1>4. ASSUME NEW m \in net, PageReceives(m)
      PROVE  /\ status' = status /\ serving' = serving /\ waiting' = waiting
             /\ net' \subseteq Message /\ check' \in [Check -> CheckType]
             /\ gate' \in {"idle", "checking"} \cup Shown
  <2>1. m.check \in Check /\ m.session \in SessionId \cup {NoId} BY <1>1 DEF Message
  <2>2. [pc |-> "wallet", session |-> m.session] \in CheckType BY <2>1 DEF CheckType
  <2>3. /\ net' = net \ {m} /\ UNCHANGED <<status, serving, waiting>>
        /\ \/ /\ check' = [check EXCEPT ![m.check] = [pc |-> "wallet", session |-> m.session]]
              /\ UNCHANGED gate
           \/ Reads(m) \in Shown /\ Show(m.check, Reads(m))
    BY <1>4, PageReads
  <2>4. CASE /\ check' = [check EXCEPT ![m.check] = [pc |-> "wallet", session |-> m.session]]
             /\ UNCHANGED gate
    BY <1>1, <2>1, <2>2, <2>3, <2>4
  <2>5. CASE Reads(m) \in Shown /\ Show(m.check, Reads(m))
    <3>1. check' \in [Check -> CheckType] BY <2>1, <2>5, CheckMoves DEF Show
    <3>2. QED BY <1>1, <2>3, <2>5, <3>1 DEF Show
  <2>6. QED BY <2>3, <2>4, <2>5
<1>5. ASSUME NEW m \in net, SiteForwards(m) \/ SiteReturns(m)
      PROVE  /\ status' = status /\ serving' = serving /\ waiting' \subseteq Message
             /\ net' \subseteq Message /\ check' = check /\ gate' = gate
  <2>1. Onward(m, "to-service") \in Message /\ Onward(m, "from-site") \in Message
    BY <1>1, OnwardFields
  <2>2. QED BY <1>1, <1>5, <2>1 DEF SiteForwards, SiteReturns
<1>6. ASSUME NEW w \in waiting, UpstreamFails(w)
      PROVE  /\ status' = status /\ serving' = serving /\ waiting' \subseteq Message
             /\ net' \subseteq Message /\ check' = check /\ gate' = gate
  <2>1. Answered(w, "from-site", NoId, "500") \in Message
    BY <1>1, AnsweredFields DEF Answers
  <2>2. QED BY <1>1, <1>6, <2>1 DEF UpstreamFails
<1>7. ASSUME NEW m \in net, ServiceOpens(m) \/ ServiceTakes(m)
      PROVE  /\ status' \in [SessionId -> Service!Status]
             /\ waiting' = waiting /\ check' = check /\ gate' = gate
             /\ net' \subseteq Message /\ serving' \subseteq Message
  <2>1. \A id \in SessionId \cup {NoId} : \A says \in Answers :
          Answered(m, "from-service", id, says) \in Message
    BY <1>1, AnsweredFields
  <2>2. m \in Message /\ m.session \in SessionId \cup {NoId} BY <1>1 DEF Message
  <2>3. CASE ServiceOpens(m)
    BY <1>1, <2>1, <2>3, ServiceSpares DEF ServiceOpens, ServiceAnswers, Answers, Spares, Settles
  <2>4. CASE ServiceTakes(m)
    <3>1. status' \in [SessionId -> Service!Status]
      BY <1>1, <2>4 DEF ServiceTakes, Service!Claim, Service!FailAtOnce, Service!Status
    <3>2. QED BY <1>1, <2>1, <2>2, <2>4, <3>1 DEF ServiceTakes, ServiceAnswers, Answers
  <2>5. QED BY <1>7, <2>3, <2>4
<1>8. ASSUME NEW m \in serving, ServiceDecides(m)
      PROVE  /\ status' \in [SessionId -> Service!Status]
             /\ waiting' = waiting /\ check' = check /\ gate' = gate
             /\ net' \subseteq Message /\ serving' \subseteq Message
  <2>1. m \in Message /\ m.session \in SessionId \cup {NoId} BY <1>1 DEF Message
  <2>2. \A says \in Answers : Answered(m, "from-service", m.session, says) \in Message
    BY <2>1, AnsweredFields
  <2>3. QED
    BY <1>1, <1>8, <2>2 DEF ServiceDecides, Service!Decide, Service!Status, Answers
<1>9. ASSUME ServiceChanges
      PROVE  /\ status' \in [SessionId -> Service!Status]
             /\ net' = net /\ waiting' = waiting /\ check' = check /\ gate' = gate
             /\ serving' \subseteq Message
  BY <1>1, <1>9, ServiceSpares DEF ServiceChanges, Spares, Settles
<1>10. CASE UNCHANGED vars BY <1>1, <1>10 DEF vars
<1>11. QED
  BY <1>1, <1>3, <1>4, <1>5, <1>6, <1>7, <1>8, <1>9, <1>10 DEF Next

LEMMA TypeInit == Init => TypeOK
BY Types DEF Init, Service!Init, Service!Status, CheckType

(***************************************************************************)
(* The status, the calls, the checks and the gate keep their types.        *)
(***************************************************************************)
THEOREM TypeCorrect == Spec => []TypeOK
<1>1. TypeOK /\ [Next]_vars => TypeOK'
  BY TypeStep
<1>2. QED
  BY <1>1, TypeInit, PTL DEF Spec

-----------------------------------------------------------------------------
(* The invariant.                                                          *)

LEMMA InvInit == Init => Inv
BY DEF Init, Inv, MessagesTell, ChecksAgree, OwnSession, GateAgrees

\* Only the service's status changes, and it spares what is untouched.
LEMMA SparedTells ==
  ASSUME TypeOK, Inv, Spares, UNCHANGED check, NEW m \in Message, Tells(m)
  PROVE  Tells(m)'
<1>1. m.session \in SessionId \cup {NoId} BY DEF Message
<1>2. m.kind = "relay" /\ m.says # "500" => m.session \in SessionId
  BY DEF Tells
<1>3. m.says \in {"verified", "failed", "404"} => m.session \in SessionId
  BY <1>2 DEF Tells
<1>4. QED BY <1>1, <1>3 DEF Tells, Spares, Settles, Untouched

LEMMA SparedChecks ==
  ASSUME TypeOK, Inv, Spares, UNCHANGED check
  PROVE  ChecksAgree'
<1>1. \A c \in Check : check[c].session \in SessionId \cup {NoId}
  BY Types DEF CheckType
<1>2. QED BY <1>1 DEF Inv, ChecksAgree, Spares, Settles, Untouched

LEMMA ServiceChangesStep ==
  ASSUME TypeOK, Inv, ServiceChanges
  PROVE  Inv'
<1>1. Spares /\ UNCHANGED <<net, waiting, check, gate>> /\ serving' \subseteq serving
  BY ServiceSpares DEF ServiceChanges
<1>2. net \subseteq Message /\ serving \subseteq Message /\ waiting \subseteq Message
  BY Types
<1>3. MessagesTell'
  BY <1>1, <1>2, SparedTells DEF Inv, MessagesTell
<1>4. ChecksAgree' BY <1>1, SparedChecks
<1>5. OwnSession'
  <2>1. \A m \in net : Relay(m) => Untouched(m.session)'
    BY <1>1 DEF Inv, OwnSession, Spares, Untouched
  <2>2. QED BY <1>1, <2>1 DEF Inv, OwnSession, Relay, Opened
<1>6. GateAgrees' BY <1>1 DEF Inv, GateAgrees
<1>7. QED BY <1>3, <1>4, <1>5, <1>6 DEF Inv

LEMMA StartStep ==
  ASSUME TypeOK, Inv, NEW c \in Check, Start(c)
  PROVE  Inv'
<1> DEFINE n == Posted(c, "open", NoId)
<1>1. /\ n.check = c /\ n.kind = "open" /\ n.says = "nothing" /\ n.leg = "to-site"
  BY PostedFields DEF Kind
<1>2. net' = net \cup {n} /\ UNCHANGED <<status, serving, waiting>> /\ gate' = "checking"
      /\ check[c].pc = "unstarted"
  BY DEF Start
<1>3. /\ check'[c].pc = "opening" /\ check'[c].session = check[c].session
      /\ \A d \in Check \ {c} : check'[d] = check[d]
  BY CheckMoves DEF Start
<1> HIDE DEF n
<1>4. \A m \in net \cup serving \cup waiting : m.check \in Check /\ m.check # c
  BY <1>2, Types DEF Inv, MessagesTell, Tells, Message, Kind, Shown
<1>5. MessagesTell'
  <2>1. \A m \in net \cup serving \cup waiting : Tells(m)'
    BY <1>2, <1>3, <1>4 DEF Inv, MessagesTell, Tells, Untouched
  <2>2. Tells(n)' BY <1>1, <1>3 DEF Tells
  <2>3. QED BY <1>2, <2>1, <2>2 DEF Inv, MessagesTell
<1>6. ChecksAgree'
  BY <1>2, <1>3 DEF Inv, ChecksAgree, Untouched
<1>7. OwnSession'
  <2>1. \A d \in Check : check'[d].session = check[d].session BY <1>3
  <2>2. QED BY <1>1, <1>2, <2>1 DEF Inv, OwnSession, Relay, Opened, Untouched
<1>8. GateAgrees' BY <1>2 DEF GateAgrees
<1>9. QED BY <1>5, <1>6, <1>7, <1>8 DEF Inv

\* A check that is over, one way or another: nothing was sent.
LEMMA EndStep ==
  ASSUME TypeOK, Inv, NEW c \in Check, NEW what \in Shown,
         Show(c, what), net' \subseteq net, UNCHANGED <<status, serving, waiting>>,
         check[c].pc \in {"opening", "wallet", "relaying"},
         what = "verified" =>
           check[c].session \in SessionId /\ status[check[c].session] = "verified",
         what = "failed" =>
           /\ check[c].session \in SessionId
           /\ status[check[c].session] \in {"failed", "gone"}
  PROVE  Inv'
<1>1. /\ check'[c].pc = what /\ check'[c].session = check[c].session
      /\ \A d \in Check \ {c} : check'[d] = check[d]
      /\ gate' = what
  BY CheckMoves DEF Show
<1>2. \A m \in net \cup serving \cup waiting : m.check \in Check
  BY Types DEF Message
<1>3. \A d \in Check : check'[d].session = check[d].session BY <1>1
<1>4. MessagesTell'
  <2>1. \A m \in net \cup serving \cup waiting : Tells(m)'
    BY <1>1, <1>2, <1>3 DEF Inv, MessagesTell, Tells, Untouched, Shown
  <2>2. QED BY <2>1 DEF Inv, MessagesTell
<1>5. ChecksAgree'
  BY <1>1, <1>3 DEF Inv, ChecksAgree, Untouched, Shown
<1>6. OwnSession'
  BY <1>3 DEF Inv, OwnSession, Relay, Opened, Untouched
<1>7. GateAgrees'
  BY <1>1 DEF GateAgrees
<1>8. QED BY <1>4, <1>5, <1>6, <1>7 DEF Inv

LEMMA WalletStep ==
  ASSUME TypeOK, Inv, NEW c \in Check, WalletAnswers(c)
  PROVE  Inv'
<1>1. check[c].pc = "wallet" /\ UNCHANGED <<status, serving, waiting>>
      /\ Untouched(check[c].session)
  BY DEF WalletAnswers, Inv, ChecksAgree
<1>2. CASE Show(c, "rejected") /\ UNCHANGED net
  BY <1>1, <1>2, EndStep DEF Shown
<1>3. CASE /\ check' = [check EXCEPT ![c].pc = "relaying"]
           /\ net' = net \cup {Posted(c, "relay", check[c].session)}
           /\ UNCHANGED gate
  <2>1. PICK n \in Message :
          /\ n = Posted(c, "relay", check[c].session)
          /\ n.check = c /\ n.kind = "relay" /\ n.says = "nothing" /\ n.leg = "to-site"
          /\ n.session = check[c].session
    BY <1>1, PostedFields DEF Kind, Untouched
  <2>2. net' = net \cup {n} BY <1>3, <2>1
  <2>3. /\ check'[c].pc = "relaying" /\ check'[c].session = check[c].session
        /\ \A d \in Check \ {c} : check'[d] = check[d]
    BY <1>3, CheckMoves
  <2>4. \A m \in net \cup serving \cup waiting :
          m.check \in Check /\ (m.kind = "relay" => m.check # c)
    BY <1>1, Types DEF Inv, MessagesTell, Tells, Message, Shown
  <2>5. \A d \in Check : check'[d].session = check[d].session BY <2>3
  <2>6. MessagesTell'
    <3>1. \A m \in net \cup serving \cup waiting : Tells(m)'
      <4>1. ASSUME NEW m \in net \cup serving \cup waiting
            PROVE  Tells(m)'
        <5>1. Tells(m) /\ m.check \in Check BY <2>4 DEF Inv, MessagesTell
        <5>2. check'[m.check].session = check[m.check].session BY <2>5, <5>1
        <5>3. m.kind = "relay" => check'[m.check] = check[m.check] BY <2>3, <2>4
        <5>4. check'[m.check].pc # "unstarted" \/ check'[m.check] = check[m.check]
          BY <2>3, <5>1
        <5>5. QED BY <1>1, <5>1, <5>2, <5>3, <5>4 DEF Tells, Untouched
      <4>2. QED BY <4>1
    <3>2. Tells(n)' BY <1>1, <2>1, <2>3 DEF Tells, Untouched
    <3>3. QED BY <1>1, <2>2, <3>1, <3>2 DEF Inv, MessagesTell
  <2>7. ChecksAgree'
    BY <1>1, <2>3, <2>5 DEF Inv, ChecksAgree, Untouched
  <2>8. OwnSession'
    <3>1. \A m \in net : Relay(m) => m.check # c BY <2>4 DEF Relay
    <3>2. \A m, k \in net' : Relay(m)' /\ Relay(k)' /\ m.check = k.check => m = k
      BY <2>1, <2>2, <3>1 DEF Inv, OwnSession, Relay
    <3>3. \A m \in net' : Relay(m)' => Untouched(m.session)'
      BY <1>1, <2>1, <2>2 DEF Inv, OwnSession, Relay, Untouched
    <3>4. \A m \in net' : Opened(m)' => Opened(m) BY <2>1, <2>2 DEF Opened
    <3>5. QED BY <2>2, <2>5, <3>2, <3>3, <3>4 DEF Inv, OwnSession, Opened
  <2>9. GateAgrees'
    BY <1>1, <1>3, <2>3 DEF Inv, GateAgrees
  <2>10. QED BY <2>6, <2>7, <2>8, <2>9 DEF Inv
<1>4. QED BY <1>2, <1>3 DEF WalletAnswers

LEMMA FetchFailsStep ==
  ASSUME TypeOK, Inv, NEW c \in Check, FetchFails(c)
  PROVE  Inv'
BY EndStep DEF FetchFails, Shown

\* Only a 201 leads to the wallet, and only a verdict to "verified".
LEMMA PageReceivesStep ==
  ASSUME TypeOK, Inv, NEW m \in net, PageReceives(m)
  PROVE  Inv'
<1>1. /\ m \in Message /\ Awaits(m.check, m.kind)
      /\ net' = net \ {m} /\ UNCHANGED <<status, serving, waiting>>
      /\ \/ /\ Reads(m) = "wallet" /\ m.says = "201"
            /\ check' = [check EXCEPT ![m.check] = [pc |-> "wallet", session |-> m.session]]
            /\ UNCHANGED gate
         \/ Reads(m) \in Shown /\ Show(m.check, Reads(m))
  BY PageReads
<1>2. m.check \in Check /\ Tells(m) BY <1>1 DEF Message, Inv, MessagesTell
<1>3. ASSUME Reads(m) \in Shown, Show(m.check, Reads(m))
      PROVE  Inv'
  <2>1. Reads(m) = "verified" => m.says = "verified" BY DEF Reads
  <2>2. Reads(m) = "failed" => m.says \in {"failed", "404"}
    BY <1>2 DEF Reads, Tells
  <2>3. m.says \in {"verified", "failed", "404"} =>
          m.session = check[m.check].session /\ m.session \in SessionId
    BY <1>2 DEF Tells
  <2>4. check[m.check].pc \in {"opening", "relaying"} BY <1>1 DEF Awaits
  <2>5. /\ Reads(m) = "verified" => status[check[m.check].session] = "verified"
        /\ Reads(m) = "failed" => status[check[m.check].session] \in {"failed", "gone"}
    BY <1>2, <2>1, <2>2, <2>3 DEF Tells
  <2>6. QED BY <1>1, <1>2, <1>3, <2>1, <2>2, <2>3, <2>4, <2>5, EndStep
<1>4. ASSUME m.says = "201", UNCHANGED gate,
             check' = [check EXCEPT ![m.check] = [pc |-> "wallet", session |-> m.session]]
      PROVE  Inv'
  <2> DEFINE c == m.check
             id == m.session
  <2>1. check[c].pc = "opening" /\ Untouched(id)
    BY <1>1, <1>2, <1>4 DEF Awaits, Tells
  <2>2. /\ check'[c].pc = "wallet" /\ check'[c].session = id
        /\ \A d \in Check \ {c} : check'[d] = check[d]
    BY <1>2, <1>4, Types
  <2>3. \A k \in net \cup serving \cup waiting :
          k.check \in Check /\ (k.kind = "relay" => k.check # c)
    BY <2>1, Types DEF Inv, MessagesTell, Tells, Message, Shown
  <2>4. Opened(m) BY <1>4 DEF Opened
  <2>5. \A d \in Check : check[d].session # id
    BY <2>4 DEF Inv, OwnSession
  <2>6. \A k \in net \ {m} : Opened(k) => k.session # id
    BY <2>4 DEF Inv, OwnSession
  <2>7. c \in Check /\ id \in SessionId BY <1>2, <2>1 DEF Untouched
  <2> HIDE DEF c, id
  <2>8. MessagesTell'
    <3>1. ASSUME NEW k \in net \cup serving \cup waiting
          PROVE  Tells(k)'
      <4>1. Tells(k) /\ k.check \in Check BY <2>3 DEF Inv, MessagesTell
      <4>2. k.kind = "relay" => check'[k.check] = check[k.check] BY <2>2, <2>3
      <4>3. check'[k.check].pc # "unstarted" \/ check'[k.check] = check[k.check]
        BY <2>2, <4>1
      <4>4. QED BY <1>1, <4>1, <4>2, <4>3 DEF Tells, Untouched
    <3>2. QED BY <1>1, <3>1 DEF Inv, MessagesTell
  <2>9. ChecksAgree'
    <3>1. status[id] # "unissued" BY <2>1 DEF Untouched, id
    <3>2. QED BY <1>1, <2>1, <2>2, <3>1 DEF Inv, ChecksAgree, Untouched, id
  <2>10. OwnSession'
    <3>1. \A d, e \in Check : check'[d].session # NoId /\ check'[d].session = check'[e].session
            => d = e
      BY <2>2, <2>5, <2>7 DEF Inv, OwnSession
    <3>2. \A k \in net' : Opened(k)' => \A d \in Check : check'[d].session # k.session
      BY <1>1, <2>2, <2>6, <2>7 DEF Inv, OwnSession, Opened
    <3>3. QED BY <1>1, <3>1, <3>2 DEF Inv, OwnSession, Opened, Relay, Untouched
  <2>11. GateAgrees'
    BY <1>4, <2>1, <2>2 DEF Inv, GateAgrees
  <2>12. QED BY <2>8, <2>9, <2>10, <2>11 DEF Inv
<1>5. QED BY <1>1, <1>3, <1>4

\* A call moves between legs, or gets an answer that says nothing of a session.
LEMMA LegStep ==
  ASSUME TypeOK, Inv, UNCHANGED <<status, serving, check, gate>>,
         NEW old \in net \cup waiting, NEW new \in Message,
         new.check = old.check, new.kind = old.kind, Tells(new),
         \/ /\ old \in net /\ net' = (net \ {old}) \cup {new}
            /\ new.session = old.session /\ new.says = old.says
         \/ net' = net \cup {new} /\ new.says = "500",
         \A w \in waiting' : w \in waiting \/ (w \in net /\ w.says = "nothing")
  PROVE  Inv'
<1>1. MessagesTell'
  <2>1. \A m \in net' \cup serving' \cup waiting' : Tells(m)
    BY DEF Inv, MessagesTell
  <2>2. \A m \in net' \cup serving' \cup waiting' : Tells(m)'
    BY <2>1 DEF Tells, Untouched
  <2>3. QED BY <2>2 DEF Inv, MessagesTell
<1>2. ChecksAgree' BY DEF Inv, ChecksAgree, Untouched
<1>3. GateAgrees' BY DEF Inv, GateAgrees
<1>4. OwnSession'
  <2>1. CASE new.says = "500"
    <3>1. \A m \in net' : (Relay(m)' => Relay(m)) /\ (Opened(m)' => Opened(m))
      BY <2>1 DEF Relay, Opened, Inv, OwnSession
    <3>2. QED BY <3>1 DEF Inv, OwnSession, Untouched, Relay, Opened
  <2>2. CASE /\ old \in net /\ net' = (net \ {old}) \cup {new}
             /\ new.session = old.session /\ new.says = old.says
    <3>1. \A m \in net' : m # new => m \in net /\ m # old BY <2>2
    <3>2. /\ Relay(new)' => Relay(old)
          /\ Opened(new)' => Opened(old)
      BY <2>2 DEF Relay, Opened
    <3>3. \A m \in net' : Relay(m)' => Untouched(m.session)'
      BY <2>2, <3>1, <3>2 DEF Inv, OwnSession, Relay, Untouched
    <3>4. \A m \in net' : Opened(m)' => \A d \in Check : check'[d].session # m.session
      BY <2>2, <3>1, <3>2 DEF Inv, OwnSession, Opened
    <3>5. \A m, n \in net' : Opened(m)' /\ Opened(n)' /\ m.session = n.session => m = n
      BY <2>2, <3>1, <3>2 DEF Inv, OwnSession, Opened
    <3>6. \A m, n \in net' : Relay(m)' /\ Relay(n)' /\ m.check = n.check => m = n
      BY <2>2, <3>1, <3>2 DEF Inv, OwnSession, Relay
    <3>7. QED BY <3>3, <3>4, <3>5, <3>6 DEF Inv, OwnSession
  <2>3. QED BY <2>1, <2>2
<1>5. QED BY <1>1, <1>2, <1>3, <1>4 DEF Inv

LEMMA SiteForwardsStep ==
  ASSUME TypeOK, Inv, NEW m \in net, SiteForwards(m)
  PROVE  Inv'
<1> DEFINE n == Onward(m, "to-service")
<1>1. m \in Message /\ Tells(m) /\ m.says = "nothing"
  BY Types DEF Inv, MessagesTell, SiteForwards, Tells
<1>2. /\ n \in Message /\ n.leg = "to-service" /\ n.check = m.check /\ n.kind = m.kind
      /\ n.session = m.session /\ n.says = m.says
  BY <1>1, OnwardFields
<1>3. /\ net' = (net \ {m}) \cup {n} /\ waiting' = waiting \cup {m}
      /\ UNCHANGED <<status, serving, check, gate>>
  BY DEF SiteForwards
<1> HIDE DEF n
<1>4. Tells(n) BY <1>1, <1>2 DEF Tells
<1>5. QED BY <1>1, <1>2, <1>3, <1>4, LegStep

LEMMA SiteReturnsStep ==
  ASSUME TypeOK, Inv, NEW m \in net, SiteReturns(m)
  PROVE  Inv'
<1> DEFINE n == Onward(m, "from-site")
<1>1. m \in Message /\ Tells(m) /\ m.says # "nothing"
  BY Types DEF Inv, MessagesTell, SiteReturns, Tells
<1>2. /\ n \in Message /\ n.leg = "from-site" /\ n.check = m.check /\ n.kind = m.kind
      /\ n.session = m.session /\ n.says = m.says
  BY <1>1, OnwardFields
<1>3. /\ net' = (net \ {m}) \cup {n} /\ waiting' \subseteq waiting
      /\ UNCHANGED <<status, serving, check, gate>>
  BY DEF SiteReturns
<1> HIDE DEF n
<1>4. Tells(n) BY <1>1, <1>2 DEF Tells
<1>5. QED BY <1>1, <1>2, <1>3, <1>4, LegStep

LEMMA UpstreamFailsStep ==
  ASSUME TypeOK, Inv, NEW w \in waiting, UpstreamFails(w)
  PROVE  Inv'
<1> DEFINE n == Answered(w, "from-site", NoId, "500")
<1>1. w \in Message /\ Tells(w)
  BY Types DEF Inv, MessagesTell
<1>2. /\ n \in Message /\ n.leg = "from-site" /\ n.check = w.check /\ n.kind = w.kind
      /\ n.session = NoId /\ n.says = "500"
  BY <1>1, AnsweredFields DEF Answers
<1>3. /\ net' = net \cup {n} /\ waiting' \subseteq waiting
      /\ UNCHANGED <<status, serving, check, gate>>
  BY DEF UpstreamFails
<1> HIDE DEF n
<1>4. Tells(n) BY <1>1, <1>2 DEF Tells
<1>5. QED BY <1>1, <1>2, <1>3, <1>4, LegStep

LEMMA ServiceOpensStep ==
  ASSUME TypeOK, Inv, NEW m \in net, ServiceOpens(m)
  PROVE  Inv'
<1>1. m \in Message /\ Tells(m) /\ m.kind = "open" /\ check[m.check].pc # "unstarted"
  BY Types DEF Inv, MessagesTell, ServiceOpens, Tells
<1>2. Spares /\ UNCHANGED <<serving, waiting, check, gate>>
  BY ServiceSpares DEF ServiceOpens
<1>3. net \subseteq Message /\ serving \subseteq Message /\ waiting \subseteq Message
      /\ status \in [SessionId -> Service!Status]
  BY Types
<1>4. \A k \in net \cup serving \cup waiting : Tells(k)'
  BY <1>2, <1>3, SparedTells DEF Inv, MessagesTell
<1>5. ChecksAgree' BY <1>2, SparedChecks
<1>6. GateAgrees' BY <1>2 DEF Inv, GateAgrees
<1>7. \A k \in net : Relay(k) => Untouched(k.session)'
  BY <1>2 DEF Inv, OwnSession, Spares, Untouched
<1>8. ASSUME NEW id \in SessionId, Service!Issue(id), ServiceAnswers(m, id, "201")
      PROVE  Inv'
  <2>0. PICK says \in Answers : says = "201" BY DEF Answers
  <2>1. PICK n \in Message :
          /\ n = Answered(m, "from-service", id, says)
          /\ n.leg = "from-service" /\ n.check = m.check /\ n.kind = m.kind
          /\ n.session = id /\ n.says = says
    <3>1. says \in Answers OBVIOUS
    <3>2. m \in Message /\ id \in SessionId \cup {NoId} BY <1>1
    <3>3. QED BY ONLY <3>1, <3>2, AnAnswer, Zenon
  <2>2. net' = (net \ {m}) \cup {n} BY <1>8, <2>0, <2>1 DEF ServiceAnswers
  <2>3. status[id] = "unissued" /\ status'[id] = "open"
    BY <1>3, <1>8 DEF Service!Issue, Service!Without
  <2>4. Tells(n)' BY <1>1, <1>2, <2>0, <2>1, <2>3 DEF Tells, Untouched
  <2>5. MessagesTell' BY <1>2, <1>4, <2>0, <2>1, <2>2, <2>4 DEF Inv, MessagesTell
  <2>6. \A k \in net : Opened(k) => k.session # id
    BY <2>3 DEF Inv, MessagesTell, Tells, Opened, Untouched
  <2>7. \A d \in Check : check[d].session # id
    <3>1. id # NoId BY ConsumerAssumption
    <3>2. QED BY <2>3, <3>1 DEF Inv, ChecksAgree
  <2>8. OwnSession'
    <3>1. \A k \in net' : k # n => k \in net BY <2>2
    <3>2. ~Relay(n)' BY <2>0, <2>1 DEF Relay
    <3>3. \A k \in net' : Relay(k)' => Relay(k) BY <3>1, <3>2 DEF Relay
    <3>4. \A k \in net' : Opened(k)' => k = n \/ Opened(k) BY <3>1 DEF Opened
    <3>5. \A k \in net' : Opened(k)' => \A d \in Check : check'[d].session # k.session
      BY <1>2, <2>1, <2>7, <3>1, <3>4 DEF Inv, OwnSession
    <3>6. \A k, j \in net' : Opened(k)' /\ Opened(j)' /\ k.session = j.session => k = j
      BY <2>0, <2>1, <2>6, <3>1, <3>4 DEF Inv, OwnSession
    <3>7. \A k, j \in net' : Relay(k)' /\ Relay(j)' /\ k.check = j.check => k = j
      BY <3>1, <3>2, <3>3 DEF Inv, OwnSession
    <3>8. \A k \in net' : Relay(k)' => Untouched(k.session)'
      BY <1>7, <3>1, <3>2, <3>3
    <3>9. QED BY <1>2, <3>5, <3>6, <3>7, <3>8 DEF Inv, OwnSession
  <2>9. QED BY <1>5, <1>6, <2>5, <2>8 DEF Inv
<1>9. ASSUME ServiceAnswers(m, NoId, "503")
      PROVE  Inv'
  <2>0. PICK says \in Answers : says = "503" BY DEF Answers
  <2>1. PICK n \in Message :
          /\ n = Answered(m, "from-service", NoId, says)
          /\ n.leg = "from-service" /\ n.check = m.check /\ n.kind = m.kind
          /\ n.session = NoId /\ n.says = says
    <3>1. says \in Answers OBVIOUS
    <3>2. m \in Message /\ NoId \in SessionId \cup {NoId} BY <1>1
    <3>3. QED BY ONLY <3>1, <3>2, AnAnswer, Zenon
  <2>2. net' = (net \ {m}) \cup {n} BY <1>9, <2>0, <2>1 DEF ServiceAnswers
  <2>3. Tells(n)' BY <1>1, <1>2, <2>0, <2>1 DEF Tells
  <2>4. MessagesTell' BY <1>2, <1>4, <2>0, <2>1, <2>2, <2>3 DEF Inv, MessagesTell
  <2>5. \A k \in net' : (Relay(k)' => Relay(k)) /\ (Opened(k)' => Opened(k))
    BY <2>0, <2>1, <2>2 DEF Relay, Opened
  <2>6. OwnSession' BY <1>2, <1>7, <2>5 DEF Inv, OwnSession, Relay, Opened
  <2>7. QED BY <1>5, <1>6, <2>4, <2>6 DEF Inv
<1>10. QED BY <1>8, <1>9 DEF ServiceOpens

\* The service settles a session that no check is at the wallet with.
LEMMA SettledHolds ==
  ASSUME TypeOK, Inv, NEW id \in SessionId, status[id] \in {"open", "pending"},
         Settles, \A i \in SessionId \ {id} : status'[i] = status[i],
         UNCHANGED <<check, gate>>,
         \A d \in Check : check[d].pc = "wallet" => check[d].session # id
  PROVE  /\ ChecksAgree' /\ GateAgrees'
         /\ \A k \in Message : Tells(k) /\ (k.says = "201" => k.session # id) => Tells(k)'
<1>1. \A c \in Check : check[c].session \in SessionId \cup {NoId}
  BY Types DEF CheckType
<1>2. ChecksAgree' BY <1>1 DEF Inv, ChecksAgree, Settles, Untouched
<1>3. GateAgrees' BY DEF Inv, GateAgrees
<1>4. ASSUME NEW k \in Message, Tells(k), k.says = "201" => k.session # id
      PROVE  Tells(k)'
  <2>1. k.says \in {"verified", "failed", "404"} => k.session \in SessionId
    BY <1>4 DEF Tells
  <2>2. QED BY <1>4, <2>1 DEF Tells, Untouched, Settles
<1>5. QED BY <1>2, <1>3, <1>4

LEMMA SettledOwn ==
  ASSUME Inv, UNCHANGED check, NEW m,
         \A k \in net : Relay(k) /\ k # m => Untouched(k.session)',
         NEW n, ~Relay(n), n.says # "201", n.says # "nothing",
         net' \subseteq (net \ {m}) \cup {n}
  PROVE  OwnSession'
<1>1. \A k \in net' : (Relay(k)' => Relay(k) /\ k # m) /\ (Opened(k)' => Opened(k))
  BY DEF Relay, Opened
<1>2. QED BY <1>1 DEF Inv, OwnSession, Relay, Opened

\* Nobody but its own check knows the session of a relay, which only goes once.
LEMMA ServiceTakesStep ==
  ASSUME TypeOK, Inv, NEW m \in net, ServiceTakes(m)
  PROVE  Inv'
<1> DEFINE id == m.session
<1>1. /\ m \in Message /\ Tells(m) /\ m.kind = "relay" /\ m.says = "nothing"
      /\ UNCHANGED <<waiting, check, gate>>
  BY Types DEF Inv, MessagesTell, ServiceTakes, Tells
<1>2. Relay(m) /\ Untouched(id) /\ id \in SessionId
  BY <1>1 DEF Relay, Inv, OwnSession, Untouched
<1>3. m.check \in Check /\ check[m.check].session = id
      /\ check[m.check].pc \in {"relaying"} \cup Shown
  BY <1>1 DEF Tells, Message
<1>4. id # NoId BY <1>2, ConsumerAssumption
<1>5. net \subseteq Message /\ serving \subseteq Message /\ waiting \subseteq Message
      /\ status \in [SessionId -> Service!Status]
  BY Types
<1>6. \A d \in Check : check[d].session = id => d = m.check
  BY <1>3, <1>4 DEF Inv, OwnSession
<1>7. \A d \in Check : check[d].pc = "wallet" => check[d].session # id
  BY <1>3, <1>6 DEF Shown
<1>8. \A k \in net \cup serving \cup waiting : k.says = "201" => k.session # id
  BY <1>3 DEF Inv, MessagesTell, OwnSession, Opened
<1>9. \A k \in net : Relay(k) /\ k # m => k.session \in SessionId /\ k.session # id
  <2>1. ASSUME NEW k \in net, Relay(k), k # m, k.session = id
        PROVE  FALSE
    <3>1. k.check \in Check /\ check[k.check].session = id
      BY <1>5, <2>1 DEF Inv, MessagesTell, Tells, Relay, Message
    <3>2. QED BY <1>2, <1>6, <2>1, <3>1 DEF Inv, OwnSession
  <2>2. QED BY <2>1 DEF Inv, OwnSession, Untouched
<1> HIDE DEF id
<1>10. ASSUME NEW says \in {"failed", "404"}, ServiceAnswers(m, id, says), UNCHANGED serving,
              Settles, \A i \in SessionId \ {id} : status'[i] = status[i],
              \A k \in net \cup serving \cup waiting : Tells(k)',
              ChecksAgree', GateAgrees',
              status'[id] = IF says = "failed" THEN "failed" ELSE "gone"
       PROVE  Inv'
  <2>1. PICK n \in Message :
          /\ n = Answered(m, "from-service", id, says)
          /\ n.leg = "from-service" /\ n.check = m.check /\ n.kind = m.kind
          /\ n.session = id /\ n.says = says
    <3>1. says \in Answers BY <1>10 DEF Answers
    <3>2. m \in Message /\ id \in SessionId \cup {NoId} BY <1>1, <1>2
    <3>3. QED BY ONLY <3>1, <3>2, AnAnswer, Zenon
  <2>2. net' = (net \ {m}) \cup {n} BY <1>10, <2>1 DEF ServiceAnswers
  <2>3. Tells(n)' BY <1>1, <1>2, <1>3, <1>10, <2>1 DEF Tells
  <2>4. MessagesTell' BY <1>1, <1>10, <2>1, <2>2, <2>3 DEF Inv, MessagesTell
  <2>5. \A k \in net : Relay(k) /\ k # m => Untouched(k.session)'
    BY <1>9, <1>10 DEF Inv, OwnSession, Untouched
  <2>6. ~Relay(n) /\ n.says # "201" /\ n.says # "nothing" BY <1>10, <2>1 DEF Relay
  <2>7. OwnSession' BY <1>1, <2>2, <2>5, <2>6, SettledOwn
  <2>8. QED BY <1>10, <2>4, <2>7 DEF Inv
<1>11. CASE Service!Claim(id) /\ serving' = serving \cup {m} /\ net' = net \ {m}
  <2>1. Settles /\ \A i \in SessionId \ {id} : status'[i] = status[i]
    BY <1>2, <1>11, ServiceSettles
  <2>2. status[id] = "open" BY <1>11 DEF Service!Claim
  <2>3. /\ ChecksAgree' /\ GateAgrees'
        /\ \A k \in Message : Tells(k) /\ (k.says = "201" => k.session # id) => Tells(k)'
    BY <1>1, <1>2, <1>7, <2>1, <2>2, SettledHolds
  <2>4. MessagesTell'
    BY <1>1, <1>5, <1>8, <1>11, <2>3 DEF Inv, MessagesTell
  <2>5. OwnSession'
    <3>1. \A k \in net' : Relay(k)' => Relay(k) /\ k # m BY <1>11 DEF Relay
    <3>2. \A k \in net' : Relay(k)' => Untouched(k.session)'
      BY <1>9, <1>11, <2>1, <3>1 DEF Inv, OwnSession, Untouched
    <3>3. QED BY <1>1, <1>11, <3>1, <3>2 DEF Inv, OwnSession, Relay, Opened
  <2>6. QED BY <2>3, <2>4, <2>5 DEF Inv
<1>12. CASE Service!FailAtOnce(id) /\ ServiceAnswers(m, id, "failed") /\ UNCHANGED serving
  <2>1. Settles /\ \A i \in SessionId \ {id} : status'[i] = status[i]
    BY <1>2, <1>12, ServiceSettles
  <2>2. status[id] = "open" /\ status'[id] = "failed"
    BY <1>2, <1>5, <1>12 DEF Service!FailAtOnce
  <2>3. /\ ChecksAgree' /\ GateAgrees'
        /\ \A k \in Message : Tells(k) /\ (k.says = "201" => k.session # id) => Tells(k)'
    BY <1>1, <1>2, <1>7, <2>1, <2>2, SettledHolds
  <2>4. \A k \in net \cup serving \cup waiting : Tells(k)'
    BY <1>5, <1>8, <2>3 DEF Inv, MessagesTell
  <2>5. QED BY <1>10, <1>12, <2>1, <2>2, <2>3, <2>4
<1>13. CASE /\ status[id] \in {"pending", "verified", "failed"}
            /\ ServiceAnswers(m, id, "409")
            /\ UNCHANGED <<status, serving>>
  BY <1>2, <1>13 DEF Untouched
<1>14. CASE /\ status[id] \in Service!Status \ {"open", "pending"}
            /\ ServiceAnswers(m, id, "404")
            /\ UNCHANGED <<status, serving>>
  <2>1. status[id] = "gone" BY <1>2, <1>14 DEF Untouched
  <2>2. Settles /\ \A i \in SessionId \ {id} : status'[i] = status[i]
    BY <1>5, <1>14 DEF Settles
  <2>3. \A k \in net \cup serving \cup waiting : Tells(k)'
    BY <1>1, <1>14 DEF Inv, MessagesTell, Tells, Untouched
  <2>4. ChecksAgree' /\ GateAgrees'
    BY <1>1, <1>14 DEF Inv, ChecksAgree, GateAgrees, Untouched
  <2>5. QED BY <1>10, <1>14, <2>1, <2>2, <2>3, <2>4
<1>15. QED BY <1>11, <1>12, <1>13, <1>14 DEF ServiceTakes, id

LEMMA ServiceDecidesStep ==
  ASSUME TypeOK, Inv, NEW m \in serving, ServiceDecides(m)
  PROVE  Inv'
<1>1. /\ m \in Message /\ Tells(m) /\ m.kind = "relay" /\ m.says = "nothing"
      /\ UNCHANGED <<waiting, check, gate>> /\ serving' = serving \ {m}
  BY Types DEF Inv, MessagesTell, ServiceDecides
<1>2. PICK id \in SessionId : id = m.session
  BY <1>1 DEF Tells
<1>3. PICK verdict \in {"verified", "failed"} :
        /\ Service!Decide(id, verdict)
        /\ net' = net \cup {Answered(m, "from-service", id, verdict)}
  BY <1>2 DEF ServiceDecides
<1>4. net \subseteq Message /\ serving \subseteq Message /\ waiting \subseteq Message
      /\ status \in [SessionId -> Service!Status]
  BY Types
<1>5. status[id] = "pending" /\ status'[id] = verdict
  BY <1>3, <1>4 DEF Service!Decide
<1>6. Settles /\ \A i \in SessionId \ {id} : status'[i] = status[i]
  BY <1>3, ServiceSettles
<1>7. \A d \in Check : check[d].pc = "wallet" => check[d].session # id
  BY <1>5 DEF Inv, ChecksAgree, Untouched
<1>8. \A k \in net \cup serving \cup waiting : k.says = "201" => k.session # id
  BY <1>5 DEF Inv, MessagesTell, Tells, Untouched
<1>9. /\ ChecksAgree' /\ GateAgrees'
      /\ \A k \in Message : Tells(k) /\ (k.says = "201" => k.session # id) => Tells(k)'
  BY <1>1, <1>5, <1>6, <1>7, SettledHolds
<1>10. PICK n \in Message :
         /\ n = Answered(m, "from-service", id, verdict)
         /\ n.leg = "from-service" /\ n.check = m.check /\ n.kind = m.kind
         /\ n.session = id /\ n.says = verdict
  <2>1. verdict \in Answers BY <1>3 DEF Answers
  <2>2. m \in Message /\ id \in SessionId \cup {NoId} BY <1>1
  <2>3. QED BY ONLY <2>1, <2>2, AnAnswer, Zenon
<1>11. net' = net \cup {n} BY <1>3, <1>10
<1>12. MessagesTell'
  <2>1. Tells(n)' BY <1>1, <1>2, <1>5, <1>10 DEF Tells
  <2>2. \A k \in net \cup serving \cup waiting : Tells(k)'
    BY <1>4, <1>8, <1>9 DEF Inv, MessagesTell
  <2>3. QED BY <1>1, <1>11, <2>1, <2>2 DEF Inv, MessagesTell
<1>13. OwnSession'
  <2>1. \A k \in net : Relay(k) => Untouched(k.session)'
    BY <1>5, <1>6 DEF Inv, OwnSession, Untouched
  <2>2. \A k \in net' : (Relay(k)' => Relay(k)) /\ (Opened(k)' => Opened(k))
    BY <1>10, <1>11 DEF Relay, Opened
  <2>3. QED BY <1>1, <2>1, <2>2 DEF Inv, OwnSession, Relay, Opened
<1>14. QED BY <1>9, <1>12, <1>13 DEF Inv

LEMMA InvStep ==
  ASSUME TypeOK, Inv, [Next]_vars
  PROVE  Inv'
<1>1. CASE \E c \in Check : Start(c) \/ WalletAnswers(c) \/ FetchFails(c)
  BY <1>1, StartStep, WalletStep, FetchFailsStep
<1>2. CASE \E m \in net : \/ PageReceives(m)
                          \/ SiteForwards(m) \/ SiteReturns(m)
                          \/ ServiceOpens(m) \/ ServiceTakes(m)
  BY <1>2, PageReceivesStep, SiteForwardsStep, SiteReturnsStep,
     ServiceOpensStep, ServiceTakesStep
<1>3. CASE \E w \in waiting : UpstreamFails(w)
  BY <1>3, UpstreamFailsStep
<1>4. CASE \E m \in serving : ServiceDecides(m)
  BY <1>4, ServiceDecidesStep
<1>5. CASE ServiceChanges
  BY <1>5, ServiceChangesStep
<1>6. CASE UNCHANGED vars
  BY <1>6 DEF vars, Inv, MessagesTell, Tells, ChecksAgree, OwnSession, GateAgrees,
              Relay, Opened, Untouched
<1>7. QED BY <1>1, <1>2, <1>3, <1>4, <1>5, <1>6 DEF Next

LEMMA InvHolds == Spec => [](TypeOK /\ Inv)
<1>1. Init => TypeOK /\ Inv
  BY TypeInit, InvInit
<1>2. TypeOK /\ Inv /\ [Next]_vars => (TypeOK /\ Inv)'
  BY TypeStep, InvStep
<1>3. QED
  BY <1>1, <1>2, PTL DEF Spec

-----------------------------------------------------------------------------

(***************************************************************************)
(* The gate opens only for a visitor one of whose own checks the service   *)
(* verified, however many checks overlap and whatever is lost.             *)
(***************************************************************************)
THEOREM GateIsTrue == Spec => []GateIsEarned
<1>1. TypeOK /\ Inv => GateIsEarned
  BY Types DEF Inv, GateAgrees, ChecksAgree, GateIsEarned, CheckType, Service!With
<1>2. QED
  BY <1>1, InvHolds, PTL

(***************************************************************************)
(* A visitor told that a check failed was not verified by it.              *)
(***************************************************************************)
THEOREM FailuresAreTrue == Spec => []FailureIsTrue
<1>1. Inv => FailureIsTrue
  BY DEF Inv, ChecksAgree, FailureIsTrue, Service!With
<1>2. QED
  BY <1>1, InvHolds, PTL

(***************************************************************************)
(* No check finds that its session was already attempted.                  *)
(***************************************************************************)
THEOREM ConflictNever == Spec => []NeverConflict
<1>1. Inv => NeverConflict
  BY DEF Inv, MessagesTell, Tells, NeverConflict
<1>2. QED
  BY <1>1, InvHolds, PTL

=============================================================================
