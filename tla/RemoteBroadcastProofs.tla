------------------------ MODULE RemoteBroadcastProofs ------------------------
(***************************************************************************)
(* Proofs about the broadcast of operators, for every set of runners, any  *)
(* number of operators, subscriptions that come late and message ids that  *)
(* do not survive: types, the order in which runners launch operators, and *)
(* that nothing is sent before every runner is ready.                      *)
(***************************************************************************)
EXTENDS RemoteBroadcast, TLAPS

\* How many operators the first k messages hold.
Upto(k) == IF k = 0 THEN 0 ELSE sent[k].to

\* The messages sent hold the operators up to `queue', each message those
\* after its predecessor's, under its number or under garbage.
SentInv ==
    /\ queue = Upto(Len(sent))
    /\ \A k \in 1..Len(sent) :
          /\ sent[k].id \in {k - 1, Garbage}
          /\ sent[k].from = Upto(k - 1)
          /\ sent[k].from <= sent[k].to
          /\ sent[k].type = "destroy" => sent[k].to = sent[k].from
          /\ sent[k].to <= queue

\* What is on its way to a runner was sent.
InboxInv == \A r \in Runner : \A i \in 1..Len(inbox[r]) : \E k \in 1..Len(sent) : inbox[r][i] = sent[k]

\* A runner has launched what the messages it has accepted hold.
LaunchInv ==
    \A r \in Runner :
        /\ messageId[r] <= Len(sent)
        /\ Len(launched[r]) = Upto(messageId[r])
        /\ \A i \in 1..Len(launched[r]) : launched[r][i] = i

OrderInv == BroadcastTypeOK /\ SentInv /\ InboxInv /\ LaunchInv

\* Where the API thread is says what has happened before.
Creating == {"new", "starting", "creating", "waiting"}
Reported(r) == loop[r] \notin {"none", "notify"}
ProcInv ==
    /\ \A r \in Runner : proc[r] \in {"none", "connecting"} => loop[r] = "none"
    /\ api = "new" => \A r \in Runner : proc[r] = "none"
    /\ api = "starting" => \A r \in Remote : proc[r] = "none"
WaitInv ==
    /\ \A r \in ready : Reported(r)
    /\ api = "waiting" => \A r \in Runner \ unready : Reported(r)
    /\ api \notin Creating => \A r \in Runner : Reported(r)
    /\ api \notin {"new", "starting", "creating"} => started = Runner
IssueInv ==
    /\ api \in Creating => issued = <<>>
    /\ queue <= Len(issued)
    /\ \A k \in 1..Len(sent) : sent[k].type = "execute" => queue > 0

ReadyInv == BroadcastTypeOK /\ ProcInv /\ WaitInv /\ IssueInv

-----------------------------------------------------------------------------
(* Type correctness *)

LEMMA Concatenation ==
    ASSUME NEW s \in Seq(Nat), NEW t \in Seq(Nat)
    PROVE  /\ Len(s \o t) = Len(s) + Len(t)
           /\ \A i \in 1..Len(s) : (s \o t)[i] = s[i]
           /\ \A i \in 1..Len(s) + Len(t) : i > Len(s) => (s \o t)[i] = t[i - Len(s)]
    OBVIOUS

LEMMA Increment ==
    ASSUME NEW f \in [Runner -> Nat], NEW r \in Runner
    PROVE  [f EXCEPT ![r] = @ + 1] \in [Runner -> Nat]
<1>1. f[r] + 1 \in Nat
    OBVIOUS
<1> QED BY <1>1

LEMMA IntervalType ==
    ASSUME NEW message \in Message
    PROVE  Interval(message) \in Seq(Nat)
<1> DEFINE from == message.from
           to   == message.to
<1>1. from \in Nat /\ to \in Nat
    BY DEF Message
<1>2. Interval(message) = [i \in 1..(to - from) |-> from + i]
    BY DEF Interval
<1> HIDE DEF from, to
<1>3. ASSUME NEW n \in Nat PROVE [i \in 1..n |-> from + i] \in Seq(Nat)
    BY <1>1
<1>4. \E n \in Nat : 1..(to - from) = 1..n
    <2>1. CASE from <= to BY <1>1, <2>1
    <2>2. CASE to < from
        <3>1. 1..(to - from) = 1..0 BY <1>1, <2>2
        <3> QED BY <3>1
    <2> QED BY <1>1, <2>1, <2>2
<1> QED BY <1>2, <1>3, <1>4

\* A message is sent with its types.
LEMMA SendType ==
    ASSUME BroadcastTypeOK, NEW type \in {"execute", "destroy"}, NEW n \in Nat,
           SendMultipart(type, n)
    PROVE  /\ sent' \in Seq(Message)
           /\ inbox' \in [Runner -> Seq(Message)]
<1> PICK id \in IdFrame :
        /\ sent' = Append(sent, [id |-> id, type |-> type, from |-> queue, to |-> n])
        /\ inbox' = [r \in Runner |->
                       IF r \in subscribed
                       THEN Append(inbox[r], [id |-> id, type |-> type, from |-> queue, to |-> n])
                       ELSE inbox[r]]
    BY DEF SendMultipart
<1> DEFINE message == [id |-> id, type |-> type, from |-> queue, to |-> n]
<1>1. Len(sent) \in Nat
    BY DEF BroadcastTypeOK
<1>2. message \in Message
    BY <1>1 DEF Message, IdFrame, BroadcastTypeOK
<1> HIDE DEF message
<1>3. sent' = Append(sent, message) /\ sent' \in Seq(Message)
    BY <1>2 DEF BroadcastTypeOK, message
<1>4. inbox' = [r \in Runner |-> IF r \in subscribed THEN Append(inbox[r], message) ELSE inbox[r]]
    BY DEF message
<1> QED BY <1>2, <1>3, <1>4 DEF BroadcastTypeOK

LEMMA TypeInit == BroadcastInit => BroadcastTypeOK
<1> SUFFICES ASSUME BroadcastInit PROVE BroadcastTypeOK
    OBVIOUS
<1>1. <<>> \in Seq(Kind) /\ <<>> \in Seq(Message) /\ <<>> \in Seq(Nat) /\ 0 \in Nat
    OBVIOUS
<1>2. /\ inbox \in [Runner -> Seq(Message)]
      /\ launched \in [Runner -> Seq(Nat)]
      /\ messageId \in [Runner -> Nat]
      /\ done \in [Runner -> Nat]
      /\ issued \in Seq(Kind) /\ sent \in Seq(Message) /\ queue \in Nat
    BY <1>1, Zenon DEF BroadcastInit
<1> QED BY <1>2, Zenon DEF BroadcastInit, BroadcastTypeOK

LEMMA TypeStep == BroadcastTypeOK /\ [BroadcastNext]_vars => BroadcastTypeOK'
<1> SUFFICES ASSUME BroadcastTypeOK, [BroadcastNext]_vars PROVE BroadcastTypeOK'
    OBVIOUS
<1> USE DEF BroadcastTypeOK, mainVars, procVars, loopVars, runVars, wireVars, vars
<1>1. CASE UNCHANGED vars
    BY <1>1
<1>2. CASE CreateGraph
    BY <1>2 DEF CreateGraph, StartProcesses, Remote
<1>3. CASE CreateGraphReturns
    BY <1>3 DEF CreateGraphReturns
<1>4. CASE AllReady
    BY <1>4 DEF AllReady
<1>5. CASE SyncReturns
    BY <1>5 DEF SyncReturns
<1>6. CASE StopExecutor
    BY <1>6 DEF StopExecutor, Remote
<1>7. CASE BuildExecutor
    BY <1>7 DEF BuildExecutor, StartProcesses
<1>8. CASE Sync
    BY <1>8 DEF Sync, Kind
<1>9. CASE Destroy
    BY <1>9 DEF Destroy, Remote
<1>10. CASE ExecutorEnds
    BY <1>10 DEF ExecutorEnds
<1>11. ASSUME NEW kind \in Kind, AddOperator(kind) PROVE BroadcastTypeOK'
    BY <1>11 DEF AddOperator
<1>12. ASSUME NEW r \in Runner, PullReady(r) PROVE BroadcastTypeOK'
    BY <1>12 DEF PullReady
<1>13. ASSUME NEW r \in Runner, Connect(r) PROVE BroadcastTypeOK'
    BY <1>13 DEF Connect
<1>14. ASSUME NEW r \in Runner, Subscribe(r) PROVE BroadcastTypeOK'
    BY <1>14 DEF Subscribe
<1>15. ASSUME NEW r \in Runner, NotifyProcessStarted(r) PROVE BroadcastTypeOK'
    BY <1>15 DEF NotifyProcessStarted
<1>16. ASSUME NEW r \in Runner, NotifyDevicesReady(r) PROVE BroadcastTypeOK'
    BY <1>16 DEF NotifyDevicesReady
<1>17. ASSUME NEW r \in Runner, LoopEnds(r) PROVE BroadcastTypeOK'
    BY <1>17 DEF LoopEnds
<1>18. ASSUME NEW r \in Runner, WaitForExit(r) PROVE BroadcastTypeOK'
    BY <1>18 DEF WaitForExit
<1>19. ASSUME NEW r \in Runner, JoinLoop(r) PROVE BroadcastTypeOK'
    BY <1>19 DEF JoinLoop
<1>20. ASSUME NEW r \in Runner, JoinStream(r) PROVE BroadcastTypeOK'
    BY <1>20 DEF JoinStream
<1>21. ASSUME NEW r \in Runner, StartKernel(r) PROVE BroadcastTypeOK'
    BY <1>21 DEF StartKernel
<1>22. ASSUME NEW r \in Runner, FinishKernel(r) PROVE BroadcastTypeOK'
    BY <1>22 DEF FinishKernel
<1>31. ASSUME NEW n \in 1..MaxOps, ExecuteBatch(n) PROVE BroadcastTypeOK'
    <2>1. SendMultipart("execute", n) /\ n \in Nat
        BY <1>31, BroadcastAssumption DEF ExecuteBatch
    <2> QED BY <1>31, <2>1, SendType DEF ExecuteBatch, SendMultipart
<1>32. CASE DestroyRunners
    <2>1. SendMultipart("destroy", queue)
        BY <1>32 DEF DestroyRunners
    <2> QED BY <1>32, <2>1, SendType, BroadcastAssumption DEF DestroyRunners, SendMultipart
<1>33. CASE DestroyReturns
    BY <1>33, SendType DEF DestroyReturns, SendMultipart
<1>34. ASSUME NEW r \in Runner, Get(r) PROVE BroadcastTypeOK'
    <2> DEFINE message == Head(inbox[r])
    <2>1. message \in Message /\ Tail(inbox[r]) \in Seq(Message)
        BY <1>34 DEF Get
    <2>2. Interval(message) \in Seq(Nat)
        BY <2>1, IntervalType
    <2>3. launched' \in [Runner -> Seq(Nat)]
        <3> HIDE DEF message
        <3>1. CASE UNCHANGED launched
            BY <3>1
        <3>2. CASE Execute(r, message)
            <4>1. launched[r] \o Interval(message) \in Seq(Nat)
                BY <2>2
            <4> QED BY <3>2, <4>1 DEF Execute
        <3> QED BY <1>34, <3>1, <3>2 DEF Get, message
    <2>4. inbox' \in [Runner -> Seq(Message)]
        BY <1>34, <2>1 DEF Get
    <2> HIDE DEF message
    <2> USE DEF message
    <2>5. /\ messageId' \in [Runner -> Nat]
          /\ stop' \subseteq Runner
          /\ aborted' \in BOOLEAN
        <3> HIDE DEF BroadcastTypeOK, vars, mainVars, procVars, loopVars, runVars, wireVars
        <3>1. aborted' = TRUE \/ aborted' = aborted
            BY <1>34 DEF Get
        <3>2. messageId' = messageId \/ messageId' = [messageId EXCEPT ![r] = @ + 1]
            BY <1>34 DEF Get
        <3>3. stop' = stop \/ stop' = stop \cup {r}
            BY <1>34 DEF Get
        <3>4. aborted' \in BOOLEAN
            BY <3>1, Zenon DEF BroadcastTypeOK
        <3>5. messageId' \in [Runner -> Nat]
            <4>1. messageId \in [Runner -> Nat]
                BY DEF BroadcastTypeOK
            <4>2. [messageId EXCEPT ![r] = @ + 1] \in [Runner -> Nat]
                BY <4>1, Increment
            <4> QED BY <3>2, <4>1, <4>2, Zenon
        <3>6. stop' \subseteq Runner
            BY <3>3 DEF BroadcastTypeOK
        <3> QED BY <3>4, <3>5, <3>6
    <2> QED BY <1>34, <2>3, <2>4, <2>5 DEF Get
<1> HIDE DEF BroadcastTypeOK, mainVars, procVars, loopVars, runVars, wireVars, vars
<1> QED BY <1>1, <1>2, <1>3, <1>4, <1>5, <1>6, <1>7, <1>8, <1>9, <1>10, <1>11, <1>12, <1>13, <1>14, <1>15, <1>16, <1>17, <1>18, <1>19, <1>20, <1>21, <1>22, <1>31, <1>32, <1>33, <1>34
        DEF BroadcastNext, InCall, ExecutorStep, Call, RunnerStep, Rest

\* The state of a graph with remote runners keeps its types.
THEOREM BroadcastTypes == BroadcastSpec => []BroadcastTypeOK
<1> QED BY TypeInit, TypeStep, PTL DEF BroadcastSpec

-----------------------------------------------------------------------------
(* Operators are launched in order *)

LEMMA OrderInit == BroadcastInit => OrderInv
<1> SUFFICES ASSUME BroadcastInit PROVE OrderInv
    OBVIOUS
<1>1. /\ queue = 0 /\ sent = <<>>
      /\ \A r \in Runner : inbox[r] = <<>> /\ messageId[r] = 0 /\ launched[r] = <<>>
    BY DEF BroadcastInit
<1>2. SentInv
    <2>1. Len(sent) = 0 /\ 1..Len(sent) = {}
        BY <1>1
    <2> QED BY <1>1, <2>1 DEF SentInv, Upto
<1>3. InboxInv
    BY <1>1 DEF InboxInv
<1>4. LaunchInv
    <2>1. Len(<<>>) = 0 /\ 1..0 = {}
        OBVIOUS
    <2>2. ASSUME NEW r \in Runner
          PROVE  /\ messageId[r] <= Len(sent) /\ Len(launched[r]) = Upto(messageId[r])
                 /\ \A i \in 1..Len(launched[r]) : launched[r][i] = i
        <3>1. messageId[r] = 0 /\ launched[r] = <<>> /\ Len(sent) = 0
            BY <1>1, <2>1
        <3>2. Len(launched[r]) = 0
            BY <2>1, <3>1, Zenon
        <3> QED BY <2>1, <3>1, <3>2 DEF Upto
    <2> QED BY <2>2 DEF LaunchInv
<1> QED BY <1>2, <1>3, <1>4, TypeInit DEF OrderInv

\* A message continues the operators of its predecessor; nobody accepts it yet.
LEMMA SendOrder ==
    ASSUME OrderInv, NEW type \in {"execute", "destroy"}, NEW n \in Nat, queue <= n,
           type = "destroy" => n = queue,
           SendMultipart(type, n), queue' = n, UNCHANGED <<messageId, launched>>
    PROVE  SentInv' /\ InboxInv' /\ LaunchInv'
<1> PICK id \in IdFrame :
        /\ sent' = Append(sent, [id |-> id, type |-> type, from |-> queue, to |-> n])
        /\ inbox' = [r \in Runner |->
                       IF r \in subscribed
                       THEN Append(inbox[r], [id |-> id, type |-> type, from |-> queue, to |-> n])
                       ELSE inbox[r]]
    BY DEF SendMultipart
<1> DEFINE message == [id |-> id, type |-> type, from |-> queue, to |-> n]
<1>1. /\ message.id \in {Len(sent), Garbage} /\ message.from = queue /\ message.to = n
      /\ message.type = type
    BY DEF IdFrame
<1> HIDE DEF message
<1>2. /\ sent' = Append(sent, message)
      /\ inbox' = [r \in Runner |-> IF r \in subscribed THEN Append(inbox[r], message) ELSE inbox[r]]
    BY DEF message
<1>3. /\ sent \in Seq(Message) /\ queue \in Nat /\ inbox \in [Runner -> Seq(Message)]
      /\ messageId \in [Runner -> Nat]
    BY DEF OrderInv, BroadcastTypeOK
<1> PICK N \in Nat : N = Len(sent)
    BY <1>3
<1>4. N \in Nat /\ Len(sent') = N + 1 /\ sent'[N + 1] = message
    BY <1>2, <1>3
<1>5. \A k \in 1..N : sent'[k] = sent[k]
    BY <1>2, <1>3
<1>6. ASSUME NEW k \in 0..N PROVE Upto(k)' = Upto(k)
    <2>1. k = 0 \/ k \in 1..N
        BY <1>4
    <2> QED BY <1>5, <2>1 DEF Upto
<1>7. Upto(N + 1)' = n
    BY <1>1, <1>4 DEF Upto
<1>8. SentInv'
    <2>1. queue' = Upto(Len(sent))'
        BY <1>4, <1>7 DEF Upto
    <2>2. ASSUME NEW k \in 1..N
          PROVE  /\ sent'[k].id \in {k - 1, Garbage} /\ sent'[k].from = Upto(k - 1)'
                 /\ sent'[k].from <= sent'[k].to /\ sent'[k].to <= queue'
                 /\ sent'[k].type = "destroy" => sent'[k].to = sent'[k].from
        <3>1. k - 1 \in 0..N
            BY <1>4
        <3>2. /\ sent[k].id \in {k - 1, Garbage} /\ sent[k].from = Upto(k - 1)
              /\ sent[k].from <= sent[k].to /\ sent[k].to <= queue
              /\ sent[k].type = "destroy" => sent[k].to = sent[k].from
            BY DEF OrderInv, SentInv
        <3>3. sent[k] \in Message
            BY <1>3
        <3>4. sent[k].to \in Nat
            BY <3>3 DEF Message
        <3> QED BY <1>3, <1>5, <1>6, <3>1, <3>2, <3>4
    <2>3. /\ sent'[N + 1].id \in {(N + 1) - 1, Garbage}
          /\ sent'[N + 1].from = Upto((N + 1) - 1)'
          /\ sent'[N + 1].from <= sent'[N + 1].to /\ sent'[N + 1].to <= queue'
          /\ sent'[N + 1].type = "destroy" => sent'[N + 1].to = sent'[N + 1].from
        <3>1. (N + 1) - 1 = N /\ N \in 0..N
            BY <1>4
        <3>2. queue = Upto(N)
            BY DEF OrderInv, SentInv
        <3> QED BY <1>1, <1>3, <1>4, <1>6, <3>1, <3>2
    <2>4. \A k \in 1..Len(sent') : k \in 1..N \/ k = N + 1
        BY <1>4
    <2> QED BY <2>1, <2>2, <2>3, <2>4 DEF SentInv
<1>9. InboxInv'
    <2> SUFFICES ASSUME NEW r \in Runner, NEW i \in 1..Len(inbox'[r])
                 PROVE  \E k \in 1..Len(sent') : inbox'[r][i] = sent'[k]
        BY DEF InboxInv
    <2>1. CASE i \in 1..Len(inbox[r])
        <3>1. PICK k \in 1..N : inbox[r][i] = sent[k]
            BY <2>1 DEF OrderInv, InboxInv
        <3>2. inbox'[r][i] = inbox[r][i]
            BY <1>2, <1>3, <2>1
        <3> QED BY <1>4, <1>5, <3>1, <3>2
    <2>2. CASE i \notin 1..Len(inbox[r])
        <3>1. inbox'[r][i] = message
            BY <1>2, <1>3, <2>2
        <3> QED BY <1>4, <3>1
    <2> QED BY <2>1, <2>2
<1>10. LaunchInv'
    <2>1. \A r \in Runner : messageId[r] \in 0..N
        BY <1>3, <1>4 DEF OrderInv, LaunchInv
    <2>2. \A r \in Runner : Upto(messageId[r])' = Upto(messageId[r])
        BY <2>1, <1>6 DEF Upto
    <2> QED BY <1>4, <2>1, <2>2 DEF OrderInv, LaunchInv
<1> QED BY <1>8, <1>9, <1>10

\* A runner accepts only the message that follows the last one it accepted.
LEMMA GetOrder ==
    ASSUME OrderInv, NEW r \in Runner, Get(r)
    PROVE  SentInv' /\ InboxInv' /\ LaunchInv'
<1>1. /\ sent \in Seq(Message) /\ queue \in Nat /\ inbox \in [Runner -> Seq(Message)]
      /\ messageId \in [Runner -> Nat] /\ launched \in [Runner -> Seq(Nat)]
    BY DEF OrderInv, BroadcastTypeOK
<1>2. /\ inbox[r] # <<>>
      /\ inbox' = [inbox EXCEPT ![r] = Tail(@)] \/ UNCHANGED inbox
      /\ UNCHANGED <<sent, queue>>
    BY DEF Get, mainVars
<1>3. \A k : Upto(k)' = Upto(k)
    BY <1>2 DEF Upto
<1>4. SentInv'
    BY <1>2, <1>3 DEF OrderInv, SentInv
<1>5. InboxInv'
    <2> SUFFICES ASSUME NEW q \in Runner, NEW i \in 1..Len(inbox'[q])
                 PROVE  \E k \in 1..Len(sent) : inbox'[q][i] = sent[k]
        BY <1>2 DEF InboxInv
    <2>1. CASE q # r \/ UNCHANGED inbox
        <3>1. inbox'[q] = inbox[q]
            BY <1>1, <1>2, <2>1
        <3> QED BY <1>2, <3>1 DEF OrderInv, InboxInv
    <2>2. CASE q = r /\ inbox' = [inbox EXCEPT ![r] = Tail(@)]
        <3>1. i + 1 \in 1..Len(inbox[r]) /\ inbox'[r][i] = inbox[r][i + 1]
            BY <1>1, <1>2, <2>2
        <3> QED BY <1>2, <2>2, <3>1 DEF OrderInv, InboxInv
    <2> QED BY <1>2, <2>1, <2>2
<1>6. LaunchInv'
    <2>1. CASE UNCHANGED <<messageId, launched>>
        BY <1>2, <1>3, <2>1 DEF OrderInv, LaunchInv
    <2>2. ASSUME NEW message, message = Head(inbox[r]), message.id = messageId[r],
                 messageId' = [messageId EXCEPT ![r] = @ + 1],
                 \/ message.type = "execute" /\ Execute(r, message)
                 \/ message.type = "destroy" /\ UNCHANGED launched
          PROVE  LaunchInv'
        <3>1. PICK k \in 1..Len(sent) : message = sent[k]
            <4>1. 1 \in 1..Len(inbox[r]) /\ message = inbox[r][1]
                BY <1>1, <1>2, <2>2
            <4> QED BY <4>1 DEF OrderInv, InboxInv
        <3>2. /\ message.id \in {k - 1, Garbage} /\ message.from = Upto(k - 1)
              /\ message.from <= message.to
              /\ message.type = "destroy" => message.to = message.from
            BY <3>1 DEF OrderInv, SentInv
        <3>3. messageId[r] = k - 1
            BY <1>1, <2>2, <3>2, BroadcastAssumption
        <3>4. message.from \in Nat /\ message.to \in Nat
            <4>1. message \in Message
                BY <1>1, <3>1
            <4> QED BY <4>1 DEF Message
        <3>5. messageId'[r] = k /\ Upto(k) = message.to
            BY <1>1, <2>2, <3>1, <3>3 DEF Upto
        <3>6. Len(launched[r]) = message.from /\ \A i \in 1..Len(launched[r]) : launched[r][i] = i
            BY <3>2, <3>3 DEF OrderInv, LaunchInv
        <3>7. Len(launched'[r]) = message.to /\ \A i \in 1..Len(launched'[r]) : launched'[r][i] = i
            <4>1. CASE UNCHANGED launched /\ message.type = "destroy"
                BY <3>2, <3>6, <4>1
            <4>2. CASE Execute(r, message)
                <5> DEFINE new == Interval(message)
                <5>1. PICK from \in Nat, to \in Nat : from = message.from /\ to = message.to /\ from <= to
                    BY <3>2, <3>4
                <5>2. new = [i \in 1..(to - from) |-> from + i]
                    BY <5>1 DEF Interval
                <5> HIDE DEF new
                <5>3. to - from \in Nat
                    BY <5>1
                <5>4. new \in Seq(Nat) /\ Len(new) = to - from /\ \A i \in 1..(to - from) : new[i] = from + i
                    <6>1. PICK n \in Nat : n = to - from
                        BY <5>3
                    <6>2. new = [i \in 1..n |-> from + i]
                        BY <5>2, <6>1
                    <6>3. \A i \in 1..n : from + i \in Nat
                        OBVIOUS
                    <6>4. new \in [1..n -> Nat] /\ \A i \in 1..n : new[i] = from + i
                        BY <6>2, <6>3, Zenon
                    <6>5. new \in Seq(Nat) /\ Len(new) = n
                        BY <6>4
                    <6> QED BY <6>1, <6>4, <6>5
                <5>5. launched'[r] = launched[r] \o new
                    BY <1>1, <4>2 DEF Execute, new
                <5>6. launched[r] \in Seq(Nat)
                    BY <1>1
                <5>7. /\ Len(launched'[r]) = Len(launched[r]) + Len(new)
                      /\ \A i \in 1..Len(launched[r]) + Len(new) :
                            i > Len(launched[r]) => launched'[r][i] = new[i - Len(launched[r])]
                    <6> DEFINE old == launched[r]
                               all == launched'[r]
                    <6>1. old \in Seq(Nat) /\ all = old \o new
                        BY <5>5, <5>6
                    <6> HIDE DEF old, all
                    <6>2. /\ Len(all) = Len(old) + Len(new)
                          /\ \A i \in 1..Len(old) + Len(new) : i > Len(old) => all[i] = new[i - Len(old)]
                        BY <5>4, <6>1, Concatenation
                    <6> QED BY <6>2 DEF old, all
                <5>8. Len(launched[r]) = from /\ from + Len(new) = to
                    BY <3>6, <5>1, <5>4
                <5>9. Len(launched'[r]) = to
                    BY <5>7, <5>8
                <5>10. ASSUME NEW i \in 1..to PROVE launched'[r][i] = i
                    <6>1. CASE i \in 1..from
                        BY <3>6, <5>1, <5>4, <5>5, <5>6, <6>1
                    <6>2. CASE i \notin 1..from
                        <7>1. i - from \in 1..(to - from)
                            BY <5>1, <6>2
                        <7>2. launched'[r][i] = new[i - from]
                            BY <5>1, <5>7, <5>8, <6>2
                        <7>3. new[i - from] = from + (i - from)
                            BY <5>4, <7>1
                        <7> QED BY <5>1, <7>2, <7>3
                    <6> QED BY <6>1, <6>2
                <5> QED BY <5>1, <5>9, <5>10
            <4> QED BY <2>2, <4>1, <4>2
        <3>8. \A q \in Runner \ {r} : messageId'[q] = messageId[q] /\ launched'[q] = launched[q]
            BY <1>1, <2>2 DEF Execute
        <3>9. ASSUME NEW q \in Runner
              PROVE  /\ messageId'[q] <= Len(sent) /\ Len(launched'[q]) = Upto(messageId'[q])
                     /\ \A i \in 1..Len(launched'[q]) : launched'[q][i] = i
            <4>1. CASE q = r
                BY <1>1, <3>5, <3>7, <4>1
            <4>2. CASE q # r
                BY <3>8, <4>2 DEF OrderInv, LaunchInv
            <4> QED BY <4>1, <4>2
        <3>10. \A q \in Runner : Upto(messageId[q])' = Upto(messageId'[q])
            BY <1>2 DEF Upto
        <3> QED BY <1>2, <3>9, <3>10 DEF LaunchInv
    <2> QED BY <2>1, <2>2 DEF Get
<1> QED BY <1>4, <1>5, <1>6

\* Every other step leaves messages and launches alone.
LEMMA QuietOrder ==
    ASSUME OrderInv, UNCHANGED <<sent, queue, inbox, messageId, launched>>
    PROVE  SentInv' /\ InboxInv' /\ LaunchInv'
BY Zenon DEF OrderInv, SentInv, InboxInv, LaunchInv, Upto

LEMMA OrderStep == OrderInv /\ [BroadcastNext]_vars => OrderInv'
<1> SUFFICES ASSUME OrderInv, [BroadcastNext]_vars PROVE OrderInv'
    OBVIOUS
<1>1. BroadcastTypeOK'
    BY TypeStep DEF OrderInv
<1> DEFINE New == SentInv' /\ InboxInv' /\ LaunchInv'
<1> USE DEF mainVars, procVars, loopVars, runVars, wireVars
<1>2. ASSUME UNCHANGED vars PROVE New
    <2>1. UNCHANGED <<sent, queue, inbox, messageId, launched>>
        BY <1>2 DEF vars
    <2> QED BY <2>1, QuietOrder
<1>3. ASSUME \/ BuildExecutor \/ CreateGraph \/ CreateGraphReturns \/ AllReady \/ Sync
             \/ SyncReturns \/ Destroy \/ StopExecutor \/ ExecutorEnds
      PROVE  New
    <2>1. UNCHANGED <<sent, queue, inbox, messageId, launched>>
        BY <1>3 DEF BuildExecutor, CreateGraph, StartProcesses, WaitSubProcessStarted, CreateGraphReturns, AllReady, Sync,
            SyncReturns, Destroy, StopExecutor, ExecutorEnds
    <2> QED BY <2>1, QuietOrder
<1>4. ASSUME NEW kind \in Kind, AddOperator(kind) PROVE New
    BY <1>4, QuietOrder DEF AddOperator
<1>5. ASSUME NEW r \in Runner,
             \/ PullReady(r) \/ Connect(r) \/ Subscribe(r) \/ NotifyProcessStarted(r)
             \/ NotifyDevicesReady(r) \/ LoopEnds(r) \/ WaitForExit(r)
             \/ JoinLoop(r) \/ JoinStream(r) \/ StartKernel(r) \/ FinishKernel(r)
      PROVE  New
    BY <1>5, QuietOrder DEF PullReady, Connect, Subscribe, NotifyProcessStarted,
        NotifyDevicesReady, LoopEnds, WaitForExit, JoinLoop, JoinStream, StartKernel, FinishKernel
<1>6. ASSUME NEW n \in 1..MaxOps, ExecuteBatch(n) PROVE New
    <2>1. /\ SendMultipart("execute", n) /\ queue < n /\ queue' = n
          /\ UNCHANGED <<messageId, launched>>
        BY <1>6 DEF ExecuteBatch
    <2>2. n \in Nat /\ queue \in Nat /\ queue <= n
        BY <2>1, BroadcastAssumption DEF OrderInv, BroadcastTypeOK
    <2> QED BY <2>1, <2>2, SendOrder
<1>7. ASSUME DestroyRunners \/ DestroyReturns PROVE New
    <2> PICK n \in Nat : n = queue
        BY DEF OrderInv, BroadcastTypeOK
    <2>1. /\ SendMultipart("destroy", n) /\ n = queue' /\ n = queue
          /\ UNCHANGED <<messageId, launched>>
        BY <1>7 DEF DestroyRunners, DestroyReturns
    <2>2. queue <= n
        BY <2>1
    <2> QED BY <2>1, <2>2, SendOrder
<1>8. ASSUME NEW r \in Runner, Get(r) PROVE New
    BY <1>8, GetOrder
<1> HIDE DEF New, mainVars, procVars, loopVars, runVars, wireVars
<1>9. New
    BY <1>2, <1>3, <1>4, <1>5, <1>6, <1>7, <1>8
        DEF BroadcastNext, InCall, ExecutorStep, Call, RunnerStep, Rest
<1> QED BY <1>1, <1>9 DEF OrderInv, New

LEMMA OrderEnough == OrderInv => LaunchesInOrder
<1> SUFFICES ASSUME OrderInv, NEW r \in Runner PROVE Len(launched[r]) <= queue
    BY DEF LaunchesInOrder, OrderInv, LaunchInv
<1>1. /\ messageId[r] \in Nat /\ messageId[r] <= Len(sent) /\ queue \in Nat
      /\ Len(launched[r]) = Upto(messageId[r])
    BY DEF OrderInv, BroadcastTypeOK, LaunchInv
<1>2. CASE messageId[r] = 0
    BY <1>1, <1>2 DEF Upto
<1>3. CASE messageId[r] # 0
    <2>1. messageId[r] \in 1..Len(sent)
        BY <1>1, <1>3 DEF OrderInv, BroadcastTypeOK
    <2> QED BY <1>1, <1>3, <2>1 DEF Upto, OrderInv, SentInv
<1> QED BY <1>2, <1>3

\* Whatever a subscription misses and whatever bytes the id frame holds, a
\* runner launches the operators in order and without a gap, because
\* RemoteRunnerSubscriber::Get accepts only the next id.
THEOREM BroadcastLaunchesInOrder == BroadcastSpec => []LaunchesInOrder
<1> QED BY OrderInit, OrderStep, OrderEnough, PTL DEF BroadcastSpec

-----------------------------------------------------------------------------
(* Nothing is sent before every runner is ready *)

LEMMA ReadyInit == BroadcastInit => ReadyInv
<1> SUFFICES ASSUME BroadcastInit PROVE ReadyInv
    OBVIOUS
<1>1. BroadcastTypeOK
    BY TypeInit
<1>2. ProcInv /\ WaitInv
    BY DEF BroadcastInit, ProcInv, WaitInv, Creating, Reported, Remote
<1>3. IssueInv
    <2>1. Len(sent) = 0 /\ 1..Len(sent) = {} /\ Len(issued) = 0 /\ queue = 0 /\ issued = <<>>
        BY DEF BroadcastInit
    <2> QED BY <2>1 DEF IssueInv
<1> QED BY <1>1, <1>2, <1>3 DEF ReadyInv

LEMMA IssueStep == ReadyInv /\ [BroadcastNext]_vars => IssueInv'
<1> SUFFICES ASSUME ReadyInv, [BroadcastNext]_vars PROVE IssueInv'
    OBVIOUS
<1>1. /\ sent \in Seq(Message) /\ queue \in Nat /\ issued \in Seq(Kind)
      /\ IssueInv
    BY DEF ReadyInv, BroadcastTypeOK
<1>2. ASSUME UNCHANGED <<issued, queue, sent>>, api' \in Creating => api \in Creating
      PROVE  IssueInv'
    BY <1>1, <1>2 DEF IssueInv
<1>3. ASSUME UNCHANGED <<queue, sent>>, api' \notin Creating,
             NEW kind \in Kind, issued' = Append(issued, kind)
      PROVE  IssueInv'
    BY <1>1, <1>3 DEF IssueInv
<1>4. ASSUME NEW type, NEW n \in Nat, SendMultipart(type, n), type = "execute" => n > 0,
             queue' = n, queue <= n, n <= Len(issued), UNCHANGED issued,
             api' \in Creating => api \in Creating
      PROVE  IssueInv'
    <2>1. PICK message : sent' = Append(sent, message) /\ message.type = type
        BY <1>4 DEF SendMultipart
    <2>2. \A k \in 1..Len(sent') : (k \in 1..Len(sent) /\ sent'[k] = sent[k]) \/ sent'[k] = message
        BY <1>1, <2>1
    <2> QED BY <1>1, <1>4, <2>1, <2>2 DEF IssueInv
<1> USE DEF mainVars, procVars, loopVars, runVars, wireVars
<1>5. ASSUME \/ UNCHANGED vars \/ BuildExecutor \/ CreateGraph \/ CreateGraphReturns \/ AllReady
             \/ SyncReturns \/ Destroy \/ StopExecutor \/ ExecutorEnds
      PROVE  IssueInv'
    <2>1. UNCHANGED <<issued, queue, sent>> /\ (api' \in Creating => api \in Creating)
        BY <1>5 DEF vars, StartProcesses, WaitSubProcessStarted, BuildExecutor, CreateGraph, CreateGraphReturns, AllReady,
            SyncReturns, Destroy, StopExecutor, ExecutorEnds, Creating
    <2> QED BY <2>1, <1>2
<1>6. ASSUME NEW kind \in Kind, AddOperator(kind) PROVE IssueInv'
    BY <1>6, <1>3 DEF AddOperator, Creating
<1>7. ASSUME Sync PROVE IssueInv'
    <2>1. "local" \in Kind /\ UNCHANGED <<queue, sent>> /\ api' \notin Creating
          /\ issued' = Append(issued, "local")
        BY <1>7 DEF Sync, Creating, Kind
    <2> QED BY <2>1, <1>3
<1>8. ASSUME NEW r \in Runner, RunnerStep(r) \/ PullReady(r) PROVE IssueInv'
    <2>1. UNCHANGED <<issued, queue, sent, api>>
        BY <1>8 DEF RunnerStep, PullReady, Connect, Subscribe, NotifyProcessStarted, Get,
            NotifyDevicesReady, LoopEnds, WaitForExit, JoinLoop, JoinStream, StartKernel, FinishKernel
    <2> QED BY <2>1, <1>2
<1>9. ASSUME NEW n \in 1..MaxOps, ExecuteBatch(n) PROVE IssueInv'
    <2>1. n \in Nat /\ n > 0 /\ queue <= n /\ SendMultipart("execute", n) /\ queue' = n
          /\ n <= Len(issued) /\ UNCHANGED <<issued, api>>
        BY <1>1, <1>9, BroadcastAssumption DEF ExecuteBatch
    <2> QED BY <2>1, <1>4
<1>10. ASSUME DestroyRunners \/ DestroyReturns PROVE IssueInv'
    <2> PICK n \in Nat : n = queue
        BY <1>1
    <2>1. SendMultipart("destroy", n) /\ queue' = n /\ queue <= n /\ UNCHANGED issued
        BY <1>10 DEF DestroyRunners, DestroyReturns
    <2>2. n <= Len(issued)
        BY <1>1 DEF IssueInv
    <2>3. api' \notin Creating
        BY <1>10 DEF DestroyRunners, DestroyReturns, Creating
    <2> QED BY <2>1, <2>2, <2>3, <1>4
<1> HIDE DEF mainVars, procVars, loopVars, runVars, wireVars
<1> QED BY <1>5, <1>6, <1>7, <1>8, <1>9, <1>10
        DEF BroadcastNext, InCall, ExecutorStep, Call, Rest

\* Where the API thread and the runners are after the steps of each.
LEMMA WaitStep == ReadyInv /\ [BroadcastNext]_vars => ProcInv' /\ WaitInv'
<1> SUFFICES ASSUME ReadyInv, [BroadcastNext]_vars PROVE ProcInv' /\ WaitInv'
    OBVIOUS
<1> DEFINE New == ProcInv' /\ WaitInv'
<1>1. /\ proc \in [Runner -> {"none", "connecting", "up", "joinLoop", "joinStream", "exited"}]
      /\ loop \in [Runner -> {"none", "notify", "poll", "ended"}]
      /\ started \subseteq Runner /\ ready \subseteq Runner
      /\ ProcInv /\ WaitInv
    BY DEF ReadyInv, BroadcastTypeOK
<1> USE DEF mainVars, procVars, loopVars, runVars, wireVars
<1>2. ASSUME UNCHANGED <<api, proc, loop, started, ready, unready>> PROVE New
    BY <1>1, <1>2 DEF ProcInv, WaitInv, Reported
<1>3. ASSUME \/ UNCHANGED vars \/ ExecutorEnds
             \/ \E n \in 1..MaxOps : ExecuteBatch(n)
             \/ \E kind \in Kind : AddOperator(kind)
             \/ \E r \in Runner : \/ Subscribe(r) \/ Get(r) \/ StartKernel(r) \/ FinishKernel(r)
      PROVE  New
    <2>1. UNCHANGED <<api, proc, loop, started, ready, unready>>
        BY <1>3 DEF vars, ExecutorEnds, ExecuteBatch, AddOperator, SendMultipart,
            Subscribe, Get, StartKernel, FinishKernel
    <2> QED BY <2>1, <1>2
<1>4. ASSUME Sync \/ SyncReturns \/ Destroy \/ StopExecutor \/ DestroyRunners \/ DestroyReturns
      PROVE  New
    <2>1. /\ api \notin Creating /\ api' \notin Creating
          /\ UNCHANGED <<proc, loop, started, ready, unready>>
        BY <1>4 DEF Sync, SyncReturns, Destroy, StopExecutor, DestroyRunners, DestroyReturns,
            SendMultipart, Creating
    <2> QED BY <1>1, <2>1 DEF ProcInv, WaitInv, Reported, Creating
<1>5. ASSUME BuildExecutor \/ CreateGraph PROVE New
    BY <1>1, <1>5 DEF BuildExecutor, CreateGraph, StartProcesses, WaitSubProcessStarted, ProcInv, WaitInv, Reported, Remote, Creating
<1>6. ASSUME CreateGraphReturns PROVE New
    BY <1>1, <1>6 DEF CreateGraphReturns, WaitSubProcessStarted, ProcInv, WaitInv, Reported, Creating
<1>7. ASSUME AllReady PROVE New
    BY <1>1, <1>7 DEF AllReady, ProcInv, WaitInv, Reported, Creating
<1>8. ASSUME NEW r \in Runner, PullReady(r) PROVE New
    BY <1>1, <1>8 DEF PullReady, ProcInv, WaitInv, Reported, Creating
<1>9. ASSUME NEW r \in Runner, Connect(r) PROVE New
    <2>1. /\ proc[r] = "connecting" /\ proc' = [proc EXCEPT ![r] = "up"]
          /\ loop' = [loop EXCEPT ![r] = "notify"]
          /\ UNCHANGED <<api, started, ready, unready>>
        BY <1>9 DEF Connect
    <2>2. loop[r] = "none"
        BY <1>1, <2>1 DEF ProcInv
    <2>3. ~Reported(r) /\ \A q \in Runner \ {r} : Reported(q)' = Reported(q)
        BY <1>1, <2>1, <2>2 DEF Reported
    <2> QED BY <1>1, <2>1, <2>2, <2>3 DEF ProcInv, WaitInv, Reported
<1>10. ASSUME NEW r \in Runner,
              NotifyProcessStarted(r) \/ WaitForExit(r) \/ JoinLoop(r) \/ JoinStream(r)
       PROVE  New
    <2>1. /\ UNCHANGED <<api, loop, ready, unready>>
          /\ started' = started \/ started' = started \cup {r}
          /\ proc' = proc \/ \E p \in {"joinLoop", "joinStream", "exited"} : proc' = [proc EXCEPT ![r] = p]
          /\ proc[r] \in {"up", "joinLoop", "joinStream"}
        BY <1>10 DEF NotifyProcessStarted, WaitForExit, JoinLoop, JoinStream
    <2>2. /\ \A q \in Runner \ {r} : proc'[q] = proc[q]
          /\ proc'[r] \notin {"none", "connecting"}
        BY <1>1, <2>1
    <2>3. ProcInv'
        BY <1>1, <2>1, <2>2 DEF ProcInv, Remote
    <2>4. started = Runner => started' = Runner
        BY <1>1, <2>1
    <2>5. WaitInv'
        BY <1>1, <2>1, <2>4 DEF WaitInv, Reported
    <2> QED BY <2>3, <2>5
<1>11. ASSUME NEW r \in Runner, NotifyDevicesReady(r) \/ LoopEnds(r) PROVE New
    <2>1. /\ loop[r] \in {"notify", "poll"}
          /\ \E p \in {"poll", "ended"} : loop' = [loop EXCEPT ![r] = p]
          /\ ready' = ready \/ ready' = ready \cup {r}
          /\ UNCHANGED <<api, proc, started, unready>>
        BY <1>11 DEF NotifyDevicesReady, LoopEnds
    <2>2. Reported(r)' /\ \A q \in Runner \ {r} : loop'[q] = loop[q]
        BY <1>1, <2>1 DEF Reported
    <2>3. proc[r] \notin {"none", "connecting"}
        BY <1>1, <2>1 DEF ProcInv
    <2> QED BY <1>1, <2>1, <2>2, <2>3 DEF ProcInv, WaitInv, Reported
<1> HIDE DEF mainVars, procVars, loopVars, runVars, wireVars, New
<1>12. New
    BY <1>3, <1>4, <1>5, <1>6, <1>7, <1>8, <1>9, <1>10, <1>11
       DEF BroadcastNext, InCall, ExecutorStep, Call, RunnerStep, Rest
<1> QED BY <1>12 DEF New

LEMMA ReadyStep == ReadyInv /\ [BroadcastNext]_vars => ReadyInv'
BY TypeStep, IssueStep, WaitStep DEF ReadyInv

LEMMA ReadyEnough == ReadyInv => NothingSentBeforeReady
<1> SUFFICES ASSUME ReadyInv, NEW i \in 1..Len(sent), sent[i].type = "execute", NEW r \in Runner
             PROVE  r \in started /\ Reported(r)
    BY DEF NothingSentBeforeReady, Reported
<1>1. queue > 0 /\ queue <= Len(issued) /\ queue \in Nat
    BY DEF ReadyInv, IssueInv, BroadcastTypeOK
<1>2. issued # <<>>
    BY <1>1
<1>3. api \notin Creating
    BY <1>2 DEF ReadyInv, IssueInv
<1> QED BY <1>3 DEF ReadyInv, WaitInv, Creating

\* EnsureInitialized returns only when every runner's loop has reported its
\* devices, so no operator is broadcast before.
THEOREM BroadcastReadyFirst == BroadcastSpec => []NothingSentBeforeReady
<1> QED BY ReadyInit, ReadyStep, ReadyEnough, PTL DEF BroadcastSpec

=============================================================================
