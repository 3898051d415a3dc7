--------------------------- MODULE TriggerProofs ---------------------------
(***************************************************************************)
(* Proofs about the trigger path.  The node's own window needs one fact    *)
(* about its cache; the router's window and cooldown rest on an invariant  *)
(* in layers: types, the two tables and the calls that are in flight, and  *)
(* what the captures made so far mean for the tables.                      *)
(***************************************************************************)
EXTENDS TriggerPath, TLAPS

(***************************************************************************)
(* The inductive invariant                                                 *)
(***************************************************************************)

Request == [id : Id, routed : Nat, at : Nat]
Response == [id : Id, ok : BOOLEAN, at : Nat]
Captured == [id : Id, routed : Nat, at : Nat, life : Nat]

ClockTypes ==
    /\ now \in 1 .. MaxTime
    /\ signals \in 0 .. MaxSignals /\ restarts \in 0 .. MaxRestarts

TableTypes ==
    /\ seenTriggers \in [Id -> Nat] /\ acceptedBy \in [Id -> Nat]
    /\ lastAccepted \in [EventName -> 0 .. MaxTime]

CallTypes == requests \in Seq(Request) /\ responses \in Seq(Response)

NodeTypes ==
    /\ cache \in [Id -> [ok : BOOLEAN, expires : Nat]]
    /\ captures \in Seq(Captured)

TriggerTypes == ClockTypes /\ TableTypes /\ CallTypes /\ NodeTypes

(* An entry of the router ends DedupeTtl after the time it was made.       *)
Windows ==
    \A i \in Id :
        /\ acceptedBy[i] = 0 => seenTriggers[i] = 0
        /\ acceptedBy[i] # 0 => /\ acceptedBy[i] <= now
                                /\ seenTriggers[i] = acceptedBy[i] + DedupeTtl

(* A call of the router in flight belongs to the entry of its id, and so   *)
(* does its answer.                                                        *)
CallsOwned ==
    \A m \in DOMAIN requests :
        LET r == requests[m]
        IN /\ r.routed <= r.at /\ r.at <= now /\ now <= r.at + MaxDelay
           /\ r.routed # 0 => r.routed = r.at /\ acceptedBy[r.id] = r.routed

AnswersOwned ==
    \A m \in DOMAIN responses :
        LET p == responses[m]
        IN /\ p.at <= now /\ now <= p.at + MaxDelay
           /\ acceptedBy[p.id] # 0
           /\ acceptedBy[p.id] <= p.at /\ p.at <= acceptedBy[p.id] + MaxDelay

(* The router has one call of an id in flight.                             *)
OneCall ==
    /\ \A m, n \in DOMAIN requests :
           /\ requests[m].routed # 0 /\ requests[n].routed # 0
           /\ requests[m].id = requests[n].id
           => m = n
    /\ \A m, n \in DOMAIN responses : responses[m].id = responses[n].id => m = n
    /\ \A m \in DOMAIN requests, n \in DOMAIN responses :
           requests[m].routed # 0 => requests[m].id # responses[n].id

FlightInv == CallsOwned /\ AnswersOwned /\ OneCall

(* The node remembers the captures of its present life for NodeTtl.        *)
NodeRemembers ==
    \A n \in DOMAIN captures :
        LET c == captures[n]
        IN /\ c.at <= now /\ c.life <= restarts
           /\ c.life = restarts => \/ c.at + NodeTtl <= now
                                   \/ c.at + NodeTtl <= cache[c.id].expires

(* The router remembers a capture it asked for as long as its window is    *)
(* open ...                                                                *)
RouterRemembers ==
    \A n \in DOMAIN captures :
        LET c == captures[n]
        IN /\ c.routed <= now
           /\ c.routed # 0 => \/ c.routed + DedupeTtl <= now
                              \/ acceptedBy[c.id] = c.routed

(* ... and a call that is unanswered or refused came after the window of   *)
(* every capture of its id.                                                *)
CallsAreLater ==
    \A n \in DOMAIN captures :
        LET c == captures[n]
        IN c.routed # 0 =>
             /\ \A m \in DOMAIN requests :
                    requests[m].routed # 0 /\ requests[m].id = c.id
                        => c.routed + DedupeTtl <= requests[m].routed
             /\ \A m \in DOMAIN responses :
                    ~responses[m].ok /\ responses[m].id = c.id
                        => c.routed + DedupeTtl <= acceptedBy[c.id]

CaptureInv == RouterRemembers /\ CallsAreLater

(* Entries and captures of one event are a cooldown apart, where the entry *)
(* is not that of the capture itself.                                      *)
EntriesApart ==
    \A i, j \in Id :
        i # j /\ EventOf[i] = EventOf[j] /\ acceptedBy[i] # 0 /\ acceptedBy[j] # 0
            => Apart(acceptedBy[i], acceptedBy[j], Cooldown)

CapturesApart ==
    \A n \in DOMAIN captures, i \in Id :
        LET c == captures[n]
        IN EventOf[c.id] = EventOf[i] /\ c.routed # 0 /\ acceptedBy[i] # 0
             => \/ Apart(c.routed, acceptedBy[i], Cooldown)
                \/ c.id = i /\ c.routed = acceptedBy[i]

(* While an event cools down, lastAccepted says so.                        *)
Cooling(e, t) == t + Cooldown <= now \/ t <= lastAccepted[e]

CooldownCovers ==
    /\ \A i \in Id : acceptedBy[i] # 0 => Cooling(EventOf[i], acceptedBy[i])
    /\ \A n \in DOMAIN captures :
           captures[n].routed # 0 => Cooling(EventOf[captures[n].id], captures[n].routed)

CooldownInv == EntriesApart /\ CapturesApart /\ CooldownCovers /\ CooldownKept

(***************************************************************************)
(* Lemmas about sequences                                                  *)
(***************************************************************************)

(* What is left of a queue when its head is taken.                         *)
LEMMA TailOf ==
    ASSUME NEW S, NEW s \in Seq(S), s # <<>>
    PROVE  /\ Tail(s) \in Seq(S) /\ Head(s) \in S /\ Head(s) = s[1] /\ 1 \in DOMAIN s
           /\ \A m \in DOMAIN Tail(s) : m + 1 \in DOMAIN s /\ Tail(s)[m] = s[m + 1]
           /\ DOMAIN Tail(s) \subseteq Nat \ {0}
OBVIOUS

(* What is in a queue to which an element was appended.                    *)
LEMMA AppendOf ==
    ASSUME NEW S, NEW s \in Seq(S), NEW e \in S
    PROVE  /\ Append(s, e) \in Seq(S)
           /\ DOMAIN Append(s, e) = DOMAIN s \cup {Len(s) + 1}
           /\ Append(s, e)[Len(s) + 1] = e /\ Len(s) + 1 \notin DOMAIN s
           /\ \A m \in DOMAIN s : Append(s, e)[m] = s[m]
OBVIOUS

(***************************************************************************)
(* Types, and the router's tables                                          *)
(***************************************************************************)

(* Every state of every behaviour has the types of the model.              *)
THEOREM TriggerTyped == Spec => []TriggerTypes
<1> USE TriggerAssumption
<1>1. Init => TriggerTypes
  BY DEF Init, NoAnswer, TriggerTypes, ClockTypes, TableTypes, CallTypes, NodeTypes
<1>2. TriggerTypes /\ [Next]_vars => TriggerTypes'
  <2> SUFFICES ASSUME TriggerTypes, [Next]_vars PROVE TriggerTypes'
    OBVIOUS
  <2> USE DEF TriggerTypes
  <2>1. ClockTypes'
    <3>1. now' \in {now} \cup {t \in {now + 1} : now < MaxTime}
      BY DEF Next, Route, CallDirectly, TakeResponse, HandleTrigger, ChangeLoad, RestartNode,
             Tick, vars
    <3>2. signals' \in {signals} \cup {t \in {signals + 1} : signals < MaxSignals}
      BY DEF Next, Route, CallDirectly, TakeResponse, HandleTrigger, ChangeLoad, RestartNode,
             Tick, vars
    <3>3. restarts' \in {restarts} \cup {t \in {restarts + 1} : restarts < MaxRestarts}
      BY DEF Next, Route, CallDirectly, TakeResponse, HandleTrigger, ChangeLoad, RestartNode,
             Tick, vars
    <3> QED BY <3>1, <3>2, <3>3 DEF ClockTypes
  <2>2. TableTypes'
    <3>1. ASSUME NEW i \in Id, Route(i) PROVE TableTypes'
      <4>1. Pruned(seenTriggers) \in [Id -> Nat] /\ Pruned(acceptedBy) \in [Id -> Nat]
        BY DEF Pruned, TableTypes
      <4>2. now \in Nat /\ now + DedupeTtl \in Nat /\ now \in 0 .. MaxTime
        BY DEF ClockTypes
      <4>3. CASE Duplicate(i) \/ CoolingDown(i)
        BY <3>1, <4>1, <4>3 DEF Route, TableTypes
      <4>4. CASE ~(Duplicate(i) \/ CoolingDown(i))
        BY <3>1, <4>1, <4>2, <4>4 DEF Route, TableTypes
      <4> QED BY <4>3, <4>4
    <3>2. CASE TakeResponse
      <4>1. PICK i : i = Head(responses).id
        OBVIOUS
      <4>2. CASE Head(responses).ok
        BY <3>2, <4>2 DEF TakeResponse, TableTypes, routerVars
      <4>3. CASE Release(i)
        <5>1. seenTriggers' \in [Id -> Nat] /\ acceptedBy' \in [Id -> Nat]
          BY <4>3 DEF Release, TableTypes
        <5>2. PICK e, t : /\ lastAccepted' = [lastAccepted EXCEPT ![e] = t]
                          /\ t = 0 \/ t = lastAccepted[e]
          BY <4>3 DEF Release
        <5>3. e \in EventName => t \in 0 .. MaxTime
          BY <5>2 DEF TableTypes
        <5>4. lastAccepted' \in [EventName -> 0 .. MaxTime]
          BY <5>2, <5>3 DEF TableTypes
        <5> QED BY <5>1, <5>4 DEF TableTypes
      <4> QED BY <3>2, <4>1, <4>2, <4>3 DEF TakeResponse
    <3>3. CASE UNCHANGED routerVars
      BY <3>3 DEF TableTypes, routerVars
    <3> QED BY <3>1, <3>2, <3>3
            DEF Next, CallDirectly, HandleTrigger, ChangeLoad, RestartNode, Tick, vars
  <2>3. CallTypes'
    <3>1. ASSUME NEW i \in Id, Route(i) \/ CallDirectly(i) PROVE CallTypes'
      <4>1. PICK t \in Nat : requests' \in {requests, Append(requests, [id |-> i, routed |-> t, at |-> now])}
        BY <3>1 DEF Route, CallDirectly, ClockTypes
      <4>2. [id |-> i, routed |-> t, at |-> now] \in Request
        BY <4>1 DEF Request, ClockTypes
      <4>3. responses' = responses
        BY <3>1 DEF Route, CallDirectly
      <4>4. Append(requests, [id |-> i, routed |-> t, at |-> now]) \in Seq(Request)
        BY <4>2, AppendOf DEF CallTypes
      <4> QED BY <4>1, <4>3, <4>4 DEF CallTypes
    <3>2. CASE TakeResponse
      BY <3>2, TailOf DEF TakeResponse, CallTypes
    <3>3. CASE HandleTrigger
      <4>1. PICK r : r = Head(requests)
        OBVIOUS
      <4>2. r \in Request /\ requests' \in Seq(Request)
        BY <3>3, <4>1, TailOf DEF HandleTrigger, CallTypes
      <4>3. PICK ok \in BOOLEAN : responses' \in {responses, Append(responses, [id |-> r.id, ok |-> ok, at |-> now])}
        <5>1. r.id \in Id /\ Fresh[r.id].ok \in BOOLEAN
          BY <4>2 DEF Request, Fresh, NoAnswer, NodeTypes
        <5>2. ASSUME NEW ok, ok = IF Cached(r.id) THEN Fresh[r.id].ok ELSE ~busy
              PROVE  ok \in BOOLEAN
          BY <5>1, <5>2
        <5> QED BY <3>3, <4>1, <5>2 DEF HandleTrigger
      <4>4. [id |-> r.id, ok |-> ok, at |-> now] \in Response
        BY <4>2, <4>3 DEF Request, Response, ClockTypes
      <4>5. Append(responses, [id |-> r.id, ok |-> ok, at |-> now]) \in Seq(Response)
        BY <4>4, AppendOf DEF CallTypes
      <4> QED BY <4>2, <4>3, <4>5 DEF CallTypes
    <3>4. CASE RestartNode
      BY <3>4 DEF RestartNode, CallTypes
    <3>5. CASE UNCHANGED <<requests, responses>>
      BY <3>5 DEF CallTypes
    <3> QED BY <3>1, <3>2, <3>3, <3>4, <3>5 DEF Next, ChangeLoad, Tick, vars
  <2>4. NodeTypes'
    <3>1. CASE HandleTrigger
      <4>1. PICK r \in Request : r = Head(requests)
        BY <3>1, TailOf DEF HandleTrigger, CallTypes
      <4>2. Fresh \in [Id -> [ok : BOOLEAN, expires : Nat]]
        BY DEF Fresh, NoAnswer, NodeTypes
      <4>3. PICK ok \in BOOLEAN : ok = IF Cached(r.id) THEN Fresh[r.id].ok ELSE ~busy
        BY <4>1, <4>2 DEF Request
      <4>4. cache' \in [Id -> [ok : BOOLEAN, expires : Nat]]
        BY <3>1, <4>1, <4>2, <4>3 DEF HandleTrigger, Request, ClockTypes
      <4>5. PICK c : /\ c = [id |-> r.id, routed |-> r.routed, at |-> now, life |-> restarts]
                     /\ captures' \in {captures, Append(captures, c)}
        BY <3>1, <4>1 DEF HandleTrigger
      <4>6. c \in Captured
        BY <4>5, <4>1 DEF Captured, Request, ClockTypes
      <4>7. Append(captures, c) \in Seq(Captured)
        BY <4>6, AppendOf DEF NodeTypes
      <4> QED BY <4>4, <4>5, <4>7 DEF NodeTypes
    <3>2. CASE RestartNode
      BY <3>2 DEF RestartNode, NodeTypes, NoAnswer
    <3>3. CASE UNCHANGED <<cache, captures>>
      BY <3>3 DEF NodeTypes
    <3> QED BY <3>1, <3>2, <3>3
            DEF Next, Route, CallDirectly, TakeResponse, ChangeLoad, Tick, vars, nodeVars
  <2> QED BY <2>1, <2>2, <2>3, <2>4
<1> QED BY <1>1, <1>2, PTL DEF Spec

LetThrough(i) == ~(Duplicate(i) \/ CoolingDown(i))

(* What evaluate does to the router's tables: it prunes, and perhaps lets  *)
(* an id through that has no entry and whose event has cooled down.        *)
LEMMA RouteTables ==
    ASSUME TriggerTypes, NEW i \in Id, Route(i)
    PROVE  /\ \A j \in Id \ {i} :
                  /\ seenTriggers'[j] = IF Lapsed(j) THEN 0 ELSE seenTriggers[j]
                  /\ acceptedBy'[j] = IF Lapsed(j) THEN 0 ELSE acceptedBy[j]
           /\ LetThrough(i) =>
                  /\ seenTriggers'[i] = now + DedupeTtl /\ acceptedBy'[i] = now
                  /\ Lapsed(i) \/ seenTriggers[i] = 0
                  /\ lastAccepted' = [lastAccepted EXCEPT ![EventOf[i]] = now]
                  /\ \/ lastAccepted[EventOf[i]] = 0
                     \/ lastAccepted[EventOf[i]] + Cooldown <= now
                  /\ requests' = Append(requests, [id |-> i, routed |-> now, at |-> now])
           /\ ~LetThrough(i) =>
                  /\ seenTriggers'[i] = IF Lapsed(i) THEN 0 ELSE seenTriggers[i]
                  /\ acceptedBy'[i] = IF Lapsed(i) THEN 0 ELSE acceptedBy[i]
                  /\ lastAccepted' = lastAccepted /\ requests' = requests
<1>1. DOMAIN Pruned(seenTriggers) = Id /\ DOMAIN Pruned(acceptedBy) = Id
  BY DEF Pruned
<1>2. \A j \in Id : /\ Pruned(seenTriggers)[j] = IF Lapsed(j) THEN 0 ELSE seenTriggers[j]
                    /\ Pruned(acceptedBy)[j] = IF Lapsed(j) THEN 0 ELSE acceptedBy[j]
  BY DEF Pruned
<1>3. CASE LetThrough(i)
  <2>1. /\ seenTriggers' = [Pruned(seenTriggers) EXCEPT ![i] = now + DedupeTtl]
        /\ acceptedBy' = [Pruned(acceptedBy) EXCEPT ![i] = now]
        /\ lastAccepted' = [lastAccepted EXCEPT ![EventOf[i]] = now]
        /\ requests' = Append(requests, [id |-> i, routed |-> now, at |-> now])
    BY <1>3 DEF Route, LetThrough
  <2>2. Lapsed(i) \/ seenTriggers[i] = 0
    BY <1>2, <1>3 DEF LetThrough, Duplicate
  <2>3. PICK t : t = lastAccepted[EventOf[i]]
    OBVIOUS
  <2>4. t \in Nat
    BY <2>3 DEF TriggerTypes, TableTypes, EventName
  <2>5. t = 0 \/ t + Cooldown <= now
    BY <1>3, <2>3, <2>4, TriggerAssumption DEF LetThrough, CoolingDown, TriggerTypes, ClockTypes
  <2> QED BY <1>1, <1>2, <1>3, <2>1, <2>2, <2>3, <2>5
<1>4. CASE ~LetThrough(i)
  <2>1. /\ seenTriggers' = Pruned(seenTriggers) /\ acceptedBy' = Pruned(acceptedBy)
        /\ lastAccepted' = lastAccepted /\ requests' = requests
    BY <1>4 DEF Route, LetThrough
  <2> QED BY <1>2, <1>4, <2>1
<1> QED BY <1>3, <1>4

(* What release does to the router's tables.                               *)
LEMMA ReleaseTables ==
    ASSUME TriggerTypes, NEW i \in Id, Release(i)
    PROVE  /\ \A j \in Id \ {i} : /\ seenTriggers'[j] = seenTriggers[j]
                                  /\ acceptedBy'[j] = acceptedBy[j]
           /\ seenTriggers'[i] = 0 /\ acceptedBy'[i] = 0
           /\ \A e \in EventName :
                  lastAccepted'[e] = IF /\ e = EventOf[i] /\ acceptedBy[i] # 0
                                        /\ lastAccepted[e] = acceptedBy[i]
                                     THEN 0 ELSE lastAccepted[e]
<1>1. PICK t : /\ lastAccepted' = [lastAccepted EXCEPT ![EventOf[i]] = t]
               /\ t = IF acceptedBy[i] # 0 /\ lastAccepted[EventOf[i]] = acceptedBy[i]
                      THEN 0 ELSE lastAccepted[EventOf[i]]
  BY DEF Release
<1>2. lastAccepted \in [EventName -> Nat] /\ EventOf[i] \in EventName
  BY TriggerAssumption DEF TriggerTypes, TableTypes, EventName
<1>3. \A e \in EventName :
         lastAccepted'[e] = IF /\ e = EventOf[i] /\ acceptedBy[i] # 0
                               /\ lastAccepted[e] = acceptedBy[i]
                            THEN 0 ELSE lastAccepted[e]
  BY <1>1, <1>2
<1> QED BY <1>3 DEF Release, TriggerTypes, TableTypes

(* The steps as the router sees them.                                      *)
LEMMA RouterSteps ==
    ASSUME TriggerTypes, [Next]_vars
    PROVE  \/ \E i \in Id : Route(i)
           \/ responses # <<>> /\ ~Head(responses).ok /\ Release(Head(responses).id)
           \/ UNCHANGED routerVars
BY DEF Next, CallDirectly, HandleTrigger, TakeResponse, ChangeLoad, RestartNode, Tick, vars

(* Only Tick moves the clock.                                              *)
LEMMA ClockSteps ==
    ASSUME TriggerTypes, [Next]_vars
    PROVE  /\ now \in Nat \ {0} /\ now' \in Nat \ {0}
           /\ now' = now \/ (now' = now + 1 /\ Tick)
<1>1. now' = now \/ (now' = now + 1 /\ Tick)
  BY DEF Next, Route, CallDirectly, TakeResponse, HandleTrigger, ChangeLoad, RestartNode, Tick,
         vars
<1> QED BY <1>1 DEF TriggerTypes, ClockTypes

(* An entry keeps its time until it is pruned at the end of its window.    *)
LEMMA WindowsStep ==
    ASSUME TriggerTypes, TriggerTypes', Windows, [Next]_vars
    PROVE  Windows'
<1> USE TriggerAssumption
<1>0. now \in Nat /\ now' \in Nat /\ now <= now' /\ now # 0
  BY ClockSteps
<1>1. ASSUME NEW i \in Id, Route(i) PROVE Windows'
  <2>1. now' = now
    BY <1>1 DEF Route
  <2>2. ASSUME NEW j \in Id
        PROVE  \/ acceptedBy'[j] = now /\ seenTriggers'[j] = now + DedupeTtl
               \/ acceptedBy'[j] = 0 /\ seenTriggers'[j] = 0
               \/ acceptedBy'[j] = acceptedBy[j] /\ seenTriggers'[j] = seenTriggers[j]
    BY <1>1, RouteTables DEF Windows
  <2> QED BY <1>0, <2>1, <2>2 DEF Windows
<1>2. ASSUME responses # <<>>, Release(Head(responses).id) PROVE Windows'
  <2>1. PICK i \in Id : i = Head(responses).id
    <3>1. Head(responses) \in Response
      BY <1>2, TailOf DEF TriggerTypes, CallTypes
    <3> QED BY <3>1 DEF Response
  <2>2. ASSUME NEW j \in Id
        PROVE  \/ acceptedBy'[j] = 0 /\ seenTriggers'[j] = 0
               \/ acceptedBy'[j] = acceptedBy[j] /\ seenTriggers'[j] = seenTriggers[j]
    BY <1>2, <2>1, ReleaseTables
  <2> QED BY <1>0, <2>2 DEF Windows, TriggerTypes, TableTypes
<1>3. CASE UNCHANGED routerVars
  BY <1>0, <1>3 DEF Windows, routerVars, TriggerTypes, TableTypes
<1> QED BY <1>1, <1>2, <1>3, RouterSteps

(* The router's windows.                                                   *)
THEOREM EntriesExpire == Spec => []Windows
<1>1. Init => Windows
  BY DEF Init, Windows
<1>2. TriggerTypes /\ TriggerTypes' /\ Windows /\ [Next]_vars => Windows'
  BY WindowsStep
<1> QED BY <1>1, <1>2, TriggerTyped, PTL DEF Spec

(* prune and release keep both tables of the router to the same ids.       *)
THEOREM TablesStayEqual == Spec => []TablesAgree
<1>1. TriggerTypes /\ Windows => TablesAgree
  BY TriggerAssumption DEF TriggerTypes, TableTypes, Windows, TablesAgree
<1> QED BY <1>1, TriggerTyped, EntriesExpire, PTL

(***************************************************************************)
(* The calls in flight                                                     *)
(***************************************************************************)

(* A call comes and goes within the window of its entry.                   *)
Prompt == 2 * MaxDelay < DedupeTtl

(* What the elements of the queues are.                                    *)
LEMMA QueueTypes ==
    ASSUME TriggerTypes
    PROVE  /\ \A m \in DOMAIN requests : /\ requests[m].id \in Id
                                         /\ requests[m].routed \in Nat /\ requests[m].at \in Nat
           /\ \A m \in DOMAIN responses : responses[m].id \in Id /\ responses[m].at \in Nat
           /\ \A n \in DOMAIN captures : /\ captures[n].id \in Id
                                         /\ captures[n].routed \in Nat /\ captures[n].at \in Nat
                                         /\ captures[n].life \in Nat
<1>1. \A m \in DOMAIN requests : requests[m] \in Request
  BY DEF TriggerTypes, CallTypes
<1>2. \A m \in DOMAIN responses : responses[m] \in Response
  BY DEF TriggerTypes, CallTypes
<1>3. \A n \in DOMAIN captures : captures[n] \in Captured
  BY DEF TriggerTypes, NodeTypes
<1> QED BY <1>1, <1>2, <1>3 DEF Request, Response, Captured

(* The entry of an id with a call in flight is there and is not pruned.    *)
LEMMA InFlightOpen ==
    ASSUME TriggerTypes, Windows, FlightInv, Prompt
    PROVE  /\ \A m \in DOMAIN requests :
                  requests[m].routed # 0 => /\ acceptedBy[requests[m].id] # 0
                                            /\ seenTriggers[requests[m].id] # 0
                                            /\ ~Lapsed(requests[m].id)
           /\ \A m \in DOMAIN responses : /\ acceptedBy[responses[m].id] # 0
                                          /\ seenTriggers[responses[m].id] # 0
                                          /\ ~Lapsed(responses[m].id)
<1> USE TriggerAssumption
<1>1. ASSUME NEW i \in Id, acceptedBy[i] # 0, now <= acceptedBy[i] + 2 * MaxDelay
      PROVE  seenTriggers[i] # 0 /\ ~Lapsed(i)
  BY <1>1 DEF Windows, Prompt, Lapsed, TriggerTypes, TableTypes, ClockTypes
<1>2. ASSUME NEW m \in DOMAIN requests, requests[m].routed # 0
      PROVE  acceptedBy[requests[m].id] # 0 /\ now <= acceptedBy[requests[m].id] + 2 * MaxDelay
  <2>1. /\ acceptedBy[requests[m].id] = requests[m].routed /\ requests[m].routed = requests[m].at
        /\ now <= requests[m].at + MaxDelay
    BY <1>2 DEF FlightInv, CallsOwned
  <2> QED BY <1>2, <2>1, QueueTypes DEF TriggerTypes, ClockTypes
<1>3. ASSUME NEW m \in DOMAIN responses
      PROVE  acceptedBy[responses[m].id] # 0 /\ now <= acceptedBy[responses[m].id] + 2 * MaxDelay
  <2>1. /\ acceptedBy[responses[m].id] # 0 /\ now <= responses[m].at + MaxDelay
        /\ responses[m].at <= acceptedBy[responses[m].id] + MaxDelay
    BY DEF FlightInv, AnswersOwned
  <2> QED BY <2>1, QueueTypes DEF TriggerTypes, ClockTypes, TableTypes
<1> QED BY <1>1, <1>2, <1>3, QueueTypes

(* Every call and every answer in flight still has its own entry, so that  *)
(* no refusal is taken for that of a later call.                           *)
LEMMA FlightStep ==
    ASSUME TriggerTypes, TriggerTypes', Windows, FlightInv, Prompt, [Next]_vars
    PROVE  FlightInv'
<1> USE TriggerAssumption
<1>0. /\ now \in Nat \ {0} /\ now' \in Nat \ {0} /\ MaxDelay \in Nat
      /\ acceptedBy \in [Id -> Nat]
  BY ClockSteps DEF TriggerTypes, TableTypes
<1>1. ASSUME NEW i \in Id, Route(i) PROVE FlightInv'
  <2>1. now' = now /\ responses' = responses
    BY <1>1 DEF Route
  <2>2. \A j \in Id : ~Lapsed(j) /\ seenTriggers[j] # 0 => acceptedBy'[j] = acceptedBy[j]
    BY <1>1, RouteTables
  <2>3. AnswersOwned'
    BY <2>1, <2>2, InFlightOpen, QueueTypes DEF FlightInv, AnswersOwned
  <2>4. CASE LetThrough(i)
    <3>1. PICK r \in Request : r = [id |-> i, routed |-> now, at |-> now]
      BY <1>0 DEF Request
    <3>2. requests' = Append(requests, r) /\ acceptedBy'[i] = now
          /\ (Lapsed(i) \/ seenTriggers[i] = 0)
      BY <1>1, <2>4, <3>1, RouteTables
    <3>3. /\ DOMAIN requests' = DOMAIN requests \cup {Len(requests) + 1}
          /\ requests'[Len(requests) + 1] = r
          /\ \A m \in DOMAIN requests : requests'[m] = requests[m]
      BY <3>2, AppendOf DEF TriggerTypes, CallTypes
    <3>4. \A m \in DOMAIN requests : requests[m].routed # 0 => requests[m].id # i
      BY <3>2, InFlightOpen
    <3>5. \A m \in DOMAIN responses : responses[m].id # i
      BY <3>2, InFlightOpen
    <3>6. CallsOwned'
      <4>1. ASSUME NEW m \in DOMAIN requests, requests[m].routed # 0
            PROVE  acceptedBy'[requests[m].id] = requests[m].routed
        BY <2>2, <4>1, InFlightOpen, QueueTypes DEF FlightInv, CallsOwned
      <4> QED BY <1>0, <2>1, <3>1, <3>2, <3>3, <4>1 DEF FlightInv, CallsOwned
    <3>7. OneCall'
      BY <2>1, <3>1, <3>3, <3>4, <3>5 DEF FlightInv, OneCall
    <3> QED BY <2>3, <3>6, <3>7 DEF FlightInv
  <2>5. CASE ~LetThrough(i)
    <3>1. requests' = requests
      BY <1>1, <2>5, RouteTables
    <3>2. CallsOwned'
      <4>1. ASSUME NEW m \in DOMAIN requests, requests[m].routed # 0
            PROVE  acceptedBy'[requests[m].id] = requests[m].routed
        BY <2>2, <4>1, InFlightOpen, QueueTypes DEF FlightInv, CallsOwned
      <4> QED BY <2>1, <3>1, <4>1 DEF FlightInv, CallsOwned
    <3> QED BY <2>1, <2>3, <3>1, <3>2 DEF FlightInv, OneCall
  <2> QED BY <2>4, <2>5
<1>2. ASSUME NEW i \in Id, CallDirectly(i) PROVE FlightInv'
  <2>1. now' = now /\ responses' = responses /\ acceptedBy' = acceptedBy
    BY <1>2 DEF CallDirectly, routerVars
  <2>2. PICK r \in Request : r = [id |-> i, routed |-> 0, at |-> now]
    BY <1>0 DEF Request
  <2>3. /\ DOMAIN requests' = DOMAIN requests \cup {Len(requests) + 1}
        /\ requests'[Len(requests) + 1] = r
        /\ \A m \in DOMAIN requests : requests'[m] = requests[m]
    BY <1>2, <2>2, AppendOf DEF CallDirectly, TriggerTypes, CallTypes
  <2>4. CallsOwned'
    BY <1>0, <2>1, <2>2, <2>3 DEF FlightInv, CallsOwned
  <2>5. OneCall' /\ AnswersOwned'
    BY <2>1, <2>2, <2>3 DEF FlightInv, OneCall, AnswersOwned
  <2> QED BY <2>4, <2>5 DEF FlightInv
<1>3. CASE TakeResponse
  <2>1. now' = now /\ requests' = requests /\ responses # <<>> /\ responses' = Tail(responses)
    BY <1>3 DEF TakeResponse
  <2>2. /\ 1 \in DOMAIN responses /\ Head(responses) = responses[1]
        /\ \A m \in DOMAIN responses' : /\ m + 1 \in DOMAIN responses /\ m \in Nat \ {0}
                                        /\ responses'[m] = responses[m + 1]
    BY <2>1, TailOf DEF TriggerTypes, CallTypes
  <2>3. PICK i \in Id : i = Head(responses).id
    BY <2>2, QueueTypes
  <2>4. \A j \in Id \ {i} : acceptedBy'[j] = acceptedBy[j]
    BY <1>3, <2>3, ReleaseTables DEF TakeResponse, routerVars
  <2>5. \A m \in DOMAIN responses' : responses'[m].id \in Id \ {i}
    BY <2>2, <2>3, QueueTypes DEF FlightInv, OneCall
  <2>6. \A m \in DOMAIN requests : requests[m].routed # 0 => requests[m].id \in Id \ {i}
    BY <2>2, <2>3, QueueTypes DEF FlightInv, OneCall
  <2>7. CallsOwned'
    BY <2>1, <2>4, <2>6 DEF FlightInv, CallsOwned
  <2>8. AnswersOwned'
    BY <2>1, <2>2, <2>4, <2>5 DEF FlightInv, AnswersOwned
  <2>9. OneCall'
    BY <2>1, <2>2 DEF FlightInv, OneCall
  <2> QED BY <2>7, <2>8, <2>9 DEF FlightInv
<1>4. CASE HandleTrigger
  <2>1. now' = now /\ acceptedBy' = acceptedBy /\ requests # <<>> /\ requests' = Tail(requests)
    BY <1>4 DEF HandleTrigger, routerVars
  <2>2. /\ 1 \in DOMAIN requests /\ Head(requests) = requests[1]
        /\ \A m \in DOMAIN requests' : /\ m + 1 \in DOMAIN requests /\ m \in Nat \ {0}
                                       /\ requests'[m] = requests[m + 1]
    BY <2>1, TailOf DEF TriggerTypes, CallTypes
  <2>3. CallsOwned'
    BY <2>1, <2>2 DEF FlightInv, CallsOwned
  <2>4. CASE Head(requests).routed = 0
    <3>1. responses' = responses
      BY <1>4, <2>4 DEF HandleTrigger
    <3> QED BY <2>1, <2>2, <2>3, <3>1 DEF FlightInv, AnswersOwned, OneCall
  <2>5. CASE Head(requests).routed # 0
    <3>1. PICK p : /\ responses' = Append(responses, p) /\ p.id = requests[1].id /\ p.at = now
      <4>1. \E ok : responses' = Append(responses, [id |-> Head(requests).id, ok |-> ok, at |-> now])
        BY <1>4, <2>5 DEF HandleTrigger
      <4>2. PICK ok : responses' = Append(responses, [id |-> Head(requests).id, ok |-> ok, at |-> now])
        BY <4>1
      <4>3. PICK q : q = [id |-> Head(requests).id, ok |-> ok, at |-> now]
        OBVIOUS
      <4>4. q.id = requests[1].id /\ q.at = now
        BY <2>2, <4>3
      <4> QED BY <4>2, <4>3, <4>4
    <3>2. /\ DOMAIN responses' = DOMAIN responses \cup {Len(responses) + 1}
          /\ responses'[Len(responses) + 1] = p
          /\ \A m \in DOMAIN responses : responses'[m] = responses[m]
      BY <3>1 DEF TriggerTypes, CallTypes
    <3>3. AnswersOwned'
      <4>1. /\ acceptedBy[p.id] # 0 /\ acceptedBy[p.id] = requests[1].at
            /\ requests[1].at <= now /\ now <= requests[1].at + MaxDelay
        BY <2>2, <2>5, <3>1 DEF FlightInv, CallsOwned
      <4>2. acceptedBy[p.id] <= p.at /\ p.at <= acceptedBy[p.id] + MaxDelay
        BY <3>1, <4>1
      <4>3. p.at <= now' /\ now' <= p.at + MaxDelay
        BY <1>0, <2>1, <3>1
      <4>4. ASSUME NEW m \in DOMAIN responses
            PROVE  LET q == responses'[m]
                   IN /\ q.at <= now' /\ now' <= q.at + MaxDelay
                      /\ acceptedBy'[q.id] # 0
                      /\ acceptedBy'[q.id] <= q.at /\ q.at <= acceptedBy'[q.id] + MaxDelay
        BY <2>1, <3>2 DEF FlightInv, AnswersOwned
      <4> QED BY <2>1, <3>2, <4>1, <4>2, <4>3, <4>4 DEF AnswersOwned
    <3>4. OneCall'
      BY <2>2, <2>5, <3>1, <3>2 DEF FlightInv, OneCall
    <3> QED BY <2>3, <3>3, <3>4 DEF FlightInv
  <2> QED BY <2>4, <2>5
<1>5. CASE RestartNode
  BY <1>5 DEF RestartNode, FlightInv, CallsOwned, AnswersOwned, OneCall
<1>6. CASE Tick
  <2>1. now' = now + 1 /\ UNCHANGED <<acceptedBy, requests, responses>>
    BY <1>6 DEF Tick, routerVars
  <2>2. \A m \in DOMAIN requests : requests[m].at <= now' /\ now' <= requests[m].at + MaxDelay
    BY <1>0, <1>6, <2>1, QueueTypes DEF Tick, FlightInv, CallsOwned
  <2>3. \A m \in DOMAIN responses : responses[m].at <= now' /\ now' <= responses[m].at + MaxDelay
    BY <1>0, <1>6, <2>1, QueueTypes DEF Tick, FlightInv, AnswersOwned
  <2> QED BY <2>1, <2>2, <2>3 DEF FlightInv, CallsOwned, AnswersOwned, OneCall
<1>7. CASE UNCHANGED <<now, acceptedBy, requests, responses>>
  BY <1>7 DEF FlightInv, CallsOwned, AnswersOwned, OneCall
<1> QED BY <1>1, <1>2, <1>3, <1>4, <1>5, <1>6, <1>7
        DEF Next, ChangeLoad, vars, routerVars

(* Calls and answers find the entry they belong to, if a call and its      *)
(* answer take less than the deduplication window together.                *)
THEOREM CallsFindTheirEntry == Prompt => (Spec => []FlightInv)
<1> SUFFICES ASSUME Prompt PROVE Spec => []FlightInv
  OBVIOUS
<1>1. Init => FlightInv
  BY DEF Init, FlightInv, CallsOwned, AnswersOwned, OneCall
<1>2. TriggerTypes /\ TriggerTypes' /\ Windows /\ FlightInv /\ [Next]_vars => FlightInv'
  BY FlightStep
<1> QED BY <1>1, <1>2, TriggerTyped, EntriesExpire, PTL DEF Spec

(* A call is never stamped later than it is sent.                          *)
StampedInOrder == \A m \in DOMAIN requests : requests[m].routed <= requests[m].at

(* The type invariant that the run checks.                                 *)
THEOREM TriggerTypeOK == Spec => []TypeOK
<1> USE TriggerAssumption
<1>1. Init => StampedInOrder
  BY DEF Init, StampedInOrder
<1>2. TriggerTypes /\ StampedInOrder /\ [Next]_vars => StampedInOrder'
  <2> SUFFICES ASSUME TriggerTypes, StampedInOrder, [Next]_vars PROVE StampedInOrder'
    OBVIOUS
  <2>1. ASSUME NEW i \in Id, Route(i) \/ CallDirectly(i) PROVE StampedInOrder'
    <3>1. PICK t \in Nat : /\ t <= now
                           /\ \/ requests' = requests
                              \/ requests' = Append(requests, [id |-> i, routed |-> t, at |-> now])
      BY <2>1 DEF Route, CallDirectly, TriggerTypes, ClockTypes
    <3> PICK r \in Request : r = [id |-> i, routed |-> t, at |-> now]
      BY <3>1 DEF Request, TriggerTypes, ClockTypes
    <3>2. CASE requests' = requests
      BY <3>2 DEF StampedInOrder
    <3>3. CASE requests' = Append(requests, r)
      <4>1. /\ DOMAIN requests' = DOMAIN requests \cup {Len(requests) + 1}
            /\ requests'[Len(requests) + 1] = r
            /\ \A m \in DOMAIN requests : requests'[m] = requests[m]
        BY <3>3, AppendOf DEF TriggerTypes, CallTypes
      <4> QED BY <3>1, <4>1 DEF StampedInOrder
    <3> QED BY <3>1, <3>2, <3>3
  <2>2. CASE HandleTrigger
    <3>1. requests # <<>> /\ requests' = Tail(requests)
      BY <2>2 DEF HandleTrigger
    <3>2. \A m \in DOMAIN requests' : m + 1 \in DOMAIN requests /\ requests'[m] = requests[m + 1]
      BY <3>1, TailOf DEF TriggerTypes, CallTypes
    <3> QED BY <3>2 DEF StampedInOrder
  <2>3. CASE RestartNode
    BY <2>3 DEF RestartNode, StampedInOrder
  <2>4. CASE UNCHANGED requests
    BY <2>4 DEF StampedInOrder
  <2> QED BY <2>1, <2>2, <2>3, <2>4 DEF Next, TakeResponse, ChangeLoad, Tick, vars
<1>3. TriggerTypes /\ StampedInOrder => TypeOK
  BY DEF TriggerTypes, ClockTypes, TableTypes, NodeTypes, StampedInOrder, TypeOK
<1> QED BY <1>1, <1>2, <1>3, TriggerTyped, PTL DEF Spec

(***************************************************************************)
(* The node's window                                                       *)
(***************************************************************************)

(* What a step does to the captures: only HandleTrigger adds one, for a    *)
(* call at the head of the queue whose id is not in the cache.             *)
LEMMA CaptureSteps ==
    ASSUME TriggerTypes, [Next]_vars
    PROVE  \/ captures' = captures
           \/ \E c \in Captured :
                  /\ c = [id |-> requests[1].id, routed |-> requests[1].routed,
                          at |-> now, life |-> restarts]
                  /\ captures' = Append(captures, c)
                  /\ DOMAIN captures' = DOMAIN captures \cup {Len(captures) + 1}
                  /\ captures'[Len(captures) + 1] = c
                  /\ \A n \in DOMAIN captures : captures'[n] = captures[n]
                  /\ 1 \in DOMAIN requests /\ HandleTrigger
                  /\ cache[c.id].expires <= now
                  /\ cache'[c.id].expires = now + NodeTtl
<1> SUFFICES ASSUME captures' # captures
             PROVE  \E c \in Captured :
                  /\ c = [id |-> requests[1].id, routed |-> requests[1].routed,
                          at |-> now, life |-> restarts]
                  /\ captures' = Append(captures, c)
                  /\ DOMAIN captures' = DOMAIN captures \cup {Len(captures) + 1}
                  /\ captures'[Len(captures) + 1] = c
                  /\ \A n \in DOMAIN captures : captures'[n] = captures[n]
                  /\ 1 \in DOMAIN requests /\ HandleTrigger
                  /\ cache[c.id].expires <= now
                  /\ cache'[c.id].expires = now + NodeTtl
  OBVIOUS
<1>1. HandleTrigger
  BY DEF Next, Route, CallDirectly, TakeResponse, ChangeLoad, RestartNode, Tick, vars, nodeVars
<1>2. /\ requests # <<>> /\ 1 \in DOMAIN requests /\ Head(requests) = requests[1]
      /\ requests[1] \in Request
  BY <1>1, TailOf DEF HandleTrigger, TriggerTypes, CallTypes
<1>3. PICK c \in Captured : c = [id |-> requests[1].id, routed |-> requests[1].routed,
                                 at |-> now, life |-> restarts]
  <2>1. requests[1].id \in Id /\ requests[1].routed \in Nat
    BY <1>2 DEF Request
  <2>2. now \in Nat /\ restarts \in Nat
    BY TriggerAssumption DEF TriggerTypes, ClockTypes
  <2> QED BY <2>1, <2>2 DEF Captured
<1>4. captures' = Append(captures, c) /\ ~Cached(c.id)
  BY <1>1, <1>2, <1>3 DEF HandleTrigger
<1>5. cache[c.id].expires <= now
  BY <1>4 DEF Cached, Fresh, NoAnswer, TriggerTypes, ClockTypes, NodeTypes, Captured
<1>6. cache'[c.id].expires = now + NodeTtl
  <2>1. PICK ok : cache' = [Fresh EXCEPT ![c.id] = [ok |-> ok, expires |-> now + NodeTtl]]
    BY <1>1, <1>2, <1>3, <1>4 DEF HandleTrigger
  <2>2. c.id \in Id /\ DOMAIN Fresh = Id
    BY DEF Captured, Fresh
  <2> QED BY <2>1, <2>2
<1>7. /\ DOMAIN captures' = DOMAIN captures \cup {Len(captures) + 1}
      /\ captures'[Len(captures) + 1] = c
      /\ \A n \in DOMAIN captures : captures'[n] = captures[n]
  BY <1>4, AppendOf DEF TriggerTypes, NodeTypes
<1> QED BY <1>1, <1>2, <1>3, <1>4, <1>5, <1>6, <1>7

(* An entry of the cache lives until its time is over or the node dies.    *)
LEMMA CacheSteps ==
    ASSUME TriggerTypes, [Next]_vars, NEW i \in Id
    PROVE  \/ cache'[i].expires = cache[i].expires /\ restarts' = restarts
           \/ cache[i].expires <= now /\ restarts' = restarts
           \/ restarts' = restarts + 1 /\ captures' = captures
<1>1. CASE HandleTrigger
  <2>1. restarts' = restarts
    BY <1>1 DEF HandleTrigger
  <2>2. PICK j, v : /\ cache' = Fresh \/ cache' = [Fresh EXCEPT ![j] = v]
                    /\ cache' # Fresh => ~Cached(j)
    BY <1>1 DEF HandleTrigger
  <2>3. cache[i].expires \in Nat /\ now \in Nat
    BY DEF TriggerTypes, NodeTypes, ClockTypes
  <2>4. CASE cache[i].expires <= now
    BY <2>1, <2>4
  <2>5. CASE ~(cache[i].expires <= now)
    <3>1. Fresh[i] = cache[i] /\ DOMAIN Fresh = Id
      BY <2>5 DEF Fresh
    <3>2. Cached(i)
      BY <2>3, <2>5, <3>1 DEF Cached
    <3> QED BY <2>1, <2>2, <3>1, <3>2
  <2> QED BY <2>4, <2>5
<1>2. CASE RestartNode
  BY <1>2 DEF RestartNode
<1>3. CASE UNCHANGED <<cache, restarts>>
  BY <1>3
<1> QED BY <1>1, <1>2, <1>3
        DEF Next, Route, CallDirectly, TakeResponse, ChangeLoad, Tick, vars, nodeVars

(* The first half of IdempotentWindow: in one life of the node captures of *)
(* an id are NodeTtl apart.                                                *)
NodeWindow ==
    \A p \in Pairs :
        LET c == captures[p[1]]
            d == captures[p[2]]
        IN c.id = d.id /\ c.life = d.life => Apart(c.at, d.at, NodeTtl)

(* The node's window holds whatever its clients do.                        *)
THEOREM NodeWindowKept == Spec => [](NodeRemembers /\ NodeWindow)
<1> USE TriggerAssumption
<1>1. Init => NodeRemembers /\ NodeWindow
  BY DEF Init, NodeRemembers, NodeWindow, Pairs
<1>2. TriggerTypes /\ TriggerTypes' /\ NodeRemembers /\ [Next]_vars => NodeRemembers'
  <2> SUFFICES ASSUME TriggerTypes, TriggerTypes', NodeRemembers, [Next]_vars,
                      NEW n \in DOMAIN captures'
               PROVE  /\ captures'[n].at <= now' /\ captures'[n].life <= restarts'
                      /\ captures'[n].life = restarts' =>
                           \/ captures'[n].at + NodeTtl <= now'
                           \/ captures'[n].at + NodeTtl <= cache'[captures'[n].id].expires
    BY DEF NodeRemembers
  <2>1. /\ now \in Nat /\ now' \in Nat /\ now <= now' /\ restarts \in Nat
        /\ cache \in [Id -> [ok : BOOLEAN, expires : Nat]]
    BY ClockSteps DEF TriggerTypes, ClockTypes, NodeTypes
  <2>2. CASE n \in DOMAIN captures /\ captures'[n] = captures[n]
    <3>1. PICK c : c = captures[n]
      OBVIOUS
    <3>2. c.id \in Id /\ c.at \in Nat /\ c.life \in Nat
      BY <2>2, <3>1, QueueTypes
    <3>3. /\ c.at <= now /\ c.life <= restarts
          /\ c.life = restarts => c.at + NodeTtl <= now \/ c.at + NodeTtl <= cache[c.id].expires
      BY <2>2, <3>1 DEF NodeRemembers
    <3>4. \/ cache'[c.id].expires = cache[c.id].expires /\ restarts' = restarts
          \/ cache[c.id].expires <= now /\ restarts' = restarts
          \/ restarts' = restarts + 1
      BY <3>2, CacheSteps
    <3>5. cache[c.id].expires \in Nat
      BY <2>1, <3>2
    <3> QED BY <2>1, <2>2, <3>1, <3>2, <3>3, <3>4, <3>5
  <2>3. ASSUME NEW c \in Captured, captures'[n] = c, c.at = now, c.life = restarts,
               HandleTrigger, cache'[c.id].expires = now + NodeTtl
        PROVE  /\ c.at <= now' /\ c.life <= restarts'
               /\ c.at + NodeTtl <= cache'[c.id].expires
    BY <2>1, <2>3 DEF HandleTrigger
  <2> QED BY <2>2, <2>3, CaptureSteps
<1>3. TriggerTypes /\ NodeRemembers /\ NodeWindow /\ [Next]_vars => NodeWindow'
  <2> SUFFICES ASSUME TriggerTypes, NodeRemembers, NodeWindow, [Next]_vars PROVE NodeWindow'
    OBVIOUS
  <2>1. CASE captures' = captures
    BY <2>1 DEF NodeWindow, Pairs
  <2>2. ASSUME NEW c \in Captured, c.at = now, c.life = restarts,
               DOMAIN captures' = DOMAIN captures \cup {Len(captures) + 1},
               captures'[Len(captures) + 1] = c,
               \A n \in DOMAIN captures : captures'[n] = captures[n],
               cache[c.id].expires <= now
        PROVE  NodeWindow'
    <3>1. DOMAIN captures = 1 .. Len(captures) /\ Len(captures) \in Nat
      BY DEF TriggerTypes, NodeTypes
    <3>2. \A n \in DOMAIN captures :
             captures[n].id = c.id /\ captures[n].life = c.life => captures[n].at + NodeTtl <= c.at
      <4> SUFFICES ASSUME NEW n \in DOMAIN captures, captures[n].id = c.id,
                          captures[n].life = c.life
                   PROVE  captures[n].at + NodeTtl <= now
        BY <2>2
      <4>1. captures[n].at \in Nat /\ captures[n].id \in Id
        BY QueueTypes
      <4>2. cache[c.id].expires \in Nat /\ now \in Nat
        BY <4>1 DEF TriggerTypes, NodeTypes, ClockTypes
      <4>3. captures[n].at + NodeTtl <= now \/ captures[n].at + NodeTtl <= cache[c.id].expires
        BY <2>2 DEF NodeRemembers
      <4>4. NodeTtl \in Nat
        BY TriggerAssumption DEF TriggerAssumption
      <4> QED BY <2>2, <4>1, <4>2, <4>3, <4>4
    <3>3. ASSUME NEW m \in DOMAIN captures', NEW n \in DOMAIN captures', m < n,
                 captures'[m].id = captures'[n].id, captures'[m].life = captures'[n].life
          PROVE  Apart(captures'[m].at, captures'[n].at, NodeTtl)
      <4>1. m \in DOMAIN captures /\ captures'[m] = captures[m]
        BY <2>2, <3>1, <3>3
      <4>2. CASE n \in DOMAIN captures
        <5>1. <<m, n>> \in Pairs
          BY <3>3, <4>1, <4>2 DEF Pairs
        <5> QED BY <2>2, <3>3, <4>1, <4>2, <5>1 DEF NodeWindow
      <4>3. CASE n = Len(captures) + 1
        BY <2>2, <3>2, <3>3, <4>1, <4>3 DEF Apart
      <4> QED BY <2>2, <4>2, <4>3
    <3> QED BY <3>3 DEF NodeWindow, Pairs
  <2>3. CASE captures' # captures
    <3>1. PICK c \in Captured :
              /\ c = [id |-> requests[1].id, routed |-> requests[1].routed,
                      at |-> now, life |-> restarts]
              /\ DOMAIN captures' = DOMAIN captures \cup {Len(captures) + 1}
              /\ captures'[Len(captures) + 1] = c
              /\ \A n \in DOMAIN captures : captures'[n] = captures[n]
              /\ cache[c.id].expires <= now
      BY <2>3, CaptureSteps
    <3>2. c.at = now /\ c.life = restarts
      BY <3>1
    <3> QED BY <2>2, <3>1, <3>2
  <2> QED BY <2>1, <2>3
<1> QED BY <1>1, <1>2, <1>3, TriggerTyped, PTL DEF Spec

(***************************************************************************)
(* The router's window                                                     *)
(***************************************************************************)

(* What HandleTrigger does to the queues: the head of the requests goes,   *)
(* and a call of the router gets an answer, a success if a capture starts. *)
LEMMA HandleQueues ==
    ASSUME TriggerTypes, HandleTrigger
    PROVE  /\ 1 \in DOMAIN requests
           /\ \A m \in DOMAIN requests' : /\ m + 1 \in DOMAIN requests /\ m \in Nat \ {0}
                                          /\ requests'[m] = requests[m + 1]
           /\ requests[1].routed = 0 => responses' = responses
           /\ requests[1].routed # 0 =>
                  /\ DOMAIN responses' = DOMAIN responses \cup {Len(responses) + 1}
                  /\ \A m \in DOMAIN responses : responses'[m] = responses[m]
                  /\ responses'[Len(responses) + 1].id = requests[1].id
                  /\ captures' # captures => responses'[Len(responses) + 1].ok
<1>1. requests # <<>> /\ requests' = Tail(requests)
  BY DEF HandleTrigger
<1>2. /\ 1 \in DOMAIN requests /\ Head(requests) = requests[1]
      /\ \A m \in DOMAIN requests' : /\ m + 1 \in DOMAIN requests /\ m \in Nat \ {0}
                                     /\ requests'[m] = requests[m + 1]
  BY <1>1, TailOf DEF TriggerTypes, CallTypes
<1>3. requests[1].routed = 0 => responses' = responses
  BY <1>2 DEF HandleTrigger
<1>4. ASSUME requests[1].routed # 0
      PROVE  /\ DOMAIN responses' = DOMAIN responses \cup {Len(responses) + 1}
             /\ \A m \in DOMAIN responses : responses'[m] = responses[m]
             /\ responses'[Len(responses) + 1].id = requests[1].id
             /\ captures' # captures => responses'[Len(responses) + 1].ok
  <2>1. PICK p : /\ responses' = Append(responses, p) /\ p.id = requests[1].id
                 /\ p.ok = IF Cached(requests[1].id) THEN Fresh[requests[1].id].ok ELSE ~busy
    BY <1>2, <1>4 DEF HandleTrigger
  <2>2. captures' # captures => ~Cached(requests[1].id) /\ ~busy
    BY <1>2 DEF HandleTrigger
  <2>3. captures' # captures => p.ok
    BY <2>1, <2>2
  <2>4. /\ DOMAIN responses' = DOMAIN responses \cup {Len(responses) + 1}
        /\ responses'[Len(responses) + 1] = p
        /\ \A m \in DOMAIN responses : responses'[m] = responses[m]
    BY <2>1 DEF TriggerTypes, CallTypes
  <2> QED BY <2>1, <2>3, <2>4
<1> QED BY <1>2, <1>3, <1>4

(* What TakeResponse does to the queue and, for a refusal, to the tables.  *)
LEMMA ResponseTaken ==
    ASSUME TriggerTypes, FlightInv, TakeResponse
    PROVE  \E i \in Id :
             /\ 1 \in DOMAIN responses /\ i = responses[1].id
             /\ \A m \in DOMAIN responses' : /\ m + 1 \in DOMAIN responses /\ m \in Nat \ {0}
                                             /\ responses'[m] = responses[m + 1]
                                             /\ responses'[m].id \in Id \ {i}
             /\ \A j \in Id \ {i} : acceptedBy'[j] = acceptedBy[j]
             /\ UNCHANGED routerVars \/ (~responses[1].ok /\ Release(i) /\ acceptedBy'[i] = 0)
<1>1. responses # <<>> /\ responses' = Tail(responses)
  BY DEF TakeResponse
<1>2. /\ 1 \in DOMAIN responses /\ Head(responses) = responses[1]
      /\ \A m \in DOMAIN responses' : /\ m + 1 \in DOMAIN responses /\ m \in Nat \ {0}
                                      /\ responses'[m] = responses[m + 1]
  BY <1>1, TailOf DEF TriggerTypes, CallTypes
<1>3. PICK i \in Id : i = responses[1].id
  BY <1>2, QueueTypes
<1>4. \A m \in DOMAIN responses' : responses'[m].id \in Id \ {i}
  BY <1>2, <1>3, QueueTypes DEF FlightInv, OneCall
<1>5. UNCHANGED routerVars \/ (~responses[1].ok /\ Release(i))
  BY <1>2, <1>3 DEF TakeResponse
<1>6. Release(i) => acceptedBy'[i] = 0
  BY ReleaseTables
<1>7. \A j \in Id \ {i} : acceptedBy'[j] = acceptedBy[j]
  BY <1>5, ReleaseTables DEF routerVars
<1> QED BY <1>2, <1>3, <1>4, <1>5, <1>6, <1>7

(* The router's memory of the captures it asked for outlives the window.   *)
LEMMA CaptureStep ==
    ASSUME TriggerTypes, TriggerTypes', Windows, FlightInv, CaptureInv, Prompt, [Next]_vars
    PROVE  CaptureInv'
<1> USE TriggerAssumption
<1>0. /\ now \in Nat \ {0} /\ now' \in Nat \ {0} /\ now <= now'
      /\ acceptedBy \in [Id -> Nat] /\ seenTriggers \in [Id -> Nat]
  BY ClockSteps DEF TriggerTypes, TableTypes
<1>1. ASSUME NEW i \in Id, Route(i) PROVE CaptureInv'
  <2>1. now' = now /\ responses' = responses /\ captures' = captures
    BY <1>1 DEF Route, nodeVars
  <2>2. ASSUME NEW n \in DOMAIN captures, captures[n].routed # 0,
               ~(captures[n].routed + DedupeTtl <= now)
        PROVE  /\ ~Lapsed(captures[n].id) /\ seenTriggers[captures[n].id] # 0
               /\ acceptedBy[captures[n].id] = captures[n].routed
    <3>1. PICK c : c = captures[n]
      OBVIOUS
    <3>2. c.id \in Id /\ c.routed \in Nat /\ acceptedBy[c.id] = c.routed
      BY <2>2, <3>1, QueueTypes DEF CaptureInv, RouterRemembers
    <3>3. seenTriggers[c.id] = c.routed + DedupeTtl
      BY <2>2, <3>1, <3>2 DEF Windows
    <3> QED BY <1>0, <2>2, <3>1, <3>2, <3>3 DEF Lapsed
  <2>3. \A j \in Id : ~Lapsed(j) /\ seenTriggers[j] # 0 => acceptedBy'[j] = acceptedBy[j]
    BY <1>1, RouteTables
  <2>4. RouterRemembers'
    BY <2>1, <2>2, <2>3, QueueTypes DEF CaptureInv, RouterRemembers
  <2>5. ASSUME NEW n \in DOMAIN captures, captures[n].routed # 0, NEW m \in DOMAIN responses,
               ~responses[m].ok, responses[m].id = captures[n].id
        PROVE  captures[n].routed + DedupeTtl <= acceptedBy'[captures[n].id]
    <3>1. acceptedBy'[responses[m].id] = acceptedBy[responses[m].id]
      BY <2>3, InFlightOpen, QueueTypes
    <3> QED BY <2>5, <3>1 DEF CaptureInv, CallsAreLater
  <2>6. CASE LetThrough(i)
    <3>1. PICK r \in Request : r = [id |-> i, routed |-> now, at |-> now]
      BY <1>0 DEF Request
    <3>2. requests' = Append(requests, r) /\ (Lapsed(i) \/ seenTriggers[i] = 0)
      BY <1>1, <2>6, <3>1, RouteTables
    <3>3. /\ DOMAIN requests' = DOMAIN requests \cup {Len(requests) + 1}
          /\ requests'[Len(requests) + 1] = r
          /\ \A m \in DOMAIN requests : requests'[m] = requests[m]
      BY <3>2, AppendOf DEF TriggerTypes, CallTypes
    <3>4. \A n \in DOMAIN captures : captures[n].routed # 0 /\ captures[n].id = i
                                         => captures[n].routed + DedupeTtl <= now
      BY <2>2, <3>2
    <3>5. CallsAreLater'
      BY <2>1, <2>5, <3>1, <3>3, <3>4 DEF CaptureInv, CallsAreLater
    <3> QED BY <2>4, <3>5 DEF CaptureInv
  <2>7. CASE ~LetThrough(i)
    <3>1. requests' = requests
      BY <1>1, <2>7, RouteTables
    <3> QED BY <2>1, <2>4, <2>5, <3>1 DEF CaptureInv, CallsAreLater
  <2> QED BY <2>6, <2>7
<1>2. ASSUME NEW i \in Id, CallDirectly(i) PROVE CaptureInv'
  <2>1. /\ now' = now /\ responses' = responses /\ acceptedBy' = acceptedBy
        /\ captures' = captures
    BY <1>2 DEF CallDirectly, routerVars, nodeVars
  <2>2. PICK r \in Request : r = [id |-> i, routed |-> 0, at |-> now]
    BY <1>0 DEF Request
  <2>3. /\ DOMAIN requests' = DOMAIN requests \cup {Len(requests) + 1}
        /\ requests'[Len(requests) + 1] = r
        /\ \A m \in DOMAIN requests : requests'[m] = requests[m]
    BY <1>2, <2>2, AppendOf DEF CallDirectly, TriggerTypes, CallTypes
  <2> QED BY <2>1, <2>2, <2>3 DEF CaptureInv, RouterRemembers, CallsAreLater
<1>3. CASE TakeResponse
  <2>1. now' = now /\ requests' = requests /\ captures' = captures
    BY <1>3 DEF TakeResponse, nodeVars
  <2>2. PICK i \in Id :
             /\ 1 \in DOMAIN responses /\ i = responses[1].id
             /\ \A m \in DOMAIN responses' : /\ m + 1 \in DOMAIN responses /\ m \in Nat \ {0}
                                             /\ responses'[m] = responses[m + 1]
                                             /\ responses'[m].id \in Id \ {i}
             /\ \A j \in Id \ {i} : acceptedBy'[j] = acceptedBy[j]
             /\ UNCHANGED routerVars \/ (~responses[1].ok /\ Release(i) /\ acceptedBy'[i] = 0)
    BY <1>3, ResponseTaken
  <2>3. acceptedBy[i] \in Nat /\ acceptedBy[i] <= now
    BY <1>0, <2>2 DEF Windows
  <2>4. ASSUME NEW n \in DOMAIN captures, captures[n].routed # 0
        PROVE  captures[n].routed + DedupeTtl <= now \/ acceptedBy'[captures[n].id] = captures[n].routed
    <3>1. CASE captures[n].id # i \/ acceptedBy' = acceptedBy
      BY <2>2, <2>4, <3>1, QueueTypes DEF CaptureInv, RouterRemembers
    <3>2. CASE captures[n].id = i /\ ~responses[1].ok
      <4>1. captures[n].routed + DedupeTtl <= acceptedBy[i] /\ captures[n].routed \in Nat
        BY <2>2, <2>4, <3>2, QueueTypes DEF CaptureInv, CallsAreLater
      <4> QED BY <1>0, <2>3, <4>1
    <3> QED BY <2>2, <3>1, <3>2 DEF routerVars
  <2>5. RouterRemembers'
    BY <2>1, <2>4 DEF CaptureInv, RouterRemembers
  <2>6. CallsAreLater'
    BY <2>1, <2>2 DEF CaptureInv, CallsAreLater
  <2> QED BY <2>5, <2>6 DEF CaptureInv
<1>4. CASE HandleTrigger
  <2>1. now' = now /\ acceptedBy' = acceptedBy
    BY <1>4 DEF HandleTrigger, routerVars
  <2>2. 1 \in DOMAIN requests
    BY <1>4, HandleQueues
  <2>3. \A m \in DOMAIN requests' : /\ m + 1 \in DOMAIN requests /\ m \in Nat \ {0}
                                    /\ requests'[m] = requests[m + 1]
    BY <1>4, HandleQueues
  <2>4. \A m \in DOMAIN responses' :
           \/ m \in DOMAIN responses /\ responses'[m] = responses[m]
           \/ /\ requests[1].routed # 0 /\ responses'[m].id = requests[1].id
              /\ captures' # captures => responses'[m].ok
    BY <1>4, HandleQueues
  <2>5. requests[1].routed # 0 => acceptedBy[requests[1].id] = requests[1].routed
    BY <2>2 DEF FlightInv, CallsOwned
  <2>6. ASSUME NEW n \in DOMAIN captures, captures[n].routed # 0
        PROVE  /\ \A m \in DOMAIN requests' :
                      requests'[m].routed # 0 /\ requests'[m].id = captures[n].id
                          => captures[n].routed + DedupeTtl <= requests'[m].routed
               /\ \A m \in DOMAIN responses' :
                      ~responses'[m].ok /\ responses'[m].id = captures[n].id
                          => captures[n].routed + DedupeTtl <= acceptedBy'[captures[n].id]
    BY <2>1, <2>2, <2>3, <2>4, <2>5, <2>6 DEF CaptureInv, CallsAreLater
  <2>7. CASE captures' = captures
    BY <2>1, <2>6, <2>7 DEF CaptureInv, RouterRemembers, CallsAreLater
  <2>8. CASE captures' # captures
    <3>1. PICK c \in Captured :
              /\ c = [id |-> requests[1].id, routed |-> requests[1].routed,
                      at |-> now, life |-> restarts]
              /\ DOMAIN captures' = DOMAIN captures \cup {Len(captures) + 1}
              /\ captures'[Len(captures) + 1] = c
              /\ \A n \in DOMAIN captures : captures'[n] = captures[n]
      BY <2>8, CaptureSteps
    <3>2. c.id = requests[1].id /\ c.routed = requests[1].routed
      BY <3>1
    <3>3. c.routed <= now /\ (c.routed # 0 => acceptedBy[c.id] = c.routed)
      <4>1. requests[1].routed <= requests[1].at /\ requests[1].at <= now
        BY <2>2 DEF FlightInv, CallsOwned
      <4>2. requests[1].routed \in Nat /\ requests[1].at \in Nat
        BY <2>2, QueueTypes
      <4> QED BY <1>0, <2>5, <3>2, <4>1, <4>2
    <3>4. RouterRemembers'
      BY <2>1, <3>1, <3>3 DEF CaptureInv, RouterRemembers
    <3>5. c.routed # 0 =>
            /\ \A m \in DOMAIN requests' : requests'[m].routed # 0 => requests'[m].id # c.id
            /\ \A m \in DOMAIN responses' : responses'[m].ok \/ responses'[m].id # c.id
      BY <2>2, <2>3, <2>4, <2>8, <3>2 DEF FlightInv, OneCall
    <3>6. CallsAreLater'
      <4> SUFFICES ASSUME NEW n \in DOMAIN captures', captures'[n].routed # 0
                   PROVE  /\ \A m \in DOMAIN requests' :
                                 requests'[m].routed # 0 /\ requests'[m].id = captures'[n].id
                                     => captures'[n].routed + DedupeTtl <= requests'[m].routed
                          /\ \A m \in DOMAIN responses' :
                                 ~responses'[m].ok /\ responses'[m].id = captures'[n].id
                                     => captures'[n].routed + DedupeTtl <= acceptedBy'[captures'[n].id]
        BY DEF CallsAreLater
      <4>1. CASE n \in DOMAIN captures /\ captures'[n] = captures[n]
        BY <2>6, <4>1
      <4>2. CASE captures'[n] = c
        BY <3>5, <4>2
      <4> QED BY <3>1, <4>1, <4>2
    <3> QED BY <3>4, <3>6 DEF CaptureInv
  <2> QED BY <2>7, <2>8
<1>5. CASE RestartNode
  BY <1>5 DEF RestartNode, routerVars, CaptureInv, RouterRemembers, CallsAreLater
<1>6. CASE UNCHANGED <<acceptedBy, requests, responses, captures>>
  <2>1. RouterRemembers'
    BY <1>0, <1>6, QueueTypes DEF CaptureInv, RouterRemembers
  <2> QED BY <1>6, <2>1 DEF CaptureInv, CallsAreLater
<1> QED BY <1>1, <1>2, <1>3, <1>4, <1>5, <1>6
        DEF Next, ChangeLoad, Tick, vars, routerVars, nodeVars

(* The second half of IdempotentWindow: captures the router asked for with *)
(* one id are DedupeTtl apart.                                             *)
RouterWindow ==
    \A p \in Pairs :
        LET c == captures[p[1]]
            d == captures[p[2]]
        IN c.id = d.id /\ c.routed # 0 /\ d.routed # 0 => Apart(c.routed, d.routed, DedupeTtl)

(* The router's windows hold across restarts of the node and late answers, *)
(* as long as a call with its answer takes less than the window.           *)
THEOREM RouterWindowKept == Prompt => (Spec => [](CaptureInv /\ RouterWindow))
<1> SUFFICES ASSUME Prompt PROVE Spec => [](CaptureInv /\ RouterWindow)
  OBVIOUS
<1>1. Init => CaptureInv /\ RouterWindow
  BY DEF Init, CaptureInv, RouterRemembers, CallsAreLater, RouterWindow, Pairs
<1>2. TriggerTypes /\ TriggerTypes' /\ Windows /\ FlightInv /\ CaptureInv /\ [Next]_vars
          => CaptureInv'
  BY CaptureStep
<1>3. TriggerTypes /\ CaptureInv /\ RouterWindow /\ [Next]_vars => RouterWindow'
  <2> SUFFICES ASSUME TriggerTypes, CaptureInv, RouterWindow, [Next]_vars PROVE RouterWindow'
    OBVIOUS
  <2>1. CASE captures' = captures
    BY <2>1 DEF RouterWindow, Pairs
  <2>2. CASE captures' # captures
    <3>1. PICK c \in Captured :
              /\ c = [id |-> requests[1].id, routed |-> requests[1].routed,
                      at |-> now, life |-> restarts]
              /\ DOMAIN captures' = DOMAIN captures \cup {Len(captures) + 1}
              /\ captures'[Len(captures) + 1] = c
              /\ \A n \in DOMAIN captures : captures'[n] = captures[n]
              /\ 1 \in DOMAIN requests
      BY <2>2, CaptureSteps
    <3>2. c.id = requests[1].id /\ c.routed = requests[1].routed
      BY <3>1
    <3>3. DOMAIN captures = 1 .. Len(captures) /\ Len(captures) \in Nat
      BY DEF TriggerTypes, NodeTypes
    <3>4. \A n \in DOMAIN captures :
             captures[n].id = c.id /\ captures[n].routed # 0 /\ c.routed # 0
                 => captures[n].routed + DedupeTtl <= c.routed
      BY <3>1, <3>2 DEF CaptureInv, CallsAreLater
    <3> QED BY <3>1, <3>3, <3>4 DEF RouterWindow, Pairs, Apart
  <2> QED BY <2>1, <2>2
<1> QED BY <1>1, <1>2, <1>3, TriggerTyped, EntriesExpire, CallsFindTheirEntry, PTL DEF Spec

(* One id starts one capture per window, however often it is signalled,    *)
(* repeated by an impatient client or answered late.                       *)
THEOREM TriggersAreIdempotent == Prompt => (Spec => []IdempotentWindow)
<1>1. NodeWindow /\ RouterWindow => IdempotentWindow
  BY DEF NodeWindow, RouterWindow, IdempotentWindow
<1> QED BY <1>1, NodeWindowKept, RouterWindowKept, PTL

(***************************************************************************)
(* The cooldown                                                            *)
(***************************************************************************)

(* A refusal ends only the cooldown that its own trigger started.          *)
LEMMA CooldownStep ==
    ASSUME TriggerTypes, TriggerTypes', Windows, FlightInv, CaptureInv, CooldownInv, [Next]_vars
    PROVE  CooldownInv'
<1> USE TriggerAssumption
<1>0. /\ now \in Nat \ {0} /\ now' \in Nat \ {0} /\ now <= now' /\ Cooldown \in Nat
      /\ acceptedBy \in [Id -> Nat] /\ lastAccepted \in [EventName -> Nat]
      /\ \A i \in Id : EventOf[i] \in EventName
  BY ClockSteps DEF TriggerTypes, TableTypes, EventName
<1>a. /\ \A n \in DOMAIN captures : captures[n].routed <= now
      /\ \A i \in Id : acceptedBy[i] <= now
  BY <1>0 DEF CaptureInv, RouterRemembers, Windows
<1>1. ASSUME NEW i \in Id, Route(i) PROVE CooldownInv'
  <2>1. now' = now /\ captures' = captures
    BY <1>1 DEF Route, nodeVars
  <2>2. CASE LetThrough(i)
    <3>1. /\ \A j \in Id \ {i} : acceptedBy'[j] = 0 \/ acceptedBy'[j] = acceptedBy[j]
          /\ acceptedBy'[i] = now
      BY <1>1, <2>2, RouteTables
    <3>2. lastAccepted' = [lastAccepted EXCEPT ![EventOf[i]] = now]
      BY <1>1, <2>2, RouteTables
    <3>3. PICK e \in EventName : e = EventOf[i]
      BY <1>0
    <3>4. lastAccepted[e] = 0 \/ lastAccepted[e] + Cooldown <= now
      BY <1>1, <2>2, <3>3, RouteTables
    <3>5. ASSUME NEW t \in Nat \ {0}, Cooling(e, t) PROVE t + Cooldown <= now
      BY <1>0, <3>4, <3>5 DEF Cooling
    <3>6. \A f \in EventName, t \in Nat : t <= now /\ Cooling(f, t) => Cooling(f, t)'
      BY <1>0, <2>1, <3>2, <3>3 DEF Cooling
    <3>7. \A j \in Id \ {i} : EventOf[j] = e /\ acceptedBy[j] # 0
                                  => acceptedBy[j] + Cooldown <= now
      BY <1>0, <3>5 DEF CooldownInv, CooldownCovers
    <3>8. \A n \in DOMAIN captures : EventOf[captures[n].id] = e /\ captures[n].routed # 0
                                         => captures[n].routed + Cooldown <= now
      BY <3>5, QueueTypes DEF CooldownInv, CooldownCovers
    <3>9. EntriesApart'
      BY <3>1, <3>3, <3>7 DEF CooldownInv, EntriesApart, Apart
    <3>10. CapturesApart'
      BY <2>1, <3>1, <3>3, <3>8 DEF CooldownInv, CapturesApart, Apart
    <3>11. CooldownCovers'
      <4>1. Cooling(e, now)'
        BY <1>0, <2>1, <3>2, <3>3 DEF Cooling
      <4>2. ASSUME NEW j \in Id, acceptedBy'[j] # 0 PROVE Cooling(EventOf[j], acceptedBy[j])'
        <5>1. CASE j = i
          BY <1>0, <2>1, <3>1, <3>2, <5>1 DEF Cooling
        <5>2. CASE j # i
          <6>1. acceptedBy'[j] = acceptedBy[j] /\ acceptedBy[j] # 0
            BY <3>1, <4>2, <5>2
          <6>2. PICK t \in Nat : t = acceptedBy[j]
            BY <1>0
          <6>3. Cooling(EventOf[j], t)'
            BY <1>0, <1>a, <3>6, <6>1, <6>2 DEF CooldownInv, CooldownCovers
          <6> QED BY <6>1, <6>2, <6>3 DEF Cooling
        <5> QED BY <5>1, <5>2
      <4>3. ASSUME NEW n \in DOMAIN captures, captures[n].routed # 0
            PROVE  Cooling(EventOf[captures[n].id], captures[n].routed)'
        <5>1. PICK c : c = captures[n]
          OBVIOUS
        <5>2. c.routed \in Nat /\ c.routed <= now /\ EventOf[c.id] \in EventName
          BY <1>0, <1>a, <5>1, QueueTypes
        <5>3. Cooling(EventOf[c.id], c.routed)'
          BY <3>6, <4>3, <5>1, <5>2 DEF CooldownInv, CooldownCovers
        <5> QED BY <2>1, <5>1, <5>3 DEF Cooling
      <4> QED BY <2>1, <4>2, <4>3 DEF CooldownCovers
    <3> QED BY <2>1, <3>9, <3>10, <3>11 DEF CooldownInv, CooldownKept, Pairs
  <2>3. CASE ~LetThrough(i)
    <3>1. \A j \in Id : acceptedBy'[j] = 0 \/ acceptedBy'[j] = acceptedBy[j]
      BY <1>1, <2>3, RouteTables
    <3>2. lastAccepted' = lastAccepted
      BY <1>1, <2>3, RouteTables
    <3>3. EntriesApart' /\ CapturesApart'
      BY <2>1, <3>1 DEF CooldownInv, EntriesApart, CapturesApart
    <3>4. CooldownCovers'
      BY <2>1, <3>1, <3>2 DEF CooldownInv, CooldownCovers, Cooling
    <3> QED BY <2>1, <3>3, <3>4 DEF CooldownInv, CooldownKept, Pairs
  <2> QED BY <2>2, <2>3
<1>2. CASE TakeResponse /\ ~UNCHANGED routerVars
  <2>1. now' = now /\ captures' = captures
    BY <1>2 DEF TakeResponse, nodeVars
  <2>2. PICK i \in Id :
             /\ 1 \in DOMAIN responses /\ i = responses[1].id
             /\ ~responses[1].ok /\ Release(i)
    BY <1>2, ResponseTaken
  <2>3. /\ \A j \in Id \ {i} : acceptedBy'[j] = acceptedBy[j]
        /\ acceptedBy'[i] = 0
        /\ \A e \in EventName :
               lastAccepted'[e] = IF /\ e = EventOf[i] /\ acceptedBy[i] # 0
                                     /\ lastAccepted[e] = acceptedBy[i]
                                  THEN 0 ELSE lastAccepted[e]
    BY <2>2, ReleaseTables
  <2>4. EntriesApart' /\ CapturesApart'
    BY <2>1, <2>3 DEF CooldownInv, EntriesApart, CapturesApart
  <2>5. ASSUME NEW e \in EventName, NEW t \in Nat, Cooling(e, t), t <= now,
               e = EventOf[i] /\ acceptedBy[i] # 0 => Apart(t, acceptedBy[i], Cooldown)
        PROVE  Cooling(e, t)'
    <3>1. PICK a \in Nat : a = acceptedBy[i]
      BY <1>0
    <3>2. a <= now
      BY <1>a, <3>1
    <3>3. PICK l \in Nat : l = lastAccepted[e]
      BY <1>0
    <3>4. CASE e = EventOf[i] /\ a # 0 /\ l = a
      <4>1. t + Cooldown <= now
        BY <1>0, <2>5, <3>1, <3>2, <3>3, <3>4 DEF Cooling, Apart
      <4> QED BY <2>1, <4>1 DEF Cooling
    <3>5. CASE ~(e = EventOf[i] /\ a # 0 /\ l = a)
      <4>1. lastAccepted'[e] = lastAccepted[e]
        BY <2>3, <3>1, <3>3, <3>5
      <4> QED BY <2>1, <2>5, <4>1 DEF Cooling
    <3> QED BY <3>4, <3>5
  <2>6. ASSUME NEW j \in Id, acceptedBy'[j] # 0 PROVE Cooling(EventOf[j], acceptedBy[j])'
    <3>1. j # i /\ acceptedBy'[j] = acceptedBy[j]
      BY <2>3, <2>6
    <3>2. PICK t \in Nat : t = acceptedBy[j]
      BY <1>0
    <3>3. EventOf[j] = EventOf[i] /\ acceptedBy[i] # 0 => Apart(t, acceptedBy[i], Cooldown)
      BY <2>6, <3>1, <3>2 DEF CooldownInv, EntriesApart
    <3>4. Cooling(EventOf[j], t)'
      BY <1>0, <1>a, <2>5, <2>6, <3>1, <3>2, <3>3 DEF CooldownInv, CooldownCovers
    <3> QED BY <3>1, <3>2, <3>4 DEF Cooling
  <2>7. ASSUME NEW n \in DOMAIN captures, captures[n].routed # 0
        PROVE  Cooling(EventOf[captures[n].id], captures[n].routed)'
    <3>1. PICK c : c = captures[n]
      OBVIOUS
    <3>2. c.routed \in Nat /\ c.routed <= now /\ EventOf[c.id] \in EventName
      BY <1>0, <1>a, <3>1, QueueTypes
    <3>3. ~(c.id = i /\ c.routed = acceptedBy[i])
      <4>1. c.id = i => c.routed + DedupeTtl <= acceptedBy[i]
        BY <2>2, <2>7, <3>1 DEF CaptureInv, CallsAreLater
      <4> QED BY <3>2, <4>1
    <3>4. EventOf[c.id] = EventOf[i] /\ acceptedBy[i] # 0 => Apart(c.routed, acceptedBy[i], Cooldown)
      BY <2>7, <3>1, <3>3 DEF CooldownInv, CapturesApart
    <3>5. Cooling(EventOf[c.id], c.routed)'
      BY <2>5, <2>7, <3>1, <3>2, <3>4 DEF CooldownInv, CooldownCovers
    <3> QED BY <2>1, <3>1, <3>5 DEF Cooling
  <2>8. CooldownCovers'
    BY <2>1, <2>6, <2>7 DEF CooldownCovers
  <2> QED BY <2>1, <2>4, <2>8 DEF CooldownInv, CooldownKept, Pairs
<1>3. CASE UNCHANGED <<acceptedBy, lastAccepted, captures>>
  <2>1. \A e, t : t \in Nat /\ Cooling(e, t) => Cooling(e, t)'
    BY <1>0, <1>3 DEF Cooling
  <2>2. ASSUME NEW j \in Id, acceptedBy'[j] # 0 PROVE Cooling(EventOf[j], acceptedBy[j])'
    <3>1. PICK t \in Nat : t = acceptedBy[j]
      BY <1>0
    <3>2. Cooling(EventOf[j], t)'
      BY <1>3, <2>1, <2>2, <3>1 DEF CooldownInv, CooldownCovers
    <3> QED BY <1>3, <3>1, <3>2 DEF Cooling
  <2>3. ASSUME NEW n \in DOMAIN captures, captures[n].routed # 0
        PROVE  Cooling(EventOf[captures[n].id], captures[n].routed)'
    <3>1. PICK c : c = captures[n]
      OBVIOUS
    <3>2. Cooling(EventOf[c.id], c.routed)'
      BY <2>1, <2>3, <3>1, QueueTypes DEF CooldownInv, CooldownCovers
    <3> QED BY <1>3, <3>1, <3>2 DEF Cooling
  <2>4. CooldownCovers'
    BY <1>3, <2>2, <2>3 DEF CooldownCovers
  <2> QED BY <1>3, <2>4 DEF CooldownInv, EntriesApart, CapturesApart, CooldownKept, Pairs
<1>4. CASE captures' # captures
  <2>1. PICK c \in Captured :
              /\ c = [id |-> requests[1].id, routed |-> requests[1].routed,
                      at |-> now, life |-> restarts]
              /\ DOMAIN captures' = DOMAIN captures \cup {Len(captures) + 1}
              /\ captures'[Len(captures) + 1] = c
              /\ \A n \in DOMAIN captures : captures'[n] = captures[n]
              /\ 1 \in DOMAIN requests /\ HandleTrigger
    BY <1>4, CaptureSteps
  <2>2. c.id = requests[1].id /\ c.routed = requests[1].routed /\ c.id \in Id
    BY <2>1, QueueTypes
  <2>3. now' = now /\ acceptedBy' = acceptedBy /\ lastAccepted' = lastAccepted
    BY <2>1 DEF HandleTrigger, routerVars
  <2>4. c.routed # 0 => acceptedBy[c.id] = c.routed
    BY <2>1, <2>2 DEF FlightInv, CallsOwned
  <2>5. EntriesApart'
    BY <2>3 DEF CooldownInv, EntriesApart
  <2>6. ASSUME NEW i \in Id, c.routed # 0, acceptedBy[i] # 0, EventOf[c.id] = EventOf[i]
        PROVE  Apart(c.routed, acceptedBy[i], Cooldown) \/ (c.id = i /\ c.routed = acceptedBy[i])
    BY <2>2, <2>4, <2>6 DEF CooldownInv, EntriesApart
  <2>7. CapturesApart'
    <3> SUFFICES ASSUME NEW n \in DOMAIN captures', NEW i \in Id,
                        EventOf[captures'[n].id] = EventOf[i], captures'[n].routed # 0,
                        acceptedBy[i] # 0
                 PROVE  \/ Apart(captures'[n].routed, acceptedBy[i], Cooldown)
                        \/ captures'[n].id = i /\ captures'[n].routed = acceptedBy[i]
      BY <2>3 DEF CapturesApart, Apart
    <3>1. CASE n \in DOMAIN captures /\ captures'[n] = captures[n]
      BY <3>1 DEF CooldownInv, CapturesApart
    <3>2. CASE captures'[n] = c
      BY <2>6, <3>2
    <3> QED BY <2>1, <3>1, <3>2
  <2>8. CooldownCovers'
    <3>1. \A e, t : Cooling(e, t) => Cooling(e, t)'
      BY <2>3 DEF Cooling
    <3>2. ASSUME NEW n \in DOMAIN captures', captures'[n].routed # 0
          PROVE  Cooling(EventOf[captures[n].id], captures[n].routed)'
      <4>1. PICK d : d = captures'[n]
        OBVIOUS
      <4>2. CASE n \in DOMAIN captures /\ captures'[n] = captures[n]
        <5>1. Cooling(EventOf[d.id], d.routed)
          BY <3>2, <4>1, <4>2 DEF CooldownInv, CooldownCovers
        <5> QED BY <3>1, <4>1, <5>1 DEF Cooling
      <4>3. CASE d = c
        <5>1. Cooling(EventOf[d.id], d.routed)
          BY <2>2, <2>4, <3>2, <4>1, <4>3 DEF CooldownInv, CooldownCovers
        <5> QED BY <3>1, <4>1, <5>1 DEF Cooling
      <4> QED BY <2>1, <4>1, <4>2, <4>3
    <3>3. ASSUME NEW j \in Id, acceptedBy'[j] # 0 PROVE Cooling(EventOf[j], acceptedBy[j])'
      BY <2>3, <3>3 DEF CooldownInv, CooldownCovers, Cooling
    <3> QED BY <3>2, <3>3 DEF CooldownCovers
  <2>9. CooldownKept'
    <3>1. DOMAIN captures = 1 .. Len(captures) /\ Len(captures) \in Nat
      BY DEF TriggerTypes, NodeTypes
    <3>2. ASSUME NEW n \in DOMAIN captures, EventOf[captures[n].id] = EventOf[c.id],
                 captures[n].routed # 0, c.routed # 0
          PROVE  Apart(captures[n].routed, c.routed, Cooldown)
      <4>1. ~(captures[n].id = c.id /\ captures[n].routed = c.routed)
        <5>1. captures[n].id = c.id => captures[n].routed + DedupeTtl <= c.routed
          BY <2>1, <2>2, <3>2 DEF CaptureInv, CallsAreLater
        <5>2. captures[n].routed \in Nat
          BY QueueTypes
        <5> QED BY <5>1, <5>2
      <4> QED BY <2>2, <2>4, <3>2, <4>1 DEF CooldownInv, CapturesApart
    <3> QED BY <2>1, <3>1, <3>2 DEF CooldownInv, CooldownKept, Pairs
  <2> QED BY <2>5, <2>7, <2>8, <2>9 DEF CooldownInv
<1> QED BY <1>1, <1>2, <1>3, <1>4
        DEF Next, CallDirectly, TakeResponse, HandleTrigger, ChangeLoad, RestartNode, Tick, vars,
            routerVars, nodeVars

(* Captures of one event that came through the router are a cooldown       *)
(* apart, as long as a call with its answer takes less than the            *)
(* deduplication window.                                                   *)
THEOREM EventsCoolDown == Prompt => (Spec => []CooldownKept)
<1> SUFFICES ASSUME Prompt PROVE Spec => []CooldownKept
  OBVIOUS
<1>1. Init => CooldownInv
  BY DEF Init, CooldownInv, EntriesApart, CapturesApart, CooldownCovers, CooldownKept, Pairs
<1>2. TriggerTypes /\ TriggerTypes' /\ Windows /\ FlightInv /\ CaptureInv /\ CooldownInv
          /\ [Next]_vars => CooldownInv'
  BY CooldownStep
<1>3. CooldownInv => CooldownKept
  BY DEF CooldownInv
<1> QED BY <1>1, <1>2, <1>3, TriggerTyped, EntriesExpire, CallsFindTheirEntry,
           RouterWindowKept, PTL DEF Spec
=============================================================================
