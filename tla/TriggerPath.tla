---------------------------- MODULE TriggerPath ----------------------------
(***************************************************************************)
(* From an event signal to a capture: event_router_node filters repeated   *)
(* trigger ids and events that cool down (EventRouterPolicy) and calls the *)
(* trigger service of datacache_node, which remembers its answers by id.   *)
(* Other clients call the service directly, also to repeat a trigger whose *)
(* answer they missed.                                                     *)
(*                                                                         *)
(* Time is a counter starting at 1; in the tables 0 stands for no entry.   *)
(***************************************************************************)
EXTENDS Naturals, Sequences, FiniteSets

CONSTANTS
    Id,           \* trigger ids
    EventOf,      \* the event each id is a trigger of
    DedupeTtl,    \* the router's deduplication window
    NodeTtl,      \* trigger_dedupe_ttl_ms of datacache_node
    Cooldown,     \* the router's per-event cooldown
    DirectCalls,  \* other clients call the service too
    MaxDelay,     \* bound: age of a message in flight
    MaxTime,      \* bound: time
    MaxSignals,   \* bound: signals and direct calls
    MaxRestarts   \* bound: restarts of datacache_node

ASSUME TriggerAssumption ==
    /\ DedupeTtl \in Nat \ {0} /\ NodeTtl \in Nat \ {0} /\ Cooldown \in Nat
    /\ DirectCalls \in BOOLEAN
    /\ MaxTime \in Nat \ {0} /\ {MaxDelay, MaxSignals, MaxRestarts} \subseteq Nat

VARIABLES
    now,           \* the clock
    seenTriggers,  \* router: expiry of each id's entry
    lastAccepted,  \* router: when each event was last let through
    acceptedBy,    \* router: acceptedByTrigger_, when each id was let through
    requests,      \* calls on their way to the node: [id, routed, at]
    responses,     \* answers on their way to the router: [id, ok, at]
    cache,         \* node: triggerResponses_, [ok, expires] by id
    busy,          \* node: recordDataAroundEventDetailed would refuse
    captures,      \* captures started: [id, routed, at, life]
    signals,       \* signals and direct calls so far
    restarts       \* restarts of the node so far

routerVars == <<seenTriggers, lastAccepted, acceptedBy>>
nodeVars == <<cache, busy, captures>>
vars == <<now, routerVars, requests, responses, nodeVars, signals, restarts>>

EventName == {EventOf[i] : i \in Id}
NoAnswer == [ok |-> FALSE, expires |-> 0]

Init ==
    /\ now = 1
    /\ seenTriggers = [i \in Id |-> 0] /\ acceptedBy = [i \in Id |-> 0]
    /\ lastAccepted = [e \in EventName |-> 0]
    /\ requests = <<>> /\ responses = <<>>
    /\ cache = [i \in Id |-> NoAnswer] /\ busy = FALSE /\ captures = <<>>
    /\ signals = 0 /\ restarts = 0

(***************************************************************************)
(* EventRouterPolicy                                                       *)
(***************************************************************************)

(* prune: ids whose window is over leave both tables.                      *)
Lapsed(i) == seenTriggers[i] # 0 /\ seenTriggers[i] <= now
Pruned(table) == [i \in Id |-> IF Lapsed(i) THEN 0 ELSE table[i]]

Duplicate(i) == Pruned(seenTriggers)[i] # 0
CoolingDown(i) == LET last == lastAccepted[EventOf[i]]
                  IN last # 0 /\ now - last < Cooldown

(* As Route below, remembering the end of the cooldown.                    *)
RouteUntil(i) ==
    /\ signals < MaxSignals /\ signals' = signals + 1
    /\ ~Duplicate(i) /\ ~CoolingDown(i)
    /\ seenTriggers' = [Pruned(seenTriggers) EXCEPT ![i] = now + DedupeTtl]
    /\ acceptedBy' = [Pruned(acceptedBy) EXCEPT ![i] = now]
    /\ lastAccepted' = [lastAccepted EXCEPT ![EventOf[i]] = now + Cooldown]
    /\ requests' = Append(requests, [id |-> i, routed |-> now, at |-> now])
    /\ UNCHANGED <<now, responses, nodeVars, restarts>>

(* evaluate, and the call of the service when it accepts.                  *)
Route(i) ==
    /\ signals < MaxSignals /\ signals' = signals + 1
    /\ IF Duplicate(i) \/ CoolingDown(i)
       THEN /\ seenTriggers' = Pruned(seenTriggers)
            /\ acceptedBy' = Pruned(acceptedBy)
            /\ UNCHANGED <<lastAccepted, requests>>
       ELSE /\ seenTriggers' = [Pruned(seenTriggers) EXCEPT ![i] = now + DedupeTtl]
            /\ acceptedBy' = [Pruned(acceptedBy) EXCEPT ![i] = now]
            /\ lastAccepted' = [lastAccepted EXCEPT ![EventOf[i]] = now]
            /\ requests' = Append(requests, [id |-> i, routed |-> now, at |-> now])
    /\ UNCHANGED <<now, responses, nodeVars, restarts>>

(* As release below, ending the event's cooldown in any case ...           *)
ReleaseCooldown(i) ==
    /\ seenTriggers' = [seenTriggers EXCEPT ![i] = 0]
    /\ acceptedBy' = [acceptedBy EXCEPT ![i] = 0]
    /\ lastAccepted' = [lastAccepted EXCEPT ![EventOf[i]] = 0]

(* ... and forgetting one of the two tables.                               *)
ReleaseSeen(i) ==
    /\ seenTriggers' = [seenTriggers EXCEPT ![i] = 0]
    /\ UNCHANGED <<acceptedBy, lastAccepted>>

(* release: the id may come again, and the event's cooldown ends if it was *)
(* this trigger that started it.                                           *)
Release(i) ==
    /\ seenTriggers' = [seenTriggers EXCEPT ![i] = 0]
    /\ acceptedBy' = [acceptedBy EXCEPT ![i] = 0]
    /\ lastAccepted' = [lastAccepted EXCEPT ![EventOf[i]] =
                            IF acceptedBy[i] # 0 /\ @ = acceptedBy[i] THEN 0 ELSE @]

(* As below, releasing the id whatever the answer is.                      *)
TakeAnyResponse ==
    /\ responses # <<>>
    /\ responses' = Tail(responses)
    /\ Release(Head(responses).id)
    /\ UNCHANGED <<now, requests, nodeVars, signals, restarts>>

(* The router's callback for an answer.                                    *)
TakeResponse ==
    /\ responses # <<>>
    /\ responses' = Tail(responses)
    /\ IF Head(responses).ok THEN UNCHANGED routerVars ELSE Release(Head(responses).id)
    /\ UNCHANGED <<now, requests, nodeVars, signals, restarts>>

(* Another client calls the service itself.                                *)
CallDirectly(i) ==
    /\ DirectCalls
    /\ signals < MaxSignals /\ signals' = signals + 1
    /\ requests' = Append(requests, [id |-> i, routed |-> 0, at |-> now])
    /\ UNCHANGED <<now, routerVars, responses, nodeVars, restarts>>

(***************************************************************************)
(* DataCacheNode::handleTrigger                                            *)
(***************************************************************************)

(* Entries of the cache whose time is over.                                *)
Fresh == [i \in Id |-> IF cache[i].expires <= now THEN NoAnswer ELSE cache[i]]
Cached(i) == Fresh[i].expires # 0

(* An id in the cache gets the same answer again; any other is a new       *)
(* capture, or a refusal, and the answer is kept.                          *)
HandleTrigger ==
    LET r == Head(requests)
        ok == IF Cached(r.id) THEN Fresh[r.id].ok ELSE ~busy
    IN /\ requests # <<>>
       /\ requests' = Tail(requests)
       /\ cache' = IF Cached(r.id) THEN Fresh
                   ELSE [Fresh EXCEPT ![r.id] = [ok |-> ok, expires |-> now + NodeTtl]]
       /\ captures' = IF Cached(r.id) \/ busy THEN captures
                      ELSE Append(captures, [id |-> r.id, routed |-> r.routed,
                                             at |-> now, life |-> restarts])
       /\ responses' = IF r.routed = 0 THEN responses
                       ELSE Append(responses, [id |-> r.id, ok |-> ok, at |-> now])
       /\ UNCHANGED <<now, routerVars, busy, signals, restarts>>

(* Captures fill the storage queue and empty it again.                     *)
ChangeLoad ==
    /\ busy' = ~busy
    /\ UNCHANGED <<now, routerVars, requests, responses, cache, captures, signals, restarts>>

(* The node goes down and comes back: calls and the cache are lost.        *)
RestartNode ==
    /\ restarts < MaxRestarts /\ restarts' = restarts + 1
    /\ cache' = [i \in Id |-> NoAnswer] /\ busy' = FALSE
    /\ requests' = <<>> /\ responses' = <<>>
    /\ UNCHANGED <<now, routerVars, captures, signals>>

(* Time passes, but never so far that a message is MaxDelay old.           *)
Tick ==
    /\ now < MaxTime /\ now' = now + 1
    /\ \A i \in DOMAIN requests : now - requests[i].at < MaxDelay
    /\ \A i \in DOMAIN responses : now - responses[i].at < MaxDelay
    /\ UNCHANGED <<routerVars, requests, responses, nodeVars, signals, restarts>>

Next == \/ \E i \in Id : Route(i) \/ CallDirectly(i)
        \/ TakeResponse \/ HandleTrigger
        \/ ChangeLoad \/ RestartNode \/ Tick

Spec == Init /\ [][Next]_vars

(***************************************************************************)
(* Properties                                                              *)
(***************************************************************************)

TypeOK ==
    /\ now \in 1 .. MaxTime
    /\ {seenTriggers, acceptedBy} \subseteq [Id -> Nat]
    /\ lastAccepted \in [EventName -> 0 .. MaxTime]
    /\ \A i \in DOMAIN requests : requests[i].routed <= requests[i].at
    /\ cache \in [Id -> [ok : BOOLEAN, expires : Nat]]
    /\ signals \in 0 .. MaxSignals /\ restarts \in 0 .. MaxRestarts

Apart(t, u, n) == t >= u + n \/ u >= t + n

(* Two captures, taken apart by their positions in the history.            *)
Pairs == {p \in (DOMAIN captures) \X (DOMAIN captures) : p[1] < p[2]}

(* Within the window one id starts one capture, however often it is        *)
(* signalled, repeated by an impatient client or answered late.  The       *)
(* router keeps its window even across a restart of the node, which        *)
(* forgets its own.                                                        *)
IdempotentWindow ==
    \A p \in Pairs :
        LET c == captures[p[1]]
            d == captures[p[2]]
        IN c.id = d.id =>
             /\ c.life = d.life => Apart(c.at, d.at, NodeTtl)
             /\ c.routed # 0 /\ d.routed # 0 => Apart(c.routed, d.routed, DedupeTtl)

(* Captures of one event that came through the router are a cooldown       *)
(* apart: a refused trigger ends only the cooldown it started itself.      *)
CooldownKept ==
    \A p \in Pairs :
        LET c == captures[p[1]]
            d == captures[p[2]]
        IN EventOf[c.id] = EventOf[d.id] /\ c.routed # 0 /\ d.routed # 0
             => Apart(c.routed, d.routed, Cooldown)

(* The router's tables hold the same ids, so that prune and release keep   *)
(* both from growing.                                                      *)
TablesAgree == \A i \in Id : (seenTriggers[i] = 0) = (acceptedBy[i] = 0)

(* What the router's tests call retrying a failed downstream attempt with  *)
(* the same id: a trigger that is let through is refused only if the node  *)
(* cannot take it now.                                                     *)
RetryIsDecidedAnew ==
    [][requests # <<>> /\ requests' = Tail(requests) /\ ~busy /\ Len(responses') > Len(responses)
           => responses'[Len(responses')].ok]_vars
=============================================================================
