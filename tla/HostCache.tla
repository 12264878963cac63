------------------------------ MODULE HostCache ------------------------------
(***************************************************************************)
(* DnsCache: two bounded caches of names by address.  The policy cache is  *)
(* filled only by reverse lookups that a forward lookup confirmed; the     *)
(* display cache also by answers seen on the wire.  A lookup reserves its  *)
(* entry, runs on a blocking thread under a permit, and files its result   *)
(* in the two caches one after the other.                                  *)
(***************************************************************************)
EXTENDS Naturals, FiniteSets

CONSTANTS
    AddrSet, NameSet,
    Forward,           \* name -> the addresses its forward lookup gives
    CacheMax,          \* CACHE_MAX_ENTRIES
    LookupMax,         \* LOOKUP_MAX_IN_FLIGHT
    PositiveTtl, NegativeTtl, ObservedMin, ObservedMax,   \* in ticks
    MaxHostTick, MaxHostSteps    \* bounds of the model

VARIABLES
    policy, display,   \* address -> entry, for the addresses held
    jobs,              \* lookups spawned: number, address, stage, result
    hostTick, hostSteps

hostVars == <<policy, display, jobs, hostTick, hostSteps>>

NoName == "no name"

IsFresh(e) == ~e.inFlight /\ hostTick - e.inserted <= e.ttl

\* A fresh observation has preference over a reverse lookup; anything else gives way.
\* Faulty variant: the preference is not looked at.
SupersedesAlways(e, trust) == TRUE
Supersedes(e, trust) == trust = "observed" \/ e.trust = "ptr" \/ ~IsFresh(e)

\* lookup_at and cached_named: what a reader gets, from either cache.
CachedName(cache, ip) ==
    IF ip \in DOMAIN cache /\ IsFresh(cache[ip]) THEN cache[ip].name ELSE NoName

Put(cache, ip, e) == [i \in DOMAIN cache \cup {ip} |-> IF i = ip THEN e ELSE cache[i]]
Without(cache, ips) == [i \in DOMAIN cache \ ips |-> cache[i]]

\* evict_if_full: the caches an insert may leave room in; of the oldest, any.
Evicted(cache) ==
    IF Cardinality(DOMAIN cache) < CacheMax THEN {cache}
    ELSE {Without(cache, {i}) : i \in {j \in DOMAIN cache :
            \A k \in DOMAIN cache : cache[j].inserted <= cache[k].inserted}}

ClampTtl(ttl) == IF ttl < ObservedMin THEN ObservedMin ELSE IF ttl > ObservedMax THEN ObservedMax ELSE ttl

HostStep == hostSteps < MaxHostSteps /\ hostSteps' = hostSteps + 1

\* observe_answer: a record of a response seen on the wire, with the name cleaned
\* or refused beforehand.  It makes room even where it only replaces.
ObserveAnswer(ip, name, ttl) ==
    /\ HostStep
    /\ ip \in DOMAIN display => Supersedes(display[ip], "observed")
    /\ \E room \in Evicted(display) :
         display' = Put(room, ip, [name |-> name, inserted |-> hostTick, inFlight |-> FALSE,
                                   trust |-> "observed", ttl |-> ClampTtl(ttl)])
    /\ UNCHANGED <<policy, jobs, hostTick>>

\* enqueue_lookup: nothing for a fresh or reserved entry, nor without a permit.
EnqueueLookup(ip) ==
    /\ HostStep
    /\ ip \in DOMAIN policy => ~policy[ip].inFlight /\ ~IsFresh(policy[ip])
    /\ Cardinality({j \in jobs : j.stage = "resolving"}) < LookupMax
    /\ \E room \in Evicted(policy) :
         policy' = Put(room, ip, [name |-> NoName, inserted |-> hostTick, inFlight |-> TRUE,
                                  trust |-> "ptr", ttl |-> NegativeTtl])
    /\ jobs' = jobs \cup {[n |-> hostSteps, ip |-> ip, stage |-> "resolving", result |-> NoName]}
    /\ UNCHANGED <<display, hostTick>>

\* forward_confirm: the name must resolve back to the address.
ForwardConfirm(name, ip) == ip \in Forward[name]

\* The blocking lookup ends and gives its permit back; no reverse name, one that
\* is not confirmed and a panic of the job are the same negative result.
Resolved(j, ptr) ==
    /\ j.stage = "resolving"
    /\ jobs' = (jobs \ {j}) \cup {[j EXCEPT !.stage = "policy",
                  !.result = IF ptr # NoName /\ ForwardConfirm(ptr, j.ip) THEN ptr ELSE NoName]}
    /\ UNCHANGED <<policy, display, hostTick, hostSteps>>

PtrEntry(name) == [name |-> name, inserted |-> hostTick, inFlight |-> FALSE, trust |-> "ptr",
                   ttl |-> IF name = NoName THEN NegativeTtl ELSE PositiveTtl]

\* record_ptr_result, under the policy lock: an evicted reservation is not remade.
RecordPolicy(j) ==
    /\ j.stage = "policy"
    /\ IF j.ip \in DOMAIN policy
       THEN /\ policy' = Put(policy, j.ip, PtrEntry(j.result))
            /\ jobs' = (jobs \ {j}) \cup {[j EXCEPT !.stage = "display"]}
       ELSE /\ jobs' = jobs \ {j} /\ UNCHANGED policy
    /\ UNCHANGED <<display, hostTick, hostSteps>>

\* Then under the display lock.
RecordDisplay(j) ==
    /\ j.stage = "display"
    /\ jobs' = jobs \ {j}
    /\ IF j.ip \in DOMAIN display /\ ~Supersedes(display[j.ip], "ptr") THEN UNCHANGED display
       ELSE \E room \in (IF j.ip \in DOMAIN display THEN {display} ELSE Evicted(display)) :
              display' = Put(room, j.ip, PtrEntry(j.result))
    /\ UNCHANGED <<policy, hostTick, hostSteps>>

HostTick == hostTick < MaxHostTick /\ hostTick' = hostTick + 1 /\ UNCHANGED <<policy, display, jobs, hostSteps>>

HostInit == policy = [i \in {} |-> 0] /\ display = [i \in {} |-> 0] /\ jobs = {} /\ hostTick = 0 /\ hostSteps = 0

HostNext ==
    \/ \E ip \in AddrSet : \/ EnqueueLookup(ip)
                           \/ \E name \in NameSet, ttl \in {0, ObservedMax + 1} : ObserveAnswer(ip, name, ttl)
    \/ \E j \in jobs : \/ RecordPolicy(j) \/ RecordDisplay(j)
                       \/ \E ptr \in NameSet \cup {NoName} : Resolved(j, ptr)
    \/ HostTick

(***************************************************************************)
(* Properties.                                                             *)
(***************************************************************************)

\* enqueue_lookup: a reserved entry always has a lookup on its way that will settle
\* it, whatever was evicted and reserved again meanwhile; one without would keep
\* its address from being looked up for as long as it stays.
ReservationBacked ==
    \A ip \in DOMAIN policy : policy[ip].inFlight => \E j \in jobs : j.ip = ip /\ j.stage # "display"

\* cached_named: a policy name always resolves forward to its address, however
\* many lookups of the address overlap and whatever was seen on the wire.
PolicyNamesConfirmed ==
    \A ip \in AddrSet : CachedName(policy, ip) # NoName => ip \in Forward[CachedName(policy, ip)]

\* record_ptr_result: "the trust ordering below is what stops a late PTR answer
\* from overwriting a live observed one"; and beside it no reservation is
\* orphaned and no policy name unconfirmed, in whatever order answers arrive.
ObservedNotOverwritten ==
    /\ [](ReservationBacked /\ PolicyNamesConfirmed)
    /\ [][\A ip \in DOMAIN display \cap DOMAIN display' :
            display[ip].trust = "observed" /\ IsFresh(display[ip]) => display'[ip].trust = "observed"]_hostVars
==============================================================================
