---------------------------- MODULE DiscoveryCache ----------------------------
(***************************************************************************)
(* The proxy's two discovery caches: the issuer of the fulfillment         *)
(* capabilities (proxy/auth/handler.go, capabilities.go) and the OpenID    *)
(* configuration of each issuer (oidc.go).  Both read under a read lock,   *)
(* fetch outside any lock, and store under the write lock with an expiry   *)
(* counted from the moment of storing: calls that miss together fetch      *)
(* together, and the slower answer, which may be the older, is stored last. *)
(* A key is one cached document; time is counted in steps.                 *)
(***************************************************************************)
EXTENDS Naturals

CONSTANTS
  Calls,      \* request goroutines
  Keys,       \* the capabilities and one configuration per issuer
  Documents,  \* what a document can say
  Retried,    \* keys fetched a second time after a connection error
  TTL,        \* five minutes
  Timeout,    \* ten seconds: an attempt's context, up to storing its answer
  MaxTime,    \* bound on the clock
  NoDocument

ASSUME DiscoveryAssumption ==
  /\ TTL \in Nat \ {0} /\ Timeout \in Nat /\ MaxTime \in Nat
  /\ Retried \subseteq Keys
  /\ NoDocument \notin Documents

VARIABLES
  now,       \* the clock
  upstream,  \* per key: the document now served upstream
  lastServed, \* per key and document: when upstream last stopped serving it
  cached,     \* per key: the stored document and when it expires
  call       \* per call: its stage, key, attempts, deadline and document

discoveryVars == <<now, upstream, lastServed, cached, call>>

DiscoveryTypeOK ==
  /\ now \in Nat
  /\ upstream \in [Keys -> Documents]
  /\ lastServed \in [Keys -> [Documents -> Nat]]
  /\ cached \in [Keys -> [doc : Documents \cup {NoDocument}, expires : Nat]]
  /\ call \in [Calls -> [stage : {"idle", "sent", "handled", "done"}, key : Keys,
                         attempt : 0 .. 2, deadline : Nat,
                         doc : Documents \cup {NoDocument}]]

DiscoveryInit ==
  /\ now = 0
  /\ upstream \in [Keys -> Documents]
  /\ lastServed = [k \in Keys |-> [d \in Documents |-> 0]]
  /\ cached = [k \in Keys |-> [doc |-> NoDocument, expires |-> 0]]
  /\ call \in [Calls -> [stage : {"idle"}, key : Keys, attempt : {0},
                         deadline : {0}, doc : {NoDocument}]]

Fresh(k) == cached[k].doc # NoDocument /\ now < cached[k].expires

Free(c) == call[c].stage \in {"idle", "done"}

Finish(c, k, d) ==
  call' = [call EXCEPT ![c] = [stage |-> "done", key |-> k, attempt |-> 0,
                               deadline |-> 0, doc |-> d]]

\* (Bug: a hit renews the entry.)
HitRenews(c, k) ==
  /\ Free(c) /\ Fresh(k)
  /\ Finish(c, k, cached[k].doc)
  /\ cached' = [cached EXCEPT ![k].expires = now + TTL]
  /\ UNCHANGED <<now, upstream, lastServed>>

\* The cached document is answered.
Hit(c, k) ==
  /\ Free(c) /\ Fresh(k)
  /\ Finish(c, k, cached[k].doc)
  /\ UNCHANGED <<now, upstream, lastServed, cached>>

\* The n-th attempt at k goes out.
Send(c, k, n) ==
  call' = [call EXCEPT ![c] = [stage |-> "sent", key |-> k, attempt |-> n,
                               deadline |-> now + Timeout, doc |-> NoDocument]]

\* Nothing fresh is cached: the call fetches, holding no lock.
Miss(c, k) ==
  /\ Free(c) /\ ~Fresh(k)
  /\ Send(c, k, 1)
  /\ UNCHANGED <<now, upstream, lastServed, cached>>

\* Upstream answers with what it serves at this moment.
Handle(c) ==
  /\ call[c].stage = "sent"
  /\ call' = [call EXCEPT ![c].stage = "handled", ![c].doc = upstream[call[c].key]]
  /\ UNCHANGED <<now, upstream, lastServed, cached>>

\* The answer arrives and is stored over whatever was stored meanwhile.
Store(c) ==
  /\ call[c].stage = "handled"
  /\ cached' = [cached EXCEPT ![call[c].key] = [doc |-> call[c].doc, expires |-> now + TTL]]
  /\ Finish(c, call[c].key, call[c].doc)
  /\ UNCHANGED <<now, upstream, lastServed>>

InFlight(c) == call[c].stage \in {"sent", "handled"}

\* A connection error of the first attempt at the capabilities is retried ...
Retry(c) ==
  /\ InFlight(c) /\ call[c].key \in Retried /\ call[c].attempt = 1
  /\ Send(c, call[c].key, 2)
  /\ UNCHANGED <<now, upstream, lastServed, cached>>

\* ... any other failure, a timeout included, ends the call without a document.
GiveUp(c) ==
  /\ InFlight(c)
  /\ Finish(c, call[c].key, NoDocument)
  /\ UNCHANGED <<now, upstream, lastServed, cached>>

\* The operator changes what upstream serves.
Reconfigure(k, d) ==
  /\ d # upstream[k]
  /\ lastServed' = [lastServed EXCEPT ![k][upstream[k]] = now]
  /\ upstream' = [upstream EXCEPT ![k] = d]
  /\ UNCHANGED <<now, cached, call>>

\* No attempt outlives its deadline.
ClockTick ==
  /\ now < MaxTime
  /\ \A c \in Calls : InFlight(c) => now < call[c].deadline
  /\ now' = now + 1
  /\ UNCHANGED <<upstream, lastServed, cached, call>>

CallStep(c) == Handle(c) \/ Store(c) \/ Retry(c) \/ GiveUp(c)

DiscoveryNext ==
  \/ \E c \in Calls : CallStep(c) \/ \E k \in Keys : Hit(c, k) \/ Miss(c, k)
  \/ \E k \in Keys, d \in Documents : Reconfigure(k, d)
  \/ ClockTick

DiscoverySpec == DiscoveryInit /\ [][DiscoveryNext]_discoveryVars

-------------------------------------------------------------------------------
\* "Using a 5-minute cache" (handler.go 284): whatever is cached, and by whoever
\* stored last, a call is answered with a document that upstream served within
\* the last TTL + Timeout: a slow, older answer stored over a newer one cannot
\* live longer than that.
AnswersAreRecent ==
  [][\A c \in Calls :
       call'[c] # call[c] /\ call'[c].stage = "done" /\ call'[c].doc # NoDocument
         => \/ upstream[call'[c].key] = call'[c].doc
            \/ now <= lastServed[call'[c].key][call'[c].doc] + TTL + Timeout]_discoveryVars
===============================================================================
