----------------------------- MODULE StaleProofs ------------------------------
(***************************************************************************)
(* How old an answer of the discovery caches can be, for any number of     *)
(* calls, keys and documents and any TTL and timeout; and that the         *)
(* composition of the four parts that decide on what they read earlier     *)
(* runs each of them as it is specified.                                   *)
(***************************************************************************)
EXTENDS MCStale, PageProofs, TLAPS

-------------------------------------------------------------------------------
(* The discovery caches. *)

\* What is cached was served when it was fetched, at most Timeout before it was stored.
CachedIsRecent ==
  \A k \in Keys :
    cached[k].doc # NoDocument
      => /\ cached[k].expires <= now + TTL
         /\ \/ upstream[k] = cached[k].doc
            \/ cached[k].expires <= lastServed[k][cached[k].doc] + TTL + Timeout

\* An attempt is not past its deadline; what it was answered was served then.
AttemptsAreRecent ==
  \A c \in Calls :
    InFlight(c)
      => /\ now <= call[c].deadline /\ call[c].deadline <= now + Timeout
         /\ call[c].stage = "handled"
              => /\ call[c].doc \in Documents
                 /\ \/ upstream[call[c].key] = call[c].doc
                    \/ call[c].deadline <= lastServed[call[c].key][call[c].doc] + Timeout

DiscoveryInv == DiscoveryTypeOK /\ CachedIsRecent /\ AttemptsAreRecent

CallRecords ==
  [stage : {"idle", "sent", "handled", "done"}, key : Keys, attempt : 0 .. 2, deadline : Nat,
   doc : Documents \cup {NoDocument}]

LEMMA DiscoveryInitHolds == DiscoveryInit => DiscoveryInv
<1> SUFFICES ASSUME DiscoveryInit PROVE DiscoveryInv
  OBVIOUS
<1> USE DiscoveryAssumption
<1>1. call \in [Calls -> CallRecords] /\ \A c \in Calls : call[c].stage = "idle"
  BY DEF DiscoveryInit, CallRecords
<1>2. DiscoveryTypeOK
  BY <1>1 DEF DiscoveryInit, DiscoveryTypeOK, CallRecords
<1>3. CachedIsRecent
  BY DEF DiscoveryInit, CachedIsRecent
<1>4. AttemptsAreRecent
  BY <1>1 DEF AttemptsAreRecent, InFlight
<1> QED BY <1>2, <1>3, <1>4 DEF DiscoveryInv

LEMMA HitStep ==
  ASSUME DiscoveryInv, NEW c \in Calls, NEW k \in Keys, Hit(c, k)
  PROVE  DiscoveryInv'
<1> USE DiscoveryAssumption DEF DiscoveryInv, DiscoveryTypeOK, Hit, Finish
<1>1. cached[k].doc \in Documents \cup {NoDocument}
  OBVIOUS
<1>2. DiscoveryTypeOK'
  BY <1>1
<1>3. CachedIsRecent'
  BY DEF CachedIsRecent
<1>4. AttemptsAreRecent'
  BY DEF AttemptsAreRecent, InFlight
<1> QED BY <1>2, <1>3, <1>4

LEMMA MissStep ==
  ASSUME DiscoveryInv, NEW c \in Calls, NEW k \in Keys, Miss(c, k)
  PROVE  DiscoveryInv'
<1> USE DiscoveryAssumption DEF DiscoveryInv, DiscoveryTypeOK, Miss, Send
<1>1. DiscoveryTypeOK'
  OBVIOUS
<1>2. CachedIsRecent'
  BY DEF CachedIsRecent
<1>3. AttemptsAreRecent'
  BY DEF AttemptsAreRecent, InFlight
<1> QED BY <1>1, <1>2, <1>3

LEMMA HandleStep ==
  ASSUME DiscoveryInv, NEW c \in Calls, Handle(c)
  PROVE  DiscoveryInv'
<1> USE DEF DiscoveryInv, DiscoveryTypeOK, Handle
<1>1. upstream[call[c].key] \in Documents /\ InFlight(c)
  BY DEF InFlight
<1>2. DiscoveryTypeOK'
  <2>1. call[c] \in CallRecords
    BY DEF CallRecords
  <2>2. [call[c] EXCEPT !.stage = "handled", !.doc = upstream[call[c].key]] \in CallRecords
    BY <1>1, <2>1 DEF CallRecords
  <2>3. call' = [call EXCEPT ![c] = [call[c] EXCEPT !.stage = "handled",
                                                    !.doc = upstream[call[c].key]]]
    OBVIOUS
  <2> QED BY <2>2, <2>3 DEF CallRecords
<1>3. CachedIsRecent'
  BY DEF CachedIsRecent
<1>4. AttemptsAreRecent'
  BY <1>1 DEF AttemptsAreRecent, InFlight
<1> QED BY <1>2, <1>3, <1>4

LEMMA StoreStep ==
  ASSUME DiscoveryInv, NEW c \in Calls, Store(c)
  PROVE  DiscoveryInv'
<1> USE DiscoveryAssumption DEF DiscoveryInv, DiscoveryTypeOK, Store, Finish
<1> DEFINE k == call[c].key
<1>1. k \in Keys /\ call[c].doc \in Documents \cup {NoDocument} /\ InFlight(c)
  BY DEF InFlight
<1>2. DiscoveryTypeOK'
  BY <1>1
<1>3. CachedIsRecent'
  <2>1. \/ upstream[k] = call[c].doc
        \/ now + TTL <= lastServed[k][call[c].doc] + TTL + Timeout
    <3>1. call[c].doc \in Documents /\ lastServed[k][call[c].doc] \in Nat
      BY <1>1 DEF AttemptsAreRecent
    <3>2. now <= call[c].deadline /\ call[c].deadline \in Nat
      BY <1>1 DEF AttemptsAreRecent
    <3> QED BY <1>1, <3>1, <3>2 DEF AttemptsAreRecent
  <2>2. ASSUME NEW j \in Keys, cached'[j].doc # NoDocument
        PROVE  /\ cached'[j].expires <= now' + TTL
               /\ \/ upstream'[j] = cached'[j].doc
                  \/ cached'[j].expires <= lastServed'[j][cached'[j].doc] + TTL + Timeout
    <3>1. CASE j = k
      BY <1>1, <2>1, <3>1
    <3>2. CASE j # k
      BY <1>1, <2>2, <3>2 DEF CachedIsRecent
    <3> QED BY <3>1, <3>2
  <2> QED BY <2>2 DEF CachedIsRecent
<1>4. AttemptsAreRecent'
  BY DEF AttemptsAreRecent, InFlight
<1> QED BY <1>2, <1>3, <1>4

LEMMA RetryStep ==
  ASSUME DiscoveryInv, NEW c \in Calls, Retry(c)
  PROVE  DiscoveryInv'
<1> USE DiscoveryAssumption DEF DiscoveryInv, DiscoveryTypeOK, Retry, Send
<1>1. DiscoveryTypeOK'
  OBVIOUS
<1>2. CachedIsRecent'
  BY DEF CachedIsRecent
<1>3. AttemptsAreRecent'
  BY DEF AttemptsAreRecent, InFlight
<1> QED BY <1>1, <1>2, <1>3

LEMMA GiveUpStep ==
  ASSUME DiscoveryInv, NEW c \in Calls, GiveUp(c)
  PROVE  DiscoveryInv'
<1> USE DiscoveryAssumption DEF DiscoveryInv, DiscoveryTypeOK, GiveUp, Finish
<1>1. DiscoveryTypeOK'
  OBVIOUS
<1>2. CachedIsRecent'
  BY DEF CachedIsRecent
<1>3. AttemptsAreRecent'
  BY DEF AttemptsAreRecent, InFlight
<1> QED BY <1>1, <1>2, <1>3

\* Whatever is still cached or under way when a document is replaced was served now.
LEMMA ReconfigureStep ==
  ASSUME DiscoveryInv, NEW k \in Keys, NEW d \in Documents, Reconfigure(k, d)
  PROVE  DiscoveryInv'
<1> USE DiscoveryAssumption DEF DiscoveryInv, DiscoveryTypeOK, Reconfigure
<1>1. DiscoveryTypeOK'
  OBVIOUS
<1>2. ASSUME NEW j \in Keys, NEW e \in Documents
      PROVE  \/ upstream[j] # e /\ lastServed'[j][e] = lastServed[j][e]
             \/ upstream[j] = e /\ upstream'[j] = e
             \/ upstream[j] = e /\ lastServed'[j][e] = now
  <2>1. CASE j = k /\ e = upstream[k]
    BY <2>1
  <2>2. CASE j = k /\ e # upstream[k]
    BY <2>2
  <2>3. CASE j # k
    BY <2>3
  <2> QED BY <2>1, <2>2, <2>3
<1>3. CachedIsRecent'
  <2> SUFFICES ASSUME NEW j \in Keys, cached[j].doc # NoDocument
               PROVE  /\ cached[j].expires <= now + TTL
                      /\ \/ upstream'[j] = cached[j].doc
                         \/ cached[j].expires <= lastServed'[j][cached[j].doc] + TTL + Timeout
    BY DEF CachedIsRecent
  <2>1. cached[j].doc \in Documents /\ cached[j].expires \in Nat
    OBVIOUS
  <2> QED BY <1>2, <2>1 DEF CachedIsRecent
<1>4. AttemptsAreRecent'
  <2> SUFFICES ASSUME NEW c \in Calls, InFlight(c)
               PROVE  /\ now <= call[c].deadline /\ call[c].deadline <= now + Timeout
                      /\ call[c].stage = "handled"
                           => /\ call[c].doc \in Documents
                              /\ \/ upstream'[call[c].key] = call[c].doc
                                 \/ call[c].deadline
                                      <= lastServed'[call[c].key][call[c].doc] + Timeout
    BY DEF AttemptsAreRecent, InFlight
  <2>1. call[c].key \in Keys /\ call[c].deadline \in Nat
        /\ now <= call[c].deadline /\ call[c].deadline <= now + Timeout
    BY DEF AttemptsAreRecent
  <2>2. ASSUME call[c].stage = "handled"
        PROVE  /\ call[c].doc \in Documents
               /\ \/ upstream'[call[c].key] = call[c].doc
                  \/ call[c].deadline <= lastServed'[call[c].key][call[c].doc] + Timeout
    <3>1. /\ call[c].doc \in Documents
          /\ \/ upstream[call[c].key] = call[c].doc
             \/ call[c].deadline <= lastServed[call[c].key][call[c].doc] + Timeout
      BY <2>2 DEF AttemptsAreRecent
    <3> QED BY <1>2, <2>1, <3>1
  <2> QED BY <2>1, <2>2
<1> QED BY <1>1, <1>3, <1>4

LEMMA ClockTickStep ==
  ASSUME DiscoveryInv, ClockTick
  PROVE  DiscoveryInv'
<1> USE DiscoveryAssumption DEF DiscoveryInv, DiscoveryTypeOK, ClockTick
<1>1. DiscoveryTypeOK'
  OBVIOUS
<1>2. CachedIsRecent'
  <2>1. \A k \in Keys : cached[k].expires \in Nat
    OBVIOUS
  <2> QED BY <2>1 DEF CachedIsRecent
<1>3. AttemptsAreRecent'
  <2>1. \A c \in Calls : call[c].deadline \in Nat
    OBVIOUS
  <2> QED BY <2>1 DEF AttemptsAreRecent, InFlight
<1> QED BY <1>1, <1>2, <1>3

LEMMA DiscoveryStep == DiscoveryInv /\ [DiscoveryNext]_discoveryVars => DiscoveryInv'
<1> SUFFICES ASSUME DiscoveryInv, [DiscoveryNext]_discoveryVars PROVE DiscoveryInv'
  OBVIOUS
<1>1. CASE UNCHANGED discoveryVars
  BY <1>1 DEF discoveryVars, DiscoveryInv, DiscoveryTypeOK, CachedIsRecent, AttemptsAreRecent,
              InFlight
<1> QED
  BY <1>1, HitStep, MissStep, HandleStep, StoreStep, RetryStep, GiveUpStep, ReconfigureStep,
     ClockTickStep
     DEF DiscoveryNext, CallStep

LEMMA DiscoveryInvariant == DiscoverySpec => []DiscoveryInv
BY DiscoveryInitHolds, DiscoveryStep, PTL DEF DiscoverySpec

\* The state of the caches is of its types.
THEOREM DiscoveryTypes == DiscoverySpec => []DiscoveryTypeOK
<1>1. DiscoveryInv => DiscoveryTypeOK
  BY DEF DiscoveryInv
<1> QED BY DiscoveryInvariant, <1>1, PTL

\* What a call ends with was served within TTL + Timeout.
LEMMA AnswerStep ==
  ASSUME DiscoveryInv, [DiscoveryNext]_discoveryVars, NEW c \in Calls, call'[c] # call[c],
         call'[c].stage = "done", call'[c].doc # NoDocument
  PROVE  \/ upstream[call'[c].key] = call'[c].doc
         \/ now <= lastServed[call'[c].key][call'[c].doc] + TTL + Timeout
<1> USE DiscoveryAssumption DEF DiscoveryInv, DiscoveryTypeOK
<1>1. ASSUME NEW b \in Calls, NEW k \in Keys, Hit(b, k)
      PROVE  \/ upstream[call'[c].key] = call'[c].doc
             \/ now <= lastServed[call'[c].key][call'[c].doc] + TTL + Timeout
  <2>1. b = c
    BY <1>1 DEF Hit, Finish
  <2>2. call'[c].key = k /\ call'[c].doc = cached[k].doc
    BY <1>1, <2>1 DEF Hit, Finish
  <2>3. cached[k].doc \in Documents /\ cached[k].expires \in Nat /\ now < cached[k].expires
    BY <1>1 DEF Hit, Fresh
  <2> QED BY <2>2, <2>3 DEF CachedIsRecent
<1>2. ASSUME NEW b \in Calls, NEW k \in Keys, Miss(b, k) PROVE FALSE
  BY <1>2 DEF Miss, Send
<1>3. ASSUME NEW b \in Calls, Handle(b) PROVE FALSE
  BY <1>3 DEF Handle
<1>4. ASSUME NEW b \in Calls, Store(b)
      PROVE  \/ upstream[call'[c].key] = call'[c].doc
             \/ now <= lastServed[call'[c].key][call'[c].doc] + TTL + Timeout
  <2>1. b = c
    BY <1>4 DEF Store, Finish
  <2>2. call'[c].key = call[c].key /\ call'[c].doc = call[c].doc
    BY <1>4, <2>1 DEF Store, Finish
  <2>3. InFlight(c) /\ call[c].deadline \in Nat /\ call[c].key \in Keys
    BY <1>4, <2>1 DEF Store, InFlight
  <2>4. call[c].doc \in Documents /\ lastServed[call[c].key][call[c].doc] \in Nat
    BY <1>4, <2>1, <2>3 DEF Store, AttemptsAreRecent
  <2> QED BY <1>4, <2>1, <2>2, <2>3, <2>4 DEF Store, AttemptsAreRecent
<1>5. ASSUME NEW b \in Calls, Retry(b) PROVE FALSE
  BY <1>5 DEF Retry, Send
<1>6. ASSUME NEW b \in Calls, GiveUp(b) PROVE FALSE
  BY <1>6 DEF GiveUp, Finish
<1>7. ASSUME NEW k \in Keys, NEW d \in Documents, Reconfigure(k, d) PROVE FALSE
  BY <1>7 DEF Reconfigure
<1>8. ASSUME ClockTick \/ UNCHANGED discoveryVars PROVE FALSE
  BY <1>8 DEF ClockTick, discoveryVars
<1> QED
  BY <1>1, <1>2, <1>3, <1>4, <1>5, <1>6, <1>7, <1>8 DEF DiscoveryNext, CallStep

\* However calls overtake each other, none is answered with a document that went out
\* of service longer ago than the two time limits together.
THEOREM AnswersRecent == DiscoverySpec => AnswersAreRecent
<1>1. DiscoveryInv /\ [DiscoveryNext]_discoveryVars
        => [\A c \in Calls :
              call'[c] # call[c] /\ call'[c].stage = "done" /\ call'[c].doc # NoDocument
                => \/ upstream[call'[c].key] = call'[c].doc
                   \/ now <= lastServed[call'[c].key][call'[c].doc] + TTL + Timeout]_discoveryVars
  BY AnswerStep
<1> QED BY DiscoveryInvariant, <1>1, PTL DEF DiscoverySpec, AnswersAreRecent

-------------------------------------------------------------------------------
(* The composition. *)

\* A step of the composition is a step of one part and leaves the others alone: each
\* part's specification is what the composition does to it (the pages and the proxy
\* share no state).
THEOREM PartsAreSpecified == StaleSpec => Spec /\ EditSpec /\ PlanSpec /\ DiscoverySpec
<1>1. StaleInit => Init /\ EditInit /\ PlanInit /\ DiscoveryInit
  BY DEF StaleInit
<1>2. [StaleNext]_staleVars => [Next]_vars
  BY DEF StaleNext, staleVars
<1>3. [StaleNext]_staleVars => [EditNext]_editVars
  BY DEF StaleNext, staleVars
<1>4. [StaleNext]_staleVars => [PlanNext]_planVars
  BY DEF StaleNext, staleVars
<1>5. [StaleNext]_staleVars => [DiscoveryNext]_discoveryVars
  BY DEF StaleNext, staleVars
<1> QED
  BY <1>1, <1>2, <1>3, <1>4, <1>5, PTL DEF StaleSpec, Spec, EditSpec, PlanSpec, DiscoverySpec

\* The state of every part is of its types in the composition too.
THEOREM StaleTypes == StaleSpec => []StaleTypeOK
<1>1. TypeOK /\ EditTypeOK /\ PlanTypeOK /\ DiscoveryTypeOK => StaleTypeOK
  BY DEF StaleTypeOK
<1> QED BY <1>1, PartsAreSpecified, RuleTypes, EditTypes, PlanTypes, DiscoveryTypes, PTL
===============================================================================
