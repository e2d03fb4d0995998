-------------------------- MODULE IngestionProofs --------------------------
(***************************************************************************)
(* Type correctness of Ingestion and its main safety properties, proved    *)
(* for every set of fingerprints and of requests and for every bound.      *)
(***************************************************************************)
EXTENDS Ingestion, FiniteSetTheorems, TLAPS

----------------------------------------------------------------------------
(* The helpers the actions are built from.                                 *)

LEMMA IndType == ASSUME NEW b PROVE Ind(b) \in {0, 1}
BY DEF Ind

LEMMA BumpFacts ==
  ASSUME NEW f \in Counts, NEW fp \in Fp, NEW n \in Nat
  PROVE  /\ Bump(f, fp, n) \in Counts
         /\ \A g \in Fp : Bump(f, fp, n)[g] = IF g = fp THEN f[g] + n ELSE f[g]
BY DEF Bump, Counts

LEMMA BumpAtFacts ==
  ASSUME NEW f \in [Topic -> Counts], NEW t \in Topic, NEW fp \in Fp,
         NEW n \in Int, f[t][fp] + n \in Nat
  PROVE  /\ BumpAt(f, t, fp, n) \in [Topic -> Counts]
         /\ \A u \in Topic, g \in Fp :
              BumpAt(f, t, fp, n)[u][g]
                = IF u = t /\ g = fp THEN f[u][g] + n ELSE f[u][g]
BY DEF BumpAt, Counts

LEMMA SentType ==
  ASSUME TypeOK, NEW t \in Topic, NEW fp \in Fp
  PROVE  /\ buffered[t][fp] \in Nat /\ stored[t][fp] \in Nat
         /\ lost[t][fp] \in Nat /\ Sent(t, fp) \in Nat
BY DEF TypeOK, Counts, Sent

----------------------------------------------------------------------------
(* Type correctness.                                                       *)

LEMMA TypeInit == Init => TypeOK
<1> SUFFICES ASSUME Init PROVE TypeOK
  OBVIOUS
<1>1. [f \in Fp |-> 0] \in Counts
  BY DEF Counts
<1>2. Idle \in Request
  BY DEF Idle, Request, PC
<1>3. /\ buffered \in [Topic -> Counts]
      /\ stored \in [Topic -> Counts]
      /\ lost \in [Topic -> Counts]
  BY <1>1 DEF Init
<1>4. /\ req \in [Req -> Request]
      /\ \A r \in Req : req[r].pc # "idle" => req[r].fp \in Fp
  BY <1>2 DEF Init, Idle
<1>5. QED BY <1>1, <1>3, <1>4 DEF Init, TypeOK

ReqOK == /\ req \in [Req -> Request]
         /\ \A r \in Req : req[r].pc # "idle" => req[r].fp \in Fp

\* The two ways in which a step of r changes the requests.
LEMMA DoneType ==
  ASSUME TypeOK, NEW r \in Req, Done(r) \/ Rejected(r), req[r].pc # "idle"
  PROVE  ReqOK' /\ answered' \in Counts
<1>1. Idle \in Request /\ Idle.pc = "idle"
  BY DEF Idle, Request, PC
<1>2. ReqOK'
  BY <1>1 DEF TypeOK, ReqOK, Done, Rejected
<1>3. answered' \in Counts
  BY BumpFacts DEF TypeOK, Done, Rejected
<1>4. QED BY <1>2, <1>3

LEMMA MoveType ==
  ASSUME TypeOK, NEW r \in Req, req[r].pc # "idle", NEW p \in PC \ {"idle"},
         NEW b \in BOOLEAN,
         \/ req' = [req EXCEPT ![r].pc = p]
         \/ req' = [req EXCEPT ![r].pc = p, ![r].fresh = b]
  PROVE  ReqOK'
BY DEF TypeOK, ReqOK, Request, PC

LEMMA SettleType ==
  ASSUME TypeOK, NEW r \in Req, Quarantine(r) \/ GoOn(r), req[r].pc # "idle"
  PROVE  ReqOK' /\ answered' \in Counts
<1>1. CASE Quarantine(r)
  BY <1>1, DoneType DEF Quarantine
<1>2. CASE GoOn(r)
  <2>1. /\ "publish" \in PC \ {"idle"} /\ TRUE \in BOOLEAN
        /\ req' = [req EXCEPT ![r].pc = "publish", ![r].fresh = TRUE]
    BY <1>2 DEF GoOn, PC
  <2>2. ReqOK'
    BY <2>1, MoveType
  <2>3. QED BY <1>2, <2>2 DEF GoOn, TypeOK
<1>3. QED BY <1>1, <1>2

LEMMA TypeStep ==
  ASSUME TypeOK, NEW r \in Req, Step(r)
  PROVE  TypeOK'
<1> USE DEF connVars, serverVars, storeVars, recordVars, ghostVars, boundVars
<1>0. /\ req[r] \in Request
      /\ req[r].pc # "idle" => req[r].fp \in Fp
  BY DEF TypeOK
<1>1. CASE SendRaw(r)
  <2>1. buffered' \in [Topic -> Counts]
    BY <1>0, <1>1, SentType, BumpAtFacts DEF SendRaw, SendsRaw, Topic, TypeOK
  <2>2. ReqOK'
    BY <1>1, MoveType DEF SendRaw, SendsRaw, PC
  <2>3. QED BY <1>1, <2>1, <2>2 DEF SendRaw, TypeOK, ReqOK
<1>2. CASE SendRawFails(r)
  <2>1. ReqOK' /\ answered' \in Counts
    BY <1>2, DoneType DEF SendRawFails, SendsRaw
  <2>2. QED BY <1>2, <2>1 DEF SendRawFails, TypeOK, ReqOK
<1>3. CASE RedisSets(r)
  <2> DEFINE fresh == req[r].fp \notin redisKeys
  <2>1. ReqOK'
    <3>1. fresh \in BOOLEAN /\ "asked" \in PC \ {"idle"}
      BY DEF PC
    <3>2. req' = [req EXCEPT ![r].pc = "asked", ![r].fresh = fresh]
      BY <1>3 DEF RedisSets
    <3>3. req[r].pc # "idle"
      BY <1>3 DEF RedisSets
    <3>4. QED BY <3>1, <3>2, <3>3, MoveType
  <2>2. admitted' \in Counts
    <3>1. Ind(fresh) \in Nat
      BY DEF Ind
    <3>2. admitted' = Bump(admitted, req[r].fp, Ind(fresh)) /\ req[r].fp \in Fp
      BY <1>0, <1>3 DEF RedisSets
    <3>3. QED BY <3>1, <3>2, BumpFacts DEF TypeOK
  <2>3. redisKeys' \subseteq Fp
    BY <1>0, <1>3 DEF RedisSets, TypeOK
  <2>4. QED BY <1>3, <2>1, <2>2, <2>3 DEF RedisSets, TypeOK, ReqOK
<1>4. CASE RedisAnswersDuplicate(r)
  <2>1. ReqOK' /\ answered' \in Counts
    BY <1>4, DoneType DEF RedisAnswersDuplicate
  <2>2. QED BY <1>4, <2>1 DEF RedisAnswersDuplicate, TypeOK, ReqOK
<1>5. CASE RedisAnswersNew(r)
  <2>1. ReqOK' /\ answered' \in Counts
    BY <1>5, SettleType DEF RedisAnswersNew
  <2>2. forfeited' \in Counts
    <3>1. /\ forfeited' = Bump(forfeited, req[r].fp, Ind(req[r].flagged))
          /\ req[r].fp \in Fp
      BY <1>0, <1>5 DEF RedisAnswersNew
    <3>2. Ind(req[r].flagged) \in Nat /\ forfeited \in Counts
      BY DEF Ind, TypeOK
    <3>3. QED BY <3>1, <3>2, BumpFacts
  <2>3. QED BY <1>5, <2>1, <2>2 DEF RedisAnswersNew, TypeOK, ReqOK
<1>6. CASE FallbackFindsDuplicate(r)
  <2>1. ReqOK' /\ answered' \in Counts
    BY <1>6, DoneType DEF FallbackFindsDuplicate, RedisFails
  <2>2. forfeited' \in Counts
    BY <1>0, <1>6, IndType, BumpFacts
    DEF FallbackFindsDuplicate, RedisFails, TypeOK
  <2>3. QED BY <1>6, <2>1, <2>2 DEF FallbackFindsDuplicate, TypeOK, ReqOK
<1>7. CASE FallbackAdmits(r)
  <2>0. req[r].fp \in Fp
    BY <1>0, <1>7 DEF FallbackAdmits, RedisFails
  <2>1. ReqOK' /\ answered' \in Counts
    BY <1>7, SettleType DEF FallbackAdmits, RedisFails
  <2>2. admitted' \in Counts
    BY <2>0, <1>7, BumpFacts DEF FallbackAdmits, TypeOK
  <2>3. forfeited' \in Counts
    <3>1. Ind(req[r].fresh) + Ind(req[r].flagged) \in Nat
      BY IndType
    <3>2. QED BY <2>0, <3>1, <1>7, BumpFacts DEF FallbackAdmits, TypeOK
  <2>4. local' \subseteq Fp
    BY <2>0, <1>7 DEF FallbackAdmits, TypeOK
  <2>5. QED BY <1>7, <2>1, <2>2, <2>3, <2>4 DEF FallbackAdmits, TypeOK, ReqOK
<1>8. CASE BypassAdmits(r)
  <2>0. req[r].fp \in Fp
    BY <1>0, <1>8 DEF BypassAdmits, RedisFails
  <2>1. ReqOK' /\ answered' \in Counts
    BY <1>8, SettleType DEF BypassAdmits, RedisFails
  <2>2. admitted' \in Counts /\ closed' \in Counts
    BY <2>0, <1>8, BumpFacts DEF BypassAdmits, TypeOK
  <2>3. forfeited' \in Counts
    <3>1. Ind(req[r].fresh) + Ind(req[r].flagged) \in Nat
      BY IndType
    <3>2. QED BY <2>0, <3>1, <1>8, BumpFacts DEF BypassAdmits, TypeOK
  <2>4. QED BY <1>8, <2>1, <2>2, <2>3 DEF BypassAdmits, TypeOK, ReqOK
<1>9. CASE SendCanonical(r)
  <2>1. buffered' \in [Topic -> Counts]
    BY <1>0, <1>9, SentType, BumpAtFacts
    DEF SendCanonical, SendsCanonical, Topic, TypeOK
  <2>2. ReqOK' /\ answered' \in Counts
    BY <1>9, DoneType DEF SendCanonical, SendsCanonical
  <2>3. QED BY <1>9, <2>1, <2>2 DEF SendCanonical, TypeOK, ReqOK
<1>10. CASE SendCanonicalFails(r)
  <2>1. ReqOK' /\ answered' \in Counts
    BY <1>10, DoneType DEF SendCanonicalFails, SendsCanonical
  <2>2. forfeited' \in Counts
    BY <1>0, <1>10, BumpFacts DEF SendCanonicalFails, SendsCanonical, TypeOK
  <2>3. QED BY <1>10, <2>1, <2>2 DEF SendCanonicalFails, TypeOK, ReqOK
<1>11. CASE AwaitMetadata(r)
  <2>1. ReqOK'
    BY <1>11, MoveType DEF AwaitMetadata, PC
  <2>2. QED BY <1>11, <2>1 DEF AwaitMetadata, TypeOK, ReqOK
<1>12. QED
  BY <1>1, <1>2, <1>3, <1>4, <1>5, <1>6, <1>7, <1>8, <1>9, <1>10, <1>11 DEF Step

LEMMA TypeRecords ==
  ASSUME TypeOK, NEW t \in Topic, NEW fp \in Fp, Deliver(t, fp) \/ GiveUp(t, fp)
  PROVE  TypeOK'
<1> USE DEF connVars, serverVars, storeVars, ghostVars, boundVars
<1>0. /\ buffered[t][fp] + (-1) \in Nat
      /\ stored[t][fp] + 1 \in Nat /\ lost[t][fp] + 1 \in Nat
  BY SentType DEF Deliver, GiveUp
<1>1. buffered' \in [Topic -> Counts]
  BY <1>0, BumpAtFacts DEF Deliver, GiveUp, TypeOK
<1>2. stored' \in [Topic -> Counts] /\ lost' \in [Topic -> Counts]
  BY <1>0, BumpAtFacts DEF Deliver, GiveUp, TypeOK
<1>3. QED BY <1>1, <1>2 DEF Deliver, GiveUp, TypeOK

\* What the connections and the servers do to the requests.
Rearranged == req' = req \/ CutRequests \/ AbandonRequests

LEMMA RearrangedType == ASSUME TypeOK, Rearranged PROVE ReqOK'
BY DEF TypeOK, Rearranged, CutRequests, AbandonRequests, ReqOK, Request, PC

\* No request changes its notification or its admission, begins or ends.
LEMMA RearrangedFacts ==
  ASSUME TypeOK, Rearranged, NEW r \in Req
  PROVE  /\ req'[r].fp = req[r].fp /\ req'[r].fresh = req[r].fresh
         /\ \/ req'[r].pc = req[r].pc
            \/ req[r].pc \in {"dedup", "asked"} /\ req'[r].pc = "cut"
            \/ req[r].pc = "metadata" /\ req'[r].pc = "hung"
BY DEF TypeOK, Rearranged, CutRequests, AbandonRequests, Request

LEMMA TypeMonitor ==
  ASSUME TypeOK, StartProcess \/ Stop \/ (Monitor /\ ~ Exit)
  PROVE  TypeOK'
<1> USE DEF unchangedByConnection, serverVars, storeVars, recordVars,
            ghostVars, boundVars, TypeOK
<1>1. CASE StartProcess
  BY <1>1 DEF StartProcess
<1>2. CASE Ping
  BY <1>2 DEF Ping, ConnectFails
<1>3. CASE KafkaStarts
  BY <1>3 DEF KafkaStarts
<1>12. CASE KafkaStartFails
  <2>1. ReqOK'
    BY <1>12, RearrangedType DEF KafkaStartFails, Rearranged
  <2>2. QED BY <1>12, <2>1 DEF KafkaStartFails, ConnectFails, ReqOK
<1>4. CASE Wake
  BY <1>4 DEF Wake
<1>5. CASE CheckRedis
  BY <1>5 DEF CheckRedis
<1>6. CASE CheckKafka
  BY <1>6 DEF CheckKafka
<1>7. CASE CloseKafka
  BY <1>7 DEF CloseKafka
<1>8. CASE Flushed
  <2>1. ReqOK'
    BY <1>8, RearrangedType DEF Flushed, Rearranged
  <2>2. QED BY <1>8, <2>1 DEF Flushed, ReqOK
<1>9. CASE CloseRedis
  <2>1. ReqOK'
    BY <1>9, RearrangedType DEF CloseRedis, Rearranged
  <2>2. QED BY <1>9, <2>1 DEF CloseRedis, ReqOK
<1>10. CASE Stop
  <2>1. ReqOK'
    BY <1>10, RearrangedType DEF Stop, CancelMonitor, Rearranged
  <2>2. QED BY <1>10, <2>1 DEF Stop, CancelMonitor, ReqOK
<1>11. QED
  BY <1>1, <1>2, <1>3, <1>4, <1>5, <1>6, <1>7, <1>8, <1>9, <1>10, <1>12
  DEF Monitor

\* The requests that hold an admission are finitely many.
LEMMA HoldingFinite ==
  ASSUME NEW fp
  PROVE  IsFiniteSet(Holding(fp)) /\ Cardinality(Holding(fp)) \in Nat
<1>1. Holding(fp) \subseteq Req
  BY DEF Holding
<1>2. QED BY <1>1, IngestionAssumption, FS_Subset, FS_CardinalityType

LEMMA TypeProcessEnds ==
  ASSUME TypeOK, ProcessEnds
  PROVE  /\ buffered' \in [Topic -> Counts] /\ lost' \in [Topic -> Counts]
         /\ forfeited' \in Counts /\ closed' \in Counts
         /\ ReqOK' /\ local' \subseteq Fp
<1>1. forfeited' \in Counts
  BY HoldingFinite DEF TypeOK, ProcessEnds, Counts
<1>2. closed' \in Counts
  BY DEF TypeOK, ProcessEnds, Counts, Ind
<1>3. buffered' \in [Topic -> Counts] /\ lost' \in [Topic -> Counts]
  BY DEF TypeOK, ProcessEnds, Counts
<1>4. ReqOK'
  BY DEF TypeOK, ProcessEnds, ReqOK, Idle, Request, PC
<1>5. QED BY <1>1, <1>2, <1>3, <1>4 DEF ProcessEnds

LEMMA FaultType ==
  ASSUME TypeOK, NEW kind, Fault(kind)
  PROVE  receipts' \in Nat /\ faults' \in Nat /\ expiries' \in Nat
BY DEF TypeOK, Fault

\* What TypeOK says of the connections.
ConnOK ==
  /\ proc \in {"down", "starting", "up", "stopping", "closing"}
  /\ mon \in {"off", "ping", "startKafka", "sleep", "checkRedis",
              "checkKafka", "closeKafka", "flush", "closeRedis"}
  /\ kafka \in {"none", "starting", "unstarted", "started", "stopped"}
  /\ interrupted \in BOOLEAN
  /\ redisSeenOk \in BOOLEAN /\ sharedClient \in BOOLEAN

LEMMA ConnUnchanged == ASSUME TypeOK, UNCHANGED connVars PROVE ConnOK'
BY DEF TypeOK, ConnOK, connVars

LEMMA TypeEnvironment == ASSUME TypeOK, Environment \/ Exit PROVE TypeOK'
<1> USE DEF connVars, serverVars, storeVars, recordVars, ghostVars, boundVars
<1>1. CASE RedisGoesDown
  <2>1. ReqOK'
    BY <1>1, RearrangedType DEF RedisGoesDown, Rearranged
  <2>2. closed' \in Counts
    BY <1>1 DEF RedisGoesDown, TypeOK, Counts, Ind
  <2>3. receipts' \in Nat /\ faults' \in Nat /\ expiries' \in Nat
    BY <1>1, FaultType DEF RedisGoesDown
  <2>4. /\ redisUp' = FALSE /\ redisKeys' \subseteq redisKeys
        /\ UNCHANGED <<connVars, kafkaUp, local, recordVars, admitted,
                       forfeited, answered>>
    BY <1>1 DEF RedisGoesDown
  <2>5. ConnOK'
    BY <2>4, ConnUnchanged
  <2>6. redisKeys' \subseteq Fp /\ local' \subseteq Fp
    BY <2>4 DEF TypeOK
  <2>7. QED BY <2>1, <2>2, <2>3, <2>4, <2>5, <2>6 DEF TypeOK, ReqOK, ConnOK
<1>2. CASE RedisComesBack
  BY <1>2 DEF RedisComesBack, TypeOK
<1>3. CASE KafkaGoesDown
  <2>1. receipts' \in Nat /\ faults' \in Nat /\ expiries' \in Nat
    BY <1>3, FaultType DEF KafkaGoesDown
  <2>2. /\ kafkaUp' = FALSE
        /\ UNCHANGED <<connVars, redisUp, storeVars, recordVars, req,
                       ghostVars>>
    BY <1>3 DEF KafkaGoesDown
  <2>3. ConnOK'
    BY <2>2, ConnUnchanged
  <2>4. QED BY <2>1, <2>2, <2>3 DEF TypeOK, ConnOK
<1>4. CASE KafkaComesBack
  BY <1>4 DEF KafkaComesBack, TypeOK
<1>5. ASSUME NEW fp \in Fp, Expire(fp) PROVE TypeOK'
  <2>1. closed' \in Counts
    BY <1>5, BumpFacts DEF Expire, TypeOK
  <2>2. QED BY <1>5, <2>1 DEF Expire, TypeOK
<1>6. CASE Sigterm
  BY <1>6, FaultType DEF Sigterm, TypeOK
<1>7. CASE Crash
  BY <1>7, FaultType, TypeProcessEnds DEF Crash, ProcessEnds, TypeOK, ReqOK
<1>8. CASE Exit
  BY <1>8, TypeProcessEnds DEF Exit, ProcessEnds, TypeOK, ReqOK
<1>9. QED
  BY <1>1, <1>2, <1>3, <1>4, <1>5, <1>6, <1>7, <1>8 DEF Environment

LEMMA TypeReceive ==
  ASSUME TypeOK, NEW r \in Req, NEW fp \in Fp, NEW suspect \in BOOLEAN,
         Receive(r, fp, suspect)
  PROVE  TypeOK'
<1>1. ReqOK'
  BY DEF Receive, TypeOK, ReqOK, Request, PC
<1>2. QED
  BY <1>1 DEF Receive, TypeOK, ReqOK, connVars, serverVars, storeVars,
              recordVars, ghostVars

LEMMA TypeNext == TypeOK /\ [Next]_vars => TypeOK'
<1> SUFFICES ASSUME TypeOK, [Next]_vars PROVE TypeOK'
  OBVIOUS
<1>1. CASE UNCHANGED vars
  BY <1>1 DEF vars, connVars, serverVars, storeVars, recordVars, ghostVars,
              boundVars, TypeOK
<1>2. CASE Next
  BY <1>2, TypeReceive, TypeStep, TypeRecords, TypeMonitor, TypeEnvironment
  DEF Next
<1>3. QED BY <1>1, <1>2

\* The state of the listener, of its connections and of the brokers stays
\* well formed: in particular no buffer count becomes negative.
THEOREM TypeCorrect == Spec => []TypeOK
<1>1. QED BY TypeInit, TypeNext, PTL DEF Spec

----------------------------------------------------------------------------
(* Entries: an admission opens one, and one that goes away is counted.     *)

LEMMA EntriesInit == Init => EntriesAccounted
BY DEF Init, EntriesAccounted, Entries, Ind

\* A step that leaves the entries, the admissions and the count of closed
\* entries of fp alone, or changes them in step.
LEMMA EntriesStep ==
  TypeOK /\ EntriesAccounted /\ [Next]_vars => EntriesAccounted'
<1> SUFFICES ASSUME TypeOK, EntriesAccounted, [Next]_vars,
                    NEW fp \in Fp
             PROVE  admitted'[fp] = Entries(fp)' + closed'[fp]
  BY DEF EntriesAccounted
<1> USE DEF connVars, serverVars, storeVars, recordVars, ghostVars, boundVars
<1>0. /\ admitted[fp] = Entries(fp) + closed[fp]
      /\ admitted[fp] \in Nat /\ closed[fp] \in Nat
      /\ admitted \in Counts /\ closed \in Counts
  BY DEF EntriesAccounted, TypeOK, Counts
<1>1. CASE UNCHANGED <<storeVars, admitted, closed>>
  BY <1>0, <1>1 DEF Entries
<1>2. ASSUME NEW r \in Req, RedisSets(r)
      PROVE  admitted'[fp] = Entries(fp)' + closed'[fp]
  <2>1. req[r].fp \in Fp
    BY <1>2 DEF RedisSets, TypeOK
  <2>2. admitted'[fp] = IF fp = req[r].fp
                        THEN admitted[fp] + Ind(fp \notin redisKeys)
                        ELSE admitted[fp]
    <3>1. Ind(req[r].fp \notin redisKeys) \in Nat
      BY DEF Ind
    <3>2. admitted' = Bump(admitted, req[r].fp, Ind(req[r].fp \notin redisKeys))
      BY <1>2 DEF RedisSets
    <3>3. QED BY <1>0, <2>1, <3>1, <3>2 DEF Bump, Counts
  <2>3. /\ redisKeys' = redisKeys \cup {req[r].fp}
        /\ local' = local /\ closed' = closed
    BY <1>2 DEF RedisSets
  <2>4. QED BY <1>0, <2>1, <2>2, <2>3 DEF Entries, Ind
<1>3. ASSUME NEW r \in Req, FallbackAdmits(r)
      PROVE  admitted'[fp] = Entries(fp)' + closed'[fp]
  <2>1. req[r].fp \in Fp /\ req[r].fp \notin local
    BY <1>3 DEF FallbackAdmits, RedisFails, TypeOK
  <2>2. admitted'[fp] = IF fp = req[r].fp THEN admitted[fp] + 1
                                          ELSE admitted[fp]
    BY <1>0, <1>3, <2>1 DEF FallbackAdmits, Bump, Counts
  <2>3. /\ redisKeys' = redisKeys /\ closed' = closed
        /\ local' = local \cup {req[r].fp}
    BY <1>3 DEF FallbackAdmits
  <2>4. QED BY <1>0, <2>1, <2>2, <2>3 DEF Entries, Ind
<1>4. ASSUME NEW r \in Req, BypassAdmits(r)
      PROVE  admitted'[fp] = Entries(fp)' + closed'[fp]
  <2>1. req[r].fp \in Fp
    BY <1>4 DEF BypassAdmits, RedisFails, TypeOK
  <2>2. /\ admitted'[fp] = IF fp = req[r].fp THEN admitted[fp] + 1
                                             ELSE admitted[fp]
        /\ closed'[fp] = IF fp = req[r].fp THEN closed[fp] + 1
                                           ELSE closed[fp]
    BY <1>0, <1>4, <2>1 DEF BypassAdmits, Bump, Counts
  <2>3. redisKeys' = redisKeys /\ local' = local
    BY <1>4 DEF BypassAdmits
  <2>4. QED BY <1>0, <2>2, <2>3 DEF Entries, Ind
<1>5. CASE RedisGoesDown
  <2>1. /\ redisKeys' \subseteq redisKeys
        /\ local' = local /\ admitted' = admitted
        /\ closed'[fp] = closed[fp] + Ind(fp \in redisKeys \ redisKeys')
    BY <1>5 DEF RedisGoesDown
  <2>2. QED BY <1>0, <2>1 DEF Entries, Ind
<1>6. ASSUME NEW e \in Fp, Expire(e)
      PROVE  admitted'[fp] = Entries(fp)' + closed'[fp]
  <2>1. closed'[fp] = IF fp = e THEN closed[fp] + 1 ELSE closed[fp]
    BY <1>0, <1>6 DEF Expire, Bump, Counts
  <2>2. /\ admitted' = admitted
        /\ \/ e \in redisKeys /\ redisKeys' = redisKeys \ {e} /\ local' = local
           \/ e \in local /\ local' = local \ {e} /\ redisKeys' = redisKeys
    BY <1>6 DEF Expire
  <2>3. QED BY <1>0, <2>1, <2>2 DEF Entries, Ind
<1>7. CASE ProcessEnds
  <2>1. /\ redisKeys' = redisKeys /\ local' = {} /\ admitted' = admitted
        /\ closed'[fp] = closed[fp] + Ind(fp \in local)
    BY <1>7 DEF ProcessEnds
  <2>2. QED BY <1>0, <2>1 DEF Entries, Ind
<1>8. QED
  <2>1. CASE UNCHANGED vars
    BY <1>1, <2>1 DEF vars
  <2>2. ASSUME NEW r \in Req, Step(r)
        PROVE  admitted'[fp] = Entries(fp)' + closed'[fp]
    BY <1>1, <1>2, <1>3, <1>4, <2>2
    DEF Step, AwaitMetadata, SendRaw, SendRawFails, RedisAnswersDuplicate,
        RedisAnswersNew, FallbackFindsDuplicate, SendCanonical,
        SendCanonicalFails
  <2>3. ASSUME NEW r \in Req, NEW f \in Fp,
               NEW suspect \in BOOLEAN, Receive(r, f, suspect)
        PROVE  admitted'[fp] = Entries(fp)' + closed'[fp]
    BY <1>1, <2>3 DEF Receive
  <2>4. ASSUME NEW t \in Topic, NEW f \in Fp, Deliver(t, f) \/ GiveUp(t, f)
        PROVE  admitted'[fp] = Entries(fp)' + closed'[fp]
    BY <1>1, <2>4 DEF Deliver, GiveUp
  <2>5. CASE StartProcess \/ Monitor \/ Stop
    BY <1>1, <1>7, <2>5
    DEF StartProcess, Monitor, Ping, KafkaStarts, KafkaStartFails, Wake,
        CheckRedis, CheckKafka, CloseKafka, Flushed, CloseRedis, Stop,
        CancelMonitor, Exit, unchangedByConnection
  <2>6. CASE Environment
    BY <1>1, <1>5, <1>6, <1>7, <2>6
    DEF Environment, RedisComesBack, KafkaGoesDown, KafkaComesBack, Sigterm,
        Crash
  <2>7. QED BY <2>1, <2>2, <2>3, <2>4, <2>5, <2>6 DEF Next

----------------------------------------------------------------------------
(* Admissions: held, turned into a record, or forfeited.                   *)

\* What adding or removing r does to the size of a set.
LEMMA SetDelta ==
  ASSUME NEW H, IsFiniteSet(H), NEW G, NEW r, G \ {r} = H \ {r}
  PROVE  /\ Cardinality(G) + Ind(r \in H) = Cardinality(H) + Ind(r \in G)
         /\ Cardinality(G) \in Nat /\ Cardinality(H) \in Nat
<1>1. Cardinality(H) \in Nat
  BY FS_CardinalityType
<1>2. IsFiniteSet(H \ {r}) /\ Cardinality(H \ {r}) \in Nat
  BY FS_RemoveElement, FS_CardinalityType
<1>3. Cardinality(H) = Cardinality(H \ {r}) + Ind(r \in H)
  <2>1. CASE r \in H
    <3>1. Cardinality(H \ {r}) = Cardinality(H) - 1
      BY <2>1, FS_RemoveElement
    <3>2. Ind(r \in H) = 1
      BY <2>1 DEF Ind
    <3>3. QED BY <1>1, <3>1, <3>2
  <2>2. CASE r \notin H
    <3>1. H \ {r} = H
      BY <2>2
    <3>2. QED BY <1>1, <2>2, <3>1 DEF Ind
  <2>3. QED BY <2>1, <2>2
<1>4. Cardinality(G) = Cardinality(H \ {r}) + Ind(r \in G)
  <2>1. CASE r \in G
    <3>1. G = (H \ {r}) \cup {r}
      BY <2>1
    <3>2. QED BY <1>2, <2>1, <3>1, FS_AddElement DEF Ind
  <2>2. CASE r \notin G
    <3>1. G = H \ {r}
      BY <2>2
    <3>2. QED BY <1>2, <2>2, <3>1 DEF Ind
  <2>3. QED BY <2>1, <2>2
<1>5. QED BY <1>2, <1>3, <1>4 DEF Ind

\* What a change of the request r alone does to the number of admissions
\* held for fp.
LEMMA HoldingDelta ==
  ASSUME NEW r \in Req, NEW fp,
         \A q \in Req \ {r} : req'[q] = req[q]
  PROVE  Cardinality(Holding(fp))' + Ind(r \in Holding(fp))
           = Cardinality(Holding(fp)) + Ind(r \in Holding(fp)')
<1>1. IsFiniteSet(Holding(fp))
  BY HoldingFinite
<1>2. Holding(fp)' \ {r} = Holding(fp) \ {r}
  BY DEF Holding
<1>3. QED BY <1>1, <1>2, SetDelta

\* The balance of fp, in terms of the change of r alone.
LEMMA Balance ==
  ASSUME TypeOK, TypeOK', AdmissionsAccounted, NEW fp \in Fp, NEW r \in Req,
         \A q \in Req \ {r} : req'[q] = req[q],
         admitted'[fp] - admitted[fp] + Ind(r \in Holding(fp))
           = Ind(r \in Holding(fp)') + forfeited'[fp] - forfeited[fp]
               + Sent("canonical", fp)' - Sent("canonical", fp)
  PROVE  admitted'[fp] = Cardinality(Holding(fp))'
                           + Sent("canonical", fp)' + forfeited'[fp]
<1>1. /\ admitted[fp] \in Nat /\ admitted'[fp] \in Nat
      /\ forfeited[fp] \in Nat /\ forfeited'[fp] \in Nat
  BY DEF TypeOK, Counts
<1>2. Sent("canonical", fp) \in Nat /\ Sent("canonical", fp)' \in Nat
  BY DEF TypeOK, Counts, Sent, Topic
<1>3. Cardinality(Holding(fp)) \in Nat /\ Cardinality(Holding(fp))' \in Nat
  <2>1. Holding(fp)' \subseteq Req
    BY DEF Holding
  <2>2. QED BY <2>1, HoldingFinite, IngestionAssumption, FS_Subset,
               FS_CardinalityType
<1>4. admitted[fp] = Cardinality(Holding(fp)) + Sent("canonical", fp)
                       + forfeited[fp]
  BY DEF AdmissionsAccounted
<1>5. Cardinality(Holding(fp))' + Ind(r \in Holding(fp))
        = Cardinality(Holding(fp)) + Ind(r \in Holding(fp)')
  BY HoldingDelta
<1>6. Ind(r \in Holding(fp)) \in Int /\ Ind(r \in Holding(fp)') \in Int
  BY DEF Ind
<1>7. QED BY <1>1, <1>2, <1>3, <1>4, <1>5, <1>6

LEMMA FreshInit == Init => FreshInPlace
BY DEF Init, FreshInPlace, Idle

LEMMA FreshStep == TypeOK /\ FreshInPlace /\ [Next]_vars => FreshInPlace'
<1> SUFFICES ASSUME TypeOK, FreshInPlace, [Next]_vars PROVE FreshInPlace'
  OBVIOUS
<1> USE DEF FreshInPlace
<1>0. req \in [Req -> Request]
  BY DEF TypeOK
<1>1. CASE req' = req
  BY <1>1
<1>2. CASE req' = [r \in Req |-> Idle]
  BY <1>2 DEF Idle
<1>3. CASE Rearranged
  BY <1>3, RearrangedFacts
<1>4. ASSUME NEW r \in Req, Step(r) PROVE FreshInPlace'
  <2>1. CASE req' = [req EXCEPT ![r] = Idle]
    BY <1>0, <2>1 DEF Idle
  <2>2. CASE SendRaw(r)
    BY <1>0, <2>2 DEF SendRaw, SendsRaw, Request
  <2>3. CASE RedisSets(r)
    BY <1>0, <2>3 DEF RedisSets, Request
  <2>4. CASE GoOn(r)
    BY <1>0, <2>4 DEF GoOn, Request
  <2>5. CASE AwaitMetadata(r)
    BY <1>0, <2>5 DEF AwaitMetadata, Request
  <2>6. QED
    BY <1>4, <2>1, <2>2, <2>3, <2>4, <2>5
    DEF Step, SendRawFails, RedisAnswersDuplicate, RedisAnswersNew,
        FallbackFindsDuplicate, FallbackAdmits, BypassAdmits, SendCanonical,
        SendCanonicalFails, Done, Rejected, Quarantine
<1>5. ASSUME NEW r \in Req, NEW f \in Fp,
             NEW suspect \in BOOLEAN, Receive(r, f, suspect)
      PROVE  FreshInPlace'
  BY <1>0, <1>5 DEF Receive
<1>6. CASE UNCHANGED vars
  BY <1>1, <1>6 DEF vars
<1>7. ASSUME NEW t \in Topic, NEW f \in Fp, Deliver(t, f) \/ GiveUp(t, f)
      PROVE  FreshInPlace'
  BY <1>1, <1>7 DEF Deliver, GiveUp
<1>8. CASE StartProcess \/ Monitor \/ Stop
  BY <1>1, <1>2, <1>3, <1>8
  DEF StartProcess, Monitor, Ping, KafkaStarts, KafkaStartFails, Wake,
      CheckRedis, CheckKafka, CloseKafka, Flushed, CloseRedis, Stop,
      CancelMonitor, Exit, ProcessEnds, Rearranged
<1>9. CASE Environment
  BY <1>1, <1>2, <1>3, <1>9
  DEF Environment, RedisGoesDown, RedisComesBack, KafkaGoesDown,
      KafkaComesBack, Expire, Sigterm, Crash, ProcessEnds, Rearranged
<1>10. QED BY <1>4, <1>5, <1>6, <1>7, <1>8, <1>9 DEF Next

LEMMA AdmissionsInit == Init => AdmissionsAccounted
<1> SUFFICES ASSUME Init, NEW fp \in Fp
             PROVE  admitted[fp] = Cardinality(Holding(fp))
                                     + Sent("canonical", fp) + forfeited[fp]
  BY DEF AdmissionsAccounted
<1>1. Holding(fp) = {}
  BY DEF Init, Holding, Idle
<1>2. Cardinality(Holding(fp)) = 0
  BY <1>1, FS_EmptySet
<1>3. Sent("canonical", fp) = 0
  BY DEF Init, Sent, Topic
<1>4. QED BY <1>2, <1>3 DEF Init

\* The steps of a request.
LEMMA AdmissionsRequest ==
  ASSUME TypeOK, TypeOK', FreshInPlace, AdmissionsAccounted,
         NEW r \in Req, Step(r), NEW fp \in Fp
  PROVE  admitted'[fp] = Cardinality(Holding(fp))'
                           + Sent("canonical", fp)' + forfeited'[fp]
<1> USE DEF connVars, serverVars, storeVars, recordVars, ghostVars, boundVars
<1> DEFINE mine == req[r].fp = fp
           held == r \in Holding(fp)
           heldNext == r \in Holding(fp)'
           published == Sent("canonical", fp)' - Sent("canonical", fp)
<1>0. /\ req \in [Req -> Request]
      /\ req[r].pc = "publish" => req[r].fresh
      /\ req[r].pc \in {"idle", "raw", "dedup"} => ~ req[r].fresh
  <2>1. req \in [Req -> Request]
    BY DEF TypeOK
  <2>2. req[r].pc = "publish" => req[r].fresh
    BY Zenon DEF FreshInPlace
  <2>3. req[r].pc \in {"idle", "raw", "dedup"} => ~ req[r].fresh
    BY Zenon DEF FreshInPlace
  <2>4. QED BY <2>1, <2>2, <2>3
<1>1. /\ admitted \in Counts /\ forfeited \in Counts
      /\ admitted[fp] \in Nat /\ forfeited[fp] \in Nat
      /\ Sent("canonical", fp) \in Nat
  BY DEF TypeOK, Counts, Sent, Topic
<1>2. req[r].pc \in PC
  BY <1>0 DEF Request
<1>3. held => mine /\ req[r].fresh
  BY DEF Holding
<1>4. mine /\ req[r].fresh => held
  BY <1>0, <1>2 DEF Holding, PC
<1>5. published = 0 \/ SendCanonical(r)
  <2>1. CASE UNCHANGED recordVars
    BY <1>1, <2>1 DEF Sent
  <2>2. CASE SendRaw(r)
    <3>1. buffered'["canonical"][fp] = buffered["canonical"][fp]
      BY <2>2 DEF SendRaw, BumpAt, TypeOK, Topic
    <3>2. QED BY <1>1, <2>2, <3>1 DEF SendRaw, Sent
  <2>3. QED
    BY <2>1, <2>2
    DEF Step, AwaitMetadata, SendRawFails, RedisSets, RedisAnswersDuplicate,
        RedisAnswersNew, FallbackFindsDuplicate, FallbackAdmits, BypassAdmits,
        SendCanonicalFails
<1>6. ASSUME req' = [req EXCEPT ![r] = Idle]
      PROVE  ~ heldNext /\ \A q \in Req \ {r} : req'[q] = req[q]
  BY <1>0, <1>6 DEF Holding, Idle
<1>7. ASSUME GoOn(r)
      PROVE  (heldNext <=> mine) /\ \A q \in Req \ {r} : req'[q] = req[q]
  BY <1>0, <1>7 DEF GoOn, Holding, Request
<1>8. CASE SendRaw(r)
  <2>1. ~ held /\ ~ heldNext /\ \A q \in Req \ {r} : req'[q] = req[q]
    BY <1>0, <1>3, <1>8 DEF SendRaw, SendsRaw, Holding
  <2>2. admitted' = admitted /\ forfeited' = forfeited /\ published = 0
    BY <1>0, <1>5, <1>8 DEF SendRaw, SendsRaw, SendCanonical, SendsCanonical
  <2>3. QED BY <1>1, <2>1, <2>2, Balance DEF Ind
<1>9. CASE SendRawFails(r)
  <2>1. ~ held /\ ~ heldNext /\ \A q \in Req \ {r} : req'[q] = req[q]
    BY <1>0, <1>3, <1>6, <1>9 DEF SendRawFails, SendsRaw, Rejected
  <2>2. admitted' = admitted /\ forfeited' = forfeited /\ published = 0
    BY <1>0, <1>5, <1>9
    DEF SendRawFails, SendsRaw, SendCanonical, SendsCanonical
  <2>3. QED BY <1>1, <2>1, <2>2, Balance DEF Ind
<1>10. CASE RedisSets(r)
  <2> DEFINE new == req[r].fp \notin redisKeys
  <2>1. ~ held /\ \A q \in Req \ {r} : req'[q] = req[q]
    BY <1>0, <1>3, <1>10 DEF RedisSets
  <2>2. heldNext <=> mine /\ new
    BY <1>0, <1>10 DEF RedisSets, Holding, Request
  <2>3. admitted'[fp] = IF mine /\ new THEN admitted[fp] + 1 ELSE admitted[fp]
    BY <1>1, <1>10 DEF RedisSets, Bump, Ind, Counts
  <2>4. forfeited' = forfeited /\ published = 0
    BY <1>5, <1>10 DEF RedisSets, SendCanonical, SendsCanonical
  <2>5. QED BY <1>1, <2>1, <2>2, <2>3, <2>4, Balance DEF Ind
<1>11. CASE RedisAnswersDuplicate(r)
  <2>1. ~ held /\ ~ heldNext /\ \A q \in Req \ {r} : req'[q] = req[q]
    BY <1>3, <1>6, <1>11 DEF RedisAnswersDuplicate, Done
  <2>2. admitted' = admitted /\ forfeited' = forfeited /\ published = 0
    BY <1>5, <1>11 DEF RedisAnswersDuplicate, SendCanonical, SendsCanonical
  <2>3. QED BY <1>1, <2>1, <2>2, Balance DEF Ind
<1>12. CASE RedisAnswersNew(r)
  <2>1. held <=> mine
    BY <1>3, <1>4, <1>12 DEF RedisAnswersNew
  <2>2. /\ heldNext <=> mine /\ ~ req[r].flagged
        /\ \A q \in Req \ {r} : req'[q] = req[q]
    BY <1>6, <1>7, <1>12 DEF RedisAnswersNew, Quarantine, Done, GoOn
  <2>3. forfeited'[fp] = IF mine /\ req[r].flagged THEN forfeited[fp] + 1
                                                   ELSE forfeited[fp]
    BY <1>1, <1>12 DEF RedisAnswersNew, Bump, Ind, Counts
  <2>4. admitted' = admitted /\ published = 0
    BY <1>5, <1>12 DEF RedisAnswersNew, SendCanonical, SendsCanonical
  <2>5. QED BY <1>1, <2>1, <2>2, <2>3, <2>4, Balance DEF Ind
<1>13. CASE FallbackFindsDuplicate(r)
  <2>1. ~ heldNext /\ \A q \in Req \ {r} : req'[q] = req[q]
    BY <1>6, <1>13 DEF FallbackFindsDuplicate, Done
  <2>2. forfeited'[fp] = IF held THEN forfeited[fp] + 1 ELSE forfeited[fp]
    BY <1>1, <1>3, <1>4, <1>13 DEF FallbackFindsDuplicate, Bump, Ind, Counts
  <2>3. admitted' = admitted /\ published = 0
    BY <1>5, <1>13
    DEF FallbackFindsDuplicate, RedisFails, SendCanonical, SendsCanonical
  <2>4. QED BY <1>1, <2>1, <2>2, <2>3, Balance DEF Ind
<1>14. CASE FallbackAdmits(r) \/ BypassAdmits(r)
  <2>1. /\ heldNext <=> mine /\ ~ req[r].flagged
        /\ \A q \in Req \ {r} : req'[q] = req[q]
    BY <1>6, <1>7, <1>14
    DEF FallbackAdmits, BypassAdmits, Quarantine, Done, GoOn
  <2>2. admitted'[fp] = IF mine THEN admitted[fp] + 1 ELSE admitted[fp]
    BY <1>1, <1>14 DEF FallbackAdmits, BypassAdmits, Bump, Counts
  <2>3. forfeited'[fp] = forfeited[fp] + Ind(held)
                           + Ind(mine /\ req[r].flagged)
    BY <1>1, <1>3, <1>4, <1>14
    DEF FallbackAdmits, BypassAdmits, Bump, Ind, Counts
  <2>4. published = 0
    BY <1>5, <1>14
    DEF FallbackAdmits, BypassAdmits, RedisFails, SendCanonical, SendsCanonical
  <2>5. QED BY <1>1, <2>1, <2>2, <2>3, <2>4, Balance DEF Ind
<1>15. CASE SendCanonical(r)
  <2>1. held <=> mine
    BY <1>0, <1>3, <1>4, <1>15 DEF SendCanonical, SendsCanonical
  <2>2. ~ heldNext /\ \A q \in Req \ {r} : req'[q] = req[q]
    BY <1>6, <1>15 DEF SendCanonical, Done
  <2>3. published = Ind(mine)
    <3>1. buffered'["canonical"][fp]
            = IF mine THEN buffered["canonical"][fp] + 1
                      ELSE buffered["canonical"][fp]
      BY <1>15 DEF SendCanonical, BumpAt, TypeOK, Topic, Counts
    <3>2. stored' = stored /\ lost' = lost
      BY <1>15 DEF SendCanonical
    <3>3. /\ buffered["canonical"][fp] \in Nat
          /\ stored["canonical"][fp] \in Nat /\ lost["canonical"][fp] \in Nat
      BY SentType DEF Topic
    <3>4. QED BY <3>1, <3>2, <3>3 DEF Sent, Ind
  <2>4. admitted' = admitted /\ forfeited' = forfeited
    BY <1>15 DEF SendCanonical
  <2>5. QED BY <1>1, <2>1, <2>2, <2>3, <2>4, Balance DEF Ind
<1>16. CASE SendCanonicalFails(r)
  <2>1. held <=> mine
    BY <1>0, <1>3, <1>4, <1>16 DEF SendCanonicalFails, SendsCanonical
  <2>2. ~ heldNext /\ \A q \in Req \ {r} : req'[q] = req[q]
    BY <1>6, <1>16 DEF SendCanonicalFails, Rejected
  <2>3. forfeited'[fp] = IF mine THEN forfeited[fp] + 1 ELSE forfeited[fp]
    BY <1>1, <1>16 DEF SendCanonicalFails, Bump, Counts
  <2>4. admitted' = admitted /\ published = 0
    BY <1>1, <1>16 DEF SendCanonicalFails, Sent
  <2>5. QED BY <1>1, <2>1, <2>2, <2>3, <2>4, Balance DEF Ind
<1>17. CASE AwaitMetadata(r)
  <2>1. (held <=> heldNext) /\ \A q \in Req \ {r} : req'[q] = req[q]
    BY <1>0, <1>17 DEF AwaitMetadata, Holding, Request
  <2>2. admitted' = admitted /\ forfeited' = forfeited /\ published = 0
    BY <1>1, <1>17 DEF AwaitMetadata, Sent
  <2>3. QED BY <1>1, <2>1, <2>2, Balance DEF Ind
<1>18. QED
  BY <1>8, <1>9, <1>10, <1>11, <1>12, <1>13, <1>14, <1>15, <1>16, <1>17 DEF Step

\* The end of the process forfeits what its requests held and loses what
\* its producer had not sent.
LEMMA AdmissionsEnd ==
  ASSUME TypeOK, AdmissionsAccounted, ProcessEnds, NEW fp \in Fp
  PROVE  admitted'[fp] = Cardinality(Holding(fp))'
                           + Sent("canonical", fp)' + forfeited'[fp]
<1>1. Cardinality(Holding(fp))' = 0
  <2>1. Holding(fp)' = {}
    BY DEF ProcessEnds, Holding, Idle
  <2>2. QED BY <2>1, FS_EmptySet
<1>2. forfeited'[fp] = forfeited[fp] + Cardinality(Holding(fp))
  BY DEF ProcessEnds
<1>3. Sent("canonical", fp)' = Sent("canonical", fp)
  <2>1. /\ buffered["canonical"][fp] \in Nat
        /\ stored["canonical"][fp] \in Nat /\ lost["canonical"][fp] \in Nat
    BY SentType DEF Topic
  <2>2. /\ buffered'["canonical"][fp] = 0
        /\ stored'["canonical"][fp] = stored["canonical"][fp]
        /\ lost'["canonical"][fp] = lost["canonical"][fp]
                                      + buffered["canonical"][fp]
    BY DEF ProcessEnds, Topic
  <2>3. QED BY <2>1, <2>2 DEF Sent
<1>4. /\ admitted' = admitted
      /\ admitted[fp] = Cardinality(Holding(fp)) + Sent("canonical", fp)
                          + forfeited[fp]
      /\ forfeited[fp] \in Nat /\ Sent("canonical", fp) \in Nat
  BY DEF ProcessEnds, AdmissionsAccounted, TypeOK, Counts, Sent, Topic
<1>5. QED BY <1>1, <1>2, <1>3, <1>4, HoldingFinite

\* A record delivered or given up is still a record sent.
LEMMA AdmissionsRecords ==
  ASSUME TypeOK, AdmissionsAccounted, NEW fp \in Fp,
         NEW t \in Topic, NEW f \in Fp, Deliver(t, f) \/ GiveUp(t, f)
  PROVE  admitted'[fp] = Cardinality(Holding(fp))'
                           + Sent("canonical", fp)' + forfeited'[fp]
<1> USE DEF ghostVars
<1>1. /\ buffered["canonical"][fp] \in Nat
      /\ stored["canonical"][fp] \in Nat /\ lost["canonical"][fp] \in Nat
  BY SentType DEF Topic
<1>2. Sent("canonical", fp)' = Sent("canonical", fp)
  <2>1. CASE Deliver(t, f)
    BY <1>1, <2>1 DEF Deliver, Sent, BumpAt, TypeOK, Topic, Counts
  <2>2. CASE GiveUp(t, f)
    BY <1>1, <2>2 DEF GiveUp, Sent, BumpAt, TypeOK, Topic, Counts
  <2>3. QED BY <2>1, <2>2
<1>3. /\ req' = req /\ admitted' = admitted /\ forfeited' = forfeited
  BY DEF Deliver, GiveUp
<1>4. Cardinality(Holding(fp))' = Cardinality(Holding(fp))
  <2>1. Holding(fp)' = Holding(fp)
    BY <1>3 DEF Holding
  <2>2. QED BY <2>1
<1>5. QED BY <1>2, <1>3, <1>4 DEF AdmissionsAccounted

\* A request that loses its connection or its producer keeps its admission.
LEMMA RearrangedHolding ==
  ASSUME TypeOK, FreshInPlace, Rearranged, NEW fp
  PROVE  Holding(fp)' = Holding(fp)
<1>1. \A r \in Req : req[r].pc = "dedup" => ~ req[r].fresh
  BY DEF FreshInPlace
<1>2. QED BY <1>1, RearrangedFacts DEF Holding

\* The steps of the connections and of the servers, but for the end of the
\* process, move no admission.
LEMMA AdmissionsElsewhere ==
  ASSUME TypeOK, FreshInPlace, AdmissionsAccounted, NEW fp \in Fp,
         Rearranged,
         UNCHANGED <<admitted, forfeited, recordVars>>
  PROVE  admitted'[fp] = Cardinality(Holding(fp))'
                           + Sent("canonical", fp)' + forfeited'[fp]
<1>1. Holding(fp)' = Holding(fp)
  BY RearrangedHolding
<1>2. Cardinality(Holding(fp))' = Cardinality(Holding(fp))
  BY <1>1
<1>3. Sent("canonical", fp)' = Sent("canonical", fp)
  BY DEF Sent, recordVars
<1>4. QED BY <1>2, <1>3 DEF AdmissionsAccounted

LEMMA AdmissionsReceive ==
  ASSUME TypeOK, TypeOK', FreshInPlace, AdmissionsAccounted, NEW fp \in Fp,
         NEW r \in Req, NEW f \in Fp, NEW suspect \in BOOLEAN,
         Receive(r, f, suspect)
  PROVE  admitted'[fp] = Cardinality(Holding(fp))'
                           + Sent("canonical", fp)' + forfeited'[fp]
<1>1. /\ r \notin Holding(fp) /\ ~ (r \in Holding(fp)')
      /\ \A q \in Req \ {r} : req'[q] = req[q]
  BY DEF Receive, Holding, TypeOK
<1>2. /\ admitted' = admitted /\ forfeited' = forfeited
      /\ Sent("canonical", fp)' = Sent("canonical", fp)
  BY DEF Receive, ghostVars, recordVars, Sent
<1>3. /\ admitted[fp] \in Nat /\ forfeited[fp] \in Nat
      /\ Sent("canonical", fp) \in Nat
  BY DEF TypeOK, Counts, Sent, Topic
<1>4. QED BY <1>1, <1>2, <1>3, Balance DEF Ind

LEMMA AdmissionsStep == IInv /\ TypeOK' /\ [Next]_vars => AdmissionsAccounted'
<1> SUFFICES ASSUME IInv, TypeOK', [Next]_vars, NEW fp \in Fp
             PROVE  admitted'[fp] = Cardinality(Holding(fp))'
                                      + Sent("canonical", fp)' + forfeited'[fp]
  BY DEF AdmissionsAccounted
<1>0. TypeOK /\ FreshInPlace /\ AdmissionsAccounted
  BY DEF IInv
<1> USE <1>0
<1> DEFINE Elsewhere == /\ Rearranged
                        /\ UNCHANGED <<admitted, forfeited, recordVars>>
           Goal == admitted'[fp] = Cardinality(Holding(fp))'
                                     + Sent("canonical", fp)' + forfeited'[fp]
<1>1. Elsewhere => Goal
  BY AdmissionsElsewhere
<1>2. CASE UNCHANGED vars
  BY <1>1, <1>2 DEF vars, ghostVars, Rearranged
<1>3. ASSUME NEW r \in Req, NEW f \in Fp,
             NEW suspect \in BOOLEAN, Receive(r, f, suspect)
      PROVE  Goal
  BY <1>3, AdmissionsReceive
<1>4. ASSUME NEW r \in Req, Step(r) PROVE Goal
  BY <1>4, AdmissionsRequest
<1>5. ASSUME NEW t \in Topic, NEW f \in Fp, Deliver(t, f) \/ GiveUp(t, f)
      PROVE  Goal
  BY <1>5, AdmissionsRecords
<1>6. CASE ProcessEnds
  BY <1>6, AdmissionsEnd
<1>7. CASE StartProcess \/ Monitor \/ Stop
  <2>1. Elsewhere \/ ProcessEnds
    BY <1>7
    DEF StartProcess, Monitor, Ping, KafkaStarts, KafkaStartFails, Wake,
        CheckRedis, CheckKafka, CloseKafka, Flushed, CloseRedis, Stop,
        CancelMonitor, Exit, unchangedByConnection, ghostVars, Rearranged
  <2>2. QED BY <1>1, <1>6, <2>1
<1>8. CASE Environment
  <2>1. Elsewhere \/ ProcessEnds
    BY <1>8
    DEF Environment, RedisGoesDown, RedisComesBack, KafkaGoesDown,
        KafkaComesBack, Expire, Sigterm, Crash, ghostVars, Rearranged
  <2>2. QED BY <1>1, <1>6, <2>1
<1>9. QED BY <1>2, <1>3, <1>4, <1>5, <1>7, <1>8 DEF Next

----------------------------------------------------------------------------
(* The theorems.                                                           *)

LEMMA IInvInit == Init => IInv
BY TypeInit, FreshInit, EntriesInit, AdmissionsInit DEF IInv

LEMMA IInvStep == IInv /\ [Next]_vars => IInv'
<1> SUFFICES ASSUME IInv, [Next]_vars PROVE IInv'
  OBVIOUS
<1>1. TypeOK /\ FreshInPlace /\ EntriesAccounted
  BY DEF IInv
<1>2. TypeOK'
  BY <1>1, TypeNext
<1>3. FreshInPlace'
  BY <1>1, FreshStep
<1>4. EntriesAccounted'
  BY <1>1, EntriesStep
<1>5. AdmissionsAccounted'
  BY <1>2, AdmissionsStep
<1>6. QED BY <1>2, <1>3, <1>4, <1>5 DEF IInv

\* The inductive invariant: types, where requests hold admissions, and the
\* two balances of the deduplicator and of handle_notification.
THEOREM Invariant == Spec => []IInv
<1>1. QED BY IInvInit, IInvStep, PTL DEF Spec

\* Whatever is interrupted, cut off, retried or shut down, an admission is
\* held by one request, became one canonical record or was forfeited.
THEOREM AdmissionsAccountedFor == Spec => []AdmissionsAccounted
<1>1. IInv => AdmissionsAccounted
  BY DEF IInv
<1>2. QED BY <1>1, Invariant, PTL

\* For any number of concurrent requests a notification is published at
\* most once for each deduplication entry it has or had.
THEOREM PublishedAtMostOncePerEntry == Spec => []AtMostOncePerEntry
<1>1. IInv => AtMostOncePerEntry
  <2> SUFFICES ASSUME IInv, NEW fp \in Fp
               PROVE  Sent("canonical", fp) <= Entries(fp) + closed[fp]
    BY DEF AtMostOncePerEntry
  <2>1. /\ admitted[fp] = Entries(fp) + closed[fp]
        /\ admitted[fp] = Cardinality(Holding(fp))
                            + Sent("canonical", fp) + forfeited[fp]
    BY DEF IInv, EntriesAccounted, AdmissionsAccounted
  <2>2. Cardinality(Holding(fp)) \in Nat
    BY HoldingFinite
  <2>3. /\ forfeited[fp] \in Nat /\ Sent("canonical", fp) \in Nat
        /\ closed[fp] \in Nat /\ Entries(fp) \in Nat
    BY DEF IInv, TypeOK, Counts, Sent, Topic, Entries, Ind
  <2>4. QED BY <2>1, <2>2, <2>3
<1>2. QED BY <1>1, Invariant, PTL

----------------------------------------------------------------------------
(* Answers: each follows a raw record of its own and an admission.         *)

\* A request that waits for the answer of Redis, or that publishes, has the
\* fingerprint of a notification that was admitted.
Asked(r) ==
  \/ req[r].pc \in {"asked", "publish"}
  \/ req[r].pc \in {"metadata", "hung"} /\ req[r].fresh

AskedWasAdmitted == \A r \in Req : Asked(r) => admitted[req[r].fp] > 0

LEMMA PastRawFinite ==
  ASSUME NEW fp
  PROVE  IsFiniteSet(PastRaw(fp)) /\ Cardinality(PastRaw(fp)) \in Nat
<1>1. PastRaw(fp) \subseteq Req
  BY DEF PastRaw
<1>2. QED BY <1>1, IngestionAssumption, FS_Subset, FS_CardinalityType

LEMMA PastRawDelta ==
  ASSUME NEW r \in Req, NEW fp,
         \A q \in Req \ {r} : req'[q] = req[q]
  PROVE  Cardinality(PastRaw(fp))' + Ind(r \in PastRaw(fp))
           = Cardinality(PastRaw(fp)) + Ind(r \in PastRaw(fp)')
<1>1. IsFiniteSet(PastRaw(fp))
  BY PastRawFinite
<1>2. PastRaw(fp)' \ {r} = PastRaw(fp) \ {r}
  BY DEF PastRaw
<1>3. QED BY <1>1, <1>2, SetDelta

\* A request that ends does so without an answer, or past its raw record;
\* one that goes on is as far as it was.
LEMMA RequestEnds ==
  ASSUME TypeOK, NEW r \in Req, NEW fp \in Fp,
         Rejected(r) \/ (Done(r) /\ r \in PastRaw(req[r].fp))
  PROVE  /\ answered'[fp] + Ind(r \in PastRaw(fp)')
              <= answered[fp] + Ind(r \in PastRaw(fp))
         /\ answered[fp] <= answered'[fp]
         /\ \A q \in Req \ {r} : req'[q] = req[q]
<1>1. answered \in Counts /\ answered[fp] \in Nat /\ req \in [Req -> Request]
  BY DEF TypeOK, Counts
<1>2. req' = [req EXCEPT ![r] = Idle]
  BY DEF Done, Rejected
<1>3. /\ r \notin PastRaw(fp)'
      /\ \A q \in Req \ {r} : req'[q] = req[q]
  BY <1>1, <1>2 DEF PastRaw, Idle
<1>4. CASE Rejected(r)
  BY <1>1, <1>3, <1>4 DEF Rejected, Ind
<1>5. CASE Done(r) /\ r \in PastRaw(req[r].fp)
  <2>1. answered'[fp] = IF req[r].fp = fp THEN answered[fp] + 1
                                          ELSE answered[fp]
    BY <1>1, <1>5 DEF Done, Bump, Counts
  <2>2. req[r].fp = fp => r \in PastRaw(fp)
    BY <1>5
  <2>3. QED BY <1>1, <1>3, <2>1, <2>2 DEF Ind
<1>6. QED BY <1>4, <1>5

LEMMA RequestGoesOn ==
  ASSUME TypeOK, NEW r \in Req, NEW fp \in Fp, answered' = answered,
         r \in PastRaw(req[r].fp), req'[r].fp = req[r].fp,
         \A q \in Req \ {r} : req'[q] = req[q]
  PROVE  /\ answered'[fp] + Ind(r \in PastRaw(fp)')
              <= answered[fp] + Ind(r \in PastRaw(fp))
         /\ answered[fp] <= answered'[fp]
         /\ \A q \in Req \ {r} : req'[q] = req[q]
<1>1. answered[fp] \in Nat
  BY DEF TypeOK, Counts
<1>2. r \in PastRaw(fp)' => r \in PastRaw(fp)
  BY DEF PastRaw
<1>3. QED BY <1>1, <1>2 DEF Ind

\* A step of a request past its raw record that publishes nothing.
LEMMA RequestAnswers ==
  ASSUME TypeOK, FreshInPlace, NEW r \in Req, Step(r), NEW fp \in Fp,
         ~ SendRaw(r)
  PROVE  /\ answered'[fp] + Ind(r \in PastRaw(fp)')
              <= answered[fp] + Ind(r \in PastRaw(fp))
         /\ answered[fp] <= answered'[fp]
         /\ \A q \in Req \ {r} : req'[q] = req[q]
<1>0. req \in [Req -> Request]
  BY DEF TypeOK
<1>1. CASE SendRawFails(r) \/ SendCanonicalFails(r)
  BY <1>1, RequestEnds DEF SendRawFails, SendCanonicalFails
<1>2. ASSUME ~ SendRawFails(r), ~ AwaitMetadata(r)
      PROVE  r \in PastRaw(req[r].fp)
  BY <1>2
  DEF Step, RedisSets, RedisAnswersDuplicate, RedisAnswersNew, RedisFails,
      FallbackFindsDuplicate, FallbackAdmits, BypassAdmits, SendCanonical,
      SendCanonicalFails, SendsCanonical, PastRaw
<1>6. CASE AwaitMetadata(r)
  <2>1. /\ answered' = answered /\ \A q \in Req \ {r} : req'[q] = req[q]
        /\ r \in PastRaw(fp)' => r \in PastRaw(fp)
    BY <1>0, <1>6 DEF AwaitMetadata, FreshInPlace, PastRaw, Request, ghostVars
  <2>2. answered[fp] \in Nat
    BY DEF TypeOK, Counts
  <2>3. QED BY <2>1, <2>2 DEF Ind
<1>3. CASE ~ SendRawFails(r) /\ ~ AwaitMetadata(r) /\ Done(r)
  BY <1>2, <1>3, RequestEnds
<1>4. CASE /\ ~ SendRawFails(r) /\ ~ AwaitMetadata(r)
           /\ GoOn(r) \/ RedisSets(r)
  <2>1. /\ answered' = answered /\ req'[r].fp = req[r].fp
        /\ \A q \in Req \ {r} : req'[q] = req[q]
    BY <1>0, <1>4 DEF GoOn, RedisSets, Request
  <2>2. QED BY <1>2, <1>4, <2>1, RequestGoesOn
<1>5. QED
  BY <1>1, <1>3, <1>4, <1>6
  DEF Step, RedisAnswersDuplicate, RedisAnswersNew, FallbackFindsDuplicate,
      FallbackAdmits, BypassAdmits, SendCanonical, Quarantine

\* What each step of a request hands to the producer.
LEMMA RequestSends ==
  ASSUME TypeOK, NEW r \in Req, Step(r), NEW t \in Topic, NEW fp \in Fp
  PROVE  Sent(t, fp)' =
           Sent(t, fp) + Ind(\/ t = "raw" /\ SendRaw(r) /\ req[r].fp = fp
                             \/ t = "canonical" /\ SendCanonical(r)
                                  /\ req[r].fp = fp)
<1>1. /\ buffered[t][fp] \in Nat /\ stored[t][fp] \in Nat
      /\ lost[t][fp] \in Nat /\ Sent(t, fp) \in Nat
      /\ buffered \in [Topic -> Counts]
  BY SentType DEF TypeOK
<1>2. ASSUME SendRaw(r) \/ SendCanonical(r)
      PROVE  /\ stored' = stored /\ lost' = lost
             /\ buffered'[t][fp] = buffered[t][fp]
                  + Ind(\/ t = "raw" /\ SendRaw(r) /\ req[r].fp = fp
                        \/ t = "canonical" /\ SendCanonical(r)
                             /\ req[r].fp = fp)
  <2>1. req[r].fp \in Fp
    BY <1>2 DEF SendRaw, SendsRaw, SendCanonical, SendsCanonical, TypeOK
  <2>2. CASE SendRaw(r)
    <3>1. /\ ~ SendCanonical(r)
          /\ buffered' = BumpAt(buffered, "raw", req[r].fp, 1)
      BY <2>2 DEF SendRaw, SendsRaw, SendCanonical, SendsCanonical
    <3>2. buffered'[t][fp] = IF t = "raw" /\ fp = req[r].fp
                             THEN buffered[t][fp] + 1 ELSE buffered[t][fp]
      BY <1>1, <2>1, <3>1 DEF BumpAt, Counts, Topic
    <3>3. QED BY <1>1, <2>2, <3>1, <3>2 DEF SendRaw, Ind
  <2>3. CASE SendCanonical(r)
    <3>1. /\ ~ SendRaw(r)
          /\ buffered' = BumpAt(buffered, "canonical", req[r].fp, 1)
      BY <2>3 DEF SendRaw, SendsRaw, SendCanonical, SendsCanonical
    <3>2. buffered'[t][fp] = IF t = "canonical" /\ fp = req[r].fp
                             THEN buffered[t][fp] + 1 ELSE buffered[t][fp]
      BY <1>1, <2>1, <3>1 DEF BumpAt, Counts, Topic
    <3>3. QED BY <1>1, <2>3, <3>1, <3>2 DEF SendCanonical, Ind
  <2>4. QED BY <1>2, <2>2, <2>3
<1>3. CASE SendRaw(r) \/ SendCanonical(r)
  BY <1>1, <1>2, <1>3 DEF Sent, Ind
<1>4. CASE ~ (SendRaw(r) \/ SendCanonical(r))
  <2>1. UNCHANGED recordVars
    BY <1>4
    DEF Step, AwaitMetadata, SendRawFails, RedisSets, RedisAnswersDuplicate,
        RedisAnswersNew, FallbackFindsDuplicate, FallbackAdmits, BypassAdmits,
        SendCanonicalFails, recordVars
  <2>2. QED BY <1>1, <1>4, <2>1 DEF recordVars, Sent, Ind
<1>5. QED BY <1>3, <1>4

\* A record delivered, given up or lost with the process was still sent.
LEMMA SentKept ==
  ASSUME TypeOK, NEW t \in Topic, NEW fp \in Fp,
         \/ ProcessEnds
         \/ \E u \in Topic, f \in Fp : Deliver(u, f) \/ GiveUp(u, f)
  PROVE  Sent(t, fp)' = Sent(t, fp)
<1>0. /\ buffered[t][fp] \in Nat /\ stored[t][fp] \in Nat
      /\ lost[t][fp] \in Nat
      /\ buffered \in [Topic -> Counts] /\ stored \in [Topic -> Counts]
      /\ lost \in [Topic -> Counts]
  BY SentType DEF TypeOK
<1>1. CASE ProcessEnds
  <2>1. /\ buffered'[t][fp] = 0 /\ stored'[t][fp] = stored[t][fp]
        /\ lost'[t][fp] = lost[t][fp] + buffered[t][fp]
    BY <1>1 DEF ProcessEnds
  <2>2. QED BY <1>0, <2>1 DEF Sent
<1>2. ASSUME NEW u \in Topic, NEW f \in Fp, Deliver(u, f)
      PROVE  Sent(t, fp)' = Sent(t, fp)
  BY <1>0, <1>2 DEF Deliver, BumpAt, Counts, Sent
<1>3. ASSUME NEW u \in Topic, NEW f \in Fp, GiveUp(u, f)
      PROVE  Sent(t, fp)' = Sent(t, fp)
  BY <1>0, <1>3 DEF GiveUp, BumpAt, Counts, Sent
<1>4. QED BY <1>1, <1>2, <1>3

RawBefore(fp) ==
  /\ Sent("canonical", fp) <= answered[fp]
  /\ answered[fp] + Cardinality(PastRaw(fp)) <= Sent("raw", fp)

LEMMA RawRequest ==
  ASSUME TypeOK, TypeOK', FreshInPlace, NEW r \in Req, Step(r), NEW fp \in Fp,
         RawBefore(fp)
  PROVE  RawBefore(fp)'
<1> DEFINE held == Cardinality(PastRaw(fp))
           heldNext == Cardinality(PastRaw(fp))'
           raw == Sent("raw", fp)
           canonical == Sent("canonical", fp)
<1>1. /\ answered[fp] \in Nat /\ answered'[fp] \in Nat
      /\ raw \in Nat /\ canonical \in Nat
      /\ answered \in Counts
  BY SentType DEF TypeOK, Counts, Topic
<1>2. held \in Nat /\ heldNext \in Nat
  <2>1. PastRaw(fp)' \subseteq Req
    BY DEF PastRaw
  <2>2. QED BY <2>1, PastRawFinite, IngestionAssumption, FS_Subset,
               FS_CardinalityType
<1>3. CASE SendRaw(r)
  <2>1. ~ SendCanonical(r) /\ answered' = answered
    BY <1>3
    DEF SendRaw, SendsRaw, SendCanonical, SendsCanonical, FreshInPlace,
        ghostVars
  <2>2. raw' = raw + Ind(req[r].fp = fp)
    BY <1>3, RequestSends, Zenon DEF Topic
  <2>3. canonical' = canonical + Ind(FALSE)
    BY <2>1, RequestSends DEF Topic
  <2>4. /\ r \notin PastRaw(fp) /\ (r \in PastRaw(fp)' <=> req[r].fp = fp)
        /\ \A q \in Req \ {r} : req'[q] = req[q]
    BY <1>3 DEF SendRaw, SendsRaw, PastRaw, TypeOK, Request
  <2>5. heldNext + Ind(r \in PastRaw(fp)) = held + Ind(r \in PastRaw(fp)')
    BY <2>4, PastRawDelta
  <2>6. heldNext = held + Ind(req[r].fp = fp)
    BY <1>2, <2>4, <2>5 DEF Ind
  <2>7. canonical' = canonical
    BY <1>1, <2>3 DEF Ind
  <2>8. raw' = Sent("raw", fp)' /\ canonical' = Sent("canonical", fp)'
    OBVIOUS
  <2>9. canonical <= answered[fp] /\ answered[fp] + held <= raw
    BY DEF RawBefore
  <2> HIDE DEF held, heldNext, raw, canonical
  <2>10. answered'[fp] + heldNext <= raw'
    BY <1>1, <1>2, <2>1, <2>2, <2>6, <2>9 DEF Ind
  <2>11. canonical' <= answered'[fp]
    BY <2>1, <2>7, <2>9
  <2>12. QED BY <2>8, <2>10, <2>11 DEF RawBefore, held, heldNext, raw, canonical
<1>4. CASE ~ SendRaw(r)
  <2>1. /\ answered'[fp] + Ind(r \in PastRaw(fp)')
             <= answered[fp] + Ind(r \in PastRaw(fp))
        /\ answered[fp] <= answered'[fp]
        /\ \A q \in Req \ {r} : req'[q] = req[q]
    BY <1>4, RequestAnswers
  <2>2. raw' = raw + Ind(FALSE)
    BY <1>4, RequestSends DEF Topic
  <2>3. canonical' = canonical + Ind(SendCanonical(r) /\ req[r].fp = fp)
    BY <1>4, RequestSends, Zenon DEF Topic
  <2>4. SendCanonical(r) => answered'[fp] = answered[fp] + Ind(req[r].fp = fp)
    BY <1>1 DEF SendCanonical, Done, Bump, Counts, Ind
  <2>5. heldNext + Ind(r \in PastRaw(fp)) = held + Ind(r \in PastRaw(fp)')
    BY <2>1, PastRawDelta
  <2>6. canonical <= answered[fp] /\ answered[fp] + held <= raw
    BY DEF RawBefore
  <2>7. raw' = Sent("raw", fp)' /\ canonical' = Sent("canonical", fp)'
    OBVIOUS
  <2> HIDE DEF held, heldNext, raw, canonical
  <2>8. answered'[fp] + heldNext <= raw'
    <3>1. raw' = raw
      BY <1>1, <2>2 DEF Ind
    <3>2. answered'[fp] + heldNext <= answered[fp] + held
      BY <1>1, <1>2, <2>1, <2>5 DEF Ind
    <3>3. QED BY <1>1, <1>2, <2>6, <3>1, <3>2
  <2>9. canonical' <= answered'[fp]
    <3>1. CASE SendCanonical(r) /\ req[r].fp = fp
      BY <1>1, <2>3, <2>4, <2>6, <3>1 DEF Ind
    <3>2. CASE ~ (SendCanonical(r) /\ req[r].fp = fp)
      BY <1>1, <2>1, <2>3, <2>6, <3>2 DEF Ind
    <3>3. QED BY <3>1, <3>2
  <2>10. QED BY <2>7, <2>8, <2>9 DEF RawBefore, held, heldNext, raw, canonical
<1>5. QED BY <1>3, <1>4

\* The steps that answer no request and send no record.
LEMMA RawElsewhere ==
  ASSUME TypeOK, NEW fp \in Fp, RawBefore(fp), answered' = answered,
         \A t \in Topic : Sent(t, fp)' = Sent(t, fp),
         PastRaw(fp)' \in {{}, PastRaw(fp)}
  PROVE  RawBefore(fp)'
<1>1. /\ Sent("canonical", fp)' = Sent("canonical", fp)
      /\ Sent("raw", fp)' = Sent("raw", fp)
  BY DEF Topic
<1>2. /\ Cardinality(PastRaw(fp))' \in Nat
      /\ Cardinality(PastRaw(fp))' <= Cardinality(PastRaw(fp))
  BY PastRawFinite, FS_EmptySet
<1>3. /\ answered[fp] \in Nat /\ Sent("raw", fp) \in Nat
      /\ Cardinality(PastRaw(fp)) \in Nat
  BY PastRawFinite, SentType DEF TypeOK, Counts, Topic
<1>4. QED BY <1>1, <1>2, <1>3 DEF RawBefore

LEMMA RearrangedRaw ==
  ASSUME TypeOK, Rearranged, NEW fp
  PROVE  PastRaw(fp)' = PastRaw(fp)
BY RearrangedFacts DEF PastRaw

LEMMA RawStep ==
  TypeOK /\ TypeOK' /\ FreshInPlace /\ RawBeforeAnswer /\ [Next]_vars
    => RawBeforeAnswer'
<1> SUFFICES ASSUME TypeOK, TypeOK', FreshInPlace, RawBeforeAnswer, [Next]_vars,
                    NEW fp \in Fp
             PROVE  RawBefore(fp)'
  BY DEF RawBeforeAnswer, RawBefore
<1>0. RawBefore(fp)
  BY DEF RawBeforeAnswer, RawBefore
<1>1. ASSUME Rearranged, UNCHANGED <<answered, recordVars>>
      PROVE  RawBefore(fp)'
  <2>1. PastRaw(fp)' = PastRaw(fp)
    BY <1>1, RearrangedFacts, RearrangedRaw
  <2>2. \A t \in Topic : Sent(t, fp)' = Sent(t, fp)
    BY <1>1 DEF Sent, recordVars
  <2>3. QED BY <1>0, <1>1, <2>1, <2>2, RawElsewhere
<1>2. CASE UNCHANGED vars
  BY <1>1, <1>2 DEF vars, ghostVars, Rearranged
<1>3. ASSUME NEW r \in Req, NEW f \in Fp,
             NEW suspect \in BOOLEAN, Receive(r, f, suspect)
      PROVE  RawBefore(fp)'
  <2>1. PastRaw(fp)' = PastRaw(fp)
    BY <1>3 DEF Receive, PastRaw, TypeOK
  <2>2. answered' = answered /\ \A t \in Topic : Sent(t, fp)' = Sent(t, fp)
    BY <1>3 DEF Receive, Sent, recordVars, ghostVars
  <2>3. QED BY <1>0, <2>1, <2>2, RawElsewhere
<1>4. ASSUME NEW r \in Req, Step(r) PROVE RawBefore(fp)'
  BY <1>0, <1>4, RawRequest
<1>5. ASSUME NEW t \in Topic, NEW f \in Fp, Deliver(t, f) \/ GiveUp(t, f)
      PROVE  RawBefore(fp)'
  <2>1. \A u \in Topic : Sent(u, fp)' = Sent(u, fp)
    BY <1>5, SentKept
  <2>2. answered' = answered /\ PastRaw(fp)' = PastRaw(fp)
    BY <1>5 DEF Deliver, GiveUp, ghostVars, PastRaw
  <2>3. QED BY <1>0, <2>1, <2>2, RawElsewhere
<1>6. CASE ProcessEnds
  <2>1. \A u \in Topic : Sent(u, fp)' = Sent(u, fp)
    BY <1>6, SentKept
  <2>2. answered' = answered /\ PastRaw(fp)' = {}
    BY <1>6 DEF ProcessEnds, PastRaw, Idle
  <2>3. QED BY <1>0, <2>1, <2>2, RawElsewhere
<1>7. CASE StartProcess \/ Monitor \/ Stop
  BY <1>1, <1>6, <1>7
  DEF StartProcess, Monitor, Ping, KafkaStarts, KafkaStartFails, Wake,
      CheckRedis, CheckKafka, CloseKafka, Flushed, CloseRedis, Stop,
      CancelMonitor, Exit, unchangedByConnection, ghostVars, Rearranged
<1>8. CASE Environment
  BY <1>1, <1>6, <1>8
  DEF Environment, RedisGoesDown, RedisComesBack, KafkaGoesDown,
      KafkaComesBack, Expire, Sigterm, Crash, ghostVars, Rearranged
<1>9. QED BY <1>2, <1>3, <1>4, <1>5, <1>7, <1>8 DEF Next

LEMMA RawInit == Init => RawBeforeAnswer
<1> SUFFICES ASSUME Init, NEW fp \in Fp PROVE RawBefore(fp)
  BY DEF RawBeforeAnswer, RawBefore
<1>1. Cardinality(PastRaw(fp)) = 0
  <2>1. PastRaw(fp) = {}
    BY DEF Init, PastRaw, Idle
  <2>2. QED BY <2>1, FS_EmptySet
<1>2. Sent("canonical", fp) = 0 /\ Sent("raw", fp) = 0
  BY DEF Init, Sent, Topic
<1>3. QED BY <1>1, <1>2 DEF Init, RawBefore

\* An entry of the deduplicator exists only after an admission.
LEMMA EntryMeansAdmitted ==
  ASSUME TypeOK, EntriesAccounted, NEW fp \in Fp, fp \in redisKeys \cup local
  PROVE  admitted[fp] > 0
BY DEF TypeOK, EntriesAccounted, Entries, Ind, Counts

LEMMA AdmittedGrows ==
  ASSUME TypeOK, [Next]_vars, NEW fp \in Fp
  PROVE  admitted[fp] <= admitted'[fp]
<1>0. admitted \in Counts /\ admitted[fp] \in Nat
  BY DEF TypeOK, Counts
<1>1. CASE admitted' = admitted
  BY <1>0, <1>1
<1>2. ASSUME NEW r \in Req, NEW n \in Nat,
             admitted' = Bump(admitted, req[r].fp, n)
      PROVE  admitted[fp] <= admitted'[fp]
  BY <1>0, <1>2 DEF Bump, Counts
<1>3. ASSUME NEW r \in Req, RedisSets(r) PROVE admitted[fp] <= admitted'[fp]
  <2>1. Ind(req[r].fp \notin redisKeys) \in Nat
    BY DEF Ind
  <2>2. admitted' = Bump(admitted, req[r].fp, Ind(req[r].fp \notin redisKeys))
    BY <1>3 DEF RedisSets
  <2>3. QED BY <1>2, <2>1, <2>2
<1>4. ASSUME NEW r \in Req, FallbackAdmits(r) \/ BypassAdmits(r)
      PROVE  admitted[fp] <= admitted'[fp]
  BY <1>2, <1>4 DEF FallbackAdmits, BypassAdmits
<1>5. CASE \E r \in Req : Step(r)
  BY <1>1, <1>3, <1>4, <1>5
  DEF Step, AwaitMetadata, SendRaw, SendRawFails, RedisAnswersDuplicate,
      RedisAnswersNew, FallbackFindsDuplicate, SendCanonical,
      SendCanonicalFails, ghostVars
<1>6. CASE ~ (\E r \in Req : Step(r))
  <2>1. admitted' = admitted
    BY <1>6
    DEF vars, ghostVars, Next, Receive, Deliver, GiveUp, StartProcess, Monitor,
        Ping, KafkaStarts, KafkaStartFails, Wake, CheckRedis, CheckKafka,
        CloseKafka, Flushed, CloseRedis, Stop, CancelMonitor, Exit,
        ProcessEnds, unchangedByConnection, Environment, RedisGoesDown,
        RedisComesBack, KafkaGoesDown, KafkaComesBack, Expire, Sigterm, Crash
  <2>2. QED BY <1>1, <2>1
<1>7. QED BY <1>5, <1>6

\* A request whose fingerprint is declared new or known.
Decides(r) ==
  \/ RedisSets(r) \/ RedisAnswersDuplicate(r) \/ RedisAnswersNew(r)
  \/ FallbackFindsDuplicate(r) \/ FallbackAdmits(r) \/ BypassAdmits(r)
  \/ SendCanonical(r)

LEMMA DecidedWasAdmitted ==
  ASSUME TypeOK, EntriesAccounted, AskedWasAdmitted, NEW r \in Req, Decides(r)
  PROVE  admitted'[req[r].fp] > 0
<1> DEFINE fp == req[r].fp
<1>0. /\ fp \in Fp /\ admitted \in Counts /\ admitted[fp] \in Nat
  BY DEF Decides, RedisSets, RedisAnswersDuplicate, RedisAnswersNew,
         RedisFails, FallbackFindsDuplicate, FallbackAdmits, BypassAdmits,
         SendCanonical, SendsCanonical, TypeOK, Counts
<1>1. CASE RedisSets(r)
  <2>1. CASE fp \in redisKeys
    <3>1. admitted[fp] > 0
      BY <1>0, <2>1, EntryMeansAdmitted
    <3>2. admitted'[fp] = admitted[fp] + 0
      BY <1>0, <1>1, <2>1 DEF RedisSets, Bump, Ind, Counts
    <3>3. QED BY <1>0, <3>1, <3>2
  <2>2. CASE fp \notin redisKeys
    <3>1. admitted'[fp] = admitted[fp] + 1
      BY <1>0, <1>1, <2>2 DEF RedisSets, Bump, Ind, Counts
    <3>2. QED BY <1>0, <3>1
  <2>3. QED BY <2>1, <2>2
<1>2. CASE \/ RedisAnswersDuplicate(r) \/ RedisAnswersNew(r)
           \/ SendCanonical(r)
  BY <1>2
  DEF AskedWasAdmitted, Asked, RedisAnswersDuplicate, RedisAnswersNew,
      SendCanonical, SendsCanonical
<1>3. CASE FallbackFindsDuplicate(r)
  BY <1>0, <1>3, EntryMeansAdmitted DEF FallbackFindsDuplicate
<1>4. CASE FallbackAdmits(r) \/ BypassAdmits(r)
  <2>1. admitted'[fp] = admitted[fp] + 1
    BY <1>0, <1>4 DEF FallbackAdmits, BypassAdmits, Bump, Counts
  <2>2. QED BY <1>0, <2>1
<1>5. QED BY <1>1, <1>2, <1>3, <1>4 DEF Decides

LEMMA AskedStep ==
  TypeOK /\ FreshInPlace /\ EntriesAccounted /\ AskedWasAdmitted /\ [Next]_vars
    => AskedWasAdmitted'
<1> SUFFICES ASSUME TypeOK, FreshInPlace, EntriesAccounted, AskedWasAdmitted,
                    [Next]_vars, NEW q \in Req, Asked(q)'
             PROVE  admitted'[req'[q].fp] > 0
  BY DEF AskedWasAdmitted
<1>0. req \in [Req -> Request]
  BY DEF TypeOK
<1>1. ASSUME Asked(q), req'[q].fp = req[q].fp
      PROVE  admitted'[req'[q].fp] > 0
  <2>1. req[q].fp \in Fp /\ admitted[req[q].fp] > 0
    BY <1>1 DEF AskedWasAdmitted, Asked, TypeOK
  <2>2. admitted[req[q].fp] <= admitted'[req[q].fp]
    BY <2>1, AdmittedGrows
  <2>3. admitted[req[q].fp] \in Nat /\ admitted'[req[q].fp] \in Nat
    BY <2>1, TypeNext DEF TypeOK, Counts
  <2>4. QED BY <1>1, <2>1, <2>2, <2>3
<1>2. ASSUME NEW r \in Req, Step(r) PROVE admitted'[req'[q].fp] > 0
  <2>0. CASE req'[q] = req[q]
    BY <1>1, <2>0 DEF Asked
  <2>1. CASE q # r
    BY <1>0, <2>0, <1>2, <2>1
    DEF Step, AwaitMetadata, SendRaw, SendRawFails, RedisSets,
        RedisAnswersDuplicate, RedisAnswersNew, FallbackFindsDuplicate,
        FallbackAdmits, BypassAdmits, SendCanonical, SendCanonicalFails,
        Quarantine, GoOn, Done, Rejected
  <2>4. CASE q = r /\ AwaitMetadata(r)
    BY <1>0, <1>1, <2>4 DEF AwaitMetadata, FreshInPlace, Asked, Request
  <2>2. CASE q = r /\ ~ AwaitMetadata(r)
    <3>1. Decides(r) /\ (RedisSets(r) \/ GoOn(r))
      BY <1>0, <1>2, <2>2
      DEF Decides, Asked, Step, SendRaw, SendRawFails, RedisAnswersDuplicate,
          RedisAnswersNew, FallbackFindsDuplicate, FallbackAdmits,
          BypassAdmits, SendCanonical, SendCanonicalFails, Quarantine, Done,
          Rejected, Idle, Request
    <3>2. req'[r].fp = req[r].fp
      BY <1>0, <3>1 DEF RedisSets, GoOn, Request
    <3>3. QED BY <2>2, <3>1, <3>2, DecidedWasAdmitted
  <2>3. QED BY <2>1, <2>2, <2>4
<1>3. ASSUME NEW r \in Req, NEW f \in Fp,
             NEW suspect \in BOOLEAN, Receive(r, f, suspect)
      PROVE  admitted'[req'[q].fp] > 0
  BY <1>0, <1>1, <1>3 DEF Receive, Asked
<1>4. CASE req' = req
  BY <1>1, <1>4 DEF Asked
<1>5. CASE Rearranged
  BY <1>1, <1>5, RearrangedFacts DEF Asked
<1>6. CASE ProcessEnds
  BY <1>6 DEF ProcessEnds, Idle, Asked
<1>7. CASE UNCHANGED vars
  BY <1>4, <1>7 DEF vars
<1>8. ASSUME NEW t \in Topic, NEW f \in Fp, Deliver(t, f) \/ GiveUp(t, f)
      PROVE  admitted'[req'[q].fp] > 0
  BY <1>4, <1>8 DEF Deliver, GiveUp
<1>9. CASE StartProcess \/ Monitor \/ Stop
  BY <1>4, <1>5, <1>6, <1>9
  DEF StartProcess, Monitor, Ping, KafkaStarts, KafkaStartFails, Wake,
      CheckRedis, CheckKafka, CloseKafka, Flushed, CloseRedis, Stop,
      CancelMonitor, Exit, Rearranged
<1>10. CASE Environment
  BY <1>4, <1>5, <1>6, <1>10
  DEF Rearranged, Environment, RedisGoesDown, RedisComesBack, KafkaGoesDown,
      KafkaComesBack, Expire, Sigterm, Crash
<1>11. QED BY <1>2, <1>3, <1>7, <1>8, <1>9, <1>10 DEF Next

LEMMA AnswerStep ==
  TypeOK /\ EntriesAccounted /\ AskedWasAdmitted /\ AnswerNeedsAdmission
    /\ [Next]_vars => AnswerNeedsAdmission'
<1> SUFFICES ASSUME TypeOK, EntriesAccounted, AskedWasAdmitted,
                    AnswerNeedsAdmission, [Next]_vars,
                    NEW fp \in Fp, answered'[fp] > 0
             PROVE  admitted'[fp] > 0
  BY DEF AnswerNeedsAdmission
<1>0. answered \in Counts
  BY DEF TypeOK
<1>1. CASE answered'[fp] = answered[fp]
  <2>1. admitted[fp] > 0 /\ admitted[fp] <= admitted'[fp]
    BY <1>1, AdmittedGrows DEF AnswerNeedsAdmission
  <2>2. admitted[fp] \in Nat /\ admitted'[fp] \in Nat
    BY TypeNext DEF TypeOK, Counts
  <2>3. QED BY <2>1, <2>2
<1>2. ASSUME NEW r \in Req, Step(r) PROVE admitted'[fp] > 0
  <2>1. CASE Decides(r) /\ req[r].fp = fp
    BY <2>1, DecidedWasAdmitted
  <2>2. CASE Decides(r) /\ req[r].fp # fp
    <3>1. answered' = answered \/ Done(r)
      BY <2>2
      DEF Decides, RedisSets, RedisAnswersDuplicate, RedisAnswersNew,
          FallbackFindsDuplicate, FallbackAdmits, BypassAdmits,
          SendCanonical, Quarantine, GoOn
    <3>2. answered'[fp] = answered[fp]
      BY <1>0, <2>2, <3>1 DEF Done, Bump, Counts
    <3>3. QED BY <1>1, <3>2
  <2>3. CASE ~ Decides(r)
    <3>1. answered' = answered
      BY <1>2, <2>3
      DEF Step, AwaitMetadata, Decides, SendRaw, SendRawFails,
          SendCanonicalFails, Rejected, ghostVars
    <3>2. QED BY <1>1, <3>1
  <2>4. QED BY <2>1, <2>2, <2>3
<1>3. CASE ~ (\E r \in Req : Step(r))
  <2>1. answered' = answered
    BY <1>3
    DEF vars, ghostVars, Next, Receive, Deliver, GiveUp, StartProcess, Monitor,
        Ping, KafkaStarts, KafkaStartFails, Wake, CheckRedis, CheckKafka,
        CloseKafka, Flushed, CloseRedis, Stop, CancelMonitor, Exit,
        ProcessEnds, unchangedByConnection, Environment, RedisGoesDown,
        RedisComesBack, KafkaGoesDown, KafkaComesBack, Expire, Sigterm, Crash
  <2>2. QED BY <1>1, <2>1
<1>4. QED BY <1>2, <1>3

LEMMA AnswerInit == Init => AskedWasAdmitted /\ AnswerNeedsAdmission
BY DEF Init, AskedWasAdmitted, Asked, AnswerNeedsAdmission, Idle

\* Every answer 202 follows a raw record of its own, and a canonical record
\* an answer, whatever crashes, outages and retries there were
\* (core.py:45-88).
THEOREM RawComesFirst == Spec => []RawBeforeAnswer
<1> DEFINE Inv == TypeOK /\ FreshInPlace /\ RawBeforeAnswer
<1>1. Init => Inv
  BY TypeInit, FreshInit, RawInit
<1>2. Inv /\ [Next]_vars => Inv'
  BY TypeNext, FreshStep, RawStep
<1>3. QED BY <1>1, <1>2, PTL DEF Spec

\* A notification is called a duplicate only after some request was admitted
\* for it (core.py:52-56).
THEOREM DuplicateWasAdmitted == Spec => []AnswerNeedsAdmission
<1> DEFINE Inv == IInv /\ AskedWasAdmitted /\ AnswerNeedsAdmission
<1>1. Init => Inv
  BY IInvInit, AnswerInit
<1>2. Inv /\ [Next]_vars => Inv'
  BY IInvStep, AskedStep, AnswerStep DEF IInv
<1>3. QED BY <1>1, <1>2, PTL DEF Spec

----------------------------------------------------------------------------
(* Shutting down.                                                          *)

\* Once the webhook service disconnects no request is in progress.
DrainedWhenClosing ==
  proc = "closing" => \A r \in Req : req[r].pc = "idle"

LEMMA DrainedStep ==
  ASSUME Adapter = "webhook", TypeOK, DrainedWhenClosing, [Next]_vars
  PROVE  DrainedWhenClosing'
<1> SUFFICES ASSUME proc' = "closing", NEW q \in Req
             PROVE  req'[q].pc = "idle"
  BY DEF DrainedWhenClosing
<1>0. req \in [Req -> Request]
  BY DEF TypeOK
<1>1. CASE Stop
  <2>1. \A r \in Req : req[r].pc = "idle"
    BY <1>1 DEF Stop
  <2>2. Rearranged
    BY <1>1 DEF Stop, CancelMonitor, Rearranged
  <2>3. QED BY <2>1, <2>2, RearrangedFacts
<1>2. CASE ~ Stop
  <2>1. ~ ProcessEnds
    BY DEF ProcessEnds
  <2>2. proc = "closing"
    BY <1>2, <2>1
    DEF vars, connVars, Next, Receive, Step, AwaitMetadata, SendRaw,
        SendRawFails, RedisSets, RedisAnswersDuplicate, RedisAnswersNew,
        FallbackFindsDuplicate, FallbackAdmits, BypassAdmits, SendCanonical,
        SendCanonicalFails, Deliver, GiveUp, StartProcess, Monitor, Ping,
        KafkaStarts, KafkaStartFails, ConnectFails, Wake, CheckRedis,
        CheckKafka, CloseKafka, Flushed, CloseRedis, Exit, Environment,
        RedisGoesDown, RedisComesBack, KafkaGoesDown, KafkaComesBack, Expire,
        Sigterm, Crash
  <2>3. \A r \in Req : req[r].pc = "idle"
    BY <2>2 DEF DrainedWhenClosing
  <2>4. \A r \in Req : ~ Step(r)
    BY <2>3
    DEF Step, AwaitMetadata, SendRaw, SendRawFails, RedisSets,
        RedisAnswersDuplicate, RedisAnswersNew, RedisFails,
        FallbackFindsDuplicate, FallbackAdmits, BypassAdmits, SendCanonical,
        SendCanonicalFails, SendsRaw, SendsCanonical
  <2>5. Rearranged
    BY <1>2, <2>1, <2>2, <2>4
    DEF Rearranged, vars, Next, Receive, Deliver, GiveUp, StartProcess,
        Monitor, Ping, KafkaStarts, KafkaStartFails, Wake, CheckRedis,
        CheckKafka, CloseKafka, Flushed, CloseRedis, Exit, Environment,
        RedisGoesDown, RedisComesBack, KafkaGoesDown, KafkaComesBack, Expire,
        Sigterm, Crash
  <2>6. QED BY <2>3, <2>5, RearrangedFacts
<1>3. QED BY <1>1, <1>2

\* Outside a flush, and unless one was cut short, a producer that is not
\* running has nothing in its buffer.
BufferEmpty == \A t \in Topic, f \in Fp : buffered[t][f] = 0

StoppedIsDrained ==
  /\ proc = "down" => mon = "off" /\ kafka = "none"
  /\ proc = "closing" => mon \in {"closeKafka", "flush", "closeRedis"}
  /\ interrupted => proc = "closing"
  /\ mon \in {"ping", "flush", "closeRedis"} => kafka # "started"
  /\ mon = "startKafka" => kafka = "starting"
  /\ kafka = "started" \/ (kafka = "stopped" /\ (mon = "flush" \/ interrupted))
       \/ BufferEmpty

LEMMA StoppedInit == Init => StoppedIsDrained
BY DEF Init, StoppedIsDrained, BufferEmpty

\* Steps that touch neither the connections nor an empty buffer.
LEMMA StoppedElsewhere ==
  ASSUME StoppedIsDrained, UNCHANGED connVars,
         kafka = "started" \/ buffered' = buffered \/ ~ BufferEmpty
  PROVE  StoppedIsDrained'
BY DEF StoppedIsDrained, connVars, BufferEmpty

LEMMA StoppedStep ==
  ASSUME TypeOK, StoppedIsDrained, [Next]_vars
  PROVE  StoppedIsDrained'
<1> USE DEF unchangedByConnection, recordVars
<1>1. CASE UNCHANGED vars
  BY <1>1, StoppedElsewhere DEF vars
<1>2. ASSUME NEW r \in Req, NEW f \in Fp,
             NEW suspect \in BOOLEAN, Receive(r, f, suspect)
      PROVE  StoppedIsDrained'
  BY <1>2, StoppedElsewhere DEF Receive
<1>3. ASSUME NEW r \in Req, Step(r) PROVE StoppedIsDrained'
  <2>1. /\ UNCHANGED connVars
        /\ kafka = "started" \/ buffered' = buffered
    BY <1>3
    DEF Step, AwaitMetadata, SendRaw, SendRawFails, RedisSets,
        RedisAnswersDuplicate, RedisAnswersNew, FallbackFindsDuplicate,
        FallbackAdmits, BypassAdmits, SendCanonical, SendCanonicalFails,
        CanSend
  <2>2. QED BY <2>1, StoppedElsewhere
<1>4. ASSUME NEW t \in Topic, NEW f \in Fp, Deliver(t, f) \/ GiveUp(t, f)
      PROVE  StoppedIsDrained'
  <2>1. UNCHANGED connVars /\ ~ BufferEmpty
    BY <1>4 DEF Deliver, GiveUp, BufferEmpty
  <2>2. QED BY <2>1, StoppedElsewhere
<1>5. CASE ProcessEnds
  BY <1>5 DEF ProcessEnds, StoppedIsDrained, BufferEmpty
<1>6. CASE StartProcess \/ (Monitor /\ ~ Exit) \/ Stop
  <2>1. buffered' = buffered
    BY <1>6
    DEF StartProcess, Monitor, Ping, KafkaStarts, KafkaStartFails, Wake,
        CheckRedis, CheckKafka, CloseKafka, Flushed, CloseRedis, Stop
  <2>2. BufferEmpty' <=> BufferEmpty
    BY <2>1 DEF BufferEmpty
  <2>3. CASE StartProcess
    BY <2>2, <2>3 DEF StartProcess, StoppedIsDrained
  <2>4. CASE Ping
    <3>1. CASE redisUp
      BY <2>2, <2>4, <3>1 DEF Ping, StoppedIsDrained
    <3>2. CASE ~ redisUp
      BY <2>2, <2>4, <3>2 DEF Ping, ConnectFails, StoppedIsDrained
    <3>3. QED BY <3>1, <3>2
  <2>5. CASE KafkaStarts
    BY <2>2, <2>5 DEF KafkaStarts, StoppedIsDrained
  <2>6. CASE KafkaStartFails
    BY <2>2, <2>6 DEF KafkaStartFails, ConnectFails, StoppedIsDrained
  <2>7. CASE Wake \/ CheckRedis \/ CheckKafka
    BY <2>2, <2>7 DEF Wake, CheckRedis, CheckKafka, StoppedIsDrained
  <2>8. CASE CloseKafka
    BY <2>2, <2>8 DEF CloseKafka, StoppedIsDrained
  <2>9. CASE Flushed
    <3>1. BufferEmpty
      BY <2>9 DEF Flushed, BufferEmpty
    <3>2. QED BY <2>2, <2>9, <3>1 DEF Flushed, StoppedIsDrained
  <2>10. CASE CloseRedis
    BY <2>2, <2>10 DEF CloseRedis, StoppedIsDrained
  <2>11. CASE Stop
    BY <2>2, <2>11 DEF Stop, CancelMonitor, StoppedIsDrained
  <2>12. QED
    BY <1>6, <2>3, <2>4, <2>5, <2>6, <2>7, <2>8, <2>9, <2>10, <2>11
    DEF Monitor
<1>7. CASE RedisGoesDown \/ RedisComesBack \/ KafkaGoesDown \/ KafkaComesBack
           \/ \E f \in Fp : Expire(f)
  BY <1>7, StoppedElsewhere
  DEF RedisGoesDown, RedisComesBack, KafkaGoesDown, KafkaComesBack, Expire
<1>8. CASE Sigterm
  <2>1. BufferEmpty' <=> BufferEmpty
    BY <1>8 DEF Sigterm, BufferEmpty
  <2>2. QED BY <1>8, <2>1 DEF Sigterm, StoppedIsDrained
<1>9. QED
  BY <1>1, <1>2, <1>3, <1>4, <1>5, <1>6, <1>7, <1>8
  DEF Next, Exit, Crash, Environment, Monitor

LEMMA DrainedExit ==
  ASSUME Adapter = "webhook", TypeOK, DrainedWhenClosing, StoppedIsDrained,
         [Next]_vars, proc = "closing", proc' = "down", faults' = faults
  PROVE  forfeited' = forfeited /\ (lost' = lost \/ interrupted)
<1>1. ~ Crash
  BY DEF Crash, Fault, TypeOK
<1>2. Exit
  BY <1>1
  DEF vars, connVars, Next, Receive, Step, AwaitMetadata, SendRaw,
      SendRawFails, RedisSets, RedisAnswersDuplicate, RedisAnswersNew,
      FallbackFindsDuplicate, FallbackAdmits, BypassAdmits, SendCanonical,
      SendCanonicalFails, Deliver, GiveUp, StartProcess, Monitor, Ping,
      KafkaStarts, KafkaStartFails, ConnectFails, Wake, CheckRedis, CheckKafka,
      CloseKafka, Flushed, CloseRedis, Stop, CancelMonitor, Environment,
      RedisGoesDown, RedisComesBack, KafkaGoesDown, KafkaComesBack, Expire,
      Sigterm
<1>3. \A f \in Fp : Cardinality(Holding(f)) = 0
  <2> SUFFICES ASSUME NEW f \in Fp PROVE Cardinality(Holding(f)) = 0
    OBVIOUS
  <2>1. Holding(f) = {}
    BY DEF DrainedWhenClosing, Holding
  <2>2. QED BY <2>1, FS_EmptySet
<1>4. /\ forfeited \in [Fp -> Nat]
      /\ forfeited' = [f \in Fp |-> forfeited[f] + Cardinality(Holding(f))]
  BY <1>2 DEF TypeOK, Counts, Exit, ProcessEnds
<1>5. ASSUME ~ interrupted PROVE lost' = lost
  <2>1. BufferEmpty
    BY <1>2, <1>5 DEF Exit, StoppedIsDrained
  <2>2. /\ lost \in [Topic -> [Fp -> Nat]]
        /\ lost' = [t \in Topic |->
                     [f \in Fp |-> lost[t][f] + buffered[t][f]]]
    BY <1>2 DEF TypeOK, Counts, Exit, ProcessEnds
  <2>3. \A t \in Topic : lost'[t] = lost[t]
    BY <2>1, <2>2 DEF BufferEmpty
  <2>4. QED BY <2>2, <2>3
<1>6. QED BY <1>3, <1>4, <1>5

\* The webhook service ends in good order without forfeiting an admission,
\* and without losing a record in its producer's buffer unless stop() cut a
\* flush of the monitor short (core.py:112-131, publisher.py:36-43).
THEOREM OrderlyWebhookExit == Adapter = "webhook" => (Spec => OrderlyExit)
<1> SUFFICES ASSUME Adapter = "webhook" PROVE Spec => OrderlyExit
  OBVIOUS
<1> DEFINE Inv == TypeOK /\ DrainedWhenClosing /\ StoppedIsDrained
<1>1. Init => Inv
  BY TypeInit, StoppedInit DEF Init, DrainedWhenClosing
<1>2. Inv /\ [Next]_vars => Inv'
  BY TypeNext, DrainedStep, StoppedStep
<1>3. Inv /\ [Next]_vars
        => [proc = "closing" /\ proc' = "down" /\ faults' = faults
              => forfeited' = forfeited /\ (lost' = lost \/ interrupted)]_vars
  BY DrainedExit
<1>4. QED BY <1>1, <1>2, <1>3, PTL DEF Spec, OrderlyExit
=============================================================================
