----------------------------- MODULE Ingestion -----------------------------
(***************************************************************************)
(* The FOMO listener: concurrent runs of CoreListener.handle_notification  *)
(* (src/core.py), the deduplicator's use of Redis and of its local cache   *)
(* (src/deduplicator.py), the publisher's connections and its producer's   *)
(* buffer (src/publisher.py), and the health monitor that tears the        *)
(* connections down and builds them up again (src/monitor.py).             *)
(*                                                                         *)
(* Everything runs on one event loop, so the code between two awaits is    *)
(* one action and every await is a point where another coroutine may run.  *)
(* A notification is its fingerprint: two notifications with the same      *)
(* stable fields are the same notification sent twice.  Redis, Kafka and   *)
(* the aiokafka producer are modelled from the way the code uses them.     *)
(***************************************************************************)
EXTENDS Integers, FiniteSets

CONSTANTS
  Fp,                 \* fingerprints
  Req,                \* requests the adapters may be handling at a time
  NoFp,               \* the fingerprint of no notification
  Adapter,            \* "webhook", or "direct" for an adapter without uvicorn
  FaultKind,          \* of {"redis", "kafka", "crash", "stop"}
  UseLocalFallback,   \* settings.dedup_use_local_fallback
  MaxReceipts,        \* bound on the notifications received
  MaxFaults,          \* bound on faults, stops included
  MaxExpiries         \* bound on expired deduplication entries

ASSUME IngestionAssumption ==
  /\ IsFiniteSet(Fp) /\ NoFp \notin Fp
  /\ IsFiniteSet(Req)
  /\ Adapter \in {"webhook", "direct"}
  /\ UseLocalFallback \in BOOLEAN
  /\ MaxReceipts \in Nat
  /\ MaxFaults \in Nat
  /\ MaxExpiries \in Nat

VARIABLES
  proc,        \* the listener process
  mon,         \* where the monitor, or connect/disconnect, is
  redisSeenOk, \* the monitor's redis_healthy
  sharedClient,\* deduplicator.redis and publisher.redis are one object
  kafka,       \* publisher.kafka
  interrupted, \* ghost: stop() cancelled the monitor while it flushed
  redisUp, kafkaUp,
  redisKeys,   \* fingerprints held by Redis
  local,       \* fingerprints the local cache holds, unexpired
  buffered,    \* records in the producer's buffer, per topic and fingerprint
  stored,      \* records on the broker
  lost,        \* records that left the buffer without reaching the broker
  req,         \* the requests
  admitted,    \* ghost: how often a fingerprint was declared new
  closed,      \* ghost: how often an entry for it went away, or was bypassed
  forfeited,   \* ghost: admissions that ended without a canonical record
  answered,    \* ghost: requests answered 202
  receipts, faults, expiries

serverVars == <<redisUp, kafkaUp>>
storeVars  == <<redisKeys, local>>
recordVars == <<buffered, stored, lost>>
connVars   == <<proc, mon, redisSeenOk, sharedClient, kafka, interrupted>>
ghostVars  == <<admitted, closed, forfeited, answered>>
boundVars  == <<receipts, faults, expiries>>
vars == <<connVars, serverVars, storeVars, recordVars, req, ghostVars,
          boundVars>>

Topic == {"raw", "canonical"}   \* raw_events_topic, events_topic

\* Where a request is: about to write its raw record, about to ask Redis,
\* waiting for Redis to answer, left without a connection to Redis, or about
\* to publish its canonical event.  At "metadata" it has called send on a
\* producer whose start() is in progress, and waits for the topic's metadata;
\* at "hung" nobody will ever fetch them.
PC == {"idle", "raw", "dedup", "asked", "cut", "publish", "metadata", "hung"}

\* suspect: what the sender said; flagged: what check_quarantine will see;
\* fresh: Redis has set the key on behalf of this request.
Request == [pc : PC, fp : Fp \cup {NoFp}, suspect : BOOLEAN, flagged : BOOLEAN,
            fresh : BOOLEAN]

Idle == [pc |-> "idle", fp |-> NoFp, suspect |-> FALSE, flagged |-> FALSE,
         fresh |-> FALSE]

Ind(b) == IF b THEN 1 ELSE 0

\* Requests that hold an admission not yet turned into a record.
Holding(fp) == {r \in Req : req[r].fp = fp /\ req[r].fresh
                              /\ req[r].pc \in {"asked", "cut", "publish",
                                                "metadata", "hung"}}

\* Records of fp handed to the producer so far.
Sent(t, fp) == buffered[t][fp] + stored[t][fp] + lost[t][fp]

Bump(f, fp, n) == [f EXCEPT ![fp] = @ + n]
BumpAt(f, t, fp, n) == [f EXCEPT ![t][fp] = @ + n]

Fault(kind) ==
  /\ kind \in FaultKind
  /\ faults < MaxFaults
  /\ faults' = faults + 1
  /\ UNCHANGED <<receipts, expiries>>

Init ==
  /\ proc = "down" /\ mon = "off" /\ redisSeenOk = FALSE
  /\ sharedClient = FALSE /\ kafka = "none" /\ interrupted = FALSE
  /\ redisUp = TRUE /\ kafkaUp = TRUE
  /\ redisKeys = {} /\ local = {}
  /\ buffered = [t \in Topic |-> [f \in Fp |-> 0]]
  /\ stored   = [t \in Topic |-> [f \in Fp |-> 0]]
  /\ lost     = [t \in Topic |-> [f \in Fp |-> 0]]
  /\ req = [r \in Req |-> Idle]
  /\ admitted = [f \in Fp |-> 0] /\ closed = [f \in Fp |-> 0]
  /\ forfeited = [f \in Fp |-> 0] /\ answered = [f \in Fp |-> 0]
  /\ receipts = 0 /\ faults = 0 /\ expiries = 0

----------------------------------------------------------------------------
(* handle_notification, one action per stretch between two awaits.         *)

\* The request r gets the answer 202 (Done) or 500 (Rejected).
Done(r) ==
  /\ req' = [req EXCEPT ![r] = Idle]
  /\ answered' = Bump(answered, req[r].fp, 1)

Rejected(r) ==
  /\ req' = [req EXCEPT ![r] = Idle]
  /\ answered' = answered

\* RawNotification has no field for what check_quarantine reads, so the
\* webhook's model_dump drops it; an adapter of another kind hands its
\* dictionary to the callback as it is.
Receive(r, fp, suspect) ==
  /\ proc = "up"
  /\ req[r].pc = "idle"
  /\ receipts < MaxReceipts
  /\ receipts' = receipts + 1
  /\ req' = [req EXCEPT ![r] =
               [pc |-> "raw", fp |-> fp, suspect |-> suspect,
                flagged |-> suspect /\ Adapter = "direct", fresh |-> FALSE]]
  /\ UNCHANGED <<connVars, serverVars, storeVars, recordVars, ghostVars,
                 faults, expiries>>

\* kafka.send puts the record in the buffer of a running producer; it may
\* fail while the broker is away, and a producer that is closed refuses.
CanSend == kafka = "started"

CanFailToSend ==
  \/ kafka \in {"none", "stopped"}
  \/ kafka = "started" /\ ~ kafkaUp

\* The call of send that r is about to make, or has made and is waiting in.
SendsRaw(r) ==
  req[r].pc = "raw" \/ (req[r].pc = "metadata" /\ ~ req[r].fresh)

SendsCanonical(r) ==
  req[r].pc = "publish" \/ (req[r].pc = "metadata" /\ req[r].fresh)

\* send first waits for the topic's metadata.  The client of the producer
\* fetches them until it is closed, at the end of stop(), if start() has
\* succeeded or is about to; a producer whose start() failed never does.
FetchesMetadata ==
  \/ kafka = "starting"
  \/ kafka = "stopped" /\ (mon = "flush" \/ interrupted)

\* A running producer knows its topics or asks for them (SendRaw), a stopped
\* one may know them and refuse (SendRawFails).
AwaitMetadata(r) ==
  /\ req[r].pc \in {"raw", "publish"}
  /\ kafka \in {"starting", "unstarted", "stopped"}
  /\ req' = [req EXCEPT ![r].pc =
               IF FetchesMetadata THEN "metadata" ELSE "hung"]
  /\ UNCHANGED <<connVars, serverVars, storeVars, recordVars, ghostVars,
                 boundVars>>

SendRaw(r) ==
  /\ SendsRaw(r)
  /\ CanSend
  /\ buffered' = BumpAt(buffered, "raw", req[r].fp, 1)
  /\ req' = [req EXCEPT ![r].pc = "dedup"]
  /\ UNCHANGED <<connVars, serverVars, storeVars, stored, lost, ghostVars,
                 boundVars>>

\* Mutant: the failure is logged and the notification goes on.
SendRawFails_Swallowed(r) ==
  /\ SendsRaw(r)
  /\ CanFailToSend
  /\ req' = [req EXCEPT ![r].pc = "dedup"]
  /\ UNCHANGED <<connVars, serverVars, storeVars, recordVars, ghostVars,
                 boundVars>>

SendRawFails(r) ==
  /\ SendsRaw(r)
  /\ CanFailToSend
  /\ Rejected(r)
  /\ UNCHANGED <<connVars, serverVars, storeVars, recordVars, admitted,
                 closed, forfeited, boundVars>>

\* Mutant: SET without NX always succeeds.
RedisSets_WithoutNx(r) ==
  /\ req[r].pc = "dedup"
  /\ redisUp
  /\ req' = [req EXCEPT ![r].pc = "asked", ![r].fresh = TRUE]
  /\ admitted' = Bump(admitted, req[r].fp, 1)
  /\ redisKeys' = redisKeys \cup {req[r].fp}
  /\ UNCHANGED <<connVars, serverVars, local, recordVars, closed, forfeited,
                 answered, boundVars>>

\* Redis executes SET NX; the answer is on its way.
RedisSets(r) ==
  /\ req[r].pc = "dedup"
  /\ redisUp
  /\ LET fresh == req[r].fp \notin redisKeys
     IN  /\ req' = [req EXCEPT ![r].pc = "asked", ![r].fresh = fresh]
         /\ admitted' = Bump(admitted, req[r].fp, Ind(fresh))
  /\ redisKeys' = redisKeys \cup {req[r].fp}
  /\ UNCHANGED <<connVars, serverVars, local, recordVars, closed, forfeited,
                 answered, boundVars>>

\* What the rest of the coroutine does with an admission: check_quarantine
\* drops the notification, or it goes on to be parsed and published.
Quarantine(r) ==
  /\ req[r].flagged
  /\ Done(r)

\* Mutant: a quarantined notification may go on all the same.
GoOn_WhenFlagged(r) ==
  /\ req' = [req EXCEPT ![r].pc = "publish", ![r].fresh = TRUE]
  /\ answered' = answered

GoOn(r) ==
  /\ ~ req[r].flagged
  /\ req' = [req EXCEPT ![r].pc = "publish", ![r].fresh = TRUE]
  /\ answered' = answered

RedisAnswersDuplicate(r) ==
  /\ req[r].pc = "asked" /\ ~ req[r].fresh
  /\ Done(r)
  /\ UNCHANGED <<connVars, serverVars, storeVars, recordVars, admitted,
                 closed, forfeited, boundVars>>

RedisAnswersNew(r) ==
  /\ req[r].pc = "asked" /\ req[r].fresh
  /\ Quarantine(r) \/ GoOn(r)
  /\ forfeited' = Bump(forfeited, req[r].fp, Ind(req[r].flagged))
  /\ UNCHANGED <<connVars, serverVars, storeVars, recordVars, admitted,
                 closed, boundVars>>

\* Mutant: a command whose connection is closed under it is never answered.
RedisFails_OnOutageOnly(r) == req[r].pc = "dedup" /\ ~ redisUp

\* The SET raises: Redis is away or the connection was dropped.  If Redis
\* had already set the key, that admission is forfeited.
RedisFails(r) ==
  req[r].pc = "cut" \/ (req[r].pc = "dedup" /\ ~ redisUp)

\* Mutant: the result of check_and_set is taken the wrong way round.
FallbackFindsDuplicate_Inverted(r) ==
  /\ RedisFails(r)
  /\ UseLocalFallback
  /\ req[r].fp \notin local
  /\ Done(r)
  /\ forfeited' = Bump(forfeited, req[r].fp, Ind(req[r].fresh))
  /\ UNCHANGED <<connVars, serverVars, storeVars, recordVars, admitted,
                 closed, boundVars>>

FallbackFindsDuplicate(r) ==
  /\ RedisFails(r)
  /\ UseLocalFallback
  /\ req[r].fp \in local
  /\ Done(r)
  /\ forfeited' = Bump(forfeited, req[r].fp, Ind(req[r].fresh))
  /\ UNCHANGED <<connVars, serverVars, storeVars, recordVars, admitted,
                 closed, boundVars>>

FallbackAdmits(r) ==
  /\ RedisFails(r)
  /\ UseLocalFallback
  /\ req[r].fp \notin local
  /\ local' = local \cup {req[r].fp}
  /\ Quarantine(r) \/ GoOn(r)
  /\ admitted' = Bump(admitted, req[r].fp, 1)
  /\ forfeited' = Bump(forfeited, req[r].fp,
                       Ind(req[r].fresh) + Ind(req[r].flagged))
  /\ UNCHANGED <<connVars, serverVars, redisKeys, recordVars, closed,
                 boundVars>>

\* Without a fallback every notification is let through.
BypassAdmits(r) ==
  /\ RedisFails(r)
  /\ ~ UseLocalFallback
  /\ Quarantine(r) \/ GoOn(r)
  /\ admitted' = Bump(admitted, req[r].fp, 1)
  /\ closed' = Bump(closed, req[r].fp, 1)
  /\ forfeited' = Bump(forfeited, req[r].fp,
                       Ind(req[r].fresh) + Ind(req[r].flagged))
  /\ UNCHANGED <<connVars, serverVars, storeVars, recordVars, boundVars>>

SendCanonical(r) ==
  /\ SendsCanonical(r)
  /\ CanSend
  /\ buffered' = BumpAt(buffered, "canonical", req[r].fp, 1)
  /\ Done(r)
  /\ UNCHANGED <<connVars, serverVars, storeVars, stored, lost, admitted,
                 closed, forfeited, boundVars>>

SendCanonicalFails(r) ==
  /\ SendsCanonical(r)
  /\ CanFailToSend
  /\ Rejected(r)
  /\ forfeited' = Bump(forfeited, req[r].fp, 1)
  /\ UNCHANGED <<connVars, serverVars, storeVars, recordVars, admitted,
                 closed, boundVars>>

\* The steps of a request once it has been received.
Step(r) ==
  \/ AwaitMetadata(r) \/ SendRaw(r) \/ SendRawFails(r)
  \/ RedisSets(r) \/ RedisAnswersDuplicate(r) \/ RedisAnswersNew(r)
  \/ FallbackFindsDuplicate(r) \/ FallbackAdmits(r) \/ BypassAdmits(r)
  \/ SendCanonical(r) \/ SendCanonicalFails(r)

----------------------------------------------------------------------------
(* The producer's buffer and the brokers.                                  *)

\* Mutant: a record may be delivered after it has left the buffer.
Deliver_Again(t, fp) ==
  /\ kafkaUp
  /\ buffered' = BumpAt(buffered, t, fp, -1)
  /\ stored' = BumpAt(stored, t, fp, 1)
  /\ UNCHANGED <<connVars, serverVars, storeVars, lost, req, ghostVars,
                 boundVars>>

Deliver(t, fp) ==
  /\ kafkaUp
  /\ buffered[t][fp] > 0
  /\ buffered' = BumpAt(buffered, t, fp, -1)
  /\ stored' = BumpAt(stored, t, fp, 1)
  /\ UNCHANGED <<connVars, serverVars, storeVars, lost, req, ghostVars,
                 boundVars>>

\* The producer gives a record up; nobody awaits the future that says so.
GiveUp(t, fp) ==
  /\ ~ kafkaUp
  /\ buffered[t][fp] > 0
  /\ buffered' = BumpAt(buffered, t, fp, -1)
  /\ lost' = BumpAt(lost, t, fp, 1)
  /\ UNCHANGED <<connVars, serverVars, storeVars, stored, req, ghostVars,
                 boundVars>>

\* Requests talking to Redis lose their connection.
CutRequests ==
  req' = [r \in Req |-> IF req[r].pc \in {"dedup", "asked"}
                        THEN [req[r] EXCEPT !.pc = "cut"] ELSE req[r]]

\* Redis keeps its keys in memory: an outage may lose some of them.
RedisGoesDown ==
  /\ redisUp /\ redisUp' = FALSE
  /\ redisKeys' \in SUBSET redisKeys
  /\ closed' = [f \in Fp |-> closed[f] + Ind(f \in redisKeys \ redisKeys')]
  /\ CutRequests
  /\ Fault("redis")
  /\ UNCHANGED <<connVars, kafkaUp, local, recordVars, admitted, forfeited,
                 answered>>

RedisComesBack ==
  /\ ~ redisUp /\ redisUp' = TRUE
  /\ UNCHANGED <<connVars, kafkaUp, storeVars, recordVars, req, ghostVars,
                 boundVars>>

KafkaGoesDown ==
  /\ kafkaUp /\ kafkaUp' = FALSE
  /\ Fault("kafka")
  /\ UNCHANGED <<connVars, redisUp, storeVars, recordVars, req, ghostVars>>

KafkaComesBack ==
  /\ ~ kafkaUp /\ kafkaUp' = TRUE
  /\ UNCHANGED <<connVars, redisUp, storeVars, recordVars, req, ghostVars,
                 boundVars>>

\* An entry reaches the end of its time to live, in Redis or in the local
\* cache, or leaves the full local cache for the sake of other keys.
Expire(fp) ==
  /\ expiries < MaxExpiries
  /\ expiries' = expiries + 1
  /\ \/ fp \in redisKeys /\ redisKeys' = redisKeys \ {fp} /\ local' = local
     \/ fp \in local /\ local' = local \ {fp} /\ redisKeys' = redisKeys
  /\ closed' = Bump(closed, fp, 1)
  /\ UNCHANGED <<connVars, serverVars, recordVars, req, admitted, forfeited,
                 answered, receipts, faults>>

----------------------------------------------------------------------------
(* connect, disconnect and the monitor loop.  mon is the await at which    *)
(* the coroutine that runs them stands.                                    *)

unchangedByConnection == <<serverVars, storeVars, recordVars, ghostVars,
                           boundVars>>

\* Requests that wait for metadata which nobody fetches any more.
AbandonRequests ==
  req' = [r \in Req |-> IF req[r].pc = "metadata"
                        THEN [req[r] EXCEPT !.pc = "hung"] ELSE req[r]]

\* main: start() begins with connect().
StartProcess ==
  /\ proc = "down"
  /\ proc' = "starting" /\ mon' = "ping"
  /\ UNCHANGED <<redisSeenOk, sharedClient, kafka, interrupted, req,
                 unchangedByConnection>>

\* Mutant: the exception of connect() ends the monitor's loop.
ConnectFails_EndsLoop ==
  /\ mon' = "off"
  /\ proc' = IF proc = "starting" THEN "down" ELSE proc

\* connect() raised: the monitor logs it and sleeps, start() gives up.
ConnectFails ==
  IF proc = "starting" THEN proc' = "down" /\ mon' = "off"
                       ELSE proc' = proc /\ mon' = "sleep"

\* A new Redis client replaces publisher.redis whatever the ping says; only
\* start() hands it to the deduplicator.  After the ping the new producer is
\* assigned to publisher.kafka, and then its start() is awaited.
Ping ==
  /\ mon = "ping"
  /\ sharedClient' = (proc = "starting")
  /\ IF redisUp THEN mon' = "startKafka" /\ kafka' = "starting" /\ proc' = proc
     ELSE /\ ConnectFails
          /\ kafka' = IF proc = "starting" THEN "none" ELSE kafka
  /\ UNCHANGED <<redisSeenOk, interrupted, req, unchangedByConnection>>

KafkaStarts ==
  /\ mon = "startKafka" /\ kafkaUp
  /\ kafka' = "started"
  /\ proc' = IF proc = "starting" THEN "up" ELSE proc
  /\ mon' = IF proc = "starting" THEN "checkRedis" ELSE "sleep"
  /\ UNCHANGED <<redisSeenOk, sharedClient, interrupted, req,
                 unchangedByConnection>>

\* start() raises: publisher.kafka keeps the producer that did not start.
KafkaStartFails ==
  /\ mon = "startKafka" /\ ~ kafkaUp
  /\ ConnectFails
  /\ kafka' = IF proc = "starting" THEN "none" ELSE "unstarted"
  /\ AbandonRequests
  /\ UNCHANGED <<redisSeenOk, sharedClient, interrupted, unchangedByConnection>>

Wake ==
  /\ mon = "sleep"
  /\ mon' = "checkRedis"
  /\ UNCHANGED <<proc, redisSeenOk, sharedClient, kafka, interrupted, req,
                 unchangedByConnection>>

CheckRedis ==
  /\ mon = "checkRedis"
  /\ redisSeenOk' = redisUp
  /\ mon' = "checkKafka"
  /\ UNCHANGED <<proc, sharedClient, kafka, interrupted, req,
                 unchangedByConnection>>

\* check_version asks the cluster, not the producer: through the client of a
\* stopped producer it may be answered, through one never started it is not.
KafkaAnswers(ok) ==
  CASE kafka = "started" -> ok = kafkaUp
    [] kafka = "stopped" -> ok => kafkaUp
    [] OTHER             -> ok = FALSE

CheckKafka ==
  /\ mon = "checkKafka"
  /\ \E ok \in BOOLEAN :
       /\ KafkaAnswers(ok)
       /\ mon' = IF redisSeenOk /\ ok THEN "sleep" ELSE "closeKafka"
  /\ UNCHANGED <<proc, redisSeenOk, sharedClient, kafka, interrupted, req,
                 unchangedByConnection>>

\* disconnect(): the producer refuses new records at once, then waits for
\* its buffer; a producer that is not running returns immediately.
CloseKafka ==
  /\ mon = "closeKafka"
  /\ mon' = IF kafka = "started" THEN "flush" ELSE "closeRedis"
  /\ kafka' = IF kafka = "started" THEN "stopped" ELSE kafka
  /\ UNCHANGED <<proc, redisSeenOk, sharedClient, interrupted, req,
                 unchangedByConnection>>

Flushed ==
  /\ mon = "flush"
  /\ \A t \in Topic, f \in Fp : buffered[t][f] = 0
  /\ mon' = "closeRedis"
  /\ AbandonRequests
  /\ UNCHANGED <<proc, redisSeenOk, sharedClient, kafka, interrupted,
                 unchangedByConnection>>

\* Closing the client cuts the deduplicator off if it uses the same one.
CloseRedis ==
  /\ mon = "closeRedis" /\ proc # "closing"
  /\ mon' = "ping"
  /\ IF sharedClient THEN CutRequests ELSE req' = req
  /\ UNCHANGED <<proc, redisSeenOk, sharedClient, kafka, interrupted,
                 unchangedByConnection>>

\* SIGTERM.  uvicorn, whose handler has replaced main's, takes no more
\* requests and waits for those in progress; main's handler calls stop().
Sigterm ==
  /\ proc = "up"
  /\ proc' = "stopping"
  /\ Fault("stop")
  /\ UNCHANGED <<mon, redisSeenOk, sharedClient, kafka, interrupted, req,
                 serverVars, storeVars, recordVars, ghostVars>>

\* Mutant: stop() waits for the monitor's task and does not cancel it.
CancelMonitor_Awaited ==
  UNCHANGED <<mon, interrupted, kafka, req>>

\* The monitor is cancelled wherever it stands: a start() in progress fails,
\* and a flush is not waited for again, because the producer is closed.
CancelMonitor ==
  /\ mon' = "closeKafka"
  /\ interrupted' = (mon = "flush")
  /\ IF mon = "startKafka" THEN kafka' = "unstarted" /\ AbandonRequests
                           ELSE kafka' = kafka /\ req' = req

\* Mutant: stop() does not wait for the requests in progress.
Stop_WithoutDrain ==
  /\ proc = "stopping"
  /\ proc' = "closing" /\ CancelMonitor
  /\ UNCHANGED <<redisSeenOk, sharedClient, unchangedByConnection>>

\* stop(), once the adapters have ended: cancel the monitor and disconnect.
Stop ==
  /\ proc = "stopping"
  /\ Adapter = "webhook" => \A r \in Req : req[r].pc = "idle"
  /\ proc' = "closing" /\ CancelMonitor
  /\ UNCHANGED <<redisSeenOk, sharedClient, unchangedByConnection>>

\* The process is gone, with its requests, its local cache and its buffer.
ProcessEnds ==
  /\ proc' = "down" /\ mon' = "off" /\ kafka' = "none"
  /\ sharedClient' = FALSE /\ redisSeenOk' = FALSE /\ interrupted' = FALSE
  /\ req' = [r \in Req |-> Idle]
  /\ forfeited' = [f \in Fp |-> forfeited[f] + Cardinality(Holding(f))]
  /\ local' = {}
  /\ closed' = [f \in Fp |-> closed[f] + Ind(f \in local)]
  /\ lost' = [t \in Topic |-> [f \in Fp |-> lost[t][f] + buffered[t][f]]]
  /\ buffered' = [t \in Topic |-> [f \in Fp |-> 0]]
  /\ UNCHANGED <<serverVars, redisKeys, stored, admitted, answered>>

\* main returns.  After its own signal handler main runs stop() a second
\* time: that call finds the producer stopping already, does not wait for
\* the first to flush it, and ends the process.
Exit ==
  /\ proc = "closing"
  /\ mon = "closeRedis" \/ (mon = "flush" /\ Adapter = "direct")
  /\ ProcessEnds
  /\ UNCHANGED boundVars

Crash ==
  /\ proc # "down"
  /\ ProcessEnds
  /\ Fault("crash")

Monitor ==
  \/ Ping \/ KafkaStarts \/ KafkaStartFails \/ Wake \/ CheckRedis \/ CheckKafka
  \/ CloseKafka \/ Flushed \/ CloseRedis \/ Exit

Environment ==
  \/ RedisGoesDown \/ RedisComesBack \/ KafkaGoesDown \/ KafkaComesBack
  \/ \E fp \in Fp : Expire(fp)
  \/ Sigterm \/ Crash

Next ==
  \/ \E r \in Req, fp \in Fp, suspect \in BOOLEAN : Receive(r, fp, suspect)
  \/ \E r \in Req : Step(r)
  \/ \E t \in Topic, fp \in Fp : Deliver(t, fp) \/ GiveUp(t, fp)
  \/ StartProcess \/ Monitor \/ Stop
  \/ Environment

Spec == Init /\ [][Next]_vars

\* The event loop runs every coroutine that can go on, the producer's sender
\* empties the buffer or gives up, and docker-compose.yml restarts what
\* stopped ("restart: unless-stopped").  Nothing makes a fault happen.
Fairness ==
  /\ \A r \in Req : WF_vars(Step(r))
  /\ WF_vars(Monitor) /\ WF_vars(Stop)
  /\ \A t \in Topic, fp \in Fp : WF_vars(Deliver(t, fp) \/ GiveUp(t, fp))
  /\ WF_vars(RedisComesBack) /\ WF_vars(KafkaComesBack)
  /\ WF_vars(StartProcess)

FairSpec == Spec /\ Fairness

----------------------------------------------------------------------------
(* Properties.                                                             *)

Counts == [Fp -> Nat]

TypeOK ==
  /\ proc \in {"down", "starting", "up", "stopping", "closing"}
  /\ mon \in {"off", "ping", "startKafka", "sleep", "checkRedis",
              "checkKafka", "closeKafka", "flush", "closeRedis"}
  /\ kafka \in {"none", "starting", "unstarted", "started", "stopped"}
  /\ interrupted \in BOOLEAN
  /\ redisSeenOk \in BOOLEAN /\ sharedClient \in BOOLEAN
  /\ redisUp \in BOOLEAN /\ kafkaUp \in BOOLEAN
  /\ redisKeys \subseteq Fp /\ local \subseteq Fp
  /\ buffered \in [Topic -> Counts]
  /\ stored \in [Topic -> Counts]
  /\ lost \in [Topic -> Counts]
  /\ req \in [Req -> Request]
  /\ \A r \in Req : req[r].pc # "idle" => req[r].fp \in Fp
  /\ admitted \in Counts /\ closed \in Counts
  /\ forfeited \in Counts /\ answered \in Counts
  /\ receipts \in Nat /\ faults \in Nat /\ expiries \in Nat

\* Deduplication entries for fp: at most one in Redis and one in the cache.
Entries(fp) == Ind(fp \in redisKeys) + Ind(fp \in local)

\* Every admission opened an entry, and every entry that is gone is counted.
EntriesAccounted ==
  \A fp \in Fp : admitted[fp] = Entries(fp) + closed[fp]

\* However requests, retries, fail-overs between Redis and the local cache,
\* expiries and restarts interleave, a fingerprint is published at most once
\* for every deduplication entry it has or ever had: two entries can be
\* alive at the same time, so within one time to live there may be two
\* canonical events, never more (deduplicator.py:156-189, core.py:52-88).
AtMostOncePerEntry ==
  \A fp \in Fp : Sent("canonical", fp) <= Entries(fp) + closed[fp]

\* Every admission is accounted for: it is held by one request in progress,
\* became one canonical record, or was forfeited by a quarantine, a failed
\* send, a lost answer from Redis or the end of the process.  No path of
\* handle_notification publishes twice or forgets one silently
\* (core.py:52-88).
AdmissionsAccounted ==
  \A fp \in Fp : admitted[fp] = Cardinality(Holding(fp))
                                  + Sent("canonical", fp) + forfeited[fp]

\* A request holds an admission when it publishes, and none before it asks.
FreshInPlace ==
  \A r \in Req :
    /\ req[r].pc = "publish" => req[r].fresh
    /\ req[r].pc \in {"idle", "raw", "dedup"} => ~ req[r].fresh

\* The inductive invariant behind AtMostOncePerEntry.
IInv == TypeOK /\ FreshInPlace /\ EntriesAccounted /\ AdmissionsAccounted

\* Requests for fp past their raw record.
PastRaw(fp) ==
  {r \in Req : req[r].fp = fp
                 /\ \/ req[r].pc \in {"dedup", "asked", "cut", "publish"}
                    \/ req[r].pc \in {"metadata", "hung"} /\ req[r].fresh}

\* A canonical record implies an answer 202, and every answer 202, whether
\* it announces a new notification or a duplicate, follows a raw record of
\* its own in the producer (core.py:45-46, webhook.py:84-92).
RawBeforeAnswer ==
  \A fp \in Fp :
    /\ Sent("canonical", fp) <= answered[fp]
    /\ answered[fp] + Cardinality(PastRaw(fp)) <= Sent("raw", fp)

\* A notification is called a duplicate only if some request was admitted
\* for it before: an answer 202 never stands alone (core.py:52-56).
AnswerNeedsAdmission ==
  \A fp \in Fp : answered[fp] > 0 => admitted[fp] > 0

\* The monitor's recovery, which closes producer and Redis under a request,
\* leaves it waiting for ever in one place only: a send on a producer that
\* will never fetch metadata.  Every other await of handle_notification ends,
\* with an answer or with the process (core.py:32-88, monitor.py:96-105).
RequestsEnd ==
  \A r \in Req :
    req[r].pc \notin {"idle", "hung"} ~> req[r].pc \in {"idle", "hung"}

\* After a SIGTERM the process ends, through a flush of the producer or the
\* monitor's that stop() cut short, unless a request hangs in such a send:
\* uvicorn waits for it without a timeout (webhook.py:101-117, core.py:112-131,
\* main.py:56-77).
ShutdownEnds ==
  proc = "stopping" ~> proc = "down" \/ \E r \in Req : req[r].pc = "hung"

\* If Redis never fails, an outage of Kafka is healed: in a process that
\* keeps running the monitor ends up with a producer that works
\* (monitor.py:87-105).
KafkaOutageHealed ==
  ([]redisUp /\ <>[](proc = "up")) => <>[](kafka = "started")

\* An orderly end of the webhook service, unlike a crash, forfeits no
\* admission, whatever the monitor was doing when the signal came; and it
\* takes no record in the producer's buffer with it, except when stop() met
\* the monitor in its flush: the second kafka.stop() returns at once, and what
\* was answered 202 and not yet delivered is lost (core.py:112-131,
\* publisher.py:36-43, webhook.py:113-117).
OrderlyExit ==
  [][proc = "closing" /\ proc' = "down" /\ faults' = faults
       => forfeited' = forfeited /\ (lost' = lost \/ interrupted)]_vars

----------------------------------------------------------------------------
(* What the documentation says and the code does not do.                   *)

\* fomo_listener_context.md:1: every notification that was accepted and is
\* no longer being worked on has one canonical record.
CapturedExactlyOnce ==
  \A fp \in Fp : (answered[fp] > 0 /\ \A r \in Req : req[r].fp # fp) =>
    buffered["canonical"][fp] + stored["canonical"][fp] = 1

\* monitor.py:31: suspicious data is quarantined before the canonical bus.
SuspectsQuarantined ==
  \A r \in Req : req[r].pc = "publish" => ~ req[r].suspect

\* deduplicator.py:181: an outage of Redis alone does not halt ingestion:
\* between two rounds of the monitor a request about to send finds a
\* producer that runs.
RedisOutageDoesNotHalt ==
  \A r \in Req : (req[r].pc \in {"raw", "publish"} /\ mon = "sleep") => CanSend
=============================================================================
