------------------------------ MODULE EventBus ------------------------------
(***************************************************************************)
(* The consuming side of the canonical bus: DurableConsumer                *)
(* (src/bus/consumer.py) with WorkflowRouter.route_event                   *)
(* (src/workflows/router.py) as its handler.  Several instances of the     *)
(* service share one consumer group and one partition; the group protocol, *)
(* the broker and the dead-letter producer's buffer are modelled from the  *)
(* way the code uses them.  Messages are the numbers 1..Len(topic).        *)
(***************************************************************************)
EXTENDS Integers, Sequences, FiniteSets

CONSTANTS
  Consumer,     \* instances of the service
  None,         \* no instance
  Workflow,     \* the workflows of the router
  MaxRetries,   \* max_retries of _consume_loop
  FaultKind,    \* of {"crash", "stop", "rebalance", "commit", "dlq"}
  MaxFaults,    \* bound on faults
  MaxMsg        \* bound on the length of the topic

ASSUME BusAssumption ==
  /\ None \notin Consumer
  /\ IsFiniteSet(Workflow) /\ Workflow # {}
  /\ MaxRetries \in Nat
  /\ MaxFaults \in Nat
  /\ MaxMsg \in Nat

VARIABLES
  topic,      \* the messages: TRUE if route_event can parse the event
  committed,  \* the group's committed offset: 1..committed are done with
  owner,      \* the instance the partition is assigned to
  con,        \* per instance: the state of its DurableConsumer
  ran,        \* history: the workflows that have run to an end, per message
  routed,     \* history: the messages for which route_event returned
  dlqBuffer,  \* dead letters in the buffer of an instance's producer
  dlq,        \* the dead-letter topic
  dlqLost,    \* dead letters lost with a buffer
  faults

vars == <<topic, committed, owner, con, ran, routed, dlqBuffer, dlq, dlqLost,
          faults>>

Msg == 1..MaxMsg

\* Where _consume_loop stands.  "dead": the loop ended, the object lives on.
PC == {"off", "poll", "route", "gather", "commit", "dlq", "dlqCommit",
       "dead"}

\* member: the Kafka consumer is open; closed: the dead-letter producer is
\* not; pos: the last offset fetched; cur: the message in hand; tries:
\* retry_count; left: the workflow tasks still running.
ConsumerState ==
  [pc : PC, member : BOOLEAN, closed : BOOLEAN, pos : 0..MaxMsg,
   cur : 0..MaxMsg, tries : 0..(MaxRetries + 1), left : SUBSET Workflow]

Off == [pc |-> "off", member |-> FALSE, closed |-> TRUE, pos |-> 0,
        cur |-> 0, tries |-> 0, left |-> {}]

\* self._running.
Running(c) == con[c].member /\ con[c].pc # "dead"

historyVars == <<ran, routed>>
dlqVars == <<dlqBuffer, dlq, dlqLost>>

Fault(kind) ==
  /\ kind \in FaultKind
  /\ faults < MaxFaults
  /\ faults' = faults + 1

Init ==
  /\ topic = <<>>
  /\ committed = 0
  /\ owner = None
  /\ con = [c \in Consumer |-> Off]
  /\ ran = [m \in Msg |-> {}]
  /\ routed = {}
  /\ dlqBuffer = [c \in Consumer |-> {}]
  /\ dlq = {} /\ dlqLost = {}
  /\ faults = 0

----------------------------------------------------------------------------
\* The listener publishes an event; one whose parsing failed there is
\* published as it came and cannot be parsed here either.
Produce(wellFormed) ==
  /\ Len(topic) < MaxMsg
  /\ topic' = Append(topic, wellFormed)
  /\ UNCHANGED <<committed, owner, con, historyVars, dlqVars, faults>>

\* The group assigns the partition to c, which fetches from the committed
\* offset; a message an instance has in hand stays in its hand.
Assign(c) ==
  /\ owner' = c
  /\ con' = [con EXCEPT ![c].pos = committed]

\* start(): join the group and start the loop.
Start(c) ==
  /\ con[c].pc = "off"
  /\ con' = [con EXCEPT ![c] = [Off EXCEPT !.pc = "poll", !.member = TRUE,
                                           !.closed = FALSE]]
  /\ UNCHANGED <<topic, committed, owner, historyVars, dlqVars, faults>>

\* start() fails between its two halves: the consumer is in the group, the
\* dead-letter producer and the loop never run.
StartHalfway(c) ==
  /\ con[c].pc = "off"
  /\ con' = [con EXCEPT ![c] = [Off EXCEPT !.pc = "dead", !.member = TRUE]]
  /\ Fault("dlq")
  /\ UNCHANGED <<topic, committed, owner, historyVars, dlqVars>>

\* Without an owner the group gives the partition to a member, whether or
\* not its loop still runs ...
Join(c) ==
  /\ owner = None
  /\ con[c].member
  /\ Assign(c)
  /\ UNCHANGED <<topic, committed, historyVars, dlqVars, faults>>

\* ... and it may take it from one at any time: a member joined, was slow or
\* stopped polling.
Rebalance(c) ==
  /\ owner \notin {None, c}
  /\ con[c].member
  /\ Assign(c)
  /\ Fault("rebalance")
  /\ UNCHANGED <<topic, committed, historyVars, dlqVars>>

\* async for: the next message.
Poll(c) ==
  /\ con[c].pc = "poll" /\ Running(c)
  /\ owner = c
  /\ con[c].pos < Len(topic)
  /\ con' = [con EXCEPT ![c].pos = @ + 1, ![c].cur = con[c].pos + 1,
                        ![c].tries = 0, ![c].pc = "route"]
  /\ UNCHANGED <<topic, committed, owner, historyVars, dlqVars, faults>>

\* Mutant: the count is compared after one retry too many.
Retried_TooOften(c) ==
  con' = [con EXCEPT ![c].tries = @ + 1,
                     ![c].pc = IF con[c].tries > MaxRetries THEN "dlq"
                               ELSE "route"]

\* The handler or the commit raised: try again, or give up on the message.
Retried(c) ==
  con' = [con EXCEPT ![c].tries = @ + 1,
                     ![c].pc = IF con[c].tries >= MaxRetries THEN "dlq"
                               ELSE "route"]

\* route_event: the event does not parse and the exception is passed on ...
RouteRaises(c) ==
  /\ con[c].pc = "route"
  /\ ~ topic[con[c].cur]
  /\ Retried(c)
  /\ UNCHANGED <<topic, committed, owner, historyVars, dlqVars, faults>>

\* Mutant: the tasks are created and not gathered.
FanOut_NotGathered(c) ==
  /\ con[c].pc = "route"
  /\ topic[con[c].cur]
  /\ con' = [con EXCEPT ![c].pc = "commit"]
  /\ UNCHANGED <<topic, committed, owner, historyVars, dlqVars, faults>>

\* ... or one task per workflow is created.
FanOut(c) ==
  /\ con[c].pc = "route"
  /\ topic[con[c].cur]
  /\ con' = [con EXCEPT ![c].pc = "gather", ![c].left = Workflow]
  /\ UNCHANGED <<topic, committed, owner, historyVars, dlqVars, faults>>

\* A workflow returns or raises; _safe_execute_workflow makes no difference.
WorkflowEnds(c, w) ==
  /\ con[c].pc = "gather"
  /\ w \in con[c].left
  /\ con' = [con EXCEPT ![c].left = @ \ {w}]
  /\ ran' = [ran EXCEPT ![con[c].cur] = @ \cup {w}]
  /\ UNCHANGED <<topic, committed, owner, routed, dlqVars, faults>>

\* gather returns when every task has ended, and so does the handler.
Gathered(c) ==
  /\ con[c].pc = "gather"
  /\ con[c].left = {}
  /\ con' = [con EXCEPT ![c].pc = "commit"]
  /\ routed' = routed \cup {con[c].cur}
  /\ UNCHANGED <<topic, committed, owner, ran, dlqVars, faults>>

\* Mutant: an instance commits its position whoever owns the partition.
Committed_Unowned(c) == committed' = con[c].pos

\* commit() commits the positions of the partitions the instance owns: an
\* instance that has lost the partition commits nothing.
Committed(c) ==
  committed' = IF owner = c THEN con[c].pos ELSE committed

\* Or the commit raises, as a stopped consumer's and a former owner's may.
CommitRefused(c) ==
  /\ IF owner = c THEN Fault("commit") ELSE faults' = faults
  /\ UNCHANGED <<topic, committed, owner, historyVars, dlqVars>>

CommitReturns(c) ==
  /\ con[c].pc = "commit"
  /\ Committed(c)
  /\ con' = [con EXCEPT ![c].pc = "poll"]
  /\ UNCHANGED <<topic, owner, historyVars, dlqVars, faults>>

CommitRaises(c) ==
  /\ con[c].pc = "commit"
  /\ Retried(c)
  /\ CommitRefused(c)

\* route_to_dlq: producer.send returns once the record is in the buffer.
DlqSend(c) ==
  /\ con[c].pc = "dlq" /\ ~ con[c].closed
  /\ dlqBuffer' = [dlqBuffer EXCEPT ![c] = @ \cup {con[c].cur}]
  /\ con' = [con EXCEPT ![c].pc = "dlqCommit"]
  /\ UNCHANGED <<topic, committed, owner, historyVars, dlq, dlqLost, faults>>

\* An exception raised while the exception is handled ends the loop.
LoopEnds(c) == con' = [con EXCEPT ![c].pc = "dead"]

DlqSendRaises(c) ==
  /\ con[c].pc = "dlq"
  /\ IF con[c].closed THEN faults' = faults ELSE Fault("dlq")
  /\ LoopEnds(c)
  /\ UNCHANGED <<topic, committed, owner, historyVars, dlqVars>>

\* Mutant: the dead letter is not committed.
DlqCommitReturns_Uncommitted(c) ==
  /\ con[c].pc = "dlqCommit"
  /\ con' = [con EXCEPT ![c].pc = "poll", ![c].pos = committed]
  /\ UNCHANGED <<topic, committed, owner, historyVars, dlqVars, faults>>

DlqCommitReturns(c) ==
  /\ con[c].pc = "dlqCommit"
  /\ Committed(c)
  /\ con' = [con EXCEPT ![c].pc = "poll"]
  /\ UNCHANGED <<topic, owner, historyVars, dlqVars, faults>>

DlqCommitRaises(c) ==
  /\ con[c].pc = "dlqCommit"
  /\ LoopEnds(c)
  /\ CommitRefused(c)

\* A stopped consumer has no next message.
LoopStops(c) ==
  /\ con[c].pc = "poll" /\ ~ Running(c)
  /\ LoopEnds(c)
  /\ UNCHANGED <<topic, committed, owner, historyVars, dlqVars, faults>>

----------------------------------------------------------------------------
(* stop(), crashes and the dead-letter producer.                           *)

Released(c) == owner' = IF owner = c THEN None ELSE owner

\* stop(): leave the group; the loop goes on with the message in its hand.
Stop(c) ==
  /\ con[c].member
  /\ con' = [con EXCEPT ![c].member = FALSE]
  /\ Released(c)
  /\ Fault("stop")
  /\ UNCHANGED <<topic, committed, historyVars, dlqVars>>

\* Then stop the producer, which empties its buffer first.
StopProducer(c) ==
  /\ con[c].pc # "off" /\ ~ con[c].member /\ ~ con[c].closed
  /\ dlqBuffer[c] = {}
  /\ con' = [con EXCEPT ![c].closed = TRUE]
  /\ UNCHANGED <<topic, committed, owner, historyVars, dlqVars, faults>>

Exit(c) ==
  /\ con[c].pc = "dead" /\ con[c].closed /\ ~ con[c].member
  /\ con' = [con EXCEPT ![c] = Off]
  /\ UNCHANGED <<topic, committed, owner, historyVars, dlqVars, faults>>

Crash(c) ==
  /\ con[c].pc # "off"
  /\ con' = [con EXCEPT ![c] = Off]
  /\ Released(c)
  /\ dlqLost' = dlqLost \cup dlqBuffer[c]
  /\ dlqBuffer' = [dlqBuffer EXCEPT ![c] = {}]
  /\ Fault("crash")
  /\ UNCHANGED <<topic, committed, historyVars, dlq>>

DlqDeliver(c, m) ==
  /\ m \in dlqBuffer[c]
  /\ dlq' = dlq \cup {m}
  /\ dlqBuffer' = [dlqBuffer EXCEPT ![c] = @ \ {m}]
  /\ UNCHANGED <<topic, committed, owner, con, historyVars, dlqLost, faults>>

\* The broker does not take the record in time; nobody awaits its future.
DlqExpires(c, m) ==
  /\ m \in dlqBuffer[c]
  /\ dlqLost' = dlqLost \cup {m}
  /\ dlqBuffer' = [dlqBuffer EXCEPT ![c] = @ \ {m}]
  /\ Fault("dlq")
  /\ UNCHANGED <<topic, committed, owner, con, historyVars, dlq>>

\* The coroutines of one instance.
Loop(c) ==
  \/ Poll(c) \/ RouteRaises(c) \/ FanOut(c)
  \/ \E w \in Workflow : WorkflowEnds(c, w)
  \/ Gathered(c)
  \/ CommitReturns(c) \/ CommitRaises(c)
  \/ DlqSend(c) \/ DlqSendRaises(c)
  \/ DlqCommitReturns(c) \/ DlqCommitRaises(c)
  \/ LoopStops(c)

Next ==
  \/ \E wellFormed \in BOOLEAN : Produce(wellFormed)
  \/ \E c \in Consumer :
       \/ Start(c) \/ StartHalfway(c) \/ Join(c) \/ Rebalance(c)
       \/ Loop(c)
       \/ Stop(c) \/ StopProducer(c) \/ Exit(c) \/ Crash(c)
       \/ \E m \in Msg : DlqDeliver(c, m) \/ DlqExpires(c, m)

Spec == Init /\ [][Next]_vars

\* The event loop runs the loop's coroutine and the end of stop(), the
\* group assigns a partition nobody owns, the producer's sender delivers, and
\* a service that ended is started again.
Fairness ==
  /\ \A c \in Consumer : WF_vars(Loop(c)) /\ WF_vars(Start(c))
  /\ \A c \in Consumer : WF_vars(StopProducer(c) \/ Exit(c))
  /\ WF_vars(\E c \in Consumer : Join(c))
  /\ WF_vars(\E c \in Consumer, m \in Msg : DlqDeliver(c, m))

FairSpec == Spec /\ Fairness

----------------------------------------------------------------------------
(* Properties.                                                             *)

TypeOK ==
  /\ topic \in Seq(BOOLEAN) /\ Len(topic) <= MaxMsg
  /\ committed \in 0..MaxMsg
  /\ owner \in Consumer \cup {None}
  /\ con \in [Consumer -> ConsumerState]
  /\ ran \in [Msg -> SUBSET Workflow] /\ routed \subseteq Msg
  /\ dlqBuffer \in [Consumer -> SUBSET Msg]
  /\ dlq \subseteq Msg /\ dlqLost \subseteq Msg
  /\ faults \in 0..MaxFaults

DeadLetters == dlq \cup dlqLost \cup UNION {dlqBuffer[c] : c \in Consumer}

\* The consumer is done with a message: every workflow has run on it to an
\* end, or it was handed to the dead-letter producer.
Settled == {m \in Msg : ran[m] = Workflow} \cup DeadLetters

\* Across retries, refused commits, rebalances, stops and crashes, the group
\* settles messages in order and its offset moves forward over settled
\* messages only (consumer.py:49-84).
Log == INSTANCE SettledLog WITH settled <- Settled
ImplementsSettledLog == Log!LogSpec

\* Whatever is committed was routed or dead-lettered: route_event never
\* returns while one of its tasks is running, so a commit never overtakes a
\* workflow (router.py:51-55, consumer.py:63-65).
CommittedIsRouted == 1..committed \subseteq routed \cup DeadLetters

\* A message that cannot be handled does not block the partition: unless
\* the loop of a member has died, the offset passes every message published,
\* whatever stops, crashes and rebalances there were (consumer.py:69-75).
LoopLost(c) == con[c].pc = "dead" /\ con[c].member

NoPoisonPill ==
  [](\A c \in Consumer : ~ LoopLost(c)) =>
    \A m \in Msg : Len(topic) >= m ~> committed >= m

----------------------------------------------------------------------------
(* What the documentation says and the code does not do.                   *)

\* consumer.py:13-14: at-least-once, failed messages go to the dead-letter
\* topic: a committed message was routed or can be found there, at least as
\* long as the producer that took it is running.
AtLeastOnce ==
  1..committed \subseteq
    routed \cup dlq \cup UNION {dlqBuffer[c] : c \in Consumer}
=============================================================================
