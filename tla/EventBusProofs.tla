--------------------------- MODULE EventBusProofs ---------------------------
(***************************************************************************)
(* Type correctness of EventBus, that nothing is committed before it was   *)
(* routed or dead-lettered, and that the bus implements SettledLog, for    *)
(* every number of instances, workflows, retries, messages and faults.     *)
(* Everything rests on what the owner of the partition may have in hand:   *)
(* all messages up to its position are handled, but for the one it is      *)
(* working on.                                                             *)
(***************************************************************************)
EXTENDS EventBus, SequenceTheorems, TLAPS

\* Messages whose handler returned, or that were dead-lettered.
Handled == routed \cup DeadLetters

\* c works on a message, and has not handled it yet.
Working(c) == con[c].pc \in {"route", "gather", "dlq"}
InHand(c) == Working(c) \/ con[c].pc \in {"commit", "dlqCommit"}

\* What the types need: the message in hand is one, and retry_count is above
\* max_retries only once the message has been given up.
Countable(c) ==
  /\ InHand(c) => con[c].cur \in Msg
  /\ con[c].pc \in {"route", "gather", "commit"} => con[c].tries <= MaxRetries

TypeInv == TypeOK /\ \A c \in Consumer : Countable(c)

\* An instance has a message in hand only after all messages before it, is
\* about to commit only one it has handled, and has run those workflows that
\* it no longer waits for.
HandInOrder(c) ==
  /\ InHand(c) => /\ con[c].cur \in 1..Len(topic)
                  /\ 1..(con[c].cur - 1) \subseteq Handled
  /\ con[c].pc \in {"commit", "dlqCommit"} => con[c].cur \in Handled
  /\ con[c].pc = "gather" => Workflow \ con[c].left \subseteq ran[con[c].cur]

\* The owner of the partition is a member and stands at or behind the
\* offset; only the message it works on, or died with, may be unhandled.
OwnerInOrder(c) ==
  /\ con[c].pc = "off" => ~ con[c].member
  /\ owner = c =>
       /\ con[c].member
       /\ con[c].pos \in committed..Len(topic)
       /\ \/ 1..con[c].pos \subseteq Handled
          \/ con[c].pc = "dead"
          \/ Working(c) /\ con[c].pos = con[c].cur

LogInOrder ==
  /\ committed <= Len(topic)
  /\ 1..committed \subseteq Handled
  /\ \A m \in routed : ran[m] = Workflow

IInv == /\ TypeInv /\ LogInOrder
        /\ \A c \in Consumer : HandInOrder(c) /\ OwnerInOrder(c)

----------------------------------------------------------------------------
(* Type correctness.                                                       *)

Rest == <<topic, committed, owner, ran, routed, dlqBuffer, dlq, dlqLost,
          faults>>

RestTyped ==
  /\ topic \in Seq(BOOLEAN) /\ Len(topic) <= MaxMsg
  /\ committed \in 0..MaxMsg
  /\ owner \in Consumer \cup {None}
  /\ ran \in [Msg -> SUBSET Workflow] /\ routed \subseteq Msg
  /\ dlqBuffer \in [Consumer -> SUBSET Msg]
  /\ dlq \subseteq Msg /\ dlqLost \subseteq Msg
  /\ faults \in 0..MaxFaults

ConTyped ==
  /\ con \in [Consumer -> ConsumerState]
  /\ \A c \in Consumer : Countable(c)

LEMMA TypeSplit == TypeInv <=> RestTyped /\ ConTyped
BY DEF TypeInv, TypeOK, RestTyped, ConTyped

LEMMA TypeJoin == RestTyped' /\ ConTyped' => TypeInv'
BY DEF TypeInv, TypeOK, RestTyped, ConTyped

LEMMA OffType ==
  /\ Off \in ConsumerState /\ Off.pc = "off" /\ ~ Off.member
BY BusAssumption DEF Off, ConsumerState, PC

LEMMA FaultType ==
  ASSUME TypeOK, NEW kind, Fault(kind)
  PROVE  faults' \in 0..MaxFaults
BY BusAssumption DEF TypeOK, Fault

LEMMA LenTopic == TypeOK => Len(topic) \in Nat
BY LenProperties DEF TypeOK

\* A step in which c's record becomes r.
LEMMA ConStep ==
  ASSUME ConTyped, NEW c \in Consumer, NEW r \in ConsumerState,
         con' = [con EXCEPT ![c] = r],
         r.pc \in {"route", "gather", "dlq", "commit", "dlqCommit"}
           => r.cur \in Msg,
         r.pc \in {"route", "gather", "commit"} => r.tries <= MaxRetries
  PROVE  ConTyped'
<1>1. /\ con' \in [Consumer -> ConsumerState] /\ con'[c] = r
      /\ \A d \in Consumer \ {c} : con'[d] = con[d]
  BY DEF ConTyped
<1>2. ASSUME NEW d \in Consumer PROVE Countable(d)'
  <2>1. CASE d = c
    BY <1>1, <2>1 DEF Countable, InHand, Working
  <2>2. CASE d # c
    BY <1>1, <2>2 DEF ConTyped, Countable, InHand, Working
  <2>3. QED BY <2>1, <2>2
<1>3. QED BY <1>1, <1>2 DEF ConTyped

\* Only the place where the loop stands changes.
LEMMA MoveStep ==
  ASSUME ConTyped, NEW c \in Consumer, NEW p \in PC,
         con' = [con EXCEPT ![c].pc = p],
         p \in {"route", "gather", "dlq", "commit", "dlqCommit"} => InHand(c),
         p \in {"route", "gather", "commit"}
           => con[c].pc \in {"route", "gather", "commit"}
  PROVE  ConTyped'
<1> DEFINE r == [con[c] EXCEPT !.pc = p]
<1>1. con[c] \in ConsumerState /\ Countable(c)
  BY DEF ConTyped
<1>2. /\ r \in ConsumerState /\ r.pc = p /\ r.cur = con[c].cur
      /\ r.tries = con[c].tries
  BY <1>1 DEF ConsumerState
<1>3. con' = [con EXCEPT ![c] = r]
  OBVIOUS
<1> HIDE DEF r
<1>4. QED BY <1>1, <1>2, <1>3, ConStep DEF Countable

LEMMA RetriedType ==
  ASSUME ConTyped, NEW c \in Consumer, con[c].pc \in {"route", "commit"},
         Retried(c)
  PROVE  ConTyped'
<1> DEFINE p == IF con[c].tries >= MaxRetries THEN "dlq" ELSE "route"
           r == [con[c] EXCEPT !.tries = con[c].tries + 1, !.pc = p]
<1>1. /\ con[c] \in ConsumerState /\ con[c].cur \in Msg
      /\ con[c].tries <= MaxRetries /\ con[c].tries \in Nat
      /\ MaxRetries \in Nat
  BY BusAssumption DEF ConTyped, Countable, InHand, Working, ConsumerState
<1>2. /\ r \in ConsumerState /\ r.pc = p /\ r.cur = con[c].cur
      /\ r.tries = con[c].tries + 1
  <2>1. con[c].tries + 1 \in 0..(MaxRetries + 1) /\ p \in PC
    BY <1>1 DEF PC
  <2>2. QED BY <1>1, <2>1 DEF ConsumerState
<1>3. con' = [con EXCEPT ![c] = r]
  BY DEF Retried
<1>4. r.pc \in {"route", "gather", "commit"} => r.tries <= MaxRetries
  BY <1>1, <1>2
<1> HIDE DEF r
<1>5. QED BY <1>1, <1>2, <1>3, <1>4, ConStep

LEMMA TypeLoop ==
  ASSUME TypeInv, NEW c \in Consumer, Loop(c)
  PROVE  TypeInv'
<1> USE DEF historyVars, dlqVars
<1>0. /\ RestTyped /\ ConTyped /\ TypeOK /\ Countable(c)
      /\ con[c] \in ConsumerState /\ Len(topic) \in Nat
  BY TypeSplit, LenTopic DEF TypeInv, TypeOK
<1>1. CASE Poll(c)
  <2> DEFINE r == [con[c] EXCEPT !.pos = con[c].pos + 1,
                                 !.cur = con[c].pos + 1,
                                 !.tries = 0, !.pc = "route"]
  <2>1. con[c].pos + 1 \in Msg /\ con[c].pos + 1 \in 0..MaxMsg
    BY <1>0, <1>1, BusAssumption DEF Poll, ConsumerState, RestTyped, Msg
  <2>2. /\ r \in ConsumerState /\ r.cur \in Msg /\ r.tries <= MaxRetries
    <3>1. /\ 0 \in 0..(MaxRetries + 1) /\ 0 <= MaxRetries
          /\ "route" \in PC
      BY BusAssumption DEF PC
    <3>2. QED BY <1>0, <2>1, <3>1 DEF ConsumerState
  <2>3. con' = [con EXCEPT ![c] = r]
    BY <1>1 DEF Poll
  <2> HIDE DEF r
  <2>4. ConTyped'
    BY <1>0, <2>2, <2>3, ConStep
  <2>5. QED BY <1>0, <1>1, <2>4, TypeJoin DEF Poll, RestTyped
<1>2. CASE RouteRaises(c)
  <2>1. ConTyped'
    BY <1>0, <1>2, RetriedType DEF RouteRaises
  <2>2. QED BY <1>0, <1>2, <2>1, TypeJoin DEF RouteRaises, RestTyped
<1>3. CASE FanOut(c)
  <2> DEFINE r == [con[c] EXCEPT !.pc = "gather", !.left = Workflow]
  <2>1. /\ r \in ConsumerState /\ r.cur \in Msg /\ r.tries <= MaxRetries
    BY <1>0, <1>3 DEF FanOut, ConsumerState, PC, Countable, InHand, Working
  <2>2. con' = [con EXCEPT ![c] = r]
    BY <1>3 DEF FanOut
  <2> HIDE DEF r
  <2>3. ConTyped'
    BY <1>0, <2>1, <2>2, ConStep
  <2>4. QED BY <1>0, <1>3, <2>3, TypeJoin DEF FanOut, RestTyped
<1>4. ASSUME NEW w \in Workflow, WorkflowEnds(c, w) PROVE TypeInv'
  <2> DEFINE r == [con[c] EXCEPT !.left = con[c].left \ {w}]
  <2>1. /\ r \in ConsumerState /\ r.cur \in Msg /\ r.tries <= MaxRetries
    BY <1>0, <1>4
    DEF WorkflowEnds, ConsumerState, PC, Countable, InHand, Working
  <2>2. con' = [con EXCEPT ![c] = r]
    BY <1>4 DEF WorkflowEnds
  <2> HIDE DEF r
  <2>3. ConTyped'
    BY <1>0, <2>1, <2>2, ConStep
  <2>4. ran' \in [Msg -> SUBSET Workflow]
    BY <1>0, <1>4 DEF WorkflowEnds, RestTyped
  <2>5. QED BY <1>0, <1>4, <2>3, <2>4, TypeJoin DEF WorkflowEnds, RestTyped
<1>5. CASE Gathered(c)
  <2>1. ConTyped' /\ con[c].cur \in Msg
    BY <1>0, <1>5, MoveStep DEF Gathered, PC, InHand, Working, Countable
  <2>2. QED BY <1>0, <1>5, <2>1, TypeJoin DEF Gathered, RestTyped
<1>6. CASE CommitReturns(c) \/ DlqCommitReturns(c)
  <2>1. ConTyped'
    BY <1>0, <1>6, MoveStep DEF CommitReturns, DlqCommitReturns, PC
  <2>2. committed' \in 0..MaxMsg
    BY <1>0, <1>6
    DEF CommitReturns, DlqCommitReturns, Committed, ConsumerState, RestTyped
  <2>3. QED
    BY <1>0, <1>6, <2>1, <2>2, TypeJoin
    DEF CommitReturns, DlqCommitReturns, RestTyped
<1>7. CASE CommitRaises(c)
  <2>1. ConTyped'
    BY <1>0, <1>7, RetriedType DEF CommitRaises
  <2>2. faults' \in 0..MaxFaults
    BY <1>0, <1>7, FaultType DEF CommitRaises, CommitRefused, TypeOK
  <2>3. QED
    BY <1>0, <1>7, <2>1, <2>2, TypeJoin
    DEF CommitRaises, CommitRefused, RestTyped
<1>8. CASE DlqSend(c)
  <2>1. ConTyped' /\ con[c].cur \in Msg
    BY <1>0, <1>8, MoveStep DEF DlqSend, PC, InHand, Working, Countable
  <2>2. dlqBuffer' \in [Consumer -> SUBSET Msg]
    BY <1>0, <1>8, <2>1 DEF DlqSend, RestTyped
  <2>3. QED BY <1>0, <1>8, <2>1, <2>2, TypeJoin DEF DlqSend, RestTyped
<1>9. CASE DlqSendRaises(c) \/ DlqCommitRaises(c) \/ LoopStops(c)
  <2>1. ConTyped'
    BY <1>0, <1>9, MoveStep
    DEF DlqSendRaises, DlqCommitRaises, LoopStops, LoopEnds, PC
  <2>2. faults' \in 0..MaxFaults
    BY <1>0, <1>9, FaultType
    DEF DlqSendRaises, DlqCommitRaises, LoopStops, CommitRefused, TypeOK
  <2>3. QED
    BY <1>0, <1>9, <2>1, <2>2, TypeJoin
    DEF DlqSendRaises, DlqCommitRaises, LoopStops, CommitRefused, RestTyped
<1>10. QED
  BY <1>1, <1>2, <1>3, <1>4, <1>5, <1>6, <1>7, <1>8, <1>9 DEF Loop

LEMMA TypeGroup ==
  ASSUME TypeInv, NEW c \in Consumer,
         \/ Start(c) \/ StartHalfway(c) \/ Join(c) \/ Rebalance(c)
         \/ Stop(c) \/ StopProducer(c) \/ Exit(c) \/ Crash(c)
  PROVE  TypeInv'
<1> USE DEF historyVars, dlqVars
<1>0. /\ RestTyped /\ ConTyped /\ TypeOK /\ Countable(c)
      /\ con[c] \in ConsumerState
  BY TypeSplit DEF TypeInv, TypeOK
<1>1. CASE Start(c)
  <2> DEFINE r == [Off EXCEPT !.pc = "poll", !.member = TRUE,
                              !.closed = FALSE]
  <2>1. r \in ConsumerState /\ r.pc = "poll"
    BY OffType DEF ConsumerState, PC
  <2>2. con' = [con EXCEPT ![c] = r]
    BY <1>1 DEF Start
  <2> HIDE DEF r
  <2>3. ConTyped'
    BY <1>0, <2>1, <2>2, ConStep
  <2>4. QED BY <1>0, <1>1, <2>3, TypeJoin DEF Start, RestTyped
<1>5. CASE StartHalfway(c)
  <2> DEFINE r == [Off EXCEPT !.pc = "dead", !.member = TRUE]
  <2>1. r \in ConsumerState /\ r.pc = "dead"
    BY OffType DEF ConsumerState, PC
  <2>2. con' = [con EXCEPT ![c] = r]
    BY <1>5 DEF StartHalfway
  <2> HIDE DEF r
  <2>3. ConTyped'
    BY <1>0, <2>1, <2>2, ConStep
  <2>4. faults' \in 0..MaxFaults
    BY <1>0, <1>5, FaultType DEF StartHalfway, TypeOK
  <2>5. QED BY <1>0, <1>5, <2>3, <2>4, TypeJoin DEF StartHalfway, RestTyped
<1>2. CASE Join(c) \/ Rebalance(c)
  <2> DEFINE r == [con[c] EXCEPT !.pos = committed]
  <2>1. /\ r \in ConsumerState /\ r.pc = con[c].pc /\ r.cur = con[c].cur
        /\ r.tries = con[c].tries
    BY <1>0 DEF ConsumerState, RestTyped
  <2>2. con' = [con EXCEPT ![c] = r] /\ owner' = c
    BY <1>2 DEF Join, Rebalance, Assign
  <2> HIDE DEF r
  <2>3. ConTyped'
    BY <1>0, <2>1, <2>2, ConStep DEF Countable, InHand, Working
  <2>4. faults' \in 0..MaxFaults
    BY <1>0, <1>2, FaultType DEF Join, Rebalance, TypeOK
  <2>5. QED
    BY <1>0, <1>2, <2>2, <2>3, <2>4, TypeJoin DEF Join, Rebalance, RestTyped
<1>3. CASE Stop(c) \/ StopProducer(c)
  <2> DEFINE r == [con[c] EXCEPT
                     !.member = IF Stop(c) THEN FALSE ELSE con[c].member,
                     !.closed = IF Stop(c) THEN con[c].closed ELSE TRUE]
  <2>1. /\ r \in ConsumerState /\ r.pc = con[c].pc /\ r.cur = con[c].cur
        /\ r.tries = con[c].tries
    BY <1>0 DEF ConsumerState
  <2>2. con' = [con EXCEPT ![c] = r]
    <3>1. CASE Stop(c)
      <4>1. r = [con[c] EXCEPT !.member = FALSE]
        BY <1>0, <3>1 DEF ConsumerState
      <4>2. QED BY <3>1, <4>1 DEF Stop
    <3>2. CASE ~ Stop(c)
      <4>1. r = [con[c] EXCEPT !.closed = TRUE]
        BY <1>0, <3>2 DEF ConsumerState
      <4>2. QED BY <1>3, <3>2, <4>1 DEF StopProducer
    <3>3. QED BY <3>1, <3>2
  <2> HIDE DEF r
  <2>3. ConTyped'
    BY <1>0, <2>1, <2>2, ConStep DEF Countable, InHand, Working
  <2>4. faults' \in 0..MaxFaults
    BY <1>0, <1>3, FaultType DEF Stop, StopProducer, TypeOK
  <2>5. owner' \in Consumer \cup {None}
    BY <1>0, <1>3 DEF Stop, StopProducer, Released, RestTyped
  <2>6. QED
    BY <1>0, <1>3, <2>3, <2>4, <2>5, TypeJoin DEF Stop, StopProducer, RestTyped
<1>4. CASE Exit(c) \/ Crash(c)
  <2>1. ConTyped'
    BY <1>0, <1>4, ConStep, OffType DEF Exit, Crash
  <2>2. faults' \in 0..MaxFaults
    BY <1>0, <1>4, FaultType DEF Exit, Crash, TypeOK
  <2>3. owner' \in Consumer \cup {None}
    BY <1>0, <1>4 DEF Exit, Crash, Released, RestTyped
  <2>4. dlqBuffer' \in [Consumer -> SUBSET Msg] /\ dlqLost' \subseteq Msg
    BY <1>0, <1>4 DEF Exit, Crash, RestTyped
  <2>5. QED
    BY <1>0, <1>4, <2>1, <2>2, <2>3, <2>4, TypeJoin DEF Exit, Crash, RestTyped
<1>6. QED BY <1>1, <1>2, <1>3, <1>4, <1>5

LEMMA TypeBroker ==
  ASSUME TypeInv,
         \/ \E wellFormed \in BOOLEAN : Produce(wellFormed)
         \/ \E c \in Consumer, m \in Msg : DlqDeliver(c, m) \/ DlqExpires(c, m)
  PROVE  TypeInv'
<1> USE DEF historyVars, dlqVars
<1>0. RestTyped /\ ConTyped /\ TypeOK
  BY TypeSplit DEF TypeInv, TypeOK
<1>1. ASSUME con' = con PROVE ConTyped'
  BY <1>0, <1>1 DEF ConTyped, Countable, InHand, Working
<1>2. ASSUME NEW wellFormed \in BOOLEAN, Produce(wellFormed) PROVE TypeInv'
  <2>1. /\ topic' \in Seq(BOOLEAN) /\ Len(topic') = Len(topic) + 1
        /\ Len(topic) \in Nat /\ Len(topic) < MaxMsg /\ MaxMsg \in Nat
    BY <1>0, <1>2, AppendProperties, LenTopic, BusAssumption
    DEF Produce, RestTyped
  <2>2. topic' \in Seq(BOOLEAN) /\ Len(topic') <= MaxMsg
    BY <2>1
  <2>3. QED BY <1>0, <1>1, <1>2, <2>2, TypeJoin DEF Produce, RestTyped
<1>3. ASSUME NEW c \in Consumer, NEW m \in Msg,
             DlqDeliver(c, m) \/ DlqExpires(c, m)
      PROVE  TypeInv'
  <2>1. faults' \in 0..MaxFaults
    BY <1>0, <1>3, FaultType DEF DlqDeliver, DlqExpires, TypeOK
  <2>2. /\ dlqBuffer' \in [Consumer -> SUBSET Msg]
        /\ dlq' \subseteq Msg /\ dlqLost' \subseteq Msg
    BY <1>0, <1>3 DEF DlqDeliver, DlqExpires, RestTyped
  <2>3. con' = con
    BY <1>3 DEF DlqDeliver, DlqExpires
  <2>4. QED
    BY <1>0, <1>1, <1>3, <2>1, <2>2, <2>3, TypeJoin
    DEF DlqDeliver, DlqExpires, RestTyped
<1>4. QED BY <1>2, <1>3

LEMMA TypeNext == TypeInv /\ [Next]_vars => TypeInv'
<1> SUFFICES ASSUME TypeInv, [Next]_vars PROVE TypeInv'
  OBVIOUS
<1>1. CASE UNCHANGED vars
  BY <1>1
  DEF vars, TypeInv, TypeOK, Countable, InHand, Working
<1>2. CASE Next
  BY <1>2, TypeLoop, TypeGroup, TypeBroker DEF Next
<1>3. QED BY <1>1, <1>2

LEMMA TypeInit == Init => TypeInv
<1> SUFFICES ASSUME Init PROVE TypeInv
  OBVIOUS
<1>1. RestTyped
  BY BusAssumption DEF Init, RestTyped
<1>2. ConTyped
  BY OffType DEF Init, ConTyped, Countable, InHand, Working
<1>3. QED BY <1>1, <1>2, TypeSplit

----------------------------------------------------------------------------
(* What is handled stays handled.                                          *)

LEMMA HandledMember ==
  ASSUME NEW m
  PROVE  m \in Handled <=> \/ m \in routed \/ m \in dlq \/ m \in dlqLost
                           \/ \E c \in Consumer : m \in dlqBuffer[c]
BY DEF Handled, DeadLetters

LEMMA HandledMemberNext ==
  ASSUME NEW m
  PROVE  m \in Handled' <=> \/ m \in routed' \/ m \in dlq' \/ m \in dlqLost'
                            \/ \E c \in Consumer : m \in dlqBuffer'[c]
BY DEF Handled, DeadLetters

Grows ==
  /\ Len(topic) <= Len(topic')
  /\ Handled \subseteq Handled'
  /\ \A m \in Msg : ran[m] \subseteq ran'[m]

LEMMA BookGrows ==
  ASSUME TypeInv, [Next]_vars
  PROVE  Grows
<1> USE DEF historyVars, dlqVars
<1>0. RestTyped /\ Len(topic) \in Nat
  BY TypeSplit, LenTopic DEF TypeInv
<1>1. Len(topic) <= Len(topic')
  <2>1. CASE topic' = topic
    BY <1>0, <2>1
  <2>2. ASSUME NEW wellFormed \in BOOLEAN, Produce(wellFormed)
        PROVE  Len(topic) <= Len(topic')
    <3>1. Len(topic') = Len(topic) + 1
      BY <1>0, <2>2, AppendProperties DEF Produce, RestTyped
    <3>2. QED BY <1>0, <3>1
  <2>3. QED
    BY <2>1, <2>2
    DEF vars, Next, Start, StartHalfway, Join, Rebalance, Loop, Poll,
        RouteRaises, FanOut, WorkflowEnds, Gathered, CommitReturns,
        CommitRaises, CommitRefused, DlqSend, DlqSendRaises, DlqCommitReturns,
        DlqCommitRaises, LoopStops, Stop, StopProducer, Exit, Crash,
        DlqDeliver, DlqExpires
<1>2. \A m \in Msg : ran[m] \subseteq ran'[m]
  <2>1. CASE ran' = ran
    BY <2>1
  <2>2. ASSUME NEW c \in Consumer, NEW w \in Workflow, WorkflowEnds(c, w)
        PROVE  \A m \in Msg : ran[m] \subseteq ran'[m]
    BY <1>0, <2>2 DEF WorkflowEnds, RestTyped
  <2>3. QED
    BY <2>1, <2>2
    DEF vars, Next, Produce, Start, StartHalfway, Join, Rebalance, Loop, Poll,
        RouteRaises, FanOut, Gathered, CommitReturns, CommitRaises,
        CommitRefused, DlqSend, DlqSendRaises, DlqCommitReturns,
        DlqCommitRaises, LoopStops, Stop, StopProducer, Exit, Crash,
        DlqDeliver, DlqExpires
<1>3. Handled \subseteq Handled'
  <2> SUFFICES ASSUME NEW m \in Handled PROVE m \in Handled'
    OBVIOUS
  <2>1. CASE UNCHANGED <<routed, dlqVars>>
    BY <2>1, HandledMember, HandledMemberNext
  <2>2. ASSUME NEW c \in Consumer,
               \/ Gathered(c) \/ DlqSend(c) \/ Crash(c)
               \/ \E n \in Msg : DlqDeliver(c, n) \/ DlqExpires(c, n)
        PROVE  m \in Handled'
    <3>1. dlqBuffer \in [Consumer -> SUBSET Msg]
      BY <1>0 DEF RestTyped
    <3>2. CASE Gathered(c)
      BY <3>2, HandledMember, HandledMemberNext DEF Gathered
    <3>3. CASE DlqSend(c)
      BY <3>1, <3>3, HandledMember, HandledMemberNext DEF DlqSend
    <3>4. CASE Crash(c)
      BY <3>1, <3>4, HandledMember, HandledMemberNext DEF Crash
    <3>5. ASSUME NEW n \in Msg, DlqDeliver(c, n) \/ DlqExpires(c, n)
          PROVE  m \in Handled'
      BY <3>1, <3>5, HandledMember, HandledMemberNext DEF DlqDeliver, DlqExpires
    <3>6. QED BY <2>2, <3>2, <3>3, <3>4, <3>5
  <2>3. QED
    BY <2>1, <2>2
    DEF vars, Next, Produce, Start, StartHalfway, Join, Rebalance, Loop, Poll,
        RouteRaises, FanOut, WorkflowEnds, CommitReturns, CommitRaises,
        CommitRefused, DlqSendRaises, DlqCommitReturns, DlqCommitRaises,
        LoopStops, Stop, StopProducer, Exit
<1>4. QED BY <1>1, <1>2, <1>3 DEF Grows

----------------------------------------------------------------------------
(* What an instance has in hand, and where the owner stands.               *)

\* The record of an instance, and the numbers in it.
LEMMA RecordTyped ==
  ASSUME TypeInv, NEW c \in Consumer
  PROVE  /\ con[c] \in ConsumerState
         /\ con[c].cur \in Nat /\ con[c].pos \in Nat
         /\ committed \in Nat /\ Len(topic) \in Nat
         /\ InHand(c) => con[c].cur \in Msg
<1>1. con[c] \in ConsumerState /\ committed \in 0..MaxMsg /\ MaxMsg \in Nat
  BY BusAssumption DEF TypeInv, TypeOK
<1>2. QED BY <1>1, LenTopic DEF TypeInv, Countable, ConsumerState

\* The message in c's hand stays the same.
LEMMA HandKept ==
  ASSUME TypeInv, Grows, TypeInv', NEW c \in Consumer, HandInOrder(c),
         con'[c].cur = con[c].cur,
         InHand(c)' => InHand(c),
         con'[c].pc \in {"commit", "dlqCommit"} => con[c].cur \in Handled',
         con'[c].pc = "gather"
           => Workflow \ con'[c].left \subseteq ran'[con[c].cur]
  PROVE  HandInOrder(c)'
<1>1. InHand(c)' => /\ con'[c].cur \in 1..Len(topic')
                    /\ 1..(con'[c].cur - 1) \subseteq Handled'
  <2> SUFFICES ASSUME InHand(c)
               PROVE  /\ con[c].cur \in 1..Len(topic')
                      /\ 1..(con[c].cur - 1) \subseteq Handled'
    OBVIOUS
  <2>1. con[c].cur \in 1..Len(topic) /\ Len(topic) <= Len(topic')
        /\ Len(topic) \in Nat /\ Len(topic') \in Nat
    <3>1. topic' \in Seq(BOOLEAN)
      BY DEF TypeInv, TypeOK
    <3>2. QED BY <3>1, RecordTyped, LenProperties DEF HandInOrder, Grows
  <2>2. con[c].cur \in 1..Len(topic')
    BY <2>1
  <2>3. QED BY <2>2 DEF HandInOrder, Grows
<1>2. QED BY <1>1 DEF HandInOrder

\* The position of c stays the same; c keeps what it has in hand, drops it
\* dead, or has handled it.
LEMMA OwnerKept ==
  ASSUME TypeInv, Grows, TypeInv', NEW c \in Consumer,
         HandInOrder(c), OwnerInOrder(c),
         con'[c].pos = con[c].pos, con'[c].cur = con[c].cur,
         con'[c].member = con[c].member,
         con'[c].pc = "off" => con[c].pc = "off",
         owner' = c =>
           /\ owner = c /\ committed' \in {committed, con[c].pos}
           /\ con[c].pc = "dead" => con'[c].pc = "dead"
           /\ Working(c) => \/ con'[c].pc = "dead"
                            \/ Working(c)'
                            \/ con[c].cur \in Handled'
  PROVE  OwnerInOrder(c)'
<1>1. ASSUME owner' = c
      PROVE  /\ con[c].member
             /\ con[c].pos \in committed'..Len(topic')
             /\ \/ 1..con[c].pos \subseteq Handled'
                \/ con'[c].pc = "dead"
                \/ Working(c)' /\ con[c].pos = con[c].cur
  <2>1. /\ con[c].member /\ con[c].pos \in committed..Len(topic)
        /\ \/ 1..con[c].pos \subseteq Handled
           \/ con[c].pc = "dead"
           \/ Working(c) /\ con[c].pos = con[c].cur
    BY <1>1 DEF OwnerInOrder
  <2>2. con[c].pos \in committed'..Len(topic')
    <3>1. Len(topic) <= Len(topic') /\ Len(topic') \in Nat
      BY LenProperties DEF TypeInv, TypeOK, Grows
    <3>2. committed' = committed \/ committed' = con[c].pos
      BY <1>1
    <3>3. QED BY <2>1, <3>1, <3>2, RecordTyped
  <2>3. CASE 1..con[c].pos \subseteq Handled
    BY <2>1, <2>2, <2>3 DEF Grows
  <2>4. CASE con[c].pc = "dead"
    BY <1>1, <2>1, <2>2, <2>4
  <2>5. CASE Working(c) /\ con[c].pos = con[c].cur /\ con[c].cur \in Handled'
    <3>1. 1..(con[c].cur - 1) \subseteq Handled'
      BY <2>5 DEF HandInOrder, InHand, Grows
    <3>2. \A n \in 1..con[c].pos : n \in 1..(con[c].cur - 1) \/ n = con[c].cur
      BY <2>5, RecordTyped
    <3>3. 1..con[c].pos \subseteq Handled'
      BY <2>5, <3>1, <3>2
    <3>4. QED BY <2>1, <2>2, <3>3
  <2>6. QED BY <1>1, <2>1, <2>2, <2>3, <2>4, <2>5
<1>2. QED BY <1>1 DEF OwnerInOrder

\* An instance that does nothing.
LEMMA Others ==
  ASSUME TypeInv, Grows, TypeInv', NEW d \in Consumer,
         HandInOrder(d), OwnerInOrder(d), con'[d] = con[d],
         owner' = d => owner = d /\ committed' = committed
  PROVE  HandInOrder(d)' /\ OwnerInOrder(d)'
<1>1. (InHand(d)' <=> InHand(d)) /\ (Working(d)' <=> Working(d))
  BY DEF InHand, Working
<1>2. HandInOrder(d)'
  <2>1. con'[d].pc \in {"commit", "dlqCommit"} => con[d].cur \in Handled'
    BY DEF HandInOrder, Grows
  <2>2. con'[d].pc = "gather"
          => Workflow \ con'[d].left \subseteq ran'[con[d].cur]
    BY RecordTyped DEF HandInOrder, Grows, InHand, Working
  <2>3. QED BY <1>1, <2>1, <2>2, HandKept
<1>3. OwnerInOrder(d)'
  BY <1>1, OwnerKept
<1>4. QED BY <1>2, <1>3

\* Whoever commits owns the partition and has handled all it commits.
LEMMA CommitsHandled ==
  ASSUME IInv, NEW c \in Consumer, CommitReturns(c) \/ DlqCommitReturns(c)
  PROVE  /\ owner # c => committed' = committed
         /\ owner = c => /\ committed' = con[c].pos
                         /\ con[c].pos \in committed..Len(topic)
                         /\ 1..con[c].pos \subseteq Handled
<1>1. con[c].pc \in {"commit", "dlqCommit"} /\ ~ Working(c)
  BY DEF CommitReturns, DlqCommitReturns, Working
<1>2. OwnerInOrder(c) /\ Committed(c)
  BY DEF IInv, CommitReturns, DlqCommitReturns
<1>3. QED BY <1>1, <1>2 DEF OwnerInOrder, Committed

LEMMA OffsetMovesOnCommit ==
  ASSUME [Next]_vars, committed' # committed
  PROVE  \E c \in Consumer : CommitReturns(c) \/ DlqCommitReturns(c)
BY DEF vars, Next, Produce, Start, StartHalfway, Join, Rebalance, Loop, Poll,
       RouteRaises, FanOut, WorkflowEnds, Gathered, CommitRaises,
       CommitRefused, DlqSend, DlqSendRaises, DlqCommitRaises, LoopStops,
       Stop, StopProducer, Exit, Crash, DlqDeliver, DlqExpires

LEMMA RoutedOnGathered ==
  ASSUME [Next]_vars, routed' # routed
  PROVE  \E c \in Consumer : Gathered(c)
BY DEF vars, Next, Produce, Start, StartHalfway, Join, Rebalance, Loop, Poll,
       RouteRaises, FanOut, WorkflowEnds, CommitReturns, CommitRaises,
       CommitRefused, DlqSend, DlqSendRaises, DlqCommitReturns,
       DlqCommitRaises, LoopStops, Stop, StopProducer, Exit, Crash,
       DlqDeliver, DlqExpires, historyVars

LEMMA LogStep ==
  ASSUME IInv, [Next]_vars, TypeInv', Grows
  PROVE  LogInOrder'
<1>0. TypeInv /\ LogInOrder
  BY DEF IInv
<1>1. /\ Len(topic) \in Nat /\ Len(topic') \in Nat /\ committed \in Nat
      /\ Len(topic) <= Len(topic')
  <2>1. topic \in Seq(BOOLEAN) /\ topic' \in Seq(BOOLEAN)
        /\ committed \in 0..MaxMsg /\ MaxMsg \in Nat
    BY <1>0, BusAssumption DEF TypeInv, TypeOK
  <2>2. QED BY <2>1, LenProperties DEF Grows
<1>2. committed' <= Len(topic') /\ 1..committed' \subseteq Handled'
  <2>1. CASE committed' = committed
    BY <1>0, <1>1, <2>1 DEF LogInOrder, Grows
  <2>2. CASE committed' # committed
    <3>1. PICK c \in Consumer : CommitReturns(c) \/ DlqCommitReturns(c)
      BY <2>2, OffsetMovesOnCommit
    <3>2. /\ committed' = con[c].pos /\ con[c].pos \in committed..Len(topic)
          /\ 1..con[c].pos \subseteq Handled
      BY <2>2, <3>1, CommitsHandled
    <3>3. QED BY <1>1, <3>2 DEF Grows
  <2>3. QED BY <2>1, <2>2
<1>3. \A m \in routed' : ran'[m] = Workflow
  <2> SUFFICES ASSUME NEW m \in routed' PROVE ran'[m] = Workflow
    OBVIOUS
  <2>1. m \in Msg /\ ran'[m] \subseteq Workflow /\ ran[m] \subseteq ran'[m]
    BY <1>0 DEF TypeInv, TypeOK, Grows
  <2>2. CASE m \in routed
    BY <1>0, <2>1, <2>2 DEF LogInOrder
  <2>3. CASE m \notin routed
    <3>1. PICK c \in Consumer : Gathered(c)
      BY <2>3, RoutedOnGathered
    <3>2. m = con[c].cur /\ con[c].pc = "gather" /\ con[c].left = {}
      BY <2>3, <3>1 DEF Gathered
    <3>3. Workflow \subseteq ran[m]
      BY <3>2 DEF IInv, HandInOrder
    <3>4. QED BY <2>1, <3>3
  <2>4. QED BY <2>2, <2>3
<1>4. QED BY <1>2, <1>3 DEF LogInOrder

LEMMA ActingLoop ==
  ASSUME IInv, NEW c \in Consumer, Loop(c), TypeInv', Grows
  PROVE  /\ HandInOrder(c)' /\ OwnerInOrder(c)' /\ owner' = owner
         /\ \A d \in Consumer \ {c} : con'[d] = con[d]
<1>0. /\ TypeInv /\ HandInOrder(c) /\ OwnerInOrder(c)
      /\ con \in [Consumer -> ConsumerState]
  BY DEF IInv, TypeInv, TypeOK
<1>1. owner' = owner /\ \A d \in Consumer \ {c} : con'[d] = con[d]
  BY <1>0
  DEF Loop, Poll, RouteRaises, FanOut, WorkflowEnds, Gathered, CommitReturns,
      CommitRaises, CommitRefused, DlqSend, DlqSendRaises, DlqCommitReturns,
      DlqCommitRaises, LoopStops, LoopEnds, Retried
<1>2. CASE Poll(c)
  <2>1. /\ con[c].pc = "poll" /\ owner = c /\ con[c].pos < Len(topic)
        /\ con'[c].pc = "route" /\ con'[c].cur = con[c].pos + 1
        /\ con'[c].pos = con[c].pos + 1 /\ con'[c].member = con[c].member
        /\ topic' = topic /\ committed' = committed
    BY <1>0, <1>2 DEF Poll, ConsumerState
  <2>2. /\ con[c].pos \in committed..Len(topic) /\ con[c].member
        /\ 1..con[c].pos \subseteq Handled'
    BY <1>0, <2>1 DEF OwnerInOrder, Working, Grows
  <2>3. /\ con[c].pos + 1 \in 1..Len(topic)
        /\ con[c].pos + 1 \in committed..Len(topic)
        /\ 1..((con[c].pos + 1) - 1) \subseteq Handled'
    <3>1. (con[c].pos + 1) - 1 = con[c].pos
      BY <1>0, RecordTyped
    <3>2. QED BY <1>0, <2>1, <2>2, <3>1, RecordTyped
  <2>4. HandInOrder(c)'
    BY <2>1, <2>3 DEF HandInOrder
  <2>5. OwnerInOrder(c)'
    BY <2>1, <2>2, <2>3 DEF OwnerInOrder, Working
  <2>6. QED BY <1>1, <2>4, <2>5
\* All other steps keep the message, the position and the membership.
<1>3. ASSUME ~ Poll(c)
      PROVE  /\ con'[c].cur = con[c].cur /\ con'[c].pos = con[c].pos
             /\ con'[c].member = con[c].member
  BY <1>0, <1>3
  DEF Loop, RouteRaises, FanOut, WorkflowEnds, Gathered, CommitReturns,
      CommitRaises, DlqSend, DlqSendRaises, DlqCommitReturns,
      DlqCommitRaises, LoopStops, LoopEnds, Retried, ConsumerState
<1>4. ASSUME ~ Poll(c) PROVE HandInOrder(c)' /\ OwnerInOrder(c)'
  <2>1. (InHand(c) /\ con'[c].pc # "off") \/ con[c].pc = "poll"
    BY <1>0, <1>4
    DEF Loop, RouteRaises, FanOut, WorkflowEnds, Gathered, CommitReturns,
        CommitRaises, DlqSend, DlqSendRaises, DlqCommitReturns,
        DlqCommitRaises, LoopStops, LoopEnds, Retried, ConsumerState,
        InHand, Working
  <2>2. con[c].pc = "poll" => con'[c].pc = "dead"
    BY <1>0, <1>4
    DEF Loop, RouteRaises, FanOut, WorkflowEnds, Gathered, CommitReturns,
        CommitRaises, DlqSend, DlqSendRaises, DlqCommitReturns,
        DlqCommitRaises, LoopStops, LoopEnds, ConsumerState
  <2>3. CASE Gathered(c) \/ DlqSend(c)
    <3>1. con[c].cur \in Handled'
      <4>1. con[c].cur \in routed' \/ con[c].cur \in dlqBuffer'[c]
        BY <1>0, <2>3 DEF Gathered, DlqSend, TypeInv, TypeOK
      <4>2. QED BY <4>1, HandledMemberNext
    <3>2. /\ con'[c].pc \in {"commit", "dlqCommit"} /\ committed' = committed
          /\ con[c].pc # "dead"
      BY <1>0, <2>3 DEF Gathered, DlqSend, ConsumerState
    <3>3. HandInOrder(c)'
      BY <1>0, <1>3, <1>4, <2>1, <2>2, <3>1, <3>2, HandKept
    <3>4. OwnerInOrder(c)'
      BY <1>0, <1>1, <1>3, <1>4, <3>1, <3>2, OwnerKept
    <3>5. QED BY <3>3, <3>4
  <2>4. ASSUME NEW w \in Workflow, WorkflowEnds(c, w)
        PROVE  HandInOrder(c)' /\ OwnerInOrder(c)'
    <3>1. /\ con[c].pc = "gather" /\ con'[c].pc = "gather"
          /\ committed' = committed /\ con[c].cur \in Msg
          /\ con'[c].left = con[c].left \ {w}
      BY <1>0, <2>4, RecordTyped
      DEF WorkflowEnds, ConsumerState, InHand, Working
    <3>2. ran'[con[c].cur] = ran[con[c].cur] \cup {w}
      BY <1>0, <2>4, <3>1 DEF WorkflowEnds, TypeInv, TypeOK
    <3>3. Workflow \ con'[c].left \subseteq ran'[con[c].cur]
      BY <1>0, <3>1, <3>2 DEF HandInOrder
    <3>4. InHand(c) /\ Working(c)'
      BY <3>1 DEF InHand, Working
    <3>5. HandInOrder(c)'
      BY <1>0, <1>3, <1>4, <3>1, <3>3, <3>4, HandKept
    <3>6. OwnerInOrder(c)'
      BY <1>0, <1>1, <1>3, <1>4, <3>1, <3>4, OwnerKept
    <3>7. QED BY <3>5, <3>6
  <2>5. CASE RouteRaises(c) \/ FanOut(c) \/ CommitRaises(c)
    <3>1. /\ InHand(c) /\ Working(c)' /\ committed' = committed
          /\ con[c].pc # "dead"
          /\ con'[c].pc \notin {"off", "commit", "dlqCommit"}
          /\ con'[c].pc = "gather" => con'[c].left = Workflow
      BY <1>0, <2>5
      DEF RouteRaises, FanOut, CommitRaises, CommitRefused, Retried,
          ConsumerState, InHand, Working
    <3>2. HandInOrder(c)'
      BY <1>0, <1>3, <1>4, <3>1, HandKept
    <3>3. OwnerInOrder(c)'
      BY <1>0, <1>1, <1>3, <1>4, <3>1, OwnerKept
    <3>4. QED BY <3>2, <3>3
  <2>6. CASE CommitReturns(c) \/ DlqCommitReturns(c)
    <3>1. /\ ~ Working(c) /\ con'[c].pc = "poll" /\ con[c].pc # "dead"
          /\ ~ InHand(c)'
      BY <1>0, <2>6
      DEF CommitReturns, DlqCommitReturns, ConsumerState, Working, InHand
    <3>2. owner = c => committed' = con[c].pos
      BY <2>6, CommitsHandled
    <3>3. HandInOrder(c)'
      BY <1>0, <1>3, <1>4, <3>1, HandKept
    <3>4. OwnerInOrder(c)'
      BY <1>0, <1>1, <1>3, <1>4, <3>1, <3>2, OwnerKept
    <3>5. QED BY <3>3, <3>4
  <2>7. CASE DlqSendRaises(c) \/ DlqCommitRaises(c) \/ LoopStops(c)
    <3>1. con'[c].pc = "dead" /\ ~ InHand(c)' /\ committed' = committed
      BY <1>0, <2>7
      DEF DlqSendRaises, DlqCommitRaises, LoopStops, LoopEnds, CommitRefused,
          ConsumerState, Working, InHand
    <3>2. HandInOrder(c)'
      BY <1>0, <1>3, <1>4, <3>1, HandKept
    <3>3. OwnerInOrder(c)'
      BY <1>0, <1>1, <1>3, <1>4, <3>1, OwnerKept
    <3>4. QED BY <3>2, <3>3
  <2>8. QED BY <1>4, <2>3, <2>4, <2>5, <2>6, <2>7 DEF Loop
<1>5. QED BY <1>1, <1>2, <1>4

LEMMA ActingGroup ==
  ASSUME IInv, NEW c \in Consumer, TypeInv', Grows,
         \/ Start(c) \/ StartHalfway(c) \/ Join(c) \/ Rebalance(c)
         \/ Stop(c) \/ StopProducer(c) \/ Exit(c) \/ Crash(c)
  PROVE  /\ HandInOrder(c)' /\ OwnerInOrder(c)' /\ committed' = committed
         /\ \A d \in Consumer \ {c} :
              con'[d] = con[d] /\ (owner' = d => owner = d)
<1>0. /\ TypeInv /\ HandInOrder(c) /\ OwnerInOrder(c) /\ LogInOrder
      /\ con \in [Consumer -> ConsumerState]
  BY DEF IInv, TypeInv, TypeOK
<1>1. committed' = committed
  BY DEF Start, StartHalfway, Join, Rebalance, Stop, StopProducer, Exit, Crash
<1>2. \A d \in Consumer \ {c} :
        con'[d] = con[d] /\ (owner' = d => owner = d)
  BY <1>0, BusAssumption
  DEF Start, StartHalfway, Join, Rebalance, Assign, Stop, StopProducer,
      Released, Exit, Crash
<1>3. CASE Start(c) \/ StartHalfway(c) \/ Exit(c) \/ Crash(c)
  <2>1. owner' # c
    BY <1>0, <1>3, BusAssumption
    DEF OwnerInOrder, Start, StartHalfway, Exit, Crash, Released
  <2>2. con'[c].pc \in {"poll", "dead"} \/ con'[c] = Off
    <3>1. CASE Start(c)
      BY <1>0, <3>1 DEF Start, Off
    <3>2. CASE StartHalfway(c)
      BY <1>0, <3>2 DEF StartHalfway, Off
    <3>3. CASE Exit(c) \/ Crash(c)
      BY <1>0, <3>3 DEF Exit, Crash
    <3>4. QED BY <1>3, <3>1, <3>2, <3>3
  <2>3. HandInOrder(c)'
    BY <2>2, OffType DEF HandInOrder, InHand, Working
  <2>4. OwnerInOrder(c)'
    BY <2>1, <2>2, OffType DEF OwnerInOrder
  <2>5. QED BY <1>1, <1>2, <2>3, <2>4
<1>4. ASSUME \/ Join(c) \/ Rebalance(c) \/ Stop(c) \/ StopProducer(c)
      PROVE  HandInOrder(c)' /\ OwnerInOrder(c)'
  <2>1. /\ con'[c].pc = con[c].pc /\ con'[c].cur = con[c].cur
        /\ con'[c].left = con[c].left /\ ran' = ran
        /\ (InHand(c)' <=> InHand(c)) /\ (Working(c)' <=> Working(c))
    BY <1>0, <1>4
    DEF Join, Rebalance, Assign, Stop, StopProducer, historyVars,
        ConsumerState, InHand, Working
  <2>2. HandInOrder(c)'
    <3>1. con'[c].pc \in {"commit", "dlqCommit"} => con[c].cur \in Handled'
      BY <1>0, <2>1 DEF HandInOrder, Grows
    <3>2. con'[c].pc = "gather"
            => Workflow \ con'[c].left \subseteq ran'[con[c].cur]
      BY <1>0, <2>1 DEF HandInOrder
    <3>3. QED BY <1>0, <2>1, <3>1, <3>2, HandKept
  <2>3. OwnerInOrder(c)'
    <3>1. CASE Join(c) \/ Rebalance(c)
      <4>1. /\ con'[c].pos = committed /\ con'[c].member = con[c].member
            /\ con[c].member /\ topic' = topic
        BY <1>0, <3>1 DEF Join, Rebalance, Assign, ConsumerState
      <4>2. committed \in committed..Len(topic)
        BY <1>0, RecordTyped DEF LogInOrder
      <4>3. 1..committed \subseteq Handled'
        BY <1>0 DEF LogInOrder, Grows
      <4>4. QED
        BY <1>0, <1>1, <2>1, <4>1, <4>2, <4>3 DEF OwnerInOrder
    <3>2. CASE Stop(c)
      <4>1. owner' # c /\ ~ con'[c].member
        BY <1>0, <3>2, BusAssumption DEF Stop, Released, ConsumerState
      <4>2. QED BY <4>1 DEF OwnerInOrder
    <3>3. CASE StopProducer(c)
      <4>1. /\ con'[c].pos = con[c].pos /\ con'[c].member = con[c].member
            /\ owner' = owner
        BY <1>0, <3>3 DEF StopProducer, ConsumerState
      <4>2. QED BY <1>0, <1>1, <2>1, <4>1, OwnerKept
    <3>4. QED BY <1>4, <3>1, <3>2, <3>3
  <2>4. QED BY <2>2, <2>3
<1>5. QED BY <1>1, <1>2, <1>3, <1>4

LEMMA InvNext == IInv /\ [Next]_vars => IInv'
<1> SUFFICES ASSUME IInv, [Next]_vars PROVE IInv'
  OBVIOUS
<1>1. TypeInv /\ TypeInv' /\ Grows
  BY TypeNext, BookGrows DEF IInv
<1>2. LogInOrder'
  BY <1>1, LogStep
<1>3. ASSUME NEW d \in Consumer PROVE HandInOrder(d)' /\ OwnerInOrder(d)'
  <2>0. HandInOrder(d) /\ OwnerInOrder(d)
    BY DEF IInv
  <2>1. ASSUME NEW c \in Consumer, Loop(c)
        PROVE  HandInOrder(d)' /\ OwnerInOrder(d)'
    <3>1. CASE c = d
      BY <1>1, <2>1, <3>1, ActingLoop
    <3>2. CASE c # d
      <4>1. con'[d] = con[d] /\ owner' = owner
        BY <1>1, <2>1, <3>2, ActingLoop
      <4>2. owner = d => committed' = committed
        <5>1. CASE committed' = committed
          BY <5>1
        <5>2. CASE committed' # committed
          <6>1. CommitReturns(c) \/ DlqCommitReturns(c)
            BY <2>1, <5>2
            DEF Loop, Poll, RouteRaises, FanOut, WorkflowEnds, Gathered,
                CommitRaises, CommitRefused, DlqSend, DlqSendRaises,
                DlqCommitRaises, LoopStops
          <6>2. QED BY <3>2, <6>1, CommitsHandled
        <5>3. QED BY <5>1, <5>2
      <4>3. QED BY <1>1, <2>0, <4>1, <4>2, Others
    <3>3. QED BY <3>1, <3>2
  <2>2. ASSUME NEW c \in Consumer,
               \/ Start(c) \/ StartHalfway(c) \/ Join(c) \/ Rebalance(c)
               \/ Stop(c) \/ StopProducer(c) \/ Exit(c) \/ Crash(c)
        PROVE  HandInOrder(d)' /\ OwnerInOrder(d)'
    BY <1>1, <2>0, <2>2, ActingGroup, Others
  <2>3. ASSUME UNCHANGED <<con, owner, committed>>
        PROVE  HandInOrder(d)' /\ OwnerInOrder(d)'
    BY <1>1, <2>0, <2>3, Others
  <2>4. QED
    BY <2>1, <2>2, <2>3
    DEF vars, Next, Produce, DlqDeliver, DlqExpires
<1>4. QED BY <1>1, <1>2, <1>3 DEF IInv

LEMMA InvInit == Init => IInv
<1> SUFFICES ASSUME Init PROVE IInv
  OBVIOUS
<1>1. TypeInv
  BY TypeInit
<1>2. LogInOrder
  BY DEF Init, LogInOrder
<1>3. ASSUME NEW c \in Consumer PROVE HandInOrder(c) /\ OwnerInOrder(c)
  BY BusAssumption DEF Init, Off, HandInOrder, OwnerInOrder, InHand, Working
<1>4. QED BY <1>1, <1>2, <1>3 DEF IInv

----------------------------------------------------------------------------
(* The theorems.                                                           *)

\* The inductive invariant: every instance has its message in hand in order,
\* and the owner's position is covered (consumer.py:49-84, router.py:51-55).
THEOREM OwnerWorksInOrder == Spec => []IInv
<1>1. Init => IInv
  BY InvInit
<1>2. IInv /\ [Next]_vars => IInv'
  BY InvNext
<1>3. QED BY <1>1, <1>2, PTL DEF Spec

\* The variables of the bus keep their types (consumer.py:20-46).
THEOREM TypeCorrect == Spec => []TypeOK
<1>1. IInv => TypeOK
  BY DEF IInv, TypeInv
<1>2. QED BY <1>1, OwnerWorksInOrder, PTL

\* Whatever is committed was routed or dead-lettered, whatever crashes,
\* stops, rebalances and refused commits there were (router.py:51-55,
\* consumer.py:63-75).
THEOREM CommittedWasRouted == Spec => []CommittedIsRouted
<1>1. IInv => CommittedIsRouted
  BY DEF IInv, LogInOrder, CommittedIsRouted, Handled
<1>2. QED BY <1>1, OwnerWorksInOrder, PTL

----------------------------------------------------------------------------
(* The bus implements SettledLog.                                          *)

LEMMA DeadLetterMember ==
  ASSUME NEW m
  PROVE  m \in DeadLetters <=> \/ m \in dlq \/ m \in dlqLost
                               \/ \E c \in Consumer : m \in dlqBuffer[c]
BY DEF DeadLetters

LEMMA DeadLetterMemberNext ==
  ASSUME NEW m
  PROVE  m \in DeadLetters' <=> \/ m \in dlq' \/ m \in dlqLost'
                                \/ \E c \in Consumer : m \in dlqBuffer'[c]
BY DEF DeadLetters

\* Only the producer's send adds to the dead letters; a crash, a delivery and
\* an expiry move them.
LEMMA DeadLettersStay ==
  ASSUME TypeInv, [Next]_vars, \A c \in Consumer : ~ DlqSend(c)
  PROVE  DeadLetters' = DeadLetters
<1> USE DEF dlqVars
<1>0. dlqBuffer \in [Consumer -> SUBSET Msg]
  BY DEF TypeInv, TypeOK
<1> SUFFICES ASSUME NEW m PROVE m \in DeadLetters' <=> m \in DeadLetters
  OBVIOUS
<1>1. CASE UNCHANGED dlqVars
  BY <1>1, DeadLetterMember, DeadLetterMemberNext
<1>2. ASSUME NEW c \in Consumer, Crash(c)
      PROVE  m \in DeadLetters' <=> m \in DeadLetters
  BY <1>0, <1>2, DeadLetterMember, DeadLetterMemberNext DEF Crash
<1>3. ASSUME NEW c \in Consumer, NEW n \in Msg,
             DlqDeliver(c, n) \/ DlqExpires(c, n)
      PROVE  m \in DeadLetters' <=> m \in DeadLetters
  BY <1>0, <1>3, DeadLetterMember, DeadLetterMemberNext
  DEF DlqDeliver, DlqExpires
<1>4. QED
  BY <1>1, <1>2, <1>3
  DEF vars, Next, Produce, Start, StartHalfway, Join, Rebalance, Loop, Poll,
      RouteRaises, FanOut, WorkflowEnds, Gathered, CommitReturns,
      CommitRaises, CommitRefused, DlqSendRaises, DlqCommitReturns,
      DlqCommitRaises, LoopStops, Stop, StopProducer, Exit

LEMMA HandledIsSettled == IInv => Handled \subseteq Settled
BY DEF IInv, LogInOrder, TypeInv, TypeOK, Handled, Settled

\* The message c has in hand is settled next, in the order of the log.
LEMMA HandSettles ==
  ASSUME IInv, NEW c \in Consumer, InHand(c), committed' = committed,
         Settled' = Settled \/ Settled' = Settled \cup {con[c].cur}
  PROVE  [Log!LogNext]_(Log!logVars)
<1>1. con[c].cur \in 1..MaxMsg
  BY RecordTyped DEF IInv, Msg
<1>2. 1..(con[c].cur - 1) \subseteq Settled
  BY HandledIsSettled DEF IInv, HandInOrder
<1>3. CASE Settled' = Settled
  BY <1>3 DEF Log!logVars
<1>4. CASE Settled' = Settled \cup {con[c].cur}
  <2>1. Log!Settle(con[c].cur)
    BY <1>2, <1>4 DEF Log!Settle
  <2>2. QED BY <1>1, <2>1 DEF Log!LogNext
<1>5. QED BY <1>3, <1>4

LEMMA StepSettles ==
  ASSUME IInv, [Next]_vars
  PROVE  [Log!LogNext]_(Log!logVars)
<1>0. TypeInv
  BY DEF IInv
<1>1. ASSUME NEW c \in Consumer, CommitReturns(c) \/ DlqCommitReturns(c)
      PROVE  [Log!LogNext]_(Log!logVars)
  <2>1. UNCHANGED <<ran, dlq, dlqLost, dlqBuffer>>
    BY <1>1 DEF CommitReturns, DlqCommitReturns, historyVars, dlqVars
  <2>2. Settled' = Settled
    BY <2>1 DEF Settled, DeadLetters
  <2>3. CASE committed' = committed
    BY <2>2, <2>3 DEF Log!logVars
  <2>4. CASE committed' # committed
    <3>1. /\ committed' = con[c].pos /\ 1..con[c].pos \subseteq Settled
          /\ con[c].pos \in committed..Len(topic)
      BY <1>1, <2>4, CommitsHandled, HandledIsSettled
    <3>2. Len(topic) <= MaxMsg /\ MaxMsg \in Nat
      BY <1>0, BusAssumption DEF TypeInv, TypeOK
    <3>3. con[c].pos > committed /\ con[c].pos \in 1..MaxMsg
      BY <1>0, <2>4, <3>1, <3>2, RecordTyped
    <3>4. Log!Commit(con[c].pos)
      BY <2>2, <3>1, <3>3 DEF Log!Commit
    <3>5. QED BY <3>3, <3>4 DEF Log!LogNext
  <2>5. QED BY <2>3, <2>4
<1>2. ASSUME NEW c \in Consumer, NEW w \in Workflow, WorkflowEnds(c, w)
      PROVE  [Log!LogNext]_(Log!logVars)
  <2>1. /\ InHand(c) /\ con[c].cur \in Msg /\ committed' = committed
        /\ ran' = [ran EXCEPT ![con[c].cur] = @ \cup {w}]
        /\ UNCHANGED <<dlq, dlqLost, dlqBuffer>>
    BY <1>0, <1>2, RecordTyped DEF WorkflowEnds, InHand, Working, dlqVars
  <2>2. DeadLetters' = DeadLetters /\ ran \in [Msg -> SUBSET Workflow]
    BY <1>0, <2>1 DEF DeadLetters, TypeInv, TypeOK
  <2>3. /\ \A m \in Msg \ {con[c].cur} : ran'[m] = ran[m]
        /\ ran[con[c].cur] = Workflow => ran'[con[c].cur] = Workflow
    BY <2>1, <2>2
  <2>4. Settled' = Settled \/ Settled' = Settled \cup {con[c].cur}
    BY <2>1, <2>2, <2>3 DEF Settled
  <2>5. QED BY <2>1, <2>4, HandSettles
<1>3. ASSUME NEW c \in Consumer, DlqSend(c)
      PROVE  [Log!LogNext]_(Log!logVars)
  <2>1. /\ InHand(c) /\ con[c].cur \in Msg /\ committed' = committed
        /\ dlqBuffer' = [dlqBuffer EXCEPT ![c] = @ \cup {con[c].cur}]
        /\ UNCHANGED <<ran, dlq, dlqLost>>
        /\ dlqBuffer \in [Consumer -> SUBSET Msg]
    BY <1>0, <1>3, RecordTyped
    DEF DlqSend, InHand, Working, historyVars, TypeInv, TypeOK
  <2>2. \A m : m \in DeadLetters' <=> m \in DeadLetters \/ m = con[c].cur
    <3> SUFFICES ASSUME NEW m
                 PROVE  m \in DeadLetters'
                          <=> m \in DeadLetters \/ m = con[c].cur
      OBVIOUS
    <3>1. QED BY <2>1, DeadLetterMember, DeadLetterMemberNext
  <2>3. Settled' = Settled \cup {con[c].cur}
    BY <2>1, <2>2 DEF Settled
  <2>4. QED BY <2>1, <2>3, HandSettles
<1>4. ASSUME \A c \in Consumer :
               /\ ~ CommitReturns(c) /\ ~ DlqCommitReturns(c) /\ ~ DlqSend(c)
               /\ \A w \in Workflow : ~ WorkflowEnds(c, w)
      PROVE  [Log!LogNext]_(Log!logVars)
  <2>1. committed' = committed
    BY <1>4, OffsetMovesOnCommit
  <2>2. DeadLetters' = DeadLetters
    BY <1>0, <1>4, DeadLettersStay
  <2>3. ran' = ran
    BY <1>4
    DEF vars, historyVars, Next, Produce, Start, StartHalfway, Join,
        Rebalance, Loop, Poll, RouteRaises, FanOut, Gathered, CommitRaises,
        CommitRefused, DlqSendRaises, DlqCommitRaises, LoopStops, Stop,
        StopProducer, Exit, Crash, DlqDeliver, DlqExpires
  <2>4. Settled' = Settled
    BY <2>2, <2>3 DEF Settled
  <2>5. QED BY <2>1, <2>4 DEF Log!logVars
<1>5. QED BY <1>1, <1>2, <1>3, <1>4

LEMMA InitSettles == Init => Log!LogInit
<1> SUFFICES ASSUME Init PROVE Log!LogInit
  OBVIOUS
<1>1. DeadLetters = {}
  BY DEF Init, DeadLetters
<1>2. \A m \in Msg : ran[m] # Workflow
  BY BusAssumption DEF Init
<1>3. QED BY <1>1, <1>2 DEF Init, Settled, Log!LogInit

\* Across retries, refused commits, rebalances, stops and crashes the group
\* settles messages in the order of the log and its offset only moves
\* forward over settled messages (consumer.py:49-84).
THEOREM BusImplementsSettledLog == Spec => ImplementsSettledLog
<1>1. Init => Log!LogInit
  BY InitSettles
<1>2. IInv /\ [Next]_vars => [Log!LogNext]_(Log!logVars)
  BY StepSettles
<1>3. QED
  BY <1>1, <1>2, OwnerWorksInOrder, PTL
  DEF Spec, ImplementsSettledLog, Log!LogSpec
=============================================================================
