--------------------------- MODULE DiscoveryProofs ---------------------------
(***************************************************************************)
(* Proofs about Discovery: its types, the agreement of the manager's       *)
(* tables, that what is known is stored while the database answers, and    *)
(* how often overlapping tasks can discover one token.                     *)
(***************************************************************************)
EXTENDS Discovery, FiniteSetTheorems, SequenceTheorems, TLAPS

\* What a task that is under way relies on: its event counts, its metadata is
\* in place, and a row its SELECT saw is still there.
CallOk(c) ==
  /\ call[c].pc # "idle" => call[c].event # 0
  /\ call[c].pc \in {"select", "write", "resume"}
       => metadata[call[c].token] # 0
  /\ call[c].pc = "write" /\ call[c].saw => HasRow(call[c].token)
  /\ call[c].pc = "resume" /\ outages = 0 => HasRow(call[c].token)

CallInv == \A c \in Call : CallOk(c)

IInv ==
  /\ TypeOK
  /\ CallInv
  /\ TablesAgree
  /\ KnownIsStored
  /\ outages = 0 => dbUp

\* get_entity hands out no row as a TokenIdentity.
LEMMA NeverFound ==
  ASSUME TypeOK, NEW t \in Token
  PROVE  ~FoundInStore(t)
<1>1. identities[t] \in Row
  BY DEF TypeOK
<1>2. GetEntity(t) \in [class : {"none", "CanonicalIdentity"},
                        by : 0..MaxEvents]
  BY <1>1, DiscoveryAssumption DEF GetEntity, NoRow, Row
<1> QED
  BY <1>2 DEF FoundInStore

LEMMA IdleType == Idle \in CallState
  BY DiscoveryAssumption DEF Idle, CallState, PC, Flaw

\* The initial states satisfy the inductive invariant.
LEMMA InitInv == Init => IInv
<1> SUFFICES ASSUME Init PROVE IInv
  OBVIOUS
<1> USE DiscoveryAssumption DEF Init, StoreInit
<1>1. TypeOK
  BY IdleType DEF TypeOK, Row, NoRow
<1>2. CallInv
  BY DEF CallInv, CallOk, Idle
<1>3. TablesAgree
  BY DEF TablesAgree
<1>4. KnownIsStored
  BY DEF KnownIsStored
<1> QED
  BY <1>1, <1>2, <1>3, <1>4 DEF IInv

----------------------------------------------------------------------------
\* What Goto does to call, field by field.
LEMMA GotoStep ==
  ASSUME call \in [Call -> CallState], NEW c \in Call, NEW pc \in PC,
         Goto(c, pc)
  PROVE  /\ call' \in [Call -> CallState]
         /\ call'[c].pc = pc
         /\ call'[c].token = call[c].token
         /\ call'[c].event = call[c].event
         /\ call'[c].saw = call[c].saw
         /\ \A x \in Call \ {c} : call'[x] = call[x]
  BY DEF Goto, CallState

LEMMA EndsStep ==
  ASSUME call \in [Call -> CallState], NEW c \in Call, Ends(c)
  PROVE  /\ call' \in [Call -> CallState]
         /\ call'[c].pc = "idle"
         /\ \A x \in Call \ {c} : call'[x] = call[x]
  BY IdleType DEF Ends, Idle

\* Each conjunct is preserved by each action.  In a step of task c the other
\* entries of call, and so their facts, are as they were.

LEMMA ProcessEventInv ==
  ASSUME IInv, NEW c \in Call, NEW t \in Token, NEW p \in Pool \cup {NoPool},
         NEW flaw \in Flaw, ProcessEvent(c, t, p, flaw)
  PROVE  IInv'
<1> DEFINE d == [pc |-> "get", token |-> t, pool |-> p, event |-> events + 1,
                 flaw |-> flaw, saw |-> FALSE, left |-> {}]
<1>0. /\ TypeOK /\ CallInv /\ TablesAgree /\ KnownIsStored
      /\ outages = 0 => dbUp
  BY DEF IInv
<1>1. call[c].pc = "idle" /\ call' = [call EXCEPT ![c] = d]
  BY DEF ProcessEvent, At
<1>2. UNCHANGED <<identities, dbUp, known, metadata, pools, rejected, outages,
                  restarts>>
  BY DEF ProcessEvent, storeVars, managerVars
<1>3. events' \in 0..MaxEvents /\ events + 1 \in 1..MaxEvents
  BY <1>0, DiscoveryAssumption DEF ProcessEvent, TypeOK
<1>4. d \in CallState /\ d.pc = "get" /\ d.event # 0
  BY <1>3 DEF CallState, PC
<1> HIDE DEF d
<1>5. TypeOK'
  BY <1>0, <1>1, <1>2, <1>3, <1>4 DEF TypeOK
<1>6. CallInv'
  BY <1>0, <1>1, <1>2, <1>4 DEF CallInv, CallOk, HasRow, TypeOK
<1>7. TablesAgree'
  BY <1>0, <1>1, <1>2, <1>4 DEF TablesAgree, Discovering, TypeOK
<1>8. KnownIsStored'
  BY <1>0, <1>2 DEF KnownIsStored, HasRow
<1> QED
  BY <1>0, <1>2, <1>5, <1>6, <1>7, <1>8 DEF IInv

LEMMA StoreAnswersInv ==
  ASSUME IInv, NEW c \in Call, StoreAnswers(c)
  PROVE  IInv'
<1> DEFINE t == call[c].token
<1>0. /\ TypeOK /\ CallInv /\ TablesAgree /\ KnownIsStored
      /\ outages = 0 => dbUp
      /\ t \in Token /\ call[c].event \in 0..MaxEvents
  BY DEF IInv, TypeOK, CallState
<1>1. /\ call[c].pc = "get"
      /\ metadata' = [metadata EXCEPT ![t] = call[c].event]
      /\ Goto(c, "select")
      /\ UNCHANGED <<identities, dbUp, known, pools, rejected, events,
                     outages, restarts>>
  BY <1>0, NeverFound DEF StoreAnswers, At, storeVars, boundVars
<1>2. call[c].event # 0
  BY <1>0, <1>1 DEF CallInv, CallOk
<1>3. /\ call' \in [Call -> CallState]
      /\ call'[c].pc = "select" /\ call'[c].token = t
      /\ call'[c].event = call[c].event
      /\ \A x \in Call \ {c} : call'[x] = call[x]
  BY <1>0, <1>1, GotoStep DEF TypeOK, PC
<1>4. \A x \in Token : metadata'[x] = IF x = t THEN call[c].event
                                               ELSE metadata[x]
  BY <1>0, <1>1 DEF TypeOK
<1>5. TypeOK'
  BY <1>0, <1>1, <1>3 DEF TypeOK
<1>6. CallInv'
  <2> SUFFICES ASSUME NEW x \in Call
               PROVE  CallOk(x)'
    BY DEF CallInv
  <2>1. CASE x = c
    BY <1>0, <1>2, <1>3, <1>4, <2>1 DEF CallOk
  <2>2. CASE x # c
    <3>1. call'[x] = call[x] /\ call[x].token \in Token
      BY <1>0, <1>3, <2>2 DEF TypeOK, CallState
    <3> QED
      BY <1>0, <1>1, <1>2, <1>4, <3>1 DEF CallInv, CallOk, HasRow
  <2> QED
    BY <2>1, <2>2
<1>7. TablesAgree'
  BY <1>0, <1>1, <1>2, <1>3, <1>4 DEF TablesAgree, Discovering
<1>8. KnownIsStored'
  BY <1>0, <1>1 DEF KnownIsStored, HasRow
<1> QED
  BY <1>0, <1>1, <1>5, <1>6, <1>7, <1>8 DEF IInv

\* A call that ends before its record is made: what it leaves behind is at most
\* the metadata of a refused record.
LEMMA RefusedInv ==
  ASSUME IInv, NEW c \in Call, DeploymentRaises(c) \/ RecordRaises(c)
  PROVE  IInv'
<1> DEFINE t == call[c].token
           e == call[c].event
<1>0. /\ TypeOK /\ CallInv /\ TablesAgree /\ KnownIsStored
      /\ outages = 0 => dbUp
      /\ t \in Token /\ e \in 0..MaxEvents
  BY DEF IInv, TypeOK, CallState
<1>1. /\ call[c].pc = "get" /\ Ends(c)
      /\ UNCHANGED <<identities, dbUp, known, pools, events, outages, restarts>>
  BY DEF DeploymentRaises, RecordRaises, At, storeVars, managerVars, boundVars
<1>2. e \in Event
  BY <1>0, <1>1, DiscoveryAssumption DEF CallInv, CallOk, Event
<1>3. /\ rejected \subseteq rejected' /\ rejected' \subseteq Event
      /\ metadata' \in [Token -> 0..MaxEvents]
      /\ \A x \in Token : \/ metadata'[x] = metadata[x]
                          \/ metadata'[x] = e /\ e \in rejected'
  <2>1. CASE DeploymentRaises(c)
    <3>1. metadata' = metadata /\ rejected' = rejected
      BY <2>1 DEF DeploymentRaises, managerVars
    <3>2. \A x \in Token : metadata'[x] = metadata[x]
      BY <3>1
    <3>3. rejected \subseteq rejected' /\ rejected' \subseteq Event
      BY <1>0, <3>1 DEF TypeOK
    <3>4. metadata' \in [Token -> 0..MaxEvents]
      BY <1>0, <3>1 DEF TypeOK
    <3> QED
      BY <3>2, <3>3, <3>4
  <2>2. CASE RecordRaises(c)
    BY <1>0, <1>2, <2>2 DEF RecordRaises, TypeOK
  <2> QED
    BY <2>1, <2>2
<1>4. e # 0
  BY <1>2 DEF Event
<1>5. /\ call' \in [Call -> CallState] /\ call'[c].pc = "idle"
      /\ \A x \in Call \ {c} : call'[x] = call[x]
      /\ \A x \in Call : call[x].token \in Token
  BY <1>0, <1>1, EndsStep DEF TypeOK, CallState
<1>6. TypeOK'
  BY <1>0, <1>1, <1>3, <1>5 DEF TypeOK
<1>7. CallInv'
  BY <1>0, <1>1, <1>3, <1>4, <1>5 DEF CallInv, CallOk, HasRow
<1>8. TablesAgree'
  <2>1. \A x \in Token : Discovering(x) => Discovering(x)'
    BY <1>1, <1>5 DEF Discovering
  <2> QED
    BY <1>0, <1>1, <1>3, <1>4, <2>1 DEF TablesAgree
<1>9. KnownIsStored'
  BY <1>0, <1>1 DEF KnownIsStored, HasRow
<1> QED
  BY <1>0, <1>1, <1>6, <1>7, <1>8, <1>9 DEF IInv

LEMMA UpsertSelectInv ==
  ASSUME IInv, NEW c \in Call, UpsertSelect(c)
  PROVE  IInv'
<1> DEFINE t == call[c].token
<1>0. /\ TypeOK /\ CallInv /\ TablesAgree /\ KnownIsStored
      /\ outages = 0 => dbUp
      /\ t \in Token
  BY DEF IInv, TypeOK, CallState
<1>1. /\ call[c].pc = "select"
      /\ UNCHANGED <<identities, dbUp, known, metadata, pools, rejected,
                     events, outages, restarts>>
  BY DEF UpsertSelect, At, storeVars, managerVars, boundVars
<1>2. /\ call' \in [Call -> CallState]
      /\ call'[c].token = t /\ call'[c].event = call[c].event
      /\ \/ call'[c].pc = "write" /\ (call'[c].saw => HasRow(t))
         \/ call'[c].pc = "resume" /\ ~dbUp
      /\ \A x \in Call \ {c} : call'[x] = call[x]
  <2>1. CASE dbUp
    <3>1. call' = [call EXCEPT ![c].pc = "write", ![c].saw = HasRow(t)]
      BY <2>1 DEF UpsertSelect
    <3>2. HasRow(t) \in BOOLEAN
      BY DEF HasRow
    <3> QED
      BY <1>0, <3>1, <3>2 DEF TypeOK, CallState, PC
  <2>2. CASE ~dbUp
    <3>1. Goto(c, "resume")
      BY <2>2 DEF UpsertSelect
    <3> QED
      BY <1>0, <2>2, <3>1, GotoStep DEF TypeOK, PC
  <2> QED
    BY <2>1, <2>2
<1>3. TypeOK'
  BY <1>0, <1>1, <1>2 DEF TypeOK
<1>4. CallInv'
  BY <1>0, <1>1, <1>2 DEF CallInv, CallOk, HasRow
<1>5. TablesAgree'
  BY <1>0, <1>1, <1>2 DEF TablesAgree, Discovering
<1>6. KnownIsStored'
  BY <1>0, <1>1 DEF KnownIsStored, HasRow
<1> QED
  BY <1>0, <1>1, <1>3, <1>4, <1>5, <1>6 DEF IInv

LEMMA UpsertCommitsInv ==
  ASSUME IInv, NEW c \in Call, UpsertCommits(c)
  PROVE  IInv'
<1> DEFINE t == call[c].token
           e == call[c].event
<1>0. /\ TypeOK /\ CallInv /\ TablesAgree /\ KnownIsStored
      /\ outages = 0 => dbUp
      /\ t \in Token /\ e \in 0..MaxEvents
  BY DEF IInv, TypeOK, CallState
<1>1. /\ call[c].pc = "write"
      /\ Goto(c, "resume")
      /\ UNCHANGED <<dbUp, known, metadata, pools, rejected, events, outages,
                     restarts>>
  BY DEF UpsertCommits, Writes, At, managerVars, boundVars
<1>2. /\ call' \in [Call -> CallState]
      /\ call'[c].pc = "resume" /\ call'[c].token = t /\ call'[c].event = e
      /\ \A x \in Call \ {c} : call'[x] = call[x]
  BY <1>0, <1>1, GotoStep DEF TypeOK, PC
<1>3. e # 0
  BY <1>0, <1>1 DEF CallInv, CallOk
<1>4. identities' \in [Token -> Row] /\ identities'[t].by = e
      /\ \A x \in Token \ {t} : identities'[x] = identities[x]
  <2>1. CASE call[c].saw
    <3>1. identities' = [identities EXCEPT ![t] = [@ EXCEPT !.by = e]]
      BY <2>1 DEF UpsertCommits, Writes
    <3> QED
      BY <1>0, <3>1 DEF TypeOK, Row
  <2>2. CASE ~call[c].saw
    <3>1. identities' =
            [identities EXCEPT ![t] = [class |-> "TokenIdentity", by |-> e]]
      BY <2>2 DEF UpsertCommits, Writes
    <3> QED
      BY <1>0, <3>1 DEF TypeOK, Row
  <2> QED
    BY <2>1, <2>2
<1>5. \A x \in Token : (x = t \/ HasRow(x)) => HasRow(x)'
  BY <1>3, <1>4 DEF HasRow, NoRow
<1>6. TypeOK'
  BY <1>0, <1>1, <1>2, <1>4 DEF TypeOK
<1>7. \A x \in Call : call[x].token \in Token
  BY <1>0 DEF TypeOK, CallState
<1>8. CallInv'
  BY <1>0, <1>1, <1>2, <1>5, <1>7 DEF CallInv, CallOk, HasRow
<1>9. TablesAgree'
  BY <1>0, <1>1, <1>2 DEF TablesAgree, Discovering
<1>10. KnownIsStored'
  BY <1>0, <1>1, <1>5 DEF KnownIsStored, HasRow
<1> QED
  BY <1>0, <1>1, <1>6, <1>8, <1>9, <1>10 DEF IInv

LEMMA UpsertRaisesInv ==
  ASSUME IInv, NEW c \in Call, UpsertRaises(c)
  PROVE  IInv'
<1> DEFINE t == call[c].token
<1>0. /\ TypeOK /\ CallInv /\ TablesAgree /\ KnownIsStored
      /\ outages = 0 => dbUp
      /\ t \in Token
  BY DEF IInv, TypeOK, CallState
<1>1. /\ call[c].pc = "write" /\ Goto(c, "resume")
      /\ ~dbUp \/ HasRow(t)
      /\ UNCHANGED <<identities, dbUp, known, metadata, pools, rejected,
                     events, outages, restarts>>
  BY DEF UpsertRaises, Raises, At, storeVars, managerVars, boundVars
<1>2. /\ call' \in [Call -> CallState]
      /\ call'[c].pc = "resume" /\ call'[c].token = t
      /\ call'[c].event = call[c].event
      /\ \A x \in Call \ {c} : call'[x] = call[x]
  BY <1>0, <1>1, GotoStep DEF TypeOK, PC
<1>3. TypeOK'
  BY <1>0, <1>1, <1>2 DEF TypeOK
<1>4. CallInv'
  BY <1>0, <1>1, <1>2 DEF CallInv, CallOk, HasRow
<1>5. TablesAgree'
  BY <1>0, <1>1, <1>2 DEF TablesAgree, Discovering
<1>6. KnownIsStored'
  BY <1>0, <1>1 DEF KnownIsStored, HasRow
<1> QED
  BY <1>0, <1>1, <1>3, <1>4, <1>5, <1>6 DEF IInv

LEMMA RememberInv ==
  ASSUME IInv, NEW c \in Call, Remember(c) \/ PoolRaises(c)
  PROVE  IInv'
<1> DEFINE t == call[c].token
           e == call[c].event
<1>0. /\ TypeOK /\ CallInv /\ TablesAgree /\ KnownIsStored
      /\ outages = 0 => dbUp
      /\ t \in Token /\ e \in 0..MaxEvents
      /\ call[c].pool \in Pool \cup {NoPool}
  BY DEF IInv, TypeOK, CallState
<1>1. /\ call[c].pc = "resume"
      /\ known' = [known EXCEPT ![t] = e]
      /\ UNCHANGED <<identities, dbUp, metadata, rejected, events, outages,
                     restarts>>
  BY DEF Remember, PoolRaises, At, storeVars, boundVars
<1>2. /\ call' \in [Call -> CallState]
      /\ \/ call'[c].pc = "analyse" /\ call'[c].event = e
         \/ call'[c].pc = "idle"
      /\ \A x \in Call \ {c} : call'[x] = call[x]
  <2>1. CASE Remember(c)
    <3>1. call' = [call EXCEPT ![c].pc = "analyse", ![c].left = Subscriber]
      BY <2>1 DEF Remember
    <3> QED
      BY <1>0, <3>1 DEF TypeOK, CallState, PC
  <2>2. CASE PoolRaises(c)
    BY <1>0, <2>2, EndsStep DEF PoolRaises, TypeOK
  <2> QED
    BY <2>1, <2>2
<1>3. /\ pools' \in [Token -> Seq(Pool)]
      /\ \A x \in Token \ {t} : pools'[x] = pools[x]
  <2>0. CASE PoolRaises(c)
    BY <1>0, <2>0 DEF PoolRaises, TypeOK
  <2>1. CASE Remember(c) /\ call[c].pool = NoPool
    <3>1. pools' = [pools EXCEPT ![t] = pools[t]]
      BY <2>1 DEF Remember
    <3> QED
      BY <1>0, <3>1 DEF TypeOK
  <2>2. CASE Remember(c) /\ call[c].pool # NoPool
    <3>1. pools' = [pools EXCEPT ![t] = Append(pools[t], call[c].pool)]
      BY <2>2 DEF Remember
    <3>2. pools[t] \in Seq(Pool) /\ call[c].pool \in Pool
      BY <1>0, <2>2 DEF TypeOK
    <3>3. Append(pools[t], call[c].pool) \in Seq(Pool)
      BY <3>2
    <3> QED
      BY <1>0, <3>1, <3>3 DEF TypeOK
  <2> QED
    BY <2>0, <2>1, <2>2
<1>4. e # 0 /\ metadata[t] # 0 /\ (outages = 0 => HasRow(t))
  BY <1>0, <1>1 DEF CallInv, CallOk
<1>5. known' \in [Token -> 0..MaxEvents] /\ known'[t] # 0
      /\ \A x \in Token \ {t} : known'[x] = known[x]
  BY <1>0, <1>1, <1>4 DEF TypeOK
<1>6. TypeOK'
  BY <1>0, <1>1, <1>2, <1>3, <1>5 DEF TypeOK
<1>7. CallInv'
  BY <1>0, <1>1, <1>2, <1>4 DEF CallInv, CallOk, HasRow
<1>8. TablesAgree'
  <2> SUFFICES ASSUME NEW x \in Token
               PROVE  (/\ known[x] # 0 => metadata[x] # 0
                       /\ metadata[x] # 0 =>
                            \/ known[x] # 0 \/ Discovering(x)
                            \/ metadata[x] \in rejected
                       /\ pools[x] # <<>> => known[x] # 0)'
    BY DEF TablesAgree
  <2>1. CASE x = t
    BY <1>1, <1>4, <1>5, <2>1
  <2>2. CASE x # t
    <3>1. Discovering(x) => Discovering(x)'
      BY <1>2, <2>2 DEF Discovering
    <3> QED
      BY <1>0, <1>1, <1>3, <1>5, <2>2, <3>1 DEF TablesAgree
  <2> QED
    BY <2>1, <2>2
<1>9. KnownIsStored'
  BY <1>0, <1>1, <1>4, <1>5 DEF KnownIsStored, HasRow
<1> QED
  BY <1>0, <1>1, <1>6, <1>7, <1>8, <1>9 DEF IInv

\* A task whose analysis goes on, or ends, has nothing more to do with the
\* tables.
LEMMA AnalysisInv ==
  ASSUME IInv, NEW c \in Call,
         (\E s \in Subscriber : AnalysisEnds(c, s)) \/ Gathered(c)
  PROVE  IInv'
<1>0. /\ TypeOK /\ CallInv /\ TablesAgree /\ KnownIsStored
      /\ outages = 0 => dbUp
  BY DEF IInv
<1>1. /\ call[c].pc = "analyse"
      /\ UNCHANGED <<identities, dbUp, known, metadata, pools, rejected,
                     events, outages, restarts>>
  BY DEF AnalysisEnds, Gathered, At, storeVars, managerVars, boundVars
<1>2. /\ call' \in [Call -> CallState]
      /\ call'[c].pc \in {"analyse", "idle"}
      /\ call'[c].pc = "analyse" => call'[c].event = call[c].event
      /\ \A x \in Call \ {c} : call'[x] = call[x]
  <2>1. CASE Gathered(c)
    BY <1>0, <2>1, EndsStep DEF Gathered, TypeOK
  <2>2. CASE \E s \in Subscriber : AnalysisEnds(c, s)
    <3>1. PICK s \in Subscriber :
            call' = [call EXCEPT ![c].left = @ \ {s}]
      BY <2>2 DEF AnalysisEnds
    <3> QED
      BY <1>0, <1>1, <3>1 DEF TypeOK, CallState
  <2> QED
    BY <2>1, <2>2
<1>3. TypeOK'
  BY <1>0, <1>1, <1>2 DEF TypeOK
<1>4. CallInv'
  BY <1>0, <1>1, <1>2 DEF CallInv, CallOk, HasRow
<1>5. TablesAgree'
  BY <1>0, <1>1, <1>2 DEF TablesAgree, Discovering
<1>6. KnownIsStored'
  BY <1>0, <1>1 DEF KnownIsStored, HasRow
<1> QED
  BY <1>0, <1>1, <1>3, <1>4, <1>5, <1>6 DEF IInv

\* The database and the process come and go.
LEMMA EnvironmentInv ==
  ASSUME IInv, DbGoesDown \/ DbComesBack \/ Restart
  PROVE  IInv'
<1>0. /\ TypeOK /\ CallInv /\ TablesAgree /\ KnownIsStored
      /\ outages = 0 => dbUp
  BY DEF IInv
<1>1. CASE DbGoesDown
  <2>1. /\ outages' = outages + 1 /\ outages' \in 1..MaxOutages
        /\ dbUp' = FALSE
        /\ UNCHANGED <<identities, known, metadata, pools, call,
                       rejected, events, restarts>>
    BY <1>0, <1>1, DiscoveryAssumption
       DEF DbGoesDown, Outage, managerVars, TypeOK
  <2>2. outages' # 0 /\ outages' \in 0..MaxOutages
    BY <2>1, DiscoveryAssumption
  <2>3. TypeOK'
    BY <1>0, <2>1, <2>2 DEF TypeOK
  <2>4. TablesAgree' /\ KnownIsStored'
    BY <1>0, <2>1, <2>2 DEF TablesAgree, KnownIsStored, Discovering
  <2>5. CallInv'
    BY <1>0, <2>1, <2>2 DEF CallInv, CallOk, HasRow
  <2> QED
    BY <2>2, <2>3, <2>4, <2>5 DEF IInv
<1>2. CASE DbComesBack
  <2>1. /\ dbUp' = TRUE
        /\ UNCHANGED <<identities, known, metadata, pools, call,
                       rejected, events, outages, restarts>>
    BY <1>2 DEF DbComesBack, Recovery, managerVars, boundVars
  <2>2. TypeOK' /\ TablesAgree' /\ KnownIsStored'
    BY <1>0, <2>1
       DEF TypeOK, TablesAgree, KnownIsStored, Discovering, HasRow
  <2>3. CallInv'
    BY <1>0, <2>1 DEF CallInv, CallOk, HasRow
  <2> QED
    BY <2>1, <2>2, <2>3 DEF IInv
<1>3. CASE Restart
  <2>1. /\ restarts' \in 0..MaxRestarts
        /\ NothingInMemory
        /\ UNCHANGED <<identities, dbUp, rejected, events, outages>>
    BY <1>0, <1>3, DiscoveryAssumption DEF Restart, storeVars, TypeOK
  <2>2. TypeOK'
    BY <1>0, <2>1, IdleType, DiscoveryAssumption
       DEF NothingInMemory, TypeOK
  <2>3. TablesAgree' /\ KnownIsStored'
    BY <2>1 DEF NothingInMemory, TablesAgree, KnownIsStored
  <2>4. CallInv'
    BY <2>1 DEF NothingInMemory, CallInv, CallOk, Idle
  <2> QED
    BY <1>0, <2>1, <2>2, <2>3, <2>4 DEF IInv
<1> QED
  BY <1>1, <1>2, <1>3

LEMMA StepInv == IInv /\ [Next]_vars => IInv'
<1> SUFFICES ASSUME IInv, [Next]_vars PROVE IInv'
  OBVIOUS
<1>1. CASE UNCHANGED vars
  BY <1>1 DEF vars, storeVars, managerVars, boundVars, IInv, TypeOK, CallInv,
     CallOk, HasRow, TablesAgree, Discovering, KnownIsStored
<1>2. CASE \E c \in Call, t \in Token, p \in Pool \cup {NoPool},
              flaw \in Flaw : ProcessEvent(c, t, p, flaw)
  BY <1>2, ProcessEventInv
<1>3. ASSUME NEW c \in Call, Proceed(c) PROVE IInv'
  BY <1>3, StoreAnswersInv, RefusedInv, UpsertSelectInv, UpsertCommitsInv,
     UpsertRaisesInv, RememberInv, AnalysisInv DEF Proceed
<1>4. CASE DbGoesDown \/ DbComesBack \/ Restart
  BY <1>4, EnvironmentInv
<1> QED
  BY <1>1, <1>2, <1>3, <1>4 DEF Next

----------------------------------------------------------------------------
\* How often a token can be discovered: every record made and every task
\* still on its way to making one takes a task of its own, as no task sets
\* out for a known token.

UnderWay(t) ==
  {c \in Call : call[c].token = t
                  /\ call[c].pc \in {"get", "select", "write", "resume"}}

RecordsAndTasks ==
  \A t \in Token : Len(pools[t]) + Cardinality(UnderWay(t)) <= Cardinality(Call)

LEMMA UnderWayFinite ==
  ASSUME NEW t
  PROVE  /\ IsFiniteSet(UnderWay(t)) /\ Cardinality(UnderWay(t)) \in Nat
         /\ Cardinality(UnderWay(t)) <= Cardinality(Call)
         /\ Cardinality(UnderWay(t))' \in Nat
         /\ Cardinality(UnderWay(t))' <= Cardinality(Call)
         /\ Cardinality(Call) \in Nat
<1>1. UnderWay(t) \subseteq Call /\ UnderWay(t)' \subseteq Call
  BY DEF UnderWay
<1> QED
  BY <1>1, DiscoveryAssumption, FS_Subset, FS_CardinalityType

LEMMA PoolsLen ==
  ASSUME TypeOK, NEW t \in Token
  PROVE  Len(pools[t]) \in Nat
  BY LenProperties DEF TypeOK

\* A step on which no record is made and no task sets out.
LEMMA FewerUnderWay ==
  ASSUME TypeOK, RecordsAndTasks, pools' = pools,
         \A c \in Call :
            \/ call'[c].pc \in {"idle", "analyse"}
            \/ /\ call'[c].token = call[c].token
               /\ call[c].pc \in {"get", "select", "write", "resume"}
  PROVE  RecordsAndTasks'
<1> SUFFICES ASSUME NEW t \in Token
             PROVE  Len(pools[t]) + Cardinality(UnderWay(t))'
                      <= Cardinality(Call)
  BY DEF RecordsAndTasks
<1>1. UnderWay(t)' \subseteq UnderWay(t)
  BY DEF UnderWay
<1>2. Cardinality(UnderWay(t))' <= Cardinality(UnderWay(t))
  BY <1>1, UnderWayFinite, FS_Subset
<1>3. Len(pools[t]) + Cardinality(UnderWay(t)) <= Cardinality(Call)
  BY DEF RecordsAndTasks
<1> QED
  BY <1>2, <1>3, UnderWayFinite, PoolsLen

\* The task that makes the record is on its way no longer.
LEMMA RememberRecords ==
  ASSUME TypeOK, RecordsAndTasks, NEW c \in Call, Remember(c)
  PROVE  RecordsAndTasks'
<1> DEFINE t == call[c].token
           p == call[c].pool
<1>0. /\ call \in [Call -> CallState] /\ pools \in [Token -> Seq(Pool)]
      /\ t \in Token /\ p \in Pool \cup {NoPool} /\ call[c].pc = "resume"
  BY DEF TypeOK, CallState, Remember, At
<1>1. /\ call'[c].pc = "analyse"
      /\ \A d \in Call \ {c} : call'[d] = call[d]
  BY <1>0 DEF Remember, CallState
<1> SUFFICES ASSUME NEW u \in Token
             PROVE  Len(pools'[u]) + Cardinality(UnderWay(u))'
                      <= Cardinality(Call)
  BY DEF RecordsAndTasks
<1>2. Len(pools[u]) + Cardinality(UnderWay(u)) <= Cardinality(Call)
  BY DEF RecordsAndTasks
<1>3. CASE u = t
  <2>1. c \in UnderWay(u) /\ UnderWay(u)' = UnderWay(u) \ {c}
    BY <1>0, <1>1, <1>3 DEF UnderWay
  <2>2. Cardinality(UnderWay(u))' = Cardinality(UnderWay(u)) - 1
    BY <2>1, UnderWayFinite, FS_RemoveElement
  <2>3. Len(pools'[u]) \in {Len(pools[u]), Len(pools[u]) + 1}
    <3>1. pools'[t] = IF p = NoPool THEN pools[t] ELSE Append(pools[t], p)
      BY <1>0 DEF Remember
    <3>2. CASE p = NoPool
      BY <1>3, <3>1, <3>2
    <3>3. CASE p # NoPool
      <4>1. pools[t] \in Seq(Pool) /\ p \in Pool
        BY <1>0, <3>3
      <4>2. Len(Append(pools[t], p)) = Len(pools[t]) + 1
        BY <4>1, AppendProperties
      <4> QED
        BY <1>3, <3>1, <3>3, <4>2
    <3> QED
      BY <3>2, <3>3
  <2> QED
    BY <1>2, <2>2, <2>3, UnderWayFinite, PoolsLen
<1>4. CASE u # t
  <2>1. UnderWay(u)' = UnderWay(u)
    BY <1>0, <1>1, <1>4 DEF UnderWay
  <2>2. pools'[u] = pools[u]
    BY <1>0, <1>4 DEF Remember
  <2> QED
    BY <1>2, <2>1, <2>2
<1> QED
  BY <1>3, <1>4

\* A task sets out for a token of which there is no record.
LEMMA ProcessEventRecords ==
  ASSUME TypeOK, TablesAgree, RecordsAndTasks,
         NEW c \in Call, NEW t \in Token, NEW p \in Pool \cup {NoPool},
         NEW flaw \in Flaw, ProcessEvent(c, t, p, flaw)
  PROVE  RecordsAndTasks'
<1> SUFFICES ASSUME NEW u \in Token
             PROVE  Len(pools'[u]) + Cardinality(UnderWay(u))'
                      <= Cardinality(Call)
  BY DEF RecordsAndTasks
<1>0. call \in [Call -> CallState] /\ pools' = pools
  BY DEF TypeOK, ProcessEvent, managerVars
<1>1. CASE u = t
  <2>1. pools[t] = <<>>
    BY DEF ProcessEvent, AlreadyKnown, TablesAgree
  <2>2. Len(pools'[u]) = 0
    BY <1>0, <1>1, <2>1
  <2> QED
    BY <2>2, UnderWayFinite
<1>2. CASE u # t
  <2>1. UnderWay(u)' = UnderWay(u)
    BY <1>0, <1>2 DEF ProcessEvent, At, UnderWay
  <2> QED
    BY <1>0, <2>1 DEF RecordsAndTasks
<1> QED
  BY <1>1, <1>2

LEMMA RecordsInit == Init => RecordsAndTasks
<1> SUFFICES ASSUME Init, NEW t \in Token
             PROVE  Len(pools[t]) + Cardinality(UnderWay(t))
                      <= Cardinality(Call)
  BY DEF RecordsAndTasks
<1>1. Len(pools[t]) = 0
  BY DEF Init
<1> QED
  BY <1>1, UnderWayFinite

LEMMA RecordsStep == IInv /\ RecordsAndTasks /\ [Next]_vars => RecordsAndTasks'
<1> SUFFICES ASSUME IInv, RecordsAndTasks, [Next]_vars
             PROVE  RecordsAndTasks'
  OBVIOUS
<1>0. TypeOK /\ TablesAgree /\ call \in [Call -> CallState]
  BY DEF IInv, TypeOK
<1>1. CASE UNCHANGED <<pools, call>>
  BY <1>1 DEF RecordsAndTasks, UnderWay
<1>2. ASSUME NEW c \in Call, Proceed(c), ~ Remember(c) PROVE RecordsAndTasks'
  <2>1. pools' = pools /\ \A d \in Call \ {c} : call'[d] = call[d]
    BY <1>0, <1>2
    DEF Proceed, StoreAnswers, DeploymentRaises, RecordRaises, PoolRaises,
        UpsertSelect, UpsertCommits, UpsertRaises, AnalysisEnds, Gathered, Goto,
        Ends, managerVars
  <2>2. \/ call'[c].pc \in {"idle", "analyse"}
        \/ /\ call'[c].token = call[c].token
           /\ call[c].pc \in {"get", "select", "write", "resume"}
    BY <1>0, <1>2
    DEF Proceed, StoreAnswers, DeploymentRaises, RecordRaises, PoolRaises,
        UpsertSelect, UpsertCommits, UpsertRaises, AnalysisEnds, Gathered, Goto,
        Ends, At, CallState, Idle
  <2>3. \A d \in Call : call[d].pc \in PC
    BY <1>0 DEF CallState
  <2> QED
    BY <1>0, <2>1, <2>2, <2>3, FewerUnderWay DEF PC
<1>3. CASE Restart
  <2>1. \A t \in Token : Len(pools'[t]) = 0
    BY <1>3 DEF Restart, NothingInMemory
  <2> QED
    BY <2>1, UnderWayFinite DEF RecordsAndTasks
<1> QED
  BY <1>0, <1>1, <1>2, <1>3, RememberRecords, ProcessEventRecords
  DEF Next, DbGoesDown, DbComesBack, managerVars, vars

----------------------------------------------------------------------------
\* The inductive invariant holds throughout, for any number of tasks, tokens,
\* outages and restarts.
THEOREM Invariant == Spec => []IInv
  BY InitInv, StepInv, PTL DEF Spec

\* Discovery keeps its variables in their types.
THEOREM TypeCorrect == Spec => []TypeOK
<1>1. IInv => TypeOK
  BY DEF IInv
<1> QED
  BY <1>1, Invariant, PTL

\* The three tables of TokenDiscoveryManager always belong together, whatever
\* overlaps, fails or is refused (manager.py:62-132).
THEOREM ManagerTablesAgree == Spec => []TablesAgree
<1>1. IInv => TablesAgree
  BY DEF IInv
<1> QED
  BY <1>1, Invariant, PTL

\* Without an outage every known token is in the store, whatever inserts of
\* overlapping discoveries collide.
THEOREM StoredWithoutOutage == Spec => []KnownIsStored
<1>1. IInv => KnownIsStored
  BY DEF IInv
<1> QED
  BY <1>1, Invariant, PTL

\* A token has at most as many pool records as there are tasks, however many
\* discoveries of it overlap (manager.py:60-132).
THEOREM OverlapBounded == Spec => []DiscoveriesOverlap
<1>1. IInv /\ RecordsAndTasks => DiscoveriesOverlap
  <2> SUFFICES ASSUME IInv, RecordsAndTasks, NEW t \in Token
               PROVE  Len(pools[t]) <= Cardinality(Call)
    BY DEF DiscoveriesOverlap
  <2>1. Len(pools[t]) \in Nat
    BY PoolsLen DEF IInv
  <2>2. Len(pools[t]) + Cardinality(UnderWay(t)) <= Cardinality(Call)
    BY DEF RecordsAndTasks
  <2> QED
    BY <2>1, <2>2, UnderWayFinite
<1>2. Init => IInv /\ RecordsAndTasks
  BY InitInv, RecordsInit
<1>3. IInv /\ RecordsAndTasks /\ [Next]_vars => (IInv /\ RecordsAndTasks)'
  BY StepInv, RecordsStep
<1> QED
  BY <1>1, <1>2, <1>3, PTL DEF Spec
=============================================================================
