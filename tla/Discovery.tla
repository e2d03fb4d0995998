------------------------------ MODULE Discovery ------------------------------
(***************************************************************************)
(* TokenDiscoveryManager (src/discovery/manager.py) over the operational   *)
(* store.  process_event may run in several tasks at once; it gives way at *)
(* the two calls of the store and while the analysis tasks run.  An event  *)
(* is a number; a token is its composite key "chain:address", which is     *)
(* also its canonical identifier.  LIQUIDITY_ADDED, SWAP_EXECUTED and      *)
(* TRADING_ACTIVATED only log, and have no action here.                    *)
(***************************************************************************)
EXTENDS OperationalStore, Sequences, FiniteSets

CONSTANTS
  Token,        \* composite keys
  Pool,         \* pool addresses
  NoPool,       \* the event names no pool
  Call,         \* tasks that run process_event
  Subscriber,   \* callbacks of register_analysis_subscriber
  MaxEvents,    \* bound on the discovery events
  MaxOutages,   \* bound on the outages of the database
  MaxRestarts   \* bound on the restarts of the process

ASSUME DiscoveryAssumption ==
  /\ Id = Token
  /\ Token # {}
  /\ NoPool \notin Pool
  /\ IsFiniteSet(Call) /\ IsFiniteSet(Subscriber)
  /\ MaxEvents \in Nat /\ MaxOutages \in Nat /\ MaxRestarts \in Nat

VARIABLES
  known,       \* known_tokens: the event a token's record is made of, or 0
  metadata,    \* deployment_metadata: the same for the deployment
  pools,       \* pools: the recorded pools of a token
  call,        \* per task: where process_event stands
  events,      \* discovery events so far
  rejected,    \* ghost: the events whose record was refused
  outages, restarts

managerVars == <<known, metadata, pools>>
boundVars == <<events, outages, restarts>>
vars == <<storeVars, managerVars, call, rejected, boundVars>>

Event == 1..MaxEvents

\* The payload is untyped.  What is wrong with an event: a field that the
\* TokenDeploymentMetadata, the TokenIdentity or the PoolRecord made of it, or
\* a conversion on the way there, does not take.
Flaw == {"none", "deployment", "token", "pool"}

\* "get": awaits get_entity; "select", "write": awaits the statements of
\* upsert_entity; "resume": the store has answered or raised, the task has not
\* run on yet; "analyse": gathers the analysis tasks in left.
PC == {"idle", "get", "select", "write", "resume", "analyse"}

CallState ==
  [pc : PC, token : Token, pool : Pool \cup {NoPool}, event : 0..MaxEvents,
   flaw : Flaw, saw : BOOLEAN, left : SUBSET Subscriber]

Idle == [pc |-> "idle", token |-> CHOOSE t \in Token : TRUE,
         pool |-> NoPool, event |-> 0, flaw |-> "none", saw |-> FALSE,
         left |-> {}]

NothingInMemory ==
  /\ known' = [t \in Token |-> 0]
  /\ metadata' = [t \in Token |-> 0]
  /\ pools' = [t \in Token |-> <<>>]
  /\ call' = [c \in Call |-> Idle]

Init ==
  /\ StoreInit
  /\ known = [t \in Token |-> 0]
  /\ metadata = [t \in Token |-> 0]
  /\ pools = [t \in Token |-> <<>>]
  /\ call = [c \in Call |-> Idle]
  /\ rejected = {}
  /\ events = 0 /\ outages = 0 /\ restarts = 0

At(c, pc) == call[c].pc = pc
Goto(c, pc) == call' = [call EXCEPT ![c].pc = pc]
Ends(c) == call' = [call EXCEPT ![c] = Idle]

----------------------------------------------------------------------------
\* Mutant: there is no check.
AlreadyKnown_Never(t) == FALSE

\* The check of known_tokens: a token that is known is answered from memory,
\* and the pool the event names goes with it.
AlreadyKnown(t) == known[t] # 0

\* A NEW_TOKEN or PAIR_CREATED event of a token that is not known.
ProcessEvent(c, t, p, flaw) ==
  /\ At(c, "idle")
  /\ events < MaxEvents
  /\ ~AlreadyKnown(t)
  /\ flaw = "pool" => p # NoPool
  /\ events' = events + 1
  /\ call' = [call EXCEPT
                 ![c] = [pc |-> "get", token |-> t, pool |-> p,
                         event |-> events + 1, flaw |-> flaw,
                         saw |-> FALSE, left |-> {}]]
  /\ UNCHANGED <<storeVars, managerVars, rejected, outages, restarts>>

\* The isinstance test on the answer of get_entity.
FoundInStore(t) == dbUp /\ GetEntity(t).class = "TokenIdentity"

\* Mutant: the record is not awaited to be stored.
StoreAnswers_NotStored(c) ==
  LET t == call[c].token IN
  /\ At(c, "get")
  /\ metadata' = [metadata EXCEPT ![t] = call[c].event]
  /\ Goto(c, "resume")
  /\ UNCHANGED <<storeVars, known, pools, rejected, boundVars>>

\* get_entity answers or raises.  No row, a row of another class and an error
\* all lead to a fresh record.
StoreAnswers(c) ==
  LET t == call[c].token IN
  /\ At(c, "get")
  /\ IF FoundInStore(t)
     THEN /\ known' = [known EXCEPT ![t] = GetEntity(t).by]
          /\ Ends(c)
          /\ UNCHANGED metadata
     ELSE /\ call[c].flaw \notin {"deployment", "token"}
          /\ metadata' = [metadata EXCEPT ![t] = call[c].event]
          /\ Goto(c, "select")
          /\ UNCHANGED known
  /\ UNCHANGED <<storeVars, pools, rejected, boundVars>>

\* TokenDeploymentMetadata(...) raises: the caller gets the exception and
\* nothing has changed.
DeploymentRaises(c) ==
  /\ At(c, "get")
  /\ ~FoundInStore(call[c].token)
  /\ call[c].flaw = "deployment"
  /\ Ends(c)
  /\ UNCHANGED <<storeVars, managerVars, rejected, boundVars>>

\* TokenIdentity(...) raises when deployment_metadata has its entry already.
RecordRaises(c) ==
  LET t == call[c].token IN
  /\ At(c, "get")
  /\ ~FoundInStore(t)
  /\ call[c].flaw = "token"
  /\ metadata' = [metadata EXCEPT ![t] = call[c].event]
  /\ rejected' = rejected \cup {call[c].event}
  /\ Ends(c)
  /\ UNCHANGED <<storeVars, known, pools, boundVars>>

\* Mutant: an error of the SELECT is not caught.
UpsertSelect_Uncaught(c) ==
  /\ At(c, "select")
  /\ IF dbUp
     THEN call' = [call EXCEPT ![c].pc = "write",
                               ![c].saw = HasRow(call[c].token)]
     ELSE Goto(c, "idle")
  /\ UNCHANGED <<storeVars, managerVars, rejected, boundVars>>

\* The SELECT of upsert_entity.
UpsertSelect(c) ==
  /\ At(c, "select")
  /\ IF dbUp
     THEN call' = [call EXCEPT ![c].pc = "write",
                               ![c].saw = HasRow(call[c].token)]
     ELSE Goto(c, "resume")
  /\ UNCHANGED <<storeVars, managerVars, rejected, boundVars>>

UpsertCommits(c) ==
  /\ At(c, "write")
  /\ Writes(call[c].token, call[c].saw,
            [class |-> "TokenIdentity", by |-> call[c].event])
  /\ Goto(c, "resume")
  /\ UNCHANGED <<managerVars, rejected, boundVars>>

\* Mutant: a conflict on the primary key is not caught.
UpsertRaises_Uncaught(c) ==
  /\ At(c, "write")
  /\ Raises(call[c].token, call[c].saw)
  /\ Goto(c, "idle")
  /\ UNCHANGED <<managerVars, rejected, boundVars>>

UpsertRaises(c) ==
  /\ At(c, "write")
  /\ Raises(call[c].token, call[c].saw)
  /\ Goto(c, "resume")
  /\ UNCHANGED <<managerVars, rejected, boundVars>>

\* The task resumes; an exception of the store is caught and logged.
Remember(c) ==
  LET t == call[c].token
      p == call[c].pool IN
  /\ At(c, "resume")
  /\ call[c].flaw # "pool"
  /\ known' = [known EXCEPT ![t] = call[c].event]
  /\ pools' = [pools EXCEPT ![t] = IF p = NoPool THEN @ ELSE Append(@, p)]
  /\ call' = [call EXCEPT ![c].pc = "analyse", ![c].left = Subscriber]
  /\ UNCHANGED <<storeVars, metadata, rejected, boundVars>>

\* float() or PoolRecord(...) raises: the token is known, without the pool and
\* without an analysis.
PoolRaises(c) ==
  /\ At(c, "resume")
  /\ call[c].flaw = "pool"
  /\ known' = [known EXCEPT ![call[c].token] = call[c].event]
  /\ Ends(c)
  /\ UNCHANGED <<storeVars, metadata, pools, rejected, boundVars>>

\* An analysis task returns or raises; gather keeps the exception.
AnalysisEnds(c, s) ==
  /\ At(c, "analyse")
  /\ s \in call[c].left
  /\ call' = [call EXCEPT ![c].left = @ \ {s}]
  /\ UNCHANGED <<storeVars, managerVars, rejected, boundVars>>

\* gather returns, and process_event with it.
Gathered(c) ==
  /\ At(c, "analyse")
  /\ call[c].left = {}
  /\ Ends(c)
  /\ UNCHANGED <<storeVars, managerVars, rejected, boundVars>>

----------------------------------------------------------------------------
DbGoesDown ==
  /\ outages < MaxOutages
  /\ Outage
  /\ outages' = outages + 1
  /\ UNCHANGED <<managerVars, call, rejected, events, restarts>>

DbComesBack ==
  /\ Recovery
  /\ UNCHANGED <<managerVars, call, rejected, boundVars>>

\* The process dies and starts again: the manager keeps nothing on disk.
Restart ==
  /\ restarts < MaxRestarts
  /\ restarts' = restarts + 1
  /\ NothingInMemory
  /\ UNCHANGED <<storeVars, rejected, events, outages>>

\* What process_event does between the start and the end of a call.
Proceed(c) ==
  \/ StoreAnswers(c) \/ DeploymentRaises(c) \/ RecordRaises(c)
  \/ UpsertSelect(c) \/ UpsertCommits(c) \/ UpsertRaises(c)
  \/ Remember(c) \/ PoolRaises(c)
  \/ (\E s \in Subscriber : AnalysisEnds(c, s))
  \/ Gathered(c)

Next ==
  \/ \E c \in Call, t \in Token, p \in Pool \cup {NoPool}, flaw \in Flaw :
       ProcessEvent(c, t, p, flaw)
  \/ \E c \in Call : Proceed(c)
  \/ DbGoesDown \/ DbComesBack
  \/ Restart

Spec == Init /\ [][Next]_vars

\* The event loop runs every task, the database answers or raises, and an
\* analysis task ends.
FairSpec == Spec /\ \A c \in Call : WF_vars(Proceed(c))

----------------------------------------------------------------------------
Row == [class : {"none", "TokenIdentity"}, by : 0..MaxEvents]

\* The types of the variables.
TypeOK ==
  /\ identities \in [Token -> Row]
  /\ dbUp \in BOOLEAN
  /\ known \in [Token -> 0..MaxEvents]
  /\ metadata \in [Token -> 0..MaxEvents]
  /\ pools \in [Token -> Seq(Pool)]
  /\ call \in [Call -> CallState]
  /\ rejected \subseteq Event
  /\ events \in 0..MaxEvents
  /\ outages \in 0..MaxOutages
  /\ restarts \in 0..MaxRestarts

\* Some task is discovering t and has passed the store's first answer.
Discovering(t) ==
  \E c \in Call : call[c].token = t
                  /\ call[c].pc \in {"select", "write", "resume"}

\* The three tables of the manager belong together, although process_event
\* fills them on both sides of an await and may leave it by an exception: a
\* known token has its deployment metadata; metadata without a record means
\* that a task is on its way to making it, or that the record of this very
\* deployment was refused (manager.py:88-91); pools are kept of known tokens
\* only.
TablesAgree ==
  \A t \in Token :
    /\ known[t] # 0 => metadata[t] # 0
    /\ metadata[t] # 0 =>
         known[t] # 0 \/ Discovering(t) \/ metadata[t] \in rejected
    /\ pools[t] # <<>> => known[t] # 0

\* While the database has always answered, what the manager knows is in the
\* store, even when two tasks insert the same token and one insert fails on
\* the primary key (manager.py swallows that exception).
KnownIsStored ==
  outages = 0 => \A t \in Token : known[t] # 0 => HasRow(t)

\* Only tasks that were all under way before the token was known can discover
\* it more than once (the check and the record are separated by awaits), so a
\* token has at most as many pool records, and rounds of analysis, as there
\* are tasks.
DiscoveriesOverlap ==
  \A t \in Token : Len(pools[t]) <= Cardinality(Call)

\* The database never keeps a token from being discovered: whoever starts to
\* discover t from an event that its record can be made of gets it into
\* known_tokens, or the process restarts (manager.py:67-112).
DiscoverySurvivesOutage ==
  \A c \in Call, t \in Token, r \in 0..MaxRestarts :
    (/\ At(c, "get") /\ call[c].flaw \notin {"deployment", "token"}
     /\ call[c].token = t /\ restarts = r)
      ~> (known[t] # 0 \/ restarts > r)
=============================================================================
