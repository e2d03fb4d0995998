------------------------------ MODULE CrossChain ------------------------------
(***************************************************************************)
(* CrossChainTracker (src/crosschain/tracker.py): groups of tokens that    *)
(* represent one asset on several chains.  A token stands for its chain    *)
(* and address, a group for its canonical symbol: create_or_get_group      *)
(* keeps one group per symbol.  Volume is aggregated like liquidity, and   *)
(* the log of the bridges is written only; neither is repeated here.       *)
(***************************************************************************)
EXTENDS Integers, FiniteSetsExt, TLC, Maps

CONSTANTS
  Asset,         \* canonical symbols, without "CROSS_ASSET"
  Deployment,    \* tokens: pairs of a chain and an address
  Figures,       \* inputs: pairs of liquidity and holder count
  MaxLinks       \* bound on the calls

Group == Asset \cup {"CROSS_ASSET"}

ASSUME CrossChainAssumption ==
  /\ "CROSS_ASSET" \notin Asset
  /\ Figures \subseteq Nat \X Nat
  /\ MaxLinks \in Nat

VARIABLES
  reps,     \* [group -> [token -> representation]], groups as created
  totals,   \* total_aggregated_liquidity_usd, total_deduplicated_holders
  groupOf,  \* token_to_group_map
  moves,    \* how often a map entry went to another group (history)
  links     \* calls so far

crossVars == <<reps, totals, groupOf, moves, links>>

CrossInit ==
  /\ reps = <<>> /\ totals = <<>> /\ groupOf = <<>>
  /\ moves = [d \in Deployment |-> 0]
  /\ links = 0

----------------------------------------------------------------------------
\* create_or_get_group.
Created(r, g) == IF g \in DOMAIN r THEN r ELSE Put(r, g, <<>>)

\* Mutant: an existing representation takes is_canonical from the call.
Linked_Canonical(old, canonical, wrapped, f) ==
  [canonical |-> canonical, wrapped |-> wrapped, liquidity |-> f[1],
   holders |-> f[2]]

\* The representation after a link: everything of an existing one is
\* overwritten, but what it was linked as at first.
Linked(old, canonical, wrapped, f) ==
  [canonical |-> IF old = <<>> THEN canonical ELSE old.canonical,
   wrapped |-> wrapped, liquidity |-> f[1], holders |-> f[2]]

Representation(r, g, d) == IF d \in DOMAIN r[g] THEN r[g][d] ELSE <<>>

\* link_token_to_group in the representations.
WithLink(r, g, d, canonical, wrapped, f) ==
  [r EXCEPT ![g] =
     Put(@, d, Linked(Representation(r, g, d), canonical, wrapped, f))]

\* Mutant: the key forgets the chain.
Mapped_Address(map, g, d) ==
  [x \in {y \in Deployment : y[2] = d[2]} |-> g] @@ map

Mapped(map, g, d) == Put(map, d, g)

Moved(map, g, d) == IF d \in DOMAIN map /\ map[d] # g THEN 1 ELSE 0

\* Wrapped tokens are left out as soon as the group has a canonical one.
Counted(r) ==
  LET canonical == {d \in DOMAIN r : r[d].canonical} IN
  {d \in DOMAIN r : canonical = {} \/ ~r[d].wrapped \/ r[d].canonical}

Liquidity(r, S) == MapThenSumSet(LAMBDA d : r[d].liquidity, S)

\* Mutant: nothing is left out.
Aggregated_All(r) ==
  [liquidity |-> Liquidity(r, DOMAIN r),
   holders |-> Max({0} \cup {r[d].holders : d \in DOMAIN r})]

\* _recalculate_group_metrics.
Aggregated(r) ==
  [liquidity |-> Liquidity(r, Counted(r)),
   holders |-> Max({0} \cup {r[d].holders : d \in Counted(r)})]

Recalculated(r, g) == Put(totals, g, Aggregated(r[g]))

CreateGroup(g) ==
  /\ g \notin DOMAIN reps
  /\ reps' = Created(reps, g)
  /\ totals' = Put(totals, g, [liquidity |-> 0, holders |-> 0])
  /\ UNCHANGED <<groupOf, moves, links>>

\* link_token_to_group of a group that exists.
LinkToken(g, d, canonical, wrapped, f) ==
  LET r == WithLink(reps, g, d, canonical, wrapped, f) IN
  /\ g \in DOMAIN reps /\ links < MaxLinks
  /\ reps' = r
  /\ totals' = Recalculated(r, g)
  /\ groupOf' = Mapped(groupOf, g, d)
  /\ moves' = [moves EXCEPT ![d] = @ + Moved(groupOf, g, d)]
  /\ links' = links + 1

\* record_bridge_event: a source nobody linked goes to "CROSS_ASSET" first;
\* the target joins the source's group, with no figures, whatever its own.
RecordBridge(source, target) ==
  LET known == source \in DOMAIN groupOf
      g == IF known THEN groupOf[source] ELSE "CROSS_ASSET"
      none == <<0, 0>>
      r0 == IF known THEN reps
            ELSE WithLink(Created(reps, g), g, source, FALSE, FALSE, none)
      map == IF known THEN groupOf ELSE Mapped(groupOf, g, source)
      r == WithLink(r0, g, target, FALSE, TRUE, none) IN
  /\ links < MaxLinks
  /\ reps' = r
  /\ totals' = Recalculated(r, g)
  /\ groupOf' = Mapped(map, g, target)
  /\ moves' = [moves EXCEPT ![target] = @ + Moved(map, g, target)]
  /\ links' = links + 1

CrossNext ==
  \/ \E g \in Group : CreateGroup(g)
  \/ \E g \in Group, d \in Deployment, c, w \in BOOLEAN, f \in Figures :
       LinkToken(g, d, c, w, f)
  \/ \E source, target \in Deployment : RecordBridge(source, target)

----------------------------------------------------------------------------
\* The types of the variables.
CrossTypeOK ==
  /\ DOMAIN reps \subseteq Group /\ DOMAIN totals = DOMAIN reps
  /\ \A g \in DOMAIN reps :
       /\ DOMAIN reps[g] \subseteq Deployment
       /\ \A d \in DOMAIN reps[g] :
            reps[g][d] \in [canonical : BOOLEAN, wrapped : BOOLEAN,
                            liquidity : Nat, holders : Nat]
  /\ DOMAIN groupOf \subseteq Deployment
  /\ \A d \in DOMAIN groupOf : groupOf[d] \in DOMAIN reps
  /\ moves \in [Deployment -> 0..MaxLinks] /\ links \in 0..MaxLinks

GroupsWith(d) == {g \in DOMAIN reps : d \in DOMAIN reps[g]}

\* The group a token is found by represents it; a token is represented in
\* more than one group, and counted in both, only by as many as its entry of
\* the map was moved, by a bridge or a second link.
MappedIsRepresented ==
  \A d \in Deployment :
    /\ GroupsWith(d) # {} <=> d \in DOMAIN groupOf
    /\ d \in DOMAIN groupOf => groupOf[d] \in GroupsWith(d)
    /\ Cardinality(GroupsWith(d)) <= 1 + moves[d]

\* As soon as a group has a canonical representation, its figures come from
\* tokens that are not wrapped and from canonical ones alone, and no bridge
\* or later link takes that back: what was canonical stays so.
WrappedNotCounted ==
  [][\A g \in DOMAIN reps :
       (\E d \in DOMAIN reps[g] : reps[g][d].canonical)
         => LET primary == {d \in DOMAIN reps'[g] :
                              reps'[g][d].canonical \/ ~reps'[g][d].wrapped}
            IN  totals'[g].liquidity = Liquidity(reps'[g], primary)]_crossVars
=============================================================================
