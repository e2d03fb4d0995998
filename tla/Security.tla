------------------------------- MODULE Security -------------------------------
(***************************************************************************)
(* The security assessment of one token                                    *)
(* (src/security/section_seven_security.py): contract scan, ownership,     *)
(* honeypot simulation and rug detection, each reading what the ones       *)
(* before it found.  An assessment is one call without an await.  Scores   *)
(* are in hundredths of a point: the weights of the code are exact there.  *)
(***************************************************************************)
EXTENDS Integers, FiniteSetsExt

CONSTANTS
  Codes,          \* inputs of the scan: see Permissions and ProxyInfo
  Owners,         \* inputs of the ownership analysis: see Fake
  Simulations,    \* inputs of the honeypot engine: see CanSell
  Circumstances   \* inputs of the rug detector: see Weighted

Permission ==
  {"mint", "freeze", "blacklist", "alter_fees", "modify_balances",
   "upgrade_logic", "restrict_trading", "pause_trading", "withdraw_funds"}
Threat == {"lp_removed", "admin_changed", "dev_sold", "distribution"}
Habit == {"mixer", "fresh_funding", "sends_to_cex"}
Fault ==
  {"cannot_sell", "exceeds_max_tx", "fresh_wallet_high_tax", "dynamic_tax",
   "failure"}
Bypass == {"role", "modifier", "has_bypassed_renouncement"}
Persona == {"STANDARD_EOA", "FRESH_WALLET", "WHALE_WALLET", "CONTRACT"}

ASSUME SecurityAssumption ==
  /\ Codes \subseteq
       [named : SUBSET Permission, claimed : SUBSET Permission,
        hints : SUBSET STRING, source : STRING,
        slot : STRING, slotAdmin : STRING, admin : STRING]
  /\ Owners \subseteq
       [renounced : BOOLEAN, governance : STRING, bypasses : SUBSET Bypass]
  /\ Simulations \subseteq
       [faults : SUBSET Fault, buyTax : Int, sellTax : Int,
        seenBuy : Int, seenSell : Int]
  /\ Circumstances \subseteq
       [threats : SUBSET Threat, habits : SUBSET Habit,
        lp : [known : BOOLEAN, locked : BOOLEAN, percent : Nat, days : Nat],
        holders : [known : BOOLEAN, top10 : Nat, dev : Nat]]

VARIABLES
  assessed,   \* the inputs of the last assessment
  verdict     \* what it answered

securityVars == <<assessed, verdict>>

NotAssessed == [safe |-> FALSE]

----------------------------------------------------------------------------
\* _analyze_permissions: what a selector, a name or the metadata says.
Permissions(code) ==
  code.named \cup code.claimed
    \cup (IF "is_proxy" \in code.hints THEN {"upgrade_logic"} ELSE {})

\* _analyze_proxy_relationships: a storage slot, else the source, else the
\* metadata; source without a hint hides what the metadata says.
IsProxy(code) ==
  \/ code.slot # "none"
  \/ code.slot = "none" /\ code.source = "proxy"
  \/ code.slot = "none" /\ code.source = "none" /\ code.hints # {}

\* The administrator: from its slot with an implementation slot of EIP-1967;
\* the ownership analysis falls back to the metadata.
Admin(code) ==
  IF code.slot = "EIP-1967" /\ code.slotAdmin # "none" THEN code.slotAdmin
  ELSE code.admin

\* _detect_fake_renouncement: control that outlives the owner.
Fake(code, o) ==
  /\ o.renounced
  /\ \/ IsProxy(code) /\ Admin(code) = "live"
     \/ o.bypasses # {}
     \/ Permissions(code) \cap
          {"mint", "alter_fees", "modify_balances", "freeze"} # {}

\* _classify_governance: behind a live owner whatever the metadata says, be it
\* RENOUNCED, else what its address looks like.
Governance(code, o) ==
  CASE Fake(code, o) -> "FAKE_RENOUNCED_BYPASSED"
    [] o.renounced /\ ~Fake(code, o) -> "RENOUNCED"
    [] ~o.renounced -> o.governance

\* _analyze_upgradeability_risk
UpgradeRisk(code, o) ==
  LET g == Governance(code, o) IN
  CASE ~IsProxy(code) \/ g = "RENOUNCED" -> "NONE"
    [] IsProxy(code) /\ g \in {"EOA", "FAKE_RENOUNCED_BYPASSED"} -> "CRITICAL"
    [] IsProxy(code) /\ g = "MULTISIG_GNOSIS" -> "MEDIUM"
    [] IsProxy(code) /\ g = "TIMELOCK_CONTROLLER" -> "LOW"
    [] OTHER -> "HIGH"

----------------------------------------------------------------------------
\* _run_wallet_simulation, one persona; whether it can buy is not read.
CanSell(w, s) ==
  "cannot_sell" \notin s.faults
    /\ ~(w = "WHALE_WALLET" /\ "exceeds_max_tx" \in s.faults)
SellTax(w, s) ==
  IF w = "FRESH_WALLET" /\ "fresh_wallet_high_tax" \in s.faults THEN 99
  ELSE s.sellTax

Failed(s) == "failure" \in s.faults

Honeypot(s) ==
  Failed(s) \/ \E w \in Persona : ~CanSell(w, s) \/ SellTax(w, s) >= 50

\* Observed averages, -1 without any, against the simulation.
Discrepancy(s) ==
  \/ s.seenBuy >= 0 /\ s.buyTax - s.seenBuy \notin -10..10
  \/ s.seenSell >= 0 /\ s.sellTax - s.seenSell \notin -10..10

HoneypotRisk(s) ==
  CASE Failed(s) -> 95
    [] ~Failed(s) /\ Honeypot(s) -> 99
    [] ~Honeypot(s) /\ "dynamic_tax" \in s.faults -> 75
    [] ~Honeypot(s) /\ "dynamic_tax" \notin s.faults /\ Discrepancy(s) -> 60
    [] OTHER -> IF s.sellTax > 10 THEN 40 ELSE Min({5, s.sellTax})

----------------------------------------------------------------------------
PermissionWeight ==
  [mint |-> 35, modify_balances |-> 40, restrain |-> 20, alter_fees |-> 15,
   upgrade_logic |-> 20]

\* Blacklisting and freezing count once.
PermissionsRisk(p) ==
  LET q == p \cup (IF {"blacklist", "freeze"} \cap p = {} THEN {}
                   ELSE {"restrain"}) IN
  Min({100, MapThenSumSet(LAMBDA x : PermissionWeight[x],
                          q \cap DOMAIN PermissionWeight)})

OwnershipRisk(g) ==
  CASE g = "FAKE_RENOUNCED_BYPASSED" -> 90
    [] g = "EOA" -> 50
    [] g = "MULTISIG_GNOSIS" -> 20
    [] g = "TIMELOCK_CONTROLLER" -> 10
    [] g = "RENOUNCED" -> 0
    [] OTHER -> 30

\* A lock without an end, or one that has just ended, has 0 days left.
LpRisk(lp) ==
  CASE ~lp.known -> 50
    [] lp.known /\ ~lp.locked -> 95
    [] lp.known /\ lp.locked /\ lp.percent < 50 -> 70
    [] OTHER -> IF lp.days \in 1..2 THEN 85 ELSE Max({0, 100 - lp.percent})

ConcentrationRisk(c) ==
  IF ~c.known THEN 20
  ELSE (IF c.top10 > 70 THEN 50 ELSE IF c.top10 > 40 THEN 25 ELSE 0)
       + (IF c.dev > 20 THEN 45 ELSE IF c.dev > 5 THEN 20 ELSE 0)

HabitWeight == [mixer |-> 40, fresh_funding |-> 15, sends_to_cex |-> 30]

HabitRisk(habits) == MapThenSumSet(LAMBDA h : HabitWeight[h], habits)

Weighted(x) ==
  20 * PermissionsRisk(Permissions(x.code))
  + 15 * OwnershipRisk(Governance(x.code, x.owner))
  + 25 * HoneypotRisk(x.sim)
  + 20 * LpRisk(x.seen.lp)
  + 10 * ConcentrationRisk(x.seen.holders)
  + 10 * HabitRisk(x.seen.habits)

\* Mutant: a failed simulation is no honeypot, and does not block either.
Blocks_SimulationFailureIgnored(x) ==
  \/ x.seen.threats # {}
  \/ ~Failed(x.sim) /\ Honeypot(x.sim)
  \/ Fake(x.code, x.owner)
  \/ Weighted(x) > 6000 /\ x.seen.lp.known /\ ~x.seen.lp.locked
       /\ x.seen.lp.percent < 20

\* The signals that block whatever the weights say.
Blocks(x) ==
  \/ x.seen.threats # {}
  \/ Honeypot(x.sim)
  \/ Fake(x.code, x.owner)
  \/ Weighted(x) > 6000 /\ x.seen.lp.known /\ ~x.seen.lp.locked
       /\ x.seen.lp.percent < 20

Score(x) ==
  IF Blocks(x) THEN Max({9500, Weighted(x)}) ELSE Min({10000, Weighted(x)})

Level(x) ==
  CASE Blocks(x) \/ Score(x) >= 7500 -> "CRITICAL"
    [] ~Blocks(x) /\ Score(x) \in 5000..7499 -> "HIGH"
    [] ~Blocks(x) /\ Score(x) \in 2500..4999 -> "MEDIUM"
    [] OTHER -> "LOW"

\* run_comprehensive_security_assessment
Verdict(x) ==
  LET blocked == Blocks(x) \/ Score(x) >= 7500 IN
  [blocked |-> blocked, score |-> Score(x), level |-> Level(x),
   upgrade |-> UpgradeRisk(x.code, x.owner),
   safe |-> ~blocked /\ Score(x) < 5000 /\ ~Honeypot(x.sim)]

SecurityInit == assessed = {} /\ verdict = NotAssessed

\* The engines keep nothing: one assessment a behaviour is every assessment.
Assess ==
  /\ assessed = {}
  /\ \E code \in Codes, o \in Owners, s \in Simulations, c \in Circumstances :
       LET x == [code |-> code, owner |-> o, sim |-> s, seen |-> c] IN
       assessed' = {x} /\ verdict' = Verdict(x)

SecurityNext == Assess

----------------------------------------------------------------------------
\* The same token with one more bad finding.
Worse(x) ==
  {[x EXCEPT !.code.named = @ \cup {p}] : p \in Permission}
  \cup {[x EXCEPT !.owner.bypasses = @ \cup {"role"}]}
  \cup {[x EXCEPT !.sim.faults = @ \cup {f}] : f \in Fault}
  \cup {[x EXCEPT !.seen.threats = @ \cup {t}] : t \in Threat}
  \cup {[x EXCEPT !.seen.habits = @ \cup {h}] : h \in Habit}
  \cup {[x EXCEPT !.seen.lp.locked = FALSE]}

\* One more bad finding never turns a verdict to the better: a token that is
\* not safe does not become safe, one that is blocked stays blocked, and the
\* score does not fall (but where a simulation that now fails hides what it
\* found); and behind a renounced owner nobody upgrades a token called safe.
\* What the metadata says of a live owner is believed: it is not a finding.
WorseIsNotSafer ==
  \A x \in assessed :
    /\ \A y \in Worse(x) :
         LET w == Verdict(y) IN
         /\ ~verdict.safe => ~w.safe
         /\ verdict.blocked => w.blocked
         /\ Failed(y.sim) = Failed(x.sim) => w.score >= verdict.score
    /\ verdict.safe /\ verdict.upgrade = "CRITICAL" => ~x.owner.renounced
=============================================================================
