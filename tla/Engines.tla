-------------------------------- MODULE Engines --------------------------------
(***************************************************************************)
(* The engines that work on their own state without an await, side by      *)
(* side: none of them reads another one's state, so that a behaviour of    *)
(* one, with the others at rest, is every behaviour they have.  Market is  *)
(* called by the workflows; the other three are libraries that, within the *)
(* repository, only the tests call, in any order.                          *)
(***************************************************************************)
EXTENDS Holders, CrossChain, Market, Security

VARIABLE subject   \* the engine of this behaviour

engineVars ==
  <<subject, holderVars, crossVars, marketVars, securityVars>>

EnginesInit ==
  /\ subject \in {"holders", "crosschain", "market", "security"}
  /\ HoldersInit /\ CrossInit /\ MarketInit /\ SecurityInit

EnginesNext ==
  /\ UNCHANGED subject
  /\ \/ /\ subject = "holders" /\ HoldersNext
        /\ UNCHANGED <<crossVars, marketVars, securityVars>>
     \/ /\ subject = "crosschain" /\ CrossNext
        /\ UNCHANGED <<holderVars, marketVars, securityVars>>
     \/ /\ subject = "market" /\ MarketNext
        /\ UNCHANGED <<holderVars, crossVars, securityVars>>
     \/ /\ subject = "security" /\ SecurityNext
        /\ UNCHANGED <<holderVars, crossVars, marketVars>>

EnginesSpec == EnginesInit /\ [][EnginesNext]_engineVars

\* The types of the variables.
EnginesTypeOK == HoldersTypeOK /\ CrossTypeOK /\ MarketTypeOK
=============================================================================
