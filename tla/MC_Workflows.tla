---------------------------- MODULE MC_Workflows ----------------------------
(* Model-checking instance of Workflows: a funded buyer, a followed seller  *)
(* who also removes liquidity, times without a zone and a payload that      *)
(* cannot be decoded.                                                       *)
EXTENDS Workflows

MCSymmetry == Permutations(Instance)

Tx(s, r, c, a, n) ==
  [sender |-> s, receiver |-> r, calls |-> c, field |-> "TRANSFER",
   assets |-> a, empty |-> FALSE, value |-> IF a = {} THEN n ELSE 0, usd |-> n,
   says |-> "none", hint |-> "none", marks |-> {}, contract |-> NoOne, at |-> 0,
   naive |-> FALSE, sound |-> TRUE]
Input(w, t, tx, side, p) ==
  [kind |-> "transaction", info |-> TRUE, wallet |-> w, token |-> t, tx |-> tx,
   trade |-> side, price |-> p, smart |-> FALSE]
Funding(w) == Tx("c", w, {}, {}, 2)
Sale == Tx("b", TokenContract, {"SWAP"}, {"token"}, 4)
Removal == Tx("b", "pool", {"LIQUIDITY_REMOVE"}, {"token"}, 1)
MCInputs ==
  {Input("a", TRUE, Funding("a"), "none", 0),
   Input("a", TRUE, [Funding("a") EXCEPT !.naive = TRUE], "none", 0),
   Input("b", FALSE, Funding("b"), "none", 0),
   Input("a", TRUE, Tx("a", "a", {"SWAP"}, {"token", "native"}, 4), "buy", 3),
   Input("b", TRUE, Sale, "sell", 0),
   Input("b", TRUE, [Sale EXCEPT !.naive = TRUE], "sell", 0),
   Input("b", TRUE, Removal, "none", 0),
   Input("b", TRUE, [Removal EXCEPT !.sound = FALSE], "none", 0)}
MCRawScore(pos) == IF pos.sold >= pos.bought THEN 90 ELSE 40
=============================================================================
