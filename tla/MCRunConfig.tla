---------------------------- MODULE MCRunConfig ----------------------------
(* Model-checking instance of RunConfig: a request names up to two fields, *)
(* a file and the environment one.                                         *)
EXTENDS RunConfig, FiniteSets

Empty == [f \in {} |-> Zero]

Partial(fields, values, n) ==
  {Empty} \cup UNION {[s -> values] : s \in {s \in SUBSET fields : Cardinality(s) \in 1 .. n}}

MCFiles     == Partial({"duration", "interval", "txn_timeout_ms", "address"}, {Zero, Off, Bad}, 1)
MCOverrides == Partial({Enabled["transactions_eos"], Numbers["produce_round_trip"]}, {Zero, "new"}, 1)

(* A switch is not bad, and only a duration has an off.                    *)
Sensible(given) ==
  \A f \in DOMAIN given :
    /\ given[f] = Off => f \in Durations
    /\ given[f] = Bad => f \notin {"mode", "idempotent"} \cup {Enabled[w] : w \in Workers}
MCBodies ==
  {b \in Partial(Overlaid, {Zero, Off, Bad, Mistyped, "new"}, 2) : Sensible(b)}
MCGood      == {"default", "new"}
=============================================================================
