------------------------------- MODULE MCRules -------------------------------
(* The policy engine over its sessions, and the amounts of the executor's  *)
(* actions, each on its own.                                               *)
EXTENDS PolicySession, LpActions

VARIABLE part  \* which of them runs

(* A healthy market in every price zone, and one thing wrong at a time     *)
(* where the decision can tell.  97 is an equity inside the halt bound and *)
(* 95 is exactly on it.                                                    *)
Healthy(zone) ==
    [equity |-> 100, zone |-> zone, ref |-> "off", gap |-> "near",
     apr |-> "margin", flat |-> FALSE, depth |-> TRUE, gas |-> "fair",
     width |-> "solved", pays |-> TRUE]

Unsafe(h) ==
    {[h EXCEPT !.equity = e] : e \in {95, 97}}
    \cup {[h EXCEPT !.apr = a] : a \in {"under", "floor"}}
    \cup {[h EXCEPT !.flat = TRUE]}
    \cup {[h EXCEPT !.ref = "fresh", !.gap = g] : g \in {"low", "edge", "near", "high"}}
    \cup {[h EXCEPT !.ref = r] : r \in {"aged", "blind"}}

Costly(h) ==
    {[h EXCEPT !.gas = g] : g \in {"unread", "high", "costly"}}
    \cup {[h EXCEPT !.width = w] : w \in {"deferred", "cash"}}
    \cup {[h EXCEPT !.depth = FALSE], [h EXCEPT !.pays = FALSE]}

MCWorlds ==
    {Healthy(z) : z \in Zones}
    \cup UNION {Unsafe(Healthy(z)) : z \in {"in", "above"}}
    \cup UNION {Costly(Healthy(z)) : z \in {"below", "near", "above"}}

(* While the engine runs the executor rests in one state.                  *)
Still ==
    /\ \A c \in Cash : safe.usdc <= c
    /\ \A l \in Loose : safe.src <= l /\ safe.dst <= l
    /\ \A c \in Committed : others.committed <= c
    /\ source.at = "empty" /\ ~others.held /\ ~others.stranger /\ mix.source = 0

RulesInit ==
    /\ Init /\ ActionInit /\ part \in {"engine", "amounts"}
    /\ part = "engine" => Still

RulesNext ==
    /\ UNCHANGED part
    /\ \/ part = "engine" /\ Next /\ UNCHANGED actionVars
       \/ part = "amounts" /\ ActionNext /\ UNCHANGED vars

(* Every part keeps the types of its variables.                            *)
RulesTypeOK == TypeOK /\ ActionTypeOK

RulesSpec == RulesInit /\ [][RulesNext]_<<part, vars, actionVars>>
=============================================================================
