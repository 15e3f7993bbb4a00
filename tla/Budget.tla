------------------------------- MODULE Budget -------------------------------
(***************************************************************************)
(* What the engine promises about money, whoever asks, approves, crashes   *)
(* or edits the policy meanwhile: a daily budget per agent.  An item is    *)
(* admitted only while everything admitted for its agent and its day, and  *)
(* not given back, leaves room for it under a cap; from then on it holds   *)
(* its amount, until it is either spent or given back, once and for all,   *)
(* or comes into dispute, and then nothing more is promised about it.      *)
(***************************************************************************)
EXTENDS Naturals, FiniteSets

CONSTANT Agents

VARIABLE items         \* id -> an amount that was admitted

Item == [agent : Agents, amount : Nat, day : Nat, cap : Nat,
         state : {"held", "spent", "returned", "disputed"}]

\* What counts against the budget of an agent's day.
Against(agent, day) ==
    {i \in DOMAIN items : /\ items[i].agent = agent /\ items[i].day = day
                          /\ items[i].state \in {"held", "spent"}}

Units(ids) == UNION {{i} \X (1 .. items[i].amount) : i \in ids}

\* A new item, that its cap has room for.
Admit(i) ==
    LET item == items'[i] IN
    /\ i \notin DOMAIN items /\ item \in Item /\ item.state = "held"
    /\ Cardinality(Units(Against(item.agent, item.day))) + item.amount <= item.cap
    /\ items' = [j \in DOMAIN items \cup {i} |-> IF j = i THEN item ELSE items[j]]

\* Some of what is held is spent, or given back, or disputed.
Resolve(ids, state) ==
    /\ \A i \in ids : items[i].state = "held"
    /\ items' = [j \in DOMAIN items |->
                   IF j \in ids THEN [items[j] EXCEPT !.state = state] ELSE items[j]]

\* The operator clears the table.
Wipe == items' = [i \in {} |-> 0]

Init == items = [i \in {} |-> 0]

Next ==
    \/ \E i \in DOMAIN items' : Admit(i)
    \/ \E i \in DOMAIN items : Resolve({i}, "spent") \/ Resolve({i}, "disputed")
    \/ \E ids \in SUBSET DOMAIN items : Resolve(ids, "returned")
    \/ Wipe

Spec == Init /\ [][Next]_items
=============================================================================
