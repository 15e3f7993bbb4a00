------------------------------ MODULE Exchange ------------------------------
(***************************************************************************)
(* A paid call, as both its ends have it: SpendEngine, which sends it, and *)
(* ResourceServer, which carries it out.  It is settled or refused, once   *)
(* and for all, whether or not anyone still waits; until it is, there is   *)
(* nothing to learn about it; and what is learnt is the truth, unless the  *)
(* answer has been lost before.                                            *)
(***************************************************************************)
VARIABLE calls         \* the calls sent -> what became of each, and what is known

Sent == [state |-> "open", known |-> "nothing"]

Open == {c \in DOMAIN calls : calls[c].state = "open"}

Send(c) ==
    /\ c \notin DOMAIN calls
    /\ calls' = [d \in DOMAIN calls \cup {c} |-> IF d = c THEN Sent ELSE calls[d]]

\* Several calls end at once when the server dies.
End(paid, refused) ==
    /\ paid \cup refused \subseteq Open /\ paid \cap refused = {}
    /\ calls' = [c \in DOMAIN calls |->
                   CASE c \in paid    -> [calls[c] EXCEPT !.state = "settled"]
                     [] c \in refused -> [calls[c] EXCEPT !.state = "refused"]
                     [] OTHER         -> calls[c]]

Learn(c) ==
    /\ calls[c].known = "nothing" /\ calls[c].state # "open"
    /\ calls' = [calls EXCEPT ![c].known = calls[c].state]

\* Not to be known any more, whatever has become of them: the engine gave up on a
\* call, or it died.
Lose(gone) ==
    /\ \A c \in gone : calls[c].known = "nothing"
    /\ calls' = [c \in DOMAIN calls |->
                   IF c \in gone THEN [calls[c] EXCEPT !.known = "lost"] ELSE calls[c]]

Init == calls = [c \in {} |-> Sent]

Next ==
    \/ \E c \in DOMAIN calls' : Send(c)
    \/ \E paid, refused \in SUBSET DOMAIN calls : End(paid, refused)
    \/ \E c \in DOMAIN calls : Learn(c)
    \/ \E gone \in SUBSET DOMAIN calls : Lose(gone)

Spec == Init /\ [][Next]_calls
=============================================================================
