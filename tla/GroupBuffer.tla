---------------------------- MODULE GroupBuffer ----------------------------
(***************************************************************************)
(* What the tail-sampling buffer promises: the points of a group are       *)
(* collected in the order in which they are accepted; a group that has     *)
(* been silent is closed as a whole; a closed group is decided once, and   *)
(* what is sent on is all of its points or nothing.  Points that arrive    *)
(* after the closing start a new group.                                    *)
(***************************************************************************)
EXTENDS Sequences

CONSTANTS
    Groups,
    Batches       \* the sequences of points one packet may bring

VARIABLES
    collecting,   \* group -> points collected since it was last closed
    closed,       \* set of [key, points]: groups that wait for a decision
    decided       \* set of [key, points, sent]

gbVars == <<collecting, closed, decided>>

GBInit ==
    /\ collecting = [g \in Groups |-> <<>>]
    /\ closed = {} /\ decided = {}

Collect(g, batch) ==
    /\ collecting' = [collecting EXCEPT ![g] = @ \o batch]
    /\ UNCHANGED <<closed, decided>>

\* Some groups are closed together.
CloseGroups(S) ==
    /\ collecting' = [g \in Groups |-> IF g \in S THEN <<>> ELSE collecting[g]]
    /\ closed' = closed \cup {[key |-> g, points |-> collecting[g]] : g \in S}
    /\ UNCHANGED decided

Decide(e, sent) ==
    /\ e \in closed
    /\ closed' = closed \ {e}
    /\ decided' = decided \cup {[key |-> e.key, points |-> e.points, sent |-> sent]}
    /\ UNCHANGED collecting

GBNext ==
    \/ \E g \in Groups : \E b \in Batches : Collect(g, b)
    \/ \E S \in SUBSET {g \in Groups : collecting[g] # <<>>} : CloseGroups(S)
    \/ \E e \in closed : \E sent \in {<<>>, e.points} : Decide(e, sent)

GBSpec == GBInit /\ [][GBNext]_gbVars

=============================================================================
