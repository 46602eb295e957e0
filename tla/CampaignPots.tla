---------------------------- MODULE CampaignPots ----------------------------
(***************************************************************************)
(* What the reward vault promises, without fees, keys, books or tokens:    *)
(* for each campaign and asset a pot of tokens, of which `lost` can no     *)
(* longer be reached.  Funding a campaign anew loses what its pots held, a *)
(* payment or refund only takes what is not lost, a refund takes all of    *)
(* it, and every (campaign, earner, action) is paid at most once.  A       *)
(* campaign funded on broken terms is void: nothing is promised of its     *)
(* pots, and the others keep theirs.                                       *)
(***************************************************************************)
EXTENDS Integers

CONSTANTS Campaigns, Assets, Earners, ActionHashes

VARIABLES pot, lost, paid, void

pvars == <<pot, lost, paid, void>>

Actions == Campaigns \X Earners \X ActionHashes

Init ==
    /\ pot = [c \in Campaigns |-> [a \in Assets |-> 0]]
    /\ lost = [c \in Campaigns |-> [a \in Assets |-> 0]]
    /\ paid = {}
    /\ void = {}

(* Only the pot of campaign c in asset a moves. *)
Moves(c, a) == pot' = [pot EXCEPT ![c][a] = pot'[c][a]]

Fund(c, a) ==
    /\ Moves(c, a)
    /\ pot'[c][a] >= pot[c][a]
    /\ lost' = [lost EXCEPT ![c] = pot[c]]
    /\ UNCHANGED <<paid, void>>

Refund(c, a) ==
    /\ Moves(c, a)
    /\ lost[c][a] <= pot[c][a]
    /\ pot'[c][a] = lost[c][a]
    /\ UNCHANGED <<lost, paid, void>>

(* A payment comes out of the action's own campaign and is final. *)
Pay(n, a) ==
    /\ n \notin paid
    /\ Moves(n[1], a)
    /\ lost[n[1]][a] <= pot'[n[1]][a]
    /\ pot'[n[1]][a] <= pot[n[1]][a]
    /\ paid' = paid \cup {n}
    /\ UNCHANGED <<lost, void>>

(* Whatever happens to a void campaign leaves the other pots alone, and an *)
(* action is still paid at most once.                                      *)
MoveVoid(c) ==
    /\ void' = void \cup {c}
    /\ \A d \in Campaigns \ {c} : pot'[d] = pot[d] /\ lost'[d] = lost[d]
    /\ \/ UNCHANGED paid
       \/ \E n \in Actions \ paid : n[1] = c /\ paid' = paid \cup {n}

Next ==
    \/ \E c \in Campaigns, a \in Assets : Fund(c, a) \/ Refund(c, a)
    \/ \E n \in Actions, a \in Assets : Pay(n, a)
    \/ \E c \in Campaigns : MoveVoid(c)

Spec == Init /\ [][Next]_pvars
=============================================================================
