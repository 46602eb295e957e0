-------------------------- MODULE CampaignLifecycle --------------------------
(***************************************************************************)
(* The life of a campaign as an advertiser sees it, without the contracts' *)
(* storage, ledger time or calls: it starts Active before its expiry, may  *)
(* be paused and resumed, and once drained, after its expiry, is over.     *)
(***************************************************************************)
CONSTANT CampaignIds

VARIABLES
    status,  \* per id
    past     \* campaigns whose expiry has been reached

lvars == <<status, past>>

Init == status = [c \in CampaignIds |-> "Absent"] /\ past = {}

Becomes(c, s) == status' = [status EXCEPT ![c] = s] /\ UNCHANGED past

Create(c) == status[c] = "Absent" /\ c \notin past /\ Becomes(c, "Active")
Pause(c)  == status[c] = "Active" /\ Becomes(c, "Paused")
Resume(c) == status[c] = "Paused" /\ Becomes(c, "Active")
Drain(c)  == status[c] \in {"Active", "Paused"} /\ c \in past /\ Becomes(c, "Drained")

(* Expiries are reached, several at once if time jumps. *)
Expire ==
    /\ past \subseteq past'
    /\ \A c \in past' : status[c] # "Absent"
    /\ UNCHANGED status

Next ==
    \/ Expire
    \/ \E c \in CampaignIds : Create(c) \/ Pause(c) \/ Resume(c) \/ Drain(c)

Spec == Init /\ [][Next]_lvars
=============================================================================
