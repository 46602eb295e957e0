------------------------------ MODULE Registry ------------------------------
(***************************************************************************)
(* The registry contract: profiles and the public index of campaigns.      *)
(* A call that returns Err or traps is rolled back as a whole.             *)
(***************************************************************************)
EXTENDS Integers, Sequences, FiniteSets

CONSTANTS
    Accounts,
    EarnerAccounts,  \* the accounts that may register as earners
    CampaignIds,
    CampaignTypes,
    DirectEntries, \* entries that callers other than the manager push
    MaxIndex,      \* bound on the index's length for such a push
    None

IndexEntry == [campaign_id: CampaignIds, advertiser: Accounts,
               campaign_type: CampaignTypes]

ASSUME RegistryAssumption ==
    /\ DirectEntries \subseteq IndexEntry
    /\ None \notin Nat /\ None \notin Accounts
    /\ EarnerAccounts \subseteq Accounts
    /\ MaxIndex \in Nat

VARIABLES
    total_campaigns,  \* per registered advertiser, None for the others
    earners,          \* registered earners
    index,            \* the campaign list, in order of indexing
    result            \* outcome of the last call

registry == <<total_campaigns, earners, index>>

Registered(a) == total_campaigns[a] # None

RegistryInit ==
    /\ total_campaigns = [a \in Accounts |-> None]
    /\ earners = {}
    /\ index = <<>>
    /\ result = "Ok"

RejectedByRegistry(code) == result' = code /\ UNCHANGED registry

register_advertiser(signers, a) ==
    \/ a \notin signers /\ RejectedByRegistry("Trap")
    \/ /\ a \in signers /\ Registered(a)
       /\ RejectedByRegistry("AdvertiserAlreadyRegistered")
    \/ /\ a \in signers /\ ~Registered(a)
       /\ total_campaigns' = [total_campaigns EXCEPT ![a] = 0]
       /\ result' = "Ok"
       /\ UNCHANGED <<earners, index>>

register_earner(signers, a) ==
    \/ a \notin signers /\ RejectedByRegistry("Trap")
    \/ /\ a \in signers /\ a \in earners
       /\ RejectedByRegistry("EarnerAlreadyRegistered")
    \/ /\ a \in signers /\ a \notin earners
       /\ earners' = earners \cup {a}
       /\ result' = "Ok"
       /\ UNCHANGED <<total_campaigns, index>>

(* Mutant: the counter is the length of the whole list. *)
IndexedGlobally(e) ==
    /\ index' = Append(index, e)
    /\ total_campaigns' = [total_campaigns EXCEPT ![e.advertiser] = Len(index) + 1]
    /\ UNCHANGED earners

(* The entry is pushed without looking for an earlier one. *)
Indexed(e) ==
    /\ index' = Append(index, e)
    /\ total_campaigns' = [total_campaigns EXCEPT ![e.advertiser] = @ + 1]
    /\ UNCHANGED earners

(* Called by the campaign manager, but by any other caller as well: no     *)
(* authorisation is asked for.                                             *)
index_campaign(e) ==
    \/ /\ ~Registered(e.advertiser)
       /\ RejectedByRegistry("AdvertiserNotRegistered")
    \/ /\ Registered(e.advertiser) /\ Len(index) < MaxIndex
       /\ Indexed(e)
       /\ result' = "Ok"

EntriesOf(a) == {i \in DOMAIN index : index[i].advertiser = a}

(* registry lib.rs:133-143.  An advertiser's counter is the number of its  *)
(* entries in the index, whether the manager or anybody else added them,   *)
(* and nobody without a profile has an entry.                              *)
CountersMatchIndex ==
    \A a \in Accounts :
        IF Registered(a) THEN total_campaigns[a] = Cardinality(EntriesOf(a))
                         ELSE EntriesOf(a) = {}
=============================================================================
