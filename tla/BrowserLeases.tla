---------------------------- MODULE BrowserLeases ----------------------------
(***************************************************************************)
(* The browser account registry and the tab leases of archive runs         *)
(* (crates/jailgun-core/src/browser_registry).  Both are files shared by   *)
(* processes, each rewritten whole under its own file lock, so that every  *)
(* operation here is one step.  An acquisition reads the registry under    *)
(* the lease lock, and the concept daemon claims the profiles under it.    *)
(*                                                                         *)
(* A lease's time to live is the run's maximal runtime and ten minutes, so *)
(* it cannot pass before the run returns the lease: only the records of    *)
(* holders whose process died are ever stale.                              *)
(***************************************************************************)
EXTENDS Naturals, Sequences, FiniteSets, FiniteSetsExt

CONSTANTS
  Accounts,     \* browser accounts
  MaxTabs,      \* max_tabs of each account
  Holders       \* what may hold a lease: runs of any process

ASSUME LeasesAssumption == MaxTabs \in [Accounts -> Nat \ {0}]

VARIABLES
  status,       \* BrowserAccountStatus of each registered account
  claimed,      \* accounts whose profile carries the workflow owner's marker
  leases,       \* the lease records
  dead          \* holders whose process has died

leaseVars == <<status, claimed, leases, dead>>

LeasesInit ==
  /\ status \in [Accounts -> {"absent", "ready"}]
  /\ claimed = {} /\ leases = {} /\ dead = {}

(***************************************************************************)
(* The registry.                                                           *)
(***************************************************************************)
RegisterAccount(a) ==
  /\ status' = [status EXCEPT ![a] = IF @ = "absent" THEN "auth-required" ELSE @]
  /\ UNCHANGED <<claimed, leases, dead>>

\* confirm_identity: the provider's account is the registered one, or the account
\* is degraded, which is saved although the caller gets an error.
VerifyAccount(a, confirmed) ==
  /\ status[a] # "absent"
  /\ status' = [status EXCEPT ![a] = IF confirmed THEN "ready" ELSE "degraded"]
  /\ UNCHANGED <<claimed, leases, dead>>

(***************************************************************************)
(* Leases.                                                                 *)
(***************************************************************************)
\* purge_stale: records whose owner is gone; a process id in use again keeps a
\* record until it expires.
Purged(records) == {records \ gone : gone \in SUBSET {l \in records : l.holder \in dead}}

\* active_loads: the tabs of an account that are on lease.
Leased(records, a) == UNION {{l} \X (1 .. l.tabs) : l \in {r \in records : r.account = a}}
Load(records, a) == Cardinality(Leased(records, a))

Ready == {a \in Accounts : status[a] = "ready"}
Candidates(ids) == IF ids = {} THEN Ready ELSE ids
Capacity(accounts) == MapThenSumSet(LAMBDA a : MaxTabs[a], accounts)

Refused(ids, tabs) ==
  LET candidates == Candidates(ids) IN
  \/ tabs = 0
  \/ candidates = {} \/ ~(candidates \subseteq Ready)
  \/ candidates \cap claimed # {}
  \/ tabs > Capacity(candidates)

\* Variant: what other runs hold is left out.
UsedHere(records, given, a) == Cardinality({i \in DOMAIN given : given[i] = a})

\* What is on lease of an account and what this allocation gives it.
Used(records, given, a) ==
  Load(records, a) + Cardinality({i \in DOMAIN given : given[i] = a})

\* The next tab goes to the account with the smallest share of its tabs in use, and to
\* none when all are full.
NextTab(records, candidates, given) ==
  LET used == [a \in candidates |-> Used(records, given, a)]
      free == {a \in candidates : used[a] < MaxTabs[a]}
      share == [a \in candidates |-> (used[a] * 1000) \div MaxTabs[a]]
  IN IF free = {} THEN given
     ELSE Append(given, CHOOSE a \in free : \A b \in free :
            share[a] < share[b] \/ (share[a] = share[b] /\ used[a] <= used[b]))

\* allocate_tabs: the account of each tab in turn; the sequence is short when the
\* accounts are full.
Allocation(records, candidates, tabs) ==
  LET plan[n \in 0 .. tabs] ==
        IF n = 0 THEN <<>> ELSE NextTab(records, candidates, plan[n - 1])
  IN plan[tabs]

\* One record per account the plan uses.
RecordsOf(h, plan) ==
  {[holder |-> h, account |-> a, tabs |-> Cardinality({i \in DOMAIN plan : plan[i] = a})]
     : a \in {plan[i] : i \in DOMAIN plan}}

\* try_acquire: "leased", "busy" (try again or give up) or "refused".  An error
\* leaves the file, and the stale records in it, as it was.
TryAcquire(h, ids, tabs, outcome) ==
  /\ IF Refused(ids, tabs)
     THEN outcome = "refused" /\ UNCHANGED leases
     ELSE \E records \in Purged(leases) :
            LET plan == Allocation(records, Candidates(ids), tabs) IN
            IF Len(plan) < tabs
            THEN outcome = "busy" /\ UNCHANGED leases
            ELSE outcome = "leased" /\ leases' = records \cup RecordsOf(h, plan)
  /\ UNCHANGED <<status, claimed, dead>>

Holds(h) == \E l \in leases : l.holder = h

\* release, by the holder or as it drops the lease.
ReleaseLease(h) ==
  /\ \E records \in Purged(leases) : leases' = {l \in records : l.holder # h}
  /\ UNCHANGED <<status, claimed, dead>>

\* Variant: the claim trusts the file it read before it took the lock.
ClaimAtOnce ==
  /\ \E accounts \in SUBSET {a \in Accounts : status[a] # "absent"} :
       claimed' = claimed \cup accounts
  /\ UNCHANGED <<status, leases, dead>>

\* claim_workflow_profiles: refused while anything is leased; it may stop halfway.
ClaimProfiles ==
  /\ \E records \in Purged(leases) :
       /\ records = {}
       /\ leases' = records
  /\ \E accounts \in SUBSET {a \in Accounts : status[a] # "absent"} :
       claimed' = claimed \cup accounts
  /\ UNCHANGED <<status, dead>>

HolderDies(h) ==
  /\ h \notin dead
  /\ dead' = dead \cup {h}
  /\ UNCHANGED <<status, claimed, leases>>

(***************************************************************************)
(* Properties                                                              *)
(***************************************************************************)
\* No account has more tabs out on lease than its limit, however acquisitions,
\* returns and deaths of holders interleave.
LeasedWithinLimit == \A a \in Accounts : Load(leases, a) <= MaxTabs[a]

\* A profile the workflow owns is never on lease to an archive run: migrating the
\* accounts is atomic with respect to new reservations.
ClaimedIsNotLeased == \A l \in leases : l.account \notin claimed
=============================================================================
