--------------------------- MODULE WorkspaceHistory ---------------------------
(***************************************************************************)
(* What the publication machinery promises for one workspace, with no      *)
(* leases, claims, workers or crashes in sight.  Accepted content is a     *)
(* single chain that only ever grows at its head; every run is decided at  *)
(* most once; a run that publishes does so on top of exactly the revision  *)
(* it pinned when it was opened.                                           *)
(*                                                                         *)
(* Publication.tla is shown to implement this specification.               *)
(***************************************************************************)
CONSTANTS Runs,  \* run identities; a run names the revision it publishes
          Root   \* the initial revision of the workspace

VARIABLES chain,    \* the set of <<child, parent>> links of accepted history
          head,     \* the current accepted revision
          pinned,   \* run -> the revision it was opened on
          outcome   \* run -> how far it got

historyVars == <<chain, head, pinned, outcome>>

Outcomes == {"unopened", "open", "published", "unchanged", "rejected"}

HistoryInit ==
    /\ chain = {}
    /\ head = Root
    /\ pinned = [r \in Runs |-> Root]
    /\ outcome = [r \in Runs |-> "unopened"]

\* A run pins the revision that is current when it is opened.
Open(r) ==
    /\ outcome[r] = "unopened"
    /\ outcome' = [outcome EXCEPT ![r] = "open"]
    /\ pinned' = [pinned EXCEPT ![r] = head]
    /\ UNCHANGED <<chain, head>>

\* Compare-and-swap of the head: only a run whose base is still current wins.
Publish(r) ==
    /\ outcome[r] = "open"
    /\ pinned[r] = head
    /\ head' = r
    /\ chain' = chain \cup {<<r, pinned[r]>>}
    /\ outcome' = [outcome EXCEPT ![r] = "published"]
    /\ UNCHANGED pinned

\* Read-only completion, or a snapshot equal to its base.
Conclude(r) ==
    /\ outcome[r] = "open"
    /\ outcome' = [outcome EXCEPT ![r] = "unchanged"]
    /\ UNCHANGED <<chain, head, pinned>>

\* Abort, expiry, conflict or terminal failure.
Reject(r) ==
    /\ outcome[r] = "open"
    /\ outcome' = [outcome EXCEPT ![r] = "rejected"]
    /\ UNCHANGED <<chain, head, pinned>>

HistoryNext == \E r \in Runs : Open(r) \/ Publish(r) \/ Conclude(r) \/ Reject(r)

HistorySpec == HistoryInit /\ [][HistoryNext]_historyVars
===============================================================================
