------------------------------- MODULE Bundles -------------------------------
(***************************************************************************)
(* A portable bundle of a workspace: the catalog record that selects its   *)
(* contents and the payload files beside it.  Every writer of the payload  *)
(* holds the operating-system lock of the bundle, which a dead process     *)
(* loses; what it wrote stays.                                             *)
(***************************************************************************)
EXTENDS Naturals, Sequences

CONSTANT Payloads    \* complete contents that a caller may export or send

NoPayload == "none"

\* Selected contents are never taken for a bundle without a selection.
ASSUME PayloadAssumption == NoPayload \notin Payloads

VARIABLES bundle,    \* the catalog record
          payload,   \* the files: a content, "partial" or "absent"
          writer     \* the holder of the payload lock

bundleVars == <<bundle, payload, writer>>

BundleRecord == [kind: {"export", "upload"}, state: {"none", "open", "ready"}, header: Payloads \cup {NoPayload}]
WriterRecord == [at: {"idle", "locked", "writing", "written"}, sends: Payloads \cup {NoPayload}]

BundleTypeOK ==
    /\ bundle \in BundleRecord /\ payload \in Payloads \cup {"partial", "absent"} /\ writer \in WriterRecord
    /\ writer.at # "idle" => writer.sends \in Payloads

Unlocked == [at |-> "idle", sends |-> NoPayload]

BundleInit ==
    /\ bundle \in [kind: {"export", "upload"}, state: {"none"}, header: {NoPayload}]
    /\ payload = "absent" /\ writer = Unlocked

\* An export selects the accepted revision in its record; an upload selects nothing yet.
createBundle ==
    /\ bundle.state = "none"
    /\ \E c \in Payloads :
          bundle' = [bundle EXCEPT !.state = "open", !.header = IF bundle.kind = "export" THEN c ELSE NoPayload]
    /\ UNCHANGED <<payload, writer>>

\* Another process that wants the lock waits or is refused.
acquireCompatibilityLock(c) ==
    /\ writer.at = "idle" /\ bundle.state # "none"
    /\ bundle.kind = "export" => c = bundle.header
    /\ writer' = [at |-> "locked", sends |-> c]
    /\ UNCHANGED <<bundle, payload>>

removedAlways == "partial"

\* The first upload selects the contents, for good; old files make way unless they are the ready ones.
removed == IF bundle.state = "ready" THEN payload ELSE "partial"

selectBundleManifest ==
    /\ writer.at = "locked" /\ bundle.header \in {NoPayload, writer.sends}
    /\ bundle' = [bundle EXCEPT !.header = writer.sends]
    /\ payload' = removed
    /\ writer' = [writer EXCEPT !.at = "writing"]

\* Bytes are verified against the selection while they are written; a ready bundle only verifies them.
writeFiles ==
    /\ writer.at = "writing"
    /\ payload' = IF bundle.state = "ready" THEN payload ELSE writer.sends
    /\ writer' = [writer EXCEPT !.at = "written"]
    /\ UNCHANGED bundle

completeBundle ==
    /\ writer.at = "written"
    /\ bundle' = [bundle EXCEPT !.state = "ready"]
    /\ writer' = Unlocked /\ UNCHANGED payload

\* Refused contents, a failed stream, a found secret, lost authority or a dead process: the lock is free again.
interrupted ==
    /\ writer.at # "idle" /\ writer' = Unlocked
    /\ UNCHANGED <<bundle, payload>>

BundleNext ==
    \/ createBundle \/ selectBundleManifest \/ writeFiles \/ completeBundle \/ interrupted
    \/ \E c \in Payloads : acquireCompatibilityLock(c)

=============================================================================
