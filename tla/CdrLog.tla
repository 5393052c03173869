------------------------------- MODULE CdrLog -------------------------------
(***************************************************************************)
(* What the CDR pipeline promises the finalizers of a domain's calls: a    *)
(* record whose enqueue_durable returned Ok reaches the database, or the   *)
(* operator's quarantine directory, whatever crashes in between.           *)
(***************************************************************************)
CONSTANT Cdrs

VARIABLES promised,  \* records whose finalizer was told Ok
          settled    \* records in the database or in quarantine

Init == promised = {} /\ settled = {}

Promise(r) == r \notin promised /\ promised' = promised \cup {r} /\ UNCHANGED settled

\* One replay may set several records aside.
Settle(rs) == settled' = settled \cup rs /\ UNCHANGED promised

Next ==
  \/ \E r \in Cdrs : Promise(r)
  \/ \E rs \in SUBSET Cdrs : Settle(rs)

Spec ==
  /\ Init
  /\ [][Next]_<<promised, settled>>
  /\ \A r \in Cdrs :
       WF_<<promised, settled>>(r \in promised \ settled /\ \E rs \in SUBSET Cdrs : r \in rs /\ Settle(rs))
=============================================================================
