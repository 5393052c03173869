---------------------------- MODULE MCPbxConfig ----------------------------
(* A domain with an extension, a peer trunk, a registered trunk with an
   account, a route that uses the account and a policy. *)
EXTENDS PbxConfig, TLC

CONSTANTS n1, n2

Provisioned ==
  [domain |-> "present", version |-> 1, rowVersion |-> 1, trace |-> TRUE,
   limits |-> [warning |-> 1, resume |-> 2, reject |-> 3],
   next |-> [t \in Tables |-> IF t \in {"inbound", "ai_policy", "agent"} THEN 1 ELSE 2],
   tab |-> [t \in Tables |->
     CASE t = "ext" -> 1 :> [number |-> n1, enabled |-> TRUE]
       [] t \in {"peer", "reg"} -> 1 :> [enabled |-> TRUE]
       [] t = "account" -> 1 :> [trunk |-> 1, enabled |-> TRUE]
       [] t = "outbound" -> 1 :> [refs |-> {<<"reg", 1, 1>>}]
       [] t = "recording" -> 1 :> [targets |-> {<<"peer", 1>>}]
       [] OTHER -> [i \in {} |-> 0]]]
============================================================================
