-------------------------------- MODULE Proxy --------------------------------
(***************************************************************************)
(* Routing of src/src/proxy.rs.  A path-and-query is [prefix, rest]: one   *)
(* of the two graph-node prefixes or neither, and how the text goes on     *)
(* after it ("" nothing, "/" a sub-path, "?" a query string, "x" more of   *)
(* the same segment).                                                      *)
(***************************************************************************)
Target == {"AgentManagement", "GraphNodeAdmin", "GraphNodeStatus"}

(* strip_prefix_segment on the path and query: the prefix must be followed *)
(* by nothing or by a slash.                                               *)
StripsPrefix(path, prefix) == path.prefix = prefix /\ path.rest \in {"", "/"}

(* route: the target of a path. *)
Route(path) ==
    IF StripsPrefix(path, "/_admin") THEN "GraphNodeAdmin"
    ELSE IF StripsPrefix(path, "/_status") THEN "GraphNodeStatus"
    ELSE "AgentManagement"

(* Proxy::base_for: the management API is always configured, the two       *)
(* graph-node endpoints may not be.                                        *)
HasBase(upstreams, target) == target = "AgentManagement" \/ target \in upstreams
=============================================================================
