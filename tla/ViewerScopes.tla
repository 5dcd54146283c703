---------------------------- MODULE ViewerScopes ----------------------------
(***************************************************************************)
(* The tools of ScopedTools on the live device cache. StoredReads has them *)
(* on a cache that stays; here the poller of NodeIdentities refreshes,     *)
(* merges, rekeys and prunes the cache while viewers ask. A call reads the *)
(* cache and changes nothing, so the calls are no steps: in every state    *)
(* any viewer may ask for any window. A call that overlaps a change of the *)
(* cache names some of its rows before and some after it, which is outside *)
(* of this module.                                                         *)
(***************************************************************************)
EXTENDS NodeIdentities

CONSTANTS
    PortLimit,      \* of ScopedTools
    Pseudo,         \* stored endpoints that are not devices
    Scopes,         \* scopes of viewers
    Views           \* what a call may read: rows, those of its window, those before

Tools == INSTANCE ScopedTools

\* The names of pseudo endpoints are no ids and no addresses of devices.
ASSUME PseudoAssumption == Pseudo \cap (NodeIds \cup Addresses) = {}

\* Whatever the cache has become, a scope shows of an answer what belongs to its
\* devices, with the same sums: aliases, reused addresses and pruned devices give no
\* row to a scope that does not have its device, and take none from one that has.
ScopeShowsItsPart ==
    \A scope \in Scopes, v \in Views :
        Tools!ShowsItsPart(cache, scope, v.rows, v.window, v.prior)
=============================================================================
