------------------------------- MODULE Dicts -------------------------------
(***************************************************************************)
(* Python dictionaries as functions: the keys of a dictionary d are        *)
(* DOMAIN d.  The in-memory tables of the gateway, of its endpoint         *)
(* registry and of its locks are dictionaries.                             *)
(***************************************************************************)

\* The empty dictionary, {}.
EmptyDict == [k \in {} |-> k]

\* d with the entry for k set to v:  d[k] = v
Put(d, k, v) == [x \in DOMAIN d \cup {k} |-> IF x = k THEN v ELSE d[x]]

\* d without the entries whose keys are in S:  d.pop(k, None) for k in S
Without(d, S) == [x \in DOMAIN d \ S |-> d[x]]

=============================================================================
