---------------------------- MODULE VerifiedStore ----------------------------
(***************************************************************************)
(* What an artifact cache promises about one artifact ("Immutable          *)
(* checksum-addressed artifacts, published only after verification",       *)
(* bootstrap/artifacts.py:1): it appears once, whole, and never changes,   *)
(* and whoever is given its path is given a whole artifact.                *)
(***************************************************************************)
CONSTANT Clients
VARIABLES store, served

Init == store = "absent" /\ served = {}

Publish == store = "absent" /\ store' = "whole" /\ UNCHANGED served

Serve(c) == store = "whole" /\ served' = served \cup {c} /\ UNCHANGED store

Leave(c) == c \in served /\ served' = served \ {c} /\ UNCHANGED store

Next == Publish \/ \E c \in Clients : Serve(c) \/ Leave(c)

Spec == Init /\ [][Next]_<<store, served>>
=============================================================================
