------------------------------- MODULE KvMap --------------------------------
(***************************************************************************)
(* What a key-value device promises (the comment at kv_ftl.c:481): a store *)
(* makes its keys readable with the stored value, a delete makes its key   *)
(* unreadable.  A command touches other keys in one way only: they may     *)
(* become unreadable.  They never get another value and never come back.   *)
(***************************************************************************)
CONSTANTS
    Keys,
    Values,
    None     \* not a value

VARIABLES
    store,   \* per key its value, or None
    cmd      \* the command run last: the keys it is about and their new value

Commands == [keys : SUBSET Keys, value : Values \cup {None}]

Init ==
    /\ store = [k \in Keys |-> None]
    /\ cmd = [keys |-> {}, value |-> None]

\* Store, batch or delete; with no keys, a command that only reads.
Next ==
    /\ cmd' \in Commands
    /\ \A k \in Keys :
          store'[k] \in IF k \in cmd'.keys THEN {cmd'.value} ELSE {store[k], None}
    /\ DOMAIN store' = Keys

Spec == Init /\ [][Next]_<<store, cmd>>
=============================================================================
