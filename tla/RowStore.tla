------------------------------- MODULE RowStore -------------------------------
(***************************************************************************)
(* What the reconcilers promise about the row of a resource, whatever the  *)
(* kind, and however change handler, refresh timer, failures and restarts  *)
(* interleave: wherever it is looked for, a resource has at most one row;  *)
(* the row holds what a run read of the resource while it existed; only a  *)
(* deletion takes the row away; and the resource goes when its row is      *)
(* gone and no run is left that could write it again.                      *)
(*                                                                         *)
(* A run may write what is no longer wanted, and one run may overtake      *)
(* another.  RuntimeRow (while the topology is fixed), SipUserStore and    *)
(* VoicemailStore implement this specification.                            *)
(***************************************************************************)
CONSTANTS
    Resource,
    Content,  \* what a row is written from
    None      \* no resource

VARIABLES
    wanted,  \* wanted[r]: the spec of resource r, None if there is no such resource
    doomed,  \* doomed[r]: its deletion was requested
    taken,   \* taken[r]: what runs have read of r and may still write
    stored   \* stored[r]: the contents of the rows of r, in any database

store == <<wanted, doomed, taken, stored>>

StoreInit ==
    /\ wanted = [r \in Resource |-> None]
    /\ doomed = [r \in Resource |-> FALSE]
    /\ taken = [r \in Resource |-> {}]
    /\ stored = [r \in Resource |-> {}]

Change(r) ==
    /\ \E c \in Content : wanted' = [wanted EXCEPT ![r] = c]
    /\ UNCHANGED <<doomed, taken, stored>>

Doom(r) ==
    /\ wanted[r] # None
    /\ doomed' = [doomed EXCEPT ![r] = TRUE]
    /\ UNCHANGED <<wanted, taken, stored>>

Take(r) ==
    /\ wanted[r] # None
    /\ taken' = [taken EXCEPT ![r] = @ \cup {wanted[r]}]
    /\ UNCHANGED <<wanted, doomed, stored>>

\* Runs fail, one of them or all at once.
Lose ==
    /\ taken' \in [Resource -> SUBSET Content]
    /\ \A r \in Resource : taken'[r] \subseteq taken[r]
    /\ UNCHANGED <<wanted, doomed, stored>>

\* The run may be over with it, and another one may still have the same contents.
Store(r) ==
    \E c \in taken[r] :
        /\ stored' = [stored EXCEPT ![r] = {c}]
        /\ \/ UNCHANGED taken
           \/ taken' = [taken EXCEPT ![r] = @ \ {c}]
        /\ UNCHANGED <<wanted, doomed>>

Erase(r) ==
    /\ doomed[r]
    /\ stored' = [stored EXCEPT ![r] = {}]
    /\ UNCHANGED <<wanted, doomed, taken>>

Release(r) ==
    /\ doomed[r]
    /\ taken[r] = {}
    /\ stored' = [stored EXCEPT ![r] = {}]
    /\ wanted' = [wanted EXCEPT ![r] = None]
    /\ doomed' = [doomed EXCEPT ![r] = FALSE]
    /\ UNCHANGED taken

StoreNext == \/ Lose
             \/ \E r \in Resource : \/ Change(r) \/ Doom(r) \/ Take(r)
                                    \/ Store(r) \/ Erase(r) \/ Release(r)

StoreSpec == StoreInit /\ [][StoreNext]_store

\* A resource that does not exist has no row, and nothing is on its way to one.
GoneIsGone == \A r \in Resource : wanted[r] = None => stored[r] = {} /\ taken[r] = {}
=============================================================================
