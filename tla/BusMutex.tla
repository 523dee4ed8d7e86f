------------------------------ MODULE BusMutex ------------------------------
(***************************************************************************)
(* What a shared I2C segment promises the callers of lock_bus/unlock_bus:  *)
(* one user at a time, except in a busy period that suffered a failure.    *)
(*                                                                         *)
(* The segment is "tainted" from the moment a register access of the       *)
(* arbitration hardware fails or a wait for it expires.  A tainted segment *)
(* makes no promise.  It may become clean again only while nobody uses it. *)
(* An untainted one is a plain mutual exclusion lock.                      *)
(***************************************************************************)
EXTENDS FiniteSets

CONSTANT User        \* the callers that may use the segment

VARIABLES users,     \* those using it now
          tainted    \* a failure or an expiry happened in this busy period

vars == <<users, tainted>>

TypeOK ==
    /\ users \subseteq User
    /\ tainted \in BOOLEAN

Init ==
    /\ users = {}
    /\ tainted = FALSE

\* Regular entry: alone, unless the promise is already void.
Enter(u) ==
    /\ u \notin users
    /\ users = {} \/ tainted
    /\ users' = users \cup {u}
    /\ UNCHANGED tainted

\* Entry without ownership, after a failure or an expiry.
Intrude(u) ==
    /\ users' = users \cup {u}
    /\ tainted' = TRUE

\* Some users leave (several at once when their host restarts).
Leave(us) ==
    /\ us # {}
    /\ us \subseteq users
    /\ users' = users \ us
    /\ tainted' \in BOOLEAN
    /\ tainted /\ ~tainted' => users' = {}

Taint ==
    /\ tainted' = TRUE
    /\ UNCHANGED users

Heal ==
    /\ users = {}
    /\ tainted' = FALSE
    /\ UNCHANGED users

Next ==
    \/ \E u \in User : Enter(u) \/ Intrude(u)
    \/ \E us \in SUBSET User : Leave(us)
    \/ Taint
    \/ Heal

Spec == Init /\ [][Next]_vars

\* At most one user of an untainted segment: the contract that
\* obtain_arbitration's comment calls "exclusive access".
AtMostOneUser ==
    ~tainted => \A u, v \in users : u = v

=============================================================================
