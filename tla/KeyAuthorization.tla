-------------------------- MODULE KeyAuthorization --------------------------
(***************************************************************************)
(* What agent.State promises to its users, without generations, stored    *)
(* passphrases or a watcher: there is at most one authorization window,   *)
(* of at most MaxTTL; a session may sign only with a credential it took   *)
(* in the window that is open now, with that window's key, and before the *)
(* window's deadline.  Opening or closing a window invalidates every      *)
(* credential taken before.                                               *)
(***************************************************************************)
EXTENDS Naturals

CONSTANTS
    Sessions,   \* SSH sessions (goroutines that dial a host)
    Keys,       \* private keys
    NoKey,      \* no key
    MaxTTL      \* the longest window

VARIABLES
    now,        \* the clock
    openKey,    \* the key of the open window, NoKey when there is none
    deadline,   \* the end of the open window, 0 when there is none
    holders,    \* the sessions that took a credential in the open window
    signedWith  \* the key each session authenticated with, NoKey before that

vars == <<now, openKey, deadline, holders, signedWith>>

Init ==
    /\ now = 1
    /\ openKey = NoKey
    /\ deadline = 0
    /\ holders = {}
    /\ signedWith = [s \in Sessions |-> NoKey]

Open == openKey # NoKey /\ now < deadline

\* A new window replaces the old one and its credentials.
Grant ==
    /\ openKey' \in Keys
    /\ deadline' \in now + 1 .. now + MaxTTL
    /\ holders' = {}
    /\ UNCHANGED <<now, signedWith>>

Revoke ==
    /\ openKey' = NoKey
    /\ deadline' = 0
    /\ holders' = {}
    /\ UNCHANGED <<now, signedWith>>

Take(s) ==
    /\ Open
    /\ holders' = holders \cup {s}
    /\ UNCHANGED <<now, openKey, deadline, signedWith>>

Sign(s) ==
    /\ s \in holders
    /\ Open
    /\ signedWith' = [signedWith EXCEPT ![s] = openKey]
    /\ holders' = holders \ {s}
    /\ UNCHANGED <<now, openKey, deadline>>

\* A session gives its credential up, or closes its connection.
Leave(s) ==
    /\ holders' = holders \ {s}
    /\ signedWith' = [signedWith EXCEPT ![s] = NoKey]
    /\ UNCHANGED <<now, openKey, deadline>>

Tick ==
    /\ now' = now + 1
    /\ UNCHANGED <<openKey, deadline, holders, signedWith>>

Next ==
    \/ Grant \/ Revoke \/ Tick
    \/ \E s \in Sessions : Take(s) \/ Sign(s) \/ Leave(s)

Spec == Init /\ [][Next]_vars
=============================================================================
