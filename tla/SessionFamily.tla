--------------------------- MODULE SessionFamily ---------------------------
(***************************************************************************)
(* What a dashboard session promises, whatever the tables and handlers    *)
(* behind it: from sign-in to its end a session is renewable by exactly   *)
(* one refresh token, each renewal retires that token for a fresh one,    *)
(* and a session that has ended never comes back.  RefreshTokens.tla is   *)
(* shown to implement this specification.                                 *)
(***************************************************************************)
CONSTANTS Row,        \* refresh tokens, by the id of their row
          Session,    \* session ids
          NoRow       \* not a row

VARIABLES issued,     \* the refresh tokens ever issued
          opened,     \* the sessions ever opened
          holder      \* the one token that renews a session, or NoRow

vars == <<issued, opened, holder>>

Init ==
  /\ issued = {}
  /\ opened = {}
  /\ holder = [s \in Session |-> NoRow]

(* A sign-in opens a session that never existed, with a fresh token. *)
Open(s, r) ==
  /\ s \in Session \ opened
  /\ r \in Row \ issued
  /\ issued' = issued \cup {r}
  /\ opened' = opened \cup {s}
  /\ holder' = [holder EXCEPT ![s] = r]

(* A renewal hands an open session from its token to a fresh one. *)
Renew(s, r) ==
  /\ s \in opened /\ holder[s] # NoRow
  /\ r \in Row \ issued
  /\ issued' = issued \cup {r}
  /\ holder' = [holder EXCEPT ![s] = r]
  /\ UNCHANGED opened

(* Logout, revocation and replay detection end any number of sessions. *)
End(S) ==
  /\ holder' = [s \in Session |-> IF s \in S THEN NoRow ELSE holder[s]]
  /\ UNCHANGED <<issued, opened>>

Next ==
  \/ \E s \in Session, r \in Row : Open(s, r) \/ Renew(s, r)
  \/ \E S \in SUBSET Session : End(S)

Spec == Init /\ [][Next]_vars
=============================================================================
