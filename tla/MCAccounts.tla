------------------------------ MODULE MCAccounts ------------------------------
(***************************************************************************)
(* Small instances of Accounts for TLC.                                    *)
(***************************************************************************)
EXTENDS Accounts, TLC

CONSTANTS e0, e1, g0, g1, g2, l1, b1, r1, r2, r3

TwoEmails == {e0, e1}
TwoAccounts == {g0, g1}
ThreeAccounts == {g0, g1, g2}
OneLogin == {l1}
OneBrowser == {b1}
OneRequest == {r1}
ThreeRequests == {r1, r2, r3}

RequestSymmetry == Permutations(ThreeRequests)
OneEach == (g0 :> e0) @@ (g1 :> e1)
OneWithout == OneEach @@ (g2 :> Nothing)

\* For the run of requests: a behaviour is one of requests, or one of a login
\* beside one request at most, that admits another user or revokes credentials.
Begun == \E l \in Logins : logins[l].stage # "none"
Sent == {r \in Requests : requests[r] # Unsent}

NextApart ==
  /\ Begun /\ Sent # {} => UNCHANGED requests
  /\ Cardinality(Sent) > 1 => UNCHANGED logins
  /\ Next
  /\ Begun' => \A r \in Sent' : requests'[r].kind \in {"add", "logout", "revoke"}

SpecApart == Init /\ [][NextApart]_vars

=============================================================================
