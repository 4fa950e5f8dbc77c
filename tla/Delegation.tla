----------------------------- MODULE Delegation -----------------------------
(***************************************************************************)
(* What a sign-in of the command-line client promises, with no poll, code, *)
(* session or credential in it.  While a login is open, one person agrees  *)
(* to it, once, and it then gives that person's authority to its client,   *)
(* once, or closes.  Authority that has ended does not come back, ends for *)
(* all clients of a person together when that is asked for, and has ended  *)
(* when a client says that it gave it up.                                  *)
(***************************************************************************)
CONSTANTS Logins, Nobody

VARIABLES
  login,   \* "new", "open", "agreed", "live", "ended" or "closed", and by whom
  client   \* "without" authority, "holding" it, "saved", or "gave up"

vars == <<login, client>>

Init ==
  /\ login = [l \in Logins |-> [is |-> "new", by |-> Nobody]]
  /\ client = [l \in Logins |-> "without"]

Becomes(l, state) == login' = [login EXCEPT ![l].is = state]

Open(l) == Becomes(l, "open") /\ UNCHANGED client

\* Anyone may, but nobody takes the place of another.
Agree(l) ==
  /\ login'[l].by # Nobody
  /\ login' = [login EXCEPT ![l] = [is |-> "agreed", by |-> login'[l].by]]
  /\ UNCHANGED client

Close(l) == Becomes(l, "closed") /\ UNCHANGED client

\* The client may not hear of it.
Give(l) ==
  /\ Becomes(l, "live")
  /\ \/ client[l] = "without" /\ client' = [client EXCEPT ![l] = "holding"]
     \/ UNCHANGED client

End(l) == Becomes(l, "ended") /\ UNCHANGED client

\* All authority of the person who gave this one ends.
EndAll(l) ==
  /\ login' = [k \in Logins |-> IF login[k].is = "live" /\ login[k].by = login[l].by
                                THEN [login[k] EXCEPT !.is = "ended"] ELSE login[k]]
  /\ UNCHANGED client

\* The client may not know that it ended.
GiveUp(l) ==
  /\ login[l].is \in {"live", "ended"} /\ Becomes(l, "ended")
  /\ client' = [client EXCEPT ![l] = "gave up"] \/ UNCHANGED client

\* It is saved, or lost with the client's process.
Part(l) ==
  /\ \E state \in {"saved", "without"} : client' = [client EXCEPT ![l] = state]
  /\ UNCHANGED login

\* What may come of a login, and of a client that holds its authority.
Next ==
  \E l \in Logins :
    \/ LET now == login[l].is IN
       \/ now = "new" /\ Open(l)
       \/ now = "open" /\ (Agree(l) \/ Close(l))
       \/ now = "agreed" /\ (Give(l) \/ Close(l))
       \/ now = "live" /\ (End(l) \/ EndAll(l))
    \/ client[l] = "holding" /\ (GiveUp(l) \/ Part(l))

Spec == Init /\ [][Next]_vars

=============================================================================
