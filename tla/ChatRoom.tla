------------------------------- MODULE ChatRoom ------------------------------
(***************************************************************************)
(* What a chat room promises, without sockets, queues or handlers: there   *)
(* is one log; a member that joins is owed the newest Recent messages and  *)
(* all that are posted until it leaves; it gets them one by one, in the    *)
(* order of the log.  A member that leaves may lose the rest.              *)
(***************************************************************************)
EXTENDS Integers, Sequences

CONSTANTS Members, Posts, Recent

VARIABLES
  log,     \* the messages posted
  joined,  \* who has ever joined
  members, \* who is in the room
  from,    \* the first message a member is owed
  owed,    \* the last message a member is owed
  got      \* what a member has received

vars == <<log, joined, members, from, owed, got>>

Init ==
  /\ log = <<>> /\ joined = {} /\ members = {}
  /\ from = [m \in Members |-> 1]
  /\ owed = [m \in Members |-> 0]
  /\ got = [m \in Members |-> <<>>]

Join(m) ==
  /\ m \notin joined
  /\ joined' = joined \cup {m}
  /\ members' = members \cup {m}
  /\ from' = [from EXCEPT ![m] = IF Len(log) > Recent THEN Len(log) - Recent + 1 ELSE 1]
  /\ owed' = [owed EXCEPT ![m] = Len(log)]
  /\ UNCHANGED <<log, got>>

Post(p) ==
  /\ joined # {}
  /\ log' = Append(log, p)
  /\ owed' = [m \in Members |-> IF m \in members THEN Len(log) + 1 ELSE owed[m]]
  /\ UNCHANGED <<joined, members, from, got>>

Get(m) ==
  /\ from[m] + Len(got[m]) <= owed[m]
  /\ got' = [got EXCEPT ![m] = Append(@, log[from[m] + Len(@)])]
  /\ UNCHANGED <<log, joined, members, from, owed>>

Leave(m) ==
  /\ m \in members
  /\ members' = members \ {m}
  /\ UNCHANGED <<log, joined, from, owed, got>>

Next ==
  \/ \E m \in Members : Join(m) \/ Get(m) \/ Leave(m)
  \/ \E p \in Posts : Post(p)

Spec == Init /\ [][Next]_vars
=============================================================================
