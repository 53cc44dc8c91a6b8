------------------------------ MODULE Presence ------------------------------
(***************************************************************************)
(* Sockets, the presence:<user> key and forfeits by disconnection.  A user *)
(* may have several sockets; each connection overwrites the key, and each  *)
(* disconnection deletes it.  A player who disconnects during a match is   *)
(* given 15 seconds, after which the key decides.  Commands reach Redis in *)
(* the order in which the process issues them, so that each await is the   *)
(* end of a step.  The key's expiry after an hour is left out.             *)
(***************************************************************************)
EXTENDS Integers, FiniteSets

CONSTANTS
  User,
  Socket,
  owner,       \* [Socket -> User]
  NoSocket,    \* presence of a user without the key
  Overlap,     \* whether a user may connect again before the old socket closes
  EarlyClose   \* whether a socket may close while its connection is set up

ASSUME PresenceAssumption ==
  /\ owner \in [Socket -> User] /\ NoSocket \notin Socket
  /\ Overlap \in BOOLEAN /\ EarlyClose \in BOOLEAN

VARIABLES
  presence,  \* presence[u]: the key, a socket or NoSocket
  active,    \* users with an active_match key
  forfeited, \* users whose match was resolved as FORFEIT
  step       \* step[s]: where the handlers of socket s are

vars == <<presence, active, forfeited, step>>

Sockets(u) == {s \in Socket : owner[s] = u}

\* The user has a socket that is connected.
Connected(u) == \E s \in Sockets(u) : step[s] \in {"opening", "open"}

Init ==
  /\ presence = [u \in User |-> NoSocket]
  /\ active = {} /\ forfeited = {}
  /\ step = [s \in Socket |-> "new"]

Goto(s, l) == step' = [step EXCEPT ![s] = l]

\* Mutant: the key is not written when the user reconnects during a match.
ConnectWithoutKey(s) ==
  LET u == owner[s] IN
  /\ step[s] = "new" /\ (Overlap \/ ~Connected(u))
  /\ presence' = [presence EXCEPT ![u] = IF u \in active THEN presence[u] ELSE s]
  /\ Goto(s, "opening")
  /\ UNCHANGED <<active, forfeited>>

\* connection
Connect(s) ==
  /\ step[s] = "new" /\ (Overlap \/ ~Connected(owner[s]))
  /\ presence' = [presence EXCEPT ![owner[s]] = s]
  /\ Goto(s, "opening")
  /\ UNCHANGED <<active, forfeited>>

\* After the await, the handlers are registered.
Register(s) ==
  /\ step[s] = "opening"
  /\ Goto(s, "open")
  /\ UNCHANGED <<presence, active, forfeited>>

\* The socket closes before that: there is no disconnect handler to run.
CloseEarly(s) ==
  /\ EarlyClose /\ step[s] = "opening"
  /\ Goto(s, "closed")
  /\ UNCHANGED <<presence, active, forfeited>>

\* disconnect, up to its first await: the key is deleted.
Disconnect(s) ==
  /\ step[s] = "open"
  /\ presence' = [presence EXCEPT ![owner[s]] = NoSocket]
  /\ Goto(s, "compare")
  /\ UNCHANGED <<active, forfeited>>

\* "Only remove presence if this socket is still the current one"
CompareAndDelete(s) ==
  /\ step[s] = "compare"
  /\ presence' = [presence EXCEPT ![owner[s]] = IF presence[owner[s]] = s THEN NoSocket
                                                ELSE presence[owner[s]]]
  /\ Goto(s, "active")
  /\ UNCHANGED <<active, forfeited>>

\* Mutant: the active match is not looked up.
ForgetActive(s) ==
  /\ step[s] = "active"
  /\ Goto(s, "closed")
  /\ UNCHANGED <<presence, active, forfeited>>

\* The active match is read; handleDisconnectForfeit starts to wait.
ReadActive(s) ==
  /\ step[s] = "active"
  /\ Goto(s, IF owner[s] \in active THEN "wait" ELSE "closed")
  /\ UNCHANGED <<presence, active, forfeited>>

\* Fifteen seconds later.
Recheck(s) ==
  /\ step[s] = "wait"
  /\ Goto(s, IF presence[owner[s]] # NoSocket THEN "closed" ELSE "forfeit")
  /\ UNCHANGED <<presence, active, forfeited>>

\* The match is resolved against the user unless it has ended meanwhile.
Forfeit(s) ==
  /\ step[s] = "forfeit"
  /\ Goto(s, "closed")
  /\ forfeited' = forfeited \cup (active \cap {owner[s]})
  /\ active' = active \ {owner[s]}
  /\ UNCHANGED presence

\* setActiveMatch, and clearActiveMatch at the end of a match.
StartMatch(u) ==
  /\ u \notin active \cup forfeited
  /\ active' = active \cup {u}
  /\ UNCHANGED <<presence, forfeited, step>>

EndMatch(u) ==
  /\ u \in active
  /\ active' = active \ {u}
  /\ UNCHANGED <<presence, forfeited, step>>

Handle(s) ==
  Register(s) \/ CompareAndDelete(s) \/ ReadActive(s) \/ Recheck(s) \/ Forfeit(s)

Next ==
  \/ \E s \in Socket : Connect(s) \/ CloseEarly(s) \/ Disconnect(s) \/ Handle(s)
  \/ \E u \in User : StartMatch(u) \/ EndMatch(u)

\* The event loop runs every handler that can go on, and every timeout.
Fairness == \A s \in Socket : WF_vars(Handle(s))

Spec == Init /\ [][Next]_vars /\ Fairness

-----------------------------------------------------------------------------
(* Properties.                                                             *)

\* Types of the keys and handlers.
TypeOK ==
  /\ presence \in [User -> Socket \cup {NoSocket}]
  /\ active \subseteq User /\ forfeited \subseteq User
  /\ step \in [Socket -> {"new", "opening", "open", "compare", "active", "wait",
                          "forfeit", "closed"}]

\* "Wait 15 seconds to see if player reconnects" (socket/index.js:104): the
\* decision to forfeit is taken only when the player has no socket.
DecidedWhileAway ==
  [][\A s \in Socket :
       step[s] = "wait" /\ step'[s] = "forfeit" => ~Connected(owner[s])]_vars

\* The key names the socket of a user who has just one, so that events can be
\* addressed to it (socket/index.js:55-56, matchmakingHandler.js:247-256).
PresenceIsCurrent ==
  \A u \in User : \A s \in Sockets(u) :
    step[s] \in {"opening", "open"} => presence[u] = s

\* A player who disconnects during a match and stays away does not keep the
\* opponent waiting for the end of the match: the match ends, by forfeit if
\* not otherwise, unless a later socket wrote the key (socket/index.js:79-82,
\* 102-134).
AwayIsForfeited ==
  \A s \in Socket :
    LET u == owner[s] IN
      (step[s] = "active" /\ u \in active) ~> (u \notin active \/ presence[u] # NoSocket)

=============================================================================
