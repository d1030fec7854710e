------------------------- MODULE GameServiceProofs -------------------------
(***************************************************************************)
(* For every set of fds, of players and of generations, any number of      *)
(* changes and any queue bound, duplicate sessions and a failing database  *)
(* included: no dangling Connection, and the world, the two session maps   *)
(* and the connections agree (SessionInv).                                 *)
(*                                                                         *)
(* Of a player who never asked for a second session there is one login in  *)
(* flight at most, and none while they are in the world (OneLogin). So the *)
(* fds lead to their present connection, and what they left with waits for *)
(* them: no save is queued behind their login (KeptFor).                   *)
(***************************************************************************)
EXTENDS GameService, SequenceTheorems, WellFoundedInduction, TLAPS

\* A Connection is registered with the event loop under its own fd (Acceptor).
HandlersByFd == \A f \in Fd : handlers[f] # NoConn => FdOf(handlers[f]) = f

\* What is inductive: a closed Connection was in player_conns_ only under the
\* player its fd leads to, who is the one the disconnect callback unregisters.
SessionInv == TypeOK /\ HandlersByFd /\ NoDanglingConn /\ ConnLeadsToPlayer /\ OnlineIsRegistered

\* A connection is a pair, its fd is one of the fds.
LEMMA FdOfConn ==
    /\ \A c \in Conn : FdOf(c) \in Fd /\ c # NoConn
    /\ \A f \in Fd, g \in Generation : FdOf(<<f, g>>) = f
BY ServiceConstants DEF Conn, FdOf

\* The empty server satisfies the invariant.
LEMMA InitSession == Init => SessionInv
BY ServiceConstants DEF Init, SessionInv, TypeOK, HandlersByFd, NoDanglingConn,
   ConnLeadsToPlayer, OnlineIsRegistered, Value

-----------------------------------------------------------------------------
(* Types *)

\* SavePlayerAsync leaves the queue a queue of tasks.
LEMMA SaveTyped ==
    ASSUME TypeOK, NEW p \in Player, NEW v \in Value
    PROVE  SavePlayerAsync(q, p, v) \in Seq(LoginTask \cup SaveTask)
BY DEF TypeOK, SavePlayerAsync, SaveTask

\* UnregisterPlayerConn keeps the types of the two maps.
LEMMA UnregisterTyped ==
    ASSUME TypeOK, NEW p \in Player
    PROVE  /\ FdsWithout(p) \in [Fd -> Player \cup {NoPlayer}]
           /\ ConnsWithout(p) \in [Player -> Conn \cup {NoConn}]
BY FdOfConn DEF TypeOK, FdsWithout, ConnsWithout

\* Binding a connection to a player keeps the types.
LEMMA BindTyped ==
    ASSUME TypeOK, NEW c \in Conn, NEW p \in Player, NEW v \in Value, BindPlayer(c, p, v)
    PROVE  /\ fd_to_player' \in [Fd -> Player \cup {NoPlayer}]
           /\ player_conns' \in [Player -> Conn \cup {NoConn}]
           /\ online' \subseteq Player
           /\ owned' \in [Player -> Value]
           /\ q' \in Seq(LoginTask \cup SaveTask)
<1> DEFINE f == FdOf(c)
           old == fd_to_player[f]
           moved == old # NoPlayer /\ old # p
<1>1. f \in Fd /\ old \in Player \cup {NoPlayer}
  BY FdOfConn DEF TypeOK
<1>2. moved => /\ FdsWithout(old) \in [Fd -> Player \cup {NoPlayer}]
               /\ ConnsWithout(old) \in [Player -> Conn \cup {NoConn}]
               /\ SavePlayerAsync(q, old, owned[old]) \in Seq(LoginTask \cup SaveTask)
  BY <1>1, UnregisterTyped, SaveTyped DEF TypeOK
<1>3. fd_to_player' \in [Fd -> Player \cup {NoPlayer}]
  BY <1>1, <1>2 DEF TypeOK, BindPlayer
<1>4. player_conns' \in [Player -> Conn \cup {NoConn}]
  BY <1>1, <1>2 DEF TypeOK, BindPlayer
<1>5. online' \subseteq Player /\ owned' \in [Player -> Value]
  BY DEF TypeOK, BindPlayer, Leave
<1>6. q' \in Seq(LoginTask \cup SaveTask)
  BY <1>2 DEF TypeOK, BindPlayer
<1>7. QED
  BY <1>3, <1>4, <1>5, <1>6

\* Every step keeps the types.
LEMMA NextTyped == TypeOK /\ [Next]_vars => TypeOK'
<1> SUFFICES ASSUME TypeOK, [Next]_vars
             PROVE  TypeOK'
  OBVIOUS
<1> USE DEF TypeOK
<1>1. ASSUME NEW f \in Fd, NEW g \in Generation, Accept(f, g)
      PROVE  TypeOK'
  BY <1>1 DEF Accept, Conn
<1>2. ASSUME NEW f \in Fd, NEW p \in Player, HandleLogin(f, p)
      PROVE  TypeOK'
  <2>1. [kind |-> "login", fd |-> f, player |-> p, asker |-> handlers[f]] \in LoginTask
    BY <1>2 DEF HandleLogin, TakeFrame, Connected, LoginTask
  <2>2. QED
    BY <1>2, <2>1 DEF HandleLogin, TakeFrame
<1>3. ASSUME NEW f \in Fd, Change(f)
      PROVE  /\ fd_to_player[f] \in Player
             /\ owned' \in [Player -> Value]
             /\ active_conns' \in [Fd -> Conn \cup {NoConn}]
  BY <1>3, ServiceConstants DEF Change, TakeFrame, Value
<1>4. ASSUME NEW f \in Fd, HandleGather(f)
      PROVE  TypeOK'
  <2>1. /\ fd_to_player[f] \in Player
        /\ owned' \in [Player -> Value]
        /\ active_conns' \in [Fd -> Conn \cup {NoConn}]
    BY <1>3, <1>4 DEF HandleGather
  <2>2. q' \in Seq(LoginTask \cup SaveTask)
    BY <1>4, <2>1, SaveTyped DEF HandleGather
  <2>3. QED
    BY <1>4, <2>1, <2>2 DEF HandleGather
<1>5. ASSUME NEW f \in Fd, HandleMove(f)
      PROVE  TypeOK'
  BY <1>3, <1>5 DEF HandleMove
<1>6. ASSUME NEW f \in Fd, HandleOther(f)
      PROVE  TypeOK'
  BY <1>6 DEF HandleOther, TakeFrame
<1>7. ASSUME NEW f \in Fd, Disconnect(f)
      PROVE  TypeOK'
  <2>1. CASE fd_to_player[f] = NoPlayer
    BY <1>7, <2>1 DEF Disconnect
  <2>2. CASE fd_to_player[f] # NoPlayer
    <3>1. fd_to_player[f] \in Player
      BY <2>2
    <3>2. /\ q' \in Seq(LoginTask \cup SaveTask)
          /\ fd_to_player' \in [Fd -> Player \cup {NoPlayer}]
          /\ player_conns' \in [Player -> Conn \cup {NoConn}]
      BY <1>7, <2>2, <3>1, SaveTyped, UnregisterTyped DEF Disconnect
    <3>3. QED
      BY <1>7, <2>2, <3>2 DEF Disconnect, Leave
  <2>3. QED
    BY <2>1, <2>2
<1>8. CASE LoginCallback
  <2> DEFINE cb == Head(pending_callbacks)
             c  == active_conns[cb.fd]
  <2>1. cb \in Callback /\ pending_callbacks' \in Seq(Callback)
    BY <1>8 DEF LoginCallback
  <2>2. CASE c = NoConn \/ cb.player = NoPlayer
    BY <1>8, <2>1, <2>2 DEF LoginCallback
  <2>3. CASE ~(c = NoConn \/ cb.player = NoPlayer)
    <3>1. c \in Conn /\ cb.player \in Player /\ cb.saved \in Value
      BY <2>1, <2>3 DEF Callback
    <3>2. BindPlayer(c, cb.player, cb.saved)
      BY <1>8, <2>3 DEF LoginCallback
    <3>3. QED
      BY <1>8, <2>1, <3>1, <3>2, BindTyped DEF LoginCallback
  <2>4. QED
    BY <2>2, <2>3
<1>9. CASE CheckLogin
  <2> DEFINE t == Head(q)
  <2>1. /\ t \in LoginTask
        /\ q' \in Seq(LoginTask \cup SaveTask)
    BY <1>9 DEF CheckLogin, LoginTask, SaveTask
  <2>2. PICK known \in {t.player, NoPlayer}, saved \in {stored[t.player], 0} :
          /\ pending_callbacks' = Append(pending_callbacks,
                [fd |-> t.fd, player |-> known, saved |-> saved, asker |-> t.asker])
          /\ failed' = IF saved # stored[t.player] THEN failed \cup {t.player} ELSE failed
    BY <1>9 DEF CheckLogin
  <2>3. [fd |-> t.fd, player |-> known, saved |-> saved, asker |-> t.asker] \in Callback
    BY <2>1, ServiceConstants DEF LoginTask, Callback, Value
  <2>4. failed' \subseteq Player
    BY <2>1, <2>2 DEF LoginTask
  <2>5. QED
    BY <1>9, <2>1, <2>2, <2>3, <2>4 DEF CheckLogin
<1>10. CASE StorePlayer
  <2>1. /\ Head(q) \in SaveTask
        /\ q' \in Seq(LoginTask \cup SaveTask)
    BY <1>10 DEF StorePlayer, LoginTask, SaveTask
  <2>2. stored' \in [Player -> Value] /\ failed' \subseteq Player
    BY <1>10, <2>1 DEF StorePlayer, SaveTask
  <2>3. QED
    BY <1>10, <2>1, <2>2 DEF StorePlayer
<1>11. CASE UNCHANGED vars
  BY <1>11 DEF vars
<1>12. QED
  BY <1>1, <1>2, <1>4, <1>5, <1>6, <1>7, <1>8, <1>9, <1>10, <1>11 DEF Next

-----------------------------------------------------------------------------
(* The maps *)

\* SessionInv without the types, the part the lemmas below carry on
Agreement == HandlersByFd /\ NoDanglingConn /\ ConnLeadsToPlayer /\ OnlineIsRegistered

\* Only Accept, Disconnect and the login callback touch what connects players
\* with Connections; the other handlers at most note that f sent a frame.
LEMMA FrameKeepsAgreement ==
    ASSUME SessionInv, NEW f \in Fd, TakeFrame(f),
           UNCHANGED <<handlers, fd_to_player, player_conns, online>>
    PROVE  Agreement'
BY DEF SessionInv, TypeOK, Agreement, HandlersByFd, NoDanglingConn, ConnLeadsToPlayer,
       OnlineIsRegistered, TakeFrame

\* A new Connection gets a fd no map knows a Connection of.
LEMMA AcceptKeepsAgreement ==
    ASSUME SessionInv, NEW f \in Fd, NEW g \in Generation, Accept(f, g)
    PROVE  Agreement'
<1> USE DEF SessionInv, TypeOK
<1>1. HandlersByFd'
  BY FdOfConn DEF HandlersByFd, Accept
<1>2. NoDanglingConn'
  <2>1. active_conns[f] = NoConn
    BY DEF NoDanglingConn, Accept, Connected
  <2>2. \A p \in Player : player_conns[p] # NoConn => FdOf(player_conns[p]) # f
    BY FdOfConn DEF NoDanglingConn, Accept, Connected
  <2>3. QED
    BY <2>1, <2>2, FdOfConn DEF NoDanglingConn, Accept
<1>3. ConnLeadsToPlayer' /\ OnlineIsRegistered'
  BY DEF Accept, ConnLeadsToPlayer, OnlineIsRegistered
<1>4. QED
  BY <1>1, <1>2, <1>3 DEF Agreement

\* Unregistering a player does not touch the entries of the others.
LEMMA UnregisterKeepsOthers ==
    ASSUME SessionInv, NEW p \in Player, NEW r \in Player, r # p, player_conns[r] # NoConn
    PROVE  /\ ConnsWithout(p)[p] = NoConn
           /\ ConnsWithout(p)[r] = player_conns[r]
           /\ FdsWithout(p)[FdOf(player_conns[r])] = r
<1>1. ConnsWithout(p)[p] = NoConn /\ ConnsWithout(p)[r] = player_conns[r]
  BY DEF SessionInv, TypeOK, ConnsWithout
<1>2. player_conns[p] # NoConn => FdOf(player_conns[p]) # FdOf(player_conns[r])
  BY DEF SessionInv, ConnLeadsToPlayer
<1>3. FdOf(player_conns[r]) \in Fd /\ fd_to_player[FdOf(player_conns[r])] = r
  BY FdOfConn DEF SessionInv, TypeOK, ConnLeadsToPlayer
<1>4. FdsWithout(p)[FdOf(player_conns[r])] = r
  BY <1>2, <1>3 DEF SessionInv, TypeOK, FdsWithout
<1>5. QED
  BY <1>1, <1>4

\* The disconnect callback forgets the Connection before it deletes itself.
LEMMA DisconnectKeepsAgreement ==
    ASSUME SessionInv, NEW f \in Fd, Disconnect(f)
    PROVE  Agreement'
<1> USE DEF SessionInv, TypeOK
<1>1. HandlersByFd'
  BY DEF HandlersByFd, Disconnect
<1>2. CASE fd_to_player[f] = NoPlayer
  <2>1. \A p \in Player : player_conns[p] # NoConn => FdOf(player_conns[p]) # f
    BY <1>2, ServiceConstants DEF ConnLeadsToPlayer
  <2>2. NoDanglingConn'
    BY <1>2, <2>1, FdOfConn DEF NoDanglingConn, Disconnect
  <2>3. ConnLeadsToPlayer' /\ OnlineIsRegistered'
    BY <1>2 DEF Disconnect, ConnLeadsToPlayer, OnlineIsRegistered
  <2>4. QED
    BY <1>1, <2>2, <2>3 DEF Agreement
<1>3. CASE fd_to_player[f] # NoPlayer
  <2> DEFINE p == fd_to_player[f]
  <2>1. /\ p \in Player
        /\ fd_to_player' = FdsWithout(p)
        /\ player_conns' = ConnsWithout(p)
        /\ online' = online \ {p}
    BY <1>3 DEF Disconnect, Leave
  <2>2. /\ player_conns'[p] = NoConn
        /\ \A r \in Player \ {p} : player_conns'[r] = player_conns[r]
    BY <2>1 DEF ConnsWithout
  <2>3. \A r \in Player \ {p} : player_conns[r] # NoConn =>
           fd_to_player'[FdOf(player_conns[r])] = r
    BY <2>1, UnregisterKeepsOthers
  <2>4. \A r \in Player \ {p} : player_conns[r] # NoConn => FdOf(player_conns[r]) # f
    BY DEF ConnLeadsToPlayer
  <2>5. NoDanglingConn'
    <3>1. \A h \in Fd : h # f => handlers'[h] = handlers[h]
      BY DEF Disconnect
    <3>2. \A r \in Player : player_conns'[r] # NoConn =>
             player_conns'[r] = handlers'[FdOf(player_conns'[r])]
      BY <2>1, <2>2, <2>4, <3>1, FdOfConn DEF NoDanglingConn
    <3>3. \A h \in Fd : active_conns'[h] # NoConn => active_conns'[h] = handlers'[h]
      BY DEF Disconnect, NoDanglingConn
    <3>4. QED
      BY <3>2, <3>3 DEF NoDanglingConn
  <2>6. ConnLeadsToPlayer'
    BY <2>1, <2>2, <2>3 DEF ConnLeadsToPlayer
  <2>7. OnlineIsRegistered'
    BY <2>1, <2>2 DEF OnlineIsRegistered
  <2>8. QED
    BY <1>1, <2>5, <2>6, <2>7 DEF Agreement
<1>4. QED
  BY <1>2, <1>3

\* A player who logs in takes over the fd, whoever it belonged to is
\* unregistered, and the Connection bound is the one that has the fd now.
LEMMA LoginKeepsAgreement ==
    ASSUME SessionInv, LoginCallback
    PROVE  Agreement'
<1> USE DEF SessionInv, TypeOK
<1> DEFINE cb == Head(pending_callbacks)
           f  == cb.fd
           c  == active_conns[f]
           p  == cb.player
           old == fd_to_player[f]
           moved == old # NoPlayer /\ old # p
<1>1. cb \in Callback /\ f \in Fd
  <2>1. cb \in Callback
    BY DEF LoginCallback
  <2>2. QED
    BY <2>1 DEF Callback
<1>2. HandlersByFd' /\ UNCHANGED <<handlers, active_conns>>
  BY DEF HandlersByFd, LoginCallback
<1>3. CASE c = NoConn \/ p = NoPlayer
  BY <1>2, <1>3 DEF LoginCallback, Agreement, NoDanglingConn, ConnLeadsToPlayer,
                    OnlineIsRegistered
<1>4. CASE ~(c = NoConn \/ p = NoPlayer)
  <2>1. /\ p \in Player
        /\ c \in Conn
        /\ c = handlers[f]
        /\ FdOf(c) = f
    BY <1>1, <1>4 DEF Callback, NoDanglingConn, HandlersByFd
  <2>2. /\ online' = (IF moved THEN online \ {old} ELSE online) \cup {p}
        /\ fd_to_player' = [(IF moved THEN FdsWithout(old) ELSE fd_to_player)
                               EXCEPT ![f] = p]
        /\ player_conns' = [(IF moved THEN ConnsWithout(old) ELSE player_conns)
                               EXCEPT ![p] = c]
    BY <1>4, <2>1 DEF LoginCallback, BindPlayer, Leave
  <2>3. moved => old \in Player
    BY <1>1
  <2>4. player_conns'[p] = c /\ fd_to_player'[f] = p
    <3>1. player_conns'[p] = c
      BY <2>1, <2>2 DEF ConnsWithout
    <3>2. fd_to_player'[f] = p
      BY <1>1, <2>2, <2>3, UnregisterTyped
    <3>3. QED
      BY <3>1, <3>2
  <2>5. moved => player_conns'[old] = NoConn
    BY <2>1, <2>2, <2>3 DEF ConnsWithout
  <2>6. ASSUME NEW r \in Player, r # p, moved => r # old
        PROVE  player_conns'[r] = player_conns[r]
    BY <2>1, <2>2, <2>3, <2>6 DEF ConnsWithout
  <2>7. ASSUME NEW r \in Player, r # p, moved => r # old, player_conns[r] # NoConn
        PROVE  fd_to_player'[FdOf(player_conns[r])] = r
    <3>1. FdOf(player_conns[r]) # f
      BY <2>7, ServiceConstants DEF ConnLeadsToPlayer
    <3>2. fd_to_player[FdOf(player_conns[r])] = r /\ FdOf(player_conns[r]) \in Fd
      BY <2>7, FdOfConn DEF ConnLeadsToPlayer
    <3>3. moved => FdsWithout(old)[FdOf(player_conns[r])] = r
      BY <2>3, <2>7, UnregisterKeepsOthers
    <3>4. QED
      BY <1>1, <2>2, <2>3, <3>1, <3>2, <3>3, UnregisterTyped
  <2>8. NoDanglingConn'
    <3>1. \A r \in Player : player_conns'[r] # NoConn =>
             player_conns'[r] = handlers'[FdOf(player_conns'[r])]
      BY <1>2, <2>1, <2>4, <2>5, <2>6 DEF NoDanglingConn
    <3>2. QED
      BY <1>2, <3>1 DEF NoDanglingConn
  <2>9. ConnLeadsToPlayer'
    BY <2>1, <2>4, <2>5, <2>6, <2>7 DEF ConnLeadsToPlayer
  <2>10. OnlineIsRegistered'
    <3>1. \A r \in Player : r \in online' <=> player_conns'[r] # NoConn
      BY <2>1, <2>2, <2>4, <2>5, <2>6, FdOfConn DEF OnlineIsRegistered
    <3>2. online' \subseteq Player
      BY <2>1, <2>2
    <3>3. QED
      BY <3>1, <3>2 DEF OnlineIsRegistered
  <2>11. QED
    BY <1>2, <2>8, <2>9, <2>10 DEF Agreement
<1>5. QED
  BY <1>3, <1>4

\* Every step of the IO thread and of the database thread keeps the invariant.
LEMMA NextSession == SessionInv /\ [Next]_vars => SessionInv'
<1> SUFFICES ASSUME SessionInv, [Next]_vars
             PROVE  SessionInv'
  OBVIOUS
<1>1. TypeOK'
  BY NextTyped DEF SessionInv
<1>2. ASSUME NEW f \in Fd, NEW g \in Generation, Accept(f, g)
      PROVE  Agreement'
  BY <1>2, AcceptKeepsAgreement
<1>3. ASSUME NEW f \in Fd, NEW p \in Player, HandleLogin(f, p)
      PROVE  Agreement'
  BY <1>3, FrameKeepsAgreement DEF HandleLogin
<1>4. ASSUME NEW f \in Fd, HandleGather(f)
      PROVE  Agreement'
  BY <1>4, FrameKeepsAgreement DEF HandleGather, Change
<1>5. ASSUME NEW f \in Fd, HandleMove(f)
      PROVE  Agreement'
  BY <1>5, FrameKeepsAgreement DEF HandleMove, Change
<1>6. ASSUME NEW f \in Fd, HandleOther(f)
      PROVE  Agreement'
  BY <1>6, FrameKeepsAgreement DEF HandleOther
<1>7. ASSUME NEW f \in Fd, Disconnect(f)
      PROVE  Agreement'
  BY <1>7, DisconnectKeepsAgreement
<1>8. ASSUME LoginCallback
      PROVE  Agreement'
  BY <1>8, LoginKeepsAgreement
<1>9. ASSUME UNCHANGED <<handlers, active_conns, fd_to_player, player_conns, online>>
      PROVE  Agreement'
  BY <1>9 DEF SessionInv, Agreement, HandlersByFd, NoDanglingConn, ConnLeadsToPlayer,
              OnlineIsRegistered
<1>10. ASSUME CheckLogin \/ StorePlayer \/ UNCHANGED vars
       PROVE  Agreement'
  BY <1>9, <1>10 DEF CheckLogin, StorePlayer, vars
<1>11. Agreement'
  BY <1>2, <1>3, <1>4, <1>5, <1>6, <1>7, <1>8, <1>10 DEF Next
<1>12. QED
  BY <1>1, <1>11 DEF SessionInv, Agreement

-----------------------------------------------------------------------------
\* The invariant of the sessions holds in every reachable state.
THEOREM SessionInvariance == Spec => []SessionInv
BY InitSession, NextSession, PTL DEF Spec

\* Every variable of the service keeps its type: queues hold whole tasks and
\* callbacks, a map yields a Connection or nothing.
THEOREM TypeCorrect == Spec => []TypeOK
<1>1. SessionInv => TypeOK
  BY DEF SessionInv
<1>2. QED
  BY <1>1, SessionInvariance, PTL

\* No Connection that has deleted itself is in active_conns_ or player_conns_, so
\* SendToPlayer and the login callback never use one (OnPlayerDisconnected).
THEOREM NoDangling == Spec => []NoDanglingConn
<1>1. SessionInv => NoDanglingConn
  BY DEF SessionInv
<1>2. QED
  BY <1>1, SessionInvariance, PTL

\* The fd of a registered connection leads to its player, so the disconnect
\* callback finds whom it has to take out of the world.
THEOREM RegisteredIsFound == Spec => []ConnLeadsToPlayer
<1>1. SessionInv => ConnLeadsToPlayer
  BY DEF SessionInv
<1>2. QED
  BY <1>1, SessionInvariance, PTL

\* Nobody stays in the world without a connection (Leave and Unregister are
\* called together wherever a session ends).
THEOREM NoGhostsInWorld == Spec => []OnlineIsRegistered
<1>1. SessionInv => OnlineIsRegistered
  BY DEF SessionInv
<1>2. QED
  BY <1>1, SessionInvariance, PTL

-----------------------------------------------------------------------------
(* One session at a time *)

LoginsOf(p) == {i \in DOMAIN q : q[i].kind = "login" /\ q[i].player = p}

CallbacksOf(p) == {i \in DOMAIN pending_callbacks : pending_callbacks[i].player = p}

\* A login of p is read or waits to be called back, once, and only while p is away.
OneLogin(p) ==
    /\ \A i, j \in LoginsOf(p) : i = j
    /\ \A i, j \in CallbacksOf(p) : i = j
    /\ LoginsOf(p) # {} => CallbacksOf(p) = {}
    /\ LoginsOf(p) # {} \/ CallbacksOf(p) # {} => p \notin online

\* The last save of a player who left holds what they had, or the store does; it
\* is ahead of their login, whose callback brings it back.
KeptFor(p) ==
    /\ p \notin online =>
        /\ SavesOf(p) = {} => stored[p] = owned[p]
        /\ \A i \in SavesOf(p) : (\A j \in SavesOf(p) : j <= i) => q[i].value = owned[p]
    /\ \A i \in LoginsOf(p), j \in SavesOf(p) : j < i
    /\ \A i \in CallbacksOf(p) : pending_callbacks[i].saved = owned[p]

LoginInv ==
    /\ SessionInv
    /\ FdMapExact
    /\ \A p \in Single : OneLogin(p)
    /\ \A p \in Lucky : KeptFor(p)

\* A task at the end of the queue.
LEMMA TaskAppended ==
    ASSUME TypeOK, NEW t \in LoginTask \cup SaveTask, q' = Append(q, t), NEW x \in Player
    PROVE  LET n == Len(q) + 1
           IN  /\ LoginsOf(x)' =
                    LoginsOf(x) \cup {i \in {n} : t.kind = "login" /\ t.player = x}
               /\ SavesOf(x)' =
                    SavesOf(x) \cup {i \in {n} : t.kind = "save" /\ t.player = x}
               /\ \A i \in LoginsOf(x) \cup SavesOf(x) : i \in Nat /\ i < n /\ q'[i] = q[i]
               /\ n \in Nat /\ q'[n] = t
<1> DEFINE n == Len(q) + 1
<1>1. q \in Seq(LoginTask \cup SaveTask) /\ Len(q) \in Nat /\ DOMAIN q = 1 .. Len(q) /\ n \in Nat
  BY DEF TypeOK
<1>2. /\ DOMAIN q' = 1 .. n /\ q'[n] = t
      /\ \A i \in 1 .. Len(q) : q'[i] = q[i]
  BY <1>1
<1>3. /\ \A i \in DOMAIN q' : i \in DOMAIN q \/ i = n
      /\ \A i \in DOMAIN q : i \in DOMAIN q' /\ q'[i] = q[i] /\ i \in Nat /\ i < n
      /\ n \in DOMAIN q' /\ n \notin DOMAIN q
  BY <1>1, <1>2
<1> HIDE DEF n
<1>4. LoginsOf(x)' = LoginsOf(x) \cup {i \in {n} : t.kind = "login" /\ t.player = x}
  BY <1>2, <1>3 DEF LoginsOf
<1>5. SavesOf(x)' = SavesOf(x) \cup {i \in {n} : t.kind = "save" /\ t.player = x}
  BY <1>2, <1>3 DEF SavesOf
<1>6. \A i \in LoginsOf(x) \cup SavesOf(x) : i \in Nat /\ i < n /\ q'[i] = q[i]
  BY <1>3 DEF LoginsOf, SavesOf
<1> QED  BY <1>1, <1>2, <1>4, <1>5, <1>6 DEF n

\* SavePlayerAsync adds a save of a player in the world, and of nobody else.
LEMMA SaveAppended ==
    ASSUME TypeOK, NEW p \in Player, NEW v \in Value, q' = SavePlayerAsync(q, p, v),
           NEW x \in Player
    PROVE  /\ LoginsOf(x)' = LoginsOf(x)
           /\ x # p \/ p \notin online =>
                 SavesOf(x)' = SavesOf(x) /\ \A i \in SavesOf(x) : q'[i] = q[i]
           /\ x = p /\ p \in online =>
                 /\ SavesOf(x)' # {}
                 /\ \A i \in SavesOf(x)' : (\A j \in SavesOf(x)' : j <= i) => q'[i].value = v
<1>1. CASE p \notin online
  BY <1>1 DEF SavePlayerAsync, LoginsOf, SavesOf
<1>2. CASE p \in online
  <2> DEFINE t == [kind |-> "save", player |-> p, value |-> v]
             n == Len(q) + 1
  <2>1. t \in LoginTask \cup SaveTask /\ t.kind = "save" /\ t.player = p /\ t.value = v
    BY DEF SaveTask
  <2>2. q' = Append(q, t)
    BY <1>2 DEF SavePlayerAsync
  <2> HIDE DEF t
  <2>3. /\ LoginsOf(x)' = LoginsOf(x) \cup {i \in {n} : t.kind = "login" /\ t.player = x}
        /\ SavesOf(x)' = SavesOf(x) \cup {i \in {n} : t.kind = "save" /\ t.player = x}
        /\ \A i \in LoginsOf(x) \cup SavesOf(x) : i \in Nat /\ i < n /\ q'[i] = q[i]
        /\ n \in Nat /\ q'[n] = t
    BY <2>1, <2>2, TaskAppended
  <2> HIDE DEF n
  <2>4. ASSUME x = p
        PROVE  /\ SavesOf(x)' # {}
               /\ \A i \in SavesOf(x)' : (\A j \in SavesOf(x)' : j <= i) => q'[i].value = v
    <3>1. n \in SavesOf(x)' /\ \A i \in SavesOf(x)' : i = n \/ (i \in Nat /\ i < n)
      BY <2>1, <2>3, <2>4
    <3>2. ASSUME NEW i \in SavesOf(x)', \A j \in SavesOf(x)' : j <= i
          PROVE  i = n
      BY <2>3, <3>1, <3>2
    <3> QED  BY <2>1, <2>3, <3>1, <3>2
  <2> QED  BY <1>2, <2>1, <2>3, <2>4
<1> QED  BY <1>1, <1>2

\* The oldest task is taken, the others move up by one.
LEMMA TaskTaken ==
    ASSUME TypeOK, q # <<>>, q' = Tail(q), NEW x \in Player
    PROVE  /\ Head(q) = q[1]
           /\ q[1].kind = "login" /\ q[1].player = x <=> 1 \in LoginsOf(x)
           /\ q[1].kind = "save" /\ q[1].player = x <=> 1 \in SavesOf(x)
           /\ \A i \in LoginsOf(x)' : i \in Nat /\ i >= 1 /\ i + 1 \in LoginsOf(x)
           /\ \A i \in SavesOf(x)' : i \in Nat /\ i + 1 \in SavesOf(x) /\ q'[i] = q[i + 1]
           /\ \A i \in LoginsOf(x) : i \in Nat /\ i >= 1 /\ (i # 1 => i - 1 \in LoginsOf(x)')
           /\ \A i \in SavesOf(x) : i \in Nat /\ i >= 1 /\ (i # 1 => i - 1 \in SavesOf(x)')
<1> DEFINE S == LoginTask \cup SaveTask
<1>1. q \in Seq(S) /\ Len(q) \in Nat /\ Len(q) > 0 /\ DOMAIN q = 1 .. Len(q)
  BY DEF TypeOK
<1>2. /\ Tail(q) \in Seq(S) /\ Len(Tail(q)) = Len(q) - 1
      /\ \A i \in 1 .. Len(Tail(q)) : Tail(q)[i] = q[i + 1]
  BY <1>1, HeadTailProperties
<1> HIDE DEF S
<1>3. DOMAIN q' = 1 .. Len(q) - 1
  BY <1>1, <1>2
<1>4. Head(q) = q[1] /\ 1 \in DOMAIN q
  BY <1>1
<1>5. \A i \in DOMAIN q' : i \in Nat /\ i >= 1 /\ i + 1 \in DOMAIN q /\ q'[i] = q[i + 1]
  BY <1>1, <1>2, <1>3
<1>6. ASSUME NEW i \in DOMAIN q
      PROVE  i \in Nat /\ i >= 1 /\ (i # 1 => i - 1 \in DOMAIN q' /\ q'[i - 1] = q[i])
  <2>1. i \in Nat /\ i >= 1 /\ (i # 1 => i - 1 \in DOMAIN q' /\ (i - 1) + 1 = i)
    BY <1>1, <1>3, <1>6
  <2> QED  BY <1>5, <2>1
<1>7. /\ \A i \in LoginsOf(x)' : i \in Nat /\ i >= 1 /\ i + 1 \in LoginsOf(x)
      /\ \A i \in LoginsOf(x) : i \in Nat /\ i >= 1 /\ (i # 1 => i - 1 \in LoginsOf(x)')
  BY <1>5, <1>6 DEF LoginsOf
<1>8. /\ \A i \in SavesOf(x)' : i \in Nat /\ i + 1 \in SavesOf(x) /\ q'[i] = q[i + 1]
      /\ \A i \in SavesOf(x) : i \in Nat /\ i >= 1 /\ (i # 1 => i - 1 \in SavesOf(x)')
  BY <1>5, <1>6 DEF SavesOf
<1> QED  BY <1>4, <1>7, <1>8 DEF LoginsOf, SavesOf

\* A callback at the end of the pending ones, and the first of them taken.
LEMMA CallbackAppended ==
    ASSUME TypeOK, NEW cb \in Callback, pending_callbacks' = Append(pending_callbacks, cb),
           NEW x \in Player
    PROVE  LET n == Len(pending_callbacks) + 1
           IN  /\ CallbacksOf(x)' = CallbacksOf(x) \cup {i \in {n} : cb.player = x}
               /\ \A i \in CallbacksOf(x) : pending_callbacks'[i] = pending_callbacks[i]
               /\ pending_callbacks'[n] = cb
<1> DEFINE n == Len(pending_callbacks) + 1
           m == Len(pending_callbacks)
<1>1. pending_callbacks \in Seq(Callback) /\ m \in Nat /\ DOMAIN pending_callbacks = 1 .. m
  BY DEF TypeOK
<1>2. /\ DOMAIN pending_callbacks' = 1 .. n /\ pending_callbacks'[n] = cb
      /\ \A i \in 1 .. m : pending_callbacks'[i] = pending_callbacks[i]
  BY <1>1
<1>3. /\ \A i \in DOMAIN pending_callbacks' : i \in DOMAIN pending_callbacks \/ i = n
      /\ \A i \in DOMAIN pending_callbacks :
            i \in DOMAIN pending_callbacks' /\ pending_callbacks'[i] = pending_callbacks[i]
      /\ n \in DOMAIN pending_callbacks'
  BY <1>1, <1>2
<1> HIDE DEF n, m
<1> QED  BY <1>2, <1>3 DEF CallbacksOf, n

\* The first callback is taken.
LEMMA CallbackTaken ==
    ASSUME TypeOK, pending_callbacks # <<>>, pending_callbacks' = Tail(pending_callbacks),
           NEW x \in Player
    PROVE  /\ Head(pending_callbacks) = pending_callbacks[1]
           /\ Head(pending_callbacks) \in Callback
           /\ Head(pending_callbacks).player = x <=> 1 \in CallbacksOf(x)
           /\ \A i \in CallbacksOf(x)' :
                 i \in Nat /\ i + 1 \in CallbacksOf(x) /\ i >= 1
                 /\ pending_callbacks'[i] = pending_callbacks[i + 1]
<1> DEFINE c == pending_callbacks
<1>1. c \in Seq(Callback) /\ Len(c) \in Nat /\ Len(c) > 0 /\ DOMAIN c = 1 .. Len(c)
  BY DEF TypeOK
<1>2. /\ Tail(c) \in Seq(Callback) /\ Len(Tail(c)) = Len(c) - 1 /\ Head(c) \in Callback
      /\ \A i \in 1 .. Len(Tail(c)) : Tail(c)[i] = c[i + 1]
  BY <1>1, HeadTailProperties
<1>3. DOMAIN c' = 1 .. Len(c) - 1
  BY <1>1, <1>2
<1>4. Head(c) = c[1] /\ 1 \in DOMAIN c
  BY <1>1
<1>5. \A i \in DOMAIN c' : i \in Nat /\ i >= 1 /\ i + 1 \in DOMAIN c /\ c'[i] = c[i + 1]
  BY <1>1, <1>2, <1>3
<1> QED  BY <1>2, <1>4, <1>5 DEF CallbacksOf

\* A step that leaves the queues, the world and the store alone
LEMMA LoginsUntouched ==
    ASSUME LoginInv, NEW x \in Player,
           UNCHANGED <<q, pending_callbacks, online, owned, stored, twice, failed>>
    PROVE  /\ x \in Single' => OneLogin(x)'
           /\ x \in Lucky' => KeptFor(x)'
<1>1. Single' = Single /\ Lucky' = Lucky
  BY DEF Single, Lucky
<1>2. LoginsOf(x)' = LoginsOf(x) /\ CallbacksOf(x)' = CallbacksOf(x) /\ SavesOf(x)' = SavesOf(x)
  BY DEF LoginsOf, CallbacksOf, SavesOf
<1> QED  BY <1>1, <1>2 DEF LoginInv, OneLogin, KeptFor

\* Who is in the world changes what they have, and may have it saved: no login of
\* theirs is in flight that could be overtaken.
LEMMA ChangeKeepsLogins ==
    ASSUME LoginInv, NEW p \in Player, p \in online, NEW v \in Value,
           owned' = [owned EXCEPT ![p] = v], q' = q \/ q' = SavePlayerAsync(q, p, v),
           UNCHANGED <<pending_callbacks, online, stored, twice, failed>>, NEW x \in Player
    PROVE  /\ x \in Single' => OneLogin(x)'
           /\ x \in Lucky' => KeptFor(x)'
<1>1. Single' = Single /\ Lucky' = Lucky /\ Lucky \subseteq Single /\ TypeOK
  BY DEF Single, Lucky, LoginInv, SessionInv
<1>2. LoginsOf(x)' = LoginsOf(x) /\ CallbacksOf(x)' = CallbacksOf(x)
  <2>1. q' = q => LoginsOf(x)' = LoginsOf(x)
    BY DEF LoginsOf
  <2> QED  BY <1>1, <2>1, SaveAppended DEF CallbacksOf
<1>3. x \in Single' => OneLogin(x)'
  BY <1>1, <1>2 DEF LoginInv, OneLogin
<1>4. ASSUME x \in Lucky PROVE KeptFor(x)'
  <2>1. OneLogin(x) /\ KeptFor(x)
    BY <1>1, <1>4 DEF LoginInv
  <2>2. CASE x = p
    <3>1. LoginsOf(x)' = {} /\ CallbacksOf(x)' = {}
      BY <1>2, <2>1, <2>2 DEF OneLogin
    <3> QED  BY <2>2, <3>1 DEF KeptFor
  <2>3. CASE x # p
    <3>1. SavesOf(x)' = SavesOf(x) /\ \A i \in SavesOf(x) : q'[i] = q[i]
      <4>1. q' = q => SavesOf(x)' = SavesOf(x) /\ \A i \in SavesOf(x) : q'[i] = q[i]
        BY DEF SavesOf
      <4> QED  BY <1>1, <2>3, <4>1, SaveAppended
    <3>2. owned'[x] = owned[x]
      BY <1>1, <2>3 DEF TypeOK
    <3> QED  BY <1>2, <2>1, <3>1, <3>2 DEF KeptFor
  <2> QED  BY <2>2, <2>3
<1> QED  BY <1>1, <1>3, <1>4

\* HandleLogin: a second request makes the player one of twice; the first finds no
\* login of theirs, and all their saves ahead of it.
LEMMA LoginKeepsLogins ==
    ASSUME LoginInv, NEW f \in Fd, NEW p \in Player, HandleLogin(f, p), NEW x \in Player
    PROVE  /\ x \in Single' => OneLogin(x)'
           /\ x \in Lucky' => KeptFor(x)'
<1> DEFINE t == [kind |-> "login", fd |-> f, player |-> p, asker |-> handlers[f]]
           n == Len(q) + 1
<1>1. /\ q' = Append(q, t)
      /\ UNCHANGED <<online, owned, stored, pending_callbacks, failed>>
      /\ twice' = IF p \in online \/ LoginPending(p) THEN twice \cup {p} ELSE twice
      /\ t.kind = "login" /\ t.player = p
  BY DEF HandleLogin
<1>2. TypeOK /\ t \in LoginTask \cup SaveTask
  BY DEF LoginInv, SessionInv, HandleLogin, TakeFrame, Connected, LoginTask, TypeOK
<1> HIDE DEF t
<1>3. /\ LoginsOf(x)' = LoginsOf(x) \cup {i \in {n} : t.kind = "login" /\ t.player = x}
      /\ SavesOf(x)' = SavesOf(x) \cup {i \in {n} : t.kind = "save" /\ t.player = x}
      /\ \A i \in LoginsOf(x) \cup SavesOf(x) : i \in Nat /\ i < n /\ q'[i] = q[i]
  BY <1>1, <1>2, TaskAppended
<1> HIDE DEF n
<1>4. /\ SavesOf(x)' = SavesOf(x) /\ CallbacksOf(x)' = CallbacksOf(x)
      /\ LoginsOf(x)' = IF x = p THEN LoginsOf(x) \cup {n} ELSE LoginsOf(x)
  BY <1>1, <1>3 DEF CallbacksOf
<1>5. Single' \subseteq Single /\ Lucky' \subseteq Lucky /\ Lucky' \subseteq Single'
  BY <1>1 DEF Single, Lucky
<1>6. ASSUME x = p, x \in Single'
      PROVE  x \notin online /\ LoginsOf(x) = {} /\ CallbacksOf(x) = {}
  <2>1. x \notin online /\ ~LoginPending(x)
    BY <1>1, <1>6 DEF Single
  <2> QED  BY <2>1 DEF LoginPending, LoginsOf, CallbacksOf
<1>7. ASSUME x \in Single' PROVE OneLogin(x)'
  <2>1. OneLogin(x)
    BY <1>5, <1>7 DEF LoginInv
  <2>2. CASE x = p
    BY <1>1, <1>4, <1>6, <1>7, <2>2 DEF OneLogin
  <2>3. CASE x # p
    BY <1>1, <1>4, <2>1, <2>3 DEF OneLogin
  <2> QED  BY <2>2, <2>3
<1>8. ASSUME x \in Lucky' PROVE KeptFor(x)'
  <2>1. KeptFor(x)
    BY <1>5, <1>8 DEF LoginInv
  <2>2. \A i \in LoginsOf(x)', j \in SavesOf(x)' : j < i
    <3> TAKE i \in LoginsOf(x)', j \in SavesOf(x)'
    <3>1. CASE i = n
      BY <1>3, <1>4, <3>1
    <3>2. CASE i # n
      BY <1>4, <2>1, <3>2 DEF KeptFor
    <3> QED  BY <3>1, <3>2
  <2> QED  BY <1>1, <1>3, <1>4, <2>1, <2>2 DEF KeptFor
<1> QED  BY <1>7, <1>8

\* A player leaves the world after a save of what they have there.
LEMMA LeaveKeepsLogins ==
    ASSUME LoginInv, NEW p \in Player, q' = SavePlayerAsync(q, p, owned[p]),
           online' = online \ {p},
           UNCHANGED <<pending_callbacks, owned, stored, twice, failed>>, NEW x \in Player
    PROVE  /\ x \in Single' => OneLogin(x)'
           /\ x \in Lucky' => KeptFor(x)'
<1>1. Single' = Single /\ Lucky' = Lucky /\ Lucky \subseteq Single /\ TypeOK /\ owned[p] \in Value
  BY DEF Single, Lucky, LoginInv, SessionInv, TypeOK
<1>2. /\ LoginsOf(x)' = LoginsOf(x) /\ CallbacksOf(x)' = CallbacksOf(x)
      /\ x # p \/ p \notin online =>
            SavesOf(x)' = SavesOf(x) /\ \A i \in SavesOf(x) : q'[i] = q[i]
      /\ x = p /\ p \in online =>
            /\ SavesOf(x)' # {}
            /\ \A i \in SavesOf(x)' : (\A j \in SavesOf(x)' : j <= i) => q'[i].value = owned[p]
  BY <1>1, SaveAppended DEF CallbacksOf
<1>3. x \in Single' => OneLogin(x)'
  BY <1>1, <1>2 DEF LoginInv, OneLogin
<1>4. ASSUME x \in Lucky PROVE KeptFor(x)'
  <2>1. OneLogin(x) /\ KeptFor(x)
    BY <1>1, <1>4 DEF LoginInv
  <2>2. CASE x = p /\ p \in online
    <3>1. LoginsOf(x)' = {} /\ CallbacksOf(x)' = {}
      BY <1>2, <2>1, <2>2 DEF OneLogin
    <3> QED  BY <1>2, <2>2, <3>1 DEF KeptFor
  <2>3. CASE x # p \/ p \notin online
    BY <1>2, <2>1, <2>3 DEF KeptFor
  <2> QED  BY <2>2, <2>3
<1> QED  BY <1>1, <1>3, <1>4

\* CheckLogin: the login becomes a callback with what is stored; if the player is a
\* lucky one, none of their saves is left to write.
LEMMA CheckKeepsLogins ==
    ASSUME LoginInv, CheckLogin, NEW x \in Player
    PROVE  /\ x \in Single' => OneLogin(x)'
           /\ x \in Lucky' => KeptFor(x)'
<1> DEFINE t == Head(q)
           n == Len(pending_callbacks) + 1
<1>1. /\ TypeOK /\ q # <<>> /\ q' = Tail(q) /\ t.kind = "login"
      /\ UNCHANGED <<online, owned, stored, twice>>
  BY DEF LoginInv, SessionInv, CheckLogin
<1>2. t \in LoginTask
  BY <1>1 DEF TypeOK, LoginTask, SaveTask
<1>3. PICK known \in {t.player, NoPlayer}, saved \in {stored[t.player], 0} :
        /\ pending_callbacks' = Append(pending_callbacks,
              [fd |-> t.fd, player |-> known, saved |-> saved, asker |-> t.asker])
        /\ failed' = IF saved # stored[t.player] THEN failed \cup {t.player} ELSE failed
  BY DEF CheckLogin
<1> DEFINE cb == [fd |-> t.fd, player |-> known, saved |-> saved, asker |-> t.asker]
<1>4. cb \in Callback /\ cb.player = known /\ cb.saved = saved
  BY <1>1, <1>2, ServiceConstants DEF LoginTask, Callback, Value, TypeOK
<1>5. /\ t = q[1]
      /\ q[1].kind = "login" /\ q[1].player = x <=> 1 \in LoginsOf(x)
      /\ q[1].kind = "save" /\ q[1].player = x <=> 1 \in SavesOf(x)
      /\ \A i \in LoginsOf(x)' : i \in Nat /\ i >= 1 /\ i + 1 \in LoginsOf(x)
      /\ \A i \in SavesOf(x)' : i \in Nat /\ i + 1 \in SavesOf(x) /\ q'[i] = q[i + 1]
      /\ \A i \in LoginsOf(x) : i \in Nat /\ i >= 1 /\ (i # 1 => i - 1 \in LoginsOf(x)')
      /\ \A i \in SavesOf(x) : i \in Nat /\ i >= 1 /\ (i # 1 => i - 1 \in SavesOf(x)')
  BY <1>1, TaskTaken
<1>6. pending_callbacks' = Append(pending_callbacks, cb)
  BY <1>3
<1> HIDE DEF cb, t
<1>7. /\ CallbacksOf(x)' = CallbacksOf(x) \cup {i \in {n} : cb.player = x}
      /\ \A i \in CallbacksOf(x) : pending_callbacks'[i] = pending_callbacks[i]
      /\ pending_callbacks'[n] = cb
  BY <1>1, <1>4, <1>6, CallbackAppended
<1> HIDE DEF n
<1>8. known = x => 1 \in LoginsOf(x) /\ t.player = x
  BY <1>1, <1>3, <1>5, ServiceConstants
<1>9. Single' = Single /\ Lucky' \subseteq Lucky /\ Lucky \subseteq Single
  BY <1>1, <1>3 DEF Single, Lucky
<1>10. ASSUME x \in Single, known = x
       PROVE  LoginsOf(x)' = {} /\ CallbacksOf(x) = {} /\ x \notin online
  <2>1. OneLogin(x)
    BY <1>10 DEF LoginInv
  <2>2. \A i \in LoginsOf(x) : i = 1
    BY <1>8, <1>10, <2>1 DEF OneLogin
  <2>3. LoginsOf(x)' = {}
    BY <1>5, <2>2
  <2> QED  BY <1>8, <1>10, <2>1, <2>3 DEF OneLogin
<1>11. ASSUME x \in Single PROVE OneLogin(x)'
  <2>1. OneLogin(x)
    BY <1>11 DEF LoginInv
  <2>2. \A i, j \in LoginsOf(x)' : i = j
    BY <1>5, <2>1 DEF OneLogin
  <2>3. CASE known = x
    <3>1. \A i \in CallbacksOf(x)' : i = n
      BY <1>7, <1>10, <1>11, <2>3
    <3> QED  BY <1>1, <1>10, <1>11, <2>2, <2>3, <3>1 DEF OneLogin
  <2>4. CASE known # x
    <3>1. CallbacksOf(x)' = CallbacksOf(x)
      BY <1>4, <1>7, <2>4
    <3>2. LoginsOf(x)' # {} => LoginsOf(x) # {}
      BY <1>5
    <3> QED  BY <1>1, <2>1, <2>2, <3>1, <3>2 DEF OneLogin
  <2> QED  BY <2>3, <2>4
<1>12. ASSUME x \in Lucky' PROVE KeptFor(x)'
  <2>1. KeptFor(x) /\ x \in Single
    BY <1>9, <1>12 DEF LoginInv
  <2>2. 1 \notin SavesOf(x)
    BY <1>1, <1>5
  <2>3. ASSUME x \notin online, NEW i \in SavesOf(x)', \A j \in SavesOf(x)' : j <= i
        PROVE  q'[i].value = owned[x]
    <3>1. ASSUME NEW j \in SavesOf(x) PROVE j <= i + 1
      <4>1. j \in Nat /\ j - 1 \in SavesOf(x)' /\ i \in Nat
        BY <1>5, <2>2, <2>3
      <4>2. j - 1 <= i
        BY <2>3, <4>1
      <4> QED  BY <4>1, <4>2
    <3> QED  BY <1>5, <2>1, <2>3, <3>1 DEF KeptFor
  <2>4. x \notin online /\ SavesOf(x)' = {} => stored[x] = owned[x]
    BY <1>5, <2>1, <2>2 DEF KeptFor
  <2>5. \A i \in LoginsOf(x)', j \in SavesOf(x)' : j < i
    <3> TAKE i \in LoginsOf(x)', j \in SavesOf(x)'
    <3>1. i \in Nat /\ j \in Nat /\ i + 1 \in LoginsOf(x) /\ j + 1 \in SavesOf(x)
      BY <1>5
    <3>2. j + 1 < i + 1
      BY <2>1, <3>1 DEF KeptFor
    <3> QED  BY <3>1, <3>2
  <2>6. ASSUME NEW i \in CallbacksOf(x)' PROVE pending_callbacks'[i].saved = owned[x]
    <3>1. CASE known = x
      <4>1. i = n
        BY <1>7, <1>10, <2>1, <2>6, <3>1
      <4>2. saved = stored[x]
        BY <1>3, <1>8, <1>12, <3>1 DEF Lucky
      <4>3. SavesOf(x) = {}
        <5>1. \A j \in SavesOf(x) : j < 1 /\ j \in Nat /\ j >= 1
          BY <1>5, <1>8, <2>1, <3>1 DEF KeptFor
        <5> QED  BY <5>1
      <4>4. stored[x] = owned[x]
        BY <1>10, <2>1, <3>1, <4>3 DEF KeptFor
      <4> QED  BY <1>4, <1>7, <4>1, <4>2, <4>4
    <3>2. CASE known # x
      <4>1. i \in CallbacksOf(x)
        BY <1>4, <1>7, <2>6, <3>2
      <4> QED  BY <1>7, <2>1, <4>1 DEF KeptFor
    <3> QED  BY <3>1, <3>2
  <2> QED  BY <1>1, <2>3, <2>4, <2>5, <2>6 DEF KeptFor
<1> QED  BY <1>9, <1>11, <1>12

\* StorePlayer: a save is written, or its player is one the database failed.
LEMMA StoreKeepsLogins ==
    ASSUME LoginInv, StorePlayer, NEW x \in Player
    PROVE  /\ x \in Single' => OneLogin(x)'
           /\ x \in Lucky' => KeptFor(x)'
<1> DEFINE t == Head(q)
<1>1. /\ TypeOK /\ q # <<>> /\ q' = Tail(q) /\ t.kind = "save"
      /\ UNCHANGED <<online, owned, pending_callbacks, twice>>
      /\ \/ stored' = [stored EXCEPT ![t.player] = t.value] /\ failed' = failed
         \/ failed' = failed \cup {t.player} /\ stored' = stored
  BY DEF LoginInv, SessionInv, StorePlayer
<1>2. t \in SaveTask /\ t.player \in Player
  <2>1. t \in SaveTask
    BY <1>1 DEF TypeOK, LoginTask, SaveTask
  <2> QED  BY <2>1 DEF SaveTask
<1>3. /\ t = q[1]
      /\ q[1].kind = "login" /\ q[1].player = x <=> 1 \in LoginsOf(x)
      /\ q[1].kind = "save" /\ q[1].player = x <=> 1 \in SavesOf(x)
      /\ \A i \in LoginsOf(x)' : i \in Nat /\ i >= 1 /\ i + 1 \in LoginsOf(x)
      /\ \A i \in SavesOf(x)' : i \in Nat /\ i + 1 \in SavesOf(x) /\ q'[i] = q[i + 1]
      /\ \A i \in LoginsOf(x) : i \in Nat /\ i >= 1 /\ (i # 1 => i - 1 \in LoginsOf(x)')
      /\ \A i \in SavesOf(x) : i \in Nat /\ i >= 1 /\ (i # 1 => i - 1 \in SavesOf(x)')
  BY <1>1, TaskTaken
<1> HIDE DEF t
<1>4. CallbacksOf(x)' = CallbacksOf(x)
  BY <1>1 DEF CallbacksOf
<1>5. Single' = Single /\ Lucky' \subseteq Lucky /\ Lucky \subseteq Single
  BY <1>1 DEF Single, Lucky
<1>6. ASSUME x \in Single PROVE OneLogin(x)'
  <2>1. OneLogin(x)
    BY <1>6 DEF LoginInv
  <2>2. \A i, j \in LoginsOf(x)' : i = j
    BY <1>3, <2>1 DEF OneLogin
  <2>3. LoginsOf(x)' # {} => LoginsOf(x) # {}
    BY <1>3
  <2> QED  BY <1>1, <1>4, <2>1, <2>2, <2>3 DEF OneLogin
<1>7. ASSUME x \in Lucky' PROVE KeptFor(x)'
  <2>1. KeptFor(x)
    BY <1>5, <1>7 DEF LoginInv
  <2>2. ASSUME x \notin online, NEW i \in SavesOf(x)', \A j \in SavesOf(x)' : j <= i
        PROVE  q'[i].value = owned[x]
    <3>1. ASSUME NEW j \in SavesOf(x) PROVE j <= i + 1
      <4>1. CASE j = 1
        BY <1>3, <2>2, <4>1
      <4>2. CASE j # 1
        <5>1. j \in Nat /\ j - 1 \in SavesOf(x)' /\ i \in Nat
          BY <1>3, <2>2, <4>2
        <5>2. j - 1 <= i
          BY <2>2, <5>1
        <5> QED  BY <5>1, <5>2
      <4> QED  BY <4>1, <4>2
    <3> QED  BY <1>3, <2>1, <2>2, <3>1 DEF KeptFor
  <2>3. ASSUME x \notin online, SavesOf(x)' = {} PROVE stored'[x] = owned[x]
    <3>1. \A i \in SavesOf(x) : i = 1
      BY <1>3, <2>3
    <3>2. CASE 1 \in SavesOf(x)
      <4>1. q[1].value = owned[x]
        BY <2>1, <2>3, <3>1, <3>2 DEF KeptFor
      <4>2. t.player = x /\ x \notin failed'
        BY <1>3, <1>7, <3>2 DEF Lucky
      <4>3. stored' = [stored EXCEPT ![x] = t.value]
        BY <1>1, <4>2
      <4> QED  BY <1>1, <1>3, <4>1, <4>3 DEF TypeOK
    <3>3. CASE 1 \notin SavesOf(x)
      <4>1. SavesOf(x) = {} /\ t.player # x
        BY <1>1, <1>3, <3>1, <3>3
      <4>2. stored'[x] = stored[x]
        BY <1>1, <1>2, <4>1 DEF TypeOK
      <4> QED  BY <2>1, <2>3, <4>1, <4>2 DEF KeptFor
    <3> QED  BY <3>2, <3>3
  <2>4. \A i \in LoginsOf(x)', j \in SavesOf(x)' : j < i
    <3> TAKE i \in LoginsOf(x)', j \in SavesOf(x)'
    <3>1. i \in Nat /\ j \in Nat /\ i + 1 \in LoginsOf(x) /\ j + 1 \in SavesOf(x)
      BY <1>3
    <3>2. j + 1 < i + 1
      BY <2>1, <3>1 DEF KeptFor
    <3> QED  BY <3>1, <3>2
  <2> QED  BY <1>1, <1>4, <2>1, <2>2, <2>3, <2>4 DEF KeptFor
<1> QED  BY <1>5, <1>6, <1>7

\* LoginCallback: whoever had the fd before leaves, as in LeaveKeepsLogins; who logs
\* in has what the callback brings, and it was the only login of theirs.
LEMMA CallbackKeepsLogins ==
    ASSUME LoginInv, LoginCallback, NEW x \in Player
    PROVE  /\ x \in Single' => OneLogin(x)'
           /\ x \in Lucky' => KeptFor(x)'
<1> DEFINE cb == Head(pending_callbacks)
           f  == cb.fd
           c  == active_conns[f]
           p  == cb.player
           old == fd_to_player[f]
           moved == old # NoPlayer /\ old # p
<1>1. /\ TypeOK /\ pending_callbacks # <<>> /\ pending_callbacks' = Tail(pending_callbacks)
      /\ UNCHANGED <<stored, twice, failed>>
  BY DEF LoginInv, SessionInv, LoginCallback
<1>2. /\ cb = pending_callbacks[1] /\ cb \in Callback
      /\ p = x <=> 1 \in CallbacksOf(x)
      /\ \A i \in CallbacksOf(x)' :
            i \in Nat /\ i + 1 \in CallbacksOf(x) /\ i >= 1
            /\ pending_callbacks'[i] = pending_callbacks[i + 1]
  BY <1>1, CallbackTaken
<1>3. Single' = Single /\ Lucky' = Lucky /\ Lucky \subseteq Single
  BY <1>1 DEF Single, Lucky
<1>4. x \in Single => /\ \A i, j \in CallbacksOf(x)' : i = j
                      /\ CallbacksOf(x)' # {} => CallbacksOf(x) # {}
                      /\ p = x => CallbacksOf(x)' = {} /\ LoginsOf(x) = {} /\ x \notin online
  <2> SUFFICES ASSUME x \in Single
               PROVE  /\ \A i, j \in CallbacksOf(x)' : i = j
                      /\ CallbacksOf(x)' # {} => CallbacksOf(x) # {}
                      /\ p = x => CallbacksOf(x)' = {} /\ LoginsOf(x) = {} /\ x \notin online
    OBVIOUS
  <2>1. OneLogin(x)
    BY DEF LoginInv
  <2>2. \A i, j \in CallbacksOf(x)' : i = j
    BY <1>2, <2>1 DEF OneLogin
  <2>3. CallbacksOf(x)' # {} => CallbacksOf(x) # {}
    BY <1>2
  <2>4. ASSUME p = x PROVE CallbacksOf(x)' = {} /\ LoginsOf(x) = {} /\ x \notin online
    <3>1. \A i \in CallbacksOf(x) : i = 1
      BY <1>2, <2>1, <2>4 DEF OneLogin
    <3>2. CallbacksOf(x)' = {}
      BY <1>2, <3>1
    <3> QED  BY <1>2, <2>1, <2>4, <3>2 DEF OneLogin
  <2> QED  BY <2>2, <2>3, <2>4
<1>5. CASE c = NoConn \/ p = NoPlayer
  <2>1. UNCHANGED <<online, owned, q>>
    BY <1>5 DEF LoginCallback
  <2>2. LoginsOf(x)' = LoginsOf(x) /\ SavesOf(x)' = SavesOf(x)
    BY <2>1 DEF LoginsOf, SavesOf
  <2>3. x \in Single' => OneLogin(x)'
    BY <1>3, <1>4, <2>1, <2>2 DEF LoginInv, OneLogin
  <2>4. x \in Lucky' => KeptFor(x)'
    BY <1>1, <1>2, <1>3, <2>1, <2>2 DEF LoginInv, KeptFor
  <2> QED  BY <2>3, <2>4
<1>6. CASE ~(c = NoConn \/ p = NoPlayer)
  <2>1. p \in Player /\ f \in Fd /\ cb.saved \in Value /\ c \in Conn
    BY <1>1, <1>2, <1>6 DEF Callback, TypeOK
  <2>2. FdOf(c) = f
    BY <1>6, <2>1 DEF LoginInv, SessionInv, NoDanglingConn, HandlersByFd
  <2>3. /\ q' = IF moved THEN SavePlayerAsync(q, old, owned[old]) ELSE q
        /\ online' = (IF moved THEN online \ {old} ELSE online) \cup {p}
        /\ owned' = [owned EXCEPT ![p] = cb.saved]
    BY <1>6, <2>2 DEF LoginCallback, BindPlayer, Leave
  <2>4. moved => old \in Player /\ owned[old] \in Value
    BY <1>1, <2>1 DEF TypeOK
  <2>5. /\ LoginsOf(x)' = LoginsOf(x)
        /\ ~moved \/ x # old \/ old \notin online =>
              SavesOf(x)' = SavesOf(x) /\ \A i \in SavesOf(x) : q'[i] = q[i]
        /\ moved /\ x = old /\ old \in online =>
              /\ SavesOf(x)' # {}
              /\ \A i \in SavesOf(x)' :
                    (\A j \in SavesOf(x)' : j <= i) => q'[i].value = owned[old]
    <3>1. CASE moved
      BY <1>1, <2>3, <2>4, <3>1, SaveAppended
    <3>2. CASE ~moved
      BY <2>3, <3>2 DEF LoginsOf, SavesOf
    <3> QED  BY <3>1, <3>2
  <2>6. owned'[x] = IF x = p THEN cb.saved ELSE owned[x]
    BY <1>1, <2>1, <2>3 DEF TypeOK
  <2>7. x # p /\ x \notin online => x \notin online'
    BY <2>3
  <2>8. x \in Single' => OneLogin(x)'
    BY <1>3, <1>4, <2>3, <2>5, <2>7 DEF LoginInv, OneLogin
  <2>9. ASSUME x \in Lucky PROVE KeptFor(x)'
    <3>1. OneLogin(x) /\ KeptFor(x)
      BY <1>3, <2>9 DEF LoginInv
    <3>2. CASE x = p
      <4>1. x \in online' /\ LoginsOf(x)' = {} /\ CallbacksOf(x)' = {}
        BY <1>3, <1>4, <2>3, <2>5, <2>9, <3>2
      <4> QED  BY <4>1 DEF KeptFor
    <3>3. CASE x # p
      <4>1. \A i \in CallbacksOf(x)' : pending_callbacks'[i].saved = owned[x]
        BY <1>2, <3>1 DEF KeptFor
      <4>2. CASE moved /\ x = old /\ old \in online
        <5>1. LoginsOf(x)' = {}
          BY <2>5, <3>1, <4>2 DEF OneLogin
        <5> QED  BY <2>5, <2>6, <3>3, <4>1, <4>2, <5>1 DEF KeptFor
      <4>3. CASE ~(moved /\ x = old /\ old \in online)
        <5>1. x \notin online' => x \notin online
          BY <2>3, <4>3
        <5> QED  BY <1>1, <2>5, <2>6, <3>1, <3>3, <4>1, <4>3, <5>1 DEF KeptFor
      <4> QED  BY <4>2, <4>3
    <3> QED  BY <3>2, <3>3
  <2> QED  BY <1>3, <2>8, <2>9
<1> QED  BY <1>5, <1>6

-----------------------------------------------------------------------------
(* The fds *)

\* A closing connection takes its fd from the player it is registered with.
LEMMA DisconnectKeepsFds ==
    ASSUME LoginInv, NEW f \in Fd, Disconnect(f)
    PROVE  FdMapExact'
<1> USE DEF LoginInv, SessionInv, TypeOK
<1> DEFINE p == fd_to_player[f]
<1>1. /\ Single' = Single /\ handlers' = [handlers EXCEPT ![f] = NoConn] /\ Connected(f)
  BY DEF Disconnect, Single
<1> SUFFICES ASSUME NEW h \in Fd, fd_to_player'[h] \in Single
             PROVE  Connected(h)' /\ player_conns'[fd_to_player'[h]] = handlers'[h]
  BY <1>1 DEF FdMapExact
<1>2. CASE p = NoPlayer
  <2>1. fd_to_player' = fd_to_player /\ player_conns' = player_conns
    BY <1>2 DEF Disconnect
  <2>2. h # f
    BY <1>2, <2>1, ServiceConstants DEF Single
  <2> QED  BY <1>1, <2>1, <2>2 DEF FdMapExact, Connected
<1>3. CASE p # NoPlayer
  <2>1. /\ p \in Player /\ fd_to_player' = FdsWithout(p) /\ player_conns' = ConnsWithout(p)
    BY <1>3 DEF Disconnect
  <2> DEFINE r == fd_to_player'[h]
  <2>2. fd_to_player[h] = r /\ r \in Player /\ Connected(h) /\ player_conns[r] = handlers[h]
    <3>1. fd_to_player'[h] = fd_to_player[h] \/ fd_to_player'[h] = NoPlayer
      BY <2>1 DEF FdsWithout
    <3>2. NoPlayer \notin Single /\ Single \subseteq Player
      BY ServiceConstants DEF Single
    <3> QED  BY <3>1, <3>2 DEF FdMapExact
  <2>3. FdOf(player_conns[r]) = h
    BY <2>2 DEF HandlersByFd, Connected
  <2>4. r # p
    <3> SUFFICES ASSUME r = p PROVE FALSE
      OBVIOUS
    <3>1. player_conns[p] # NoConn
      BY <2>2 DEF Connected
    <3>2. FdsWithout(p)[h] = NoPlayer
      BY <2>3, <3>1 DEF FdsWithout
    <3> QED  BY <2>1, <3>2, ServiceConstants DEF Single
  <2>5. h # f
    BY <2>2, <2>4
  <2>6. player_conns'[r] = player_conns[r]
    BY <2>1, <2>2, <2>4 DEF ConnsWithout
  <2> QED  BY <1>1, <2>2, <2>5, <2>6 DEF Connected
<1> QED  BY <1>2, <1>3

\* Who logs in was offline, so no fd led to them; whoever had the fd loses it.
LEMMA CallbackKeepsFds ==
    ASSUME LoginInv, LoginCallback
    PROVE  FdMapExact'
<1> USE DEF LoginInv, SessionInv, TypeOK
<1> DEFINE cb == Head(pending_callbacks)
           f  == cb.fd
           c  == active_conns[f]
           p  == cb.player
           old == fd_to_player[f]
           moved == old # NoPlayer /\ old # p
<1>1. Single' = Single /\ handlers' = handlers /\ Single \subseteq Player /\ NoPlayer \notin Single
  BY ServiceConstants DEF LoginCallback, Single
<1>2. CASE c = NoConn \/ p = NoPlayer
  BY <1>1, <1>2 DEF LoginCallback, FdMapExact, Connected
<1>3. CASE ~(c = NoConn \/ p = NoPlayer)
  <2>0. cb \in Callback /\ (p \in Player => 1 \in CallbacksOf(p))
    <3>1. cb \in Callback
      BY DEF LoginCallback
    <3>2. p \in Player => 1 \in CallbacksOf(p)
      BY CallbackTaken DEF LoginCallback
    <3> QED  BY <3>1, <3>2
  <2>1. p \in Player /\ f \in Fd /\ c \in Conn /\ c = handlers[f] /\ FdOf(c) = f
    BY <1>3, <2>0 DEF Callback, NoDanglingConn, HandlersByFd
  <2>2. /\ fd_to_player' = [(IF moved THEN FdsWithout(old) ELSE fd_to_player) EXCEPT ![f] = p]
        /\ player_conns' = [(IF moved THEN ConnsWithout(old) ELSE player_conns) EXCEPT ![p] = c]
    BY <1>3, <2>1 DEF LoginCallback, BindPlayer
  <2>3. moved => old \in Player
    BY <2>1
  <2>4. fd_to_player'[f] = p /\ player_conns'[p] = c
    <3>1. player_conns'[p] = c
      BY <2>1, <2>2 DEF ConnsWithout
    <3>2. fd_to_player'[f] = p
      BY <2>1, <2>2, <2>3, UnregisterTyped
    <3> QED  BY <3>1, <3>2
  <2> SUFFICES ASSUME NEW h \in Fd, fd_to_player'[h] \in Single
               PROVE  Connected(h) /\ player_conns'[fd_to_player'[h]] = handlers[h]
    BY <1>1 DEF FdMapExact, Connected
  <2>5. CASE h = f
    BY <1>3, <2>1, <2>4, <2>5 DEF Connected
  <2>6. CASE h # f
    <3> DEFINE r == fd_to_player'[h]
    <3>1. r = fd_to_player[h]
      <4>1. r = fd_to_player[h] \/ r = NoPlayer
        BY <2>1, <2>2, <2>3, <2>6 DEF FdsWithout
      <4> QED  BY <1>1, <4>1
    <3>2. Connected(h) /\ player_conns[r] = handlers[h] /\ r \in Player
      BY <1>1, <3>1 DEF FdMapExact
    <3>3. r # p
      <4> SUFFICES ASSUME r = p PROVE FALSE
        OBVIOUS
      <4>1. p \notin online
        BY <2>0, <2>1 DEF OneLogin
      <4> QED  BY <3>2, <4>1 DEF OnlineIsRegistered, Connected
    <3>4. ~(moved /\ r = old)
      <4> SUFFICES ASSUME moved, r = old PROVE FALSE
        OBVIOUS
      <4>1. player_conns[r] = handlers[f] /\ player_conns[r] = handlers[h]
        BY <2>1, <3>2 DEF FdMapExact
      <4> QED  BY <1>3, <2>1, <2>6, <4>1 DEF HandlersByFd
    <3>5. player_conns'[r] = player_conns[r]
      BY <2>1, <2>2, <2>3, <3>2, <3>3, <3>4 DEF ConnsWithout
    <3> QED  BY <3>2, <3>5
  <2> QED  BY <2>5, <2>6
<1> QED  BY <1>2, <1>3

\* Every step keeps the invariant of the logins.
LEMMA NextLogin == LoginInv /\ [Next]_vars => LoginInv'
<1> SUFFICES ASSUME LoginInv, [Next]_vars
             PROVE  LoginInv'
  OBVIOUS
<1>1. SessionInv'
  BY NextSession DEF LoginInv
<1>2. Single' \subseteq Player /\ Lucky' \subseteq Player
  BY DEF Single, Lucky
<1> DEFINE Kept == \A x \in Player : /\ x \in Single' => OneLogin(x)'
                                     /\ x \in Lucky' => KeptFor(x)'
<1>3. ASSUME UNCHANGED <<handlers, fd_to_player, player_conns>>, Single' \subseteq Single
      PROVE  FdMapExact'
  BY <1>3 DEF LoginInv, FdMapExact, Connected
<1>4. ASSUME NEW f \in Fd, NEW g \in Generation, Accept(f, g)
      PROVE  FdMapExact' /\ Kept
  <2>1. Kept
    BY <1>4, LoginsUntouched DEF Accept
  <2>2. Single' = Single /\ UNCHANGED <<fd_to_player, player_conns>> /\ ~Connected(f)
        /\ handlers' = [handlers EXCEPT ![f] = <<f, g>>]
    BY <1>4 DEF Accept, Single
  <2>3. FdMapExact'
    <3> SUFFICES ASSUME NEW h \in Fd, fd_to_player[h] \in Single
                 PROVE  Connected(h)' /\ player_conns[fd_to_player[h]] = handlers'[h]
      BY <2>2 DEF FdMapExact
    <3>1. Connected(h) /\ player_conns[fd_to_player[h]] = handlers[h]
      BY DEF LoginInv, FdMapExact
    <3>2. h # f
      BY <2>2, <3>1
    <3>3. handlers'[h] = handlers[h]
      BY <2>2, <3>2 DEF LoginInv, SessionInv, TypeOK
    <3> QED  BY <3>1, <3>3 DEF Connected
  <2> QED  BY <2>1, <2>3
<1>5. ASSUME NEW f \in Fd, NEW p \in Player, HandleLogin(f, p)
      PROVE  FdMapExact' /\ Kept
  <2>1. Kept
    BY <1>5, LoginKeepsLogins
  <2>2. FdMapExact'
    BY <1>3, <1>5 DEF HandleLogin, Single
  <2> QED  BY <2>1, <2>2
<1>6. ASSUME NEW f \in Fd, HandleGather(f) \/ HandleMove(f)
      PROVE  FdMapExact' /\ Kept
  <2> DEFINE p == fd_to_player[f]
             v == owned[p] + 1
  <2>1. /\ Change(f) /\ (q' = q \/ q' = SavePlayerAsync(q, p, owned'[p]))
        /\ UNCHANGED <<handlers, fd_to_player, player_conns, online, stored, pending_callbacks,
                       twice, failed>>
    BY <1>6 DEF HandleGather, HandleMove
  <2>2. /\ p \in online /\ p \in Player /\ owned' = [owned EXCEPT ![p] = v]
        /\ owned \in [Player -> Value] /\ owned[p] < MaxValue
    BY <2>1 DEF Change, LoginInv, SessionInv, TypeOK
  <2>3. v \in Value
    <3>1. owned[p] \in 0 .. MaxValue
      BY <2>2 DEF Value
    <3> QED  BY <2>2, <3>1, ServiceConstants DEF Value
  <2>4. owned'[p] = v
    BY <2>2
  <2> HIDE DEF p, v
  <2>5. Kept
    BY <2>1, <2>2, <2>3, <2>4, ChangeKeepsLogins
  <2>6. FdMapExact'
    BY <1>3, <2>1 DEF Single
  <2> QED  BY <2>5, <2>6
<1>7. ASSUME NEW f \in Fd, HandleOther(f)
      PROVE  FdMapExact' /\ Kept
  <2>1. Kept
    BY <1>7, LoginsUntouched DEF HandleOther
  <2>2. FdMapExact'
    BY <1>3, <1>7 DEF HandleOther, Single
  <2> QED  BY <2>1, <2>2
<1>8. ASSUME NEW f \in Fd, Disconnect(f)
      PROVE  FdMapExact' /\ Kept
  <2>1. FdMapExact'
    BY <1>8, DisconnectKeepsFds
  <2>2. CASE fd_to_player[f] = NoPlayer
    <3>1. Kept
      BY <1>8, <2>2, LoginsUntouched DEF Disconnect
    <3> QED  BY <2>1, <3>1
  <2>3. CASE fd_to_player[f] # NoPlayer
    <3> DEFINE p == fd_to_player[f]
    <3>1. p \in Player
      BY <2>3 DEF LoginInv, SessionInv, TypeOK
    <3>2. /\ q' = SavePlayerAsync(q, p, owned[p]) /\ online' = online \ {p}
          /\ UNCHANGED <<pending_callbacks, owned, stored, twice, failed>>
      BY <1>8, <2>3 DEF Disconnect, Leave
    <3> HIDE DEF p
    <3>3. Kept
      BY <3>1, <3>2, LeaveKeepsLogins
    <3> QED  BY <2>1, <3>3
  <2> QED  BY <2>2, <2>3
<1>9. ASSUME LoginCallback PROVE FdMapExact' /\ Kept
  BY <1>9, CallbackKeepsFds, CallbackKeepsLogins
<1>10. ASSUME CheckLogin PROVE FdMapExact' /\ Kept
  <2>1. Kept
    BY <1>10, CheckKeepsLogins
  <2>2. FdMapExact'
    BY <1>3, <1>10 DEF CheckLogin, Single
  <2> QED  BY <2>1, <2>2
<1>11. ASSUME StorePlayer PROVE FdMapExact' /\ Kept
  <2>1. Kept
    BY <1>11, StoreKeepsLogins
  <2>2. FdMapExact'
    BY <1>3, <1>11 DEF StorePlayer, Single
  <2> QED  BY <2>1, <2>2
<1>12. ASSUME UNCHANGED vars PROVE FdMapExact' /\ Kept
  <2>1. Kept
    BY <1>12, LoginsUntouched DEF vars
  <2>2. FdMapExact'
    BY <1>3, <1>12 DEF vars, Single
  <2> QED  BY <2>1, <2>2
<1>13. FdMapExact' /\ Kept
  <2> HIDE DEF Kept
  <2> QED  BY <1>4, <1>5, <1>6, <1>7, <1>8, <1>9, <1>10, <1>11, <1>12 DEF Next
<1> QED  BY <1>1, <1>2, <1>13 DEF LoginInv

\* The empty server satisfies it.
LEMMA InitLogin == Init => LoginInv
<1> SUFFICES ASSUME Init PROVE LoginInv
  OBVIOUS
<1>1. SessionInv
  BY InitSession
<1>2. FdMapExact
  BY ServiceConstants DEF Init, FdMapExact, Single
<1>3. \A p \in Player : LoginsOf(p) = {} /\ CallbacksOf(p) = {} /\ SavesOf(p) = {}
  BY DEF Init, LoginsOf, CallbacksOf, SavesOf
<1>4. \A p \in Player : OneLogin(p) /\ KeptFor(p)
  BY <1>3 DEF Init, OneLogin, KeptFor
<1> QED  BY <1>1, <1>2, <1>4 DEF LoginInv, Single, Lucky

\* The invariant of the logins holds in every reachable state.
LEMMA LoginInvariance == Spec => []LoginInv
<1>1. Init => LoginInv
  BY InitLogin
<1>2. LoginInv /\ [Next]_vars => LoginInv'
  BY NextLogin
<1> QED  BY <1>1, <1>2, PTL DEF Spec

-----------------------------------------------------------------------------
\* fd_to_player_ leads from a fd to a player only while the connection that has the
\* fd is the one the player is registered with: a reused fd never acts for the
\* player of an earlier connection, who did not log in twice.
THEOREM FdsAreCurrent == Spec => []FdMapExact
<1>1. LoginInv => FdMapExact
  BY DEF LoginInv
<1> QED  BY <1>1, LoginInvariance, PTL

\* Every set of natural numbers has a least one.
LEMMA Least ==
    ASSUME NEW T \in SUBSET Nat, T # {}
    PROVE  \E x \in T : \A y \in T : x <= y
<1> DEFINE R == OpToRel(<, Nat)
<1>1. IsWellFoundedOn(R, Nat)
  BY NatLessThanWellFounded
<1>2. \A x, y \in Nat : y < x => <<y, x>> \in R
  BY DEF OpToRel
<1> HIDE DEF R
<1>3. PICK x \in T : \A y \in T : ~ (<<y, x>> \in R)
  BY <1>1, WFMin
<1>4. \A y \in T : y \in Nat /\ x \in Nat /\ ~(y < x)
  BY <1>2, <1>3
<1> QED  BY <1>4

\* Of the saves of a player one is the last.
LEMMA LastSave ==
    ASSUME TypeOK, NEW p \in Player, SavesOf(p) # {}
    PROVE  \E i \in SavesOf(p) : \A j \in SavesOf(p) : j <= i
<1> DEFINE n == Len(q)
           T == {m \in 0 .. n : n - m \in SavesOf(p)}
<1>1. n \in Nat /\ SavesOf(p) \subseteq 1 .. n
  BY DEF TypeOK, SavesOf
<1>2. \A j \in SavesOf(p) : n - j \in T
  <2> TAKE j \in SavesOf(p)
  <2>1. j \in 1 .. n
    BY <1>1
  <2>2. n - j \in 0 .. n /\ n - (n - j) = j
    BY <1>1, <2>1
  <2> QED  BY <2>2
<1>3. T \in SUBSET Nat /\ T # {}
  BY <1>2
<1>4. \E x \in T : \A y \in T : x <= y
  BY <1>3, Least
<1>5. PICK x \in T : \A y \in T : x <= y
  BY <1>4
<1>6. n - x \in SavesOf(p) /\ x \in 0 .. n
  BY <1>5
<1>7. \A j \in SavesOf(p) : j <= n - x
  <2> TAKE j \in SavesOf(p)
  <2>1. j \in 1 .. n /\ x <= n - j
    BY <1>1, <1>2, <1>5
  <2> QED  BY <1>1, <1>6, <2>1
<1> QED  BY <1>6, <1>7

\* What a player had when they left is stored, or is the last thing on its way to
\* the store, unless they had a second session or the database failed
\* (OnPlayerDisconnected saves before Leave, and so does BindPlayer).
THEOREM LeaversAreSaved == Spec => []LeaversSaved
<1>1. LoginInv => LeaversSaved
  <2> SUFFICES ASSUME LoginInv, NEW p \in Lucky \ online
               PROVE  FinallyStored(p) = owned[p]
    BY DEF LeaversSaved
  <2>1. KeptFor(p) /\ p \in Player /\ TypeOK
    BY DEF LoginInv, SessionInv, Lucky, Single
  <2>2. CASE SavesOf(p) = {}
    BY <2>1, <2>2 DEF KeptFor, FinallyStored
  <2>3. CASE SavesOf(p) # {}
    <3> DEFINE l == CHOOSE i \in SavesOf(p) : \A j \in SavesOf(p) : j <= i
    <3>1. l \in SavesOf(p) /\ \A j \in SavesOf(p) : j <= l
      BY <2>1, <2>3, LastSave
    <3>2. FinallyStored(p) = q[l].value
      BY <2>3 DEF FinallyStored
    <3> HIDE DEF l
    <3> QED  BY <2>1, <3>1, <3>2 DEF KeptFor
  <2> QED  BY <2>2, <2>3
<1> QED  BY <1>1, LoginInvariance, PTL

\* Who comes back has what they left with: the login's read is behind every save
\* in the one queue, and nothing changes for a player who is away.
THEOREM ComesBackUnharmed == Spec => RestoredOnLogin
<1>1. LoginInv /\ [Next]_vars =>
        [\A p \in (online' \ online) \cap Lucky : owned'[p] = owned[p]]_vars
  <2> SUFFICES ASSUME LoginInv, Next, NEW p \in online' \ online, p \in Lucky
               PROVE  owned'[p] = owned[p]
    OBVIOUS
  <2>1. LoginCallback
    BY DEF Next, Accept, HandleLogin, HandleGather, HandleMove, HandleOther, Disconnect, Leave,
           CheckLogin, StorePlayer
  <2> DEFINE cb == Head(pending_callbacks)
  <2>2. p \in Player /\ TypeOK /\ KeptFor(p)
    BY DEF LoginInv, SessionInv, Lucky, Single
  <2>3. online' # online
    OBVIOUS
  <2>4. BindPlayer(active_conns[cb.fd], cb.player, cb.saved)
    BY <2>1, <2>3 DEF LoginCallback
  <2>5. cb.player = p /\ owned' = [owned EXCEPT ![p] = cb.saved]
    BY <2>4 DEF BindPlayer, Leave
  <2>6. cb = pending_callbacks[1] /\ 1 \in CallbacksOf(p)
    <3>1. pending_callbacks # <<>> /\ pending_callbacks' = Tail(pending_callbacks)
      BY <2>1 DEF LoginCallback
    <3> QED  BY <2>2, <2>5, <3>1, CallbackTaken
  <2>7. cb.saved = owned[p]
    BY <2>2, <2>6 DEF KeptFor
  <2> QED  BY <2>2, <2>5, <2>7 DEF TypeOK
<1> QED  BY <1>1, LoginInvariance, PTL DEF Spec, RestoredOnLogin

\* A player who never logged in twice leaves the world with their own connection
\* only: when it closes, or when it logs in as somebody else.
THEOREM LeavesByOwnConnection == Spec => LeavesWithOwnConnection
<1>1. LoginInv /\ [Next]_vars =>
        [\A p \in (online \ online') \cap Single :
            \/ handlers'[FdOf(player_conns[p])] = NoConn
            \/ fd_to_player'[FdOf(player_conns[p])] \notin {p, NoPlayer}]_vars
  <2> SUFFICES ASSUME LoginInv, Next, NEW p \in online \ online', p \in Single
               PROVE  \/ handlers'[FdOf(player_conns[p])] = NoConn
                      \/ fd_to_player'[FdOf(player_conns[p])] \notin {p, NoPlayer}
    OBVIOUS
  <2>0. online' # online /\ TypeOK /\ HandlersByFd /\ FdMapExact /\ NoDanglingConn
    BY DEF LoginInv, SessionInv
  <2>1. LoginCallback \/ \E f \in Fd : Disconnect(f)
    BY <2>0 DEF Next, Accept, HandleLogin, HandleGather, HandleMove, HandleOther, CheckLogin,
                StorePlayer
  <2>2. ASSUME NEW f \in Fd, fd_to_player[f] = p PROVE FdOf(player_conns[p]) = f
    BY <2>0, <2>2 DEF FdMapExact, HandlersByFd, Connected
  <2>3. ASSUME NEW f \in Fd, Disconnect(f)
        PROVE  handlers'[FdOf(player_conns[p])] = NoConn
    <3>1. fd_to_player[f] = p /\ handlers' = [handlers EXCEPT ![f] = NoConn]
      BY <2>0, <2>3 DEF Disconnect, Leave
    <3> QED  BY <2>0, <2>2, <3>1 DEF TypeOK
  <2>4. ASSUME LoginCallback
        PROVE  fd_to_player'[FdOf(player_conns[p])] \notin {p, NoPlayer}
    <3> DEFINE cb == Head(pending_callbacks)
               c  == active_conns[cb.fd]
               old == fd_to_player[cb.fd]
               moved == old # NoPlayer /\ old # cb.player
    <3>1. c # NoConn /\ cb.player # NoPlayer /\ BindPlayer(c, cb.player, cb.saved)
      BY <2>0, <2>4 DEF LoginCallback
    <3>2. cb \in Callback
      BY <2>0, <2>4 DEF LoginCallback, TypeOK
    <3>3. cb.fd \in Fd /\ cb.player \in Player /\ c \in Conn
      BY <2>0, <3>1, <3>2 DEF Callback, TypeOK
    <3>4. FdOf(c) = cb.fd
      BY <2>0, <3>1, <3>3 DEF NoDanglingConn, HandlersByFd
    <3>5. /\ online' = (IF moved THEN online \ {old} ELSE online) \cup {cb.player}
          /\ fd_to_player' = [(IF moved THEN FdsWithout(old) ELSE fd_to_player)
                                 EXCEPT ![cb.fd] = cb.player]
      BY <3>1, <3>4 DEF BindPlayer, Leave
    <3>6. old = p /\ moved
      BY <3>5
    <3>7. FdsWithout(old) \in [Fd -> Player \cup {NoPlayer}]
      BY <2>0, <3>6, UnregisterTyped DEF Single
    <3>8. fd_to_player'[cb.fd] = cb.player
      BY <3>3, <3>5, <3>6, <3>7
    <3> QED  BY <2>2, <3>1, <3>3, <3>6, <3>8
  <2> QED  BY <2>1, <2>3, <2>4
<1> QED  BY <1>1, LoginInvariance, PTL DEF Spec, LeavesWithOwnConnection
=============================================================================
