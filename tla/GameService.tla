---------------------------- MODULE GameService ----------------------------
(***************************************************************************)
(* Sessions of the game server: which Connection stands for which player.  *)
(*                                                                         *)
(* The IO thread accepts connections, runs the frame handlers and the      *)
(* disconnect callback; a Login is checked on the database thread, and its *)
(* outcome comes back as a callback of the event loop that finds the       *)
(* connection again by its fd. The kernel gives a closed fd to a later     *)
(* connection. Each handler, task and callback is one action: the two      *)
(* threads share the queues only.                                          *)
(*                                                                         *)
(* What a player owns (PlayerState) is one number, a counter of the        *)
(* changes to it; 0 is the state a player without a record starts with.    *)
(***************************************************************************)
EXTENDS Integers, Sequences

CONSTANTS
    Fd,             \* fds the kernel hands out
    Generation,     \* distinguishes the Connections that had the same fd
    Player,
    NoConn, NoPlayer,
    MaxValue,       \* bound of the model: changes to what a player owns
    MaxPending      \* bound of the model: work queued when a request is taken

ASSUME ServiceConstants ==
    /\ NoConn \notin Fd \X Generation
    /\ NoPlayer \notin Player
    /\ MaxValue \in Nat
    /\ MaxPending \in Nat

Conn == Fd \X Generation
FdOf(c) == c[1]     \* GetFd()
Value == 0 .. MaxValue

VARIABLES
    handlers,           \* EventLoop::handlers_: the Connection that owns each fd
    active_conns,       \* active_conns_
    fd_to_player,       \* fd_to_player_
    player_conns,       \* player_conns_
    online,             \* WorldService: the keys of players_
    owned,              \* what each player has there; of one who left, what they had
    stored,             \* the players collection in Mongo
    q,                  \* DbWorker::q_
    pending_callbacks,  \* EventLoop::pending_callbacks_
    twice,              \* history: who asked to log in while online or about to be
    failed              \* history: whose record was not read or not written

vars == <<handlers, active_conns, fd_to_player, player_conns, online, owned, stored,
          q, pending_callbacks, twice, failed>>

LoginTask == [kind : {"login"}, fd : Fd, player : Player, asker : Conn]
SaveTask == [kind : {"save"}, player : Player, value : Value]
Callback == [fd : Fd, player : Player \cup {NoPlayer}, saved : Value, asker : Conn]

Init ==
    /\ handlers = [f \in Fd |-> NoConn]
    /\ active_conns = [f \in Fd |-> NoConn]
    /\ fd_to_player = [f \in Fd |-> NoPlayer]
    /\ player_conns = [p \in Player |-> NoConn]
    /\ online = {}
    /\ owned = [p \in Player |-> 0]
    /\ stored = [p \in Player |-> 0]
    /\ q = <<>>
    /\ pending_callbacks = <<>>
    /\ twice = {}
    /\ failed = {}

Connected(f) == handlers[f] # NoConn

\* A bound of the model: requests are taken while little work is queued.
MayQueue == Len(q) + Len(pending_callbacks) < MaxPending

-----------------------------------------------------------------------------
(* What the handlers are made of *)

\* Mutant: the snapshot is taken too late, it finds nobody in the world.
SaveNobody(tasks, p, v) == tasks

\* SavePlayerAsync takes a snapshot of a player who is in the world; v is what
\* they have there.
SavePlayerAsync(tasks, p, v) ==
    IF p \in online
    THEN Append(tasks, [kind |-> "save", player |-> p, value |-> v])
    ELSE tasks

\* Mutant: fd_to_player_ keeps the fd.
FdsWith(p) == fd_to_player

\* UnregisterPlayerConn(p): fd_to_player_ loses the fd of the connection that p
\* is registered with, whatever fd the caller has at hand.
FdsWithout(p) ==
    IF player_conns[p] # NoConn
    THEN [fd_to_player EXCEPT ![FdOf(player_conns[p])] = NoPlayer]
    ELSE fd_to_player

\* Mutant: player_conns_ keeps the Connection.
ConnsWith(p) == player_conns

ConnsWithout(p) == [player_conns EXCEPT ![p] = NoConn]

\* Mutant: the player stays in the world.
Stay(p) == online

\* WorldService::Leave
Leave(p) == online \ {p}

-----------------------------------------------------------------------------
(* The IO thread *)

Accept(f, g) ==
    /\ ~Connected(f)
    /\ handlers' = [handlers EXCEPT ![f] = <<f, g>>]
    /\ UNCHANGED <<active_conns, fd_to_player, player_conns, online, owned, stored,
                   q, pending_callbacks, twice, failed>>

\* OnServerFrame on the way to every handler
TakeFrame(f) ==
    /\ Connected(f)
    /\ active_conns' = [active_conns EXCEPT ![f] = handlers[f]]

LoginPending(p) ==
    \/ \E i \in DOMAIN q : q[i].kind = "login" /\ q[i].player = p
    \/ \E i \in DOMAIN pending_callbacks : pending_callbacks[i].player = p

\* HandleLogin only posts the check. asker is history: the code keeps the fd.
HandleLogin(f, p) ==
    /\ TakeFrame(f)
    /\ MayQueue
    /\ q' = Append(q, [kind |-> "login", fd |-> f, player |-> p, asker |-> handlers[f]])
    /\ twice' = IF p \in online \/ LoginPending(p) THEN twice \cup {p} ELSE twice
    /\ UNCHANGED <<handlers, fd_to_player, player_conns, online, owned, stored,
                   pending_callbacks, failed>>

\* The world accepts a request that changes what the player of f has there.
Change(f) ==
    LET p == fd_to_player[f]
    IN  /\ TakeFrame(f)
        /\ p \in online
        /\ owned[p] < MaxValue
        /\ owned' = [owned EXCEPT ![p] = @ + 1]

\* Craft, Gather, PlaceBuilding and VoxelEdit save at once.
HandleGather(f) ==
    LET p == fd_to_player[f]
    IN  /\ Change(f)
        /\ MayQueue
        /\ q' = SavePlayerAsync(q, p, owned'[p])
        /\ UNCHANGED <<handlers, fd_to_player, player_conns, online, stored,
                       pending_callbacks, twice, failed>>

\* Move and SelectMap leave that to a later save.
HandleMove(f) ==
    /\ Change(f)
    /\ UNCHANGED <<handlers, fd_to_player, player_conns, online, stored, q,
                   pending_callbacks, twice, failed>>

\* Any other request, and one that is refused: it leaves the rest alone. So does
\* what Register posts: its callback only answers.
HandleOther(f) ==
    /\ TakeFrame(f)
    /\ UNCHANGED <<handlers, fd_to_player, player_conns, online, owned, stored,
                   q, pending_callbacks, twice, failed>>

\* OnClose: the disconnect callback (OnPlayerDisconnected), then Unregister.
Disconnect(f) ==
    LET p == fd_to_player[f]
    IN  /\ Connected(f)
        /\ active_conns' = [active_conns EXCEPT ![f] = NoConn]
        /\ IF p = NoPlayer
           THEN UNCHANGED <<fd_to_player, player_conns, online, q>>
           ELSE /\ q' = SavePlayerAsync(q, p, owned[p])
                /\ online' = Leave(p)
                /\ fd_to_player' = FdsWithout(p)
                /\ player_conns' = ConnsWithout(p)
        /\ handlers' = [handlers EXCEPT ![f] = NoConn]
        /\ UNCHANGED <<owned, stored, pending_callbacks, twice, failed>>

\* Mutant: the player the fd was bound to before stays.
BindPlayerToo(c, p, saved) ==
    /\ online' = online \cup {p}
    /\ fd_to_player' = [fd_to_player EXCEPT ![FdOf(c)] = p]
    /\ player_conns' = [player_conns EXCEPT ![p] = c]
    /\ owned' = [owned EXCEPT ![p] = saved]
    /\ UNCHANGED q

\* Binding the fd of c to p; a player the fd was bound to before leaves first.
BindPlayer(c, p, saved) ==
    LET f     == FdOf(c)
        old   == fd_to_player[f]
        moved == old # NoPlayer /\ old # p
    IN  /\ q' = IF moved THEN SavePlayerAsync(q, old, owned[old]) ELSE q
        /\ online' = (IF moved THEN Leave(old) ELSE online) \cup {p}
        /\ fd_to_player' = [(IF moved THEN FdsWithout(old) ELSE fd_to_player)
                               EXCEPT ![f] = p]
        /\ player_conns' = [(IF moved THEN ConnsWithout(old) ELSE player_conns)
                               EXCEPT ![p] = c]
        /\ owned' = [owned EXCEPT ![p] = saved]

\* Mutant: a refused login binds too.
LoginCallbackAnyway ==
    /\ pending_callbacks # <<>>
    /\ LET cb == Head(pending_callbacks)
           c  == active_conns[cb.fd]
       IN  IF c = NoConn
           THEN UNCHANGED <<fd_to_player, player_conns, online, owned, q>>
           ELSE BindPlayer(c, cb.player, cb.saved)
    /\ pending_callbacks' = Tail(pending_callbacks)
    /\ UNCHANGED <<handlers, active_conns, stored, twice, failed>>

\* The callback HandleLogin posted: it goes to the connection that has the fd
\* now and has sent a frame, if there is one. A refused login only answers.
LoginCallback ==
    /\ pending_callbacks # <<>>
    /\ LET cb == Head(pending_callbacks)
           c  == active_conns[cb.fd]
       IN  IF c = NoConn \/ cb.player = NoPlayer
           THEN UNCHANGED <<fd_to_player, player_conns, online, owned, q>>
           ELSE BindPlayer(c, cb.player, cb.saved)
    /\ pending_callbacks' = Tail(pending_callbacks)
    /\ UNCHANGED <<handlers, active_conns, stored, twice, failed>>

-----------------------------------------------------------------------------
(* The database thread *)

\* Mutant: a login overtakes the tasks queued before it.
CheckLoginFirst ==
    /\ \E i \in DOMAIN q :
          /\ q[i].kind = "login"
          /\ \E known \in {q[i].player, NoPlayer} :
                pending_callbacks' = Append(pending_callbacks,
                   [fd |-> q[i].fd, player |-> known, saved |-> stored[q[i].player],
                    asker |-> q[i].asker])
          /\ q' = SubSeq(q, 1, i - 1) \o SubSeq(q, i + 1, Len(q))
    /\ UNCHANGED <<handlers, active_conns, fd_to_player, player_conns, online, owned, stored,
                   twice, failed>>

\* One task after the other. Whether the password is right is the client's
\* affair; a login that succeeds reads what the player has stored, and a read
\* that fails looks like a player without a record.
CheckLogin ==
    /\ q # <<>>
    /\ LET t == Head(q)
       IN  /\ t.kind = "login"
           /\ \E known \in {t.player, NoPlayer}, saved \in {stored[t.player], 0} :
                 /\ pending_callbacks' = Append(pending_callbacks,
                       [fd |-> t.fd, player |-> known, saved |-> saved, asker |-> t.asker])
                 /\ failed' = IF saved # stored[t.player] THEN failed \cup {t.player}
                                                         ELSE failed
    /\ q' = Tail(q)
    /\ UNCHANGED <<handlers, active_conns, fd_to_player, player_conns, online, owned, stored,
                   twice>>

\* A write that fails is logged and dropped.
StorePlayer ==
    /\ q # <<>>
    /\ LET t == Head(q)
       IN  /\ t.kind = "save"
           /\ \/ stored' = [stored EXCEPT ![t.player] = t.value] /\ UNCHANGED failed
              \/ failed' = failed \cup {t.player} /\ UNCHANGED stored
    /\ q' = Tail(q)
    /\ UNCHANGED <<handlers, active_conns, fd_to_player, player_conns, online, owned,
                   pending_callbacks, twice>>

-----------------------------------------------------------------------------
Next ==
    \/ \E f \in Fd, g \in Generation : Accept(f, g)
    \/ \E f \in Fd, p \in Player : HandleLogin(f, p)
    \/ \E f \in Fd : HandleGather(f)
    \/ \E f \in Fd : HandleMove(f)
    \/ \E f \in Fd : HandleOther(f)
    \/ \E f \in Fd : Disconnect(f)
    \/ LoginCallback
    \/ CheckLogin
    \/ StorePlayer

Spec == Init /\ [][Next]_vars

-----------------------------------------------------------------------------
(* Properties *)

TypeOK ==
    /\ handlers \in [Fd -> Conn \cup {NoConn}]
    /\ active_conns \in [Fd -> Conn \cup {NoConn}]
    /\ fd_to_player \in [Fd -> Player \cup {NoPlayer}]
    /\ player_conns \in [Player -> Conn \cup {NoConn}]
    /\ online \subseteq Player
    /\ owned \in [Player -> Value]
    /\ stored \in [Player -> Value]
    /\ q \in Seq(LoginTask \cup SaveTask)
    /\ pending_callbacks \in Seq(Callback)
    /\ twice \subseteq Player
    /\ failed \subseteq Player

\* Nothing keeps a Connection past its OnClose, where it deletes itself: a
\* pointer in active_conns_ or player_conns_ is the handler of its own fd. The
\* code checks pointers for null only (SendToPlayer, the login callback).
NoDanglingConn ==
    /\ \A f \in Fd : active_conns[f] # NoConn => active_conns[f] = handlers[f]
    /\ \A p \in Player :
          player_conns[p] # NoConn => player_conns[p] = handlers[FdOf(player_conns[p])]

\* player_conns_ and fd_to_player_ agree: the fd of a player's connection leads
\* back to that player, so the disconnect callback finds them.
ConnLeadsToPlayer ==
    \A p \in Player :
        player_conns[p] # NoConn => fd_to_player[FdOf(player_conns[p])] = p

\* The players in the world are those with a registered connection: nobody
\* stays behind in the world, and nobody is registered without being in it.
OnlineIsRegistered == online = {p \in Player : player_conns[p] # NoConn}

\* What a player will have in the store once the queue is drained
SavesOf(p) == {i \in DOMAIN q : q[i].kind = "save" /\ q[i].player = p}
FinallyStored(p) ==
    IF SavesOf(p) = {} THEN stored[p]
    ELSE q[CHOOSE i \in SavesOf(p) : \A j \in SavesOf(p) : j <= i].value

\* The players who never asked for a second session, and of these the ones whom
\* the database never failed
Single == Player \ twice
Lucky == Single \ failed

\* Whoever left the world left nothing there: what they had last is in the store
\* or is the last thing on its way to it (SavePlayerAsync before every Leave).
\* Only a second session of their own or the database can take it away.
LeaversSaved == \A p \in Lucky \ online : FinallyStored(p) = owned[p]

\* fd_to_player_ knows the fds of the players' present connections only: no
\* connection acts for a player of whom another one had its fd before.
FdMapExact ==
    \A f \in Fd : fd_to_player[f] \in Single =>
        Connected(f) /\ player_conns[fd_to_player[f]] = handlers[f]

\* A player who comes back finds what they left with.
RestoredOnLogin ==
    [][\A p \in (online' \ online) \cap Lucky : owned'[p] = owned[p]]_vars

\* A player leaves the world only with the connection they are registered with:
\* when it closes or logs in as somebody else.
LeavesWithOwnConnection ==
    [][\A p \in (online \ online') \cap Single :
          \/ handlers'[FdOf(player_conns[p])] = NoConn
          \/ fd_to_player'[FdOf(player_conns[p])] \notin {p, NoPlayer}]_vars

\* A login binds the connection it was asked on, and is dropped if that closed.
LoginBindsItsAsker ==
    [][\A f \in Fd : fd_to_player'[f] # NoPlayer /\ fd_to_player'[f] # fd_to_player[f]
          => Head(pending_callbacks).asker = handlers[f]]_vars
=============================================================================
