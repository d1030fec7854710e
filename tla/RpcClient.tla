------------------------------ MODULE RpcClient ------------------------------
(***************************************************************************)
(* RpcClient objects of one process: each has an EventLoop that runs in a  *)
(* thread of its own and a Connection registered with it, and is used by   *)
(* the thread of its owner; a second thread may make calls of its own, for *)
(* which next_request_id_ is atomic and the sends have a mutex. All share  *)
(* the process's fds, and a number that is closed is given to the next     *)
(* socket.                                                                 *)
(*                                                                         *)
(* Every client connects once, so a socket has the name of the client that *)
(* opened it. The Connection is taken from Connection.tla as far as the    *)
(* client sees it: answers come whole. The numbers that epoll and eventfd  *)
(* take are left out.                                                      *)
(***************************************************************************)
EXTENDS Integers, FiniteSets, FiniteSetsExt

CONSTANTS
    Clients,    \* how many clients the process makes
    MaxFaults   \* bound of the model: faults of the network (see Fault)

ASSUME ClientConstants == {Clients, MaxFaults} \subseteq Nat

Client == 1 .. Clients
Fd == 1 .. Clients
None == 0       \* no client, and the fd -1

VARIABLES
    fdtable,    \* the socket behind each fd of the process
    socket,     \* what the kernel and the server know of each socket
    server_fd,  \* server_fd_
    conn,       \* fd_ of the Connection in handlers_
    loop,       \* where the loop thread is: "none", "new", "wait", "read", "ended"
    running,    \* running_
    woken,      \* the eventfd of the loop is readable
    next_id,    \* next_request_id_
    pending,    \* pending_requests_: the ids whose promise waits
    call,       \* the request the owner has made
    future,     \* and the value of its future
    does,       \* where the owner's thread is in an operation
    faults,     \* how many faults there were
    crossed     \* history: a client used the socket of another one

loopVars == <<loop, running, woken>>
callVars == <<next_id, pending, call, future>>
vars == <<fdtable, socket, server_fd, conn, loop, running, woken,
          next_id, pending, call, future, does, faults, crossed>>

Unused == [req |-> {}, rsp |-> {}, ready |-> FALSE, gone |-> FALSE, torn |-> FALSE]
NoCall == [client |-> None, id |-> 0, op |-> "none"]
NoValue == [call |-> NoCall, ok |-> FALSE]
Empty == [NoValue EXCEPT !.call.op = "empty"]

Init ==
    /\ fdtable = [n \in Fd |-> None]
    /\ socket = [s \in Client |-> Unused]
    /\ server_fd = [c \in Client |-> None]
    /\ conn = [c \in Client |-> None]
    /\ loop = [c \in Client |-> "none"]
    /\ running = [c \in Client |-> FALSE]
    /\ woken = [c \in Client |-> FALSE]
    /\ next_id = [c \in Client |-> 1]
    /\ pending = [c \in Client |-> {}]
    /\ call = [c \in Client |-> NoCall]
    /\ future = [c \in Client |-> NoValue]
    /\ does = [c \in Client |-> "unborn"]
    /\ faults = 0
    /\ crossed = FALSE

-----------------------------------------------------------------------------
(* The kernel *)

\* A connection refused, a send that takes a part or fails, a wait that ends
\* before the answer: as many as the bound allows.
Fault == faults < MaxFaults /\ faults' = faults + 1

LowestFree == Min({n \in Fd : fdtable[n] = None})

Behind(n) == IF n = None THEN None ELSE fdtable[n]

\* close(n), called for client c: the socket behind the number is closed,
\* whosever it is. EBADF if there is none.
Close(c, n) ==
    LET s == Behind(n)
    IN  /\ fdtable' = IF s = None THEN fdtable ELSE [fdtable EXCEPT ![n] = None]
        /\ socket' = IF s = None THEN socket ELSE [socket EXCEPT ![s] = Unused]
        /\ crossed' = (crossed \/ s \notin {None, c})

-----------------------------------------------------------------------------
(* The owner's thread. Continue(c, d) is where it is afterwards. *)

Continue(c, d) == does' = [does EXCEPT ![c] = d]

\* RpcClient(): the thread is there, it has not begun to Run.
Construct(c) ==
    /\ loop' = [loop EXCEPT ![c] = "new"]
    /\ UNCHANGED <<fdtable, socket, server_fd, conn, running, woken, callVars,
                   faults, crossed>>

\* Connect: socket() ...
OpenSocket(c) ==
    /\ fdtable' = [fdtable EXCEPT ![LowestFree] = c]
    /\ server_fd' = [server_fd EXCEPT ![c] = LowestFree]
    /\ Continue(c, "connect")
    /\ UNCHANGED <<socket, conn, loopVars, callVars, faults, crossed>>

\* Mutant: the socket of a refused connection stays open.
ConnectLeaks(c, ok) ==
    /\ does[c] = "connect"
    /\ IF ok
       THEN /\ Behind(server_fd[c]) = c
            /\ conn' = [conn EXCEPT ![c] = server_fd[c]]
            /\ UNCHANGED <<server_fd, faults>>
       ELSE /\ Fault
            /\ server_fd' = [server_fd EXCEPT ![c] = None]
            /\ UNCHANGED conn
    /\ UNCHANGED <<fdtable, socket, crossed, loopVars, callVars>>

\* ... then connect(), which is refused or lets the Connection be registered.
Connect(c, ok) ==
    /\ does[c] = "connect"
    /\ IF ok
       THEN /\ Behind(server_fd[c]) = c
            /\ conn' = [conn EXCEPT ![c] = server_fd[c]]
            /\ UNCHANGED <<fdtable, socket, server_fd, faults, crossed>>
       ELSE /\ IF Behind(server_fd[c]) = c THEN Fault ELSE UNCHANGED faults
            /\ Close(c, server_fd[c])
            /\ server_fd' = [server_fd EXCEPT ![c] = None]
            /\ UNCHANGED conn
    /\ UNCHANGED <<loopVars, callVars>>

\* Mutant: the id stays the same.
BeginCallSameId(c, op) ==
    /\ call' = [call EXCEPT ![c] = [client |-> c, id |-> next_id[c], op |-> op]]
    /\ future' = [future EXCEPT ![c] = NoValue]
    /\ pending' = [pending EXCEPT ![c] = @ \cup {next_id[c]}]
    /\ Continue(c, "send")
    /\ UNCHANGED <<fdtable, socket, server_fd, conn, loopVars, next_id, faults, crossed>>

\* Call: the promise is in pending_requests_ before anything is sent ...
BeginCall(c, op) ==
    /\ call' = [call EXCEPT ![c] = [client |-> c, id |-> next_id[c], op |-> op]]
    /\ future' = [future EXCEPT ![c] = NoValue]
    /\ next_id' = [next_id EXCEPT ![c] = @ + 1]
    /\ pending' = [pending EXCEPT ![c] = @ \cup {next_id[c]}]
    /\ Continue(c, "send")
    /\ UNCHANGED <<fdtable, socket, server_fd, conn, loopVars, faults, crossed>>

\* ... then send() of request r, to whatever server_fd_ stands for. A part counts as
\* sent: the server takes what follows for the rest of the frame. A number without
\* a socket and a socket the server has left (or a full buffer) fail the request.
Transmit(c, r, failed) ==
    LET s == Behind(server_fd[c])
    IN  /\ IF failed
           THEN /\ IF s = None \/ socket[s].gone THEN UNCHANGED faults ELSE Fault
                /\ pending' = [pending EXCEPT ![c] = @ \ {r.id}]
                /\ UNCHANGED socket
           ELSE /\ s # None
                /\ \/ /\ socket' = IF socket[s].gone \/ socket[s].torn THEN socket
                                    ELSE [socket EXCEPT ![s].req = @ \cup {r}]
                      /\ UNCHANGED faults
                   \/ /\ Fault
                      /\ socket' = [socket EXCEPT ![s].torn = TRUE]
                /\ UNCHANGED pending
        /\ crossed' = (crossed \/ s \notin {None, c})
        /\ UNCHANGED <<fdtable, server_fd, conn, loopVars, next_id, call>>

\* The future of a request that failed is empty.
SendRequest(c) ==
    /\ does[c] = "send"
    /\ \E failed \in BOOLEAN :
          /\ Transmit(c, call[c], failed)
          /\ future' = IF failed /\ call[c].id \in pending[c]
                       THEN [future EXCEPT ![c] = Empty] ELSE future
    /\ Continue(c, "await")

\* The future is ready: what it holds is in Succeeded.
Answered(c) ==
    /\ does[c] = "await"
    /\ future[c] # NoValue
    /\ UNCHANGED <<fdtable, socket, server_fd, conn, loopVars, callVars, faults, crossed>>

Succeeded(c) == future[c].ok

\* The request or its answer is on its way.
Outstanding(c) ==
    \E s \in Client : call[c] \in socket[s].req \cup {r.call : r \in socket[s].rsp}

\* wait_for gives up; the promise stays in pending_requests_. The bound on faults
\* is for waits that an answer would have ended.
TimedOut(c) ==
    /\ does[c] = "await"
    /\ future[c] = NoValue
    /\ IF Outstanding(c) THEN Fault ELSE UNCHANGED faults
    /\ UNCHANGED <<fdtable, socket, server_fd, conn, loopVars, callVars, crossed>>

\* The handler stays in the EventLoop, and its Connection keeps the number.
CloseFd(c) ==
    /\ Close(c, server_fd[c])
    /\ server_fd' = [server_fd EXCEPT ![c] = None]
    /\ UNCHANGED <<conn, loopVars, callVars, faults>>

\* Mutant: the loop is not woken.
StopSilent(c) ==
    /\ running' = [running EXCEPT ![c] = FALSE]
    /\ UNCHANGED <<fdtable, socket, server_fd, conn, loop, woken, callVars, faults, crossed>>

\* ~RpcClient: EventLoop::Stop, and join ...
Stop(c) ==
    /\ running' = [running EXCEPT ![c] = FALSE]
    /\ woken' = [woken EXCEPT ![c] = TRUE]
    /\ UNCHANGED <<fdtable, socket, server_fd, conn, loop, callVars, faults, crossed>>

\* ... then the Connection is deleted, by Disconnect or with handlers_, and closes
\* its fd_. An abandoned promise goes with pending_requests_.
Destroy(c) ==
    /\ does[c] = "join"
    /\ loop[c] = "ended"
    /\ Close(c, conn[c])
    /\ server_fd' = [server_fd EXCEPT ![c] = None]
    /\ conn' = [conn EXCEPT ![c] = None]
    /\ pending' = [pending EXCEPT ![c] = {}]
    /\ call' = [call EXCEPT ![c] = NoCall]
    /\ future' = [future EXCEPT ![c] = NoValue]
    /\ UNCHANGED <<loopVars, next_id, faults>>

-----------------------------------------------------------------------------
(* The loop thread: EventLoop::Run *)

\* while (running_)
NextRound(c) == loop' = [loop EXCEPT ![c] = IF running[c] THEN "wait" ELSE "ended"]

\* Run sets running_ itself, also after a Stop.
RunBegins(c) ==
    /\ loop[c] = "new"
    /\ loop' = [loop EXCEPT ![c] = "wait"]
    /\ running' = [running EXCEPT ![c] = TRUE]
    /\ UNCHANGED <<fdtable, socket, server_fd, conn, woken, callVars, does, faults, crossed>>

Wakeup(c) ==
    /\ loop[c] = "wait"
    /\ woken[c]
    /\ woken' = [woken EXCEPT ![c] = FALSE]
    /\ NextRound(c)
    /\ UNCHANGED <<fdtable, socket, server_fd, conn, running, callVars, does, faults, crossed>>

\* Connection::OnClose: Unregister and close. server_fd_ is not told.
OnClose(c) ==
    /\ conn' = [conn EXCEPT ![c] = None]
    /\ Close(c, conn[c])
    /\ NextRound(c)
    /\ UNCHANGED <<pending, future>>

\* epoll watches the socket, not the number: nothing comes once it is closed.
SocketEvent(c) ==
    /\ loop[c] = "wait"
    /\ socket[c].ready
    /\ conn[c] # None
    /\ IF socket[c].gone
       THEN OnClose(c)
       ELSE /\ socket' = [socket EXCEPT ![c].ready = FALSE]
            /\ loop' = [loop EXCEPT ![c] = "read"]
            /\ UNCHANGED <<fdtable, conn, pending, future, crossed>>
    /\ UNCHANGED <<server_fd, running, woken, next_id, call, does, faults>>

\* response_cb for the frames of one read: the promise that has the id gets the
\* body (an empty one for an Error, which ok = FALSE stands for too) and leaves
\* pending_requests_; an answer without a promise is dropped.
Fulfil(c, got) ==
    LET mine == {r \in got : r.call.id = call[c].id /\ r.call.id \in pending[c]}
    IN  /\ pending' = [pending EXCEPT ![c] = @ \ {r.call.id : r \in got}]
        /\ IF mine # {} /\ future[c] = NoValue
           THEN \E r \in mine : future' = [future EXCEPT ![c] = r]
           ELSE UNCHANGED future

\* Connection::OnRead reads from its number, whatever is behind it by now.
OnRead(c) ==
    LET s == Behind(conn[c])
    IN  /\ loop[c] = "read"
        /\ IF s = None \/ socket[s].gone
           THEN OnClose(c)
           ELSE /\ Fulfil(c, socket[s].rsp)
                /\ socket' = [socket EXCEPT ![s].rsp = {}]
                /\ crossed' = (crossed \/ s # c)
                /\ NextRound(c)
                /\ UNCHANGED <<fdtable, conn>>
        /\ UNCHANGED <<server_fd, running, woken, next_id, call, does, faults>>

Loop(c) == RunBegins(c) \/ Wakeup(c) \/ SocketEvent(c) \/ OnRead(c)

-----------------------------------------------------------------------------
(* The server. It answers in any order: a login comes back later than what was
   asked after it. *)

ServerAnswers(s) ==
    /\ \E r \in socket[s].req, ok \in BOOLEAN :
          socket' = [socket EXCEPT ![s].req = @ \ {r},
                                   ![s].rsp = @ \cup {[call |-> r, ok |-> ok]},
                                   ![s].ready = TRUE]
    /\ UNCHANGED <<fdtable, server_fd, conn, loopVars, callVars, does, faults, crossed>>

ServerLeaves(s) ==
    /\ conn[s] # None
    /\ Behind(conn[s]) = s
    /\ ~socket[s].gone
    /\ Fault
    /\ socket' = [socket EXCEPT ![s].gone = TRUE, ![s].ready = TRUE, ![s].req = {}]
    /\ UNCHANGED <<fdtable, server_fd, conn, loopVars, callVars, does, crossed>>
=============================================================================
