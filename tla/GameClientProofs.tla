-------------------------- MODULE GameClientProofs --------------------------
(***************************************************************************)
(* What the load generator may rely on, proved for every number of         *)
(* clients, faults and calls: a deleted client leaves no socket open, a    *)
(* future gets the answer to its own request, the modes that make and      *)
(* delete their clients on one thread never touch another client's socket, *)
(* and the clean-up never takes the reporter's client from it.             *)
(*                                                                         *)
(* The first needs to know where a socket's number is kept (Kept), the     *)
(* second which ids are on the way (IdsMatch), the third why a number that *)
(* is closed twice was not given away in between (Alone, Apart), the last  *)
(* where the reporter's client is meanwhile (KeptByReporter).              *)
(***************************************************************************)
EXTENDS GameClient, FiniteSetTheorems, FunctionTheorems, WellFoundedInduction, TLAPS

-----------------------------------------------------------------------------
(* The invariants *)

Working == {"idle", "connect", "send", "await", "quit", "delete", "join"}
InCall == {"send", "await"}
NotCalls == {"Connect", "Drop", "Disconnect", "Delete"}

\* Whatever else is in it, a socket is a record with these fields.
IsSocket(s) ==
    s = [req |-> s.req, rsp |-> s.rsp, ready |-> s.ready, gone |-> s.gone, torn |-> s.torn]

Types ==
    /\ mode \in Modes
    /\ fdtable \in [Fd -> Client \cup {None}]
    /\ server_fd \in [Client -> Fd \cup {None}]
    /\ conn \in [Client -> Fd \cup {None}]
    /\ loop \in [Client -> {"none", "new", "wait", "read", "ended"}]
    /\ does \in [Client -> Working \cup {"unborn", "gone"}]
    /\ at \in [Client -> Nat]

\* An owner is at a step of its script, and at one that fits what it is doing.
InScript ==
    \A c \in Client :
        /\ at[c] \in DOMAIN Script(c)
        /\ does[c] \in {"unborn", "connect"} => at[c] = 1
        /\ does[c] \in InCall => Now(c).op \notin NotCalls

\* Who has not connected yet. Connect is the first step, and no loop leads back.
Fresh(c) == at[c] = 1 /\ does[c] \in {"unborn", "idle"}

\* A socket is reached from its owner, in connect() through server_fd_ and later
\* through the Connection; so nobody has two.
Reached(c, n) ==
    \/ does[c] = "connect" /\ n = server_fd[c]
    \/ does[c] \in Working \ {"connect"} /\ ~Fresh(c) /\ n = conn[c]
Kept == \A n \in Fd, c \in Client : fdtable[n] = c => Reached(c, n)

ClientInv == Types /\ InScript /\ Kept

\* The requests and the answers on the way were made by the owner of the socket;
\* the one with the id of its request is that request.
OnTheWay(s) == socket[s].req \cup {r.call : r \in socket[s].rsp}
IdsMatch ==
    \A c \in Client :
        /\ IsSocket(socket[c])
        /\ next_id[c] \in Nat \ {0}
        /\ call[c].id \in 0 .. next_id[c] - 1
        /\ does[c] \in InCall => call[c].id # 0
        /\ ~crossed =>
             \A r \in OnTheWay(c) : /\ r.id \in 1 .. next_id[c] - 1
                                    /\ r.id = call[c].id => r = call[c]
CallTypes ==
    /\ socket = [c \in Client |-> socket[c]]
    /\ next_id = [c \in Client |-> next_id[c]]
    /\ call = [c \in Client |-> call[c]]
    /\ future = [c \in Client |-> future[c]]

AnswersInv == CallTypes /\ IdsMatch /\ AnswersMatch

\* The reporter is about in one mode only, and its request has an id of its own.
OwnIds ==
    /\ reporter.does # "asleep" => mode = "steady" /\ Clients \in Client
    /\ reporter.does = "send" => /\ reporter.call.id \in 1 .. next_id[Clients] - 1
                                 /\ reporter.call.id # call[Clients].id

\* "single": one client after the other.
Alone == mode = "single" => \A i, j \in Client : i < j => does[i] = "gone" \/ does[j] = "unborn"

\* The loop thread runs while its client is there.
LoopLives == \A c \in Client : does[c] \in {"unborn", "gone"} => loop[c] \in {"none", "ended"}

\* A Connection whose number is closed, by CloseFd.
Stale(c) == conn[c] # None /\ fdtable[conn[c]] = None

\* The other modes, when the server stays: server_fd_ stands for the client's own
\* socket, the Connection's number for it or for nothing, and then no one is left
\* to whom the number could be given before the Connection is deleted.
Serial == mode \in OneThread \ {"single"}
OwnNumbers(c) ==
    /\ server_fd[c] # None => fdtable[server_fd[c]] = c
    /\ conn[c] # None => fdtable[conn[c]] \in {c, None}
    /\ Fresh(c) \/ does[c] = "connect" => conn[c] = None
StaleLast(c) ==
    Stale(c) => \A j \in Client :
                   Fresh(j) => c < j /\ Now(c).phase = 1 /\ does[c] \in {"delete", "join"}
Apart == Serial => \A c \in Client : OwnNumbers(c) /\ StaleLast(c)
NobodyLeft == Serial => \A c \in Client : ~socket[c].gone

SocketInv == LoopLives /\ Alone /\ Apart /\ NobodyLeft /\ OwnSocketOnly

-----------------------------------------------------------------------------
(* Scripts *)

\* What the scripts have in common. A step that may end a loop, or be skipped, or
\* fail, is not the last one; and no loop leads back to Connect.
ScriptOK(s) ==
    /\ Len(s) \in Nat
    /\ DOMAIN s = 1 .. Len(s)
    /\ 1 \in DOMAIN s
    /\ s[1].op = "Connect" /\ s[1].fails = "quit"
    /\ \A i \in DOMAIN s :
          /\ s[i].op = "Connect" => i = 1 /\ s[i].back = 0 /\ s[i].first = FALSE
          /\ s[i].back \in {0} \cup 2 .. Len(s)
          /\ s[i].op # "Delete" => i + 1 \in DOMAIN s
          /\ s[i].back # 0 \/ s[i].first => s[i].op # "Delete"
          /\ s[i].fails = "out" => \E k \in DOMAIN s : k >= i /\ s[k].back # 0

\* Where the phases separate connecting from disconnecting, as OwnSocketOnly needs,
\* and where there is one phase.
PhaseOf(st) ==
    /\ st.phase \in Nat \ {0}
    /\ st.op = "Connect" => st.phase = 1
    /\ st.op \in {"Disconnect", "Delete"} => st.phase > 1
InPhases(s) == \A i \in DOMAIN s : PhaseOf(s[i])
AllFirst(s) == \A i \in DOMAIN s : s[i].phase = 1

\* The script of the modes single and ramp.
LEMMA FullFlowOK == ScriptOK(FullFlow) /\ AllFirst(FullFlow)
<1> DEFINE s == FullFlow
<1>1. /\ s[1] = Must("Connect", 1) /\ s[2] = Must("Login", 1) /\ s[3] = Must("CreateRoom", 1)
      /\ s[4] = Step("StartGame", 1) /\ s[5] = While("SendMessage", 1, 5)
      /\ s[6] = Step("LeaveRoom", 1) /\ s[7] = Step("Disconnect", 1)
      /\ s[8] = Step("Delete", 1) /\ DOMAIN s = 1 .. 8 /\ Len(s) = 8
  BY DEF FullFlow
<1> HIDE DEF s
<1>2. /\ s[1].op = "Connect" /\ s[2].op = "Login" /\ s[3].op = "CreateRoom"
      /\ s[4].op = "StartGame" /\ s[5].op = "SendMessage" /\ s[6].op = "LeaveRoom"
      /\ s[7].op = "Disconnect" /\ s[8].op = "Delete"
  BY <1>1 DEF Must, Step, While
<1>3. /\ s[5].back = 5 /\ s[5].first = FALSE /\ s[5].fails = "out"
      /\ \A i \in (1 .. 8) \ {5} : s[i].back = 0 /\ s[i].first = FALSE /\ s[i].fails # "out"
      /\ s[1].fails = "quit"
  BY <1>1 DEF Must, Step, While
<1>4. /\ s[1].phase = 1 /\ s[2].phase = 1 /\ s[3].phase = 1 /\ s[4].phase = 1 /\ s[5].phase = 1
      /\ s[6].phase = 1 /\ s[7].phase = 1 /\ s[8].phase = 1
  BY <1>1 DEF Must, Step, While
<1>5. \A i \in 2 .. 7 : s[i].op # "Connect" /\ s[i].op # "Delete"
  <2> SUFFICES ASSUME NEW i \in 2 .. 7
               PROVE  s[i].op # "Connect" /\ s[i].op # "Delete"
    OBVIOUS
  <2>1. i = 2 \/ i = 3 \/ i = 4 \/ i = 5 \/ i = 6 \/ i = 7
    OBVIOUS
  <2> QED  BY <1>2, <2>1
<1>6. ScriptOK(s)
  <2>1. \A i \in 1 .. 8 : s[i].op = "Connect" => i = 1
    BY <1>2, <1>5
  <2>2. \A i \in 1 .. 8 : s[i].op # "Delete" => i + 1 \in 1 .. 8
    BY <1>2
  <2>3. \A i \in 1 .. 8 : s[i].back \in {0} \cup 2 .. 8
    BY <1>3
  <2>4. \A i \in 1 .. 8 : s[i].back # 0 \/ s[i].first => s[i].op # "Delete"
    BY <1>2, <1>3
  <2>5. \A i \in 1 .. 8 : s[i].fails = "out" => \E k \in 1 .. 8 : k >= i /\ s[k].back # 0
    <3>1. \A i \in 1 .. 8 : s[i].fails = "out" => 5 >= i /\ s[5].back # 0
      BY <1>3
    <3> QED  BY <3>1, 5 \in 1 .. 8, Zenon
  <2>6. s[1].back = 0 /\ s[1].first = FALSE
    BY <1>3
  <2> QED  BY <1>1, <1>2, <1>3, <2>1, <2>2, <2>3, <2>4, <2>5, <2>6 DEF ScriptOK
<1>7. AllFirst(s)
  <2> SUFFICES ASSUME NEW i \in 1 .. 8
               PROVE  s[i].phase = 1
    BY <1>1 DEF AllFirst
  <2>1. i = 1 \/ i = 2 \/ i = 3 \/ i = 4 \/ i = 5 \/ i = 6 \/ i = 7 \/ i = 8
    OBVIOUS
  <2> QED  BY <1>2, <1>4, <2>1
<1>. QED  BY <1>6, <1>7 DEF s

\* The script of the last steady client, g_metrics_client.
LEMMA SteadyLastOK ==
    ASSUME NEW c, c = Clients
    PROVE  ScriptOK(Steady(c)) /\ InPhases(Steady(c))
<1> DEFINE s == Steady(c)
<1>1. /\ s[1] = Must("Connect", 1) /\ s[2] = Must("Login", 1)
      /\ s[3] = Step("Disconnect", 4) /\ s[4] = Step("Delete", 4)
      /\ DOMAIN s = 1 .. 4 /\ Len(s) = 4
  BY DEF Steady
<1> HIDE DEF s
<1>2. /\ s[1].op = "Connect" /\ s[2].op = "Login" /\ s[3].op = "Disconnect" /\ s[4].op = "Delete"
      /\ s[1].fails = "quit"
      /\ s[1].phase = 1 /\ s[2].phase = 1 /\ s[3].phase = 4 /\ s[4].phase = 4
  BY <1>1 DEF Must, Step
<1>3. \A i \in 1 .. 4 : s[i].back = 0 /\ s[i].first = FALSE /\ s[i].fails # "out"
  BY <1>1 DEF Must, Step
<1>4. \A i \in 1 .. 4 : i = 1 \/ i = 2 \/ i = 3 \/ i = 4
  OBVIOUS
<1>5. ScriptOK(s)
  <2>1. \A i \in 1 .. 4 : s[i].op = "Connect" => i = 1
    BY <1>2, <1>4
  <2>2. \A i \in 1 .. 4 : s[i].op # "Delete" => i + 1 \in 1 .. 4
    BY <1>2, <1>4
  <2> QED  BY <1>1, <1>2, <1>3, <2>1, <2>2 DEF ScriptOK
<1>6. InPhases(s)
  <2> SUFFICES ASSUME NEW i \in 1 .. 4
               PROVE  PhaseOf(s[i])
    BY <1>1 DEF InPhases
  <2> QED  BY <1>2, <1>4 DEF PhaseOf
<1>. QED  BY <1>5, <1>6 DEF s

\* The script of the other steady clients.
LEMMA SteadyOthersOK ==
    ASSUME NEW c, c # Clients
    PROVE  ScriptOK(Steady(c)) /\ InPhases(Steady(c))
<1> DEFINE s == Steady(c)
<1>1. /\ s[1] = Must("Connect", 1) /\ s[2] = Must("Login", 1) /\ s[3] = Must("CreateRoom", 1)
      /\ s[4] = First("SendMessage", 2) /\ s[5] = While("SendMessage", 3, 5)
      /\ s[6] = Step("LeaveRoom", 5) /\ s[7] = Step("Disconnect", 5)
      /\ s[8] = Step("Delete", 6) /\ DOMAIN s = 1 .. 8 /\ Len(s) = 8
  BY DEF Steady
<1> HIDE DEF s
<1>2. /\ s[1].op = "Connect" /\ s[2].op = "Login" /\ s[3].op = "CreateRoom"
      /\ s[4].op = "SendMessage" /\ s[5].op = "SendMessage" /\ s[6].op = "LeaveRoom"
      /\ s[7].op = "Disconnect" /\ s[8].op = "Delete"
  BY <1>1 DEF First, Must, Step, While
<1>3. /\ s[4].back = 0 /\ s[4].first = TRUE /\ s[4].fails = "on"
      /\ s[5].back = 5 /\ s[5].first = FALSE /\ s[5].fails = "out"
      /\ \A i \in (1 .. 8) \ {4, 5} : s[i].back = 0 /\ s[i].first = FALSE /\ s[i].fails # "out"
      /\ s[1].fails = "quit"
  BY <1>1 DEF First, Must, Step, While
<1>4. /\ s[1].phase = 1 /\ s[2].phase = 1 /\ s[3].phase = 1 /\ s[4].phase = 2 /\ s[5].phase = 3
      /\ s[6].phase = 5 /\ s[7].phase = 5 /\ s[8].phase = 6
  BY <1>1 DEF First, Must, Step, While
<1>5. \A i \in 2 .. 7 : s[i].op # "Connect" /\ s[i].op # "Delete"
  <2> SUFFICES ASSUME NEW i \in 2 .. 7
               PROVE  s[i].op # "Connect" /\ s[i].op # "Delete"
    OBVIOUS
  <2>1. i = 2 \/ i = 3 \/ i = 4 \/ i = 5 \/ i = 6 \/ i = 7
    OBVIOUS
  <2> QED  BY <1>2, <2>1
<1>6. ScriptOK(s)
  <2>1. \A i \in 1 .. 8 : s[i].op = "Connect" => i = 1
    BY <1>2, <1>5
  <2>2. \A i \in 1 .. 8 : s[i].op # "Delete" => i + 1 \in 1 .. 8
    BY <1>2
  <2>3. \A i \in 1 .. 8 : s[i].back \in {0} \cup 2 .. 8
    BY <1>3
  <2>4. \A i \in 1 .. 8 : s[i].back # 0 \/ s[i].first => s[i].op # "Delete"
    BY <1>2, <1>3
  <2>5. \A i \in 1 .. 8 : s[i].fails = "out" => \E k \in 1 .. 8 : k >= i /\ s[k].back # 0
    <3>1. \A i \in 1 .. 8 : s[i].fails = "out" => 5 >= i /\ s[5].back # 0
      BY <1>3
    <3> QED  BY <3>1, 5 \in 1 .. 8, Zenon
  <2>6. s[1].back = 0 /\ s[1].first = FALSE
    BY <1>3
  <2> QED  BY <1>1, <1>2, <1>3, <2>1, <2>2, <2>3, <2>4, <2>5, <2>6 DEF ScriptOK
<1>7. InPhases(s)
  <2> SUFFICES ASSUME NEW i \in 1 .. 8
               PROVE  PhaseOf(s[i])
    BY <1>1 DEF InPhases
  <2>1. i = 1 \/ i = 2 \/ i = 3 \/ i = 4 \/ i = 5 \/ i = 6 \/ i = 7 \/ i = 8
    OBVIOUS
  <2> QED  BY <1>2, <1>4, <2>1 DEF PhaseOf
<1>. QED  BY <1>6, <1>7 DEF s

\* The script of a chaos client.
LEMMA ChaosOK == ScriptOK(Chaos) /\ InPhases(Chaos)
<1> DEFINE s == Chaos
<1>1. /\ s[1] = Must("Connect", 1) /\ s[2] = Must("Login", 1) /\ s[3] = Must("CreateRoom", 1)
      /\ s[4] = Step("SendMessage", 2) /\ s[5] = Step("Drop", 3)
      /\ s[6] = First("Oversized", 4) /\ s[7] = First("InvalidProtobuf", 4)
      /\ s[8] = First("NonExistentRoom", 4) /\ s[9] = Step("SendMessage", 5)
      /\ s[10] = Step("LeaveRoom", 6) /\ s[11] = Step("Disconnect", 6)
      /\ s[12] = Step("Delete", 7) /\ DOMAIN s = 1 .. 12 /\ Len(s) = 12
  BY DEF Chaos
<1> HIDE DEF s
<1>2. /\ s[1].op = "Connect" /\ s[2].op = "Login" /\ s[3].op = "CreateRoom"
      /\ s[4].op = "SendMessage" /\ s[5].op = "Drop" /\ s[6].op = "Oversized"
      /\ s[7].op = "InvalidProtobuf" /\ s[8].op = "NonExistentRoom" /\ s[9].op = "SendMessage"
      /\ s[10].op = "LeaveRoom" /\ s[11].op = "Disconnect" /\ s[12].op = "Delete"
  BY <1>1 DEF First, Must, Step
<1>3. /\ s[6].back = 0 /\ s[6].first = TRUE /\ s[6].fails = "on"
      /\ s[7].back = 0 /\ s[7].first = TRUE /\ s[7].fails = "on"
      /\ s[8].back = 0 /\ s[8].first = TRUE /\ s[8].fails = "on"
      /\ \A i \in (1 .. 12) \ {6, 7, 8} : s[i].back = 0 /\ s[i].first = FALSE /\ s[i].fails # "out"
      /\ s[1].fails = "quit"
  BY <1>1 DEF First, Must, Step
<1>4. /\ s[1].phase = 1 /\ s[2].phase = 1 /\ s[3].phase = 1 /\ s[4].phase = 2 /\ s[5].phase = 3
      /\ s[6].phase = 4 /\ s[7].phase = 4 /\ s[8].phase = 4 /\ s[9].phase = 5
      /\ s[10].phase = 6 /\ s[11].phase = 6 /\ s[12].phase = 7
  BY <1>1 DEF First, Must, Step
<1>5. \A i \in 2 .. 11 : s[i].op # "Connect" /\ s[i].op # "Delete"
  <2> SUFFICES ASSUME NEW i \in 2 .. 11
               PROVE  s[i].op # "Connect" /\ s[i].op # "Delete"
    OBVIOUS
  <2>1. i = 2 \/ i = 3 \/ i = 4 \/ i = 5 \/ i = 6 \/ i = 7 \/ i = 8 \/ i = 9 \/ i = 10 \/ i = 11
    OBVIOUS
  <2> QED  BY <1>2, <2>1
<1>6. ScriptOK(s)
  <2>1. \A i \in 1 .. 12 : s[i].op = "Connect" => i = 1
    BY <1>2, <1>5
  <2>2. \A i \in 1 .. 12 : s[i].op # "Delete" => i + 1 \in 1 .. 12
    BY <1>2
  <2>3. \A i \in 1 .. 12 : s[i].back \in {0} \cup 2 .. 12
    BY <1>3
  <2>4. \A i \in 1 .. 12 : s[i].back # 0 \/ s[i].first => s[i].op # "Delete"
    BY <1>2, <1>3
  <2>5. \A i \in 1 .. 12 : s[i].fails # "out"
    BY <1>3
  <2>6. s[1].back = 0 /\ s[1].first = FALSE
    BY <1>3
  <2> QED  BY <1>1, <1>2, <1>3, <2>1, <2>2, <2>3, <2>4, <2>5, <2>6 DEF ScriptOK
<1>7. InPhases(s)
  <2> SUFFICES ASSUME NEW i \in 1 .. 12
               PROVE  PhaseOf(s[i])
    BY <1>1 DEF InPhases
  <2>1. \/ i = 1 \/ i = 2 \/ i = 3 \/ i = 4 \/ i = 5 \/ i = 6 \/ i = 7
        \/ i = 8 \/ i = 9 \/ i = 10 \/ i = 11 \/ i = 12
    OBVIOUS
  <2> QED  BY <1>2, <1>4, <2>1 DEF PhaseOf
<1>. QED  BY <1>6, <1>7 DEF s

\* The script of the client that owns the room of the frame mode.
LEMMA FramesyncOwnerOK ==
    ASSUME NEW c, Owner(c)
    PROVE  ScriptOK(Framesync(c))
<1> DEFINE s == Framesync(c)
<1>1. /\ s[1] = Must("Connect", 1) /\ s[2] = Must("Login", 1) /\ s[3] = Must("CreateRoom", 1)
      /\ s[4] = Step("StartGame", 3) /\ s[5] = While("SendInput", 4, 5)
      /\ s[6] = Step("LeaveRoom", 5) /\ s[7] = Step("Disconnect", 5)
      /\ s[8] = Step("Delete", 6) /\ DOMAIN s = 1 .. 8 /\ Len(s) = 8
  BY DEF Framesync
<1> HIDE DEF s
<1>2. /\ s[1].op = "Connect" /\ s[2].op = "Login" /\ s[3].op = "CreateRoom"
      /\ s[4].op = "StartGame" /\ s[5].op = "SendInput" /\ s[6].op = "LeaveRoom"
      /\ s[7].op = "Disconnect" /\ s[8].op = "Delete"
  BY <1>1 DEF Must, Step, While
<1>3. /\ s[5].back = 5 /\ s[5].first = FALSE /\ s[5].fails = "out"
      /\ \A i \in (1 .. 8) \ {5} : s[i].back = 0 /\ s[i].first = FALSE /\ s[i].fails # "out"
      /\ s[1].fails = "quit"
  BY <1>1 DEF Must, Step, While
<1>5. \A i \in 2 .. 7 : s[i].op # "Connect" /\ s[i].op # "Delete"
  <2> SUFFICES ASSUME NEW i \in 2 .. 7
               PROVE  s[i].op # "Connect" /\ s[i].op # "Delete"
    OBVIOUS
  <2>1. i = 2 \/ i = 3 \/ i = 4 \/ i = 5 \/ i = 6 \/ i = 7
    OBVIOUS
  <2> QED  BY <1>2, <2>1
<1>6. ScriptOK(s)
  <2>1. \A i \in 1 .. 8 : s[i].op = "Connect" => i = 1
    BY <1>2, <1>5
  <2>2. \A i \in 1 .. 8 : s[i].op # "Delete" => i + 1 \in 1 .. 8
    BY <1>2
  <2>3. \A i \in 1 .. 8 : s[i].back \in {0} \cup 2 .. 8
    BY <1>3
  <2>4. \A i \in 1 .. 8 : s[i].back # 0 \/ s[i].first => s[i].op # "Delete"
    BY <1>2, <1>3
  <2>5. \A i \in 1 .. 8 : s[i].fails = "out" => \E k \in 1 .. 8 : k >= i /\ s[k].back # 0
    <3>1. \A i \in 1 .. 8 : s[i].fails = "out" => 5 >= i /\ s[5].back # 0
      BY <1>3
    <3> QED  BY <3>1, 5 \in 1 .. 8, Zenon
  <2>6. s[1].back = 0 /\ s[1].first = FALSE
    BY <1>3
  <2> QED  BY <1>1, <1>2, <1>3, <2>1, <2>2, <2>3, <2>4, <2>5, <2>6 DEF ScriptOK
<1>. QED  BY <1>6 DEF s

\* The script of the clients that join it.
LEMMA FramesyncGuestOK ==
    ASSUME NEW c, ~Owner(c)
    PROVE  ScriptOK(Framesync(c))
<1> DEFINE s == Framesync(c)
<1>1. /\ s[1] = Must("Connect", 2) /\ s[2] = Must("Login", 2) /\ s[3] = Must("JoinRoom", 2)
      /\ s[4] = While("SendInput", 4, 4) /\ s[5] = Step("LeaveRoom", 5)
      /\ s[6] = Step("Disconnect", 5) /\ s[7] = Step("Delete", 6) /\ DOMAIN s = 1 .. 7
      /\ Len(s) = 7
  BY DEF Framesync
<1> HIDE DEF s
<1>2. /\ s[1].op = "Connect" /\ s[2].op = "Login" /\ s[3].op = "JoinRoom"
      /\ s[4].op = "SendInput" /\ s[5].op = "LeaveRoom" /\ s[6].op = "Disconnect"
      /\ s[7].op = "Delete"
  BY <1>1 DEF Must, Step, While
<1>3. /\ s[4].back = 4 /\ s[4].first = FALSE /\ s[4].fails = "out"
      /\ \A i \in (1 .. 7) \ {4} : s[i].back = 0 /\ s[i].first = FALSE /\ s[i].fails # "out"
      /\ s[1].fails = "quit"
  BY <1>1 DEF Must, Step, While
<1>5. \A i \in 2 .. 6 : s[i].op # "Connect" /\ s[i].op # "Delete"
  <2> SUFFICES ASSUME NEW i \in 2 .. 6
               PROVE  s[i].op # "Connect" /\ s[i].op # "Delete"
    OBVIOUS
  <2>1. i = 2 \/ i = 3 \/ i = 4 \/ i = 5 \/ i = 6
    OBVIOUS
  <2> QED  BY <1>2, <2>1
<1>6. ScriptOK(s)
  <2>1. \A i \in 1 .. 7 : s[i].op = "Connect" => i = 1
    BY <1>2, <1>5
  <2>2. \A i \in 1 .. 7 : s[i].op # "Delete" => i + 1 \in 1 .. 7
    BY <1>2
  <2>3. \A i \in 1 .. 7 : s[i].back \in {0} \cup 2 .. 7
    BY <1>3
  <2>4. \A i \in 1 .. 7 : s[i].back # 0 \/ s[i].first => s[i].op # "Delete"
    BY <1>2, <1>3
  <2>5. \A i \in 1 .. 7 : s[i].fails = "out" => \E k \in 1 .. 7 : k >= i /\ s[k].back # 0
    <3>1. \A i \in 1 .. 7 : s[i].fails = "out" => 4 >= i /\ s[4].back # 0
      BY <1>3
    <3> QED  BY <3>1, 4 \in 1 .. 7, Zenon
  <2>6. s[1].back = 0 /\ s[1].first = FALSE
    BY <1>3
  <2> QED  BY <1>1, <1>2, <1>3, <2>1, <2>2, <2>3, <2>4, <2>5, <2>6 DEF ScriptOK
<1>. QED  BY <1>6 DEF s

\* The script of a matching client.
LEMMA MatchOK == ScriptOK(Match) /\ InPhases(Match)
<1> DEFINE s == Match
<1>1. /\ s[1] = Must("Connect", 1) /\ s[2] = Must("Login", 1)
      /\ s[3] = [Step("EnterMatch", 2) EXCEPT !.fails = "out"]
      /\ s[4] = [Step("CancelMatch", 2) EXCEPT !.back = 3] /\ s[5] = Step("Disconnect", 3)
      /\ s[6] = Step("Delete", 4) /\ DOMAIN s = 1 .. 6 /\ Len(s) = 6
  BY DEF Match
<1> HIDE DEF s
<1>2. /\ s[1].op = "Connect" /\ s[2].op = "Login" /\ s[3].op = "EnterMatch"
      /\ s[4].op = "CancelMatch" /\ s[5].op = "Disconnect" /\ s[6].op = "Delete"
  BY <1>1 DEF Must, Step
<1>3. /\ s[3].back = 0 /\ s[3].first = FALSE /\ s[3].fails = "out"
      /\ s[4].back = 3 /\ s[4].first = FALSE /\ s[4].fails = "on"
      /\ \A i \in (1 .. 6) \ {3, 4} : s[i].back = 0 /\ s[i].first = FALSE /\ s[i].fails # "out"
      /\ s[1].fails = "quit"
  BY <1>1 DEF Must, Step
<1>4. /\ s[1].phase = 1 /\ s[2].phase = 1 /\ s[3].phase = 2 /\ s[4].phase = 2 /\ s[5].phase = 3
      /\ s[6].phase = 4
  BY <1>1 DEF Must, Step
<1>5. \A i \in 2 .. 5 : s[i].op # "Connect" /\ s[i].op # "Delete"
  <2> SUFFICES ASSUME NEW i \in 2 .. 5
               PROVE  s[i].op # "Connect" /\ s[i].op # "Delete"
    OBVIOUS
  <2>1. i = 2 \/ i = 3 \/ i = 4 \/ i = 5
    OBVIOUS
  <2> QED  BY <1>2, <2>1
<1>6. ScriptOK(s)
  <2>1. \A i \in 1 .. 6 : s[i].op = "Connect" => i = 1
    BY <1>2, <1>5
  <2>2. \A i \in 1 .. 6 : s[i].op # "Delete" => i + 1 \in 1 .. 6
    BY <1>2
  <2>3. \A i \in 1 .. 6 : s[i].back \in {0} \cup 2 .. 6
    BY <1>3
  <2>4. \A i \in 1 .. 6 : s[i].back # 0 \/ s[i].first => s[i].op # "Delete"
    BY <1>2, <1>3
  <2>5. \A i \in 1 .. 6 : s[i].fails = "out" => \E k \in 1 .. 6 : k >= i /\ s[k].back # 0
    <3>1. \A i \in 1 .. 6 : s[i].fails = "out" => 4 >= i /\ s[4].back # 0
      BY <1>3
    <3> QED  BY <3>1, 4 \in 1 .. 6, Zenon
  <2>6. s[1].back = 0 /\ s[1].first = FALSE
    BY <1>3
  <2> QED  BY <1>1, <1>2, <1>3, <2>1, <2>2, <2>3, <2>4, <2>5, <2>6 DEF ScriptOK
<1>7. InPhases(s)
  <2> SUFFICES ASSUME NEW i \in 1 .. 6
               PROVE  PhaseOf(s[i])
    BY <1>1 DEF InPhases
  <2>1. i = 1 \/ i = 2 \/ i = 3 \/ i = 4 \/ i = 5 \/ i = 6
    OBVIOUS
  <2> QED  BY <1>2, <1>4, <2>1 DEF PhaseOf
<1>. QED  BY <1>6, <1>7 DEF s

\* Every script of every mode is of this kind.
LEMMA ScriptsFit ==
    ASSUME mode \in Modes, NEW c \in Client
    PROVE  /\ ScriptOK(Script(c))
           /\ mode = "single" => AllFirst(Script(c)) /\ MainThread = {1}
           /\ mode \in {"steady", "chaos", "match"} => InPhases(Script(c)) /\ 1 \in MainThread
<1>1. mode \in {"single", "ramp", "steady", "chaos", "framesync", "match"}
  BY ModeConstants
<1>2. CASE mode \in {"single", "ramp"}
  <2>1. Script(c) = FullFlow
    BY <1>2 DEF Script
  <2>2. mode = "single" => MainThread = {1}
    BY DEF MainThread
  <2> QED  BY <1>2, <2>1, <2>2, FullFlowOK
<1>3. CASE mode = "steady"
  <2>1. Script(c) = Steady(c) /\ 1 \in MainThread
    BY <1>3 DEF Script, MainThread
  <2> QED  BY <1>3, <2>1, SteadyLastOK, SteadyOthersOK
<1>4. CASE mode = "chaos"
  <2>1. Script(c) = Chaos /\ 1 \in MainThread
    BY <1>4 DEF Script, MainThread
  <2> QED  BY <1>4, <2>1, ChaosOK
<1>5. CASE mode = "framesync"
  <2>1. Script(c) = Framesync(c)
    BY <1>5 DEF Script
  <2> QED  BY <1>5, <2>1, FramesyncOwnerOK, FramesyncGuestOK
<1>6. CASE mode = "match"
  <2>1. Script(c) = Match /\ 1 \in MainThread
    BY <1>6 DEF Script, MainThread
  <2> QED  BY <1>6, <2>1, MatchOK
<1>. QED  BY <1>1, <1>2, <1>3, <1>4, <1>5, <1>6

\* Every nonempty set of numbers has a least one.
LEMMA Least ==
    ASSUME NEW T \in SUBSET Nat, T # {}
    PROVE  Min(T) \in T /\ \A y \in T : Min(T) <= y
<1> DEFINE R == OpToRel(<, Nat)
<1>1. IsWellFoundedOn(R, Nat)
  BY NatLessThanWellFounded
<1>2. \A x, y \in Nat : y < x => <<y, x>> \in R
  BY DEF OpToRel
<1> HIDE DEF R
<1>3. PICK x \in T : \A y \in T : ~ (<<y, x>> \in R)
  BY <1>1, WFMin
<1>4. \A y \in T : y \in Nat /\ x \in Nat /\ ~(y < x)
  BY <1>2, <1>3
<1>5. \E z \in T : \A y \in T : z =< y
  BY <1>4
<1> QED  BY <1>5 DEF Min

\* A client that goes on after a request or a connect is at a later step, or back
\* at one that is not Connect; one that quits stays where it is.
LEMMA Goes ==
    ASSUME Types, InScript, NEW c \in Client, NEW ok \in BOOLEAN, Ended(c, ok), Now(c).op # "Delete"
    PROVE  \E n \in DOMAIN Script(c), d \in {"idle", "quit"} :
              /\ at' = [at EXCEPT ![c] = n]
              /\ does' = [does EXCEPT ![c] = d]
              /\ d = "idle" => n # 1
              /\ d = "quit" => n = at[c]
<1> DEFINE s == Script(c)
           i == at[c]
<1>1. ScriptOK(s) /\ i \in DOMAIN s /\ Now(c) = s[i]
  BY ScriptsFit DEF Types, InScript, Now
<1> HIDE DEF s, i
<1>2. /\ Len(s) \in Nat /\ DOMAIN s = 1 .. Len(s)
      /\ i + 1 \in DOMAIN s
      /\ s[i].back \in {0} \cup 2 .. Len(s)
      /\ s[i].fails = "out" => \E k \in DOMAIN s : k >= i /\ s[k].back # 0
      /\ \A k \in DOMAIN s : s[k].back # 0 => k + 1 \in DOMAIN s
  BY <1>1 DEF ScriptOK
<1>3. CASE ok \/ s[i].fails = "on"
  <2>1. does' = [does EXCEPT ![c] = "idle"]
    BY <1>1, <1>3 DEF Ended, Continue
  <2>2. CASE at' = [at EXCEPT ![c] = i + 1]
    <3>1. i + 1 # 1
      BY <1>1, <1>2
    <3> QED  BY <1>2, <2>1, <2>2, <3>1 DEF s
  <2>3. CASE s[i].back # 0 /\ at' = [at EXCEPT ![c] = s[i].back]
    <3>1. s[i].back # 1 /\ s[i].back \in DOMAIN s
      BY <1>2, <2>3
    <3> QED  BY <2>1, <2>3, <3>1 DEF s
  <2> QED  BY <1>1, <1>3, <2>2, <2>3 DEF Ended, GoTo, i
<1>4. CASE ~(ok \/ s[i].fails = "on") /\ s[i].fails = "out"
  <2> DEFINE T == {k \in DOMAIN s : k >= i /\ s[k].back # 0}
  <2>1. T \in SUBSET Nat /\ T # {}
    BY <1>2, <1>4
  <2>2. LoopEnd(c) \in T
    <3>1. LoopEnd(c) = Min(T)
      BY DEF LoopEnd, s, i
    <3> HIDE DEF T
    <3> QED  BY <2>1, <3>1, Least
  <2>3. LoopEnd(c) + 1 \in DOMAIN s /\ LoopEnd(c) + 1 # 1
    BY <1>2, <2>2
  <2>4. does' = [does EXCEPT ![c] = "idle"] /\ at' = [at EXCEPT ![c] = LoopEnd(c) + 1]
    BY <1>1, <1>4 DEF Ended, GoTo, Continue
  <2> QED  BY <2>3, <2>4 DEF s
<1>5. CASE ~(ok \/ s[i].fails = "on") /\ s[i].fails # "out"
  <2>1. does' = [does EXCEPT ![c] = "quit"] /\ at' = [at EXCEPT ![c] = at[c]]
    BY <1>1, <1>5 DEF Ended, GoTo, Continue
  <2> QED  BY <1>1, <2>1 DEF s, i
<1>. QED  BY <1>3, <1>4, <1>5

-----------------------------------------------------------------------------
(* Sockets and their numbers *)

\* Two clients are not behind one number, and no client is behind two.
LEMMA OneNumber ==
    ASSUME Types, Kept, NEW m \in Fd, NEW n \in Fd, fdtable[m] = fdtable[n], fdtable[m] # None
    PROVE  m = n
BY DEF Types, Kept, Reached

\* A client that has no socket finds a number for one: there are as many as clients.
LEMMA FreeNumber ==
    ASSUME Types, Kept, NEW c \in Client, \A n \in Fd : fdtable[n] # c
    PROVE  LowestFree \in Fd /\ fdtable[LowestFree] = None
<1> DEFINE T == {n \in Fd : fdtable[n] = None}
<1>1. Clients \in Nat /\ c \in 1 .. Clients
  BY ClientConstants DEF Client
<1>2. T # {}
  <2> SUFFICES ASSUME T = {}
               PROVE  FALSE
    OBVIOUS
  <2>1. \A n \in Fd : fdtable[n] \in Client \ {c}
    BY DEF Types
  <2>2. fdtable \in [Fd -> Client \ {c}]
    BY <2>1 DEF Types
  <2>3. IsFiniteSet(Client) /\ Cardinality(Client) = Clients
    BY <1>1, FS_Interval DEF Client
  <2>4. IsFiniteSet(Client \ {c}) /\ Cardinality(Client \ {c}) = Clients - 1
    BY <1>1, <2>3, FS_RemoveElement
  <2>5. IsFiniteSet(Fd) /\ Cardinality(Fd) = Clients
    BY <1>1, FS_Interval DEF Fd
  <2>6. Cardinality(Client \ {c}) < Cardinality(Fd)
    BY <1>1, <2>4, <2>5
  <2>7. \E m, n \in Fd : m # n /\ fdtable[m] = fdtable[n]
    BY <2>2, <2>4, <2>5, <2>6, FS_PigeonHole
  <2>8. PICK m \in Fd, n \in Fd : m # n /\ fdtable[m] = fdtable[n]
    BY <2>7
  <2>9. fdtable[m] # None
    BY <2>8
  <2> QED  BY <2>8, <2>9, OneNumber
<1>3. T \in SUBSET Nat
  BY <1>1 DEF Fd
<1>4. LowestFree \in T
  <2>1. LowestFree = Min(T)
    BY DEF LowestFree
  <2> HIDE DEF T
  <2> QED  BY <1>2, <1>3, <2>1, Least
<1>. QED  BY <1>4

\* close(): what was behind the number is not there any more.
LEMMA Closing ==
    ASSUME Types, NEW c \in Client, NEW n \in Fd \cup {None}, Close(c, n)
    PROVE  /\ fdtable' \in [Fd -> Client \cup {None}]
           /\ \A m \in Fd : fdtable'[m] = IF m = n THEN None ELSE fdtable[m]
<1>1. None \notin Fd
  BY ClientConstants DEF None, Fd
<1>2. CASE Behind(n) = None
  BY <1>1, <1>2 DEF Types, Close, Behind
<1>3. CASE Behind(n) # None
  <2>1. n \in Fd
    BY <1>3 DEF Behind
  <2>2. fdtable' = [fdtable EXCEPT ![n] = None]
    BY <1>3 DEF Close
  <2> QED  BY <1>1, <2>1, <2>2 DEF Types
<1>. QED  BY <1>2, <1>3

\* A step of client c: the others stay where they are, sockets are closed or opened
\* for c, and c is at a step of its script that fits.
LEMMA OneClient ==
    ASSUME ClientInv, Types', NEW c \in Client, UNCHANGED mode,
           \A o \in Client \ {c} : /\ does'[o] = does[o] /\ at'[o] = at[o]
                                   /\ server_fd'[o] = server_fd[o] /\ conn'[o] = conn[o],
           \A m \in Fd : fdtable'[m] \in {None, fdtable[m], c},
           at'[c] \in DOMAIN Script(c),
           does'[c] \in {"unborn", "connect"} => at'[c] = 1,
           does'[c] \in InCall => Script(c)[at'[c]].op \notin NotCalls,
           \A m \in Fd : fdtable'[m] = c => Reached(c, m)'
    PROVE  ClientInv'
<1> USE DEF ClientInv
<1>1. \A o \in Client : Script(o)' = Script(o)
  BY DEF Script
<1>2. InScript'
  <2> SUFFICES ASSUME NEW o \in Client
               PROVE  /\ at'[o] \in DOMAIN Script(o)
                      /\ does'[o] \in {"unborn", "connect"} => at'[o] = 1
                      /\ does'[o] \in InCall => Script(o)[at'[o]].op \notin NotCalls
    BY <1>1 DEF InScript, Now
  <2>1. CASE o = c
    BY <2>1
  <2>2. CASE o # c
    BY <2>2 DEF InScript, Now
  <2> QED  BY <2>1, <2>2
<1>3. Kept'
  <2> SUFFICES ASSUME NEW m \in Fd, NEW o \in Client, fdtable'[m] = o
               PROVE  Reached(o, m)'
    BY DEF Kept
  <2>1. CASE o = c
    BY <2>1
  <2>2. CASE o # c
    <3>1. fdtable[m] = o
      BY <2>2, ClientConstants DEF None, Client
    <3>2. Reached(o, m)
      BY <3>1 DEF Kept
    <3> QED  BY <2>2, <3>2 DEF Reached, Fresh
  <2> QED  BY <2>1, <2>2
<1>. QED  BY <1>2, <1>3

\* The same, of a step that leaves the numbers alone.
LEMMA NumbersStay ==
    ASSUME ClientInv, NEW c \in Client, UNCHANGED <<mode, fdtable, server_fd, conn>>,
           NEW n \in DOMAIN Script(c), at' = [at EXCEPT ![c] = n],
           NEW d \in Working \cup {"gone"}, does' = [does EXCEPT ![c] = d],
           loop' \in [Client -> {"none", "new", "wait", "read", "ended"}],
           does[c] \in (Working \ {"connect"}) \cup {"unborn"}, d # "connect",
           d = "idle" /\ n = 1 => Fresh(c),
           d \in InCall => Script(c)[n].op \notin NotCalls,
           d = "gone" => Fresh(c)
    PROVE  ClientInv'
<1> USE DEF ClientInv
<1>1. DOMAIN Script(c) \subseteq Nat
  <2>1. ScriptOK(Script(c))
    BY ScriptsFit DEF Types
  <2> QED  BY <2>1 DEF ScriptOK
<1>2. Types'
  BY <1>1 DEF Types, Working
<1>3. ASSUME NEW m \in Fd, fdtable'[m] = c
      PROVE  Reached(c, m)'
  <2>2. Reached(c, m)
    BY <1>3 DEF Kept
  <2>3. does[c] # "connect" /\ does[c] # "unborn" /\ ~Fresh(c) /\ m = conn[c]
    BY <2>2 DEF Reached, Working
  <2>4. does'[c] = d /\ at'[c] = n /\ conn'[c] = conn[c]
    BY DEF Types
  <2>5. d \in Working \ {"connect"} /\ d # "unborn" /\ (d = "idle" => n # 1)
    BY <2>3 DEF Working
  <2> QED  BY <2>3, <2>4, <2>5 DEF Reached, Fresh
<1>4. \A o \in Client \ {c} : /\ does'[o] = does[o] /\ at'[o] = at[o]
                              /\ server_fd'[o] = server_fd[o] /\ conn'[o] = conn[o]
  BY DEF Types
<1>5. at'[c] = n /\ does'[c] = d /\ d # "unborn"
  BY DEF Types, Working
<1>. QED  BY <1>2, <1>3, <1>4, <1>5, OneClient

\* A step of a loop thread that does not close anything.
LEMMA LoopOnly ==
    ASSUME ClientInv, UNCHANGED <<mode, fdtable, server_fd, conn, does, at>>,
           loop' \in [Client -> {"none", "new", "wait", "read", "ended"}]
    PROVE  ClientInv'
<1> USE DEF ClientInv
<1>1. \A o \in Client : Script(o)' = Script(o)
  BY DEF Script
<1>2. Types' /\ InScript'
  BY <1>1 DEF Types, InScript, Now
<1>3. Kept'
  BY DEF Kept, Reached, Fresh
<1>. QED  BY <1>2, <1>3

\* What the step a client is at says.
LEMMA AtStep ==
    ASSUME Types, InScript, NEW c \in Client
    PROVE  /\ at[c] \in DOMAIN Script(c)
           /\ Now(c).op = "Connect" <=> at[c] = 1
           /\ Now(c).first => at[c] # 1 /\ Now(c).op # "Delete"
           /\ Now(c).op # "Delete" => at[c] + 1 \in DOMAIN Script(c)
           /\ at[c] + 1 # 1
<1>1. ScriptOK(Script(c)) /\ at[c] \in DOMAIN Script(c) /\ Now(c) = Script(c)[at[c]]
  BY ScriptsFit DEF Types, InScript, Now
<1>. QED  BY <1>1 DEF ScriptOK

\* Each step of an owner's thread that makes, answers or gives up a request, or
\* that ends a client, without touching a socket's number.
LEMMA QuietUserSteps ==
    ASSUME ClientInv, NEW c \in Client, UNCHANGED mode,
           Begin(c) \/ Skip(c) \/ Request(c) \/ Send(c) \/ GetAnswer(c) \/ GiveUp(c)
             \/ Drop(c) \/ Delete(c)
    PROVE  ClientInv'
<1> USE DEF ClientInv
<1>1. /\ at[c] \in DOMAIN Script(c)
      /\ Now(c).op = "Connect" <=> at[c] = 1
      /\ Now(c).first => at[c] # 1 /\ Now(c).op # "Delete"
      /\ Now(c).op # "Delete" => at[c] + 1 \in DOMAIN Script(c)
      /\ at[c] + 1 # 1
  BY AtStep
<1>2. at = [at EXCEPT ![c] = at[c]] /\ does = [does EXCEPT ![c] = does[c]] /\ Now(c) = Script(c)[at[c]]
  BY DEF Types, Now
<1>3. does[c] = "unborn" => Fresh(c)
  BY DEF InScript, Fresh
<1>4. UNCHANGED loop => loop' \in [Client -> {"none", "new", "wait", "read", "ended"}]
  BY DEF Types
<1>5. CASE Begin(c)
  <2>1. UNCHANGED <<fdtable, server_fd, conn, at>> /\ does[c] = "unborn"
    BY <1>5 DEF Begin, Construct, Continue
  <2>2. loop' \in [Client -> {"none", "new", "wait", "read", "ended"}]
    BY <1>5 DEF Begin, Construct, Types, loopVars
  <2>3. PICK d \in {"idle", "gone"} : does' = [does EXCEPT ![c] = d]
    BY <1>5 DEF Begin, Construct, Continue
  <2>4. d \in Working \cup {"gone"} /\ d # "connect" /\ d \notin InCall
    BY DEF Working, InCall
  <2>5. at' = [at EXCEPT ![c] = at[c]] /\ does[c] = "unborn" /\ Fresh(c) /\ at[c] \in DOMAIN Script(c)
    BY <1>1, <1>2, <1>3, <2>1
  <2> QED  BY <2>1, <2>2, <2>3, <2>4, <2>5, NumbersStay
<1>6. CASE Skip(c)
  <2>1. /\ UNCHANGED <<fdtable, server_fd, conn, loop, does>> /\ does[c] = "idle" /\ Now(c).first
        /\ at' = [at EXCEPT ![c] = at[c] + 1]
    BY <1>6 DEF Skip, Skipped, GoTo, vars, loopVars
  <2>2. "idle" \in Working /\ "idle" \notin InCall
    BY DEF Working, InCall
  <2>3. does' = [does EXCEPT ![c] = "idle"]
    BY <1>2, <2>1
  <2> QED  BY <1>1, <1>4, <2>1, <2>2, <2>3, NumbersStay
<1>7. CASE Request(c)
  <2>1. /\ UNCHANGED <<fdtable, server_fd, conn, loop, at>> /\ does[c] = "idle"
        /\ does' = [does EXCEPT ![c] = "send"] /\ Now(c).op \notin NotCalls
    BY <1>7 DEF Request, BeginCall, Continue, loopVars, NotCalls
  <2>2. "send" \in Working /\ "idle" \in Working /\ Now(c).op # "Connect"
    BY <2>1 DEF Working, NotCalls
  <2>3. at' = [at EXCEPT ![c] = at[c]]
    BY <1>2, <2>1
  <2> QED  BY <1>1, <1>2, <1>4, <2>1, <2>2, <2>3, NumbersStay
<1>8. CASE Send(c)
  <2>1. /\ UNCHANGED <<fdtable, server_fd, conn, loop, at>> /\ does[c] = "send"
        /\ does' = [does EXCEPT ![c] = "await"]
    BY <1>8 DEF Send, SendRequest, Transmit, Continue, loopVars
  <2>2. "send" \in Working /\ "await" \in Working /\ Now(c).op \notin NotCalls
    BY <2>1 DEF Working, InScript, InCall
  <2>3. at[c] # 1
    BY <1>1, <2>2 DEF NotCalls
  <2>4. at' = [at EXCEPT ![c] = at[c]]
    BY <1>2, <2>1
  <2> QED  BY <1>1, <1>2, <1>4, <2>1, <2>2, <2>3, <2>4, NumbersStay
<1>9. CASE GetAnswer(c) \/ GiveUp(c)
  <2>1. /\ UNCHANGED <<fdtable, server_fd, conn, loop>> /\ does[c] = "await"
        /\ Ended(c, TRUE) \/ Ended(c, FALSE) \/ Ended(c, Succeeded(c))
    BY <1>9 DEF GetAnswer, GiveUp, Answered, TimedOut, loopVars
  <2>2. "await" \in Working /\ Now(c).op # "Delete"
    BY <2>1 DEF Working, InScript, InCall, NotCalls
  <2>3. PICK ok \in BOOLEAN : Ended(c, ok)
    <3>1. CASE Ended(c, Succeeded(c))
      <4>1. CASE Succeeded(c)
        <5>1. Ended(c, TRUE)
          BY <3>1, <4>1 DEF Ended
        <5> QED  BY <5>1
      <4>2. CASE ~Succeeded(c)
        <5>1. Ended(c, FALSE)
          BY <3>1, <4>2 DEF Ended
        <5> QED  BY <5>1
      <4> QED  BY <4>1, <4>2
    <3> QED  BY <2>1, <3>1
  <2>4. PICK n \in DOMAIN Script(c), d \in {"idle", "quit"} :
              /\ at' = [at EXCEPT ![c] = n]
              /\ does' = [does EXCEPT ![c] = d]
              /\ d = "idle" => n # 1
              /\ d = "quit" => n = at[c]
    BY <2>2, <2>3, Goes
  <2>5. d \in Working /\ d # "connect" /\ d \notin InCall /\ (n # 1 \/ d = "quit")
    BY <2>4 DEF Working, InCall
  <2> QED  BY <1>4, <2>1, <2>2, <2>4, <2>5, NumbersStay
<1>10. CASE Drop(c)
  <2>1. /\ UNCHANGED <<fdtable, server_fd, conn, loop>> /\ does[c] = "idle" /\ Now(c).op = "Drop"
        /\ \/ at' = [at EXCEPT ![c] = at[c] + 1] /\ UNCHANGED does
           \/ does' = [does EXCEPT ![c] = "quit"] /\ UNCHANGED at
    BY <1>10 DEF Drop, GoTo, Continue, loopVars
  <2>2. "idle" \in Working /\ "quit" \in Working /\ "quit" \notin InCall /\ "idle" \notin InCall
    BY DEF Working, InCall
  <2>3. CASE at' = [at EXCEPT ![c] = at[c] + 1] /\ UNCHANGED does
    <3>1. does' = [does EXCEPT ![c] = "idle"]
      BY <1>2, <2>1, <2>3
    <3>2. at[c] + 1 \in DOMAIN Script(c) /\ does[c] \in Working \ {"connect"}
      BY <1>1, <2>1 DEF Working
    <3>3. at[c] + 1 # 1 /\ at' = [at EXCEPT ![c] = at[c] + 1]
      BY <1>1, <2>3
    <3> QED  BY <1>4, <2>1, <2>2, <3>1, <3>2, <3>3, NumbersStay
  <2>4. CASE does' = [does EXCEPT ![c] = "quit"] /\ UNCHANGED at
    <3>1. at' = [at EXCEPT ![c] = at[c]]
      BY <1>2, <2>4
    <3> QED  BY <1>1, <1>4, <2>1, <2>2, <2>4, <3>1, NumbersStay
  <2> QED  BY <2>1, <2>3, <2>4
<1>11. CASE Delete(c)
  <2>1. /\ UNCHANGED <<fdtable, server_fd, conn, loop, at>>
        /\ does[c] = "delete" \/ (does[c] = "idle" /\ Now(c).op = "Delete")
        /\ does' = [does EXCEPT ![c] = "join"]
    BY <1>11 DEF Delete, Stop, Continue
  <2>2. does[c] \in Working \ {"connect"} /\ "join" \in Working /\ "join" \notin InCall
    BY <2>1 DEF Working, InCall
  <2>3. at' = [at EXCEPT ![c] = at[c]]
    BY <1>2, <2>1
  <2> QED  BY <1>1, <1>4, <2>1, <2>2, <2>3, NumbersStay
<1>. QED  BY <1>5, <1>6, <1>7, <1>8, <1>9, <1>10, <1>11

\* Connect's socket() gives a client that has none a socket.
LEMMA ConnectBegins ==
    ASSUME ClientInv, NEW c \in Client, UNCHANGED mode, BeginConnect(c)
    PROVE  /\ ClientInv'
           /\ Fresh(c) /\ LowestFree \in Fd /\ fdtable[LowestFree] = None
           /\ fdtable' = [fdtable EXCEPT ![LowestFree] = c]
           /\ server_fd' = [server_fd EXCEPT ![c] = LowestFree]
<1> USE DEF ClientInv
<1> DEFINE n == LowestFree
<1>1. does[c] = "idle" /\ at[c] = 1 /\ at[c] \in DOMAIN Script(c)
  BY AtStep DEF BeginConnect
<1>2. Fresh(c)
  BY <1>1 DEF Fresh
<1>3. \A m \in Fd : fdtable[m] # c
  BY <1>1, <1>2 DEF Kept, Reached
<1>4. n \in Fd /\ fdtable[n] = None
  BY <1>3, FreeNumber
<1>5. /\ fdtable' = [fdtable EXCEPT ![n] = c]
      /\ server_fd' = [server_fd EXCEPT ![c] = n]
      /\ does' = [does EXCEPT ![c] = "connect"]
      /\ UNCHANGED <<conn, loop, at>>
  BY DEF BeginConnect, OpenSocket, Continue, loopVars
<1> HIDE DEF n
<1>6. Types'
  BY <1>4, <1>5 DEF Types, Working
<1>7. /\ \A o \in Client \ {c} : /\ does'[o] = does[o] /\ at'[o] = at[o]
                                 /\ server_fd'[o] = server_fd[o] /\ conn'[o] = conn[o]
      /\ does'[c] = "connect" /\ at'[c] = 1 /\ server_fd'[c] = n
      /\ \A m \in Fd : fdtable'[m] = IF m = n THEN c ELSE fdtable[m]
  BY <1>1, <1>4, <1>5 DEF Types
<1>8. ASSUME NEW m \in Fd, fdtable'[m] = c
      PROVE  Reached(c, m)'
  BY <1>3, <1>7, <1>8 DEF Reached
<1>9. "connect" \notin InCall
  BY DEF InCall
<1>10. ClientInv'
  BY <1>1, <1>6, <1>7, <1>8, <1>9, OneClient
<1>. QED  BY <1>2, <1>4, <1>5, <1>10 DEF n

\* connect(), refused or not.
LEMMA ConnectEnds ==
    ASSUME ClientInv, NEW c \in Client, NEW ok \in BOOLEAN, UNCHANGED mode, EndConnect(c, ok)
    PROVE  ClientInv'
<1> USE DEF ClientInv
<1>1. does[c] = "connect" /\ at[c] = 1 /\ UNCHANGED loop
  BY DEF EndConnect, Connect, loopVars, InScript
<1>2. Now(c).op # "Delete"
  BY <1>1, AtStep
<1>3. PICK n \in DOMAIN Script(c), d \in {"idle", "quit"} :
          /\ at' = [at EXCEPT ![c] = n]
          /\ does' = [does EXCEPT ![c] = d]
          /\ d = "idle" => n # 1
          /\ d = "quit" => n = at[c]
  BY <1>2, Goes DEF EndConnect
<1>4. DOMAIN Script(c) \subseteq Nat
  <2>1. ScriptOK(Script(c))
    BY ScriptsFit DEF Types
  <2> QED  BY <2>1 DEF ScriptOK
<1>5. /\ \A o \in Client \ {c} : does'[o] = does[o] /\ at'[o] = at[o]
      /\ does'[c] = d /\ at'[c] = n
      /\ does' \in [Client -> Working \cup {"unborn", "gone"}] /\ at' \in [Client -> Nat]
      /\ d \in Working \ {"connect"} /\ d \notin {"unborn", "connect"} /\ d \notin InCall
  BY <1>3, <1>4 DEF Types, Working, InCall
<1>6. \A m \in Fd : fdtable[m] = c => m = server_fd[c]
  BY <1>1 DEF Kept, Reached
<1>7. CASE ok
  <2>1. /\ UNCHANGED <<fdtable, server_fd>>
        /\ conn' = [conn EXCEPT ![c] = server_fd[c]]
    BY <1>7 DEF EndConnect, Connect
  <2>2. Types'
    BY <1>1, <1>5, <2>1 DEF Types
  <2>3. d = "idle"
    BY <1>3, <1>5, <1>7 DEF EndConnect, Ended, Continue, Types
  <2>4. \A m \in Fd : fdtable'[m] = c => Reached(c, m)'
    BY <1>3, <1>5, <1>6, <2>1, <2>3 DEF Reached, Fresh, Types
  <2>5. \A o \in Client \ {c} : server_fd'[o] = server_fd[o] /\ conn'[o] = conn[o]
    BY <2>1 DEF Types
  <2> QED  BY <1>5, <2>1, <2>2, <2>4, <2>5, OneClient
<1>8. CASE ~ok
  <2>1. /\ Close(c, server_fd[c])
        /\ server_fd' = [server_fd EXCEPT ![c] = None]
        /\ UNCHANGED conn
    BY <1>8 DEF EndConnect, Connect
  <2>2. server_fd[c] \in Fd \cup {None}
    BY DEF Types
  <2>3. /\ fdtable' \in [Fd -> Client \cup {None}]
        /\ \A m \in Fd : fdtable'[m] = IF m = server_fd[c] THEN None ELSE fdtable[m]
    BY <2>1, <2>2, Closing
  <2>4. Types'
    BY <1>1, <1>5, <2>1, <2>3 DEF Types
  <2>5. c # None
    BY ClientConstants DEF None, Client
  <2>6. \A m \in Fd : fdtable'[m] # c
    BY <1>6, <2>3, <2>5
  <2>7. \A o \in Client \ {c} : server_fd'[o] = server_fd[o] /\ conn'[o] = conn[o]
    BY <2>1 DEF Types
  <2> QED  BY <1>5, <2>3, <2>4, <2>6, <2>7, OneClient
<1>. QED  BY <1>7, <1>8

\* GameClient::Disconnect: the Connection keeps the number.
LEMMA Disconnects ==
    ASSUME ClientInv, NEW c \in Client, UNCHANGED mode, Disconnect(c)
    PROVE  ClientInv'
<1> USE DEF ClientInv
<1>1. /\ Close(c, server_fd[c])
      /\ server_fd' = [server_fd EXCEPT ![c] = None]
      /\ UNCHANGED <<conn, loop>>
  BY DEF Disconnect, CloseFd, loopVars
<1>2. server_fd[c] \in Fd \cup {None}
  BY DEF Types
<1>3. /\ fdtable' \in [Fd -> Client \cup {None}]
      /\ \A m \in Fd : fdtable'[m] = IF m = server_fd[c] THEN None ELSE fdtable[m]
  BY <1>1, <1>2, Closing
<1>4. /\ at[c] \in DOMAIN Script(c)
      /\ Now(c).op # "Connect" => at[c] # 1
      /\ Now(c).op # "Delete" => at[c] + 1 \in DOMAIN Script(c)
      /\ at[c] + 1 # 1
      /\ at[c] + 1 \in Nat
  BY AtStep DEF Types
<1>5. /\ does[c] \in {"idle", "quit"}
      /\ does[c] = "idle" => /\ at[c] # 1 /\ at[c] + 1 \in DOMAIN Script(c)
                             /\ at' = [at EXCEPT ![c] = at[c] + 1] /\ UNCHANGED does
      /\ does[c] = "quit" => does' = [does EXCEPT ![c] = "delete"] /\ UNCHANGED at
  BY <1>4 DEF Disconnect, GoTo, Continue
<1>6. does[c] \notin {"connect", "unborn"} /\ does[c] \in Working
  BY <1>5 DEF Working
<1>7. /\ \A o \in Client \ {c} : /\ does'[o] = does[o] /\ at'[o] = at[o]
                                 /\ server_fd'[o] = server_fd[o] /\ conn'[o] = conn[o]
      /\ at'[c] \in DOMAIN Script(c)
      /\ does'[c] \in {"idle", "delete"}
      /\ does'[c] = "idle" => at'[c] # 1
      /\ conn'[c] = conn[c]
  BY <1>1, <1>4, <1>5 DEF Types
<1>8. Types'
  BY <1>1, <1>3, <1>4, <1>5 DEF Types, Working
<1>9. does'[c] \in Working \ {"connect"} /\ does'[c] \notin {"unborn", "connect"} /\ does'[c] \notin InCall
  BY <1>7 DEF Working, InCall
<1>10. ASSUME NEW m \in Fd, fdtable'[m] = c
       PROVE  Reached(c, m)'
  <2>1. fdtable[m] = c
    BY <1>3, <1>10, ClientConstants DEF None, Client
  <2>2. m = conn[c]
    BY <1>6, <2>1 DEF Kept, Reached
  <2> QED  BY <1>7, <1>9, <2>2 DEF Reached, Fresh
<1>. QED  BY <1>3, <1>7, <1>8, <1>9, <1>10, OneClient

\* ~RpcClient deletes the Connection, and the socket is closed at the latest here.
LEMMA DestroysLast ==
    ASSUME ClientInv, NEW c \in Client, UNCHANGED mode, Deleted(c)
    PROVE  ClientInv'
<1> USE DEF ClientInv
<1>1. /\ does[c] = "join"
      /\ Close(c, conn[c])
      /\ server_fd' = [server_fd EXCEPT ![c] = None]
      /\ conn' = [conn EXCEPT ![c] = None]
      /\ does' = [does EXCEPT ![c] = "gone"]
      /\ UNCHANGED <<loop, at>>
  BY DEF Deleted, Destroy, Continue, loopVars
<1>2. conn[c] \in Fd \cup {None}
  BY DEF Types
<1>3. /\ fdtable' \in [Fd -> Client \cup {None}]
      /\ \A m \in Fd : fdtable'[m] = IF m = conn[c] THEN None ELSE fdtable[m]
  BY <1>1, <1>2, Closing
<1>4. Types'
  BY <1>1, <1>3 DEF Types
<1>5. \A m \in Fd : fdtable[m] = c => m = conn[c]
  BY <1>1 DEF Kept, Reached
<1>6. \A m \in Fd : fdtable'[m] # c
  BY <1>3, <1>5, ClientConstants DEF None, Client
<1>7. /\ \A o \in Client \ {c} : /\ does'[o] = does[o] /\ at'[o] = at[o]
                                 /\ server_fd'[o] = server_fd[o] /\ conn'[o] = conn[o]
      /\ does'[c] = "gone" /\ at'[c] = at[c] /\ at[c] \in DOMAIN Script(c)
  BY <1>1 DEF Types, InScript
<1>8. "gone" \notin InCall
  BY DEF InCall
<1>. QED  BY <1>3, <1>4, <1>6, <1>7, <1>8, OneClient

\* Connection::OnClose of the loop thread: the socket behind its number is closed.
LEMMA LoopCloses ==
    ASSUME ClientInv, NEW c \in Client, OnClose(c), UNCHANGED <<mode, server_fd, does, at>>
    PROVE  ClientInv'
<1> USE DEF ClientInv
<1>1. /\ Close(c, conn[c])
      /\ conn' = [conn EXCEPT ![c] = None]
      /\ loop' \in [Client -> {"none", "new", "wait", "read", "ended"}]
  BY DEF OnClose, NextRound, Types
<1>2. conn[c] \in Fd \cup {None}
  BY DEF Types
<1>3. /\ fdtable' \in [Fd -> Client \cup {None}]
      /\ \A m \in Fd : fdtable'[m] = IF m = conn[c] THEN None ELSE fdtable[m]
  BY <1>1, <1>2, Closing
<1>4. Types'
  BY <1>1, <1>3 DEF Types
<1>5. ASSUME NEW m \in Fd, fdtable'[m] = c
      PROVE  Reached(c, m)'
  <2>1. fdtable[m] = c /\ m # conn[c]
    BY <1>3, <1>5, ClientConstants DEF None, Client
  <2>2. does[c] = "connect" /\ m = server_fd[c]
    BY <2>1 DEF Kept, Reached
  <2> QED  BY <2>2 DEF Reached
<1>6. /\ \A o \in Client \ {c} : /\ does'[o] = does[o] /\ at'[o] = at[o]
                                 /\ server_fd'[o] = server_fd[o] /\ conn'[o] = conn[o]
      /\ at'[c] \in DOMAIN Script(c)
      /\ does'[c] \in {"unborn", "connect"} => at'[c] = 1
      /\ does'[c] \in InCall => Script(c)[at'[c]].op \notin NotCalls
  BY <1>1 DEF Types, InScript, Now
<1>. QED  BY <1>3, <1>4, <1>5, <1>6, OneClient

\* The reporter leaves the clients alone but for ids, requests and promises.
LEMMA ReporterLeaves ==
    ASSUME Reporter
    PROVE  UNCHANGED <<mode, at, fdtable, server_fd, conn, loop, running, woken, call, future, does>>
<1>1. UNCHANGED <<mode, at>>
  BY DEF Reporter
<1>2. CASE Checks
  BY <1>1, <1>2 DEF Checks, vars
<1>3. CASE Queries
  BY <1>1, <1>3 DEF Queries, loopVars
<1>4. CASE Transmits
  BY <1>1, <1>4 DEF Transmits, Transmit, loopVars
<1>5. CASE Reports
  BY <1>1, <1>5 DEF Reports, loopVars, callVars
<1>. QED  BY <1>2, <1>3, <1>4, <1>5 DEF Reporter

\* Every step.
LEMMA ClientStep ==
    ASSUME ClientInv, [GameNext]_gameVars
    PROVE  ClientInv'
<1>1. ASSUME NEW c \in Client, User(c)
      PROVE  ClientInv'
  <2>1. UNCHANGED mode
    BY <1>1 DEF User
  <2> QED  BY <1>1, <2>1, QuietUserSteps, ConnectBegins, ConnectEnds, Disconnects, DestroysLast DEF User
<1>2. ASSUME NEW c \in Client, LoopThread(c)
      PROVE  ClientInv'
  <2>1. UNCHANGED <<mode, server_fd, does, at>>
    BY <1>2 DEF LoopThread, Loop, RunBegins, Wakeup, SocketEvent, OnRead
  <2>2. CASE OnClose(c)
    BY <2>1, <2>2, LoopCloses
  <2>3. CASE ~OnClose(c)
    <3>1. UNCHANGED <<fdtable, conn>>
      BY <1>2, <2>3 DEF LoopThread, Loop, RunBegins, Wakeup, SocketEvent, OnRead
    <3>2. loop' \in [Client -> {"none", "new", "wait", "read", "ended"}]
      BY <1>2, <2>3 DEF LoopThread, Loop, RunBegins, Wakeup, SocketEvent, OnRead, NextRound, ClientInv, Types
    <3> QED  BY <2>1, <3>1, <3>2, LoopOnly
  <2> QED  BY <2>2, <2>3
<1>3. ASSUME NEW c \in Client, Answers(c) \/ Leaves(c)
      PROVE  ClientInv'
  <2>1. UNCHANGED <<mode, fdtable, server_fd, conn, does, at, loop>>
    BY <1>3 DEF Answers, ServerAnswers, Leaves, ServerLeaves, loopVars
  <2>2. loop' \in [Client -> {"none", "new", "wait", "read", "ended"}]
    BY <2>1 DEF ClientInv, Types
  <2> QED  BY <2>1, <2>2, LoopOnly
<1>4. CASE UNCHANGED gameVars
  <2>1. UNCHANGED <<mode, fdtable, server_fd, conn, does, at, loop>>
    BY <1>4 DEF gameVars, vars
  <2>2. loop' \in [Client -> {"none", "new", "wait", "read", "ended"}]
    BY <2>1 DEF ClientInv, Types
  <2> QED  BY <2>1, <2>2, LoopOnly
<1>5. CASE Reporter
  <2>1. UNCHANGED <<mode, fdtable, server_fd, conn, does, at, loop>>
    BY <1>5, ReporterLeaves
  <2>2. loop' \in [Client -> {"none", "new", "wait", "read", "ended"}]
    BY <2>1 DEF ClientInv, Types
  <2> QED  BY <2>1, <2>2, LoopOnly
<1>. QED  BY <1>1, <1>2, <1>3, <1>4, <1>5 DEF GameNext

\* No socket is open and no client is made at the start.
LEMMA ClientStart ==
    ASSUME GameInit
    PROVE  ClientInv
<1>1. /\ \A n \in Fd : fdtable[n] = None
      /\ \A c \in Client : does[c] = "unborn" /\ at[c] = 1
  BY DEF GameInit, Init
<1>2. Types
  BY DEF GameInit, Init, Types, Working
<1>3. InScript
  <2> SUFFICES ASSUME NEW c \in Client
               PROVE  at[c] \in DOMAIN Script(c)
    BY <1>1 DEF InScript, InCall
  <2>1. ScriptOK(Script(c))
    BY <1>2, ScriptsFit DEF Types
  <2> QED  BY <1>1, <2>1 DEF ScriptOK
<1>4. Kept
  BY <1>1, ClientConstants DEF Kept, Client, None
<1>. QED  BY <1>2, <1>3, <1>4 DEF ClientInv

\* Owners are at a step of their script, and every open socket is reached from the
\* client that opened it, in every state.
THEOREM SocketsAreReached == GameSpec => []ClientInv
<1>1. GameInit => ClientInv
  BY ClientStart
<1>2. ClientInv /\ [GameNext]_gameVars => ClientInv'
  BY ClientStep
<1>. QED  BY <1>1, <1>2, PTL DEF GameSpec

\* A deleted client leaves no socket open (NoSocketLeft): ~RpcClient closes what
\* Disconnect and OnClose left, in every mode and whatever failed.
THEOREM DeletedCloseAll == GameSpec => []NoSocketLeft
<1>1. ClientInv => NoSocketLeft
  <2> SUFFICES ASSUME ClientInv, NEW n \in Fd, fdtable[n] # None
               PROVE  does[fdtable[n]] # "gone"
    BY DEF NoSocketLeft
  <2>1. fdtable[n] \in Client
    BY DEF ClientInv, Types
  <2>2. Reached(fdtable[n], n)
    BY <2>1 DEF ClientInv, Kept
  <2> QED  BY <2>2 DEF Reached, Working
<1>. QED  BY <1>1, SocketsAreReached, PTL

-----------------------------------------------------------------------------
(* Requests and answers *)

\* A step that adds nothing to what is on the way and begins no request.
LEMMA LessOnTheWay ==
    ASSUME AnswersInv, UNCHANGED <<next_id, call, future>>, crossed => crossed',
           socket' = [c \in Client |-> socket'[c]],
           \A c \in Client : does'[c] \in InCall => does[c] \in InCall,
           \A c \in Client : IsSocket(socket'[c]) /\ OnTheWay(c)' \subseteq OnTheWay(c)
    PROVE  AnswersInv'
<1>1. CallTypes'
  BY DEF AnswersInv, CallTypes
<1>2. IdsMatch'
  BY DEF AnswersInv, IdsMatch
<1>3. AnswersMatch'
  BY DEF AnswersInv, AnswersMatch
<1>. QED  BY <1>1, <1>2, <1>3 DEF AnswersInv

\* A step that leaves the sockets alone.
LEMMA SameOnTheWay ==
    ASSUME AnswersInv, UNCHANGED <<socket, next_id, call, future>>, crossed => crossed',
           \A c \in Client : does'[c] \in InCall => does[c] \in InCall
    PROVE  AnswersInv'
<1>1. \A c \in Client : IsSocket(socket'[c]) /\ OnTheWay(c)' = OnTheWay(c)
  BY DEF AnswersInv, IdsMatch, OnTheWay
<1>2. socket' = [c \in Client |-> socket'[c]]
  BY DEF AnswersInv, CallTypes
<1>. QED  BY <1>1, <1>2, LessOnTheWay

\* What a socket has is lost with it.
LEMMA ClosedOnTheWay ==
    ASSUME ClientInv, AnswersInv, NEW c \in Client, NEW n \in Fd \cup {None}, Close(c, n)
    PROVE  /\ crossed => crossed'
           /\ socket' = [s \in Client |-> socket'[s]]
           /\ \A s \in Client : IsSocket(socket'[s]) /\ OnTheWay(s)' \subseteq OnTheWay(s)
<1>1. crossed => crossed'
  BY DEF Close
<1>2. Behind(n) = None \/ Behind(n) \in Client
  BY DEF ClientInv, Types, Behind
<1>3. CASE Behind(n) = None
  <2>1. socket' = socket
    BY <1>3 DEF Close
  <2> QED  BY <1>1, <2>1 DEF AnswersInv, CallTypes, IdsMatch, OnTheWay
<1>4. CASE Behind(n) # None
  <2>1. socket' = [socket EXCEPT ![Behind(n)] = Unused]
    BY <1>4 DEF Close
  <2>2. IsSocket(Unused) /\ Unused.req = {} /\ Unused.rsp = {}
    BY DEF IsSocket, Unused
  <2>3. /\ socket' = [s \in Client |-> socket'[s]]
        /\ \A s \in Client : socket'[s] = IF s = Behind(n) THEN Unused ELSE socket[s]
    BY <1>2, <1>4, <2>1 DEF AnswersInv, CallTypes
  <2>4. \A s \in Client : IsSocket(socket'[s])
    BY <2>2, <2>3 DEF AnswersInv, IdsMatch
  <2>5. \A s \in Client : OnTheWay(s)' \subseteq OnTheWay(s)
    BY <2>2, <2>3 DEF OnTheWay
  <2> QED  BY <1>1, <2>3, <2>4, <2>5
<1>. QED  BY <1>3, <1>4

\* Call gives the request an id that no request on the way has.
LEMMA NewId ==
    ASSUME ClientInv, AnswersInv, NEW c \in Client, NEW op, BeginCall(c, op)
    PROVE  AnswersInv'
<1>1. /\ call' = [call EXCEPT ![c] = [client |-> c, id |-> next_id[c], op |-> op]]
      /\ future' = [future EXCEPT ![c] = NoValue]
      /\ next_id' = [next_id EXCEPT ![c] = next_id[c] + 1]
      /\ does' = [does EXCEPT ![c] = "send"]
      /\ UNCHANGED <<socket, crossed>>
  BY DEF BeginCall, Continue
<1>2. CallTypes'
  BY <1>1 DEF AnswersInv, CallTypes
<1>3. /\ call'[c].id = next_id[c] /\ next_id'[c] = next_id[c] + 1 /\ future'[c] = NoValue
      /\ \A o \in Client \ {c} : /\ call'[o] = call[o] /\ next_id'[o] = next_id[o]
                                 /\ future'[o] = future[o] /\ does'[o] = does[o]
  BY <1>1 DEF AnswersInv, CallTypes, ClientInv, Types
<1>4. \A o \in Client : OnTheWay(o)' = OnTheWay(o)
  BY <1>1 DEF OnTheWay
<1>5. IdsMatch'
  <2> SUFFICES ASSUME NEW o \in Client
               PROVE  /\ IsSocket(socket'[o])
                      /\ next_id'[o] \in Nat \ {0}
                      /\ call'[o].id \in 0 .. next_id'[o] - 1
                      /\ does'[o] \in InCall => call'[o].id # 0
                      /\ ~crossed' =>
                           \A r \in OnTheWay(o)' : /\ r.id \in 1 .. next_id'[o] - 1
                                                   /\ r.id = call'[o].id => r = call'[o]
    BY DEF IdsMatch
  <2>1. /\ IsSocket(socket[o])
        /\ next_id[o] \in Nat \ {0}
        /\ call[o].id \in 0 .. next_id[o] - 1
        /\ does[o] \in InCall => call[o].id # 0
        /\ ~crossed =>
             \A r \in OnTheWay(o) : /\ r.id \in 1 .. next_id[o] - 1
                                    /\ r.id = call[o].id => r = call[o]
    BY DEF AnswersInv, IdsMatch
  <2>2. CASE o # c
    BY <1>1, <1>3, <1>4, <2>1, <2>2
  <2>3. CASE o = c
    <3>1. next_id[c] \in Nat \ {0} /\ next_id[c] \in 0 .. next_id[c] + 1 - 1 /\ next_id[c] # 0
      BY <2>1, <2>3
    <3>2. ASSUME ~crossed', NEW r \in OnTheWay(o)'
          PROVE  r.id \in 1 .. next_id'[o] - 1 /\ r.id # call'[o].id
      <4>1. r.id \in 1 .. next_id[c] - 1
        BY <1>1, <1>4, <2>1, <2>3, <3>2
      <4> QED  BY <1>3, <2>3, <3>1, <4>1
    <3> QED  BY <1>1, <1>3, <2>1, <2>3, <3>1, <3>2
  <2> QED  BY <2>2, <2>3
<1>6. AnswersMatch'
  BY <1>1, <1>3 DEF AnswersInv, AnswersMatch
<1>. QED  BY <1>2, <1>5, <1>6 DEF AnswersInv

\* send(): the socket of the client itself gets the request, if any does.
LEMMA OneMore ==
    ASSUME ClientInv, AnswersInv, NEW c \in Client, NEW r, NEW failed \in BOOLEAN,
           Transmit(c, r, failed), r.id \in 1 .. next_id[c] - 1, r.id = call[c].id => r = call[c],
           \A o \in Client : does'[o] \in InCall => does[o] \in InCall
    PROVE  IdsMatch' /\ socket' = [o \in Client |-> socket'[o]]
<1> DEFINE s == Behind(server_fd[c])
<1>1. /\ UNCHANGED <<next_id, call>>
      /\ crossed => crossed'
      /\ ~crossed' => s \in {None, c}
  BY DEF Transmit
<1>2. s = None \/ s \in Client
  BY DEF ClientInv, Types, Behind
<1>4. \/ socket' = socket
      \/ s # None /\ socket' = [socket EXCEPT ![s].req = @ \cup {r}]
      \/ s # None /\ socket' = [socket EXCEPT ![s].torn = TRUE]
  BY DEF Transmit
<1> HIDE DEF s
<1>5. socket' = [o \in Client |-> socket'[o]]
  BY <1>4 DEF AnswersInv, CallTypes
<1>6. \A o \in Client : IsSocket(socket[o])
  BY DEF AnswersInv, IdsMatch
<1>7. \A o \in Client : /\ IsSocket(socket'[o])
                        /\ OnTheWay(o)' \subseteq OnTheWay(o) \cup (IF o = s THEN {r} ELSE {})
  <2>1. CASE socket' = socket
    BY <1>6, <2>1 DEF OnTheWay
  <2>2. CASE s # None /\ socket' = [socket EXCEPT ![s].req = @ \cup {r}]
    <3>1. /\ \A o \in Client \ {s} : socket'[o] = socket[o]
          /\ socket'[s].req = socket[s].req \cup {r} /\ socket'[s].rsp = socket[s].rsp
          /\ IsSocket(socket'[s])
      <4>1. socket = [o \in Client |-> socket[o]] /\ s \in Client /\ IsSocket(socket[s])
        BY <1>2, <1>6, <2>2 DEF AnswersInv, CallTypes
      <4> QED  BY ONLY <2>2, <4>1 DEF IsSocket
    <3> QED  BY <1>6, <3>1 DEF OnTheWay
  <2>3. CASE s # None /\ socket' = [socket EXCEPT ![s].torn = TRUE]
    <3>1. /\ \A o \in Client \ {s} : socket'[o] = socket[o]
          /\ socket'[s].req = socket[s].req /\ socket'[s].rsp = socket[s].rsp
          /\ IsSocket(socket'[s])
      <4>1. socket = [o \in Client |-> socket[o]] /\ s \in Client /\ IsSocket(socket[s])
        BY <1>2, <1>6, <2>3 DEF AnswersInv, CallTypes
      <4> QED  BY ONLY <2>3, <4>1 DEF IsSocket
    <3> QED  BY <1>6, <3>1 DEF OnTheWay
  <2> QED  BY <1>4, <2>1, <2>2, <2>3
<1>8. IdsMatch'
  <2>1. ASSUME NEW o \in Client, ~crossed', NEW q \in OnTheWay(o)'
        PROVE  q.id \in 1 .. next_id[o] - 1 /\ (q.id = call[o].id => q = call[o])
    <3>1. CASE q \in OnTheWay(o)
      BY <1>1, <2>1, <3>1 DEF AnswersInv, IdsMatch
    <3>2. CASE q \notin OnTheWay(o)
      <4>1. q = r /\ o = s
        BY <1>7, <2>1, <3>2
      <4>2. o = c
        BY <1>1, <2>1, <4>1, ClientConstants DEF None, Client
      <4> QED  BY <4>1, <4>2
    <3> QED  BY <3>1, <3>2
  <2> QED  BY <1>1, <1>7, <2>1 DEF AnswersInv, IdsMatch
<1>. QED  BY <1>5, <1>8

\* An owner's request.
LEMMA SentRequest ==
    ASSUME ClientInv, AnswersInv, NEW c \in Client, SendRequest(c)
    PROVE  AnswersInv'
<1>1. /\ does[c] = "send" /\ does' = [does EXCEPT ![c] = "await"]
      /\ UNCHANGED <<next_id, call>>
      /\ crossed => crossed'
  BY DEF SendRequest, Transmit, Continue
<1>2. PICK failed \in BOOLEAN : Transmit(c, call[c], failed)
  BY DEF SendRequest
<1>3. \/ future' = future
      \/ future' = [future EXCEPT ![c] = Empty]
  BY DEF SendRequest
<1>4. call[c].id \in 1 .. next_id[c] - 1
  BY <1>1 DEF AnswersInv, IdsMatch, InCall
<1>5. \A o \in Client : does'[o] \in InCall => does[o] \in InCall
  BY <1>1 DEF InCall, ClientInv, Types
<1>6. IdsMatch' /\ socket' = [o \in Client |-> socket'[o]]
  BY <1>2, <1>4, <1>5, OneMore
<1>7. CallTypes'
  BY <1>1, <1>3, <1>6 DEF AnswersInv, CallTypes
<1>8. AnswersMatch'
  BY <1>1, <1>3 DEF AnswersInv, AnswersMatch, CallTypes
<1>. QED  BY <1>6, <1>7, <1>8 DEF AnswersInv

\* response_cb: the answer with the id of the request is the answer to it.
LEMMA ReadAnswers ==
    ASSUME ClientInv, AnswersInv, NEW c \in Client, OnRead(c), ~OnClose(c)
    PROVE  AnswersInv'
<1> DEFINE s == Behind(conn[c])
<1>1. /\ Fulfil(c, socket[s].rsp)
      /\ s # None
      /\ socket' = [socket EXCEPT ![s].rsp = {}]
      /\ crossed' = (crossed \/ s # c)
      /\ UNCHANGED <<next_id, call, does>>
  BY DEF OnRead
<1>2. s \in Client
  BY <1>1 DEF ClientInv, Types, Behind
<1>3. \/ future' = future
      \/ \E r \in socket[s].rsp : r.call.id = call[c].id /\ future' = [future EXCEPT ![c] = r]
  BY <1>1 DEF Fulfil
<1> HIDE DEF s
<1>4. CallTypes'
  BY <1>1, <1>3 DEF AnswersInv, CallTypes
<1>5. \A o \in Client : IsSocket(socket[o])
  BY DEF AnswersInv, IdsMatch
<1>6. \A o \in Client : IsSocket(socket'[o]) /\ OnTheWay(o)' \subseteq OnTheWay(o)
  <2>1. /\ \A o \in Client \ {s} : socket'[o] = socket[o]
        /\ socket'[s].req = socket[s].req /\ socket'[s].rsp = {}
        /\ IsSocket(socket'[s])
    <3>1. socket = [o \in Client |-> socket[o]] /\ IsSocket(socket[s])
      BY <1>2, <1>5 DEF AnswersInv, CallTypes
    <3> QED  BY ONLY <1>1, <1>2, <3>1 DEF IsSocket
  <2> QED  BY <1>5, <2>1 DEF OnTheWay
<1>7. IdsMatch'
  BY <1>1, <1>6 DEF AnswersInv, IdsMatch
<1>8. AnswersMatch'
  <2> SUFFICES ASSUME NEW o \in Client, ~crossed', future'[o] \notin {NoValue, Empty}
               PROVE  future'[o].call = call[o]
    BY <1>1 DEF AnswersMatch
  <2>1. ~crossed /\ s = c
    BY <1>1
  <2>2. CASE future'[o] = future[o]
    BY <2>1, <2>2 DEF AnswersInv, AnswersMatch
  <2>3. CASE future'[o] # future[o]
    <3>1. PICK r \in socket[s].rsp : r.call.id = call[c].id /\ future' = [future EXCEPT ![c] = r]
      BY <1>3, <2>3
    <3>2. o = c /\ future'[o] = r
      BY <2>3, <3>1 DEF AnswersInv, CallTypes
    <3>3. r.call \in OnTheWay(c)
      BY <2>1, <3>1 DEF OnTheWay
    <3>4. r.call = call[c]
      BY <2>1, <3>1, <3>3 DEF AnswersInv, IdsMatch
    <3> QED  BY <3>2, <3>4
  <2> QED  BY <2>2, <2>3
<1>. QED  BY <1>4, <1>7, <1>8 DEF AnswersInv

\* Deleting a client forgets its request and its future.
LEMMA ForgetsRequest ==
    ASSUME ClientInv, AnswersInv, NEW c \in Client, Deleted(c)
    PROVE  AnswersInv'
<1>1. /\ Close(c, conn[c])
      /\ call' = [call EXCEPT ![c] = NoCall]
      /\ future' = [future EXCEPT ![c] = NoValue]
      /\ does' = [does EXCEPT ![c] = "gone"]
      /\ UNCHANGED next_id
  BY DEF Deleted, Destroy, Continue
<1>2. conn[c] \in Fd \cup {None}
  BY DEF ClientInv, Types
<1>3. /\ crossed => crossed'
      /\ socket' = [s \in Client |-> socket'[s]]
      /\ \A s \in Client : IsSocket(socket'[s]) /\ OnTheWay(s)' \subseteq OnTheWay(s)
  BY <1>1, <1>2, ClosedOnTheWay
<1>4. CallTypes'
  BY <1>1, <1>3 DEF AnswersInv, CallTypes
<1>5. /\ call'[c].id = 0 /\ future'[c] = NoValue /\ does'[c] = "gone"
      /\ \A o \in Client \ {c} : call'[o] = call[o] /\ future'[o] = future[o] /\ does'[o] = does[o]
  BY <1>1 DEF AnswersInv, CallTypes, ClientInv, Types, NoCall
<1>6. IdsMatch'
  <2> SUFFICES ASSUME NEW o \in Client
               PROVE  /\ next_id[o] \in Nat \ {0}
                      /\ call'[o].id \in 0 .. next_id[o] - 1
                      /\ does'[o] \in InCall => call'[o].id # 0
                      /\ ~crossed' =>
                           \A r \in OnTheWay(o)' : /\ r.id \in 1 .. next_id[o] - 1
                                                   /\ r.id = call'[o].id => r = call'[o]
    BY <1>1, <1>3 DEF IdsMatch
  <2>1. /\ next_id[o] \in Nat \ {0}
        /\ call[o].id \in 0 .. next_id[o] - 1
        /\ does[o] \in InCall => call[o].id # 0
        /\ ~crossed' =>
             \A r \in OnTheWay(o)' : /\ r.id \in 1 .. next_id[o] - 1
                                     /\ r.id = call[o].id => r = call[o]
    BY <1>3 DEF AnswersInv, IdsMatch
  <2>2. CASE o # c
    BY <1>5, <2>1, <2>2
  <2>3. CASE o = c
    BY <1>5, <2>1, <2>3 DEF InCall
  <2> QED  BY <2>2, <2>3
<1>7. AnswersMatch'
  BY <1>3, <1>5 DEF AnswersInv, AnswersMatch
<1>. QED  BY <1>4, <1>6, <1>7 DEF AnswersInv

\* A step of an owner that begins or ends no request.
LEMMA NoRequest ==
    ASSUME ClientInv, AnswersInv, NEW c \in Client, ~Request(c), ~Send(c), ~Deleted(c), User(c)
    PROVE  AnswersInv'
<1>1. \A o \in Client : does'[o] \in InCall => does[o] \in InCall
  <2>1. \/ UNCHANGED does
        \/ \E d \in {"idle", "gone", "connect", "quit", "delete", "join"} :
              does' = [does EXCEPT ![c] = d]
    BY DEF User, Begin, Skip, BeginConnect, OpenSocket, EndConnect, GetAnswer, GiveUp, Ended,
           Drop, Disconnect, Delete, Continue, vars
  <2> QED  BY <2>1 DEF ClientInv, Types, InCall
<1>2. CASE Disconnect(c)
  <2>1. Close(c, server_fd[c]) /\ UNCHANGED <<next_id, call, future>>
    BY <1>2 DEF Disconnect, CloseFd, callVars
  <2>2. server_fd[c] \in Fd \cup {None}
    BY DEF ClientInv, Types
  <2>3. /\ crossed => crossed'
        /\ socket' = [s \in Client |-> socket'[s]]
        /\ \A s \in Client : IsSocket(socket'[s]) /\ OnTheWay(s)' \subseteq OnTheWay(s)
    BY <2>1, <2>2, ClosedOnTheWay
  <2> QED  BY <1>1, <2>1, <2>3, LessOnTheWay
<1>3. CASE \E ok \in BOOLEAN : EndConnect(c, ok)
  <2>1. UNCHANGED <<next_id, call, future>>
    BY <1>3 DEF EndConnect, Connect, callVars
  <2>2. CASE UNCHANGED <<socket, crossed>>
    BY <1>1, <2>1, <2>2, SameOnTheWay
  <2>3. CASE Close(c, server_fd[c])
    <3>1. server_fd[c] \in Fd \cup {None}
      BY DEF ClientInv, Types
    <3>2. /\ crossed => crossed'
          /\ socket' = [s \in Client |-> socket'[s]]
          /\ \A s \in Client : IsSocket(socket'[s]) /\ OnTheWay(s)' \subseteq OnTheWay(s)
      BY <2>3, <3>1, ClosedOnTheWay
    <3> QED  BY <1>1, <2>1, <3>2, LessOnTheWay
  <2> QED  BY <1>3, <2>2, <2>3 DEF EndConnect, Connect
<1>4. CASE Begin(c) \/ Skip(c) \/ BeginConnect(c) \/ GetAnswer(c) \/ GiveUp(c) \/ Drop(c) \/ Delete(c)
  <2>1. UNCHANGED <<socket, next_id, call, future, crossed>>
    BY <1>4 DEF Begin, Construct, Skip, BeginConnect, OpenSocket, GetAnswer, Answered, GiveUp,
                TimedOut, Drop, Delete, Stop, vars, callVars
  <2> QED  BY <1>1, <2>1, SameOnTheWay
<1>. QED  BY <1>2, <1>3, <1>4 DEF User

\* A step of a loop thread.
LEMMA LoopAnswers ==
    ASSUME ClientInv, AnswersInv, NEW c \in Client, Loop(c)
    PROVE  AnswersInv'
<1>1. UNCHANGED <<next_id, call, does>>
  BY DEF Loop, RunBegins, Wakeup, SocketEvent, OnRead, callVars
<1>2. CASE OnClose(c)
  <2>1. Close(c, conn[c]) /\ UNCHANGED future /\ conn[c] \in Fd \cup {None}
    BY <1>2 DEF OnClose, ClientInv, Types
  <2>2. /\ crossed => crossed'
        /\ socket' = [s \in Client |-> socket'[s]]
        /\ \A s \in Client : IsSocket(socket'[s]) /\ OnTheWay(s)' \subseteq OnTheWay(s)
    BY <2>1, ClosedOnTheWay
  <2> QED  BY <1>1, <2>1, <2>2, LessOnTheWay
<1>3. CASE RunBegins(c) \/ Wakeup(c)
  <2>1. UNCHANGED <<socket, future, crossed>>
    BY <1>3 DEF RunBegins, Wakeup, callVars
  <2> QED  BY <1>1, <2>1, SameOnTheWay
<1>4. CASE SocketEvent(c) /\ ~OnClose(c)
  <2>1. socket' = [socket EXCEPT ![c].ready = FALSE] /\ UNCHANGED <<future, crossed>>
    BY <1>4 DEF SocketEvent
  <2>2. socket = [o \in Client |-> socket[o]] /\ \A o \in Client : IsSocket(socket[o])
    BY DEF AnswersInv, CallTypes, IdsMatch
  <2>3. /\ \A o \in Client \ {c} : socket'[o] = socket[o]
        /\ socket'[c].req = socket[c].req /\ socket'[c].rsp = socket[c].rsp
        /\ IsSocket(socket'[c]) /\ socket' = [o \in Client |-> socket'[o]]
    <3>1. c \in Client /\ IsSocket(socket[c]) /\ socket = [o \in Client |-> socket[o]]
      BY <2>2
    <3> QED  BY ONLY <2>1, <3>1 DEF IsSocket
  <2>4. \A o \in Client : IsSocket(socket'[o]) /\ OnTheWay(o)' \subseteq OnTheWay(o)
    BY <2>2, <2>3 DEF OnTheWay
  <2> QED  BY <1>1, <2>1, <2>3, <2>4, LessOnTheWay
<1>5. CASE OnRead(c) /\ ~OnClose(c)
  BY <1>5, ReadAnswers
<1>. QED  BY <1>2, <1>3, <1>4, <1>5 DEF Loop

\* A step of the server.
LEMMA ServerOnTheWay ==
    ASSUME AnswersInv, NEW s \in Client, ServerAnswers(s) \/ ServerLeaves(s)
    PROVE  AnswersInv'
<1>1. UNCHANGED <<next_id, call, future, does, crossed>>
  BY DEF ServerAnswers, ServerLeaves, callVars
<1>2. socket = [o \in Client |-> socket[o]] /\ \A o \in Client : IsSocket(socket[o])
  BY DEF AnswersInv, CallTypes, IdsMatch
<1>3. CASE ServerAnswers(s)
  <2>1. PICK r \in socket[s].req, ok \in BOOLEAN :
          socket' = [socket EXCEPT ![s].req = @ \ {r},
                                   ![s].rsp = @ \cup {[call |-> r, ok |-> ok]},
                                   ![s].ready = TRUE]
    BY <1>3 DEF ServerAnswers
  <2>2. /\ \A o \in Client \ {s} : socket'[o] = socket[o]
        /\ socket'[s].req = socket[s].req \ {r}
        /\ socket'[s].rsp = socket[s].rsp \cup {[call |-> r, ok |-> ok]}
        /\ IsSocket(socket'[s]) /\ socket' = [o \in Client |-> socket'[o]]
    <3>1. s \in Client /\ IsSocket(socket[s]) /\ socket = [o \in Client |-> socket[o]]
      BY <1>2
    <3> QED  BY ONLY <2>1, <3>1 DEF IsSocket
  <2>3. \A o \in Client : IsSocket(socket'[o]) /\ OnTheWay(o)' \subseteq OnTheWay(o)
    <3> SUFFICES ASSUME NEW o \in Client
                 PROVE  IsSocket(socket'[o]) /\ OnTheWay(o)' \subseteq OnTheWay(o)
      OBVIOUS
    <3>1. CASE o # s
      BY <1>2, <2>2, <3>1 DEF OnTheWay
    <3>2. CASE o = s
      BY <2>2, <3>2 DEF OnTheWay
    <3> QED  BY <3>1, <3>2
  <2> QED  BY <1>1, <2>2, <2>3, LessOnTheWay
<1>4. CASE ServerLeaves(s)
  <2>1. socket' = [socket EXCEPT ![s].gone = TRUE, ![s].ready = TRUE, ![s].req = {}]
    BY <1>4 DEF ServerLeaves
  <2>2. /\ \A o \in Client \ {s} : socket'[o] = socket[o]
        /\ socket'[s].req = {} /\ socket'[s].rsp = socket[s].rsp
        /\ IsSocket(socket'[s]) /\ socket' = [o \in Client |-> socket'[o]]
    <3>1. s \in Client /\ IsSocket(socket[s]) /\ socket = [o \in Client |-> socket[o]]
      BY <1>2
    <3> QED  BY ONLY <2>1, <3>1 DEF IsSocket
  <2>3. \A o \in Client : IsSocket(socket'[o]) /\ OnTheWay(o)' \subseteq OnTheWay(o)
    BY <1>2, <2>2 DEF OnTheWay
  <2> QED  BY <1>1, <2>2, <2>3, LessOnTheWay
<1>. QED  BY <1>3, <1>4

\* A request of the reporter has an id of its own.
LEMMA ReporterAnswers ==
    ASSUME ClientInv, AnswersInv, OwnIds, Reporter
    PROVE  AnswersInv' /\ OwnIds'
<1>1. UNCHANGED <<mode, call, future, does>>
  BY ReporterLeaves
<1>2. \A c \in Client : next_id[c] \in Nat \ {0} /\ call[c].id \in 0 .. next_id[c] - 1
  BY DEF AnswersInv, IdsMatch
<1>3. CASE Checks
  <2>1. /\ UNCHANGED <<socket, next_id, crossed>> /\ mode = "steady" /\ Clients \in Client
        /\ reporter'.does = "checked"
    BY <1>3 DEF Checks, Metrics, ReporterAt, vars
  <2>2. AnswersInv'
    BY <1>1, <2>1, SameOnTheWay
  <2> QED  BY <1>1, <2>1, <2>2 DEF OwnIds
<1>4. CASE Queries
  <2>1. UNCHANGED <<socket, crossed>> /\ mode = "steady" /\ Clients \in Client
    BY <1>4 DEF Queries, OwnIds
  <2>2. CASE reporter'.does = "dead" /\ UNCHANGED next_id
    <3>1. AnswersInv'
      BY <1>1, <2>1, <2>2, SameOnTheWay
    <3> QED  BY <1>1, <2>1, <2>2, <3>1 DEF OwnIds
  <2>3. CASE /\ next_id' = [next_id EXCEPT ![Clients] = @ + 1]
             /\ reporter'.does = "send" /\ reporter'.call.id = next_id[Clients]
    <3>1. next_id = [c \in Client |-> next_id[c]]
      BY DEF AnswersInv, CallTypes
    <3>2. \A c \in Client : next_id'[c] = IF c = Clients THEN next_id[c] + 1 ELSE next_id[c]
      BY <2>3, <3>1
    <3>3. CallTypes'
      BY <1>1, <2>1, <2>3 DEF AnswersInv, CallTypes
    <3>4. \A c \in Client : OnTheWay(c)' = OnTheWay(c)
      BY <2>1 DEF OnTheWay
    <3>5. IdsMatch'
      <4> SUFFICES ASSUME NEW c \in Client
                   PROVE  /\ IsSocket(socket'[c])
                          /\ next_id'[c] \in Nat \ {0}
                          /\ call'[c].id \in 0 .. next_id'[c] - 1
                          /\ does'[c] \in InCall => call'[c].id # 0
                          /\ ~crossed' =>
                               \A r \in OnTheWay(c)' : /\ r.id \in 1 .. next_id'[c] - 1
                                                       /\ r.id = call'[c].id => r = call'[c]
        BY DEF IdsMatch
      <4>1. /\ IsSocket(socket[c])
            /\ next_id[c] \in Nat \ {0}
            /\ call[c].id \in 0 .. next_id[c] - 1
            /\ does[c] \in InCall => call[c].id # 0
            /\ ~crossed =>
                 \A r \in OnTheWay(c) : /\ r.id \in 1 .. next_id[c] - 1
                                        /\ r.id = call[c].id => r = call[c]
        BY DEF AnswersInv, IdsMatch
      <4>2. next_id'[c] \in {next_id[c], next_id[c] + 1}
        BY <3>2
      <4> QED  BY <1>1, <2>1, <3>4, <4>1, <4>2
    <3>6. AnswersMatch'
      BY <1>1, <2>1 DEF AnswersInv, AnswersMatch
    <3>7. OwnIds'
      BY <1>1, <1>2, <2>1, <2>3, <3>2 DEF OwnIds
    <3> QED  BY <3>3, <3>5, <3>6, <3>7 DEF AnswersInv
  <2> QED  BY <1>4, <2>2, <2>3 DEF Queries, ReporterAt
<1>5. CASE Transmits
  <2>1. /\ mode = "steady" /\ Clients \in Client /\ reporter'.does = "await" /\ UNCHANGED next_id
        /\ reporter.call.id \in 1 .. next_id[Clients] - 1 /\ reporter.call.id # call[Clients].id
    BY <1>5 DEF Transmits, Transmit, ReporterAt, OwnIds, callVars
  <2>2. OwnIds'
    BY <1>1, <2>1 DEF OwnIds
  <2>3. CASE UNCHANGED <<socket, crossed>>
    BY <1>1, <2>1, <2>2, <2>3, SameOnTheWay
  <2>4. CASE \E failed \in BOOLEAN : Transmit(Clients, reporter.call, failed)
    <3>1. IdsMatch' /\ socket' = [o \in Client |-> socket'[o]]
      BY <1>1, <2>1, <2>4, OneMore
    <3>2. crossed => crossed'
      BY <2>4 DEF Transmit
    <3>3. CallTypes' /\ AnswersMatch'
      BY <1>1, <2>1, <3>1, <3>2 DEF AnswersInv, CallTypes, AnswersMatch
    <3> QED  BY <2>2, <3>1, <3>3 DEF AnswersInv
  <2> QED  BY <1>5, <2>3, <2>4 DEF Transmits
<1>6. CASE Reports
  <2>1. UNCHANGED <<socket, next_id, crossed>> /\ reporter'.does = "asleep"
    BY <1>6 DEF Reports, ReporterAt, callVars
  <2>2. AnswersInv'
    BY <1>1, <2>1, SameOnTheWay
  <2> QED  BY <2>1, <2>2 DEF OwnIds
<1>. QED  BY <1>3, <1>4, <1>5, <1>6 DEF Reporter

\* An owner's step leaves the reporter's id its own.
LEMMA UserIds ==
    ASSUME ClientInv, AnswersInv, OwnIds, NEW c \in Client, User(c)
    PROVE  OwnIds'
<1>1. UNCHANGED mode
  BY DEF User
<1>2. CASE reporter'.does = "dead" /\ UnderCall(c)
  BY <1>1, <1>2 DEF OwnIds, UnderCall
<1>3. CASE UNCHANGED reporter
  <2> SUFFICES ASSUME reporter.does = "send"
               PROVE  /\ reporter.call.id \in 1 .. next_id'[Clients] - 1
                      /\ reporter.call.id # call'[Clients].id
    BY <1>1, <1>3 DEF OwnIds
  <2>1. /\ Clients \in Client /\ next_id[Clients] \in Nat \ {0}
        /\ reporter.call.id \in 1 .. next_id[Clients] - 1 /\ reporter.call.id # call[Clients].id
    BY DEF OwnIds, AnswersInv, IdsMatch
  <2>2. CASE Request(c)
    <3>1. /\ call' = [call EXCEPT ![c] = [client |-> c, id |-> next_id[c], op |-> Now(c).op]]
          /\ next_id' = [next_id EXCEPT ![c] = next_id[c] + 1]
      BY <2>2 DEF Request, BeginCall
    <3>2. /\ next_id'[Clients] \in {next_id[Clients], next_id[Clients] + 1}
          /\ call'[Clients] = call[Clients] \/ call'[Clients].id = next_id[Clients]
      BY <2>1, <3>1 DEF AnswersInv, CallTypes
    <3> QED  BY <2>1, <3>2
  <2>3. CASE Deleted(c)
    <3>1. UNCHANGED next_id /\ call' = [call EXCEPT ![c] = NoCall]
      BY <2>3 DEF Deleted, Destroy
    <3>2. call'[Clients] = call[Clients] \/ call'[Clients].id = 0
      BY <2>1, <3>1 DEF AnswersInv, CallTypes, NoCall
    <3> QED  BY <2>1, <3>1, <3>2
  <2>4. CASE ~Request(c) /\ ~Deleted(c)
    <3>1. UNCHANGED <<next_id, call>>
      BY <2>4 DEF User, Begin, Construct, Skip, BeginConnect, OpenSocket, EndConnect, Connect, Send,
             SendRequest, Transmit, GetAnswer, Answered, GiveUp, TimedOut, Drop, Disconnect, CloseFd,
             Delete, Stop, callVars, vars
    <3> QED  BY <2>1, <3>1
  <2> QED  BY <2>2, <2>3, <2>4
<1>. QED  BY <1>2, <1>3 DEF User, Deleted, ReporterAt

\* Every step.
LEMMA AnswersStep ==
    ASSUME ClientInv, AnswersInv, OwnIds, [GameNext]_gameVars
    PROVE  AnswersInv' /\ OwnIds'
<1>1. ASSUME NEW c \in Client, User(c)
      PROVE  AnswersInv' /\ OwnIds'
  <2>1. CASE Request(c)
    BY <1>1, <2>1, NewId, UserIds DEF Request
  <2>2. CASE Send(c)
    BY <1>1, <2>2, SentRequest, UserIds DEF Send
  <2>3. CASE Deleted(c)
    BY <1>1, <2>3, ForgetsRequest, UserIds
  <2> QED  BY <1>1, <2>1, <2>2, <2>3, NoRequest, UserIds
<1>2. ASSUME UNCHANGED <<mode, reporter, next_id, call>>
      PROVE  OwnIds'
  BY <1>2 DEF OwnIds
<1>3. ASSUME NEW c \in Client, LoopThread(c)
      PROVE  AnswersInv' /\ OwnIds'
  <2>1. UNCHANGED <<mode, reporter, next_id, call>>
    BY <1>3 DEF LoopThread, Loop, RunBegins, Wakeup, SocketEvent, OnRead, callVars
  <2> QED  BY <1>2, <1>3, <2>1, LoopAnswers DEF LoopThread
<1>4. ASSUME NEW c \in Client, Answers(c) \/ Leaves(c)
      PROVE  AnswersInv' /\ OwnIds'
  <2>1. UNCHANGED <<mode, reporter, next_id, call>>
    BY <1>4 DEF Answers, Leaves, ServerAnswers, ServerLeaves, callVars
  <2> QED  BY <1>2, <1>4, <2>1, ServerOnTheWay DEF Answers, Leaves
<1>5. CASE UNCHANGED gameVars
  <2>1. UNCHANGED <<socket, next_id, call, future, crossed, does, mode, reporter>>
    BY <1>5 DEF gameVars, vars
  <2> QED  BY <1>2, <2>1, SameOnTheWay
<1>. QED  BY <1>1, <1>3, <1>4, <1>5, ReporterAnswers DEF GameNext

\* What is on the way fits the ids in every state.
LEMMA AnswersHold == GameSpec => [](AnswersInv /\ OwnIds)
<1>1. GameInit => AnswersInv /\ OwnIds
  <2> SUFFICES ASSUME GameInit
               PROVE  AnswersInv /\ OwnIds
    OBVIOUS
  <2>1. \A c \in Client : /\ socket[c] = Unused /\ next_id[c] = 1 /\ call[c] = NoCall
                          /\ future[c] = NoValue /\ does[c] = "unborn"
    BY DEF GameInit, Init
  <2>2. IsSocket(Unused) /\ Unused.req = {} /\ Unused.rsp = {} /\ NoCall.id = 0
    BY DEF IsSocket, Unused, NoCall
  <2>3. CallTypes /\ reporter.does = "asleep"
    BY DEF GameInit, Init, CallTypes
  <2>4. IdsMatch
    BY <2>1, <2>2 DEF IdsMatch, OnTheWay, InCall
  <2> QED  BY <2>1, <2>3, <2>4 DEF AnswersInv, AnswersMatch, OwnIds
<1>2. ClientInv /\ (AnswersInv /\ OwnIds) /\ [GameNext]_gameVars => (AnswersInv /\ OwnIds)'
  BY AnswersStep
<1>. QED  BY <1>1, <1>2, SocketsAreReached, PTL DEF GameSpec

\* The future of a request gets the answer to this request or is empty, as long as
\* nobody uses another client's socket (AnswersMatch): an id is given once, and an
\* answer that comes after wait_for gave up finds another id.
THEOREM AnswersToOwnCalls == GameSpec => []AnswersMatch
<1>1. AnswersInv => AnswersMatch
  BY DEF AnswersInv
<1>. QED  BY <1>1, AnswersHold, PTL

-----------------------------------------------------------------------------
(* One's own socket only *)

\* The phases of the modes that connect before anybody disconnects.
LEMMA Phases ==
    ASSUME ClientInv, Serial, NEW c \in Client
    PROVE  /\ Now(c).phase \in Nat \ {0}
           /\ at[c] = 1 => Now(c).phase = 1
           /\ Now(c).op \in {"Disconnect", "Delete"} => Now(c).phase > 1
           /\ 1 \in MainThread
<1>1. mode \in {"steady", "chaos", "match"} /\ mode \in Modes
  BY DEF ClientInv, Types, Serial, OneThread
<1>2. InPhases(Script(c)) /\ ScriptOK(Script(c)) /\ 1 \in MainThread
  BY <1>1, ScriptsFit
<1>3. at[c] \in DOMAIN Script(c) /\ Now(c) = Script(c)[at[c]]
  BY DEF ClientInv, InScript, Now
<1>4. PhaseOf(Now(c)) /\ (at[c] = 1 => Now(c).op = "Connect")
  BY <1>2, <1>3 DEF InPhases, ScriptOK
<1>. QED  BY <1>2, <1>4 DEF PhaseOf

\* What the loop thread or the owner of a client finds behind its numbers.
LEMMA OwnNumber ==
    ASSUME ClientInv, SocketInv, mode \in OneThread, NEW c \in Client, does[c] \in Working
    PROVE  Behind(server_fd[c]) \in {None, c} /\ Behind(conn[c]) \in {None, c}
<1>1. CASE mode = "single"
  <2> SUFFICES ASSUME NEW n \in Fd \cup {None}, Behind(n) # None
               PROVE  Behind(n) = c
    BY DEF ClientInv, Types
  <2>1. n \in Fd /\ Behind(n) = fdtable[n] /\ fdtable[n] \in Client
    BY DEF Behind, ClientInv, Types
  <2>2. Reached(fdtable[n], n)
    BY <2>1 DEF ClientInv, Kept
  <2>3. does[fdtable[n]] \notin {"unborn", "gone"} /\ does[c] \notin {"unborn", "gone"}
    BY <2>2 DEF Reached, Working
  <2>4. ~(fdtable[n] < c) /\ ~(c < fdtable[n])
    BY <1>1, <2>1, <2>3 DEF SocketInv, Alone
  <2> QED  BY <2>1, <2>4, ClientConstants DEF Client
<1>2. CASE mode # "single"
  <2>1. OwnNumbers(c)
    BY <1>2 DEF SocketInv, Apart, Serial
  <2> QED  BY <2>1 DEF OwnNumbers, Behind
<1>. QED  BY <1>1, <1>2

\* While a loop thread takes a step its client is there.
LEMMA LoopsOfTheLiving ==
    ASSUME ClientInv, LoopLives, NEW c \in Client, Loop(c)
    PROVE  does[c] \in Working
BY DEF ClientInv, Types, LoopLives, Loop, RunBegins, Wakeup, SocketEvent, OnRead

\* An owner that is not about to be born has a client.
LEMMA OwnersOfTheLiving ==
    ASSUME NEW c \in Client, User(c), ~Begin(c), ClientInv
    PROVE  does[c] \in Working
<1>1. CASE Skip(c) \/ BeginConnect(c) \/ Request(c) \/ Drop(c) \/ Disconnect(c) \/ Delete(c)
  BY <1>1 DEF Skip, BeginConnect, Request, Drop, Disconnect, Delete, Working
<1>2. CASE Send(c) \/ GetAnswer(c) \/ GiveUp(c) \/ Deleted(c)
  BY <1>2 DEF Send, SendRequest, GetAnswer, Answered, GiveUp, TimedOut, Deleted, Destroy, Working
<1>3. CASE \E ok \in BOOLEAN : EndConnect(c, ok)
  BY <1>3 DEF EndConnect, Connect, Working
<1>. QED  BY <1>1, <1>2, <1>3 DEF User

\* Nobody uses another client's socket in a step.
LEMMA NobodyCrosses ==
    ASSUME ClientInv, OwnIds, SocketInv, [GameNext]_gameVars
    PROVE  OwnSocketOnly'
<1> SUFFICES ASSUME mode' \in OneThread
             PROVE  ~crossed'
  BY DEF OwnSocketOnly, OneThread
<1>1. mode' = mode
  BY DEF GameNext, User, LoopThread, Answers, Leaves, Reporter, gameVars
<1>2. mode \in OneThread /\ ~crossed
  BY <1>1 DEF SocketInv, OwnSocketOnly
<1>3. ASSUME NEW c \in Client, User(c)
      PROVE  ~crossed'
  <2>1. CASE Begin(c)
    BY <1>2, <2>1 DEF Begin, Construct
  <2>2. CASE ~Begin(c)
    <3>1. Behind(server_fd[c]) \in {None, c} /\ Behind(conn[c]) \in {None, c}
      BY <1>2, <1>3, <2>2, OwnersOfTheLiving, OwnNumber
    <3>2. CASE Skip(c) \/ BeginConnect(c) \/ Request(c) \/ GetAnswer(c) \/ GiveUp(c) \/ Drop(c) \/ Delete(c)
      BY <1>2, <3>2 DEF Skip, BeginConnect, OpenSocket, Request, BeginCall, GetAnswer, Answered,
                        GiveUp, TimedOut, Drop, Delete, Stop, vars
    <3>3. CASE Disconnect(c) \/ \E ok \in BOOLEAN : EndConnect(c, ok)
      BY <1>2, <3>1, <3>3 DEF Disconnect, CloseFd, EndConnect, Connect, Close
    <3>4. CASE Send(c) \/ Deleted(c)
      BY <1>2, <3>1, <3>4 DEF Send, SendRequest, Transmit, Deleted, Destroy, Close
    <3> QED  BY <1>3, <2>2, <3>2, <3>3, <3>4 DEF User
  <2> QED  BY <2>1, <2>2
<1>4. ASSUME NEW c \in Client, LoopThread(c)
      PROVE  ~crossed'
  <2>1. Behind(conn[c]) \in {None, c}
    <3>1. does[c] \in Working
      BY <1>4, LoopsOfTheLiving DEF LoopThread, SocketInv
    <3> QED  BY <1>2, <3>1, OwnNumber
  <2>2. CASE OnClose(c)
    BY <1>2, <2>1, <2>2 DEF OnClose, Close
  <2>3. CASE RunBegins(c) \/ Wakeup(c)
    BY <1>2, <2>3 DEF RunBegins, Wakeup
  <2>4. CASE SocketEvent(c) /\ ~OnClose(c)
    BY <1>2, <2>4 DEF SocketEvent
  <2>5. CASE OnRead(c) /\ ~OnClose(c)
    BY <1>2, <2>1, <2>5 DEF OnRead
  <2> QED  BY <1>4, <2>2, <2>3, <2>4, <2>5 DEF LoopThread, Loop
<1>5. ASSUME NEW c \in Client, Answers(c) \/ Leaves(c)
      PROVE  ~crossed'
  BY <1>2, <1>5 DEF Answers, ServerAnswers, Leaves, ServerLeaves
<1>6. CASE UNCHANGED gameVars
  BY <1>2, <1>6 DEF gameVars, vars
<1>7. CASE Reporter
  <2>1. CASE UNCHANGED crossed
    BY <1>2, <2>1
  <2>2. CASE \E failed \in BOOLEAN : Transmit(Clients, reporter.call, failed) /\ reporter.does = "send"
    <3>1. Clients \in Client /\ Serial
      BY <1>2, <2>2 DEF OwnIds, Serial
    <3>2. Behind(server_fd[Clients]) \in {None, Clients}
      BY <3>1 DEF SocketInv, Apart, OwnNumbers, Behind
    <3> QED  BY <1>2, <2>2, <3>2 DEF Transmit
  <2> QED  BY <1>7, <2>1, <2>2 DEF Reporter, Checks, Queries, Transmits, Reports, vars
<1>. QED  BY <1>3, <1>4, <1>5, <1>6, <1>7 DEF GameNext

\* A loop thread ends before its client is gone, and begins after it is there.
LEMMA LoopLivesOn ==
    ASSUME ClientInv, SocketInv, [GameNext]_gameVars
    PROVE  LoopLives'
<1> USE DEF ClientInv, SocketInv
<1>1. ASSUME NEW c \in Client, User(c)
      PROVE  LoopLives'
  <2>1. CASE Begin(c)
    <3>1. does[c] = "unborn" /\ loop[c] \in {"none", "ended"}
      BY <2>1 DEF Begin, LoopLives
    <3>2. CASE does' = [does EXCEPT ![c] = "gone"] /\ UNCHANGED loop
      BY <3>1, <3>2 DEF LoopLives, Types
    <3>3. CASE does' = [does EXCEPT ![c] = "idle"] /\ loop' = [loop EXCEPT ![c] = "new"]
      BY <3>1, <3>3 DEF LoopLives, Types
    <3> QED  BY <2>1, <3>2, <3>3 DEF Begin, Construct, Continue, loopVars
  <2>2. CASE Deleted(c)
    <3>1. loop[c] = "ended" /\ UNCHANGED loop /\ does' = [does EXCEPT ![c] = "gone"]
      BY <2>2 DEF Deleted, Destroy, Continue, loopVars
    <3> QED  BY <3>1 DEF LoopLives, Types
  <2>3. CASE ~Begin(c) /\ ~Deleted(c)
    <3>1. UNCHANGED loop
      BY <1>1, <2>3 DEF User, Skip, BeginConnect, OpenSocket, EndConnect, Connect, Request, BeginCall,
           Send, SendRequest, Transmit, GetAnswer, Answered, GiveUp, TimedOut, Drop, Disconnect,
           CloseFd, Delete, Stop, loopVars, vars
    <3>2. \/ UNCHANGED does
          \/ \E d \in {"idle", "connect", "send", "await", "quit", "delete", "join"} :
                does' = [does EXCEPT ![c] = d]
      BY <1>1, <2>3 DEF User, Skip, BeginConnect, OpenSocket, EndConnect, Request, BeginCall,
           Send, SendRequest, GetAnswer, GiveUp, Ended, Drop, Disconnect, Delete, Continue, vars
    <3> QED  BY <3>1, <3>2 DEF LoopLives, Types
  <2> QED  BY <2>1, <2>2, <2>3
<1>2. ASSUME NEW c \in Client, LoopThread(c)
      PROVE  LoopLives'
  <2>1. does[c] \in Working /\ UNCHANGED does
    BY <1>2, LoopsOfTheLiving DEF LoopThread, Loop, RunBegins, Wakeup, SocketEvent, OnRead
  <2>2. \A o \in Client \ {c} : loop'[o] = loop[o]
    BY <1>2 DEF LoopThread, Loop, RunBegins, Wakeup, SocketEvent, OnRead, OnClose, NextRound, Types
  <2> QED  BY <2>1, <2>2 DEF LoopLives, Working
<1>3. ASSUME NEW c \in Client, Answers(c) \/ Leaves(c)
      PROVE  LoopLives'
  BY <1>3 DEF Answers, ServerAnswers, Leaves, ServerLeaves, loopVars, LoopLives
<1>4. CASE UNCHANGED gameVars
  BY <1>4 DEF gameVars, vars, LoopLives
<1>5. CASE Reporter
  BY <1>5, ReporterLeaves DEF LoopLives
<1>. QED  BY <1>1, <1>2, <1>3, <1>4, <1>5 DEF GameNext

\* One client after the other: with one phase, on the main thread, it is a client's
\* turn when those before it are gone.
LEMMA AloneStays ==
    ASSUME ClientInv, SocketInv, [GameNext]_gameVars
    PROVE  Alone'
<1>1. mode' = mode
  BY DEF GameNext, User, LoopThread, Answers, Leaves, Reporter, gameVars
<1>2. CASE UNCHANGED does
  BY <1>1, <1>2 DEF SocketInv, Alone
<1>3. ASSUME NEW c \in Client, User(c), mode = "single"
      PROVE  \A i, j \in Client : i < j => does'[i] = "gone" \/ does'[j] = "unborn"
  <2>1. \A j \in Client : Now(j).phase = 1
    <3> TAKE j \in Client
    <3>1. AllFirst(Script(j)) /\ at[j] \in DOMAIN Script(j)
      BY <1>3, ScriptsFit DEF ClientInv, Types, InScript
    <3> QED  BY <3>1 DEF AllFirst, Now
  <2>2. MainThread = {1}
    BY <1>3, ScriptsFit DEF ClientInv, Types
  <2>3. Left(c) = {} /\ does[c] # "gone"
    BY <1>3, <2>1, <2>2 DEF User, Turn, Left
  <2>4. \A i \in Client : i < c => does[i] = "gone"
    BY <2>3 DEF Left
  <2>5. \A o \in Client \ {c} : does'[o] = does[o]
    <3>1. UNCHANGED does \/ \E d : does' = [does EXCEPT ![c] = d]
      BY <1>3 DEF User, Begin, Construct, Skip, BeginConnect, OpenSocket, EndConnect, Request, BeginCall,
           Send, SendRequest, GetAnswer, GiveUp, Ended, Drop, Disconnect, Delete, Deleted, Continue, vars
    <3> QED  BY <3>1 DEF ClientInv, Types
  <2> TAKE i, j \in Client
  <2> HAVE i < j
  <2>6. does[i] = "gone" \/ does[j] = "unborn"
    BY <1>3 DEF SocketInv, Alone
  <2>7. c \in Nat /\ i \in Nat /\ j \in Nat
    BY ClientConstants DEF Client
  <2>8. CASE i = c
    BY <2>3, <2>5, <2>6, <2>7, <2>8
  <2>9. CASE j = c
    BY <2>4, <2>5, <2>7, <2>9
  <2>10. CASE i # c /\ j # c
    BY <2>5, <2>6, <2>10
  <2> QED  BY <2>8, <2>9, <2>10
<1>4. \/ UNCHANGED does
      \/ \E c \in Client : User(c)
  BY ReporterLeaves DEF GameNext, LoopThread, Loop, RunBegins, Wakeup, SocketEvent, OnRead, Answers,
         ServerAnswers, Leaves, ServerLeaves, gameVars, vars
<1>. QED  BY <1>1, <1>2, <1>3, <1>4 DEF Alone

\* In the modes without leaving the server closes no connection.
LEMMA NobodyLeaves ==
    ASSUME ClientInv, AnswersInv, SocketInv, [GameNext]_gameVars
    PROVE  NobodyLeft'
<1>1. mode' = mode
  BY DEF GameNext, User, LoopThread, Answers, Leaves, Reporter, gameVars
<1> SUFFICES ASSUME Serial
             PROVE  \A s \in Client : ~socket'[s].gone
  BY <1>1 DEF NobodyLeft, Serial, OneThread
<1>2. /\ \A s \in Client : ~socket[s].gone /\ IsSocket(socket[s])
      /\ socket = [s \in Client |-> socket[s]]
  BY DEF SocketInv, NobodyLeft, AnswersInv, CallTypes, IdsMatch
<1>3. CASE UNCHANGED socket
  BY <1>2, <1>3
<1>4. ASSUME NEW c \in Client, NEW n \in Fd \cup {None}, Close(c, n)
      PROVE  \A s \in Client : ~socket'[s].gone
  <2>1. UNCHANGED socket \/ socket' = [socket EXCEPT ![Behind(n)] = Unused]
    BY <1>4 DEF Close
  <2>2. ~Unused.gone
    BY DEF Unused
  <2> QED  BY <1>2, <2>1, <2>2
<1>5. ASSUME NEW c, NEW r, NEW failed \in BOOLEAN, Transmit(c, r, failed)
      PROVE  \A s \in Client : ~socket'[s].gone
  <2> DEFINE t == Behind(server_fd[c])
  <2>1. \/ UNCHANGED socket
        \/ socket' = [socket EXCEPT ![t].req = @ \cup {r}]
        \/ socket' = [socket EXCEPT ![t].torn = TRUE]
    BY <1>5 DEF Transmit
  <2> HIDE DEF t
  <2> QED  BY ONLY <1>2, <2>1 DEF IsSocket
<1>6. ASSUME NEW c \in Client, OnRead(c) \/ SocketEvent(c), ~OnClose(c)
      PROVE  \A s \in Client : ~socket'[s].gone
  <2> DEFINE t == Behind(conn[c])
  <2>1. \/ socket' = [socket EXCEPT ![t].rsp = {}]
        \/ socket' = [socket EXCEPT ![c].ready = FALSE]
    BY <1>6 DEF OnRead, SocketEvent
  <2> HIDE DEF t
  <2> QED  BY ONLY <1>2, <2>1 DEF IsSocket
<1>7. ASSUME NEW t \in Client, ServerAnswers(t)
      PROVE  \A s \in Client : ~socket'[s].gone
  <2>1. PICK r \in socket[t].req, ok \in BOOLEAN :
          socket' = [socket EXCEPT ![t].req = @ \ {r},
                                   ![t].rsp = @ \cup {[call |-> r, ok |-> ok]},
                                   ![t].ready = TRUE]
    BY <1>7 DEF ServerAnswers
  <2> QED  BY ONLY <1>2, <2>1 DEF IsSocket
<1>8. ASSUME NEW c \in Client
      PROVE  server_fd[c] \in Fd \cup {None} /\ conn[c] \in Fd \cup {None}
  BY DEF ClientInv, Types
<1>9. ASSUME NEW c \in Client, User(c)
      PROVE  \A s \in Client : ~socket'[s].gone
  <2>1. CASE Send(c)
    BY <1>5, <2>1 DEF Send, SendRequest
  <2>2. CASE Disconnect(c) \/ Deleted(c)
    BY <1>4, <1>8, <2>2 DEF Disconnect, CloseFd, Deleted, Destroy
  <2>3. CASE \E ok \in BOOLEAN : EndConnect(c, ok)
    BY <1>3, <1>4, <1>8, <2>3 DEF EndConnect, Connect
  <2>4. CASE Begin(c) \/ Skip(c) \/ BeginConnect(c) \/ Request(c) \/ GetAnswer(c) \/ GiveUp(c) \/ Drop(c) \/ Delete(c)
    <3>1. UNCHANGED socket
      BY <2>4 DEF Begin, Construct, Skip, BeginConnect, OpenSocket, Request, BeginCall, GetAnswer,
                  Answered, GiveUp, TimedOut, Drop, Delete, Stop, vars
    <3> QED  BY <1>3, <3>1
  <2> QED  BY <1>9, <2>1, <2>2, <2>3, <2>4 DEF User
<1>10. ASSUME NEW c \in Client, LoopThread(c)
       PROVE  \A s \in Client : ~socket'[s].gone
  <2>1. CASE OnClose(c)
    BY <1>4, <1>8, <2>1 DEF OnClose
  <2>2. CASE RunBegins(c) \/ Wakeup(c)
    BY <1>3, <2>2 DEF RunBegins, Wakeup
  <2> QED  BY <1>6, <1>10, <2>1, <2>2 DEF LoopThread, Loop
<1>11. ASSUME NEW c \in Client, Answers(c) \/ Leaves(c)
       PROVE  \A s \in Client : ~socket'[s].gone
  <2>1. mode \notin Leaving
    BY DEF Serial, OneThread
  <2> QED  BY <1>7, <1>11, <2>1 DEF Answers, Leaves
<1>12. CASE Reporter
  BY <1>3, <1>5, <1>12 DEF Reporter, Checks, Queries, Transmits, Reports, vars
<1>. QED  BY <1>3, <1>9, <1>10, <1>11, <1>12 DEF GameNext, gameVars, vars

\* A step of client c that opens nothing keeps the numbers apart, if c's own are.
LEMMA StillApart ==
    ASSUME ClientInv, Apart, Serial, UNCHANGED mode, NEW c \in Client,
           \A o \in Client \ {c} : /\ does'[o] = does[o] /\ at'[o] = at[o]
                                   /\ server_fd'[o] = server_fd[o] /\ conn'[o] = conn[o],
           Fresh(c)' => Fresh(c),
           \A m \in Fd : \/ fdtable'[m] = fdtable[m]
                         \/ fdtable'[m] = None /\ fdtable[m] = c,
           OwnNumbers(c)', StaleLast(c)'
    PROVE  Apart'
<1>1. \A j \in Client : Fresh(j)' => Fresh(j)
  BY DEF Fresh
<1>2. ASSUME NEW o \in Client \ {c}
      PROVE  OwnNumbers(o)' /\ StaleLast(o)'
  <2>1. OwnNumbers(o) /\ StaleLast(o)
    BY DEF Apart
  <2>2. /\ server_fd[o] \in Fd \cup {None} /\ conn[o] \in Fd \cup {None} /\ o # None
        /\ does'[o] = does[o] /\ at'[o] = at[o] /\ server_fd'[o] = server_fd[o] /\ conn'[o] = conn[o]
    BY ClientConstants DEF ClientInv, Types, None, Client
  <2>3. OwnNumbers(o)'
    BY <2>1, <2>2 DEF OwnNumbers, Fresh
  <2>4. Stale(o)' => Stale(o)
    <3>1. CASE conn[o] = None
      BY <2>2, <3>1 DEF Stale
    <3>2. CASE conn[o] # None
      <4>1. fdtable[conn[o]] # c
        BY <2>1, <3>2, ClientConstants DEF OwnNumbers, None, Client
      <4> QED  BY <2>2, <3>2, <4>1 DEF Stale
    <3> QED  BY <3>1, <3>2
  <2>5. Now(o)' = Now(o)
    BY <2>2 DEF Now, Script
  <2>6. StaleLast(o)'
    BY <1>1, <2>1, <2>2, <2>4, <2>5 DEF StaleLast
  <2> QED  BY <2>3, <2>6
<1>. QED  BY <1>2 DEF Apart

\* The same, of a step that leaves the numbers alone; a client whose number is
\* stale while others still connect can only be joined.
LEMMA QuietApart ==
    ASSUME ClientInv, Apart, Serial, UNCHANGED <<mode, fdtable, server_fd, conn>>, NEW c \in Client,
           \A o \in Client \ {c} : does'[o] = does[o] /\ at'[o] = at[o],
           Fresh(c)' => Fresh(c),
           does'[c] = "connect" => does[c] = "connect",
           does[c] \in {"delete", "join"} => does'[c] \in {"delete", "join"} /\ at'[c] = at[c]
    PROVE  Apart'
<1>1. OwnNumbers(c)'
  BY DEF Apart, OwnNumbers
<1>2. StaleLast(c)'
  <2> SUFFICES ASSUME Stale(c)', NEW j \in Client, Fresh(j)'
               PROVE  c < j /\ Now(c)'.phase = 1 /\ does'[c] \in {"delete", "join"}
    BY DEF StaleLast
  <2>1. Fresh(j) /\ Stale(c)
    BY DEF Fresh, Stale
  <2>2. c < j /\ Now(c).phase = 1 /\ does[c] \in {"delete", "join"}
    BY <2>1 DEF Apart, StaleLast
  <2>3. Now(c)' = Now(c)
    BY <2>2 DEF Now, Script
  <2> QED  BY <2>2, <2>3
<1>. QED  BY <1>1, <1>2, StillApart

\* Whose turn it is closes a number while others still connect only after all
\* before it are past connecting.
LEMMA LastInPhase ==
    ASSUME ClientInv, Serial, NEW c \in Client, Turn(c), does[c] # "gone", ~Fresh(c),
           NEW j \in Client, Fresh(j)
    PROVE  c < j /\ Now(c).phase = 1
<1>1. Now(j).phase = 1 /\ does[j] # "gone"
  BY Phases DEF Fresh
<1>2. Now(c).phase \in Nat \ {0} /\ 1 \in MainThread
  BY Phases
<1>3. Now(c).phase = 1
  BY <1>1, <1>2 DEF Turn
<1>4. j \notin Left(c)
  BY <1>1, <1>2, <1>3 DEF Turn
<1>5. ~(j < c) /\ j # c
  BY <1>1, <1>4 DEF Left
<1>. QED  BY <1>3, <1>5, ClientConstants DEF Client

\* The quiet steps of an owner.
LEMMA QuietUserApart ==
    ASSUME ClientInv, Apart, Serial, UNCHANGED mode, NEW c \in Client,
           Begin(c) \/ Skip(c) \/ Request(c) \/ Send(c) \/ GetAnswer(c) \/ GiveUp(c)
             \/ Drop(c) \/ Delete(c)
    PROVE  Apart'
<1>1. /\ at[c] \in DOMAIN Script(c)
      /\ Now(c).first => at[c] # 1
      /\ at[c] + 1 # 1
      /\ Now(c).op = "Connect" <=> at[c] = 1
  BY AtStep DEF ClientInv
<1>2. does \in [Client -> Working \cup {"unborn", "gone"}] /\ at \in [Client -> Nat]
  BY DEF ClientInv, Types
<1>3. ASSUME NEW n, NEW d, at' = [at EXCEPT ![c] = n], does' = [does EXCEPT ![c] = d],
             UNCHANGED <<fdtable, server_fd, conn>>,
             d # "connect", d # "unborn", d = "idle" /\ n = 1 => Fresh(c),
             does[c] \in {"delete", "join"} => d \in {"delete", "join"} /\ n = at[c]
      PROVE  Apart'
  <2>1. /\ \A o \in Client \ {c} : does'[o] = does[o] /\ at'[o] = at[o]
        /\ does'[c] = d /\ at'[c] = n
    BY <1>2, <1>3
  <2>2. Fresh(c)' => Fresh(c)
    BY <1>3, <2>1 DEF Fresh
  <2> QED  BY <1>3, <2>1, <2>2, QuietApart
<1>4. at = [at EXCEPT ![c] = at[c]] /\ does = [does EXCEPT ![c] = does[c]]
  BY <1>2
<1>5. CASE Begin(c)
  <2>1. UNCHANGED <<fdtable, server_fd, conn, at>> /\ does[c] = "unborn"
    BY <1>5 DEF Begin, Construct
  <2>2. PICK d \in {"idle", "gone"} : does' = [does EXCEPT ![c] = d]
    BY <1>5 DEF Begin, Construct, Continue
  <2>3. at' = [at EXCEPT ![c] = at[c]] /\ (at[c] = 1 => Fresh(c))
    BY <1>4, <2>1 DEF Fresh
  <2> QED  BY <1>3, <2>1, <2>2, <2>3
<1>6. CASE Skip(c)
  <2>1. /\ UNCHANGED <<fdtable, server_fd, conn, does>> /\ does[c] = "idle" /\ Now(c).first
        /\ at' = [at EXCEPT ![c] = at[c] + 1]
    BY <1>6 DEF Skip, Skipped, GoTo, vars
  <2>2. does' = [does EXCEPT ![c] = "idle"]
    BY <1>4, <2>1
  <2> QED  BY <1>1, <1>3, <2>1, <2>2
<1>7. CASE Request(c)
  <2>1. /\ UNCHANGED <<fdtable, server_fd, conn, at>> /\ does[c] = "idle"
        /\ does' = [does EXCEPT ![c] = "send"]
    BY <1>7 DEF Request, BeginCall, Continue
  <2>2. at' = [at EXCEPT ![c] = at[c]]
    BY <1>4, <2>1
  <2> QED  BY <1>3, <2>1, <2>2
<1>8. CASE Send(c)
  <2>1. /\ UNCHANGED <<fdtable, server_fd, conn, at>> /\ does[c] = "send"
        /\ does' = [does EXCEPT ![c] = "await"]
    BY <1>8 DEF Send, SendRequest, Transmit, Continue
  <2>2. at' = [at EXCEPT ![c] = at[c]]
    BY <1>4, <2>1
  <2> QED  BY <1>3, <2>1, <2>2
<1>9. CASE GetAnswer(c) \/ GiveUp(c)
  <2>1. /\ UNCHANGED <<fdtable, server_fd, conn>> /\ does[c] = "await"
        /\ Ended(c, TRUE) \/ Ended(c, FALSE) \/ Ended(c, Succeeded(c))
    BY <1>9 DEF GetAnswer, GiveUp, Answered, TimedOut
  <2>2. Now(c).op # "Delete"
    BY <2>1 DEF ClientInv, InScript, InCall, NotCalls
  <2>3. PICK ok \in BOOLEAN : Ended(c, ok)
    <3>1. CASE Ended(c, Succeeded(c)) /\ Succeeded(c)
      <4>1. Ended(c, TRUE)
        BY <3>1 DEF Ended
      <4> QED  BY <4>1
    <3>2. CASE Ended(c, Succeeded(c)) /\ ~Succeeded(c)
      <4>1. Ended(c, FALSE)
        BY <3>2 DEF Ended
      <4> QED  BY <4>1
    <3> QED  BY <2>1, <3>1, <3>2
  <2>4. PICK n \in DOMAIN Script(c), d \in {"idle", "quit"} :
              /\ at' = [at EXCEPT ![c] = n]
              /\ does' = [does EXCEPT ![c] = d]
              /\ d = "idle" => n # 1
              /\ d = "quit" => n = at[c]
    BY <2>2, <2>3, Goes DEF ClientInv
  <2> QED  BY <1>3, <2>1, <2>4
<1>10. CASE Drop(c)
  <2>1. /\ UNCHANGED <<fdtable, server_fd, conn>> /\ does[c] = "idle"
        /\ \/ at' = [at EXCEPT ![c] = at[c] + 1] /\ UNCHANGED does
           \/ does' = [does EXCEPT ![c] = "quit"] /\ UNCHANGED at
    BY <1>10 DEF Drop, GoTo, Continue
  <2>2. CASE at' = [at EXCEPT ![c] = at[c] + 1] /\ UNCHANGED does
    <3>1. does' = [does EXCEPT ![c] = "idle"]
      BY <1>4, <2>1, <2>2
    <3> QED  BY <1>1, <1>3, <2>1, <2>2, <3>1
  <2>3. CASE does' = [does EXCEPT ![c] = "quit"] /\ UNCHANGED at
    <3>1. at' = [at EXCEPT ![c] = at[c]]
      BY <1>4, <2>3
    <3> QED  BY <1>3, <2>1, <2>3, <3>1
  <2> QED  BY <2>1, <2>2, <2>3
<1>11. CASE Delete(c)
  <2>1. /\ UNCHANGED <<fdtable, server_fd, conn, at>>
        /\ does' = [does EXCEPT ![c] = "join"]
    BY <1>11 DEF Delete, Stop, Continue
  <2>2. at' = [at EXCEPT ![c] = at[c]]
    BY <1>4, <2>1
  <2> QED  BY <1>3, <2>1, <2>2
<1>. QED  BY <1>5, <1>6, <1>7, <1>8, <1>9, <1>10, <1>11

\* socket() gives nobody's number away: a client whose number is stale comes before
\* this one, in the same phase, and must be deleted first.
LEMMA ConnectApart ==
    ASSUME ClientInv, Apart, Serial, UNCHANGED mode, NEW c \in Client, Turn(c), BeginConnect(c)
    PROVE  Apart'
<1> DEFINE n == LowestFree
<1>1. /\ Fresh(c) /\ n \in Fd /\ fdtable[n] = None
      /\ fdtable' = [fdtable EXCEPT ![n] = c]
      /\ server_fd' = [server_fd EXCEPT ![c] = n]
  BY ConnectBegins
<1>2. does' = [does EXCEPT ![c] = "connect"] /\ UNCHANGED <<conn, at>>
  BY DEF BeginConnect, OpenSocket, Continue
<1> HIDE DEF n
<1>3. /\ \A o \in Client \ {c} : does'[o] = does[o] /\ server_fd'[o] = server_fd[o]
      /\ does'[c] = "connect" /\ server_fd'[c] = n
      /\ \A m \in Fd : fdtable'[m] = IF m = n THEN c ELSE fdtable[m]
  BY <1>1, <1>2 DEF ClientInv, Types
<1>4. ASSUME NEW o \in Client
      PROVE  conn[o] # n
  <2> SUFFICES ASSUME conn[o] = n
               PROVE  FALSE
    OBVIOUS
  <2>1. n # None
    BY <1>1, ClientConstants DEF None, Fd
  <2>2. Stale(o)
    BY <1>1, <2>1 DEF Stale
  <2>3. o < c /\ Now(o).phase = 1 /\ does[o] \in {"delete", "join"}
    BY <1>1, <2>2 DEF Apart, StaleLast
  <2>4. o \in Left(c)
    BY <2>3 DEF Left
  <2>5. Now(c).phase = 1 /\ 1 \in MainThread
    BY <1>1, Phases DEF Fresh
  <2> QED  BY <2>3, <2>4, <2>5 DEF Turn
<1>5. \A j \in Client : Fresh(j)' => Fresh(j)
  BY <1>1, <1>2, <1>3 DEF Fresh
<1>6. ASSUME NEW o \in Client
      PROVE  OwnNumbers(o)' /\ StaleLast(o)'
  <2>1. OwnNumbers(o) /\ StaleLast(o) /\ server_fd[o] \in Fd \cup {None} /\ conn[o] \in Fd \cup {None}
        /\ o # None
    BY ClientConstants DEF Apart, ClientInv, Types, None, Client
  <2>2. conn'[o] = conn[o] /\ (conn[o] # None => fdtable'[conn[o]] = fdtable[conn[o]])
    BY <1>2, <1>3, <1>4, <2>1
  <2>3. OwnNumbers(o)'
    <3>1. CASE o = c
      BY <1>1, <1>3, <2>1, <2>2, <3>1 DEF OwnNumbers
    <3>2. CASE o # c
      BY <1>1, <1>2, <1>3, <2>1, <2>2, <3>2 DEF OwnNumbers, Fresh
    <3> QED  BY <3>1, <3>2
  <2>4. Stale(o)' => Stale(o)
    BY <2>2 DEF Stale
  <2>5. o = c => ~Stale(o)
    BY <1>1, <2>1 DEF OwnNumbers, Stale
  <2>6. Now(o)' = Now(o)
    BY <1>2 DEF Now, Script
  <2>7. StaleLast(o)'
    BY <1>3, <1>5, <2>1, <2>4, <2>5, <2>6 DEF StaleLast
  <2> QED  BY <2>3, <2>7
<1>. QED  BY <1>6 DEF Apart

\* connect(), refused or not.
LEMMA ConnectedApart ==
    ASSUME ClientInv, Apart, Serial, UNCHANGED mode, NEW c \in Client, NEW ok \in BOOLEAN,
           EndConnect(c, ok)
    PROVE  Apart'
<1>1. does[c] = "connect" /\ at[c] = 1
  BY DEF EndConnect, Connect, ClientInv, InScript
<1>2. Now(c).op # "Delete"
  BY <1>1, AtStep DEF ClientInv
<1>3. PICK n \in DOMAIN Script(c), d \in {"idle", "quit"} :
          /\ at' = [at EXCEPT ![c] = n]
          /\ does' = [does EXCEPT ![c] = d]
          /\ d = "idle" => n # 1
          /\ d = "quit" => n = at[c]
  BY <1>2, Goes DEF EndConnect, ClientInv
<1>4. /\ \A o \in Client \ {c} : does'[o] = does[o] /\ at'[o] = at[o]
      /\ does'[c] = d /\ at'[c] = n
  BY <1>3 DEF ClientInv, Types
<1>5. ~Fresh(c)' /\ does'[c] # "connect"
  BY <1>3, <1>4 DEF Fresh
<1>6. /\ OwnNumbers(c) /\ server_fd[c] \in Fd \cup {None} /\ conn[c] = None /\ c # None
  BY <1>1, ClientConstants DEF Apart, OwnNumbers, ClientInv, Types, None, Client
<1>7. CASE ok
  <2>1. UNCHANGED <<fdtable, server_fd>> /\ conn' = [conn EXCEPT ![c] = server_fd[c]]
    BY <1>7 DEF EndConnect, Connect
  <2>2. conn'[c] = server_fd[c] /\ \A o \in Client \ {c} : conn'[o] = conn[o]
    BY <2>1 DEF ClientInv, Types
  <2>3. OwnNumbers(c)'
    BY <1>5, <1>6, <2>1, <2>2 DEF OwnNumbers
  <2>4. ~Stale(c)'
    BY <1>6, <2>1, <2>2 DEF Stale, OwnNumbers
  <2>5. StaleLast(c)'
    BY <2>4 DEF StaleLast
  <2> QED  BY <1>4, <1>5, <2>1, <2>2, <2>3, <2>5, StillApart
<1>8. CASE ~ok
  <2>1. /\ Close(c, server_fd[c]) /\ server_fd' = [server_fd EXCEPT ![c] = None] /\ UNCHANGED conn
    BY <1>8 DEF EndConnect, Connect
  <2>2. \A m \in Fd : fdtable'[m] = IF m = server_fd[c] THEN None ELSE fdtable[m]
    BY <1>6, <2>1, Closing DEF ClientInv
  <2>3. /\ server_fd'[c] = None
        /\ \A o \in Client \ {c} : server_fd'[o] = server_fd[o] /\ conn'[o] = conn[o]
    BY <2>1 DEF ClientInv, Types
  <2>4. \A m \in Fd : \/ fdtable'[m] = fdtable[m]
                      \/ fdtable'[m] = None /\ fdtable[m] = c
    BY <1>6, <2>2, ClientConstants DEF OwnNumbers, None, Fd
  <2>5. OwnNumbers(c)' /\ StaleLast(c)'
    BY <1>5, <1>6, <2>1, <2>3 DEF OwnNumbers, StaleLast, Stale
  <2> QED  BY <1>4, <1>5, <2>3, <2>4, <2>5, StillApart
<1>. QED  BY <1>7, <1>8

\* GameClient::Disconnect makes the Connection's number stale.
LEMMA DisconnectApart ==
    ASSUME ClientInv, Apart, Serial, UNCHANGED mode, NEW c \in Client, Turn(c), Disconnect(c)
    PROVE  Apart'
<1>1. /\ Close(c, server_fd[c])
      /\ server_fd' = [server_fd EXCEPT ![c] = None]
      /\ UNCHANGED conn
  BY DEF Disconnect, CloseFd
<1>2. /\ OwnNumbers(c) /\ c # None
      /\ server_fd[c] \in Fd \cup {None} /\ conn[c] \in Fd \cup {None}
  BY ClientConstants DEF Apart, ClientInv, Types, None, Client
<1>3. \A m \in Fd : fdtable'[m] = IF m = server_fd[c] THEN None ELSE fdtable[m]
  BY <1>1, <1>2, Closing DEF ClientInv
<1>4. \/ /\ does[c] = "idle" /\ Now(c).op = "Disconnect"
         /\ at' = [at EXCEPT ![c] = at[c] + 1] /\ UNCHANGED does
      \/ does[c] = "quit" /\ does' = [does EXCEPT ![c] = "delete"] /\ UNCHANGED at
  BY DEF Disconnect, GoTo, Continue
<1>5. /\ Now(c).op = "Connect" <=> at[c] = 1
      /\ at[c] + 1 # 1
  BY AtStep DEF ClientInv
<1>6. /\ server_fd'[c] = None /\ conn'[c] = conn[c]
      /\ \A o \in Client \ {c} : /\ server_fd'[o] = server_fd[o] /\ conn'[o] = conn[o]
                                 /\ does'[o] = does[o] /\ at'[o] = at[o]
      /\ \/ does[c] = "idle" /\ at[c] # 1 /\ does'[c] = "idle" /\ at'[c] = at[c] + 1
         \/ does[c] = "quit" /\ does'[c] = "delete" /\ at'[c] = at[c]
  BY <1>1, <1>4, <1>5 DEF ClientInv, Types
<1>7. ~Fresh(c) /\ ~Fresh(c)' /\ does'[c] # "connect" /\ does[c] # "gone"
  BY <1>5, <1>6 DEF Fresh
<1>8. \A m \in Fd : \/ fdtable'[m] = fdtable[m]
                    \/ fdtable'[m] = None /\ fdtable[m] = c
  BY <1>2, <1>3, ClientConstants DEF OwnNumbers, None, Fd
<1>9. OwnNumbers(c)'
  BY <1>2, <1>3, <1>6, <1>7 DEF OwnNumbers
<1>10. StaleLast(c)'
  <2> SUFFICES ASSUME NEW j \in Client, Fresh(j)'
               PROVE  c < j /\ Now(c)'.phase = 1 /\ does'[c] \in {"delete", "join"}
    BY DEF StaleLast
  <2>1. Fresh(j)
    BY <1>6, <1>7 DEF Fresh
  <2>2. c < j /\ Now(c).phase = 1
    BY <1>7, <2>1, LastInPhase
  <2>3. ~(does[c] = "idle")
    BY <1>4, <2>2, Phases
  <2>4. does'[c] = "delete" /\ at'[c] = at[c]
    BY <1>6, <2>3
  <2>5. Now(c)' = Now(c)
    BY <2>4 DEF Now, Script
  <2> QED  BY <2>2, <2>4, <2>5
<1>. QED  BY <1>6, <1>7, <1>8, <1>9, <1>10, StillApart

\* ~RpcClient, and OnClose when nothing is behind the number.
LEMMA DeletedApart ==
    ASSUME ClientInv, Apart, Serial, UNCHANGED mode, NEW c \in Client, Deleted(c)
    PROVE  Apart'
<1>1. /\ Close(c, conn[c])
      /\ server_fd' = [server_fd EXCEPT ![c] = None]
      /\ conn' = [conn EXCEPT ![c] = None]
      /\ does' = [does EXCEPT ![c] = "gone"]
      /\ UNCHANGED at
  BY DEF Deleted, Destroy, Continue
<1>2. OwnNumbers(c) /\ c # None /\ conn[c] \in Fd \cup {None}
  BY ClientConstants DEF Apart, ClientInv, Types, None, Client
<1>3. \A m \in Fd : fdtable'[m] = IF m = conn[c] THEN None ELSE fdtable[m]
  BY <1>1, <1>2, Closing DEF ClientInv
<1>4. /\ server_fd'[c] = None /\ conn'[c] = None /\ does'[c] = "gone"
      /\ \A o \in Client \ {c} : /\ server_fd'[o] = server_fd[o] /\ conn'[o] = conn[o]
                                 /\ does'[o] = does[o] /\ at'[o] = at[o]
  BY <1>1 DEF ClientInv, Types
<1>5. \A m \in Fd : \/ fdtable'[m] = fdtable[m]
                    \/ fdtable'[m] = None /\ fdtable[m] = c
  BY <1>2, <1>3, ClientConstants DEF OwnNumbers, None, Fd
<1>6. OwnNumbers(c)' /\ StaleLast(c)' /\ ~Fresh(c)'
  BY <1>4 DEF OwnNumbers, StaleLast, Stale, Fresh
<1>. QED  BY <1>4, <1>5, <1>6, StillApart

\* A Connection whose number is closed already may be deleted.
LEMMA ClosedApart ==
    ASSUME ClientInv, Apart, Serial, UNCHANGED <<mode, does, at, server_fd>>, NEW c \in Client,
           OnClose(c), Behind(conn[c]) = None
    PROVE  Apart'
<1>1. UNCHANGED fdtable /\ conn' = [conn EXCEPT ![c] = None]
  BY DEF OnClose, Close
<1>2. conn'[c] = None /\ \A o \in Client \ {c} : conn'[o] = conn[o]
  BY <1>1 DEF ClientInv, Types
<1>3. OwnNumbers(c)
  BY DEF Apart
<1>4. OwnNumbers(c)' /\ StaleLast(c)'
  BY <1>1, <1>2, <1>3 DEF OwnNumbers, StaleLast, Stale
<1>5. Fresh(c)' => Fresh(c)
  BY DEF Fresh
<1>. QED  BY <1>1, <1>2, <1>4, <1>5, StillApart

\* Every step.
LEMMA ApartStays ==
    ASSUME ClientInv, SocketInv, [GameNext]_gameVars
    PROVE  Apart'
<1>1. mode' = mode
  BY DEF GameNext, User, LoopThread, Answers, Leaves, Reporter, gameVars
<1>2. Apart
  BY DEF SocketInv
<1> SUFFICES ASSUME Serial
             PROVE  Apart'
  BY <1>1 DEF Apart, Serial, OneThread
<1>3. ASSUME UNCHANGED <<mode, fdtable, server_fd, conn, does, at>>
      PROVE  Apart'
  BY <1>2, <1>3 DEF Apart, OwnNumbers, StaleLast, Stale, Fresh, Now, Script, Serial, OneThread
<1>4. ASSUME NEW c \in Client, User(c)
      PROVE  Apart'
  BY <1>1, <1>2, <1>4, QuietUserApart, ConnectApart, ConnectedApart, DisconnectApart, DeletedApart DEF User
<1>5. ASSUME NEW c \in Client, LoopThread(c)
      PROVE  Apart'
  <2>1. UNCHANGED <<mode, does, at, server_fd>>
    BY <1>5 DEF LoopThread, Loop, RunBegins, Wakeup, SocketEvent, OnRead
  <2>2. CASE OnClose(c) /\ Behind(conn[c]) = None
    BY <1>2, <2>1, <2>2, ClosedApart
  <2>3. CASE OnClose(c) /\ Behind(conn[c]) # None
    <3>1. \A s \in Client : ~socket[s].gone
      BY DEF SocketInv, NobodyLeft
    <3>2. Behind(conn[c]) \in Client
      BY <2>3 DEF Behind, ClientInv, Types
    <3>3. UNCHANGED <<fdtable, conn>>
      BY <1>5, <3>1, <3>2, <2>3 DEF LoopThread, Loop, RunBegins, Wakeup, SocketEvent, OnRead
    <3> QED  BY <1>3, <2>1, <3>3
  <2>4. CASE ~OnClose(c)
    <3>1. UNCHANGED <<fdtable, conn>>
      BY <1>5, <2>4 DEF LoopThread, Loop, RunBegins, Wakeup, SocketEvent, OnRead
    <3> QED  BY <1>3, <2>1, <3>1
  <2> QED  BY <2>2, <2>3, <2>4
<1>6. ASSUME NEW c \in Client, Answers(c) \/ Leaves(c)
      PROVE  Apart'
  BY <1>3, <1>6 DEF Answers, ServerAnswers, Leaves, ServerLeaves
<1>7. CASE UNCHANGED gameVars
  BY <1>3, <1>7 DEF gameVars, vars
<1>8. CASE Reporter
  BY <1>3, <1>8, ReporterLeaves
<1>. QED  BY <1>4, <1>5, <1>6, <1>7, <1>8 DEF GameNext

\* In the modes that make and delete their clients on one thread, while the server
\* stays or with one client at a time, nobody closes, reads or writes another
\* client's socket (OwnSocketOnly), though every deleted client closes its number
\* twice (CloseFd, ~Connection).
THEOREM TouchOwnSocket == GameSpec => []OwnSocketOnly
<1>1. GameInit => SocketInv
  <2> SUFFICES ASSUME GameInit
               PROVE  SocketInv
    OBVIOUS
  <2>1. /\ ~crossed
        /\ \A c \in Client : /\ socket[c] = Unused /\ server_fd[c] = None /\ conn[c] = None
                             /\ does[c] = "unborn" /\ loop[c] = "none"
    BY DEF GameInit, Init
  <2>2. ~Unused.gone
    BY DEF Unused
  <2> QED  BY <2>1, <2>2 DEF SocketInv, LoopLives, Alone, Apart, OwnNumbers, StaleLast, Stale,
                             NobodyLeft, OwnSocketOnly
<1>2. ClientInv /\ (AnswersInv /\ OwnIds) /\ SocketInv /\ [GameNext]_gameVars => SocketInv'
  BY NobodyCrosses, LoopLivesOn, AloneStays, NobodyLeaves, ApartStays DEF SocketInv
<1>3. SocketInv => OwnSocketOnly
  BY DEF SocketInv
<1>4. GameSpec => [](AnswersInv /\ OwnIds)
  BY AnswersHold
<1>. QED  BY <1>1, <1>2, <1>3, <1>4, SocketsAreReached, PTL DEF GameSpec

-----------------------------------------------------------------------------
(* The reporter and its client *)

\* While the reporter is about, its client is connecting or logging in, or lies
\* between two steps; only a failed one of these two deletes it.
Connecting == at[Clients] \in {1, 2}
KeptByReporter ==
    mode = "steady" /\ Clients \in Client =>
        /\ does[Clients] = "quit" => Connecting
        /\ reporter.does # "asleep" => Connecting \/ does[Clients] = "idle"
        /\ reporter.does = "dead" => Connecting

\* The script of the reporter's client: the clean-up begins after the second step.
LEMMA MetricsScript ==
    ASSUME ClientInv, mode = "steady", Clients \in Client
    PROVE  /\ Connecting <=> Now(Clients).op \in {"Connect", "Login"}
           /\ Connecting <=> ~(Now(Clients).phase >= 4)
           /\ Now(Clients).op # "Drop"
           /\ does[Clients] \in {"connect", "send", "await"} => Connecting
<1> DEFINE s == Steady(Clients)
           i == at[Clients]
<1>1. /\ s[1] = Must("Connect", 1) /\ s[2] = Must("Login", 1)
      /\ s[3] = Step("Disconnect", 4) /\ s[4] = Step("Delete", 4) /\ DOMAIN s = 1 .. 4
  BY DEF Steady
<1>2. Script(Clients) = s
  BY DEF Script
<1>3. /\ i \in DOMAIN s /\ Now(Clients) = s[i]
      /\ does[Clients] = "connect" => i = 1
      /\ does[Clients] \in InCall => s[i].op \notin NotCalls
  BY <1>2 DEF ClientInv, InScript, Now
<1> HIDE DEF s
<1>4. /\ s[1].op = "Connect" /\ s[2].op = "Login" /\ s[3].op = "Disconnect" /\ s[4].op = "Delete"
      /\ s[1].phase = 1 /\ s[2].phase = 1 /\ s[3].phase = 4 /\ s[4].phase = 4
  BY <1>1 DEF Must, Step
<1>5. Connecting <=> i \in {1, 2}
  BY DEF Connecting
<1> HIDE DEF i
<1>6. i = 1 \/ i = 2 \/ i = 3 \/ i = 4
  BY <1>1, <1>3
<1>. QED  BY <1>3, <1>4, <1>5, <1>6 DEF InCall, NotCalls

\* A step of an owner goes on in its script or stays at this step, and gives a
\* client up only in a step that can fail.
LEMMA UserGoes ==
    ASSUME ClientInv, NEW c \in Client, User(c)
    PROVE  /\ \A o \in Client \ {c} : does'[o] = does[o] /\ at'[o] = at[o]
           /\ at'[c] = at[c] \/ does'[c] = "idle"
           /\ does'[c] = "quit" => \/ does[c] \in {"connect", "send", "await", "quit"}
                                   \/ Now(c).op = "Drop"
<1>1. does \in [Client -> Working \cup {"unborn", "gone"}] /\ at \in [Client -> Nat]
  BY DEF ClientInv, Types
<1>2. ASSUME NEW ok \in BOOLEAN, Ended(c, ok), does[c] \in {"connect", "await"}
      PROVE  \E n, d : /\ at' = [at EXCEPT ![c] = n] /\ does' = [does EXCEPT ![c] = d]
                       /\ n = at[c] \/ d = "idle"
  BY <1>2 DEF Ended, GoTo, Continue
<1>3. CASE GetAnswer(c) \/ GiveUp(c) \/ \E ok \in BOOLEAN : EndConnect(c, ok)
  <2>1. \E ok \in BOOLEAN : Ended(c, ok)
    <3>1. CASE Ended(c, Succeeded(c)) /\ Succeeded(c)
      <4>1. Ended(c, TRUE)
        BY <3>1 DEF Ended
      <4> QED  BY <4>1
    <3>2. CASE Ended(c, Succeeded(c)) /\ ~Succeeded(c)
      <4>1. Ended(c, FALSE)
        BY <3>2 DEF Ended
      <4> QED  BY <4>1
    <3> QED  BY <1>3, <3>1, <3>2 DEF GetAnswer, GiveUp, EndConnect
  <2>2. does[c] \in {"connect", "await"}
    BY <1>3 DEF GetAnswer, Answered, GiveUp, TimedOut, EndConnect, Connect
  <2>3. PICK n, d : /\ at' = [at EXCEPT ![c] = n] /\ does' = [does EXCEPT ![c] = d]
                    /\ n = at[c] \/ d = "idle"
    BY <1>2, <2>1, <2>2
  <2> QED  BY <1>1, <2>2, <2>3
<1>4. CASE Skip(c) \/ Drop(c) \/ Disconnect(c)
  <2>1. \/ \E n : at' = [at EXCEPT ![c] = n] /\ UNCHANGED does /\ does[c] = "idle"
        \/ UNCHANGED at /\ does' = [does EXCEPT ![c] = "quit"] /\ Now(c).op = "Drop"
        \/ UNCHANGED at /\ does' = [does EXCEPT ![c] = "delete"]
    BY <1>4 DEF Skip, Drop, Disconnect, GoTo, Continue, vars
  <2> QED  BY <1>1, <2>1
<1>5. CASE Begin(c) \/ BeginConnect(c) \/ Request(c) \/ Send(c) \/ Delete(c) \/ Deleted(c)
  <2>1. /\ UNCHANGED at
        /\ \E d \in {"idle", "gone", "connect", "send", "await", "join"} :
              does' = [does EXCEPT ![c] = d]
    BY <1>5 DEF Begin, BeginConnect, OpenSocket, Request, BeginCall, Send, SendRequest, Delete,
                Deleted, Continue
  <2> QED  BY <1>1, <2>1
<1>. QED  BY <1>3, <1>4, <1>5 DEF User

\* A step of an owner.
LEMMA UserKeeps ==
    ASSUME ClientInv, ClientInv', OwnIds, KeptByReporter, reporter.does # "dead", NEW c \in Client, User(c)
    PROVE  KeptByReporter'
<1> SUFFICES ASSUME mode = "steady", Clients \in Client
             PROVE  /\ does'[Clients] = "quit" => Connecting'
                    /\ reporter'.does # "asleep" => Connecting' \/ does'[Clients] = "idle"
                    /\ reporter'.does = "dead" => Connecting'
  BY DEF KeptByReporter, User
<1>1. /\ does[Clients] = "quit" => Connecting
      /\ reporter.does # "asleep" => Connecting \/ does[Clients] = "idle"
  BY DEF KeptByReporter
<1>2. /\ \A o \in Client \ {c} : does'[o] = does[o] /\ at'[o] = at[o]
      /\ at'[c] = at[c] \/ does'[c] = "idle"
      /\ does'[c] = "quit" => \/ does[c] \in {"connect", "send", "await", "quit"}
                              \/ Now(c).op = "Drop"
  BY UserGoes
<1>3. CASE c # Clients
  <2>1. UNCHANGED reporter
    BY <1>3 DEF User, Deleted, UnderCall
  <2>2. does'[Clients] = does[Clients] /\ (Connecting' <=> Connecting)
    BY <1>2, <1>3 DEF Connecting
  <2> QED  BY <1>1, <2>1, <2>2
<1>4. CASE c = Clients
  <2>1. /\ Connecting <=> ~(Now(Clients).phase >= 4)
        /\ Now(Clients).op # "Drop"
        /\ does[Clients] \in {"connect", "send", "await"} => Connecting
    BY MetricsScript
  <2>2. reporter.does # "asleep" => Connecting
    BY <1>4, <2>1 DEF User, Turn
  <2>3. Connecting => Connecting' \/ does'[Clients] = "idle"
    BY <1>2, <1>4 DEF Connecting
  <2>4. does'[Clients] = "quit" => Connecting'
    BY <1>1, <1>2, <1>4, <2>1, <2>3
  <2>5. CASE UNCHANGED reporter
    BY <2>2, <2>3, <2>4, <2>5
  <2>6. CASE Deleted(c) /\ UnderCall(c)
    <3>1. Connecting /\ UNCHANGED at
      BY <2>2, <2>6 DEF Deleted, UnderCall
    <3> QED  BY <2>4, <3>1 DEF Connecting
  <2> QED  BY <1>4, <2>5, <2>6 DEF User, Deleted
<1>. QED  BY <1>3, <1>4

\* A step of the reporter: it finds its client gone only after a failed step.
LEMMA ReporterKeeps ==
    ASSUME ClientInv, OwnIds, KeptByReporter, Reporter
    PROVE  KeptByReporter'
<1>1. UNCHANGED <<mode, at, does>> /\ (Connecting' <=> Connecting)
  BY ReporterLeaves DEF Connecting
<1> SUFFICES ASSUME mode = "steady", Clients \in Client
             PROVE  /\ does[Clients] = "quit" => Connecting
                    /\ reporter'.does # "asleep" => Connecting \/ does[Clients] = "idle"
                    /\ reporter'.does = "dead" => Connecting
  BY <1>1 DEF KeptByReporter
<1>2. /\ does[Clients] = "quit" => Connecting
      /\ reporter.does # "asleep" => Connecting \/ does[Clients] = "idle"
      /\ does[Clients] \in Working \cup {"unborn", "gone"}
      /\ does[Clients] \in {"connect", "send", "await"} => Connecting
  BY MetricsScript DEF KeptByReporter, ClientInv, Types
<1>3. CASE Checks
  BY <1>2, <1>3 DEF Checks, Metrics, ReporterAt, Working
<1>4. CASE Queries
  BY <1>2, <1>4 DEF Queries, Metrics, ReporterAt
<1>5. CASE Transmits \/ Reports
  BY <1>2, <1>5 DEF Transmits, Reports, ReporterAt
<1>. QED  BY <1>3, <1>4, <1>5 DEF Reporter

\* Every step.
LEMMA KeptStays ==
    ASSUME ClientInv, ClientInv', OwnIds, KeptByReporter, [GameNext]_gameVars
    PROVE  KeptByReporter'
<1>1. ASSUME UNCHANGED <<mode, at, does, reporter>>
      PROVE  KeptByReporter'
  BY <1>1 DEF KeptByReporter, Connecting
<1>2. ASSUME NEW c \in Client, LoopThread(c) \/ Answers(c) \/ Leaves(c)
      PROVE  KeptByReporter'
  BY <1>1, <1>2 DEF LoopThread, Loop, RunBegins, Wakeup, SocketEvent, OnRead, Answers, ServerAnswers,
                    Leaves, ServerLeaves
<1>3. CASE UNCHANGED gameVars
  BY <1>1, <1>3 DEF gameVars, vars
<1>. QED  BY <1>2, <1>3, UserKeeps, ReporterKeeps DEF GameNext

\* The reporter's client goes under its call only after Connect or Login with it
\* failed (ReporterKeepsClient): the clean-up of RunSteadyMode joins the reporter
\* first.
THEOREM MetricsClientKept == GameSpec => []ReporterKeepsClient
<1>1. GameInit => KeptByReporter
  BY DEF GameInit, Init, KeptByReporter
<1>2. ClientInv /\ ClientInv' /\ (AnswersInv /\ OwnIds) /\ KeptByReporter /\ [GameNext]_gameVars
        => KeptByReporter'
  BY KeptStays
<1>3. ClientInv /\ (AnswersInv /\ OwnIds) /\ KeptByReporter => ReporterKeepsClient
  BY MetricsScript DEF ReporterKeepsClient, KeptByReporter, OwnIds
<1>. QED  BY <1>1, <1>2, <1>3, SocketsAreReached, AnswersHold, PTL DEF GameSpec

=============================================================================
