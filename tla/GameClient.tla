----------------------------- MODULE GameClient -----------------------------
(***************************************************************************)
(* bench_game_client: the modes of the load generator, which are how the   *)
(* project uses RpcClient with many clients in one process.                *)
(*                                                                         *)
(* A mode is a script for each of its clients. Its steps belong to phases: *)
(* nobody begins a phase before everybody has ended those before it. In a  *)
(* phase of the main thread the clients take their steps one client after  *)
(* the other, in the other phases each has a thread.                       *)
(*                                                                         *)
(* In mode "steady" the reporter calls on the last client all the while,   *)
(* also during the main thread's Connect and Login on it.                  *)
(*                                                                         *)
(* Statistics, think times and the text that is printed are left out.      *)
(***************************************************************************)
EXTENDS RpcClient, Sequences

CONSTANTS
    Modes,      \* the modes to check
    Leaving,    \* the modes in which the server may close a connection
    MaxCalls    \* bound of the model: requests of a client before a loop ends

ASSUME ModeConstants ==
    /\ Modes \subseteq {"single", "ramp", "steady", "chaos", "framesync", "match"}
    /\ Leaving \subseteq Modes
    /\ MaxCalls \in Nat

VARIABLES
    mode,       \* g_mode
    at,         \* the step of its script each client is at
    reporter    \* where the reporter is, and its request; "dead": the process ended
                \* because a client went under its call

gameVars == <<vars, mode, at, reporter>>

-----------------------------------------------------------------------------
(* Scripts *)

\* fails: what comes after a request that failed. "on": the same as after one that
\* succeeded; "out": the loop is left; "quit": the client is disconnected and
\* deleted at once. back: the first step of the loop that ends here. first: only
\* the first client that is left takes the step.
Step(op, phase) ==
    [op |-> op, phase |-> phase, fails |-> "on", back |-> 0, first |-> FALSE]
Must(op, phase) == [Step(op, phase) EXCEPT !.fails = "quit"]
While(op, phase, n) == [Step(op, phase) EXCEPT !.fails = "out", !.back = n]
First(op, phase) == [Step(op, phase) EXCEPT !.first = TRUE]

\* RunFullFlow, the whole of it on one thread
FullFlow ==
    <<Must("Connect", 1), Must("Login", 1), Must("CreateRoom", 1), Step("StartGame", 1),
      While("SendMessage", 1, 5), Step("LeaveRoom", 1), Step("Disconnect", 1),
      Step("Delete", 1)>>

\* The last client of the mode is g_metrics_client, which the reporter uses (see
\* Reporter). One message warms up.
Steady(c) ==
    IF c = Clients
    THEN <<Must("Connect", 1), Must("Login", 1), Step("Disconnect", 4), Step("Delete", 4)>>
    ELSE <<Must("Connect", 1), Must("Login", 1), Must("CreateRoom", 1),
           First("SendMessage", 2), While("SendMessage", 3, 5),
           Step("LeaveRoom", 5), Step("Disconnect", 5), Step("Delete", 6)>>

\* One round of messages instead of five, one bad message of each kind.
Chaos ==
    <<Must("Connect", 1), Must("Login", 1), Must("CreateRoom", 1),
      Step("SendMessage", 2), Step("Drop", 3),
      First("Oversized", 4), First("InvalidProtobuf", 4), First("NonExistentRoom", 4),
      Step("SendMessage", 5), Step("LeaveRoom", 6), Step("Disconnect", 6),
      Step("Delete", 7)>>

Partner(c) == IF c % 2 = 1 THEN c + 1 ELSE c - 1
Owner(c) == c % 2 = 1

\* Owners of rooms in phase 1, who joins them in phase 2.
Framesync(c) ==
    IF Owner(c)
    THEN <<Must("Connect", 1), Must("Login", 1), Must("CreateRoom", 1),
           Step("StartGame", 3), While("SendInput", 4, 5),
           Step("LeaveRoom", 5), Step("Disconnect", 5), Step("Delete", 6)>>
    ELSE <<Must("Connect", 2), Must("Login", 2), Must("JoinRoom", 2),
           While("SendInput", 4, 4),
           Step("LeaveRoom", 5), Step("Disconnect", 5), Step("Delete", 6)>>

\* A failed EnterMatch ends the loop, a failed CancelMatch does not.
Match ==
    <<Must("Connect", 1), Must("Login", 1),
      [Step("EnterMatch", 2) EXCEPT !.fails = "out"],
      [Step("CancelMatch", 2) EXCEPT !.back = 3],
      Step("Disconnect", 3), Step("Delete", 4)>>

Script(c) ==
    CASE mode \in {"single", "ramp"} -> FullFlow
      [] mode = "steady" -> Steady(c)
      [] mode = "chaos" -> Chaos
      [] mode = "framesync" -> Framesync(c)
      [] mode = "match" -> Match

\* Mutant: every client has a thread from the beginning.
NoMainThread == {}

\* The phases that run on the main thread
MainThread ==
    CASE mode = "single" -> {1}
      [] mode = "ramp" -> {}
      [] mode = "steady" -> {1, 2, 4, 5, 6}
      [] mode = "chaos" -> 1 .. 7
      [] mode = "framesync" -> {3, 5, 6}
      [] mode = "match" -> {1, 3, 4}

GameInit ==
    /\ Init
    /\ mode \in Modes
    /\ at = [c \in Client |-> 1]
    /\ reporter = [does |-> "asleep", call |-> NoCall]

-----------------------------------------------------------------------------
(* The threads of the mode *)

Now(c) == Script(c)[at[c]]

Left(c) == {j \in Client : j < c /\ does[j] # "gone"}

\* Mutant: the clean-up of "steady" does not wait for the reporter.
TurnUnjoined(c) ==
    /\ does[c] # "gone"
    /\ \A j \in Client : does[j] # "gone" => Now(j).phase >= Now(c).phase
    /\ Now(c).phase \in MainThread => \A j \in Left(c) : Now(j).phase > Now(c).phase

\* Nobody is in an earlier phase and, on the main thread, no client before c is
\* in this one. The clean-up of "steady" begins when the reporter has been joined.
Turn(c) ==
    /\ does[c] # "gone"
    /\ mode = "steady" /\ Now(c).phase >= 4 => reporter.does = "asleep"
    /\ \A j \in Client : does[j] # "gone" => Now(j).phase >= Now(c).phase
    /\ Now(c).phase \in MainThread => \A j \in Left(c) : Now(j).phase > Now(c).phase

\* Where the script goes on
GoTo(c, n) == at' = [at EXCEPT ![c] = n]
LoopEnd(c) == Min({i \in DOMAIN Script(c) : i >= at[c] /\ Script(c)[i].back # 0})

\* The step has ended with this outcome. A loop ends when its time is over.
Ended(c, ok) ==
    LET st == Now(c)
    IN  IF ok \/ st.fails = "on"
        THEN /\ \/ GoTo(c, at[c] + 1)
                \/ st.back # 0 /\ next_id[c] <= MaxCalls /\ GoTo(c, st.back)
             /\ Continue(c, "idle")
        ELSE /\ GoTo(c, IF st.fails = "out" THEN LoopEnd(c) + 1 ELSE at[c])
             /\ Continue(c, IF st.fails = "out" THEN "idle" ELSE "quit")

\* GameClient(), unless the room to join was never made.
Begin(c) ==
    /\ does[c] = "unborn"
    /\ IF mode = "framesync" /\ ~Owner(c) /\ does[Partner(c)] = "gone"
       THEN Continue(c, "gone") /\ UNCHANGED <<fdtable, socket, server_fd, conn, loopVars,
                                               callVars, faults, crossed>>
       ELSE Continue(c, "idle") /\ Construct(c)
    /\ UNCHANGED at

Skipped(c) == Now(c).first /\ Left(c) # {}

Skip(c) ==
    /\ does[c] = "idle"
    /\ Skipped(c)
    /\ GoTo(c, at[c] + 1)
    /\ UNCHANGED vars

BeginConnect(c) ==
    /\ does[c] = "idle"
    /\ Now(c).op = "Connect"
    /\ OpenSocket(c)
    /\ UNCHANGED at

EndConnect(c, ok) == Connect(c, ok) /\ Ended(c, ok)

\* TimedCall of the step's request
Request(c) ==
    /\ does[c] = "idle"
    /\ Now(c).op \notin {"Connect", "Drop", "Disconnect", "Delete"}
    /\ ~Skipped(c)
    /\ BeginCall(c, Now(c).op)
    /\ UNCHANGED at

Send(c) == SendRequest(c) /\ UNCHANGED at

GetAnswer(c) == Answered(c) /\ Ended(c, Succeeded(c))

GiveUp(c) == TimedOut(c) /\ Ended(c, FALSE)

\* The storm of disconnects: some clients are deleted. The code shuffles them, here
\* they go in their order.
Drop(c) ==
    /\ does[c] = "idle"
    /\ Now(c).op = "Drop"
    /\ \/ GoTo(c, at[c] + 1) /\ UNCHANGED does
       \/ Continue(c, "quit") /\ UNCHANGED at
    /\ UNCHANGED <<fdtable, socket, server_fd, conn, loopVars, callVars, faults, crossed>>

\* GameClient::Disconnect, a step of the script or of ~GameClient
Disconnect(c) ==
    /\ \/ /\ does[c] = "idle"
          /\ Now(c).op = "Disconnect"
          /\ GoTo(c, at[c] + 1)
          /\ UNCHANGED does
       \/ /\ does[c] = "quit"
          /\ Continue(c, "delete")
          /\ UNCHANGED at
    /\ CloseFd(c)

\* ~RpcClient
Delete(c) ==
    /\ \/ does[c] = "delete"
       \/ does[c] = "idle" /\ Now(c).op = "Delete"
    /\ Continue(c, "join")
    /\ Stop(c)
    /\ UNCHANGED at

ReporterAt(d, r) == reporter' = [does |-> d, call |-> r]

\* The reporter is in a call on client c and has no answer yet.
UnderCall(c) ==
    /\ c = Clients
    /\ \/ reporter.does \in {"checked", "send"}
       \/ reporter.does = "await" /\ reporter.call.id \in pending[c]

\* A call that is on its way uses a client that is gone, and one that waits for an
\* answer gets the exception of a broken promise, which nobody catches.
Deleted(c) ==
    /\ IF UnderCall(c) THEN ReporterAt("dead", reporter.call) ELSE UNCHANGED reporter
    /\ Destroy(c)
    /\ Continue(c, "gone")
    /\ UNCHANGED at

User(c) ==
    /\ Turn(c)
    /\ \/ /\ \/ Begin(c)
             \/ Skip(c)
             \/ BeginConnect(c)
             \/ \E ok \in BOOLEAN : EndConnect(c, ok)
             \/ Request(c)
             \/ Send(c)
             \/ GetAnswer(c)
             \/ GiveUp(c)
             \/ Drop(c)
             \/ Disconnect(c)
             \/ Delete(c)
          /\ UNCHANGED reporter
       \/ Deleted(c)
    /\ UNCHANGED mode

-----------------------------------------------------------------------------
(* StatsReporterLoop *)

\* Whether g_metrics_client is there: reset() clears it before the client goes.
Metrics == Clients \in Client /\ does[Clients] \notin {"unborn", "delete", "join", "gone"}

\* The reporter wakes up, g_stop_flag is not set, and g_metrics_client is there ...
Checks ==
    /\ mode = "steady"
    /\ reporter.does = "asleep"
    /\ \E j \in Client : does[j] # "gone" /\ Now(j).phase < 4
    /\ Metrics
    /\ next_id[Clients] <= MaxCalls
    /\ ReporterAt("checked", NoCall)
    /\ UNCHANGED vars

\* ... and is used: by now it may be null.
Queries ==
    LET r == [client |-> Clients, id |-> next_id[Clients], op |-> "GetMetrics"]
    IN  /\ reporter.does = "checked"
        /\ IF Metrics
           THEN /\ next_id' = [next_id EXCEPT ![Clients] = @ + 1]
                /\ pending' = [pending EXCEPT ![Clients] = @ \cup {r.id}]
                /\ ReporterAt("send", r)
           ELSE ReporterAt("dead", NoCall) /\ UNCHANGED <<next_id, pending>>
        /\ UNCHANGED <<fdtable, socket, server_fd, conn, loopVars, call, future, does,
                       faults, crossed>>

\* On a socket that is still connecting, send() fails or waits.
Transmits ==
    /\ reporter.does = "send"
    /\ IF does[Clients] = "connect"
       THEN /\ pending' = [pending EXCEPT ![Clients] = @ \ {reporter.call.id}]
            /\ UNCHANGED <<fdtable, socket, server_fd, conn, loopVars, next_id, call,
                           faults, crossed>>
       ELSE \E failed \in BOOLEAN : Transmit(Clients, reporter.call, failed)
    /\ ReporterAt("await", reporter.call)
    /\ UNCHANGED <<future, does>>

\* The promise has its value, or wait_for gives up. What the metrics are is printed.
Reports ==
    /\ reporter.does = "await"
    /\ IF /\ reporter.call.id \in pending[Clients]
          /\ \E s \in Client : reporter.call \in socket[s].req \cup {a.call : a \in socket[s].rsp}
       THEN Fault ELSE UNCHANGED faults
    /\ ReporterAt("asleep", NoCall)
    /\ UNCHANGED <<fdtable, socket, server_fd, conn, loopVars, callVars, does, crossed>>

Reporter == (Checks \/ Queries \/ Transmits \/ Reports) /\ UNCHANGED <<mode, at>>

-----------------------------------------------------------------------------
LoopThread(c) == Loop(c) /\ UNCHANGED <<mode, at, reporter>>
Answers(s) == ServerAnswers(s) /\ UNCHANGED <<mode, at, reporter>>
Leaves(s) == mode \in Leaving /\ ServerLeaves(s) /\ UNCHANGED <<mode, at, reporter>>

GameNext ==
    /\ reporter.does # "dead"
    /\ \/ \E c \in Client :
             \/ User(c)
             \/ LoopThread(c)
             \/ Answers(c)
             \/ Leaves(c)
       \/ Reporter

GameSpec == GameInit /\ [][GameNext]_gameVars

\* All threads run on: wait_for returns after its timeout, epoll_wait when there
\* is something. The server answers.
FairGameSpec ==
    /\ GameSpec
    /\ \A c \in Client :
          /\ WF_gameVars(User(c))
          /\ WF_gameVars(LoopThread(c))
          /\ WF_gameVars(Answers(c))
    /\ WF_gameVars(Reporter)

-----------------------------------------------------------------------------
(* Properties *)

\* The future of a request gets the answer to this request or is empty: answers
\* that come late, after wait_for gave up, go to nobody, and none goes to another
\* client, as long as nobody uses the socket of another one.
AnswersMatch ==
    \A c \in Client :
        ~crossed /\ future[c] \notin {NoValue, Empty} => future[c].call = call[c]

\* Modes that make and delete their clients on one thread
OneThread == {"single"} \cup ({"steady", "chaos", "match"} \ Leaving)

\* Where clients are made and deleted on one thread and the server stays (or there
\* is one client at a time) nobody closes, reads or writes another one's socket,
\* though a deleted client closes its number twice (CloseFd, ~Connection).
OwnSocketOnly == mode \in OneThread => ~crossed

\* A deleted client leaves no socket open.
NoSocketLeft == \A n \in Fd : fdtable[n] # None => does[fdtable[n]] # "gone"

\* The reporter's client goes under its call only when connecting or logging in
\* with it has failed (reset() in RunSteadyMode); once the mode runs, the clean-up
\* waits for the reporter.
ReporterKeepsClient == reporter.does = "dead" => Now(Clients).op \in {"Connect", "Login"}

\* The Stop of ~RpcClient came before Run set running_.
StopLost(c) == does[c] = "join" /\ loop[c] = "wait" /\ running[c] /\ ~woken[c]

\* Every mode comes to its end, whatever fails: no call waits for ever and every
\* loop thread is joined, unless its Stop was lost or the process dies of a
\* reset() under the reporter's call.
ModeEnds == <>(\/ \A c \in Client : does[c] = "gone"
               \/ \E c \in Client : StopLost(c)
               \/ reporter.does = "dead")

\* event_loop.h: Run blocks until Stop is called.
StopIsHeard == \A c \in Client : (does[c] = "join") ~> (does[c] = "gone")

\* rpc_client.h: CloseFd only closes the fd, the rest is safely cleaned up in the
\* destructor; so no client touches the socket of another one.
SafelyCleaned == ~crossed
=============================================================================
