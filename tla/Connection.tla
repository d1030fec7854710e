----------------------------- MODULE Connection -----------------------------
(***************************************************************************)
(* One client connection of the server: Connection (read buffer, write     *)
(* buffer), the epoll loop that calls it, edge-triggered, and the socket   *)
(* with its peer, which moves at any time, also between epoll_wait and the *)
(* handler, and between the frames of one read.                            *)
(*                                                                         *)
(* Data is counted in units; FrameLen of them are a frame. What is read    *)
(* comes in order, so it is a number; what is sent is kept unit by unit.   *)
(***************************************************************************)
EXTENDS Integers, Sequences

CONSTANTS
    FrameLen,   \* units in a frame
    SendSpace,  \* units the kernel takes before the peer reads them
    Requests,   \* bound of the model: frames the peer sends
    Pushes,     \* bound of the model: frames sent to the peer unasked
    Corrupt     \* the frame with a damaged header, 0 if there is none

ASSUME ConnectionConstants ==
    /\ FrameLen \in Nat \ {0}
    /\ SendSpace \in Nat \ {0}
    /\ {Requests, Pushes, Corrupt} \subseteq Nat

VARIABLES
    peer,           \* "open", "closed" (no more data), "reset"
    arrived,        \* units the kernel received and nobody read
    unread,         \* units the kernel took from us and the peer did not read
    ready,          \* the fd is in epoll's ready list
    out,            \* EPOLLOUT is among the events registered
    pc,             \* where the IO thread is with this connection
    ev,             \* the events epoll_wait returned
    live,           \* handlers_ has the Connection: it is not deleted
    buffered,       \* units in read_buffer_
    handled,        \* frames taken from it
    write_buffer, write_offset,
    given,          \* history: units passed to Send
    sent,           \* history: the units the kernel took
    disconnects     \* history: calls of on_disconnect_

socketVars == <<peer, arrived, unread, ready, out>>
readVars == <<buffered, handled>>
sendVars == <<write_buffer, write_offset, given, sent>>
vars == <<peer, arrived, unread, ready, out, pc, ev, live, buffered, handled,
          write_buffer, write_offset, given, sent, disconnects>>

Init ==
    /\ peer = "open"
    /\ arrived = 0
    /\ unread = 0
    /\ ready = FALSE
    /\ out = FALSE
    /\ pc = "wait"
    /\ ev = {}
    /\ live = TRUE
    /\ buffered = 0
    /\ handled = 0
    /\ write_buffer = <<>>
    /\ write_offset = 0
    /\ given = 0
    /\ sent = <<>>
    /\ disconnects = 0

Lesser(m, n) == IF m < n THEN m ELSE n

-----------------------------------------------------------------------------
(* The kernel *)

\* EPOLLRDHUP, EPOLLHUP and EPOLLERR are HUP: the loop treats them alike.
Events ==
    (IF arrived > 0 \/ peer # "open" THEN {"IN"} ELSE {})
    \cup (IF peer # "open" THEN {"HUP"} ELSE {})
    \cup (IF out /\ (unread < SendSpace \/ peer = "reset") THEN {"OUT"} ELSE {})

\* What send() takes of n units: all there is room for, none after a reset.
Taken(n) == IF peer = "reset" THEN 0 ELSE Lesser(n, SendSpace - unread)

\* EPOLL_CTL_MOD puts the fd in the ready list if one of the events holds.
UpdateEvents(wantOut) ==
    /\ out' = wantOut
    /\ ready' = \/ ready
                \/ arrived > 0 \/ peer # "open"
                \/ wantOut /\ unread' < SendSpace

-----------------------------------------------------------------------------
(* The peer. What it does after the server closed the socket is not modelled. *)

PeerSends ==
    /\ live
    /\ peer = "open"
    /\ handled * FrameLen + buffered + arrived < Requests * FrameLen
    /\ arrived' = arrived + 1
    /\ ready' = TRUE
    /\ UNCHANGED <<peer, unread, out, pc, ev, live, readVars, sendVars, disconnects>>

PeerReads ==
    /\ live
    /\ peer # "reset"
    /\ unread > 0
    /\ unread' = unread - 1
    /\ ready' = (ready \/ out)
    /\ UNCHANGED <<peer, arrived, out, pc, ev, live, readVars, sendVars, disconnects>>

PeerGoes ==
    /\ live
    /\ peer = "open"
    /\ peer' \in {"closed", "reset"}
    /\ ready' = TRUE
    /\ UNCHANGED <<arrived, unread, out, pc, ev, live, readVars, sendVars, disconnects>>

-----------------------------------------------------------------------------
(* Connection *)

NewFrame == [i \in 1 .. FrameLen |-> given + i]

\* Mutants: the new data is cut where the data sent before it was; EPOLLOUT is
\* not asked for.
SendAtOffset(data) ==
    LET n == IF write_buffer = <<>> THEN Taken(Len(data)) ELSE write_offset
    IN  /\ given' = given + Len(data)
        /\ sent' = IF write_buffer = <<>> THEN sent \o SubSeq(data, 1, n) ELSE sent
        /\ unread' = IF write_buffer = <<>> THEN unread + n ELSE unread
        /\ write_buffer' = write_buffer \o SubSeq(data, n + 1, Len(data))
        /\ IF write_buffer = <<>> /\ n = Len(data) THEN UNCHANGED <<out, ready>>
                                                   ELSE UpdateEvents(TRUE)
        /\ UNCHANGED <<peer, arrived, write_offset>>
SendQuietly(data) ==
    LET n == IF write_buffer = <<>> THEN Taken(Len(data)) ELSE 0
    IN  /\ given' = given + Len(data)
        /\ sent' = sent \o SubSeq(data, 1, n)
        /\ unread' = unread + n
        /\ write_buffer' = write_buffer \o SubSeq(data, n + 1, Len(data))
        /\ UNCHANGED <<peer, arrived, out, ready, write_offset>>

\* What is not sent at once is appended; only an empty buffer tries to send.
Send(data) ==
    LET n == IF write_buffer = <<>> THEN Taken(Len(data)) ELSE 0
    IN  /\ given' = given + Len(data)
        /\ sent' = sent \o SubSeq(data, 1, n)
        /\ unread' = unread + n
        /\ write_buffer' = write_buffer \o SubSeq(data, n + 1, Len(data))
        /\ IF n = Len(data) THEN UNCHANGED <<out, ready>> ELSE UpdateEvents(TRUE)
        /\ UNCHANGED <<peer, arrived, write_offset>>

\* Mutant: the callback is not called.
OnCloseSilent ==
    /\ live' = FALSE
    /\ ready' = FALSE
    /\ UNCHANGED disconnects

\* The callback, then the Connection leaves handlers_, which deletes it.
OnClose ==
    /\ disconnects' = disconnects + 1
    /\ live' = FALSE
    /\ ready' = FALSE

\* Mutant: recv is called once.
OnReadOnce ==
    /\ pc = "read"
    /\ IF peer = "open"
       THEN /\ buffered' = buffered + Lesser(arrived, FrameLen)
            /\ arrived' = arrived - Lesser(arrived, FrameLen)
            /\ pc' = "frames"
            /\ UNCHANGED <<ready, live, disconnects>>
       ELSE /\ OnClose
            /\ pc' = IF "OUT" \in ev THEN "write" ELSE "wait"
            /\ UNCHANGED <<buffered, arrived>>
    /\ UNCHANGED <<peer, unread, out, ev, handled, sendVars>>

\* recv until nothing is left, into read_buffer_. At the end of the stream, or
\* after a reset, the connection is closed, whatever was read before.
OnRead ==
    /\ pc = "read"
    /\ IF peer = "open"
       THEN /\ buffered' = buffered + arrived
            /\ arrived' = 0
            /\ pc' = "frames"
            /\ UNCHANGED <<ready, live, disconnects>>
       ELSE /\ OnClose
            /\ pc' = IF "OUT" \in ev THEN "write" ELSE "wait"
            /\ UNCHANGED <<buffered, arrived>>
    /\ UNCHANGED <<peer, unread, out, ev, handled, sendVars>>

\* TryPopFrame: a damaged header stays where it is, for good.
FrameComplete == buffered >= FrameLen /\ handled + 1 # Corrupt

\* Mutant: one frame for each read.
HandleOneFrame ==
    /\ pc = "frames"
    /\ FrameComplete
    /\ buffered' = buffered - FrameLen
    /\ handled' = handled + 1
    /\ Send(NewFrame)
    /\ pc' = IF "OUT" \in ev THEN "write" ELSE "wait"
    /\ UNCHANGED <<ev, live, disconnects>>

\* A frame is taken from the buffer and its handler sends the response; one that
\* Decode does not understand is dropped without an answer.
HandleFrame ==
    /\ pc = "frames"
    /\ FrameComplete
    /\ buffered' = buffered - FrameLen
    /\ handled' = handled + 1
    /\ \/ Send(NewFrame)
       \/ UNCHANGED <<socketVars, sendVars>>
    /\ UNCHANGED <<pc, ev, live, disconnects>>

FramesDone ==
    /\ pc = "frames"
    /\ ~FrameComplete
    /\ pc' = IF "OUT" \in ev THEN "write" ELSE "wait"
    /\ UNCHANGED <<socketVars, ev, live, readVars, sendVars, disconnects>>

\* Mutant: write_offset_ is not reset with the buffer.
OnWriteKeepsOffset ==
    LET waiting == SubSeq(write_buffer, write_offset + 1, Len(write_buffer))
        n       == Taken(Len(waiting))
    IN  /\ pc = "write"
        /\ live
        /\ pc' = "wait"
        /\ IF waiting # <<>> /\ peer = "reset"
           THEN /\ OnClose
                /\ UNCHANGED <<unread, out, sendVars>>
           ELSE /\ sent' = sent \o SubSeq(waiting, 1, n)
                /\ unread' = unread + n
                /\ write_offset' = write_offset + n
                /\ IF n = Len(waiting)
                   THEN /\ write_buffer' = <<>>
                        /\ IF waiting = <<>> THEN UNCHANGED <<out, ready>>
                                             ELSE UpdateEvents(FALSE)
                   ELSE UNCHANGED <<write_buffer, out, ready>>
                /\ UNCHANGED <<given, live, disconnects>>
        /\ UNCHANGED <<peer, arrived, ev, readVars>>

\* send until all is sent, the kernel takes no more or the socket fails.
OnWrite ==
    LET waiting == SubSeq(write_buffer, write_offset + 1, Len(write_buffer))
        n       == Taken(Len(waiting))
    IN  /\ pc = "write"
        /\ live
        /\ pc' = "wait"
        /\ IF waiting # <<>> /\ peer = "reset"
           THEN /\ OnClose
                /\ UNCHANGED <<unread, out, sendVars>>
           ELSE /\ sent' = sent \o SubSeq(waiting, 1, n)
                /\ unread' = unread + n
                /\ IF n = Len(waiting)
                   THEN /\ write_buffer' = <<>>
                        /\ write_offset' = 0
                        /\ IF waiting = <<>> THEN UNCHANGED <<out, ready>>
                                             ELSE UpdateEvents(FALSE)
                   ELSE /\ write_offset' = write_offset + n
                        /\ UNCHANGED <<write_buffer, out, ready>>
                /\ UNCHANGED <<given, live, disconnects>>
        /\ UNCHANGED <<peer, arrived, ev, readVars>>

-----------------------------------------------------------------------------
(* EventLoop::Run *)

\* epoll_wait takes the fd off the ready list with the events that hold now.
EpollWait ==
    /\ pc = "wait"
    /\ live
    /\ ready
    /\ ready' = FALSE
    /\ ev' = Events
    /\ pc' = IF Events = {} THEN "wait" ELSE "dispatch"
    /\ UNCHANGED <<peer, arrived, unread, out, live, readVars, sendVars, disconnects>>

\* HUP closes the connection and nothing is read; otherwise OnRead comes first.
Dispatch ==
    /\ pc = "dispatch"
    /\ IF "HUP" \in ev
       THEN /\ OnClose
            /\ pc' = "wait"
       ELSE /\ pc' = IF "IN" \in ev THEN "read" ELSE "write"
            /\ UNCHANGED <<ready, live, disconnects>>
    /\ UNCHANGED <<peer, arrived, unread, out, ev, readVars, sendVars>>

\* Another handler of the IO thread sends to this connection (SendToPlayer), one
\* of an earlier epoll_wait or one that comes first in the same one.
Push ==
    /\ pc \in {"wait", "dispatch"}
    /\ live
    /\ given < (handled + Pushes) * FrameLen
    /\ Send(NewFrame)
    /\ UNCHANGED <<pc, ev, live, readVars, disconnects>>

-----------------------------------------------------------------------------
Next ==
    \/ PeerSends
    \/ PeerReads
    \/ PeerGoes
    \/ EpollWait
    \/ Dispatch
    \/ OnRead
    \/ HandleFrame
    \/ FramesDone
    \/ OnWrite
    \/ Push

Spec == Init /\ [][Next]_vars

Loop == EpollWait \/ Dispatch \/ OnRead \/ HandleFrame \/ FramesDone \/ OnWrite

\* The IO thread runs on, and the peer goes on reading.
FairSpec == Spec /\ WF_vars(Loop) /\ WF_vars(PeerReads)

-----------------------------------------------------------------------------
(* Properties *)

TypeOK ==
    /\ peer \in {"open", "closed", "reset"}
    /\ arrived \in Nat
    /\ unread \in 0 .. SendSpace
    /\ ready \in BOOLEAN
    /\ out \in BOOLEAN
    /\ pc \in {"wait", "dispatch", "read", "frames", "write"}
    /\ ev \subseteq {"IN", "OUT", "HUP"}
    /\ live \in BOOLEAN
    /\ buffered \in Nat
    /\ handled \in Nat
    /\ write_buffer \in Seq(Nat)
    /\ write_offset \in Nat
    /\ given \in Nat
    /\ sent \in Seq(Nat)
    /\ disconnects \in Nat

\* The units sent and those that still wait in write_buffer_, from write_offset_
\* on, are all the units given to Send, in their order: none is lost, doubled or
\* overtaken, however send() splits the frames (Send, OnWrite).
AllKept ==
    /\ \A i \in DOMAIN sent : sent[i] = i
    /\ \A j \in DOMAIN write_buffer : write_buffer[j] = Len(sent) - write_offset + j
    /\ given = Len(sent) + Len(write_buffer) - write_offset
    /\ write_offset <= Len(write_buffer)

Stream == INSTANCE ByteStream WITH given <- given, sent <- sent

\* To its users the connection is a ByteStream.
StreamSpec == Stream!Spec

\* Edge-triggered: between two epoll_waits nothing waits for an edge that is
\* past. Input not read and a peer that is gone keep the fd in the ready list,
\* and so does output that waits while there is room for it.
NoEdgeLost ==
    pc = "wait" /\ live =>
        /\ arrived > 0 \/ peer # "open" => ready
        /\ write_buffer # <<>> => out
        /\ write_buffer # <<>> /\ unread < SendSpace => ready

\* What waits to be sent is sent if the peer reads and stays.
EverythingSent == (write_buffer # <<>>) ~> (write_buffer = <<>> \/ ~live)

\* Every complete frame that arrived before a damaged one is handled, unless the
\* peer goes.
FramesHandled ==
    \A k \in 1 .. Requests :
        (handled * FrameLen + buffered + arrived >= k * FrameLen /\ Corrupt \notin 1 .. k)
            ~> (handled >= k \/ ~live)

\* A peer that is gone is noticed: the disconnect callback cleans up after it.
PeerNoticed == (peer # "open") ~> (disconnects = 1)

\* docs/pitfalls/connection-onclose-uaf.md: once the Connection has deleted
\* itself no member of it may be used. OnWrite is the next call when pc is "write".
NoUseAfterDelete == pc = "write" => live
=============================================================================
