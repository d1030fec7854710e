------------------------------ MODULE FrameSync ------------------------------
(***************************************************************************)
(* The frame synchronisation of one room: InputBuffer (inputs by frame,    *)
(* the lowest frames dropped when there are too many), FrameSyncManager    *)
(* (frame counter, history for slow clients), the timer that ticks it and  *)
(* the RoomServiceImpl handlers that feed, start and stop it.              *)
(***************************************************************************)
EXTENDS Integers, Sequences, SequencesExt, Functions, FiniteSetsExt

CONSTANTS
    Player,       \* the players of the room
    Input,        \* what a player can send for a frame
    MaxFrames,    \* InputBuffer's max_frames_
    MaxHistory,   \* FrameSyncManager's max_history_size_
    Ahead,        \* a client runs at most so many frames ahead of the server
    FrameBound,   \* bound of the model: frames played
    InputBound    \* bound of the model: frames inputs are sent for

ASSUME FrameConstants ==
    /\ MaxFrames \in Nat \ {0}
    /\ MaxHistory \in Nat \ {0}
    /\ {Ahead, FrameBound, InputBound} \subseteq Nat

VARIABLES
    phase,          \* "none" before InitFrameSync, then running_
    timer,          \* a tick is scheduled in the room's TimerManager
    frame_no,
    buffer,         \* buffer_: the inputs of a frame, by player
    frame_history,
    broadcasts,     \* history: the FrameData sent to the room
    sent            \* history: the last input for a frame before it was played

vars == <<phase, timer, frame_no, buffer, frame_history, broadcasts, sent>>

Init ==
    /\ phase = "none"
    /\ timer = FALSE
    /\ frame_no = 0
    /\ buffer = <<>>
    /\ frame_history = <<>>
    /\ broadcasts = <<>>
    /\ sent = <<>>

-----------------------------------------------------------------------------
(* InputBuffer *)

InputsOf(frames, f) == IF f \in DOMAIN frames THEN frames[f] ELSE <<>>

\* The last input of a player for a frame replaces those before it.
Added(frames, f, p, i) ==
    LET old == InputsOf(frames, f)
        new == [q \in DOMAIN old \cup {p} |-> IF q = p THEN i ELSE old[q]]
    IN  [g \in DOMAIN frames \cup {f} |-> IF g = f THEN new ELSE frames[g]]

\* Of more than max_frames_, the lowest go.
Newest(frames) ==
    Restrict(frames, {f \in DOMAIN frames :
        Quantify(DOMAIN frames, LAMBDA g : g > f) < MaxFrames})

Without(frames, f) == Restrict(frames, DOMAIN frames \ {f})

-----------------------------------------------------------------------------
(* RoomServiceImpl: a room starts once and stops once, see NeverReopens. *)

\* The tick is scheduled an interval from now.
StartGame ==
    /\ phase = "none"
    /\ phase' = "running"
    /\ timer' = TRUE
    /\ UNCHANGED <<frame_no, buffer, frame_history, broadcasts, sent>>

\* Stop leaves the scheduled tick where it is. A room that never started can
\* be stopped too, and has no frame synchronisation.
StopGame ==
    /\ phase = "running"
    /\ phase' = "stopped"
    /\ UNCHANGED <<timer, frame_no, buffer, frame_history, broadcasts, sent>>

\* Mutant: an input for a frame the buffer has is not stored.
SendInputOnce(p, f, i) ==
    /\ phase # "none"
    /\ buffer' = IF f \in DOMAIN buffer THEN buffer ELSE Newest(Added(buffer, f, p, i))
    /\ sent' = IF f > frame_no THEN Added(sent, f, p, i) ELSE sent
    /\ UNCHANGED <<phase, timer, frame_no, frame_history, broadcasts>>

\* An input for a frame that was played stays in the buffer until it is dropped.
SendInput(p, f, i) ==
    /\ phase # "none"
    /\ buffer' = Newest(Added(buffer, f, p, i))
    /\ sent' = IF f > frame_no THEN Added(sent, f, p, i) ELSE sent
    /\ UNCHANGED <<phase, timer, frame_no, frame_history, broadcasts>>

-----------------------------------------------------------------------------
(* FrameSyncManager *)

Latest(records) == IF Len(records) > MaxHistory THEN Tail(records) ELSE records

\* The frame is recorded, with or without inputs; only inputs are broadcast.
Tick ==
    LET record == [frame_no |-> frame_no + 1, inputs |-> InputsOf(buffer, frame_no + 1)]
    IN  /\ frame_no' = frame_no + 1
        /\ buffer' = Without(buffer, frame_no + 1)
        /\ frame_history' = Latest(Append(frame_history, record))
        /\ broadcasts' = IF record.inputs = <<>> THEN broadcasts
                                                 ELSE Append(broadcasts, record)

\* Mutant: running_ is not looked at.
TimerFiresAnyway ==
    /\ timer
    /\ frame_no < FrameBound
    /\ Tick
    /\ timer' = (phase = "running")
    /\ UNCHANGED <<phase, sent>>

\* The scheduled callback: once stopped it does not schedule the next one.
TimerFires ==
    /\ timer
    /\ frame_no < FrameBound
    /\ timer' = (phase = "running")
    /\ IF phase = "running" THEN Tick
                            ELSE UNCHANGED <<frame_no, buffer, frame_history, broadcasts>>
    /\ UNCHANGED <<phase, sent>>

\* GetCatchUpFrames for a client at frame client: the records of frames client + 1
\* to last, in the order of the history.
CatchUp(client) ==
    LET last   == IF client + 3 < frame_no THEN client + 3 ELSE frame_no
        wanted == {i \in DOMAIN frame_history : frame_history[i].frame_no \in client + 1 .. last}
        Nth(n) == CHOOSE i \in wanted : Cardinality({j \in wanted : j <= i}) = n
    IN  [n \in 1 .. Cardinality(wanted) |-> frame_history[Nth(n)]]

-----------------------------------------------------------------------------
\* What the clients ask for
Requests ==
    \/ StartGame
    \/ StopGame
    \/ \E p \in Player, i \in Input, f \in 1 .. InputBound :
          f <= frame_no + Ahead /\ SendInput(p, f, i)

Next == TimerFires \/ Requests

Spec == Init /\ [][Next]_vars

-----------------------------------------------------------------------------
(* Properties *)

\* What was sent for frame f before it was played.
Sent(f) == InputsOf(sent, f)

\* The clients play, in order, each frame somebody sent an input for in time,
\* with every player's last input, and no frame twice (Tick).
PlayedAsSent ==
    Ahead <= MaxFrames =>
        /\ ToSet(broadcasts) = {[frame_no |-> f, inputs |-> Sent(f)] :
                                   f \in {g \in 1 .. frame_no : Sent(g) # <<>>}}
        /\ \A i, j \in DOMAIN broadcasts :
              i < j => broadcasts[i].frame_no < broadcasts[j].frame_no

\* A stopped game plays no frame, though a tick is still scheduled (Stop).
StoppedIsStill ==
    [][phase = "stopped" => UNCHANGED <<frame_no, frame_history, broadcasts>>]_vars

\* What frame_sync.h and the tests say of GetCatchUpFrames: at most two frames
\* for each call. The code answers with three.
CatchUpAtMostTwo == \A client \in 0 .. frame_no : Len(CatchUp(client)) <= 2
==============================================================================
