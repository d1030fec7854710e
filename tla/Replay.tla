------------------------------- MODULE Replay -------------------------------
(***************************************************************************)
(* The game state that the frames of FrameSync add up to: tickLogic, the   *)
(* snapshots of it, and the way back of a client that lost frames, from a  *)
(* snapshot and the inputs of GetCatchUpFrames. The owner of the room runs *)
(* tickLogic and SaveSnapshot after every Tick, as snapshot_manager.h says *)
(* and the tests do; the server under src/ does neither yet.               *)
(***************************************************************************)
EXTENDS FrameSync

CONSTANTS
    MaxSnapshots,   \* SnapshotManager's max_snapshots_
    Alpha           \* ReconcileState's alpha, in tenths

ASSUME ReplayConstants ==
    /\ MaxSnapshots \in Nat \ {0}
    /\ Alpha \in 1 .. 10
    /\ Input \subseteq 0 .. 255     \* the first byte of an input

VARIABLES
    game,       \* the state the owner has
    snapshots,  \* snapshots_: states by frame
    states      \* history: the owner's state after each frame

gameVars == <<game, snapshots, states>>

\* A position for each player the state knows; their order has no meaning.
NoState == [frame_no |-> 0, players |-> <<>>]

ReplayInit ==
    /\ Init
    /\ game = NoState
    /\ snapshots = <<>>
    /\ states = <<>>

-----------------------------------------------------------------------------
(* game_state.cpp *)

Origin == [x |-> 0, y |-> 0]
PosIn(st, p) == IF p \in DOMAIN st.players THEN st.players[p] ELSE Origin

\* A byte that is no direction moves nobody.
ParseMoveDir(i) == IF i \in 1 .. 4 THEN <<"UP", "DOWN", "LEFT", "RIGHT">>[i] ELSE "NONE"

ApplyMove(pos, dir) ==
    CASE dir = "UP"    -> [pos EXCEPT !.y = @ - 1]
      [] dir = "DOWN"  -> [pos EXCEPT !.y = @ + 1]
      [] dir = "LEFT"  -> [pos EXCEPT !.x = @ - 1]
      [] dir = "RIGHT" -> [pos EXCEPT !.x = @ + 1]
      [] OTHER         -> pos

\* Whoever has an input is in the state from now on, at the origin before it.
TickLogic(st, inputs) ==
    [frame_no |-> st.frame_no + 1,
     players  |-> [p \in DOMAIN st.players \cup DOMAIN inputs |->
                      IF p \in DOMAIN inputs
                      THEN ApplyMove(PosIn(st, p), ParseMoveDir(inputs[p])) ELSE PosIn(st, p)]]

\* The players whom the client has elsewhere, or not at all.
CompareStates(authoritative, predicted) ==
    {p \in DOMAIN authoritative.players :
        p \notin DOMAIN predicted.players \/ predicted.players[p] # authoritative.players[p]}

\* static_cast<int32_t>, of tenths
Truncated(n) == IF n >= 0 THEN n \div 10 ELSE -((-n) \div 10)

\* Mutant: client - server instead of server - client.
NearerBack(from, to) == Truncated(10 * from + Alpha * (from - to))

\* from + (to - from) * alpha
Nearer(from, to) == Truncated(10 * from + Alpha * (to - from))

ReconcileState(client, authoritative) ==
    LET known == DOMAIN client.players
        there == authoritative.players
    IN  [frame_no |-> authoritative.frame_no,
         players  |-> [p \in known \cup DOMAIN there |->
             IF p \notin DOMAIN there THEN client.players[p]
             ELSE IF p \notin known THEN there[p]
             ELSE [x |-> Nearer(client.players[p].x, there[p].x),
                   y |-> Nearer(client.players[p].y, there[p].y)]]]

-----------------------------------------------------------------------------
(* SnapshotManager *)

\* Mutant: the newest snapshot goes when there are too many.
SaveSnapshotOld(snaps, st) ==
    IF Cardinality(DOMAIN snaps) = MaxSnapshots THEN snaps
    ELSE [f \in DOMAIN snaps \cup {st.frame_no} |-> IF f = st.frame_no THEN st ELSE snaps[f]]

\* A snapshot replaces the one of the same frame; of too many, the oldest goes.
SaveSnapshot(snaps, st) ==
    LET frames == DOMAIN snaps \cup {st.frame_no}
        kept   == {f \in frames : Quantify(frames, LAMBDA g : g > f) < MaxSnapshots}
    IN  [f \in kept |-> IF f = st.frame_no THEN st ELSE snaps[f]]

\* A snapshot that is gone comes back as the empty state.
RestoreFromSnapshot(f) == IF f \in DOMAIN snapshots THEN snapshots[f] ELSE NoState

-----------------------------------------------------------------------------
\* A tick of the room's timer, and what the owner makes of the frame it played
PlayFrame ==
    /\ TimerFires
    /\ IF frame_no' = frame_no THEN UNCHANGED gameVars
       ELSE /\ game' = TickLogic(game, frame_history'[Len(frame_history')].inputs)
            /\ snapshots' = SaveSnapshot(snapshots, game')
            /\ states' = Append(states, game')

ReplayNext ==
    \/ PlayFrame
    \/ Requests /\ UNCHANGED gameVars

replayVars == <<vars, gameVars>>

ReplaySpec == ReplayInit /\ [][ReplayNext]_replayVars

-----------------------------------------------------------------------------
(* Properties *)

StateAt(f) == IF f = 0 THEN NoState ELSE states[f]
ReplayFrame(st, record) == TickLogic(st, record.inputs)

\* A client no further behind than both the snapshots and the history reach gets
\* the state its frame had, and each answer of GetCatchUpFrames takes it from a
\* state of the server to a later one: frame by frame it comes back to the very
\* state the owner has. The broadcasts alone would not do, they skip frames.
ReplayExact ==
    \A f \in 0 .. frame_no :
        frame_no - f < MaxSnapshots /\ frame_no - f <= MaxHistory =>
            LET client == RestoreFromSnapshot(f)
                back   == FoldLeft(ReplayFrame, client, CatchUp(f))
            IN  /\ client = StateAt(f)
                /\ f < frame_no => back.frame_no > f
                /\ back = StateAt(back.frame_no)
                /\ back.frame_no = frame_no => CompareStates(game, back) = {}

\* A client at an earlier state that reconciles with the owner's knows every
\* player and is nowhere further away than it was: it never overshoots, also left
\* of and above the origin, and a distance of 10/Alpha or more shrinks.
ReconcileNears ==
    \A f \in 0 .. frame_no :
        LET before == StateAt(f)
            after  == ReconcileState(before, game)
            Off(a, b) == IF a < b THEN b - a ELSE a - b
            Closer(old, new, to) ==
                /\ Off(new, to) <= Off(old, to)
                /\ Alpha * Off(old, to) >= 10 => Off(new, to) < Off(old, to)
        IN  /\ DOMAIN after.players = DOMAIN game.players
            /\ \A p \in DOMAIN game.players :
                  p \in DOMAIN before.players =>
                     /\ Closer(before.players[p].x, after.players[p].x, game.players[p].x)
                     /\ Closer(before.players[p].y, after.players[p].y, game.players[p].y)
=============================================================================
