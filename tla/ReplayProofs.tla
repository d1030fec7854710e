---------------------------- MODULE ReplayProofs ----------------------------
(***************************************************************************)
(* Frames and the way back into a game, proved for any players and inputs, *)
(* any length of the buffer, the history and the snapshots, and any way    *)
(* the clients run ahead: what was sent in time is played as it was sent   *)
(* (PlayedAsSent), nothing is played after the stop (StoppedIsStill), a    *)
(* client that reconciles comes nearer (ReconcileNears), and one that lost *)
(* frames gets back to the very state of the server (ReplayExact).         *)
(*                                                                         *)
(* The buffer drops frames, but no frame that is still to be played: those *)
(* are at most Ahead, and the lowest go first (AsSent). Whom a state knows *)
(* all later ones know, and positions stay integers (StatesInv). History   *)
(* and snapshots are the ends of what was played, without a gap (ExactInv).*)
(***************************************************************************)
EXTENDS Replay, FiniteSetTheorems, SequenceTheorems, TLAPS

Played(f) == [frame_no |-> f, inputs |-> Sent(f)]

\* What the buffer has for the frames that are still to be played is what was
\* sent for them, and nobody is further ahead than Ahead.
AsSent ==
    /\ buffer = [f \in DOMAIN buffer |-> buffer[f]]
    /\ DOMAIN buffer \subseteq 1 .. frame_no + Ahead
    /\ Ahead <= MaxFrames =>
          \A f \in DOMAIN buffer \cup DOMAIN sent :
              f > frame_no => InputsOf(buffer, f) = InputsOf(sent, f)

PlayedInv ==
    /\ frame_no \in Nat
    /\ AsSent
    /\ DOMAIN sent \subseteq Nat
    /\ Ahead <= MaxFrames => broadcasts \in Seq({Played(f) : f \in 1 .. frame_no})
    /\ PlayedAsSent

Position == [x : Int, y : Int]
GameState(st) == \A p \in DOMAIN st.players : st.players[p] \in Position

\* There is a state for each frame, and later states know more players.
StatesInv ==
    /\ frame_no \in Nat
    /\ states \in Seq(ToSet(states)) /\ Len(states) = frame_no
    /\ GameState(game)
    /\ \A f \in 1 .. frame_no :
          /\ GameState(states[f])
          /\ DOMAIN states[f].players \subseteq DOMAIN game.players


-----------------------------------------------------------------------------
(* The buffer *)

\* A frame that is still to be played is not dropped.
LEMMA NothingDropped ==
    ASSUME NEW frames, NEW n \in Nat, DOMAIN frames \subseteq 1 .. n + Ahead, Ahead <= MaxFrames,
           NEW f \in DOMAIN frames, f > n
    PROVE  f \in DOMAIN Newest(frames) /\ Newest(frames)[f] = frames[f]
<1> DEFINE Later == {g \in DOMAIN frames : g > f}
<1>1. f \in Nat /\ n + Ahead \in Nat /\ Ahead \in Nat /\ MaxFrames \in Nat /\ f <= n + Ahead
  BY FrameConstants
<1>2. Later \subseteq f + 1 .. n + Ahead
  BY <1>1
<1>3. IsFiniteSet(f + 1 .. n + Ahead) /\ Cardinality(f + 1 .. n + Ahead) = n + Ahead - f
  <2> DEFINE lo == f + 1  hi == n + Ahead
  <2>1. lo \in Int /\ hi \in Int /\ lo <= hi + 1
    BY <1>1
  <2> HIDE DEF lo, hi
  <2>2. IsFiniteSet(lo .. hi) /\ Cardinality(lo .. hi) = IF lo > hi THEN 0 ELSE hi - lo + 1
    BY <2>1, FS_Interval
  <2>3. Cardinality(lo .. hi) = hi - lo + 1
    BY <2>1, <2>2
  <2> QED  BY <1>1, <2>2, <2>3 DEF lo, hi
<1>4. Cardinality(Later) \in Nat /\ Cardinality(Later) <= n + Ahead - f
  <2> DEFINE all == f + 1 .. n + Ahead
  <2>1. Later \subseteq all /\ IsFiniteSet(all) /\ Cardinality(all) = n + Ahead - f
    BY <1>2, <1>3
  <2> HIDE DEF Later, all
  <2>2. IsFiniteSet(Later) /\ Cardinality(Later) <= Cardinality(all)
    BY <2>1, FS_Subset
  <2>3. Cardinality(Later) \in Nat
    BY <2>2, FS_CardinalityType
  <2> QED  BY <2>1, <2>2, <2>3
<1>5. Cardinality(Later) < MaxFrames
  BY <1>1, <1>4
<1>. QED  BY <1>5 DEF Newest, Quantify, Restrict

\* What the buffer keeps it keeps unchanged.
LEMMA NewestIsPart ==
    ASSUME NEW frames
    PROVE  /\ DOMAIN Newest(frames) \subseteq DOMAIN frames
           /\ \A f \in DOMAIN Newest(frames) : Newest(frames)[f] = frames[f]
           /\ Newest(frames) = [f \in DOMAIN Newest(frames) |-> Newest(frames)[f]]
<1> DEFINE kept == {f \in DOMAIN frames :
                       Quantify(DOMAIN frames, LAMBDA g : g > f) < MaxFrames}
<1>1. Newest(frames) = [f \in kept |-> frames[f]]
  BY DEF Newest, Restrict
<1> HIDE DEF kept
<1>2. DOMAIN Newest(frames) = kept /\ \A f \in kept : Newest(frames)[f] = frames[f]
  BY <1>1
<1>3. kept \subseteq DOMAIN frames
  BY DEF kept
<1>. QED  BY <1>1, <1>2, <1>3

\* The inputs of a frame with one more
With(old, p, i) == [q \in DOMAIN old \cup {p} |-> IF q = p THEN i ELSE old[q]]

\* An input changes its own frame only, and there it depends on what was known of
\* this frame.
LEMMA AddedFrames ==
    ASSUME NEW a, NEW f, NEW p, NEW i
    PROVE  DOMAIN Added(a, f, p, i) = DOMAIN a \cup {f}
BY DEF Added

LEMMA AddedElsewhere ==
    ASSUME NEW a, NEW f, NEW p, NEW i, NEW g, g # f
    PROVE  InputsOf(Added(a, f, p, i), g) = InputsOf(a, g)
BY DEF Added, InputsOf

LEMMA AddedThere ==
    ASSUME NEW a, NEW f, NEW p, NEW i
    PROVE  InputsOf(Added(a, f, p, i), f) = With(InputsOf(a, f), p, i)
<1>1. f \in DOMAIN Added(a, f, p, i) /\ Added(a, f, p, i)[f] = With(InputsOf(a, f), p, i)
  BY DEF Added, With
<1>. QED  BY <1>1 DEF InputsOf

\* AsSent, of frames nobody knows anything of too.
LEMMA AsSentAll ==
    ASSUME AsSent, Ahead <= MaxFrames, NEW f, f > frame_no
    PROVE  InputsOf(buffer, f) = InputsOf(sent, f)
<1>1. CASE f \in DOMAIN buffer \cup DOMAIN sent
  BY <1>1 DEF AsSent
<1>2. CASE f \notin DOMAIN buffer \cup DOMAIN sent
  BY <1>2 DEF InputsOf
<1>. QED  BY <1>1, <1>2

-----------------------------------------------------------------------------
(* Frames are played as they were sent *)

\* An input for a played frame is no longer sent in time, one for a later frame
\* changes no frame that was played.
LEMMA PlayedOnSend ==
    ASSUME PlayedInv, NEW p, NEW i, NEW f \in Nat, f >= 1, f <= frame_no + Ahead, SendInput(p, f, i)
    PROVE  PlayedInv'
<1> DEFINE a == Added(buffer, f, p, i)
           b == Added(sent, f, p, i)
<1>1. /\ buffer' = Newest(a) /\ UNCHANGED <<frame_no, broadcasts>>
      /\ sent' = IF f > frame_no THEN b ELSE sent
  BY DEF SendInput
<1>2. frame_no \in Nat /\ Ahead \in Nat /\ DOMAIN buffer \subseteq 1 .. frame_no + Ahead
  BY FrameConstants DEF PlayedInv, AsSent
<1>added. /\ DOMAIN a = DOMAIN buffer \cup {f} /\ DOMAIN b = DOMAIN sent \cup {f}
          /\ \A g \in Nat \ {f} : InputsOf(a, g) = InputsOf(buffer, g)
          /\ \A g \in Nat \ {f} : InputsOf(b, g) = InputsOf(sent, g)
  <2>1. DOMAIN a = DOMAIN buffer \cup {f} /\ DOMAIN b = DOMAIN sent \cup {f}
    BY AddedFrames
  <2>2. \A g \in Nat \ {f} : InputsOf(a, g) = InputsOf(buffer, g)
    BY AddedElsewhere
  <2>3. \A g \in Nat \ {f} : InputsOf(b, g) = InputsOf(sent, g)
    BY AddedElsewhere
  <2> QED  BY <2>1, <2>2, <2>3
<1>same. InputsOf(buffer, f) = InputsOf(sent, f) => InputsOf(a, f) = InputsOf(b, f)
  <2>1. InputsOf(a, f) = With(InputsOf(buffer, f), p, i)
    BY AddedThere
  <2>2. InputsOf(b, f) = With(InputsOf(sent, f), p, i)
    BY AddedThere
  <2> QED  BY <2>1, <2>2
<1> HIDE DEF a, b
<1>3. DOMAIN a \subseteq 1 .. frame_no + Ahead /\ DOMAIN sent' \subseteq Nat
  <2>1. f \in 1 .. frame_no + Ahead
    BY <1>2
  <2> QED  BY <1>1, <1>2, <1>added, <2>1 DEF PlayedInv
<1>4. /\ DOMAIN buffer' \subseteq 1 .. frame_no + Ahead
      /\ buffer' = [g \in DOMAIN buffer' |-> buffer'[g]]
  BY <1>1, <1>3, NewestIsPart
<1>5. ASSUME Ahead <= MaxFrames, NEW g \in Nat, g > frame_no
      PROVE  InputsOf(buffer', g) = InputsOf(sent', g)
  <2>1. InputsOf(buffer', g) = InputsOf(a, g)
    <3>1. CASE g \in DOMAIN a
      <4>1. g \in DOMAIN Newest(a) /\ Newest(a)[g] = a[g]
        BY <1>2, <1>3, <1>5, <3>1, NothingDropped
      <4> QED  BY <1>1, <3>1, <4>1 DEF InputsOf
    <3>2. CASE g \notin DOMAIN a
      BY <1>1, <3>2, NewestIsPart DEF InputsOf
    <3> QED  BY <3>1, <3>2
  <2>2. InputsOf(buffer, g) = InputsOf(sent, g)
    BY <1>5, AsSentAll DEF PlayedInv
  <2>3. CASE g = f
    BY <1>1, <1>5, <1>same, <2>1, <2>2, <2>3
  <2>4. CASE g # f
    BY <1>1, <1>5, <1>added, <2>1, <2>2, <2>4
  <2> QED  BY <2>3, <2>4
<1>6. AsSent'
  <2>1. \A g \in DOMAIN buffer' \cup DOMAIN sent' : g \in Nat
    BY <1>2, <1>3, <1>4
  <2> QED  BY <1>1, <1>4, <1>5, <2>1 DEF AsSent
<1>7. \A g \in 1 .. frame_no : Sent(g)' = Sent(g)
  <2> SUFFICES ASSUME NEW g \in 1 .. frame_no
               PROVE  InputsOf(sent', g) = InputsOf(sent, g)
    BY DEF Sent
  <2>1. f > frame_no => g # f
    BY <1>2
  <2>2. g # f => InputsOf(b, g) = InputsOf(sent, g)
    BY <1>added
  <2> QED  BY <1>1, <2>1, <2>2
<1>8. /\ {Played(g) : g \in 1 .. frame_no}' = {Played(g) : g \in 1 .. frame_no}
      /\ {Played(g) : g \in {h \in 1 .. frame_no : Sent(h) # <<>>}}'
            = {Played(g) : g \in {h \in 1 .. frame_no : Sent(h) # <<>>}}
  <2>1. frame_no' = frame_no /\ \A g \in 1 .. frame_no : Played(g)' = Played(g)
    BY <1>1, <1>7 DEF Played
  <2> QED  BY <1>7, <2>1
<1>9. (Ahead <= MaxFrames => broadcasts \in Seq({Played(g) : g \in 1 .. frame_no}))'
  BY <1>1, <1>8 DEF PlayedInv
<1>10. PlayedAsSent'
  BY <1>1, <1>8 DEF PlayedInv, PlayedAsSent, Played
<1>. QED  BY <1>1, <1>2, <1>3, <1>6, <1>9, <1>10 DEF PlayedInv

\* A tick plays the next frame with what was sent for it.
LEMMA PlayedOnTick ==
    ASSUME PlayedInv, Tick, UNCHANGED sent
    PROVE  PlayedInv'
<1> DEFINE n == frame_no + 1
           record == [frame_no |-> n, inputs |-> InputsOf(buffer, n)]
<1>1. /\ frame_no' = n
      /\ buffer' = [f \in DOMAIN buffer \ {n} |-> buffer[f]]
      /\ broadcasts' = IF InputsOf(buffer, n) = <<>> THEN broadcasts ELSE Append(broadcasts, record)
  BY DEF Tick, Without, Restrict
<1>2. frame_no \in Nat /\ n \in Nat /\ Ahead \in Nat /\ DOMAIN buffer \subseteq 1 .. frame_no + Ahead
  BY FrameConstants DEF PlayedInv, AsSent
<1>3. AsSent'
  <2>1. DOMAIN buffer' = DOMAIN buffer \ {n} /\ \A f \in DOMAIN buffer' : buffer'[f] = buffer[f]
    BY <1>1
  <2>2. DOMAIN buffer' \subseteq 1 .. n + Ahead
    BY <1>2, <2>1
  <2>3. ASSUME Ahead <= MaxFrames, NEW f \in DOMAIN buffer' \cup DOMAIN sent', f > n
        PROVE  InputsOf(buffer', f) = InputsOf(sent', f)
    <3>1. f \in Nat
      BY <1>2, <2>2 DEF PlayedInv
    <3>2. InputsOf(buffer, f) = InputsOf(sent, f)
      BY <1>2, <2>3, <3>1, AsSentAll DEF PlayedInv
    <3>3. f # n
      BY <1>2, <2>3, <3>1
    <3>4. InputsOf(buffer', f) = InputsOf(buffer, f)
      BY <2>1, <3>3 DEF InputsOf
    <3> QED  BY <3>2, <3>4
  <2> QED  BY <1>1, <2>1, <2>2, <2>3 DEF AsSent
<1> DEFINE Frames == {Played(f) : f \in 1 .. frame_no}
           Next1 == {Played(f) : f \in 1 .. n}
<1>4. ASSUME Ahead <= MaxFrames
      PROVE  broadcasts' \in Seq(Next1) /\ PlayedAsSent'
  <2>1. record = Played(n) /\ InputsOf(buffer, n) = Sent(n)
    BY <1>2, <1>4, AsSentAll DEF PlayedInv, Played, Sent
  <2>2. Frames \subseteq Next1 /\ Played(n) \in Next1
    BY <1>2
  <2>3. broadcasts \in Seq(Frames) /\ broadcasts \in Seq(Next1) /\ PlayedAsSent
    BY <1>4, <2>2 DEF PlayedInv
  <2>4. \A i \in DOMAIN broadcasts : broadcasts[i].frame_no \in 1 .. frame_no
    BY <2>3 DEF Played
  <2> DEFINE Owed(m) == {g \in 1 .. m : Sent(g) # <<>>}
  <2>5. \A f \in 1 .. n : Played(f)' = Played(f) /\ Sent(f)' = Sent(f)
    BY DEF Played, Sent
  <2>6. PlayedAsSent' <=>
           /\ ToSet(broadcasts') = {Played(f) : f \in Owed(n)}
           /\ \A i, j \in DOMAIN broadcasts' :
                 i < j => broadcasts'[i].frame_no < broadcasts'[j].frame_no
    BY <1>1, <1>4, <2>5 DEF PlayedAsSent, Played, Sent
  <2>7. /\ ToSet(broadcasts) = {Played(f) : f \in Owed(frame_no)}
        /\ \A i, j \in DOMAIN broadcasts :
              i < j => broadcasts[i].frame_no < broadcasts[j].frame_no
    BY <1>4, <2>3 DEF PlayedAsSent, Played
  <2>8. CASE Sent(n) = <<>>
    <3>1. broadcasts' = broadcasts
      BY <1>1, <2>1, <2>8
    <3>2. Owed(n) = Owed(frame_no)
      BY <1>2, <2>8
    <3> QED  BY <2>3, <2>6, <2>7, <3>1, <3>2
  <2>9. CASE Sent(n) # <<>>
    <3>1. broadcasts' = Append(broadcasts, Played(n))
      BY <1>1, <2>1, <2>9
    <3>2. Owed(n) = Owed(frame_no) \cup {n}
      BY <1>2, <2>9
    <3> DEFINE m == Len(broadcasts) + 1
    <3>3. /\ DOMAIN broadcasts = 1 .. Len(broadcasts) /\ Len(broadcasts) \in Nat
          /\ DOMAIN broadcasts' = 1 .. m
          /\ \A i \in DOMAIN broadcasts : broadcasts'[i] = broadcasts[i]
          /\ broadcasts'[m] = Played(n)
          /\ broadcasts' \in Seq(Next1)
      BY <2>2, <2>3, <3>1
    <3>4. ToSet(broadcasts') = ToSet(broadcasts) \cup {Played(n)}
      BY <3>3 DEF ToSet
    <3>5. {Played(f) : f \in Owed(n)} = {Played(f) : f \in Owed(frame_no)} \cup {Played(n)}
      BY <3>2
    <3>6. ASSUME NEW i \in DOMAIN broadcasts', NEW j \in DOMAIN broadcasts', i < j
          PROVE  broadcasts'[i].frame_no < broadcasts'[j].frame_no
      <4>1. i \in DOMAIN broadcasts
        BY <3>3, <3>6
      <4>2. CASE j = m
        <5>1. broadcasts'[j].frame_no = n
          BY <3>3, <4>2 DEF Played
        <5>2. broadcasts'[i].frame_no \in 1 .. frame_no
          BY <2>4, <3>3, <4>1
        <5> QED  BY <1>2, <5>1, <5>2
      <4>3. CASE j # m
        <5>1. j \in DOMAIN broadcasts
          BY <3>3, <4>3
        <5> QED  BY <2>7, <3>3, <3>6, <4>1, <5>1
      <4> QED  BY <4>2, <4>3
    <3> QED  BY <2>6, <2>7, <3>3, <3>4, <3>5, <3>6
  <2> QED  BY <2>8, <2>9
<1>5. Next1 = {Played(f) : f \in 1 .. frame_no}'
  BY <1>1 DEF Played, Sent
<1>6. (Ahead <= MaxFrames => PlayedAsSent') => PlayedAsSent'
  BY DEF PlayedAsSent
<1>. QED  BY <1>1, <1>2, <1>3, <1>4, <1>5, <1>6 DEF PlayedInv

\* Nothing is sent and nothing is played at the start.
LEMMA PlayedStart ==
    ASSUME Init
    PROVE  PlayedInv
<1>1. /\ frame_no = 0 /\ buffer = <<>> /\ sent = <<>> /\ broadcasts = <<>>
      /\ DOMAIN buffer = {} /\ DOMAIN sent = {} /\ DOMAIN broadcasts = {} /\ 1 .. frame_no = {}
  BY DEF Init
<1>2. AsSent
  BY <1>1 DEF AsSent
<1>3. PlayedAsSent
  BY <1>1 DEF PlayedAsSent, ToSet
<1>. QED  BY <1>1, <1>2, <1>3 DEF PlayedInv

\* Every step of the room keeps it.
LEMMA PlayedNext ==
    ASSUME PlayedInv, [ReplayNext]_replayVars
    PROVE  PlayedInv'
<1>1. CASE UNCHANGED <<frame_no, buffer, broadcasts, sent>>
  BY <1>1 DEF PlayedInv, AsSent, Played, Sent, PlayedAsSent
<1>2. CASE PlayFrame
  <2>1. UNCHANGED sent /\ (Tick \/ UNCHANGED <<frame_no, buffer, broadcasts, sent>>)
    BY <1>2 DEF PlayFrame, TimerFires
  <2> QED  BY <1>1, <2>1, PlayedOnTick
<1>3. CASE Requests
  <2>1. CASE StartGame \/ StopGame
    BY <1>1, <2>1 DEF StartGame, StopGame
  <2>2. ASSUME NEW p \in Player, NEW i \in Input, NEW f \in 1 .. InputBound,
               f <= frame_no + Ahead, SendInput(p, f, i)
        PROVE  PlayedInv'
    <3>1. f \in Nat /\ f >= 1
      BY FrameConstants
    <3> QED  BY <2>2, <3>1, PlayedOnSend
  <2> QED  BY <1>3, <2>1, <2>2 DEF Requests
<1>4. CASE UNCHANGED replayVars
  BY <1>1, <1>4 DEF replayVars, vars
<1>. QED  BY <1>2, <1>3, <1>4 DEF ReplayNext

\* Each frame somebody sent an input for in time is played once, in its place and
\* with the last input of every player, if nobody is further ahead than the buffer
\* is long (AddInput, Tick): the frames it drops are those already played.
THEOREM PlayedAsItWasSent == ReplaySpec => []PlayedAsSent
<1>1. ReplayInit => PlayedInv
  BY PlayedStart DEF ReplayInit
<1>2. PlayedInv /\ [ReplayNext]_replayVars => PlayedInv'
  BY PlayedNext
<1>3. PlayedInv => PlayedAsSent
  BY DEF PlayedInv
<1>. QED  BY <1>1, <1>2, <1>3, PTL DEF ReplaySpec

\* The tick that Stop left in the timer queue plays no frame (running_).
THEOREM StoppedGameIsStill == ReplaySpec => StoppedIsStill
<1>1. [ReplayNext]_replayVars =>
         [phase = "stopped" => UNCHANGED <<frame_no, frame_history, broadcasts>>]_vars
  BY DEF ReplayNext, PlayFrame, TimerFires, Requests, StartGame, StopGame, SendInput,
         replayVars, vars
<1>. QED  BY <1>1, PTL DEF ReplaySpec, StoppedIsStill

-----------------------------------------------------------------------------
(* Who comes back comes nearer *)

\* ReconcileNears, of one coordinate
Way(a, b) == IF a < b THEN b - a ELSE a - b
Nears(old, new, to) ==
    /\ Way(new, to) <= Way(old, to)
    /\ Alpha * Way(old, to) >= 10 => Way(new, to) < Way(old, to)

\* static_cast drops the tenths.
LEMMA TruncatedTenths ==
    ASSUME NEW n \in Int
    PROVE  /\ Truncated(n) \in Int
           /\ n >= 0 => 10 * Truncated(n) <= n /\ n < 10 * Truncated(n) + 10
           /\ n < 0 => 10 * Truncated(n) >= n /\ n > 10 * Truncated(n) - 10
BY DEF Truncated

\* To drop them, in the direction of zero, leads past neither end of the way, and
\* leaves some of a step of one or more: for every alpha of ReconcileState.
LEMMA NearerNears ==
    ASSUME NEW a \in Int, NEW b \in Int
    PROVE  Nears(a, Nearer(a, b), b)
<1> DEFINE there == Alpha * (b - a)
           back == Alpha * (a - b)
           v == 10 * a + there
           t == Truncated(v)
<1>1. /\ there \in Int /\ back \in Int
      /\ a <= b => 0 <= there /\ there <= 10 * (b - a)
      /\ b <= a => 0 <= back /\ back <= 10 * (a - b)
      /\ back = -there
  <2>1. \/ Alpha = 1 \/ Alpha = 2 \/ Alpha = 3 \/ Alpha = 4 \/ Alpha = 5
        \/ Alpha = 6 \/ Alpha = 7 \/ Alpha = 8 \/ Alpha = 9 \/ Alpha = 10
    BY ReplayConstants
  <2> QED  BY <2>1
<1>2. Nearer(a, b) = t
  BY DEF Nearer
<1>3. /\ a <= b => Alpha * Way(a, b) = there
      /\ b <= a => Alpha * Way(a, b) = back
  BY DEF Way
<1> HIDE DEF there, back, t
<1>4. /\ t \in Int
      /\ v >= 0 => 10 * t <= v /\ v < 10 * t + 10
      /\ v < 0 => 10 * t >= v /\ v > 10 * t - 10
  BY <1>1, TruncatedTenths DEF t
<1>5. CASE a <= b
  <2>1. a <= t /\ t <= b /\ (there >= 10 => a < t)
    BY <1>1, <1>4, <1>5
  <2>2. /\ Way(t, b) = b - t
        /\ Way(a, b) = b - a
    BY <1>4, <1>5, <2>1 DEF Way
  <2> QED  BY <1>2, <1>3, <1>4, <1>5, <2>1, <2>2 DEF Nears
<1>6. CASE b <= a
  <2>1. b <= t /\ t <= a /\ (back >= 10 => t < a)
    BY <1>1, <1>4, <1>6
  <2>2. /\ Way(t, b) = t - b
        /\ Way(a, b) = a - b
    BY <1>4, <1>6, <2>1 DEF Way
  <2> QED  BY <1>2, <1>3, <1>4, <1>6, <2>1, <2>2 DEF Nears
<1>. QED  BY <1>5, <1>6

\* A tick forgets nobody, and moves whom it moves to integers.
LEMMA TickedState ==
    ASSUME NEW st, GameState(st), NEW inputs
    PROVE  /\ GameState(TickLogic(st, inputs))
           /\ DOMAIN st.players \subseteq DOMAIN TickLogic(st, inputs).players
<1> DEFINE new == TickLogic(st, inputs).players
           all == DOMAIN st.players \cup DOMAIN inputs
<1>1. new = [p \in all |-> IF p \in DOMAIN inputs
                           THEN ApplyMove(PosIn(st, p), ParseMoveDir(inputs[p])) ELSE PosIn(st, p)]
  BY DEF TickLogic
<1>2. \A p : PosIn(st, p) \in Position
  BY DEF PosIn, GameState, Position, Origin
<1>3. ASSUME NEW pos \in Position, NEW dir
      PROVE  ApplyMove(pos, dir) \in Position
  BY <1>3 DEF ApplyMove, Position
<1> HIDE DEF new
<1>4. DOMAIN new = all
  BY <1>1
<1>5. \A p \in all : new[p] \in Position
  BY <1>1, <1>2, <1>3
<1>. QED  BY <1>4, <1>5 DEF GameState, new

\* There is a state more with every tick, and later states know more.
LEMMA StatesNext ==
    ASSUME StatesInv, [ReplayNext]_replayVars
    PROVE  StatesInv'
<1>1. CASE UNCHANGED <<frame_no, game, states>>
  BY <1>1 DEF StatesInv, ToSet
<1>2. CASE PlayFrame /\ frame_no' # frame_no
  <2> DEFINE n == frame_no + 1
             inputs == frame_history'[Len(frame_history')].inputs
  <2>1. /\ frame_no' = n /\ frame_no \in Nat /\ n \in Nat
        /\ game' = TickLogic(game, inputs) /\ states' = Append(states, game')
    BY <1>2 DEF PlayFrame, TimerFires, Tick, StatesInv
  <2> HIDE DEF inputs
  <2>2. GameState(game)' /\ DOMAIN game.players \subseteq DOMAIN game'.players
    <3>1. GameState(game)
      BY DEF StatesInv
    <3>2. /\ GameState(TickLogic(game, inputs))
          /\ DOMAIN game.players \subseteq DOMAIN TickLogic(game, inputs).players
      BY <3>1, TickedState
    <3> QED  BY <2>1, <3>2 DEF GameState
  <2>3. /\ states' \in Seq(ToSet(states) \cup {game'})
        /\ Len(states') = n /\ DOMAIN states' = 1 .. n
        /\ \A f \in 1 .. frame_no : states'[f] = states[f]
        /\ states'[n] = game'
    <3>1. states \in Seq(ToSet(states) \cup {game'}) /\ Len(states) = frame_no
      BY DEF StatesInv
    <3> QED  BY <2>1, <3>1
  <2>4. states' \in Seq(ToSet(states'))
    <3>1. \A f \in 1 .. n : states'[f] \in ToSet(states')
      BY <2>3 DEF ToSet
    <3> QED  BY <2>1, <2>3, <3>1, IsASeq
  <2>5. ASSUME NEW f \in 1 .. n
        PROVE  /\ GameState(states'[f])
               /\ DOMAIN states'[f].players \subseteq DOMAIN game'.players
    <3>1. CASE f = n
      BY <2>2, <2>3, <3>1 DEF GameState
    <3>2. CASE f # n
      <4>1. f \in 1 .. frame_no /\ states'[f] = states[f]
        BY <2>1, <2>3, <3>2
      <4>2. GameState(states[f]) /\ DOMAIN states[f].players \subseteq DOMAIN game.players
        BY <4>1 DEF StatesInv
      <4> QED  BY <2>2, <4>1, <4>2
    <3> QED  BY <3>1, <3>2
  <2>6. \A f \in 1 .. n : GameState(states[f])'
    BY <2>5 DEF GameState
  <2> QED  BY <2>1, <2>2, <2>3, <2>4, <2>5, <2>6 DEF StatesInv
<1>3. CASE PlayFrame /\ frame_no' = frame_no
  BY <1>1, <1>3 DEF PlayFrame, gameVars
<1>4. CASE Requests /\ UNCHANGED gameVars
  BY <1>1, <1>4 DEF Requests, StartGame, StopGame, SendInput, gameVars
<1>5. CASE UNCHANGED replayVars
  BY <1>1, <1>5 DEF replayVars, vars, gameVars
<1>. QED  BY <1>2, <1>3, <1>4, <1>5 DEF ReplayNext

\* What StatesInv says is enough.
LEMMA StatesNear ==
    ASSUME StatesInv
    PROVE  ReconcileNears
<1> SUFFICES ASSUME NEW f \in 0 .. frame_no
             PROVE  LET before == StateAt(f)
                        after  == ReconcileState(before, game)
                    IN  /\ DOMAIN after.players = DOMAIN game.players
                        /\ \A p \in DOMAIN game.players :
                              p \in DOMAIN before.players =>
                                 /\ Nears(before.players[p].x, after.players[p].x, game.players[p].x)
                                 /\ Nears(before.players[p].y, after.players[p].y, game.players[p].y)
  BY DEF ReconcileNears, Nears, Way
<1> DEFINE before == StateAt(f)
           after == ReconcileState(before, game)
<1>1. GameState(game) /\ GameState(before) /\ DOMAIN before.players \subseteq DOMAIN game.players
  <2>1. CASE f = 0
    BY <2>1 DEF StateAt, NoState, GameState, StatesInv
  <2>2. CASE f # 0
    <3>1. f \in 1 .. frame_no
      BY <2>2 DEF StatesInv
    <3> QED  BY <2>2, <3>1 DEF StateAt, StatesInv
  <2> QED  BY <2>1, <2>2
<1> HIDE DEF before
<1>2. /\ DOMAIN after.players = DOMAIN before.players \cup DOMAIN game.players
      /\ \A p \in DOMAIN before.players \cap DOMAIN game.players :
            after.players[p] = [x |-> Nearer(before.players[p].x, game.players[p].x),
                                y |-> Nearer(before.players[p].y, game.players[p].y)]
  BY DEF ReconcileState
<1> HIDE DEF after
<1>3. DOMAIN after.players = DOMAIN game.players
  BY <1>1, <1>2
<1>4. ASSUME NEW p \in DOMAIN game.players, p \in DOMAIN before.players
      PROVE  /\ Nears(before.players[p].x, after.players[p].x, game.players[p].x)
             /\ Nears(before.players[p].y, after.players[p].y, game.players[p].y)
  <2>1. /\ before.players[p].x \in Int /\ before.players[p].y \in Int
        /\ game.players[p].x \in Int /\ game.players[p].y \in Int
    BY <1>1, <1>4 DEF GameState, Position
  <2>2. /\ after.players[p].x = Nearer(before.players[p].x, game.players[p].x)
        /\ after.players[p].y = Nearer(before.players[p].y, game.players[p].y)
    <3>1. after.players[p] = [x |-> Nearer(before.players[p].x, game.players[p].x),
                              y |-> Nearer(before.players[p].y, game.players[p].y)]
      BY <1>2, <1>4
    <3> QED  BY <3>1
  <2> QED  BY <2>1, <2>2, NearerNears
<1>. QED  BY <1>3, <1>4 DEF before, after

\* Whoever comes back at any earlier state and reconciles knows every player and is
\* nowhere further away than before, on both sides of the origin (ReconcileState).
THEOREM ReconcilingComesNearer == ReplaySpec => []ReconcileNears
<1>1. ReplayInit => StatesInv
  BY DEF ReplayInit, Init, StatesInv, NoState, GameState, ToSet
<1>2. StatesInv /\ [ReplayNext]_replayVars => StatesInv'
  BY StatesNext
<1>3. StatesInv => ReconcileNears
  BY StatesNear
<1>. QED  BY <1>1, <1>2, <1>3, PTL DEF ReplaySpec

-----------------------------------------------------------------------------
(* The way back, record by record *)

\* Frames before the oldest record of the history
Forgotten == frame_no - Len(frame_history)
RecordOf(f) == frame_history[f - Forgotten]

\* The states after the last of n frames
LastStates(n, sts) == [f \in {g \in 1 .. n : n - g < MaxSnapshots} |-> sts[f]]

\* The history has the records of the last frames, as many as it can keep, the
\* state after a frame is its record played on the state before it, and the
\* snapshots are the last states.
ExactInv ==
    /\ frame_no \in Nat
    /\ states \in Seq(ToSet(states)) /\ Len(states) = frame_no
    /\ frame_history \in Seq(ToSet(frame_history))
    /\ Len(frame_history) = IF frame_no < MaxHistory THEN frame_no ELSE MaxHistory
    /\ \A f \in Forgotten + 1 .. frame_no :
          /\ RecordOf(f).frame_no = f
          /\ states[f] = ReplayFrame(StateAt(f - 1), RecordOf(f))
    /\ \A f \in 1 .. frame_no : states[f].frame_no = f
    /\ game = StateAt(frame_no)
    /\ snapshots = LastStates(frame_no, states)

\* So many numbers are there from a to b.
LEMMA CountBetween ==
    ASSUME NEW a \in Int, NEW b \in Int, a <= b + 1
    PROVE  Cardinality(a .. b) = b - a + 1
<1>1. Cardinality(a .. b) = IF a > b THEN 0 ELSE b - a + 1
  BY FS_Interval
<1>2. CASE a > b
  BY <1>1, <1>2
<1>3. CASE ~(a > b)
  BY <1>1, <1>3
<1>. QED  BY <1>2, <1>3

\* The state after the records at the indices in T, of at most three
First3(st, recs, T) == IF 1 \in T THEN ReplayFrame(st, recs[1]) ELSE st
Second3(st, recs, T) ==
    IF 2 \in T THEN ReplayFrame(First3(st, recs, T), recs[2]) ELSE First3(st, recs, T)
Through(st, recs, T) ==
    IF 3 \in T THEN ReplayFrame(Second3(st, recs, T), recs[3]) ELSE Second3(st, recs, T)

\* What FoldLeft computes: the last of the records in T is played last.
After(st, recs, g, T) ==
    IF T = {} THEN st ELSE ReplayFrame(g[T \ {Max(T)}], recs[Max(T)])

Fold(st, recs) == CHOOSE g : g = [T \in SUBSET DOMAIN recs |-> After(st, recs, g, T)]

LEMMA FoldIs ==
    ASSUME NEW st, NEW recs
    PROVE  FoldLeft(ReplayFrame, st, recs) = Fold(st, recs)[DOMAIN recs]
BY DEF FoldLeft, MapThenFoldSet, Fold, After

LEMMA LastIsMax ==
    ASSUME NEW T \in SUBSET (1 .. 3), NEW k \in T, \A i \in T : i <= k
    PROVE  Max(T) = k
<1>1. k \in Int /\ \A i \in T : i \in Int
  OBVIOUS
<1>2. k \in T /\ \A y \in T : k >= y
  BY <1>1
<1>3. \A x \in T : (\A y \in T : x >= y) => x = k
  BY <1>1, <1>2
<1>. QED  BY <1>2, <1>3 DEF Max

\* What Through says of one set it says of the set without its last index.
LEMMA ThroughAfter ==
    ASSUME NEW st, NEW recs, NEW T \in SUBSET (1 .. 3), NEW g,
           \A X \in SUBSET T : g[X] = Through(st, recs, X)
    PROVE  Through(st, recs, T) = After(st, recs, g, T)
<1> DEFINE rest(k) == T \ {k}
<1>0. \A i \in T : i = 1 \/ i = 2 \/ i = 3
  OBVIOUS
<1>1. CASE 3 \in T
  <2>1. Max(T) = 3
    BY <1>1, LastIsMax
  <2>2. g[rest(3)] = Through(st, recs, rest(3))
    OBVIOUS
  <2>3. Through(st, recs, rest(3)) = Second3(st, recs, T)
    BY DEF Through, Second3, First3
  <2> QED  BY <1>1, <2>1, <2>2, <2>3 DEF Through, After
<1>2. CASE 3 \notin T /\ 2 \in T
  <2>1. Max(T) = 2
    BY <1>0, <1>2, LastIsMax
  <2>2. g[rest(2)] = Through(st, recs, rest(2))
    OBVIOUS
  <2>3. Through(st, recs, rest(2)) = First3(st, recs, T)
    BY <1>2 DEF Through, Second3, First3
  <2> QED  BY <1>2, <2>1, <2>2, <2>3 DEF Through, Second3, After
<1>3. CASE 3 \notin T /\ 2 \notin T /\ 1 \in T
  <2>1. Max(T) = 1
    BY <1>0, <1>3, LastIsMax
  <2>2. g[rest(1)] = Through(st, recs, rest(1))
    OBVIOUS
  <2>3. Through(st, recs, rest(1)) = st
    BY <1>3 DEF Through, Second3, First3
  <2> QED  BY <1>3, <2>1, <2>2, <2>3 DEF Through, Second3, First3, After
<1>4. CASE 3 \notin T /\ 2 \notin T /\ 1 \notin T
  <2>1. T = {}
    BY <1>0, <1>4
  <2> QED  BY <1>4, <2>1 DEF Through, Second3, First3, After
<1>. QED  BY <1>1, <1>2, <1>3, <1>4

\* The state after the first k records
Played3(st, recs, k) == Fold(st, recs)[1 .. k]

\* An answer of GetCatchUpFrames has at most three records.
LEMMA FoldOfThree ==
    ASSUME NEW st, NEW recs, NEW m \in 0 .. 3, DOMAIN recs = 1 .. m
    PROVE  /\ Played3(st, recs, 0) = st
           /\ \A k \in 1 .. m :
                 Played3(st, recs, k) = ReplayFrame(Played3(st, recs, k - 1), recs[k])
           /\ FoldLeft(ReplayFrame, st, recs) = Played3(st, recs, m)
<1> DEFINE D == DOMAIN recs
           h == [T \in SUBSET D |-> Through(st, recs, T)]
           F == Fold(st, recs)
<1>1. D = 1 .. m /\ D \subseteq 1 .. 3
  OBVIOUS
<1> HIDE DEF D
<1>2. ASSUME NEW T \in SUBSET D
      PROVE  h[T] = After(st, recs, h, T)
  <2>1. \A X \in SUBSET T : h[X] = Through(st, recs, X)
    OBVIOUS
  <2>2. h[T] = Through(st, recs, T)
    OBVIOUS
  <2> HIDE DEF h
  <2>3. T \in SUBSET (1 .. 3)
    BY <1>1
  <2>4. Through(st, recs, T) = After(st, recs, h, T)
    BY <2>1, <2>3, ThroughAfter
  <2> QED  BY <2>2, <2>4
<1>3. h = [T \in SUBSET D |-> After(st, recs, h, T)]
  <2> DEFINE w == [T \in SUBSET D |-> After(st, recs, h, T)]
  <2> SUFFICES h = w
    OBVIOUS
  <2> QED  BY <1>2
<1>4. F = [T \in SUBSET D |-> After(st, recs, F, T)]
  <2> HIDE DEF h
  <2> QED  BY <1>3 DEF Fold, D
<1> HIDE DEF h, F
<1>5. \A T \in SUBSET D : F[T] = After(st, recs, F, T)
  BY <1>4
<1> DEFINE played(k) == F[1 .. k]
<1>6. played(0) = st
  <2>1. 1 .. 0 = {} /\ {} \in SUBSET D /\ 0 \in 0 .. m
    OBVIOUS
  <2>2. F[{}] = st
    BY <1>5, <2>1 DEF After
  <2> QED  BY <2>1, <2>2
<1>7. ASSUME NEW k \in 1 .. m
      PROVE  played(k) = ReplayFrame(played(k - 1), recs[k])
  <2> DEFINE T == 1 .. k
  <2>1. /\ T \in SUBSET D /\ T \in SUBSET (1 .. 3) /\ T # {} /\ k \in T
        /\ \A i \in T : i <= k
        /\ T \ {k} = 1 .. k - 1 /\ k - 1 \in 0 .. m /\ k \in 0 .. m
    BY <1>1
  <2>2. played(k) = F[T] /\ played(k - 1) = F[1 .. k - 1]
    BY <2>1
  <2> HIDE DEF T, played
  <2>3. Max(T) = k
    BY <2>1, LastIsMax
  <2> QED  BY <1>5, <2>1, <2>2, <2>3 DEF After
<1>8. played(m) = F[D]
  BY <1>1
<1> HIDE DEF played
<1>9. FoldLeft(ReplayFrame, st, recs) = played(m)
  BY <1>8, FoldIs DEF F, D
<1>. QED  BY <1>6, <1>7, <1>9 DEF played, F, Played3

\* So many are asked for and the history has them: frame after frame from the
\* client's on.
LEMMA CatchUpIs ==
    ASSUME ExactInv, NEW f \in 0 .. frame_no, frame_no - f <= MaxHistory,
           NEW m \in 0 .. 3, m = IF f + 3 < frame_no THEN 3 ELSE frame_no - f
    PROVE  /\ DOMAIN CatchUp(f) = 1 .. m
           /\ \A k \in 1 .. m : CatchUp(f)[k] = RecordOf(f + k)
<1> DEFINE last == IF f + 3 < frame_no THEN f + 3 ELSE frame_no
           wanted == {i \in DOMAIN frame_history : frame_history[i].frame_no \in f + 1 .. last}
           nth(n) == CHOOSE i \in wanted : Cardinality({j \in wanted : j <= i}) = n
           lo == f + 1 - Forgotten
           hi == f + m - Forgotten
           n == Len(frame_history)
<1>1. /\ frame_no \in Nat /\ n \in Nat /\ n <= frame_no /\ DOMAIN frame_history = 1 .. n
      /\ Forgotten \in Nat /\ Forgotten <= f /\ Forgotten = frame_no - n
      /\ last = f + m /\ f + m <= frame_no
  BY FrameConstants DEF ExactInv, Forgotten
<1>2. lo \in Int /\ hi \in Int /\ lo >= 1 /\ hi <= n /\ hi = lo + m - 1 /\ lo <= hi + 1
  BY <1>1
<1>3. \A i \in 1 .. n : frame_history[i].frame_no = i + Forgotten
  <2> SUFFICES ASSUME NEW i \in 1 .. n
               PROVE  frame_history[i].frame_no = i + Forgotten
    OBVIOUS
  <2> DEFINE g == i + Forgotten
  <2>1. g \in Forgotten + 1 .. frame_no /\ g - Forgotten = i
    BY <1>1
  <2> HIDE DEF g
  <2>2. RecordOf(g).frame_no = g
    BY <2>1 DEF ExactInv
  <2> QED  BY <2>1, <2>2 DEF RecordOf, g
<1>4. CatchUp(f) = [k \in 1 .. Cardinality(wanted) |-> frame_history[nth(k)]]
  BY DEF CatchUp
<1>5. wanted = lo .. hi
  <2>1. wanted = {i \in 1 .. n : i + Forgotten \in f + 1 .. f + m}
    BY <1>1, <1>3
  <2> QED  BY <1>1, <1>2, <2>1
<1> HIDE DEF wanted, lo, hi, n
<1>6. Cardinality(wanted) = m
  BY <1>2, <1>5, CountBetween
<1>7. ASSUME NEW k \in 1 .. m
      PROVE  nth(k) = lo + k - 1
  <2>1. ASSUME NEW i \in wanted
        PROVE  Cardinality({j \in wanted : j <= i}) = i - lo + 1
    <3>1. i \in Int /\ lo <= i /\ i <= hi /\ lo \in Int /\ hi \in Int
      BY <1>2, <1>5
    <3>2. {j \in lo .. hi : j <= i} = lo .. i
      BY <3>1
    <3>3. Cardinality(lo .. i) = i - lo + 1
      BY <3>1, CountBetween
    <3> QED  BY <1>5, <3>2, <3>3
  <2> DEFINE i == lo + k - 1
  <2>2. i \in wanted /\ i - lo + 1 = k
    BY <1>2, <1>5
  <2>3. \A j \in wanted : j - lo + 1 = k => j = i
    BY <1>2, <1>5
  <2> HIDE DEF i
  <2>4. i \in wanted /\ Cardinality({j \in wanted : j <= i}) = k
    BY <2>1, <2>2
  <2>5. \A j \in wanted : Cardinality({l \in wanted : l <= j}) = k => j = i
    BY <2>1, <2>3
  <2>6. nth(k) = i
    BY <2>4, <2>5
  <2> QED  BY <2>6 DEF i
<1>8. ASSUME NEW k \in 1 .. m
      PROVE  CatchUp(f)[k] = RecordOf(f + k)
  <2>1. CatchUp(f)[k] = frame_history[nth(k)]
    BY <1>4, <1>6
  <2>2. lo + k - 1 = (f + k) - Forgotten
    <3>1. f \in Int /\ k \in Int /\ Forgotten \in Int
      BY <1>1
    <3> QED  BY <3>1 DEF lo
  <2>3. nth(k) = lo + k - 1
    BY <1>7
  <2> HIDE DEF nth
  <2> QED  BY <2>1, <2>2, <2>3 DEF RecordOf
<1>. QED  BY <1>4, <1>6, <1>8

\* Frames have the number of the state they lead to.
LEMMA StateNumber ==
    ASSUME ExactInv, NEW f \in 0 .. frame_no
    PROVE  StateAt(f).frame_no = f
<1>1. CASE f = 0
  BY <1>1 DEF StateAt, NoState
<1>2. CASE f # 0
  <2>1. f \in 1 .. frame_no
    BY <1>2 DEF ExactInv
  <2> QED  BY <1>2, <2>1 DEF StateAt, ExactInv
<1>. QED  BY <1>1, <1>2

\* What ExactInv says is enough.
LEMMA ExactIsExact ==
    ASSUME ExactInv
    PROVE  ReplayExact
<1> SUFFICES ASSUME NEW f \in 0 .. frame_no,
                    frame_no - f < MaxSnapshots, frame_no - f <= MaxHistory
             PROVE  LET client == RestoreFromSnapshot(f)
                        back   == FoldLeft(ReplayFrame, client, CatchUp(f))
                    IN  /\ client = StateAt(f)
                        /\ f < frame_no => back.frame_no > f
                        /\ back = StateAt(back.frame_no)
                        /\ back.frame_no = frame_no => CompareStates(game, back) = {}
  BY DEF ReplayExact
<1> DEFINE client == RestoreFromSnapshot(f)
           back == FoldLeft(ReplayFrame, client, CatchUp(f))
           m == IF f + 3 < frame_no THEN 3 ELSE frame_no - f
<1>1. frame_no \in Nat /\ m \in 0 .. 3 /\ f + m <= frame_no /\ (f < frame_no => m >= 1)
  BY DEF ExactInv
<1>2. client = StateAt(f)
  <2>1. snapshots = [g \in {h \in 1 .. frame_no : frame_no - h < MaxSnapshots} |-> states[g]]
    BY DEF ExactInv, LastStates
  <2>2. CASE f = 0
    <3>1. f \notin DOMAIN snapshots
      BY <2>1, <2>2
    <3> QED  BY <2>2, <3>1 DEF RestoreFromSnapshot, StateAt
  <2>3. CASE f # 0
    <3>1. f \in DOMAIN snapshots /\ snapshots[f] = states[f]
      BY <1>1, <2>1, <2>3
    <3> QED  BY <2>3, <3>1 DEF RestoreFromSnapshot, StateAt
  <2> QED  BY <2>2, <2>3
<1>3. DOMAIN CatchUp(f) = 1 .. m /\ \A k \in 1 .. m : CatchUp(f)[k] = RecordOf(f + k)
  BY <1>1, CatchUpIs
<1> HIDE DEF client, m
<1> DEFINE played(k) == Played3(client, CatchUp(f), k)
<1>4. /\ played(0) = client
      /\ \A k \in 1 .. m : played(k) = ReplayFrame(played(k - 1), CatchUp(f)[k])
      /\ back = played(m)
  BY <1>1, <1>3, FoldOfThree
<1> HIDE DEF back, played
<1>5. ASSUME NEW k \in 1 .. m, played(k - 1) = StateAt(f + k - 1)
      PROVE  played(k) = StateAt(f + k)
  <2> DEFINE g == f + k
  <2>1. g \in Forgotten + 1 .. frame_no /\ g - 1 = f + k - 1 /\ g # 0
    <3>1. Forgotten <= f /\ Forgotten \in Nat
      BY FrameConstants DEF ExactInv, Forgotten
    <3> QED  BY <1>1, <3>1
  <2> HIDE DEF g
  <2>2. states[g] = ReplayFrame(StateAt(g - 1), RecordOf(g))
    BY <2>1 DEF ExactInv
  <2>3. played(k) = ReplayFrame(played(k - 1), RecordOf(g))
    BY <1>3, <1>4 DEF g
  <2> QED  BY <1>5, <2>1, <2>2, <2>3 DEF StateAt, g
<1>6. back = StateAt(f + m)
  <2> DEFINE Right(k) == played(k) = StateAt(f + k)
  <2>1. Right(0)
    BY <1>2, <1>4
  <2>2. ASSUME NEW k \in 1 .. m, Right(k - 1) PROVE Right(k)
    <3>1. f + (k - 1) = f + k - 1
      BY <1>1
    <3> QED  BY <1>5, <2>2, <3>1
  <2> HIDE DEF Right
  <2>3. m >= 1 => Right(1)
    <3>1. 1 - 1 = 0
      OBVIOUS
    <3> QED  BY <1>1, <2>1, <2>2, <3>1
  <2>4. m >= 2 => Right(2)
    <3>1. 2 - 1 = 1
      OBVIOUS
    <3> QED  BY <1>1, <2>2, <2>3, <3>1
  <2>5. m >= 3 => Right(3)
    <3>1. 3 - 1 = 2
      OBVIOUS
    <3> QED  BY <1>1, <2>2, <2>4, <3>1
  <2>6. Right(m)
    BY <1>1, <2>1, <2>3, <2>4, <2>5
  <2> QED  BY <1>4, <2>6 DEF Right
<1>7. back.frame_no = f + m
  BY <1>1, <1>6, StateNumber
<1>8. f < frame_no => back.frame_no > f
  BY <1>1, <1>7
<1>9. back = StateAt(back.frame_no)
  BY <1>6, <1>7
<1>10. back.frame_no = frame_no => CompareStates(game, back) = {}
  <2>1. back.frame_no = frame_no => back = game
    BY <1>9 DEF ExactInv
  <2>2. CompareStates(game, game) = {}
    BY DEF CompareStates
  <2> QED  BY <2>1, <2>2
<1>. QED  BY <1>2, <1>8, <1>9, <1>10 DEF client, back

\* A snapshot more, and the oldest goes when there are too many.
LEMMA SnapshotsMove ==
    ASSUME NEW n \in Nat, NEW sts, NEW st, st.frame_no = n + 1,
           NEW new, new[n + 1] = st, \A f \in 1 .. n : new[f] = sts[f]
    PROVE  SaveSnapshot(LastStates(n, sts), st) = LastStates(n + 1, new)
<1> DEFINE snaps == LastStates(n, sts)
           top == n + 1
           frames == DOMAIN snaps \cup {top}
           kept == {f \in frames : Quantify(frames, LAMBDA g : g > f) < MaxSnapshots}
           last == {g \in 1 .. top : top - g < MaxSnapshots}
<1>1. MaxSnapshots \in Nat /\ MaxSnapshots >= 1 /\ top \in Nat /\ top >= 1
  BY ReplayConstants
<1>2. /\ DOMAIN snaps = {g \in 1 .. n : n - g < MaxSnapshots}
      /\ \A g \in DOMAIN snaps : snaps[g] = sts[g]
  BY DEF LastStates
<1>3. \A f \in frames : {g \in frames : g > f} = f + 1 .. top
  BY <1>1, <1>2
<1>4. \A f \in frames : f \in Int /\ f <= top
  BY <1>1, <1>2
<1> HIDE DEF frames, snaps
<1>5. ASSUME NEW f \in frames
      PROVE  Quantify(frames, LAMBDA g : g > f) = top - f
  <2> DEFINE lo == f + 1
  <2>1. lo \in Int /\ top \in Int /\ lo <= top + 1 /\ top - lo + 1 = top - f
    BY <1>1, <1>4
  <2>2. {g \in frames : g > f} = lo .. top
    BY <1>3
  <2> HIDE DEF lo, top
  <2>3. Cardinality(lo .. top) = top - lo + 1
    BY <2>1, CountBetween
  <2> QED  BY <2>1, <2>2, <2>3 DEF Quantify
<1>6. kept = {f \in frames : top - f < MaxSnapshots}
  BY <1>5
<1>7. kept = last
  <2> DEFINE near == {f \in frames : top - f < MaxSnapshots}
  <2>1. ASSUME NEW f
        PROVE  f \in near <=> f \in last
    <3>1. f \in frames <=> f = top \/ (f \in 1 .. n /\ n - f < MaxSnapshots)
      BY <1>2 DEF frames
    <3>2. f \in near <=> f \in frames /\ top - f < MaxSnapshots
      OBVIOUS
    <3>3. f \in last <=> f \in 1 .. top /\ top - f < MaxSnapshots
      OBVIOUS
    <3> HIDE DEF near, last, frames
    <3>4. CASE f = top
      BY <1>1, <3>1, <3>2, <3>3, <3>4
    <3>5. CASE f # top
      BY <1>1, <3>1, <3>2, <3>3, <3>5
    <3> QED  BY <3>4, <3>5
  <2> HIDE DEF kept, last, near
  <2>2. near = last
    BY <2>1
  <2> QED  BY <1>6, <2>2 DEF near
<1>8. SaveSnapshot(snaps, st) = [f \in kept |-> IF f = top THEN st ELSE snaps[f]]
  BY DEF SaveSnapshot, frames, snaps
<1>9. ASSUME NEW f \in last
      PROVE  (IF f = top THEN st ELSE snaps[f]) = new[f]
  <2>1. CASE f = top
    BY <2>1
  <2>2. CASE f # top
    <3>1. f \in 1 .. n /\ n - f < MaxSnapshots
      BY <1>1, <2>2
    <3> QED  BY <1>2, <2>2, <3>1
  <2> QED  BY <2>1, <2>2
<1> HIDE DEF kept, last
<1>10. SaveSnapshot(snaps, st) = [f \in last |-> new[f]]
  BY <1>7, <1>8, <1>9
<1>. QED  BY <1>10 DEF last, top, LastStates, snaps

\* Nothing is recorded at the start.
LEMMA ExactStart ==
    ASSUME ReplayInit
    PROVE  ExactInv
<1>1. /\ frame_no = 0 /\ frame_history = <<>> /\ states = <<>> /\ game = NoState
      /\ snapshots = <<>>
  BY DEF ReplayInit, Init
<1>2. Len(frame_history) = 0 /\ Forgotten = 0 /\ 0 < MaxHistory
  <2>1. Len(frame_history) = 0
    BY <1>1
  <2>2. MaxHistory \in Nat /\ MaxHistory # 0
    BY FrameConstants
  <2>3. Forgotten = 0
    <3>1. Forgotten = frame_no - Len(frame_history)
      BY DEF Forgotten
    <3> QED  BY <1>1, <2>1, <3>1
  <2> QED  BY <2>1, <2>2, <2>3
<1>3. snapshots = LastStates(frame_no, states)
  <2>1. {g \in 1 .. frame_no : frame_no - g < MaxSnapshots} = {}
    BY <1>1
  <2> QED  BY <1>1, <2>1 DEF LastStates
<1>4. states \in Seq(ToSet(states)) /\ Len(states) = 0
  BY <1>1
<1>5. frame_history \in Seq(ToSet(frame_history))
  BY <1>1
<1>6. game = StateAt(frame_no)
  BY <1>1 DEF StateAt
<1>7. 1 .. 0 = {} /\ 0 + 1 .. 0 = {}
  OBVIOUS
<1>. QED  BY <1>1, <1>2, <1>3, <1>4, <1>5, <1>6, <1>7 DEF ExactInv

\* A frame more: its record is the last of the history, its state the last.
LEMMA ExactOnFrame ==
    ASSUME ExactInv, PlayFrame, frame_no' # frame_no
    PROVE  ExactInv'
<1> DEFINE n == frame_no
           top == n + 1
           len == Len(frame_history)
           record == [frame_no |-> top, inputs |-> InputsOf(buffer, top)]
           longer == Append(frame_history, record)
           some == ToSet(frame_history) \cup {record}
           older == n - len
           older2 == top - Len(frame_history')
<1>1. /\ n \in Nat /\ top \in Nat /\ top >= 1 /\ frame_no' = top
      /\ frame_history' = Latest(longer)
      /\ game' = TickLogic(game, frame_history'[Len(frame_history')].inputs)
      /\ snapshots' = SaveSnapshot(snapshots, game') /\ states' = Append(states, game')
  BY DEF PlayFrame, TimerFires, Tick, ExactInv
<1>2. /\ frame_history \in Seq(some) /\ len \in Nat /\ record \in some
      /\ len = IF n < MaxHistory THEN n ELSE MaxHistory
  BY <1>1, FrameConstants DEF ExactInv
<1>3. /\ longer \in Seq(some) /\ Len(longer) = len + 1
      /\ \A k \in 1 .. len : longer[k] = frame_history[k]
      /\ longer[len + 1] = record
  BY <1>2
<1>4. /\ MaxHistory \in Nat /\ MaxHistory >= 1 /\ MaxSnapshots \in Nat /\ MaxSnapshots >= 1
  BY FrameConstants, ReplayConstants
<1> HIDE DEF record, longer, some
\* The history, by the numbers of its frames
<1>5. /\ frame_history' \in Seq(some)
      /\ Len(frame_history') = IF top < MaxHistory THEN top ELSE MaxHistory
      /\ \A f \in older2 + 1 .. n : frame_history'[f - older2] = frame_history[f - older]
      /\ \A f \in older2 + 1 .. n : f \in older + 1 .. n
      /\ frame_history'[top - older2] = record /\ top - older2 = Len(frame_history')
  <2>1. CASE Len(longer) > MaxHistory
    <3>1. frame_history' = Tail(longer) /\ len = MaxHistory /\ n >= MaxHistory
      BY <1>1, <1>2, <1>3, <1>4, <2>1 DEF Latest
    <3>2. /\ frame_history' \in Seq(some) /\ Len(frame_history') = len
          /\ \A k \in 1 .. len : frame_history'[k] = longer[k + 1]
      BY <1>2, <1>3, <3>1
    <3>3. older2 = older + 1 /\ older \in Nat /\ older2 \in Nat
      BY <1>1, <1>2, <3>1, <3>2
    <3>4. ASSUME NEW f \in older2 + 1 .. n
          PROVE  frame_history'[f - older2] = frame_history[f - older] /\ f \in older + 1 .. n
      <4>1. /\ f - older2 \in 1 .. len /\ (f - older2) + 1 = f - older /\ f - older \in 1 .. len
            /\ f \in older + 1 .. n
        BY <1>1, <1>2, <3>3
      <4> QED  BY <1>3, <3>2, <4>1
    <3>5. top - older2 = len /\ len \in 1 .. len
      BY <1>1, <1>2, <1>4, <3>1, <3>2
    <3>6. frame_history'[len] = record
      BY <1>3, <3>2, <3>5
    <3>7. Len(frame_history') = IF top < MaxHistory THEN top ELSE MaxHistory
      BY <1>1, <1>4, <3>1, <3>2
    <3> HIDE DEF older, older2, top, len
    <3> QED  BY <3>2, <3>4, <3>5, <3>6, <3>7
  <2>2. CASE ~(Len(longer) > MaxHistory)
    <3>1. frame_history' = longer /\ len = n /\ n < MaxHistory
      BY <1>1, <1>2, <1>3, <1>4, <2>2 DEF Latest
    <3>2. older = 0 /\ older2 = 0
      BY <1>1, <1>2, <1>3, <3>1
    <3>3. ASSUME NEW f \in older2 + 1 .. n
          PROVE  frame_history'[f - older2] = frame_history[f - older] /\ f \in older + 1 .. n
      <4>1. f \in 1 .. len /\ f - older2 = f /\ f - older = f
        BY <1>1, <3>1, <3>2
      <4> QED  BY <1>3, <3>1, <3>2, <4>1
    <3>4. top - older2 = top /\ top = len + 1
      BY <1>1, <3>1, <3>2
    <3> QED  BY <1>1, <1>3, <1>4, <3>1, <3>3, <3>4
  <2> QED  BY <2>1, <2>2
<1>6. game' = ReplayFrame(game, record) /\ game'.frame_no = top
  <2>1. game' = ReplayFrame(game, record)
    BY <1>1, <1>5 DEF ReplayFrame
  <2>2. game = StateAt(n) /\ n \in 0 .. frame_no
    BY <1>1 DEF ExactInv
  <2>3. game.frame_no = n
    BY <2>2, StateNumber
  <2> QED  BY <2>1, <2>3 DEF ReplayFrame, TickLogic
<1>7. /\ states' \in Seq(ToSet(states) \cup {game'}) /\ Len(states') = top
      /\ \A f \in 1 .. n : states'[f] = states[f]
      /\ states'[top] = game'
  <2>1. states \in Seq(ToSet(states) \cup {game'}) /\ Len(states) = n
    BY DEF ExactInv
  <2> QED  BY <1>1, <2>1
<1>8. states' \in Seq(ToSet(states')) /\ frame_history' \in Seq(ToSet(frame_history'))
  <2>1. states' \in Seq(ToSet(states'))
    <3>1. \A f \in 1 .. Len(states') : states'[f] \in ToSet(states')
      BY <1>7 DEF ToSet
    <3> QED  BY <1>7, <3>1, IsASeq
  <2>2. frame_history' \in Seq(ToSet(frame_history'))
    <3>1. frame_history' \in Seq(some)
      BY <1>5
    <3>2. \A f \in 1 .. Len(frame_history') : frame_history'[f] \in ToSet(frame_history')
      BY <3>1 DEF ToSet
    <3> QED  BY <3>1, <3>2, IsASeq
  <2> QED  BY <2>1, <2>2
<1>9. snapshots' = LastStates(top, states')
  <2> DEFINE new == states'
             st == game'
  <2>1. st.frame_no = n + 1 /\ new[n + 1] = st /\ \A f \in 1 .. n : new[f] = states[f]
    BY <1>6, <1>7
  <2>2. snapshots' = SaveSnapshot(LastStates(n, states), st)
    BY <1>1 DEF ExactInv
  <2> HIDE DEF new, st
  <2>3. SaveSnapshot(LastStates(n, states), st) = LastStates(n + 1, new)
    BY <1>1, <2>1, SnapshotsMove
  <2> QED  BY <2>2, <2>3 DEF new
\* States before the new one
<1>10. \A f \in 0 .. n : StateAt(f)' = StateAt(f)
  <2> SUFFICES ASSUME NEW f \in 0 .. n
               PROVE  (IF f = 0 THEN NoState ELSE states'[f]) = IF f = 0 THEN NoState ELSE states[f]
    BY DEF StateAt
  <2>1. f # 0 => f \in 1 .. n
    BY <1>1
  <2> QED  BY <1>7, <2>1
<1>11. (game = StateAt(frame_no))'
  <2>1. frame_no' # 0 /\ states'[frame_no'] = game'
    BY <1>1, <1>7
  <2> QED  BY <2>1 DEF StateAt
<1>12. \A f \in 1 .. top : states'[f].frame_no = f
  <2> SUFFICES ASSUME NEW f \in 1 .. top
               PROVE  states'[f].frame_no = f
    OBVIOUS
  <2>1. CASE f = top
    BY <1>6, <1>7, <2>1
  <2>2. CASE f # top
    <3>1. f \in 1 .. n
      BY <1>1, <2>2
    <3> QED  BY <1>7, <3>1 DEF ExactInv
  <2> QED  BY <2>1, <2>2
<1>13. Forgotten' = older2 /\ Forgotten = older /\ older2 \in Nat /\ older \in Nat
  BY <1>1, <1>2, <1>4, <1>5 DEF Forgotten
<1>14. ASSUME NEW f \in older2 + 1 .. top
       PROVE  /\ frame_history'[f - older2].frame_no = f
              /\ states'[f] = ReplayFrame(StateAt(f - 1)', frame_history'[f - older2])
  <2>1. CASE f = top
    <3>1. f - 1 = n /\ n \in 0 .. n
      BY <1>1, <2>1
    <3>2. StateAt(f - 1)' = StateAt(n)
      BY <1>10, <3>1
    <3>3. game = StateAt(n)
      BY DEF ExactInv
    <3>4. frame_history'[f - older2] = record /\ states'[f] = game'
      BY <1>5, <1>7, <2>1
    <3>5. record.frame_no = f
      BY <2>1 DEF record
    <3> QED  BY <1>6, <3>2, <3>3, <3>4, <3>5
  <2>2. CASE f # top
    <3>1. f \in older2 + 1 .. n /\ f \in 1 .. n /\ f - 1 \in 0 .. n
      BY <1>1, <1>13, <2>2
    <3>2. f \in Forgotten + 1 .. frame_no /\ frame_history'[f - older2] = RecordOf(f)
      BY <1>5, <1>13, <3>1 DEF RecordOf
    <3>3. RecordOf(f).frame_no = f /\ states[f] = ReplayFrame(StateAt(f - 1), RecordOf(f))
      BY <3>2 DEF ExactInv
    <3>4. StateAt(f - 1)' = StateAt(f - 1) /\ states'[f] = states[f]
      BY <1>7, <1>10, <3>1
    <3> QED  BY <3>2, <3>3, <3>4
  <2> QED  BY <2>1, <2>2
<1>15. \A f \in older2 + 1 .. top :
          /\ (RecordOf(f).frame_no = f)'
          /\ (states[f] = ReplayFrame(StateAt(f - 1), RecordOf(f)))'
  BY <1>13, <1>14 DEF RecordOf, ReplayFrame
<1>16. (snapshots = LastStates(frame_no, states))'
  BY <1>1, <1>9 DEF LastStates
<1> HIDE DEF older, older2, top, n, len
<1>. QED  BY <1>1, <1>5, <1>7, <1>8, <1>11, <1>12, <1>13, <1>15, <1>16 DEF ExactInv

LEMMA ExactNext ==
    ASSUME ExactInv, [ReplayNext]_replayVars
    PROVE  ExactInv'
<1>1. CASE UNCHANGED <<frame_no, frame_history, game, states, snapshots>>
  <2>1. Forgotten' = Forgotten
    BY <1>1 DEF Forgotten
  <2>2. \A f : RecordOf(f)' = RecordOf(f) /\ StateAt(f)' = StateAt(f)
    BY <1>1, <2>1 DEF RecordOf, StateAt
  <2>3. ToSet(states)' = ToSet(states) /\ ToSet(frame_history)' = ToSet(frame_history)
    BY <1>1 DEF ToSet
  <2>4. \A f, g : ReplayFrame(StateAt(f), RecordOf(g))' = ReplayFrame(StateAt(f), RecordOf(g))
    BY <2>2 DEF ReplayFrame
  <2>5. LastStates(frame_no, states)' = LastStates(frame_no, states)
    BY <1>1 DEF LastStates
  <2> QED  BY <1>1, <2>1, <2>2, <2>3, <2>4, <2>5 DEF ExactInv
<1>2. CASE PlayFrame /\ frame_no' # frame_no
  BY <1>2, ExactOnFrame
<1>3. CASE PlayFrame /\ frame_no' = frame_no
  <2>1. phase # "running"
    BY <1>3 DEF PlayFrame, TimerFires, Tick, ExactInv
  <2> QED  BY <1>1, <1>3, <2>1 DEF PlayFrame, TimerFires, gameVars
<1>4. CASE Requests /\ UNCHANGED gameVars
  BY <1>1, <1>4 DEF Requests, StartGame, StopGame, SendInput, gameVars
<1>5. CASE UNCHANGED replayVars
  BY <1>1, <1>5 DEF replayVars, vars, gameVars
<1>. QED  BY <1>2, <1>3, <1>4, <1>5 DEF ReplayNext

\* A client that lost frames and is within reach of the snapshots and the history
\* gets back to the very state the owner has, answer by answer (GetCatchUpFrames,
\* SaveSnapshot, tickLogic): for any inputs, and any number of either kept.
THEOREM WhoComesBackIsExact == ReplaySpec => []ReplayExact
<1>1. ReplayInit => ExactInv
  BY ExactStart
<1>2. ExactInv /\ [ReplayNext]_replayVars => ExactInv'
  BY ExactNext
<1>3. ExactInv => ReplayExact
  BY ExactIsExact
<1>. QED  BY <1>1, <1>2, <1>3, PTL DEF ReplaySpec

=============================================================================
