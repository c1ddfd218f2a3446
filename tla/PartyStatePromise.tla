------------------------- MODULE PartyStatePromise -------------------------
(***************************************************************************)
(* What the watch-party sync protocol promises, without heartbeats,        *)
(* channels, handlers or clocks: the Host publishes numbered playback      *)
(* states and each Viewer follows by jumping to ever higher numbers.       *)
(* While the Host user is scrubbing, the current number may be followed    *)
(* as a "hold" whose play flag differs from the published one; the scrub   *)
(* can only end by publishing a new number.                                *)
(***************************************************************************)
EXTENDS Integers

CONSTANTS
    Viewers      \* the nodes that may follow the party

VARIABLES
    published,   \* number (seq) of the Host's current playback state
    playing,     \* play flag of that state
    held,        \* TRUE while the Host user is scrubbing
    following    \* [Viewers -> the state a Viewer follows]; Nothing before it has one

promiseVars == <<published, playing, held, following>>

\* A Viewer without a state: seq -1 is below every published number.
Nothing == [seq |-> -1, playing |-> FALSE]

Init ==
    /\ published = 0
    /\ playing = FALSE
    /\ held = FALSE
    /\ following = [v \in Viewers |-> Nothing]

\* A play, a pause or a settled seek: a new number, and no hold.
Publish ==
    /\ published' = published + 1
    /\ playing' \in BOOLEAN
    /\ held' = FALSE
    /\ UNCHANGED following

\* The Host user starts scrubbing the timeline.
Hold ==
    /\ held' = TRUE
    /\ UNCHANGED <<published, playing, following>>

\* A Viewer jumps forward. At the current number it must agree with the Host,
\* unless the Host is being scrubbed.
Follow(v) ==
    /\ \E s \in [seq : 0..published, playing : BOOLEAN] :
          /\ s.seq > following[v].seq
          /\ s.seq = published /\ ~held => s.playing = playing
          /\ following' = [following EXCEPT ![v] = s]
    /\ UNCHANGED <<published, playing, held>>

\* A Viewer joins afresh or leaves: it forgets what it followed.
Reset(v) ==
    /\ following' = [following EXCEPT ![v] = Nothing]
    /\ UNCHANGED <<published, playing, held>>

Next ==
    \/ Publish
    \/ Hold
    \/ \E v \in Viewers : Follow(v) \/ Reset(v)

Spec == Init /\ [][Next]_promiseVars
=============================================================================
