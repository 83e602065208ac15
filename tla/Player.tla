------------------------------- MODULE Player -------------------------------
(***************************************************************************)
(* The recording that plays on while the reader moves between articles     *)
(* (web/src/media/now-playing.ts over audio.ts and visual.ts): media       *)
(* elements report by events what has already happened to them, one of     *)
(* them is kept outside the page, cards come and go around it, and the     *)
(* place reached is kept for the next visit.                               *)
(*                                                                         *)
(* An article is the set of recordings it shows, and a recording has one   *)
(* slot: the one in play, or that of the card on screen.  Video is native  *)
(* video; the frames of providers, the seat a picture moves in, volume,    *)
(* speed and the media session are left out.                               *)
(***************************************************************************)
EXTENDS Naturals, Sequences, FiniteSets

CONSTANTS
  Recording,
  Video,         \* those with a picture, and controls of their own
  Quiet,         \* not a recording
  MaxVisits,     \* bound: articles opened
  MaxGestures,   \* bound: what the reader does to the players
  MaxFaults      \* bound: media errors

PlayerAssumption ==
  /\ Video \subseteq Recording /\ Quiet \notin Recording
  /\ {MaxVisits, MaxGestures, MaxFaults} \subseteq Nat

VARIABLES
  article, mounted,   \* recordings on screen; their cards are enhanced
  own,                \* cards that drive the slot they made
  slot, playing,      \* [Recording -> slot]; `live`, or Quiet
  resume,             \* sessionStorage: the place reached
  visits, gestures, faults

playerVars == <<article, mounted, own, slot, playing, resume, visits, gestures,
                faults>>
pageVars == <<article, mounted, own, visits>>

Phase == {"idle", "loading", "playing", "paused", "ended", "error"}
Event == {"play", "playing", "pause", "ended", "error", "rejected"}
Start == 0
Underway == 1
End == 2
Slot == [phase : Phase,          \* what the slot last heard
         paused : BOOLEAN, begun : BOOLEAN, failed : BOOLEAN,
         place : Start..End,     \* of the element
         promised : BOOLEAN,     \* play() of the latest attempt not settled
         events : Seq(Event),    \* on their way
         home : BOOLEAN,         \* its card is on screen
         timed : BOOLEAN,        \* its length is known, archived or loaded
         resumed : BOOLEAN, disposed : BOOLEAN]

\* A card's element as `connect` finds it: native controls may have started it.
Fresh(started, timed) ==
  [phase |-> IF started THEN "playing" ELSE "idle", paused |-> ~started,
   begun |-> started, failed |-> FALSE, place |-> Start, promised |-> FALSE,
   events |-> <<>>, home |-> TRUE, timed |-> timed,
   resumed |-> FALSE, disposed |-> FALSE]

\* `dispose` and `releaseElement`: silent, without a source.
Released(s) ==
  [s EXCEPT !.paused = TRUE, !.begun = FALSE, !.failed = FALSE, !.place = Start,
            !.promised = FALSE, !.events = <<>>, !.disposed = TRUE]
None == [Released(Fresh(FALSE, FALSE)) EXCEPT !.home = FALSE]

Usable(r) == ~slot[r].disposed
Sounding(s) == ~s.paused /\ ~s.failed

Init ==
  /\ article \in SUBSET Recording /\ mounted = FALSE /\ own = {}
  /\ slot = [r \in Recording |-> None] /\ playing = Quiet
  /\ resume = [r \in Recording |-> Start]
  /\ visits = 0 /\ gestures = 0 /\ faults = 0

-----------------------------------------------------------------------------
(* What a slot does with what it hears.                                    *)

\* Mutant: a tick at the start is remembered.
EveryTick(r, s, force) == IF s.phase = "idle" THEN resume[r] ELSE s.place
\* `remember`: a tick at the start must not erase a place saved before.
Remembered(r, s, force) ==
  IF s.phase = "idle" \/ (~force /\ s.place = Start) THEN resume[r] ELSE s.place

\* `tryResume`, once, and not of a player already underway.
Resumed(r, s) ==
  IF s.resumed \/ ~s.timed THEN s
  ELSE [s EXCEPT !.resumed = TRUE,
          !.place = IF @ = Start /\ resume[r] = Underway THEN Underway ELSE @]

\* `retire` of whatever plays, keeping its place.
\* Mutant: the place is read from an element that is already released.
ForgottenPlace ==
  [r \in Recording |->
     IF r = playing THEN Remembered(r, Released(slot[r]), TRUE) ELSE resume[r]]
PlaceAtRetirement ==
  [r \in Recording |->
     IF r = playing THEN Remembered(r, slot[r], TRUE) ELSE resume[r]]
\* Mutant: the one in play is only forgotten.
Forgotten(r, s) == [slot EXCEPT ![r] = s]
RetiredBut(r, s) ==
  [q \in Recording |-> IF q = r THEN s
                       ELSE IF q = playing THEN Released(slot[q]) ELSE slot[q]]

\* One recording at a time: the one in play is retired.
Promote(r, s) ==
  /\ slot' = RetiredBut(r, Resumed(r, s))
  /\ resume' = PlaceAtRetirement
  /\ playing' = r

\* A failure puts audio back into its card.
Restore(r, s) ==
  /\ slot' = [slot EXCEPT ![r] = s]
  /\ playing' = Quiet
  /\ UNCHANGED resume

\* `accept`: the slot of `r` is now `s`.
Accept(r, s) ==
  IF playing # r
  THEN IF s.phase \in {"playing", "loading"} THEN Promote(r, s)
       ELSE /\ slot' = [slot EXCEPT ![r] = s]
            /\ UNCHANGED <<resume, playing>>
  ELSE IF s.phase = "error" /\ r \notin Video /\ s.home THEN Restore(r, s)
  ELSE /\ slot' = [slot EXCEPT ![r] = Resumed(r, s)]
       /\ resume' = [resume EXCEPT ![r] =
            Remembered(r, Resumed(r, s), s.phase \in {"paused", "ended"})]
       /\ UNCHANGED playing

-----------------------------------------------------------------------------
(* Controls.                                                               *)

Began(s) ==
  [s EXCEPT !.paused = FALSE, !.begun = FALSE,
            !.place = IF @ = End THEN Start ELSE @,
            !.events = Append(@, "play")]
Stopped(s) == [s EXCEPT !.paused = TRUE, !.begun = FALSE,
                        !.events = IF s.paused THEN @ ELSE Append(@, "pause")]
\* A new attempt does not care how an older one ended.  Bound: there is Room, so
\* nothing else is on its way then.
Attempted(s) == [s EXCEPT !.events = IF @ = <<"rejected">> THEN <<>> ELSE @]
\* An element that failed is loaded again, from the start.
Reloaded(s) == IF s.failed THEN [s EXCEPT !.failed = FALSE, !.place = Start] ELSE s

\* `Playback.toggle`.
Toggled(before) ==
  LET s == Attempted(before) IN
  IF ~s.paused \/ s.phase = "loading"
  THEN [Stopped(s) EXCEPT !.phase = "paused", !.promised = FALSE]
  ELSE [Began(Reloaded(s)) EXCEPT !.phase = "loading", !.promised = TRUE]

Gesture == gestures < MaxGestures /\ gestures' = gestures + 1
Room(r) == Len(slot[r].events) < 2    \* bound: events on their way

\* The button of a card.  A card that made its slot promotes it before it
\* toggles: one that was retired under the reader's eyes is brought back
\* without a source, and what plays is stopped for it.
Press(r) ==
  /\ mounted /\ r \in article \ Video /\ Room(r)
  /\ Gesture
  /\ LET s == Resumed(r, slot[r]) IN
     IF r \in own /\ playing # r /\ s.paused /\ s.phase # "loading"
     THEN IF s.disposed THEN Promote(r, s)
          ELSE /\ slot' = RetiredBut(r, Toggled(s))
               /\ resume' = [PlaceAtRetirement EXCEPT ![r] =
                               Remembered(r, Toggled(s), FALSE)]
               /\ playing' = r
     ELSE IF slot[r].disposed THEN UNCHANGED <<slot, playing, resume>>
     ELSE Accept(r, Toggled(slot[r]))
  /\ UNCHANGED <<pageVars, faults>>

\* The bar, and the media keys.
PressBar ==
  /\ playing # Quiet /\ Usable(playing) /\ Room(playing)
  /\ Gesture
  /\ Accept(playing, Toggled(slot[playing]))
  /\ UNCHANGED <<pageVars, faults>>

\* The element's own controls: of a picture, or of audio after an error.
PressNative(r) ==
  /\ Usable(r) /\ Room(r) /\ slot[r].paused /\ ~slot[r].failed
  /\ r \in Video \/ (r \in article /\ slot[r].phase = "error")
  /\ Gesture
  /\ slot' = [slot EXCEPT ![r] = Began(@)]
  /\ UNCHANGED <<pageVars, playing, resume, faults>>

\* Paused by them, or by the system: play() that has not settled is rejected.
Interrupted(s) ==
  [Stopped(s) EXCEPT !.promised = FALSE,
                     !.events = IF s.promised THEN Append(@, "rejected") ELSE @]
PauseNative(r) ==
  /\ Usable(r) /\ Room(r) /\ Sounding(slot[r])
  /\ Gesture
  /\ slot' = [slot EXCEPT ![r] = Interrupted(@)]
  /\ UNCHANGED <<pageVars, playing, resume, faults>>

\* Closing the bar, or leaving the site.
Dismiss ==
  /\ playing # Quiet
  /\ Gesture
  /\ slot' = RetiredBut(Quiet, None)
  /\ resume' = PlaceAtRetirement
  /\ playing' = Quiet
  /\ UNCHANGED <<pageVars, faults>>

-----------------------------------------------------------------------------
(* The element.                                                            *)

\* loadedmetadata, before anything is heard
Loads(r) ==
  /\ Usable(r) /\ ~slot[r].timed /\ ~slot[r].failed
  /\ Accept(r, [slot[r] EXCEPT !.timed = TRUE])
  /\ UNCHANGED <<pageVars, gestures, faults>>

Audible(s) == [s EXCEPT !.begun = TRUE, !.promised = FALSE,
                       !.events = Append(@, "playing")]
Plays(r) ==
  /\ Usable(r) /\ Room(r) /\ slot[r].timed
  /\ Sounding(slot[r]) /\ ~slot[r].begun
  /\ slot' = [slot EXCEPT ![r] = Audible(@)]
  /\ UNCHANGED <<pageVars, playing, resume, gestures, faults>>

\* timeupdate
Advances(r) ==
  /\ Usable(r) /\ slot[r].begun /\ slot[r].place = Start
  /\ Accept(r, [slot[r] EXCEPT !.place = Underway])
  /\ UNCHANGED <<pageVars, gestures, faults>>

Ends(r) ==
  /\ Usable(r) /\ slot[r].begun /\ slot[r].place = Underway
  /\ slot[r].events = <<>>
  /\ slot' = [slot EXCEPT ![r] = [@ EXCEPT !.place = End, !.paused = TRUE,
                !.begun = FALSE, !.events = <<"pause", "ended">>]]
  /\ UNCHANGED <<pageVars, playing, resume, gestures, faults>>

\* An error, heard of while it sounds, leaves the element unpaused.
Broken(s) ==
  [s EXCEPT !.failed = TRUE, !.begun = FALSE, !.promised = FALSE,
            !.events = @ \o IF s.promised THEN <<"error", "rejected">>
                           ELSE <<"error">>]
Breaks(r) ==
  /\ faults < MaxFaults
  /\ Usable(r) /\ Room(r) /\ Sounding(slot[r])
  /\ slot' = [slot EXCEPT ![r] = Broken(@)]
  /\ faults' = faults + 1
  /\ UNCHANGED <<pageVars, playing, resume, gestures>>

PhaseAfter == [play |-> "loading", playing |-> "playing", ended |-> "ended",
               error |-> "error", rejected |-> "error"]
\* Mutant: only the button can pause.
PauseMissed(e, s) == IF e = "pause" THEN s.phase ELSE PhaseAfter[e]
Heard(e, s) ==
  IF e # "pause" THEN PhaseAfter[e]
  ELSE IF s.place = End THEN "ended" ELSE "paused"

Hear(r) ==
  /\ Usable(r) /\ slot[r].events # <<>>
  /\ LET e == Head(slot[r].events)
         s == [slot[r] EXCEPT !.events = Tail(@)]
     IN  Accept(r, [s EXCEPT !.phase = Heard(e, s)])
  /\ UNCHANGED <<pageVars, gestures, faults>>

-----------------------------------------------------------------------------
(* The page.                                                               *)

\* Mutant: the page takes everything with it.
AllEnd(r) == r \in Recording
\* What never started, or is no longer in play, ends with its page.
EndsWithPage(r) == r # playing

\* Another article.  The one in play loses its card.  Bound: a recording that
\* was brought back without a source is not met again while it is in play.
Leave ==
  /\ visits < MaxVisits
  /\ visits' = visits + 1
  /\ article' \in SUBSET {r \in Recording : r = playing => Usable(r)}
  /\ mounted' = FALSE /\ own' = {}
  /\ slot' = [r \in Recording |-> IF EndsWithPage(r) THEN None
                                  ELSE [slot[r] EXCEPT !.home = FALSE]]
  /\ UNCHANGED <<playing, resume, gestures, faults>>

\* Mutant: a returned card gets a player of its own.
NeverAttaches == article
\* The card of the recording in play attaches to it; the others get a slot.
Makes == article \ {playing}

\* The media chunk arrives, the length of some recordings is archived.
Mount ==
  /\ ~mounted
  /\ mounted' = TRUE
  /\ own' = Makes
  /\ \E archived \in SUBSET Makes :
       slot' = [r \in Recording |->
         IF r \in Makes THEN Fresh(FALSE, r \in archived)
         ELSE IF r \in article THEN [slot[r] EXCEPT !.home = TRUE] ELSE slot[r]]
  /\ UNCHANGED <<article, visits, playing, resume, gestures, faults>>

\* `connect` finds an element that was started meanwhile, and promotes it,
\* before or after the card of the recording in play has attached to that.
MountStarted(r) ==
  /\ ~mounted /\ r \in article \ {playing}
  /\ Gesture
  /\ mounted' = TRUE
  /\ own' \in {article, Makes}
  /\ slot' = [q \in Recording |->
       IF q = r THEN Resumed(r, Fresh(TRUE, TRUE))
       ELSE IF q \in own' THEN Fresh(FALSE, TRUE)
       ELSE IF q = playing THEN Released(slot[q]) ELSE slot[q]]
  /\ resume' = PlaceAtRetirement
  /\ playing' = r
  /\ UNCHANGED <<article, visits, faults>>

Next ==
  \/ PressBar \/ Dismiss \/ Leave \/ Mount
  \/ \E r \in Recording :
       \/ Press(r) \/ PressNative(r) \/ PauseNative(r) \/ Loads(r) \/ Plays(r)
       \/ Advances(r) \/ Ends(r) \/ Breaks(r) \/ Hear(r) \/ MountStarted(r)

Spec == Init /\ [][Next]_playerVars

-----------------------------------------------------------------------------

TypeOK ==
  /\ article \subseteq Recording /\ mounted \in BOOLEAN /\ own \subseteq article
  /\ \A r \in Recording : slot[r] \in Slot
  /\ playing \in Recording \cup {Quiet}
  /\ resume \in [Recording -> Start..End]

\* "One recording at a time" (now-playing.ts:5): whatever sounds, and has told
\* its slot so, is the recording the bar shows.
OneRecording ==
  \A r \in Recording :
    Sounding(slot[r]) /\ slot[r].events = <<>> => playing = r

\* Once its events have arrived, a player shows what its element does.
PhaseTruthful ==
  \A r \in Recording :
    Usable(r) /\ slot[r].events = <<>> =>
      (slot[r].phase \in {"loading", "playing"} <=> Sounding(slot[r]))

\* A place saved is lost only by a replay from the start, or when playing is
\* given up before the length is known; and a recording that is stopped for
\* another, or dismissed, leaves the place it had reached (`remember`).
PlaceKept ==
  [][/\ \A r \in Recording :
          resume[r] = Underway /\ resume'[r] = Start =>
            /\ slot[r].place = Start
            /\ \/ slot[r].resumed
               \/ /\ ~slot[r].timed
                  /\ slot'[r].phase = "paused" \/ playing' # r
     /\ playing # Quiet =>
          LET stopped == playing' # playing
                         /\ (playing' = Quiet => slot'[playing].disposed)
          IN  stopped /\ slot[playing].place = Underway =>
                resume'[playing] = Underway]_playerVars

\* "A podcast ... that has started keeps playing across those page changes"
\* (docs/client.md:45), and a card that comes back finds it as it was.
StartedKeepsPlaying ==
  [][visits' # visits \/ (mounted' # mounted /\ gestures' = gestures) =>
       /\ playing' = playing
       /\ playing # Quiet =>
            slot'[playing] = [slot[playing] EXCEPT !.home = slot'[playing].home]
     ]_playerVars
=============================================================================
