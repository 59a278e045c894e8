--------------------------------- MODULE Visit ---------------------------------
(***************************************************************************)
(* One page load of the application and the two things that may end it by  *)
(* reloading: a consent to advertising that is taken back, and a new build  *)
(* of the application.  What storage holds outlives the page.               *)
(***************************************************************************)
CONSTANTS Places,
          Unsafe,     \* UNSAFE_URL: the workspace, the request builder, the ceremony
          AdFree,     \* AdSlot.FORBIDDEN
          Settings,   \* where a choice can be changed
          Files, None

Assumptions == /\ Unsafe \cup AdFree \cup {Settings} \subseteq Places
               /\ None \notin Places \cup {"granted", "denied", "consent", "update"}

VARIABLES
    place,
    required, ads,       \* the config: ask in this region; advertising, "unknown" before it arrives
    stored, writable,    \* localStorage, and whether the browser lets it be written
    choice, mode,        \* the page's own idea of the choice; Google's Consent Mode
    latch, running,      \* the provider's script is asked for; it runs, until the page is gone
    filled,              \* the slot of this place has had its ad
    leaving,             \* what has asked for a reload; None
    ready, activating,   \* a new build waits; it is being activated
    going,               \* the dashboard's uploads, which outlive the place they began at
    lost                 \* an update has cut somebody's work off: a history variable

vars == <<place, required, ads, stored, writable, choice, mode, latch, running, filled, leaving,
          ready, activating, going, lost>>
consent == <<stored, choice, mode>>
tag     == <<latch, running, filled>>
update  == <<ready, activating, going, lost>>
given   == <<required, writable>>

Choices == {"granted", "denied"}

CanLoadAds == ads = "on" /\ choice # "denied" /\ (choice = "granted" \/ ~required)
MustAsk    == ads = "on" /\ required /\ choice = None

-----------------------------------------------------------------------------
(* Advertising.                                                             *)

ConfigArrives(a) ==
    /\ ads' = a
    /\ UNCHANGED <<place, given, consent, tag, leaving, update>>

Visible == CanLoadAds /\ place \notin AdFree

\* The script is asked for once a page.
LoadProviderScript == latch' = TRUE /\ running' = (running \/ ~latch)

\* The effect of the slot at this place.
Fill ==
    /\ Visible /\ ~filled /\ filled' = TRUE
    /\ LoadProviderScript
    /\ UNCHANGED <<place, given, ads, consent, leaving, update>>

\* Google is told of a choice, after the "denied" it was told when the page began.
Push ==
    /\ choice \notin {None, mode} /\ mode' = choice
    /\ UNCHANGED <<place, given, ads, stored, choice, tag, leaving, update>>

\* A script that runs goes on running when its element is dropped: the page is loaded again.
UnloadProviderScript == latch' = FALSE /\ UNCHANGED running
Teardown == UnloadProviderScript /\ leaving' = "consent"

Say_WithoutTeardown(c) ==
    /\ MustAsk \/ place = Settings
    /\ choice' = c /\ stored' = IF writable THEN c ELSE stored
    /\ UNCHANGED <<place, given, ads, mode, tag, leaving, update>>
Say(c) ==
    /\ MustAsk \/ place = Settings
    /\ choice' = c /\ stored' = IF writable THEN c ELSE stored
    /\ IF c = "denied" /\ latch THEN Teardown ELSE UNCHANGED <<latch, running, leaving>>
    /\ UNCHANGED <<place, given, ads, mode, filled, update>>

\* Another tab has its own page and the same storage.
SaidElsewhere(c) ==
    /\ writable /\ stored' = c
    /\ UNCHANGED <<place, given, ads, choice, mode, tag, leaving, update>>

-----------------------------------------------------------------------------
(* A new build.                                                             *)

VersionReady ==
    /\ ready' = TRUE
    /\ UNCHANGED <<place, given, ads, consent, tag, leaving, activating, going, lost>>

Busy(p) == p \in Unsafe \/ going # {}

\* Going anywhere mounts the slot of that place, and is when an update may be taken.
Navigate_HoweverBusy(p) ==
    /\ place' = p /\ filled' = FALSE
    /\ IF ready /\ p \notin Unsafe THEN ready' = FALSE /\ activating' = TRUE
                                   ELSE UNCHANGED <<ready, activating>>
    /\ UNCHANGED <<given, ads, consent, latch, running, leaving, going, lost>>
Navigate(p) ==
    /\ place' = p /\ filled' = FALSE
    /\ IF ready /\ ~Busy(p) THEN ready' = FALSE /\ activating' = TRUE
                            ELSE UNCHANGED <<ready, activating>>
    /\ UNCHANGED <<given, ads, consent, latch, running, leaving, going, lost>>

\* Activated or not, the page is loaded again, wherever the person is by now.
Activated ==
    /\ activating /\ activating' = FALSE
    /\ leaving' = (IF leaving = None THEN "update" ELSE leaving)
    /\ lost' = (lost \/ Busy(place))
    /\ UNCHANGED <<place, given, ads, consent, tag, ready, going>>

UploadFile(f) ==
    /\ f \notin going /\ going' = going \cup {f}
    /\ UNCHANGED <<place, given, ads, consent, tag, leaving, ready, activating, lost>>

Uploaded(f) ==
    /\ f \in going /\ going' = going \ {f}
    /\ UNCHANGED <<place, given, ads, consent, tag, leaving, ready, activating, lost>>

-----------------------------------------------------------------------------
Fresh(c) == /\ ads = "unknown" /\ choice = c /\ mode = "denied"
            /\ latch = FALSE /\ running = FALSE /\ filled = FALSE /\ leaving = None
            /\ ready = FALSE /\ activating = FALSE /\ going = {}

\* The page is gone, and a new one begins from what storage holds.
Reload ==
    /\ leaving # None
    /\ ads' = "unknown" /\ choice' = stored /\ mode' = "denied"
    /\ latch' = FALSE /\ running' = FALSE /\ filled' = FALSE /\ leaving' = None
    /\ ready' = FALSE /\ activating' = FALSE /\ going' = {}
    /\ UNCHANGED <<place, given, stored, lost>>

Init == /\ place \in Places /\ required \in BOOLEAN /\ writable \in BOOLEAN
        /\ stored \in Choices \cup {None} /\ Fresh(stored) /\ lost = FALSE

Next == \/ \E a \in {"on", "off"} : ConfigArrives(a)
        \/ Fill \/ Push \/ VersionReady \/ Activated \/ Reload
        \/ \E c \in Choices : Say(c) \/ SaidElsewhere(c)
        \/ \E p \in Places : Navigate(p)
        \/ \E f \in Files : UploadFile(f) \/ Uploaded(f)
Spec == Init /\ [][Next]_vars

\* Nobody goes on working in the moment an update takes to be activated.
Still == activating /\ activating' => place' = place /\ going' \subseteq going

-----------------------------------------------------------------------------
TypeOK ==
    /\ place \in Places /\ ads \in {"unknown", "on", "off"}
    /\ {stored, choice} \subseteq Choices \cup {None} /\ mode \in Choices
    /\ {required, writable, latch, running, filled, ready, activating, lost} \subseteq BOOLEAN
    /\ leaving \in {None, "consent", "update"} /\ going \subseteq Files

(* A consent taken back is taken back: unless the page is about to be       *)
(* reloaded, the provider's script runs only with a yes, or unasked where   *)
(* no question is required.  (teardown: "Withdrawal has to actually         *)
(* withdraw.")                                                              *)
WithdrawnIsGone ==
    running /\ leaving = None => choice = "granted" \/ (choice = None /\ ~required)

(* A reload for a new build never cuts off an upload, an open edit, a       *)
(* request being built or a ceremony.  (AppUpdateService: "the reload costs *)
(* the visitor nothing they had".)                                          *)
UpdateLosesNothing == ~lost
=============================================================================
