------------------------------ MODULE Thumbnails -------------------------------
(***************************************************************************)
(* The page rail: a tile for every page, each fetching its own preview, and *)
(* one scheduler in which a refusal (429 or 503) met by one of them is      *)
(* written down for all.  Time passes in ticks of a second.                 *)
(***************************************************************************)
EXTENDS Integers

CONSTANTS Tiles, None,
          MaxAttempts,   \* 4
          Waits,         \* how long a refusal may ask to wait: Retry-After, or the doubled second
          MaxVersion     \* versions of the document: a bound of the model

Assumptions == MaxAttempts \in Nat \ {0} /\ Waits \subseteq Nat \ {0}

VARIABLES
    version,   \* of the document on screen
    pause,     \* ThumbnailScheduler.pausedUntil, as the time that is left
    st,        \* what each tile is doing
    wait,      \* the time left of its timer
    tries,     \* how often it has asked
    answer,    \* what the server has answered and the tile has not heard
    url, failed   \* the preview it shows, by version; the retry button

vars == <<version, pause, st, wait, tries, answer, url, failed>>

Near(t) == st[t] # "far"
Jitter == {0, 1}   \* a fraction of a second: rounded either way

-----------------------------------------------------------------------------
\* Subscribing reads the pause, and waits it out or asks at once.
Hold(t, j) == IF pause > 0 THEN wait' = [wait EXCEPT ![t] = pause + j] /\ st' = [st EXCEPT ![t] = "hold"]
              ELSE wait' = [wait EXCEPT ![t] = 0] /\ st' = [st EXCEPT ![t] = "asking"]

\* The tile comes near the viewport, and never leaves it again.
Appear(t, j) ==
    /\ st[t] = "far"
    /\ Hold(t, j) /\ tries' = [tries EXCEPT ![t] = 1]
    /\ UNCHANGED <<version, pause, answer, url, failed>>

\* The document changes: every tile that is near drops what it waits for and starts over.
NewVersion(j) ==
    /\ version < MaxVersion /\ version' = version + 1
    /\ st' = [t \in Tiles |-> IF ~Near(t) THEN "far" ELSE IF pause > 0 THEN "hold" ELSE "asking"]
    /\ wait' = [t \in Tiles |-> IF Near(t) /\ pause > 0 THEN pause + j ELSE 0]
    /\ tries' = [t \in Tiles |-> IF Near(t) THEN 1 ELSE tries[t]]
    /\ answer' = [t \in Tiles |-> None]
    /\ UNCHANGED <<pause, url, failed>>

\* A second goes by for everybody.
Tick ==
    /\ pause > 0 \/ \E t \in Tiles : wait[t] > 0
    /\ pause' = IF pause > 0 THEN pause - 1 ELSE 0
    /\ wait' = [t \in Tiles |-> IF wait[t] > 0 THEN wait[t] - 1 ELSE 0]
    /\ UNCHANGED <<version, st, tries, answer, url, failed>>

\* The hold is over: the tile asks.
HoldOver(t) ==
    /\ st[t] = "hold" /\ wait[t] = 0
    /\ st' = [st EXCEPT ![t] = "asking"]
    /\ UNCHANGED <<version, pause, wait, tries, answer, url, failed>>

Served(t, a) ==
    /\ st[t] = "asking" /\ answer[t] = None
    /\ answer' = [answer EXCEPT ![t] = a]
    /\ UNCHANGED <<version, pause, st, wait, tries, url, failed>>

Shown(t) ==
    /\ st[t] = "asking" /\ answer[t] = "ok"
    /\ st' = [st EXCEPT ![t] = "done"] /\ answer' = [answer EXCEPT ![t] = None]
    /\ url' = [url EXCEPT ![t] = version] /\ failed' = [failed EXCEPT ![t] = FALSE]
    /\ UNCHANGED <<version, pause, wait, tries>>

\* Refused with tries left: the pause is written down for all, and this tile waits it out.
Refused(t, w, j) ==
    /\ st[t] = "asking" /\ answer[t] = "refused" /\ tries[t] < MaxAttempts
    /\ pause' = (IF w > pause THEN w ELSE pause)
    /\ st' = [st EXCEPT ![t] = "backoff"] /\ wait' = [wait EXCEPT ![t] = w + j]
    /\ answer' = [answer EXCEPT ![t] = None]
    /\ UNCHANGED <<version, tries, url, failed>>

\* The retry subscribes again, and so reads the pause again.
Again(t, j) ==
    /\ st[t] = "backoff" /\ wait[t] = 0
    /\ Hold(t, j) /\ tries' = [tries EXCEPT ![t] = @ + 1]
    /\ UNCHANGED <<version, pause, answer, url, failed>>

\* Any other error is an answer; and so is the last refusal.
GiveUp_Never(t) ==
    /\ st[t] = "asking" /\ answer[t] = "error"
    /\ st' = [st EXCEPT ![t] = "done"] /\ answer' = [answer EXCEPT ![t] = None]
    /\ url' = [url EXCEPT ![t] = None] /\ failed' = [failed EXCEPT ![t] = TRUE]
    /\ UNCHANGED <<version, pause, wait, tries>>
GiveUp(t) ==
    /\ st[t] = "asking"
    /\ answer[t] = "error" \/ (answer[t] = "refused" /\ tries[t] = MaxAttempts)
    /\ st' = [st EXCEPT ![t] = "done"] /\ answer' = [answer EXCEPT ![t] = None]
    /\ url' = [url EXCEPT ![t] = None] /\ failed' = [failed EXCEPT ![t] = TRUE]
    /\ UNCHANGED <<version, pause, wait, tries>>

\* The button of a tile that failed.
Retry(t, j) ==
    /\ st[t] = "done" /\ failed[t]
    /\ failed' = [failed EXCEPT ![t] = FALSE]
    /\ Hold(t, j) /\ tries' = [tries EXCEPT ![t] = 1]
    /\ UNCHANGED <<version, pause, answer, url>>

-----------------------------------------------------------------------------
Init == /\ version = 1 /\ pause = 0
        /\ st = [t \in Tiles |-> "far"] /\ wait = [t \in Tiles |-> 0]
        /\ tries = [t \in Tiles |-> 0] /\ answer = [t \in Tiles |-> None]
        /\ url = [t \in Tiles |-> None] /\ failed = [t \in Tiles |-> FALSE]

Next == \/ Tick \/ \E j \in Jitter : NewVersion(j)
        \/ \E t \in Tiles : \/ HoldOver(t) \/ Shown(t) \/ GiveUp(t)
                            \/ \E a \in {"ok", "refused", "error"} : Served(t, a)
                            \/ \E j \in Jitter : Appear(t, j) \/ Again(t, j) \/ Retry(t, j)
                            \/ \E w \in Waits, j \in Jitter : Refused(t, w, j)
Spec == Init /\ [][Next]_vars

\* Time passes; the server answers; a tile does what it has to.  Nobody needs to press a button.
Step(t) == \/ HoldOver(t) \/ Shown(t) \/ GiveUp(t)
           \/ \E j \in Jitter : Again(t, j) \/ \E w \in Waits : Refused(t, w, j)
Answered(t) == \E a \in {"ok", "refused", "error"} : Served(t, a)
FairSpec == Spec /\ WF_vars(Tick) /\ \A t \in Tiles : WF_vars(Step(t)) /\ WF_vars(Answered(t))

-----------------------------------------------------------------------------
TypeOK ==
    /\ st \in [Tiles -> {"far", "hold", "asking", "backoff", "done"}]
    /\ tries \in [Tiles -> 0..MaxAttempts] /\ pause \in Nat /\ wait \in [Tiles -> Nat]
    /\ url \in [Tiles -> 1..version \cup {None}] /\ failed \in [Tiles -> BOOLEAN]

(* "A rail that had run into the 429 sat there apparently still working,    *)
(* for ever": every tile that is near ends with a preview or with the retry *)
(* button, whatever the server refuses and whatever the others meet.        *)
(* (PdfThumbnail.failed, fetch.)                                            *)
TilesEnd == \A t \in Tiles : Near(t) ~> st[t] = "done"
=============================================================================
