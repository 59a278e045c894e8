--------------------------- MODULE MCSignEnvelope ---------------------------
(* Small instances of SignEnvelope. *)
EXTENDS SignEnvelope

CONSTANTS Ann, Bob, Cy, AnnTab, AnnTab2, BobTab, CyTab

\* Ann and Bob in one group; Ann before Bob.
Parallel   == [r \in Recipients |-> 1]
Sequential == [r \in Recipients |-> IF r = Ann THEN 1 ELSE 2]
HolderOf   == [h \in Tabs |-> CASE h \in {AnnTab, AnnTab2} -> Ann
                                [] h = BobTab -> Bob
                                [] OTHER -> Cy]

\* Behaviours cut short, to keep the instances small while another question is
\* asked.  For the ceremony: those that end with the sealing, in which the
\* request is stopped, if at all, by its owner.  For the finalizing: those in
\* which a request begins only when no other is under way but people finishing.
\* And those in which nobody tries to stop it.
Ceremonial == /\ sha = 0 /\ ~late' /\ reports' = {}
              /\ \A h \in Handlers : at'[h] # "decline"
Apart == (\E h \in Handlers : at[h] = "idle" /\ at'[h] # "idle") =>
            \A h \in Handlers :
              \/ at[h] \in {"idle", "claim", "record", "advance", "dispatch"}
              \/ at'[h] = "idle"
Calm  == \A h \in Handlers : at'[h] \notin {"decline", "pause", "cancel", "expire"}

CeremonySpec == Init /\ [][Next /\ Ceremonial]_vars
FinalizeSpec == Init /\ [][Next /\ Apart]_vars
TailSpec     == Init /\ [][Next /\ Apart /\ Calm]_vars /\ Fairness
=============================================================================
