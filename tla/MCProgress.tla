-------------------------------- MODULE MCProgress --------------------------------
(***************************************************************************)
(* Small instances of what must come to an end, and their fairness.        *)
(***************************************************************************)
EXTENDS Integers, Sequences

CONSTANTS None, x1, x2, y1, y2, j1, j2, v1, e1, d1, u1, w1

LedgerSize  == [i \in {v1, e1} |-> CASE i = v1 -> 6 [] i = e1 -> 13]
LedgerSpace == [i \in {v1, e1} |-> CASE i = v1 -> d1 [] i = e1 -> "export"]

VARIABLES
    part,
    used, blobs, rows, spent, gone, begun, flight, pc, hand, saw, rpc, before, tally, kills,
    tool, phase, picked, typed, cached, results, spare, run,
    screen, meta, values, saved, filled, page, focus, dialog, busy, letterFailed,
    finalizing, attempt, calls, held, consented, turn, me, request,
    version, pause, st, wait, tries, answer, url, railFailed,
    status, kind, base, msg, taskPc, read, next, outRows, ready, lock, vers, cur, blob, doc,
    api, reap

ledgerVars == <<used, blobs, rows, spent, gone, begun, flight, pc, hand, saw, rpc, before,
                tally, kills>>
toolVars == <<tool, phase, picked, typed, cached, results, spare, run>>
letterVars == <<screen, meta, values, saved, filled, page, focus, dialog, busy,
                letterFailed, finalizing, attempt, calls, held, consented, turn, me,
                request>>
railVars == <<version, pause, st, wait, tries, answer, url, railFailed>>
jobVars == <<status, kind, base, msg, taskPc, read, next, outRows, ready, lock, vers, cur,
             blob, doc, api, reap>>
vars == <<part, ledgerVars, toolVars, letterVars, railVars, jobVars>>

Ledger == INSTANCE StorageLedger WITH Items <- {v1, e1}, Size <- LedgerSize, Docs <- {d1},
    Space <- LedgerSpace, Jobs <- {j1}, Uploads <- {u1}, Deleters <- {w1}, Quota <- 20,
    MaxKills <- 1
Tool == INSTANCE ToolPage WITH Files <- {x1, x2}, MaxPicked <- 2, MaxRuns <- 1,
    PageCount <- 2
Letter == INSTANCE CeremonyPage WITH Texts <- {}, Ticks <- {}, Pictures <- {x1},
    Required <- {x1}, Vals <- {y1}, Empty <- y2, MaxPolls <- 1, PageCount <- 1,
    MaxCalls <- 1, failed <- letterFailed
Rail == INSTANCE Thumbnails WITH Tiles <- {x1, x2}, MaxAttempts <- 2, Waits <- {1},
    MaxVersion <- 2, failed <- railFailed
Pipeline == INSTANCE JobPipeline WITH Jobs <- {j1, j2},
    Kinds <- {"version", "report", "split", "merge"}, Ingest <- u1, NoJob <- None, Batch <- 2,
    ReapLive <- FALSE, HardLimit <- 120, LaneLimit <- 120, TimeLimit <- 900,
    DocLockTTL <- 960, pc <- taskPc, rows <- outRows

ASSUME /\ Ledger!Assumptions
       /\ Tool!Assumptions
       /\ Letter!Assumptions
       /\ Rail!Assumptions

-----------------------------------------------------------------------------
\* Each part begins as its module says; what is not the part in question begins in one way.
Init == /\ part \in {"ledger", "tool", "letter", "rail", "jobs"}
        /\ Ledger!Init
        /\ Tool!Init
        /\ part # "tool" => tool = "merge"
        /\ Letter!Init
        /\ part # "letter" => (held[x1] = y2 /\ ~consented /\ ~turn)
        /\ Rail!Init
        /\ Pipeline!Init /\ kind[j1] = kind[j2]
        /\ part # "jobs" => kind[j1] = "version"

\* One job of each kind under every disturbance, and two edits that contend for the lock
\* without: no cancel, no delete, no API process that dies half way through a cancel.
OneJob == status'[j2] = "none"
TwoEdits == /\ kind[j1] = "version" /\ doc' = "live" /\ status'[j1] # "none"
            /\ \A j \in {j1, j2} : api'[j] \in {"idle", "enqueue"}

\* One part moves, as its module and the discipline it states allow.
Next == \/ /\ part = "ledger" /\ Ledger!Next /\ (kills' = 0 \/ Ledger!Apart)
           /\ UNCHANGED <<part, toolVars, letterVars, railVars, jobVars>>
        \/ /\ part = "tool" /\ Tool!Next
           /\ UNCHANGED <<part, ledgerVars, letterVars, railVars, jobVars>>
        \/ /\ part = "letter" /\ Letter!Next
           /\ UNCHANGED <<part, ledgerVars, toolVars, railVars, jobVars>>
        \/ /\ part = "rail" /\ Rail!Next
           /\ UNCHANGED <<part, ledgerVars, toolVars, letterVars, jobVars>>
        \/ /\ part = "jobs" /\ Pipeline!Next /\ (OneJob \/ TwoEdits)
           /\ UNCHANGED <<part, ledgerVars, toolVars, letterVars, railVars>>

\* What each module says must go on, of the part a behaviour is of.
Fairness ==
    /\ \A p \in {j1, u1, w1} : WF_ledgerVars(part = "ledger" /\ Ledger!Step(p))
    /\ WF_ledgerVars(part = "ledger" /\ Ledger!Reap(j1))
    /\ WF_ledgerVars(part = "ledger" /\ Ledger!Reconcile)
    /\ WF_toolVars(part = "tool" /\ ~Tool!Left /\ Tool!Progress(1))
    /\ WF_letterVars(part = "letter" /\ Letter!Poll)
    /\ \A i \in 1..2 : /\ WF_letterVars(part = "letter" /\ Letter!Serve(i))
                        /\ WF_letterVars(part = "letter" /\ Letter!Answer(i))
    /\ WF_railVars(part = "rail" /\ Rail!Tick)
    /\ \A t \in {x1, x2} : /\ WF_railVars(part = "rail" /\ Rail!Step(t))
                            /\ WF_railVars(part = "rail" /\ Rail!Answered(t))
    /\ \A j \in {j1, j2} : /\ WF_jobVars(part = "jobs" /\ Pipeline!Step(j))
                           /\ WF_jobVars(part = "jobs" /\ Pipeline!ReapRead(j))
                           /\ WF_jobVars(part = "jobs" /\ Pipeline!ReapWrite(j))
    /\ WF_jobVars(part = "jobs" /\ Pipeline!LockExpire)

Spec == Init /\ [][Next]_vars /\ Fairness

-----------------------------------------------------------------------------
(* What the modules state, of the instances above.                         *)

\* The storage counter comes to be what is charged, whatever was killed or overlapped.
DriftHeals == Ledger!DriftHeals

\* However the network, the server and the worker behave: a tool's page does not stay busy,
\* the last signer is not left waiting for the seal, and every tile of the page rail ends
\* with a preview or with the retry button.
NobodyIsLeftWaiting == Tool!RunEnds /\ Letter!SealingEnds /\ Rail!TilesEnd

\* Every job ends: done, failed or called off.
JobSettles == Pipeline!JobSettles

\* Whoever holds the document's lock, it is free again later.
LockFreed == Pipeline!LockFreed
=============================================================================
