------------------------------ MODULE SitePages ------------------------------
(***************************************************************************)
(* What a browser tab keeps outside the document's editor and outside of    *)
(* signing, of parts that share no state: the credentials, the library, the *)
(* Convert and Compare panels, the visitor's consent and updates, and a     *)
(* tool's page.  Pages adds the parts that sign, and what a step of any is. *)
(***************************************************************************)
EXTENDS Integers, Sequences

CONSTANTS None,
          Reqs, MaxToken, MaxGuest,                           \* of ClientSession
          LibraryDocs, WindowSize,                            \* of Library
          PanelDocs, Offsets, Formats, MaxPages,              \* of PanelJobs
          Places, Unsafe, AdFree, SettingsPlace, Uploads,     \* of Visit
          ToolFiles, MaxPicked, MaxRuns, ToolPages            \* of ToolPage

VARIABLES
    issued, alive, usable, guests, works, jwt, guest, notice, req, mint, renewal, login,
    goodbye,
    order, binned, starred, writes, uploads, filter, shown, libraryOffset, hasMore, loading,
    load, stale, more, answered,
    panelsDoc, panelsMode, candidates, other, panelsOffset, report, panelsSelected,
    panelsPage, compare, lastExport, pending, force, convert,
    place, required, ads, stored, writable, choice, visitMode, latch, running, visitFilled,
    leaving, ready, activating, going, lost,
    tool, phase, picked, toolTyped, cached, results, spare, run

sessionVars == <<issued, alive, usable, guests, works, jwt, guest, notice, req, mint,
                 renewal, login, goodbye>>
libraryVars == <<order, binned, starred, writes, uploads, filter, shown, libraryOffset,
                 hasMore, loading, load, stale, more, answered>>
panelsVars == <<panelsDoc, panelsMode, candidates, other, panelsOffset, report,
                panelsSelected, panelsPage, compare, lastExport, pending, force, convert>>
visitVars == <<place, required, ads, stored, writable, choice, visitMode, latch, running,
               visitFilled, leaving, ready, activating, going, lost>>
toolVars == <<tool, phase, picked, toolTyped, cached, results, spare, run>>

Session == INSTANCE ClientSession
Library == INSTANCE Library WITH Docs <- LibraryDocs, PageSize <- WindowSize,
    offset <- libraryOffset
Panels == INSTANCE PanelJobs WITH Docs <- PanelDocs, doc <- panelsDoc, mode <- panelsMode,
    offset <- panelsOffset, selected <- panelsSelected, page <- panelsPage
Visit == INSTANCE Visit WITH Settings <- SettingsPlace, Files <- Uploads,
    mode <- visitMode, filled <- visitFilled
Tool == INSTANCE ToolPage WITH Files <- ToolFiles, PageCount <- ToolPages,
    typed <- toolTyped

ASSUME SiteAssumption ==
  /\ Session!Assumptions /\ Library!Assumptions /\ Panels!Assumptions
  /\ Visit!Assumptions /\ Tool!Assumptions
=============================================================================
